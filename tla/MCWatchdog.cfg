CONSTANTS
  Reload_Default = 3
  Reloads = {2}
SPECIFICATION WatchdogSpec
INVARIANTS EnableStarts
