CONSTANTS
  TaskSlots = 2
  Wrap = 8
  Bursts = {1}
  Sleeps = {3, 6}
SPECIFICATION RtosSpec
PROPERTIES SleepLasts
CHECK_DEADLOCK FALSE
