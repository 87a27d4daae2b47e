CONSTANTS
  Levels = 2
  Fields = 2
  TLB_Size = 2
  Tables = {1, 2, 3}
  Root <- MCRoot
  VPNs = {0, 3}
  GuestPrivs = {"U", "S"}
  Boot <- MCBoot
  Edits <- MCEdits
SPECIFICATION MmuSpec
PROPERTIES TlbInvisible AccessRecorded
