SPECIFICATION ShellSpec
CONSTANTS
  MaxPid = 4
  MaxCtrlC = 1
  ForksMayFail = FALSE
PROPERTY
  CtrlCEndsForeground
CHECK_DEADLOCK FALSE
