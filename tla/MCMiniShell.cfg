\* Five processes: two lines of any kind with a background job in between, so that
\* several children end under one signal.
\* The shell stops at exit.
SPECIFICATION ShellFairSpec
CONSTANTS
  MaxPid = 5
  MaxCtrlC = 1
  ForksMayFail = TRUE
INVARIANTS
  ShellTypeOK
  NoZombieForgotten
  PromptMeansDone
PROPERTY
  PromptReturns
CHECK_DEADLOCK FALSE
