SPECIFICATION LoopSpec
CONSTANTS
  Patient = {p1}
  Eager = {e1}
  MaxFd = 2
  MaxEpoll = 2
  MaxSent = 2
  Window = 2
INVARIANT
  StaysUp
CHECK_DEADLOCK FALSE
