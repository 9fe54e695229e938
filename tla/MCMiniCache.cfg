\* Two events at a time for up to three descriptors, the listening one among them:
\* lists are cut, descriptors are closed and used again, and one client sends
\* without waiting for its answers.
\* The server may wait for ever when every client has left.
SPECIFICATION FairLoopSpec
CONSTANTS
  Patient = {p1}
  Eager = {e1}
  MaxFd = 2
  MaxEpoll = 2
  MaxSent = 2
  Window = 1
INVARIANTS
  NoDataForgotten
  EventsAreFresh
PROPERTY
  PatientAreAnswered
CHECK_DEADLOCK FALSE
