\* Two workers, a queue of one slot and three descriptors: the queue fills and turns
\* clients away, numbers are used again, and one silent client holds one worker for
\* as long as it likes.
\* The server may wait for ever when every client has left.
SPECIFICATION ServerFairSpec
CONSTANTS
  Worker = {w1, w2}
  Getter = {g1}
  Poster = {p1}
  Mute = {m1}
  MaxFd = 3
  Capacity = 1
INVARIANTS
  OneOwner
  NoLostServerWakeup
  AnswersFit
PROPERTY
  EveryClientEnds
CHECK_DEADLOCK FALSE
