\* Two producers and three consumers, as in the program, around a queue of two
\* slots: both kinds of thread wait, and the indices go round.
SPECIFICATION FairSpec
CONSTANTS
  Producer = {1, 2}
  Consumer = {c1, c2, c3}
  Tasks = 3
  Capacity = 2
INVARIANTS
  TypeOK
  NoLostWakeup
  LeavesLast
PROPERTIES
  FifoSpec
  AllJoined
