\* The pipeline: queues of three slots and nine items, so that both fill and empty,
\* the indices go round more than once and the sentinel waits for a slot.  The pool:
\* three workers, four tasks and two slots, so that main and workers wait and the
\* stop comes while both may.  The stock: five items and a
\* shelf for two.  The entry: two readers, one turn each, and two writers, two turns each.
\* The limiter: four threads, two permits.  The cache:
\* two clients with each pair of streams of MCStreams, one entry.  The kitchen:
\* three diners, four dishes.  The counters: three threads, two turns.  The copies:
\* three bytes, a buffer for two, a disk that takes fewer, as many or more, two
\* interruptions, one failure.  The walks: the trees of MCTrees, two changes, two
\* directories open at a time, so that a third is one too many.  The
\* signals: two daemons, three signals, one more than the shield resists.
SPECIFICATION ProgramsSpec
CONSTANTS
  Items = 9
  Capacity = 3
  Worker = {w1, w2, w3}
  Main = main
  Tasks = 4
  PoolCapacity = 2
  TargetItems = 5
  Shelf = 2
  Reader = {d1, d2}
  Writer = {t1, t2}
  ReadIters = 1
  WriteIters = 2
  Request = {r1, r2, r3, r4}
  Permits = 2
  Clients = 2
  Streams <- MCStreams
  MaxItems = 1
  ReadMax = 3
  BufMax = 7
  LineMax = 5
  Diner = {d1, d2, d3}
  Dishes = 4
  Adder = {a1, a2, a3}
  Iterations = 2
  Original <- MCOriginal
  Old <- MCOld
  BufSize = 2
  Part = 1
  MaxRoom = 4
  Interrupts = 2
  Faults = 1
  Trees <- MCTrees
  Newcomers <- MCNewcomers
  Filters <- MCFilters
  BaseName = "."
  MaxOpen = 2
  MaxChanges = 2
  Daemon = {s1, s2}
  Single = s1
  Hits = 2
  MaxSent = 3
INVARIANTS
  ChecksSucceed
  StreamInOrder
PROPERTY
  ProgramsEnd
