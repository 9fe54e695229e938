------------------------------ MODULE Programs ------------------------------
(***************************************************************************)
(* Programs of blocks 02, 05 and 06 that run to an end, each by itself:    *)
(* the pipeline of two stages (module Pipeline), the pool of workers       *)
(* (ThreadPool), the counted stock and the kitchen (StockRoom), the entry  *)
(* under a read-write lock (SharedCache), the limiter (Limiter), the       *)
(* counters (Counters), the cache under poll (PollCache), the copies of a  *)
(* file (FileCopy) and the walks of a tree (Walk); and programs of block   *)
(* 03 that signals control (Signals).  A behaviour runs one of them; the   *)
(* others never start.                                                     *)
(***************************************************************************)
EXTENDS Pipeline, TLC

CONSTANTS
  Worker, Main, Tasks,   \* see ThreadPool
  PoolCapacity,          \* the slots of its queue
  TargetItems, Shelf, Diner, Dishes,   \* see StockRoom
  Reader, Writer, ReadIters, WriteIters,   \* see SharedCache
  Request, Permits,      \* see Limiter
  Adder, Iterations,          \* see Counters
  Clients, Streams, MaxItems, ReadMax, BufMax, LineMax,  \* see PollCache
  Original, Old, BufSize, Part, MaxRoom, Interrupts, Faults,   \* see FileCopy
  Trees, Newcomers, Filters, BaseName, MaxOpen, MaxChanges,    \* see Walk
  Daemon, Single, Hits, MaxSent          \* see Signals

ASSUME PoolAssumption ==
  /\ Worker # {} /\ Main \notin Worker
  /\ Tasks \in Nat /\ PoolCapacity \in Nat \ {0}
ASSUME StockAssumption ==
  /\ {TargetItems, Dishes} \subseteq Nat /\ Shelf \in Nat \ {0}
  /\ Diner # {} /\ "cook" \notin Diner
ASSUME EntryAssumption ==
  /\ Reader \cap Writer = {}
  /\ IsFiniteSet(Reader) /\ IsFiniteSet(Writer)
  /\ {ReadIters, WriteIters} \subseteq Nat
ASSUME LimiterAssumption == IsFiniteSet(Request) /\ Permits \in Nat \ {0}
ASSUME CounterAssumption == IsFiniteSet(Adder) /\ Adder # {} /\ Iterations \in Nat
ASSUME CacheAssumption ==
  /\ {Clients, MaxItems, ReadMax, BufMax, LineMax} \subseteq Nat \ {0}
  /\ \A s \in Streams : s \in Seq({s[k] : k \in DOMAIN s})
ASSUME CopyAssumption ==
  /\ {Original, Old} \subseteq Seq(0 .. 255)
  /\ {BufSize, Part} \subseteq Nat \ {0} /\ {MaxRoom, Interrupts, Faults} \subseteq Nat
ASSUME WalkAssumption ==
  /\ {MaxOpen, MaxChanges} \subseteq Nat
  /\ \A c \in Newcomers : c.path \in Seq({c.path[k] : k \in DOMAIN c.path}) \ {<<>>}
  /\ \A tree \in Trees :
       /\ <<>> \in DOMAIN tree
       /\ \A p \in DOMAIN tree :
            /\ p \in Seq({p[k] : k \in DOMAIN p})
            /\ \A k \in 0 .. Len(p) - 1 :
                 SubSeq(p, 1, k) \in DOMAIN tree /\ tree[SubSeq(p, 1, k)].type = "d"
ASSUME SignalAssumption ==
  /\ IsFiniteSet(Daemon) /\ Daemon \cap {"empty", "none"} = {}
  /\ Hits \in Nat \ {0} /\ MaxSent \in Nat

VARIABLES
  chosen,                                                \* the program that runs
  pQ, pStop, pX, pState, pTask, pProcessed, pSumSq,      \* the pool
  sStock, sProduced, sConsumed, sDone, sState, sJoined,  \* the stock, the kitchen
  eValue, eVersion, eHolders, eAt, eIter, eSeen, eReads, eWrites, eJoined,  \* the entry
  lSem, lAt, lActive, lMax, lDone, lJoined,              \* the limiter
  kWay, kCounter, kHolder, kWaiting, kPhase, kAt, kTmp, kIter, kMyPhase, kArrived, kState,
  kJoined,                                               \* the counters
  cDb, cScript, cUnread, cInbuf, cOpen, cTurn, cExit, cHandled,  \* the cache
  fProg, fSame, fSrc, fDst, fPos, fHeld, fFds, fAt, fRc, fRoom, fInterrupts, fFaults,
  fUnseen,                                               \* the copies
  wProg, wFilter, wFirst, wFs, wTouched, wStack, wCur, wAt, wPrinted, wError,  \* the walks
  gProg, gAt, gCaught, gPending, gRun, gCount, gLast, gReload, gOwed, gPidFile, gCause,
  gSent                                                  \* the signals

poolVars == <<pQ, pStop, pX, pState, pTask, pProcessed, pSumSq>>
stockVars == <<sStock, sProduced, sConsumed, sDone, sState, sJoined>>
entryVars == <<eValue, eVersion, eHolders, eAt, eIter, eSeen, eReads, eWrites, eJoined>>
limiterVars == <<lSem, lAt, lActive, lMax, lDone, lJoined>>
cacheVars == <<cDb, cScript, cUnread, cInbuf, cOpen, cTurn, cExit, cHandled>>
counterVars ==
  <<kWay, kCounter, kHolder, kWaiting, kPhase, kAt, kTmp, kIter, kMyPhase, kArrived, kState,
    kJoined>>
copyVars ==
  <<fProg, fSame, fSrc, fDst, fPos, fHeld, fFds, fAt, fRc, fRoom, fInterrupts, fFaults, fUnseen>>
walkVars == <<wProg, wFilter, wFirst, wFs, wTouched, wStack, wCur, wAt, wPrinted, wError>>
signalVars ==
  <<gProg, gAt, gCaught, gPending, gRun, gCount, gLast, gReload, gOwed, gPidFile, gCause, gSent>>
allVars ==
  <<chosen, vars, poolVars, stockVars, entryVars, limiterVars, counterVars, cacheVars,
    copyVars, walkVars, signalVars>>

P == INSTANCE ThreadPool WITH
       Capacity <- PoolCapacity, q <- pQ, stop <- pStop, x <- pX, state <- pState,
       task <- pTask, processed <- pProcessed, sum_sq <- pSumSq

S == INSTANCE StockRoom WITH
       stock <- sStock, produced <- sProduced, consumed <- sConsumed, done <- sDone,
       state <- sState, joined <- sJoined

E == INSTANCE SharedCache WITH
       value <- eValue, version <- eVersion, holders <- eHolders, at <- eAt, iter <- eIter,
       seen <- eSeen, read_ops <- eReads, write_ops <- eWrites, joined <- eJoined

L == INSTANCE Limiter WITH
       sem <- lSem, at <- lAt, active_now <- lActive, max_active <- lMax,
       done_threads <- lDone, joined <- lJoined

C == INSTANCE PollCache WITH
       db <- cDb, script <- cScript, unread <- cUnread, inbuf <- cInbuf, open <- cOpen,
       turn <- cTurn, exit <- cExit, handled <- cHandled

K == INSTANCE Counters WITH
       way <- kWay, counter <- kCounter, holder <- kHolder, waiting <- kWaiting,
       phase <- kPhase, at <- kAt, tmp <- kTmp, iter <- kIter, my_phase <- kMyPhase,
       arrived <- kArrived, state <- kState, joined <- kJoined

F == INSTANCE FileCopy WITH
       prog <- fProg, same <- fSame, src <- fSrc, dst <- fDst, pos <- fPos, held <- fHeld,
       fds <- fFds, at <- fAt, rc <- fRc, room <- fRoom, interrupts <- fInterrupts,
       faults <- fFaults, unseen <- fUnseen

W == INSTANCE Walk WITH
       prog <- wProg, filter <- wFilter, first <- wFirst, fs <- wFs, touched <- wTouched,
       stack <- wStack, cur <- wCur, at <- wAt, printed <- wPrinted, had_error <- wError

G == INSTANCE Signals WITH
       prog <- gProg, at <- gAt, caught <- gCaught, pending <- gPending, run <- gRun,
       count <- gCount, last <- gLast, reload <- gReload, owed <- gOwed,
       pidFile <- gPidFile, cause <- gCause, sent <- gSent

\* One start for each program that is not chosen.
ProgramsInit ==
  /\ chosen \in {"pipeline", "pool", "stock", "kitchen", "entry", "limiter", "counters",
                 "cache", "copy", "walk", "signals"}
  /\ Init /\ P!Init /\ E!Init /\ L!Init
  /\ IF chosen = "kitchen" THEN S!KitchenInit ELSE S!Init
  /\ K!Init /\ (chosen # "counters" => kWay = "bare")
  /\ C!Init /\ (chosen # "cache" => cScript = CHOOSE s \in [1 .. Clients -> Streams] : TRUE)
  /\ F!Init /\ (chosen # "copy" => fProg = "stdio" /\ fRoom = 0)
  /\ W!Init /\ (chosen # "walk" => wProg = "walk" /\ wFirst = CHOOSE t \in Trees : TRUE)
  /\ G!Init /\ (chosen # "signals" => gProg = "counter")

PipelineTurn ==
  /\ chosen = "pipeline" /\ Next
  /\ UNCHANGED <<poolVars, stockVars, entryVars, limiterVars, counterVars, cacheVars,
                 copyVars, walkVars, signalVars>>
PoolTurn ==
  /\ chosen = "pool" /\ P!Next
  /\ UNCHANGED <<vars, stockVars, entryVars, limiterVars, counterVars, cacheVars,
                 copyVars, walkVars, signalVars>>
StockTurn ==
  /\ chosen = "stock" /\ S!Next
  /\ UNCHANGED <<vars, poolVars, entryVars, limiterVars, counterVars, cacheVars,
                 copyVars, walkVars, signalVars>>
KitchenTurn ==
  /\ chosen = "kitchen" /\ S!KitchenNext
  /\ UNCHANGED <<vars, poolVars, entryVars, limiterVars, counterVars, cacheVars,
                 copyVars, walkVars, signalVars>>
EntryTurn ==
  /\ chosen = "entry" /\ E!Next
  /\ UNCHANGED <<vars, poolVars, stockVars, limiterVars, counterVars, cacheVars,
                 copyVars, walkVars, signalVars>>
LimiterTurn ==
  /\ chosen = "limiter" /\ L!Next
  /\ UNCHANGED <<vars, poolVars, stockVars, entryVars, counterVars, cacheVars,
                 copyVars, walkVars, signalVars>>
CountersTurn ==
  /\ chosen = "counters" /\ K!Next
  /\ UNCHANGED <<vars, poolVars, stockVars, entryVars, limiterVars, cacheVars,
                 copyVars, walkVars, signalVars>>
CacheTurn ==
  /\ chosen = "cache" /\ C!Next
  /\ UNCHANGED <<vars, poolVars, stockVars, entryVars, limiterVars, counterVars,
                 copyVars, walkVars, signalVars>>
CopyTurn ==
  /\ chosen = "copy" /\ F!Next
  /\ UNCHANGED <<vars, poolVars, stockVars, entryVars, limiterVars, counterVars,
                 cacheVars, walkVars, signalVars>>
WalkTurn ==
  /\ chosen = "walk" /\ W!Next
  /\ UNCHANGED <<vars, poolVars, stockVars, entryVars, limiterVars, counterVars,
                 cacheVars, copyVars, signalVars>>
SignalsTurn ==
  /\ chosen = "signals" /\ G!Next
  /\ UNCHANGED <<vars, poolVars, stockVars, entryVars, limiterVars, counterVars,
                 cacheVars, copyVars, walkVars>>

ProgramsNext ==
  /\ \/ PipelineTurn \/ PoolTurn \/ StockTurn \/ KitchenTurn \/ EntryTurn
     \/ LimiterTurn \/ CountersTurn \/ CacheTurn \/ CopyTurn \/ WalkTurn
     \/ SignalsTurn
  /\ UNCHANGED chosen

\* Every thread of the program that runs gets the locks and the processor when
\* it is ready.
PipelineFair ==
  /\ WF_vars(chosen = "pipeline" /\ (Feed \/ Join))
  /\ WF_vars(chosen = "pipeline" /\ (Stage1Pop \/ Stage1Push))
  /\ WF_vars(chosen = "pipeline" /\ (Stage2Pop \/ Add))

PoolFair ==
  /\ WF_poolVars(chosen = "pool" /\ (P!Enqueue \/ P!Shutdown \/ P!Join))
  /\ \A w \in Worker : WF_poolVars(chosen = "pool" /\ (P!Dequeue(w) \/ P!Account(w)))

StockFair ==
  /\ WF_stockVars(chosen = "stock" /\ (S!Produce \/ S!Finish))
  /\ WF_stockVars(chosen = "stock" /\ S!Consume)
  /\ WF_stockVars(chosen = "stock" /\ S!Join)

KitchenFair ==
  /\ WF_stockVars(chosen = "kitchen" /\ (S!Cook \/ S!CookGoes))
  /\ WF_stockVars(chosen = "kitchen" /\ (S!LastBell \/ S!KitchenJoin))
  /\ \A d \in Diner : WF_stockVars(chosen = "kitchen" /\ S!Dine(d))

EntryFair ==
  /\ \A t \in Reader \union Writer : WF_entryVars(chosen = "entry" /\ E!ThreadStep(t))
  /\ WF_entryVars(chosen = "entry" /\ E!Join)

LimiterFair ==
  /\ \A r \in Request : WF_limiterVars(chosen = "limiter" /\ L!Request_worker(r))
  /\ WF_limiterVars(chosen = "limiter" /\ L!Join)

\* A thread passes the mutex of the counters a bounded number of times.
CountersFair ==
  /\ \A t \in Adder : WF_counterVars(chosen = "counters" /\ K!TurnStep(t))
  /\ WF_counterVars(chosen = "counters" /\ K!Join)

CopyFair == WF_copyVars(chosen = "copy" /\ F!Next)
WalkFair == WF_walkVars(chosen = "walk" /\ W!Walks)

\* A process goes on, and gets the signals that it does not block.
SignalsFair ==
  \A p \in Daemon \union {Single} :
    /\ WF_signalVars(chosen = "signals" /\ p \in G!Proc /\ G!Works(p))
    /\ WF_signalVars(chosen = "signals" /\ p \in G!Proc /\ G!Deliver(p))

CacheFair == WF_cacheVars(chosen = "cache" /\ C!Next)

ProgramsSpec ==
  /\ ProgramsInit
  /\ [][ProgramsNext]_allVars
  /\ PipelineFair /\ PoolFair /\ StockFair /\ KitchenFair /\ EntryFair /\ LimiterFair
  /\ CountersFair /\ CacheFair /\ CopyFair /\ WalkFair /\ SignalsFair

-----------------------------------------------------------------------------

\* What main of each program finds at its last check, and what its threads may
\* not see before: no task is lost or counted twice between the two locks of the
\* pool; the stock balances; a reader of the entry never sees half of a write;
\* the limiter never lets more threads in than it has permits; the diners eat
\* each dish once; the counters lose what they may lose and no more; the clients
\* of the cache have their answers; a copy or a walk that reports success has left
\* nothing out that it looked at; no two daemons own the pid file and no signal is
\* forgotten but in the gaps that are named.  (The pipeline's check is StreamInOrder.)
ChecksSucceed ==
  /\ chosen = "pool" => P!TotalsAtJoin
  /\ chosen = "stock" => S!StockIsRight
  /\ chosen = "kitchen" => S!KitchenIsRight
  /\ chosen = "entry" => E!ReadsAreWhole
  /\ chosen = "limiter" => L!LimitIsKept
  /\ chosen = "counters" => K!CounterIsRight
  /\ chosen = "cache" => C!AnswersInOrder
  /\ chosen = "copy" => F!CopyIsHonest
  /\ chosen = "walk" => W!WalkIsHonest
  /\ chosen = "signals" => G!SignalsAreKept

\* All programs end: no worker and no stage sleeps through the stop or the
\* sentinel, no one sleeps beside a free slot, a dish or a free lock, no permit is
\* missing for the last thread, no barrier keeps a thread that all have reached, the
\* loop under poll leaves no descriptor open, and neither interruptions nor a
\* changing tree keep a copy or a walk for ever; what SIGTERM is sent to ends, or
\* sits in a pause() that it came too early for.
ProgramsEnd ==
  /\ chosen = "pipeline" => PipelineEnds
  /\ chosen = "pool" => P!PoolEnds
  /\ chosen \in {"stock", "kitchen"} => <>sJoined
  /\ chosen = "entry" => <>eJoined
  /\ chosen = "limiter" => <>lJoined
  /\ chosen = "counters" => <>kJoined
  /\ chosen = "cache" => <>(cExit # "running")
  /\ chosen = "copy" => <>(fAt = "end")
  /\ chosen = "walk" => <>(wAt = "end")
  /\ chosen = "signals" => G!StopIsKept
-----------------------------------------------------------------------------
(* The values of the run.  Streams for the cache: keys that two clients    *)
(* share, a table that is full with one key, lines that are empty, short,  *)
(* long or never ended, at every limit and cut by reads of three words.    *)
(* Trees for the walks: a file in the place of the base, directories that  *)
(* may not be read, that are too deep, that come, go and change place with *)
(* files, and a link.                                                      *)

\* PollCache's NL.
NewLine == "newline"

MCStreams == {
  <<"SET", "a", "1", NewLine, "GET", "a", NewLine>>,
  <<"SET", "a", "2", NewLine, "DEL", "a", NewLine, "GET", "a", NewLine>>,
  <<"SET", "b", "1", NewLine, "GET", "b", NewLine, "SET", "b", "2", NewLine, "GET", "b", NewLine>>,
  <<"DEL", "a", NewLine, NewLine, "SET", "a", NewLine, "WHAT", "a", NewLine>>,
  <<"GET", "a", "b", NewLine, "DEL", NewLine, "SET", "b", "1", "2", NewLine, "GET">>,
  <<"SET", "a", "1", "x", "x", NewLine, "GET", "a", NewLine>>,  \* a line at LineMax
  <<"SET", "a", "1", "x", "x", "x">>,                    \* a tail below BufMax
  <<"SET", "a", "1", "x", "x", "x", "x">>,               \* one at BufMax
  <<NewLine, "SET", "a", "1", "x", "x", "x", NewLine, "GET">>,
  <<>> }

MCOriginal == <<1, 2, 3>>
MCOld == <<9>>

Dir == [type |-> "d", size |-> 1, readable |-> TRUE]
Closed == [type |-> "d", size |-> 1, readable |-> FALSE]
File(n) == [type |-> "f", size |-> n, readable |-> TRUE]
Link == [type |-> "l", size |-> 1, readable |-> TRUE]

MCTrees == {
  (<<>> :> Dir) @@ (<<"a">> :> Dir) @@ (<<"b">> :> File(1)) @@ (<<"a", "a">> :> File(2))
    @@ (<<"a", "b">> :> Dir) @@ (<<"a", "b", "a">> :> File(1)),
  (<<>> :> Dir) @@ (<<"a">> :> Dir) @@ (<<"b">> :> Closed) @@ (<<"a", "a">> :> Link)
    @@ (<<"b", "b">> :> File(1)),
  <<>> :> File(1) }

MCNewcomers == {
  [path |-> <<"b">>, entry |-> Dir], [path |-> <<"a">>, entry |-> File(1)],
  [path |-> <<"b", "a">>, entry |-> File(2)], [path |-> <<"a", "c">>, entry |-> File(1)],
  [path |-> <<"a">>, entry |-> Dir], [path |-> <<"a", "a">>, entry |-> Dir] }

NoFilter == [name |-> {}, type |-> {}, size |-> {}]
MCFilters == {
  NoFilter, [NoFilter EXCEPT !.name = {"a"}], [NoFilter EXCEPT !.type = {"f"}],
  [NoFilter EXCEPT !.size = {1}] }
=============================================================================
