---------------------------- MODULE ServiceProofs ----------------------------
(***************************************************************************)
(* Theorems about the servers that keep counts and tables, each by itself: *)
(* minicloud-runner, for every capacity file that loads and every set of   *)
(* requests (its memory stays within the natural numbers, it implements    *)
(* the abstract budget of Admission, and it serves first come, first       *)
(* served); minicloud-monitor, for any events and any number of them (its  *)
(* report is true of the events that came); the table of minicache, which  *)
(* implements a bounded map for any number of entries, keys and values;    *)
(* the event loop of minicache, for any number of clients, descriptors     *)
(* and lines and any length of the lists that epoll_wait returns: no edge  *)
(* is lost, and no event reaches another connection than the one it rose   *)
(* for; and minicloud-registry and minicloud-vault, whose answers are      *)
(* those that their files call for, for any files, tables and requests.    *)
(***************************************************************************)
EXTENDS Services, MiniCache, FiniteSetTheorems, FunctionTheorems

\* The capacity file of this runner gives a positive number for each key.
LEMMA FileValues ==
  \A k \in CapacityKeys : LoadCapacity(File)[k] \in Nat \ {0}
BY FileAssumption, LoadedValues

\* A runner that has just started has the file's capacity and no jobs.
LEMMA FreshType == FreshRunner(File) \in RunnerMemory
BY FileAssumption, FreshIsRunnerMemory

\* The state of the runner is always of its type: in particular free CPU and
\* free memory never become negative.
THEOREM RunnerTypeCorrect == Spec => []TypeOK
<1>1. Init => TypeOK
  <2> SUFFICES ASSUME Init PROVE TypeOK
    OBVIOUS
  <2>1. up \in BOOLEAN
    BY DEF Init
  <2>. QED
    BY <2>1, FreshType DEF Init, TypeOK
<1>2. TypeOK /\ [Next]_vars => TypeOK'
  <2> SUFFICES ASSUME TypeOK, [Next]_vars PROVE TypeOK'
    OBVIOUS
  <2>1. CASE Start
    BY <2>1, FreshType DEF Start, TypeOK
  <2>2. CASE BadRequest
    BY <2>2 DEF BadRequest, TypeOK
  <2>3. CASE Consult
    BY <2>3 DEF Consult, TypeOK
  <2>4. ASSUME NEW q \in RunRequests, Run(q) PROVE TypeOK'
    <3>1. mem' \in RunnerMemory
      BY <2>4, RequestAssumption, AfterRunType DEF Run, TypeOK
    <3>2. reply' \in {0, 200, 400, 404, 409}
      BY <2>4 DEF Run, StatusOfVerdict
    <3>3. [q |-> q, verdict |-> Verdict(mem, q)]
             \in [q : RunRequests, verdict : Verdicts]
      BY VerdictType
    <3>4. log' \in Seq([q : RunRequests, verdict : Verdicts])
      BY <2>4, <3>3 DEF Run, TypeOK
    <3>. QED
      BY <2>4, <3>1, <3>2, <3>4 DEF Run, TypeOK
  <2>5. CASE NotFound
    BY <2>5 DEF NotFound, TypeOK
  <2>6. CASE Stop
    <3>1. up' \in BOOLEAN
      BY <2>6 DEF Stop
    <3>. QED
      BY <2>6, <3>1, FreshType DEF Stop, TypeOK
  <2>7. CASE UNCHANGED vars
    BY <2>7 DEF vars, TypeOK
  <2>. QED
    BY <2>1, <2>2, <2>3, <2>4, <2>5, <2>6, <2>7 DEF Next
<1>. QED
  BY <1>1, <1>2, PTL DEF Spec

\* The limits the memory carries are the file's: what is missing from the
\* free capacity has been granted.
WithinFile ==
  /\ mem.max_jobs = LoadCapacity(File)["max_parallel_jobs"]
  /\ mem.cpu_free <= LoadCapacity(File)["cpu_free_milli"]
  /\ mem.mem_free <= LoadCapacity(File)["mem_free_mb"]

\* The limits in memory are those of the file in every reachable state.
LEMMA StaysWithinFile == Spec => []WithinFile
<1> USE DEF WithinFile
<1>1. Init => WithinFile
  BY FileValues DEF Init, FreshRunner, CapacityKeys
<1>2. TypeOK /\ WithinFile /\ [Next]_vars => WithinFile'
  <2> SUFFICES ASSUME TypeOK, WithinFile, [Next]_vars PROVE WithinFile'
    OBVIOUS
  <2>1. CASE Start \/ Stop
    BY <2>1, FileValues
       DEF Start, Stop, FreshRunner, CapacityKeys
  <2>2. ASSUME NEW q \in RunRequests, Run(q) PROVE WithinFile'
    <3>1. CASE Verdict(mem, q) = "accept"
      <4>1. /\ q.cpu \in Nat \ {0} /\ q.mem \in Nat \ {0}
            /\ mem'.cpu_free = mem.cpu_free - q.cpu
            /\ mem'.mem_free = mem.mem_free - q.mem
            /\ mem'.max_jobs = mem.max_jobs
        BY <2>2, <3>1, RequestAssumption, AcceptedFits, BookFields
           DEF Run, AfterRun, TypeOK
      <4>2. /\ {mem.cpu_free, mem.mem_free} \subseteq Int
            /\ {LoadCapacity(File)["cpu_free_milli"],
                LoadCapacity(File)["mem_free_mb"]} \subseteq Int
        BY FileValues DEF TypeOK, RunnerMemory, CapacityKeys
      <4>3. \A free, asked, limit \in Int :
              asked \in Nat /\ free <= limit => free - asked <= limit
        OBVIOUS
      <4>. HIDE DEF WithinFile
      <4>4. /\ mem.cpu_free - q.cpu <= LoadCapacity(File)["cpu_free_milli"]
            /\ mem.mem_free - q.mem <= LoadCapacity(File)["mem_free_mb"]
        BY <4>1, <4>2, <4>3 DEF WithinFile
      <4>. QED
        BY <4>1, <4>4 DEF WithinFile
    <3>2. CASE Verdict(mem, q) # "accept"
      BY <2>2, <3>2, RejectFields DEF Run, TypeOK
    <3>. QED
      BY <3>1, <3>2
  <2>3. CASE UNCHANGED mem
    BY <2>3
  <2>. QED
    BY <2>1, <2>2, <2>3 DEF Next, BadRequest, Consult, NotFound, vars
<1>. QED
  BY <1>1, <1>2, RunnerTypeCorrect, PTL DEF Spec

\* The runner implements Admission: an accepted /run is a Grant, starting and
\* stopping forget every grant, every other request leaves the budget alone.
THEOREM RunnerImplementsBudget == Spec => BudgetSpec
<1> USE DEF Budget!avars
<1>1. Init => Budget!Init
  BY FileValues
     DEF Init, FreshRunner, Budget!Init, CapacityKeys
<1>2. TypeOK /\ WithinFile /\ [Next]_vars => [Budget!Next]_(Budget!avars)
  <2> SUFFICES ASSUME TypeOK, WithinFile, [Next]_vars
               PROVE  [Budget!Next]_(Budget!avars)
    OBVIOUS
  <2>1. CASE Start \/ Stop
    BY <2>1, FileValues
       DEF Start, Stop, FreshRunner, Budget!Next, Budget!Forget,
           CapacityKeys
  <2>2. ASSUME NEW q \in RunRequests, Run(q)
        PROVE  [Budget!Next]_(Budget!avars)
    <3>1. CASE Verdict(mem, q) = "accept"
      <4>1. /\ q.cpu \in Nat \ {0} /\ q.mem \in Nat \ {0}
            /\ q.cpu <= mem.cpu_free /\ q.mem <= mem.mem_free
            /\ mem.accepted < mem.max_jobs
        BY <3>1, RequestAssumption, AcceptedFits DEF TypeOK
      <4>2. /\ mem'.cpu_free = mem.cpu_free - q.cpu
            /\ mem'.mem_free = mem.mem_free - q.mem
            /\ mem'.accepted = mem.accepted + 1
        BY <2>2, <3>1, RequestAssumption, BookFields DEF Run, AfterRun, TypeOK
      <4>3. /\ mem.cpu_free \in Nat /\ mem.mem_free \in Nat
            /\ LoadCapacity(File)["cpu_free_milli"] \in Nat
            /\ LoadCapacity(File)["mem_free_mb"] \in Nat
        BY FileValues DEF TypeOK, RunnerMemory, CapacityKeys
      <4>4. Budget!Grant
        BY <4>1, <4>2, <4>3 DEF Budget!Grant, WithinFile
      <4>. QED
        BY <4>4 DEF Budget!Next
    <3>2. CASE Verdict(mem, q) # "accept"
      BY <2>2, <3>2, RejectFields DEF Run, TypeOK
    <3>. QED
      BY <3>1, <3>2
  <2>3. CASE UNCHANGED mem
    BY <2>3
  <2>. QED
    BY <2>1, <2>2, <2>3 DEF Next, BadRequest, Consult, NotFound, vars
<1>. QED
  BY <1>1, <1>2, RunnerTypeCorrect, StaysWithinFile, PTL
     DEF Spec, BudgetSpec, Budget!Spec

-----------------------------------------------------------------------------
(* The runner's decisions.  What is free is what the file gives less the   *)
(* total of the requests accepted so far, so the verdict on a request can  *)
(* be told from the history alone; a decision once taken stays right       *)
(* because the history only grows.                                         *)

Cpus == [i \in 1 .. Len(log) |-> log[i].q.cpu]
Mems == [i \in 1 .. Len(log) |-> log[i].q.mem]

\* A well-formed request for which there is room beside jobs accepted ones that hold cpu
\* and memory.
Fits(q, jobs, cpu, memory) ==
  /\ q.complete
  /\ ~InvalidLimits(q)
  /\ jobs < LoadCapacity(File)["max_parallel_jobs"]
  /\ cpu + q.cpu <= LoadCapacity(File)["cpu_free_milli"]
  /\ memory + q.mem <= LoadCapacity(File)["mem_free_mb"]

\* Request i was accepted exactly when it fits beside the accepted ones before it.
Deserved(i) ==
  log[i].verdict = "accept" <=>
    Fits(log[i].q, Cardinality(Granted(i - 1)),
         Total(Cpus, Granted(i - 1)), Total(Mems, Granted(i - 1)))

Served ==
  /\ mem.max_jobs = LoadCapacity(File)["max_parallel_jobs"]
  /\ mem.accepted = Cardinality(Granted(Len(log)))
  /\ mem.cpu_free = LoadCapacity(File)["cpu_free_milli"] - Total(Cpus, Granted(Len(log)))
  /\ mem.mem_free = LoadCapacity(File)["mem_free_mb"] - Total(Mems, Granted(Len(log)))
  /\ \A i \in Granted(Len(log)) : log[i].q.cpu \in Nat /\ log[i].q.mem \in Nat
  /\ \A i \in 1 .. Len(log) : Deserved(i)

\* The accepted requests among the first n are finitely many, and ask for natural numbers.
LEMMA GrantedFacts ==
  ASSUME TypeOK, Served, NEW n \in 0 .. Len(log)
  PROVE  /\ IsFiniteSet(Granted(n)) /\ Granted(n) \in SUBSET (1 .. Len(log))
         /\ \A i \in Granted(n) : Cpus[i] \in Nat /\ Mems[i] \in Nat
         /\ Cardinality(Granted(n)) \in Nat
         /\ Total(Cpus, Granted(n)) \in Nat /\ Total(Mems, Granted(n)) \in Nat
<1>1. Len(log) \in Nat /\ n \in Nat /\ n <= Len(log)
  BY DEF TypeOK
<1>2. Granted(n) \in SUBSET (1 .. n) /\ Granted(n) \in SUBSET Granted(Len(log))
  BY <1>1 DEF Granted
<1>3. Granted(n) \in SUBSET (1 .. Len(log))
  BY <1>1, <1>2
<1>4. IsFiniteSet(1 .. n)
  <2>1. 1 \in Int /\ n \in Int
    BY <1>1
  <2>. QED
    BY ONLY <2>1, FS_Interval
<1>5. IsFiniteSet(Granted(n))
  BY <1>2, <1>4, FS_Subset
<1>6. \A i \in Granted(n) : Cpus[i] \in Nat /\ Mems[i] \in Nat
  BY <1>2, <1>3 DEF Served, Cpus, Mems
<1>. QED
  BY <1>3, <1>5, <1>6, TotalFacts, FS_CardinalityType

\* A request more leaves the history before it as it was.
LEMMA HistoryStays ==
  ASSUME TypeOK, Served, NEW r, log' = Append(log, r), NEW n \in 0 .. Len(log)
  PROVE  /\ Granted(n)' = Granted(n)
         /\ \A i \in 1 .. Len(log) : log'[i] = log[i]
         /\ Total(Cpus', Granted(n)) = Total(Cpus, Granted(n))
         /\ Total(Mems', Granted(n)) = Total(Mems, Granted(n))
<1>1. Len(log) \in Nat /\ n \in Nat /\ n <= Len(log) /\ Len(log') = Len(log) + 1
  BY DEF TypeOK
<1>2. \A i \in 1 .. Len(log) : log'[i] = log[i]
  BY <1>1 DEF TypeOK
<1>3. \A i \in 1 .. n : log'[i] = log[i]
  BY <1>1, <1>2
<1>4. Granted(n)' = Granted(n)
  BY <1>3 DEF Granted
<1>5. \A i \in 1 .. Len(log) : i \in 1 .. Len(log')
  BY <1>1
<1>6. \A i \in 1 .. Len(log) : Cpus'[i] = Cpus[i] /\ Mems'[i] = Mems[i]
  BY <1>2, <1>5 DEF Cpus, Mems
<1>7. \A i \in Granted(n) : i \in 1 .. Len(log)
  BY GrantedFacts
<1>. QED
  BY <1>2, <1>4, <1>6, <1>7, TotalSame

\* The verdict on a request, in terms of what was accepted before.
LEMMA VerdictOfHistory ==
  ASSUME TypeOK, Served, NEW q \in RunRequests
  PROVE  Verdict(mem, q) = "accept" <=>
           Fits(q, Cardinality(Granted(Len(log))),
                Total(Cpus, Granted(Len(log))), Total(Mems, Granted(Len(log))))
<1> DEFINE jobs == Cardinality(Granted(Len(log)))
           cpu == Total(Cpus, Granted(Len(log)))
           memory == Total(Mems, Granted(Len(log)))
           J == LoadCapacity(File)["max_parallel_jobs"]
           C == LoadCapacity(File)["cpu_free_milli"]
           M == LoadCapacity(File)["mem_free_mb"]
<1>1. q.cpu \in Int /\ q.mem \in Int
  BY RequestAssumption DEF RunRequest
<1>2. Len(log) \in 0 .. Len(log)
  BY DEF TypeOK
<1>3. jobs \in Nat /\ cpu \in Nat /\ memory \in Nat
  BY <1>2, GrantedFacts
<1>4. J \in Nat /\ C \in Nat /\ M \in Nat
  BY FileValues DEF CapacityKeys
<1>5. /\ mem.max_jobs = J /\ mem.accepted = jobs
      /\ mem.cpu_free = C - cpu /\ mem.mem_free = M - memory
  BY DEF Served
<1>6. Verdict(mem, q) = "accept" <=>
        q.complete /\ ~InvalidLimits(q) /\ ~NoCapacity(mem, q)
  BY DEF Verdict
<1> HIDE DEF jobs, cpu, memory, J, C, M
<1>7. ~NoCapacity(mem, q) <=> jobs < J /\ cpu + q.cpu <= C /\ memory + q.mem <= M
  BY <1>1, <1>3, <1>4, <1>5 DEF NoCapacity
<1>. QED
  BY <1>6, <1>7 DEF Fits, jobs, cpu, memory, J, C, M

\* A request is served: the verdict is deserved, and the totals move with the memory.
LEMMA RunServed ==
  ASSUME TypeOK, Served, NEW q \in RunRequests, Run(q)
  PROVE  Served'
<1> DEFINE n == Len(log)
           G == Granted(n)
           v == Verdict(mem, q)
<1>1. /\ mem' = AfterRun(mem, q) /\ log' = Append(log, [q |-> q, verdict |-> v])
      /\ mem \in RunnerMemory /\ log \in Seq([q : RunRequests, verdict : Verdicts])
  BY DEF Run, TypeOK
<1>2. /\ n \in Nat /\ Len(log') = n + 1
      /\ log'[n + 1].q = q /\ log'[n + 1].verdict = v
      /\ \A i \in 1 .. n : log'[i] = log[i]
  BY <1>1
<1>3. n \in 0 .. n /\ \A i \in 1 .. n + 1 : i - 1 \in 0 .. n
  BY <1>2
<1>4. /\ n + 1 \notin G
      /\ v = "accept" => Granted(Len(log))' = G \union {n + 1}
      /\ v # "accept" => Granted(Len(log))' = G
  <2>1. \A i : i \in 1 .. Len(log') <=> i \in 1 .. n \/ i = n + 1
    BY <1>2
  <2>2. \A i \in 1 .. Len(log') :
          log'[i].verdict = "accept" <=> i \in G \/ (i = n + 1 /\ v = "accept")
    BY <1>2, <2>1 DEF Granted
  <2>3. G \in SUBSET (1 .. n) /\ n + 1 \notin 1 .. n
    BY <1>2 DEF Granted
  <2>. QED
    BY <2>1, <2>2, <2>3 DEF Granted
<1>5. \A i \in 1 .. n + 1 :
        /\ Granted(i - 1)' = Granted(i - 1)
        /\ Total(Cpus, Granted(i - 1))' = Total(Cpus, Granted(i - 1))
        /\ Total(Mems, Granted(i - 1))' = Total(Mems, Granted(i - 1))
  BY <1>1, <1>3, HistoryStays
<1>6. \A i \in 1 .. n : Deserved(i)'
  <2> SUFFICES ASSUME NEW i \in 1 .. n PROVE Deserved(i)'
    OBVIOUS
  <2>1. Deserved(i) /\ log'[i] = log[i] /\ i \in 1 .. n + 1
    BY <1>2 DEF Served
  <2>. QED
    BY <1>5, <2>1 DEF Deserved
<1>7. ASSUME NEW i \in 1 .. n + 1, i = n + 1 PROVE Deserved(i)'
  <2>1. i - 1 = n /\ log'[i].q = q /\ log'[i].verdict = v
    BY <1>2, <1>7
  <2>2. /\ Granted(i - 1)' = G
        /\ Total(Cpus, Granted(i - 1))' = Total(Cpus, G)
        /\ Total(Mems, Granted(i - 1))' = Total(Mems, G)
    BY <1>5, <2>1
  <2>3. v = "accept" <=> Fits(q, Cardinality(G), Total(Cpus, G), Total(Mems, G))
    BY VerdictOfHistory
  <2>. QED
    BY <2>1, <2>2, <2>3 DEF Deserved
<1>8. \A i \in 1 .. Len(log') : i \in 1 .. n \/ (i \in 1 .. n + 1 /\ i = n + 1)
  BY <1>2
<1>9. /\ IsFiniteSet(G) /\ G \in SUBSET (1 .. n)
      /\ \A i \in G : Cpus[i] \in Nat /\ Mems[i] \in Nat
      /\ Cardinality(G) \in Nat /\ Total(Cpus, G) \in Nat /\ Total(Mems, G) \in Nat
  BY <1>3, GrantedFacts
<1>10. /\ Cpus'[n + 1] = q.cpu /\ Mems'[n + 1] = q.mem
       /\ Total(Cpus', G) = Total(Cpus, G) /\ Total(Mems', G) = Total(Mems, G)
       /\ \A i \in G : Cpus'[i] \in Nat /\ Mems'[i] \in Nat
  <2>1. n + 1 \in 1 .. Len(log') /\ \A i \in 1 .. n : i \in 1 .. Len(log')
    BY <1>2
  <2>2. \A i \in 1 .. n : Cpus'[i] = Cpus[i] /\ Mems'[i] = Mems[i]
    BY <1>2, <2>1 DEF Cpus, Mems
  <2>3. Cpus'[n + 1] = q.cpu /\ Mems'[n + 1] = q.mem
    BY <1>2, <2>1 DEF Cpus, Mems
  <2>. QED
    BY <1>9, <2>2, <2>3, TotalSame
<1>11. \A i \in G : log[i].q.cpu \in Nat /\ log[i].q.mem \in Nat /\ log'[i] = log[i]
  BY <1>2, <1>9 DEF Served
<1>14. mem \in RunnerMemory /\ q \in RunRequest
  BY RequestAssumption DEF TypeOK
<1>15. \A i \in 1 .. Len(log') : Deserved(i)'
  BY <1>6, <1>7, <1>8
<1>12. CASE v = "accept"
  <2>1. q.cpu \in Nat /\ q.mem \in Nat
    BY <1>12, <1>14, AcceptedFits
  <2>2. mem' = Book(mem, q)
    BY <1>1, <1>12 DEF AfterRun
  <2>3. /\ mem'.cpu_free = mem.cpu_free - q.cpu /\ mem'.mem_free = mem.mem_free - q.mem
        /\ mem'.accepted = mem.accepted + 1 /\ mem'.max_jobs = mem.max_jobs
    BY <1>12, <1>14, <2>2, BookFields
  <2>4. Granted(Len(log))' = G \union {n + 1}
    BY <1>4, <1>12
  <2> HIDE DEF G, n, v
  <2>5. /\ Total(Cpus', G \union {n + 1}) = Total(Cpus', G) + q.cpu
        /\ Total(Mems', G \union {n + 1}) = Total(Mems', G) + q.mem
    <3> DEFINE cpus == Cpus'
               mems == Mems'
               y == n + 1
    <3>1. /\ IsFiniteSet(G) /\ y \notin G
          /\ \A i \in G : cpus[i] \in Nat /\ mems[i] \in Nat
          /\ cpus[y] = q.cpu /\ mems[y] = q.mem
      BY <1>4, <1>9, <1>10
    <3> HIDE DEF cpus, mems, y
    <3>2. Total(cpus, G \union {y}) = Total(cpus, G) + cpus[y]
      BY <2>1, <3>1, TotalOfOneMore
    <3>3. Total(mems, G \union {y}) = Total(mems, G) + mems[y]
      BY <2>1, <3>1, TotalOfOneMore
    <3>. QED
      BY <3>1, <3>2, <3>3 DEF cpus, mems, y
  <2>6. Cardinality(G \union {n + 1}) = Cardinality(G) + 1
    BY <1>4, <1>9, FS_AddElement
  <2>7. /\ mem.max_jobs = LoadCapacity(File)["max_parallel_jobs"]
        /\ mem.accepted = Cardinality(G)
        /\ mem.cpu_free = LoadCapacity(File)["cpu_free_milli"] - Total(Cpus, G)
        /\ mem.mem_free = LoadCapacity(File)["mem_free_mb"] - Total(Mems, G)
    BY DEF Served, G, n
  <2>8. /\ LoadCapacity(File)["cpu_free_milli"] \in Nat
        /\ LoadCapacity(File)["mem_free_mb"] \in Nat
    BY FileValues DEF CapacityKeys
  <2>9. /\ mem'.cpu_free = LoadCapacity(File)["cpu_free_milli"]
                             - Total(Cpus', G \union {n + 1})
        /\ mem'.mem_free = LoadCapacity(File)["mem_free_mb"]
                             - Total(Mems', G \union {n + 1})
        /\ mem'.accepted = Cardinality(G \union {n + 1})
        /\ mem'.max_jobs = LoadCapacity(File)["max_parallel_jobs"]
    BY <1>9, <1>10, <2>1, <2>3, <2>5, <2>6, <2>7, <2>8
  <2>10. \A i \in G \union {n + 1} : log'[i].q.cpu \in Nat /\ log'[i].q.mem \in Nat
    BY <1>2, <1>11, <2>1 DEF n
  <2>. QED
    BY <1>15, <2>4, <2>9, <2>10 DEF Served
<1>13. CASE v # "accept"
  <2>1. /\ mem'.cpu_free = mem.cpu_free /\ mem'.mem_free = mem.mem_free
        /\ mem'.accepted = mem.accepted /\ mem'.max_jobs = mem.max_jobs
    BY <1>1, <1>13, <1>14, RejectFields
  <2>2. Granted(Len(log))' = G
    BY <1>4, <1>13
  <2>. QED
    BY <1>10, <1>11, <1>15, <2>1, <2>2 DEF Served
<1>. QED
  BY <1>12, <1>13

\* A runner that has just started has accepted nothing.
LEMMA FreshServed ==
  ASSUME mem = FreshRunner(File), log = <<>>
  PROVE  Served
<1>1. Granted(Len(log)) = {} /\ 1 .. Len(log) = {}
  BY DEF Granted
<1>2. /\ Total(Cpus, {}) = 0 /\ Total(Mems, {}) = 0 /\ Cardinality({}) = 0
  <2>1. IsFiniteSet({}) /\ Cardinality({}) = 0
    BY FS_EmptySet
  <2>. QED
    BY <2>1, TotalFacts
<1>3. /\ LoadCapacity(File)["cpu_free_milli"] \in Nat
      /\ LoadCapacity(File)["mem_free_mb"] \in Nat
  BY FileValues DEF CapacityKeys
<1>4. /\ mem.max_jobs = LoadCapacity(File)["max_parallel_jobs"] /\ mem.accepted = 0
      /\ mem.cpu_free = LoadCapacity(File)["cpu_free_milli"] - 0
      /\ mem.mem_free = LoadCapacity(File)["mem_free_mb"] - 0
  BY <1>3 DEF FreshRunner
<1>5. \A i \in Granted(Len(log)) : FALSE
  BY <1>1
<1>6. \A i \in 1 .. Len(log) : FALSE
  BY <1>1
<1>. QED
  BY <1>1, <1>2, <1>4, <1>5, <1>6 DEF Served

\* What the runner has given away is what its history says, in every reachable state.
LEMMA RunnerServes == Spec => []Served
<1>1. Init => Served
  BY FreshServed DEF Init
<1>2. TypeOK /\ Served /\ [Next]_vars => Served'
  <2> SUFFICES ASSUME TypeOK, Served, [Next]_vars PROVE Served'
    OBVIOUS
  <2>1. ASSUME NEW q \in RunRequests, Run(q) PROVE Served'
    BY <2>1, RunServed
  <2>2. CASE Start \/ Stop
    <3>1. (mem = FreshRunner(File) /\ log = <<>> => Served)'
      BY FreshServed, PTL
    <3>. QED
      BY <2>2, <3>1 DEF Start, Stop
  <2>3. CASE UNCHANGED <<mem, log>>
    BY <2>3 DEF Served, Deserved, Granted, Cpus, Mems
  <2>. QED
    BY <2>1, <2>2, <2>3 DEF Next, BadRequest, Consult, NotFound, vars
<1>. QED
  BY <1>1, <1>2, RunnerTypeCorrect, PTL DEF Spec

\* What the accepted requests among the first n ask for, as MapThenSumSet adds it up.
LEMMA SumsAreTotals ==
  ASSUME TypeOK, Served, NEW n \in 0 .. Len(log)
  PROVE  /\ MapThenSumSet(LAMBDA j : log[j].q.cpu, Granted(n)) = Total(Cpus, Granted(n))
         /\ MapThenSumSet(LAMBDA j : log[j].q.mem, Granted(n)) = Total(Mems, Granted(n))
<1> DEFINE
    S == Granted(n)
    Rec(g) == g = [s \in SUBSET S |->
                     IF s = {} THEN 0
                     ELSE log[CHOOSE x \in s : TRUE].q.cpu
                            + g[s \ {CHOOSE x \in s : TRUE}]]
    G == CHOOSE g : Rec(g)
    MemRec(g) == g = [s \in SUBSET S |->
                        IF s = {} THEN 0
                        ELSE log[CHOOSE x \in s : TRUE].q.mem
                               + g[s \ {CHOOSE x \in s : TRUE}]]
    MemG == CHOOSE g : MemRec(g)
<1>1. MapThenSumSet(LAMBDA j : log[j].q.cpu, S) = G[S]
  BY DEF MapThenSumSet, MapThenFoldSet
<1>2. MapThenSumSet(LAMBDA j : log[j].q.mem, S) = MemG[S]
  BY DEF MapThenSumSet, MapThenFoldSet
<1>3. /\ IsFiniteSet(S) /\ S \in SUBSET (1 .. Len(log))
      /\ \A i \in S : Cpus[i] \in Nat /\ Mems[i] \in Nat
  BY GrantedFacts
<1>4. \A i \in S : Cpus[i] = log[i].q.cpu /\ Mems[i] = log[i].q.mem
  BY <1>3 DEF Cpus, Mems
<1> HIDE DEF S
<1>5. \A s \in SUBSET S : s # {} => (CHOOSE x \in s : TRUE) \in S
  OBVIOUS
<1>6. (\A g : Rec(g) <=> SumsUp(g, Cpus, S)) /\ (\A g : MemRec(g) <=> SumsUp(g, Mems, S))
  BY <1>4, <1>5 DEF SumsUp
<1> HIDE DEF Rec, MemRec
<1>7. (\E g : SumsUp(g, Cpus, S)) /\ (\E g : SumsUp(g, Mems, S))
  BY <1>3, TotalIsSum
<1>8. Rec(G) /\ MemRec(MemG)
  BY <1>6, <1>7
<1> HIDE DEF G, MemG
<1>9. G[S] = Total(Cpus, S) /\ MemG[S] = Total(Mems, S)
  BY <1>3, <1>6, <1>8, SumIsTotal
<1>. QED
  BY <1>1, <1>2, <1>9 DEF S

\* First come, first served, for every capacity file that loads, any requests and any
\* number of them: the decision on a request depends on the requests accepted before it
\* and on nothing else.
THEOREM RunnerIsFair == Spec => []FirstComeFirstServed
<1>1. TypeOK /\ Served => FirstComeFirstServed
  <2> SUFFICES ASSUME TypeOK, Served, NEW i \in 1 .. Len(log)
               PROVE  LET G == Granted(i - 1)
                          q == log[i].q
                      IN  log[i].verdict = "accept" <=>
                            /\ q.complete
                            /\ ~InvalidLimits(q)
                            /\ Cardinality(G) < LoadCapacity(File)["max_parallel_jobs"]
                            /\ MapThenSumSet(LAMBDA j : log[j].q.cpu, G) + q.cpu
                                 <= LoadCapacity(File)["cpu_free_milli"]
                            /\ MapThenSumSet(LAMBDA j : log[j].q.mem, G) + q.mem
                                 <= LoadCapacity(File)["mem_free_mb"]
    BY DEF FirstComeFirstServed
  <2>1. i - 1 \in 0 .. Len(log)
    BY DEF TypeOK
  <2>2. Deserved(i)
    BY DEF Served
  <2>. QED
    BY <2>1, <2>2, SumsAreTotals DEF Deserved, Fits
<1>. QED
  BY <1>1, RunnerTypeCorrect, RunnerServes, PTL

-----------------------------------------------------------------------------
(* The monitor. *)

\* The average of one more latency stays below the larger of the two maxima.
LEMMA AverageStep ==
  ASSUME NEW n \in Nat, NEW sum \in Nat, NEW max \in Nat, NEW lat \in Nat,
         NEW top \in Nat, sum <= n * max, max <= top, lat <= top
  PROVE  sum + lat <= (n + 1) * top
<1>1. n * max <= n * top
  BY Z3
<1>2. (n + 1) * top = n * top + top
  BY Z3
<1>. QED
  BY <1>1, <1>2

\* An event that is understood keeps the report sane.
LEMMA CountEventSane ==
  ASSUME ReportSane, NEW e, e.lat \in LatRange, mon' = CountEvent(mon, e)
  PROVE  ReportSane'
<1> USE DEF ReportSane
<1>1. e.lat \in Nat /\ mon.max_lat \in Nat /\ \A x \in LatRange : x \in Nat
  BY SMT DEF LatRange
<1>2. /\ mon'.total = mon.total + 1
      /\ mon'.errors = mon.errors + (IF e.result # "ok" THEN 1 ELSE 0)
      /\ mon'.retries = mon.retries + (IF e.result = "retry" THEN 1 ELSE 0)
      /\ mon'.lat_sum = mon.lat_sum + e.lat
      /\ mon'.max_lat = IF e.lat > mon.max_lat THEN e.lat ELSE mon.max_lat
  BY DEF CountEvent
<1>3. /\ mon'.max_lat \in LatRange /\ mon'.max_lat \in Nat
      /\ mon.max_lat <= mon'.max_lat
      /\ e.lat <= mon'.max_lat
  BY <1>1, <1>2
<1>4. mon'.lat_sum <= mon'.total * mon'.max_lat
  BY <1>1, <1>2, <1>3, AverageStep
<1>5. /\ mon'.total \in Nat /\ mon'.errors \in Nat /\ mon'.retries \in Nat
      /\ mon'.retries <= mon'.errors
      /\ mon'.errors <= mon'.total
      /\ mon'.lat_sum \in Nat
  BY <1>1, <1>2
<1>. QED
  BY <1>3, <1>4, <1>5

\* The report of a monitor that has seen no event is sane.
LEMMA FreshSane == mon = FreshMonitor => ReportSane
<1>1. 0 \in LatRange
  BY SMT DEF LatRange, MaxLatency
<1>. QED
  BY <1>1 DEF FreshMonitor, ReportSane

\* The numbers of /report are consistent in every reachable state: the
\* average it prints is never above the maximum it prints, for instance.
THEOREM MonitorReportSane == MonSpec => []ReportSane
<1>1. MonInit => ReportSane
  BY FreshSane DEF MonInit
<1>2. ReportSane /\ [MonNext]_monVars => ReportSane'
  <2> SUFFICES ASSUME ReportSane, [MonNext]_monVars PROVE ReportSane'
    OBVIOUS
  <2>1. ASSUME NEW e \in Events, TakeEvent(e) PROVE ReportSane'
    <3>1. CASE EventStatus(e) = 202
      BY <2>1, <3>1, CountEventSane DEF TakeEvent, AfterEvent, EventStatus
    <3>2. CASE EventStatus(e) # 202
      BY <2>1, <3>2 DEF TakeEvent, AfterEvent, ReportSane
    <3>. QED
      BY <3>1, <3>2
  <2>2. CASE MonStop
    <3>1. (mon = FreshMonitor => ReportSane)'
      BY FreshSane, PTL
    <3>. QED
      BY <2>2, <3>1 DEF MonStop
  <2>3. CASE UNCHANGED mon
    BY <2>3 DEF ReportSane
  <2>. QED
    BY <2>1, <2>2, <2>3 DEF MonNext, MonStart, MonPlain, monVars
<1>. QED
  BY <1>1, <1>2, PTL DEF MonSpec

-----------------------------------------------------------------------------

\* One event more, an error or not: how the share of errors moves.
LEMMA ShareStep ==
  ASSUME ReportSane, NEW e, e.lat \in LatRange, mon' = CountEvent(mon, e),
         NEW pct \in 1 .. 100
  PROVE  /\ e.result = "ok" /\ ErrorShareAtLeast(mon', pct)
              => ErrorShareAtLeast(mon, pct)
         /\ e.result # "ok" /\ ErrorShareAtLeast(mon, pct)
              => ErrorShareAtLeast(mon', pct)
<1>1. /\ mon'.total = mon.total + 1
      /\ mon'.errors = mon.errors + (IF e.result # "ok" THEN 1 ELSE 0)
  BY DEF CountEvent
<1> DEFINE n == mon.total
           b == mon.errors
<1>2. n \in Nat /\ b \in Nat /\ b <= n
  BY DEF ReportSane
<1>3. pct * (n + 1) = pct * n + pct
  BY <1>2, Z3
<1>4. pct * n \in Nat
  BY <1>2, Z3
<1> HIDE DEF n, b
<1>5. CASE e.result = "ok"
  <2>1. 100 * b >= pct * (n + 1) => 100 * b >= pct * n
    BY <1>2, <1>3, <1>4
  <2>2. 100 * b >= pct * (n + 1) => n > 0
    BY <1>2, <1>3, <1>4
  <2>. QED
    BY <1>1, <1>2, <1>3, <1>4, <1>5, <2>1, <2>2 DEF ErrorShareAtLeast, n, b
<1>6. CASE e.result # "ok"
  <2>1. 100 * b >= pct * n => 100 * (b + 1) >= pct * (n + 1)
    BY <1>2, <1>3, <1>4
  <2>. QED
    BY <1>1, <1>2, <1>6, <2>1 DEF ErrorShareAtLeast, n, b
<1>. QED
  BY <1>5, <1>6

\* While the monitor runs, a success never makes the severity worse and an
\* error never makes it better, at any count of events.
THEOREM MonitorSeverityMonotone == MonSpec => SeverityIsMonotone
<1> DEFINE A == \A e \in Events : TakeEvent(e) /\ EventStatus(e) = 202 =>
                  IF e.result = "ok"
                  THEN Rank[Severity(mon)'] <= Rank[Severity(mon)]
                  ELSE Rank[Severity(mon)'] >= Rank[Severity(mon)]
<1>1. ReportSane /\ [MonNext]_monVars => A
  <2> SUFFICES ASSUME ReportSane, NEW e \in Events, TakeEvent(e),
                      EventStatus(e) = 202
               PROVE  IF e.result = "ok"
                      THEN Rank[Severity(mon)'] <= Rank[Severity(mon)]
                      ELSE Rank[Severity(mon)'] >= Rank[Severity(mon)]
    OBVIOUS
  <2>1. e.lat \in LatRange /\ mon' = CountEvent(mon, e)
    BY DEF TakeEvent, AfterEvent, EventStatus
  <2>2. /\ mon.retries \in Nat
        /\ mon'.retries = mon.retries + (IF e.result = "retry" THEN 1 ELSE 0)
    BY <2>1 DEF CountEvent, ReportSane
  <2>3. \A pct \in {10, 30} :
          /\ e.result = "ok" /\ ErrorShareAtLeast(mon', pct)
               => ErrorShareAtLeast(mon, pct)
          /\ e.result # "ok" /\ ErrorShareAtLeast(mon, pct)
               => ErrorShareAtLeast(mon', pct)
    BY <2>1, ShareStep
  <2>4. ErrorShareAtLeast(mon, 30) => ErrorShareAtLeast(mon, 10)
    BY DEF ErrorShareAtLeast, ReportSane
  <2>5. Rank["OK"] = 0 /\ Rank["WARN"] = 1 /\ Rank["CRIT"] = 2
    BY DEF Rank
  <2>6. /\ Severity(mon) = IF ErrorShareAtLeast(mon, 30) THEN "CRIT"
                          ELSE IF ErrorShareAtLeast(mon, 10) \/ mon.retries > 0
                               THEN "WARN" ELSE "OK"
        /\ Severity(mon)' = IF ErrorShareAtLeast(mon', 30) THEN "CRIT"
                           ELSE IF ErrorShareAtLeast(mon', 10) \/ mon'.retries > 0
                                THEN "WARN" ELSE "OK"
    BY DEF Severity
  <2>7. /\ e.result = "ok" /\ mon'.retries > 0 => mon.retries > 0
        /\ e.result # "ok" /\ mon.retries > 0 => mon'.retries > 0
    BY <2>2
  <2>. QED
    BY <2>3, <2>4, <2>5, <2>6, <2>7
<1>. QED
  BY <1>1, MonitorReportSane, PTL DEF MonSpec, SeverityIsMonotone

-----------------------------------------------------------------------------
(* The monitor's counters are sums over the events that came.  The sums    *)
(* are taken as totals (of Capacity), which change by one element at a     *)
(* time; what MapThenSumSet writes is equal to them.                       *)

\* The milliseconds that the events of each kind brought.
Milliseconds == [e \in Understood |-> seen[e] * e.lat]

\* What the counters are in terms of the events that came.
Tallied ==
  /\ seen \in [Events -> Nat]
  /\ mon.total = Total(seen, Understood)
  /\ mon.errors = Total(seen, Bad)
  /\ mon.retries = Total(seen, Retried)
  /\ mon.lat_sum = Total(Milliseconds, Understood)
  /\ \A e \in Understood : seen[e] > 0 => e.lat <= mon.max_lat

\* The sets of events are finite, and the latency of an event that counts is a natural
\* number.
LEMMA EventSets ==
  /\ IsFiniteSet(Understood) /\ IsFiniteSet(Bad) /\ IsFiniteSet(Retried)
  /\ Understood \in SUBSET Events /\ Bad \in SUBSET Events /\ Retried \in SUBSET Events
  /\ \A e \in Understood : e.lat \in Nat
<1>1. Understood \in SUBSET Events /\ Bad \in SUBSET Events /\ Retried \in SUBSET Events
  BY DEF Understood, Bad, Retried
<1>2. \A e \in Understood : e.lat \in Nat
  BY SMT DEF Understood, LatRange
<1>. QED
  BY <1>1, <1>2, EventsAssumption, FS_Subset

\* Times(E) is the total of what was seen of E.
LEMMA TimesIsTotal ==
  ASSUME seen \in [Events -> Nat], NEW E \in SUBSET Events
  PROVE  Times(E) = Total(seen, E)
<1> DEFINE
    Rec(g) == g = [s \in SUBSET E |->
                     IF s = {} THEN 0
                     ELSE seen[CHOOSE x \in s : TRUE] + g[s \ {CHOOSE x \in s : TRUE}]]
    G == CHOOSE g : Rec(g)
<1>1. Times(E) = G[E]
  BY DEF Times, MapThenSumSet, MapThenFoldSet
<1>2. \A g : Rec(g) <=> SumsUp(g, seen, E)
  BY DEF SumsUp
<1> HIDE DEF Rec
<1>3. IsFiniteSet(E) /\ \A x \in E : seen[x] \in Nat
  BY EventsAssumption, FS_Subset
<1>4. \E g : SumsUp(g, seen, E)
  BY <1>3, TotalIsSum
<1>5. Rec(G)
  BY <1>2, <1>4
<1> HIDE DEF G
<1>. QED
  BY <1>1, <1>2, <1>3, <1>5, SumIsTotal

\* The latencies of all the events that count add up to their milliseconds.
LEMMA LatencyIsTotal ==
  ASSUME seen \in [Events -> Nat]
  PROVE  MapThenSumSet(LAMBDA e : seen[e] * e.lat, Understood)
           = Total(Milliseconds, Understood)
<1> DEFINE
    Rec(g) == g = [s \in SUBSET Understood |->
                     IF s = {} THEN 0
                     ELSE seen[CHOOSE x \in s : TRUE] * (CHOOSE x \in s : TRUE).lat
                            + g[s \ {CHOOSE x \in s : TRUE}]]
    G == CHOOSE g : Rec(g)
<1>1. MapThenSumSet(LAMBDA e : seen[e] * e.lat, Understood) = G[Understood]
  BY DEF MapThenSumSet, MapThenFoldSet
<1>2. ASSUME NEW g PROVE Rec(g) <=> SumsUp(g, Milliseconds, Understood)
  <2>1. ASSUME NEW s \in SUBSET Understood, s # {}
        PROVE  Milliseconds[CHOOSE x \in s : TRUE]
                 = seen[CHOOSE x \in s : TRUE] * (CHOOSE x \in s : TRUE).lat
    <3>1. (CHOOSE x \in s : TRUE) \in Understood
      BY <2>1
    <3>. QED
      BY <3>1 DEF Milliseconds
  <2>. QED
    BY <2>1 DEF SumsUp
<1> HIDE DEF Rec
<1>3. IsFiniteSet(Understood) /\ \A x \in Understood : Milliseconds[x] \in Nat
  BY EventSets DEF Milliseconds
<1>4. \E g : SumsUp(g, Milliseconds, Understood)
  BY <1>3, TotalIsSum
<1>5. Rec(G)
  BY <1>2, <1>4
<1> HIDE DEF G
<1>. QED
  BY <1>1, <1>2, <1>3, <1>5, SumIsTotal

\* A set in which nothing counts has the total 0.
LEMMA NothingTotal ==
  ASSUME NEW S, NEW h, \A x \in S : h[x] = 0
  PROVE  Total(h, S) = 0
<1>1. Units(h, S) = {}
  BY DEF Units
<1>. QED
  BY <1>1, FS_EmptySet DEF Total

\* A monitor that has just started has counted what came: nothing.
LEMMA FreshTallied ==
  ASSUME mon = FreshMonitor, seen = NothingSeen
  PROVE  Tallied
<1>1. seen \in [Events -> Nat] /\ \A e \in Events : seen[e] = 0
  BY DEF NothingSeen
<1>2. \A e \in Understood : Milliseconds[e] = 0
  <2>1. \A e \in Understood : Milliseconds[e] = seen[e] * e.lat
    BY DEF Milliseconds
  <2>. QED
    BY <1>1, <2>1, EventSets
<1>3. Total(seen, Understood) = 0 /\ Total(seen, Bad) = 0 /\ Total(seen, Retried) = 0
  BY <1>1, EventSets, NothingTotal
<1>4. Total(Milliseconds, Understood) = 0
  BY <1>2, NothingTotal
<1>. QED
  BY <1>1, <1>3, <1>4, EventSets DEF Tallied, FreshMonitor

\* An event more: the totals of the sets it belongs to grow by one, the others stay.
LEMMA SeenOnceMore ==
  ASSUME NEW h \in [Events -> Nat], NEW e \in Events, NEW E \in SUBSET Events
  PROVE  Total([h EXCEPT ![e] = @ + 1], E) = Total(h, E) + (IF e \in E THEN 1 ELSE 0)
<1> DEFINE k == [h EXCEPT ![e] = @ + 1]
<1>1. /\ \A x \in E : h[x] \in Nat
      /\ k[e] = h[e] + 1 /\ h[e] \in Nat
      /\ \A x \in E \ {e} : k[x] = h[x]
  OBVIOUS
<1>2. IsFiniteSet(E)
  BY EventsAssumption, FS_Subset
<1> HIDE DEF k
<1>3. Total(h, E) \in Nat
  BY <1>1, <1>2, TotalFacts
<1>4. CASE e \in E
  <2>1. k[e] \in Nat
    BY <1>1
  <2>2. Total(k, E) = Total(h, E) - h[e] + k[e]
    BY <1>1, <1>2, <1>4, <2>1, TotalChanges
  <2>. QED
    BY <1>1, <1>3, <1>4, <2>2 DEF k
<1>5. CASE e \notin E
  <2>1. Total(k, E) = Total(h, E)
    BY <1>1, <1>5, TotalSame
  <2>. QED
    BY <1>3, <1>5, <2>1 DEF k
<1>. QED
  BY <1>4, <1>5

\* A monitor takes an event: every counter moves as its sum does.
LEMMA TakeTallied ==
  ASSUME ReportSane, Tallied, NEW e \in Events, TakeEvent(e)
  PROVE  Tallied'
<1>1. /\ seen \in [Events -> Nat] /\ seen' \in [Events -> Nat]
      /\ seen' = [seen EXCEPT ![e] = @ + 1]
      /\ seen'[e] = seen[e] + 1 /\ seen[e] \in Nat
      /\ \A x \in Events \ {e} : seen'[x] = seen[x]
  BY DEF TakeEvent, Tallied
<1>2. Understood' = Understood /\ Bad' = Bad /\ Retried' = Retried
  BY DEF Understood, Bad, Retried
<1>3. /\ Total(seen', Understood)
           = Total(seen, Understood) + (IF e \in Understood THEN 1 ELSE 0)
      /\ Total(seen', Bad) = Total(seen, Bad) + (IF e \in Bad THEN 1 ELSE 0)
      /\ Total(seen', Retried) = Total(seen, Retried) + (IF e \in Retried THEN 1 ELSE 0)
  BY <1>1, EventSets, SeenOnceMore
<1>4. /\ \A x \in Understood : Milliseconds[x] = seen[x] * x.lat
      /\ \A x \in Understood : Milliseconds'[x] = seen'[x] * x.lat
  BY <1>2 DEF Milliseconds
<1>5. /\ \A x \in Understood : Milliseconds[x] \in Nat /\ Milliseconds'[x] \in Nat
      /\ \A x \in Understood \ {e} : Milliseconds'[x] = Milliseconds[x]
  <2>1. ASSUME NEW x \in Understood
        PROVE  seen[x] \in Nat /\ seen'[x] \in Nat /\ x.lat \in Nat /\ x \in Events
    BY <1>1, EventSets
  <2>2. \A n \in Nat, m \in Nat : n * m \in Nat
    OBVIOUS
  <2>. QED
    BY <1>1, <1>4, <2>1, <2>2
<1>6. mon.lat_sum \in Nat /\ mon.max_lat \in Nat
  BY SMT DEF ReportSane, LatRange
<1>7. Total(Milliseconds, Understood) \in Nat
  BY <1>5, EventSets, TotalFacts
<1>8. CASE e \in Understood
  <2>1. mon' = CountEvent(mon, e)
    BY <1>8 DEF TakeEvent, AfterEvent, EventStatus, Understood
  <2>2. Milliseconds'[e] = Milliseconds[e] + e.lat /\ e.lat \in Nat
    <3>1. \A n \in Nat, m \in Nat : (n + 1) * m = n * m + m
      OBVIOUS
    <3>2. e.lat \in Nat
      BY <1>8, EventSets
    <3>. QED
      BY <1>1, <1>4, <1>8, <3>1, <3>2
  <2>3. Total(Milliseconds', Understood)
          = Total(Milliseconds, Understood) - Milliseconds[e] + Milliseconds'[e]
    BY <1>5, <1>8, EventSets, TotalChanges
  <2>4. Total(Milliseconds', Understood) = Total(Milliseconds, Understood) + e.lat
    BY <1>5, <1>7, <1>8, <2>2, <2>3
  <2>5. (e \in Bad <=> e.result # "ok") /\ (e \in Retried <=> e.result = "retry")
    BY <1>8 DEF Bad, Retried
  <2>6. /\ mon'.total = mon.total + 1
        /\ mon'.errors = mon.errors + (IF e.result # "ok" THEN 1 ELSE 0)
        /\ mon'.retries = mon.retries + (IF e.result = "retry" THEN 1 ELSE 0)
        /\ mon'.lat_sum = mon.lat_sum + e.lat
        /\ mon'.max_lat = IF e.lat > mon.max_lat THEN e.lat ELSE mon.max_lat
    BY <2>1 DEF CountEvent
  <2>7. ASSUME NEW x \in Understood, seen'[x] > 0 PROVE x.lat <= mon'.max_lat
    <3>1. x.lat \in Nat /\ e.lat \in Nat /\ x \in Events
      BY <1>8, EventSets
    <3>2. x # e => x.lat <= mon.max_lat
      BY <1>1, <2>7, <3>1 DEF Tallied
    <3>. QED
      BY <1>6, <2>6, <3>1, <3>2
  <2>. QED
    BY <1>1, <1>2, <1>3, <1>8, <2>4, <2>5, <2>6, <2>7 DEF Tallied
<1>9. CASE e \notin Understood
  <2>1. mon' = mon
    BY <1>9 DEF TakeEvent, AfterEvent, EventStatus, Understood
  <2>2. e \notin Bad /\ e \notin Retried
    BY <1>9 DEF Bad, Retried
  <2>3. Total(Milliseconds', Understood) = Total(Milliseconds, Understood)
    BY <1>5, <1>9, TotalSame
  <2>4. \A x \in Understood : seen'[x] = seen[x]
    BY <1>1, <1>9, EventSets
  <2>5. /\ Total(seen', Understood) = Total(seen, Understood)
        /\ Total(seen', Bad) = Total(seen, Bad)
        /\ Total(seen', Retried) = Total(seen, Retried)
    BY <1>9, <2>2, <2>4, TotalSame DEF Bad, Retried
  <2>. QED
    BY <1>1, <1>2, <2>1, <2>3, <2>4, <2>5 DEF Tallied
<1>. QED
  BY <1>8, <1>9

\* The counters are the sums of what came, in every reachable state.
LEMMA MonitorTallies == MonSpec => []Tallied
<1>1. MonInit => Tallied
  BY FreshTallied DEF MonInit
<1>2. ReportSane /\ Tallied /\ [MonNext]_monVars => Tallied'
  <2> SUFFICES ASSUME ReportSane, Tallied, [MonNext]_monVars PROVE Tallied'
    OBVIOUS
  <2>1. ASSUME NEW e \in Events, TakeEvent(e) PROVE Tallied'
    BY <2>1, TakeTallied
  <2>2. CASE MonStop
    <3>1. (mon = FreshMonitor /\ seen = NothingSeen => Tallied)'
      BY FreshTallied, PTL
    <3>. QED
      BY <2>2, <3>1 DEF MonStop, NothingSeen
  <2>3. CASE UNCHANGED <<mon, seen>>
    BY <2>3 DEF Tallied, Milliseconds, Understood, Bad, Retried
  <2>. QED
    BY <2>1, <2>2, <2>3 DEF MonNext, MonStart, MonPlain, monVars
<1>. QED
  BY <1>1, <1>2, MonitorReportSane, PTL DEF MonSpec

\* What the monitor reports is true of the events that came: its counters are their
\* numbers and its severity follows from those numbers, for any set of events and any
\* number of them.
THEOREM MonitorIsTrue == MonSpec => []MonitorMatchesEvents
<1>1. ReportSane /\ Tallied => MonitorMatchesEvents
  <2> SUFFICES ASSUME ReportSane, Tallied PROVE MonitorMatchesEvents
    OBVIOUS
  <2> DEFINE n == Times(Understood)
             bad == Times(Bad)
             retries == Times(Retried)
  <2>1. mon.total = n /\ mon.errors = bad /\ mon.retries = retries
    BY EventSets, TimesIsTotal DEF Tallied
  <2>2. mon.lat_sum = MapThenSumSet(LAMBDA e : seen[e] * e.lat, Understood)
    BY LatencyIsTotal DEF Tallied
  <2>3. \A e \in Understood : seen[e] > 0 => e.lat <= mon.max_lat
    BY DEF Tallied
  <2> HIDE DEF n, bad, retries
  <2>4. n \in Nat /\ bad \in Nat /\ retries \in Nat /\ bad <= n /\ retries <= bad
    BY <2>1 DEF ReportSane
  <2>5. /\ Severity(mon) = "OK" => retries = 0 /\ (n = 0 \/ 10 * bad < n)
        /\ Severity(mon) = "WARN" => 10 * bad < 3 * n
        /\ Severity(mon) = "CRIT" => n > 0 /\ 10 * bad >= 3 * n
    BY <2>1, <2>4 DEF Severity, ErrorShareAtLeast
  <2>. QED
    BY <2>1, <2>2, <2>3, <2>5 DEF MonitorMatchesEvents, n, bad, retries
<1>. QED
  BY <1>1, MonitorReportSane, MonitorTallies, PTL

-----------------------------------------------------------------------------
(* The table of minicache.  What carries the proof is that no key has two  *)
(* entries: then the entries in use and the keys of the map are equally    *)
(* many, and "there is a free entry" means "there are fewer keys than      *)
(* entries".                                                               *)

\* An entry in use has a key and a value, and one that is not is Untaken.
LEMMA EntryFacts ==
  /\ Untaken \in Entry /\ Untaken.ok_taken = FALSE
  /\ \A e \in Entry : e.ok_taken = FALSE => e = Untaken
  /\ \A e \in Entry : e.ok_taken => e.key \in Key /\ e.value \in Value
<1>1. Untaken \in Entry /\ Untaken.ok_taken = FALSE
  BY DEF Untaken, Entry
<1>2. \A e \in [ok_taken : {TRUE}, key : Key, value : Value] :
        e.ok_taken = TRUE /\ e.key \in Key /\ e.value \in Value
  OBVIOUS
<1> QED BY <1>1, <1>2 DEF Entry

\* A new table has no entry in use.
LEMMA InitUnique == TableInit => OneSlotPerKey
BY EntryFacts DEF TableInit, EmptyTable, OneSlotPerKey

\* A SET uses the entry of its key or, when there is none, a free one: it never
\* makes a second entry for a key.
LEMMA SetUnique ==
  ASSUME NEW k \in Key, NEW v \in Value, OneSlotPerKey, Set(k, v)
  PROVE  OneSlotPerKey'
<1>1. CASE UNCHANGED my_db
  BY <1>1 DEF OneSlotPerKey
<1>2. CASE \E i \in First(Place(my_db, k)) : my_db' = Put(my_db, i, k, v)
  <2>1. PICK i \in First(Place(my_db, k)) : my_db' = Put(my_db, i, k, v)
    BY <1>2
  <2>2. i \in Slot /\ i \in Place(my_db, k)
    BY DEF First, Place, Holds, Unused
  <2>3. my_db' \in [Slot -> Entry]
    BY <2>1, <2>2 DEF OneSlotPerKey, Put, Entry
  <2>4. my_db'[i] = [ok_taken |-> TRUE, key |-> k, value |-> v]
    BY <2>1, <2>2 DEF OneSlotPerKey, Put
  <2>5. \A j \in Slot \ {i} : my_db'[j] = my_db[j]
    BY <2>1, <2>2 DEF OneSlotPerKey, Put
  <2>6. \A j \in Slot \ {i} : ~(my_db[j].ok_taken /\ my_db[j].key = k)
    BY <2>2 DEF OneSlotPerKey, Place, Holds, Unused
  <2> QED BY <2>2, <2>3, <2>4, <2>5, <2>6 DEF OneSlotPerKey
<1> QED BY <1>1, <1>2 DEF Set

\* A DEL only frees entries.
LEMMA DelUnique ==
  ASSUME NEW k \in Key, OneSlotPerKey, Del(k)
  PROVE  OneSlotPerKey'
<1>1. CASE UNCHANGED my_db
  BY <1>1 DEF OneSlotPerKey
<1>2. CASE \E i \in First(Holds(my_db, k)) :
             my_db' = [my_db EXCEPT ![i] = Untaken]
  <2>1. PICK i \in Slot : my_db' = [my_db EXCEPT ![i] = Untaken]
    BY <1>2 DEF First, Holds
  <2>2. my_db' \in [Slot -> Entry]
    BY <2>1, EntryFacts DEF OneSlotPerKey
  <2>3. \A j \in Slot : my_db'[j] = IF j = i THEN Untaken ELSE my_db[j]
    BY <2>1 DEF OneSlotPerKey
  <2>4. \A j \in Slot : my_db'[j].ok_taken => my_db'[j] = my_db[j]
    BY <2>3, EntryFacts
  <2> QED BY <2>2, <2>4 DEF OneSlotPerKey
<1> QED BY <1>1, <1>2 DEF Del

\* No key ever has two entries, so a GET cannot meet a leftover.
THEOREM NoKeyTwice == TableSpec => []OneSlotPerKey
<1>1. OneSlotPerKey /\ [Handle]_<<my_db, last>> => OneSlotPerKey'
  <2> SUFFICES ASSUME OneSlotPerKey, [Handle]_<<my_db, last>>
               PROVE  OneSlotPerKey'
    OBVIOUS
  <2>1. CASE UNCHANGED my_db
    BY <2>1 DEF OneSlotPerKey
  <2>2. ASSUME NEW k \in Key, NEW v \in Value, Set(k, v)
        PROVE  OneSlotPerKey'
    BY <2>2, SetUnique
  <2>3. ASSUME NEW k \in Key, Del(k)
        PROVE  OneSlotPerKey'
    BY <2>3, DelUnique
  <2> QED BY <2>1, <2>2, <2>3 DEF Handle, Get, Unknown
<1> QED BY <1>1, InitUnique, PTL DEF TableSpec

-----------------------------------------------------------------------------

Taken == {i \in Slot : my_db[i].ok_taken}

\* As many keys as entries in use.
LEMMA KeysAreEntries ==
  ASSUME OneSlotPerKey
  PROVE  /\ IsFiniteSet(Taken)
         /\ Cardinality(KV!Keys(Store)) = Cardinality(Taken)
<1> DEFINE keyOf == [i \in Taken |-> my_db[i].key]
<1>1. IsFiniteSet(Taken)
  <2>1. IsFiniteSet(Slot)
    BY FS_Interval, SlotsAssumption DEF Slot
  <2> QED BY <2>1, FS_Subset DEF Taken
<1>2. \A i \in Taken : my_db[i].key \in Key
  BY EntryFacts DEF Taken, OneSlotPerKey
<1>3. KV!Keys(Store) = {my_db[i].key : i \in Taken}
  <2>1. \A k \in Key : k \in KV!Keys(Store) <=> Holds(my_db, k) # {}
    BY DEF KV!Keys, Store
  <2>2. KV!Keys(Store) \subseteq Key
    BY DEF KV!Keys
  <2> QED BY <2>1, <2>2, <1>2 DEF Holds, Taken
<1>4. keyOf \in Bijection(Taken, KV!Keys(Store))
  <2>1. keyOf \in [Taken -> KV!Keys(Store)]
    BY <1>3
  <2>2. \A i, j \in Taken : keyOf[i] = keyOf[j] => i = j
    BY DEF OneSlotPerKey, Taken
  <2>3. \A k \in KV!Keys(Store) : \E i \in Taken : keyOf[i] = k
    BY <1>3
  <2> QED BY <2>1, <2>2, <2>3, Fun_IsBij
<1>5. ExistsBijection(Taken, KV!Keys(Store))
  BY <1>4 DEF ExistsBijection
<1> QED BY <1>1, <1>5, FS_Bijection

\* A free entry is room for a key.
LEMMA RoomIsUnused ==
  ASSUME OneSlotPerKey
  PROVE  /\ Unused(my_db) # {} => Cardinality(KV!Keys(Store)) < Slots
         /\ Unused(my_db) = {} => Cardinality(KV!Keys(Store)) = Slots
<1>1. IsFiniteSet(Slot) /\ Cardinality(Slot) = Slots
  BY FS_Interval, SlotsAssumption DEF Slot
<1>2. Taken \subseteq Slot /\ (Taken = Slot <=> Unused(my_db) = {})
  BY DEF Taken, Unused, OneSlotPerKey, Entry, Untaken
<1>3. /\ Cardinality(Taken) <= Cardinality(Slot)
      /\ Cardinality(Taken) = Cardinality(Slot) => Taken = Slot
  BY <1>1, <1>2, FS_Subset
<1>4. Cardinality(Taken) \in Nat
  BY KeysAreEntries, FS_CardinalityType
<1> QED BY <1>1, <1>2, <1>3, <1>4, KeysAreEntries, SlotsAssumption

-----------------------------------------------------------------------------

\* The only entry of a key is the key's value in the map.
LEMMA StoreFacts ==
  ASSUME OneSlotPerKey, NEW k \in Key
  PROVE  /\ Holds(my_db, k) = {} <=> Store[k] = {}
         /\ \A i \in Holds(my_db, k) : Store[k] = {my_db[i].value}
<1>1. Store[k] = {my_db[i].value : i \in Holds(my_db, k)}
  BY DEF Store
<1>2. ASSUME NEW i \in Holds(my_db, k)
      PROVE  Holds(my_db, k) = {i}
  BY DEF Holds, OneSlotPerKey
<1>3. \A i \in Holds(my_db, k) : Store[k] = {my_db[i].value}
  BY <1>1, <1>2
<1>4. Holds(my_db, k) = {} => Store[k] = {}
  BY <1>1
<1> QED BY <1>3, <1>4

\* Writing an entry of Place changes the map at that key alone.
LEMMA PutStore ==
  ASSUME OneSlotPerKey, NEW k \in Key, NEW v \in Value,
         NEW i \in Place(my_db, k), my_db' = Put(my_db, i, k, v)
  PROVE  Store' = [Store EXCEPT ![k] = {v}]
<1>1. i \in Slot
  BY DEF Place, Holds, Unused
<1>2. my_db'[i] = [ok_taken |-> TRUE, key |-> k, value |-> v]
  BY <1>1 DEF Put, OneSlotPerKey
<1>3. \A j \in Slot \ {i} : my_db'[j] = my_db[j]
  BY <1>1 DEF Put, OneSlotPerKey
<1>4. \A j \in Slot \ {i} : ~(my_db[j].ok_taken /\ my_db[j].key = k)
  BY DEF OneSlotPerKey, Place, Holds, Unused
<1>5. ASSUME NEW l \in Key
      PROVE  Store'[l] = IF l = k THEN {v} ELSE Store[l]
  <2>1. Store'[l] = {my_db'[j].value : j \in {m \in Slot : my_db'[m].ok_taken /\ my_db'[m].key = l}}
    BY DEF Store, Holds
  <2>2. CASE l = k
    <3>1. {m \in Slot : my_db'[m].ok_taken /\ my_db'[m].key = l} = {i}
      BY <1>1, <1>2, <1>3, <1>4, <2>2
    <3> QED BY <1>2, <2>1, <2>2, <3>1
  <2>3. CASE l # k
    <3>1. ~(my_db[i].ok_taken /\ my_db[i].key = l)
      BY <2>3 DEF Place, Holds, Unused
    <3>2. {m \in Slot : my_db'[m].ok_taken /\ my_db'[m].key = l} = Holds(my_db, l)
      BY <1>1, <1>2, <1>3, <2>3, <3>1 DEF Holds
    <3>3. \A m \in Holds(my_db, l) : my_db'[m] = my_db[m]
      BY <1>3, <3>1 DEF Holds
    <3>4. Store[l] = {my_db[m].value : m \in Holds(my_db, l)}
      BY DEF Store
    <3> QED BY <2>1, <2>3, <3>2, <3>3, <3>4
  <2> QED BY <2>2, <2>3
<1>6. Store \in [Key -> SUBSET {my_db[j].value : j \in Slot}]
  BY DEF Store, Holds
<1>7. Store' = [l \in Key |-> Store'[l]]
  BY DEF Store
<1> QED BY <1>5, <1>6, <1>7

\* Freeing the entry of a key removes that key alone.
LEMMA FreeStore ==
  ASSUME OneSlotPerKey, NEW k \in Key,
         NEW i \in Holds(my_db, k), my_db' = [my_db EXCEPT ![i] = Untaken]
  PROVE  Store' = [Store EXCEPT ![k] = {}]
<1>1. i \in Slot /\ my_db[i].key = k /\ my_db[i].ok_taken
  BY DEF Holds
<1>2. my_db'[i].ok_taken = FALSE
  BY <1>1, EntryFacts DEF OneSlotPerKey
<1>3. \A j \in Slot \ {i} : my_db'[j] = my_db[j]
  BY <1>1 DEF OneSlotPerKey
<1>4. \A j \in Slot \ {i} : ~(my_db[j].ok_taken /\ my_db[j].key = k)
  BY <1>1 DEF OneSlotPerKey
<1>5. ASSUME NEW l \in Key
      PROVE  Store'[l] = IF l = k THEN {} ELSE Store[l]
  <2>1. Store'[l] = {my_db'[j].value : j \in {m \in Slot : my_db'[m].ok_taken /\ my_db'[m].key = l}}
    BY DEF Store, Holds
  <2>2. CASE l = k
    <3>1. {m \in Slot : my_db'[m].ok_taken /\ my_db'[m].key = l} = {}
      BY <1>2, <1>3, <1>4, <2>2
    <3> QED BY <2>1, <2>2, <3>1
  <2>3. CASE l # k
    <3>1. {m \in Slot : my_db'[m].ok_taken /\ my_db'[m].key = l} = Holds(my_db, l)
      BY <1>1, <1>2, <1>3, <2>3 DEF Holds
    <3>2. \A m \in Holds(my_db, l) : my_db'[m] = my_db[m]
      BY <1>1, <1>3, <2>3 DEF Holds
    <3>3. Store[l] = {my_db[m].value : m \in Holds(my_db, l)}
      BY DEF Store
    <3> QED BY <2>1, <2>3, <3>1, <3>2, <3>3
  <2> QED BY <2>2, <2>3
<1>6. Store' = [l \in Key |-> Store'[l]] /\ Store = [l \in Key |-> Store[l]]
  BY DEF Store
<1> QED BY <1>5, <1>6

\* A GET answers what the map has.
LEMMA GetRefines ==
  ASSUME OneSlotPerKey, NEW k \in Key, Get(k)
  PROVE  KV!Get(k)
<1>1. Store' = Store
  BY DEF Get, Store, Holds
<1>2. last' = [op |-> "GET", key |-> k, answer |-> Store[k]]
  <2>1. CASE Holds(my_db, k) = {}
    BY <2>1, StoreFacts DEF Get, Do, First
  <2>2. CASE Holds(my_db, k) # {}
    BY <2>2, StoreFacts DEF Get, Do, First
  <2> QED BY <2>1, <2>2
<1> QED BY <1>1, <1>2 DEF KV!Get

\* The cardinality of the instance is the cardinality.
LEMMA SameCardinality == \A S : KV!Cardinality(S) = Cardinality(S)
BY DEF KV!Cardinality, Cardinality, KV!IsFiniteSet, IsFiniteSet

\* A SET that finds no entry is one that meets a full map.
LEMMA SetRefines ==
  ASSUME OneSlotPerKey, NEW k \in Key, NEW v \in Value, Set(k, v)
  PROVE  KV!Set(k, v)
<1>1. ASSUME NEW i \in First(Place(my_db, k)), my_db' = Put(my_db, i, k, v),
             Do("SET", k, "OK")
      PROVE  KV!Set(k, v)
  <2>1. i \in Place(my_db, k)
    BY DEF First
  <2>2. Store' = [Store EXCEPT ![k] = {v}]
    BY <1>1, <2>1, PutStore
  <2>3. Store[k] # {} \/ Cardinality(KV!Keys(Store)) < Slots
    BY <2>1, StoreFacts, RoomIsUnused DEF Place
  <2> QED BY <1>1, <2>2, <2>3, SameCardinality DEF KV!Set, Do
<1>2. ASSUME Place(my_db, k) = {}, UNCHANGED my_db, Do("SET", k, "ERROR_OOM")
      PROVE  KV!Set(k, v)
  <2>1. Store' = Store
    BY <1>2 DEF Store, Holds
  <2>2. Store[k] = {} /\ Cardinality(KV!Keys(Store)) = Slots
    BY <1>2, StoreFacts, RoomIsUnused DEF Place
  <2> QED BY <1>2, <2>1, <2>2, SameCardinality DEF KV!Set, Do
<1> QED BY <1>1, <1>2 DEF Set

\* A DEL says whether there was a key to remove.
LEMMA DelRefines ==
  ASSUME OneSlotPerKey, NEW k \in Key, Del(k)
  PROVE  KV!Del(k)
<1>1. ASSUME NEW i \in First(Holds(my_db, k)),
             my_db' = [my_db EXCEPT ![i] = Untaken], Do("DEL", k, "OK")
      PROVE  KV!Del(k)
  <2>1. i \in Holds(my_db, k)
    BY DEF First
  <2>2. Store' = [Store EXCEPT ![k] = {}]
    BY <1>1, <2>1, FreeStore
  <2>3. Store[k] # {}
    BY <2>1, StoreFacts
  <2> QED BY <1>1, <2>2, <2>3 DEF KV!Del, Do
<1>2. ASSUME Holds(my_db, k) = {}, UNCHANGED my_db, Do("DEL", k, "NULL")
      PROVE  KV!Del(k)
  <2>1. Store' = Store /\ Store[k] = {}
    BY <1>2, StoreFacts DEF Store, Holds
  <2>2. Store' = [Store EXCEPT ![k] = {}]
    BY <2>1 DEF Store
  <2> QED BY <1>2, <2>1, <2>2 DEF KV!Del, Do
<1> QED BY <1>1, <1>2 DEF Del

\* minicache answers every command as a map of at most CACHE_MAX_ENTS keys
\* would, whatever was stored, deleted and overwritten before.
THEOREM TableImplementsMap == TableSpec => KVSpec
<1>1. TableInit => KV!Init
  <2> SUFFICES ASSUME TableInit PROVE KV!Init
    OBVIOUS
  <2>1. \A k \in Key : Holds(my_db, k) = {}
    BY EntryFacts DEF TableInit, EmptyTable, Holds
  <2>2. Store = [k \in Key |-> {}]
    BY <2>1 DEF Store
  <2> QED BY <2>2 DEF TableInit, KV!Init
<1>2. OneSlotPerKey /\ [Handle]_<<my_db, last>> => [KV!Next]_<<Store, last>>
  <2> SUFFICES ASSUME OneSlotPerKey, [Handle]_<<my_db, last>>
               PROVE  [KV!Next]_<<Store, last>>
    OBVIOUS
  <2>1. CASE UNCHANGED <<my_db, last>>
    BY <2>1 DEF Store, Holds
  <2>2. ASSUME NEW k \in Key, Get(k) PROVE KV!Next
    BY <2>2, GetRefines DEF KV!Next
  <2>3. ASSUME NEW k \in Key, Del(k) PROVE KV!Next
    BY <2>3, DelRefines DEF KV!Next
  <2>4. ASSUME NEW k \in Key, NEW v \in Value, Set(k, v) PROVE KV!Next
    BY <2>4, SetRefines DEF KV!Next
  <2>5. CASE Unknown
    BY <2>5 DEF Unknown, KV!Next, KV!Bad, Store, Holds
  <2> QED BY <2>1, <2>2, <2>3, <2>4, <2>5 DEF Handle
<1> QED BY <1>1, <1>2, NoKeyTwice, PTL DEF TableSpec, KVSpec, KV!Spec

-----------------------------------------------------------------------------
(* Lists of events.                                                        *)

Els(s) == {s[k] : k \in 1 .. Len(s)}

\* No descriptor is in the list twice.
OneEach(s) == \A j, k \in 1 .. Len(s) : s[j].fd = s[k].fd => j = k

LEMMA AppendList ==
  ASSUME NEW S, NEW s \in Seq(S), NEW e \in S
  PROVE  /\ Append(s, e) \in Seq(S) /\ Els(Append(s, e)) = Els(s) \union {e}
         /\ OneEach(s) /\ (\A x \in Els(s) : x.fd # e.fd) => OneEach(Append(s, e))
<1>1. /\ Append(s, e) \in Seq(S) /\ Len(s) \in Nat /\ Len(Append(s, e)) = Len(s) + 1
      /\ \A k \in 1 .. Len(s) : Append(s, e)[k] = s[k]
      /\ Append(s, e)[Len(s) + 1] = e
  OBVIOUS
<1> DEFINE r == Append(s, e)
<1> HIDE DEF r
<1>2. /\ Len(r) = Len(s) + 1 /\ r[Len(s) + 1] = e
      /\ \A k \in 1 .. Len(s) : r[k] = s[k]
      /\ \A k \in 1 .. Len(r) : k \in 1 .. Len(s) \/ k = Len(s) + 1
      /\ \A k \in 1 .. Len(s) : k \in 1 .. Len(r)
      /\ Len(s) + 1 \in 1 .. Len(r)
  BY <1>1 DEF r
<1>3. Els(r) = Els(s) \union {e}
  BY <1>2 DEF Els
<1>4. ASSUME OneEach(s), \A x \in Els(s) : x.fd # e.fd PROVE OneEach(r)
  <2>1. \A k \in 1 .. Len(s) : s[k].fd # e.fd
    BY <1>4 DEF Els
  <2>. QED
    BY <1>2, <1>4, <2>1 DEF OneEach
<1>. QED
  BY <1>1, <1>3, <1>4 DEF r

LEMMA TailList ==
  ASSUME NEW S, NEW s \in Seq(S), s # <<>>, OneEach(s)
  PROVE  /\ Tail(s) \in Seq(S) /\ Head(s) \in Els(s) /\ OneEach(Tail(s))
         /\ Els(Tail(s)) = {x \in Els(s) : x.fd # Head(s).fd}
<1>1. /\ Tail(s) \in Seq(S) /\ Len(s) \in Nat \ {0} /\ Len(Tail(s)) = Len(s) - 1
      /\ \A k \in 1 .. Len(Tail(s)) : Tail(s)[k] = s[k + 1]
      /\ Head(s) = s[1]
  OBVIOUS
<1> DEFINE r == Tail(s)  h == Head(s)
<1> HIDE DEF r, h
<1>2. /\ 1 \in 1 .. Len(s) /\ h = s[1]
      /\ \A k \in 1 .. Len(r) : r[k] = s[k + 1] /\ k + 1 \in 1 .. Len(s) /\ k + 1 # 1
      /\ \A k \in 1 .. Len(s) : k = 1 \/ (k - 1 \in 1 .. Len(r) /\ r[k - 1] = s[k])
      /\ \A j, k \in 1 .. Len(r) : j + 1 = k + 1 => j = k
  <2>1. \A k \in 1 .. Len(r) : r[k] = s[k + 1] /\ k + 1 \in 1 .. Len(s) /\ k + 1 # 1
    BY <1>1 DEF r
  <2>2. ASSUME NEW k \in 1 .. Len(s), k # 1
        PROVE  k - 1 \in 1 .. Len(r) /\ r[k - 1] = s[k]
    <3>1. k - 1 \in 1 .. Len(r) /\ (k - 1) + 1 = k
      BY <1>1, <2>2 DEF r
    <3>. QED
      BY <2>1, <3>1
  <2>. QED
    BY <1>1, <2>1, <2>2 DEF r, h
<1>3. Els(r) = {x \in Els(s) : x.fd # h.fd}
  <2>1. ASSUME NEW k \in 1 .. Len(r) PROVE r[k] \in Els(s) /\ r[k].fd # h.fd
    <3> DEFINE m == k + 1
    <3>1. m \in 1 .. Len(s) /\ m # 1 /\ r[k] = s[m]
      BY <1>2
    <3> HIDE DEF m
    <3>. QED
      BY <1>2, <3>1 DEF Els, OneEach
  <2>2. ASSUME NEW k \in 1 .. Len(s), s[k].fd # h.fd PROVE s[k] \in Els(r)
    <3>1. k - 1 \in 1 .. Len(r) /\ r[k - 1] = s[k]
      BY <1>2, <2>2
    <3>. QED
      BY <3>1 DEF Els
  <2>. QED
    BY <2>1, <2>2 DEF Els
<1>4. OneEach(r)
  <2> SUFFICES ASSUME NEW j \in 1 .. Len(r), NEW k \in 1 .. Len(r), r[j].fd = r[k].fd
               PROVE  j = k
    BY DEF OneEach
  <2> DEFINE m == j + 1  n == k + 1
  <2>1. m \in 1 .. Len(s) /\ n \in 1 .. Len(s) /\ r[j] = s[m] /\ r[k] = s[n]
    BY <1>2
  <2>2. m = n => j = k
    BY <1>2
  <2> HIDE DEF m, n
  <2>. QED
    BY <2>1, <2>2 DEF OneEach
<1>5. h \in Els(s)
  BY <1>2 DEF Els
<1>. QED
  BY <1>1, <1>3, <1>4, <1>5 DEF r, h

\* A list cut in two.
LEMMA CutList ==
  ASSUME NEW S, NEW s \in Seq(S), NEW n \in 0 .. Len(s)
  PROVE  LET a == SubSeq(s, 1, n)
             b == SubSeq(s, n + 1, Len(s))
         IN /\ a \in Seq(S) /\ b \in Seq(S) /\ Els(a) \union Els(b) = Els(s)
            /\ OneEach(s) => OneEach(a) /\ OneEach(b)
<1> DEFINE a == SubSeq(s, 1, n)  b == SubSeq(s, n + 1, Len(s))
<1>0. Len(s) \in Nat /\ n \in Nat /\ n <= Len(s)
  OBVIOUS
<1>1. a \in Seq(S) /\ Len(a) = n /\ \A k \in 1 .. n : a[k] = s[k]
  BY <1>0
<1>2. /\ b \in Seq(S) /\ Len(b) = Len(s) - n
      /\ \A k \in 1 .. Len(s) - n : b[k] = s[n + k]
  BY <1>0
<1> HIDE DEF a, b
<1>3. /\ \A k \in 1 .. Len(a) : a[k] = s[k] /\ k \in 1 .. Len(s)
      /\ \A k \in 1 .. Len(b) : b[k] = s[n + k] /\ n + k \in 1 .. Len(s)
      /\ \A j, k \in 1 .. Len(b) : n + j = n + k => j = k
  BY <1>0, <1>1, <1>2
<1>4. ASSUME NEW k \in 1 .. Len(s)
      PROVE  \/ k \in 1 .. Len(a)
             \/ k - n \in 1 .. Len(b) /\ n + (k - n) = k
  BY <1>0, <1>1, <1>2
<1>5. Els(a) \union Els(b) = Els(s)
  <2>1. Els(a) \subseteq Els(s) /\ Els(b) \subseteq Els(s)
    BY <1>3 DEF Els
  <2>2. ASSUME NEW k \in 1 .. Len(s) PROVE s[k] \in Els(a) \union Els(b)
    <3>1. CASE k \in 1 .. Len(a)
      BY <1>3, <3>1 DEF Els
    <3>2. CASE k - n \in 1 .. Len(b) /\ n + (k - n) = k
      <4>1. b[k - n] = s[k]
        BY <1>3, <3>2
      <4>. QED
        BY <3>2, <4>1 DEF Els
    <3>. QED
      BY <1>4, <3>1, <3>2
  <2>3. Els(s) \subseteq Els(a) \union Els(b)
    BY <2>2 DEF Els
  <2>. QED
    BY <2>1, <2>3
<1>6. OneEach(s) => OneEach(a) /\ OneEach(b)
  <2> SUFFICES ASSUME OneEach(s) PROVE OneEach(a) /\ OneEach(b)
    OBVIOUS
  <2>1. OneEach(a)
    BY <1>3 DEF OneEach
  <2>2. ASSUME NEW j \in 1 .. Len(b), NEW k \in 1 .. Len(b), b[j].fd = b[k].fd
        PROVE  j = k
    <3> DEFINE i == n + j  m == n + k
    <3>1. i \in 1 .. Len(s) /\ m \in 1 .. Len(s) /\ b[j] = s[i] /\ b[k] = s[m]
      BY <1>3
    <3>2. i = m => j = k
      BY <1>3
    <3> HIDE DEF i, m
    <3>. QED
      BY <2>2, <3>1, <3>2 DEF OneEach
  <2>. QED
    BY <2>1, <2>2 DEF OneEach
<1>. QED
  BY <1>1, <1>2, <1>5, <1>6 DEF a, b

\* A list without one of its members.
LEMMA RemoveList ==
  ASSUME NEW S, NEW s \in Seq(S), OneEach(s), NEW n \in 1 .. Len(s)
  PROVE  /\ RemoveAt(s, n) \in Seq(S) /\ OneEach(RemoveAt(s, n))
         /\ Els(RemoveAt(s, n)) = {x \in Els(s) : x.fd # s[n].fd}
<1> DEFINE r == RemoveAt(s, n)
<1>0. Len(s) \in Nat /\ n \in Nat /\ 1 <= n /\ n <= Len(s)
  OBVIOUS
<1>1. /\ SubSeq(s, 1, n - 1) \in Seq(S) /\ Len(SubSeq(s, 1, n - 1)) = n - 1
      /\ \A k \in 1 .. n - 1 : SubSeq(s, 1, n - 1)[k] = s[k]
  BY <1>0
<1>2. /\ SubSeq(s, n + 1, Len(s)) \in Seq(S) /\ Len(SubSeq(s, n + 1, Len(s))) = Len(s) - n
      /\ \A k \in 1 .. Len(s) - n : SubSeq(s, n + 1, Len(s))[k] = s[n + k]
  BY <1>0
<1> DEFINE a == SubSeq(s, 1, n - 1)  b == SubSeq(s, n + 1, Len(s))
<1> HIDE DEF a, b
<1>3. /\ r \in Seq(S) /\ Len(r) = Len(s) - 1
      /\ \A k \in 1 .. Len(r) : r[k] = IF k < n THEN s[k] ELSE s[k + 1]
  <2>1. r = a \o b
    BY DEF r, RemoveAt, a, b
  <2>2. /\ a \in Seq(S) /\ b \in Seq(S) /\ Len(a) = n - 1 /\ Len(b) = Len(s) - n
        /\ \A k \in 1 .. n - 1 : a[k] = s[k]
        /\ \A k \in 1 .. Len(s) - n : b[k] = s[n + k]
    BY <1>1, <1>2 DEF a, b
  <2>3. r \in Seq(S) /\ Len(r) = Len(s) - 1
    <3>1. a \in Seq(S) /\ b \in Seq(S) => a \o b \in Seq(S) /\ Len(a \o b) = Len(a) + Len(b)
      OBVIOUS
    <3>2. a \o b \in Seq(S) /\ Len(a \o b) = Len(a) + Len(b)
      BY <2>2, <3>1
    <3>3. r \in Seq(S) /\ Len(r) = Len(a) + Len(b)
      BY <2>1, <3>2
    <3>4. Len(a) + Len(b) = Len(s) - 1
      BY <1>0, <2>2
    <3>. QED
      BY <3>3, <3>4
  <2>4. ASSUME NEW k \in 1 .. Len(s) - 1
        PROVE  r[k] = IF k < n THEN s[k] ELSE s[k + 1]
    <3>1. r[k] = IF k <= Len(a) THEN a[k] ELSE b[k - Len(a)]
      BY <1>0, <2>1, <2>2
    <3>2. CASE k < n
      BY <1>0, <2>2, <3>1, <3>2
    <3>3. CASE ~(k < n)
      <4>1. k - Len(a) \in 1 .. Len(s) - n /\ n + (k - Len(a)) = k + 1 /\ ~(k <= Len(a))
        BY <1>0, <2>2, <3>3
      <4>2. b[k - Len(a)] = s[n + (k - Len(a))]
        BY <2>2, <4>1
      <4>. QED
        BY <3>1, <3>3, <4>1, <4>2
    <3>. QED
      BY <3>2, <3>3
  <2>. QED
    BY <2>3, <2>4
<1> HIDE DEF r
<1> DEFINE at(k) == IF k < n THEN k ELSE k + 1
<1>4. /\ \A k \in 1 .. Len(r) : r[k] = s[at(k)] /\ at(k) \in 1 .. Len(s) /\ at(k) # n
      /\ \A j, k \in 1 .. Len(r) : at(j) = at(k) => j = k
  BY <1>0, <1>3
<1>5. ASSUME NEW k \in 1 .. Len(s), k # n PROVE \E j \in 1 .. Len(r) : at(j) = k
  <2>1. CASE k < n
    <3>1. k \in 1 .. Len(r) /\ at(k) = k
      BY <1>0, <1>3, <2>1
    <3>. QED
      BY <3>1
  <2>2. CASE ~(k < n)
    <3>1. k - 1 \in 1 .. Len(r) /\ at(k - 1) = k
      BY <1>0, <1>3, <1>5, <2>2
    <3>. QED
      BY <3>1
  <2>. QED
    BY <2>1, <2>2
<1> HIDE DEF at
<1>6. OneEach(r)
  BY <1>4 DEF OneEach
<1>7. Els(r) = {x \in Els(s) : x.fd # s[n].fd}
  <2>1. ASSUME NEW k \in 1 .. Len(r) PROVE r[k] \in Els(s) /\ r[k].fd # s[n].fd
    BY <1>4 DEF Els, OneEach
  <2>2. ASSUME NEW k \in 1 .. Len(s), s[k].fd # s[n].fd PROVE s[k] \in Els(r)
    <3>1. PICK j \in 1 .. Len(r) : at(j) = k
      BY <1>5, <2>2
    <3>2. r[j] = s[k]
      BY <1>4, <3>1
    <3>. QED
      BY <3>2 DEF Els
  <2>. QED
    BY <2>1, <2>2 DEF Els
<1>. QED
  BY <1>3, <1>6, <1>7 DEF r

-----------------------------------------------------------------------------
(* The invariant.                                                          *)

Note == [fd : Fd \union {tcp_master}, who : {{}} \union {{c} : c \in Client}]

MTypeInv ==
  /\ alive \in BOOLEAN /\ backlog \in Seq(Client)
  /\ conn \in [Fd -> {{}} \union {{c} : c \in Client}]
  /\ ready \in Seq(Note) /\ campanas \in Seq(Note)
  /\ OneEach(ready) /\ OneEach(campanas)
  /\ pc = PcOf(campanas) \/ (pc = "handle" /\ PcOf(campanas) = "read")
  /\ phase \in [Client -> {"new", "here", "done", "left"}]
  /\ inbox \in [Client -> Nat] /\ sent \in [Client -> Nat]
  /\ got \in [Client -> Nat] /\ out \in [Client -> Nat]
  /\ reset \subseteq Client

\* The events on their way.
Rung == Els(ready) \union Els(campanas)

Fresh(e) ==
  IF e.fd = tcp_master THEN e.who = {} ELSE conn[e.fd] = e.who /\ e.who # {}

FreshInv == \A e \in Rung : Fresh(e)

\* A client is in the backlog once, or behind one descriptor, or has not come.
PlaceInv ==
  /\ \A f, g \in Fd : conn[f] = conn[g] /\ conn[f] # {} => f = g
  /\ \A k \in 1 .. Len(backlog) : /\ phase[backlog[k]] # "new"
                                  /\ \A f \in Fd : backlog[k] \notin conn[f]
  /\ \A j, k \in 1 .. Len(backlog) : backlog[j] = backlog[k] => j = k
  /\ \A f \in Fd : \A c \in conn[f] : phase[c] # "new"

HasEvent(f) == \E e \in Rung : e.fd = f

EdgeInv ==
  /\ backlog # <<>> => HasEvent(tcp_master)
  /\ \A f \in Fd : \A c \in conn[f] : inbox[c] > 0 \/ Ended(c) => HasEvent(f)

\* A line is waiting, being answered, answered and not read, read, or dropped.
Handled(c) == IF pc = "handle" /\ c \in conn[Current] THEN 1 ELSE 0

LineInv ==
  \A c \in Client :
    /\ got[c] + out[c] + inbox[c] + Handled(c) <= sent[c]
    /\ sent[c] <= MaxSent /\ out[c] <= Window

MInv == MTypeInv /\ FreshInv /\ PlaceInv /\ EdgeInv /\ LineInv

LEMMA Constants ==
  /\ MaxFd \in Nat \ {0} /\ MaxEpoll \in Nat \ {0} /\ MaxSent \in Nat \ {0}
  /\ Window \in Nat \ {0}
  /\ tcp_master \notin Fd /\ Fd \subseteq Nat
BY CacheAssumption DEF Fd, tcp_master

LEMMA MinOfTwo ==
  ASSUME NEW a \in Nat, NEW b \in Nat
  PROVE  Min({a, b}) = IF a <= b THEN a ELSE b
<1>1. CASE a <= b
  <2>1. a \in {a, b} /\ \A y \in {a, b} : a <= y
    BY <1>1
  <2>2. \A x \in {a, b} : (\A y \in {a, b} : x <= y) => x = a
    BY <1>1
  <2>. QED
    BY <1>1, <2>1, <2>2 DEF Min
<1>2. CASE ~(a <= b)
  <2>1. b \in {a, b} /\ \A y \in {a, b} : b <= y
    BY <1>2
  <2>2. \A x \in {a, b} : (\A y \in {a, b} : x <= y) => x = b
    BY <1>2
  <2>. QED
    BY <1>2, <2>1, <2>2 DEF Min
<1>. QED
  BY <1>1, <1>2

\* There is a lowest free descriptor when there is one.
LEMMA MinIsFree == ASSUME Free # {} PROVE Min(Free) \in Free
<1>1. Free \in SUBSET Nat
  BY Constants DEF Free
<1>. QED
  BY <1>1, Least DEF Min

\* The event of a descriptor that is open joins the list unless it is there.
LEMMA NotifiedFacts ==
  ASSUME MTypeInv, FreshInv, NEW f \in Fd \union {tcp_master}, f \in Fd => conn[f] # {}
  PROVE  /\ Notified(Event(f)) \in Seq(Note) /\ OneEach(Notified(Event(f)))
         /\ Els(Notified(Event(f))) = Els(ready) \union {Event(f)}
         /\ Event(f).fd = f /\ Fresh(Event(f))
<1> DEFINE e == Event(f)
<1>1. e \in Note /\ e.fd = f /\ Fresh(e)
  BY Constants DEF Event, Note, Fresh, MTypeInv
<1>2. \A x \in Els(ready) : x.fd = f => x = e
  <2> SUFFICES ASSUME NEW x \in Els(ready), x.fd = f PROVE x = e
    OBVIOUS
  <2>1. x \in Note /\ Fresh(x)
    BY DEF MTypeInv, FreshInv, Rung, Els
  <2>2. x.who = e.who
    BY <1>1, <2>1 DEF Fresh
  <2>3. x = [fd |-> x.fd, who |-> x.who] /\ e = [fd |-> e.fd, who |-> e.who]
    BY <1>1, <2>1 DEF Note
  <2>. QED
    BY <1>1, <2>2, <2>3
<1> HIDE DEF e
<1>3. ToSet(ready) = Els(ready)
  BY DEF ToSet, Els, MTypeInv
<1>4. CASE e \in Els(ready)
  <2>1. Notified(e) = ready
    BY <1>3, <1>4 DEF Notified
  <2>. QED
    BY <1>1, <1>4, <2>1 DEF MTypeInv, e
<1>5. CASE e \notin Els(ready)
  <2>1. Notified(e) = Append(ready, e)
    BY <1>3, <1>5 DEF Notified
  <2>2. \A x \in Els(ready) : x.fd # e.fd
    BY <1>1, <1>2, <1>5
  <2>3. ready \in Seq(Note) /\ OneEach(ready) /\ e \in Note
    BY <1>1 DEF MTypeInv
  <2>4. /\ Append(ready, e) \in Seq(Note) /\ Els(Append(ready, e)) = Els(ready) \union {e}
        /\ OneEach(ready) /\ (\A x \in Els(ready) : x.fd # e.fd) => OneEach(Append(ready, e))
    BY <2>3, AppendList
  <2>. QED
    BY <1>1, <2>1, <2>2, <2>3, <2>4 DEF e
<1>. QED
  BY <1>4, <1>5

\* What arrives from a client rings for its descriptor.
LEMMA RingsFacts ==
  ASSUME MTypeInv, FreshInv, PlaceInv, NEW c \in Client
  PROVE  /\ Rings(c) \in Seq(Note) /\ OneEach(Rings(c))
         /\ Els(ready) \subseteq Els(Rings(c))
         /\ \A e \in Els(Rings(c)) : e \in Els(ready) \/ Fresh(e)
         /\ \A f \in Fd : conn[f] = {c} => \E e \in Els(Rings(c)) : e.fd = f
<1>1. CASE Descriptor(c) = {}
  BY <1>1 DEF Rings, Descriptor, MTypeInv
<1>2. ASSUME NEW d \in Descriptor(c)
      PROVE  Rings(c) = Notified(Event(d)) /\ Descriptor(c) = {d} /\ d \in Fd /\ conn[d] = {c}
  <2>1. d \in Fd /\ conn[d] = {c}
    BY <1>2 DEF Descriptor
  <2>2. Descriptor(c) = {d}
    BY <2>1 DEF Descriptor, PlaceInv
  <2>3. Min({d}) = d
    <3>1. d <= d
      BY <2>1, Constants
    <3>. QED
      BY <3>1 DEF Min
  <2>. QED
    BY <2>1, <2>2, <2>3 DEF Rings
<1>3. ASSUME NEW d \in Descriptor(c)
      PROVE  /\ Rings(c) \in Seq(Note) /\ OneEach(Rings(c))
             /\ Els(ready) \subseteq Els(Rings(c))
             /\ \A e \in Els(Rings(c)) : e \in Els(ready) \/ Fresh(e)
             /\ \A f \in Fd : conn[f] = {c} => \E e \in Els(Rings(c)) : e.fd = f
  <2>1. /\ Rings(c) = Notified(Event(d)) /\ d \in Fd /\ conn[d] # {}
        /\ \A f \in Fd : conn[f] = {c} => f = d
    BY <1>2 DEF Descriptor
  <2>2. /\ Notified(Event(d)) \in Seq(Note) /\ OneEach(Notified(Event(d)))
        /\ Els(Notified(Event(d))) = Els(ready) \union {Event(d)}
        /\ Event(d).fd = d /\ Fresh(Event(d))
    BY <2>1, NotifiedFacts
  <2>. QED
    BY <2>1, <2>2
<1>. QED
  BY <1>1, <1>3

\* The event that is being handled is that of the client of its descriptor.
LEMMA CurrentFacts ==
  ASSUME MTypeInv, FreshInv, pc \in {"read", "handle"}
  PROVE  /\ campanas # <<>> /\ Head(campanas) \in Els(campanas)
         /\ Current \in Fd /\ Sender \in Client /\ conn[Current] = {Sender}
<1>1. campanas # <<>> /\ Current # tcp_master
  BY DEF MTypeInv, PcOf, Current
<1>2. Head(campanas) \in Els(campanas)
  BY <1>1, TailList DEF MTypeInv
<1>3. Head(campanas) \in Note /\ Fresh(Head(campanas))
  BY <1>1, <1>2 DEF MTypeInv, FreshInv, Rung
<1>4. Current \in Fd /\ conn[Current] # {}
  BY <1>1, <1>3 DEF Note, Fresh, Current
<1>5. \E c \in Client : conn[Current] = {c}
  BY <1>4 DEF MTypeInv
<1>. QED
  BY <1>1, <1>2, <1>4, <1>5 DEF Sender

\* The list without a descriptor.
LEMMA WithoutFacts ==
  ASSUME MTypeInv, NEW f
  PROVE  /\ ReadyWithout(f) \in Seq(Note) /\ OneEach(ReadyWithout(f))
         /\ Els(ReadyWithout(f)) = {x \in Els(ready) : x.fd # f}
<1>0. DOMAIN ready = 1 .. Len(ready)
  BY DEF MTypeInv
<1>1. CASE \E k \in DOMAIN ready : ready[k].fd = f
  <2> DEFINE n == CHOOSE k \in DOMAIN ready : ready[k].fd = f
  <2>1. n \in 1 .. Len(ready) /\ ready[n].fd = f
    BY <1>0, <1>1
  <2>2. ReadyWithout(f) = RemoveAt(ready, n)
    BY <1>1 DEF ReadyWithout
  <2> HIDE DEF n
  <2>3. /\ RemoveAt(ready, n) \in Seq(Note) /\ OneEach(RemoveAt(ready, n))
        /\ Els(RemoveAt(ready, n)) = {x \in Els(ready) : x.fd # ready[n].fd}
    BY <2>1, RemoveList DEF MTypeInv
  <2>. QED
    BY <2>1, <2>2, <2>3
<1>2. CASE ~ \E k \in DOMAIN ready : ready[k].fd = f
  <2>1. ReadyWithout(f) = ready
    BY <1>2 DEF ReadyWithout
  <2>2. Els(ready) = {x \in Els(ready) : x.fd # f}
    BY <1>0, <1>2 DEF Els
  <2>. QED
    BY <2>1, <2>2 DEF MTypeInv
<1>. QED
  BY <1>1, <1>2

\* Events that join the list are fresh, and none is lost, while no list of
\* returned events and no descriptor changes.
LEMMA Grows ==
  ASSUME MInv, UNCHANGED <<conn, campanas>>, Els(ready) \subseteq Els(ready'),
         \A e \in Els(ready') : e \in Els(ready) \/ Fresh(e)
  PROVE  FreshInv' /\ \A f : HasEvent(f) => HasEvent(f)'
<1>1. Rung' = Els(ready') \union Els(campanas) /\ Rung \subseteq Rung'
  BY DEF Rung
<1>2. \A e : Fresh(e)' = Fresh(e)
  BY DEF Fresh
<1>3. \A e \in Rung' : Fresh(e)
  BY <1>1 DEF MInv, FreshInv, Rung
<1>. QED
  BY <1>1, <1>2, <1>3 DEF FreshInv, HasEvent

LEMMA SameHandled ==
  ASSUME UNCHANGED <<pc, conn, campanas>>, NEW c
  PROVE  Handled(c)' = Handled(c)
BY DEF Handled, Current

LEMMA HandledIsOneOrNone == \A c : Handled(c) \in {0, 1}
BY DEF Handled

\* What the lists of the invariant say of a client.
LEMMA ClientFacts ==
  ASSUME MTypeInv, NEW c \in Client
  PROVE  /\ inbox[c] \in Nat /\ sent[c] \in Nat /\ got[c] \in Nat /\ out[c] \in Nat
         /\ phase[c] \in {"new", "here", "done", "left"}
         /\ Handled(c) \in {0, 1} /\ MaxSent \in Nat /\ Window \in Nat \ {0}
BY HandledIsOneOrNone, Constants DEF MTypeInv

LEMMA ConnFacts ==
  ASSUME MTypeInv, NEW f \in Fd, NEW d \in conn[f]
  PROVE  d \in Client /\ conn[f] = {d}
<1>1. conn[f] = {} \/ \E c \in Client : conn[f] = {c}
  BY DEF MTypeInv
<1>. QED
  BY <1>1

LEMMA ConnectKeeps == ASSUME MInv, NEW c \in Client, Connect(c) PROVE MInv'
<1>1. /\ ready' \in Seq(Note) /\ OneEach(ready')
      /\ Els(ready') = Els(ready) \union {Event(tcp_master)}
      /\ Event(tcp_master).fd = tcp_master /\ Fresh(Event(tcp_master))
  BY NotifiedFacts, Constants DEF MInv, Connect
<1>2. FreshInv' /\ \A f : HasEvent(f) => HasEvent(f)'
  BY <1>1, Grows DEF Connect
<1>3. backlog' \in Seq(Client) /\ Len(backlog) \in Nat /\ Len(backlog') = Len(backlog) + 1
      /\ backlog'[Len(backlog) + 1] = c
      /\ \A k \in 1 .. Len(backlog) : backlog'[k] = backlog[k] /\ backlog[k] \in Client
  BY DEF Connect, MInv, MTypeInv
<1>4. MTypeInv'
  BY <1>1, <1>3 DEF MInv, MTypeInv, Connect
<1>5. phase' \in [Client -> {"new", "here", "done", "left"}] /\ phase[c] = "new"
      /\ phase'[c] = "here" /\ \A d \in Client \ {c} : phase'[d] = phase[d]
  BY <1>4 DEF Connect, MInv, MTypeInv
<1>6. \A f \in Fd : c \notin conn[f] /\ conn[f] \subseteq Client
  BY <1>5, ConnFacts DEF MInv, PlaceInv
<1>7. PlaceInv'
  <2>1. \A k \in 1 .. Len(backlog') : k \in 1 .. Len(backlog) \/ k = Len(backlog) + 1
    BY <1>3
  <2>2. \A k \in 1 .. Len(backlog) : backlog[k] # c
    BY <1>5 DEF MInv, PlaceInv
  <2>3. UNCHANGED conn
    BY DEF Connect
  <2>. QED
    BY <1>3, <1>5, <1>6, <2>1, <2>2, <2>3 DEF MInv, PlaceInv
<1>8. EdgeInv'
  <2>1. HasEvent(tcp_master)'
    BY <1>1 DEF HasEvent, Rung
  <2>2. UNCHANGED <<conn, inbox>>
    BY DEF Connect
  <2>3. \A f \in Fd : \A d \in conn[f] : phase'[d] = phase[d]
    BY <1>5, <1>6
  <2>. QED
    BY <1>2, <2>1, <2>2, <2>3 DEF MInv, EdgeInv, Ended
<1>9. LineInv'
  BY SameHandled DEF MInv, LineInv, Connect
<1>. QED
  BY <1>2, <1>4, <1>7, <1>8, <1>9 DEF MInv

\* What arrives from a client that is known rings for it: of the invariant only
\* the types and the counts are left to see.
LEMMA ArrivalKeeps ==
  ASSUME MInv, NEW c \in Client, phase[c] # "new", ready' = Rings(c),
         UNCHANGED <<conn, campanas, backlog>>,
         \A d \in Client \ {c} : inbox'[d] = inbox[d] /\ phase'[d] = phase[d],
         phase'[c] # "new"
  PROVE  FreshInv' /\ PlaceInv' /\ EdgeInv' /\ ready' \in Seq(Note) /\ OneEach(ready')
<1>1. /\ ready' \in Seq(Note) /\ OneEach(ready')
      /\ Els(ready) \subseteq Els(ready')
      /\ \A e \in Els(ready') : e \in Els(ready) \/ Fresh(e)
      /\ \A f \in Fd : conn[f] = {c} => \E e \in Els(ready') : e.fd = f
  BY RingsFacts DEF MInv
<1>2. FreshInv' /\ \A f : HasEvent(f) => HasEvent(f)'
  BY <1>1, Grows
<1>3. \A f \in Fd : \A d \in conn[f] : d \in Client /\ conn[f] = {d}
  BY ConnFacts DEF MInv
<1>4. \A k \in 1 .. Len(backlog) : backlog[k] \in Client
  BY DEF MInv, MTypeInv
<1>5. PlaceInv'
  BY <1>3, <1>4 DEF MInv, PlaceInv
<1>6. EdgeInv'
  <2>1. ASSUME NEW f \in Fd, NEW d \in conn[f], inbox'[d] > 0 \/ Ended(d)'
        PROVE  HasEvent(f)'
    <3>1. CASE d = c
      BY <1>1, <1>3, <3>1 DEF HasEvent, Rung
    <3>2. CASE d # c
      BY <1>2, <1>3, <2>1, <3>2 DEF MInv, EdgeInv, Ended
    <3>. QED
      BY <3>1, <3>2
  <2>. QED
    BY <1>2, <2>1 DEF MInv, EdgeInv
<1>. QED
  BY <1>1, <1>2, <1>5, <1>6

LEMMA SendKeeps == ASSUME MInv, NEW c \in Client, Send(c) PROVE MInv'
<1>1. FreshInv' /\ PlaceInv' /\ EdgeInv' /\ ready' \in Seq(Note) /\ OneEach(ready')
  BY ArrivalKeeps DEF Send, MInv, MTypeInv
<1>2. MTypeInv'
  <2>1. sent' \in [Client -> Nat] /\ inbox' \in [Client -> Nat]
    BY DEF Send, MInv, MTypeInv
  <2>. QED
    BY <1>1, <2>1 DEF Send, MInv, MTypeInv
<1>3. sent'[c] = sent[c] + 1 /\ inbox'[c] = inbox[c] + 1 /\ got'[c] = got[c]
      /\ out'[c] = out[c] /\ sent[c] < MaxSent
  BY DEF Send, MInv, MTypeInv
<1>4. /\ inbox[c] \in Nat /\ sent[c] \in Nat /\ got[c] \in Nat /\ out[c] \in Nat
      /\ Handled(c) \in {0, 1} /\ MaxSent \in Nat /\ Window \in Nat \ {0}
  BY ClientFacts DEF MInv
<1>5. LineInv'
  <2>1. ASSUME NEW d \in Client
        PROVE  /\ got'[d] + out'[d] + inbox'[d] + Handled(d)' <= sent'[d]
               /\ sent'[d] <= MaxSent /\ out'[d] <= Window
    <3>1. Handled(d)' = Handled(d)
      BY SameHandled DEF Send
    <3>2. /\ got[d] + out[d] + inbox[d] + Handled(d) <= sent[d]
          /\ sent[d] <= MaxSent /\ out[d] <= Window
      BY DEF MInv, LineInv
    <3>3. CASE d = c
      BY <1>3, <1>4, <3>1, <3>2, <3>3
    <3>4. CASE d # c
      BY <3>1, <3>2, <3>4 DEF Send, MInv, MTypeInv
    <3>. QED
      BY <3>3, <3>4
  <2>. QED
    BY <2>1 DEF LineInv
<1>. QED
  BY <1>1, <1>2, <1>5 DEF MInv

LEMMA HearKeeps == ASSUME MInv, NEW c \in Client, Hear(c) PROVE MInv'
<1>1. FreshInv' /\ PlaceInv' /\ EdgeInv'
  <2>1. UNCHANGED <<conn, campanas, ready, backlog, phase, inbox>>
    BY DEF Hear
  <2>. QED
    BY <2>1 DEF MInv, FreshInv, PlaceInv, EdgeInv, Fresh, Rung, HasEvent, Ended
<1>2. MTypeInv'
  <2>1. out' \in [Client -> Nat] /\ got' \in [Client -> Nat]
    <3>1. out[c] \in Nat /\ out[c] > 0 => out[c] - 1 \in Nat
      OBVIOUS
    <3>. QED
      BY <3>1 DEF Hear, MInv, MTypeInv
  <2>. QED
    BY <2>1 DEF Hear, MInv, MTypeInv
<1>3. out'[c] = out[c] - 1 /\ got'[c] = got[c] + 1 /\ out[c] > 0
      /\ sent'[c] = sent[c] /\ inbox'[c] = inbox[c]
  BY DEF Hear, MInv, MTypeInv
<1>4. /\ inbox[c] \in Nat /\ sent[c] \in Nat /\ got[c] \in Nat /\ out[c] \in Nat
      /\ Handled(c) \in {0, 1} /\ MaxSent \in Nat /\ Window \in Nat \ {0}
  BY ClientFacts DEF MInv
<1>5. LineInv'
  <2>1. ASSUME NEW d \in Client
        PROVE  /\ got'[d] + out'[d] + inbox'[d] + Handled(d)' <= sent'[d]
               /\ sent'[d] <= MaxSent /\ out'[d] <= Window
    <3>1. Handled(d)' = Handled(d)
      BY SameHandled DEF Hear
    <3>2. /\ got[d] + out[d] + inbox[d] + Handled(d) <= sent[d]
          /\ sent[d] <= MaxSent /\ out[d] <= Window
      BY DEF MInv, LineInv
    <3>3. CASE d = c
      BY <1>3, <1>4, <3>1, <3>2, <3>3
    <3>4. CASE d # c
      BY <3>1, <3>2, <3>4 DEF Hear, MInv, MTypeInv
    <3>. QED
      BY <3>3, <3>4
  <2>. QED
    BY <2>1 DEF LineInv
<1>. QED
  BY <1>1, <1>2, <1>5 DEF MInv

LEMMA FinishKeeps == ASSUME MInv, NEW c \in Client, Finish(c) PROVE MInv'
<1>1. FreshInv' /\ PlaceInv' /\ EdgeInv' /\ ready' \in Seq(Note) /\ OneEach(ready')
  BY ArrivalKeeps DEF Finish, MInv, MTypeInv
<1>2. MTypeInv'
  BY <1>1 DEF Finish, MInv, MTypeInv
<1>3. LineInv'
  BY SameHandled DEF Finish, MInv, LineInv
<1>. QED
  BY <1>1, <1>2, <1>3 DEF MInv

LEMMA LeaveKeeps == ASSUME MInv, NEW c \in Client, Leave(c) PROVE MInv'
<1>1. FreshInv' /\ PlaceInv' /\ EdgeInv' /\ ready' \in Seq(Note) /\ OneEach(ready')
  BY ArrivalKeeps DEF Leave, MInv, MTypeInv
<1>2. MTypeInv'
  <2>1. /\ out' \in [Client -> Nat] /\ reset' \subseteq Client
        /\ phase' \in [Client -> {"new", "here", "done", "left"}]
    BY DEF Leave, MInv, MTypeInv
  <2>. QED
    BY <1>1, <2>1 DEF Leave, MInv, MTypeInv
<1>3. out'[c] = 0 /\ got'[c] = got[c] /\ sent'[c] = sent[c] /\ inbox'[c] = inbox[c]
  BY DEF Leave, MInv, MTypeInv
<1>4. /\ inbox[c] \in Nat /\ sent[c] \in Nat /\ got[c] \in Nat /\ out[c] \in Nat
      /\ Handled(c) \in {0, 1} /\ MaxSent \in Nat /\ Window \in Nat \ {0}
  BY ClientFacts DEF MInv
<1>5. LineInv'
  <2>1. ASSUME NEW d \in Client
        PROVE  /\ got'[d] + out'[d] + inbox'[d] + Handled(d)' <= sent'[d]
               /\ sent'[d] <= MaxSent /\ out'[d] <= Window
    <3>1. Handled(d)' = Handled(d)
      BY SameHandled DEF Leave
    <3>2. /\ got[d] + out[d] + inbox[d] + Handled(d) <= sent[d]
          /\ sent[d] <= MaxSent /\ out[d] <= Window
      BY DEF MInv, LineInv
    <3>3. CASE d = c
      BY <1>3, <1>4, <3>1, <3>2, <3>3
    <3>4. CASE d # c
      BY <3>1, <3>2, <3>4 DEF Leave, MInv, MTypeInv
    <3>. QED
      BY <3>3, <3>4
  <2>. QED
    BY <2>1 DEF LineInv
<1>. QED
  BY <1>1, <1>2, <1>5 DEF MInv

-----------------------------------------------------------------------------
(* The steps of the server.                                                *)

\* No line is being answered afterwards.
LEMMA IdleLines ==
  ASSUME MInv, pc' # "handle", UNCHANGED <<inbox, out, got, sent>>
  PROVE  LineInv'
<1> SUFFICES ASSUME NEW d \in Client
             PROVE  /\ got[d] + out[d] + inbox[d] + Handled(d)' <= sent[d]
                    /\ sent[d] <= MaxSent /\ out[d] <= Window
  BY DEF LineInv
<1>1. Handled(d)' = 0
  BY DEF Handled
<1>2. /\ got[d] + out[d] + inbox[d] + Handled(d) <= sent[d]
      /\ sent[d] <= MaxSent /\ out[d] <= Window
  BY DEF MInv, LineInv
<1>3. /\ inbox[d] \in Nat /\ sent[d] \in Nat /\ got[d] \in Nat /\ out[d] \in Nat
      /\ Handled(d) \in {0, 1}
  BY ClientFacts DEF MInv
<1>. QED
  BY <1>1, <1>2, <1>3

LEMMA PlaceOfPc ==
  ASSUME MTypeInv
  PROVE  /\ pc = "wait" => campanas = <<>>
         /\ pc = "accept" => /\ campanas # <<>> /\ Current = tcp_master
                             /\ Head(campanas) \in Els(campanas)
<1>1. pc = "wait" => campanas = <<>>
  BY DEF MTypeInv, PcOf
<1>2. pc = "accept" => campanas # <<>> /\ Current = tcp_master
  BY DEF MTypeInv, PcOf, Current
<1>3. campanas # <<>> => Head(campanas) \in Els(campanas)
  BY TailList DEF MTypeInv
<1>. QED
  BY <1>1, <1>2, <1>3

\* An event that is in a list tells of a descriptor that is open.
LEMMA RungIsOpen ==
  ASSUME MInv, NEW e \in Rung
  PROVE  e \in Note /\ Fresh(e) /\ (e.fd \in Fd => conn[e.fd] # {})
<1>1. e \in Note
  BY DEF MInv, MTypeInv, Rung, Els
<1>2. Fresh(e)
  BY DEF MInv, FreshInv
<1>. QED
  BY <1>1, <1>2, Constants DEF Fresh

\* The current event is done with.
LEMMA Popped ==
  ASSUME MInv, campanas # <<>>, NextEvent
  PROVE  /\ campanas' \in Seq(Note) /\ OneEach(campanas')
         /\ Els(campanas') = {x \in Els(campanas) : x.fd # Current}
         /\ pc' = PcOf(campanas') /\ pc' # "handle"
<1>1. /\ Tail(campanas) \in Seq(Note) /\ OneEach(Tail(campanas))
      /\ Els(Tail(campanas)) = {x \in Els(campanas) : x.fd # Head(campanas).fd}
  BY TailList DEF MInv, MTypeInv
<1>2. campanas' = Tail(campanas) /\ pc' = PcOf(campanas')
  BY DEF NextEvent, Starts
<1>3. pc' # "handle"
  BY <1>2 DEF PcOf
<1>. QED
  BY <1>1, <1>2, <1>3 DEF Current

LEMMA EpollWaitKeeps == ASSUME MInv, EpollWait PROVE MInv'
<1> DEFINE n == Min({MaxEpoll, Len(ready)})
<1>1. n \in 0 .. Len(ready)
  <2>1. Len(ready) \in Nat /\ MaxEpoll \in Nat
    BY Constants DEF MInv, MTypeInv
  <2>2. n = IF MaxEpoll <= Len(ready) THEN MaxEpoll ELSE Len(ready)
    BY <2>1, MinOfTwo
  <2>. QED
    BY <2>1, <2>2
<1> HIDE DEF n
<1>2. /\ campanas' = SubSeq(ready, 1, n) /\ ready' = SubSeq(ready, n + 1, Len(ready))
      /\ pc' = PcOf(campanas') /\ campanas = <<>>
      /\ UNCHANGED <<alive, backlog, conn, phase, inbox, sent, out, got, reset>>
  BY PlaceOfPc DEF EpollWait, Starts, clients, MInv, n
<1>3. /\ campanas' \in Seq(Note) /\ ready' \in Seq(Note)
      /\ Els(campanas') \union Els(ready') = Els(ready)
      /\ OneEach(campanas') /\ OneEach(ready')
  <2>1. ready \in Seq(Note) /\ OneEach(ready)
    BY DEF MInv, MTypeInv
  <2>. QED
    BY <1>1, <1>2, <2>1, CutList
<1>4. Rung' = Rung
  <2>1. Els(campanas) = {}
    BY <1>2 DEF Els
  <2>. QED
    BY <1>3, <2>1 DEF Rung
<1>5. MTypeInv'
  BY <1>2, <1>3 DEF MInv, MTypeInv
<1>6. FreshInv' /\ PlaceInv' /\ EdgeInv'
  BY <1>2, <1>4 DEF MInv, FreshInv, Fresh, PlaceInv, EdgeInv, HasEvent, Ended
<1>7. LineInv'
  <2>1. pc' # "handle"
    BY <1>2 DEF PcOf
  <2>. QED
    BY <1>2, <2>1, IdleLines
<1>. QED
  BY <1>5, <1>6, <1>7 DEF MInv

LEMMA AcceptKeeps == ASSUME MInv, Accept PROVE MInv'
<1> DEFINE f == Min(Free)  c == Head(backlog)  e == [fd |-> f, who |-> {c}]
<1>1. f \in Fd /\ conn[f] = {} /\ f # tcp_master
  BY MinIsFree, Constants DEF Accept, Free
<1>2. /\ backlog \in Seq(Client) /\ backlog # <<>> /\ Len(backlog) \in Nat \ {0}
      /\ c \in Client /\ c = backlog[1] /\ 1 \in 1 .. Len(backlog)
      /\ Tail(backlog) \in Seq(Client) /\ Len(Tail(backlog)) = Len(backlog) - 1
      /\ \A k \in 1 .. Len(Tail(backlog)) :
           Tail(backlog)[k] = backlog[k + 1] /\ k + 1 \in 1 .. Len(backlog) /\ k + 1 # 1
  BY DEF Accept, MInv, MTypeInv
<1>3. /\ backlog' = Tail(backlog) /\ conn' = [conn EXCEPT ![f] = {c}]
      /\ ready' = IF inbox[c] > 0 \/ Ended(c) THEN Append(ready, e) ELSE ready
      /\ UNCHANGED <<alive, campanas, pc, phase, inbox, sent, out, got, reset>>
      /\ pc = "accept"
  BY DEF Accept, Admit, clients
<1> HIDE DEF f, c
<1>4. /\ conn' \in [Fd -> {{}} \union {{d} : d \in Client}] /\ conn'[f] = {c}
      /\ \A g \in Fd \ {f} : conn'[g] = conn[g]
  BY <1>1, <1>2, <1>3 DEF MInv, MTypeInv
<1>5. \A x \in Rung : x.fd # f
  BY <1>1, RungIsOpen
<1>6. /\ e \in Note /\ e.fd = f /\ e.who = {c}
  BY <1>1, <1>2 DEF Note
<1> HIDE DEF e
<1>7. /\ ready' \in Seq(Note) /\ OneEach(ready') /\ Els(ready) \subseteq Els(ready')
      /\ Els(ready') \subseteq Els(ready) \union {e}
      /\ inbox[c] > 0 \/ Ended(c) => e \in Els(ready')
  <2>1. ready \in Seq(Note) /\ OneEach(ready) /\ \A x \in Els(ready) : x.fd # e.fd
    BY <1>5, <1>6 DEF MInv, MTypeInv, Rung
  <2>2. /\ Append(ready, e) \in Seq(Note) /\ Els(Append(ready, e)) = Els(ready) \union {e}
        /\ OneEach(Append(ready, e))
    BY <1>6, <2>1, AppendList
  <2>. QED
    BY <1>3, <2>1, <2>2
<1>8. MTypeInv'
  BY <1>2, <1>3, <1>4, <1>7 DEF MInv, MTypeInv
<1>9. Rung \subseteq Rung' /\ Rung' \subseteq Rung \union {e}
  BY <1>3, <1>7 DEF Rung
<1>10. FreshInv'
  <2>1. ASSUME NEW x \in Rung PROVE Fresh(x)'
    <3>1. x \in Note /\ Fresh(x) /\ x.fd # f
      BY <1>5, <2>1, RungIsOpen
    <3>. QED
      BY <1>4, <3>1 DEF Fresh, Note
  <2>2. ASSUME NEW x, x = e PROVE Fresh(x)'
    BY <1>1, <1>4, <1>6, <2>2 DEF Fresh
  <2>. QED
    BY <1>9, <2>1, <2>2 DEF FreshInv
<1>11. PlaceInv'
  <2>1. \A g \in Fd : c \notin conn[g]
    BY <1>2 DEF MInv, PlaceInv
  <2>2. \A g, h \in Fd : conn'[g] = conn'[h] /\ conn'[g] # {} => g = h
    BY <1>4, <2>1 DEF MInv, PlaceInv
  <2>3. \A k \in 1 .. Len(backlog') :
          /\ phase[backlog'[k]] # "new" /\ backlog'[k] # c
          /\ \A g \in Fd : backlog'[k] \notin conn[g]
    BY <1>2, <1>3 DEF MInv, PlaceInv
  <2>4. ASSUME NEW j \in 1 .. Len(backlog'), NEW k \in 1 .. Len(backlog'),
               backlog'[j] = backlog'[k]
        PROVE  j = k
    <3>1. j + 1 \in 1 .. Len(backlog) /\ k + 1 \in 1 .. Len(backlog)
          /\ backlog[j + 1] = backlog[k + 1]
      BY <1>2, <1>3, <2>4
    <3>2. j + 1 = k + 1
      BY <3>1 DEF MInv, PlaceInv
    <3>. QED
      BY <3>2
  <2>5. \A g \in Fd : \A d \in conn'[g] : phase[d] # "new"
    <3>1. phase[c] # "new"
      BY <1>2 DEF MInv, PlaceInv
    <3>. QED
      BY <1>4, <3>1 DEF MInv, PlaceInv
  <2>6. \A k \in 1 .. Len(backlog') : \A g \in Fd : backlog'[k] \notin conn'[g]
    BY <1>4, <2>3
  <2>. QED
    BY <1>3, <2>2, <2>3, <2>4, <2>5, <2>6 DEF PlaceInv
<1>12. EdgeInv'
  <2>1. HasEvent(tcp_master)'
    <3>1. Head(campanas) \in Rung /\ Head(campanas).fd = tcp_master
      BY <1>3, PlaceOfPc DEF MInv, Rung, Current
    <3>. QED
      BY <1>9, <3>1 DEF HasEvent
  <2>2. ASSUME NEW g \in Fd, NEW d \in conn'[g], inbox[d] > 0 \/ Ended(d)
        PROVE  HasEvent(g)'
    <3>1. CASE g = f
      BY <1>4, <1>6, <1>7, <2>2, <3>1 DEF HasEvent, Rung
    <3>2. CASE g # f
      <4>1. HasEvent(g)
        BY <1>4, <2>2, <3>2 DEF MInv, EdgeInv
      <4>. QED
        BY <1>9, <4>1 DEF HasEvent
    <3>. QED
      BY <3>1, <3>2
  <2>. QED
    BY <1>3, <2>1, <2>2 DEF EdgeInv, Ended
<1>13. LineInv'
  BY <1>3, IdleLines
<1>. QED
  BY <1>8, <1>10, <1>11, <1>12, <1>13 DEF MInv

LEMMA AcceptDoneKeeps == ASSUME MInv, AcceptDone PROVE MInv'
<1>1. campanas # <<>> /\ Current = tcp_master
  BY PlaceOfPc DEF MInv, AcceptDone
<1>2. UNCHANGED <<alive, backlog, conn, ready, phase, inbox, sent, out, got, reset>>
      /\ backlog = <<>>
  BY DEF AcceptDone, clients
<1>3. /\ campanas' \in Seq(Note) /\ OneEach(campanas')
      /\ Els(campanas') = {x \in Els(campanas) : x.fd # Current}
      /\ pc' = PcOf(campanas') /\ pc' # "handle"
  BY <1>1, Popped DEF AcceptDone
<1>4. Rung' \subseteq Rung /\ \A x \in Rung : x.fd # tcp_master => x \in Rung'
  BY <1>1, <1>2, <1>3 DEF Rung
<1>5. MTypeInv'
  BY <1>2, <1>3 DEF MInv, MTypeInv
<1>6. FreshInv' /\ PlaceInv'
  BY <1>2, <1>4 DEF MInv, FreshInv, Fresh, PlaceInv
<1>7. EdgeInv'
  <2>1. \A f \in Fd : HasEvent(f) => HasEvent(f)'
    BY <1>4, Constants DEF HasEvent
  <2>. QED
    BY <1>2, <2>1 DEF MInv, EdgeInv, Ended
<1>8. LineInv'
  BY <1>2, <1>3, IdleLines
<1>. QED
  BY <1>5, <1>6, <1>7, <1>8 DEF MInv

LEMMA ReadKeeps == ASSUME MInv, Read PROVE MInv'
<1>1. Sender \in Client /\ Current \in Fd /\ conn[Current] = {Sender}
  BY CurrentFacts DEF MInv, Read
<1>2. /\ UNCHANGED <<alive, backlog, conn, ready, campanas, phase, sent, out, got, reset>>
      /\ inbox' \in [Client -> Nat] /\ inbox'[Sender] = 0 /\ inbox[Sender] > 0
      /\ \A d \in Client : d # Sender => inbox'[d] = inbox[d]
      /\ pc = "read" /\ pc' = "handle"
  BY <1>1 DEF Read, MInv, MTypeInv
<1>3. MTypeInv'
  BY <1>2 DEF MInv, MTypeInv
<1>4. FreshInv' /\ PlaceInv'
  BY <1>2 DEF MInv, FreshInv, Fresh, Rung, PlaceInv
<1>5. EdgeInv'
  <2>1. ASSUME NEW d \in Client, inbox'[d] > 0 PROVE inbox[d] > 0
    BY <1>2, <2>1
  <2>2. \A f \in Fd : conn[f] \subseteq Client
    BY ConnFacts DEF MInv
  <2>. QED
    BY <1>2, <2>1, <2>2 DEF MInv, EdgeInv, HasEvent, Rung, Ended
<1>6. LineInv'
  <2> SUFFICES ASSUME NEW d \in Client
               PROVE  /\ got[d] + out[d] + inbox'[d] + Handled(d)' <= sent[d]
                      /\ sent[d] <= MaxSent /\ out[d] <= Window
    BY <1>2 DEF LineInv
  <2>1. /\ got[d] + out[d] + inbox[d] + Handled(d) <= sent[d]
        /\ sent[d] <= MaxSent /\ out[d] <= Window
    BY DEF MInv, LineInv
  <2>2. /\ inbox[d] \in Nat /\ sent[d] \in Nat /\ got[d] \in Nat /\ out[d] \in Nat
    BY ClientFacts DEF MInv
  <2>3. Handled(d) = 0
    BY <1>2 DEF Handled
  <2>4. CASE d = Sender
    <3>1. Handled(d)' \in {0, 1}
      BY DEF Handled
    <3>. QED
      BY <1>2, <2>1, <2>2, <2>3, <2>4, <3>1
  <2>5. CASE d # Sender
    <3>1. Handled(d)' = 0
      BY <1>1, <1>2, <2>5 DEF Handled, Current
    <3>. QED
      BY <1>2, <2>1, <2>2, <2>3, <2>5, <3>1
  <2>. QED
    BY <2>4, <2>5
<1>. QED
  BY <1>3, <1>4, <1>5, <1>6 DEF MInv

LEMMA ReadDoneKeeps == ASSUME MInv, ReadDone PROVE MInv'
<1>1. Sender \in Client /\ Current \in Fd /\ conn[Current] = {Sender} /\ campanas # <<>>
  BY CurrentFacts DEF MInv, ReadDone
<1>2. UNCHANGED <<alive, backlog, conn, ready, phase, inbox, sent, out, got, reset>>
      /\ inbox[Sender] = 0 /\ ~Ended(Sender)
  BY DEF ReadDone, clients
<1>3. /\ campanas' \in Seq(Note) /\ OneEach(campanas')
      /\ Els(campanas') = {x \in Els(campanas) : x.fd # Current}
      /\ pc' = PcOf(campanas') /\ pc' # "handle"
  BY <1>1, Popped DEF ReadDone
<1>4. Rung' \subseteq Rung /\ \A x \in Rung : x.fd # Current => x \in Rung'
  BY <1>1, <1>2, <1>3 DEF Rung
<1>5. MTypeInv'
  BY <1>2, <1>3 DEF MInv, MTypeInv
<1>6. FreshInv' /\ PlaceInv'
  BY <1>2, <1>4 DEF MInv, FreshInv, Fresh, PlaceInv
<1>7. EdgeInv'
  <2>1. \A f \in Fd \union {tcp_master} : f # Current /\ HasEvent(f) => HasEvent(f)'
    BY <1>4 DEF HasEvent
  <2>2. ASSUME NEW f \in Fd, NEW d \in conn[f], inbox[d] > 0 \/ Ended(d)
        PROVE  f # Current /\ HasEvent(f)
    <3>1. f # Current
      BY <1>1, <1>2, <2>2
    <3>. QED
      BY <2>2, <3>1 DEF MInv, EdgeInv
  <2>3. tcp_master # Current
    BY <1>1, Constants
  <2>. QED
    BY <1>2, <2>1, <2>2, <2>3 DEF MInv, EdgeInv, Ended
<1>8. LineInv'
  BY <1>2, <1>3, IdleLines
<1>. QED
  BY <1>5, <1>6, <1>7, <1>8 DEF MInv

LEMMA HangupKeeps == ASSUME MInv, Hangup PROVE MInv'
<1>1. Sender \in Client /\ Current \in Fd /\ conn[Current] = {Sender} /\ campanas # <<>>
  BY CurrentFacts DEF MInv, Hangup
<1>2. UNCHANGED <<alive, backlog, phase, inbox, sent, out, got, reset>>
      /\ conn' = [conn EXCEPT ![Current] = {}] /\ ready' = ReadyWithout(Current)
  BY DEF Hangup, clients
<1>3. /\ campanas' \in Seq(Note) /\ OneEach(campanas')
      /\ Els(campanas') = {x \in Els(campanas) : x.fd # Current}
      /\ pc' = PcOf(campanas') /\ pc' # "handle"
  BY <1>1, Popped DEF Hangup
<1>4. /\ ready' \in Seq(Note) /\ OneEach(ready')
      /\ Els(ready') = {x \in Els(ready) : x.fd # Current}
  BY <1>2, WithoutFacts DEF MInv
<1>5. Rung' = {x \in Rung : x.fd # Current}
  BY <1>3, <1>4 DEF Rung
<1>6. /\ conn' \in [Fd -> {{}} \union {{d} : d \in Client}]
      /\ conn'[Current] = {} /\ \A f \in Fd : f # Current => conn'[f] = conn[f]
  BY <1>1, <1>2 DEF MInv, MTypeInv
<1>7. MTypeInv'
  BY <1>2, <1>3, <1>4, <1>6 DEF MInv, MTypeInv
<1>8. FreshInv'
  <2>1. ASSUME NEW x \in Rung, x.fd # Current PROVE Fresh(x)'
    <3>1. x \in Note /\ Fresh(x)
      BY RungIsOpen
    <3>. QED
      BY <1>6, <2>1, <3>1 DEF Fresh, Note
  <2>. QED
    BY <1>5, <2>1 DEF FreshInv
<1>9. PlaceInv'
  <2>1. \A f \in Fd : conn'[f] \subseteq conn[f] /\ (conn'[f] # {} => conn'[f] = conn[f])
    BY <1>6
  <2>. QED
    BY <1>2, <2>1 DEF MInv, PlaceInv
<1>10. EdgeInv'
  <2>1. \A f \in Fd \union {tcp_master} : f # Current /\ HasEvent(f) => HasEvent(f)'
    BY <1>5 DEF HasEvent
  <2>2. ASSUME NEW f \in Fd, NEW d \in conn'[f], inbox[d] > 0 \/ Ended(d)
        PROVE  f # Current /\ HasEvent(f)
    <3>1. f # Current /\ d \in conn[f]
      BY <1>6
    <3>. QED
      BY <2>2, <3>1 DEF MInv, EdgeInv
  <2>3. tcp_master # Current
    BY <1>1, Constants
  <2>. QED
    BY <1>2, <2>1, <2>2, <2>3 DEF MInv, EdgeInv, Ended
<1>11. LineInv'
  BY <1>2, <1>3, IdleLines
<1>. QED
  BY <1>7, <1>8, <1>9, <1>10, <1>11 DEF MInv

LEMMA AnswerKeeps == ASSUME MInv, Answer PROVE MInv'
<1>1. Sender \in Client /\ Current \in Fd /\ conn[Current] = {Sender} /\ campanas # <<>>
      /\ Current # tcp_master
  BY CurrentFacts, Constants DEF MInv, Answer
<1>2. UNCHANGED <<alive, backlog, conn, campanas, phase, inbox, sent, got>>
      /\ pc = "handle" /\ pc' = "read"
  BY DEF Answer
<1>3. /\ ready' \in Seq(Note) /\ OneEach(ready') /\ Els(ready) \subseteq Els(ready')
      /\ \A e \in Els(ready') : e \in Els(ready) \/ Fresh(e)
  <2>1. CASE ready' = ready
    BY <2>1 DEF MInv, MTypeInv
  <2>2. CASE ready' = Notified(Event(Current))
    BY <1>1, <2>2, NotifiedFacts DEF MInv
  <2>. QED
    BY <2>1, <2>2 DEF Answer, Write
<1>4. FreshInv' /\ \A f : HasEvent(f) => HasEvent(f)'
  BY <1>2, <1>3, Grows
<1>5. reset' \subseteq Client /\ out' \in [Client -> Nat]
      /\ \A d \in Client : /\ d # Sender => out'[d] = out[d]
                           /\ out'[d] <= out[d] + 1 /\ (out[d] <= Window => out'[d] <= Window)
  <2>1. /\ out[Sender] + 1 \in Nat /\ Window \in Nat
        /\ \A d \in Client : out[d] \in Nat
    BY <1>1, ClientFacts DEF MInv
  <2>2. Min({out[Sender] + 1, Window}) = IF out[Sender] + 1 <= Window THEN out[Sender] + 1
                                         ELSE Window
    BY <2>1, MinOfTwo
  <2>3. Min({out[Sender] + 1, Window}) \in Nat
        /\ Min({out[Sender] + 1, Window}) <= out[Sender] + 1
        /\ Min({out[Sender] + 1, Window}) <= Window
    BY <2>1, <2>2
  <2>4. CASE out' = [out EXCEPT ![Sender] = Min({@ + 1, Window})] /\ UNCHANGED reset
    <3> DEFINE m == Min({out[Sender] + 1, Window})
    <3>1. out' = [out EXCEPT ![Sender] = m]
      BY <2>4
    <3> HIDE DEF m
    <3>2. m \in Nat /\ m <= out[Sender] + 1 /\ m <= Window
      BY <2>3 DEF m
    <3>3. out \in [Client -> Nat] /\ reset \subseteq Client
      BY DEF MInv, MTypeInv
    <3>4. out' \in [Client -> Nat] /\ out'[Sender] = m
          /\ \A d \in Client : d # Sender => out'[d] = out[d]
      BY <1>1, <3>1, <3>2, <3>3
    <3>. QED
      BY <2>1, <2>4, <3>2, <3>3, <3>4
  <2>5. CASE UNCHANGED out /\ reset' = reset \union {Sender}
    BY <1>1, <2>1, <2>5 DEF MInv, MTypeInv
  <2>. QED
    BY <2>4, <2>5 DEF Answer, Write
<1>6. PcOf(campanas) = "read"
  BY <1>1 DEF PcOf, Current
<1>7. MTypeInv'
  BY <1>2, <1>3, <1>5, <1>6 DEF MInv, MTypeInv
<1>8. PlaceInv' /\ EdgeInv'
  BY <1>2, <1>4 DEF MInv, PlaceInv, EdgeInv, Ended
<1>9. LineInv'
  <2> SUFFICES ASSUME NEW d \in Client
               PROVE  /\ got[d] + out'[d] + inbox[d] + Handled(d)' <= sent[d]
                      /\ sent[d] <= MaxSent /\ out'[d] <= Window
    BY <1>2 DEF LineInv
  <2>1. /\ got[d] + out[d] + inbox[d] + Handled(d) <= sent[d]
        /\ sent[d] <= MaxSent /\ out[d] <= Window
    BY DEF MInv, LineInv
  <2>2. /\ inbox[d] \in Nat /\ sent[d] \in Nat /\ got[d] \in Nat /\ out[d] \in Nat
        /\ Handled(d) \in {0, 1} /\ out'[d] \in Nat /\ Window \in Nat
    BY <1>5, ClientFacts DEF MInv
  <2>3. Handled(d)' = 0
    BY <1>2 DEF Handled
  <2>4. d = Sender => Handled(d) = 1
    BY <1>1, <1>2 DEF Handled
  <2>. QED
    BY <1>5, <2>1, <2>2, <2>3, <2>4
<1>. QED
  BY <1>4, <1>7, <1>8, <1>9 DEF MInv

LEMMA SigPipeKeeps == ASSUME MInv, SigPipe PROVE MInv'
<1>1. /\ alive' = FALSE /\ pc' = "wait" /\ backlog' = <<>> /\ ready' = <<>> /\ campanas' = <<>>
      /\ conn' = [f \in Fd |-> {}] /\ UNCHANGED <<phase, inbox, sent, out, got, reset>>
  BY DEF SigPipe, clients
<1>2. OneEach(<<>>) /\ Els(<<>>) = {} /\ PcOf(<<>>) = "wait"
  BY DEF OneEach, Els, PcOf
<1>3. MTypeInv'
  <2>1. /\ alive' \in BOOLEAN /\ backlog' \in Seq(Client)
        /\ ready' \in Seq(Note) /\ campanas' \in Seq(Note)
    <3>1. alive' \in BOOLEAN
      BY <1>1
    <3>2. backlog' = <<>> /\ ready' = <<>> /\ campanas' = <<>>
      BY <1>1
    <3>3. \A S : <<>> \in Seq(S)
      OBVIOUS
    <3>. QED
      BY <3>1, <3>2, <3>3
  <2>3. conn' \in [Fd -> {{}} \union {{c} : c \in Client}]
    <3>1. {} \in {{}} \union {{c} : c \in Client}
      OBVIOUS
    <3>. QED
      BY <1>1, <3>1
  <2>2. OneEach(ready') /\ OneEach(campanas') /\ pc' = PcOf(campanas')
    BY <1>1, <1>2
  <2>. QED
    BY <1>1, <2>1, <2>2, <2>3 DEF MInv, MTypeInv
<1>4. FreshInv' /\ PlaceInv' /\ EdgeInv'
  BY <1>1, <1>2 DEF FreshInv, Rung, PlaceInv, EdgeInv
<1>5. LineInv'
  BY <1>1, IdleLines
<1>. QED
  BY <1>3, <1>4, <1>5 DEF MInv

LEMMA InitiallyMInv == LoopInit => MInv
<1> SUFFICES ASSUME LoopInit PROVE MInv
  OBVIOUS
<1>1. OneEach(<<>>) /\ Els(<<>>) = {} /\ PcOf(<<>>) = "wait"
  BY DEF OneEach, Els, PcOf
<1>2. MTypeInv
  BY <1>1 DEF LoopInit, MTypeInv
<1>3. FreshInv /\ PlaceInv /\ EdgeInv
  BY <1>1 DEF LoopInit, FreshInv, Rung, PlaceInv, EdgeInv
<1>4. LineInv
  BY Constants DEF LoopInit, LineInv, Handled
<1>. QED
  BY <1>2, <1>3, <1>4 DEF MInv

LEMMA NextKeeps == MInv /\ [LoopNext]_loopVars => MInv'
<1> SUFFICES ASSUME MInv, [LoopNext]_loopVars PROVE MInv'
  OBVIOUS
<1>1. ASSUME NEW c \in Client, Connect(c) \/ Send(c) \/ Hear(c) \/ Finish(c) \/ Leave(c)
      PROVE  MInv'
  BY <1>1, ConnectKeeps, SendKeeps, HearKeeps, FinishKeeps, LeaveKeeps
<1>2. CASE ServerStep
  BY <1>2, EpollWaitKeeps, AcceptKeeps, AcceptDoneKeeps, ReadKeeps, ReadDoneKeeps,
     HangupKeeps, AnswerKeeps DEF ServerStep
<1>3. CASE SigPipe
  BY <1>3, SigPipeKeeps
<1>4. CASE UNCHANGED loopVars
  BY <1>4 DEF loopVars, MInv, MTypeInv, FreshInv, Fresh, Rung, PlaceInv, EdgeInv, HasEvent,
              Ended, LineInv, Handled, Current
<1>. QED
  BY <1>1, <1>2, <1>3, <1>4 DEF LoopNext

-----------------------------------------------------------------------------
(* The theorems.                                                           *)

\* The inductive invariant of the loop: every event that is queued is of the
\* client that is behind its descriptor, every client is in one place, every line
\* is counted once, and every edge has an event.
THEOREM LoopInvariant == LoopSpec => []MInv
BY InitiallyMInv, NextKeeps, PTL DEF LoopSpec

LEMMA ListFacts ==
  ASSUME MInv
  PROVE  /\ ToSet(ready \o campanas) = Rung
         /\ IsInjective([i \in 1 .. Len(ready) |-> ready[i].fd])
         /\ IsInjective([i \in 1 .. Len(campanas) |-> campanas[i].fd])
<1>1. ready \in Seq(Note) /\ campanas \in Seq(Note) /\ OneEach(ready) /\ OneEach(campanas)
  BY DEF MInv, MTypeInv
<1> DEFINE r == ready \o campanas
<1>2. /\ Len(ready) \in Nat /\ Len(campanas) \in Nat /\ DOMAIN r = 1 .. Len(r)
      /\ Len(r) = Len(ready) + Len(campanas)
      /\ \A k \in 1 .. Len(r) :
           r[k] = IF k <= Len(ready) THEN ready[k] ELSE campanas[k - Len(ready)]
  BY <1>1
<1> HIDE DEF r
<1>3. ASSUME NEW k \in 1 .. Len(r) PROVE r[k] \in Rung
  <2>1. CASE k <= Len(ready)
    BY <1>2, <2>1 DEF Rung, Els
  <2>2. CASE ~(k <= Len(ready))
    <3>1. k - Len(ready) \in 1 .. Len(campanas) /\ r[k] = campanas[k - Len(ready)]
      BY <1>2, <2>2
    <3>. QED
      BY <3>1 DEF Rung, Els
  <2>. QED
    BY <2>1, <2>2
<1>4. ASSUME NEW k \in 1 .. Len(ready) PROVE ready[k] \in ToSet(r)
  <2>1. k \in 1 .. Len(r) /\ r[k] = ready[k]
    BY <1>2
  <2>. QED
    BY <1>2, <2>1 DEF ToSet
<1>5. ASSUME NEW k \in 1 .. Len(campanas) PROVE campanas[k] \in ToSet(r)
  <2>1. /\ Len(ready) + k \in 1 .. Len(r) /\ ~(Len(ready) + k <= Len(ready))
        /\ (Len(ready) + k) - Len(ready) = k
    BY <1>2
  <2>2. r[Len(ready) + k] = campanas[k]
    BY <1>2, <2>1
  <2>. QED
    BY <1>2, <2>1, <2>2 DEF ToSet
<1>6. ToSet(r) = Rung
  <2>1. ToSet(r) \subseteq Rung
    BY <1>2, <1>3 DEF ToSet
  <2>2. Rung \subseteq ToSet(r)
    BY <1>4, <1>5 DEF Rung, Els
  <2>. QED
    BY <2>1, <2>2
<1>7. /\ IsInjective([i \in 1 .. Len(ready) |-> ready[i].fd])
      /\ IsInjective([i \in 1 .. Len(campanas) |-> campanas[i].fd])
  BY <1>1 DEF OneEach, IsInjective
<1>. QED
  BY <1>6, <1>7 DEF r

LEMMA TypeFollows == ASSUME MInv PROVE LoopTypeOK
<1>1. \A e \in ToSet(ready \o campanas) : e.fd \in Fd \union {tcp_master}
  BY ListFacts, RungIsOpen DEF Note
<1>2. ASSUME NEW c \in Client
      PROVE  /\ inbox[c] \in 0 .. MaxSent /\ sent[c] \in 0 .. MaxSent
             /\ got[c] \in 0 .. MaxSent /\ out[c] \in 0 .. Window
  <2>1. /\ got[c] + out[c] + inbox[c] + Handled(c) <= sent[c]
        /\ sent[c] <= MaxSent /\ out[c] <= Window
    BY DEF MInv, LineInv
  <2>2. /\ inbox[c] \in Nat /\ sent[c] \in Nat /\ got[c] \in Nat /\ out[c] \in Nat
        /\ Handled(c) \in {0, 1} /\ MaxSent \in Nat /\ Window \in Nat
    BY ClientFacts DEF MInv
  <2>. QED
    BY <2>1, <2>2
<1>3. /\ inbox \in [Client -> 0 .. MaxSent] /\ sent \in [Client -> 0 .. MaxSent]
      /\ got \in [Client -> 0 .. MaxSent] /\ out \in [Client -> 0 .. Window]
  BY <1>2 DEF MInv, MTypeInv
<1>. QED
  BY <1>1, <1>3, ListFacts DEF MInv, MTypeInv, LoopTypeOK

\* No edge is lost: as long as somebody waits to be accepted, or an open
\* descriptor has something to read, its event is queued or being handled.
THEOREM EdgesAreKept == LoopSpec => []NoDataForgotten
<1>1. MInv => NoDataForgotten
  <2> SUFFICES ASSUME MInv PROVE NoDataForgotten
    OBVIOUS
  <2>1. \A f : HasEvent(f) => Pending(f)
    BY ListFacts DEF HasEvent, Pending
  <2>. QED
    BY <2>1 DEF MInv, EdgeInv, NoDataForgotten
<1>. QED
  BY <1>1, LoopInvariant, PTL

\* The number of a closed descriptor is given out again while a list of events is
\* being gone through, and still no event reaches another connection than its own.
THEOREM EventsReachTheirs == LoopSpec => []EventsAreFresh
<1>1. MInv => EventsAreFresh
  <2> SUFFICES ASSUME MInv PROVE EventsAreFresh
    OBVIOUS
  <2>1. \A e \in Rung : e.fd \in Fd => conn[e.fd] = e.who
    BY Constants, RungIsOpen DEF Fresh
  <2>. QED
    BY <2>1, ListFacts, TypeFollows DEF EventsAreFresh
<1>. QED
  BY <1>1, LoopInvariant, PTL

-----------------------------------------------------------------------------
(* The registry and the vault.  A table is a list of the kept lines of its *)
(* file in their order; where each entry comes from is a function pos, the *)
(* same in everything that is read off the table.                          *)

\* The lines of W among the first n, and those of them that a table of max entries keeps.
Before(W, n) == {j \in 1 .. n : j \in W}

KeptOf(W, n, max) == {i \in Before(W, n) : Cardinality(Before(W, i - 1)) < max}

\* A table of m entries has the lines of K, in their order: entry k is line pos[k].
Lists(pos, m, K) ==
  /\ pos \in [1 .. m -> K]
  /\ \A i \in K : \E k \in 1 .. m : pos[k] = i
  /\ \A a, b \in 1 .. m : a < b => pos[a] < pos[b]

\* How many entries the table has after n lines.
Filled(m, W, n, max) ==
  m = IF Cardinality(Before(W, n)) < max THEN Cardinality(Before(W, n)) ELSE max

\* The lines before a line are finitely many, one more when that line belongs to them.
LEMMA BeforeFacts ==
  ASSUME NEW W, NEW n \in Nat
  PROVE  /\ IsFiniteSet(Before(W, n)) /\ Cardinality(Before(W, n)) \in Nat
         /\ n + 1 \notin Before(W, n)
         /\ n + 1 \in W =>
              /\ Before(W, n + 1) = Before(W, n) \union {n + 1}
              /\ Cardinality(Before(W, n + 1)) = Cardinality(Before(W, n)) + 1
         /\ n + 1 \notin W => Before(W, n + 1) = Before(W, n)
<1>1. 1 \in Int /\ n \in Int
  OBVIOUS
<1>2. IsFiniteSet(1 .. n)
  BY ONLY <1>1, FS_Interval
<1>3. IsFiniteSet(Before(W, n))
  BY <1>2, FS_Subset DEF Before
<1>4. n + 1 \notin Before(W, n)
  BY DEF Before
<1>5. n + 1 \in W => Before(W, n + 1) = Before(W, n) \union {n + 1}
  BY DEF Before
<1>6. n + 1 \notin W => Before(W, n + 1) = Before(W, n)
  <2>1. ASSUME NEW j \in 1 .. n + 1, j # n + 1 PROVE j \in 1 .. n
    BY <2>1
  <2>2. 1 .. n \subseteq 1 .. n + 1
    OBVIOUS
  <2>. QED
    BY <2>1, <2>2 DEF Before
<1>7. Cardinality(Before(W, n) \union {n + 1}) = Cardinality(Before(W, n)) + 1
  BY <1>3, <1>4, FS_AddElement
<1>. QED
  BY <1>3, <1>4, <1>5, <1>6, <1>7, FS_CardinalityType

\* One line more: it is kept when it belongs and the table has room.
LEMMA OneLineMore ==
  ASSUME NEW W, NEW n \in Nat, NEW max \in Nat, NEW m \in Nat, Filled(m, W, n, max)
  PROVE  /\ n + 1 \in W /\ m < max =>
              /\ KeptOf(W, n + 1, max) = KeptOf(W, n, max) \union {n + 1}
              /\ Filled(m + 1, W, n + 1, max)
         /\ ~(n + 1 \in W /\ m < max) =>
              /\ KeptOf(W, n + 1, max) = KeptOf(W, n, max)
              /\ Filled(m, W, n + 1, max)
         /\ n + 1 \notin KeptOf(W, n, max)
         /\ IsFiniteSet(KeptOf(W, n, max))
<1> DEFINE c == Cardinality(Before(W, n))
           d == Cardinality(Before(W, n + 1))
<1>1. c \in Nat /\ (n + 1 \in W => d = c + 1) /\ (n + 1 \notin W => d = c)
  BY BeforeFacts
<1>2. m = IF c < max THEN c ELSE max
  BY DEF Filled
<1>3. n + 1 - 1 = n
  OBVIOUS
<1>4. n + 1 \in W => (n + 1 \in KeptOf(W, n + 1, max) <=> c < max)
  BY <1>3, BeforeFacts DEF KeptOf
<1>5. \A i : i \in KeptOf(W, n + 1, max) <=>
               i \in KeptOf(W, n, max) \/ (i = n + 1 /\ n + 1 \in W /\ c < max)
  <2>1. CASE n + 1 \in W
    BY <1>3, <2>1, BeforeFacts DEF KeptOf
  <2>2. CASE n + 1 \notin W
    BY <2>2, BeforeFacts DEF KeptOf
  <2>. QED
    BY <2>1, <2>2
<1>6. n + 1 \notin KeptOf(W, n, max) /\ IsFiniteSet(KeptOf(W, n, max))
  BY BeforeFacts, FS_Subset DEF KeptOf
<1> HIDE DEF c
<1>7. c < max <=> m < max
  BY <1>1, <1>2
<1>8. n + 1 \in W /\ m < max => Filled(m + 1, W, n + 1, max)
  BY <1>1, <1>2 DEF Filled
<1>9. ~(n + 1 \in W /\ m < max) => Filled(m, W, n + 1, max)
  BY <1>1, <1>2 DEF Filled
<1>. QED
  BY <1>5, <1>6, <1>7, <1>8, <1>9

\* The list of the kept lines with one line more at its end.
LEMMA OneEntryMore ==
  ASSUME NEW m \in Nat, NEW n \in Nat, NEW K, K \subseteq 1 .. n, NEW pos, Lists(pos, m, K)
  PROVE  Lists([k \in 1 .. m + 1 |-> IF k = m + 1 THEN n + 1 ELSE pos[k]],
               m + 1, K \union {n + 1})
<1> DEFINE L == K \union {n + 1}
           p == [k \in 1 .. m + 1 |-> IF k = m + 1 THEN n + 1 ELSE pos[k]]
<1>1. \A k \in 1 .. m + 1 : k \in 1 .. m \/ k = m + 1
  OBVIOUS
<1>2. /\ \A k \in 1 .. m : p[k] = pos[k] /\ p[k] \in K /\ k \in 1 .. m + 1
      /\ p[m + 1] = n + 1 /\ m + 1 \in 1 .. m + 1
  BY DEF Lists
<1>3. p \in [1 .. m + 1 -> L]
  BY <1>1, <1>2
<1>4. \A i \in L : \E k \in 1 .. m + 1 : p[k] = i
  BY <1>2 DEF Lists
<1>5. ASSUME NEW a \in 1 .. m + 1, NEW b \in 1 .. m + 1, a < b PROVE p[a] < p[b]
  <2>1. a \in 1 .. m
    BY <1>5
  <2>2. p[a] \in 1 .. n
    BY <1>2, <2>1
  <2>3. CASE b = m + 1
    BY <1>2, <2>2, <2>3
  <2>4. CASE b \in 1 .. m
    BY <1>2, <1>5, <2>1, <2>4 DEF Lists
  <2>. QED
    BY <1>1, <2>3, <2>4
<1> HIDE DEF p, L
<1>6. Lists(p, m + 1, L)
  BY <1>3, <1>4, <1>5 DEF Lists
<1>. QED
  BY <1>6 DEF p, L

-----------------------------------------------------------------------------
(* The registry. *)

RouteText ==
  [fields : Nat, prefix : Seq(STRING), backend : STRING, port : Int, status : STRING]
RouteEntry == [prefix : Seq(STRING), backend : STRING, up : BOOLEAN]

RouteLines(f) == {i \in 1 .. Len(f) : R!WellFormedRoute(f[i])}
EntryOf(l) == [prefix |-> l.prefix, backend |-> l.backend, up |-> l.status = "up"]
KeptRoutes == KeptOf(RouteLines(rFile), rLine, MaxRoutes)

\* What the table is made of, whatever has been read so far.
RouteTable ==
  /\ rFile \in Seq(RouteText) /\ rLine \in 0 .. Len(rFile)
  /\ rTable \in Seq(RouteEntry)
  /\ Filled(Len(rTable), RouteLines(rFile), rLine, MaxRoutes)
  /\ Cardinality(KeptRoutes) = Len(rTable)
  /\ Cardinality({i \in KeptRoutes : rFile[i].status = "up"})
       = Cardinality({k \in 1 .. Len(rTable) : rTable[k].up})
  /\ \E pos : /\ Lists(pos, Len(rTable), KeptRoutes)
              /\ \A k \in 1 .. Len(rTable) : rTable[k] = EntryOf(rFile[pos[k]])

\* The last answer to /resolve comes from the table, which no longer changes.
RouteReply ==
  rWanted \in Paths =>
    /\ rPhase # "load"
    /\ rReply = [status |-> R!StatusOfRoute(R!ResolveRoute(rTable, rWanted)),
                 route |-> R!ResolveRoute(rTable, rWanted)]

\* An empty table, of an empty file.
LEMMA NothingRead ==
  ASSUME NEW W, NEW max \in Nat
  PROVE  /\ KeptOf(W, 0, max) = {} /\ Filled(0, W, 0, max) /\ Lists(<<>>, 0, {})
         /\ Cardinality({}) = 0 /\ IsFiniteSet({})
<1>0. ASSUME NEW j \in 1 .. 0 PROVE FALSE
  BY <1>0
<1>1. Before(W, 0) = {} /\ 1 .. 0 = {}
  BY <1>0 DEF Before
<1>2. Cardinality({}) = 0 /\ IsFiniteSet({})
  BY FS_EmptySet
<1>3. KeptOf(W, 0, max) = {}
  BY <1>1 DEF KeptOf
<1>4. Filled(0, W, 0, max)
  BY <1>1, <1>2 DEF Filled
<1>5. Lists(<<>>, 0, {})
  BY <1>1 DEF Lists
<1>. QED
  BY <1>2, <1>3, <1>4, <1>5

LEMMA RouteTableInit == R!Init => RouteTable
<1> SUFFICES ASSUME R!Init PROVE RouteTable
  OBVIOUS
<1>1. rFile \in Seq(RouteText) /\ rLine = 0 /\ rTable = <<>>
  BY RoutesAssumption DEF R!Init, RouteText
<1>2. rLine \in 0 .. Len(rFile) /\ rTable \in Seq(RouteEntry) /\ Len(rTable) = 0
  BY <1>1
<1> DEFINE W == RouteLines(rFile)
<1>0. MaxRoutes \in Nat
  BY RoutesAssumption
<1> HIDE DEF W
<1>8. /\ KeptOf(W, 0, MaxRoutes) = {} /\ Filled(0, W, 0, MaxRoutes)
      /\ Lists(<<>>, 0, {}) /\ Cardinality({}) = 0
  BY <1>0, NothingRead
<1>3. /\ KeptRoutes = {} /\ Filled(0, RouteLines(rFile), 0, MaxRoutes)
      /\ Lists(<<>>, 0, {}) /\ Cardinality({}) = 0
  BY <1>1, <1>8 DEF KeptRoutes, W
<1>4. 1 .. 0 = {}
  OBVIOUS
<1>5. {i \in KeptRoutes : rFile[i].status = "up"} = {}
  BY <1>3
<1>6. {k \in 1 .. Len(rTable) : rTable[k].up} = {}
  BY <1>2, <1>4
<1>7. \E pos : /\ Lists(pos, Len(rTable), KeptRoutes)
               /\ \A k \in 1 .. Len(rTable) : rTable[k] = EntryOf(rFile[pos[k]])
  BY <1>2, <1>3, <1>4
<1>. QED
  BY <1>1, <1>2, <1>3, <1>5, <1>6, <1>7 DEF RouteTable

\* load_routes reads a line: the table stays the list of the kept lines.
LEMMA LoadRouteLine ==
  ASSUME RouteTable, R!LoadLine
  PROVE  RouteTable'
<1> DEFINE n == rLine
           m == Len(rTable)
           W == RouteLines(rFile)
           K == KeptRoutes
           l == rFile[n + 1]
<1>1. /\ n < Len(rFile) /\ rLine' = n + 1 /\ rFile' = rFile
      /\ rTable' = R!AddRoute(rTable, l)
  BY DEF R!LoadLine
<1>2. /\ rFile \in Seq(RouteText) /\ n \in Nat /\ Len(rFile) \in Nat
      /\ rTable \in Seq(RouteEntry) /\ m \in Nat /\ MaxRoutes \in Nat
      /\ n + 1 \in 1 .. Len(rFile) /\ n + 1 \in 0 .. Len(rFile)
  BY <1>1, RoutesAssumption DEF RouteTable
<1>3. l \in RouteText /\ (n + 1 \in W <=> R!WellFormedRoute(l))
  BY <1>2 DEF RouteLines
<1>4. /\ Filled(m, W, n, MaxRoutes) /\ Cardinality(K) = m
      /\ K = KeptOf(W, n, MaxRoutes) /\ K' = KeptOf(W, n + 1, MaxRoutes)
  BY <1>1 DEF RouteTable, KeptRoutes
<1> HIDE DEF K, W, n, m
<1>5. K \subseteq 1 .. n /\ IsFiniteSet(K) /\ n + 1 \notin K
  <2>1. KeptOf(W, n, MaxRoutes) \subseteq 1 .. n
    BY DEF KeptOf, Before
  <2>2. IsFiniteSet(KeptOf(W, n, MaxRoutes)) /\ n + 1 \notin KeptOf(W, n, MaxRoutes)
    BY <1>2, <1>4, OneLineMore
  <2>. QED
    BY <1>4, <2>1, <2>2
<1> USE DEF K, W, n, m
<1>6. PICK pos : /\ Lists(pos, m, K)
                 /\ \A k \in 1 .. m : rTable[k] = EntryOf(rFile[pos[k]])
  BY DEF RouteTable
<1> DEFINE A == {i \in K : rFile[i].status = "up"}
           B == {k \in 1 .. m : rTable[k].up}
<1>7. Cardinality(A) = Cardinality(B)
  BY DEF RouteTable
<1>8. IsFiniteSet(A) /\ IsFiniteSet(B) /\ n + 1 \notin A /\ m + 1 \notin B
  <2>1. 1 \in Int /\ m \in Int
    BY <1>2
  <2>2. IsFiniteSet(1 .. m)
    BY ONLY <2>1, FS_Interval
  <2>3. m + 1 \notin 1 .. m
    BY <1>2
  <2>. QED
    BY <1>5, <2>2, <2>3, FS_Subset
<1>9. CASE n + 1 \in W /\ m < MaxRoutes
  <2>1. rTable' = Append(rTable, EntryOf(l))
    BY <1>1, <1>3, <1>9 DEF R!AddRoute, EntryOf
  <2>2. EntryOf(l) \in RouteEntry
    BY <1>3 DEF EntryOf, RouteText, RouteEntry
  <2>3. /\ rTable' \in Seq(RouteEntry) /\ Len(rTable') = m + 1
        /\ rTable'[m + 1] = EntryOf(l)
        /\ \A k \in 1 .. m : rTable'[k] = rTable[k]
    BY <1>2, <2>1, <2>2
  <2>4. K' = K \union {n + 1} /\ Filled(m + 1, W, n + 1, MaxRoutes)
    BY <1>2, <1>4, <1>9, OneLineMore
  <2>5. Cardinality(K') = m + 1
    BY <1>4, <1>5, <2>4, FS_AddElement
  <2>6. Lists([k \in 1 .. m + 1 |-> IF k = m + 1 THEN n + 1 ELSE pos[k]], m + 1, K')
    BY <1>2, <1>5, <1>6, <2>4, OneEntryMore
  <2>7. \A k \in 1 .. m + 1 : k \in 1 .. m \/ k = m + 1
    BY <1>2
  <2> DEFINE p == [k \in 1 .. m + 1 |-> IF k = m + 1 THEN n + 1 ELSE pos[k]]
  <2>8. \A k \in 1 .. m + 1 : rTable'[k] = EntryOf(rFile'[p[k]])
    BY <1>1, <1>2, <1>6, <2>3, <2>7
  <2>9. {i \in K' : rFile'[i].status = "up"} = IF l.status = "up" THEN A \union {n + 1}
                                                               ELSE A
    <3>1. \A i : i \in K' <=> i \in K \/ i = n + 1
      BY <2>4
    <3>2. \A i : i \in {i1 \in K' : rFile'[i1].status = "up"} <=>
                   i \in A \/ (i = n + 1 /\ l.status = "up")
      BY <1>1, <3>1
    <3>. QED
      BY <3>2
  <2>10. {k \in 1 .. m + 1 : rTable'[k].up} = IF l.status = "up" THEN B \union {m + 1}
                                                                 ELSE B
    <3>1. \A k : k \in 1 .. m + 1 <=> k \in 1 .. m \/ k = m + 1
      BY <1>2
    <3>2. rTable'[m + 1].up = (l.status = "up")
      BY <2>3 DEF EntryOf
    <3>3. \A k : k \in {k1 \in 1 .. m + 1 : rTable'[k1].up} <=>
                   k \in B \/ (k = m + 1 /\ l.status = "up")
      BY <2>3, <3>1, <3>2
    <3>. QED
      BY <3>3
  <2>11. Cardinality(A \union {n + 1}) = Cardinality(B \union {m + 1})
    <3> HIDE DEF A, B, n, m
    <3>1. Cardinality(A \union {n + 1}) = Cardinality(A) + 1
      BY ONLY <1>8, FS_AddElement
    <3>2. Cardinality(B \union {m + 1}) = Cardinality(B) + 1
      BY ONLY <1>8, FS_AddElement
    <3>. QED
      BY ONLY <1>7, <3>1, <3>2
  <2>12. Cardinality({i \in K' : rFile'[i].status = "up"})
           = Cardinality({k \in 1 .. m + 1 : rTable'[k].up})
    BY <1>7, <2>9, <2>10, <2>11
  <2> HIDE DEF p
  <2>13. \E q : /\ Lists(q, m + 1, K')
                /\ \A k \in 1 .. m + 1 : rTable'[k] = EntryOf(rFile'[q[k]])
    BY <2>6, <2>8 DEF p
  <2>. QED
    BY <1>1, <1>2, <2>3, <2>4, <2>5, <2>12, <2>13 DEF RouteTable
<1>10. CASE ~(n + 1 \in W /\ m < MaxRoutes)
  <2>1. rTable' = rTable
    BY <1>1, <1>3, <1>10 DEF R!AddRoute
  <2>2. K' = K /\ Filled(m, W, n + 1, MaxRoutes)
    BY <1>2, <1>4, <1>10, OneLineMore
  <2>3. \E q : /\ Lists(q, m, K')
               /\ \A k \in 1 .. m : rTable'[k] = EntryOf(rFile'[q[k]])
    BY <1>1, <1>6, <2>1, <2>2
  <2>. QED
    BY <1>1, <1>2, <1>4, <1>7, <2>1, <2>2, <2>3 DEF RouteTable
<1>. QED
  BY <1>9, <1>10

\* Every step of the registry keeps the table and the last answer in agreement.
LEMMA RegistryStep ==
  ASSUME RouteTable, RouteReply, R!Next
  PROVE  RouteTable' /\ RouteReply'
<1>1. CASE R!LoadLine
  BY <1>1, LoadRouteLine DEF R!LoadLine, RouteReply
<1>2. ASSUME UNCHANGED <<rFile, rLine, rTable>>
      PROVE  RouteTable'
  BY <1>2 DEF RouteTable, KeptRoutes
<1>3. CASE R!Serve \/ R!Stop
  BY <1>2, <1>3 DEF R!Serve, R!Stop, RouteReply
<1>4. ASSUME NEW status \in {200, 400, 404}, R!Plain(status)
      PROVE  RouteTable' /\ RouteReply'
  BY <1>2, <1>4, RoutesAssumption DEF R!Plain, R!NoPath, RouteReply
<1>5. ASSUME NEW p \in Paths, R!Resolve(p)
      PROVE  RouteTable' /\ RouteReply'
  BY <1>2, <1>5 DEF R!Resolve, RouteReply
<1>. QED
  BY <1>1, <1>3, <1>4, <1>5 DEF R!Next

-----------------------------------------------------------------------------
(* /resolve: the loop of resolve_route is a fold that takes the last entry  *)
(* of a set off, so it is followed over all sets of entries.                *)

Long(tbl, k) == Len(tbl[k].prefix)

\* The entries that can serve a path, and the one of T that is chosen.
Good(tbl, p) ==
  {k \in DOMAIN tbl : tbl[k].up /\ Long(tbl, k) # 0 /\ R!IsPrefix(tbl[k].prefix, p)}
IsChosen(tbl, T, k) ==
  k \in T /\ \A j \in T : Long(tbl, j) < Long(tbl, k) \/ (Long(tbl, j) = Long(tbl, k) /\ j >= k)
Chosen(tbl, T) == CHOOSE k \in T : IsChosen(tbl, T, k)

\* What the entries of s answer to the path p.
Found(tbl, p, s) ==
  IF s \intersect Good(tbl, p) = {} THEN R!NoRoute
  ELSE tbl[Chosen(tbl, s \intersect Good(tbl, p))]

Searches(g, tbl, p) ==
  g = [s \in SUBSET DOMAIN tbl |->
         IF s = {} THEN R!NoRoute
         ELSE IF R!Better(p, g[s \ {R!Max(s)}], tbl[R!Max(s)])
              THEN tbl[R!Max(s)] ELSE g[s \ {R!Max(s)}]]

\* A set of positions has a last one.
LEMMA LastOne ==
  ASSUME NEW n \in Nat, NEW S \in SUBSET (1 .. n), S # {}
  PROVE  R!Max(S) \in S /\ \A y \in S : R!Max(S) >= y
<1> DEFINE N == {n - k : k \in S}
<1>0. \A k \in S : k \in Nat /\ n - k \in Nat
  OBVIOUS
<1>1. N \in SUBSET Nat /\ N # {}
  BY <1>0
<1>2. PICK d \in N : \A m \in N : d <= m
  <2> HIDE DEF N
  <2>. QED
    BY <1>1, Least
<1>3. PICK x \in S : d = n - x
  OBVIOUS
<1>4. ASSUME NEW y \in S PROVE x >= y
  <2>1. n - y \in N
    OBVIOUS
  <2>2. n - x <= n - y
    BY <1>2, <1>3, <2>1
  <2>3. x \in Nat /\ y \in Nat
    BY <1>0
  <2> HIDE DEF N
  <2>. QED
    BY <2>2, <2>3
<1>. QED
  BY <1>4 DEF R!Max

\* Among entries that can serve a path exactly one is chosen.
LEMMA OneIsChosen ==
  ASSUME NEW tbl \in Seq(RouteEntry), NEW p \in Seq(STRING),
         NEW T \in SUBSET Good(tbl, p), T # {}
  PROVE  /\ Chosen(tbl, T) \in T /\ IsChosen(tbl, T, Chosen(tbl, T))
         /\ \A k \in T : IsChosen(tbl, T, k) => k = Chosen(tbl, T)
<1>1. /\ \A k \in T : k \in Nat /\ Long(tbl, k) \in Nat /\ Long(tbl, k) <= Len(p)
      /\ Len(p) \in Nat
  <2>1. \A k \in T : k \in 1 .. Len(tbl) /\ R!IsPrefix(tbl[k].prefix, p)
    BY DEF Good
  <2>2. \A k \in T : tbl[k].prefix \in Seq(STRING)
    <3>1. \A k \in T : tbl[k] \in RouteEntry
      BY <2>1
    <3>. QED
      BY <3>1 DEF RouteEntry
  <2>. QED
    BY <2>1, <2>2 DEF Long, R!IsPrefix
<1> DEFINE N == {Len(p) - Long(tbl, k) : k \in T}
<1>2. N \in SUBSET Nat /\ N # {}
  BY <1>1
<1>3. PICK d \in N : \A m \in N : d <= m
  <2> HIDE DEF N
  <2>. QED
    BY <1>2, Least
<1> DEFINE M == {k \in T : d = Len(p) - Long(tbl, k)}
<1>4. M \in SUBSET Nat /\ M # {}
  BY <1>1, <1>3
<1>5. PICK k \in M : \A j \in M : k <= j
  <2> HIDE DEF M
  <2>. QED
    BY <1>4, Least
<1>6. ASSUME NEW j \in T
      PROVE  Long(tbl, j) < Long(tbl, k) \/ (Long(tbl, j) = Long(tbl, k) /\ j >= k)
  <2>1. d <= Len(p) - Long(tbl, j) /\ d = Len(p) - Long(tbl, k)
    BY <1>3, <1>5
  <2>2. CASE d = Len(p) - Long(tbl, j)
    BY <1>1, <1>5, <2>1, <2>2
  <2>3. CASE d # Len(p) - Long(tbl, j)
    BY <1>1, <1>5, <2>1, <2>3
  <2>. QED
    BY <2>2, <2>3
<1>7. IsChosen(tbl, T, k)
  BY <1>5, <1>6 DEF IsChosen
<1>8. ASSUME NEW a \in T, NEW b \in T, IsChosen(tbl, T, a), IsChosen(tbl, T, b)
      PROVE  a = b
  BY <1>1, <1>8 DEF IsChosen
<1>9. Chosen(tbl, T) \in T /\ IsChosen(tbl, T, Chosen(tbl, T))
  <2>1. \E a \in T : IsChosen(tbl, T, a)
    BY <1>5, <1>7
  <2>. QED
    BY <2>1 DEF Chosen
<1>. QED
  BY <1>8, <1>9

\* One more entry, behind the others: it wins when it is strictly longer.
LEMMA SearchStep ==
  ASSUME NEW tbl \in Seq(RouteEntry), NEW p \in Seq(STRING),
         NEW s \in SUBSET DOMAIN tbl, s # {}
  PROVE  Found(tbl, p, s) =
           IF R!Better(p, Found(tbl, p, s \ {R!Max(s)}), tbl[R!Max(s)])
           THEN tbl[R!Max(s)] ELSE Found(tbl, p, s \ {R!Max(s)})
<1> DEFINE x == R!Max(s)
           u == s \ {x}
           G == Good(tbl, p)
<1>1. x \in s /\ x \in 1 .. Len(tbl) /\ \A y \in u : y \in 1 .. Len(tbl) /\ x > y
  <2>1. Len(tbl) \in Nat /\ s \in SUBSET (1 .. Len(tbl))
    OBVIOUS
  <2>2. x \in s /\ \A y \in s : x >= y
    BY <2>1, LastOne
  <2>. QED
    BY <2>1, <2>2
<1> HIDE DEF x
<1>8. \A k \in 1 .. Len(tbl) : tbl[k].prefix \in Seq(STRING) /\ Long(tbl, k) \in Nat
  <2>1. \A k \in 1 .. Len(tbl) : tbl[k] \in RouteEntry
    OBVIOUS
  <2>. QED
    BY <2>1 DEF RouteEntry, Long
<1>2. tbl[x].prefix \in Seq(STRING) /\ Long(tbl, x) \in Nat
  BY <1>1, <1>8
<1>3. x \in G <=> tbl[x].up /\ Long(tbl, x) # 0 /\ R!IsPrefix(tbl[x].prefix, p)
  BY <1>1 DEF Good
<1>4. R!Better(p, Found(tbl, p, u), tbl[x])
        <=> x \in G /\ Long(tbl, x) > Len(Found(tbl, p, u).prefix)
  BY <1>3 DEF R!Better, Long
<1>5. CASE x \notin G
  <2>1. s \intersect G = u \intersect G
    BY <1>5
  <2>2. Found(tbl, p, s) = Found(tbl, p, u)
    BY <2>1 DEF Found
  <2>. QED
    BY <1>4, <1>5, <2>2 DEF x
<1>6. CASE x \in G /\ u \intersect G = {}
  <2>1. s \intersect G = {x}
    BY <1>1, <1>6
  <2>2. Found(tbl, p, u) = R!NoRoute /\ Len(R!NoRoute.prefix) = 0
    BY <1>6 DEF Found, R!NoRoute
  <2>3. R!Better(p, Found(tbl, p, u), tbl[x])
    BY <1>2, <1>3, <1>4, <1>6, <2>2
  <2>4. IsChosen(tbl, {x}, x)
    BY <1>1, <1>2 DEF IsChosen
  <2>6. Chosen(tbl, {x}) = x
    BY <2>4 DEF Chosen
  <2>5. Found(tbl, p, s) = tbl[x]
    BY <2>1, <2>6 DEF Found
  <2>. QED
    BY <2>3, <2>5 DEF x
<1>7. CASE x \in G /\ u \intersect G # {}
  <2> DEFINE T == u \intersect G
             U == s \intersect G
             b == Chosen(tbl, T)
             c == Chosen(tbl, U)
  <2>1. T \in SUBSET G /\ U \in SUBSET G /\ T # {} /\ U # {} /\ U = T \union {x}
    BY <1>1, <1>7
  <2>2. b \in T /\ IsChosen(tbl, T, b)
    <3> HIDE DEF T
    <3>. QED
      BY <2>1, OneIsChosen
  <2>3. c \in U /\ IsChosen(tbl, U, c) /\ \A k \in U : IsChosen(tbl, U, k) => k = c
    <3>1. U \in SUBSET Good(tbl, p) /\ U # {}
      BY <2>1
    <3> HIDE DEF U, T, b, G
    <3>2. c \in U /\ IsChosen(tbl, U, c)
      BY <3>1, OneIsChosen
    <3>3. ASSUME NEW k \in U, IsChosen(tbl, U, k) PROVE k = c
      BY ONLY <3>1, <3>3, tbl \in Seq(RouteEntry), p \in Seq(STRING), OneIsChosen
    <3>. QED
      BY <3>2, <3>3
  <2>4. Found(tbl, p, u) = tbl[b] /\ Found(tbl, p, s) = tbl[c]
    BY <2>1 DEF Found
  <2> HIDE DEF b, c
  <2>5. \A k \in T : k \in 1 .. Len(tbl) /\ x > k /\ Long(tbl, k) \in Nat
    BY <1>1, <1>8
  <2>6. R!Better(p, Found(tbl, p, u), tbl[x]) <=> Long(tbl, x) > Long(tbl, b)
    BY <1>4, <1>7, <2>4 DEF Long
  <2> HIDE DEF T, U
  <2>7. CASE Long(tbl, x) > Long(tbl, b)
    <3>1. \A j \in T : Long(tbl, j) < Long(tbl, x)
      BY <1>2, <2>2, <2>5, <2>7 DEF IsChosen
    <3>2. IsChosen(tbl, U, x)
      BY <1>1, <1>2, <2>1, <3>1 DEF IsChosen
    <3>. QED
      BY <2>1, <2>3, <2>4, <2>6, <2>7, <3>2 DEF x
  <2>8. CASE ~(Long(tbl, x) > Long(tbl, b))
    <3>1. Long(tbl, x) < Long(tbl, b) \/ (Long(tbl, x) = Long(tbl, b) /\ x >= b)
      BY <1>1, <1>2, <2>2, <2>5, <2>8
    <3>2. IsChosen(tbl, U, b)
      BY <2>1, <2>2, <3>1 DEF IsChosen
    <3>. QED
      BY <2>1, <2>2, <2>3, <2>4, <2>6, <2>8, <3>2 DEF x
  <2>. QED
    BY <2>7, <2>8
<1>. QED
  BY <1>5, <1>6, <1>7

\* The loop finds the entry that is chosen among those that can serve the path.
LEMMA SearchFinds ==
  ASSUME NEW tbl \in Seq(RouteEntry), NEW p \in Seq(STRING)
  PROVE  R!ResolveRoute(tbl, p) = Found(tbl, p, DOMAIN tbl)
<1> DEFINE D == DOMAIN tbl
           Rec(g) == g = [s \in SUBSET D |->
                            IF s = {} THEN R!NoRoute
                            ELSE IF R!Better(p, g[s \ {R!Max(s)}], tbl[R!Max(s)])
                                 THEN tbl[R!Max(s)] ELSE g[s \ {R!Max(s)}]]
           G == CHOOSE g : Rec(g)
           w == [s \in SUBSET D |-> Found(tbl, p, s)]
<1>1. R!ResolveRoute(tbl, p) = G[D]
  BY DEF R!ResolveRoute, R!FoldLeft, R!MapThenFoldSet
<1>2. D = 1 .. Len(tbl) /\ IsFiniteSet(D)
  <2>1. D = 1 .. Len(tbl) /\ 1 \in Int /\ Len(tbl) \in Int
    OBVIOUS
  <2> HIDE DEF D
  <2>. QED
    BY <2>1, FS_Interval
<1>3. ASSUME NEW s \in SUBSET D, s # {}
      PROVE  R!Max(s) \in s /\ s \ {R!Max(s)} \in SUBSET D
  <2>1. Len(tbl) \in Nat /\ s \in SUBSET (1 .. Len(tbl))
    OBVIOUS
  <2>. QED
    BY <1>3, <2>1, LastOne
<1>4. Rec(w)
  <2>1. ASSUME NEW s \in SUBSET D
        PROVE  Found(tbl, p, s) =
                 IF s = {} THEN R!NoRoute
                 ELSE IF R!Better(p, w[s \ {R!Max(s)}], tbl[R!Max(s)])
                      THEN tbl[R!Max(s)] ELSE w[s \ {R!Max(s)}]
    <3>1. CASE s = {}
      BY <3>1 DEF Found
    <3>2. CASE s # {}
      <4>1. w[s \ {R!Max(s)}] = Found(tbl, p, s \ {R!Max(s)})
        BY <1>3, <3>2
      <4> HIDE DEF w
      <4>. QED
        BY <3>2, <4>1, SearchStep
    <3>. QED
      BY <3>1, <3>2
  <2>. QED
    BY <2>1
<1>5. Rec(G)
  <2> HIDE DEF Rec, w
  <2>. QED
    BY <1>4
<1> HIDE DEF G, w
<1>6. ASSUME NEW s \in SUBSET D
      PROVE  G[s] = IF s = {} THEN R!NoRoute
                    ELSE IF R!Better(p, G[s \ {R!Max(s)}], tbl[R!Max(s)])
                         THEN tbl[R!Max(s)] ELSE G[s \ {R!Max(s)}]
  BY <1>5
<1> HIDE DEF Rec
<1> DEFINE F == {s \in SUBSET D : G[s] # Found(tbl, p, s)}
<1>7. F = {}
  <2> SUFFICES ASSUME F # {} PROVE FALSE
    OBVIOUS
  <2>1. PICK s \in F : \A u \in F : Cardinality(s) <= Cardinality(u)
    <3>1. F \in SUBSET (SUBSET D)
      OBVIOUS
    <3> HIDE DEF F, D
    <3>. QED
      BY <1>2, <3>1, Smallest
  <2>2. s \in SUBSET D /\ G[s] # Found(tbl, p, s)
    OBVIOUS
  <2>3. s # {}
    BY <1>6, <2>2 DEF Found
  <2> DEFINE u == s \ {R!Max(s)}
  <2>4. R!Max(s) \in s /\ u \in SUBSET D
    BY <1>3, <2>2, <2>3
  <2>5. ~(Cardinality(s) <= Cardinality(u))
    <3>1. IsFiniteSet(s)
      BY <1>2, <2>2, FS_Subset
    <3>. QED
      BY <2>4, <3>1, OneFewer
  <2>6. G[u] = Found(tbl, p, u)
    BY <2>1, <2>4, <2>5
  <2>7. Found(tbl, p, s) = IF R!Better(p, Found(tbl, p, u), tbl[R!Max(s)])
                           THEN tbl[R!Max(s)] ELSE Found(tbl, p, u)
    BY <2>2, <2>3, SearchStep
  <2>. QED
    BY <1>6, <2>2, <2>3, <2>6, <2>7
<1>. QED
  BY <1>1, <1>7

\* The instances count as this module does.
LEMMA SameCounts ==
  ASSUME NEW S
  PROVE  R!Cardinality(S) = Cardinality(S) /\ V!Cardinality(S) = Cardinality(S)
BY DEF R!Cardinality, V!Cardinality, R!IsFiniteSet, V!IsFiniteSet, Cardinality, IsFiniteSet

\* The kept lines that the property speaks of are those of the table.
LEMMA SameKeptRoutes ==
  ASSUME RouteTable PROVE R!Kept = KeptRoutes
<1> DEFINE W == RouteLines(rFile)
<1>1. rLine \in Nat /\ Len(rFile) \in Nat /\ rLine <= Len(rFile)
  BY DEF RouteTable
<1>2. \A i \in 1 .. rLine : i \in W <=> R!WellFormedRoute(rFile[i])
  BY <1>1 DEF RouteLines
<1>3. ASSUME NEW i \in 1 .. rLine
      PROVE  Before(W, i - 1) = {j \in 1 .. i - 1 : R!WellFormedRoute(rFile[j])}
  <2>1. \A j \in 1 .. i - 1 : j \in 1 .. rLine
    BY <1>1
  <2> HIDE DEF W
  <2>. QED
    BY <1>2, <2>1 DEF Before
<1>4. ASSUME NEW i \in 1 .. rLine
      PROVE  i \in R!Kept <=> i \in KeptOf(W, rLine, MaxRoutes)
  <2>1. R!Cardinality({j \in 1 .. i - 1 : R!WellFormedRoute(rFile[j])})
          = Cardinality(Before(W, i - 1))
    BY <1>3, SameCounts
  <2> HIDE DEF W
  <2>. QED
    BY <1>2, <2>1 DEF Before, KeptOf, R!Kept
<1>5. \A i : i \in R!Kept \/ i \in KeptOf(W, rLine, MaxRoutes) => i \in 1 .. rLine
  BY DEF Before, KeptOf, R!Kept
<1>6. R!Kept = KeptOf(W, rLine, MaxRoutes)
  <2> HIDE DEF W
  <2>. QED
    BY <1>4, <1>5
<1>. QED
  BY <1>6 DEF KeptRoutes

\* The answer to /resolve is the one that the file calls for.
LEMMA AnswerOfFile ==
  ASSUME RouteTable, NEW p \in Seq(STRING)
  PROVE  LET S == R!Serving(p)
             long(i) == Len(rFile[i].prefix)
             best == {i \in S : \A j \in S : \/ long(j) < long(i)
                                             \/ long(j) = long(i) /\ j >= i}
             r == R!ResolveRoute(rTable, p)
         IN  /\ S = {} => r = R!NoRoute
             /\ \A i \in best : /\ r # R!NoRoute
                                /\ r.prefix = rFile[i].prefix
                                /\ r.backend = rFile[i].backend
<1> DEFINE S == R!Serving(p)
           long(i) == Len(rFile[i].prefix)
           best == {i \in S : \A j \in S : \/ long(j) < long(i)
                                           \/ long(j) = long(i) /\ j >= i}
           m == Len(rTable)
           K == KeptRoutes
           G == Good(rTable, p)
           r == R!ResolveRoute(rTable, p)
<1>1. /\ rFile \in Seq(RouteText) /\ rTable \in Seq(RouteEntry) /\ m \in Nat
      /\ Len(rFile) \in Nat /\ rLine \in Nat /\ rLine <= Len(rFile)
  BY DEF RouteTable
<1>2. PICK pos : /\ Lists(pos, m, K)
                 /\ \A k \in 1 .. m : rTable[k] = EntryOf(rFile[pos[k]])
  BY DEF RouteTable
<1>3. \A i \in K : i \in 1 .. Len(rFile)
  BY <1>1 DEF KeptRoutes, KeptOf, Before
<1>4. \A i \in K : rFile[i] \in RouteText
  BY <1>1, <1>3
<1>5. \A i \in K : rFile[i].prefix \in Seq(STRING)
                   /\ (rFile[i].prefix # <<>> <=> Len(rFile[i].prefix) # 0)
  <2>1. \A i \in K : rFile[i].prefix \in Seq(STRING)
    BY <1>4 DEF RouteText
  <2>. QED
    BY <2>1
<1>6. \A i : i \in S <=> /\ i \in K /\ rFile[i].status = "up"
                         /\ rFile[i].prefix # <<>> /\ R!IsPrefix(rFile[i].prefix, p)
  BY SameKeptRoutes DEF R!Serving
<1>7. G \subseteq 1 .. m /\ DOMAIN rTable = 1 .. m /\ DOMAIN rTable \intersect G = G
  BY <1>1 DEF Good
<1> HIDE DEF S, K, m, G
<1>8. \A k \in 1 .. m : /\ pos[k] \in K /\ Long(rTable, k) = long(pos[k])
                        /\ rTable[k].prefix = rFile[pos[k]].prefix
                        /\ rTable[k].backend = rFile[pos[k]].backend
                        /\ rTable[k].up <=> rFile[pos[k]].status = "up"
  <2> SUFFICES ASSUME NEW k \in 1 .. m
               PROVE  /\ pos[k] \in K /\ Long(rTable, k) = long(pos[k])
                      /\ rTable[k].prefix = rFile[pos[k]].prefix
                      /\ rTable[k].backend = rFile[pos[k]].backend
                      /\ rTable[k].up <=> rFile[pos[k]].status = "up"
    OBVIOUS
  <2>1. pos[k] \in K
    BY <1>2 DEF Lists
  <2>2. rTable[k] = EntryOf(rFile[pos[k]])
    BY <1>2
  <2>3. /\ rTable[k].prefix = rFile[pos[k]].prefix
        /\ rTable[k].backend = rFile[pos[k]].backend
    BY <2>2 DEF EntryOf
  <2>4. rTable[k].up = (rFile[pos[k]].status = "up")
    BY <2>2 DEF EntryOf
  <2>. QED
    BY <2>1, <2>3, <2>4 DEF Long
<1>9. \A k \in 1 .. m : k \in G <=> pos[k] \in S
  <2>1. \A k \in 1 .. m : k \in G <=>
          rTable[k].up /\ Long(rTable, k) # 0 /\ R!IsPrefix(rTable[k].prefix, p)
    BY <1>7 DEF G, Good
  <2>. QED
    BY <1>5, <1>6, <1>8, <2>1
<1>10. \A i \in S : \E k \in 1 .. m : pos[k] = i
  BY <1>2, <1>6 DEF Lists
<1>11. r = IF G = {} THEN R!NoRoute ELSE rTable[Chosen(rTable, G)]
  <2>1. r = Found(rTable, p, DOMAIN rTable)
    BY <1>1, SearchFinds
  <2> HIDE DEF r
  <2>. QED
    BY <1>7, <2>1 DEF Found, G
<1> HIDE DEF r
<1>12. S = {} => r = R!NoRoute
  BY <1>7, <1>9, <1>11
<1>13. ASSUME NEW i \in best
       PROVE  r # R!NoRoute /\ r.prefix = rFile[i].prefix /\ r.backend = rFile[i].backend
  <2>1. PICK k \in 1 .. m : pos[k] = i
    BY <1>10
  <2>2. k \in G
    BY <1>9, <2>1
  <2>3. ASSUME NEW j \in G
        PROVE  Long(rTable, j) < Long(rTable, k) \/ (Long(rTable, j) = Long(rTable, k) /\ j >= k)
    <3>1. j \in 1 .. m /\ pos[j] \in S /\ pos[j] \in Nat /\ i \in Nat
      BY <1>3, <1>6, <1>7, <1>9
    <3>2. long(pos[j]) < long(i) \/ (long(pos[j]) = long(i) /\ pos[j] >= i)
      BY <3>1
    <3>3. pos[j] >= i => j >= k
      <4>1. j < k => pos[j] < pos[k]
        BY <1>2, <3>1 DEF Lists
      <4>2. j \in Nat /\ k \in Nat
        BY <1>1, <3>1 DEF m
      <4>. QED
        BY <2>1, <3>1, <4>1, <4>2
    <3>4. Long(rTable, j) = long(pos[j]) /\ Long(rTable, k) = long(i)
      BY <1>8, <2>1, <3>1
    <3>. QED
      BY ONLY <3>2, <3>3, <3>4
  <2>4. Chosen(rTable, G) = k
    <3>1. IsChosen(rTable, G, k)
      BY <2>2, <2>3 DEF IsChosen
    <3>2. G \in SUBSET Good(rTable, p) /\ G # {}
      BY <2>2 DEF G
    <3>. QED
      BY <1>1, <2>2, <3>1, <3>2, OneIsChosen
  <2>5. r = rTable[k]
    BY <1>11, <2>2, <2>4
  <2>6. rTable[k].up
    BY <2>2 DEF G, Good
  <2>. QED
    BY <1>8, <2>1, <2>5, <2>6 DEF R!NoRoute
<1>. QED
  BY <1>12, <1>13 DEF S, r

\* What the registry answers is what its file says.
LEMMA RegistryTrue ==
  ASSUME RouteTable, RouteReply
  PROVE  R!ResolvesLongestUp /\ R!SnapshotMatchesFile
<1>1. R!ResolvesLongestUp
  <2> SUFFICES ASSUME rWanted \in Paths PROVE R!ResolvesLongestUp
    BY DEF R!ResolvesLongestUp
  <2>1. rWanted \in Seq(STRING)
    BY RoutesAssumption
  <2> DEFINE r == R!ResolveRoute(rTable, rWanted)
  <2>2. rReply = [status |-> IF r = R!NoRoute THEN 404 ELSE 200, route |-> r]
    BY DEF RouteReply, R!StatusOfRoute
  <2>3. rReply.status = (IF r = R!NoRoute THEN 404 ELSE 200) /\ rReply.route = r
    BY <2>2
  <2> HIDE DEF r
  <2>. QED
    BY <2>1, <2>2, <2>3, AnswerOfFile DEF R!ResolvesLongestUp, r
<1>2. R!SnapshotMatchesFile
  <2> DEFINE m == Len(rTable)
             D == DOMAIN rTable
             live == {i \in D : rTable[i].up}
  <2>1. m \in Nat /\ D = 1 .. m
    BY DEF RouteTable
  <2>2. IsFiniteSet(D) /\ Cardinality(D) = m
    <3>1. 1 \in Int /\ m \in Int
      BY <2>1
    <3>2. IsFiniteSet(1 .. m) /\ Cardinality(1 .. m) = IF 1 > m THEN 0 ELSE m - 1 + 1
      BY ONLY <3>1, FS_Interval
    <3> HIDE DEF D, m
    <3>. QED
      BY <2>1, <3>2
  <2>3. Cardinality(D \ live) = m - Cardinality(live) /\ Cardinality(live) \in Nat
    <3>1. live \subseteq D /\ D \intersect live = live
      OBVIOUS
    <3> HIDE DEF D, live, m
    <3>2. IsFiniteSet(live)
      BY <2>2, <3>1, FS_Subset
    <3>. QED
      BY <2>2, <3>1, <3>2, FS_Difference, FS_CardinalityType
  <2>4. Cardinality({i \in KeptRoutes : rFile[i].status = "up"}) = Cardinality(live)
        /\ Cardinality(KeptRoutes) = m
    BY <2>1 DEF RouteTable
  <2>5. R!Snapshot(rTable) = [total |-> m, up |-> Cardinality(live), down |-> Cardinality(D \ live)]
    BY SameCounts DEF R!Snapshot
  <2> HIDE DEF D, live, m
  <2>. QED
    BY <2>1, <2>3, <2>4, <2>5, SameCounts, SameKeptRoutes DEF R!SnapshotMatchesFile
<1>. QED
  BY <1>1, <1>2

-----------------------------------------------------------------------------
(* The vault, whose store is filled in the same way. *)

SecretText == [fields : Nat, name : STRING, ref : STRING, status : STRING]
SecretEntry == [name : STRING, ref : STRING, active : BOOLEAN]

SecretLines(f) == {i \in 1 .. Len(f) : f[i].fields = 3}
SecretOf(l) == [name |-> l.name, ref |-> l.ref, active |-> l.status = "active"]
KeptSecrets == KeptOf(SecretLines(vFile), vLine, MaxSecrets)

\* What the store is made of, whatever has been read so far.
SecretTable ==
  /\ vFile \in Seq(SecretText) /\ vLine \in 0 .. Len(vFile)
  /\ vStore \in Seq(SecretEntry)
  /\ Filled(Len(vStore), SecretLines(vFile), vLine, MaxSecrets)
  /\ Cardinality(KeptSecrets) = Len(vStore)
  /\ Cardinality({i \in KeptSecrets : vFile[i].status = "active"})
       = Cardinality({k \in 1 .. Len(vStore) : vStore[k].active})
  /\ \E pos : /\ Lists(pos, Len(vStore), KeptSecrets)
              /\ \A k \in 1 .. Len(vStore) : vStore[k] = SecretOf(vFile[pos[k]])

\* The last answer to /secret comes from the store, which no longer changes.
SecretReply ==
  vWanted \in Names =>
    /\ vPhase # "load"
    /\ vReply = [status |-> V!StatusOfSecret(vStore, vWanted),
                 ref |-> IF V!StatusOfSecret(vStore, vWanted) = 200
                         THEN vStore[V!FindSecret(vStore, vWanted)].ref ELSE V!NoRef]

LEMMA SecretTableInit == V!Init => SecretTable
<1> SUFFICES ASSUME V!Init PROVE SecretTable
  OBVIOUS
<1>1. vFile \in Seq(SecretText) /\ vLine = 0 /\ vStore = <<>>
  BY SecretsAssumption DEF V!Init, SecretText
<1>2. vLine \in 0 .. Len(vFile) /\ vStore \in Seq(SecretEntry) /\ Len(vStore) = 0
  BY <1>1
<1> DEFINE W == SecretLines(vFile)
<1>0. MaxSecrets \in Nat
  BY SecretsAssumption
<1> HIDE DEF W
<1>8. /\ KeptOf(W, 0, MaxSecrets) = {} /\ Filled(0, W, 0, MaxSecrets)
      /\ Lists(<<>>, 0, {}) /\ Cardinality({}) = 0
  BY <1>0, NothingRead
<1>3. /\ KeptSecrets = {} /\ Filled(0, SecretLines(vFile), 0, MaxSecrets)
      /\ Lists(<<>>, 0, {}) /\ Cardinality({}) = 0
  BY <1>1, <1>8 DEF KeptSecrets, W
<1>4. 1 .. 0 = {}
  OBVIOUS
<1>5. {i \in KeptSecrets : vFile[i].status = "active"} = {}
  BY <1>3
<1>6. {k \in 1 .. Len(vStore) : vStore[k].active} = {}
  BY <1>2, <1>4
<1>7. \E pos : /\ Lists(pos, Len(vStore), KeptSecrets)
               /\ \A k \in 1 .. Len(vStore) : vStore[k] = SecretOf(vFile[pos[k]])
  BY <1>2, <1>3, <1>4
<1>. QED
  BY <1>1, <1>2, <1>3, <1>5, <1>6, <1>7 DEF SecretTable

\* load_secrets reads a line: the table stays the list of the kept lines.
LEMMA LoadSecretLine ==
  ASSUME SecretTable, V!LoadLine
  PROVE  SecretTable'
<1> DEFINE n == vLine
           m == Len(vStore)
           W == SecretLines(vFile)
           K == KeptSecrets
           l == vFile[n + 1]
<1>1. /\ n < Len(vFile) /\ vLine' = n + 1 /\ vFile' = vFile
      /\ vStore' = V!AddSecret(vStore, l)
  BY DEF V!LoadLine
<1>2. /\ vFile \in Seq(SecretText) /\ n \in Nat /\ Len(vFile) \in Nat
      /\ vStore \in Seq(SecretEntry) /\ m \in Nat /\ MaxSecrets \in Nat
      /\ n + 1 \in 1 .. Len(vFile) /\ n + 1 \in 0 .. Len(vFile)
  BY <1>1, SecretsAssumption DEF SecretTable
<1>3. l \in SecretText /\ (n + 1 \in W <=> l.fields = 3)
  BY <1>2 DEF SecretLines
<1>4. /\ Filled(m, W, n, MaxSecrets) /\ Cardinality(K) = m
      /\ K = KeptOf(W, n, MaxSecrets) /\ K' = KeptOf(W, n + 1, MaxSecrets)
  BY <1>1 DEF SecretTable, KeptSecrets
<1> HIDE DEF K, W, n, m
<1>5. K \subseteq 1 .. n /\ IsFiniteSet(K) /\ n + 1 \notin K
  <2>1. KeptOf(W, n, MaxSecrets) \subseteq 1 .. n
    BY DEF KeptOf, Before
  <2>2. IsFiniteSet(KeptOf(W, n, MaxSecrets)) /\ n + 1 \notin KeptOf(W, n, MaxSecrets)
    BY <1>2, <1>4, OneLineMore
  <2>. QED
    BY <1>4, <2>1, <2>2
<1> USE DEF K, W, n, m
<1>6. PICK pos : /\ Lists(pos, m, K)
                 /\ \A k \in 1 .. m : vStore[k] = SecretOf(vFile[pos[k]])
  BY DEF SecretTable
<1> DEFINE A == {i \in K : vFile[i].status = "active"}
           B == {k \in 1 .. m : vStore[k].active}
<1>7. Cardinality(A) = Cardinality(B)
  BY DEF SecretTable
<1>8. IsFiniteSet(A) /\ IsFiniteSet(B) /\ n + 1 \notin A /\ m + 1 \notin B
  <2>1. 1 \in Int /\ m \in Int
    BY <1>2
  <2>2. IsFiniteSet(1 .. m)
    BY ONLY <2>1, FS_Interval
  <2>3. m + 1 \notin 1 .. m
    BY <1>2
  <2>. QED
    BY <1>5, <2>2, <2>3, FS_Subset
<1>9. CASE n + 1 \in W /\ m < MaxSecrets
  <2>1. vStore' = Append(vStore, SecretOf(l))
    BY <1>1, <1>3, <1>9 DEF V!AddSecret, SecretOf
  <2>2. SecretOf(l) \in SecretEntry
    BY <1>3 DEF SecretOf, SecretText, SecretEntry
  <2>3. /\ vStore' \in Seq(SecretEntry) /\ Len(vStore') = m + 1
        /\ vStore'[m + 1] = SecretOf(l)
        /\ \A k \in 1 .. m : vStore'[k] = vStore[k]
    BY <1>2, <2>1, <2>2
  <2>4. K' = K \union {n + 1} /\ Filled(m + 1, W, n + 1, MaxSecrets)
    BY <1>2, <1>4, <1>9, OneLineMore
  <2>5. Cardinality(K') = m + 1
    BY <1>4, <1>5, <2>4, FS_AddElement
  <2>6. Lists([k \in 1 .. m + 1 |-> IF k = m + 1 THEN n + 1 ELSE pos[k]], m + 1, K')
    BY <1>2, <1>5, <1>6, <2>4, OneEntryMore
  <2>7. \A k \in 1 .. m + 1 : k \in 1 .. m \/ k = m + 1
    BY <1>2
  <2> DEFINE p == [k \in 1 .. m + 1 |-> IF k = m + 1 THEN n + 1 ELSE pos[k]]
  <2>8. \A k \in 1 .. m + 1 : vStore'[k] = SecretOf(vFile'[p[k]])
    BY <1>1, <1>2, <1>6, <2>3, <2>7
  <2>9. {i \in K' : vFile'[i].status = "active"} = IF l.status = "active" THEN A \union {n + 1}
                                                               ELSE A
    <3>1. \A i : i \in K' <=> i \in K \/ i = n + 1
      BY <2>4
    <3>2. \A i : i \in {i1 \in K' : vFile'[i1].status = "active"} <=>
                   i \in A \/ (i = n + 1 /\ l.status = "active")
      BY <1>1, <3>1
    <3>. QED
      BY <3>2
  <2>10. {k \in 1 .. m + 1 : vStore'[k].active} = IF l.status = "active" THEN B \union {m + 1}
                                                                 ELSE B
    <3>1. \A k : k \in 1 .. m + 1 <=> k \in 1 .. m \/ k = m + 1
      BY <1>2
    <3>2. vStore'[m + 1].active = (l.status = "active")
      BY <2>3 DEF SecretOf
    <3>3. \A k : k \in {k1 \in 1 .. m + 1 : vStore'[k1].active} <=>
                   k \in B \/ (k = m + 1 /\ l.status = "active")
      BY <2>3, <3>1, <3>2
    <3>. QED
      BY <3>3
  <2>11. Cardinality(A \union {n + 1}) = Cardinality(B \union {m + 1})
    <3> HIDE DEF A, B, n, m
    <3>1. Cardinality(A \union {n + 1}) = Cardinality(A) + 1
      BY ONLY <1>8, FS_AddElement
    <3>2. Cardinality(B \union {m + 1}) = Cardinality(B) + 1
      BY ONLY <1>8, FS_AddElement
    <3>. QED
      BY ONLY <1>7, <3>1, <3>2
  <2>12. Cardinality({i \in K' : vFile'[i].status = "active"})
           = Cardinality({k \in 1 .. m + 1 : vStore'[k].active})
    BY <1>7, <2>9, <2>10, <2>11
  <2> HIDE DEF p
  <2>13. \E q : /\ Lists(q, m + 1, K')
                /\ \A k \in 1 .. m + 1 : vStore'[k] = SecretOf(vFile'[q[k]])
    BY <2>6, <2>8 DEF p
  <2>. QED
    BY <1>1, <1>2, <2>3, <2>4, <2>5, <2>12, <2>13 DEF SecretTable
<1>10. CASE ~(n + 1 \in W /\ m < MaxSecrets)
  <2>1. vStore' = vStore
    BY <1>1, <1>3, <1>10 DEF V!AddSecret
  <2>2. K' = K /\ Filled(m, W, n + 1, MaxSecrets)
    BY <1>2, <1>4, <1>10, OneLineMore
  <2>3. \E q : /\ Lists(q, m, K')
               /\ \A k \in 1 .. m : vStore'[k] = SecretOf(vFile'[q[k]])
    BY <1>1, <1>6, <2>1, <2>2
  <2>. QED
    BY <1>1, <1>2, <1>4, <1>7, <2>1, <2>2, <2>3 DEF SecretTable
<1>. QED
  BY <1>9, <1>10

\* Every step of the vault keeps the table and the last answer in agreement.
LEMMA VaultStep ==
  ASSUME SecretTable, SecretReply, V!Next
  PROVE  SecretTable' /\ SecretReply'
<1>1. CASE V!LoadLine
  BY <1>1, LoadSecretLine DEF V!LoadLine, SecretReply
<1>2. ASSUME UNCHANGED <<vFile, vLine, vStore>>
      PROVE  SecretTable'
  BY <1>2 DEF SecretTable, KeptSecrets
<1>3. CASE V!Serve \/ V!Stop
  BY <1>2, <1>3 DEF V!Serve, V!Stop, SecretReply
<1>4. ASSUME NEW status \in {200, 400, 404}, V!Plain(status)
      PROVE  SecretTable' /\ SecretReply'
  BY <1>2, <1>4, SecretsAssumption DEF V!Plain, V!NoName, SecretReply
<1>5. ASSUME NEW name \in Names, V!GetSecret(name)
      PROVE  SecretTable' /\ SecretReply'
  BY <1>2, <1>5 DEF V!GetSecret, SecretReply
<1>. QED
  BY <1>1, <1>3, <1>4, <1>5 DEF V!Next

\* The kept lines that the property speaks of are those of the table.
LEMMA SameKeptSecrets ==
  ASSUME SecretTable PROVE V!Kept = KeptSecrets
<1> DEFINE W == SecretLines(vFile)
<1>1. vLine \in Nat /\ Len(vFile) \in Nat /\ vLine <= Len(vFile)
  BY DEF SecretTable
<1>2. \A i \in 1 .. vLine : i \in W <=> vFile[i].fields = 3
  BY <1>1 DEF SecretLines
<1>3. ASSUME NEW i \in 1 .. vLine
      PROVE  Before(W, i - 1) = {j \in 1 .. i - 1 : vFile[j].fields = 3}
  <2>1. \A j \in 1 .. i - 1 : j \in 1 .. vLine
    BY <1>1
  <2> HIDE DEF W
  <2>. QED
    BY <1>2, <2>1 DEF Before
<1>4. ASSUME NEW i \in 1 .. vLine
      PROVE  i \in V!Kept <=> i \in KeptOf(W, vLine, MaxSecrets)
  <2>1. V!Cardinality({j \in 1 .. i - 1 : vFile[j].fields = 3})
          = Cardinality(Before(W, i - 1))
    BY <1>3, SameCounts
  <2> HIDE DEF W
  <2>. QED
    BY <1>2, <2>1 DEF Before, KeptOf, V!Kept
<1>5. \A i : i \in V!Kept \/ i \in KeptOf(W, vLine, MaxSecrets) => i \in 1 .. vLine
  BY DEF Before, KeptOf, V!Kept
<1>6. V!Kept = KeptOf(W, vLine, MaxSecrets)
  <2> HIDE DEF W
  <2>. QED
    BY <1>4, <1>5
<1>. QED
  BY <1>6 DEF KeptSecrets


\* A set of numbers has a first one.
LEMMA FirstOne ==
  ASSUME NEW S \in SUBSET Nat, S # {}
  PROVE  V!Min(S) \in S /\ \A y \in S : V!Min(S) <= y
<1>1. \E n \in S : \A m \in S : n <= m
  BY Least
<1>. QED
  BY <1>1 DEF V!Min

\* The first entry with a name is that of the first kept line with it.
LEMMA FirstEntry ==
  ASSUME SecretTable, NEW name
  PROVE  LET lines == {i \in KeptSecrets : vFile[i].name = name}
             i == V!Min(lines)
             k == V!FindSecret(vStore, name)
         IN  /\ lines = {} => k = 0
             /\ lines # {} => /\ k # 0
                              /\ vStore[k].active = (vFile[i].status = "active")
                              /\ vStore[k].ref = vFile[i].ref
<1> DEFINE m == Len(vStore)
           K == KeptSecrets
           lines == {i \in K : vFile[i].name = name}
           I == {k \in 1 .. m : vStore[k].name = name}
           k == V!FindSecret(vStore, name)
<1>1. m \in Nat /\ vLine \in Nat
  BY DEF SecretTable
<1>2. PICK pos : /\ Lists(pos, m, K)
                 /\ \A a \in 1 .. m : vStore[a] = SecretOf(vFile[pos[a]])
  BY DEF SecretTable
<1>3. K \subseteq Nat
  BY <1>1 DEF KeptSecrets, KeptOf, Before
<1>4. k = IF I # {} THEN V!Min(I) ELSE 0
  BY DEF V!FindSecret, V!SelectInSeq
<1> HIDE DEF k, K, m
<1>5. ASSUME NEW a \in 1 .. m
      PROVE  /\ pos[a] \in K
             /\ vStore[a].name = vFile[pos[a]].name /\ vStore[a].ref = vFile[pos[a]].ref
             /\ vStore[a].active = (vFile[pos[a]].status = "active")
  <2>1. pos[a] \in K
    BY <1>2 DEF Lists
  <2>2. vStore[a] = SecretOf(vFile[pos[a]])
    BY <1>2
  <2>. QED
    BY <2>1, <2>2 DEF SecretOf
<1>6. \A i \in lines : \E a \in I : pos[a] = i
  BY <1>2, <1>5 DEF Lists
<1>7. \A a \in I : pos[a] \in lines
  BY <1>5
<1>8. lines = {} => k = 0
  BY <1>4, <1>7
<1>9. ASSUME lines # {}
      PROVE  k \in I /\ pos[k] = V!Min(lines) /\ k # 0
  <2>1. I # {} /\ I \in SUBSET Nat /\ lines \in SUBSET Nat
    BY <1>1, <1>3, <1>6, <1>9
  <2>2. k = V!Min(I)
    BY <1>4, <2>1
  <2>3. k \in I /\ \A a \in I : k <= a
    <3> HIDE DEF I
    <3>. QED
      BY <2>1, <2>2, FirstOne
  <2> DEFINE f == V!Min(lines)
  <2>4. f \in lines /\ \A i \in lines : f <= i
    <3> HIDE DEF lines
    <3>. QED
      BY <1>9, <2>1, FirstOne
  <2> HIDE DEF f
  <2>5. PICK a \in I : pos[a] = f
    BY <1>6, <2>4
  <2>6. k = a \/ k < a
    BY <1>1, <2>3
  <2>7. k < a => pos[k] < pos[a]
    BY <1>2, <2>3 DEF Lists
  <2>8. f <= pos[k] /\ f \in Nat /\ pos[k] \in Nat
    BY <1>7, <2>1, <2>3, <2>4
  <2>9. pos[k] = f
    BY <2>5, <2>6, <2>7, <2>8
  <2>. QED
    BY <1>1, <2>3, <2>9 DEF f
<1>10. lines # {} => /\ k # 0
                     /\ vStore[k].active = (vFile[V!Min(lines)].status = "active")
                     /\ vStore[k].ref = vFile[V!Min(lines)].ref
  BY <1>5, <1>9
<1>. QED
  BY <1>8, <1>10 DEF k, K

\* What the vault answers is what its file says.
LEMMA VaultTrue ==
  ASSUME SecretTable, SecretReply
  PROVE  V!FirstLineDecides /\ V!StatsMatchFile
<1>1. V!FirstLineDecides
  <2> SUFFICES ASSUME vWanted \in Names PROVE V!FirstLineDecides
    BY DEF V!FirstLineDecides
  <2> DEFINE lines == {i \in KeptSecrets : vFile[i].name = vWanted}
             first == V!Min(lines)
             k == V!FindSecret(vStore, vWanted)
             status == V!StatusOfSecret(vStore, vWanted)
  <2>1. /\ lines = {} => k = 0
        /\ lines # {} => /\ k # 0
                         /\ vStore[k].active = (vFile[first].status = "active")
                         /\ vStore[k].ref = vFile[first].ref
    BY FirstEntry
  <2>2. status = IF k = 0 THEN 404 ELSE IF vStore[k].active THEN 200 ELSE 404
    BY DEF V!StatusOfSecret
  <2>3. vReply = [status |-> status, ref |-> IF status = 200 THEN vStore[k].ref ELSE V!NoRef]
    BY DEF SecretReply
  <2> HIDE DEF k, status, first
  <2>4. IF lines # {} /\ vFile[first].status = "active"
        THEN vReply = [status |-> 200, ref |-> vFile[first].ref]
        ELSE vReply = [status |-> 404, ref |-> V!NoRef]
    <3>1. CASE lines # {} /\ vFile[first].status = "active"
      <4>1. status = 200 /\ vStore[k].ref = vFile[first].ref
        BY <2>1, <2>2, <3>1
      <4>. QED
        BY <2>3, <3>1, <4>1
    <3>2. CASE ~(lines # {} /\ vFile[first].status = "active")
      <4>1. status = 404
        BY <2>1, <2>2, <3>2
      <4>. QED
        BY <2>3, <3>2, <4>1
    <3>. QED
      BY <3>1, <3>2
  <2>. QED
    BY <2>4, SameKeptSecrets DEF V!FirstLineDecides, first
<1>2. V!StatsMatchFile
  <2> DEFINE m == Len(vStore)
             D == DOMAIN vStore
             live == {i \in D : vStore[i].active}
  <2>1. m \in Nat /\ D = 1 .. m
    BY DEF SecretTable
  <2>2. IsFiniteSet(D) /\ Cardinality(D) = m
    <3>1. 1 \in Int /\ m \in Int
      BY <2>1
    <3>2. IsFiniteSet(1 .. m) /\ Cardinality(1 .. m) = IF 1 > m THEN 0 ELSE m - 1 + 1
      BY ONLY <3>1, FS_Interval
    <3> HIDE DEF D, m
    <3>. QED
      BY <2>1, <3>2
  <2>3. Cardinality(D \ live) = m - Cardinality(live) /\ Cardinality(live) \in Nat
    <3>1. live \subseteq D /\ D \intersect live = live
      OBVIOUS
    <3> HIDE DEF D, live, m
    <3>2. IsFiniteSet(live)
      BY <2>2, <3>1, FS_Subset
    <3>. QED
      BY <2>2, <3>1, <3>2, FS_Difference, FS_CardinalityType
  <2>4. Cardinality({i \in KeptSecrets : vFile[i].status = "active"}) = Cardinality(live)
        /\ Cardinality(KeptSecrets) = m
    BY <2>1 DEF SecretTable
  <2>5. V!SecretStats(vStore)
          = [total |-> m, active |-> Cardinality(live), revoked |-> Cardinality(D \ live)]
    BY SameCounts DEF V!SecretStats
  <2>6. m <= MaxSecrets
    <3>1. MaxSecrets \in Nat
      BY SecretsAssumption
    <3>2. vLine \in Nat
      BY DEF SecretTable
    <3>3. Cardinality(Before(SecretLines(vFile), vLine)) \in Nat
      BY <3>2, BeforeFacts
    <3>. QED
      BY <3>1, <3>3 DEF SecretTable, Filled
  <2> HIDE DEF D, live, m
  <2>. QED
    BY <2>1, <2>3, <2>4, <2>5, <2>6, SameCounts, SameKeptSecrets DEF V!StatsMatchFile
<1>. QED
  BY <1>1, <1>2

-----------------------------------------------------------------------------

\* For every file of routes and of secrets, every table size and every sequence of
\* requests: /resolve answers the longest prefix that is up, /secret the first line with
\* the name, and /snapshot and /stats count the lines that the table has room for.
THEOREM AnswersAreTheFiles == ServicesSpec => []AnswersMatchFiles
<1> DEFINE Inv == RouteTable /\ RouteReply /\ SecretTable /\ SecretReply
<1>1. ServicesInit => Inv
  <2> SUFFICES ASSUME ServicesInit PROVE Inv
    OBVIOUS
  <2>1. R!Init /\ V!Init
    BY DEF ServicesInit
  <2>2. RouteReply
    BY <2>1, RoutesAssumption DEF R!Init, R!NoPath, RouteReply
  <2>3. SecretReply
    BY <2>1, SecretsAssumption DEF V!Init, V!NoName, SecretReply
  <2>. QED
    BY <2>1, <2>2, <2>3, RouteTableInit, SecretTableInit
<1>2. UNCHANGED rVars /\ RouteTable /\ RouteReply => RouteTable' /\ RouteReply'
  BY DEF rVars, RouteTable, RouteReply, KeptRoutes
<1>3. UNCHANGED vVars /\ SecretTable /\ SecretReply => SecretTable' /\ SecretReply'
  BY DEF vVars, SecretTable, SecretReply, KeptSecrets
<1>4. Inv /\ [ServicesNext]_<<chosen, vars, monVars, rVars, vVars, tVars>> => Inv'
  BY <1>2, <1>3, RegistryStep, VaultStep
  DEF ServicesNext, RunnerTurn, MonitorTurn, RegistryTurn, VaultTurn, TableTurn
<1>5. Inv => AnswersMatchFiles
  BY RegistryTrue, VaultTrue DEF AnswersMatchFiles
<1>. QED
  BY <1>1, <1>4, <1>5, PTL DEF ServicesSpec
=============================================================================
