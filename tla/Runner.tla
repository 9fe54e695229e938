------------------------------- MODULE Runner -------------------------------
(***************************************************************************)
(* minicloud-runner (HTTP) as one process: it loads its capacity file,     *)
(* serves one connection at a time, keeps everything it knows in memory    *)
(* and loses it when it stops.                                             *)
(***************************************************************************)
EXTENDS Capacity, SequencesExt, FiniteSetsExt

CONSTANTS
  File,         \* the lines of the capacity file
  RunRequests,  \* the /run requests clients may send
  MaxRuns       \* bound: /run requests served by one incarnation

ASSUME FileAssumption ==
  /\ File \in Seq([key : STRING, value : Int])
  /\ Loaded(File)

ASSUME RequestAssumption == RunRequests \subseteq RunRequest

ASSUME MaxRunsAssumption == MaxRuns \in Nat

VARIABLES
  up,     \* the process is in its accept loop
  mem,    \* capacity_t and runtime_t
  reply,  \* HTTP status of the last answer, 0 before the first
  log     \* history: the /run requests of this incarnation and their verdicts

vars == <<up, mem, reply, log>>

Init ==
  /\ up = FALSE
  /\ mem = FreshRunner(File)
  /\ reply = 0
  /\ log = <<>>

\* main: load_capacity succeeds and run_server reaches accept.
Start ==
  /\ ~up
  /\ up' = TRUE
  /\ mem' = FreshRunner(File)
  /\ log' = <<>>
  /\ reply' = 0

\* An unreadable request or a method other than GET.
BadRequest ==
  /\ up
  /\ reply' = 400
  /\ UNCHANGED <<up, mem, log>>

\* /health and /stats read the memory and answer 200.
Consult ==
  /\ up
  /\ reply' = 200
  /\ UNCHANGED <<up, mem, log>>

\* /run: verdict, booking or rejected++, then the answer.
Run(q) ==
  /\ up
  /\ Len(log) < MaxRuns
  /\ mem' = AfterRun(mem, q)
  /\ reply' = StatusOfVerdict(Verdict(mem, q))
  /\ log' = Append(log, [q |-> q, verdict |-> Verdict(mem, q)])
  /\ UNCHANGED up

\* Any other path.
NotFound ==
  /\ up
  /\ reply' = 404
  /\ UNCHANGED <<up, mem, log>>

\* accept fails, or the process is killed: the memory is gone.
Stop ==
  /\ up
  /\ up' = FALSE
  /\ mem' = FreshRunner(File)
  /\ log' = <<>>
  /\ reply' = 0

Next ==
  \/ Start
  \/ BadRequest
  \/ Consult
  \/ \E q \in RunRequests : Run(q)
  \/ NotFound
  \/ Stop

Spec == Init /\ [][Next]_vars

-----------------------------------------------------------------------------

\* The memory of run_server holds natural numbers: capacity never goes below
\* zero, whatever the sequence of requests.
TypeOK ==
  /\ up \in BOOLEAN
  /\ mem \in RunnerMemory
  /\ reply \in {0, 200, 400, 404, 409}
  /\ log \in Seq([q : RunRequests, verdict : Verdicts])

Granted(upto) == {i \in 1 .. upto : log[i].verdict = "accept"}

\* First come, first served: request i of an incarnation is accepted exactly
\* when it is well formed and fits beside the requests accepted before it; no
\* earlier rejection and no other traffic makes a difference.
FirstComeFirstServed ==
  \A i \in 1 .. Len(log) :
    LET G == Granted(i - 1)
        q == log[i].q
    IN  log[i].verdict = "accept" <=>
          /\ q.complete
          /\ ~InvalidLimits(q)
          /\ Cardinality(G) < LoadCapacity(File)["max_parallel_jobs"]
          /\ MapThenSumSet(LAMBDA j : log[j].q.cpu, G) + q.cpu
               <= LoadCapacity(File)["cpu_free_milli"]
          /\ MapThenSumSet(LAMBDA j : log[j].q.mem, G) + q.mem
               <= LoadCapacity(File)["mem_free_mb"]

Budget ==
  INSTANCE Admission WITH
    CpuBudget <- LoadCapacity(File)["cpu_free_milli"],
    MemBudget <- LoadCapacity(File)["mem_free_mb"],
    JobBudget <- LoadCapacity(File)["max_parallel_jobs"],
    cpuUsed <- LoadCapacity(File)["cpu_free_milli"] - mem.cpu_free,
    memUsed <- LoadCapacity(File)["mem_free_mb"] - mem.mem_free,
    jobs <- mem.accepted

\* The server implements the abstract budget.
BudgetSpec == Budget!Spec

=============================================================================
