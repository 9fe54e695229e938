----------------------------- MODULE CloudTools -----------------------------
(***************************************************************************)
(* The readers of block 12 (practica): contracts, routes, manifests, jobs  *)
(* and reports of MiniCloud, each with what it starts with, what one line  *)
(* (or one word, for a loop of fscanf) does, and what its report means.    *)
(*                                                                         *)
(* A line with fields is the sequence of its pieces between bars; a piece  *)
(* has its text, the number it is (a set, {} when it is none) and whether  *)
(* it is a good name for the program.                                      *)
(***************************************************************************)
EXTENDS NetTools

CONSTANTS
  MaxPort,   \* 65535
  MaxTtl,    \* 31536000 seconds
  MinTtl,    \* 60
  MostCpu,   \* 4000 millicores
  HeavyCpu,  \* 2000
  MinCpu     \* 50

\* An int holds the numbers of the policy, and the bits of it are those of 2^IntBits.
ASSUME CloudAssumption ==
  /\ MinCpu \in Int /\ HeavyCpu \in Int /\ MostCpu \in Int
  /\ 2^IntBits \in Nat /\ 2^(IntBits - 1) \in Nat
  /\ 2^IntBits = 2 * 2^(IntBits - 1) /\ 2^(IntBits - 1) > 120

\* A piece of a line, or a word, is one number or none.
Word == [text : STRING, num : SUBSET Int, name : BOOLEAN]
WordLine(w) == w \in Word /\ Parsed(w.num, Int)
PiecesLine(l) == l \in Seq(Word) /\ \A i \in DOMAIN l : Parsed(l[i].num, Int)

-----------------------------------------------------------------------------
(* e01: contracts, name | port | protocol | path.                          *)

ContractStart == Zero({"valid", "invalid", "https"})

ValidContract(f) ==
  /\ Len(f) = 4
  /\ f[1].name
  /\ InRange(f[2], 1, MaxPort)
  /\ f[3].text \in {"tcp", "http", "https"}
  /\ f[4].text = "/path"

ContractStep(a, pieces) ==
  LET f == Fields(pieces) IN
    IF ValidContract(f) THEN Bump(a, {"valid"} \union If(f[3].text = "https", {"https"}))
    ELSE Bump(a, {"invalid"})

\* Every line is counted once, and an empty piece neither counts nor makes a
\* line invalid.
ContractMatches(read, a) ==
  LET Good(l) == /\ Cardinality(Filled(l)) = 4
                 /\ l[Nth(l, 1)].name /\ InRange(l[Nth(l, 2)], 1, MaxPort)
                 /\ l[Nth(l, 3)].text \in {"tcp", "http", "https"}
                 /\ l[Nth(l, 4)].text = "/path"
  IN /\ a.valid + a.invalid = Len(read)
     /\ a.valid = Count(read, Good)
     /\ a.https = Count(read, LAMBDA l : Good(l) /\ l[Nth(l, 3)].text = "https")

-----------------------------------------------------------------------------
(* e02: a snapshot of the registry; the last of four fields is the status. *)

SnapshotStart == Zero({"total", "up", "down", "invalid"})

SnapshotStep(a, pieces) ==
  LET f == Fields(pieces) IN
    IF Len(f) = 4 /\ f[4].text \in {"up", "down"} THEN Bump(a, {"total", f[4].text})
    ELSE Bump(a, {"invalid"})

\* Whoever is in the snapshot is up or down, and no line is lost.
SnapshotMatches(read, a) ==
  /\ a.total = a.up + a.down /\ a.total + a.invalid = Len(read)
  /\ a.up = Count(read, LAMBDA l :
       Cardinality(Filled(l)) = 4 /\ l[Nth(l, 4)].text = "up")

-----------------------------------------------------------------------------
(* e03: routes to backends that are up.  Unlike the proxy of block 10, a   *)
(* table that is full leaves out the line and goes on.                     *)

PlanStart == ProxyStart

PlanStep(a, l) ==
  CASE l.kind = "backend" /\ Len(a.backends) < MaxBackends -> [a EXCEPT !.backends = Append(@, l)]
    [] l.kind = "route" /\ Len(a.routes) < MaxRoutes       -> [a EXCEPT !.routes = Append(@, l)]
    [] OTHER -> a

Plan(a) ==
  LET route == MatchRoute(a.routes)
      up == {b \in UNION {FindBackend(a.backends, r.backend) : r \in route} : b.up}
  IN IF route = {} THEN "no_route" ELSE IF up = {} THEN "backend_down" ELSE "ok"

\* Only the lines that fit the tables are there, and of them the longest prefix
\* and the first backend of a name decide, even against one that is up.
PlanMatches(read, a) ==
  LET Nr(i, kind) == Cardinality({j \in 1 .. i : read[j].kind = kind})
      Kept(kind, most) == {i \in DOMAIN read : read[i].kind = kind /\ Nr(i, kind) <= most}
      Fit == {i \in Kept("route", MaxRoutes) : read[i].len > 0}
      Taken == {i \in Fit : \A j \in Fit :
                  read[j].len < read[i].len \/ (read[j].len = read[i].len /\ i <= j)}
      First(b) == \A j \in Kept("backend", MaxBackends) : read[j].name = read[b].name => b <= j
      Answer(i) == {b \in Kept("backend", MaxBackends) :
                      read[b].name = read[i].backend /\ First(b) /\ read[b].up}
  IN /\ Plan(a) = "no_route" <=> Fit = {}
     /\ Plan(a) = "ok" <=> \E i \in Taken : Answer(i) # {}

-----------------------------------------------------------------------------
(* e04 and e10: one status for all services, and whether all are ready.    *)

ReduceStart == Zero({"total", "ok", "warn", "crit"})

\* A name or a status that is empty is passed over.
ReduceStep(a, l) ==
  IF l.name = "" THEN a
  ELSE Bump(a, UNION {{"total", HealthCounter(w)} : w \in l.status \ {""}})

Ready(a) == a.crit = 0 /\ a.warn = 0

\* Ready, unless some named service says a word other than ok.
ReduceMatches(read, a) ==
  LET Words == UNION {l.status \ {""} : l \in {m \in ToSet(read) : m.name # ""}} IN
    /\ Ready(a) <=> Words \subseteq {"ok", "OK"}
    /\ Worst(a) = "WARN" <=> Words \cap {"warn", "Warn"} # {}
                               /\ Words \subseteq {"ok", "OK", "warn", "Warn"}
    /\ Worst(a) = "OK" <=> Ready(a)
    /\ a.total = a.ok + a.warn + a.crit

-----------------------------------------------------------------------------
(* e05: measures, service latency status, by fscanf.                       *)

MeasureStart == Scanner(Zero({"total", "errors", "lat_sum"}))

Measured(i) == i \in {2, 3}

UseMeasure(n, w) ==
  IF Number(w[2]) < 0 THEN n
  ELSE [total |-> n.total + 1,
        errors |-> n.errors + If01(Number(w[3]) >= 500),
        lat_sum |-> n.lat_sum + Number(w[2])]

MeasureStep(a, word) == Scan(a, word, 3, Measured, UseMeasure)

\* The measures are the groups of three words up to the first that is not one;
\* what stands after it is not in the report.
MeasureMatches(read, a) ==
  LET G == Groups(read, 3, Measured)
      Taken == {k \in DOMAIN G : \E v \in G[k][2].num : v >= 0}
      Latency == [k \in DOMAIN G |-> Number(G[k][2])]
  IN /\ a.n.total = Cardinality(Taken)
     /\ a.n.errors = Cardinality({k \in Taken : \E v \in G[k][3].num : v >= 500})
     /\ a.n.lat_sum = TotalOver(Latency, Taken)

-----------------------------------------------------------------------------
(* e06: secrets, name | scope | ttl | rotation.                            *)

SecretStart == Zero({"valid", "invalid", "global", "rotatable"})

ValidSecret(f) ==
  /\ Len(f) = 4
  /\ f[1].name
  /\ f[2].text \in {"global", "service", "tenant"}
  /\ InRange(f[3], MinTtl, MaxTtl)
  /\ f[4].text \in {"yes", "no"}

SecretStep(a, pieces) ==
  LET f == Fields(pieces) IN
    IF ~ValidSecret(f) THEN Bump(a, {"invalid"})
    ELSE Bump(a, {"valid"} \union If(f[2].text = "global", {"global"})
                           \union If(f[4].text = "yes", {"rotatable"}))

\* Only valid secrets are global or rotatable.
SecretMatches(read, a) ==
  LET Good(l) == /\ Cardinality(Filled(l)) = 4
                 /\ l[Nth(l, 1)].name /\ InRange(l[Nth(l, 3)], MinTtl, MaxTtl)
                 /\ l[Nth(l, 2)].text \in {"global", "service", "tenant"}
                 /\ l[Nth(l, 4)].text \in {"yes", "no"}
  IN /\ a.valid + a.invalid = Len(read) /\ a.valid = Count(read, Good)
     /\ a.global = Count(read, LAMBDA l : Good(l) /\ l[Nth(l, 2)].text = "global")
     /\ a.rotatable = Count(read, LAMBDA l : Good(l) /\ l[Nth(l, 4)].text = "yes")

-----------------------------------------------------------------------------
(* e07: jobs, name | image | cpu | memory | timeout; memory and timeout    *)
(* are checked like cpu.                                                   *)

JobStart == Zero({"valid", "invalid", "heavy"})

ValidJob(f) ==
  /\ Len(f) = 5
  /\ f[1].name /\ f[2].name
  /\ InRange(f[3], MinCpu, MostCpu)
  /\ InRange(f[4], 64, 16384)
  /\ InRange(f[5], 5, 3600)

JobStep(a, pieces) ==
  LET f == Fields(pieces) IN
    IF ~ValidJob(f) THEN Bump(a, {"invalid"})
    ELSE Bump(a, {"valid"} \union
           If(InRange(f[3], HeavyCpu, MostCpu) \/ InRange(f[4], 4096, 16384), {"heavy"}))

\* A heavy job is a valid one with much of one or of both.
JobMatches(read, a) ==
  LET Good(l) == /\ Cardinality(Filled(l)) = 5 /\ l[Nth(l, 1)].name /\ l[Nth(l, 2)].name
                 /\ InRange(l[Nth(l, 3)], MinCpu, MostCpu)
                 /\ InRange(l[Nth(l, 4)], 64, 16384) /\ InRange(l[Nth(l, 5)], 5, 3600)
      Much(l) == \/ \E v \in l[Nth(l, 3)].num : v >= HeavyCpu
                 \/ \E v \in l[Nth(l, 4)].num : v >= 4096
  IN /\ a.valid + a.invalid = Len(read) /\ a.valid = Count(read, Good)
     /\ a.heavy = Count(read, LAMBDA l : Good(l) /\ Much(l))

-----------------------------------------------------------------------------
(* e08: events, time service event result latency, by fscanf.              *)

EventsStart == Scanner(Zero({"total", "publish", "consume", "retry", "errors", "max_lat"}))

Timed(i) == i = 5

UseEvent(n, w) ==
  [Bump(n, {"total"} \union ({w[3].text} \cap {"publish", "consume", "retry"})
                     \union If(w[4].text # "ok", {"errors"}))
   EXCEPT !.max_lat = IF Number(w[5]) > @ THEN Number(w[5]) ELSE @]

EventsStep(a, word) == Scan(a, word, 5, Timed, UseEvent)

\* The largest latency is never below 0, and an event is counted by its third
\* word wherever the lines end.
EventsMatches(read, a) ==
  LET G == Groups(read, 5, Timed) IN
    /\ a.n.total = Len(G)
    /\ \A e \in {"publish", "consume", "retry"} : a.n[e] = Count(G, LAMBDA w : w[3].text = e)
    /\ a.n.errors = Count(G, LAMBDA w : w[4].text # "ok")
    /\ a.n.max_lat = Max({0} \union UNION {w[5].num : w \in ToSet(G)})

-----------------------------------------------------------------------------
(* e09: the audit of the policy.  The number of a key is cut to an int.    *)

PolicyRange ==
  [tls_required |-> 1 .. 1, mtls_internal |-> 1 .. 1, secrets_rotation_days |-> 1 .. 90,
   audit_logs |-> 1 .. 1, backup_enabled |-> 1 .. 1, health_interval_sec |-> 5 .. 120]

\* A number or none.
PolicyLine(l) == Parsed(l.val, Int)

PolicyStart == [k \in DOMAIN PolicyRange |-> {}]

\* A slip of PolicyStep: a key that is set stays as it was set first.
PolicyStepFirst(a, l) ==
  IF l.key \notin DOMAIN PolicyRange \/ l.val = {} \/ a[l.key] # {} THEN a
  ELSE [a EXCEPT ![l.key] = {ToInt(v, IntBits) : v \in l.val}]

PolicyStep(a, l) ==
  IF l.key \notin DOMAIN PolicyRange \/ l.val = {} THEN a
  ELSE [a EXCEPT ![l.key] = {ToInt(v, IntBits) : v \in l.val}]

PolicyFail(a) == Cardinality({k \in DOMAIN a : a[k] \cap PolicyRange[k] = {}})

PolicyStatus(a) ==
  CASE PolicyFail(a) >= 3 -> "CRIT" [] PolicyFail(a) \in 1 .. 2 -> "WARN" [] OTHER -> "OK"

\* The last number of each key decides, up to multiples of 2^IntBits: a number
\* too large for an int may pass.
PolicyMatches(read, a) ==
  LET Passes(k) == \E l \in LastOf(read, LAMBDA m : m.key = k /\ m.val # {}) :
                     \E v \in l.val, p \in PolicyRange[k] : (v - p) % 2^IntBits = 0
      Failing == {k \in DOMAIN PolicyRange : ~Passes(k)}
  IN /\ PolicyStatus(a) = "OK" <=> Failing = {}
     /\ PolicyStatus(a) = "CRIT" <=> Cardinality(Failing) >= 3
-----------------------------------------------------------------------------
(***************************************************************************)
(* MiniCloud as five commands (bloque12/proyecto-final), each of which     *)
(* reads its files once and reports.  Two of them read two files; a line   *)
(* says which one it is of, and as each file has its own counters it does  *)
(* not matter that the program reads one after the other.                  *)
(***************************************************************************)

(* The registry: service | host | port | protocol | path | status.         *)

EntryStart == Zero({"valid", "invalid", "up", "down", "secure"})

ValidEntry(f) ==
  /\ Len(f) = 6
  /\ f[1].name /\ f[2].name
  /\ InRange(f[3], 1, MaxPort)
  /\ f[4].text \in {"tcp", "http", "https"}
  /\ f[5].text = "/path"
  /\ f[6].text \in {"up", "down"}

EntryStep(a, pieces) ==
  LET f == Fields(pieces) IN
    IF ~ValidEntry(f) THEN Bump(a, {"invalid"})
    ELSE Bump(a, {"valid", f[6].text} \union If(f[4].text = "https", {"secure"}))

RegistryReady(a) == a.invalid = 0 /\ a.up >= 3

\* Ready while every line is a contract and three of them are up; no number
\* of services that are up makes good for one broken line.
EntryMatches(read, a) ==
  LET Good(l) == /\ Cardinality(Filled(l)) = 6
                 /\ l[Nth(l, 1)].name /\ l[Nth(l, 2)].name
                 /\ InRange(l[Nth(l, 3)], 1, MaxPort)
                 /\ l[Nth(l, 4)].text \in {"tcp", "http", "https"}
                 /\ l[Nth(l, 5)].text = "/path"
                 /\ l[Nth(l, 6)].text \in {"up", "down"}
  IN /\ a.valid + a.invalid = Len(read)
     /\ a.valid = a.up + a.down
     /\ a.secure = Count(read, LAMBDA l : Good(l) /\ l[Nth(l, 4)].text = "https")
     /\ RegistryReady(a) <=>
          /\ \A l \in ToSet(read) : Good(l)
          /\ Count(read, LAMBDA l : l[Nth(l, 6)].text = "up") >= 3

-----------------------------------------------------------------------------
(* The gateway: the plan of e03 with other tables; of a route that answers *)
(* it prints the prefix and the backend.                                   *)

RouterStart == PlanStart

RouterStep(a, l) == PlanStep(a, l)

Router(a) ==
  [plan |-> Plan(a),
   prefix |-> {r.len : r \in If(Plan(a) = "ok", MatchRoute(a.routes))}]

\* A backend that is down hides every shorter route, though they answer: what is
\* printed is the longest prefix that found place in the table, or nothing.
RouterMatches(read, a) ==
  LET Placed == {i \in DOMAIN read :
                   /\ read[i].kind = "route" /\ read[i].len > 0
                   /\ Cardinality({j \in 1 .. i : read[j].kind = "route"}) <= MaxRoutes}
      Top == {read[i].len : i \in Placed}
  IN /\ PlanMatches(read, a)
     /\ Router(a).plan = "ok" => Router(a).prefix = {Max(Top)}
     /\ Router(a).plan # "ok" => Router(a).prefix = {}

-----------------------------------------------------------------------------
(* The vault: secret | scope | ttl | rotation | reference; and --get, which *)
(* looks for one secret in the same file and checks nothing else of a line. *)

Needle == "db"

ManifestStart == [stats |-> Zero({"valid", "invalid", "rotatable"}), ref |-> {}]

ValidManifest(f) == Len(f) = 5 /\ ValidSecret(SubSeq(f, 1, 4)) /\ f[5].name

CountManifest(stats, f) ==
  IF ~ValidManifest(f) THEN Bump(stats, {"invalid"})
  ELSE Bump(stats, {"valid"} \union If(f[4].text = "yes", {"rotatable"}))

\* A slip of FindRef: the last line with the name is taken.
FindRefLast(ref, f) ==
  IF Len(f) < 5 \/ f[1].text # Needle THEN ref ELSE {f[5].text}

FindRef(ref, f) ==
  IF ref # {} \/ Len(f) < 5 \/ f[1].text # Needle THEN ref ELSE {f[5].text}

ManifestStep(a, pieces) ==
  LET f == Fields(pieces) IN
    [stats |-> CountManifest(a.stats, f), ref |-> FindRef(a.ref, f)]

VaultReady(a) == a.stats.invalid = 0 /\ a.stats.valid >= 3

\* The reference is that of the first line with the name and enough fields; it may
\* be one the manifest calls invalid, but not while the vault is ready.
ManifestMatches(read, a) ==
  LET Has(i) == /\ Cardinality(Filled(read[i])) >= 5
                /\ read[i][Nth(read[i], 1)].text = Needle
      First == {i \in DOMAIN read : Has(i) /\ \A j \in 1 .. i - 1 : ~Has(j)}
  IN /\ a.stats.valid + a.stats.invalid = Len(read)
     /\ a.stats.rotatable <= a.stats.valid
     /\ a.ref = {read[i][Nth(read[i], 5)].text : i \in First}
     /\ VaultReady(a) => \A i \in First : ValidManifest(Fields(read[i]))
     /\ VaultReady(a) <=> Len(read) >= 3 /\ \A l \in ToSet(read) : ValidManifest(Fields(l))

-----------------------------------------------------------------------------
(* The runner: a file of jobs, and one of the capacity they are to find.   *)

CapacityKey == {"cpu_free_milli", "mem_free_mb", "max_parallel_jobs"}

\* The most a key of the capacity may offer.
MostFree == 1000000

\* A line is of the one file or of the other.
DemandLine(l) ==
  /\ l.of \in {"jobs", "capacity"}
  /\ l.of = "jobs" => PiecesLine(l.pieces)
  /\ l.of = "capacity" => Parsed(l.num, Int)

DemandStart ==
  [valid |-> 0, invalid |-> 0, cpu_needed |-> 0, mem_needed |-> 0,
   cap |-> [k \in CapacityKey |-> {}]]

Demand(a, f) ==
  IF ~ValidJob(f) THEN [a EXCEPT !.invalid = @ + 1]
  ELSE [a EXCEPT !.valid = @ + 1, !.cpu_needed = @ + Number(f[3]),
                 !.mem_needed = @ + Number(f[4])]

\* Numbers out of range and unknown keys are passed over.
Provide(cap, l) ==
  IF l.key \notin CapacityKey \/ ~InRange(l, 1, MostFree) THEN cap
  ELSE [cap EXCEPT ![l.key] = l.num]

DemandStep(a, l) ==
  IF l.of = "jobs" THEN Demand(a, Fields(l.pieces)) ELSE [a EXCEPT !.cap = Provide(@, l)]

Complete(a) == \A k \in CapacityKey : a.cap[k] # {}

Capacity(a, k) == CHOOSE v \in a.cap[k] : TRUE

\* All the jobs are admitted together, or none.
Admitted(a) ==
  IF /\ a.valid <= Capacity(a, "max_parallel_jobs")
     /\ a.cpu_needed <= Capacity(a, "cpu_free_milli")
     /\ a.mem_needed <= Capacity(a, "mem_free_mb")
  THEN a.valid ELSE 0

RunnerReady(a) == Complete(a) /\ a.invalid = 0 /\ Admitted(a) = a.valid

\* Ready when every line is a job and all of them fit what the last good line of
\* each key offers; a file without jobs fits everywhere.
DemandMatches(read, a) ==
  LET Jobs == {i \in DOMAIN read : read[i].of = "jobs"}
      F(i) == Fields(read[i].pieces)
      Good == {i \in Jobs : ValidJob(F(i))}
      Sum(k) == TotalOver([i \in Good |-> Number(F(i)[k])], Good)
      Offered(k) == UNION {l.num : l \in LastOf(read, LAMBDA m :
                      m.of = "capacity" /\ m.key = k /\ InRange(m, 1, MostFree))}
      Fits(k, n) == \E v \in Offered(k) : n <= v
  IN /\ Complete(a) <=> \A k \in CapacityKey : Offered(k) # {}
     /\ Complete(a) => Admitted(a) \in {0, Cardinality(Good)}
     /\ RunnerReady(a) <=>
          /\ Jobs = Good
          /\ Fits("max_parallel_jobs", Cardinality(Good))
          /\ Fits("cpu_free_milli", Sum(3)) /\ Fits("mem_free_mb", Sum(4))

-----------------------------------------------------------------------------
(* The monitor: a file of measures and one of events, both by fscanf; a    *)
(* line is the words of it.                                                *)

ObservedLine(l) == l.of \in {"metrics", "events"} /\ PiecesLine(l.words)

ObservedStart ==
  [metrics |-> MeasureStart, events |-> Scanner(Zero({"retries", "max_lat"}))]

UseObserved(n, w) ==
  [retries |-> n.retries + If01(w[3].text = "retry"),
   max_lat |-> IF Number(w[5]) > n.max_lat THEN Number(w[5]) ELSE n.max_lat]

LookAtEvent(a, word) == Scan(a, word, 5, Timed, UseObserved)

ObservedStep(a, l) ==
  IF l.of = "metrics" THEN [a EXCEPT !.metrics = FoldLeft(MeasureStep, @, l.words)]
  ELSE [a EXCEPT !.events = FoldLeft(LookAtEvent, @, l.words)]

\* A share of errors in percent, of none when nothing was measured.
ErrorsReach(m, percent) == m.total > 0 /\ 100 * m.errors >= percent * m.total

Observed(a) ==
  LET m == a.metrics.n  e == a.events.n IN
    IF ErrorsReach(m, 20) \/ e.max_lat >= 500 THEN "CRIT"
    ELSE IF ErrorsReach(m, 5) \/ e.retries >= 1 THEN "WARN" ELSE "OK"

\* The words of one of the files, line after line.
WordsOf(read, of) ==
  FoldLeft(LAMBDA w, l : IF l.of = of THEN w \o l.words ELSE w, <<>>, read)

\* The worse of what the two files say: one slow event is critical whatever was
\* measured, and what stands behind a broken group is not looked at.
ObservedMatches(read, a) ==
  LET G == Groups(WordsOf(read, "metrics"), 3, Measured)
      Taken == {k \in DOMAIN G : \E v \in G[k][2].num : v >= 0}
      Bad == {k \in Taken : \E v \in G[k][3].num : v >= 500}
      E == Groups(WordsOf(read, "events"), 5, Timed)
      Slow == \E w \in ToSet(E) : \E v \in w[5].num : v >= 500
      Retried == \E w \in ToSet(E) : w[3].text = "retry"
  IN /\ Observed(a) = "CRIT" <=>
          Slow \/ (Bad # {} /\ 5 * Cardinality(Bad) >= Cardinality(Taken))
     /\ Observed(a) = "OK" <=>
          /\ ~Slow /\ ~Retried
          /\ Taken = {} \/ 20 * Cardinality(Bad) < Cardinality(Taken)
=============================================================================
