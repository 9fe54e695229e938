------------------------------ MODULE Capacity ------------------------------
(***************************************************************************)
(* minicloud-runner (HTTP): the capacity file and the decision on a /run   *)
(* request, as functions of the server's memory.                           *)
(*                                                                         *)
(* A line of the file is [key, value]: a comment, a blank line, a line     *)
(* without '=' or an unknown key has a key outside CapacityKeys, and a     *)
(* value the parser refuses (text, a sign, out of range) is a value        *)
(* outside CapacityRange.  A /run request is [complete, cpu, mem, timeout, *)
(* secret, job]: "complete" says that the five parameters are in the query *)
(* string, the numbers are what the parser reads (a refused text is any    *)
(* number outside the limits), "secret" and "job" are lengths.             *)
(*                                                                         *)
(* The lemmas that follow say what these operators return and preserve,    *)
(* for every file that loads, every memory and every request.  The last    *)
(* ones are about sums over a finite set, which the specifications write   *)
(* with MapThenSumSet: what has been booked adds up element by element.    *)
(***************************************************************************)
EXTENDS Integers, Sequences, FiniteSetTheorems, WellFoundedInduction, TLAPS

CapacityKeys == {"cpu_free_milli", "mem_free_mb", "max_parallel_jobs"}
MaxCapacity == 1000000
CapacityRange == 1 .. MaxCapacity

Sets(file, k, i) == file[i].key = k /\ file[i].value \in CapacityRange

\* The line that decides key k: the last valid one overwrites the others.
LastSets(file, k, i) ==
  /\ Sets(file, k, i)
  /\ \A j \in DOMAIN file : j > i => ~Sets(file, k, j)

\* 0 stands for a key that no valid line sets (its have_* flag stays 0).
LoadCapacity(file) ==
  [k \in CapacityKeys |->
     IF \E i \in DOMAIN file : LastSets(file, k, i)
     THEN file[CHOOSE i \in DOMAIN file : LastSets(file, k, i)].value
     ELSE 0]

\* load_capacity returns 0 only when the three keys were set.
Loaded(file) == \A k \in CapacityKeys : LoadCapacity(file)[k] # 0

\* capacity_t and runtime_t: capacity never goes below zero.
RunnerMemory ==
  [cpu_free : Nat, mem_free : Nat, max_jobs : Nat, accepted : Nat,
   rejected : Nat]

\* The memory of a runner that has just started serving.
FreshRunner(file) ==
  [cpu_free |-> LoadCapacity(file)["cpu_free_milli"],
   mem_free |-> LoadCapacity(file)["mem_free_mb"],
   max_jobs |-> LoadCapacity(file)["max_parallel_jobs"],
   accepted |-> 0,
   rejected |-> 0]

-----------------------------------------------------------------------------

\* What query_get finds in the target of a request; "complete" says that it finds
\* every parameter.
RunRequest ==
  [complete : BOOLEAN, cpu : Int, mem : Int, timeout : Int, secret : Nat,
   job : Nat]

\* The limits of one job: thousandths of a CPU, megabytes, seconds.
MaxCpu == 4000
MaxMem == 16384
MaxTimeout == 3600

InvalidLimits(q) ==
  \/ q.cpu \notin 50 .. MaxCpu
  \/ q.mem \notin 64 .. MaxMem
  \/ q.timeout \notin 5 .. MaxTimeout
  \/ q.secret < 3
  \/ q.job < 3

\* Slips of NoCapacity: no look at the memory; one job too many.
NoCapacityCpuOnly(m, q) == m.accepted >= m.max_jobs \/ q.cpu > m.cpu_free

NoCapacityLate(m, q) ==
  m.accepted > m.max_jobs \/ q.cpu > m.cpu_free \/ q.mem > m.mem_free

NoCapacity(m, q) ==
  \/ m.accepted >= m.max_jobs
  \/ q.cpu > m.cpu_free
  \/ q.mem > m.mem_free

Verdicts == {"bad_params", "invalid_limits", "no_capacity", "accept"}

Verdict(m, q) ==
  IF ~q.complete THEN "bad_params"
  ELSE IF InvalidLimits(q) THEN "invalid_limits"
  ELSE IF NoCapacity(m, q) THEN "no_capacity"
  ELSE "accept"

\* A slip of Book: the memory is not taken.
BookCpuOnly(m, q) == [m EXCEPT !.cpu_free = @ - q.cpu, !.accepted = @ + 1]

\* The booking of an accepted job, made before the reply is sent.
Book(m, q) ==
  [m EXCEPT !.cpu_free = @ - q.cpu,
            !.mem_free = @ - q.mem,
            !.accepted = @ + 1]

AfterRun(m, q) ==
  IF Verdict(m, q) = "accept" THEN Book(m, q)
                              ELSE [m EXCEPT !.rejected = @ + 1]

\* A slip of StatusOfVerdict: 202, as the monitor answers, for an accepted job.
StatusOfVerdictAck(v) ==
  IF v = "accept" THEN 202 ELSE IF v = "no_capacity" THEN 409 ELSE 400

StatusOfVerdict(v) ==
  IF v = "accept" THEN 200 ELSE IF v = "no_capacity" THEN 409 ELSE 400

-----------------------------------------------------------------------------

\* What a loaded file gives for each key is a positive number, of the range
\* the parser accepts.
LEMMA LoadedValues ==
  ASSUME NEW file, Loaded(file), NEW k \in CapacityKeys
  PROVE  LoadCapacity(file)[k] \in Nat \ {0}
<1> DEFINE i == CHOOSE i \in DOMAIN file : LastSets(file, k, i)
<1>1. LoadCapacity(file)[k] # 0
  BY DEF Loaded
<1>2. \E j \in DOMAIN file : LastSets(file, k, j)
  BY <1>1 DEF LoadCapacity
<1>3. i \in DOMAIN file /\ LastSets(file, k, i)
  BY <1>2
<1>4. LoadCapacity(file)[k] = file[i].value
  BY <1>2 DEF LoadCapacity
<1>5. LoadCapacity(file)[k] \in CapacityRange
  BY <1>3, <1>4 DEF LastSets, Sets
<1>. QED
  BY <1>5, SMT DEF CapacityRange

\* A runner that has just started has the file's capacity and no jobs.
LEMMA FreshIsRunnerMemory ==
  ASSUME NEW file, Loaded(file)
  PROVE  FreshRunner(file) \in RunnerMemory
BY LoadedValues DEF FreshRunner, RunnerMemory, CapacityKeys

\* A verdict is always one of the four the handler can print.
LEMMA VerdictType == \A m, q : Verdict(m, q) \in Verdicts
BY DEF Verdict, Verdicts

\* An accepted request fits and asks for something.
LEMMA AcceptedFits ==
  ASSUME NEW m \in RunnerMemory, NEW q \in RunRequest,
         Verdict(m, q) = "accept"
  PROVE  /\ q.cpu \in Nat \ {0}
         /\ q.mem \in Nat \ {0}
         /\ q.cpu <= m.cpu_free
         /\ q.mem <= m.mem_free
         /\ m.accepted < m.max_jobs
BY DEF RunRequest, Verdict, InvalidLimits, NoCapacity, RunnerMemory

\* What a booking does to each field of the memory.
LEMMA BookFields ==
  ASSUME NEW m \in RunnerMemory, NEW q \in RunRequest,
         Verdict(m, q) = "accept"
  PROVE  /\ Book(m, q) \in RunnerMemory
         /\ Book(m, q).cpu_free = m.cpu_free - q.cpu
         /\ Book(m, q).mem_free = m.mem_free - q.mem
         /\ Book(m, q).accepted = m.accepted + 1
         /\ Book(m, q).max_jobs = m.max_jobs
<1> DEFINE c == m.cpu_free - q.cpu
           d == m.mem_free - q.mem
           e == m.accepted + 1
<1>1. c \in Nat /\ d \in Nat /\ e \in Nat
  BY AcceptedFits DEF RunnerMemory
<1>2. Book(m, q) = [m EXCEPT !.cpu_free = c, !.mem_free = d, !.accepted = e]
  BY DEF Book
<1> HIDE DEF c, d, e
<1>3. /\ Book(m, q) \in RunnerMemory
      /\ Book(m, q).cpu_free = c
      /\ Book(m, q).mem_free = d
      /\ Book(m, q).accepted = e
      /\ Book(m, q).max_jobs = m.max_jobs
  BY <1>1, <1>2 DEF RunnerMemory
<1>. QED
  BY <1>3 DEF c, d, e

\* A rejection only counts itself.
LEMMA RejectFields ==
  ASSUME NEW m \in RunnerMemory, NEW q, Verdict(m, q) # "accept"
  PROVE  /\ AfterRun(m, q) \in RunnerMemory
         /\ AfterRun(m, q).cpu_free = m.cpu_free
         /\ AfterRun(m, q).mem_free = m.mem_free
         /\ AfterRun(m, q).accepted = m.accepted
         /\ AfterRun(m, q).max_jobs = m.max_jobs
BY DEF AfterRun, RunnerMemory

\* The handler of /run keeps the memory of its type.
LEMMA AfterRunType ==
  ASSUME NEW m \in RunnerMemory, NEW q \in RunRequest
  PROVE  AfterRun(m, q) \in RunnerMemory
BY BookFields, RejectFields DEF AfterRun

-----------------------------------------------------------------------------

\* A set of natural numbers that is not empty has a least element.
LEMMA Least ==
  ASSUME NEW N \in SUBSET Nat, N # {}
  PROVE  \E n \in N : \A m \in N : n <= m
<1> DEFINE R == {p \in Nat \X Nat : p[1] < p[2]}
<1>1. \E n \in N : \A m \in N : ~ (<<m, n>> \in R)
  <2>1. IsWellFoundedOn(R, Nat)
    BY NatLessThanWellFounded DEF OpToRel
  <2> HIDE DEF R
  <2>. QED
    BY <2>1, WFMin
<1>2. PICK n \in N : \A m \in N : ~ (<<m, n>> \in R)
  BY <1>1
<1>3. ASSUME NEW m \in N PROVE n <= m
  <2>1. m \in Nat /\ n \in Nat /\ ~(<<m, n>> \in R)
    BY <1>2
  <2>. QED
    BY <2>1
<1>. QED
  BY <1>3

\* A set of subsets of a finite set has one with the fewest elements.
LEMMA Smallest ==
  ASSUME NEW S, IsFiniteSet(S), NEW F \in SUBSET (SUBSET S), F # {}
  PROVE  \E T \in F : \A U \in F : Cardinality(T) <= Cardinality(U)
<1> DEFINE N == {Cardinality(T) : T \in F}
<1>1. \A T \in F : Cardinality(T) \in Nat
  BY FS_Subset, FS_CardinalityType
<1>2. N \in SUBSET Nat /\ N # {}
  BY <1>1
<1>3. PICK n \in N : \A m \in N : n <= m
  <2> HIDE DEF N
  <2>. QED
    BY <1>2, Least
<1>. QED
  BY <1>3

\* What the elements of S count together, h[x] each: the pairs of an element and one of
\* its units.
Units(h, S) == {u \in S \X Nat : u[2] < h[u[1]]}
SumsUp(g, h, S) ==
  g = [s \in SUBSET S |->
         IF s = {} THEN 0
         ELSE h[CHOOSE x \in s : TRUE] + g[s \ {CHOOSE x \in s : TRUE}]]
Total(h, S) == Cardinality(Units(h, S))

\* One element more brings its own units.
LEMMA UnitsOfOneMore ==
  ASSUME NEW h, NEW S, NEW y, y \notin S, h[y] \in Nat, IsFiniteSet(Units(h, S))
  PROVE  /\ IsFiniteSet(Units(h, S \union {y}))
         /\ Total(h, S \union {y}) = Total(h, S) + h[y]
<1> DEFINE n == h[y]
           I == 0 .. n - 1
           V == {y} \X I
<1>0. n \in Nat
  OBVIOUS
<1>1. IsFiniteSet(V) /\ Cardinality(V) = n
  <2> HIDE DEF n
  <2>0. 0 \in Int /\ n - 1 \in Int
    BY <1>0
  <2>3. IsFiniteSet(I) /\ Cardinality(I) = IF 0 > n - 1 THEN 0 ELSE n - 1 - 0 + 1
    BY ONLY <2>0, FS_Interval
  <2>1. IsFiniteSet(I) /\ Cardinality(I) = n
    BY <1>0, <2>3
  <2>2. IsFiniteSet({y}) /\ Cardinality({y}) = 1
    BY FS_Singleton
  <2> HIDE DEF I
  <2>4. Cardinality(V) = 1 * n /\ IsFiniteSet(V)
    BY <2>1, <2>2, FS_Product
  <2>. QED
    BY <1>0, <2>4
<1>2. Units(h, S \union {y}) = Units(h, S) \union V /\ Units(h, S) \intersect V = {}
  BY <1>0 DEF Units
<1> HIDE DEF V
<1>3. Cardinality(Units(h, S) \intersect V) = 0
  BY <1>2, FS_EmptySet
<1>4. Cardinality(Units(h, S)) \in Nat
  BY FS_CardinalityType
<1> HIDE DEF n
<1>5. /\ IsFiniteSet(Units(h, S) \union V)
      /\ Cardinality(Units(h, S) \union V) = Cardinality(Units(h, S)) + n - 0
  BY <1>1, <1>3, FS_Union
<1>. QED
  BY <1>0, <1>2, <1>4, <1>5 DEF Total, n

\* A finite set without one of its elements has fewer of them.
LEMMA OneFewer ==
  ASSUME NEW S, IsFiniteSet(S), NEW y \in S
  PROVE  /\ IsFiniteSet(S \ {y}) /\ S = (S \ {y}) \union {y}
         /\ ~(Cardinality(S) <= Cardinality(S \ {y}))
<1>1. IsFiniteSet(S \ {y}) /\ Cardinality(S \ {y}) = Cardinality(S) - 1
  BY FS_RemoveElement
<1>2. Cardinality(S) \in Nat
  BY FS_CardinalityType
<1>. QED
  BY <1>1, <1>2

\* Finitely many elements that count finitely much have finitely many units.
LEMMA UnitsAreFinite ==
  ASSUME NEW S, IsFiniteSet(S), NEW h, \A x \in S : h[x] \in Nat
  PROVE  IsFiniteSet(Units(h, S))
<1> DEFINE F == {T \in SUBSET S : ~IsFiniteSet(Units(h, T))}
<1>1. SUFFICES ASSUME F # {} PROVE FALSE
  OBVIOUS
<1>2. PICK T \in F : \A U \in F : Cardinality(T) <= Cardinality(U)
  <2>1. F \in SUBSET (SUBSET S)
    OBVIOUS
  <2> HIDE DEF F
  <2>. QED
    BY <1>1, <2>1, Smallest
<1>3. T # {}
  <2>1. Units(h, {}) = {}
    BY DEF Units
  <2>. QED
    BY <2>1, FS_EmptySet
<1>4. PICK y \in T : TRUE
  BY <1>3
<1> DEFINE U == T \ {y}
<1>5. IsFiniteSet(T) /\ U \in SUBSET S /\ T = U \union {y} /\ y \notin U /\ h[y] \in Nat
  BY FS_Subset
<1>6. ~(Cardinality(T) <= Cardinality(U))
  BY <1>5, OneFewer
<1>7. IsFiniteSet(Units(h, U))
  BY <1>2, <1>5, <1>6
<1> HIDE DEF U
<1>8. IsFiniteSet(Units(h, U \union {y}))
  BY <1>5, <1>7, UnitsOfOneMore
<1>. QED
  BY <1>5, <1>8

\* The total is a natural number, nothing for no element, and grows with each element
\* by what that element counts.
LEMMA TotalFacts ==
  ASSUME NEW S, IsFiniteSet(S), NEW h, \A x \in S : h[x] \in Nat
  PROVE  /\ Total(h, S) \in Nat
         /\ Total(h, {}) = 0
         /\ \A T \in SUBSET S : \A y \in S \ T : Total(h, T \union {y}) = Total(h, T) + h[y]
<1>1. \A T \in SUBSET S : IsFiniteSet(Units(h, T))
  BY UnitsAreFinite, FS_Subset
<1>2. Units(h, {}) = {}
  BY DEF Units
<1>. QED
  BY <1>1, <1>2, FS_EmptySet, FS_CardinalityType, UnitsOfOneMore DEF Total

\* Whatever adds up h over the subsets of S by taking one element after the other, as
\* MapThenFoldSet does, gives the total.
LEMMA SumIsTotal ==
  ASSUME NEW S, IsFiniteSet(S), NEW h, \A x \in S : h[x] \in Nat,
         NEW g, SumsUp(g, h, S)
  PROVE  g[S] = Total(h, S)
<1> DEFINE F == {T \in SUBSET S : g[T] # Total(h, T)}
<1>1. SUFFICES ASSUME F # {} PROVE FALSE
  OBVIOUS
<1>2. PICK T \in F : \A U \in F : Cardinality(T) <= Cardinality(U)
  <2>1. F \in SUBSET (SUBSET S)
    OBVIOUS
  <2> HIDE DEF F
  <2>. QED
    BY <1>1, <2>1, Smallest
<1>3. T # {}
  BY TotalFacts DEF SumsUp
<1> DEFINE y == CHOOSE x \in T : TRUE
           U == T \ {y}
<1>4. y \in T /\ IsFiniteSet(T) /\ U \in SUBSET S /\ T = U \union {y} /\ y \notin U
  BY <1>3, FS_Subset
<1>5. g[T] = h[y] + g[U]
  BY <1>3 DEF SumsUp
<1> HIDE DEF y
<1>6. ~(Cardinality(T) <= Cardinality(U))
  BY <1>4, OneFewer
<1>7. g[U] = Total(h, U)
  BY <1>2, <1>4, <1>6
<1> HIDE DEF U
<1>8. Total(h, U \union {y}) = Total(h, U) + h[y]
  BY <1>4, TotalFacts
<1>9. Total(h, U) \in Nat /\ h[y] \in Nat
  BY <1>4, TotalFacts, FS_Subset
<1>. QED
  BY <1>4, <1>5, <1>7, <1>8, <1>9

\* There is a function that adds up h in this way.
LEMMA TotalIsSum ==
  ASSUME NEW S, IsFiniteSet(S), NEW h, \A x \in S : h[x] \in Nat
  PROVE  \E g : SumsUp(g, h, S)
<1> DEFINE g == [s \in SUBSET S |-> Total(h, s)]
<1>1. ASSUME NEW s \in SUBSET S
      PROVE  Total(h, s) = IF s = {} THEN 0
                     ELSE h[CHOOSE x \in s : TRUE] + g[s \ {CHOOSE x \in s : TRUE}]
  <2>1. CASE s = {}
    BY <2>1, TotalFacts
  <2>2. CASE s # {}
    <3> DEFINE y == CHOOSE x \in s : TRUE
               U == s \ {y}
    <3>1. y \in s /\ U \in SUBSET S /\ s = U \union {y} /\ y \notin U /\ y \in S
      BY <2>2
    <3>2. g[U] = Total(h, U)
      BY <3>1
    <3> HIDE DEF y, U
    <3>3. Total(h, U \union {y}) = Total(h, U) + h[y]
      BY <3>1, TotalFacts
    <3>5. Total(h, U) \in Nat /\ h[y] \in Nat
      BY <3>1, TotalFacts, FS_Subset
    <3>4. Total(h, s) = h[y] + g[U]
      BY <3>1, <3>2, <3>3, <3>5
    <3>. QED
      BY <2>2, <3>4 DEF y, U
  <2>. QED
    BY <2>1, <2>2
<1>2. SumsUp(g, h, S)
  BY <1>1 DEF SumsUp
<1>. QED
  BY <1>2

\* The total depends on what the elements of S count and on nothing else.
LEMMA TotalSame ==
  ASSUME NEW S, NEW h, NEW k, \A x \in S : k[x] = h[x]
  PROVE  Total(k, S) = Total(h, S)
BY DEF Total, Units

\* The total of a finite set, with one element more and with one element less.
LEMMA TotalOfOneMore ==
  ASSUME NEW S, IsFiniteSet(S), NEW h, \A x \in S : h[x] \in Nat,
         NEW y, y \notin S, h[y] \in Nat
  PROVE  Total(h, S \union {y}) = Total(h, S) + h[y]
BY UnitsAreFinite, UnitsOfOneMore

\* When one element counts something else, the total changes by the difference.
LEMMA TotalChanges ==
  ASSUME NEW S, IsFiniteSet(S), NEW h, \A x \in S : h[x] \in Nat, NEW y \in S,
         NEW k, k[y] \in Nat, \A x \in S \ {y} : k[x] = h[x]
  PROVE  Total(k, S) = Total(h, S) - h[y] + k[y]
<1> DEFINE T == S \ {y}
<1>1. IsFiniteSet(T) /\ S = T \union {y} /\ y \notin T /\ T \in SUBSET S
  BY OneFewer
<1>2. (\A x \in T : h[x] \in Nat /\ k[x] = h[x]) /\ h[y] \in Nat
  OBVIOUS
<1> HIDE DEF T
<1>3. Total(h, T \union {y}) = Total(h, T) + h[y]
  BY <1>1, <1>2, TotalOfOneMore
<1>4. Total(k, T \union {y}) = Total(k, T) + k[y]
  BY <1>1, <1>2, TotalOfOneMore
<1>5. Total(k, T) = Total(h, T) /\ Total(h, T) \in Nat
  BY <1>1, <1>2, TotalSame, TotalFacts
<1>. QED
  BY <1>1, <1>2, <1>3, <1>4, <1>5

=============================================================================
