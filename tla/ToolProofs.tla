----------------------------- MODULE ToolProofs -----------------------------
(***************************************************************************)
(* Theorems about the readers of reports and configuration (Tools), for    *)
(* files of any length with any lines the parsers can make of them.        *)
(*                                                                         *)
(* Each reader has an invariant that ties what it remembers to the lines   *)
(* read so far: what a counter counts (Nr), which line was the last of its *)
(* kind (Latest), what a loop over the words of a line has found (IsRun).  *)
(* It holds before any line (...Starts), one more line keeps it            *)
(* (...Keeps), and it says that the report matches the file (...Tells).    *)
(***************************************************************************)
EXTENDS Tools, Capacity, SequenceTheorems

-----------------------------------------------------------------------------
(* Lines that have been read: how many there are of a kind, and which is    *)
(* the last.                                                                *)

\* The lines of s that are in Q: where they stand, and the last of them.
Where(s, Q) == {k \in DOMAIN s : s[k] \in Q}
Nr(s, Q) == Cardinality(Where(s, Q))
LastAt(s, Q, k) == \A j \in k + 1 .. Len(s) : s[j] \notin Q
Latest(s, Q) == {s[k] : k \in {k \in Where(s, Q) : LastAt(s, Q, k)}}

\* What Append does to the places of a sequence.
LEMMA AppendFacts ==
  ASSUME NEW X, NEW s \in Seq(X), NEW l \in X
  PROVE  /\ Append(s, l) \in Seq(X) /\ Len(s) \in Nat
         /\ DOMAIN s = 1 .. Len(s)
         /\ Len(Append(s, l)) = Len(s) + 1
         /\ DOMAIN Append(s, l) = 1 .. Len(s) + 1
         /\ DOMAIN Append(s, l) = DOMAIN s \union {Len(s) + 1}
         /\ Len(s) + 1 \notin DOMAIN s
         /\ Append(s, l)[Len(s) + 1] = l
         /\ \A k \in DOMAIN s : k \in Nat /\ k <= Len(s) /\ k # Len(s) + 1
                                /\ Append(s, l)[k] = s[k]
OBVIOUS

\* The places of a sequence are finitely many.
LEMMA PlacesAreFinite ==
  ASSUME NEW s, Len(s) \in Nat, DOMAIN s = 1 .. Len(s), NEW T \in SUBSET DOMAIN s
  PROVE  IsFiniteSet(T) /\ Cardinality(T) \in Nat /\ Cardinality(T) <= Len(s)
<1>1. 1 \in Int /\ Len(s) \in Int
  OBVIOUS
<1>2. IsFiniteSet(DOMAIN s) /\ Cardinality(DOMAIN s) = Len(s)
  <2>1. IsFiniteSet(1 .. Len(s)) /\ Cardinality(1 .. Len(s)) = IF 1 > Len(s) THEN 0 ELSE Len(s) - 1 + 1
    BY ONLY <1>1, FS_Interval
  <2>. QED
    BY <2>1
<1>3. IsFiniteSet(T) /\ Cardinality(T) <= Cardinality(DOMAIN s)
  BY <1>2, FS_Subset
<1>. QED
  BY <1>2, <1>3, FS_CardinalityType

\* A line more: one more of its kinds, and none of the others.
LEMMA NrStep ==
  ASSUME NEW X, NEW s \in Seq(X), NEW l \in X, NEW Q
  PROVE  /\ Nr(s, Q) \in Nat
         /\ Nr(Append(s, l), Q) = Nr(s, Q) + If01(l \in Q)
<1>0. Len(s) \in Nat /\ DOMAIN s = 1 .. Len(s) /\ Where(s, Q) \in SUBSET DOMAIN s
  BY AppendFacts DEF Where
<1>1. IsFiniteSet(Where(s, Q)) /\ Nr(s, Q) \in Nat
  BY <1>0, PlacesAreFinite DEF Nr
<1>2. CASE l \in Q
  <2>1. Where(Append(s, l), Q) = Where(s, Q) \union {Len(s) + 1} /\ Len(s) + 1 \notin Where(s, Q)
    BY <1>2, AppendFacts DEF Where
  <2>2. Cardinality(Where(Append(s, l), Q)) = Cardinality(Where(s, Q)) + 1
    BY <1>1, <2>1, FS_AddElement
  <2>. QED
    BY <1>1, <1>2, <2>2 DEF Nr, If01
<1>3. CASE l \notin Q
  <2>1. Where(Append(s, l), Q) = Where(s, Q)
    BY <1>3, AppendFacts DEF Where
  <2>. QED
    BY <1>1, <1>3, <2>1 DEF Nr, If01
<1>. QED
  BY <1>2, <1>3

\* Before any line there is none of any kind.
LEMMA NrStart == \A Q : Nr(<<>>, Q) = 0
<1>1. \A Q : Where(<<>>, Q) = {}
  BY DEF Where
<1>. QED
  BY <1>1, FS_EmptySet DEF Nr

\* The lines of a kind are at most those of a wider one, and are none when there is none.
LEMMA NrFacts ==
  ASSUME NEW X, NEW s \in Seq(X), NEW Q
  PROVE  /\ Nr(s, Q) \in Nat /\ Nr(s, Q) <= Len(s)
         /\ \A P \in SUBSET Q : Nr(s, P) <= Nr(s, Q)
         /\ Nr(s, Q) = 0 <=> \A k \in DOMAIN s : s[k] \notin Q
<1>0. Len(s) \in Nat /\ DOMAIN s = 1 .. Len(s) /\ Where(s, Q) \in SUBSET DOMAIN s
  BY DEF Where
<1>1. IsFiniteSet(Where(s, Q)) /\ Nr(s, Q) \in Nat /\ Nr(s, Q) <= Len(s)
  BY <1>0, PlacesAreFinite DEF Nr
<1>2. ASSUME NEW P \in SUBSET Q PROVE Nr(s, P) <= Nr(s, Q)
  <2>1. Where(s, P) \subseteq Where(s, Q)
    BY DEF Where
  <2>. QED
    BY <1>1, <2>1, FS_Subset DEF Nr
<1>3. Nr(s, Q) = 0 <=> Where(s, Q) = {}
  BY <1>1, FS_EmptySet DEF Nr
<1>. QED
  BY <1>1, <1>2, <1>3 DEF Where

\* The last line of a kind is the new one, if it is of that kind.
LEMMA LatestStep ==
  ASSUME NEW X, NEW s \in Seq(X), NEW l \in X, NEW Q
  PROVE  Latest(Append(s, l), Q) = IF l \in Q THEN {l} ELSE Latest(s, Q)
<1> DEFINE t == Append(s, l)
           n == Len(s)
<1>1. /\ n \in Nat /\ Len(t) = n + 1 /\ DOMAIN s = 1 .. n /\ DOMAIN t = 1 .. n + 1
      /\ t[n + 1] = l /\ \A k \in 1 .. n : t[k] = s[k]
  BY AppendFacts
<1> HIDE DEF t
<1>3. CASE l \in Q
  <2>1. ASSUME NEW k \in Where(t, Q), LastAt(t, Q, k) PROVE k = n + 1
    <3>1. k \in 1 .. n + 1
      BY <1>1 DEF Where
    <3>2. CASE k \in 1 .. n
      <4>1. n + 1 \in k + 1 .. Len(t)
        BY <1>1, <3>2
      <4>. QED
        BY <1>1, <1>3, <2>1, <4>1 DEF LastAt
    <3>. QED
      BY <1>1, <3>1, <3>2
  <2>2. n + 1 \in Where(t, Q) /\ LastAt(t, Q, n + 1)
    <3>1. n + 1 + 1 .. Len(t) = {}
      BY <1>1
    <3>. QED
      BY <1>1, <1>3, <3>1 DEF Where, LastAt
  <2>3. {k \in Where(t, Q) : LastAt(t, Q, k)} = {n + 1}
    BY <2>1, <2>2
  <2>4. Latest(t, Q) = {l}
    BY <1>1, <2>3 DEF Latest
  <2>. QED
    BY <1>3, <2>4 DEF t
<1>4. CASE l \notin Q
  <2>1. Where(t, Q) = Where(s, Q)
    BY <1>1, <1>4 DEF Where
  <2>2. ASSUME NEW k \in Where(s, Q) PROVE LastAt(t, Q, k) <=> LastAt(s, Q, k)
    <3>1. k \in 1 .. n
      BY <1>1 DEF Where
    <3>2. \A j \in k + 1 .. n + 1 : j \in k + 1 .. n \/ j = n + 1
      BY <1>1, <3>1
    <3>3. \A j \in k + 1 .. n : j \in k + 1 .. n + 1 /\ t[j] = s[j]
      BY <1>1, <3>1
    <3>. QED
      BY <1>1, <1>4, <3>2, <3>3 DEF LastAt
  <2>3. {k \in Where(t, Q) : LastAt(t, Q, k)} = {k \in Where(s, Q) : LastAt(s, Q, k)}
    BY <2>1, <2>2
  <2>4. \A k \in Where(s, Q) : t[k] = s[k]
    BY <1>1 DEF Where
  <2>5. Latest(t, Q) = Latest(s, Q)
    BY <2>3, <2>4 DEF Latest
  <2>. QED
    BY <1>4, <2>5 DEF t
<1>. QED
  BY <1>3, <1>4

\* Before any line there is no last one.
LEMMA LatestStart == \A Q : Latest(<<>>, Q) = {}
BY DEF Latest, Where

\* There is a last line of a kind unless there is no line of that kind.
LEMMA ToSetStep ==
  ASSUME NEW X, NEW s \in Seq(X), NEW l \in X
  PROVE  /\ ToSet(Append(s, l)) = ToSet(s) \union {l}
         /\ ToSet(s) \in SUBSET X
<1>1. \A k \in DOMAIN s : s[k] \in X
  OBVIOUS
<1>2. ToSet(s) \in SUBSET X
  BY <1>1 DEF ToSet
<1>. QED
  BY <1>2, AppendFacts DEF ToSet

\* Nothing has been read at first.
LEMMA ToSetStart == ToSet(<<>>) = {}
BY DEF ToSet

\* There is a last line of a kind unless there is none of that kind, and it is of that kind.
LEMMA LatestIs ==
  ASSUME NEW X, NEW s \in Seq(X), NEW Q
  PROVE  /\ \A m \in Latest(s, Q) : m \in Q /\ m \in ToSet(s)
         /\ Latest(s, Q) = {} <=> \A k \in DOMAIN s : s[k] \notin Q
<1> DEFINE n == Len(s)
           W == Where(s, Q)
           D == {n - k : k \in W}
<1>1. n \in Nat /\ DOMAIN s = 1 .. n /\ W \in SUBSET (1 .. n)
  BY DEF Where
<1>2. ASSUME W # {} PROVE Latest(s, Q) # {}
  <2>1. D \in SUBSET Nat /\ D # {}
    BY <1>1, <1>2
  <2>2. PICK d \in D : \A e \in D : d <= e
    <3> HIDE DEF D
    <3>. QED
      BY <2>1, Least
  <2>3. PICK k \in W : d = n - k
    OBVIOUS
  <2>4. LastAt(s, Q, k)
    <3> SUFFICES ASSUME NEW j \in k + 1 .. Len(s), s[j] \in Q PROVE FALSE
      BY DEF LastAt
    <3>1. j \in W /\ j \in 1 .. n /\ k \in 1 .. n /\ j > k
      BY <1>1 DEF Where
    <3>2. n - j \in D
      BY <3>1
    <3>3. n - k <= n - j
      BY <2>2, <2>3, <3>2
    <3>. QED
      BY <1>1, <3>1, <3>3
  <2>. QED
    BY <2>4 DEF Latest
<1>3. ASSUME NEW m \in Latest(s, Q) PROVE m \in Q /\ m \in ToSet(s) /\ W # {}
  BY DEF Latest, Where, ToSet
<1>. QED
  BY <1>2, <1>3 DEF Where

\* The least and the greatest of two numbers.
LEMMA OfTwo ==
  ASSUME NEW m \in Int, NEW n \in Int
  PROVE  /\ Min({m, n}) = IF m <= n THEN m ELSE n
         /\ Max({m, n}) = IF m >= n THEN m ELSE n
<1>1. CASE m <= n
  <2>1. m \in {m, n} /\ \A j \in {m, n} : m <= j
    BY <1>1
  <2>2. \A x \in {m, n} : (\A j \in {m, n} : x <= j) => x = m
    BY <1>1
  <2>3. Min({m, n}) = m
    BY <2>1, <2>2 DEF Min
  <2>4. \A x \in {m, n} : (\A j \in {m, n} : x >= j) => x = n
    BY <1>1
  <2>5. n \in {m, n} /\ \A j \in {m, n} : n >= j
    BY <1>1
  <2>6. Max({m, n}) = n
    BY <2>4, <2>5 DEF Max
  <2>. QED
    BY <1>1, <2>3, <2>6
<1>2. CASE ~(m <= n)
  <2>1. n \in {m, n} /\ \A j \in {m, n} : n <= j
    BY <1>2
  <2>2. \A x \in {m, n} : (\A j \in {m, n} : x <= j) => x = n
    BY <1>2
  <2>3. Min({m, n}) = n
    BY <2>1, <2>2 DEF Min
  <2>4. \A x \in {m, n} : (\A j \in {m, n} : x >= j) => x = m
    BY <1>2
  <2>5. m \in {m, n} /\ \A j \in {m, n} : m >= j
    BY <1>2
  <2>6. Max({m, n}) = m
    BY <2>4, <2>5 DEF Max
  <2>. QED
    BY <1>2, <2>3, <2>6
<1>. QED
  BY <1>1, <1>2

-----------------------------------------------------------------------------
(* Loops over a sequence.                                                   *)

\* What holds of 0, and of k + 1 when it holds of k, holds of all numbers up to n.
LEMMA UpTo ==
  ASSUME NEW n \in Nat, NEW T, 0 \in T, \A k \in 0 .. n - 1 : k \in T => k + 1 \in T
  PROVE  \A k \in 0 .. n : k \in T
<1> DEFINE N == {k \in 0 .. n : k \notin T}
<1> SUFFICES ASSUME N # {} PROVE FALSE
  OBVIOUS
<1>1. N \in SUBSET Nat
  OBVIOUS
<1>2. PICK k \in N : \A m \in N : k <= m
  <2> HIDE DEF N
  <2>. QED
    BY <1>1, Least
<1>3. k \in 0 .. n /\ k \notin T /\ k # 0
  OBVIOUS
<1>4. k - 1 \in 0 .. n - 1 /\ k - 1 + 1 = k /\ k - 1 \in 0 .. n /\ ~(k <= k - 1)
  BY <1>3
<1>5. k - 1 \in T
  BY <1>2, <1>4
<1>. QED
  BY <1>3, <1>4, <1>5

\* Some numbers up to n have a greatest one.
LEMMA Greatest ==
  ASSUME NEW n \in Nat, NEW S \in SUBSET (1 .. n), S # {}
  PROVE  /\ Max(S) \in S /\ \A k \in S : Max(S) >= k
         /\ \A k \in S : (\A j \in S : k >= j) => k = Max(S)
<1> DEFINE D == {n - k : k \in S}
<1>1. D \in SUBSET Nat /\ D # {}
  <2>1. \A k \in S : n - k \in Nat
    OBVIOUS
  <2>. QED
    BY <2>1
<1>2. PICK d \in D : \A e \in D : d <= e
  <2> HIDE DEF D
  <2>. QED
    BY <1>1, Least
<1>3. PICK m \in S : d = n - m
  OBVIOUS
<1>4. \A k \in S : m >= k
  <2> SUFFICES ASSUME NEW k \in S PROVE m >= k
    OBVIOUS
  <2>1. n - m <= n - k
    BY <1>2, <1>3
  <2>. QED
    BY <2>1
<1>5. Max(S) \in S /\ \A k \in S : Max(S) >= k
  BY <1>4 DEF Max
<1>6. \A k, j \in S : k >= j /\ j >= k => k = j
  OBVIOUS
<1>. QED
  BY <1>5, <1>6

\* The greatest of 1 .. n is n.
LEMMA GreatestOfAll == \A n \in Nat \ {0} : Max(1 .. n) = n
<1> SUFFICES ASSUME NEW n \in Nat \ {0} PROVE Max(1 .. n) = n
  OBVIOUS
<1>1. n \in 1 .. n /\ \A j \in 1 .. n : n >= j
  OBVIOUS
<1>. QED
  BY <1>1, Greatest

\* What a fold needs of the function on sets of places that FoldLeft defines: the table F
\* takes what was found before the last place, and what stands there.
Folding(w, F, b, s, D) ==
  \A S \in SUBSET D : w[S] = IF S = {} THEN b ELSE F[<<w[S \ {Max(S)}], s[Max(S)]>>]

\* There is such a function.
LEMMA FoldExists ==
  ASSUME NEW A, NEW X, NEW F \in [A \X X -> A], NEW b \in A, NEW s \in Seq(X)
  PROVE  \E w \in [SUBSET DOMAIN s -> A] : Folding(w, F, b, s, DOMAIN s)
<1> DEFINE n == Len(s)
           T == {k \in 0 .. n : \E w \in [SUBSET (1 .. k) -> A] : Folding(w, F, b, s, 1 .. k)}
<1>1. n \in Nat /\ DOMAIN s = 1 .. n /\ \A k \in 1 .. n : s[k] \in X
  OBVIOUS
<1>2. 0 \in T
  <2> DEFINE w == [S \in SUBSET (1 .. 0) |-> b]
  <2>1. 1 .. 0 = {}
    OBVIOUS
  <2>2. w \in [SUBSET (1 .. 0) -> A] /\ Folding(w, F, b, s, 1 .. 0)
    BY <2>1 DEF Folding
  <2>3. 0 \in 0 .. n
    BY <1>1
  <2> HIDE DEF w
  <2>. QED
    BY <2>2, <2>3
<1>3. ASSUME NEW k \in 0 .. n - 1, k \in T PROVE k + 1 \in T
  <2>1. k \in Nat /\ k + 1 \in 1 .. n /\ k + 1 \in 0 .. n
    BY <1>1
  <2>2. PICK w \in [SUBSET (1 .. k) -> A] : Folding(w, F, b, s, 1 .. k)
    BY <1>3
  <2> DEFINE D == 1 .. k
             E == 1 .. k + 1
             m == k + 1
             v == [S \in SUBSET E |->
                     IF m \in S THEN F[<<w[S \ {m}], s[m]>>] ELSE w[S]]
  <2>3. E = D \union {m} /\ m \notin D /\ D \subseteq E
    BY <2>1
  <2>4. \A S \in SUBSET E : S \ {m} \in SUBSET D /\ (m \notin S => S \in SUBSET D)
    BY <2>3
  <2>5. s[m] \in X /\ \A S \in SUBSET D : w[S] \in A
    BY <1>1, <2>1
  <2>6. v \in [SUBSET E -> A]
    <3> SUFFICES ASSUME NEW S \in SUBSET E
                 PROVE (IF m \in S THEN F[<<w[S \ {m}], s[m]>>] ELSE w[S]) \in A
      OBVIOUS
    <3> HIDE DEF m, D, E
    <3>1. CASE m \in S
      <4>1. <<w[S \ {m}], s[m]>> \in A \X X
        BY <2>4, <2>5
      <4>. QED
        BY <3>1, <4>1
    <3>2. CASE m \notin S
      BY <2>4, <2>5, <3>2
    <3>. QED
      BY <3>1, <3>2
  <2>7. Folding(v, F, b, s, E)
    <3> SUFFICES ASSUME NEW S \in SUBSET E
                 PROVE v[S] = IF S = {} THEN b ELSE F[<<v[S \ {Max(S)}], s[Max(S)]>>]
      BY DEF Folding
    <3>1. CASE m \in S
      <4>1. m \in Nat /\ \A j \in S : m >= j
        BY <2>1
      <4>2. m = Max(S)
        BY <2>1, <3>1, <4>1, Greatest
      <4>3. S \ {m} \in SUBSET E /\ m \notin S \ {m}
        OBVIOUS
      <4> HIDE DEF m, D, E
      <4>4. v[S] = F[<<w[S \ {m}], s[m]>>] /\ v[S \ {m}] = w[S \ {m}]
        BY <3>1, <4>3
      <4>. QED
        BY <3>1, <4>2, <4>4
    <3>2. CASE m \notin S
      <4>1. S \in SUBSET D /\ S \ {Max(S)} \in SUBSET E /\ m \notin S \ {Max(S)}
        BY <2>4, <3>2
      <4> HIDE DEF m, D, E
      <4>2. v[S] = w[S] /\ v[S \ {Max(S)}] = w[S \ {Max(S)}]
        BY <3>2, <4>1
      <4>3. w[S] = IF S = {} THEN b ELSE F[<<w[S \ {Max(S)}], s[Max(S)]>>]
        BY <2>2, <4>1 DEF Folding, D
      <4>. QED
        BY <4>2, <4>3
    <3>. QED
      BY <3>1, <3>2
  <2> HIDE DEF v
  <2>. QED
    BY <2>1, <2>6, <2>7
<1>4. n \in 0 .. n
  BY <1>1
<1>5. \A k \in 0 .. n : k \in T
  <2> HIDE DEF T
  <2>. QED
    BY <1>1, <1>2, <1>3, UpTo
<1>6. \E w \in [SUBSET (1 .. n) -> A] : Folding(w, F, b, s, 1 .. n)
  BY <1>4, <1>5
<1>. QED
  BY <1>1, <1>6

\* What the loop remembers after each of its turns.
IsRun(g, F, b, s) == g[0] = b /\ \A k \in 1 .. Len(s) : g[k] = F[<<g[k - 1], s[k]>>]

\* G folds F over s as far as it stays in A.
IsFold(G, A, X, F, b, s) ==
  /\ F \in [A \X X -> A] /\ b \in A /\ s \in Seq(X)
  /\ G[{}] = b
  /\ \A S \in SUBSET DOMAIN s : S # {} /\ G[S \ {Max(S)}] \in A
       => G[S] = F[<<G[S \ {Max(S)}], s[Max(S)]>>]

\* Then it is the loop.
LEMMA FoldRuns ==
  ASSUME NEW G, NEW A, NEW X, NEW F, NEW b, NEW s, IsFold(G, A, X, F, b, s)
  PROVE  \E g \in [0 .. Len(s) -> A] : IsRun(g, F, b, s) /\ G[DOMAIN s] = g[Len(s)]
<1>0. /\ F \in [A \X X -> A] /\ b \in A /\ s \in Seq(X)
      /\ G[{}] = b
      /\ \A S \in SUBSET DOMAIN s : S # {} /\ G[S \ {Max(S)}] \in A
           => G[S] = F[<<G[S \ {Max(S)}], s[Max(S)]>>]
  BY DEF IsFold
<1> DEFINE n == Len(s)
           g == [k \in 0 .. n |-> G[1 .. k]]
           T == {k \in 0 .. n : G[1 .. k] \in A}
<1>1. n \in Nat /\ DOMAIN s = 1 .. n /\ \A k \in 1 .. n : s[k] \in X
  BY <1>0
<1>2. 1 .. 0 = {}
  OBVIOUS
<1>3. ASSUME NEW k \in 1 .. n, G[1 .. k - 1] \in A
      PROVE  G[1 .. k] = F[<<G[1 .. k - 1], s[k]>>] /\ G[1 .. k] \in A
  <2>0. k \in Nat \ {0} /\ k <= n
    BY <1>1
  <2>3. /\ \A j \in 1 .. k : j \in 1 .. n
        /\ \A j : j \in (1 .. k) \ {k} <=> j \in 1 .. k - 1
        /\ k \in 1 .. k
    BY ONLY <1>1, <2>0
  <2>1. k \in Nat \ {0} /\ 1 .. k \in SUBSET DOMAIN s /\ (1 .. k) \ {k} = 1 .. k - 1 /\ 1 .. k # {}
    BY <1>1, <2>0, <2>3
  <2>2. Max(1 .. k) = k
    BY <2>1, GreatestOfAll
  <2>4. G[1 .. k] = F[<<G[1 .. k - 1], s[k]>>]
    BY <1>0, <1>3, <2>1, <2>2
  <2>5. <<G[1 .. k - 1], s[k]>> \in A \X X
    BY <1>0, <1>1, <1>3
  <2>. QED
    BY <1>0, <2>4, <2>5
<1>4. 0 \in T
  BY <1>0, <1>1, <1>2
<1>5. ASSUME NEW k \in 0 .. n - 1, k \in T PROVE k + 1 \in T
  <2> DEFINE m == k + 1
  <2>1. m \in 1 .. n /\ m \in 0 .. n /\ m - 1 = k
    BY <1>1
  <2>2. G[1 .. m - 1] \in A
    BY <1>5, <2>1
  <2> HIDE DEF m
  <2>3. G[1 .. m] \in A
    BY <1>0, <1>3, <2>1, <2>2
  <2>. QED
    BY <2>1, <2>3
<1>6. \A k \in 0 .. n : k \in T
  <2> HIDE DEF T
  <2>. QED
    BY <1>1, <1>4, <1>5, UpTo
<1>7. g \in [0 .. n -> A]
  BY <1>6
<1>8. 0 \in 0 .. n /\ n \in 0 .. n /\ \A k \in 1 .. n : k \in 0 .. n /\ k - 1 \in 0 .. n
  BY <1>1
<1>9. g[0] = b /\ g[n] = G[DOMAIN s]
  BY <1>0, <1>1, <1>2, <1>8
<1>10. \A k \in 1 .. n : g[k] = F[<<g[k - 1], s[k]>>]
  BY <1>3, <1>6, <1>8
<1> HIDE DEF g
<1>. QED
  BY <1>7, <1>9, <1>10 DEF IsRun

-----------------------------------------------------------------------------
(* Block 11: the readers that take one line.                                *)

\* The flags of a mask are those of its bits, whatever is above the 32 that are kept.
LEMMA FlagsTells ==
  ASSUME NEW a, NEW l PROVE FlagsMatches(<<>>, FlagsStart) /\ FlagsMatches(<<l>>, FlagsStep(a, l))
<1>1. ToSet(<<l>>) = {l} /\ ToSet(<<>>) = {}
  BY DEF ToSet
<1>2. DOMAIN NamespaceBit = {"mnt", "cgroup", "uts", "ipc", "user", "pid", "net"}
  BY DEF NamespaceBit
<1>3. \A ns \in DOMAIN NamespaceBit : NamespaceBit[ns] \in 0 .. MaskBits - 1
  BY <1>2, KernelAssumption DEF NamespaceBit
<1> HIDE DEF NamespaceBit
<1>. QED
  BY <1>1, <1>3 DEF FlagsMatches, FlagsStep

\* The limits of a control group are taken exactly when each of them is good.
LEMMA CpuTells ==
  ASSUME NEW a, NEW l, CpuLine(l)
  PROVE  CpuMatches(<<>>, CpuStart) /\ CpuMatches(<<l>>, CpuStep(a, l))
<1>1. ToSet(<<l>>) = {l} /\ ToSet(<<>>) = {}
  BY DEF ToSet
<1> DEFINE P == {p \in l.period : p > 0}
           Q == {q \in l.quota : q > 0}
           W == {w \in l.weight : w \in 1 .. 10000}
           R == IF l.max THEN {-1} ELSE Q
           lim == ~l.max
           c(q, p, w) == [limited |-> lim, quota |-> q, period |-> p, weight |-> w]
           A == CpuStep(a, l)
<1>2. A = {c(q, p, w) : q \in R, p \in P, w \in W}
  BY DEF CpuStep
<1>3. ASSUME NEW q \in R, NEW p \in P, NEW w \in W
      PROVE  c(q, p, w).period > 0 /\ c(q, p, w).weight >= 1 
             /\ (c(q, p, w).limited <=> c(q, p, w).quota > 0)
  <2>0. /\ c(q, p, w).period = p /\ c(q, p, w).weight = w /\ c(q, p, w).quota = q
        /\ c(q, p, w).limited = lim
    OBVIOUS
  <2>1. l.max => q = -1
    OBVIOUS
  <2>2. ~l.max => q > 0
    OBVIOUS
  <2>3. w \in 1 .. 10000 /\ p > 0
    OBVIOUS
  <2>4. q > 0 <=> ~l.max
    BY ONLY <2>1, <2>2
  <2>7. lim \in BOOLEAN /\ (lim <=> ~l.max)
    BY DEF CpuLine
  <2> HIDE DEF c, lim
  <2>5. c(q, p, w).limited <=> lim
    BY ONLY <2>0, <2>7
  <2>6. w >= 1
    BY ONLY <2>3
  <2> HIDE DEF c
  <2>. QED
    BY <2>0, <2>3, <2>4, <2>5, <2>6, <2>7
<1>4. A = {} <=> R = {} \/ P = {} \/ W = {}
  <2> HIDE DEF R, P, W, c, A
  <2>1. ASSUME NEW q \in R, NEW p \in P, NEW w \in W PROVE c(q, p, w) \in A
    BY <1>2
  <2>2. ASSUME NEW x \in A PROVE \E q \in R, p \in P, w \in W : x = c(q, p, w)
    BY <1>2
  <2>. QED
    BY ONLY <2>1, <2>2
<1>5. R = {} <=> ~l.max /\ Q = {}
  OBVIOUS
<1>6. W = l.weight \cap 1 .. 10000
  OBVIOUS
<1>7. \A x \in A : x.period > 0 /\ x.weight >= 1 /\ (x.limited <=> x.quota > 0)
  <2> HIDE DEF R, P, W, c, A
  <2>. QED
    BY <1>2, <1>3
<1>8. CpuMatches(<<l>>, A)
  <2> HIDE DEF A
  <2>. QED
    BY <1>1, <1>4, <1>5, <1>6, <1>7 DEF CpuMatches
<1>9. CpuMatches(<<>>, CpuStart)
  BY <1>1 DEF CpuMatches, CpuStart
<1>. QED
  BY <1>8, <1>9

\* More than all is used only when the use is above the limit.
LEMMA Percent ==
  ASSUME NEW c \in Nat, NEW m \in Nat, m > 0
  PROVE  (100 * c) \div m >= 0 /\ ((100 * c) \div m > 100 => c > m)
OBVIOUS

\* There is no percentage exactly when there is no limit, or one of 0.
LEMMA MemoryTells ==
  ASSUME NEW a, NEW l, MemoryLine(l)
  PROVE  MemoryMatches(<<>>, MemoryStart) /\ MemoryMatches(<<l>>, MemoryStep(a, l))
<1>1. ToSet(<<l>>) = {l} /\ ToSet(<<>>) = {}
  BY DEF ToSet
<1> DEFINE M == IF l.max THEN {0} ELSE l.mem
           C == If(~l.current_max, l.current)
           S == IF l.swap_max THEN {0} ELSE l.swap
           r(m, c) == [mem_limited |-> ~l.max, swap_limited |-> ~l.swap_max,
                       used_pct |-> IF ~l.max /\ m > 0 THEN (100 * c) \div m ELSE -1]
           A == MemoryStep(a, l)
<1>2. A = {r(m, c) : m \in M, c \in C, s \in S}
  BY DEF MemoryStep
<1>3. ASSUME NEW m \in M, NEW c \in C
      PROVE  /\ r(m, c).used_pct = -1 <=> (l.max \/ l.mem = {0})
             /\ r(m, c).used_pct > 100 => \E n \in l.mem, d \in l.current : d > n
             /\ ~l.current_max
  <2>1. c \in l.current /\ ~l.current_max /\ c \in Nat
    BY DEF If, MemoryLine, Parsed
  <2>2. ~l.max => m \in l.mem /\ m \in Nat /\ l.mem = {m}
    BY DEF MemoryLine, Parsed
  <2>3. r(m, c).used_pct = IF ~l.max /\ m > 0 THEN (100 * c) \div m ELSE -1
    OBVIOUS
  <2> HIDE DEF r, C, M
  <2>4. CASE ~l.max /\ m > 0
    BY <2>1, <2>2, <2>3, <2>4, Percent
  <2>5. CASE ~(~l.max /\ m > 0)
    BY <2>1, <2>2, <2>3, <2>5
  <2>. QED
    BY <2>4, <2>5
<1>8. MemoryMatches(<<l>>, A)
  <2> HIDE DEF A, r, M, C, S
  <2>. QED
    BY <1>1, <1>2, <1>3 DEF MemoryMatches
<1>9. MemoryMatches(<<>>, MemoryStart)
  BY <1>1 DEF MemoryMatches, MemoryStart
<1>. QED
  BY <1>8, <1>9

\* What each word of the seccomp report says, and what is sure of a secure profile.
LEMMA SeccompTells ==
  ASSUME NEW a, NEW p, SeccompLine(p)
  PROVE  SeccompMatches(<<>>, SeccompStart) /\ SeccompMatches(<<p>>, SeccompStep(a, p))
<1> DEFINE b == SeccompStep(a, p)
<1>1. ToSet(<<p>>) = {p} /\ ToSet(<<>>) = {}
  BY DEF ToSet
<1>2. /\ "default_ok" \in b <=> DefaultOk(p)
      /\ "required_ok" \in b <=> RequiredOk(p)
      /\ "dangerous" \in b <=> Dangerous(p)
      /\ "secure" \in b <=> DefaultOk(p) /\ RequiredOk(p) /\ ~Dangerous(p)
  BY DEF SeccompStep, If
<1>3. DefaultOk(p) <=> "SCMP_ACT_ERRNO" \in ActionsOf(p)
  BY DEF DefaultOk, Words, SeccompLine
<1>4. RequiredOk(p) <=> RequiredCalls \subseteq CallsOf(p)
  BY DEF RequiredOk, Words, SeccompLine, RequiredCalls
<1>5. Dangerous(p) <=> DangerousCalls \cap CallsOf(p) # {}
  BY DEF Dangerous, Words, SeccompLine, DangerousCalls
<1>6. DangerousCalls \cap CallsOf(p) # {} <=> \E r \in p.rules : r.name \in DangerousCalls
  BY DEF CallsOf
\* Where no rule names a dangerous call, the default action decides it.
<1>7. ASSUME ~Dangerous(p) PROVE \A c \in DangerousCalls : ActionsOn(p, c) = {p.defaultAction}
  BY <1>5, <1>7 DEF ActionsOn
<1>8. ASSUME DefaultOk(p), \A r \in p.rules : r.action # "SCMP_ACT_ERRNO"
      PROVE  p.defaultAction = "SCMP_ACT_ERRNO"
  BY <1>3, <1>8 DEF ActionsOf
<1>9. p.defaultAction = "SCMP_ACT_ERRNO" => DefaultOk(p)
  BY <1>3 DEF ActionsOf
<1>10. SeccompMatches(<<p>>, b)
  <2> HIDE DEF b
  <2>. QED
    BY <1>1, <1>2, <1>3, <1>4, <1>5, <1>6, <1>7, <1>8, <1>9 DEF SeccompMatches
<1>11. SeccompMatches(<<>>, SeccompStart)
  BY <1>1 DEF SeccompMatches
<1>. QED
  BY <1>10, <1>11

-----------------------------------------------------------------------------
(* Block 11: counters and the largest row.                                  *)

\* The counters of a record go up one by one.
LEMMA BumpFacts ==
  ASSUME NEW C, NEW a \in [C -> Nat], NEW S
  PROVE  /\ Bump(a, S) \in [C -> Nat]
         /\ \A c \in C : Bump(a, S)[c] = a[c] + If01(c \in S)
<1>1. Bump(a, S) = [c \in C |-> IF c \in S THEN a[c] + 1 ELSE a[c]]
  BY DEF Bump
<1>2. \A c \in C : a[c] \in Nat
  OBVIOUS
<1>. QED
  BY <1>1, <1>2 DEF If01

\* A record of counters begins with zeros.
LEMMA ZeroFacts ==
  \A C : Zero(C) \in [C -> Nat] /\ \A c \in C : Zero(C)[c] = 0
BY DEF Zero

-----------------------------------------------------------------------------
\* The settings that count, and the unsafe ones.
SysctlGood(X) == {m \in X : m.key # <<>> /\ m.val # ""}
SysctlUnsafe(X) == {m \in X : IsUnsafe(m)}
SysctlKeys == {"total", "net", "vm", "kernel", "unsafe"}

\* The counters of sysctl.conf: the three groups are apart, so their sum is within the total.
SysctlInv(X, s, a) ==
  /\ a \in [SysctlKeys -> Nat]
  /\ a.total = Nr(s, SysctlGood(X)) /\ a.unsafe = Nr(s, SysctlUnsafe(X))
  /\ a.net + a.vm + a.kernel <= a.total

\* The keys that may be unsafe are not empty.
LEMMA KeysHaveParts == \A k \in UnsafeKeys : k # <<>>
<1>1. \A u, v : Len(<<u, v>>) = 2 /\ Len(<<>>) = 0
  OBVIOUS
<1>. QED
  BY <1>1 DEF UnsafeKeys

\* They are right before any line,
LEMMA SysctlStarts == \A X : SysctlInv(X, <<>>, SysctlStart)
BY NrStart, ZeroFacts DEF SysctlInv, SysctlStart, SysctlKeys

\* stay right after one more,
LEMMA SysctlKeeps ==
  ASSUME NEW X, NEW s \in Seq(X), NEW l \in X, NEW a, SysctlInv(X, s, a)
  PROVE  SysctlInv(X, Append(s, l), SysctlStep(a, l))
<1> DEFINE b == SysctlStep(a, l)
           t == Append(s, l)
           D == {"total"} \union ({Head(l.key)} \cap {"net", "vm", "kernel"})
                         \union If(IsUnsafe(l), {"unsafe"})
<1>1. /\ a \in [SysctlKeys -> Nat]
      /\ a.total = Nr(s, SysctlGood(X)) /\ a.unsafe = Nr(s, SysctlUnsafe(X))
      /\ a.net + a.vm + a.kernel <= a.total
  BY DEF SysctlInv
<1>2. /\ Nr(t, SysctlGood(X)) = Nr(s, SysctlGood(X)) + If01(l \in SysctlGood(X))
      /\ Nr(t, SysctlUnsafe(X)) = Nr(s, SysctlUnsafe(X)) + If01(l \in SysctlUnsafe(X))
  BY NrStep
<1> HIDE DEF t
<1>3. CASE l.key = <<>> \/ l.val = ""
  <2>1. b = a
    BY <1>3 DEF SysctlStep
  <2>2. ~IsUnsafe(l)
    BY <1>3, KeysHaveParts DEF IsUnsafe
  <2>3. l \notin SysctlGood(X) /\ l \notin SysctlUnsafe(X)
    BY <1>3, <2>2 DEF SysctlGood, SysctlUnsafe
  <2>. QED
    BY <1>1, <1>2, <2>1, <2>3 DEF SysctlInv, SysctlKeys, If01, t
<1>4. CASE ~(l.key = <<>> \/ l.val = "")
  <2>1. b = Bump(a, D)
    BY <1>4 DEF SysctlStep
  <2>2. l \in SysctlGood(X) /\ (l \in SysctlUnsafe(X) <=> IsUnsafe(l))
    BY <1>4 DEF SysctlGood, SysctlUnsafe
  <2>3. /\ "total" \in D /\ ("unsafe" \in D <=> IsUnsafe(l))
        /\ ~("net" \in D /\ "vm" \in D) /\ ~("net" \in D /\ "kernel" \in D)
        /\ ~("vm" \in D /\ "kernel" \in D)
    BY DEF If
  <2> HIDE DEF D, b
  <2>4. b \in [SysctlKeys -> Nat] /\ \A c \in SysctlKeys : b[c] = a[c] + If01(c \in D)
    BY <1>1, <2>1, BumpFacts
  <2>5. /\ b.total = a.total + 1 /\ b.unsafe = a.unsafe + If01(IsUnsafe(l))
        /\ b.net = a.net + If01("net" \in D) /\ b.vm = a.vm + If01("vm" \in D)
        /\ b.kernel = a.kernel + If01("kernel" \in D)
    BY <2>3, <2>4 DEF SysctlKeys, If01
  <2>6. a.net \in Nat /\ a.vm \in Nat /\ a.kernel \in Nat /\ a.total \in Nat
    BY <1>1 DEF SysctlKeys
  <2>7. b.net + b.vm + b.kernel <= b.total
    BY <1>1, <2>3, <2>5, <2>6 DEF If01
  <2>8. b.total = Nr(t, SysctlGood(X)) /\ b.unsafe = Nr(t, SysctlUnsafe(X))
    BY <1>1, <1>2, <2>2, <2>5 DEF If01
  <2>. QED
    BY <2>4, <2>7, <2>8 DEF SysctlInv, t, b
<1>. QED
  BY <1>3, <1>4

\* and then say what the whole file says.
LEMMA SysctlTells ==
  ASSUME NEW X, NEW s \in Seq(X), NEW a, SysctlInv(X, s, a)
  PROVE  SysctlMatches(s, a)
<1>1. \A k \in DOMAIN s : s[k] \in X
  OBVIOUS
<1>2. Count(s, LAMBDA l : l.key # <<>> /\ l.val # "") = Nr(s, SysctlGood(X))
  BY <1>1 DEF Count, Nr, Where, SysctlGood
<1>3. Count(s, LAMBDA l : l.key \in UnsafeKeys /\ l.val = "0") = Nr(s, SysctlUnsafe(X))
  BY <1>1 DEF Count, Nr, Where, SysctlUnsafe, IsUnsafe
<1>4. SysctlUnsafe(X) \subseteq SysctlGood(X)
  BY KeysHaveParts DEF SysctlUnsafe, SysctlGood, IsUnsafe
<1>5. Nr(s, SysctlUnsafe(X)) <= Nr(s, SysctlGood(X))
  BY <1>4, NrFacts
<1>. QED
  BY <1>2, <1>3, <1>5 DEF SysctlMatches, SysctlInv

-----------------------------------------------------------------------------
\* The rows of lsmod under its header.
LsmodRows(X) == {m \in X : ~m.header /\ m.fields = 3}

\* The first of the largest rows, if one is larger than nothing.
IsTop(X, s, k) ==
  /\ k \in Where(s, LsmodRows(X)) /\ s[k].size > 0
  /\ \A j \in Where(s, LsmodRows(X)) :
       s[j].size < s[k].size \/ (s[j].size = s[k].size /\ k <= j)

\* The largest module so far, and that no row is larger.
LsmodInv(X, s, a) ==
  /\ a.modules = Nr(s, LsmodRows(X)) /\ a.busy \in Nat /\ a.busy <= a.modules
  /\ a.top_size \in Nat
  /\ \A j \in Where(s, LsmodRows(X)) : s[j].size <= a.top_size
  /\ a.top_size = 0 => a.top_module = {}
  /\ a.top_size > 0 => \E k \in Where(s, LsmodRows(X)) :
       IsTop(X, s, k) /\ s[k].size = a.top_size /\ a.top_module = {s[k].module}

\* So it is before any line,
LEMMA LsmodStarts == \A X : LsmodInv(X, <<>>, LsmodStart)
<1>1. \A X : Where(<<>>, LsmodRows(X)) = {}
  BY DEF Where
<1>. QED
  BY <1>1, NrStart DEF LsmodInv, LsmodStart

\* it stays so after one more, of the same size as the largest or not,
LEMMA LsmodKeeps ==
  ASSUME NEW X, NEW s \in Seq(X), NEW l \in X, NEW a, LsmodInv(X, s, a),
         \A m \in X : LsmodLine(m)
  PROVE  LsmodInv(X, Append(s, l), LsmodStep(a, l))
<1> DEFINE b == LsmodStep(a, l)
           t == Append(s, l)
           n == Len(s) + 1
           R == LsmodRows(X)
           W == Where(s, R)
           V == Where(t, R)
<1>1. /\ a.modules = Nr(s, R) /\ a.busy \in Nat /\ a.busy <= a.modules
      /\ a.top_size \in Nat
      /\ \A j \in W : s[j].size <= a.top_size
      /\ a.top_size = 0 => a.top_module = {}
      /\ a.top_size > 0 => \E k \in W :
           IsTop(X, s, k) /\ s[k].size = a.top_size /\ a.top_module = {s[k].module}
  BY DEF LsmodInv
<1>2. Nr(t, R) = Nr(s, R) + If01(l \in R) /\ Nr(s, R) \in Nat
  BY NrStep
<1>3. /\ V = IF l \in R THEN W \union {n} ELSE W
      /\ t[n] = l /\ \A k \in W : k \in Nat /\ k < n /\ t[k] = s[k] /\ s[k].size \in Int
      /\ n \in Nat
  <2>1. \A k \in DOMAIN s : s[k] \in X
    OBVIOUS
  <2>. QED
    BY <2>1, AppendFacts DEF Where, LsmodLine
<1>4. l.size \in Int
  BY DEF LsmodLine
<1> HIDE DEF b, t, n, R
<1>5. CASE l \notin R
  <2>1. b = a
    BY <1>5 DEF LsmodStep, LsmodRows, b, R
  <2>2. \A k \in W : IsTop(X, t, k) <=> IsTop(X, s, k)
    BY <1>3, <1>5 DEF IsTop, R
  <2>3. V = W /\ Nr(t, R) = Nr(s, R)
    BY <1>2, <1>3, <1>5 DEF If01
  <2>. QED
    BY <1>1, <1>3, <2>1, <2>2, <2>3 DEF LsmodInv, t, R, b
<1>6. CASE l \in R /\ ~(l.size > a.top_size)
  <2>1. /\ b.modules = a.modules + 1 /\ b.busy = a.busy + If01(l.used > 0)
        /\ b.top_size = a.top_size /\ b.top_module = a.top_module
    BY <1>6 DEF LsmodStep, LsmodRows, b, R
  <2>2. ASSUME NEW k \in W, IsTop(X, s, k), s[k].size = a.top_size PROVE IsTop(X, t, k)
    <3>1. l.size < a.top_size \/ l.size = a.top_size
      BY <1>1, <1>4, <1>6
    <3>. QED
      BY <1>3, <1>6, <2>2, <3>1 DEF IsTop, R
  <2>3. \A j \in V : t[j].size <= b.top_size
    BY <1>1, <1>3, <1>4, <1>6, <2>1
  <2>4. b.top_size > 0 => \E k \in V :
           IsTop(X, t, k) /\ t[k].size = b.top_size /\ b.top_module = {t[k].module}
    BY <1>1, <1>3, <1>6, <2>1, <2>2
  <2>5. b.busy \in Nat /\ b.busy <= b.modules /\ b.modules = Nr(t, R)
    BY <1>1, <1>2, <1>6, <2>1 DEF If01
  <2> HIDE DEF W, V
  <2>. QED
    BY <1>1, <2>1, <2>3, <2>4, <2>5 DEF LsmodInv, b, t, R, V, W
<1>7. CASE l \in R /\ l.size > a.top_size
  <2>1. /\ b.modules = a.modules + 1 /\ b.busy = a.busy + If01(l.used > 0)
        /\ b.top_size = l.size /\ b.top_module = {l.module}
    BY <1>7 DEF LsmodStep, LsmodRows, b, R
  <2>2. \A j \in W : t[j].size < l.size
    BY <1>1, <1>3, <1>4, <1>7
  <2>3. IsTop(X, t, n) /\ l.size > 0
    BY <1>1, <1>3, <1>4, <1>7, <2>2 DEF IsTop, R
  <2>4. \A j \in V : t[j].size <= b.top_size
    BY <1>1, <1>3, <1>4, <1>7, <2>1, <2>2
  <2>5. b.busy \in Nat /\ b.busy <= b.modules /\ b.modules = Nr(t, R)
    BY <1>1, <1>2, <1>7, <2>1 DEF If01
  <2>6. /\ b.top_size \in Nat /\ b.top_size # 0
        /\ n \in V /\ t[n].size = b.top_size /\ b.top_module = {t[n].module}
    BY <1>1, <1>3, <1>4, <1>7, <2>1
  <2> HIDE DEF W, V
  <2>7. \E k \in V : IsTop(X, t, k) /\ t[k].size = b.top_size /\ b.top_module = {t[k].module}
    BY <2>3, <2>6
  <2>. QED
    BY <2>4, <2>5, <2>6, <2>7 DEF LsmodInv, b, t, R, V
<1>. QED
  BY <1>5, <1>6, <1>7

\* and the one named is the first of the largest.
LEMMA LsmodTells ==
  ASSUME NEW X, NEW s \in Seq(X), NEW a, LsmodInv(X, s, a), \A m \in X : LsmodLine(m)
  PROVE  LsmodMatches(s, a)
<1> DEFINE R == {k \in DOMAIN s : ~s[k].header /\ s[k].fields = 3}
           W == Where(s, LsmodRows(X))
           T == {k \in R : /\ s[k].size > 0
                           /\ \A j \in R : s[j].size < s[k].size
                                             \/ (s[j].size = s[k].size /\ k <= j)}
<1>1. \A k \in DOMAIN s : s[k] \in X /\ s[k].size \in Int /\ k \in Nat
  BY DEF LsmodLine
<1>2. R = W
  BY <1>1 DEF Where, LsmodRows
<1>3. T = {k \in W : IsTop(X, s, k)}
  BY <1>2 DEF IsTop
<1>5. W \in SUBSET DOMAIN s
  BY DEF Where
<1>4. ASSUME NEW k \in W, NEW j \in W, IsTop(X, s, k), IsTop(X, s, j) PROVE k = j
  BY <1>1, <1>4, <1>5 DEF IsTop
<1>6. a.top_module = {s[k].module : k \in T}
  <2>1. CASE a.top_size = 0
    <3>1. T = {}
      BY <1>1, <1>3, <1>5, <2>1 DEF LsmodInv, IsTop
    <3>. QED
      BY <2>1, <3>1 DEF LsmodInv
  <2>2. CASE a.top_size # 0
    <3>1. PICK k \in W : IsTop(X, s, k) /\ a.top_module = {s[k].module}
      BY <2>2 DEF LsmodInv
    <3>2. T = {k}
      BY <1>3, <1>4, <3>1
    <3>. QED
      BY <3>1, <3>2
  <2>. QED
    BY <2>1, <2>2
<1>7. a.modules = Cardinality(R) /\ a.busy <= a.modules
  BY <1>2 DEF LsmodInv, Nr
<1>. QED
  BY <1>6, <1>7 DEF LsmodMatches

-----------------------------------------------------------------------------
(* Block 11: tables and the last line of a key.                             *)

\* The namespaces of the lines with two fields.
PidInodes(s) == {l.inode : l \in {m \in ToSet(s) : m.fields = 2}}

\* The table of ids is injective, and complete as long as it is not full.
PidNsInv(s, a) ==
  /\ IsFiniteSet(PidInodes(s))
  /\ a.ids \in Seq(PidInodes(s)) /\ IsInjective(a.ids)
  /\ Len(a.ids) <= MaxIds
  /\ Cardinality(ToSet(a.ids)) = Len(a.ids)
  /\ Len(a.ids) < MaxIds => ToSet(a.ids) = PidInodes(s)
  /\ a.ns_total \in Nat /\ Len(a.ids) <= a.ns_total

\* The table is empty at first,
LEMMA PidNsStarts == PidNsInv(<<>>, PidNsStart)
<1>1. PidInodes(<<>>) = {} /\ ToSet(<<>>) = {}
  BY DEF PidInodes, ToSet
<1>2. Cardinality({}) = 0 /\ IsFiniteSet({})
  BY FS_EmptySet
<1>3. Len(<<>>) = 0 /\ <<>> \in Seq({}) /\ IsInjective(<<>>)
  BY DEF IsInjective
<1>4. PidNsStart.ids = <<>> /\ PidNsStart.ns_total = 0
  BY DEF PidNsStart
<1>5. 0 <= MaxIds
  BY KernelAssumption
<1> DEFINE a == PidNsStart
<1>6. a.ids = <<>> /\ a.ns_total = 0
  BY <1>4
<1> HIDE DEF a
<1>7. IsFiniteSet(PidInodes(<<>>)) /\ a.ids \in Seq(PidInodes(<<>>))
  BY <1>1, <1>2, <1>3, <1>6
<1>8. Len(a.ids) = 0 /\ IsInjective(a.ids)
  BY <1>3, <1>6
<1>10. ToSet(a.ids) = PidInodes(<<>>) /\ Cardinality(ToSet(a.ids)) = 0
  BY <1>1, <1>2, <1>6
<1>9. PidNsInv(<<>>, a)
  BY ONLY <1>5, <1>6, <1>7, <1>8, <1>10 DEF PidNsInv
<1>. QED
  BY <1>9 DEF a

\* takes each id once while there is room,
LEMMA PidNsKeeps ==
  ASSUME NEW X, NEW s \in Seq(X), NEW l \in X, NEW a, PidNsInv(s, a)
  PROVE  PidNsInv(Append(s, l), PidNsStep(a, l))
<1> DEFINE b == PidNsStep(a, l)
           t == Append(s, l)
           I == PidInodes(s)
           J == PidInodes(t)
           v == a.ids
           w == b.ids
<1>1. /\ IsFiniteSet(I) /\ v \in Seq(I) /\ IsInjective(v)
      /\ Len(v) <= MaxIds /\ Cardinality(ToSet(v)) = Len(v)
      /\ Len(v) < MaxIds => ToSet(v) = I
      /\ a.ns_total \in Nat /\ Len(v) <= a.ns_total
  BY DEF PidNsInv
<1>2. J = IF l.fields = 2 THEN I \union {l.inode} ELSE I
  BY ToSetStep DEF PidInodes
<1>3. CASE l.fields # 2
  <2>1. b = a /\ J = I
    BY <1>2, <1>3 DEF PidNsStep
  <2>. QED
    BY <1>1, <2>1 DEF PidNsInv
<1>4. CASE l.fields = 2
  <2> DEFINE x == l.inode
  <2>1. /\ b.ns_total = a.ns_total + 1
        /\ w = IF x \notin ToSet(v) /\ Len(v) < MaxIds THEN Append(v, x) ELSE v
    BY <1>4 DEF PidNsStep
  <2>2. J = I \union {x} /\ IsFiniteSet(J)
    <3>1. J = I \union {x}
      BY <1>2, <1>4
    <3> HIDE DEF I, J
    <3>2. IsFiniteSet(I \union {x})
      BY <1>1, FS_AddElement
    <3>. QED
      BY <3>1, <3>2
  <2>3. v \in Seq(J) /\ ToSet(v) \in SUBSET I /\ IsFiniteSet(ToSet(v)) /\ Len(v) \in Nat
    <3>1. ToSet(v) \in SUBSET I
      BY <1>1 DEF ToSet
    <3>2. IsFiniteSet(ToSet(v))
      BY <1>1, <3>1, FS_Subset
    <3>3. I \subseteq J
      BY <2>2
    <3> HIDE DEF I, J, v
    <3>4. Seq(I) \subseteq Seq(J)
      BY <3>3, SeqMonotonic
    <3>. QED
      BY <1>1, <3>1, <3>2, <3>4
  <2> HIDE DEF b, t, I, J, v, w
  <2>4. CASE x \notin ToSet(v) /\ Len(v) < MaxIds
    <3>1. w = Append(v, x) /\ x \in J
      BY <2>1, <2>2, <2>4
    <3>2. w \in Seq(J) /\ Len(w) = Len(v) + 1 /\ ToSet(w) = ToSet(v) \union {x}
      BY <2>3, <3>1, AppendFacts, ToSetStep
    <3>3. IsInjective(w)
      <4>1. /\ DOMAIN w = DOMAIN v \union {Len(v) + 1} /\ w[Len(v) + 1] = x
            /\ \A k \in DOMAIN v : w[k] = v[k]
        BY <2>3, <3>1, AppendFacts
      <4>2. \A k \in DOMAIN v : v[k] # x
        BY <2>4 DEF ToSet
      <4>. QED
        BY <1>1, <4>1, <4>2 DEF IsInjective
    <3>4. Cardinality(ToSet(w)) = Len(w)
      <4>1. Cardinality(ToSet(v) \union {x}) = Cardinality(ToSet(v)) + 1
        BY <2>3, <2>4, FS_AddElement
      <4>. QED
        BY <1>1, <3>2, <4>1
    <3>5. Len(w) <= MaxIds /\ Len(w) <= b.ns_total /\ b.ns_total \in Nat
      BY <1>1, <2>1, <2>3, <2>4, <3>2, KernelAssumption
    <3>6. ToSet(w) = J
      BY <1>1, <2>2, <2>4, <3>2
    <3>. QED
      BY <2>2, <3>2, <3>3, <3>4, <3>5, <3>6 DEF PidNsInv, b, t, J, w
  <2>5. CASE ~(x \notin ToSet(v) /\ Len(v) < MaxIds)
    <3>1. w = v
      BY <2>1, <2>5
    <3>2. Len(v) < MaxIds => ToSet(w) = J
      BY <1>1, <2>2, <2>3, <2>5, <3>1
    <3>3. Len(w) <= b.ns_total /\ b.ns_total \in Nat
      BY <1>1, <2>1, <2>3, <3>1
    <3>. QED
      BY <1>1, <2>2, <2>3, <3>1, <3>2, <3>3 DEF PidNsInv, b, t, J, w
  <2>. QED
    BY <2>4, <2>5
<1>. QED
  BY <1>3, <1>4

\* and has as many as there are, or as fit.
LEMMA PidNsTells ==
  ASSUME NEW X, NEW s \in Seq(X), NEW a, PidNsInv(s, a)
  PROVE  PidNsMatches(s, a)
<1> DEFINE I == PidInodes(s)
           v == a.ids
<1>1. /\ IsFiniteSet(I) /\ v \in Seq(I) /\ IsInjective(v)
      /\ Len(v) <= MaxIds /\ Cardinality(ToSet(v)) = Len(v)
      /\ Len(v) < MaxIds => ToSet(v) = I
      /\ a.ns_total \in Nat /\ Len(v) <= a.ns_total
  BY DEF PidNsInv
<1>2. ToSet(v) \in SUBSET I /\ Len(v) \in Nat
  BY <1>1 DEF ToSet
<1> HIDE DEF I, v
<1>3. Cardinality(I) \in Nat /\ Len(v) <= Cardinality(I)
  BY <1>1, <1>2, FS_Subset, FS_CardinalityType
<1>4. MaxIds \in Int /\ Cardinality(I) \in Int /\ MaxIds \in Nat
  BY <1>3, KernelAssumption
<1>5. Min({MaxIds, Cardinality(I)}) = IF MaxIds <= Cardinality(I) THEN MaxIds ELSE Cardinality(I)
  BY <1>4, OfTwo
<1>6. Len(v) = Min({MaxIds, Cardinality(I)})
  BY <1>1, <1>2, <1>3, <1>4, <1>5
<1>7. Len(v) = Min({MaxIds, Cardinality(I)}) /\ IsInjective(v) /\ ToSet(v) \subseteq I
      /\ a.ns_total >= Len(v)
  BY <1>1, <1>2, <1>6
<1>. QED
  BY <1>7 DEF PidNsMatches, I, v, PidInodes

-----------------------------------------------------------------------------
\* The lines that give the key k a number; the last of them decides.
AuditLines(X, k) == {m \in X : m.key = k /\ m.val # {}}
PassesBy(L, k) == \E m \in L : \A v \in m.val : AuditPass(k, v)

\* What is had and what passes is what the last lines say, key by key.
AuditInv(X, s, a) ==
  /\ a.have = {k \in AuditKeys : Latest(s, AuditLines(X, k)) # {}}
  /\ a.pass = {k \in AuditKeys : PassesBy(Latest(s, AuditLines(X, k)), k)}

\* Nothing is had at first,
LEMMA AuditStarts == \A X : AuditInv(X, <<>>, AuditStart)
BY LatestStart DEF AuditInv, AuditStart, PassesBy

\* a line changes what is said of its own key and of no other,
LEMMA AuditKeeps ==
  ASSUME NEW X, NEW s \in Seq(X), NEW l \in X, NEW a, AuditInv(X, s, a)
  PROVE  AuditInv(X, Append(s, l), AuditStep(a, l))
<1> DEFINE b == AuditStep(a, l)
           t == Append(s, l)
           S(k) == Latest(s, AuditLines(X, k))
           T(k) == Latest(t, AuditLines(X, k))
<1>1. \A k : T(k) = IF l.key = k /\ l.val # {} THEN {l} ELSE S(k)
  <2>1. \A k : l \in AuditLines(X, k) <=> l.key = k /\ l.val # {}
    BY DEF AuditLines
  <2>. QED
    BY <2>1, LatestStep
<1>2. /\ a.have = {k \in AuditKeys : S(k) # {}}
      /\ a.pass = {k \in AuditKeys : PassesBy(S(k), k)}
  BY DEF AuditInv
<1> HIDE DEF S, T
<1>3. CASE l.key \notin AuditKeys \/ l.val = {}
  <2>1. b = a
    BY <1>3 DEF AuditStep
  <2>2. \A k \in AuditKeys : T(k) = S(k)
    BY <1>1, <1>3
  <2>. QED
    BY <1>2, <2>1, <2>2 DEF AuditInv, T
<1>4. CASE ~(l.key \notin AuditKeys \/ l.val = {})
  <2>1. /\ b.have = a.have \union {l.key}
        /\ b.pass = (a.pass \ {l.key}) \union If(\A v \in l.val : AuditPass(l.key, v), {l.key})
    BY <1>4 DEF AuditStep
  <2>2. T(l.key) = {l} /\ \A k : k # l.key => T(k) = S(k)
    BY <1>1, <1>4
  <2>3. PassesBy(T(l.key), l.key) <=> \A v \in l.val : AuditPass(l.key, v)
    BY <2>2 DEF PassesBy
  <2> HIDE DEF b
  <2>4. b.have = {k \in AuditKeys : T(k) # {}}
    BY <1>2, <1>4, <2>1, <2>2
  <2>5. ASSUME NEW k \in AuditKeys PROVE k \in b.pass <=> PassesBy(T(k), k)
    <3>1. CASE k = l.key
      BY <2>1, <2>3, <3>1 DEF If
    <3>2. CASE k # l.key
      BY <1>2, <2>1, <2>2, <3>2 DEF If
    <3>. QED
      BY <3>1, <3>2
  <2>6. b.pass \in SUBSET AuditKeys
    BY <1>2, <1>4, <2>1 DEF If
  <2>7. b.pass = {k \in AuditKeys : PassesBy(T(k), k)}
    BY <2>5, <2>6
  <2>. QED
    BY <2>4, <2>7 DEF AuditInv, T, b
<1>. QED
  BY <1>3, <1>4

\* The audit asks for six keys.
LEMMA SixKeys == IsFiniteSet(AuditKeys) /\ Cardinality(AuditKeys) = 6
<1> DEFINE A == {"kptr"}
           B == A \union {"dmesg"}
           C == B \union {"unpriv_bpf"}
           D == C \union {"symlink"}
           E == D \union {"rpf"}
           F == E \union {"swap"}
<1>1. IsFiniteSet(A) /\ Cardinality(A) = 1
  BY FS_Singleton
<1>2. "dmesg" \notin A /\ "unpriv_bpf" \notin B /\ "symlink" \notin C /\ "rpf" \notin D /\ "swap" \notin E
  OBVIOUS
<1>3. F = AuditKeys
  BY DEF AuditKeys
<1> HIDE DEF A
<1>4. IsFiniteSet(B) /\ Cardinality(B) = 2
  BY <1>1, <1>2, FS_AddElement
<1> HIDE DEF B
<1>5. IsFiniteSet(C) /\ Cardinality(C) = 3
  BY <1>4, <1>2, FS_AddElement
<1> HIDE DEF C
<1>6. IsFiniteSet(D) /\ Cardinality(D) = 4
  BY <1>5, <1>2, FS_AddElement
<1> HIDE DEF D
<1>7. IsFiniteSet(E) /\ Cardinality(E) = 5
  BY <1>6, <1>2, FS_AddElement
<1> HIDE DEF E
<1>8. IsFiniteSet(F) /\ Cardinality(F) = 6
  BY <1>7, <1>2, FS_AddElement
<1>. QED
  BY <1>3, <1>8

\* and the failures are those keys that do not pass and, once more, those that are missing.
LEMMA AuditTells ==
  ASSUME NEW X, NEW s \in Seq(X), NEW a, AuditInv(X, s, a)
  PROVE  AuditMatches(s, a)
<1> DEFINE K == AuditKeys
           p == Cardinality(a.pass)
           m == Cardinality(K \ a.have)
           f == Cardinality(K \ a.pass)
<1>1. \A k \in K : Decided(s, k) = Latest(s, AuditLines(X, k))
  <2>1. \A k \in DOMAIN s : s[k] \in X
    OBVIOUS
  <2>2. DOMAIN s = 1 .. Len(s) /\ Len(s) \in Nat
    OBVIOUS
  <2>3. ASSUME NEW k \in DOMAIN s, NEW j \in k + 1 .. Len(s) PROVE s[j] \in X
    BY <2>1, <2>2
  <2>. QED
    BY <2>1, <2>3 DEF Decided, LastOf, Latest, LastAt, Where, AuditLines
<1>2. a.pass \subseteq K /\ a.have \subseteq K /\ a.pass \subseteq a.have
  BY DEF AuditInv, PassesBy
<1>3. Failing(s) = K \ a.pass
  BY <1>1 DEF Failing, AuditInv, PassesBy
<1>4. Missing(s) = K \ a.have
  BY <1>1 DEF Missing, AuditInv
<1> HIDE DEF K
<1>5. IsFiniteSet(K) /\ Cardinality(K) = 6
  BY SixKeys DEF K
<1>6. IsFiniteSet(a.pass) /\ IsFiniteSet(K \ a.have) /\ IsFiniteSet(K \ a.pass)
  BY <1>2, <1>5, FS_Subset
<1>7. p \in Nat /\ m \in Nat /\ f \in Nat /\ p + f = 6 /\ m <= f
  <2>1. Cardinality(K \ a.pass) = Cardinality(K) - Cardinality(K \cap a.pass)
    BY <1>5, FS_Difference
  <2>2. K \cap a.pass = a.pass /\ K \ a.have \subseteq K \ a.pass
    BY <1>2
  <2>3. m <= f
    BY <1>6, <2>2, FS_Subset
  <2>4. p \in Nat /\ m \in Nat /\ f \in Nat
    BY <1>6, FS_CardinalityType
  <2>5. f = 6 - p
    BY <1>5, <2>1, <2>2
  <2> HIDE DEF p, m, f
  <2>. QED
    BY ONLY <2>3, <2>4, <2>5
<1>8. (f = 0 <=> K \ a.pass = {}) /\ (m = 0 <=> K \ a.have = {})
  BY <1>6, FS_EmptySet
<1>9. AuditFail(a) = 6 - Max({p - m, 0})
  BY <1>5 DEF AuditFail, K
<1> HIDE DEF p, m, f
<1>10. Max({p - m, 0}) = IF p - m >= 0 THEN p - m ELSE 0
  <2>1. p - m \in Int /\ 0 \in Int
    BY <1>7
  <2>. QED
    BY ONLY <2>1, OfTwo
<1>11. Min({6, f + m}) = IF 6 <= f + m THEN 6 ELSE f + m
  BY <1>7, OfTwo
<1>12. AuditFail(a) = Min({6, f + m}) /\ AuditFail(a) \in Nat
  BY <1>7, <1>9, <1>10, <1>11
<1>13. AuditFail(a) = 0 <=> f = 0
  BY <1>7, <1>9, <1>10
<1>14. AuditFail(a) = 1 => m = 0
  BY <1>7, <1>9, <1>10
<1>15. AuditStatus(a) = "OK" <=> AuditFail(a) = 0
  BY <1>12 DEF AuditStatus
<1>16. AuditStatus(a) = "WARN" => AuditFail(a) = 1
  BY <1>12 DEF AuditStatus
<1>. QED
  BY <1>3, <1>4, <1>5, <1>8, <1>12, <1>13, <1>14, <1>15, <1>16 DEF AuditMatches, K, f, m

-----------------------------------------------------------------------------
\* The lines of a setting.
SettingLines(X, k) == {m \in X : m.key = k}

\* The configuration has the last line of each key.
ContainerInv(X, s, a) == a = [k \in ContainerKeys |-> Latest(s, SettingLines(X, k))]

\* None at first,
LEMMA ContainerStarts == \A X : ContainerInv(X, <<>>, ContainerStart)
BY LatestStart DEF ContainerInv, ContainerStart

\* the new one after a line,
LEMMA ContainerKeeps ==
  ASSUME NEW X, NEW s \in Seq(X), NEW l \in X, NEW a, ContainerInv(X, s, a)
  PROVE  ContainerInv(X, Append(s, l), ContainerStep(a, l))
<1> DEFINE S(k) == Latest(s, SettingLines(X, k))
           T(k) == Latest(Append(s, l), SettingLines(X, k))
<1>1. \A k : T(k) = IF l.key = k THEN {l} ELSE S(k)
  <2>1. \A k : l \in SettingLines(X, k) <=> l.key = k
    BY DEF SettingLines
  <2>. QED
    BY <2>1, LatestStep
<1>2. a = [k \in ContainerKeys |-> S(k)]
  BY DEF ContainerInv
<1> HIDE DEF S, T
<1>3. ContainerStep(a, l) = [k \in ContainerKeys |-> T(k)]
  BY <1>1, <1>2 DEF ContainerStep
<1>. QED
  BY <1>3 DEF ContainerInv, T

\* so that the last lines decide whether it is valid.
LEMMA ContainerTells ==
  ASSUME NEW X, NEW s \in Seq(X), NEW a, ContainerInv(X, s, a)
  PROVE  ContainerMatches(s, a)
<1>1. ASSUME NEW k \in ContainerKeys
      PROVE  LastOf(s, LAMBDA m : m.key = k) = a[k]
  <2>1. \A j \in DOMAIN s : s[j] \in X
    OBVIOUS
  <2>2. DOMAIN s = 1 .. Len(s) /\ Len(s) \in Nat
    OBVIOUS
  <2>3. ASSUME NEW i \in DOMAIN s, NEW j \in i + 1 .. Len(s) PROVE s[j] \in X
    BY <2>1, <2>2
  <2>4. a[k] = Latest(s, SettingLines(X, k))
    BY DEF ContainerInv
  <2>. QED
    BY <2>1, <2>3, <2>4 DEF LastOf, Latest, LastAt, Where, SettingLines
<1>2. ASSUME NEW k \in ContainerKeys
      PROVE  a[k] # {} <=> k \in {l.key : l \in ToSet(s)}
  <2>1. a[k] = Latest(s, SettingLines(X, k))
    BY DEF ContainerInv
  <2>2. \A j \in DOMAIN s : s[j] \in X
    OBVIOUS
  <2>3. a[k] = {} <=> \A j \in DOMAIN s : s[j] \notin SettingLines(X, k)
    BY <2>1, LatestIs
  <2>. QED
    BY <2>2, <2>3 DEF SettingLines, ToSet
<1>3. Present(a) = {l.key : l \in ToSet(s)} \cap ContainerKeys
  BY <1>2 DEF Present
<1>. QED
  BY <1>1, <1>3 DEF ContainerMatches, ContainerValid

-----------------------------------------------------------------------------
(* Block 11: the names of a list and the edges of /proc/modules.            *)

\* The separator, and the sign for none; strings are opaque to the arithmetic below.
Comma == ","
Dash == "-"

\* Where a name begins in a list of dependencies, up to its n-th word.
NameStarts(d) == {j \in DOMAIN d : d[j] \notin {Comma, Dash} /\ (j > 1 => d[j - 1] = Comma)}
UpToWord(d, n) == {j \in NameStarts(d) : j <= n}

DepsState(X) == [before : X, n : Nat]
\* One turn of the loop of CountDeps, and its table.
DepsTurn(q, x) ==
  [before |-> x, n |-> IF x # Comma /\ q.before = Comma THEN q.n + 1 ELSE q.n]
DepsTable(X) == [p \in DepsState(X) \X X |-> DepsTurn(p[1], p[2])]

\* The table has a value for each turn.
LEMMA DepsTableFacts ==
  ASSUME NEW X
  PROVE  /\ DepsTable(X) \in [DepsState(X) \X X -> DepsState(X)]
         /\ \A q \in DepsState(X), x \in X : DepsTable(X)[<<q, x>>] = DepsTurn(q, x)
<1>1. ASSUME NEW q \in DepsState(X), NEW x \in X PROVE DepsTurn(q, x) \in DepsState(X)
  <2>1. q.n \in Nat
    BY DEF DepsState
  <2> DEFINE m == IF x # Comma /\ q.before = Comma THEN q.n + 1 ELSE q.n
  <2>2. m \in Nat
    BY <2>1
  <2> HIDE DEF m
  <2>3. [before |-> x, n |-> m] \in DepsState(X)
    BY <2>2 DEF DepsState
  <2>. QED
    BY <2>3 DEF DepsTurn, m
<1>. QED
  BY <1>1 DEF DepsTable

\* The loop of CountDeps.
LEMMA CountDepsRuns ==
  ASSUME NEW X, Comma \in X, NEW d \in Seq(X), d # <<Dash>>
  PROVE  \E g \in [0 .. Len(d) -> DepsState(X)] :
           /\ IsRun(g, DepsTable(X), [before |-> Comma, n |-> 0], d)
           /\ CountDeps(d) = g[Len(d)].n
<1> DEFINE D == DOMAIN d
           F == DepsTable(X)
           b == [before |-> Comma, n |-> 0]
           Rec(h) == h = [S \in SUBSET D |->
                       IF S = {} THEN b ELSE DepsTurn(h[S \ {Max(S)}], d[Max(S)])]
           G == CHOOSE h : Rec(h)
<1>1. CountDeps(d) = G[D].n
  BY DEF CountDeps, FoldLeft, MapThenFoldSet, DepsTurn, Comma, Dash
<1>2. b \in DepsState(X) /\ F \in [DepsState(X) \X X -> DepsState(X)]
  BY DepsTableFacts DEF DepsState
<1>3. \A q \in DepsState(X), x \in X : F[<<q, x>>] = DepsTurn(q, x)
  BY DepsTableFacts
<1>4. ASSUME NEW S \in SUBSET D, S # {}
      PROVE  Max(S) \in S /\ d[Max(S)] \in X /\ S \ {Max(S)} \in SUBSET D
  <2>1. Len(d) \in Nat /\ D = 1 .. Len(d) /\ \A k \in D : d[k] \in X
    OBVIOUS
  <2> HIDE DEF D
  <2>2. Max(S) \in S
    BY <1>4, <2>1, Greatest
  <2>. QED
    BY <2>1, <2>2
<1>5. PICK w \in [SUBSET D -> DepsState(X)] : Folding(w, F, b, d, D)
  <2> HIDE DEF F, b
  <2>. QED
    BY <1>2, FoldExists
<1> HIDE DEF F, b, D
<1>6. Rec(w)
  <2>1. ASSUME NEW S \in SUBSET D
        PROVE  w[S] = IF S = {} THEN b ELSE DepsTurn(w[S \ {Max(S)}], d[Max(S)])
    <3>1. w[S] = IF S = {} THEN b ELSE F[<<w[S \ {Max(S)}], d[Max(S)]>>]
      BY <1>5 DEF Folding
    <3>. QED
      BY <1>3, <1>4, <3>1
  <2>. QED
    BY <2>1
<1>7. Rec(G)
  <2> HIDE DEF Rec
  <2>. QED
    BY <1>6
<1> HIDE DEF G
<1>8. G[{}] = b
  BY <1>7
<1>9. \A S \in SUBSET D : S # {} /\ G[S \ {Max(S)}] \in DepsState(X)
        => G[S] = F[<<G[S \ {Max(S)}], d[Max(S)]>>]
  <2> SUFFICES ASSUME NEW S \in SUBSET D, S # {}, G[S \ {Max(S)}] \in DepsState(X)
               PROVE  G[S] = F[<<G[S \ {Max(S)}], d[Max(S)]>>]
    OBVIOUS
  <2>1. G[S] = DepsTurn(G[S \ {Max(S)}], d[Max(S)])
    BY <1>7
  <2>. QED
    BY <1>3, <1>4, <2>1
<1> HIDE DEF Rec
<1>10. \E g \in [0 .. Len(d) -> DepsState(X)] : IsRun(g, F, b, d) /\ G[D] = g[Len(d)]
  <2>1. \A S \in SUBSET DOMAIN d : S # {} /\ G[S \ {Max(S)}] \in DepsState(X)
          => G[S] = F[<<G[S \ {Max(S)}], d[Max(S)]>>]
    BY <1>9 DEF D
  <2>2. IsFold(G, DepsState(X), X, F, b, d)
    BY <1>2, <1>8, <2>1 DEF IsFold
  <2>. QED
    BY <2>2, FoldRuns DEF D
<1>. QED
  BY <1>1, <1>10 DEF F, b

\* CountDeps counts the places where a name begins.
LEMMA CountDepsCounts ==
  ASSUME NEW X, Comma \in X, NEW d \in Seq(X), d # <<Dash>> => Dash \notin ToSet(d)
  PROVE  /\ CountDeps(d) = Cardinality(NameStarts(d)) /\ CountDeps(d) \in Nat
         /\ IsFiniteSet(NameStarts(d))
<1>0. Len(d) \in Nat /\ DOMAIN d = 1 .. Len(d) /\ NameStarts(d) \in SUBSET DOMAIN d
  <2>1. NameStarts(d) \in SUBSET DOMAIN d
    BY DEF NameStarts
  <2>. QED
    BY <2>1
<1>a. IsFiniteSet(NameStarts(d)) /\ \A T \in SUBSET NameStarts(d) : IsFiniteSet(T) /\ Cardinality(T) \in Nat
  BY <1>0, PlacesAreFinite
<1>1. CASE d = <<Dash>>
  <2>0. \A k \in DOMAIN d : d[k] = Dash
    BY <1>1
  <2>1. NameStarts(d) = {}
    BY <2>0 DEF NameStarts
  <2>. QED
    BY <1>1, <2>1, FS_EmptySet DEF CountDeps, Dash
<1>2. CASE d # <<Dash>>
  <2> DEFINE n == Len(d)
             F == DepsTable(X)
             b == [before |-> Comma, n |-> 0]
             C(k) == Cardinality(UpToWord(d, k))
  <2>1. PICK g \in [0 .. n -> DepsState(X)] : IsRun(g, F, b, d) /\ CountDeps(d) = g[n].n
    BY <1>2, CountDepsRuns
  <2> DEFINE T == {k \in 0 .. n : /\ g[k].n = C(k)
                                  /\ g[k].before = IF k = 0 THEN Comma ELSE d[k]}
  <2>2. 0 \in T
    <3>1. UpToWord(d, 0) = {}
      BY <1>0 DEF UpToWord
    <3>2. g[0] = b /\ b.n = 0 /\ b.before = Comma
      BY <2>1 DEF IsRun
    <3>3. C(0) = 0 /\ 0 \in 0 .. n
      BY <1>0, <3>1, FS_EmptySet
    <3> HIDE DEF b, C
    <3>. QED
      BY <3>2, <3>3
  <2>3. ASSUME NEW k \in 0 .. n - 1, k \in T PROVE k + 1 \in T
    <3> DEFINE m == k + 1
    <3>1. m \in 1 .. n /\ m \in 0 .. n /\ m - 1 = k /\ m > k /\ m # 0 /\ k \in Nat /\ k \in 0 .. n
          /\ (m > 1 <=> k # 0)
      BY <1>0
    <3>2. d[m] \in X /\ d[m] # Dash
      BY <1>0, <1>2, <3>1 DEF ToSet
    <3>3. g[k] \in DepsState(X)
      BY <3>1
    <3>4. g[m] = F[<<g[k], d[m]>>]
      <4> HIDE DEF m, F, b
      <4>. QED
        BY <2>1, <3>1 DEF IsRun
    <3>5. /\ g[m].before = d[m]
          /\ g[m].n = IF d[m] # Comma /\ g[k].before = Comma THEN g[k].n + 1 ELSE g[k].n
      <4>1. g[m] = DepsTurn(g[k], d[m])
        BY <3>2, <3>3, <3>4, DepsTableFacts
      <4>. QED
        BY <4>1 DEF DepsTurn
    <3>6. g[k].n = C(k) /\ g[k].before = (IF k = 0 THEN Comma ELSE d[k]) /\ g[k].n \in Nat
      BY <2>3, <3>3 DEF DepsState
    <3>7. m \in NameStarts(d) <=> d[m] # Comma /\ g[k].before = Comma
      <4>1. m \in NameStarts(d) <=> d[m] # Comma /\ (k # 0 => d[k] = Comma)
        BY <1>0, <3>1, <3>2 DEF NameStarts
      <4>2. CASE k = 0
        BY <3>6, <4>1, <4>2
      <4>3. CASE k # 0
        BY <3>6, <4>1, <4>3
      <4>. QED
        BY <4>2, <4>3
    <3>8. \A j \in NameStarts(d) : j <= m <=> j <= k \/ j = m
      BY <1>0, <3>1
    <3> HIDE DEF m
    <3>9. CASE m \in NameStarts(d)
      <4>1. UpToWord(d, m) = UpToWord(d, k) \union {m} /\ m \notin UpToWord(d, k)
        BY <3>1, <3>8, <3>9 DEF UpToWord
      <4>2. IsFiniteSet(UpToWord(d, k))
        BY <1>a DEF UpToWord
      <4>3. C(m) = C(k) + 1
        BY <4>1, <4>2, FS_AddElement
      <4> HIDE DEF C
      <4>4. g[m].n = C(m) /\ g[m].before = d[m]
        BY <3>5, <3>6, <3>7, <3>9, <4>3
      <4>5. m \in T
        BY <3>1, <4>4
      <4>. QED
        BY <4>5 DEF m
    <3>10. CASE m \notin NameStarts(d)
      <4>1. UpToWord(d, m) = UpToWord(d, k)
        BY <3>8, <3>10 DEF UpToWord
      <4>2. C(m) = C(k)
        BY <4>1
      <4> HIDE DEF C
      <4>3. g[m].n = C(m)
        BY <3>5, <3>6, <3>7, <3>10, <4>2
      <4>4. g[m].before = d[m]
        BY <3>5
      <4>5. m \in T
        BY <3>1, <4>3, <4>4
      <4>. QED
        BY <4>5 DEF m
    <3>. QED
      BY <3>9, <3>10
  <2>4. \A k \in 0 .. n : k \in T
    <3> HIDE DEF T
    <3>. QED
      BY <1>0, <2>2, <2>3, UpTo
  <2>5. n \in 0 .. n
    BY <1>0
  <2>6. g[n].n = C(n)
    BY <2>4, <2>5
  <2>7. UpToWord(d, n) = NameStarts(d)
    BY <1>0 DEF UpToWord
  <2>. QED
    BY <1>a, <2>1, <2>6, <2>7
<1>. QED
  BY <1>1, <1>2

\* The lines of /proc/modules that count.
ModulesRows(X) == {m \in X : m.fields >= 5}
ModulesUsed(X) == {m \in ModulesRows(X) : m.use_count > 0}
ModulesLive(X) == {m \in ModulesRows(X) : m.state = "Live"}

\* The names of the k-th line.
Row(k, d) == {<<k, j>> : j \in NameStarts(d)}
\* All the edges: a line and a place of it where a name begins.
DepEdges(X, s) == UNION {Row(k, s[k].deps) : k \in Where(s, ModulesRows(X))}

\* The counters of /proc/modules; the edges are counted line by line.
ModulesInv(X, s, a) ==
  /\ a.modules = Nr(s, ModulesRows(X)) /\ a.in_use = Nr(s, ModulesUsed(X))
  /\ a.live = Nr(s, ModulesLive(X))
  /\ a.dep_edges \in Nat /\ a.dep_edges = Cardinality(DepEdges(X, s))
  /\ IsFiniteSet(DepEdges(X, s))

\* A line has as many edges as names.
LEMMA RowCounts ==
  ASSUME NEW k, NEW d, IsFiniteSet(NameStarts(d))
  PROVE  IsFiniteSet(Row(k, d)) /\ Cardinality(Row(k, d)) = Cardinality(NameStarts(d))
<1> DEFINE N == NameStarts(d)
           R == Row(k, d)
           f == [j \in N |-> <<k, j>>]
<1>1. R = {<<k, j>> : j \in N}
  BY DEF Row
<1> HIDE DEF N, R
<1>2. f \in Bijection(N, R)
  BY <1>1 DEF Bijection, Injection, Surjection, IsInjective
<1> HIDE DEF f
<1>3. IsFiniteSet(N)
  BY DEF N
<1>. QED
  <2>1. ExistsBijection(N, R)
    BY <1>2 DEF ExistsBijection
  <2>2. IsFiniteSet(R) /\ Cardinality(R) = Cardinality(N)
    BY ONLY <1>3, <2>1, FS_Bijection
  <2>. QED
    BY <2>2 DEF N, R

\* They are zero at first,
LEMMA ModulesStarts == \A X : ModulesInv(X, <<>>, ModulesStart)
<1>1. \A X : Where(<<>>, ModulesRows(X)) = {}
  BY DEF Where
<1>2. \A X : DepEdges(X, <<>>) = {}
  BY <1>1 DEF DepEdges
<1>3. /\ ModulesStart.modules = 0 /\ ModulesStart.in_use = 0
      /\ ModulesStart.live = 0 /\ ModulesStart.dep_edges = 0
  BY DEF ModulesStart, Zero
<1>4. Cardinality({}) = 0 /\ IsFiniteSet({})
  BY FS_EmptySet
<1> SUFFICES ASSUME NEW X PROVE ModulesInv(X, <<>>, ModulesStart)
  OBVIOUS
<1>5. /\ Nr(<<>>, ModulesRows(X)) = 0 /\ Nr(<<>>, ModulesUsed(X)) = 0
      /\ Nr(<<>>, ModulesLive(X)) = 0
  BY NrStart
<1>6. DepEdges(X, <<>>) = {}
  BY <1>2
<1>7. IsFiniteSet(DepEdges(X, <<>>)) /\ Cardinality(DepEdges(X, <<>>)) = 0
  BY <1>4, <1>6
<1> DEFINE a == ModulesStart
<1>8. a.modules = 0 /\ a.in_use = 0 /\ a.live = 0 /\ a.dep_edges = 0
  BY <1>3
<1> HIDE DEF a
<1>9. ModulesInv(X, <<>>, a)
  BY ONLY <1>5, <1>7, <1>8 DEF ModulesInv
<1>. QED
  BY <1>9 DEF a

\* each line adds its own, which no other line has,
LEMMA ModulesKeeps ==
  ASSUME NEW X, NEW s \in Seq(X), NEW l \in X, NEW a, ModulesInv(X, s, a), ModulesLine(l)
  PROVE  ModulesInv(X, Append(s, l), ModulesStep(a, l))
<1> DEFINE b == ModulesStep(a, l)
           t == Append(s, l)
           n == Len(s) + 1
           R == ModulesRows(X)
           E == DepEdges(X, s)
           F == DepEdges(X, t)
           W == Where(s, R)
           V == Where(t, R)
<1>1. /\ a.modules = Nr(s, R) /\ a.in_use = Nr(s, ModulesUsed(X))
      /\ a.live = Nr(s, ModulesLive(X))
      /\ a.dep_edges \in Nat /\ a.dep_edges = Cardinality(E) /\ IsFiniteSet(E)
  BY DEF ModulesInv
<1>2. /\ Nr(t, R) = Nr(s, R) + If01(l \in R)
      /\ Nr(t, ModulesUsed(X)) = Nr(s, ModulesUsed(X)) + If01(l \in ModulesUsed(X))
      /\ Nr(t, ModulesLive(X)) = Nr(s, ModulesLive(X)) + If01(l \in ModulesLive(X))
      /\ Nr(s, R) \in Nat /\ Nr(s, ModulesUsed(X)) \in Nat /\ Nr(s, ModulesLive(X)) \in Nat
  BY NrStep
<1>3. /\ V = IF l \in R THEN W \union {n} ELSE W
      /\ t[n] = l /\ \A k \in W : k # n /\ t[k] = s[k]
  BY AppendFacts DEF Where
<1>4. E = UNION {Row(k, s[k].deps) : k \in W} /\ F = UNION {Row(k, t[k].deps) : k \in V}
  BY DEF DepEdges
<1>5. l \in R <=> ~(l.fields < 5)
  BY DEF ModulesRows, ModulesLine
<1> HIDE DEF t, n, W, V, E, F
<1>6. CASE l \notin R
  <2>1. b = a
    BY <1>5, <1>6 DEF ModulesStep
  <2>2. l \notin ModulesUsed(X) /\ l \notin ModulesLive(X)
    BY <1>6 DEF ModulesUsed, ModulesLive
  <2>3. F = E
    BY <1>3, <1>4, <1>6
  <2> HIDE DEF R, b
  <2>4. /\ b.modules = Nr(t, R) /\ b.in_use = Nr(t, ModulesUsed(X))
        /\ b.live = Nr(t, ModulesLive(X))
    BY <1>1, <1>2, <1>6, <2>1, <2>2 DEF If01
  <2>. QED
    BY <1>1, <2>1, <2>3, <2>4 DEF ModulesInv, t, R, b, F
<1>7. CASE l \in R
  <2> DEFINE D == Row(n, l.deps)
             c == CountDeps(l.deps)
  <2>1. /\ b.modules = a.modules + 1 /\ b.in_use = a.in_use + If01(l.use_count > 0)
        /\ b.dep_edges = a.dep_edges + c /\ b.live = a.live + If01(l.state = "Live")
    BY <1>5, <1>7 DEF ModulesStep
  <2>2. /\ l \in ModulesUsed(X) <=> l.use_count > 0
        /\ l \in ModulesLive(X) <=> l.state = "Live"
    BY <1>7 DEF ModulesUsed, ModulesLive
  <2>3. F = E \union D
    <3>1. V = W \union {n}
      BY <1>3, <1>7
    <3> HIDE DEF R
    <3>. QED
      BY <1>3, <1>4, <3>1
  <2>4. E \cap D = {}
    <3> HIDE DEF R
    <3>. QED
      BY <1>3, <1>4 DEF Row
  <2>5. c \in Nat /\ IsFiniteSet(NameStarts(l.deps)) /\ c = Cardinality(NameStarts(l.deps))
    <3> DEFINE Y == STRING \union {Comma}
    <3>1. Comma \in Y /\ l.deps \in Seq(Y) /\ (l.deps # <<Dash>> => Dash \notin ToSet(l.deps))
      <4>0. l.deps \in Seq(STRING) /\ STRING \subseteq Y
        BY DEF ModulesLine
      <4>1. l.deps \in Seq(Y) /\ (l.deps # <<"-">> => "-" \notin ToSet(l.deps))
        BY <4>0, SeqMonotonic DEF ModulesLine
      <4>2. Comma \in Y
        OBVIOUS
      <4> HIDE DEF Y
      <4>. QED
        BY <4>1, <4>2 DEF Dash
    <3> HIDE DEF Y
    <3>. QED
      BY <3>1, CountDepsCounts
  <2>6. IsFiniteSet(D) /\ Cardinality(D) = c
    BY <2>5, RowCounts
  <2> HIDE DEF D, c, R, b
  <2>7. IsFiniteSet(F) /\ Cardinality(F) = Cardinality(E) + Cardinality(D)
    <3>1. IsFiniteSet(E \union D)
      BY <1>1, <2>6, FS_Union
    <3>2. Cardinality(E \union D) = Cardinality(E) + Cardinality(D) - Cardinality(E \cap D)
      BY <1>1, <2>6, FS_Union
    <3>. QED
      <4>1. Cardinality(E \cap D) = 0
        BY <2>4, FS_EmptySet
      <4>. QED
        BY <1>1, <2>3, <2>5, <2>6, <3>1, <3>2, <4>1
  <2>8. b.dep_edges \in Nat /\ b.dep_edges = Cardinality(F)
    BY <1>1, <2>1, <2>5, <2>6, <2>7
  <2>9. /\ b.modules = Nr(t, R) /\ b.in_use = Nr(t, ModulesUsed(X))
        /\ b.live = Nr(t, ModulesLive(X))
    BY <1>1, <1>2, <1>7, <2>1, <2>2 DEF If01
  <2>. QED
    BY <2>7, <2>8, <2>9 DEF ModulesInv, t, R, b, F
<1>. QED
  BY <1>6, <1>7

\* and then the counters are those of the whole file.
LEMMA ModulesTells ==
  ASSUME NEW X, NEW s \in Seq(X), NEW a, ModulesInv(X, s, a)
  PROVE  ModulesMatches(s, a)
<1> DEFINE K == {k \in DOMAIN s : s[k].fields >= 5}
<1>1. \A k \in DOMAIN s : s[k] \in X
  OBVIOUS
<1>2. /\ K = Where(s, ModulesRows(X))
      /\ {k \in K : s[k].use_count > 0} = Where(s, ModulesUsed(X))
      /\ {k \in K : s[k].state = "Live"} = Where(s, ModulesLive(X))
  BY <1>1 DEF Where, ModulesRows, ModulesUsed, ModulesLive
<1> HIDE DEF K
<1>3. DepEdges(X, s) = UNION {{<<k, j>> : j \in NameStarts(s[k].deps)} : k \in K}
  BY <1>2 DEF DepEdges, Row
<1>4. /\ a.modules = Cardinality(K) /\ a.in_use = Cardinality({k \in K : s[k].use_count > 0})
      /\ a.live = Cardinality({k \in K : s[k].state = "Live"})
  BY <1>2 DEF ModulesInv, Nr
<1>5. a.dep_edges = Cardinality(UNION {{<<k, j>> : j \in NameStarts(s[k].deps)} : k \in K})
  BY <1>3 DEF ModulesInv
<1>. QED
  BY <1>4, <1>5 DEF ModulesMatches, K, NameStarts, Comma, Dash

-----------------------------------------------------------------------------
(* The machine.                                                             *)

\* The file: its lines are lines of the reader, and not too many.
FileInv == tool \in Tool /\ read \in Seq(Lines(tool)) /\ Len(read) <= Longest(tool)

\* What holds of the reader t after it has read s and remembers a.
KernelInv(t, s, a) ==
  /\ t = "modules"   => ModulesInv(Lines(t), s, a)
  /\ t = "lsmod"     => LsmodInv(Lines(t), s, a)
  /\ t = "flags"     => FlagsMatches(s, a)
  /\ t = "cpu"       => CpuMatches(s, a)
  /\ t = "memory"    => MemoryMatches(s, a)
  /\ t = "seccomp"   => SeccompMatches(s, a)
  /\ t = "sysctl"    => SysctlInv(Lines(t), s, a)
  /\ t = "pid_ns"    => PidNsInv(s, a)
  /\ t = "audit"     => AuditInv(Lines(t), s, a)
  /\ t = "container" => ContainerInv(Lines(t), s, a)

\* The file is empty at first,
LEMMA FileStarts == Init => FileInv
<1> SUFFICES ASSUME Init PROVE FileInv
  OBVIOUS
<1>1. tool \in Tool /\ read = <<>> /\ Longest(tool) \in Nat
  BY LinesAssumption DEF Init
<1>2. <<>> \in Seq(Lines(tool)) /\ Len(<<>>) = 0
  OBVIOUS
<1>. QED
  BY <1>1, <1>2 DEF FileInv

\* and stays one that the reader may find.
LEMMA FileKeeps == FileInv /\ [Next]_vars => FileInv'
<1> SUFFICES ASSUME FileInv, [Next]_vars PROVE FileInv'
  OBVIOUS
<1>1. CASE UNCHANGED vars
  BY <1>1 DEF FileInv, vars
<1>2. CASE Next
  <2>1. PICK l \in Lines(tool) : read' = Append(read, l)
    BY <1>2 DEF Next, ReadLine
  <2>2. tool' = tool /\ Len(read) < Longest(tool) /\ Longest(tool) \in Nat
    BY <1>2, LinesAssumption DEF Next, ReadLine, FileInv
  <2>3. Append(read, l) \in Seq(Lines(tool)) /\ Len(Append(read, l)) = Len(read) + 1
        /\ Len(read) \in Nat
    BY AppendFacts DEF FileInv
  <2>. QED
    BY <2>1, <2>2, <2>3 DEF FileInv
<1>. QED
  BY <1>1, <1>2

\* A reader that takes one line has read none before.
LEMMA OneLineStarts ==
  ASSUME NEW t \in Tool, NEW s \in Seq(Lines(t)), Len(s) < Longest(t), t \in OneLine
  PROVE  s = <<>> /\ \A l : Append(s, l) = <<l>>
<1>1. Len(s) \in Nat /\ Longest(t) \in Nat /\ Longest(t) <= 1
  BY LinesAssumption
<1>2. Len(s) = 0
  BY <1>1
<1>3. s = <<>>
  BY <1>2
<1>4. \A l : Append(<<>>, l) = <<l>>
  OBVIOUS
<1>. QED
  BY <1>3, <1>4

\* Each reader of block 11 begins right,
LEMMA KernelStarts == ASSUME NEW t PROVE KernelInv(t, <<>>, Start(t))
<1>1. t = "modules" => ModulesInv(Lines(t), <<>>, Start(t))
  BY ModulesStarts DEF Start
<1>2. t = "lsmod" => LsmodInv(Lines(t), <<>>, Start(t))
  BY LsmodStarts DEF Start
<1>3. t = "flags" => FlagsMatches(<<>>, Start(t))
  BY FlagsTells DEF Start
<1>4. t = "cpu" => CpuMatches(<<>>, Start(t))
  BY ToSetStart DEF Start, CpuMatches, CpuStart
<1>5. t = "memory" => MemoryMatches(<<>>, Start(t))
  BY ToSetStart DEF Start, MemoryMatches, MemoryStart
<1>6. t = "seccomp" => SeccompMatches(<<>>, Start(t))
  BY ToSetStart DEF Start, SeccompMatches, SeccompStart
<1>7. t = "sysctl" => SysctlInv(Lines(t), <<>>, Start(t))
  BY SysctlStarts DEF Start
<1>8. t = "pid_ns" => PidNsInv(<<>>, Start(t))
  BY PidNsStarts DEF Start
<1>9. t = "audit" => AuditInv(Lines(t), <<>>, Start(t))
  BY AuditStarts DEF Start
<1>10. t = "container" => ContainerInv(Lines(t), <<>>, Start(t))
  BY ContainerStarts DEF Start
<1>. QED
  BY <1>1, <1>2, <1>3, <1>4, <1>5, <1>6, <1>7, <1>8, <1>9, <1>10 DEF KernelInv

\* keeps what its invariant says with any next line,
LEMMA KernelKeeps ==
  ASSUME NEW t \in Tool, NEW s \in Seq(Lines(t)), Len(s) < Longest(t), NEW l \in Lines(t),
         NEW a, KernelInv(t, s, a)
  PROVE  KernelInv(t, Append(s, l), Step(t, a, l))
<1> DEFINE X == Lines(t)
<1>0. IsLine(t, l) /\ \A m \in X : IsLine(t, m)
  BY LinesAssumption
<1>a. s \in Seq(X) /\ l \in X
  OBVIOUS
<1> HIDE DEF X
<1>b. t \in OneLine => Append(s, l) = <<l>>
  BY OneLineStarts
<1>1. ASSUME t = "modules" PROVE ModulesInv(X, Append(s, l), Step(t, a, l))
  <2>1. ModulesInv(X, s, a) /\ ModulesLine(l)
    BY <1>0, <1>1 DEF KernelInv, IsLine, X
  <2>2. Step(t, a, l) = ModulesStep(a, l)
    BY <1>1 DEF Step
  <2>. QED
    BY <1>a, <2>1, <2>2, ModulesKeeps
<1>2. ASSUME t = "lsmod" PROVE LsmodInv(X, Append(s, l), Step(t, a, l))
  <2>1. LsmodInv(X, s, a) /\ \A m \in X : LsmodLine(m)
    BY <1>0, <1>2 DEF KernelInv, IsLine, X
  <2>2. Step(t, a, l) = LsmodStep(a, l)
    BY <1>2 DEF Step
  <2>. QED
    BY <1>a, <2>1, <2>2, LsmodKeeps
<1>3. ASSUME t = "flags" PROVE FlagsMatches(Append(s, l), Step(t, a, l))
  <2>1. Append(s, l) = <<l>> /\ Step(t, a, l) = FlagsStep(a, l)
    BY <1>b, <1>3 DEF Step, OneLine
  <2>. QED
    BY <2>1, FlagsTells
<1>4. ASSUME t = "cpu" PROVE CpuMatches(Append(s, l), Step(t, a, l))
  <2>1. Append(s, l) = <<l>> /\ Step(t, a, l) = CpuStep(a, l) /\ CpuLine(l)
    BY <1>0, <1>b, <1>4 DEF Step, OneLine, IsLine
  <2>. QED
    BY <2>1, CpuTells
<1>5. ASSUME t = "memory" PROVE MemoryMatches(Append(s, l), Step(t, a, l))
  <2>1. Append(s, l) = <<l>> /\ Step(t, a, l) = MemoryStep(a, l) /\ MemoryLine(l)
    BY <1>0, <1>b, <1>5 DEF Step, OneLine, IsLine
  <2>. QED
    BY <2>1, MemoryTells
<1>6. ASSUME t = "seccomp" PROVE SeccompMatches(Append(s, l), Step(t, a, l))
  <2>1. Append(s, l) = <<l>> /\ Step(t, a, l) = SeccompStep(a, l) /\ SeccompLine(l)
    BY <1>0, <1>b, <1>6 DEF Step, OneLine, IsLine
  <2>. QED
    BY <2>1, SeccompTells
<1>7. ASSUME t = "sysctl" PROVE SysctlInv(X, Append(s, l), Step(t, a, l))
  <2>1. SysctlInv(X, s, a) /\ Step(t, a, l) = SysctlStep(a, l)
    BY <1>7 DEF KernelInv, X, Step
  <2>. QED
    BY <1>a, <2>1, SysctlKeeps
<1>8. ASSUME t = "pid_ns" PROVE PidNsInv(Append(s, l), Step(t, a, l))
  <2>1. PidNsInv(s, a) /\ Step(t, a, l) = PidNsStep(a, l)
    BY <1>8 DEF KernelInv, Step
  <2>. QED
    BY <1>a, <2>1, PidNsKeeps
<1>9. ASSUME t = "audit" PROVE AuditInv(X, Append(s, l), Step(t, a, l))
  <2>1. AuditInv(X, s, a) /\ Step(t, a, l) = AuditStep(a, l)
    BY <1>9 DEF KernelInv, X, Step
  <2>. QED
    BY <1>a, <2>1, AuditKeeps
<1>10. ASSUME t = "container" PROVE ContainerInv(X, Append(s, l), Step(t, a, l))
  <2>1. ContainerInv(X, s, a) /\ Step(t, a, l) = ContainerStep(a, l)
    BY <1>10 DEF KernelInv, X, Step
  <2>. QED
    BY <1>a, <2>1, ContainerKeeps
<1>. QED
  BY <1>1, <1>2, <1>3, <1>4, <1>5, <1>6, <1>7, <1>8, <1>9, <1>10 DEF KernelInv, X

\* and its invariant says that the report matches the file.
LEMMA KernelTells ==
  ASSUME FileInv, KernelInv(tool, read, acc)
  PROVE  KernelReportsMatch
<1> DEFINE X == Lines(tool)
<1>0. read \in Seq(X) /\ \A m \in X : IsLine(tool, m)
  BY LinesAssumption DEF FileInv
<1> HIDE DEF X
<1>1. tool = "modules" => ModulesMatches(read, acc)
  BY <1>0, ModulesTells DEF KernelInv, X
<1>2. tool = "lsmod" => LsmodMatches(read, acc)
  <2>1. tool = "lsmod" => \A m \in X : LsmodLine(m)
    BY <1>0 DEF IsLine
  <2>. QED
    BY <1>0, <2>1, LsmodTells DEF KernelInv, X
<1>3. tool = "sysctl" => SysctlMatches(read, acc)
  BY <1>0, SysctlTells DEF KernelInv, X
<1>4. tool = "pid_ns" => PidNsMatches(read, acc)
  BY <1>0, PidNsTells DEF KernelInv
<1>5. tool = "audit" => AuditMatches(read, acc)
  BY <1>0, AuditTells DEF KernelInv, X
<1>6. tool = "container" => ContainerMatches(read, acc)
  BY <1>0, ContainerTells DEF KernelInv, X
<1>. QED
  BY <1>1, <1>2, <1>3, <1>4, <1>5, <1>6 DEF KernelInv, KernelReportsMatch

\* The reports of block 11 (KernelTools) say of the file that was read what it says,
\* whatever its lines are, in any order, and however many: the modules and their
\* dependencies, the first of the largest, flags, limits, profile, settings, ids, audit
\* and configuration.
THEOREM KernelReportsAreRight == Spec => []KernelReportsMatch
<1> DEFINE I == FileInv /\ KernelInv(tool, read, acc)
<1>1. Init => I
  BY FileStarts, KernelStarts DEF Init
<1>2. I /\ [Next]_vars => I'
  <2> SUFFICES ASSUME I, [Next]_vars PROVE KernelInv(tool', read', acc')
    BY FileKeeps
  <2>1. CASE UNCHANGED vars
    BY <2>1 DEF vars
  <2>2. CASE Next
    <3>1. PICK l \in Lines(tool) : read' = Append(read, l) /\ acc' = Step(tool, acc, l)
      BY <2>2 DEF Next, ReadLine
    <3>2. tool' = tool /\ Len(read) < Longest(tool)
      BY <2>2 DEF Next, ReadLine
    <3>3. tool \in Tool /\ read \in Seq(Lines(tool))
      BY DEF FileInv
    <3>. QED
      BY <3>1, <3>2, <3>3, KernelKeeps
  <2>. QED
    BY <2>1, <2>2
<1>3. I => KernelReportsMatch
  BY KernelTells
<1>. QED
  BY <1>1, <1>2, <1>3, PTL DEF Spec

-----------------------------------------------------------------------------
(* Block 10: TLS policy, SMTP replies and health.                           *)

\* The last value of a setting of the TLS policy.
TlsLatest(X, s, k) == Latest(s, SettingLines(X, k))
\* What the policy has is what the last line of each setting says.
TlsInv(X, s, a) ==
  /\ a.saw = {k \in TlsKeys : TlsLatest(X, s, k) # {}}
  /\ a.ok = {k \in TlsKeys : \E m \in TlsLatest(X, s, k) : TlsGood(m)}

\* It has nothing at first,
LEMMA TlsStarts == \A X : TlsInv(X, <<>>, TlsStart)
BY LatestStart DEF TlsInv, TlsStart, TlsLatest

\* the new line decides its own setting and no other,
LEMMA TlsKeeps ==
  ASSUME NEW X, NEW s \in Seq(X), NEW l \in X, NEW a, TlsInv(X, s, a)
  PROVE  TlsInv(X, Append(s, l), TlsStep(a, l))
<1> DEFINE b == TlsStep(a, l)
           S(k) == TlsLatest(X, s, k)
           T(k) == TlsLatest(X, Append(s, l), k)
<1>1. \A k : T(k) = IF l.key = k THEN {l} ELSE S(k)
  <2>1. \A k : l \in SettingLines(X, k) <=> l.key = k
    BY DEF SettingLines
  <2>. QED
    BY <2>1, LatestStep DEF TlsLatest
<1>2. /\ a.saw = {k \in TlsKeys : S(k) # {}}
      /\ a.ok = {k \in TlsKeys : \E m \in S(k) : TlsGood(m)}
  BY DEF TlsInv
<1> HIDE DEF S, T
<1>3. CASE l.key \notin TlsKeys
  <2>1. b = a
    BY <1>3 DEF TlsStep
  <2>2. \A k \in TlsKeys : T(k) = S(k)
    BY <1>1, <1>3
  <2>. QED
    BY <1>2, <2>1, <2>2 DEF TlsInv, T
<1>4. CASE l.key \in TlsKeys
  <2>1. /\ b.saw = a.saw \union {l.key}
        /\ b.ok = (a.ok \ {l.key}) \union If(TlsGood(l), {l.key})
    BY <1>4 DEF TlsStep
  <2>2. T(l.key) = {l} /\ \A k : k # l.key => T(k) = S(k)
    BY <1>1
  <2> HIDE DEF b
  <2>3. b.saw = {k \in TlsKeys : T(k) # {}}
    BY <1>2, <1>4, <2>1, <2>2
  <2>4. ASSUME NEW k \in TlsKeys PROVE k \in b.ok <=> \E m \in T(k) : TlsGood(m)
    <3>1. CASE k = l.key
      BY <2>1, <2>2, <3>1 DEF If
    <3>2. CASE k # l.key
      BY <1>2, <2>1, <2>2, <3>2 DEF If
    <3>. QED
      BY <3>1, <3>2
  <2>5. b.ok \in SUBSET TlsKeys
    BY <1>2, <1>4, <2>1 DEF If
  <2>6. b.ok = {k \in TlsKeys : \E m \in T(k) : TlsGood(m)}
    BY <2>4, <2>5
  <2>. QED
    BY <2>3, <2>6 DEF TlsInv, T, b
<1>. QED
  BY <1>3, <1>4

\* and the policy is valid by the last lines alone.
LEMMA TlsTells ==
  ASSUME NEW X, NEW s \in Seq(X), NEW a, TlsInv(X, s, a)
  PROVE  TlsMatches(s, a)
<1>1. ASSUME NEW k \in TlsKeys
      PROVE  LastOf(s, LAMBDA m : m.key = k) = TlsLatest(X, s, k)
  <2>1. \A j \in DOMAIN s : s[j] \in X
    OBVIOUS
  <2>2. DOMAIN s = 1 .. Len(s) /\ Len(s) \in Nat
    OBVIOUS
  <2>3. ASSUME NEW i \in DOMAIN s, NEW j \in i + 1 .. Len(s) PROVE s[j] \in X
    BY <2>1, <2>2
  <2>. QED
    BY <2>1, <2>3 DEF LastOf, TlsLatest, Latest, LastAt, Where, SettingLines
<1>2. ASSUME NEW k \in TlsKeys
      PROVE  TlsLatest(X, s, k) = {} <=> Count(s, LAMBDA m : m.key = k) = 0
  <2>1. \A j \in DOMAIN s : s[j] \in X
    OBVIOUS
  <2>2. Count(s, LAMBDA m : m.key = k) = Nr(s, SettingLines(X, k))
    BY <2>1 DEF Count, Nr, Where, SettingLines
  <2>3. TlsLatest(X, s, k) = {} <=> \A j \in DOMAIN s : s[j] \notin SettingLines(X, k)
    BY LatestIs DEF TlsLatest
  <2>. QED
    BY <2>2, <2>3, NrFacts
<1>3. a.ok \subseteq a.saw /\ a.saw \subseteq TlsKeys
  BY DEF TlsInv
<1>4. TlsReport(a) = "strong" <=> a.ok = TlsKeys
  <2>1. a.ok = TlsKeys => a.saw = TlsKeys
    BY <1>3
  <2>. QED
    BY <2>1 DEF TlsReport
<1>5. TlsReport(a) = "error" <=> a.saw # TlsKeys
  BY DEF TlsReport
<1>6. a.ok = TlsKeys <=> \A k \in TlsKeys : \E m \in TlsLatest(X, s, k) : TlsGood(m)
  BY DEF TlsInv
<1>7. a.saw # TlsKeys <=> \E k \in TlsKeys : TlsLatest(X, s, k) = {}
  BY DEF TlsInv
<1>8. TlsReport(a) = "strong" <=>
       \A k \in TlsKeys : \E l \in LastOf(s, LAMBDA m : m.key = k) : TlsGood(l)
  BY <1>1, <1>4, <1>6
<1>9. TlsReport(a) = "error" <=> \E k \in TlsKeys : Count(s, LAMBDA m : m.key = k) = 0
  BY <1>2, <1>5, <1>7
<1>. QED
  BY <1>8, <1>9 DEF TlsMatches

-----------------------------------------------------------------------------
\* The replies that greet, that name a capability, and that offer TLS.
ReplyGreets(X) == {m \in X : m.code = {220}}
ReplyCaps(X) == {m \in X : m.code = {250} /\ m.cont}
ReplyTls(X) == {m \in X : m.code = {250} /\ m.starttls}

\* The counters of the replies.
ReplyInv(X, s, a) ==
  /\ a.caps = Nr(s, ReplyCaps(X)) /\ a.greet \in {0, 220}
  /\ a.greet = 220 <=> Nr(s, ReplyGreets(X)) > 0
  /\ a.starttls <=> Nr(s, ReplyTls(X)) > 0
  /\ a.caps > 0 \/ a.starttls => a.final = 250

\* They are zero at first,
LEMMA ReplyStarts == \A X : ReplyInv(X, <<>>, ReplyStart)
BY NrStart DEF ReplyInv, ReplyStart

\* count each reply by its code,
LEMMA ReplyKeeps ==
  ASSUME NEW X, NEW s \in Seq(X), NEW l \in X, NEW a, ReplyInv(X, s, a)
  PROVE  ReplyInv(X, Append(s, l), ReplyStep(a, l))
<1> DEFINE b == ReplyStep(a, l)
           t == Append(s, l)
           G(q) == Nr(q, ReplyGreets(X))
           C(q) == Nr(q, ReplyCaps(X))
           S(q) == Nr(q, ReplyTls(X))
           u == a.starttls \/ (l.code = {250} /\ l.starttls)
<1>1. /\ G(t) = G(s) + If01(l \in ReplyGreets(X)) /\ G(s) \in Nat
      /\ C(t) = C(s) + If01(l \in ReplyCaps(X)) /\ C(s) \in Nat
      /\ S(t) = S(s) + If01(l \in ReplyTls(X)) /\ S(s) \in Nat
  BY NrStep
<1>2. /\ l \in ReplyGreets(X) <=> l.code = {220}
      /\ l \in ReplyCaps(X) <=> l.code = {250} /\ l.cont
      /\ l \in ReplyTls(X) <=> l.code = {250} /\ l.starttls
  BY DEF ReplyGreets, ReplyCaps, ReplyTls
<1>3. /\ a.caps = C(s) /\ a.greet \in {0, 220} /\ (a.greet = 220 <=> G(s) > 0)
      /\ (a.starttls <=> S(s) > 0) /\ (a.caps > 0 \/ a.starttls => a.final = 250)
  BY DEF ReplyInv
<1>4. /\ b.greet = (IF a.greet = 0 /\ l.code = {220} THEN 220 ELSE a.greet)
      /\ b.final = (IF l.code = {250} THEN 250 ELSE a.final)
      /\ b.caps = (IF l.code = {250} /\ l.cont THEN a.caps + 1 ELSE a.caps)
      /\ b.starttls = u
  BY DEF ReplyStep
<1>5. u \in BOOLEAN /\ (u <=> a.starttls \/ (l.code = {250} /\ l.starttls))
  OBVIOUS
<1> HIDE DEF b, t, G, C, S, u
<1>6. b.starttls <=> a.starttls \/ (l.code = {250} /\ l.starttls)
  BY <1>4, <1>5
<1>7. b.caps = C(t) /\ b.greet \in {0, 220} /\ (b.greet = 220 <=> G(t) > 0)
  BY <1>1, <1>2, <1>3, <1>4 DEF If01
<1>8. b.starttls <=> S(t) > 0
  BY <1>1, <1>2, <1>3, <1>6 DEF If01
<1>9. b.caps > 0 \/ b.starttls => b.final = 250
  BY <1>1, <1>3, <1>4, <1>6
<1>. QED
  BY <1>7, <1>8, <1>9 DEF ReplyInv, b, t, G, C, S

\* and then say what the whole dialogue says.
LEMMA ReplyTells ==
  ASSUME NEW X, NEW s \in Seq(X), NEW a, ReplyInv(X, s, a)
  PROVE  ReplyMatches(s, a)
<1>1. \A k \in DOMAIN s : s[k] \in X
  OBVIOUS
<1>2. Count(s, LAMBDA l : l.code = {250} /\ l.cont) = Nr(s, ReplyCaps(X))
  BY <1>1 DEF Count, Nr, Where, ReplyCaps
<1>3. Count(s, LAMBDA l : l.code = {220}) = Nr(s, ReplyGreets(X))
  BY <1>1 DEF Count, Nr, Where, ReplyGreets
<1>4. Count(s, LAMBDA l : l.code = {250} /\ l.starttls) = Nr(s, ReplyTls(X))
  BY <1>1 DEF Count, Nr, Where, ReplyTls
<1>. QED
  BY <1>2, <1>3, <1>4 DEF ReplyMatches, ReplyInv

-----------------------------------------------------------------------------
\* What the health report counts.
HealthKeys == {"services", "ok", "warn", "crit"}

\* The words of a file.
HealthWords(s) == UNION {l.status : l \in ToSet(s)}

\* Counted as crit, as crit or warn, or as anything.
HealthOf(a, W) ==
  /\ a \in [HealthKeys -> Nat]
  /\ a.services = a.ok + a.warn + a.crit
  /\ a.crit > 0 <=> W \ {"ok", "OK", "warn", "Warn"} # {}
  /\ a.warn > 0 <=> W \cap {"warn", "Warn"} # {}

\* No status, no service.
LEMMA HealthOfNothing == HealthOf(Zero(HealthKeys), {})
<1>1. /\ Zero(HealthKeys) \in [HealthKeys -> Nat]
      /\ \A k \in HealthKeys : Zero(HealthKeys)[k] = 0
  BY ZeroFacts
<1>. QED
  BY <1>1 DEF HealthOf, HealthKeys

\* A word more.
LEMMA HealthOfOneMore ==
  ASSUME NEW a, NEW W, NEW w, HealthOf(a, W)
  PROVE  HealthOf(Bump(a, {"services", HealthCounter(w)}), W \union {w})
<1> DEFINE c == HealthCounter(w)
           b == Bump(a, {"services", c})
<1>1. /\ a \in [HealthKeys -> Nat]
      /\ a.services = a.ok + a.warn + a.crit
      /\ (a.crit > 0 <=> W \ {"ok", "OK", "warn", "Warn"} # {})
      /\ (a.warn > 0 <=> W \cap {"warn", "Warn"} # {})
  BY DEF HealthOf
<1>2. /\ c \in {"ok", "warn", "crit"}
      /\ c = "warn" <=> w \in {"warn", "Warn"}
      /\ c = "crit" <=> w \notin {"ok", "OK", "warn", "Warn"}
  BY DEF HealthCounter, LowerAscii
<1> HIDE DEF c
<1>3. b \in [HealthKeys -> Nat]
      /\ \A k \in HealthKeys : b[k] = a[k] + If01(k \in {"services", c})
  BY <1>1, BumpFacts
<1> HIDE DEF b
<1>4. /\ b.services = a.services + 1 /\ b.ok = a.ok + If01(c = "ok")
      /\ b.warn = a.warn + If01(c = "warn") /\ b.crit = a.crit + If01(c = "crit")
  BY <1>2, <1>3 DEF HealthKeys, If01
<1>5. a.ok \in Nat /\ a.warn \in Nat /\ a.crit \in Nat /\ a.services \in Nat
  BY <1>1 DEF HealthKeys
<1>6. b.services = b.ok + b.warn + b.crit
  BY <1>1, <1>2, <1>4, <1>5 DEF If01
<1>7. /\ b.crit > 0 <=> a.crit > 0 \/ c = "crit"
      /\ b.warn > 0 <=> a.warn > 0 \/ c = "warn"
  BY <1>4, <1>5 DEF If01
<1>8. b.crit > 0 <=> (W \union {w}) \ {"ok", "OK", "warn", "Warn"} # {}
  BY <1>1, <1>2, <1>7
<1>9. b.warn > 0 <=> (W \union {w}) \cap {"warn", "Warn"} # {}
  BY <1>1, <1>2, <1>7
<1>. QED
  BY <1>3, <1>6, <1>8, <1>9 DEF HealthOf, b, c

\* Nothing is counted of a line without a word.
LEMMA BumpNothing ==
  ASSUME NEW C, NEW a \in [C -> Nat]
  PROVE  Bump(a, {}) = a
BY DEF Bump

\* The words of a line, of which there is at most one.
LEMMA HealthOfParsed ==
  ASSUME NEW a, NEW W, NEW V, HealthOf(a, W), \A v, w \in V : v = w
  PROVE  HealthOf(Bump(a, UNION {{"services", HealthCounter(w)} : w \in V}), W \union V)
<1>1. CASE V = {}
  <2>1. UNION {{"services", HealthCounter(w)} : w \in V} = {} /\ W \union V = W
    BY <1>1
  <2>2. Bump(a, {}) = a
    BY BumpNothing DEF HealthOf
  <2>. QED
    BY <2>1, <2>2
<1>2. CASE V # {}
  <2>1. PICK w : V = {w}
    BY <1>2
  <2>2. UNION {{"services", HealthCounter(v)} : v \in V} = {"services", HealthCounter(w)}
    BY <2>1
  <2>. QED
    BY <2>1, <2>2, HealthOfOneMore
<1>. QED
  BY <1>1, <1>2

\* The health of the words read so far.
HealthInv(s, a) == HealthOf(a, HealthWords(s))

\* Before any word all is well,
LEMMA HealthStarts == HealthInv(<<>>, HealthStart)
<1>1. HealthWords(<<>>) = {} /\ HealthStart = Zero(HealthKeys)
  BY ToSetStart DEF HealthWords, HealthStart, HealthKeys
<1>. QED
  BY <1>1, HealthOfNothing DEF HealthInv

\* a line adds its word, if it has one,
LEMMA HealthKeeps ==
  ASSUME NEW X, NEW s \in Seq(X), NEW l \in X, NEW a, HealthInv(s, a), HealthLine(l)
  PROVE  HealthInv(Append(s, l), HealthStep(a, l))
<1>1. HealthWords(Append(s, l)) = HealthWords(s) \union l.status
  BY ToSetStep DEF HealthWords
<1>2. \A v, w \in l.status : v = w
  BY DEF HealthLine, Parsed
<1>. QED
  BY <1>1, <1>2, HealthOfParsed DEF HealthInv, HealthStep

\* and the worst status is decided by two counters,
LEMMA WorstFacts ==
  ASSUME NEW a, NEW W, HealthOf(a, W)
  PROVE  /\ Worst(a) = "OK" <=> W \subseteq {"ok", "OK"}
         /\ Worst(a) = "CRIT" <=> W \ {"ok", "OK", "warn", "Warn"} # {}
         /\ Worst(a) = "WARN" <=> W \cap {"warn", "Warn"} # {}
                                    /\ W \subseteq {"ok", "OK", "warn", "Warn"}
<1>1. a.crit \in Nat /\ a.warn \in Nat
  BY DEF HealthOf, HealthKeys
<1>2. /\ Worst(a) = "CRIT" <=> a.crit > 0
      /\ Worst(a) = "WARN" <=> ~(a.crit > 0) /\ a.warn > 0
      /\ Worst(a) = "OK" <=> ~(a.crit > 0) /\ ~(a.warn > 0)
  BY <1>1 DEF Worst
<1>. QED
  BY <1>2 DEF HealthOf

\* that is by the worst single line.
LEMMA HealthTells ==
  ASSUME NEW X, NEW s \in Seq(X), NEW a, HealthInv(s, a)
  PROVE  HealthMatches(s, a)
<1>1. HealthOf(a, HealthWords(s))
  BY DEF HealthInv
<1>2. a.services = a.ok + a.warn + a.crit
  BY <1>1 DEF HealthOf
<1>3. HealthWords(s) \subseteq {"ok", "OK"}
        <=> \A l \in ToSet(s) : l.status \subseteq {"ok", "OK"}
  BY DEF HealthWords
<1>4. HealthWords(s) \ {"ok", "OK", "warn", "Warn"} # {}
        <=> \E l \in ToSet(s) : l.status \ {"ok", "OK", "warn", "Warn"} # {}
  BY DEF HealthWords
<1>. QED
  BY <1>1, <1>2, <1>3, <1>4, WorstFacts DEF HealthMatches

-----------------------------------------------------------------------------
(* Block 10: exports and their clients.                                     *)

\* The clients of a file, and those of them that are in Q.
Clients(s) == UNION {{<<i, j>> : j \in DOMAIN s[i]} : i \in DOMAIN s}
\* The clients with an option, or with any.
ClientsOf(s, Q) == {p \in Clients(s) : s[p[1]][p[2]] \in Q}
Nonempty(Y) == Y \ {{}}
WithOption(Y, o) == {c \in Y : o \in c}

\* Pairs with the same first part are as many as their second parts.
LEMMA PairsCount ==
  ASSUME NEW k, NEW N, IsFiniteSet(N)
  PROVE  /\ IsFiniteSet({<<k, j>> : j \in N})
         /\ Cardinality({<<k, j>> : j \in N}) = Cardinality(N)
<1> DEFINE R == {<<k, j>> : j \in N}
           f == [j \in N |-> <<k, j>>]
<1>1. f \in Bijection(N, R)
  BY DEF Bijection, Injection, Surjection, IsInjective
<1> HIDE DEF f, R
<1>2. ExistsBijection(N, R)
  BY <1>1 DEF ExistsBijection
<1>3. IsFiniteSet(R) /\ Cardinality(R) = Cardinality(N)
  BY ONLY <1>2, FS_Bijection, IsFiniteSet(N)
<1>. QED
  BY <1>3 DEF R

\* A line more adds its own clients.
LEMMA ClientsStep ==
  ASSUME NEW Y, NEW s \in Seq(Seq(Y)), NEW l \in Seq(Y), NEW Q, IsFiniteSet(ClientsOf(s, Q))
  PROVE  /\ IsFiniteSet(ClientsOf(Append(s, l), Q)) /\ Nr(l, Q) \in Nat
         /\ Cardinality(ClientsOf(s, Q)) \in Nat
         /\ Cardinality(ClientsOf(Append(s, l), Q)) = Cardinality(ClientsOf(s, Q)) + Nr(l, Q)
<1> DEFINE t == Append(s, l)
           n == Len(s) + 1
           E == ClientsOf(s, Q)
           F == ClientsOf(t, Q)
           N == Where(l, Q)
           D == {<<n, j>> : j \in N}
<1>1. /\ DOMAIN t = DOMAIN s \union {n} /\ n \notin DOMAIN s /\ t[n] = l
      /\ \A k \in DOMAIN s : t[k] = s[k]
  BY AppendFacts
<1>2. IsFiniteSet(N) /\ Nr(l, Q) = Cardinality(N) /\ Nr(l, Q) \in Nat
  <2>1. N \in SUBSET DOMAIN l /\ Len(l) \in Nat /\ DOMAIN l = 1 .. Len(l)
    BY DEF Where
  <2> HIDE DEF N
  <2>2. IsFiniteSet(N) /\ Cardinality(N) \in Nat
    BY <2>1, PlacesAreFinite
  <2>. QED
    BY <2>2 DEF Nr, N
<1> HIDE DEF t, n
<1>3. Clients(t) = Clients(s) \union {<<n, j>> : j \in DOMAIN l}
  BY <1>1 DEF Clients
<1>4. \A p \in Clients(s) : p[1] \in DOMAIN s /\ t[p[1]] = s[p[1]]
  BY <1>1 DEF Clients
<1>5. F = E \union D
  <2>1. \A p \in Clients(s) : p \in F <=> p \in E
    BY <1>3, <1>4 DEF ClientsOf
  <2>2. \A j \in DOMAIN l : <<n, j>> \in F <=> <<n, j>> \in D
    BY <1>1, <1>3 DEF ClientsOf, Where
  <2>3. D \subseteq {<<n, j>> : j \in DOMAIN l} /\ E \subseteq Clients(s)
        /\ F \subseteq Clients(s) \union {<<n, j>> : j \in DOMAIN l}
    BY <1>3 DEF ClientsOf, Where
  <2> HIDE DEF E, F, D
  <2>4. ASSUME NEW p \in F PROVE p \in E \union D
    <3>1. CASE p \in Clients(s)
      BY <2>1, <3>1
    <3>2. CASE p \notin Clients(s)
      <4>1. PICK j \in DOMAIN l : p = <<n, j>>
        BY <2>3, <3>2
      <4>. QED
        BY <2>2, <4>1
    <3>. QED
      BY <3>1, <3>2
  <2>5. ASSUME NEW p \in D PROVE p \in F
    <3>1. PICK j \in DOMAIN l : p = <<n, j>>
      BY <2>3
    <3>. QED
      BY <2>2, <3>1
  <2>. QED
    BY <2>1, <2>3, <2>4, <2>5
<1>6. E \cap D = {}
  <2>1. \A p \in E : p[1] \in DOMAIN s
    BY <1>4 DEF ClientsOf
  <2>2. \A p \in D : p[1] = n
    OBVIOUS
  <2>. QED
    BY <1>1, <2>1, <2>2
<1>7. IsFiniteSet(D) /\ Cardinality(D) = Cardinality(N)
  <2> HIDE DEF N
  <2>. QED
    BY <1>2, PairsCount
<1> HIDE DEF E, F, D, N
<1>a. IsFiniteSet(E)
  BY DEF E
<1>8. IsFiniteSet(E \union D)
      /\ Cardinality(E \union D) = Cardinality(E) + Cardinality(D) - Cardinality(E \cap D)
  BY <1>7, <1>a, FS_Union
<1>9. Cardinality(E \cap D) = 0 /\ Cardinality(E) \in Nat
  BY <1>6, <1>a, FS_EmptySet, FS_CardinalityType
<1>10. Cardinality(F) = Cardinality(E) + Nr(l, Q)
  BY <1>2, <1>5, <1>7, <1>8, <1>9
<1>. QED
  BY <1>2, <1>5, <1>8, <1>9, <1>10 DEF E, F, t

\* The counter c is that of the clients in Q.
CountsOf(s, Q, c) == c = Cardinality(ClientsOf(s, Q)) /\ IsFiniteSet(ClientsOf(s, Q))

\* The counters of /etc/exports: clients are counted line by line.
ExportsInv(Y, s, a) ==
  /\ a.exports = Len(s)
  /\ CountsOf(s, Nonempty(Y), a.hosts)
  /\ CountsOf(s, WithOption(Y, "rw"), a.rw)
  /\ CountsOf(s, WithOption(Y, "ro"), a.ro)
  /\ CountsOf(s, WithOption(Y, "no_root_squash"), a.no_root_squash)

\* Before any line there are no clients.
LEMMA CountsStart == \A Q : CountsOf(<<>>, Q, 0)
<1>1. \A Q : ClientsOf(<<>>, Q) = {}
  BY DEF ClientsOf, Clients
<1>. QED
  BY <1>1, FS_EmptySet DEF CountsOf

\* A line adds its own clients, which no other line has.
LEMMA CountsStep ==
  ASSUME NEW Y, NEW s \in Seq(Seq(Y)), NEW l \in Seq(Y), NEW Q, NEW c, CountsOf(s, Q, c)
  PROVE  CountsOf(Append(s, l), Q, c + Nr(l, Q))
BY ClientsStep DEF CountsOf

\* The counters are zero at first,
LEMMA ExportsStarts == \A Y : ExportsInv(Y, <<>>, ExportsStart)
<1>1. /\ ExportsStart.exports = 0 /\ ExportsStart.hosts = 0 /\ ExportsStart.rw = 0
      /\ ExportsStart.ro = 0 /\ ExportsStart.no_root_squash = 0
  BY DEF ExportsStart, Zero
<1>2. Len(<<>>) = 0
  OBVIOUS
<1>. QED
  BY <1>1, <1>2, CountsStart DEF ExportsInv

\* each line adds what its loop counts,
LEMMA ExportsKeeps ==
  ASSUME NEW Y, NEW s \in Seq(Seq(Y)), NEW l \in Seq(Y), NEW a, ExportsInv(Y, s, a)
  PROVE  ExportsInv(Y, Append(s, l), ExportsStep(a, l))
<1> DEFINE b == ExportsStep(a, l)
<1>0. \A i \in DOMAIN l : l[i] \in Y
  OBVIOUS
<1>1. Cardinality({i \in DOMAIN l : l[i] # {}}) = Nr(l, Nonempty(Y))
  BY <1>0 DEF Nr, Where, Nonempty
<1>2. \A o : With(l, o) = Nr(l, WithOption(Y, o))
  BY <1>0 DEF Nr, Where, WithOption, With
<1>3. /\ b.exports = a.exports + 1 /\ b.hosts = a.hosts + Nr(l, Nonempty(Y))
      /\ b.rw = a.rw + Nr(l, WithOption(Y, "rw")) /\ b.ro = a.ro + Nr(l, WithOption(Y, "ro"))
      /\ b.no_root_squash = a.no_root_squash + Nr(l, WithOption(Y, "no_root_squash"))
  BY <1>1, <1>2 DEF ExportsStep
<1> HIDE DEF b
<1>4. b.exports = Len(Append(s, l))
  BY <1>3 DEF ExportsInv
<1>. QED
  BY <1>3, <1>4, CountsStep DEF ExportsInv, b

\* and then the counters are those of the whole file.
LEMMA ExportsTells ==
  ASSUME NEW Y, NEW s \in Seq(Seq(Y)), NEW a, ExportsInv(Y, s, a)
  PROVE  ExportsMatches(s, a)
<1> DEFINE P == Clients(s)
           Of(o) == {p \in P : o \in s[p[1]][p[2]]}
           None == {p \in P : s[p[1]][p[2]] = {}}
           Some == {p \in P : s[p[1]][p[2]] # {}}
<1>1. \A p \in P : s[p[1]][p[2]] \in Y
  <2> SUFFICES ASSUME NEW p \in P PROVE s[p[1]][p[2]] \in Y
    OBVIOUS
  <2>1. PICK i \in DOMAIN s : \E j \in DOMAIN s[i] : p = <<i, j>>
    BY DEF Clients
  <2>2. PICK j \in DOMAIN s[i] : p = <<i, j>>
    BY <2>1
  <2>3. s[i] \in Seq(Y)
    OBVIOUS
  <2>. QED
    BY <2>2, <2>3
<1>2. Some = ClientsOf(s, Nonempty(Y)) /\ \A o : Of(o) = ClientsOf(s, WithOption(Y, o))
  BY <1>1 DEF ClientsOf, Nonempty, WithOption
<1>3. /\ a.hosts = Cardinality(Some) /\ IsFiniteSet(Some)
      /\ a["rw"] = Cardinality(Of("rw")) /\ a["ro"] = Cardinality(Of("ro"))
      /\ a["no_root_squash"] = Cardinality(Of("no_root_squash"))
  BY <1>2 DEF ExportsInv, CountsOf
<1>4. ASSUME NEW o PROVE Cardinality(Of(o)) <= Cardinality(Some)
  <2>1. Of(o) \subseteq Some
    OBVIOUS
  <2>. QED
    BY <1>3, <2>1, FS_Subset
<1>5. IsFiniteSet(P)
  <2>1. \A i \in DOMAIN s : IsFiniteSet({<<i, j>> : j \in DOMAIN s[i]})
    <3> SUFFICES ASSUME NEW i \in DOMAIN s PROVE IsFiniteSet({<<i, j>> : j \in DOMAIN s[i]})
      OBVIOUS
    <3>1. s[i] \in Seq(Y)
      OBVIOUS
    <3>2. DOMAIN s[i] = 1 .. Len(s[i]) /\ Len(s[i]) \in Nat
      BY <3>1
    <3>3. IsFiniteSet(DOMAIN s[i])
      BY <3>2, PlacesAreFinite
    <3>. QED
      BY <3>3, PairsCount
  <2>2. IsFiniteSet(DOMAIN s)
    <3>1. DOMAIN s = 1 .. Len(s) /\ Len(s) \in Nat
      OBVIOUS
    <3>. QED
      BY <3>1, PlacesAreFinite
  <2> DEFINE f == [i \in DOMAIN s |-> {<<i, j>> : j \in DOMAIN s[i]}]
             G == {f[i] : i \in DOMAIN s}
  <2>3. IsFiniteSet(G)
    <3>1. f \in Surjection(DOMAIN s, G)
      BY DEF Surjection
    <3> HIDE DEF f, G
    <3>. QED
      BY ONLY <2>2, <3>1, FS_Surjection
  <2>4. \A T \in G : IsFiniteSet(T)
    BY <2>1
  <2>5. P = UNION G
    BY DEF Clients
  <2> HIDE DEF G, P
  <2>. QED
    BY <2>3, <2>4, <2>5, FS_UNION
<1>6. Cardinality(Some) + Cardinality(None) = Cardinality(P)
  <2>1. P \ Some = None /\ P \cap Some = Some
    OBVIOUS
  <2> HIDE DEF P, Some, None
  <2>2. Cardinality(P \ Some) = Cardinality(P) - Cardinality(P \cap Some)
    BY <1>5, FS_Difference
  <2>3. Cardinality(P) \in Nat /\ Cardinality(Some) \in Nat
    BY <1>3, <1>5, FS_CardinalityType
  <2>4. Cardinality(None) = Cardinality(P) - Cardinality(Some)
    BY ONLY <2>1, <2>2
  <2>. QED
    BY ONLY <2>3, <2>4
<1>7. \A o \in {"rw", "ro", "no_root_squash"} : a[o] = Cardinality(Of(o)) /\ a[o] <= a.hosts
  BY <1>3, <1>4
<1>8. a.exports = Len(s) /\ a.hosts + Cardinality(None) = Cardinality(P)
  BY <1>3, <1>6 DEF ExportsInv
<1>. QED
  BY <1>7, <1>8 DEF ExportsMatches, Clients

-----------------------------------------------------------------------------
(* Block 10: the best mail exchanger.                                       *)

\* The lines that name a mail exchanger, and what they name.
MxRows(X) == {m \in X : MxCandidate(0, m)}
MxNamed(l) == [pref |-> Min(l.pref), host |-> l.host.base]
MxChoice(s) == {MxNamed(l) : l \in {m \in ToSet(s) : MxCandidate(0, m)}}
MxRecords == [pref : Int, host : Int]
\* The order of preferences, then of names.
MxLeast(c, d) == c = d \/ MxLess(c.pref, c.host, d)

\* The best exchanger so far: it is one of those read, and none is better.
MxInv(X, s, a) ==
  /\ a = Failed <=> \E l \in ToSet(s) : l.ntok > MxTokens
  /\ a # Failed =>
       /\ a.count = Nr(s, MxRows(X))
       /\ a.best \subseteq MxChoice(s) /\ (MxChoice(s) # {} => a.best # {})
       /\ \A b \in a.best, c \in MxChoice(s) : MxLeast(b, c)

\* A count and a choice are no failure.
LEMMA MxStartIsNoFailure == \A n, B : [count |-> n, best |-> B] # Failed
<1>1. \A n, B : DOMAIN [count |-> n, best |-> B] = {"count", "best"}
  OBVIOUS
<1>2. DOMAIN Failed = {"failed"} /\ "count" \notin {"failed"}
  BY DEF Failed
<1>. QED
  BY <1>1, <1>2

\* There is none at first,
LEMMA MxStarts == \A X : MxInv(X, <<>>, MxStart)
<1>1. MxChoice(<<>>) = {} /\ MxStart # Failed
  BY ToSetStart, MxStartIsNoFailure DEF MxChoice, MxStart
<1>2. MxStart.count = 0 /\ MxStart.best = {}
  BY DEF MxStart
<1>. QED
  BY <1>1, <1>2, ToSetStart, NrStart DEF MxInv

\* The order of the candidates is total.
LEMMA MxOrder ==
  ASSUME NEW c \in MxRecords, NEW d \in MxRecords, NEW e \in MxRecords
  PROVE  /\ MxLess(c.pref, c.host, d) \/ MxLeast(d, c)
         /\ MxLeast(c, d) /\ MxLeast(d, e) => MxLeast(c, e)
         /\ MxLess(c.pref, c.host, d) /\ MxLeast(d, e) => MxLess(c.pref, c.host, e)
<1>1. /\ c.pref \in Int /\ c.host \in Int /\ d.pref \in Int /\ d.host \in Int
      /\ e.pref \in Int /\ e.host \in Int
  BY DEF MxRecords
<1>2. c = d <=> c.pref = d.pref /\ c.host = d.host
  BY DEF MxRecords
<1>3. d = e <=> d.pref = e.pref /\ d.host = e.host
  BY DEF MxRecords
<1>4. c = e <=> c.pref = e.pref /\ c.host = e.host
  BY DEF MxRecords
<1>. QED
  BY <1>1, <1>2, <1>3, <1>4 DEF MxLeast, MxLess

\* The least of one number.
LEMMA MxOfOne == \A p \in Int : Min({p}) = p
<1>1. \A p \in Int : {p, p} = {p}
  OBVIOUS
<1>. QED
  BY <1>1, OfTwo

\* a line replaces it only by a better one, and one with too many tokens ends the parse,
LEMMA MxKeeps ==
  ASSUME NEW X, NEW s \in Seq(X), NEW l \in X, NEW a, MxInv(X, s, a), a # Failed,
         \A m \in X : MxLine(m), MxTokens \in Int
  PROVE  MxInv(X, Append(s, l), MxStep(0, a, l))
<1> DEFINE b == MxStep(0, a, l)
           t == Append(s, l)
           B == a.best
           C == MxChoice(s)
           D == MxChoice(t)
           c == MxNamed(l)
<1>1. /\ a.count = Nr(s, MxRows(X))
      /\ B \subseteq C /\ (C # {} => B # {})
      /\ \A x \in B, y \in C : MxLeast(x, y)
      /\ \A m \in ToSet(s) : ~(m.ntok > MxTokens)
  BY DEF MxInv
<1>2. ToSet(t) = ToSet(s) \union {l} /\ ToSet(s) \subseteq X
  BY ToSetStep
<1>3. Nr(t, MxRows(X)) = Nr(s, MxRows(X)) + If01(l \in MxRows(X)) /\ Nr(s, MxRows(X)) \in Nat
  BY NrStep
<1>4. l \in MxRows(X) <=> MxCandidate(0, l)
  BY DEF MxRows
<1>5. D = IF MxCandidate(0, l) THEN C \union {c} ELSE C
  BY <1>2 DEF MxChoice
<1>6. \A m \in X : MxCandidate(0, m) => MxNamed(m) \in MxRecords /\ m.pref = {Min(m.pref)}
  <2> SUFFICES ASSUME NEW m \in X, MxCandidate(0, m)
               PROVE  MxNamed(m) \in MxRecords /\ m.pref = {Min(m.pref)}
    OBVIOUS
  <2>1. PICK p \in m.pref : p \in MxRange
    BY DEF MxCandidate
  <2>2. m.pref = {p} /\ p \in Int /\ m.host.base \in Int
    <3>1. MxLine(m)
      OBVIOUS
    <3>2. m.pref \subseteq {p} /\ p \in Int /\ m.host.base \in Int
      BY <3>1 DEF MxLine, Parsed
    <3>. QED
      BY <3>2
  <2>3. Min(m.pref) = p
    BY <2>2, MxOfOne
  <2>. QED
    BY <2>2, <2>3 DEF MxNamed, MxRecords
<1>7. C \subseteq MxRecords
  BY <1>2, <1>6 DEF MxChoice
<1>8. l.ntok \in Int
  BY DEF MxLine
<1>9. CASE l.ntok > MxTokens
  <2>1. b = Failed
    BY <1>8, <1>9 DEF MxStep
  <2>. QED
    BY <1>2, <1>9, <2>1 DEF MxInv
<1>10. CASE l.ntok <= MxTokens /\ ~MxCandidate(0, l)
  <2>1. b = a
    BY <1>8, <1>10 DEF MxStep
  <2>2. D = C /\ Nr(t, MxRows(X)) = Nr(s, MxRows(X))
    BY <1>3, <1>4, <1>5, <1>10 DEF If01
  <2>3. \A m \in ToSet(t) : ~(m.ntok > MxTokens)
    BY <1>1, <1>2, <1>8, <1>10
  <2> HIDE DEF b, B, C, D, t
  <2>. QED
    BY <1>1, <2>1, <2>2, <2>3 DEF MxInv, b, B, C, D, t
<1>11. CASE l.ntok <= MxTokens /\ MxCandidate(0, l)
  <2> DEFINE p == Min(l.pref)
             h == l.host.base
             E == IF \A x \in B : MxLess(p, h, x) THEN {c} ELSE B
             S == UNION {IF \A x \in B : MxLess(q, h, x) THEN {[pref |-> q, host |-> h]} ELSE B : q \in l.pref}
  <2>1. l.pref = {p} /\ c = [pref |-> p, host |-> h] /\ c \in MxRecords
    BY <1>6, <1>11 DEF MxNamed
  <2>2. S = E
    BY <2>1
  <2>3. ~(l.ntok > MxTokens)
    BY <1>8, <1>11
  <2>4. b = [count |-> a.count + 1, best |-> S]
    BY <2>3, <1>11 DEF MxStep, NormalizeDnsName
  <2> HIDE DEF S
  <2>5. b # Failed /\ b.count = a.count + 1 /\ b.best = E
    <3>1. b.count = a.count + 1 /\ b.best = S /\ b # Failed
      BY <2>4, MxStartIsNoFailure
    <3>. QED
      BY <2>2, <3>1
  <2>6. c.pref = p /\ c.host = h
    BY <2>1
  <2>7. D = C \union {c} /\ D # {}
    BY <1>5, <1>11
  <2> HIDE DEF p, h, c, D, C, B, b
  <2>8. E \subseteq D /\ E # {} /\ \A x \in E, y \in D : MxLeast(x, y)
    <3>1. CASE \A x \in B : MxLess(p, h, x)
      <4>1. E = {c}
        BY <3>1
      <4>2. ASSUME NEW y \in C PROVE MxLeast(c, y)
        <5>1. PICK x \in B : TRUE
          BY <1>1, <4>2
        <5>2. MxLess(c.pref, c.host, x) /\ MxLeast(x, y) /\ x \in MxRecords /\ y \in MxRecords
          BY <1>1, <1>7, <2>6, <3>1
        <5>3. MxLess(c.pref, c.host, y)
          BY <2>1, <5>2, MxOrder
        <5>. QED
          BY <5>3 DEF MxLeast
      <4>3. MxLeast(c, c)
        BY DEF MxLeast
      <4>. QED
        BY <2>7, <4>1, <4>2, <4>3
    <3>2. CASE ~(\A x \in B : MxLess(p, h, x))
      <4>1. E = B
        BY <3>2
      <4>2. PICK z \in B : ~MxLess(c.pref, c.host, z)
        BY <2>6, <3>2
      <4>3. MxLeast(z, c) /\ z \in MxRecords
        BY <1>1, <1>7, <2>1, <4>2, MxOrder
      <4>4. ASSUME NEW x \in B PROVE MxLeast(x, c)
        <5>1. MxLeast(x, z) /\ x \in MxRecords
          BY <1>1, <1>7
        <5>. QED
          BY <2>1, <4>3, <5>1, MxOrder
      <4>. QED
        BY <1>1, <2>7, <4>1, <4>2, <4>4
    <3>. QED
      BY <3>1, <3>2
  <2>9. \A m \in ToSet(t) : ~(m.ntok > MxTokens)
    BY <1>1, <1>2, <2>3
  <2>10. b.count = Nr(t, MxRows(X))
    BY <1>1, <1>3, <1>4, <1>11, <2>5 DEF If01
  <2> HIDE DEF E
  <2>. QED
    BY <2>5, <2>7, <2>8, <2>9, <2>10 DEF MxInv, b, D
<1>. QED
  BY <1>8, <1>9, <1>10, <1>11

\* and the one chosen is the best of the file.
LEMMA MxTells ==
  ASSUME NEW X, NEW s \in Seq(X), NEW a, MxInv(X, s, a)
  PROVE  MxMatches(0, s, a)
<1>1. \A k \in DOMAIN s : s[k] \in X
  OBVIOUS
<1>2. Count(s, LAMBDA l : MxCandidate(0, l)) = Nr(s, MxRows(X))
  BY <1>1 DEF Count, Nr, Where, MxRows
<1>3. MxChoice(s) = {[pref |-> Min(l.pref), host |-> l.host.base] :
              l \in {m \in ToSet(s) : MxCandidate(0, m)}}
  BY DEF MxChoice, MxNamed
<1>4. \A b, c : MxLeast(b, c) <=> c = b \/ MxLess(b.pref, b.host, c)
  BY DEF MxLeast
<1> HIDE DEF MxChoice
<1>. QED
  BY <1>2, <1>3, <1>4 DEF MxMatches, MxInv

-----------------------------------------------------------------------------
(* Block 10: the dialogue of SMTP.                                          *)

\* The states of a dialogue and what it remembers.
SmtpStates == {"GREET", "MAIL", "RCPT_OR_DATA", "DATA_BODY", "QUIT", "DONE"}
SmtpRecords == [state : SmtpStates, valid : BOOLEAN, rcpt : Nat, body : Nat]
\* Commands of the dialogue; as opaque names they do not burden the arithmetic below.
Greetings == {"EHLO", "HELO"}
Rcpt == "RCPT TO"
Nothing == ""
MailFrom == "MAIL FROM"
HeaderLines == {Rcpt, ""}


\* The first n lines are a greeting and nothing more.
Greeted(s, n) ==
  \E g \in 1 .. n : s[g] \in Greetings /\ Blank(s, 1, g - 1) /\ Blank(s, g + 1, n)

\* The recipients among the first n lines.
RcptsTo(s, n) == {i \in 1 .. n : s[i] = Rcpt}

\* They are a greeting, a sender and r recipients.
Headed(s, n, r) ==
  /\ \E g, m \in 1 .. n :
       /\ g < m /\ s[g] \in Greetings /\ s[m] = "MAIL FROM"
       /\ Blank(s, 1, g - 1) /\ Blank(s, g + 1, m - 1)
       /\ \A i \in m + 1 .. n : s[i] \in HeaderLines
  /\ r = Cardinality(RcptsTo(s, n))

\* A body of c lines or more was begun at the place d, and has none that ends it before e.
Begun(s, d, e, r) ==
  /\ d \in DOMAIN s /\ s[d] = "DATA" /\ Headed(s, d - 1, r) /\ r >= 1
  /\ \A i \in d + 1 .. e - 1 : s[i] # "."

\* After the body: QUIT and empty lines.
QuitsAfter(s, e) ==
  \E q \in e + 1 .. Len(s) :
     s[q] = "QUIT" /\ Blank(s, e + 1, q - 1) /\ Blank(s, q + 1, Len(s))

\* The whole dialogue, of r recipients and c lines.
Accepted(s, r, c) ==
  \E d, e \in DOMAIN s :
    d < e /\ s[e] = "." /\ Begun(s, d, e, r) /\ c = e - d - 1 /\ QuitsAfter(s, e)

\* Each state says what the lines so far have been; an invalid dialogue stays invalid.
SmtpInv(s, a) ==
  /\ a \in SmtpRecords
  /\ (a.valid /\ a.state = "DONE") <=> Accepted(s, a.rcpt, a.body)
  /\ a.valid =>
       /\ a.state = "GREET" => Blank(s, 1, Len(s)) /\ a.rcpt = 0 /\ a.body = 0
       /\ a.state = "MAIL" => Greeted(s, Len(s)) /\ a.rcpt = 0 /\ a.body = 0
       /\ a.state = "RCPT_OR_DATA" => Headed(s, Len(s), a.rcpt) /\ a.body = 0
       /\ a.state = "DATA_BODY" =>
            \E d \in DOMAIN s : Begun(s, d, Len(s) + 1, a.rcpt) /\ a.body = Len(s) - d
       /\ a.state = "QUIT" =>
            \E d, e \in DOMAIN s :
              /\ d < e /\ s[e] = "." /\ Begun(s, d, e, a.rcpt) /\ a.body = e - d - 1
              /\ Blank(s, e + 1, Len(s))

\* What is said of the first n lines holds whatever follows.
LEMMA SmtpSame ==
  ASSUME NEW s, NEW t, NEW n \in Nat, \A i \in 1 .. n : t[i] = s[i]
  PROVE  /\ \A i, j \in Int : i >= 1 /\ j <= n => (Blank(t, i, j) <=> Blank(s, i, j))
         /\ RcptsTo(t, n) = RcptsTo(s, n)
         /\ \A r : Headed(t, n, r) <=> Headed(s, n, r)
<1>1. ASSUME NEW i \in Int, NEW j \in Int, i >= 1, j <= n
      PROVE  Blank(t, i, j) <=> Blank(s, i, j)
  <2>1. \A k \in i .. j : k \in 1 .. n
    BY <1>1
  <2>. QED
    BY <2>1 DEF Blank
<1>2. RcptsTo(t, n) = RcptsTo(s, n)
  BY DEF RcptsTo
<1>3. ASSUME NEW g \in 1 .. n, NEW m \in 1 .. n, g < m
      PROVE  /\ Blank(t, 1, g - 1) <=> Blank(s, 1, g - 1)
             /\ Blank(t, g + 1, m - 1) <=> Blank(s, g + 1, m - 1)
             /\ \A i \in m + 1 .. n : t[i] = s[i]
             /\ t[g] = s[g] /\ t[m] = s[m]
  <2>1. g - 1 \in Int /\ g + 1 \in Int /\ m - 1 \in Int /\ 1 \in Int
        /\ g - 1 <= n /\ m - 1 <= n /\ g + 1 >= 1 /\ \A i \in m + 1 .. n : i \in 1 .. n
    OBVIOUS
  <2>. QED
    BY <1>1, <2>1
<1>4. ASSUME NEW r PROVE Headed(t, n, r) <=> Headed(s, n, r)
  <2>2. ASSUME Headed(t, n, r) PROVE Headed(s, n, r)
    <3>1. PICK g \in 1 .. n, m \in 1 .. n :
            /\ g < m /\ t[g] \in Greetings /\ t[m] = "MAIL FROM"
            /\ Blank(t, 1, g - 1) /\ Blank(t, g + 1, m - 1)
            /\ \A i \in m + 1 .. n : t[i] \in HeaderLines
      BY <2>2 DEF Headed
    <3>2. /\ s[g] \in Greetings /\ s[m] = "MAIL FROM"
          /\ Blank(s, 1, g - 1) /\ Blank(s, g + 1, m - 1)
          /\ \A i \in m + 1 .. n : s[i] \in HeaderLines
      BY <1>3, <3>1
    <3>. QED
      BY <1>2, <2>2, <3>1, <3>2 DEF Headed
  <2>3. ASSUME Headed(s, n, r) PROVE Headed(t, n, r)
    <3>1. PICK g \in 1 .. n, m \in 1 .. n :
            /\ g < m /\ s[g] \in Greetings /\ s[m] = "MAIL FROM"
            /\ Blank(s, 1, g - 1) /\ Blank(s, g + 1, m - 1)
            /\ \A i \in m + 1 .. n : s[i] \in HeaderLines
      BY <2>3 DEF Headed
    <3>2. /\ t[g] \in Greetings /\ t[m] = "MAIL FROM"
          /\ Blank(t, 1, g - 1) /\ Blank(t, g + 1, m - 1)
          /\ \A i \in m + 1 .. n : t[i] \in HeaderLines
      BY <1>3, <3>1
    <3>. QED
      BY <1>2, <2>3, <3>1, <3>2 DEF Headed
  <2>. QED
    BY <2>2, <2>3
<1>. QED
  BY <1>1, <1>2, <1>4

\* There is no body before it is begun.
LEMMA NoDataYet ==
  ASSUME NEW s, NEW n \in Nat,
         Blank(s, 1, n) \/ Greeted(s, n) \/ \E r : Headed(s, n, r)
  PROVE  \A i \in 1 .. n : s[i] # "DATA"
<1> SUFFICES ASSUME NEW i \in 1 .. n, s[i] = "DATA" PROVE FALSE
  OBVIOUS
<1>1. ~Blank(s, 1, n)
  BY DEF Blank
<1>2. ~Greeted(s, n)
  <2> SUFFICES ASSUME NEW g \in 1 .. n, s[g] \in Greetings, Blank(s, 1, g - 1), Blank(s, g + 1, n)
               PROVE  FALSE
    BY DEF Greeted
  <2>1. i \in 1 .. g - 1 \/ i = g \/ i \in g + 1 .. n
    OBVIOUS
  <2>. QED
    BY <2>1 DEF Blank, Greetings, HeaderLines, Rcpt
<1>3. ASSUME NEW r, Headed(s, n, r) PROVE FALSE
  <2>1. PICK g \in 1 .. n, m \in 1 .. n :
          /\ g < m /\ s[g] \in Greetings /\ s[m] = "MAIL FROM"
          /\ Blank(s, 1, g - 1) /\ Blank(s, g + 1, m - 1)
          /\ \A k \in m + 1 .. n : s[k] \in HeaderLines
    BY <1>3 DEF Headed
  <2>2. i \in 1 .. g - 1 \/ i = g \/ i \in g + 1 .. m - 1 \/ i = m \/ i \in m + 1 .. n
    <3>1. g < m
      BY <2>1
    <3>. QED
      BY ONLY <3>1, g \in 1 .. n, m \in 1 .. n, i \in 1 .. n, n \in Nat
  <2>. QED
    BY <2>1, <2>2 DEF Blank, Greetings, HeaderLines, Rcpt
<1>. QED
  BY <1>1, <1>2, <1>3

\* One more line of the header.
LEMMA HeadedStep ==
  ASSUME NEW X, NEW s \in Seq(X), NEW l \in X, NEW r \in Nat, Headed(s, Len(s), r),
         l \in HeaderLines
  PROVE  Headed(Append(s, l), Len(s) + 1, r + If01(l = Rcpt))
<1> DEFINE t == Append(s, l)
           n == Len(s)
<1>1. n \in Nat /\ t[n + 1] = l /\ \A i \in 1 .. n : t[i] = s[i]
  BY AppendFacts
<1> HIDE DEF t
<1>2. Headed(t, n, r)
  BY <1>1, SmtpSame
<1>3. PICK g \in 1 .. n, m \in 1 .. n :
        /\ g < m /\ t[g] \in Greetings /\ t[m] = "MAIL FROM"
        /\ Blank(t, 1, g - 1) /\ Blank(t, g + 1, m - 1)
        /\ \A i \in m + 1 .. n : t[i] \in HeaderLines
  BY <1>2 DEF Headed
<1>4. \A i \in m + 1 .. n + 1 : t[i] \in HeaderLines
  <2>1. \A i \in m + 1 .. n + 1 : i \in m + 1 .. n \/ i = n + 1
    BY <1>1
  <2>. QED
    BY <1>1, <1>3, <2>1
<1>5. g \in 1 .. n + 1 /\ m \in 1 .. n + 1
  BY <1>1
<1>6. r = Cardinality(RcptsTo(t, n))
  BY <1>2 DEF Headed
<1>7. IsFiniteSet(RcptsTo(t, n))
  <2>1. IsFiniteSet(1 .. n)
    BY <1>1, FS_Interval
  <2>2. RcptsTo(t, n) \subseteq 1 .. n
    BY DEF RcptsTo
  <2>. QED
    BY ONLY <2>1, <2>2, FS_Subset
<1>8. \A i : i \in 1 .. n + 1 <=> i \in 1 .. n \/ i = n + 1
  BY <1>1
<1>9. n + 1 \notin 1 .. n
  BY <1>1
<1>10. CASE l = Rcpt
  <2>1. RcptsTo(t, n + 1) = RcptsTo(t, n) \union {n + 1} /\ n + 1 \notin RcptsTo(t, n)
    BY <1>1, <1>8, <1>9, <1>10 DEF RcptsTo
  <2>2. Cardinality(RcptsTo(t, n + 1)) = r + 1
    BY <1>6, <1>7, <2>1, FS_AddElement
  <2>. QED
    BY <1>3, <1>4, <1>5, <1>10, <2>2 DEF Headed, If01, t
<1>11. CASE l # Rcpt
  <2>1. RcptsTo(t, n + 1) = RcptsTo(t, n)
    BY <1>1, <1>8, <1>11 DEF RcptsTo
  <2>2. Cardinality(RcptsTo(t, n + 1)) = r
    BY <1>6, <2>1
  <2>. QED
    <3>1. r + If01(l = Rcpt) = r
      BY <1>11 DEF If01
    <3>2. Headed(t, n + 1, r)
      BY <1>3, <1>4, <1>5, <2>2 DEF Headed
    <3>. QED
      BY <3>1, <3>2 DEF t
<1>. QED
  BY <1>10, <1>11

\* Only the last line may begin a body: nothing is accepted.
LEMMA NoBodyNotAccepted ==
  ASSUME NEW X, NEW s \in Seq(X), NEW l \in X, \A i \in 1 .. Len(s) : s[i] # "DATA"
  PROVE  \A r, c : ~Accepted(Append(s, l), r, c)
<1> DEFINE t == Append(s, l)
<1>1. Len(s) \in Nat /\ DOMAIN t = 1 .. Len(s) + 1 /\ \A i \in 1 .. Len(s) : t[i] = s[i]
  BY AppendFacts
<1> HIDE DEF t
<1>2. ASSUME NEW r, NEW c, NEW d \in DOMAIN t, NEW e \in DOMAIN t, d < e, Begun(t, d, e, r)
      PROVE  FALSE
  <2>1. d \in 1 .. Len(s)
    BY <1>1, <1>2
  <2>. QED
    BY <1>1, <1>2, <2>1 DEF Begun
<1>. QED
  BY <1>2 DEF Accepted, t

\* There is one place only where a body may begin.
LEMMA OneBody ==
  ASSUME NEW X, NEW s \in Seq(X), NEW d, NEW e, NEW r, NEW f, NEW g, NEW q,
         Begun(s, d, e, r), Begun(s, f, g, q)
  PROVE  d = f /\ r = q
<1>1. Len(s) \in Nat /\ DOMAIN s = 1 .. Len(s)
  OBVIOUS
<1>2. /\ d \in 1 .. Len(s) /\ s[d] = "DATA" /\ Headed(s, d - 1, r)
      /\ f \in 1 .. Len(s) /\ s[f] = "DATA" /\ Headed(s, f - 1, q)
  BY <1>1 DEF Begun
<1>3. d - 1 \in Nat /\ f - 1 \in Nat
  BY <1>1, <1>2
<1>4. d \notin 1 .. f - 1 /\ f \notin 1 .. d - 1
  BY <1>2, <1>3, NoDataYet
<1>5. d = f
  BY <1>1, <1>2, <1>4
<1>. QED
  BY <1>2, <1>5 DEF Headed

\* A body that has not ended is not accepted.
LEMMA BodyNotAccepted ==
  ASSUME NEW X, NEW s \in Seq(X), NEW d, NEW r, Begun(s, d, Len(s) + 1, r)
  PROVE  \A q, c : ~Accepted(s, q, c)
<1>1. Len(s) \in Nat /\ DOMAIN s = 1 .. Len(s)
  OBVIOUS
<1>2. ASSUME NEW q, NEW f \in DOMAIN s, NEW g \in DOMAIN s, f < g, s[g] = ".", Begun(s, f, g, q)
      PROVE  FALSE
  <2>1. f = d
    BY <1>2, OneBody
  <2>2. g \in d + 1 .. Len(s) + 1 - 1
    BY <1>1, <1>2, <2>1
  <2>. QED
    BY <1>2, <2>2 DEF Begun
<1>. QED
  BY <1>2 DEF Accepted

\* Nor is one that ended, when the dialogue does not end with QUIT alone.
LEMMA EndedNotAccepted ==
  ASSUME NEW X, NEW s \in Seq(X), NEW d, NEW e \in DOMAIN s, NEW r, d < e, s[e] = ".",
         Begun(s, d, e, r), ~QuitsAfter(s, e)
  PROVE  \A q, c : ~Accepted(s, q, c)
<1>1. Len(s) \in Nat /\ DOMAIN s = 1 .. Len(s) /\ d \in DOMAIN s
  BY DEF Begun
<1>2. ASSUME NEW q, NEW f \in DOMAIN s, NEW g \in DOMAIN s, f < g, s[g] = ".", Begun(s, f, g, q)
      PROVE  g = e
  <2>1. f = d
    BY <1>2, OneBody
  <2>2. ~(g \in d + 1 .. e - 1)
    BY <1>2 DEF Begun
  <2>3. ~(e \in f + 1 .. g - 1)
    BY <1>2 DEF Begun
  <2>. QED
    BY <1>1, <1>2, <2>1, <2>2, <2>3
<1>. QED
  BY <1>2 DEF Accepted

\* A body that was begun stays begun.
LEMMA BegunStep ==
  ASSUME NEW X, NEW s \in Seq(X), NEW l \in X, NEW d, NEW e \in Int, NEW r, e <= Len(s) + 1,
         Begun(s, d, e, r)
  PROVE  Begun(Append(s, l), d, e, r)
<1> DEFINE t == Append(s, l)
<1>1. Len(s) \in Nat /\ DOMAIN s = 1 .. Len(s) /\ DOMAIN t = 1 .. Len(s) + 1
      /\ \A i \in 1 .. Len(s) : t[i] = s[i]
  BY AppendFacts
<1> HIDE DEF t
<1>2. d \in 1 .. Len(s) /\ s[d] = "DATA" /\ Headed(s, d - 1, r) /\ r >= 1
      /\ \A i \in d + 1 .. e - 1 : s[i] # "."
  BY <1>1 DEF Begun
<1>3. d - 1 \in Nat /\ d \in DOMAIN t /\ \A i \in 1 .. d - 1 : i \in 1 .. Len(s)
  BY <1>1, <1>2
<1>4. Headed(t, d - 1, r)
  BY <1>1, <1>2, <1>3, SmtpSame
<1>5. t[d] = "DATA"
  BY <1>1, <1>2
<1>6. \A i \in d + 1 .. e - 1 : i \in 1 .. Len(s)
  BY <1>1, <1>2
<1>7. \A i \in d + 1 .. e - 1 : t[i] # "."
  BY <1>1, <1>2, <1>6
<1>. QED
  BY <1>2, <1>3, <1>4, <1>5, <1>7 DEF Begun, t

\* Lines of nothing, and one more.
LEMMA BlankStep ==
  ASSUME NEW X, NEW s \in Seq(X), NEW l \in X, NEW i \in Nat, i >= 1
  PROVE  /\ \A j \in Int : j <= Len(s) => (Blank(Append(s, l), i, j) <=> Blank(s, i, j))
         /\ i <= Len(s) + 1 =>
              (Blank(Append(s, l), i, Len(s) + 1) <=> Blank(s, i, Len(s)) /\ l = Nothing)
<1> DEFINE t == Append(s, l)
           n == Len(s)
<1>1. n \in Nat /\ t[n + 1] = l /\ \A k \in 1 .. n : t[k] = s[k]
  BY AppendFacts
<1> HIDE DEF t, n
<1>2. ASSUME NEW j \in Int, j <= n PROVE Blank(t, i, j) <=> Blank(s, i, j)
  <2>1. \A k \in i .. j : k \in 1 .. n
    BY <1>1, <1>2
  <2>2. \A k \in i .. j : t[k] = s[k]
    BY <1>1, <2>1
  <2>. QED
    BY <2>2 DEF Blank
<1>3. ASSUME i <= n + 1
      PROVE  Blank(t, i, n + 1) <=> Blank(t, i, n) /\ t[n + 1] = Nothing
  <2>1. \A k : k \in i .. n + 1 <=> k \in i .. n \/ k = n + 1
    BY <1>1, <1>3
  <2>. QED
    BY <1>1, <2>1 DEF Blank, Nothing
<1>4. Blank(t, i, n) <=> Blank(s, i, n)
  BY <1>1, <1>2
<1>. QED
  BY <1>1, <1>2, <1>3, <1>4 DEF t, n

\* A greeting and empty lines.
LEMMA GreetedStep ==
  ASSUME NEW X, NEW s \in Seq(X), NEW l \in X
  PROVE  /\ Blank(s, 1, Len(s)) /\ l \in Greetings => Greeted(Append(s, l), Len(s) + 1)
         /\ Greeted(s, Len(s)) /\ l = Nothing => Greeted(Append(s, l), Len(s) + 1)
         /\ Greeted(s, Len(s)) /\ l = MailFrom => Headed(Append(s, l), Len(s) + 1, 0)
<1> DEFINE t == Append(s, l)
           n == Len(s)
<1>1. n \in Nat /\ t[n + 1] = l /\ (\A k \in 1 .. n : t[k] = s[k]) /\ n + 1 \in 1 .. n + 1
      /\ n + 1 - 1 = n /\ \A k \in 1 .. n : k \in 1 .. n + 1 /\ k < n + 1
  BY AppendFacts
<1>2. ASSUME NEW i \in Nat, i >= 1
      PROVE  /\ \A j \in Int : j <= n => (Blank(t, i, j) <=> Blank(s, i, j))
             /\ i <= n + 1 => (Blank(t, i, n + 1) <=> Blank(s, i, n) /\ l = Nothing)
  BY <1>2, BlankStep
<1> HIDE DEF t, n
<1>3. ASSUME Blank(s, 1, n), l \in Greetings PROVE Greeted(t, n + 1)
  <2>1. Blank(t, 1, n)
    <3>1. 1 \in Nat /\ 1 >= 1 /\ n \in Int /\ n <= n
      BY <1>1
    <3>. QED
      BY <1>2, <1>3, <3>1
  <2>2. n + 1 + 1 .. n + 1 = {}
    BY <1>1
  <2>3. Blank(t, n + 1 + 1, n + 1)
    BY <2>2 DEF Blank
  <2>. QED
    BY <1>1, <1>3, <2>1, <2>3 DEF Greeted
<1>4. ASSUME NEW g \in 1 .. n, s[g] \in Greetings, Blank(s, 1, g - 1), Blank(s, g + 1, n)
      PROVE  /\ t[g] \in Greetings /\ Blank(t, 1, g - 1) /\ Blank(t, g + 1, n)
             /\ g \in 1 .. n + 1 /\ g < n + 1
             /\ l = Nothing => Blank(t, g + 1, n + 1)
  <2>1. g - 1 \in Int /\ g - 1 <= n /\ g + 1 \in Nat /\ g + 1 >= 1 /\ g + 1 <= n + 1
        /\ 1 \in Nat /\ 1 >= 1 /\ n \in Int /\ n <= n
    BY <1>1
  <2>. QED
    BY <1>1, <1>2, <1>4, <2>1
<1>5. ASSUME Greeted(s, n), l = Nothing PROVE Greeted(t, n + 1)
  <2>1. PICK g \in 1 .. n : s[g] \in Greetings /\ Blank(s, 1, g - 1) /\ Blank(s, g + 1, n)
    BY <1>5 DEF Greeted
  <2>. QED
    BY <1>4, <1>5, <2>1 DEF Greeted
<1>6. ASSUME Greeted(s, n), l = MailFrom PROVE Headed(t, n + 1, 0)
  <2>1. PICK g \in 1 .. n : s[g] \in Greetings /\ Blank(s, 1, g - 1) /\ Blank(s, g + 1, n)
    BY <1>6 DEF Greeted
  <2>2. \A i : i \in 1 .. n + 1 => i \in 1 .. g - 1 \/ i = g \/ i \in g + 1 .. n \/ i = n + 1
    BY <1>1
  <2>3. RcptsTo(t, n + 1) = {}
    <3> SUFFICES ASSUME NEW i \in 1 .. n + 1 PROVE t[i] # Rcpt
      BY DEF RcptsTo
    <3>1. i = n + 1 => t[i] # Rcpt
      BY <1>1, <1>6 DEF Rcpt, MailFrom
    <3>2. t[g] # Rcpt
      BY <1>4, <2>1 DEF Greetings, Rcpt
    <3>3. i \in 1 .. g - 1 \/ i \in g + 1 .. n => t[i] # Rcpt
      BY <1>4, <2>1 DEF Blank, Rcpt
    <3>. QED
      BY <2>2, <3>1, <3>2, <3>3
  <2>4. n + 1 + 1 .. n + 1 = {}
    BY <1>1
  <2>5. 0 = Cardinality(RcptsTo(t, n + 1))
    BY <2>3, FS_EmptySet
  <2>6. t[n + 1] = MailFrom /\ n + 1 \in 1 .. n + 1 /\ n + 1 - 1 = n
    BY <1>1, <1>6
  <2>7. t[g] \in Greetings /\ Blank(t, 1, g - 1) /\ Blank(t, g + 1, n) /\ g \in 1 .. n + 1 /\ g < n + 1
    BY <1>4, <2>1
  <2>8. \A i \in n + 1 + 1 .. n + 1 : t[i] \in HeaderLines
    BY <2>4
  <2>9. PICK m \in Int : m = n + 1
    BY <1>1
  <2>10. g < m /\ g \in 1 .. m /\ m \in 1 .. m /\ t[m] = MailFrom /\ m - 1 = n
    <3>1. t[m] = MailFrom
      BY <2>6, <2>9
    <3>2. g < m /\ g \in 1 .. m /\ m \in 1 .. m /\ m - 1 = n
      BY ONLY <1>1, <2>9, g \in 1 .. n, n \in Nat, m \in Int
    <3>. QED
      BY <3>1, <3>2
  <2>11. Blank(t, g + 1, m - 1) /\ (\A i \in m + 1 .. m : t[i] \in HeaderLines)
         /\ 0 = Cardinality(RcptsTo(t, m))
    BY <2>5, <2>7, <2>8, <2>9, <2>10
  <2>12. Headed(t, m, 0)
    BY <2>7, <2>10, <2>11 DEF Headed, MailFrom
  <2>. QED
    BY <2>9, <2>12
<1>. QED
  BY <1>3, <1>5, <1>6 DEF t, n

\* QUIT after empty lines ends the dialogue, and nothing else does.
LEMMA QuitsStep ==
  ASSUME NEW X, NEW s \in Seq(X), NEW l \in X, NEW e \in DOMAIN s, Blank(s, e + 1, Len(s))
  PROVE  /\ QuitsAfter(Append(s, l), e) <=> l = "QUIT"
         /\ l = Nothing => Blank(Append(s, l), e + 1, Len(s) + 1)
         /\ ~QuitsAfter(s, e)
<1> DEFINE t == Append(s, l)
           n == Len(s)
<1>1. n \in Nat /\ t[n + 1] = l /\ (\A k \in 1 .. n : t[k] = s[k]) /\ Len(t) = n + 1
      /\ DOMAIN s = 1 .. n
  BY AppendFacts
<1>2. e \in 1 .. n /\ e + 1 \in Nat \ {0} /\ e + 1 <= n + 1
  BY <1>1
<1> HIDE DEF t, n
<1>3. Blank(t, e + 1, n) /\ (l = Nothing => Blank(t, e + 1, n + 1))
  <2>1. e + 1 \in Nat /\ e + 1 >= 1 /\ e + 1 <= n + 1 /\ n \in Int /\ n <= n
    BY <1>1, <1>2
  <2>. QED
    BY <2>1, BlankStep DEF t, n
<1>4. ~QuitsAfter(s, e)
  <2>1. \A q \in e + 1 .. n : s[q] = ""
    BY DEF Blank, n
  <2>. QED
    BY <2>1 DEF QuitsAfter, n
<1>5. ASSUME l = "QUIT" PROVE QuitsAfter(t, e)
  <2>1. n + 1 + 1 .. n + 1 = {} /\ n + 1 - 1 = n /\ n + 1 \in e + 1 .. n + 1
    BY <1>1, <1>2
  <2>2. Blank(t, n + 1 + 1, n + 1)
    BY <2>1 DEF Blank
  <2>3. t[n + 1] = "QUIT" /\ Blank(t, e + 1, n + 1 - 1)
    BY <1>1, <1>3, <1>5, <2>1
  <2> DEFINE m == n + 1
  <2>4. m \in e + 1 .. m /\ t[m] = "QUIT" /\ Blank(t, e + 1, m - 1) /\ Blank(t, m + 1, m) /\ Len(t) = m
    BY <1>1, <2>1, <2>2, <2>3
  <2> HIDE DEF m
  <2>. QED
    BY <2>4 DEF QuitsAfter
<1>6. ASSUME QuitsAfter(t, e) PROVE l = "QUIT"
  <2>1. PICK q \in e + 1 .. n + 1 : t[q] = "QUIT"
    BY <1>1, <1>6 DEF QuitsAfter
  <2>2. q \in e + 1 .. n => t[q] = ""
    BY <1>3 DEF Blank
  <2>3. q \notin e + 1 .. n
    BY <2>1, <2>2
  <2>4. q = n + 1
    BY <1>1, <1>2, <2>3
  <2>. QED
    BY <1>1, <2>1, <2>4
<1>. QED
  BY <1>3, <1>4, <1>5, <1>6 DEF t, n

\* What a line does to a dialogue without a fault.
LEMMA SmtpMoves ==
  ASSUME NEW a \in SmtpRecords, a.valid, a.state # "DONE", NEW l, NEW b, b = SmtpStep(a, l)
  PROVE  \/ a.state \in {"GREET", "MAIL", "RCPT_OR_DATA", "QUIT"} /\ l = Nothing /\ b = a
         \/ a.state = "GREET" /\ l \in Greetings /\ b = SmtpGo(a, "MAIL")
         \/ a.state = "MAIL" /\ l = MailFrom /\ b = SmtpGo(a, "RCPT_OR_DATA")
         \/ a.state = "RCPT_OR_DATA" /\ l = Rcpt /\ b = [a EXCEPT !.rcpt = @ + 1]
         \/ a.state = "RCPT_OR_DATA" /\ l = "DATA" /\ a.rcpt > 0 /\ b = SmtpGo(a, "DATA_BODY")
         \/ a.state = "DATA_BODY" /\ l = "." /\ b = SmtpGo(a, "QUIT")
         \/ a.state = "DATA_BODY" /\ l # "." /\ b = [a EXCEPT !.body = @ + 1]
         \/ a.state = "QUIT" /\ l = "QUIT" /\ b = SmtpGo(a, "DONE")
         \/ a.state \in {"GREET", "MAIL", "RCPT_OR_DATA"} /\ b = SmtpReject(a)
         \/ a.state = "QUIT" /\ l # "QUIT" /\ b = SmtpReject(a)
<1>1. a.state \in {"GREET", "MAIL", "RCPT_OR_DATA", "DATA_BODY", "QUIT"}
  BY DEF SmtpRecords, SmtpStates
<1>2. CASE l = Nothing /\ a.state # "DATA_BODY"
  <2>1. b = a
    BY <1>2 DEF SmtpStep, Nothing
  <2>. QED
    BY <1>1, <1>2, <2>1
<1>3. CASE l # Nothing /\ a.state = "GREET"
  BY <1>3 DEF SmtpStep, Nothing, Greetings
<1>4. CASE l # Nothing /\ a.state = "MAIL"
  BY <1>4 DEF SmtpStep, Nothing, MailFrom
<1>5. CASE l # Nothing /\ a.state = "RCPT_OR_DATA"
  BY <1>5 DEF SmtpStep, Nothing, Rcpt
<1>6. CASE a.state = "DATA_BODY"
  BY <1>6 DEF SmtpStep
<1>7. CASE l # Nothing /\ a.state = "QUIT"
  BY <1>7 DEF SmtpStep, Nothing
<1>. QED
  BY <1>1, <1>2, <1>3, <1>4, <1>5, <1>6, <1>7

\* Going on changes the state only,
LEMMA SmtpGoes ==
  ASSUME NEW a \in SmtpRecords, NEW st \in SmtpStates
  PROVE  /\ SmtpGo(a, st) \in SmtpRecords /\ SmtpGo(a, st).state = st
         /\ SmtpGo(a, st).valid = a.valid /\ SmtpGo(a, st).rcpt = a.rcpt
         /\ SmtpGo(a, st).body = a.body
BY DEF SmtpRecords, SmtpGo

\* rejecting makes the dialogue invalid,
LEMMA SmtpRejects ==
  ASSUME NEW a \in SmtpRecords
  PROVE  SmtpReject(a) \in SmtpRecords /\ ~SmtpReject(a).valid
<1>1. FALSE \in BOOLEAN
  OBVIOUS
<1>. QED
  BY <1>1 DEF SmtpRecords, SmtpReject

\* and counting changes the one counter only.
LEMMA SmtpCounts ==
  ASSUME NEW a \in SmtpRecords
  PROVE  /\ [a EXCEPT !.rcpt = @ + 1] \in SmtpRecords
         /\ [a EXCEPT !.rcpt = @ + 1].rcpt = a.rcpt + 1
         /\ [a EXCEPT !.rcpt = @ + 1].body = a.body
         /\ [a EXCEPT !.rcpt = @ + 1].valid = a.valid
         /\ [a EXCEPT !.rcpt = @ + 1].state = a.state
         /\ [a EXCEPT !.body = @ + 1] \in SmtpRecords
         /\ [a EXCEPT !.body = @ + 1].body = a.body + 1
         /\ [a EXCEPT !.body = @ + 1].rcpt = a.rcpt
         /\ [a EXCEPT !.body = @ + 1].valid = a.valid
         /\ [a EXCEPT !.body = @ + 1].state = a.state
<1>1. a.rcpt + 1 \in Nat /\ a.body + 1 \in Nat
  BY DEF SmtpRecords
<1>. QED
  BY <1>1 DEF SmtpRecords

\* Nothing has been said at first,
LEMMA SmtpStarts ==
  SmtpInv(<<>>, SmtpStart)
<1>1. SmtpStart \in SmtpRecords
  BY DEF SmtpStart, SmtpRecords, SmtpStates
<1>2. \A r, c : ~Accepted(<<>>, r, c)
  BY DEF Accepted
<1>3. Blank(<<>>, 1, Len(<<>>))
  <2>1. 1 .. Len(<<>>) = {}
    OBVIOUS
  <2>. QED
    BY <2>1 DEF Blank
<1>. QED
  BY <1>1, <1>2, <1>3 DEF SmtpInv, SmtpStart

\* A header that goes on.
LEMMA HeaderKeeps ==
  ASSUME NEW X, NEW s \in Seq(X), NEW l \in X, NEW a, SmtpInv(s, a), a.valid,
         a.state \in {"GREET", "MAIL", "RCPT_OR_DATA"}
  PROVE  SmtpInv(Append(s, l), SmtpStep(a, l))
<1> DEFINE t == Append(s, l)
           n == Len(s)
           b == SmtpStep(a, l)
<1>1. n \in Nat /\ Len(t) = n + 1 /\ t[n + 1] = l /\ DOMAIN t = 1 .. n + 1 /\ t \in Seq(X)
      /\ \A k \in 1 .. n : t[k] = s[k]
  BY AppendFacts
<1>2. a \in SmtpRecords /\ a.state # "DONE" /\ a.rcpt \in Nat
      /\ (a.state = "GREET" => Blank(s, 1, n) /\ a.rcpt = 0 /\ a.body = 0)
      /\ (a.state = "MAIL" => Greeted(s, n) /\ a.rcpt = 0 /\ a.body = 0)
      /\ (a.state = "RCPT_OR_DATA" => Headed(s, n, a.rcpt) /\ a.body = 0)
  BY DEF SmtpInv, SmtpRecords
<1>3. \A i \in 1 .. n : s[i] # "DATA"
  BY <1>1, <1>2, NoDataYet
<1>4. \A r, c : ~Accepted(t, r, c)
  BY <1>3, NoBodyNotAccepted
<1>5. Blank(s, 1, n) /\ l = Nothing => Blank(t, 1, n + 1)
  <2>1. 1 \in Nat /\ 1 >= 1 /\ 1 <= n + 1
    BY <1>1
  <2>. QED
    BY <2>1, BlankStep
<1>6. /\ Blank(s, 1, n) /\ l \in Greetings => Greeted(t, n + 1)
      /\ Greeted(s, n) /\ l = Nothing => Greeted(t, n + 1)
      /\ Greeted(s, n) /\ l = MailFrom => Headed(t, n + 1, 0)
  BY GreetedStep
<1>7. ASSUME Headed(s, n, a.rcpt)
      PROVE  /\ l = Nothing => Headed(t, n + 1, a.rcpt)
             /\ l = Rcpt => Headed(t, n + 1, a.rcpt + 1)
  <2>1. l \in HeaderLines => Headed(t, n + 1, a.rcpt + If01(l = Rcpt))
    BY <1>2, <1>7, HeadedStep
  <2>2. Nothing # Rcpt /\ Nothing \in HeaderLines /\ Rcpt \in HeaderLines
    BY DEF HeaderLines, Nothing, Rcpt
  <2>3. a.rcpt + 0 = a.rcpt /\ If01(TRUE) = 1 /\ If01(FALSE) = 0
    BY <1>2 DEF If01
  <2>. QED
    BY <2>1, <2>2, <2>3
<1>8. ASSUME Headed(s, n, a.rcpt), a.rcpt > 0, l = "DATA"
      PROVE  \E d \in DOMAIN t : Begun(t, d, Len(t) + 1, a.rcpt) /\ 0 = Len(t) - d
  <2>1. Headed(t, n, a.rcpt)
    BY <1>1, <1>8, SmtpSame
  <2>2. PICK d \in Int : d = n + 1
    BY <1>1
  <2>3. d - 1 = n /\ d \in DOMAIN t /\ 0 = Len(t) - d /\ d + 1 .. Len(t) + 1 - 1 = {} /\ a.rcpt >= 1
    BY <1>1, <1>2, <1>8, <2>2
  <2>4. t[d] = "DATA" /\ Headed(t, d - 1, a.rcpt)
    BY <1>1, <1>8, <2>1, <2>2, <2>3
  <2>5. Begun(t, d, Len(t) + 1, a.rcpt)
    BY <2>3, <2>4 DEF Begun
  <2>. QED
    BY <2>3, <2>5
<1> HIDE DEF t, n
<1>9. CASE l = Nothing /\ b = a
  <2>1. /\ a.state = "GREET" => Blank(t, 1, n + 1)
        /\ a.state = "MAIL" => Greeted(t, n + 1)
        /\ a.state = "RCPT_OR_DATA" => Headed(t, n + 1, a.rcpt)
    BY <1>2, <1>5, <1>6, <1>7, <1>9
  <2> HIDE DEF b
  <2>. QED
    BY <1>1, <1>2, <1>4, <1>9, <2>1 DEF SmtpInv, t, b
<1>10. CASE a.state = "GREET" /\ l \in Greetings /\ b = SmtpGo(a, "MAIL")
  <2>1. Greeted(t, n + 1) /\ a.rcpt = 0 /\ a.body = 0
    BY <1>2, <1>6, <1>10
  <2>2. b \in SmtpRecords /\ b.state = "MAIL" /\ b.rcpt = 0 /\ b.body = 0
    <3>1. "MAIL" \in SmtpStates
      BY DEF SmtpStates
    <3>. QED
      BY <1>2, <1>10, <2>1, <3>1, SmtpGoes
  <2> HIDE DEF b
  <2>. QED
    BY <1>1, <1>4, <2>1, <2>2 DEF SmtpInv, t, b
<1>11. CASE a.state = "MAIL" /\ l = MailFrom /\ b = SmtpGo(a, "RCPT_OR_DATA")
  <2>1. Headed(t, n + 1, 0) /\ a.rcpt = 0 /\ a.body = 0
    BY <1>2, <1>6, <1>11
  <2>2. b \in SmtpRecords /\ b.state = "RCPT_OR_DATA" /\ b.rcpt = 0 /\ b.body = 0
    <3>1. "RCPT_OR_DATA" \in SmtpStates
      BY DEF SmtpStates
    <3>. QED
      BY <1>2, <1>11, <2>1, <3>1, SmtpGoes
  <2> HIDE DEF b
  <2>. QED
    BY <1>1, <1>4, <2>1, <2>2 DEF SmtpInv, t, b
<1>12. CASE a.state = "RCPT_OR_DATA" /\ l = Rcpt /\ b = [a EXCEPT !.rcpt = @ + 1]
  <2>1. Headed(t, n + 1, a.rcpt + 1) /\ a.body = 0
    BY <1>2, <1>7, <1>12
  <2>2. b \in SmtpRecords /\ b.state = "RCPT_OR_DATA" /\ b.rcpt = a.rcpt + 1 /\ b.body = 0
    BY <1>2, <1>12, <2>1, SmtpCounts
  <2> HIDE DEF b
  <2>3. Headed(t, n + 1, b.rcpt)
    BY <2>1, <2>2
  <2>. QED
    BY <1>1, <1>4, <2>2, <2>3 DEF SmtpInv, t, b
<1>13. CASE a.state = "RCPT_OR_DATA" /\ l = "DATA" /\ a.rcpt > 0 /\ b = SmtpGo(a, "DATA_BODY")
  <2>1. a.body = 0 /\ \E d \in DOMAIN t : Begun(t, d, Len(t) + 1, a.rcpt) /\ 0 = Len(t) - d
    BY <1>2, <1>8, <1>13
  <2>2. b \in SmtpRecords /\ b.state = "DATA_BODY" /\ b.rcpt = a.rcpt /\ b.body = 0
    <3>1. "DATA_BODY" \in SmtpStates
      BY DEF SmtpStates
    <3>. QED
      BY <1>2, <1>13, <2>1, <3>1, SmtpGoes
  <2> HIDE DEF b
  <2>3. \E d \in DOMAIN t : Begun(t, d, Len(t) + 1, b.rcpt) /\ b.body = Len(t) - d
    BY <2>1, <2>2
  <2>. QED
    BY <1>1, <1>4, <2>2, <2>3 DEF SmtpInv, t, b
<1>14. CASE b = SmtpReject(a)
  <2>1. b \in SmtpRecords /\ ~b.valid
    BY <1>2, <1>14, SmtpRejects
  <2> HIDE DEF b
  <2>. QED
    BY <1>4, <2>1 DEF SmtpInv, t, b
<1> HIDE DEF b
<1>15. a.state # "DATA_BODY" /\ a.state # "QUIT"
  OBVIOUS
<1>16. b = SmtpStep(a, l)
  BY DEF b
<1>17. SmtpInv(t, b)
  BY <1>2, <1>9, <1>10, <1>11, <1>12, <1>13, <1>14, <1>15, <1>16, SmtpMoves DEF t, b
<1>. QED
  BY <1>17 DEF t, b

\* A line of the body.
LEMMA BodyKeeps ==
  ASSUME NEW X, NEW s \in Seq(X), NEW l \in X, NEW a, SmtpInv(s, a), a.valid, a.state = "DATA_BODY"
  PROVE  SmtpInv(Append(s, l), SmtpStep(a, l))
<1> DEFINE t == Append(s, l)
           n == Len(s)
           b == SmtpStep(a, l)
<1>1. n \in Nat /\ Len(t) = n + 1 /\ t[n + 1] = l /\ DOMAIN t = 1 .. n + 1 /\ t \in Seq(X)
      /\ DOMAIN s = 1 .. n /\ \A k \in 1 .. n : t[k] = s[k]
  BY AppendFacts
<1>2. a \in SmtpRecords /\ a.rcpt \in Nat /\ a.body \in Nat
  BY DEF SmtpInv, SmtpRecords
<1>3. PICK d \in 1 .. n : Begun(s, d, n + 1, a.rcpt) /\ a.body = n - d
  BY <1>1 DEF SmtpInv
<1>4. Begun(t, d, n + 1, a.rcpt)
  <2>1. n + 1 \in Int /\ n + 1 <= n + 1
    BY <1>1
  <2>. QED
    BY <1>3, <2>1, BegunStep
<1> HIDE DEF t, n
<1>5. CASE l = "." /\ b = SmtpGo(a, "QUIT")
  <2>1. b \in SmtpRecords /\ b.state = "QUIT" /\ b.rcpt = a.rcpt /\ b.body = a.body
    <3>1. "QUIT" \in SmtpStates
      BY DEF SmtpStates
    <3>. QED
      BY <1>2, <1>5, <3>1, SmtpGoes
  <2> HIDE DEF b
  <2>2. PICK e \in Int : e = n + 1
    BY <1>1
  <2>3. e \in DOMAIN t /\ d \in DOMAIN t /\ d < e /\ a.body = e - d - 1 /\ e + 1 .. Len(t) = {}
    BY <1>1, <1>2, <1>3, <2>2
  <2>4. t[e] = "." /\ Begun(t, d, e, a.rcpt)
    BY <1>1, <1>4, <1>5, <2>2
  <2>5. Blank(t, e + 1, Len(t))
    BY <2>3 DEF Blank
  <2>6. ~QuitsAfter(t, e)
    BY <2>3 DEF QuitsAfter
  <2>7. \A r, c : ~Accepted(t, r, c)
    BY <1>1, <2>3, <2>4, <2>6, EndedNotAccepted
  <2>8. \E f, g \in DOMAIN t :
          /\ f < g /\ t[g] = "." /\ Begun(t, f, g, b.rcpt) /\ b.body = g - f - 1
          /\ Blank(t, g + 1, Len(t))
    BY <2>1, <2>3, <2>4, <2>5
  <2>. QED
    BY <2>1, <2>7, <2>8 DEF SmtpInv, t, b
<1>6. CASE l # "." /\ b = [a EXCEPT !.body = @ + 1]
  <2>1. b \in SmtpRecords /\ b.state = "DATA_BODY" /\ b.rcpt = a.rcpt /\ b.body = a.body + 1
    BY <1>2, <1>6, SmtpCounts
  <2> HIDE DEF b
  <2>2. Begun(t, d, Len(t) + 1, a.rcpt)
    <3>1. \A i \in d + 1 .. Len(t) + 1 - 1 : i \in d + 1 .. n + 1 - 1 \/ i = n + 1
      BY <1>1, <1>3
    <3>2. \A i \in d + 1 .. Len(t) + 1 - 1 : t[i] # "."
      BY <1>1, <1>4, <1>6, <3>1 DEF Begun
    <3>. QED
      BY <1>4, <3>2 DEF Begun
  <2>3. \A r, c : ~Accepted(t, r, c)
    BY <1>1, <2>2, BodyNotAccepted
  <2>4. b.body = Len(t) - d /\ d \in DOMAIN t
    BY <1>1, <1>2, <1>3, <2>1
  <2>5. \E f \in DOMAIN t : Begun(t, f, Len(t) + 1, b.rcpt) /\ b.body = Len(t) - f
    BY <2>1, <2>2, <2>4
  <2>. QED
    BY <2>1, <2>3, <2>5 DEF SmtpInv, t, b
<1> HIDE DEF b
<1>7. b = SmtpStep(a, l) /\ a.state # "DONE"
  BY DEF b
<1>8. \/ l = "." /\ b = SmtpGo(a, "QUIT")
      \/ l # "." /\ b = [a EXCEPT !.body = @ + 1]
  BY <1>2, <1>7, SmtpMoves
<1>9. SmtpInv(t, b)
  BY <1>5, <1>6, <1>8 DEF t, b
<1>. QED
  BY <1>9 DEF t, b

\* A line after it.
LEMMA QuitKeeps ==
  ASSUME NEW X, NEW s \in Seq(X), NEW l \in X, NEW a, SmtpInv(s, a), a.valid, a.state = "QUIT"
  PROVE  SmtpInv(Append(s, l), SmtpStep(a, l))
<1> DEFINE t == Append(s, l)
           n == Len(s)
           b == SmtpStep(a, l)
<1>1. n \in Nat /\ Len(t) = n + 1 /\ DOMAIN t = 1 .. n + 1 /\ t \in Seq(X)
      /\ DOMAIN s = 1 .. n /\ \A k \in 1 .. n : t[k] = s[k]
  BY AppendFacts
<1>2. a \in SmtpRecords
  BY DEF SmtpInv
<1>3. PICK d \in 1 .. n, e \in 1 .. n :
        d < e /\ s[e] = "." /\ Begun(s, d, e, a.rcpt) /\ a.body = e - d - 1 /\ Blank(s, e + 1, n)
  BY <1>1 DEF SmtpInv
<1>4. d \in DOMAIN t /\ e \in DOMAIN t /\ t[e] = "." /\ d < e
  BY <1>1, <1>3
<1>5. Begun(t, d, e, a.rcpt)
  <2>1. e \in Int /\ e <= n + 1
    BY <1>1
  <2>. QED
    BY <1>3, <2>1, BegunStep
<1>6. /\ QuitsAfter(t, e) <=> l = "QUIT"
      /\ l = Nothing => Blank(t, e + 1, n + 1)
  BY <1>1, <1>3, QuitsStep
<1> HIDE DEF t, n
<1>7. l # "QUIT" => \A r, c : ~Accepted(t, r, c)
  BY <1>1, <1>4, <1>5, <1>6, EndedNotAccepted
<1>8. CASE l = Nothing /\ b = a
  <2>1. l # "QUIT"
    BY <1>8 DEF Nothing
  <2>2. \E f, g \in DOMAIN t :
          /\ f < g /\ t[g] = "." /\ Begun(t, f, g, a.rcpt) /\ a.body = g - f - 1
          /\ Blank(t, g + 1, Len(t))
    BY <1>1, <1>3, <1>4, <1>5, <1>6, <1>8
  <2> HIDE DEF b
  <2>3. a.state # "DONE"
    OBVIOUS
  <2>4. \A r, c : ~Accepted(t, r, c)
    BY <1>7, <2>1
  <2>5. SmtpInv(t, a)
    BY <1>2, <2>2, <2>3, <2>4 DEF SmtpInv
  <2>. QED
    BY <1>8, <2>5 DEF t, b
<1>9. CASE l = "QUIT" /\ b = SmtpGo(a, "DONE")
  <2>1. b \in SmtpRecords /\ b.state = "DONE" /\ b.rcpt = a.rcpt /\ b.body = a.body /\ b.valid
    <3>1. "DONE" \in SmtpStates
      BY DEF SmtpStates
    <3>. QED
      BY <1>2, <1>9, <3>1, SmtpGoes
  <2> HIDE DEF b
  <2>2. Accepted(t, b.rcpt, b.body)
    BY <1>3, <1>4, <1>5, <1>6, <1>9, <2>1 DEF Accepted
  <2>. QED
    BY <2>1, <2>2 DEF SmtpInv, t, b
<1>10. CASE l # "QUIT" /\ b = SmtpReject(a)
  <2>1. b \in SmtpRecords /\ ~b.valid
    BY <1>2, <1>10, SmtpRejects
  <2> HIDE DEF b
  <2>. QED
    BY <1>7, <1>10, <2>1 DEF SmtpInv, t, b
<1> HIDE DEF b
<1>11. b = SmtpStep(a, l) /\ a.state # "DONE"
  BY DEF b
<1>12. \/ l = Nothing /\ b = a
       \/ l = "QUIT" /\ b = SmtpGo(a, "DONE")
       \/ l # "QUIT" /\ b = SmtpReject(a)
  BY <1>2, <1>11, SmtpMoves
<1>13. SmtpInv(t, b)
  BY <1>8, <1>9, <1>10, <1>12 DEF t, b
<1>. QED
  BY <1>13 DEF t, b

\* one more line keeps what the state says,
LEMMA SmtpKeeps ==
  ASSUME NEW X, NEW s \in Seq(X), NEW l \in X, NEW a, SmtpInv(s, a), ~SmtpStops(a)
  PROVE  SmtpInv(Append(s, l), SmtpStep(a, l))
<1>1. a.valid /\ a.state # "DONE" /\ a \in SmtpRecords
  BY DEF SmtpStops, SmtpInv
<1>2. a.state \in {"GREET", "MAIL", "RCPT_OR_DATA", "DATA_BODY", "QUIT"}
  BY <1>1 DEF SmtpRecords, SmtpStates
<1>3. CASE a.state \in {"GREET", "MAIL", "RCPT_OR_DATA"}
  BY <1>1, <1>3, HeaderKeeps
<1>4. CASE a.state = "DATA_BODY"
  BY <1>1, <1>4, BodyKeeps
<1>5. CASE a.state = "QUIT"
  BY <1>1, <1>5, QuitKeeps
<1>. QED
  BY <1>2, <1>3, <1>4, <1>5

\* and the dialogue is valid exactly when it has the shape of one.
LEMMA SmtpTells ==
  ASSUME NEW X, NEW s \in Seq(X), NEW a, SmtpInv(s, a)
  PROVE  SmtpMatches(s, a)
<1> DEFINE Opens(d) ==
             \E g, m \in 1 .. d - 1 :
               /\ g < m /\ s[g] \in {"EHLO", "HELO"} /\ s[m] = "MAIL FROM"
               /\ Blank(s, 1, g - 1) /\ Blank(s, g + 1, m - 1)
               /\ \A i \in m + 1 .. d - 1 : s[i] \in {"RCPT TO", ""}
           Quits(e) ==
             \E q \in e + 1 .. Len(s) :
                s[q] = "QUIT" /\ Blank(s, e + 1, q - 1) /\ Blank(s, q + 1, Len(s))
           Asked(d) == a.rcpt = Cardinality({i \in 1 .. d - 1 : s[i] = "RCPT TO"})
<1>1. ASSUME NEW d, NEW e
      PROVE  Begun(s, d, e, a.rcpt) <=>
               /\ d \in DOMAIN s /\ s[d] = "DATA" /\ \A i \in d + 1 .. e - 1 : s[i] # "."
               /\ Opens(d) /\ Asked(d) /\ a.rcpt >= 1
  <2>1. Headed(s, d - 1, a.rcpt) <=> Opens(d) /\ Asked(d)
    BY DEF Headed, RcptsTo, Rcpt, Greetings, HeaderLines
  <2> HIDE DEF Opens, Asked
  <2>. QED
    BY <2>1 DEF Begun
<1>2. \A e : QuitsAfter(s, e) <=> Quits(e)
  BY DEF QuitsAfter
<1> HIDE DEF Opens, Quits, Asked
<1>3. Accepted(s, a.rcpt, a.body) <=>
        \E d, e \in DOMAIN s :
          /\ d < e /\ s[d] = "DATA" /\ s[e] = "."
          /\ \A i \in d + 1 .. e - 1 : s[i] # "."
          /\ a.body = e - d - 1 /\ Quits(e) /\ Opens(d) /\ Asked(d) /\ a.rcpt >= 1
  BY <1>1, <1>2 DEF Accepted
<1>4. SmtpMatches(s, a) <=>
       ((a.valid /\ a.state = "DONE") <=>
        \E d, e \in DOMAIN s :
          /\ d < e /\ s[d] = "DATA" /\ s[e] = "."
          /\ \A i \in d + 1 .. e - 1 : s[i] # "."
          /\ a.body = e - d - 1 /\ Quits(e) /\ Opens(d) /\ Asked(d) /\ a.rcpt >= 1)
  BY DEF SmtpMatches, Quits, Opens, Asked
<1>. QED
  BY <1>3, <1>4 DEF SmtpInv

-----------------------------------------------------------------------------
(* Block 10: the authority of a URL.                                        *)

\* Pieces of the authority of a URL.
Colon == ":"
Plus == "+"
HostPieces == {"host", "digits", "-"}
Piece == [is : STRING, value : Int]
\* Digits that are a port.
Ported(x) == x.is = "digits" /\ x.value \in Ports

\* A text gives a port when it is digits in range, or a plus sign and these.
LEMMA PortOfTells ==
  ASSUME NEW T \in Seq(Piece)
  PROVE  PortOf(T) # {} <=> \/ Len(T) = 1 /\ Ported(T[1])
                            \/ Len(T) = 2 /\ T[1].is = Plus /\ Ported(T[2])
<1> DEFINE D == IF T # <<>> /\ Head(T).is = "+" THEN Tail(T) ELSE T
<1>1. D \in Seq(Piece) /\ Len(D) \in Nat /\ Len(T) \in Nat
  OBVIOUS
<1>2. PortOf(T) = {d.value : d \in {x \in ToSet(D) : Len(D) = 1 /\ x.is = "digits" /\ x.value \in Ports}}
  BY DEF PortOf
<1>3. PortOf(T) # {} <=> \E x \in ToSet(D) : Len(D) = 1 /\ Ported(x)
  <2> HIDE DEF D
  <2>. QED
    BY <1>2 DEF Ported
<1>4. PortOf(T) # {} <=> Len(D) = 1 /\ Ported(D[1])
  <2> HIDE DEF D
  <2>1. Len(D) = 1 => DOMAIN D = {1}
    BY <1>1
  <2>2. Len(D) = 1 => ToSet(D) = {D[1]}
    BY <2>1 DEF ToSet
  <2>. QED
    BY <1>3, <2>2
<1>5. CASE T # <<>> /\ Head(T).is = "+"
  <2>1. D = Tail(T) /\ Len(T) >= 1 /\ Head(T) = T[1]
    BY <1>5
  <2>2. Len(D) = Len(T) - 1 /\ (Len(D) = 1 => D[1] = T[2])
    BY <2>1
  <2> HIDE DEF D
  <2>3. ~Ported(T[1])
    BY <1>5, <2>1 DEF Ported
  <2>. QED
    BY <1>1, <1>4, <1>5, <2>1, <2>2, <2>3 DEF Plus
<1>6. CASE ~(T # <<>> /\ Head(T).is = "+")
  <2>1. D = T
    BY <1>6
  <2> HIDE DEF D
  <2>2. Len(T) = 2 => T[1].is # Plus
    BY <1>6 DEF Plus
  <2>3. Len(T) = 2 => Len(T) # 1
    OBVIOUS
  <2>. QED
    BY <1>4, <2>1, <2>2, <2>3
<1>. QED
  BY <1>5, <1>6

\* What of an authority is accepted, by its pieces.
Named(A, k) == k >= 1 /\ \A i \in 1 .. k : A[i].is \in HostPieces
\* The authority is a host, or a host, a colon and a port with or without a plus.
GoodUrl(A) ==
  LET n == Len(A) IN
    \/ Named(A, n)
    \/ n >= 3 /\ Named(A, n - 2) /\ A[n - 1].is = Colon /\ Ported(A[n])
    \/ n >= 4 /\ Named(A, n - 3) /\ A[n - 2].is = Colon /\ A[n - 1].is = Plus /\ Ported(A[n])

\* The host is the pieces before the last colon.
LEMMA HostTells ==
  ASSUME NEW A \in Seq(Piece), NEW k \in 0 .. Len(A)
  PROVE  LET host == SubSeq(A, 1, k) IN
         (host # <<>> /\ \A x \in ToSet(host) : x.is \in HostPieces) <=> Named(A, k)
<1> DEFINE h == SubSeq(A, 1, k)
<1>1. Len(h) = k /\ h \in Seq(Piece) /\ DOMAIN h = 1 .. k /\ \A i \in 1 .. k : h[i] = A[i]
  BY SubSeqProperties
<1> HIDE DEF h
<1>2. h # <<>> <=> k >= 1
  BY <1>1
<1>3. (\A x \in ToSet(h) : x.is \in HostPieces) <=> \A i \in 1 .. k : A[i].is \in HostPieces
  BY <1>1 DEF ToSet
<1>. QED
  BY <1>2, <1>3 DEF Named, h

\* With its last colon at c the authority is good when a host is before it and a port after it.
LEMMA ColonsTell ==
  ASSUME NEW A \in Seq(Piece), NEW c \in 1 .. Len(A), A[c].is = Colon,
         \A i \in c + 1 .. Len(A) : A[i].is # Colon
  PROVE  Named(A, c - 1) /\ PortOf(SubSeq(A, c + 1, Len(A))) # {} <=> GoodUrl(A)
<1> DEFINE n == Len(A)
           T == SubSeq(A, c + 1, n)
<1>1. n \in Nat
  OBVIOUS
<1>2. T \in Seq(Piece) /\ Len(T) = n - c /\ \A i \in 1 .. n - c : T[i] = A[c + i]
  <2>1. Len(T) = IF c + 1 <= n THEN n - (c + 1) + 1 ELSE 0
    BY SubSeqProperties
  <2>2. T \in Seq(Piece) /\ \A i \in 1 .. Len(T) : T[i] = A[c + 1 + i - 1]
    BY SubSeqProperties
  <2>. QED
    BY <1>1, <2>1, <2>2
<1> HIDE DEF T
<1>3. PortOf(T) # {} <=> \/ Len(T) = 1 /\ Ported(T[1])
                         \/ Len(T) = 2 /\ T[1].is = Plus /\ Ported(T[2])
  BY <1>2, PortOfTells
<1>4. PortOf(T) # {} <=> \/ n - c = 1 /\ Ported(A[c + 1])
                         \/ n - c = 2 /\ A[c + 1].is = Plus /\ Ported(A[c + 2])
  <2>1. n - c = 1 => T[1] = A[c + 1]
    BY <1>2
  <2>2. n - c = 2 => T[1] = A[c + 1] /\ T[2] = A[c + 2]
    BY <1>2
  <2>. QED
    BY <1>2, <1>3, <2>1, <2>2
<1>5. Colon \notin HostPieces /\ Colon # Plus /\ \A x : Ported(x) => x.is # Colon
  BY DEF Colon, HostPieces, Plus, Ported
<1>6. \A k \in Int : k >= c => ~Named(A, k)
  BY <1>1, <1>5 DEF Named
<1> HIDE DEF n
<1>7. ~Named(A, n)
  BY <1>1, <1>6 DEF n
<1>8. n >= 3 /\ Named(A, n - 2) /\ A[n - 1].is = Colon /\ Ported(A[n])
      <=> n - c = 1 /\ Ported(A[c + 1]) /\ Named(A, c - 1)
  <2>1. ASSUME n >= 3, Named(A, n - 2), A[n - 1].is = Colon, Ported(A[n]) PROVE n - c = 1
    <3>1. c # n
      BY <1>5, <2>1
    <3>2. ~(n - 1 \in c + 1 .. n)
      BY <2>1 DEF n
    <3>. QED
      BY <1>1, <3>1, <3>2 DEF n
  <2>2. ASSUME n - c = 1 PROVE c + 1 = n /\ c - 1 = n - 2 /\ n - 1 = c
    BY <1>1, <2>2
  <2>3. Named(A, c - 1) /\ n - c = 1 => n >= 3
    BY <1>1 DEF Named
  <2>. QED
    BY <2>1, <2>2, <2>3
<1>9. n >= 4 /\ Named(A, n - 3) /\ A[n - 2].is = Colon /\ A[n - 1].is = Plus /\ Ported(A[n])
      <=> n - c = 2 /\ A[c + 1].is = Plus /\ Ported(A[c + 2]) /\ Named(A, c - 1)
  <2>1. ASSUME n >= 4, Named(A, n - 3), A[n - 2].is = Colon, A[n - 1].is = Plus, Ported(A[n])
        PROVE  n - c = 2
    <3>1. c # n /\ c # n - 1
      BY <1>5, <2>1
    <3>2. ~(n - 2 \in c + 1 .. n)
      BY <2>1 DEF n
    <3>. QED
      BY <1>1, <2>1, <3>1, <3>2 DEF n
  <2>2. ASSUME n - c = 2 PROVE c + 1 = n - 1 /\ c + 2 = n /\ c - 1 = n - 3 /\ n - 2 = c
    BY <1>1, <2>2
  <2>3. Named(A, c - 1) /\ n - c = 2 => n >= 4
    BY <1>1 DEF Named
  <2>. QED
    BY <2>1, <2>2, <2>3
<1>. QED
  BY <1>4, <1>7, <1>8, <1>9 DEF GoodUrl, n, T

\* What is accepted of one URL.
LEMMA UrlStarts == UrlMatches(<<>>, UrlStart)
BY ToSetStart DEF UrlMatches

\* and then it parses exactly when scheme, host and port are good.
LEMMA UrlTells ==
  ASSUME NEW a, NEW u, UrlLine(u)
  PROVE  UrlMatches(<<u>>, UrlStep(a, u))
<1> DEFINE A == u.authority
           n == Len(A)
           C == {i \in DOMAIN A : A[i].is = ":"}
           last == IF C = {} THEN n + 1 ELSE Max(C)
           host == SubSeq(A, 1, last - 1)
           ports == IF C = {} THEN {443} ELSE PortOf(SubSeq(A, last + 1, n))
           good == host # <<>> /\ \A x \in ToSet(host) : x.is \in HostPieces
<1>1. A \in Seq(Piece) /\ n \in Nat /\ DOMAIN A = 1 .. n
  BY DEF UrlLine, Piece
<1>3. ParseUrl(u) = {[host |-> host, port |-> p] : p \in If(u.scheme = "https" /\ good, ports)}
  <2>1. good <=> host # <<>> /\ \A x \in ToSet(host) : x.is \in {"host", "digits", "-"}
    BY DEF HostPieces
  <2>. QED
    BY <2>1 DEF ParseUrl
<1> HIDE DEF A
<1>4. ParseUrl(u) # {} <=> u.scheme = "https" /\ good /\ ports # {}
  <2> HIDE DEF host, good, ports
  <2>. QED
    BY <1>3 DEF If
<1>5. good /\ ports # {} <=> GoodUrl(A)
  <2>1. CASE C = {}
    <3>1. last = n + 1 /\ last - 1 = n /\ ports = {443}
      BY <1>1, <2>1
    <3>2. good <=> Named(A, n)
      <4>1. n \in 0 .. Len(A)
        BY <1>1
      <4> HIDE DEF n, last
      <4>. QED
        BY <1>1, <3>1, <4>1, HostTells
    <3>3. \A i \in 1 .. n : A[i].is # Colon
      BY <1>1, <2>1 DEF Colon
    <3>4. GoodUrl(A) <=> Named(A, n)
      <4>1. n >= 3 => n - 1 \in 1 .. n
        BY <1>1
      <4>2. n >= 4 => n - 2 \in 1 .. n
        BY <1>1
      <4>. QED
        BY <3>3, <4>1, <4>2 DEF GoodUrl
    <3> HIDE DEF good, ports
    <3>. QED
      BY <3>1, <3>2, <3>4
  <2>2. CASE C # {}
    <3>1. C \in SUBSET (1 .. n)
      BY <1>1
    <3>2. last = Max(C) /\ ports = PortOf(SubSeq(A, last + 1, n))
      BY <2>2
    <3>3. last \in C /\ \A i \in C : last >= i
      <4> HIDE DEF C, last
      <4>. QED
        BY <1>1, <2>2, <3>1, <3>2, Greatest
    <3> HIDE DEF last, ports
    <3>4. last \in 1 .. n /\ A[last].is = Colon
      BY <1>1, <3>3 DEF Colon
    <3>5. \A i \in last + 1 .. n : A[i].is # Colon
      BY <1>1, <3>3, <3>4 DEF Colon
    <3>6. last - 1 \in 0 .. Len(A)
      BY <1>1, <3>4
    <3>7. good <=> Named(A, last - 1)
      BY <1>1, <3>6, HostTells
    <3> HIDE DEF good
    <3>. QED
      BY <1>1, <3>2, <3>4, <3>5, <3>7, ColonsTell
  <2>. QED
    BY <2>1, <2>2
<1> HIDE DEF good, ports
<1>6. ToSet(<<u>>) = {u}
  BY DEF ToSet
<1>7. UrlStep(a, u) # {} <=> u.scheme = "https" /\ GoodUrl(A)
  BY <1>4, <1>5 DEF UrlStep
<1> DEFINE w == [i \in DOMAIN A |-> A[i].is]
           m == Len(w)
           named(k) == k >= 1 /\ \A i \in 1 .. k : w[i] \in {"host", "digits", "-"}
           port == A[m].value \in Ports
           right == \/ named(m)
                    \/ m >= 3 /\ named(m - 2) /\ w[m - 1] = ":" /\ w[m] = "digits" /\ port
                    \/ m >= 4 /\ named(m - 3) /\ w[m - 2] = ":" /\ w[m - 1] = "+"
                       /\ w[m] = "digits" /\ port
<1>8. m = n /\ \A i \in 1 .. n : w[i] = A[i].is
  <2>1. \A i \in 1 .. n : A[i].is \in STRING
    <3>1. \A i \in 1 .. n : A[i] \in Piece
      BY <1>1
    <3>2. \A x \in Piece : x.is \in STRING
      BY DEF Piece
    <3>. QED
      BY <3>1, <3>2
  <2>2. DOMAIN w = 1 .. n /\ \A i \in 1 .. n : w[i] = A[i].is
    BY <1>1
  <2>3. w \in [1 .. n -> STRING]
    BY <1>1, <2>1
  <2> HIDE DEF w, n
  <2>4. w \in Seq(STRING)
    BY <1>1, <2>3
  <2>. QED
    BY <1>1, <2>2, <2>4
<1> HIDE DEF w, m
<1>9. \A k \in Int : k <= n => (named(k) <=> Named(A, k))
  BY <1>1, <1>8 DEF Named, HostPieces
<1>10. right <=> GoodUrl(A)
  <2> HIDE DEF named
  <2>1. named(m) <=> Named(A, n)
    BY <1>1, <1>8, <1>9
  <2>2. n >= 3 => /\ n - 1 \in 1 .. n /\ n \in 1 .. n
                  /\ named(n - 2) <=> Named(A, n - 2)
    BY <1>1, <1>9
  <2>3. n >= 4 => /\ n - 2 \in 1 .. n /\ n - 1 \in 1 .. n /\ n \in 1 .. n
                  /\ named(n - 3) <=> Named(A, n - 3)
    BY <1>1, <1>9
  <2>4. n >= 3 => /\ w[n - 1] = A[n - 1].is /\ w[n] = A[n].is
    BY <1>8, <2>2
  <2>5. n >= 4 => /\ w[n - 1] = A[n - 1].is /\ w[n] = A[n].is /\ w[n - 2] = A[n - 2].is
    BY <1>8, <2>3
  <2>6. w[m] = w[n] /\ A[m] = A[n]
    BY <1>8
  <2>7. n >= 3 /\ named(n - 2) /\ w[n - 1] = ":" /\ w[n] = "digits" /\ A[n].value \in Ports
        <=> n >= 3 /\ Named(A, n - 2) /\ A[n - 1].is = Colon /\ Ported(A[n])
    BY <2>2, <2>4 DEF Ported, Colon
  <2>8. n >= 4 /\ named(n - 3) /\ w[n - 2] = ":" /\ w[n - 1] = "+" /\ w[n] = "digits"
          /\ A[n].value \in Ports
        <=> n >= 4 /\ Named(A, n - 3) /\ A[n - 2].is = Colon /\ A[n - 1].is = Plus /\ Ported(A[n])
    BY <2>3, <2>5 DEF Ported, Colon, Plus
  <2>. QED
    BY <1>8, <2>1, <2>7, <2>8 DEF GoodUrl
<1>11. UrlMatches(<<u>>, UrlStep(a, u)) <=> (UrlStep(a, u) # {} <=> u.scheme = "https" /\ right)
  BY <1>6 DEF UrlMatches, w, m, A
<1> HIDE DEF right
<1>. QED
  BY <1>7, <1>10, <1>11

-----------------------------------------------------------------------------
(* Block 10: zones, their comments and records.                             *)

\* Words of a zone that the stripping of comments looks at.
Quote == "quote"
Semicolon == ";"

\* The quotes among the first k words.
QuotesIn(l, k) == Cardinality({j \in 1 .. k : l[j] = Quote})

\* One turn of the loop of strip_comment, and its table.
StripState == [cut : BOOLEAN, quoted : BOOLEAN, kept : Seq(STRING)]
StripTurn(s, x) ==
  IF s.cut \/ (x = Semicolon /\ ~s.quoted) THEN [s EXCEPT !.cut = TRUE]
  ELSE [s EXCEPT !.quoted = IF x = Quote THEN ~@ ELSE @,
                 !.kept = Append(@, x)]
StripTable == [p \in StripState \X STRING |-> StripTurn(p[1], p[2])]
StripBegin == [cut |-> FALSE, quoted |-> FALSE, kept |-> <<>>]

\* A turn cuts at a semicolon outside of quotes, and keeps the word otherwise.
LEMMA StripTurnFacts ==
  ASSUME NEW q \in StripState, NEW x \in STRING
  PROVE  /\ StripTurn(q, x) \in StripState
         /\ q.cut \/ (x = Semicolon /\ ~q.quoted) =>
              StripTurn(q, x).cut /\ StripTurn(q, x).kept = q.kept
         /\ ~(q.cut \/ (x = Semicolon /\ ~q.quoted)) =>
              /\ ~StripTurn(q, x).cut
              /\ StripTurn(q, x).kept = Append(q.kept, x)
              /\ StripTurn(q, x).quoted <=> (q.quoted <=> x # Quote)
<1>1. q.cut \in BOOLEAN /\ q.quoted \in BOOLEAN /\ q.kept \in Seq(STRING)
  BY DEF StripState
<1>2. Append(q.kept, x) \in Seq(STRING)
  BY <1>1
<1>3. CASE q.cut \/ (x = Semicolon /\ ~q.quoted)
  <2>1. StripTurn(q, x) = [q EXCEPT !.cut = TRUE]
    BY <1>3 DEF StripTurn
  <2>2. [q EXCEPT !.cut = TRUE] \in StripState
    BY DEF StripState
  <2>. QED
    BY <1>3, <2>1, <2>2 DEF StripState
<1>4. CASE ~(q.cut \/ (x = Semicolon /\ ~q.quoted))
  <2> DEFINE z == IF x = Quote THEN ~q.quoted ELSE q.quoted
             k == Append(q.kept, x)
  <2>1. StripTurn(q, x) = [q EXCEPT !.quoted = z, !.kept = k]
    BY <1>4 DEF StripTurn
  <2>2. z \in BOOLEAN /\ k \in Seq(STRING) /\ (z <=> (q.quoted <=> x # Quote))
    BY <1>1, <1>2
  <2> HIDE DEF z, k
  <2>3. [q EXCEPT !.quoted = z, !.kept = k] \in StripState
    BY <2>2 DEF StripState
  <2>4. /\ [q EXCEPT !.quoted = z, !.kept = k].cut = q.cut
        /\ [q EXCEPT !.quoted = z, !.kept = k].quoted = z
        /\ [q EXCEPT !.quoted = z, !.kept = k].kept = k
    BY DEF StripState
  <2>. QED
    BY <1>4, <2>1, <2>2, <2>3, <2>4 DEF k
<1>. QED
  BY <1>3, <1>4

\* The table has a value for each turn.
LEMMA StripTableFacts ==
  /\ StripTable \in [StripState \X STRING -> StripState]
  /\ \A q \in StripState, x \in STRING : StripTable[<<q, x>>] = StripTurn(q, x)
<1>1. \A q \in StripState, x \in STRING : StripTurn(q, x) \in StripState
  BY StripTurnFacts
<1>. QED
  BY <1>1 DEF StripTable

\* The loop of strip_comment.
LEMMA StripRuns ==
  ASSUME NEW d \in Seq(STRING)
  PROVE  \E g \in [0 .. Len(d) -> StripState] :
           IsRun(g, StripTable, StripBegin, d) /\ StripComment(d) = g[Len(d)].kept
<1> DEFINE D == DOMAIN d
           F == StripTable
           b == StripBegin
           Rec(h) == h = [S \in SUBSET D |->
                       IF S = {} THEN b ELSE StripTurn(h[S \ {Max(S)}], d[Max(S)])]
           G == CHOOSE h : Rec(h)
<1>1. StripComment(d) = G[D].kept
  BY DEF StripComment, FoldLeft, MapThenFoldSet, StripTurn, StripBegin, Quote, Semicolon
<1>2. b \in StripState /\ F \in [StripState \X STRING -> StripState]
  BY StripTableFacts DEF StripState, StripBegin
<1>3. \A q \in StripState, x \in STRING : F[<<q, x>>] = StripTurn(q, x)
  BY StripTableFacts
<1>4. ASSUME NEW S \in SUBSET D, S # {}
      PROVE  Max(S) \in S /\ d[Max(S)] \in STRING /\ S \ {Max(S)} \in SUBSET D
  <2>1. Len(d) \in Nat /\ D = 1 .. Len(d) /\ \A k \in D : d[k] \in STRING
    OBVIOUS
  <2> HIDE DEF D
  <2>2. Max(S) \in S
    BY <1>4, <2>1, Greatest
  <2>. QED
    BY <2>1, <2>2
<1>5. PICK w \in [SUBSET D -> StripState] : Folding(w, F, b, d, D)
  <2> HIDE DEF F, b
  <2>. QED
    BY <1>2, FoldExists
<1> HIDE DEF F, b, D
<1>6. Rec(w)
  <2>1. ASSUME NEW S \in SUBSET D
        PROVE  w[S] = IF S = {} THEN b ELSE StripTurn(w[S \ {Max(S)}], d[Max(S)])
    <3>1. w[S] = IF S = {} THEN b ELSE F[<<w[S \ {Max(S)}], d[Max(S)]>>]
      BY <1>5 DEF Folding
    <3>. QED
      BY <1>3, <1>4, <3>1
  <2>. QED
    BY <2>1
<1>7. Rec(G)
  <2> HIDE DEF Rec
  <2>. QED
    BY <1>6
<1> HIDE DEF G
<1>8. G[{}] = b
  BY <1>7
<1>9. \A S \in SUBSET D : S # {} /\ G[S \ {Max(S)}] \in StripState
        => G[S] = F[<<G[S \ {Max(S)}], d[Max(S)]>>]
  <2> SUFFICES ASSUME NEW S \in SUBSET D, S # {}, G[S \ {Max(S)}] \in StripState
               PROVE  G[S] = F[<<G[S \ {Max(S)}], d[Max(S)]>>]
    OBVIOUS
  <2>1. G[S] = StripTurn(G[S \ {Max(S)}], d[Max(S)])
    BY <1>7
  <2>. QED
    BY <1>3, <1>4, <2>1
<1> HIDE DEF Rec
<1>10. \E g \in [0 .. Len(d) -> StripState] : IsRun(g, F, b, d) /\ G[D] = g[Len(d)]
  <2>1. \A S \in SUBSET DOMAIN d : S # {} /\ G[S \ {Max(S)}] \in StripState
          => G[S] = F[<<G[S \ {Max(S)}], d[Max(S)]>>]
    BY <1>9 DEF D
  <2>2. IsFold(G, StripState, STRING, F, b, d)
    BY <1>2, <1>8, <2>1 DEF IsFold
  <2>. QED
    BY <2>2, FoldRuns DEF D
<1>. QED
  BY <1>1, <1>10 DEF F, b

\* A word more: one quote more if it is one.
LEMMA QuotesStep ==
  ASSUME NEW l, NEW k \in Nat
  PROVE  /\ QuotesIn(l, k) \in Nat /\ QuotesIn(l, 0) = 0
         /\ QuotesIn(l, k + 1) = QuotesIn(l, k) + If01(l[k + 1] = Quote)
<1> DEFINE S == {j \in 1 .. k : l[j] = Quote}
           R == {j \in 1 .. k + 1 : l[j] = Quote}
           m == k + 1
<1>1. IsFiniteSet(S) /\ Cardinality(S) \in Nat
  <2>1. IsFiniteSet(1 .. k)
    BY FS_Interval
  <2>2. S \subseteq 1 .. k
    OBVIOUS
  <2>. QED
    BY <2>1, <2>2, FS_Subset, FS_CardinalityType
<1>2. \A j : j \in 1 .. m <=> j \in 1 .. k \/ j = m
  OBVIOUS
<1>3. m \notin 1 .. k
  OBVIOUS
<1>4. {j \in 1 .. 0 : l[j] = Quote} = {}
  OBVIOUS
<1> HIDE DEF m
<1>5. Cardinality({}) = 0
  BY FS_EmptySet
<1>6. CASE l[m] = Quote
  <2>1. R = S \union {m} /\ m \notin S
    BY <1>2, <1>3, <1>6 DEF m
  <2>2. Cardinality(R) = Cardinality(S) + 1
    BY <1>1, <2>1, FS_AddElement
  <2>. QED
    BY <1>1, <1>4, <1>5, <1>6, <2>2 DEF QuotesIn, If01, m
<1>7. CASE l[m] # Quote
  <2>1. R = S
    BY <1>2, <1>7 DEF m
  <2>. QED
    BY <1>1, <1>4, <1>5, <1>7, <2>1 DEF QuotesIn, If01, m
<1>. QED
  BY <1>6, <1>7

\* The word at j does not begin a comment.
Open(l, j) == l[j] = Semicolon => QuotesIn(l, j - 1) % 2 = 1

\* A word is visible when no word up to it begins a comment.
LEMMA VisibleIsOpen ==
  ASSUME NEW l, NEW i \in Nat
  PROVE  Visible(l, i) <=> \A j \in 1 .. i : Open(l, j)
<1>1. \A j : QuotesBefore(l, j) = QuotesIn(l, j - 1)
  BY DEF QuotesBefore, QuotesIn, Quote
<1>. QED
  BY <1>1 DEF Visible, Open, Semicolon

\* After k words: the first c of them are kept, and no semicolon is among these.
Stripped(l, q, k, c) ==
  /\ Len(q.kept) = c /\ \A i \in 1 .. c : q.kept[i] = l[i] /\ Open(l, i)
  /\ q.cut <=> c < k
  /\ c < k => ~Open(l, c + 1)
  /\ ~q.cut => (q.quoted <=> QuotesIn(l, k) % 2 = 1)

\* One turn keeps what the loop has kept so far.
LEMMA StripStep ==
  ASSUME NEW l \in Seq(STRING), NEW k \in 0 .. Len(l) - 1, NEW q \in StripState,
         NEW c \in 0 .. k, Stripped(l, q, k, c)
  PROVE  \E e \in 0 .. k + 1 : Stripped(l, StripTurn(q, l[k + 1]), k + 1, e)
<1> DEFINE x == l[k + 1]
           r == StripTurn(q, x)
<1>1. x \in STRING /\ k \in Nat /\ q.cut \in BOOLEAN /\ q.quoted \in BOOLEAN /\ q.kept \in Seq(STRING)
  <2>1. k + 1 \in 1 .. Len(l)
    OBVIOUS
  <2>. QED
    BY <2>1 DEF StripState
<1>2. /\ Len(q.kept) = c /\ \A i \in 1 .. c : q.kept[i] = l[i] /\ Open(l, i)
      /\ q.cut <=> c < k
      /\ c < k => ~Open(l, c + 1)
      /\ ~q.cut => (q.quoted <=> QuotesIn(l, k) % 2 = 1)
  BY DEF Stripped
<1>3. /\ QuotesIn(l, k) \in Nat
      /\ QuotesIn(l, k + 1) = QuotesIn(l, k) + If01(x = Quote)
  BY <1>1, QuotesStep
<1>4. /\ q.cut \/ (x = Semicolon /\ ~q.quoted) => r.cut /\ r.kept = q.kept
      /\ ~(q.cut \/ (x = Semicolon /\ ~q.quoted)) =>
           /\ ~r.cut
           /\ r.kept = Append(q.kept, x)
           /\ r.quoted <=> (q.quoted <=> x # Quote)
      /\ r \in StripState
  BY <1>1, StripTurnFacts
<1>x. x = l[k + 1]
  OBVIOUS
<1> HIDE DEF x, r
<1>b. r.cut \in BOOLEAN /\ r.quoted \in BOOLEAN
  BY <1>4 DEF StripState
<1>5. CASE q.cut
  <2>1. r.cut /\ r.kept = q.kept /\ c < k
    BY <1>2, <1>4, <1>5
  <2>2. c \in 0 .. k + 1 /\ c < k + 1
    BY <1>1, <2>1
  <2>3. Stripped(l, r, k + 1, c)
    BY <1>2, <2>1, <2>2 DEF Stripped
  <2>. QED
    BY <2>2, <2>3 DEF r, x
<1>6. CASE ~q.cut /\ x = Semicolon /\ ~q.quoted
  <2>1. r.cut /\ r.kept = q.kept /\ c = k /\ QuotesIn(l, k) % 2 # 1
    BY <1>1, <1>2, <1>4, <1>6
  <2>2. c \in 0 .. k + 1 /\ c < k + 1 /\ c + 1 - 1 = k
    BY <1>1, <2>1
  <2>3. ~Open(l, c + 1)
    <3>1. l[c + 1] = Semicolon
      BY <1>x, <1>6, <2>1
    <3>2. QuotesIn(l, c + 1 - 1) = QuotesIn(l, k)
      BY <2>2
    <3>. QED
      BY <2>1, <3>1, <3>2 DEF Open
  <2>4. Stripped(l, r, k + 1, c)
    BY <1>2, <2>1, <2>2, <2>3 DEF Stripped
  <2>. QED
    BY <2>2, <2>4 DEF r, x
<1>7. CASE ~q.cut /\ ~(x = Semicolon /\ ~q.quoted)
  <2>1. ~r.cut /\ r.kept = Append(q.kept, x) /\ c = k /\ (r.quoted <=> (q.quoted <=> x # Quote))
        /\ (q.quoted <=> QuotesIn(l, k) % 2 = 1)
    BY <1>1, <1>2, <1>4, <1>7
  <2>2. PICK e \in Int : e = k + 1
    BY <1>1
  <2>3. e \in 0 .. k + 1 /\ e - 1 = k /\ ~(e < k + 1) /\ e = c + 1
    BY <1>1, <2>1, <2>2
  <2>4. Len(r.kept) = e /\ r.kept[e] = x /\ \A i \in 1 .. c : r.kept[i] = q.kept[i]
    <3>1. q.kept \in Seq(STRING) /\ x \in STRING /\ Len(q.kept) = c
      BY <1>1, <1>2
    <3>2. /\ Len(Append(q.kept, x)) = c + 1 /\ Append(q.kept, x)[c + 1] = x
          /\ \A i \in 1 .. c : Append(q.kept, x)[i] = q.kept[i]
      BY <3>1, AppendFacts
    <3>. QED
      BY <2>1, <2>3, <3>2
  <2>5. Open(l, e)
    BY <1>x, <1>7, <2>1, <2>2, <2>3 DEF Open
  <2>6. l[e] = x
    BY <1>x, <2>2
  <2>7. \A i \in 1 .. e : r.kept[i] = l[i] /\ Open(l, i)
    <3>1. \A i \in 1 .. e : i \in 1 .. c \/ i = e
      BY <2>3
    <3>. QED
      BY <1>2, <2>4, <2>5, <2>6, <3>1
  <2>8. r.quoted <=> QuotesIn(l, k + 1) % 2 = 1
    <3> DEFINE u == QuotesIn(l, k)
               v == QuotesIn(l, k + 1)
    <3>1. u \in Nat /\ (x = Quote => v = u + 1) /\ (x # Quote => v = u)
      BY <1>3 DEF If01
    <3> HIDE DEF u, v
    <3>2. x = Quote => (v % 2 = 1 <=> u % 2 # 1)
      BY <3>1
    <3>3. q.quoted <=> u % 2 = 1
      BY <2>1 DEF u
    <3>4. x = Quote => (r.quoted <=> v % 2 = 1)
      BY <1>b, <1>1, <2>1, <3>2, <3>3
    <3>5. x # Quote => (r.quoted <=> v % 2 = 1)
      BY <1>b, <1>1, <2>1, <3>1, <3>3
    <3>. QED
      BY <3>4, <3>5 DEF v
  <2>9. Stripped(l, r, k + 1, e)
    BY <2>1, <2>3, <2>4, <2>7, <2>8 DEF Stripped
  <2>. QED
    BY <2>3, <2>9 DEF r, x
<1>. QED
  BY <1>5, <1>6, <1>7

\* What is kept are the words that are visible.
LEMMA StripTells ==
  ASSUME NEW l \in Seq(STRING)
  PROVE  /\ StripComment(l) \in Seq(STRING) /\ Len(StripComment(l)) <= Len(l)
         /\ \A i \in 1 .. Len(StripComment(l)) : StripComment(l)[i] = l[i]
         /\ \A k \in 1 .. Len(l) : Visible(l, k) <=> k <= Len(StripComment(l))
<1> DEFINE n == Len(l)
<1>1. n \in Nat
  OBVIOUS
<1>2. PICK g \in [0 .. n -> StripState] :
        IsRun(g, StripTable, StripBegin, l) /\ StripComment(l) = g[n].kept
  BY StripRuns
<1> DEFINE T == {k \in 0 .. n : \E c \in 0 .. k : Stripped(l, g[k], k, c)}
<1>3. 0 \in T
  <2>1. g[0] = StripBegin
    BY <1>2 DEF IsRun
  <2>2. QuotesIn(l, 0) = 0 /\ 0 % 2 = 0
    BY QuotesStep
  <2>3. Len(<<>>) = 0 /\ 1 .. 0 = {}
    OBVIOUS
  <2>4. Stripped(l, g[0], 0, 0)
    BY <2>1, <2>2, <2>3 DEF Stripped, StripBegin
  <2>. QED
    BY <1>1, <2>4
<1>4. ASSUME NEW k \in 0 .. n - 1, k \in T PROVE k + 1 \in T
  <2>1. k \in 0 .. n /\ k + 1 \in 1 .. n /\ k + 1 - 1 = k /\ k + 1 \in 0 .. n
    BY <1>1
  <2>2. g[k] \in StripState /\ l[k + 1] \in STRING
    BY <2>1
  <2>3. g[k + 1] = StripTurn(g[k], l[k + 1])
    <3>1. \A m \in 1 .. n : g[m] = StripTable[<<g[m - 1], l[m]>>]
      BY <1>2 DEF IsRun
    <3>2. g[k + 1] = StripTable[<<g[k], l[k + 1]>>]
      BY <2>1, <3>1
    <3>. QED
      BY <2>2, <3>2, StripTableFacts
  <2>4. PICK c \in 0 .. k : Stripped(l, g[k], k, c)
    BY <1>4
  <2>5. \E e \in 0 .. k + 1 : Stripped(l, StripTurn(g[k], l[k + 1]), k + 1, e)
    BY <2>2, <2>4, StripStep
  <2>. QED
    BY <2>1, <2>3, <2>5
<1>5. n \in T
  <2> HIDE DEF T
  <2>1. \A k \in 0 .. n : k \in T
    BY <1>1, <1>3, <1>4, UpTo
  <2>. QED
    BY <1>1, <2>1
<1>6. PICK c \in 0 .. n : Stripped(l, g[n], n, c)
  BY <1>5
<1>7. g[n].kept \in Seq(STRING)
  <2>1. g[n] \in StripState
    BY <1>1
  <2>. QED
    BY <2>1 DEF StripState
<1>8. ASSUME NEW k \in 1 .. n PROVE Visible(l, k) <=> k <= c
  <2>1. Visible(l, k) <=> \A j \in 1 .. k : Open(l, j)
    BY VisibleIsOpen
  <2>2. (\A j \in 1 .. c : Open(l, j)) /\ (c < n => ~Open(l, c + 1))
    BY <1>6 DEF Stripped
  <2>3. k <= c => \A j \in 1 .. k : j \in 1 .. c
    BY <1>1
  <2>4. ~(k <= c) => c < n /\ c + 1 \in 1 .. k
    BY <1>1
  <2>. QED
    BY <2>1, <2>2, <2>3, <2>4
<1>9. Len(g[n].kept) = c /\ \A i \in 1 .. c : g[n].kept[i] = l[i]
  BY <1>6 DEF Stripped
<1>. QED
  BY <1>1, <1>2, <1>7, <1>8, <1>9

\* The counters of a zone, and the words that no record begins with.
AllRecords == "total"
Ignored == {"$", ";"}
ZoneKeys == RecordTypes \union {AllRecords}

\* The line is a record of the type ty.
Typed(l, ty) ==
  /\ l # <<>> /\ l[1] \notin Ignored
  /\ \E i \in DOMAIN l :
       l[i] = ty /\ Visible(l, i) /\ \A j \in 1 .. i - 1 : l[j] \notin RecordTypes

\* The lines with a record of a type.
RecordsOf(X, ty) == {l \in X : Typed(l, ty)}

\* The counters of a zone: one for each type, and the total of them.
ZoneInv(X, s, a) ==
  a # Failed =>
    /\ a \in [ZoneKeys -> Nat]
    /\ a.total = a.A + a.AAAA + a.CNAME + a.MX + a.NS + a.SOA + a.TXT
    /\ \A ty \in RecordTypes : a[ty] = Nr(s, RecordsOf(X, ty))

\* They are zero at first,
LEMMA ZoneStarts == \A X : ZoneInv(X, <<>>, ZoneStart)
<1>1. ZoneStart \in [ZoneKeys -> Nat] /\ \A k \in ZoneKeys : ZoneStart[k] = 0
  BY ZeroFacts DEF ZoneStart, ZoneKeys, AllRecords
<1>2. /\ ZoneStart.total = 0 /\ ZoneStart.A = 0 /\ ZoneStart.AAAA = 0 /\ ZoneStart.CNAME = 0
      /\ ZoneStart.MX = 0 /\ ZoneStart.NS = 0 /\ ZoneStart.SOA = 0 /\ ZoneStart.TXT = 0
      /\ \A ty \in RecordTypes : ZoneStart[ty] = 0
  BY <1>1 DEF ZoneKeys, RecordTypes, AllRecords
<1>3. ZoneStart.total = ZoneStart.A + ZoneStart.AAAA + ZoneStart.CNAME + ZoneStart.MX
        + ZoneStart.NS + ZoneStart.SOA + ZoneStart.TXT
  BY <1>2
<1>. QED
  BY <1>1, <1>2, <1>3, NrStart DEF ZoneInv

\* The type found is that of the line.
LEMMA DetectTells ==
  ASSUME NEW l \in Seq(STRING), NEW ty \in RecordTypes,
         StripComment(l) # <<>>, Head(StripComment(l)) # "$"
  PROVE  ty \in DetectType(StripComment(l)) <=> Typed(l, ty)
<1> DEFINE t == StripComment(l)
           c == Len(t)
           n == Len(l)
<1>1. /\ t \in Seq(STRING) /\ c <= n /\ n \in Nat /\ DOMAIN l = 1 .. n
      /\ \A i \in 1 .. c : t[i] = l[i]
      /\ \A k \in 1 .. n : Visible(l, k) <=> k <= c
  BY StripTells
<1> HIDE DEF t
<1>2. c \in Nat /\ c >= 1 /\ t[1] # "$"
  BY <1>1 DEF t
<1>3. l # <<>> /\ l[1] \notin Ignored
  <2>1. l[1] = t[1] /\ Visible(l, 1) /\ n >= 1
    BY <1>1, <1>2
  <2>2. l[1] # Semicolon
    <3>1. Open(l, 1)
      BY <2>1, VisibleIsOpen
    <3>2. QuotesIn(l, 1 - 1) % 2 # 1
      <4>1. QuotesIn(l, 0) = 0
        BY QuotesStep
      <4>. QED
        BY <4>1
    <3>. QED
      BY <3>1, <3>2 DEF Open
  <2>3. \A x : x \notin Ignored <=> x # "$" /\ x # Semicolon
    BY DEF Ignored, Semicolon
  <2>4. l # <<>>
    BY <2>1
  <2>. QED
    BY <1>2, <2>1, <2>2, <2>3, <2>4
<1>4. ty \in DetectType(t) <=>
        \E i \in 1 .. c : t[i] = ty /\ \A j \in 1 .. i - 1 : t[j] \notin RecordTypes
  <2>1. DOMAIN t = 1 .. c
    BY <1>1
  <2> HIDE DEF c
  <2>. QED
    BY <2>1 DEF DetectType
<1>5. ASSUME NEW i \in 1 .. c
      PROVE  (t[i] = ty /\ \A j \in 1 .. i - 1 : t[j] \notin RecordTypes)
             <=> (l[i] = ty /\ \A j \in 1 .. i - 1 : l[j] \notin RecordTypes)
  <2>1. \A j \in 1 .. i - 1 : j \in 1 .. c
    BY <1>2
  <2>. QED
    BY <1>1, <2>1
<1>6. \A i : i \in 1 .. c <=> i \in DOMAIN l /\ Visible(l, i)
  BY <1>1, <1>2
<1>7. ty \in DetectType(t) <=>
        \E i \in 1 .. c : l[i] = ty /\ \A j \in 1 .. i - 1 : l[j] \notin RecordTypes
  BY <1>4, <1>5
<1>8. Typed(l, ty) <=>
        \E i \in DOMAIN l :
          l[i] = ty /\ Visible(l, i) /\ \A j \in 1 .. i - 1 : l[j] \notin RecordTypes
  BY <1>3 DEF Typed
<1> HIDE DEF c
<1>9. ty \in DetectType(t) <=> Typed(l, ty)
  BY <1>6, <1>7, <1>8
<1>. QED
  BY <1>9 DEF t

\* A line that is empty, or a comment or a directive, is of no type.
LEMMA NoneTells ==
  ASSUME NEW l \in Seq(STRING), NEW ty,
         StripComment(l) = <<>> \/ Head(StripComment(l)) = "$"
  PROVE  ~Typed(l, ty)
<1> SUFFICES ASSUME l # <<>>, l[1] \notin Ignored PROVE FALSE
  BY DEF Typed
<1> DEFINE t == StripComment(l)
           c == Len(t)
           n == Len(l)
<1>1. /\ t \in Seq(STRING) /\ c <= n /\ n \in Nat /\ c \in Nat
      /\ \A i \in 1 .. c : t[i] = l[i]
      /\ \A k \in 1 .. n : Visible(l, k) <=> k <= c
  BY StripTells
<1>2. n >= 1
  OBVIOUS
<1> HIDE DEF t
<1>3. Visible(l, 1)
  <2>a. \A x : x \notin Ignored => x # Semicolon
    BY DEF Semicolon, Ignored
  <2>0. l[1] # Semicolon /\ \A j \in 1 .. 1 : j = 1
    BY <2>a
  <2>1. \A j \in 1 .. 1 : Open(l, j)
    BY <2>0 DEF Open
  <2>. QED
    BY <2>1, VisibleIsOpen
<1>4. c >= 1
  BY <1>1, <1>2, <1>3
<1>5. t # <<>> /\ Head(t) = t[1] /\ t[1] = l[1]
  BY <1>1, <1>4
<1>. QED
  BY <1>5 DEF t, Ignored

\* There is one type or none.
LEMMA DetectOnce ==
  ASSUME NEW t \in Seq(STRING)
  PROVE  DetectType(t) \in SUBSET RecordTypes /\ \A u, v \in DetectType(t) : u = v
<1>1. \A i \in DOMAIN t : i \in Nat /\ i >= 1
  OBVIOUS
<1>2. ASSUME NEW i \in DOMAIN t, NEW k \in DOMAIN t, t[i] \in RecordTypes, t[k] \in RecordTypes,
             \A j \in 1 .. i - 1 : t[j] \notin RecordTypes,
             \A j \in 1 .. k - 1 : t[j] \notin RecordTypes
      PROVE  i = k
  <2>1. i \notin 1 .. k - 1 /\ k \notin 1 .. i - 1
    BY <1>2
  <2>. QED
    BY <1>1, <2>1
<1>. QED
  BY <1>2 DEF DetectType

\* a line adds one to its type and to the total,
LEMMA ZoneKeeps ==
  ASSUME NEW X, NEW s \in Seq(X), NEW l \in X, NEW a, ZoneInv(X, s, a), a # Failed, ZoneLine(l)
  PROVE  ZoneInv(X, Append(s, l), ZoneStep(a, l))
<1> DEFINE t == StripComment(l)
           b == ZoneStep(a, l)
           u == Append(s, l)
           D == DetectType(t)
           K == D \union If(D # {}, {AllRecords})
<1>1. /\ a \in [ZoneKeys -> Nat]
      /\ a.total = a.A + a.AAAA + a.CNAME + a.MX + a.NS + a.SOA + a.TXT
      /\ \A ty \in RecordTypes : a[ty] = Nr(s, RecordsOf(X, ty))
  BY DEF ZoneInv
<1>2. t \in Seq(STRING) /\ l \in Seq(STRING) /\ Len(t) \in Nat
  BY StripTells DEF ZoneLine
<1>3. \A Q : Nr(s, Q) \in Nat /\ Nr(u, Q) = Nr(s, Q) + If01(l \in Q)
  BY NrStep
<1>4. \/ (t = <<>> \/ Head(t) = "$") /\ b = a
      \/ t # <<>> /\ Head(t) # "$" /\ b = Failed
      \/ t # <<>> /\ Head(t) # "$" /\ b = Bump(a, K)
  <2> HIDE DEF t
  <2>1. CASE t = <<>>
    <3>1. ~(Len(t) > MaxTokens)
      BY <2>1, NetAssumption
    <3>. QED
      BY <2>1, <3>1 DEF ZoneStep, t
  <2>2. CASE t # <<>> /\ Head(t) = "$"
    BY <2>2 DEF ZoneStep, t
  <2>3. CASE t # <<>> /\ Head(t) # "$"
    BY <2>3 DEF ZoneStep, t, AllRecords
  <2>. QED
    BY <2>1, <2>2, <2>3
<1> HIDE DEF t, b, u
<1>5. CASE (t = <<>> \/ Head(t) = "$") /\ b = a
  <2>1. \A ty : l \notin RecordsOf(X, ty)
    BY <1>2, <1>5, NoneTells DEF RecordsOf, t
  <2>2. \A ty \in RecordTypes : b[ty] = Nr(u, RecordsOf(X, ty))
    <3> SUFFICES ASSUME NEW ty \in RecordTypes PROVE a[ty] = Nr(u, RecordsOf(X, ty))
      BY <1>5
    <3>1. Nr(u, RecordsOf(X, ty)) = Nr(s, RecordsOf(X, ty)) + 0 /\ Nr(s, RecordsOf(X, ty)) \in Nat
      BY <1>3, <2>1 DEF If01
    <3>. QED
      BY <1>1, <3>1
  <2>. QED
    BY <1>1, <1>5, <2>2 DEF ZoneInv, b, u
<1>6. CASE b = Failed
  BY <1>6 DEF ZoneInv, b
<1>7. CASE t # <<>> /\ Head(t) # "$" /\ b = Bump(a, K)
  <2>1. D \in SUBSET RecordTypes /\ \A v, w \in D : v = w
    BY <1>2, DetectOnce
  <2> HIDE DEF D
  <2>2. AllRecords \notin RecordTypes
    BY DEF AllRecords, RecordTypes
  <2>3. (AllRecords \in K <=> D # {}) /\ \A ty \in RecordTypes : ty \in K <=> ty \in D
    BY <2>1, <2>2 DEF If
  <2> HIDE DEF K
  <2>4. b \in [ZoneKeys -> Nat] /\ \A k \in ZoneKeys : b[k] = a[k] + If01(k \in K)
    <3>1. b = Bump(a, K)
      BY <1>7
    <3>2. a \in [ZoneKeys -> Nat]
      BY <1>1
    <3>3. Bump(a, K) \in [ZoneKeys -> Nat] /\ \A k \in ZoneKeys : Bump(a, K)[k] = a[k] + If01(k \in K)
      BY <3>2, BumpFacts
    <3>. QED
      BY <3>1, <3>3
  <2>5. \A ty \in RecordTypes : ty \in D <=> l \in RecordsOf(X, ty)
    BY <1>2, <1>7, DetectTells DEF D, t, RecordsOf
  <2>6. \A ty \in RecordTypes : b[ty] = Nr(u, RecordsOf(X, ty))
    <3> SUFFICES ASSUME NEW ty \in RecordTypes PROVE b[ty] = Nr(u, RecordsOf(X, ty))
      OBVIOUS
    <3>1. ty \in K <=> l \in RecordsOf(X, ty)
      BY <2>3, <2>5
    <3>2. b[ty] = a[ty] + If01(l \in RecordsOf(X, ty))
      BY <2>4, <3>1 DEF ZoneKeys, If01
    <3>. QED
      BY <1>1, <1>3, <3>2
  <2>7. b.total = b.A + b.AAAA + b.CNAME + b.MX + b.NS + b.SOA + b.TXT
    <3>1. /\ b.total = a.total + If01(D # {})
          /\ b.A = a.A + If01("A" \in D) /\ b.AAAA = a.AAAA + If01("AAAA" \in D)
          /\ b.CNAME = a.CNAME + If01("CNAME" \in D) /\ b.MX = a.MX + If01("MX" \in D)
          /\ b.NS = a.NS + If01("NS" \in D) /\ b.SOA = a.SOA + If01("SOA" \in D)
          /\ b.TXT = a.TXT + If01("TXT" \in D)
      <4>1. \A k \in RecordTypes : b[k] = a[k] + If01(k \in D)
        BY <2>3, <2>4 DEF ZoneKeys, If01
      <4>2. b[AllRecords] = a[AllRecords] + If01(D # {})
        BY <2>3, <2>4 DEF ZoneKeys, If01
      <4>. QED
        BY <4>1, <4>2 DEF RecordTypes, AllRecords
    <3>2. \A k \in RecordTypes : a[k] \in Nat
      BY <1>1 DEF ZoneKeys
    <3>3. If01(D # {}) = If01("A" \in D) + If01("AAAA" \in D) + If01("CNAME" \in D)
            + If01("MX" \in D) + If01("NS" \in D) + If01("SOA" \in D) + If01("TXT" \in D)
      <4>1. CASE D = {}
        BY <4>1 DEF If01
      <4>2. CASE D # {}
        <5>1. PICK ty \in RecordTypes : D = {ty}
          BY <2>1, <4>2
        <5>. QED
          BY <5>1 DEF If01, RecordTypes
      <4>. QED
        BY <4>1, <4>2
    <3>4. /\ a.A \in Nat /\ a.AAAA \in Nat /\ a.CNAME \in Nat /\ a.MX \in Nat /\ a.NS \in Nat
          /\ a.SOA \in Nat /\ a.TXT \in Nat
      BY <3>2 DEF RecordTypes
    <3>5. /\ If01("A" \in D) \in Nat /\ If01("AAAA" \in D) \in Nat /\ If01("CNAME" \in D) \in Nat
          /\ If01("MX" \in D) \in Nat /\ If01("NS" \in D) \in Nat /\ If01("SOA" \in D) \in Nat
          /\ If01("TXT" \in D) \in Nat
      BY DEF If01
    <3>6. b.total = a.A + a.AAAA + a.CNAME + a.MX + a.NS + a.SOA + a.TXT
            + (If01("A" \in D) + If01("AAAA" \in D) + If01("CNAME" \in D)
            + If01("MX" \in D) + If01("NS" \in D) + If01("SOA" \in D) + If01("TXT" \in D))
      <4>1. a.total = a.A + a.AAAA + a.CNAME + a.MX + a.NS + a.SOA + a.TXT
        BY <1>1
      <4>2. b.total = a.total + If01(D # {})
        BY <3>1
      <4>. QED
        BY <4>1, <4>2, <3>3
    <3>7. b.A + b.AAAA + b.CNAME + b.MX + b.NS + b.SOA + b.TXT =
            (a.A + If01("A" \in D)) + (a.AAAA + If01("AAAA" \in D))
            + (a.CNAME + If01("CNAME" \in D)) + (a.MX + If01("MX" \in D))
            + (a.NS + If01("NS" \in D)) + (a.SOA + If01("SOA" \in D)) + (a.TXT + If01("TXT" \in D))
      BY <3>1
    <3>8. a.A + a.AAAA + a.CNAME + a.MX + a.NS + a.SOA + a.TXT
            + (If01("A" \in D) + If01("AAAA" \in D) + If01("CNAME" \in D)
            + If01("MX" \in D) + If01("NS" \in D) + If01("SOA" \in D) + If01("TXT" \in D))
          = (a.A + If01("A" \in D)) + (a.AAAA + If01("AAAA" \in D))
            + (a.CNAME + If01("CNAME" \in D)) + (a.MX + If01("MX" \in D))
            + (a.NS + If01("NS" \in D)) + (a.SOA + If01("SOA" \in D)) + (a.TXT + If01("TXT" \in D))
      <4>1. PICK i1 \in Nat, i2 \in Nat, i3 \in Nat, i4 \in Nat, i5 \in Nat, i6 \in Nat, i7 \in Nat :
              /\ If01("A" \in D) = i1 /\ If01("AAAA" \in D) = i2 /\ If01("CNAME" \in D) = i3
              /\ If01("MX" \in D) = i4 /\ If01("NS" \in D) = i5 /\ If01("SOA" \in D) = i6
              /\ If01("TXT" \in D) = i7
        BY ONLY <3>5
      <4>2. PICK a1 \in Nat, a2 \in Nat, a3 \in Nat, a4 \in Nat, a5 \in Nat, a6 \in Nat, a7 \in Nat :
              /\ a.A = a1 /\ a.AAAA = a2 /\ a.CNAME = a3 /\ a.MX = a4 /\ a.NS = a5 /\ a.SOA = a6
              /\ a.TXT = a7
        BY ONLY <3>4
      <4>3. a1 + a2 + a3 + a4 + a5 + a6 + a7 + (i1 + i2 + i3 + i4 + i5 + i6 + i7)
            = (a1 + i1) + (a2 + i2) + (a3 + i3) + (a4 + i4) + (a5 + i5) + (a6 + i6) + (a7 + i7)
        OBVIOUS
      <4>. QED
        BY ONLY <4>1, <4>2, <4>3
    <3>. QED
      BY ONLY <3>6, <3>7, <3>8
  <2>. QED
    BY <2>4, <2>6, <2>7 DEF ZoneInv, b, u
<1>. QED
  BY <1>4, <1>5, <1>6, <1>7

\* and then say what the whole zone says.
LEMMA ZoneTells ==
  ASSUME NEW X, NEW s \in Seq(X), NEW a, ZoneInv(X, s, a)
  PROVE  ZoneMatches(s, a)
<1> DEFINE P(l, ty) ==
             /\ l # <<>> /\ l[1] \notin {"$", ";"}
             /\ \E i \in DOMAIN l :
                  /\ l[i] = ty /\ Visible(l, i)
                  /\ \A j \in 1 .. i - 1 : l[j] \notin RecordTypes
<1>1. \A k \in DOMAIN s : s[k] \in X
  OBVIOUS
<1>2. ASSUME NEW ty PROVE Cardinality({i \in DOMAIN s : P(s[i], ty)}) = Nr(s, RecordsOf(X, ty))
  <2>1. \A l : P(l, ty) <=> Typed(l, ty)
    BY DEF Typed, Ignored
  <2> HIDE DEF P
  <2>2. {i \in DOMAIN s : P(s[i], ty)} = Where(s, RecordsOf(X, ty))
    BY <1>1, <2>1 DEF Where, RecordsOf
  <2>. QED
    BY <2>2 DEF Nr
<1> HIDE DEF P
<1>3. ASSUME a # Failed, NEW ty \in RecordTypes
      PROVE  a[ty] = Cardinality({i \in DOMAIN s : P(s[i], ty)})
  BY <1>2, <1>3 DEF ZoneInv
<1>4. a # Failed => a.total = a.A + a.AAAA + a.CNAME + a.MX + a.NS + a.SOA + a.TXT
  BY DEF ZoneInv
<1>. QED
  BY <1>3, <1>4 DEF ZoneMatches, Count, P

-----------------------------------------------------------------------------
(* Block 10: shares of smb.conf, counted when the next section begins.      *)

\* A line that gives a setting a value.
GivesTo(l, key) == l.kind = "setting" /\ l.key = key /\ l.bool # {}

\* No section begins at the places i to j.
NoSection(s, i, j) == \A k \in i .. j : s[k].kind # "section"

\* The line j is a setting of key of the section that begins at i.
SetsOf(s, i, key, j) == i < j /\ NoSection(s, i + 1, j) /\ GivesTo(s[j], key)

\* What the last such setting says.
LastSetting(s, i, key, j) ==
  SetsOf(s, i, key, j) /\ \A m \in j + 1 .. Len(s) : ~SetsOf(s, i, key, m)
\* What the section at i says of a setting: its last line decides.
Value(s, i, key) == UNION {s[j].bool : j \in {j \in DOMAIN s : LastSetting(s, i, key, j)}}

\* The sections of smb.conf.
Sections(s) == {i \in DOMAIN s : s[i].kind = "section"}

\* A line more is the end of a section, or one more line of it.
LEMMA NoSectionStep ==
  ASSUME NEW X, NEW s \in Seq(X), NEW l \in X, NEW i \in Nat
  PROVE  /\ \A j \in Int : i >= 1 /\ j <= Len(s) =>
              (NoSection(Append(s, l), i, j) <=> NoSection(s, i, j))
         /\ i >= 1 /\ i <= Len(s) + 1 =>
              (NoSection(Append(s, l), i, Len(s) + 1)
                 <=> NoSection(s, i, Len(s)) /\ l.kind # "section")
<1> DEFINE t == Append(s, l)
           n == Len(s)
<1>1. n \in Nat /\ t[n + 1] = l /\ \A k \in 1 .. n : t[k] = s[k]
  BY AppendFacts
<1> HIDE DEF t, n
<1>2. ASSUME NEW j \in Int, i >= 1, j <= n
      PROVE  NoSection(t, i, j) <=> NoSection(s, i, j)
  <2>1. \A k \in i .. j : k \in 1 .. n
    BY <1>1, <1>2
  <2>2. \A k \in i .. j : t[k] = s[k]
    BY <1>1, <2>1
  <2>. QED
    BY <2>2 DEF NoSection
<1>3. ASSUME i >= 1, i <= n + 1
      PROVE  NoSection(t, i, n + 1) <=> NoSection(t, i, n) /\ l.kind # "section"
  <2>1. \A k : k \in i .. n + 1 <=> k \in i .. n \/ k = n + 1
    BY <1>1, <1>3
  <2>. QED
    BY <1>1, <2>1 DEF NoSection
<1>4. i >= 1 => (NoSection(t, i, n) <=> NoSection(s, i, n))
  BY <1>1, <1>2
<1>. QED
  BY <1>2, <1>3, <1>4 DEF t, n

\* One more line is the last setting, or changes nothing.
LEMMA ValueStep ==
  ASSUME NEW X, NEW s \in Seq(X), NEW l \in X, NEW i \in 1 .. Len(s), NEW key
  PROVE  Value(Append(s, l), i, key) =
           IF GivesTo(l, key) /\ NoSection(s, i + 1, Len(s)) THEN l.bool ELSE Value(s, i, key)
<1> DEFINE t == Append(s, l)
           n == Len(s)
<1>1. /\ n \in Nat /\ Len(t) = n + 1 /\ DOMAIN s = 1 .. n /\ DOMAIN t = 1 .. n + 1
      /\ t[n + 1] = l /\ \A k \in 1 .. n : t[k] = s[k]
  BY AppendFacts
<1>2. /\ \A j \in Int : j <= n => (NoSection(t, i + 1, j) <=> NoSection(s, i + 1, j))
      /\ NoSection(t, i + 1, n + 1) <=> NoSection(s, i + 1, n) /\ l.kind # "section"
  <2>1. i + 1 \in Nat /\ i + 1 >= 1 /\ i + 1 <= n + 1
    BY <1>1
  <2>. QED
    BY <2>1, NoSectionStep
<1>i. i \in 1 .. n
  OBVIOUS
<1> HIDE DEF t, n
<1>3. \A j \in 1 .. n : SetsOf(t, i, key, j) <=> SetsOf(s, i, key, j)
  BY <1>1, <1>2 DEF SetsOf
<1>4. SetsOf(t, i, key, n + 1) <=> GivesTo(l, key) /\ NoSection(s, i + 1, n)
  <2>1. i < n + 1
    BY <1>1, <1>i
  <2>2. GivesTo(l, key) => l.kind # "section"
    BY DEF GivesTo
  <2>. QED
    BY <1>1, <1>2, <2>1, <2>2 DEF SetsOf
<1>5. CASE GivesTo(l, key) /\ NoSection(s, i + 1, n)
  <2>1. n + 1 \in DOMAIN t /\ n + 1 + 1 .. Len(t) = {}
    BY <1>1
  <2>2. LastSetting(t, i, key, n + 1)
    BY <1>4, <1>5, <2>1 DEF LastSetting
  <2>3. ASSUME NEW j \in DOMAIN t, LastSetting(t, i, key, j) PROVE j = n + 1
    <3>1. j # n + 1 => n + 1 \in j + 1 .. Len(t)
      BY <1>1
    <3>. QED
      BY <1>4, <1>5, <2>3, <3>1 DEF LastSetting
  <2>4. {j \in DOMAIN t : LastSetting(t, i, key, j)} = {n + 1}
    BY <2>1, <2>2, <2>3
  <2>5. Value(t, i, key) = l.bool
    BY <1>1, <2>4 DEF Value
  <2>. QED
    BY <1>5, <2>5 DEF t, n
<1>6. CASE ~(GivesTo(l, key) /\ NoSection(s, i + 1, n))
  <2>1. ~LastSetting(t, i, key, n + 1)
    BY <1>4, <1>6 DEF LastSetting
  <2>2. ASSUME NEW j \in 1 .. n
        PROVE  LastSetting(t, i, key, j) <=> LastSetting(s, i, key, j)
    <3>1. \A m \in j + 1 .. n + 1 : m \in j + 1 .. n \/ m = n + 1
      BY <1>1
    <3>2. \A m \in j + 1 .. n : m \in j + 1 .. n + 1 /\ m \in 1 .. n
      BY <1>1
    <3>. QED
      BY <1>1, <1>3, <1>4, <1>6, <3>1, <3>2 DEF LastSetting
  <2>3. \A j : j \in 1 .. n + 1 <=> j \in 1 .. n \/ j = n + 1
    BY <1>1
  <2>4. {j \in DOMAIN t : LastSetting(t, i, key, j)} = {j \in DOMAIN s : LastSetting(s, i, key, j)}
    BY <1>1, <2>1, <2>2, <2>3
  <2>5. \A j \in DOMAIN s : t[j] = s[j]
    BY <1>1
  <2>6. Value(t, i, key) = Value(s, i, key)
    BY <2>4, <2>5 DEF Value
  <2>. QED
    BY <1>6, <2>6 DEF t, n
<1>. QED
  BY <1>5, <1>6

\* A section that begins with the last line has no setting.
LEMMA ValueStart ==
  ASSUME NEW X, NEW s \in Seq(X), NEW key
  PROVE  Value(s, Len(s), key) = {}
<1>1. \A j \in DOMAIN s : ~(Len(s) < j)
  OBVIOUS
<1>. QED
  BY <1>1 DEF Value, LastSetting, SetsOf

\* What is counted of the shares.
SmbKeys == {"shares", "writable", "guest_ok", "browseable_no"}
\* The sections that are shares.
Shares(s) == {i \in Sections(s) : s[i].name # "global"}

\* What a share is counted as, by its settings.
Writable(s, i) ==
  IF Value(s, i, "writable") # {} THEN TRUE \in Value(s, i, "writable")
  ELSE FALSE \in Value(s, i, "read only")
\* The counters a share adds to.
CountedAs(s, i) ==
  {"shares"} \union If(Writable(s, i), {"writable"})
    \union If(TRUE \in Value(s, i, "guest ok"), {"guest_ok"})
    \union If(FALSE \in Value(s, i, "browseable"), {"browseable_no"})

\* The shares that another section has ended.
Closed(s) == {i \in Shares(s) : ~NoSection(s, i + 1, Len(s))}
\* The shares of T that add to the counter k.
SharesAs(s, T, k) == {i \in T : k \in CountedAs(s, i)}

\* What is remembered of the section at h.
Remembers(s, h, cur) ==
  /\ cur.is_global <=> s[h].name = "global"
  /\ cur.writable = Value(s, h, "writable") /\ cur.read_only = Value(s, h, "read only")
  /\ cur.guest_ok <=> TRUE \in Value(s, h, "guest ok")
  /\ cur.browseable <=> FALSE \notin Value(s, h, "browseable")

\* What is remembered of a section.
SmbShares ==
  [active : BOOLEAN, is_global : BOOLEAN, read_only : SUBSET BOOLEAN, writable : SUBSET BOOLEAN,
   guest_ok : BOOLEAN, browseable : BOOLEAN]

\* The counters count the shares that have ended; the open section is remembered.
SmbInv(s, a) ==
  /\ a.st \in [SmbKeys -> Nat] /\ a.cur \in SmbShares
  /\ a.cur.active <=> Sections(s) # {}
  /\ \A h \in Sections(s) : NoSection(s, h + 1, Len(s)) => Remembers(s, h, a.cur)
  /\ \A k \in SmbKeys : a.st[k] = Cardinality(SharesAs(s, Closed(s), k))

\* There is no share at first,
LEMMA SmbStarts == SmbInv(<<>>, SmbStart)
<1>1. SmbStart.st = Zero(SmbKeys) /\ SmbStart.cur = [Section("") EXCEPT !.active = FALSE]
  BY DEF SmbStart, SmbKeys
<1>2. SmbStart.st \in [SmbKeys -> Nat] /\ \A k \in SmbKeys : SmbStart.st[k] = 0
  BY <1>1, ZeroFacts
<1>3. Sections(<<>>) = {} /\ \A k : SharesAs(<<>>, Closed(<<>>), k) = {}
  BY DEF Sections, Closed, Shares, SharesAs
<1>4. SmbStart.cur \in SmbShares /\ ~SmbStart.cur.active
  <2>1. Section("") \in SmbShares
    BY DEF Section, SmbShares
  <2>. QED
    BY <1>1, <2>1 DEF SmbShares
<1>5. Cardinality({}) = 0
  BY FS_EmptySet
<1>. QED
  BY <1>2, <1>3, <1>4, <1>5 DEF SmbInv

\* One section only is the last.
LEMMA LastSection ==
  ASSUME NEW X, NEW s \in Seq(X)
  PROVE  /\ \A h, i \in Sections(s) :
              NoSection(s, h + 1, Len(s)) /\ NoSection(s, i + 1, Len(s)) => h = i
         /\ Sections(s) # {} => \E h \in Sections(s) : NoSection(s, h + 1, Len(s))
         /\ Sections(s) \in SUBSET (1 .. Len(s)) /\ Len(s) \in Nat /\ IsFiniteSet(Sections(s))
<1>1. Len(s) \in Nat /\ DOMAIN s = 1 .. Len(s) /\ Sections(s) \in SUBSET (1 .. Len(s))
  BY DEF Sections
<1>2. ASSUME NEW h \in Sections(s), NEW i \in Sections(s), NoSection(s, h + 1, Len(s)),
             NoSection(s, i + 1, Len(s))
      PROVE  h = i
  <2>1. ~(h \in i + 1 .. Len(s)) /\ ~(i \in h + 1 .. Len(s))
    BY <1>2 DEF NoSection, Sections
  <2>. QED
    BY <1>1, <2>1
<1>3. ASSUME Sections(s) # {}
      PROVE  \E h \in Sections(s) : NoSection(s, h + 1, Len(s))
  <2>1. PICK h \in Sections(s) : \A k \in Sections(s) : h >= k
    BY <1>1, <1>3, Greatest
  <2>2. \A k \in h + 1 .. Len(s) : k \in DOMAIN s /\ ~(h >= k)
    BY <1>1
  <2>3. \A k \in h + 1 .. Len(s) : k \notin Sections(s)
    BY <2>1, <2>2
  <2>. QED
    BY <2>2, <2>3 DEF NoSection, Sections
<1>4. IsFiniteSet(Sections(s))
  BY <1>1, PlacesAreFinite
<1>. QED
  BY <1>1, <1>2, <1>3, <1>4

\* FlushShare counts every share.
LEMMA FlushCounts ==
  ASSUME NEW X, NEW s \in Seq(X), NEW a, SmbInv(s, a)
  PROVE  /\ FlushShare(a) \in [SmbKeys -> Nat]
         /\ \A k \in SmbKeys : FlushShare(a)[k] = Cardinality(SharesAs(s, Shares(s), k))
<1> DEFINE cur == a.cur
           K == {"shares"} \union If(WritableEffective(cur), {"writable"})
                  \union If(cur.guest_ok, {"guest_ok"})
                  \union If(~cur.browseable, {"browseable_no"})
           D == If(cur.active /\ ~cur.is_global, K)
           b == FlushShare(a)
<1>1. /\ a.st \in [SmbKeys -> Nat] /\ cur \in SmbShares
      /\ cur.active <=> Sections(s) # {}
      /\ \A h \in Sections(s) : NoSection(s, h + 1, Len(s)) => Remembers(s, h, cur)
      /\ \A k \in SmbKeys : a.st[k] = Cardinality(SharesAs(s, Closed(s), k))
  BY DEF SmbInv
<1>2. b = Bump(a.st, D)
  BY DEF FlushShare
<1> HIDE DEF cur, K, D, b
<1>3. b \in [SmbKeys -> Nat] /\ \A k \in SmbKeys : b[k] = a.st[k] + If01(k \in D)
  <2>1. a.st \in [SmbKeys -> Nat]
    BY <1>1
  <2>2. Bump(a.st, D) \in [SmbKeys -> Nat]
        /\ \A k \in SmbKeys : Bump(a.st, D)[k] = a.st[k] + If01(k \in D)
    BY <2>1, BumpFacts
  <2>. QED
    BY <1>2, <2>2
<1>4. \A T \in SUBSET Sections(s) : IsFiniteSet(T) /\ Cardinality(T) \in Nat
  <2>1. IsFiniteSet(Sections(s))
    BY LastSection
  <2>. QED
    BY <2>1, FS_Subset, FS_CardinalityType
<1>5. Closed(s) \in SUBSET Shares(s) /\ Shares(s) \in SUBSET Sections(s)
  BY DEF Closed, Shares
<1>6. CASE D = {}
  <2>1. Shares(s) = Closed(s)
    <3> SUFFICES ASSUME NEW i \in Shares(s), NoSection(s, i + 1, Len(s)) PROVE FALSE
      BY DEF Closed
    <3>1. i \in Sections(s) /\ cur.active
      BY <1>1, <1>5
    <3>2. cur.is_global
      BY <1>6, <3>1 DEF D, If, K
    <3>3. cur.is_global <=> s[i].name = "global"
      BY <1>1, <3>1 DEF Remembers
    <3>. QED
      BY <3>2, <3>3 DEF Shares
  <2>2. \A k \in SmbKeys : a.st[k] \in Nat /\ If01(k \in D) = 0
    BY <1>1, <1>6 DEF If01
  <2>. QED
    BY <1>1, <1>3, <2>1, <2>2 DEF b
<1>7. CASE D # {}
  <2>1. cur.active /\ ~cur.is_global /\ D = K
    BY <1>7 DEF D, If
  <2>2. PICK h \in Sections(s) : NoSection(s, h + 1, Len(s))
    BY <1>1, <2>1, LastSection
  <2>3. Remembers(s, h, cur)
    BY <1>1, <2>2
  <2>4. h \in Shares(s) /\ h \notin Closed(s)
    BY <2>1, <2>2, <2>3 DEF Shares, Closed, Remembers
  <2>5. Shares(s) = Closed(s) \union {h}
    <3> SUFFICES ASSUME NEW i \in Shares(s), i \notin Closed(s) PROVE i = h
      BY <1>5, <2>4
    <3>1. i \in Sections(s) /\ NoSection(s, i + 1, Len(s))
      BY <1>5 DEF Closed
    <3>. QED
      BY <2>2, <3>1, LastSection
  <2>6. K = CountedAs(s, h)
    <3>1. WritableEffective(cur) <=> Writable(s, h)
      BY <2>3 DEF WritableEffective, Writable, Remembers
    <3>2. (cur.guest_ok <=> TRUE \in Value(s, h, "guest ok"))
          /\ (~cur.browseable <=> FALSE \in Value(s, h, "browseable"))
      BY <2>3 DEF Remembers
    <3>. QED
      BY <3>1, <3>2 DEF K, CountedAs, If
  <2>7. ASSUME NEW k \in SmbKeys PROVE b[k] = Cardinality(SharesAs(s, Shares(s), k))
    <3> DEFINE C == SharesAs(s, Closed(s), k)
    <3>1. b[k] = Cardinality(C) + If01(k \in CountedAs(s, h))
      BY <1>1, <1>3, <2>1, <2>6
    <3>2. IsFiniteSet(C) /\ Cardinality(C) \in Nat /\ h \notin C
      BY <1>4, <1>5, <2>4 DEF SharesAs
    <3>3. CASE k \in CountedAs(s, h)
      <4>1. SharesAs(s, Shares(s), k) = C \union {h}
        BY <2>5, <3>3 DEF SharesAs
      <4>. QED
        BY <3>1, <3>2, <3>3, <4>1, FS_AddElement DEF If01
    <3>4. CASE k \notin CountedAs(s, h)
      <4>1. SharesAs(s, Shares(s), k) = C
        BY <2>5, <3>4 DEF SharesAs
      <4>. QED
        BY <3>1, <3>2, <3>4, <4>1 DEF If01
    <3>. QED
      BY <3>3, <3>4
  <2>. QED
    BY <1>3, <2>7 DEF b
<1>. QED
  BY <1>6, <1>7

\* What a setting does to what is remembered.
LEMMA SetShareTells ==
  ASSUME NEW cur \in SmbShares, NEW l, SmbLine(l), l.kind = "setting", l.bool # {}
  PROVE  /\ SetShare(cur, l) \in SmbShares
         /\ SetShare(cur, l).active = cur.active /\ SetShare(cur, l).is_global = cur.is_global
         /\ SetShare(cur, l).read_only = IF GivesTo(l, "read only") THEN l.bool ELSE cur.read_only
         /\ SetShare(cur, l).writable = IF GivesTo(l, "writable") THEN l.bool ELSE cur.writable
         /\ SetShare(cur, l).guest_ok = IF GivesTo(l, "guest ok") THEN TRUE \in l.bool ELSE cur.guest_ok
         /\ SetShare(cur, l).browseable =
              IF GivesTo(l, "browseable") THEN TRUE \in l.bool ELSE cur.browseable
<1>1. l.bool \in SUBSET BOOLEAN /\ (TRUE \in l.bool) \in BOOLEAN
  BY DEF SmbLine, Parsed
<1>2. \A key : GivesTo(l, key) <=> l.key = key
  BY DEF GivesTo
<1>3. CASE l.key = "read only"
  <2>1. SetShare(cur, l) = [cur EXCEPT !.read_only = l.bool]
    BY <1>3 DEF SetShare
  <2>2. ~GivesTo(l, "writable") /\ ~GivesTo(l, "guest ok") /\ ~GivesTo(l, "browseable") /\ GivesTo(l, "read only")
    BY <1>2, <1>3
  <2>. QED
    BY <1>1, <2>1, <2>2 DEF SmbShares
<1>4. CASE l.key = "writable"
  <2>1. SetShare(cur, l) = [cur EXCEPT !.writable = l.bool]
    BY <1>4 DEF SetShare
  <2>2. GivesTo(l, "writable") /\ ~GivesTo(l, "guest ok") /\ ~GivesTo(l, "browseable") /\ ~GivesTo(l, "read only")
    BY <1>2, <1>4
  <2>. QED
    BY <1>1, <2>1, <2>2 DEF SmbShares
<1>5. CASE l.key = "guest ok"
  <2>1. SetShare(cur, l) = [cur EXCEPT !.guest_ok = TRUE \in l.bool]
    BY <1>5 DEF SetShare
  <2>2. ~GivesTo(l, "writable") /\ GivesTo(l, "guest ok") /\ ~GivesTo(l, "browseable") /\ ~GivesTo(l, "read only")
    BY <1>2, <1>5
  <2>. QED
    BY <1>1, <2>1, <2>2 DEF SmbShares
<1>6. CASE l.key = "browseable"
  <2>1. SetShare(cur, l) = [cur EXCEPT !.browseable = TRUE \in l.bool]
    BY <1>6 DEF SetShare
  <2>2. ~GivesTo(l, "writable") /\ ~GivesTo(l, "guest ok") /\ GivesTo(l, "browseable") /\ ~GivesTo(l, "read only")
    BY <1>2, <1>6
  <2>. QED
    BY <1>1, <2>1, <2>2 DEF SmbShares
<1>7. CASE l.key \notin {"read only", "writable", "guest ok", "browseable"}
  <2>1. SetShare(cur, l) = cur
    BY <1>7 DEF SetShare
  <2>2. ~GivesTo(l, "writable") /\ ~GivesTo(l, "guest ok") /\ ~GivesTo(l, "browseable") /\ ~GivesTo(l, "read only")
    BY <1>2, <1>7
  <2>. QED
    BY <2>1, <2>2
<1>. QED
  BY <1>3, <1>4, <1>5, <1>6, <1>7

\* A share is counted by the values of its settings.
LEMMA CountedBy ==
  ASSUME NEW s, NEW t, NEW i, \A key : Value(t, i, key) = Value(s, i, key)
  PROVE  CountedAs(t, i) = CountedAs(s, i)
<1>1. /\ Value(t, i, "guest ok") = Value(s, i, "guest ok")
      /\ Value(t, i, "browseable") = Value(s, i, "browseable")
      /\ Value(t, i, "writable") = Value(s, i, "writable")
      /\ Value(t, i, "read only") = Value(s, i, "read only")
  OBVIOUS
<1>2. Writable(t, i) = Writable(s, i)
  BY <1>1, Zenon DEF Writable
<1>. QED
  BY <1>1, <1>2, Zenon DEF CountedAs

\* The shares with another section after them stay as they were.
LEMMA ClosedStay ==
  ASSUME NEW X, NEW s \in Seq(X), NEW l \in X, l.kind # "section"
  PROVE  /\ Sections(Append(s, l)) = Sections(s)
         /\ \A h \in Sections(s) :
              /\ NoSection(Append(s, l), h + 1, Len(s) + 1) <=> NoSection(s, h + 1, Len(s))
              /\ Append(s, l)[h] = s[h]
         /\ \A k : SharesAs(Append(s, l), Closed(Append(s, l)), k) = SharesAs(s, Closed(s), k)
<1> DEFINE t == Append(s, l)
           n == Len(s)
<1>1. /\ n \in Nat /\ Len(t) = n + 1 /\ DOMAIN s = 1 .. n /\ DOMAIN t = 1 .. n + 1
      /\ t[n + 1] = l /\ \A k \in 1 .. n : t[k] = s[k]
      /\ \A k : k \in 1 .. n + 1 <=> k \in 1 .. n \/ k = n + 1
  BY AppendFacts
<1>2. \A i \in 1 .. n : NoSection(t, i + 1, n + 1) <=> NoSection(s, i + 1, n)
  <2> SUFFICES ASSUME NEW i \in 1 .. n PROVE NoSection(t, i + 1, n + 1) <=> NoSection(s, i + 1, n)
    OBVIOUS
  <2>1. i + 1 \in Nat /\ i + 1 >= 1 /\ i + 1 <= n + 1
    BY <1>1
  <2>. QED
    BY <2>1, NoSectionStep
<1>v. ASSUME NEW i \in 1 .. n, ~NoSection(s, i + 1, n), NEW key
      PROVE  Value(t, i, key) = Value(s, i, key)
  BY <1>v, ValueStep
<1> HIDE DEF t, n
<1>3. Sections(t) = Sections(s)
  BY <1>1 DEF Sections
<1>4. \A i \in Sections(s) : i \in 1 .. n
  BY <1>1 DEF Sections
<1>5. Shares(t) = Shares(s)
  BY <1>1, <1>3, <1>4 DEF Shares
<1>6. Closed(t) = Closed(s)
  <2>1. \A i \in Shares(s) : i \in 1 .. n
    BY <1>4 DEF Shares
  <2>2. \A i \in Shares(s) : NoSection(t, i + 1, Len(t)) <=> NoSection(s, i + 1, Len(s))
    BY <1>1, <1>2, <2>1 DEF n
  <2>. QED
    BY <1>5, <2>2 DEF Closed
<1>7. ASSUME NEW i \in Closed(s) PROVE CountedAs(t, i) = CountedAs(s, i)
  <2>1. i \in 1 .. n /\ ~NoSection(s, i + 1, n)
    BY <1>4 DEF Closed, Shares, n
  <2>2. \A key : Value(t, i, key) = Value(s, i, key)
    BY <1>v, <2>1
  <2>. QED
    BY <2>2, CountedBy
<1>8. \A k : SharesAs(t, Closed(t), k) = SharesAs(s, Closed(s), k)
  BY <1>6, <1>7 DEF SharesAs
<1>. QED
  BY <1>1, <1>2, <1>3, <1>4, <1>8 DEF t, n

\* A section begins: the one before it is counted.
LEMMA SectionKeeps ==
  ASSUME NEW X, NEW s \in Seq(X), NEW l \in X, NEW a, SmbInv(s, a), l.kind = "section"
  PROVE  SmbInv(Append(s, l), SmbStep(a, l))
<1> DEFINE t == Append(s, l)
           n == Len(s)
           b == SmbStep(a, l)
<1>1. /\ n \in Nat /\ Len(t) = n + 1 /\ DOMAIN s = 1 .. n /\ DOMAIN t = 1 .. n + 1
      /\ t[n + 1] = l /\ (\A k \in 1 .. n : t[k] = s[k]) /\ t \in Seq(X)
      /\ \A k : k \in 1 .. n + 1 <=> k \in 1 .. n \/ k = n + 1
  BY AppendFacts
<1>2. b.st = FlushShare(a) /\ b.cur = Section(l.name)
  BY DEF SmbStep
<1>3. /\ b.st \in [SmbKeys -> Nat]
      /\ \A k \in SmbKeys : b.st[k] = Cardinality(SharesAs(s, Shares(s), k))
  BY <1>2, FlushCounts
<1>v. ASSUME NEW i \in 1 .. n, NEW key PROVE Value(t, i, key) = Value(s, i, key)
  <2>1. ~GivesTo(l, key)
    BY DEF GivesTo
  <2>. QED
    BY <2>1, ValueStep
<1>w. \A key : Value(t, n + 1, key) = {}
  BY <1>1, ValueStart
<1> HIDE DEF t, n, b
<1>4. Sections(t) = Sections(s) \union {n + 1} /\ Sections(s) \in SUBSET (1 .. n)
  BY <1>1 DEF Sections
<1>5. \A i \in 1 .. n : ~NoSection(t, i + 1, n + 1)
  <2>1. \A i \in 1 .. n : n + 1 \in i + 1 .. n + 1
    BY <1>1
  <2>. QED
    BY <1>1, <2>1 DEF NoSection
<1>6. NoSection(t, n + 1 + 1, n + 1)
  <2>1. n + 1 + 1 .. n + 1 = {}
    BY <1>1
  <2>. QED
    BY <2>1 DEF NoSection
<1>7. Closed(t) = Shares(s)
  <2>1. ASSUME NEW i \in Shares(s) PROVE i \in Closed(t)
    <3>1. i \in 1 .. n /\ i \in Sections(t) /\ t[i].name # "global"
      BY <1>1, <1>4 DEF Shares
    <3>. QED
      BY <1>1, <1>5, <3>1 DEF Closed, Shares
  <2>2. ASSUME NEW i \in Closed(t) PROVE i \in Shares(s)
    <3>1. i \in Sections(t) /\ t[i].name # "global" /\ ~NoSection(t, i + 1, n + 1)
      BY <1>1 DEF Closed, Shares
    <3>2. i \in Sections(s)
      BY <1>4, <1>6, <3>1
    <3>. QED
      BY <1>1, <1>4, <3>1, <3>2 DEF Shares
  <2>. QED
    BY <2>1, <2>2
<1>8. ASSUME NEW k PROVE SharesAs(t, Closed(t), k) = SharesAs(s, Shares(s), k)
  <2>1. ASSUME NEW i \in Shares(s) PROVE CountedAs(t, i) = CountedAs(s, i)
    <3>1. i \in 1 .. n
      BY <1>4 DEF Shares
    <3>2. \A key : Value(t, i, key) = Value(s, i, key)
      BY <1>v, <3>1
    <3>. QED
      BY <3>2, CountedBy
  <2>. QED
    BY <1>7, <2>1 DEF SharesAs
<1>9. b.cur \in SmbShares /\ b.cur.active
  <2> DEFINE g == l.name = "global"
  <2>1. Section(l.name) = [active |-> TRUE, is_global |-> g, read_only |-> {}, writable |-> {},
                           guest_ok |-> FALSE, browseable |-> TRUE]
    BY DEF Section
  <2>2. g \in BOOLEAN /\ {} \in SUBSET BOOLEAN /\ TRUE \in BOOLEAN /\ FALSE \in BOOLEAN
    OBVIOUS
  <2> HIDE DEF g
  <2>. QED
    BY <1>2, <2>1, <2>2 DEF SmbShares
<1>10. ASSUME NEW h \in Sections(t), NoSection(t, h + 1, n + 1) PROVE Remembers(t, h, b.cur)
  <2>1. h = n + 1
    BY <1>4, <1>5, <1>10
  <2>2. t[h].name = l.name
    BY <1>1, <2>1
  <2>3. /\ Value(t, h, "guest ok") = {} /\ Value(t, h, "browseable") = {}
        /\ Value(t, h, "writable") = {} /\ Value(t, h, "read only") = {}
    BY <1>w, <2>1
  <2>4. /\ b.cur.is_global <=> l.name = "global"
        /\ b.cur.writable = {} /\ b.cur.read_only = {} /\ ~b.cur.guest_ok /\ b.cur.browseable
    <3> DEFINE g == l.name = "global"
    <3>1. Section(l.name) = [active |-> TRUE, is_global |-> g, read_only |-> {}, writable |-> {},
                             guest_ok |-> FALSE, browseable |-> TRUE]
      BY DEF Section
    <3> HIDE DEF g
    <3>2. /\ b.cur.is_global = g
          /\ b.cur.writable = {} /\ b.cur.read_only = {} /\ ~b.cur.guest_ok /\ b.cur.browseable
      BY <1>2, <3>1
    <3>. QED
      BY <3>2 DEF g
  <2>5. b.cur.guest_ok <=> TRUE \in Value(t, h, "guest ok")
    BY <2>3, <2>4
  <2>6. b.cur.browseable <=> FALSE \notin Value(t, h, "browseable")
    BY <2>3, <2>4
  <2>7. b.cur.writable = Value(t, h, "writable") /\ b.cur.read_only = Value(t, h, "read only")
    BY <2>3, <2>4
  <2>8. b.cur.is_global <=> t[h].name = "global"
    BY <2>2, <2>4
  <2>. QED
    BY <2>5, <2>6, <2>7, <2>8 DEF Remembers
<1>. QED
  BY <1>1, <1>3, <1>4, <1>8, <1>9, <1>10 DEF SmbInv, t, b

\* a section closes the one before, a setting changes the open one,
LEMMA SmbKeeps ==
  ASSUME NEW X, NEW s \in Seq(X), NEW l \in X, NEW a, SmbInv(s, a), SmbLine(l)
  PROVE  SmbInv(Append(s, l), SmbStep(a, l))
<1> DEFINE t == Append(s, l)
           n == Len(s)
           b == SmbStep(a, l)
<1>1. CASE l.kind = "section"
  BY <1>1, SectionKeeps
<1>2. CASE l.kind # "section"
  <2>1. /\ Sections(t) = Sections(s)
        /\ \A h \in Sections(s) :
             /\ NoSection(t, h + 1, n + 1) <=> NoSection(s, h + 1, n)
             /\ t[h] = s[h]
        /\ \A k : SharesAs(t, Closed(t), k) = SharesAs(s, Closed(s), k)
    BY <1>2, ClosedStay
  <2>2. /\ a.st \in [SmbKeys -> Nat] /\ a.cur \in SmbShares
        /\ a.cur.active <=> Sections(s) # {}
        /\ \A h \in Sections(s) : NoSection(s, h + 1, n) => Remembers(s, h, a.cur)
        /\ \A k \in SmbKeys : a.st[k] = Cardinality(SharesAs(s, Closed(s), k))
    BY DEF SmbInv
  <2>3. Len(t) = n + 1
    OBVIOUS
  <2>4. ASSUME NEW h \in Sections(s), NoSection(s, h + 1, n), NEW key
        PROVE  Value(t, h, key) = IF GivesTo(l, key) THEN l.bool ELSE Value(s, h, key)
    <3>1. h \in 1 .. n
      BY LastSection
    <3>. QED
      BY <2>4, <3>1, ValueStep
  <2> HIDE DEF t, n
  <2>5. CASE l.kind = "setting" /\ a.cur.active /\ l.bool # {}
    <3> DEFINE c == SetShare(a.cur, l)
    <3>1. b = [a EXCEPT !.cur = c]
      BY <1>2, <2>5 DEF SmbStep
    <3>2. /\ c \in SmbShares /\ c.active = a.cur.active /\ c.is_global = a.cur.is_global
          /\ c.read_only = IF GivesTo(l, "read only") THEN l.bool ELSE a.cur.read_only
          /\ c.writable = IF GivesTo(l, "writable") THEN l.bool ELSE a.cur.writable
          /\ c.guest_ok = IF GivesTo(l, "guest ok") THEN TRUE \in l.bool ELSE a.cur.guest_ok
          /\ c.browseable = IF GivesTo(l, "browseable") THEN TRUE \in l.bool ELSE a.cur.browseable
      BY <2>2, <2>5, SetShareTells
    <3>3. b.st = a.st /\ b.cur = c
      <4> HIDE DEF c, b
      <4>. QED
        BY <3>1
    <3>4. l.bool = {TRUE} \/ l.bool = {FALSE}
      BY <2>5 DEF SmbLine, Parsed
    <3> HIDE DEF c, b
    <3>5. ASSUME NEW h \in Sections(s), NoSection(s, h + 1, n) PROVE Remembers(t, h, c)
      <4>1. Remembers(s, h, a.cur) /\ t[h] = s[h]
        BY <2>1, <2>2, <3>5
      <4>2. \A key : Value(t, h, key) = IF GivesTo(l, key) THEN l.bool ELSE Value(s, h, key)
        BY <2>4, <3>5
      <4>3. c.is_global <=> t[h].name = "global"
        BY <3>2, <4>1 DEF Remembers
      <4>4. c.writable = Value(t, h, "writable") /\ c.read_only = Value(t, h, "read only")
        BY <3>2, <4>1, <4>2 DEF Remembers
      <4>5. c.guest_ok <=> TRUE \in Value(t, h, "guest ok")
        BY <3>2, <4>1, <4>2 DEF Remembers
      <4>6. TRUE \in l.bool <=> FALSE \notin l.bool
        BY <3>4
      <4>7. c.browseable <=> FALSE \notin Value(t, h, "browseable")
        BY <3>2, <4>1, <4>2, <4>6 DEF Remembers
      <4>. QED
        BY <4>3, <4>4, <4>5, <4>7 DEF Remembers
    <3>. QED
      BY <2>1, <2>2, <2>3, <2>5, <3>2, <3>3, <3>5 DEF SmbInv, t, b
  <2>6. CASE ~(l.kind = "setting" /\ a.cur.active /\ l.bool # {})
    <3>1. b = a
      BY <1>2, <2>6 DEF SmbStep
    <3> HIDE DEF b
    <3>2. ASSUME NEW h \in Sections(s), NoSection(s, h + 1, n) PROVE Remembers(t, h, a.cur)
      <4>1. Remembers(s, h, a.cur) /\ t[h] = s[h] /\ a.cur.active
        BY <2>1, <2>2, <3>2
      <4>2. \A key : ~GivesTo(l, key)
        BY <2>6, <4>1 DEF GivesTo
      <4>3. \A key : Value(t, h, key) = Value(s, h, key)
        BY <2>4, <3>2, <4>2
      <4>. QED
        BY <4>1, <4>3 DEF Remembers
    <3>3. SmbInv(t, a)
      BY <2>1, <2>2, <2>3, <3>2 DEF SmbInv
    <3>. QED
      BY <3>1, <3>3 DEF t, b
  <2>. QED
    BY <2>5, <2>6
<1>. QED
  BY <1>1, <1>2

\* The places where another section begins after i, or the end.
Ends(s, i) == {j - 1 : j \in {j \in Sections(s) : j > i}} \union {Len(s)}

\* Where a section ends: before the next one, or with the file.
LEMMA EndTells ==
  ASSUME NEW X, NEW s \in Seq(X), NEW i \in Sections(s), NEW e, e = Min(Ends(s, i))
  PROVE  /\ e \in i .. Len(s) /\ NoSection(s, i + 1, e)
         /\ e = Len(s) \/ s[e + 1].kind = "section"
<1> DEFINE n == Len(s)
           M == Ends(s, i)
<1>1. n \in Nat /\ DOMAIN s = 1 .. n /\ Sections(s) \in SUBSET (1 .. n) /\ i \in 1 .. n
  BY DEF Sections
<1> HIDE DEF n
<1>2. M \in SUBSET Nat /\ M # {} /\ \A j \in M : j >= i /\ j <= n
  <2>1. \A j \in Sections(s) : j > i => j - 1 \in Nat /\ j - 1 >= i /\ j - 1 <= n
    BY <1>1
  <2>. QED
    BY <1>1, <2>1 DEF Ends, n
<1>3. e \in M /\ \A m \in M : e <= m
  <2> HIDE DEF M
  <2>1. PICK k \in M : \A m \in M : k <= m
    BY <1>2, Least
  <2>2. e = CHOOSE x \in M : \A m \in M : x <= m
    BY DEF Min, M
  <2>. QED
    BY <2>1, <2>2
<1>4. e \in Nat /\ e >= i /\ e <= n
  BY <1>2, <1>3
<1>5. NoSection(s, i + 1, e)
  <2> SUFFICES ASSUME NEW k \in i + 1 .. e, s[k].kind = "section" PROVE FALSE
    BY DEF NoSection
  <2>1. k \in Sections(s) /\ k > i
    BY <1>1, <1>4 DEF Sections
  <2>2. k - 1 \in M
    BY <2>1 DEF Ends
  <2>. QED
    BY <1>1, <1>3, <1>4, <2>2
<1>6. e = n \/ s[e + 1].kind = "section"
  <2>1. e = n \/ \E j \in Sections(s) : e = j - 1
    BY <1>3 DEF Ends, n
  <2>2. \A j \in Sections(s) : j \in Int /\ j - 1 + 1 = j
    BY <1>1
  <2>. QED
    BY <2>1, <2>2 DEF Sections
<1>. QED
  BY <1>1, <1>4, <1>5, <1>6 DEF n

\* The last setting between a section and its end is that of its value.
LEMMA GivenTells ==
  ASSUME NEW X, NEW s \in Seq(X), NEW i \in Sections(s), NEW key, NEW e, e = Min(Ends(s, i))
  PROVE  UNION {l.bool : l \in LastOf(SubSeq(s, i + 1, e),
                  LAMBDA m : m.kind = "setting" /\ m.key = key /\ m.bool # {})}
         = Value(s, i, key)
<1> DEFINE n == Len(s)
           S == SubSeq(s, i + 1, e)
           L == Len(S)
           Q == {q \in DOMAIN S : GivesTo(S[q], key) /\ \A j \in q + 1 .. L : ~GivesTo(S[j], key)}
           J == {j \in DOMAIN s : LastSetting(s, i, key, j)}
<1>1. n \in Nat /\ DOMAIN s = 1 .. n /\ i \in 1 .. n /\ \A k \in 1 .. n : s[k] \in X
  BY DEF Sections
<1>2. e \in i .. n /\ NoSection(s, i + 1, e) /\ (e = n \/ s[e + 1].kind = "section")
  BY EndTells
<1> HIDE DEF n
<1>3. L = e - i /\ DOMAIN S = 1 .. e - i /\ \A q \in 1 .. e - i : S[q] = s[i + q]
  <2>1. i + 1 \in Int /\ e \in Int /\ \A k \in i + 1 .. e : s[k] \in X
    BY <1>1, <1>2
  <2>2. /\ S \in Seq(X) /\ L = IF i + 1 <= e THEN e - (i + 1) + 1 ELSE 0
        /\ \A q \in 1 .. e - (i + 1) + 1 : S[q] = s[i + 1 + q - 1]
    BY <2>1, SubSeqProperties
  <2> HIDE DEF S
  <2>3. L = e - i
    BY <1>1, <1>2, <2>2
  <2>4. DOMAIN S = 1 .. L
    BY <2>2
  <2>5. \A q \in 1 .. e - i : S[q] = s[i + q]
    <3>1. \A q \in 1 .. e - i : q \in 1 .. e - (i + 1) + 1 /\ i + 1 + q - 1 = i + q
      BY <1>1, <1>2
    <3>. QED
      BY <2>2, <3>1
  <2>. QED
    BY <2>3, <2>4, <2>5
<1> HIDE DEF S, L
<1>4. LastOf(S, LAMBDA m : m.kind = "setting" /\ m.key = key /\ m.bool # {}) = {S[q] : q \in Q}
  BY DEF LastOf, GivesTo, L
<1>5. \A j \in 1 .. n : SetsOf(s, i, key, j) <=> j \in i + 1 .. e /\ GivesTo(s[j], key)
  <2> SUFFICES ASSUME NEW j \in 1 .. n
               PROVE  SetsOf(s, i, key, j) <=> j \in i + 1 .. e /\ GivesTo(s[j], key)
    OBVIOUS
  <2>1. ASSUME i < j, NoSection(s, i + 1, j) PROVE j \in i + 1 .. e
    <3>1. e < j => e + 1 \in i + 1 .. j /\ e # n
      BY <1>1, <1>2
    <3>2. ~(e < j)
      BY <1>2, <2>1, <3>1 DEF NoSection
    <3>. QED
      BY <1>1, <1>2, <2>1, <3>2
  <2>2. ASSUME j \in i + 1 .. e PROVE i < j /\ NoSection(s, i + 1, j)
    <3>1. i < j /\ \A k \in i + 1 .. j : k \in i + 1 .. e
      BY <1>1, <1>2, <2>2
    <3>. QED
      BY <1>2, <3>1 DEF NoSection
  <2>. QED
    BY <2>1, <2>2 DEF SetsOf
<1>6. ASSUME NEW q \in 1 .. e - i PROVE i + q \in J <=> q \in Q
  <2>1. i + q \in 1 .. n /\ i + q \in i + 1 .. e
    BY <1>1, <1>2
  <2>2. SetsOf(s, i, key, i + q) <=> GivesTo(S[q], key)
    BY <1>3, <1>5, <2>1
  <2>3. ASSUME \A j \in q + 1 .. L : ~GivesTo(S[j], key), NEW m \in i + q + 1 .. n
        PROVE  ~SetsOf(s, i, key, m)
    <3>1. m \in 1 .. n /\ (m \in i + 1 .. e => m - i \in q + 1 .. L /\ m - i \in 1 .. e - i /\ i + (m - i) = m)
      BY <1>1, <1>2, <1>3
    <3>. QED
      BY <1>3, <1>5, <2>3, <3>1
  <2>4. ASSUME \A m \in i + q + 1 .. n : ~SetsOf(s, i, key, m), NEW j \in q + 1 .. L
        PROVE  ~GivesTo(S[j], key)
    <3>1. j \in 1 .. e - i /\ i + j \in i + q + 1 .. n /\ i + j \in 1 .. n /\ i + j \in i + 1 .. e
      BY <1>1, <1>2, <1>3
    <3>. QED
      BY <1>3, <1>5, <2>4, <3>1
  <2>5. i + q \in J <=> SetsOf(s, i, key, i + q) /\ \A m \in i + q + 1 .. n : ~SetsOf(s, i, key, m)
    BY <1>1, <2>1 DEF LastSetting, n
  <2>6. q \in Q <=> GivesTo(S[q], key) /\ \A j \in q + 1 .. L : ~GivesTo(S[j], key)
    BY <1>3
  <2>. QED
    BY <2>2, <2>3, <2>4, <2>5, <2>6
<1>7. \A j \in J : j - i \in 1 .. e - i /\ i + (j - i) = j
  <2>1. \A j \in J : j \in 1 .. n /\ SetsOf(s, i, key, j)
    BY <1>1 DEF LastSetting
  <2>. QED
    BY <1>1, <1>2, <1>5, <2>1
<1>8. Q \in SUBSET (1 .. e - i)
  BY <1>3
<1> HIDE DEF Q, J
<1>9. {S[q] : q \in Q} = {s[j] : j \in J}
  <2>1. \A q \in Q : S[q] = s[i + q] /\ i + q \in J
    BY <1>3, <1>6, <1>8
  <2>2. \A j \in J : j - i \in Q /\ S[j - i] = s[j]
    BY <1>3, <1>6, <1>7
  <2>. QED
    BY <2>1, <2>2
<1>10. Value(s, i, key) = UNION {l.bool : l \in {s[j] : j \in J}}
  BY DEF Value, J
<1>. QED
  BY <1>4, <1>9, <1>10 DEF S

\* and what is flushed at the end completes the counters.
LEMMA SmbTells ==
  ASSUME NEW X, NEW s \in Seq(X), NEW a, SmbInv(s, a)
  PROVE  SmbMatches(s, a)
<1> DEFINE H == {i \in DOMAIN s : s[i].kind = "section"}
           T == {i \in H : s[i].name # "global"}
           End(i) == Min({j - 1 : j \in {j \in H : j > i}} \union {Len(s)})
           Given(i, key) == UNION {l.bool : l \in LastOf(SubSeq(s, i + 1, End(i)),
                              LAMBDA m : m.kind = "setting" /\ m.key = key /\ m.bool # {})}
           st == FlushShare(a)
<1>1. H = Sections(s) /\ T = Shares(s) /\ \A i : End(i) = Min(Ends(s, i))
  BY DEF Sections, Shares, Ends
<1>2. ASSUME NEW i \in T, NEW key PROVE Given(i, key) = Value(s, i, key)
  <2>1. i \in Sections(s) /\ End(i) = Min(Ends(s, i))
    BY <1>1
  <2> HIDE DEF End
  <2>. QED
    BY <2>1, GivenTells
<1>3. \A k \in SmbKeys : st[k] = Cardinality({i \in T : k \in CountedAs(s, i)})
  BY <1>1, FlushCounts DEF SharesAs
<1> HIDE DEF T, H, End, Given, st
<1>4. ASSUME NEW i \in T
      PROVE  /\ "shares" \in CountedAs(s, i)
             /\ "guest_ok" \in CountedAs(s, i) <=> TRUE \in Given(i, "guest ok")
             /\ "browseable_no" \in CountedAs(s, i) <=> FALSE \in Given(i, "browseable")
             /\ "writable" \in CountedAs(s, i) <=>
                  IF Given(i, "writable") # {} THEN TRUE \in Given(i, "writable")
                  ELSE FALSE \in Given(i, "read only")
  <2>1. /\ "shares" \in CountedAs(s, i)
        /\ "guest_ok" \in CountedAs(s, i) <=> TRUE \in Value(s, i, "guest ok")
        /\ "browseable_no" \in CountedAs(s, i) <=> FALSE \in Value(s, i, "browseable")
        /\ "writable" \in CountedAs(s, i) <=> Writable(s, i)
    BY DEF CountedAs, If
  <2>2. /\ Given(i, "guest ok") = Value(s, i, "guest ok")
        /\ Given(i, "browseable") = Value(s, i, "browseable")
        /\ Given(i, "writable") = Value(s, i, "writable")
        /\ Given(i, "read only") = Value(s, i, "read only")
    BY <1>2
  <2>. QED
    BY <2>1, <2>2 DEF Writable
<1>5. st.shares = Cardinality(T)
  <2>1. {i \in T : "shares" \in CountedAs(s, i)} = T
    BY <1>4
  <2>. QED
    BY <1>3, <2>1 DEF SmbKeys
<1>6. st.guest_ok = Cardinality({i \in T : TRUE \in Given(i, "guest ok")})
  <2>1. {i \in T : "guest_ok" \in CountedAs(s, i)} = {i \in T : TRUE \in Given(i, "guest ok")}
    BY <1>4
  <2>. QED
    BY <1>3, <2>1 DEF SmbKeys
<1>7. st.browseable_no = Cardinality({i \in T : FALSE \in Given(i, "browseable")})
  <2>1. {i \in T : "browseable_no" \in CountedAs(s, i)} = {i \in T : FALSE \in Given(i, "browseable")}
    BY <1>4
  <2>. QED
    BY <1>3, <2>1 DEF SmbKeys
<1>8. st.writable = Cardinality({i \in T :
        IF Given(i, "writable") # {} THEN TRUE \in Given(i, "writable")
        ELSE FALSE \in Given(i, "read only")})
  <2>1. {i \in T : "writable" \in CountedAs(s, i)} =
        {i \in T : IF Given(i, "writable") # {} THEN TRUE \in Given(i, "writable")
                   ELSE FALSE \in Given(i, "read only")}
    BY <1>4
  <2>. QED
    BY <1>3, <2>1 DEF SmbKeys
<1>. QED
  BY <1>5, <1>6, <1>7, <1>8 DEF SmbMatches, H, T, End, Given, st

-----------------------------------------------------------------------------
(* Block 10: the reverse proxy, its tables and the route that decides.      *)

\* f says where in s the elements of p stand: all the places of Q, in order.
PlacedAt(s, Q, p, f) ==
  /\ \A k \in 1 .. Len(p) : f[k] \in Where(s, Q) /\ p[k] = s[f[k]]
  /\ \A i \in Where(s, Q) : \E k \in 1 .. Len(p) : f[k] = i
  /\ \A k, j \in 1 .. Len(p) : k < j => f[k] < f[j]

\* p has the lines of s that are in Q, in the order of s.
Picked(s, Q, p) ==
  /\ p \in Seq(Q) /\ Len(p) = Nr(s, Q)
  /\ \E f \in [1 .. Len(p) -> Nat] : PlacedAt(s, Q, p, f)

\* Of nothing, nothing is picked.
LEMMA PickedStarts == \A Q : Picked(<<>>, Q, <<>>)
<1> SUFFICES ASSUME NEW Q PROVE Picked(<<>>, Q, <<>>)
  OBVIOUS
<1>1. <<>> \in Seq(Q) /\ Len(<<>>) = 0 /\ 1 .. 0 = {} /\ Where(<<>>, Q) = {}
  BY DEF Where
<1> DEFINE f == [k \in 1 .. 0 |-> 0]
<1>2. f \in [1 .. Len(<<>>) -> Nat] /\ PlacedAt(<<>>, Q, <<>>, f)
  BY <1>1 DEF PlacedAt
<1>. QED
  BY <1>1, <1>2, NrStart DEF Picked

\* A line of Q is appended, any other leaves what was picked.
LEMMA PickedKeeps ==
  ASSUME NEW X, NEW s \in Seq(X), NEW l \in X, NEW Q, NEW p, Picked(s, Q, p)
  PROVE  /\ l \in Q => Picked(Append(s, l), Q, Append(p, l))
         /\ l \notin Q => Picked(Append(s, l), Q, p)
<1> DEFINE t == Append(s, l)
           n == Len(s)
           c == Len(p)
           r == Append(p, l)
<1>1. /\ n \in Nat /\ DOMAIN s = 1 .. n /\ DOMAIN t = DOMAIN s \union {n + 1}
      /\ n + 1 \notin DOMAIN s /\ t[n + 1] = l /\ \A k \in DOMAIN s : t[k] = s[k]
      /\ \A k \in DOMAIN s : k \in Nat /\ k < n + 1
  BY AppendFacts
<1>2. p \in Seq(Q) /\ c = Nr(s, Q) /\ c \in Nat
  BY DEF Picked
<1>3. PICK f \in [1 .. c -> Nat] : PlacedAt(s, Q, p, f)
  BY DEF Picked
<1>4. Nr(t, Q) = Nr(s, Q) + If01(l \in Q)
  BY NrStep
<1> HIDE DEF t
<1>5. ASSUME l \in Q PROVE Picked(t, Q, r)
  <2>1. Where(t, Q) = Where(s, Q) \union {n + 1}
    BY <1>1, <1>5 DEF Where
  <2>2. /\ r \in Seq(Q) /\ Len(r) = c + 1 /\ r[c + 1] = l /\ \A k \in 1 .. c : r[k] = p[k]
    BY <1>2, <1>5
  <2> HIDE DEF r, c
  <2> DEFINE m == c + 1
             g == [k \in 1 .. m |-> IF k = m THEN n + 1 ELSE f[k]]
  <2>3. m \in Nat /\ \A k : k \in 1 .. m <=> k \in 1 .. c \/ k = m
    BY <1>2
  <2>4. m \notin 1 .. c /\ \A k \in 1 .. c : k < m /\ ~(m < k)
    BY <1>2
  <2>5. Len(r) = m /\ r[m] = l
    BY <2>2
  <2> HIDE DEF m
  <2>6. g \in [1 .. m -> Nat] /\ g[m] = n + 1 /\ \A k \in 1 .. c : g[k] = f[k]
    BY <1>1, <2>3, <2>4
  <2> HIDE DEF g
  <2>7. /\ \A k \in 1 .. c : f[k] \in Where(s, Q) /\ p[k] = s[f[k]]
        /\ \A i \in Where(s, Q) : \E k \in 1 .. c : f[k] = i
        /\ \A k, j \in 1 .. c : k < j => f[k] < f[j]
    BY <1>3 DEF PlacedAt, c
  <2>8. \A i \in Where(s, Q) : i \in DOMAIN s /\ t[i] = s[i] /\ i < n + 1
    BY <1>1 DEF Where
  <2>9. \A k \in 1 .. m : g[k] \in Where(t, Q) /\ r[k] = t[g[k]]
    <3> TAKE k \in 1 .. m
    <3>1. CASE k = m
      BY <1>1, <2>1, <2>5, <2>6, <3>1
    <3>2. CASE k \in 1 .. c
      BY <2>1, <2>2, <2>6, <2>7, <2>8, <3>2
    <3>. QED
      BY <2>3, <3>1, <3>2
  <2>10. \A i \in Where(t, Q) : \E k \in 1 .. m : g[k] = i
    BY <2>1, <2>3, <2>6, <2>7
  <2>11. \A k, j \in 1 .. m : k < j => g[k] < g[j]
    <3> SUFFICES ASSUME NEW k \in 1 .. m, NEW j \in 1 .. m, k < j PROVE g[k] < g[j]
      OBVIOUS
    <3>1. m \in Nat /\ ~(m < m)
      BY <2>3
    <3>2. k \in 1 .. c
      BY <2>3, <2>4, <3>1
    <3>3. CASE j = m
      BY <2>6, <2>7, <2>8, <3>2, <3>3
    <3>4. CASE j \in 1 .. c
      BY <2>6, <2>7, <3>2, <3>4
    <3>. QED
      BY <2>3, <3>3, <3>4
  <2>12. PlacedAt(t, Q, r, g)
    BY <2>5, <2>9, <2>10, <2>11 DEF PlacedAt
  <2>13. Len(r) = Nr(t, Q)
    BY <1>2, <1>4, <1>5, <2>2 DEF If01
  <2>. QED
    BY <2>2, <2>5, <2>6, <2>12, <2>13 DEF Picked
<1>6. ASSUME l \notin Q PROVE Picked(t, Q, p)
  <2>1. Where(t, Q) = Where(s, Q) /\ \A i \in Where(s, Q) : t[i] = s[i]
    BY <1>1, <1>6 DEF Where
  <2>2. PlacedAt(t, Q, p, f)
    BY <1>3, <2>1 DEF PlacedAt
  <2>3. Nr(t, Q) = c
    BY <1>2, <1>4, <1>6 DEF If01
  <2>. QED
    BY <1>2, <1>3, <2>2, <2>3 DEF Picked
<1>. QED
  BY <1>5, <1>6 DEF t

\* One turn of the loop of match_route, and its table.
RouteTurn(best, r) == IF r.len > 0 /\ \A b \in best : r.len > b.len THEN {r} ELSE best
RouteTable(Y) == [p \in (SUBSET Y) \X Y |-> RouteTurn(p[1], p[2])]

\* The table has a value for each turn.
LEMMA RouteTableFacts ==
  ASSUME NEW Y
  PROVE  /\ RouteTable(Y) \in [(SUBSET Y) \X Y -> SUBSET Y]
         /\ \A q \in SUBSET Y, y \in Y : RouteTable(Y)[<<q, y>>] = RouteTurn(q, y)
<1>1. \A q \in SUBSET Y, y \in Y : RouteTurn(q, y) \in SUBSET Y
  BY DEF RouteTurn
<1> DEFINE A == SUBSET Y
           F == RouteTable(Y)
<1>2. F = [p \in A \X Y |-> RouteTurn(p[1], p[2])]
  BY DEF RouteTable
<1> HIDE DEF A, F
<1>3. \A q \in A, y \in Y : RouteTurn(q, y) \in A
  BY <1>1 DEF A
<1>4. F \in [A \X Y -> A] /\ \A q \in A, y \in Y : F[<<q, y>>] = RouteTurn(q, y)
  BY <1>2, <1>3
<1>. QED
  BY <1>4 DEF A, F

\* The loop of match_route.
LEMMA RouteRuns ==
  ASSUME NEW Y, NEW d \in Seq(Y)
  PROVE  \E g \in [0 .. Len(d) -> SUBSET Y] :
           IsRun(g, RouteTable(Y), {}, d) /\ MatchRoute(d) = g[Len(d)]
<1> DEFINE D == DOMAIN d
           F == RouteTable(Y)
           A == SUBSET Y
           Rec(h) == h = [S \in SUBSET D |->
                       IF S = {} THEN {} ELSE RouteTurn(h[S \ {Max(S)}], d[Max(S)])]
           G == CHOOSE h : Rec(h)
<1>1. MatchRoute(d) = G[D]
  BY DEF MatchRoute, FoldLeft, MapThenFoldSet, RouteTurn
<1>2. {} \in A /\ F \in [A \X Y -> A]
  <2>1. F \in [A \X Y -> A]
    BY ONLY RouteTableFacts
  <2>. QED
    BY <2>1
<1>3. \A q \in A, y \in Y : F[<<q, y>>] = RouteTurn(q, y)
  BY RouteTableFacts
<1> HIDE DEF A
<1>4. ASSUME NEW S \in SUBSET D, S # {}
      PROVE  Max(S) \in S /\ d[Max(S)] \in Y /\ S \ {Max(S)} \in SUBSET D
  <2>1. Len(d) \in Nat /\ D = 1 .. Len(d) /\ \A k \in D : d[k] \in Y
    OBVIOUS
  <2> HIDE DEF D
  <2>2. Max(S) \in S
    BY <1>4, <2>1, Greatest
  <2>. QED
    BY <2>1, <2>2
<1> HIDE DEF F
<1>5. PICK w \in [SUBSET D -> A] : Folding(w, F, {}, d, D)
  BY <1>2, FoldExists
<1> HIDE DEF D
<1>6. Rec(w)
  <2>1. ASSUME NEW S \in SUBSET D
        PROVE  w[S] = IF S = {} THEN {} ELSE RouteTurn(w[S \ {Max(S)}], d[Max(S)])
    <3>1. w[S] = IF S = {} THEN {} ELSE F[<<w[S \ {Max(S)}], d[Max(S)]>>]
      BY <1>5 DEF Folding
    <3>. QED
      BY <1>3, <1>4, <3>1
  <2>. QED
    BY <2>1
<1>7. Rec(G)
  <2> HIDE DEF Rec
  <2>. QED
    BY <1>6
<1> HIDE DEF G
<1>8. G[{}] = {}
  BY <1>7
<1>9. \A S \in SUBSET D : S # {} /\ G[S \ {Max(S)}] \in A
        => G[S] = F[<<G[S \ {Max(S)}], d[Max(S)]>>]
  <2> SUFFICES ASSUME NEW S \in SUBSET D, S # {}, G[S \ {Max(S)}] \in A
               PROVE  G[S] = F[<<G[S \ {Max(S)}], d[Max(S)]>>]
    OBVIOUS
  <2>1. G[S] = RouteTurn(G[S \ {Max(S)}], d[Max(S)])
    BY <1>7
  <2>. QED
    BY <1>3, <1>4, <2>1
<1> HIDE DEF Rec
<1>10. \E g \in [0 .. Len(d) -> A] : IsRun(g, F, {}, d) /\ G[D] = g[Len(d)]
  <2>1. \A S \in SUBSET DOMAIN d : S # {} /\ G[S \ {Max(S)}] \in A
          => G[S] = F[<<G[S \ {Max(S)}], d[Max(S)]>>]
    BY <1>9 DEF D
  <2>2. IsFold(G, A, Y, F, {}, d)
    BY <1>2, <1>8, <2>1 DEF IsFold
  <2>. QED
    BY <2>2, FoldRuns DEF D
<1>. QED
  BY <1>1, <1>10 DEF F, A

\* The route at i is the longest that fits among the first k, and the first of its length.
BestOf(q, k, i) ==
  /\ q[i].len > 0
  /\ \A j \in 1 .. k : q[j].len > 0
       => q[j].len < q[i].len \/ (q[j].len = q[i].len /\ i <= j)

\* What match_route has found after k routes.
Found(q, k, B) ==
  \/ B = {} /\ \A j \in 1 .. k : ~(q[j].len > 0)
  \/ \E i \in 1 .. k : BestOf(q, k, i) /\ B = {q[i]}

\* A longer route replaces the best one; one as long does not.
LEMMA FoundStep ==
  ASSUME NEW Y, NEW q \in Seq(Y), \A y \in Y : y.len \in Nat, NEW k \in 0 .. Len(q) - 1,
         NEW B \in SUBSET Y, Found(q, k, B)
  PROVE  Found(q, k + 1, RouteTurn(B, q[k + 1]))
<1> DEFINE m == k + 1
           r == q[m]
<1>1. m \in 1 .. Len(q) /\ m \in Nat /\ k \in Nat
  OBVIOUS
<1>2. \A j : j \in 1 .. m <=> j \in 1 .. k \/ j = m
  OBVIOUS
<1>3. \A j \in 1 .. k : j < m /\ j <= m /\ j \in Nat /\ j \in 1 .. Len(q)
  BY <1>1
<1> HIDE DEF m
<1>4. r.len \in Nat /\ \A j \in 1 .. k : q[j].len \in Nat
  BY <1>1, <1>3
<1>5. m <= m
  BY <1>1
<1>6. CASE B = {} /\ \A j \in 1 .. k : ~(q[j].len > 0)
  <2>1. CASE r.len > 0
    <3>1. RouteTurn(B, r) = {r}
      BY <1>6, <2>1 DEF RouteTurn
    <3>2. BestOf(q, m, m)
      BY <1>2, <1>5, <1>6, <2>1 DEF BestOf
    <3>. QED
      BY <1>2, <3>1, <3>2 DEF Found, m
  <2>2. CASE ~(r.len > 0)
    <3>1. RouteTurn(B, r) = B
      BY <2>2 DEF RouteTurn
    <3>. QED
      BY <1>2, <1>6, <2>2, <3>1 DEF Found, m
  <2>. QED
    BY <2>1, <2>2
<1>7. ASSUME NEW i \in 1 .. k, BestOf(q, k, i), B = {q[i]} PROVE Found(q, m, RouteTurn(B, r))
  <2>1. q[i].len > 0 /\ q[i].len \in Nat /\ i \in 1 .. m
    BY <1>2, <1>4, <1>7 DEF BestOf
  <2>2. \A j \in 1 .. k : q[j].len > 0
          => q[j].len < q[i].len \/ (q[j].len = q[i].len /\ i <= j)
    BY <1>7 DEF BestOf
  <2>3. CASE r.len > q[i].len
    <3>1. RouteTurn(B, r) = {r}
      BY <1>4, <1>7, <2>1, <2>3 DEF RouteTurn
    <3>2. ASSUME NEW j \in 1 .. k, q[j].len > 0 PROVE q[j].len < r.len
      BY <1>4, <2>1, <2>2, <2>3, <3>2
    <3>3. r.len > 0
      BY <1>4, <2>1, <2>3
    <3>4. BestOf(q, m, m)
      BY <1>2, <1>5, <3>2, <3>3 DEF BestOf
    <3>. QED
      BY <1>2, <3>1, <3>4 DEF Found, m
  <2>4. CASE ~(r.len > q[i].len)
    <3>1. RouteTurn(B, r) = B
      BY <1>7, <2>4 DEF RouteTurn
    <3>2. r.len < q[i].len \/ r.len = q[i].len
      BY <1>4, <2>1, <2>4
    <3>3. i <= m
      BY <1>3
    <3>4. BestOf(q, m, i)
      BY <1>2, <2>1, <2>2, <3>2, <3>3 DEF BestOf
    <3>. QED
      BY <1>7, <2>1, <3>1, <3>4 DEF Found
  <2>. QED
    BY <2>3, <2>4
<1>. QED
  BY <1>6, <1>7 DEF Found, m

\* So match_route finds the first of the longest routes that fit.
LEMMA MatchRouteFinds ==
  ASSUME NEW Y, NEW q \in Seq(Y), \A y \in Y : y.len \in Nat
  PROVE  Found(q, Len(q), MatchRoute(q))
<1>1. PICK g \in [0 .. Len(q) -> SUBSET Y] :
        IsRun(g, RouteTable(Y), {}, q) /\ MatchRoute(q) = g[Len(q)]
  BY RouteRuns
<1> DEFINE n == Len(q)
           T == {k \in 0 .. n : Found(q, k, g[k])}
<1>2. n \in Nat /\ \A k \in 1 .. n : q[k] \in Y
  OBVIOUS
<1>3. 0 \in T
  <2>1. g[0] = {} /\ 1 .. 0 = {} /\ 0 \in 0 .. n
    BY <1>1, <1>2 DEF IsRun
  <2>. QED
    BY <2>1 DEF Found
<1>4. \A k \in 0 .. n - 1 : k \in T => k + 1 \in T
  <2> SUFFICES ASSUME NEW k \in 0 .. n - 1, k \in T PROVE k + 1 \in T
    OBVIOUS
  <2>1. k + 1 \in 1 .. n /\ k + 1 \in 0 .. n /\ k + 1 - 1 = k /\ k \in 0 .. n
    BY <1>2
  <2>2. g[k + 1] = RouteTable(Y)[<<g[k], q[k + 1]>>]
    BY <1>1, <2>1 DEF IsRun
  <2>3. g[k] \in SUBSET Y /\ q[k + 1] \in Y
    BY <1>1, <1>2, <2>1
  <2>4. g[k + 1] = RouteTurn(g[k], q[k + 1])
    BY <2>2, <2>3, RouteTableFacts
  <2>5. Found(q, k + 1, g[k + 1])
    BY <2>3, <2>4, FoundStep
  <2>. QED
    BY <2>1, <2>5
<1> HIDE DEF T
<1>5. n \in T
  <2>1. \A k \in 0 .. n : k \in T
    BY <1>2, <1>3, <1>4, UpTo
  <2>2. n \in 0 .. n
    BY <1>2
  <2>. QED
    BY <2>1, <2>2
<1>. QED
  BY <1>1, <1>5 DEF T

\* The kinds of lines of the proxy, as opaque names, and its two tables.
BackendKind == "backend"
RouteKind == "route"
BackendRows(X) == {m \in X : m.kind = BackendKind}
RouteRows(X) == {m \in X : m.kind = RouteKind}
ProxyTables(B, R) == [backends |-> B, routes |-> R]

\* The tables have the lines of their kind in the order of the file; one too many fails.
ProxyInv(X, s, a) ==
  /\ a = Failed <=> Nr(s, BackendRows(X)) > MaxBackends \/ Nr(s, RouteRows(X)) > MaxRoutes
  /\ a # Failed =>
       /\ a = ProxyTables(a.backends, a.routes)
       /\ Picked(s, BackendRows(X), a.backends)
       /\ Picked(s, RouteRows(X), a.routes)

\* Two tables are no failure, and change one at a time.
LEMMA ProxyTablesFacts ==
  ASSUME NEW B, NEW R
  PROVE  /\ ProxyTables(B, R) # Failed
         /\ ProxyTables(B, R).backends = B /\ ProxyTables(B, R).routes = R
         /\ \A C : [ProxyTables(B, R) EXCEPT !.backends = C] = ProxyTables(C, R)
         /\ \A C : [ProxyTables(B, R) EXCEPT !.routes = C] = ProxyTables(B, C)
<1>1. DOMAIN ProxyTables(B, R) = {"backends", "routes"}
  BY DEF ProxyTables
<1>2. DOMAIN Failed = {"failed"} /\ "backends" \notin {"failed"}
  BY DEF Failed
<1>3. ProxyTables(B, R).backends = B /\ ProxyTables(B, R).routes = R
  BY DEF ProxyTables
<1>4. \A C : [ProxyTables(B, R) EXCEPT !.backends = C] = ProxyTables(C, R)
  BY DEF ProxyTables
<1>5. \A C : [ProxyTables(B, R) EXCEPT !.routes = C] = ProxyTables(B, C)
  BY DEF ProxyTables
<1>. QED
  BY <1>1, <1>2, <1>3, <1>4, <1>5

\* The tables are empty at first,
LEMMA ProxyStarts == \A X : ProxyInv(X, <<>>, ProxyStart)
<1>1. ProxyStart = ProxyTables(<<>>, <<>>)
  BY DEF ProxyStart, ProxyTables
<1>2. ProxyStart # Failed /\ ProxyStart.backends = <<>> /\ ProxyStart.routes = <<>>
  BY <1>1, ProxyTablesFacts
<1>3. ~(0 > MaxBackends) /\ ~(0 > MaxRoutes)
  BY NetAssumption
<1>. QED
  BY <1>1, <1>2, <1>3, NrStart, PickedStarts DEF ProxyInv

\* A line is not of both kinds.
LEMMA KindsDiffer == BackendKind # RouteKind
BY DEF BackendKind, RouteKind

\* take each line of their kind while there is room,
LEMMA ProxyKeeps ==
  ASSUME NEW X, NEW s \in Seq(X), NEW l \in X, NEW a, ProxyInv(X, s, a), a # Failed
  PROVE  ProxyInv(X, Append(s, l), ProxyStep(a, l))
<1> DEFINE b == ProxyStep(a, l)
           t == Append(s, l)
           P == BackendRows(X)
           Q == RouteRows(X)
           B == a.backends
           R == a.routes
<1>1. /\ a = ProxyTables(B, R) /\ Picked(s, P, B) /\ Picked(s, Q, R)
      /\ ~(Nr(s, P) > MaxBackends) /\ ~(Nr(s, Q) > MaxRoutes)
  BY DEF ProxyInv
<1>2. Len(B) = Nr(s, P) /\ Len(R) = Nr(s, Q) /\ Nr(s, P) \in Nat /\ Nr(s, Q) \in Nat
  BY <1>1, NrFacts DEF Picked
<1>3. /\ Nr(t, P) = Nr(s, P) + If01(l \in P)
      /\ Nr(t, Q) = Nr(s, Q) + If01(l \in Q)
  BY NrStep
<1>4. l \in P => Picked(t, P, Append(B, l))
  BY <1>1, PickedKeeps
<1>5. l \notin P => Picked(t, P, B)
  BY <1>1, PickedKeeps
<1>6. l \in Q => Picked(t, Q, Append(R, l))
  BY <1>1, PickedKeeps
<1>7. l \notin Q => Picked(t, Q, R)
  BY <1>1, PickedKeeps
<1>8. (l \in P <=> l.kind = BackendKind) /\ (l \in Q <=> l.kind = RouteKind)
  BY DEF BackendRows, RouteRows
<1>9. b = CASE l.kind = BackendKind /\ Len(B) >= MaxBackends -> Failed
            [] l.kind = RouteKind /\ Len(R) >= MaxRoutes       -> Failed
            [] l.kind = BackendKind /\ Len(B) < MaxBackends  ->
                 [a EXCEPT !.backends = Append(@, l)]
            [] l.kind = RouteKind /\ Len(R) < MaxRoutes        ->
                 [a EXCEPT !.routes = Append(@, l)]
            [] OTHER -> a
  BY DEF ProxyStep, BackendKind, RouteKind
<1>10. MaxBackends \in Nat /\ MaxRoutes \in Nat
  BY NetAssumption
<1>11. [a EXCEPT !.backends = Append(@, l)] = ProxyTables(Append(B, l), R)
  <2> DEFINE C == Append(B, l)
  <2>1. [ProxyTables(B, R) EXCEPT !.backends = C] = ProxyTables(C, R)
    <3> HIDE DEF C, B, R
    <3>. QED
      BY ProxyTablesFacts
  <2>2. [a EXCEPT !.backends = C] = ProxyTables(C, R)
    <3> HIDE DEF C, B, R
    <3>. QED
      BY <1>1, <2>1
  <2>. QED
    BY <2>2
<1>12. [a EXCEPT !.routes = Append(@, l)] = ProxyTables(B, Append(R, l))
  <2> DEFINE C == Append(R, l)
  <2>1. [ProxyTables(B, R) EXCEPT !.routes = C] = ProxyTables(B, C)
    <3> HIDE DEF C, B, R
    <3>. QED
      BY ProxyTablesFacts
  <2>2. [a EXCEPT !.routes = C] = ProxyTables(B, C)
    <3> HIDE DEF C, B, R
    <3>. QED
      BY <1>1, <2>1
  <2>. QED
    BY <2>2
<1> HIDE DEF b, t, P, Q, B, R
<1>13. CASE l.kind = BackendKind /\ Len(B) >= MaxBackends
  <2>1. b = Failed
    BY <1>2, <1>9, <1>10, <1>13, KindsDiffer
  <2>2. Nr(t, P) = Nr(s, P) + 1
    BY <1>3, <1>8, <1>13 DEF If01
  <2>3. Nr(t, P) > MaxBackends
    BY <1>2, <1>10, <1>13, <2>2
  <2>. QED
    BY <2>1, <2>3 DEF ProxyInv, b, t, P
<1>14. CASE l.kind = RouteKind /\ Len(R) >= MaxRoutes
  <2>1. b = Failed
    BY <1>2, <1>9, <1>10, <1>14, KindsDiffer
  <2>2. Nr(t, Q) = Nr(s, Q) + 1
    BY <1>3, <1>8, <1>14 DEF If01
  <2>3. Nr(t, Q) > MaxRoutes
    BY <1>2, <1>10, <1>14, <2>2
  <2>. QED
    BY <2>1, <2>3 DEF ProxyInv, b, t, Q
<1>15. CASE l.kind = BackendKind /\ ~(Len(B) >= MaxBackends)
  <2> DEFINE C == Append(B, l)
  <2>1. Len(B) < MaxBackends
    BY <1>2, <1>10, <1>15
  <2>2. b = ProxyTables(C, R)
    BY <1>9, <1>11, <1>15, <2>1, KindsDiffer
  <2>3. l \in P /\ l \notin Q
    BY <1>8, <1>15, KindsDiffer
  <2>4. Nr(t, P) = Nr(s, P) + 1 /\ Nr(t, Q) = Nr(s, Q) + 0
    BY <1>3, <2>3 DEF If01
  <2>5. ~(Nr(t, P) > MaxBackends) /\ ~(Nr(t, Q) > MaxRoutes)
    BY <1>1, <1>2, <1>10, <2>1, <2>4
  <2>6. Picked(t, P, C) /\ Picked(t, Q, R)
    BY <1>4, <1>7, <2>3
  <2> HIDE DEF C
  <2>7. b # Failed /\ b.backends = C /\ b.routes = R
    BY <2>2, ProxyTablesFacts
  <2>. QED
    BY <2>2, <2>5, <2>6, <2>7 DEF ProxyInv, b, t, P, Q
<1>16. CASE l.kind = RouteKind /\ ~(Len(R) >= MaxRoutes)
  <2> DEFINE C == Append(R, l)
  <2>1. Len(R) < MaxRoutes
    BY <1>2, <1>10, <1>16
  <2>2. b = ProxyTables(B, C)
    BY <1>9, <1>12, <1>16, <2>1, KindsDiffer
  <2>3. l \notin P /\ l \in Q
    BY <1>8, <1>16, KindsDiffer
  <2>4. Nr(t, P) = Nr(s, P) + 0 /\ Nr(t, Q) = Nr(s, Q) + 1
    BY <1>3, <2>3 DEF If01
  <2>5. ~(Nr(t, P) > MaxBackends) /\ ~(Nr(t, Q) > MaxRoutes)
    BY <1>1, <1>2, <1>10, <2>1, <2>4
  <2>6. Picked(t, P, B) /\ Picked(t, Q, C)
    BY <1>5, <1>6, <2>3
  <2> HIDE DEF C
  <2>7. b # Failed /\ b.backends = B /\ b.routes = C
    BY <2>2, ProxyTablesFacts
  <2>. QED
    BY <2>2, <2>5, <2>6, <2>7 DEF ProxyInv, b, t, P, Q
<1>17. CASE l.kind # BackendKind /\ l.kind # RouteKind
  <2>1. b = a
    BY <1>9, <1>17
  <2>2. l \notin P /\ l \notin Q
    BY <1>8, <1>17
  <2>3. Nr(t, P) = Nr(s, P) /\ Nr(t, Q) = Nr(s, Q)
    BY <1>2, <1>3, <2>2 DEF If01
  <2>4. Picked(t, P, B) /\ Picked(t, Q, R)
    BY <1>5, <1>7, <2>2
  <2>5. ~(Nr(t, P) > MaxBackends) /\ ~(Nr(t, Q) > MaxRoutes)
    BY <1>1, <2>3
  <2>6. b # Failed /\ b.backends = B /\ b.routes = R /\ b = ProxyTables(B, R)
    BY <1>1, <2>1 DEF B, R
  <2>. QED
    BY <2>4, <2>5, <2>6 DEF ProxyInv, b, t, P, Q
<1>. QED
  BY <1>13, <1>14, <1>15, <1>16, <1>17 DEF b, t

\* The first backend of the name n: in the table, and in the file.
FirstNamed(p, n, i) == p[i].name = n /\ \A j \in 1 .. i - 1 : p[j].name # n
NamedAt(s, n, j) ==
  /\ s[j].kind = BackendKind /\ s[j].name = n
  /\ \A k \in 1 .. j - 1 : s[k].kind = BackendKind => s[k].name # n

\* The line i of the file is the route that decides.
FitsAt(s, i) == s[i].kind = RouteKind /\ s[i].len > 0
Decides(s, i) ==
  /\ FitsAt(s, i)
  /\ \A j \in DOMAIN s : FitsAt(s, j)
       => s[j].len < s[i].len \/ (s[j].len = s[i].len /\ i <= j)

\* find_backend finds in the table the first backend of the name in the file,
LEMMA BackendFound ==
  ASSUME NEW X, NEW s \in Seq(X), NEW p, Picked(s, BackendRows(X), p), NEW n
  PROVE  FindBackend(p, n) = {s[j] : j \in {j \in DOMAIN s : NamedAt(s, n, j)}}
<1> DEFINE Q == BackendRows(X)
           c == Len(p)
<1>1. PICK f \in [1 .. c -> Nat] : PlacedAt(s, Q, p, f)
  BY DEF Picked
<1>2. /\ \A k \in 1 .. c : f[k] \in Where(s, Q) /\ p[k] = s[f[k]]
      /\ \A i \in Where(s, Q) : \E k \in 1 .. c : f[k] = i
      /\ \A k, j \in 1 .. c : k < j => f[k] < f[j]
  BY <1>1 DEF PlacedAt
<1>3. c \in Nat /\ DOMAIN p = 1 .. c
  BY DEF Picked
<1>4. /\ \A i \in DOMAIN s : i \in Where(s, Q) <=> s[i].kind = BackendKind
      /\ Where(s, Q) \subseteq DOMAIN s
  BY DEF Where, BackendRows
<1>5. Len(s) \in Nat /\ DOMAIN s = 1 .. Len(s)
  OBVIOUS
<1> HIDE DEF Q, c
<1>6. ASSUME NEW i \in 1 .. c, FirstNamed(p, n, i) PROVE f[i] \in DOMAIN s /\ NamedAt(s, n, f[i])
  <2>1. f[i] \in DOMAIN s /\ s[f[i]].kind = BackendKind /\ s[f[i]].name = n
    BY <1>2, <1>4, <1>6 DEF FirstNamed
  <2>2. ASSUME NEW k \in 1 .. f[i] - 1, s[k].kind = BackendKind PROVE s[k].name # n
    <3>1. k \in DOMAIN s /\ k < f[i]
      BY <1>5, <2>1
    <3>2. PICK h \in 1 .. c : f[h] = k
      BY <1>2, <1>4, <2>2, <3>1
    <3>3. h < i
      <4>1. CASE h = i
        BY <3>1, <3>2, <4>1, <1>5
      <4>2. CASE i < h
        <5>1. f[i] < f[h]
          BY <1>2, <4>2
        <5>. QED
          BY <1>5, <2>1, <3>1, <3>2, <5>1
      <4>. QED
        BY <1>3, <4>1, <4>2
    <3>4. h \in 1 .. i - 1
      BY <1>3, <3>3
    <3>5. p[h].name # n /\ p[h] = s[k]
      BY <1>2, <1>6, <3>2, <3>4 DEF FirstNamed
    <3>. QED
      BY <3>5
  <2>. QED
    BY <2>1, <2>2 DEF NamedAt
<1>7. ASSUME NEW j \in DOMAIN s, NamedAt(s, n, j)
      PROVE  \E i \in 1 .. c : f[i] = j /\ FirstNamed(p, n, i)
  <2>1. s[j].kind = BackendKind /\ s[j].name = n
    BY <1>7 DEF NamedAt
  <2>2. PICK i \in 1 .. c : f[i] = j
    BY <1>2, <1>4, <2>1
  <2>3. p[i].name = n
    BY <1>2, <2>1, <2>2
  <2>4. ASSUME NEW h \in 1 .. i - 1 PROVE p[h].name # n
    <3>1. h \in 1 .. c /\ h < i
      BY <1>3
    <3>2. f[h] < j /\ f[h] \in DOMAIN s /\ s[f[h]].kind = BackendKind /\ p[h] = s[f[h]]
      BY <1>2, <1>4, <2>2, <3>1
    <3>3. f[h] \in 1 .. j - 1
      BY <1>5, <3>2
    <3>. QED
      BY <1>7, <3>2, <3>3 DEF NamedAt
  <2>. QED
    BY <2>2, <2>3, <2>4 DEF FirstNamed
<1> DEFINE T == {i \in DOMAIN p : FirstNamed(p, n, i)}
           S == {j \in DOMAIN s : NamedAt(s, n, j)}
<1>8. FindBackend(p, n) = {p[i] : i \in T}
  BY DEF FindBackend, FirstNamed
<1>9. \A i \in T : f[i] \in S /\ p[i] = s[f[i]]
  BY <1>2, <1>3, <1>6
<1>10. \A j \in S : \E i \in T : f[i] = j
  BY <1>3, <1>7
<1> HIDE DEF T, S
<1>11. {p[i] : i \in T} = {s[j] : j \in S}
  BY <1>9, <1>10
<1>. QED
  BY <1>8, <1>11 DEF S

\* match_route the route of the file that decides,
LEMMA RouteFound ==
  ASSUME NEW X, NEW s \in Seq(X), \A m \in RouteRows(X) : m.len \in Nat,
         NEW q, Picked(s, RouteRows(X), q)
  PROVE  MatchRoute(q) = {s[i] : i \in {i \in DOMAIN s : Decides(s, i)}}
<1> DEFINE Q == RouteRows(X)
           c == Len(q)
<1>1. PICK f \in [1 .. c -> Nat] : PlacedAt(s, Q, q, f)
  BY DEF Picked
<1>2. /\ \A k \in 1 .. c : f[k] \in Where(s, Q) /\ q[k] = s[f[k]]
      /\ \A i \in Where(s, Q) : \E k \in 1 .. c : f[k] = i
      /\ \A k, j \in 1 .. c : k < j => f[k] < f[j]
  BY <1>1 DEF PlacedAt
<1>3. c \in Nat /\ DOMAIN q = 1 .. c /\ q \in Seq(Q) /\ Q \subseteq X
  BY DEF Picked, RouteRows
<1>4. /\ \A i \in DOMAIN s : i \in Where(s, Q) <=> s[i].kind = RouteKind
      /\ Where(s, Q) \subseteq DOMAIN s
  BY DEF Where, RouteRows
<1>5. /\ Len(s) \in Nat /\ DOMAIN s = 1 .. Len(s)
      /\ \A i \in DOMAIN s : FitsAt(s, i) => s[i].len \in Nat
  BY DEF FitsAt, RouteRows
<1>6. Found(q, c, MatchRoute(q))
  BY <1>3, MatchRouteFinds
<1> HIDE DEF Q, c
<1>7. \A i \in DOMAIN s : FitsAt(s, i) => \E k \in 1 .. c : f[k] = i /\ q[k].len > 0
  BY <1>2, <1>4 DEF FitsAt
<1>8. \A k \in 1 .. c : f[k] \in DOMAIN s /\ q[k] = s[f[k]] /\ (FitsAt(s, f[k]) <=> q[k].len > 0)
  BY <1>2, <1>4 DEF FitsAt
<1>9. \A k, j \in 1 .. c : k <= j => f[k] <= f[j]
  <2> SUFFICES ASSUME NEW k \in 1 .. c, NEW j \in 1 .. c, k <= j PROVE f[k] <= f[j]
    OBVIOUS
  <2>1. k = j \/ k < j
    BY <1>3
  <2>2. f[k] \in Nat /\ f[j] \in Nat
    OBVIOUS
  <2>. QED
    BY <1>2, <2>1, <2>2
<1>10. CASE MatchRoute(q) = {} /\ \A j \in 1 .. c : ~(q[j].len > 0)
  <2>1. \A i \in DOMAIN s : ~Decides(s, i)
    BY <1>7, <1>10 DEF Decides
  <2>. QED
    BY <1>10, <2>1
<1>11. ASSUME NEW k \in 1 .. c, BestOf(q, c, k), MatchRoute(q) = {q[k]}
       PROVE  MatchRoute(q) = {s[i] : i \in {i \in DOMAIN s : Decides(s, i)}}
  <2> DEFINE d == f[k]
  <2>1. d \in DOMAIN s /\ q[k] = s[d] /\ FitsAt(s, d)
    BY <1>8, <1>11 DEF BestOf
  <2>2. ASSUME NEW j \in DOMAIN s, FitsAt(s, j)
        PROVE  s[j].len < s[d].len \/ (s[j].len = s[d].len /\ d <= j)
    <3>1. PICK h \in 1 .. c : f[h] = j /\ q[h].len > 0
      BY <1>7, <2>2
    <3>2. q[h].len < q[k].len \/ (q[h].len = q[k].len /\ k <= h)
      BY <1>11, <3>1 DEF BestOf
    <3>. QED
      BY <1>8, <1>9, <2>1, <3>1, <3>2
  <2>3. Decides(s, d)
    BY <2>1, <2>2 DEF Decides
  <2>4. ASSUME NEW i \in DOMAIN s, Decides(s, i) PROVE i = d
    <3>1. FitsAt(s, i) /\ (s[d].len < s[i].len \/ (s[d].len = s[i].len /\ i <= d))
      BY <2>1, <2>4 DEF Decides
    <3>2. s[i].len < s[d].len \/ (s[i].len = s[d].len /\ d <= i)
      BY <2>2, <3>1
    <3>3. i \in Nat /\ d \in Nat /\ s[i].len \in Nat /\ s[d].len \in Nat
      BY <1>5, <2>1, <3>1
    <3>. QED
      BY <3>1, <3>2, <3>3
  <2> HIDE DEF d
  <2>5. {i \in DOMAIN s : Decides(s, i)} = {d}
    BY <2>1, <2>3, <2>4
  <2>6. {s[i] : i \in {i \in DOMAIN s : Decides(s, i)}} = {s[d]}
    BY <2>5
  <2>. QED
    BY <1>11, <2>1, <2>6
<1>. QED
  BY <1>6, <1>10, <1>11 DEF Found

\* and so the target is that of the first such backend of that route.
LEMMA ProxyTells ==
  ASSUME NEW X, NEW s \in Seq(X), \A m \in X : ProxyLine(m), NEW a, ProxyInv(X, s, a)
  PROVE  ProxyMatches(s, a)
<1>1. \A k \in DOMAIN s : s[k] \in X
  OBVIOUS
<1>9. \A m \in RouteRows(X) : m.len \in Nat
  BY DEF RouteRows, RouteKind, ProxyLine
<1>2. Count(s, LAMBDA l : l.kind = "backend") = Nr(s, BackendRows(X))
  BY <1>1 DEF Count, Nr, Where, BackendRows, BackendKind
<1>3. Count(s, LAMBDA l : l.kind = "route") = Nr(s, RouteRows(X))
  BY <1>1 DEF Count, Nr, Where, RouteRows, RouteKind
<1>4. ASSUME a # Failed
      PROVE  ProxyTarget(a) = {s[j].target : j \in {j \in DOMAIN s :
               \E i \in DOMAIN s : Decides(s, i) /\ NamedAt(s, s[i].backend, j)}}
  <2> DEFINE B == a.backends
             R == a.routes
             M == {i \in DOMAIN s : Decides(s, i)}
             N(n) == {j \in DOMAIN s : NamedAt(s, n, j)}
  <2>1. Picked(s, BackendRows(X), B) /\ Picked(s, RouteRows(X), R)
    BY <1>4 DEF ProxyInv
  <2>2. MatchRoute(R) = {s[i] : i \in M}
    BY <1>9, <2>1, RouteFound
  <2>3. \A n : FindBackend(B, n) = {s[j] : j \in N(n)}
    BY <2>1, BackendFound
  <2>4. ProxyTarget(a) = UNION {{b.target : b \in FindBackend(B, r.backend)} : r \in MatchRoute(R)}
    BY DEF ProxyTarget
  <2> HIDE DEF B, R
  <2>5. ProxyTarget(a) = UNION {{b.target : b \in {s[j] : j \in N(r.backend)}} : r \in {s[i] : i \in M}}
    BY <2>2, <2>3, <2>4
  <2>6. \A n : {b.target : b \in {s[j] : j \in N(n)}} = {s[j].target : j \in N(n)}
    OBVIOUS
  <2>7. ProxyTarget(a) = UNION {{s[j].target : j \in N(r.backend)} : r \in {s[i] : i \in M}}
    BY <2>5, <2>6
  <2>. QED
    BY <2>7
<1>5. \A i : FitsAt(s, i) <=> s[i].kind = "route" /\ s[i].len > 0
  BY DEF FitsAt, RouteKind
<1>6. \A i : Decides(s, i) <=> /\ s[i].kind = "route" /\ s[i].len > 0
                               /\ \A j \in DOMAIN s : s[j].kind = "route" /\ s[j].len > 0
                                    => s[j].len < s[i].len \/ (s[j].len = s[i].len /\ i <= j)
  BY <1>5 DEF Decides
<1>7. \A n, j : NamedAt(s, n, j) <=> /\ s[j].kind = "backend" /\ s[j].name = n
                                     /\ \A k \in 1 .. j - 1 : s[k].kind = "backend" => s[k].name # n
  BY DEF NamedAt, BackendKind
<1>8. a = Failed <=> Nr(s, BackendRows(X)) > MaxBackends \/ Nr(s, RouteRows(X)) > MaxRoutes
  BY DEF ProxyInv
<1>. QED
  BY <1>2, <1>3, <1>4, <1>6, <1>7, <1>8 DEF ProxyMatches

-----------------------------------------------------------------------------
(* Block 10: all its readers.                                               *)

\* What holds of the reader t of block 10 after it has read s and remembers a.
NetInv(t, s, a) ==
  /\ t = "zone"    => ZoneInv(Lines(t), s, a)
  /\ t = "mx"      => MxInv(Lines(t), s, a)
  /\ t = "tls"     => TlsInv(Lines(t), s, a)
  /\ t = "url"     => UrlMatches(s, a)
  /\ t = "smtp"    => SmtpInv(s, a)
  /\ t = "reply"   => ReplyInv(Lines(t), s, a)
  /\ t = "exports" => ExportsInv(SUBSET STRING, s, a)
  /\ t = "smb"     => SmbInv(s, a)
  /\ t = "proxy"   => ProxyInv(Lines(t), s, a)
  /\ t = "health"  => HealthInv(s, a)

\* Each reader of block 10 begins right,
LEMMA NetStarts == ASSUME NEW t PROVE NetInv(t, <<>>, Start(t))
<1>1. t = "zone" => ZoneInv(Lines(t), <<>>, Start(t))
  BY ZoneStarts DEF Start
<1>2. t = "mx" => MxInv(Lines(t), <<>>, Start(t))
  BY MxStarts DEF Start
<1>3. t = "tls" => TlsInv(Lines(t), <<>>, Start(t))
  BY TlsStarts DEF Start
<1>4. t = "url" => UrlMatches(<<>>, Start(t))
  <2>1. UrlMatches(<<>>, UrlStart)
    BY UrlStarts
  <2>. QED
    BY <2>1 DEF Start
<1>5. t = "smtp" => SmtpInv(<<>>, Start(t))
  BY SmtpStarts DEF Start
<1>6. t = "reply" => ReplyInv(Lines(t), <<>>, Start(t))
  BY ReplyStarts DEF Start
<1>7. t = "exports" => ExportsInv(SUBSET STRING, <<>>, Start(t))
  BY ExportsStarts DEF Start
<1>8. t = "smb" => SmbInv(<<>>, Start(t))
  BY SmbStarts DEF Start
<1>9. t = "proxy" => ProxyInv(Lines(t), <<>>, Start(t))
  BY ProxyStarts DEF Start
<1>10. t = "health" => HealthInv(<<>>, Start(t))
  BY HealthStarts DEF Start
<1>. QED
  BY <1>1, <1>2, <1>3, <1>4, <1>5, <1>6, <1>7, <1>8, <1>9, <1>10 DEF NetInv

\* A file whose lines are lists of sets of words.
LEMMA ExportsFile ==
  ASSUME NEW X, NEW s \in Seq(X), \A m \in X : ExportsLine(m)
  PROVE  s \in Seq(Seq(SUBSET STRING))
<1> DEFINE Y == Seq(SUBSET STRING)
<1>1. \A m \in X : m \in Y
  BY DEF ExportsLine
<1> HIDE DEF Y
<1>2. s \in Seq(Y)
  BY <1>1
<1>. QED
  BY <1>2 DEF Y

\* keeps what its invariant says with any next line, as long as it goes on,
LEMMA NetKeeps ==
  ASSUME NEW t \in Tool, NEW s \in Seq(Lines(t)), Len(s) < Longest(t), NEW l \in Lines(t),
         NEW a, NetInv(t, s, a), ~Stops(t, a)
  PROVE  NetInv(t, Append(s, l), Step(t, a, l))
<1> DEFINE X == Lines(t)
<1>0. \A m \in X : IsLine(t, m)
  BY LinesAssumption
<1>a. s \in Seq(X) /\ l \in X
  OBVIOUS
<1> HIDE DEF X
<1>b. t \in OneLine => Append(s, l) = <<l>>
  BY OneLineStarts
<1>1. ASSUME t = "zone" PROVE ZoneInv(X, Append(s, l), Step(t, a, l))
  <2>1. ZoneInv(X, s, a) /\ ZoneLine(l) /\ a # Failed
    BY <1>0, <1>a, <1>1 DEF NetInv, IsLine, Stops, X
  <2>2. Step(t, a, l) = ZoneStep(a, l)
    BY <1>1 DEF Step
  <2>. QED
    BY <1>a, <2>1, <2>2, ZoneKeeps
<1>2. ASSUME t = "mx" PROVE MxInv(X, Append(s, l), Step(t, a, l))
  <2>1. MxInv(X, s, a) /\ (\A m \in X : MxLine(m)) /\ a # Failed
    BY <1>0, <1>2 DEF NetInv, IsLine, Stops, X
  <2>2. Step(t, a, l) = MxStep(0, a, l)
    BY <1>2 DEF Step
  <2>3. MxTokens \in Int
    BY NetAssumption
  <2>. QED
    BY <1>a, <2>1, <2>2, <2>3, MxKeeps
<1>3. ASSUME t = "tls" PROVE TlsInv(X, Append(s, l), Step(t, a, l))
  <2>1. TlsInv(X, s, a) /\ Step(t, a, l) = TlsStep(a, l)
    BY <1>3 DEF NetInv, X, Step
  <2>. QED
    BY <1>a, <2>1, TlsKeeps
<1>4. ASSUME t = "url" PROVE UrlMatches(Append(s, l), Step(t, a, l))
  <2>1. Append(s, l) = <<l>> /\ Step(t, a, l) = UrlStep(a, l) /\ UrlLine(l)
    BY <1>0, <1>a, <1>b, <1>4 DEF Step, OneLine, IsLine
  <2>. QED
    BY <2>1, UrlTells
<1>5. ASSUME t = "smtp" PROVE SmtpInv(Append(s, l), Step(t, a, l))
  <2>1. SmtpInv(s, a) /\ Step(t, a, l) = SmtpStep(a, l) /\ ~SmtpStops(a)
    BY <1>5 DEF NetInv, Step, Stops
  <2>. QED
    BY <1>a, <2>1, SmtpKeeps
<1>6. ASSUME t = "reply" PROVE ReplyInv(X, Append(s, l), Step(t, a, l))
  <2>1. ReplyInv(X, s, a) /\ Step(t, a, l) = ReplyStep(a, l)
    BY <1>6 DEF NetInv, X, Step
  <2>. QED
    BY <1>a, <2>1, ReplyKeeps
<1>7. ASSUME t = "exports" PROVE ExportsInv(SUBSET STRING, Append(s, l), Step(t, a, l))
  <2> DEFINE Y == SUBSET STRING
  <2>1. ExportsInv(Y, s, a) /\ Step(t, a, l) = ExportsStep(a, l)
    BY <1>7 DEF NetInv, Step
  <2>2. \A m \in X : ExportsLine(m)
    BY <1>0, <1>7 DEF IsLine
  <2>3. s \in Seq(Seq(Y)) /\ l \in Seq(Y)
    BY <1>a, <2>2, ExportsFile DEF ExportsLine
  <2> HIDE DEF Y
  <2>4. ExportsInv(Y, Append(s, l), Step(t, a, l))
    BY <2>1, <2>3, ExportsKeeps
  <2>. QED
    BY <2>4 DEF Y
<1>8. ASSUME t = "smb" PROVE SmbInv(Append(s, l), Step(t, a, l))
  <2>1. SmbInv(s, a) /\ Step(t, a, l) = SmbStep(a, l) /\ SmbLine(l)
    BY <1>0, <1>a, <1>8 DEF NetInv, Step, IsLine
  <2>. QED
    BY <1>a, <2>1, SmbKeeps
<1>9. ASSUME t = "proxy" PROVE ProxyInv(X, Append(s, l), Step(t, a, l))
  <2>1. ProxyInv(X, s, a) /\ Step(t, a, l) = ProxyStep(a, l) /\ a # Failed
    BY <1>9 DEF NetInv, X, Step, Stops
  <2>. QED
    BY <1>a, <2>1, ProxyKeeps
<1>10. ASSUME t = "health" PROVE HealthInv(Append(s, l), Step(t, a, l))
  <2>1. HealthInv(s, a) /\ Step(t, a, l) = HealthStep(a, l) /\ HealthLine(l)
    BY <1>0, <1>a, <1>10 DEF NetInv, Step, IsLine
  <2>. QED
    BY <1>a, <2>1, HealthKeeps
<1>. QED
  BY <1>1, <1>2, <1>3, <1>4, <1>5, <1>6, <1>7, <1>8, <1>9, <1>10 DEF NetInv, X

\* and its invariant says that the report matches the file.
LEMMA NetTells ==
  ASSUME FileInv, NetInv(tool, read, acc)
  PROVE  NetReportsMatch
<1> DEFINE X == Lines(tool)
<1>0. read \in Seq(X) /\ \A m \in X : IsLine(tool, m)
  BY LinesAssumption DEF FileInv
<1> HIDE DEF X
<1>1. tool = "zone" => ZoneMatches(read, acc)
  BY <1>0, ZoneTells DEF NetInv, X
<1>2. tool = "mx" => MxMatches(0, read, acc)
  BY <1>0, MxTells DEF NetInv, X
<1>3. tool = "tls" => TlsMatches(read, acc)
  BY <1>0, TlsTells DEF NetInv, X
<1>4. tool = "url" => UrlMatches(read, acc)
  BY DEF NetInv
<1>5. tool = "smtp" => SmtpMatches(read, acc)
  BY <1>0, SmtpTells DEF NetInv
<1>6. tool = "reply" => ReplyMatches(read, acc)
  BY <1>0, ReplyTells DEF NetInv, X
<1>7. tool = "exports" => ExportsMatches(read, acc)
  <2> DEFINE Y == SUBSET STRING
  <2> SUFFICES ASSUME tool = "exports" PROVE ExportsMatches(read, acc)
    OBVIOUS
  <2>1. \A m \in X : ExportsLine(m)
    BY <1>0 DEF IsLine
  <2>2. read \in Seq(Seq(Y)) /\ ExportsInv(Y, read, acc)
    BY <1>0, <2>1, ExportsFile DEF NetInv
  <2> HIDE DEF Y
  <2>. QED
    BY <2>2, ExportsTells
<1>8. tool = "smb" => SmbMatches(read, acc)
  BY <1>0, SmbTells DEF NetInv
<1>9. tool = "proxy" => ProxyMatches(read, acc)
  <2>1. tool = "proxy" => \A m \in X : ProxyLine(m)
    BY <1>0 DEF IsLine
  <2>. QED
    BY <1>0, <2>1, ProxyTells DEF NetInv, X
<1>10. tool = "health" => HealthMatches(read, acc)
  BY <1>0, HealthTells DEF NetInv
<1>. QED
  BY <1>1, <1>2, <1>3, <1>4, <1>5, <1>6, <1>7, <1>8, <1>9, <1>10 DEF NetReportsMatch

\* The reports of block 10 (NetTools) say of the file that was read what it says,
\* whatever its lines are, in any order, and however many: records of a zone, the best mail
\* exchanger, the TLS policy, URL, dialogue and replies of SMTP, exports, shares, the target
\* of the proxy and the worst health.
THEOREM NetReportsAreRight == Spec => []NetReportsMatch
<1> DEFINE I == FileInv /\ NetInv(tool, read, acc)
<1>1. Init => I
  BY FileStarts, NetStarts DEF Init
<1>2. I /\ [Next]_vars => I'
  <2> SUFFICES ASSUME I, [Next]_vars PROVE NetInv(tool', read', acc')
    BY FileKeeps
  <2>1. CASE UNCHANGED vars
    BY <2>1 DEF vars
  <2>2. CASE Next
    <3>1. PICK l \in Lines(tool) : read' = Append(read, l) /\ acc' = Step(tool, acc, l)
      BY <2>2 DEF Next, ReadLine
    <3>2. tool' = tool /\ Len(read) < Longest(tool) /\ ~Stops(tool, acc)
      BY <2>2 DEF Next, ReadLine
    <3>3. tool \in Tool /\ read \in Seq(Lines(tool))
      BY DEF FileInv
    <3>. QED
      BY <3>1, <3>2, <3>3, NetKeeps
  <2>. QED
    BY <2>1, <2>2
<1>3. I => NetReportsMatch
  BY NetTells
<1>. QED
  BY <1>1, <1>2, <1>3, PTL DEF Spec
=============================================================================
