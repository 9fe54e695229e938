----------------------------- MODULE CloudProofs ----------------------------
(***************************************************************************)
(* Theorems about the readers of block 12 (CloudTools), for files of any   *)
(* length with any lines the parsers can make of them.  They go the way of *)
(* ToolProofs: each reader has an invariant that ties what it remembers to *)
(* the lines read so far.                                                  *)
(***************************************************************************)
EXTENDS ToolProofs

-----------------------------------------------------------------------------
(* Block 12: lines cut into fields.                                         *)

\* One turn of the loop of Fields, and its table.
FieldTurn(kept, x) == IF x.text = "" THEN kept ELSE Append(kept, x)
FieldTable(X) == [p \in Seq(X) \X X |-> FieldTurn(p[1], p[2])]

\* The pieces with something in them.
Texts(X) == {x \in X : x.text # ""}

\* The table has a value for each turn.
LEMMA FieldTableFacts ==
  ASSUME NEW X
  PROVE  /\ FieldTable(X) \in [Seq(X) \X X -> Seq(X)]
         /\ \A q \in Seq(X), x \in X : FieldTable(X)[<<q, x>>] = FieldTurn(q, x)
<1>1. \A q \in Seq(X), x \in X : FieldTurn(q, x) \in Seq(X)
  <2> SUFFICES ASSUME NEW q \in Seq(X), NEW x \in X PROVE FieldTurn(q, x) \in Seq(X)
    OBVIOUS
  <2>1. Append(q, x) \in Seq(X)
    OBVIOUS
  <2>. QED
    BY <2>1 DEF FieldTurn
<1> DEFINE A == Seq(X)
           F == FieldTable(X)
<1>2. F = [p \in A \X X |-> FieldTurn(p[1], p[2])]
  BY DEF FieldTable
<1> HIDE DEF A, F
<1>3. \A q \in A, x \in X : FieldTurn(q, x) \in A
  BY <1>1 DEF A
<1>4. F \in [A \X X -> A] /\ \A q \in A, x \in X : F[<<q, x>>] = FieldTurn(q, x)
  BY <1>2, <1>3
<1>. QED
  BY <1>4 DEF A, F

\* The loop of strtok.
LEMMA FieldsRun ==
  ASSUME NEW X, NEW d \in Seq(X)
  PROVE  \E g \in [0 .. Len(d) -> Seq(X)] :
           IsRun(g, FieldTable(X), <<>>, d) /\ Fields(d) = g[Len(d)]
<1> DEFINE D == DOMAIN d
           F == FieldTable(X)
           A == Seq(X)
           b == <<>>
           Rec(h) == h = [S \in SUBSET D |->
                       IF S = {} THEN b ELSE FieldTurn(h[S \ {Max(S)}], d[Max(S)])]
           G == CHOOSE h : Rec(h)
<1>1. Fields(d) = G[D]
  BY DEF Fields, FoldLeft, MapThenFoldSet, FieldTurn
<1>2. b \in A /\ F \in [A \X X -> A]
  <2>1. F \in [A \X X -> A]
    BY ONLY FieldTableFacts
  <2>. QED
    BY <2>1
<1>3. \A q \in A, x \in X : F[<<q, x>>] = FieldTurn(q, x)
  BY FieldTableFacts
<1>4. ASSUME NEW S \in SUBSET D, S # {}
      PROVE  Max(S) \in S /\ d[Max(S)] \in X /\ S \ {Max(S)} \in SUBSET D
  <2>1. Len(d) \in Nat /\ D = 1 .. Len(d) /\ \A k \in D : d[k] \in X
    OBVIOUS
  <2> HIDE DEF D
  <2>2. Max(S) \in S
    BY <1>4, <2>1, Greatest
  <2>. QED
    BY <2>1, <2>2
<1> HIDE DEF A, F, b
<1>5. PICK w \in [SUBSET D -> A] : Folding(w, F, b, d, D)
  BY <1>2, FoldExists
<1> HIDE DEF D
<1>6. Rec(w)
  <2>1. ASSUME NEW S \in SUBSET D
        PROVE  w[S] = IF S = {} THEN b ELSE FieldTurn(w[S \ {Max(S)}], d[Max(S)])
    <3>1. w[S] = IF S = {} THEN b ELSE F[<<w[S \ {Max(S)}], d[Max(S)]>>]
      BY <1>5 DEF Folding
    <3>. QED
      BY <1>3, <1>4, <3>1
  <2>. QED
    BY <2>1
<1>7. Rec(G)
  <2> HIDE DEF Rec
  <2>. QED
    BY <1>6
<1> HIDE DEF G
<1>8. G[{}] = b
  BY <1>7
<1>9. \A S \in SUBSET D : S # {} /\ G[S \ {Max(S)}] \in A
        => G[S] = F[<<G[S \ {Max(S)}], d[Max(S)]>>]
  <2> SUFFICES ASSUME NEW S \in SUBSET D, S # {}, G[S \ {Max(S)}] \in A
               PROVE  G[S] = F[<<G[S \ {Max(S)}], d[Max(S)]>>]
    OBVIOUS
  <2>1. G[S] = FieldTurn(G[S \ {Max(S)}], d[Max(S)])
    BY <1>7
  <2>. QED
    BY <1>3, <1>4, <2>1
<1> HIDE DEF Rec
<1>10. \E g \in [0 .. Len(d) -> A] : IsRun(g, F, b, d) /\ G[D] = g[Len(d)]
  <2>1. \A S \in SUBSET DOMAIN d : S # {} /\ G[S \ {Max(S)}] \in A
          => G[S] = F[<<G[S \ {Max(S)}], d[Max(S)]>>]
    BY <1>9 DEF D
  <2>2. IsFold(G, A, X, F, b, d)
    BY <1>2, <1>8, <2>1 DEF IsFold
  <2>. QED
    BY <2>2, FoldRuns DEF D
<1>. QED
  BY <1>1, <1>10 DEF F, A, b

\* A sequence up to k + 1 is that up to k and one element more.
LEMMA PrefixStep ==
  ASSUME NEW X, NEW s \in Seq(X), NEW k \in 0 .. Len(s) - 1
  PROVE  /\ SubSeq(s, 1, k) \in Seq(X) /\ s[k + 1] \in X
         /\ SubSeq(s, 1, k + 1) = Append(SubSeq(s, 1, k), s[k + 1])
<1>1. Len(s) \in Nat /\ k \in Nat /\ k + 1 \in 1 .. Len(s) /\ k <= Len(s)
  OBVIOUS
<1>2. SubSeq(s, 1, k) \in Seq(X) /\ s[k + 1] \in X
  BY <1>1
<1>3. SubSeq(s, 1, k + 1) = Append(SubSeq(s, 1, k), s[k + 1])
  <2> DEFINE u == SubSeq(s, 1, k + 1)
             v == Append(SubSeq(s, 1, k), s[k + 1])
  <2>1. u \in Seq(X) /\ v \in Seq(X) /\ Len(u) = k + 1 /\ Len(v) = k + 1
    BY <1>1, <1>2
  <2>2. \A i \in 1 .. k + 1 : u[i] = v[i]
    BY <1>1, <1>2
  <2> HIDE DEF u, v
  <2>3. u = v
    BY <2>1, <2>2
  <2>. QED
    BY <2>3 DEF u, v
<1>. QED
  BY <1>2, <1>3

\* The fields are the pieces that are not empty, in their order.
LEMMA FieldsPicked ==
  ASSUME NEW X, NEW d \in Seq(X)
  PROVE  Picked(d, Texts(X), Fields(d))
<1>1. PICK g \in [0 .. Len(d) -> Seq(X)] :
        IsRun(g, FieldTable(X), <<>>, d) /\ Fields(d) = g[Len(d)]
  BY FieldsRun
<1> DEFINE n == Len(d)
           Q == Texts(X)
           T == {k \in 0 .. n : Picked(SubSeq(d, 1, k), Q, g[k])}
<1>2. n \in Nat /\ \A k \in 1 .. n : d[k] \in X
  OBVIOUS
<1>3. 0 \in T
  <2>1. g[0] = <<>> /\ SubSeq(d, 1, 0) = <<>> /\ 0 \in 0 .. n
    BY <1>1, <1>2 DEF IsRun
  <2>. QED
    BY <2>1, PickedStarts
<1>4. \A k \in 0 .. n - 1 : k \in T => k + 1 \in T
  <2> SUFFICES ASSUME NEW k \in 0 .. n - 1, k \in T PROVE k + 1 \in T
    OBVIOUS
  <2>1. k + 1 \in 1 .. n /\ k + 1 \in 0 .. n /\ k + 1 - 1 = k /\ k \in 0 .. n
    BY <1>2
  <2> DEFINE x == d[k + 1]
             s == SubSeq(d, 1, k)
  <2>2. g[k + 1] = FieldTable(X)[<<g[k], x>>]
    BY <1>1, <2>1, SMTT(30) DEF IsRun
  <2>3. g[k] \in Seq(X) /\ x \in X
    BY <1>1, <1>2, <2>1
  <2>4. g[k + 1] = FieldTurn(g[k], x)
    BY <2>2, <2>3, FieldTableFacts
  <2>5. s \in Seq(X) /\ SubSeq(d, 1, k + 1) = Append(s, x)
    BY PrefixStep
  <2>6. Picked(s, Q, g[k]) /\ (x \in Q <=> x.text # "")
    BY <2>3 DEF Texts
  <2> HIDE DEF s, x, Q
  <2>7. Picked(Append(s, x), Q, g[k + 1])
    BY <2>3, <2>4, <2>5, <2>6, PickedKeeps DEF FieldTurn
  <2>. QED
    BY <2>1, <2>5, <2>7
<1> HIDE DEF T
<1>5. n \in T
  <2>1. \A k \in 0 .. n : k \in T
    BY <1>2, <1>3, <1>4, UpTo
  <2>2. n \in 0 .. n
    BY <1>2
  <2>. QED
    BY <2>1, <2>2
<1>6. SubSeq(d, 1, n) = d
  OBVIOUS
<1>. QED
  BY <1>1, <1>5, <1>6 DEF T

\* The k-th field is the k-th piece with something in it.
LEMMA FieldsTell ==
  ASSUME NEW P, NEW d \in Seq(P)
  PROVE  /\ Fields(d) \in Seq(P) /\ Len(Fields(d)) \in Nat
         /\ Len(Fields(d)) = Cardinality(Filled(d))
         /\ \A k \in 1 .. Len(Fields(d)) : Nth(d, k) \in DOMAIN d /\ Fields(d)[k] = d[Nth(d, k)]
<1> DEFINE Q == Texts(P)
           W == Filled(d)
           p == Fields(d)
           c == Len(p)
<1>1. Picked(d, Q, p)
  BY FieldsPicked
<1>0. \A k \in DOMAIN d : d[k] \in P
  OBVIOUS
<1>2. W = Where(d, Q) /\ W \subseteq DOMAIN d
  BY <1>0 DEF Filled, Where, Texts
<1>3. p \in Seq(Q) /\ Q \subseteq P /\ c = Nr(d, Q)
  BY <1>1 DEF Picked, Texts
<1>4. p \in Seq(P) /\ c \in Nat
  BY <1>3
<1>5. c = Cardinality(W)
  BY <1>2, <1>3 DEF Nr
<1>6. PICK f \in [1 .. c -> Nat] : PlacedAt(d, Q, p, f)
  BY <1>1 DEF Picked
<1>7. /\ \A k \in 1 .. c : f[k] \in W /\ p[k] = d[f[k]]
      /\ \A i \in W : \E k \in 1 .. c : f[k] = i
      /\ \A k, j \in 1 .. c : k < j => f[k] < f[j]
  BY <1>2, <1>6 DEF PlacedAt
<1> DEFINE U(k) == {f[i] : i \in 1 .. k}
           T == {k \in 0 .. c : IsFiniteSet(U(k)) /\ Cardinality(U(k)) = k}
<1> HIDE DEF Q, W, p, c
<1>8. \A k \in 0 .. c : k \in T
  <2>1. 0 \in T
    <3>1. U(0) = {}
      OBVIOUS
    <3>2. IsFiniteSet({}) /\ Cardinality({}) = 0
      BY FS_EmptySet
    <3>3. 0 \in 0 .. c
      BY <1>4
    <3>. QED
      BY <3>1, <3>2, <3>3
  <2>2. \A k \in 0 .. c - 1 : k \in T => k + 1 \in T
    <3> SUFFICES ASSUME NEW k \in 0 .. c - 1, k \in T PROVE k + 1 \in T
      OBVIOUS
    <3>1. k \in Nat /\ k + 1 \in 1 .. c /\ k + 1 \in 0 .. c
      BY <1>4
    <3>2. U(k + 1) = U(k) \union {f[k + 1]}
      <4>1. 1 .. k + 1 = (1 .. k) \union {k + 1}
        BY <3>1
      <4>. QED
        BY <4>1
    <3>3. f[k + 1] \notin U(k)
      <4> SUFFICES ASSUME NEW i \in 1 .. k, f[i] = f[k + 1] PROVE FALSE
        OBVIOUS
      <4>1. i \in 1 .. c /\ i < k + 1
        BY <1>4, <3>1
      <4>2. f[i] < f[k + 1] /\ f[i] \in Nat
        BY <1>7, <3>1, <4>1
      <4>. QED
        BY <4>2
    <3>4. IsFiniteSet(U(k)) /\ Cardinality(U(k)) = k
      OBVIOUS
    <3> HIDE DEF U
    <3>a. /\ IsFiniteSet(U(k) \union {f[k + 1]})
          /\ Cardinality(U(k) \union {f[k + 1]}) = Cardinality(U(k)) + 1
      BY <3>3, <3>4, FS_AddElement, Zenon
    <3>5. IsFiniteSet(U(k + 1)) /\ Cardinality(U(k + 1)) = k + 1
      BY <3>2, <3>4, <3>a, Zenon
    <3>. QED
      BY <3>1, <3>5
  <2> HIDE DEF T
  <2>. QED
    BY <1>4, <2>1, <2>2, UpTo
<1> DEFINE V(i) == {j \in W : j <= i}
<1>9. ASSUME NEW k \in 1 .. c PROVE Cardinality(V(f[k])) = k
  <2>1. V(f[k]) = U(k)
    <3>1. ASSUME NEW i \in 1 .. k PROVE f[i] \in V(f[k])
      <4>1. i \in 1 .. c /\ (i = k \/ i < k)
        BY <1>4
      <4>2. f[i] \in W /\ f[i] \in Nat /\ f[k] \in Nat
        BY <1>7, <4>1
      <4>3. f[i] <= f[k]
        BY <1>7, <4>1, <4>2
      <4>. QED
        BY <4>2, <4>3
    <3>2. ASSUME NEW j \in V(f[k]) PROVE j \in U(k)
      <4>1. PICK i \in 1 .. c : f[i] = j
        BY <1>7
      <4>2. ~(k < i)
        <5>1. f[i] \in Nat /\ f[k] \in Nat /\ f[i] <= f[k]
          BY <4>1
        <5>. QED
          BY <1>7, <5>1
      <4>3. i \in 1 .. k
        BY <1>4, <4>2
      <4>. QED
        BY <4>1, <4>3
    <3>. QED
      BY <3>1, <3>2
  <2>2. k \in 0 .. c
    BY <1>4
  <2>3. k \in T
    BY <1>8, <2>2
  <2>. QED
    BY <2>1, <2>3
<1> HIDE DEF U, T
<1>10. ASSUME NEW k \in 1 .. c PROVE Nth(d, k) = f[k]
  <2> DEFINE I(i) == Cardinality(V(i)) = k
  <2>1. f[k] \in W /\ I(f[k])
    BY <1>7, <1>9
  <2>2. \A i \in W : I(i) => i = f[k]
    BY <1>7, <1>9
  <2>3. Nth(d, k) = CHOOSE i \in W : I(i)
    BY DEF Nth, W
  <2> HIDE DEF I
  <2>. QED
    BY <2>1, <2>2, <2>3
<1>11. \A k \in 1 .. c : Nth(d, k) \in DOMAIN d /\ p[k] = d[Nth(d, k)]
  BY <1>2, <1>7, <1>10
<1>. QED
  BY <1>4, <1>5, <1>11 DEF p, c, W

-----------------------------------------------------------------------------
(* Block 12: readers that count lines.                                      *)

\* A line of n fields: the k-th field is the k-th piece with something in it.
LEMMA FieldsOf ==
  ASSUME NEW P, NEW d \in Seq(P), NEW n \in Nat
  PROVE  /\ Cardinality(Filled(d)) = n <=> Len(Fields(d)) = n
         /\ Len(Fields(d)) = n => \A k \in 1 .. n : Fields(d)[k] = d[Nth(d, k)]
BY FieldsTell

\* Either all lines are good ones or one of them is not.
LEMMA NrAll ==
  ASSUME NEW X, NEW s \in Seq(X), NEW Q
  PROVE  Nr(s, Q) = Len(s) <=> \A k \in DOMAIN s : s[k] \in Q
<1>1. Len(s) \in Nat /\ DOMAIN s = 1 .. Len(s) /\ Where(s, Q) \in SUBSET DOMAIN s
  BY DEF Where
<1>2. IsFiniteSet(DOMAIN s) /\ Cardinality(DOMAIN s) = Len(s)
  <2>1. 1 \in Int /\ Len(s) \in Int
    BY <1>1
  <2>2. IsFiniteSet(1 .. Len(s)) /\ Cardinality(1 .. Len(s)) = IF 1 > Len(s) THEN 0 ELSE Len(s) - 1 + 1
    BY ONLY <2>1, FS_Interval
  <2>. QED
    BY <1>1, <2>2
<1>3. Nr(s, Q) = Len(s) => Where(s, Q) = DOMAIN s
  BY <1>1, <1>2, FS_Subset DEF Nr
<1>4. Where(s, Q) = DOMAIN s => Nr(s, Q) = Len(s)
  BY <1>2 DEF Nr
<1>. QED
  BY <1>3, <1>4 DEF Where

-----------------------------------------------------------------------------
\* The counters of the contracts, and what each counts.
ContractKeys == {"valid", "invalid", "https"}
ContractGood(X) == {m \in X : ValidContract(Fields(m))}
ContractSecure(X) == {m \in ContractGood(X) : Fields(m)[3].text = "https"}

\* The counters of the contracts.
ContractInv(X, s, a) ==
  /\ a \in [ContractKeys -> Nat]
  /\ a.valid = Nr(s, ContractGood(X)) /\ a.valid + a.invalid = Len(s)
  /\ a.https = Nr(s, ContractSecure(X))

\* They are zero at first,
LEMMA ContractStarts == \A X : ContractInv(X, <<>>, ContractStart)
<1>1. /\ ContractStart \in [ContractKeys -> Nat]
      /\ \A k \in ContractKeys : ContractStart[k] = 0
  BY ZeroFacts DEF ContractStart, ContractKeys
<1>. QED
  BY <1>1, NrStart DEF ContractInv, ContractKeys

\* each line adds one to valid or to invalid, a secure one to https as well,
LEMMA ContractKeeps ==
  ASSUME NEW X, NEW s \in Seq(X), NEW l \in X, NEW a, ContractInv(X, s, a)
  PROVE  ContractInv(X, Append(s, l), ContractStep(a, l))
<1> DEFINE b == ContractStep(a, l)
           t == Append(s, l)
           f == Fields(l)
           G == ContractGood(X)
           H == ContractSecure(X)
<1>1. /\ a \in [ContractKeys -> Nat]
      /\ a.valid = Nr(s, G) /\ a.valid + a.invalid = Len(s) /\ a.https = Nr(s, H)
  BY DEF ContractInv
<1>2. a.valid \in Nat /\ a.invalid \in Nat /\ a.https \in Nat
  BY <1>1 DEF ContractKeys
<1>3. /\ Nr(t, G) = Nr(s, G) + If01(l \in G) /\ Nr(t, H) = Nr(s, H) + If01(l \in H)
      /\ Len(t) = Len(s) + 1
  BY NrStep
<1>4. (l \in G <=> ValidContract(f)) /\ (l \in H <=> ValidContract(f) /\ f[3].text = "https")
  BY DEF ContractGood, ContractSecure
<1>5. CASE ValidContract(f)
  <2> DEFINE S == {"valid"} \union If(f[3].text = "https", {"https"})
  <2>1. b = Bump(a, S)
    BY <1>5 DEF ContractStep
  <2>2. "valid" \in S /\ "invalid" \notin S /\ ("https" \in S <=> f[3].text = "https")
    BY DEF If
  <2> HIDE DEF S, b, f, G, H, t
  <2>3. b \in [ContractKeys -> Nat] /\ \A k \in ContractKeys : b[k] = a[k] + If01(k \in S)
    BY <1>1, <2>1, BumpFacts
  <2>4. /\ b.valid = a.valid + 1 /\ b.invalid = a.invalid
        /\ b.https = a.https + If01(f[3].text = "https")
    BY <1>2, <2>2, <2>3 DEF ContractKeys, If01
  <2>5. /\ Nr(t, G) = Nr(s, G) + 1 /\ Nr(t, H) = Nr(s, H) + If01(f[3].text = "https")
    BY <1>3, <1>4, <1>5 DEF If01
  <2>6. /\ b.valid = Nr(t, G) /\ b.valid + b.invalid = Len(t)
        /\ b.https = Nr(t, H)
    BY <1>1, <1>2, <1>3, <2>4, <2>5
  <2>. QED
    BY <2>3, <2>6 DEF ContractInv, b, t, G, H
<1>6. CASE ~ValidContract(f)
  <2>1. b = Bump(a, {"invalid"})
    BY <1>6 DEF ContractStep
  <2> HIDE DEF b, f, G, H, t
  <2>2. b \in [ContractKeys -> Nat] /\ \A k \in ContractKeys : b[k] = a[k] + If01(k \in {"invalid"})
    BY <1>1, <2>1, BumpFacts
  <2>3. b.valid = a.valid /\ b.invalid = a.invalid + 1 /\ b.https = a.https
    BY <1>2, <2>2 DEF ContractKeys, If01
  <2>4. Nr(t, G) = Nr(s, G) /\ Nr(t, H) = Nr(s, H)
    BY <1>1, <1>2, <1>3, <1>4, <1>6 DEF If01
  <2>. QED
    BY <1>1, <1>2, <1>3, <2>2, <2>3, <2>4 DEF ContractInv, b, t, G, H
<1>. QED
  BY <1>5, <1>6

\* and then say what the whole file says.
LEMMA ContractTells ==
  ASSUME NEW X, NEW s \in Seq(X), \A m \in X : PiecesLine(m), NEW a, ContractInv(X, s, a)
  PROVE  ContractMatches(s, a)
<1> DEFINE Good(l) == /\ Cardinality(Filled(l)) = 4
                      /\ l[Nth(l, 1)].name /\ InRange(l[Nth(l, 2)], 1, MaxPort)
                      /\ l[Nth(l, 3)].text \in {"tcp", "http", "https"}
                      /\ l[Nth(l, 4)].text = "/path"
           Secure(l) == Good(l) /\ l[Nth(l, 3)].text = "https"
<1>1. \A k \in DOMAIN s : s[k] \in X
  OBVIOUS
<1>2. ASSUME NEW l \in X PROVE (Good(l) <=> l \in ContractGood(X))
                               /\ (Secure(l) <=> l \in ContractSecure(X))
  <2>1. /\ Cardinality(Filled(l)) = 4 <=> Len(Fields(l)) = 4
        /\ Len(Fields(l)) = 4 => \A k \in 1 .. 4 : Fields(l)[k] = l[Nth(l, k)]
    BY FieldsOf DEF PiecesLine
  <2>2. Len(Fields(l)) = 4 =>
          /\ Fields(l)[1] = l[Nth(l, 1)] /\ Fields(l)[2] = l[Nth(l, 2)]
          /\ Fields(l)[3] = l[Nth(l, 3)] /\ Fields(l)[4] = l[Nth(l, 4)]
    BY <2>1
  <2>. QED
    BY <2>1, <2>2 DEF ContractGood, ContractSecure, ValidContract
<1>3. Count(s, Good) = Nr(s, ContractGood(X))
  BY <1>1, <1>2 DEF Count, Nr, Where
<1>4. Count(s, Secure) = Nr(s, ContractSecure(X))
  BY <1>1, <1>2 DEF Count, Nr, Where
<1>. QED
  BY <1>3, <1>4 DEF ContractMatches, ContractInv

-----------------------------------------------------------------------------
\* The counters of the snapshot, and the lines that name a state.
SnapshotKeys == {"total", "up", "down", "invalid"}
SnapshotHas(X, u) == {m \in X : Len(Fields(m)) = 4 /\ Fields(m)[4].text = u}

\* The counters of the snapshot; the total is the sum of the others.
SnapshotInv(X, s, a) ==
  /\ a \in [SnapshotKeys -> Nat]
  /\ a.total = a.up + a.down /\ a.total + a.invalid = Len(s)
  /\ a.up = Nr(s, SnapshotHas(X, "up"))

\* They are zero at first,
LEMMA SnapshotStarts == \A X : SnapshotInv(X, <<>>, SnapshotStart)
<1>1. /\ SnapshotStart \in [SnapshotKeys -> Nat]
      /\ \A k \in SnapshotKeys : SnapshotStart[k] = 0
  BY ZeroFacts DEF SnapshotStart, SnapshotKeys
<1>. QED
  BY <1>1, NrStart DEF SnapshotInv, SnapshotKeys

\* each line adds one to a state and to the total,
LEMMA SnapshotKeeps ==
  ASSUME NEW X, NEW s \in Seq(X), NEW l \in X, NEW a, SnapshotInv(X, s, a)
  PROVE  SnapshotInv(X, Append(s, l), SnapshotStep(a, l))
<1> DEFINE b == SnapshotStep(a, l)
           t == Append(s, l)
           f == Fields(l)
           U == SnapshotHas(X, "up")
           ok == Len(f) = 4 /\ f[4].text \in {"up", "down"}
           S == IF ok THEN {"total", f[4].text} ELSE {"invalid"}
<1>1. /\ a \in [SnapshotKeys -> Nat]
      /\ a.total = a.up + a.down /\ a.total + a.invalid = Len(s) /\ a.up = Nr(s, U)
  BY DEF SnapshotInv
<1>2. a.total \in Nat /\ a.up \in Nat /\ a.down \in Nat /\ a.invalid \in Nat
  BY <1>1 DEF SnapshotKeys
<1>3. Nr(t, U) = Nr(s, U) + If01(l \in U) /\ Len(t) = Len(s) + 1
  BY NrStep
<1>4. b = Bump(a, S)
  BY DEF SnapshotStep
<1>5. l \in U <=> "up" \in S
  BY DEF SnapshotHas
<1>6. CASE ok
  <2>1. "total" \in S /\ "invalid" \notin S /\ ("up" \in S <=> "down" \notin S)
    BY <1>6
  <2> HIDE DEF S, b, f, U, t, ok
  <2>2. b \in [SnapshotKeys -> Nat] /\ \A k \in SnapshotKeys : b[k] = a[k] + If01(k \in S)
    BY <1>1, <1>4, BumpFacts
  <2> DEFINE u == If01("up" \in S)
             d == If01("down" \in S)
  <2>3. /\ b.total = a.total + 1 /\ b.invalid = a.invalid
        /\ b.up = a.up + u /\ b.down = a.down + d
    BY <1>2, <2>1, <2>2 DEF SnapshotKeys, If01
  <2>a. u + d = 1 /\ u \in Nat /\ d \in Nat
    BY <2>1 DEF If01
  <2>5. b.up = Nr(t, U)
    BY <1>1, <1>3, <1>5, <2>3 DEF If01
  <2> HIDE DEF u, d
  <2>b. a.total = a.up + a.down
    BY <1>1
  <2>4. b.total = b.up + b.down
    BY <1>2, <2>3, <2>a, <2>b, SMTT(30)
  <2>c. a.total + a.invalid = Len(s) /\ Len(s) \in Nat
    BY <1>1, LenProperties
  <2>d. Len(t) = Len(s) + 1
    BY <1>3
  <2>6. b.total + b.invalid = Len(t)
    BY <1>2, <2>3, <2>c, <2>d
  <2>. QED
    BY <2>2, <2>4, <2>5, <2>6 DEF SnapshotInv, b, t, U
<1>7. CASE ~ok
  <2>1. S = {"invalid"}
    BY <1>7
  <2> HIDE DEF S, b, f, U, t, ok
  <2>2. b \in [SnapshotKeys -> Nat] /\ \A k \in SnapshotKeys : b[k] = a[k] + If01(k \in S)
    BY <1>1, <1>4, BumpFacts
  <2>3. b.total = a.total /\ b.invalid = a.invalid + 1 /\ b.up = a.up /\ b.down = a.down
    BY <1>2, <2>1, <2>2 DEF SnapshotKeys, If01
  <2>4. Nr(t, U) = Nr(s, U)
    BY <1>1, <1>2, <1>3, <1>5, <2>1 DEF If01
  <2>5. b.total = b.up + b.down
    BY <1>1, <2>3
  <2>6. b.up = Nr(t, U)
    BY <1>1, <2>3, <2>4
  <2>7. a.total + a.invalid = Len(s) /\ Len(s) \in Nat
    BY <1>1, LenProperties
  <2>a. Len(t) = Len(s) + 1
    BY <1>3
  <2>8. b.total + b.invalid = Len(t)
    BY <1>2, <2>3, <2>7, <2>a
  <2>. QED
    BY <2>2, <2>5, <2>6, <2>8 DEF SnapshotInv, b, t, U
<1>. QED
  BY <1>6, <1>7

\* and then say what the whole file says.
LEMMA SnapshotTells ==
  ASSUME NEW X, NEW s \in Seq(X), \A m \in X : PiecesLine(m), NEW a, SnapshotInv(X, s, a)
  PROVE  SnapshotMatches(s, a)
<1> DEFINE Up(l) == Cardinality(Filled(l)) = 4 /\ l[Nth(l, 4)].text = "up"
<1>1. \A k \in DOMAIN s : s[k] \in X
  OBVIOUS
<1>2. ASSUME NEW l \in X PROVE Up(l) <=> l \in SnapshotHas(X, "up")
  <2>1. /\ Cardinality(Filled(l)) = 4 <=> Len(Fields(l)) = 4
        /\ Len(Fields(l)) = 4 => \A k \in 1 .. 4 : Fields(l)[k] = l[Nth(l, k)]
    BY FieldsOf DEF PiecesLine
  <2>. QED
    BY <2>1 DEF SnapshotHas
<1>3. Count(s, Up) = Nr(s, SnapshotHas(X, "up"))
  BY <1>1, <1>2 DEF Count, Nr, Where
<1>. QED
  BY <1>3 DEF SnapshotMatches, SnapshotInv

\* Each counter has the lines that count for it; F says for which a line does.
CountFor(X, F, k) == {m \in X : k \in F[m]}
\* The counters C, where a line m adds one to those of F[m].
Counters(C, X, F, s, a) == a \in [C -> Nat] /\ \A k \in C : a[k] = Nr(s, CountFor(X, F, k))

\* Such counters are zero at first,
LEMMA CountersStart == \A C, X, F : Counters(C, X, F, <<>>, Zero(C))
BY NrStart, ZeroFacts DEF Counters

\* and one line more adds one to each that it counts for.
LEMMA CountersKeep ==
  ASSUME NEW C, NEW X, NEW F, NEW s \in Seq(X), NEW l \in X, NEW a, Counters(C, X, F, s, a)
  PROVE  Counters(C, X, F, Append(s, l), Bump(a, F[l]))
<1>1. a \in [C -> Nat] /\ \A k \in C : a[k] = Nr(s, CountFor(X, F, k))
  BY DEF Counters
<1>2. /\ Bump(a, F[l]) \in [C -> Nat]
      /\ \A k \in C : Bump(a, F[l])[k] = a[k] + If01(k \in F[l])
  BY <1>1, BumpFacts
<1>3. ASSUME NEW k \in C
      PROVE  Nr(Append(s, l), CountFor(X, F, k)) = Nr(s, CountFor(X, F, k)) + If01(k \in F[l])
  <2> DEFINE Q == CountFor(X, F, k)
  <2>1. l \in Q <=> k \in F[l]
    BY DEF CountFor
  <2> HIDE DEF Q
  <2>2. Nr(Append(s, l), Q) = Nr(s, Q) + If01(l \in Q)
    BY NrStep
  <2>3. Nr(Append(s, l), Q) = Nr(s, Q) + If01(k \in F[l])
    BY <2>1, <2>2 DEF If01
  <2>. QED
    BY <2>3 DEF Q
<1>4. \A k \in C : Bump(a, F[l])[k] = Nr(Append(s, l), CountFor(X, F, k))
  BY <1>1, <1>2, <1>3
<1>. QED
  BY <1>2, <1>4 DEF Counters

\* Every line is of a kind or not.
LEMMA NrSplit ==
  ASSUME NEW X, NEW s \in Seq(X), NEW Q, NEW R, \A m \in X : m \in Q <=> m \notin R
  PROVE  Nr(s, Q) + Nr(s, R) = Len(s)
<1> DEFINE A == Where(s, Q)
           B == Where(s, R)
<1>1. Len(s) \in Nat /\ DOMAIN s = 1 .. Len(s) /\ \A k \in DOMAIN s : s[k] \in X
  OBVIOUS
<1>2. A \in SUBSET DOMAIN s /\ B \in SUBSET DOMAIN s /\ A \cap B = {} /\ A \union B = DOMAIN s
  BY <1>1 DEF Where
<1>3. IsFiniteSet(A) /\ IsFiniteSet(B) /\ Cardinality(A) \in Nat /\ Cardinality(B) \in Nat
  BY <1>1, <1>2, PlacesAreFinite
<1>4. Cardinality(A \union B) = Cardinality(A) + Cardinality(B) - Cardinality(A \cap B)
  BY <1>3, FS_Union
<1>5. Cardinality({}) = 0
  BY FS_EmptySet
<1>6. Cardinality(DOMAIN s) = Len(s)
  <2>1. 1 \in Int /\ Len(s) \in Int
    BY <1>1
  <2>2. Cardinality(1 .. Len(s)) = IF 1 > Len(s) THEN 0 ELSE Len(s) - 1 + 1
    BY ONLY <2>1, FS_Interval
  <2>. QED
    BY <1>1, <2>2
<1> HIDE DEF A, B
<1>8. Cardinality(A \union B) = Len(s) /\ Cardinality(A \cap B) = 0
  BY <1>2, <1>5, <1>6
<1>7. Cardinality(A) + Cardinality(B) = Len(s)
  BY <1>3, <1>4, <1>8
<1>. QED
  BY <1>7 DEF A, B, Nr

-----------------------------------------------------------------------------
\* The counters of the secrets, and those a line counts for.
SecretKeys == {"valid", "invalid", "global", "rotatable"}
SecretCounts(f) ==
  IF ~ValidSecret(f) THEN {"invalid"}
  ELSE {"valid"} \union If(f[2].text = "global", {"global"})
                 \union If(f[4].text = "yes", {"rotatable"})
SecretTable(X) == [m \in X |-> SecretCounts(Fields(m))]
SecretInv(X, s, a) == Counters(SecretKeys, X, SecretTable(X), s, a)

\* They are zero at first,
LEMMA SecretStarts == \A X : SecretInv(X, <<>>, SecretStart)
BY CountersStart DEF SecretInv, SecretStart, SecretKeys

\* each line adds one to those it counts for,
LEMMA SecretKeeps ==
  ASSUME NEW X, NEW s \in Seq(X), NEW l \in X, NEW a, SecretInv(X, s, a)
  PROVE  SecretInv(X, Append(s, l), SecretStep(a, l))
<1>1. SecretStep(a, l) = Bump(a, SecretCounts(Fields(l)))
  BY DEF SecretStep, SecretCounts
<1>2. SecretTable(X)[l] = SecretCounts(Fields(l))
  BY DEF SecretTable
<1>. QED
  BY <1>1, <1>2, CountersKeep DEF SecretInv

\* and then say what the whole file says.
LEMMA SecretTells ==
  ASSUME NEW X, NEW s \in Seq(X), \A m \in X : PiecesLine(m), NEW a, SecretInv(X, s, a)
  PROVE  SecretMatches(s, a)
<1> DEFINE Good(l) == /\ Cardinality(Filled(l)) = 4
                      /\ l[Nth(l, 1)].name /\ InRange(l[Nth(l, 3)], MinTtl, MaxTtl)
                      /\ l[Nth(l, 2)].text \in {"global", "service", "tenant"}
                      /\ l[Nth(l, 4)].text \in {"yes", "no"}
           Global(l) == Good(l) /\ l[Nth(l, 2)].text = "global"
           Turns(l) == Good(l) /\ l[Nth(l, 4)].text = "yes"
           K(k) == CountFor(X, SecretTable(X), k)
<1>1. \A k \in DOMAIN s : s[k] \in X
  OBVIOUS
<1>2. ASSUME NEW l \in X
      PROVE  /\ Good(l) <=> l \in K("valid")
             /\ Good(l) <=> l \notin K("invalid")
             /\ Global(l) <=> l \in K("global")
             /\ Turns(l) <=> l \in K("rotatable")
  <2> DEFINE f == Fields(l)
  <2>1. /\ Cardinality(Filled(l)) = 4 <=> Len(f) = 4
        /\ Len(f) = 4 => \A k \in 1 .. 4 : f[k] = l[Nth(l, k)]
    BY FieldsOf DEF PiecesLine
  <2>2. Len(f) = 4 =>
          /\ f[1] = l[Nth(l, 1)] /\ f[2] = l[Nth(l, 2)]
          /\ f[3] = l[Nth(l, 3)] /\ f[4] = l[Nth(l, 4)]
    BY <2>1
  <2>3. Good(l) <=> ValidSecret(f)
    BY <2>1, <2>2 DEF ValidSecret
  <2>4. /\ Global(l) <=> ValidSecret(f) /\ f[2].text = "global"
        /\ Turns(l) <=> ValidSecret(f) /\ f[4].text = "yes"
    BY <2>2, <2>3 DEF ValidSecret
  <2>5. \A k : l \in K(k) <=> k \in SecretCounts(f)
    BY DEF CountFor, SecretTable
  <2> HIDE DEF f, K, Good
  <2>6. /\ "valid" \in SecretCounts(f) <=> ValidSecret(f)
        /\ "invalid" \in SecretCounts(f) <=> ~ValidSecret(f)
        /\ "global" \in SecretCounts(f) <=> ValidSecret(f) /\ f[2].text = "global"
        /\ "rotatable" \in SecretCounts(f) <=> ValidSecret(f) /\ f[4].text = "yes"
    BY DEF SecretCounts, If
  <2>. QED
    BY <2>3, <2>4, <2>5, <2>6
<1>3. \A k \in SecretKeys : a[k] = Nr(s, K(k))
  BY DEF SecretInv, Counters
<1>4. /\ Count(s, Good) = Nr(s, K("valid")) /\ Count(s, Global) = Nr(s, K("global"))
      /\ Count(s, Turns) = Nr(s, K("rotatable"))
  <2>1. Count(s, Good) = Nr(s, K("valid"))
    BY <1>1, <1>2 DEF Count, Nr, Where
  <2>2. Count(s, Global) = Nr(s, K("global"))
    BY <1>1, <1>2 DEF Count, Nr, Where
  <2>3. Count(s, Turns) = Nr(s, K("rotatable"))
    BY <1>1, <1>2 DEF Count, Nr, Where
  <2>. QED
    BY <2>1, <2>2, <2>3
<1>5. Nr(s, K("valid")) + Nr(s, K("invalid")) = Len(s)
  <2>1. \A m \in X : m \in K("valid") <=> m \notin K("invalid")
    BY <1>2
  <2> HIDE DEF K
  <2>. QED
    BY <2>1, NrSplit
<1>6. /\ a.valid = Nr(s, K("valid")) /\ a.invalid = Nr(s, K("invalid"))
      /\ a.global = Nr(s, K("global")) /\ a.rotatable = Nr(s, K("rotatable"))
  BY <1>3 DEF SecretKeys
<1>. QED
  BY <1>4, <1>5, <1>6 DEF SecretMatches

\* The counters of the jobs, and those a line counts for.
JobKeys == {"valid", "invalid", "heavy"}
IsHeavy(f) == InRange(f[3], HeavyCpu, MostCpu) \/ InRange(f[4], 4096, 16384)
JobCounts(f) == IF ~ValidJob(f) THEN {"invalid"} ELSE {"valid"} \union If(IsHeavy(f), {"heavy"})
JobTable(X) == [m \in X |-> JobCounts(Fields(m))]
JobInv(X, s, a) == Counters(JobKeys, X, JobTable(X), s, a)

\* They are zero at first,
LEMMA JobStarts == \A X : JobInv(X, <<>>, JobStart)
BY CountersStart DEF JobInv, JobStart, JobKeys

\* each line adds one to those it counts for,
LEMMA JobKeeps ==
  ASSUME NEW X, NEW s \in Seq(X), NEW l \in X, NEW a, JobInv(X, s, a)
  PROVE  JobInv(X, Append(s, l), JobStep(a, l))
<1>1. JobStep(a, l) = Bump(a, JobCounts(Fields(l)))
  BY DEF JobStep, JobCounts, IsHeavy
<1>2. JobTable(X)[l] = JobCounts(Fields(l))
  BY DEF JobTable
<1>. QED
  BY <1>1, <1>2, CountersKeep DEF JobInv

\* Of a number within its limits it is enough to look at one of them.
LEMMA MuchOf ==
  ASSUME NEW p, p.num \in SUBSET Int, Parsed(p.num, Int), NEW u \in Int, NEW m \in Int, NEW v \in Int,
         InRange(p, u, v)
  PROVE  InRange(p, m, v) <=> \E n \in p.num : n >= m
<1>1. PICK n \in p.num : n \in u .. v
  BY DEF InRange
<1>2. \A k \in p.num : k = n
  BY <1>1 DEF Parsed
<1>3. n \in Int /\ n <= v
  BY <1>1
<1>4. n \in m .. v <=> n >= m
  BY <1>3
<1>. QED
  BY <1>1, <1>2, <1>4 DEF InRange

\* and then say what the whole file says.
LEMMA JobTells ==
  ASSUME NEW X, NEW s \in Seq(X), \A m \in X : PiecesLine(m), NEW a, JobInv(X, s, a)
  PROVE  JobMatches(s, a)
<1> DEFINE Good(l) == /\ Cardinality(Filled(l)) = 5 /\ l[Nth(l, 1)].name /\ l[Nth(l, 2)].name
                      /\ InRange(l[Nth(l, 3)], MinCpu, MostCpu)
                      /\ InRange(l[Nth(l, 4)], 64, 16384) /\ InRange(l[Nth(l, 5)], 5, 3600)
           Much(l) == \/ \E v \in l[Nth(l, 3)].num : v >= HeavyCpu
                      \/ \E v \in l[Nth(l, 4)].num : v >= 4096
           Heavy(l) == Good(l) /\ Much(l)
           K(k) == CountFor(X, JobTable(X), k)
<1>1. \A k \in DOMAIN s : s[k] \in X
  OBVIOUS
<1>2. ASSUME NEW l \in X
      PROVE  /\ Good(l) <=> l \in K("valid")
             /\ Good(l) <=> l \notin K("invalid")
             /\ Heavy(l) <=> l \in K("heavy")
  <2> DEFINE f == Fields(l)
  <2>0. l \in Seq(Word) /\ PiecesLine(l)
    BY DEF PiecesLine
  <2>1. /\ Cardinality(Filled(l)) = 5 <=> Len(f) = 5
        /\ Len(f) = 5 => \A k \in 1 .. 5 : f[k] = l[Nth(l, k)]
    BY <2>0, FieldsOf
  <2>2. Len(f) = 5 =>
          /\ f[1] = l[Nth(l, 1)] /\ f[2] = l[Nth(l, 2)]
          /\ f[3] = l[Nth(l, 3)] /\ f[4] = l[Nth(l, 4)] /\ f[5] = l[Nth(l, 5)]
    BY <2>1
  <2>3. Good(l) <=> ValidJob(f)
    BY <2>1, <2>2 DEF ValidJob
  <2>4. ASSUME ValidJob(f) PROVE Much(l) <=> IsHeavy(f)
    <3>1. /\ Len(f) = 5 /\ InRange(f[3], MinCpu, MostCpu) /\ InRange(f[4], 64, 16384)
      BY <2>4 DEF ValidJob
    <3>2. /\ f[3] = l[Nth(l, 3)] /\ f[4] = l[Nth(l, 4)]
      BY <2>2, <3>1
    <3>3. Nth(l, 3) \in DOMAIN l /\ Nth(l, 4) \in DOMAIN l
      <4>1. 3 \in 1 .. Len(f) /\ 4 \in 1 .. Len(f)
        BY <3>1
      <4> HIDE DEF f
      <4>. QED
        BY <2>0, <4>1, FieldsTell DEF f
    <3>4. \A k \in DOMAIN l : l[k].num \in SUBSET Int /\ Parsed(l[k].num, Int)
      <4>1. \A k \in DOMAIN l : l[k] \in Word /\ Parsed(l[k].num, Int)
        BY <2>0 DEF PiecesLine
      <4>2. \A w \in Word : w.num \in SUBSET Int
        BY DEF Word
      <4> HIDE DEF Good, Much, K, f
      <4>. QED
        BY <4>1, <4>2
    <3>5. /\ f[3].num \in SUBSET Int /\ Parsed(f[3].num, Int)
          /\ f[4].num \in SUBSET Int /\ Parsed(f[4].num, Int)
      BY <3>2, <3>3, <3>4
    <3> HIDE DEF f
    <3>6. InRange(f[4], 4096, 16384) <=> \E n \in f[4].num : n >= 4096
      <4> DEFINE p == f[4]
                 u == 64
                 m == 4096
                 v == 16384
      <4>1. p.num \in SUBSET Int /\ Parsed(p.num, Int) /\ InRange(p, u, v)
            /\ u \in Int /\ m \in Int /\ v \in Int
        BY <3>1, <3>5
      <4> HIDE DEF p, u, m, v
      <4>2. InRange(p, m, v) <=> \E n \in p.num : n >= m
        BY <4>1, MuchOf
      <4>. QED
        BY <4>2 DEF p, m, v
    <3>7. InRange(f[3], HeavyCpu, MostCpu) <=> \E n \in f[3].num : n >= HeavyCpu
      <4>1. MinCpu \in Int /\ HeavyCpu \in Int /\ MostCpu \in Int
        BY CloudAssumption
      <4>. QED
        BY <3>1, <3>5, <4>1, MuchOf
    <3>. QED
      BY <3>2, <3>6, <3>7 DEF IsHeavy
  <2>5. \A k : l \in K(k) <=> k \in JobCounts(f)
    BY DEF CountFor, JobTable
  <2> HIDE DEF f, K, Good, Much
  <2>6. /\ "valid" \in JobCounts(f) <=> ValidJob(f)
        /\ "invalid" \in JobCounts(f) <=> ~ValidJob(f)
        /\ "heavy" \in JobCounts(f) <=> ValidJob(f) /\ IsHeavy(f)
    BY DEF JobCounts, If
  <2>. QED
    BY <2>3, <2>4, <2>5, <2>6
<1>3. \A k \in JobKeys : a[k] = Nr(s, K(k))
  BY DEF JobInv, Counters
<1> HIDE DEF Good, Heavy, K
<1>a. \A k \in DOMAIN s : (Good(s[k]) <=> s[k] \in K("valid")) /\ (Heavy(s[k]) <=> s[k] \in K("heavy"))
  BY <1>1, <1>2
<1>4. Count(s, Good) = Nr(s, K("valid"))
  BY <1>a DEF Count, Nr, Where
<1>5. Count(s, Heavy) = Nr(s, K("heavy"))
  BY <1>a DEF Count, Nr, Where
<1>6. Nr(s, K("valid")) + Nr(s, K("invalid")) = Len(s)
  <2>1. \A m \in X : m \in K("valid") <=> m \notin K("invalid")
    BY <1>2
  <2> HIDE DEF K
  <2>. QED
    BY <2>1, NrSplit
<1>7. /\ a.valid = Nr(s, K("valid")) /\ a.invalid = Nr(s, K("invalid"))
      /\ a.heavy = Nr(s, K("heavy"))
  BY <1>3 DEF JobKeys
<1>8. /\ a.valid + a.invalid = Len(s) /\ a.valid = Count(s, Good)
      /\ a.heavy = Count(s, Heavy)
  BY <1>4, <1>5, <1>6, <1>7
<1>. QED
  BY <1>8 DEF JobMatches, Good, Heavy

-----------------------------------------------------------------------------
\* The counters of the entries, and those a line counts for.
EntryKeys == {"valid", "invalid", "up", "down", "secure"}
EntryCounts(f) ==
  IF ~ValidEntry(f) THEN {"invalid"}
  ELSE {"valid", f[6].text} \union If(f[4].text = "https", {"secure"})
EntryTable(X) == [m \in X |-> EntryCounts(Fields(m))]
\* The valid entries are those that are up and those that are down.
EntryInv(X, s, a) == Counters(EntryKeys, X, EntryTable(X), s, a) /\ a.valid = a.up + a.down

\* They are zero at first,
LEMMA EntryStarts == \A X : EntryInv(X, <<>>, EntryStart)
<1>1. /\ EntryStart \in [EntryKeys -> Nat]
      /\ \A k \in EntryKeys : EntryStart[k] = 0
  BY ZeroFacts DEF EntryStart, EntryKeys
<1>. QED
  BY <1>1, CountersStart DEF EntryInv, EntryStart, EntryKeys

\* What a line counts for.
LEMMA EntryCountsFor ==
  ASSUME NEW f
  PROVE  /\ "valid" \in EntryCounts(f) <=> ValidEntry(f)
         /\ "invalid" \in EntryCounts(f) <=> ~ValidEntry(f)
         /\ "up" \in EntryCounts(f) <=> ValidEntry(f) /\ f[6].text = "up"
         /\ "down" \in EntryCounts(f) <=> ValidEntry(f) /\ f[6].text = "down"
         /\ "secure" \in EntryCounts(f) <=> ValidEntry(f) /\ f[4].text = "https"
         /\ ValidEntry(f) => f[6].text \in {"up", "down"}
<1>1. ValidEntry(f) => f[6].text \in {"up", "down"}
  BY DEF ValidEntry
<1>2. CASE ValidEntry(f)
  <2>1. EntryCounts(f) = {"valid", f[6].text} \union If(f[4].text = "https", {"secure"})
    BY <1>2 DEF EntryCounts
  <2>. QED
    BY <1>1, <1>2, <2>1 DEF If
<1>3. CASE ~ValidEntry(f)
  <2>1. EntryCounts(f) = {"invalid"}
    BY <1>3 DEF EntryCounts
  <2>. QED
    BY <1>3, <2>1
<1>. QED
  BY <1>2, <1>3

\* each line adds one to those it counts for,
LEMMA EntryKeeps ==
  ASSUME NEW X, NEW s \in Seq(X), NEW l \in X, NEW a, EntryInv(X, s, a)
  PROVE  EntryInv(X, Append(s, l), EntryStep(a, l))
<1> DEFINE b == EntryStep(a, l)
           S == EntryCounts(Fields(l))
<1>1. b = Bump(a, S)
  BY DEF EntryStep, EntryCounts
<1>2. EntryTable(X)[l] = S
  BY DEF EntryTable
<1>3. Counters(EntryKeys, X, EntryTable(X), Append(s, l), b)
  BY <1>1, <1>2, CountersKeep DEF EntryInv
<1>4. /\ "valid" \in S <=> "up" \in S \/ "down" \in S
      /\ ~("up" \in S /\ "down" \in S)
  BY EntryCountsFor
<1>5. a \in [EntryKeys -> Nat] /\ a.valid = a.up + a.down
  BY DEF EntryInv, Counters
<1>6. a.valid \in Nat /\ a.up \in Nat /\ a.down \in Nat
  BY <1>5 DEF EntryKeys
<1> HIDE DEF b, S
<1>7. \A k \in EntryKeys : b[k] = a[k] + If01(k \in S)
  BY <1>1, <1>5, BumpFacts
<1> DEFINE v == If01("valid" \in S)
           u == If01("up" \in S)
           d == If01("down" \in S)
<1>8. b.valid = a.valid + v /\ b.up = a.up + u /\ b.down = a.down + d
  BY <1>7 DEF EntryKeys
<1>9. v = u + d /\ u \in Nat /\ d \in Nat
  BY <1>4 DEF If01
<1>10. a.valid = a.up + a.down
  BY <1>5
<1> HIDE DEF v, u, d
<1>11. b.valid = b.up + b.down
  BY <1>6, <1>8, <1>9, <1>10
<1>. QED
  BY <1>3, <1>11 DEF EntryInv, b

\* and then say what the whole file says.
LEMMA EntryTells ==
  ASSUME NEW X, NEW s \in Seq(X), \A m \in X : PiecesLine(m), NEW a, EntryInv(X, s, a)
  PROVE  EntryMatches(s, a)
<1> DEFINE Good(l) == /\ Cardinality(Filled(l)) = 6
                      /\ l[Nth(l, 1)].name /\ l[Nth(l, 2)].name
                      /\ InRange(l[Nth(l, 3)], 1, MaxPort)
                      /\ l[Nth(l, 4)].text \in {"tcp", "http", "https"}
                      /\ l[Nth(l, 5)].text = "/path"
                      /\ l[Nth(l, 6)].text \in {"up", "down"}
           Secure(l) == Good(l) /\ l[Nth(l, 4)].text = "https"
           Up(l) == l[Nth(l, 6)].text = "up"
           K(k) == CountFor(X, EntryTable(X), k)
<1>1. /\ \A k \in DOMAIN s : s[k] \in X
      /\ Len(s) \in Nat /\ DOMAIN s = 1 .. Len(s)
  OBVIOUS
<1>2. ASSUME NEW l \in X
      PROVE  /\ Good(l) <=> l \in K("valid")
             /\ Good(l) <=> l \notin K("invalid")
             /\ Secure(l) <=> l \in K("secure")
             /\ Good(l) => (Up(l) <=> l \in K("up"))
  <2> DEFINE f == Fields(l)
  <2>1. /\ Cardinality(Filled(l)) = 6 <=> Len(f) = 6
        /\ Len(f) = 6 => \A k \in 1 .. 6 : f[k] = l[Nth(l, k)]
    BY FieldsOf DEF PiecesLine
  <2>2. Len(f) = 6 =>
          /\ f[1] = l[Nth(l, 1)] /\ f[2] = l[Nth(l, 2)] /\ f[3] = l[Nth(l, 3)]
          /\ f[4] = l[Nth(l, 4)] /\ f[5] = l[Nth(l, 5)] /\ f[6] = l[Nth(l, 6)]
    BY <2>1
  <2>3. Good(l) <=> ValidEntry(f)
    BY <2>1, <2>2 DEF ValidEntry
  <2>4. ValidEntry(f) => f[4] = l[Nth(l, 4)] /\ f[6] = l[Nth(l, 6)]
    BY <2>2 DEF ValidEntry
  <2>5. \A k : l \in K(k) <=> k \in EntryCounts(f)
    BY DEF CountFor, EntryTable
  <2> HIDE DEF f, K, Good
  <2>. QED
    BY <2>3, <2>4, <2>5, EntryCountsFor
<1>3. \A k \in EntryKeys : a[k] = Nr(s, K(k)) /\ a[k] \in Nat
  BY DEF EntryInv, Counters
<1>4. Count(s, Secure) = Nr(s, K("secure"))
  BY <1>1, <1>2 DEF Count, Nr, Where
<1>5. Nr(s, K("valid")) + Nr(s, K("invalid")) = Len(s)
  <2>1. \A m \in X : m \in K("valid") <=> m \notin K("invalid")
    BY <1>2
  <2> HIDE DEF K
  <2>. QED
    BY <2>1, NrSplit
<1>6. /\ a.valid = Nr(s, K("valid")) /\ a.invalid = Nr(s, K("invalid"))
      /\ a.up = Nr(s, K("up")) /\ a.secure = Nr(s, K("secure"))
      /\ a.invalid \in Nat
  BY <1>3 DEF EntryKeys
<1>7. a.invalid = 0 <=> \A k \in DOMAIN s : Good(s[k])
  <2>1. Nr(s, K("invalid")) = 0 <=> \A k \in DOMAIN s : s[k] \notin K("invalid")
    <3> HIDE DEF K
    <3>. QED
      BY NrFacts
  <2>. QED
    BY <1>1, <1>2, <1>6, <2>1
<1>8. (\A k \in DOMAIN s : Good(s[k])) => Count(s, Up) = Nr(s, K("up"))
  <2> SUFFICES ASSUME \A k \in DOMAIN s : Good(s[k]) PROVE Count(s, Up) = Nr(s, K("up"))
    OBVIOUS
  <2>1. \A k \in DOMAIN s : Up(s[k]) <=> s[k] \in K("up")
    BY <1>1, <1>2
  <2> HIDE DEF Up, K
  <2>. QED
    BY <2>1 DEF Count, Nr, Where
<1>9. (\A l \in ToSet(s) : Good(l)) <=> \A k \in DOMAIN s : Good(s[k])
  BY DEF ToSet
<1>10. a.valid = a.up + a.down
  BY DEF EntryInv
<1> HIDE DEF Good, K
<1>11. RegistryReady(a) <=> (\A l \in ToSet(s) : Good(l)) /\ Count(s, Up) >= 3
  <2>1. RegistryReady(a) <=> (\A k \in DOMAIN s : Good(s[k])) /\ a.up >= 3
    BY <1>7 DEF RegistryReady
  <2>. QED
    BY <1>6, <1>8, <1>9, <2>1
<1>12. a.valid + a.invalid = Len(s)
  BY <1>5, <1>6
<1>13. a.secure = Count(s, Secure)
  BY <1>4, <1>6
<1>. QED
  BY <1>10, <1>11, <1>12, <1>13 DEF EntryMatches, Good

\* The counters of the states, and those a line counts for.
ReduceKeys == {"total", "ok", "warn", "crit"}
ReduceCounts(l) ==
  IF l.name = "" THEN {} ELSE UNION {{"total", HealthCounter(w)} : w \in l.status \ {""}}
ReduceTable(X) == [m \in X |-> ReduceCounts(m)]
\* The counters of the states: the total is the sum of the three.
ReduceInv(X, s, a) ==
  Counters(ReduceKeys, X, ReduceTable(X), s, a) /\ a.total = a.ok + a.warn + a.crit

\* The words that are looked at.
SaidBy(l) == IF l.name = "" THEN {} ELSE l.status \ {""}

\* They are zero at first,
LEMMA ReduceStarts == \A X : ReduceInv(X, <<>>, ReduceStart)
<1>1. /\ ReduceStart \in [ReduceKeys -> Nat]
      /\ \A k \in ReduceKeys : ReduceStart[k] = 0
  BY ZeroFacts DEF ReduceStart, ReduceKeys
<1>2. ReduceStart.total = 0 /\ ReduceStart.ok = 0 /\ ReduceStart.warn = 0 /\ ReduceStart.crit = 0
  BY <1>1 DEF ReduceKeys
<1>3. ReduceStart.total = ReduceStart.ok + ReduceStart.warn + ReduceStart.crit
  BY <1>2
<1>. QED
  BY <1>3, CountersStart DEF ReduceInv, ReduceStart, ReduceKeys

\* What a line counts for.
LEMMA ReduceCountsFor ==
  ASSUME NEW l, HealthLine(l)
  PROVE  /\ "warn" \in ReduceCounts(l) <=> SaidBy(l) \cap {"warn", "Warn"} # {}
         /\ "crit" \in ReduceCounts(l) <=> SaidBy(l) \ {"ok", "OK", "warn", "Warn"} # {}
         /\ "total" \in ReduceCounts(l)
              <=> "ok" \in ReduceCounts(l) \/ "warn" \in ReduceCounts(l) \/ "crit" \in ReduceCounts(l)
         /\ ~("ok" \in ReduceCounts(l) /\ "warn" \in ReduceCounts(l))
         /\ ~("ok" \in ReduceCounts(l) /\ "crit" \in ReduceCounts(l))
         /\ ~("warn" \in ReduceCounts(l) /\ "crit" \in ReduceCounts(l))
<1> DEFINE S == ReduceCounts(l)
           V == SaidBy(l)
<1>1. \A v, w \in V : v = w
  BY DEF SaidBy, HealthLine, Parsed
<1>2. S = UNION {{"total", HealthCounter(w)} : w \in V}
  BY DEF ReduceCounts, SaidBy
<1> HIDE DEF S, V
<1>3. CASE V = {}
  <2>1. S = {}
    BY <1>2, <1>3
  <2>. QED
    BY <1>3, <2>1 DEF S, V
<1>4. CASE V # {}
  <2>1. PICK w : V = {w}
    BY <1>1, <1>4
  <2> DEFINE c == HealthCounter(w)
  <2>2. S = {"total", c}
    BY <1>2, <2>1
  <2>3. /\ c \in {"ok", "warn", "crit"}
        /\ c = "warn" <=> w \in {"warn", "Warn"}
        /\ c = "crit" <=> w \notin {"ok", "OK", "warn", "Warn"}
    BY DEF HealthCounter, LowerAscii
  <2> HIDE DEF c
  <2>4. /\ "total" \in S /\ ("ok" \in S <=> c = "ok") /\ ("warn" \in S <=> c = "warn")
        /\ ("crit" \in S <=> c = "crit")
    BY <2>2
  <2>5. /\ "warn" \in S <=> V \cap {"warn", "Warn"} # {}
        /\ "crit" \in S <=> V \ {"ok", "OK", "warn", "Warn"} # {}
    BY <2>1, <2>3, <2>4
  <2>. QED
    BY <2>3, <2>4, <2>5 DEF S, V
<1>. QED
  BY <1>3, <1>4

\* each line adds one to those it counts for,
LEMMA ReduceKeeps ==
  ASSUME NEW X, NEW s \in Seq(X), NEW l \in X, HealthLine(l), NEW a, ReduceInv(X, s, a)
  PROVE  ReduceInv(X, Append(s, l), ReduceStep(a, l))
<1> DEFINE b == ReduceStep(a, l)
           S == ReduceCounts(l)
<1>1. a \in [ReduceKeys -> Nat] /\ a.total = a.ok + a.warn + a.crit
  BY DEF ReduceInv, Counters
<1>2. b = Bump(a, S)
  <2>1. CASE l.name = ""
    BY <1>1, <2>1, BumpNothing DEF ReduceStep, ReduceCounts
  <2>2. CASE l.name # ""
    BY <2>2 DEF ReduceStep, ReduceCounts
  <2>. QED
    BY <2>1, <2>2
<1>3. ReduceTable(X)[l] = S
  BY DEF ReduceTable
<1>4. Counters(ReduceKeys, X, ReduceTable(X), Append(s, l), b)
  BY <1>2, <1>3, CountersKeep DEF ReduceInv
<1>5. /\ "total" \in S <=> "ok" \in S \/ "warn" \in S \/ "crit" \in S
      /\ ~("ok" \in S /\ "warn" \in S) /\ ~("ok" \in S /\ "crit" \in S)
      /\ ~("warn" \in S /\ "crit" \in S)
  BY ReduceCountsFor
<1>6. a.total \in Nat /\ a.ok \in Nat /\ a.warn \in Nat /\ a.crit \in Nat
  BY <1>1 DEF ReduceKeys
<1> HIDE DEF b, S
<1>7. \A k \in ReduceKeys : b[k] = a[k] + If01(k \in S)
  BY <1>1, <1>2, BumpFacts
<1> DEFINE t == If01("total" \in S)
           o == If01("ok" \in S)
           w == If01("warn" \in S)
           c == If01("crit" \in S)
<1>8. /\ b.total = a.total + t /\ b.ok = a.ok + o /\ b.warn = a.warn + w
      /\ b.crit = a.crit + c
  BY <1>7 DEF ReduceKeys
<1>9. t = o + w + c /\ o \in Nat /\ w \in Nat /\ c \in Nat
  <2>1. /\ "total" \in S => t = 1
        /\ "total" \notin S => t = 0
    BY DEF If01
  <2>2. /\ "ok" \in S => o = 1
        /\ "ok" \notin S => o = 0
    BY DEF If01
  <2>3. /\ "warn" \in S => w = 1
        /\ "warn" \notin S => w = 0
    BY DEF If01
  <2>4. /\ "crit" \in S => c = 1
        /\ "crit" \notin S => c = 0
    BY DEF If01
  <2> HIDE DEF t, o, w, c
  <2>5. CASE "ok" \in S
    BY <1>5, <2>1, <2>2, <2>3, <2>4, <2>5
  <2>6. CASE "warn" \in S
    BY <1>5, <2>1, <2>2, <2>3, <2>4, <2>6
  <2>7. CASE "crit" \in S
    BY <1>5, <2>1, <2>2, <2>3, <2>4, <2>7
  <2>8. CASE "ok" \notin S /\ "warn" \notin S /\ "crit" \notin S
    BY <1>5, <2>1, <2>2, <2>3, <2>4, <2>8
  <2>. QED
    BY <2>5, <2>6, <2>7, <2>8
<1>10. a.total = a.ok + a.warn + a.crit
  BY <1>1
<1> HIDE DEF t, o, w, c
<1>a. b.total = (a.ok + a.warn + a.crit) + (o + w + c)
  BY <1>8, <1>9, <1>10
<1> DEFINE p == a.ok
           q == a.warn
           r == a.crit
<1>b. p \in Nat /\ q \in Nat /\ r \in Nat /\ o \in Nat /\ w \in Nat /\ c \in Nat
  BY <1>6, <1>9
<1>c. (p + q + r) + (o + w + c) = (p + o) + (q + w) + (r + c)
  <2> HIDE DEF p, q, r
  <2>. QED
    BY <1>b
<1>11. b.total = b.ok + b.warn + b.crit
  BY <1>8, <1>a, <1>c
<1>. QED
  BY <1>4, <1>11 DEF ReduceInv, b

\* and the state of all is that of the worst line.
LEMMA ReduceTells ==
  ASSUME NEW X, NEW s \in Seq(X), \A m \in X : HealthLine(m), NEW a, ReduceInv(X, s, a)
  PROVE  ReduceMatches(s, a)
<1> DEFINE V == UNION {l.status \ {""} : l \in {m \in ToSet(s) : m.name # ""}}
           K(k) == CountFor(X, ReduceTable(X), k)
<1>1. \A k \in DOMAIN s : s[k] \in X
  OBVIOUS
<1>2. V = UNION {SaidBy(s[k]) : k \in DOMAIN s}
  BY DEF SaidBy, ToSet
<1>3. \A k, m : m \in K(k) <=> m \in X /\ k \in ReduceCounts(m)
  BY DEF CountFor, ReduceTable
<1>4. \A k \in ReduceKeys : a[k] \in Nat /\ a[k] = Nr(s, K(k))
  BY DEF ReduceInv, Counters
<1> HIDE DEF K, V
<1>5. \A k \in ReduceKeys : a[k] = 0 <=> \A i \in DOMAIN s : k \notin ReduceCounts(s[i])
  <2>1. \A k : Nr(s, K(k)) = 0 <=> \A i \in DOMAIN s : s[i] \notin K(k)
    BY NrFacts
  <2>. QED
    BY <1>1, <1>3, <1>4, <2>1
<1>6. a.warn \in Nat /\ a.crit \in Nat /\ a.total = a.ok + a.warn + a.crit
  BY <1>4 DEF ReduceKeys, ReduceInv
<1>7. a.warn = 0 <=> V \cap {"warn", "Warn"} = {}
  <2>1. a.warn = 0 <=> \A i \in DOMAIN s : "warn" \notin ReduceCounts(s[i])
    BY <1>5 DEF ReduceKeys
  <2>2. \A i \in DOMAIN s : "warn" \in ReduceCounts(s[i]) <=> SaidBy(s[i]) \cap {"warn", "Warn"} # {}
    BY <1>1, ReduceCountsFor
  <2>. QED
    BY <1>2, <2>1, <2>2
<1>8. a.crit = 0 <=> V \subseteq {"ok", "OK", "warn", "Warn"}
  <2>1. a.crit = 0 <=> \A i \in DOMAIN s : "crit" \notin ReduceCounts(s[i])
    BY <1>5 DEF ReduceKeys
  <2>2. \A i \in DOMAIN s : "crit" \in ReduceCounts(s[i])
          <=> SaidBy(s[i]) \ {"ok", "OK", "warn", "Warn"} # {}
    BY <1>1, ReduceCountsFor
  <2>. QED
    BY <1>2, <2>1, <2>2
<1>9. Ready(a) <=> V \subseteq {"ok", "OK"}
  BY <1>7, <1>8 DEF Ready
<1>10. /\ Worst(a) = "WARN" <=> a.crit = 0 /\ a.warn # 0
       /\ Worst(a) = "OK" <=> a.crit = 0 /\ a.warn = 0
  BY <1>6 DEF Worst
<1>11. Worst(a) = "WARN" <=> V \cap {"warn", "Warn"} # {} /\ V \subseteq {"ok", "OK", "warn", "Warn"}
  BY <1>7, <1>8, <1>10
<1>12. Worst(a) = "OK" <=> Ready(a)
  BY <1>10 DEF Ready
<1>. QED
  BY <1>6, <1>9, <1>11, <1>12 DEF ReduceMatches, V

-----------------------------------------------------------------------------
\* Numbers that differ by a multiple of m have the same remainder.
LEMMA Congruent ==
  ASSUME NEW m \in Nat, m > 0, NEW v \in Int, NEW p \in 0 .. m - 1
  PROVE  (v - p) % m = 0 <=> v % m = p
OBVIOUS

-----------------------------------------------------------------------------
(* Block 12: the policy, whose last lines decide.                           *)

\* The keys of the policy, and the values the lines of a key give.
PolicyKeys == DOMAIN PolicyRange
PolicyLines(X, k) == {m \in X : m.key = k /\ m.val # {}}
PolicyValues(L) == {ToInt(v, IntBits) : v \in UNION {m.val : m \in L}}
\* The policy has, of each key, what its last line says, cut to an int.
PolicyInv(X, s, a) == a = [k \in PolicyKeys |-> PolicyValues(Latest(s, PolicyLines(X, k)))]

\* It has nothing at first,
LEMMA PolicyStarts == \A X : PolicyInv(X, <<>>, PolicyStart)
BY LatestStart DEF PolicyInv, PolicyStart, PolicyKeys, PolicyValues

\* a line replaces what its own key had and nothing else,
LEMMA PolicyKeeps ==
  ASSUME NEW X, NEW s \in Seq(X), NEW l \in X, NEW a, PolicyInv(X, s, a)
  PROVE  PolicyInv(X, Append(s, l), PolicyStep(a, l))
<1> DEFINE V(k) == PolicyValues(Latest(s, PolicyLines(X, k)))
           W(k) == PolicyValues(Latest(Append(s, l), PolicyLines(X, k)))
           b == PolicyStep(a, l)
           new == {ToInt(v, IntBits) : v \in l.val}
<1>1. a = [k \in PolicyKeys |-> V(k)]
  BY DEF PolicyInv
<1>2. \A k : W(k) = IF l.key = k /\ l.val # {} THEN new ELSE V(k)
  <2> TAKE k
  <2>1. l \in PolicyLines(X, k) <=> l.key = k /\ l.val # {}
    BY DEF PolicyLines
  <2>2. Latest(Append(s, l), PolicyLines(X, k))
          = IF l \in PolicyLines(X, k) THEN {l} ELSE Latest(s, PolicyLines(X, k))
    BY LatestStep
  <2>3. UNION {m.val : m \in {l}} = l.val
    OBVIOUS
  <2>. QED
    BY <2>1, <2>2, <2>3 DEF PolicyValues
<1> HIDE DEF V, W, new
<1>3. CASE l.key \notin PolicyKeys \/ l.val = {}
  <2>1. b = a
    BY <1>3 DEF PolicyStep, PolicyKeys
  <2>2. \A k \in PolicyKeys : W(k) = V(k)
    BY <1>2, <1>3
  <2>3. b = [k \in PolicyKeys |-> W(k)]
    BY <1>1, <2>1, <2>2
  <2>. QED
    BY <2>3 DEF PolicyInv, W
<1>4. CASE l.key \in PolicyKeys /\ l.val # {}
  <2>1. b = [a EXCEPT ![l.key] = new]
    BY <1>4 DEF PolicyStep, PolicyKeys, new
  <2>2. \A k \in PolicyKeys : W(k) = IF k = l.key THEN new ELSE a[k]
    BY <1>1, <1>2, <1>4
  <2>3. DOMAIN a = PolicyKeys
    BY <1>1
  <2> HIDE DEF b
  <2>4. b = [k \in PolicyKeys |-> IF k = l.key THEN new ELSE a[k]]
    BY <2>1, <2>3
  <2>5. b = [k \in PolicyKeys |-> W(k)]
    BY <2>2, <2>4
  <2>. QED
    BY <2>5 DEF PolicyInv, W, b
<1>. QED
  BY <1>3, <1>4

\* The limits of the policy are numbers an int can hold, and none is negative.
LEMMA PolicyRanges ==
  /\ \A k \in PolicyKeys : PolicyRange[k] \subseteq 1 .. 120
  /\ IsFiniteSet(PolicyKeys)
<1>1. PolicyKeys = {"tls_required", "mtls_internal", "secrets_rotation_days",
                    "audit_logs", "backup_enabled", "health_interval_sec"}
  BY DEF PolicyKeys, PolicyRange
<1>2. ASSUME NEW k \in PolicyKeys PROVE PolicyRange[k] \in {1 .. 1, 1 .. 90, 5 .. 120}
  BY <1>1 DEF PolicyRange
<1>3. 1 .. 1 \subseteq 1 .. 120 /\ 1 .. 90 \subseteq 1 .. 120 /\ 5 .. 120 \subseteq 1 .. 120
  OBVIOUS
<1>4. \A k \in PolicyKeys : PolicyRange[k] \subseteq 1 .. 120
  BY <1>2, <1>3
<1> DEFINE A == {"tls_required"}
           B == A \union {"mtls_internal"}
           C == B \union {"secrets_rotation_days"}
           D == C \union {"audit_logs"}
           E == D \union {"backup_enabled"}
           F == E \union {"health_interval_sec"}
<1>5. IsFiniteSet(A)
  BY FS_Singleton
<1>6. F = PolicyKeys
  BY <1>1
<1> HIDE DEF A
<1>7. IsFiniteSet(B)
  BY <1>5, FS_AddElement
<1> HIDE DEF B
<1>8. IsFiniteSet(C)
  BY <1>7, FS_AddElement
<1> HIDE DEF C
<1>9. IsFiniteSet(D)
  BY <1>8, FS_AddElement
<1> HIDE DEF D
<1>10. IsFiniteSet(E)
  BY <1>9, FS_AddElement
<1> HIDE DEF E
<1>11. IsFiniteSet(F)
  BY <1>10, FS_AddElement
<1>. QED
  BY <1>4, <1>6, <1>11

\* What is left of a number in an int is in a range iff the number is, up to multiples of
\* the int's width.
LEMMA CutTells ==
  ASSUME NEW v \in Int, NEW R \in SUBSET (1 .. 120)
  PROVE  ToInt(v, IntBits) \in R <=> \E p \in R : (v - p) % 2^IntBits = 0
<1> DEFINE m == 2^IntBits
           h == 2^(IntBits - 1)
           r == v % m
<1>1. m \in Nat /\ h \in Nat /\ m = 2 * h /\ h > 120
  BY CloudAssumption
<1>2. ToInt(v, IntBits) = IF r >= h THEN r - m ELSE r
  BY DEF ToInt
<1> HIDE DEF m, h
<1>3. r \in 0 .. m - 1 /\ m > 0
  BY <1>1
<1>4. \A p \in R : p \in 0 .. m - 1
  BY <1>1
<1>5. \A p \in R : (v - p) % m = 0 <=> r = p
  BY <1>1, <1>3, <1>4, Congruent
<1> HIDE DEF r
<1>6. ToInt(v, IntBits) \in R <=> r \in R
  <2>1. CASE r >= h
    <3>1. r - m < 0 /\ r > 120
      BY <1>1, <1>3, <2>1
    <3>2. ToInt(v, IntBits) = r - m
      BY <1>2, <2>1
    <3>3. \A x \in R : x >= 1 /\ x <= 120
      OBVIOUS
    <3>4. r \in Int /\ m \in Int
      BY <1>1, <1>3
    <3>5. r \notin R
      BY <3>1, <3>3, <3>4
    <3>6. r - m \notin R
      BY <3>1, <3>3, <3>4
    <3>. QED
      BY <3>2, <3>5, <3>6
  <2>2. CASE ~(r >= h)
    BY <1>2, <2>2
  <2>. QED
    BY <2>1, <2>2
<1>7. (\E p \in R : (v - p) % m = 0) <=> r \in R
  BY <1>5
<1>. QED
  BY <1>6, <1>7 DEF m

\* and the policy is good by the last lines alone.
LEMMA PolicyTells ==
  ASSUME NEW X, NEW s \in Seq(X), \A m \in X : PolicyLine(m), NEW a, PolicyInv(X, s, a)
  PROVE  PolicyMatches(s, a)
<1> DEFINE L(k) == Latest(s, PolicyLines(X, k))
           P(k) == \E l \in L(k) : \E v \in l.val, p \in PolicyRange[k] : (v - p) % 2^IntBits = 0
           T == {k \in PolicyKeys : ~P(k)}
<1>1. \A k \in DOMAIN s : s[k] \in X
  OBVIOUS
<1>2. \A k : LastOf(s, LAMBDA m : m.key = k /\ m.val # {}) = L(k)
  <2> TAKE k
  <2>1. \A i \in DOMAIN s : s[i] \in PolicyLines(X, k) <=> s[i].key = k /\ s[i].val # {}
    BY <1>1 DEF PolicyLines
  <2>2. \A i \in DOMAIN s : \A j \in i + 1 .. Len(s) : j \in DOMAIN s
    OBVIOUS
  <2>3. \A i \in DOMAIN s : LastAt(s, PolicyLines(X, k), i)
          <=> \A j \in i + 1 .. Len(s) : ~(s[j].key = k /\ s[j].val # {})
    BY <2>1, <2>2 DEF LastAt
  <2>. QED
    BY <2>1, <2>3 DEF LastOf, Latest, Where
<1>3. ASSUME NEW k \in PolicyKeys PROVE a[k] \cap PolicyRange[k] = {} <=> ~P(k)
  <2> DEFINE R == PolicyRange[k]
             N == UNION {m.val : m \in L(k)}
  <2>1. R \in SUBSET (1 .. 120)
    BY PolicyRanges
  <2>2. N \in SUBSET Int
    <3>1. L(k) \subseteq X
      <4>1. \A m \in L(k) : m \in PolicyLines(X, k)
        BY LatestIs
      <4>. QED
        BY <4>1 DEF PolicyLines
    <3>2. \A m \in X : m.val \in SUBSET Int
      BY DEF PolicyLine, Parsed
    <3> HIDE DEF L
    <3>. QED
      BY <3>1, <3>2
  <2>3. a[k] = {ToInt(v, IntBits) : v \in N}
    BY DEF PolicyInv, PolicyValues
  <2>4. P(k) <=> \E v \in N : \E p \in R : (v - p) % 2^IntBits = 0
    <3> HIDE DEF L
    <3>. QED
      OBVIOUS
  <2> HIDE DEF R, N, P
  <2>5. P(k) <=> \E v \in N : ToInt(v, IntBits) \in R
    <3>1. \A v \in N : ToInt(v, IntBits) \in R <=> \E p \in R : (v - p) % 2^IntBits = 0
      BY <2>1, <2>2, CutTells
    <3>. QED
      BY <2>4, <3>1
  <2>6. a[k] \cap R = {} <=> ~P(k)
    BY <2>3, <2>5
  <2>. QED
    BY <2>6 DEF R
<1>4. DOMAIN a = PolicyKeys
  BY DEF PolicyInv
<1> HIDE DEF P, L
<1>5. {k \in DOMAIN a : a[k] \cap PolicyRange[k] = {}} = T
  BY <1>3, <1>4
<1>6. PolicyFail(a) = Cardinality(T)
  BY <1>5 DEF PolicyFail
<1>7. IsFiniteSet(T) /\ Cardinality(T) \in Nat /\ (Cardinality(T) = 0 <=> T = {})
  <2>1. IsFiniteSet(T)
    BY PolicyRanges, FS_Subset
  <2> HIDE DEF T
  <2>. QED
    BY <2>1, FS_CardinalityType, FS_EmptySet
<1> HIDE DEF T
<1>8. /\ PolicyStatus(a) = "OK" <=> T = {}
      /\ PolicyStatus(a) = "CRIT" <=> Cardinality(T) >= 3
  <2> DEFINE n == PolicyFail(a)
  <2>1. n \in Nat /\ n = Cardinality(T)
    BY <1>6, <1>7
  <2> HIDE DEF n
  <2>2. /\ PolicyStatus(a) = "CRIT" <=> n >= 3
        /\ PolicyStatus(a) = "OK" <=> n = 0
    BY <2>1 DEF PolicyStatus, n
  <2>. QED
    BY <1>7, <2>1, <2>2
<1>9. T = {k \in DOMAIN PolicyRange : ~\E l \in LastOf(s, LAMBDA m : m.key = k /\ m.val # {}) :
                     \E v \in l.val, p \in PolicyRange[k] : (v - p) % 2^IntBits = 0}
  BY <1>2 DEF T, P, PolicyKeys
<1>. QED
  BY <1>8, <1>9 DEF PolicyMatches

-----------------------------------------------------------------------------
(* Block 12: the plan of the gateway.                                       *)

\* A line without a place in a table.
UnplacedKind == "unplaced"
Unplaced == [kind |-> UnplacedKind]
KindRows(X, K) == {m \in X : m.kind = K}

\* The i-th line and those before it that are of the kind K.
KindUpTo(s, i, K) == Cardinality({j \in 1 .. i : s[j].kind = K})

\* A file without the lines that are not of the kind K or find the table of it full.
HasPlace(s, i, K, most) == s[i].kind = K /\ KindUpTo(s, i, K) <= most
\* The file with those lines left out that have no place.
Seated(s, K, most) == [i \in 1 .. Len(s) |-> IF HasPlace(s, i, K, most) THEN s[i] ELSE Unplaced]

\* What is left of a line more.
Seat(X, s, K, most, l) ==
  IF l.kind = K /\ Nr(s, KindRows(X, K)) < most THEN l ELSE Unplaced

\* The table T has the first lines of kind K, at most as many as there is room for.
TableInv(X, s, K, most, T) ==
  /\ Picked(Seated(s, K, most), KindRows(X, K), T)
  /\ Len(T) = IF Nr(s, KindRows(X, K)) <= most THEN Nr(s, KindRows(X, K)) ELSE most

\* The table is empty at first,
LEMMA TableStarts ==
  ASSUME NEW X, NEW K, NEW most \in Nat
  PROVE  TableInv(X, <<>>, K, most, <<>>)
<1>1. Seated(<<>>, K, most) = <<>>
  BY DEF Seated
<1>. QED
  BY <1>1, PickedStarts, NrStart DEF TableInv

\* A file of those lines, and one line more.
LEMMA SeatedStep ==
  ASSUME NEW X, NEW s \in Seq(X), NEW l \in X, NEW K, NEW most \in Nat
  PROVE  /\ Seated(s, K, most) \in Seq(X \union {Unplaced})
         /\ Seated(Append(s, l), K, most) = Append(Seated(s, K, most), Seat(X, s, K, most, l))
<1> DEFINE t == Append(s, l)
           n == Len(s)
           Q == KindRows(X, K)
           Y == X \union {Unplaced}
           v == Seated(s, K, most)
           x == IF l.kind = K /\ Nr(s, Q) < most THEN l ELSE Unplaced
           w == Seated(t, K, most)
<1>1. /\ n \in Nat /\ DOMAIN s = 1 .. n /\ Len(t) = n + 1 /\ t[n + 1] = l
      /\ \A i \in 1 .. n : s[i] \in X /\ t[i] = s[i]
  BY AppendFacts
<1>2. v \in Seq(Y) /\ Len(v) = n
  <2>1. v \in [1 .. n -> Y]
    <3>1. \A i \in 1 .. n : (IF HasPlace(s, i, K, most) THEN s[i] ELSE Unplaced) \in Y
      BY <1>1
    <3>2. v = [i \in 1 .. n |-> IF HasPlace(s, i, K, most) THEN s[i] ELSE Unplaced]
      BY DEF Seated
    <3> HIDE DEF v, Y, n
    <3>. QED
      BY <3>1, <3>2
  <2> HIDE DEF v, Y, n
  <2>. QED
    BY <1>1, <2>1
<1>3. \A i \in 1 .. n : KindUpTo(t, i, K) = KindUpTo(s, i, K)
  <2> SUFFICES ASSUME NEW i \in 1 .. n PROVE KindUpTo(t, i, K) = KindUpTo(s, i, K)
    OBVIOUS
  <2>1. \A j \in 1 .. i : j \in 1 .. n
    BY <1>1
  <2>2. {j \in 1 .. i : t[j].kind = K} = {j \in 1 .. i : s[j].kind = K}
    BY <1>1, <2>1
  <2>. QED
    BY <2>2 DEF KindUpTo
<1>4. KindUpTo(t, n + 1, K) = Nr(s, Q) + If01(l.kind = K)
  <2>1. KindUpTo(t, n + 1, K) = Nr(t, Q)
    <3>1. {j \in 1 .. n + 1 : t[j].kind = K} = Where(t, Q)
      <4>1. \A j \in 1 .. n + 1 : t[j] \in X
        BY <1>1
      <4>. QED
        BY <1>1, <4>1 DEF Where, KindRows
    <3>. QED
      BY <3>1 DEF KindUpTo, Nr
  <2>2. l \in Q <=> l.kind = K
    BY DEF KindRows
  <2> HIDE DEF Q
  <2>3. Nr(t, Q) = Nr(s, Q) + If01(l \in Q)
    BY NrStep
  <2>. QED
    BY <2>1, <2>2, <2>3 DEF If01
<1>5. Nr(s, Q) \in Nat
  BY NrFacts
<1> HIDE DEF Q, Y, t, n
<1>6. HasPlace(t, n + 1, K, most) <=> l.kind = K /\ Nr(s, Q) < most
  BY <1>1, <1>4, <1>5 DEF HasPlace, If01
<1>7. \A i \in 1 .. n : HasPlace(t, i, K, most) <=> HasPlace(s, i, K, most)
  BY <1>1, <1>3 DEF HasPlace
<1>8. x \in Y
  BY DEF Y
<1>9. \A i \in 1 .. n : v[i] = IF HasPlace(s, i, K, most) THEN s[i] ELSE Unplaced
  BY DEF Seated, n
<1>10. w = [i \in 1 .. n + 1 |-> IF HasPlace(t, i, K, most) THEN t[i] ELSE Unplaced]
  BY <1>1 DEF Seated
<1> HIDE DEF v, x, w
<1>11. w = Append(v, x)
  <2> DEFINE u == Append(v, x)
  <2>0. /\ u \in Seq(Y) /\ Len(u) = Len(v) + 1 /\ u[Len(v) + 1] = x
        /\ \A i \in 1 .. Len(v) : u[i] = v[i]
    BY <1>2, <1>8
  <2>1. u \in [1 .. n + 1 -> Y] /\ u[n + 1] = x /\ \A i \in 1 .. n : u[i] = v[i]
    <3> HIDE DEF u
    <3>1. u \in [1 .. Len(u) -> Y]
      BY <2>0
    <3>. QED
      BY <1>2, <2>0, <3>1
  <2>2. \A i \in 1 .. n + 1 : i \in 1 .. n \/ i = n + 1
    BY <1>1
  <2>3. w[n + 1] = x
    <3>1. n + 1 \in 1 .. n + 1
      BY <1>1
    <3>. QED
      BY <1>1, <1>6, <1>10, <3>1 DEF x
  <2>4. \A i \in 1 .. n : w[i] = v[i]
    <3>1. \A i \in 1 .. n : i \in 1 .. n + 1
      BY <1>1
    <3>. QED
      BY <1>1, <1>7, <1>9, <1>10, <3>1
  <2> HIDE DEF u
  <2>5. \A i \in 1 .. n + 1 : w[i] = u[i]
    BY <2>1, <2>2, <2>3, <2>4
  <2>6. DOMAIN w = 1 .. n + 1 /\ DOMAIN u = 1 .. n + 1
    BY <1>10, <2>1
  <2>7. w = [i \in 1 .. n + 1 |-> w[i]] /\ u = [i \in 1 .. n + 1 |-> u[i]]
    BY <1>10, <2>1
  <2>8. w = u
    BY <2>5, <2>7
  <2>. QED
    BY <2>8 DEF u
<1>. QED
  BY <1>2, <1>11 DEF v, w, x, Y, Q, t, Seat

\* A line more, and a table that takes what is of its kind while it has room.
LEMMA TableKeeps ==
  ASSUME NEW X, NEW s \in Seq(X), NEW l \in X, NEW K, K # UnplacedKind, NEW most \in Nat,
         NEW T, TableInv(X, s, K, most, T)
  PROVE  TableInv(X, Append(s, l), K, most,
                  IF l.kind = K /\ Len(T) < most THEN Append(T, l) ELSE T)
<1> DEFINE t == Append(s, l)
           Q == KindRows(X, K)
           Y == X \union {Unplaced}
           v == Seated(s, K, most)
           x == IF l.kind = K /\ Nr(s, Q) < most THEN l ELSE Unplaced
           w == Seated(t, K, most)
           U == IF l.kind = K /\ Len(T) < most THEN Append(T, l) ELSE T
<1>0. Seat(X, s, K, most, l) = x
  BY DEF Seat
<1>1. v \in Seq(Y) /\ w = Append(v, x)
  <2> HIDE DEF x, Q
  <2>. QED
    BY <1>0, SeatedStep
<1>2. Picked(v, Q, T) /\ Len(T) = IF Nr(s, Q) <= most THEN Nr(s, Q) ELSE most
  BY DEF TableInv
<1>3. Nr(t, Q) = Nr(s, Q) + If01(l \in Q) /\ Nr(s, Q) \in Nat
  BY NrStep
<1>4. (l \in Q <=> l.kind = K) /\ Unplaced \notin Q
  BY DEF KindRows, Unplaced
<1>5. x \in Y
  OBVIOUS
<1>6. T \in Seq(Q)
  BY <1>2 DEF Picked
<1> HIDE DEF t, Q, Y, v, w
<1>7. Len(T) < most <=> Nr(s, Q) < most
  BY <1>2, <1>3
<1>8. CASE l.kind = K /\ Nr(s, Q) < most
  <2>1. x = l /\ U = Append(T, l) /\ l \in Q
    BY <1>4, <1>7, <1>8
  <2>2. Picked(w, Q, U)
    BY <1>1, <1>2, <1>5, <2>1, PickedKeeps
  <2>3. Len(U) = Len(T) + 1
    BY <1>6, <2>1
  <2>4. Nr(t, Q) = Nr(s, Q) + 1
    BY <1>3, <2>1 DEF If01
  <2>5. Len(U) = IF Nr(t, Q) <= most THEN Nr(t, Q) ELSE most
    BY <1>2, <1>3, <1>8, <2>3, <2>4
  <2>. QED
    BY <2>2, <2>5 DEF TableInv, t, Q, w
<1>9. CASE ~(l.kind = K /\ Nr(s, Q) < most)
  <2>1. x = Unplaced /\ U = T
    BY <1>7, <1>9
  <2>2. Picked(w, Q, U)
    BY <1>1, <1>2, <1>4, <1>5, <2>1, PickedKeeps
  <2>3. Len(T) = IF Nr(t, Q) <= most THEN Nr(t, Q) ELSE most
    BY <1>2, <1>3, <1>4, <1>9 DEF If01
  <2>. QED
    BY <2>1, <2>2, <2>3 DEF TableInv, t, Q, w
<1>. QED
  BY <1>8, <1>9

\* The two tables of the plan.
PlanInv(X, s, a) ==
  /\ a = ProxyTables(a.backends, a.routes)
  /\ TableInv(X, s, BackendKind, MaxBackends, a.backends)
  /\ TableInv(X, s, RouteKind, MaxRoutes, a.routes)

\* They are empty at first,
LEMMA PlanStarts == \A X : PlanInv(X, <<>>, PlanStart)
<1>1. PlanStart = ProxyTables(<<>>, <<>>)
  BY DEF PlanStart, ProxyStart, ProxyTables
<1>2. PlanStart.backends = <<>> /\ PlanStart.routes = <<>>
  BY <1>1, ProxyTablesFacts
<1>3. MaxBackends \in Nat /\ MaxRoutes \in Nat
  BY NetAssumption
<1>. QED
  BY <1>1, <1>2, <1>3, TableStarts DEF PlanInv

\* and take each line of their kind while there is room.
LEMMA PlanKeeps ==
  ASSUME NEW X, NEW s \in Seq(X), NEW l \in X, NEW a, PlanInv(X, s, a)
  PROVE  PlanInv(X, Append(s, l), PlanStep(a, l))
<1> DEFINE b == PlanStep(a, l)
           B == a.backends
           R == a.routes
           C == IF l.kind = BackendKind /\ Len(B) < MaxBackends THEN Append(B, l) ELSE B
           S == IF l.kind = RouteKind /\ Len(R) < MaxRoutes THEN Append(R, l) ELSE R
           t == Append(s, l)
<1>1. /\ a = ProxyTables(B, R) /\ TableInv(X, s, BackendKind, MaxBackends, B)
      /\ TableInv(X, s, RouteKind, MaxRoutes, R)
  BY DEF PlanInv
<1>2. MaxBackends \in Nat /\ MaxRoutes \in Nat
  BY NetAssumption
<1>3. BackendKind # UnplacedKind /\ RouteKind # UnplacedKind
  BY DEF BackendKind, RouteKind, UnplacedKind
<1>4. TableInv(X, t, BackendKind, MaxBackends, C)
  BY <1>1, <1>2, <1>3, TableKeeps
<1>5. TableInv(X, t, RouteKind, MaxRoutes, S)
  BY <1>1, <1>2, <1>3, TableKeeps
<1>6. b = CASE l.kind = BackendKind /\ Len(B) < MaxBackends ->
                 [a EXCEPT !.backends = Append(@, l)]
            [] l.kind = RouteKind /\ Len(R) < MaxRoutes        ->
                 [a EXCEPT !.routes = Append(@, l)]
            [] OTHER -> a
  BY DEF PlanStep, BackendKind, RouteKind
<1>7. [a EXCEPT !.backends = Append(@, l)] = ProxyTables(Append(B, l), R)
  <2> DEFINE D == Append(B, l)
  <2>1. [ProxyTables(B, R) EXCEPT !.backends = D] = ProxyTables(D, R)
    <3> HIDE DEF D, B, R
    <3>. QED
      BY ProxyTablesFacts
  <2>2. [a EXCEPT !.backends = D] = ProxyTables(D, R)
    <3> HIDE DEF D, B, R
    <3>. QED
      BY <1>1, <2>1
  <2>. QED
    BY <2>2
<1>8. [a EXCEPT !.routes = Append(@, l)] = ProxyTables(B, Append(R, l))
  <2> DEFINE D == Append(R, l)
  <2>1. [ProxyTables(B, R) EXCEPT !.routes = D] = ProxyTables(B, D)
    <3> HIDE DEF D, B, R
    <3>. QED
      BY ProxyTablesFacts
  <2>2. [a EXCEPT !.routes = D] = ProxyTables(B, D)
    <3> HIDE DEF D, B, R
    <3>. QED
      BY <1>1, <2>1
  <2>. QED
    BY <2>2
<1> HIDE DEF b, B, R
<1>9. b = ProxyTables(C, S)
  <2>1. CASE l.kind = BackendKind /\ Len(B) < MaxBackends
    <3>1. l.kind # RouteKind
      BY <2>1, KindsDiffer
    <3>. QED
      BY <1>6, <1>7, <2>1, <3>1
  <2>2. CASE l.kind = RouteKind /\ Len(R) < MaxRoutes
    <3>1. l.kind # BackendKind
      BY <2>2, KindsDiffer
    <3>. QED
      BY <1>6, <1>8, <2>2, <3>1
  <2>3. CASE ~(l.kind = BackendKind /\ Len(B) < MaxBackends) /\ ~(l.kind = RouteKind /\ Len(R) < MaxRoutes)
    BY <1>1, <1>6, <2>3
  <2>. QED
    BY <2>1, <2>2, <2>3
<1>10. b.backends = C /\ b.routes = S
  <2> HIDE DEF C, S
  <2>. QED
    BY <1>9, ProxyTablesFacts
<1> HIDE DEF C, S
<1>. QED
  BY <1>4, <1>5, <1>9, <1>10 DEF PlanInv, b, t

\* A route is found unless none fits.
LEMMA RouteMissing ==
  ASSUME NEW X, NEW s \in Seq(X), \A m \in RouteRows(X) : m.len \in Nat,
         NEW q, Picked(s, RouteRows(X), q)
  PROVE  MatchRoute(q) = {} <=> \A i \in DOMAIN s : ~FitsAt(s, i)
<1> DEFINE Q == RouteRows(X)
           c == Len(q)
<1>1. PICK f \in [1 .. c -> Nat] : PlacedAt(s, Q, q, f)
  BY DEF Picked
<1>2. /\ \A k \in 1 .. c : f[k] \in Where(s, Q) /\ q[k] = s[f[k]]
      /\ \A i \in Where(s, Q) : \E k \in 1 .. c : f[k] = i
  BY <1>1 DEF PlacedAt
<1>3. c \in Nat /\ q \in Seq(Q)
  BY DEF Picked, RouteRows
<1>4. /\ \A i \in DOMAIN s : i \in Where(s, Q) <=> s[i].kind = RouteKind
      /\ Where(s, Q) \subseteq DOMAIN s
  BY DEF Where, RouteRows
<1>5. Found(q, c, MatchRoute(q))
  BY <1>3, MatchRouteFinds
<1> HIDE DEF Q, c
<1>6. (\A i \in DOMAIN s : ~FitsAt(s, i)) <=> \A k \in 1 .. c : ~(q[k].len > 0)
  BY <1>2, <1>4 DEF FitsAt
<1>7. MatchRoute(q) = {} <=> \A k \in 1 .. c : ~(q[k].len > 0)
  BY <1>5 DEF Found, BestOf
<1>. QED
  BY <1>6, <1>7

\* The line i found place in the table of its kind.
Seats(s, i, K, most) == i \in DOMAIN s /\ HasPlace(s, i, K, most)

\* The line d is the route that decides, of those in the table.
RouteAt(s, d) ==
  /\ Seats(s, d, RouteKind, MaxRoutes) /\ s[d].len > 0
  /\ \A j \in DOMAIN s : Seats(s, j, RouteKind, MaxRoutes) /\ s[j].len > 0
       => s[j].len < s[d].len \/ (s[j].len = s[d].len /\ d <= j)

\* The line j is the backend of the name n, of those in the table.
BackendAt(s, n, j) ==
  /\ Seats(s, j, BackendKind, MaxBackends) /\ s[j].name = n
  /\ \A k \in 1 .. j - 1 : Seats(s, k, BackendKind, MaxBackends) => s[k].name # n

\* What the tables of a give is what the lines of s that found place say.
TablesSay(s, a) ==
  /\ MatchRoute(a.routes) = {s[i] : i \in {i \in DOMAIN s : RouteAt(s, i)}}
  /\ MatchRoute(a.routes) = {}
       <=> \A i \in DOMAIN s : ~(Seats(s, i, RouteKind, MaxRoutes) /\ s[i].len > 0)
  /\ \A n, b : b \in FindBackend(a.backends, n)
                <=> \E j \in DOMAIN s : BackendAt(s, n, j) /\ b = s[j]

\* What the tables give.
LEMMA PlanFinds ==
  ASSUME NEW X, NEW s \in Seq(X), \A m \in X : ProxyLine(m), NEW a, PlanInv(X, s, a)
  PROVE  TablesSay(s, a)
<1> DEFINE v == Seated(s, BackendKind, MaxBackends)
           w == Seated(s, RouteKind, MaxRoutes)
           Y == X \union {Unplaced}
           B == a.backends
           R == a.routes
           D == DOMAIN s
<1>1. Picked(v, KindRows(X, BackendKind), B) /\ Picked(w, KindRows(X, RouteKind), R)
  BY DEF PlanInv, TableInv
<1>2. KindRows(X, BackendKind) = BackendRows(Y) /\ KindRows(X, RouteKind) = RouteRows(Y)
  <2>1. Unplaced.kind # BackendKind /\ Unplaced.kind # RouteKind
    BY DEF Unplaced, UnplacedKind, BackendKind, RouteKind
  <2>. QED
    BY <2>1 DEF KindRows, BackendRows, RouteRows
<1>3. v \in Seq(Y) /\ w \in Seq(Y)
  <2>1. ASSUME NEW K, NEW most PROVE Seated(s, K, most) \in Seq(Y)
    <3>1. Len(s) \in Nat /\ \A i \in 1 .. Len(s) : s[i] \in X
      OBVIOUS
    <3>2. \A i \in 1 .. Len(s) : (IF HasPlace(s, i, K, most) THEN s[i] ELSE Unplaced) \in Y
      BY <3>1
    <3> HIDE DEF Y
    <3>3. Seated(s, K, most) \in [1 .. Len(s) -> Y]
      BY <3>2 DEF Seated
    <3>. QED
      BY <3>1, <3>3
  <2>. QED
    BY <2>1
<1>4. \A m \in RouteRows(Y) : m.len \in Nat
  BY <1>2 DEF KindRows, RouteKind, ProxyLine
<1>5. D = 1 .. Len(s) /\ Len(s) \in Nat
  OBVIOUS
<1>6. /\ DOMAIN v = D
      /\ \A i \in D : v[i] = IF Seats(s, i, BackendKind, MaxBackends) THEN s[i] ELSE Unplaced
  BY <1>5 DEF Seated, Seats
<1>7. /\ DOMAIN w = D
      /\ \A i \in D : w[i] = IF Seats(s, i, RouteKind, MaxRoutes) THEN s[i] ELSE Unplaced
  BY <1>5 DEF Seated, Seats
<1>8. Unplaced.kind # BackendKind /\ Unplaced.kind # RouteKind
  BY DEF Unplaced, UnplacedKind, BackendKind, RouteKind
<1>9. /\ \A i, K, most : Seats(s, i, K, most) => s[i].kind = K
  BY DEF Seats, HasPlace
<1> HIDE DEF v, w, Y, B, R, D
<1>10. \A i \in D : FitsAt(w, i) <=> Seats(s, i, RouteKind, MaxRoutes) /\ s[i].len > 0
  BY <1>7, <1>8, <1>9 DEF FitsAt
<1>11. \A i \in D : FitsAt(w, i) => w[i] = s[i]
  BY <1>7, <1>8 DEF FitsAt
<1>12. \A i \in D : Decides(w, i) <=> RouteAt(s, i)
  <2> TAKE i \in D
  <2>1. Decides(w, i) => RouteAt(s, i)
    BY <1>7, <1>10, <1>11 DEF Decides, RouteAt, D
  <2>2. RouteAt(s, i) => Decides(w, i)
    BY <1>7, <1>10, <1>11 DEF Decides, RouteAt, D
  <2>. QED
    BY <2>1, <2>2
<1>13. MatchRoute(R) = {s[i] : i \in {i \in D : RouteAt(s, i)}}
  <2>1. MatchRoute(R) = {w[i] : i \in {i \in DOMAIN w : Decides(w, i)}}
    BY <1>1, <1>2, <1>3, <1>4, RouteFound
  <2>2. \A i \in D : RouteAt(s, i) => w[i] = s[i]
    BY <1>11, <1>12 DEF Decides
  <2>3. {w[i] : i \in {i \in DOMAIN w : Decides(w, i)}} = {s[i] : i \in {i \in D : RouteAt(s, i)}}
    BY <1>7, <1>12, <2>2
  <2>. QED
    BY <2>1, <2>3
<1>14. MatchRoute(R) = {} <=> \A i \in D : ~(Seats(s, i, RouteKind, MaxRoutes) /\ s[i].len > 0)
  <2>1. MatchRoute(R) = {} <=> \A i \in DOMAIN w : ~FitsAt(w, i)
    BY <1>1, <1>2, <1>3, <1>4, RouteMissing
  <2>. QED
    BY <1>7, <1>10, <2>1
<1>15. ASSUME NEW n PROVE FindBackend(B, n) = {s[j] : j \in {j \in D : BackendAt(s, n, j)}}
  <2>1. FindBackend(B, n) = {v[j] : j \in {j \in DOMAIN v : NamedAt(v, n, j)}}
    BY <1>1, <1>2, <1>3, BackendFound
  <2>2. \A j \in D : v[j].kind = BackendKind <=> Seats(s, j, BackendKind, MaxBackends)
    BY <1>6, <1>8, <1>9
  <2>3. \A j \in D : v[j].kind = BackendKind => v[j] = s[j]
    BY <1>6, <1>8
  <2>4. \A j \in D : \A k \in 1 .. j - 1 : k \in D
    BY <1>5
  <2>5. \A j \in D : NamedAt(v, n, j) <=> BackendAt(s, n, j)
    <3> TAKE j \in D
    <3>1. NamedAt(v, n, j) => BackendAt(s, n, j)
      BY <2>2, <2>3, <2>4 DEF NamedAt, BackendAt
    <3>2. BackendAt(s, n, j) => NamedAt(v, n, j)
      BY <2>2, <2>3, <2>4 DEF NamedAt, BackendAt
    <3>. QED
      BY <3>1, <3>2
  <2>6. \A j \in D : BackendAt(s, n, j) => v[j] = s[j]
    BY <2>2, <2>3 DEF BackendAt
  <2>7. {v[j] : j \in {j \in DOMAIN v : NamedAt(v, n, j)}} = {s[j] : j \in {j \in D : BackendAt(s, n, j)}}
    BY <1>6, <2>5, <2>6
  <2>. QED
    BY <2>1, <2>7
<1>16. \A n, b : b \in FindBackend(B, n) <=> \E j \in D : BackendAt(s, n, j) /\ b = s[j]
  <2> TAKE n
  <2>1. FindBackend(B, n) = {s[j] : j \in {j \in D : BackendAt(s, n, j)}}
    BY <1>15
  <2>. QED
    BY <2>1
<1>. QED
  BY <1>13, <1>14, <1>16 DEF B, R, D, TablesSay

\* What the plan is.
LEMMA PlanSays ==
  ASSUME NEW X, NEW s \in Seq(X), \A m \in X : ProxyLine(m), NEW a, PlanInv(X, s, a)
  PROVE  /\ Plan(a) = "no_route"
              <=> \A i \in DOMAIN s : ~(Seats(s, i, RouteKind, MaxRoutes) /\ s[i].len > 0)
         /\ Plan(a) = "ok"
              <=> \E i \in DOMAIN s : /\ RouteAt(s, i)
                                      /\ \E j \in DOMAIN s : BackendAt(s, s[i].backend, j) /\ s[j].up
<1>a. TablesSay(s, a)
  BY PlanFinds
<1> DEFINE r == MatchRoute(a.routes)
           U == {b \in UNION {FindBackend(a.backends, x.backend) : x \in r} : b.up}
           D == DOMAIN s
<1>1. /\ r = {s[i] : i \in {i \in D : RouteAt(s, i)}}
      /\ r = {} <=> \A i \in D : ~(Seats(s, i, RouteKind, MaxRoutes) /\ s[i].len > 0)
      /\ \A n, b : b \in FindBackend(a.backends, n) <=> \E j \in D : BackendAt(s, n, j) /\ b = s[j]
  BY <1>a DEF TablesSay
<1>2. Plan(a) = IF r = {} THEN "no_route" ELSE IF U = {} THEN "backend_down" ELSE "ok"
  BY DEF Plan
<1>3. U # {} <=> \E x \in r : \E b \in FindBackend(a.backends, x.backend) : b.up
  OBVIOUS
<1> HIDE DEF r, U, D
<1>4. Plan(a) = "no_route" <=> r = {}
  BY <1>2
<1>5. Plan(a) = "ok" <=> r # {} /\ U # {}
  BY <1>2
<1>6. U # {} <=> \E x \in r : \E j \in D : BackendAt(s, x.backend, j) /\ s[j].up
  BY <1>1, <1>3
<1>7. U # {} <=> \E i \in D : RouteAt(s, i) /\ \E j \in D : BackendAt(s, s[i].backend, j) /\ s[j].up
  BY <1>1, <1>6
<1>8. U # {} => r # {}
  BY <1>6
<1>. QED
  BY <1>1, <1>4, <1>5, <1>7, <1>8 DEF D

\* So the target is that of the first such backend of that route.
LEMMA PlanTells ==
  ASSUME NEW X, NEW s \in Seq(X), \A m \in X : ProxyLine(m), NEW a, PlanInv(X, s, a)
  PROVE  PlanMatches(s, a)
<1> DEFINE Up(i, kind) == Cardinality({j \in 1 .. i : s[j].kind = kind})
           Kept(kind, most) == {i \in DOMAIN s : s[i].kind = kind /\ Up(i, kind) <= most}
           Fit == {i \in Kept("route", MaxRoutes) : s[i].len > 0}
           Taken == {i \in Fit : \A j \in Fit :
                       s[j].len < s[i].len \/ (s[j].len = s[i].len /\ i <= j)}
           First(b) == \A j \in Kept("backend", MaxBackends) : s[j].name = s[b].name => b <= j
           Answer(i) == {b \in Kept("backend", MaxBackends) :
                           s[b].name = s[i].backend /\ First(b) /\ s[b].up}
<1>1. \A i : i \in Kept("route", MaxRoutes) <=> Seats(s, i, RouteKind, MaxRoutes)
  BY DEF Seats, HasPlace, KindUpTo, RouteKind
<1>2. \A i : i \in Kept("backend", MaxBackends) <=> Seats(s, i, BackendKind, MaxBackends)
  BY DEF Seats, HasPlace, KindUpTo, BackendKind
<1>3. DOMAIN s = 1 .. Len(s) /\ Len(s) \in Nat
  OBVIOUS
<1>a. \A i, K, most : Seats(s, i, K, most) => i \in DOMAIN s
  BY DEF Seats
<1> HIDE DEF Kept
<1>4. \A i : i \in Fit <=> i \in DOMAIN s /\ Seats(s, i, RouteKind, MaxRoutes) /\ s[i].len > 0
  BY <1>1, <1>a
<1> HIDE DEF Fit
<1>5. \A i : i \in Taken <=> i \in DOMAIN s /\ RouteAt(s, i)
  BY <1>4 DEF RouteAt
<1>6. ASSUME NEW i PROVE Answer(i) # {} <=> \E j \in DOMAIN s : BackendAt(s, s[i].backend, j) /\ s[j].up
  <2>1. ASSUME NEW b \in Kept("backend", MaxBackends)
        PROVE  s[b].name = s[i].backend /\ First(b) <=> BackendAt(s, s[i].backend, b)
    <3>1. b \in DOMAIN s /\ Seats(s, b, BackendKind, MaxBackends) /\ b \in Int
      BY <1>2, <1>3, <1>a, <2>1
    <3>2. ASSUME s[b].name = s[i].backend, First(b) PROVE BackendAt(s, s[i].backend, b)
      <4>1. ASSUME NEW k \in 1 .. b - 1, Seats(s, k, BackendKind, MaxBackends), s[k].name = s[i].backend
            PROVE  FALSE
        <5>1. b <= k
          BY <1>2, <3>2, <4>1
        <5>. QED
          BY <3>1, <5>1
      <4>. QED
        BY <3>1, <3>2, <4>1 DEF BackendAt
    <3>3. ASSUME BackendAt(s, s[i].backend, b) PROVE s[b].name = s[i].backend /\ First(b)
      <4>1. s[b].name = s[i].backend
        BY <3>3 DEF BackendAt
      <4>2. ASSUME NEW j \in Kept("backend", MaxBackends), s[j].name = s[b].name PROVE b <= j
        <5>1. j \in 1 .. Len(s) /\ Seats(s, j, BackendKind, MaxBackends)
          BY <1>2, <1>3, <1>a
        <5>2. j \notin 1 .. b - 1
          BY <3>3, <4>1, <4>2, <5>1 DEF BackendAt
        <5>. QED
          BY <3>1, <5>1, <5>2
      <4>. QED
        BY <4>1, <4>2
    <3>. QED
      BY <3>2, <3>3
  <2>2. \A j : BackendAt(s, s[i].backend, j) => j \in Kept("backend", MaxBackends)
    BY <1>2 DEF BackendAt
  <2> HIDE DEF First
  <2>. QED
    BY <1>2, <1>a, <2>1, <2>2
<1>7. Plan(a) = "no_route" <=> Fit = {}
  BY <1>4, PlanSays
<1> HIDE DEF Taken, Answer
<1>8. Plan(a) = "ok" <=> \E i \in Taken : Answer(i) # {}
  <2>1. Plan(a) = "ok" <=> \E i \in DOMAIN s : /\ RouteAt(s, i)
             /\ \E j \in DOMAIN s : BackendAt(s, s[i].backend, j) /\ s[j].up
    BY PlanSays
  <2>. QED
    BY <1>5, <1>6, <2>1
<1>. QED
  BY <1>7, <1>8 DEF PlanMatches, Taken, Answer, Fit, First, Kept

-----------------------------------------------------------------------------
(* Block 12: the router and the manifest.                                   *)

\* What is printed is the longest prefix of the lines that found place.
LEMMA RouterTells ==
  ASSUME NEW X, NEW s \in Seq(X), \A m \in X : ProxyLine(m), NEW a, PlanInv(X, s, a)
  PROVE  RouterMatches(s, a)
<1> DEFINE Placed == {i \in DOMAIN s :
                        /\ s[i].kind = "route" /\ s[i].len > 0
                        /\ Cardinality({j \in 1 .. i : s[j].kind = "route"}) <= MaxRoutes}
           Top == {s[i].len : i \in Placed}
           R == MatchRoute(a.routes)
           P == {r.len : r \in R}
<1>1. PlanMatches(s, a)
  BY PlanTells
<1>2. R = {s[i] : i \in {i \in DOMAIN s : RouteAt(s, i)}}
  <2>1. TablesSay(s, a)
    BY PlanFinds
  <2>. QED
    BY <2>1 DEF TablesSay
<1>3. \A i : i \in Placed <=> i \in DOMAIN s /\ Seats(s, i, RouteKind, MaxRoutes) /\ s[i].len > 0
  BY DEF Seats, HasPlace, KindUpTo, RouteKind
<1>4. Router(a).plan = Plan(a) /\ Router(a).prefix = IF Plan(a) = "ok" THEN P ELSE {}
  <2>1. Router(a).plan = Plan(a)
    BY DEF Router
  <2>2. Router(a).prefix = {r.len : r \in If(Plan(a) = "ok", R)}
    BY DEF Router
  <2>3. CASE Plan(a) = "ok"
    BY <2>1, <2>2, <2>3 DEF If
  <2>4. CASE Plan(a) # "ok"
    <3>1. If(Plan(a) = "ok", R) = {}
      BY <2>4 DEF If
    <3>2. Router(a).prefix = {}
      BY <2>2, <3>1
    <3>. QED
      BY <2>1, <2>4, <3>2
  <2>. QED
    BY <2>3, <2>4
<1>5. Plan(a) = "ok" => \E i \in DOMAIN s : RouteAt(s, i)
  BY PlanSays
<1>6. ASSUME NEW i \in DOMAIN s, RouteAt(s, i) PROVE P = {Max(Top)}
  <2>1. i \in Placed /\ \A j \in Placed : s[j].len <= s[i].len
    <3>0. \A j \in Placed : s[j].len \in Nat
      <4>1. \A j \in DOMAIN s : s[j] \in X
        OBVIOUS
      <4>. QED
        BY <4>1 DEF ProxyLine
    <3> HIDE DEF Placed
    <3>1. i \in Placed
      BY <1>3, <1>6 DEF RouteAt
    <3>2. \A j \in Placed : s[j].len < s[i].len \/ s[j].len = s[i].len
      BY <1>3, <1>6 DEF RouteAt
    <3>. QED
      BY <3>0, <3>1, <3>2
  <2>2. \A j \in DOMAIN s : RouteAt(s, j) => j \in Placed /\ s[i].len <= s[j].len
    <3>0. \A j \in Placed : s[j].len \in Nat
      <4>1. \A j \in DOMAIN s : s[j] \in X
        OBVIOUS
      <4>. QED
        BY <4>1 DEF ProxyLine
    <3> HIDE DEF Placed
    <3>1. \A j \in DOMAIN s : RouteAt(s, j) => j \in Placed
      BY <1>3 DEF RouteAt
    <3>2. \A j \in DOMAIN s : RouteAt(s, j) => s[i].len < s[j].len \/ s[i].len = s[j].len
      BY <1>3, <2>1 DEF RouteAt
    <3>. QED
      BY <2>1, <3>0, <3>1, <3>2
  <2>3. \A j \in Placed : s[j].len \in Nat
    <3>1. \A j \in DOMAIN s : s[j] \in X
      OBVIOUS
    <3>. QED
      BY <3>1 DEF ProxyLine
  <2>4. s[i].len \in Top /\ \A x \in Top : x \in Nat /\ s[i].len >= x
    <3> HIDE DEF Placed
    <3>. QED
      BY <2>1, <2>3
  <2>5. Max(Top) = s[i].len
    <3> HIDE DEF Top
    <3>1. \A x \in Top : (\A y \in Top : x >= y) => x = s[i].len
      BY <2>4
    <3>. QED
      BY <2>4, <3>1 DEF Max
  <2>6. \A j \in DOMAIN s : RouteAt(s, j) => s[j].len = s[i].len
    <3> HIDE DEF Placed
    <3>. QED
      BY <2>1, <2>2, <2>3
  <2>7. P = {s[i].len}
    <3> HIDE DEF Placed, Top
    <3>1. \A r \in R : r.len = s[i].len
      BY <1>2, <2>6
    <3>2. s[i] \in R
      BY <1>2, <1>6
    <3> HIDE DEF R
    <3>. QED
      BY <3>1, <3>2
  <2> HIDE DEF P, Top, R
  <2>. QED
    BY <2>5, <2>7
<1> HIDE DEF P, Top, R
<1>7. Plan(a) = "ok" => P = {Max(Top)}
  BY <1>5, <1>6
<1>8. /\ Router(a).plan = "ok" => Router(a).prefix = {Max(Top)}
      /\ Router(a).plan # "ok" => Router(a).prefix = {}
  BY <1>4, <1>7
<1>. QED
  BY <1>1, <1>8 DEF RouterMatches, Top, Placed

-----------------------------------------------------------------------------
\* The counters of the manifest, and those a line counts for.
ManifestKeys == {"valid", "invalid", "rotatable"}
ManifestCounts(f) ==
  IF ~ValidManifest(f) THEN {"invalid"} ELSE {"valid"} \union If(f[4].text = "yes", {"rotatable"})
ManifestTable(X) == [m \in X |-> ManifestCounts(Fields(m))]

\* The lines that are about the secret looked for, and the first of them.
AboutNeedle(X) == {m \in X : Len(Fields(m)) >= 5 /\ Fields(m)[1].text = Needle}
\* Where the first line of Q is, and the reference it has.
FirstPlace(s, Q) == {i \in DOMAIN s : s[i] \in Q /\ \A j \in 1 .. i - 1 : s[j] \notin Q}
RefOf(s, Q) == {Fields(s[i])[5].text : i \in FirstPlace(s, Q)}

\* The counters of the manifest and the reference found first.
ManifestInv(X, s, a) ==
  /\ Counters(ManifestKeys, X, ManifestTable(X), s, a.stats)
  /\ a.ref = RefOf(s, AboutNeedle(X))

\* There is none at first,
LEMMA ManifestStarts == \A X : ManifestInv(X, <<>>, ManifestStart)
<1> SUFFICES ASSUME NEW X PROVE ManifestInv(X, <<>>, ManifestStart)
  OBVIOUS
<1>1. ManifestStart.stats = Zero(ManifestKeys) /\ ManifestStart.ref = {}
  BY DEF ManifestStart, ManifestKeys
<1>2. Counters(ManifestKeys, X, ManifestTable(X), <<>>, Zero(ManifestKeys))
  BY CountersStart
<1>3. RefOf(<<>>, AboutNeedle(X)) = {}
  BY DEF RefOf, FirstPlace
<1>. QED
  BY <1>1, <1>2, <1>3 DEF ManifestInv

\* The first line of a kind stays the first.
LEMMA FirstStep ==
  ASSUME NEW X, NEW s \in Seq(X), NEW l \in X, NEW Q
  PROVE  /\ FirstPlace(s, Q) \in SUBSET DOMAIN s
         /\ FirstPlace(Append(s, l), Q) =
              IF FirstPlace(s, Q) # {} \/ l \notin Q THEN FirstPlace(s, Q) ELSE {Len(s) + 1}
         /\ FirstPlace(s, Q) = {} <=> \A i \in DOMAIN s : s[i] \notin Q
<1> DEFINE t == Append(s, l)
           n == Len(s)
           F == FirstPlace(s, Q)
           G == FirstPlace(t, Q)
<1>1. /\ n \in Nat /\ DOMAIN s = 1 .. n /\ DOMAIN t = 1 .. n + 1 /\ t[n + 1] = l
      /\ \A i \in 1 .. n : t[i] = s[i]
  BY AppendFacts
<1>2. F = {} <=> \A i \in DOMAIN s : s[i] \notin Q
  <2>1. ASSUME NEW i \in DOMAIN s, s[i] \in Q PROVE F # {}
    <3> DEFINE W == {j \in DOMAIN s : s[j] \in Q}
    <3>1. W \in SUBSET Nat /\ W # {}
      BY <1>1, <2>1
    <3>2. PICK j \in W : \A m \in W : j <= m
      <4> HIDE DEF W
      <4>. QED
        BY <3>1, Least
    <3>3. \A m \in 1 .. j - 1 : s[m] \notin Q
      <4> SUFFICES ASSUME NEW m \in 1 .. j - 1, s[m] \in Q PROVE FALSE
        OBVIOUS
      <4>1. j \in 1 .. n
        BY <1>1
      <4>2. m \in 1 .. n /\ ~(j <= m)
        BY <1>1, <4>1
      <4>. QED
        BY <1>1, <3>2, <4>2
    <3>4. j \in F
      BY <3>3 DEF FirstPlace
    <3>. QED
      BY <3>4
  <2>. QED
    BY <2>1 DEF FirstPlace
<1>3. \A i \in 1 .. n : i \in G <=> i \in F
  <2> TAKE i \in 1 .. n
  <2>1. \A j \in 1 .. i - 1 : j \in 1 .. n
    BY <1>1
  <2>. QED
    BY <1>1, <2>1 DEF FirstPlace
<1>4. n + 1 \in G <=> l \in Q /\ F = {}
  <2>1. n + 1 - 1 = n
    BY <1>1
  <2>2. n + 1 \in G <=> l \in Q /\ \A j \in 1 .. n : t[j] \notin Q
    BY <1>1, <2>1 DEF FirstPlace
  <2>. QED
    BY <1>1, <1>2, <2>2
<1>5. F \in SUBSET (1 .. n) /\ G \in SUBSET (1 .. n + 1)
  BY <1>1 DEF FirstPlace
<1>6. \A i : i \in 1 .. n + 1 <=> i \in 1 .. n \/ i = n + 1
  BY <1>1
<1>7. n + 1 \notin 1 .. n
  BY <1>1
<1> HIDE DEF F, G, n, t
<1>8. G = IF F # {} \/ l \notin Q THEN F ELSE {n + 1}
  <2>1. CASE F # {} \/ l \notin Q
    <3>1. n + 1 \notin G
      BY <1>4, <2>1
    <3>2. \A i : i \in G <=> i \in F
      BY <1>3, <1>5, <1>6, <3>1
    <3>3. G = F
      BY <3>2
    <3>. QED
      BY <2>1, <3>3
  <2>2. CASE ~(F # {} \/ l \notin Q)
    <3>1. n + 1 \in G /\ F = {}
      BY <1>4, <2>2
    <3>2. \A i : i \in G <=> i = n + 1
      BY <1>3, <1>5, <1>6, <3>1
    <3>3. G = {n + 1}
      BY <3>2
    <3>. QED
      BY <2>2, <3>3
  <2>. QED
    BY <2>1, <2>2
<1>9. F \in SUBSET DOMAIN s
  BY <1>1, <1>5
<1>. QED
  BY <1>2, <1>8, <1>9 DEF F, G, n, t

\* the first line about the secret gives it, later ones do not replace it,
LEMMA ManifestKeeps ==
  ASSUME NEW X, \A m \in X : PiecesLine(m), NEW s \in Seq(X), NEW l \in X, NEW a,
         ManifestInv(X, s, a)
  PROVE  ManifestInv(X, Append(s, l), ManifestStep(a, l))
<1> DEFINE b == ManifestStep(a, l)
           t == Append(s, l)
           f == Fields(l)
           Q == AboutNeedle(X)
<1>1. b.stats = Bump(a.stats, ManifestTable(X)[l])
  BY DEF ManifestStep, ManifestTable, ManifestCounts, CountManifest
<1>2. Counters(ManifestKeys, X, ManifestTable(X), t, b.stats)
  BY <1>1, CountersKeep DEF ManifestInv
<1>3. b.ref = FindRef(a.ref, f)
  BY DEF ManifestStep
<1>4. l \in Q <=> Len(f) >= 5 /\ f[1].text = Needle
  BY DEF AboutNeedle
<1>13. Len(f) \in Nat
  <2>1. l \in Seq(Word)
    BY DEF PiecesLine
  <2>. QED
    BY <2>1, FieldsTell
<1>5. DOMAIN s = 1 .. Len(s) /\ Len(s) \in Nat /\ t[Len(s) + 1] = l /\ \A i \in DOMAIN s : t[i] = s[i]
  BY AppendFacts
<1>6. a.ref = RefOf(s, Q)
  BY DEF ManifestInv
<1> HIDE DEF b, Q
<1>7. FirstPlace(s, Q) \in SUBSET DOMAIN s
  BY FirstStep
<1>8. FirstPlace(t, Q) = IF FirstPlace(s, Q) # {} \/ l \notin Q THEN FirstPlace(s, Q) ELSE {Len(s) + 1}
  BY FirstStep
<1>10. a.ref = {} <=> FirstPlace(s, Q) = {}
  BY <1>6 DEF RefOf
<1>11. CASE FirstPlace(s, Q) # {} \/ l \notin Q
  <2>1. b.ref = a.ref
    <3>1. CASE FirstPlace(s, Q) # {}
      BY <1>3, <1>10, <3>1 DEF FindRef
    <3>2. CASE l \notin Q
      <4>1. Len(f) < 5 \/ f[1].text # Needle
        BY <1>4, <1>13, <3>2
      <4>. QED
        BY <1>3, <4>1 DEF FindRef
    <3>. QED
      BY <1>11, <3>1, <3>2
  <2>2. \A i \in FirstPlace(s, Q) : t[i] = s[i]
    BY <1>5, <1>7
  <2>3. RefOf(t, Q) = RefOf(s, Q)
    BY <1>8, <1>11, <2>2 DEF RefOf
  <2>. QED
    BY <1>2, <1>6, <2>1, <2>3 DEF ManifestInv, b, Q
<1>12. CASE ~(FirstPlace(s, Q) # {} \/ l \notin Q)
  <2>1. b.ref = {f[5].text}
    BY <1>3, <1>4, <1>10, <1>12 DEF FindRef
  <2>2. FirstPlace(t, Q) = {Len(s) + 1}
    BY <1>8, <1>12
  <2> HIDE DEF f
  <2>3. RefOf(t, Q) = {Fields(l)[5].text}
    BY <1>5, <2>2 DEF RefOf
  <2>. QED
    BY <1>2, <2>1, <2>3 DEF ManifestInv, b, Q, f
<1>. QED
  BY <1>11, <1>12

\* and then they say what the whole file says.
LEMMA ManifestTells ==
  ASSUME NEW X, NEW s \in Seq(X), \A m \in X : PiecesLine(m), NEW a, ManifestInv(X, s, a)
  PROVE  ManifestMatches(s, a)
<1> DEFINE K(k) == CountFor(X, ManifestTable(X), k)
           Q == AboutNeedle(X)
           Refers(i) == /\ Cardinality(Filled(s[i])) >= 5
                     /\ s[i][Nth(s[i], 1)].text = Needle
           First == {i \in DOMAIN s : Refers(i) /\ \A j \in 1 .. i - 1 : ~Refers(j)}
           v == a.stats.valid
           u == a.stats.invalid
<1>1. \A k \in DOMAIN s : s[k] \in X
  OBVIOUS
<1>0. DOMAIN s = 1 .. Len(s) /\ Len(s) \in Nat
  OBVIOUS
<1>2. ASSUME NEW l \in X
      PROVE  /\ l \in K("valid") <=> ValidManifest(Fields(l))
             /\ l \in K("invalid") <=> ~ValidManifest(Fields(l))
             /\ l \in K("rotatable") => ValidManifest(Fields(l))
  <2> DEFINE f == Fields(l)
  <2>1. \A k : l \in K(k) <=> k \in ManifestCounts(f)
    BY DEF CountFor, ManifestTable
  <2> HIDE DEF f, K
  <2>2. /\ "valid" \in ManifestCounts(f) <=> ValidManifest(f)
        /\ "invalid" \in ManifestCounts(f) <=> ~ValidManifest(f)
        /\ "rotatable" \in ManifestCounts(f) => ValidManifest(f)
    BY DEF ManifestCounts, If
  <2>. QED
    BY <2>1, <2>2 DEF f
<1>3. \A k \in ManifestKeys : a.stats[k] = Nr(s, K(k))
  BY DEF ManifestInv, Counters
<1>4. v = Nr(s, K("valid")) /\ u = Nr(s, K("invalid")) /\ a.stats.rotatable = Nr(s, K("rotatable"))
  BY <1>3 DEF ManifestKeys
<1>5. v + u = Len(s)
  <2>1. \A m \in X : m \in K("valid") <=> m \notin K("invalid")
    BY <1>2
  <2> HIDE DEF K
  <2>2. Nr(s, K("valid")) + Nr(s, K("invalid")) = Len(s)
    BY <2>1, NrSplit
  <2>. QED
    BY <1>4, <2>2
<1>6. a.stats.rotatable <= v
  <2>1. K("rotatable") \in SUBSET K("valid")
    <3>1. \A k, m : m \in K(k) => m \in X
      BY DEF CountFor
    <3> HIDE DEF K
    <3>. QED
      BY <1>2, <3>1
  <2> HIDE DEF K
  <2>. QED
    BY <1>4, <2>1, NrFacts
<1>7. ASSUME NEW l \in X
      PROVE  /\ l \in Q <=> Cardinality(Filled(l)) >= 5 /\ l[Nth(l, 1)].text = Needle
             /\ l \in Q => Fields(l)[5] = l[Nth(l, 5)]
  <2> DEFINE f == Fields(l)
             c == Len(f)
  <2>1. l \in Seq(Word)
    BY DEF PiecesLine
  <2>2. /\ c \in Nat /\ c = Cardinality(Filled(l))
        /\ \A k \in 1 .. c : f[k] = l[Nth(l, k)]
    BY <2>1, FieldsTell
  <2>3. l \in Q <=> c >= 5 /\ f[1].text = Needle
    BY DEF AboutNeedle
  <2> HIDE DEF f, c, Q
  <2>4. c >= 5 => 1 \in 1 .. c /\ 5 \in 1 .. c
    BY <2>2
  <2>5. c >= 5 => f[1] = l[Nth(l, 1)] /\ f[5] = l[Nth(l, 5)]
    BY <2>2, <2>4
  <2>. QED
    BY <2>2, <2>3, <2>5 DEF f
<1>8. \A i \in DOMAIN s : (s[i] \in Q <=> Refers(i)) /\ (Refers(i) => Fields(s[i])[5] = s[i][Nth(s[i], 5)])
  BY <1>1, <1>7
<1> HIDE DEF Refers, Q, K
<1>9. First = FirstPlace(s, Q)
  <2>1. \A i \in DOMAIN s : \A j \in 1 .. i - 1 : j \in DOMAIN s
    BY <1>0
  <2>. QED
    BY <1>8, <2>1 DEF FirstPlace
<1>10. \A i \in First : i \in DOMAIN s /\ Fields(s[i])[5] = s[i][Nth(s[i], 5)]
  BY <1>8
<1>11. a.ref = {s[i][Nth(s[i], 5)].text : i \in First}
  <2>1. a.ref = RefOf(s, Q)
    BY DEF ManifestInv, Q
  <2> HIDE DEF First
  <2>2. a.ref = {Fields(s[i])[5].text : i \in First}
    BY <1>9, <2>1 DEF RefOf
  <2>. QED
    BY <1>10, <2>2
<1>12. VaultReady(a) <=> Len(s) >= 3 /\ \A l \in ToSet(s) : ValidManifest(Fields(l))
  <2>1. u = 0 <=> \A k \in DOMAIN s : s[k] \notin K("invalid")
    BY <1>4, NrFacts
  <2>2. u = 0 <=> \A l \in ToSet(s) : ValidManifest(Fields(l))
    BY <1>1, <1>2, <2>1 DEF ToSet
  <2>3. v \in Nat /\ u \in Nat
    BY <1>4, NrFacts
  <2>4. VaultReady(a) <=> u = 0 /\ v >= 3
    BY DEF VaultReady
  <2> HIDE DEF u, v
  <2>5. VaultReady(a) <=> u = 0 /\ Len(s) >= 3
    BY <1>5, <2>3, <2>4
  <2>. QED
    BY <2>2, <2>5
<1>14. VaultReady(a) => \A i \in First : ValidManifest(Fields(s[i]))
  <2>1. \A i \in First : s[i] \in ToSet(s)
    BY <1>10 DEF ToSet
  <2>. QED
    BY <1>12, <2>1
<1>15. v + u = Len(s) /\ a.stats.rotatable <= v
  BY <1>5, <1>6
<1> HIDE DEF First
<1>. QED
  BY <1>11, <1>12, <1>14, <1>15 DEF ManifestMatches, First, Refers

-----------------------------------------------------------------------------
(* Block 12: words that come in groups, whatever the lines.                 *)

\* Groups are of three words or of five.
GroupLengths == {3, 5}

\* Products with 3 and with 5,
LEMMA TimesFacts ==
  ASSUME NEW n \in GroupLengths, NEW c \in Nat
  PROVE  /\ n \in Nat \ {0} /\ n * c \in Nat /\ n * (c + 1) = n * c + n /\ n * 0 = 0
         /\ \A k \in 1 .. c : n * (k - 1) \in Nat /\ n * k = n * (k - 1) + n /\ n * k <= n * c
<1>1. CASE n = 3
  BY <1>1
<1>2. CASE n = 5
  BY <1>2
<1>. QED
  BY <1>1, <1>2 DEF GroupLengths

\* and the whole groups of a number of words.
LEMMA DivFacts ==
  ASSUME NEW n \in GroupLengths, NEW len \in Nat
  PROVE  len \div n \in Nat /\ \A k \in Nat : k <= len \div n <=> n * k <= len
<1>1. CASE n = 3
  BY <1>1
<1>2. CASE n = 5
  BY <1>2
<1>. QED
  BY <1>1, <1>2 DEF GroupLengths

\* A part of a sequence, and of one that has an element more.
LEMMA SliceFacts ==
  ASSUME NEW W, NEW s \in Seq(W), NEW p \in Nat, NEW q \in Nat, p <= q, q <= Len(s)
  PROVE  /\ SubSeq(s, p + 1, q) \in Seq(W) /\ Len(SubSeq(s, p + 1, q)) = q - p
         /\ \A i \in 1 .. q - p : SubSeq(s, p + 1, q)[i] = s[p + i]
OBVIOUS

\* A slice of a sequence does not see what is appended behind it,
LEMMA SliceSame ==
  ASSUME NEW W, NEW s \in Seq(W), NEW x \in W, NEW p \in Nat, NEW q \in Nat, p <= q, q <= Len(s)
  PROVE  SubSeq(Append(s, x), p + 1, q) = SubSeq(s, p + 1, q)
<1> DEFINE t == Append(s, x)
           u == SubSeq(t, p + 1, q)
           v == SubSeq(s, p + 1, q)
<1>1. t \in Seq(W) /\ Len(t) = Len(s) + 1 /\ q <= Len(t) /\ Len(s) \in Nat
      /\ \A k \in 1 .. Len(s) : t[k] = s[k]
  BY AppendFacts
<1>2. \A i \in 1 .. q - p : p + i \in 1 .. Len(s)
  BY <1>1
<1> HIDE DEF t
<1>3. u \in Seq(W) /\ Len(u) = q - p /\ \A i \in 1 .. q - p : u[i] = t[p + i]
  BY <1>1, SliceFacts, SMTT(30)
<1>4. v \in Seq(W) /\ Len(v) = q - p /\ \A i \in 1 .. q - p : v[i] = s[p + i]
  BY SliceFacts
<1> HIDE DEF u, v
<1>5. u = v
  <2>1. \A i \in 1 .. q - p : u[i] = v[i]
    BY <1>1, <1>2, <1>3, <1>4
  <2>2. Len(u) = q - p /\ Len(v) = q - p
    BY <1>3, <1>4
  <2>. QED
    BY <1>3, <1>4, <2>1, <2>2
<1>. QED
  BY <1>5 DEF u, v, t

\* and its length tells where it ends.
LEMMA SliceMore ==
  ASSUME NEW W, NEW s \in Seq(W), NEW x \in W, NEW p \in Nat, p <= Len(s)
  PROVE  SubSeq(Append(s, x), p + 1, Len(s) + 1) = Append(SubSeq(s, p + 1, Len(s)), x)
<1> DEFINE t == Append(s, x)
           n == Len(s)
           u == SubSeq(t, p + 1, n + 1)
           v == SubSeq(s, p + 1, n)
           w == Append(v, x)
<1>1. t \in Seq(W) /\ Len(t) = n + 1 /\ n \in Nat /\ n + 1 \in Nat /\ p <= n + 1 /\ p <= n
      /\ t[n + 1] = x /\ \A k \in 1 .. n : t[k] = s[k]
  BY AppendFacts
<1> HIDE DEF t
<1>3. u \in Seq(W) /\ Len(u) = n + 1 - p /\ \A i \in 1 .. n + 1 - p : u[i] = t[p + i]
  <2> DEFINE q == n + 1
  <2>1. q \in Nat /\ p <= q /\ q <= Len(t)
    BY <1>1
  <2> HIDE DEF q
  <2>2. /\ SubSeq(t, p + 1, q) \in Seq(W) /\ Len(SubSeq(t, p + 1, q)) = q - p
        /\ \A i \in 1 .. q - p : SubSeq(t, p + 1, q)[i] = t[p + i]
    BY <1>1, <2>1, SliceFacts
  <2>. QED
    BY <2>2 DEF q
<1>4. v \in Seq(W) /\ Len(v) = n - p /\ \A i \in 1 .. n - p : v[i] = s[p + i]
  <2>1. n <= Len(s)
    BY <1>1
  <2> HIDE DEF n
  <2>. QED
    BY <1>1, <2>1, SliceFacts
<1> HIDE DEF u, v, n
<1>5. w \in Seq(W) /\ Len(w) = n - p + 1 /\ w[n - p + 1] = x /\ \A i \in 1 .. n - p : w[i] = v[i]
  <2>1. /\ w \in Seq(W) /\ DOMAIN v = 1 .. Len(v) /\ Len(w) = Len(v) + 1 /\ w[Len(v) + 1] = x
        /\ \A i \in DOMAIN v : w[i] = v[i]
    BY <1>4, AppendFacts
  <2> HIDE DEF w
  <2>2. Len(v) = n - p
    BY <1>4
  <2>. QED
    BY <2>1, <2>2
<1>6. \A i \in 1 .. n + 1 - p : u[i] = w[i]
  <2> TAKE i \in 1 .. n + 1 - p
  <2>1. CASE i = n + 1 - p
    <3>1. p + i = n + 1 /\ n - p + 1 = i
      BY <1>1, <2>1
    <3>. QED
      BY <1>1, <1>3, <1>5, <3>1
  <2>2. CASE i # n + 1 - p
    <3>1. i \in 1 .. n - p /\ p + i \in 1 .. n
      BY <1>1, <2>2
    <3>2. u[i] = s[p + i]
      BY <1>1, <1>3, <3>1
    <3>3. w[i] = s[p + i]
      BY <1>4, <1>5, <3>1
    <3>. QED
      BY <3>2, <3>3
  <2>. QED
    BY <2>1, <2>2
<1> HIDE DEF w
<1>7. Len(u) = Len(w)
  BY <1>1, <1>3, <1>5
<1>8. u = w
  BY <1>3, <1>5, <1>6, <1>7
<1>. QED
  BY <1>8 DEF u, w, v, t, n

-----------------------------------------------------------------------------
\* The k-th group of n words, and the first c of them.
GroupAt(s, n, k) == SubSeq(s, n * (k - 1) + 1, n * k)
GroupsUpTo(s, n, c) == [k \in 1 .. c |-> GroupAt(s, n, k)]

\* Groups of n words with numbers where the set V wants them.
GroupSet(W, n, V) == {g \in Seq(W) : Len(g) = n /\ \A i \in V : g[i].num # {}}

\* After the words s a loop of fscanf has taken c groups, and either it ended at a word
\* of the next one or it holds the words of that one so far.
ScanTook(W, n, V, s, words, c) ==
  /\ c \in Nat /\ n * c <= Len(s) /\ words \in Seq(W)
  /\ \A k \in 1 .. c : GroupAt(s, n, k) \in GroupSet(W, n, V)

\* or it has stopped for good,
ScanEnded(W, n, V, s, words, c) ==
  /\ ScanTook(W, n, V, s, words, c)
  /\ \E i \in V : n * c + i <= Len(s) /\ s[n * c + i].num = {}

\* or it goes on.
ScanRuns(W, n, V, s, words, c) ==
  /\ ScanTook(W, n, V, s, words, c)
  /\ words = SubSeq(s, n * c + 1, Len(s)) /\ Len(s) < n * c + n
  /\ \A i \in V : n * c + i <= Len(s) => s[n * c + i].num # {}

\* A group stands at its place.
LEMMA GroupFacts ==
  ASSUME NEW W, NEW n \in GroupLengths, NEW s \in Seq(W), NEW c \in Nat, n * c <= Len(s),
         NEW k \in 1 .. c
  PROVE  /\ GroupAt(s, n, k) \in Seq(W) /\ Len(GroupAt(s, n, k)) = n
         /\ \A i \in 1 .. n : GroupAt(s, n, k)[i] = s[n * (k - 1) + i]
         /\ \A x \in W : GroupAt(Append(s, x), n, k) = GroupAt(s, n, k)
<1> DEFINE p == n * (k - 1)
           q == n * k
<1>1. p \in Nat /\ q = p + n /\ q <= n * c /\ n \in Nat /\ n * c \in Nat
  BY TimesFacts
<1>2. q \in Nat /\ p <= q /\ q <= Len(s) /\ q - p = n
  BY <1>1
<1>3. GroupAt(s, n, k) = SubSeq(s, p + 1, q) /\ \A x : GroupAt(Append(s, x), n, k) = SubSeq(Append(s, x), p + 1, q)
  BY DEF GroupAt
<1> HIDE DEF p, q
<1>4. /\ SubSeq(s, p + 1, q) \in Seq(W) /\ Len(SubSeq(s, p + 1, q)) = q - p
      /\ \A i \in 1 .. q - p : SubSeq(s, p + 1, q)[i] = s[p + i]
  BY <1>1, <1>2, SliceFacts
<1>5. \A x \in W : SubSeq(Append(s, x), p + 1, q) = SubSeq(s, p + 1, q)
  BY <1>1, <1>2, SliceSame
<1>6. \A i \in 1 .. n : GroupAt(s, n, k)[i] = s[p + i]
  BY <1>2, <1>3, <1>4
<1>. QED
  BY <1>2, <1>3, <1>4, <1>5, <1>6 DEF p

\* So all the groups of a scan are groups.
LEMMA GroupsAreGroups ==
  ASSUME NEW W, NEW n, NEW V, NEW s, NEW words, NEW c,
         ScanTook(W, n, V, s, words, c)
  PROVE  /\ GroupsUpTo(s, n, c) \in Seq(GroupSet(W, n, V)) /\ Len(GroupsUpTo(s, n, c)) = c
         /\ DOMAIN GroupsUpTo(s, n, c) = 1 .. c
<1> DEFINE G == GroupSet(W, n, V)
<1>1. c \in Nat /\ \A k \in 1 .. c : GroupAt(s, n, k) \in G
  BY DEF ScanTook
<1> HIDE DEF G
<1>2. GroupsUpTo(s, n, c) \in [1 .. c -> G]
  BY <1>1 DEF GroupsUpTo
<1>. QED
  BY <1>1, <1>2 DEF G

\* No word has been read at first.
LEMMA ScanStarts ==
  ASSUME NEW W, NEW n \in GroupLengths, NEW V \in SUBSET (1 .. n)
  PROVE  ScanRuns(W, n, V, <<>>, <<>>, 0) /\ GroupsUpTo(<<>>, n, 0) = <<>>
<1>1. n * 0 = 0 /\ n \in Nat \ {0}
  BY TimesFacts
<1>2. SubSeq(<<>>, 0 + 1, Len(<<>>)) = <<>> /\ Len(<<>>) = 0 /\ <<>> \in Seq(W)
  OBVIOUS
<1>3. \A i \in V : ~(0 + i <= 0)
  OBVIOUS
<1>4. GroupsUpTo(<<>>, n, 0) = <<>>
  BY DEF GroupsUpTo
<1>. QED
  BY <1>1, <1>2, <1>3, <1>4 DEF ScanRuns, ScanTook

\* The first c groups of n words are the same in s and t.
SameGroups(s, t, n, c) ==
  /\ \A k \in 1 .. c : GroupAt(t, n, k) = GroupAt(s, n, k)
  /\ GroupsUpTo(t, n, c) = GroupsUpTo(s, n, c)

\* The groups stay when a word comes.
LEMMA GroupsStay ==
  ASSUME NEW W, NEW n \in GroupLengths, NEW V, NEW s \in Seq(W), NEW x \in W,
         NEW words, NEW c, ScanTook(W, n, V, s, words, c)
  PROVE  SameGroups(s, Append(s, x), n, c)
<1>1. c \in Nat /\ n * c <= Len(s)
  BY DEF ScanTook
<1>2. \A k \in 1 .. c : GroupAt(Append(s, x), n, k) = GroupAt(s, n, k)
  BY <1>1, GroupFacts
<1>. QED
  BY <1>2 DEF GroupsUpTo, SameGroups

\* A word that comes when the loop has ended changes nothing.
LEMMA ScanOver ==
  ASSUME NEW W, NEW n \in GroupLengths, NEW V \in SUBSET (1 .. n), NEW s \in Seq(W), NEW x \in W,
         NEW words, NEW c, ScanEnded(W, n, V, s, words, c)
  PROVE  ScanEnded(W, n, V, Append(s, x), words, c)
<1> DEFINE t == Append(s, x)
           p == n * c
<1>t. ScanTook(W, n, V, s, words, c)
  BY DEF ScanEnded
<1>1. /\ c \in Nat /\ p <= Len(s) /\ words \in Seq(W)
      /\ \A k \in 1 .. c : GroupAt(s, n, k) \in GroupSet(W, n, V)
      /\ \E i \in V : p + i <= Len(s) /\ s[p + i].num = {}
  BY DEF ScanEnded, ScanTook
<1>2. p \in Nat /\ n \in Nat
  BY <1>1, TimesFacts
<1>3. Len(s) \in Nat /\ Len(t) = Len(s) + 1 /\ \A k \in 1 .. Len(s) : t[k] = s[k]
  BY AppendFacts
<1>s. SameGroups(s, t, n, c)
  BY <1>t, GroupsStay
<1>4. \A k \in 1 .. c : GroupAt(t, n, k) \in GroupSet(W, n, V)
  BY <1>s, <1>1 DEF SameGroups
<1> HIDE DEF p, t
<1>5. \E i \in V : p + i <= Len(t) /\ t[p + i].num = {}
  <2>1. PICK i \in V : p + i <= Len(s) /\ s[p + i].num = {}
    BY <1>1
  <2>2. p + i \in 1 .. Len(s) /\ p + i <= Len(t)
    BY <1>2, <1>3, <2>1
  <2>. QED
    BY <1>3, <2>1, <2>2
<1>6. p <= Len(t)
  BY <1>1, <1>2, <1>3
<1>. QED
  BY <1>1, <1>4, <1>5, <1>6 DEF ScanEnded, ScanTook, p, t

\* What the words held tell of the next one.
NextWord(W, n, s, words, c, x) ==
  /\ n * c \in Nat /\ n \in Nat /\ Len(s) \in Nat /\ Len(words) = Len(s) - n * c
  /\ Len(Append(words, x)) = Len(s) + 1 - n * c /\ Len(Append(words, x)) \in 1 .. n
  /\ Append(words, x) = SubSeq(Append(s, x), n * c + 1, Len(s) + 1)
  /\ Append(words, x) \in Seq(W)
  /\ Len(Append(s, x)) = Len(s) + 1 /\ Append(s, x)[Len(s) + 1] = x
  /\ \A k \in 1 .. Len(s) : Append(s, x)[k] = s[k]

\* A word that does not complete a group is held.
LEMMA ScanHolds ==
  ASSUME NEW W, NEW n \in GroupLengths, NEW V \in SUBSET (1 .. n), NEW s \in Seq(W), NEW x \in W,
         NEW words, NEW c, ScanRuns(W, n, V, s, words, c)
  PROVE  NextWord(W, n, s, words, c, x)
<1> DEFINE p == n * c
           len == Len(s)
<1>1. /\ c \in Nat /\ p <= len /\ words \in Seq(W) /\ words = SubSeq(s, p + 1, len) /\ len < p + n
  BY DEF ScanRuns, ScanTook
<1>2. p \in Nat /\ n \in Nat
  BY <1>1, TimesFacts
<1>3. /\ len \in Nat /\ Len(Append(s, x)) = len + 1 /\ Append(s, x)[len + 1] = x
      /\ \A k \in 1 .. len : Append(s, x)[k] = s[k]
  BY AppendFacts
<1> HIDE DEF p
<1>4. Len(words) = len - p
  BY <1>1, <1>2, <1>3, SliceFacts
<1>5. Append(words, x) = SubSeq(Append(s, x), p + 1, len + 1)
  BY <1>1, <1>2, <1>3, SliceMore, ZenonT(30)
<1>6. Len(Append(words, x)) = Len(words) + 1 /\ Append(words, x) \in Seq(W)
  BY <1>1, AppendFacts
<1> HIDE DEF len
<1>7. Len(Append(words, x)) = len + 1 - p /\ len + 1 - p \in 1 .. n
  BY <1>1, <1>2, <1>3, <1>4, <1>6
<1>. QED
  BY <1>2, <1>3, <1>4, <1>5, <1>6, <1>7 DEF NextWord, p, len

\* The loop ends at a word that is no number where one is wanted.
LEMMA ScanEnds ==
  ASSUME NEW W, NEW n \in GroupLengths, NEW V \in SUBSET (1 .. n), NEW s \in Seq(W), NEW x \in W,
         NEW words, NEW c, ScanRuns(W, n, V, s, words, c),
         Len(Append(words, x)) \in V, x.num = {}
  PROVE  ScanEnded(W, n, V, Append(s, x), words, c)
<1> DEFINE t == Append(s, x)
           p == n * c
           len == Len(s)
<1>t. ScanTook(W, n, V, s, words, c)
  BY DEF ScanRuns
<1>1. c \in Nat /\ p <= len /\ words \in Seq(W)
  BY DEF ScanRuns, ScanEnded, ScanTook
<1>h. NextWord(W, n, s, words, c, x)
  BY ScanHolds
<1>2. /\ p \in Nat /\ n \in Nat /\ len \in Nat /\ Len(Append(words, x)) = len + 1 - p
      /\ Len(t) = len + 1 /\ t[len + 1] = x
  BY <1>h DEF NextWord
<1>s. SameGroups(s, t, n, c)
  BY <1>t, GroupsStay
<1>3. \A k \in 1 .. c : GroupAt(t, n, k) \in GroupSet(W, n, V)
  BY <1>s, <1>t DEF ScanTook, SameGroups
<1> HIDE DEF p, t, len
<1>4. len + 1 - p \in V /\ p + (len + 1 - p) = len + 1 /\ p <= Len(t)
  BY <1>1, <1>2
<1>5. \E i \in V : p + i <= Len(t) /\ t[p + i].num = {}
  <2> DEFINE i == len + 1 - p
  <2>1. i \in V /\ p + i = len + 1
    BY <1>4
  <2> HIDE DEF i
  <2>2. p + i <= Len(t) /\ t[p + i].num = {}
    BY <1>2, <2>1
  <2>. QED
    BY <2>1, <2>2
<1>. QED
  BY <1>1, <1>3, <1>4, <1>5 DEF ScanRuns, ScanEnded, ScanTook, p, t

\* A word more of a group.
LEMMA ScanGathers ==
  ASSUME NEW W, NEW n \in GroupLengths, NEW V \in SUBSET (1 .. n), NEW s \in Seq(W), NEW x \in W,
         NEW words, NEW c, ScanRuns(W, n, V, s, words, c),
         ~(Len(Append(words, x)) \in V /\ x.num = {}), Len(Append(words, x)) < n
  PROVE  ScanRuns(W, n, V, Append(s, x), Append(words, x), c)
<1> DEFINE t == Append(s, x)
           p == n * c
           len == Len(s)
           ws == Append(words, x)
<1>t. ScanTook(W, n, V, s, words, c)
  BY DEF ScanRuns
<1>1. /\ c \in Nat /\ p <= len /\ words \in Seq(W)
      /\ \A i \in V : p + i <= len => s[p + i].num # {}
  BY DEF ScanRuns, ScanTook
<1>h. NextWord(W, n, s, words, c, x)
  BY ScanHolds
<1>2. /\ p \in Nat /\ n \in Nat /\ len \in Nat /\ Len(ws) = len + 1 - p
      /\ ws = SubSeq(t, p + 1, len + 1) /\ ws \in Seq(W)
      /\ Len(t) = len + 1 /\ t[len + 1] = x /\ \A k \in 1 .. len : t[k] = s[k]
  BY <1>h DEF NextWord
<1>s. SameGroups(s, t, n, c)
  BY <1>t, GroupsStay
<1>3. \A k \in 1 .. c : GroupAt(t, n, k) \in GroupSet(W, n, V)
  BY <1>s, <1>t DEF ScanTook, SameGroups
<1>4. ~(Len(ws) \in V /\ x.num = {}) /\ Len(ws) < n
  OBVIOUS
<1> HIDE DEF p, t, len, ws
<1>5. p <= Len(t) /\ Len(t) < p + n
  BY <1>1, <1>2, <1>4
<1>6. ASSUME NEW i \in V, p + i <= Len(t) PROVE t[p + i].num # {}
  <2>1. i \in Nat \ {0}
    BY <1>2
  <2>2. CASE p + i = len + 1
    <3>1. i = len + 1 - p
      BY <1>2, <2>1, <2>2
    <3>2. x.num # {}
      BY <1>2, <1>4, <3>1
    <3>. QED
      BY <1>2, <2>2, <3>2
  <2>3. CASE p + i # len + 1
    <3>a. p \in Nat /\ len \in Nat /\ p + i <= len + 1
      BY <1>2, <1>6
    <3>1. p + i <= len /\ p + i \in 1 .. len
      BY <2>1, <2>3, <3>a
    <3>. QED
      BY <1>1, <1>2, <3>1
  <2>. QED
    BY <2>2, <2>3
<1>7. ws = SubSeq(t, p + 1, Len(t))
  BY <1>2
<1>. QED
  BY <1>1, <1>2, <1>3, <1>5, <1>6, <1>7 DEF ScanRuns, ScanTook, p, t, ws

\* The groups of t are those of s and w.
OneGroupMore(s, t, n, c, w) == GroupsUpTo(t, n, c + 1) = Append(GroupsUpTo(s, n, c), w)

\* The last word of a group.
LEMMA ScanTakes ==
  ASSUME NEW W, NEW n \in GroupLengths, NEW V \in SUBSET (1 .. n), NEW s \in Seq(W), NEW x \in W,
         NEW words, NEW c, ScanRuns(W, n, V, s, words, c),
         ~(Len(Append(words, x)) \in V /\ x.num = {}), ~(Len(Append(words, x)) < n)
  PROVE  /\ ScanRuns(W, n, V, Append(s, x), <<>>, c + 1)
         /\ Append(words, x) \in GroupSet(W, n, V)
         /\ OneGroupMore(s, Append(s, x), n, c, Append(words, x))
<1> DEFINE t == Append(s, x)
           p == n * c
           len == Len(s)
           ws == Append(words, x)
           e == c + 1
           P == GroupSet(W, n, V)
<1>t. ScanTook(W, n, V, s, words, c)
  BY DEF ScanRuns
<1>1. /\ c \in Nat /\ p <= len /\ words \in Seq(W) /\ words = SubSeq(s, p + 1, len) /\ len < p + n
      /\ \A i \in V : p + i <= len => s[p + i].num # {}
  BY DEF ScanRuns, ScanTook
<1>h. NextWord(W, n, s, words, c, x)
  BY ScanHolds
<1>2. /\ p \in Nat /\ n \in Nat /\ len \in Nat /\ Len(ws) = len + 1 - p /\ Len(ws) \in 1 .. n
      /\ ws = SubSeq(t, p + 1, len + 1) /\ ws \in Seq(W)
      /\ Len(t) = len + 1 /\ t[len + 1] = x /\ \A k \in 1 .. len : t[k] = s[k]
  BY <1>h DEF NextWord
<1>s. SameGroups(s, t, n, c)
  BY <1>t, GroupsStay
<1>3. \A k \in 1 .. c : GroupAt(t, n, k) \in P
  BY <1>s, <1>t DEF ScanTook, SameGroups
<1>4. ~(Len(ws) \in V /\ x.num = {}) /\ Len(ws) = n
  BY <1>2
<1>5. e \in Nat /\ n * e = p + n /\ n * (e - 1) = p
  <2>1. n * (c + 1) = n * c + n /\ c + 1 - 1 = c
    BY <1>1, TimesFacts
  <2>. QED
    BY <1>1, <2>1
<1>a. t \in Seq(W)
  BY AppendFacts
<1> HIDE DEF t, len, ws
<1>6. GroupAt(t, n, e) = ws
  <2>1. n * e = len + 1
    <3> HIDE DEF p, e
    <3>. QED
      BY <1>2, <1>4, <1>5
  <2> HIDE DEF p, e
  <2>. QED
    BY <1>2, <1>5, <2>1 DEF GroupAt
<1> HIDE DEF p
<1>7. \A i \in V : ws[i].num # {}
  <2> TAKE i \in V
  <2>a. i \in 1 .. n
    OBVIOUS
  <2>b. p \in Nat /\ n \in Nat /\ len \in Nat /\ len + 1 - p = n
    BY <1>2, <1>4
  <2>c. len + 1 = p + n
    BY <2>b
  <2>1. i \in 1 .. n /\ len + 1 = p + n
    BY <2>a, <2>c
  <2>2. ws[i] = t[p + i]
    <3>1. p \in Nat /\ len + 1 \in Nat /\ p <= len + 1 /\ len + 1 <= Len(t) /\ i \in 1 .. len + 1 - p
      BY <1>1, <1>2, <2>1
    <3> DEFINE q == len + 1
    <3>2. q \in Nat /\ p <= q /\ q <= Len(t) /\ i \in 1 .. q - p /\ ws = SubSeq(t, p + 1, q)
      BY <1>2, <3>1
    <3> HIDE DEF q
    <3>. QED
      BY <1>a, <1>2, <3>2, SliceFacts
  <2>3. CASE i = n
    <3>1. p + i = len + 1
      BY <1>2, <2>1, <2>3
    <3>2. ws[i] = x
      BY <1>2, <2>2, <3>1
    <3>3. x.num # {}
      BY <1>4, <2>3
    <3>. QED
      BY <3>2, <3>3
  <2>4. CASE i # n
    <3>1. p + i <= len /\ p + i \in 1 .. len
      BY <1>2, <2>1, <2>4
    <3>. QED
      BY <1>1, <1>2, <2>2, <3>1
  <2>. QED
    BY <2>3, <2>4
<1>8. ws \in P
  BY <1>2, <1>4, <1>7 DEF GroupSet
<1>9. \A k \in 1 .. e : GroupAt(t, n, k) \in P
  <2>1. \A k \in 1 .. e : k \in 1 .. c \/ k = e
    BY <1>1
  <2> HIDE DEF e, P
  <2>. QED
    BY <1>3, <1>6, <1>8, <2>1
<1> HIDE DEF e, P
<1>10. n * e <= Len(t) /\ Len(t) < n * e + n /\ n * e = Len(t) /\ n * e \in Nat /\ n > 0
  <2>1. Len(t) = p + n /\ n > 0
    BY <1>2, <1>4
  <2>. QED
    BY <1>2, <1>5, <2>1
<1>11. <<>> = SubSeq(t, n * e + 1, Len(t))
  BY <1>a, <1>10
<1>12. \A i \in V : ~(n * e + i <= Len(t))
  BY <1>2, <1>10
<1>13. ScanRuns(W, n, V, t, <<>>, e)
  <2>1. <<>> \in Seq(W)
    OBVIOUS
  <2>. QED
    BY <1>5, <1>9, <1>10, <1>11, <1>12, <2>1 DEF ScanRuns, ScanTook, P
<1>14. GroupsUpTo(t, n, e) = Append(GroupsUpTo(s, n, c), ws)
  <2> DEFINE G == GroupsUpTo(s, n, c)
             H == GroupsUpTo(t, n, e)
             I == Append(G, ws)
  <2>1. G \in Seq(P) /\ Len(G) = c /\ DOMAIN G = 1 .. c
    BY <1>t, GroupsAreGroups DEF P
  <2>2. H \in Seq(P) /\ Len(H) = e /\ DOMAIN H = 1 .. e
    BY <1>13, GroupsAreGroups DEF P, ScanRuns
  <2>3. H = [k \in 1 .. e |-> GroupAt(t, n, k)] /\ G = [k \in 1 .. c |-> GroupAt(s, n, k)]
    BY DEF GroupsUpTo
  <2>4. \A k \in 1 .. c : GroupAt(t, n, k) = GroupAt(s, n, k)
    BY <1>s DEF SameGroups
  <2> HIDE DEF G, H
  <2>5. I \in Seq(P) /\ Len(I) = c + 1 /\ I[c + 1] = ws /\ \A k \in 1 .. c : I[k] = G[k]
    BY <1>8, <2>1, AppendFacts
  <2>6. \A k \in 1 .. e : k \in 1 .. c \/ k = c + 1
    BY <1>1 DEF e
  <2>7. e = c + 1 /\ e \in 1 .. e
    BY <1>1 DEF e
  <2> HIDE DEF I
  <2>8. \A k \in 1 .. e : H[k] = I[k]
    <3> TAKE k \in 1 .. e
    <3>1. CASE k \in 1 .. c
      BY <2>3, <2>4, <2>5, <3>1
    <3>2. CASE k = e
      BY <1>6, <2>3, <2>5, <2>7, <3>2
    <3>. QED
      BY <2>6, <2>7, <3>1, <3>2
  <2>9. H = I
    BY <2>2, <2>5, <2>7, <2>8
  <2>. QED
    BY <2>9 DEF H, I, G
<1>. QED
  BY <1>8, <1>13, <1>14 DEF OneGroupMore, t, e, ws, P

\* The groups, with the set V of the places where numbers are wanted.
GoodUpTo(s, n, V) ==
  {k \in 0 .. Len(s) \div n : \A j \in 1 .. k : \A i \in V : GroupAt(s, n, j)[i].num # {}}
\* The groups that count.
GroupsOf(s, n, V) == GroupsUpTo(s, n, Max(GoodUpTo(s, n, V)))

\* What the loop has taken is what the groups are.
LEMMA GroupsTell ==
  ASSUME NEW W, NEW n \in GroupLengths, NEW V \in SUBSET (1 .. n), NEW s \in Seq(W),
         NEW words, NEW c, ScanEnded(W, n, V, s, words, c) \/ ScanRuns(W, n, V, s, words, c)
  PROVE  GroupsOf(s, n, V) = GroupsUpTo(s, n, c)
<1> DEFINE K == GoodUpTo(s, n, V)
           d == Len(s) \div n
           p == n * c
<1>1. /\ c \in Nat /\ p <= Len(s) /\ \A k \in 1 .. c : GroupAt(s, n, k) \in GroupSet(W, n, V)
  BY DEF ScanEnded, ScanRuns, ScanTook
<1>2. Len(s) \in Nat /\ c + 1 \in Nat
  BY <1>1
<1>3. d \in Nat /\ \A k \in Nat : k <= d <=> n * k <= Len(s)
  BY <1>2, DivFacts
<1>4. p \in Nat /\ n \in Nat /\ n * (c + 1) = p + n
  BY <1>1, TimesFacts
<1>5. \A k : k \in K <=> k \in 0 .. d /\ \A j \in 1 .. k : \A i \in V : GroupAt(s, n, j)[i].num # {}
  BY DEF GoodUpTo
<1> HIDE DEF K, d
<1>6. c \in K
  <2>1. c <= d
    BY <1>1, <1>3
  <2>2. \A j \in 1 .. c : \A i \in V : GroupAt(s, n, j)[i].num # {}
    <3> DEFINE Q == GroupSet(W, n, V)
    <3>1. \A g \in Q : \A i \in V : g[i].num # {}
      BY DEF GroupSet
    <3>2. \A k \in 1 .. c : GroupAt(s, n, k) \in Q
      BY <1>1
    <3> HIDE DEF Q, p
    <3>. QED
      BY <3>1, <3>2
  <2>3. c \in 0 .. d
    BY <1>1, <1>3, <2>1
  <2>. QED
    BY <1>5, <2>2, <2>3
<1>7. ASSUME NEW k \in K, ~(k <= c) PROVE FALSE
  <2>1. k \in Nat /\ k <= d /\ c + 1 <= k /\ c + 1 \in 1 .. k /\ c + 1 <= d
    BY <1>1, <1>3, <1>5, <1>7
  <2>2. n * (c + 1) <= Len(s)
    BY <1>2, <1>3, <2>1
  <2>3. CASE ScanRuns(W, n, V, s, words, c)
    <3>1. Len(s) < p + n
      BY <2>3 DEF ScanRuns
    <3> HIDE DEF p
    <3>. QED
      BY <1>2, <1>4, <2>2, <3>1
  <2>4. CASE ScanEnded(W, n, V, s, words, c)
    <3>1. PICK i \in V : s[p + i].num = {}
      BY <2>4 DEF ScanEnded
    <3>2. GroupAt(s, n, c + 1)[i] = s[p + i]
      <4> DEFINE e == c + 1
      <4>1. e \in Nat /\ n * e <= Len(s) /\ e \in 1 .. e /\ n * (e - 1) = p /\ i \in 1 .. n
        <5>1. e - 1 = c
          BY <1>1
        <5>2. n * (e - 1) = p
          <6> HIDE DEF e
          <6>. QED
            BY <5>1
        <5>3. e \in Nat /\ n * e <= Len(s)
          BY <1>2, <2>2
        <5> HIDE DEF p, e
        <5>4. e \in 1 .. e
          BY <1>1, <5>3, <2>1 DEF e
        <5>. QED
          BY <5>2, <5>3, <5>4
      <4> HIDE DEF e, p
      <4>2. \A j \in 1 .. n : GroupAt(s, n, e)[j] = s[n * (e - 1) + j]
        BY <4>1, GroupFacts
      <4>3. GroupAt(s, n, e)[i] = s[p + i]
        BY <4>1, <4>2
      <4>. QED
        BY <4>3 DEF e
    <3>3. GroupAt(s, n, c + 1)[i].num # {}
      BY <1>5, <2>1
    <3>. QED
      BY <3>1, <3>2, <3>3
  <2>. QED
    BY <2>3, <2>4
<1>8. Max(K) = c
  <2>1. \A k \in K : k \in Nat /\ c >= k
    BY <1>1, <1>3, <1>5, <1>7
  <2>2. \A k \in K : (\A j \in K : k >= j) => k = c
    BY <1>1, <1>6, <2>1
  <2>. QED
    BY <1>6, <2>1, <2>2 DEF Max
<1>. QED
  BY <1>8 DEF GroupsOf, K

\* The groups of measures and of events.
MeasureWants == {2, 3}
\* The fields of an event that are read as numbers.
EventWants == {5}

\* The two lists of groups in these terms.
LEMMA MeasureGroups == \A s : Groups(s, 3, Measured) = GroupsOf(s, 3, MeasureWants)
<1> SUFFICES ASSUME NEW s PROVE Groups(s, 3, Measured) = GroupsOf(s, 3, MeasureWants)
  OBVIOUS
<1> DEFINE K == {k \in 0 .. Len(s) \div 3 : \A j \in 1 .. k :
                   \A i \in 1 .. 3 : Measured(i) => GroupAt(s, 3, j)[i].num # {}}
<1>1. \A i : i \in 1 .. 3 /\ Measured(i) <=> i \in MeasureWants
  BY DEF Measured, MeasureWants
<1>2. K = GoodUpTo(s, 3, MeasureWants)
  BY <1>1 DEF GoodUpTo
<1>3. Groups(s, 3, Measured) = [k \in 1 .. Max(K) |-> GroupAt(s, 3, k)]
  BY DEF Groups, GroupAt
<1> HIDE DEF K
<1>. QED
  BY <1>2, <1>3 DEF GroupsOf, GroupsUpTo

\* And those of the events.
LEMMA EventGroups == \A s : Groups(s, 5, Timed) = GroupsOf(s, 5, EventWants)
<1> SUFFICES ASSUME NEW s PROVE Groups(s, 5, Timed) = GroupsOf(s, 5, EventWants)
  OBVIOUS
<1> DEFINE K == {k \in 0 .. Len(s) \div 5 : \A j \in 1 .. k :
                   \A i \in 1 .. 5 : Timed(i) => GroupAt(s, 5, j)[i].num # {}}
<1>1. \A i : i \in 1 .. 5 /\ Timed(i) <=> i \in EventWants
  BY DEF Timed, EventWants
<1>2. K = GoodUpTo(s, 5, EventWants)
  BY <1>1 DEF GoodUpTo
<1>3. Groups(s, 5, Timed) = [k \in 1 .. Max(K) |-> GroupAt(s, 5, k)]
  BY DEF Groups, GroupAt
<1> HIDE DEF K
<1>. QED
  BY <1>2, <1>3 DEF GroupsOf, GroupsUpTo

\* A word with a number has one, which Number takes.
LEMMA NumberFacts ==
  ASSUME NEW w, Parsed(w.num, Int), w.num # {}
  PROVE  Number(w) \in Int /\ w.num = {Number(w)}
<1>1. w.num \in SUBSET Int /\ \A x, y \in w.num : x = y
  BY DEF Parsed
<1>2. Number(w) \in w.num
  BY DEF Number
<1>. QED
  BY <1>1, <1>2

\* The loop a has read the words s, and taken c groups.
Scanning(W, n, V, s, a, c) ==
  /\ a = [words |-> a.words, ended |-> a.ended, n |-> a.n] /\ a.ended \in BOOLEAN
  /\ a.ended => ScanEnded(W, n, V, s, a.words, c)
  /\ ~a.ended => ScanRuns(W, n, V, s, a.words, c)

\* With the word x the loop goes from a to b; u is what its counters become if x is the
\* last word of a group.
ScanDoes(n, V, a, x, u, b) ==
  LET ws == Append(a.words, x) IN
    b = CASE a.ended -> a
          [] ~a.ended /\ Len(ws) \in V /\ x.num = {} -> [a EXCEPT !.ended = TRUE]
          [] OTHER -> IF Len(ws) < n THEN [a EXCEPT !.words = ws]
                      ELSE [a EXCEPT !.words = <<>>, !.n = u]

\* It goes on with the groups it has, or takes one more.
ScanStays(W, n, V, t, a, b, G, c) ==
  b.n = a.n /\ Scanning(W, n, V, t, b, c) /\ GroupsUpTo(t, n, c) = G
\* or adds one more.
ScanAdds(W, n, V, t, a, x, u, b, G, c) ==
  /\ b.n = u /\ Append(a.words, x) \in GroupSet(W, n, V)
  /\ Scanning(W, n, V, t, b, c + 1)
  /\ GroupsUpTo(t, n, c + 1) = Append(G, Append(a.words, x))

\* One word does one of the two.
LEMMA ScanOnce ==
  ASSUME NEW W, NEW n \in GroupLengths, NEW V \in SUBSET (1 .. n), NEW s \in Seq(W), NEW x \in W,
         NEW a, NEW b, NEW u, NEW c, Scanning(W, n, V, s, a, c), ScanDoes(n, V, a, x, u, b)
  PROVE  \/ ScanStays(W, n, V, Append(s, x), a, b, GroupsUpTo(s, n, c), c)
         \/ ScanAdds(W, n, V, Append(s, x), a, x, u, b, GroupsUpTo(s, n, c), c)
<1> DEFINE t == Append(s, x)
           ws == Append(a.words, x)
           bad == Len(ws) \in V /\ x.num = {}
<1>1. a = [words |-> a.words, ended |-> a.ended, n |-> a.n] /\ a.ended \in BOOLEAN
  BY DEF Scanning
<1>2. b = CASE a.ended -> a
            [] ~a.ended /\ bad -> [a EXCEPT !.ended = TRUE]
            [] OTHER -> IF Len(ws) < n THEN [a EXCEPT !.words = ws]
                        ELSE [a EXCEPT !.words = <<>>, !.n = u]
  BY DEF ScanDoes
<1>3. ScanTook(W, n, V, s, a.words, c)
  BY <1>1 DEF Scanning, ScanEnded, ScanRuns
<1>4. GroupsUpTo(t, n, c) = GroupsUpTo(s, n, c)
  <2>1. SameGroups(s, t, n, c)
    BY <1>3, GroupsStay
  <2>. QED
    BY <2>1 DEF SameGroups
<1>5. CASE a.ended
  <2>1. ScanEnded(W, n, V, s, a.words, c)
    BY <1>5 DEF Scanning
  <2>2. ScanEnded(W, n, V, t, a.words, c)
    BY <2>1, ScanOver
  <2>3. b = a
    BY <1>2, <1>5
  <2>. QED
    BY <1>1, <1>4, <1>5, <2>2, <2>3 DEF ScanStays, Scanning
<1>6. CASE ~a.ended /\ bad
  <2>1. ScanRuns(W, n, V, s, a.words, c)
    BY <1>6 DEF Scanning
  <2>2. ScanEnded(W, n, V, t, a.words, c)
    BY <1>6, <2>1, ScanEnds
  <2>3. b = [a EXCEPT !.ended = TRUE]
    BY <1>2, <1>6
  <2> HIDE DEF bad, t
  <2>4. b = [words |-> a.words, ended |-> TRUE, n |-> a.n]
    BY <1>1, <2>3
  <2>5. b.words = a.words /\ b.ended = TRUE /\ b.n = a.n
    BY <2>4
  <2>. QED
    BY <1>4, <2>2, <2>4, <2>5 DEF ScanStays, Scanning, t
<1>7. CASE ~a.ended /\ ~bad /\ Len(ws) < n
  <2>1. ScanRuns(W, n, V, s, a.words, c)
    BY <1>7 DEF Scanning
  <2>2. ScanRuns(W, n, V, t, ws, c)
    BY <1>7, <2>1, ScanGathers
  <2>3. b = [a EXCEPT !.words = ws]
    BY <1>2, <1>7
  <2> HIDE DEF bad, t, ws
  <2>4. b = [words |-> ws, ended |-> a.ended, n |-> a.n]
    BY <1>1, <2>3
  <2>5. b.words = ws /\ b.ended = a.ended /\ b.n = a.n
    BY <2>4
  <2>. QED
    BY <1>1, <1>4, <1>7, <2>2, <2>4, <2>5 DEF ScanStays, Scanning, t
<1>8. CASE ~a.ended /\ ~bad /\ ~(Len(ws) < n)
  <2>1. ScanRuns(W, n, V, s, a.words, c)
    BY <1>8 DEF Scanning
  <2>2. /\ ScanRuns(W, n, V, t, <<>>, c + 1)
        /\ ws \in GroupSet(W, n, V)
        /\ GroupsUpTo(t, n, c + 1) = Append(GroupsUpTo(s, n, c), ws)
    <3>1. ScanRuns(W, n, V, t, <<>>, c + 1)
      BY <1>8, <2>1, ScanTakes
    <3>2. ws \in GroupSet(W, n, V)
      BY <1>8, <2>1, ScanTakes
    <3>3. OneGroupMore(s, t, n, c, ws)
      BY <1>8, <2>1, ScanTakes
    <3>. QED
      BY <3>1, <3>2, <3>3 DEF OneGroupMore
  <2>3. b = [a EXCEPT !.words = <<>>, !.n = u]
    BY <1>2, <1>8
  <2> HIDE DEF bad, t, ws
  <2>4. b = [words |-> <<>>, ended |-> a.ended, n |-> u]
    BY <1>1, <2>3
  <2>5. b.words = <<>> /\ b.ended = a.ended /\ b.n = u
    BY <2>4
  <2>. QED
    BY <1>1, <1>8, <2>2, <2>4, <2>5 DEF ScanAdds, Scanning, t, ws
<1>. QED
  BY <1>1, <1>5, <1>6, <1>7, <1>8

\* At the end the groups are those of the words.
LEMMA ScanTells ==
  ASSUME NEW W, NEW n \in GroupLengths, NEW V \in SUBSET (1 .. n), NEW s \in Seq(W),
         NEW a, NEW c, Scanning(W, n, V, s, a, c)
  PROVE  /\ GroupsOf(s, n, V) = GroupsUpTo(s, n, c)
         /\ GroupsUpTo(s, n, c) \in Seq(GroupSet(W, n, V))
<1>1. ScanEnded(W, n, V, s, a.words, c) \/ ScanRuns(W, n, V, s, a.words, c)
  BY DEF Scanning
<1>2. ScanTook(W, n, V, s, a.words, c)
  BY <1>1 DEF ScanEnded, ScanRuns
<1>. QED
  BY <1>1, <1>2, GroupsTell, GroupsAreGroups

\* Before the first word.
LEMMA ScannerStarts ==
  ASSUME NEW W, NEW n \in GroupLengths, NEW V \in SUBSET (1 .. n), NEW C
  PROVE  Scanning(W, n, V, <<>>, Scanner(C), 0) /\ GroupsUpTo(<<>>, n, 0) = <<>>
                                                /\ Scanner(C).n = C
<1>1. /\ Scanner(C) = [words |-> <<>>, ended |-> FALSE, n |-> C]
      /\ Scanner(C).words = <<>> /\ Scanner(C).ended = FALSE /\ Scanner(C).n = C
  BY DEF Scanner
<1>2. ScanRuns(W, n, V, <<>>, <<>>, 0) /\ GroupsUpTo(<<>>, n, 0) = <<>>
  BY ScanStarts
<1> DEFINE a == Scanner(C)
<1>3. a = [words |-> <<>>, ended |-> FALSE, n |-> C] /\ a.words = <<>> /\ a.n = C
  BY <1>1
<1>4. ~a.ended /\ a.ended \in BOOLEAN /\ a.ended = FALSE
  BY <1>1
<1> HIDE DEF a
<1>5. ScanRuns(W, n, V, <<>>, a.words, 0)
  BY <1>2, <1>3
<1>6. a = [words |-> a.words, ended |-> a.ended, n |-> a.n]
  BY <1>3, <1>4
<1>7. Scanning(W, n, V, <<>>, a, 0)
  BY <1>4, <1>5, <1>6 DEF Scanning
<1>. QED
  BY <1>2, <1>3, <1>7 DEF a

-----------------------------------------------------------------------------
\* The latencies of some events, and 0; the greatest of some numbers.
Latencies(G) == {0} \union UNION {w[5].num : w \in ToSet(G)}
\* The greatest of a set of numbers.
GreatestIn(m, S) == S \subseteq Int /\ m \in S /\ \A v \in S : v <= m

\* The words of a group are words.
LEMMA WordOfGroup == \A W : \A g \in Seq(W) : \A i \in 1 .. Len(g) : g[i] \in W
OBVIOUS

\* One group more: its latency is the greatest, or the one before is.
LEMMA LatencyStep ==
  ASSUME NEW W, \A m \in W : Parsed(m.num, Int), NEW G \in Seq(GroupSet(W, 5, EventWants)),
         NEW w \in GroupSet(W, 5, EventWants), NEW m, GreatestIn(m, Latencies(G))
  PROVE  /\ Number(w[5]) \in Int /\ w[5].num = {Number(w[5])}
         /\ GreatestIn(IF Number(w[5]) > m THEN Number(w[5]) ELSE m, Latencies(Append(G, w)))
<1> DEFINE v == Number(w[5])
<1>1. w \in Seq(W) /\ Len(w) = 5 /\ w[5].num # {}
  BY DEF GroupSet, EventWants
<1>2. w[5] \in W
  <2>1. 5 \in 1 .. Len(w) /\ w \in Seq(W)
    BY <1>1
  <2>. QED
    BY ONLY <2>1, WordOfGroup, Zenon
<1>3. v \in Int /\ w[5].num = {v}
  BY <1>1, <1>2, NumberFacts
<1>4. ToSet(Append(G, w)) = ToSet(G) \union {w}
  BY ToSetStep
<1>5. Latencies(Append(G, w)) = Latencies(G) \union {v}
  BY <1>3, <1>4 DEF Latencies
<1> HIDE DEF v
<1>6. GreatestIn(IF v > m THEN v ELSE m, Latencies(Append(G, w)))
  <2>1. m \in Int /\ Latencies(G) \subseteq Int /\ m \in Latencies(G) /\ \A x \in Latencies(G) : x <= m
    BY DEF GreatestIn
  <2>2. CASE v > m
    BY <1>3, <1>5, <2>1, <2>2 DEF GreatestIn
  <2>3. CASE ~(v > m)
    BY <1>3, <1>5, <2>1, <2>3 DEF GreatestIn
  <2>. QED
    BY <2>2, <2>3
<1>. QED
  BY <1>3, <1>6 DEF v

\* And the greatest is the maximum.
LEMMA GreatestIsMax == \A m, S : GreatestIn(m, S) => Max(S) = m
<1> SUFFICES ASSUME NEW m, NEW S, GreatestIn(m, S) PROVE Max(S) = m
  OBVIOUS
<1>1. S \subseteq Int /\ m \in S /\ \A v \in S : v <= m
  BY DEF GreatestIn
<1>2. \A v \in S : m >= v
  BY <1>1
<1>3. \A x \in S : (\A v \in S : x >= v) => x = m
  BY <1>1
<1>. QED
  BY <1>1, <1>2, <1>3 DEF Max

-----------------------------------------------------------------------------
(* Block 12: events.                                                        *)

EventWords == {"total", "publish", "consume", "retry", "errors"}
EventKeys == EventWords \union {"max_lat"}
\* The counters an event counts for, as a table.
EventCounts(w) ==
  {"total"} \union ({w[3].text} \cap {"publish", "consume", "retry"})
            \union If(w[4].text # "ok", {"errors"})
EventTable(Q) == [w \in Q |-> EventCounts(w)]

\* The counters n are those of the groups G.
EventTally(Q, G, n) ==
  /\ n \in [EventKeys -> Nat]
  /\ \A k \in EventWords : n[k] = Nr(G, CountFor(Q, EventTable(Q), k))
  /\ GreatestIn(n.max_lat, Latencies(G))

\* The tally begins with zeros,
LEMMA EventTallyStarts ==
  \A Q : EventTally(Q, <<>>, Zero({"total", "publish", "consume", "retry", "errors", "max_lat"}))
<1> SUFFICES ASSUME NEW Q
             PROVE  EventTally(Q, <<>>, Zero({"total", "publish", "consume", "retry", "errors", "max_lat"}))
  OBVIOUS
<1>1. {"total", "publish", "consume", "retry", "errors", "max_lat"} = EventKeys
  BY DEF EventKeys, EventWords
<1> DEFINE z == Zero(EventKeys)
<1>2. z \in [EventKeys -> Nat] /\ \A k \in EventKeys : z[k] = 0
  BY ZeroFacts
<1> HIDE DEF z
<1>3. \A k \in EventWords : z[k] = Nr(<<>>, CountFor(Q, EventTable(Q), k))
  BY <1>2, NrStart DEF EventKeys
<1>4. Latencies(<<>>) = {0}
  BY ToSetStart DEF Latencies
<1>5. z.max_lat = 0
  BY <1>2 DEF EventKeys
<1>6. GreatestIn(z.max_lat, Latencies(<<>>))
  BY <1>4, <1>5 DEF GreatestIn
<1>. QED
  BY <1>1, <1>2, <1>3, <1>6 DEF EventTally, z

\* and one event more adds what it counts for.
LEMMA EventTallyKeeps ==
  ASSUME NEW W, \A m \in W : Parsed(m.num, Int), NEW G \in Seq(GroupSet(W, 5, EventWants)),
         NEW w \in GroupSet(W, 5, EventWants), NEW n, EventTally(GroupSet(W, 5, EventWants), G, n)
  PROVE  EventTally(GroupSet(W, 5, EventWants), Append(G, w), UseEvent(n, w))
<1> DEFINE Q == GroupSet(W, 5, EventWants)
           S == EventCounts(w)
           v == Number(w[5])
           c == Bump(n, S)
           b == UseEvent(n, w)
           m == IF v > n.max_lat THEN v ELSE n.max_lat
<1>1. /\ n \in [EventKeys -> Nat]
      /\ \A k \in EventWords : n[k] = Nr(G, CountFor(Q, EventTable(Q), k))
      /\ GreatestIn(n.max_lat, Latencies(G))
  BY DEF EventTally
<1>2. v \in Int /\ GreatestIn(m, Latencies(Append(G, w)))
  BY <1>1, LatencyStep
<1>3. "max_lat" \notin S
  <2>1. \A k : k \in S => k = "total" \/ k \in {"publish", "consume", "retry"} \/ k = "errors"
    BY DEF EventCounts, If
  <2> HIDE DEF S
  <2>. QED
    BY <2>1
<1>4. EventTable(Q)[w] = S
  BY DEF EventTable
<1> HIDE DEF S, v
<1>5. c \in [EventKeys -> Nat] /\ \A k \in EventKeys : c[k] = n[k] + If01(k \in S)
  BY <1>1, BumpFacts
<1>6. c.max_lat = n.max_lat /\ n.max_lat \in Nat
  <2>1. "max_lat" \in EventKeys
    BY DEF EventKeys
  <2> HIDE DEF c
  <2>2. c["max_lat"] = n["max_lat"] + 0 /\ n["max_lat"] \in Nat
    BY <1>1, <1>3, <1>5, <2>1 DEF If01
  <2>. QED
    BY <2>2
<1>7. m \in Nat
  BY <1>2, <1>6
<1>8. b = [c EXCEPT !.max_lat = m]
  BY <1>6 DEF UseEvent, EventCounts, S, v
<1> HIDE DEF c, m, b
<1>9. b \in [EventKeys -> Nat] /\ b.max_lat = m /\ \A k \in EventWords : b[k] = c[k]
  <2>1. "max_lat" \in EventKeys /\ "max_lat" \notin EventWords /\ EventWords \subseteq EventKeys
    BY DEF EventKeys, EventWords
  <2>. QED
    BY <1>5, <1>7, <1>8, <2>1
<1>10. ASSUME NEW k \in EventWords
       PROVE  b[k] = Nr(Append(G, w), CountFor(Q, EventTable(Q), k))
  <2> DEFINE K == CountFor(Q, EventTable(Q), k)
  <2>1. w \in K <=> k \in S
    BY <1>4 DEF CountFor
  <2> HIDE DEF K
  <2>2. Nr(Append(G, w), K) = Nr(G, K) + If01(w \in K)
    BY NrStep
  <2>3. If01(w \in K) = If01(k \in S)
    BY <2>1 DEF If01
  <2>4. b[k] = n[k] + If01(k \in S)
    BY <1>5, <1>9 DEF EventKeys
  <2>5. n[k] = Nr(G, K)
    BY <1>1 DEF K
  <2>. QED
    BY <2>2, <2>3, <2>4, <2>5 DEF K
<1>. QED
  BY <1>2, <1>9, <1>10 DEF EventTally, b

\* The scanner of the events and the tally of what it has taken.
EventsInv(W, s, a) ==
  \E c : /\ Scanning(W, 5, EventWants, s, a, c)
         /\ EventTally(GroupSet(W, 5, EventWants), GroupsUpTo(s, 5, c), a.n)

\* Events come in groups of five words.
LEMMA FiveWords == 5 \in GroupLengths /\ EventWants \in SUBSET (1 .. 5)
BY DEF GroupLengths, EventWants

\* Nothing has been read at first,
LEMMA EventsStarts == \A W : EventsInv(W, <<>>, EventsStart)
<1> SUFFICES ASSUME NEW W PROVE EventsInv(W, <<>>, EventsStart)
  OBVIOUS
<1> DEFINE C == Zero({"total", "publish", "consume", "retry", "errors", "max_lat"})
<1>1. EventsStart = Scanner(C)
  BY DEF EventsStart
<1>2. EventTally(GroupSet(W, 5, EventWants), <<>>, C)
  BY EventTallyStarts
<1> HIDE DEF C
<1>3. /\ Scanning(W, 5, EventWants, <<>>, Scanner(C), 0) /\ GroupsUpTo(<<>>, 5, 0) = <<>>
      /\ Scanner(C).n = C
  BY FiveWords, ScannerStarts
<1>. QED
  BY <1>1, <1>2, <1>3 DEF EventsInv

\* a word is held, completes an event or ends the scan,
LEMMA EventsKeeps ==
  ASSUME NEW W, \A m \in W : WordLine(m), NEW s \in Seq(W), NEW x \in W, NEW a, EventsInv(W, s, a)
  PROVE  EventsInv(W, Append(s, x), EventsStep(a, x))
<1> DEFINE Q == GroupSet(W, 5, EventWants)
           t == Append(s, x)
           b == EventsStep(a, x)
           ws == Append(a.words, x)
           u == UseEvent(a.n, ws)
<1>0. \A m \in W : Parsed(m.num, Int)
  BY DEF WordLine
<1>1. PICK c : Scanning(W, 5, EventWants, s, a, c) /\ EventTally(Q, GroupsUpTo(s, 5, c), a.n)
  BY DEF EventsInv
<1> DEFINE G == GroupsUpTo(s, 5, c)
<1>2. ScanDoes(5, EventWants, a, x, u, b)
  <2>1. Timed(Len(ws)) <=> Len(ws) \in EventWants
    BY DEF Timed, EventWants
  <2>. QED
    BY <2>1 DEF ScanDoes, EventsStep, Scan
<1> HIDE DEF u, b
<1>3. \/ ScanStays(W, 5, EventWants, t, a, b, G, c)
      \/ ScanAdds(W, 5, EventWants, t, a, x, u, b, G, c)
  BY <1>1, <1>2, FiveWords, ScanOnce
<1>4. G \in Seq(Q)
  BY <1>1, FiveWords, ScanTells
<1>5. CASE ScanStays(W, 5, EventWants, t, a, b, G, c)
  BY <1>1, <1>5 DEF ScanStays, EventsInv, b
<1>6. CASE ScanAdds(W, 5, EventWants, t, a, x, u, b, G, c)
  <2>1. ws \in Q /\ b.n = u /\ Scanning(W, 5, EventWants, t, b, c + 1)
        /\ GroupsUpTo(t, 5, c + 1) = Append(G, ws)
    BY <1>6 DEF ScanAdds
  <2> HIDE DEF ws
  <2>2. EventTally(Q, Append(G, ws), UseEvent(a.n, ws))
    BY <1>0, <1>1, <1>4, <2>1, EventTallyKeeps
  <2>3. EventTally(Q, GroupsUpTo(t, 5, c + 1), b.n)
    BY <2>1, <2>2 DEF u, ws
  <2>. QED
    BY <2>1, <2>3 DEF EventsInv, b
<1>. QED
  BY <1>3, <1>5, <1>6

\* and then the counters say what the whole list says.
LEMMA EventsTells ==
  ASSUME NEW W, NEW s \in Seq(W), NEW a, EventsInv(W, s, a)
  PROVE  EventsMatches(s, a)
<1> DEFINE Q == GroupSet(W, 5, EventWants)
           K(k) == CountFor(Q, EventTable(Q), k)
<1>1. PICK c : Scanning(W, 5, EventWants, s, a, c) /\ EventTally(Q, GroupsUpTo(s, 5, c), a.n)
  BY DEF EventsInv
<1> DEFINE G == GroupsUpTo(s, 5, c)
<1>2. G \in Seq(Q) /\ GroupsOf(s, 5, EventWants) = G
  BY <1>1, FiveWords, ScanTells
<1>3. Groups(s, 5, Timed) = G
  BY <1>2, EventGroups
<1>4. /\ \A k \in EventWords : a.n[k] = Nr(G, K(k))
      /\ GreatestIn(a.n.max_lat, Latencies(G))
  BY <1>1 DEF EventTally
<1>5. ASSUME NEW w \in Q
      PROVE  /\ w \in K("total")
             /\ \A e \in {"publish", "consume", "retry"} : w \in K(e) <=> w[3].text = e
             /\ w \in K("errors") <=> w[4].text # "ok"
  <2>1. \A k : w \in K(k) <=> k \in EventCounts(w)
    BY DEF CountFor, EventTable
  <2> HIDE DEF K
  <2>2. /\ "total" \in EventCounts(w)
        /\ \A e \in {"publish", "consume", "retry"} : e \in EventCounts(w) <=> w[3].text = e
        /\ "errors" \in EventCounts(w) <=> w[4].text # "ok"
    BY DEF EventCounts, If
  <2>. QED
    BY <2>1, <2>2
<1> HIDE DEF K, G, Q
<1>6. \A k \in DOMAIN G : G[k] \in Q
  BY <1>2
<1>7. \A e \in {"publish", "consume", "retry"} : a.n[e] = Count(G, LAMBDA w : w[3].text = e)
  <2> TAKE e \in {"publish", "consume", "retry"}
  <2>1. \A k \in DOMAIN G : G[k] \in K(e) <=> G[k][3].text = e
    BY <1>5, <1>6
  <2>2. a.n[e] = Nr(G, K(e))
    BY <1>4 DEF EventWords
  <2>. QED
    BY <2>1, <2>2 DEF Count, Nr, Where
<1>8. a.n.errors = Count(G, LAMBDA w : w[4].text # "ok")
  <2>1. \A k \in DOMAIN G : G[k] \in K("errors") <=> G[k][4].text # "ok"
    BY <1>5, <1>6
  <2>2. a.n.errors = Nr(G, K("errors"))
    BY <1>4 DEF EventWords
  <2>. QED
    BY <2>1, <2>2 DEF Count, Nr, Where
<1>9. a.n.total = Len(G)
  <2>1. \A k \in DOMAIN G : G[k] \in K("total")
    BY <1>5, <1>6
  <2>2. a.n.total = Nr(G, K("total"))
    BY <1>4 DEF EventWords
  <2>. QED
    BY <1>2, <2>1, <2>2, NrAll
<1>10. a.n.max_lat = Max({0} \union UNION {w[5].num : w \in ToSet(G)})
  BY <1>4, GreatestIsMax DEF Latencies
<1>. QED
  BY <1>3, <1>7, <1>8, <1>9, <1>10 DEF EventsMatches

-----------------------------------------------------------------------------
(* Block 12: measures and the sum of their latencies.                       *)

\* What holds of the empty set, and of a set when it holds of it without some element, holds
\* of a finite set.
LEMMA SubsetUp ==
  ASSUME NEW S, IsFiniteSet(S), NEW Q, {} \in Q,
         \A T \in SUBSET S : T # {} => \E x \in T : T \ {x} \in Q => T \in Q
  PROVE  S \in Q
<1> DEFINE B == {T \in SUBSET S : T \notin Q}
           N == {Cardinality(T) : T \in B}
<1> SUFFICES ASSUME S \notin Q PROVE FALSE
  OBVIOUS
<1>1. \A T \in SUBSET S : IsFiniteSet(T) /\ Cardinality(T) \in Nat
  BY FS_Subset, FS_CardinalityType
<1>2. N \in SUBSET Nat /\ N # {}
  BY <1>1
<1>3. PICK m \in N : \A j \in N : m <= j
  <2> HIDE DEF N
  <2>. QED
    BY <1>2, Least
<1>4. \E T \in B : m = Cardinality(T)
  <2>1. m \in N
    BY <1>3
  <2> HIDE DEF B
  <2>. QED
    BY <2>1
<1>a. PICK T \in B : m = Cardinality(T)
  BY <1>4
<1>5. T \in SUBSET S /\ T \notin Q /\ T # {}
  <2>1. T \in SUBSET S /\ T \notin Q
    BY Zenon
  <2>2. {} \in Q
    OBVIOUS
  <2>3. ASSUME T = {} PROVE FALSE
    BY <2>1, <2>2, <2>3
  <2>. QED
    BY <2>1, <2>3
<1>6. PICK x \in T : T \ {x} \in Q => T \in Q
  BY <1>5
<1>7. T \ {x} \in B
  BY <1>5, <1>6
<1>8. Cardinality(T \ {x}) = Cardinality(T) - 1
  BY <1>1, <1>5, FS_RemoveElement
<1>9. m <= Cardinality(T \ {x}) /\ m \in Nat
  BY <1>2, <1>3, <1>7
<1>. QED
  BY <1>a, <1>8, <1>9

\* The numbers in h at the places in S make v.
Summing(h, S, w) ==
  /\ w \in [SUBSET S -> Int] /\ w[{}] = 0
  /\ \A T \in SUBSET S : \A x \in T : w[T] = w[T \ {x}] + h[x]
SumIs(h, S, v) == (\E w : Summing(h, S, w) /\ w[S] = v) /\ \A x \in S : h[x] \in Int

\* The sum of nothing.
LEMMA SumOfNone == \A h : SumIs(h, {}, 0)
<1> SUFFICES ASSUME NEW h PROVE SumIs(h, {}, 0)
  OBVIOUS
<1> DEFINE w == [T \in SUBSET {} |-> 0]
<1>1. Summing(h, {}, w) /\ w[{}] = 0
  BY DEF Summing
<1> HIDE DEF w
<1>. QED
  BY <1>1 DEF SumIs

\* One place more.
LEMMA SumOfMore ==
  ASSUME NEW h, NEW S, NEW v, SumIs(h, S, v), NEW x, x \notin S, h[x] \in Int
  PROVE  SumIs(h, S \union {x}, v + h[x])
<1>1. PICK w : Summing(h, S, w) /\ w[S] = v
  BY DEF SumIs
<1> DEFINE R == S \union {x}
           u == [T \in SUBSET R |-> IF x \in T THEN w[T \ {x}] + h[x] ELSE w[T]]
<1>2. /\ w \in [SUBSET S -> Int] /\ w[{}] = 0
      /\ \A T \in SUBSET S : \A y \in T : w[T] = w[T \ {y}] + h[y]
  BY <1>1 DEF Summing
<1>3. \A T \in SUBSET R : T \ {x} \in SUBSET S /\ (x \notin T => T \in SUBSET S)
  OBVIOUS
<1>4. \A T \in SUBSET R : u[T] = IF x \in T THEN w[T \ {x}] + h[x] ELSE w[T]
  OBVIOUS
<1>5. u \in [SUBSET R -> Int]
  <2>1. ASSUME NEW T \in SUBSET R
        PROVE  (IF x \in T THEN w[T \ {x}] + h[x] ELSE w[T]) \in Int
    <3>1. CASE x \in T
      <4>1. w[T \ {x}] \in Int
        BY <1>2, <1>3
      <4>. QED
        BY <3>1, <4>1
    <3>2. CASE x \notin T
      BY <1>2, <1>3, <3>2
    <3>. QED
      BY <3>1, <3>2
  <2>. QED
    BY <2>1
<1>6. u[{}] = 0
  BY <1>2, <1>4
<1>9. u[R] = v + h[x]
  <2>1. R \in SUBSET R /\ x \in R /\ R \ {x} = S
    OBVIOUS
  <2> HIDE DEF R, u
  <2>. QED
    BY <1>1, <1>4, <2>1
<1> HIDE DEF u
<1>7. ASSUME NEW T \in SUBSET R, NEW y \in T PROVE u[T] = u[T \ {y}] + h[y]
  <2>1. T \ {y} \in SUBSET R /\ T \ {x} \in SUBSET S /\ (T \ {x}) \ {y} \in SUBSET S
    BY <1>3
  <2>2. CASE x \notin T
    <3>1. T \in SUBSET S /\ x \notin T \ {y}
      BY <1>3, <2>2
    <3>. QED
      BY <1>2, <1>4, <2>1, <2>2, <3>1
  <2>3. CASE x \in T /\ y = x
    <3>1. u[T] = w[T \ {x}] + h[x] /\ u[T \ {x}] = w[T \ {x}]
      BY <1>4, <2>1, <2>3
    <3>. QED
      BY <2>3, <3>1
  <2>4. CASE x \in T /\ y # x
    <3>1. u[T] = w[T \ {x}] + h[x]
      BY <1>4, <2>4
    <3>2. u[T \ {y}] = w[(T \ {y}) \ {x}] + h[x]
      BY <1>4, <2>1, <2>4
    <3>3. (T \ {y}) \ {x} = (T \ {x}) \ {y} /\ y \in T \ {x}
      BY <2>4
    <3>4. w[T \ {x}] = w[(T \ {x}) \ {y}] + h[y]
      BY <1>2, <2>1, <3>3
    <3>5. w[(T \ {x}) \ {y}] \in Int /\ h[y] \in Int
      <4>1. y \in S
        BY <2>4
      <4>. QED
        BY <1>2, <2>1, <4>1 DEF SumIs
    <3>6. u[T] = w[(T \ {x}) \ {y}] + h[y] + h[x]
      BY <3>1, <3>4
    <3>7. u[T \ {y}] = w[(T \ {x}) \ {y}] + h[x]
      BY <3>2, <3>3
    <3> DEFINE z == w[(T \ {x}) \ {y}]
    <3>8. z \in Int /\ h[y] \in Int /\ h[x] \in Int
      BY <3>5
    <3> HIDE DEF z
    <3>. QED
      BY <3>6, <3>7, <3>8 DEF z
  <2>. QED
    BY <2>2, <2>3, <2>4
<1>8. Summing(h, R, u)
  BY <1>5, <1>6, <1>7 DEF Summing
<1>10. \A y \in R : h[y] \in Int
  BY DEF SumIs
<1>. QED
  BY <1>8, <1>9, <1>10 DEF SumIs, R

\* Only the places in S matter.
LEMMA SumOfSame ==
  ASSUME NEW h, NEW g, NEW S, NEW v, SumIs(h, S, v), \A x \in S : g[x] = h[x]
  PROVE  SumIs(g, S, v)
<1>1. PICK w : Summing(h, S, w) /\ w[S] = v
  BY DEF SumIs
<1>2. \A T \in SUBSET S : \A x \in T : g[x] = h[x]
  OBVIOUS
<1>3. Summing(g, S, w)
  BY <1>1, <1>2 DEF Summing
<1>. QED
  BY <1>1, <1>3 DEF SumIs

\* The fold makes the sum, in whatever order it takes the places.
LEMMA TotalOverIs ==
  ASSUME NEW h, NEW S, IsFiniteSet(S), NEW v, SumIs(h, S, v)
  PROVE  TotalOver(h, S) = v
<1> DEFINE C(T) == CHOOSE x \in T : TRUE
           Rec(f) == f = [T \in SUBSET S |-> IF T = {} THEN 0 ELSE f[T \ {C(T)}] + h[C(T)]]
           G == CHOOSE f : Rec(f)
<1>1. TotalOver(h, S) = G[S]
  BY DEF TotalOver, FoldSet, MapThenFoldSet
<1>2. PICK w : Summing(h, S, w) /\ w[S] = v
  BY DEF SumIs
<1>3. \A T : T # {} => C(T) \in T
  OBVIOUS
<1>4. /\ w \in [SUBSET S -> Int] /\ w[{}] = 0
      /\ \A T \in SUBSET S : \A x \in T : w[T] = w[T \ {x}] + h[x]
  BY <1>2 DEF Summing
<1> HIDE DEF C
<1>5. Rec(w)
  <2>1. \A T \in SUBSET S : w[T] = IF T = {} THEN 0 ELSE w[T \ {C(T)}] + h[C(T)]
    BY <1>3, <1>4
  <2>. QED
    BY <1>4, <2>1
<1>6. Rec(G)
  <2> HIDE DEF Rec
  <2>. QED
    BY <1>5
<1> HIDE DEF G
<1>7. \A T \in SUBSET S : G[T] = IF T = {} THEN 0 ELSE G[T \ {C(T)}] + h[C(T)]
  <2> DEFINE F == [T \in SUBSET S |-> IF T = {} THEN 0 ELSE G[T \ {C(T)}] + h[C(T)]]
  <2>1. G = F
    BY <1>6
  <2>2. \A T \in SUBSET S : F[T] = IF T = {} THEN 0 ELSE G[T \ {C(T)}] + h[C(T)]
    OBVIOUS
  <2> HIDE DEF F
  <2>. QED
    BY <2>1, <2>2
<1> HIDE DEF Rec
<1> DEFINE Q == {T \in SUBSET S : G[T] = w[T]}
<1>8. {} \in Q
  BY <1>4, <1>7
<1>9. \A T \in SUBSET S : T # {} => \E x \in T : T \ {x} \in Q => T \in Q
  BY <1>3, <1>4, <1>7, ZenonT(30)
<1>10. S \in Q
  <2> HIDE DEF Q
  <2>. QED
    BY <1>8, <1>9, SubsetUp
<1>. QED
  BY <1>1, <1>2, <1>10

\* The measures that count, and those of them that tell of an error.
Latent(w) == \E v \in w[2].num : v >= 0
\* A measure that is an error.
Erring(w) == Latent(w) /\ \E v \in w[3].num : v >= 500
\* The places of the measures that are taken, and of those that are errors.
TakenAt(G) == {k \in DOMAIN G : Latent(G[k])}
ErringAt(G) == {k \in DOMAIN G : Erring(G[k])}
\* The latencies, place by place.
LatencyOf(G) == [k \in DOMAIN G |-> Number(G[k][2])]

\* The counters n are those of the groups G.
MeasureTally(G, n) ==
  /\ n = [total |-> n.total, errors |-> n.errors, lat_sum |-> n.lat_sum]
  /\ n.total = Cardinality(TakenAt(G)) /\ n.errors = Cardinality(ErringAt(G))
  /\ SumIs(LatencyOf(G), TakenAt(G), n.lat_sum)

\* The tally begins with zeros.
LEMMA MeasureTallyStarts == MeasureTally(<<>>, Zero({"total", "errors", "lat_sum"}))
<1> DEFINE z == Zero({"total", "errors", "lat_sum"})
<1>1. z.total = 0 /\ z.errors = 0 /\ z.lat_sum = 0
  BY DEF Zero
<1>5. z = [total |-> z.total, errors |-> z.errors, lat_sum |-> z.lat_sum]
  BY DEF Zero
<1>2. TakenAt(<<>>) = {} /\ ErringAt(<<>>) = {}
  BY DEF TakenAt, ErringAt
<1>3. Cardinality({}) = 0
  BY FS_EmptySet
<1>4. SumIs(LatencyOf(<<>>), {}, 0)
  BY SumOfNone
<1> HIDE DEF z
<1>. QED
  BY <1>1, <1>2, <1>3, <1>4, <1>5 DEF MeasureTally, z

\* H is G with one group w more, at e.
PlacesAre(G, w, H, e) ==
  /\ TakenAt(H) = TakenAt(G) \union If(Latent(w), {e})
  /\ ErringAt(H) = ErringAt(G) \union If(Erring(w), {e})
  /\ e \notin TakenAt(G) /\ e \notin ErringAt(G)
  /\ \A k \in TakenAt(G) : LatencyOf(H)[k] = LatencyOf(G)[k]
  /\ LatencyOf(H)[e] = Number(w[2])
  /\ IsFiniteSet(TakenAt(G)) /\ IsFiniteSet(ErringAt(G))

\* One measure more at the end.
LEMMA PlacesMore ==
  ASSUME NEW Q, NEW G \in Seq(Q), NEW w \in Q
  PROVE  PlacesAre(G, w, Append(G, w), Len(G) + 1)
<1> DEFINE H == Append(G, w)
           e == Len(G) + 1
<1>1. /\ DOMAIN H = DOMAIN G \union {e} /\ e \notin DOMAIN G /\ H[e] = w
      /\ \A k \in DOMAIN G : H[k] = G[k]
      /\ Len(G) \in Nat /\ DOMAIN G = 1 .. Len(G)
  BY AppendFacts
<1>2. TakenAt(G) \in SUBSET DOMAIN G /\ ErringAt(G) \in SUBSET DOMAIN G
  BY DEF TakenAt, ErringAt
<1>3. IsFiniteSet(TakenAt(G)) /\ IsFiniteSet(ErringAt(G))
  BY <1>1, <1>2, PlacesAreFinite
<1> HIDE DEF H, e
<1>4. TakenAt(H) = TakenAt(G) \union If(Latent(w), {e})
  BY <1>1 DEF TakenAt, If
<1>5. ErringAt(H) = ErringAt(G) \union If(Erring(w), {e})
  BY <1>1 DEF ErringAt, If
<1>6. \A k \in TakenAt(G) : LatencyOf(H)[k] = LatencyOf(G)[k]
  BY <1>1, <1>2 DEF LatencyOf
<1>7. LatencyOf(H)[e] = Number(w[2])
  BY <1>1 DEF LatencyOf
<1>8. e \notin TakenAt(G) /\ e \notin ErringAt(G)
  BY <1>1, <1>2
<1>9. PlacesAre(G, w, H, e)
  BY <1>3, <1>4, <1>5, <1>6, <1>7, <1>8 DEF PlacesAre
<1>. QED
  BY <1>9 DEF H, e

\* It adds what it counts for.
LEMMA MeasureTallyKeeps ==
  ASSUME NEW W, \A m \in W : Parsed(m.num, Int), NEW G \in Seq(GroupSet(W, 3, MeasureWants)),
         NEW w \in GroupSet(W, 3, MeasureWants), NEW n, MeasureTally(G, n)
  PROVE  MeasureTally(Append(G, w), UseMeasure(n, w))
<1> DEFINE H == Append(G, w)
           e == Len(G) + 1
           v == Number(w[2])
           u == Number(w[3])
           b == UseMeasure(n, w)
           g == LatencyOf(H)
<1>1. /\ n.total = Cardinality(TakenAt(G)) /\ n.errors = Cardinality(ErringAt(G))
      /\ SumIs(LatencyOf(G), TakenAt(G), n.lat_sum)
  BY DEF MeasureTally
<1>a. n = [total |-> n.total, errors |-> n.errors, lat_sum |-> n.lat_sum]
  BY DEF MeasureTally
<1>2. w \in Seq(W) /\ Len(w) = 3 /\ w[2].num # {} /\ w[3].num # {}
  BY DEF GroupSet, MeasureWants
<1>3. w[2] \in W /\ w[3] \in W
  <2>1. 2 \in 1 .. Len(w) /\ 3 \in 1 .. Len(w) /\ w \in Seq(W)
    BY <1>2
  <2>. QED
    BY ONLY <2>1, WordOfGroup, Zenon
<1>4. v \in Int /\ w[2].num = {v} /\ u \in Int /\ w[3].num = {u}
  BY <1>2, <1>3, NumberFacts
<1>5. (Latent(w) <=> v >= 0) /\ (Erring(w) <=> v >= 0 /\ u >= 500)
  <2>1. Latent(w) <=> v >= 0
    BY <1>4 DEF Latent
  <2>. QED
    BY <1>4, <2>1 DEF Erring
<1>0. PlacesAre(G, w, H, e)
  BY PlacesMore
<1>6. /\ TakenAt(H) = TakenAt(G) \union If(Latent(w), {e})
      /\ ErringAt(H) = ErringAt(G) \union If(Erring(w), {e})
      /\ e \notin TakenAt(G) /\ e \notin ErringAt(G)
      /\ \A k \in TakenAt(G) : g[k] = LatencyOf(G)[k]
      /\ g[e] = v
      /\ IsFiniteSet(TakenAt(G)) /\ IsFiniteSet(ErringAt(G))
  BY <1>0 DEF PlacesAre
<1>7. SumIs(g, TakenAt(G), n.lat_sum)
  BY <1>1, <1>6, SumOfSame
<1>8. /\ b = IF v < 0 THEN n
             ELSE [total |-> n.total + 1, errors |-> n.errors + If01(u >= 500),
                   lat_sum |-> n.lat_sum + v]
  BY DEF UseMeasure
<1> HIDE DEF H, e, v, u, b, g
<1>9. CASE v < 0
  <2>1. TakenAt(H) = TakenAt(G) /\ ErringAt(H) = ErringAt(G)
    <3>1. ~Latent(w) /\ ~Erring(w)
      BY <1>4, <1>5, <1>9
    <3>. QED
      BY <1>6, <3>1 DEF If
  <2>2. b = n
    BY <1>8, <1>9
  <2>3. MeasureTally(H, b)
    BY <1>1, <1>a, <1>7, <2>1, <2>2 DEF MeasureTally, g
  <2>. QED
    BY <2>3 DEF H, b
<1>10. CASE ~(v < 0)
  <2>1. b.total = n.total + 1 /\ b.errors = n.errors + If01(u >= 500) /\ b.lat_sum = n.lat_sum + v
    BY <1>8, <1>10
  <2>2. Latent(w) /\ (Erring(w) <=> u >= 500)
    BY <1>4, <1>5, <1>10
  <2>3. TakenAt(H) = TakenAt(G) \union {e}
    BY <1>6, <2>2 DEF If
  <2>4. b.total = Cardinality(TakenAt(H))
    <3>1. Cardinality(TakenAt(G) \union {e}) = Cardinality(TakenAt(G)) + 1
      BY <1>6, FS_AddElement
    <3>. QED
      BY <1>1, <2>1, <2>3, <3>1
  <2>5. b.errors = Cardinality(ErringAt(H))
    <3>1. Cardinality(ErringAt(G) \union {e}) = Cardinality(ErringAt(G)) + 1
      BY <1>6, FS_AddElement
    <3>2. Cardinality(ErringAt(G)) \in Nat
      BY <1>6, FS_CardinalityType
    <3>3. CASE u >= 500
      <4>1. ErringAt(H) = ErringAt(G) \union {e}
        BY <1>6, <2>2, <3>3 DEF If
      <4>. QED
        BY <1>1, <2>1, <3>1, <3>3, <4>1 DEF If01
    <3>4. CASE ~(u >= 500)
      <4>1. ErringAt(H) = ErringAt(G)
        BY <1>6, <2>2, <3>4 DEF If
      <4>. QED
        BY <1>1, <2>1, <3>2, <3>4, <4>1 DEF If01
    <3>. QED
      BY <3>3, <3>4
  <2>6. SumIs(g, TakenAt(G) \union {e}, n.lat_sum + g[e])
    <3>1. g[e] \in Int
      BY <1>4, <1>6
    <3>. QED
      BY <1>6, <1>7, <3>1, SumOfMore
  <2>7. SumIs(g, TakenAt(H), b.lat_sum)
    BY <1>6, <2>1, <2>3, <2>6
  <2>9. b = [total |-> b.total, errors |-> b.errors, lat_sum |-> b.lat_sum]
    <3>1. b = [total |-> n.total + 1, errors |-> n.errors + If01(u >= 500),
               lat_sum |-> n.lat_sum + v]
      BY <1>8, <1>10
    <3>. QED
      BY <2>1, <3>1
  <2>8. MeasureTally(H, b)
    BY <2>4, <2>5, <2>7, <2>9 DEF MeasureTally, g
  <2>. QED
    BY <2>8 DEF H, b
<1>. QED
  BY <1>4, <1>9, <1>10

\* The scanner of the measures and the tally of what it has taken.
MeasureInv(W, s, a) ==
  \E c : Scanning(W, 3, MeasureWants, s, a, c) /\ MeasureTally(GroupsUpTo(s, 3, c), a.n)

\* Measures come in groups of three words.
LEMMA ThreeWords == 3 \in GroupLengths /\ MeasureWants \in SUBSET (1 .. 3)
BY DEF GroupLengths, MeasureWants

\* Nothing has been read at first,
LEMMA MeasureStarts == \A W : MeasureInv(W, <<>>, MeasureStart)
<1> SUFFICES ASSUME NEW W PROVE MeasureInv(W, <<>>, MeasureStart)
  OBVIOUS
<1> DEFINE C == Zero({"total", "errors", "lat_sum"})
<1>1. MeasureStart = Scanner(C)
  BY DEF MeasureStart
<1>2. MeasureTally(<<>>, C)
  BY MeasureTallyStarts
<1> HIDE DEF C
<1>3. /\ Scanning(W, 3, MeasureWants, <<>>, Scanner(C), 0) /\ GroupsUpTo(<<>>, 3, 0) = <<>>
      /\ Scanner(C).n = C
  BY ThreeWords, ScannerStarts
<1>. QED
  BY <1>1, <1>2, <1>3 DEF MeasureInv

\* a word is held, completes a measure or ends the scan,
LEMMA MeasureKeeps ==
  ASSUME NEW W, \A m \in W : WordLine(m), NEW s \in Seq(W), NEW x \in W, NEW a, MeasureInv(W, s, a)
  PROVE  MeasureInv(W, Append(s, x), MeasureStep(a, x))
<1> DEFINE Q == GroupSet(W, 3, MeasureWants)
           t == Append(s, x)
           b == MeasureStep(a, x)
           ws == Append(a.words, x)
           u == UseMeasure(a.n, ws)
<1>0. \A m \in W : Parsed(m.num, Int)
  BY DEF WordLine
<1>1. PICK c : Scanning(W, 3, MeasureWants, s, a, c) /\ MeasureTally(GroupsUpTo(s, 3, c), a.n)
  BY DEF MeasureInv
<1> DEFINE G == GroupsUpTo(s, 3, c)
<1>2. ScanDoes(3, MeasureWants, a, x, u, b)
  <2>1. Measured(Len(ws)) <=> Len(ws) \in MeasureWants
    BY DEF Measured, MeasureWants
  <2>. QED
    BY <2>1 DEF ScanDoes, MeasureStep, Scan
<1> HIDE DEF u, b
<1>3. \/ ScanStays(W, 3, MeasureWants, t, a, b, G, c)
      \/ ScanAdds(W, 3, MeasureWants, t, a, x, u, b, G, c)
  BY <1>1, <1>2, ThreeWords, ScanOnce
<1>4. G \in Seq(Q)
  BY <1>1, ThreeWords, ScanTells
<1>5. CASE ScanStays(W, 3, MeasureWants, t, a, b, G, c)
  BY <1>1, <1>5 DEF ScanStays, MeasureInv, b
<1>6. CASE ScanAdds(W, 3, MeasureWants, t, a, x, u, b, G, c)
  <2>1. ws \in Q /\ b.n = u /\ Scanning(W, 3, MeasureWants, t, b, c + 1)
        /\ GroupsUpTo(t, 3, c + 1) = Append(G, ws)
    BY <1>6 DEF ScanAdds
  <2> HIDE DEF ws
  <2>2. MeasureTally(Append(G, ws), UseMeasure(a.n, ws))
    BY <1>0, <1>1, <1>4, <2>1, MeasureTallyKeeps
  <2>3. MeasureTally(GroupsUpTo(t, 3, c + 1), b.n)
    BY <2>1, <2>2 DEF u, ws
  <2>. QED
    BY <2>1, <2>3 DEF MeasureInv, b
<1>. QED
  BY <1>3, <1>5, <1>6

\* and then the counters say what the whole list says.
LEMMA MeasureTells ==
  ASSUME NEW W, NEW s \in Seq(W), NEW a, MeasureInv(W, s, a)
  PROVE  MeasureMatches(s, a)
<1>1. PICK c : Scanning(W, 3, MeasureWants, s, a, c) /\ MeasureTally(GroupsUpTo(s, 3, c), a.n)
  BY DEF MeasureInv
<1> DEFINE G == GroupsUpTo(s, 3, c)
           Q == GroupSet(W, 3, MeasureWants)
           Taken == {k \in DOMAIN G : \E v \in G[k][2].num : v >= 0}
           Latency == [k \in DOMAIN G |-> Number(G[k][2])]
<1>2. G \in Seq(Q) /\ GroupsOf(s, 3, MeasureWants) = G
  BY <1>1, ThreeWords, ScanTells
<1>3. Groups(s, 3, Measured) = G
  BY <1>2, MeasureGroups
<1>4. /\ a.n.total = Cardinality(TakenAt(G)) /\ a.n.errors = Cardinality(ErringAt(G))
      /\ SumIs(LatencyOf(G), TakenAt(G), a.n.lat_sum)
  BY <1>1 DEF MeasureTally
<1> HIDE DEF G, Q
<1>5. TakenAt(G) = Taken /\ LatencyOf(G) = Latency
  BY DEF TakenAt, Latent, LatencyOf
<1>6. ErringAt(G) = {k \in Taken : \E v \in G[k][3].num : v >= 500}
  BY DEF ErringAt, Erring, Latent
<1>7. IsFiniteSet(TakenAt(G))
  <2>1. Len(G) \in Nat /\ DOMAIN G = 1 .. Len(G) /\ TakenAt(G) \in SUBSET DOMAIN G
    BY <1>2 DEF TakenAt
  <2>. QED
    BY <2>1, PlacesAreFinite
<1>8. TotalOver(LatencyOf(G), TakenAt(G)) = a.n.lat_sum
  BY <1>4, <1>7, TotalOverIs
<1>9. a.n.lat_sum = TotalOver(Latency, Taken)
  BY <1>5, <1>8
<1>10. a.n.total = Cardinality(Taken)
  BY <1>4, <1>5
<1>11. a.n.errors = Cardinality({k \in Taken : \E v \in G[k][3].num : v >= 500})
  BY <1>4, <1>6
<1>. QED
  BY <1>3, <1>9, <1>10, <1>11, ZenonT(40) DEF MeasureMatches

-----------------------------------------------------------------------------
(* Block 12: the demand of the jobs.                                        *)

\* The lines that are jobs, and those that are none; what a job asks for; and the lines of
\* the other file that offer something.
GoodJobs(X) == {m \in X : m.of = "jobs" /\ ValidJob(Fields(m.pieces))}
\* The other lines of the jobs.
BadJobs(X) == {m \in X : m.of = "jobs" /\ ~ValidJob(Fields(m.pieces))}
\* What a job asks for, and the same by the place of its line.
Asked(m, k) == Number(Fields(m.pieces)[k])
AskedAt(s, k) == [i \in DOMAIN s |-> Asked(s[i], k)]
\* The lines of the capacity that offer something.
InBounds(m) == InRange(m, 1, MostFree)
Offers(X, k) == {m \in X : m.of = "capacity" /\ m.key = k /\ InBounds(m)}
\* What the lines offer.
OfferedBy(L) == UNION {m.num : m \in L}

\* The sums of what the jobs ask for, and the last offers.
DemandInv(X, s, a) ==
  /\ a = [valid |-> a.valid, invalid |-> a.invalid, cpu_needed |-> a.cpu_needed,
          mem_needed |-> a.mem_needed, cap |-> a.cap]
  /\ a.valid = Nr(s, GoodJobs(X)) /\ a.invalid = Nr(s, BadJobs(X))
  /\ SumIs(AskedAt(s, 3), Where(s, GoodJobs(X)), a.cpu_needed)
  /\ SumIs(AskedAt(s, 4), Where(s, GoodJobs(X)), a.mem_needed)
  /\ a.cap = [k \in CapacityKey |-> OfferedBy(Latest(s, Offers(X, k)))]

\* Nothing is asked and nothing offered at first,
LEMMA DemandStarts == \A X : DemandInv(X, <<>>, DemandStart)
<1> SUFFICES ASSUME NEW X PROVE DemandInv(X, <<>>, DemandStart)
  OBVIOUS
<1> DEFINE a == DemandStart
<1>1. a = [valid |-> 0, invalid |-> 0, cpu_needed |-> 0, mem_needed |-> 0,
           cap |-> [k \in CapacityKey |-> {}]]
  BY DEF DemandStart
<1> HIDE DEF a
<1>2. /\ a.valid = 0 /\ a.invalid = 0 /\ a.cpu_needed = 0 /\ a.mem_needed = 0
      /\ a.cap = [k \in CapacityKey |-> {}]
  BY <1>1
<1>3. Nr(<<>>, GoodJobs(X)) = 0 /\ Nr(<<>>, BadJobs(X)) = 0
  BY NrStart
<1>4. Where(<<>>, GoodJobs(X)) = {}
  BY DEF Where
<1>5. SumIs(AskedAt(<<>>, 3), {}, 0) /\ SumIs(AskedAt(<<>>, 4), {}, 0)
  BY SumOfNone
<1>6. \A k : OfferedBy(Latest(<<>>, Offers(X, k))) = {}
  BY LatestStart DEF OfferedBy
<1>7. a.cap = [k \in CapacityKey |-> OfferedBy(Latest(<<>>, Offers(X, k)))]
  BY <1>2, <1>6
<1>8. a = [valid |-> a.valid, invalid |-> a.invalid, cpu_needed |-> a.cpu_needed,
           mem_needed |-> a.mem_needed, cap |-> a.cap]
  BY <1>1, <1>2
<1>. QED
  BY <1>2, <1>3, <1>4, <1>5, <1>7, <1>8 DEF DemandInv, a

\* What a job asks for is a number.
LEMMA AskedIsNumber ==
  ASSUME NEW X, \A m \in X : DemandLine(m), NEW l \in GoodJobs(X), NEW k \in {3, 4}
  PROVE  Asked(l, k) \in Int
<1> DEFINE d == l.pieces
           f == Fields(d)
<1>1. l \in X /\ l.of = "jobs" /\ ValidJob(f)
  BY DEF GoodJobs
<1>2. PiecesLine(d)
  BY <1>1 DEF DemandLine
<1>3. d \in Seq(Word) /\ \A i \in DOMAIN d : Parsed(d[i].num, Int)
  BY <1>2 DEF PiecesLine
<1>4. Len(f) = 5 /\ f[3].num # {} /\ f[4].num # {}
  <2> HIDE DEF f
  <2>1. ValidJob(f)
    BY <1>1
  <2>2. Len(f) = 5 /\ InRange(f[3], MinCpu, MostCpu) /\ InRange(f[4], 64, 16384)
    BY <2>1 DEF ValidJob
  <2>3. InRange(f[3], MinCpu, MostCpu) => f[3].num # {}
    BY DEF InRange
  <2>4. InRange(f[4], 64, 16384) => f[4].num # {}
    BY SMTT(30) DEF InRange
  <2>. QED
    BY <2>2, <2>3, <2>4
<1>5. k \in 1 .. Len(f) /\ f[k].num # {}
  BY <1>4
<1> HIDE DEF d
<1>6. Nth(d, k) \in DOMAIN d /\ f[k] = d[Nth(d, k)]
  BY <1>3, <1>5, FieldsTell
<1>7. Parsed(f[k].num, Int)
  BY <1>3, <1>6
<1> HIDE DEF f
<1>8. Number(f[k]) \in Int
  BY <1>5, <1>7, NumberFacts
<1>. QED
  BY <1>8 DEF Asked, f, d

\* A line more, and what the jobs ask for together.
LEMMA AskedMore ==
  ASSUME NEW X, \A m \in X : DemandLine(m), NEW s \in Seq(X), NEW l \in X, NEW k \in {3, 4},
         NEW v, SumIs(AskedAt(s, k), Where(s, GoodJobs(X)), v)
  PROVE  /\ l \in GoodJobs(X) =>
              SumIs(AskedAt(Append(s, l), k), Where(Append(s, l), GoodJobs(X)), v + Asked(l, k))
         /\ l \notin GoodJobs(X) =>
              SumIs(AskedAt(Append(s, l), k), Where(Append(s, l), GoodJobs(X)), v)
<1> DEFINE t == Append(s, l)
           e == Len(s) + 1
           Q == GoodJobs(X)
           g == AskedAt(t, k)
           S == Where(s, Q)
<1>1. /\ DOMAIN t = DOMAIN s \union {e} /\ e \notin DOMAIN s /\ t[e] = l
      /\ \A i \in DOMAIN s : t[i] = s[i]
  BY AppendFacts
<1>2. S \in SUBSET DOMAIN s /\ e \notin S
  BY <1>1 DEF Where
<1> HIDE DEF t, e, Q
<1>3. \A i \in DOMAIN t : g[i] = Asked(t[i], k)
  BY DEF AskedAt
<1>4. g[e] = Asked(l, k)
  BY <1>1, <1>3
<1>5. \A i \in S : g[i] = AskedAt(s, k)[i]
  BY <1>1, <1>2 DEF AskedAt
<1> HIDE DEF g, S
<1>6. SumIs(AskedAt(s, k), S, v)
  BY DEF S, Q
<1>7. SumIs(g, S, v)
  BY <1>5, <1>6, SumOfSame
<1>8. CASE l \in Q
  <2>1. Asked(l, k) \in Int
    BY <1>8, AskedIsNumber DEF Q
  <2>2. Where(t, Q) = S \union {e}
    BY <1>1, <1>8 DEF Where, S
  <2>3. SumIs(g, S \union {e}, v + g[e])
    BY <1>2, <1>4, <1>7, <2>1, SumOfMore
  <2>4. SumIs(g, Where(t, Q), v + Asked(l, k))
    BY <1>4, <2>2, <2>3
  <2>. QED
    BY <1>8, <2>4 DEF g, t, Q
<1>9. CASE l \notin Q
  <2>1. Where(t, Q) = S
    BY <1>1, <1>9 DEF Where, S
  <2>2. SumIs(g, Where(t, Q), v)
    BY <1>7, <2>1
  <2>. QED
    BY <1>9, <2>2 DEF g, t, Q
<1>. QED
  BY <1>8, <1>9 DEF Q

\* What the last lines of the keys offer, after one line more.
LEMMA OffersMore ==
  ASSUME NEW X, NEW s \in Seq(X), NEW l \in X, NEW cap,
         cap = [k \in CapacityKey |-> OfferedBy(Latest(s, Offers(X, k)))]
  PROVE  (IF l.of = "capacity" THEN Provide(cap, l) ELSE cap)
           = [k \in CapacityKey |-> OfferedBy(Latest(Append(s, l), Offers(X, k)))]
<1> DEFINE V(k) == OfferedBy(Latest(s, Offers(X, k)))
           W(k) == OfferedBy(Latest(Append(s, l), Offers(X, k)))
           good == l.of = "capacity" /\ InBounds(l)
           b == IF l.of = "capacity" THEN Provide(cap, l) ELSE cap
<1>1. cap = [k \in CapacityKey |-> V(k)]
  OBVIOUS
<1>2. \A k : W(k) = IF l.key = k /\ good THEN l.num ELSE V(k)
  <2> TAKE k
  <2>1. l \in Offers(X, k) <=> l.key = k /\ good
    BY DEF Offers
  <2>2. Latest(Append(s, l), Offers(X, k))
          = IF l \in Offers(X, k) THEN {l} ELSE Latest(s, Offers(X, k))
    BY LatestStep
  <2>3. UNION {m.num : m \in {l}} = l.num
    OBVIOUS
  <2> HIDE DEF good
  <2>. QED
    BY <2>1, <2>2, <2>3 DEF OfferedBy
<1>3. Provide(cap, l) = IF l.key \notin CapacityKey \/ ~InBounds(l) THEN cap
                        ELSE [cap EXCEPT ![l.key] = l.num]
  BY DEF Provide, InBounds
<1>4. b = IF l.key \notin CapacityKey \/ ~good THEN cap ELSE [cap EXCEPT ![l.key] = l.num]
  BY <1>3
<1> HIDE DEF V, W, good, b
<1>5. CASE l.key \notin CapacityKey \/ ~good
  <2>1. b = cap
    BY <1>4, <1>5
  <2>2. \A k \in CapacityKey : W(k) = V(k)
    BY <1>2, <1>5
  <2>3. b = [k \in CapacityKey |-> W(k)]
    BY <1>1, <2>1, <2>2
  <2>. QED
    BY <2>3 DEF W, b
<1>6. CASE l.key \in CapacityKey /\ good
  <2>1. b = [cap EXCEPT ![l.key] = l.num]
    BY <1>4, <1>6
  <2>2. \A k \in CapacityKey : W(k) = IF k = l.key THEN l.num ELSE cap[k]
    BY <1>1, <1>2, <1>6
  <2>3. DOMAIN cap = CapacityKey
    BY <1>1
  <2>4. b = [k \in CapacityKey |-> IF k = l.key THEN l.num ELSE cap[k]]
    BY <2>1, <2>3
  <2>5. b = [k \in CapacityKey |-> W(k)]
    BY <2>2, <2>4
  <2>. QED
    BY <2>5 DEF W, b
<1>. QED
  BY <1>5, <1>6

\* There is one last line of a kind at most.
LEMMA LatestIsOne ==
  ASSUME NEW X, NEW s \in Seq(X), NEW Q
  PROVE  \A m, n \in Latest(s, Q) : m = n
<1>1. Len(s) \in Nat /\ DOMAIN s = 1 .. Len(s)
  OBVIOUS
<1>2. ASSUME NEW i \in Where(s, Q), NEW j \in Where(s, Q), LastAt(s, Q, i), LastAt(s, Q, j)
      PROVE  i = j
  <2>1. /\ i \in 1 .. Len(s) /\ s[i] \in Q /\ j \in 1 .. Len(s) /\ s[j] \in Q
    BY <1>1 DEF Where
  <2>2. j \notin i + 1 .. Len(s) /\ i \notin j + 1 .. Len(s)
    BY <1>2, <2>1 DEF LastAt
  <2>. QED
    BY <1>1, <2>1, <2>2
<1>. QED
  BY <1>2 DEF Latest

\* With one line more the counters and sums are those of one line more.
LEMMA DemandKeeps ==
  ASSUME NEW X, \A m \in X : DemandLine(m), NEW s \in Seq(X), NEW l \in X, NEW a,
         DemandInv(X, s, a)
  PROVE  DemandInv(X, Append(s, l), DemandStep(a, l))
<1> DEFINE t == Append(s, l)
           b == DemandStep(a, l)
           f == Fields(l.pieces)
           c == [k \in CapacityKey |-> OfferedBy(Latest(t, Offers(X, k)))]
<1>1. a = [valid |-> a.valid, invalid |-> a.invalid, cpu_needed |-> a.cpu_needed,
           mem_needed |-> a.mem_needed, cap |-> a.cap]
  BY DEF DemandInv
<1>2. a.valid = Nr(s, GoodJobs(X)) /\ a.invalid = Nr(s, BadJobs(X))
  BY DEF DemandInv
<1>3. /\ SumIs(AskedAt(s, 3), Where(s, GoodJobs(X)), a.cpu_needed)
      /\ SumIs(AskedAt(s, 4), Where(s, GoodJobs(X)), a.mem_needed)
  BY DEF DemandInv
<1>4. (IF l.of = "capacity" THEN Provide(a.cap, l) ELSE a.cap) = c
  BY OffersMore DEF DemandInv
<1>5. l.of \in {"jobs", "capacity"}
  BY DEF DemandLine
<1>6. /\ Nr(t, GoodJobs(X)) = Nr(s, GoodJobs(X)) + If01(l \in GoodJobs(X))
      /\ Nr(t, BadJobs(X)) = Nr(s, BadJobs(X)) + If01(l \in BadJobs(X))
      /\ Nr(s, GoodJobs(X)) \in Nat /\ Nr(s, BadJobs(X)) \in Nat
  BY NrStep
<1>7. /\ l \in GoodJobs(X) <=> l.of = "jobs" /\ ValidJob(f)
      /\ l \in BadJobs(X) <=> l.of = "jobs" /\ ~ValidJob(f)
  BY DEF GoodJobs, BadJobs
<1>8. b = IF l.of = "jobs" THEN Demand(a, f) ELSE [a EXCEPT !.cap = Provide(@, l)]
  BY DEF DemandStep
<1> HIDE DEF c, b, t
<1>9. CASE l \in GoodJobs(X)
  <2>1. l.of = "jobs" /\ ValidJob(f) /\ l \notin BadJobs(X)
    BY <1>7, <1>9
  <2>2. b = [a EXCEPT !.valid = @ + 1, !.cpu_needed = @ + Number(f[3]),
                      !.mem_needed = @ + Number(f[4])]
    BY <1>8, <2>1 DEF Demand
  <2>3. Asked(l, 3) = Number(f[3]) /\ Asked(l, 4) = Number(f[4])
    BY DEF Asked
  <2> HIDE DEF f
  <2>4. b = [valid |-> a.valid + 1, invalid |-> a.invalid, cpu_needed |-> a.cpu_needed + Asked(l, 3),
             mem_needed |-> a.mem_needed + Asked(l, 4), cap |-> a.cap]
    BY <1>1, <2>2, <2>3
  <2>5. /\ b.valid = a.valid + 1 /\ b.invalid = a.invalid
        /\ b.cpu_needed = a.cpu_needed + Asked(l, 3)
        /\ b.mem_needed = a.mem_needed + Asked(l, 4) /\ b.cap = a.cap
    BY <2>4
  <2>6. a.cap = c
    BY <1>4, <2>1
  <2>7. /\ SumIs(AskedAt(t, 3), Where(t, GoodJobs(X)), b.cpu_needed)
        /\ SumIs(AskedAt(t, 4), Where(t, GoodJobs(X)), b.mem_needed)
    BY <1>3, <1>9, <2>5, AskedMore DEF t
  <2>8. b.valid = Nr(t, GoodJobs(X)) /\ b.invalid = Nr(t, BadJobs(X))
    BY <1>2, <1>6, <1>9, <2>1, <2>5 DEF If01
  <2>9. b = [valid |-> b.valid, invalid |-> b.invalid, cpu_needed |-> b.cpu_needed,
             mem_needed |-> b.mem_needed, cap |-> b.cap]
    BY <2>4, <2>5
  <2>. QED
    BY <2>5, <2>6, <2>7, <2>8, <2>9 DEF DemandInv, b, t, c
<1>10. CASE l \in BadJobs(X)
  <2>1. l.of = "jobs" /\ ~ValidJob(f) /\ l \notin GoodJobs(X)
    BY <1>7, <1>10
  <2>2. b = [a EXCEPT !.invalid = @ + 1]
    BY <1>8, <2>1 DEF Demand
  <2> HIDE DEF f
  <2>4. b = [valid |-> a.valid, invalid |-> a.invalid + 1, cpu_needed |-> a.cpu_needed,
             mem_needed |-> a.mem_needed, cap |-> a.cap]
    BY <1>1, <2>2
  <2>5. /\ b.valid = a.valid /\ b.invalid = a.invalid + 1
        /\ b.cpu_needed = a.cpu_needed /\ b.mem_needed = a.mem_needed /\ b.cap = a.cap
    BY <2>4
  <2>6. a.cap = c
    BY <1>4, <2>1
  <2>7. /\ SumIs(AskedAt(t, 3), Where(t, GoodJobs(X)), b.cpu_needed)
        /\ SumIs(AskedAt(t, 4), Where(t, GoodJobs(X)), b.mem_needed)
    BY <1>3, <2>1, <2>5, AskedMore DEF t
  <2>8. b.valid = Nr(t, GoodJobs(X)) /\ b.invalid = Nr(t, BadJobs(X))
    BY <1>2, <1>6, <1>10, <2>1, <2>5 DEF If01
  <2>9. b = [valid |-> b.valid, invalid |-> b.invalid, cpu_needed |-> b.cpu_needed,
             mem_needed |-> b.mem_needed, cap |-> b.cap]
    BY <2>4, <2>5
  <2>. QED
    BY <2>5, <2>6, <2>7, <2>8, <2>9 DEF DemandInv, b, t, c
<1>11. CASE l.of = "capacity"
  <2>1. l \notin BadJobs(X) /\ l \notin GoodJobs(X)
    BY <1>7, <1>11
  <2>2. b = [a EXCEPT !.cap = Provide(@, l)]
    BY <1>8, <1>11
  <2>3. Provide(a.cap, l) = c
    BY <1>4, <1>11
  <2> HIDE DEF f
  <2>4. b = [valid |-> a.valid, invalid |-> a.invalid, cpu_needed |-> a.cpu_needed,
             mem_needed |-> a.mem_needed, cap |-> c]
    BY <1>1, <2>2, <2>3
  <2>5. /\ b.valid = a.valid /\ b.invalid = a.invalid
        /\ b.cpu_needed = a.cpu_needed /\ b.mem_needed = a.mem_needed /\ b.cap = c
    BY <2>4
  <2>7. /\ SumIs(AskedAt(t, 3), Where(t, GoodJobs(X)), b.cpu_needed)
        /\ SumIs(AskedAt(t, 4), Where(t, GoodJobs(X)), b.mem_needed)
    BY <1>3, <2>1, <2>5, AskedMore DEF t
  <2>8. b.valid = Nr(t, GoodJobs(X)) /\ b.invalid = Nr(t, BadJobs(X))
    BY <1>2, <1>6, <2>1, <2>5 DEF If01
  <2>9. b = [valid |-> b.valid, invalid |-> b.invalid, cpu_needed |-> b.cpu_needed,
             mem_needed |-> b.mem_needed, cap |-> b.cap]
    BY <2>4, <2>5
  <2>. QED
    BY <2>5, <2>7, <2>8, <2>9 DEF DemandInv, b, t, c
<1>. QED
  BY <1>5, <1>7, <1>9, <1>10, <1>11

\* What is offered of one kind is one number that is not below 1, or none.
LEMMA OfferedIsOne ==
  ASSUME NEW X, \A m \in X : DemandLine(m), NEW s \in Seq(X), NEW k
  PROVE  /\ OfferedBy(Latest(s, Offers(X, k))) \in SUBSET Int
         /\ \A v, w \in OfferedBy(Latest(s, Offers(X, k))) : v = w
         /\ \A v \in OfferedBy(Latest(s, Offers(X, k))) : v >= 1
<1> DEFINE L == Latest(s, Offers(X, k))
<1>1. \A m, n \in L : m = n
  BY LatestIsOne
<1>2. ASSUME NEW m \in L PROVE m \in X /\ m.of = "capacity" /\ InBounds(m)
  <2>1. m \in Offers(X, k)
    BY LatestIs
  <2>. QED
    BY <2>1 DEF Offers
<1> HIDE DEF L
<1>3. ASSUME NEW m \in L PROVE Parsed(m.num, Int)
  BY <1>2 DEF DemandLine
<1>4. ASSUME NEW m \in L PROVE \E v \in m.num : v >= 1
  <2>1. MostFree \in Int
    BY DEF MostFree
  <2>2. InRange(m, 1, MostFree)
    BY <1>2 DEF InBounds
  <2>. QED
    BY <2>1, <2>2 DEF InRange
<1>5. ASSUME NEW m \in L PROVE m.num \in SUBSET Int /\ \A v, w \in m.num : v = w
  BY <1>3 DEF Parsed
<1>6. ASSUME NEW m \in L PROVE \A v \in m.num : v >= 1
  BY <1>4, <1>5
<1>. QED
  BY <1>1, <1>5, <1>6 DEF OfferedBy, L

\* The last lines that offer something are those the report looks at.
LEMMA OffersAreLast ==
  ASSUME NEW X, NEW s \in Seq(X), NEW k
  PROVE  LastOf(s, LAMBDA m : m.of = "capacity" /\ m.key = k /\ InRange(m, 1, MostFree))
           = Latest(s, Offers(X, k))
<1>1. \A i \in DOMAIN s : s[i] \in X
  OBVIOUS
<1>2. \A i \in DOMAIN s : s[i] \in Offers(X, k)
         <=> s[i].of = "capacity" /\ s[i].key = k /\ InRange(s[i], 1, MostFree)
  BY <1>1 DEF Offers, InBounds
<1>3. \A i \in DOMAIN s : \A j \in i + 1 .. Len(s) : j \in DOMAIN s
  OBVIOUS
<1>4. \A i \in DOMAIN s : LastAt(s, Offers(X, k), i)
        <=> \A j \in i + 1 .. Len(s) :
              ~(s[j].of = "capacity" /\ s[j].key = k /\ InRange(s[j], 1, MostFree))
  BY <1>2, <1>3 DEF LastAt
<1>. QED
  BY <1>2, <1>4 DEF LastOf, Latest, Where

\* The jobs fit when what they ask for is at most the one number that is offered.
LEMMA FitsOne ==
  ASSUME NEW N \in SUBSET Int, \A v, w \in N : v = w, N # {}, NEW n
  PROVE  /\ (CHOOSE v \in N : TRUE) \in N
         /\ n <= (CHOOSE v \in N : TRUE) <=> \E v \in N : n <= v
<1> DEFINE c == CHOOSE v \in N : TRUE
<1>1. c \in N
  OBVIOUS
<1> HIDE DEF c
<1>2. \A v \in N : v = c
  BY <1>1
<1>3. n <= c <=> \E v \in N : n <= v
  BY <1>1, <1>2
<1>. QED
  BY <1>1, <1>3 DEF c

\* The report, of the numbers the loop has: how many jobs are good and bad, what they ask
\* for, and what is offered.
ReportSays(a, good, bad, cpu, mem) ==
  LET Fits(k, n) == \E v \in a.cap[k] : n <= v
  IN /\ Complete(a) => Admitted(a) \in {0, good}
     /\ RunnerReady(a) <=>
          /\ bad = 0 /\ Fits("max_parallel_jobs", good)
          /\ Fits("cpu_free_milli", cpu) /\ Fits("mem_free_mb", mem)

\* The report of the demand in these terms.
LEMMA ReportTells ==
  ASSUME NEW a, a.valid \in Nat, a.invalid \in Nat,
         a.valid = 0 => a.cpu_needed = 0 /\ a.mem_needed = 0,
         \A k \in CapacityKey : /\ a.cap[k] \in SUBSET Int
                                /\ \A v, w \in a.cap[k] : v = w
                                /\ \A v \in a.cap[k] : v >= 1
  PROVE  ReportSays(a, a.valid, a.invalid, a.cpu_needed, a.mem_needed)
<1> DEFINE p == "max_parallel_jobs"
           c == "cpu_free_milli"
           m == "mem_free_mb"
           Fits(k, n) == \E v \in a.cap[k] : n <= v
           All == Fits(p, a.valid) /\ Fits(c, a.cpu_needed) /\ Fits(m, a.mem_needed)
<1>1. CapacityKey = {p, c, m}
  BY DEF CapacityKey
<1>2. Complete(a) <=> a.cap[p] # {} /\ a.cap[c] # {} /\ a.cap[m] # {}
  BY <1>1 DEF Complete
<1>3. All => Complete(a)
  BY <1>2
<1>4. ASSUME Complete(a)
      PROVE  Admitted(a) = IF All THEN a.valid ELSE 0
  <2>0. ASSUME NEW k \in CapacityKey, NEW n PROVE n <= Capacity(a, k) <=> Fits(k, n)
    <3>1. /\ a.cap[k] \in SUBSET Int /\ \A v, w \in a.cap[k] : v = w
          /\ a.cap[k] # {}
      BY <1>4 DEF Complete
    <3> DEFINE N == a.cap[k]
    <3> HIDE DEF N
    <3>2. n <= (CHOOSE v \in N : TRUE) <=> \E v \in N : n <= v
      BY <3>1, FitsOne DEF N
    <3>. QED
      BY <3>2 DEF Capacity, N
  <2>1. a.valid <= Capacity(a, p) <=> Fits(p, a.valid)
    BY <1>1, <2>0
  <2>2. a.cpu_needed <= Capacity(a, c) <=> Fits(c, a.cpu_needed)
    BY <1>1, <2>0
  <2>3. a.mem_needed <= Capacity(a, m) <=> Fits(m, a.mem_needed)
    BY <1>1, <2>0
  <2> HIDE DEF Fits
  <2>. QED
    BY <2>1, <2>2, <2>3 DEF Admitted
<1>5. ASSUME Complete(a), a.valid = 0 PROVE All
  <2>1. ASSUME NEW k \in CapacityKey PROVE Fits(k, 0)
    <3>1. a.cap[k] # {} /\ a.cap[k] \in SUBSET Int /\ \A v \in a.cap[k] : v >= 1
      BY <1>5 DEF Complete
    <3>. QED
      BY <3>1
  <2>2. Fits(p, 0) /\ Fits(c, 0) /\ Fits(m, 0)
    BY <1>1, <2>1
  <2> HIDE DEF Fits
  <2>. QED
    BY <1>5, <2>2
<1> HIDE DEF Fits, All
<1>6. RunnerReady(a) <=> a.invalid = 0 /\ All
  <2>1. CASE All
    BY <1>3, <1>4, <2>1 DEF RunnerReady
  <2>2. CASE ~All
    <3>1. ~RunnerReady(a)
      <4>1. CASE Complete(a)
        <5>1. Admitted(a) = 0 /\ a.valid # 0
          BY <1>4, <1>5, <2>2, <4>1
        <5>. QED
          BY <5>1 DEF RunnerReady
      <4>2. CASE ~Complete(a)
        BY <4>2 DEF RunnerReady
      <4>. QED
        BY <4>1, <4>2
    <3>. QED
      BY <2>2, <3>1
  <2>. QED
    BY <2>1, <2>2
<1>7. Complete(a) => Admitted(a) \in {0, a.valid}
  BY <1>4
<1>. QED
  BY <1>6, <1>7 DEF ReportSays, All, Fits, p, c, m

\* So the report says whether what the jobs ask for fits the last offers.
LEMMA DemandTells ==
  ASSUME NEW X, \A m \in X : DemandLine(m), NEW s \in Seq(X), NEW a, DemandInv(X, s, a)
  PROVE  DemandMatches(s, a)
<1> DEFINE Jobs == {i \in DOMAIN s : s[i].of = "jobs"}
           F(i) == Fields(s[i].pieces)
           Good == {i \in Jobs : ValidJob(F(i))}
           H(k) == [i \in Good |-> Number(F(i)[k])]
           Offered(k) == UNION {l.num : l \in LastOf(s, LAMBDA m :
                           m.of = "capacity" /\ m.key = k /\ InRange(m, 1, MostFree))}
<1>1. \A i \in DOMAIN s : s[i] \in X
  OBVIOUS
<1>2. Where(s, GoodJobs(X)) = Good
  BY <1>1 DEF Where, GoodJobs
<1>3. Where(s, BadJobs(X)) = Jobs \ Good
  BY <1>1 DEF Where, BadJobs
<1>4. IsFiniteSet(Good) /\ IsFiniteSet(Jobs \ Good)
  <2>1. Len(s) \in Nat /\ DOMAIN s = 1 .. Len(s) /\ Good \in SUBSET DOMAIN s
        /\ Jobs \ Good \in SUBSET DOMAIN s
    OBVIOUS
  <2> HIDE DEF Good, Jobs
  <2>. QED
    BY <2>1, PlacesAreFinite
<1>5. a.valid = Cardinality(Good) /\ a.invalid = Cardinality(Jobs \ Good)
  BY <1>2, <1>3 DEF DemandInv, Nr
<1>6. /\ a.valid \in Nat /\ a.invalid \in Nat
      /\ a.valid = 0 <=> Good = {}
      /\ a.invalid = 0 <=> Jobs \ Good = {}
  BY <1>4, <1>5, FS_CardinalityType, FS_EmptySet
<1>7. /\ SumIs(AskedAt(s, 3), Good, a.cpu_needed)
      /\ SumIs(AskedAt(s, 4), Good, a.mem_needed)
  BY <1>2 DEF DemandInv
<1>8. a.valid = 0 => a.cpu_needed = 0 /\ a.mem_needed = 0
  <2> HIDE DEF Good, Jobs
  <2>1. ASSUME Good = {} PROVE a.cpu_needed = 0 /\ a.mem_needed = 0
    BY <1>7, <2>1 DEF SumIs, Summing
  <2>. QED
    BY <1>6, <2>1
<1>9. ASSUME NEW k, NEW v, SumIs(AskedAt(s, k), Good, v) PROVE TotalOver(H(k), Good) = v
  <2>1. \A i \in Good : H(k)[i] = AskedAt(s, k)[i]
    BY DEF AskedAt, Asked
  <2> HIDE DEF H, Good, Jobs
  <2>2. SumIs(H(k), Good, v)
    BY <1>9, <2>1, SumOfSame
  <2>. QED
    BY <1>4, <2>2, TotalOverIs
<1>10. TotalOver(H(3), Good) = a.cpu_needed /\ TotalOver(H(4), Good) = a.mem_needed
  <2> HIDE DEF H, Good, Jobs
  <2>. QED
    BY <1>7, <1>9
<1>11. \A k \in CapacityKey : a.cap[k] = Offered(k)
  <2> TAKE k \in CapacityKey
  <2>1. a.cap[k] = OfferedBy(Latest(s, Offers(X, k)))
    BY DEF DemandInv
  <2>2. LastOf(s, LAMBDA m : m.of = "capacity" /\ m.key = k /\ InRange(m, 1, MostFree))
          = Latest(s, Offers(X, k))
    BY OffersAreLast
  <2>. QED
    BY <2>1, <2>2 DEF OfferedBy
<1>12. \A k \in CapacityKey : /\ a.cap[k] \in SUBSET Int
                              /\ \A v, w \in a.cap[k] : v = w
                              /\ \A v \in a.cap[k] : v >= 1
  <2> TAKE k \in CapacityKey
  <2>1. a.cap[k] = OfferedBy(Latest(s, Offers(X, k)))
    BY DEF DemandInv
  <2> DEFINE N == OfferedBy(Latest(s, Offers(X, k)))
  <2>2. N \in SUBSET Int
    BY OfferedIsOne
  <2>3. \A v, w \in N : v = w
    BY OfferedIsOne
  <2>4. \A v \in N : v >= 1
    BY OfferedIsOne
  <2> HIDE DEF N
  <2>. QED
    BY <2>1, <2>2, <2>3, <2>4 DEF N
<1>13. ReportSays(a, a.valid, a.invalid, a.cpu_needed, a.mem_needed)
  <2> HIDE DEF Good, Jobs, Offered, H, F
  <2>. QED
    BY <1>6, <1>8, <1>12, ReportTells
<1> DEFINE Fits(k, n) == \E v \in Offered(k) : n <= v
<1>14. \A k \in CapacityKey : \A n : (\E v \in a.cap[k] : n <= v) <=> Fits(k, n)
  BY <1>11
<1>15. Complete(a) <=> \A k \in CapacityKey : Offered(k) # {}
  BY <1>11 DEF Complete
<1>16. /\ "max_parallel_jobs" \in CapacityKey /\ "cpu_free_milli" \in CapacityKey
       /\ "mem_free_mb" \in CapacityKey
  BY DEF CapacityKey
<1>17. Jobs = Good <=> Jobs \ Good = {}
  OBVIOUS
<1> HIDE DEF Good, Jobs, Offered, H, F, Fits
<1>18. Complete(a) => Admitted(a) \in {0, Cardinality(Good)}
  BY <1>5, <1>13 DEF ReportSays
<1>19. RunnerReady(a) <=>
         /\ Jobs = Good
         /\ Fits("max_parallel_jobs", Cardinality(Good))
         /\ Fits("cpu_free_milli", TotalOver(H(3), Good))
         /\ Fits("mem_free_mb", TotalOver(H(4), Good))
  <2>1. RunnerReady(a) <=>
          /\ a.invalid = 0 /\ \E v \in a.cap["max_parallel_jobs"] : a.valid <= v
          /\ \E v \in a.cap["cpu_free_milli"] : a.cpu_needed <= v
          /\ \E v \in a.cap["mem_free_mb"] : a.mem_needed <= v
    BY <1>13 DEF ReportSays
  <2>2. RunnerReady(a) <=>
          /\ a.invalid = 0 /\ Fits("max_parallel_jobs", a.valid)
          /\ Fits("cpu_free_milli", a.cpu_needed) /\ Fits("mem_free_mb", a.mem_needed)
    BY <1>14, <1>16, <2>1
  <2>. QED
    BY <1>5, <1>6, <1>10, <1>17, <2>2
<1>. QED
  BY <1>15, <1>18, <1>19 DEF DemandMatches, Good, Jobs, Offered, H, F, Fits

-----------------------------------------------------------------------------
(* Block 12: what is observed in two files at once.                         *)

\* One line more in a loop: what the loop remembers is what the line makes of what it was.
LEMMA FoldMore ==
  ASSUME NEW A, NEW X, NEW F, NEW b, NEW s \in Seq(X), NEW l \in X, NEW G, NEW H,
         IsFold(G, A, X, F, b, s), IsFold(H, A, X, F, b, Append(s, l))
  PROVE  /\ G[DOMAIN s] \in A
         /\ H[DOMAIN Append(s, l)] = F[<<G[DOMAIN s], l>>]
<1> DEFINE t == Append(s, l)
           n == Len(s)
<1>1. /\ n \in Nat /\ Len(t) = n + 1 /\ t[n + 1] = l
      /\ \A k \in 1 .. n : t[k] = s[k]
  BY AppendFacts
<1>2. PICK g \in [0 .. n -> A] : IsRun(g, F, b, s) /\ G[DOMAIN s] = g[n]
  BY FoldRuns
<1> HIDE DEF t
<1>3. PICK h \in [0 .. Len(t) -> A] : IsRun(h, F, b, t) /\ H[DOMAIN t] = h[Len(t)]
  BY FoldRuns DEF t
<1> DEFINE T == {k \in 0 .. n : h[k] = g[k]}
<1>4. g[0] = b /\ \A k \in 1 .. n : g[k] = F[<<g[k - 1], s[k]>>]
  BY <1>2 DEF IsRun
<1>5. h[0] = b /\ \A k \in 1 .. n + 1 : h[k] = F[<<h[k - 1], t[k]>>]
  BY <1>1, <1>3 DEF IsRun
<1>6. 0 \in T
  BY <1>1, <1>4, <1>5
<1>7. \A k \in 0 .. n - 1 : k \in T => k + 1 \in T
  <2> SUFFICES ASSUME NEW k \in 0 .. n - 1, k \in T PROVE k + 1 \in T
    OBVIOUS
  <2> DEFINE m == k + 1
  <2>1. m \in 1 .. n /\ m \in 1 .. n + 1 /\ m \in 0 .. n /\ m - 1 = k
    BY <1>1
  <2>2. h[m - 1] = g[m - 1]
    BY <2>1
  <2> HIDE DEF m
  <2>3. h[m] = F[<<h[m - 1], t[m]>>] /\ g[m] = F[<<g[m - 1], s[m]>>] /\ t[m] = s[m]
    BY <1>1, <1>4, <1>5, <2>1
  <2>4. h[m] = g[m]
    BY <2>2, <2>3
  <2>. QED
    BY <2>1, <2>4
<1>8. n \in T
  <2> HIDE DEF T
  <2>1. \A k \in 0 .. n : k \in T
    BY <1>1, <1>6, <1>7, UpTo
  <2>. QED
    BY <1>1, <2>1
<1>9. h[n] = g[n] /\ g[n] \in A
  BY <1>1, <1>2, <1>8
<1>10. h[n + 1] = F[<<h[n], l>>]
  <2>1. n + 1 \in 1 .. n + 1 /\ (n + 1) - 1 = n
    BY <1>1
  <2> DEFINE m == n + 1
  <2>2. m \in 1 .. n + 1 /\ m - 1 = n /\ t[m] = l
    BY <1>1, <2>1
  <2> HIDE DEF m
  <2>3. h[m] = F[<<h[m - 1], t[m]>>]
    BY <1>5, <2>2
  <2>. QED
    BY <2>2, <2>3 DEF m
<1>. QED
  BY <1>1, <1>2, <1>3, <1>9, <1>10 DEF t

\* What holds of the words before the loop and of what it remembers, and stays with one word
\* more, holds when the loop has read the words d after them.
Lasts(W, A, F, R) ==
  \A u \in Seq(W) : \A x \in W : \A a \in A :
    <<u, a>> \in R => <<Append(u, x), F[<<a, x>>]>> \in R

\* The fold of a step over a word list keeps an invariant of the step.
LEMMA RunReads ==
  ASSUME NEW W, NEW A, NEW F, NEW R, NEW s \in Seq(W), NEW b, NEW d \in Seq(W),
         NEW g \in [0 .. Len(d) -> A], IsRun(g, F, b, d), <<s, b>> \in R,
         Lasts(W, A, F, R)
  PROVE  <<s \o d, g[Len(d)]>> \in R
<1> DEFINE n == Len(d)
           U(k) == s \o SubSeq(d, 1, k)
           T == {k \in 0 .. n : <<U(k), g[k]>> \in R}
<1>1. n \in Nat /\ g[0] = b /\ \A k \in 1 .. n : g[k] = F[<<g[k - 1], d[k]>>]
  BY DEF IsRun
<1>2. 0 \in T
  <2>1. U(0) = s
    <3>1. SubSeq(d, 1, 0) = <<>>
      OBVIOUS
    <3>2. s \o <<>> = s
      OBVIOUS
    <3>. QED
      BY <3>1, <3>2
  <2> HIDE DEF U
  <2>2. <<U(0), g[0]>> \in R
    <3>1. <<s, b>> \in R
      OBVIOUS
    <3>. QED
      BY <1>1, <2>1, <3>1, Zenon
  <2>3. 0 \in 0 .. n
    BY <1>1
  <2>. QED
    BY <2>2, <2>3
<1>3. ASSUME NEW k \in 0 .. n - 1, k \in T PROVE k + 1 \in T
  <2> DEFINE m == k + 1
  <2>1. m \in 1 .. n /\ m \in 0 .. n /\ m - 1 = k /\ k \in 0 .. n
    BY <1>1
  <2>2. /\ SubSeq(d, 1, k) \in Seq(W) /\ d[m] \in W
        /\ SubSeq(d, 1, m) = Append(SubSeq(d, 1, k), d[m])
    BY PrefixStep
  <2> HIDE DEF m
  <2>3. U(k) \in Seq(W) /\ U(m) = Append(U(k), d[m])
    <3> DEFINE p == SubSeq(d, 1, k)
    <3>1. p \in Seq(W) /\ SubSeq(d, 1, m) = Append(p, d[m])
      BY <2>2
    <3> HIDE DEF p
    <3>2. s \o Append(p, d[m]) = Append(s \o p, d[m]) /\ s \o p \in Seq(W)
      <4> DEFINE x == d[m]
      <4>1. x \in W
        BY <2>2
      <4> HIDE DEF x
      <4>2. s \o Append(p, x) = Append(s \o p, x) /\ s \o p \in Seq(W)
        BY <3>1, <4>1
      <4>. QED
        BY <4>2 DEF x
    <3>. QED
      BY <3>1, <3>2 DEF p
  <2> HIDE DEF U
  <2>4. g[k] \in A /\ <<U(k), g[k]>> \in R
    BY <1>3, <2>1
  <2>5. <<Append(U(k), d[m]), F[<<g[k], d[m]>>]>> \in R
    BY <2>2, <2>3, <2>4 DEF Lasts
  <2>6. g[m] = F[<<g[k], d[m]>>]
    BY <1>1, <2>1
  <2>. QED
    BY <2>1, <2>3, <2>5, <2>6 DEF m
<1>4. \A k \in 0 .. n : k \in T
  <2>1. \A k \in 0 .. n - 1 : k \in T => k + 1 \in T
    BY <1>3
  <2> HIDE DEF T
  <2>. QED
    BY <1>1, <1>2, <2>1, UpTo
<1>5. n \in T
  <2> HIDE DEF T
  <2>. QED
    BY <1>1, <1>4
<1>6. U(n) = s \o d
  <2>1. SubSeq(d, 1, n) = d
    OBVIOUS
  <2>. QED
    BY <2>1
<1>. QED
  BY <1>5, <1>6

\* One turn of the loop over the lines, and its table.
WordsTurn(of, w, l) == IF l.of = of THEN w \o l.words ELSE w
\* The same as a table.
WordsTable(W, X, of) == [p \in Seq(W) \X X |-> WordsTurn(of, p[1], p[2])]

\* The table has a value for each turn.
WordsTableIs(W, X, of) ==
  /\ <<>> \in Seq(W)
  /\ WordsTable(W, X, of) \in [Seq(W) \X X -> Seq(W)]
  /\ \A q \in Seq(W), x \in X : WordsTable(W, X, of)[<<q, x>>] = WordsTurn(of, q, x)

\* The table has a value for each turn.
LEMMA WordsTableFacts ==
  ASSUME NEW W, NEW X, \A m \in X : m.words \in Seq(W), NEW of
  PROVE  WordsTableIs(W, X, of)
<1>1. \A q \in Seq(W), x \in X : WordsTurn(of, q, x) \in Seq(W)
  <2> SUFFICES ASSUME NEW q \in Seq(W), NEW x \in X PROVE WordsTurn(of, q, x) \in Seq(W)
    OBVIOUS
  <2>1. q \o x.words \in Seq(W)
    OBVIOUS
  <2>. QED
    BY <2>1 DEF WordsTurn
<1> DEFINE A == Seq(W)
           F == WordsTable(W, X, of)
<1>2. F = [p \in A \X X |-> WordsTurn(of, p[1], p[2])]
  BY DEF WordsTable
<1>a. <<>> \in A
  OBVIOUS
<1> HIDE DEF A, F
<1>3. \A q \in A, x \in X : WordsTurn(of, q, x) \in A
  BY <1>1 DEF A
<1>4. F \in [A \X X -> A] /\ \A q \in A, x \in X : F[<<q, x>>] = WordsTurn(of, q, x)
  BY <1>2, <1>3
<1>. QED
  BY <1>4, <1>a DEF WordsTableIs, A, F

\* The words are those of a loop over the lines.
WordsFolded(W, X, of, s) ==
  \E H : /\ IsFold(H, Seq(W), X, WordsTable(W, X, of), <<>>, s)
         /\ WordsOf(s, of) = H[DOMAIN s]

\* So the words are the fold of the table.
LEMMA WordsFold ==
  ASSUME NEW W, NEW X, \A m \in X : m.words \in Seq(W), NEW of, NEW s \in Seq(X)
  PROVE  WordsFolded(W, X, of, s)
<1> DEFINE D == DOMAIN s
           T == WordsTable(W, X, of)
           A == Seq(W)
           beg == <<>>
           Rec(h) == h = [S \in SUBSET D |->
                       IF S = {} THEN beg ELSE WordsTurn(of, h[S \ {Max(S)}], s[Max(S)])]
           G == CHOOSE h : Rec(h)
<1>1. WordsOf(s, of) = G[D]
  BY DEF WordsOf, FoldLeft, MapThenFoldSet, WordsTurn
<1>0. WordsTableIs(W, X, of)
  BY WordsTableFacts
<1>2. beg \in A /\ T \in [A \X X -> A]
  BY <1>0 DEF WordsTableIs
<1>3. \A q \in A, x \in X : T[<<q, x>>] = WordsTurn(of, q, x)
  BY <1>0 DEF WordsTableIs
<1>4. ASSUME NEW S \in SUBSET D, S # {}
      PROVE  Max(S) \in S /\ s[Max(S)] \in X /\ S \ {Max(S)} \in SUBSET D
  <2>1. Len(s) \in Nat /\ D = 1 .. Len(s) /\ \A k \in D : s[k] \in X
    OBVIOUS
  <2> HIDE DEF D
  <2>2. Max(S) \in S
    BY <1>4, <2>1, Greatest
  <2>. QED
    BY <2>1, <2>2
<1> HIDE DEF A, T, beg
<1>5. PICK w \in [SUBSET D -> A] : Folding(w, T, beg, s, D)
  BY <1>2, FoldExists
<1> HIDE DEF D
<1>6. Rec(w)
  <2>1. ASSUME NEW S \in SUBSET D
        PROVE  w[S] = IF S = {} THEN beg ELSE WordsTurn(of, w[S \ {Max(S)}], s[Max(S)])
    <3>1. w[S] = IF S = {} THEN beg ELSE T[<<w[S \ {Max(S)}], s[Max(S)]>>]
      BY <1>5 DEF Folding
    <3>. QED
      BY <1>3, <1>4, <3>1
  <2>. QED
    BY <2>1
<1>7. Rec(G)
  <2> HIDE DEF Rec
  <2>. QED
    BY <1>6
<1> HIDE DEF G
<1>8. G[{}] = beg
  BY <1>7
<1>9. \A S \in SUBSET D : S # {} /\ G[S \ {Max(S)}] \in A
        => G[S] = T[<<G[S \ {Max(S)}], s[Max(S)]>>]
  <2> SUFFICES ASSUME NEW S \in SUBSET D, S # {}, G[S \ {Max(S)}] \in A
               PROVE  G[S] = T[<<G[S \ {Max(S)}], s[Max(S)]>>]
    OBVIOUS
  <2>1. G[S] = WordsTurn(of, G[S \ {Max(S)}], s[Max(S)])
    BY <1>7
  <2>. QED
    BY <1>3, <1>4, <2>1
<1> HIDE DEF Rec
<1>10. IsFold(G, A, X, T, beg, s)
  <2>1. \A S \in SUBSET DOMAIN s : S # {} /\ G[S \ {Max(S)}] \in A
          => G[S] = T[<<G[S \ {Max(S)}], s[Max(S)]>>]
    BY <1>9 DEF D
  <2>. QED
    BY <1>2, <1>8, <2>1 DEF IsFold
<1>. QED
  BY <1>1, <1>10 DEF WordsFolded, A, T, D, beg

\* One line more brings its words, if it is of that file.
LEMMA WordsMore ==
  ASSUME NEW W, NEW X, \A m \in X : m.words \in Seq(W), NEW of, NEW s \in Seq(X), NEW l \in X
  PROVE  /\ WordsOf(s, of) \in Seq(W)
         /\ WordsOf(Append(s, l), of)
              = IF l.of = of THEN WordsOf(s, of) \o l.words ELSE WordsOf(s, of)
<1> DEFINE t == Append(s, l)
           A == Seq(W)
           F == WordsTable(W, X, of)
<1>0. t \in Seq(X)
  OBVIOUS
<1> HIDE DEF t
<1>a. WordsFolded(W, X, of, s) /\ WordsFolded(W, X, of, t)
  BY <1>0, WordsFold
<1>1. PICK G : IsFold(G, A, X, F, <<>>, s) /\ WordsOf(s, of) = G[DOMAIN s]
  BY <1>a DEF WordsFolded
<1>2. PICK H : IsFold(H, A, X, F, <<>>, t) /\ WordsOf(t, of) = H[DOMAIN t]
  BY <1>a DEF WordsFolded
<1>3. G[DOMAIN s] \in A /\ H[DOMAIN t] = F[<<G[DOMAIN s], l>>]
  <2> HIDE DEF A, F
  <2>. QED
    BY <1>1, <1>2, FoldMore DEF t
<1>b. WordsTableIs(W, X, of)
  BY WordsTableFacts
<1>4. \A q \in Seq(W), x \in X : F[<<q, x>>] = WordsTurn(of, q, x)
  BY <1>b DEF WordsTableIs
<1>5. WordsOf(t, of) = WordsTurn(of, WordsOf(s, of), l)
  <2> HIDE DEF F
  <2>. QED
    BY <1>1, <1>2, <1>3, <1>4
<1>. QED
  BY <1>1, <1>3, <1>5 DEF WordsTurn, t

\* No line, no words.
LEMMA WordsStart == \A of : WordsOf(<<>>, of) = <<>>
<1> SUFFICES ASSUME NEW of PROVE WordsOf(<<>>, of) = <<>>
  OBVIOUS
<1> DEFINE E == {}
<1>1. <<>> \in Seq(E) /\ \A m \in E : m.words \in Seq(E)
  OBVIOUS
<1>3. DOMAIN <<>> = {}
  OBVIOUS
<1> HIDE DEF E
<1>2. WordsFolded(E, E, of, <<>>)
  BY <1>1, WordsFold
<1>. QED
  BY <1>2, <1>3 DEF WordsFolded, IsFold

\* What a loop over measures remembers.
MeasureShape(W) ==
  [words : Seq(W), ended : BOOLEAN, n : [total : Nat, errors : Nat, lat_sum : Int]]

\* The invariant gives that shape.
LEMMA MeasureShapeFacts ==
  ASSUME NEW W, NEW s \in Seq(W), NEW a, MeasureInv(W, s, a)
  PROVE  a \in MeasureShape(W)
<1>1. PICK c : Scanning(W, 3, MeasureWants, s, a, c) /\ MeasureTally(GroupsUpTo(s, 3, c), a.n)
  BY DEF MeasureInv
<1> DEFINE G == GroupsUpTo(s, 3, c)
<1>2. a = [words |-> a.words, ended |-> a.ended, n |-> a.n] /\ a.ended \in BOOLEAN
  BY <1>1 DEF Scanning
<1>3. a.words \in Seq(W)
  <2>1. ScanTook(W, 3, MeasureWants, s, a.words, c)
    BY <1>1, <1>2 DEF Scanning, ScanEnded, ScanRuns
  <2>. QED
    BY <2>1 DEF ScanTook
<1>4. G \in Seq(GroupSet(W, 3, MeasureWants))
  BY <1>1, ThreeWords, ScanTells
<1> HIDE DEF G
<1>5. Len(G) \in Nat /\ DOMAIN G = 1 .. Len(G) /\ TakenAt(G) \in SUBSET DOMAIN G
      /\ ErringAt(G) \in SUBSET DOMAIN G
  BY <1>4 DEF TakenAt, ErringAt
<1>6. Cardinality(TakenAt(G)) \in Nat /\ Cardinality(ErringAt(G)) \in Nat
  BY <1>5, PlacesAreFinite
<1>7. /\ a.n = [total |-> a.n.total, errors |-> a.n.errors, lat_sum |-> a.n.lat_sum]
      /\ a.n.total \in Nat /\ a.n.errors \in Nat
      /\ SumIs(LatencyOf(G), TakenAt(G), a.n.lat_sum)
  BY <1>1, <1>6 DEF MeasureTally, G
<1>8. a.n.lat_sum \in Int
  <2> DEFINE S == TakenAt(G)
  <2>1. PICK w : Summing(LatencyOf(G), S, w) /\ w[S] = a.n.lat_sum
    BY <1>7 DEF SumIs
  <2>2. w \in [SUBSET S -> Int] /\ S \in SUBSET S
    BY <2>1 DEF Summing
  <2> HIDE DEF S
  <2>. QED
    BY <2>1, <2>2
<1>9. a.n \in [total : Nat, errors : Nat, lat_sum : Int]
  BY <1>7, <1>8
<1>. QED
  BY <1>2, <1>3, <1>9 DEF MeasureShape

\* What such a loop can remember, and the table of its turns.
MeasureStates(W) == {a \in MeasureShape(W) : \E s \in Seq(W) : MeasureInv(W, s, a)}
\* The step of the measures on such states.
MeasureTable(W) == [p \in MeasureStates(W) \X W |-> MeasureStep(p[1], p[2])]
\* The fold of the step is the fold of the table.
MeasureTableIs(W, b) ==
  /\ b \in MeasureStates(W)
  /\ MeasureTable(W) \in [MeasureStates(W) \X W -> MeasureStates(W)]
  /\ \A q \in MeasureStates(W), x \in W : MeasureTable(W)[<<q, x>>] = MeasureStep(q, x)

\* The table has a value for each turn.
LEMMA MeasureTableFacts ==
  ASSUME NEW W, \A m \in W : WordLine(m), NEW s \in Seq(W), NEW b, MeasureInv(W, s, b)
  PROVE  MeasureTableIs(W, b)
<1> DEFINE A == MeasureStates(W)
           F == MeasureTable(W)
<1>1. ASSUME NEW u \in Seq(W), NEW a, MeasureInv(W, u, a) PROVE a \in A
  <2>1. a \in MeasureShape(W)
    BY <1>1, MeasureShapeFacts
  <2>. QED
    BY <1>1, <2>1 DEF MeasureStates
<1>2. ASSUME NEW a \in A, NEW x \in W PROVE MeasureStep(a, x) \in A
  <2>1. PICK u \in Seq(W) : MeasureInv(W, u, a)
    BY DEF MeasureStates
  <2>2. MeasureInv(W, Append(u, x), MeasureStep(a, x))
    BY <2>1, MeasureKeeps
  <2>3. Append(u, x) \in Seq(W)
    OBVIOUS
  <2> HIDE DEF A
  <2>. QED
    BY <1>1, <2>2, <2>3
<1>3. F = [p \in A \X W |-> MeasureStep(p[1], p[2])]
  BY DEF MeasureTable
<1>4. b \in A
  BY <1>1
<1> HIDE DEF A, F
<1>5. F \in [A \X W -> A] /\ \A q \in A, x \in W : F[<<q, x>>] = MeasureStep(q, x)
  BY <1>2, <1>3
<1>. QED
  BY <1>4, <1>5 DEF MeasureTableIs, A, F

\* The words of a line are read by a loop.
MeasureFolded(W, a, d) ==
  \E H : /\ IsFold(H, MeasureStates(W), W, MeasureTable(W), a, d)
         /\ FoldLeft(MeasureStep, a, d) = H[DOMAIN d]

\* So the two folds agree.
LEMMA MeasureFold ==
  ASSUME NEW W, \A m \in W : WordLine(m), NEW s \in Seq(W), NEW a, MeasureInv(W, s, a), NEW d \in Seq(W)
  PROVE  MeasureFolded(W, a, d)
<1> DEFINE D == DOMAIN d
           T == MeasureTable(W)
           A == MeasureStates(W)
           beg == a
           Rec(h) == h = [S \in SUBSET D |->
                       IF S = {} THEN beg ELSE MeasureStep(h[S \ {Max(S)}], d[Max(S)])]
           G == CHOOSE h : Rec(h)
<1>1. FoldLeft(MeasureStep, a, d) = G[D]
  BY DEF FoldLeft, MapThenFoldSet
<1>0. MeasureTableIs(W, a)
  BY MeasureTableFacts
<1>2. beg \in A /\ T \in [A \X W -> A]
  BY <1>0 DEF MeasureTableIs
<1>3. \A q \in A, x \in W : T[<<q, x>>] = MeasureStep(q, x)
  BY <1>0 DEF MeasureTableIs
<1>4. ASSUME NEW S \in SUBSET D, S # {}
      PROVE  Max(S) \in S /\ d[Max(S)] \in W /\ S \ {Max(S)} \in SUBSET D
  <2>1. Len(d) \in Nat /\ D = 1 .. Len(d) /\ \A k \in D : d[k] \in W
    OBVIOUS
  <2> HIDE DEF D
  <2>2. Max(S) \in S
    BY <1>4, <2>1, Greatest
  <2>. QED
    BY <2>1, <2>2
<1> HIDE DEF A, T, beg
<1>5. PICK w \in [SUBSET D -> A] : Folding(w, T, beg, d, D)
  BY <1>2, FoldExists
<1> HIDE DEF D
<1>6. Rec(w)
  <2>1. ASSUME NEW S \in SUBSET D
        PROVE  w[S] = IF S = {} THEN beg ELSE MeasureStep(w[S \ {Max(S)}], d[Max(S)])
    <3>1. w[S] = IF S = {} THEN beg ELSE T[<<w[S \ {Max(S)}], d[Max(S)]>>]
      BY <1>5 DEF Folding
    <3>. QED
      BY <1>3, <1>4, <3>1
  <2>. QED
    BY <2>1
<1>7. Rec(G)
  <2> HIDE DEF Rec
  <2>. QED
    BY <1>6
<1> HIDE DEF G
<1>8. G[{}] = beg
  BY <1>7
<1>9. \A S \in SUBSET D : S # {} /\ G[S \ {Max(S)}] \in A
        => G[S] = T[<<G[S \ {Max(S)}], d[Max(S)]>>]
  <2> SUFFICES ASSUME NEW S \in SUBSET D, S # {}, G[S \ {Max(S)}] \in A
               PROVE  G[S] = T[<<G[S \ {Max(S)}], d[Max(S)]>>]
    OBVIOUS
  <2>1. G[S] = MeasureStep(G[S \ {Max(S)}], d[Max(S)])
    BY <1>7
  <2>. QED
    BY <1>3, <1>4, <2>1
<1> HIDE DEF Rec
<1>10. IsFold(G, A, W, T, beg, d)
  <2>1. \A S \in SUBSET DOMAIN d : S # {} /\ G[S \ {Max(S)}] \in A
          => G[S] = T[<<G[S \ {Max(S)}], d[Max(S)]>>]
    BY <1>9 DEF D
  <2>. QED
    BY <1>2, <1>8, <2>1 DEF IsFold
<1>. QED
  BY <1>1, <1>10 DEF MeasureFolded, A, T, D, beg

\* What held before the words of the line holds after them.
LEMMA MeasureReads ==
  ASSUME NEW W, \A m \in W : WordLine(m), NEW s \in Seq(W), NEW a, MeasureInv(W, s, a), NEW d \in Seq(W)
  PROVE  MeasureInv(W, s \o d, FoldLeft(MeasureStep, a, d))
<1> DEFINE A == MeasureStates(W)
           F == MeasureTable(W)
           R == {p \in Seq(W) \X A : MeasureInv(W, p[1], p[2])}
           r == FoldLeft(MeasureStep, a, d)
<1>1. MeasureFolded(W, a, d)
  BY MeasureFold
<1>2. PICK H : IsFold(H, A, W, F, a, d) /\ r = H[DOMAIN d]
  BY <1>1 DEF MeasureFolded
<1>3. MeasureTableIs(W, a)
  BY MeasureTableFacts
<1>4. a \in A /\ F \in [A \X W -> A] /\ \A q \in A, x \in W : F[<<q, x>>] = MeasureStep(q, x)
  BY <1>3 DEF MeasureTableIs
<1> HIDE DEF A, F, r
<1>5. PICK g \in [0 .. Len(d) -> A] : IsRun(g, F, a, d) /\ H[DOMAIN d] = g[Len(d)]
  BY <1>2, FoldRuns
<1>6. <<s, a>> \in R
  BY <1>4
<1>7. ASSUME NEW u \in Seq(W), NEW x \in W, NEW q \in A, <<u, q>> \in R
      PROVE  <<Append(u, x), F[<<q, x>>]>> \in R
  <2>1. MeasureInv(W, u, q)
    BY <1>7
  <2>2. MeasureInv(W, Append(u, x), MeasureStep(q, x))
    BY <2>1, MeasureKeeps
  <2>3. Append(u, x) \in Seq(W) /\ F[<<q, x>>] \in A /\ F[<<q, x>>] = MeasureStep(q, x)
    BY <1>4
  <2>. QED
    BY <2>2, <2>3
<1>8. Lasts(W, A, F, R)
  <2> HIDE DEF R
  <2>. QED
    BY <1>7 DEF Lasts
<1>9. <<s \o d, g[Len(d)]>> \in R
  <2> HIDE DEF R
  <2>. QED
    BY <1>5, <1>6, <1>8, RunReads
<1>10. MeasureInv(W, s \o d, g[Len(d)])
  BY <1>9
<1>. QED
  BY <1>2, <1>5, <1>10 DEF r

\* The events that tell of a retry.
Retries(Q) == {w \in Q : w[3].text = "retry"}

\* The counters n are those of the groups G.
LookTally(Q, G, n) ==
  /\ n = [retries |-> n.retries, max_lat |-> n.max_lat]
  /\ n.retries = Nr(G, Retries(Q))
  /\ GreatestIn(n.max_lat, Latencies(G))

\* The scanner of the observed events.
LookStart == Scanner(Zero({"retries", "max_lat"}))

\* The tally begins with zeros,
LEMMA LookTallyStarts == \A Q : LookTally(Q, <<>>, Zero({"retries", "max_lat"}))
<1> SUFFICES ASSUME NEW Q PROVE LookTally(Q, <<>>, Zero({"retries", "max_lat"}))
  OBVIOUS
<1> DEFINE z == Zero({"retries", "max_lat"})
<1>1. z.retries = 0 /\ z.max_lat = 0
  BY DEF Zero
<1>2. z = [retries |-> z.retries, max_lat |-> z.max_lat]
  BY DEF Zero
<1>3. Latencies(<<>>) = {0}
  BY ToSetStart DEF Latencies
<1> HIDE DEF z
<1>4. GreatestIn(z.max_lat, Latencies(<<>>))
  BY <1>1, <1>3 DEF GreatestIn
<1>5. Nr(<<>>, Retries(Q)) = 0
  BY NrStart
<1>. QED
  BY <1>1, <1>2, <1>4, <1>5 DEF LookTally, z

\* and one event more counts a retry, or is the slowest so far.
LEMMA LookTallyKeeps ==
  ASSUME NEW W, \A m \in W : Parsed(m.num, Int), NEW G \in Seq(GroupSet(W, 5, EventWants)),
         NEW w \in GroupSet(W, 5, EventWants), NEW n, LookTally(GroupSet(W, 5, EventWants), G, n)
  PROVE  LookTally(GroupSet(W, 5, EventWants), Append(G, w), UseObserved(n, w))
<1> DEFINE Q == GroupSet(W, 5, EventWants)
           v == Number(w[5])
           b == UseObserved(n, w)
           m == IF v > n.max_lat THEN v ELSE n.max_lat
           r == n.retries + If01(w[3].text = "retry")
<1>1. n.retries = Nr(G, Retries(Q)) /\ GreatestIn(n.max_lat, Latencies(G))
  BY DEF LookTally
<1>2. v \in Int /\ GreatestIn(m, Latencies(Append(G, w)))
  BY <1>1, LatencyStep
<1>3. b = [retries |-> r, max_lat |-> m]
  BY DEF UseObserved
<1>4. r = Nr(Append(G, w), Retries(Q))
  <2>1. w \in Retries(Q) <=> w[3].text = "retry"
    BY DEF Retries
  <2> HIDE DEF Q
  <2>2. Nr(Append(G, w), Retries(Q)) = Nr(G, Retries(Q)) + If01(w \in Retries(Q))
    BY NrStep DEF Q
  <2>3. If01(w \in Retries(Q)) = If01(w[3].text = "retry")
    BY <2>1 DEF If01
  <2>. QED
    BY <1>1, <2>2, <2>3
<1> HIDE DEF m, r, b, v
<1>5. b.retries = r /\ b.max_lat = m
  BY <1>3
<1>6. b = [retries |-> b.retries, max_lat |-> b.max_lat]
  BY <1>3, <1>5
<1>. QED
  BY <1>2, <1>4, <1>5, <1>6 DEF LookTally, b

\* The scanner and the tally of what it has taken.
LookInv(W, s, a) ==
  \E c : /\ Scanning(W, 5, EventWants, s, a, c)
         /\ LookTally(GroupSet(W, 5, EventWants), GroupsUpTo(s, 5, c), a.n)

\* Nothing has been read at first,
LEMMA LookStarts == \A W : LookInv(W, <<>>, LookStart)
<1> SUFFICES ASSUME NEW W PROVE LookInv(W, <<>>, LookStart)
  OBVIOUS
<1> DEFINE C == Zero({"retries", "max_lat"})
<1>1. LookStart = Scanner(C)
  BY DEF LookStart
<1>2. LookTally(GroupSet(W, 5, EventWants), <<>>, C)
  BY LookTallyStarts
<1> HIDE DEF C
<1>3. /\ Scanning(W, 5, EventWants, <<>>, Scanner(C), 0) /\ GroupsUpTo(<<>>, 5, 0) = <<>>
      /\ Scanner(C).n = C
  BY FiveWords, ScannerStarts
<1>. QED
  BY <1>1, <1>2, <1>3 DEF LookInv

\* a word is held, completes an event or ends the scan.
LEMMA LookKeeps ==
  ASSUME NEW W, \A m \in W : WordLine(m), NEW s \in Seq(W), NEW x \in W, NEW a, LookInv(W, s, a)
  PROVE  LookInv(W, Append(s, x), LookAtEvent(a, x))
<1> DEFINE Q == GroupSet(W, 5, EventWants)
           t == Append(s, x)
           b == LookAtEvent(a, x)
           ws == Append(a.words, x)
           u == UseObserved(a.n, ws)
<1>0. \A m \in W : Parsed(m.num, Int)
  BY DEF WordLine
<1>1. PICK c : Scanning(W, 5, EventWants, s, a, c) /\ LookTally(Q, GroupsUpTo(s, 5, c), a.n)
  BY DEF LookInv
<1> DEFINE G == GroupsUpTo(s, 5, c)
<1>2. ScanDoes(5, EventWants, a, x, u, b)
  <2>1. Timed(Len(ws)) <=> Len(ws) \in EventWants
    BY DEF Timed, EventWants
  <2>. QED
    BY <2>1 DEF ScanDoes, LookAtEvent, Scan
<1> HIDE DEF u, b
<1>3. \/ ScanStays(W, 5, EventWants, t, a, b, G, c)
      \/ ScanAdds(W, 5, EventWants, t, a, x, u, b, G, c)
  BY <1>1, <1>2, FiveWords, ScanOnce
<1>4. G \in Seq(Q)
  BY <1>1, FiveWords, ScanTells
<1>5. CASE ScanStays(W, 5, EventWants, t, a, b, G, c)
  BY <1>1, <1>5 DEF ScanStays, LookInv, b
<1>6. CASE ScanAdds(W, 5, EventWants, t, a, x, u, b, G, c)
  <2>1. ws \in Q /\ b.n = u /\ Scanning(W, 5, EventWants, t, b, c + 1)
        /\ GroupsUpTo(t, 5, c + 1) = Append(G, ws)
    BY <1>6 DEF ScanAdds
  <2> HIDE DEF ws
  <2>2. LookTally(Q, Append(G, ws), UseObserved(a.n, ws))
    BY <1>0, <1>1, <1>4, <2>1, LookTallyKeeps
  <2>3. LookTally(Q, GroupsUpTo(t, 5, c + 1), b.n)
    BY <2>1, <2>2 DEF u, ws
  <2>. QED
    BY <2>1, <2>3 DEF LookInv, b
<1>. QED
  BY <1>3, <1>5, <1>6

\* What a loop over events remembers.
LookShape(W) ==
  [words : Seq(W), ended : BOOLEAN, n : [retries : Nat, max_lat : Int]]

\* The invariant gives that shape.
LEMMA LookShapeFacts ==
  ASSUME NEW W, NEW s \in Seq(W), NEW a, LookInv(W, s, a)
  PROVE  a \in LookShape(W)
<1> DEFINE Q == GroupSet(W, 5, EventWants)
<1>1. PICK c : Scanning(W, 5, EventWants, s, a, c) /\ LookTally(Q, GroupsUpTo(s, 5, c), a.n)
  BY DEF LookInv
<1> DEFINE G == GroupsUpTo(s, 5, c)
<1>2. a = [words |-> a.words, ended |-> a.ended, n |-> a.n] /\ a.ended \in BOOLEAN
  BY <1>1 DEF Scanning
<1>3. a.words \in Seq(W)
  <2>1. ScanTook(W, 5, EventWants, s, a.words, c)
    BY <1>1, <1>2 DEF Scanning, ScanEnded, ScanRuns
  <2>. QED
    BY <2>1 DEF ScanTook
<1>4. G \in Seq(Q)
  BY <1>1, FiveWords, ScanTells
<1> HIDE DEF G
<1>5. Nr(G, Retries(Q)) \in Nat
  <2> HIDE DEF Q
  <2>. QED
    BY <1>4, NrFacts
<1>6. /\ a.n = [retries |-> a.n.retries, max_lat |-> a.n.max_lat]
      /\ a.n.retries = Nr(G, Retries(Q)) /\ GreatestIn(a.n.max_lat, Latencies(G))
  BY <1>1 DEF LookTally, G
<1>7. a.n.max_lat \in Int
  BY <1>6 DEF GreatestIn
<1>8. a.n \in [retries : Nat, max_lat : Int]
  BY <1>5, <1>6, <1>7
<1>. QED
  BY <1>2, <1>3, <1>8 DEF LookShape

\* What such a loop can remember, and the table of its turns.
LookStates(W) == {a \in LookShape(W) : \E s \in Seq(W) : LookInv(W, s, a)}
\* The step of the observed events on such states.
LookTable(W) == [p \in LookStates(W) \X W |-> LookAtEvent(p[1], p[2])]
\* The fold of the step is the fold of the table.
LookTableIs(W, b) ==
  /\ b \in LookStates(W)
  /\ LookTable(W) \in [LookStates(W) \X W -> LookStates(W)]
  /\ \A q \in LookStates(W), x \in W : LookTable(W)[<<q, x>>] = LookAtEvent(q, x)

\* The table has a value for each turn.
LEMMA LookTableFacts ==
  ASSUME NEW W, \A m \in W : WordLine(m), NEW s \in Seq(W), NEW b, LookInv(W, s, b)
  PROVE  LookTableIs(W, b)
<1> DEFINE A == LookStates(W)
           F == LookTable(W)
<1>1. ASSUME NEW u \in Seq(W), NEW a, LookInv(W, u, a) PROVE a \in A
  <2>1. a \in LookShape(W)
    BY <1>1, LookShapeFacts
  <2>. QED
    BY <1>1, <2>1 DEF LookStates
<1>2. ASSUME NEW a \in A, NEW x \in W PROVE LookAtEvent(a, x) \in A
  <2>1. PICK u \in Seq(W) : LookInv(W, u, a)
    BY DEF LookStates
  <2>2. LookInv(W, Append(u, x), LookAtEvent(a, x))
    BY <2>1, LookKeeps
  <2>3. Append(u, x) \in Seq(W)
    OBVIOUS
  <2> HIDE DEF A
  <2>. QED
    BY <1>1, <2>2, <2>3
<1>3. F = [p \in A \X W |-> LookAtEvent(p[1], p[2])]
  BY DEF LookTable
<1>4. b \in A
  BY <1>1
<1> HIDE DEF A, F
<1>5. F \in [A \X W -> A] /\ \A q \in A, x \in W : F[<<q, x>>] = LookAtEvent(q, x)
  BY <1>2, <1>3
<1>. QED
  BY <1>4, <1>5 DEF LookTableIs, A, F

\* The words of a line are read by a loop.
LookFolded(W, a, d) ==
  \E H : /\ IsFold(H, LookStates(W), W, LookTable(W), a, d)
         /\ FoldLeft(LookAtEvent, a, d) = H[DOMAIN d]

\* So the two folds agree.
LEMMA LookFold ==
  ASSUME NEW W, \A m \in W : WordLine(m), NEW s \in Seq(W), NEW a, LookInv(W, s, a), NEW d \in Seq(W)
  PROVE  LookFolded(W, a, d)
<1> DEFINE D == DOMAIN d
           T == LookTable(W)
           A == LookStates(W)
           beg == a
           Rec(h) == h = [S \in SUBSET D |->
                       IF S = {} THEN beg ELSE LookAtEvent(h[S \ {Max(S)}], d[Max(S)])]
           G == CHOOSE h : Rec(h)
<1>1. FoldLeft(LookAtEvent, a, d) = G[D]
  BY DEF FoldLeft, MapThenFoldSet
<1>0. LookTableIs(W, a)
  BY LookTableFacts
<1>2. beg \in A /\ T \in [A \X W -> A]
  BY <1>0 DEF LookTableIs
<1>3. \A q \in A, x \in W : T[<<q, x>>] = LookAtEvent(q, x)
  BY <1>0 DEF LookTableIs
<1>4. ASSUME NEW S \in SUBSET D, S # {}
      PROVE  Max(S) \in S /\ d[Max(S)] \in W /\ S \ {Max(S)} \in SUBSET D
  <2>1. Len(d) \in Nat /\ D = 1 .. Len(d) /\ \A k \in D : d[k] \in W
    OBVIOUS
  <2> HIDE DEF D
  <2>2. Max(S) \in S
    BY <1>4, <2>1, Greatest
  <2>. QED
    BY <2>1, <2>2
<1> HIDE DEF A, T, beg
<1>5. PICK w \in [SUBSET D -> A] : Folding(w, T, beg, d, D)
  BY <1>2, FoldExists
<1> HIDE DEF D
<1>6. Rec(w)
  <2>1. ASSUME NEW S \in SUBSET D
        PROVE  w[S] = IF S = {} THEN beg ELSE LookAtEvent(w[S \ {Max(S)}], d[Max(S)])
    <3>1. w[S] = IF S = {} THEN beg ELSE T[<<w[S \ {Max(S)}], d[Max(S)]>>]
      BY <1>5 DEF Folding
    <3>. QED
      BY <1>3, <1>4, <3>1
  <2>. QED
    BY <2>1
<1>7. Rec(G)
  <2> HIDE DEF Rec
  <2>. QED
    BY <1>6
<1> HIDE DEF G
<1>8. G[{}] = beg
  BY <1>7
<1>9. \A S \in SUBSET D : S # {} /\ G[S \ {Max(S)}] \in A
        => G[S] = T[<<G[S \ {Max(S)}], d[Max(S)]>>]
  <2> SUFFICES ASSUME NEW S \in SUBSET D, S # {}, G[S \ {Max(S)}] \in A
               PROVE  G[S] = T[<<G[S \ {Max(S)}], d[Max(S)]>>]
    OBVIOUS
  <2>1. G[S] = LookAtEvent(G[S \ {Max(S)}], d[Max(S)])
    BY <1>7
  <2>. QED
    BY <1>3, <1>4, <2>1
<1> HIDE DEF Rec
<1>10. IsFold(G, A, W, T, beg, d)
  <2>1. \A S \in SUBSET DOMAIN d : S # {} /\ G[S \ {Max(S)}] \in A
          => G[S] = T[<<G[S \ {Max(S)}], d[Max(S)]>>]
    BY <1>9 DEF D
  <2>. QED
    BY <1>2, <1>8, <2>1 DEF IsFold
<1>. QED
  BY <1>1, <1>10 DEF LookFolded, A, T, D, beg

\* What held before the words of the line holds after them.
LEMMA LookReads ==
  ASSUME NEW W, \A m \in W : WordLine(m), NEW s \in Seq(W), NEW a, LookInv(W, s, a), NEW d \in Seq(W)
  PROVE  LookInv(W, s \o d, FoldLeft(LookAtEvent, a, d))
<1> DEFINE A == LookStates(W)
           F == LookTable(W)
           R == {p \in Seq(W) \X A : LookInv(W, p[1], p[2])}
           r == FoldLeft(LookAtEvent, a, d)
<1>1. LookFolded(W, a, d)
  BY LookFold
<1>2. PICK H : IsFold(H, A, W, F, a, d) /\ r = H[DOMAIN d]
  BY <1>1 DEF LookFolded
<1>3. LookTableIs(W, a)
  BY LookTableFacts
<1>4. a \in A /\ F \in [A \X W -> A] /\ \A q \in A, x \in W : F[<<q, x>>] = LookAtEvent(q, x)
  BY <1>3 DEF LookTableIs
<1> HIDE DEF A, F, r
<1>5. PICK g \in [0 .. Len(d) -> A] : IsRun(g, F, a, d) /\ H[DOMAIN d] = g[Len(d)]
  BY <1>2, FoldRuns
<1>6. <<s, a>> \in R
  BY <1>4
<1>7. ASSUME NEW u \in Seq(W), NEW x \in W, NEW q \in A, <<u, q>> \in R
      PROVE  <<Append(u, x), F[<<q, x>>]>> \in R
  <2>1. LookInv(W, u, q)
    BY <1>7
  <2>2. LookInv(W, Append(u, x), LookAtEvent(q, x))
    BY <2>1, LookKeeps
  <2>3. Append(u, x) \in Seq(W) /\ F[<<q, x>>] \in A /\ F[<<q, x>>] = LookAtEvent(q, x)
    BY <1>4
  <2>. QED
    BY <2>2, <2>3
<1>8. Lasts(W, A, F, R)
  <2> HIDE DEF R
  <2>. QED
    BY <1>7 DEF Lasts
<1>9. <<s \o d, g[Len(d)]>> \in R
  <2> HIDE DEF R
  <2>. QED
    BY <1>5, <1>6, <1>8, RunReads
<1>10. LookInv(W, s \o d, g[Len(d)])
  BY <1>9
<1>. QED
  BY <1>2, <1>5, <1>10 DEF r

\* The words of a line that is observed.
ReadWords == {w \in Word : WordLine(w)}
\* Both scanners have read the words of their file, whatever the order of the lines.
ObservedInv(s, a) ==
  /\ a = [metrics |-> a.metrics, events |-> a.events]
  /\ \A of : WordsOf(s, of) \in Seq(ReadWords)
  /\ MeasureInv(ReadWords, WordsOf(s, "metrics"), a.metrics)
  /\ LookInv(ReadWords, WordsOf(s, "events"), a.events)

\* Such a line has such words.
LEMMA ReadWordsFacts ==
  /\ \A m \in ReadWords : WordLine(m)
  /\ \A l : ObservedLine(l) => l.words \in Seq(ReadWords) /\ l.of \in {"metrics", "events"}
<1>1. \A m \in ReadWords : WordLine(m)
  BY DEF ReadWords
<1>2. ASSUME NEW l, ObservedLine(l) PROVE l.words \in Seq(ReadWords) /\ l.of \in {"metrics", "events"}
  <2> DEFINE d == l.words
  <2>1. d \in Seq(Word) /\ \A i \in DOMAIN d : Parsed(d[i].num, Int)
    BY <1>2 DEF ObservedLine, PiecesLine
  <2>2. l.of \in {"metrics", "events"}
    BY <1>2 DEF ObservedLine
  <2> HIDE DEF d
  <2>3. \A i \in DOMAIN d : d[i] \in ReadWords
    BY <2>1 DEF ReadWords, WordLine
  <2>4. d \in Seq(ReadWords)
    BY <2>1, <2>3
  <2>. QED
    BY <2>2, <2>4 DEF d
<1>. QED
  BY <1>1, <1>2

\* Nothing has been read at first,
LEMMA ObservedStarts == ObservedInv(<<>>, ObservedStart)
<1> DEFINE a == ObservedStart
<1>1. a = [metrics |-> MeasureStart, events |-> LookStart]
  BY DEF ObservedStart, LookStart
<1> HIDE DEF a
<1>2. a.metrics = MeasureStart /\ a.events = LookStart
  BY <1>1
<1>3. WordsOf(<<>>, "metrics") = <<>> /\ WordsOf(<<>>, "events") = <<>>
  BY WordsStart
<1>4. MeasureInv(ReadWords, <<>>, MeasureStart) /\ LookInv(ReadWords, <<>>, LookStart)
  BY MeasureStarts, LookStarts
<1>5. \A of : WordsOf(<<>>, of) \in Seq(ReadWords)
  <2>1. <<>> \in Seq(ReadWords)
    OBVIOUS
  <2>2. \A of : WordsOf(<<>>, of) = <<>>
    BY WordsStart
  <2>. QED
    BY <2>1, <2>2
<1>. QED
  BY <1>1, <1>2, <1>3, <1>4, <1>5 DEF ObservedInv, a

\* a line goes to the scanner of its file and the other stays.
LEMMA ObservedKeeps ==
  ASSUME NEW X, \A m \in X : ObservedLine(m), NEW s \in Seq(X), NEW l \in X, NEW a,
         ObservedInv(s, a)
  PROVE  ObservedInv(Append(s, l), ObservedStep(a, l))
<1> DEFINE W == ReadWords
           t == Append(s, l)
           b == ObservedStep(a, l)
           p == WordsOf(s, "metrics")
           q == WordsOf(s, "events")
           d == l.words
           x == FoldLeft(MeasureStep, a.metrics, d)
           y == FoldLeft(LookAtEvent, a.events, d)
<1>1. \A m \in W : WordLine(m)
  BY ReadWordsFacts
<1>2. \A m \in X : m.words \in Seq(W)
  BY ReadWordsFacts
<1>3. l.of \in {"metrics", "events"} /\ d \in Seq(W)
  BY ReadWordsFacts
<1>4. /\ a = [metrics |-> a.metrics, events |-> a.events]
      /\ MeasureInv(W, p, a.metrics) /\ LookInv(W, q, a.events)
  BY DEF ObservedInv
<1>5. b = IF l.of = "metrics" THEN [a EXCEPT !.metrics = x] ELSE [a EXCEPT !.events = y]
  BY DEF ObservedStep
<1> HIDE DEF W
<1>6. \A of : WordsOf(s, of) \in Seq(W)
              /\ WordsOf(t, of) = IF l.of = of THEN WordsOf(s, of) \o d ELSE WordsOf(s, of)
  BY <1>2, WordsMore
<1>7. p \in Seq(W) /\ q \in Seq(W)
  BY <1>6
<1>a. \A of : WordsOf(t, of) \in Seq(W)
  <2> SUFFICES ASSUME NEW of PROVE WordsOf(t, of) \in Seq(W)
    OBVIOUS
  <2> DEFINE w == WordsOf(s, of)
  <2>1. w \in Seq(W) /\ WordsOf(t, of) = IF l.of = of THEN w \o d ELSE w
    BY <1>6
  <2> HIDE DEF w, d, t
  <2>2. w \o d \in Seq(W)
    BY <1>3, <2>1
  <2>. QED
    BY <2>1, <2>2
<1> HIDE DEF b, t, p, q, d, x, y
<1>8. CASE l.of = "metrics"
  <2>1. b = [metrics |-> x, events |-> a.events]
    BY <1>4, <1>5, <1>8
  <2>2. b.metrics = x /\ b.events = a.events
    BY <2>1
  <2>3. WordsOf(t, "metrics") = p \o d /\ WordsOf(t, "events") = q
    BY <1>6, <1>8 DEF p, q
  <2>4. MeasureInv(W, p \o d, x)
    BY <1>1, <1>3, <1>4, <1>7, MeasureReads DEF x
  <2>. QED
    BY <1>4, <1>a, <2>1, <2>2, <2>3, <2>4 DEF ObservedInv, b, t, W
<1>9. CASE l.of = "events"
  <2>1. b = [metrics |-> a.metrics, events |-> y]
    BY <1>4, <1>5, <1>9
  <2>2. b.metrics = a.metrics /\ b.events = y
    BY <2>1
  <2>3. WordsOf(t, "metrics") = p /\ WordsOf(t, "events") = q \o d
    BY <1>6, <1>9 DEF p, q
  <2>4. LookInv(W, q \o d, y)
    BY <1>1, <1>3, <1>4, <1>7, LookReads DEF y
  <2>. QED
    BY <1>4, <1>a, <2>1, <2>2, <2>3, <2>4 DEF ObservedInv, b, t, W
<1>. QED
  BY <1>3, <1>8, <1>9

\* What the two loops have found.
LEMMA MeasuresFound ==
  ASSUME NEW W, NEW s \in Seq(W), NEW a, MeasureInv(W, s, a)
  PROVE  LET G == Groups(s, 3, Measured)
             Taken == {k \in DOMAIN G : \E v \in G[k][2].num : v >= 0}
             Bad == {k \in Taken : \E v \in G[k][3].num : v >= 500}
         IN /\ a.n.total = Cardinality(Taken) /\ a.n.errors = Cardinality(Bad)
            /\ a.n.total \in Nat /\ a.n.errors \in Nat
            /\ Taken = {} <=> a.n.total = 0
            /\ Bad = {} <=> a.n.errors = 0
            /\ Bad # {} => Taken # {}
<1> DEFINE G == Groups(s, 3, Measured)
           Taken == {k \in DOMAIN G : \E v \in G[k][2].num : v >= 0}
           Bad == {k \in Taken : \E v \in G[k][3].num : v >= 500}
<1>1. PICK c : Scanning(W, 3, MeasureWants, s, a, c) /\ MeasureTally(GroupsUpTo(s, 3, c), a.n)
  BY DEF MeasureInv
<1>2. GroupsUpTo(s, 3, c) \in Seq(GroupSet(W, 3, MeasureWants))
      /\ GroupsOf(s, 3, MeasureWants) = GroupsUpTo(s, 3, c)
  BY <1>1, ThreeWords, ScanTells
<1>3. G = GroupsUpTo(s, 3, c)
  BY <1>2, MeasureGroups
<1> HIDE DEF G
<1>4. Len(G) \in Nat /\ DOMAIN G = 1 .. Len(G) /\ Taken \in SUBSET DOMAIN G /\ Bad \in SUBSET DOMAIN G
  BY <1>2, <1>3
<1>5. TakenAt(G) = Taken /\ ErringAt(G) = Bad
  BY DEF TakenAt, Latent, ErringAt, Erring
<1>6. a.n.total = Cardinality(Taken) /\ a.n.errors = Cardinality(Bad)
  BY <1>1, <1>3, <1>5 DEF MeasureTally
<1>7. Bad \subseteq Taken
  OBVIOUS
<1> HIDE DEF Taken, Bad
<1>8. /\ IsFiniteSet(Taken) /\ Cardinality(Taken) \in Nat
      /\ IsFiniteSet(Bad) /\ Cardinality(Bad) \in Nat
  BY <1>4, PlacesAreFinite
<1>9. (Taken = {} <=> a.n.total = 0) /\ (Bad = {} <=> a.n.errors = 0)
  BY <1>6, <1>8, FS_EmptySet
<1>. QED
  BY <1>6, <1>7, <1>8, <1>9, SMTT(30) DEF G, Taken, Bad

\* And of the events.
LEMMA EventsFound ==
  ASSUME NEW W, NEW s \in Seq(W), NEW a, LookInv(W, s, a)
  PROVE  LET E == Groups(s, 5, Timed) IN
           /\ (a.n.max_lat >= 500 <=> \E w \in ToSet(E) : \E v \in w[5].num : v >= 500)
           /\ (a.n.retries >= 1 <=> \E w \in ToSet(E) : w[3].text = "retry")
<1> DEFINE E == Groups(s, 5, Timed)
           Q == GroupSet(W, 5, EventWants)
<1>1. PICK c : Scanning(W, 5, EventWants, s, a, c) /\ LookTally(Q, GroupsUpTo(s, 5, c), a.n)
  BY DEF LookInv
<1>2. GroupsUpTo(s, 5, c) \in Seq(Q) /\ GroupsOf(s, 5, EventWants) = GroupsUpTo(s, 5, c)
  BY <1>1, FiveWords, ScanTells
<1>3. E = GroupsUpTo(s, 5, c)
  BY <1>2, EventGroups
<1> HIDE DEF E, Q
<1>4. E \in Seq(Q) /\ a.n.retries = Nr(E, Retries(Q)) /\ GreatestIn(a.n.max_lat, Latencies(E))
  BY <1>1, <1>2, <1>3 DEF LookTally
<1>5. ToSet(E) = {E[k] : k \in DOMAIN E} /\ \A k \in DOMAIN E : E[k] \in Q
  BY <1>4 DEF ToSet
<1>6. a.n.max_lat >= 500 <=> \E w \in ToSet(E) : \E v \in w[5].num : v >= 500
  <2> DEFINE L == UNION {w[5].num : w \in ToSet(E)}
             m == a.n.max_lat
  <2>1. Latencies(E) = {0} \union L
    BY DEF Latencies
  <2>2. (\E v \in L : v >= 500) <=> \E w \in ToSet(E) : \E v \in w[5].num : v >= 500
    OBVIOUS
  <2> HIDE DEF L, m
  <2>3. m \in {0} \union L /\ m \in Int /\ \A v \in L : v \in Int /\ v <= m
    BY <1>4, <2>1 DEF GreatestIn, m
  <2>4. m >= 500 <=> \E v \in L : v >= 500
    BY <2>3
  <2>. QED
    BY <2>2, <2>4 DEF m
<1>7. a.n.retries >= 1 <=> \E w \in ToSet(E) : w[3].text = "retry"
  <2>1. Nr(E, Retries(Q)) \in Nat /\ (Nr(E, Retries(Q)) = 0 <=> \A k \in DOMAIN E : E[k] \notin Retries(Q))
    BY <1>4, NrFacts
  <2>2. (\A k \in DOMAIN E : E[k] \notin Retries(Q)) <=> ~\E w \in ToSet(E) : w[3].text = "retry"
    BY <1>5 DEF Retries
  <2>3. a.n.retries >= 1 <=> ~(Nr(E, Retries(Q)) = 0)
    BY <1>4, <2>1
  <2>. QED
    BY <2>1, <2>2, <2>3
<1>. QED
  BY <1>6, <1>7 DEF E

\* So the state that is reported is that of the two files.
LEMMA ObservedTells ==
  ASSUME NEW X, \A m \in X : ObservedLine(m), NEW s \in Seq(X), NEW a, ObservedInv(s, a)
  PROVE  ObservedMatches(s, a)
<1> DEFINE W == ReadWords
           G == Groups(WordsOf(s, "metrics"), 3, Measured)
           Taken == {k \in DOMAIN G : \E v \in G[k][2].num : v >= 0}
           Bad == {k \in Taken : \E v \in G[k][3].num : v >= 500}
           E == Groups(WordsOf(s, "events"), 5, Timed)
           Slow == \E w \in ToSet(E) : \E v \in w[5].num : v >= 500
           Retried == \E w \in ToSet(E) : w[3].text = "retry"
           m == a.metrics.n
           e == a.events.n
<1>1. MeasureInv(W, WordsOf(s, "metrics"), a.metrics) /\ LookInv(W, WordsOf(s, "events"), a.events)
  BY DEF ObservedInv
<1>2. WordsOf(s, "metrics") \in Seq(W) /\ WordsOf(s, "events") \in Seq(W)
  BY DEF ObservedInv
<1>3. /\ m.total = Cardinality(Taken) /\ m.errors = Cardinality(Bad)
      /\ m.total \in Nat /\ m.errors \in Nat
      /\ (Taken = {} <=> m.total = 0)
      /\ (Bad = {} <=> m.errors = 0)
      /\ (Bad # {} => Taken # {})
  BY <1>1, <1>2, MeasuresFound
<1>4. (e.max_lat >= 500 <=> Slow) /\ (e.retries >= 1 <=> Retried)
  BY <1>1, <1>2, EventsFound
<1> HIDE DEF Taken, Bad, Slow, Retried, m, e
<1>5. /\ ErrorsReach(m, 20) <=> Bad # {} /\ 5 * Cardinality(Bad) >= Cardinality(Taken)
      /\ ErrorsReach(m, 5) <=> ~(Taken = {} \/ 20 * Cardinality(Bad) < Cardinality(Taken))
  <2> DEFINE x == m.total
             y == m.errors
  <2>1. /\ ErrorsReach(m, 20) <=> x > 0 /\ 100 * y >= 20 * x
        /\ ErrorsReach(m, 5) <=> x > 0 /\ 100 * y >= 5 * x
    BY DEF ErrorsReach
  <2>2. /\ x \in Nat /\ y \in Nat /\ x = Cardinality(Taken) /\ y = Cardinality(Bad)
        /\ (Taken = {} <=> x = 0)
        /\ (Bad = {} <=> y = 0)
        /\ (Bad # {} => Taken # {})
    BY <1>3
  <2> HIDE DEF x, y
  <2>3. /\ x > 0 /\ 100 * y >= 20 * x <=> y # 0 /\ 5 * y >= x
        /\ x > 0 /\ 100 * y >= 5 * x <=> ~(x = 0 \/ 20 * y < x)
    BY <2>2
  <2>. QED
    BY <2>1, <2>2, <2>3
<1>6. ErrorsReach(m, 20) => ErrorsReach(m, 5)
  BY <1>3 DEF ErrorsReach
<1>7. /\ Observed(a) = "CRIT" <=> ErrorsReach(m, 20) \/ e.max_lat >= 500
      /\ Observed(a) = "OK" <=> ~(ErrorsReach(m, 20) \/ e.max_lat >= 500)
                                /\ ~(ErrorsReach(m, 5) \/ e.retries >= 1)
  BY DEF Observed, m, e
<1>8. /\ Observed(a) = "CRIT" <=>
           Slow \/ (Bad # {} /\ 5 * Cardinality(Bad) >= Cardinality(Taken))
      /\ Observed(a) = "OK" <=>
           /\ ~Slow /\ ~Retried
           /\ Taken = {} \/ 20 * Cardinality(Bad) < Cardinality(Taken)
  BY <1>4, <1>5, <1>6, <1>7
<1>. QED
  BY <1>8 DEF ObservedMatches, Taken, Bad, Slow, Retried

-----------------------------------------------------------------------------
(* Block 12: all its readers.                                               *)

\* What holds of the reader t of block 12 after it has read s and remembers a.
CloudInv(t, s, a) ==
  /\ t = "contract"  => ContractInv(Lines(t), s, a)
  /\ t = "snapshot"  => SnapshotInv(Lines(t), s, a)
  /\ t = "plan"      => PlanInv(Lines(t), s, a)
  /\ t = "reduce"    => ReduceInv(Lines(t), s, a)
  /\ t = "measure"   => MeasureInv(Lines(t), s, a)
  /\ t = "secret"    => SecretInv(Lines(t), s, a)
  /\ t = "job"       => JobInv(Lines(t), s, a)
  /\ t = "events"    => EventsInv(Lines(t), s, a)
  /\ t = "policy"    => PolicyInv(Lines(t), s, a)
  /\ t = "entry"     => EntryInv(Lines(t), s, a)
  /\ t = "router"    => PlanInv(Lines(t), s, a)
  /\ t = "manifest"  => ManifestInv(Lines(t), s, a)
  /\ t = "demand"    => DemandInv(Lines(t), s, a)
  /\ t = "observed"  => ObservedInv(s, a)

\* Each reader of block 12 begins right,
LEMMA CloudStarts == ASSUME NEW t PROVE CloudInv(t, <<>>, Start(t))
<1>1. t = "contract" => ContractInv(Lines(t), <<>>, Start(t))
  BY ContractStarts DEF Start
<1>2. t = "snapshot" => SnapshotInv(Lines(t), <<>>, Start(t))
  BY SnapshotStarts DEF Start
<1>3. t = "plan" => PlanInv(Lines(t), <<>>, Start(t))
  BY PlanStarts DEF Start
<1>4. t = "reduce" => ReduceInv(Lines(t), <<>>, Start(t))
  BY ReduceStarts DEF Start
<1>5. t = "measure" => MeasureInv(Lines(t), <<>>, Start(t))
  BY MeasureStarts DEF Start
<1>6. t = "secret" => SecretInv(Lines(t), <<>>, Start(t))
  BY SecretStarts DEF Start
<1>7. t = "job" => JobInv(Lines(t), <<>>, Start(t))
  BY JobStarts DEF Start
<1>8. t = "events" => EventsInv(Lines(t), <<>>, Start(t))
  BY EventsStarts DEF Start
<1>9. t = "policy" => PolicyInv(Lines(t), <<>>, Start(t))
  BY PolicyStarts DEF Start
<1>10. t = "entry" => EntryInv(Lines(t), <<>>, Start(t))
  BY EntryStarts DEF Start
<1>11. t = "router" => PlanInv(Lines(t), <<>>, Start(t))
  BY PlanStarts DEF Start, RouterStart
<1>12. t = "manifest" => ManifestInv(Lines(t), <<>>, Start(t))
  BY ManifestStarts DEF Start
<1>13. t = "demand" => DemandInv(Lines(t), <<>>, Start(t))
  BY DemandStarts DEF Start
<1>14. t = "observed" => ObservedInv(<<>>, Start(t))
  BY ObservedStarts DEF Start
<1>. QED
  BY <1>1, <1>2, <1>3, <1>4, <1>5, <1>6, <1>7, <1>8, <1>9, <1>10, <1>11, <1>12, <1>13, <1>14
  DEF CloudInv

\* keeps what its invariant says with any next line, as long as it goes on,
LEMMA CloudKeeps ==
  ASSUME NEW t \in Tool, NEW s \in Seq(Lines(t)), NEW l \in Lines(t), NEW a, CloudInv(t, s, a)
  PROVE  CloudInv(t, Append(s, l), Step(t, a, l))
<1> DEFINE X == Lines(t)
<1>0. \A m \in X : IsLine(t, m)
  BY LinesAssumption
<1>a. s \in Seq(X) /\ l \in X
  OBVIOUS
<1> HIDE DEF X
<1>1. ASSUME t = "contract" PROVE ContractInv(X, Append(s, l), Step(t, a, l))
  <2>1. ContractInv(X, s, a) /\ Step(t, a, l) = ContractStep(a, l)
    BY <1>1 DEF CloudInv, X, Step
  <2>. QED
    BY <1>a, <2>1, ContractKeeps
<1>2. ASSUME t = "snapshot" PROVE SnapshotInv(X, Append(s, l), Step(t, a, l))
  <2>1. SnapshotInv(X, s, a) /\ Step(t, a, l) = SnapshotStep(a, l)
    BY <1>2 DEF CloudInv, X, Step
  <2>. QED
    BY <1>a, <2>1, SnapshotKeeps
<1>3. ASSUME t = "plan" PROVE PlanInv(X, Append(s, l), Step(t, a, l))
  <2>1. PlanInv(X, s, a) /\ Step(t, a, l) = PlanStep(a, l)
    BY <1>3 DEF CloudInv, X, Step
  <2>. QED
    BY <1>a, <2>1, PlanKeeps
<1>4. ASSUME t = "reduce" PROVE ReduceInv(X, Append(s, l), Step(t, a, l))
  <2>1. ReduceInv(X, s, a) /\ Step(t, a, l) = ReduceStep(a, l)
    BY <1>4 DEF CloudInv, X, Step
  <2>2. HealthLine(l)
    BY <1>0, <1>a, <1>4 DEF IsLine
  <2>. QED
    BY <1>a, <2>1, <2>2, ReduceKeeps
<1>5. ASSUME t = "measure" PROVE MeasureInv(X, Append(s, l), Step(t, a, l))
  <2>1. MeasureInv(X, s, a) /\ Step(t, a, l) = MeasureStep(a, l)
    BY <1>5 DEF CloudInv, X, Step
  <2>2. \A m \in X : WordLine(m)
    BY <1>0, <1>5 DEF IsLine
  <2>. QED
    BY <1>a, <2>1, <2>2, MeasureKeeps
<1>6. ASSUME t = "secret" PROVE SecretInv(X, Append(s, l), Step(t, a, l))
  <2>1. SecretInv(X, s, a) /\ Step(t, a, l) = SecretStep(a, l)
    BY <1>6 DEF CloudInv, X, Step
  <2>. QED
    BY <1>a, <2>1, SecretKeeps
<1>7. ASSUME t = "job" PROVE JobInv(X, Append(s, l), Step(t, a, l))
  <2>1. JobInv(X, s, a) /\ Step(t, a, l) = JobStep(a, l)
    BY <1>7 DEF CloudInv, X, Step
  <2>. QED
    BY <1>a, <2>1, JobKeeps
<1>8. ASSUME t = "events" PROVE EventsInv(X, Append(s, l), Step(t, a, l))
  <2>1. EventsInv(X, s, a) /\ Step(t, a, l) = EventsStep(a, l)
    BY <1>8 DEF CloudInv, X, Step
  <2>2. \A m \in X : WordLine(m)
    BY <1>0, <1>8 DEF IsLine
  <2>. QED
    BY <1>a, <2>1, <2>2, EventsKeeps
<1>9. ASSUME t = "policy" PROVE PolicyInv(X, Append(s, l), Step(t, a, l))
  <2>1. PolicyInv(X, s, a) /\ Step(t, a, l) = PolicyStep(a, l)
    BY <1>9 DEF CloudInv, X, Step
  <2>. QED
    BY <1>a, <2>1, PolicyKeeps
<1>10. ASSUME t = "entry" PROVE EntryInv(X, Append(s, l), Step(t, a, l))
  <2>1. EntryInv(X, s, a) /\ Step(t, a, l) = EntryStep(a, l)
    BY <1>10 DEF CloudInv, X, Step
  <2>. QED
    BY <1>a, <2>1, EntryKeeps
<1>11. ASSUME t = "router" PROVE PlanInv(X, Append(s, l), Step(t, a, l))
  <2>1. PlanInv(X, s, a) /\ Step(t, a, l) = PlanStep(a, l)
    BY <1>11 DEF CloudInv, X, Step, RouterStep
  <2>. QED
    BY <1>a, <2>1, PlanKeeps
<1>12. ASSUME t = "manifest" PROVE ManifestInv(X, Append(s, l), Step(t, a, l))
  <2>1. ManifestInv(X, s, a) /\ Step(t, a, l) = ManifestStep(a, l)
    BY <1>12 DEF CloudInv, X, Step
  <2>2. \A m \in X : PiecesLine(m)
    BY <1>0, <1>12 DEF IsLine
  <2>. QED
    BY <1>a, <2>1, <2>2, ManifestKeeps
<1>13. ASSUME t = "demand" PROVE DemandInv(X, Append(s, l), Step(t, a, l))
  <2>1. DemandInv(X, s, a) /\ Step(t, a, l) = DemandStep(a, l)
    BY <1>13 DEF CloudInv, X, Step
  <2>2. \A m \in X : DemandLine(m)
    BY <1>0, <1>13 DEF IsLine
  <2>. QED
    BY <1>a, <2>1, <2>2, DemandKeeps
<1>14. ASSUME t = "observed" PROVE ObservedInv(Append(s, l), Step(t, a, l))
  <2>1. ObservedInv(s, a) /\ Step(t, a, l) = ObservedStep(a, l)
    BY <1>14 DEF CloudInv, X, Step
  <2>2. \A m \in X : ObservedLine(m)
    BY <1>0, <1>14 DEF IsLine
  <2>. QED
    BY <1>a, <2>1, <2>2, ObservedKeeps
<1>. QED
  BY <1>1, <1>2, <1>3, <1>4, <1>5, <1>6, <1>7, <1>8, <1>9, <1>10, <1>11, <1>12, <1>13, <1>14
  DEF CloudInv, X

\* and its invariant says that the report matches the file.
LEMMA CloudTells ==
  ASSUME FileInv, CloudInv(tool, read, acc)
  PROVE  CloudReportsMatch
<1> DEFINE X == Lines(tool)
<1>0. read \in Seq(X) /\ \A m \in X : IsLine(tool, m)
  BY LinesAssumption DEF FileInv
<1> HIDE DEF X
<1>1. ASSUME tool = "contract" PROVE ContractMatches(read, acc)
  <2>1. ContractInv(X, read, acc) /\ \A m \in X : PiecesLine(m)
    BY <1>0, <1>1 DEF CloudInv, IsLine, X
  <2>. QED
    BY <1>0, <2>1, ContractTells
<1>2. ASSUME tool = "snapshot" PROVE SnapshotMatches(read, acc)
  <2>1. SnapshotInv(X, read, acc) /\ \A m \in X : PiecesLine(m)
    BY <1>0, <1>2 DEF CloudInv, IsLine, X
  <2>. QED
    BY <1>0, <2>1, SnapshotTells
<1>3. ASSUME tool = "plan" PROVE PlanMatches(read, acc)
  <2>1. PlanInv(X, read, acc) /\ \A m \in X : ProxyLine(m)
    BY <1>0, <1>3 DEF CloudInv, IsLine, X
  <2>. QED
    BY <1>0, <2>1, PlanTells
<1>4. ASSUME tool = "reduce" PROVE ReduceMatches(read, acc)
  <2>1. ReduceInv(X, read, acc) /\ \A m \in X : HealthLine(m)
    BY <1>0, <1>4 DEF CloudInv, IsLine, X
  <2>. QED
    BY <1>0, <2>1, ReduceTells
<1>5. ASSUME tool = "measure" PROVE MeasureMatches(read, acc)
  <2>1. MeasureInv(X, read, acc) /\ \A m \in X : WordLine(m)
    BY <1>0, <1>5 DEF CloudInv, IsLine, X
  <2>. QED
    BY <1>0, <2>1, MeasureTells
<1>6. ASSUME tool = "secret" PROVE SecretMatches(read, acc)
  <2>1. SecretInv(X, read, acc) /\ \A m \in X : PiecesLine(m)
    BY <1>0, <1>6 DEF CloudInv, IsLine, X
  <2>. QED
    BY <1>0, <2>1, SecretTells
<1>7. ASSUME tool = "job" PROVE JobMatches(read, acc)
  <2>1. JobInv(X, read, acc) /\ \A m \in X : PiecesLine(m)
    BY <1>0, <1>7 DEF CloudInv, IsLine, X
  <2>. QED
    BY <1>0, <2>1, JobTells
<1>8. ASSUME tool = "events" PROVE EventsMatches(read, acc)
  <2>1. EventsInv(X, read, acc) /\ \A m \in X : WordLine(m)
    BY <1>0, <1>8 DEF CloudInv, IsLine, X
  <2>. QED
    BY <1>0, <2>1, EventsTells
<1>9. ASSUME tool = "policy" PROVE PolicyMatches(read, acc)
  <2>1. PolicyInv(X, read, acc) /\ \A m \in X : PolicyLine(m)
    BY <1>0, <1>9 DEF CloudInv, IsLine, X
  <2>. QED
    BY <1>0, <2>1, PolicyTells
<1>10. ASSUME tool = "entry" PROVE EntryMatches(read, acc)
  <2>1. EntryInv(X, read, acc) /\ \A m \in X : PiecesLine(m)
    BY <1>0, <1>10 DEF CloudInv, IsLine, X
  <2>. QED
    BY <1>0, <2>1, EntryTells
<1>11. ASSUME tool = "router" PROVE RouterMatches(read, acc)
  <2>1. PlanInv(X, read, acc) /\ \A m \in X : ProxyLine(m)
    BY <1>0, <1>11 DEF CloudInv, IsLine, X
  <2>. QED
    BY <1>0, <2>1, RouterTells
<1>12. ASSUME tool = "manifest" PROVE ManifestMatches(read, acc)
  <2>1. ManifestInv(X, read, acc) /\ \A m \in X : PiecesLine(m)
    BY <1>0, <1>12 DEF CloudInv, IsLine, X
  <2>. QED
    BY <1>0, <2>1, ManifestTells
<1>13. ASSUME tool = "demand" PROVE DemandMatches(read, acc)
  <2>1. DemandInv(X, read, acc) /\ \A m \in X : DemandLine(m)
    BY <1>0, <1>13 DEF CloudInv, IsLine, X
  <2>. QED
    BY <1>0, <2>1, DemandTells
<1>14. ASSUME tool = "observed" PROVE ObservedMatches(read, acc)
  <2>1. ObservedInv(read, acc) /\ \A m \in X : ObservedLine(m)
    BY <1>0, <1>14 DEF CloudInv, IsLine, X
  <2>. QED
    BY <1>0, <2>1, ObservedTells
<1>. QED
  BY <1>1, <1>2, <1>3, <1>4, <1>5, <1>6, <1>7, <1>8, <1>9, <1>10, <1>11, <1>12, <1>13, <1>14
  DEF CloudReportsMatch

\* The reports of the commands of MiniCloud (CloudTools) say of the file that was read
\* what it says, whatever its lines are, in any order, and however many: contracts, the
\* snapshot, secrets, jobs, entries, the manifest, the policy, the plan of the gateway, the
\* sums of the demand against the last offers, and measures and events whose words come in
\* groups that lines may cut anywhere.
THEOREM CloudReportsAreRight == Spec => []CloudReportsMatch
<1> DEFINE I == FileInv /\ CloudInv(tool, read, acc)
<1>1. Init => I
  BY FileStarts, CloudStarts DEF Init
<1>2. I /\ [Next]_vars => I'
  <2> SUFFICES ASSUME I, [Next]_vars PROVE CloudInv(tool', read', acc')
    BY FileKeeps
  <2>1. CASE UNCHANGED vars
    BY <2>1 DEF vars
  <2>2. CASE Next
    <3>1. PICK l \in Lines(tool) : read' = Append(read, l) /\ acc' = Step(tool, acc, l)
      BY <2>2 DEF Next, ReadLine
    <3>2. tool' = tool
      BY <2>2 DEF Next, ReadLine
    <3>3. tool \in Tool /\ read \in Seq(Lines(tool))
      BY DEF FileInv
    <3>. QED
      BY <3>1, <3>2, <3>3, CloudKeeps
  <2>. QED
    BY <2>1, <2>2
<1>3. I => CloudReportsMatch
  BY CloudTells
<1>. QED
  BY <1>1, <1>2, <1>3, PTL DEF Spec
=============================================================================
