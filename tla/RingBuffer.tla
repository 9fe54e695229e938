----------------------------- MODULE RingBuffer -----------------------------
(***************************************************************************)
(* The circular buffer that the thread exercises of bloque05 share: an     *)
(* array, the two indices that go round it and the number of elements.     *)
(* The lemmas at the end say what Push and Pop do to the contents, for any *)
(* capacity and any position of the indices.                               *)
(***************************************************************************)
EXTENDS Integers, Sequences, TLAPS

CONSTANT Capacity  \* QUEUE_CAP

ASSUME CapacityIsPositive == Capacity \in Nat \ {0}

Slots == 0 .. Capacity - 1

\* An index that has gone past the end of the array.
Wrap(i) == i % Capacity

Ring(V) == [buf : [Slots -> V], head : Slots, tail : Slots, count : 0 .. Capacity]

\* An array in static storage holds zeros.
EmptyRing == [buf |-> [i \in Slots |-> 0], head |-> 0, tail |-> 0, count |-> 0]

Full(q) == q.count = Capacity
Empty(q) == q.count = 0

\* Slips of Push and Pop: the tail runs past the end of the array before it
\* comes back; the head does not move.
PushLate(q, v) ==
  [q EXCEPT !.buf[q.tail] = v,
            !.tail = IF @ = Capacity THEN 0 ELSE @ + 1,
            !.count = @ + 1]

PopStuck(q) == [q EXCEPT !.count = @ - 1]

Push(q, v) ==
  [buf |-> [q.buf EXCEPT ![q.tail] = v],
   head |-> q.head,
   tail |-> Wrap(q.tail + 1),
   count |-> q.count + 1]

Front(q) == q.buf[q.head]

Pop(q) ==
  [buf |-> q.buf,
   head |-> Wrap(q.head + 1),
   tail |-> q.tail,
   count |-> q.count - 1]

\* What is in the buffer, first in first.
Contents(q) == [i \in 1 .. q.count |-> q.buf[Wrap(q.head + i - 1)]]

-----------------------------------------------------------------------------

\* One turn round the array at most.
LEMMA WrapOnce ==
  ASSUME NEW a \in Int, NEW k \in Int,
         0 <= a, a < Capacity, 0 <= k, k <= Capacity
  PROVE  Wrap(a + k) = IF a + k < Capacity THEN a + k ELSE a + k - Capacity
<1> USE CapacityIsPositive DEF Wrap
<1>1. CASE a + k < Capacity
  BY <1>1, Z3
<1>2. CASE a + k >= Capacity
  BY <1>2, Z3
<1>. QED
  BY <1>1, <1>2

\* The elements of the ring are where the indices say, and the tail follows
\* the last of them.
RingOf(r, s) ==
  /\ r \in Ring(Int)
  /\ Len(s) = r.count
  /\ r.tail = Wrap(r.head + r.count)
  /\ \A i \in 1 .. r.count : r.buf[Wrap(r.head + (i - 1))] = s[i]

\* The contents of a ring are the sequence it represents.
LEMMA RingOfContents ==
  ASSUME NEW r, NEW s \in Seq(Int), RingOf(r, s)
  PROVE  Contents(r) = s
BY DEF RingOf, Contents, Ring

\* The same in plain integers.
LEMMA RingFacts ==
  ASSUME NEW r, NEW s \in Seq(Int), RingOf(r, s)
  PROVE  /\ Capacity \in Int /\ Capacity > 0
         /\ r.buf \in [Slots -> Int]
         /\ r.head \in Int /\ 0 <= r.head /\ r.head < Capacity
         /\ r.tail \in Int /\ 0 <= r.tail /\ r.tail < Capacity
         /\ r.count \in Int /\ 0 <= r.count /\ r.count <= Capacity
         /\ Len(s) = r.count
BY CapacityIsPositive DEF RingOf, Ring, Slots

\* Push appends, whatever the position of the indices.
LEMMA PushAppends ==
  ASSUME NEW r, NEW s \in Seq(Int), NEW v \in Int, RingOf(r, s), ~Full(r)
  PROVE  RingOf(Push(r, v), Append(s, v))
<1> DEFINE t == Push(r, v)  h == r.head  n == r.count
<1>0. /\ Capacity \in Int /\ Capacity > 0
      /\ h \in Int /\ 0 <= h /\ h < Capacity
      /\ r.tail \in Int /\ 0 <= r.tail /\ r.tail < Capacity
      /\ n \in Int /\ 0 <= n /\ n < Capacity
      /\ Len(s) = n
  BY RingFacts DEF Full
<1>1. /\ t.buf = [r.buf EXCEPT ![r.tail] = v]
      /\ t.tail = Wrap(r.tail + 1)
      /\ t.head = h /\ t.count = n + 1
      /\ t = [buf |-> t.buf, head |-> t.head, tail |-> t.tail, count |-> t.count]
  BY DEF Push
<1>2. /\ r.tail = Wrap(h + n)
      /\ \A i \in 1 .. n : r.buf[Wrap(h + (i - 1))] = s[i]
      /\ r.buf \in [Slots -> Int]
  BY DEF RingOf, Ring
<1> HIDE DEF t, h, n
<1>3. r.tail = IF h + n < Capacity THEN h + n ELSE h + n - Capacity
  BY <1>0, <1>2, WrapOnce
<1>4. Wrap(r.tail + 1) = IF r.tail + 1 < Capacity THEN r.tail + 1
                                                  ELSE r.tail + 1 - Capacity
  BY <1>0, WrapOnce
<1>5. Wrap(h + (n + 1)) = IF h + (n + 1) < Capacity THEN h + (n + 1)
                                                    ELSE h + (n + 1) - Capacity
  <2>1. n + 1 \in Int /\ 0 <= n + 1 /\ n + 1 <= Capacity
    BY <1>0
  <2>. QED
    BY <1>0, <2>1, WrapOnce
<1>6. t.tail = Wrap(t.head + t.count)
  <2>1. Wrap(r.tail + 1) = Wrap(h + (n + 1))
    <3>1. CASE h + n < Capacity
      BY <1>0, <1>3, <1>4, <1>5, <3>1
    <3>2. CASE h + n >= Capacity
      BY <1>0, <1>3, <1>4, <1>5, <3>2
    <3>. QED
      BY <1>0, <3>1, <3>2
  <2>. QED
    BY <1>1, <2>1
<1>7. t.tail \in Slots /\ t.head \in Slots /\ t.count \in 0 .. Capacity
  <2>1. Wrap(r.tail + 1) \in Int /\ 0 <= Wrap(r.tail + 1) /\ Wrap(r.tail + 1) < Capacity
    BY <1>0, <1>4
  <2>2. h \in Slots /\ n + 1 \in 0 .. Capacity
    BY <1>0 DEF Slots
  <2>. QED
    BY <1>0, <1>1, <2>1, <2>2 DEF Slots
<1>8. t.buf \in [Slots -> Int]
  BY <1>1, <1>2
<1>9. t \in Ring(Int)
  BY <1>1, <1>7, <1>8 DEF Ring
<1>10. ASSUME NEW i \in 1 .. n + 1
       PROVE  t.buf[Wrap(h + (i - 1))] = Append(s, v)[i]
  <2> DEFINE k == Wrap(h + (i - 1))
  <2>1. i - 1 \in Int /\ 0 <= i - 1 /\ i - 1 <= n /\ i - 1 <= Capacity
    BY <1>0
  <2>2. k = IF h + (i - 1) < Capacity THEN h + (i - 1)
                                      ELSE h + (i - 1) - Capacity
    BY <1>0, <2>1, WrapOnce
  <2> HIDE DEF k
  <2>3. k \in Slots
    BY <1>0, <2>1, <2>2 DEF Slots
  <2>4. CASE i = n + 1
    <3>1. k = r.tail
      BY <1>0, <1>3, <2>2, <2>4
    <3>2. t.buf[k] = v
      BY <1>1, <1>2, <2>3, <3>1
    <3>. QED
      BY <1>0, <2>4, <3>2 DEF k
  <2>5. CASE i \in 1 .. n
    <3>1. k # r.tail
      BY <1>0, <1>3, <2>2, <2>5
    <3>2. r.buf[k] = s[i]
      BY <1>2, <2>5 DEF k
    <3>3. Append(s, v)[i] = s[i]
      BY <1>0, <2>5
    <3>4. t.buf[k] = r.buf[k]
      BY <1>1, <1>2, <2>3, <3>1
    <3>. QED
      BY <3>2, <3>3, <3>4 DEF k
  <2>. QED
    BY <1>0, <2>4, <2>5
<1>11. Len(Append(s, v)) = t.count
  BY <1>0, <1>1
<1>12. \A i \in 1 .. t.count : t.buf[Wrap(t.head + (i - 1))] = Append(s, v)[i]
  BY <1>1, <1>10
<1>. QED
  BY <1>6, <1>9, <1>11, <1>12 DEF RingOf, t

\* Pop removes the front, which is the first element.
LEMMA PopRemoves ==
  ASSUME NEW r, NEW s \in Seq(Int), RingOf(r, s), ~Empty(r)
  PROVE  Front(r) = Head(s) /\ RingOf(Pop(r), Tail(s))
<1> DEFINE t == Pop(r)  h == r.head  n == r.count
<1>0. /\ Capacity \in Int /\ Capacity > 0
      /\ h \in Int /\ 0 <= h /\ h < Capacity
      /\ n \in Int /\ 0 < n /\ n <= Capacity
      /\ Len(s) = n
  BY RingFacts DEF Empty
<1>1. /\ t.head = Wrap(h + 1)
      /\ t.buf = r.buf /\ t.tail = r.tail /\ t.count = n - 1
      /\ t = [buf |-> t.buf, head |-> t.head, tail |-> t.tail, count |-> t.count]
  BY DEF Pop
<1>2. /\ r.tail = Wrap(h + n)
      /\ \A i \in 1 .. n : r.buf[Wrap(h + (i - 1))] = s[i]
      /\ r.buf \in [Slots -> Int] /\ r.tail \in Slots
  BY DEF RingOf, Ring
<1> HIDE DEF t, h, n
<1>3. Wrap(h + 1) = IF h + 1 < Capacity THEN h + 1 ELSE h + 1 - Capacity
  BY <1>0, WrapOnce
<1>4. t.head \in Int /\ 0 <= t.head /\ t.head < Capacity
  BY <1>0, <1>1, <1>3
<1>5. t \in Ring(Int)
  BY <1>0, <1>1, <1>2, <1>4 DEF Ring, Slots
<1>6. ASSUME NEW k \in 0 .. n - 1
      PROVE  Wrap(t.head + k) = Wrap(h + (k + 1))
  <2>1. /\ k \in Int /\ 0 <= k /\ k <= Capacity
        /\ k + 1 \in Int /\ 0 <= k + 1 /\ k + 1 <= Capacity
    BY <1>0
  <2>2. Wrap(t.head + k) = IF t.head + k < Capacity THEN t.head + k
                                                    ELSE t.head + k - Capacity
    BY <1>0, <1>4, <2>1, WrapOnce
  <2>3. Wrap(h + (k + 1)) = IF h + (k + 1) < Capacity THEN h + (k + 1)
                                                      ELSE h + (k + 1) - Capacity
    BY <1>0, <2>1, WrapOnce
  <2>4. k < Capacity
    BY <1>0
  <2>5. CASE h + 1 < Capacity
    <3>1. t.head = h + 1
      BY <1>1, <1>3, <2>5
    <3>2. t.head + k = h + (k + 1)
      BY <1>0, <2>1, <3>1
    <3>. QED
      BY <3>2
  <2>6. CASE ~(h + 1 < Capacity)
    <3>1. h = Capacity - 1
      BY <1>0, <2>6
    <3>2. t.head = 0
      BY <1>0, <1>1, <1>3, <3>1
    <3>3. h + (k + 1) = Capacity + k
      BY <1>0, <2>1, <3>1
    <3>. QED
      BY <1>0, <2>1, <2>2, <2>3, <2>4, <3>2, <3>3
  <2>. QED
    BY <2>5, <2>6
<1>7. t.tail = Wrap(t.head + t.count)
  <2>1. n - 1 \in 0 .. n - 1 /\ (n - 1) + 1 = n
    BY <1>0
  <2>. QED
    BY <1>1, <1>2, <1>6, <2>1
<1>8. ASSUME NEW i \in 1 .. n - 1
      PROVE  t.buf[Wrap(t.head + (i - 1))] = Tail(s)[i]
  <2>1. /\ i - 1 \in 0 .. n - 1
        /\ (i - 1) + 1 = (i + 1) - 1
        /\ i + 1 \in 1 .. n
    BY <1>0
  <2>2. Wrap(t.head + (i - 1)) = Wrap(h + ((i + 1) - 1))
    BY <1>6, <2>1
  <2>3. r.buf[Wrap(h + ((i + 1) - 1))] = s[i + 1]
    BY <1>2, <2>1
  <2>4. Tail(s)[i] = s[i + 1]
    BY <1>0
  <2>. QED
    BY <1>1, <2>2, <2>3, <2>4
<1>9. Front(r) = Head(s)
  <2>1. r.buf[Wrap(h + (1 - 1))] = s[1]
    BY <1>0, <1>2
  <2>2. h + (1 - 1) = h
    BY <1>0
  <2>3. Wrap(h) = h
    BY <1>0, Z3 DEF Wrap
  <2>5. r.buf[h] = s[1]
    BY <2>1, <2>2, <2>3
  <2>4. Head(s) = s[1]
    BY <1>0
  <2>. QED
    BY <2>5, <2>4 DEF Front, h
<1>10. Len(Tail(s)) = t.count
  BY <1>0, <1>1
<1>11. \A i \in 1 .. t.count : t.buf[Wrap(t.head + (i - 1))] = Tail(s)[i]
  BY <1>1, <1>8
<1>. QED
  BY <1>5, <1>7, <1>9, <1>10, <1>11 DEF RingOf, t

\* A ring at its start is an empty line.
LEMMA EmptyLine ==
  /\ EmptyRing \in Ring(Int) /\ EmptyRing.count = 0
  /\ Contents(EmptyRing) = <<>> /\ RingOf(EmptyRing, <<>>)
<1> DEFINE r == EmptyRing
<1>1. Capacity \in Int /\ Capacity > 0
  BY CapacityIsPositive
<1>2. r \in Ring(Int) /\ r.count = 0 /\ r.head = 0 /\ r.tail = 0
  BY <1>1 DEF EmptyRing, Ring, Slots
<1> HIDE DEF r
<1>3. Contents(r) = <<>>
  BY <1>2 DEF Contents
<1>4. r.tail = Wrap(r.head + r.count)
  <2>1. 0 <= Capacity /\ Wrap(0 + 0) = 0
    BY <1>1, WrapOnce
  <2>. QED
    BY <1>2, <2>1
<1>5. RingOf(r, <<>>)
  BY <1>2, <1>4 DEF RingOf
<1>. QED
  BY <1>2, <1>3, <1>5 DEF r

\* A push and a pop, told by the contents of the ring alone.
HoldsLine(r) == Contents(r) \in Seq(Int) /\ RingOf(r, Contents(r))

LEMMA PushContents ==
  ASSUME NEW r, HoldsLine(r), NEW v \in Int, ~Full(r)
  PROVE  HoldsLine(Push(r, v)) /\ Contents(Push(r, v)) = Append(Contents(r), v)
<1>1. RingOf(Push(r, v), Append(Contents(r), v))
  BY PushAppends DEF HoldsLine
<1>2. Append(Contents(r), v) \in Seq(Int)
  BY DEF HoldsLine
<1>. QED
  BY <1>1, <1>2, RingOfContents DEF HoldsLine

LEMMA PopContents ==
  ASSUME NEW r, HoldsLine(r), ~Empty(r)
  PROVE  /\ Len(Contents(r)) > 0 /\ Front(r) = Contents(r)[1]
         /\ HoldsLine(Pop(r)) /\ Contents(Pop(r)) = Tail(Contents(r))
<1>1. Front(r) = Head(Contents(r)) /\ RingOf(Pop(r), Tail(Contents(r)))
  BY PopRemoves DEF HoldsLine
<1>2. Len(Contents(r)) > 0 /\ Contents(r) # <<>>
  BY DEF HoldsLine, RingOf, Ring, Empty
<1>3. Tail(Contents(r)) \in Seq(Int)
  BY <1>2 DEF HoldsLine
<1>4. Contents(Pop(r)) = Tail(Contents(r))
  BY <1>1, <1>3, RingOfContents
<1>. QED
  BY <1>1, <1>2, <1>3, <1>4 DEF HoldsLine
=============================================================================
