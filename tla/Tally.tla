------------------------------- MODULE Tally -------------------------------
(***************************************************************************)
(* What the readers of configuration and report files (blocks 08 to 12)    *)
(* have in common: a loop of fgets over one file, a record of counters or  *)
(* of settings, and a report at the end.                                   *)
(***************************************************************************)
EXTENDS Integers, Sequences, FiniteSets, FiniteSetsExt, SequencesExt

CONSTANT IntBits   \* the bits of an int

\* The parse gave up: nothing but the failure is reported.
Failed == [failed |-> TRUE]

Zero(counters) == [k \in counters |-> 0]

\* The counters in S go up by one.
Bump(a, S) == [k \in DOMAIN a |-> IF k \in S THEN a[k] + 1 ELSE a[k]]

\* A number that was parsed, or none.
Parsed(S, V) == S \in SUBSET V /\ \A v, w \in S : v = w

If(test, S) == IF test THEN S ELSE {}
If01(test) == IF test THEN 1 ELSE 0

\* How many of the lines read have the property.
Count(read, P(_)) == Cardinality({i \in DOMAIN read : P(read[i])})

\* The last line read that has the property, as a set.
LastOf(read, P(_)) ==
  {read[i] : i \in {i \in DOMAIN read :
     P(read[i]) /\ \A j \in i + 1 .. Len(read) : ~P(read[j])}}

\* Capitals are read like small letters.
LowerAscii(word) == CASE word = "OK" -> "ok" [] word = "Warn" -> "warn" [] OTHER -> word

\* The three words for a state of health, the worst of them first.
Worst(a) == CASE a.crit > 0 -> "CRIT" [] a.crit = 0 /\ a.warn > 0 -> "WARN" [] OTHER -> "OK"

\* strtok knows no empty field: two separators side by side are one.
Fields(pieces) ==
  FoldLeft(LAMBDA kept, x : IF x.text = "" THEN kept ELSE Append(kept, x), <<>>, pieces)

\* The sum of the numbers in h at the places in S.
TotalOver(h, S) == FoldSet(LAMBDA k, sum : sum + h[k], 0, S)

InRange(piece, least, most) == \E v \in piece.num : v \in least .. most

\* Where the pieces with something in them stand.
Filled(pieces) == {i \in DOMAIN pieces : pieces[i].text # ""}

\* The k-th of them.
Nth(pieces, k) ==
  CHOOSE i \in Filled(pieces) : Cardinality({j \in Filled(pieces) : j <= i}) = k

\* A loop of fscanf takes word after word, whatever line it is on, and ends at
\* the first word that is no number where one is wanted.  Wants(i) says whether
\* the i-th of the n conversions is a number; Use counts a group of n words.
Scanner(counters) == [words |-> <<>>, ended |-> FALSE, n |-> counters]

Scan(a, word, n, Wants(_), Use(_, _)) ==
  LET words == Append(a.words, word) IN
    CASE a.ended -> a
      [] ~a.ended /\ Wants(Len(words)) /\ word.num = {} -> [a EXCEPT !.ended = TRUE]
      [] OTHER -> IF Len(words) < n THEN [a EXCEPT !.words = words]
                  ELSE [a EXCEPT !.words = <<>>, !.n = Use(@, words)]

\* The groups of n words from the first word on that all have their numbers.
Groups(read, n, Wants(_)) ==
  LET Group(k) == SubSeq(read, n * (k - 1) + 1, n * k)
      Good(k) == \A i \in 1 .. n : Wants(i) => Group(k)[i].num # {}
      K == {k \in 0 .. Len(read) \div n : \A j \in 1 .. k : Good(j)}
  IN [k \in 1 .. Max(K) |-> Group(k)]

\* The number a word is (Scan has seen that it is one).
Number(word) == CHOOSE v \in word.num : TRUE

\* The cast of a long to an int of b bits.
ToInt(v, b) == LET r == v % 2^b IN IF r >= 2^(b - 1) THEN r - 2^b ELSE r
=============================================================================
