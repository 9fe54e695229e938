------------------------------ MODULE HostTools ------------------------------
(***************************************************************************)
(* The readers of blocks 08 (file systems, quotas) and 09 (capabilities,   *)
(* paths, sizes, records, the buffer of a hash).  Lines, pieces and words  *)
(* are given as in NetTools and CloudTools.                                *)
(***************************************************************************)
EXTENDS Tally

CONSTANTS
  SizeMax,     \* SIZE_MAX
  MaxDepth,    \* segments of a path that fit its stack (128)
  HashBlock,   \* bytes of a block (64)
  HashLength,  \* bytes of the length at its end (8)
  FsBlocks     \* blocks of a file system that is audited, at most

-----------------------------------------------------------------------------
(* 08 e02: mounts and fstab; the first mount point is kept.                *)

TableStart == [count |-> 0, first |-> {}]

TableStep(a, l) ==
  IF l.comment \/ l.fields < 3 THEN a
  ELSE [count |-> a.count + 1, first |-> IF a.count = 0 THEN {l.mnt} ELSE a.first]

TableMatches(read, a) ==
  LET Rows == {i \in DOMAIN read : ~read[i].comment /\ read[i].fields >= 3} IN
    /\ a.count = Cardinality(Rows)
    /\ a.first = {read[i].mnt : i \in {i \in Rows : \A j \in Rows : i <= j}}

-----------------------------------------------------------------------------
(* 08 e04: entries of an ACL, counted by what the line begins with.        *)

AclStart == Zero({"user", "group", "default"})

\* A default entry for a user or a group is a default entry only.
AclStep(a, l) ==
  CASE l.comment -> a
    [] ~l.comment /\ Head(l.parts) = "default" -> Bump(a, {"default"})
    [] OTHER -> Bump(a, {Head(l.parts)})

AclMatches(read, a) ==
  /\ a.default = Count(read, LAMBDA l : ~l.comment /\ l.parts[1] = "default")
  /\ a.user + a.group + a.default = Count(read, LAMBDA l : ~l.comment /\
       ToSet(l.parts) \cap {"default", "user", "group"} # {})

-----------------------------------------------------------------------------
(* 08 e07: volumes of LVM.  A size is a value and a unit.                  *)

SizeToMib(size) ==
  CASE size.unit = "g" -> 1024 * size.value
    [] size.unit = "m" -> size.value
    [] size.unit = "t" -> 1024 * 1024 * size.value
    [] OTHER           -> -1

VolumesStart == [lvs |-> 0, thin |-> 0, total_mib |-> 0]

VolumesStep(a, l) ==
  IF l.fields # 4 THEN a
  ELSE [lvs |-> a.lvs + 1, thin |-> a.thin + If01(l.thin),
        total_mib |-> a.total_mib + Max({SizeToMib(l.size), 0})]

\* A size that cannot be read adds nothing, and takes nothing away.
VolumesMatches(read, a) ==
  LET Rows == {i \in DOMAIN read : read[i].fields = 4} IN
    /\ a.lvs = Cardinality(Rows) /\ a.thin <= a.lvs
    /\ a.total_mib = FoldSet(LAMBDA i, s : s + SizeToMib(read[i].size), 0,
                             {i \in Rows : read[i].size.unit \in {"g", "m", "t"}})

-----------------------------------------------------------------------------
(* 08 e08, e09, e10: the same quota report read by lines (e08) and by      *)
(* words (e09, e10).  A line is the sequence of its words.                 *)

OverSoft(w) == Number(w[2]) > Number(w[3])
OverHard(w) == Number(w[2]) > Number(w[4])

Wanted(i) == i \in 2 .. 4
Whole(l) == Len(l) >= 4 /\ \A i \in 2 .. 4 : l[i].num # {}

QuotaLine(a, l) ==
  IF Head(l).text = "#" \/ ~Whole(l) THEN a
  ELSE Bump(a, {"users"} \union If(OverSoft(l), {"over_soft"})
                         \union If(OverHard(l), {"over_hard"}))

QuotaWord(a, word) ==
  Scan(a, word, 4, Wanted, LAMBDA n, w : Bump(n, If(OverSoft(w), {"over_soft"})))

QuotaStart ==
  [lines |-> Zero({"users", "over_soft", "over_hard"}), words |-> Scanner(Zero({"over_soft"}))]

QuotaStep(a, l) ==
  [lines |-> QuotaLine(a.lines, l), words |-> FoldLeft(QuotaWord, a.words, l)]

\* 08 e10: what is used of a file system, and how bad that is.
Used(total, avail) == IF total >= avail THEN total - avail ELSE 0

\* At least so many per cent of it is used (of nothing, nothing is).
UsedPct(total, avail, pct) == total > 0 /\ 100 * Used(total, avail) >= pct * total

QuotaStatus(over_soft, total, avail) ==
  IF UsedPct(total, avail, 95) \/ over_soft >= 3 THEN "CRIT"
  ELSE IF UsedPct(total, avail, 80) \/ over_soft >= 1 THEN "WARN" ELSE "OK"

\* Both readings agree up to the first line that is not four good words; from a
\* heading on, the reading by words counts nobody any more.
QuotaMatches(read, a) ==
  LET Good(i) == Len(read[i]) = 4 /\ Whole(read[i]) /\ read[i][1].text # "#"
      Before(i) == \A j \in 1 .. i - 1 : Good(j)
      Over(n) == Cardinality({i \in 1 .. n : OverSoft(read[i])})
      words == a.words.n.over_soft
  IN /\ Before(Len(read) + 1) => words = a.lines.over_soft
     /\ \A i \in DOMAIN read :
          Before(i) /\ read[i][1].text = "#" /\ ~Whole(read[i]) => words = Over(i - 1)
     /\ a.lines.over_soft <= a.lines.users
     /\ (\A i \in DOMAIN read : Whole(read[i]) => Number(read[i][3]) <= Number(read[i][4]))
          => a.lines.over_hard <= a.lines.over_soft
     \* More space never makes the status worse.
     /\ \A total, more, less \in 0 .. FsBlocks :
          LET better == QuotaStatus(words, total, more)
              worse == QuotaStatus(words, total, less)
          IN less <= more => (worse = "OK" => better = "OK")
                               /\ (better = "CRIT" => worse = "CRIT")

-----------------------------------------------------------------------------
(* 09 e01: the effective capabilities of a process, a set of bits.         *)

CapStart == [ended |-> FALSE, mask |-> {}]

CapStep(a, l) == IF a.ended \/ ~l.cap_eff THEN a ELSE [ended |-> TRUE, mask |-> l.mask]

Has(a, bit) == \E m \in a.mask : bit \in m

\* The first CapEff line decides, even one without a number.
CapMatches(read, a) ==
  \A bit \in {10, 13} :
    Has(a, bit) <=> \E i \in DOMAIN read :
      /\ read[i].cap_eff /\ \E m \in read[i].mask : bit \in m
      /\ \A j \in 1 .. i - 1 : ~read[j].cap_eff

-----------------------------------------------------------------------------
(* 09 e03: the mode of SELinux is the first one with a word, the counts of *)
(* AppArmor are the last ones.                                             *)

MacStart == [mode |-> {}, enforce |-> 0, complain |-> 0]

MacStep(a, l) ==
  CASE l.says = "mode" /\ a.mode = {}       -> [a EXCEPT !.mode = l.word]
    [] l.says = "enforce" /\ l.num # {}     -> [a EXCEPT !.enforce = ToInt(Number(l), IntBits)]
    [] l.says = "complain" /\ l.num # {}    -> [a EXCEPT !.complain = ToInt(Number(l), IntBits)]
    [] OTHER                                -> a

MacMatches(read, a) ==
  LET Latest(what) == LastOf(read, LAMBDA l : l.says = what /\ l.num # {})
      Modes == {i \in DOMAIN read : read[i].says = "mode" /\ read[i].word # {}}
  IN /\ \A l \in Latest("enforce") : \A v \in l.num : (a.enforce - v) % 2^IntBits = 0
     /\ \A l \in Latest("complain") : \A v \in l.num : (a.complain - v) % 2^IntBits = 0
     /\ a.mode = UNION {read[i].word : i \in {i \in Modes : \A j \in Modes : i <= j}}

-----------------------------------------------------------------------------
(* 09 e04 and e05: the buffer of SHA-256.  A line is what one call of      *)
(* update adds; what the compression is given is the sequence of blocks.   *)

HashStart == [data |-> <<>>, bitlen |-> 0, blocks |-> <<>>]

\* A slip of HashByte: the length grows only by what is left at the end.
HashByteUncounted(h, byte) ==
  LET data == Append(h.data, byte) IN
    IF Len(data) < HashBlock THEN [h EXCEPT !.data = data]
    ELSE [h EXCEPT !.data = <<>>, !.blocks = Append(@, data)]

HashByte(h, byte) ==
  LET data == Append(h.data, byte) IN
    IF Len(data) < HashBlock THEN [h EXCEPT !.data = data]
    ELSE [data |-> <<>>, bitlen |-> h.bitlen + 8 * HashBlock, blocks |-> Append(h.blocks, data)]

HashStep(h, bytes) == FoldLeft(HashByte, h, bytes)

Zeros(n) == [i \in 1 .. n |-> 0]

\* The last byte of the padding is its only other one (128).
Marker == 128

\* The length takes HashLength bytes, the last the least; two are given here.
LengthBytes(bits) == Zeros(HashLength - 2) \o <<bits \div 256, bits % 256>>

\* A block without room for the marker and the length is filled and one more
\* begun.
HashFinal(h) ==
  LET room == HashBlock - HashLength
      marked == Append(h.data, Marker)
      full == Len(marked) > room
      filled == marked \o Zeros(HashBlock - Len(marked))
      last == IF full THEN Zeros(room) ELSE marked \o Zeros(room - Len(marked))
      bits == h.bitlen + 8 * Len(h.data)
  IN h.blocks \o (IF full THEN <<filled>> ELSE <<>>) \o <<last \o LengthBytes(bits)>>

\* However a message is cut into calls, the blocks are the message, the marker,
\* the least number of zeros, and the length.
HashMatches(read, h) ==
  LET message == FlattenSeq(read)
      all == FlattenSeq(HashFinal(h))
      n == Len(message)
  IN /\ \A i \in DOMAIN HashFinal(h) : Len(HashFinal(h)[i]) = HashBlock
     /\ SubSeq(all, 1, n) = message /\ all[n + 1] = Marker
     /\ \A i \in n + 2 .. Len(all) - HashLength : all[i] = 0
     /\ Len(all) - n - 1 - HashLength \in 0 .. HashBlock - 1
     /\ SubSeq(all, Len(all) - HashLength + 1, Len(all)) = LengthBytes(8 * n)

-----------------------------------------------------------------------------
(* 09 e05: HMAC.  A line is a key and a message; what is kept is what the  *)
(* inner and the outer hash were given.                                    *)

\* What the compression makes of blocks stands for itself: some HashBlock \div 2
\* bytes that depend on all of them.
Digest(blocks) ==
  LET all == FlattenSeq(blocks)
      sum == FoldLeft(LAMBDA n, b : (7 * n + b) % 251, Len(all), all)
  IN [i \in 1 .. HashBlock \div 2 |-> (sum + i) % 256]

Hashed(pieces) == FoldLeft(HashStep, HashStart, pieces)

KeyBlock(key) ==
  LET k == IF Len(key) > HashBlock THEN Digest(HashFinal(Hashed(<<key>>))) ELSE key
  IN k \o Zeros(HashBlock - Len(k))

\* Of two bytes, the bits that one of them has.
Xor(x, y) ==
  LET Bit(v, k) == (v \div 2^k) % 2
  IN SumSet({2^k : k \in {k \in 0 .. 7 : Bit(x, k) # Bit(y, k)}})

Masked(bytes, mask) == [i \in DOMAIN bytes |-> Xor(bytes[i], mask)]

HmacStart == {}

HmacStep(a, l) ==
  LET k == KeyBlock(l.key)
      inner == Hashed(<<Masked(k, 54), l.message>>)
  IN {[inner |-> inner, outer |-> Hashed(<<Masked(k, 92), Digest(HashFinal(inner))>>)]}

\* Both hashes begin with one whole block of the key, masked differently; behind
\* it the inner one has the message and the outer one what the inner one gave.
\* No key is cut: what fits is followed by zeros, and a longer one is hashed.
HmacMatches(read, a) ==
  \A h \in a :
    LET l == read[Len(read)]
        first == h.inner.blocks[1]
    IN /\ HashMatches(<<first, l.message>>, h.inner)
       /\ HashMatches(<<Masked(first, 106), Digest(HashFinal(h.inner))>>, h.outer)
       /\ Masked(first, 54) = IF Len(l.key) <= HashBlock
                              THEN [i \in 1 .. HashBlock |-> IF i \in DOMAIN l.key THEN l.key[i] ELSE 0]
                              ELSE KeyBlock(Digest(HashFinal(Hashed(<<l.key>>))))

-----------------------------------------------------------------------------
(* 09 e07: a product of sizes that must fit.                               *)

ProductStart == {}

CheckedMul(x, y) ==
  CASE x = 0 \/ y = 0                            -> {0}
    [] x # 0 /\ y # 0 /\ x > SizeMax \div y      -> {}
    [] OTHER                                     -> {(x * y) % (SizeMax + 1)}

ProductStep(a, l) == UNION {CheckedMul(x, y) : x \in l.x, y \in l.y}

ProductMatches(read, a) ==
  \A l \in ToSet(read) : a = {p \in {x * y : x \in l.x, y \in l.y} : p <= SizeMax}

-----------------------------------------------------------------------------
(* 09 e08: a relative path, piece by piece between its slashes.            *)

PathStart == [refused |-> FALSE, begun |-> FALSE, stack |-> <<>>]

Refuse(a) == [a EXCEPT !.refused = TRUE]

PathStep(a, piece) ==
  LET b == [a EXCEPT !.begun = TRUE] IN
    CASE piece = "" /\ ~a.begun                        -> Refuse(b)
      [] piece = "." \/ (piece = "" /\ a.begun)        -> b
      [] piece = ".." /\ a.stack = <<>>                -> Refuse(b)
      [] piece = ".." /\ a.stack # <<>>                -> [b EXCEPT !.stack = Front(@)]
      [] piece = "bad!"                                -> Refuse(b)
      [] piece \notin {"", ".", "..", "bad!"} /\ Len(a.stack) >= MaxDepth -> Refuse(b)
      [] OTHER                                         -> [b EXCEPT !.stack = Append(@, piece)]

Allowed(a) == a.begun /\ ~a.refused

\* Allowed is a path of good pieces that never climbs above where it began, nor
\* deeper than the stack; what is left of it are the names that no ".." takes
\* back.
PathMatches(read, a) ==
  LET Names == {i \in DOMAIN read : read[i] \notin {"", ".", "..", "bad!"}}
      Height(i) == Cardinality({j \in Names : j <= i})
                     - Cardinality({j \in 1 .. i : read[j] = ".."})
      Kept == {i \in Names : \A j \in i .. Len(read) : Height(j) >= Height(i)}
  IN /\ Allowed(a) <=>
          /\ read # <<>> /\ read[1] # "" /\ "bad!" \notin ToSet(read)
          /\ \A i \in DOMAIN read : Height(i) \in 0 .. MaxDepth
     /\ Allowed(a) =>
          /\ Len(a.stack) = Cardinality(Kept)
          /\ \A i \in Kept : a.stack[Height(i)] = read[i]

-----------------------------------------------------------------------------
(* 09 e09: two tokens compared in full.                                    *)

TokenStart == {}

ConstantTimeEq(x, y) ==
  LET At(s, i) == IF i <= Len(s) THEN s[i] ELSE "end"
      diff == If(Len(x) # Len(y), {0})
                \union {i \in 1 .. Max({Len(x), Len(y)}) : At(x, i) # At(y, i)}
  IN diff = {}

TokenStep(a, l) == {ConstantTimeEq(l.candidate, l.expected)}

TokenMatches(read, a) == \A l \in ToSet(read) : a = {l.candidate = l.expected}

-----------------------------------------------------------------------------
(* 09 e10: records of users, user | salt | mac | flags.                    *)

RecordStart == Zero({"valid", "invalid", "admin"})

ValidRecord(f) ==
  /\ Len(f) = 4
  /\ f[1].name /\ f[2].text = "hex16" /\ f[3].text = "hex64"
  /\ InRange(f[4], 0, 7)

RecordStep(a, pieces) ==
  LET f == Fields(pieces) IN
    IF ~ValidRecord(f) THEN Bump(a, {"invalid"})
    ELSE Bump(a, {"valid"} \union If(Number(f[4]) % 2 = 1, {"admin"}))

\* Nobody is an administrator by a record that is not valid.
RecordMatches(read, a) ==
  LET Good(l) == /\ Cardinality(Filled(l)) = 4 /\ l[Nth(l, 1)].name
                 /\ l[Nth(l, 2)].text = "hex16" /\ l[Nth(l, 3)].text = "hex64"
                 /\ InRange(l[Nth(l, 4)], 0, 7)
  IN /\ a.valid + a.invalid = Len(read) /\ a.valid = Count(read, Good)
     /\ a.admin = Count(read, LAMBDA l : Good(l) /\ l[Nth(l, 4)].num \cap {1, 3, 5, 7} # {})
=============================================================================
