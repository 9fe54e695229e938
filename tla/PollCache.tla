------------------------------ MODULE PollCache ------------------------------
(***************************************************************************)
(* A cache served by one thread and poll, in the same process as its       *)
(* clients (bloque06, e10_minicache_eventloop_poll): every client has      *)
(* written its commands and shut its end before the loop starts, so that   *)
(* each descriptor is readable in each round until its end has been read.  *)
(*                                                                         *)
(* A stream is a sequence of words, of which a newline is one; read may    *)
(* cut it behind any word.  Words longer than their fields, and answers    *)
(* that do not fit in the socket, are left out.                            *)
(***************************************************************************)
EXTENDS Naturals, Sequences, FiniteSets

CONSTANTS
  Clients,   \* CLIENTS
  Streams,   \* what a client may have written
  MaxItems,  \* MAX_ITEMS
  ReadMax,   \* sizeof(tmp)
  BufMax,    \* sizeof(inbuf)
  LineMax    \* sizeof(line)

NL == "newline"
Client == 1 .. Clients
Slot == 1 .. MaxItems

VARIABLES
  db,       \* the entries
  script,   \* what each client wrote
  unread,   \* the part of it that waits in the socket
  inbuf,    \* the part that was read and is not yet a line
  open,     \* descriptors the loop still watches
  turn,     \* the index of the loop
  exit,     \* "running", "ok" or "failure"
  handled   \* history: the lines handled and their answers

vars == <<db, script, unread, inbuf, open, turn, exit, handled>>

Unused == [used |-> FALSE]

Init ==
  /\ db = [i \in Slot |-> Unused]
  /\ script \in [Client -> Streams]
  /\ unread = script
  /\ inbuf = [c \in Client |-> <<>>]
  /\ open = Client
  /\ turn = 1
  /\ exit = "running"
  /\ handled = <<>>

-----------------------------------------------------------------------------
(* handle_command: the answer and what becomes of the table.              *)

find_key(d, k) == {i \in Slot : d[i].used /\ d[i].key = k}
find_free_slot(d) == {i \in Slot : ~d[i].used}

\* Both searches stop at the first entry that fits.
Earliest(S) == {i \in S : \A j \in S : i <= j}

\* The entry a SET writes, if there is one.
SlotFor(d, k) ==
  Earliest(IF find_key(d, k) # {} THEN find_key(d, k) ELSE find_free_slot(d))

\* A command is well formed: sscanf counts its words up to the third.
Is(line, cmd, n) == line # <<>> /\ line[1] = cmd /\ (IF Len(line) > 3 THEN 3 ELSE Len(line)) = n

\* The words written back.
Answer(d, line) ==
  IF Is(line, "SET", 3) THEN IF SlotFor(d, line[2]) = {} THEN <<"ERR", "FULL">> ELSE <<"OK">>
  ELSE IF Is(line, "GET", 2)
  THEN IF find_key(d, line[2]) = {} THEN <<"NULL">>
       ELSE <<"VALUE", d[CHOOSE i \in Earliest(find_key(d, line[2])) : TRUE].value>>
  ELSE IF Is(line, "DEL", 2) THEN <<"OK">>
  ELSE <<"ERR">>

AfterCommand(d, line) ==
  [i \in Slot |->
     IF Is(line, "SET", 3) /\ i \in SlotFor(d, line[2])
     THEN [used |-> TRUE, key |-> line[2], value |-> line[3]]
     ELSE IF Is(line, "DEL", 2) /\ i \in Earliest(find_key(d, line[2])) THEN Unused
     ELSE d[i]]

-----------------------------------------------------------------------------
(* process_connection_buffer: a pass over what has been read.              *)

\* s.line is what follows the last newline; nothing is done after a failure.
Scan(c, s, word) ==
  IF s.failed THEN s
  ELSE IF word # NL THEN [s EXCEPT !.line = Append(@, word)]
  ELSE IF Len(s.line) >= LineMax THEN [s EXCEPT !.failed = TRUE]
  ELSE [s EXCEPT !.db = AfterCommand(@, s.line), !.line = <<>>,
                 !.handled = Append(@, [client |-> c, line |-> s.line,
                                        answer |-> Answer(s.db, s.line)])]

\* What the pass has made of s after each of the words.
After(c, s, words) ==
  LET made[k \in 0 .. Len(words)] == IF k = 0 THEN s ELSE Scan(c, made[k - 1], words[k])
  IN made

\* A slip of Pass: what follows the last newline is not kept.
PassDrops(c, s, words) ==
  LET r == After(c, s, words)[Len(words)]
  IN IF \E k \in DOMAIN words : words[k] = NL THEN [r EXCEPT !.line = <<>>] ELSE r

Pass(c, s, words) == After(c, s, words)[Len(words)]

Shorter(m, n) == IF m < n THEN m ELSE n

\* read returned 0.
CloseEnd(c) ==
  /\ open' = open \ {c}
  /\ UNCHANGED <<db, unread, inbuf, exit, handled>>

TooMuch ==
  /\ exit' = "failure"
  /\ UNCHANGED <<db, unread, inbuf, open, handled>>

Feed(c, n) ==
  \E s \in {Pass(c, [db |-> db, line |-> <<>>, handled |-> handled, failed |-> FALSE],
                 inbuf[c] \o SubSeq(unread[c], 1, n))} :
     /\ unread' = [unread EXCEPT ![c] = SubSeq(@, n + 1, Len(@))]
     /\ inbuf' = [inbuf EXCEPT ![c] = s.line]
     /\ db' = s.db /\ handled' = s.handled
     /\ exit' = IF s.failed THEN "failure" ELSE exit
     /\ UNCHANGED open

\* The loop at one descriptor, which poll has reported if it is open.
Serve(c) ==
  /\ exit = "running" /\ open # {} /\ turn = c
  /\ turn' = (c % Clients) + 1
  /\ LET n == Shorter(ReadMax, Len(unread[c])) IN
     \/ c \notin open /\ UNCHANGED <<db, unread, inbuf, open, exit, handled>>
     \/ c \in open /\ n = 0 /\ CloseEnd(c)
     \/ c \in open /\ n > 0 /\ Len(inbuf[c]) + n >= BufMax /\ TooMuch
     \/ c \in open /\ n > 0 /\ Len(inbuf[c]) + n < BufMax /\ Feed(c, n)
  /\ UNCHANGED script

\* The loop has ended; main reads the answers and checks them.
Leave ==
  /\ exit = "running" /\ open = {}
  /\ exit' = "ok"
  /\ UNCHANGED <<db, script, unread, inbuf, open, turn, handled>>

Ended == exit # "running" /\ UNCHANGED vars

Next == (\E c \in Client : Serve(c)) \/ Leave \/ Ended

Spec == Init /\ [][Next]_vars

-----------------------------------------------------------------------------
(* What the clients may expect, said of whole streams.                     *)

Newlines(s) == {i \in DOMAIN s : s[i] = NL}

\* A line starts behind b and has not ended before e.
Runs(s, b, e) == (b = 0 \/ s[b] = NL) /\ \A j \in b + 1 .. e - 1 : s[j] # NL

\* The lines of c among the first k of those that h says have been handled.
HandledOf(h, c, k) == {i \in 1 .. k : h[i].client = c}

\* The n-th line handled of a client is what its n-th newline ends.
LinesInOrder(h) ==
  \A i \in DOMAIN h :
    LET c == h[i].client  s == script[c]
    IN \E e \in Newlines(s), b \in 0 .. Len(s) :
         /\ b < e /\ Runs(s, b, e)
         /\ h[i].line = SubSeq(s, b + 1, e - 1)
         /\ Cardinality(HandledOf(h, c, i)) = Cardinality({j \in Newlines(s) : j <= e})

\* A stream no buffer can hold: a line that is too long, or a read that finds
\* too much of a line before it.
Unservable(s) ==
  \E i \in DOMAIN s, b \in 0 .. Len(s) :
    /\ b < i /\ Runs(s, b, i)
    /\ \/ s[i] = NL /\ (i - 1) - b >= LineMax
       \/ /\ (i - 1) % ReadMax = 0
          /\ (i - 1) - b + Shorter(ReadMax, Len(s) - (i - 1)) >= BufMax

Stores(entry) == Is(entry.line, "SET", 3) /\ entry.answer = <<"OK">>

Touches(entry, k) == (Stores(entry) \/ Is(entry.line, "DEL", 2)) /\ entry.line[2] = k

\* What the first k lines handled have left of a map from keys to values, as a set of
\* pairs: what was stored and neither stored again nor deleted.
StoreAfter(h, k) ==
  {<<h[i].line[2], h[i].line[3]>> :
     i \in {i \in 1 .. k : /\ Stores(h[i])
                           /\ \A j \in i + 1 .. k : ~Touches(h[j], h[i].line[2])}}

\* The answer of a map that holds the pairs of store and at most MaxItems of them.
Fits(store, line, answer) ==
  LET found == {p \in store : p[1] = line[2]}
  IN CASE Is(line, "SET", 3) ->
            answer = IF found # {} \/ Cardinality(store) < MaxItems
                     THEN <<"OK">> ELSE <<"ERR", "FULL">>
       [] Is(line, "GET", 2) ->
            IF found = {} THEN answer = <<"NULL">>
            ELSE \E p \in found : answer = <<"VALUE", p[2]>>
       [] Is(line, "DEL", 2) -> answer = <<"OK">>
       [] OTHER -> answer = <<"ERR">>

AnswersFitMap(h) ==
  \A k \in DOMAIN h : Fits(StoreAfter(h, k - 1), h[k].line, h[k].answer)

\* Wherever read cuts the streams, each client has its lines handled whole and
\* in their order, all of them when the program ends well; each answer is the
\* one of a map of at most MaxItems keys at that moment; and the program gives
\* up exactly when a client sent what no buffer can hold.
AnswersInOrder ==
  /\ LinesInOrder(handled)
  /\ exit = "ok" => \A c \in Client :
       Cardinality(HandledOf(handled, c, Len(handled))) = Cardinality(Newlines(script[c]))
  /\ AnswersFitMap(handled)
  /\ exit # "running" => (exit = "failure" <=> \E c \in Client : Unservable(script[c]))
=============================================================================
