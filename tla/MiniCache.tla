------------------------------ MODULE MiniCache ------------------------------
(***************************************************************************)
(* The event loop of minicache (bloque06, proyecto06): one thread, and an  *)
(* epoll that reports edges: an event is queued when something arrives at  *)
(* a descriptor and is gone once epoll_wait has returned it, whether or    *)
(* not all that arrived is taken.                                          *)
(*                                                                         *)
(* A command is one line.  handler_parseo_db writes one answer for each    *)
(* line it is given (module CacheTable says which); here a line and its    *)
(* answer are only counted.                                                *)
(***************************************************************************)
EXTENDS Naturals, Sequences, FiniteSets, FiniteSetsExt, SequencesExt

CONSTANTS
  Patient,   \* clients that wait for each answer before the next command
  Eager,     \* clients that do not
  MaxFd,     \* descriptors the process may have open for clients
  MaxEpoll,  \* MAX_EPOLL_EV
  MaxSent,   \* bound: commands of a client
  Window     \* answers that fit in the socket of a client that reads none

ASSUME CacheAssumption ==
  /\ {MaxFd, MaxEpoll, MaxSent, Window} \subseteq Nat \ {0}
  /\ Patient \cap Eager = {}

Client == Patient \union Eager
Fd == 1 .. MaxFd
tcp_master == 0

VARIABLES
  alive,     \* the process runs
  backlog,   \* connections the kernel has made, not yet accepted
  conn,      \* the client behind a descriptor, {} when it is closed
  ready,     \* the epoll's list of events not yet returned
  campanas,  \* events returned and not yet handled, the current one first
  pc,        \* "wait", "accept", "read" or "handle"
  phase,     \* of a client: "new", "here", "done" (sends no more) or "left"
  inbox,     \* lines of a client that wait to be read
  sent, out, got,  \* of a client: lines sent, answers waiting, answers read
  reset      \* clients whose kernel has refused an answer

loopVars ==
  <<alive, backlog, conn, ready, campanas, pc, phase, inbox, sent, out, got,
    reset>>
clients == <<phase, inbox, sent, out, got, reset>>

LoopInit ==
  /\ alive = TRUE /\ backlog = <<>> /\ pc = "wait"
  /\ conn = [f \in Fd |-> {}]
  /\ ready = <<>> /\ campanas = <<>>
  /\ phase = [c \in Client |-> "new"]
  /\ inbox = [c \in Client |-> 0]
  /\ sent = [c \in Client |-> 0]
  /\ out = [c \in Client |-> 0]
  /\ got = [c \in Client |-> 0]
  /\ reset = {}

\* The server reads an end: the client sends no more.
Ended(c) == phase[c] \in {"done", "left"}

\* An event names a descriptor; whose it was when it rose is kept to say that
\* no event is handled for somebody else.
Event(f) == [fd |-> f, who |-> IF f = tcp_master THEN {} ELSE conn[f]]
Notified(e) == IF e \in ToSet(ready) THEN ready ELSE Append(ready, e)
Descriptor(c) == {f \in Fd : conn[f] = {c}}
\* Something of client c arrives: an event, if it has been accepted.
Rings(c) ==
  IF Descriptor(c) = {} THEN ready ELSE Notified(Event(Min(Descriptor(c))))

\* The list without the event of descriptor f, if it has one.
ReadyWithout(f) ==
  IF \E k \in DOMAIN ready : ready[k].fd = f
  THEN RemoveAt(ready, CHOOSE k \in DOMAIN ready : ready[k].fd = f)
  ELSE ready

-----------------------------------------------------------------------------
(* The clients. *)

Connect(c) ==
  /\ alive /\ phase[c] = "new"
  /\ phase' = [phase EXCEPT ![c] = "here"]
  /\ backlog' = Append(backlog, c)
  /\ ready' = Notified(Event(tcp_master))
  /\ UNCHANGED <<alive, conn, campanas, pc, inbox, sent, out, got, reset>>

Send(c) ==
  /\ alive /\ phase[c] = "here" /\ sent[c] < MaxSent
  /\ c \in Patient => got[c] = sent[c]
  /\ sent' = [sent EXCEPT ![c] = @ + 1]
  /\ inbox' = [inbox EXCEPT ![c] = @ + 1]
  /\ ready' = Rings(c)
  /\ UNCHANGED <<alive, backlog, conn, campanas, pc, phase, out, got, reset>>

\* The client reads an answer.
Hear(c) ==
  /\ phase[c] \in {"here", "done"} /\ out[c] > 0
  /\ out' = [out EXCEPT ![c] = @ - 1]
  /\ got' = [got EXCEPT ![c] = @ + 1]
  /\ UNCHANGED <<alive, backlog, conn, ready, campanas, pc, phase, inbox, sent, reset>>

\* The client has nothing more to send, and still reads (nc at the end of its
\* input).
Finish(c) ==
  /\ alive /\ phase[c] = "here"
  /\ phase' = [phase EXCEPT ![c] = "done"]
  /\ ready' = Rings(c)
  /\ UNCHANGED <<alive, backlog, conn, campanas, pc, inbox, sent, out, got, reset>>

\* The client closes.  With answers it has not read its kernel resets the
\* connection.
Leave(c) ==
  /\ alive /\ phase[c] \in {"here", "done"}
  /\ phase' = [phase EXCEPT ![c] = "left"]
  /\ reset' = IF out[c] > 0 THEN reset \union {c} ELSE reset
  /\ out' = [out EXCEPT ![c] = 0]
  /\ ready' = Rings(c)
  /\ UNCHANGED <<alive, backlog, conn, campanas, pc, inbox, sent, got>>

-----------------------------------------------------------------------------
(* The server. *)

PcOf(events) ==
  IF events = <<>> THEN "wait"
  ELSE IF Head(events).fd = tcp_master THEN "accept" ELSE "read"

Starts(events) == campanas' = events /\ pc' = PcOf(events)

NextEvent == Starts(Tail(campanas))

EpollWait ==
  /\ alive /\ pc = "wait" /\ ready # <<>>
  /\ LET n == Min({MaxEpoll, Len(ready)}) IN
       /\ Starts(SubSeq(ready, 1, n))
       /\ ready' = SubSeq(ready, n + 1, Len(ready))
  /\ UNCHANGED <<alive, backlog, conn, clients>>

Free == {f \in Fd : conn[f] = {}}

\* The descriptor is opened for the first in the backlog and added to the
\* epoll, which reports at once what has arrived before.
Admit(f) ==
  LET c == Head(backlog) IN
    /\ backlog' = Tail(backlog)
    /\ conn' = [conn EXCEPT ![f] = {c}]
    /\ ready' = IF inbox[c] > 0 \/ Ended(c)
                THEN Append(ready, [fd |-> f, who |-> {c}]) ELSE ready

\* Slips of Accept: one connection for an event; for the last descriptor, the
\* connection of the first is given up for the new one.
AcceptOne ==
  /\ alive /\ pc = "accept" /\ backlog # <<>> /\ Free # {}
  /\ Admit(Min(Free))
  /\ NextEvent
  /\ UNCHANGED <<alive, clients>>

AcceptEvicts ==
  /\ alive /\ pc = "accept" /\ backlog # <<>>
  /\ Admit(IF Cardinality(Free) < 2 THEN 1 ELSE Min(Free))
  /\ UNCHANGED <<alive, campanas, pc, clients>>

\* accept, fcntl and EPOLL_CTL_ADD.  With no descriptor left accept fails, the
\* loop tries again, and nothing but accept is called from then on.
Accept ==
  /\ alive /\ pc = "accept" /\ backlog # <<>> /\ Free # {}
  /\ Admit(Min(Free))
  /\ UNCHANGED <<alive, campanas, pc, clients>>

\* accept finds nobody: EAGAIN.
AcceptDone ==
  /\ alive /\ pc = "accept" /\ backlog = <<>>
  /\ NextEvent
  /\ UNCHANGED <<alive, backlog, conn, ready, clients>>

Current == Head(campanas).fd
Sender == CHOOSE c \in Client : conn[Current] = {c}

\* read returns all lines that wait.  handler_parseo_db looks at the first.
Read ==
  /\ alive /\ pc = "read" /\ inbox[Sender] > 0
  /\ inbox' = [inbox EXCEPT ![Sender] = 0]
  /\ pc' = "handle"
  /\ UNCHANGED <<alive, backlog, conn, ready, campanas, phase, sent, out, got, reset>>

\* read finds nothing: EAGAIN.
ReadDone ==
  /\ alive /\ pc = "read" /\ inbox[Sender] = 0 /\ ~Ended(Sender)
  /\ NextEvent
  /\ UNCHANGED <<alive, backlog, conn, ready, clients>>

\* read returns 0, or fails because of a reset: close, which also takes the
\* descriptor out of the epoll.
Hangup ==
  /\ alive /\ pc = "read" /\ inbox[Sender] = 0 /\ Ended(Sender)
  /\ conn' = [conn EXCEPT ![Current] = {}]
  /\ ready' = ReadyWithout(Current)
  /\ NextEvent
  /\ UNCHANGED <<alive, backlog, clients>>

\* The answer: lost when the socket is full (EAGAIN) and when the client has
\* left, whose kernel then resets the connection: another event.
Write ==
  IF phase[Sender] # "left"
  THEN /\ out' = [out EXCEPT ![Sender] = Min({@ + 1, Window})]
       /\ UNCHANGED <<reset, ready>>
  ELSE /\ reset' = reset \union {Sender}
       /\ ready' = Notified(Event(Current))
       /\ UNCHANGED out

\* A slip of Answer: one read for an event.
AnswerOnce ==
  /\ alive /\ pc = "handle"
  /\ Write
  /\ NextEvent
  /\ UNCHANGED <<alive, backlog, conn, phase, inbox, sent, got>>

\* handler_parseo_db; the loop then reads again.
Answer ==
  /\ alive /\ pc = "handle"
  /\ Write
  /\ pc' = "read"
  /\ UNCHANGED <<alive, backlog, conn, campanas, phase, inbox, sent, got>>

\* The write meets a connection that has been reset: SIGPIPE ends the process.
SigPipe ==
  /\ alive /\ pc = "handle" /\ Sender \in reset
  /\ alive' = FALSE /\ pc' = "wait"
  /\ backlog' = <<>> /\ ready' = <<>> /\ campanas' = <<>>
  /\ conn' = [f \in Fd |-> {}]
  /\ UNCHANGED clients

ServerStep ==
  EpollWait \/ Accept \/ AcceptDone \/ Read \/ ReadDone \/ Hangup \/ Answer

LoopNext ==
  \/ \E c \in Client : Connect(c) \/ Send(c) \/ Hear(c) \/ Finish(c) \/ Leave(c)
  \/ ServerStep \/ SigPipe

LoopSpec == LoopInit /\ [][LoopNext]_loopVars

\* The process runs while it can; clients that wait for an answer read it.
FairLoopSpec ==
  /\ LoopSpec
  /\ WF_loopVars(ServerStep)
  /\ \A c \in Client : WF_loopVars(Hear(c))

-----------------------------------------------------------------------------

\* The types, no event twice in a list, and the branch that runs is the one for
\* the current event.
LoopTypeOK ==
  /\ alive \in BOOLEAN /\ backlog \in Seq(Client)
  /\ conn \in [Fd -> {{}} \union {{c} : c \in Client}]
  /\ \A e \in ToSet(ready \o campanas) : e.fd \in Fd \union {tcp_master}
  /\ IsInjective([i \in 1 .. Len(ready) |-> ready[i].fd])
  /\ IsInjective([i \in 1 .. Len(campanas) |-> campanas[i].fd])
  /\ pc = PcOf(campanas) \/ (pc = "handle" /\ PcOf(campanas) = "read")
  /\ phase \in [Client -> {"new", "here", "done", "left"}]
  /\ {inbox, sent, got} \subseteq [Client -> 0 .. MaxSent]
  /\ out \in [Client -> 0 .. Window]
  /\ reset \subseteq Client

Pending(f) == \E e \in ToSet(ready \o campanas) : e.fd = f

\* Edges are not lost: whoever waits to be accepted, and every open descriptor
\* with lines or an end to read, has an event that is queued or being handled.
\* A loop that stopped before EAGAIN would leave them for ever.
NoDataForgotten ==
  /\ backlog # <<>> => Pending(tcp_master)
  /\ \A f \in Fd : \A c \in conn[f] :
       inbox[c] > 0 \/ Ended(c) => Pending(f)

\* A descriptor is closed in the middle of a list of events and its number
\* given out again: no event is ever handled for another connection than the
\* one it rose for, and no descriptor is in a list twice.
EventsAreFresh ==
  /\ LoopTypeOK
  /\ \A e \in ToSet(ready \o campanas) : e.fd \in Fd => conn[e.fd] = e.who

\* A client that waits for its answer gets one, unless the process has ended.
PatientAreAnswered ==
  \A c \in Patient :
    (phase[c] \in {"here", "done"} /\ got[c] < sent[c])
      ~> (got[c] = sent[c] \/ phase[c] = "left" \/ ~alive)

\* The server outlives consoles closed rudely (README.md 33).
StaysUp == alive
=============================================================================
