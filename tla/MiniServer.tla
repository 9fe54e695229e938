----------------------------- MODULE MiniServer -----------------------------
(***************************************************************************)
(* miniserver (bloque05, proyecto05): main accepts connections and puts    *)
(* their descriptors in a bounded ring; workers take a descriptor, read    *)
(* one request, answer it and close.                                       *)
(*                                                                         *)
(* The kernel hands out the lowest free descriptor, so a number is used    *)
(* again and again: what a worker holds is only a number.  Requests are    *)
(* single small sends and arrive whole.                                    *)
(***************************************************************************)
EXTENDS RingBuffer, Condition, FiniteSets, FiniteSetsExt

CONSTANTS
  Worker,
  Getter,   \* clients that send a GET,
  Poster,   \* another method,
  Mute,     \* or nothing
  MaxFd     \* descriptors the process may have open for clients

Client == Getter \union Poster \union Mute

ASSUME ServerAssumption ==
  /\ MaxFd \in Nat \ {0}
  /\ IsFiniteSet(Worker)
  /\ Getter \cap Poster = {} /\ Mute \cap (Getter \union Poster) = {}

Fd == 1 .. MaxFd

VARIABLES
  up,        \* the process runs
  backlog,   \* connections the kernel has made, not yet accepted
  cli_fd,    \* what main has accepted and not yet queued; 0 for none
  conn,      \* the client behind a descriptor, {} when it is closed
  clients_queue,  \* its cola_tail is the head of the ring
  wstate,     \* of the workers, see Condition
  fd, wpc,    \* of a worker: its descriptor (0 for none) and where it is
  phase,     \* of a client: "new", "here" (connected) or "left"
  answer     \* what a client got: "none", "header", "ok", "bad" or "refused"

serverVars == <<up, backlog, cli_fd, conn, clients_queue, wstate, fd, wpc, phase, answer>>

ServerInit ==
  /\ up = TRUE
  /\ backlog = <<>>
  /\ cli_fd = 0
  /\ conn = [f \in Fd |-> {}]
  /\ clients_queue = EmptyRing
  /\ wstate = [w \in Worker |-> "ready"]
  /\ fd = [w \in Worker |-> 0]
  /\ wpc = [w \in Worker |-> "take"]
  /\ phase = [c \in Client |-> "new"]
  /\ answer = [c \in Client |-> "none"]

\* A client connects and sends its request.
Connect(c) ==
  /\ up /\ phase[c] = "new"
  /\ phase' = [phase EXCEPT ![c] = "here"]
  /\ backlog' = Append(backlog, c)
  /\ UNCHANGED <<up, cli_fd, conn, clients_queue, wstate, fd, wpc, answer>>

\* A client closes its end.
ClientLeaves(c) ==
  /\ up /\ phase[c] = "here"
  /\ phase' = [phase EXCEPT ![c] = "left"]
  /\ UNCHANGED <<up, backlog, cli_fd, conn, clients_queue, wstate, fd, wpc, answer>>

Free == {f \in Fd : conn[f] = {}}

\* main: accept.  With no descriptor left it fails and main tries again.
Accept ==
  /\ up /\ cli_fd = 0 /\ backlog # <<>> /\ Free # {}
  /\ cli_fd' = Min(Free)
  /\ conn' = [conn EXCEPT ![Min(Free)] = {Head(backlog)}]
  /\ backlog' = Tail(backlog)
  /\ UNCHANGED <<up, clients_queue, wstate, fd, wpc, phase, answer>>

\* The client gets something, if it is still there to read it.
Gets(c, what) ==
  answer' = IF phase[c] = "left" THEN answer ELSE [answer EXCEPT ![c] = what]

\* main closes the connection it has accepted: its client reads the end.
Refuse ==
  /\ conn' = [conn EXCEPT ![cli_fd] = {}]
  /\ \E c \in conn[cli_fd] : Gets(c, "refused")

\* Slips of Enqueue: a descriptor that is turned away stays open; no signal.
EnqueueLeak ==
  /\ up /\ cli_fd # 0
  /\ IF Full(clients_queue) THEN UNCHANGED <<clients_queue, wstate>>
     ELSE /\ clients_queue' = Push(clients_queue, cli_fd)
          /\ wstate' \in AfterSignal(wstate, "q_cond")
  /\ cli_fd' = 0
  /\ UNCHANGED <<up, backlog, conn, fd, wpc, phase, answer>>

EnqueueQuiet ==
  /\ up /\ cli_fd # 0
  /\ IF Full(clients_queue)
     THEN Refuse /\ UNCHANGED <<clients_queue, wstate>>
     ELSE clients_queue' = Push(clients_queue, cli_fd) /\ UNCHANGED <<conn, wstate, answer>>
  /\ cli_fd' = 0
  /\ UNCHANGED <<up, backlog, fd, wpc, phase>>

\* main, with q_mutex held: the descriptor goes to the queue, or is closed
\* when the queue is full.
Enqueue ==
  /\ up /\ cli_fd # 0
  /\ IF Full(clients_queue)
     THEN Refuse /\ UNCHANGED <<clients_queue, wstate>>
     ELSE /\ clients_queue' = Push(clients_queue, cli_fd)
          /\ wstate' \in AfterSignal(wstate, "q_cond")
          /\ UNCHANGED <<conn, answer>>
  /\ cli_fd' = 0
  /\ UNCHANGED <<up, backlog, fd, wpc, phase>>

\* A worker, with q_mutex held.
TakeFd(w) ==
  /\ up /\ wstate[w] = "ready" /\ wpc[w] = "take"
  /\ IF Empty(clients_queue)
     THEN /\ wstate' = Waits(wstate, w, "q_cond")
          /\ UNCHANGED <<clients_queue, fd, wpc>>
     ELSE /\ fd' = [fd EXCEPT ![w] = Front(clients_queue)]
          /\ clients_queue' = Pop(clients_queue)
          /\ wpc' = [wpc EXCEPT ![w] = "read"]
          /\ UNCHANGED wstate
  /\ UNCHANGED <<up, backlog, cli_fd, conn, phase, answer>>

\* A wait that ends without a signal.
SpuriousWake(w) ==
  /\ up /\ wstate[w] = "q_cond"
  /\ wstate' = [wstate EXCEPT ![w] = "ready"]
  /\ UNCHANGED <<up, backlog, cli_fd, conn, clients_queue, fd, wpc, phase, answer>>

\* A slip of Read: the descriptor is closed as soon as the request is read.
ReadCloses(w) ==
  /\ up /\ wpc[w] = "read"
  /\ \E c \in conn[fd[w]] :
       /\ c \in Mute => phase[c] = "left"
       /\ wpc' = [wpc EXCEPT ![w] = IF c \in Getter THEN "body" ELSE "close"]
  /\ conn' = [conn EXCEPT ![fd[w]] = {}]
  /\ UNCHANGED <<up, backlog, cli_fd, clients_queue, wstate, fd, phase, answer>>

\* procesar_peticion_http: read, and the first write.  read blocks on a client
\* that sends nothing and returns 0 when that client leaves.
Read(w) ==
  /\ up /\ wpc[w] = "read"
  /\ \E c \in conn[fd[w]] :
       \/ /\ c \in Getter
          /\ Gets(c, "header")
          /\ wpc' = [wpc EXCEPT ![w] = "body"]
       \/ /\ c \in Poster
          /\ Gets(c, "bad")
          /\ wpc' = [wpc EXCEPT ![w] = "close"]
       \/ /\ c \in Mute /\ phase[c] = "left"
          /\ wpc' = [wpc EXCEPT ![w] = "close"]
          /\ UNCHANGED answer
  /\ UNCHANGED <<up, backlog, cli_fd, conn, clients_queue, wstate, fd, phase>>

\* procesar_peticion_http: the second write of a GET.
WriteBody(w) ==
  /\ up /\ wpc[w] = "body"
  /\ \E c \in conn[fd[w]] : Gets(c, "ok")
  /\ wpc' = [wpc EXCEPT ![w] = "close"]
  /\ UNCHANGED <<up, backlog, cli_fd, conn, clients_queue, wstate, fd, phase>>

\* The client closed before the first write and its kernel has refused that:
\* the second write raises SIGPIPE, which ends the process and with it every
\* thread and connection.
SigPipe(w) ==
  /\ up /\ wpc[w] = "body"
  /\ \E c \in conn[fd[w]] : phase[c] = "left"
  /\ up' = FALSE
  /\ backlog' = <<>> /\ cli_fd' = 0 /\ clients_queue' = EmptyRing
  /\ conn' = [f \in Fd |-> {}]
  /\ fd' = [v \in Worker |-> 0] /\ wpc' = [v \in Worker |-> "take"]
  /\ wstate' = [v \in Worker |-> "ready"]
  /\ UNCHANGED <<phase, answer>>

\* procesar_peticion_http: close.
CloseFd(w) ==
  /\ up /\ wpc[w] = "close"
  /\ conn' = [conn EXCEPT ![fd[w]] = {}]
  /\ fd' = [fd EXCEPT ![w] = 0]
  /\ wpc' = [wpc EXCEPT ![w] = "take"]
  /\ UNCHANGED <<up, backlog, cli_fd, clients_queue, wstate, phase, answer>>

WorkerStep(w) == TakeFd(w) \/ Read(w) \/ WriteBody(w) \/ CloseFd(w)

ServerNext ==
  \/ \E c \in Client : Connect(c) \/ ClientLeaves(c)
  \/ Accept \/ Enqueue
  \/ \E w \in Worker : WorkerStep(w) \/ SigPipe(w) \/ SpuriousWake(w)

ServerSpec == ServerInit /\ [][ServerNext]_serverVars

\* Threads that can go on do; clients owe nothing.
ServerFairSpec ==
  /\ ServerSpec
  /\ WF_serverVars(Accept \/ Enqueue)
  /\ \A w \in Worker : WF_serverVars(WorkerStep(w))

-----------------------------------------------------------------------------

ServerTypeOK ==
  /\ up \in BOOLEAN
  /\ backlog \in Seq(Client)
  /\ cli_fd \in Fd \union {0}
  /\ conn \in [Fd -> {{}} \union {{c} : c \in Client}]
  /\ clients_queue \in Ring(Int)
  /\ wstate \in [Worker -> {"ready", "q_cond"}]
  /\ fd \in [Worker -> Fd \union {0}]
  /\ wpc \in [Worker -> {"take", "read", "body", "close"}]
  /\ phase \in [Client -> {"new", "here", "left"}]
  /\ answer \in [Client -> {"none", "header", "ok", "bad", "refused"}]

\* Who may close f: main, a place in the queue, workers.
Owners(f) ==
  (IF cli_fd = f THEN 1 ELSE 0)
  + Cardinality({k \in 1 .. clients_queue.count : Contents(clients_queue)[k] = f})
  + Cardinality({w \in Worker : fd[w] = f})

\* A descriptor is open exactly while one party is responsible for it: none
\* leaks, none is closed twice, and no worker answers on a number that the
\* kernel has given to another client.
OneOwner == \A f \in Fd : Owners(f) = IF conn[f] = {} THEN 0 ELSE 1

\* While a worker sleeps there is a worker on its way for every descriptor in
\* the queue.
NoLostServerWakeup ==
  Asleep(wstate, "q_cond") # {} =>
    clients_queue.count <= Cardinality({w \in Worker : wstate[w] = "ready" /\ wpc[w] = "take"})

\* Nobody gets what another client asked for, and an answer stays without its
\* body only while a worker is about to write it.
AnswersFit ==
  \A c \in Client :
    /\ answer[c] \in {"header", "ok"} => c \in Getter
    /\ answer[c] = "bad" => c \in Poster
    /\ answer[c] = "header" =>
         \/ phase[c] = "left" \/ ~up
         \/ \E w \in Worker : wpc[w] = "body" /\ conn[fd[w]] = {c}

\* With fewer silent clients than workers, every client that connects and
\* waits is answered or turned away, unless a lost client took the server down.
EveryClientEnds ==
  Cardinality(Mute) < Cardinality(Worker) =>
    \A c \in Getter \union Poster :
      phase[c] = "here" ~>
        answer[c] \in {"ok", "bad", "refused"} \/ phase[c] = "left" \/ ~up
=============================================================================
