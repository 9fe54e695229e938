------------------------------ MODULE MiniCloud ------------------------------
(***************************************************************************)
(* The MiniCloud HTTP stack (bloque14/proyecto14): gateway processes that  *)
(* run one flow each (registry, vault, runner, then one event to the       *)
(* monitor) against four servers that serve one connection at a time.      *)
(*                                                                         *)
(* All traffic is on the loopback interface (the servers bind to           *)
(* 127.0.0.1), so a call fails only because a process stops: a server may  *)
(* stop between any two of its steps and lose its memory and its           *)
(* connections, a gateway may be killed at any point.  A server that       *)
(* writes to a connection whose gateway is gone may be stopped by SIGPIPE. *)
(***************************************************************************)
EXTENDS Capacity, Metrics, Tables, FiniteSetsExt

CONSTANTS
  Flow,          \* gateway processes
  Nobody,        \* no connection is being served
  Config,        \* command line of each gateway: path, secret, /run request
  RouteFile,     \* lines the registry loads
  SecretFile,    \* lines the vault loads
  CapacityFile,  \* lines the runner loads
  Backlog,       \* connections a server's kernel queue holds before accept
  Killable,      \* gateways that may be killed
  MaxStops       \* bound: stops of servers other than by SIGPIPE

ASSUME FlowAssumption == Nobody \notin Flow /\ Killable \subseteq Flow

ASSUME CapacityAssumption ==
  /\ CapacityFile \in Seq([key : STRING, value : Int])
  /\ Loaded(CapacityFile)

ASSUME ConfigAssumption ==
  \A f \in Flow : Config[f].run \in RunRequest

ASSUME BoundAssumption == Backlog \in Nat \ {0} /\ MaxStops \in Nat

Service == {"registry", "vault", "runner", "monitor"}

\* The tables never change once loaded: the route of each path, the status of
\* each secret, the memory of a runner that has just started.
Route == [f \in Flow |-> ResolveRoute(LoadRoutes(RouteFile), Config[f].path)]
RouteOf(f) == Route[f]

SecretStatus ==
  [f \in Flow |-> StatusOfSecret(LoadSecrets(SecretFile), Config[f].secret)]

Offer == FreshRunner(CapacityFile)

VARIABLES
  (* gateways *)
  pc,       \* the service being called, "exit" or "killed"
  conn,     \* its connection to that service
  code,     \* status code read from it, 0 before the status line arrives
  body,     \* the body arrived too
  status,   \* the status= line the flow printed, "none" before
  (* servers *)
  up,       \* the process runs
  backlog,  \* connections waiting for accept
  serving,  \* the connection accepted last, until it is closed
  stage,    \* what the server does with it
  answer,   \* the status code it is about to send
  runner,   \* memory of minicloud-runner
  monitor,  \* memory of minicloud-monitor
  (* history *)
  booked,   \* "live": in the runner's memory; "lost": was, before a stop
  counted,  \* flows whose event is in the monitor's memory
  stops     \* number of times a server stopped

gateways == <<pc, conn, code, body, status>>
servers == <<up, backlog, serving, stage, answer>>
memory == <<runner, monitor, booked, counted>>
vars == <<gateways, servers, memory, stops>>

Running(f) == pc[f] \in Service

Init ==
  /\ pc = [f \in Flow |-> "registry"]
  /\ conn = [f \in Flow |-> "none"]
  /\ code = [f \in Flow |-> 0]
  /\ body = [f \in Flow |-> FALSE]
  /\ status = [f \in Flow |-> "none"]
  /\ up = [s \in Service |-> TRUE]
  /\ backlog = [s \in Service |-> <<>>]
  /\ serving = [s \in Service |-> Nobody]
  /\ stage = [s \in Service |-> "idle"]
  /\ answer = [s \in Service |-> 0]
  /\ runner = Offer
  /\ monitor = FreshMonitor
  /\ booked = [f \in Flow |-> "no"]
  /\ counted = {}
  /\ stops = 0

-----------------------------------------------------------------------------
(* A gateway: http_request and run_flow. *)

\* connect: the connection waits in the server's queue.
Connect(f) ==
  LET s == pc[f] IN
  /\ Running(f)
  /\ conn[f] = "none"
  /\ up[s]
  /\ Len(backlog[s]) < Backlog
  /\ conn' = [conn EXCEPT ![f] = "open"]
  /\ backlog' = [backlog EXCEPT ![s] = Append(@, f)]
  /\ UNCHANGED <<pc, code, body, status, up, serving, stage, answer, memory,
                 stops>>

\* connect fails: nobody listens.
Refused(f) ==
  /\ Running(f)
  /\ conn[f] = "none"
  /\ ~up[pc[f]]
  /\ conn' = [conn EXCEPT ![f] = "reset"]
  /\ UNCHANGED <<pc, code, body, status, servers, memory, stops>>

\* write_all of the request.
Send(f) ==
  /\ Running(f)
  /\ conn[f] = "open"
  /\ conn' = [conn EXCEPT ![f] = "sent"]
  /\ UNCHANGED <<pc, code, body, status, servers, memory, stops>>

\* run_flow after each call has returned: the service to call next and the
\* status printed on the way there ("none": nothing printed).  c is the
\* status code, 0 if http_request failed; b says that there was a body.
Go(s) == [next |-> s, status |-> "none"]
Report(st) == [next |-> "monitor", status |-> st]

\* A slip of AfterRegistry: a routed flow ends without its event.
AfterRegistrySilent(f, c, b) ==
  IF c # 200 THEN Report("REGISTRY_ERROR")
  ELSE IF ~b THEN Report("REGISTRY_MALFORMED")
  ELSE IF RouteOf(f).backend # "runner"
  THEN [next |-> "exit", status |-> "ROUTED"]
  ELSE Go("vault")

AfterRegistry(f, c, b) ==
  IF c # 200 THEN Report("REGISTRY_ERROR")
  ELSE IF ~b THEN Report("REGISTRY_MALFORMED")
  ELSE IF RouteOf(f).backend # "runner" THEN Report("ROUTED")
  ELSE Go("vault")

AfterVault(c, b) ==
  IF c # 200 THEN Report("SECRET_ERROR")
  ELSE IF ~b THEN Report("SECRET_MALFORMED")
  ELSE Go("runner")

\* A slip of AfterRunner: whatever is not a conflict is an acceptance.
AfterRunnerLenient(c) == IF c = 409 THEN Report("REJECT") ELSE Report("ACCEPT")

AfterRunner(c) ==
  IF c = 0 THEN Report("RUNNER_ERROR")
  ELSE IF c = 200 THEN Report("ACCEPT")
  ELSE Report("REJECT")

After(f, c, b) ==
  IF pc[f] = "registry" THEN AfterRegistry(f, c, b)
  ELSE IF pc[f] = "vault" THEN AfterVault(c, b)
  ELSE IF pc[f] = "runner" THEN AfterRunner(c)
  ELSE [next |-> "exit", status |-> status[f]]

\* A slip of Return: the next call finds the code of the last one.
ReturnStale(f) ==
  LET a == After(f, code[f], body[f]) IN
  /\ Running(f)
  /\ conn[f] \in {"eof", "reset"}
  /\ pc' = [pc EXCEPT ![f] = a.next]
  /\ status' = [status EXCEPT ![f] = a.status]
  /\ conn' = [conn EXCEPT ![f] = "none"]
  /\ UNCHANGED <<code, body, servers, memory, stops>>

\* recv reached the end of the connection, or failed: http_request returns.
Return(f) ==
  LET a == After(f, code[f], body[f]) IN
  /\ Running(f)
  /\ conn[f] \in {"eof", "reset"}
  /\ pc' = [pc EXCEPT ![f] = a.next]
  /\ status' = [status EXCEPT ![f] = a.status]
  /\ conn' = [conn EXCEPT ![f] = "none"]
  /\ code' = [code EXCEPT ![f] = 0]
  /\ body' = [body EXCEPT ![f] = FALSE]
  /\ UNCHANGED <<servers, memory, stops>>

\* The process is killed; what it sent before stays in the connection.
Kill(f) ==
  /\ f \in Killable
  /\ Running(f)
  /\ pc' = [pc EXCEPT ![f] = "killed"]
  /\ UNCHANGED <<conn, code, body, status, servers, memory, stops>>

\* emit_event: what the flow tells the monitor about its status.
\* A slip of Success: a rejection is an answer too.
SuccessAnswered(st) == st \in {"ROUTED", "ACCEPT", "REJECT"}

Success(st) == st \in {"ROUTED", "ACCEPT"}

Latency(st) ==
  CASE st = "REGISTRY_ERROR" -> 5
    [] st = "REGISTRY_MALFORMED" -> 6
    [] st = "ROUTED" -> 7
    [] st = "SECRET_ERROR" -> 10
    [] st = "SECRET_MALFORMED" -> 11
    [] st \in {"RUNNER_ERROR", "ACCEPT"} -> 15
    [] st = "REJECT" -> 20

EventOf(st) ==
  [complete |-> TRUE, lat |-> Latency(st),
   result |-> IF Success(st) THEN "ok" ELSE "err"]

-----------------------------------------------------------------------------
(* A server: run_server. *)

Accept(s) ==
  /\ up[s]
  /\ stage[s] = "idle"
  /\ backlog[s] # <<>>
  /\ serving' = [serving EXCEPT ![s] = Head(backlog[s])]
  /\ backlog' = [backlog EXCEPT ![s] = Tail(@)]
  /\ stage' = [stage EXCEPT ![s] = "read"]
  /\ UNCHANGED <<gateways, up, answer, memory, stops>>

\* read_http_request succeeds once the request is in the connection, whether
\* its gateway is still alive or not.
HasRequest(s) ==
  stage[s] = "read" /\ serving[s] \in Flow /\ conn[serving[s]] = "sent"

Answer(s, c) ==
  /\ answer' = [answer EXCEPT ![s] = c]
  /\ stage' = [stage EXCEPT ![s] = "header"]
  /\ UNCHANGED <<gateways, up, backlog, serving, stops>>

\* The gateway died between connect and send: recv returns 0, answer 400.
ReadEof(s) ==
  /\ stage[s] = "read"
  /\ serving[s] \in Flow
  /\ conn[serving[s]] = "open"
  /\ ~Running(serving[s])
  /\ Answer(s, 400)
  /\ UNCHANGED memory

Resolve ==
  /\ HasRequest("registry")
  /\ Answer("registry", StatusOfRoute(RouteOf(serving["registry"])))
  /\ UNCHANGED memory

GetSecret ==
  /\ HasRequest("vault")
  /\ Answer("vault", SecretStatus[serving["vault"]])
  /\ UNCHANGED memory

\* /run: the booking is made before the answer is sent.
RunJob ==
  LET f == serving["runner"]
      v == Verdict(runner, Config[f].run)
  IN
  /\ HasRequest("runner")
  /\ runner' = AfterRun(runner, Config[f].run)
  /\ booked' = IF v = "accept" THEN [booked EXCEPT ![f] = "live"] ELSE booked
  /\ Answer("runner", StatusOfVerdict(v))
  /\ UNCHANGED <<monitor, counted>>

TakeEvent ==
  LET f == serving["monitor"]
      e == EventOf(status[f])
  IN
  /\ HasRequest("monitor")
  /\ monitor' = AfterEvent(monitor, e)
  /\ counted' = IF EventStatus(e) = 202 THEN counted \union {f} ELSE counted
  /\ Answer("monitor", EventStatus(e))
  /\ UNCHANGED <<runner, booked>>

\* First write_all of send_http: a living gateway reads the status line; the
\* kernel takes the bytes for a dead one too.
SendHeader(s) ==
  LET f == serving[s] IN
  /\ stage[s] = "header"
  /\ code' = IF Running(f) THEN [code EXCEPT ![f] = answer[s]] ELSE code
  /\ stage' = [stage EXCEPT ![s] = "body"]
  /\ UNCHANGED <<pc, conn, body, status, up, backlog, serving, answer, memory,
                 stops>>

\* A slip of SendBody: the connection is not closed.
SendBodyOpen(s) ==
  LET f == serving[s] IN
  /\ stage[s] = "body"
  /\ body' = IF Running(f) THEN [body EXCEPT ![f] = TRUE] ELSE body
  /\ serving' = [serving EXCEPT ![s] = Nobody]
  /\ stage' = [stage EXCEPT ![s] = "idle"]
  /\ UNCHANGED <<pc, conn, code, status, up, backlog, answer, memory, stops>>

\* Second write_all, then close.
SendBody(s) ==
  LET f == serving[s] IN
  /\ stage[s] = "body"
  /\ IF Running(f)
     THEN /\ body' = [body EXCEPT ![f] = TRUE]
          /\ conn' = [conn EXCEPT ![f] = "eof"]
     ELSE UNCHANGED <<body, conn>>
  /\ serving' = [serving EXCEPT ![s] = Nobody]
  /\ stage' = [stage EXCEPT ![s] = "idle"]
  /\ UNCHANGED <<pc, code, status, up, backlog, answer, memory, stops>>

\* The process of server s is gone: its memory is lost, the connections it
\* had not answered are reset; the one whose header was sent just ends.
Down(s) ==
  /\ up' = [up EXCEPT ![s] = FALSE]
  /\ conn' = [f \in Flow |->
                IF pc[f] = s /\ conn[f] \in {"open", "sent"}
                THEN IF f = serving[s] /\ stage[s] = "body" THEN "eof"
                                                            ELSE "reset"
                ELSE conn[f]]
  /\ backlog' = [backlog EXCEPT ![s] = <<>>]
  /\ serving' = [serving EXCEPT ![s] = Nobody]
  /\ stage' = [stage EXCEPT ![s] = "idle"]
  /\ runner' = IF s = "runner" THEN Offer ELSE runner
  /\ booked' = IF s = "runner"
               THEN [f \in Flow |-> IF booked[f] = "live" THEN "lost"
                                                          ELSE booked[f]]
               ELSE booked
  /\ monitor' = IF s = "monitor" THEN FreshMonitor ELSE monitor
  /\ counted' = IF s = "monitor" THEN {} ELSE counted
  /\ stops' = stops + 1
  /\ UNCHANGED <<pc, code, body, status, answer>>

\* A failed accept, or any other end of the process.
Stop(s) == up[s] /\ stops < MaxStops /\ Down(s)

\* The second write to a connection its gateway has left raises SIGPIPE.
SigPipe(s) == stage[s] = "body" /\ ~Running(serving[s]) /\ Down(s)

\* The operator starts the server again.
Restart(s) ==
  /\ ~up[s]
  /\ up' = [up EXCEPT ![s] = TRUE]
  /\ UNCHANGED <<gateways, backlog, serving, stage, answer, memory, stops>>

-----------------------------------------------------------------------------

\* Every flow has ended and every server waits in accept.
Quiet ==
  /\ \A f \in Flow : ~Running(f)
  /\ \A s \in Service : stage[s] = "idle" /\ backlog[s] = <<>>

GatewayStep(f) == Connect(f) \/ Refused(f) \/ Send(f) \/ Return(f)

ServerStep(s) ==
  \/ Accept(s)
  \/ ReadEof(s)
  \/ SendHeader(s)
  \/ SendBody(s)

Handle == Resolve \/ GetSecret \/ RunJob \/ TakeEvent

Next ==
  \/ \E f \in Flow : GatewayStep(f) \/ Kill(f)
  \/ \E s \in Service : ServerStep(s) \/ Stop(s) \/ SigPipe(s) \/ Restart(s)
  \/ Handle
  \/ Quiet /\ UNCHANGED vars

Spec == Init /\ [][Next]_vars

\* Running processes keep running: the operating system schedules every
\* gateway and every server, and a blocking call that can return does.
\* Nothing makes a stop, a kill or a restart happen.
Fairness ==
  /\ \A f \in Flow : WF_vars(GatewayStep(f))
  /\ \A s \in Service : WF_vars(ServerStep(s))
  /\ WF_vars(Resolve) /\ WF_vars(GetSecret)
  /\ WF_vars(RunJob) /\ WF_vars(TakeEvent)

FairSpec == Spec /\ Fairness

-----------------------------------------------------------------------------

\* What a gateway reports, over HTTP or over lines (module LineCloud).
Status == {"none", "REGISTRY_ERROR", "REGISTRY_MALFORMED", "ROUTED",
           "SECRET_ERROR", "SECRET_MALFORMED", "RUNNER_ERROR", "ACCEPT",
           "REJECT", "registry_unreachable", "ROUTE_NOT_FOUND",
           "SECRET_UNAVAILABLE", "RUNNER_UNREACHABLE"}

MonitorMemory ==
  [total : Nat, errors : Nat, retries : Nat, lat_sum : Nat, max_lat : LatRange]

\* The state of the stack; the runner's free capacity is never negative.
TypeOK ==
  /\ pc \in [Flow -> Service \union {"exit", "killed"}]
  /\ conn \in [Flow -> {"none", "open", "sent", "eof", "reset"}]
  /\ code \in [Flow -> {0, 200, 202, 400, 404, 409}]
  /\ body \in [Flow -> BOOLEAN]
  /\ status \in [Flow -> Status]
  /\ up \in [Service -> BOOLEAN]
  /\ backlog \in [Service -> Seq(Flow)]
  /\ serving \in [Service -> Flow \union {Nobody}]
  /\ stage \in [Service -> {"idle", "read", "header", "body"}]
  /\ answer \in [Service -> {0, 200, 202, 400, 404, 409}]
  /\ runner \in RunnerMemory
  /\ monitor \in MonitorMemory
  /\ booked \in [Flow -> {"no", "live", "lost"}]
  /\ counted \in SUBSET Flow
  /\ stops \in Nat

\* A gateway that prints status=ACCEPT was booked by the runner, although the
\* answer crossed two sends, a possible stop in between, and run_flow.
AcceptMeansBooked ==
  \A f \in Flow : status[f] = "ACCEPT" => booked[f] # "no"

\* A flow that reports anything else holds no capacity: an answer can only be
\* lost with the runner that booked it, which then forgot the booking.
FailureHoldsNothing ==
  \A f \in Flow : status[f] \notin {"none", "ACCEPT"} => booked[f] # "live"

Live == {f \in Flow : booked[f] = "live"}

\* What the runner has free, plus what the bookings it remembers asked for,
\* is its file's capacity, across every stop and restart; killed gateways
\* keep what they booked.
CapacityConserved ==
  /\ runner.cpu_free + MapThenSumSet(LAMBDA f : Config[f].run.cpu, Live)
       = Offer.cpu_free
  /\ runner.mem_free + MapThenSumSet(LAMBDA f : Config[f].run.mem, Live)
       = Offer.mem_free
  /\ runner.accepted = Cardinality(Live)

\* The monitor's report agrees with what the flows it heard of printed.
MonitorMatchesFlows ==
  /\ monitor.total = Cardinality(counted)
  /\ monitor.errors = Cardinality({f \in counted : status[f] \notin
                                                     {"ROUTED", "ACCEPT"}})
  /\ monitor.retries = 0

\* tests/test_stack.sh reads total=1 right after the gateway ends: while no
\* server has stopped, a flow is counted before its gateway exits.
ExitMeansCounted ==
  stops = 0 => \A f \in Flow : pc[f] = "exit" => f \in counted

\* No gateway waits for ever, whichever servers stop: every flow ends.
EveryFlowEnds == \A f \in Flow : <>(~Running(f))

-----------------------------------------------------------------------------
(* The inductive invariant behind AcceptMeansBooked and FailureHoldsNothing. *)

Waiting(f) == conn[f] \in {"open", "sent"}

\* A server that is not idle works on the connection of a flow that waits for
\* this answer, or was killed while it waited.
ServedInv ==
  \A s \in Service :
    /\ stage[s] # "idle" <=> serving[s] \in Flow
    /\ stage[s] # "idle" => pc[serving[s]] \in {s, "killed"}
    /\ stage[s] # "idle" /\ pc[serving[s]] = s => Waiting(serving[s])
    /\ stage[s] \in {"header", "body"} /\ pc[serving[s]] = s
         => conn[serving[s]] = "sent"

\* The same for the connections in the queue, none of which is there twice.
InPlace(s, i) ==
  LET f == backlog[s][i] IN
  /\ pc[f] \in {s, "killed"}
  /\ pc[f] = s =>
       /\ Waiting(f) /\ serving[s] # f
       /\ \A j \in 1 .. Len(backlog[s]) : j # i => backlog[s][j] # f

QueuedInv == \A s \in Service : \A i \in 1 .. Len(backlog[s]) : InPlace(s, i)

\* Until its event, a flow has printed nothing; that also holds of the killed
\* flows whose connections a server other than the monitor still has.
SilentInv ==
  /\ \A f \in Flow : Running(f) /\ pc[f] # "monitor" => status[f] = "none"
  /\ \A s \in Service \ {"monitor"} :
       /\ serving[s] \in Flow => status[serving[s]] = "none"
       /\ \A i \in 1 .. Len(backlog[s]) : status[backlog[s][i]] = "none"

\* A flow has read a code only from a connection that ended after it or on
\* which its server is about to send the body; it is the code sent there.
CodeInv ==
  /\ \A f \in Flow : conn[f] \in {"none", "open", "reset"} => code[f] = 0
  /\ \A s \in Service :
       stage[s] = "body" /\ pc[serving[s]] = s => code[serving[s]] = answer[s]
  /\ \A f \in Flow :
       Running(f) /\ conn[f] = "sent" /\ code[f] # 0 =>
         serving[pc[f]] = f /\ stage[pc[f]] = "body"

\* Where the proof of a booking travels: the answer the runner holds, the
\* code the gateway has read, the status it prints.
EvidenceInv ==
  /\ stage["runner"] \in {"header", "body"} /\ answer["runner"] = 200
       => booked[serving["runner"]] # "no"
  /\ \A f \in Flow : pc[f] = "runner" /\ code[f] = 200 => booked[f] # "no"
  /\ \A f \in Flow : status[f] = "ACCEPT" => booked[f] # "no"

\* A booking in the runner's memory is one whose flow printed ACCEPT, died, or
\* is on its way to print it.
OnItsWay(f) ==
  \/ /\ serving["runner"] = f
     /\ stage["runner"] \in {"header", "body"}
     /\ answer["runner"] = 200
  \/ conn[f] = "eof" /\ code[f] = 200

LiveInv ==
  \A f \in Flow : booked[f] = "live" =>
    \/ status[f] = "ACCEPT"
    \/ status[f] = "none" /\ pc[f] = "runner" /\ OnItsWay(f)
    \/ status[f] = "none" /\ pc[f] = "killed"

\* All of it: holds initially and is preserved by every step.
IInv ==
  ServedInv /\ QueuedInv /\ SilentInv /\ CodeInv /\ EvidenceInv /\ LiveInv
=============================================================================
