------------------------------ MODULE LineCloud ------------------------------
(***************************************************************************)
(* The MiniCloud stack over TCP lines (bloque13/proyecto13), and the two   *)
(* stacks side by side: "protocol" says which of them the processes speak. *)
(*                                                                         *)
(* A gateway sends one line and reads one line; the server answers with a  *)
(* single send and closes.  The state is MiniCloud's, read as follows:     *)
(*   code  the answer read: 200 BACKEND, SECRET, ACCEPT or ACK, 404        *)
(*         NOTFOUND, 409 REJECT no_capacity, 400 any other REJECT or ERR,  *)
(*         0 nothing, which send_request takes for an empty line;          *)
(*   stage "header" when the line to answer is ready.                      *)
(* HEALTH, SNAPSHOT, STATS and REPORT change nothing and are left out;     *)
(* names in the files have no blanks, so the gateway can always take a     *)
(* BACKEND line apart.                                                     *)
(***************************************************************************)
EXTENDS MiniCloud

VARIABLE protocol  \* "http" or "lines"

\* What the servers know once they have read their files.
LineRoute == [f \in Flow |-> ResolveRoute(LoadRoutes(RouteFile), Config[f].path)]

LineSecret ==
  [f \in Flow |-> StatusOfSecret(LoadSecrets(SecretFile), Config[f].secret)]

LineCapacity == FreshRunner(CapacityFile)

-----------------------------------------------------------------------------
(* A gateway: run_request after each send_request.  "heard" says that the  *)
(* call succeeded, c is the answer it read.                                *)

LineAfterRegistry(f, heard, c) ==
  IF ~heard THEN Report("registry_unreachable")
  ELSE IF c # 200 THEN Report("ROUTE_NOT_FOUND")
  ELSE IF LineRoute[f].backend # "runner"
  THEN Report("ROUTED")
  ELSE Go("vault")

LineAfterVault(c) ==
  IF c # 200 THEN Report("SECRET_UNAVAILABLE") ELSE Go("runner")

\* A slip of LineAfterRunner: whatever does not begin with REJECT is accepted.
LineAfterRunnerLenient(heard, c) ==
  IF ~heard THEN Report("RUNNER_UNREACHABLE")
  ELSE IF c \in {400, 409} THEN Report("REJECT")
  ELSE Report("ACCEPT")

LineAfterRunner(heard, c) ==
  IF ~heard THEN Report("RUNNER_UNREACHABLE")
  ELSE IF c = 200 THEN Report("ACCEPT")
  ELSE Report("REJECT")

LineAfter(f, heard, c) ==
  IF pc[f] = "registry" THEN LineAfterRegistry(f, heard, c)
  ELSE IF pc[f] = "vault" THEN LineAfterVault(c)
  ELSE IF pc[f] = "runner" THEN LineAfterRunner(heard, c)
  ELSE [next |-> "exit", status |-> status[f]]

\* read_line has a line, or the end of the connection, or an error.
LineReturn(f) ==
  LET a == LineAfter(f, conn[f] = "eof", code[f]) IN
  /\ Running(f)
  /\ conn[f] \in {"eof", "reset"}
  /\ pc' = [pc EXCEPT ![f] = a.next]
  /\ status' = [status EXCEPT ![f] = a.status]
  /\ conn' = [conn EXCEPT ![f] = "none"]
  /\ code' = [code EXCEPT ![f] = 0]
  /\ body' = [body EXCEPT ![f] = FALSE]
  /\ UNCHANGED <<servers, memory, stops>>

\* send_monitor_event: EVENT gateway <ok|err> <ms>
LineLatency(st) ==
  CASE st \in {"registry_unreachable", "ROUTE_NOT_FOUND"} -> 5
    [] st = "ROUTED" -> 8
    [] st = "SECRET_UNAVAILABLE" -> 12
    [] st \in {"RUNNER_UNREACHABLE", "ACCEPT"} -> 15
    [] OTHER -> 20

LineEvent(st) ==
  [complete |-> TRUE, lat |-> LineLatency(st),
   result |-> IF Success(st) THEN "ok" ELSE "err"]

-----------------------------------------------------------------------------
(* A server: handle_command between read_line and the single send. *)

LineResolve ==
  /\ HasRequest("registry")
  /\ Answer("registry", StatusOfRoute(LineRoute[serving["registry"]]))
  /\ UNCHANGED memory

LineGetSecret ==
  /\ HasRequest("vault")
  /\ Answer("vault", LineSecret[serving["vault"]])
  /\ UNCHANGED memory

\* The limits of RUN are those of /run but for the name of the job, which may
\* be as short as it likes.
AnyName(q) == [q EXCEPT !.job = 3]

\* A slip of LineRunJob: RUN is refused without being counted.
LineRunJobUncounted ==
  LET f == serving["runner"]
      v == Verdict(runner, AnyName(Config[f].run))
  IN
  /\ HasRequest("runner")
  /\ runner' = IF v = "accept" THEN Book(runner, Config[f].run) ELSE runner
  /\ booked' = IF v = "accept" THEN [booked EXCEPT ![f] = "live"] ELSE booked
  /\ Answer("runner", StatusOfVerdict(v))
  /\ UNCHANGED <<monitor, counted>>

LineRunJob ==
  LET f == serving["runner"]
      q == AnyName(Config[f].run)
      v == Verdict(runner, q)
  IN
  /\ HasRequest("runner")
  /\ runner' = AfterRun(runner, q)
  /\ booked' = IF v = "accept" THEN [booked EXCEPT ![f] = "live"] ELSE booked
  /\ Answer("runner", StatusOfVerdict(v))
  /\ UNCHANGED <<monitor, counted>>

\* EVENT has no upper limit on the latency.
LineTakeEvent ==
  LET f == serving["monitor"] IN
  /\ HasRequest("monitor")
  /\ monitor' = CountEvent(monitor, LineEvent(status[f]))
  /\ counted' = counted \union {f}
  /\ Answer("monitor", 200)
  /\ UNCHANGED <<runner, booked>>

\* write_all of the whole line, then close: the gateway has it if it lives.
SendLine(s) ==
  LET f == serving[s] IN
  /\ stage[s] = "header"
  /\ IF Running(f)
     THEN /\ code' = [code EXCEPT ![f] = answer[s]]
          /\ body' = [body EXCEPT ![f] = TRUE]
          /\ conn' = [conn EXCEPT ![f] = "eof"]
     ELSE UNCHANGED <<code, body, conn>>
  /\ serving' = [serving EXCEPT ![s] = Nobody]
  /\ stage' = [stage EXCEPT ![s] = "idle"]
  /\ UNCHANGED <<pc, status, up, backlog, answer, memory, stops>>

\* What the gateway served by s sees when s ends: a connection that just ends
\* unless part of its request was still unread, which resets it.
LineEnds(s, f) ==
  IF f # serving[s] THEN {"reset"}
  ELSE IF stage[s] = "read" /\ conn[f] = "sent" THEN {"eof", "reset"}
  ELSE {"eof"}

\* The process of server s is gone, with its memory and its connections.
LineDown(s) ==
  \E end \in {"eof", "reset"} :
    /\ serving[s] \in Flow => end \in LineEnds(s, serving[s])
    /\ up' = [up EXCEPT ![s] = FALSE]
    /\ conn' = [f \in Flow |->
                  IF pc[f] = s /\ conn[f] \in {"open", "sent"}
                  THEN IF f = serving[s] THEN end ELSE "reset"
                  ELSE conn[f]]
    /\ backlog' = [backlog EXCEPT ![s] = <<>>]
    /\ serving' = [serving EXCEPT ![s] = Nobody]
    /\ stage' = [stage EXCEPT ![s] = "idle"]
    /\ runner' = IF s = "runner" THEN LineCapacity ELSE runner
    /\ booked' = IF s = "runner"
                 THEN [f \in Flow |-> IF booked[f] = "live" THEN "lost"
                                                            ELSE booked[f]]
                 ELSE booked
    /\ monitor' = IF s = "monitor" THEN FreshMonitor ELSE monitor
    /\ counted' = IF s = "monitor" THEN {} ELSE counted
    /\ stops' = stops + 1
    /\ UNCHANGED <<pc, code, body, status, answer>>

LineStop(s) == up[s] /\ stops < MaxStops /\ LineDown(s)

-----------------------------------------------------------------------------
(* The two stacks. *)

LineGatewayStep(f) == Connect(f) \/ Refused(f) \/ Send(f) \/ LineReturn(f)

\* A gateway that died before its line leaves an empty command: ERR bad_command.
LineServerStep(s) == Accept(s) \/ ReadEof(s) \/ SendLine(s)

LineHandle == LineResolve \/ LineGetSecret \/ LineRunJob \/ LineTakeEvent

LineNext ==
  \/ \E f \in Flow : LineGatewayStep(f) \/ Kill(f)
  \/ \E s \in Service : LineServerStep(s) \/ LineStop(s) \/ Restart(s)
  \/ LineHandle
  \/ Quiet /\ UNCHANGED vars

stackVars == <<vars, protocol>>

StackInit == Init /\ protocol \in {"http", "lines"}

StackNext ==
  /\ UNCHANGED protocol
  /\ \/ protocol = "http" /\ Next
     \/ protocol = "lines" /\ LineNext

StackSpec == StackInit /\ [][StackNext]_stackVars

\* As in MiniCloud: processes that can run do.
Http(A) == protocol = "http" /\ A /\ UNCHANGED protocol
Lines(A) == protocol = "lines" /\ A /\ UNCHANGED protocol

StackFairness ==
  /\ \A f \in Flow :
       /\ WF_stackVars(Http(GatewayStep(f)))
       /\ WF_stackVars(Lines(LineGatewayStep(f)))
  /\ \A s \in Service :
       /\ WF_stackVars(Http(ServerStep(s)))
       /\ WF_stackVars(Lines(LineServerStep(s)))
  /\ WF_stackVars(Http(Resolve)) /\ WF_stackVars(Lines(LineResolve))
  /\ WF_stackVars(Http(GetSecret)) /\ WF_stackVars(Lines(LineGetSecret))
  /\ WF_stackVars(Http(RunJob)) /\ WF_stackVars(Lines(LineRunJob))
  /\ WF_stackVars(Http(TakeEvent)) /\ WF_stackVars(Lines(LineTakeEvent))

StackFairSpec == StackSpec /\ StackFairness

-----------------------------------------------------------------------------

\* An empty answer passes for a refusal (send_request returns 0 at the end of
\* the connection), so a gateway may report one that no server pronounced; but
\* only when a server has stopped.  While none has, who is told REJECT was
\* counted by the runner, and a missing route or secret is missing.
RefusalsAreTheServers ==
  stops = 0 =>
    /\ Cardinality({f \in Flow : status[f] = "REJECT"}) <= runner.rejected
    /\ \A f \in Flow :
         /\ status[f] = "ROUTE_NOT_FOUND" => LineRoute[f] = NoRoute
         /\ status[f] = "SECRET_UNAVAILABLE" => LineSecret[f] = 404
         /\ status[f] \notin {"registry_unreachable", "RUNNER_UNREACHABLE"}
=============================================================================
