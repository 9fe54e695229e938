--------------------------- MODULE MiniCloudProofs ---------------------------
(***************************************************************************)
(* Theorems about the MiniCloud stacks, over HTTP and over lines, for any  *)
(* number of gateways, any files, any queue length and any number of       *)
(* stops, kills and restarts: type correctness, then the agreement between *)
(* what a gateway prints and what the runner has booked.  The inductive    *)
(* invariant IInv follows the answer: from the server's memory through its *)
(* two sends (one, over lines) to the gateway's status line.  CInv follows *)
(* the event: no flow is counted twice, and none exits uncounted while all *)
(* servers run.  LedgerInv adds up the bookings the runner remembers.      *)
(***************************************************************************)
EXTENDS LineCloud, FiniteSetTheorems

\* The answers the servers give have codes of the type.
Codes == {0, 200, 202, 400, 404, 409}

\* Whatever a request asks, the four services answer with a code of the type.
LEMMA AnswerCodes ==
  /\ \A r : StatusOfRoute(r) \in Codes
  /\ \A st, n : StatusOfSecret(st, n) \in Codes
  /\ \A v : StatusOfVerdict(v) \in Codes
  /\ \A e : EventStatus(e) \in Codes
BY DEF StatusOfRoute, StatusOfSecret, StatusOfVerdict, EventStatus, Codes

\* Counting an event keeps the monitor's memory of its type.
LEMMA AfterEventType ==
  ASSUME NEW m \in MonitorMemory, NEW e
  PROVE  AfterEvent(m, e) \in MonitorMemory
<1>1. CASE EventStatus(e) = 202
  <2>1. e.lat \in LatRange
    BY <1>1 DEF EventStatus
  <2>2. e.lat \in Nat
    BY <2>1, SMT DEF LatRange
  <2>3. CountEvent(m, e) \in MonitorMemory
    BY <2>1, <2>2, SMT DEF CountEvent, MonitorMemory
  <2>. QED
    BY <1>1, <2>3 DEF AfterEvent
<1>2. CASE EventStatus(e) # 202
  BY <1>2 DEF AfterEvent
<1>. QED
  BY <1>1, <1>2

\* A monitor that has just started has a memory of its type.
LEMMA FreshMonitorType == FreshMonitor \in MonitorMemory
<1>1. 0 \in LatRange
  BY SMT DEF LatRange, MaxLatency
<1>. QED
  BY <1>1, SMT DEF FreshMonitor, MonitorMemory

\* So has a runner that has just started.
LEMMA OfferType == Offer \in RunnerMemory
BY FreshIsRunnerMemory, CapacityAssumption DEF Offer

\* What run_flow does next and prints is of the type.
LEMMA AfterType ==
  ASSUME NEW f \in Flow, NEW c, NEW b, status[f] \in Status
  PROVE  /\ After(f, c, b).next \in Service \union {"exit", "killed"}
         /\ After(f, c, b).status \in Status
BY DEF After, AfterRegistry, AfterVault, AfterRunner, Go, Report, Service,
       Status

-----------------------------------------------------------------------------

\* A call of a gateway keeps every variable of its type.
LEMMA GatewayKeepsType ==
  ASSUME TypeOK, NEW f \in Flow, GatewayStep(f) \/ Kill(f)
  PROVE  TypeOK'
<1>1. CASE Connect(f)
  <2>1. pc[f] \in Service
    BY <1>1 DEF Connect, Running
  <2>2. Append(backlog[pc[f]], f) \in Seq(Flow)
    BY <2>1 DEF TypeOK
  <2>. QED
    BY <1>1, <2>1, <2>2 DEF Connect, TypeOK, memory
<1>2. CASE Refused(f)
  BY <1>2 DEF Refused, TypeOK, servers, memory
<1>3. CASE Send(f)
  BY <1>3 DEF Send, TypeOK, servers, memory
<1>4. CASE Return(f)
  <2> DEFINE a == After(f, code[f], body[f])
  <2>1. a.next \in Service \union {"exit", "killed"} /\ a.status \in Status
    BY AfterType DEF TypeOK
  <2>2. FALSE \in BOOLEAN
    OBVIOUS
  <2> HIDE DEF a
  <2>3. /\ pc' = [pc EXCEPT ![f] = a.next]
        /\ status' = [status EXCEPT ![f] = a.status]
    BY <1>4 DEF Return, a
  <2>. QED
    BY <1>4, <2>1, <2>2, <2>3 DEF Return, TypeOK, servers, memory
<1>5. CASE Kill(f)
  BY <1>5 DEF Kill, TypeOK, servers, memory
<1>. QED
  BY <1>1, <1>2, <1>3, <1>4, <1>5 DEF GatewayStep

\* So does a step of a server that does not run a handler.
LEMMA ServerKeepsType ==
  ASSUME TypeOK, NEW s \in Service, ServerStep(s)
  PROVE  TypeOK'
<1>1. CASE Accept(s)
  <2>1. Head(backlog[s]) \in Flow /\ Tail(backlog[s]) \in Seq(Flow)
    BY <1>1 DEF Accept, TypeOK
  <2>. QED
    BY <1>1, <2>1 DEF Accept, TypeOK, gateways, memory
<1>2. CASE ReadEof(s)
  BY <1>2 DEF ReadEof, Answer, TypeOK, gateways, memory
<1>3. CASE SendHeader(s)
  <2>1. code' \in [Flow -> {0, 200, 202, 400, 404, 409}]
    <3> DEFINE c == answer[s]
    <3>1. c \in {0, 200, 202, 400, 404, 409}
      BY DEF TypeOK
    <3> HIDE DEF c
    <3>2. code' = code \/ code' = [code EXCEPT ![serving[s]] = c]
      BY <1>3 DEF SendHeader, c
    <3>3. code \in [Flow -> {0, 200, 202, 400, 404, 409}]
      BY DEF TypeOK
    <3>. QED
      BY <3>1, <3>2, <3>3
  <2>. QED
    BY <1>3, <2>1, SMT DEF SendHeader, TypeOK, memory
<1>4. CASE SendBody(s)
  <2>0. TRUE \in BOOLEAN
    OBVIOUS
  <2>1. body' \in [Flow -> BOOLEAN]
    <3>1. body' = body \/ body' = [body EXCEPT ![serving[s]] = TRUE]
      BY <1>4 DEF SendBody
    <3>2. body \in [Flow -> BOOLEAN]
      BY DEF TypeOK
    <3>. QED
      BY <2>0, <3>1, <3>2
  <2>2. conn' \in [Flow -> {"none", "open", "sent", "eof", "reset"}]
    <3>1. conn' = conn \/ conn' = [conn EXCEPT ![serving[s]] = "eof"]
      BY <1>4 DEF SendBody
    <3>2. conn \in [Flow -> {"none", "open", "sent", "eof", "reset"}]
      BY DEF TypeOK
    <3>. QED
      BY <3>1, <3>2
  <2>. QED
    BY <1>4, <2>1, <2>2, SMT DEF SendBody, TypeOK, memory
<1>. QED
  BY <1>1, <1>2, <1>3, <1>4 DEF ServerStep

\* So does a handler.
LEMMA HandlersKeepType ==
  ASSUME TypeOK, Handle
  PROVE  TypeOK'
<1> USE AnswerCodes DEF Codes, Service
<1>0. ASSUME NEW s \in Service, NEW c \in Codes, Answer(s, c), UNCHANGED memory
      PROVE  TypeOK'
  BY <1>0 DEF Answer, TypeOK, gateways, memory
<1>1. CASE Resolve
  BY <1>0, <1>1 DEF Resolve
<1>2. CASE GetSecret
  <2>1. \A f \in Flow : SecretStatus[f] \in Codes
    BY DEF SecretStatus
  <2>. QED
    BY <1>0, <1>2, <2>1 DEF GetSecret, HasRequest
<1>3. CASE RunJob
  <2>1. serving["runner"] \in Flow
    BY <1>3 DEF RunJob, HasRequest
  <2>2. Config[serving["runner"]].run \in RunRequest
    BY <2>1, ConfigAssumption
  <2>3. runner' \in RunnerMemory
    BY <1>3, <2>2, AfterRunType DEF RunJob, TypeOK
  <2>4. booked' \in [Flow -> {"no", "live", "lost"}]
    BY <1>3, <2>1 DEF RunJob, TypeOK
  <2>. QED
    BY <1>3, <2>3, <2>4 DEF RunJob, Answer, TypeOK, gateways
<1>4. CASE TakeEvent
  <2>1. serving["monitor"] \in Flow
    BY <1>4 DEF TakeEvent, HasRequest
  <2>2. monitor' \in MonitorMemory
    BY <1>4, AfterEventType DEF TakeEvent, TypeOK
  <2>3. counted' \in SUBSET Flow
    BY <1>4, <2>1 DEF TakeEvent, TypeOK
  <2>. QED
    BY <1>4, <2>2, <2>3 DEF TakeEvent, Answer, TypeOK, gateways
<1>. QED
  BY <1>1, <1>2, <1>3, <1>4 DEF Handle

\* So do the end of a server and its restart.
LEMMA StopsKeepType ==
  ASSUME TypeOK, NEW s \in Service, Down(s) \/ Restart(s)
  PROVE  TypeOK'
<1>1. CASE Down(s)
  <2>1. /\ runner' \in RunnerMemory
        /\ monitor' \in MonitorMemory
    BY <1>1, FreshMonitorType, OfferType DEF Down, TypeOK
  <2>2. /\ conn' \in [Flow -> {"none", "open", "sent", "eof", "reset"}]
        /\ booked' \in [Flow -> {"no", "live", "lost"}]
        /\ counted' \in SUBSET Flow
    BY <1>1 DEF Down, TypeOK
  <2>3. up' \in [Service -> BOOLEAN]
    <3>1. FALSE \in BOOLEAN
      OBVIOUS
    <3>. QED
      BY <1>1, <3>1 DEF Down, TypeOK
  <2>. QED
    BY <1>1, <2>1, <2>2, <2>3 DEF Down, TypeOK
<1>2. CASE Restart(s)
  BY <1>2 DEF Restart, TypeOK, gateways, memory
<1>. QED
  BY <1>1, <1>2

\* Over HTTP, every step keeps the state of its type.
LEMMA HttpKeepsType ==
  ASSUME TypeOK, [Next]_vars
  PROVE  TypeOK'
<1>1. ASSUME NEW f \in Flow, GatewayStep(f) \/ Kill(f) PROVE TypeOK'
  BY <1>1, GatewayKeepsType
<1>2. ASSUME NEW s \in Service,
             ServerStep(s) \/ Stop(s) \/ SigPipe(s) \/ Restart(s)
      PROVE  TypeOK'
  BY <1>2, ServerKeepsType, StopsKeepType DEF Stop, SigPipe
<1>3. CASE Handle
  BY <1>3, HandlersKeepType
<1>4. CASE UNCHANGED vars
  BY <1>4 DEF vars, gateways, servers, memory, TypeOK
<1>. QED
  BY <1>1, <1>2, <1>3, <1>4 DEF Next

\* Over lines, what the gateway does after a call is of the type,
LEMMA LineReturnKeepsType ==
  ASSUME TypeOK, NEW f \in Flow, LineReturn(f)
  PROVE  TypeOK'
<1> DEFINE a == LineAfter(f, conn[f] = "eof", code[f])
<1>1. a.next \in Service \union {"exit", "killed"} /\ a.status \in Status
  BY DEF TypeOK, LineAfter, LineAfterRegistry, LineAfterVault,
         LineAfterRunner, Go, Report, Service, Status
<1>2. FALSE \in BOOLEAN
  OBVIOUS
<1> HIDE DEF a
<1>3. /\ pc' = [pc EXCEPT ![f] = a.next]
      /\ status' = [status EXCEPT ![f] = a.status]
  BY DEF LineReturn, a
<1>. QED
  BY <1>1, <1>2, <1>3 DEF LineReturn, TypeOK, servers, memory

\* and so is the state after a handler,
LEMMA LineHandlersKeepType ==
  ASSUME TypeOK, LineHandle
  PROVE  TypeOK'
<1> USE AnswerCodes DEF Codes, Service
<1>0. ASSUME NEW s \in Service, NEW c \in Codes, Answer(s, c), UNCHANGED memory
      PROVE  TypeOK'
  BY <1>0 DEF Answer, TypeOK, gateways, memory
<1>1. CASE LineResolve
  BY <1>0, <1>1 DEF LineResolve
<1>2. CASE LineGetSecret
  <2>1. \A f \in Flow : LineSecret[f] \in Codes
    BY DEF LineSecret
  <2>. QED
    BY <1>0, <1>2, <2>1 DEF LineGetSecret, HasRequest
<1>3. CASE LineRunJob
  <2> DEFINE q == AnyName(Config[serving["runner"]].run)
  <2>1. serving["runner"] \in Flow
    BY <1>3 DEF LineRunJob, HasRequest
  <2>2. q \in RunRequest
    BY <2>1, ConfigAssumption DEF RunRequest, AnyName
  <2> HIDE DEF q
  <2>3. runner' = AfterRun(runner, q)
    BY <1>3 DEF LineRunJob, q
  <2>4. runner' \in RunnerMemory
    BY <2>2, <2>3, AfterRunType DEF TypeOK
  <2>5. booked' \in [Flow -> {"no", "live", "lost"}]
    BY <1>3, <2>1 DEF LineRunJob, TypeOK
  <2>. QED
    BY <1>3, <2>4, <2>5 DEF LineRunJob, Answer, TypeOK, gateways
<1>4. CASE LineTakeEvent
  <2> DEFINE e == LineEvent(status[serving["monitor"]])
  <2>1. serving["monitor"] \in Flow
    BY <1>4 DEF LineTakeEvent, HasRequest
  <2>2. e.lat \in {5, 8, 12, 15, 20}
    BY DEF LineEvent, LineLatency
  <2>3. e.lat \in LatRange /\ e.lat \in Nat
    <3> DEFINE l == e.lat
    <3>1. l \in {5, 8, 12, 15, 20}
      BY <2>2
    <3> HIDE DEF l
    <3>2. l \in Int /\ 0 <= l /\ l <= 20
      BY <3>1
    <3>3. MaxLatency \in Int /\ 20 <= MaxLatency
      BY SMT DEF MaxLatency
    <3>4. l \in LatRange /\ l \in Nat
      BY <3>2, <3>3, SMT DEF LatRange
    <3>. QED
      BY <3>4 DEF l
  <2> HIDE DEF e
  <2>4. monitor' = CountEvent(monitor, e)
    BY <1>4 DEF LineTakeEvent, e
  <2>5. monitor \in MonitorMemory
    BY DEF TypeOK
  <2>6. monitor' \in MonitorMemory
    BY <2>3, <2>4, <2>5, SMT DEF CountEvent, MonitorMemory
  <2>7. counted' \in SUBSET Flow
    BY <1>4, <2>1 DEF LineTakeEvent, TypeOK
  <2>. QED
    BY <1>4, <2>6, <2>7 DEF LineTakeEvent, Answer, TypeOK, gateways
<1>. QED
  BY <1>1, <1>2, <1>3, <1>4 DEF LineHandle

\* after the single send of an answer,
LEMMA SendLineKeepsType ==
  ASSUME TypeOK, NEW s \in Service, SendLine(s)
  PROVE  TypeOK'
<1>0. TRUE \in BOOLEAN
  OBVIOUS
<1>1. code' \in [Flow -> {0, 200, 202, 400, 404, 409}]
  <2> DEFINE c == answer[s]
  <2>1. c \in {0, 200, 202, 400, 404, 409}
    BY DEF TypeOK
  <2> HIDE DEF c
  <2>2. code' = code \/ code' = [code EXCEPT ![serving[s]] = c]
    BY DEF SendLine, c
  <2>3. code \in [Flow -> {0, 200, 202, 400, 404, 409}]
    BY DEF TypeOK
  <2>. QED
    BY <2>1, <2>2, <2>3
<1>2. body' \in [Flow -> BOOLEAN]
  <2>1. body' = body \/ body' = [body EXCEPT ![serving[s]] = TRUE]
    BY DEF SendLine
  <2>2. body \in [Flow -> BOOLEAN]
    BY DEF TypeOK
  <2>. QED
    BY <1>0, <2>1, <2>2
<1>3. conn' \in [Flow -> {"none", "open", "sent", "eof", "reset"}]
  <2>1. conn' = conn \/ conn' = [conn EXCEPT ![serving[s]] = "eof"]
    BY DEF SendLine
  <2>2. conn \in [Flow -> {"none", "open", "sent", "eof", "reset"}]
    BY DEF TypeOK
  <2>. QED
    BY <2>1, <2>2
<1>. QED
  BY <1>1, <1>2, <1>3, SMT DEF SendLine, TypeOK, memory

\* and after the end of a server.
LEMMA LineDownKeepsType ==
  ASSUME TypeOK, NEW s \in Service, LineDown(s)
  PROVE  TypeOK'
<1>1. /\ runner' \in RunnerMemory
      /\ monitor' \in MonitorMemory
  BY FreshMonitorType, FreshIsRunnerMemory, CapacityAssumption
     DEF LineDown, LineCapacity, TypeOK
<1>2. conn' \in [Flow -> {"none", "open", "sent", "eof", "reset"}]
  BY DEF LineDown, TypeOK
<1>3. /\ booked' \in [Flow -> {"no", "live", "lost"}]
      /\ counted' \in SUBSET Flow
  BY DEF LineDown, TypeOK
<1>4. up' \in [Service -> BOOLEAN]
  <2>1. FALSE \in BOOLEAN
    OBVIOUS
  <2>. QED
    BY <2>1 DEF LineDown, TypeOK
<1>. QED
  BY <1>1, <1>2, <1>3, <1>4 DEF LineDown, TypeOK

\* So every step over lines keeps the state of its type.
LEMMA LineKeepsType ==
  ASSUME TypeOK, [LineNext]_vars
  PROVE  TypeOK'
<1>1. ASSUME NEW f \in Flow, LineGatewayStep(f) \/ Kill(f) PROVE TypeOK'
  BY <1>1, GatewayKeepsType, LineReturnKeepsType
     DEF LineGatewayStep, GatewayStep
<1>2. ASSUME NEW s \in Service,
             LineServerStep(s) \/ LineStop(s) \/ Restart(s)
      PROVE  TypeOK'
  BY <1>2, ServerKeepsType, SendLineKeepsType, LineDownKeepsType,
     StopsKeepType DEF LineServerStep, ServerStep, LineStop
<1>3. CASE LineHandle
  BY <1>3, LineHandlersKeepType
<1>4. CASE UNCHANGED vars
  BY <1>4 DEF vars, gateways, servers, memory, TypeOK
<1>. QED
  BY <1>1, <1>2, <1>3, <1>4 DEF LineNext

\* The state of either stack is of its type in every reachable state; the free
\* capacity of the runner, in particular, never becomes negative.
THEOREM MiniCloudTypeCorrect == StackSpec => []TypeOK
<1>1. StackInit => TypeOK
  <2> SUFFICES ASSUME StackInit PROVE TypeOK
    OBVIOUS
  <2>1. body \in [Flow -> BOOLEAN]
    BY DEF StackInit, Init
  <2>2. runner \in RunnerMemory /\ monitor \in MonitorMemory
    BY FreshMonitorType, OfferType DEF StackInit, Init
  <2>. QED
    BY <2>1, <2>2 DEF StackInit, Init, TypeOK, Service, Status
<1>2. TypeOK /\ [StackNext]_stackVars => TypeOK'
  <2> SUFFICES ASSUME TypeOK, [StackNext]_stackVars PROVE TypeOK'
    OBVIOUS
  <2>1. [Next]_vars \/ [LineNext]_vars
    BY DEF StackNext, stackVars
  <2>. QED
    BY <2>1, HttpKeepsType, LineKeepsType
<1>. QED
  BY <1>1, <1>2, PTL DEF StackSpec

-----------------------------------------------------------------------------


\* The queues stay as they are, and so do the flows in them, unless killed:
\* the other living flows of a queue wait.
LEMMA QueuesUntouched ==
  ASSUME TypeOK, QueuedInv, backlog' = backlog, serving' = serving,
         \A g \in Flow : \/ pc'[g] = pc[g] /\ (Waiting(g) => Waiting(g)')
                         \/ pc'[g] = "killed"
                         \/ Running(g) /\ ~Waiting(g)
  PROVE  QueuedInv'
<1> SUFFICES ASSUME NEW s \in Service, NEW i \in 1 .. Len(backlog[s])
             PROVE  InPlace(s, i)'
  BY DEF QueuedInv
<1>1. backlog[s][i] \in Flow
  BY DEF TypeOK
<1>2. InPlace(s, i)
  BY DEF QueuedInv
<1>. QED
  BY <1>1, <1>2 DEF InPlace, Running, Waiting, Service

\* A flow that connects is in no queue yet, so it is not there twice.
LEMMA ConnectQueues ==
  ASSUME TypeOK, QueuedInv, ServedInv, NEW f \in Flow, Connect(f)
  PROVE  QueuedInv'
<1> SUFFICES ASSUME NEW s \in Service, NEW i \in 1 .. Len(backlog'[s])
             PROVE  InPlace(s, i)'
  BY DEF QueuedInv
<1>0. pc[f] \in Service /\ pc[f] # "killed" /\ ~Waiting(f)
  BY DEF Connect, Running, Waiting, Service
<1>1. /\ backlog' = [backlog EXCEPT ![pc[f]] = Append(backlog[pc[f]], f)]
      /\ pc' = pc /\ serving' = serving
      /\ \A g \in Flow : Waiting(g) => Waiting(g)'
      /\ Waiting(f)'
  BY <1>0 DEF Connect, TypeOK, Waiting
<1>2. /\ backlog \in [Service -> Seq(Flow)]
      /\ backlog[s] \in Seq(Flow)
      /\ \A j \in 1 .. Len(backlog[s]) : backlog[s][j] \in Flow \ {f}
  BY <1>0 DEF QueuedInv, InPlace, TypeOK
<1>3. CASE s # pc[f]
  <2>1. backlog'[s] = backlog[s] /\ InPlace(s, i)
    BY <1>0, <1>1, <1>2, <1>3 DEF QueuedInv
  <2>. QED
    BY <1>1, <1>2, <2>1 DEF InPlace
<1>4. CASE s = pc[f]
  <2>1. backlog'[s] = Append(backlog[s], f)
    BY <1>1, <1>2, <1>4
  <2>2. CASE i = Len(backlog[s]) + 1
    <3>1. /\ backlog'[s][i] = f
          /\ \A j \in 1 .. Len(backlog'[s]) :
               j # i => backlog'[s][j] \in Flow \ {f}
      BY <1>2, <2>1, <2>2
    <3>2. serving'[s] # f
      BY <1>0, <1>1, <1>4 DEF ServedInv
    <3>. QED
      BY <1>1, <1>4, <3>1, <3>2 DEF InPlace
  <2>3. CASE i \in 1 .. Len(backlog[s])
    <3>1. InPlace(s, i) /\ backlog[s][i] \in Flow \ {f}
      BY <1>2, <2>3 DEF QueuedInv
    <3>2. backlog'[s][i] = backlog[s][i]
      BY <1>2, <2>1, <2>3
    <3>3. \A j \in 1 .. Len(backlog'[s]) :
            \/ j \in 1 .. Len(backlog[s]) /\ backlog'[s][j] = backlog[s][j]
            \/ backlog'[s][j] = f
      BY <1>2, <2>1
    <3>. QED
      BY <1>1, <3>1, <3>2, <3>3 DEF InPlace
  <2>. QED
    BY <1>2, <2>1, <2>2, <2>3
<1>. QED
  BY <1>3, <1>4

\* accept takes the first connection of the queue, which is nowhere else in it.
LEMMA AcceptQueues ==
  ASSUME TypeOK, QueuedInv, NEW t \in Service, Accept(t)
  PROVE  QueuedInv'
<1> SUFFICES ASSUME NEW s \in Service, NEW i \in 1 .. Len(backlog'[s])
             PROVE  InPlace(s, i)'
  BY DEF QueuedInv
<1>1. /\ backlog[t] \in Seq(Flow) /\ backlog[t] # <<>>
      /\ backlog' = [backlog EXCEPT ![t] = Tail(backlog[t])]
      /\ serving' = [serving EXCEPT ![t] = Head(backlog[t])]
      /\ pc' = pc /\ conn' = conn
  BY DEF Accept, TypeOK, gateways
<1>2. backlog \in [Service -> Seq(Flow)] /\ DOMAIN serving = Service
  BY DEF TypeOK
<1>3. CASE s # t
  <2>1. /\ backlog'[s] = backlog[s] /\ serving'[s] = serving[s]
        /\ InPlace(s, i)
    BY <1>1, <1>2, <1>3 DEF QueuedInv
  <2>. QED
    BY <1>1, <2>1 DEF InPlace, Waiting
<1>4. CASE s = t
  <2> DEFINE q == backlog[s]
             r == backlog'[s]
  <2>1. q \in Seq(Flow) /\ q # <<>> /\ r = Tail(q) /\ serving'[s] = q[1]
    BY <1>1, <1>2, <1>4
  <2>2. /\ \A j \in 1 .. Len(r) : j + 1 \in 1 .. Len(q) /\ r[j] = q[j + 1]
        /\ 1 \in 1 .. Len(q)
    <3> HIDE DEF q, r
    <3>. QED
      BY <2>1
  <2>3. InPlace(s, i + 1)
    BY <2>2 DEF QueuedInv
  <2>4. /\ 1 # i + 1
        /\ \A j \in 1 .. Len(r) : j # i => j + 1 # i + 1
    BY <2>2
  <2>. QED
    BY <1>1, <2>1, <2>2, <2>3, <2>4 DEF InPlace, Waiting
<1>. QED
  BY <1>3, <1>4

-----------------------------------------------------------------------------

\* One lemma per action, or group of actions, of a gateway.
LEMMA ConnectKeeps ==
  ASSUME TypeOK, IInv, NEW f \in Flow, Connect(f)
  PROVE  IInv'
<1>1. QueuedInv'
  BY ConnectQueues DEF IInv
<1>2. ServedInv' /\ SilentInv'
  BY SMT DEF Connect, TypeOK, IInv, ServedInv, SilentInv, Waiting, Running,
             Service
<1>3. CodeInv' /\ EvidenceInv' /\ LiveInv'
  BY SMT DEF Connect, TypeOK, IInv, CodeInv, EvidenceInv, LiveInv, OnItsWay,
             Running, Service, memory
<1>. QED
  BY <1>1, <1>2, <1>3 DEF IInv

\* A refused connection, a request that is sent and a gateway that is killed
\* leave what was printed and what was booked in agreement.
LEMMA RefusedSendKillKeep ==
  ASSUME TypeOK, IInv, NEW f \in Flow, Refused(f) \/ Send(f) \/ Kill(f)
  PROVE  IInv'
<1>1. CASE Refused(f)
  <2>1. QueuedInv'
    <3>1. /\ backlog' = backlog /\ serving' = serving
          /\ \A g \in Flow : \/ pc'[g] = pc[g] /\ (Waiting(g) => Waiting(g)')
                             \/ Running(g) /\ ~Waiting(g)
      BY <1>1 DEF Refused, TypeOK, Waiting, servers
    <3>. QED
      BY <3>1, QueuesUntouched DEF IInv
  <2>2. ServedInv' /\ SilentInv'
    BY <1>1, SMT DEF Refused, TypeOK, IInv, ServedInv, SilentInv, Waiting,
                     Running, Service, servers
  <2>3. CodeInv' /\ EvidenceInv' /\ LiveInv'
    BY <1>1, SMT DEF Refused, TypeOK, IInv, CodeInv, EvidenceInv, LiveInv,
                     OnItsWay, Running, Service, servers, memory
  <2>. QED
    BY <2>1, <2>2, <2>3 DEF IInv
<1>2. CASE Send(f)
  <2>1. QueuedInv'
    <3>1. /\ backlog' = backlog /\ serving' = serving
          /\ \A g \in Flow : pc'[g] = pc[g] /\ (Waiting(g) => Waiting(g)')
      BY <1>2 DEF Send, TypeOK, Waiting, servers
    <3>. QED
      BY <3>1, QueuesUntouched DEF IInv
  <2>2. ServedInv' /\ SilentInv'
    BY <1>2, SMT DEF Send, TypeOK, IInv, ServedInv, SilentInv, Waiting,
                     Running, Service, servers
  <2>3. CodeInv' /\ EvidenceInv' /\ LiveInv'
    BY <1>2, SMT DEF Send, TypeOK, IInv, CodeInv, EvidenceInv, LiveInv,
                     OnItsWay, Running, Service, servers, memory
  <2>. QED
    BY <2>1, <2>2, <2>3 DEF IInv
<1>3. CASE Kill(f)
  <2>1. QueuedInv'
    <3>1. /\ backlog' = backlog /\ serving' = serving
          /\ \A g \in Flow : \/ pc'[g] = pc[g] /\ (Waiting(g) => Waiting(g)')
                             \/ pc'[g] = "killed"
      BY <1>3 DEF Kill, TypeOK, Waiting, servers
    <3>. QED
      BY <3>1, QueuesUntouched DEF IInv
  <2>2. ServedInv' /\ SilentInv'
    BY <1>3, SMT DEF Kill, TypeOK, IInv, ServedInv, SilentInv, Waiting,
                     Running, Service, servers
  <2>3. CodeInv' /\ EvidenceInv' /\ LiveInv'
    BY <1>3, SMT DEF Kill, TypeOK, IInv, CodeInv, EvidenceInv, LiveInv,
                     SilentInv, OnItsWay, Running, Service, servers, memory
  <2>. QED
    BY <2>1, <2>2, <2>3 DEF IInv
<1>. QED
  BY <1>1, <1>2, <1>3

\* What run_flow prints after a call: ACCEPT only on the runner's 200.
LEMMA AfterAccept ==
  ASSUME NEW f \in Flow, NEW c, NEW b, pc[f] \in Service
  PROVE  /\ After(f, c, b).status = "ACCEPT" =>
               \/ pc[f] = "runner" /\ c = 200
               \/ pc[f] = "monitor" /\ status[f] = "ACCEPT"
         /\ pc[f] = "runner" /\ c = 200 => After(f, c, b).status = "ACCEPT"
         /\ pc[f] = "monitor" =>
              /\ After(f, c, b).status = status[f]
              /\ After(f, c, b).next = "exit"
         /\ pc[f] # "monitor" =>
              /\ After(f, c, b).next \in Service
              /\ After(f, c, b).next # "monitor"
                   => After(f, c, b).status = "none"
BY DEF After, AfterRegistry, AfterVault, AfterRunner, Go, Report, Service

\* The same over lines, where a call that fails has read no answer.
LEMMA LineAfterAccept ==
  ASSUME NEW f \in Flow, NEW a, a = LineAfter(f, conn[f] = "eof", code[f]),
         pc[f] \in Service, conn[f] # "eof" => code[f] # 200
  PROVE  /\ a.status = "ACCEPT" =>
               \/ pc[f] = "runner" /\ code[f] = 200
               \/ pc[f] = "monitor" /\ status[f] = "ACCEPT"
         /\ pc[f] = "runner" /\ code[f] = 200 => a.status = "ACCEPT"
         /\ pc[f] = "monitor" => a.status = status[f] /\ a.next = "exit"
         /\ pc[f] # "monitor" => /\ a.next \in Service
                                 /\ a.next # "monitor" => a.status = "none"
BY DEF LineAfter, LineAfterRegistry, LineAfterVault, LineAfterRunner, Go,
       Report, Service

\* A call that returns ends its connection, which no server has any more; what
\* the flow does next (a.next) and reports (a.status) fits what it has read.
LEMMA CallEnds ==
  ASSUME TypeOK, IInv, NEW f \in Flow, NEW a,
         pc' = [pc EXCEPT ![f] = a.next],
         status' = [status EXCEPT ![f] = a.status],
         conn' = [conn EXCEPT ![f] = "none"],
         code' = [code EXCEPT ![f] = 0],
         conn[f] \in {"eof", "reset"}, pc[f] \in Service,
         UNCHANGED <<backlog, serving, stage, answer, booked>>,
         a.status = "ACCEPT" => \/ pc[f] = "runner" /\ code[f] = 200
                                \/ pc[f] = "monitor" /\ status[f] = "ACCEPT",
         pc[f] = "runner" /\ code[f] = 200 => a.status = "ACCEPT",
         pc[f] = "monitor" => a.status = status[f] /\ a.next = "exit",
         pc[f] # "monitor" => /\ a.next \in Service
                              /\ a.next # "monitor" => a.status = "none"
  PROVE  IInv'
<1>1. /\ pc' = [pc EXCEPT ![f] = a.next]
      /\ status' = [status EXCEPT ![f] = a.status]
      /\ conn' = [conn EXCEPT ![f] = "none"]
      /\ code' = [code EXCEPT ![f] = 0]
      /\ conn[f] \in {"eof", "reset"} /\ pc[f] \in Service
      /\ UNCHANGED <<backlog, serving, stage, answer, booked>>
  OBVIOUS
<1>2. /\ a.status = "ACCEPT" => \/ pc[f] = "runner" /\ code[f] = 200
                                \/ pc[f] = "monitor" /\ status[f] = "ACCEPT"
      /\ pc[f] = "runner" /\ code[f] = 200 => a.status = "ACCEPT"
      /\ pc[f] = "monitor" => a.status = status[f] /\ a.next = "exit"
      /\ pc[f] # "monitor" => /\ a.next \in Service
                              /\ a.next # "monitor" => a.status = "none"
  OBVIOUS
<1>3. \A s \in Service :
        /\ serving[s] # f
        /\ \A i \in 1 .. Len(backlog[s]) : backlog[s][i] # f
  BY <1>1 DEF IInv, ServedInv, QueuedInv, InPlace, Waiting, Service
<1>4. QueuedInv'
  <2>1. ASSUME NEW g \in Flow
        PROVE  \/ pc'[g] = pc[g] /\ (Waiting(g) => Waiting(g)')
               \/ Running(g) /\ ~Waiting(g)
    <3>1. CASE g = f
      BY <1>1, <3>1 DEF Running, Waiting
    <3>2. CASE g # f
      <4>1. pc'[g] = pc[g] /\ conn'[g] = conn[g]
        BY <1>1, <3>2 DEF TypeOK
      <4>. QED
        BY <4>1 DEF Waiting
    <3>. QED
      BY <3>1, <3>2
  <2>. QED
    BY <1>1, <2>1, QueuesUntouched DEF IInv
<1>5. ServedInv'
  BY <1>1, <1>3, SMT DEF TypeOK, IInv, ServedInv, Waiting
<1>6. SilentInv'
  BY <1>1, <1>2, <1>3, SMT DEF TypeOK, IInv, SilentInv, Running, Service
<1>7. CodeInv'
  BY <1>1, <1>3, SMT DEF TypeOK, IInv, CodeInv, Running
<1>8. EvidenceInv'
  BY <1>1, <1>2, SMT DEF TypeOK, IInv, EvidenceInv
<1>9. LiveInv'
  <2>1. pc[f] # "killed" /\ pc[f] # "monitor" => status[f] = "none"
    BY <1>1 DEF IInv, SilentInv, Running
  <2>. QED
    BY <1>1, <1>2, <1>3, <2>1, SMT
       DEF TypeOK, IInv, LiveInv, OnItsWay, Service
<1>. QED
  BY <1>4, <1>5, <1>6, <1>7, <1>8, <1>9 DEF IInv

\* http_request returns.
LEMMA ReturnKeeps ==
  ASSUME TypeOK, IInv, NEW f \in Flow, Return(f)
  PROVE  IInv'
<1> DEFINE a == After(f, code[f], body[f])
<1>1. /\ pc' = [pc EXCEPT ![f] = a.next]
      /\ status' = [status EXCEPT ![f] = a.status]
      /\ conn' = [conn EXCEPT ![f] = "none"]
      /\ code' = [code EXCEPT ![f] = 0]
      /\ conn[f] \in {"eof", "reset"} /\ pc[f] \in Service
      /\ UNCHANGED <<backlog, serving, stage, answer, booked>>
  BY DEF Return, Running, servers, memory
<1>2. /\ a.status = "ACCEPT" => \/ pc[f] = "runner" /\ code[f] = 200
                                \/ pc[f] = "monitor" /\ status[f] = "ACCEPT"
      /\ pc[f] = "runner" /\ code[f] = 200 => a.status = "ACCEPT"
      /\ pc[f] = "monitor" => a.status = status[f] /\ a.next = "exit"
      /\ pc[f] # "monitor" => /\ a.next \in Service
                              /\ a.next # "monitor" => a.status = "none"
  BY <1>1, AfterAccept
<1> HIDE DEF a
<1>. QED
  BY <1>1, <1>2, CallEnds

\* send_request returns: a connection that was reset has delivered nothing.
LEMMA LineReturnKeeps ==
  ASSUME TypeOK, IInv, NEW f \in Flow, LineReturn(f)
  PROVE  IInv'
<1> DEFINE a == LineAfter(f, conn[f] = "eof", code[f])
<1>1. /\ pc' = [pc EXCEPT ![f] = a.next]
      /\ status' = [status EXCEPT ![f] = a.status]
      /\ conn' = [conn EXCEPT ![f] = "none"]
      /\ code' = [code EXCEPT ![f] = 0]
      /\ conn[f] \in {"eof", "reset"} /\ pc[f] \in Service
      /\ UNCHANGED <<backlog, serving, stage, answer, booked>>
  BY DEF LineReturn, Running, servers, memory
<1>2. conn[f] # "eof" => code[f] # 200
  BY <1>1 DEF IInv, CodeInv
<1>3. /\ a.status = "ACCEPT" => \/ pc[f] = "runner" /\ code[f] = 200
                                \/ pc[f] = "monitor" /\ status[f] = "ACCEPT"
      /\ pc[f] = "runner" /\ code[f] = 200 => a.status = "ACCEPT"
      /\ pc[f] = "monitor" => a.status = status[f] /\ a.next = "exit"
      /\ pc[f] # "monitor" => /\ a.next \in Service
                              /\ a.next # "monitor" => a.status = "none"
  <2>1. a = LineAfter(f, conn[f] = "eof", code[f])
    OBVIOUS
  <2> HIDE DEF a
  <2>. QED
    BY <1>1, <1>2, <2>1, LineAfterAccept
<1> HIDE DEF a
<1>. QED
  BY <1>1, <1>3, CallEnds

-----------------------------------------------------------------------------

\* One lemma per action, or group of actions, of a server.
LEMMA AcceptKeeps ==
  ASSUME TypeOK, IInv, NEW s \in Service, Accept(s)
  PROVE  IInv'
<1> DEFINE f == backlog[s][1]
<1>1. /\ backlog[s] \in Seq(Flow) /\ backlog[s] # <<>>
      /\ f \in Flow /\ 1 \in 1 .. Len(backlog[s])
      /\ Head(backlog[s]) = f
  BY DEF Accept, TypeOK
<1>2. InPlace(s, 1)
  BY <1>1 DEF IInv, QueuedInv
<1>3. QueuedInv'
  BY AcceptQueues DEF IInv
<1>4. /\ serving' = [serving EXCEPT ![s] = f]
      /\ stage' = [stage EXCEPT ![s] = "read"]
      /\ backlog' = [backlog EXCEPT ![s] = Tail(@)]
      /\ stage[s] = "idle"
      /\ UNCHANGED <<pc, conn, code, status, answer, booked>>
  BY <1>1 DEF Accept, gateways, memory
<1>5. ServedInv'
  BY <1>1, <1>2, <1>4, SMT DEF TypeOK, IInv, ServedInv, InPlace, Waiting
<1>6. SilentInv'
  <2>1. /\ \A t \in Service \ {s} : backlog'[t] = backlog[t]
        /\ \A i \in 1 .. Len(backlog'[s]) :
             /\ i + 1 \in 1 .. Len(backlog[s])
             /\ backlog'[s][i] = backlog[s][i + 1]
    <3> DEFINE q == backlog[s]
    <3>1. backlog'[s] = Tail(q) /\ \A t \in Service \ {s} : backlog'[t] = backlog[t]
      BY <1>4 DEF TypeOK
    <3>2. \A i \in 1 .. Len(Tail(q)) :
            i + 1 \in 1 .. Len(q) /\ Tail(q)[i] = q[i + 1]
      <4> HIDE DEF q
      <4>. QED
        BY <1>1 DEF q
    <3>. QED
      BY <3>1, <3>2
  <2>2. s # "monitor" => status[f] = "none"
    BY <1>1 DEF IInv, SilentInv
  <2>. QED
    BY <1>4, <2>1, <2>2 DEF TypeOK, IInv, SilentInv, Running
<1>7. CodeInv' /\ EvidenceInv' /\ LiveInv'
  BY <1>1, <1>4, SMT DEF TypeOK, IInv, ServedInv, CodeInv, EvidenceInv,
                         LiveInv, OnItsWay, Running, Service
<1>. QED
  BY <1>3, <1>5, <1>6, <1>7 DEF IInv

\* An answer to a request that changes no booking.
LEMMA AnswerKeeps ==
  ASSUME TypeOK, IInv, NEW s \in Service, NEW c, Answer(s, c),
         stage[s] = "read",
         pc[serving[s]] = s => conn[serving[s]] = "sent",
         booked' = booked, s = "runner" => c # 200
  PROVE  IInv'
<1>1. QueuedInv'
  <2>1. /\ backlog' = backlog /\ serving' = serving
        /\ pc' = pc /\ conn' = conn
    BY DEF Answer, gateways
  <2>. QED
    BY <2>1, QueuesUntouched DEF IInv, Waiting
<1>2. ServedInv' /\ SilentInv'
  BY SMT DEF Answer, TypeOK, IInv, ServedInv, SilentInv, Waiting, Running,
             gateways
<1>3. CodeInv' /\ EvidenceInv' /\ LiveInv'
  BY SMT DEF Answer, TypeOK, IInv, CodeInv, EvidenceInv, LiveInv, OnItsWay,
             Running, Service, gateways
<1>. QED
  BY <1>1, <1>2, <1>3 DEF IInv

\* So do the handlers that book nothing.
LEMMA OtherHandlersKeep ==
  ASSUME TypeOK, IInv,
         \/ Resolve \/ GetSecret \/ TakeEvent
         \/ LineResolve \/ LineGetSecret \/ LineTakeEvent
         \/ \E s \in Service : ReadEof(s)
  PROVE  IInv'
<1>1. CASE Resolve
  BY <1>1, AnswerKeeps DEF Resolve, HasRequest, Service, memory
<1>2. CASE GetSecret
  BY <1>2, AnswerKeeps DEF GetSecret, HasRequest, Service, memory
<1>3. CASE TakeEvent
  BY <1>3, AnswerKeeps DEF TakeEvent, HasRequest, Service
<1>4. CASE LineResolve
  BY <1>4, AnswerKeeps DEF LineResolve, HasRequest, Service, memory
<1>5. CASE LineGetSecret
  BY <1>5, AnswerKeeps DEF LineGetSecret, HasRequest, Service, memory
<1>6. CASE LineTakeEvent
  BY <1>6, AnswerKeeps DEF LineTakeEvent, HasRequest, Service
<1>7. ASSUME NEW s \in Service, ReadEof(s) PROVE IInv'
  <2>1. pc[serving[s]] # s
    BY <1>7 DEF ReadEof, Running
  <2>. QED
    BY <1>7, <2>1, AnswerKeeps DEF ReadEof, memory
<1>. QED
  BY <1>1, <1>2, <1>3, <1>4, <1>5, <1>6, <1>7

\* The booking: evidence of it is in the answer from now on.
LEMMA BookingKeeps ==
  ASSUME TypeOK, IInv, NEW v, HasRequest("runner"),
         booked' = IF v = "accept"
                   THEN [booked EXCEPT ![serving["runner"]] = "live"]
                   ELSE booked,
         Answer("runner", StatusOfVerdict(v))
  PROVE  IInv'
<1> DEFINE f == serving["runner"]
           c == StatusOfVerdict(v)
<1>1. /\ f \in Flow /\ conn[f] = "sent" /\ stage["runner"] = "read"
      /\ booked' = IF v = "accept" THEN [booked EXCEPT ![f] = "live"]
                                   ELSE booked
      /\ answer' = [answer EXCEPT !["runner"] = c]
      /\ stage' = [stage EXCEPT !["runner"] = "header"]
      /\ UNCHANGED <<pc, conn, code, status, backlog, serving>>
  BY DEF HasRequest, Answer, gateways
<1>2. c = 200 <=> v = "accept"
  BY DEF StatusOfVerdict
<1> HIDE DEF c
<1>3. pc[f] \in {"runner", "killed"} /\ status[f] = "none"
  BY <1>1 DEF IInv, ServedInv, SilentInv, Service
<1>4. QueuedInv'
  BY <1>1, QueuesUntouched DEF IInv, Waiting
<1>5. ServedInv' /\ SilentInv' /\ CodeInv'
  BY <1>1, SMT DEF TypeOK, IInv, ServedInv, SilentInv, CodeInv, Waiting,
                   Running, Service
<1>6. EvidenceInv'
  BY <1>1, <1>2, SMT DEF TypeOK, IInv, EvidenceInv, Service
<1>7. LiveInv'
  BY <1>1, <1>2, <1>3, SMT DEF TypeOK, IInv, LiveInv, OnItsWay, Service
<1>. QED
  BY <1>4, <1>5, <1>6, <1>7 DEF IInv

\* Over HTTP and over lines.
LEMMA RunJobKeeps ==
  ASSUME TypeOK, IInv, RunJob \/ LineRunJob
  PROVE  IInv'
<1>1. CASE RunJob
  BY <1>1, BookingKeeps DEF RunJob
<1>2. CASE LineRunJob
  BY <1>2, BookingKeeps DEF LineRunJob
<1>. QED
  BY <1>1, <1>2

\* The header carries the code of the answer that the server has in memory.
LEMMA SendHeaderKeeps ==
  ASSUME TypeOK, IInv, NEW s \in Service, SendHeader(s)
  PROVE  IInv'
<1>1. QueuedInv'
  <2>1. /\ backlog' = backlog /\ serving' = serving
        /\ pc' = pc /\ conn' = conn
    BY DEF SendHeader
  <2>. QED
    BY <2>1, QueuesUntouched DEF IInv, Waiting
<1>2. ServedInv' /\ SilentInv'
  BY SMT DEF SendHeader, TypeOK, IInv, ServedInv, SilentInv, Waiting, Running
<1>3. CodeInv' /\ EvidenceInv'
  BY SMT DEF SendHeader, TypeOK, IInv, ServedInv, CodeInv, EvidenceInv,
             Running, Service, memory
<1>4. LiveInv'
  BY SMT DEF SendHeader, TypeOK, IInv, ServedInv, LiveInv, OnItsWay, Running,
             Service, memory
<1>. QED
  BY <1>1, <1>2, <1>3, <1>4 DEF IInv

\* A connection that ends after the whole answer is the end of its flow's wait;
\* what the flow has read by then is the answer that its server had ready.
LEMMA AnsweredKeeps ==
  ASSUME TypeOK, IInv, NEW s \in Service, NEW f \in Flow, f = serving[s],
         stage[s] \in {"header", "body"},
         serving' = [serving EXCEPT ![s] = Nobody],
         stage' = [stage EXCEPT ![s] = "idle"],
         conn' = IF Running(f) THEN [conn EXCEPT ![f] = "eof"] ELSE conn,
         code' = IF Running(f) THEN [code EXCEPT ![f] = answer[s]] ELSE code,
         UNCHANGED <<pc, status, backlog, answer, booked>>
  PROVE  IInv'
<1>1. /\ pc[f] \in {s, "killed"}
      /\ Running(f) => pc[f] = s
      /\ serving' = [serving EXCEPT ![s] = Nobody]
      /\ stage' = [stage EXCEPT ![s] = "idle"]
      /\ conn' = IF Running(f) THEN [conn EXCEPT ![f] = "eof"] ELSE conn
      /\ code' = IF Running(f) THEN [code EXCEPT ![f] = answer[s]] ELSE code
      /\ UNCHANGED <<pc, status, backlog, answer, booked>>
  BY DEF IInv, ServedInv, Running, Service
<1>2. Nobody \notin Flow
  BY FlowAssumption
<1>3. \A t \in Service \ {s} :
        serving[t] \in Flow /\ pc[serving[t]] = t => serving[t] # f
  BY <1>1 DEF IInv, ServedInv, Service
<1>4. QueuedInv'
  <2> SUFFICES ASSUME NEW t \in Service, NEW i \in 1 .. Len(backlog[t])
               PROVE  InPlace(t, i)'
    BY <1>1 DEF QueuedInv
  <2>1. InPlace(t, i) /\ backlog[t][i] \in Flow
    BY DEF IInv, QueuedInv, TypeOK
  <2>2. pc[backlog[t][i]] = t => backlog[t][i] # f
    BY <1>1, <2>1 DEF InPlace, Service
  <2>3. \A g \in Flow \ {f} : conn'[g] = conn[g]
    BY <1>1 DEF TypeOK
  <2>4. serving'[t] \in {serving[t], Nobody}
    BY <1>1 DEF TypeOK
  <2>. QED
    BY <1>1, <1>2, <2>1, <2>2, <2>3, <2>4 DEF InPlace, Waiting
<1>5. ServedInv' /\ SilentInv'
  BY <1>1, <1>2, <1>3, SMT DEF TypeOK, IInv, ServedInv, SilentInv, Waiting,
                               Running
<1>6. CodeInv' /\ EvidenceInv'
  BY <1>1, <1>2, <1>3, SMT DEF TypeOK, IInv, CodeInv, EvidenceInv, Running,
                               Service
<1>7. LiveInv'
  <2> SUFFICES ASSUME NEW g \in Flow, booked[g] = "live", status[g] # "ACCEPT",
                      pc[g] # "killed"
               PROVE  status[g] = "none" /\ pc[g] = "runner" /\ OnItsWay(g)'
    BY <1>1 DEF IInv, LiveInv
  <2>1. status[g] = "none" /\ pc[g] = "runner" /\ OnItsWay(g)
    BY DEF IInv, LiveInv
  <2>2. CASE g = f
    <3>1. s = "runner" /\ Running(f)
      BY <1>1, <2>1, <2>2 DEF Running, Service
    <3>2. answer[s] = 200
      BY <2>1, <2>2, <3>1 DEF OnItsWay, IInv, ServedInv, Waiting
    <3>3. conn'[f] = "eof" /\ code'[f] = 200
      BY <1>1, <3>1, <3>2 DEF TypeOK
    <3>. QED
      BY <2>1, <2>2, <3>3 DEF OnItsWay
  <2>3. CASE g # f
    <3>1. conn'[g] = conn[g] /\ code'[g] = code[g]
      BY <1>1, <2>3 DEF TypeOK
    <3>2. serving["runner"] = g => s # "runner"
      BY <2>3
    <3>3. s # "runner" => /\ serving'["runner"] = serving["runner"]
                          /\ stage'["runner"] = stage["runner"]
      BY <1>1 DEF TypeOK, Service
    <3>. QED
      BY <1>1, <2>1, <3>1, <3>2, <3>3 DEF OnItsWay
  <2>. QED
    BY <2>2, <2>3
<1>. QED
  BY <1>4, <1>5, <1>6, <1>7 DEF IInv

\* The second of two sends: the code is there already.
LEMMA SendBodyKeeps ==
  ASSUME TypeOK, IInv, NEW s \in Service, SendBody(s)
  PROVE  IInv'
<1> DEFINE f == serving[s]
<1>1. /\ f \in Flow /\ stage[s] = "body"
      /\ serving' = [serving EXCEPT ![s] = Nobody]
      /\ stage' = [stage EXCEPT ![s] = "idle"]
      /\ conn' = IF Running(f) THEN [conn EXCEPT ![f] = "eof"] ELSE conn
      /\ UNCHANGED <<pc, code, status, backlog, answer, booked>>
  BY DEF SendBody, IInv, ServedInv, memory
<1>2. Running(f) => code[f] = answer[s]
  BY <1>1 DEF IInv, ServedInv, CodeInv, Running, Service
<1>3. code' = IF Running(f) THEN [code EXCEPT ![f] = answer[s]] ELSE code
  <2>1. code = [code EXCEPT ![f] = code[f]]
    BY <1>1 DEF TypeOK
  <2>. QED
    BY <1>1, <1>2, <2>1
<1>4. f = serving[s]
  OBVIOUS
<1> HIDE DEF f
<1>. QED
  BY <1>1, <1>3, <1>4, AnsweredKeeps

\* The only send, over lines.
LEMMA SendLineKeeps ==
  ASSUME TypeOK, IInv, NEW s \in Service, SendLine(s)
  PROVE  IInv'
<1> DEFINE f == serving[s]
<1>1. /\ f \in Flow /\ stage[s] = "header"
      /\ serving' = [serving EXCEPT ![s] = Nobody]
      /\ stage' = [stage EXCEPT ![s] = "idle"]
      /\ conn' = IF Running(f) THEN [conn EXCEPT ![f] = "eof"] ELSE conn
      /\ code' = IF Running(f) THEN [code EXCEPT ![f] = answer[s]] ELSE code
      /\ UNCHANGED <<pc, status, backlog, answer, booked>>
  BY DEF SendLine, IInv, ServedInv, memory
<1>2. f = serving[s]
  OBVIOUS
<1> HIDE DEF f
<1>. QED
  BY <1>1, <1>2, AnsweredKeeps

\* A server that stops forgets its connections, and the runner its bookings.
\* A connection is reset only if its answer has not begun.
LEMMA EndKeeps ==
  ASSUME TypeOK, IInv, NEW s \in Service,
         \E end \in [Flow -> {"eof", "reset"}] :
           /\ \A f \in Flow :
                f = serving[s] /\ stage[s] = "body" => end[f] = "eof"
           /\ conn' = [f \in Flow |->
                         IF pc[f] = s /\ conn[f] \in {"open", "sent"}
                         THEN end[f] ELSE conn[f]],
         backlog' = [backlog EXCEPT ![s] = <<>>],
         serving' = [serving EXCEPT ![s] = Nobody],
         stage' = [stage EXCEPT ![s] = "idle"],
         UNCHANGED <<pc, code, status, answer>>,
         booked' = IF s = "runner"
                   THEN [f \in Flow |-> IF booked[f] = "live" THEN "lost"
                                                              ELSE booked[f]]
                   ELSE booked
  PROVE  IInv'
<1>0. PICK end \in [Flow -> {"eof", "reset"}] :
        /\ \A f \in Flow :
             f = serving[s] /\ stage[s] = "body" => end[f] = "eof"
        /\ conn' = [f \in Flow |->
                      IF pc[f] = s /\ conn[f] \in {"open", "sent"}
                      THEN end[f] ELSE conn[f]]
  OBVIOUS
<1>1. /\ conn' = [f \in Flow |->
                   IF pc[f] = s /\ conn[f] \in {"open", "sent"}
                   THEN end[f] ELSE conn[f]]
      /\ backlog' = [backlog EXCEPT ![s] = <<>>]
      /\ serving' = [serving EXCEPT ![s] = Nobody]
      /\ stage' = [stage EXCEPT ![s] = "idle"]
      /\ UNCHANGED <<pc, code, status, answer>>
  BY <1>0
<1>2. booked' = IF s = "runner"
                THEN [f \in Flow |-> IF booked[f] = "live" THEN "lost"
                                                           ELSE booked[f]]
                ELSE booked
  OBVIOUS
<1>3. Nobody \notin Flow
  BY FlowAssumption
<1>4. /\ backlog'[s] = <<>> /\ serving'[s] = Nobody /\ stage'[s] = "idle"
      /\ \A t \in Service \ {s} : /\ backlog'[t] = backlog[t]
                                  /\ serving'[t] = serving[t]
                                  /\ stage'[t] = stage[t]
      /\ \A f \in Flow : pc[f] # s => conn'[f] = conn[f]
  BY <1>1 DEF TypeOK
<1>5. QueuedInv'
  <2> SUFFICES ASSUME NEW t \in Service, NEW i \in 1 .. Len(backlog'[t])
               PROVE  InPlace(t, i)'
    BY DEF QueuedInv
  <2>1. t # s
    BY <1>4
  <2>2. backlog'[t] = backlog[t] /\ serving'[t] = serving[t]
    BY <1>4, <2>1
  <2>3. InPlace(t, i) /\ backlog[t][i] \in Flow
    BY <2>2 DEF IInv, QueuedInv, TypeOK
  <2>. QED
    BY <1>1, <1>4, <2>1, <2>2, <2>3 DEF InPlace, Waiting
<1>6. ServedInv'
  BY <1>1, <1>3, <1>4, SMT DEF TypeOK, IInv, ServedInv, Waiting, Service
<1>7. SilentInv'
  BY <1>1, <1>3, <1>4, SMT DEF IInv, SilentInv, Running
<1>8. CodeInv'
  BY <1>0, <1>1, <1>4, SMT DEF TypeOK, IInv, CodeInv, Running, Service
<1>9. EvidenceInv'
  BY <1>0, <1>1, <1>2, <1>4, SMT DEF TypeOK, IInv, EvidenceInv, Service
<1>10. LiveInv'
  BY <1>0, <1>1, <1>2, <1>4, SMT DEF TypeOK, IInv, ServedInv, LiveInv, OnItsWay,
                               Service
<1>. QED
  BY <1>5, <1>6, <1>7, <1>8, <1>9, <1>10 DEF IInv

\* Over HTTP, a gateway that has the header of its answer sees its end.
LEMMA DownKeeps ==
  ASSUME TypeOK, IInv, NEW s \in Service, Down(s)
  PROVE  IInv'
<1>1. PICK ends \in [Flow -> {"eof", "reset"}] :
        ends = [f \in Flow |-> IF f = serving[s] /\ stage[s] = "body"
                              THEN "eof" ELSE "reset"]
  OBVIOUS
<1>2. \E end \in [Flow -> {"eof", "reset"}] :
        /\ \A f \in Flow :
             f = serving[s] /\ stage[s] = "body" => end[f] = "eof"
        /\ conn' = [f \in Flow |->
                      IF pc[f] = s /\ conn[f] \in {"open", "sent"}
                      THEN end[f] ELSE conn[f]]
  BY <1>1 DEF Down
<1>3. /\ backlog' = [backlog EXCEPT ![s] = <<>>]
      /\ serving' = [serving EXCEPT ![s] = Nobody]
      /\ stage' = [stage EXCEPT ![s] = "idle"]
      /\ UNCHANGED <<pc, code, status, answer>>
      /\ booked' = IF s = "runner"
                   THEN [f \in Flow |-> IF booked[f] = "live" THEN "lost"
                                                              ELSE booked[f]]
                   ELSE booked
  BY DEF Down
<1>. QED
  BY <1>2, <1>3, EndKeeps

\* Over lines, only a gateway whose request was not read to its end is reset.
LEMMA LineDownKeeps ==
  ASSUME TypeOK, IInv, NEW s \in Service, LineDown(s)
  PROVE  IInv'
<1>1. PICK e \in {"eof", "reset"} :
        /\ serving[s] \in Flow => e \in LineEnds(s, serving[s])
        /\ conn' = [f \in Flow |->
                      IF pc[f] = s /\ conn[f] \in {"open", "sent"}
                      THEN IF f = serving[s] THEN e ELSE "reset"
                      ELSE conn[f]]
  BY DEF LineDown
<1>2. PICK ends \in [Flow -> {"eof", "reset"}] :
        ends = [f \in Flow |-> IF f = serving[s] THEN e ELSE "reset"]
  OBVIOUS
<1>3. \E end \in [Flow -> {"eof", "reset"}] :
        /\ \A f \in Flow :
             f = serving[s] /\ stage[s] = "body" => end[f] = "eof"
        /\ conn' = [f \in Flow |->
                      IF pc[f] = s /\ conn[f] \in {"open", "sent"}
                      THEN end[f] ELSE conn[f]]
  BY <1>1, <1>2 DEF LineEnds
<1>4. /\ backlog' = [backlog EXCEPT ![s] = <<>>]
      /\ serving' = [serving EXCEPT ![s] = Nobody]
      /\ stage' = [stage EXCEPT ![s] = "idle"]
      /\ UNCHANGED <<pc, code, status, answer>>
      /\ booked' = IF s = "runner"
                   THEN [f \in Flow |-> IF booked[f] = "live" THEN "lost"
                                                              ELSE booked[f]]
                   ELSE booked
  BY DEF LineDown
<1>. QED
  BY <1>3, <1>4, EndKeeps

\* A server that starts again remembers no booking and serves nobody.
LEMMA RestartKeeps ==
  ASSUME TypeOK, IInv, NEW s \in Service, Restart(s)
  PROVE  IInv'
<1>1. UNCHANGED <<pc, conn, code, status, backlog, serving, stage, answer,
                  booked>>
  BY DEF Restart, gateways, memory
<1>. QED
  BY <1>1 DEF IInv, ServedInv, QueuedInv, InPlace, SilentInv, CodeInv,
              EvidenceInv, LiveInv, OnItsWay, Waiting, Running

-----------------------------------------------------------------------------

\* Every step over HTTP keeps the invariant,
LEMMA HttpKeeps ==
  ASSUME TypeOK, IInv, [Next]_vars
  PROVE  IInv'
<1>1. ASSUME NEW f \in Flow, GatewayStep(f) \/ Kill(f) PROVE IInv'
  BY <1>1, ConnectKeeps, RefusedSendKillKeep, ReturnKeeps DEF GatewayStep
<1>2. ASSUME NEW s \in Service, ServerStep(s) PROVE IInv'
  BY <1>2, AcceptKeeps, OtherHandlersKeep, SendHeaderKeeps, SendBodyKeeps
     DEF ServerStep
<1>3. ASSUME NEW s \in Service, Stop(s) \/ SigPipe(s) \/ Restart(s)
      PROVE  IInv'
  BY <1>3, DownKeeps, RestartKeeps DEF Stop, SigPipe
<1>4. CASE Handle
  BY <1>4, OtherHandlersKeep, RunJobKeeps DEF Handle
<1>5. CASE UNCHANGED vars
  BY <1>5 DEF vars, gateways, servers, memory, IInv, ServedInv, QueuedInv,
              InPlace, SilentInv, CodeInv, EvidenceInv, LiveInv, OnItsWay,
              Waiting, Running
<1>. QED
  BY <1>1, <1>2, <1>3, <1>4, <1>5 DEF Next

\* and so does every step over lines.
LEMMA LineKeeps ==
  ASSUME TypeOK, IInv, [LineNext]_vars
  PROVE  IInv'
<1>1. ASSUME NEW f \in Flow, LineGatewayStep(f) \/ Kill(f) PROVE IInv'
  BY <1>1, ConnectKeeps, RefusedSendKillKeep, LineReturnKeeps
     DEF LineGatewayStep
<1>2. ASSUME NEW s \in Service, LineServerStep(s) PROVE IInv'
  BY <1>2, AcceptKeeps, OtherHandlersKeep, SendLineKeeps DEF LineServerStep
<1>3. ASSUME NEW s \in Service, LineStop(s) \/ Restart(s) PROVE IInv'
  BY <1>3, LineDownKeeps, RestartKeeps DEF LineStop
<1>4. CASE LineHandle
  BY <1>4, OtherHandlersKeep, RunJobKeeps DEF LineHandle
<1>5. CASE UNCHANGED vars
  BY <1>5 DEF vars, gateways, servers, memory, IInv, ServedInv, QueuedInv,
              InPlace, SilentInv, CodeInv, EvidenceInv, LiveInv, OnItsWay,
              Waiting, Running
<1>. QED
  BY <1>1, <1>2, <1>3, <1>4, <1>5 DEF LineNext

\* The inductive invariant holds in every reachable state of either stack.
THEOREM MiniCloudInvariant == StackSpec => []IInv
<1>1. StackInit => IInv
  <2> SUFFICES ASSUME StackInit PROVE IInv
    OBVIOUS
  <2>1. Nobody \notin Flow
    BY FlowAssumption
  <2>2. \A s \in Service : backlog[s] = <<>> /\ 1 .. Len(backlog[s]) = {}
    BY DEF StackInit, Init
  <2>3. QueuedInv
    BY <2>2 DEF QueuedInv
  <2>. QED
    BY <2>1, <2>2, <2>3 DEF StackInit, Init, IInv, ServedInv, SilentInv,
                            CodeInv, EvidenceInv, LiveInv, Running, Service
<1>2. TypeOK /\ IInv /\ [StackNext]_stackVars => IInv'
  <2> SUFFICES ASSUME TypeOK, IInv, [StackNext]_stackVars PROVE IInv'
    OBVIOUS
  <2>1. [Next]_vars \/ [LineNext]_vars
    BY DEF StackNext, stackVars
  <2>. QED
    BY <2>1, HttpKeeps, LineKeeps
<1>. QED
  BY <1>1, <1>2, MiniCloudTypeCorrect, PTL DEF StackSpec

\* A gateway prints status=ACCEPT only if the runner has made its booking:
\* neither a partial answer nor a restarted server can fake one.
THEOREM AcceptIsBooked == StackSpec => []AcceptMeansBooked
<1>1. IInv => AcceptMeansBooked
  BY DEF IInv, EvidenceInv, AcceptMeansBooked
<1>. QED
  BY <1>1, MiniCloudInvariant, PTL

\* A gateway that reports a failure holds none of the runner's capacity.
THEOREM FailureIsFree == StackSpec => []FailureHoldsNothing
<1>1. IInv => FailureHoldsNothing
  BY DEF IInv, LiveInv, FailureHoldsNothing
<1>. QED
  BY <1>1, MiniCloudInvariant, PTL

-----------------------------------------------------------------------------
(* What the monitor has counted: that every flow that ends was heard while *)
(* no server had stopped, and that no flow is counted twice.               *)

\* What an HTTP gateway may report, each with the latency of its event.
HttpReports == {"REGISTRY_ERROR", "REGISTRY_MALFORMED", "ROUTED", "SECRET_ERROR",
                "SECRET_MALFORMED", "RUNNER_ERROR", "ACCEPT", "REJECT"}

ReportedInv ==
  protocol = "http" => \A f \in Flow : pc[f] = "monitor" => status[f] \in HttpReports

\* While no server has stopped, every call gets its answer, and the monitor's
\* comes after its handler.
HeardInv ==
  stops = 0 =>
    /\ \A s \in Service : up[s]
    /\ \A f \in Flow : conn[f] # "reset"
    /\ \A f \in Flow : pc[f] = "exit" => f \in counted
    /\ \A f \in Flow : pc[f] = "monitor" /\ conn[f] = "eof" => f \in counted
    /\ stage["monitor"] \in {"header", "body"} /\ pc[serving["monitor"]] = "monitor"
         => serving["monitor"] \in counted

\* A connection that waits for the monitor is there once and not counted.
Unheard(i) ==
  /\ backlog["monitor"][i] \notin counted
  /\ backlog["monitor"][i] # serving["monitor"]
  /\ \A j \in 1 .. Len(backlog["monitor"]) :
       j # i => backlog["monitor"][j] # backlog["monitor"][i]

OnceInv ==
  /\ \A f \in counted : pc[f] \in {"monitor", "exit", "killed"}
  /\ \A f \in Flow : pc[f] = "monitor" /\ conn[f] = "none" => f \notin counted
  /\ stage["monitor"] = "read" => serving["monitor"] \notin counted
  /\ \A i \in 1 .. Len(backlog["monitor"]) : Unheard(i)

Failed == {f \in counted : status[f] \notin {"ROUTED", "ACCEPT"}}

CountsInv ==
  /\ IsFiniteSet(counted)
  /\ monitor.total = Cardinality(counted)
  /\ monitor.errors = Cardinality(Failed)
  /\ monitor.retries = 0

\* Why the proof of the counters needs the rest: a step of the monitor's handler
\* counts a flow that was not counted.
CInv == ReportedInv /\ HeardInv /\ OnceInv /\ CountsInv

\* The steps of both stacks, by what they do to the monitor's view of the flows.
\* A call of f ends: f calls n next, with report st.
EndsWith(f, n, st) ==
  /\ pc[f] \in Service /\ conn[f] \in {"eof", "reset"}
  /\ pc' = [pc EXCEPT ![f] = n]
  /\ status' = [status EXCEPT ![f] = st]
  /\ conn' = [conn EXCEPT ![f] = "none"]
  /\ UNCHANGED <<servers, memory, stops>>
  /\ pc[f] = "monitor" => n = "exit" /\ st = status[f]
  /\ pc[f] # "monitor" => n \in Service
  /\ n = "monitor" /\ protocol = "http" => st \in HttpReports

\* An answer of which the monitor's counters know nothing.
Quietly(s) ==
  /\ stage[s] = "read" /\ stage' = [stage EXCEPT ![s] = "header"]
  /\ s = "monitor" => ~Running(serving[s])
  /\ UNCHANGED <<gateways, up, backlog, serving, stops, monitor, counted>>

\* A part of an answer, or its end.
Sends(s) ==
  /\ stage[s] \in {"header", "body"}
  /\ \/ stage' = [stage EXCEPT ![s] = "body"] /\ UNCHANGED <<conn, serving>>
     \/ /\ stage' = [stage EXCEPT ![s] = "idle"]
        /\ serving' = [serving EXCEPT ![s] = Nobody]
        /\ conn' = IF Running(serving[s]) THEN [conn EXCEPT ![serving[s]] = "eof"]
                                          ELSE conn
  /\ UNCHANGED <<pc, status, up, backlog, memory, stops>>

\* The end of a server.
Ends(s) ==
  /\ stops' = stops + 1
  /\ \A f \in Flow : conn'[f] = conn[f] \/ conn'[f] \in {"eof", "reset"}
  /\ backlog' = [backlog EXCEPT ![s] = <<>>]
  /\ serving' = [serving EXCEPT ![s] = Nobody]
  /\ stage' = [stage EXCEPT ![s] = "idle"]
  /\ monitor' = IF s = "monitor" THEN FreshMonitor ELSE monitor
  /\ counted' = IF s = "monitor" THEN {} ELSE counted
  /\ UNCHANGED <<pc, status>>

\* The monitor's handler.  Only an event that no gateway sends is not counted.
Hears(f) ==
  /\ f = serving["monitor"] /\ HasRequest("monitor")
  /\ stage' = [stage EXCEPT !["monitor"] = "header"]
  /\ \/ /\ counted' = counted \union {f}
        /\ monitor'.total = monitor.total + 1
        /\ monitor'.errors =
             monitor.errors + (IF status[f] \in {"ROUTED", "ACCEPT"} THEN 0 ELSE 1)
        /\ monitor'.retries = monitor.retries
     \/ /\ protocol = "http" /\ status[f] \notin HttpReports
        /\ UNCHANGED <<monitor, counted>>
  /\ UNCHANGED <<gateways, up, backlog, serving, stops>>

\* An HTTP gateway's event is never refused.
LEMMA LatencyIsUnderstood ==
  ASSUME NEW st \in HttpReports
  PROVE  EventStatus(EventOf(st)) = 202
<1>1. Latency(st) \in {5, 6, 7, 10, 11, 15, 20}
  BY DEF HttpReports, Latency
<1>2. Latency(st) \in LatRange
  <2> DEFINE l == Latency(st)
  <2>1. l \in {5, 6, 7, 10, 11, 15, 20}
    BY <1>1
  <2> HIDE DEF l
  <2>2. l \in Int /\ 0 <= l /\ l <= 20
    BY <2>1
  <2>3. MaxLatency \in Int /\ 20 <= MaxLatency
    BY SMT DEF MaxLatency
  <2>4. l \in LatRange
    BY <2>2, <2>3, SMT DEF LatRange
  <2>. QED
    BY <2>4 DEF l
<1>. QED
  BY <1>2 DEF EventStatus, EventOf

\* What one event does to the counters.
LEMMA EventCounts ==
  ASSUME NEW st, NEW lat, NEW m,
         m = CountEvent(monitor, [complete |-> TRUE, lat |-> lat,
                                  result |-> IF Success(st) THEN "ok" ELSE "err"])
  PROVE  /\ m.total = monitor.total + 1
         /\ m.errors = monitor.errors + (IF st \in {"ROUTED", "ACCEPT"} THEN 0 ELSE 1)
         /\ TypeOK => m.retries = monitor.retries
<1>1. /\ m.total = monitor.total + 1
      /\ m.errors = monitor.errors + (IF st \in {"ROUTED", "ACCEPT"} THEN 0 ELSE 1)
      /\ m.retries = monitor.retries + 0
  BY DEF CountEvent, Success
<1>2. TypeOK => monitor.retries \in Nat
  BY DEF TypeOK, MonitorMemory
<1>. QED
  BY <1>1, <1>2

LEMMA EventIsHeard ==
  ASSUME TypeOK, (TakeEvent /\ protocol = "http") \/ LineTakeEvent
  PROVE  \E f \in Flow : Hears(f)
<1> DEFINE f == serving["monitor"]
<1>0. f \in Flow /\ HasRequest("monitor")
  BY DEF TakeEvent, LineTakeEvent, HasRequest
<1>1. /\ stage' = [stage EXCEPT !["monitor"] = "header"]
      /\ UNCHANGED <<gateways, up, backlog, serving, stops>>
  BY DEF TakeEvent, LineTakeEvent, Answer
<1>2. CASE LineTakeEvent
  <2>1. monitor' = CountEvent(monitor, LineEvent(status[f])) /\ counted' = counted \union {f}
    BY <1>2 DEF LineTakeEvent
  <2>2. Hears(f)
    BY <1>0, <1>1, <2>1, EventCounts DEF Hears, LineEvent
  <2>. QED
    BY <1>0, <2>2
<1>3. CASE TakeEvent /\ protocol = "http" /\ EventStatus(EventOf(status[f])) = 202
  <2>1. monitor' = CountEvent(monitor, EventOf(status[f])) /\ counted' = counted \union {f}
    BY <1>3 DEF TakeEvent, AfterEvent
  <2>2. Hears(f)
    BY <1>0, <1>1, <2>1, EventCounts DEF Hears, EventOf
  <2>. QED
    BY <1>0, <2>2
<1>4. CASE TakeEvent /\ protocol = "http" /\ EventStatus(EventOf(status[f])) # 202
  <2>1. UNCHANGED <<monitor, counted>> /\ status[f] \notin HttpReports
    BY <1>4, LatencyIsUnderstood DEF TakeEvent, AfterEvent
  <2>2. Hears(f)
    BY <1>0, <1>1, <1>4, <2>1 DEF Hears
  <2>. QED
    BY <1>0, <2>2
<1>. QED
  BY <1>2, <1>3, <1>4

\* Every step is one of these.
LEMMA StackCases ==
  ASSUME TypeOK, IInv, [StackNext]_stackVars
  PROVE  \/ \E f \in Flow : \/ Connect(f) \/ Refused(f) \/ Send(f) \/ Kill(f) \/ Hears(f)
                            \/ \E n \in Service \union {"exit"}, st \in Status :
                                 EndsWith(f, n, st)
         \/ \E s \in Service : Accept(s) \/ Quietly(s) \/ Sends(s) \/ Ends(s) \/ Restart(s)
         \/ UNCHANGED vars
<1>1. ASSUME NEW f \in Flow, Return(f) \/ (LineReturn(f) /\ protocol = "lines")
      PROVE  \E n \in Service \union {"exit"}, st \in Status : EndsWith(f, n, st)
  <2>0. pc[f] \in Service /\ conn[f] \in {"eof", "reset"} /\ status[f] \in Status
    BY <1>1 DEF Return, LineReturn, Running, TypeOK
  <2>1. CASE Return(f)
    <3> DEFINE a == After(f, code[f], body[f])
    <3>0. a.next = "monitor" => a.status \in HttpReports
      BY DEF After, AfterRegistry, AfterVault, AfterRunner, Go, Report, HttpReports
    <3>1. /\ a.status \in Status
          /\ pc[f] = "monitor" => a.next = "exit" /\ a.status = status[f]
          /\ pc[f] # "monitor" => a.next \in Service
      BY <2>0, AfterAccept, AfterType
    <3>2. a.next \in Service \union {"exit"}
      BY <3>1
    <3> HIDE DEF a
    <3>3. /\ pc' = [pc EXCEPT ![f] = a.next]
          /\ status' = [status EXCEPT ![f] = a.status]
      BY <2>1 DEF Return, a
    <3>4. EndsWith(f, a.next, a.status)
      BY <2>0, <2>1, <3>0, <3>1, <3>3 DEF EndsWith, Return
    <3>. QED
      BY <3>1, <3>2, <3>4
  <2>2. CASE LineReturn(f) /\ protocol = "lines"
    <3> DEFINE a == LineAfter(f, conn[f] = "eof", code[f])
    <3>0. conn[f] # "eof" => code[f] # 200
      BY <2>0 DEF IInv, CodeInv
    <3>1. /\ pc[f] = "monitor" => a.next = "exit" /\ a.status = status[f]
          /\ pc[f] # "monitor" => a.next \in Service
      BY <2>0, <3>0, LineAfterAccept
    <3>2. a.status \in Status
      BY <2>0 DEF LineAfter, LineAfterRegistry, LineAfterVault, LineAfterRunner, Go,
                  Report, Status
    <3>3. a.next \in Service \union {"exit"}
      BY <3>1
    <3> HIDE DEF a
    <3>4. /\ pc' = [pc EXCEPT ![f] = a.next]
          /\ status' = [status EXCEPT ![f] = a.status]
      BY <2>2 DEF LineReturn, a
    <3>5. EndsWith(f, a.next, a.status)
      BY <2>0, <2>2, <3>1, <3>4 DEF EndsWith, LineReturn
    <3>. QED
      BY <3>2, <3>3, <3>5
  <2>. QED
    BY <1>1, <2>1, <2>2
<1>2. ASSUME NEW s \in Service, ReadEof(s)
      PROVE  Quietly(s)
  BY <1>2 DEF ReadEof, Answer, Quietly, memory
<1>3. CASE Resolve \/ LineResolve
  BY <1>3 DEF Resolve, LineResolve, HasRequest, Answer, Quietly, memory, Service
<1>4. CASE GetSecret \/ LineGetSecret
  BY <1>4 DEF GetSecret, LineGetSecret, HasRequest, Answer, Quietly, memory, Service
<1>5. CASE RunJob \/ LineRunJob
  BY <1>5 DEF RunJob, LineRunJob, HasRequest, Answer, Quietly, Service
<1>6. ASSUME NEW s \in Service, SendHeader(s) \/ SendBody(s) \/ SendLine(s)
      PROVE  Sends(s)
  BY <1>6 DEF SendHeader, SendBody, SendLine, Sends
<1>7. ASSUME NEW s \in Service, Down(s) \/ LineDown(s)
      PROVE  Ends(s)
  <2>1. \A f \in Flow : conn'[f] = conn[f] \/ conn'[f] \in {"eof", "reset"}
    BY <1>7 DEF Down, LineDown
  <2>. QED
    BY <1>7, <2>1 DEF Down, LineDown, Ends
<1>8. CASE protocol = "http" /\ Next
  BY <1>1, <1>2, <1>3, <1>4, <1>5, <1>6, <1>7, <1>8, EventIsHeard
     DEF Next, GatewayStep, ServerStep, Handle, Stop, SigPipe, Service
<1>9. CASE protocol = "lines" /\ LineNext
  BY <1>1, <1>2, <1>3, <1>4, <1>5, <1>6, <1>7, <1>9, EventIsHeard
     DEF LineNext, LineGatewayStep, LineServerStep, LineHandle, LineStop, Service
<1>. QED
  BY <1>8, <1>9 DEF StackNext, stackVars

-----------------------------------------------------------------------------

\* The steps that leave alone what the gateways report and what the monitor
\* has counted.
Aside ==
  /\ UNCHANGED <<pc, status, monitor, counted, stops>>
  /\ \/ \E f \in Flow : Connect(f) \/ Refused(f) \/ Send(f)
     \/ \E s \in Service : Accept(s) \/ Quietly(s) \/ Sends(s) \/ Restart(s)
     \/ UNCHANGED vars

\* Every step is one of these, or a kill, an event, the end of a call or of a
\* server.
LEMMA AsideCases ==
  ASSUME TypeOK, IInv, [StackNext]_stackVars
  PROVE  \/ Aside
         \/ \E f \in Flow : \/ Kill(f) \/ Hears(f)
                            \/ \E n \in Service \union {"exit"}, st \in Status :
                                 EndsWith(f, n, st)
         \/ \E s \in Service : Ends(s)
<1>1. ASSUME NEW f \in Flow, Connect(f) \/ Refused(f) \/ Send(f) PROVE Aside
  BY <1>1 DEF Aside, Connect, Refused, Send, memory
<1>2. ASSUME NEW s \in Service, Accept(s) \/ Quietly(s) \/ Sends(s) \/ Restart(s)
      PROVE  Aside
  BY <1>2 DEF Aside, Accept, Quietly, Sends, Restart, gateways, memory
<1>3. CASE UNCHANGED vars
  BY <1>3 DEF Aside, vars, gateways, memory
<1>. QED
  BY <1>1, <1>2, <1>3, StackCases

\* What the gateways report stays in the vocabulary of their protocol.
LEMMA ReportedStep ==
  ASSUME TypeOK, IInv, ReportedInv, [StackNext]_stackVars
  PROVE  ReportedInv'
<1>0. protocol' = protocol
  BY DEF StackNext, stackVars
<1>1. CASE UNCHANGED <<pc, status>>
  BY <1>0, <1>1 DEF ReportedInv
<1>2. ASSUME NEW f \in Flow, Kill(f) PROVE ReportedInv'
  BY <1>0, <1>2 DEF ReportedInv, Kill, TypeOK
<1>3. ASSUME NEW f \in Flow, NEW n \in Service \union {"exit"}, NEW st \in Status,
             EndsWith(f, n, st)
      PROVE  ReportedInv'
  BY <1>0, <1>3 DEF ReportedInv, EndsWith, TypeOK
<1>. QED
  BY <1>1, <1>2, <1>3, AsideCases DEF Aside, Hears, Ends, gateways

\* While no server has stopped, who has exited was counted.
LEMMA HeardStep ==
  ASSUME TypeOK, IInv, ReportedInv, HeardInv, [StackNext]_stackVars
  PROVE  HeardInv'
<1> SUFFICES ASSUME stops' = 0 PROVE HeardInv'
  BY DEF HeardInv
<1>1. ASSUME NEW s \in Service, Ends(s) PROVE FALSE
  BY <1>1 DEF Ends, TypeOK
<1>2. stops = 0
  BY <1>1, AsideCases DEF Aside, Kill, Hears, EndsWith
<1> USE <1>2 DEF HeardInv
<1>3. ASSUME NEW f \in Flow, Connect(f) \/ Refused(f) \/ Send(f) PROVE HeardInv'
  BY <1>3 DEF Connect, Refused, Send, TypeOK, servers, memory, Running
<1>4. ASSUME NEW f \in Flow, Kill(f) PROVE HeardInv'
  BY <1>4 DEF Kill, TypeOK, servers, memory
<1>5. ASSUME NEW f \in Flow, Hears(f) PROVE HeardInv'
  <2>1. counted \subseteq counted' /\ (pc[f] = "monitor" => f \in counted')
    BY <1>5 DEF Hears, ReportedInv
  <2>. QED
    BY <1>5, <2>1 DEF Hears, TypeOK, gateways, Service
<1>6. ASSUME NEW f \in Flow, NEW n \in Service \union {"exit"}, NEW st \in Status,
             EndsWith(f, n, st)
      PROVE  HeardInv'
  <2>1. pc[f] = "monitor" => f \in counted
    BY <1>6 DEF EndsWith
  <2>2. n = "exit" => f \in counted
    BY <1>6, <2>1 DEF EndsWith, Service
  <2>3. serving["monitor"] # f \/ stage["monitor"] = "idle"
    BY <1>6 DEF EndsWith, IInv, ServedInv, Waiting, Service
  <2>. QED
    BY <1>6, <2>2, <2>3 DEF EndsWith, TypeOK, servers, memory
<1>7. ASSUME NEW s \in Service, Accept(s) PROVE HeardInv'
  BY <1>7 DEF Accept, TypeOK, gateways, memory, Service
<1>8. ASSUME NEW s \in Service, Quietly(s) PROVE HeardInv'
  BY <1>8 DEF Quietly, TypeOK, gateways, Running, Service
<1>9. ASSUME NEW s \in Service, Sends(s) PROVE HeardInv'
  <2>1. pc[serving[s]] \in {s, "killed"} /\ serving[s] \in Flow
    BY <1>9 DEF Sends, IInv, ServedInv
  <2>. QED
    BY <1>9, <2>1 DEF Sends, TypeOK, memory, Running, Service
<1>10. ASSUME NEW s \in Service, Restart(s) PROVE HeardInv'
  BY <1>10 DEF Restart, TypeOK, gateways, memory
<1>11. CASE UNCHANGED vars
  BY <1>11 DEF vars, gateways, servers, memory
<1>. QED
  BY <1>1, <1>3, <1>4, <1>5, <1>6, <1>7, <1>8, <1>9, <1>10, <1>11, StackCases

\* The connections that wait for the monitor stay where they are.
LEMMA UnheardStays ==
  ASSUME OnceInv, UNCHANGED <<backlog, serving, counted>>
  PROVE  \A i \in 1 .. Len(backlog'["monitor"]) : Unheard(i)'
BY DEF OnceInv, Unheard

\* The monitor hears of a flow only once.
LEMMA OnceStep ==
  ASSUME TypeOK, IInv, OnceInv, [StackNext]_stackVars
  PROVE  OnceInv'
<1>0. Nobody \notin Flow
  BY FlowAssumption
<1>1. ASSUME NEW s \in Service, Ends(s) PROVE OnceInv'
  <2>1. CASE s = "monitor"
    <3>1. /\ counted' = {} /\ stage'["monitor"] = "idle"
          /\ backlog'["monitor"] = <<>>
      BY <1>1, <2>1 DEF Ends, TypeOK
    <3>2. 1 .. Len(backlog'["monitor"]) = {}
      BY <3>1
    <3>. QED
      BY <3>1, <3>2 DEF OnceInv
  <2>2. CASE s # "monitor"
    <3>1. /\ counted' = counted /\ pc' = pc
          /\ backlog'["monitor"] = backlog["monitor"]
          /\ serving'["monitor"] = serving["monitor"]
          /\ stage'["monitor"] = stage["monitor"]
          /\ \A f \in Flow : conn'[f] = "none" => conn[f] = "none"
      BY <1>1, <2>2 DEF Ends, TypeOK, Service
    <3>. QED
      BY <3>1 DEF OnceInv, Unheard
  <2>. QED
    BY <2>1, <2>2
<1>2. ASSUME NEW f \in Flow, Refused(f) \/ Send(f) \/ Kill(f) PROVE OnceInv'
  <2>1. /\ UNCHANGED <<backlog, serving, stage, counted>>
        /\ \A g \in Flow : /\ pc'[g] \in {pc[g], "killed"}
                           /\ conn'[g] = "none" => conn[g] = "none"
    BY <1>2 DEF Refused, Send, Kill, servers, memory, TypeOK
  <2>. QED
    BY <2>1, UnheardStays DEF OnceInv, TypeOK
<1>3. ASSUME NEW f \in Flow, Connect(f) PROVE OnceInv'
  <2>1. CASE pc[f] # "monitor"
    <3>1. /\ UNCHANGED <<pc, serving, stage, counted>>
          /\ backlog'["monitor"] = backlog["monitor"]
          /\ \A g \in Flow : conn'[g] = "none" => conn[g] = "none"
      BY <1>3, <2>1 DEF Connect, memory, TypeOK, Running, Service
    <3>. QED
      BY <3>1 DEF OnceInv, Unheard
  <2>2. CASE pc[f] = "monitor"
    <3> DEFINE b == backlog["monitor"]
    <3>1. /\ UNCHANGED <<pc, serving, stage, counted>>
          /\ backlog'["monitor"] = Append(b, f)
          /\ \A g \in Flow : conn'[g] = "none" => conn[g] = "none"
      BY <1>3, <2>2 DEF Connect, memory, TypeOK, Service
    <3>2. f \notin counted /\ conn[f] = "none"
      BY <1>3, <2>2 DEF Connect, OnceInv
    <3>3. serving["monitor"] # f
      BY <1>0, <2>2, <3>2 DEF IInv, ServedInv, Waiting, Service
    <3>4. \A i \in 1 .. Len(b) : b[i] # f
      BY <2>2, <3>2 DEF IInv, QueuedInv, InPlace, Waiting, Service
    <3>5. b \in Seq(Flow)
      BY DEF TypeOK, Service
    <3>6. \A i \in 1 .. Len(b) : Unheard(i)
      BY DEF OnceInv
    <3>7. ASSUME NEW i \in 1 .. Len(backlog'["monitor"]) PROVE Unheard(i)'
      <4> DEFINE c == backlog'["monitor"]
      <4>1. /\ Len(c) = Len(b) + 1 /\ c[Len(b) + 1] = f /\ Len(b) \in Nat
            /\ \A j \in 1 .. Len(b) : c[j] = b[j]
        BY <3>1, <3>5
      <4>2. \A k \in 1 .. Len(c) : k \in 1 .. Len(b) \/ k = Len(b) + 1
        BY <4>1
      <4>3. c[i] \notin counted' /\ c[i] # serving'["monitor"]
        BY <3>1, <3>2, <3>3, <3>6, <4>1, <4>2 DEF Unheard
      <4>4. ASSUME NEW j \in 1 .. Len(c), j # i PROVE c[j] # c[i]
        BY <3>4, <3>6, <4>1, <4>2, <4>4 DEF Unheard
      <4>. QED
        BY <4>3, <4>4 DEF Unheard
    <3>. QED
      BY <3>1, <3>7 DEF OnceInv
  <2>. QED
    BY <2>1, <2>2
<1>4. ASSUME NEW f \in Flow, NEW n \in Service \union {"exit"}, NEW st \in Status,
             EndsWith(f, n, st)
      PROVE  OnceInv'
  <2>1. UNCHANGED <<backlog, serving, stage, counted>>
    BY <1>4 DEF EndsWith, servers, memory
  <2>2. /\ \A g \in counted : pc'[g] \in {"monitor", "exit", "killed"}
        /\ \A g \in Flow : pc'[g] = "monitor" /\ conn'[g] = "none" => g \notin counted
    <3>1. ASSUME NEW g \in Flow, g # f PROVE pc'[g] = pc[g] /\ conn'[g] = conn[g]
      BY <1>4, <3>1 DEF EndsWith, TypeOK
    <3>2. pc'[f] = n /\ pc[f] \in Service /\ (pc[f] = "monitor" => n = "exit")
      BY <1>4 DEF EndsWith, TypeOK
    <3>3. f \in counted => pc[f] = "monitor"
      BY <3>2 DEF OnceInv, Service
    <3>4. \A g \in counted : g \in Flow
      BY DEF TypeOK
    <3>. QED
      BY <3>1, <3>2, <3>3, <3>4 DEF OnceInv
  <2>. QED
    BY <2>1, <2>2, UnheardStays DEF OnceInv
<1>5. ASSUME NEW f \in Flow, Hears(f) PROVE OnceInv'
  <2>1. /\ UNCHANGED <<pc, conn, backlog, serving>> /\ stage'["monitor"] = "header"
        /\ counted' \in {counted, counted \union {f}}
        /\ f = serving["monitor"] /\ stage["monitor"] = "read" /\ conn[f] = "sent"
    BY <1>5 DEF Hears, HasRequest, gateways, TypeOK, Service
  <2>2. pc[f] \in {"monitor", "killed"}
    BY <2>1 DEF IInv, ServedInv, Service
  <2>3. \A i \in 1 .. Len(backlog'["monitor"]) : Unheard(i)'
    BY <2>1 DEF OnceInv, Unheard
  <2>. QED
    BY <2>1, <2>2, <2>3 DEF OnceInv
<1>6. ASSUME NEW s \in Service, Accept(s) PROVE OnceInv'
  <2>1. CASE s # "monitor"
    <3>1. /\ UNCHANGED <<pc, conn, counted>>
          /\ backlog'["monitor"] = backlog["monitor"]
          /\ serving'["monitor"] = serving["monitor"]
          /\ stage'["monitor"] = stage["monitor"]
      BY <1>6, <2>1 DEF Accept, gateways, memory, TypeOK, Service
    <3>. QED
      BY <3>1 DEF OnceInv, Unheard
  <2>2. CASE s = "monitor"
    <3> DEFINE b == backlog["monitor"]
    <3>1. /\ UNCHANGED <<pc, conn, counted>>
          /\ backlog'["monitor"] = Tail(b) /\ b # <<>>
          /\ serving'["monitor"] = b[1] /\ b \in Seq(Flow)
      BY <1>6, <2>2 DEF Accept, gateways, memory, TypeOK, Service
    <3>2. /\ Len(b) \in Nat /\ Len(b) > 0 /\ Len(Tail(b)) = Len(b) - 1
          /\ \A i \in 1 .. Len(Tail(b)) : Tail(b)[i] = b[i + 1]
      BY <3>1
    <3>3. \A i \in 1 .. Len(b) : Unheard(i)
      BY DEF OnceInv
    <3>4. 1 \in 1 .. Len(b) /\ \A i \in 1 .. Len(Tail(b)) : i + 1 \in 1 .. Len(b)
      BY <3>2
    <3>5. ASSUME NEW i \in 1 .. Len(backlog'["monitor"]) PROVE Unheard(i)'
      <4>1. i \in 1 .. Len(Tail(b)) /\ i + 1 \in 1 .. Len(b) /\ i + 1 # 1
        BY <3>1, <3>4
      <4>2. b[i + 1] \notin counted /\ b[i + 1] # b[1]
        BY <3>3, <3>4, <4>1 DEF Unheard
      <4>3. ASSUME NEW j \in 1 .. Len(Tail(b)), j # i PROVE b[j + 1] # b[i + 1]
        <5>1. j + 1 # i + 1 /\ j + 1 \in 1 .. Len(b)
          BY <3>4, <4>3
        <5>. QED
          BY <3>3, <4>1, <5>1 DEF Unheard
      <4>. QED
        BY <3>1, <3>2, <4>1, <4>2, <4>3 DEF Unheard
    <3>6. b[1] \notin counted
      BY <3>3, <3>4 DEF Unheard
    <3>. QED
      BY <3>1, <3>5, <3>6 DEF OnceInv
  <2>. QED
    BY <2>1, <2>2
<1>7. ASSUME NEW s \in Service, Quietly(s) PROVE OnceInv'
  <2>1. /\ UNCHANGED <<pc, conn, backlog, serving, counted>>
        /\ stage'["monitor"] = "read" => stage["monitor"] = "read"
    BY <1>7 DEF Quietly, gateways, TypeOK
  <2>. QED
    BY <2>1, UnheardStays DEF OnceInv
<1>8. ASSUME NEW s \in Service, Sends(s) PROVE OnceInv'
  <2>1. /\ UNCHANGED <<pc, backlog, counted>>
        /\ \A g \in Flow : conn'[g] = "none" => conn[g] = "none"
        /\ serving'["monitor"] \in {serving["monitor"], Nobody}
        /\ stage'["monitor"] = "read" =>
             stage["monitor"] = "read" /\ serving'["monitor"] = serving["monitor"]
    BY <1>8 DEF Sends, memory, TypeOK, Service
  <2>2. \A i \in 1 .. Len(backlog["monitor"]) : backlog["monitor"][i] \in Flow
    BY DEF TypeOK, Service
  <2>3. \A i \in 1 .. Len(backlog'["monitor"]) : Unheard(i)'
    BY <1>0, <2>1, <2>2 DEF OnceInv, Unheard
  <2>. QED
    BY <2>1, <2>3 DEF OnceInv
<1>9. ASSUME NEW s \in Service, Restart(s) PROVE OnceInv'
  BY <1>9 DEF Restart, gateways, memory, OnceInv, Unheard
<1>10. CASE UNCHANGED vars
  BY <1>10 DEF vars, gateways, servers, memory, OnceInv, Unheard
<1>. QED
  BY <1>1, <1>2, <1>3, <1>4, <1>5, <1>6, <1>7, <1>8, <1>9, <1>10, StackCases

\* The counters agree with the flows that were heard.
LEMMA CountsStep ==
  ASSUME TypeOK, IInv, ReportedInv, OnceInv, CountsInv, [StackNext]_stackVars
  PROVE  CountsInv'
<1>1. CASE UNCHANGED <<monitor, counted, status>>
  BY <1>1 DEF CountsInv, Failed
<1>2. ASSUME NEW f \in Flow, Kill(f) PROVE CountsInv'
  BY <1>1, <1>2 DEF Kill, memory
<1>3. ASSUME NEW f \in Flow, NEW n \in Service \union {"exit"}, NEW st \in Status,
             EndsWith(f, n, st)
      PROVE  CountsInv'
  <2>1. \A g \in counted : status'[g] = status[g]
    <3>1. f \in counted => st = status[f]
      BY <1>3 DEF EndsWith, OnceInv, Service
    <3>2. \A g \in counted : g \in Flow
      BY DEF TypeOK
    <3>. QED
      BY <1>3, <3>1, <3>2 DEF EndsWith, TypeOK
  <2>2. monitor' = monitor /\ counted' = counted
    BY <1>3 DEF EndsWith, memory
  <2>3. Failed' = Failed
    BY <2>1, <2>2 DEF Failed
  <2>. QED
    BY <2>2, <2>3 DEF CountsInv
<1>4. ASSUME NEW s \in Service, Ends(s) PROVE CountsInv'
  <2>1. CASE s = "monitor"
    <3>1. /\ counted' = {} /\ monitor'.total = 0 /\ monitor'.errors = 0
          /\ monitor'.retries = 0
      BY <1>4, <2>1 DEF Ends, FreshMonitor
    <3>2. Failed' = {}
      BY <3>1 DEF Failed
    <3>. QED
      BY <3>1, <3>2, FS_EmptySet DEF CountsInv
  <2>2. CASE s # "monitor"
    BY <1>1, <1>4, <2>2 DEF Ends
  <2>. QED
    BY <2>1, <2>2
<1>5. ASSUME NEW f \in Flow, Hears(f) PROVE CountsInv'
  <2>1. status' = status /\ f \notin counted
    BY <1>5 DEF Hears, gateways, HasRequest, OnceInv
  <2>2. CASE UNCHANGED <<monitor, counted>>
    BY <1>1, <2>1, <2>2
  <2>3. CASE /\ counted' = counted \union {f}
             /\ monitor'.total = monitor.total + 1
             /\ monitor'.errors =
                  monitor.errors + (IF status[f] \in {"ROUTED", "ACCEPT"} THEN 0 ELSE 1)
             /\ monitor'.retries = monitor.retries
    <3>1. /\ IsFiniteSet(counted') /\ Cardinality(counted') = Cardinality(counted) + 1
      BY <2>1, <2>3, FS_AddElement DEF CountsInv
    <3>2. IsFiniteSet(Failed) /\ f \notin Failed
      BY <2>1, FS_Subset DEF CountsInv, Failed
    <3>3. CASE status[f] \in {"ROUTED", "ACCEPT"}
      <4>1. Failed' = Failed
        BY <2>1, <2>3, <3>3 DEF Failed
      <4>2. monitor'.errors = monitor.errors + 0
        BY <2>3, <3>3
      <4>3. monitor.errors \in Nat
        BY DEF TypeOK, MonitorMemory
      <4>. QED
        BY <2>3, <3>1, <4>1, <4>2, <4>3 DEF CountsInv
    <3>4. CASE status[f] \notin {"ROUTED", "ACCEPT"}
      <4>1. Failed' = Failed \union {f}
        BY <2>1, <2>3, <3>4 DEF Failed
      <4>2. Cardinality(Failed') = Cardinality(Failed) + 1
        BY <3>2, <4>1, FS_AddElement
      <4>3. monitor'.errors = monitor.errors + 1
        BY <2>3, <3>4
      <4>. QED
        BY <2>3, <3>1, <4>2, <4>3 DEF CountsInv
    <3>. QED
      BY <3>3, <3>4
  <2>. QED
    BY <1>5, <2>2, <2>3 DEF Hears
<1>. QED
  BY <1>1, <1>2, <1>3, <1>4, <1>5, AsideCases DEF Aside

\* What the monitor has counted, in every reachable state of either stack.
THEOREM MonitorInvariant == StackSpec => []CInv
<1>1. StackInit => CInv
  <2> SUFFICES ASSUME StackInit PROVE CInv
    OBVIOUS
  <2>1. /\ pc = [f \in Flow |-> "registry"] /\ conn = [f \in Flow |-> "none"]
        /\ up = [s \in Service |-> TRUE] /\ backlog = [s \in Service |-> <<>>]
        /\ stage = [s \in Service |-> "idle"] /\ monitor = FreshMonitor
        /\ counted = {} /\ stops = 0
    BY DEF StackInit, Init
  <2>2. ReportedInv /\ HeardInv
    BY <2>1 DEF ReportedInv, HeardInv, Service
  <2>3. OnceInv
    <3>1. 1 .. Len(backlog["monitor"]) = {}
      BY <2>1 DEF Service
    <3>. QED
      BY <2>1, <3>1 DEF OnceInv, Service
  <2>4. CountsInv
    <3>1. Failed = {}
      BY <2>1 DEF Failed
    <3>. QED
      BY <2>1, <3>1, FS_EmptySet DEF CountsInv, FreshMonitor
  <2>. QED
    BY <2>2, <2>3, <2>4 DEF CInv
<1>2. TypeOK /\ IInv /\ CInv /\ [StackNext]_stackVars => CInv'
  BY ReportedStep, HeardStep, OnceStep, CountsStep DEF CInv
<1>. QED
  BY <1>1, <1>2, MiniCloudTypeCorrect, MiniCloudInvariant, PTL DEF StackSpec

\* While no server has stopped, the monitor has counted every flow whose
\* gateway has exited.
THEOREM ExitIsCounted == StackSpec => []ExitMeansCounted
<1>1. CInv => ExitMeansCounted
  BY DEF CInv, HeardInv, ExitMeansCounted
<1>. QED
  BY <1>1, MonitorInvariant, PTL

\* The monitor's counters are those of the flows it has heard of, each once.
THEOREM MonitorIsRight == StackSpec => []MonitorMatchesFlows
<1>1. CInv => MonitorMatchesFlows
  BY DEF CInv, CountsInv, Failed, MonitorMatchesFlows
<1>. QED
  BY <1>1, MonitorInvariant, PTL

-----------------------------------------------------------------------------
(* Who is told of a refusal, while no server has stopped.                  *)

\* What a server that has read the request of f may answer.
Replies(s, f) ==
  CASE s = "registry" -> {StatusOfRoute(LineRoute[f])}
    [] s = "vault" -> {LineSecret[f]}
    [] s = "runner" -> {200, 400, 409}
    [] OTHER -> Codes \ {0}

\* Every call ends with the answer of its server.
AnsweredInv ==
  stops = 0 =>
    /\ \A s \in Service :
         stage[s] \in {"header", "body"} /\ pc[serving[s]] = s =>
           answer[s] \in Replies(s, serving[s])
    /\ \A f \in Flow : Running(f) /\ conn[f] = "eof" => code[f] # 0
    /\ \A f \in Flow : Running(f) /\ code[f] # 0 => code[f] \in Replies(pc[f], f)

\* The flows that were refused by the runner and live to know it.
Told(f) ==
  /\ serving["runner"] = f /\ stage["runner"] \in {"header", "body"}
  /\ answer["runner"] # 200

Refusals ==
  {f \in Flow : \/ status[f] = "REJECT"
                \/ pc[f] = "runner" /\ (code[f] \notin {0, 200} \/ Told(f))}

RefusalsInv ==
  stops = 0 => IsFiniteSet(Refusals) /\ Cardinality(Refusals) <= runner.rejected

MissingInv ==
  stops = 0 =>
    \A f \in Flow :
      /\ status[f] = "ROUTE_NOT_FOUND" => LineRoute[f] = NoRoute
      /\ status[f] = "SECRET_UNAVAILABLE" => LineSecret[f] = 404
      /\ status[f] \notin {"registry_unreachable", "RUNNER_UNREACHABLE"}

DInv == AnsweredInv /\ RefusalsInv /\ MissingInv

\* The steps of both stacks, by what they do to the answers on their way.
\* A server makes its answer c.
Answers(s, c) ==
  /\ stage[s] = "read"
  /\ answer' = [answer EXCEPT ![s] = c]
  /\ stage' = [stage EXCEPT ![s] = "header"]
  /\ UNCHANGED <<gateways, serving, stops>>
  /\ Running(serving[s]) => c \in Replies(s, serving[s])
  /\ runner'.rejected \in {runner.rejected, runner.rejected + 1}
  /\ s = "runner" /\ Running(serving[s]) /\ c # 200 =>
       runner'.rejected = runner.rejected + 1

\* A step that brings no answer further.
Idles ==
  /\ UNCHANGED <<pc, status, code, answer, runner, stops>>
  /\ \A f \in Flow : conn'[f] = "eof" => conn[f] = "eof"
  /\ \A s \in Service : stage'[s] \in {"header", "body"} =>
                          stage'[s] = stage[s] /\ serving'[s] = serving[s]

\* A call of f returns, and a is what the gateway does then.
Returns(f, a) ==
  /\ Running(f) /\ conn[f] \in {"eof", "reset"}
  /\ a \in {After(f, code[f], body[f]), LineAfter(f, conn[f] = "eof", code[f])}
  /\ pc' = [pc EXCEPT ![f] = a.next]
  /\ status' = [status EXCEPT ![f] = a.status]
  /\ conn' = [conn EXCEPT ![f] = "none"]
  /\ code' = [code EXCEPT ![f] = 0]
  /\ UNCHANGED <<servers, memory, stops>>

\* What a request does to the runner's count of refusals.
LEMMA RefusalIsCounted ==
  ASSUME NEW m \in RunnerMemory, NEW q
  PROVE  AfterRun(m, q).rejected =
           m.rejected + (IF Verdict(m, q) = "accept" THEN 0 ELSE 1)
<1>1. m.rejected \in Nat
  BY DEF RunnerMemory
<1>2. CASE Verdict(m, q) = "accept"
  <2>1. AfterRun(m, q).rejected = m.rejected
    BY <1>2 DEF AfterRun, Book, RunnerMemory
  <2>. QED
    BY <1>1, <1>2, <2>1
<1>3. CASE Verdict(m, q) # "accept"
  <2>1. AfterRun(m, q).rejected = m.rejected + 1
    BY <1>3 DEF AfterRun, RunnerMemory
  <2>. QED
    BY <1>3, <2>1
<1>. QED
  BY <1>2, <1>3

\* Every handler makes an answer of its server.
LEMMA HandlersAnswer ==
  ASSUME TypeOK, IInv, Handle \/ LineHandle
  PROVE  \E s \in Service, c \in Codes : Answers(s, c)
<1> USE DEF Service
<1>0. ASSUME NEW s \in Service, HasRequest(s), NEW c \in Codes, Answer(s, c),
             c \in Replies(s, serving[s]), s # "runner", runner' = runner
      PROVE  Answers(s, c)
  BY <1>0 DEF HasRequest, Answer, Answers
<1>1. CASE Resolve \/ LineResolve
  <2> DEFINE c == StatusOfRoute(LineRoute[serving["registry"]])
  <2>1. HasRequest("registry") /\ serving["registry"] \in Flow /\ runner' = runner
    BY <1>1 DEF Resolve, LineResolve, HasRequest, memory
  <2>2. RouteOf(serving["registry"]) = LineRoute[serving["registry"]]
    BY <2>1 DEF RouteOf, Route, LineRoute
  <2>3. Answer("registry", c)
    BY <1>1, <2>2 DEF Resolve, LineResolve
  <2>4. c \in Codes /\ c \in Replies("registry", serving["registry"])
    BY AnswerCodes DEF Replies
  <2> HIDE DEF c
  <2>. QED
    BY <1>0, <2>1, <2>3, <2>4
<1>2. CASE GetSecret \/ LineGetSecret
  <2> DEFINE c == LineSecret[serving["vault"]]
  <2>1. HasRequest("vault") /\ serving["vault"] \in Flow /\ runner' = runner
    BY <1>2 DEF GetSecret, LineGetSecret, HasRequest, memory
  <2>2. Answer("vault", c)
    BY <1>2, <2>1 DEF GetSecret, LineGetSecret, SecretStatus, LineSecret
  <2>3. c \in Codes /\ c \in Replies("vault", serving["vault"])
    BY <2>1, AnswerCodes DEF Replies, LineSecret
  <2> HIDE DEF c
  <2>. QED
    BY <1>0, <2>1, <2>2, <2>3
<1>3. ASSUME NEW q, \/ RunJob /\ q = Config[serving["runner"]].run
                    \/ LineRunJob /\ q = AnyName(Config[serving["runner"]].run)
      PROVE  \E c \in Codes : Answers("runner", c)
  <2> DEFINE c == StatusOfVerdict(Verdict(runner, q))
  <2>1. /\ HasRequest("runner") /\ runner' = AfterRun(runner, q)
        /\ Answer("runner", c)
    BY <1>3 DEF RunJob, LineRunJob
  <2>2. runner'.rejected =
          runner.rejected + (IF Verdict(runner, q) = "accept" THEN 0 ELSE 1)
    BY <2>1, RefusalIsCounted DEF TypeOK
  <2>3. runner.rejected \in Nat
    BY DEF TypeOK, RunnerMemory
  <2>4. /\ c \in Codes /\ c \in Replies("runner", serving["runner"])
        /\ c # 200 => Verdict(runner, q) # "accept"
    BY DEF StatusOfVerdict, Codes, Replies
  <2> HIDE DEF c
  <2>5. Answers("runner", c)
    BY <2>1, <2>2, <2>3, <2>4 DEF HasRequest, Answer, Answers
  <2>. QED
    BY <2>4, <2>5
<1>4. CASE TakeEvent \/ LineTakeEvent
  <2>1. HasRequest("monitor") /\ runner' = runner
    BY <1>4 DEF TakeEvent, LineTakeEvent
  <2>2. \E c \in {202, 400, 200} : Answer("monitor", c)
    BY <1>4 DEF TakeEvent, LineTakeEvent, EventStatus
  <2>3. \A c \in {202, 400, 200} : c \in Codes /\ c \in Replies("monitor", serving["monitor"])
    BY DEF Codes, Replies
  <2>. QED
    BY <1>0, <2>1, <2>2, <2>3
<1>. QED
  BY <1>1, <1>2, <1>3, <1>4 DEF Handle, LineHandle

\* Every step is one of these, or a kill, a send or the end of a server.
LEMMA AnswerCases ==
  ASSUME TypeOK, IInv, [StackNext]_stackVars
  PROVE  \/ Idles
         \/ \E f \in Flow : Kill(f) \/ \E a : Returns(f, a)
         \/ \E s \in Service, c \in Codes : Answers(s, c)
         \/ \E s \in Service : \/ SendHeader(s) \/ SendBody(s) \/ SendLine(s)
                               \/ stops' = stops + 1
<1>1. ASSUME NEW f \in Flow, Connect(f) \/ Refused(f) \/ Send(f) PROVE Idles
  BY <1>1 DEF Connect, Refused, Send, Idles, servers, memory, TypeOK
<1>2. ASSUME NEW f \in Flow, Return(f) \/ LineReturn(f) PROVE \E a : Returns(f, a)
  <2>1. CASE Return(f)
    <3>1. Returns(f, After(f, code[f], body[f]))
      BY <2>1 DEF Return, Returns
    <3>. QED
      BY <3>1
  <2>2. CASE LineReturn(f)
    <3>1. Returns(f, LineAfter(f, conn[f] = "eof", code[f]))
      BY <2>2 DEF LineReturn, Returns
    <3>. QED
      BY <3>1
  <2>. QED
    BY <1>2, <2>1, <2>2
<1>3. ASSUME NEW s \in Service, Accept(s) PROVE Idles
  BY <1>3 DEF Accept, Idles, gateways, memory, TypeOK
<1>4. ASSUME NEW s \in Service, ReadEof(s) PROVE Answers(s, 400)
  <2>1. runner.rejected \in Nat
    BY DEF TypeOK, RunnerMemory
  <2>. QED
    BY <1>4, <2>1 DEF ReadEof, Answer, Answers, memory
<1>5. ASSUME NEW s \in Service, Restart(s) PROVE Idles
  BY <1>5 DEF Restart, Idles, gateways, memory
<1>6. ASSUME NEW s \in Service, Down(s) \/ LineDown(s) PROVE stops' = stops + 1
  BY <1>6 DEF Down, LineDown
<1>7. CASE UNCHANGED vars
  BY <1>7 DEF Idles, vars, gateways, servers, memory
<1>8. 400 \in Codes
  BY DEF Codes
<1>9. CASE Next
  BY <1>1, <1>2, <1>3, <1>4, <1>5, <1>6, <1>7, <1>8, <1>9, HandlersAnswer
     DEF Next, GatewayStep, ServerStep, Stop, SigPipe
<1>10. CASE LineNext
  BY <1>1, <1>2, <1>3, <1>4, <1>5, <1>6, <1>7, <1>8, <1>10, HandlersAnswer
     DEF LineNext, LineGatewayStep, LineServerStep, LineStop
<1>. QED
  BY <1>7, <1>9, <1>10 DEF StackNext, stackVars

\* What a gateway prints when the answer of its server has come.
LEMMA ReportOfAnswer ==
  ASSUME TypeOK, AnsweredInv, MissingInv, stops = 0, NEW f \in Flow, Running(f), conn[f] = "eof",
         NEW a, a \in {After(f, code[f], body[f]), LineAfter(f, conn[f] = "eof", code[f])}
  PROVE  /\ a.status = "REJECT" =>
              status[f] = "REJECT" \/ (pc[f] = "runner" /\ code[f] \notin {0, 200})
         /\ a.status = "ROUTE_NOT_FOUND" => LineRoute[f] = NoRoute
         /\ a.status = "SECRET_UNAVAILABLE" => LineSecret[f] = 404
         /\ a.status \notin {"registry_unreachable", "RUNNER_UNREACHABLE"}
         /\ a.next # "runner" \/ pc[f] = "vault"
<1>1. code[f] # 0 /\ code[f] \in Replies(pc[f], f)
  BY DEF AnsweredInv
<1>2. CASE pc[f] = "registry"
  <2>1. code[f] = 200 \/ LineRoute[f] = NoRoute
    BY <1>1, <1>2 DEF Replies, StatusOfRoute
  <2>. QED
    BY <1>2, <2>1 DEF After, LineAfter, AfterRegistry, LineAfterRegistry, Go, Report
<1>3. CASE pc[f] = "vault"
  <2>1. code[f] = 200 \/ LineSecret[f] = 404
    BY <1>1, <1>3 DEF Replies, LineSecret, StatusOfSecret
  <2>. QED
    BY <1>3, <2>1 DEF After, LineAfter, AfterVault, LineAfterVault, Go, Report
<1>4. CASE pc[f] = "runner"
  BY <1>1, <1>4 DEF After, LineAfter, AfterRunner, LineAfterRunner, Go, Report
<1>5. CASE pc[f] = "monitor"
  BY <1>5 DEF After, LineAfter, MissingInv
<1>. QED
  BY <1>2, <1>3, <1>4, <1>5 DEF Running, Service

\* A server that sends an answer to a living gateway sends what it has made.
LEMMA SenderKnows ==
  ASSUME TypeOK, IInv, NEW s \in Service, stage[s] \in {"header", "body"}
  PROVE  /\ serving[s] \in Flow /\ Running(serving[s]) => pc[serving[s]] = s
         /\ serving[s] \in Flow
         /\ \A r \in Service : r # s /\ serving[r] = serving[s] /\ stage[r] # "idle" =>
              ~Running(serving[s])
BY DEF IInv, ServedInv, Running, Service

\* While no server has stopped, the answers that arrive are those of the servers.
LEMMA AnsweredStep ==
  ASSUME TypeOK, IInv, HeardInv, AnsweredInv, [StackNext]_stackVars
  PROVE  AnsweredInv'
<1> SUFFICES ASSUME stops' = 0 PROVE AnsweredInv'
  BY DEF AnsweredInv
<1>0. \A s, f : Replies(s, f)' = Replies(s, f)
  BY DEF Replies
<1>1. ASSUME stops = 0, Idles PROVE AnsweredInv'
  BY <1>0, <1>1 DEF Idles, AnsweredInv, Running
<1>2. ASSUME stops = 0, NEW f \in Flow, Kill(f) PROVE AnsweredInv'
  BY <1>0, <1>2 DEF Kill, AnsweredInv, Running, TypeOK, servers, Service
<1>3. ASSUME stops = 0, NEW f \in Flow, NEW a, Returns(f, a) PROVE AnsweredInv'
  <2>1. \A s \in Service : serving[s] = f => stage[s] = "idle"
    BY <1>3 DEF Returns, IInv, ServedInv, Waiting, Running, Service
  <2>2. UNCHANGED <<serving, stage, answer>>
    BY <1>3 DEF Returns, servers
  <2>3. \A g \in Flow \ {f} : pc'[g] = pc[g] /\ conn'[g] = conn[g] /\ code'[g] = code[g]
    BY <1>3 DEF Returns, TypeOK
  <2>4. conn'[f] = "none" /\ code'[f] = 0
    BY <1>3 DEF Returns, TypeOK
  <2>5. \A s \in Service : stage[s] # "idle" => serving[s] \in Flow \ {f}
    BY <2>1 DEF IInv, ServedInv
  <2>. QED
    BY <1>0, <1>3, <2>2, <2>3, <2>4, <2>5 DEF AnsweredInv, Running
<1>4. ASSUME stops = 0, NEW s \in Service, NEW c \in Codes, Answers(s, c)
      PROVE  AnsweredInv'
  BY <1>0, <1>4 DEF Answers, AnsweredInv, gateways, TypeOK, Running
<1>5. ASSUME stops = 0, NEW s \in Service, SendHeader(s) PROVE AnsweredInv'
  <2> DEFINE f == serving[s]
  <2>1. /\ f \in Flow /\ (Running(f) => pc[f] = s)
        /\ Running(f) => answer[s] \in Replies(s, f)
    BY <1>5, SenderKnows DEF SendHeader, AnsweredInv, Running
  <2>2. /\ UNCHANGED <<pc, conn, serving, answer>>
        /\ \A r \in Service : stage'[r] \in {"header", "body"} => stage[r] \in {"header", "body"}
    BY <1>5 DEF SendHeader, TypeOK
  <2>3. \A g \in Flow : code'[g] = IF g = f /\ Running(f) THEN answer[s] ELSE code[g]
    BY <1>5 DEF SendHeader, TypeOK
  <2>4. Running(f) => answer[s] # 0
    <3>1. f \in Flow => 0 \notin Replies(s, f)
      BY DEF Replies, LineSecret, StatusOfSecret, StatusOfRoute
    <3>. QED
      BY <2>1, <3>1
  <2> HIDE DEF f
  <2>. QED
    BY <1>0, <1>5, <2>1, <2>2, <2>3, <2>4 DEF AnsweredInv, Running
<1>6. ASSUME stops = 0, NEW s \in Service, SendBody(s) PROVE AnsweredInv'
  <2>1. Running(serving[s]) => code[serving[s]] # 0
    <3>1. 0 \notin Replies(s, serving[s])
      BY <1>6, SenderKnows DEF SendBody, Replies, LineSecret, StatusOfSecret, StatusOfRoute
    <3>. QED
      BY <1>6, <3>1, SenderKnows DEF SendBody, IInv, CodeInv, AnsweredInv
  <2>. QED
    BY <1>0, <1>6, <2>1, SenderKnows DEF SendBody, AnsweredInv, TypeOK, Running
<1>7. ASSUME stops = 0, NEW s \in Service, SendLine(s) PROVE AnsweredInv'
  <2>1. Running(serving[s]) => answer[s] # 0 /\ answer[s] \in Replies(s, serving[s])
    <3>1. 0 \notin Replies(s, serving[s])
      BY SenderKnows, <1>7 DEF Replies, LineSecret, StatusOfSecret, StatusOfRoute, Service, Codes, SendLine
    <3>. QED
      BY <1>7, <3>1, SenderKnows DEF SendLine, AnsweredInv
  <2> DEFINE f == serving[s]
  <2>2. f \in Flow /\ (Running(f) => pc[f] = s)
    BY <1>7, SenderKnows DEF SendLine
  <2>3. /\ pc' = pc /\ answer' = answer
        /\ \A r \in Service : stage'[r] \in {"header", "body"} =>
                               stage[r] \in {"header", "body"} /\ serving'[r] = serving[r]
    BY <1>7 DEF SendLine, TypeOK
  <2>4. \A g \in Flow : /\ code'[g] = IF g = f /\ Running(f) THEN answer[s] ELSE code[g]
                        /\ conn'[g] = IF g = f /\ Running(f) THEN "eof" ELSE conn[g]
    BY <1>7 DEF SendLine, TypeOK
  <2> HIDE DEF f
  <2>5. Running(f) => answer[s] # 0 /\ answer[s] \in Replies(s, f)
    BY <2>1 DEF f
  <2>. QED
    BY <1>0, <1>7, <2>2, <2>3, <2>4, <2>5 DEF AnsweredInv, Running
<1>8. CASE stops' = stops + 1
  BY <1>8 DEF TypeOK
<1>9. stops' # stops + 1 => stops' = stops
  BY AnswerCases DEF Idles, Kill, Returns, Answers, SendHeader, SendBody, SendLine
<1>. QED
  BY <1>1, <1>2, <1>3, <1>4, <1>5, <1>6, <1>7, <1>8, <1>9, AnswerCases

\* What the gateways print of a missing route, a missing secret or a server that
\* cannot be reached is true.
LEMMA MissingStep ==
  ASSUME TypeOK, IInv, HeardInv, AnsweredInv, MissingInv, [StackNext]_stackVars
  PROVE  MissingInv'
<1> SUFFICES ASSUME stops' = 0 PROVE MissingInv'
  BY DEF MissingInv
<1>1. ASSUME stops = 0, UNCHANGED status PROVE MissingInv'
  BY <1>1 DEF MissingInv
<1>2. ASSUME stops = 0, NEW f \in Flow, NEW a, Returns(f, a) PROVE MissingInv'
  <2>1. conn[f] = "eof"
    BY <1>2 DEF Returns, HeardInv
  <2>2. /\ a.status = "ROUTE_NOT_FOUND" => LineRoute[f] = NoRoute
        /\ a.status = "SECRET_UNAVAILABLE" => LineSecret[f] = 404
        /\ a.status \notin {"registry_unreachable", "RUNNER_UNREACHABLE"}
    BY <1>2, <2>1, ReportOfAnswer DEF Returns
  <2>3. \A g \in Flow : status'[g] = IF g = f THEN a.status ELSE status[g]
    BY <1>2 DEF Returns, TypeOK
  <2>. QED
    BY <1>2, <2>2, <2>3 DEF MissingInv
<1>3. CASE stops' = stops + 1
  BY <1>3 DEF TypeOK
<1>4. stops' # stops + 1 => stops' = stops
  BY AnswerCases DEF Idles, Kill, Returns, Answers, SendHeader, SendBody, SendLine
<1>5. \/ UNCHANGED status
      \/ \E f \in Flow : \E a : Returns(f, a)
      \/ stops' = stops + 1
  BY AnswerCases DEF Idles, Kill, Answers, SendHeader, SendBody, SendLine, gateways
<1>. QED
  BY <1>1, <1>2, <1>3, <1>4, <1>5

\* Each flow that was refused has been counted by the runner.
LEMMA RefusalsStep ==
  ASSUME TypeOK, IInv, HeardInv, AnsweredInv, MissingInv, RefusalsInv,
         [StackNext]_stackVars
  PROVE  RefusalsInv'
<1> SUFFICES ASSUME stops' = 0 PROVE RefusalsInv'
  BY DEF RefusalsInv
<1>1. runner.rejected \in Nat /\ runner'.rejected \in Nat
  <2>1. TypeOK'
    BY HttpKeepsType, LineKeepsType DEF StackNext, stackVars
  <2>. QED
    BY <2>1 DEF TypeOK, RunnerMemory
<1>2. ASSUME stops = 0, Refusals' \subseteq Refusals, runner'.rejected >= runner.rejected
      PROVE  RefusalsInv'
  <2>1. /\ IsFiniteSet(Refusals') /\ Cardinality(Refusals') <= Cardinality(Refusals)
        /\ Cardinality(Refusals') \in Nat /\ Cardinality(Refusals) \in Nat
    BY <1>2, FS_Subset, FS_CardinalityType DEF RefusalsInv
  <2>. QED
    BY <1>1, <1>2, <2>1 DEF RefusalsInv
<1>3. ASSUME stops = 0, NEW f, Refusals' \subseteq Refusals \union {f},
             runner'.rejected = runner.rejected + 1
      PROVE  RefusalsInv'
  <2>1. /\ IsFiniteSet(Refusals) /\ Cardinality(Refusals) \in Nat
        /\ Cardinality(Refusals) <= runner.rejected
    BY <1>3, FS_CardinalityType DEF RefusalsInv
  <2>2. /\ IsFiniteSet(Refusals \union {f})
        /\ Cardinality(Refusals \union {f}) <= Cardinality(Refusals) + 1
        /\ Cardinality(Refusals \union {f}) \in Nat
    <3>1. CASE f \in Refusals
      <4>1. Refusals \union {f} = Refusals
        BY <3>1
      <4>. QED
        BY <2>1, <4>1
    <3>2. CASE f \notin Refusals
      BY <2>1, <3>2, FS_AddElement
    <3>. QED
      BY <3>1, <3>2
  <2>3. /\ IsFiniteSet(Refusals') /\ Cardinality(Refusals') \in Nat
        /\ Cardinality(Refusals') <= Cardinality(Refusals \union {f})
    BY <1>3, <2>2, FS_Subset, FS_CardinalityType
  <2>. QED
    BY <1>1, <1>3, <2>1, <2>2, <2>3 DEF RefusalsInv
<1>4. ASSUME stops = 0, Idles PROVE RefusalsInv'
  <2>1. Refusals' \subseteq Refusals /\ runner' = runner
    BY <1>4 DEF Idles, Refusals, Told, Service
  <2>. QED
    BY <1>1, <1>2, <1>4, <2>1
<1>5. ASSUME stops = 0, NEW f \in Flow, Kill(f) PROVE RefusalsInv'
  <2>1. Refusals' \subseteq Refusals /\ runner' = runner
    BY <1>5 DEF Kill, Refusals, Told, TypeOK, servers, memory
  <2>. QED
    BY <1>1, <1>2, <1>5, <2>1
<1>6. ASSUME stops = 0, NEW f \in Flow, NEW a, Returns(f, a) PROVE RefusalsInv'
  <2>1. conn[f] = "eof"
    BY <1>6 DEF Returns, HeardInv
  <2>2. a.status = "REJECT" =>
          status[f] = "REJECT" \/ (pc[f] = "runner" /\ code[f] \notin {0, 200})
    BY <1>6, <2>1, ReportOfAnswer DEF Returns
  <2>3. /\ UNCHANGED <<serving, stage, answer, runner>>
        /\ \A g \in Flow : /\ status'[g] = IF g = f THEN a.status ELSE status[g]
                           /\ pc'[g] = IF g = f THEN a.next ELSE pc[g]
                           /\ code'[g] = IF g = f THEN 0 ELSE code[g]
    BY <1>6 DEF Returns, TypeOK, servers, memory
  <2>4. ~Told(f)'
    <3>1. stage["runner"] # "idle" /\ serving["runner"] = f => pc[f] = "killed" \/ Waiting(f)
      BY DEF IInv, ServedInv, Service
    <3>. QED
      BY <1>6, <2>1, <2>3, <3>1 DEF Told, Waiting, Returns, Running, Service
  <2>5. Refusals' \subseteq Refusals
    BY <2>2, <2>3, <2>4 DEF Refusals, Told
  <2>. QED
    BY <1>1, <1>2, <1>6, <2>3, <2>5
<1>7. ASSUME stops = 0, NEW s \in Service, NEW c \in Codes, Answers(s, c)
      PROVE  RefusalsInv'
  <2>1. /\ UNCHANGED <<pc, code, status, serving>>
        /\ \A r \in Service \ {s} : stage'[r] = stage[r] /\ answer'[r] = answer[r]
        /\ answer'[s] = c
        /\ runner'.rejected \in {runner.rejected, runner.rejected + 1}
    BY <1>7 DEF Answers, gateways, TypeOK
  <2>2. CASE s = "runner" /\ Running(serving[s]) /\ c # 200
    <3>1. Refusals' \subseteq Refusals \union {serving[s]}
      BY <2>1, <2>2 DEF Refusals, Told
    <3>2. runner'.rejected = runner.rejected + 1
      BY <1>7, <2>2 DEF Answers
    <3>. QED
      BY <1>3, <1>7, <3>1, <3>2
  <2>3. CASE ~(s = "runner" /\ Running(serving[s]) /\ c # 200)
    <3>1. Refusals' \subseteq Refusals
      BY <2>1, <2>3 DEF Refusals, Told, Running, Service
    <3>. QED
      BY <1>1, <1>2, <1>7, <2>1, <3>1
  <2>. QED
    BY <2>2, <2>3
<1>8. ASSUME stops = 0, NEW s \in Service, SendHeader(s) \/ SendBody(s) \/ SendLine(s)
      PROVE  RefusalsInv'
  <2> DEFINE f == serving[s]
  <2>1. f \in Flow /\ (Running(f) => pc[f] = s)
    BY <1>8, SenderKnows DEF SendHeader, SendBody, SendLine
  <2>2. /\ UNCHANGED <<pc, status, answer, runner>>
        /\ \A r \in Service : stage'[r] \in {"header", "body"} =>
                               stage[r] \in {"header", "body"} /\ serving'[r] = serving[r]
    BY <1>8 DEF SendHeader, SendBody, SendLine, memory, TypeOK
  <2>3. \A g \in Flow : code'[g] = code[g] \/ (g = f /\ Running(f) /\ code'[g] = answer[s])
    BY <1>8 DEF SendHeader, SendBody, SendLine, TypeOK
  <2>4. stage[s] \in {"header", "body"}
    BY <1>8 DEF SendHeader, SendBody, SendLine
  <2>5. ASSUME NEW g \in Flow, pc[g] = "runner", code'[g] # code[g], code'[g] \notin {0, 200}
        PROVE  Told(g)
    BY <2>1, <2>3, <2>4, <2>5 DEF Told
  <2>6. Refusals' \subseteq Refusals
    BY <2>2, <2>5 DEF Refusals, Told, Service
  <2>. QED
    BY <1>1, <1>2, <1>8, <2>2, <2>6
<1>9. CASE stops' = stops + 1
  BY <1>9 DEF TypeOK
<1>10. stops' # stops + 1 => stops' = stops
  BY AnswerCases DEF Idles, Kill, Returns, Answers, SendHeader, SendBody, SendLine
<1>. QED
  BY <1>4, <1>5, <1>6, <1>7, <1>8, <1>9, <1>10, AnswerCases

\* While no server has stopped, a gateway reports a refusal only if its server
\* pronounced it: as many flows were rejected as the runner has counted at most, a
\* missing route or secret is missing, and no server is out of reach.
THEOREM RefusalsAreTrue == StackSpec => []RefusalsAreTheServers
<1>1. StackInit => DInv
  <2> SUFFICES ASSUME StackInit PROVE DInv
    OBVIOUS
  <2>1. /\ pc = [f \in Flow |-> "registry"] /\ conn = [f \in Flow |-> "none"]
        /\ code = [f \in Flow |-> 0] /\ status = [f \in Flow |-> "none"]
        /\ stage = [s \in Service |-> "idle"] /\ runner = Offer
    BY DEF StackInit, Init
  <2>2. AnsweredInv /\ MissingInv
    BY <2>1 DEF AnsweredInv, MissingInv
  <2>3. Refusals = {}
    BY <2>1 DEF Refusals, Told, Service
  <2>4. runner.rejected = 0
    BY <2>1 DEF Offer, FreshRunner
  <2>. QED
    BY <2>2, <2>3, <2>4, FS_EmptySet DEF DInv, RefusalsInv
<1>2. TypeOK /\ IInv /\ CInv /\ DInv /\ [StackNext]_stackVars => DInv'
  BY AnsweredStep, MissingStep, RefusalsStep DEF CInv, DInv
<1>3. TypeOK /\ DInv => RefusalsAreTheServers
  <2> SUFFICES ASSUME TypeOK, DInv, stops = 0 PROVE RefusalsAreTheServers
    BY DEF RefusalsAreTheServers
  <2> DEFINE R == {f \in Flow : status[f] = "REJECT"}
  <2>1. R \subseteq Refusals /\ IsFiniteSet(Refusals)
        /\ Cardinality(Refusals) <= runner.rejected
    BY DEF Refusals, DInv, RefusalsInv
  <2>2. Cardinality(R) <= runner.rejected
    <3>1. /\ Cardinality(R) <= Cardinality(Refusals)
          /\ Cardinality(R) \in Nat /\ Cardinality(Refusals) \in Nat
      BY <2>1, FS_Subset, FS_CardinalityType
    <3>2. runner.rejected \in Nat
      BY DEF TypeOK, RunnerMemory
    <3>. QED
      BY <2>1, <3>1, <3>2
  <2>. QED
    BY <2>2 DEF RefusalsAreTheServers, DInv, MissingInv
<1>. QED
  BY <1>1, <1>2, <1>3, MiniCloudTypeCorrect, MiniCloudInvariant, MonitorInvariant,
     PTL DEF StackSpec

-----------------------------------------------------------------------------
(* What the runner has given away.  A flow calls the runner once, so a     *)
(* handler of the runner books a flow that was not booked, and the total   *)
(* of the bookings moves exactly as the runner's memory does.              *)

CpuOf == [f \in Flow |-> Config[f].run.cpu]
MemOf == [f \in Flow |-> Config[f].run.mem]

\* A connection that waits for the runner is there once, and holds no booking.
Unbooked(i) ==
  /\ booked[backlog["runner"][i]] # "live"
  /\ backlog["runner"][i] # serving["runner"]
  /\ \A j \in 1 .. Len(backlog["runner"]) :
       j # i => backlog["runner"][j] # backlog["runner"][i]

BookedOnceInv ==
  /\ stage["runner"] = "read" => booked[serving["runner"]] # "live"
  /\ \A i \in 1 .. Len(backlog["runner"]) : Unbooked(i)

\* The runner's memory is the file's capacity less the bookings it remembers.
LedgerInv ==
  /\ IsFiniteSet(Live)
  /\ \A f \in Live : CpuOf[f] \in Nat /\ MemOf[f] \in Nat
  /\ runner.cpu_free = Offer.cpu_free - Total(CpuOf, Live)
  /\ runner.mem_free = Offer.mem_free - Total(MemOf, Live)
  /\ runner.accepted = Cardinality(Live)

\* The steps of both stacks, by what they do to the runner's bookings.
\* A handler of the runner: request q is f's, but for the name of the job.
Books(f, q) ==
  /\ f = serving["runner"] /\ HasRequest("runner")
  /\ q.cpu = Config[f].run.cpu /\ q.mem = Config[f].run.mem
  /\ runner' = AfterRun(runner, q)
  /\ booked' = IF Verdict(runner, q) = "accept" THEN [booked EXCEPT ![f] = "live"]
                                               ELSE booked
  /\ stage' = [stage EXCEPT !["runner"] = "header"]
  /\ UNCHANGED <<backlog, serving>>

\* The end of the runner.
Forgets ==
  /\ runner' = Offer
  /\ booked' = [f \in Flow |-> IF booked[f] = "live" THEN "lost" ELSE booked[f]]
  /\ backlog'["runner"] = <<>>
  /\ stage'["runner"] = "idle"

\* Whatever else happens, at most the runner finishes with a connection.
Elsewhere ==
  /\ UNCHANGED <<runner, booked>>
  /\ backlog'["runner"] = backlog["runner"]
  /\ serving'["runner"] \in {serving["runner"], Nobody}
  /\ stage'["runner"] = "read" =>
       stage["runner"] = "read" /\ serving'["runner"] = serving["runner"]

\* Every step is one of these, a connection to the runner or its accept.
LEMMA BookCases ==
  ASSUME TypeOK, IInv, [StackNext]_stackVars
  PROVE  \/ \E f \in Flow : Connect(f) /\ pc[f] = "runner"
         \/ Accept("runner")
         \/ \E f \in Flow, q \in RunRequest : Books(f, q)
         \/ Forgets
         \/ Elsewhere
<1>1. ASSUME NEW f \in Flow,
             \/ Refused(f) \/ Send(f) \/ Kill(f) \/ Return(f) \/ LineReturn(f)
             \/ Connect(f) /\ pc[f] # "runner"
      PROVE  Elsewhere
  <2>1. CASE Connect(f) /\ pc[f] # "runner"
    BY <2>1 DEF Connect, Running, Elsewhere, memory, TypeOK, Service
  <2>2. CASE Refused(f) \/ Send(f) \/ Kill(f) \/ Return(f) \/ LineReturn(f)
    BY <2>2 DEF Refused, Send, Kill, Return, LineReturn, Elsewhere, servers, memory
  <2>. QED
    BY <1>1, <2>1, <2>2
<1>2. ASSUME NEW s \in Service,
             \/ ReadEof(s) \/ SendHeader(s) \/ SendBody(s) \/ SendLine(s) \/ Restart(s)
             \/ Accept(s) /\ s # "runner"
      PROVE  Elsewhere
  <2>1. CASE Accept(s) /\ s # "runner"
    BY <2>1 DEF Accept, Elsewhere, memory, TypeOK, Service
  <2>2. CASE ReadEof(s)
    BY <2>2 DEF ReadEof, Answer, Elsewhere, memory, TypeOK, Service
  <2>3. CASE SendHeader(s)
    BY <2>3 DEF SendHeader, Elsewhere, memory, TypeOK, Service
  <2>4. CASE SendBody(s) \/ SendLine(s)
    BY <2>4 DEF SendBody, SendLine, Elsewhere, memory, TypeOK, Service
  <2>5. CASE Restart(s)
    BY <2>5 DEF Restart, Elsewhere, memory
  <2>. QED
    BY <1>2, <2>1, <2>2, <2>3, <2>4, <2>5
<1>3. CASE Resolve \/ LineResolve \/ GetSecret \/ LineGetSecret
  BY <1>3 DEF Resolve, LineResolve, GetSecret, LineGetSecret, Answer, Elsewhere, memory,
              TypeOK, Service
<1>4. CASE TakeEvent \/ LineTakeEvent
  BY <1>4 DEF TakeEvent, LineTakeEvent, Answer, Elsewhere, TypeOK, Service
<1>5. CASE RunJob \/ LineRunJob
  <2> DEFINE f == serving["runner"]
  <2>1. f \in Flow /\ Config[f].run \in RunRequest
    BY <1>5, ConfigAssumption DEF RunJob, LineRunJob, HasRequest
  <2>2. /\ AnyName(Config[f].run) \in RunRequest
        /\ AnyName(Config[f].run).cpu = Config[f].run.cpu
        /\ AnyName(Config[f].run).mem = Config[f].run.mem
    BY <2>1 DEF AnyName, RunRequest
  <2>3. CASE RunJob
    <3>1. Books(f, Config[f].run)
      BY <2>1, <2>3 DEF RunJob, Answer, Books
    <3>. QED
      BY <2>1, <3>1
  <2>4. CASE LineRunJob
    <3>1. Books(f, AnyName(Config[f].run))
      BY <2>1, <2>2, <2>4 DEF LineRunJob, Answer, Books
    <3>. QED
      BY <2>1, <2>2, <3>1
  <2>. QED
    BY <1>5, <2>3, <2>4
<1>6. ASSUME NEW s \in Service, Down(s) \/ LineDown(s)
      PROVE  Forgets \/ Elsewhere
  <2>1. /\ runner' = IF s = "runner" THEN Offer ELSE runner
        /\ booked' = IF s = "runner"
                     THEN [f \in Flow |-> IF booked[f] = "live" THEN "lost"
                                                                ELSE booked[f]]
                     ELSE booked
        /\ backlog' = [backlog EXCEPT ![s] = <<>>]
        /\ serving' = [serving EXCEPT ![s] = Nobody]
        /\ stage' = [stage EXCEPT ![s] = "idle"]
    BY <1>6 DEF Down, LineDown, Offer, LineCapacity
  <2>2. CASE s = "runner"
    BY <2>1, <2>2 DEF Forgets, TypeOK, Service
  <2>3. CASE s # "runner"
    BY <2>1, <2>3 DEF Elsewhere, TypeOK, Service
  <2>. QED
    BY <2>2, <2>3
<1>7. CASE UNCHANGED vars
  BY <1>7 DEF vars, servers, memory, Elsewhere
<1>8. CASE protocol = "http" /\ Next
  BY <1>1, <1>2, <1>3, <1>4, <1>5, <1>6, <1>7, <1>8
     DEF Next, GatewayStep, ServerStep, Handle, Stop, SigPipe
<1>9. CASE protocol = "lines" /\ LineNext
  BY <1>1, <1>2, <1>3, <1>4, <1>5, <1>6, <1>7, <1>9
     DEF LineNext, LineGatewayStep, LineServerStep, LineHandle, LineStop
<1>. QED
  BY <1>7, <1>8, <1>9 DEF StackNext, stackVars

\* The runner books a flow only once.
LEMMA BookedOnceStep ==
  ASSUME TypeOK, IInv, BookedOnceInv, [StackNext]_stackVars
  PROVE  BookedOnceInv'
<1> DEFINE b == backlog["runner"]
<1>0. /\ Nobody \notin Flow /\ b \in Seq(Flow) /\ Len(b) \in Nat
      /\ \A i \in 1 .. Len(b) : b[i] \in Flow /\ Unbooked(i)
  BY FlowAssumption DEF TypeOK, Service, BookedOnceInv
<1>1. ASSUME NEW f \in Flow, Connect(f), pc[f] = "runner" PROVE BookedOnceInv'
  <2>1. /\ UNCHANGED <<serving, stage, booked>> /\ backlog'["runner"] = Append(b, f)
    BY <1>1 DEF Connect, memory, TypeOK, Service
  <2>2. conn[f] = "none" /\ Running(f)
    BY <1>1 DEF Connect
  <2>3. serving["runner"] # f
    BY <1>0, <1>1, <2>2 DEF IInv, ServedInv, Waiting, Service
  <2>4. \A i \in 1 .. Len(b) : b[i] # f
    BY <1>1, <2>2 DEF IInv, QueuedInv, InPlace, Waiting, Service
  <2>5. booked[f] # "live"
    <3>1. status[f] = "none"
      BY <1>1, <2>2 DEF IInv, SilentInv
    <3>2. ~OnItsWay(f)
      BY <2>2, <2>3 DEF OnItsWay
    <3>. QED
      BY <1>1, <3>1, <3>2 DEF IInv, LiveInv
  <2>6. ASSUME NEW i \in 1 .. Len(backlog'["runner"]) PROVE Unbooked(i)'
    <3> DEFINE c == backlog'["runner"]
    <3>1. /\ Len(c) = Len(b) + 1 /\ c[Len(b) + 1] = f
          /\ \A j \in 1 .. Len(b) : c[j] = b[j]
      BY <1>0, <2>1
    <3>2. \A k \in 1 .. Len(c) : k \in 1 .. Len(b) \/ k = Len(b) + 1
      BY <1>0, <3>1
    <3>3. booked'[c[i]] # "live" /\ c[i] # serving'["runner"]
      BY <1>0, <2>1, <2>3, <2>5, <3>1, <3>2 DEF Unbooked
    <3>4. ASSUME NEW j \in 1 .. Len(c), j # i PROVE c[j] # c[i]
      BY <1>0, <2>4, <3>1, <3>2, <3>4 DEF Unbooked
    <3>. QED
      BY <3>3, <3>4 DEF Unbooked
  <2>. QED
    BY <2>1, <2>6 DEF BookedOnceInv
<1>2. ASSUME Accept("runner") PROVE BookedOnceInv'
  <2>1. /\ booked' = booked /\ backlog'["runner"] = Tail(b) /\ b # <<>>
        /\ serving'["runner"] = b[1]
    BY <1>0, <1>2 DEF Accept, memory, TypeOK, Service
  <2>2. /\ Len(b) > 0 /\ Len(Tail(b)) = Len(b) - 1
        /\ \A i \in 1 .. Len(Tail(b)) : Tail(b)[i] = b[i + 1]
    BY <1>0, <2>1
  <2>3. 1 \in 1 .. Len(b) /\ \A i \in 1 .. Len(Tail(b)) : i + 1 \in 1 .. Len(b)
    BY <1>0, <2>2
  <2>4. ASSUME NEW i \in 1 .. Len(backlog'["runner"]) PROVE Unbooked(i)'
    <3>1. i \in 1 .. Len(Tail(b)) /\ i + 1 \in 1 .. Len(b) /\ i + 1 # 1
      BY <2>1, <2>3
    <3>2. booked[b[i + 1]] # "live" /\ b[i + 1] # b[1]
      BY <1>0, <2>3, <3>1 DEF Unbooked
    <3>3. ASSUME NEW j \in 1 .. Len(Tail(b)), j # i PROVE b[j + 1] # b[i + 1]
      <4>1. j + 1 # i + 1 /\ j + 1 \in 1 .. Len(b)
        BY <2>3, <3>3
      <4>. QED
        BY <1>0, <3>1, <4>1 DEF Unbooked
    <3>. QED
      BY <2>1, <2>2, <3>1, <3>2, <3>3 DEF Unbooked
  <2>5. booked[b[1]] # "live"
    BY <1>0, <2>3 DEF Unbooked
  <2>. QED
    BY <2>1, <2>4, <2>5 DEF BookedOnceInv
<1>3. ASSUME NEW f \in Flow, NEW q \in RunRequest, Books(f, q) PROVE BookedOnceInv'
  <2>1. /\ stage'["runner"] = "header" /\ UNCHANGED <<backlog, serving>>
        /\ \A g \in Flow : g # f => booked'[g] = booked[g]
    BY <1>3 DEF Books, TypeOK, Service
  <2>2. f = serving["runner"]
    BY <1>3 DEF Books
  <2>3. \A i \in 1 .. Len(b) : b[i] # f
    BY <1>0, <2>2 DEF Unbooked
  <2>4. \A i \in 1 .. Len(b) : Unbooked(i)'
    BY <1>0, <2>1, <2>3 DEF Unbooked
  <2>. QED
    BY <2>1, <2>4 DEF BookedOnceInv
<1>4. CASE Forgets
  <2>1. 1 .. Len(backlog'["runner"]) = {}
    BY <1>4 DEF Forgets
  <2>. QED
    BY <1>4, <2>1 DEF Forgets, BookedOnceInv
<1>5. CASE Elsewhere
  <2>1. ASSUME NEW i \in 1 .. Len(b) PROVE Unbooked(i)'
    BY <1>0, <1>5 DEF Elsewhere, Unbooked
  <2>. QED
    BY <1>5, <2>1 DEF Elsewhere, BookedOnceInv
<1>. QED
  BY <1>1, <1>2, <1>3, <1>4, <1>5, BookCases

\* A booking adds to the total what the runner takes from its memory.
LEMMA LedgerStep ==
  ASSUME TypeOK, IInv, BookedOnceInv, LedgerInv, [StackNext]_stackVars
  PROVE  LedgerInv'
<1>1. CASE UNCHANGED <<runner, booked>>
  BY <1>1 DEF LedgerInv, Live
<1>2. CASE Forgets
  <2>1. Live' = {} /\ runner' = Offer
    BY <1>2 DEF Forgets, Live
  <2>2. /\ IsFiniteSet({}) /\ Cardinality({}) = 0
        /\ Total(CpuOf, {}) = 0 /\ Total(MemOf, {}) = 0
    BY FS_EmptySet, TotalFacts
  <2>3. Offer \in RunnerMemory /\ Offer.accepted = 0
    BY OfferType DEF Offer, FreshRunner
  <2>4. Offer.cpu_free = Offer.cpu_free - 0 /\ Offer.mem_free = Offer.mem_free - 0
    BY <2>3 DEF RunnerMemory
  <2>. QED
    BY <2>1, <2>2, <2>3, <2>4 DEF LedgerInv
<1>3. ASSUME NEW f \in Flow, NEW q \in RunRequest, Books(f, q) PROVE LedgerInv'
  <2>0. runner \in RunnerMemory /\ Offer \in RunnerMemory
    BY OfferType DEF TypeOK
  <2>1. CASE Verdict(runner, q) # "accept"
    <3>1. booked' = booked /\ runner' = AfterRun(runner, q)
      BY <1>3, <2>1 DEF Books
    <3>2. /\ runner'.cpu_free = runner.cpu_free /\ runner'.mem_free = runner.mem_free
          /\ runner'.accepted = runner.accepted
      BY <2>0, <2>1, <3>1, RejectFields
    <3>. QED
      BY <3>1, <3>2 DEF LedgerInv, Live
  <2>2. CASE Verdict(runner, q) = "accept"
    <3>1. booked' = [booked EXCEPT ![f] = "live"] /\ runner' = Book(runner, q)
      BY <1>3, <2>2 DEF Books, AfterRun
    <3>2. q.cpu \in Nat /\ q.mem \in Nat /\ CpuOf[f] = q.cpu /\ MemOf[f] = q.mem
      BY <1>3, <2>0, <2>2, AcceptedFits DEF Books, CpuOf, MemOf
    <3>3. /\ runner'.cpu_free = runner.cpu_free - q.cpu
          /\ runner'.mem_free = runner.mem_free - q.mem
          /\ runner'.accepted = runner.accepted + 1
      BY <2>0, <2>2, <3>1, BookFields
    <3>4. f \notin Live /\ Live' = Live \union {f}
      BY <1>3, <3>1 DEF Books, HasRequest, BookedOnceInv, Live, TypeOK
    <3>5. /\ IsFiniteSet(Live) /\ \A g \in Live : CpuOf[g] \in Nat /\ MemOf[g] \in Nat
      BY DEF LedgerInv
    <3>6. /\ IsFiniteSet(Live \union {f})
          /\ Cardinality(Live \union {f}) = Cardinality(Live) + 1
      BY <3>4, <3>5, FS_AddElement
    <3>7. /\ Total(CpuOf, Live) \in Nat /\ Total(MemOf, Live) \in Nat
          /\ Total(CpuOf, Live \union {f}) = Total(CpuOf, Live) + q.cpu
          /\ Total(MemOf, Live \union {f}) = Total(MemOf, Live) + q.mem
      BY <3>2, <3>4, <3>5, TotalFacts, TotalOfOneMore
    <3>8. Offer.cpu_free \in Nat /\ Offer.mem_free \in Nat
      BY <2>0 DEF RunnerMemory
    <3>9. /\ runner.cpu_free = Offer.cpu_free - Total(CpuOf, Live)
          /\ runner.mem_free = Offer.mem_free - Total(MemOf, Live)
          /\ runner.accepted = Cardinality(Live)
      BY DEF LedgerInv
    <3>10. /\ runner'.cpu_free = Offer.cpu_free - Total(CpuOf, Live \union {f})
           /\ runner'.mem_free = Offer.mem_free - Total(MemOf, Live \union {f})
           /\ runner'.accepted = Cardinality(Live \union {f})
      BY <3>2, <3>3, <3>6, <3>7, <3>8, <3>9
    <3>11. \A g \in Live \union {f} : CpuOf[g] \in Nat /\ MemOf[g] \in Nat
      BY <3>2, <3>5
    <3>. QED
      BY <3>4, <3>6, <3>10, <3>11 DEF LedgerInv
  <2>. QED
    BY <2>1, <2>2
<1>4. ASSUME (\E f \in Flow : Connect(f)) \/ Accept("runner")
      PROVE  UNCHANGED <<runner, booked>>
  BY <1>4 DEF Connect, Accept, memory
<1>5. Elsewhere => UNCHANGED <<runner, booked>>
  BY DEF Elsewhere
<1>. QED
  BY <1>1, <1>2, <1>3, <1>4, <1>5, BookCases

\* The runner's memory and the bookings agree in every reachable state of both stacks.
THEOREM LedgerIsKept == StackSpec => [](BookedOnceInv /\ LedgerInv)
<1>1. StackInit => BookedOnceInv /\ LedgerInv
  <2> SUFFICES ASSUME StackInit PROVE BookedOnceInv /\ LedgerInv
    OBVIOUS
  <2>1. /\ Live = {} /\ runner = Offer /\ stage["runner"] = "idle"
        /\ backlog["runner"] = <<>>
    BY DEF StackInit, Init, Live, Service
  <2>2. 1 .. Len(backlog["runner"]) = {}
    BY <2>1
  <2>3. /\ IsFiniteSet({}) /\ Cardinality({}) = 0
        /\ Total(CpuOf, {}) = 0 /\ Total(MemOf, {}) = 0
    BY FS_EmptySet, TotalFacts
  <2>4. Offer \in RunnerMemory /\ Offer.accepted = 0
    BY OfferType DEF Offer, FreshRunner
  <2>5. Offer.cpu_free = Offer.cpu_free - 0 /\ Offer.mem_free = Offer.mem_free - 0
    BY <2>4 DEF RunnerMemory
  <2>. QED
    BY <2>1, <2>2, <2>3, <2>4, <2>5 DEF BookedOnceInv, LedgerInv
<1>2. TypeOK /\ IInv /\ BookedOnceInv /\ LedgerInv /\ [StackNext]_stackVars
        => (BookedOnceInv /\ LedgerInv)'
  BY BookedOnceStep, LedgerStep
<1>. QED
  BY <1>1, <1>2, MiniCloudTypeCorrect, MiniCloudInvariant, PTL DEF StackSpec

\* What the remembered bookings ask for, as MapThenSumSet adds it up.
LEMMA BookingsAreTotals ==
  ASSUME LedgerInv
  PROVE  /\ MapThenSumSet(LAMBDA f : Config[f].run.cpu, Live) = Total(CpuOf, Live)
         /\ MapThenSumSet(LAMBDA f : Config[f].run.mem, Live) = Total(MemOf, Live)
<1> DEFINE
    Rec(g) == g = [s \in SUBSET Live |->
                     IF s = {} THEN 0
                     ELSE Config[CHOOSE x \in s : TRUE].run.cpu
                            + g[s \ {CHOOSE x \in s : TRUE}]]
    G == CHOOSE g : Rec(g)
    MemRec(g) == g = [s \in SUBSET Live |->
                        IF s = {} THEN 0
                        ELSE Config[CHOOSE x \in s : TRUE].run.mem
                               + g[s \ {CHOOSE x \in s : TRUE}]]
    MemG == CHOOSE g : MemRec(g)
<1>1. MapThenSumSet(LAMBDA f : Config[f].run.cpu, Live) = G[Live]
  BY DEF MapThenSumSet, MapThenFoldSet
<1>2. MapThenSumSet(LAMBDA f : Config[f].run.mem, Live) = MemG[Live]
  BY DEF MapThenSumSet, MapThenFoldSet
<1>3. IsFiniteSet(Live) /\ \A f \in Live : CpuOf[f] \in Nat /\ MemOf[f] \in Nat
  BY DEF LedgerInv
<1>4. \A f \in Live : CpuOf[f] = Config[f].run.cpu /\ MemOf[f] = Config[f].run.mem
  BY DEF Live, CpuOf, MemOf
<1>5. \A s \in SUBSET Live : s # {} => (CHOOSE x \in s : TRUE) \in Live
  OBVIOUS
<1>6. /\ \A g : Rec(g) <=> SumsUp(g, CpuOf, Live)
      /\ \A g : MemRec(g) <=> SumsUp(g, MemOf, Live)
  BY <1>4, <1>5 DEF SumsUp
<1> HIDE DEF Rec, MemRec
<1>7. (\E g : SumsUp(g, CpuOf, Live)) /\ (\E g : SumsUp(g, MemOf, Live))
  BY <1>3, TotalIsSum
<1>8. Rec(G) /\ MemRec(MemG)
  BY <1>6, <1>7
<1> HIDE DEF G, MemG
<1>9. G[Live] = Total(CpuOf, Live) /\ MemG[Live] = Total(MemOf, Live)
  BY <1>3, <1>6, <1>8, SumIsTotal
<1>. QED
  BY <1>1, <1>2, <1>9

\* Capacity is neither lost nor made: over both protocols, any number of flows, any files
\* and any stops and restarts, what the runner has free and what the bookings it remembers
\* asked for add up to its file.
THEOREM CapacityIsConserved == StackSpec => []CapacityConserved
<1>1. LedgerInv => CapacityConserved
  <2> SUFFICES ASSUME LedgerInv PROVE CapacityConserved
    OBVIOUS
  <2>1. Total(CpuOf, Live) \in Nat /\ Total(MemOf, Live) \in Nat
    BY TotalFacts DEF LedgerInv
  <2>2. Offer.cpu_free \in Nat /\ Offer.mem_free \in Nat
    BY OfferType DEF RunnerMemory
  <2>3. /\ runner.cpu_free + Total(CpuOf, Live) = Offer.cpu_free
        /\ runner.mem_free + Total(MemOf, Live) = Offer.mem_free
        /\ runner.accepted = Cardinality(Live)
    BY <2>1, <2>2 DEF LedgerInv
  <2>. QED
    BY <2>3, BookingsAreTotals DEF CapacityConserved
<1>. QED
  BY <1>1, LedgerIsKept, PTL

=============================================================================
