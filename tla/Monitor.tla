------------------------------ MODULE Monitor ------------------------------
(***************************************************************************)
(* minicloud-monitor (HTTP) as one process: counters that start at zero,   *)
(* grow with every event it understands and are lost when it stops.        *)
(***************************************************************************)
EXTENDS Metrics, FiniteSetsExt

CONSTANTS
  Events,    \* the /event requests gateways may send
  MaxEvents  \* bound: events taken by one incarnation

\* A request fits in the server's buffer, so there are finitely many of them.
ASSUME EventsAssumption ==
  /\ Events \subseteq [complete : BOOLEAN, result : STRING, lat : Int]
  /\ IsFiniteSet(Events)

ASSUME MaxEventsAssumption == MaxEvents \in Nat

VARIABLES
  monUp,     \* the process is in its accept loop
  mon,     \* mon_state_t
  monReply,  \* HTTP status of the last answer, 0 before the first
  seen    \* history: how often each event came to this incarnation

monVars == <<monUp, mon, monReply, seen>>

NothingSeen == [e \in Events |-> 0]

Times(E) == MapThenSumSet(LAMBDA e : seen[e], E)

MonInit ==
  /\ monUp = FALSE
  /\ mon = FreshMonitor
  /\ monReply = 0
  /\ seen = NothingSeen

MonStart ==
  /\ ~monUp
  /\ monUp' = TRUE
  /\ UNCHANGED <<mon, monReply, seen>>

\* /event
TakeEvent(e) ==
  /\ monUp
  /\ Times(Events) < MaxEvents
  /\ mon' = AfterEvent(mon, e)
  /\ monReply' = EventStatus(e)
  /\ seen' = [seen EXCEPT ![e] = @ + 1]
  /\ UNCHANGED monUp

\* Every other request: 400 for a bad one, 404 for an unknown target, 200 for
\* /health and /report, which read the counters.
MonPlain(status) ==
  /\ monUp
  /\ monReply' = status
  /\ UNCHANGED <<monUp, mon, seen>>

\* accept fails or the process is killed: the counters are gone.
MonStop ==
  /\ monUp
  /\ monUp' = FALSE
  /\ mon' = FreshMonitor
  /\ seen' = NothingSeen
  /\ monReply' = 0

MonNext ==
  \/ MonStart
  \/ \E e \in Events : TakeEvent(e)
  \/ \E status \in {200, 400, 404} : MonPlain(status)
  \/ MonStop

MonSpec == MonInit /\ [][MonNext]_monVars

-----------------------------------------------------------------------------

\* The events that count, and those of them that meet a test.
Understood == {e \in Events : e.complete /\ e.lat \in LatRange}
Bad == {e \in Understood : e.result # "ok"}
Retried == {e \in Understood : e.result = "retry"}

\* What the monitor says is true of the events that came.  The counters are theirs:
\* a refused event leaves no trace, a retry is an error as well, and nothing else
\* changes a counter.  The severity of /report is CRIT from 30 percent of errors,
\* WARN from 10 percent or one retry; nothing counted yet is OK.
MonitorMatchesEvents ==
  LET n == Times(Understood)
      bad == Times(Bad)
      retries == Times(Retried)
  IN  /\ mon.total = n /\ mon.errors = bad /\ mon.retries = retries
      /\ mon.lat_sum = MapThenSumSet(LAMBDA e : seen[e] * e.lat, Understood)
      /\ \A e \in Understood : seen[e] > 0 => e.lat <= mon.max_lat
      /\ Severity(mon) = "OK" => retries = 0 /\ (n = 0 \/ 10 * bad < n)
      /\ Severity(mon) = "WARN" => 10 * bad < 3 * n
      /\ Severity(mon) = "CRIT" => n > 0 /\ 10 * bad >= 3 * n

\* The report makes sense: retries are errors, errors are events, and the
\* average latency is at most the largest.
ReportSane ==
  /\ mon.total \in Nat /\ mon.errors \in Nat /\ mon.retries \in Nat
  /\ mon.retries <= mon.errors
  /\ mon.errors <= mon.total
  /\ mon.max_lat \in LatRange
  /\ mon.lat_sum \in Nat
  /\ mon.lat_sum <= mon.total * mon.max_lat

Rank == [OK |-> 0, WARN |-> 1, CRIT |-> 2]

\* While the monitor runs, a success never makes the severity worse and an
\* error never makes it better.
SeverityIsMonotone ==
  [][ \A e \in Events : TakeEvent(e) /\ EventStatus(e) = 202 =>
        IF e.result = "ok" THEN Rank[Severity(mon)'] <= Rank[Severity(mon)]
                           ELSE Rank[Severity(mon)'] >= Rank[Severity(mon)] ]_monVars
=============================================================================
