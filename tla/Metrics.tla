------------------------------- MODULE Metrics -------------------------------
(***************************************************************************)
(* minicloud-monitor (HTTP): the counters, the /event handler and the      *)
(* severity printed by /report.  An event is [complete, result, lat]:      *)
(* "complete" says that service, result and lat_ms are in the query, "lat" *)
(* is what the parser reads (a refused text is a number outside LatRange). *)
(***************************************************************************)
EXTENDS Integers

MaxLatency == 60000
LatRange == 0 .. MaxLatency

FreshMonitor ==
  [total |-> 0, errors |-> 0, retries |-> 0, lat_sum |-> 0, max_lat |-> 0]

EventStatus(e) == IF e.complete /\ e.lat \in LatRange THEN 202 ELSE 400

\* Slips of CountEvent: the test for "ok" is the wrong way round; the largest
\* latency is not kept.
CountEventSwapped(m, e) ==
  [m EXCEPT !.total = @ + 1,
            !.errors = @ + (IF e.result = "ok" THEN 1 ELSE 0),
            !.retries = @ + (IF e.result = "retry" THEN 1 ELSE 0),
            !.lat_sum = @ + e.lat,
            !.max_lat = IF e.lat > @ THEN e.lat ELSE @]

CountEventNoMax(m, e) ==
  [m EXCEPT !.total = @ + 1,
            !.errors = @ + (IF e.result # "ok" THEN 1 ELSE 0),
            !.retries = @ + (IF e.result = "retry" THEN 1 ELSE 0),
            !.lat_sum = @ + e.lat]

\* A retry is counted twice: as something that was not "ok" and as a retry.
CountEvent(m, e) ==
  [total   |-> m.total + 1,
   errors  |-> m.errors + (IF e.result # "ok" THEN 1 ELSE 0),
   retries |-> m.retries + (IF e.result = "retry" THEN 1 ELSE 0),
   lat_sum |-> m.lat_sum + e.lat,
   max_lat |-> IF e.lat > m.max_lat THEN e.lat ELSE m.max_lat]

AfterEvent(m, e) == IF EventStatus(e) = 202 THEN CountEvent(m, e) ELSE m

\* A slip of ErrorShareAtLeast: the threshold itself is not enough.
ErrorShareAbove(m, pct) == m.total > 0 /\ 100 * m.errors > pct * m.total

\* build_report: err_pct is 0 before the first event, and the percentages are
\* compared without the division.
ErrorShareAtLeast(m, pct) == m.total > 0 /\ 100 * m.errors >= pct * m.total

Severity(m) ==
  IF ErrorShareAtLeast(m, 30) THEN "CRIT"
  ELSE IF ErrorShareAtLeast(m, 10) \/ m.retries > 0 THEN "WARN"
  ELSE "OK"
=============================================================================
