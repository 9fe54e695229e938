----------------------------- MODULE MCMiniCloud -----------------------------
(* Flows f1 and f2 compete for a runner with room for one of them, f3 asks  *)
(* for a route to another backend.                                          *)
EXTENDS LineCloud

CONSTANTS f1, f2, f3

RouteLine(p, b, st) ==
  [fields |-> 5, prefix |-> p, backend |-> b, port |-> 28083, status |-> st]

MCRouteFile ==
  << RouteLine(<<"run">>, "runner", "up"),
     RouteLine(<<"status">>, "monitor", "up"),
     RouteLine(<<"admin">>, "admin", "down") >>

SecretLine(n, st) == [fields |-> 3, name |-> n, ref |-> n, status |-> st]

MCSecretFile == << SecretLine("key", "active"), SecretLine("old", "revoked") >>

MCCapacityFile ==
  << [key |-> "cpu_free_milli", value |-> 900],
     [key |-> "mem_free_mb", value |-> 600],
     [key |-> "max_parallel_jobs", value |-> 2] >>

Job(cpu, mb) ==
  [complete |-> TRUE, cpu |-> cpu, mem |-> mb, timeout |-> 60,
   secret |-> 11, job |-> 7]

Gateway(p, sec, j) == [path |-> p, secret |-> sec, run |-> j]

\* Two competing jobs (the CPU is enough for both, the memory is not) and a flow
\* that is routed past the runner.
MCConfig ==
  (f1 :> Gateway(<<"run", "a">>, "key", Job(500, 100)))
  @@ (f2 :> Gateway(<<"run">>, "key", Job(400, 512)))
  @@ (f3 :> Gateway(<<"status", "x">>, "key", Job(50, 64)))

\* The two that compete.
MCCompete == [f \in {f1, f2} |-> MCConfig[f]]
=============================================================================
