----------------------------- MODULE MCServices -----------------------------
(* Requests and files at and beside the limits each server checks; a table  *)
(* of three entries and four keys for minicache.                            *)
EXTENDS Services

\* The runner: a file with duplicates and refused lines, requests of all kinds.
CapacityLine(k, v) == [key |-> k, value |-> v]

MCFile ==
  << CapacityLine("cpu_free_milli", 9000), CapacityLine("# comment", 1),
     CapacityLine("max_parallel_jobs", 2), CapacityLine("mem_free_mb", 16448),
     CapacityLine("cpu_free_milli", 4100), CapacityLine("cpu_free_milli", 1000001),
     CapacityLine("mem_free_mb", 0), CapacityLine("gpu_free", 7) >>

Req(cpu, mb, to, sec) ==
  [complete |-> TRUE, cpu |-> cpu, mem |-> mb, timeout |-> to,
   secret |-> sec, job |-> 7]

MCRunRequests ==
  { Req(50, 64, 5, 11), Req(100, 8192, 3600, 3), Req(4000, 64, 60, 11),
    Req(4000, 16384, 60, 11), Req(49, 64, 60, 11), Req(50, 16385, 60, 11),
    Req(50, 64, 4, 11), Req(50, 64, 60, 2),
    [Req(50, 64, 60, 11) EXCEPT !.job = 2],
    [Req(50, 64, 60, 11) EXCEPT !.complete = FALSE] }

\* The monitor: every result, latencies at and beside the limit; ten events
\* meet both thresholds exactly (1 error of 10, 3 of 10).
Ev(result, lat) == [complete |-> TRUE, result |-> result, lat |-> lat]

MCEvents ==
  { Ev("ok", 0), Ev("err", 60000), Ev("retry", 15), Ev("ok", 60001),
    [Ev("err", 20) EXCEPT !.complete = FALSE] }

\* The registry: files of up to three lines for a table of two, with nested and
\* repeated prefixes, routes that are down and malformed lines.
RouteLine(p, b, s) ==
  [fields |-> 5, prefix |-> p, backend |-> b, port |-> 28083, status |-> s]

MCRouteLines ==
  { RouteLine(<<"/a">>, "b1", "up"),
    RouteLine(<<"/a">>, "b2", "up"),
    RouteLine(<<"/a", "/b">>, "b3", "up"),
    RouteLine(<<"/a", "/b">>, "b4", "down"),
    RouteLine(<<"/c">>, "b5", "maintenance"),
    [RouteLine(<<"/a">>, "b6", "up") EXCEPT !.port = 65536],
    [RouteLine(<<"/a">>, "b7", "up") EXCEPT !.fields = 6] }

MCRouteFiles == UNION {[1 .. n -> MCRouteLines] : n \in 0 .. 3}

MCPaths == {<<>>, <<"/a">>, <<"/a", "/b", "/x">>, <<"/c">>}

\* The vault: files of up to four lines for a store of three, with a name that
\* is active, revoked and active again, and a malformed line.
SecretLine(n, r, s) == [fields |-> 3, name |-> n, ref |-> r, status |-> s]

MCSecretLines ==
  { SecretLine("db", "r1", "active"), SecretLine("db", "r2", "active"),
    SecretLine("db", "r3", "revoked"), SecretLine("api", "r4", "active"),
    [SecretLine("api", "r5", "active") EXCEPT !.fields = 4] }

MCSecretFiles == UNION {[1 .. n -> MCSecretLines] : n \in 0 .. 4}

MCNames == {"db", "api", "unknown"}
=============================================================================
