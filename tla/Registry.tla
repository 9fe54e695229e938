------------------------------ MODULE Registry ------------------------------
(***************************************************************************)
(* minicloud-registry (HTTP) as one process: it reads its route file line  *)
(* by line, then answers one request at a time from a table that no        *)
(* request changes.                                                        *)
(***************************************************************************)
EXTENDS Tables, FiniteSetsExt

CONSTANTS
  Files,  \* route files the registry may be started with
  Paths   \* paths clients ask for

VARIABLES
  file,    \* the file of this incarnation
  line,    \* lines of it that load_routes has read
  tbl,     \* route_table_t
  phase,   \* "load", "serve" or "stopped"
  wanted,  \* path of the last /resolve, NoPath before one
  reply    \* [status, route] of the last answer

vars == <<file, line, tbl, phase, wanted, reply>>

NoPath == "none"

Init ==
  /\ file \in Files
  /\ line = 0
  /\ tbl = <<>>
  /\ phase = "load"
  /\ wanted = NoPath
  /\ reply = [status |-> 0, route |-> NoRoute]

\* One iteration of the loop of load_routes.
LoadLine ==
  /\ phase = "load"
  /\ line < Len(file)
  /\ line' = line + 1
  /\ tbl' = AddRoute(tbl, file[line + 1])
  /\ UNCHANGED <<file, phase, wanted, reply>>

\* End of file: run_server.  An empty table is no reason to stop.
Serve ==
  /\ phase = "load"
  /\ line = Len(file)
  /\ phase' = "serve"
  /\ UNCHANGED <<file, line, tbl, wanted, reply>>

\* An answer without a route: 400 for a bad request, another method or a
\* missing path, 404 for an unknown target, 200 for /health and /snapshot.
Plain(status) ==
  /\ phase = "serve"
  /\ wanted' = NoPath
  /\ reply' = [status |-> status, route |-> NoRoute]
  /\ UNCHANGED <<file, line, tbl, phase>>

\* /resolve?path=p
Resolve(p) ==
  LET r == ResolveRoute(tbl, p) IN
  /\ phase = "serve"
  /\ wanted' = p
  /\ reply' = [status |-> StatusOfRoute(r), route |-> r]
  /\ UNCHANGED <<file, line, tbl, phase>>

\* accept fails or the process is killed.
Stop ==
  /\ phase = "serve"
  /\ phase' = "stopped"
  /\ UNCHANGED <<file, line, tbl, wanted, reply>>

Next ==
  \/ LoadLine
  \/ Serve
  \/ \E status \in {200, 400, 404} : Plain(status)
  \/ \E p \in Paths : Resolve(p)
  \/ Stop

Spec == Init /\ [][Next]_vars

-----------------------------------------------------------------------------

\* Lines of the file, among those read, whose routes are kept: the well-formed
\* ones before the table is full.
Kept ==
  {i \in 1 .. line :
     /\ WellFormedRoute(file[i])
     /\ Cardinality({j \in 1 .. i - 1 : WellFormedRoute(file[j])}) < MaxRoutes}

\* Lines that can serve a path.
Serving(p) ==
  {i \in Kept : /\ file[i].status = "up"
                /\ file[i].prefix # <<>>
                /\ IsPrefix(file[i].prefix, p)}

\* The answer to /resolve, read off the file: the backend of the line with
\* the longest matching prefix that is up, the first of several such lines,
\* and 404 exactly when no line that is up matches; a longer prefix that is
\* down, malformed or past the end of the table hides nothing.
ResolvesLongestUp ==
  wanted \in Paths =>
    LET S == Serving(wanted)
        long(i) == Len(file[i].prefix)
        best == {i \in S : \A j \in S : \/ long(j) < long(i)
                                        \/ long(j) = long(i) /\ j >= i}
    IN  /\ S = {} => reply = [status |-> 404, route |-> NoRoute]
        /\ \A i \in best : /\ reply.status = 200
                           /\ reply.route.prefix = file[i].prefix
                           /\ reply.route.backend = file[i].backend

\* /snapshot at any moment: its three numbers, counted over the table, are
\* those of the file's lines that were kept.
SnapshotMatchesFile ==
  LET s == Snapshot(tbl)
      live == {i \in Kept : file[i].status = "up"}
  IN  /\ s.total = Cardinality(Kept)
      /\ s.up = Cardinality(live)
      /\ s.down = s.total - s.up
=============================================================================
