------------------------------- MODULE Tables -------------------------------
(***************************************************************************)
(* minicloud-registry and minicloud-vault (HTTP): the file each of them    *)
(* reads, the table built from it and the lookup in that table.            *)
(*                                                                         *)
(* A line of the routes is [fields, prefix, backend, port, status]:        *)
(* "fields" counts the non-empty '|'-separated fields (0 for a comment),   *)
(* "port" is what the parser reads (a refused text is a number outside     *)
(* 1..65535).  Paths and prefixes are sequences of symbols, so that a      *)
(* prefix can end inside a path segment, as strncmp lets it.  A line of    *)
(* the secrets is [fields, name, ref, status].                             *)
(***************************************************************************)
EXTENDS Integers, Sequences, SequencesExt

CONSTANTS
  MaxRoutes,  \* size of the registry's table (MAX_ROUTES)
  MaxSecrets  \* size of the vault's store (MAX_SECRETS)

ASSUME TablesAssumption == {MaxRoutes, MaxSecrets} \subseteq Nat

MaxPort == 65535

WellFormedRoute(line) == line.fields = 5 /\ line.port \in 1 .. MaxPort

\* One iteration of load_routes: a malformed line, or one that finds the
\* table full, is skipped.
AddRoute(tbl, line) ==
  IF WellFormedRoute(line) /\ Len(tbl) < MaxRoutes
  THEN Append(tbl, [prefix |-> line.prefix, backend |-> line.backend,
                    up |-> line.status = "up"])
  ELSE tbl

LoadRoutes(file) == FoldLeft(AddRoute, <<>>, file)

NoRoute == [prefix |-> <<>>, backend |-> "none", up |-> FALSE]

\* A slip of Better: the last of two equal prefixes wins.
BetterLast(path, best, r) ==
  /\ r.up
  /\ Len(r.prefix) # 0
  /\ IsPrefix(r.prefix, path)
  /\ Len(r.prefix) >= Len(best.prefix)

\* One iteration of resolve_route: strictly longer than the best so far, so
\* the first of two routes with the same prefix stays.
Better(path, best, r) ==
  /\ r.up
  /\ Len(r.prefix) # 0
  /\ IsPrefix(r.prefix, path)
  /\ Len(r.prefix) > Len(best.prefix)

ResolveRoute(tbl, path) ==
  FoldLeft(LAMBDA best, r : IF Better(path, best, r) THEN r ELSE best,
           NoRoute, tbl)

\* /resolve answers 404 when no route is left.
StatusOfRoute(r) == IF r = NoRoute THEN 404 ELSE 200

\* /snapshot counts the table.
Snapshot(tbl) ==
  LET live == {i \in DOMAIN tbl : tbl[i].up} IN
  [total |-> Len(tbl),
   up |-> Cardinality(live),
   down |-> Cardinality(DOMAIN tbl \ live)]

-----------------------------------------------------------------------------

\* One iteration of load_secrets.
AddSecret(st, line) ==
  IF line.fields = 3 /\ Len(st) < MaxSecrets
  THEN Append(st, [name |-> line.name, ref |-> line.ref,
                   active |-> line.status = "active"])
  ELSE st

LoadSecrets(file) == FoldLeft(AddSecret, <<>>, file)

\* find_secret: the index of the first entry with this name, 0 for none.
FindSecret(st, name) == SelectInSeq(st, LAMBDA s : s.name = name)

\* /secret/<name>: an entry that is not active answers like a missing one.
StatusOfSecret(st, name) ==
  LET i == FindSecret(st, name)
  IN  IF i = 0 THEN 404 ELSE IF st[i].active THEN 200 ELSE 404

\* /stats
SecretStats(st) ==
  LET live == {i \in DOMAIN st : st[i].active} IN
  [total |-> Len(st),
   active |-> Cardinality(live),
   revoked |-> Cardinality(DOMAIN st \ live)]
=============================================================================
