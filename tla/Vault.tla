------------------------------- MODULE Vault -------------------------------
(***************************************************************************)
(* minicloud-vault (HTTP) as one process: it reads its secret file line by *)
(* line, then answers one request at a time from a store that no request   *)
(* changes.                                                                *)
(***************************************************************************)
EXTENDS Tables, FiniteSetsExt

CONSTANTS
  Files,  \* secret files the vault may be started with
  Names   \* names clients ask for

VARIABLES
  file,    \* the file of this incarnation
  line,    \* lines of it that load_secrets has read
  st,      \* store_t
  phase,   \* "load", "serve" or "stopped"
  wanted,  \* name of the last /secret/<name>, NoName before one
  reply    \* [status, ref] of the last answer

vars == <<file, line, st, phase, wanted, reply>>

NoName == "none"
NoRef == "none"

Init ==
  /\ file \in Files
  /\ line = 0
  /\ st = <<>>
  /\ phase = "load"
  /\ wanted = NoName
  /\ reply = [status |-> 0, ref |-> NoRef]

\* One iteration of the loop of load_secrets.
LoadLine ==
  /\ phase = "load"
  /\ line < Len(file)
  /\ line' = line + 1
  /\ st' = AddSecret(st, file[line + 1])
  /\ UNCHANGED <<file, phase, wanted, reply>>

\* End of file: run_server.
Serve ==
  /\ phase = "load"
  /\ line = Len(file)
  /\ phase' = "serve"
  /\ UNCHANGED <<file, line, st, wanted, reply>>

\* An answer without a secret: 400 for a bad request or another method, 404
\* for an unknown target, 200 for /health and /stats.
Plain(status) ==
  /\ phase = "serve"
  /\ wanted' = NoName
  /\ reply' = [status |-> status, ref |-> NoRef]
  /\ UNCHANGED <<file, line, st, phase>>

\* /secret/<name>
GetSecret(name) ==
  LET status == StatusOfSecret(st, name) IN
  /\ phase = "serve"
  /\ wanted' = name
  /\ reply' = [status |-> status,
               ref |-> IF status = 200 THEN st[FindSecret(st, name)].ref
                                       ELSE NoRef]
  /\ UNCHANGED <<file, line, st, phase>>

\* accept fails or the process is killed.
Stop ==
  /\ phase = "serve"
  /\ phase' = "stopped"
  /\ UNCHANGED <<file, line, st, wanted, reply>>

Next ==
  \/ LoadLine
  \/ Serve
  \/ \E status \in {200, 400, 404} : Plain(status)
  \/ \E name \in Names : GetSecret(name)
  \/ Stop

Spec == Init /\ [][Next]_vars

-----------------------------------------------------------------------------

\* Lines of the file, among those read, whose secrets are kept: the ones of
\* three fields before the store is full.
Kept ==
  {i \in 1 .. line :
     /\ file[i].fields = 3
     /\ Cardinality({j \in 1 .. i - 1 : file[j].fields = 3}) < MaxSecrets}

\* The answer to /secret/<name>, read off the file: the first kept line with
\* the name decides alone.  A revoked line hides an active one below it, an
\* active line survives a later revocation of the same name, and no answer
\* shows the reference of a secret that is not active.
FirstLineDecides ==
  wanted \in Names =>
    LET lines == {i \in Kept : file[i].name = wanted}
    IN  IF lines # {} /\ file[Min(lines)].status = "active"
        THEN reply = [status |-> 200, ref |-> file[Min(lines)].ref]
        ELSE reply = [status |-> 404, ref |-> NoRef]

\* /stats at any moment: its three numbers are those of the kept lines, the
\* hidden ones included.
StatsMatchFile ==
  LET s == SecretStats(st)
      live == {i \in Kept : file[i].status = "active"}
  IN  /\ s.total = Cardinality(Kept)
      /\ s.total <= MaxSecrets
      /\ s.active = Cardinality(live)
      /\ s.revoked = s.total - s.active
=============================================================================
