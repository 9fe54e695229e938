------------------------------ MODULE Services ------------------------------
(***************************************************************************)
(* The servers of MiniCloud (HTTP), each by itself: one is started, with   *)
(* one of its files, and clients send it anything.  The servers share no   *)
(* memory, so a behaviour runs one of them; the others stay as they are,   *)
(* without a file.  How they work together is module MiniCloud.  The table *)
(* of minicache, which is called for one line at a time, is a fifth; how   *)
(* the lines reach it is module MiniCache.                                 *)
(***************************************************************************)
EXTENDS Runner, Monitor, CacheTable

CONSTANTS
  RouteFiles, Paths, MaxRoutes,    \* see Registry
  SecretFiles, Names, MaxSecrets   \* see Vault

\* The lines as the parsers take them apart; a path or a name that was asked for is not
\* the absence of one.
ASSUME RoutesAssumption ==
  /\ RouteFiles \subseteq Seq([fields : Nat, prefix : Seq(STRING), backend : STRING,
                              port : Int, status : STRING])
  /\ Paths \subseteq Seq(STRING) /\ "none" \notin Paths
  /\ MaxRoutes \in Nat

ASSUME SecretsAssumption ==
  /\ SecretFiles \subseteq Seq([fields : Nat, name : STRING, ref : STRING,
                               status : STRING])
  /\ "none" \notin Names
  /\ MaxSecrets \in Nat

VARIABLES
  chosen,                                                 \* the server that runs
  rFile, rLine, rTable, rPhase, rWanted, rReply,          \* the registry
  vFile, vLine, vStore, vPhase, vWanted, vReply           \* the vault

rVars == <<rFile, rLine, rTable, rPhase, rWanted, rReply>>
vVars == <<vFile, vLine, vStore, vPhase, vWanted, vReply>>
tVars == <<my_db, last>>

R == INSTANCE Registry WITH
       Files <- RouteFiles, file <- rFile, line <- rLine, tbl <- rTable,
       phase <- rPhase, wanted <- rWanted, reply <- rReply

V == INSTANCE Vault WITH
       Files <- SecretFiles, file <- vFile, line <- vLine, st <- vStore,
       phase <- vPhase, wanted <- vWanted, reply <- vReply

ServicesInit ==
  /\ chosen \in {"runner", "registry", "vault", "monitor", "table"}
  /\ Init /\ MonInit /\ R!Init /\ V!Init /\ TableInit
  /\ chosen # "registry" => rFile = <<>>
  /\ chosen # "vault" => vFile = <<>>

RunnerTurn ==
  chosen = "runner" /\ Next /\ UNCHANGED <<monVars, rVars, vVars, tVars>>

MonitorTurn ==
  chosen = "monitor" /\ MonNext /\ UNCHANGED <<vars, rVars, vVars, tVars>>

RegistryTurn ==
  chosen = "registry" /\ R!Next /\ UNCHANGED <<vars, monVars, vVars, tVars>>

VaultTurn ==
  chosen = "vault" /\ V!Next /\ UNCHANGED <<vars, monVars, rVars, tVars>>

TableTurn ==
  chosen = "table" /\ Handle /\ UNCHANGED <<vars, monVars, rVars, vVars>>

ServicesNext ==
  /\ RunnerTurn \/ MonitorTurn \/ RegistryTurn \/ VaultTurn \/ TableTurn
  /\ UNCHANGED chosen

ServicesSpec == ServicesInit /\ [][ServicesNext]_<<chosen, vars, monVars, rVars, vVars, tVars>>

-----------------------------------------------------------------------------

\* The answers of the registry and the vault read off their files (modules
\* Registry and Vault say how): /resolve finds the longest prefix that is up, the
\* first of equal ones; the first line with a secret's name decides alone; and
\* /snapshot and /stats count the lines that were kept.
AnswersMatchFiles ==
  /\ R!ResolvesLongestUp /\ R!SnapshotMatchesFile
  /\ V!FirstLineDecides /\ V!StatsMatchFile
=============================================================================
