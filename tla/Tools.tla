-------------------------------- MODULE Tools --------------------------------
(***************************************************************************)
(* The readers of blocks 08 to 12 as one machine: some reader takes some   *)
(* file, line by line, and its report must be right whatever the lines are *)
(* and wherever the file ends.  The readers are in NetTools (block 10),    *)
(* KernelTools (11), CloudTools (12) and HostTools (08, 09).               *)
(***************************************************************************)
EXTENDS CloudTools, KernelTools, HostTools

CONSTANTS
  Tool,        \* the readers that are looked at
  Lines(_),    \* the lines a reader may find
  Longest(_)   \* the most lines of a file

\* What the program's parser makes of any line of the reader.
IsLine(t, l) ==
  /\ t = "zone"    => ZoneLine(l)
  /\ t = "mx"      => MxLine(l)
  /\ t = "url"     => UrlLine(l)
  /\ t = "exports" => ExportsLine(l)
  /\ t = "smb"     => SmbLine(l)
  /\ t \in {"proxy", "plan", "router"} => ProxyLine(l)
  /\ t = "health"  => HealthLine(l)
  /\ t = "modules" => ModulesLine(l)
  /\ t = "lsmod"   => LsmodLine(l)
  /\ t = "cpu"     => CpuLine(l)
  /\ t = "memory"  => MemoryLine(l)
  /\ t = "seccomp" => SeccompLine(l)
  /\ t \in {"contract", "snapshot", "secret", "job", "entry", "manifest"} => PiecesLine(l)
  /\ t \in {"measure", "events"} => WordLine(l)
  /\ t = "reduce"  => HealthLine(l)
  /\ t = "policy"  => PolicyLine(l)
  /\ t = "demand"  => DemandLine(l)
  /\ t = "observed" => ObservedLine(l)

\* These take a command line or a whole file at once.
OneLine == {"url", "flags", "cpu", "memory", "seccomp", "product", "token", "hmac"}

ASSUME LinesAssumption ==
  \A t \in Tool :
    /\ \A l \in Lines(t) : IsLine(t, l)
    /\ Longest(t) \in Nat
    /\ t \in OneLine => Longest(t) <= 1

VARIABLES
  tool,  \* the reader that runs
  read,  \* the lines it has read
  acc    \* what it remembers of them

vars == <<tool, read, acc>>

\* What each reader begins with.
Start(t) ==
  CASE t = "zone"        -> ZoneStart
    [] t = "mx"          -> MxStart
    [] t = "tls"         -> TlsStart
    [] t = "url"         -> UrlStart
    [] t = "smtp"        -> SmtpStart
    [] t = "reply"       -> ReplyStart
    [] t = "exports"     -> ExportsStart
    [] t = "smb"         -> SmbStart
    [] t = "proxy"       -> ProxyStart
    [] t = "health"      -> HealthStart
    [] t = "modules"     -> ModulesStart
    [] t = "lsmod"       -> LsmodStart
    [] t = "flags"       -> FlagsStart
    [] t = "cpu"         -> CpuStart
    [] t = "memory"      -> MemoryStart
    [] t = "seccomp"     -> SeccompStart
    [] t = "sysctl"      -> SysctlStart
    [] t = "pid_ns"      -> PidNsStart
    [] t = "audit"       -> AuditStart
    [] t = "container"   -> ContainerStart
    [] t = "contract"    -> ContractStart
    [] t = "snapshot"    -> SnapshotStart
    [] t = "plan"        -> PlanStart
    [] t = "reduce"      -> ReduceStart
    [] t = "measure"     -> MeasureStart
    [] t = "secret"      -> SecretStart
    [] t = "job"         -> JobStart
    [] t = "events"      -> EventsStart
    [] t = "policy"      -> PolicyStart
    [] t = "entry"      -> EntryStart
    [] t = "router"     -> RouterStart
    [] t = "manifest"   -> ManifestStart
    [] t = "demand"     -> DemandStart
    [] t = "observed"   -> ObservedStart
    [] t = "table"       -> TableStart
    [] t = "acl"         -> AclStart
    [] t = "volumes"     -> VolumesStart
    [] t = "quota"       -> QuotaStart
    [] t = "cap"         -> CapStart
    [] t = "mac"         -> MacStart
    [] t = "hash"        -> HashStart
    [] t = "hmac"        -> HmacStart
    [] t = "product"     -> ProductStart
    [] t = "path"        -> PathStart
    [] t = "token"       -> TokenStart
    [] t = "record"      -> RecordStart

\* What one line changes.
Step(t, a, l) ==
  CASE t = "zone"        -> ZoneStep(a, l)
    [] t = "mx"          -> MxStep(0, a, l)
    [] t = "tls"         -> TlsStep(a, l)
    [] t = "url"         -> UrlStep(a, l)
    [] t = "smtp"        -> SmtpStep(a, l)
    [] t = "reply"       -> ReplyStep(a, l)
    [] t = "exports"     -> ExportsStep(a, l)
    [] t = "smb"         -> SmbStep(a, l)
    [] t = "proxy"       -> ProxyStep(a, l)
    [] t = "health"      -> HealthStep(a, l)
    [] t = "modules"     -> ModulesStep(a, l)
    [] t = "lsmod"       -> LsmodStep(a, l)
    [] t = "flags"       -> FlagsStep(a, l)
    [] t = "cpu"         -> CpuStep(a, l)
    [] t = "memory"      -> MemoryStep(a, l)
    [] t = "seccomp"     -> SeccompStep(a, l)
    [] t = "sysctl"      -> SysctlStep(a, l)
    [] t = "pid_ns"      -> PidNsStep(a, l)
    [] t = "audit"       -> AuditStep(a, l)
    [] t = "container"   -> ContainerStep(a, l)
    [] t = "contract"    -> ContractStep(a, l)
    [] t = "snapshot"    -> SnapshotStep(a, l)
    [] t = "plan"        -> PlanStep(a, l)
    [] t = "reduce"      -> ReduceStep(a, l)
    [] t = "measure"     -> MeasureStep(a, l)
    [] t = "secret"      -> SecretStep(a, l)
    [] t = "job"         -> JobStep(a, l)
    [] t = "events"      -> EventsStep(a, l)
    [] t = "policy"      -> PolicyStep(a, l)
    [] t = "entry"      -> EntryStep(a, l)
    [] t = "router"     -> RouterStep(a, l)
    [] t = "manifest"   -> ManifestStep(a, l)
    [] t = "demand"     -> DemandStep(a, l)
    [] t = "observed"   -> ObservedStep(a, l)
    [] t = "table"       -> TableStep(a, l)
    [] t = "acl"         -> AclStep(a, l)
    [] t = "volumes"     -> VolumesStep(a, l)
    [] t = "quota"       -> QuotaStep(a, l)
    [] t = "cap"         -> CapStep(a, l)
    [] t = "mac"         -> MacStep(a, l)
    [] t = "hash"        -> HashStep(a, l)
    [] t = "hmac"        -> HmacStep(a, l)
    [] t = "product"     -> ProductStep(a, l)
    [] t = "path"        -> PathStep(a, l)
    [] t = "token"       -> TokenStep(a, l)
    [] t = "record"      -> RecordStep(a, l)

\* Some loops end before the file does.
Stops(t, a) ==
  CASE t \in {"zone", "mx", "proxy"} -> a = Failed
    [] t = "smtp"              -> SmtpStops(a)
    [] OTHER                   -> FALSE

Init ==
  /\ tool \in Tool
  /\ read = <<>>
  /\ acc = Start(tool)

ReadLine ==
  /\ Len(read) < Longest(tool)
  /\ ~Stops(tool, acc)
  /\ \E l \in Lines(tool) :
       /\ read' = Append(read, l)
       /\ acc' = Step(tool, acc, l)
  /\ UNCHANGED tool

Next == ReadLine

Spec == Init /\ [][Next]_vars

-----------------------------------------------------------------------------
\* The reports of block 10: zones, mail exchangers, TLS policies, URLs, SMTP
\* dialogues, exports, shares, routes and health. After any number of lines,
\* in any order, each says of the whole file what its Matches says.
NetReportsMatch ==
  /\ tool = "zone"      => ZoneMatches(read, acc)
  /\ tool = "mx"        => MxMatches(0, read, acc)
  /\ tool = "tls"       => TlsMatches(read, acc)
  /\ tool = "url"       => UrlMatches(read, acc)
  /\ tool = "smtp"      => SmtpMatches(read, acc)
  /\ tool = "reply"     => ReplyMatches(read, acc)
  /\ tool = "exports"   => ExportsMatches(read, acc)
  /\ tool = "smb"       => SmbMatches(read, acc)
  /\ tool = "proxy"     => ProxyMatches(read, acc)
  /\ tool = "health"    => HealthMatches(read, acc)

\* The reports of block 11: modules, namespaces, control groups, seccomp
\* profiles, kernel settings and containers. After any number of lines, in
\* any order, each says of the whole file what its Matches says.
KernelReportsMatch ==
  /\ tool = "modules"   => ModulesMatches(read, acc)
  /\ tool = "lsmod"     => LsmodMatches(read, acc)
  /\ tool = "flags"     => FlagsMatches(read, acc)
  /\ tool = "cpu"       => CpuMatches(read, acc)
  /\ tool = "memory"    => MemoryMatches(read, acc)
  /\ tool = "seccomp"   => SeccompMatches(read, acc)
  /\ tool = "sysctl"    => SysctlMatches(read, acc)
  /\ tool = "pid_ns"    => PidNsMatches(read, acc)
  /\ tool = "audit"     => AuditMatches(read, acc)
  /\ tool = "container" => ContainerMatches(read, acc)

\* The reports of block 12: contracts, snapshots, plans, readiness, measures,
\* secrets, jobs, events and policies, and MiniCloud's five commands. After any number of lines, in any
\* order, each says of the whole file what its Matches says.
CloudReportsMatch ==
  /\ tool = "contract"  => ContractMatches(read, acc)
  /\ tool = "snapshot"  => SnapshotMatches(read, acc)
  /\ tool = "plan"      => PlanMatches(read, acc)
  /\ tool = "reduce"    => ReduceMatches(read, acc)
  /\ tool = "measure"   => MeasureMatches(read, acc)
  /\ tool = "secret"    => SecretMatches(read, acc)
  /\ tool = "job"       => JobMatches(read, acc)
  /\ tool = "events"    => EventsMatches(read, acc)
  /\ tool = "policy"    => PolicyMatches(read, acc)
  /\ tool = "entry"    => EntryMatches(read, acc)
  /\ tool = "router"   => RouterMatches(read, acc)
  /\ tool = "manifest" => ManifestMatches(read, acc)
  /\ tool = "demand"   => DemandMatches(read, acc)
  /\ tool = "observed" => ObservedMatches(read, acc)

\* The reports of blocks 08 and 09: mounts, volumes, quotas, capabilities,
\* hashed and signed messages, products, paths and records. After any number of lines,
\* in any order, each says of the whole file what its Matches says.
HostReportsMatch ==
  /\ tool = "table"     => TableMatches(read, acc)
  /\ tool = "acl"       => AclMatches(read, acc)
  /\ tool = "volumes"   => VolumesMatches(read, acc)
  /\ tool = "quota"     => QuotaMatches(read, acc)
  /\ tool = "cap"       => CapMatches(read, acc)
  /\ tool = "mac"       => MacMatches(read, acc)
  /\ tool = "hash"      => HashMatches(read, acc)
  /\ tool = "hmac"      => HmacMatches(read, acc)
  /\ tool = "product"   => ProductMatches(read, acc)
  /\ tool = "path"      => PathMatches(read, acc)
  /\ tool = "token"     => TokenMatches(read, acc)
  /\ tool = "record"    => RecordMatches(read, acc)

\* A required key that is missing is one failure of the audit of the kernel
\* (kernel_tuning_auditor main.c 133).
MissingKeyIsOneFailure == tool = "audit" => MissingIsOneFailure(read, acc)
=============================================================================
