----------------------------- MODULE KernelTools -----------------------------
(***************************************************************************)
(* The readers of block 11 (practica): what the kernel reports about       *)
(* modules, namespaces and control groups, and the configuration of a      *)
(* container.  Lines and numbers are given as in NetTools.                 *)
(***************************************************************************)
EXTENDS Tally

CONSTANTS
  MaxIds,    \* namespace ids that are remembered (64)
  MaskBits   \* bits of a uint32_t

ASSUME KernelAssumption == MaxIds \in Nat /\ MaskBits \in Nat /\ MaskBits > 30

-----------------------------------------------------------------------------
(* e01: /proc/modules.  deps is a sequence of names and commas, <<"-">> for *)
(* none.                                                                    *)

\* Names between commas; empty ones are not counted.
CountDeps(deps) ==
  IF deps = <<"-">> THEN 0
  ELSE FoldLeft(LAMBDA s, x : [before |-> x,
                               n |-> IF x # "," /\ s.before = "," THEN s.n + 1 ELSE s.n],
                [before |-> ",", n |-> 0], deps).n

\* sscanf counts the fields.  The kernel says - for none, and in no other place.
ModulesLine(l) ==
  l.fields \in Int /\ l.deps \in Seq(STRING) /\ (l.deps # <<"-">> => "-" \notin ToSet(l.deps))

ModulesStart == Zero({"modules", "in_use", "dep_edges", "live"})

ModulesStep(a, l) ==
  IF l.fields < 5 THEN a
  ELSE [modules |-> a.modules + 1,
        in_use |-> a.in_use + If01(l.use_count > 0),
        dep_edges |-> a.dep_edges + CountDeps(l.deps),
        live |-> a.live + If01(l.state = "Live")]

ModulesMatches(read, a) ==
  LET Kept == {i \in DOMAIN read : read[i].fields >= 5}
      Starts(d) == {j \in DOMAIN d : d[j] \notin {",", "-"} /\ (j > 1 => d[j - 1] = ",")}
  IN /\ a.modules = Cardinality(Kept)
     /\ a.in_use = Cardinality({i \in Kept : read[i].use_count > 0})
     /\ a.live = Cardinality({i \in Kept : read[i].state = "Live"})
     /\ a.dep_edges =
          Cardinality(UNION {{<<i, j>> : j \in Starts(read[i].deps)} : i \in Kept})

-----------------------------------------------------------------------------
(* e02: lsmod. *)

LsmodLine(l) == l.size \in Int

LsmodStart == [modules |-> 0, busy |-> 0, top_size |-> 0, top_module |-> {}]

LsmodStep(a, l) ==
  IF l.header \/ l.fields # 3 THEN a
  ELSE [modules |-> a.modules + 1,
        busy |-> a.busy + If01(l.used > 0),
        top_size |-> IF l.size > a.top_size THEN l.size ELSE a.top_size,
        top_module |-> IF l.size > a.top_size THEN {l.module} ELSE a.top_module]

\* The first of the largest is named; a size of 0 is never the largest.
LsmodMatches(read, a) ==
  LET Rows == {i \in DOMAIN read : ~read[i].header /\ read[i].fields = 3}
  IN /\ a.modules = Cardinality(Rows) /\ a.busy <= a.modules
     /\ a.top_module =
          {read[i].module : i \in {i \in Rows :
             /\ read[i].size > 0
             /\ \A j \in Rows : read[j].size < read[i].size
                                  \/ (read[j].size = read[i].size /\ i <= j)}}

-----------------------------------------------------------------------------
(* e03: the flags of clone.  A mask is the set of its bits; strtoul gives   *)
(* an unsigned long and the cast drops what is above.                       *)

NamespaceBit ==
  [mnt |-> 17, cgroup |-> 25, uts |-> 26, ipc |-> 27, user |-> 28, pid |-> 29, net |-> 30]

FlagsStart == {}
FlagsStep(a, l) ==
  LET mask == l.bits \cap 0 .. MaskBits - 1 IN
    {ns \in DOMAIN NamespaceBit : NamespaceBit[ns] \in mask}

FlagsMatches(read, a) ==
  \A l \in ToSet(read) : \A ns \in DOMAIN NamespaceBit : ns \in a <=> NamespaceBit[ns] \in l.bits

-----------------------------------------------------------------------------
(* e04: cpu.max and cpu.weight of a control group; quota is "max" or a      *)
(* number.                                                                  *)

CpuLine(l) == l.max \in BOOLEAN

CpuStart == {}

CpuStep(a, l) ==
  LET period == {p \in l.period : p > 0}
      quota == {q \in l.quota : q > 0}
      weight == {w \in l.weight : w \in 1 .. 10000}
  IN {[limited |-> ~l.max, quota |-> q, period |-> p, weight |-> w] :
        q \in IF l.max THEN {-1} ELSE quota, p \in period, w \in weight}

\* Accepted: a limit is a positive part of a positive period, and no quota is
\* kept for "max".
CpuMatches(read, a) ==
  /\ \A c \in a : c.period > 0 /\ c.weight >= 1 /\ (c.limited <=> c.quota > 0)
  /\ \A l \in ToSet(read) :
       a = {} <=> \/ {p \in l.period : p > 0} = {}
                  \/ ~l.max /\ {q \in l.quota : q > 0} = {}
                  \/ l.weight \cap 1 .. 10000 = {}

-----------------------------------------------------------------------------
(* e05: memory.max, memory.current and memory.swap.max.                     *)

MemoryLine(l) == Parsed(l.mem, Nat) /\ Parsed(l.current, Nat) /\ Parsed(l.swap, Nat)

MemoryStart == {}

\* max, or a number; used_pct is -1 when there is nothing to divide by.
MemoryStep(a, l) ==
  {[mem_limited |-> ~l.max, swap_limited |-> ~l.swap_max,
    used_pct |-> IF ~l.max /\ m > 0 THEN (100 * c) \div m ELSE -1] :
     m \in IF l.max THEN {0} ELSE l.mem,
     c \in If(~l.current_max, l.current),
     s \in IF l.swap_max THEN {0} ELSE l.swap}

MemoryMatches(read, a) ==
  \A l \in ToSet(read) : \A r \in a :
    /\ r.used_pct = -1 <=> (l.max \/ l.mem = {0})
    /\ r.used_pct > 100 => \E m \in l.mem, c \in l.current : c > m
    /\ ~l.current_max

-----------------------------------------------------------------------------
(* e06: a seccomp profile.  The program looks for words in the whole file;  *)
(* the profile is its default action and its rules.                         *)

\* The actions and the system calls a profile names, and the words of the file.
ActionsOf(p) == {p.defaultAction} \union {r.action : r \in p.rules}
CallsOf(p) == {r.name : r \in p.rules}
Words(p) == {"defaultAction"} \union ActionsOf(p) \union CallsOf(p)

\* What a slip makes of the first rule: the action itself is not looked for.
DefaultNamed(p) == "defaultAction" \in Words(p)

DefaultOk(p) == {"defaultAction", "SCMP_ACT_ERRNO"} \subseteq Words(p)
RequiredCalls == {"read", "write", "exit", "rt_sigreturn"}
RequiredOk(p) == RequiredCalls \subseteq Words(p)
DangerousCalls == {"ptrace", "kexec_load", "keyctl"}
Dangerous(p) == DangerousCalls \cap Words(p) # {}

\* No action has the name of a call, and no call that of an action.
SeccompLine(p) ==
  /\ ActionsOf(p) \cap (RequiredCalls \union DangerousCalls) = {}
  /\ "SCMP_ACT_ERRNO" \notin CallsOf(p)

SeccompStart == {}
SeccompStep(a, p) ==
  If(DefaultOk(p), {"default_ok"}) \union If(RequiredOk(p), {"required_ok"})
    \union If(Dangerous(p), {"dangerous"})
    \union If(DefaultOk(p) /\ RequiredOk(p) /\ ~Dangerous(p), {"secure"})

\* What the kernel does with a call: the actions of its rules, or the default.
ActionsOn(p, c) ==
  IF c \in CallsOf(p) THEN {r.action : r \in {q \in p.rules : q.name = c}} ELSE {p.defaultAction}

\* The first rule says that SCMP_ACT_ERRNO is the default action or that of some rule
\* (main.c:74 wants the default to deny: a profile that allows by default and has one
\* rule with SCMP_ACT_ERRNO passes); the second that each required call is named,
\* whatever its action; the third that a dangerous one is, whatever its action.  So of
\* a secure profile only this is sure: its default action decides the dangerous calls,
\* which may allow them; they are denied where no rule has SCMP_ACT_ERRNO, for then
\* the default action is the one that was found.
SeccompMatches(read, a) ==
  \A p \in ToSet(read) :
    /\ "default_ok" \in a <=> "SCMP_ACT_ERRNO" \in ActionsOf(p)
    /\ "required_ok" \in a <=> RequiredCalls \subseteq CallsOf(p)
    /\ "dangerous" \in a <=> \E r \in p.rules : r.name \in DangerousCalls
    /\ "secure" \in a => \A c \in DangerousCalls : ActionsOn(p, c) = {p.defaultAction}
    /\ "secure" \in a /\ (\A r \in p.rules : r.action # "SCMP_ACT_ERRNO") =>
         \A c \in DangerousCalls : ActionsOn(p, c) = {"SCMP_ACT_ERRNO"}
    /\ p.defaultAction = "SCMP_ACT_ERRNO" /\ RequiredCalls \subseteq CallsOf(p)
         /\ DangerousCalls \cap CallsOf(p) = {} => "secure" \in a

-----------------------------------------------------------------------------
(* e07: sysctl.conf.  A key is its group and its name.                      *)

SysctlStart == Zero({"total", "net", "vm", "kernel", "unsafe"})

UnsafeKeys ==
  {<<"kernel", "kptr_restrict">>, <<"kernel", "unprivileged_bpf_disabled">>,
   <<"fs", "protected_hardlinks">>}

IsUnsafe(l) == l.key \in UnsafeKeys /\ l.val = "0"

SysctlStep(a, l) ==
  IF l.key = <<>> \/ l.val = "" THEN a
  ELSE Bump(a, {"total"} \union ({Head(l.key)} \cap {"net", "vm", "kernel"})
                         \union If(IsUnsafe(l), {"unsafe"}))

SysctlMatches(read, a) ==
  /\ a.net + a.vm + a.kernel <= a.total /\ a.unsafe <= a.total
  /\ a.total = Count(read, LAMBDA l : l.key # <<>> /\ l.val # "")
  /\ a.unsafe = Count(read, LAMBDA l : l.key \in UnsafeKeys /\ l.val = "0")

-----------------------------------------------------------------------------
(* e08: the namespaces of a process.                                        *)

PidNsStart == [ns_total |-> 0, ids |-> <<>>, has |-> {}]

PidNsStep(a, l) ==
  IF l.fields # 2 THEN a
  ELSE [ns_total |-> a.ns_total + 1,
        ids |-> IF l.inode \notin ToSet(a.ids) /\ Len(a.ids) < MaxIds
                THEN Append(a.ids, l.inode) ELSE a.ids,
        has |-> a.has \union ({l.name} \cap {"user", "time"})]

\* unique_ids is the number of different ids until the table is full.
PidNsMatches(read, a) ==
  LET Inodes == {l.inode : l \in {m \in ToSet(read) : m.fields = 2}}
  IN /\ Len(a.ids) = Min({MaxIds, Cardinality(Inodes)})
     /\ IsInjective(a.ids) /\ ToSet(a.ids) \subseteq Inodes
     /\ a.ns_total >= Len(a.ids)

-----------------------------------------------------------------------------
(* e09: the audit of the kernel's settings.  val is what parse_long gives.  *)

AuditKeys == {"kptr", "dmesg", "unpriv_bpf", "symlink", "rpf", "swap"}

AuditPass(key, v) == IF key = "swap" THEN v \in 0 .. 60 ELSE v = 1

AuditStart == [have |-> {}, pass |-> {}]

\* A slip of AuditStep: a key that passed once passes for good.
AuditStepSticky(a, l) ==
  IF l.key \notin AuditKeys \/ l.val = {} THEN a
  ELSE [have |-> a.have \union {l.key},
        pass |-> a.pass \union If(\A v \in l.val : AuditPass(l.key, v), {l.key})]

AuditStep(a, l) ==
  IF l.key \notin AuditKeys \/ l.val = {} THEN a
  ELSE [have |-> a.have \union {l.key},
        pass |-> (a.pass \ {l.key}) \union If(\A v \in l.val : AuditPass(l.key, v), {l.key})]

\* A missing key has not passed, and is subtracted as well.
AuditFail(a) ==
  LET pass == Cardinality(a.pass) - Cardinality(AuditKeys \ a.have)
  IN Cardinality(AuditKeys) - Max({pass, 0})

AuditStatus(a) ==
  CASE AuditFail(a) >= 2 -> "CRIT" [] AuditFail(a) = 1 -> "WARN" [] OTHER -> "OK"

\* The last number of a key decides.
Decided(read, k) == LastOf(read, LAMBDA l : l.key = k /\ l.val # {})

\* The keys whose last number does not pass, and those without a number.
Failing(read) ==
  {k \in AuditKeys : ~ \E l \in Decided(read, k) : \A v \in l.val : AuditPass(k, v)}
Missing(read) == {k \in AuditKeys : Decided(read, k) = {}}

\* OK is said exactly when every key was given and its last number passes; a
\* missing key counts twice, and never more than all of them are failures.
AuditMatches(read, a) ==
  /\ AuditStatus(a) = "OK" <=> Failing(read) = {}
  /\ AuditStatus(a) = "WARN" => Missing(read) = {}
  /\ AuditFail(a) = Min({Cardinality(AuditKeys),
                        Cardinality(Failing(read)) + Cardinality(Missing(read))})

\* A key that is missing is a failure of its policy (kernel_tuning_auditor
\* main.c 133): one failure, so the failures are the keys without a value that
\* passes.
MissingIsOneFailure(read, a) == AuditFail(a) = Cardinality(Failing(read))

-----------------------------------------------------------------------------
(* e10: the configuration of a container.  Of a value only whether it is    *)
(* good for its key matters.                                                *)

ContainerKeys == {"rootfs", "cmd", "mem_max", "cpu_max", "namespaces", "seccomp_profile"}

\* 16 MiB to 8 GiB; a quota of a period, neither 0; pid and mnt both there.
GoodValue(l) ==
  CASE l.key \in {"rootfs", "cmd"} -> l.absolute
    [] l.key = "mem_max"    -> \E mib \in l.mib : mib \in 16 .. 8192
    [] l.key = "cpu_max"    -> (l.max \/ \E q \in l.quota : q > 0) /\ \E p \in l.period : p > 0
    [] l.key = "namespaces" -> {"pid", "mnt"} \subseteq l.tokens
    [] l.key = "seccomp_profile" -> l.absolute /\ l.json

\* The last value of each key is kept.
ContainerStart == [k \in ContainerKeys |-> {}]
ContainerStep(a, l) == IF l.key \in ContainerKeys THEN [a EXCEPT ![l.key] = {l}] ELSE a

ContainerValid(a) == \A k \in ContainerKeys : \E l \in a[k] : GoodValue(l)
Present(a) == {k \in ContainerKeys : a[k] # {}}

\* The last line of each key decides, and one bad or missing key is enough.
ContainerMatches(read, a) ==
  LET Good(k) == \E l \in LastOf(read, LAMBDA m : m.key = k) : GoodValue(l) IN
    /\ Present(a) = {l.key : l \in ToSet(read)} \cap ContainerKeys
    /\ \A k \in ContainerKeys : Good(k) <=> \E l \in a[k] : GoodValue(l)
    /\ ContainerValid(a) <=> \A k \in ContainerKeys : Good(k)
=============================================================================
