------------------------------ MODULE MCTools ------------------------------
(***************************************************************************)
(* Lines for every reader of Tools: few, and among them those next to each *)
(* limit, the ones that are broken and the ones that repeat a key.         *)
(***************************************************************************)
EXTENDS Tools

MCTool ==
  {"zone", "mx", "tls", "url", "smtp", "reply", "exports", "smb", "proxy", "health",
   "modules", "lsmod", "flags", "cpu", "memory", "seccomp", "sysctl", "pid_ns", "audit",
   "container", "contract", "snapshot", "plan", "reduce", "measure", "secret", "job",
   "events", "policy", "table", "acl", "volumes", "quota", "cap", "mac", "hash", "hmac",
   "product", "path", "token", "record", "entry", "router", "manifest", "demand",
   "observed"}

-----------------------------------------------------------------------------
(* Block 10 *)

ZoneLines ==
  {<<>>, <<";", "A">>, <<"$", "A">>, <<"www", "A", "ip">>, <<"www", "TXT", "A">>,
   <<"MX", ";", "A">>, <<"w", "quote", ";", "A">>, <<"quote", ";", "quote", "NS">>,
   <<"quote", ";", "quote", ";", "NS">>, <<"a", "b", "c", "d", "e">>}

Name(b, s) == [base |-> b, spelling |-> s]

MxLines ==
  {[ntok |-> n, type |-> t, owner |-> o, pref |-> p, host |-> h] :
     n \in {6}, t \in {"MX"}, o \in {Name(0, "plain"), Name(0, "Capitals."), Name(9, "plain")},
     p \in {{0}, {10}}, h \in {Name(1, "dot."), Name(2, "plain")}}
  \union {[ntok |-> n, type |-> t, owner |-> Name(0, "plain"), pref |-> p, host |-> Name(1, "plain")] :
     n \in {5, 6, 17}, t \in {"MX", "A"}, p \in {{}, {65535}, {65536}}}

TlsLine(k, v, n) == [key |-> k, val |-> v, num |-> n]

TlsLines ==
  {TlsLine("protocols", v, {}) : v \in {{"TLSv1.2"}, {"TLSv1.3", "TLSv1.0"}, {}}}
  \union {TlsLine("ciphers", v, {}) : v \in {{"AES"}, {"AES", "RC4"}}}
  \union {TlsLine("min_rsa_bits", {}, n) : n \in {{2047}, {2048}, {}}}
  \union {TlsLine("other", {}, {})}

Piece(is, v) == [is |-> is, value |-> v]
UrlPieces == {Piece("host", 0), Piece("bad", 0), Piece(":", 0), Piece("+", 0), Piece("-", 0),
              Piece("digits", 0), Piece("digits", 1), Piece("digits", 65535), Piece("digits", 65536)}

UrlLines == {[scheme |-> s, authority |-> a] :
               s \in {"https", "http"}, a \in UNION {[1 .. n -> UrlPieces] : n \in 0 .. 4}}

SmtpLines == {"EHLO", "HELO", "MAIL FROM", "RCPT TO", "DATA", ".", "QUIT", "", "text"}

ReplyLines == {[code |-> c, cont |-> d, starttls |-> s] :
                 c \in {{}, {220}, {250}, {500}}, d \in BOOLEAN, s \in BOOLEAN}

ExportsLines == {<<>>, <<{}>>, <<{"rw"}>>, <<{"rw", "no_root_squash"}, {"ro"}>>,
                 <<{}, {"ro"}, {"ro"}>>, <<{"sync"}>>}

AnSmbLine(k, n, key, b) == [kind |-> k, name |-> n, key |-> key, bool |-> b]

SmbLines ==
  {AnSmbLine("section", n, "", {}) : n \in {"global", "data"}}
  \union {AnSmbLine("setting", "", k, b) :
            k \in {"read only", "writable"}, b \in {{}, {TRUE}, {FALSE}}}
  \union {AnSmbLine("setting", "", k, b) : k \in {"guest ok", "browseable"}, b \in {{TRUE}, {FALSE}}}
  \union {AnSmbLine("setting", "", "path", {}), AnSmbLine("broken", "", "", {})}

Backend(n, t, u) == [kind |-> "backend", name |-> n, target |-> t, up |-> u, backend |-> "", len |-> 0]
Route(b, n) == [kind |-> "route", name |-> "", target |-> "", up |-> FALSE, backend |-> b, len |-> n]

ProxyLines ==
  {Backend("b1", "t1", TRUE), Backend("b1", "t2", FALSE), Backend("b2", "t3", TRUE),
   Route("b1", 1), Route("b1", 2), Route("b2", 2), Route("none", 3), Route("b2", 0)}

PlanLines == ProxyLines \union {Backend("b2", "t4", FALSE)}

HealthLines == {[name |-> n, status |-> s] :
                  n \in {"", "svc"}, s \in {{}, {""}, {"ok"}, {"OK"}, {"warn"}, {"Warn"}, {"bad"}}}

-----------------------------------------------------------------------------
(* Block 11 *)

ModulesLines ==
  {[fields |-> 5, use_count |-> u, deps |-> d, state |-> s] :
     u \in {0, 2}, d \in {<<"-">>, <<"m", ",">>, <<",", ",", "m", "1", ",", "n">>},
     s \in {"Live", "Loading"}}
  \union {[fields |-> 4, use_count |-> 1, deps |-> <<"m">>, state |-> "Live"]}

LsmodLines ==
  {[header |-> h, fields |-> 3, used |-> u, size |-> s, module |-> m] :
     h \in {FALSE}, u \in {0, 1}, s \in {0, 5, 6}, m \in {"m1", "m2"}}
  \union {[header |-> TRUE, fields |-> 3, used |-> 1, size |-> 7, module |-> "Module"],
          [header |-> FALSE, fields |-> 2, used |-> 1, size |-> 7, module |-> "m3"]}

FlagsLines == {[bits |-> S] : S \in SUBSET {17, 26, 29, 30, 31, 32, 61}}

Numbers == {{}, {-1}, {0}, {1}, {10000}, {10001}}

CpuLines == {[max |-> m, quota |-> q, period |-> p, weight |-> w] :
               m \in BOOLEAN, q \in Numbers, p \in Numbers, w \in Numbers}

MemoryLines ==
  {[max |-> m, mem |-> n, current_max |-> c, current |-> v, swap_max |-> s, swap |-> w] :
     m \in BOOLEAN, n \in {{}, {0}, {10}}, c \in BOOLEAN, v \in {{}, {0}, {10}, {11}},
     s \in BOOLEAN, w \in {{}, {0}, {5}}}

SeccompLines ==
  {[defaultAction |-> d, rules |-> R \union {[name |-> n, action |-> "SCMP_ACT_ALLOW"] :
      n \in {"write", "exit", "rt_sigreturn"}}] :
     d \in {"SCMP_ACT_ERRNO", "SCMP_ACT_ALLOW"},
     R \in SUBSET [name : {"read", "ptrace", "kexec_load"},
                   action : {"SCMP_ACT_ALLOW", "SCMP_ACT_ERRNO"}]}

SysctlLines ==
  {[key |-> k, val |-> v] :
     k \in {<<"kernel", "kptr_restrict">>, <<"fs", "protected_hardlinks">>, <<"net", "x">>,
            <<"vm", "y">>}, v \in {"", "0", "1"}}
  \union {[key |-> <<>>, val |-> "0"]}

PidNsLines == {[fields |-> f, name |-> n, inode |-> i] :
                 f \in {1, 2}, n \in {"user", "time", "mnt"}, i \in 1 .. 3}

AuditLines == {[key |-> k, val |-> v] : k \in {"kptr", "dmesg", "unpriv_bpf", "symlink", "rpf"},
                 v \in {{1}}}
  \union {[key |-> "kptr", val |-> {}]}
  \union {[key |-> "swap", val |-> v] : v \in {{60}, {61}}}

Setting == [key |-> "", absolute |-> FALSE, json |-> FALSE, mib |-> {}, max |-> FALSE,
            quota |-> {}, period |-> {}, tokens |-> {}]

ContainerLines ==
  {[Setting EXCEPT !.key = k, !.absolute = TRUE, !.json = TRUE] :
     k \in {"rootfs", "cmd", "seccomp_profile"}}
  \union {[Setting EXCEPT !.key = "mem_max", !.mib = {8192}],
          [Setting EXCEPT !.key = "mem_max", !.mib = {8193}],
          [Setting EXCEPT !.key = "cpu_max", !.max = TRUE, !.period = {1}],
          [Setting EXCEPT !.key = "namespaces", !.tokens = {"pid", "mnt", "net"}],
          [Setting EXCEPT !.key = "namespaces", !.tokens = {"pid"}]}

-----------------------------------------------------------------------------
(* Block 12.  Piece and word: a text, the number it is, whether it is good. *)

Text(t) == [text |-> t, num |-> {}, name |-> TRUE]
BadName == [text |-> "a!", num |-> {}, name |-> FALSE]
Num(v) == [text |-> "digits", num |-> {v}, name |-> TRUE]

ContractLines ==
  {<<n, p, t, h>> : n \in {Text("svc"), BadName}, p \in {Num(1), Num(0), Text("p")},
     t \in {Text("https"), Text("tcp"), Text("udp")}, h \in {Text("/path")}}
  \union {<<Text("svc"), Num(65535), Text(""), Text("https"), Text("/path")>>,
          <<Text("svc"), Num(65536), Text("tcp"), Text("/path")>>,
          <<Text("svc"), Num(80), Text(""), Text("/path")>>,
          <<Text("svc"), Num(80), Text("tcp"), Text("/path"), Text("more")>>,
          <<Text("svc"), Num(80), Text("tcp"), Text("health")>>,
          <<Text("https"), Num(80), Text("tcp"), Text("/path")>>}

SnapshotLines ==
  {<<Text("s"), Text("h"), Num(1), x>> : x \in {Text("up"), Text("down"), Text("UP"), Text("")}}
  \union {<<Text("s"), Text(""), Text("h"), Num(1), Text("up")>>,
          <<Text("s"), Text("h"), Num(1), Text("up"), Text("down")>>}

MeasureLines == {Text("svc"), Num(-1), Num(499), Num(500), Num(7)}

SecretLines ==
  {<<Text("db"), s, t, r>> :
     s \in {Text("global"), Text("tenant"), Text("none")},
     t \in {Num(59), Num(60), Num(31536000), Num(31536001), Text("t")},
     r \in {Text("yes"), Text("no"), Text("YES")}}
  \union {<<BadName, Text("global"), Num(60), Text("yes")>>,
          <<Text("db"), Text(""), Text("global"), Num(60), Text("yes")>>,
          <<Text("db"), Text("global"), Num(60)>>}

JobLines ==
  {<<Text("job"), Text("image"), c, m, Num(5)>> :
     c \in {Num(49), Num(50), Num(1999), Num(2000), Num(4000), Num(4001)},
     m \in {Num(63), Num(64), Num(4095), Num(4096), Num(16384), Num(16385)}}
  \union {<<Text("job"), Text("image"), Num(50), Num(64), Num(3600)>>,
          <<Text("job"), Text("image"), Num(50), Num(64), Num(3601)>>,
          <<Text("job"), BadName, Num(50), Num(64), Num(5)>>,
          <<Text("job"), Text(""), Text("image"), Num(50), Num(64), Num(5)>>,
          <<Text("job"), Text("image"), Num(50), Num(64), Num(5), Text("x")>>}

EventsLines == {Text("publish"), Text("ok"), Num(7), Num(-1)}

PolicyLines ==
  {[key |-> k, val |-> {v}] :
     k \in {"tls_required", "mtls_internal", "secrets_rotation_days", "audit_logs",
            "backup_enabled"}, v \in {1}}
  \union {[key |-> "health_interval_sec", val |-> {120}]}
  \union {[key |-> "tls_required", val |-> {2^IntBits + 1}],
          [key |-> "secrets_rotation_days", val |-> {91}],
          [key |-> "audit_logs", val |-> {}]}

\* The commands of MiniCloud.
EntryLines ==
  {<<Text("svc"), Text("host"), p, t, Text("/path"), u>> :
     p \in {Num(80), Num(0)}, t \in {Text("https"), Text("tcp")}, u \in {Text("up"), Text("down")}}
  \union {<<Text("svc"), Text(""), Text("host"), Num(65535), Text("tcp"), Text("/path"), Text("up")>>,
          <<Text("svc"), Num(80), Text("tcp"), Text("/path"), Text("up")>>,
          <<Text("svc"), Text("host"), Num(80), Text("udp"), Text("/path"), Text("up")>>,
          <<Text("svc"), Text("host"), Num(80), Text("tcp"), Text("/path"), Text("up"), Text("x")>>}

ManifestLines ==
  {<<n, Text("global"), t, Text("yes"), r>> :
     n \in {Text("db"), Text("api")}, t \in {Num(59), Num(60)}, r \in {Text("ref1"), Text("ref2")}}
  \union {<<Text("db"), Text("tenant"), Num(60), Text("no"), BadName>>,
          <<Text("db"), Text(""), Text("tenant"), Num(60), Text("no"), Text("ref3"), Text("x")>>,
          <<Text("db"), Text("tenant"), Num(60), Text("no")>>}

OfJobs(pieces) == [of |-> "jobs", pieces |-> pieces]
OfCapacity(k, n) == [of |-> "capacity", key |-> k, num |-> n]

DemandLines ==
  {OfJobs(<<Text("job"), Text("image"), Num(50), Num(64), Num(5)>>),
   OfJobs(<<Text("job"), Text("image"), Num(50), Num(64)>>)}
  \union {OfCapacity("cpu_free_milli", n) : n \in {{99}, {100}, {}}}
  \union {OfCapacity("mem_free_mb", n) : n \in {{127}, {128}}}
  \union {OfCapacity("max_parallel_jobs", n) : n \in {{2}, {1000001}}}

Measure(lat, st) == <<Text("svc"), Num(lat), Num(st)>>
Event(what, lat) == <<Text("ts"), Text("svc"), Text(what), Text("ok"), lat>>
Times(n, words) == FlattenSeq([i \in 1 .. n |-> words])

ObservedLines ==
  {[of |-> "metrics", words |-> w] :
     w \in {Measure(7, 200), Times(4, Measure(7, 499)), Times(19, Measure(7, 200)),
            Measure(7, 500), Measure(-1, 500), <<Text("svc"), Num(7)>>}}
  \union {[of |-> "events", words |-> w] :
     w \in {Event("retry", Num(7)), Event("publish", Num(499)), Event("publish", Num(500)),
            Event("publish", Text("slow"))}}

-----------------------------------------------------------------------------
(* Blocks 08 and 09 *)

TableLines == {[comment |-> c, fields |-> f, mnt |-> m] :
                 c \in BOOLEAN, f \in {2, 3, 4}, m \in {"/", "/home"}}

AclLines == {[comment |-> c, parts |-> p] : c \in BOOLEAN,
               p \in {<<"user">>, <<"group">>, <<"default", "user">>, <<"mask">>}}

VolumesLines == {[fields |-> f, thin |-> t, size |-> [value |-> v, unit |-> u]] :
                   f \in {3, 4}, t \in BOOLEAN, v \in {0, 3}, u \in {"g", "m", "t", "?"}}

QuotaLines ==
  {<<Text("ana"), Num(b), Num(s), Num(h)>> : b \in {4, 5, 6}, s \in {5}, h \in {5, 6}}
  \union {<<Text("#"), Text("user"), Text("blocks")>>, <<Text("ana"), Num(6), Num(5)>>,
          <<Text("ana"), Num(6), Num(5), Num(5), Text("more")>>}

CapLines == {[cap_eff |-> c, mask |-> m] :
               c \in BOOLEAN, m \in {{}, {{}}, {{10}}, {{10, 13}}, {{9, 12}}}}

MacLines ==
  {[says |-> "mode", word |-> w, num |-> {}] : w \in {{}, {"enforcing"}, {"permissive"}}}
  \union {[says |-> s, word |-> {}, num |-> n] :
            s \in {"enforce", "complain", "other"}, n \in {{}, {0}, {2}, {2^IntBits + 2}}}

\* Keys of no byte, within, at and beyond one block; messages that leave room for
\* the length or do not.
HmacLines ==
  [key : {<<>>, <<9, 200>>, <<1, 2, 3, 4, 5, 6>>, <<1, 2, 3, 4, 5, 6, 7>>,
          <<9, 8, 7, 6, 5, 4, 3, 2, 1, 0, 1, 2, 3>>},
   message : {<<>>, <<7>>, <<7, 7, 7>>, <<7, 7, 7, 7>>, <<1, 2, 3, 4, 5, 6>>}]

HashLines == {[i \in 1 .. n |-> b] : n \in 0 .. 5, b \in {7, 128}}

ProductLines == {[x |-> {x}, y |-> {y}] : x \in 0 .. SizeMax, y \in 0 .. SizeMax}

PathLines == {"", ".", "..", "a", "b", "bad!"}

Tokens == UNION {[1 .. n -> {"x", "y"}] : n \in 0 .. 3}
TokenLines == {[candidate |-> c, expected |-> e] : c \in Tokens, e \in Tokens}

RecordLines ==
  {<<u, Text("hex16"), m, f>> : u \in {Text("ana"), BadName}, m \in {Text("hex64"), Text("hex63")},
     f \in {Num(0), Num(1), Num(6), Num(7), Num(8), Text("f")}}
  \union {<<Text("ana"), Text("hex16"), Text(""), Text("hex64"), Num(1)>>,
          <<Text("ana"), Text("hex16"), Text("hex64")>>,
          <<Text("ana"), Text("hex64"), Text("hex16"), Num(1), Num(1)>>}

-----------------------------------------------------------------------------

MCLines(t) ==
  CASE t = "zone" -> ZoneLines [] t = "mx" -> MxLines [] t = "tls" -> TlsLines
    [] t = "url" -> UrlLines [] t = "smtp" -> SmtpLines [] t = "reply" -> ReplyLines
    [] t = "exports" -> ExportsLines [] t = "smb" -> SmbLines [] t = "proxy" -> ProxyLines
    [] t = "health" -> HealthLines [] t = "modules" -> ModulesLines
    [] t = "lsmod" -> LsmodLines [] t = "flags" -> FlagsLines [] t = "cpu" -> CpuLines
    [] t = "memory" -> MemoryLines [] t = "seccomp" -> SeccompLines
    [] t = "sysctl" -> SysctlLines [] t = "pid_ns" -> PidNsLines [] t = "audit" -> AuditLines
    [] t = "container" -> ContainerLines [] t = "contract" -> ContractLines
    [] t = "snapshot" -> SnapshotLines [] t = "plan" -> PlanLines [] t = "reduce" -> HealthLines
    [] t = "measure" -> MeasureLines [] t = "secret" -> SecretLines [] t = "job" -> JobLines
    [] t = "events" -> EventsLines [] t = "policy" -> PolicyLines [] t = "table" -> TableLines
    [] t = "acl" -> AclLines [] t = "volumes" -> VolumesLines [] t = "quota" -> QuotaLines
    [] t = "cap" -> CapLines [] t = "mac" -> MacLines [] t = "hash" -> HashLines
    [] t = "hmac" -> HmacLines
    [] t = "product" -> ProductLines [] t = "path" -> PathLines [] t = "token" -> TokenLines
    [] t = "record" -> RecordLines [] t = "entry" -> EntryLines
    [] t = "router" -> PlanLines [] t = "manifest" -> ManifestLines
    [] t = "demand" -> DemandLines [] t = "observed" -> ObservedLines

\* One command line or one profile is one line; the orders of SMTP, of a policy and
\* of words need more than the others.
MCLongest(t) ==
  CASE t \in {"url", "flags", "cpu", "memory", "seccomp", "product", "token", "hmac"} -> 1
    [] t \in {"contract", "secret", "job", "record", "mx", "modules", "volumes"} -> 2
    [] t \in {"entry", "observed"} -> 4
    [] t \in {"path", "tls", "demand"} -> 5
    [] t \in {"measure", "policy", "audit", "container"} -> 6
    [] t = "events" -> 7
    [] t = "smtp" -> 8
    [] OTHER -> 3
=============================================================================
