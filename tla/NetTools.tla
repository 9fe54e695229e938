------------------------------ MODULE NetTools ------------------------------
(***************************************************************************)
(* The readers of block 10 (practica): each takes a configuration or a     *)
(* recorded dialogue line by line.  For each there is what it starts with, *)
(* what one line does and what it reports at the end; "..Matches" says the *)
(* report once more, from all the lines at once.                           *)
(*                                                                         *)
(* A line is given by its parts as the program splits it; a number that    *)
(* was parsed is a set with it, {} when the text is no number.             *)
(***************************************************************************)
EXTENDS Tally

CONSTANTS
  MaxTokens,     \* tokens of a zone line
  MxTokens,      \* tokens of a line that may name an exchanger (16)
  MaxBackends,   \* MAX_BACKENDS, MAX_BE
  MaxRoutes      \* MAX_ROUTES, MAX_RT

\* Sizes of arrays.
ASSUME NetAssumption ==
  MaxTokens \in Nat /\ MxTokens \in Nat /\ MaxBackends \in Nat /\ MaxRoutes \in Nat

-----------------------------------------------------------------------------
(* e01: records of a zone by type.  A line is a sequence of words, quotes  *)
(* and semicolons; "$" begins a directive.                                 *)

RecordTypes == {"A", "AAAA", "CNAME", "MX", "NS", "SOA", "TXT"}

\* A semicolon outside quotes begins a comment.
StripComment(line) ==
  LET scan(s, x) ==
        IF s.cut \/ (x = ";" /\ ~s.quoted) THEN [s EXCEPT !.cut = TRUE]
        ELSE [s EXCEPT !.quoted = IF x = "quote" THEN ~@ ELSE @,
                       !.kept = Append(@, x)]
  IN FoldLeft(scan, [cut |-> FALSE, quoted |-> FALSE, kept |-> <<>>], line).kept

\* The first word that names a type, wherever it stands.
DetectType(t) ==
  {t[i] : i \in {i \in DOMAIN t :
     t[i] \in RecordTypes /\ \A j \in 1 .. i - 1 : t[j] \notin RecordTypes}}

\* strtok makes words of it.
ZoneLine(l) == l \in Seq(STRING)

ZoneStart == Zero(RecordTypes \union {"total"})

ZoneStep(a, line) ==
  LET t == StripComment(line) IN
    CASE t = <<>>           -> a
      [] t # <<>> /\ Head(t) = "$" -> a
      [] Len(t) > MaxTokens /\ Head(t) # "$" -> Failed
      [] OTHER -> Bump(a, DetectType(t) \union If(DetectType(t) # {}, {"total"}))

QuotesBefore(l, i) == Cardinality({j \in 1 .. i - 1 : l[j] = "quote"})

\* A word counts unless a semicolon with closed quotes stands before it.
Visible(l, i) == \A j \in 1 .. i : l[j] = ";" => QuotesBefore(l, j) % 2 = 1

ZoneMatches(read, a) ==
  a # Failed =>
    /\ a.total = a.A + a.AAAA + a.CNAME + a.MX + a.NS + a.SOA + a.TXT
    /\ \A ty \in RecordTypes :
         a[ty] = Count(read, LAMBDA l :
           /\ l # <<>> /\ l[1] \notin {"$", ";"}
           /\ \E i \in DOMAIN l :
                /\ l[i] = ty /\ Visible(l, i)
                /\ \A j \in 1 .. i - 1 : l[j] \notin RecordTypes)

-----------------------------------------------------------------------------
(* e02: the mail exchanger of a zone.  A name has a base, whose order is   *)
(* that of strcmp, and a spelling: capitals and dots at the end.           *)

NormalizeDnsName(name) == name.base

\* The preferences that are taken.
MxRange == 0 .. 65535

MxCandidate(zone, l) ==
  /\ l.ntok >= 6 /\ l.type = "MX"
  /\ NormalizeDnsName(l.owner) = zone
  /\ \E p \in l.pref : p \in MxRange

\* strtol parses one preference or none; names are compared by strcmp.
MxLine(l) == l.ntok \in Int /\ Parsed(l.pref, Int) /\ l.host.base \in Int

MxStart == [count |-> 0, best |-> {}]

MxLess(p, h, b) == p < b.pref \/ (p = b.pref /\ h < b.host)

\* A line of too many tokens fails the whole parse.
MxStep(zone, a, l) ==
  LET h == NormalizeDnsName(l.host) IN
    CASE l.ntok > MxTokens -> Failed
      [] l.ntok <= MxTokens /\ ~MxCandidate(zone, l) -> a
      [] OTHER ->
           [count |-> a.count + 1,
            best |-> UNION {IF \A b \in a.best : MxLess(p, h, b)
                            THEN {[pref |-> p, host |-> h]} ELSE a.best : p \in l.pref}]

\* Whatever the order of the lines, the least preference wins, and among equal
\* ones the least host.
MxMatches(zone, read, a) ==
  LET C == {[pref |-> Min(l.pref), host |-> l.host.base] :
              l \in {m \in ToSet(read) : MxCandidate(zone, m)}}
  IN /\ a = Failed <=> \E l \in ToSet(read) : l.ntok > MxTokens
     /\ a # Failed =>
          /\ a.count = Count(read, LAMBDA l : MxCandidate(zone, l))
          /\ a.best \subseteq C /\ (C # {} => a.best # {})
          /\ \A b \in a.best, c \in C : c = b \/ MxLess(b.pref, b.host, c)

-----------------------------------------------------------------------------
(* e03: a TLS policy.  The value of protocols and ciphers is the set of    *)
(* names in it.                                                            *)

TlsKeys == {"protocols", "ciphers", "min_rsa_bits"}

TlsGood(l) ==
  CASE l.key = "protocols" ->
         /\ l.val \cap {"TLSv1.2", "TLSv1.3"} # {}
         /\ l.val \cap {"TLSv1.0", "TLSv1.1", "SSLv3", "SSLv2"} = {}
    [] l.key = "ciphers" -> l.val \cap {"RC4", "3DES", "NULL", "MD5"} = {}
    [] l.key = "min_rsa_bits" -> \E bits \in l.num : bits >= 2048

TlsStart == [saw |-> {}, ok |-> {}]

TlsStep(a, l) ==
  IF l.key \notin TlsKeys THEN a
  ELSE [saw |-> a.saw \union {l.key},
        ok |-> (a.ok \ {l.key}) \union If(TlsGood(l), {l.key})]

TlsReport(a) ==
  IF a.saw # TlsKeys THEN "error" ELSE IF a.ok = TlsKeys THEN "strong" ELSE "weak"

\* The last line of each key decides, and all keys are needed.
TlsMatches(read, a) ==
  /\ TlsReport(a) = "strong" <=>
       \A k \in TlsKeys : \E l \in LastOf(read, LAMBDA m : m.key = k) : TlsGood(l)
  /\ TlsReport(a) = "error" <=> \E k \in TlsKeys : Count(read, LAMBDA m : m.key = k) = 0

-----------------------------------------------------------------------------
(* e04: an https URL.  The authority is a sequence of pieces: "host" (good *)
(* characters), "bad", ":", "+", "-" and digits, which have their value.   *)

Ports == 1 .. 65535

\* What stands between :// and the path.
UrlLine(u) == u.authority \in Seq([is : STRING, value : Int])

UrlStart == {}

PortOf(text) ==
  LET digits == IF text # <<>> /\ Head(text).is = "+" THEN Tail(text) ELSE text IN
    {d.value : d \in {x \in ToSet(digits) :
       Len(digits) = 1 /\ x.is = "digits" /\ x.value \in Ports}}

\* The last colon divides host and port; strtoul takes a plus sign (and a minus sign,
\* which makes of the digits given here a number out of range).
ParseUrl(u) ==
  LET colons == {i \in DOMAIN u.authority : u.authority[i].is = ":"}
      last == IF colons = {} THEN Len(u.authority) + 1 ELSE Max(colons)
      host == SubSeq(u.authority, 1, last - 1)
      ports == IF colons = {} THEN {443}
               ELSE PortOf(SubSeq(u.authority, last + 1, Len(u.authority)))
  IN {[host |-> host, port |-> p] : p \in
       If(/\ u.scheme = "https" /\ host # <<>>
          /\ \A x \in ToSet(host) : x.is \in {"host", "digits", "-"}, ports)}

UrlStep(a, u) == ParseUrl(u)

\* Accepted is host, or host, colon and a port in range: never two colons, and
\* never an empty host or port.
UrlMatches(read, a) ==
  \A u \in ToSet(read) :
    LET w == [i \in DOMAIN u.authority |-> u.authority[i].is]
        n == Len(w)
        named(k) == k >= 1 /\ \A i \in 1 .. k : w[i] \in {"host", "digits", "-"}
        port == u.authority[n].value \in Ports
    IN a # {} <=>
       /\ u.scheme = "https"
       /\ \/ named(n)
          \/ n >= 3 /\ named(n - 2) /\ w[n - 1] = ":" /\ w[n] = "digits" /\ port
          \/ n >= 4 /\ named(n - 3) /\ w[n - 2] = ":" /\ w[n - 1] = "+"
             /\ w[n] = "digits" /\ port

-----------------------------------------------------------------------------
(* e05: the order of an SMTP dialogue.  A line is its command, "." for the *)
(* end of the body, "" for an empty line.                                  *)

SmtpStart == [state |-> "GREET", valid |-> TRUE, rcpt |-> 0, body |-> 0]

SmtpGo(a, state) == [a EXCEPT !.state = state]
SmtpReject(a) == [a EXCEPT !.valid = FALSE]

SmtpStep(a, l) ==
  CASE l = "" /\ a.state # "DATA_BODY"               -> a
    [] a.state = "GREET" /\ l \in {"EHLO", "HELO"}   -> SmtpGo(a, "MAIL")
    [] a.state = "MAIL" /\ l = "MAIL FROM"           -> SmtpGo(a, "RCPT_OR_DATA")
    [] a.state = "RCPT_OR_DATA" /\ l = "RCPT TO"     -> [a EXCEPT !.rcpt = @ + 1]
    [] a.state = "RCPT_OR_DATA" /\ l = "DATA" /\ a.rcpt > 0 -> SmtpGo(a, "DATA_BODY")
    [] a.state = "DATA_BODY" /\ l = "."              -> SmtpGo(a, "QUIT")
    [] a.state = "DATA_BODY" /\ l # "."              -> [a EXCEPT !.body = @ + 1]
    [] a.state = "QUIT" /\ l = "QUIT"                -> SmtpGo(a, "DONE")
    [] OTHER                                         -> SmtpReject(a)

\* The loop breaks at the first fault and at QUIT.
SmtpStops(a) == ~a.valid \/ a.state = "DONE"

\* Empty lines.
Blank(read, i, j) == \A k \in i .. j : read[k] = ""

\* A valid dialogue is a greeting, a sender, recipients, one body that ends with
\* the first point, and QUIT; empty lines count only in the body.
SmtpMatches(read, a) ==
  (a.valid /\ a.state = "DONE") <=>
    \E d, e \in DOMAIN read :
      /\ d < e /\ read[d] = "DATA" /\ read[e] = "."
      /\ \A i \in d + 1 .. e - 1 : read[i] # "."
      /\ a.body = e - d - 1
      /\ \E q \in e + 1 .. Len(read) :
           read[q] = "QUIT" /\ Blank(read, e + 1, q - 1) /\ Blank(read, q + 1, Len(read))
      /\ \E g, m \in 1 .. d - 1 :
           /\ g < m /\ read[g] \in {"EHLO", "HELO"} /\ read[m] = "MAIL FROM"
           /\ Blank(read, 1, g - 1) /\ Blank(read, g + 1, m - 1)
           /\ \A i \in m + 1 .. d - 1 : read[i] \in {"RCPT TO", ""}
      /\ a.rcpt = Cardinality({i \in 1 .. d - 1 : read[i] = "RCPT TO"}) /\ a.rcpt >= 1

-----------------------------------------------------------------------------
(* e06: replies of an SMTP server.  code is {} on a line that is no reply. *)

ReplyStart == [greet |-> 0, final |-> 0, caps |-> 0, starttls |-> FALSE]

ReplyStep(a, l) ==
  [greet |-> IF a.greet = 0 /\ l.code = {220} THEN 220 ELSE a.greet,
   final |-> IF l.code = {250} THEN 250 ELSE a.final,
   caps |-> IF l.code = {250} /\ l.cont THEN a.caps + 1 ELSE a.caps,
   starttls |-> a.starttls \/ (l.code = {250} /\ l.starttls)]

ReplyMatches(read, a) ==
  /\ a.caps = Count(read, LAMBDA l : l.code = {250} /\ l.cont)
  /\ a.caps > 0 \/ a.starttls => a.final = 250
  /\ a.greet = 220 <=> Count(read, LAMBDA l : l.code = {220}) > 0
  /\ a.starttls <=> Count(read, LAMBDA l : l.code = {250} /\ l.starttls) > 0

-----------------------------------------------------------------------------
(* e07: NFS exports.  A line is the sequence of its clients, each the set  *)
(* of its options, {} when there are no parentheses with something inside. *)

\* A client is the set of its options.
ExportsLine(l) == l \in Seq(SUBSET STRING)

ExportsStart == Zero({"exports", "hosts", "rw", "ro", "no_root_squash"})

With(clients, option) == Cardinality({i \in DOMAIN clients : option \in clients[i]})

ExportsStep(a, clients) ==
  [exports |-> a.exports + 1,
   hosts |-> a.hosts + Cardinality({i \in DOMAIN clients : clients[i] # {}}),
   rw |-> a.rw + With(clients, "rw"),
   ro |-> a.ro + With(clients, "ro"),
   no_root_squash |-> a.no_root_squash + With(clients, "no_root_squash")]

ExportsMatches(read, a) ==
  LET Pairs == UNION {{<<i, j>> : j \in DOMAIN read[i]} : i \in DOMAIN read}
      Listed(o) == Cardinality({p \in Pairs : o \in read[p[1]][p[2]]})
  IN /\ a.exports = Len(read)
     /\ \A o \in {"rw", "ro", "no_root_squash"} : a[o] = Listed(o) /\ a[o] <= a.hosts
     /\ a.hosts + Cardinality({p \in Pairs : read[p[1]][p[2]] = {}}) = Cardinality(Pairs)

-----------------------------------------------------------------------------
(* e08: shares of smb.conf.  A line is a section, a broken section header  *)
(* or a setting; bool is the value parse_bool gives, {} when it fails.     *)

\* parse_bool gives one value or none.
SmbLine(l) == Parsed(l.bool, BOOLEAN)

Section(name) ==
  [active |-> TRUE, is_global |-> name = "global", read_only |-> {},
   writable |-> {}, guest_ok |-> FALSE, browseable |-> TRUE]

SmbStart ==
  [st |-> Zero({"shares", "writable", "guest_ok", "browseable_no"}),
   cur |-> [Section("") EXCEPT !.active = FALSE]]

\* writable, when it was given, has the last word over read only.
WritableEffective(sh) ==
  TRUE \in sh.writable \/ (sh.writable = {} /\ FALSE \in sh.read_only)

\* A slip of FlushShare: the global section is counted like a share.
FlushGlobal(a) ==
  Bump(a.st,
    If(a.cur.active, {"shares"} \union If(WritableEffective(a.cur), {"writable"})
       \union If(a.cur.guest_ok, {"guest_ok"}) \union If(~a.cur.browseable, {"browseable_no"})))

FlushShare(a) ==
  Bump(a.st,
    If(a.cur.active /\ ~a.cur.is_global,
       {"shares"} \union If(WritableEffective(a.cur), {"writable"})
       \union If(a.cur.guest_ok, {"guest_ok"}) \union If(~a.cur.browseable, {"browseable_no"})))

\* A value that is neither yes nor no leaves the setting as it was.
SetShare(cur, l) ==
  CASE l.key = "read only"  -> [cur EXCEPT !.read_only = l.bool]
    [] l.key = "writable"   -> [cur EXCEPT !.writable = l.bool]
    [] l.key = "guest ok"   -> [cur EXCEPT !.guest_ok = TRUE \in l.bool]
    [] l.key = "browseable" -> [cur EXCEPT !.browseable = TRUE \in l.bool]
    [] OTHER                -> cur

SmbStep(a, l) ==
  CASE l.kind = "section" -> [st |-> FlushShare(a), cur |-> Section(l.name)]
    [] l.kind = "setting" /\ a.cur.active /\ l.bool # {} ->
         [a EXCEPT !.cur = SetShare(@, l)]
    [] OTHER -> a

\* Each share is counted by the settings between its header and the next one,
\* the last good value of each key.
SmbMatches(read, a) ==
  LET Headers == {i \in DOMAIN read : read[i].kind = "section"}
      Shares == {i \in Headers : read[i].name # "global"}
      End(i) == Min({j - 1 : j \in {j \in Headers : j > i}} \union {Len(read)})
      Given(i, key) == UNION {l.bool : l \in LastOf(SubSeq(read, i + 1, End(i)),
                        LAMBDA m : m.kind = "setting" /\ m.key = key /\ m.bool # {})}
      st == FlushShare(a)
  IN /\ st.shares = Cardinality(Shares)
     /\ st.guest_ok = Cardinality({i \in Shares : TRUE \in Given(i, "guest ok")})
     /\ st.browseable_no = Cardinality({i \in Shares : FALSE \in Given(i, "browseable")})
     /\ st.writable = Cardinality({i \in Shares :
          IF Given(i, "writable") # {} THEN TRUE \in Given(i, "writable")
          ELSE FALSE \in Given(i, "read only")})

-----------------------------------------------------------------------------
(* e09: a reverse proxy.  len is the length of a prefix that fits the path *)
(* asked for, 0 when it does not fit.                                      *)

\* Only a route has a length.
ProxyLine(l) == l.kind = "route" => l.len \in Nat

ProxyStart == [backends |-> <<>>, routes |-> <<>>]

\* A table that is full fails the whole parse.
ProxyStep(a, l) ==
  CASE l.kind = "backend" /\ Len(a.backends) >= MaxBackends -> Failed
    [] l.kind = "route" /\ Len(a.routes) >= MaxRoutes       -> Failed
    [] l.kind = "backend" /\ Len(a.backends) < MaxBackends  ->
         [a EXCEPT !.backends = Append(@, l)]
    [] l.kind = "route" /\ Len(a.routes) < MaxRoutes        ->
         [a EXCEPT !.routes = Append(@, l)]
    [] OTHER -> a

FindBackend(backends, name) ==
  {backends[i] : i \in {i \in DOMAIN backends :
     backends[i].name = name /\ \A j \in 1 .. i - 1 : backends[j].name # name}}

\* Longest prefix first, the first of equal ones.
MatchRoute(routes) ==
  FoldLeft(LAMBDA best, r :
             IF r.len > 0 /\ \A b \in best : r.len > b.len THEN {r} ELSE best,
           {}, routes)

\* What answers the path: a target, or nothing.
ProxyTarget(a) ==
  UNION {{b.target : b \in FindBackend(a.backends, r.backend)} : r \in MatchRoute(a.routes)}

\* A longer prefix hides a shorter one even when its backend is missing; of
\* equals, for routes and for backends, the first line counts.
ProxyMatches(read, a) ==
  LET Fits(i) == read[i].kind = "route" /\ read[i].len > 0
      First(i) == Fits(i) /\ \A j \in DOMAIN read :
        Fits(j) => read[j].len < read[i].len \/ (read[j].len = read[i].len /\ i <= j)
      Named(i, n) == read[i].kind = "backend" /\ read[i].name = n
                       /\ \A j \in 1 .. i - 1 : read[j].kind = "backend" => read[j].name # n
      Given(kind) == Count(read, LAMBDA l : l.kind = kind)
  IN /\ a = Failed <=> Given("backend") > MaxBackends \/ Given("route") > MaxRoutes
     /\ a # Failed => ProxyTarget(a) =
          {read[j].target : j \in {j \in DOMAIN read :
             \E i \in DOMAIN read : First(i) /\ Named(j, read[i].backend)}}

-----------------------------------------------------------------------------
(* e10: health of services.  status is {} on a line without "=".           *)

\* One status or none.
HealthLine(l) == Parsed(l.status, STRING)

HealthStart == Zero({"services", "ok", "warn", "crit"})

\* A word that is not known is counted as the worst.
HealthCounter(status) ==
  LET s == LowerAscii(status) IN IF s \in {"ok", "warn"} THEN s ELSE "crit"

HealthStep(a, l) == Bump(a, UNION {{"services", HealthCounter(w)} : w \in l.status})

\* The worst single line decides, in whatever order.
HealthMatches(read, a) ==
  /\ a.services = a.ok + a.warn + a.crit
  /\ Worst(a) = "OK" <=> \A l \in ToSet(read) : l.status \subseteq {"ok", "OK"}
  /\ Worst(a) = "CRIT" <=> \E l \in ToSet(read) : l.status \ {"ok", "OK", "warn", "Warn"} # {}
=============================================================================
