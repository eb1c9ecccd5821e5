------------------------------ MODULE Deepscan ------------------------------
(***************************************************************************)
(* The passive deep scan of recorded traffic (corvex_deepscan): flows come *)
(* from a HAR file or the capture proxy, are cut to the store's body cap,  *)
(* analysed without a request being sent, and the findings are folded into *)
(* an engagement (pentestiq/deepscan, the deepscan endpoint of api/app.py).*)
(*                                                                         *)
(* A body is a sequence of marks, of equal length: an error message, a     *)
(* key of the one provider modelled, a JWT, plain text or a named field.   *)
(* A parameter is its name, the role the name suggests and its value (""   *)
(* when empty).                                                            *)
(***************************************************************************)
EXTENDS Integers, Sequences, FiniteSets, SequencesExt

CONSTANTS
    HarFiles,     \* the captures that may be uploaded, sequences of entries
    HostOrder,    \* the hosts, sorted
    AllowLists,   \* what scope_hosts may be, sequences of hosts
    Uploaders,    \* the handlers of the import endpoint
    BodyCap,      \* DEFAULT_BODY_CAP, in marks
    ErrorHead,    \* the first 8000 characters, in marks
    MaxImports    \* bound: captures uploaded

\* A value with its name and its source; long ones can be recognised in a body.
Params == [name : STRING, role : STRING, value : STRING, random : BOOLEAN, long : BOOLEAN]

\* What a reader of a body would notice: a field, a secret or a trace.
BodyMarks == [is : STRING, of : STRING, field : {<< >>} \union Params]

Bodies == [kind : STRING, marks : Seq(BodyMarks), whole : BOOLEAN]

Replies == [status : Nat, present : SUBSET STRING, cors : STRING,
            cookies : SUBSET [name : STRING, missing : SUBSET STRING], banners : SUBSET STRING,
            auth : STRING, sensitive : BOOLEAN, body : Bodies]

NoReplySeen == [status |-> 0]

\* CapturedRequest and CapturedResponse
Flows == [readable : BOOLEAN, method : STRING, host : STRING, url : STRING, path : STRING,
          https : BOOLEAN, query : SUBSET Params, cookies : SUBSET Params, auth : STRING,
          sensitive : BOOLEAN, body : Bodies, reply : {NoReplySeen} \union Replies]

ASSUME DeepscanAssumption ==
    /\ {BodyCap, MaxImports} \subseteq Nat
    /\ ErrorHead \in 0..BodyCap      \* 8000 characters of 5 MB
    /\ \A har \in HarFiles : har \in Seq(Flows)

-----------------------------------------------------------------------------
(***************************************************************************)
(* importer.py, proxy/addon.py, store.py: from the traffic to the store.   *)
(***************************************************************************)
HasReply(flow) == flow.reply.status # 0

\* flow_from_har_entry(), _to_flow(): an entry that cannot be read is skipped, and
\* a request that was never answered has status 0, which is no response.  The
\* flows keep the places of their entries.
FlowsOf(har) == [n \in {m \in DOMAIN har : har[m].readable} |-> har[n]]

Cut(body) == Len(body.marks) > BodyCap

\* _cap()
Capped(body) == [body EXCEPT !.marks = IF Cut(body) THEN SubSeq(@, 1, BodyCap) ELSE @,
                             !.whole = @ /\ ~Cut(body)]

\* The capped body of a request or a response, with its truncation flag.
CappedMessage(message) == [message EXCEPT !.body = Capped(@)]

\* save_flow() and _row_to_flow()
Stored(flow) ==
    [CappedMessage(flow) EXCEPT !.reply = IF HasReply(flow) THEN CappedMessage(@) ELSE NoReplySeen]

Marks(body) == {body.marks[n] : n \in DOMAIN body.marks}

\* _body_pairs(), _request_params(): JSON has to be whole to be read at all.
BodyFields(body) ==
    IF body.kind = "form" \/ (body.kind = "json" /\ body.whole)
    THEN {mark.field : mark \in {k \in Marks(body) : k.is = "field"}} ELSE {}

Textual(body) == body.kind # "binary"

-----------------------------------------------------------------------------
(***************************************************************************)
(* analysis/: what one flow shows.  Severity and confidence are ranks, and *)
(* "of" is what the issue is about: a cookie, a header, a field ("" for an *)
(* issue of the whole answer).                                             *)
(***************************************************************************)
Sighting(id, of, severity, confidence, category, location) ==
    [id |-> id, of |-> of, severity |-> severity, confidence |-> confidence,
     category |-> category, location |-> location]

\* "METHOD url", and CapturedRequest.endpoint: without the query.
LocationOf(flow) == [method |-> flow.method, host |-> flow.host, url |-> flow.url]
EndpointOf(flow) == [method |-> flow.method, host |-> flow.host, url |-> flow.path]

Headers == {"missing-hsts", "missing-csp", "missing-xcto", "missing-xfo",
            "missing-referrer-policy"}

HeaderSeverity(id) == IF id \in {"missing-xcto", "missing-referrer-policy"} THEN 0 ELSE 1

\* passive.check_flow()
CheckFlow(flow) ==
    LET reply == flow.reply
        config(id, of, severity, confidence) ==
            Sighting(id, of, severity, confidence, "config", LocationOf(flow))
    IN IF ~HasReply(flow) THEN {} ELSE
       {config(id, "", HeaderSeverity(id), 1) :
            id \in IF Textual(reply.body) /\ reply.status \in 200..399
                   THEN Headers \ (reply.present \union IF flow.https THEN {}
                                                        ELSE {"missing-hsts"})
                   ELSE {}}
       \union {config("weak-cookie-flags", cookie.name, IF "HttpOnly" \in cookie.missing THEN 1 ELSE 0, 1) :
            cookie \in {c \in reply.cookies : c.missing # {}}}
       \union (CASE reply.cors = "wildcard"  -> {config("cors-wildcard-credentials", "", 3, 1)}
                 [] reply.cors = "reflected" -> {config("cors-reflects-origin", "", 2, 0)}
                 [] OTHER -> {})
       \union {config("version-disclosure", header, 0, 1) : header \in reply.banners}
       \union (IF Textual(reply.body)
                   /\ \E n \in DOMAIN reply.body.marks :
                        n <= ErrorHead /\ reply.body.marks[n].is = "error"
               THEN {config("verbose-error", "", 2, 1)} ELSE {})
       \union {config("secret-in-url", p.name, 2, 1) : p \in {q \in flow.query : q.role = "secret"}}

\* _scan_text_blob(), _scan_headers(), _scan_named_pairs(): the kinds of secrets
\* and what each is called.
ScanBlob(body) ==
    IF Textual(body)
    THEN {<<mark.is, mark.of>> : mark \in {k \in Marks(body) : k.is \in {"provider", "jwt"}}}
    ELSE {}

ScanHeaders(message) ==
    {<<kind, "authorization">> : kind \in {message.auth} \intersect {"bearer", "jwt", "basic-auth"}}
    \union (IF message.sensitive THEN {<<"credential-field", "key">>} ELSE {})

KindOfField(p) ==
    CASE p.role \in {"secret", "credential"} -> "credential-field"
      [] p.role = "username"                 -> "username-field"
      [] OTHER -> IF p.random THEN "high-entropy" ELSE "nothing"

ScanPairs(pairs) ==
    {<<KindOfField(p), p.name>> : p \in {q \in pairs : q.value # "" /\ KindOfField(q) # "nothing"}}

\* scan_flow(): the secrets of a flow, with where they were.
ScanFlow(flow) ==
    LET at(secrets, where) == {[kind |-> secret[1], of |-> secret[2], where |-> where,
                                location |-> LocationOf(flow)] : secret \in secrets}
    IN at(ScanHeaders(flow), "req-header") \union at(ScanPairs(flow.query), "req-query")
       \union at(ScanPairs(flow.cookies), "cookie")
       \union at(ScanPairs(BodyFields(flow.body)) \union ScanBlob(flow.body), "req-body")
       \union (IF ~HasReply(flow) THEN {} ELSE
               at(ScanHeaders(flow.reply), "resp-header")
               \union (IF Textual(flow.reply.body)
                       THEN at(ScanPairs(BodyFields(flow.reply.body)) \union ScanBlob(flow.reply.body),
                               "resp-body") ELSE {}))

SecretSeverity(kind) ==
    CASE kind = "provider" -> 4
      [] kind \in {"jwt", "basic-auth", "credential-field"} -> 3
      [] OTHER -> 2

\* _secret_findings(): a user name alone is none.
SecretFindings(hits) ==
    {Sighting(hit.kind, hit.of, SecretSeverity(hit.kind), 1, "secret", hit.location) :
        hit \in {h \in hits : h.kind # "username-field"}}

\* build_catalog() and _reflection_findings(): values of four characters or more
\* that come back in a text.
RequestParams(flow) == flow.query \union BodyFields(flow.body) \union flow.cookies

Echoes(p, body) == p.long /\ \E mark \in Marks(body) : mark.is = "echo" /\ mark.of = p.value

Reflections(flow) ==
    IF ~HasReply(flow) \/ ~Textual(flow.reply.body) THEN {} ELSE
    {Sighting("reflected-parameter", p.name, 1, 0, "surface", EndpointOf(flow)) :
        p \in {q \in RequestParams(flow) : Echoes(q, flow.reply.body)}}

FlowIssues(flow) == CheckFlow(flow) \union SecretFindings(ScanFlow(flow)) \union Reflections(flow)

Stronger(i, j) == \/ i.severity > j.severity
                  \/ i.severity = j.severity /\ i.confidence > j.confidence

\* One of the strongest of a set; which one depends on the order of the capture.
Strongest(issues) == CHOOSE i \in issues : \A j \in issues : ~Stronger(j, i)

\* Seeded fault: the report keeps one issue of each location.
DedupeByPlace(issues) == {Strongest({j \in issues : j.location = i.location}) : i \in issues}

\* dedupe(): one issue of each id and location, whatever the others are about.
Twins(issues, i) == {j \in issues : j.id = i.id /\ j.location = i.location}

Dedupe(issues) == {Strongest(Twins(issues, i)) : i \in issues}

-----------------------------------------------------------------------------
(***************************************************************************)
(* The rest of the report: auth.py, sitemap.py, params.py.                 *)
(***************************************************************************)
\* sitemap.build(): the paths of each host.
SiteMap(flows) == {<<flows[n].host, flows[n].path>> : n \in DOMAIN flows}

\* _credential_token(): the Authorization header, else a key's header, else the
\* first session cookie with a value.
CredentialToken(flow) ==
    CASE flow.auth # "none"   -> "auth"
      [] flow.sensitive       -> "key"
      [] \E c \in flow.cookies : c.role \in {"secret", "credential"} /\ c.value # "" -> "cookie"
      [] OTHER -> "none"

\* analyze(): the requests made under each credential.
Sessions(flows) ==
    LET carried(token) == {n \in DOMAIN flows : CredentialToken(flows[n]) = token}
    IN [token \in {CredentialToken(flows[n]) : n \in DOMAIN flows} \ {"none"} |->
            [requests |-> Cardinality(carried(token)),
             hosts |-> {flows[n].host : n \in carried(token)}]]

HostsOf(flows) == SelectSeq(HostOrder, LAMBDA h : \E n \in DOMAIN flows : flows[n].host = h)

\* deepscan.run()
Report(flows, allowed) ==
    [scope |-> IF allowed # << >> THEN allowed ELSE HostsOf(flows),
     sitemap |-> SiteMap(flows),
     sessions |-> Sessions(flows),
     findings |-> Dedupe(UNION {FlowIssues(flows[n]) : n \in DOMAIN flows})]

-----------------------------------------------------------------------------
(***************************************************************************)
(* deepscan/adapter.py: findings of the engagement.                        *)
(***************************************************************************)
\* _host_from(): of a URL; "METHOD url" has no host.
HostFrom(location) == IF location.method = "none" THEN location.host ELSE "none"

ScopeAsset(report) == IF report.scope = << >> THEN "deep-scan-capture" ELSE report.scope[1]

AssetOf(report, issue) ==
    LET host == HostFrom(issue.location)
    IN IF host # "none" /\ Len(report.scope) > 1 /\ host \in Range(report.scope) THEN host
       ELSE ScopeAsset(report)

\* The dedup_key of the finding an issue becomes.
KeyOf(report, issue) ==
    [asset |-> AssetOf(report, issue), category |-> issue.category, location |-> issue.location]

MaxSeverity(severities) == CHOOSE s \in severities : \A t \in severities : t <= s

\* deepscan_to_findings() and Engagement.add_findings(): issues of one key share
\* a record, with the highest severity and everybody's evidence.
AddReport(register, report) ==
    LET issuesAt(key) == {i \in report.findings : KeyOf(report, i) = key}
        old(key) == IF key \in DOMAIN register THEN register[key]
                    ELSE [severity |-> 0, evidence |-> {}]
    IN [key \in DOMAIN register \union {KeyOf(report, i) : i \in report.findings} |->
            [severity |-> MaxSeverity({old(key).severity} \union {i.severity : i \in issuesAt(key)}),
             evidence |-> old(key).evidence \union {<<i.id, i.of>> : i \in issuesAt(key)}]]

-----------------------------------------------------------------------------
VARIABLES
    attached,   \* the findings of the engagement in the store, by key
    upload,     \* upload[h]: what handler h is importing, and its copy of the row
    imports,    \* captures uploaded
    shown       \* history: the flows of the captures imported, less those attached
                \* after the last writer had read the row

deepscanVars == <<attached, upload, imports, shown>>

Idle == [busy |-> FALSE]

DeepscanTypeOK ==
    /\ \A k \in DOMAIN attached : attached[k].severity \in 0..4 /\ attached[k].evidence # {}
    /\ \A h \in Uploaders : upload[h].busy =>
          upload[h].har \in HarFiles /\ upload[h].allowed \in AllowLists
    /\ imports \in 0..MaxImports

DeepscanInit ==
    /\ attached = << >>
    /\ upload = [h \in Uploaders |-> Idle]
    /\ imports = 0
    /\ shown = {}

\* The handler reads the row, then awaits the file.
ReadRow(h) ==
    /\ ~upload[h].busy
    /\ imports < MaxImports
    /\ \E har \in HarFiles, allowed \in AllowLists :
          upload' = [upload EXCEPT ![h] = [busy |-> TRUE, har |-> har, allowed |-> allowed,
                                           row |-> attached, shown |-> shown]]
    /\ imports' = imports + 1
    /\ UNCHANGED <<attached, shown>>

\* run_import() in a store of its own; the row is written back if there are findings.
AttachFindings(h) ==
    /\ upload[h].busy
    /\ LET flows  == FlowsOf(upload[h].har)
           report == Report([n \in DOMAIN flows |-> Stored(flows[n])], upload[h].allowed)
           silent == report.findings = {}
       IN  /\ attached' = IF silent THEN attached ELSE AddReport(upload[h].row, report)
           /\ shown' = Range(flows) \union IF silent THEN shown ELSE upload[h].shown
    /\ upload' = [upload EXCEPT ![h] = Idle]
    /\ UNCHANGED imports

DeepscanNext == \E h \in Uploaders : ReadRow(h) \/ AttachFindings(h)

DeepscanSpec == DeepscanInit /\ [][DeepscanNext]_deepscanVars

-----------------------------------------------------------------------------
\* What a flow shows outside the bodies the store has to cut.
ShowsForSure(flow) ==
    FlowIssues([flow EXCEPT
        !.body = IF Cut(@) THEN [@ EXCEPT !.marks = << >>] ELSE @,
        !.reply = IF HasReply(flow) /\ Cut(@.body) THEN [@ EXCEPT !.body.marks = << >>] ELSE @])

OnRecord(issue) ==
    \E k \in DOMAIN attached :
        /\ k.category = issue.category /\ k.location = issue.location
        /\ \E named \in attached[k].evidence : named[1] = issue.id
        /\ attached[k].severity >= issue.severity

\* What the traffic showed stays on record, through the store's cap, the report's
\* and the engagement's de-duplication: every kind of issue of a place is
\* evidence of its record, which is at least as severe.  Of several of a kind
\* (two weak cookies, two leaked fields) only one of the strongest is named:
\* dedupe() takes them for one.  Missing may be what a cut body held, and what
\* another import attached between this one's reading of the row and its write.
KindsSeenAreOnRecord ==
    \A flow \in shown : \A issue \in ShowsForSure(flow) : OnRecord(issue)

=============================================================================
