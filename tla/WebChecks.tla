----------------------------- MODULE WebChecks -----------------------------
(***************************************************************************)
(* The native checks of web, API and WordPress assets that look for        *)
(* missing protection and for what a site gives away (config_checks.py,    *)
(* web_passive.py, passive_checks.py, jwt_analyzer.py, upload_check.py,    *)
(* inventory_checks.py, integrity_checks.py, wordpress_checks.py under     *)
(* pentestiq/checks), and the base answer three of them share.             *)
(*                                                                         *)
(* A site is what it answers to each probe: a status and the signs the     *)
(* checks look for.  Beside that there is what the crawler and the         *)
(* operator collected about it: forms, URLs, scripts, tokens.              *)
(***************************************************************************)
EXTENDS Integers, Sequences, FiniteSets

CONSTANTS
    WebSites,      \* the sites there may be
    MaxSiteScans,  \* bound: scans
    MaxForms       \* forms CsrfTokenCheck reports

\* One name per request, with its check where several checks ask the same.
Probes == {"headers", "framing", "cookie flags", "base", "options", "malformed",
           "origin evil", "origin null", "origin http", "origin subdomain", "origin attacker",
           "crossdomain.xml", "clientaccesspolicy.xml", "graphql", "api/graphql",
           ".git/config", ".env", "backup.zip", "Host", "X-Forwarded-Host", "none token",
           "upload script", "upload page", "stored script", "stored page",
           "shadow one", "shadow two", "data one", "data two",
           "wp root", "wp-login", "wp-json", "readme", "wp users", "wp author", "xmlrpc",
           "wp file", "wp uploads", "wp register"}

\* request(): a connection that fails is an answer with status 0.
NoReply == [status |-> 0, shows |-> {}]

(***************************************************************************)
(* A site.  A form: action, method, whether it has a token, a password, an *)
(* http:// action.  A script: url, library, whether its version is below   *)
(* the safe one.  A token: where it comes from, which one it is, and what  *)
(* is wrong with it.  discovered: paths with their shape.  described: the  *)
(* operator gave the asset metadata, where "active" and the tokens are.    *)
(***************************************************************************)
ASSUME WebAssumption ==
    /\ {MaxSiteScans, MaxForms} \subseteq Nat
    /\ \A s \in WebSites :
         /\ s.answers \in [Probes -> [status: Nat, shows: SUBSET STRING]]
         /\ s.discovered \in Seq([path: Probes, shape: STRING])
         /\ {s.wordpress, s.https, s.active, s.described} \subseteq BOOLEAN

Issue(check, category, location, title, severity) ==
    [check |-> check, category |-> category, location |-> location, title |-> title,
     severity |-> severity]

When(condition, finding) == IF condition THEN {finding} ELSE {}

\* The first of some positions of a list for each value of a key: what a loop with
\* a "seen" set goes through.
Firsts(positions, key(_)) ==
    {n \in positions : \A m \in positions : m < n => key(m) # key(n)}

-----------------------------------------------------------------------------
(***************************************************************************)
(* config_checks.py; a is the answer to each probe.                        *)
(***************************************************************************)
\* Seeded fault: an answer that never came has no headers.
HeadersOfNothing(a) ==
    {Issue("security-headers", "A05", h, h, IF h \in {"hsts", "csp"} THEN 2 ELSE 1) :
        h \in {"hsts", "csp", "nosniff", "referrer-policy", "permissions-policy"}
              \ a["headers"].shows}

\* The header baseline and the version in the server's banner.
SecurityHeaders(a) ==
    IF a["headers"].status = 0 THEN {}
    ELSE {Issue("security-headers", "A05", h, h, IF h \in {"hsts", "csp"} THEN 2 ELSE 1) :
             h \in {"hsts", "csp", "nosniff", "referrer-policy", "permissions-policy"}
                   \ a["headers"].shows}
         \union When("server version" \in a["headers"].shows,
                     Issue("security-headers", "A05", "server", "banner", 0))

\* frame-ancestors of an enforced policy decides, whatever X-Frame-Options says.
Clickjacking(a) ==
    LET r == a["framing"] IN
    CASE r.status = 0 -> {}
      [] r.status # 0 /\ {"csp", "frame-ancestors"} \subseteq r.shows ->
           When("any ancestor" \in r.shows,
                Issue("clickjacking", "A05", "csp", "any ancestor", 2))
      [] OTHER -> When("x-frame-options" \notin r.shows,
                       Issue("clickjacking", "A05", "x-frame-options", "framable", 1))

\* With credentials: any origin, or the one asked from.
Cors(a) ==
    {Issue("cors", "API8", "cors", o, 3) :
        o \in {p \in {"origin evil", "origin null"} :
                 /\ "credentials" \in a[p].shows
                 /\ {"allowed", "any origin"} \intersect a[p].shows # {}}}

\* One look at the whole header: a flag of any cookie counts for all.
CookieFlags(a) ==
    When("session cookie" \in a["cookie flags"].shows
         /\ ~({"httponly", "secure", "samesite"} \subseteq a["cookie flags"].shows),
         Issue("cookie-flags", "A05", "set-cookie", "flags", 2))

HttpMethods(a) ==
    When("writing methods" \in a["options"].shows,
         Issue("http-methods", "A05", "OPTIONS", "methods", 1))

\* The first sign found is the finding.
ErrorHandling(a) ==
    When(a["malformed"].status # 0 /\ "internals" \in a["malformed"].shows,
         Issue("error-handling", "A05", "malformed", "internals", 2))

-----------------------------------------------------------------------------
(***************************************************************************)
(* web_passive.py; base is the answer the checks share.                    *)
(***************************************************************************)
\* A policy in report-only mode is looked at if no other is enforced.
CspAnalyzer(base) ==
    LET F(title, severity) == Issue("csp-analysis", "A05", "csp", title, severity)
        policy == {"csp", "csp report-only"} \intersect base.shows
    IN  IF base.status = 0 \/ policy = {} THEN {}
        ELSE When("csp" \notin policy, F("report-only", 1))
             \union When("unsafe script" \in base.shows, F("unsafe script", 2))
             \union When("unsafe style" \in base.shows, F("unsafe style", 1))
             \union {F(d, 1) : d \in {"frame-ancestors", "form-action"} \ base.shows}

CrossDomainPolicy(a) ==
    {Issue("cross-domain-policy", "A05", p, "any domain", 3) :
        p \in {q \in {"crossdomain.xml", "clientaccesspolicy.xml"} :
                 a[q].status \in 1..399 /\ {"xml", "any domain"} \subseteq a[q].shows}}

\* The paths in order, up to the first that speaks GraphQL.
GraphqlSpeaks(r) ==
    r.status \in 1..499 /\ {"schema", "suggestions", "graphql error"} \intersect r.shows # {}

Graphql(a) ==
    LET paths == <<"graphql", "api/graphql">>
        speaking == {n \in DOMAIN paths : GraphqlSpeaks(a[paths[n]])}
        first == {n \in speaking : \A m \in speaking : n <= m}
    IN {Issue("graphql-exposure", "API9", paths[n], "graphql",
              IF {"schema", "suggestions"} \intersect a[paths[n]].shows # {} THEN 1 ELSE 0) :
           n \in first}

CorsVariants(a) ==
    {Issue("cors-variants", "API8", "cors", o, IF o = "origin attacker" THEN 2 ELSE 1) :
        o \in {p \in {"origin http", "origin subdomain", "origin attacker"} :
                 a[p].status # 0 /\ "allowed" \in a[p].shows}}

\* Per cookie; the first name found twice is one more finding.
CookieAudit(base, https) ==
    LET F(title, severity) == Issue("cookie-audit", "A05", "set-cookie", title, severity)
    IN  IF base.status = 0 THEN {}
        ELSE (IF "session cookie" \notin base.shows THEN {}
              ELSE {F(flag, 1) : flag \in {"httponly", "samesite"} \ base.shows}
                   \union When(https /\ "secure" \notin base.shows, F("secure", 2)))
             \union {F(x, IF x = "parent domain" THEN 1 ELSE 0) :
                        x \in {"parent domain", "duplicate cookie"} \intersect base.shows}

\* What the base page gives away, and three files that should not be there.
InfoDisclosure(base, a) ==
    LET level == [x \in {"source", "listing", "private key", "connection string", "emails",
                         "private ip"} |->
                    CASE x = "private key" -> 3 [] x = "connection string" -> 2
                      [] x = "source" -> 1 [] OTHER -> 0]
        category(x) == CASE x = "private key" -> "A02" [] x \in {"emails", "private ip"} -> "A01"
                         [] OTHER -> "A05"
    IN {Issue("info-disclosure", category(x), "response", x, level[x]) :
           x \in {y \in DOMAIN level : base.status # 0 /\ y \in base.shows}}
       \union {Issue("info-disclosure", "A05", "response", p, IF p = ".env" THEN 3 ELSE 2) :
                  p \in {q \in {".git/config", ".env", "backup.zip"} :
                            a[q].status = 200 /\ "real" \in a[q].shows}}

\* Ends at the first header the site reflects.
HostHeaderInjection(a, active) ==
    LET headers == <<"Host", "X-Forwarded-Host">>
        hits == {n \in DOMAIN headers : a[headers[n]].status # 0 /\ "marker" \in a[headers[n]].shows}
    IN IF ~active THEN {}
       ELSE {Issue("host-header-injection", "A05", headers[n], "host", 2) :
                n \in {h \in hits : \A m \in hits : h <= m}}

\* The first URL with a password, the first with a session token, and the first
\* form that sends a password in the clear or with GET.
SensitiveTransport(s) ==
    LET F(at, title, severity) == Issue("sensitive-transport", "A02", at, title, severity)
        with(sign) == {n \in DOMAIN s.urls : sign \in s.urls[n].carries}
        first(S) == {n \in S : \A m \in S : n <= m}
        clear(f) == f.plain \/ ~s.https
        bad == {n \in DOMAIN s.forms : s.forms[n].password
                                       /\ (clear(s.forms[n]) \/ s.forms[n].method = "GET")}
    IN {F(s.urls[n].url, "password in url", 1) : n \in first(with("password"))}
       \union {F(s.urls[n].url, "session in url", 2) : n \in first(with("session"))}
       \union {IF clear(s.forms[n]) THEN F(s.forms[n].action, "clear text", 3)
               ELSE F(s.forms[n].action, "password by GET", 1) : n \in first(bad)}

-----------------------------------------------------------------------------
(***************************************************************************)
(* passive_checks.py, jwt_analyzer.py, integrity, inventory, upload.       *)
(***************************************************************************)
\* One finding per action, and not more than MaxForms.
CsrfToken(s) ==
    LET bare == {n \in DOMAIN s.forms : s.forms[n].method # "GET" /\ ~s.forms[n].token}
        new == Firsts(bare, LAMBDA n : s.forms[n].action)
    IN {Issue("csrf-token", "A01", s.forms[n].action, "no token", 2) :
           n \in {m \in new : Cardinality({k \in new : k < m}) < MaxForms}}

VulnerableJsLibrary(s) ==
    LET old == {n \in DOMAIN s.scripts : s.scripts[n].old}
    IN {Issue("vulnerable-js-lib", "A06", s.scripts[n].url, s.scripts[n].library, 2) :
           n \in Firsts(old, LAMBDA n : s.scripts[n].library)}

\* Each distinct token once; a guessed secret once, though several tokens have it.
JwtSecurity(s, a) ==
    LET F(t, title, category, severity) ==
            Issue("jwt-security", category, t.from, title, severity)
        each == Firsts(DOMAIN s.tokens, LAMBDA n : s.tokens[n].value)
        wrong(n) == s.tokens[n].wrong
        guessed == {n \in each : "weak secret" \in wrong(n)}
    IN UNION {
         UNION {
           {F(s.tokens[n], w, "API2", CASE w = "unsigned" -> 4 [] w = "sensitive" -> 3 [] OTHER -> 1) :
               w \in {"unsigned", "no kid", "sensitive", "long lived"} \intersect wrong(n)},
           When("roles" \in wrong(n), F(s.tokens[n], "roles", "API1", 2)),
           When(n \in guessed /\ \A m \in guessed : s.tokens[m].secret = s.tokens[n].secret => n <= m,
                F(s.tokens[n], "weak secret", "A02", 4)),
           When(a["none token"].status \in 200..299,
                F(s.tokens[n], "none accepted", "API2", 4))} : n \in each}

\* Each kind of serialized object once, at the first endpoint that shows it.
DeserializationSignal(a) ==
    LET endpoints == <<"data one", "data two">>
        shows(n, label) == a[endpoints[n]].status # 0 /\ label \in a[endpoints[n]].shows
    IN UNION {{Issue("deserialization-signal", "A08", endpoints[n], label, 2) :
                  n \in {k \in DOMAIN endpoints :
                           shows(k, label) /\ \A m \in 1..(k - 1) : ~shows(m, label)}} :
                label \in {"java", "viewstate", "php", "pickle"}}

\* Reachable and not documented; of paths of one shape the first that answers.
ShadowEndpoints(s, a) ==
    LET there == {n \in DOMAIN s.discovered :
                     /\ s.discovered[n].shape \notin s.documented
                     /\ a[s.discovered[n].path].status \notin {0, 404}}
    IN {Issue("shadow-endpoints", "API9", s.discovered[n].path, "undocumented", 2) :
           n \in Firsts(there, LAMBDA n : s.discovered[n].shape)}

\* A dangerous file is accepted; worse if it comes back as active content.
FileUpload(a, active) ==
    LET stored == [u \in {"upload script", "upload page"} |->
                      IF u = "upload script" THEN a["stored script"] ELSE a["stored page"]]
        served(u) == stored[u].status \in 200..299 /\ "active" \in stored[u].shows
    IN IF ~active THEN {}
       ELSE {Issue("file-upload", "A05", "upload", u,
                   (IF u = "upload script" THEN 3 ELSE 2) + (IF served(u) THEN 1 ELSE 0)) :
                u \in {v \in DOMAIN stored : a[v].status \in 1..399}}

-----------------------------------------------------------------------------
(***************************************************************************)
(* wordpress_checks.py                                                     *)
(***************************************************************************)
WordPressSignals(a) ==
    {p \in {"wp root", "wp-login", "wp-json", "readme"} : "wordpress" \in a[p].shows}

\* The REST listing first, the author archive if that gives nobody away.
UserEnumeration(a) ==
    When("users" \in a["wp users"].shows \/ "author" \in a["wp author"].shows,
         Issue("wordpress", "A07", "none", "users", 2))

\* XML-RPC, files left behind, open registration.
WordPressExposure(a) ==
    LET F(title, severity) == Issue("wordpress", "A05", "none", title, severity)
    IN When(a["xmlrpc"].status = 405
            \/ (a["xmlrpc"].status = 200 /\ "xml-rpc" \in a["xmlrpc"].shows), F("xmlrpc", 2))
       \union {F(p, IF p = "wp file" THEN 3 ELSE 1) :
                  p \in {q \in {"wp file", "wp uploads"} :
                            a[q].status = 200 /\ "real" \in a[q].shows}}
       \union When(a["wp register"].status = 200 /\ "form" \in a["wp register"].shows,
                   F("registration", 1))

WordPressNative(a) ==
    (IF WordPressSignals(a) = {} THEN {}
     ELSE {Issue("wordpress", "wordpress-info", "none", "detected", 0)}
          \union When("version" \in a["wp root"].shows \union a["readme"].shows,
                      Issue("wordpress", "A05", "none", "version", 1)))
    \union UserEnumeration(a) \union WordPressExposure(a)

-----------------------------------------------------------------------------
(***************************************************************************)
(* A scan of one asset of a stored engagement.                             *)
(***************************************************************************)
VARIABLES
    website,   \* what the asset is now
    kept,      \* what metadata["_base_resp"] holds in the store
    issues,    \* findings of the latest scan
    subject,   \* history: the site it scanned
    answered,  \* history: every probe of it was answered
    direct,    \* history: 0, or 1 if the latest scan is the first that worked on the metadata
               \* itself, 2 if one before it did
    scans

webVars == <<website, kept, issues, subject, answered, direct, scans>>

\* _base() finds nothing, or what the store makes of an answer: a Response comes
\* back as a dict, on which the checks raise.
Kept == {"nothing", "dict"}

WebTypeOK ==
    /\ {website, subject} \subseteq WebSites
    /\ answered \in BOOLEAN
    /\ direct \in 0..2
    /\ kept \in Kept
    /\ \A f \in issues : f.severity \in 0..4
    /\ scans \in 0..MaxSiteScans

WebInit ==
    /\ website \in WebSites
    /\ subject = website
    /\ kept = "nothing"
    /\ issues = {}
    /\ answered = FALSE
    /\ direct = 0
    /\ scans = 0

\* The three checks that read the shared answer, fetched by the first of them.
BaseReaders(s, a) ==
    CspAnalyzer(a["base"]) \union CookieAudit(a["base"], s.https) \union InfoDisclosure(a["base"], a)

\* CheckEngine.run over the checks, in which one that raises is skipped.
CheckFindings(s, a, cache) ==
    IF s.wordpress THEN WordPressNative(a)
    ELSE UNION {SecurityHeaders(a), Clickjacking(a), Cors(a), CookieFlags(a), HttpMethods(a),
                ErrorHandling(a), JwtSecurity(s, a), CsrfToken(s), VulnerableJsLibrary(s),
                CrossDomainPolicy(a), Graphql(a), CorsVariants(a), SensitiveTransport(s),
                HostHeaderInjection(a, s.active), FileUpload(a, s.active), ShadowEndpoints(s, a),
                DeserializationSignal(a),
                IF cache = "dict" THEN {} ELSE BaseReaders(s, a)}

\* Seeded fault: the overlay is the asset's own metadata.
KeptInPlace(s, cache, crawled) == "dict"

\* What the store holds afterwards: checks of a crawled web asset work on a copy
\* of its metadata; those of an API, or without a crawl, on the metadata itself,
\* or on a dict that is thrown away if the asset has none ("asset.metadata or {}").
InPlace(s, crawled) == ~crawled /\ s.described

KeptAfter(s, cache, crawled) == IF InPlace(s, crawled) THEN "dict" ELSE cache

\* The engagement is loaded, scanned and stored; some probes get no answer.
\* WordPress checks do without metadata.
ScanSite(lost, crawled) ==
    LET a == [p \in Probes |-> IF p \in lost THEN NoReply ELSE website.answers[p]] IN
    /\ scans < MaxSiteScans
    /\ issues' = CheckFindings(website, a, kept)
    /\ kept' = IF website.wordpress THEN kept ELSE KeptAfter(website, kept, crawled)
    /\ subject' = website
    /\ answered' = (lost = {})
    /\ direct' = IF direct > 0 THEN 2 ELSE IF InPlace(website, crawled) THEN 1 ELSE 0
    /\ scans' = scans + 1
    /\ UNCHANGED website

\* Its owner changes the site.
SiteChanges(s) ==
    /\ s # website /\ s.wordpress = website.wordpress /\ s.described = website.described
    /\ website' = s
    /\ UNCHANGED <<kept, issues, subject, answered, direct, scans>>

\* Bound: a scan gets all answers, all but one, or none.
Losses == {{}, Probes} \union {{p} : p \in Probes}

WebNext ==
    \/ \E lost \in Losses, crawled \in BOOLEAN : ScanSite(lost, crawled)
    \/ \E s \in WebSites : SiteChanges(s)

WebSpec == WebInit /\ [][WebNext]_webVars

-----------------------------------------------------------------------------
(***************************************************************************)
(* Properties                                                              *)
(***************************************************************************)
\* What a scan of s finds that starts afresh and gets all its answers.
Weaknesses(s) == CheckFindings(s, s.answers, "nothing")

\* What a site does not answer never speaks against it: whatever gets lost, every
\* finding is one that the same check, asked again, also has in that category.
SilenceIsNoWeakness ==
    \A f \in issues : \E g \in Weaknesses(subject) :
        f.check = g.check /\ f.category = g.category

\* A site that answers everything is reported as it is now, however often it was
\* scanned, changed and scanned again before, until a scan has worked on the
\* asset's own metadata and left its base answer there.
CrawledSiteIsSeenAfresh ==
    answered /\ direct < 2 => issues = Weaknesses(subject)

\* web_passive.py:20 caches the base answer "on the context", which is built anew
\* for each scan: an unchanged site is reported in full by every scan.
RescanSeesTheSame == answered => issues = Weaknesses(subject)

=============================================================================
