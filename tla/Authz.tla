------------------------------- MODULE Authz -------------------------------
(***************************************************************************)
(* The authorization checks (pentestiq/checks/authz_checks.py) against an  *)
(* application with objects, administrative functions and a profile the    *)
(* testing identity may write to.                                          *)
(*                                                                         *)
(* CheckEngine runs the checks in order.  MassAssignmentCheck writes to    *)
(* the application and never undoes it, so what it does to the identity is *)
(* there for the checks of the next scan; others change the application    *)
(* between its reads and its write.  Any request may go unanswered.        *)
(***************************************************************************)
EXTENDS Naturals, Sequences, FiniteSets

CONSTANTS
    Identities, Primary,
    Objects,
    Owned,        \* object_ids: what each identity is configured to own
    Endpoints,    \* URL templates that take an object id
    Functions,    \* URLs of privileged functions: known, configured, crawled
    Labels,       \* kinds of sensitive data
    Attempts,     \* rate_limit_attempts
    MaxBfla,      \* findings after which BflaCheck stops
    Apps,
    MaxSweeps     \* bound: scans

\* What the application does.  A refusal may be a 4xx, a login page, a page that
\* mentions administration, or a 200 with an error in JSON.
App == [enforces: SUBSET Endpoints,      \* ownership of objects
        public: SUBSET Endpoints,        \* objects meant for everybody
        scoped: BOOLEAN,                 \* the token, not a parameter, names the tenant
        guards: SUBSET Functions,
        refusal: {"denied", "login", "words", "json"},
        write: {"rejected", "ignored", "bound"},
        echo: {"nothing", "input", "stored"},
        leaks: SUBSET Labels,
        tells: BOOLEAN,                  \* a valid user name from an invalid one
        throttleAt: Nat]                 \* failed logins until 429; 0 for never

ASSUME AuthzAssumption ==
    /\ Primary \in Identities
    /\ Owned \in [Identities -> SUBSET Objects]
    /\ Apps \subseteq App
    /\ {Attempts, MaxBfla, MaxSweeps} \subseteq Nat

Order == <<"excessive-data-exposure", "account-enumeration", "login-rate-limit",
           "tenant-confusion", "bola-idor", "unauth-idor", "bfla", "mass-assignment">>

AppRoles == {"user", "admin"}

VARIABLES
    app,
    roleOf,      \* in the application
    active,      \* allow_active
    readUrl,     \* read_url is configured
    runs, next,  \* scans begun, and the check whose turn it is
    step,        \* of MassAssignmentCheck
    baseline,    \* the role it read first, "unknown" for no answer
    reply,       \* the role in the answer to its write
    accused,     \* findings of the latest check: check, identity ("nobody" without login), place
    meddled,     \* history: somebody else changed a role
    privileged,  \* history: identities that have ever been admin
    deaf         \* history: login attempts of this scan that got no answer

authzVars == <<app, roleOf, active, readUrl, runs, next, step, baseline, reply, accused, meddled,
               privileged, deaf>>

Nobody == "nobody"
Accusation(check, by, at) == [check |-> check, by |-> by, at |-> at]

AuthzTypeOK ==
    /\ app \in Apps
    /\ roleOf \in [Identities -> AppRoles]
    /\ {active, readUrl, meddled} \subseteq BOOLEAN
    /\ deaf \in 0..Attempts
    /\ runs \in 0..MaxSweeps /\ next \in 1..Len(Order) + 1
    /\ step \in {"idle", "write", "confirm"}
    /\ {baseline, reply} \subseteq AppRoles \union {"unknown"}
    /\ privileged \subseteq Identities
    /\ \A f \in accused : f.check \in {Order[i] : i \in DOMAIN Order}
                          /\ f.by \in Identities \union {Nobody}

AuthzInit ==
    /\ app \in Apps
    /\ roleOf \in [Identities -> AppRoles]
    /\ active \in BOOLEAN /\ readUrl \in BOOLEAN
    /\ runs = 0 /\ next = Len(Order) + 1
    /\ step = "idle"
    /\ baseline = "unknown" /\ reply = "unknown"
    /\ accused = {}
    /\ meddled = FALSE
    /\ privileged = {i \in Identities : roleOf[i] = "admin"}
    /\ deaf = 0

-----------------------------------------------------------------------------
(***************************************************************************)
(* What a check concludes when the probes in "lost" go unanswered.         *)
(***************************************************************************)

\* The application shows object o to identity i.
MayRead(i, o, e) == e \notin app.enforces \/ e \in app.public \/ o \in Owned[i] \/ roleOf[i] = "admin"

\* _looks_like_data: a 2xx with JSON in it.
LooksLikeData(shown) == shown \/ app.refusal = "json"

Victims(i) == Identities \ {i}

\* Seeded fault: objects that both own are probed too.
BolaProbesAll ==
    {p \in Identities \X Objects \X Endpoints : \E v \in Victims(p[1]) : p[2] \in Owned[v]}

BolaProbes ==
    {p \in Identities \X Objects \X Endpoints :
        p[2] \notin Owned[p[1]] /\ \E v \in Victims(p[1]) : p[2] \in Owned[v]}

BolaIdor(lost) ==
    {Accusation("bola-idor", p[1], p[3]) :
        p \in {q \in BolaProbes \ lost : LooksLikeData(MayRead(q[1], q[2], q[3]))}}

\* The parameter names a victim; the answer must name it too.
TenantProbes == {i \in Identities : \E v \in Victims(i) : Owned[v] # {}}

TenantConfusion(lost) ==
    {Accusation("tenant-confusion", i, "param") :
        i \in {j \in TenantProbes \ lost : ~app.scoped \/ roleOf[j] = "admin"}}

\* Three neighbouring objects, without login: two answers with different data,
\* which the application's refusals are not.
UnauthProbes == Endpoints \X Objects

UnauthenticatedIdor(lost) ==
    {Accusation("unauth-idor", Nobody, e) :
        e \in {d \in Endpoints :
                 /\ d \notin app.enforces \/ d \in app.public
                 /\ Cardinality(({d} \X Objects) \ lost) >= 2}}

\* _looks_privileged: JSON, or words of an administration page and no login form.
LooksPrivileged(open) == open \/ app.refusal \in {"words", "json"}

Opens(f, caller) == f \notin app.guards \/ (caller # Nobody /\ roleOf[caller] = "admin")

\* Without login first, then as each identity until one gets through; the check
\* may end once it has enough findings.
BflaProbes == Functions \X (Identities \union {Nobody})

Through(f, lost) ==
    {c \in Identities \union {Nobody} : <<f, c>> \notin lost /\ LooksPrivileged(Opens(f, c))}

BflaVerdicts(lost) ==
    {found \in SUBSET {Accusation("bfla", c, f) : f \in Functions, c \in Identities \union {Nobody}} :
        /\ \A x \in found : /\ x.by \in Through(x.at, lost)
                            /\ Nobody \in Through(x.at, lost) => x.by = Nobody
        /\ \A x, y \in found : x.at = y.at => x = y
        /\ Cardinality(found) < MaxBfla =>
               {x.at : x \in found} = {f \in Functions : Through(f, lost) # {}}}

ExcessiveDataExposure(lost) ==
    {Accusation("excessive-data-exposure", Primary, l) : l \in app.leaks \ lost}

AccountEnumeration(lost) ==
    IF app.tells /\ lost = {} THEN {Accusation("account-enumeration", Nobody, "login")} ELSE {}

\* Ends at the first 429; attempts without an answer count like any other.
Throttled(lost) == app.throttleAt # 0 /\ Cardinality((1..Attempts) \ lost) >= app.throttleAt

LoginRateLimit(lost) ==
    IF Throttled(lost) THEN {} ELSE {Accusation("login-rate-limit", Nobody, "login")}

-----------------------------------------------------------------------------
(***************************************************************************)
(* The scan                                                                *)
(***************************************************************************)
StartScan ==
    /\ next = Len(Order) + 1
    /\ runs < MaxSweeps
    /\ runs' = runs + 1
    /\ next' = 1
    /\ accused' = {}
    /\ deaf' = 0
    /\ UNCHANGED <<app, roleOf, active, readUrl, step, baseline, reply, meddled, privileged>>

Turn(check) == next <= Len(Order) /\ Order[next] = check

\* A check that only looks: what it may find, over every set of lost probes.
Look(check, outcomes) ==
    /\ Turn(check)
    /\ accused' \in outcomes
    /\ next' = next + 1
    /\ UNCHANGED <<app, roleOf, active, readUrl, runs, step, baseline, reply, meddled, privileged, deaf>>

Looks ==
    \/ Look("excessive-data-exposure", {ExcessiveDataExposure(lost) : lost \in SUBSET Labels})
    \/ Look("account-enumeration", {AccountEnumeration(lost) : lost \in SUBSET {"valid", "invalid"}})
    \/ Look("tenant-confusion", {TenantConfusion(lost) : lost \in SUBSET TenantProbes})
    \/ Look("bola-idor", {BolaIdor(lost) : lost \in SUBSET BolaProbes})
    \/ Look("unauth-idor", {UnauthenticatedIdor(lost) : lost \in SUBSET UnauthProbes})
    \/ Look("bfla", UNION {BflaVerdicts(lost) : lost \in SUBSET BflaProbes})

LoginBurst ==
    /\ Turn("login-rate-limit")
    /\ \E lost \in SUBSET (1..Attempts) :
         /\ accused' = IF active THEN LoginRateLimit(lost) ELSE {}
         /\ deaf' = Cardinality(lost)
    /\ next' = next + 1
    /\ UNCHANGED <<app, roleOf, active, readUrl, runs, step, baseline, reply, meddled, privileged>>

\* MassAssignmentCheck: the field before, if there is a URL to read it from.
ReadBefore ==
    /\ Turn("mass-assignment") /\ step = "idle" /\ active
    /\ baseline' \in IF readUrl THEN {roleOf[Primary], "unknown"} ELSE {"unknown"}
    /\ step' = "write"
    /\ accused' = {}
    /\ UNCHANGED <<app, roleOf, active, readUrl, runs, next, reply, meddled, privileged, deaf>>

\* It writes role = admin to the identity's own object.
Write ==
    LET bound == app.write = "bound" IN
    /\ step = "write"
    /\ roleOf' = IF bound THEN [roleOf EXCEPT ![Primary] = "admin"] ELSE roleOf
    /\ privileged' = IF bound THEN privileged \union {Primary} ELSE privileged
    /\ reply' = CASE app.echo = "nothing" -> "unknown" [] app.echo = "input" -> "admin"
                  [] app.echo = "stored" -> roleOf'[Primary]
    /\ \/ app.write # "rejected" /\ step' = "confirm" /\ UNCHANGED next
       \/ step' = "idle" /\ next' = next + 1       \* refused, or no answer came
    /\ UNCHANGED <<app, active, readUrl, runs, baseline, accused, meddled, deaf>>

\* A baseline that did not come counts as one that was different.
ReadBack(after) == after = "admin" /\ baseline # "admin"

\* _confirm: the read-back, then the echo, which is used even if there was one.
Confirm ==
    /\ step = "confirm"
    /\ \E after \in IF readUrl THEN {roleOf[Primary], "unknown"} ELSE {"unknown"} :
         accused' =
             CASE ReadBack(after) -> {Accusation("mass-assignment", Primary, "read-back")}
               [] ~ReadBack(after) /\ reply = "admin" -> {Accusation("mass-assignment", Primary, "echo")}
               [] OTHER -> {}
    /\ step' = "idle"
    /\ next' = next + 1
    /\ UNCHANGED <<app, roleOf, active, readUrl, runs, baseline, reply, meddled, privileged, deaf>>

SkipInactive ==
    /\ Turn("mass-assignment") /\ ~active
    /\ next' = next + 1
    /\ accused' = {}
    /\ UNCHANGED <<app, roleOf, active, readUrl, runs, step, baseline, reply, meddled, privileged,
                   deaf>>

\* Somebody else promotes or demotes an identity, at any time.
Meddle(i, r) ==
    /\ ~meddled
    /\ roleOf' = [roleOf EXCEPT ![i] = r]
    /\ meddled' = TRUE
    /\ privileged' = IF r = "admin" THEN privileged \union {i} ELSE privileged
    /\ UNCHANGED <<app, active, readUrl, runs, next, step, baseline, reply, accused, deaf>>

AuthzNext ==
    \/ StartScan \/ Looks \/ LoginBurst
    \/ ReadBefore \/ Write \/ Confirm \/ SkipInactive
    \/ \E i \in Identities, r \in AppRoles : Meddle(i, r)

AuthzSpec == AuthzInit /\ [][AuthzNext]_authzVars

-----------------------------------------------------------------------------
(***************************************************************************)
(* Properties                                                              *)
(***************************************************************************)

\* What an accusation shows.  An identity that is or was an admin, which an earlier
\* scan's write may have made it, may rightly see what others own, and a refusal
\* can look like success: findings of those say nothing of the application.
Evidenced(f) ==
    LET open == f.at \notin app.enforces \/ f.at \in app.public
        ordinary == f.by \notin privileged
    IN  /\ f.check = "bola-idor" /\ ordinary /\ app.refusal # "json" => open
        /\ f.check = "tenant-confusion" /\ ordinary => ~app.scoped
        /\ f.check = "unauth-idor" => open
        /\ f.check = "bfla" /\ ordinary /\ app.refusal \notin {"words", "json"} =>
               f.at \notin app.guards
        /\ f.check = "mass-assignment" /\ f.at = "read-back" => ~ordinary
        /\ f.check = "mass-assignment" /\ f.at = "read-back" /\ baseline # "unknown" /\ ~meddled =>
               app.write = "bound"
        /\ f.check = "mass-assignment" /\ f.at = "echo" /\ app.echo = "stored" => ~ordinary
        /\ f.check = "excessive-data-exposure" => f.at \in app.leaks
        /\ f.check = "account-enumeration" => app.tells
        /\ f.check = "login-rate-limit" => app.throttleAt \notin 1..(Attempts - deaf)

\* An accusation shows a flaw of the application to the extent that Evidenced states,
\* through repeated scans of which each one may have changed the application, lost
\* requests and changes by others between the steps of a check.
\*
\* That is less than authz_checks.py says of two checks.  A read-back shows that
\* "the value actually changed" (line 277) only if the read before the write was
\* answered; if it was lost, an identity that was an admin all along is accused
\* with high confidence.  An echo shows no change at all, and is used with a
\* read_url too (lines 280 and 340).  "No login rate limiting" counts attempts
\* without an answer: it shows that those answered met no limit, nothing if none was.
AccusationsAreEarned == \A f \in accused : Evidenced(f)

=============================================================================
