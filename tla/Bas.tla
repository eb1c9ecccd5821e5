--------------------------------- MODULE Bas ---------------------------------
(***************************************************************************)
(* Validation of a target's defences (bas/checks.py, bas/runner.py, and    *)
(* the endpoint that runs it): ten benign checks in a fixed order, each    *)
(* with a verdict drawn from what the target answered.  The home page is   *)
(* fetched once, by whichever check needs it first, and its answer, lost   *)
(* or not, serves every later check.                                       *)
(***************************************************************************)
EXTENDS Naturals, Sequences

CONSTANTS
    Defences,     \* targets: [headers, redirects, allow, open, lists, throttleAt]
    Burst         \* requests of the rate-limiting check

\* The headers of a home page the checks look for; a weak cookie lacks a flag.
HomeHeaders == {"hsts", "waf", "framing", "cookie", "weak cookie", "nosniff", "banner"}

ASSUME BasAssumption ==
    /\ Burst \in Nat \ {0}
    /\ Defences \subseteq [headers : SUBSET HomeHeaders, redirects : BOOLEAN,
                          allow : {"dangerous", "safe", "none"}, open : BOOLEAN, lists : BOOLEAN,
                          throttleAt : Nat]

ControlChecks == <<"tls", "waf", "rate", "admin", "methods", "framing", "cookie", "nosniff",
            "listing", "banner">>
CheckIds == {ControlChecks[i] : i \in 1..Len(ControlChecks)}

VARIABLES
    defence,      \* the target
    authorized,   \* the request that runs the checks: unasked, refused, granted
    home,         \* ctx._home: unread, answered or lost
    verdicts,     \* the status of each check so far, in order
    losses        \* history: the checks that lost an answer (RealHttpClient: status 0, no header)

basVars == <<defence, authorized, home, verdicts, losses>>

ControlStatuses == {"defended", "exposed", "inconclusive"}

BasTypeOK ==
    /\ defence \in Defences
    /\ authorized \in {"unasked", "refused", "granted"}
    /\ home \in {"unread", "answered", "lost"}
    /\ verdicts \in Seq(ControlStatuses) /\ Len(verdicts) <= Len(ControlChecks)
    /\ losses \subseteq CheckIds

BasInit ==
    /\ defence \in Defences
    /\ authorized = "unasked" /\ home = "unread" /\ verdicts = << >> /\ losses = {}

\* The checks run only for a caller who says the target is authorized.
Authorize ==
    /\ authorized = "unasked"
    /\ authorized' \in {"refused", "granted"}
    /\ UNCHANGED <<defence, home, verdicts, losses>>

-----------------------------------------------------------------------------
(***************************************************************************)
(* Verdicts, given the headers of the home page as received (none if its   *)
(* answer is lost), whether it is lost, and what the check's own requests  *)
(* brought.                                                                *)
(***************************************************************************)

PresentOr(present, otherwise) == IF present THEN "defended" ELSE otherwise

\* A seeded fault: a page that was never reached read as one without the header.
AbsentIsExposed(silent) == "exposed"

\* Absence of a header exposes the target only if the page was reached.
UnlessSilent(silent) == IF silent THEN "inconclusive" ELSE "exposed"

\* _c_tls: a lost redirect probe reads as no redirect.
TlsVerdict(seen, silent, redirected) ==
    PresentOr(redirected \/ "hsts" \in seen, UnlessSilent(silent))

WafVerdict(seen) == PresentOr("waf" \in seen, "inconclusive")

FramingVerdict(seen, silent) == PresentOr("framing" \in seen, UnlessSilent(silent))

NosniffVerdict(seen, silent) == PresentOr("nosniff" \in seen, UnlessSilent(silent))

CookieVerdict(seen) ==
    CASE "weak cookie" \in seen -> "exposed"
      [] "cookie" \in seen /\ "weak cookie" \notin seen -> "defended"
      [] OTHER -> "inconclusive"

\* A page whose answer is lost discloses nothing.
BannerVerdict(seen) == IF "banner" \in seen THEN "exposed" ELSE "defended"

\* A list of paths, each judged by an answer of 200: one that is lost is no such answer.
PathsVerdict(found) == IF found THEN "exposed" ELSE "defended"

MethodsVerdict(allow) ==
    CASE allow = "dangerous" -> "exposed" [] allow = "safe" -> "defended"
      [] OTHER -> "inconclusive"

\* The requests of the burst that were answered: throttling shows from the
\* throttleAt-th request the target serves.
RateVerdict(answered, throttleAt) ==
    CASE throttleAt # 0 /\ \E i \in answered : i >= throttleAt -> "defended"
      [] answered = {} -> "inconclusive"
      [] OTHER -> "exposed"

-----------------------------------------------------------------------------
(***************************************************************************)
(* The checks, in the order of CHECKS.                                     *)
(***************************************************************************)

Check == ControlChecks[Len(verdicts) + 1]

Running(check) ==
    /\ authorized = "granted"
    /\ Len(verdicts) < Len(ControlChecks) /\ Check = check

Judge(status, lost) ==
    /\ verdicts' = Append(verdicts, status)
    /\ losses' = IF lost THEN losses \cup {Check} ELSE losses
    /\ UNCHANGED <<defence, authorized>>

\* BasContext.home: fetched once, and kept whatever came of it.
ReadHome ==
    IF home = "unread" THEN home' \in {"answered", "lost"} ELSE home' = home

SeenHeaders == IF home' = "answered" THEN defence.headers ELSE {}

CheckTls ==
    /\ Running("tls") /\ ReadHome
    /\ \E answered \in BOOLEAN :
         Judge(TlsVerdict(SeenHeaders, home' = "lost", answered /\ defence.redirects),
               ~answered \/ home' = "lost")

\* The checks that look at the home page alone.
CheckHome(check) ==
    /\ Running(check) /\ ReadHome
    /\ LET silent == home' = "lost"
       IN  Judge(CASE check = "waf" -> WafVerdict(SeenHeaders)
                   [] check = "framing" -> FramingVerdict(SeenHeaders, silent)
                   [] check = "cookie" -> CookieVerdict(SeenHeaders)
                   [] check = "nosniff" -> NosniffVerdict(SeenHeaders, silent)
                   [] check = "banner" -> BannerVerdict(SeenHeaders),
                 silent)

CheckRate ==
    /\ Running("rate")
    /\ \E answered \in SUBSET (1..Burst) :
         Judge(RateVerdict(answered, defence.throttleAt), answered # 1..Burst)
    /\ UNCHANGED home

CheckPaths(check, found) ==
    /\ Running(check)
    /\ \E answered \in BOOLEAN : Judge(PathsVerdict(answered /\ found), ~answered)
    /\ UNCHANGED home

CheckMethods ==
    /\ Running("methods")
    /\ \E answered \in BOOLEAN :
         Judge(MethodsVerdict(IF answered THEN defence.allow ELSE "none"), ~answered)
    /\ UNCHANGED home

BasNext ==
    \/ Authorize
    \/ CheckTls
    \/ \E check \in {"waf", "framing", "cookie", "nosniff", "banner"} : CheckHome(check)
    \/ CheckRate
    \/ CheckPaths("admin", defence.open)
    \/ CheckPaths("listing", defence.lists)
    \/ CheckMethods

BasSpec == BasInit /\ [][BasNext]_basVars

-----------------------------------------------------------------------------
\* What each control is, apart from any probe of it.
Truth(check) ==
    LET has(header) == header \in defence.headers
    IN  CASE check = "tls" -> IF defence.redirects \/ has("hsts") THEN "defended" ELSE "exposed"
          [] check = "waf" -> IF has("waf") THEN "defended" ELSE "inconclusive"
          [] check = "rate" -> IF defence.throttleAt \in 1..Burst THEN "defended" ELSE "exposed"
          [] check = "admin" -> IF defence.open THEN "exposed" ELSE "defended"
          [] check = "listing" -> IF defence.lists THEN "exposed" ELSE "defended"
          [] check = "methods" -> MethodsVerdict(defence.allow)
          [] check = "cookie" -> CookieVerdict(defence.headers)
          [] check = "banner" -> IF has("banner") THEN "exposed" ELSE "defended"
          [] OTHER -> IF has(check) THEN "defended" ELSE "exposed"

\* The checks that read a lost answer as one without the sign they look for:
\* bas/checks.py means such a verdict to be "inconclusive", and theirs is not.
SilenceDecides == {"tls", "rate", "admin", "listing", "banner"}

\* What each verdict is worth, over the order of the checks and the home page they
\* share.  A check whose answers all arrived says what the control is, whatever
\* the others lost; and of the checks that tell a lost answer from a missing
\* control, one that lost an answer says the truth or "inconclusive".  Nothing is
\* claimed of the five others once they lost an answer (bas/checks.py, run_bas).
VerdictsAreEarned ==
    \A i \in 1..Len(verdicts) :
        LET check == ControlChecks[i]
        IN  \/ verdicts[i] = Truth(check)
            \/ check \in losses /\ (check \in SilenceDecides \/ verdicts[i] = "inconclusive")

=============================================================================
