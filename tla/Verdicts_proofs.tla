--------------------------- MODULE Verdicts_proofs ---------------------------
(***************************************************************************)
(* What the verdicts on a target promise, proved for any defences, findings *)
(* and sites: the checks of its controls, the safe validation of findings,  *)
(* and the native checks of web assets.  Each section stands by itself.     *)
(***************************************************************************)
EXTENDS Bas, Validators, WebChecks, WellFoundedInduction, TLAPS

-----------------------------------------------------------------------------
(***************************************************************************)
(* The validation of defences.  What is judged so far is its own invariant:*)
(* losses only grow, and a home page that is lost is lost to each check that*)
(* looks at it.                                                            *)
(***************************************************************************)
BasIInv == BasTypeOK /\ VerdictsAreEarned

\* A verdict that a check may give: the truth, or what a lost answer excuses.
Fair(check, status, lost) ==
    /\ status \in ControlStatuses
    /\ status = Truth(check) \/ (lost /\ (check \in SilenceDecides \/ status = "inconclusive"))

LEMMA OrderOfControls ==
    /\ Len(ControlChecks) = 10
    /\ \A i \in 1..10 : ControlChecks[i] \in CheckIds
BY DEF ControlChecks, CheckIds

LEMMA JudgeKeeps ==
    ASSUME BasIInv, NEW check, NEW status, NEW lost, Running(check), Judge(status, lost),
           home' \in {"unread", "answered", "lost"}, Fair(check, status, lost)
    PROVE  BasIInv'
<1>1. /\ verdicts \in Seq(ControlStatuses) /\ status \in ControlStatuses
      /\ Len(verdicts) \in Nat /\ Len(verdicts) < 10
  BY OrderOfControls DEF BasIInv, BasTypeOK, Running, Fair
<1>2. Check = check /\ check \in CheckIds /\ check = ControlChecks[Len(verdicts) + 1]
  BY <1>1, OrderOfControls DEF Running, Check
<1>3. verdicts' = Append(verdicts, status)
  BY DEF Judge
<1>4. /\ verdicts' \in Seq(ControlStatuses)
      /\ Len(verdicts') = Len(verdicts) + 1
      /\ \A i \in 1..Len(verdicts) : verdicts'[i] = verdicts[i]
      /\ verdicts'[Len(verdicts) + 1] = status
  BY <1>1, <1>3
<1>5. losses \subseteq losses' /\ (lost => check \in losses') /\ losses' \subseteq CheckIds
  BY <1>2 DEF Judge, BasIInv, BasTypeOK
<1>6. BasTypeOK'
  BY <1>1, <1>4, <1>5, OrderOfControls DEF BasIInv, BasTypeOK, Judge
<1>7. \A c : Truth(c)' = Truth(c)
  BY DEF Truth, Judge
<1>8. ASSUME NEW i \in 1..Len(verdicts')
      PROVE  \/ verdicts'[i] = Truth(ControlChecks[i])
             \/ /\ ControlChecks[i] \in losses'
                /\ ControlChecks[i] \in SilenceDecides \/ verdicts'[i] = "inconclusive"
  <2>1. CASE i \in 1..Len(verdicts)
    BY <1>4, <1>5, <2>1 DEF BasIInv, VerdictsAreEarned
  <2>2. CASE i = Len(verdicts) + 1
    BY <1>2, <1>4, <1>5, <2>2 DEF Fair
  <2> QED
    BY <1>1, <1>4, <2>1, <2>2
<1>9. VerdictsAreEarned'
  BY <1>7, <1>8 DEF VerdictsAreEarned
<1> QED
  BY <1>6, <1>9 DEF BasIInv

LEMMA Typed ==
    ASSUME BasIInv
    PROVE  /\ defence.headers \subseteq HomeHeaders
           /\ defence.redirects \in BOOLEAN /\ defence.open \in BOOLEAN /\ defence.lists \in BOOLEAN
           /\ defence.allow \in {"dangerous", "safe", "none"} /\ defence.throttleAt \in Nat
           /\ home \in {"unread", "answered", "lost"}
BY BasAssumption DEF BasIInv, BasTypeOK

\* The home page as a check has it.
LEMMA HomeRead ==
    ASSUME home \in {"unread", "answered", "lost"}, ReadHome
    PROVE  /\ home' \in {"answered", "lost"}
           /\ home' = "answered" => SeenHeaders = defence.headers
           /\ home' = "lost" => SeenHeaders = {}
BY DEF ReadHome, SeenHeaders

LEMMA TlsKeeps == BasIInv /\ CheckTls => BasIInv'
<1> SUFFICES ASSUME BasIInv, CheckTls PROVE BasIInv'
  OBVIOUS
<1>1. PICK replied \in BOOLEAN :
          Judge(TlsVerdict(SeenHeaders, home' = "lost", replied /\ defence.redirects),
                ~replied \/ home' = "lost")
  BY DEF CheckTls
<1>2. /\ home' \in {"answered", "lost"}
      /\ home' = "answered" => SeenHeaders = defence.headers
      /\ home' = "lost" => SeenHeaders = {}
  BY Typed, HomeRead DEF CheckTls
<1>3. /\ Truth("tls") = IF defence.redirects \/ "hsts" \in defence.headers
                        THEN "defended" ELSE "exposed"
      /\ "tls" \in SilenceDecides
  BY DEF Truth, SilenceDecides
<1>4. Fair("tls", TlsVerdict(SeenHeaders, home' = "lost", replied /\ defence.redirects),
           ~replied \/ home' = "lost")
  BY <1>2, <1>3 DEF Fair, TlsVerdict, PresentOr, UnlessSilent, ControlStatuses
<1> QED
  BY <1>1, <1>2, <1>4, JudgeKeeps DEF CheckTls

LEMMA HomeKeeps ==
    ASSUME BasIInv, NEW check \in {"waf", "framing", "cookie", "nosniff", "banner"},
           CheckHome(check)
    PROVE  BasIInv'
<1> DEFINE silent == home' = "lost"
           status == CASE check = "waf" -> WafVerdict(SeenHeaders)
                       [] check = "framing" -> FramingVerdict(SeenHeaders, silent)
                       [] check = "cookie" -> CookieVerdict(SeenHeaders)
                       [] check = "nosniff" -> NosniffVerdict(SeenHeaders, silent)
                       [] check = "banner" -> BannerVerdict(SeenHeaders)
<1>1. Judge(status, silent)
  BY DEF CheckHome
<1>2. /\ home' \in {"answered", "lost"}
      /\ home' = "answered" => SeenHeaders = defence.headers
      /\ home' = "lost" => SeenHeaders = {}
  BY Typed, HomeRead DEF CheckHome
<1>3. Fair(check, status, silent)
  <2>1. CASE check = "waf"
    <3>1. Truth("waf") = IF "waf" \in defence.headers THEN "defended" ELSE "inconclusive"
      BY DEF Truth
    <3>2. status = WafVerdict(SeenHeaders)
      BY <2>1
    <3> QED
      BY <1>2, <2>1, <3>1, <3>2 DEF Fair, WafVerdict, PresentOr, ControlStatuses
  <2>2. CASE check = "framing"
    <3>1. Truth("framing") = IF "framing" \in defence.headers THEN "defended" ELSE "exposed"
      BY DEF Truth
    <3>2. status = FramingVerdict(SeenHeaders, silent)
      BY <2>2
    <3> QED
      BY <1>2, <2>2, <3>1, <3>2 DEF Fair, FramingVerdict, PresentOr, UnlessSilent, ControlStatuses
  <2>3. CASE check = "cookie"
    <3>1. Truth("cookie") = CookieVerdict(defence.headers)
      BY DEF Truth
    <3>2. status = CookieVerdict(SeenHeaders)
      BY <2>3
    <3>3. CookieVerdict({}) = "inconclusive" /\ CookieVerdict(defence.headers) \in ControlStatuses
      BY DEF CookieVerdict, ControlStatuses
    <3> QED
      BY <1>2, <2>3, <3>1, <3>2, <3>3 DEF Fair, ControlStatuses
  <2>4. CASE check = "nosniff"
    <3>1. Truth("nosniff") = IF "nosniff" \in defence.headers THEN "defended" ELSE "exposed"
      BY DEF Truth
    <3>2. status = NosniffVerdict(SeenHeaders, silent)
      BY <2>4
    <3> QED
      BY <1>2, <2>4, <3>1, <3>2 DEF Fair, NosniffVerdict, PresentOr, UnlessSilent, ControlStatuses
  <2>5. CASE check = "banner"
    <3>1. Truth("banner") = (IF "banner" \in defence.headers THEN "exposed" ELSE "defended")
          /\ "banner" \in SilenceDecides
      BY DEF Truth, SilenceDecides
    <3>2. status = BannerVerdict(SeenHeaders)
      BY <2>5
    <3> QED
      BY <1>2, <2>5, <3>1, <3>2 DEF Fair, BannerVerdict, ControlStatuses
  <2> QED
    BY <2>1, <2>2, <2>3, <2>4, <2>5
<1> HIDE DEF status
<1> QED
  BY <1>1, <1>2, <1>3, JudgeKeeps DEF CheckHome

\* A burst that is answered in full meets any limit of at most that many requests,
\* and what it brings back shows no other limit.
LEMMA RateKeeps == BasIInv /\ CheckRate => BasIInv'
<1> SUFFICES ASSUME BasIInv, CheckRate PROVE BasIInv'
  OBVIOUS
<1>1. PICK replied \in SUBSET (1..Burst) :
          Judge(RateVerdict(replied, defence.throttleAt), replied # 1..Burst)
  BY DEF CheckRate
<1>2. Truth("rate") = (IF defence.throttleAt \in 1..Burst THEN "defended" ELSE "exposed")
      /\ "rate" \in SilenceDecides
  BY DEF Truth, SilenceDecides
<1> DEFINE seen == defence.throttleAt # 0 /\ \E i \in replied : i >= defence.throttleAt
<1>3. defence.throttleAt \in Nat /\ Burst \in Nat \ {0} /\ replied \subseteq 1..Burst
  BY Typed, BasAssumption
<1>4. RateVerdict(replied, defence.throttleAt)
          = IF seen THEN "defended" ELSE IF replied = {} THEN "inconclusive" ELSE "exposed"
  BY DEF RateVerdict
<1>5. seen => defence.throttleAt \in 1..Burst
  BY <1>3
<1>6. replied = 1..Burst => replied # {} /\ (defence.throttleAt \in 1..Burst => seen)
  <2> SUFFICES ASSUME replied = 1..Burst
               PROVE  replied # {} /\ (defence.throttleAt \in 1..Burst => seen)
    OBVIOUS
  <2>1. 1 \in replied
    BY <1>3
  <2>2. ASSUME defence.throttleAt \in 1..Burst PROVE seen
    <3>1. defence.throttleAt # 0 /\ defence.throttleAt >= defence.throttleAt
      BY <2>2
    <3> QED
      BY <2>2, <3>1
  <2> QED
    BY <2>1, <2>2
<1>7. Fair("rate", RateVerdict(replied, defence.throttleAt), replied # 1..Burst)
  <2> HIDE DEF seen
  <2> QED
    BY <1>2, <1>4, <1>5, <1>6 DEF Fair, ControlStatuses
<1> QED
  BY <1>1, <1>7, Typed, JudgeKeeps DEF CheckRate

LEMMA PathsKeep ==
    ASSUME BasIInv, NEW check, NEW found \in BOOLEAN, CheckPaths(check, found),
           Truth(check) = IF found THEN "exposed" ELSE "defended",
           check \in SilenceDecides
    PROVE  BasIInv'
<1>1. PICK replied \in BOOLEAN : Judge(PathsVerdict(replied /\ found), ~replied)
  BY DEF CheckPaths
<1>2. Fair(check, PathsVerdict(replied /\ found), ~replied)
  BY DEF Fair, PathsVerdict, ControlStatuses
<1> QED
  BY <1>1, <1>2, Typed, JudgeKeeps DEF CheckPaths

LEMMA MethodsKeep == BasIInv /\ CheckMethods => BasIInv'
<1> SUFFICES ASSUME BasIInv, CheckMethods PROVE BasIInv'
  OBVIOUS
<1> DEFINE status(replied) == MethodsVerdict(IF replied THEN defence.allow ELSE "none")
<1>1. PICK replied \in BOOLEAN : Judge(status(replied), ~replied)
  BY DEF CheckMethods
<1>2. Truth("methods") = MethodsVerdict(defence.allow) /\ MethodsVerdict("none") = "inconclusive"
      /\ MethodsVerdict(defence.allow) \in ControlStatuses
  BY DEF Truth, MethodsVerdict, ControlStatuses
<1>3. Fair("methods", status(replied), ~replied)
  BY <1>2 DEF Fair, ControlStatuses
<1> QED
  BY <1>1, <1>3, Typed, JudgeKeeps DEF CheckMethods

LEMMA BasInitIInv == BasInit => BasIInv
BY OrderOfControls DEF BasInit, BasIInv, BasTypeOK, VerdictsAreEarned, ControlStatuses

LEMMA BasNextIInv == BasIInv /\ [BasNext]_basVars => BasIInv'
<1> SUFFICES ASSUME BasIInv, [BasNext]_basVars PROVE BasIInv'
  OBVIOUS
<1>1. CASE UNCHANGED <<defence, home, verdicts, losses>> /\ authorized' \in {"refused", "granted", authorized}
  <2>1. \A c : Truth(c)' = Truth(c)
    BY <1>1 DEF Truth
  <2> QED
    BY <1>1, <2>1 DEF BasIInv, BasTypeOK, VerdictsAreEarned
<1>2. CASE Authorize
  BY <1>1, <1>2 DEF Authorize
<1>3. CASE CheckPaths("admin", defence.open)
  <2>1. /\ Truth("admin") = IF defence.open THEN "exposed" ELSE "defended"
        /\ "admin" \in SilenceDecides
    BY DEF Truth, SilenceDecides
  <2> QED
    BY <1>3, <2>1, Typed, PathsKeep
<1>4. CASE CheckPaths("listing", defence.lists)
  <2>1. /\ Truth("listing") = IF defence.lists THEN "exposed" ELSE "defended"
        /\ "listing" \in SilenceDecides
    BY DEF Truth, SilenceDecides
  <2> QED
    BY <1>4, <2>1, Typed, PathsKeep
<1>5. CASE UNCHANGED basVars
  BY <1>1, <1>5 DEF basVars
<1> QED
  BY <1>2, <1>3, <1>4, <1>5, TlsKeeps, HomeKeeps, RateKeeps, MethodsKeep DEF BasNext

\* Through every order of requests and lost answers, the invariant above holds.
THEOREM BasInvariance == BasSpec => []BasIInv
BY BasInitIInv, BasNextIInv, PTL DEF BasSpec

\* Every variable of the validation of defences keeps to its type.
THEOREM BasTypeCorrect == BasSpec => []BasTypeOK
<1>1. BasIInv => BasTypeOK
  BY DEF BasIInv
<1> QED
  BY <1>1, BasInvariance, PTL

\* The verdict on a control is what the control is if the answers of its check all
\* arrived, and of a check that knows silence it is that or inconclusive if one
\* did not, for any target and burst (bas/checks.py).
THEOREM VerdictsEarned == BasSpec => []VerdictsAreEarned
<1>1. BasIInv => VerdictsAreEarned
  BY DEF BasIInv
<1> QED
  BY <1>1, BasInvariance, PTL

-----------------------------------------------------------------------------
(***************************************************************************)
(* The safe validation of findings.                                        *)
(***************************************************************************)
ProbedKinds == {"xss", "sqli"}

\* What became of the probes of a finding, by validator.
ReplyRows == [ProbedKinds -> Fates \cup {"none"}]

\* There is a row of replies for each finding, and an outcome for each one before
\* the current.
OneRowEach == Len(replies) = Len(suspects) /\ Len(outcomes) <= Len(suspects)

\* Nothing has been asked about the findings after the current one.
LaterAreUnasked == \A i \in 1..Len(suspects) : i > Current => \A v \in ProbedKinds : replies[i][v] = "none"

\* The validators that failed on the current finding are those whose probe was lost;
\* the others have not been tried, and the second one fails after the first.
FailedAreLost ==
    Current <= Len(suspects) =>
        /\ \A v \in ProbedKinds :
             IF v \in failed THEN replies[Current][v] = "lost" /\ Applies(v, suspects[Current])
                             ELSE replies[Current][v] = "none"
        /\ "sqli" \in failed /\ Applies("xss", suspects[Current]) => "xss" \in failed

\* What VerdictFollowsProbes says of one finding.
Follows(suspect, asked, outcome) ==
    LET heard == {v \in ProbedKinds : asked[v] \notin {"none", "lost"}}
    IN  /\ outcome.status = "validated" =>
             \/ asked["xss"] = "answered" /\ suspect.reflects
             \/ asked["sqli"] = "answered" /\ suspect.evaluates
             \/ asked["sqli"] = "partly blocked"
        /\ outcome.status = "false_positive" =>
             /\ heard = {"xss"}
             /\ asked["xss"] = "blocked" \/ ~suspect.reflects
        /\ asked["sqli"] # "none" /\ Applies("xss", suspect) => asked["xss"] = "lost"
        /\ heard = {} <=> outcome = Untouched
        /\ Plan(suspect) \in {"manual", "none"} => outcome = Untouched

ValidatorsIInv ==
    /\ ValidatorsTypeOK
    /\ OneRowEach
    /\ LaterAreUnasked
    /\ FailedAreLost
    /\ VerdictFollowsProbes

\* The engine's choice: the first of its two validators that applies and has not failed.
LEMMA EngineChoice ==
    ASSUME NEW suspect, NEW without
    PROVE  FirstApplying(EngineValidators, suspect, without)
             = IF Applies("xss", suspect) /\ "xss" \notin without THEN "xss"
               ELSE IF Applies("sqli", suspect) /\ "sqli" \notin without THEN "sqli" ELSE "none"
<1> DEFINE fit == {n \in 1..Len(EngineValidators) :
                     Applies(EngineValidators[n], suspect) /\ EngineValidators[n] \notin without}
           best == CHOOSE n \in fit : \A m \in fit : n <= m
<1>1. /\ 1..Len(EngineValidators) = {1, 2}
      /\ EngineValidators[1] = "xss" /\ EngineValidators[2] = "sqli"
  BY DEF EngineValidators
<1>2. /\ 1 \in fit <=> Applies("xss", suspect) /\ "xss" \notin without
      /\ 2 \in fit <=> Applies("sqli", suspect) /\ "sqli" \notin without
      /\ fit \subseteq {1, 2}
  BY <1>1
<1>3. FirstApplying(EngineValidators, suspect, without)
        = IF fit = {} THEN "none" ELSE EngineValidators[best]
  BY DEF FirstApplying
<1> HIDE DEF fit
<1>4. CASE 1 \in fit
  <2>1. \A m \in fit : 1 <= m
    BY <1>2
  <2>2. best \in fit /\ \A m \in fit : best <= m
    BY <1>4, <2>1
  <2>3. best = 1
    <3> HIDE DEF best
    <3> QED
      BY <1>2, <1>4, <2>2
  <2> QED
    BY <1>1, <1>2, <1>3, <1>4, <2>3
<1>5. CASE 1 \notin fit /\ 2 \in fit
  <2>1. fit = {2}
    BY <1>2, <1>5
  <2>2. best \in fit
    BY <2>1
  <2>3. best = 2
    BY <2>1, <2>2
  <2> QED
    BY <1>1, <1>2, <1>3, <1>5, <2>3
<1>6. CASE fit = {}
  BY <1>2, <1>3, <1>6
<1> QED
  BY <1>2, <1>4, <1>5, <1>6

\* A finding that an active validator applies to is planned for a safe validation.
LEMMA PlannedIsSafe ==
    ASSUME NEW suspect, Applies("xss", suspect) \/ Applies("sqli", suspect)
    PROVE  Plan(suspect) = "safe"
<1> DEFINE fit == {n \in 1..Len(PlannedValidators) :
                     Applies(PlannedValidators[n], suspect) /\ PlannedValidators[n] \notin {}}
           best == CHOOSE n \in fit : \A m \in fit : n <= m
<1>1. /\ 1..Len(PlannedValidators) = {1, 2, 3}
      /\ PlannedValidators[1] = "xss" /\ PlannedValidators[2] = "sqli"
      /\ PlannedValidators[3] = "listing"
  BY DEF PlannedValidators
<1>2. fit \subseteq {1, 2, 3} /\ fit # {}
  BY <1>1
<1>3. FirstApplying(PlannedValidators, suspect, {}) = PlannedValidators[best]
  BY <1>2 DEF FirstApplying
<1>4. best \in {1, 2, 3}
  <2> HIDE DEF fit
  <2>1. \E n \in fit : \A m \in fit : n <= m
    <3>1. CASE 1 \in fit
      BY <1>2, <3>1
    <3>2. CASE 1 \notin fit /\ 2 \in fit
      BY <1>2, <3>2
    <3>3. CASE fit = {3}
      BY <3>3
    <3> QED
      BY <1>2, <3>1, <3>2, <3>3
  <2> QED
    BY <1>2, <2>1
<1>5. FirstApplying(PlannedValidators, suspect, {}) # "none"
  <2> HIDE DEF best
  <2> QED
    BY <1>1, <1>3, <1>4
<1> QED
  BY <1>5 DEF Plan

-----------------------------------------------------------------------------
(***************************************************************************)
(* What is made of one finding.                                            *)
(***************************************************************************)
\* An outcome that is applied is told from one that is not by its attempt.
LEMMA AppliedAs ==
    /\ Applied("confirmed").status = "validated" /\ Applied("confirmed") # Untouched
    /\ Applied("not_exploitable").status = "false_positive"
    /\ Applied("not_exploitable") # Untouched
    /\ Applied("inconclusive").status = "detected" /\ Applied("inconclusive") # Untouched
    /\ Untouched.status = "detected"
<1>1. Untouched.attempted = FALSE /\ Untouched.status = "detected"
  BY DEF Untouched
<1>2. Applied("confirmed").attempted = TRUE /\ Applied("confirmed").status = "validated"
  BY DEF Applied
<1>3. /\ Applied("not_exploitable").attempted = TRUE
      /\ Applied("not_exploitable").status = "false_positive"
  BY DEF Applied, Untouched
<1>4. Applied("inconclusive").attempted = TRUE /\ Applied("inconclusive").status = "detected"
  BY DEF Applied, Untouched
<1>5. TRUE # FALSE
  OBVIOUS
<1>6. Applied("confirmed") # Untouched
  BY <1>1, <1>2, <1>5, Zenon
<1>7. Applied("not_exploitable") # Untouched
  BY <1>1, <1>3, <1>5, Zenon
<1>8. Applied("inconclusive") # Untouched
  BY <1>1, <1>4, <1>5, Zenon
<1> QED
  BY <1>1, <1>2, <1>3, <1>4, <1>6, <1>7, <1>8

LEMMA XssFollows ==
    ASSUME NEW suspect \in Suspects, Applies("xss", suspect),
           NEW fate \in {"answered", "blocked"},
           NEW asked, asked["xss"] = fate, asked["sqli"] = "none"
    PROVE  Follows(suspect, asked, Applied(XssResult(suspect, fate)))
<1>1. {v \in ProbedKinds : asked[v] \notin {"none", "lost"}} = {"xss"}
  BY DEF ProbedKinds
<1>2. Plan(suspect) = "safe"
  BY PlannedIsSafe
<1>3. CASE fate = "answered" /\ suspect.reflects
  <2>1. XssResult(suspect, fate) = "confirmed"
    BY <1>3 DEF XssResult
  <2> QED
    BY <1>1, <1>2, <1>3, <2>1, AppliedAs DEF Follows
<1>4. CASE ~(fate = "answered" /\ suspect.reflects)
  <2>1. XssResult(suspect, fate) = "not_exploitable"
    BY <1>4 DEF XssResult
  <2> QED
    BY <1>1, <1>2, <1>4, <2>1, AppliedAs DEF Follows
<1> QED
  BY <1>3, <1>4

\* The two conditions are told apart by the target, or by a filter that refuses one.
LEMMA SqliConfirmed ==
    ASSUME NEW suspect \in Suspects, NEW fate \in {"answered", "blocked", "partly blocked"},
           SqliResult(suspect, fate) = "confirmed"
    PROVE  (fate = "answered" /\ suspect.evaluates) \/ fate = "partly blocked"
<1>1. suspect.reflects \in BOOLEAN /\ suspect.evaluates \in BOOLEAN
  BY ValidatorsAssumption
<1>2. /\ Signature(suspect, "true", fate = "blocked") = Signature(suspect, "base", FALSE)
      /\ Signature(suspect, "false", fate \in {"blocked", "partly blocked"})
           # Signature(suspect, "base", FALSE)
  BY DEF SqliResult
<1>3. Signature(suspect, "true", fate = "blocked").blocked = Signature(suspect, "base", FALSE).blocked
  BY <1>2
<1>4. fate # "blocked"
  BY <1>3 DEF Signature
<1>5. ASSUME fate = "answered" PROVE suspect.evaluates
  <2>1. Signature(suspect, "true", FALSE) = Signature(suspect, "base", FALSE)
    BY <1>2, <1>5
  <2>2. Signature(suspect, "true", FALSE).echo = Signature(suspect, "base", FALSE).echo
    BY <2>1
  <2>3. ~suspect.reflects
    BY <2>2, Zenon DEF Signature
  <2>4. Signature(suspect, "false", FALSE) # Signature(suspect, "base", FALSE)
    <3>1. (fate \in {"blocked", "partly blocked"}) = FALSE
      BY <1>5
    <3> QED
      BY <1>2, <3>1, Zenon
  <2> QED
    BY <1>1, <2>3, <2>4 DEF Signature
<1> QED
  BY <1>4, <1>5

LEMMA SqliFollows ==
    ASSUME NEW suspect \in Suspects, Applies("sqli", suspect),
           NEW fate \in {"answered", "blocked", "partly blocked"},
           NEW asked, asked["sqli"] = fate, asked["xss"] \in {"none", "lost"},
           Applies("xss", suspect) => asked["xss"] = "lost"
    PROVE  Follows(suspect, asked, Applied(SqliResult(suspect, fate)))
<1>1. {v \in ProbedKinds : asked[v] \notin {"none", "lost"}} = {"sqli"}
  BY DEF ProbedKinds
<1>2. Plan(suspect) = "safe"
  BY PlannedIsSafe
<1>3. CASE SqliResult(suspect, fate) = "confirmed"
  <2>1. (fate = "answered" /\ suspect.evaluates) \/ fate = "partly blocked"
    BY <1>3, SqliConfirmed
  <2> QED
    BY <1>1, <1>2, <1>3, <2>1, AppliedAs DEF Follows
<1>4. CASE SqliResult(suspect, fate) = "inconclusive"
  BY <1>1, <1>2, <1>4, AppliedAs DEF Follows
<1> QED
  BY <1>3, <1>4 DEF SqliResult

LEMMA UntouchedFollows ==
    ASSUME NEW suspect, NEW asked, \A v \in ProbedKinds : asked[v] \in {"none", "lost"},
           asked["sqli"] # "none" /\ Applies("xss", suspect) => asked["xss"] = "lost"
    PROVE  Follows(suspect, asked, Untouched)
<1>1. {v \in ProbedKinds : asked[v] \notin {"none", "lost"}} = {}
  OBVIOUS
<1>2. Untouched.status = "detected"
  BY DEF Untouched
<1> QED
  BY <1>1, <1>2 DEF Follows

Outcome == [status : {"detected", "validated", "false_positive"}, attempted : BOOLEAN,
            confidence : {"as found", "high"}, evidence : 0..1]

LEMMA OutcomesTyped == Untouched \in Outcome /\ \A result : Applied(result) \in Outcome
<1>1. Untouched \in Outcome
  BY DEF Untouched, Outcome
<1>2. ASSUME NEW result PROVE Applied(result) \in Outcome
  <2>1. CASE result = "confirmed"
    BY <2>1 DEF Applied, Outcome
  <2>2. CASE result = "not_exploitable"
    <3>1. Applied(result) = [Untouched EXCEPT !.status = "false_positive", !.attempted = TRUE]
      BY <2>2 DEF Applied
    <3> QED
      BY <1>1, <3>1 DEF Outcome
  <2>3. CASE result \notin {"confirmed", "not_exploitable"}
    <3>1. Applied(result) = [Untouched EXCEPT !.attempted = TRUE]
      BY <2>3 DEF Applied
    <3> QED
      BY <1>1, <3>1 DEF Outcome
  <2> QED
    BY <2>1, <2>2, <2>3
<1> QED
  BY <1>1, <1>2

-----------------------------------------------------------------------------
(***************************************************************************)
(* Every step keeps the invariant.                                         *)
(***************************************************************************)
LEMMA FollowsEverywhere ==
    VerdictFollowsProbes
      <=> \A i \in 1..Len(outcomes) : Follows(suspects[i], replies[i], outcomes[i])
BY DEF VerdictFollowsProbes, Follows, ProbedKinds

LEMMA Shapes ==
    ASSUME ValidatorsIInv, Current <= Len(suspects)
    PROVE  /\ outcomes \in Seq(Outcome) /\ Len(outcomes) \in Nat /\ Len(suspects) \in Nat
           /\ Current \in 1..Len(suspects) /\ Len(replies) = Len(suspects)
           /\ suspects \in Seq(Suspects) /\ suspects[Current] \in Suspects
           /\ replies \in Seq(ReplyRows)
           /\ replies[Current] \in ReplyRows
           /\ failed \subseteq ProbedKinds
<1>1. /\ outcomes \in Seq(Outcome) /\ suspects \in Seq(Suspects) /\ failed \subseteq ProbedKinds
      /\ replies \in Seq(ReplyRows)
      /\ Len(replies) = Len(suspects)
  BY DEF ValidatorsIInv, ValidatorsTypeOK, OneRowEach, Outcome, ProbedKinds, ReplyRows
<1>2. Len(outcomes) \in Nat /\ Len(suspects) \in Nat /\ Current \in 1..Len(suspects)
  BY <1>1 DEF Current
<1> QED
  BY <1>1, <1>2

\* A finding that is done with: its row is its outcome's, and the next is untried.
LEMMA DoneKeeps ==
    ASSUME ValidatorsIInv, Current <= Len(suspects),
           NEW outcome \in Outcome, outcomes' = Append(outcomes, outcome), failed' = {},
           UNCHANGED suspects, replies' \in Seq(ReplyRows),
           Len(replies') = Len(replies),
           \A i \in 1..Len(suspects) : i # Current => replies'[i] = replies[i],
           Follows(suspects[Current], replies'[Current], outcome)
    PROVE  ValidatorsIInv'
<1>1. /\ outcomes' \in Seq(Outcome) /\ Len(outcomes') = Len(outcomes) + 1
      /\ \A i \in 1..Len(outcomes) : outcomes'[i] = outcomes[i]
      /\ outcomes'[Current] = outcome
      /\ Current' = Current + 1
  BY Shapes DEF Current
<1>2. ValidatorsTypeOK'
  BY <1>1, Shapes DEF ValidatorsIInv, ValidatorsTypeOK, Outcome, ProbedKinds, ReplyRows
<1>3. OneRowEach'
  BY <1>1, Shapes DEF ValidatorsIInv, OneRowEach, Current
<1>4. LaterAreUnasked'
  <2> SUFFICES ASSUME NEW i \in 1..Len(suspects), i > Current + 1, NEW v \in ProbedKinds
               PROVE  replies'[i][v] = "none"
    BY <1>1 DEF LaterAreUnasked
  <2>1. i > Current /\ i # Current
    BY Shapes
  <2> QED
    BY <2>1 DEF ValidatorsIInv, LaterAreUnasked
<1>5. FailedAreLost'
  <2> SUFFICES ASSUME Current + 1 <= Len(suspects)
               PROVE  \A v \in ProbedKinds : replies'[Current + 1][v] = "none"
    BY <1>1 DEF FailedAreLost
  <2>1. Current + 1 \in 1..Len(suspects) /\ Current + 1 > Current
    BY Shapes
  <2> QED
    BY <2>1 DEF ValidatorsIInv, LaterAreUnasked
<1>6. VerdictFollowsProbes'
  <2>1. \A i \in 1..Len(outcomes) : Follows(suspects[i], replies[i], outcomes[i])
    BY FollowsEverywhere DEF ValidatorsIInv
  <2>2. ASSUME NEW i \in 1..Len(outcomes')
        PROVE  Follows(suspects[i], replies'[i], outcomes'[i])
    <3>1. CASE i \in 1..Len(outcomes)
      <4>1. i \in 1..Len(suspects) /\ i # Current
        BY <3>1, Shapes DEF Current
      <4> QED
        BY <1>1, <2>1, <3>1, <4>1
    <3>2. CASE i = Current
      BY <1>1, <3>2
    <3> QED
      BY <1>1, <3>1, <3>2, Shapes DEF Current
  <2> QED
    BY <2>2 DEF VerdictFollowsProbes, Follows, ProbedKinds
<1> QED
  BY <1>2, <1>3, <1>4, <1>5, <1>6 DEF ValidatorsIInv

LEMMA LeaveAsFoundKeeps == ValidatorsIInv /\ LeaveAsFound => ValidatorsIInv'
<1> SUFFICES ASSUME ValidatorsIInv, LeaveAsFound PROVE ValidatorsIInv'
  OBVIOUS
<1> DEFINE suspect == suspects[Current]
           asked == replies[Current]
<1>1. Current <= Len(suspects) /\ UNCHANGED <<suspects, replies>>
  BY DEF LeaveAsFound
<1>2. /\ Applies("xss", suspect) => "xss" \in failed
      /\ Applies("sqli", suspect) => "sqli" \in failed
  BY EngineChoice DEF LeaveAsFound
<1>3. \A v \in ProbedKinds : IF v \in failed THEN asked[v] = "lost" /\ Applies(v, suspect)
                                        ELSE asked[v] = "none"
  BY <1>1 DEF ValidatorsIInv, FailedAreLost
<1>4. \A v \in ProbedKinds : asked[v] \in {"none", "lost"}
  BY <1>3
<1>5. Applies("xss", suspect) => asked["xss"] = "lost"
  BY <1>2, <1>3 DEF ProbedKinds
<1>6. Follows(suspect, asked, Untouched)
  BY <1>4, <1>5, UntouchedFollows
<1> QED
  BY <1>1, <1>6, Shapes, OutcomesTyped, DoneKeeps DEF LeaveAsFound

\* The validator that probes the current finding, and what is known before it does.
LEMMA Probing ==
    ASSUME ValidatorsIInv, Current <= Len(suspects),
           NEW validator, validator # "none",
           validator = FirstApplying(EngineValidators, suspects[Current], failed)
    PROVE  /\ validator \in ProbedKinds \ failed /\ Applies(validator, suspects[Current])
           /\ validator = "xss" => replies[Current]["sqli"] = "none"
           /\ validator = "sqli" =>
                /\ replies[Current]["xss"] \in {"none", "lost"}
                /\ Applies("xss", suspects[Current]) =>
                       "xss" \in failed /\ replies[Current]["xss"] = "lost"
<1>1. \/ validator = "xss" /\ Applies("xss", suspects[Current]) /\ "xss" \notin failed
      \/ /\ validator = "sqli" /\ Applies("sqli", suspects[Current]) /\ "sqli" \notin failed
         /\ Applies("xss", suspects[Current]) => "xss" \in failed
  BY EngineChoice
<1>2. \A v \in ProbedKinds : IF v \in failed THEN replies[Current][v] = "lost" /\ Applies(v, suspects[Current])
                                        ELSE replies[Current][v] = "none"
  BY DEF ValidatorsIInv, FailedAreLost
<1>3. "sqli" \in failed /\ Applies("xss", suspects[Current]) => "xss" \in failed
  BY DEF ValidatorsIInv, FailedAreLost
<1> QED
  BY <1>1, <1>2, <1>3 DEF ProbedKinds

\* A row that is put in the place of another.
LEMMA RowPut ==
    ASSUME NEW row \in ReplyRows, replies \in Seq(ReplyRows), Current \in 1..Len(replies),
           replies' = [replies EXCEPT ![Current] = row]
    PROVE  /\ replies' \in Seq(ReplyRows) /\ Len(replies') = Len(replies) /\ replies'[Current] = row
           /\ \A i \in 1..Len(replies) : i # Current => replies'[i] = replies[i]
OBVIOUS

LEMMA ValidateKeeps == ValidatorsIInv /\ Validate => ValidatorsIInv'
<1> SUFFICES ASSUME ValidatorsIInv, Validate PROVE ValidatorsIInv'
  OBVIOUS
<1> DEFINE suspect == suspects[Current]
           validator == FirstApplying(EngineValidators, suspect, failed)
<1>1. Current <= Len(suspects) /\ validator # "none" /\ UNCHANGED suspects
  BY DEF Validate
<1>0. Len(suspects) \in Nat /\ Current \in 1..Len(suspects) /\ suspect \in Suspects
  BY <1>1, Shapes
<1>a. /\ replies \in Seq(ReplyRows) /\ Len(replies) = Len(suspects)
      /\ replies[Current] \in ReplyRows
  BY <1>1, Shapes
<1>b. \A i \in 1..Len(outcomes) : i \in 1..Len(suspects) /\ i # Current
  BY <1>1, Shapes DEF Current
<1>c. \A i \in 1..Len(suspects) : i > Current => i # Current
  BY <1>0
<1>2. PICK fate \in (IF validator = "xss" THEN Fates \ {"partly blocked"} ELSE Fates) :
         /\ replies' = [replies EXCEPT ![Current][validator] = fate]
         /\ IF Result(validator, suspect, fate) = "failed"
            THEN failed' = failed \cup {validator} /\ UNCHANGED outcomes
            ELSE /\ outcomes' = Append(outcomes, Applied(Result(validator, suspect, fate)))
                 /\ failed' = {}
  BY DEF Validate
<1>3. /\ validator \in ProbedKinds \ failed /\ Applies(validator, suspect)
      /\ validator = "xss" => replies[Current]["sqli"] = "none"
      /\ validator = "sqli" =>
           /\ replies[Current]["xss"] \in {"none", "lost"}
           /\ Applies("xss", suspect) => "xss" \in failed /\ replies[Current]["xss"] = "lost"
  BY <1>1, Probing
<1> HIDE DEF validator
<1>4. fate \in Fates /\ (validator = "xss" => fate # "partly blocked")
  BY <1>2
<1>5. /\ replies' \in Seq(ReplyRows) /\ Len(replies') = Len(replies)
      /\ \A i \in 1..Len(suspects) : i # Current => replies'[i] = replies[i]
      /\ replies'[Current][validator] = fate
      /\ \A v \in ProbedKinds : v # validator => replies'[Current][v] = replies[Current][v]
  <2>1. replies' = [replies EXCEPT ![Current] = [replies[Current] EXCEPT ![validator] = fate]]
    BY <1>2
  <2>2. [replies[Current] EXCEPT ![validator] = fate] \in ReplyRows
    BY <1>a, <1>4 DEF ReplyRows
  <2>3. /\ replies' \in Seq(ReplyRows) /\ Len(replies') = Len(replies)
        /\ replies'[Current] = [replies[Current] EXCEPT ![validator] = fate]
        /\ \A i \in 1..Len(suspects) : i # Current => replies'[i] = replies[i]
    <3> DEFINE asked == [replies[Current] EXCEPT ![validator] = fate]
    <3>1. Current \in 1..Len(replies)
      BY <1>0, <1>a
    <3>2. replies' = [replies EXCEPT ![Current] = asked] /\ asked \in ReplyRows
      BY <2>1, <2>2
    <3> HIDE DEF asked
    <3>3. /\ replies' \in Seq(ReplyRows) /\ Len(replies') = Len(replies)
          /\ replies'[Current] = asked
          /\ \A i \in 1..Len(replies) : i # Current => replies'[i] = replies[i]
      BY <1>a, <3>1, <3>2, RowPut
    <3> QED
      BY <1>a, <3>3 DEF asked
  <2> QED
    BY <1>a, <1>3, <2>3 DEF ReplyRows
<1>6. (Result(validator, suspect, fate) = "failed") <=> (fate = "lost")
  BY <1>4 DEF Result, XssResult, SqliResult
<1>7. CASE fate = "lost"
  <2>1. failed' = failed \cup {validator} /\ UNCHANGED outcomes /\ Current' = Current
    BY <1>2, <1>6, <1>7 DEF Current
  <2>2. ValidatorsTypeOK' /\ OneRowEach'
    BY <1>1, <1>3, <1>5, <2>1 DEF ValidatorsIInv, ValidatorsTypeOK, OneRowEach, ProbedKinds, ReplyRows
  <2>3. LaterAreUnasked'
    <3> SUFFICES ASSUME NEW i \in 1..Len(suspects), i > Current, NEW v \in ProbedKinds
                 PROVE  replies'[i][v] = "none"
      BY <1>1, <2>1 DEF LaterAreUnasked
    <3> QED
      BY <1>5, <1>c DEF ValidatorsIInv, LaterAreUnasked
  <2>4. FailedAreLost'
    <3>1. \A v \in ProbedKinds : IF v \in failed THEN replies[Current][v] = "lost" /\ Applies(v, suspect)
                                            ELSE replies[Current][v] = "none"
      BY <1>1 DEF ValidatorsIInv, FailedAreLost
    <3>2. \A v \in ProbedKinds : IF v \in failed' THEN replies'[Current][v] = "lost" /\ Applies(v, suspect)
                                             ELSE replies'[Current][v] = "none"
      BY <1>3, <1>5, <1>7, <2>1, <3>1
    <3>3. "sqli" \in failed' /\ Applies("xss", suspect) => "xss" \in failed'
      BY <1>1, <1>3, <2>1 DEF ValidatorsIInv, FailedAreLost, ProbedKinds
    <3>4. Applies("xss", suspect)' = Applies("xss", suspect)
      BY <1>1, <2>1 DEF Applies
    <3> QED
      BY <1>1, <2>1, <3>2, <3>3 DEF FailedAreLost, Applies
  <2>5. VerdictFollowsProbes'
    <3>1. \A i \in 1..Len(outcomes) : Follows(suspects[i], replies[i], outcomes[i])
      BY FollowsEverywhere DEF ValidatorsIInv
    <3>3. \A i \in 1..Len(outcomes) : Follows(suspects[i], replies'[i], outcomes[i])
      BY <1>b, <1>5, <3>1
    <3> QED
      BY <1>1, <2>1, <3>3 DEF VerdictFollowsProbes, Follows, ProbedKinds
  <2> QED
    BY <2>2, <2>3, <2>4, <2>5 DEF ValidatorsIInv
<1>8. CASE fate # "lost"
  <2>1. /\ outcomes' = Append(outcomes, Applied(Result(validator, suspect, fate)))
        /\ failed' = {}
    BY <1>2, <1>6, <1>8
  <2>2. suspect \in Suspects
    BY <1>0
  <2>3. Follows(suspect, replies'[Current], Applied(Result(validator, suspect, fate)))
    <3>1. CASE validator = "xss"
      <4>1. fate \in {"answered", "blocked"}
        BY <1>4, <1>8, <3>1 DEF Fates
      <4>2. Result(validator, suspect, fate) = XssResult(suspect, fate)
        BY <1>8, <3>1 DEF Result
      <4>3. replies'[Current]["xss"] = fate /\ replies'[Current]["sqli"] = "none"
        BY <1>3, <1>5, <3>1 DEF ProbedKinds
      <4> QED
        BY <1>3, <2>2, <3>1, <4>1, <4>2, <4>3, XssFollows
    <3>2. CASE validator = "sqli"
      <4>1. fate \in {"answered", "blocked", "partly blocked"}
        BY <1>4, <1>8, <3>2 DEF Fates
      <4>2. Result(validator, suspect, fate) = SqliResult(suspect, fate)
        BY <1>8, <3>2 DEF Result
      <4>3. /\ replies'[Current]["sqli"] = fate /\ replies'[Current]["xss"] \in {"none", "lost"}
            /\ Applies("xss", suspect) => replies'[Current]["xss"] = "lost"
        BY <1>3, <1>5, <3>2 DEF ProbedKinds
      <4> QED
        BY <1>3, <2>2, <3>2, <4>1, <4>2, <4>3, SqliFollows
    <3> QED
      BY <1>3, <3>1, <3>2 DEF ProbedKinds
  <2>4. Applied(Result(validator, suspect, fate)) \in Outcome
    BY OutcomesTyped
  <2> QED
    BY <1>1, <1>5, <2>1, <2>3, <2>4, DoneKeeps
<1> QED
  BY <1>7, <1>8

LEMMA ValidatorsInitIInv == ValidatorsInit => ValidatorsIInv
<1> SUFFICES ASSUME ValidatorsInit PROVE ValidatorsIInv
  OBVIOUS
<1>1. PICK n \in 0..MaxSuspects : suspects \in [1..n -> Suspects]
  BY DEF ValidatorsInit
<1>2. suspects \in Seq(Suspects) /\ Len(suspects) = n /\ n \in Nat
  BY <1>1, ValidatorsAssumption
<1>3. replies = [i \in 1..n |-> [v \in ProbedKinds |-> "none"]]
  BY <1>2 DEF ValidatorsInit, ProbedKinds
<1>4. /\ replies \in Seq(ReplyRows) /\ Len(replies) = n
      /\ \A i \in 1..n : \A v \in ProbedKinds : replies[i][v] = "none"
  BY <1>2, <1>3 DEF ReplyRows
<1>5. Current = 1 /\ outcomes = << >> /\ failed = {}
  BY DEF ValidatorsInit, Current
<1>6. ValidatorsTypeOK /\ OneRowEach
  BY <1>1, <1>2, <1>4, <1>5, ValidatorsAssumption
  DEF ValidatorsTypeOK, OneRowEach, ProbedKinds, ReplyRows
<1>7. LaterAreUnasked
  BY <1>2, <1>4 DEF LaterAreUnasked
<1>8. FailedAreLost
  BY <1>2, <1>4, <1>5 DEF FailedAreLost
<1>9. VerdictFollowsProbes
  BY <1>5, FollowsEverywhere
<1> QED
  BY <1>6, <1>7, <1>8, <1>9 DEF ValidatorsIInv

LEMMA ValidatorsNextIInv == ValidatorsIInv /\ [ValidatorsNext]_validatorVars => ValidatorsIInv'
<1> SUFFICES ASSUME ValidatorsIInv, UNCHANGED validatorVars PROVE ValidatorsIInv'
  BY ValidateKeeps, LeaveAsFoundKeeps DEF ValidatorsNext
<1>1. VerdictFollowsProbes'
  BY DEF validatorVars, ValidatorsIInv, VerdictFollowsProbes
<1> QED
  BY <1>1 DEF validatorVars, ValidatorsIInv, ValidatorsTypeOK, OneRowEach, LaterAreUnasked,
              FailedAreLost, Current

\* Whatever the findings and the answers, the invariant above holds.
THEOREM ValidatorsInvariance == ValidatorsSpec => []ValidatorsIInv
BY ValidatorsInitIInv, ValidatorsNextIInv, PTL DEF ValidatorsSpec

\* Every variable of the validation of findings keeps to its type.
THEOREM ValidatorsTypeCorrect == ValidatorsSpec => []ValidatorsTypeOK
<1>1. ValidatorsIInv => ValidatorsTypeOK
  BY DEF ValidatorsIInv
<1> QED
  BY <1>1, ValidatorsInvariance, PTL

\* What validation makes of a finding follows from what its probes brought back
\* (ValidationEngine.validate, _apply, plan_one).
THEOREM VerdictsFollow == ValidatorsSpec => []VerdictFollowsProbes
<1>1. ValidatorsIInv => VerdictFollowsProbes
  BY DEF ValidatorsIInv
<1> QED
  BY <1>1, ValidatorsInvariance, PTL

-----------------------------------------------------------------------------
(***************************************************************************)
(* The native checks of web, API and WordPress assets: an answer that is lost*)
(* takes findings away and adds none.                                      *)
(***************************************************************************)
\* Some answers, and the same with some of them lost.
Hushed(a, r) == \A p \in Probes : a[p] = NoReply \/ a[p] = r[p]

\* Every finding of the first set has one of its check and category in the second.
Rated(f) == f.severity \in 0..4
Backed(S, T) ==
    \A f \in S : Rated(f) /\ \E g \in T : g.check = f.check /\ g.category = f.category
Mild(S) == \A f \in S : Rated(f)

LEMMA IssueIs ==
    \A c, k, l, t, v : /\ Issue(c, k, l, t, v).check = c
                       /\ Issue(c, k, l, t, v).category = k
                       /\ Issue(c, k, l, t, v).severity = v
BY DEF Issue

LEMMA IssueRated ==
    \A c, k, l, t : /\ Rated(Issue(c, k, l, t, 0))
                    /\ Rated(Issue(c, k, l, t, 1))
                    /\ Rated(Issue(c, k, l, t, 2))
                    /\ Rated(Issue(c, k, l, t, 3))
                    /\ Rated(Issue(c, k, l, t, 4))
BY DEF Rated, Issue

LEMMA NothingShown == /\ NoReply.status = 0 /\ NoReply.shows = {}
                      /\ NoReply.status \notin 1..399 /\ NoReply.status \notin 200..299
BY DEF NoReply

LostOrSame(x, y) == x = NoReply \/ x = y

\* Whatever status or sign an answer shows, it is not lost.
LEMMA Heard ==
    ASSUME NEW x, NEW y, LostOrSame(x, y)
    PROVE  /\ x.status # 0 => x = y
           /\ x.status = 200 => x = y
           /\ x.status \in 1..399 => x = y
           /\ x.status \in 200..299 => x = y
           /\ \A sign : sign \in x.shows => x = y
BY NothingShown DEF LostOrSame

LEMMA WhenRated == \A c, f : Rated(f) => Mild(When(c, f))
BY DEF When, Mild

LEMMA WhenMore == \A c, d, f : (c => d) => When(c, f) \subseteq When(d, f)
BY DEF When

LEMMA SecurityHeadersBacked ==
    ASSUME NEW a, NEW r, Hushed(a, r)
    PROVE  SecurityHeaders(a) \subseteq SecurityHeaders(r) /\ Mild(SecurityHeaders(a))
<1>1. \A p \in {"headers"} : a[p] = NoReply \/ a[p] = r[p]
  BY DEF Hushed, Probes
<1>2. SecurityHeaders(a) \subseteq SecurityHeaders(r)
  BY <1>1, NothingShown DEF SecurityHeaders, When
<1>3. Mild(SecurityHeaders(a))
  BY IssueRated, WhenRated DEF Mild, SecurityHeaders
<1> QED
  BY <1>2, <1>3

LEMMA ClickjackingBacked ==
    ASSUME NEW a, NEW r, Hushed(a, r)
    PROVE  Clickjacking(a) \subseteq Clickjacking(r) /\ Mild(Clickjacking(a))
<1>1. \A p \in {"framing"} : a[p] = NoReply \/ a[p] = r[p]
  BY DEF Hushed, Probes
<1>2. Clickjacking(a) \subseteq Clickjacking(r)
  <2>1. CASE a["framing"] = r["framing"]
    BY <2>1 DEF Clickjacking
  <2>2. CASE a["framing"] = NoReply
    BY <2>2, NothingShown DEF Clickjacking
  <2> QED
    BY <1>1, <2>1, <2>2
<1>3. Mild(Clickjacking(a))
  BY IssueRated DEF Mild, Clickjacking, When
<1> QED
  BY <1>2, <1>3

LEMMA CookieFlagsBacked ==
    ASSUME NEW a, NEW r, Hushed(a, r)
    PROVE  CookieFlags(a) \subseteq CookieFlags(r) /\ Mild(CookieFlags(a))
<1>1. \A p \in {"cookie flags"} : a[p] = NoReply \/ a[p] = r[p]
  BY DEF Hushed, Probes
<1>2. CookieFlags(a) \subseteq CookieFlags(r)
  <2>1. CASE a["cookie flags"] = r["cookie flags"]
    BY <2>1 DEF CookieFlags
  <2>2. CASE a["cookie flags"] = NoReply
    <3>1. "session cookie" \notin a["cookie flags"].shows
      BY <2>2, NothingShown
    <3> QED
      BY <3>1 DEF CookieFlags, When
  <2> QED
    BY <1>1, <2>1, <2>2
<1>3. Mild(CookieFlags(a))
  BY IssueRated DEF Mild, CookieFlags, When
<1> QED
  BY <1>2, <1>3

LEMMA HttpMethodsBacked ==
    ASSUME NEW a, NEW r, Hushed(a, r)
    PROVE  HttpMethods(a) \subseteq HttpMethods(r) /\ Mild(HttpMethods(a))
<1>1. \A p \in {"options"} : a[p] = NoReply \/ a[p] = r[p]
  BY DEF Hushed, Probes
<1>2. HttpMethods(a) \subseteq HttpMethods(r)
  BY <1>1, NothingShown DEF HttpMethods, When
<1>3. Mild(HttpMethods(a))
  BY IssueRated DEF Mild, HttpMethods, When
<1> QED
  BY <1>2, <1>3

LEMMA ErrorHandlingBacked ==
    ASSUME NEW a, NEW r, Hushed(a, r)
    PROVE  ErrorHandling(a) \subseteq ErrorHandling(r) /\ Mild(ErrorHandling(a))
<1>1. \A p \in {"malformed"} : a[p] = NoReply \/ a[p] = r[p]
  BY DEF Hushed, Probes
<1>2. ErrorHandling(a) \subseteq ErrorHandling(r)
  BY <1>1, NothingShown DEF ErrorHandling, When
<1>3. Mild(ErrorHandling(a))
  BY IssueRated DEF Mild, ErrorHandling, When
<1> QED
  BY <1>2, <1>3

LEMMA CorsBacked ==
    ASSUME NEW a, NEW r, Hushed(a, r)
    PROVE  Cors(a) \subseteq Cors(r) /\ Mild(Cors(a))
<1>1. \A p \in {"origin evil", "origin null"} : a[p] = NoReply \/ a[p] = r[p]
  BY DEF Hushed, Probes
<1>2. \A p \in {"origin evil", "origin null"} : "credentials" \in a[p].shows => a[p] = r[p]
  <2> SUFFICES ASSUME NEW p \in {"origin evil", "origin null"}, "credentials" \in a[p].shows
               PROVE  a[p] = r[p]
    OBVIOUS
  <2>1. a[p] # NoReply
    BY NothingShown
  <2> QED
    BY <1>1, <2>1
<1>3. Cors(a) \subseteq Cors(r)
  BY <1>2 DEF Cors
<1>4. Mild(Cors(a))
  BY IssueRated DEF Mild, Cors
<1> QED
  BY <1>3, <1>4

LEMMA CorsVariantsBacked ==
    ASSUME NEW a, NEW r, Hushed(a, r)
    PROVE  CorsVariants(a) \subseteq CorsVariants(r) /\ Mild(CorsVariants(a))
<1> DEFINE origins == {"origin http", "origin subdomain", "origin attacker"}
<1>1. \A p \in origins : a[p] = NoReply \/ a[p] = r[p]
  BY DEF Hushed, Probes
<1>2. \A p \in origins : "allowed" \in a[p].shows => a[p] = r[p]
  <2> HIDE DEF origins
  <2> QED
    BY <1>1, NothingShown
<1>3. CorsVariants(a) \subseteq CorsVariants(r)
  BY <1>2 DEF CorsVariants
<1>4. Mild(CorsVariants(a))
  BY IssueRated DEF Mild, CorsVariants
<1> QED
  BY <1>3, <1>4

LEMMA CspAnalyzerBacked ==
    ASSUME NEW a, NEW r, Hushed(a, r)
    PROVE  CspAnalyzer(a["base"]) \subseteq CspAnalyzer(r["base"]) /\ Mild(CspAnalyzer(a["base"]))
<1>1. a["base"] = NoReply \/ a["base"] = r["base"]
  BY DEF Hushed, Probes
<1>2. CspAnalyzer(a["base"]) \subseteq CspAnalyzer(r["base"])
  <2>1. CASE a["base"] = r["base"]
    BY <2>1
  <2>2. CASE a["base"] = NoReply
    BY <2>2, NothingShown DEF CspAnalyzer, When
  <2> QED
    BY <1>1, <2>1, <2>2
<1>3. \A f \in CspAnalyzer(a["base"]) : \E t : \/ f = Issue("csp-analysis", "A05", "csp", t, 1)
                                              \/ f = Issue("csp-analysis", "A05", "csp", t, 2)
  BY DEF CspAnalyzer, When
<1> QED
  BY <1>2, <1>3, IssueRated DEF Mild

LEMMA CrossDomainPolicyBacked ==
    ASSUME NEW a, NEW r, Hushed(a, r)
    PROVE  CrossDomainPolicy(a) \subseteq CrossDomainPolicy(r) /\ Mild(CrossDomainPolicy(a))
<1> DEFINE files == {"crossdomain.xml", "clientaccesspolicy.xml"}
<1>1. \A p \in files : a[p] = NoReply \/ a[p] = r[p]
  BY DEF Hushed, Probes
<1>2. \A p \in files : {"xml", "any domain"} \subseteq a[p].shows => a[p] = r[p]
  BY <1>1, NothingShown
<1>3. CrossDomainPolicy(a) \subseteq CrossDomainPolicy(r)
  <2>1. ASSUME NEW p \in files, {"xml", "any domain"} \subseteq a[p].shows, a[p].status \in 1..399
        PROVE  {"xml", "any domain"} \subseteq r[p].shows /\ r[p].status \in 1..399
    <3>1. a[p] = r[p]
      BY <1>2, <2>1, Zenon
    <3> QED
      BY <2>1, <3>1, Zenon
  <2>2. \A x : CrossDomainPolicy(x) =
            {Issue("cross-domain-policy", "A05", p, "any domain", 3) :
               p \in {q \in files : x[q].status \in 1..399 /\ {"xml", "any domain"} \subseteq x[q].shows}}
    BY DEF CrossDomainPolicy
  <2> HIDE DEF files
  <2>3. {q \in files : a[q].status \in 1..399 /\ {"xml", "any domain"} \subseteq a[q].shows}
          \subseteq {q \in files : r[q].status \in 1..399 /\ {"xml", "any domain"} \subseteq r[q].shows}
    BY <2>1, Zenon
  <2> QED
    BY <2>2, <2>3, Zenon
<1>4. Mild(CrossDomainPolicy(a))
  BY IssueRated, Zenon DEF Mild, CrossDomainPolicy
<1> QED
  BY <1>3, <1>4

LEMMA CookieAuditBacked ==
    ASSUME NEW s, NEW a, NEW r, Hushed(a, r)
    PROVE  /\ CookieAudit(a["base"], s.https) \subseteq CookieAudit(r["base"], s.https)
           /\ Mild(CookieAudit(a["base"], s.https))
<1>1. a["base"] = NoReply \/ a["base"] = r["base"]
  BY DEF Hushed, Probes
<1>2. CookieAudit(a["base"], s.https) \subseteq CookieAudit(r["base"], s.https)
  BY <1>1, NothingShown DEF CookieAudit
<1>3. \A f \in CookieAudit(a["base"], s.https) : \E t :
         \/ f = Issue("cookie-audit", "A05", "set-cookie", t, 0)
         \/ f = Issue("cookie-audit", "A05", "set-cookie", t, 1)
         \/ f = Issue("cookie-audit", "A05", "set-cookie", t, 2)
  BY DEF CookieAudit, When
<1> QED
  BY <1>2, <1>3, IssueRated DEF Mild

LEMMA InfoDisclosureBacked ==
    ASSUME NEW a, NEW r, Hushed(a, r)
    PROVE  /\ InfoDisclosure(a["base"], a) \subseteq InfoDisclosure(r["base"], r)
           /\ Mild(InfoDisclosure(a["base"], a))
<1> DEFINE files == {".git/config", ".env", "backup.zip"}
<1>1. \A p \in files \union {"base"} : a[p] = NoReply \/ a[p] = r[p]
  BY DEF Hushed, Probes
<1>2. /\ \A p \in files : a[p].status = 200 => a[p] = r[p]
      /\ a["base"].status # 0 => a["base"] = r["base"]
  BY <1>1, NothingShown
<1> DEFINE level == [x \in {"source", "listing", "private key", "connection string", "emails",
                             "private ip"} |->
                       CASE x = "private key" -> 3 [] x = "connection string" -> 2
                         [] x = "source" -> 1 [] OTHER -> 0]
           category(x) == CASE x = "private key" -> "A02"
                            [] x \in {"emails", "private ip"} -> "A01" [] OTHER -> "A05"
           page(b) == {Issue("info-disclosure", category(x), "response", x, level[x]) :
                         x \in {y \in DOMAIN level : b.status # 0 /\ y \in b.shows}}
           found(x) == {Issue("info-disclosure", "A05", "response", p, IF p = ".env" THEN 3 ELSE 2) :
                          p \in {q \in files : x[q].status = 200 /\ "real" \in x[q].shows}}
<1>3. \A x : InfoDisclosure(x["base"], x) = page(x["base"]) \union found(x)
  BY DEF InfoDisclosure
<1>4. \A x \in DOMAIN level : level[x] \in {0, 1, 2, 3}
  OBVIOUS
<1> HIDE DEF level, category, files
<1>5. page(a["base"]) \subseteq page(r["base"])
  BY <1>2
<1>6. found(a) \subseteq found(r)
  BY <1>2
<1>7. Mild(page(a["base"]))
  BY <1>4, IssueRated DEF Mild
<1>8. Mild(found(a))
  BY IssueRated DEF Mild
<1> HIDE DEF page, found
<1> QED
  BY <1>3, <1>5, <1>6, <1>7, <1>8 DEF Mild

LEMMA JwtSecurityBacked ==
    ASSUME NEW s, NEW a, NEW r, Hushed(a, r)
    PROVE  JwtSecurity(s, a) \subseteq JwtSecurity(s, r) /\ Mild(JwtSecurity(s, a))
<1> DEFINE F(t, title, category, severity) ==
               Issue("jwt-security", category, t.from, title, severity)
           each == Firsts(DOMAIN s.tokens, LAMBDA n : s.tokens[n].value)
           wrong(n) == s.tokens[n].wrong
           guessed == {n \in each : "weak secret" \in wrong(n)}
           signs(n) == {F(s.tokens[n], w, "API2", CASE w = "unsigned" -> 4 [] w = "sensitive" -> 3
                                                    [] OTHER -> 1) :
                           w \in {"unsigned", "no kid", "sensitive", "long lived"}
                                   \intersect wrong(n)}
           roles(n) == When("roles" \in wrong(n), F(s.tokens[n], "roles", "API1", 2))
           secret(n) == When(n \in guessed /\ \A m \in guessed :
                                s.tokens[m].secret = s.tokens[n].secret => n <= m,
                             F(s.tokens[n], "weak secret", "A02", 4))
           none(x, n) == When(x["none token"].status \in 200..299,
                              F(s.tokens[n], "none accepted", "API2", 4))
           all(x) == UNION {UNION {signs(n), roles(n), secret(n), none(x, n)} : n \in each}
<1>1. a["none token"] = NoReply \/ a["none token"] = r["none token"]
  BY DEF Hushed, Probes
<1>2. \A n : none(a, n) \subseteq none(r, n)
  <2>1. CASE a["none token"] = r["none token"]
    BY <2>1
  <2>2. CASE a["none token"] = NoReply
    BY <2>2, NothingShown DEF When
  <2> QED
    BY <1>1, <2>1, <2>2
<1>3. JwtSecurity(s, a) = all(a) /\ JwtSecurity(s, r) = all(r)
  BY DEF JwtSecurity
<1>4. ASSUME NEW n PROVE Mild(signs(n)) /\ Mild(roles(n)) /\ Mild(secret(n)) /\ Mild(none(a, n))
  <2>1. Mild(signs(n))
    BY IssueRated DEF Mild
  <2>2. Mild(roles(n)) /\ Mild(secret(n)) /\ Mild(none(a, n))
    <3> HIDE DEF guessed
    <3> QED
      BY IssueRated, WhenRated, Zenon
  <2> QED
    BY <2>1, <2>2
<1> HIDE DEF signs, roles, secret, none, each
<1>5. ASSUME NEW f \in all(a) PROVE f \in all(r) /\ Rated(f)
  <2>1. PICK n \in each : f \in UNION {signs(n), roles(n), secret(n), none(a, n)}
    OBVIOUS
  <2>2. f \in UNION {signs(n), roles(n), secret(n), none(r, n)}
    BY <1>2, <2>1
  <2>3. f \in all(r)
    BY <2>2
  <2>4. Rated(f)
    BY <1>4, <2>1 DEF Mild
  <2> QED
    BY <2>3, <2>4
<1> QED
  BY <1>3, <1>5 DEF Mild

LEMMA WordPressNativeBacked ==
    ASSUME NEW a, NEW r, Hushed(a, r)
    PROVE  WordPressNative(a) \subseteq WordPressNative(r) /\ Mild(WordPressNative(a))
<1> DEFINE pages == {"wp root", "wp-login", "wp-json", "readme", "wp users", "wp author", "xmlrpc",
                     "wp file", "wp uploads", "wp register"}
           files == {"wp file", "wp uploads"}
           F(title, severity) == Issue("wordpress", "A05", "none", title, severity)
           xmlrpc(x) == \/ x["xmlrpc"].status = 405
                        \/ x["xmlrpc"].status = 200 /\ "xml-rpc" \in x["xmlrpc"].shows
           level(p) == IF p = "wp file" THEN 3 ELSE 1
           left(x) == {F(p, level(p)) :
                         p \in {q \in files : x[q].status = 200 /\ "real" \in x[q].shows}}
           open(x) == x["wp register"].status = 200 /\ "form" \in x["wp register"].shows
<1>1. \A p \in pages : a[p] = NoReply \/ a[p] = r[p]
  BY DEF Hushed, Probes
<1>2. \A p \in pages : a[p].shows \subseteq r[p].shows /\ (a[p].status # 0 => a[p] = r[p])
  BY <1>1, NothingShown
<1>3. WordPressSignals(a) \subseteq WordPressSignals(r)
  BY <1>2 DEF WordPressSignals
<1>4. UserEnumeration(a) \subseteq UserEnumeration(r) /\ Mild(UserEnumeration(a))
  BY <1>2, WhenMore, WhenRated, IssueRated DEF UserEnumeration
<1>5. WordPressExposure(a) \subseteq WordPressExposure(r) /\ Mild(WordPressExposure(a))
  <2>1. \A x : WordPressExposure(x) = When(xmlrpc(x), F("xmlrpc", 2)) \union left(x)
                                      \union When(open(x), F("registration", 1))
    BY DEF WordPressExposure
  <2>2. xmlrpc(a) => xmlrpc(r)
    <3>1. CASE a["xmlrpc"] = NoReply
      BY <3>1, NothingShown
    <3>2. CASE a["xmlrpc"] = r["xmlrpc"]
      BY <3>2
    <3> QED
      BY <1>1, <3>1, <3>2
  <2>3. open(a) => open(r)
    <3>1. CASE a["wp register"] = NoReply
      <4>1. "form" \notin a["wp register"].shows
        BY <3>1, NothingShown
      <4> QED
        BY <4>1, Zenon
    <3>2. CASE a["wp register"] = r["wp register"]
      BY <3>2
    <3> QED
      BY <1>1, <3>1, <3>2
  <2>4. left(a) \subseteq left(r) /\ Mild(left(a))
    <3>1. \A p \in files : a[p] = NoReply \/ a[p] = r[p]
      BY <1>1
    <3>2. ASSUME NEW p \in files, a[p].status = 200 PROVE a[p] = r[p]
      <4>1. LostOrSame(a[p], r[p])
        BY <3>1 DEF LostOrSame
      <4> HIDE DEF files
      <4>2. a[p].status = 200
        BY <3>2
      <4> QED
        BY <4>1, <4>2, Heard
    <3>6. \A p : Rated(F(p, level(p)))
      BY IssueRated
    <3> HIDE DEF files, F, level
    <3>3. ASSUME NEW f \in left(a) PROVE f \in left(r) /\ Rated(f)
      <4>1. PICK p \in files : /\ f = F(p, level(p))
                               /\ a[p].status = 200 /\ "real" \in a[p].shows
        OBVIOUS
      <4>2. f \in left(r)
        BY <3>2, <4>1
      <4>3. Rated(f)
        BY <3>6, <4>1
      <4> QED
        BY <4>2, <4>3
    <3>4. left(a) \subseteq left(r)
      BY <3>3
    <3>5. Mild(left(a))
      BY <3>3 DEF Mild
    <3> QED
      BY <3>4, <3>5
  <2> HIDE DEF xmlrpc, open, left
  <2>5. /\ When(xmlrpc(a), F("xmlrpc", 2)) \subseteq When(xmlrpc(r), F("xmlrpc", 2))
        /\ Mild(When(xmlrpc(a), F("xmlrpc", 2)))
        /\ When(open(a), F("registration", 1)) \subseteq When(open(r), F("registration", 1))
        /\ Mild(When(open(a), F("registration", 1)))
    BY <2>2, <2>3, WhenMore, WhenRated, IssueRated
  <2> QED
    BY <2>1, <2>4, <2>5 DEF Mild
<1>6. When("version" \in a["wp root"].shows \union a["readme"].shows, F("version", 1))
        \subseteq When("version" \in r["wp root"].shows \union r["readme"].shows, F("version", 1))
  <2>1. \A p \in {"wp root", "readme"} : a[p].shows \subseteq r[p].shows
    BY <1>2
  <2>2. "version" \in a["wp root"].shows \union a["readme"].shows
          => "version" \in r["wp root"].shows \union r["readme"].shows
    BY <2>1
  <2> HIDE DEF F
  <2> QED
    BY <2>2, WhenMore
<1>7. Mild(When("version" \in a["wp root"].shows \union a["readme"].shows, F("version", 1)))
  BY WhenRated, IssueRated
<1>8. Mild({Issue("wordpress", "wordpress-info", "none", "detected", 0)})
  BY IssueRated DEF Mild
<1> QED
  BY <1>3, <1>4, <1>5, <1>6, <1>7, <1>8 DEF WordPressNative, Mild

\* A kind of serialized object is shown first somewhere, if it is shown at all.
LEMMA DeserializationSignalBacked ==
    ASSUME NEW a, NEW r, Hushed(a, r)
    PROVE  Backed(DeserializationSignal(a), DeserializationSignal(r))
<1> DEFINE endpoints == <<"data one", "data two">>
           labels == {"java", "viewstate", "php", "pickle"}
           shows(x, n, label) == x[endpoints[n]].status # 0 /\ label \in x[endpoints[n]].shows
           at(x, label) == {Issue("deserialization-signal", "A08", endpoints[n], label, 2) :
                              n \in {k \in DOMAIN endpoints :
                                       /\ shows(x, k, label)
                                       /\ \A m \in 1..(k - 1) : ~shows(x, m, label)}}
<1>1. \A p \in {"data one", "data two"} : a[p] = NoReply \/ a[p] = r[p]
  BY DEF Hushed, Probes
<1>2. ASSUME NEW n \in 1..2, NEW label, shows(a, n, label) PROVE shows(r, n, label)
  <2>1. endpoints[n] \in {"data one", "data two"}
    <3>1. n = 1 \/ n = 2
      OBVIOUS
    <3>2. endpoints[1] = "data one" /\ endpoints[2] = "data two"
      OBVIOUS
    <3> QED
      BY <3>1, <3>2
  <2> HIDE DEF endpoints
  <2>2. a[endpoints[n]] = r[endpoints[n]]
    BY <1>1, <1>2, <2>1, NothingShown
  <2> QED
    BY <1>2, <2>2
<1>3. \A x : DeserializationSignal(x) = UNION {at(x, label) : label \in labels}
  BY DEF DeserializationSignal
<1>4. DOMAIN endpoints = 1..2
  OBVIOUS
<1> HIDE DEF endpoints, labels, shows
<1>5. ASSUME NEW f \in DeserializationSignal(a)
      PROVE  Rated(f) /\ \E g \in DeserializationSignal(r) :
                            g.check = f.check /\ g.category = f.category
  <2>1. PICK label \in labels : f \in at(a, label)
    BY <1>3
  <2>2. PICK n \in 1..2 : shows(a, n, label) /\ f = Issue("deserialization-signal", "A08", endpoints[n], label, 2)
    BY <1>4, <2>1
  <2>3. PICK m \in 1..2 : shows(r, m, label) /\ \A k \in 1..(m - 1) : ~shows(r, k, label)
    <3>1. shows(r, n, label)
      BY <1>2, <2>2
    <3>2. CASE shows(r, 1, label)
      BY <3>2
    <3>3. CASE ~shows(r, 1, label)
      <4>1. n = 2
        BY <3>1, <3>3
      <4> QED
        BY <3>1, <3>3, <4>1
    <3> QED
      BY <3>2, <3>3
  <2>4. Issue("deserialization-signal", "A08", endpoints[m], label, 2) \in at(r, label)
    BY <1>4, <2>3
  <2>5. Issue("deserialization-signal", "A08", endpoints[m], label, 2) \in DeserializationSignal(r)
    <3> HIDE DEF at
    <3> QED
      BY <1>3, <2>4
  <2> QED
    BY <2>2, <2>5, IssueIs, IssueRated
<1> QED
  BY <1>5 DEF Backed

\* What a site is accused of for each kind of file only ranks higher if the file is
\* served back.
LEMMA FileUploadBacked ==
    ASSUME NEW s \in WebSites, NEW a, NEW r, Hushed(a, r)
    PROVE  Backed(FileUpload(a, s.active), FileUpload(r, s.active))
<1> DEFINE files == {"upload script", "upload page"}
           stored(x) == [u \in files |-> IF u = "upload script" THEN x["stored script"]
                                         ELSE x["stored page"]]
           served(x, u) == stored(x)[u].status \in 200..299 /\ "active" \in stored(x)[u].shows
           severity(x, u) == (IF u = "upload script" THEN 3 ELSE 2) + (IF served(x, u) THEN 1 ELSE 0)
           F(x, u) == Issue("file-upload", "A05", "upload", u, severity(x, u))
           accepted(x) == {u \in files : x[u].status \in 1..399}
<1>1. \A p \in files : a[p] = NoReply \/ a[p] = r[p]
  BY DEF Hushed, Probes
<1>2. ASSUME NEW p \in files, a[p].status \in 1..399 PROVE a[p] = r[p]
  <2>1. LostOrSame(a[p], r[p])
    BY <1>1 DEF LostOrSame
  <2> HIDE DEF files
  <2>2. a[p].status \in 1..399
    BY <1>2
  <2> QED
    BY <2>1, <2>2, Heard
<1>3. \A x : FileUpload(x, s.active) = IF ~s.active THEN {} ELSE {F(x, u) : u \in accepted(x)}
  BY Zenon DEF FileUpload
<1>4. \A x, u : severity(x, u) \in {2, 3, 4}
  <2> TAKE x, u
  <2>1. CASE served(x, u)
    <3> HIDE DEF served
    <3> QED
      BY <2>1
  <2>2. CASE ~served(x, u)
    <3> HIDE DEF served
    <3> QED
      BY <2>2
  <2> QED
    BY <2>1, <2>2
<1>5. accepted(a) \subseteq accepted(r)
  BY <1>2
<1> HIDE DEF severity, accepted
<1>6. \A x, u : F(x, u).check = "file-upload" /\ F(x, u).category = "A05" /\ Rated(F(x, u))
  BY <1>4, IssueIs, IssueRated
<1> HIDE DEF F
<1>7. ASSUME NEW f \in FileUpload(a, s.active)
      PROVE  Rated(f) /\ \E g \in FileUpload(r, s.active) :
                            g.check = f.check /\ g.category = f.category
  <2>1. s.active /\ \E u \in accepted(a) : f = F(a, u)
    BY <1>3
  <2>2. PICK u \in accepted(a) : f = F(a, u)
    BY <2>1
  <2>3. F(r, u) \in FileUpload(r, s.active)
    BY <1>3, <1>5, <2>1
  <2> QED
    BY <1>6, <2>2, <2>3
<1> QED
  BY <1>7 DEF Backed

\* If one page speaks GraphQL, one is the first that does.
LEMMA GraphqlBacked ==
    ASSUME NEW a, NEW r, Hushed(a, r)
    PROVE  Backed(Graphql(a), Graphql(r))
<1> DEFINE paths == <<"graphql", "api/graphql">>
           speaking(x) == {n \in DOMAIN paths : GraphqlSpeaks(x[paths[n]])}
           first(x) == {n \in speaking(x) : \A m \in speaking(x) : n <= m}
           F(x, n) == Issue("graphql-exposure", "API9", paths[n], "graphql",
                            IF {"schema", "suggestions"} \intersect x[paths[n]].shows # {}
                            THEN 1 ELSE 0)
<1>1. \A p \in {"graphql", "api/graphql"} : a[p] = NoReply \/ a[p] = r[p]
  BY DEF Hushed, Probes
<1>2. ASSUME NEW n \in 1..2, GraphqlSpeaks(a[paths[n]]) PROVE GraphqlSpeaks(r[paths[n]])
  <2>1. paths[n] \in {"graphql", "api/graphql"}
    OBVIOUS
  <2>2. ~GraphqlSpeaks(NoReply)
    BY NothingShown DEF GraphqlSpeaks
  <2> QED
    BY <1>1, <1>2, <2>1, <2>2
<1>3. \A x : Graphql(x) = {F(x, n) : n \in first(x)}
  BY Zenon DEF Graphql
<1>4. DOMAIN paths = 1..2
  OBVIOUS
<1>5. \A x, n : /\ F(x, n).check = "graphql-exposure" /\ F(x, n).category = "API9"
                /\ Rated(F(x, n))
  BY IssueIs, IssueRated
<1> HIDE DEF paths, F
<1>6. speaking(a) \subseteq speaking(r) /\ speaking(r) \subseteq 1..2
  BY <1>2, <1>4
<1>7. ASSUME NEW n \in first(a) PROVE \E m : m \in first(r)
  <2>1. n \in speaking(r)
    BY <1>6
  <2>2. PICK m \in {1, 2} : m \in speaking(r) /\ \A k \in speaking(r) : m <= k
    <3> HIDE DEF speaking
    <3>1. CASE 1 \in speaking(r)
      BY <1>6, <3>1
    <3>2. CASE 1 \notin speaking(r)
      <4>1. \A k \in speaking(r) : k = 2
        BY <1>6, <3>2
      <4> QED
        BY <2>1, <4>1
    <3> QED
      BY <3>1, <3>2
  <2> QED
    BY <2>2
<1> HIDE DEF first
<1> QED
  BY <1>3, <1>5, <1>7 DEF Backed

LEMMA HostHeaderInjectionBacked ==
    ASSUME NEW s \in WebSites, NEW a, NEW r, Hushed(a, r)
    PROVE  Backed(HostHeaderInjection(a, s.active), HostHeaderInjection(r, s.active))
<1> DEFINE headers == <<"Host", "X-Forwarded-Host">>
           shown(x, n) == x[headers[n]].status # 0 /\ "marker" \in x[headers[n]].shows
           hits(x) == {n \in DOMAIN headers : shown(x, n)}
           first(x) == {h \in hits(x) : \A m \in hits(x) : h <= m}
           F(n) == Issue("host-header-injection", "A05", headers[n], "host", 2)
<1>1. \A p \in {"Host", "X-Forwarded-Host"} : a[p] = NoReply \/ a[p] = r[p]
  BY DEF Hushed, Probes
<1>2. ASSUME NEW n \in 1..2, shown(a, n) PROVE shown(r, n)
  <2>1. headers[n] \in {"Host", "X-Forwarded-Host"}
    OBVIOUS
  <2> HIDE DEF headers
  <2> QED
    BY <1>1, <1>2, <2>1, NothingShown
<1>3. \A x : HostHeaderInjection(x, s.active) = IF ~s.active THEN {} ELSE {F(n) : n \in first(x)}
  BY Zenon DEF HostHeaderInjection
<1>4. DOMAIN headers = 1..2
  OBVIOUS
<1>5. \A n : F(n).check = "host-header-injection" /\ F(n).category = "A05" /\ Rated(F(n))
  BY IssueIs, IssueRated
<1> HIDE DEF headers, F, shown
<1>6. hits(a) \subseteq hits(r) /\ hits(r) \subseteq 1..2
  BY <1>2, <1>4
<1>7. ASSUME NEW n \in first(a) PROVE \E m : m \in first(r)
  <2>1. n \in hits(r)
    BY <1>6
  <2>2. PICK m \in {1, 2} : m \in hits(r) /\ \A k \in hits(r) : m <= k
    <3> HIDE DEF hits
    <3>1. CASE 1 \in hits(r)
      BY <1>6, <3>1
    <3>2. CASE 1 \notin hits(r)
      <4>1. \A k \in hits(r) : k = 2
        BY <1>6, <3>2
      <4> QED
        BY <2>1, <4>1
    <3> QED
      BY <3>1, <3>2
  <2> QED
    BY <2>2
<1> HIDE DEF first
<1>8. ASSUME NEW f \in HostHeaderInjection(a, s.active)
      PROVE  Rated(f) /\ \E g \in HostHeaderInjection(r, s.active) :
                            g.check = f.check /\ g.category = f.category
  <2>1. s.active /\ \E n \in first(a) : f = F(n)
    BY <1>3
  <2>2. PICK n \in first(a) : f = F(n)
    BY <2>1
  <2>3. PICK m : m \in first(r)
    BY <1>7
  <2>4. F(m) \in HostHeaderInjection(r, s.active)
    BY <1>3, <2>1, <2>3
  <2> QED
    BY <1>5, <2>2, <2>4
<1> QED
  BY <1>8 DEF Backed

\* A set of positions that is not empty has a first one for some value of a key.
LEMMA SomeAreFirst ==
    ASSUME NEW S \in SUBSET Nat, S # {}
    PROVE  \E n \in S : \A m \in S : ~(m < n)
<1> DEFINE R == OpToRel(<, Nat)
<1>1. IsWellFoundedOn(R, Nat)
  BY NatLessThanWellFounded, Zenon
<1>2. PICK n \in S : \A m \in S : ~(<<m, n>> \in R)
  <2> HIDE DEF R
  <2> QED
    BY <1>1, WFMin
<1>3. \A m \in S : ~(m < n)
  BY <1>2 DEF OpToRel
<1> QED
  BY <1>3

\* An endpoint that is there is there when asked again, and of its shape one is
\* reported.
LEMMA ShadowEndpointsBacked ==
    ASSUME NEW s \in WebSites, NEW a, NEW r, Hushed(a, r)
    PROVE  Backed(ShadowEndpoints(s, a), ShadowEndpoints(s, r))
<1> DEFINE there(x) == {n \in DOMAIN s.discovered :
                          /\ s.discovered[n].shape \notin s.documented
                          /\ x[s.discovered[n].path].status \notin {0, 404}}
           first(x) == {n \in there(x) : \A m \in there(x) :
                          m < n => s.discovered[m].shape # s.discovered[n].shape}
           F(n) == Issue("shadow-endpoints", "API9", s.discovered[n].path, "undocumented", 2)
<1>1. \A x : ShadowEndpoints(s, x) = {F(n) : n \in first(x)}
  BY Zenon DEF ShadowEndpoints, Firsts
<1>2. /\ DOMAIN s.discovered \subseteq Nat
      /\ \A n \in DOMAIN s.discovered : s.discovered[n].path \in Probes
  <2>1. s.discovered \in Seq([path: Probes, shape: STRING])
    BY WebAssumption
  <2> HIDE DEF there, first, F
  <2> DEFINE E == [path: Probes, shape: STRING]
  <2>2. \A e \in E : e.path \in Probes
    OBVIOUS
  <2> HIDE DEF E
  <2>3. s.discovered \in Seq(E)
    BY <2>1 DEF E
  <2>4. PICK q \in Seq(E) : q = s.discovered
    BY <2>3
  <2>5. /\ DOMAIN q = 1..Len(q) /\ Len(q) \in Nat
        /\ \A n \in 1..Len(q) : q[n] \in E
    OBVIOUS
  <2> QED
    BY <2>2, <2>4, <2>5
<1>3. ASSUME NEW n \in there(a) PROVE n \in there(r)
  <2>1. LostOrSame(a[s.discovered[n].path], r[s.discovered[n].path])
    BY <1>2 DEF Hushed, LostOrSame
  <2>2. a[s.discovered[n].path].status # 0
    OBVIOUS
  <2>3. a[s.discovered[n].path] = r[s.discovered[n].path]
    <3> HIDE DEF there
    <3> QED
      BY <2>1, <2>2, Heard
  <2> QED
    BY <2>3
<1>4. there(r) \in SUBSET Nat
  BY <1>2
<1>5. \A n : F(n).check = "shadow-endpoints" /\ F(n).category = "API9" /\ Rated(F(n))
  BY IssueIs, IssueRated
<1> HIDE DEF F, there
<1>6. ASSUME NEW n \in first(a) PROVE \E m : m \in first(r)
  <2>1. there(r) # {}
    BY <1>3
  <2>2. PICK m \in there(r) : \A k \in there(r) : ~(k < m)
    BY <1>4, <2>1, SomeAreFirst
  <2> QED
    BY <2>2
<1> HIDE DEF first
<1> QED
  BY <1>1, <1>5, <1>6 DEF Backed

\* The checks of what has been collected ask nothing.
LEMMA CollectedAreRated ==
    ASSUME NEW s
    PROVE  Mild(CsrfToken(s)) /\ Mild(VulnerableJsLibrary(s)) /\ Mild(SensitiveTransport(s))
<1>1. Mild(CsrfToken(s))
  <2>1. \A f \in CsrfToken(s) : \E l : f = Issue("csrf-token", "A01", l, "no token", 2)
    BY Zenon DEF CsrfToken
  <2>2. ASSUME NEW f \in CsrfToken(s) PROVE Rated(f)
    <3>1. PICK l : f = Issue("csrf-token", "A01", l, "no token", 2)
      BY <2>1
    <3> QED
      BY <3>1, IssueRated
  <2> QED
    BY <2>2 DEF Mild
<1>2. Mild(VulnerableJsLibrary(s))
  <2>1. \A f \in VulnerableJsLibrary(s) : \E l, t : f = Issue("vulnerable-js-lib", "A06", l, t, 2)
    BY Zenon DEF VulnerableJsLibrary
  <2>2. ASSUME NEW f \in VulnerableJsLibrary(s) PROVE Rated(f)
    <3>1. PICK l, t : f = Issue("vulnerable-js-lib", "A06", l, t, 2)
      BY <2>1
    <3> QED
      BY <3>1, IssueRated
  <2> QED
    BY <2>2 DEF Mild
<1>3. Mild(SensitiveTransport(s))
  <2> DEFINE F(at, title, severity) == Issue("sensitive-transport", "A02", at, title, severity)
             with(sign) == {n \in DOMAIN s.urls : sign \in s.urls[n].carries}
             first(S) == {n \in S : \A m \in S : n <= m}
             clear(f) == f.plain \/ ~s.https
             bad == {n \in DOMAIN s.forms : s.forms[n].password
                                            /\ (clear(s.forms[n]) \/ s.forms[n].method = "GET")}
             passwords == {F(s.urls[n].url, "password in url", 1) : n \in first(with("password"))}
             sessions == {F(s.urls[n].url, "session in url", 2) : n \in first(with("session"))}
             sent == {IF clear(s.forms[n]) THEN F(s.forms[n].action, "clear text", 3)
                      ELSE F(s.forms[n].action, "password by GET", 1) : n \in first(bad)}
  <2>1. SensitiveTransport(s) = passwords \union sessions \union sent
    BY Zenon DEF SensitiveTransport
  <2> HIDE DEF with, bad, clear, first
  <2>2. Mild(passwords)
    BY IssueRated DEF Mild
  <2>3. Mild(sessions)
    BY IssueRated DEF Mild
  <2>4. Mild(sent)
    BY IssueRated DEF Mild
  <2> HIDE DEF passwords, sessions, sent
  <2> QED
    BY <2>1, <2>2, <2>3, <2>4 DEF Mild
<1> QED
  BY <1>1, <1>2, <1>3

LEMMA MoreIsBacking == \A S, T : S \subseteq T /\ Mild(S) => Backed(S, T)
BY DEF Mild, Backed

LEMMA BackedTogether == \A S, T, U, V : Backed(S, U) /\ Backed(T, V) => Backed(S \union T, U \union V)
BY DEF Backed

LEMMA BackedByMore == \A S, T, U : Backed(S, T) => Backed(S, T \union U)
BY DEF Backed

\* With some of the answers lost, or with a base answer that the checks cannot
\* read, a scan accuses the site of nothing that the whole of them does not.
LEMMA FindingsAreBacked ==
    ASSUME NEW s \in WebSites, NEW a, NEW r, Hushed(a, r), NEW cache \in Kept
    PROVE  Backed(CheckFindings(s, a, cache), CheckFindings(s, r, "nothing"))
<1> DEFINE same(x) == UNION {SecurityHeaders(x), Clickjacking(x), Cors(x), CookieFlags(x),
                             HttpMethods(x), ErrorHandling(x), JwtSecurity(s, x), CsrfToken(s),
                             VulnerableJsLibrary(s), CrossDomainPolicy(x), CorsVariants(x),
                             SensitiveTransport(s)}
           like(x) == (Graphql(x) \union HostHeaderInjection(x, s.active))
                      \union (FileUpload(x, s.active) \union ShadowEndpoints(s, x))
                      \union DeserializationSignal(x)
<1>1. Backed(WordPressNative(a), WordPressNative(r))
  BY WordPressNativeBacked, MoreIsBacking
<1>2. same(a) \subseteq same(r) /\ Mild(same(a))
  <2>1. /\ SecurityHeaders(a) \subseteq SecurityHeaders(r) /\ Mild(SecurityHeaders(a))
        /\ Clickjacking(a) \subseteq Clickjacking(r) /\ Mild(Clickjacking(a))
        /\ Cors(a) \subseteq Cors(r) /\ Mild(Cors(a))
        /\ CookieFlags(a) \subseteq CookieFlags(r) /\ Mild(CookieFlags(a))
        /\ HttpMethods(a) \subseteq HttpMethods(r) /\ Mild(HttpMethods(a))
        /\ ErrorHandling(a) \subseteq ErrorHandling(r) /\ Mild(ErrorHandling(a))
    BY SecurityHeadersBacked, ClickjackingBacked, CorsBacked, CookieFlagsBacked,
       HttpMethodsBacked, ErrorHandlingBacked
  <2>2. /\ JwtSecurity(s, a) \subseteq JwtSecurity(s, r) /\ Mild(JwtSecurity(s, a))
        /\ CrossDomainPolicy(a) \subseteq CrossDomainPolicy(r) /\ Mild(CrossDomainPolicy(a))
        /\ CorsVariants(a) \subseteq CorsVariants(r) /\ Mild(CorsVariants(a))
        /\ Mild(CsrfToken(s)) /\ Mild(VulnerableJsLibrary(s)) /\ Mild(SensitiveTransport(s))
    BY JwtSecurityBacked, CrossDomainPolicyBacked, CorsVariantsBacked, CollectedAreRated
  <2>3. same(a) \subseteq same(r)
    BY <2>1, <2>2
  <2>4. Mild(same(a))
    BY <2>1, <2>2 DEF Mild
  <2> QED
    BY <2>3, <2>4
<1>3. Backed(like(a), like(r))
  BY GraphqlBacked, HostHeaderInjectionBacked, FileUploadBacked, ShadowEndpointsBacked,
     DeserializationSignalBacked, BackedTogether
<1>4. Backed(BaseReaders(s, a), BaseReaders(s, r))
  <2>1. Backed(CspAnalyzer(a["base"]), CspAnalyzer(r["base"]))
    BY CspAnalyzerBacked, MoreIsBacking
  <2>2. Backed(CookieAudit(a["base"], s.https), CookieAudit(r["base"], s.https))
    BY CookieAuditBacked, MoreIsBacking
  <2>3. Backed(InfoDisclosure(a["base"], a), InfoDisclosure(r["base"], r))
    BY InfoDisclosureBacked, MoreIsBacking
  <2> QED
    BY <2>1, <2>2, <2>3, BackedTogether, Zenon DEF BaseReaders
<1>5. \A x : /\ CheckFindings(s, x, "nothing") = IF s.wordpress THEN WordPressNative(x)
                                                ELSE (same(x) \union like(x)) \union BaseReaders(s, x)
             /\ CheckFindings(s, x, "dict") = IF s.wordpress THEN WordPressNative(x)
                                              ELSE same(x) \union like(x)
  BY DEF CheckFindings
<1>6. Backed(same(a) \union like(a), same(r) \union like(r))
  <2> HIDE DEF same, like
  <2> QED
    BY <1>2, <1>3, MoreIsBacking, BackedTogether
<1> HIDE DEF same, like
<1>7. CASE s.wordpress
  BY <1>1, <1>5, <1>7 DEF Kept
<1>8. CASE ~s.wordpress
  <2>1. CASE cache = "nothing"
    <3>1. Backed((same(a) \union like(a)) \union BaseReaders(s, a),
                 (same(r) \union like(r)) \union BaseReaders(s, r))
      BY <1>4, <1>6, BackedTogether
    <3> QED
      BY <1>5, <1>8, <2>1, <3>1
  <2>2. CASE cache = "dict"
    <3>1. Backed(same(a) \union like(a), (same(r) \union like(r)) \union BaseReaders(s, r))
      BY <1>6, BackedByMore
    <3> QED
      BY <1>5, <1>8, <2>2, <3>1
  <2> QED
    BY <2>1, <2>2 DEF Kept
<1> QED
  BY <1>7, <1>8

\* The cache is read by one scan after it was filled: the first to work on the
\* metadata itself finds nothing there, and a crawled one leaves it so.
WebIInv ==
    /\ WebTypeOK
    /\ direct = 0 => kept = "nothing"
    /\ SilenceIsNoWeakness
    /\ CrawledSiteIsSeenAfresh

LEMMA WebInitIInv == WebInit => WebIInv
<1> SUFFICES ASSUME WebInit PROVE WebIInv
  OBVIOUS
<1>1. MaxSiteScans \in Nat
  BY WebAssumption
<1>2. WebTypeOK
  <2>1. 0 \in 0..MaxSiteScans /\ 0 \in 0..2
    BY <1>1
  <2>2. answered \in BOOLEAN
    BY Zenon DEF WebInit
  <2> QED
    BY <2>1, <2>2 DEF WebInit, WebTypeOK, Kept
<1>3. SilenceIsNoWeakness
  BY DEF WebInit, SilenceIsNoWeakness
<1>4. CrawledSiteIsSeenAfresh
  BY Zenon DEF WebInit, CrawledSiteIsSeenAfresh
<1>5. direct = 0 => kept = "nothing"
  BY DEF WebInit
<1> QED
  BY <1>2, <1>3, <1>4, <1>5 DEF WebIInv

LEMMA ScanSiteKeeps ==
    ASSUME WebIInv, NEW lost \in Losses, NEW crawled \in BOOLEAN, ScanSite(lost, crawled)
    PROVE  WebIInv'
<1> DEFINE a == [p \in Probes |-> IF p \in lost THEN NoReply ELSE website.answers[p]]
<1>1. /\ issues' = CheckFindings(website, a, kept) /\ subject' = website
      /\ kept' = (IF website.wordpress THEN kept ELSE KeptAfter(website, kept, crawled))
      /\ answered' = (lost = {}) /\ scans < MaxSiteScans /\ scans' = scans + 1
      /\ direct' = (IF direct > 0 THEN 2 ELSE IF InPlace(website, crawled) THEN 1 ELSE 0)
      /\ UNCHANGED website
  BY DEF ScanSite
<1>2. /\ website \in WebSites /\ kept \in Kept /\ direct \in 0..2 /\ scans \in 0..MaxSiteScans
      /\ direct = 0 => kept = "nothing"
  BY DEF WebIInv, WebTypeOK
<1>3. Hushed(a, website.answers)
  BY DEF Hushed
<1>4. lost = {} => a = website.answers
  <2>1. website.answers \in [Probes -> [status: Nat, shows: SUBSET STRING]]
    BY <1>2, WebAssumption
  <2> HIDE DEF a
  <2>2. ASSUME lost = {} PROVE a = [p \in Probes |-> website.answers[p]]
    BY <2>2 DEF a
  <2> QED
    BY <2>1, <2>2
<1> HIDE DEF a
<1>5. Backed(issues', Weaknesses(subject)')
  <2>1. Weaknesses(subject)' = CheckFindings(website, website.answers, "nothing")
    BY <1>1 DEF Weaknesses
  <2> QED
    BY <1>1, <1>2, <1>3, <2>1, FindingsAreBacked
<1>6. SilenceIsNoWeakness'
  BY <1>5 DEF Backed, SilenceIsNoWeakness
<1>7. CrawledSiteIsSeenAfresh'
  <2> SUFFICES ASSUME answered', direct' < 2 PROVE issues' = Weaknesses(subject)'
    BY DEF CrawledSiteIsSeenAfresh
  <2>1. lost = {}
    BY <1>1, Zenon
  <2>2. direct = 0
    <3>1. direct' = (IF direct > 0 THEN 2 ELSE IF InPlace(website, crawled) THEN 1 ELSE 0)
      BY <1>1
    <3> QED
      BY <1>2, <3>1
  <2> QED
    BY <1>1, <1>2, <1>4, <2>1, <2>2 DEF Weaknesses
<1>8. (direct = 0 => kept = "nothing")'
  BY <1>1, <1>2 DEF KeptAfter, InPlace
<1>9. WebTypeOK'
  <2>1. \A f \in issues' : f.severity \in 0..4
    BY <1>5 DEF Backed, Rated
  <2>2. kept' \in Kept
    BY <1>1, <1>2 DEF KeptAfter, InPlace, Kept
  <2>3. scans' \in 0..MaxSiteScans /\ direct' \in 0..2
    BY <1>1, <1>2, WebAssumption
  <2> QED
    BY <1>1, <1>2, <2>1, <2>2, <2>3 DEF WebTypeOK
<1> QED
  BY <1>6, <1>7, <1>8, <1>9 DEF WebIInv

LEMMA WebNextIInv == WebIInv /\ [WebNext]_webVars => WebIInv'
<1> SUFFICES ASSUME WebIInv, [WebNext]_webVars PROVE WebIInv'
  OBVIOUS
<1>1. ASSUME NEW lost \in Losses, NEW crawled \in BOOLEAN, ScanSite(lost, crawled) PROVE WebIInv'
  BY <1>1, ScanSiteKeeps
<1>2. ASSUME NEW s \in WebSites, SiteChanges(s) PROVE WebIInv'
  BY <1>2 DEF SiteChanges, WebIInv, WebTypeOK, SilenceIsNoWeakness, CrawledSiteIsSeenAfresh,
              Weaknesses
<1>3. CASE UNCHANGED webVars
  BY <1>3 DEF webVars, WebIInv, WebTypeOK, SilenceIsNoWeakness, CrawledSiteIsSeenAfresh, Weaknesses
<1> QED
  BY <1>1, <1>2, <1>3 DEF WebNext

\* Every reachable state of the scans of a site satisfies the invariant.
THEOREM WebInvariance == WebSpec => []WebIInv
BY WebInitIInv, WebNextIInv, PTL DEF WebSpec

\* What a scan keeps and reports has its type, for any sites (WebModule._native_checks).
THEOREM WebTypeCorrect == WebSpec => []WebTypeOK
<1>1. WebIInv => WebTypeOK
  BY DEF WebIInv
<1> QED
  BY <1>1, WebInvariance, PTL

\* Whatever answers get lost, no check of web, API or WordPress assets accuses a
\* site of what it would not, if asked again, accuse it of with every answer.
THEOREM SilenceAccusesNobody == WebSpec => []SilenceIsNoWeakness
<1>1. WebIInv => SilenceIsNoWeakness
  BY DEF WebIInv
<1> QED
  BY <1>1, WebInvariance, PTL

\* As long as at most the latest scan worked on the metadata itself, an answered
\* scan reports the site as it is (the "_base_resp" of web_passive.py).
THEOREM AnsweredScanIsFresh == WebSpec => []CrawledSiteIsSeenAfresh
<1>1. WebIInv => CrawledSiteIsSeenAfresh
  BY DEF WebIInv
<1> QED
  BY <1>1, WebInvariance, PTL

=============================================================================
