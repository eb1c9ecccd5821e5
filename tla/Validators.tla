----------------------------- MODULE Validators ------------------------------
(***************************************************************************)
(* The safe validation of findings (validators/engine.py with the          *)
(* validators of modules/web.py), and the plan of it that reports print    *)
(* (validators/planner.py).  The engine takes the findings in turn; the    *)
(* first validator that applies and does not fail decides.  A probe may be *)
(* lost, which fails the validator, or blocked: an answer like any other.  *)
(***************************************************************************)
EXTENDS Naturals, Sequences

CONSTANTS
    Suspects,      \* findings: [claims, reflects, evaluates, exploit]
    MaxSuspects    \* bound: findings of a module

ASSUME ValidatorsAssumption ==
    /\ MaxSuspects \in Nat
    /\ Suspects \subseteq [claims : SUBSET {"xss", "sqli", "listing"}, reflects : BOOLEAN,
                          evaluates : BOOLEAN, exploit : BOOLEAN]

\* The validators of the engine, in its order, and those the report plans with.
EngineValidators == <<"xss", "sqli">>
PlannedValidators == <<"xss", "sqli", "listing">>

VARIABLES
    suspects,      \* the findings, each with what its target really does
    outcomes,      \* what validation made of the findings before the current one
    failed,        \* the validators that failed on the current finding
    replies        \* history: what became of the probes of each finding, by validator

validatorVars == <<suspects, outcomes, failed, replies>>

Untouched == [status |-> "detected", attempted |-> FALSE, confidence |-> "as found", evidence |-> 0]
Fates == {"answered", "lost", "blocked", "partly blocked"}

ValidatorsTypeOK ==
    /\ suspects \in Seq(Suspects) /\ Len(suspects) <= MaxSuspects
    /\ outcomes \in Seq([status : {"detected", "validated", "false_positive"},
                         attempted : BOOLEAN, confidence : {"as found", "high"},
                         evidence : 0..1])
    /\ failed \subseteq {"xss", "sqli"}
    /\ replies \in Seq([{"xss", "sqli"} -> Fates \cup {"none"}])

ValidatorsInit ==
    /\ suspects \in UNION {[1..n -> Suspects] : n \in 0..MaxSuspects}
    /\ outcomes = << >> /\ failed = {}
    /\ replies = [i \in 1..Len(suspects) |-> [v \in {"xss", "sqli"} |-> "none"]]

-----------------------------------------------------------------------------
(***************************************************************************)
(* The validators.                                                         *)
(***************************************************************************)

\* applies_to: by the finding's category or title.
Applies(validator, suspect) == validator \in suspect.claims

\* The first of a list of validators that applies and is not ruled out, "none" for none.
FirstApplying(list, suspect, without) ==
    LET fit == {n \in 1..Len(list) : Applies(list[n], suspect) /\ list[n] \notin without}
    IN  IF fit = {} THEN "none" ELSE list[CHOOSE n \in fit : \A m \in fit : n <= m]

\* The marker comes back unencoded, unless the probe's answer is a refusal.
XssResult(suspect, fate) ==
    IF fate = "answered" /\ suspect.reflects THEN "confirmed" ELSE "not_exploitable"

\* The status and length of the answers to the page alone, and to the true and the
\* false condition, which are of one length; an echo of either makes the page longer.
Signature(suspect, probe, blocked) ==
    [blocked |-> blocked, echo |-> ~blocked /\ suspect.reflects /\ probe # "base",
     empty |-> ~blocked /\ suspect.evaluates /\ probe = "false"]

\* The TRUE condition matches the page and the FALSE one does not.  Of the three
\* answers a filter or a rate limit refuses both conditions, or the last only.
SqliResult(suspect, fate) ==
    LET base == Signature(suspect, "base", FALSE)
    IN  IF /\ Signature(suspect, "true", fate = "blocked") = base
           /\ Signature(suspect, "false", fate \in {"blocked", "partly blocked"}) # base
        THEN "confirmed" ELSE "inconclusive"

\* A seeded fault: a probe that is lost reads as an answer without the marker.
LostReadsAsEmpty(validator, suspect, fate) ==
    IF validator = "xss" THEN XssResult(suspect, fate) ELSE SqliResult(suspect, fate)

\* A lost probe raises in the validator.
Result(validator, suspect, fate) ==
    CASE fate = "lost" -> "failed"
      [] fate # "lost" /\ validator = "xss" -> XssResult(suspect, fate)
      [] OTHER -> SqliResult(suspect, fate)

-----------------------------------------------------------------------------
(***************************************************************************)
(* ValidationEngine.validate.                                              *)
(***************************************************************************)

Current == Len(outcomes) + 1

Applied(result) ==
    CASE result = "confirmed" ->
            [status |-> "validated", attempted |-> TRUE, confidence |-> "high", evidence |-> 1]
      [] result = "not_exploitable" ->
            [Untouched EXCEPT !.status = "false_positive", !.attempted = TRUE]
      [] OTHER -> [Untouched EXCEPT !.attempted = TRUE]

\* The next validator that applies probes the current finding.
Validate ==
    /\ Current <= Len(suspects)
    /\ LET suspect == suspects[Current]
           validator == FirstApplying(EngineValidators, suspect, failed)
       IN  /\ validator # "none"
           /\ \E fate \in (IF validator = "xss" THEN Fates \ {"partly blocked"} ELSE Fates) :
                /\ replies' = [replies EXCEPT ![Current][validator] = fate]
                /\ IF Result(validator, suspect, fate) = "failed"
                   THEN failed' = failed \cup {validator} /\ UNCHANGED outcomes
                   ELSE /\ outcomes' = Append(outcomes, Applied(Result(validator, suspect, fate)))
                        /\ failed' = {}
    /\ UNCHANGED suspects

\* No validator is left for the current finding: it stays as it was found.
LeaveAsFound ==
    /\ Current <= Len(suspects)
    /\ FirstApplying(EngineValidators, suspects[Current], failed) = "none"
    /\ outcomes' = Append(outcomes, Untouched)
    /\ failed' = {}
    /\ UNCHANGED <<suspects, replies>>

ValidatorsNext == Validate \/ LeaveAsFound

ValidatorsSpec == ValidatorsInit /\ [][ValidatorsNext]_validatorVars

-----------------------------------------------------------------------------
\* plan_one: none of the validators is active, so each one that applies is safe.
Plan(suspect) ==
    CASE FirstApplying(PlannedValidators, suspect, {}) # "none" -> "safe"
      [] FirstApplying(PlannedValidators, suspect, {}) = "none" /\ suspect.exploit -> "manual"
      [] OTHER -> "none"

\* What validation made of a finding follows from what its probes brought back: one
\* is validated only if its target reflects the marker, or if it tells the two
\* conditions apart or a filter did; one is dismissed only by an answer without the
\* marker; where a validator failed the next one decided; and one that no answer
\* came for, or that was planned for no validator, is as it was found
\* (ValidationEngine.validate, _apply, plan_one).
VerdictFollowsProbes ==
    \A i \in 1..Len(outcomes) :
        LET suspect == suspects[i]
            heard == {v \in {"xss", "sqli"} : replies[i][v] \notin {"none", "lost"}}
            outcome == outcomes[i]
        IN  /\ outcome.status = "validated" =>
                 \/ replies[i]["xss"] = "answered" /\ suspect.reflects
                 \/ replies[i]["sqli"] = "answered" /\ suspect.evaluates
                 \/ replies[i]["sqli"] = "partly blocked"
            /\ outcome.status = "false_positive" =>
                 /\ heard = {"xss"}
                 /\ replies[i]["xss"] = "blocked" \/ ~suspect.reflects
            /\ replies[i]["sqli"] # "none" /\ Applies("xss", suspect) => replies[i]["xss"] = "lost"
            /\ heard = {} <=> outcome = Untouched
            /\ Plan(suspect) \in {"manual", "none"} => outcome = Untouched

=============================================================================
