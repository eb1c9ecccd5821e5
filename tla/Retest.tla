------------------------------- MODULE Retest -------------------------------
(***************************************************************************)
(* How a finding ages over the scans of one engagement: detection and      *)
(* validation (Engagement.add_findings, ValidationEngine), re-runs on top  *)
(* of what is stored, and retests (_run_engagement with retest=True and    *)
(* merge_retest of pentestiq/workflow/retest.py).                          *)
(*                                                                         *)
(* A retest keeps the stored findings aside, in memory only, and scans     *)
(* into a clean slate that partial saves write over the row; the two are   *)
(* merged when the engine returns, also when it was stopped half way.  Any *)
(* other exception stores what there is without merging, and a process     *)
(* that dies leaves the last partial save.                                 *)
(*                                                                         *)
(* Time is the number of the scan; Never (0) stands for None.              *)
(***************************************************************************)
EXTENDS Naturals

CONSTANTS
    Keys,       \* dedup keys
    MaxScans    \* bound: scans in a behaviour

ASSUME RetestAssumption == MaxScans \in Nat

Never == 0

Times == 0..MaxScans

Statuses == {"absent", "detected", "validated", "false_positive", "remediated"}

Lifecycles == {"none", "new", "persisting", "fixed"}

\* What is stored under a dedup key; status "absent" when nothing is.
Finding == [status: Statuses, first_seen: Times, remediated_at: Times,
            lifecycle: Lifecycles]

Absent == [status |-> "absent", first_seen |-> Never, remediated_at |-> Never,
           lifecycle |-> "none"]

Nothing == [k \in Keys |-> Absent]

VARIABLES
    stored,     \* the findings in the engagement's row
    eng,        \* those of the engagement in memory
    prior,      \* the snapshot a retest is compared with
    mode,       \* the kind of the present or last scan: "run" or "retest"
    pc,         \* "idle" or "scanning"
    outcome,    \* how the last scan ended
    todo,       \* keys the present scan has not looked for yet
    now,        \* scans begun
    earliest,   \* history: the scan that first reported a key, or Never
    fixedAt,    \* history: the retest that looked for it and found it gone, or Never
    presumed,   \* history: keys dated fixed by a retest that never looked for them
    blurred     \* history: keys whose record no longer has to be exact

history == <<earliest, fixedAt, presumed, blurred>>
retestVars == <<stored, eng, prior, mode, pc, outcome, todo, now, history>>

RetestTypeOK ==
    /\ stored \in [Keys -> Finding]
    /\ eng \in [Keys -> Finding]
    /\ prior \in [Keys -> Finding]
    /\ mode \in {"run", "retest"}
    /\ pc \in {"idle", "scanning"}
    /\ outcome \in {"none", "concluded", "failed", "crashed"}
    /\ todo \subseteq Keys
    /\ now \in Times
    /\ earliest \in [Keys -> Times]
    /\ fixedAt \in [Keys -> Times]
    /\ presumed \subseteq Keys
    /\ blurred \subseteq Keys

RetestInit ==
    /\ stored = Nothing
    /\ eng = Nothing
    /\ prior = Nothing
    /\ mode = "run"
    /\ pc = "idle"
    /\ outcome = "none"
    /\ todo = {}
    /\ now = 0
    /\ earliest = [k \in Keys |-> Never]
    /\ fixedAt = [k \in Keys |-> Never]
    /\ presumed = {}
    /\ blurred = {}

-----------------------------------------------------------------------------
(***************************************************************************)
(* merge_retest, per key.                                                  *)
(***************************************************************************)
\* _active: false positives are left out of both sides.
Active(f) == f.status \notin {"absent", "false_positive"}

\* Seeded fault: the date of the fresh detection is kept.
PersistsSinceNow(old, f) ==
    [f EXCEPT !.lifecycle = "persisting",
              !.status = IF @ = "remediated" THEN "detected" ELSE @,
              !.remediated_at = Never]

Persisting(old, f) ==
    [f EXCEPT !.first_seen = old.first_seen,
              !.lifecycle = "persisting",
              !.status = IF @ = "remediated" THEN "detected" ELSE @,
              !.remediated_at = Never]

\* Seeded fault: the status of a finding that is gone is left as it was.
FixedInNameOnly(old, when) == [old EXCEPT !.lifecycle = "fixed"]

\* One remediated before keeps its date.
Fixed(old, when) ==
    [old EXCEPT !.lifecycle = "fixed",
                !.status = "remediated",
                !.remediated_at = IF old.status = "remediated" THEN @ ELSE when]

MergeRetest(previous, current, when) ==
    [k \in Keys |->
        IF Active(current[k])
        THEN IF Active(previous[k]) THEN Persisting(previous[k], current[k])
             ELSE [current[k] EXCEPT !.lifecycle = "new"]
        ELSE IF Active(previous[k]) THEN Fixed(previous[k], when)
             ELSE previous[k]]

-----------------------------------------------------------------------------
\* Seeded fault: a detection is dated with the scan to come.
DetectedAhead(verdict) == [Absent EXCEPT !.status = verdict, !.first_seen = now + 1]

\* A fresh detection, with the status validation leaves it in.
Detected(verdict) == [Absent EXCEPT !.status = verdict, !.first_seen = now]

Start(m) ==
    /\ pc = "idle"
    /\ now < MaxScans
    /\ pc' = "scanning"
    /\ mode' = m
    /\ now' = now + 1
    /\ todo' = Keys
    /\ prior' = IF m = "retest" THEN stored ELSE Nothing
    /\ eng' = IF m = "retest" THEN Nothing ELSE stored
    /\ UNCHANGED <<stored, outcome, history>>

\* A key the scan looks for and does not find.
Miss(k) ==
    /\ pc = "scanning"
    /\ k \in todo
    /\ todo' = todo \ {k}
    /\ UNCHANGED <<stored, eng, prior, mode, pc, outcome, now, history>>

\* add_findings keeps the record a key already has (merge_source adds tools
\* and evidence only); the save that follows may fail unnoticed.
Detect(k) ==
    /\ pc = "scanning"
    /\ k \in todo
    /\ todo' = todo \ {k}
    /\ \E verdict \in {"detected", "validated", "false_positive"} :
          /\ eng' = IF eng[k] = Absent
                    THEN [eng EXCEPT ![k] = Detected(verdict)]
                    ELSE eng
          /\ blurred' = IF eng'[k].status = "false_positive" THEN blurred \union {k}
                        ELSE blurred
    /\ stored' \in {stored, eng'}
    /\ UNCHANGED <<prior, mode, pc, outcome, now, earliest, fixedAt, presumed>>

\* What a reader of all the scans' reports, and of what each of them looked for,
\* would have noted down.  A key still to be looked for was not found gone.
Note ==
    /\ earliest' = [k \in Keys |->
                       IF earliest[k] = Never /\ Active(eng[k]) THEN now
                       ELSE earliest[k]]
    /\ fixedAt' = [k \in Keys |->
                      IF mode = "run" \/ earliest'[k] = Never THEN fixedAt[k]
                      ELSE IF Active(eng[k]) THEN Never
                      ELSE IF fixedAt[k] = Never /\ k \notin todo THEN now
                      ELSE fixedAt[k]]
    /\ presumed' = IF mode = "run" THEN presumed
                   ELSE {k \in Keys : /\ earliest'[k] # Never /\ ~Active(eng[k])
                                      /\ k \in presumed \/ (k \in todo /\ fixedAt[k] = Never)}

End(how) == pc' = "idle" /\ outcome' = how /\ todo' = {}

\* The engine returns: the scan is through, was stopped or ran out of time, or
\* went on past a module that raised.  What is left in todo nobody looked for.
Conclude ==
    /\ pc = "scanning"
    /\ End("concluded")
    /\ eng' = IF mode = "retest" THEN MergeRetest(prior, eng, now) ELSE eng
    /\ stored' = eng'
    /\ Note
    /\ UNCHANGED <<prior, mode, now, blurred>>

\* The engine raises: what there is is stored, a retest is not merged.
Fail ==
    /\ pc = "scanning"
    /\ End("failed")
    /\ stored' = eng
    /\ IF mode = "retest"
       THEN blurred' = Keys /\ UNCHANGED <<earliest, fixedAt, presumed>>
       ELSE Note /\ UNCHANGED blurred
    /\ UNCHANGED <<eng, prior, mode, now>>

\* The process dies: the last partial save stays in the row.
Crash ==
    /\ pc = "scanning"
    /\ End("crashed")
    /\ eng' = stored
    /\ blurred' = IF mode = "retest" THEN Keys
                  ELSE blurred \union {k \in Keys : earliest[k] = Never}
    /\ UNCHANGED <<stored, prior, mode, now, earliest, fixedAt, presumed>>

RetestNext ==
    \/ \E m \in {"run", "retest"} : Start(m)
    \/ \E k \in Keys : Miss(k) \/ Detect(k)
    \/ Conclude \/ Fail \/ Crash

RetestSpec == RetestInit /\ [][RetestNext]_retestVars

-----------------------------------------------------------------------------
(***************************************************************************)
(* The figures MTTR is computed from are true: whatever mixture of runs    *)
(* and retests, complete or stopped, went before, a finding carries the    *)
(* date of the scan that first reported it and, if remediated, of the      *)
(* retest that first looked for it in vain since one last reported it; and *)
(* nothing reported has vanished.  A key no retest looked for is the       *)
(* exception the code makes (see FixedMeansLookedFor): it is dated all the *)
(* same, and keeps that date until a retest reports it.  Excepted as well  *)
(* are keys once dismissed as false positives and what a failed or killed  *)
(* retest has overwritten.                                                 *)
(***************************************************************************)
MttrIsHonest ==
    pc = "idle" =>
        \A k \in Keys \ blurred :
            /\ stored[k] = Absent <=> earliest[k] = Never
            /\ stored[k].first_seen = earliest[k]
            /\ IF k \in presumed THEN stored[k].remediated_at \in 1..now
               ELSE stored[k].remediated_at = fixedAt[k]

(***************************************************************************)
(* models/finding.py: remediated_at is "set when a retest confirms it      *)
(* fixed".  So what carries a date was looked for by some retest, and not  *)
(* found.                                                                  *)
(***************************************************************************)
FixedMeansLookedFor ==
    pc = "idle" =>
        \A k \in Keys \ blurred : stored[k].remediated_at # Never => fixedAt[k] # Never

(***************************************************************************)
(* Status, remediation date and lifecycle tag tell the same story for      *)
(* every finding, stored or in memory, after failures and crashes too: a   *)
(* tracked duration is never negative, a remediated finding is dated and   *)
(* tagged fixed, and a finding dismissed as false positive is neither.     *)
(***************************************************************************)
Coherent(f) ==
    /\ f.status = "remediated" <=> f.remediated_at # Never
    /\ f.status = "remediated" <=> f.lifecycle = "fixed"
    /\ f.status = "remediated" => f.first_seen <= f.remediated_at
    /\ f.status = "false_positive" => f.lifecycle = "none"

FindingsAreCoherent == \A k \in Keys : Coherent(stored[k]) /\ Coherent(eng[k])

(***************************************************************************)
(* workflow/retest.py: "False-positive findings are preserved as-is (never *)
(* resurrected or auto-remediated)".                                       *)
(***************************************************************************)
FalsePositivesArePreserved ==
    pc = "idle" /\ outcome = "concluded" /\ mode = "retest" =>
        \A k \in Keys :
            prior[k].status = "false_positive" => stored[k] = prior[k]

=============================================================================
