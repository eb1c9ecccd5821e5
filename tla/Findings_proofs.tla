--------------------------- MODULE Findings_proofs ---------------------------
(***************************************************************************)
(* What becomes of findings: the dates and states a retest leaves, for any *)
(* set of dedup keys and any number of scans; the attack paths shown, for  *)
(* any findings, catalogue and list length; what a traffic capture puts on *)
(* record, for any captures, cap and number of handlers; what any reports  *)
(* of other scanners add up to; how evidence ranks findings and what a     *)
(* matched service leaves in the row, for any catalogues, banners and      *)
(* versions; what the scans of source code report, for any rules, trees,   *)
(* rows, lock files and advisories.  The six share no state, so each part  *)
(* stands by itself; the last folds its findings as the imports do.        *)
(***************************************************************************)
EXTENDS Retest, AttackPaths, Deepscan, Imports, Intel, CodeScan, FiniteSetTheorems,
        SequenceTheorems, WellFoundedInduction, TLAPS

-----------------------------------------------------------------------------
(***************************************************************************)
(* Retest.                                                                 *)
(***************************************************************************)

Verdicts == {"detected", "validated", "false_positive"}

(***************************************************************************)
(* No record is dated ahead, and one without a status is no record.        *)
(***************************************************************************)
IsSound(f) ==
    /\ Coherent(f)
    /\ f.first_seen <= now
    /\ f.status = "absent" => f = Absent

RecordsSound == \A k \in Keys : IsSound(stored[k]) /\ IsSound(eng[k]) /\ IsSound(prior[k])

ClockRuns == pc = "scanning" => now # Never

\* What the present scan may have put under a key that held nothing.
IsNew(f) == f = Absent \/ \E v \in Verdicts : f = Detected(v)

RetestIsClean == pc = "scanning" /\ mode = "retest" => \A k \in Keys : IsNew(eng[k])

DismissalsBlur ==
    \A k \in Keys :
        "false_positive" \in {stored[k].status, eng[k].status, prior[k].status}
            => k \in blurred

(***************************************************************************)
(* Outside a scan the row is exact.  During a run row and engagement are,  *)
(* but for keys reported for the first time; during a retest, whose        *)
(* partial saves overwrite the row, only the snapshot is.                  *)
(***************************************************************************)
Exact(f, k) ==
    /\ f = Absent <=> earliest[k] = Never
    /\ f.first_seen = earliest[k]
    /\ IF k \in presumed THEN f.remediated_at \in 1..now
       ELSE f.remediated_at = fixedAt[k]

Tracked(k) ==
    /\ earliest[k] = Never => fixedAt[k] = Never /\ k \notin presumed
    /\ pc = "idle" => Exact(stored[k], k)
    /\ pc = "scanning" /\ mode = "run" =>
           IF earliest[k] = Never
           THEN IsNew(eng[k]) /\ IsNew(stored[k])
           ELSE Exact(eng[k], k) /\ Exact(stored[k], k)
    /\ pc = "scanning" /\ mode = "retest" => Exact(prior[k], k)

KeysTracked == \A k \in Keys \ blurred : Tracked(k)

RetestIInv ==
    /\ RetestTypeOK
    /\ RecordsSound
    /\ ClockRuns
    /\ RetestIsClean
    /\ DismissalsBlur
    /\ KeysTracked

-----------------------------------------------------------------------------
(***************************************************************************)
(* The records the operators make.                                         *)
(***************************************************************************)
LEMMA NeverIsATime == Never \in Times /\ Never = 0
  BY RetestAssumption DEF Never, Times

LEMMA AbsentIsSound ==
    ASSUME RetestTypeOK
    PROVE  /\ Absent \in Finding /\ IsSound(Absent) /\ ~Active(Absent)
           /\ Absent.status = "absent" /\ Absent.first_seen = Never
           /\ Absent.remediated_at = Never
  BY NeverIsATime DEF RetestTypeOK, Absent, Finding, Statuses, Lifecycles, IsSound, Coherent,
     Active, Times

LEMMA DetectionIsSound ==
    ASSUME RetestTypeOK, now # Never, NEW v \in Verdicts
    PROVE  /\ Detected(v) \in Finding /\ IsSound(Detected(v))
           /\ Detected(v).status = v
           /\ Detected(v).first_seen = now
           /\ Detected(v).remediated_at = Never
           /\ Detected(v).lifecycle = "none"
           /\ Detected(v) # Absent
  <1>1. v \in Statuses /\ v \notin {"absent", "remediated"} /\ now \in Nat /\ now \in Times
    BY DEF Verdicts, Statuses, RetestTypeOK, Times
  <1>2. Absent \in Finding /\ Absent.status = "absent" /\ Absent.remediated_at = Never
    BY AbsentIsSound
  <1>3. Absent.lifecycle = "none"
    BY DEF Absent
  <1>4. /\ Detected(v) \in Finding
        /\ Detected(v).status = v
        /\ Detected(v).first_seen = now
        /\ Detected(v).remediated_at = Never
        /\ Detected(v).lifecycle = "none"
    BY <1>1, <1>2, <1>3 DEF Detected, Finding
  <1>5. Detected(v) # Absent
    BY <1>1, <1>2, <1>4
  <1>6. IsSound(Detected(v))
    BY <1>1, <1>4 DEF IsSound, Coherent
  <1> QED
    BY <1>4, <1>5, <1>6

LEMMA MergedRecord ==
    ASSUME NEW p \in Finding, NEW c \in Finding, NEW when \in Times, NEW m,
           m = IF Active(c)
               THEN IF Active(p) THEN Persisting(p, c) ELSE [c EXCEPT !.lifecycle = "new"]
               ELSE IF Active(p) THEN Fixed(p, when) ELSE p
    PROVE  /\ m \in Finding
           /\ Active(c) /\ Active(p) =>
                 /\ m.first_seen = p.first_seen
                 /\ m.lifecycle = "persisting"
                 /\ m.status \notin {"absent", "false_positive", "remediated"}
                 /\ m.remediated_at = Never
           /\ Active(c) /\ ~Active(p) =>
                 /\ m.first_seen = c.first_seen
                 /\ m.lifecycle = "new"
                 /\ m.status = c.status
                 /\ m.remediated_at = c.remediated_at
           /\ ~Active(c) /\ Active(p) =>
                 /\ m.first_seen = p.first_seen
                 /\ m.lifecycle = "fixed"
                 /\ m.status = "remediated"
                 /\ m.remediated_at = IF p.status = "remediated" THEN p.remediated_at
                                      ELSE when
           /\ ~Active(c) /\ ~Active(p) => m = p
  <1>1. CASE Active(c) /\ Active(p)
    BY <1>1, NeverIsATime DEF Persisting, Active, Finding, Statuses, Lifecycles
  <1>2. CASE Active(c) /\ ~Active(p)
    BY <1>2 DEF Finding, Lifecycles
  <1>3. CASE ~Active(c) /\ Active(p)
    BY <1>3 DEF Fixed, Finding, Statuses, Lifecycles
  <1>4. CASE ~Active(c) /\ ~Active(p)
    BY <1>4
  <1> QED
    BY <1>1, <1>2, <1>3, <1>4

-----------------------------------------------------------------------------
LEMMA RetestStarts == RetestInit => RetestIInv
  <1> SUFFICES ASSUME RetestInit PROVE RetestIInv
    OBVIOUS
  <1>1. Absent \in Finding
    BY NeverIsATime DEF Absent, Finding, Statuses, Lifecycles
  <1>2. RetestTypeOK
    BY <1>1, NeverIsATime, RetestAssumption DEF RetestInit, RetestTypeOK, Nothing, Times
  <1>3. RecordsSound
    BY <1>2, AbsentIsSound DEF RetestInit, RecordsSound, Nothing
  <1>4. ClockRuns /\ RetestIsClean
    BY DEF RetestInit, ClockRuns, RetestIsClean
  <1>5. DismissalsBlur
    BY <1>2, AbsentIsSound DEF RetestInit, DismissalsBlur, Nothing
  <1>6. KeysTracked
    BY <1>2, AbsentIsSound DEF RetestInit, KeysTracked, Tracked, Exact, Nothing
  <1> QED
    BY <1>2, <1>3, <1>4, <1>5, <1>6 DEF RetestIInv

-----------------------------------------------------------------------------
(***************************************************************************)
(* A scan begins.                                                          *)
(***************************************************************************)
LEMMA ScanStartKeeps ==
    ASSUME RetestIInv, NEW m \in {"run", "retest"}, Start(m)
    PROVE  RetestIInv'
  <1> USE DEF RetestIInv
  <1>0. /\ now \in Nat /\ now' = now + 1 /\ now' \in Times /\ now' # Never
        /\ earliest' = earliest /\ fixedAt' = fixedAt /\ presumed' = presumed
        /\ blurred' = blurred
        /\ stored' = stored /\ pc = "idle" /\ pc' = "scanning" /\ mode' = m
    BY RetestAssumption DEF Start, RetestTypeOK, Times, Never, history
  <1>1. RetestTypeOK'
    BY <1>0, AbsentIsSound DEF Start, RetestTypeOK, Nothing
  <1>2. \A k \in Keys : /\ eng'[k] \in {stored[k], Absent}
                        /\ prior'[k] \in {stored[k], Absent}
                        /\ m = "run" => eng'[k] = stored[k]
                        /\ m = "retest" => eng'[k] = Absent /\ prior'[k] = stored[k]
    BY DEF Start, Nothing
  <1>3. \A f \in Finding : IsSound(f) => IsSound(f)'
    BY <1>0 DEF Finding, IsSound, Times, Coherent
  <1>4. RecordsSound'
    BY <1>0, <1>2, <1>3, AbsentIsSound DEF RecordsSound, RetestTypeOK
  <1>5. ClockRuns' /\ RetestIsClean'
    BY <1>0, <1>2 DEF ClockRuns, RetestIsClean, IsNew
  <1>6. DismissalsBlur'
    BY <1>0, <1>2, AbsentIsSound DEF DismissalsBlur
  <1>7. KeysTracked'
    BY <1>0, <1>2 DEF KeysTracked, Tracked, Exact, IsNew
  <1> QED
    BY <1>1, <1>4, <1>5, <1>6, <1>7

(***************************************************************************)
(* A key is found again or for the first time.                             *)
(***************************************************************************)
LEMMA DetectKeeps ==
    ASSUME RetestIInv, NEW k \in Keys, Detect(k)
    PROVE  RetestIInv'
  <1> USE DEF RetestIInv
  <1>0. /\ UNCHANGED <<prior, mode, pc, now, earliest, fixedAt, presumed>>
        /\ pc = "scanning" /\ now # Never
    BY DEF Detect, ClockRuns
  <1> PICK v \in Verdicts :
          /\ eng' = IF eng[k] = Absent THEN [eng EXCEPT ![k] = Detected(v)] ELSE eng
          /\ blurred' = IF eng'[k].status = "false_positive" THEN blurred \union {k}
                        ELSE blurred
    BY DEF Detect, Verdicts
  <1>1. /\ \A q \in Keys : \/ eng'[q] = eng[q]
                           \/ q = k /\ eng[q] = Absent /\ eng'[q] = Detected(v)
        /\ \A q \in Keys : stored'[q] \in {stored[q], eng'[q]}
        /\ blurred \subseteq blurred'
    BY DEF Detect, RetestTypeOK
  <1>2. Detected(v) \in Finding /\ IsSound(Detected(v))
    BY <1>0, DetectionIsSound
  <1>3. RetestTypeOK'
    BY <1>0, <1>2 DEF Detect, RetestTypeOK
  <1>4. RecordsSound'
    BY <1>0, <1>1, <1>2 DEF RecordsSound, IsSound
  <1>5. \A f : IsNew(f)' <=> IsNew(f)
    BY <1>0 DEF IsNew, Detected
  <1>6. \A q \in Keys : IsNew(eng[q]) => IsNew(eng'[q])
    BY <1>1 DEF IsNew
  <1>7. ClockRuns' /\ RetestIsClean'
    BY <1>0, <1>5, <1>6 DEF ClockRuns, RetestIsClean
  <1>8. DismissalsBlur'
    <2>1. eng'[k].status = "false_positive" => k \in blurred'
      OBVIOUS
    <2> QED
      BY <1>0, <1>1, <2>1 DEF DismissalsBlur
  <1>9. KeysTracked'
    <2> SUFFICES ASSUME NEW q \in Keys \ blurred PROVE Tracked(q)'
      BY <1>1 DEF KeysTracked
    <2>1. earliest[q] # Never /\ mode = "run" => eng'[q] = eng[q]
      BY <1>0, <1>1 DEF KeysTracked, Tracked, Exact
    <2> QED
      BY <1>0, <1>1, <1>5, <1>6, <2>1 DEF KeysTracked, Tracked, Exact
  <1> QED
    BY <1>3, <1>4, <1>7, <1>8, <1>9

LEMMA MissKeeps ==
    ASSUME RetestIInv, NEW k \in Keys, Miss(k)
    PROVE  RetestIInv'
  <1> USE DEF RetestIInv, Miss
  <1>1. RetestTypeOK'
    BY DEF RetestTypeOK, history
  <1>2. RecordsSound' /\ ClockRuns' /\ DismissalsBlur'
    BY DEF RecordsSound, IsSound, ClockRuns, DismissalsBlur, history
  <1>3. RetestIsClean'
    BY DEF RetestIsClean, IsNew, Detected, history
  <1>4. KeysTracked'
    <2>1. \A x \in Keys : IsNew(eng[x])' = IsNew(eng[x]) /\ IsNew(stored[x])' = IsNew(stored[x])
      BY DEF IsNew, Detected, history
    <2>2. UNCHANGED <<stored, eng, prior, mode, pc, now, blurred, earliest, fixedAt, presumed>>
      BY DEF history
    <2> HIDE DEF Miss
    <2>3. ASSUME NEW x \in Keys \ blurred PROVE Tracked(x)'
      BY <2>1, <2>2 DEF KeysTracked, Tracked, Exact
    <2> QED
      BY <2>2, <2>3 DEF KeysTracked
  <1> QED
    BY <1>1, <1>2, <1>3, <1>4

(***************************************************************************)
(* The engine returns.  What is stored then is sound and exact.            *)
(***************************************************************************)
LEMMA MergeIsSound ==
    ASSUME RetestIInv, pc = "scanning", mode = "retest", NEW k \in Keys
    PROVE  LET m == MergeRetest(prior, eng, now)[k]
           IN  /\ m \in Finding
               /\ IsSound(m)
               /\ m.status = "false_positive" => prior[k].status = "false_positive"
  <1> DEFINE p == prior[k]
             c == eng[k]
             m == MergeRetest(prior, eng, now)[k]
  <1> SUFFICES /\ m \in Finding
               /\ IsSound(m)
               /\ m.status = "false_positive" => p.status = "false_positive"
    OBVIOUS
  <1>1. /\ p \in Finding /\ c \in Finding /\ now \in Times /\ now \in Nat /\ now # Never
        /\ IsSound(p) /\ IsSound(c)
    BY DEF RetestIInv, RetestTypeOK, RecordsSound, ClockRuns, Times
  <1>2. c.status # "remediated"
    <2>1. CASE c = Absent
      BY <2>1, AbsentIsSound DEF RetestIInv
    <2>2. CASE c # Absent
      <3>1. PICK v \in Verdicts : c = Detected(v)
        BY <2>2 DEF RetestIInv, RetestIsClean, IsNew
      <3>2. c.status = v
        BY <1>1, <3>1, DetectionIsSound DEF RetestIInv
      <3> QED
        BY <3>2 DEF Verdicts
    <2> QED
      BY <2>1, <2>2
  <1>3. m = IF Active(c)
            THEN IF Active(p) THEN Persisting(p, c) ELSE [c EXCEPT !.lifecycle = "new"]
            ELSE IF Active(p) THEN Fixed(p, now) ELSE p
    BY DEF MergeRetest
  <1> HIDE DEF p, c, m
  <1>4. m \in Finding
    BY <1>1, <1>3, MergedRecord
  <1>5. CASE Active(c) /\ Active(p)
    BY <1>1, <1>3, <1>4, <1>5, MergedRecord DEF IsSound, Coherent
  <1>6. CASE Active(c) /\ ~Active(p)
    BY <1>1, <1>2, <1>3, <1>4, <1>6, MergedRecord DEF IsSound, Coherent, Active
  <1>7. CASE ~Active(c) /\ Active(p)
    BY <1>1, <1>3, <1>4, <1>7, MergedRecord DEF IsSound, Coherent, Finding, Times
  <1>8. CASE ~Active(c) /\ ~Active(p)
    BY <1>1, <1>3, <1>8
  <1> QED
    BY <1>4, <1>5, <1>6, <1>7, <1>8

LEMMA MergeIsExact ==
    ASSUME RetestIInv, Conclude, mode = "retest", NEW k \in Keys \ blurred
    PROVE  Exact(stored[k], k)' /\ (earliest'[k] = Never => fixedAt'[k] = Never /\ k \notin presumed')
  <1> DEFINE p == prior[k]
             c == eng[k]
             m == MergeRetest(prior, eng, now)[k]
  <1>1. /\ p \in Finding /\ c \in Finding /\ now \in Times /\ now # Never
        /\ IsSound(p) /\ Exact(p, k)
        /\ earliest[k] = Never => fixedAt[k] = Never /\ k \notin presumed
    BY DEF RetestIInv, RetestTypeOK, RecordsSound, ClockRuns, KeysTracked, Tracked, Conclude
  <1>2. m = IF Active(c)
            THEN IF Active(p) THEN Persisting(p, c) ELSE [c EXCEPT !.lifecycle = "new"]
            ELSE IF Active(p) THEN Fixed(p, now) ELSE p
    BY DEF MergeRetest
  <1>3. (Active(c) <=> c # Absent) /\ (Active(p) <=> p # Absent)
    BY AbsentIsSound DEF RetestIInv, RecordsSound, IsSound, DismissalsBlur, Active
  <1>4. c # Absent => c.first_seen = now /\ c.remediated_at = Never
    <2> SUFFICES ASSUME c # Absent PROVE c.first_seen = now /\ c.remediated_at = Never
      OBVIOUS
    <2>1. PICK v \in Verdicts : c = Detected(v)
      BY DEF RetestIInv, RetestIsClean, IsNew, Conclude
    <2> QED
      BY <1>1, <2>1, DetectionIsSound DEF RetestIInv
  <1>5. stored'[k] = m /\ m \in Finding /\ IsSound(m)
    BY MergeIsSound DEF Conclude
  <1>6. earliest'[k] = IF earliest[k] = Never /\ Active(c) THEN now ELSE earliest[k]
    BY DEF Conclude, Note
  <1>7. fixedAt'[k] = IF earliest'[k] = Never THEN fixedAt[k]
                      ELSE IF Active(c) THEN Never
                      ELSE IF fixedAt[k] = Never /\ k \notin todo THEN now
                      ELSE fixedAt[k]
    BY DEF Conclude, Note
  <1>8. k \in presumed' <=> /\ earliest'[k] # Never /\ ~Active(c)
                            /\ k \in presumed \/ (k \in todo /\ fixedAt[k] = Never)
    BY DEF Conclude, Note
  <1>9. /\ m = Absent <=> earliest'[k] = Never
        /\ m.first_seen = earliest'[k]
        /\ IF k \in presumed' THEN m.remediated_at \in 1..now
           ELSE m.remediated_at = fixedAt'[k]
        /\ earliest'[k] = Never => fixedAt'[k] = Never /\ k \notin presumed'
    <2> HIDE DEF p, c, m
    <2>0. now \in 1..now /\ Never \notin 1..now
      BY <1>1, NeverIsATime DEF Times
    <2>1. CASE Active(c) /\ Active(p)
      BY <1>1, <1>2, <1>3, <1>6, <1>7, <1>8, <2>1, MergedRecord, AbsentIsSound DEF Exact, RetestIInv
    <2>2. CASE Active(c) /\ ~Active(p)
      BY <1>1, <1>2, <1>3, <1>4, <1>6, <1>7, <1>8, <2>2, MergedRecord, AbsentIsSound
         DEF Exact, RetestIInv
    <2>3. CASE ~Active(c) /\ Active(p)
      BY <1>1, <1>2, <1>3, <1>6, <1>7, <1>8, <2>0, <2>3, MergedRecord, AbsentIsSound
         DEF Exact, RetestIInv, IsSound, Coherent
    <2>4. CASE ~Active(c) /\ ~Active(p)
      BY <1>1, <1>2, <1>3, <1>6, <1>7, <1>8, <2>4, AbsentIsSound DEF Exact, RetestIInv, Times
    <2> QED
      BY <2>1, <2>2, <2>3, <2>4
  <1> QED
    BY <1>5, <1>9 DEF Exact, Conclude

(***************************************************************************)
(* A run, as opposed to a retest, stores the engagement as it is.          *)
(***************************************************************************)
LEMMA RunIsExact ==
    ASSUME RetestIInv, pc = "scanning", mode = "run", Note, stored' = eng,
           now' = now,
           NEW k \in Keys \ blurred
    PROVE  Exact(stored[k], k)' /\ (earliest'[k] = Never => fixedAt'[k] = Never /\ k \notin presumed')
  <1> USE DEF RetestIInv
  <1>1. /\ now # Never /\ Tracked(k)
        /\ earliest'[k] = IF earliest[k] = Never /\ Active(eng[k]) THEN now ELSE earliest[k]
        /\ fixedAt'[k] = fixedAt[k] /\ presumed' = presumed /\ now' = now
    BY DEF ClockRuns, KeysTracked, Note
  <1>2. CASE earliest[k] # Never
    BY <1>1, <1>2 DEF Tracked, Exact
  <1>3. CASE earliest[k] = Never /\ eng[k] = Absent
    BY <1>1, <1>3, AbsentIsSound DEF Tracked, Exact
  <1>4. CASE earliest[k] = Never /\ eng[k] # Absent
    <2>1. PICK v \in Verdicts : eng[k] = Detected(v)
      BY <1>1, <1>4 DEF Tracked, IsNew
    <2>2. eng[k].first_seen = now /\ eng[k].remediated_at = Never
      BY <1>1, <2>1, DetectionIsSound
    <2>3. Active(eng[k])
      BY <1>4, AbsentIsSound DEF RecordsSound, IsSound, DismissalsBlur, Active
    <2> QED
      BY <1>1, <1>4, <2>2, <2>3 DEF Tracked, Exact
  <1> QED
    BY <1>2, <1>3, <1>4

LEMMA NoteTypes ==
    ASSUME RetestTypeOK, Note
    PROVE  /\ earliest' \in [Keys -> Times] /\ fixedAt' \in [Keys -> Times]
           /\ presumed' \subseteq Keys
  BY NeverIsATime DEF RetestTypeOK, Note

LEMMA ConcludeKeeps ==
    ASSUME RetestIInv, Conclude
    PROVE  RetestIInv'
  <1> USE DEF RetestIInv
  <1>0. /\ pc = "scanning" /\ pc' = "idle" /\ stored' = eng'
        /\ UNCHANGED <<prior, mode, now, blurred>>
    BY DEF Conclude, End
  <1>1. \A k \in Keys : /\ eng'[k] \in Finding
                        /\ IsSound(eng'[k])
                        /\ eng'[k].status = "false_positive" => k \in blurred
    <2>1. CASE mode = "retest"
      <3>1. \A k \in Keys : eng'[k] = MergeRetest(prior, eng, now)[k]
        BY <2>1 DEF Conclude
      <3> QED
        BY <1>0, <2>1, <3>1, MergeIsSound DEF DismissalsBlur
    <2>2. CASE mode = "run"
      BY <2>2 DEF Conclude, RetestTypeOK, RecordsSound, DismissalsBlur
    <2> QED
      BY <2>1, <2>2 DEF RetestTypeOK
  <1>2. eng' \in [Keys -> Finding]
    <2>1. eng' = [k \in Keys |-> eng'[k]]
      BY DEF Conclude, MergeRetest, RetestTypeOK
    <2> QED
      BY <1>1, <2>1
  <1>3. RetestTypeOK'
    BY <1>0, <1>2, NoteTypes DEF Conclude, End, RetestTypeOK
  <1>4. RecordsSound' /\ ClockRuns' /\ RetestIsClean' /\ DismissalsBlur'
    BY <1>0, <1>1 DEF RecordsSound, IsSound, ClockRuns, RetestIsClean, DismissalsBlur
  <1>5. KeysTracked'
    <2> SUFFICES ASSUME NEW k \in Keys \ blurred PROVE Tracked(k)'
      BY <1>0 DEF KeysTracked
    <2>1. Exact(stored[k], k)' /\ (earliest'[k] = Never => fixedAt'[k] = Never /\ k \notin presumed')
      BY <1>0, MergeIsExact, RunIsExact DEF Conclude, RetestTypeOK
    <2> QED
      BY <1>0, <2>1 DEF Tracked
  <1> QED
    BY <1>3, <1>4, <1>5

(***************************************************************************)
(* The engine raises, or the process dies.                                 *)
(***************************************************************************)
LEMMA FailKeeps ==
    ASSUME RetestIInv, Fail
    PROVE  RetestIInv'
  <1> USE DEF RetestIInv
  <1>0. /\ pc = "scanning" /\ pc' = "idle" /\ stored' = eng
        /\ UNCHANGED <<eng, prior, mode, now>>
    BY DEF Fail, End
  <1>1. RetestTypeOK'
    BY <1>0, NoteTypes DEF Fail, End, RetestTypeOK
  <1>2. blurred \subseteq blurred'
    BY DEF Fail, RetestTypeOK
  <1>3. RecordsSound' /\ ClockRuns' /\ RetestIsClean' /\ DismissalsBlur'
    BY <1>0, <1>2 DEF RecordsSound, IsSound, ClockRuns, RetestIsClean, DismissalsBlur
  <1>4. KeysTracked'
    <2>1. CASE mode = "retest"
      BY <2>1 DEF Fail, KeysTracked
    <2>2. CASE mode = "run"
      <3>1. Note /\ blurred' = blurred
        BY <2>2 DEF Fail
      <3> QED
        BY <1>0, <2>2, <3>1, RunIsExact DEF KeysTracked, Tracked
    <2> QED
      BY <2>1, <2>2 DEF RetestTypeOK
  <1> QED
    BY <1>1, <1>3, <1>4

LEMMA CrashKeeps ==
    ASSUME RetestIInv, Crash
    PROVE  RetestIInv'
  <1> USE DEF RetestIInv
  <1>0. /\ pc = "scanning" /\ pc' = "idle" /\ eng' = stored
        /\ UNCHANGED <<stored, prior, mode, now, earliest, fixedAt, presumed>>
    BY DEF Crash, End
  <1>1. RetestTypeOK'
    BY <1>0 DEF Crash, End, RetestTypeOK
  <1>2. blurred \subseteq blurred'
    BY DEF Crash, RetestTypeOK
  <1>3. RecordsSound' /\ ClockRuns' /\ RetestIsClean' /\ DismissalsBlur'
    BY <1>0, <1>2 DEF RecordsSound, IsSound, ClockRuns, RetestIsClean, DismissalsBlur
  <1>4. KeysTracked'
    BY <1>0, <1>2 DEF Crash, RetestTypeOK, KeysTracked, Tracked, Exact
  <1> QED
    BY <1>1, <1>3, <1>4

LEMMA RetestKeeps == RetestIInv /\ [RetestNext]_retestVars => RetestIInv'
  <1> SUFFICES ASSUME RetestIInv, [RetestNext]_retestVars PROVE RetestIInv'
    OBVIOUS
  <1>1. CASE UNCHANGED retestVars
    <2> USE <1>1 DEF RetestIInv, retestVars, history
    <2>1. RetestTypeOK' /\ ClockRuns' /\ DismissalsBlur'
      BY DEF RetestTypeOK, ClockRuns, DismissalsBlur
    <2>2. RecordsSound'
      BY DEF RecordsSound, IsSound
    <2>3. RetestIsClean'
      BY DEF RetestIsClean, IsNew, Detected
    <2>4. KeysTracked'
      <3>1. \A k \in Keys : Tracked(k)' = Tracked(k)
        BY DEF Tracked, Exact, IsNew, Detected
      <3> QED
        BY <3>1 DEF KeysTracked
    <2> QED
      BY <2>1, <2>2, <2>3, <2>4
  <1> QED
    BY <1>1, ScanStartKeeps, MissKeeps, DetectKeeps, ConcludeKeeps, FailKeeps, CrashKeeps
       DEF RetestNext

-----------------------------------------------------------------------------
(***************************************************************************)
(* The inductive invariant holds over any sequence of runs, retests,       *)
(* failures and crashes.                                                   *)
(***************************************************************************)
THEOREM RetestInvariance == RetestSpec => []RetestIInv
  BY RetestStarts, RetestKeeps, PTL DEF RetestSpec

(***************************************************************************)
(* Every finding, stored or in memory, stays a finding: merge_retest maps  *)
(* findings to findings.                                                   *)
(***************************************************************************)
THEOREM RetestTypeCorrect == RetestSpec => []RetestTypeOK
  <1>1. RetestIInv => RetestTypeOK
    BY DEF RetestIInv
  <1> QED
    BY <1>1, RetestInvariance, PTL

(***************************************************************************)
(* Status, remediation date and lifecycle tag of every finding agree, for  *)
(* any set of keys, after any number of scans and however they ended.      *)
(***************************************************************************)
THEOREM Coherence == RetestSpec => []FindingsAreCoherent
  <1>1. RetestIInv => FindingsAreCoherent
    BY DEF RetestIInv, RecordsSound, IsSound, FindingsAreCoherent
  <1> QED
    BY <1>1, RetestInvariance, PTL

(***************************************************************************)
(* The dates MTTR is computed from are those of the scan that first        *)
(* reported a finding and of the retest that first looked for it in vain,  *)
(* for keys that were looked for, never dismissed and not overwritten by a *)
(* failed or killed retest.  So a stopped retest spoils the date of what   *)
(* it left out, and of nothing else.                                       *)
(***************************************************************************)
THEOREM HonestDates == RetestSpec => []MttrIsHonest
  <1>1. RetestIInv => MttrIsHonest
    BY DEF RetestIInv, KeysTracked, Tracked, Exact, MttrIsHonest
  <1> QED
    BY <1>1, RetestInvariance, PTL

-----------------------------------------------------------------------------
(***************************************************************************)
(* Finite sets in a strict order.                                          *)
(***************************************************************************)
StrictOrder(S, R) ==
    /\ \A x, y \in S : x # y => <<x, y>> \in R \/ <<y, x>> \in R
    /\ \A x, y \in S : <<x, y>> \in R => <<y, x>> \notin R
    /\ \A x, y, z \in S : <<x, y>> \in R /\ <<y, z>> \in R => <<x, z>> \in R

\* Of the subsets of a finite set that are odd in some way one is smallest.
LEMMA SmallestOdd ==
    ASSUME NEW S, IsFiniteSet(S), NEW Odd \in SUBSET (SUBSET S), Odd # {}
    PROVE  \E U \in Odd : \A x \in U : U \ {x} \notin Odd
<1> DEFINE R == StrictSubsetOrdering(S)
<1>1. IsWellFoundedOn(R, FiniteSubsetsOf(S)) /\ FiniteSubsetsOf(S) = SUBSET S
  BY FS_StrictSubsetOrderingWellFounded, FS_FiniteSubsetsOfFinite
<1>2. PICK U \in Odd : \A V \in Odd : ~(<<V, U>> \in R)
  <2> HIDE DEF R
  <2>1. Odd \subseteq FiniteSubsetsOf(S)
    BY <1>1
  <2> QED
    BY <1>1, <2>1, WFMin
<1>3. ASSUME NEW x \in U, U \ {x} \in Odd PROVE FALSE
  <2>1. <<U \ {x}, U>> \in R
    BY <1>3 DEF StrictSubsetOrdering
  <2> QED
    BY <1>2, <1>3, <2>1
<1> QED
  BY <1>3

LEMMA SubOrder == ASSUME NEW S, NEW R, StrictOrder(S, R), NEW T \in SUBSET S
                  PROVE  StrictOrder(T, R)
BY DEF StrictOrder

IsFirst(x, S, R) == x \in S /\ \A y \in S \ {x} : <<x, y>> \in R

\* In a strict order a finite set has a first element,
LEMMA OneIsFirst ==
    ASSUME NEW S, IsFiniteSet(S), S # {}, NEW R, StrictOrder(S, R)
    PROVE  \E x \in S : IsFirst(x, S, R)
<1> DEFINE Odd == {U \in SUBSET S : U # {} /\ \A x \in U : ~IsFirst(x, U, R)}
<1> SUFFICES ASSUME Odd # {} PROVE FALSE
  OBVIOUS
<1>1. PICK U \in Odd : \A x \in U : U \ {x} \notin Odd
  <2> HIDE DEF Odd
  <2>1. Odd \in SUBSET (SUBSET S)
    BY DEF Odd
  <2> QED
    BY <2>1, SmallestOdd
<1>2. PICK u \in U : TRUE
  OBVIOUS
<1>3. CASE U = {u}
  BY <1>1, <1>3 DEF IsFirst
<1>4. CASE U # {u}
  <2> DEFINE V == U \ {u}
  <2>1. V # {} /\ V \subseteq S /\ V \notin Odd
    BY <1>1, <1>2, <1>4
  <2>2. PICK v \in V : IsFirst(v, V, R)
    BY <2>1
  <2>3. u \in S /\ v \in S /\ u # v
    BY <1>1, <1>2, <2>1
  <2>4. CASE <<v, u>> \in R
    <3>1. IsFirst(v, U, R)
      BY <2>2, <2>4 DEF IsFirst
    <3> QED
      BY <1>1, <2>2, <3>1
  <2>5. CASE <<u, v>> \in R
    <3>1. ASSUME NEW y \in U \ {u} PROVE <<u, y>> \in R
      <4>1. y = v \/ <<v, y>> \in R
        BY <2>2, <3>1 DEF IsFirst
      <4>2. y \in S
        BY <2>1
      <4> QED
        BY <2>3, <2>5, <4>1, <4>2 DEF StrictOrder
    <3>2. IsFirst(u, U, R)
      BY <1>2, <3>1 DEF IsFirst
    <3> QED
      BY <1>1, <1>2, <3>2
  <2> QED
    BY <2>3, <2>4, <2>5 DEF StrictOrder
<1> QED
  BY <1>3, <1>4

Lists(s, S, R) ==
    /\ s \in [1..Cardinality(S) -> S]
    /\ \A m, n \in 1..Cardinality(S) : m < n => <<s[m], s[n]>> \in R

\* and can be listed in it.
LEMMA ListExists ==
    ASSUME NEW S, IsFiniteSet(S), NEW R, StrictOrder(S, R)
    PROVE  \E s : Lists(s, S, R)
<1> DEFINE Odd == {U \in SUBSET S : ~ \E s : Lists(s, U, R)}
<1> SUFFICES ASSUME Odd # {} PROVE FALSE
  OBVIOUS
<1>1. PICK U \in Odd : \A x \in U : U \ {x} \notin Odd
  <2> HIDE DEF Odd
  <2>1. Odd \in SUBSET (SUBSET S)
    BY DEF Odd
  <2> QED
    BY <2>1, SmallestOdd
<1>2. U \in SUBSET S /\ IsFiniteSet(U) /\ ~ \E s : Lists(s, U, R)
  BY <1>1, FS_Subset
<1>3. U # {}
  <2> SUFFICES ASSUME U = {} PROVE FALSE
    OBVIOUS
  <2>1. Cardinality(U) = 0 /\ 1..0 = {}
    BY FS_EmptySet
  <2>2. Lists([k \in {} |-> k], U, R)
    BY <2>1 DEF Lists
  <2> QED
    BY <1>2, <2>2
<1>4. PICK u \in U : IsFirst(u, U, R)
  BY <1>2, <1>3, SubOrder, OneIsFirst
<1> DEFINE V == U \ {u}
           n == Cardinality(U)
<1>5. n \in Nat /\ n # 0 /\ Cardinality(V) = n - 1
  BY <1>2, <1>3, <1>4, FS_RemoveElement, FS_CardinalityType, FS_EmptySet
<1>6. PICK s : Lists(s, V, R)
  BY <1>1, <1>2
<1> DEFINE t == [k \in 1..n |-> IF k = 1 THEN u ELSE s[k - 1]]
<1>7. \A k \in 1..n : k # 1 => k - 1 \in 1..(n - 1) /\ s[k - 1] \in V
  <2>1. s \in [1..(n - 1) -> V]
    BY <1>5, <1>6 DEF Lists
  <2>2. \A k \in 1..n : k # 1 => k - 1 \in 1..(n - 1)
    BY <1>5
  <2> QED
    BY <2>1, <2>2
<1>8. t \in [1..n -> U]
  BY <1>7
<1>9. ASSUME NEW i \in 1..n, NEW j \in 1..n, i < j PROVE <<t[i], t[j]>> \in R
  <2>1. j # 1 /\ t[j] = s[j - 1] /\ s[j - 1] \in V
    BY <1>5, <1>7, <1>9
  <2>2. CASE i = 1
    BY <1>4, <2>1, <2>2 DEF IsFirst
  <2>3. CASE i # 1
    <3>1. i - 1 \in 1..(n - 1) /\ j - 1 \in 1..(n - 1) /\ i - 1 < j - 1
      BY <1>5, <1>7, <1>9, <2>1, <2>3
    <3> QED
      BY <1>5, <1>6, <2>1, <2>3, <3>1 DEF Lists
  <2> QED
    BY <2>2, <2>3
<1> QED
  BY <1>2, <1>8, <1>9 DEF Lists

\* A list of a set in a strict order has each element once.
LEMMA ListHasAll ==
    ASSUME NEW S, IsFiniteSet(S), NEW R, StrictOrder(S, R), NEW s, Lists(s, S, R)
    PROVE  \A x \in S : \E n \in 1..Cardinality(S) : s[n] = x
<1> DEFINE c == Cardinality(S)
<1>1. c \in Nat
  BY FS_CardinalityType
<1>2. IsFiniteSet(1..c) /\ Cardinality(1..c) = c
  BY <1>1, FS_Interval
<1>3. ASSUME NEW m \in 1..c, NEW n \in 1..c, s[m] = s[n] PROVE m = n
  <2>1. s[m] \in S
    BY DEF Lists
  <2>2. <<s[m], s[m]>> \notin R
    BY <2>1 DEF StrictOrder
  <2>3. ~(m < n) /\ ~(n < m)
    BY <1>3, <2>2 DEF Lists
  <2> QED
    BY <1>1, <2>3
<1>4. s \in Injection(1..c, S)
  BY <1>3 DEF Lists, Injection, IsInjective
<1>5. s \in Surjection(1..c, S)
  BY <1>2, <1>4, FS_Injection
<1> QED
  BY <1>5 DEF Surjection

\* The numbers of a set in increasing, and in decreasing order.
Increasing(S) == {p \in S \X S : p[1] < p[2]}
Decreasing(S) == {p \in S \X S : p[1] > p[2]}

LEMMA NumbersAreOrdered ==
    ASSUME NEW S \in SUBSET Int
    PROVE  StrictOrder(S, Increasing(S)) /\ StrictOrder(S, Decreasing(S))
<1>1. \A x, y \in S : x \in Int /\ y \in Int
  OBVIOUS
<1>2. \A x, y \in S : /\ <<x, y>> \in Increasing(S) <=> x < y
                      /\ <<x, y>> \in Decreasing(S) <=> x > y
  BY DEF Increasing, Decreasing
<1> QED
  BY <1>1, <1>2 DEF StrictOrder

LEMMA LeastAndGreatest ==
    ASSUME NEW S \in SUBSET Int, IsFiniteSet(S), S # {}
    PROVE  /\ Min(S) \in S /\ \A y \in S : Min(S) <= y
           /\ Max(S) \in S /\ \A y \in S : y <= Max(S)
<1>1. PICK x \in S : IsFirst(x, S, Increasing(S))
  BY NumbersAreOrdered, OneIsFirst
<1>2. PICK z \in S : IsFirst(z, S, Decreasing(S))
  BY NumbersAreOrdered, OneIsFirst
<1>3. \A y \in S : x <= y
  <2>1. \A y \in S \ {x} : x < y
    BY <1>1 DEF IsFirst, Increasing
  <2> QED
    BY <2>1
<1>4. \A y \in S : z >= y
  <2>1. \A y \in S \ {z} : z > y
    BY <1>2 DEF IsFirst, Decreasing
  <2> QED
    BY <2>1
<1> QED
  BY <1>3, <1>4 DEF Min, Max

-----------------------------------------------------------------------------
(***************************************************************************)
(* Candidates, and the best of them.                                       *)
(***************************************************************************)
\* Every finding behind a path is typed, whatever has been reported and refuted.
THEOREM PathTypeCorrect == PathSpec => []PathTypeOK
<1>1. PathInit => PathTypeOK
  BY AttackPathsAssumption DEF PathInit, PathTypeOK
<1>2. PathTypeOK /\ [PathNext]_pathVars => PathTypeOK'
  <2> SUFFICES ASSUME PathTypeOK, [PathNext]_pathVars PROVE PathTypeOK'
    OBVIOUS
  <2> USE DEF PathTypeOK
  <2>1. ASSUME NEW finding \in Observations, Observe(finding) PROVE PathTypeOK'
    BY <2>1, AttackPathsAssumption DEF Observe
  <2>2. ASSUME NEW i \in 1..Len(observed), Refute(i) PROVE PathTypeOK'
    <3> DEFINE flipped == [observed[i] EXCEPT !.refuted = ~@]
    <3>1. observed[i] \in [finding : Observations, refuted : BOOLEAN]
      BY ElementOfSeq
    <3>2. flipped \in [finding : Observations, refuted : BOOLEAN]
      BY <3>1
    <3>3. /\ [observed EXCEPT ![i] = flipped] \in Seq([finding : Observations, refuted : BOOLEAN])
          /\ Len([observed EXCEPT ![i] = flipped]) = Len(observed)
      BY <3>2, ExceptSeq
    <3>4. observed' = [observed EXCEPT ![i] = flipped] /\ jewels' = jewels
      BY <2>2 DEF Refute
    <3> QED
      BY <3>3, <3>4
  <2>3. CASE UNCHANGED pathVars
    BY <2>3 DEF pathVars
  <2> QED
    BY <2>1, <2>2, <2>3 DEF PathNext
<1> QED
  BY <1>1, <1>2, PTL DEF PathSpec

LEMMA ObservedAreTyped ==
    ASSUME PathTypeOK, NEW i \in 1..Len(observed)
    PROVE  /\ observed[i].finding \in Observations
           /\ observed[i].finding.severity \in 0..4
           /\ observed[i].finding.risk \in Int
<1>1. observed[i] \in [finding : Observations, refuted : BOOLEAN]
  BY ElementOfSeq DEF PathTypeOK
<1> QED
  BY <1>1, AttackPathsAssumption

LEMMA ListedIsASequence == ASSUME NEW f PROVE Listed(f) \in Seq(STRING)
<1>1. Mapped(CweToAttack, f.cwe) \in Seq(STRING)
  BY AttackPathsAssumption, EmptySeq DEF Mapped
<1>2. Mapped(OwaspToAttack, f.category) \in Seq(STRING)
  BY AttackPathsAssumption, EmptySeq DEF Mapped
<1> HIDE DEF Mapped
<1> QED
  BY <1>1, <1>2, ConcatProperties DEF Listed

LEMMA GroupsAreFinite ==
    ASSUME PathTypeOK, NEW group
    PROVE  /\ GroupOf(group) \subseteq 1..Len(observed)
           /\ IsFiniteSet(GroupOf(group))
           /\ Len(observed) \in Nat
<1>1. Len(observed) \in Nat /\ IsFiniteSet(1..Len(observed))
  BY LenProperties, FS_Interval DEF PathTypeOK
<1>2. GroupOf(group) \subseteq 1..Len(observed)
  BY DEF GroupOf, Standing
<1> QED
  BY <1>1, <1>2, FS_Subset

LEMMA ServingIsFinite ==
    ASSUME PathTypeOK, NEW group, NEW tactic
    PROVE  IsFiniteSet(Serving(group, tactic))
<1>1. IsFiniteSet(GroupOf(group) \X DOMAIN TacticOf)
  BY GroupsAreFinite, AttackPathsAssumption, FS_Product
<1>2. Serving(group, tactic) \in SUBSET (GroupOf(group) \X DOMAIN TacticOf)
  BY DEF Serving
<1> QED
  BY <1>1, <1>2, FS_Subset

\* A technique of a finding is named by it.
LEMMA NthIsNamed ==
    ASSUME PathTypeOK, NEW group, NEW tactic, NEW s \in Serving(group, tactic)
    PROVE  /\ s = <<s[1], s[2]>> /\ s[1] \in 1..Len(observed)
           /\ Nth(s) \in Int
           /\ Listed(observed[s[1]].finding)[Nth(s)] = s[2]
<1> DEFINE named == Listed(observed[s[1]].finding)
           at == {n \in 1..Len(named) : named[n] = s[2]}
<1>1. s = <<s[1], s[2]>> /\ s[1] \in 1..Len(observed) /\ Contains(named, s[2])
  BY GroupsAreFinite DEF Serving, TechniquesFor
<1>2. Len(named) \in Nat
  BY ListedIsASequence, LenProperties
<1>3. IsFiniteSet(at) /\ at \in SUBSET Int /\ at # {}
  <2>1. IsFiniteSet(1..Len(named)) /\ at \in SUBSET (1..Len(named))
    BY <1>2, FS_Interval
  <2> QED
    BY <1>1, <1>2, <2>1, FS_Subset DEF Contains
<1>4. Min(at) \in at
  BY <1>3, LeastAndGreatest
<1> QED
  BY <1>1, <1>3, <1>4 DEF Nth

Pref(C) == {p \in C \X C : Preferred(p[1], p[2])}

LEMMA PreferenceIsStrict ==
    ASSUME PathTypeOK, NEW group, NEW tactic
    PROVE  LET C == Serving(group, tactic) IN StrictOrder(C, Pref(C))
<1> DEFINE C == Serving(group, tactic)
           Sev(s) == observed[s[1]].finding.severity
           Risk(s) == observed[s[1]].finding.risk
<1>1. \A s \in C : Sev(s) \in Int /\ Risk(s) \in Int /\ s[1] \in Int /\ Nth(s) \in Int
  <2> SUFFICES ASSUME NEW s \in C
               PROVE  Sev(s) \in Int /\ Risk(s) \in Int /\ s[1] \in Int /\ Nth(s) \in Int
    OBVIOUS
  <2>1. s[1] \in 1..Len(observed) /\ Nth(s) \in Int
    BY NthIsNamed
  <2> QED
    BY <2>1, ObservedAreTyped
<1>2. \A s, t \in C : s[1] = t[1] /\ Nth(s) = Nth(t) => s = t
  <2> SUFFICES ASSUME NEW s \in C, NEW t \in C, s[1] = t[1], Nth(s) = Nth(t) PROVE s = t
    OBVIOUS
  <2>1. s = <<s[1], s[2]>> /\ t = <<t[1], t[2]>>
    BY NthIsNamed
  <2>2. /\ Listed(observed[s[1]].finding)[Nth(s)] = s[2]
        /\ Listed(observed[t[1]].finding)[Nth(t)] = t[2]
    BY NthIsNamed
  <2>3. s[2] = t[2]
    BY <2>2
  <2> QED
    BY <2>1, <2>3
<1> DEFINE Pr(s, t) ==
      \/ Sev(s) > Sev(t) \/ (Sev(s) = Sev(t) /\ Risk(s) > Risk(t))
      \/ /\ ~(Sev(t) > Sev(s) \/ (Sev(t) = Sev(s) /\ Risk(t) > Risk(s)))
         /\ s[1] < t[1] \/ (s[1] = t[1] /\ Nth(s) < Nth(t))
<1>3. \A s, t \in C : <<s, t>> \in Pref(C) <=> Pr(s, t)
  <2> HIDE DEF C
  <2> QED
    BY DEF Pref, Preferred, Outranks, Earlier
<1> HIDE DEF C, Sev, Risk
<1>4. \A s, t \in C : s # t => Pr(s, t) \/ Pr(t, s)
  BY <1>1, <1>2
<1>5. \A s, t \in C : Pr(s, t) => ~Pr(t, s)
  BY <1>1
<1>6. \A s, t, u \in C : Pr(s, t) /\ Pr(t, u) => Pr(s, u)
  BY <1>1
<1> HIDE DEF Pr
<1>7. StrictOrder(C, Pref(C))
  BY <1>3, <1>4, <1>5, <1>6 DEF StrictOrder
<1> QED
  BY <1>7 DEF C

\* The best candidate is one, and none is worse.
LEMMA BestIsWorst ==
    ASSUME PathTypeOK, NEW group, NEW tactic, Serving(group, tactic) # {}
    PROVE  LET C == Serving(group, tactic)
               b == Best(C)
           IN  /\ b \in C
               /\ \A s \in C : observed[b[1]].finding.severity
                                   >= observed[s[1]].finding.severity
<1> DEFINE C == Serving(group, tactic)
           b == Best(C)
<1>1. StrictOrder(C, Pref(C))
  BY PreferenceIsStrict
<1>2. IsFiniteSet(C)
  BY ServingIsFinite
<1>3. \A s \in C : s[1] \in 1..Len(observed)
  BY NthIsNamed
<1> HIDE DEF C, b
<1>4. C # {}
  BY DEF C
<1>5. PICK x \in C : IsFirst(x, C, Pref(C))
  BY <1>1, <1>2, <1>4, OneIsFirst
<1>6. \A t \in C \ {x} : Preferred(x, t)
  BY <1>5 DEF IsFirst, Pref
<1>7. b \in C /\ \A t \in C \ {b} : Preferred(b, t)
  BY <1>5, <1>6 DEF Best, b
<1>8. ASSUME NEW s \in C
      PROVE  observed[b[1]].finding.severity >= observed[s[1]].finding.severity
  <2>1. observed[b[1]].finding.severity \in 0..4 /\ observed[s[1]].finding.severity \in 0..4
    <3>1. b[1] \in 1..Len(observed) /\ s[1] \in 1..Len(observed)
      BY <1>3, <1>7, <1>8
    <3> QED
      BY <3>1, ObservedAreTyped
  <2>2. CASE s = b
    BY <2>1, <2>2
  <2>3. CASE s # b
    <3>1. Preferred(b, s)
      BY <1>7, <2>3
    <3> QED
      BY <2>1, <3>1 DEF Preferred, Outranks
  <2> QED
    BY <2>2, <2>3
<1> QED
  BY <1>7, <1>8 DEF C, b

-----------------------------------------------------------------------------
(***************************************************************************)
(* The path of a group.                                                    *)
(***************************************************************************)
LEMMA TacticsAreFinite ==
    ASSUME NEW group
    PROVE  TacticsOf(group) \in SUBSET Nat /\ IsFiniteSet(TacticsOf(group))
<1>1. Range(TacticOf) \in SUBSET Nat
  BY AttackPathsAssumption DEF Range
<1> DEFINE f == [t \in DOMAIN TacticOf |-> TacticOf[t]]
<1>2. f \in Surjection(DOMAIN TacticOf, Range(TacticOf))
  BY DEF Surjection, Range
<1>3. IsFiniteSet(Range(TacticOf))
  BY <1>2, AttackPathsAssumption, FS_Surjection
<1>4. TacticsOf(group) \in SUBSET Range(TacticOf)
  BY DEF TacticsOf
<1> QED
  BY <1>1, <1>3, <1>4, FS_Subset

\* They are listed in chain order, each of them.
LEMMA TacticsAreSorted ==
    ASSUME NEW group
    PROVE  LET T == TacticsOf(group)
               s == SortedBy(T, <)
           IN  /\ Cardinality(T) \in Nat
               /\ s \in [1..Cardinality(T) -> T]
               /\ \A m, n \in 1..Cardinality(T) : m < n => s[m] < s[n]
               /\ \A x \in T : \E n \in 1..Cardinality(T) : s[n] = x
<1> DEFINE T == TacticsOf(group)
           c == Cardinality(T)
           s == SortedBy(T, <)
<1>1. T \in SUBSET Int /\ IsFiniteSet(T)
  BY TacticsAreFinite
<1>2. c \in Nat
  BY <1>1, FS_CardinalityType
<1> HIDE DEF T
<1>3. StrictOrder(T, Increasing(T))
  BY <1>1, NumbersAreOrdered
<1>4. PICK l : Lists(l, T, Increasing(T))
  BY <1>1, <1>3, ListExists
<1>5. l \in [1..c -> T] /\ \A m, n \in 1..c : m < n => l[m] < l[n]
  BY <1>4 DEF Lists, Increasing
<1>6. s \in [1..c -> T] /\ \A m, n \in 1..c : m < n => s[m] < s[n]
  <2>1. \E q \in [1..c -> T] : \A m, n \in DOMAIN q : m < n => q[m] < q[n]
    BY <1>5
  <2>2. s \in [1..c -> T] /\ \A m, n \in DOMAIN s : m < n => s[m] < s[n]
    BY <2>1 DEF SortedBy
  <2> QED
    BY <2>2
<1> HIDE DEF s
<1>7. Lists(s, T, Increasing(T))
  BY <1>6 DEF Lists, Increasing
<1>8. \A x \in T : \E n \in 1..c : s[n] = x
  BY <1>1, <1>3, <1>7, ListHasAll
<1> QED
  BY <1>2, <1>6, <1>8 DEF T, s

EnabledBy(group) ==
    {e \in GroupOf(group) \X DOMAIN TacticOf : e[2] \in TechniquesFor(observed[e[1]].finding)}

\* A path with a step for each tactic the group's findings enable, in chain
\* order, by a finding of the group none of those is worse than.
Worst(path, group) ==
    /\ \A e \in EnabledBy(group) : \E k \in DOMAIN path.steps :
         /\ path.steps[k].tactic = TacticOf[e[2]]
         /\ path.steps[k].severity >= observed[e[1]].finding.severity
    /\ \A k \in DOMAIN path.steps :
         /\ <<path.steps[k].finding, path.steps[k].technique>> \in EnabledBy(group)
         /\ path.steps[k].severity = observed[path.steps[k].finding].finding.severity
         /\ k > 1 => path.steps[k - 1].tactic < path.steps[k].tactic

Step == [tactic : Nat, technique : DOMAIN TacticOf,
         finding : 1..Len(observed), severity : 0..4]

LEMMA PathIsWorst ==
    ASSUME PathTypeOK, NEW group
    PROVE  LET path == PathOf(group)
           IN  /\ path.group = group
               /\ path.steps \in Seq(Step)
               /\ Len(path.steps) = Cardinality(TacticsOf(group))
               /\ path.reaches <=> \E k \in DOMAIN path.steps : path.steps[k].tactic \in Impacts
               /\ path.worst = Max({path.steps[k].severity : k \in DOMAIN path.steps})
               /\ Worst(path, group)
<1> DEFINE T == TacticsOf(group)
           c == Cardinality(T)
           s == SortedBy(T, <)
           steps == StepsAlong(group, s)
           best(n) == Best(Serving(group, s[n]))
<1>1. /\ c \in Nat
      /\ s \in [1..c -> T]
      /\ \A m, n \in 1..c : m < n => s[m] < s[n]
      /\ \A x \in T : \E n \in 1..c : s[n] = x
  BY TacticsAreSorted
<1>2. T \in SUBSET Nat /\ \A x \in T : Serving(group, x) # {}
  BY TacticsAreFinite DEF TacticsOf
<1> HIDE DEF T, s
<1>3. \A n \in 1..c : /\ s[n] \in Nat
                      /\ best(n) \in Serving(group, s[n])
                      /\ \A t \in Serving(group, s[n]) :
                            observed[best(n)[1]].finding.severity
                                >= observed[t[1]].finding.severity
  <2> SUFFICES ASSUME NEW n \in 1..c
               PROVE  /\ s[n] \in Nat
                      /\ best(n) \in Serving(group, s[n])
                      /\ \A t \in Serving(group, s[n]) :
                            observed[best(n)[1]].finding.severity
                                >= observed[t[1]].finding.severity
    OBVIOUS
  <2>1. s[n] \in Nat /\ Serving(group, s[n]) # {}
    BY <1>1, <1>2
  <2> QED
    BY <2>1, BestIsWorst
<1> HIDE DEF best
<1>4. DOMAIN steps = 1..c /\ \A n \in 1..c :
          steps[n] = [tactic |-> s[n], technique |-> best(n)[2], finding |-> best(n)[1],
                      severity |-> observed[best(n)[1]].finding.severity]
  BY <1>1 DEF StepsAlong, StepBy, best
<1>5. \A n \in 1..c : /\ best(n) = <<best(n)[1], best(n)[2]>>
                      /\ best(n)[1] \in 1..Len(observed) /\ best(n)[2] \in DOMAIN TacticOf
                      /\ best(n) \in EnabledBy(group)
                      /\ observed[best(n)[1]].finding.severity \in 0..4
  <2> SUFFICES ASSUME NEW n \in 1..c
               PROVE  /\ best(n) = <<best(n)[1], best(n)[2]>>
                      /\ best(n)[1] \in 1..Len(observed) /\ best(n)[2] \in DOMAIN TacticOf
                      /\ best(n) \in EnabledBy(group)
                      /\ observed[best(n)[1]].finding.severity \in 0..4
    OBVIOUS
  <2>1. best(n) \in Serving(group, s[n])
    BY <1>3
  <2>2. best(n) \in GroupOf(group) \X DOMAIN TacticOf /\ best(n) \in EnabledBy(group)
    BY <2>1 DEF Serving, EnabledBy
  <2>3. best(n)[1] \in 1..Len(observed)
    BY <2>2, GroupsAreFinite
  <2> QED
    BY <2>2, <2>3, ObservedAreTyped
<1>6. steps \in Seq(Step) /\ Len(steps) = c
  <2>1. \A n \in 1..c : steps[n] \in Step
    BY <1>3, <1>4, <1>5 DEF Step
  <2>2. steps = [n \in 1..c |-> steps[n]]
    BY <1>1 DEF StepsAlong
  <2> HIDE DEF steps
  <2>3. steps \in [1..c -> Step]
    BY <2>1, <2>2
  <2>4. steps \in Seq(Step)
    BY <1>1, <2>3, SeqDef
  <2> QED
    BY <1>1, <1>4, <2>4, LenProperties
<1>7. ASSUME NEW e \in EnabledBy(group)
      PROVE  \E k \in 1..c : /\ steps[k].tactic = TacticOf[e[2]]
                             /\ steps[k].severity >= observed[e[1]].finding.severity
  <2>1. e \in Serving(group, TacticOf[e[2]]) /\ TacticOf[e[2]] \in T
    BY DEF EnabledBy, Serving, T, TacticsOf, Range
  <2>2. PICK k \in 1..c : s[k] = TacticOf[e[2]]
    BY <1>1, <2>1
  <2>3. observed[best(k)[1]].finding.severity >= observed[e[1]].finding.severity
    BY <1>3, <2>1, <2>2
  <2> QED
    BY <1>4, <2>2, <2>3
<1>8. ASSUME NEW k \in 1..c
      PROVE  /\ <<steps[k].finding, steps[k].technique>> \in EnabledBy(group)
             /\ steps[k].severity = observed[steps[k].finding].finding.severity
             /\ k > 1 => steps[k - 1].tactic < steps[k].tactic
  <2>1. k > 1 => k - 1 \in 1..c /\ k - 1 < k
    BY <1>1
  <2>2. k > 1 => s[k - 1] < s[k]
    BY <1>1, <2>1
  <2> QED
    BY <1>4, <1>5, <2>1, <2>2
<1>9. /\ PathOf(group).group = group /\ PathOf(group).steps = steps
      /\ PathOf(group).reaches = (\E k \in DOMAIN steps : steps[k].tactic \in Impacts)
      /\ PathOf(group).worst = Max({steps[k].severity : k \in DOMAIN steps})
  <2> HIDE DEF steps
  <2> QED
    BY DEF PathOf, PathAlong, steps, s, T
<1> HIDE DEF steps
<1> QED
  BY <1>4, <1>6, <1>7, <1>8, <1>9 DEF T, Worst

-----------------------------------------------------------------------------
(***************************************************************************)
(* The list of paths.                                                      *)
(***************************************************************************)
LEMMA WorstOfPath ==
    ASSUME PathTypeOK, NEW group, TacticsOf(group) # {}
    PROVE  /\ PathOf(group).worst \in Int
           /\ GroupOf(group) # {} /\ Min(GroupOf(group)) \in GroupOf(group)
<1> DEFINE steps == PathOf(group).steps
           sevs == {steps[k].severity : k \in DOMAIN steps}
<1>1. /\ steps \in Seq(Step)
      /\ Len(steps) = Cardinality(TacticsOf(group))
      /\ PathOf(group).worst = Max(sevs)
      /\ \A k \in DOMAIN steps : <<steps[k].finding, steps[k].technique>> \in EnabledBy(group)
  BY PathIsWorst DEF Worst
<1>2. Len(steps) \in Nat \ {0}
  BY <1>1, TacticsAreFinite, FS_CardinalityType, FS_EmptySet
<1> HIDE DEF steps
<1>3. DOMAIN steps = 1..Len(steps) /\ 1 \in DOMAIN steps
  BY <1>1, <1>2, LenProperties
<1>4. \A k \in DOMAIN steps : steps[k].severity \in 0..4
  <2> SUFFICES ASSUME NEW k \in DOMAIN steps PROVE steps[k].severity \in 0..4
    OBVIOUS
  <2>1. steps[k] \in Step
    BY <1>1, <1>3, ElementOfSeq
  <2> QED
    BY <2>1 DEF Step
<1>5. sevs \in SUBSET (0..4) /\ sevs # {}
  BY <1>3, <1>4
<1>6. Max(sevs) \in Int
  <2>1. sevs \in SUBSET Nat /\ sevs \in SUBSET Int /\ \A v \in sevs : v <= 4
    BY <1>5
  <2> HIDE DEF sevs
  <2>2. IsFiniteSet(sevs)
    BY <2>1, FS_BoundedSetOfNaturals
  <2> QED
    BY <1>5, <2>1, <2>2, LeastAndGreatest
<1>7. GroupOf(group) # {}
  BY <1>1, <1>3 DEF EnabledBy
<1>8. GroupOf(group) \in SUBSET Int /\ IsFiniteSet(GroupOf(group))
  BY GroupsAreFinite
<1> QED
  BY <1>1, <1>6, <1>7, <1>8, LeastAndGreatest

LEMMA WeightIsANumber ==
    ASSUME NEW S, NEW steps \in Seq(S) PROVE Weight(steps) \in Int
<1> DEFINE by(v) == Cardinality({n \in DOMAIN steps : steps[n].severity = v})
<1>1. Len(steps) \in Nat /\ DOMAIN steps = 1..Len(steps)
  BY LenProperties
<1>2. IsFiniteSet(DOMAIN steps)
  BY <1>1, FS_Interval
<1>3. \A v : by(v) \in Nat
  <2> SUFFICES ASSUME NEW v PROVE by(v) \in Nat
    OBVIOUS
  <2>1. {n \in DOMAIN steps : steps[n].severity = v} \in SUBSET DOMAIN steps
    OBVIOUS
  <2> QED
    BY <1>2, <2>1, FS_Subset, FS_CardinalityType
<1>4. Weight(steps) = 6 * Len(steps) + 1 * by(0) + 5 * by(1) + 12 * by(2) + 25 * by(3) + 40 * by(4)
  BY DEF Weight
<1> DEFINE a == by(0)  b == by(1)  c == by(2)  d == by(3)  e == by(4)
<1>5. Weight(steps) = 6 * Len(steps) + 1 * a + 5 * b + 12 * c + 25 * d + 40 * e
  BY <1>4
<1> HIDE DEF by
<1>6. a \in Int /\ b \in Int /\ c \in Int /\ d \in Int /\ e \in Int
  BY <1>3
<1> HIDE DEF a, b, c, d, e
<1> QED
  BY <1>1, <1>5, <1>6

LEMMA ScoreIsANumber ==
    ASSUME PathTypeOK, NEW group PROVE PathOf(group).score \in Int
<1> DEFINE p == PathOf(group)
<1>1. Weight(p.steps) \in Int
  BY PathIsWorst, WeightIsANumber
<1>2. p.score = Weight(p.steps) + (IF p.reaches THEN 30 ELSE 0) + (IF p.crown THEN 40 ELSE 0)
  BY DEF PathOf, PathAlong
<1> DEFINE w == Weight(p.steps)
           r == IF p.reaches THEN 30 ELSE 0
           c == IF p.crown THEN 40 ELSE 0
<1>3. w \in Int /\ r \in Int /\ c \in Int /\ p.score = w + r + c
  BY <1>1, <1>2
<1> HIDE DEF p, w, r, c
<1>4. p.score \in Int
  BY <1>3
<1> QED
  BY <1>4 DEF p

LEMMA PathsAreFinite ==
    ASSUME PathTypeOK
    PROVE  /\ IsFiniteSet(AllPaths)
           /\ \A p \in AllPaths : /\ p = PathOf(p.group) /\ TacticsOf(p.group) # {}
<1> DEFINE Is == 1..Len(observed)
           f == [i \in Is |-> PathOf(observed[i].finding.group)]
           Img == {f[i] : i \in Is}
<1>1. \A p \in AllPaths : p = PathOf(p.group) /\ TacticsOf(p.group) # {}
  <2> SUFFICES ASSUME NEW p \in AllPaths
               PROVE  p = PathOf(p.group) /\ TacticsOf(p.group) # {}
    OBVIOUS
  <2>1. PICK g : TacticsOf(g) # {} /\ p = PathOf(g)
    BY DEF AllPaths
  <2>2. PathOf(g).group = g
    BY PathIsWorst
  <2> QED
    BY <2>1, <2>2
<1>2. ASSUME NEW p \in AllPaths PROVE p \in Img
  <2>1. PICK i \in GroupOf(p.group) : TRUE
    BY <1>1, WorstOfPath
  <2>2. i \in Is /\ observed[i].finding.group = p.group
    BY <2>1, GroupsAreFinite DEF GroupOf
  <2> HIDE DEF Is
  <2> QED
    BY <1>1, <2>2
<1>3. IsFiniteSet(Is)
  BY GroupsAreFinite, FS_Interval
<1> HIDE DEF Is
<1>4. f \in Surjection(Is, Img)
  <2> DEFINE P(i) == PathOf(observed[i].finding.group)
  <2> HIDE DEF P
  <2>1. f = [i \in Is |-> P(i)]
    BY DEF P
  <2> HIDE DEF f
  <2> QED
    BY <2>1 DEF Surjection
<1>5. IsFiniteSet(Img)
  <2> HIDE DEF f, Img
  <2> QED
    BY <1>3, <1>4, FS_Surjection
<1> QED
  BY <1>1, <1>2, <1>5, FS_Subset

Prec(S) == {p \in S \X S : Precedes(p[1], p[2])}

LEMMA PrecedenceIsStrict == ASSUME PathTypeOK PROVE StrictOrder(AllPaths, Prec(AllPaths))
<1> DEFINE A == AllPaths
           came(p) == Min(GroupOf(p.group))
<1>1. \A p \in A : p.score \in Int /\ p.worst \in Int /\ came(p) \in Int
  <2> SUFFICES ASSUME NEW p \in A
               PROVE  p.score \in Int /\ p.worst \in Int /\ came(p) \in Int
    OBVIOUS
  <2>1. p = PathOf(p.group) /\ TacticsOf(p.group) # {}
    BY PathsAreFinite
  <2>2. came(p) \in GroupOf(p.group) /\ GroupOf(p.group) \subseteq Int
    BY <2>1, WorstOfPath, GroupsAreFinite
  <2> QED
    BY <2>1, <2>2, WorstOfPath, ScoreIsANumber
<1>2. \A p, q \in A : came(p) = came(q) => p = q
  <2> SUFFICES ASSUME NEW p \in A, NEW q \in A, came(p) = came(q) PROVE p = q
    OBVIOUS
  <2>1. /\ p = PathOf(p.group) /\ TacticsOf(p.group) # {}
        /\ q = PathOf(q.group) /\ TacticsOf(q.group) # {}
    BY PathsAreFinite
  <2>2. came(p) \in GroupOf(p.group) /\ came(q) \in GroupOf(q.group)
    BY <2>1, WorstOfPath
  <2>3. p.group = q.group
    BY <2>2 DEF GroupOf
  <2> QED
    BY <2>1, <2>3
<1>3. \A p, q \in A : <<p, q>> \in Prec(A) <=>
          \/ p.score > q.score
          \/ p.score = q.score /\ p.worst > q.worst
          \/ p.score = q.score /\ p.worst = q.worst /\ came(p) < came(q)
  BY DEF Prec, Precedes
<1> HIDE DEF A, came
<1>4. StrictOrder(A, Prec(A))
  <2>1. \A p, q \in A : p # q => <<p, q>> \in Prec(A) \/ <<q, p>> \in Prec(A)
    BY <1>1, <1>2, <1>3
  <2>2. \A p, q \in A : <<p, q>> \in Prec(A) => <<q, p>> \notin Prec(A)
    BY <1>1, <1>3
  <2>3. \A p, q, r \in A : <<p, q>> \in Prec(A) /\ <<q, r>> \in Prec(A) => <<p, r>> \in Prec(A)
    BY <1>1, <1>3
  <2> QED
    BY <2>1, <2>2, <2>3 DEF StrictOrder
<1> QED
  BY <1>4 DEF A

\* What is listed are paths of groups, and a path that is not listed does not
\* score higher than those the list is full of.
LEMMA ListIsFullOrComplete ==
    ASSUME PathTypeOK
    PROVE  /\ BuildPaths \in Seq(AllPaths)
           /\ \A p \in AllPaths :
                \/ \E n \in DOMAIN BuildPaths : BuildPaths[n] = p
                \/ /\ Len(BuildPaths) = ShownPaths
                   /\ \A n \in DOMAIN BuildPaths : BuildPaths[n].score >= p.score
<1> DEFINE A == AllPaths
           c == Cardinality(A)
           sorted == SortedBy(A, Precedes)
           taken == IF c < ShownPaths THEN c ELSE ShownPaths
<1>1. IsFiniteSet(A) /\ c \in Nat
  BY PathsAreFinite, FS_CardinalityType
<1>2. StrictOrder(A, Prec(A))
  BY PrecedenceIsStrict
<1>3. \A p \in A : p.score \in Int
  <2> SUFFICES ASSUME NEW p \in A PROVE p.score \in Int
    OBVIOUS
  <2> QED
    BY PathsAreFinite, ScoreIsANumber
<1> HIDE DEF A
<1>4. PICK l : Lists(l, A, Prec(A))
  BY <1>1, <1>2, ListExists
<1>5. l \in [1..c -> A] /\ \A m, n \in 1..c : m < n => Precedes(l[m], l[n])
  BY <1>4 DEF Lists, Prec
<1>6. sorted \in [1..c -> A] /\ \A m, n \in 1..c : m < n => Precedes(sorted[m], sorted[n])
  <2>1. \E q \in [1..c -> A] : \A m, n \in DOMAIN q : m < n => Precedes(q[m], q[n])
    BY <1>5
  <2>2. /\ sorted \in [1..c -> A]
        /\ \A m, n \in DOMAIN sorted : m < n => Precedes(sorted[m], sorted[n])
    BY <2>1 DEF SortedBy
  <2> QED
    BY <2>2
<1>7. BuildPaths = SubSeq(sorted, 1, IF Len(sorted) < ShownPaths THEN Len(sorted) ELSE ShownPaths)
  BY DEF BuildPaths, A
<1> HIDE DEF sorted, c
<1>8. sorted \in Seq(A) /\ Len(sorted) = c
  <2>1. sorted \in Seq(A)
    BY <1>1, <1>6, SeqDef
  <2> QED
    BY <1>1, <1>6, <2>1, LenProperties
<1>9. taken \in Nat /\ taken <= c /\ (taken < c => taken = ShownPaths)
  BY <1>1, AttackPathsAssumption
<1> HIDE DEF taken
<1>10. BuildPaths = SubSeq(sorted, 1, taken)
  BY <1>7, <1>8 DEF taken
<1>11. /\ BuildPaths \in Seq(A)
       /\ Len(BuildPaths) = taken
       /\ \A n \in 1..taken : BuildPaths[n] = sorted[n]
  <2>1. \A i \in 1..taken : sorted[i] \in A /\ i \in 1..c
    BY <1>1, <1>6, <1>9
  <2>2. /\ SubSeq(sorted, 1, taken) \in Seq(A)
        /\ Len(SubSeq(sorted, 1, taken)) = IF 1 <= taken THEN taken - 1 + 1 ELSE 0
        /\ \A i \in 1..(taken - 1 + 1) : SubSeq(sorted, 1, taken)[i] = sorted[1 + i - 1]
    BY <1>9, <2>1, SubSeqProperties
  <2> QED
    BY <1>9, <1>10, <2>2
<1>12. DOMAIN BuildPaths = 1..taken
  BY <1>11, LenProperties
<1>13. ASSUME NEW p \in A
       PROVE  \/ \E n \in DOMAIN BuildPaths : BuildPaths[n] = p
              \/ /\ Len(BuildPaths) = ShownPaths
                 /\ \A n \in DOMAIN BuildPaths : BuildPaths[n].score >= p.score
  <2>1. Lists(sorted, A, Prec(A))
    BY <1>6 DEF Lists, Prec, c
  <2>2. PICK k \in 1..c : sorted[k] = p
    BY <1>1, <1>2, <2>1, ListHasAll DEF c
  <2>3. CASE k <= taken
    <3>1. k \in 1..taken
      BY <1>1, <1>9, <2>2, <2>3
    <3> QED
      BY <1>11, <1>12, <2>2, <3>1
  <2>4. CASE ~(k <= taken)
    <3>1. taken = ShownPaths
      BY <1>1, <1>9, <2>4
    <3>2. ASSUME NEW n \in 1..taken PROVE BuildPaths[n].score >= p.score
      <4>1. n \in 1..c /\ n < k
        BY <1>1, <1>9, <2>4
      <4>2. Precedes(sorted[n], p) /\ sorted[n] \in A
        BY <1>6, <2>2, <4>1
      <4>3. sorted[n].score \in Int /\ p.score \in Int
        BY <1>3, <4>2
      <4>4. sorted[n].score >= p.score
        BY <4>2, <4>3 DEF Precedes
      <4> QED
        BY <1>11, <4>4
    <3> QED
      BY <1>11, <1>12, <3>1, <3>2
  <2> QED
    BY <2>3, <2>4
<1> QED
  BY <1>11, <1>13 DEF A

-----------------------------------------------------------------------------
(***************************************************************************)
(* The matrix, the shortest path, and the whole.                           *)
(***************************************************************************)
LEMMA MatrixCounts ==
    ASSUME PathTypeOK, NEW group, NEW e \in EnabledBy(group)
    PROVE  /\ e[2] \in DOMAIN Coverage
           /\ Coverage[e[2]].worst >= observed[e[1]].finding.severity
<1> DEFINE of(t) == {i \in Covered : t \in TechniquesFor(observed[i].finding)}
           sevs == {observed[i].finding.severity : i \in of(e[2])}
<1>1. e[2] \in DOMAIN TacticOf /\ e[1] \in of(e[2])
  BY DEF EnabledBy, GroupOf, Standing, Covered
<1>2. e[2] \in DOMAIN Coverage /\ Coverage[e[2]].worst = Max(sevs)
  <2> DEFINE techs == {tech \in DOMAIN TacticOf : of(tech) # {}}
             row(t) == [count |-> Cardinality(of(t)),
                        worst |-> Max({observed[i].finding.severity : i \in of(t)})]
  <2>1. Coverage = [t \in techs |-> row(t)]
    BY DEF Coverage
  <2>2. e[2] \in techs
    BY <1>1
  <2>3. row(e[2]).worst = Max(sevs)
    OBVIOUS
  <2> HIDE DEF techs, row
  <2> QED
    BY <2>1, <2>2, <2>3
<1>3. sevs \in SUBSET (0..4)
  <2>1. \A i \in Covered : observed[i].finding.severity \in 0..4
    <3> SUFFICES ASSUME NEW i \in Covered PROVE observed[i].finding.severity \in 0..4
      OBVIOUS
    <3> QED
      BY ObservedAreTyped DEF Covered
  <2> QED
    BY <2>1
<1>4. observed[e[1]].finding.severity \in sevs
  BY <1>1
<1>5. sevs \in SUBSET Nat /\ sevs \in SUBSET Int /\ \A v \in sevs : v <= 4
  BY <1>3
<1> HIDE DEF sevs
<1>6. IsFiniteSet(sevs)
  BY <1>5, FS_BoundedSetOfNaturals
<1>7. Max(sevs) \in Int /\ \A v \in sevs : v <= Max(sevs)
  BY <1>4, <1>5, <1>6, LeastAndGreatest
<1> QED
  BY <1>2, <1>4, <1>5, <1>7

LEMMA ShortestIsFound ==
    ASSUME PathTypeOK, NEW n \in DOMAIN BuildPaths, BuildPaths[n].reaches
    PROVE  ShortestToImpact(BuildPaths) # 0
<1> DEFINE paths == BuildPaths
           impactful == {m \in DOMAIN paths : paths[m].reaches}
           before(k, m) ==
            \/ Len(paths[k].steps) < Len(paths[m].steps)
            \/ Len(paths[k].steps) = Len(paths[m].steps) /\ paths[k].worst > paths[m].worst
            \/ /\ Len(paths[k].steps) = Len(paths[m].steps)
               /\ paths[k].worst = paths[m].worst /\ k < m
           R == {p \in impactful \X impactful : before(p[1], p[2])}
<1>1. paths \in Seq(AllPaths)
  BY ListIsFullOrComplete
<1>2. /\ DOMAIN paths = 1..Len(paths) /\ Len(paths) \in Nat
      /\ \A m \in DOMAIN paths : paths[m] \in AllPaths
  BY <1>1, LenProperties, ElementOfSeq
<1>3. impactful \in SUBSET (Nat \ {0}) /\ impactful # {}
  BY <1>2
<1>4. IsFiniteSet(impactful)
  <2>1. IsFiniteSet(DOMAIN paths)
    BY <1>2, FS_Interval
  <2> QED
    BY <2>1, FS_Subset
<1>5. \A m \in impactful :
          m \in Nat \ {0} /\ Len(paths[m].steps) \in Int /\ paths[m].worst \in Int
  <2> SUFFICES ASSUME NEW m \in impactful
               PROVE  m \in Nat \ {0} /\ Len(paths[m].steps) \in Int /\ paths[m].worst \in Int
    OBVIOUS
  <2>1. PICK p \in AllPaths : p = paths[m]
    BY <1>2
  <2>2. p = PathOf(p.group) /\ TacticsOf(p.group) # {}
    BY PathsAreFinite
  <2>3. p.worst \in Int
    BY <2>2, WorstOfPath
  <2>4. Len(p.steps) \in Int
    BY <2>2, PathIsWorst, LenProperties
  <2> QED
    BY <1>3, <2>1, <2>3, <2>4
<1>6. ShortestToImpact(paths) =
          CHOOSE m \in impactful : \A k \in impactful \ {m} : before(m, k)
  BY <1>3 DEF ShortestToImpact
<1> HIDE DEF paths, impactful
<1>7. \A k, m \in impactful : <<k, m>> \in R <=> before(k, m)
  OBVIOUS
<1>8. StrictOrder(impactful, R)
  <2> HIDE DEF R
  <2>1. \A k, m \in impactful : k # m => <<k, m>> \in R \/ <<m, k>> \in R
    <3>1. ASSUME NEW k \in impactful, NEW m \in impactful, k # m
          PROVE  before(k, m) \/ before(m, k)
      <4> DEFINE L(i) == Len(paths[i].steps)  W(i) == paths[i].worst
      <4>1. /\ L(k) \in Int /\ L(m) \in Int /\ W(k) \in Int /\ W(m) \in Int
            /\ k \in Nat /\ m \in Nat
        BY <1>5
      <4> HIDE DEF L, W
      <4>2. \/ L(k) < L(m) \/ (L(k) = L(m) /\ W(k) > W(m)) \/ (L(k) = L(m) /\ W(k) = W(m) /\ k < m)
            \/ L(m) < L(k) \/ (L(m) = L(k) /\ W(m) > W(k)) \/ (L(m) = L(k) /\ W(m) = W(k) /\ m < k)
        BY <3>1, <4>1
      <4> QED
        BY <4>2 DEF L, W
    <3> QED
      BY <1>7, <3>1
  <2>2. \A k, m \in impactful : <<k, m>> \in R => <<m, k>> \notin R
    <3>1. ASSUME NEW k \in impactful, NEW m \in impactful, before(k, m) PROVE ~before(m, k)
      <4> DEFINE L(i) == Len(paths[i].steps)  W(i) == paths[i].worst
      <4>1. /\ L(k) \in Int /\ L(m) \in Int /\ W(k) \in Int /\ W(m) \in Int
            /\ k \in Nat /\ m \in Nat
        BY <1>5
      <4>2. L(k) < L(m) \/ (L(k) = L(m) /\ W(k) > W(m)) \/ (L(k) = L(m) /\ W(k) = W(m) /\ k < m)
        BY <3>1
      <4> HIDE DEF L, W
      <4>3. ~(\/ L(m) < L(k) \/ (L(m) = L(k) /\ W(m) > W(k))
              \/ (L(m) = L(k) /\ W(m) = W(k) /\ m < k))
        BY <4>1, <4>2
      <4> QED
        BY <4>3 DEF L, W
    <3> HIDE DEF before
    <3> QED
      BY <1>7, <3>1
  <2>3. ASSUME NEW j \in impactful, NEW k \in impactful, NEW m \in impactful,
               before(j, k), before(k, m)
        PROVE  before(j, m)
    <3> DEFINE L(i) == Len(paths[i].steps)  W(i) == paths[i].worst
    <3>1. /\ L(j) \in Int /\ L(k) \in Int /\ L(m) \in Int
          /\ W(j) \in Int /\ W(k) \in Int /\ W(m) \in Int
          /\ j \in Nat /\ k \in Nat /\ m \in Nat
      BY <1>5
    <3>2. /\ L(j) < L(k) \/ (L(j) = L(k) /\ W(j) > W(k)) \/ (L(j) = L(k) /\ W(j) = W(k) /\ j < k)
          /\ L(k) < L(m) \/ (L(k) = L(m) /\ W(k) > W(m)) \/ (L(k) = L(m) /\ W(k) = W(m) /\ k < m)
      BY <2>3
    <3> HIDE DEF L, W
    <3>3. L(j) < L(m) \/ (L(j) = L(m) /\ W(j) > W(m)) \/ (L(j) = L(m) /\ W(j) = W(m) /\ j < m)
      BY <3>1, <3>2
    <3> QED
      BY <3>3 DEF L, W
  <2>4. \A j, k, m \in impactful : <<j, k>> \in R /\ <<k, m>> \in R => <<j, m>> \in R
    <3> HIDE DEF before
    <3> QED
      BY <1>7, <2>3
  <2> QED
    BY <2>1, <2>2, <2>4 DEF StrictOrder
<1>9. PICK m \in impactful : IsFirst(m, impactful, R)
  <2> HIDE DEF R
  <2> QED
    BY <1>3, <1>4, <1>8, OneIsFirst
<1>10. \A k \in impactful \ {m} : before(m, k)
  BY <1>9 DEF IsFirst
<1> HIDE DEF before
<1>11. ShortestToImpact(paths) \in impactful
  BY <1>6, <1>9, <1>10
<1> QED
  BY <1>5, <1>11 DEF paths

\* It holds of any typed findings: the views are computed afresh from them.
LEMMA TypedPathsAreWorst == ASSUME PathTypeOK PROVE PathsShowTheWorst
<1> DEFINE paths == BuildPaths
           matrix == Coverage
           taken == {paths[n].group : n \in DOMAIN paths}
<1>1. paths \in Seq(AllPaths)
  BY ListIsFullOrComplete
<1>2. \A n \in DOMAIN paths :
          paths[n] \in AllPaths /\ paths[n] = PathOf(paths[n].group)
  <2>1. \A n \in DOMAIN paths : paths[n] \in AllPaths
    BY <1>1, LenProperties, ElementOfSeq
  <2> QED
    BY <2>1, PathsAreFinite
<1>3. ASSUME NEW n \in DOMAIN paths
      PROVE  LET path == paths[n]
             IN  /\ \A e \in EnabledBy(path.group) : \E k \in DOMAIN path.steps :
                      /\ path.steps[k].tactic = TacticOf[e[2]]
                      /\ path.steps[k].severity >= observed[e[1]].finding.severity
                 /\ \A k \in DOMAIN path.steps :
                      /\ <<path.steps[k].finding, path.steps[k].technique>>
                             \in EnabledBy(path.group)
                      /\ k > 1 => path.steps[k - 1].tactic < path.steps[k].tactic
                      /\ path.steps[k].technique \in DOMAIN matrix
                      /\ matrix[path.steps[k].technique].worst >= path.steps[k].severity
  <2> DEFINE path == paths[n]
  <2>1. path = PathOf(path.group)
    BY <1>2
  <2> HIDE DEF path, matrix
  <2>2. PICK group : path = PathOf(group) /\ group = path.group
    BY <2>1
  <2>3. Worst(path, group)
    BY <2>2, PathIsWorst
  <2>4. ASSUME NEW k \in DOMAIN path.steps
        PROVE  /\ path.steps[k].technique \in DOMAIN matrix
               /\ matrix[path.steps[k].technique].worst >= path.steps[k].severity
    <3> DEFINE e == <<path.steps[k].finding, path.steps[k].technique>>
    <3>1. e \in EnabledBy(group) /\ e[2] = path.steps[k].technique
          /\ path.steps[k].severity = observed[e[1]].finding.severity
      BY <2>3, <2>4 DEF Worst
    <3> HIDE DEF e
    <3>2. e[2] \in DOMAIN matrix /\ matrix[e[2]].worst >= observed[e[1]].finding.severity
      BY <3>1, MatrixCounts DEF matrix
    <3> QED
      BY <3>1, <3>2
  <2>5. QED
    BY <2>2, <2>3, <2>4 DEF path, Worst
<1>4. ASSUME NEW i \in Standing
      PROVE  LET group == observed[i].finding.group
             IN  \/ group \in taken \/ EnabledBy(group) = {}
                 \/ /\ Len(paths) = ShownPaths
                    /\ \A n \in DOMAIN paths : paths[n].score >= PathOf(group).score
  <2> DEFINE group == observed[i].finding.group
  <2> SUFFICES ASSUME EnabledBy(group) # {}
               PROVE  \/ group \in taken
                      \/ /\ Len(paths) = ShownPaths
                         /\ \A n \in DOMAIN paths : paths[n].score >= PathOf(group).score
    OBVIOUS
  <2>1. group \in {f.group : f \in Observations}
    BY ObservedAreTyped DEF Standing
  <2> HIDE DEF group
  <2>2. PICK e \in EnabledBy(group) : TRUE
    OBVIOUS
  <2>3. e \in Serving(group, TacticOf[e[2]]) /\ TacticOf[e[2]] \in TacticsOf(group)
    BY <2>2 DEF EnabledBy, Serving, TacticsOf, Range
  <2>4. PathOf(group) \in AllPaths
    BY <2>1, <2>3 DEF AllPaths
  <2>5. PathOf(group).group = group
    BY PathIsWorst
  <2>6. CASE \E n \in DOMAIN paths : paths[n] = PathOf(group)
    BY <2>5, <2>6
  <2>7. CASE /\ Len(paths) = ShownPaths
             /\ \A n \in DOMAIN paths : paths[n].score >= PathOf(group).score
    BY <2>7
  <2> QED
    BY <2>4, <2>6, <2>7, ListIsFullOrComplete
<1>5. ASSUME ShortestToImpact(paths) = 0, NEW n \in DOMAIN paths,
             NEW k \in DOMAIN paths[n].steps
      PROVE  paths[n].steps[k].tactic \notin Impacts
  <2>1. ~paths[n].reaches
    BY <1>5, ShortestIsFound
  <2> DEFINE path == paths[n]
  <2>2. path = PathOf(path.group)
    BY <1>2
  <2> HIDE DEF path
  <2>3. PICK group : path = PathOf(group)
    BY <2>2
  <2>4. path.reaches <=> \E m \in DOMAIN path.steps : path.steps[m].tactic \in Impacts
    BY <2>3, PathIsWorst
  <2> QED
    BY <1>5, <2>1, <2>4 DEF path
<1> HIDE DEF paths, matrix
<1>6. ShowTheWorst(paths, matrix)
  BY <1>3, <1>4, <1>5, Zenon DEF ShowTheWorst, EnabledBy
<1> QED
  BY <1>6 DEF PathsShowTheWorst, paths, matrix

(***************************************************************************)
(* The attack paths show the worst of what stands, for any findings,       *)
(* mapping and catalogue and a list of any length, as findings are         *)
(* reported and refuted.                                                   *)
(***************************************************************************)
THEOREM PathsAreWorst == PathSpec => []PathsShowTheWorst
<1>1. PathTypeOK => PathsShowTheWorst
  BY TypedPathsAreWorst
<1> QED
  BY <1>1, PathTypeCorrect, PTL

-----------------------------------------------------------------------------
(***************************************************************************)
(* Deep scan.  What a body shows that is cut, or not shown at all.         *)
(***************************************************************************)
PartOf(x, y) ==
    /\ x.kind = y.kind
    /\ x.marks = << >> \/ (x.marks = y.marks /\ x.whole = y.whole)

LEMMA CapKeepsWhatFits ==
    ASSUME NEW body \in Bodies
    PROVE  PartOf(IF Cut(body) THEN [body EXCEPT !.marks = << >>] ELSE body, Capped(body))
<1>1. Capped(body).kind = body.kind
  BY DEF Capped, Bodies
<1>2. CASE Cut(body)
  BY <1>1, <1>2 DEF PartOf, Bodies
<1>3. CASE ~Cut(body)
  BY <1>1, <1>3 DEF PartOf, Capped, Bodies
<1> QED
  BY <1>2, <1>3

LEMMA PartShowsLess ==
    ASSUME NEW x, NEW y, PartOf(x, y)
    PROVE  /\ \A n \in DOMAIN x.marks : n \in DOMAIN y.marks /\ x.marks[n] = y.marks[n]
           /\ Marks(x) \subseteq Marks(y)
           /\ BodyFields(x) \subseteq BodyFields(y)
           /\ Textual(x) = Textual(y)
           /\ ScanBlob(x) \subseteq ScanBlob(y)
<1>1. DOMAIN << >> = {}
  OBVIOUS
<1>2. CASE x.marks = << >>
  <2>1. Marks(x) = {}
    BY <1>1, <1>2 DEF Marks
  <2> QED
    BY <1>1, <1>2, <2>1 DEF BodyFields, ScanBlob, Textual, PartOf
<1>3. CASE x.marks = y.marks /\ x.whole = y.whole
  <2>1. Marks(x) = Marks(y) /\ x.kind = y.kind
    BY <1>3 DEF Marks, PartOf
  <2> QED
    BY <1>3, <2>1 DEF BodyFields, ScanBlob, Textual
<1> QED
  BY <1>2, <1>3 DEF PartOf

\* A flow whose bodies are parts of another's.
Fainter(f, g) ==
    /\ f.method = g.method /\ f.host = g.host /\ f.url = g.url /\ f.path = g.path
    /\ f.https = g.https /\ f.query = g.query /\ f.cookies = g.cookies
    /\ f.auth = g.auth /\ f.sensitive = g.sensitive
    /\ PartOf(f.body, g.body)
    /\ HasReply(f) <=> HasReply(g)
    /\ HasReply(f) =>
         /\ f.reply.status = g.reply.status /\ f.reply.present = g.reply.present
         /\ f.reply.cookies = g.reply.cookies /\ f.reply.cors = g.reply.cors
         /\ f.reply.banners = g.reply.banners /\ f.reply.auth = g.reply.auth
         /\ f.reply.sensitive = g.reply.sensitive
         /\ PartOf(f.reply.body, g.reply.body)

Redacted(flow) ==
    [flow EXCEPT
        !.body = IF Cut(@) THEN [@ EXCEPT !.marks = << >>] ELSE @,
        !.reply = IF HasReply(flow) /\ Cut(@.body) THEN [@ EXCEPT !.body.marks = << >>] ELSE @]

LEMMA RedactedIsFainter ==
    ASSUME NEW flow \in Flows PROVE Fainter(Redacted(flow), Stored(flow))
<1> DEFINE f == Redacted(flow)  g == Stored(flow)
<1>1. /\ f.method = g.method /\ f.host = g.host /\ f.url = g.url /\ f.path = g.path
      /\ f.https = g.https /\ f.query = g.query /\ f.cookies = g.cookies
      /\ f.auth = g.auth /\ f.sensitive = g.sensitive
  BY DEF Redacted, Stored, CappedMessage, Flows
<1>2. /\ f.body = IF Cut(flow.body) THEN [flow.body EXCEPT !.marks = << >>] ELSE flow.body
      /\ g.body = Capped(flow.body) /\ flow.body \in Bodies
  BY DEF Redacted, Stored, CappedMessage, Flows
<1>3. PartOf(f.body, g.body)
  BY <1>2, CapKeepsWhatFits
<1>4. /\ f.reply = IF HasReply(flow) /\ Cut(flow.reply.body)
                   THEN [flow.reply EXCEPT !.body.marks = << >>] ELSE flow.reply
      /\ g.reply = IF HasReply(flow) THEN CappedMessage(flow.reply) ELSE NoReplySeen
      /\ flow.reply \in {NoReplySeen} \union Replies
  <2>1. flow.reply \in {NoReplySeen} \union Replies /\ "reply" \in DOMAIN flow
    BY DEF Flows
  <2> DEFINE cut == IF Cut(flow.body) THEN [flow.body EXCEPT !.marks = << >>] ELSE flow.body
             h == [flow EXCEPT !.body = cut]
  <2>2. f = [h EXCEPT !.reply = IF HasReply(flow) /\ Cut(@.body)
                                THEN [@ EXCEPT !.body.marks = << >>] ELSE @]
    BY DEF Redacted
  <2>3. h.reply = flow.reply /\ "reply" \in DOMAIN h
    BY <2>1 DEF Flows
  <2> HIDE DEF h
  <2>4. f.reply = IF HasReply(flow) /\ Cut(flow.reply.body)
                  THEN [flow.reply EXCEPT !.body.marks = << >>] ELSE flow.reply
    BY <2>2, <2>3
  <2>5. g.reply = IF HasReply(flow) THEN CappedMessage(flow.reply) ELSE NoReplySeen
    <3>1. CappedMessage(flow).reply = flow.reply /\ "reply" \in DOMAIN CappedMessage(flow)
      BY DEF CappedMessage, Flows
    <3> QED
      BY <3>1 DEF Stored
  <2> QED
    BY <2>1, <2>4, <2>5
<1> HIDE DEF f, g
<1>5. CASE ~HasReply(flow)
  <2>1. ~HasReply(f) /\ ~HasReply(g)
    BY <1>4, <1>5 DEF HasReply, NoReplySeen
  <2> QED
    BY <1>1, <1>3, <2>1 DEF Fainter, f, g
<1>6. CASE HasReply(flow)
  <2>1. flow.reply \in Replies
    BY <1>4, <1>6 DEF HasReply, NoReplySeen
  <2> DEFINE reply == flow.reply
  <2>2. /\ f.reply.status = reply.status /\ f.reply.present = reply.present
        /\ f.reply.cookies = reply.cookies /\ f.reply.cors = reply.cors
        /\ f.reply.banners = reply.banners /\ f.reply.auth = reply.auth
        /\ f.reply.sensitive = reply.sensitive
        /\ f.reply.body = IF Cut(reply.body) THEN [reply.body EXCEPT !.marks = << >>]
                          ELSE reply.body
    BY <1>4, <1>6, <2>1 DEF Replies
  <2>3. /\ g.reply.status = reply.status /\ g.reply.present = reply.present
        /\ g.reply.cookies = reply.cookies /\ g.reply.cors = reply.cors
        /\ g.reply.banners = reply.banners /\ g.reply.auth = reply.auth
        /\ g.reply.sensitive = reply.sensitive
        /\ g.reply.body = Capped(reply.body)
    BY <1>4, <1>6, <2>1 DEF Replies, CappedMessage
  <2>4. PartOf(f.reply.body, g.reply.body)
    <3>1. reply.body \in Bodies
      BY <2>1 DEF Replies
    <3> QED
      BY <2>2, <2>3, <3>1, CapKeepsWhatFits
  <2>5. HasReply(f) /\ HasReply(g)
    BY <1>6, <2>2, <2>3 DEF HasReply
  <2> QED
    BY <1>1, <1>3, <2>2, <2>3, <2>4, <2>5 DEF Fainter, f, g
<1> QED
  BY <1>5, <1>6 DEF f, g

\* An error message in the part of the body that is searched.
ErrorShows(flow) ==
    Textual(flow.reply.body)
    /\ \E n \in DOMAIN flow.reply.body.marks :
         n <= ErrorHead /\ flow.reply.body.marks[n].is = "error"

LEMMA ErrorIsSeen ==
    ASSUME NEW flow, HasReply(flow), ErrorShows(flow)
    PROVE  Sighting("verbose-error", "", 2, 1, "config", LocationOf(flow)) \in CheckFlow(flow)
<1> DEFINE error == Sighting("verbose-error", "", 2, 1, "config", LocationOf(flow))
<1>1. error \in IF ErrorShows(flow) THEN {error} ELSE {}
  OBVIOUS
<1> QED
  BY <1>1 DEF CheckFlow, ErrorShows

\* The other checks read what a fainter flow shares with the fuller one.
LEMMA OtherChecksAgree ==
    ASSUME NEW f, NEW g, HasReply(f), HasReply(g), LocationOf(f) = LocationOf(g),
           Textual(f.reply.body) = Textual(g.reply.body),
           f.query = g.query, f.https = g.https, f.reply.status = g.reply.status,
           f.reply.present = g.reply.present, f.reply.cookies = g.reply.cookies,
           f.reply.cors = g.reply.cors, f.reply.banners = g.reply.banners
    PROVE  CheckFlow(f) \subseteq CheckFlow(g) \union
               IF ErrorShows(f)
               THEN {Sighting("verbose-error", "", 2, 1, "config", LocationOf(f))} ELSE {}
<1> DEFINE issue(h, id, of, severity, confidence) ==
                Sighting(id, of, severity, confidence, "config", LocationOf(h))
           headers(h) ==
                {issue(h, id, "", HeaderSeverity(id), 1) :
                    id \in IF Textual(h.reply.body) /\ h.reply.status \in 200..399
                           THEN Headers \ (h.reply.present \union IF h.https THEN {}
                                                                  ELSE {"missing-hsts"})
                           ELSE {}}
           cookies(h) ==
                {issue(h, "weak-cookie-flags", cookie.name,
                       IF "HttpOnly" \in cookie.missing THEN 1 ELSE 0, 1) :
                    cookie \in {c \in h.reply.cookies : c.missing # {}}}
           cors(h) ==
                CASE h.reply.cors = "wildcard"  -> {issue(h, "cors-wildcard-credentials", "", 3, 1)}
                  [] h.reply.cors = "reflected" -> {issue(h, "cors-reflects-origin", "", 2, 0)}
                  [] OTHER -> {}
           banner(h) == {issue(h, "version-disclosure", header, 0, 1) : header \in h.reply.banners}
           errors(h) == IF ErrorShows(h) THEN {issue(h, "verbose-error", "", 2, 1)} ELSE {}
           urls(h) == {issue(h, "secret-in-url", p.name, 2, 1) :
                           p \in {q \in h.query : q.role = "secret"}}
           all(h) == headers(h) \union cookies(h) \union cors(h) \union banner(h)
                     \union errors(h) \union urls(h)
<1>1. CheckFlow(f) = all(f)
  BY DEF CheckFlow, ErrorShows
<1>2. CheckFlow(g) = all(g)
  BY DEF CheckFlow, ErrorShows
<1>3. headers(f) = headers(g)
  OBVIOUS
<1>4. cookies(f) = cookies(g)
  OBVIOUS
<1>5. cors(f) = cors(g)
  OBVIOUS
<1>6. banner(f) = banner(g) /\ urls(f) = urls(g)
  OBVIOUS
<1> HIDE DEF headers, cookies, cors, banner, urls
<1> QED
  BY <1>1, <1>2, <1>3, <1>4, <1>5, <1>6

LEMMA FainterShowsLess ==
    ASSUME NEW f, NEW g, Fainter(f, g) PROVE FlowIssues(f) \subseteq FlowIssues(g)
<1>1. LocationOf(f) = LocationOf(g) /\ EndpointOf(f) = EndpointOf(g)
  BY DEF Fainter, LocationOf, EndpointOf
<1>2. CheckFlow(f) \subseteq CheckFlow(g)
  <2>1. CASE ~HasReply(f)
    BY <2>1 DEF CheckFlow, Fainter
  <2>2. CASE HasReply(f)
    <3>1. HasReply(g) /\ PartOf(f.reply.body, g.reply.body)
      BY <2>2 DEF Fainter
    <3>2. Textual(f.reply.body) = Textual(g.reply.body)
      BY <3>1, PartShowsLess
    <3>3. (\E n \in DOMAIN f.reply.body.marks :
               n <= ErrorHead /\ f.reply.body.marks[n].is = "error")
          => \E n \in DOMAIN g.reply.body.marks :
               n <= ErrorHead /\ g.reply.body.marks[n].is = "error"
      BY <3>1, PartShowsLess
    <3>4. /\ f.query = g.query /\ f.https = g.https
          /\ f.reply.status = g.reply.status /\ f.reply.present = g.reply.present
          /\ f.reply.cookies = g.reply.cookies /\ f.reply.cors = g.reply.cors
          /\ f.reply.banners = g.reply.banners
      BY <2>2 DEF Fainter
    <3> DEFINE error == Sighting("verbose-error", "", 2, 1, "config", LocationOf(f))
    <3>5. ErrorShows(f) => error \in CheckFlow(g)
      <4>1. ErrorShows(f) => ErrorShows(g)
        BY <3>2, <3>3 DEF ErrorShows
      <4> QED
        BY <1>1, <3>1, <4>1, ErrorIsSeen
    <3>6. CheckFlow(f) \subseteq CheckFlow(g) \union IF ErrorShows(f) THEN {error} ELSE {}
      BY <1>1, <2>2, <3>1, <3>2, <3>4, OtherChecksAgree
    <3> QED
      BY <3>5, <3>6
  <2> QED
    BY <2>1, <2>2
<1>3. ScanFlow(f) \subseteq ScanFlow(g)
  <2>1. /\ ScanHeaders(f) = ScanHeaders(g)
        /\ f.query = g.query /\ f.cookies = g.cookies
    BY DEF Fainter, ScanHeaders
  <2>2. \A P, Q : P \subseteq Q => ScanPairs(P) \subseteq ScanPairs(Q)
    BY DEF ScanPairs
  <2>3. ScanPairs(BodyFields(f.body)) \union ScanBlob(f.body)
            \subseteq ScanPairs(BodyFields(g.body)) \union ScanBlob(g.body)
    <3>1. PartOf(f.body, g.body)
      BY DEF Fainter
    <3> QED
      BY <2>2, <3>1, PartShowsLess
  <2>4. HasReply(f) =>
           /\ HasReply(g) /\ ScanHeaders(f.reply) = ScanHeaders(g.reply)
           /\ Textual(f.reply.body) = Textual(g.reply.body)
           /\ ScanPairs(BodyFields(f.reply.body)) \union ScanBlob(f.reply.body)
                \subseteq ScanPairs(BodyFields(g.reply.body)) \union ScanBlob(g.reply.body)
    <3> SUFFICES ASSUME HasReply(f)
                 PROVE  /\ HasReply(g) /\ ScanHeaders(f.reply) = ScanHeaders(g.reply)
                        /\ Textual(f.reply.body) = Textual(g.reply.body)
                        /\ ScanPairs(BodyFields(f.reply.body)) \union ScanBlob(f.reply.body)
                             \subseteq ScanPairs(BodyFields(g.reply.body)) \union ScanBlob(g.reply.body)
      OBVIOUS
    <3>1. HasReply(g) /\ PartOf(f.reply.body, g.reply.body)
      BY DEF Fainter
    <3>2. ScanHeaders(f.reply) = ScanHeaders(g.reply)
      BY DEF Fainter, ScanHeaders
    <3> QED
      BY <2>2, <3>1, <3>2, PartShowsLess
  <2> QED
    BY <1>1, <2>1, <2>3, <2>4 DEF ScanFlow
<1>4. SecretFindings(ScanFlow(f)) \subseteq SecretFindings(ScanFlow(g))
  BY <1>3 DEF SecretFindings
<1>5. Reflections(f) \subseteq Reflections(g)
  <2> SUFFICES ASSUME Reflections(f) # {} PROVE Reflections(f) \subseteq Reflections(g)
    OBVIOUS
  <2>1. HasReply(f) /\ Textual(f.reply.body)
    BY DEF Reflections
  <2>2. HasReply(g) /\ PartOf(f.reply.body, g.reply.body) /\ PartOf(f.body, g.body)
    BY <2>1 DEF Fainter
  <2>3. Textual(g.reply.body) /\ Marks(f.reply.body) \subseteq Marks(g.reply.body)
    BY <2>1, <2>2, PartShowsLess
  <2>4. RequestParams(f) \subseteq RequestParams(g)
    <3>1. BodyFields(f.body) \subseteq BodyFields(g.body)
      BY <2>2, PartShowsLess
    <3> QED
      BY <3>1 DEF RequestParams, Fainter
  <2>5. \A p : Echoes(p, f.reply.body) => Echoes(p, g.reply.body)
    BY <2>3 DEF Echoes
  <2> QED
    BY <1>1, <2>1, <2>2, <2>3, <2>4, <2>5 DEF Reflections
<1> QED
  BY <1>2, <1>4, <1>5 DEF FlowIssues

LEMMA StoreKeepsWhatIsSure ==
    ASSUME NEW flow \in Flows PROVE ShowsForSure(flow) \subseteq FlowIssues(Stored(flow))
<1>1. ShowsForSure(flow) = FlowIssues(Redacted(flow))
  BY DEF ShowsForSure, Redacted
<1> QED
  BY <1>1, RedactedIsFainter, FainterShowsLess

-----------------------------------------------------------------------------
(***************************************************************************)
(* Deep scan.  Issues, and what de-duplication and the register keep.     *)
(***************************************************************************)
CategoryOf(id) ==
    CASE id \in Headers \union {"weak-cookie-flags", "cors-wildcard-credentials",
                                "cors-reflects-origin", "version-disclosure",
                                "verbose-error", "secret-in-url"} -> "config"
      [] id = "reflected-parameter" -> "surface"
      [] OTHER -> "secret"

\* The category of an issue is that of its id.
IsIssue(i) == i.severity \in 0..4 /\ i.confidence \in 0..1 /\ i.category = CategoryOf(i.id)

SecretKinds == {"provider", "jwt", "bearer", "basic-auth", "credential-field",
                "username-field", "high-entropy", "nothing"}

LEMMA SecretsAreKinds == ASSUME NEW flow PROVE \A hit \in ScanFlow(flow) : hit.kind \in SecretKinds
<1>1. \A message : \A secret \in ScanHeaders(message) : secret[1] \in SecretKinds
  BY DEF ScanHeaders, SecretKinds
<1>2. \A pairs : \A secret \in ScanPairs(pairs) : secret[1] \in SecretKinds
  <2>1. \A p : KindOfField(p) \in SecretKinds
    BY DEF KindOfField, SecretKinds
  <2> SUFFICES ASSUME NEW pairs, NEW secret \in ScanPairs(pairs) PROVE secret[1] \in SecretKinds
    OBVIOUS
  <2>2. PICK p \in pairs : secret = <<KindOfField(p), p.name>>
    BY DEF ScanPairs
  <2> QED
    BY <2>1, <2>2
<1>3. \A body : \A secret \in ScanBlob(body) : secret[1] \in SecretKinds
  BY DEF ScanBlob, SecretKinds
<1> QED
  BY <1>1, <1>2, <1>3 DEF ScanFlow

LEMMA IssuesAreTyped == ASSUME NEW flow PROVE \A i \in FlowIssues(flow) : IsIssue(i)
<1>1. \A i \in CheckFlow(flow) : IsIssue(i)
  <2> SUFFICES ASSUME NEW i \in CheckFlow(flow) PROVE IsIssue(i)
    OBVIOUS
  <2> DEFINE config(id, of, severity, confidence) ==
                  Sighting(id, of, severity, confidence, "config", LocationOf(flow))
  <2>1. \/ \E id \in Headers : i = config(id, "", HeaderSeverity(id), 1)
        \/ \E cookie \in flow.reply.cookies :
              i = config("weak-cookie-flags", cookie.name,
                         IF "HttpOnly" \in cookie.missing THEN 1 ELSE 0, 1)
        \/ i = config("cors-wildcard-credentials", "", 3, 1)
        \/ i = config("cors-reflects-origin", "", 2, 0)
        \/ \E header \in flow.reply.banners : i = config("version-disclosure", header, 0, 1)
        \/ i = config("verbose-error", "", 2, 1)
        \/ \E p \in flow.query : i = config("secret-in-url", p.name, 2, 1)
    BY DEF CheckFlow
  <2>2. ASSUME NEW id \in Headers \union {"weak-cookie-flags", "cors-wildcard-credentials",
                                "cors-reflects-origin", "version-disclosure",
                                "verbose-error", "secret-in-url"},
               NEW of, NEW severity \in 0..4, NEW confidence \in 0..1,
               i = config(id, of, severity, confidence)
        PROVE  IsIssue(i)
    <3>1. /\ i.id = id /\ i.severity = severity /\ i.confidence = confidence
          /\ i.category = "config"
      BY <2>2 DEF Sighting
    <3>2. CategoryOf(id) = "config"
      BY DEF CategoryOf, Headers
    <3> QED
      BY <3>1, <3>2 DEF IsIssue
  <2>3. \A id : HeaderSeverity(id) \in 0..4
    BY DEF HeaderSeverity
  <2> HIDE DEF config
  <2>4. CASE \E id \in Headers : i = config(id, "", HeaderSeverity(id), 1)
    <3>1. PICK id \in Headers : i = config(id, "", HeaderSeverity(id), 1)
      BY <2>4
    <3>2. HeaderSeverity(id) \in 0..4 /\ 1 \in 0..1
      BY <2>3
    <3> QED
      BY <2>2, <3>1, <3>2
  <2>5. CASE \E cookie \in flow.reply.cookies :
              i = config("weak-cookie-flags", cookie.name,
                         IF "HttpOnly" \in cookie.missing THEN 1 ELSE 0, 1)
    <3>1. \E of : \E severity \in 0..4 : i = config("weak-cookie-flags", of, severity, 1)
      BY <2>5
    <3> QED
      BY <2>2, <3>1
  <2>6. /\ {0, 1, 2, 3} \subseteq 0..4 /\ {0, 1} \subseteq 0..1
        /\ {"cors-wildcard-credentials", "cors-reflects-origin", "version-disclosure",
            "verbose-error", "secret-in-url"}
             \subseteq Headers \union {"weak-cookie-flags", "cors-wildcard-credentials",
                                "cors-reflects-origin", "version-disclosure",
                                "verbose-error", "secret-in-url"}
    OBVIOUS
  <2>7. CASE i = config("cors-wildcard-credentials", "", 3, 1)
    BY <2>2, <2>6, <2>7
  <2>8. CASE i = config("cors-reflects-origin", "", 2, 0)
    BY <2>2, <2>6, <2>8
  <2>9. CASE \E header \in flow.reply.banners : i = config("version-disclosure", header, 0, 1)
    BY <2>2, <2>6, <2>9
  <2>10. CASE i = config("verbose-error", "", 2, 1)
    BY <2>2, <2>6, <2>10
  <2>11. CASE \E p \in flow.query : i = config("secret-in-url", p.name, 2, 1)
    BY <2>2, <2>6, <2>11
  <2> QED
    BY <2>1, <2>4, <2>5, <2>7, <2>8, <2>9, <2>10, <2>11
<1>2. \A i \in SecretFindings(ScanFlow(flow)) : IsIssue(i)
  <2> SUFFICES ASSUME NEW hit \in ScanFlow(flow), hit.kind # "username-field"
               PROVE  IsIssue(Sighting(hit.kind, hit.of, SecretSeverity(hit.kind), 1, "secret", hit.location))
    BY DEF SecretFindings
  <2>1. hit.kind \in SecretKinds
    BY SecretsAreKinds
  <2>2. CategoryOf(hit.kind) = "secret"
    BY <2>1 DEF SecretKinds, CategoryOf, Headers
  <2>3. SecretSeverity(hit.kind) \in 0..4
    BY DEF SecretSeverity
  <2> QED
    BY <2>2, <2>3 DEF IsIssue, Sighting
<1>3. \A i \in Reflections(flow) : IsIssue(i)
  BY DEF Reflections, IsIssue, Sighting, CategoryOf, Headers
<1> QED
  BY <1>1, <1>2, <1>3 DEF FlowIssues

LEMMA GreatestBelow ==
    ASSUME NEW n \in Nat, NEW S \in SUBSET (0..n), S # {}
    PROVE  \E x \in S : \A y \in S : y <= x
<1>1. S \in SUBSET Nat /\ S \in SUBSET Int /\ \A v \in S : v <= n
  OBVIOUS
<1>2. IsFiniteSet(S)
  BY <1>1, FS_BoundedSetOfNaturals
<1> QED
  BY <1>1, <1>2, LeastAndGreatest

LEMMA MaxSeverityIs ==
    ASSUME NEW S \in SUBSET (0..4), S # {}
    PROVE  MaxSeverity(S) \in S /\ \A y \in S : y <= MaxSeverity(S)
<1>1. \E x \in S : \A y \in S : y <= x
  BY GreatestBelow
<1> QED
  BY <1>1 DEF MaxSeverity

\* A set of issues has a strongest one.
LEMMA StrongestIs ==
    ASSUME NEW issues, issues # {}, \A i \in issues : IsIssue(i)
    PROVE  Strongest(issues) \in issues /\ \A i \in issues : ~Stronger(i, Strongest(issues))
<1> DEFINE rank(j) == 2 * j.severity + j.confidence
           ranks == {rank(j) : j \in issues}
<1>1. \A j \in issues : j.severity \in 0..4 /\ j.confidence \in 0..1 /\ rank(j) \in 0..9
  BY DEF IsIssue
<1>2. ranks \in SUBSET (0..9) /\ ranks # {}
  BY <1>1
<1>3. PICK r \in ranks : \A s \in ranks : s <= r
  <2> HIDE DEF ranks
  <2> QED
    BY <1>2, GreatestBelow
<1>4. PICK j \in issues : rank(j) = r
  OBVIOUS
<1>5. \A k \in issues : rank(k) <= rank(j)
  BY <1>3, <1>4
<1>6. \A k \in issues : ~Stronger(k, j)
  BY <1>1, <1>4, <1>5 DEF Stronger
<1> HIDE DEF rank, ranks
<1> QED
  BY <1>6 DEF Strongest

\* A strongest issue of each id and location stays.
LEMMA DedupeKeepsTheWorst ==
    ASSUME NEW issues, \A i \in issues : IsIssue(i)
    PROVE  /\ Dedupe(issues) \subseteq issues
           /\ \A i \in issues :
                \E j \in Dedupe(issues) : /\ j.id = i.id /\ j.location = i.location
                                         /\ j.category = i.category /\ j.severity >= i.severity
<1> DEFINE kept(i) == Strongest(Twins(issues, i))
<1>1. ASSUME NEW i \in issues
      PROVE  /\ kept(i) \in issues /\ kept(i).id = i.id /\ kept(i).location = i.location
             /\ ~Stronger(i, kept(i))
  <2>1. i \in Twins(issues, i) /\ \A j \in Twins(issues, i) : IsIssue(j)
    BY DEF Twins
  <2>2. kept(i) \in Twins(issues, i) /\ \A j \in Twins(issues, i) : ~Stronger(j, kept(i))
    <3> HIDE DEF kept
    <3>1. Strongest(Twins(issues, i)) \in Twins(issues, i)
          /\ \A j \in Twins(issues, i) : ~Stronger(j, Strongest(Twins(issues, i)))
      BY <2>1, StrongestIs
    <3> QED
      BY <3>1 DEF kept
  <2> HIDE DEF kept
  <2> QED
    BY <2>1, <2>2 DEF Twins
<1>2. \A i \in issues : kept(i) \in Dedupe(issues)
  BY DEF Dedupe
<1>3. Dedupe(issues) = {kept(i) : i \in issues}
  BY DEF Dedupe
<1> HIDE DEF kept
<1>4. ASSUME NEW i \in issues
      PROVE  kept(i).category = i.category /\ kept(i).severity >= i.severity
  <2>1. IsIssue(i) /\ IsIssue(kept(i)) /\ kept(i).id = i.id /\ ~Stronger(i, kept(i))
    BY <1>1
  <2> QED
    BY <2>1 DEF IsIssue, Stronger
<1> QED
  BY <1>1, <1>2, <1>3, <1>4

IsRegister(r) == \A k \in DOMAIN r : r[k].severity \in 0..4 /\ r[k].evidence # {}

\* An issue on record in a register.
IsRecorded(r, i) ==
    \E k \in DOMAIN r : /\ k.category = i.category /\ k.location = i.location
                        /\ \E named \in r[k].evidence : named[1] = i.id
                        /\ r[k].severity >= i.severity

LEMMA AddingRecords ==
    ASSUME NEW records, IsRegister(records), NEW report,
           \A i \in report.findings : IsIssue(i)
    PROVE  LET added == AddReport(records, report)
           IN  /\ IsRegister(added)
               /\ \A k \in DOMAIN records : /\ k \in DOMAIN added
                                             /\ added[k].severity >= records[k].severity
                                             /\ records[k].evidence \subseteq added[k].evidence
               /\ \A i \in report.findings : IsRecorded(added, i)
<1> DEFINE added == AddReport(records, report)
           issuesAt(key) == {i \in report.findings : KeyOf(report, i) = key}
           old(key) == IF key \in DOMAIN records THEN records[key]
                       ELSE [severity |-> 0, evidence |-> {}]
           keys == DOMAIN records \union {KeyOf(report, i) : i \in report.findings}
           marked(key) == {old(key).severity} \union {i.severity : i \in issuesAt(key)}
<1>1. /\ DOMAIN added = keys
      /\ \A k \in keys : /\ added[k].severity = MaxSeverity(marked(k))
                         /\ added[k].evidence = old(k).evidence \union {<<i.id, i.of>> : i \in issuesAt(k)}
  BY DEF AddReport
<1> HIDE DEF added
<1>2. ASSUME NEW k \in keys
      PROVE  /\ added[k].severity \in 0..4
             /\ added[k].severity >= old(k).severity
             /\ \A i \in issuesAt(k) : added[k].severity >= i.severity
  <2>1. marked(k) \in SUBSET (0..4) /\ marked(k) # {}
    BY DEF IsIssue, IsRegister
  <2>2. MaxSeverity(marked(k)) \in marked(k) /\ \A y \in marked(k) : y <= MaxSeverity(marked(k))
    <3> HIDE DEF marked
    <3> QED
      BY <2>1, MaxSeverityIs
  <2>3. added[k].severity = MaxSeverity(marked(k))
    BY <1>1
  <2>4. added[k].severity \in 0..4 /\ \A y \in marked(k) : y \in 0..4 /\ y <= added[k].severity
    BY <2>1, <2>2, <2>3
  <2> HIDE DEF added, old, issuesAt
  <2> QED
    BY <2>4
<1>3. ASSUME NEW k \in keys PROVE added[k].evidence # {}
  <2>1. CASE k \in DOMAIN records
    BY <1>1, <2>1 DEF IsRegister
  <2>2. CASE k \notin DOMAIN records
    <3>1. PICK i \in report.findings : k = KeyOf(report, i)
      BY <2>2
    <3>2. <<i.id, i.of>> \in {<<j.id, j.of>> : j \in issuesAt(k)}
      BY <3>1
    <3> QED
      BY <1>1, <3>2
  <2> QED
    BY <2>1, <2>2
<1>4. IsRegister(added)
  BY <1>1, <1>2, <1>3 DEF IsRegister
<1>5. ASSUME NEW k \in DOMAIN records
      PROVE  /\ k \in DOMAIN added
             /\ added[k].severity >= records[k].severity
             /\ records[k].evidence \subseteq added[k].evidence
  BY <1>1, <1>2
<1>6. ASSUME NEW i \in report.findings PROVE IsRecorded(added, i)
  <2> DEFINE k == KeyOf(report, i)
  <2>1. k \in keys /\ i \in issuesAt(k)
    OBVIOUS
  <2>2. k.category = i.category /\ k.location = i.location
    BY DEF KeyOf
  <2> HIDE DEF k
  <2>3. <<i.id, i.of>> \in {<<j.id, j.of>> : j \in issuesAt(k)}
    BY <2>1
  <2>4. <<i.id, i.of>> \in added[k].evidence /\ added[k].severity >= i.severity
    <3> HIDE DEF keys, issuesAt, old
    <3> QED
      BY <1>1, <1>2, <2>1, <2>3
  <2> QED
    BY <1>1, <2>1, <2>2, <2>4 DEF IsRecorded
<1> QED
  BY <1>4, <1>5, <1>6 DEF added

\* What a capture shows for sure is on record once its report has been added.
LEMMA CaptureIsRecorded ==
    ASSUME NEW flows, \A n \in DOMAIN flows : flows[n] \in Flows, NEW allowed,
           NEW records, IsRegister(records)
    PROVE  LET report == Report([n \in DOMAIN flows |-> Stored(flows[n])], allowed)
               added == IF report.findings = {} THEN records ELSE AddReport(records, report)
           IN  /\ IsRegister(added)
               /\ \A i : IsIssue(i) /\ IsRecorded(records, i) => IsRecorded(added, i)
               /\ \A n \in DOMAIN flows : \A i \in ShowsForSure(flows[n]) : IsRecorded(added, i)
<1> DEFINE kept == [n \in DOMAIN flows |-> Stored(flows[n])]
           report == Report(kept, allowed)
           issues == UNION {FlowIssues(kept[n]) : n \in DOMAIN kept}
           added == IF report.findings = {} THEN records ELSE AddReport(records, report)
<1>1. report.findings = Dedupe(issues)
  BY DEF Report
<1>2. \A i \in issues : IsIssue(i)
  BY IssuesAreTyped
<1>3. \A n \in DOMAIN flows : ShowsForSure(flows[n]) \subseteq issues
  <2> SUFFICES ASSUME NEW n \in DOMAIN flows PROVE ShowsForSure(flows[n]) \subseteq issues
    OBVIOUS
  <2>1. ShowsForSure(flows[n]) \subseteq FlowIssues(kept[n])
    BY StoreKeepsWhatIsSure
  <2>2. FlowIssues(kept[n]) \subseteq issues
    OBVIOUS
  <2> QED
    BY <2>1, <2>2
<1> HIDE DEF report, issues
<1>4. \A i \in report.findings : IsIssue(i)
  BY <1>1, <1>2, DedupeKeepsTheWorst
<1>5. /\ IsRegister(added)
      /\ \A k \in DOMAIN records : /\ k \in DOMAIN added
                                    /\ added[k].severity >= records[k].severity
                                    /\ records[k].evidence \subseteq added[k].evidence
      /\ \A i \in report.findings : IsRecorded(added, i)
  <2>1. CASE report.findings = {}
    BY <2>1 DEF IsRegister
  <2>2. CASE report.findings # {}
    BY <1>4, <2>2, AddingRecords
  <2> QED
    BY <2>1, <2>2
<1> HIDE DEF added
<1>6. ASSUME NEW i, IsIssue(i), IsRecorded(records, i) PROVE IsRecorded(added, i)
  <2>1. PICK k \in DOMAIN records :
            /\ k.category = i.category /\ k.location = i.location
            /\ \E named \in records[k].evidence : named[1] = i.id
            /\ records[k].severity >= i.severity
    BY <1>6 DEF IsRecorded
  <2>2. added[k].severity \in 0..4 /\ records[k].severity \in 0..4 /\ i.severity \in 0..4
    BY <1>5, <1>6 DEF IsRegister, IsIssue
  <2>3. added[k].severity >= i.severity
    BY <1>5, <2>1, <2>2
  <2> QED
    BY <1>5, <2>1, <2>3 DEF IsRecorded
<1>7. ASSUME NEW i \in issues PROVE IsRecorded(added, i)
  <2>1. PICK j \in Dedupe(issues) : /\ j.id = i.id /\ j.location = i.location
                                    /\ j.category = i.category /\ j.severity >= i.severity
    BY <1>2, DedupeKeepsTheWorst
  <2>2. IsRecorded(added, j) /\ IsIssue(j) /\ IsIssue(i)
    BY <1>1, <1>2, <1>4, <1>5, <2>1
  <2>3. PICK k \in DOMAIN added :
            /\ k.category = j.category /\ k.location = j.location
            /\ \E named \in added[k].evidence : named[1] = j.id
            /\ added[k].severity >= j.severity
    BY <2>2 DEF IsRecorded
  <2>4. added[k].severity \in 0..4 /\ i.severity \in 0..4 /\ j.severity \in 0..4
    BY <1>5, <2>2 DEF IsRegister, IsIssue
  <2>5. added[k].severity >= i.severity
    BY <2>1, <2>3, <2>4
  <2> QED
    BY <2>1, <2>3, <2>5 DEF IsRecorded
<1> QED
  BY <1>3, <1>5, <1>6, <1>7 DEF added, report

\* A capture whose report is empty shows nothing.
LEMMA SilentShowsNothing ==
    ASSUME NEW flows, \A n \in DOMAIN flows : flows[n] \in Flows, NEW allowed,
           Report([n \in DOMAIN flows |-> Stored(flows[n])], allowed).findings = {},
           NEW n \in DOMAIN flows, NEW i \in ShowsForSure(flows[n])
    PROVE  FALSE
<1> DEFINE kept == [m \in DOMAIN flows |-> Stored(flows[m])]
           issues == UNION {FlowIssues(kept[m]) : m \in DOMAIN kept}
<1>1. Dedupe(issues) = {}
  BY DEF Report
<1>2. i \in FlowIssues(kept[n])
  BY StoreKeepsWhatIsSure
<1>3. i \in issues
  BY <1>2
<1> HIDE DEF issues
<1>4. Strongest(Twins(issues, i)) \in Dedupe(issues)
  BY <1>3 DEF Dedupe
<1> QED
  BY <1>1, <1>4

-----------------------------------------------------------------------------
(***************************************************************************)
(* The row, and every handler's copy of it, hold what their history says.  *)
(***************************************************************************)
Holds(r, flows) == \A flow \in flows : \A i \in ShowsForSure(flow) : IsRecorded(r, i)

CopiesHoldTheirPast ==
    \A h \in Uploaders : upload[h].busy =>
        upload[h].shown \subseteq Flows /\ Holds(upload[h].row, upload[h].shown)

RegistersAreSound ==
    IsRegister(attached) /\ \A h \in Uploaders : upload[h].busy => IsRegister(upload[h].row)

DeepscanIInv ==
    /\ DeepscanTypeOK
    /\ DOMAIN upload = Uploaders
    /\ shown \subseteq Flows
    /\ RegistersAreSound
    /\ CopiesHoldTheirPast
    /\ KindsSeenAreOnRecord

LEMMA SureIsAnIssue == ASSUME NEW flow, NEW i \in ShowsForSure(flow) PROVE IsIssue(i)
BY IssuesAreTyped DEF ShowsForSure

LEMMA ReadRowKeeps ==
    ASSUME DeepscanIInv, NEW h \in Uploaders, ReadRow(h) PROVE DeepscanIInv'
<1>1. PICK har \in HarFiles, allowed \in AllowLists :
          upload' = [upload EXCEPT ![h] = [busy |-> TRUE, har |-> har, allowed |-> allowed,
                                           row |-> attached, shown |-> shown]]
  BY DEF ReadRow
<1>2. UNCHANGED <<attached, shown>> /\ imports' = imports + 1 /\ imports < MaxImports
  BY DEF ReadRow
<1>3. /\ DOMAIN upload' = Uploaders
      /\ upload'[h] = [busy |-> TRUE, har |-> har, allowed |-> allowed, row |-> attached,
                       shown |-> shown]
      /\ \A g \in Uploaders \ {h} : upload'[g] = upload[g]
  BY <1>1 DEF DeepscanIInv
<1>4. DeepscanTypeOK'
  <2>1. imports' \in 0..MaxImports
    BY <1>2, DeepscanAssumption DEF DeepscanIInv, DeepscanTypeOK
  <2>2. \A g \in Uploaders : upload'[g].busy =>
            upload'[g].har \in HarFiles /\ upload'[g].allowed \in AllowLists
    BY <1>3 DEF DeepscanIInv, DeepscanTypeOK
  <2> QED
    BY <1>2, <2>1, <2>2 DEF DeepscanIInv, DeepscanTypeOK
<1>5. RegistersAreSound'
  BY <1>2, <1>3 DEF DeepscanIInv, RegistersAreSound, IsRegister
<1>6. CopiesHoldTheirPast'
  <2>1. Holds(attached, shown)
    BY DEF DeepscanIInv, KindsSeenAreOnRecord, OnRecord, Holds, IsRecorded
  <2>2. ASSUME NEW g \in Uploaders, upload'[g].busy
        PROVE  upload'[g].shown \subseteq Flows /\ Holds(upload'[g].row, upload'[g].shown)
    BY <1>3, <2>1, <2>2 DEF DeepscanIInv, CopiesHoldTheirPast
  <2> QED
    BY <2>2 DEF CopiesHoldTheirPast, Holds, IsRecorded, ShowsForSure
<1>7. KindsSeenAreOnRecord'
  BY <1>2 DEF DeepscanIInv, KindsSeenAreOnRecord, OnRecord
<1> QED
  BY <1>2, <1>3, <1>4, <1>5, <1>6, <1>7 DEF DeepscanIInv

LEMMA AttachKeeps ==
    ASSUME DeepscanIInv, NEW h \in Uploaders, AttachFindings(h) PROVE DeepscanIInv'
<1> DEFINE flows == FlowsOf(upload[h].har)
           records == upload[h].row
           report == Report([n \in DOMAIN flows |-> Stored(flows[n])], upload[h].allowed)
           added == IF report.findings = {} THEN records ELSE AddReport(records, report)
<1>1. /\ upload[h].busy
      /\ attached' = IF report.findings = {} THEN attached ELSE AddReport(records, report)
      /\ shown' = Range(flows) \union IF report.findings = {} THEN shown ELSE upload[h].shown
      /\ upload' = [upload EXCEPT ![h] = Idle] /\ imports' = imports
  BY DEF AttachFindings
<1>2. /\ DOMAIN upload' = Uploaders /\ upload'[h] = Idle /\ ~Idle.busy
      /\ \A g \in Uploaders \ {h} : upload'[g] = upload[g]
  BY <1>1 DEF DeepscanIInv, Idle
<1>3. \A n \in DOMAIN flows : flows[n] \in Flows
  <2>1. upload[h].har \in Seq(Flows)
    BY <1>1, DeepscanAssumption DEF DeepscanIInv, DeepscanTypeOK
  <2>2. \A n \in DOMAIN upload[h].har : upload[h].har[n] \in Flows
    BY <2>1, LenProperties, ElementOfSeq
  <2> QED
    BY <2>2 DEF FlowsOf
<1>4. Range(flows) = {flows[n] : n \in DOMAIN flows}
  BY DEF Range
<1>5. IsRegister(records)
  BY <1>1 DEF DeepscanIInv, RegistersAreSound
<1>6. /\ IsRegister(added)
      /\ \A i : IsIssue(i) /\ IsRecorded(records, i) => IsRecorded(added, i)
      /\ \A n \in DOMAIN flows : \A i \in ShowsForSure(flows[n]) : IsRecorded(added, i)
  <2> DEFINE allowed == upload[h].allowed
  <2> HIDE DEF flows, records, allowed
  <2>1. LET rep == Report([n \in DOMAIN flows |-> Stored(flows[n])], allowed)
            add == IF rep.findings = {} THEN records ELSE AddReport(records, rep)
        IN  /\ IsRegister(add)
            /\ \A i : IsIssue(i) /\ IsRecorded(records, i) => IsRecorded(add, i)
            /\ \A n \in DOMAIN flows : \A i \in ShowsForSure(flows[n]) : IsRecorded(add, i)
    BY <1>3, <1>5, CaptureIsRecorded
  <2> QED
    BY <2>1 DEF allowed
<1> HIDE DEF flows, report
<1>7. IsRegister(attached')
  BY <1>1, <1>6 DEF DeepscanIInv, RegistersAreSound
<1>8. RegistersAreSound'
  BY <1>2, <1>7 DEF DeepscanIInv, RegistersAreSound, IsRegister
<1>9. DeepscanTypeOK'
  <2>1. \A g \in Uploaders : upload'[g].busy =>
            upload'[g].har \in HarFiles /\ upload'[g].allowed \in AllowLists
    BY <1>2 DEF DeepscanIInv, DeepscanTypeOK
  <2> QED
    BY <1>1, <1>7, <2>1 DEF DeepscanIInv, DeepscanTypeOK, IsRegister
<1>10. upload[h].shown \subseteq Flows /\ Holds(records, upload[h].shown) /\ shown \subseteq Flows
  BY <1>1 DEF DeepscanIInv, CopiesHoldTheirPast
<1>11. shown' \subseteq Flows
  BY <1>1, <1>3, <1>4, <1>10
<1>12. CopiesHoldTheirPast'
  <2>1. ASSUME NEW g \in Uploaders, upload'[g].busy
        PROVE  upload'[g].shown \subseteq Flows /\ Holds(upload'[g].row, upload'[g].shown)
    BY <1>2, <2>1 DEF DeepscanIInv, CopiesHoldTheirPast
  <2> QED
    BY <2>1 DEF CopiesHoldTheirPast, Holds, IsRecorded
<1>13. Holds(attached', shown')
  <2>1. Holds(added, Range(flows))
    BY <1>4, <1>6 DEF Holds
  <2>2. CASE report.findings = {}
    <3>1. attached' = attached /\ shown' = Range(flows) \union shown
      BY <1>1, <2>2
    <3>2. \A n \in DOMAIN flows : ShowsForSure(flows[n]) = {}
      <4>1. ASSUME NEW n \in DOMAIN flows, NEW i \in ShowsForSure(flows[n]) PROVE FALSE
        BY <1>3, <2>2, <4>1, SilentShowsNothing DEF report
      <4> QED
        BY <4>1
    <3>3. Holds(attached, shown)
      BY DEF DeepscanIInv, KindsSeenAreOnRecord, OnRecord, Holds, IsRecorded
    <3> QED
      BY <1>4, <3>1, <3>2, <3>3 DEF Holds
  <2>3. CASE report.findings # {}
    <3>1. attached' = added /\ shown' = Range(flows) \union upload[h].shown
      BY <1>1, <2>3
    <3>2. ASSUME NEW flow \in upload[h].shown, NEW i \in ShowsForSure(flow)
          PROVE  IsRecorded(added, i)
      <4>1. IsRecorded(records, i) /\ IsIssue(i)
        BY <1>10, SureIsAnIssue DEF Holds
      <4> QED
        BY <1>6, <4>1
    <3> QED
      BY <2>1, <3>1, <3>2 DEF Holds
  <2> QED
    BY <2>2, <2>3
<1>14. KindsSeenAreOnRecord'
  BY <1>13 DEF KindsSeenAreOnRecord, OnRecord, Holds, IsRecorded
<1> QED
  BY <1>2, <1>8, <1>9, <1>11, <1>12, <1>14 DEF DeepscanIInv

(***************************************************************************)
(* The inductive invariant of captures imported by any number of handlers, *)
(* overlapping as they may.                                                *)
(***************************************************************************)
THEOREM DeepscanInvariance == DeepscanSpec => []DeepscanIInv
<1>1. DeepscanInit => DeepscanIInv
  <2> SUFFICES ASSUME DeepscanInit PROVE DeepscanIInv
    OBVIOUS
  <2>1. DOMAIN attached = {} /\ shown = {} /\ DOMAIN upload = Uploaders
    BY DEF DeepscanInit
  <2>2. \A h \in Uploaders : ~upload[h].busy
    BY DEF DeepscanInit, Idle
  <2>3. MaxImports \in Nat
    BY DeepscanAssumption
  <2>4. imports \in 0..MaxImports
    BY <2>3 DEF DeepscanInit
  <2>5. DeepscanTypeOK
    <3>1. \A k \in DOMAIN attached : attached[k].severity \in 0..4 /\ attached[k].evidence # {}
      BY <2>1
    <3> QED
      BY <2>2, <2>4, <3>1 DEF DeepscanTypeOK
  <2> QED
    BY <2>1, <2>2, <2>5
       DEF DeepscanIInv, RegistersAreSound, IsRegister, CopiesHoldTheirPast, KindsSeenAreOnRecord
<1>2. DeepscanIInv /\ [DeepscanNext]_deepscanVars => DeepscanIInv'
  <2> SUFFICES ASSUME DeepscanIInv, [DeepscanNext]_deepscanVars PROVE DeepscanIInv'
    OBVIOUS
  <2>1. CASE DeepscanNext
    BY <2>1, ReadRowKeeps, AttachKeeps DEF DeepscanNext
  <2>2. CASE UNCHANGED deepscanVars
    BY <2>2 DEF deepscanVars, DeepscanIInv, DeepscanTypeOK, RegistersAreSound, IsRegister,
                CopiesHoldTheirPast, Holds, IsRecorded, KindsSeenAreOnRecord, OnRecord
  <2> QED
    BY <2>1, <2>2
<1> QED
  BY <1>1, <1>2, PTL DEF DeepscanSpec

\* Captures, the allow-lists and the records of the engagement are typed.
THEOREM DeepscanTypeCorrect == DeepscanSpec => []DeepscanTypeOK
<1>1. DeepscanIInv => DeepscanTypeOK
  BY DEF DeepscanIInv
<1> QED
  BY <1>1, DeepscanInvariance, PTL

(***************************************************************************)
(* Every kind of issue the traffic showed at a place is on record, for any *)
(* captures, cap and number of handlers, but for what a cut body held and  *)
(* what an import attached while another one was about to write the row.   *)
(***************************************************************************)
THEOREM KindsAreKept == DeepscanSpec => []KindsSeenAreOnRecord
<1>1. DeepscanIInv => KindsSeenAreOnRecord
  BY DEF DeepscanIInv
<1> QED
  BY <1>1, DeepscanInvariance, PTL

-----------------------------------------------------------------------------
(***************************************************************************)
(* Imports.  What joins a record, and what stays of what was there.        *)
(***************************************************************************)
LEMMA MergedFinding ==
    ASSUME NEW f, IsFinding(f), NEW others, \A o \in others : IsFinding(o)
    PROVE  LET g == MergeSource(f, others)
           IN  /\ IsFinding(g) /\ DedupKey(g) = DedupKey(f)
               /\ \A o \in {f} \union others : o.tools \subseteq g.tools /\ o.severity <= g.severity
               /\ \E o \in {f} \union others : o.severity = g.severity
<1> DEFINE all == {f} \union others
           S == {o.severity : o \in all}
           g == MergeSource(f, others)
<1>1. Max(S) \in S /\ \A s \in S : s <= Max(S)
  <2>1. S \in SUBSET (0..4) /\ S # {}
    BY DEF IsFinding, Severities
  <2> HIDE DEF S
  <2>2. S \in SUBSET Int /\ S \in SUBSET Nat /\ \A v \in S : v <= 4
    BY <2>1
  <2>3. IsFiniteSet(S)
    BY <2>2, FS_BoundedSetOfNaturals
  <2> QED
    BY <2>1, <2>2, <2>3, LeastAndGreatest
<1>2. Max(S) \in Severities
  BY <1>1 DEF IsFinding
<1> DEFINE most == Max(S)
           every == UNION {o.tools : o \in all}
<1>3. g = [f EXCEPT !.tools = every, !.severity = most]
  BY DEF MergeSource
<1> HIDE DEF g, most, every
<1>4. f = NewFinding(f.asset, f.title, f.category, f.severity, f.location, f.cwe, f.tools)
  BY DEF IsFinding
<1>5. g = NewFinding(f.asset, f.title, f.category, most, f.location, f.cwe, every)
  <2>1. DOMAIN f = {"asset", "title", "category", "severity", "location", "cwe", "tools"}
    BY <1>4 DEF NewFinding
  <2> QED
    BY <1>3, <2>1 DEF NewFinding
<1>6. /\ g.asset = f.asset /\ g.title = f.title /\ g.category = f.category /\ g.severity = most
      /\ g.location = f.location /\ g.cwe = f.cwe /\ g.tools = every
  BY <1>5 DEF NewFinding
<1>7. IsFinding(g)
  BY <1>2, <1>5, <1>6 DEF IsFinding, most
<1>8. DedupKey(g) = DedupKey(f)
  BY <1>6 DEF DedupKey
<1>9. \A o \in all : o.tools \subseteq every
  BY DEF every
<1>10. (\A o \in all : o.severity <= most) /\ \E o \in all : o.severity = most
  BY <1>1 DEF most
<1> QED
  BY <1>6, <1>7, <1>8, <1>9, <1>10 DEF g

\* A register of records under their keys.
IsIndex(index) ==
    /\ IsFiniteSet(DOMAIN index)
    /\ \A k \in DOMAIN index : IsFinding(index[k]) /\ DedupKey(index[k]) = k

\* Findings among which the ones of a key have a first one.
Ordered(findings) ==
    \A k : LET places == {n \in DOMAIN findings : DedupKey(findings[n]) = k}
           IN  places # {} => \E n \in places : \A m \in places \ {n} : n < m

\* The findings of a key, among those added and in a register.
Joining(findings, k) == {findings[n] : n \in {m \in DOMAIN findings : DedupKey(findings[m]) = k}}
Registered(index, k) == IF k \in DOMAIN index THEN {index[k]} ELSE {}

\* A register that findings have been added to.
Joins(index, findings, joined) ==
    /\ IsIndex(joined)
    /\ DOMAIN joined = DOMAIN index \union {DedupKey(findings[n]) : n \in DOMAIN findings}
    /\ \A k \in DOMAIN joined :
         LET all == Registered(index, k) \union Joining(findings, k)
         IN  /\ \A o \in all : o.tools \subseteq joined[k].tools /\ o.severity <= joined[k].severity
             /\ \E o \in all : o.severity = joined[k].severity

LEMMA FindingsJoin ==
    ASSUME NEW index, IsIndex(index), NEW findings, IsFiniteSet(DOMAIN findings),
           \A n \in DOMAIN findings : IsFinding(findings[n]), Ordered(findings)
    PROVE  Joins(index, findings, AddFindings(index, findings))
<1> DEFINE keys == {DedupKey(findings[n]) : n \in DOMAIN findings}
           places(k) == {n \in DOMAIN findings : DedupKey(findings[n]) = k}
           joining(k) == {findings[n] : n \in places(k)}
           before(k) == IF k \in DOMAIN index THEN {index[k]} ELSE {}
           first(k) == CHOOSE n \in places(k) : \A m \in places(k) \ {n} : n < m
           start(k) == IF k \in DOMAIN index THEN index[k] ELSE findings[first(k)]
           joined == AddFindings(index, findings)
<1>1. joined = [k \in DOMAIN index \union keys |-> MergeSource(start(k), joining(k))]
  BY DEF AddFindings
<1>2. IsFiniteSet(DOMAIN index \union keys)
  <2> DEFINE keyOf == [n \in DOMAIN findings |-> DedupKey(findings[n])]
  <2>1. keyOf \in Surjection(DOMAIN findings, keys)
    BY DEF Surjection
  <2>2. IsFiniteSet(keys)
    BY <2>1, FS_Surjection
  <2> QED
    BY <2>2, FS_Union DEF IsIndex
<1>3. ASSUME NEW k \in DOMAIN index \union keys
      PROVE  /\ IsFinding(start(k)) /\ DedupKey(start(k)) = k
             /\ {start(k)} \union joining(k) = before(k) \union joining(k)
  <2>1. CASE k \in DOMAIN index
    BY <2>1 DEF IsIndex
  <2>2. CASE k \notin DOMAIN index
    <3>1. places(k) # {}
      BY <2>2
    <3>2. \E n \in places(k) : \A m \in places(k) \ {n} : n < m
      BY <3>1 DEF Ordered
    <3>3. first(k) \in places(k)
      BY <3>2
    <3> HIDE DEF first
    <3>4. start(k) = findings[first(k)]
      BY <2>2
    <3> QED
      BY <2>2, <3>3, <3>4
  <2> QED
    BY <2>1, <2>2
<1>4. ASSUME NEW k \in DOMAIN index \union keys
      PROVE  /\ IsFinding(joined[k]) /\ DedupKey(joined[k]) = k
             /\ \A o \in before(k) \union joining(k) :
                  o.tools \subseteq joined[k].tools /\ o.severity <= joined[k].severity
             /\ \E o \in before(k) \union joining(k) : o.severity = joined[k].severity
  <2>1. joined[k] = MergeSource(start(k), joining(k))
    BY <1>1
  <2>2. \A o \in joining(k) : IsFinding(o)
    OBVIOUS
  <2> HIDE DEF start, joining, before, joined
  <2> QED
    BY <1>3, <2>1, <2>2, MergedFinding
<1>5. DOMAIN joined = DOMAIN index \union keys
  BY <1>1
<1>6. IsIndex(joined)
  BY <1>2, <1>4, <1>5 DEF IsIndex
<1>7. \A k : joining(k) = Joining(findings, k) /\ before(k) = Registered(index, k)
  BY DEF Joining, Registered
<1> HIDE DEF joined, joining, before
<1>8. Joins(index, findings, joined)
  BY <1>4, <1>5, <1>6, <1>7 DEF Joins
<1> QED
  BY <1>8 DEF joined

-----------------------------------------------------------------------------
(***************************************************************************)
(* Imports.  What the importers make of a row.                             *)
(***************************************************************************)
LEMMA NewFindingIs ==
    ASSUME NEW kind, NEW target, NEW title, NEW category, NEW severity \in Severities,
           NEW location, NEW cwe, NEW tools
    PROVE  IsFinding(NewFinding(MakeAsset(kind, target), title, category, severity, location,
                                cwe, tools))
<1> DEFINE f == NewFinding(MakeAsset(kind, target), title, category, severity, location, cwe, tools)
<1>1. /\ f.asset = MakeAsset(kind, target) /\ f.title = title /\ f.category = category
      /\ f.severity = severity /\ f.location = location /\ f.cwe = cwe /\ f.tools = tools
  BY DEF NewFinding
<1>2. f = NewFinding(f.asset, f.title, f.category, f.severity, f.location, f.cwe, f.tools)
  BY <1>1
<1>3. /\ f.asset = [type |-> f.asset.type, identifier |-> f.asset.identifier]
      /\ f.asset.type # "none"
  BY <1>1 DEF MakeAsset
<1> QED
  BY <1>1, <1>2, <1>3 DEF IsFinding

LEMMA SeverityIsKnown ==
    ASSUME NEW label, NEW score \in Int, label.level \in Severities, label.score \in Int
    PROVE  NormalizeSeverity(label, score) \in Severities
<1>1. \A s \in Int : SeverityFromCvss(s) \in Severities
  BY DEF SeverityFromCvss, Severities
<1> QED
  BY <1>1 DEF NormalizeSeverity

\* Every finding an importer makes is one.
LEMMA ParsedAreFindings ==
    ASSUME NEW tool \in Importers, NEW row \in Rows[tool], NEW f \in Parse(tool, row)
    PROVE  IsFinding(f)
<1> USE ImportsAssumption
<1>1. {0, 1, 2, 3} \subseteq Severities /\ \A s \in Int : SeverityFromCvss(s) \in Severities
  BY DEF SeverityFromCvss, Severities
<1>2. CASE tool = "nessus"
  <2>1. f \in FromNessus(row)
    BY <1>2 DEF Parse
  <2>2. NormalizeSeverity(row.risk, row.score) \in Severities
    BY <1>2, SeverityIsKnown
  <2> QED
    BY <2>1, <2>2, NewFindingIs DEF FromNessus
<1>3. CASE tool = "nuclei"
  <2>1. f \in FromNuclei(row)
    BY <1>3 DEF Parse
  <2>2. NormalizeSeverity(row.label, row.score) \in Severities
    BY <1>3, SeverityIsKnown
  <2> QED
    BY <2>1, <2>2, NewFindingIs DEF FromNuclei
<1>4. CASE tool = "zap"
  <2>1. f \in FromZap(row)
    BY <1>4 DEF Parse
  <2>2. (IF row.riskcode \in 0..3 THEN row.riskcode ELSE 0) \in Severities
    BY DEF Severities
  <2> QED
    BY <2>1, <2>2, NewFindingIs DEF FromZap
<1>5. CASE tool = "trivy"
  <2>1. f \in FromTrivy(row)
    BY <1>5 DEF Parse
  <2>2. NormalizeSeverity(row.label, -1) \in Severities
    BY <1>5, SeverityIsKnown
  <2> QED
    BY <2>1, <2>2, NewFindingIs DEF FromTrivy
<1>6. CASE tool = "prowler"
  <2>1. row.failed /\ f \in FromProwler(row)
    BY <1>6 DEF Parse, FromProwler
  <2>2. NormalizeSeverity(row.label, -1) \in Severities
    BY <1>6, SeverityIsKnown
  <2> QED
    BY <2>1, <2>2, NewFindingIs DEF FromProwler
<1>7. CASE tool = "kube-bench"
  <2>1. row.status \in {"fail", "warn"} /\ f \in FromKubeBench(row)
    BY <1>7 DEF Parse, FromKubeBench
  <2>2. (IF row.status = "warn" THEN 1 ELSE IF row.scored THEN 3 ELSE 2) \in Severities
    BY <1>1
  <2> QED
    BY <2>1, <2>2, NewFindingIs DEF FromKubeBench
<1>8. CASE tool = "sarif"
  <2>1. f \in FromSarif(row)
    BY <1>8 DEF Parse
  <2>2. row.level \in Severities /\ row.score \in Int
    BY <1>8
  <2>3. (CASE row.severity \in Severities -> row.severity
           [] row.severity \notin Severities /\ row.score >= 0 -> SeverityFromCvss(row.score)
           [] OTHER -> row.level) \in Severities
    BY <1>1, <2>2
  <2> QED
    BY <2>1, <2>3, NewFindingIs DEF FromSarif
<1>9. CASE tool = "generic-json"
  <2>1. f \in FromGenericJson(row)
    BY <1>9 DEF Parse
  <2>2. CASE row.native
    BY <1>9, <2>1, <2>2 DEF FromGenericJson
  <2>3. CASE ~row.native
    <3>1. NormalizeSeverity(row.label, row.score) \in Severities
      BY <1>9, <2>3, SeverityIsKnown
    <3>2. row.titled
      BY <2>1, <2>3 DEF FromGenericJson
    <3> QED
      BY <2>1, <2>3, <3>1, <3>2, NewFindingIs DEF FromGenericJson
  <2> QED
    BY <2>2, <2>3
<1> QED
  BY <1>2, <1>3, <1>4, <1>5, <1>6, <1>7, <1>8, <1>9 DEF Importers

LEMMA ParsedIsOne ==
    ASSUME NEW tool \in Importers, NEW row, NEW f \in Parse(tool, row), NEW g \in Parse(tool, row)
    PROVE  f = g
<1>1. CASE tool \in {"nessus", "nuclei", "zap", "trivy"}
  BY <1>1 DEF Parse, FromNessus, FromNuclei, FromZap, FromTrivy
<1>2. CASE tool = "prowler"
  BY <1>2 DEF Parse, FromProwler
<1>3. CASE tool = "kube-bench"
  BY <1>3 DEF Parse, FromKubeBench
<1>4. CASE tool = "sarif"
  BY <1>4 DEF Parse, FromSarif
<1>5. CASE tool = "generic-json"
  BY <1>5 DEF Parse, FromGenericJson
<1> QED
  BY <1>1, <1>2, <1>3, <1>4, <1>5 DEF Importers

LEMMA StampedFinding ==
    ASSUME NEW f, IsFinding(f), NEW tool
    PROVE  /\ IsFinding(Stamp(f, tool)) /\ DedupKey(Stamp(f, tool)) = DedupKey(f)
           /\ f.tools \subseteq Stamp(f, tool).tools /\ Stamp(f, tool).severity = f.severity
<1> DEFINE tools == f.tools \union {IF tool = "generic-json" THEN "imported-json" ELSE tool}
           g == Stamp(f, tool)
<1>1. f = NewFinding(f.asset, f.title, f.category, f.severity, f.location, f.cwe, f.tools)
  BY DEF IsFinding
<1>2. g = NewFinding(f.asset, f.title, f.category, f.severity, f.location, f.cwe, tools)
  <2>1. DOMAIN f = {"asset", "title", "category", "severity", "location", "cwe", "tools"}
    BY <1>1 DEF NewFinding
  <2>2. g = [f EXCEPT !.tools = tools]
    BY DEF Stamp
  <2> HIDE DEF g, tools
  <2> QED
    BY <2>1, <2>2 DEF NewFinding
<1> HIDE DEF g
<1>3. /\ g.asset = f.asset /\ g.title = f.title /\ g.category = f.category
      /\ g.severity = f.severity /\ g.location = f.location /\ g.cwe = f.cwe /\ g.tools = tools
  BY <1>2 DEF NewFinding
<1>4. IsFinding(g)
  BY <1>2, <1>3 DEF IsFinding
<1>5. DedupKey(g) = DedupKey(f)
  BY <1>3 DEF DedupKey
<1> QED
  BY <1>3, <1>4, <1>5 DEF g

LEMMA ListOfASet ==
    ASSUME NEW S, IsFiniteSet(S) PROVE SetToSeq(S) \in [1..Cardinality(S) -> S]
<1>1. ExistsBijection(1..Cardinality(S), S)
  BY FS_CardinalityType
<1>2. \E f \in [1..Cardinality(S) -> S] : IsInjective(f)
  BY <1>1 DEF ExistsBijection, Bijection, Injection, IsInjective
<1> QED
  BY <1>2 DEF SetToSeq

-----------------------------------------------------------------------------
(***************************************************************************)
(* Imports.  A report, and how it joins the engagement.                    *)
(***************************************************************************)
\* What the rows of a report say.
Reported(tool, rows) == UNION {Parse(tool, rows[m]) : m \in DOMAIN rows}

\* The register of what a report has.
Reads(found, reported) ==
    /\ IsIndex(found)
    /\ DOMAIN found = {DedupKey(f) : f \in reported}
    /\ \A f \in reported : /\ f.tools \subseteq found[DedupKey(f)].tools
                           /\ f.severity <= found[DedupKey(f)].severity
    /\ \A k \in DOMAIN found :
         \E f \in reported : DedupKey(f) = k /\ f.severity = found[k].severity

LEMMA ReportIsRead ==
    ASSUME NEW tool \in Importers, DetectImporter(tool) = tool, NEW n \in Nat, NEW R,
           \A r \in R : \A f \in Parse(tool, r) : IsFinding(f), NEW rows \in [1..n -> R]
    PROVE  Reads(ImportFindings(tool, rows), Reported(tool, rows))
<1> DEFINE reported == UNION {Parse(tool, rows[m]) : m \in DOMAIN rows}
           places == {m \in DOMAIN rows : Parse(tool, rows[m]) # {}}
           raw == [m \in places |-> CHOOSE f \in Parse(tool, rows[m]) : TRUE]
           stamped == [m \in places |-> Stamp(raw[m], tool)]
           found == ImportFindings(tool, rows)
<1>1. found = AddFindings(<< >>, stamped)
  <2>1. DOMAIN raw = places
    OBVIOUS
  <2>2. found = AddFindings(<< >>, [m \in DOMAIN raw |-> Stamp(raw[m], tool)])
    BY DEF ImportFindings
  <2> QED
    BY <2>1, <2>2
<1>2. places \in SUBSET (1..n) /\ places \in SUBSET Nat /\ DOMAIN rows = 1..n
  OBVIOUS
<1>3. IsFiniteSet(places)
  BY <1>2, FS_BoundedSetOfNaturals
<1>4. ASSUME NEW m \in places
      PROVE  /\ raw[m] \in Parse(tool, rows[m]) /\ IsFinding(raw[m]) /\ raw[m] \in reported
             /\ \A f \in Parse(tool, rows[m]) : f = raw[m]
             /\ IsFinding(stamped[m]) /\ DedupKey(stamped[m]) = DedupKey(raw[m])
             /\ raw[m].tools \subseteq stamped[m].tools /\ stamped[m].severity = raw[m].severity
  <2>1. raw[m] \in Parse(tool, rows[m])
    OBVIOUS
  <2>2. IsFinding(raw[m]) /\ raw[m] \in reported
    BY <2>1, <1>2
  <2>3. \A f \in Parse(tool, rows[m]) : f = raw[m]
    BY <2>1, ParsedIsOne
  <2>4. stamped[m] = Stamp(raw[m], tool)
    OBVIOUS
  <2> HIDE DEF raw, stamped, reported
  <2> QED
    BY <2>1, <2>2, <2>3, <2>4, StampedFinding
<1>5. \A f \in reported : \E m \in places : f = raw[m]
  <2> SUFFICES ASSUME NEW f \in reported PROVE \E m \in places : f = raw[m]
    OBVIOUS
  <2>1. PICK m \in DOMAIN rows : f \in Parse(tool, rows[m])
    OBVIOUS
  <2>2. m \in places
    BY <2>1
  <2> HIDE DEF raw, stamped, reported, places
  <2> QED
    BY <1>4, <2>1, <2>2
<1>6. DOMAIN stamped = places
  OBVIOUS
<1> HIDE DEF raw, stamped, reported, found, places
<1>7. Ordered(stamped)
  <2> SUFFICES ASSUME NEW k, {m \in DOMAIN stamped : DedupKey(stamped[m]) = k} # {}
               PROVE  \E i \in {m \in DOMAIN stamped : DedupKey(stamped[m]) = k} :
                         \A m \in {m \in DOMAIN stamped : DedupKey(stamped[m]) = k} \ {i} : i < m
    BY DEF Ordered
  <2> DEFINE S == {m \in DOMAIN stamped : DedupKey(stamped[m]) = k}
  <2>1. S \subseteq places /\ S # {}
    BY <1>6
  <2> HIDE DEF S
  <2>2. IsFiniteSet(S) /\ S \in SUBSET Int
    <3>1. S \in SUBSET places
      BY <2>1
    <3>2. IsFiniteSet(S)
      BY <1>3, <3>1, FS_Subset
    <3> QED
      BY <1>2, <3>1, <3>2
  <2>3. Min(S) \in S /\ \A y \in S : Min(S) <= y
    BY <2>1, <2>2, LeastAndGreatest
  <2>4. \A m \in S \ {Min(S)} : Min(S) < m
    <3> SUFFICES ASSUME NEW m \in S \ {Min(S)} PROVE Min(S) < m
      OBVIOUS
    <3>1. Min(S) \in Int /\ m \in Int /\ Min(S) <= m /\ Min(S) # m
      BY <2>2, <2>3
    <3> QED
      BY <3>1
  <2> QED
    BY <2>3, <2>4 DEF S
<1>8. IsIndex(<< >>) /\ DOMAIN << >> = {}
  BY FS_EmptySet DEF IsIndex
<1>9. IsFiniteSet(DOMAIN stamped) /\ \A m \in DOMAIN stamped : IsFinding(stamped[m])
  BY <1>3, <1>4, <1>6
<1>10. /\ IsIndex(found)
       /\ DOMAIN found = {DedupKey(stamped[m]) : m \in DOMAIN stamped}
       /\ \A k \in DOMAIN found :
            /\ \A o \in Joining(stamped, k) : o.tools \subseteq found[k].tools
                                              /\ o.severity <= found[k].severity
            /\ \E o \in Joining(stamped, k) : o.severity = found[k].severity
  <2>1. Joins(<< >>, stamped, found)
    BY <1>1, <1>7, <1>8, <1>9, FindingsJoin
  <2>2. \A k : Registered(<< >>, k) = {}
    BY <1>8 DEF Registered
  <2> QED
    BY <1>8, <2>1, <2>2 DEF Joins
<1>11. DOMAIN found = {DedupKey(f) : f \in reported}
  <2>1. \A f \in reported : \E m \in places : DedupKey(f) = DedupKey(stamped[m])
    BY <1>4, <1>5
  <2>2. \A m \in places : \E f \in reported : DedupKey(f) = DedupKey(stamped[m])
    BY <1>4
  <2> QED
    BY <1>6, <1>10, <2>1, <2>2
<1>12. ASSUME NEW f \in reported
       PROVE  /\ f.tools \subseteq found[DedupKey(f)].tools
              /\ f.severity <= found[DedupKey(f)].severity
  <2>1. PICK m \in places : f = raw[m]
    BY <1>5
  <2>2. stamped[m] \in Joining(stamped, DedupKey(f)) /\ DedupKey(f) \in DOMAIN found
    BY <1>4, <1>6, <1>11, <2>1 DEF Joining
  <2>3. /\ stamped[m].tools \subseteq found[DedupKey(f)].tools
        /\ stamped[m].severity <= found[DedupKey(f)].severity
    BY <1>10, <2>2
  <2> QED
    BY <1>4, <2>1, <2>3
<1>13. ASSUME NEW k \in DOMAIN found
       PROVE  \E f \in reported : DedupKey(f) = k /\ f.severity = found[k].severity
  <2>1. PICK o \in Joining(stamped, k) : o.severity = found[k].severity
    BY <1>10
  <2>2. PICK m \in places : o = stamped[m] /\ DedupKey(stamped[m]) = k
    BY <1>6, <2>1 DEF Joining
  <2> QED
    BY <1>4, <2>1, <2>2
<1>14. Reads(found, reported)
  BY <1>10, <1>11, <1>12, <1>13 DEF Reads
<1> QED
  BY <1>14 DEF found, reported, Reported

\* A register that another one has joined.
Extended(index, found, joined) ==
    /\ IsIndex(joined) /\ DOMAIN joined = DOMAIN index \union DOMAIN found
    /\ \A k \in DOMAIN index : /\ index[k].tools \subseteq joined[k].tools
                               /\ index[k].severity <= joined[k].severity
    /\ \A k \in DOMAIN found : /\ found[k].tools \subseteq joined[k].tools
                               /\ found[k].severity <= joined[k].severity
    /\ \A k \in DOMAIN joined :
         \/ k \in DOMAIN index /\ index[k].severity = joined[k].severity
         \/ k \in DOMAIN found /\ found[k].severity = joined[k].severity

LEMMA IndexesJoin ==
    ASSUME NEW index, IsIndex(index), NEW found, IsIndex(found)
    PROVE  Extended(index, found, AddFindings(index, found))
<1> DEFINE joined == AddFindings(index, found)
<1>1. Ordered(found)
  <2>1. \A k, n, m : n \in DOMAIN found /\ m \in DOMAIN found
                     /\ DedupKey(found[n]) = k /\ DedupKey(found[m]) = k => n = m
    BY DEF IsIndex
  <2> QED
    BY <2>1 DEF Ordered
<1>2. {DedupKey(found[n]) : n \in DOMAIN found} = DOMAIN found
  BY DEF IsIndex
<1>3. \A k : Joining(found, k) = IF k \in DOMAIN found THEN {found[k]} ELSE {}
  BY DEF IsIndex, Joining
<1>4. IsFiniteSet(DOMAIN found) /\ \A n \in DOMAIN found : IsFinding(found[n])
  BY DEF IsIndex
<1>5. Joins(index, found, joined)
  BY <1>1, <1>4, FindingsJoin
<1> HIDE DEF joined
<1>6. IsIndex(joined) /\ DOMAIN joined = DOMAIN index \union DOMAIN found
  BY <1>2, <1>5 DEF Joins
<1>7. \A k \in DOMAIN joined :
         /\ \A o \in Registered(index, k) \union Joining(found, k) :
              o.tools \subseteq joined[k].tools /\ o.severity <= joined[k].severity
         /\ \E o \in Registered(index, k) \union Joining(found, k) : o.severity = joined[k].severity
  BY <1>5 DEF Joins
<1>8. Extended(index, found, joined)
  BY <1>3, <1>6, <1>7 DEF Extended, Registered
<1> QED
  BY <1>8 DEF joined

-----------------------------------------------------------------------------
(***************************************************************************)
(* Imports.  The program's own export.                                     *)
(***************************************************************************)
LEMMA ExportIsRead ==
    ASSUME NEW f, IsFinding(f)
    PROVE  /\ \A g \in Parse("sarif", ToSarif(f)) : IsFinding(g)
           /\ ComesBack(f) =>
                \A g \in Parse("sarif", ToSarif(f)) :
                    DedupKey(g) = DedupKey(f) /\ g.severity = f.severity
<1> DEFINE r == ToSarif(f)
<1>1. /\ r.asset_type = f.asset.type /\ r.uri = f.asset.identifier
      /\ r.category = f.category /\ r.ruleCategory = f.category /\ r.severity = f.severity
      /\ r.location = f.location
  BY DEF ToSarif
<1> HIDE DEF r
<1> SUFFICES ASSUME NEW g \in FromSarif(r)
             PROVE  /\ IsFinding(g)
                    /\ ComesBack(f) => DedupKey(g) = DedupKey(f) /\ g.severity = f.severity
  BY DEF Parse, r
<1>2. f.severity \in Severities /\ f.asset.type # "none"
      /\ f.asset = [type |-> f.asset.type, identifier |-> f.asset.identifier]
  BY DEF IsFinding
<1>3. (CASE r.severity \in Severities -> r.severity
         [] r.severity \notin Severities /\ r.score >= 0 -> SeverityFromCvss(r.score)
         [] OTHER -> r.level) = f.severity
  BY <1>1, <1>2
<1>4. IsFinding(g)
  BY <1>2, <1>3, NewFindingIs DEF FromSarif
<1>5. /\ g.severity = f.severity
      /\ g.location = IF r.location # "none" THEN r.location ELSE r.uri
      /\ g.asset = MakeAsset(IF r.asset_type = "none" THEN "infra" ELSE r.asset_type,
                             IF r.uri = "none" THEN r.driver ELSE r.uri)
  BY <1>3 DEF FromSarif, NewFinding
<1>6. CASE ComesBack(f)
  <2>1. g.asset = f.asset /\ g.location = f.location
    BY <1>1, <1>2, <1>5, <1>6 DEF ComesBack, MakeAsset
  <2>2. f.category \in Shaped /\ f.category # "none"
    BY <1>6, ImportsAssumption DEF ComesBack, Shaped
  <2>3. g.category = f.category
    <3> DEFINE candidates ==
            [n \in 1..3 |-> LET c == <<r.category, r.ruleCategory, r.ruleId>>[n]
                            IN IF c \in Shaped THEN c ELSE "none"]
    <3>1. candidates[1] = f.category /\ DOMAIN candidates = 1..3
      BY <1>1, <2>2
    <3>2. \A n \in 1..3 : n # 1 => 1 \in 1..(n - 1)
      OBVIOUS
    <3> HIDE DEF candidates
    <3>3. FirstKnown(candidates) = f.category
      <4>1. \A n \in DOMAIN candidates :
               candidates[n] # "none" /\ (\A m \in 1..(n - 1) : candidates[m] = "none") <=> n = 1
        BY <2>2, <3>1, <3>2
      <4>2. (CHOOSE n \in DOMAIN candidates :
               candidates[n] # "none" /\ \A m \in 1..(n - 1) : candidates[m] = "none") = 1
        BY <3>1, <4>1
      <4> QED
        BY <2>2, <3>1, <4>2 DEF FirstKnown
    <3>4. g.category = FirstKnown(candidates)
      BY <1>1, <2>2 DEF FromSarif, NewFinding, candidates
    <3> QED
      BY <3>3, <3>4
  <2> QED
    BY <1>4, <1>5, <2>1, <2>2, <2>3 DEF DedupKey
<1> QED
  BY <1>4, <1>5, <1>6

LEMMA OwnExportIsSarif == DetectImporter("sarif") = "sarif" /\ "sarif" \in Importers
<1>1. Claimants("sarif") = {"sarif"}
  BY DEF Claimants
<1>2. DetectPriority("sarif") <= DetectPriority("sarif")
  BY DEF DetectPriority
<1> QED
  BY <1>1, <1>2 DEF DetectImporter, Importers

\* Whether a record comes back is written in its key.
LEMMA KeysComeBack ==
    ASSUME NEW f, NEW g, DedupKey(f) = DedupKey(g), ComesBack(f) PROVE ComesBack(g)
<1>1. f.asset = g.asset /\ f.category = g.category /\ f.location = g.location
  BY DEF DedupKey
<1> QED
  BY <1>1 DEF ComesBack

-----------------------------------------------------------------------------
ImportIInv ==
    /\ IsIndex(register)
    /\ \A f \in everReported : IsFinding(f)
    /\ reports \in 0..MaxReports
    /\ ReportsAddUp

LEMMA ImportStarts == ImportInit => ImportIInv
<1> SUFFICES ASSUME ImportInit PROVE ImportIInv
  OBVIOUS
<1>1. IsIndex(register) /\ DOMAIN register = {}
  BY FS_EmptySet DEF ImportInit, IsIndex
<1>2. reports \in 0..MaxReports
  BY ImportsAssumption DEF ImportInit
<1> QED
  BY <1>1, <1>2 DEF ImportInit, ImportIInv, ReportsAddUp

LEMMA SeverityIsANumber == \A f : IsFinding(f) => f.severity \in Int
  BY DEF IsFinding, Severities

LEMMA IngestScanKeeps ==
    ASSUME ImportIInv, NEW tool \in Importers, NEW n \in 1..MaxRows,
           NEW rows \in [1..n -> Rows[tool]], IngestScan(tool, rows)
    PROVE  ImportIInv'
<1> DEFINE found == ImportFindings(tool, rows)
           reported == Reported(tool, rows)
<1>1. /\ DOMAIN found # {}
      /\ register' = AddFindings(register, found)
      /\ everReported' = everReported \union reported
      /\ reports < MaxReports /\ reports' = reports + 1
  BY DEF IngestScan, Reported
<1>2. DetectImporter(tool) = tool
  <2>1. DOMAIN << >> = {}
    OBVIOUS
  <2> QED
    BY <1>1, <2>1 DEF ImportFindings
<1>3. \A r \in Rows[tool] : \A f \in Parse(tool, r) : IsFinding(f)
  BY ParsedAreFindings
<1>4. n \in Nat
  BY ImportsAssumption
<1>5. Reads(found, reported)
  BY <1>2, <1>3, <1>4, ReportIsRead
<1>6. \A f \in reported : IsFinding(f)
  BY <1>3 DEF Reported
<1> HIDE DEF found, reported
<1>7. Extended(register, found, register')
  BY <1>1, <1>5, IndexesJoin DEF ImportIInv, Reads
<1>8. reports' \in 0..MaxReports
  BY <1>1, ImportsAssumption DEF ImportIInv
<1>9. \A f \in everReported' : IsFinding(f)
  BY <1>1, <1>6 DEF ImportIInv
<1>10. ASSUME NEW f \in everReported'
       PROVE  /\ DedupKey(f) \in DOMAIN register'
              /\ f.tools \subseteq register'[DedupKey(f)].tools
              /\ f.severity <= register'[DedupKey(f)].severity
  <2> DEFINE k == DedupKey(f)
  <2>1. \A i \in DOMAIN register : register[i].severity \in Int
    BY SeverityIsANumber DEF ImportIInv, IsIndex
  <2>2. \A i \in DOMAIN found : found[i].severity \in Int
    BY <1>5, SeverityIsANumber DEF Reads, IsIndex
  <2>3. \A i \in DOMAIN register' : register'[i].severity \in Int
    BY <1>7, SeverityIsANumber DEF Extended, IsIndex
  <2>4. f.severity \in Int
    BY <1>9, SeverityIsANumber
  <2>5. CASE f \in everReported
    <3>1. /\ k \in DOMAIN register /\ f.tools \subseteq register[k].tools
          /\ f.severity <= register[k].severity
      BY <2>5 DEF ImportIInv, ReportsAddUp
    <3> QED
      BY <1>7, <2>1, <2>3, <2>4, <3>1 DEF Extended
  <2>6. CASE f \in reported
    <3>1. /\ k \in DOMAIN found /\ f.tools \subseteq found[k].tools
          /\ f.severity <= found[k].severity
      BY <1>5, <2>6 DEF Reads
    <3> QED
      BY <1>7, <2>2, <2>3, <2>4, <3>1 DEF Extended
  <2> QED
    BY <1>1, <2>5, <2>6
<1>11. ASSUME \A f \in everReported' : ComesBack(f)
       PROVE  LET keys == {DedupKey(f) : f \in everReported'}
              IN  /\ DOMAIN register' = keys
                  /\ \A k \in keys : \E f \in everReported' :
                       DedupKey(f) = k /\ f.severity = register'[k].severity
  <2>1. \A f \in everReported : ComesBack(f)
    BY <1>1, <1>11
  <2>2. /\ DOMAIN register = {DedupKey(f) : f \in everReported}
        /\ \A k \in DOMAIN register : \E f \in everReported :
             DedupKey(f) = k /\ f.severity = register[k].severity
    BY <2>1 DEF ImportIInv, ReportsAddUp
  <2>3. DOMAIN register' = {DedupKey(f) : f \in everReported'}
    BY <1>1, <1>5, <1>7, <2>2 DEF Reads, Extended
  <2>4. \A k \in DOMAIN register' : \E f \in everReported' :
             DedupKey(f) = k /\ f.severity = register'[k].severity
    BY <1>1, <1>5, <1>7, <2>2 DEF Reads, Extended
  <2> QED
    BY <2>3, <2>4
<1> QED
  BY <1>7, <1>8, <1>9, <1>10, <1>11 DEF Extended, ImportIInv, ReportsAddUp

LEMMA IngestOwnExportKeeps == ASSUME ImportIInv, IngestOwnExport PROVE ImportIInv'
<1> DEFINE exported == {ToSarif(register[k]) : k \in DOMAIN register}
           rows == SetToSeq(exported)
           found == ImportFindings("sarif", rows)
           reported == Reported("sarif", rows)
<1>1. /\ register' = AddFindings(register, found)
      /\ reports < MaxReports /\ reports' = reports + 1
      /\ everReported' = everReported
  BY DEF IngestOwnExport
<1>2. IsIndex(register)
  BY DEF ImportIInv
<1>3. rows \in [1..Cardinality(exported) -> exported] /\ Cardinality(exported) \in Nat
  <2> DEFINE export == [k \in DOMAIN register |-> ToSarif(register[k])]
  <2>1. export \in Surjection(DOMAIN register, exported)
    BY DEF Surjection
  <2>2. IsFiniteSet(exported)
    BY <1>2, <2>1, FS_Surjection DEF IsIndex
  <2> HIDE DEF exported
  <2>3. rows \in [1..Cardinality(exported) -> exported]
    BY <2>2, ListOfASet
  <2>4. Cardinality(exported) \in Nat
    BY <2>2, FS_CardinalityType
  <2> QED
    BY <2>3, <2>4
<1>4. \A r \in exported : \A f \in Parse("sarif", r) : IsFinding(f)
  BY <1>2, ExportIsRead DEF IsIndex
<1>5. Reads(found, reported)
  <2> HIDE DEF exported, rows
  <2> QED
    BY <1>3, <1>4, OwnExportIsSarif, ReportIsRead
<1>6. \A f \in reported : \E k \in DOMAIN register : f \in Parse("sarif", ToSarif(register[k]))
  <2> SUFFICES ASSUME NEW f \in reported
               PROVE  \E k \in DOMAIN register : f \in Parse("sarif", ToSarif(register[k]))
    OBVIOUS
  <2> HIDE DEF rows
  <2>1. PICK m \in DOMAIN rows : f \in Parse("sarif", rows[m])
    BY DEF Reported
  <2>2. rows[m] \in exported
    BY <1>3
  <2> QED
    BY <2>1, <2>2
<1> HIDE DEF found, reported, rows
<1>7. Extended(register, found, register')
  BY <1>1, <1>2, <1>5, IndexesJoin DEF Reads
<1>8. reports' \in 0..MaxReports
  BY <1>1, ImportsAssumption DEF ImportIInv
<1>9. ASSUME NEW f \in everReported'
      PROVE  /\ DedupKey(f) \in DOMAIN register'
             /\ f.tools \subseteq register'[DedupKey(f)].tools
             /\ f.severity <= register'[DedupKey(f)].severity
  <2> DEFINE k == DedupKey(f)
  <2>1. /\ k \in DOMAIN register /\ f.tools \subseteq register[k].tools
        /\ f.severity <= register[k].severity
    BY <1>1 DEF ImportIInv, ReportsAddUp
  <2>2. f.severity \in Int /\ register[k].severity \in Int
    BY <1>1, <2>1, SeverityIsANumber DEF ImportIInv, IsIndex
  <2>3. k \in DOMAIN register' /\ register'[k].severity \in Int
    BY <1>7, <2>1, SeverityIsANumber DEF Extended, IsIndex
  <2> QED
    BY <1>7, <2>1, <2>2, <2>3 DEF Extended
<1>10. ASSUME \A f \in everReported' : ComesBack(f)
       PROVE  LET keys == {DedupKey(f) : f \in everReported'}
              IN  /\ DOMAIN register' = keys
                  /\ \A k \in keys : \E f \in everReported' :
                       DedupKey(f) = k /\ f.severity = register'[k].severity
  <2>1. /\ DOMAIN register = {DedupKey(f) : f \in everReported}
        /\ \A k \in DOMAIN register : \E f \in everReported :
             DedupKey(f) = k /\ f.severity = register[k].severity
    BY <1>1, <1>10 DEF ImportIInv, ReportsAddUp
  <2>2. \A k \in DOMAIN register : ComesBack(register[k])
    <3> SUFFICES ASSUME NEW k \in DOMAIN register PROVE ComesBack(register[k])
      OBVIOUS
    <3>1. PICK f \in everReported : DedupKey(f) = k
      BY <2>1
    <3>2. DedupKey(register[k]) = DedupKey(f)
      BY <1>2, <3>1 DEF IsIndex
    <3> QED
      BY <1>1, <1>10, <3>2, KeysComeBack
  <2>3. \A f \in reported : /\ DedupKey(f) \in DOMAIN register
                            /\ f.severity = register[DedupKey(f)].severity
    <3> SUFFICES ASSUME NEW f \in reported
                 PROVE  /\ DedupKey(f) \in DOMAIN register
                        /\ f.severity = register[DedupKey(f)].severity
      OBVIOUS
    <3>1. PICK k \in DOMAIN register : f \in Parse("sarif", ToSarif(register[k]))
      BY <1>6
    <3>2. IsFinding(register[k]) /\ DedupKey(register[k]) = k
      BY <1>2 DEF IsIndex
    <3>3. DedupKey(f) = DedupKey(register[k]) /\ f.severity = register[k].severity
      BY <2>2, <3>1, <3>2, ExportIsRead
    <3> QED
      BY <3>2, <3>3
  <2>4. \A k \in DOMAIN found : k \in DOMAIN register /\ found[k].severity = register[k].severity
    BY <1>5, <2>3 DEF Reads
  <2>5. DOMAIN register' = DOMAIN register
        /\ \A k \in DOMAIN register : register'[k].severity = register[k].severity
    BY <1>7, <2>4 DEF Extended
  <2> QED
    BY <1>1, <2>1, <2>5
<1> QED
  BY <1>1, <1>7, <1>8, <1>9, <1>10 DEF Extended, ImportIInv, ReportsAddUp

(***************************************************************************)
(* The inductive invariant of an engagement into which reports are folded. *)
(***************************************************************************)
THEOREM ImportInvariance == ImportSpec => []ImportIInv
<1>1. ASSUME ImportIInv, [ImportNext]_importVars PROVE ImportIInv'
  <2> USE <1>1
  <2>1. ASSUME NEW tool \in Importers, NEW n \in 1..MaxRows, NEW rows \in [1..n -> Rows[tool]],
               IngestScan(tool, rows)
        PROVE  ImportIInv'
    BY <2>1, IngestScanKeeps
  <2>2. CASE IngestOwnExport
    BY <2>2, IngestOwnExportKeeps
  <2>3. CASE UNCHANGED importVars
    BY <2>3 DEF importVars, ImportIInv, ReportsAddUp
  <2> QED
    BY <2>1, <2>2, <2>3 DEF ImportNext
<1> QED
  BY <1>1, ImportStarts, PTL DEF ImportSpec

\* Every record is under its key and its severity is known.
THEOREM ImportTypeCorrect == ImportSpec => []ImportTypeOK
<1>1. ImportIInv => ImportTypeOK
  BY DEF ImportIInv, ImportTypeOK, IsIndex, IsFinding
<1> QED
  BY <1>1, ImportInvariance, PTL

(***************************************************************************)
(* Whatever reports are folded in, in any order: every issue is on record  *)
(* with the highest severity anybody gave it and everyone who reported it, *)
(* and what the program exports and reads again adds nothing.              *)
(***************************************************************************)
THEOREM ReportsAreKept == ImportSpec => []ReportsAddUp
<1>1. ImportIInv => ReportsAddUp
  BY DEF ImportIInv
<1> QED
  BY <1>1, ImportInvariance, PTL
-----------------------------------------------------------------------------
(***************************************************************************)
(* Scores.                                                                 *)
(***************************************************************************)
LEMMA ScaledIsANumber == ASSUME NEW s \in Nat, NEW p \in Nat PROVE Scaled(s, p) \in Nat
BY DEF Scaled

LEMMA ScaledIsMonotone ==
    ASSUME NEW s \in Nat, NEW t \in Nat, s <= t, NEW p \in Nat
    PROVE  Scaled(s, p) <= Scaled(t, p)
<1>1. s * p <= t * p
  OBVIOUS
<1>2. s * p \in Nat /\ t * p \in Nat
  OBVIOUS
<1>3. \A m, n \in Nat : m <= n => m \div 100 <= n \div 100
  OBVIOUS
<1> QED
  BY <1>1, <1>2, <1>3 DEF Scaled

LEMMA ScaledByMore ==
    ASSUME NEW s \in Nat, NEW p \in Nat, NEW q \in Nat, p <= q
    PROVE  Scaled(s, p) <= Scaled(s, q)
<1>1. s * p <= s * q
  OBVIOUS
<1>2. s * p \in Nat /\ s * q \in Nat
  OBVIOUS
<1>3. \A m, n \in Nat : m <= n => m \div 100 <= n \div 100
  OBVIOUS
<1> QED
  BY <1>1, <1>2, <1>3 DEF Scaled

LEMMA ScaledByNothing == ASSUME NEW s \in Nat PROVE Scaled(s, 100) = s
<1>1. (s * 100) \div 100 = s
  OBVIOUS
<1> QED
  BY <1>1 DEF Scaled

\* A set of positions has a first.
LEMMA FirstOfPositions ==
    ASSUME NEW S \in SUBSET Nat, S # {}
    PROVE  \E n \in S : \A m \in S : n <= m
<1> DEFINE R == OpToRel(<, Nat)
<1>1. IsWellFoundedOn(R, Nat)
  BY NatLessThanWellFounded, Zenon
<1>2. PICK n \in S : \A m \in S : ~(<<m, n>> \in R)
  <2> HIDE DEF R
  <2> QED
    BY <1>1, WFMin
<1>3. \A m \in S : ~(m < n)
  BY <1>2 DEF OpToRel
<1>4. n \in Nat /\ \A m \in S : m \in Nat
  OBVIOUS
<1> QED
  BY <1>3, <1>4

Takes(intel, c, best) ==
    LET atLeast0(n) == IF n > 0 THEN n ELSE 0
    IN \/ Kev(intel, c) # "no" /\ Kev(intel, best) = "no"
       \/ atLeast0(Epss(intel, c)) > atLeast0(Epss(intel, best))

\* The best CVEs so far.
Bests(intel, cves, n, b) ==
    b = [k \in 1..n |-> IF k > 1 /\ ~Takes(intel, cves[k], b[k - 1]) THEN b[k - 1]
                                                                     ELSE cves[k]]

\* However far a search has come, it has a best CVE.
LEMMA BestsExist ==
    ASSUME NEW intel, NEW cves, NEW n \in Nat
    PROVE  \E b : Bests(intel, cves, n, b)
<1> DEFINE Odd == {m \in Nat : ~ \E b : Bests(intel, cves, m, b)}
<1> SUFFICES ASSUME Odd # {} PROVE FALSE
  OBVIOUS
<1>1. PICK m \in Odd : \A k \in Odd : m <= k
  <2> HIDE DEF Odd
  <2>1. Odd \in SUBSET Nat
    BY DEF Odd
  <2> QED
    BY <2>1, FirstOfPositions
<1>2. m \in Nat /\ ~ \E b : Bests(intel, cves, m, b)
  BY <1>1
<1>3. CASE m = 0
  <2>1. 1..0 = {}
    OBVIOUS
  <2>2. Bests(intel, cves, m, [k \in {} |-> k])
    BY <1>3, <2>1 DEF Bests
  <2> QED
    BY <1>2, <2>2
<1>4. CASE m # 0
  <2>1. m - 1 \in Nat /\ m - 1 \notin Odd
    BY <1>1, <1>2, <1>4
  <2>2. PICK b : Bests(intel, cves, m - 1, b)
    BY <2>1
  <2> DEFINE step(k) == IF k > 1 /\ ~Takes(intel, cves[k], b[k - 1]) THEN b[k - 1]
                                                                      ELSE cves[k]
             d == [k \in 1..m |-> step(k)]
  <2>3. \A k \in 1..(m - 1) : b[k] = step(k) /\ d[k] = step(k)
    BY <1>2, <2>2 DEF Bests
  <2>4. \A k \in 1..m : k > 1 => k - 1 \in 1..(m - 1)
    BY <1>2
  <2>5. \A k \in 1..m : k > 1 => d[k - 1] = b[k - 1]
    BY <2>3, <2>4
  <2>6. Bests(intel, cves, m, d)
    BY <2>5 DEF Bests
  <2> QED
    BY <1>2, <2>6
<1> QED
  BY <1>3, <1>4

\* The CVE that counts is one of those the finding names.
LEMMA BestIsNamed ==
    ASSUME NEW intel, NEW cves \in Seq(CveIds), cves # << >>
    PROVE  BestCve(intel, cves) \in Range(cves)
<1> DEFINE n == Len(cves)
<1>1. n \in Nat /\ n # 0 /\ DOMAIN cves = 1..n
  OBVIOUS
<1> DEFINE b == CHOOSE c : Bests(intel, cves, n, c)
<1>2. Bests(intel, cves, n, b)
  BY <1>1, BestsExist
<1>3. BestCve(intel, cves) = b[n]
  BY <1>1 DEF BestCve, Bests, Takes
<1> HIDE DEF b, n
<1> DEFINE Odd == {k \in 1..n : b[k] \notin Range(cves)}
<1>4. Odd = {}
  <2> SUFFICES ASSUME Odd # {} PROVE FALSE
    OBVIOUS
  <2>1. PICK k \in Odd : \A m \in Odd : k <= m
    <3> HIDE DEF Odd
    <3>1. Odd \in SUBSET Nat
      BY <1>1 DEF Odd
    <3> QED
      BY <3>1, FirstOfPositions
  <2>2. b[k] = cves[k] \/ (k > 1 /\ b[k] = b[k - 1])
    BY <1>2, <2>1 DEF Bests
  <2>3. cves[k] \in Range(cves)
    BY <1>1, <2>1 DEF Range
  <2>4. k > 1 => k - 1 \in 1..n /\ k - 1 \notin Odd
    BY <1>1, <2>1
  <2> QED
    BY <2>1, <2>2, <2>3, <2>4
<1> QED
  BY <1>1, <1>3, <1>4

-----------------------------------------------------------------------------
(***************************************************************************)
(* Priorities.                                                             *)
(***************************************************************************)
\* What the program may know: any catalogue at all, but EPSS answers in tenths.
IsKnowledge(intel) == \A c \in DOMAIN intel.epss : intel.epss[c] \in 0..10

IsScored(f) == f.severity \in 0..4 /\ f.cvss \in -1..100 /\ f.confidence \in 0..2

LEMMA BaseIsBounded == ASSUME NEW f, IsScored(f) PROVE BaseScore(f) \in Nat /\ BaseScore(f) <= 10000
<1>1. f.severity + 1 \in 1..5 /\ f.cvss * 100 \in Int /\ f.cvss * 100 <= 10000
  BY DEF IsScored
<1>2. /\ SeverityScore[1] = 500 /\ SeverityScore[2] = 2500 /\ SeverityScore[3] = 5000
      /\ SeverityScore[4] = 7500 /\ SeverityScore[5] = 9000
  BY DEF SeverityScore
<1>3. \A k \in 1..5 : k = 1 \/ k = 2 \/ k = 3 \/ k = 4 \/ k = 5
  OBVIOUS
<1>4. SeverityScore[f.severity + 1] \in {500, 2500, 5000, 7500, 9000}
  BY <1>1, <1>2, <1>3
<1> QED
  BY <1>1, <1>4 DEF BaseScore, AtLeast

LEMMA EpssIsTyped ==
    ASSUME NEW intel, IsKnowledge(intel), NEW c
    PROVE  Epss(intel, c) \in -1..10
BY DEF IsKnowledge, Epss

\* A KEV hit raises the score, and to the floor at least.
LEMMA KevRaises ==
    ASSUME NEW s \in Nat, NEW kevOf
    PROVE  /\ RaisedByKev(s, kevOf) \in Nat /\ s <= RaisedByKev(s, kevOf)
           /\ kevOf # "no" => RaisedByKev(s, kevOf) >= 8800
<1> DEFINE p == IF kevOf = "ransomware" THEN 135 ELSE 125
<1>1. p \in Nat /\ 100 <= p
  OBVIOUS
<1> HIDE DEF p
<1>2. s <= Scaled(s, p) /\ Scaled(s, p) \in Nat
  BY <1>1, ScaledByMore, ScaledByNothing, ScaledIsANumber
<1>3. RaisedByKev(s, kevOf) = IF kevOf = "no" THEN s ELSE AtLeast(Scaled(s, p), 8800)
  BY DEF RaisedByKev, p
<1> QED
  BY <1>2, <1>3 DEF AtLeast

LEMMA ExploitsRaise ==
    ASSUME NEW entries, NEW cves
    PROVE  /\ ExploitFactor(BestFor(entries, cves)) \in Nat
           /\ 100 <= ExploitFactor(BestFor(entries, cves))
<1> DEFINE m == BestFor(entries, cves)
<1>1. m \in Maturities
  BY DEF BestFor, Maturity, Maturities
<1> HIDE DEF m
<1>2. ExploitFactor(m) \in {100, 110, 120, 130}
  BY <1>1 DEF Maturities, ExploitFactor
<1> QED
  BY <1>2 DEF m

\* No evidence lowers what a finding starts from; a KEV hit puts it high.
LEMMA EvidenceRaises ==
    ASSUME NEW intel, IsKnowledge(intel), NEW f, IsScored(f), NEW cves
    PROVE  /\ Threat(intel, f, cves) \in Nat
           /\ BaseScore(f) <= Threat(intel, f, cves)
           /\ (cves # << >> /\ Kev(intel, BestCve(intel, cves)) # "no") =>
                 Threat(intel, f, cves) >= 8800
<1> DEFINE best == IF cves = << >> THEN "none" ELSE BestCve(intel, cves)
           epssOf == Epss(intel, best)
           base == BaseScore(f)
           pressed == IF epssOf < 0 THEN base ELSE Scaled(base, 100 + 6 * epssOf)
           raised == RaisedByKev(pressed, Kev(intel, best))
           factor == ExploitFactor(BestFor(intel.exploits, cves))
<1>1. Threat(intel, f, cves) = Scaled(raised, factor)
  BY DEF Threat
<1>2. cves # << >> => best = BestCve(intel, cves)
  OBVIOUS
<1>3. epssOf \in -1..10
  BY EpssIsTyped
<1>4. base \in Nat
  BY BaseIsBounded
<1> HIDE DEF best, epssOf, base
<1>5. pressed \in Nat /\ base <= pressed
  <2>1. CASE epssOf < 0
    BY <1>4, <2>1
  <2>2. CASE ~(epssOf < 0)
    <3>1. 100 + 6 * epssOf \in Nat /\ 100 <= 100 + 6 * epssOf
      BY <1>3, <2>2
    <3>2. Scaled(base, 100) = base
      BY <1>4, ScaledByNothing
    <3>3. Scaled(base, 100) <= Scaled(base, 100 + 6 * epssOf)
      BY <1>4, <3>1, ScaledByMore
    <3>4. Scaled(base, 100 + 6 * epssOf) \in Nat
      BY <1>4, <3>1, ScaledIsANumber
    <3> QED
      BY <2>2, <3>2, <3>3, <3>4
  <2> QED
    BY <2>1, <2>2
<1> HIDE DEF pressed
<1>6. /\ raised \in Nat /\ pressed <= raised
      /\ Kev(intel, best) # "no" => raised >= 8800
  BY <1>5, KevRaises
<1> HIDE DEF raised
<1>7. factor \in Nat /\ 100 <= factor
  BY ExploitsRaise
<1> HIDE DEF factor
<1>8. Scaled(raised, factor) \in Nat /\ raised <= Scaled(raised, factor)
  <2>1. Scaled(raised, 100) = raised
    BY <1>6, ScaledByNothing
  <2>2. Scaled(raised, 100) <= Scaled(raised, factor)
    BY <1>6, <1>7, ScaledByMore
  <2> QED
    BY <1>6, <1>7, <2>1, <2>2, ScaledIsANumber
<1> QED
  BY <1>1, <1>2, <1>4, <1>5, <1>6, <1>8 DEF base

LEMMA BlindThreat ==
    ASSUME NEW f, IsScored(f), NEW cves
    PROVE  Threat(Blind, f, cves) = BaseScore(f)
<1>1. \A c : Epss(Blind, c) = -1 /\ Kev(Blind, c) = "no"
  BY DEF Blind, Epss, Kev
<1>2. BestFor(Blind.exploits, cves) = "none"
  <2>1. {e \in Blind.exploits : e.cve \in Range(cves)} = {}
    BY DEF Blind
  <2> QED
    BY <2>1 DEF BestFor, Maturity
<1>3. ExploitFactor("none") = 100
  BY DEF ExploitFactor
<1>4. BaseScore(f) \in Nat
  BY BaseIsBounded
<1>5. \A best : RaisedByKev(IF Epss(Blind, best) < 0 THEN BaseScore(f)
                            ELSE Scaled(BaseScore(f), 100 + 6 * Epss(Blind, best)),
                            Kev(Blind, best)) = BaseScore(f)
  BY <1>1 DEF RaisedByKev
<1>6. Threat(Blind, f, cves) = Scaled(BaseScore(f), 100)
  BY <1>2, <1>3, <1>5 DEF Threat
<1> QED
  BY <1>4, <1>6, ScaledByNothing

LEMMA CapIsMonotone ==
    ASSUME NEW m \in Nat, NEW n \in Nat, m <= n
    PROVE  AtMost(m, 10000) \in Nat /\ AtMost(m, 10000) <= AtMost(n, 10000)
BY DEF AtMost

ConfidenceFactor(f) == <<90, 100, 105>>[f.confidence + 1]

\* A priority follows the threat and the factor of the status.
LEMMA PriorityFollows ==
    ASSUME NEW f, IsScored(f),
           NEW intel1, NEW cves1, NEW status1 \in IntelStatuses,
           NEW intel2, NEW cves2, NEW status2 \in IntelStatuses,
           Threat(intel1, f, cves1) \in Nat, Threat(intel2, f, cves2) \in Nat,
           Threat(intel1, f, cves1) <= Threat(intel2, f, cves2),
           StatusFactor(status1) <= StatusFactor(status2)
    PROVE  /\ Priority(intel1, f, cves1, status1) \in Nat
           /\ Priority(intel1, f, cves1, status1) <= Priority(intel2, f, cves2, status2)
<1> DEFINE t1 == Threat(intel1, f, cves1)
           t2 == Threat(intel2, f, cves2)
           p1 == StatusFactor(status1)
           p2 == StatusFactor(status2)
           c == ConfidenceFactor(f)
<1>1. p1 \in Nat /\ p2 \in Nat
  BY DEF IntelStatuses, StatusFactor
<1>2. c \in Nat
  <2>1. \A k \in 1..3 : <<90, 100, 105>>[k] \in Nat
    OBVIOUS
  <2>2. f.confidence + 1 \in 1..3
    BY DEF IsScored
  <2> QED
    BY <2>1, <2>2 DEF ConfidenceFactor
<1>3. /\ Priority(intel1, f, cves1, status1) = AtMost(Scaled(Scaled(t1, p1), c), 10000)
      /\ Priority(intel2, f, cves2, status2) = AtMost(Scaled(Scaled(t2, p2), c), 10000)
  BY DEF Priority, ConfidenceFactor
<1>4. t1 \in Nat /\ t2 \in Nat /\ t1 <= t2 /\ p1 <= p2
  OBVIOUS
<1> HIDE DEF t1, t2, p1, p2, c
<1>5. Scaled(t1, p1) <= Scaled(t2, p1) /\ Scaled(t2, p1) <= Scaled(t2, p2)
  BY <1>1, <1>4, ScaledIsMonotone, ScaledByMore
<1>6. Scaled(t1, p1) \in Nat /\ Scaled(t2, p1) \in Nat /\ Scaled(t2, p2) \in Nat
  BY <1>1, <1>4, ScaledIsANumber
<1>7. Scaled(t1, p1) <= Scaled(t2, p2)
  BY <1>5, <1>6
<1>8. Scaled(Scaled(t1, p1), c) <= Scaled(Scaled(t2, p2), c)
  BY <1>2, <1>6, <1>7, ScaledIsMonotone
<1>9. Scaled(Scaled(t1, p1), c) \in Nat /\ Scaled(Scaled(t2, p2), c) \in Nat
  BY <1>2, <1>6, ScaledIsANumber
<1> DEFINE q1 == Scaled(Scaled(t1, p1), c)
           q2 == Scaled(Scaled(t2, p2), c)
<1>10. q1 \in Nat /\ q2 \in Nat /\ q1 <= q2
  BY <1>8, <1>9
<1>11. /\ Priority(intel1, f, cves1, status1) = AtMost(q1, 10000)
       /\ Priority(intel2, f, cves2, status2) = AtMost(q2, 10000)
  BY <1>3
<1> HIDE DEF q1, q2
<1>12. AtMost(q1, 10000) \in Nat /\ AtMost(q1, 10000) <= AtMost(q2, 10000)
  BY <1>10, CapIsMonotone
<1> QED
  BY <1>11, <1>12

LEMMA ListedActsNow ==
    ASSUME NEW intel, NEW f, NEW cves, NEW status,
           cves # << >>, Kev(intel, BestCve(intel, cves)) # "no"
    PROVE  PriorityLabel(intel, f, cves, status) = "act now"
BY DEF PriorityLabel

\* Every finding ranks as it should, whatever is known.
LEMMA EveryRankIsFair ==
    ASSUME IsKnowledge(Known), NEW f, IsScored(f), NEW cves \in Seq(CveIds),
           NEW status \in IntelStatuses
    PROVE  /\ RanksByEvidence(f, cves, status)
           /\ RanksHigh(f, cves)
           /\ IsUrgent(f, cves, status)
<1> DEFINE P(s) == Priority(Known, f, cves, s)
           t == Threat(Known, f, cves)
<1>1. /\ StatusFactor("validated") = 115 /\ StatusFactor("detected") = 100
      /\ StatusFactor("remediated") = 40 /\ StatusFactor("false_positive") = 0
  BY DEF StatusFactor
<1>2. {"validated", "detected", "remediated", "false_positive"} \subseteq IntelStatuses
  BY DEF IntelStatuses
<1>3. t \in Nat /\ BaseScore(f) <= t
  BY EvidenceRaises
<1>4. ASSUME NEW s1 \in IntelStatuses, NEW s2 \in IntelStatuses,
             StatusFactor(s1) <= StatusFactor(s2)
      PROVE  P(s1) \in Nat /\ P(s1) <= P(s2)
  <2>1. t <= t
    BY <1>3
  <2> QED
    BY <1>3, <1>4, <2>1, PriorityFollows
<1>5. StatusFactor(status) \in Nat /\ StatusFactor(status) <= StatusFactor(status)
  BY DEF StatusFactor, IntelStatuses
<1>6. /\ Priority(Blind, f, cves, status) \in Nat
      /\ Priority(Blind, f, cves, status) <= P(status)
  <2>1. Threat(Blind, f, cves) = BaseScore(f) /\ BaseScore(f) \in Nat
    BY BlindThreat, BaseIsBounded
  <2> QED
    BY <1>3, <1>5, <2>1, PriorityFollows
<1>7. /\ P("detected") <= P("validated") /\ P("remediated") <= P("detected")
      /\ P("false_positive") <= P("remediated")
  BY <1>1, <1>2, <1>4
<1>8. /\ P("validated") \in Int /\ P("detected") \in Int /\ P("remediated") \in Int
      /\ P("false_positive") \in Int /\ P(status) \in Int
  <2>1. \A s \in IntelStatuses : StatusFactor(s) <= StatusFactor(s)
    BY DEF StatusFactor, IntelStatuses
  <2>2. \A s \in IntelStatuses : P(s) \in Nat
    BY <1>4, <2>1
  <2> QED
    BY <1>2, <2>2
<1>9. AllListed(cves) => t >= 8800 /\ Kev(Known, BestCve(Known, cves)) # "no"
  BY BestIsNamed, EvidenceRaises DEF AllListed
<1>10. RanksHigh(f, cves)
  <2> SUFFICES ASSUME AllListed(cves) PROVE P("detected") >= 7920
    BY DEF RanksHigh
  <2>2. t >= 8800
    BY <1>9
  <2>3. P("detected") = AtMost(Scaled(Scaled(t, 100), ConfidenceFactor(f)), 10000)
    BY <1>1 DEF Priority, ConfidenceFactor
  <2> HIDE DEF t
  <2>4. Scaled(t, 100) = t
    BY <1>3, ScaledByNothing
  <2>5. ConfidenceFactor(f) \in Nat /\ 90 <= ConfidenceFactor(f)
    <3>1. \A k \in 1..3 : <<90, 100, 105>>[k] \in Nat /\ 90 <= <<90, 100, 105>>[k]
      OBVIOUS
    <3>2. f.confidence + 1 \in 1..3
      BY DEF IsScored
    <3> QED
      BY <3>1, <3>2 DEF ConfidenceFactor
  <2>6. Scaled(8800, 90) = 7920
    BY DEF Scaled
  <2>7. Scaled(8800, 90) <= Scaled(t, 90) /\ Scaled(t, 90) <= Scaled(t, ConfidenceFactor(f))
    BY <1>3, <2>2, <2>5, ScaledIsMonotone, ScaledByMore
  <2>8. Scaled(t, 90) \in Nat /\ Scaled(t, ConfidenceFactor(f)) \in Nat
    BY <1>3, <2>5, ScaledIsANumber
  <2>9. P("detected") >= 7920
    BY <2>3, <2>4, <2>6, <2>7, <2>8 DEF AtMost
  <2> QED
    BY <2>9
<1>11. IsUrgent(f, cves, status)
  <2>1. ASSUME AllListed(cves) PROVE PriorityLabel(Known, f, cves, status) = "act now"
    <3>1. cves # << >>
      BY <2>1 DEF AllListed
    <3>2. Kev(Known, BestCve(Known, cves)) # "no"
      BY <1>9, <2>1
    <3> QED
      BY <3>1, <3>2, ListedActsNow
  <2> QED
    BY <2>1, Zenon DEF IsUrgent
<1>12. P(status) >= Priority(Blind, f, cves, status)
  BY <1>6, <1>8
<1>13. /\ P("validated") >= P("detected") /\ P("detected") >= P("remediated")
       /\ P("remediated") >= P("false_positive")
  BY <1>7, <1>8
<1>14. RanksByEvidence(f, cves, status)
  BY <1>12, <1>13 DEF RanksByEvidence
<1> QED
  BY <1>10, <1>11, <1>14

-----------------------------------------------------------------------------
(***************************************************************************)
(* Services.                                                               *)
(***************************************************************************)
LEMMA RankedIsTyped ==
    ASSUME NEW f \in Ranked
    PROVE  /\ IsScored(f) /\ f.named \in Seq(CveIds) /\ f.banners \in Seq(Banners)
<1>1. f \in [severity: 0..4, cvss: -1..100, confidence: 0..2, named: Seq(CveIds),
             host: STRING, assetPort: STRING, ports: Seq(STRING), banners: Seq(Banners)]
  BY IntelAssumption
<1> QED
  BY <1>1 DEF IsScored

LEMMA ServiceIsTyped ==
    ASSUME NEW f \in Ranked, NamesService(f) # {}
    PROVE  ServiceOf(f) \in Banners
<1>1. f.banners \in Seq(Banners)
  BY RankedIsTyped
<1>2. DOMAIN f.banners \in SUBSET Nat /\ \A n \in DOMAIN f.banners : f.banners[n] \in Banners
  <2>1. PICK q \in Seq(Banners) : q = f.banners
    BY <1>1
  <2>2. DOMAIN q = 1..Len(q) /\ Len(q) \in Nat /\ \A n \in 1..Len(q) : q[n] \in Banners
    OBVIOUS
  <2> QED
    BY <2>1, <2>2
<1>3. NamesService(f) \in SUBSET Nat /\ NamesService(f) \subseteq DOMAIN f.banners
  BY <1>2 DEF NamesService
<1>4. \E n \in NamesService(f) : \A m \in NamesService(f) : n <= m
  BY <1>3, FirstOfPositions
<1> QED
  BY <1>2, <1>3, <1>4 DEF ServiceOf

LEMMA SeedIsTyped ==
    ASSUME NEW name
    PROVE  /\ SeedOf(name) \in Seq(Catalogue)
           /\ \A m, n \in DOMAIN SeedOf(name) :
                SeedOf(name)[m].cve = SeedOf(name)[n].cve => m = n
<1>1. CASE Canon(name) \in DOMAIN Fixes
  BY <1>1, IntelAssumption DEF SeedOf
<1>2. CASE Canon(name) \notin DOMAIN Fixes
  <2>1. SeedOf(name) = << >> /\ << >> \in Seq(Catalogue) /\ DOMAIN << >> = {}
    BY <1>2 DEF SeedOf
  <2> QED
    BY <2>1
<1> QED
  BY <1>1, <1>2

LEMMA PlacesInSeed ==
    ASSUME NEW name
    PROVE  /\ DOMAIN SeedOf(name) = 1..Len(SeedOf(name)) /\ Len(SeedOf(name)) \in Nat
           /\ \A n \in DOMAIN SeedOf(name) : SeedOf(name)[n] \in Catalogue
<1>1. PICK q \in Seq(Catalogue) : q = SeedOf(name)
  BY SeedIsTyped
<1>2. DOMAIN q = 1..Len(q) /\ Len(q) \in Nat /\ \A n \in 1..Len(q) : q[n] \in Catalogue
  OBVIOUS
<1> QED
  BY <1>1, <1>2

\* The first three parts of a version are numbers.
LEMMA VersionHasNumbers ==
    ASSUME NEW v \in Versions
    PROVE  VerTuple(v)[1] \in Nat /\ VerTuple(v)[2] \in Nat /\ VerTuple(v)[3] \in Nat
<1> DEFINE core == [n \in 1..3 |-> IF n \in DOMAIN v.numbers THEN v.numbers[n] ELSE 0]
           tail == <<IF v.suffix.digits THEN v.suffix.number ELSE 0>>
<1>1. v.numbers \in Seq(Nat) /\ v.suffix.number \in Nat
  BY DEF Versions
<1>2. \A n \in 1..3 : core[n] \in Nat
  BY <1>1
<1>3. core \in Seq(Nat) /\ Len(core) = 3
  <2>1. core \in [1..3 -> Nat]
    BY <1>2
  <2>2. 3 \in Nat /\ DOMAIN core = 1..3
    OBVIOUS
  <2> HIDE DEF core
  <2>3. core \in Seq(Nat)
    BY <2>1, <2>2, SeqDef
  <2> QED
    BY <2>2, <2>3, LenProperties
<1>4. tail \in Seq(Nat) /\ Len(tail) = 1
  BY <1>1
<1>5. VerTuple(v) = core \o tail
  BY DEF VerTuple
<1> HIDE DEF core, tail
<1>6. \A n \in 1..3 : (core \o tail)[n] = core[n]
  <2>1. \A n \in 1..3 : n \in 1..(Len(core) + Len(tail)) /\ n <= Len(core)
    BY <1>3, <1>4
  <2> QED
    BY <1>3, <1>4, <2>1, ConcatProperties
<1>7. 1 \in 1..3 /\ 2 \in 1..3 /\ 3 \in 1..3
  OBVIOUS
<1> QED
  BY <1>2, <1>5, <1>6, <1>7

\* What the numbers say is old the comparison of versions finds.
LEMMA OverdueIsMatched ==
    ASSUME NEW service \in Banners
    PROVE  Overdue(service) \subseteq MatchedBy(service)
<1> DEFINE seed == SeedOf(service.product)
           a == VerTuple(service.version)
<1> SUFFICES ASSUME NEW fix \in Overdue(service) PROVE fix \in MatchedBy(service)
  OBVIOUS
<1> DEFINE b == VerTuple(fix.fixed)
<1>1. /\ fix \in Range(seed)
      /\ \/ a[1] < b[1]
         \/ a[1] = b[1] /\ a[2] < b[2]
         \/ a[1] = b[1] /\ a[2] = b[2] /\ a[3] < b[3]
  BY DEF Overdue
<1>2. PICK k \in DOMAIN seed : fix = seed[k]
  BY <1>1 DEF Range
<1>3. VersionLt(service.version, fix.fixed)
      <=> \E n \in 1..4 : a[n] < b[n] /\ \A m \in 1..(n - 1) : a[m] = b[m]
  BY DEF VersionLt
<1> HIDE DEF a, b, seed
<1>4. \E n \in 1..4 : a[n] < b[n] /\ \A m \in 1..(n - 1) : a[m] = b[m]
  <2>1. CASE a[1] < b[1]
    <3>1. 1 \in 1..4 /\ \A m \in 1..(1 - 1) : FALSE
      OBVIOUS
    <3> QED
      BY <2>1, <3>1
  <2>2. CASE a[1] = b[1] /\ a[2] < b[2]
    <3>1. 2 \in 1..4 /\ \A m \in 1..(2 - 1) : m = 1
      OBVIOUS
    <3> QED
      BY <2>2, <3>1
  <2>3. CASE a[1] = b[1] /\ a[2] = b[2] /\ a[3] < b[3]
    <3>1. 3 \in 1..4 /\ \A m \in 1..(3 - 1) : m = 1 \/ m = 2
      OBVIOUS
    <3> QED
      BY <2>3, <3>1
  <2> QED
    BY <1>1, <2>1, <2>2, <2>3
<1>5. k \in MatchedAt(service)
  BY <1>2, <1>3, <1>4 DEF MatchedAt, seed
<1> QED
  BY <1>2, <1>5 DEF MatchedBy, seed

LEMMA ServiceRankIsANumber ==
    ASSUME NEW intel, IsKnowledge(intel), NEW fix \in Catalogue
    PROVE  ServicePriority(intel, fix) \in Nat
<1> DEFINE shim == [severity |-> fix.severity, cvss |-> -1, confidence |-> 1]
<1>1. IsScored(shim)
  BY DEF IsScored, Catalogue
<1>2. ServicePriority(intel, fix) = Priority(intel, shim, <<fix.cve>>, "detected")
  BY DEF ServicePriority
<1> HIDE DEF shim
<1>3. Threat(intel, shim, <<fix.cve>>) \in Nat
      /\ Threat(intel, shim, <<fix.cve>>) <= Threat(intel, shim, <<fix.cve>>)
  BY <1>1, EvidenceRaises
<1>4. "detected" \in IntelStatuses /\ StatusFactor("detected") <= StatusFactor("detected")
  BY DEF IntelStatuses, StatusFactor
<1>5. Priority(intel, shim, <<fix.cve>>, "detected") \in Nat
  BY <1>1, <1>3, <1>4, PriorityFollows
<1> QED
  BY <1>2, <1>5

HasEach(list, places) ==
    /\ Cardinality(places) \in Nat /\ list \in [1..Cardinality(places) -> places]
    /\ \A p \in places : \E n \in 1..Cardinality(places) : list[n] = p

\* Places of the seed can be ranked, and a ranking has all of them.
LEMMA RankingHasAll ==
    ASSUME NEW intel, IsKnowledge(intel), NEW name, NEW places \in SUBSET DOMAIN SeedOf(name)
    PROVE  HasEach(RankedAt(intel, SeedOf(name), places), places)
<1> DEFINE seed == SeedOf(name)
           c == Cardinality(places)
           score(k) == ServicePriority(intel, seed[k])
           R == {p \in places \X places : RanksBefore(intel, seed, p[1], p[2])}
           r == RankedAt(intel, seed, places)
<1>1. \A p \in places : p \in Nat /\ score(p) \in Nat
  <2>1. \A p \in places : seed[p] \in Catalogue /\ p \in Nat
    BY PlacesInSeed
  <2> QED
    BY <2>1, ServiceRankIsANumber
<1>2. IsFiniteSet(places)
  <2>1. places \subseteq 1..Len(seed) /\ Len(seed) \in Nat
    BY PlacesInSeed
  <2>2. IsFiniteSet(1..Len(seed))
    BY <2>1, FS_Interval
  <2> QED
    BY <2>1, <2>2, FS_Subset
<1>3. \A x, y : RanksBefore(intel, seed, x, y)
                <=> score(x) > score(y) \/ (score(x) = score(y) /\ x < y)
  BY DEF RanksBefore
<1> HIDE DEF score, seed
<1>4. \A x, y \in places : <<x, y>> \in R <=> RanksBefore(intel, seed, x, y)
  OBVIOUS
<1> HIDE DEF R
<1>5. StrictOrder(places, R)
  <2>1. \A x, y \in places : x # y => <<x, y>> \in R \/ <<y, x>> \in R
    BY <1>1, <1>3, <1>4
  <2>2. \A x, y \in places : <<x, y>> \in R => <<y, x>> \notin R
    BY <1>1, <1>3, <1>4
  <2>3. \A x, y, z \in places : <<x, y>> \in R /\ <<y, z>> \in R => <<x, z>> \in R
    BY <1>1, <1>3, <1>4
  <2> QED
    BY <2>1, <2>2, <2>3 DEF StrictOrder
<1>6. \A s : Lists(s, places, R) <=>
               /\ s \in [1..c -> places]
               /\ \A i, j \in DOMAIN s : i < j => RanksBefore(intel, seed, s[i], s[j])
  <2> SUFFICES ASSUME NEW s
               PROVE  Lists(s, places, R) <=>
                        /\ s \in [1..c -> places]
                        /\ \A i, j \in DOMAIN s : i < j => RanksBefore(intel, seed, s[i], s[j])
    OBVIOUS
  <2>1. CASE s \in [1..c -> places]
    <3>1. DOMAIN s = 1..c /\ \A i \in 1..c : s[i] \in places
      BY <2>1
    <3> QED
      BY <1>4, <2>1, <3>1 DEF Lists
  <2> QED
    BY <2>1 DEF Lists
<1>7. r = CHOOSE s : Lists(s, places, R)
  BY <1>6 DEF RankedAt
<1>8. Lists(r, places, R)
  BY <1>2, <1>5, <1>7, ListExists
<1>9. c \in Nat
  BY <1>2, FS_CardinalityType
<1>10. \A p \in places : \E n \in 1..c : r[n] = p
  BY <1>2, <1>5, <1>8, ListHasAll
<1>11. r \in [1..c -> places]
  BY <1>6, <1>8
<1> QED
  BY <1>9, <1>10, <1>11 DEF HasEach, seed

\* Matched with the seed a finding names what it named, and every CVE that matches.
LEMMA EnrichingNames ==
    ASSUME NEW intel, IsKnowledge(intel), NEW f \in Ranked, NEW cves \in Seq(CveIds)
    PROVE  /\ EnrichFinding(intel, f, cves) \in Seq(CveIds)
           /\ f \in Outdated({f}) =>
                \A fix \in MatchedBy(ServiceOf(f)) :
                   fix.cve \in Range(EnrichFinding(intel, f, cves))
<1>1. CASE f \notin Outdated({f})
  BY <1>1 DEF EnrichFinding
<1>2. CASE f \in Outdated({f})
  <2> DEFINE name == ServiceOf(f).product
             seed == SeedOf(name)
             new == {n \in MatchedAt(ServiceOf(f)) : seed[n].cve \notin Range(cves)}
             c == Cardinality(new)
             r == RankedAt(intel, seed, new)
             added == [n \in 1..c |-> seed[r[n]].cve]
  <2>1. new \in SUBSET DOMAIN seed
    BY DEF MatchedAt
  <2>2. /\ c \in Nat /\ r \in [1..c -> new]
        /\ \A p \in new : \E n \in 1..c : r[n] = p
    <3> HIDE DEF new
    <3>1. HasEach(r, new)
      BY <2>1, RankingHasAll
    <3> QED
      BY <3>1 DEF HasEach
  <2>3. EnrichFinding(intel, f, cves) = cves \o added
    <3>1. DOMAIN r = 1..c
      BY <2>2
    <3> QED
      BY <1>2, <3>1 DEF EnrichFinding
  <2>4. \A fix : fix \in MatchedBy(ServiceOf(f)) <=>
                   \E n \in MatchedAt(ServiceOf(f)) : fix = seed[n]
    BY DEF MatchedBy
  <2>5. \A n \in DOMAIN seed : seed[n].cve \in CveIds
    <3>1. \A n \in DOMAIN seed : seed[n] \in Catalogue
      BY PlacesInSeed
    <3> QED
      BY <3>1 DEF Catalogue
  <2>6. \A n \in MatchedAt(ServiceOf(f)) : seed[n].cve \in Range(cves) \/ n \in new
    OBVIOUS
  <2> HIDE DEF new, c, r, seed
  <2>7. \A n \in 1..c : seed[r[n]].cve \in CveIds
    BY <2>1, <2>2, <2>5
  <2>8. /\ added \in [1..c -> CveIds] /\ DOMAIN added = 1..c
        /\ \A n \in 1..c : added[n] = seed[r[n]].cve
    BY <2>7
  <2> HIDE DEF added
  <2>9. added \in Seq(CveIds) /\ Len(added) = c
    BY <2>2, <2>8
  <2>10. cves \o added \in Seq(CveIds)
    BY <2>9
  <2>11. Range(cves) \subseteq Range(cves \o added) /\ Range(added) \subseteq Range(cves \o added)
    <3>1. /\ DOMAIN cves = 1..Len(cves) /\ Len(cves) \in Nat
          /\ DOMAIN (cves \o added) = 1..(Len(cves) + c)
      BY <2>2, <2>9
    <3>2. \A n \in 1..Len(cves) : n \in 1..(Len(cves) + c) /\ (cves \o added)[n] = cves[n]
      BY <2>2, <2>9, <3>1
    <3>3. \A n \in 1..c : /\ Len(cves) + n \in 1..(Len(cves) + c)
                          /\ (cves \o added)[Len(cves) + n] = added[n]
      BY <2>2, <2>9, <3>1
    <3>4. Range(cves) \subseteq Range(cves \o added)
      BY <3>1, <3>2 DEF Range
    <3>5. Range(added) \subseteq Range(cves \o added)
      <4>1. ASSUME NEW x \in Range(added) PROVE x \in Range(cves \o added)
        <5>1. PICK n \in 1..c : x = added[n]
          BY <2>8, <4>1 DEF Range
        <5>2. /\ Len(cves) + n \in DOMAIN (cves \o added)
              /\ (cves \o added)[Len(cves) + n] = x
          BY <3>1, <3>3, <5>1
        <5> QED
          BY <5>2 DEF Range
      <4> QED
        BY <4>1
    <3> QED
      BY <3>4, <3>5
  <2>12. ASSUME NEW fix \in MatchedBy(ServiceOf(f)) PROVE fix.cve \in Range(cves \o added)
    <3>1. PICK n \in MatchedAt(ServiceOf(f)) : fix = seed[n]
      BY <2>4
    <3>2. CASE seed[n].cve \in Range(cves)
      BY <2>11, <3>1, <3>2
    <3>3. CASE n \in new
      <4>1. PICK k \in 1..c : r[k] = n
        BY <2>2, <3>3
      <4>2. fix.cve = added[k]
        BY <2>8, <3>1, <4>1
      <4>3. fix.cve \in Range(added)
        BY <2>8, <4>2 DEF Range
      <4> QED
        BY <2>11, <4>3
    <3> QED
      BY <2>6, <3>2, <3>3
  <2> QED
    BY <2>3, <2>10, <2>12
<1> QED
  BY <1>1, <1>2

\* Every service that the numbers say is old is reported, as severe as any of its fixes.
LEMMA OutdatedIsReported ==
    ASSUME NEW f \in Ranked, NamesService(f) # {}, NEW fix \in Overdue(ServiceOf(f))
    PROVE  \E o \in ServiceFindings(Ranked) :
              /\ o.product = Canon(ServiceOf(f).product)
              /\ o.version = ServiceOf(f).version
              /\ o.severity >= fix.severity
<1> DEFINE s == ServiceOf(f)
           S == {x.severity : x \in MatchedBy(s)}
           worst == CHOOSE n \in S : \A x \in MatchedBy(s) : x.severity <= n
           o == [product |-> Canon(s.product), version |-> s.version, severity |-> worst]
<1>1. fix \in MatchedBy(s)
  BY ServiceIsTyped, OverdueIsMatched
<1>2. f \in Outdated(Ranked)
  BY <1>1 DEF Outdated
<1>3. o \in ServiceFindings(Ranked)
  BY <1>2 DEF ServiceFindings
<1>4. S \in SUBSET (0..4) /\ S # {}
  <2>1. \A x \in MatchedBy(s) : x \in Catalogue
    BY PlacesInSeed DEF MatchedBy, MatchedAt
  <2>2. \A x \in Catalogue : x.severity \in 0..4
    BY DEF Catalogue
  <2> QED
    BY <1>1, <2>1, <2>2
<1>5. \A x \in MatchedBy(s) : x.severity \in S /\ x.severity \in Int
  BY <1>4
<1> HIDE DEF S
<1>6. \E n \in S : \A x \in S : x <= n
  BY <1>4, GreatestBelow
<1>7. worst \in S /\ \A x \in MatchedBy(s) : x.severity <= worst
  BY <1>5, <1>6
<1>8. worst \in Int /\ fix.severity <= worst /\ fix.severity \in Int
  <2> HIDE DEF worst
  <2>1. worst \in 0..4
    BY <1>4, <1>7
  <2> QED
    BY <1>1, <1>5, <1>7, <2>1
<1> HIDE DEF worst
<1> QED
  BY <1>3, <1>8

-----------------------------------------------------------------------------
(***************************************************************************)
(* The invariant: the records are typed; a finding that was matched names  *)
(* every CVE that matches, whichever row was read and saved since; and the *)
(* services reported are those of the findings.                            *)
(***************************************************************************)
MatchesAreNamed ==
    \A f \in enriched :
        /\ NamesService(f) # {}
        /\ \A fix \in MatchedBy(ServiceOf(f)) : fix.cve \in Range(ledger[f].cves)

IntelIInv ==
    /\ IntelTypeOK
    /\ MatchesAreNamed
    /\ outdated = {} \/ outdated = ServiceFindings(Ranked)

LEMMA CatalogueIsListed == ASSUME NEW file PROVE KevFrom(file) \in Listings
<1>1. KevSeed \in Listings /\ KevFeed \in Listings
  BY IntelAssumption
<1> QED
  BY <1>1 DEF KevFrom

AreExploits(entries) == \A n \in DOMAIN entries : entries[n] \in Exploits

LEMMA SourcesAreExploits ==
    /\ AreExploits(ExploitSeed) /\ AreExploits(<< >>)
    /\ \A file : file \in CacheStates => AreExploits(CsvFrom(file))
<1>1. ExploitSeed \in Seq(Exploits) /\ ExploitCsv \in Seq(Exploits)
  BY IntelAssumption
<1>2. \A s \in Seq(Exploits) : AreExploits(s)
  BY DEF AreExploits
<1>3. AreExploits(<< >>)
  BY DEF AreExploits
<1>4. AreExploits([n \in DOMAIN ExploitCsv \intersect {1} |-> ExploitCsv[n]])
  BY <1>1, <1>2 DEF AreExploits
<1>5. \A file : file \in CacheStates => AreExploits(CsvFrom(file))
  BY <1>1, <1>2, <1>3, <1>4 DEF CsvFrom, CacheStates
<1> QED
  BY <1>1, <1>2, <1>3, <1>5

LEMMA LoadedAreExploits ==
    ASSUME NEW known \in SUBSET Exploits, NEW entries, AreExploits(entries)
    PROVE  LoadExploits(known, entries) \subseteq Exploits
BY DEF LoadExploits, AreExploits

LEMMA AllAreExploits ==
    ASSUME NEW csv, AreExploits(csv)
    PROVE  LoadAll(csv) \subseteq Exploits
<1>1. LoadExploits({}, ExploitSeed) \subseteq Exploits
  BY SourcesAreExploits, LoadedAreExploits
<1> QED
  BY <1>1, LoadedAreExploits DEF LoadAll

LEMMA RiskIsBounded ==
    ASSUME NEW f, IsScored(f), NEW status \in IntelStatuses
    PROVE  RiskScore(f, status) \in Scores
<1> DEFINE c == <<85, 100, 110>>[f.confidence + 1]
           sure == Scaled(BaseScore(f), c)
<1>1. c \in Nat /\ c <= 110
  <2>1. \A k \in 1..3 : <<85, 100, 110>>[k] \in Nat /\ <<85, 100, 110>>[k] <= 110
    OBVIOUS
  <2>2. f.confidence + 1 \in 1..3
    BY DEF IsScored
  <2> QED
    BY <2>1, <2>2
<1> HIDE DEF c
<1>2. sure \in Nat /\ sure <= 11000
  <2>1. BaseScore(f) \in Nat /\ BaseScore(f) <= 10000
    BY BaseIsBounded
  <2>2. Scaled(10000, 110) = 11000
    BY DEF Scaled
  <2>3. Scaled(BaseScore(f), c) <= Scaled(BaseScore(f), 110)
    BY <1>1, <2>1, ScaledByMore
  <2>4. Scaled(BaseScore(f), 110) <= Scaled(10000, 110)
    BY <2>1, ScaledIsMonotone
  <2>5. BaseScore(f) \in Nat
    BY <2>1
  <2>6. sure \in Nat
    BY <1>1, <2>5, ScaledIsANumber
  <2>7. Scaled(BaseScore(f), 110) \in Nat
    BY <2>5, ScaledIsANumber
  <2> QED
    BY <2>2, <2>3, <2>4, <2>6, <2>7
<1>3. RiskScore(f, status) =
         CASE status = "false_positive" -> 0
           [] status \in {"validated", "exploited"} -> AtMost(Scaled(sure, 115), 10000)
           [] status = "remediated" -> Scaled(sure, 50)
           [] status = "detected" -> AtMost(sure, 10000)
  BY DEF RiskScore
<1> HIDE DEF sure
<1>4. Scaled(sure, 115) \in Nat /\ Scaled(sure, 50) \in Nat /\ Scaled(sure, 50) <= 10000
  <2>1. Scaled(11000, 50) = 5500
    BY DEF Scaled
  <2>2. Scaled(sure, 50) <= Scaled(11000, 50)
    BY <1>2, ScaledIsMonotone
  <2>3. \A p \in Nat : Scaled(sure, p) \in Nat
    BY <1>2, ScaledIsANumber
  <2>4. Scaled(sure, 115) \in Nat /\ Scaled(sure, 50) \in Nat
    BY <2>3
  <2> QED
    BY <2>1, <2>2, <2>4
<1>5. \A n \in Nat : AtMost(n, 10000) \in Scores
  BY DEF AtMost, Scores
<1>6. 0 \in Scores /\ Scaled(sure, 50) \in Scores
  <2> DEFINE half == Scaled(sure, 50)
  <2>1. half \in Nat /\ half <= 10000
    BY <1>4
  <2> HIDE DEF half
  <2>2. half \in Scores
    <3>1. AtMost(half, 10000) = half
      BY <2>1 DEF AtMost
    <3> QED
      BY <1>5, <2>1, <3>1
  <2>3. 0 \in Scores
    BY DEF Scores
  <2> QED
    BY <2>2, <2>3 DEF half
<1>7. AtMost(sure, 10000) \in Scores /\ AtMost(Scaled(sure, 115), 10000) \in Scores
  BY <1>2, <1>4, <1>5
<1> QED
  BY <1>3, <1>6, <1>7 DEF IntelStatuses

LEMMA AnalysisIsBounded ==
    ASSUME NEW rows \in [Ranked -> LedgerRows]
    PROVE  \A f \in Ranked : Analyzed(rows)[f].risk \in Scores
<1> TAKE f \in Ranked
<1>1. Analyzed(rows)[f].risk = RiskScore(f, rows[f].status)
  BY DEF Analyzed
<1>2. rows[f].status \in IntelStatuses
  BY DEF LedgerRows
<1> QED
  BY <1>1, <1>2, RankedIsTyped, RiskIsBounded

LEMMA FetchedIsTyped ==
    ASSUME IntelTypeOK, NEW cves, NEW online
    PROVE  LET e == Fetched(cves, online)
           IN DOMAIN e \subseteq CveIds /\ \A c \in DOMAIN e : e[c] \in 0..10
<1>1. DOMAIN EpssFeed \subseteq CveIds /\ \A c \in DOMAIN EpssFeed : EpssFeed[c] \in 0..10
  BY IntelAssumption
<1>2. DOMAIN epss \subseteq CveIds /\ \A c \in DOMAIN epss : epss[c] \in 0..10
  BY DEF IntelTypeOK, KnowledgeTypeOK
<1> QED
  BY <1>1, <1>2 DEF Fetched

LEMMA IntelStarts == IntelInit => IntelIInv
<1> SUFFICES ASSUME IntelInit PROVE IntelIInv
  OBVIOUS
<1>1. kev \in Listings /\ exploits \subseteq Exploits /\ DOMAIN epss = {}
  <2>1. kev \in Listings /\ exploits = LoadAll(<< >>) /\ epss = << >>
    BY IntelAssumption DEF IntelInit
  <2> QED
    BY <2>1, SourcesAreExploits, AllAreExploits
<1>2. ledger \in [Ranked -> LedgerRows] /\ copies = {}
  <2>1. \A f \in Ranked : [cves |-> f.named, status |-> "detected"] \in LedgerRows
    BY RankedIsTyped DEF LedgerRows, IntelStatuses
  <2> QED
    BY <2>1 DEF IntelInit
<1>3. \A f \in Ranked : rankings[f].risk \in Scores
  <2>1. rankings = Analyzed(ledger)
    BY DEF IntelInit
  <2> QED
    BY <1>2, <2>1, AnalysisIsBounded
<1>4. upkeep \in 0..MaxUpkeep
  BY IntelAssumption DEF IntelInit
<1>5. /\ kevFile = "none" /\ csvFile = "none" /\ kevStale = FALSE /\ csvStale = FALSE
      /\ loading = "no" /\ outdated = {} /\ enriched = {}
  BY DEF IntelInit
<1>6. KnowledgeTypeOK
  <2>1. \A c \in DOMAIN epss : epss[c] \in 0..10
    BY <1>1
  <2> QED
    BY <1>1, <1>5, <2>1 DEF KnowledgeTypeOK, CacheStates
<1>7. LedgerTypeOK
  BY <1>2, <1>3, <1>5 DEF LedgerTypeOK
<1> QED
  BY <1>4, <1>5, <1>6, <1>7 DEF IntelIInv, IntelTypeOK, MatchesAreNamed

LEMMA BoundHolds ==
    ASSUME IntelIInv, Bounded \/ UNCHANGED upkeep
    PROVE  upkeep' \in 0..MaxUpkeep
<1>1. upkeep \in 0..MaxUpkeep /\ MaxUpkeep \in Nat
  BY IntelAssumption DEF IntelIInv, IntelTypeOK
<1>2. CASE Bounded
  BY <1>1, <1>2 DEF Bounded
<1>3. CASE UNCHANGED upkeep
  BY <1>1, <1>3
<1> QED
  BY <1>2, <1>3

\* A step that leaves the ledger alone keeps the invariant if it leaves what is
\* known typed.
LEMMA LedgerRests ==
    ASSUME IntelIInv, UNCHANGED <<ledger, rankings, outdated, enriched>>,
           copies' = copies \/ copies' = {} \/ copies' = {ledger},
           KnowledgeTypeOK', Bounded \/ UNCHANGED upkeep
    PROVE  IntelIInv'
<1>1. upkeep' \in 0..MaxUpkeep
  BY BoundHolds
<1>2. LedgerTypeOK'
  <2>1. LedgerTypeOK
    BY DEF IntelIInv, IntelTypeOK
  <2>2. copies' \subseteq [Ranked -> LedgerRows]
    BY <2>1 DEF LedgerTypeOK
  <2> QED
    BY <2>1, <2>2 DEF LedgerTypeOK
<1>3. IntelTypeOK'
  BY <1>1, <1>2 DEF IntelTypeOK
<1> QED
  BY <1>3 DEF IntelIInv, MatchesAreNamed

LEMMA RefreshKeeps ==
    ASSUME IntelIInv, RefreshKev \/ ReloadKev \/ RefreshExploits \/ ReloadExploits \/ Age
    PROVE  IntelIInv'
<1>1. KnowledgeTypeOK
  BY DEF IntelIInv, IntelTypeOK
<1>2. CASE RefreshKev
  <2>1. << >> \in Listings
    <3>1. << >> \in [{} -> {"listed", "ransomware"}]
      OBVIOUS
    <3> QED
      BY <3>1 DEF Listings
  <2>2. KnowledgeTypeOK'
    BY <1>1, <1>2, <2>1 DEF RefreshKev, KnowledgeTypeOK, CacheStates
  <2> QED
    BY <1>2, <2>2, LedgerRests DEF RefreshKev, ledgerVars
<1>3. CASE ReloadKev
  <2>1. KnowledgeTypeOK'
    BY <1>1, <1>3, CatalogueIsListed DEF ReloadKev, KnowledgeTypeOK
  <2> QED
    BY <1>3, <2>1, LedgerRests DEF ReloadKev, ledgerVars
<1>4. CASE RefreshExploits
  <2>1. KnowledgeTypeOK'
    BY <1>1, <1>4 DEF RefreshExploits, KnowledgeTypeOK, CacheStates
  <2> QED
    BY <1>4, <2>1, LedgerRests DEF RefreshExploits, ledgerVars
<1>5. CASE ReloadExploits
  <2>1. exploits \in SUBSET Exploits /\ AreExploits(CsvFrom(csvFile)) /\ AreExploits(ExploitSeed)
    BY <1>1, SourcesAreExploits DEF KnowledgeTypeOK
  <2>2. /\ LoadExploits({}, ExploitSeed) \subseteq Exploits
        /\ LoadExploits(exploits, CsvFrom(csvFile)) \subseteq Exploits
    BY <2>1, LoadedAreExploits
  <2>3. exploits' \subseteq Exploits /\ loading' \in {"seeded", "no"}
    BY <1>5, <2>2 DEF ReloadExploits
  <2>4. KnowledgeTypeOK'
    BY <1>1, <1>5, <2>3 DEF ReloadExploits, KnowledgeTypeOK
  <2> QED
    BY <1>5, <2>4, LedgerRests DEF ReloadExploits, ledgerVars
<1>6. CASE Age
  <2>1. KnowledgeTypeOK'
    BY <1>1, <1>6 DEF Age, KnowledgeTypeOK
  <2> QED
    BY <1>6, <2>1, LedgerRests DEF Age, ledgerVars
<1> QED
  BY <1>2, <1>3, <1>4, <1>5, <1>6

LEMMA IntelRestartKeeps == ASSUME IntelIInv, Restart PROVE IntelIInv'
<1>1. KnowledgeTypeOK
  BY DEF IntelIInv, IntelTypeOK
<1>2. /\ kevFile' \in CacheStates /\ csvFile' \in CacheStates
      /\ kevStale' \in BOOLEAN /\ csvStale' \in BOOLEAN
  BY <1>1 DEF Restart, KnowledgeTypeOK, CacheStates
<1>3. kev' \in Listings
  BY CatalogueIsListed DEF Restart
<1>4. exploits' \subseteq Exploits
  <2>1. exploits' = LoadAll(CsvFrom(csvFile'))
    BY DEF Restart
  <2>2. AreExploits(CsvFrom(csvFile'))
    BY <1>2, SourcesAreExploits
  <2> QED
    BY <2>1, <2>2, AllAreExploits
<1>5. loading' = "no" /\ epss' = epss
  BY DEF Restart
<1>6. KnowledgeTypeOK'
  BY <1>1, <1>2, <1>3, <1>4, <1>5 DEF KnowledgeTypeOK
<1> QED
  BY <1>6, LedgerRests DEF Restart

LEMMA FeedFetchKeeps ==
    ASSUME IntelIInv, NEW cves, NEW online, epss' = Fetched(cves, online),
           UNCHANGED <<kev, exploits, kevFile, csvFile, kevStale, csvStale, loading>>
    PROVE  KnowledgeTypeOK'
<1>1. KnowledgeTypeOK
  BY DEF IntelIInv, IntelTypeOK
<1>2. DOMAIN epss' \subseteq CveIds /\ \A c \in DOMAIN epss' : epss'[c] \in 0..10
  BY FetchedIsTyped DEF IntelIInv
<1> QED
  BY <1>1, <1>2 DEF KnowledgeTypeOK

LEMMA LookupsKeep ==
    ASSUME IntelIInv, NEW online, Prioritize(online) \/ BeginEnrichment(online)
    PROVE  IntelIInv'
<1>1. CASE Prioritize(online)
  <2>1. KnowledgeTypeOK'
    BY <1>1, FeedFetchKeeps DEF Prioritize
  <2> QED
    BY <1>1, <2>1, LedgerRests DEF Prioritize, ledgerVars
<1>2. CASE BeginEnrichment(online)
  <2>1. KnowledgeTypeOK'
    BY <1>2, FeedFetchKeeps DEF BeginEnrichment
  <2> QED
    BY <1>2, <2>1, LedgerRests DEF BeginEnrichment
<1> QED
  BY <1>1, <1>2

LEMMA SetStatusKeeps ==
    ASSUME IntelIInv, NEW f \in Ranked, NEW status \in IntelStatuses, SetStatus(f, status)
    PROVE  IntelIInv'
<1>1. LedgerTypeOK /\ KnowledgeTypeOK
  BY DEF IntelIInv, IntelTypeOK
<1>2. ledger' = [ledger EXCEPT ![f].status = status] /\ ledger \in [Ranked -> LedgerRows]
  BY <1>1 DEF SetStatus, LedgerTypeOK
<1>3. ledger' \in [Ranked -> LedgerRows] /\ \A g \in Ranked : ledger'[g].cves = ledger[g].cves
  BY <1>2 DEF LedgerRows
<1>4. LedgerTypeOK' /\ KnowledgeTypeOK' /\ upkeep' \in 0..MaxUpkeep
  <2>1. upkeep' \in 0..MaxUpkeep
    BY BoundHolds DEF SetStatus
  <2>2. KnowledgeTypeOK'
    BY <1>1 DEF SetStatus, knownVars, KnowledgeTypeOK
  <2>3. LedgerTypeOK'
    BY <1>1, <1>3 DEF SetStatus, LedgerTypeOK
  <2> QED
    BY <2>1, <2>2, <2>3
<1>5. MatchesAreNamed'
  <2>1. enriched' = enriched /\ enriched \subseteq Ranked /\ MatchesAreNamed
    BY <1>1 DEF SetStatus, LedgerTypeOK, IntelIInv
  <2> QED
    BY <1>3, <2>1 DEF MatchesAreNamed
<1> QED
  BY <1>4, <1>5 DEF SetStatus, IntelIInv, IntelTypeOK

LEMMA AnalyzeKeeps == ASSUME IntelIInv, Analyze PROVE IntelIInv'
<1>1. LedgerTypeOK /\ KnowledgeTypeOK /\ MatchesAreNamed
  BY DEF IntelIInv, IntelTypeOK
<1>2. \A f \in Ranked : Analyzed(ledger)[f].risk \in Scores
  BY <1>1, AnalysisIsBounded DEF LedgerTypeOK
<1>3. LedgerTypeOK'
  BY <1>1, <1>2 DEF Analyze, LedgerTypeOK
<1>4. KnowledgeTypeOK'
  BY <1>1 DEF Analyze, knownVars, KnowledgeTypeOK
<1>5. upkeep' \in 0..MaxUpkeep
  BY BoundHolds DEF Analyze
<1>6. MatchesAreNamed' /\ outdated' = ServiceFindings(Ranked)
  BY <1>1 DEF Analyze, MatchesAreNamed
<1> QED
  BY <1>3, <1>4, <1>5, <1>6 DEF IntelIInv, IntelTypeOK

LEMMA KnownIsKnowledge == KnowledgeTypeOK => IsKnowledge(Known)
BY DEF KnowledgeTypeOK, IsKnowledge, Known

LEMMA SaveEnrichmentKeeps == ASSUME IntelIInv, SaveEnrichment PROVE IntelIInv'
<1>1. LedgerTypeOK /\ KnowledgeTypeOK
  BY DEF IntelIInv, IntelTypeOK
<1> DEFINE row == CHOOSE r \in copies : TRUE
           saved == [f \in Ranked |-> [row[f] EXCEPT !.cves = EnrichFinding(Known, f, @)]]
<1>2. /\ copies # {} /\ copies' = {}
      /\ ledger' = IF Outdated(Ranked) = {} THEN ledger ELSE saved
      /\ enriched' = {f \in Ranked : NamesService(f) # {}}
      /\ UNCHANGED <<rankings, outdated, upkeep, knownVars>>
  BY DEF SaveEnrichment
<1>3. row \in [Ranked -> LedgerRows]
  <2>1. row \in copies
    BY <1>2
  <2> QED
    BY <1>1, <2>1 DEF LedgerTypeOK
<1> HIDE DEF row
<1>4. \A f \in Ranked : row[f].cves \in Seq(CveIds) /\ row[f].status \in IntelStatuses
                         /\ row[f] = [cves |-> row[f].cves, status |-> row[f].status]
  BY <1>3 DEF LedgerRows
<1>5. ASSUME NEW f \in Ranked
      PROVE  /\ saved[f] = [cves |-> EnrichFinding(Known, f, row[f].cves),
                            status |-> row[f].status]
             /\ EnrichFinding(Known, f, row[f].cves) \in Seq(CveIds)
             /\ NamesService(f) # {} => \A fix \in MatchedBy(ServiceOf(f)) :
                  fix.cve \in Range(EnrichFinding(Known, f, row[f].cves))
  <2>1. IsKnowledge(Known) /\ row[f].cves \in Seq(CveIds)
    BY <1>1, <1>4, KnownIsKnowledge
  <2>2. /\ EnrichFinding(Known, f, row[f].cves) \in Seq(CveIds)
        /\ f \in Outdated({f}) => \A fix \in MatchedBy(ServiceOf(f)) :
              fix.cve \in Range(EnrichFinding(Known, f, row[f].cves))
    BY <2>1, EnrichingNames
  <2>3. NamesService(f) # {} => f \in Outdated({f}) \/ MatchedBy(ServiceOf(f)) = {}
    BY DEF Outdated
  <2>4. saved[f] = [row[f] EXCEPT !.cves = EnrichFinding(Known, f, row[f].cves)]
    OBVIOUS
  <2>5. \A r \in LedgerRows : \A c : [r EXCEPT !.cves = c] = [cves |-> c, status |-> r.status]
    BY DEF LedgerRows
  <2>6. row[f] \in LedgerRows
    BY <1>3
  <2>7. saved[f] = [cves |-> EnrichFinding(Known, f, row[f].cves), status |-> row[f].status]
    BY <2>4, <2>5, <2>6
  <2> QED
    BY <2>2, <2>3, <2>7
<1>6. saved \in [Ranked -> LedgerRows]
  <2>1. ASSUME NEW f \in Ranked PROVE saved[f] \in LedgerRows
    <3>1. \A x \in Seq(CveIds), y \in IntelStatuses : [cves |-> x, status |-> y] \in LedgerRows
      BY DEF LedgerRows
    <3>2. /\ EnrichFinding(Known, f, row[f].cves) \in Seq(CveIds)
          /\ row[f].status \in IntelStatuses
      BY <1>4, <1>5
    <3>3. saved[f] = [cves |-> EnrichFinding(Known, f, row[f].cves), status |-> row[f].status]
      BY <1>5
    <3> HIDE DEF saved
    <3> QED
      BY <3>1, <3>2, <3>3
  <2>2. saved = [f \in Ranked |-> saved[f]]
    OBVIOUS
  <2> HIDE DEF saved
  <2> QED
    BY <2>1, <2>2
<1> HIDE DEF saved
<1>7. LedgerTypeOK'
  <2>1. ledger' \in [Ranked -> LedgerRows]
    BY <1>1, <1>2, <1>6 DEF LedgerTypeOK
  <2> QED
    BY <1>1, <1>2, <2>1 DEF LedgerTypeOK
<1>8. KnowledgeTypeOK' /\ upkeep' \in 0..MaxUpkeep
  <2>1. upkeep' \in 0..MaxUpkeep
    BY <1>2, BoundHolds
  <2> QED
    BY <1>1, <1>2, <2>1 DEF knownVars, KnowledgeTypeOK
<1>9. MatchesAreNamed'
  <2>1. ASSUME NEW f \in Ranked, NamesService(f) # {}, NEW fix \in MatchedBy(ServiceOf(f))
        PROVE  fix.cve \in Range(ledger'[f].cves)
    <3>1. f \in Outdated(Ranked)
      BY <2>1 DEF Outdated
    <3>2. ledger' = saved
      BY <1>2, <3>1
    <3>3. ledger'[f].cves = EnrichFinding(Known, f, row[f].cves)
      <4>1. saved[f] = [cves |-> EnrichFinding(Known, f, row[f].cves), status |-> row[f].status]
        BY <1>5
      <4>2. \A x, y : [cves |-> x, status |-> y].cves = x
        OBVIOUS
      <4> QED
        BY <3>2, <4>1, <4>2
    <3>4. fix.cve \in Range(EnrichFinding(Known, f, row[f].cves))
      BY <1>5, <2>1
    <3> QED
      BY <3>3, <3>4
  <2> QED
    BY <1>2, <2>1 DEF MatchesAreNamed
<1> QED
  BY <1>2, <1>7, <1>8, <1>9 DEF IntelIInv, IntelTypeOK

(***************************************************************************)
(* The invariant holds for any catalogues, findings and seed, whatever is  *)
(* refreshed, torn, restarted or saved over.                               *)
(***************************************************************************)
THEOREM IntelInvariance == IntelSpec => []IntelIInv
<1>1. IntelIInv /\ [IntelNext]_intelVars => IntelIInv'
  <2> SUFFICES ASSUME IntelIInv, [IntelNext]_intelVars PROVE IntelIInv'
    OBVIOUS
  <2>1. CASE IntelNext
    <3>1. RefreshStale => RefreshKev \/ RefreshExploits
      BY DEF RefreshStale
    <3> QED
      BY <2>1, <3>1, RefreshKeeps, IntelRestartKeeps, LookupsKeep, SetStatusKeeps, AnalyzeKeeps,
         SaveEnrichmentKeeps DEF IntelNext
  <2>2. CASE UNCHANGED intelVars
    BY <2>2 DEF intelVars, knownVars, ledgerVars, IntelIInv, IntelTypeOK, KnowledgeTypeOK,
                LedgerTypeOK, MatchesAreNamed
  <2> QED
    BY <2>1, <2>2
<1> QED
  BY <1>1, IntelStarts, PTL DEF IntelSpec

\* Catalogues, ledger and scores are typed.
THEOREM IntelTypeCorrect == IntelSpec => []IntelTypeOK
<1>1. IntelIInv => IntelTypeOK
  BY DEF IntelIInv
<1> QED
  BY <1>1, IntelInvariance, PTL

(***************************************************************************)
(* Evidence of exploitation counts as it should, and no outdated service   *)
(* that was matched goes unnamed or unreported, for any catalogues, feeds, *)
(* findings and versions.                                                  *)
(***************************************************************************)
THEOREM EvidenceAlwaysCounts == IntelSpec => []EvidenceCounts
<1>1. IntelIInv => EvidenceCounts
  <2> SUFFICES ASSUME IntelIInv PROVE EvidenceCounts
    OBVIOUS
  <2>1. LedgerTypeOK /\ IsKnowledge(Known)
    BY KnownIsKnowledge DEF IntelIInv, IntelTypeOK
  <2>2. ASSUME NEW f \in Ranked
        PROVE  /\ RanksByEvidence(f, ledger[f].cves, ledger[f].status)
               /\ RanksHigh(f, ledger[f].cves)
               /\ IsUrgent(f, ledger[f].cves, ledger[f].status)
    <3>1. ledger[f].cves \in Seq(CveIds) /\ ledger[f].status \in IntelStatuses
      BY <2>1 DEF LedgerTypeOK, LedgerRows
    <3> QED
      BY <2>1, <3>1, RankedIsTyped, EveryRankIsFair
  <2>3. ASSUME NEW f \in enriched, NEW fix \in Overdue(ServiceOf(f))
        PROVE  fix.cve \in Range(ledger[f].cves)
    <3>1. f \in Ranked /\ NamesService(f) # {}
      BY <2>1 DEF LedgerTypeOK, IntelIInv, MatchesAreNamed
    <3>2. fix \in MatchedBy(ServiceOf(f))
      BY <3>1, ServiceIsTyped, OverdueIsMatched
    <3> QED
      BY <3>2 DEF IntelIInv, MatchesAreNamed
  <2>4. ASSUME outdated # {}, NEW f \in Ranked, NamesService(f) # {},
               NEW fix \in Overdue(ServiceOf(f))
        PROVE  \E o \in outdated : /\ o.product = Canon(ServiceOf(f).product)
                                   /\ o.version = ServiceOf(f).version
                                   /\ o.severity >= fix.severity
    <3>1. outdated = ServiceFindings(Ranked)
      BY <2>4 DEF IntelIInv
    <3> QED
      BY <2>4, <3>1, OutdatedIsReported
  <2> QED
    BY <2>2, <2>3, <2>4 DEF EvidenceCounts
<1> QED
  BY <1>1, IntelInvariance, PTL

-----------------------------------------------------------------------------
(***************************************************************************)
(* Source code.  What is found in a line.                                  *)
(***************************************************************************)
\* What is found of one more match, and of the first matches of a line.
Finds(line, m, found) ==
    IF Secret(line[m]) /\ (Generic(line[m]) =>
                              \A k \in found : ~Overlap(line[m].value, line[k].value))
    THEN found \union {m} ELSE found

Searches(line, n, b) ==
    b = [m \in 0..n |-> IF m = 0 THEN {} ELSE Finds(line, m, b[m - 1])]

LEMMA SearchesExist ==
    ASSUME NEW line, NEW n \in Nat
    PROVE  \E b : Searches(line, n, b)
<1> DEFINE Odd == {m \in Nat : ~ \E b : Searches(line, m, b)}
<1> SUFFICES ASSUME Odd # {} PROVE FALSE
  OBVIOUS
<1>1. PICK m \in Odd : \A k \in Odd : m <= k
  <2> HIDE DEF Odd
  <2>1. Odd \in SUBSET Nat
    BY DEF Odd
  <2> QED
    BY <2>1, FirstOfPositions
<1>2. m \in Nat /\ ~ \E b : Searches(line, m, b)
  BY <1>1
<1>3. CASE m = 0
  <2>1. 0..0 = {0}
    OBVIOUS
  <2>2. Searches(line, m, [k \in {0} |-> {}])
    BY <1>3, <2>1 DEF Searches
  <2> QED
    BY <1>2, <2>2
<1>4. CASE m # 0
  <2>1. m - 1 \in Nat /\ m - 1 \notin Odd
    BY <1>1, <1>2, <1>4
  <2>2. PICK b : Searches(line, m - 1, b)
    BY <2>1
  <2> DEFINE at(k) == IF k = 0 THEN {} ELSE Finds(line, k, b[k - 1])
             d == [k \in 0..m |-> at(k)]
  <2>3. \A k \in 0..(m - 1) : b[k] = at(k) /\ d[k] = at(k)
    <3>1. \A k \in 0..(m - 1) : b[k] = at(k)
      BY <2>2 DEF Searches
    <3>2. \A k \in 0..(m - 1) : k \in 0..m
      BY <1>2
    <3> QED
      BY <3>1, <3>2
  <2>4. \A k \in 0..m : k # 0 => k - 1 \in 0..(m - 1)
    BY <1>2
  <2>5. \A k \in 0..m : k # 0 => d[k - 1] = b[k - 1]
    BY <2>3, <2>4
  <2>6. Searches(line, m, d)
    BY <2>5 DEF Searches
  <2> QED
    BY <1>2, <2>6
<1> QED
  BY <1>3, <1>4

\* What is found is a secret, and a secret that is not is a value of the generic
\* rule in a line where something is.
LineIsSearched(line, n, found) ==
    /\ \A k \in found : k \in 1..n /\ Secret(line[k])
    /\ \A k \in 1..n : Secret(line[k]) => k \in found \/ (Generic(line[k]) /\ found # {})

LEMMA EveryLineIsSearched ==
    ASSUME NEW line, Len(line) \in Nat
    PROVE  LineIsSearched(line, Len(line), Found(line))
<1> DEFINE n == Len(line)
           b == CHOOSE c : Searches(line, n, c)
<1>1. Searches(line, n, b)
  BY SearchesExist
<1>2. Found(line) = b[n]
  BY DEF Found, Searches, Finds
<1> HIDE DEF b, n
<1> DEFINE Odd == {k \in 0..n : ~LineIsSearched(line, k, b[k])}
<1>3. n \in Nat
  BY DEF n
<1>4. Odd = {}
  <2> SUFFICES ASSUME Odd # {} PROVE FALSE
    OBVIOUS
  <2>1. PICK m \in Odd : \A k \in Odd : m <= k
    <3> HIDE DEF Odd
    <3>1. Odd \in SUBSET Nat
      BY <1>3 DEF Odd
    <3> QED
      BY <3>1, FirstOfPositions
  <2>2. m \in 0..n /\ ~LineIsSearched(line, m, b[m])
    BY <2>1
  <2>3. m # 0
    <3>1. b[0] = {} /\ 1..0 = {}
      BY <1>1, <1>3 DEF Searches
    <3>2. LineIsSearched(line, 0, b[0])
      BY <3>1 DEF LineIsSearched
    <3> QED
      BY <2>2, <3>2
  <2>4. m - 1 \in 0..n /\ m - 1 \notin Odd
    BY <1>3, <2>1, <2>2, <2>3
  <2>5. LineIsSearched(line, m - 1, b[m - 1])
    BY <2>4
  <2>6. b[m] = Finds(line, m, b[m - 1])
    BY <1>1, <2>2, <2>3 DEF Searches
  <2>7. 1..m = (1..(m - 1)) \union {m}
    BY <1>3, <2>2, <2>3
  <2>8. LineIsSearched(line, m, b[m])
    <3> DEFINE old == b[m - 1]
    <3>1. /\ \A k \in old : k \in 1..m /\ Secret(line[k])
          /\ \A k \in 1..(m - 1) : Secret(line[k]) => k \in old \/ (Generic(line[k]) /\ old # {})
      BY <2>5, <2>7 DEF LineIsSearched
    <3>2. b[m] = old \/ (Secret(line[m]) /\ b[m] = old \union {m})
      BY <2>6 DEF Finds
    <3>3. Secret(line[m]) /\ b[m] = old => m \in b[m] \/ (Generic(line[m]) /\ b[m] # {})
      BY <2>6 DEF Finds
    <3> HIDE DEF old
    <3> QED
      BY <2>7, <3>1, <3>2, <3>3 DEF LineIsSearched
  <2> QED
    BY <2>2, <2>8
<1> QED
  BY <1>2, <1>3, <1>4 DEF n

-----------------------------------------------------------------------------
(***************************************************************************)
(* Source code.  Numbering what a search has found.                        *)
(***************************************************************************)
LEMMA ImageIsFinite ==
    ASSUME NEW f, IsFiniteSet(DOMAIN f)
    PROVE  IsFiniteSet({f[x] : x \in DOMAIN f})
<1> DEFINE S == DOMAIN f
           T == {f[x] : x \in S}
           g == [x \in S |-> f[x]]
<1>1. g \in Surjection(S, T)
  BY DEF Surjection
<1> QED
  BY <1>1, FS_Surjection

LEMMA UnionIsFinite ==
    ASSUME NEW f, IsFiniteSet(DOMAIN f), \A x \in DOMAIN f : IsFiniteSet(f[x])
    PROVE  IsFiniteSet(UNION {f[x] : x \in DOMAIN f})
<1>1. IsFiniteSet({f[x] : x \in DOMAIN f})
  BY ImageIsFinite
<1> QED
  BY <1>1, FS_UNION

\* How many come before one of a finite set in a strict order.
NumberOf(S, R, p) == Cardinality({q \in S : <<q, p>> \in R})

LEMMA NumbersAreApart ==
    ASSUME NEW S, IsFiniteSet(S), NEW R, StrictOrder(S, R)
    PROVE  /\ \A p \in S : NumberOf(S, R, p) \in Nat /\ NumberOf(S, R, p) < Cardinality(S)
           /\ \A p, q \in S : NumberOf(S, R, p) = NumberOf(S, R, q) => p = q
<1> DEFINE below(p) == {q \in S : <<q, p>> \in R}
<1>1. ASSUME NEW p \in S
      PROVE  /\ IsFiniteSet(below(p)) /\ Cardinality(below(p)) \in Nat
             /\ Cardinality(below(p)) < Cardinality(S)
  <2>1. below(p) \in SUBSET S /\ below(p) # S
    BY DEF StrictOrder
  <2>2. Cardinality(S) \in Nat
    BY FS_CardinalityType
  <2> HIDE DEF below
  <2>3. /\ IsFiniteSet(below(p)) /\ Cardinality(below(p)) <= Cardinality(S)
        /\ Cardinality(below(p)) # Cardinality(S)
    BY <2>1, FS_Subset
  <2>4. Cardinality(below(p)) \in Nat
    BY <2>3, FS_CardinalityType
  <2> QED
    BY <2>2, <2>3, <2>4
<1>2. ASSUME NEW p \in S, NEW q \in S, <<p, q>> \in R
      PROVE  Cardinality(below(p)) < Cardinality(below(q))
  <2>1. below(p) \in SUBSET below(q) /\ p \in below(q) /\ p \notin below(p)
    BY <1>2 DEF StrictOrder
  <2> HIDE DEF below
  <2>2. IsFiniteSet(below(q)) /\ below(p) # below(q)
    BY <1>1, <2>1
  <2>3. /\ Cardinality(below(p)) <= Cardinality(below(q))
        /\ Cardinality(below(p)) # Cardinality(below(q))
    BY <2>1, <2>2, FS_Subset
  <2> QED
    BY <1>1, <2>3
<1>3. \A p : NumberOf(S, R, p) = Cardinality(below(p))
  BY DEF NumberOf
<1> HIDE DEF below
<1>4. ASSUME NEW p \in S, NEW q \in S, NumberOf(S, R, p) = NumberOf(S, R, q), p # q PROVE FALSE
  <2>1. <<p, q>> \in R \/ <<q, p>> \in R
    BY <1>4 DEF StrictOrder
  <2>2. Cardinality(below(p)) = Cardinality(below(q)) /\ Cardinality(below(p)) \in Nat
    BY <1>1, <1>3, <1>4
  <2> QED
    BY <1>2, <2>1, <2>2
<1> QED
  BY <1>1, <1>3, <1>4

\* The places of a tree, in the order they are searched.
Triples == Nat \X Nat \X Nat
Searching(S) == {pair \in S \X S : Before(pair[1], pair[2])}

LEMMA SearchingIsStrict ==
    ASSUME NEW S \in SUBSET Triples
    PROVE  StrictOrder(S, Searching(S))
<1>1. \A p, q : Before(p, q) <=> \/ p[1] < q[1]
                                 \/ p[1] = q[1] /\ p[2] < q[2]
                                 \/ p[1] = q[1] /\ p[2] = q[2] /\ p[3] < q[3]
  <2> SUFFICES ASSUME NEW p, NEW q
               PROVE  Before(p, q) <=> \/ p[1] < q[1]
                                       \/ p[1] = q[1] /\ p[2] < q[2]
                                       \/ p[1] = q[1] /\ p[2] = q[2] /\ p[3] < q[3]
    OBVIOUS
  <2> DEFINE at(i) == p[i] < q[i] /\ \A j \in 1..(i - 1) : p[j] = q[j]
  <2>1. at(1) <=> p[1] < q[1]
    OBVIOUS
  <2>2. at(2) <=> p[1] = q[1] /\ p[2] < q[2]
    OBVIOUS
  <2>3. at(3) <=> p[1] = q[1] /\ p[2] = q[2] /\ p[3] < q[3]
    OBVIOUS
  <2>4. Before(p, q) <=> \E i \in 1..3 : at(i)
    BY DEF Before
  <2>5. 1..3 = {1, 2, 3}
    OBVIOUS
  <2> HIDE DEF at
  <2> QED
    BY <2>1, <2>2, <2>3, <2>4, <2>5
<1>2. \A p \in S : p[1] \in Nat /\ p[2] \in Nat /\ p[3] \in Nat
  BY DEF Triples
<1>3. \A p, q \in S : p[1] = q[1] /\ p[2] = q[2] /\ p[3] = q[3] => p = q
  BY DEF Triples
<1>4. \A p, q \in S : <<p, q>> \in Searching(S) <=> Before(p, q)
  BY DEF Searching
<1>5. \A p, q \in S : p # q => Before(p, q) \/ Before(q, p)
  BY <1>1, <1>2, <1>3
<1>6. \A p, q \in S : Before(p, q) => ~Before(q, p)
  BY <1>1, <1>2
<1>7. \A p, q, r \in S : Before(p, q) /\ Before(q, r) => Before(p, r)
  BY <1>1, <1>2
<1> QED
  BY <1>4, <1>5, <1>6, <1>7 DEF StrictOrder

-----------------------------------------------------------------------------
(***************************************************************************)
(* Source code.  A search, and its findings on record.                     *)
(***************************************************************************)
LEMMA CodeFindingIs ==
    ASSUME NEW category, NEW severity \in Severities, NEW location, NEW tool
    PROVE  /\ IsFinding(CodeFinding(category, severity, location, tool))
           /\ CodeFinding(category, severity, location, tool).location = location
           /\ CodeFinding(category, severity, location, tool).severity = severity
<1> DEFINE f == CodeFinding(category, severity, location, tool)
<1>1. f = NewFinding(CodeAsset, location, category, severity, location, "none", {tool})
  BY DEF CodeFinding
<1> HIDE DEF f
<1>2. /\ f.asset = CodeAsset /\ f.title = location /\ f.category = category
      /\ f.severity = severity /\ f.location = location /\ f.cwe = "none" /\ f.tools = {tool}
  BY <1>1 DEF NewFinding
<1>3. f = NewFinding(f.asset, f.title, f.category, f.severity, f.location, f.cwe, f.tools)
  BY <1>1, <1>2
<1>4. CodeAsset = [type |-> CodeAsset.type, identifier |-> CodeAsset.identifier]
      /\ CodeAsset.type # "none"
  BY DEF CodeAsset
<1>5. IsFinding(f)
  BY <1>2, <1>3, <1>4 DEF IsFinding
<1> QED
  BY <1>2, <1>5 DEF f

\* Findings that can be folded into an empty register.
Numbered(findings) ==
    /\ DOMAIN findings \in SUBSET Nat
    /\ IsFiniteSet(DOMAIN findings)
    /\ \A n \in DOMAIN findings : IsFinding(findings[n])

\* A record that says so.
Tells(index, location, severity) ==
    \E k \in DOMAIN index : index[k].location = location /\ index[k].severity >= severity

LEMMA NumberedAreOrdered ==
    ASSUME NEW findings, Numbered(findings) PROVE Ordered(findings)
<1> SUFFICES ASSUME NEW k, {n \in DOMAIN findings : DedupKey(findings[n]) = k} # {}
             PROVE  \E i \in {n \in DOMAIN findings : DedupKey(findings[n]) = k} :
                       \A m \in {n \in DOMAIN findings : DedupKey(findings[n]) = k} \ {i} : i < m
  BY DEF Ordered
<1> DEFINE S == {n \in DOMAIN findings : DedupKey(findings[n]) = k}
<1>1. S \in SUBSET Nat /\ S # {}
  BY DEF Numbered
<1> HIDE DEF S
<1>2. PICK i \in S : \A m \in S : i <= m
  BY <1>1, FirstOfPositions
<1>3. \A m \in S \ {i} : i < m
  <2> SUFFICES ASSUME NEW m \in S \ {i} PROVE i < m
    OBVIOUS
  <2>1. i \in Nat /\ m \in Nat /\ i <= m /\ i # m
    BY <1>1, <1>2
  <2> QED
    BY <2>1
<1> QED
  BY <1>3 DEF S

LEMMA NumberedAreTold ==
    ASSUME NEW findings, Numbered(findings), NEW n \in DOMAIN findings,
           NEW s \in Int, s <= findings[n].severity
    PROVE  Tells(AddFindings(<< >>, findings), findings[n].location, s)
<1> DEFINE index == AddFindings(<< >>, findings)
           k == DedupKey(findings[n])
<1>1. IsIndex(<< >>)
  BY FS_EmptySet DEF IsIndex
<1>2. Joins(<< >>, findings, index)
  BY <1>1, NumberedAreOrdered, FindingsJoin DEF Numbered
<1> HIDE DEF index
<1>3. k \in DOMAIN index /\ IsFinding(index[k]) /\ DedupKey(index[k]) = k
  BY <1>2 DEF Joins, IsIndex
<1>4. findings[n] \in Joining(findings, k)
  BY DEF Joining
<1>5. findings[n].severity <= index[k].severity
  BY <1>2, <1>3, <1>4 DEF Joins
<1>6. index[k].location = findings[n].location
  <2>1. DedupKey(index[k]) = DedupKey(findings[n])
    BY <1>3
  <2> QED
    BY <2>1 DEF DedupKey
<1>7. index[k].severity \in Int /\ findings[n].severity \in Int
  BY <1>3, SeverityIsANumber DEF Numbered
<1>8. index[k].severity >= s
  BY <1>5, <1>7
<1>9. Tells(index, findings[n].location, s)
  BY <1>3, <1>6, <1>8 DEF Tells
<1> QED
  BY <1>9 DEF index

-----------------------------------------------------------------------------
(***************************************************************************)
(* Source code.  Secrets.                                                  *)
(***************************************************************************)
LEMMA TreeIsTyped ==
    ASSUME NEW tree \in Trees
    PROVE  /\ tree.archive \/ DOMAIN tree.files = {1}
           /\ DOMAIN tree.files \in SUBSET Nat /\ IsFiniteSet(DOMAIN tree.files)
           /\ \A i \in DOMAIN tree.files :
                 /\ DOMAIN tree.files[i].lines \in SUBSET Nat
                 /\ IsFiniteSet(DOMAIN tree.files[i].lines)
                 /\ \A n \in DOMAIN tree.files[i].lines : tree.files[i].lines[n] \in Seq(Matches)
<1>1. /\ tree \in [archive : BOOLEAN, corrupt : BOOLEAN, files : Seq(SourceFiles)]
      /\ tree.archive \/ Len(tree.files) = 1
  BY CodeScanAssumption
<1>2. \A S, s : s \in Seq(S) =>
         /\ Len(s) \in Nat /\ DOMAIN s = 1..Len(s)
         /\ DOMAIN s \in SUBSET Nat /\ IsFiniteSet(DOMAIN s) /\ \A n \in DOMAIN s : s[n] \in S
  <2> SUFFICES ASSUME NEW S, NEW s \in Seq(S)
               PROVE  /\ Len(s) \in Nat /\ DOMAIN s = 1..Len(s)
                      /\ DOMAIN s \in SUBSET Nat /\ IsFiniteSet(DOMAIN s)
                      /\ \A n \in DOMAIN s : s[n] \in S
    OBVIOUS
  <2>1. Len(s) \in Nat /\ DOMAIN s = 1..Len(s) /\ \A n \in DOMAIN s : s[n] \in S
    OBVIOUS
  <2>2. IsFiniteSet(1..Len(s))
    BY <2>1, FS_Interval
  <2>3. DOMAIN s \in SUBSET Nat
    BY <2>1
  <2> QED
    BY <2>1, <2>2, <2>3
<1>3. tree.files \in Seq(SourceFiles)
  BY <1>1
<1>4. \A f \in SourceFiles : f.lines \in Seq(Seq(Matches))
  BY DEF SourceFiles
<1>5. tree.archive \/ DOMAIN tree.files = {1}
  BY <1>1, <1>2, <1>3
<1>6. ASSUME NEW i \in DOMAIN tree.files
      PROVE  /\ DOMAIN tree.files[i].lines \in SUBSET Nat
             /\ IsFiniteSet(DOMAIN tree.files[i].lines)
             /\ \A n \in DOMAIN tree.files[i].lines : tree.files[i].lines[n] \in Seq(Matches)
  <2>1. tree.files[i].lines \in Seq(Seq(Matches))
    BY <1>2, <1>3, <1>4
  <2> QED
    BY <1>2, <2>1
<1> QED
  BY <1>2, <1>3, <1>5, <1>6

SearchedFiles(tree) == {i \in Unpacked(tree) : Searched(tree.files[i])}

LEMMA NamesAreApart ==
    ASSUME NEW tree \in Trees, NEW i \in Unpacked(tree), NEW j \in Unpacked(tree),
           tree.files[i].name = tree.files[j].name
    PROVE  i = j
<1>1. i \in DOMAIN tree.files /\ j \in DOMAIN tree.files
  BY DEF Unpacked
<1>2. CASE tree.archive
  <2>1. tree.files[i].inside /\ tree.files[j].inside
    BY <1>2 DEF Unpacked
  <2>2. i <= j /\ j <= i
    BY <1>1, <1>2, <2>1 DEF Unpacked
  <2>3. i \in Nat /\ j \in Nat
    BY <1>1, TreeIsTyped
  <2> QED
    BY <2>2, <2>3
<1>3. CASE ~tree.archive
  BY <1>1, <1>3, TreeIsTyped
<1> QED
  BY <1>2, <1>3

LEMMA SecretsAreFinite == ASSUME NEW tree \in Trees PROVE IsFiniteSet(SecretsOf(tree))
<1> DEFINE inLine(i, n) == {[location |-> <<tree.files[i].name, n>>, rule |-> h.rule] :
                              h \in {g \in Range(tree.files[i].lines[n]) : Secret(g)}}
           lines(i) == DOMAIN tree.files[i].lines
           files == SearchedFiles(tree)
<1>1. ASSUME NEW i \in files, NEW n \in lines(i) PROVE IsFiniteSet(inLine(i, n))
  <2> DEFINE line == tree.files[i].lines[n]
             secrets == {g \in Range(line) : Secret(g)}
             at(h) == [location |-> <<tree.files[i].name, n>>, rule |-> h.rule]
             marks == [h \in secrets |-> at(h)]
  <2>1. i \in DOMAIN tree.files
    BY DEF SearchedFiles, Unpacked
  <2>2. line \in Seq(Matches)
    BY <2>1, TreeIsTyped
  <2>3. IsFiniteSet(Range(line))
    <3>1. Len(line) \in Nat /\ DOMAIN line = 1..Len(line)
      BY <2>2
    <3>2. IsFiniteSet(DOMAIN line)
      BY <3>1, FS_Interval
    <3> HIDE DEF line
    <3> QED
      BY <3>2, ImageIsFinite DEF Range
  <2>4. IsFiniteSet(secrets)
    <3>1. secrets \in SUBSET Range(line)
      OBVIOUS
    <3> HIDE DEF secrets, line
    <3> QED
      BY <2>3, <3>1, FS_Subset
  <2>5. DOMAIN marks = secrets
    OBVIOUS
  <2>6. inLine(i, n) = {marks[h] : h \in secrets}
    OBVIOUS
  <2> HIDE DEF secrets, marks, inLine
  <2> QED
    BY <2>4, <2>5, <2>6, ImageIsFinite
<1>2. ASSUME NEW i \in files PROVE IsFiniteSet(UNION {inLine(i, n) : n \in lines(i)})
  <2> DEFINE parts == [n \in lines(i) |-> inLine(i, n)]
  <2>1. i \in DOMAIN tree.files
    BY DEF SearchedFiles, Unpacked
  <2>2. IsFiniteSet(lines(i))
    BY <2>1, TreeIsTyped
  <2> HIDE DEF inLine, lines, files
  <2>3. DOMAIN parts = lines(i) /\ \A n \in DOMAIN parts : IsFiniteSet(parts[n])
    BY <1>1
  <2>4. {inLine(i, n) : n \in lines(i)} = {parts[n] : n \in DOMAIN parts}
    OBVIOUS
  <2> HIDE DEF parts
  <2> QED
    BY <2>2, <2>3, <2>4, UnionIsFinite
<1>3. IsFiniteSet(files)
  <2>1. files \in SUBSET (DOMAIN tree.files)
    BY DEF SearchedFiles, Unpacked
  <2> QED
    BY <2>1, TreeIsTyped, FS_Subset
<1>4. SecretsOf(tree) = UNION {UNION {inLine(i, n) : n \in lines(i)} : i \in files}
  BY DEF SecretsOf, SearchedFiles
<1> HIDE DEF inLine, lines, files
<1> DEFINE parts == [i \in files |-> UNION {inLine(i, n) : n \in lines(i)}]
<1>5. DOMAIN parts = files /\ \A i \in DOMAIN parts : IsFiniteSet(parts[i])
  BY <1>2
<1>6. {UNION {inLine(i, n) : n \in lines(i)} : i \in files} = {parts[i] : i \in DOMAIN parts}
  OBVIOUS
<1> HIDE DEF parts
<1>7. IsFiniteSet(UNION {parts[i] : i \in DOMAIN parts})
  BY <1>3, <1>5, UnionIsFinite
<1> QED
  BY <1>4, <1>6, <1>7

\* A match that is a hit: the first one of its rule among those found in its line.
LineOf(tree, i, n) == tree.files[i].lines[n]
IsHit(tree, i, n, m) ==
    /\ i \in SearchedFiles(tree) /\ n \in DOMAIN tree.files[i].lines
    /\ m \in Found(LineOf(tree, i, n))
    /\ \A k \in Found(LineOf(tree, i, n)) :
         LineOf(tree, i, n)[k].rule = LineOf(tree, i, n)[m].rule => m <= k

LEMMA HitPlacesAre ==
    ASSUME NEW tree, NEW p
    PROVE  p \in HitPlaces(tree) <=> \E i, n, m : p = <<i, n, m>> /\ IsHit(tree, i, n, m)
BY DEF HitPlaces, IsHit, LineOf, SearchedFiles

LEMMA HitIsASecret ==
    ASSUME NEW tree \in Trees, NEW i, NEW n, NEW m, IsHit(tree, i, n, m)
    PROVE  /\ i \in DOMAIN tree.files /\ i \in Unpacked(tree) /\ i \in Nat /\ n \in Nat /\ m \in Nat
           /\ LineOf(tree, i, n) \in Seq(Matches) /\ m \in DOMAIN LineOf(tree, i, n)
           /\ LineOf(tree, i, n)[m] \in Matches /\ Secret(LineOf(tree, i, n)[m])
           /\ [location |-> <<tree.files[i].name, n>>, rule |-> LineOf(tree, i, n)[m].rule]
                 \in SecretsOf(tree)
<1> DEFINE line == LineOf(tree, i, n)
<1>1. i \in SearchedFiles(tree) /\ n \in DOMAIN tree.files[i].lines /\ m \in Found(line)
  BY DEF IsHit
<1>2. i \in DOMAIN tree.files /\ i \in Unpacked(tree)
  BY <1>1 DEF SearchedFiles, Unpacked
<1>3. line \in Seq(Matches) /\ i \in Nat /\ n \in Nat
  BY <1>1, <1>2, TreeIsTyped DEF LineOf
<1>4. LineIsSearched(line, Len(line), Found(line))
  <2>1. Len(line) \in Nat
    BY <1>3
  <2> QED
    BY <2>1, EveryLineIsSearched
<1>5. m \in 1..Len(line) /\ Secret(line[m])
  BY <1>1, <1>4 DEF LineIsSearched
<1> HIDE DEF line
<1>6. m \in Nat /\ m \in DOMAIN line /\ line[m] \in Matches
  BY <1>3, <1>5
<1>7. line[m] \in Range(line)
  BY <1>6 DEF Range
<1>8. [location |-> <<tree.files[i].name, n>>, rule |-> line[m].rule] \in SecretsOf(tree)
  <2> DEFINE h == line[m]
             inLine(j, k) == {[location |-> <<tree.files[j].name, k>>, rule |-> g.rule] :
                                g \in {f \in Range(tree.files[j].lines[k]) : Secret(f)}}
  <2>1. [location |-> <<tree.files[i].name, n>>, rule |-> h.rule] \in inLine(i, n)
    BY <1>5, <1>7 DEF line, LineOf
  <2>2. SecretsOf(tree) = UNION {UNION {inLine(j, k) : k \in DOMAIN tree.files[j].lines} :
                                   j \in SearchedFiles(tree)}
    BY DEF SecretsOf, SearchedFiles
  <2> HIDE DEF inLine, h
  <2> QED
    BY <1>1, <2>1, <2>2 DEF h
<1> QED
  BY <1>2, <1>3, <1>5, <1>6, <1>8 DEF line

LEMMA HitsAreFew ==
    ASSUME NEW tree \in Trees
    PROVE  /\ HitPlaces(tree) \in SUBSET Triples /\ IsFiniteSet(HitPlaces(tree))
           /\ Cardinality(HitPlaces(tree)) <= Cardinality(SecretsOf(tree))
<1> DEFINE places == HitPlaces(tree)
           at(p) == [location |-> <<tree.files[p[1]].name, p[2]>>,
                     rule |-> LineOf(tree, p[1], p[2])[p[3]].rule]
           marks == [p \in places |-> at(p)]
<1>1. ASSUME NEW p \in places
      PROVE  p \in Triples /\ p = <<p[1], p[2], p[3]>> /\ IsHit(tree, p[1], p[2], p[3])
             /\ at(p) \in SecretsOf(tree)
  <2>1. PICK i, n, m : p = <<i, n, m>> /\ IsHit(tree, i, n, m)
    BY HitPlacesAre
  <2>2. p[1] = i /\ p[2] = n /\ p[3] = m
    BY <2>1
  <2> QED
    BY <2>1, <2>2, HitIsASecret DEF Triples
<1>2. ASSUME NEW p \in places, NEW q \in places, at(p) = at(q) PROVE p = q
  <2>1. IsHit(tree, p[1], p[2], p[3]) /\ IsHit(tree, q[1], q[2], q[3])
    BY <1>1
  <2>2. tree.files[p[1]].name = tree.files[q[1]].name /\ p[2] = q[2]
    BY <1>2
  <2>3. p[1] = q[1]
    BY <2>1, <2>2, HitIsASecret, NamesAreApart
  <2>4. LineOf(tree, p[1], p[2])[p[3]].rule = LineOf(tree, p[1], p[2])[q[3]].rule
    BY <1>2, <2>2, <2>3
  <2>5. p[3] \in Nat /\ q[3] \in Nat
    BY <2>1, HitIsASecret
  <2>6. p[3] <= q[3] /\ q[3] <= p[3]
    BY <2>1, <2>2, <2>3, <2>4 DEF IsHit
  <2>7. p[3] = q[3]
    BY <2>5, <2>6
  <2>8. p = <<p[1], p[2], p[3]>> /\ q = <<q[1], q[2], q[3]>>
    BY <1>1
  <2> QED
    BY <2>2, <2>3, <2>7, <2>8
<1>3. places \in SUBSET Triples
  BY <1>1
<1> HIDE DEF places, at
<1>4. marks \in Injection(places, SecretsOf(tree))
  <2>1. marks \in [places -> SecretsOf(tree)]
    BY <1>1
  <2>2. \A p, q \in places : marks[p] = marks[q] => p = q
    BY <1>2
  <2> QED
    BY <2>1, <2>2 DEF Injection, IsInjective
<1>5. IsFiniteSet(places) /\ Cardinality(places) <= Cardinality(SecretsOf(tree))
  <2> HIDE DEF marks
  <2> QED
    BY <1>4, SecretsAreFinite, FS_Injection
<1> QED
  BY <1>3, <1>5 DEF places

LEMMA RuleIsHit ==
    ASSUME NEW tree \in Trees, NEW i \in SearchedFiles(tree), NEW n \in DOMAIN tree.files[i].lines,
           NEW k \in Found(LineOf(tree, i, n))
    PROVE  \E m : IsHit(tree, i, n, m) /\ LineOf(tree, i, n)[m].rule = LineOf(tree, i, n)[k].rule
<1> DEFINE line == LineOf(tree, i, n)
           S == {m \in Found(line) : line[m].rule = line[k].rule}
<1>1. Len(line) \in Nat
  <2>1. i \in DOMAIN tree.files
    BY DEF SearchedFiles, Unpacked
  <2>2. line \in Seq(Matches)
    BY <2>1, TreeIsTyped DEF LineOf
  <2> QED
    BY <2>2
<1>2. \A m \in Found(line) : m \in 1..Len(line)
  <2> HIDE DEF line
  <2> QED
    BY <1>1, EveryLineIsSearched DEF LineIsSearched
<1>3. S \in SUBSET Nat /\ k \in S
  BY <1>1, <1>2
<1>4. PICK m \in S : \A j \in S : m <= j
  <2> HIDE DEF S
  <2> QED
    BY <1>3, FirstOfPositions
<1>5. IsHit(tree, i, n, m)
  BY <1>4 DEF IsHit
<1> QED
  BY <1>4, <1>5

\* What a search says of a place.
HitFinding(tree, p) ==
    CodeFinding("A07", RuleSeverity[LineOf(tree, p[1], p[2])[p[3]].rule],
                <<tree.files[p[1]].name, p[2]>>, "pentestiq-secrets")

LEMMA SearchSays ==
    ASSUME NEW tree \in Trees
    PROVE  /\ Numbered(ScanSecrets(tree))
           /\ Cardinality(SecretsOf(tree)) <= MaxFindings =>
                \A p \in HitPlaces(tree) : \E n \in DOMAIN ScanSecrets(tree) :
                    ScanSecrets(tree)[n] = HitFinding(tree, p)
<1> DEFINE places == HitPlaces(tree)
           number(p) == Cardinality({q \in places : Before(q, p)})
           numbers == {number(p) : p \in places}
           told == numbers \intersect 0..(MaxFindings - 1)
           place(n) == CHOOSE p \in places : number(p) = n
           found == ScanSecrets(tree)
<1>1. places \in SUBSET Triples /\ IsFiniteSet(places)
  BY HitsAreFew
<1>2. found = [n \in told |-> HitFinding(tree, place(n))]
  BY DEF ScanSecrets, HitFinding, LineOf
<1>3. \A p \in places : number(p) = NumberOf(places, Searching(places), p)
  <2> SUFFICES ASSUME NEW p \in places
               PROVE  number(p) = NumberOf(places, Searching(places), p)
    OBVIOUS
  <2>1. {q \in places : Before(q, p)} = {q \in places : <<q, p>> \in Searching(places)}
    BY DEF Searching
  <2> QED
    BY <2>1 DEF NumberOf
<1> HIDE DEF places, found, number
<1>4. /\ \A p \in places : number(p) \in Nat /\ number(p) < Cardinality(places)
      /\ \A p, q \in places : number(p) = number(q) => p = q
  BY <1>1, <1>3, SearchingIsStrict, NumbersAreApart
<1>5. MaxFindings \in Nat /\ Cardinality(places) \in Nat
  BY <1>1, CodeScanAssumption, FS_CardinalityType
<1>6. told \in SUBSET Nat /\ IsFiniteSet(told)
  <2>1. IsFiniteSet(0..(MaxFindings - 1))
    BY <1>5, FS_Interval
  <2>2. told \in SUBSET (0..(MaxFindings - 1))
    OBVIOUS
  <2>3. told \in SUBSET Nat
    BY <1>4
  <2> HIDE DEF told
  <2> QED
    BY <2>1, <2>2, <2>3, FS_Subset
<1>7. \A n \in told : place(n) \in places /\ number(place(n)) = n
  OBVIOUS
<1>8. \A n \in told : IsFinding(HitFinding(tree, place(n)))
  <2> SUFFICES ASSUME NEW p \in places PROVE IsFinding(HitFinding(tree, p))
    BY <1>7
  <2>1. PICK i, n, m : p = <<i, n, m>> /\ IsHit(tree, i, n, m)
    BY HitPlacesAre DEF places
  <2>2. p[1] = i /\ p[2] = n /\ p[3] = m
    BY <2>1
  <2>3. LineOf(tree, p[1], p[2])[p[3]] \in Matches
    BY <2>1, <2>2, HitIsASecret
  <2>4. RuleSeverity[LineOf(tree, p[1], p[2])[p[3]].rule] \in Severities
    BY <2>3, CodeScanAssumption DEF Matches
  <2> QED
    BY <2>4, CodeFindingIs DEF HitFinding
<1>9. Numbered(found)
  BY <1>2, <1>6, <1>8 DEF Numbered
<1>10. ASSUME Cardinality(SecretsOf(tree)) <= MaxFindings, NEW p \in places
       PROVE  \E n \in DOMAIN found : found[n] = HitFinding(tree, p)
  <2>1. Cardinality(places) <= Cardinality(SecretsOf(tree)) /\ Cardinality(SecretsOf(tree)) \in Nat
    BY HitsAreFew, SecretsAreFinite, FS_CardinalityType DEF places
  <2>2. number(p) \in Nat /\ number(p) < MaxFindings
    BY <1>4, <1>5, <1>10, <2>1
  <2>3. number(p) \in 0..(MaxFindings - 1)
    BY <1>5, <2>2
  <2>4. number(p) \in told
    BY <2>3
  <2>5. place(number(p)) = p
    BY <1>4, <1>7, <2>4
  <2> HIDE DEF told, place
  <2> QED
    BY <1>2, <2>4, <2>5
<1> QED
  BY <1>9, <1>10 DEF places, found

\* What a search makes of a tree is a register that told its secrets.
LEMMA SecretsAreReported ==
    ASSUME NEW tree \in Trees, NEW e, e.input = tree,
           e.findings = AddFindings(<< >>, ScanSecrets(tree))
    PROVE  SecretsReported(e)
<1> SUFFICES ASSUME Cardinality(SecretsOf(tree)) <= MaxFindings, NEW s \in SecretsOf(tree)
             PROVE  ReportedAt(e, s.location, IF s.rule = "generic" THEN 0 ELSE RuleSeverity[s.rule])
  BY DEF SecretsReported
<1> DEFINE severity == IF s.rule = "generic" THEN 0 ELSE RuleSeverity[s.rule]
<1>1. PICK i, n, h :
             /\ i \in SearchedFiles(tree) /\ n \in DOMAIN tree.files[i].lines
             /\ h \in Range(LineOf(tree, i, n)) /\ Secret(h)
             /\ s = [location |-> <<tree.files[i].name, n>>, rule |-> h.rule]
  BY DEF SecretsOf, SearchedFiles, LineOf
<1> DEFINE line == LineOf(tree, i, n)
<1>2. line \in Seq(Matches) /\ Len(line) \in Nat /\ DOMAIN line = 1..Len(line)
  <2>1. i \in DOMAIN tree.files
    BY <1>1 DEF SearchedFiles, Unpacked
  <2>2. line \in Seq(Matches)
    BY <1>1, <2>1, TreeIsTyped DEF LineOf
  <2> QED
    BY <2>2
<1>3. PICK k \in DOMAIN line : h = line[k]
  BY <1>1 DEF Range
<1>4. \E f \in Found(line) : line[f].rule = h.rule \/ h.rule = "generic"
  <2> HIDE DEF line
  <2>1. k \in Found(line) \/ (Generic(line[k]) /\ Found(line) # {})
    BY <1>1, <1>2, <1>3, EveryLineIsSearched DEF LineIsSearched
  <2> QED
    BY <1>3, <2>1 DEF Generic
<1>5. PICK m : IsHit(tree, i, n, m) /\ (line[m].rule = h.rule \/ h.rule = "generic")
  BY <1>1, <1>4, RuleIsHit
<1> DEFINE p == <<i, n, m>>
           f == HitFinding(tree, p)
<1>6. p \in HitPlaces(tree)
  BY <1>5, HitPlacesAre
<1>7. RuleSeverity[line[m].rule] \in Severities
  <2>1. line[m] \in Matches
    BY <1>5, HitIsASecret
  <2> HIDE DEF line
  <2> QED
    BY <2>1, CodeScanAssumption DEF Matches
<1>8. f = CodeFinding("A07", RuleSeverity[line[m].rule], <<tree.files[i].name, n>>,
                      "pentestiq-secrets")
  BY DEF HitFinding
<1> HIDE DEF line, f
<1>9. f.location = s.location /\ f.severity = RuleSeverity[line[m].rule]
  BY <1>1, <1>7, <1>8, CodeFindingIs
<1>10. severity \in Int /\ severity <= f.severity
  <2>1. \A x \in Severities : x \in Int /\ 0 <= x
    BY DEF Severities
  <2>2. s.rule = h.rule
    BY <1>1
  <2> QED
    BY <1>5, <1>7, <1>9, <2>1, <2>2
<1>11. PICK j \in DOMAIN ScanSecrets(tree) : ScanSecrets(tree)[j] = f
  BY <1>6, SearchSays DEF f
<1> HIDE DEF severity
<1>12. Tells(e.findings, s.location, severity)
  BY <1>9, <1>10, <1>11, SearchSays, NumberedAreTold
<1> QED
  BY <1>12 DEF Tells, ReportedAt, severity

-----------------------------------------------------------------------------
(***************************************************************************)
(* Source code.  Semgrep's rows.                                           *)
(***************************************************************************)
LEMMA ListIsComplete ==
    ASSUME NEW S, IsFiniteSet(S)
    PROVE  /\ Cardinality(S) \in Nat /\ DOMAIN SetToSeq(S) = 1..Cardinality(S)
           /\ \A n \in DOMAIN SetToSeq(S) : SetToSeq(S)[n] \in S
           /\ \A x \in S : \E n \in DOMAIN SetToSeq(S) : SetToSeq(S)[n] = x
<1> DEFINE c == Cardinality(S)
           f == SetToSeq(S)
<1>1. c \in Nat /\ ExistsBijection(1..c, S)
  BY FS_CardinalityType
<1>2. f \in [1..c -> S] /\ IsInjective(f)
  <2>1. \E g \in [1..c -> S] : IsInjective(g)
    BY <1>1 DEF ExistsBijection, Bijection, Injection, IsInjective
  <2> QED
    BY <2>1 DEF SetToSeq
<1>3. Cardinality(1..c) = c
  BY <1>1, FS_Interval
<1> HIDE DEF f
<1>4. f \in Injection(1..c, S)
  BY <1>2 DEF Injection, IsInjective
<1>5. f \in Surjection(1..c, S)
  BY <1>3, <1>4, FS_Injection
<1>6. \A x \in S : \E n \in 1..c : f[n] = x
  BY <1>5 DEF Surjection
<1> QED
  BY <1>1, <1>2, <1>6 DEF f

\* A finding that another tool has taken to the code base.
LEMMA MovedFindingIs ==
    ASSUME NEW f, IsFinding(f), NEW g, g = [f EXCEPT !.asset = CodeAsset, !.tools = {"semgrep"}]
    PROVE  IsFinding(g) /\ g.location = f.location /\ g.severity = f.severity
<1>1. f = NewFinding(f.asset, f.title, f.category, f.severity, f.location, f.cwe, f.tools)
  BY DEF IsFinding
<1>2. g = NewFinding(CodeAsset, f.title, f.category, f.severity, f.location, f.cwe, {"semgrep"})
  <2>1. DOMAIN f = {"asset", "title", "category", "severity", "location", "cwe", "tools"}
    BY <1>1 DEF NewFinding
  <2> QED
    BY <2>1 DEF NewFinding
<1>3. /\ g.asset = CodeAsset /\ g.title = f.title /\ g.category = f.category
      /\ g.severity = f.severity /\ g.location = f.location /\ g.cwe = f.cwe
      /\ g.tools = {"semgrep"}
  BY <1>2 DEF NewFinding
<1>4. IsFinding(g)
  BY <1>2, <1>3 DEF IsFinding, CodeAsset
<1> QED
  BY <1>3, <1>4

\* What becomes of Semgrep's rows is a register that reports what they say.
LEMMA FlawsAreReported ==
    ASSUME NEW n \in Nat, NEW rows \in [1..n -> Rows["sarif"]], NEW e, e.input = rows,
           e.findings = AddFindings(<< >>, ScanSource(rows))
    PROVE  FlawsReported(e)
<1> DEFINE found == ImportFindings("sarif", rows)
           keys == SetToSeq(DOMAIN found)
           moved == ScanSource(rows)
<1>1. Reads(found, Reported("sarif", rows))
  <2>1. \A r \in Rows["sarif"] : \A f \in Parse("sarif", r) : IsFinding(f)
    BY OwnExportIsSarif, ParsedAreFindings
  <2> QED
    BY <2>1, OwnExportIsSarif, ReportIsRead
<1>2. moved = [j \in DOMAIN keys |->
                 [found[keys[j]] EXCEPT !.asset = CodeAsset, !.tools = {"semgrep"}]]
  BY DEF ScanSource
<1> HIDE DEF found, moved
<1>3. /\ IsFiniteSet(DOMAIN found)
      /\ \A k \in DOMAIN found : IsFinding(found[k]) /\ DedupKey(found[k]) = k
  BY <1>1 DEF Reads, IsIndex
<1>4. /\ Cardinality(DOMAIN found) \in Nat /\ DOMAIN keys = 1..Cardinality(DOMAIN found)
      /\ \A j \in DOMAIN keys : keys[j] \in DOMAIN found
      /\ \A k \in DOMAIN found : \E j \in DOMAIN keys : keys[j] = k
  BY <1>3, ListIsComplete
<1> HIDE DEF keys
<1>5. \A j \in DOMAIN keys : /\ IsFinding(moved[j])
                             /\ moved[j].location = found[keys[j]].location
                             /\ moved[j].severity = found[keys[j]].severity
  <2> SUFFICES ASSUME NEW j \in DOMAIN keys
               PROVE  /\ IsFinding(moved[j])
                      /\ moved[j].location = found[keys[j]].location
                      /\ moved[j].severity = found[keys[j]].severity
    OBVIOUS
  <2>1. moved[j] = [found[keys[j]] EXCEPT !.asset = CodeAsset, !.tools = {"semgrep"}]
    BY <1>2
  <2>2. IsFinding(found[keys[j]])
    BY <1>3, <1>4
  <2> QED
    BY <2>1, <2>2, MovedFindingIs
<1>6. Numbered(moved)
  <2>1. DOMAIN moved = 1..Cardinality(DOMAIN found)
    BY <1>2, <1>4
  <2>2. IsFiniteSet(DOMAIN moved)
    BY <1>4, <2>1, FS_Interval
  <2>3. DOMAIN moved \in SUBSET Nat
    BY <1>4, <2>1
  <2> QED
    BY <1>4, <1>5, <2>1, <2>2, <2>3 DEF Numbered
<1> SUFFICES ASSUME NEW m \in DOMAIN rows, NEW f \in FromSarif(rows[m])
             PROVE  ReportedAt(e, f.location, f.severity)
  BY DEF FlawsReported
<1>7. f \in Reported("sarif", rows)
  BY DEF Reported, Parse
<1>8. DedupKey(f) \in DOMAIN found /\ f.severity <= found[DedupKey(f)].severity
  BY <1>1, <1>7 DEF Reads
<1>9. PICK j \in DOMAIN keys : keys[j] = DedupKey(f)
  BY <1>4, <1>8
<1>10. found[keys[j]].location = f.location
  <2>1. DedupKey(found[keys[j]]) = DedupKey(f)
    BY <1>3, <1>8, <1>9
  <2> QED
    BY <2>1 DEF DedupKey
<1>11. IsFinding(f)
  <2>1. f \in Parse("sarif", rows[m]) /\ rows[m] \in Rows["sarif"]
    BY DEF Parse
  <2> QED
    BY <2>1, OwnExportIsSarif, ParsedAreFindings
<1>12. f.severity \in Int /\ j \in DOMAIN moved /\ f.severity <= moved[j].severity
       /\ moved[j].location = f.location
  BY <1>2, <1>5, <1>8, <1>9, <1>10, <1>11, SeverityIsANumber
<1>13. Tells(AddFindings(<< >>, moved), f.location, f.severity)
  BY <1>6, <1>12, NumberedAreTold
<1> QED
  BY <1>13 DEF Tells, ReportedAt, moved

-----------------------------------------------------------------------------
(***************************************************************************)
(* Source code.  Advisories.                                               *)
(***************************************************************************)
LEMMA ComponentsAreFinite ==
    ASSUME NEW lockfile \in Lockfiles PROVE IsFiniteSet(ParseComponents(lockfile))
<1> DEFINE entries == {e \in lockfile.entries : ~e.root /\ e.version # "none"}
           of(entry) == {[name |-> name, version |-> entry.version] : name \in entry.names}
           all == [entry \in entries |-> of(entry)]
<1>1. IsFiniteSet(lockfile.entries) /\ \A e \in lockfile.entries : IsFiniteSet(e.names)
  BY CodeScanAssumption
<1>2. IsFiniteSet(entries)
  <2>1. entries \in SUBSET lockfile.entries
    OBVIOUS
  <2> HIDE DEF entries
  <2> QED
    BY <1>1, <2>1, FS_Subset
<1>3. ASSUME NEW entry \in entries PROVE IsFiniteSet(of(entry))
  <2> DEFINE named == [name \in entry.names |-> [name |-> name, version |-> entry.version]]
  <2>1. IsFiniteSet(DOMAIN named)
    BY <1>1
  <2>2. of(entry) = {named[name] : name \in DOMAIN named}
    OBVIOUS
  <2> HIDE DEF named, of
  <2> QED
    BY <2>1, <2>2, ImageIsFinite
<1>4. ComponentsIn(lockfile) = UNION {of(entry) : entry \in entries}
  BY DEF ComponentsIn
<1> HIDE DEF entries, of
<1>5. DOMAIN all = entries /\ \A entry \in DOMAIN all : IsFiniteSet(all[entry])
  BY <1>3
<1>6. {of(entry) : entry \in entries} = {all[entry] : entry \in DOMAIN all}
  OBVIOUS
<1> HIDE DEF all
<1>7. IsFiniteSet(UNION {all[entry] : entry \in DOMAIN all})
  BY <1>2, <1>5, UnionIsFinite
<1>8. IsFiniteSet(ComponentsIn(lockfile))
  BY <1>4, <1>6, <1>7
<1> QED
  BY <1>8, FS_EmptySet DEF ParseComponents

\* What is known of an advisory decides its severity.
LEMMA VulnIs ==
    ASSUME NEW c, NEW id \in DOMAIN Details, NEW answer,
           NEW v, v = VulnOf(c, id, answer)
    PROVE  /\ v.component = c
           /\ NormalizeSeverity(v.label, v.score) \in Severities
           /\ id \in answer.pages => v.label = Details[id].label /\ v.score = Details[id].score
<1>1. CASE id \in answer.pages
  <2>1. v.component = c /\ v.label = Details[id].label /\ v.score = Details[id].score
    BY <1>1 DEF VulnOf
  <2>2. NormalizeSeverity(v.label, v.score) \in Severities
    BY <2>1, SeverityIsKnown, CodeScanAssumption
  <2> QED
    BY <2>1, <2>2
<1>2. CASE id \notin answer.pages
  <2>1. v.component = c /\ v.label.form = "blank" /\ v.score = -1
    BY <1>2 DEF VulnOf
  <2>2. NormalizeSeverity(v.label, v.score) = 0
    BY <2>1 DEF NormalizeSeverity, SeverityFromCvss
  <2> QED
    BY <1>2, <2>1, <2>2 DEF Severities
<1> QED
  BY <1>1, <1>2

\* The advisories that an answer has.
LEMMA VulnsAre ==
    ASSUME NEW lockfile \in Lockfiles, NEW answer,
           NEW vulns, vulns = Vulns(ParseComponents(lockfile), answer)
    PROVE  /\ IsFiniteSet(vulns)
           /\ \A v \in vulns : NormalizeSeverity(v.label, v.score) \in Severities
           /\ answer.batch =>
                \A c \in ParseComponents(lockfile) \intersect DOMAIN Advisories :
                  \A id \in Range(Advisories[c]) : VulnOf(c, id, answer) \in vulns
<1> DEFINE components == ParseComponents(lockfile)
           asked == {d \in components : answer.batch /\ d \in DOMAIN Advisories}
           of(c) == {VulnOf(c, id, answer) : id \in Range(Advisories[c])}
           all == [c \in asked |-> of(c)]
<1>1. \A c \in DOMAIN Advisories :
         /\ IsFiniteSet(DOMAIN Advisories[c])
         /\ Range(Advisories[c]) \in SUBSET (DOMAIN Details)
  <2> SUFFICES ASSUME NEW c \in DOMAIN Advisories
               PROVE  /\ IsFiniteSet(DOMAIN Advisories[c])
                      /\ Range(Advisories[c]) \in SUBSET (DOMAIN Details)
    OBVIOUS
  <2>1. Advisories[c] \in Seq(DOMAIN Details)
    BY CodeScanAssumption
  <2> DEFINE s == Advisories[c]
  <2> HIDE DEF s
  <2>2. s \in Seq(DOMAIN Details)
    BY <2>1 DEF s
  <2>3. Len(s) \in Nat /\ DOMAIN s = 1..Len(s) /\ \A n \in DOMAIN s : s[n] \in DOMAIN Details
    BY <2>2
  <2>4. IsFiniteSet(DOMAIN s)
    BY <2>3, FS_Interval
  <2>5. Range(s) \in SUBSET (DOMAIN Details)
    BY <2>3 DEF Range
  <2> QED
    BY <2>4, <2>5 DEF s
<1>2. IsFiniteSet(asked)
  <2>1. IsFiniteSet(components) /\ asked \in SUBSET components
    BY ComponentsAreFinite
  <2> HIDE DEF asked, components
  <2> QED
    BY <2>1, FS_Subset
<1>3. vulns = UNION {of(c) : c \in asked}
  <2>1. QueryBatch(components, answer) = [c \in asked |-> Advisories[c]]
    BY DEF QueryBatch
  <2> DEFINE batch == QueryBatch(components, answer)
  <2>2. DOMAIN batch = asked /\ \A c \in asked : batch[c] = Advisories[c]
    BY <2>1
  <2>3. vulns = UNION {{VulnOf(c, id, answer) : id \in Range(batch[c])} : c \in DOMAIN batch}
    BY DEF Vulns
  <2> HIDE DEF batch, asked
  <2> QED
    BY <2>2, <2>3
<1>4. ASSUME NEW c \in asked PROVE IsFiniteSet(of(c))
  <2> DEFINE ids == Range(Advisories[c])
             pages == [id \in ids |-> VulnOf(c, id, answer)]
  <2>1. IsFiniteSet(ids)
    <3>1. IsFiniteSet(DOMAIN Advisories[c])
      BY <1>1
    <3> QED
      BY <3>1, ImageIsFinite DEF Range
  <2> HIDE DEF ids
  <2>2. DOMAIN pages = ids /\ of(c) = {pages[id] : id \in DOMAIN pages}
    BY DEF ids
  <2> HIDE DEF pages, of
  <2> QED
    BY <2>1, <2>2, ImageIsFinite
<1>5. \A v \in vulns : NormalizeSeverity(v.label, v.score) \in Severities
  <2> SUFFICES ASSUME NEW c \in asked, NEW id \in Range(Advisories[c]),
                      NEW v, v = VulnOf(c, id, answer)
               PROVE  NormalizeSeverity(v.label, v.score) \in Severities
    BY <1>3
  <2>1. id \in DOMAIN Details
    BY <1>1
  <2> QED
    BY <2>1, VulnIs
<1>6. answer.batch =>
        \A c \in components \intersect DOMAIN Advisories :
          \A id \in Range(Advisories[c]) : VulnOf(c, id, answer) \in vulns
  BY <1>3
<1> HIDE DEF asked, of
<1>7. DOMAIN all = asked /\ \A c \in DOMAIN all : IsFiniteSet(all[c])
  BY <1>4
<1>8. {of(c) : c \in asked} = {all[c] : c \in DOMAIN all}
  OBVIOUS
<1> HIDE DEF all
<1>9. IsFiniteSet(UNION {all[c] : c \in DOMAIN all})
  BY <1>2, <1>7, UnionIsFinite
<1>10. IsFiniteSet(vulns)
  BY <1>3, <1>8, <1>9
<1> QED
  BY <1>5, <1>6, <1>10

\* What becomes of a lock file is a register that reports the advisories.
LEMMA AdvisoriesAreReported ==
    ASSUME NEW lockfile \in Lockfiles, ParseComponents(lockfile) # {}, NEW answer, NEW e,
           e.input = [lockfile |-> lockfile, answer |-> answer],
           e.findings = AddFindings(<< >>, ScanDependencies(lockfile, answer).findings)
    PROVE  AdvisoriesReported(e)
<1> DEFINE vulns == Vulns(ParseComponents(lockfile), answer)
           list == SetToSeq(vulns)
           found == ScanDependencies(lockfile, answer).findings
<1>1. found = [n \in DOMAIN list |-> ScaFinding(list[n])]
  BY DEF ScanDependencies
<1>2. ParseComponents(lockfile) = ComponentsIn(lockfile)
  BY DEF ParseComponents
<1> HIDE DEF found
<1>3. /\ IsFiniteSet(vulns)
      /\ \A v \in vulns : NormalizeSeverity(v.label, v.score) \in Severities
      /\ answer.batch =>
           \A c \in ComponentsIn(lockfile) \intersect DOMAIN Advisories :
             \A id \in Range(Advisories[c]) : VulnOf(c, id, answer) \in vulns
  BY <1>2, VulnsAre
<1> HIDE DEF vulns
<1>4. /\ Cardinality(vulns) \in Nat /\ DOMAIN list = 1..Cardinality(vulns)
      /\ \A j \in DOMAIN list : list[j] \in vulns
      /\ \A v \in vulns : \E j \in DOMAIN list : list[j] = v
  BY <1>3, ListIsComplete
<1> HIDE DEF list
<1>5. ASSUME NEW v \in vulns
      PROVE  /\ IsFinding(ScaFinding(v))
             /\ ScaFinding(v).location = <<v.component.name, v.component.version>>
             /\ ScaFinding(v).severity = NormalizeSeverity(v.label, v.score)
  BY <1>3, CodeFindingIs DEF ScaFinding
<1>6. Numbered(found)
  <2>1. DOMAIN found = 1..Cardinality(vulns)
    BY <1>1, <1>4
  <2>2. IsFiniteSet(DOMAIN found)
    BY <1>4, <2>1, FS_Interval
  <2>3. DOMAIN found \in SUBSET Nat
    BY <1>4, <2>1
  <2>4. \A j \in DOMAIN found : IsFinding(found[j])
    BY <1>1, <1>4, <1>5
  <2> QED
    BY <2>2, <2>3, <2>4 DEF Numbered
<1> DEFINE severity(id) == IF id \in answer.pages
                           THEN NormalizeSeverity(Details[id].label, Details[id].score) ELSE 0
<1>7. e.input.answer = answer /\ e.input.lockfile = lockfile
  OBVIOUS
<1> SUFFICES ASSUME answer.batch, NEW c \in ComponentsIn(lockfile) \intersect DOMAIN Advisories,
                    NEW id \in Range(Advisories[c])
             PROVE  ReportedAt(e, <<c.name, c.version>>, severity(id))
  BY <1>7 DEF AdvisoriesReported
<1> DEFINE v == VulnOf(c, id, answer)
<1>8. id \in DOMAIN Details
  <2>1. Advisories[c] \in Seq(DOMAIN Details)
    BY CodeScanAssumption
  <2> QED
    BY <2>1 DEF Range
<1>9. /\ v \in vulns /\ v.component = c
      /\ NormalizeSeverity(v.label, v.score) \in Severities
      /\ id \in answer.pages => v.label = Details[id].label /\ v.score = Details[id].score
  BY <1>3, <1>8, VulnIs
<1> HIDE DEF v
<1>10. severity(id) \in Int /\ severity(id) <= NormalizeSeverity(v.label, v.score)
  <2>1. \A x \in Severities : x \in Int /\ 0 <= x
    BY DEF Severities
  <2>2. CASE id \in answer.pages
    <3>1. severity(id) = NormalizeSeverity(v.label, v.score)
      BY <1>9, <2>2
    <3> QED
      BY <1>9, <2>1, <3>1
  <2>3. CASE id \notin answer.pages
    BY <1>9, <2>1, <2>3
  <2> QED
    BY <2>2, <2>3
<1> HIDE DEF severity
<1>11. PICK j \in DOMAIN list : list[j] = v
  BY <1>4, <1>9
<1>12. j \in DOMAIN found /\ found[j].location = <<c.name, c.version>>
       /\ severity(id) <= found[j].severity
  BY <1>1, <1>5, <1>9, <1>10, <1>11
<1>13. Tells(e.findings, <<c.name, c.version>>, severity(id))
  BY <1>6, <1>10, <1>12, NumberedAreTold DEF found
<1> QED
  BY <1>13 DEF Tells, ReportedAt

-----------------------------------------------------------------------------
(***************************************************************************)
(* Uploads.  What was reported stays so, and every upload adds one that is.*)
(***************************************************************************)
CodeScanIInv ==
    /\ CodeScanTypeOK
    /\ codebases \in Seq(Range(codebases))
    /\ CodeIsReported

\* What a scan of its kind owes to an engagement.
ScanIsReported(e) ==
    CASE e.kind = "secrets"  -> SecretsReported(e)
      [] e.kind = "sast"     -> FlawsReported(e)
      [] e.kind = "codebase" -> AdvisoriesReported(e)

LEMMA CodeIsReportedByEach ==
    CodeIsReported <=> \A n \in DOMAIN codebases : ScanIsReported(codebases[n])
BY DEF CodeIsReported, ScanIsReported

LEMMA CodebasesRest ==
    ASSUME CodeScanIInv, codebases' = codebases PROVE CodeIsReported'
<1>1. \A n \in DOMAIN codebases : ScanIsReported(codebases[n])
  BY CodeIsReportedByEach DEF CodeScanIInv
<1>2. \A n \in DOMAIN codebases' : ScanIsReported(codebases'[n])
  BY <1>1
<1> QED
  BY <1>2 DEF CodeIsReported, ScanIsReported

LEMMA StatusesAreKnown ==
    ASSUME CodeScanIInv, NEW status \in {402, 422, 500, 503}, Refuse(status),
           onDisk' \in {onDisk, onDisk + 1}, onDisk' \in 0..MaxUploads
    PROVE  CodeScanIInv'
<1>1. /\ refusals' = refusals \union {status} /\ codebases' = codebases /\ awaiting' = awaiting
  BY DEF Refuse
<1>2. Len(codebases) \in Nat
  BY DEF CodeScanIInv
<1>3. CodeScanTypeOK'
  <2>1. /\ onDisk \in Int /\ awaiting \in 0..MaxUploads /\ refusals \subseteq {402, 422, 500, 503}
        /\ Len(codebases) + awaiting <= onDisk
    BY CodeScanAssumption DEF CodeScanIInv, CodeScanTypeOK
  <2>2. awaiting' \in 0..MaxUploads /\ refusals' \subseteq {402, 422, 500, 503}
    BY <1>1, <2>1
  <2>3. Len(codebases') = Len(codebases) /\ awaiting' = awaiting /\ awaiting \in Int
    BY <1>1, <2>1, CodeScanAssumption
  <2>4. Len(codebases') + awaiting' <= onDisk'
    BY <1>2, <2>1, <2>3
  <2> QED
    BY <2>2, <2>4 DEF CodeScanTypeOK
<1>4. CodeIsReported'
  BY <1>1, CodebasesRest
<1> QED
  BY <1>1, <1>3, <1>4 DEF CodeScanIInv

LEMMA ReceivedIsCounted ==
    ASSUME CodeScanIInv, Receive
    PROVE  onDisk \in Nat /\ onDisk' = onDisk + 1 /\ onDisk' \in 0..MaxUploads
BY CodeScanAssumption DEF CodeScanIInv, CodeScanTypeOK, Receive

LEMMA DoneIsReported ==
    ASSUME CodeScanIInv, Receive, NEW kind, NEW input, NEW findings, NEW sbom,
           CreateDone(kind, input, findings, sbom),
           ScanIsReported([kind |-> kind, input |-> input, sbom |-> sbom,
                           findings |-> AddFindings(<< >>, findings)])
    PROVE  CodeScanIInv'
<1> DEFINE e == [kind |-> kind, input |-> input, sbom |-> sbom,
                 findings |-> AddFindings(<< >>, findings)]
           S == Range(codebases) \union {e}
<1>1. codebases' = Append(codebases, e) /\ refusals' = refusals /\ awaiting' = awaiting
  BY DEF CreateDone
<1>2. ScanIsReported(e)
  OBVIOUS
<1> HIDE DEF e
<1>3. /\ codebases \in Seq(Range(codebases))
      /\ \A n \in DOMAIN codebases : ScanIsReported(codebases[n])
  BY CodeIsReportedByEach DEF CodeScanIInv
<1>4. codebases \in Seq(S) /\ e \in S
  BY <1>3
<1>5. /\ Len(codebases) \in Nat /\ Len(codebases') = Len(codebases) + 1
      /\ DOMAIN codebases = 1..Len(codebases) /\ DOMAIN codebases' = 1..Len(codebases')
      /\ \A n \in DOMAIN codebases : codebases'[n] = codebases[n]
      /\ codebases'[Len(codebases')] = e
  <2> HIDE DEF S
  <2> QED
    BY <1>1, <1>4
<1>6. \A n \in DOMAIN codebases' : n \in DOMAIN codebases \/ n = Len(codebases')
  BY <1>5
<1>7. codebases' \in Seq(Range(codebases'))
  <2>1. codebases' \in Seq(S)
    <3> HIDE DEF S
    <3> QED
      BY <1>1, <1>4
  <2>2. \A n \in 1..Len(codebases') : codebases'[n] \in Range(codebases')
    BY <1>5 DEF Range
  <2>3. codebases' = [n \in 1..Len(codebases') |-> codebases'[n]] /\ Len(codebases') \in Nat
    <3> HIDE DEF S
    <3> QED
      BY <2>1
  <2>4. codebases' \in [1..Len(codebases') -> Range(codebases')]
    BY <2>2, <2>3
  <2> QED
    BY <2>3, <2>4, SeqDef
<1>8. CodeIsReported'
  <2>1. \A n \in DOMAIN codebases' : ScanIsReported(codebases'[n])
    BY <1>2, <1>3, <1>5, <1>6
  <2> QED
    BY <2>1 DEF CodeIsReported, ScanIsReported
<1>9. CodeScanTypeOK'
  <2>1. onDisk \in Nat /\ onDisk' = onDisk + 1 /\ onDisk' \in 0..MaxUploads
    BY ReceivedIsCounted
  <2> QED
    BY <1>1, <1>5, <2>1, CodeScanAssumption DEF CodeScanIInv, CodeScanTypeOK
<1> QED
  BY <1>7, <1>8, <1>9 DEF CodeScanIInv

LEMMA CodeScanStarts == CodeScanInit => CodeScanIInv
<1> SUFFICES ASSUME CodeScanInit PROVE CodeScanIInv
  OBVIOUS
<1>1. codebases \in Seq(Range(codebases)) /\ Len(codebases) = 0 /\ DOMAIN codebases = {}
  BY DEF CodeScanInit
<1>2. CodeScanTypeOK
  BY <1>1, CodeScanAssumption DEF CodeScanInit, CodeScanTypeOK
<1> QED
  BY <1>1, <1>2 DEF CodeScanIInv, CodeIsReported

LEMMA CodeScanKeeps == ASSUME CodeScanIInv, [CodeScanNext]_codeScanVars PROVE CodeScanIInv'
<1>1. ASSUME NEW kind \in UploadKinds, NEW premium \in BOOLEAN, RefuseKind(kind, premium)
      PROVE  CodeScanIInv'
  <2>1. onDisk' = onDisk /\ onDisk' \in 0..MaxUploads
    BY <1>1 DEF RefuseKind, CodeScanIInv, CodeScanTypeOK
  <2>2. Refuse(422) \/ Refuse(402)
    BY <1>1 DEF RefuseKind
  <2> QED
    BY <2>1, <2>2, StatusesAreKnown
<1>2. ASSUME NEW tree \in Trees, UploadSecrets(tree) PROVE CodeScanIInv'
  <2>1. Receive /\ onDisk' = onDisk + 1 /\ onDisk' \in 0..MaxUploads
    BY <1>2, ReceivedIsCounted DEF UploadSecrets
  <2>2. CASE CannotRead(tree)
    <3>1. Refuse(422)
      BY <1>2, <2>2 DEF UploadSecrets
    <3> QED
      BY <2>1, <3>1, StatusesAreKnown
  <2>3. CASE ~CannotRead(tree)
    <3> DEFINE e == [kind |-> "secrets", input |-> tree, sbom |-> NoSbom,
                     findings |-> AddFindings(<< >>, ScanSecrets(tree))]
    <3>1. CreateDone("secrets", tree, ScanSecrets(tree), NoSbom)
      BY <1>2, <2>3 DEF UploadSecrets
    <3>2. ScanIsReported(e)
      BY SecretsAreReported DEF ScanIsReported
    <3> QED
      BY <2>1, <3>1, <3>2, DoneIsReported
  <2> QED
    BY <2>2, <2>3
<1>3. ASSUME NEW tree \in Trees, NEW installed \in BOOLEAN, NEW runs \in BOOLEAN,
             NEW n \in 0..MaxRows, NEW rows \in [1..n -> Rows["sarif"]],
             UploadSast(tree, installed, runs, rows)
      PROVE  CodeScanIInv'
  <2>1. Receive /\ onDisk' = onDisk + 1 /\ onDisk' \in 0..MaxUploads
    BY <1>3, ReceivedIsCounted DEF UploadSast
  <2> DEFINE status == SastStatus(tree, installed, runs)
  <2>2. CASE status # 201
    <3>1. Refuse(status)
      BY <1>3, <2>2 DEF UploadSast
    <3>2. status \in {201, 422, 500, 503}
      BY DEF SastStatus, CannotRead
    <3> HIDE DEF status
    <3> QED
      BY <2>1, <2>2, <3>1, <3>2, StatusesAreKnown
  <2>3. CASE status = 201
    <3> DEFINE e == [kind |-> "sast", input |-> rows, sbom |-> NoSbom,
                     findings |-> AddFindings(<< >>, ScanSource(rows))]
    <3>1. CreateDone("sast", rows, ScanSource(rows), NoSbom)
      BY <1>3, <2>3 DEF UploadSast
    <3>2. n \in Nat
      BY ImportsAssumption
    <3>3. ScanIsReported(e)
      BY <3>2, FlawsAreReported DEF ScanIsReported
    <3> QED
      BY <2>1, <3>1, <3>3, DoneIsReported
  <2> QED
    BY <2>2, <2>3
<1>4. ASSUME NEW lockfile \in Lockfiles, NEW answer \in Answers, UploadCodebase(lockfile, answer)
      PROVE  CodeScanIInv'
  <2>1. Receive /\ onDisk' = onDisk + 1 /\ onDisk' \in 0..MaxUploads
    BY <1>4, ReceivedIsCounted DEF UploadCodebase
  <2>2. CASE ParseComponents(lockfile) = {}
    <3>1. Refuse(422)
      BY <1>4, <2>2 DEF UploadCodebase
    <3> QED
      BY <2>1, <3>1, StatusesAreKnown
  <2>3. CASE ParseComponents(lockfile) # {}
    <3> DEFINE input == [lockfile |-> lockfile, answer |-> answer]
               result == ScanDependencies(lockfile, answer)
               e == [kind |-> "codebase", input |-> input, sbom |-> result.sbom,
                     findings |-> AddFindings(<< >>, result.findings)]
    <3>1. CreateDone("codebase", input, result.findings, result.sbom)
      BY <1>4, <2>3 DEF UploadCodebase
    <3> HIDE DEF result
    <3>2. ScanIsReported(e)
      BY <2>3, AdvisoriesAreReported DEF ScanIsReported, result
    <3> HIDE DEF input
    <3> QED
      BY <2>1, <3>1, <3>2, DoneIsReported
  <2> QED
    BY <2>2, <2>3
<1>5. ASSUME NEW kind \in UploadKinds, NEW premium \in BOOLEAN, UploadTarget(kind, premium)
      PROVE  CodeScanIInv'
  <2>1. Receive /\ onDisk \in Nat /\ onDisk' = onDisk + 1 /\ onDisk' \in 0..MaxUploads
    BY <1>5, ReceivedIsCounted DEF UploadTarget
  <2>2. awaiting' = awaiting + 1 /\ refusals' = refusals /\ codebases' = codebases
    BY <1>5 DEF UploadTarget
  <2>3. Len(codebases) \in Nat
    BY DEF CodeScanIInv
  <2>4. CodeScanTypeOK'
    BY <2>1, <2>2, <2>3, CodeScanAssumption DEF CodeScanIInv, CodeScanTypeOK
  <2>5. CodeIsReported'
    BY <2>2, CodebasesRest
  <2> QED
    BY <2>2, <2>4, <2>5 DEF CodeScanIInv
<1>6. CASE UNCHANGED codeScanVars
  <2>1. /\ onDisk' = onDisk /\ refusals' = refusals /\ codebases' = codebases
        /\ awaiting' = awaiting
    BY <1>6 DEF codeScanVars
  <2>2. CodeScanTypeOK'
    BY <2>1 DEF CodeScanIInv, CodeScanTypeOK
  <2>3. CodeIsReported'
    BY <2>1, CodebasesRest
  <2> QED
    BY <2>1, <2>2, <2>3 DEF CodeScanIInv
<1> QED
  BY <1>1, <1>2, <1>3, <1>4, <1>5, <1>6 DEF CodeScanNext

THEOREM CodeScanInvariance == CodeScanSpec => []CodeScanIInv
<1>1. CodeScanIInv /\ [CodeScanNext]_codeScanVars => CodeScanIInv'
  BY CodeScanKeeps
<1> QED
  BY <1>1, CodeScanStarts, PTL DEF CodeScanSpec

\* No engagement without a file, and no answer the endpoint does not give.
THEOREM CodeScanTypeCorrect == CodeScanSpec => []CodeScanTypeOK
<1>1. CodeScanIInv => CodeScanTypeOK
  BY DEF CodeScanIInv
<1> QED
  BY <1>1, CodeScanInvariance, PTL

(***************************************************************************)
(* For any rules, trees, rows, lock files, advisories and cap: every place *)
(* of the code where a detector, Semgrep or OSV saw something is a place   *)
(* of the engagement's findings, at least as severe as what was seen, as   *)
(* long as a search has no more secrets than it reports.                   *)
(***************************************************************************)
THEOREM CodeIsAlwaysReported == CodeScanSpec => []CodeIsReported
<1>1. CodeScanIInv => CodeIsReported
  BY DEF CodeScanIInv
<1> QED
  BY <1>1, CodeScanInvariance, PTL

=============================================================================
