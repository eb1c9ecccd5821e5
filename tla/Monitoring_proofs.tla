------------------------- MODULE Monitoring_proofs -------------------------
(***************************************************************************)
(* What continuous monitoring promises: schedules and posture alerts, each *)
(* proved for any number of threads, schedules and findings, failures and  *)
(* restarts.                                                               *)
(***************************************************************************)
EXTENDS Schedules, Posture, SequenceTheorems, WellFoundedInduction, TLAPS

-----------------------------------------------------------------------------
(***************************************************************************)
(* Posture: snapshots are stamped by a clock that runs, so one of them is  *)
(* the latest.                                                             *)
(***************************************************************************)
HasLatest == snapshots # {} => \E s \in snapshots : \A z \in snapshots : z.ts <= s.ts

StampsRun ==
    /\ \A s \in snapshots : s.ts <= stamp
    /\ \A h \in Capturers : capture[h].ts <= stamp

(***************************************************************************)
(* What a capture holds back from its message, because the snapshot before *)
(* has it, and what it is about to record, has been dealt with.            *)
(***************************************************************************)
DealtWith == delivered \union refused \union excused

CapturesDealWith ==
    \A h \in Capturers :
        /\ capture[h].pc = "alert" => capture[h].prev_keys \subseteq DealtWith
        /\ capture[h].pc = "append" => capture[h].findings \subseteq DealtWith

(***************************************************************************)
(* Without overlaps or deaths: what was named and has stayed open is in    *)
(* the latest snapshot, or on its way there.                               *)
(***************************************************************************)
AtRest(h) == capture[h].pc = "idle"

Named == {i \in Issues : times[i] > 0}

SerialCaptures ==
    serial =>
        /\ NamedOnce
        /\ \A g, h \in Capturers : ~AtRest(g) /\ ~AtRest(h) => g = h
        /\ \A h \in Capturers :
             /\ capture[h].pc = "alert" => Named \subseteq capture[h].prev_keys
             /\ capture[h].pc = "append" => Named \subseteq capture[h].findings
             /\ capture[h].pc \in {"alert", "append"} => \A s \in snapshots : s.ts < capture[h].ts
        /\ (\A h \in Capturers : capture[h].pc \in {"idle", "prev"}) => Named \subseteq LatestKeys

PostureIInv ==
    /\ PostureTypeOK
    /\ HasLatest
    /\ StampsRun
    /\ CapturesDealWith
    /\ RecordedMeansTried
    /\ SerialCaptures

LEMMA NoCaptureIsACapture == NoCapture \in Capture
  BY DEF NoCapture, Capture

LEMMA LatestIsASnapshot ==
    ASSUME PostureTypeOK, HasLatest
    PROVE  \/ snapshots = {} /\ LatestKeys = {}
           \/ \E s \in snapshots : LatestKeys = s.open_keys /\ \A z \in snapshots : z.ts <= s.ts
  <1>1. CASE snapshots = {}
    BY <1>1 DEF LatestKeys
  <1>2. CASE snapshots # {}
    <2> DEFINE IsLatest(s) == \A z \in snapshots : z.ts <= s.ts
               latest == CHOOSE s \in snapshots : IsLatest(s)
    <2>1. \E s \in snapshots : IsLatest(s)
      BY <1>2 DEF HasLatest
    <2>2. latest \in snapshots /\ IsLatest(latest)
      BY <2>1
    <2>3. LatestKeys = latest.open_keys
      BY <1>2 DEF LatestKeys
    <2> QED
      BY <2>2, <2>3
  <1> QED
    BY <1>1, <1>2

LEMMA LatestKeysAreIssues ==
    ASSUME PostureTypeOK, HasLatest
    PROVE  LatestKeys \subseteq Issues
  BY LatestIsASnapshot DEF PostureTypeOK, Snapshot

LEMMA LatestKeysAreDealtWith ==
    ASSUME PostureTypeOK, HasLatest, RecordedMeansTried
    PROVE  LatestKeys \subseteq DealtWith
  BY LatestIsASnapshot DEF RecordedMeansTried, DealtWith

LEMMA PostureInitIInv == PostureInit => PostureIInv
  <1> SUFFICES ASSUME PostureInit PROVE PostureIInv
    OBVIOUS
  <1>1. 0 \in 0..MaxCaptures /\ 0 \in 0..MaxChanges
    BY PostureAssumption
  <1>2. PostureTypeOK
    BY <1>1, NoCaptureIsACapture, PostureAssumption DEF PostureInit, PostureTypeOK
  <1>3. \A h \in Capturers : capture[h].pc = "idle" /\ capture[h].ts = 0
    BY DEF PostureInit, NoCapture
  <1>4. HasLatest /\ StampsRun /\ CapturesDealWith /\ RecordedMeansTried
    BY <1>3 DEF PostureInit, HasLatest, StampsRun, CapturesDealWith, RecordedMeansTried
  <1>5. \A i \in Issues : times[i] = 0
    BY DEF PostureInit
  <1>6. Named = {}
    BY <1>5 DEF Named
  <1>7. SerialCaptures
    BY <1>3, <1>5, <1>6 DEF SerialCaptures, NamedOnce, AtRest
  <1> QED
    BY <1>2, <1>4, <1>7 DEF PostureIInv

LEMMA ReadRecordsKeeps ==
    ASSUME PostureIInv, NEW h \in Capturers, ReadRecords(h)
    PROVE  PostureIInv'
  <1> USE DEF PostureIInv
  <1> DEFINE c == [capture[h] EXCEPT !.pc = "prev", !.findings = open]
  <1>1. /\ capture' = [capture EXCEPT ![h] = c] /\ capture[h] \in Capture /\ AtRest(h)
        /\ serial' = (serial /\ \A g \in Capturers : AtRest(g))
        /\ UNCHANGED <<open, alertCfg, kev, toLoad, snapshots, stamp, changes, delivered,
                       refused, excused, times>>
    BY DEF ReadRecords, PostureTypeOK, AtRest, table
  <1>2. c \in Capture /\ c.pc = "prev" /\ c.ts = capture[h].ts
    BY <1>1 DEF Capture, PostureTypeOK
  <1> HIDE DEF c
  <1>3. \A g \in Capturers : capture'[g] = IF g = h THEN c ELSE capture[g]
    BY <1>1 DEF PostureTypeOK
  <1>4. captures' \in 0..MaxCaptures /\ serial' \in BOOLEAN
    BY <1>1, PostureAssumption DEF ReadRecords, PostureTypeOK
  <1>5. PostureTypeOK'
    BY <1>1, <1>2, <1>4 DEF PostureTypeOK
  <1>6. HasLatest' /\ RecordedMeansTried'
    BY <1>1 DEF HasLatest, RecordedMeansTried
  <1>7. StampsRun' /\ CapturesDealWith'
    BY <1>1, <1>2, <1>3 DEF StampsRun, CapturesDealWith, DealtWith
  <1>8. SerialCaptures'
    <2> SUFFICES ASSUME serial' PROVE SerialCaptures'
      BY DEF SerialCaptures
    <2>1. serial /\ \A g \in Capturers : AtRest(g)
      BY <1>1
    <2>2. LatestKeys' = LatestKeys /\ Named' = Named
      BY <1>1 DEF LatestKeys, Named
    <2>3. Named \subseteq LatestKeys
      BY <2>1 DEF SerialCaptures, AtRest
    <2>4. NamedOnce'
      BY <1>1, <2>1 DEF SerialCaptures, NamedOnce
    <2> QED
      BY <1>2, <1>3, <2>1, <2>2, <2>3, <2>4 DEF SerialCaptures, AtRest
  <1> QED
    BY <1>5, <1>6, <1>7, <1>8

LEMMA ReadPreviousKeeps ==
    ASSUME PostureIInv, NEW h \in Capturers, ReadPrevious(h)
    PROVE  PostureIInv'
  <1> USE DEF PostureIInv
  <1> DEFINE c == [capture[h] EXCEPT !.pc = "alert", !.prev_keys = LatestKeys, !.ts = stamp + 1]
  <1>1. /\ capture' = [capture EXCEPT ![h] = c] /\ capture[h] \in Capture
        /\ capture[h].pc = "prev" /\ stamp' = stamp + 1 /\ stamp \in Nat
        /\ UNCHANGED <<open, alertCfg, kev, toLoad, snapshots, captures, changes, delivered, refused, excused,
                       times, serial>>
    BY DEF ReadPrevious, PostureTypeOK, table, postureHistory
  <1>2. /\ c \in Capture /\ c.pc = "alert" /\ c.ts = stamp + 1 /\ c.prev_keys = LatestKeys
    <2>1. stamp + 1 \in Nat /\ LatestKeys \in SUBSET Issues
      BY <1>1, LatestKeysAreIssues
    <2> QED
      BY <1>1, <2>1 DEF Capture
  <1> HIDE DEF c
  <1>3. \A g \in Capturers : capture'[g] = IF g = h THEN c ELSE capture[g]
    BY <1>1 DEF PostureTypeOK
  <1>4. PostureTypeOK'
    BY <1>1, <1>2 DEF PostureTypeOK
  <1>5. HasLatest' /\ RecordedMeansTried'
    BY <1>1 DEF HasLatest, RecordedMeansTried
  <1>6. StampsRun'
    BY <1>1, <1>2, <1>3 DEF StampsRun, PostureTypeOK, Snapshot, Capture
  <1>7. CapturesDealWith'
    BY <1>1, <1>2, <1>3, LatestKeysAreDealtWith DEF CapturesDealWith, DealtWith
  <1>8. SerialCaptures'
    <2> SUFFICES ASSUME serial PROVE SerialCaptures'
      BY <1>1 DEF SerialCaptures
    <2>1. \A g \in Capturers : g # h => AtRest(g)
      BY <1>1 DEF SerialCaptures, AtRest
    <2>2. Named \subseteq LatestKeys /\ Named' = Named
      BY <1>1, <2>1 DEF SerialCaptures, AtRest, Named
    <2>3. \A s \in snapshots : s.ts < stamp + 1
      BY <1>1 DEF StampsRun, PostureTypeOK, Snapshot
    <2>4. NamedOnce'
      BY <1>1 DEF SerialCaptures, NamedOnce
    <2> QED
      BY <1>1, <1>2, <1>3, <2>1, <2>2, <2>3, <2>4 DEF SerialCaptures, AtRest
  <1> QED
    BY <1>4, <1>5, <1>6, <1>7, <1>8

LEMMA SendAlertKeeps ==
    ASSUME PostureIInv, NEW h \in Capturers, SendAlert(h)
    PROVE  PostureIInv'
  <1> USE DEF PostureIInv
  <1> DEFINE c == capture[h]
             events == IF alertCfg.on
                       THEN EvaluateExposureAlerts(c.findings, alertCfg, c.prev_keys) ELSE {}
             passed == {i \in c.findings : ~(alertCfg.on /\ Worthy(i, alertCfg))}
             new == [c EXCEPT !.pc = "append"]
  <1>1. /\ capture' = [capture EXCEPT ![h] = new] /\ c \in Capture /\ c.pc = "alert"
        /\ \/ delivered' = delivered \union events /\ refused' = refused
           \/ refused' = refused \union events /\ delivered' = delivered
        /\ excused' = excused \union passed
        /\ times' = [i \in Issues |-> IF i \notin c.findings THEN 0
                                      ELSE IF i \in events THEN times[i] + 1 ELSE times[i]]
        /\ UNCHANGED <<open, alertCfg, kev, toLoad, snapshots, stamp, captures, changes, serial>>
    BY DEF SendAlert, PostureTypeOK, table
  <1>2. events \subseteq c.findings \ c.prev_keys /\ passed \subseteq c.findings
        /\ c.findings \subseteq events \union passed \union c.prev_keys
        /\ c.findings \subseteq Issues
    BY <1>1 DEF EvaluateExposureAlerts, Capture
  <1>3. new \in Capture /\ new.pc = "append" /\ new.findings = c.findings /\ new.ts = c.ts
    BY <1>1 DEF Capture
  <1> HIDE DEF events, passed, new
  <1>4. \A g \in Capturers : capture'[g] = IF g = h THEN new ELSE capture[g]
    BY <1>1 DEF PostureTypeOK
  <1>5. times' \in [Issues -> Nat]
    BY <1>1 DEF PostureTypeOK
  <1>6. PostureTypeOK'
    BY <1>1, <1>2, <1>3, <1>5 DEF PostureTypeOK
  <1>7. DealtWith \subseteq DealtWith' /\ events \union passed \subseteq DealtWith'
    BY <1>1 DEF DealtWith
  <1>8. HasLatest' /\ StampsRun'
    BY <1>1, <1>3, <1>4 DEF HasLatest, StampsRun
  <1>9. RecordedMeansTried'
    BY <1>1 DEF RecordedMeansTried
  <1>10. CapturesDealWith'
    <2>1. c.findings \subseteq DealtWith'
      BY <1>1, <1>2, <1>7 DEF CapturesDealWith
    <2> QED
      BY <1>3, <1>4, <1>7, <2>1 DEF CapturesDealWith
  <1>11. SerialCaptures'
    <2> SUFFICES ASSUME serial PROVE SerialCaptures'
      BY <1>1 DEF SerialCaptures
    <2>1. Named \subseteq c.prev_keys /\ \A i \in Issues : times[i] <= 1
      BY <1>1 DEF SerialCaptures, NamedOnce
    <2>2. \A i \in events : times[i] = 0
      BY <1>2, <2>1 DEF Named, PostureTypeOK
    <2>3. \A i \in Issues : times'[i] <= 1
      BY <1>1, <2>1, <2>2 DEF PostureTypeOK
    <2>4. Named' \subseteq c.findings
      BY <1>1 DEF Named
    <2>5. \A g \in Capturers : g # h => AtRest(g)
      BY <1>1 DEF SerialCaptures, AtRest
    <2>6. \A s \in snapshots : s.ts < c.ts
      BY <1>1 DEF SerialCaptures
    <2> QED
      BY <1>1, <1>3, <1>4, <2>3, <2>4, <2>5, <2>6 DEF SerialCaptures, NamedOnce, AtRest
  <1> QED
    BY <1>6, <1>8, <1>9, <1>10, <1>11

LEMMA AppendSnapshotKeeps ==
    ASSUME PostureIInv, NEW h \in Capturers, AppendSnapshot(h)
    PROVE  PostureIInv'
  <1> USE DEF PostureIInv
  <1> DEFINE c == capture[h]
             new == [ts |-> c.ts, open_keys |-> c.findings]
  <1>1. /\ capture' = [capture EXCEPT ![h] = NoCapture] /\ c \in Capture /\ c.pc = "append"
        /\ snapshots' = snapshots \union {new}
        /\ UNCHANGED <<open, alertCfg, kev, toLoad, stamp, captures, changes, delivered, refused, excused,
                       times, serial>>
    BY DEF AppendSnapshot, PostureTypeOK, table, postureHistory
  <1>2. new \in Snapshot /\ new.ts = c.ts /\ new.open_keys = c.findings /\ c.ts \in Nat
        /\ c.ts <= stamp
    BY <1>1 DEF Snapshot, Capture, StampsRun
  <1> HIDE DEF new
  <1>3. \A g \in Capturers : capture'[g] = IF g = h THEN NoCapture ELSE capture[g]
    BY <1>1 DEF PostureTypeOK
  <1>4. PostureTypeOK'
    BY <1>1, <1>2, NoCaptureIsACapture DEF PostureTypeOK
  <1>5. HasLatest'
    <2>1. \A s \in snapshots : s.ts \in Nat
      BY DEF PostureTypeOK, Snapshot
    <2>2. CASE snapshots = {}
      BY <1>1, <1>2, <2>2 DEF HasLatest
    <2>3. CASE snapshots # {}
      <3>1. PICK s \in snapshots : \A z \in snapshots : z.ts <= s.ts
        BY <2>3 DEF HasLatest
      <3>2. CASE new.ts <= s.ts
        BY <1>1, <3>1, <3>2 DEF HasLatest
      <3>3. CASE s.ts <= new.ts
        BY <1>1, <1>2, <2>1, <3>1, <3>3 DEF HasLatest
      <3> QED
        BY <1>2, <2>1, <3>2, <3>3
    <2> QED
      BY <2>2, <2>3
  <1>6. StampsRun'
    BY <1>1, <1>2, <1>3 DEF StampsRun, NoCapture, PostureTypeOK
  <1>7. CapturesDealWith'
    BY <1>1, <1>3 DEF CapturesDealWith, DealtWith, NoCapture
  <1>8. RecordedMeansTried'
    BY <1>1, <1>2 DEF RecordedMeansTried, CapturesDealWith, DealtWith
  <1>9. SerialCaptures'
    <2> SUFFICES ASSUME serial PROVE SerialCaptures'
      BY <1>1 DEF SerialCaptures
    <2>1. /\ Named \subseteq c.findings /\ \A s \in snapshots : s.ts < c.ts
          /\ \A g \in Capturers : g # h => AtRest(g)
      BY <1>1 DEF SerialCaptures, AtRest
    <2>2. LatestKeys' = c.findings
      <3>1. /\ new \in snapshots' /\ \A z \in snapshots' : z.ts <= new.ts
            /\ \A s \in snapshots' : (\A z \in snapshots' : z.ts <= s.ts) => s = new
        BY <1>1, <1>2, <2>1 DEF PostureTypeOK, Snapshot
      <3>2. snapshots' # {}
        BY <1>1
      <3>3. (CHOOSE s \in snapshots' : \A z \in snapshots' : z.ts <= s.ts) = new
        BY <3>1
      <3> QED
        BY <1>2, <3>2, <3>3 DEF LatestKeys
    <2>3. Named' = Named
      BY <1>1 DEF Named
    <2>4. NamedOnce' /\ \A g \in Capturers : AtRest(g)'
      BY <1>1, <1>3, <2>1 DEF SerialCaptures, NamedOnce, AtRest, NoCapture
    <2> QED
      BY <2>1, <2>2, <2>3, <2>4 DEF SerialCaptures, AtRest
  <1> QED
    BY <1>4, <1>5, <1>6, <1>7, <1>8, <1>9

LEMMA CaptureDiesKeeps ==
    ASSUME PostureIInv, NEW h \in Capturers, CaptureDies(h)
    PROVE  PostureIInv'
  <1> USE DEF PostureIInv
  <1>1. /\ capture' = [capture EXCEPT ![h] = NoCapture] /\ serial' = FALSE
        /\ UNCHANGED <<open, alertCfg, kev, toLoad, snapshots, stamp, captures, changes, delivered, refused,
                       excused, times>>
    BY DEF CaptureDies, table
  <1>2. PostureTypeOK'
    BY <1>1, NoCaptureIsACapture DEF PostureTypeOK
  <1>3. \A g \in Capturers : capture'[g] = IF g = h THEN NoCapture ELSE capture[g]
    BY <1>1 DEF PostureTypeOK
  <1> QED
    BY <1>1, <1>2, <1>3 DEF HasLatest, StampsRun, CapturesDealWith, DealtWith,
       RecordedMeansTried, SerialCaptures, NoCapture, PostureTypeOK

\* Findings, settings and the KEV table change beside the captures.
LEMMA SurroundingsKeep ==
    ASSUME PostureIInv, PostureTypeOK',
           UNCHANGED <<snapshots, stamp, capture, captures, delivered, refused, excused, times, serial>>
    PROVE  PostureIInv'
  BY DEF PostureIInv, HasLatest, StampsRun, CapturesDealWith, DealtWith, RecordedMeansTried,
     SerialCaptures, NamedOnce, AtRest, Named, LatestKeys

LEMMA PostureNextIInv == PostureIInv /\ [PostureNext]_postureVars => PostureIInv'
  <1> SUFFICES ASSUME PostureIInv, [PostureNext]_postureVars PROVE PostureIInv'
    OBVIOUS
  <1> USE DEF table, postureHistory
  <1>0. changes < MaxChanges => changes + 1 \in 0..MaxChanges
    BY PostureAssumption DEF PostureIInv, PostureTypeOK
  <1>1. ASSUME NEW h \in Capturers, CapturePosture(h) PROVE PostureIInv'
    BY <1>1, ReadRecordsKeeps, ReadPreviousKeeps, SendAlertKeeps, AppendSnapshotKeeps
       DEF CapturePosture
  <1>2. ASSUME NEW h \in Capturers, CaptureDies(h) PROVE PostureIInv'
    BY <1>2, CaptureDiesKeeps
  <1>3. ASSUME NEW i \in Issues, FindingsChange(i) PROVE PostureIInv'
    <2>1. PostureTypeOK'
      BY <1>0, <1>3 DEF FindingsChange, PostureIInv, PostureTypeOK
    <2> QED
      BY <1>3, <2>1, SurroundingsKeep DEF FindingsChange
  <1>4. ASSUME NEW i \in Issues, LoadRow(i) PROVE PostureIInv'
    <2>1. PostureTypeOK'
      BY <1>4 DEF LoadRow, PostureIInv, PostureTypeOK
    <2> QED
      BY <1>4, <2>1, SurroundingsKeep DEF LoadRow
  <1>5. CASE BeginRefresh
    <2>1. PostureTypeOK'
      BY <1>0, <1>5, PostureAssumption DEF BeginRefresh, PostureIInv, PostureTypeOK
    <2> QED
      BY <1>5, <2>1, SurroundingsKeep DEF BeginRefresh
  <1>6. ASSUME NEW cfg \in AlertConfigs, PutAlerts(cfg) PROVE PostureIInv'
    <2>1. PostureTypeOK'
      BY <1>0, <1>6 DEF PutAlerts, PostureIInv, PostureTypeOK
    <2> QED
      BY <1>6, <2>1, SurroundingsKeep DEF PutAlerts
  <1>7. CASE UNCHANGED postureVars
    <2>1. PostureTypeOK'
      BY <1>7 DEF postureVars, PostureIInv, PostureTypeOK
    <2> QED
      BY <1>7, <2>1, SurroundingsKeep DEF postureVars
  <1> QED
    BY <1>1, <1>2, <1>3, <1>4, <1>5, <1>6, <1>7 DEF PostureNext

\* The inductive invariant of posture holds in every reachable state.
THEOREM PostureInvariance == PostureSpec => []PostureIInv
  BY PostureInitIInv, PostureNextIInv, PTL DEF PostureSpec

\* Whatever a snapshot records was named in a message the channel took, refused or
\* lost, or was not worth one when it was recorded: no interleaving of captures, and
\* none that dies, records a finding that nobody tried to announce.
THEOREM NothingIsRecordedUntried == PostureSpec => []RecordedMeansTried
  BY PostureInvariance, PTL DEF PostureIInv

\* Captures that neither overlap nor die name an open finding in one message at
\* most.
THEOREM NamedOnlyOnce == PostureSpec => []NamedOnce
  <1>1. PostureIInv => NamedOnce
    BY DEF PostureIInv, SerialCaptures, NamedOnce
  <1> QED
    BY PostureInvariance, <1>1, PTL

-----------------------------------------------------------------------------
(***************************************************************************)
(* Schedules: rows are only added, and once a run has ended it stays so.   *)
(***************************************************************************)
\* A thread past the start of a run works on a row of its schedule, and past
\* the scan that row no longer says running.
JobsHaveRows ==
    \A t \in Threads :
        runCall[t].pc \in {"scan", "report", "mark"} =>
            /\ runCall[t].run \in 1..Len(scanRun)
            /\ scanRun[runCall[t].run].schedule = runCall[t].schedule
            /\ runCall[t].pc # "scan" => scanRun[runCall[t].run].status # "running"

\* Only a schedule that was enabled when it was read is on the list, and only
\* one begun after it was disabled counts.
Lateness(s) ==
    /\ schedule[s].enabled => lateStarts[s] = 0
    /\ s \in dueList => lateStarts[s] = 0
    /\ schedule[s].state = "unused" => s \notin dueList /\ lateStarts[s] = 0
    /\ lateStarts[s] <= 1

SchedIInv ==
    /\ SchedTypeOK
    /\ JobsHaveRows
    /\ LastRunIsFinished
    /\ \A s \in Schedules : Lateness(s)

\* What every step does to the runs: none disappears, changes its schedule or
\* starts again.
RunsAdvance ==
    /\ scanRun' \in Seq(ScanRun)
    /\ Len(scanRun) <= Len(scanRun') /\ Len(scanRun') <= MaxRuns
    /\ \A r \in 1..Len(scanRun) :
         /\ scanRun'[r].schedule = scanRun[r].schedule
         /\ scanRun[r].status # "running" => scanRun'[r].status # "running"

LEMMA RunsStay ==
    ASSUME SchedTypeOK, UNCHANGED scanRun
    PROVE  RunsAdvance
  BY DEF RunsAdvance, SchedTypeOK

LEMMA NewRunAdvances ==
    ASSUME SchedTypeOK, NEW t \in Threads, NEW s \in Schedules, StartRun(t, s)
    PROVE  /\ RunsAdvance
           /\ Len(scanRun') = Len(scanRun) + 1
           /\ scanRun'[Len(scanRun) + 1].schedule = s
  <1> DEFINE row == [schedule |-> s, status |-> "running", findings |-> {}]
  <1>1. row \in ScanRun /\ row.schedule = s
    BY DEF ScanRun
  <1>2. scanRun' = Append(scanRun, row) /\ scanRun \in Seq(ScanRun) /\ Len(scanRun) < MaxRuns
    BY DEF StartRun, SchedTypeOK
  <1> HIDE DEF row
  <1>3. /\ scanRun' \in Seq(ScanRun) /\ Len(scanRun') = Len(scanRun) + 1
        /\ \A r \in 1..Len(scanRun) : scanRun'[r] = scanRun[r]
        /\ scanRun'[Len(scanRun) + 1] = row
    BY <1>1, <1>2, AppendProperties
  <1>4. Len(scanRun) \in Nat /\ MaxRuns \in Nat
    BY <1>2, LenProperties, SchedulesAssumption
  <1> QED
    BY <1>1, <1>2, <1>3, <1>4 DEF RunsAdvance

\* The engine ends, well or not: the row of the run ends with it.
LEMMA EndedRunAdvances ==
    ASSUME SchedTypeOK, NEW n \in 1..Len(scanRun), NEW row \in ScanRun,
           scanRun' = [scanRun EXCEPT ![n] = row],
           row.schedule = scanRun[n].schedule, row.status # "running"
    PROVE  RunsAdvance /\ scanRun'[n].status # "running"
  <1>1. scanRun \in Seq(ScanRun) /\ Len(scanRun) <= MaxRuns
    BY DEF SchedTypeOK
  <1>2. /\ scanRun' \in Seq(ScanRun) /\ Len(scanRun') = Len(scanRun)
        /\ \A r \in 1..Len(scanRun) : scanRun'[r] = IF r = n THEN row ELSE scanRun[r]
    BY <1>1, ExceptSeq
  <1> QED
    BY <1>1, <1>2 DEF RunsAdvance

\* The two invariants about rows follow from the advance of the rows for every
\* thread and schedule that a step leaves alone.
LEMMA RowsKept ==
    ASSUME SchedIInv, RunsAdvance
    PROVE  /\ \A t \in Threads :
                runCall[t].pc \in {"scan", "report", "mark"} =>
                    /\ runCall[t].run \in 1..Len(scanRun')
                    /\ scanRun'[runCall[t].run].schedule = runCall[t].schedule
                    /\ runCall[t].pc # "scan" => scanRun'[runCall[t].run].status # "running"
           /\ \A s \in Schedules :
                schedule[s].last # 0 =>
                    /\ schedule[s].last <= Len(scanRun')
                    /\ scanRun'[schedule[s].last].schedule = s
                    /\ scanRun'[schedule[s].last].status # "running"
           /\ \A t \in Threads : runCall[t].run <= Len(scanRun')
           /\ Len(scanRun') \in Nat
  <1>1. Len(scanRun) \in Nat /\ Len(scanRun') \in Nat /\ Len(scanRun) <= Len(scanRun')
    BY LenProperties DEF RunsAdvance, SchedIInv, SchedTypeOK
  <1>2. \A s \in Schedules : schedule[s].last # 0 => schedule[s].last \in 1..Len(scanRun)
    BY <1>1 DEF SchedIInv, SchedTypeOK, ScheduleRow, LastRunIsFinished
  <1>3. \A t \in Threads : runCall[t].run \in Nat /\ runCall[t].run <= Len(scanRun)
    BY DEF SchedIInv, SchedTypeOK, Job
  <1>4. \A t \in Threads : runCall[t].run <= Len(scanRun')
    BY <1>1, <1>3
  <1>5. \A r \in 1..Len(scanRun) : r \in 1..Len(scanRun')
    BY <1>1
  <1>6. \A s \in Schedules :
            schedule[s].last # 0 =>
                /\ schedule[s].last <= Len(scanRun')
                /\ scanRun'[schedule[s].last].schedule = s
                /\ scanRun'[schedule[s].last].status # "running"
    BY <1>1, <1>2 DEF SchedIInv, LastRunIsFinished, RunsAdvance
  <1> QED
    BY <1>1, <1>4, <1>5, <1>6 DEF SchedIInv, JobsHaveRows, RunsAdvance

\* A step of one thread's call that leaves the schedules and the list alone.
LEMMA JobStepKeeps ==
    ASSUME SchedIInv, RunsAdvance, NEW t \in Threads, NEW j \in Job,
           runCall' = [runCall EXCEPT ![t] = j],
           j.run <= Len(scanRun'),
           j.pc # "idle" => j.schedule \in Schedules,
           j.pc \in {"scan", "report", "mark"} =>
               /\ j.run \in 1..Len(scanRun')
               /\ scanRun'[j.run].schedule = j.schedule
               /\ j.pc # "scan" => scanRun'[j.run].status # "running",
           clock' \in 0..MaxTime, crashes' \in 0..MaxCrashes,
           told' \in [Schedules -> SUBSET Exposures],
           orderly' \in [Schedules -> BOOLEAN],
           lateStarts' \in [Schedules -> Nat],
           dueList' \subseteq Schedules,
           schedule' = schedule,
           \A s \in Schedules : Lateness(s)'
    PROVE  SchedIInv'
  <1>1. \A u \in Threads : runCall'[u] = IF u = t THEN j ELSE runCall[u]
    BY DEF SchedIInv, SchedTypeOK
  <1>2. runCall' \in [Threads -> Job]
    BY DEF SchedIInv, SchedTypeOK
  <1>3. /\ \A u \in Threads : runCall'[u].run <= Len(scanRun')
        /\ \A u \in Threads : runCall'[u].pc # "idle" => runCall'[u].schedule \in Schedules
    BY <1>1, RowsKept DEF SchedIInv, SchedTypeOK
  <1>4. JobsHaveRows'
    BY <1>1, RowsKept DEF JobsHaveRows
  <1>5. \A u \in Threads : runCall'[u].pc \in {"scan", "report", "mark"} => runCall'[u].run >= 1
    BY <1>4, RowsKept DEF JobsHaveRows
  <1>6. SchedTypeOK'
    BY <1>2, <1>3, <1>5 DEF SchedTypeOK, SchedIInv, RunsAdvance
  <1>7. LastRunIsFinished'
    BY RowsKept DEF LastRunIsFinished
  <1> QED
    BY <1>4, <1>6, <1>7 DEF SchedIInv

LEMMA LatenessStays ==
    ASSUME SchedIInv, UNCHANGED <<schedule, dueList, lateStarts>>
    PROVE  \A s \in Schedules : Lateness(s)'
  BY DEF SchedIInv, Lateness

LEMMA DisturbTypes ==
    ASSUME SchedTypeOK, NEW S, Disturb(S)
    PROVE  orderly' \in [Schedules -> BOOLEAN]
  BY DEF SchedTypeOK, Disturb

\* The call of run_schedule has a row, or has raised before it got one.
LEMMA StartKeeps ==
    ASSUME SchedIInv, NEW t \in Threads, NEW s \in Schedules,
           StartRun(t, s) \/ NotStarted(t, s),
           UNCHANGED <<clock, schedule, crashes, told>>,
           lateStarts' \in [Schedules -> Nat], dueList' \subseteq Schedules,
           \A r \in Schedules : Lateness(r)'
    PROVE  SchedIInv'
  <1>0. SchedTypeOK
    BY DEF SchedIInv
  <1>1. CASE StartRun(t, s)
    <2> DEFINE j == [pc |-> "scan", schedule |-> s, run |-> Len(scanRun) + 1, findings |-> {}]
    <2>1. Len(scanRun) \in Nat
      BY <1>0, LenProperties DEF SchedTypeOK
    <2>2. /\ j \in Job /\ j.pc = "scan" /\ j.schedule = s /\ j.run = Len(scanRun) + 1
          /\ runCall' = [runCall EXCEPT ![t] = j]
      BY <1>1, <2>1 DEF Job, StartRun
    <2> HIDE DEF j
    <2>3. RunsAdvance /\ Len(scanRun') = Len(scanRun) + 1 /\ scanRun'[j.run].schedule = s
      BY <1>0, <1>1, <2>2, NewRunAdvances
    <2>4. orderly' \in [Schedules -> BOOLEAN]
      BY <1>0, <1>1, DisturbTypes DEF StartRun
    <2>5. j.run \in 1..Len(scanRun') /\ j.run <= Len(scanRun')
      BY <2>1, <2>2, <2>3
    <2> QED
      BY <1>0, <2>2, <2>3, <2>4, <2>5, JobStepKeeps DEF SchedTypeOK
  <1>2. CASE NotStarted(t, s)
    <2> DEFINE j == [Idle EXCEPT !.pc = "raised", !.schedule = s]
    <2>1. 0 \in Nat
      OBVIOUS
    <2>2. /\ j \in Job /\ j.pc = "raised" /\ j.schedule = s /\ j.run = 0
          /\ runCall' = [runCall EXCEPT ![t] = j] /\ UNCHANGED <<scanRun, orderly>>
      BY <1>2, <2>1 DEF Job, Idle, NotStarted
    <2> HIDE DEF j
    <2>3. RunsAdvance
      BY <1>0, <2>2, RunsStay
    <2>4. j.run <= Len(scanRun')
      BY <2>2, <2>3, RowsKept
    <2> QED
      BY <1>0, <2>2, <2>3, <2>4, JobStepKeeps DEF SchedTypeOK
  <1> QED
    BY <1>1, <1>2

LEMMA TwoFieldsAtOnce ==
    ASSUME NEW I, NEW f \in [I -> ScanRun], NEW i \in I, NEW found
    PROVE  [f EXCEPT ![i].status = "completed", ![i].findings = found]
             = [f EXCEPT ![i] = [f[i] EXCEPT !.status = "completed", !.findings = found]]
  BY DEF ScanRun

LEMMA ScanEndsKeeps ==
    ASSUME SchedIInv, NEW t \in Threads, ScanCompletes(t) \/ ScanRaises(t)
    PROVE  SchedIInv'
  <1> DEFINE n == runCall[t].run
  <1>0. SchedTypeOK /\ JobsHaveRows
    BY DEF SchedIInv
  <1>1. PICK found \in SUBSET Exposures, row \in ScanRun :
            /\ runCall[t].pc = "scan"
            /\ row.schedule = scanRun[n].schedule /\ row.status # "running"
            /\ scanRun' = [scanRun EXCEPT ![n] = row]
            /\ runCall' = [runCall EXCEPT ![t].pc = "report", ![t].findings = found]
            /\ UNCHANGED <<clock, schedule, dueList, crashes, told, lateStarts>>
            /\ orderly' \in [Schedules -> BOOLEAN]
    <2>1. CASE ScanCompletes(t)
      <3>1. PICK found \in SUBSET Exposures :
                /\ At(t, "scan")
                /\ scanRun' = [scanRun EXCEPT ![n].status = "completed", ![n].findings = found]
                /\ runCall' = [runCall EXCEPT ![t].pc = "report", ![t].findings = found]
                /\ UNCHANGED <<clock, schedule, dueList, crashes, schedHistory>>
        BY <2>1 DEF ScanCompletes
      <3> DEFINE row == [scanRun[n] EXCEPT !.status = "completed", !.findings = found]
      <3>2. n \in 1..Len(scanRun) /\ scanRun \in [1..Len(scanRun) -> ScanRun]
        BY <1>0, <3>1, LenProperties DEF At, JobsHaveRows, SchedTypeOK
      <3>3. scanRun[n] \in ScanRun /\ scanRun' = [scanRun EXCEPT ![n] = row]
        BY <3>1, <3>2, TwoFieldsAtOnce
      <3>4. row \in ScanRun /\ row.schedule = scanRun[n].schedule /\ row.status # "running"
        BY <3>1, <3>3 DEF ScanRun
      <3> HIDE DEF row
      <3> QED
        BY <1>0, <3>1, <3>3, <3>4 DEF At, schedHistory, SchedTypeOK
    <2>2. CASE ScanRaises(t)
      <3>1. PICK found \in SUBSET Exposures :
                /\ At(t, "scan")
                /\ scanRun' = [scanRun EXCEPT ![n].status = "failed"]
                /\ runCall' = [runCall EXCEPT ![t].pc = "report", ![t].findings = found]
                /\ Disturb({runCall[t].schedule})
                /\ UNCHANGED <<clock, schedule, dueList, crashes, told, lateStarts>>
        BY <2>2 DEF ScanRaises
      <3> DEFINE row == [scanRun[n] EXCEPT !.status = "failed"]
      <3>2. scanRun[n] \in ScanRun /\ scanRun' = [scanRun EXCEPT ![n] = row]
        BY <1>0, <3>1 DEF At, JobsHaveRows, SchedTypeOK
      <3>3. row \in ScanRun /\ row.schedule = scanRun[n].schedule /\ row.status # "running"
        BY <3>2 DEF ScanRun
      <3> HIDE DEF row
      <3> QED
        BY <1>0, <3>1, <3>2, <3>3, DisturbTypes DEF At
    <2> QED
      BY <2>1, <2>2
  <1> DEFINE j == [runCall[t] EXCEPT !.pc = "report", !.findings = found]
  <1>2. /\ n \in 1..Len(scanRun) /\ scanRun[n] \in ScanRun
        /\ scanRun[n].schedule = runCall[t].schedule /\ runCall[t] \in Job
        /\ runCall[t].schedule \in Schedules
    BY <1>0, <1>1 DEF JobsHaveRows, SchedTypeOK
  <1>4. /\ j \in Job /\ j.pc = "report" /\ j.run = n /\ j.schedule = runCall[t].schedule
        /\ runCall' = [runCall EXCEPT ![t] = j]
    BY <1>0, <1>1, <1>2 DEF Job, SchedTypeOK
  <1>5. RunsAdvance /\ scanRun'[n].status # "running"
    BY <1>0, <1>1, <1>2, EndedRunAdvances
  <1> HIDE DEF j
  <1>6. /\ j.run \in 1..Len(scanRun') /\ j.run <= Len(scanRun')
        /\ scanRun'[j.run].schedule = j.schedule /\ scanRun'[j.run].status # "running"
        /\ j.schedule \in Schedules
    BY <1>1, <1>2, <1>4, <1>5, RowsKept
  <1>7. \A s \in Schedules : Lateness(s)'
    BY <1>1, LatenessStays
  <1> HIDE DEF n
  <1>8. /\ clock' \in 0..MaxTime /\ crashes' \in 0..MaxCrashes
        /\ told' \in [Schedules -> SUBSET Exposures] /\ lateStarts' \in [Schedules -> Nat]
        /\ dueList' \subseteq Schedules
    BY <1>0, <1>1 DEF SchedTypeOK
  <1> QED
    BY <1>1, <1>4, <1>5, <1>6, <1>7, <1>8, JobStepKeeps

LEMMA ReportKeeps ==
    ASSUME SchedIInv, NEW t \in Threads, Report(t)
    PROVE  SchedIInv'
  <1> DEFINE s == runCall[t].schedule
             j == [runCall[t] EXCEPT !.pc = "mark"]
  <1>0. SchedTypeOK /\ JobsHaveRows
    BY DEF SchedIInv
  <1>1. /\ runCall[t].pc = "report" /\ runCall[t] \in Job /\ runCall' = [runCall EXCEPT ![t] = j]
        /\ UNCHANGED <<clock, schedule, scanRun, dueList, crashes, lateStarts>>
    BY <1>0 DEF Report, At, MoveTo, SchedTypeOK
  <1>2. runCall[t].findings \subseteq Exposures
    BY <1>1 DEF Job
  <1>3. told' \in [Schedules -> SUBSET Exposures] /\ orderly' \in [Schedules -> BOOLEAN]
    <2>1. CASE told' = [told EXCEPT ![s] = (@ \ Diff(t).fixed) \union Diff(t).new]
               /\ UNCHANGED orderly
      <3>1. Diff(t).new \subseteq Exposures
        BY <1>2 DEF Diff, DiffFindings
      <3> QED
        BY <1>0, <2>1, <3>1 DEF SchedTypeOK
    <2>2. CASE Disturb({s}) /\ UNCHANGED told
      BY <1>0, <2>2, DisturbTypes DEF SchedTypeOK
    <2> QED
      BY <2>1, <2>2 DEF Report
  <1>4. /\ j \in Job /\ j.pc = "mark" /\ j.run = runCall[t].run /\ j.schedule = runCall[t].schedule
    BY <1>1 DEF Job
  <1> HIDE DEF j
  <1>5. RunsAdvance
    BY <1>0, <1>1, RunsStay
  <1>6. /\ j.run \in 1..Len(scanRun') /\ scanRun'[j.run].schedule = j.schedule
        /\ scanRun'[j.run].status # "running" /\ j.run <= Len(scanRun')
        /\ j.schedule \in Schedules
    BY <1>0, <1>1, <1>4 DEF JobsHaveRows, SchedTypeOK
  <1>7. \A r \in Schedules : Lateness(r)'
    BY <1>1, LatenessStays
  <1>8. /\ clock' \in 0..MaxTime /\ crashes' \in 0..MaxCrashes
        /\ lateStarts' \in [Schedules -> Nat] /\ dueList' \subseteq Schedules
    BY <1>0, <1>1 DEF SchedTypeOK
  <1> QED
    BY <1>1, <1>3, <1>4, <1>5, <1>6, <1>7, <1>8, JobStepKeeps

LEMMA IdleIsAJob == Idle \in Job /\ Idle.pc = "idle" /\ Idle.run = 0
  <1>1. 0 \in Nat
    OBVIOUS
  <1> QED
    BY <1>1 DEF Idle, Job

\* run_schedule is left by an exception.
LEMMA RaiseKeeps ==
    ASSUME SchedIInv, NEW t \in Threads, Raise(t)
    PROVE  SchedIInv'
  <1>0. SchedTypeOK
    BY DEF SchedIInv
  <1>1. /\ runCall' = [runCall EXCEPT ![t] = Idle]
        /\ UNCHANGED <<clock, schedule, scanRun, dueList, crashes, told, lateStarts>>
        /\ orderly' \in [Schedules -> BOOLEAN]
    BY <1>0, DisturbTypes DEF Raise
  <1>2. RunsAdvance
    BY <1>0, <1>1, RunsStay
  <1>3. Idle.run <= Len(scanRun')
    BY <1>2, IdleIsAJob, RowsKept
  <1>4. \A s \in Schedules : Lateness(s)'
    BY <1>1, LatenessStays
  <1>5. /\ clock' \in 0..MaxTime /\ crashes' \in 0..MaxCrashes
        /\ told' \in [Schedules -> SUBSET Exposures] /\ lateStarts' \in [Schedules -> Nat]
        /\ dueList' \subseteq Schedules
    BY <1>0, <1>1 DEF SchedTypeOK
  <1> QED
    BY <1>1, <1>2, <1>3, <1>4, <1>5, IdleIsAJob, JobStepKeeps

\* A change of one row of the schedules table: its last run has ended.
LEMMA RowStepKeeps ==
    ASSUME SchedIInv, NEW s \in Schedules, NEW row \in ScheduleRow,
           schedule' = [schedule EXCEPT ![s] = row],
           row.last # 0 => /\ row.last <= Len(scanRun)
                           /\ scanRun[row.last].schedule = s
                           /\ scanRun[row.last].status # "running",
           UNCHANGED <<clock, scanRun, dueList, runCall, crashes, told, orderly>>,
           lateStarts' \in [Schedules -> Nat],
           \A r \in Schedules : Lateness(r)'
    PROVE  SchedIInv'
  <1>1. \A r \in Schedules : schedule'[r] = IF r = s THEN row ELSE schedule[r]
    BY DEF SchedIInv, SchedTypeOK
  <1>2. LastRunIsFinished'
    BY <1>1 DEF SchedIInv, LastRunIsFinished
  <1>3. SchedTypeOK'
    BY DEF SchedIInv, SchedTypeOK
  <1>4. JobsHaveRows'
    BY DEF SchedIInv, JobsHaveRows
  <1> QED
    BY <1>2, <1>3, <1>4 DEF SchedIInv

LEMMA EndpointsKeep ==
    ASSUME SchedIInv, NEW s \in Schedules,
           \/ \E enabled \in BOOLEAN : CreateSchedule(s, enabled) \/ SetEnabled(s, enabled)
           \/ DeleteSchedule(s)
    PROVE  SchedIInv'
  <1>0. /\ SchedTypeOK /\ schedule[s] \in ScheduleRow /\ LastRunIsFinished
        /\ schedule \in [Schedules -> ScheduleRow] /\ lateStarts \in [Schedules -> Nat]
        /\ \A r \in Schedules : Lateness(r)
    BY DEF SchedIInv, SchedTypeOK
  <1>1. ASSUME NEW enabled \in BOOLEAN, CreateSchedule(s, enabled) PROVE SchedIInv'
    <2> DEFINE row == [state |-> "present", enabled |-> enabled, next_run_at |-> clock,
                       last |-> 0]
    <2>1. clock \in Nat /\ 0 \in Nat
      BY <1>0, SchedulesAssumption DEF SchedTypeOK
    <2>2. row \in ScheduleRow /\ row.last = 0 /\ row.enabled = enabled /\ row.state = "present"
      BY <2>1 DEF ScheduleRow
    <2>3. /\ schedule' = [schedule EXCEPT ![s] = row] /\ schedule[s].state = "unused"
          /\ UNCHANGED <<clock, scanRun, dueList, runCall, crashes, told, orderly, lateStarts>>
      BY <1>1 DEF CreateSchedule, schedHistory
    <2> HIDE DEF row
    <2>4. \A r \in Schedules : Lateness(r)'
      BY <1>0, <2>2, <2>3 DEF Lateness
    <2> QED
      BY <1>0, <2>2, <2>3, <2>4, RowStepKeeps
  <1>2. ASSUME NEW enabled \in BOOLEAN, SetEnabled(s, enabled) PROVE SchedIInv'
    <2> DEFINE row == [schedule[s] EXCEPT !.enabled = enabled]
    <2>1. /\ row \in ScheduleRow /\ row.last = schedule[s].last /\ row.enabled = enabled
          /\ row.state = schedule[s].state
      BY <1>0 DEF ScheduleRow
    <2>2. /\ schedule' = [schedule EXCEPT ![s] = row] /\ schedule[s].state = "present"
          /\ lateStarts' = [lateStarts EXCEPT ![s] = 0]
          /\ UNCHANGED <<clock, scanRun, dueList, runCall, crashes, told, orderly>>
      BY <1>2 DEF SetEnabled, Present
    <2> HIDE DEF row
    <2>3. 0 \in Nat
      OBVIOUS
    <2>4. lateStarts' \in [Schedules -> Nat]
      BY <1>0, <2>2, <2>3
    <2>5. \A r \in Schedules : lateStarts'[r] = IF r = s THEN 0 ELSE lateStarts[r]
      BY <1>0, <2>2
    <2>6. \A r \in Schedules : Lateness(r)'
      BY <1>0, <2>1, <2>2, <2>5 DEF Lateness
    <2> QED
      BY <1>0, <2>1, <2>2, <2>4, <2>6, RowStepKeeps DEF LastRunIsFinished
  <1>3. CASE DeleteSchedule(s)
    <2> DEFINE row == [schedule[s] EXCEPT !.state = "deleted"]
    <2>1. /\ row \in ScheduleRow /\ row.last = schedule[s].last /\ row.enabled = schedule[s].enabled
          /\ row.state = "deleted"
      BY <1>0 DEF ScheduleRow
    <2>2. /\ schedule' = [schedule EXCEPT ![s] = row]
          /\ UNCHANGED <<clock, scanRun, dueList, runCall, crashes, told, orderly, lateStarts>>
      BY <1>3 DEF DeleteSchedule, schedHistory
    <2> HIDE DEF row
    <2>3. \A r \in Schedules : Lateness(r)'
      BY <1>0, <2>1, <2>2 DEF Lateness
    <2> QED
      BY <1>0, <2>1, <2>2, <2>3, RowStepKeeps DEF LastRunIsFinished
  <1> QED
    BY <1>1, <1>2, <1>3

\* mark_run stores a run that has ended, on the schedule it ran for.
LEMMA MarkRunKeeps ==
    ASSUME SchedIInv, NEW t \in Threads, MarkRun(t)
    PROVE  SchedIInv'
  <1> DEFINE s == runCall[t].schedule
             r == runCall[t].run
  <1>0. /\ SchedTypeOK /\ JobsHaveRows /\ LastRunIsFinished
        /\ \A q \in Schedules : Lateness(q)
    BY DEF SchedIInv
  <1>1. /\ runCall[t].pc = "mark" /\ runCall' = [runCall EXCEPT ![t] = Idle]
        /\ UNCHANGED <<clock, scanRun, dueList, crashes, told, orderly, lateStarts>>
        /\ schedule' = Marked(s, r)
    BY DEF MarkRun, At, schedHistory
  <1>2. /\ s \in Schedules /\ r \in 1..Len(scanRun) /\ scanRun[r].schedule = s
        /\ scanRun[r].status # "running" /\ schedule[s] \in ScheduleRow
        /\ schedule \in [Schedules -> ScheduleRow] /\ r \in Nat
    BY <1>0, <1>1 DEF JobsHaveRows, SchedTypeOK
  <1>3. clock + Interval \in Nat
    BY <1>0, SchedulesAssumption DEF SchedTypeOK
  <1> DEFINE row == [schedule[s] EXCEPT !.next_run_at = clock + Interval, !.last = r]
  <1>4. /\ row \in ScheduleRow /\ row.last = r /\ row.enabled = schedule[s].enabled
        /\ row.state = schedule[s].state
    BY <1>2, <1>3 DEF ScheduleRow
  <1>5. schedule' = schedule \/ schedule' = [schedule EXCEPT ![s] = row]
    BY <1>1, <1>2 DEF Marked
  <1> HIDE DEF row, s, r
  <1>6. \A q \in Schedules :
            schedule'[q] = schedule[q] \/ (q = s /\ schedule'[q] = row)
    BY <1>2, <1>5
  <1>7. schedule' \in [Schedules -> ScheduleRow]
    BY <1>2, <1>4, <1>5
  <1>8. LastRunIsFinished'
    BY <1>0, <1>1, <1>2, <1>4, <1>6 DEF LastRunIsFinished
  <1>9. \A q \in Schedules : Lateness(q)'
    BY <1>0, <1>1, <1>4, <1>6 DEF Lateness
  <1>10. \A u \in Threads : runCall'[u] = IF u = t THEN Idle ELSE runCall[u]
    BY <1>0, <1>1 DEF SchedTypeOK
  <1>11. JobsHaveRows'
    BY <1>0, <1>1, <1>10, IdleIsAJob DEF JobsHaveRows
  <1>12. \A u \in Threads : runCall'[u].run <= Len(scanRun')
    <2>1. Len(scanRun) \in Nat
      BY <1>0, LenProperties DEF SchedTypeOK
    <2>2. 0 <= Len(scanRun)
      BY <2>1
    <2> QED
      BY <1>0, <1>1, <1>10, <2>2, IdleIsAJob DEF SchedTypeOK
  <1>13. SchedTypeOK'
    BY <1>0, <1>1, <1>7, <1>10, <1>12, IdleIsAJob DEF SchedTypeOK
  <1> QED
    BY <1>8, <1>9, <1>11, <1>13 DEF SchedIInv

LEMMA PollKeeps ==
    ASSUME SchedIInv, Poll
    PROVE  SchedIInv'
  <1>1. /\ dueList' = {s \in Schedules : Due(s)}
        /\ UNCHANGED <<clock, schedule, scanRun, runCall, crashes, told, orderly, lateStarts>>
    BY DEF Poll, schedHistory
  <1>2. \A s \in Schedules : Lateness(s)'
    BY <1>1 DEF SchedIInv, Lateness, Due, Present
  <1>3. SchedTypeOK' /\ JobsHaveRows' /\ LastRunIsFinished'
    BY <1>1 DEF SchedIInv, SchedTypeOK, JobsHaveRows, LastRunIsFinished
  <1> QED
    BY <1>2, <1>3 DEF SchedIInv

LEMMA RunDueKeeps ==
    ASSUME SchedIInv, NEW s \in Schedules, RunDue(s)
    PROVE  SchedIInv'
  <1>1. /\ s \in dueList /\ dueList' = dueList \ {s} /\ UNCHANGED <<clock, schedule, crashes, told>>
        /\ lateStarts \in [Schedules -> Nat] /\ dueList' \subseteq Schedules
        /\ StartRun(Poller, s) \/ NotStarted(Poller, s)
        /\ lateStarts' = [lateStarts EXCEPT ![s] = IF schedule[s].enabled THEN @ ELSE @ + 1]
        /\ \A r \in Schedules : Lateness(r)
    BY DEF RunDue, SchedIInv, SchedTypeOK
  <1>2. \A r \in Schedules : lateStarts'[r] =
            IF r = s /\ ~schedule[s].enabled THEN lateStarts[r] + 1 ELSE lateStarts[r]
    BY <1>1
  <1>3. lateStarts' \in [Schedules -> Nat]
    BY <1>1
  <1>4. \A r \in Schedules : Lateness(r)'
    BY <1>1, <1>2 DEF Lateness
  <1>5. Poller \in Threads
    BY DEF Threads
  <1> QED
    BY <1>1, <1>3, <1>4, <1>5, StartKeeps

LEMMA RunNowKeeps ==
    ASSUME SchedIInv, NEW t \in Requesters, NEW s \in Schedules, RunNow(t, s)
    PROVE  SchedIInv'
  <1>1. /\ t \in Threads /\ StartRun(t, s)
        /\ UNCHANGED <<clock, schedule, dueList, crashes, told, lateStarts>>
    BY DEF RunNow, Threads
  <1>2. \A r \in Schedules : Lateness(r)'
    BY <1>1, LatenessStays
  <1>3. lateStarts' \in [Schedules -> Nat] /\ dueList' \subseteq Schedules
    BY <1>1 DEF SchedIInv, SchedTypeOK
  <1> QED
    BY <1>1, <1>2, <1>3, StartKeeps

\* The process dies: rows stay, jobs and the list go.
LEMMA SchedCrashKeeps ==
    ASSUME SchedIInv, SchedCrash
    PROVE  SchedIInv'
  <1>1. /\ crashes < MaxCrashes /\ crashes' = crashes + 1 /\ dueList' = {}
        /\ runCall' = [t \in Threads |-> Idle]
        /\ UNCHANGED <<clock, schedule, scanRun, told, lateStarts>>
        /\ orderly' \in [Schedules -> BOOLEAN]
    BY DisturbTypes DEF SchedCrash, SchedIInv
  <1>2. crashes' \in 0..MaxCrashes
    BY <1>1, SchedulesAssumption DEF SchedIInv, SchedTypeOK
  <1>3. \A t \in Threads : runCall'[t] = Idle
    BY <1>1
  <1>4. runCall' \in [Threads -> Job]
    BY <1>1, IdleIsAJob
  <1>5. \A t \in Threads : runCall'[t].run <= Len(scanRun')
    <2>1. Len(scanRun) \in Nat
      BY LenProperties DEF SchedIInv, SchedTypeOK
    <2>2. 0 <= Len(scanRun)
      BY <2>1
    <2> QED
      BY <1>1, <1>3, <2>2, IdleIsAJob
  <1>6. SchedTypeOK'
    BY <1>1, <1>2, <1>3, <1>4, <1>5, IdleIsAJob DEF SchedIInv, SchedTypeOK
  <1>7. JobsHaveRows' /\ LastRunIsFinished'
    BY <1>1, <1>3, IdleIsAJob DEF SchedIInv, JobsHaveRows, LastRunIsFinished
  <1>8. \A s \in Schedules : Lateness(s)'
    BY <1>1 DEF SchedIInv, Lateness
  <1> QED
    BY <1>6, <1>7, <1>8 DEF SchedIInv

LEMMA SchedInitIInv == SchedInit => SchedIInv
  <1> SUFFICES ASSUME SchedInit PROVE SchedIInv
    OBVIOUS
  <1>1. 0 \in 0..MaxTime /\ 0 \in 0..MaxCrashes /\ MaxRuns \in Nat
    BY SchedulesAssumption
  <1>2. scanRun \in Seq(ScanRun) /\ Len(scanRun) = 0 /\ 0 <= MaxRuns
    BY <1>1 DEF SchedInit
  <1>3. schedule \in [Schedules -> ScheduleRow] /\ lateStarts \in [Schedules -> Nat]
    BY DEF SchedInit, ScheduleRow
  <1>4. \A t \in Threads : runCall[t] = Idle
    BY DEF SchedInit
  <1>5. runCall \in [Threads -> Job]
    BY IdleIsAJob DEF SchedInit
  <1>6. SchedTypeOK
    BY <1>1, <1>2, <1>3, <1>4, <1>5, IdleIsAJob DEF SchedInit, SchedTypeOK
  <1>7. JobsHaveRows
    BY <1>4, IdleIsAJob DEF JobsHaveRows
  <1>8. LastRunIsFinished
    BY DEF SchedInit, LastRunIsFinished
  <1>9. \A s \in Schedules :
            lateStarts[s] = 0 /\ ~schedule[s].enabled /\ s \notin dueList
    BY DEF SchedInit
  <1>10. 0 <= 1
    OBVIOUS
  <1>11. \A s \in Schedules : Lateness(s)
    BY <1>9, <1>10 DEF Lateness
  <1> QED
    BY <1>6, <1>7, <1>8, <1>11 DEF SchedIInv

LEMMA SchedNextIInv == SchedIInv /\ [SchedNext]_schedVars => SchedIInv'
  <1> SUFFICES ASSUME SchedIInv, [SchedNext]_schedVars PROVE SchedIInv'
    OBVIOUS
  <1>1. ASSUME NEW t \in Threads, RunSchedule(t) PROVE SchedIInv'
    BY <1>1, ScanEndsKeeps, ReportKeeps, MarkRunKeeps, RaiseKeeps DEF RunSchedule
  <1>2. CASE PollerStep
    BY <1>1, <1>2, PollKeeps, RunDueKeeps DEF PollerStep, Threads
  <1>3. ASSUME NEW t \in Requesters, (\E s \in Schedules : RunNow(t, s)) \/ RunSchedule(t)
        PROVE  SchedIInv'
    BY <1>1, <1>3, RunNowKeeps DEF Threads
  <1>4. CASE TimePasses
    <2>1. clock' \in 0..MaxTime
      BY <1>4, SchedulesAssumption DEF TimePasses, SchedIInv, SchedTypeOK
    <2>2. UNCHANGED <<schedule, scanRun, dueList, runCall, crashes, told, orderly, lateStarts>>
      BY <1>4 DEF TimePasses, schedHistory
    <2> QED
      BY <2>1, <2>2 DEF SchedIInv, SchedTypeOK, JobsHaveRows, LastRunIsFinished, Lateness
  <1>5. CASE UNCHANGED schedVars
    BY <1>5 DEF schedVars, schedHistory, SchedIInv, SchedTypeOK, JobsHaveRows,
       LastRunIsFinished, Lateness
  <1> QED
    BY <1>2, <1>3, <1>4, <1>5, EndpointsKeep, SchedCrashKeeps DEF SchedNext

\* The inductive invariant of continuous scanning holds in every reachable state.
THEOREM SchedInvariance == SchedSpec => []SchedIInv
  BY SchedInitIInv, SchedNextIInv, PTL DEF SchedSpec

\* However the poller, run-now, failures, deletions and restarts fall together,
\* a schedule points at a run of its own that has ended.
THEOREM LastRunsHaveEnded == SchedSpec => []LastRunIsFinished
  BY SchedInvariance, PTL DEF SchedIInv

\* A schedule that is disabled is begun by the poller once more at most.
THEOREM DisablingTakesHold == SchedSpec => []DisabledRunsAtMostOnce
  <1>1. SchedIInv => DisabledRunsAtMostOnce
    BY DEF SchedIInv, DisabledRunsAtMostOnce, Lateness
  <1> QED
    BY SchedInvariance, <1>1, PTL

-----------------------------------------------------------------------------
(***************************************************************************)
(* Schedules: the notices of a schedule add up.                            *)
(***************************************************************************)
\* A set of the first n numbers has a greatest one.
LEMMA Greatest ==
    ASSUME NEW n \in Nat, NEW S \in SUBSET (1..n), S # {}
    PROVE  \E r \in S : \A q \in S : q <= r
<1> DEFINE T == {n - r : r \in S}
           R == OpToRel(<, Nat)
<1>1. T \subseteq Nat /\ T # {}
  <2>1. \A r \in S : r \in Nat /\ r <= n /\ n - r \in Nat
    OBVIOUS
  <2> QED
    BY <2>1
<1>2. IsWellFoundedOn(R, Nat)
  BY NatLessThanWellFounded, Zenon
<1>3. PICK x \in T : \A y \in T : ~ (<<y, x>> \in R)
  <2> HIDE DEF R, T
  <2> QED
    BY <1>1, <1>2, WFMin
<1>4. \A y \in T : ~ (y < x)
  BY <1>1, <1>3 DEF OpToRel
<1>5. PICK r \in S : x = n - r
  BY <1>3
<1>6. ASSUME NEW q \in S PROVE q <= r
  <2>1. n - q \in T /\ ~ (n - q < n - r)
    BY <1>4, <1>5
  <2>2. q \in Int /\ r \in Int
    OBVIOUS
  <2> HIDE DEF T, R
  <2> QED
    BY <2>1, <2>2
<1> QED
  BY <1>6

\* The runs of a schedule, the newest of a set of runs, and what a run found.
Mine(s) == {r \in 1..Len(scanRun) : scanRun[r].schedule = s}
Top(S) == IF S = {} THEN 0 ELSE CHOOSE r \in S : \A q \in S : q <= r
Found(rows, r) == IF r = 0 THEN {} ELSE rows[r].findings

\* A set of run numbers, and rows that found the same in all of these runs.
Numbers(S) == \E n \in Nat : S \subseteq 1..n
SameFindings(S, rows, rowsAfter) == \A r \in S : rowsAfter[r].findings = rows[r].findings
Alike(threads, calls, callsAfter) == \A t \in threads : callsAfter[t] = calls[t]

LEMMA TopIsTop ==
    ASSUME NEW n \in Nat, NEW S \in SUBSET (1..n)
    PROVE  /\ S = {} => Top(S) = 0
           /\ S # {} => Top(S) \in S /\ Top(S) # 0 /\ \A q \in S : q <= Top(S)
<1>1. CASE S = {}
  BY <1>1 DEF Top
<1>2. CASE S # {}
  <2>1. \E r \in S : \A q \in S : q <= r
    BY <1>2, Greatest
  <2>2. Top(S) \in S /\ \A q \in S : q <= Top(S)
    BY <1>2, <2>1 DEF Top
  <2>3. \A r \in S : r # 0
    OBVIOUS
  <2> QED
    BY <1>2, <2>2, <2>3
<1> QED
  BY <1>1, <1>2

\* A newer run than all others is the newest.
LEMMA NewTop ==
    ASSUME NEW n \in Nat, NEW S \in SUBSET (1..n)
    PROVE  Top(S \union {n + 1}) = n + 1
<1> DEFINE A == S \union {n + 1}
           m == n + 1
<1>1. A \in SUBSET (1..m) /\ m \in Nat /\ A # {} /\ m \in A
  OBVIOUS
<1> HIDE DEF A, m
<1>2. Top(A) \in A /\ m <= Top(A)
  BY <1>1, TopIsTop
<1>3. Top(A) \in 1..m
  BY <1>1, <1>2
<1>4. Top(A) = m
  BY <1>1, <1>2, <1>3
<1> QED
  BY <1>4 DEF A, m

\* As long as the runs of a schedule are orderly, one thread at most is at a run
\* of it, which is the newest, and whoever reads the notices knows what the last
\* run that was reported found.
Adds(inOrder, known, busy, calls, mine, rows) ==
    inOrder =>
        /\ busy = {} => known = Found(rows, Top(mine))
        /\ \A t \in busy :
             /\ busy = {t}
             /\ calls[t].run = Top(mine)
             /\ known = Found(rows, Top(mine \ {calls[t].run}))
             /\ calls[t].pc = "report" => Found(rows, calls[t].run) = calls[t].findings

Notices(s) == Adds(orderly[s], told[s], Busy(s), runCall, Mine(s), scanRun)

NoticesIInv == SchedIInv /\ \A s \in Schedules : Notices(s)

LEMMA NewestIsTop ==
    /\ \A s \in Schedules : NewestRun(s) = Top(Mine(s))
    /\ \A t \in Threads : Previous(t) = Top(Mine(runCall[t].schedule) \ {runCall[t].run})
<1>1. \A s \in Schedules : NewestRun(s) = Top(Mine(s))
  BY DEF NewestRun, Top, Mine
<1>2. ASSUME NEW t \in Threads
      PROVE  Previous(t) = Top(Mine(runCall[t].schedule) \ {runCall[t].run})
  <2> DEFINE others == {r \in 1..Len(scanRun) : scanRun[r].schedule = runCall[t].schedule
                                                /\ r # runCall[t].run}
  <2>1. others = Mine(runCall[t].schedule) \ {runCall[t].run}
    BY DEF Mine
  <2>2. Previous(t) = Top(others)
    BY DEF Previous, Top
  <2> QED
    BY <2>1, <2>2
<1> QED
  BY <1>1, <1>2

\* What a set of runs comes to, when the rows of these runs stay as they were.
LEMMA FoundStays ==
    ASSUME NEW mine, Numbers(mine), NEW rows, NEW rowsAfter, SameFindings(mine, rows, rowsAfter),
           NEW S \in SUBSET mine
    PROVE  Found(rowsAfter, Top(S)) = Found(rows, Top(S))
<1>1. PICK n \in Nat : S \in SUBSET (1..n)
  BY DEF Numbers
<1>2. Top(S) = 0 \/ Top(S) \in mine
  BY <1>1, TopIsTop
<1> QED
  BY <1>2 DEF Found, SameFindings

LEMMA AddsStays ==
    ASSUME NEW mine, Numbers(mine), NEW rows, NEW rowsAfter, SameFindings(mine, rows, rowsAfter),
           NEW inOrder, NEW inOrderAfter, inOrderAfter => inOrder,
           NEW known, NEW busy, NEW calls, NEW callsAfter, Alike(busy, calls, callsAfter),
           Adds(inOrder, known, busy, calls, mine, rows)
    PROVE  Adds(inOrderAfter, known, busy, callsAfter, mine, rowsAfter)
<1>1. \A S \in SUBSET mine : Found(rowsAfter, Top(S)) = Found(rows, Top(S))
  BY FoundStays
<1>2. Found(rowsAfter, Top(mine)) = Found(rows, Top(mine))
  BY <1>1
<1>3. \A r : Found(rowsAfter, Top(mine \ {r})) = Found(rows, Top(mine \ {r}))
  BY <1>1
<1> SUFFICES ASSUME inOrderAfter
             PROVE  /\ busy = {} => known = Found(rowsAfter, Top(mine))
                    /\ \A t \in busy :
                         /\ busy = {t}
                         /\ calls[t].run = Top(mine)
                         /\ known = Found(rowsAfter, Top(mine \ {calls[t].run}))
                         /\ calls[t].pc = "report" =>
                              Found(rowsAfter, calls[t].run) = calls[t].findings
  BY DEF Adds, Alike
<1> QED
  BY <1>2, <1>3 DEF Adds

LEMMA MineIsNumbers == ASSUME SchedTypeOK, NEW s PROVE Numbers(Mine(s))
<1>1. Len(scanRun) \in Nat
  BY LenProperties DEF SchedTypeOK
<1> QED
  BY <1>1 DEF Numbers, Mine

\* A schedule whose runs, threads and notices a step leaves alone.
LEMMA QuietKeeps ==
    ASSUME SchedTypeOK, NEW s \in Schedules, Notices(s),
           orderly'[s] => orderly[s], told'[s] = told[s],
           Busy(s)' = Busy(s), Alike(Busy(s), runCall, runCall'),
           Mine(s)' = Mine(s), SameFindings(Mine(s), scanRun, scanRun')
    PROVE  Notices(s)'
<1>1. Numbers(Mine(s))
  BY MineIsNumbers
<1>2. Adds(orderly[s], told[s], Busy(s), runCall, Mine(s), scanRun)
  BY DEF Notices
<1>3. Adds(orderly'[s], told[s], Busy(s), runCall', Mine(s), scanRun')
  BY <1>1, <1>2, AddsStays
<1> QED
  BY <1>3 DEF Notices

(***************************************************************************)
(* The steps of a call.                                                    *)
(***************************************************************************)
LEMMA BusyAre ==
    ASSUME NEW s
    PROVE  \A t : t \in Busy(s) <=>
               t \in Threads /\ runCall[t].schedule = s /\ runCall[t].pc \in {"scan", "report"}
BY DEF Busy

\* The row of a run belongs to one schedule.
LEMMA MineIsMine ==
    ASSUME SchedTypeOK, NEW n \in 1..Len(scanRun), NEW s, scanRun[n].schedule # s
    PROVE  n \notin Mine(s)
BY DEF Mine

\* A step that touches neither rows nor threads at a run.
LEMMA NothingMoves ==
    ASSUME SchedTypeOK, \A s \in Schedules : Notices(s), UNCHANGED <<scanRun, told>>,
           \A s \in Schedules : orderly'[s] => orderly[s],
           \A s \in Schedules : Busy(s)' = Busy(s) /\ Alike(Busy(s), runCall, runCall')
    PROVE  \A s \in Schedules : Notices(s)'
<1> TAKE s \in Schedules
<1>1. Mine(s)' = Mine(s) /\ SameFindings(Mine(s), scanRun, scanRun') /\ told'[s] = told[s]
  BY DEF Mine, SameFindings
<1> QED
  BY <1>1, QuietKeeps

\* A run begins: it is the newest of its schedule, and the one before it is the
\* one its notice will be about.
LEMMA StartAdds ==
    ASSUME SchedTypeOK, \A s \in Schedules : Notices(s),
           NEW t \in Threads, NEW n \in Schedules, runCall[t].pc = "idle",
           StartRun(t, n), UNCHANGED told
    PROVE  \A s \in Schedules : Notices(s)'
<1> DEFINE m == Len(scanRun) + 1
<1>1. /\ RunsAdvance /\ Len(scanRun') = m /\ scanRun'[m].schedule = n
      /\ Len(scanRun) \in Nat
      /\ \A r \in 1..Len(scanRun) : scanRun'[r] = scanRun[r]
  <2>1. Len(scanRun) \in Nat /\ scanRun \in Seq(ScanRun)
    BY LenProperties DEF SchedTypeOK
  <2>2. \A r \in 1..Len(scanRun) : scanRun'[r] = scanRun[r]
    BY <2>1 DEF StartRun
  <2> QED
    BY <2>1, <2>2, NewRunAdvances
<1>2. /\ runCall'[t].pc = "scan" /\ runCall'[t].schedule = n /\ runCall'[t].run = m
      /\ \A u \in Threads : u # t => runCall'[u] = runCall[u]
  BY DEF StartRun, SchedTypeOK
<1>3. \A s \in Schedules : orderly'[s] = (orderly[s] /\ (s = n => Busy(s) = {}))
  BY DEF StartRun, Disturb
<1>4. ASSUME NEW s \in Schedules, s # n PROVE Notices(s)'
  <2>1. Busy(s)' = Busy(s) /\ Alike(Busy(s), runCall, runCall')
    BY <1>2, <1>4 DEF Busy, Alike
  <2>2. Mine(s)' = Mine(s) /\ SameFindings(Mine(s), scanRun, scanRun')
    BY <1>1, <1>4 DEF Mine, SameFindings
  <2> QED
    BY <1>3, <2>1, <2>2, QuietKeeps
<1>5. Notices(n)'
  <2> SUFFICES ASSUME orderly'[n]
               PROVE  Adds(TRUE, told[n], Busy(n)', runCall', Mine(n)', scanRun')
    BY DEF Notices, Adds
  <2>1. orderly[n] /\ Busy(n) = {}
    BY <1>3
  <2>2. told[n] = Found(scanRun, Top(Mine(n)))
    BY <2>1 DEF Notices, Adds
  <2>3. Busy(n)' = {t}
    BY <1>2, <2>1 DEF Busy
  <2>4. Mine(n)' = Mine(n) \union {m} /\ Mine(n)' \ {m} = Mine(n)
    BY <1>1 DEF Mine
  <2>5. Top(Mine(n)') = m
    <3>1. Mine(n) \in SUBSET (1..Len(scanRun))
      BY DEF Mine
    <3> QED
      BY <1>1, <2>4, <3>1, NewTop
  <2>6. Found(scanRun', Top(Mine(n))) = Found(scanRun, Top(Mine(n)))
    <3>1. SameFindings(Mine(n), scanRun, scanRun')
      BY <1>1 DEF SameFindings, Mine
    <3> QED
      BY <3>1, MineIsNumbers, FoundStays
  <2> QED
    BY <1>2, <2>2, <2>3, <2>4, <2>5, <2>6 DEF Adds
<1> QED
  BY <1>4, <1>5

\* The call of a thread at a run, whose row is its schedule's.
LEMMA AtARun ==
    ASSUME SchedIInv, NEW t \in Threads, runCall[t].pc \in {"scan", "report"}
    PROVE  /\ SchedTypeOK
           /\ runCall[t].run \in 1..Len(scanRun)
           /\ runCall[t].schedule \in Schedules
           /\ scanRun[runCall[t].run].schedule = runCall[t].schedule
           /\ t \in Busy(runCall[t].schedule)
           /\ runCall[t].run # 0
BY DEF SchedIInv, SchedTypeOK, JobsHaveRows, Busy

\* A scan of t ends and leaves its row with "found": no other schedule sees it.
LEMMA ScanEndsAdds ==
    ASSUME SchedIInv, \A s \in Schedules : Notices(s), NEW t \in Threads, runCall[t].pc = "scan",
           NEW row \in ScanRun, scanRun' = [scanRun EXCEPT ![runCall[t].run] = row],
           row.schedule = runCall[t].schedule,
           NEW j, runCall' = [runCall EXCEPT ![t] = j],
           j.pc = "report", j.run = runCall[t].run, j.schedule = runCall[t].schedule,
           UNCHANGED told, \A s \in Schedules : orderly'[s] => orderly[s],
           orderly'[runCall[t].schedule] => row.findings = j.findings
    PROVE  \A s \in Schedules : Notices(s)'
<1>0. PICK own, n : own = runCall[t].schedule /\ n = runCall[t].run
  OBVIOUS
<1>1. /\ SchedTypeOK /\ n \in 1..Len(scanRun) /\ own \in Schedules /\ n # 0
      /\ scanRun[n].schedule = own /\ t \in Busy(own)
  BY <1>0, AtARun
<1>2. /\ Len(scanRun') = Len(scanRun) /\ scanRun'[n] = row
      /\ \A r \in 1..Len(scanRun) : r # n => scanRun'[r] = scanRun[r]
  BY <1>0, <1>1 DEF SchedTypeOK
<1>3. runCall'[t] = j /\ \A u \in Threads : u # t => runCall'[u] = runCall[u]
  BY DEF SchedIInv, SchedTypeOK
<1>4. \A s \in Schedules : Busy(s)' = Busy(s) /\ Mine(s)' = Mine(s)
  BY <1>0, <1>1, <1>2, <1>3 DEF Busy, Mine
<1>5. ASSUME NEW s \in Schedules, s # own PROVE Notices(s)'
  <2>1. Alike(Busy(s), runCall, runCall')
    BY <1>0, <1>3, <1>5 DEF Busy, Alike
  <2>2. SameFindings(Mine(s), scanRun, scanRun')
    BY <1>1, <1>2, <1>5 DEF Mine, SameFindings
  <2> QED
    BY <1>1, <1>4, <2>1, <2>2, QuietKeeps
<1>6. Notices(own)'
  <2>a. told'[own] = told[own] /\ Busy(own)' = Busy(own) /\ Mine(own)' = Mine(own)
    BY <1>1, <1>4
  <2>b. Notices(own)' = Adds(orderly'[own], told[own], Busy(own), runCall', Mine(own), scanRun')
    BY <2>a DEF Notices
  <2> SUFFICES ASSUME orderly'[own]
               PROVE  Adds(TRUE, told[own], Busy(own), runCall', Mine(own), scanRun')
    BY <2>b DEF Adds
  <2>1. /\ Busy(own) = {t} /\ n = Top(Mine(own))
        /\ told[own] = Found(scanRun, Top(Mine(own) \ {n}))
    BY <1>0, <1>1 DEF Notices, Adds
  <2>2. Found(scanRun', Top(Mine(own) \ {n})) = Found(scanRun, Top(Mine(own) \ {n}))
    <3>1. Numbers(Mine(own) \ {n})
      BY <1>1, MineIsNumbers DEF Numbers
    <3>2. SameFindings(Mine(own) \ {n}, scanRun, scanRun')
      BY <1>2 DEF SameFindings, Mine
    <3> QED
      BY <3>1, <3>2, FoundStays
  <2>3. Found(scanRun', n) = j.findings
    BY <1>0, <1>1, <1>2 DEF Found
    <2> QED
    BY <1>0, <1>3, <2>1, <2>2, <2>3 DEF Adds
<1> QED
  BY <1>5, <1>6

LEMMA ScanCompletesAdds ==
    ASSUME NoticesIInv, NEW t \in Threads, ScanCompletes(t)
    PROVE  \A s \in Schedules : Notices(s)'
<1>0. SchedIInv /\ \A s \in Schedules : Notices(s)
  BY DEF NoticesIInv
<1>1. PICK found \in SUBSET Exposures :
        /\ scanRun' = [scanRun EXCEPT ![runCall[t].run].status = "completed",
                                      ![runCall[t].run].findings = found]
        /\ runCall' = [runCall EXCEPT ![t].pc = "report", ![t].findings = found]
  BY DEF ScanCompletes
<1> DEFINE n == runCall[t].run
           row == [scanRun[n] EXCEPT !.status = "completed", !.findings = found]
           j == [runCall[t] EXCEPT !.pc = "report", !.findings = found]
<1>2. /\ runCall[t].pc = "scan" /\ UNCHANGED told
      /\ \A s \in Schedules : orderly'[s] => orderly[s]
  BY DEF ScanCompletes, At, schedHistory
<1>3. n \in 1..Len(scanRun) /\ scanRun[n] \in ScanRun /\ scanRun[n].schedule = runCall[t].schedule
      /\ runCall[t] \in Job
  BY <1>0, <1>2, AtARun DEF SchedTypeOK
<1>4. row \in ScanRun /\ row.schedule = runCall[t].schedule /\ row.findings = found
  BY <1>3 DEF ScanRun
<1>9. scanRun \in [1..Len(scanRun) -> ScanRun]
  BY <1>0 DEF SchedIInv, SchedTypeOK
<1>5. scanRun' = [scanRun EXCEPT ![n] = row]
  BY <1>0, <1>1, <1>3, <1>9, TwoFieldsAtOnce, Zenon
<1>6. /\ runCall' = [runCall EXCEPT ![t] = j]
      /\ j.pc = "report" /\ j.run = n /\ j.schedule = runCall[t].schedule /\ j.findings = found
  BY <1>0, <1>1, <1>3 DEF SchedIInv, SchedTypeOK, Job
<1> HIDE DEF row, j
<1> QED
  BY <1>0, <1>2, <1>4, <1>5, <1>6, ScanEndsAdds

LEMMA ScanRaisesAdds ==
    ASSUME NoticesIInv, NEW t \in Threads, ScanRaises(t)
    PROVE  \A s \in Schedules : Notices(s)'
<1>0. SchedIInv /\ \A s \in Schedules : Notices(s)
  BY DEF NoticesIInv
<1>1. PICK found \in SUBSET Exposures :
        /\ scanRun' = [scanRun EXCEPT ![runCall[t].run].status = "failed"]
        /\ runCall' = [runCall EXCEPT ![t].pc = "report", ![t].findings = found]
  BY DEF ScanRaises
<1> DEFINE n == runCall[t].run
           row == [scanRun[n] EXCEPT !.status = "failed"]
           j == [runCall[t] EXCEPT !.pc = "report", !.findings = found]
<1>2. /\ runCall[t].pc = "scan" /\ UNCHANGED told /\ Disturb({runCall[t].schedule})
  BY DEF ScanRaises, At
<1>3. n \in 1..Len(scanRun) /\ scanRun[n] \in ScanRun /\ scanRun[n].schedule = runCall[t].schedule
      /\ runCall[t] \in Job /\ runCall[t].schedule \in Schedules
  BY <1>0, <1>2, AtARun DEF SchedTypeOK
<1>4. row \in ScanRun /\ row.schedule = runCall[t].schedule
  BY <1>3 DEF ScanRun
<1>5. scanRun' = [scanRun EXCEPT ![n] = row]
  BY <1>0, <1>1, <1>3 DEF SchedIInv, SchedTypeOK
<1>6. /\ runCall' = [runCall EXCEPT ![t] = j]
      /\ j.pc = "report" /\ j.run = n /\ j.schedule = runCall[t].schedule
  BY <1>0, <1>1, <1>3 DEF SchedIInv, SchedTypeOK, Job
<1>7. /\ \A s \in Schedules : orderly'[s] => orderly[s]
      /\ ~orderly'[runCall[t].schedule]
  BY <1>2, <1>3 DEF Disturb
<1> HIDE DEF row, j
<1> QED
  BY <1>0, <1>2, <1>4, <1>5, <1>6, <1>7, ScanEndsAdds

\* A notice that is sent takes its reader from what the run before found to what
\* this one did.
LEMMA ReportAdds ==
    ASSUME NoticesIInv, NEW t \in Threads, Report(t)
    PROVE  \A s \in Schedules : Notices(s)'
<1>0. SchedIInv /\ \A s \in Schedules : Notices(s)
  BY DEF NoticesIInv
<1>a. PICK own, n : own = runCall[t].schedule /\ n = runCall[t].run
  OBVIOUS
<1>1. /\ runCall[t].pc = "report" /\ runCall' = [runCall EXCEPT ![t].pc = "mark"]
      /\ UNCHANGED scanRun
      /\ \/ told' = [told EXCEPT ![own] = (@ \ Diff(t).fixed) \union Diff(t).new] /\ UNCHANGED orderly
         \/ Disturb({own}) /\ UNCHANGED told
  BY <1>a DEF Report, At, MoveTo
<1>2. /\ SchedTypeOK /\ n \in 1..Len(scanRun) /\ own \in Schedules /\ n # 0 /\ t \in Busy(own)
  BY <1>0, <1>a, <1>1, AtARun
<1>3. /\ runCall'[t].pc = "mark" /\ \A u \in Threads : u # t => runCall'[u] = runCall[u]
      /\ runCall'[t].schedule = own
  BY <1>a, <1>1, <1>2 DEF SchedTypeOK, Job
<1>4. \A s : Mine(s)' = Mine(s) /\ SameFindings(Mine(s), scanRun, scanRun')
  BY <1>1 DEF Mine, SameFindings
<1>5. /\ \A s \in Schedules : orderly'[s] => orderly[s]
      /\ \A s \in Schedules : s # own => told'[s] = told[s]
  BY <1>1, <1>2 DEF SchedTypeOK, Disturb
<1>6. ASSUME NEW s \in Schedules, s # own PROVE Notices(s)'
  <2>1. Busy(s)' = Busy(s) /\ Alike(Busy(s), runCall, runCall')
    BY <1>a, <1>3, <1>6 DEF Busy, Alike
  <2> QED
    BY <1>0, <1>2, <1>4, <1>5, <1>6, <2>1, QuietKeeps
<1>7. Notices(own)'
  <2> SUFFICES ASSUME orderly'[own]
               PROVE  Adds(TRUE, told'[own], Busy(own)', runCall', Mine(own), scanRun)
    BY <1>1, <1>4 DEF Notices, Adds
  <2>1. /\ Busy(own) = {t} /\ n = Top(Mine(own))
        /\ told[own] = Found(scanRun, Top(Mine(own) \ {n}))
        /\ Found(scanRun, n) = runCall[t].findings
    BY <1>0, <1>a, <1>1, <1>2, <1>5 DEF Notices, Adds
  <2>2. Busy(own)' = {}
    BY <1>3, <2>1 DEF Busy
  <2>3. told' = [told EXCEPT ![own] = (@ \ Diff(t).fixed) \union Diff(t).new]
    BY <1>1, <1>2 DEF Disturb
  <2>4. Diff(t) = DiffFindings(told[own], runCall[t].findings)
    BY <1>a, <2>1, NewestIsTop DEF Diff, Found
  <2>5. told'[own] = (told[own] \ Diff(t).fixed) \union Diff(t).new
    BY <1>2, <2>3 DEF SchedTypeOK
  <2>6. told'[own] = runCall[t].findings
    BY <2>4, <2>5 DEF DiffFindings
  <2> QED
    BY <2>1, <2>2, <2>6 DEF Adds
<1> QED
  BY <1>2, <1>6, <1>7

LEMMA RaiseAdds ==
    ASSUME NoticesIInv, NEW t \in Threads, Raise(t)
    PROVE  \A s \in Schedules : Notices(s)'
<1>0. SchedIInv /\ SchedTypeOK /\ \A s \in Schedules : Notices(s)
  BY DEF NoticesIInv, SchedIInv
<1> DEFINE own == runCall[t].schedule
<1>1. /\ runCall' = [runCall EXCEPT ![t] = Idle] /\ UNCHANGED <<scanRun, told>>
      /\ Disturb(IF t \in Busy(own) THEN {own} ELSE {})
  BY DEF Raise
<1>2. runCall'[t] = Idle /\ \A u \in Threads : u # t => runCall'[u] = runCall[u]
  BY <1>0, <1>1 DEF SchedTypeOK
<1>3. \A s \in Schedules : orderly'[s] => orderly[s] /\ (t \in Busy(own) => s # own)
  BY <1>1 DEF Disturb
<1>4. ASSUME NEW s \in Schedules, orderly'[s]
      PROVE  Busy(s)' = Busy(s) /\ Alike(Busy(s), runCall, runCall')
  <2>1. t \notin Busy(s)
    BY <1>3, <1>4 DEF Busy
  <2> QED
    BY <1>2, <2>1, IdleIsAJob DEF Busy, Alike
<1>5. ASSUME NEW s \in Schedules PROVE Notices(s)'
  <2>1. CASE ~orderly'[s]
    BY <2>1 DEF Notices, Adds
  <2>2. CASE orderly'[s]
    <3>1. Mine(s)' = Mine(s) /\ SameFindings(Mine(s), scanRun, scanRun') /\ told'[s] = told[s]
      BY <1>1 DEF Mine, SameFindings
    <3> QED
      BY <1>0, <1>3, <1>4, <2>2, <3>1, QuietKeeps
  <2> QED
    BY <2>1, <2>2
<1> QED
  BY <1>5

LEMMA SchedCrashAdds ==
    ASSUME NoticesIInv, SchedCrash
    PROVE  \A s \in Schedules : Notices(s)'
<1>0. SchedTypeOK /\ \A s \in Schedules : Notices(s)
  BY DEF NoticesIInv, SchedIInv
<1>1. /\ \A t \in Threads : runCall'[t] = Idle
      /\ UNCHANGED <<scanRun, told>>
      /\ \A s \in Schedules : orderly'[s] => orderly[s] /\ Busy(s) = {}
  BY DEF SchedCrash, Disturb
<1>2. ASSUME NEW s \in Schedules PROVE Notices(s)'
  <2>1. CASE ~orderly'[s]
    BY <2>1 DEF Notices, Adds
  <2>2. CASE orderly'[s]
    <3>1. Mine(s)' = Mine(s) /\ SameFindings(Mine(s), scanRun, scanRun') /\ told'[s] = told[s]
      BY <1>1 DEF Mine, SameFindings
    <3>2. Busy(s) = {} /\ Busy(s)' = {} /\ Alike(Busy(s), runCall, runCall')
      BY <1>1, <2>2, IdleIsAJob DEF Busy, Alike
    <3> QED
      BY <1>0, <1>1, <3>1, <3>2, QuietKeeps
  <2> QED
    BY <2>1, <2>2
<1> QED
  BY <1>2

LEMMA MarkRunAdds ==
    ASSUME NoticesIInv, NEW t \in Threads, MarkRun(t)
    PROVE  \A s \in Schedules : Notices(s)'
<1>0. SchedTypeOK /\ \A s \in Schedules : Notices(s)
  BY DEF NoticesIInv, SchedIInv
<1>1. /\ runCall[t].pc = "mark" /\ runCall'[t] = Idle
      /\ \A u \in Threads : u # t => runCall'[u] = runCall[u]
      /\ UNCHANGED <<scanRun, told, orderly>>
  BY <1>0 DEF MarkRun, At, SchedTypeOK, schedHistory
<1>2. \A s \in Schedules : Busy(s)' = Busy(s) /\ Alike(Busy(s), runCall, runCall')
  BY <1>1, IdleIsAJob DEF Busy, Alike
<1> QED
  BY <1>0, <1>1, <1>2, NothingMoves

LEMMA NotStartedAdds ==
    ASSUME NoticesIInv, NEW t \in Threads, NEW n \in Schedules, runCall[t].pc = "idle",
           NotStarted(t, n), UNCHANGED told
    PROVE  \A s \in Schedules : Notices(s)'
<1>0. SchedTypeOK /\ \A s \in Schedules : Notices(s)
  BY DEF NoticesIInv, SchedIInv
<1>1. /\ runCall'[t].pc = "raised"
      /\ \A u \in Threads : u # t => runCall'[u] = runCall[u]
      /\ UNCHANGED <<scanRun, told, orderly>>
  BY <1>0 DEF NotStarted, SchedTypeOK, Idle
<1>2. \A s \in Schedules : Busy(s)' = Busy(s) /\ Alike(Busy(s), runCall, runCall')
  BY <1>1 DEF Busy, Alike
<1> QED
  BY <1>0, <1>1, <1>2, NothingMoves

LEMMA NoticesNextIInv == NoticesIInv /\ [SchedNext]_schedVars => NoticesIInv'
<1> SUFFICES ASSUME NoticesIInv, [SchedNext]_schedVars PROVE \A s \in Schedules : Notices(s)'
  BY SchedNextIInv DEF NoticesIInv
<1>0. SchedTypeOK /\ \A s \in Schedules : Notices(s)
  BY DEF NoticesIInv, SchedIInv
<1>1. CASE UNCHANGED <<scanRun, runCall, told, orderly>>
  <2>1. \A s \in Schedules : Busy(s)' = Busy(s) /\ Alike(Busy(s), runCall, runCall')
    BY <1>1 DEF Busy, Alike
  <2> QED
    BY <1>0, <1>1, <2>1, NothingMoves
<1>2. ASSUME NEW t \in Threads, RunSchedule(t) PROVE \A s \in Schedules : Notices(s)'
  BY <1>2, ScanCompletesAdds, ScanRaisesAdds, ReportAdds, MarkRunAdds, RaiseAdds DEF RunSchedule
<1>3. ASSUME NEW n \in Schedules, RunDue(n) PROVE \A s \in Schedules : Notices(s)'
  <2>1. /\ Poller \in Threads /\ runCall[Poller].pc = "idle" /\ UNCHANGED told
        /\ StartRun(Poller, n) \/ NotStarted(Poller, n)
    BY <1>3 DEF RunDue, At, Threads
  <2> QED
    BY <1>0, <2>1, StartAdds, NotStartedAdds
<1>4. ASSUME NEW t \in Requesters, NEW n \in Schedules, RunNow(t, n)
      PROVE  \A s \in Schedules : Notices(s)'
  <2>1. t \in Threads /\ runCall[t].pc = "idle" /\ UNCHANGED told /\ StartRun(t, n)
    BY <1>4 DEF RunNow, At, Threads
  <2> QED
    BY <1>0, <2>1, StartAdds
<1>5. CASE Poll \/ TimePasses
  BY <1>1, <1>5 DEF Poll, TimePasses, schedHistory
<1>6. CASE \E s \in Schedules :
              \/ \E enabled \in BOOLEAN : CreateSchedule(s, enabled) \/ SetEnabled(s, enabled)
              \/ DeleteSchedule(s)
  BY <1>1, <1>6 DEF CreateSchedule, SetEnabled, DeleteSchedule, schedHistory
<1>7. CASE UNCHANGED schedVars
  BY <1>1, <1>7 DEF schedVars, schedHistory
<1>8. Poller \in Threads /\ Requesters \subseteq Threads
  BY DEF Threads
<1> QED
  BY <1>2, <1>3, <1>4, <1>5, <1>6, <1>7, <1>8, SchedCrashAdds DEF SchedNext, PollerStep

LEMMA NoticesInitIInv == SchedInit => NoticesIInv
<1> SUFFICES ASSUME SchedInit, NEW s \in Schedules PROVE Notices(s)
  BY SchedInitIInv DEF NoticesIInv
<1>1. Mine(s) = {} /\ Busy(s) = {} /\ told[s] = {}
  BY IdleIsAJob DEF SchedInit, Mine, Busy
<1> QED
  BY <1>1 DEF Notices, Adds, Found, Top

\* As long as the runs of a schedule neither overlap nor fail, its notices add up
\* to what its newest run found.
THEOREM NoticesSumUp == SchedSpec => []NoticesAddUp
<1>1. NoticesIInv => NoticesAddUp
  BY NewestIsTop DEF NoticesIInv, Notices, Adds, NoticesAddUp, Found
<1> QED
  BY <1>1, NoticesInitIInv, NoticesNextIInv, PTL DEF SchedSpec

=============================================================================
