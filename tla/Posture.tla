------------------------------ MODULE Posture ------------------------------
(***************************************************************************)
(* Posture snapshots and exposure alerts: _capture_posture of              *)
(* pentestiq/api/app.py with compute_posture, evaluate_exposure_alerts and *)
(* the snapshot store of pentestiq/analytics, and the KEV table they look  *)
(* findings up in (ThreatIntel.refresh_kev of pentestiq/intel).            *)
(*                                                                         *)
(* A capture reads all findings, then the latest snapshot, takes its own   *)
(* time stamp, reads the alert settings, sends one message for what is     *)
(* open now and was not in that snapshot, and appends its own snapshot     *)
(* last, whether or not the message got through.  Any number of handler    *)
(* threads do this at once; findings, settings and the KEV table change    *)
(* underneath, and the process may die between two steps.                  *)
(***************************************************************************)
EXTENDS Integers, FiniteSets

CONSTANTS
    Issues,           \* dedup keys
    Rank,             \* severity of an issue, 0 (info) to 4 (critical)
    Catalogue,        \* issues in CISA's list of exploited vulnerabilities
    Facing,           \* issues whose asset, as written, is among the internet-facing identifiers
    Capturers,        \* handler threads
    AlertConfigs,     \* the settings an admin may save
    MaxCaptures,      \* bound: captures begun
    MaxChanges        \* bound: changes of findings and settings, refreshes

ASSUME PostureAssumption ==
    /\ Rank \in [Issues -> 0..4]
    /\ Catalogue \subseteq Issues
    /\ Facing \subseteq Issues
    /\ MaxCaptures \in Nat
    /\ MaxChanges \in Nat

\* AlertConfig; "on" is enabled and a webhook_url being set.
AlertConfig == [on: BOOLEAN, min_severity: 0..4, kev_only: BOOLEAN,
                only_internet_facing: BOOLEAN]

ASSUME AlertConfigAssumption == AlertConfigs \subseteq AlertConfig

VARIABLES
    open,         \* the open findings of completed and stopped engagements
    alertCfg,     \* the saved alert settings
    kev,          \* the KEV table in memory
    toLoad,       \* rows of the catalogue a refresh has not put in yet
    snapshots,    \* the posture_snapshot table
    stamp,        \* the clock that stamps snapshots
    capture,      \* the _capture_posture call of each thread
    captures, changes,   \* how often the bounded actions were taken
    delivered,    \* history: issues named in a message the channel took
    refused,      \* history: issues named in a message the channel refused or lost
    excused,      \* history: issues that were not worth an alert when recorded
    times,        \* history: messages that named an issue while it stayed open
    serial        \* history: captures have never overlapped or died

postureHistory == <<delivered, refused, excused, times, serial>>
table == <<kev, toLoad>>
postureVars == <<open, alertCfg, table, snapshots, stamp, capture, captures, changes,
                 postureHistory>>

Snapshot == [ts: Nat, open_keys: SUBSET Issues]

Capture == [pc: {"idle", "prev", "alert", "append"}, findings: SUBSET Issues,
            prev_keys: SUBSET Issues, ts: Nat]

NoCapture == [pc |-> "idle", findings |-> {}, prev_keys |-> {}, ts |-> 0]

PostureTypeOK ==
    /\ open \subseteq Issues
    /\ alertCfg \in AlertConfigs
    /\ kev \subseteq Issues
    /\ toLoad \subseteq Issues
    /\ snapshots \subseteq Snapshot
    /\ stamp \in Nat
    /\ capture \in [Capturers -> Capture]
    /\ captures \in 0..MaxCaptures
    /\ changes \in 0..MaxChanges
    /\ delivered \subseteq Issues
    /\ refused \subseteq Issues
    /\ excused \subseteq Issues
    /\ times \in [Issues -> Nat]
    /\ serial \in BOOLEAN

PostureInit ==
    /\ open \in SUBSET Issues
    /\ alertCfg \in AlertConfigs
    /\ kev = Catalogue
    /\ toLoad = {}
    /\ snapshots = {}
    /\ stamp = 0
    /\ capture = [h \in Capturers |-> NoCapture]
    /\ captures = 0
    /\ changes = 0
    /\ delivered = {}
    /\ refused = {}
    /\ excused = {}
    /\ times = [i \in Issues |-> 0]
    /\ serial = TRUE

-----------------------------------------------------------------------------
(***************************************************************************)
(* evaluate_exposure_alerts                                                *)
(***************************************************************************)

\* The severity floor gives way to KEV; the exposure filter is off while the
\* inventory has no internet-facing asset at all.  Whether an issue is KEV is
\* what the table in memory says at that moment.
Worthy(i, cfg) ==
    /\ IF cfg.kev_only THEN i \in kev ELSE Rank[i] >= cfg.min_severity \/ i \in kev
    /\ cfg.only_internet_facing => Facing = {} \/ i \in Facing

EvaluateExposureAlerts(findings, cfg, prev_keys) ==
    {i \in findings \ prev_keys : Worthy(i, cfg)}

\* Seeded fault: ORDER BY ts.
OldestKeys ==
    IF snapshots = {} THEN {}
    ELSE (CHOOSE s \in snapshots : \A z \in snapshots : z.ts >= s.ts).open_keys

\* latest(): ORDER BY ts DESC LIMIT 1.
LatestKeys ==
    IF snapshots = {} THEN {}
    ELSE (CHOOSE s \in snapshots : \A z \in snapshots : z.ts <= s.ts).open_keys

-----------------------------------------------------------------------------
(***************************************************************************)
(* _capture_posture, step by step                                          *)
(***************************************************************************)

\* _all_records: the findings that compute_posture and the alerts work on.
ReadRecords(h) ==
    /\ capture[h].pc = "idle"
    /\ captures < MaxCaptures
    /\ captures' = captures + 1
    /\ capture' = [capture EXCEPT ![h].pc = "prev", ![h].findings = open]
    /\ serial' = (serial /\ \A g \in Capturers : capture[g].pc = "idle")
    /\ UNCHANGED <<open, alertCfg, table, snapshots, stamp, changes,
                   delivered, refused, excused, times>>

\* Seeded fault: the snapshot is stored as soon as it is computed.
RecordEarly(h) ==
    /\ capture[h].pc = "prev"
    /\ stamp' = stamp + 1
    /\ capture' = [capture EXCEPT ![h].pc = "alert", ![h].prev_keys = LatestKeys,
                                  ![h].ts = stamp + 1]
    /\ snapshots' = snapshots \union {[ts |-> stamp + 1, open_keys |-> capture[h].findings]}
    /\ UNCHANGED <<open, alertCfg, table, captures, changes, postureHistory>>

\* posture_store.latest, then the time stamp of compute_posture.
ReadPrevious(h) ==
    /\ capture[h].pc = "prev"
    /\ stamp' = stamp + 1
    /\ capture' = [capture EXCEPT ![h].pc = "alert", ![h].prev_keys = LatestKeys,
                                  ![h].ts = stamp + 1]
    /\ UNCHANGED <<open, alertCfg, table, snapshots, captures, changes, postureHistory>>

\* alert_store.get and send_alert: one message, if there is anything to say.
\* The channel may refuse it, or the request may fail; nobody looks at that.
SendAlert(h) ==
    LET c == capture[h]
        events == IF alertCfg.on
                  THEN EvaluateExposureAlerts(c.findings, alertCfg, c.prev_keys) ELSE {}
    IN  /\ c.pc = "alert"
        /\ capture' = [capture EXCEPT ![h].pc = "append"]
        /\ \/ delivered' = delivered \union events /\ UNCHANGED refused
           \/ refused' = refused \union events /\ UNCHANGED delivered
        /\ times' = [i \in Issues |-> IF i \notin c.findings THEN 0
                                      ELSE IF i \in events THEN times[i] + 1 ELSE times[i]]
        /\ excused' = excused \union {i \in c.findings : ~(alertCfg.on /\ Worthy(i, alertCfg))}
        /\ UNCHANGED <<open, alertCfg, table, snapshots, stamp, captures, changes, serial>>

AppendSnapshot(h) ==
    /\ capture[h].pc = "append"
    /\ snapshots' = snapshots \union {[ts |-> capture[h].ts, open_keys |-> capture[h].findings]}
    /\ capture' = [capture EXCEPT ![h] = NoCapture]
    /\ UNCHANGED <<open, alertCfg, table, stamp, captures, changes, postureHistory>>

CapturePosture(h) ==
    ReadRecords(h) \/ ReadPrevious(h) \/ SendAlert(h) \/ AppendSnapshot(h)

-----------------------------------------------------------------------------
(***************************************************************************)
(* What goes on around it                                                  *)
(***************************************************************************)

\* Scans, retests and dismissals open and close findings.
FindingsChange(i) ==
    /\ changes < MaxChanges
    /\ changes' = changes + 1
    /\ open' = IF i \in open THEN open \ {i} ELSE open \union {i}
    /\ UNCHANGED <<alertCfg, table, snapshots, stamp, capture, captures, postureHistory>>

\* put_alerts: any settings, because what the caller leaves out is filled in
\* from a copy that another admin may have replaced since.
PutAlerts(cfg) ==
    /\ changes < MaxChanges
    /\ changes' = changes + 1
    /\ alertCfg' = cfg
    /\ UNCHANGED <<open, table, snapshots, stamp, capture, captures, postureHistory>>

\* refresh_kev: the new catalogue is on disk, the table is emptied and then
\* filled row by row, with no lock between it and those who look things up.
BeginRefresh ==
    /\ changes < MaxChanges
    /\ toLoad = {}
    /\ changes' = changes + 1
    /\ kev' = {}
    /\ toLoad' = Catalogue
    /\ UNCHANGED <<open, alertCfg, snapshots, stamp, capture, captures, postureHistory>>

LoadRow(i) ==
    /\ i \in toLoad
    /\ kev' = kev \union {i}
    /\ toLoad' = toLoad \ {i}
    /\ UNCHANGED <<open, alertCfg, snapshots, stamp, capture, captures, changes,
                   postureHistory>>

\* The process dies, or a store raises: the capture is gone.
CaptureDies(h) ==
    /\ capture[h].pc # "idle"
    /\ capture' = [capture EXCEPT ![h] = NoCapture]
    /\ serial' = FALSE
    /\ UNCHANGED <<open, alertCfg, table, snapshots, stamp, captures, changes,
                   delivered, refused, excused, times>>

PostureNext ==
    \/ \E h \in Capturers : CapturePosture(h) \/ CaptureDies(h)
    \/ \E i \in Issues : FindingsChange(i) \/ LoadRow(i)
    \/ BeginRefresh
    \/ \E cfg \in AlertConfigs : PutAlerts(cfg)

PostureSpec == PostureInit /\ [][PostureNext]_postureVars

-----------------------------------------------------------------------------
(***************************************************************************)
(* Properties                                                              *)
(***************************************************************************)

\* Nothing enters the history before its message was tried: whatever a snapshot
\* records was named in a message the channel took, or in one it refused or lost,
\* or was not worth one (or alerting was off) at the time.  A capture that dies
\* between the two leaves it to the next one.  This is all the code promises: later
\* captures skip what a snapshot records, so a message the channel refuses is never
\* tried again, and the exposure it named is known to nobody.
RecordedMeansTried ==
    \A s \in snapshots : s.open_keys \subseteq delivered \union refused \union excused

\* As long as captures do not overlap or die, a finding that stays open is named
\* in one message at most, delivered or not: a refused one is not followed by
\* another.
NamedOnce == serial => \A i \in Issues : times[i] <= 1

\* "fire when a KEV/critical lands on an exposed asset" (analytics/alerts.py):
\* with alerting on, an exploited vulnerability of an exposed asset that made it
\* into the history was at least named in a message, whatever became of that.
KevIsAnnounced ==
    (\A cfg \in AlertConfigs : cfg.on) =>
        \A s \in snapshots :
            s.open_keys \intersect Catalogue \intersect Facing \subseteq delivered \union refused

=============================================================================
