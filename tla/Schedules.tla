----------------------------- MODULE Schedules -----------------------------
(***************************************************************************)
(* Continuous scanning: the schedule store, ScheduleService.run_schedule   *)
(* and its two callers, the polling thread (tick) and the run-now handler  *)
(* (pentestiq/scheduling, pentestiq/storage/schedule_store.py, the         *)
(* /schedules endpoints of pentestiq/api/app.py).                          *)
(*                                                                         *)
(* A run is created, scanned, compared with the newest other run of its    *)
(* schedule, reported to the webhook and only then marked on the schedule. *)
(* Nothing claims a due schedule, so the two callers may overlap; the list *)
(* of due schedules is read once per tick.  A process that dies loses the  *)
(* jobs and the due list and leaves the rows.                              *)
(***************************************************************************)
EXTENDS Naturals, Sequences

CONSTANTS
    Schedules,     \* schedule ids; uuid4, so an id is never used twice
    Requesters,    \* handler threads that serve run-now
    Exposures,     \* dedup keys a scan may report
    Interval,      \* interval_seconds, in ticks of the clock
    MaxTime,       \* bound: the clock
    MaxRuns,       \* bound: runs created, over all schedules
    MaxCrashes     \* bound: times the process dies

ASSUME SchedulesAssumption ==
    /\ Interval \in Nat \ {0}
    /\ {MaxTime, MaxRuns, MaxCrashes} \subseteq Nat

Poller == "poller"                   \* the ptiq-scheduler thread

ASSUME PollerAssumption == Poller \notin Requesters

Threads == {Poller} \union Requesters

VARIABLES
    clock,      \* the time
    schedule,   \* the schedules table
    scanRun,    \* the engagements with a schedule_id, in order of creation
    dueList,    \* what tick still has to run of the list it read
    runCall,        \* the run_schedule call of each thread
    crashes,    \* times the process has died
    told,       \* history: what a reader of the notices believes is open
    orderly,    \* history: runs one at a time, all completed and reported
    lateStarts  \* history: polled runs begun since the schedule was disabled

schedHistory == <<told, orderly, lateStarts>>
schedVars == <<clock, schedule, scanRun, dueList, runCall, crashes, schedHistory>>

ScheduleRow == [state: {"unused", "present", "deleted"}, enabled: BOOLEAN,
        next_run_at: Nat, last: Nat]

ScanRun == [schedule: Schedules, status: {"running", "completed", "failed"},
            findings: SUBSET Exposures]

NoSchedule == "none"

Job == [pc: {"idle", "raised", "scan", "report", "mark"},
        schedule: Schedules \union {NoSchedule},
        run: Nat,
        findings: SUBSET Exposures]

Idle == [pc |-> "idle", schedule |-> NoSchedule, run |-> 0, findings |-> {}]

SchedTypeOK ==
    /\ clock \in 0..MaxTime
    /\ schedule \in [Schedules -> ScheduleRow]
    /\ scanRun \in Seq(ScanRun)
    /\ Len(scanRun) <= MaxRuns
    /\ dueList \subseteq Schedules
    /\ runCall \in [Threads -> Job]
    /\ \A t \in Threads :
         /\ runCall[t].run <= Len(scanRun)
         /\ runCall[t].pc # "idle" => runCall[t].schedule \in Schedules
         /\ runCall[t].pc \in {"scan", "report", "mark"} => runCall[t].run >= 1
    /\ crashes \in 0..MaxCrashes
    /\ told \in [Schedules -> SUBSET Exposures]
    /\ orderly \in [Schedules -> BOOLEAN]
    /\ lateStarts \in [Schedules -> Nat]

SchedInit ==
    /\ clock = 0
    /\ schedule = [s \in Schedules |-> [state |-> "unused", enabled |-> FALSE,
                                        next_run_at |-> 0, last |-> 0]]
    /\ scanRun = << >>
    /\ dueList = {}
    /\ runCall = [t \in Threads |-> Idle]
    /\ crashes = 0
    /\ told = [s \in Schedules |-> {}]
    /\ orderly = [s \in Schedules |-> TRUE]
    /\ lateStarts = [s \in Schedules |-> 0]

-----------------------------------------------------------------------------
(***************************************************************************)
(* The store and its endpoints.  Each is one statement under the lock of   *)
(* the store; those that name a schedule that is not there change nothing. *)
(***************************************************************************)
Present(s) == schedule[s].state = "present"

\* Seeded fault: the query forgets enabled.
DueEvenIfDisabled(s) == Present(s) /\ schedule[s].next_run_at <= clock

\* due(): enabled and next_run_at <= now.
Due(s) == Present(s) /\ schedule[s].enabled /\ schedule[s].next_run_at <= clock

\* A new schedule is due at once.
CreateSchedule(s, enabled) ==
    /\ schedule[s].state = "unused"
    /\ schedule' = [schedule EXCEPT ![s] = [state |-> "present", enabled |-> enabled,
                                            next_run_at |-> clock, last |-> 0]]
    /\ UNCHANGED <<clock, scanRun, dueList, runCall, crashes, schedHistory>>

SetEnabled(s, enabled) ==
    /\ Present(s)
    /\ schedule[s].enabled # enabled
    /\ schedule' = [schedule EXCEPT ![s].enabled = enabled]
    /\ lateStarts' = [lateStarts EXCEPT ![s] = 0]
    /\ UNCHANGED <<clock, scanRun, dueList, runCall, crashes, told, orderly>>

DeleteSchedule(s) ==
    /\ Present(s)
    /\ schedule' = [schedule EXCEPT ![s].state = "deleted"]
    /\ UNCHANGED <<clock, scanRun, dueList, runCall, crashes, schedHistory>>

\* mark_run(): an UPDATE by id, which a deleted schedule no longer matches.
Marked(s, r) ==
    IF Present(s)
    THEN [schedule EXCEPT ![s].next_run_at = clock + Interval, ![s].last = r]
    ELSE schedule

-----------------------------------------------------------------------------
(***************************************************************************)
(* run_schedule and its two callers.                                       *)
(***************************************************************************)
At(t, place) == runCall[t].pc = place
MoveTo(t, place) == runCall' = [runCall EXCEPT ![t].pc = place]

\* The threads between creating a run of s and having reported it.
Busy(s) == {t \in Threads : runCall[t].schedule = s /\ runCall[t].pc \in {"scan", "report"}}

Disturb(S) == orderly' = [s \in Schedules |-> orderly[s] /\ s \notin S]

\* build_from_dict and create: the row is running and has no findings.
StartRun(t, s) ==
    /\ Len(scanRun) < MaxRuns
    /\ scanRun' = Append(scanRun, [schedule |-> s, status |-> "running", findings |-> {}])
    /\ runCall' = [runCall EXCEPT ![t] = [pc |-> "scan", schedule |-> s, run |-> Len(scanRun) + 1,
                                  findings |-> {}]]
    /\ Disturb(IF Busy(s) = {} THEN {} ELSE {s})

\* The schedule cannot be built or its run not be stored.
NotStarted(t, s) ==
    /\ runCall' = [runCall EXCEPT ![t] = [Idle EXCEPT !.pc = "raised", !.schedule = s]]
    /\ UNCHANGED <<scanRun, orderly>>

\* tick() reads the due schedules once; the poll interval is any time.
Poll ==
    /\ At(Poller, "idle")
    /\ dueList = {}
    /\ dueList' = {s \in Schedules : Due(s)}
    /\ UNCHANGED <<clock, schedule, scanRun, runCall, crashes, schedHistory>>

\* Seeded fault: an exception ends the tick.
RunDueOrGiveUp(s) ==
    /\ At(Poller, "idle")
    /\ s \in dueList
    /\ \/ StartRun(Poller, s) /\ dueList' = dueList \ {s}
       \/ NotStarted(Poller, s) /\ dueList' = {}
    /\ lateStarts' = [lateStarts EXCEPT ![s] = IF schedule[s].enabled THEN @ ELSE @ + 1]
    /\ UNCHANGED <<clock, schedule, crashes, told>>

\* ... and runs them one after the other, from the rows it read then.
RunDue(s) ==
    /\ At(Poller, "idle")
    /\ s \in dueList
    /\ dueList' = dueList \ {s}
    /\ StartRun(Poller, s) \/ NotStarted(Poller, s)
    /\ lateStarts' = [lateStarts EXCEPT ![s] = IF schedule[s].enabled THEN @ ELSE @ + 1]
    /\ UNCHANGED <<clock, schedule, crashes, told>>

\* run_now(): enabled or not, due or not.  A run that cannot be started
\* answers 500 and leaves no trace.
RunNow(t, s) ==
    /\ t \in Requesters
    /\ At(t, "idle")
    /\ Present(s)
    /\ StartRun(t, s)
    /\ UNCHANGED <<clock, schedule, dueList, crashes, told, lateStarts>>

ScanCompletes(t) ==
    \E found \in SUBSET Exposures :
        /\ At(t, "scan")
        /\ scanRun' = [scanRun EXCEPT ![runCall[t].run].status = "completed",
                                      ![runCall[t].run].findings = found]
        /\ runCall' = [runCall EXCEPT ![t].pc = "report", ![t].findings = found]
        /\ UNCHANGED <<clock, schedule, dueList, crashes, schedHistory>>

\* Seeded fault: the failure is handled but not stored.
ScanFailsUnrecorded(t) ==
    \E found \in SUBSET Exposures :
        /\ At(t, "scan")
        /\ runCall' = [runCall EXCEPT ![t].pc = "report", ![t].findings = found]
        /\ Disturb({runCall[t].schedule})
        /\ UNCHANGED <<clock, schedule, scanRun, dueList, crashes, told, lateStarts>>

\* The engine raised: the row keeps the findings it was created with, the
\* comparison goes on with what the engine had put into the engagement.
ScanRaises(t) ==
    \E found \in SUBSET Exposures :
        /\ At(t, "scan")
        /\ scanRun' = [scanRun EXCEPT ![runCall[t].run].status = "failed"]
        /\ runCall' = [runCall EXCEPT ![t].pc = "report", ![t].findings = found]
        /\ Disturb({runCall[t].schedule})
        /\ UNCHANGED <<clock, schedule, dueList, crashes, told, lateStarts>>

\* Seeded fault: the newest run, which is the present one.
PreviousOrSelf(t) ==
    LET all == {r \in 1..Len(scanRun) : scanRun[r].schedule = runCall[t].schedule}
    IN CHOOSE r \in all : \A q \in all : q <= r

\* The newest other run of the schedule, whatever its status; 0 if none.
Previous(t) ==
    LET others == {r \in 1..Len(scanRun) : scanRun[r].schedule = runCall[t].schedule
                                           /\ r # runCall[t].run}
    IN IF others = {} THEN 0 ELSE CHOOSE r \in others : \A q \in others : q <= r

\* diff_findings() over dedup keys, false positives left out of both sides.
DiffFindings(prev, curr) == [new |-> curr \ prev, fixed |-> prev \ curr,
                             persisting |-> curr \intersect prev]

Diff(t) ==
    DiffFindings(IF Previous(t) = 0 THEN {} ELSE scanRun[Previous(t)].findings,
                 runCall[t].findings)

\* list_by_schedule, diff and notifier.send.  Nothing shared is touched after
\* the list is read, so they are one step.  A failed POST is not retried.
Report(t) ==
    LET s == runCall[t].schedule IN
    /\ At(t, "report")
    /\ MoveTo(t, "mark")
    /\ \/ /\ told' = [told EXCEPT ![s] = (@ \ Diff(t).fixed) \union Diff(t).new]
          /\ UNCHANGED orderly
       \/ /\ Disturb({s})
          /\ UNCHANGED told
    /\ UNCHANGED <<clock, schedule, scanRun, dueList, crashes, lateStarts>>

MarkRun(t) ==
    /\ At(t, "mark")
    /\ schedule' = Marked(runCall[t].schedule, runCall[t].run)
    /\ runCall' = [runCall EXCEPT ![t] = Idle]
    /\ UNCHANGED <<clock, scanRun, dueList, crashes, schedHistory>>

\* A store or the engine's builder raises: tick logs it, run-now answers 500,
\* and the schedule stays as it was.
Raise(t) ==
    /\ runCall[t].pc # "idle"
    /\ runCall' = [runCall EXCEPT ![t] = Idle]
    /\ Disturb(IF t \in Busy(runCall[t].schedule) THEN {runCall[t].schedule} ELSE {})
    /\ UNCHANGED <<clock, schedule, scanRun, dueList, crashes, told, lateStarts>>

RunSchedule(t) ==
    ScanCompletes(t) \/ ScanRaises(t) \/ Report(t) \/ MarkRun(t) \/ Raise(t)

-----------------------------------------------------------------------------
(***************************************************************************)
(* The environment: time passes, and the process dies and starts again.    *)
(***************************************************************************)
TimePasses ==
    /\ clock < MaxTime
    /\ clock' = clock + 1
    /\ UNCHANGED <<schedule, scanRun, dueList, runCall, crashes, schedHistory>>

\* Rows that say running stay so: no code looks for them afterwards.
SchedCrash ==
    /\ crashes < MaxCrashes
    /\ crashes' = crashes + 1
    /\ dueList' = {}
    /\ runCall' = [t \in Threads |-> Idle]
    /\ Disturb({s \in Schedules : Busy(s) # {}})
    /\ UNCHANGED <<clock, schedule, scanRun, told, lateStarts>>

PollerStep == Poll \/ (\E s \in Schedules : RunDue(s)) \/ RunSchedule(Poller)

SchedNext ==
    \/ PollerStep
    \/ \E t \in Requesters : (\E s \in Schedules : RunNow(t, s)) \/ RunSchedule(t)
    \/ \E s \in Schedules :
         \/ \E enabled \in BOOLEAN : CreateSchedule(s, enabled) \/ SetEnabled(s, enabled)
         \/ DeleteSchedule(s)
    \/ TimePasses
    \/ SchedCrash

SchedSpec == SchedInit /\ [][SchedNext]_schedVars /\ WF_schedVars(PollerStep)

-----------------------------------------------------------------------------
(***************************************************************************)
(* Properties                                                              *)
(***************************************************************************)

NewestRun(s) ==
    LET mine == {r \in 1..Len(scanRun) : scanRun[r].schedule = s}
    IN IF mine = {} THEN 0 ELSE CHOOSE r \in mine : \A q \in mine : q <= r

\* The notices of a schedule add up: whoever starts with nothing and applies
\* what each notice calls new and fixed knows exactly what the newest run found,
\* as long as runs did not overlap and each one completed and was reported.
\* The previous run is found by position among the rows, not handed over.
NoticesAddUp ==
    \A s \in Schedules :
        orderly[s] /\ Busy(s) = {} =>
            told[s] = IF NewestRun(s) = 0 THEN {} ELSE scanRun[NewestRun(s)].findings

\* A schedule points at a run of its own that has come to an end, however the
\* poller, run-now, failures, deletions and restarts fall together.
LastRunIsFinished ==
    \A s \in Schedules :
        schedule[s].last # 0 =>
            /\ schedule[s].last <= Len(scanRun)
            /\ scanRun[schedule[s].last].schedule = s
            /\ scanRun[schedule[s].last].status # "running"

\* Disabling a schedule takes hold after one run at most: the one the poller
\* had read into its list.
DisabledRunsAtMostOnce == \A s \in Schedules : lateStarts[s] <= 1

\* A due schedule gets its turn, even if another one raises at every attempt:
\* it is begun, or stops being due because somebody ran, disabled or deleted it.
DueScheduleGetsItsTurn ==
    \A s \in Schedules :
        Due(s) ~> (~Due(s) \/ runCall[Poller].schedule = s)

=============================================================================
