---------------------------- MODULE RunLifecycle ----------------------------
(***************************************************************************)
(* The life of one stored engagement (pentestiq/api/app.py): its row in    *)
(* SqliteEngagementStore, the background tasks (_run_engagement) that scan *)
(* it, the process-wide RUNS registry with one RunControl per run, and the *)
(* handler threads that queue, pause, resume, stop and delete.             *)
(*                                                                         *)
(* All of them share the row through store.update, which reads the row in  *)
(* one critical section and writes it back in another, filling in from the *)
(* copy it read whatever its caller did not give.  Nothing serialises two  *)
(* callers, nor two runs of the same engagement.                           *)
(*                                                                         *)
(* The scan itself (module WorkflowRunner) is a countdown of modules, each *)
(* of which may add findings and save them; check() (module RunControl) is *)
(* one step.  A finding is its dedup key.                                  *)
(***************************************************************************)
EXTENDS RunControlState, Naturals, FiniteSets

CONSTANTS
    Runs,           \* identities for background tasks
    Handlers,       \* HTTP handler threads
    Keys,           \* dedup keys a scan may report
    NModules,       \* modules a scan goes through
    MaxRequests,    \* bound: requests made in a behaviour
    None            \* no run, no row

ASSUME LifecycleAssumption ==
    /\ NModules \in Nat
    /\ MaxRequests \in Nat
    /\ None \notin Runs
    /\ Runs \intersect Handlers = {}

Statuses == {"queued", "running", "paused"} \union FinalStates

Row == [status: Statuses, findings: SUBSET Keys]

NoRow == [status |-> "none", findings |-> {}]

VARIABLES
    row,        \* the engagement's row, NoRow once deleted
    registry,   \* RUNS: the run whose control is registered, or None
    ctl,        \* ctl[r]: the RunControl of run r
    pc,         \* pc[r]: where the background task is
    kind,       \* kind[r]: "run" or "retest"
    eng,        \* eng[r]: findings of its in-memory engagement
    prior,      \* prior[r]: the snapshot a retest is compared with
    left,       \* left[r]: modules it still has to go through
    st,         \* st[r]: _terminal_status's copy of the state
    final,      \* final[r]: its terminal status
    seen,       \* seen[t]: the row a task or handler read in store.update
    op,         \* op[h]: the request handler h is serving, or "idle"
    at,         \* at[h]: where it is
    target,     \* target[h]: the run whose control it holds
    requests,   \* requests made so far
    outcome,    \* history: what the run that ended last stored, or NoRow
    quiet       \* history: nothing else was under way while it did

task    == <<pc, kind, eng, prior, left, st, final>>
handler == <<op, at, target, requests>>
history == <<outcome, quiet>>
vars    == <<row, registry, ctl, task, seen, handler, history>>

TaskLabels == {"free", "queued", "create", "markGet", "markPut", "check",
               "scan", "saveGet", "savePut", "settle", "settleReason",
               "storeGet", "storePut", "finish", "done"}

Requests == {"run", "retest", "pause", "resume", "stop", "delete"}

HandlerLabels == {"idle", "look", "gate", "call", "drop", "erase", "putGet",
                  "put"}

TypeOK ==
    /\ row \in Row \union {NoRow}
    /\ registry \in Runs \union {None}
    /\ ctl \in [Runs -> Control]
    /\ pc \in [Runs -> TaskLabels]
    /\ kind \in [Runs -> {"run", "retest"}]
    /\ eng \in [Runs -> SUBSET Keys]
    /\ prior \in [Runs -> SUBSET Keys]
    /\ left \in [Runs -> 0..NModules]
    /\ st \in [Runs -> ControlStates]
    /\ final \in [Runs -> FinalStates \union {"none"}]
    /\ seen \in [Runs \union Handlers -> Row \union {NoRow}]
    /\ op \in [Handlers -> Requests \union {"idle"}]
    /\ at \in [Handlers -> HandlerLabels]
    /\ target \in [Handlers -> Runs \union {None}]
    /\ requests \in 0..MaxRequests
    /\ outcome \in Row \union {NoRow}
    /\ quiet \in BOOLEAN

\* An engagement with a finished scan or import behind it.  (A new one says
\* "created" instead; nothing reads the difference.)
Init ==
    /\ row \in [status: {"completed"}, findings: SUBSET Keys]
    /\ registry = None
    /\ ctl = [r \in Runs |-> NewControl]
    /\ pc = [r \in Runs |-> "free"]
    /\ kind = [r \in Runs |-> "run"]
    /\ eng = [r \in Runs |-> {}]
    /\ prior = [r \in Runs |-> {}]
    /\ left = [r \in Runs |-> NModules]
    /\ st = [r \in Runs |-> "running"]
    /\ final = [r \in Runs |-> "none"]
    /\ seen = [t \in Runs \union Handlers |-> NoRow]
    /\ op = [h \in Handlers |-> "idle"]
    /\ at = [h \in Handlers |-> "idle"]
    /\ target = [h \in Handlers |-> None]
    /\ requests = 0
    /\ outcome = NoRow
    /\ quiet = TRUE

Exists == row # NoRow

-----------------------------------------------------------------------------
(***************************************************************************)
(* store.update: a get and a put.  The put is an UPDATE ... WHERE id: it   *)
(* writes nothing when the row is gone, and is skipped when the get found  *)
(* none.  Fields the caller leaves out come from the copy the get saw.     *)
(***************************************************************************)
GetRow(t) == seen' = [seen EXCEPT ![t] = row]

\* Seeded fault: an upsert instead of an UPDATE.
UpsertRow(t, status, findings) ==
    /\ row' = IF seen[t] # NoRow
              THEN [status |-> status, findings |-> findings]
              ELSE row
    /\ seen' = [seen EXCEPT ![t] = NoRow]

PutRow(t, status, findings) ==
    /\ row' = IF Exists /\ seen[t] # NoRow
              THEN [status |-> status, findings |-> findings]
              ELSE row
    /\ seen' = [seen EXCEPT ![t] = NoRow]

-----------------------------------------------------------------------------
(***************************************************************************)
(* The background task _run_engagement.                                    *)
(***************************************************************************)
Goto(r, label) == pc' = [pc EXCEPT ![r] = label]

\* The first store.get: a vanished engagement ends the task.  A retest puts
\* the findings aside and scans into a clean slate.
Load(r) ==
    /\ pc[r] = "queued"
    /\ Goto(r, IF Exists THEN "create" ELSE "done")
    /\ eng' = [eng EXCEPT ![r] = IF kind[r] = "retest" THEN {} ELSE row.findings]
    /\ prior' = [prior EXCEPT ![r] = IF kind[r] = "retest" THEN row.findings ELSE {}]
    /\ UNCHANGED <<row, registry, ctl, kind, left, st, final, seen, handler,
                   history>>

CreateControl(r) ==
    /\ pc[r] = "create"
    /\ registry' = r
    /\ ctl' = [ctl EXCEPT ![r] = NewControl]
    /\ Goto(r, "markGet")
    /\ UNCHANGED <<row, kind, eng, prior, left, st, final, seen, handler, history>>

\* The get half of each store.update of the task.
TaskGet(r) ==
    /\ \/ pc[r] = "markGet"  /\ Goto(r, "markPut")
       \/ pc[r] = "saveGet"  /\ Goto(r, "savePut")
       \/ pc[r] = "storeGet" /\ Goto(r, "storePut")
    /\ GetRow(r)
    /\ UNCHANGED <<row, registry, ctl, kind, eng, prior, left, st, final,
                   handler, history>>

MarkRunning(r) ==
    /\ pc[r] = "markPut"
    /\ PutRow(r, "running", seen[r].findings)
    /\ Goto(r, "check")
    /\ UNCHANGED <<registry, ctl, kind, eng, prior, left, st, final,
                   handler, history>>

\* check() keeps a paused scan waiting and passes a running one ...
PassCheck(r) ==
    /\ pc[r] = "check"
    /\ ctl[r].state \notin {"stopping", "paused"}
    /\ Goto(r, "scan")
    /\ UNCHANGED <<row, registry, ctl, kind, eng, prior, left, st, final, seen,
                   handler, history>>

\* ... expires one that is past its budget, at any checkpoint ...
ExpireAtCheck(r) ==
    /\ pc[r] = "check"
    /\ Active(ctl[r])
    /\ ctl' = [ctl EXCEPT ![r] = Expired(@)]
    /\ UNCHANGED <<row, registry, task, seen, handler, history>>

\* merge_retest keeps the dedup keys of either scan (false positives aside,
\* see module Retest).
Merged(r) == IF kind[r] = "retest" THEN prior[r] \union eng[r] ELSE eng[r]

\* Seeded fault: the cancellation is caught and the scan checks again.
SwallowCancelAtCheck(r) ==
    /\ pc[r] = "check"
    /\ ctl[r].state = "stopping"
    /\ UNCHANGED vars

\* ... and raises for one that is stopping: engine.execute returns what it
\* has, as it does when the last module is through.
CancelAtCheck(r) ==
    /\ pc[r] = "check"
    /\ ctl[r].state = "stopping"
    /\ eng' = [eng EXCEPT ![r] = Merged(r)]
    /\ Goto(r, "settle")
    /\ UNCHANGED <<row, registry, ctl, kind, prior, left, st, final, seen,
                   handler, history>>

ScanModule(r) ==
    /\ pc[r] = "scan"
    /\ left[r] > 0
    /\ \E found \in SUBSET Keys :
          /\ eng' = [eng EXCEPT ![r] = @ \union found]
          /\ Goto(r, IF found = {} THEN "check" ELSE "saveGet")
    /\ left' = [left EXCEPT ![r] = @ - 1]
    /\ UNCHANGED <<row, registry, ctl, kind, prior, st, final, seen, handler,
                   history>>

SavePartial(r) ==
    /\ pc[r] = "savePut"
    /\ PutRow(r, seen[r].status, eng[r])
    /\ Goto(r, "check")
    /\ UNCHANGED <<registry, ctl, kind, eng, prior, left, st, final,
                   handler, history>>

EndOfScan(r) ==
    /\ pc[r] = "scan"
    /\ left[r] = 0
    /\ eng' = [eng EXCEPT ![r] = Merged(r)]
    /\ Goto(r, "settle")
    /\ UNCHANGED <<row, registry, ctl, kind, prior, left, st, final, seen,
                   handler, history>>

\* Any other exception out of the engine: no merge, status failed.
ScanFails(r) ==
    /\ pc[r] = "scan"
    /\ final' = [final EXCEPT ![r] = "failed"]
    /\ Goto(r, "storeGet")
    /\ UNCHANGED <<row, registry, ctl, kind, eng, prior, left, st, seen, handler,
                   history>>

SettleState(r) ==
    /\ pc[r] = "settle"
    /\ st' = [st EXCEPT ![r] = ctl[r].state]
    /\ Goto(r, "settleReason")
    /\ UNCHANGED <<row, registry, ctl, kind, eng, prior, left, final, seen,
                   handler, history>>

SettleReason(r) ==
    /\ pc[r] = "settleReason"
    /\ final' = [final EXCEPT ![r] = TerminalStatus(st[r], ctl[r].reason)]
    /\ Goto(r, "storeGet")
    /\ UNCHANGED <<row, registry, ctl, kind, eng, prior, left, st, seen, handler,
                   history>>

\* Nobody else is in the middle of anything that touches the row.
Alone(r) ==
    /\ \A h \in Handlers : op[h] \in {"idle", "stop"}
    /\ \A q \in Runs \ {r} : pc[q] \in {"free", "done"}

\* Seeded fault: the outcome is stored without its status.
StoreOutcomeStaleStatus(r) ==
    /\ pc[r] = "storePut"
    /\ PutRow(r, seen[r].status, eng[r])
    /\ Goto(r, "finish")
    /\ outcome' = [status |-> final[r], findings |-> eng[r]]
    /\ quiet' = Alone(r)
    /\ UNCHANGED <<registry, ctl, kind, eng, prior, left, st, final,
                   handler>>

StoreOutcome(r) ==
    /\ pc[r] = "storePut"
    /\ PutRow(r, final[r], eng[r])
    /\ Goto(r, "finish")
    /\ outcome' = [status |-> final[r], findings |-> eng[r]]
    /\ quiet' = Alone(r)
    /\ UNCHANGED <<registry, ctl, kind, eng, prior, left, st, final,
                   handler>>

\* The task's locals die with it.
Forget(r) ==
    /\ eng' = [eng EXCEPT ![r] = {}]
    /\ prior' = [prior EXCEPT ![r] = {}]
    /\ left' = [left EXCEPT ![r] = NModules]
    /\ st' = [st EXCEPT ![r] = "running"]
    /\ final' = [final EXCEPT ![r] = "none"]

FinishControl(r) ==
    /\ pc[r] = "finish"
    /\ ctl' = [ctl EXCEPT ![r] = Finished(@, final[r])]
    /\ Goto(r, "done")
    /\ Forget(r)
    /\ quiet' = (quiet /\ Alone(r))
    /\ UNCHANGED <<row, registry, kind, seen, handler, outcome>>

Task(r) ==
    \/ Load(r) \/ CreateControl(r) \/ TaskGet(r) \/ MarkRunning(r)
    \/ PassCheck(r) \/ ExpireAtCheck(r) \/ CancelAtCheck(r)
    \/ ScanModule(r) \/ SavePartial(r) \/ EndOfScan(r) \/ ScanFails(r)
    \/ SettleState(r) \/ SettleReason(r) \/ StoreOutcome(r) \/ FinishControl(r)

-----------------------------------------------------------------------------
(***************************************************************************)
(* The handlers.  Each first looks the engagement up and answers 404       *)
(* without it; that request leaves no trace.                               *)
(***************************************************************************)
Move(h, label) == at' = [at EXCEPT ![h] = label]

\* The control is not used any more.
Proceed(h, label) ==
    /\ Move(h, label)
    /\ target' = [target EXCEPT ![h] = None]
    /\ UNCHANGED op

Leave(h) ==
    /\ op' = [op EXCEPT ![h] = "idle"]
    /\ at' = [at EXCEPT ![h] = "idle"]
    /\ target' = [target EXCEPT ![h] = None]

Request(h, o) ==
    /\ op[h] = "idle"
    /\ requests < MaxRequests
    /\ Exists
    /\ op' = [op EXCEPT ![h] = o]
    /\ Move(h, IF o \in {"run", "retest"} THEN "putGet" ELSE "look")
    /\ requests' = requests + 1
    /\ quiet' = (quiet /\ (o = "stop" \/ \A r \in Runs : pc[r] # "finish"))
    /\ UNCHANGED <<row, registry, ctl, task, seen, target, outcome>>

\* RUNS.get(eid), then the state of what it returned.
LookUp(h) ==
    /\ at[h] = "look"
    /\ target' = [target EXCEPT ![h] = registry]
    /\ Move(h, "gate")
    /\ UNCHANGED <<row, registry, ctl, task, seen, op, requests, history>>

GateStates(o) == IF o = "resume" THEN {"paused"} ELSE ActiveStates

PassGate(h) ==
    /\ at[h] = "gate"
    /\ target[h] # None
    /\ ctl[target[h]].state \in GateStates(op[h])
    /\ Move(h, "call")
    /\ UNCHANGED <<row, registry, ctl, task, seen, op, target, requests, history>>

\* 409, except that delete goes on without a scan to stop.
FailGate(h) ==
    /\ at[h] = "gate"
    /\ target[h] # None => ctl[target[h]].state \notin GateStates(op[h])
    /\ IF op[h] = "delete"
       THEN Proceed(h, "drop")
       ELSE Leave(h)
    /\ UNCHANGED <<row, registry, ctl, task, seen, requests, history>>

Apply(o, c) ==
    CASE o = "pause"               -> Paused(c)
      [] o = "resume"              -> Resumed(c)
      [] o \in {"stop", "delete"}  -> Stopped(c)

CallControl(h) ==
    /\ at[h] = "call"
    /\ ctl' = [ctl EXCEPT ![target[h]] = Apply(op[h], @)]
    /\ CASE op[h] = "stop"   -> Leave(h)
         [] op[h] = "delete" -> Proceed(h, "drop")
         [] OTHER            -> Proceed(h, "putGet")
    /\ UNCHANGED <<row, registry, task, seen, requests, history>>

DropControl(h) ==
    /\ at[h] = "drop"
    /\ registry' = None
    /\ Move(h, "erase")
    /\ UNCHANGED <<row, ctl, task, seen, op, target, requests, history>>

EraseRow(h) ==
    /\ at[h] = "erase"
    /\ row' = NoRow
    /\ Leave(h)
    /\ UNCHANGED <<registry, ctl, task, seen, requests, history>>

HandlerGet(h) ==
    /\ at[h] = "putGet"
    /\ GetRow(h)
    /\ Move(h, "put")
    /\ UNCHANGED <<row, registry, ctl, task, op, target, requests, history>>

StatusAfter(o) ==
    CASE o = "pause" -> "paused" [] o = "resume" -> "running" [] OTHER -> "queued"

PutStatus(h) ==
    /\ at[h] = "put"
    /\ op[h] \in {"pause", "resume"}
    /\ PutRow(h, StatusAfter(op[h]), seen[h].findings)
    /\ Leave(h)
    /\ UNCHANGED <<registry, ctl, task, requests, history>>

\* run and retest hand a task to the thread pool once the row says queued.
Enqueue(h, r) ==
    /\ at[h] = "put"
    /\ op[h] \in {"run", "retest"}
    /\ pc[r] = "free"
    /\ PutRow(h, StatusAfter(op[h]), seen[h].findings)
    /\ Goto(r, "queued")
    /\ kind' = [kind EXCEPT ![r] = op[h]]
    /\ Leave(h)
    /\ UNCHANGED <<registry, ctl, eng, prior, left, st, final, requests,
                   history>>

Handle(h) ==
    \/ \E o \in Requests : Request(h, o)
    \/ LookUp(h) \/ PassGate(h) \/ FailGate(h) \/ CallControl(h)
    \/ DropControl(h) \/ EraseRow(h)
    \/ HandlerGet(h) \/ PutStatus(h)
    \/ \E r \in Runs : Enqueue(h, r)

Next ==
    \/ \E r \in Runs : Task(r)
    \/ \E h \in Handlers : Handle(h)

(***************************************************************************)
(* Background tasks run on the server's thread pool and keep running.      *)
(* Clients owe nothing.                                                    *)
(***************************************************************************)
Spec == Init /\ [][Next]_vars /\ (\A r \in Runs : WF_vars(Task(r)))

-----------------------------------------------------------------------------
AtRest ==
    /\ \A r \in Runs : pc[r] \in {"free", "done"}
    /\ \A h \in Handlers : op[h] = "idle"

(***************************************************************************)
(* A deleted engagement stays deleted, although scans of it go on saving   *)
(* partial results and outcomes: store.update never inserts.               *)
(***************************************************************************)
NeverResurrected == [][~Exists => row' = row]_vars

(***************************************************************************)
(* When everything is at rest the row shows the outcome of the run that    *)
(* ended last, its status and its findings, provided no other run and no   *)
(* request but stop was under way while that run stored its outcome and    *)
(* closed its control.  (Without the proviso it is false: a pause accepted *)
(* just before leaves the row "paused" for good, with stale findings.)     *)
(***************************************************************************)
QuietOutcomeStands ==
    AtRest /\ outcome # NoRow /\ quiet /\ Exists => row = outcome

(***************************************************************************)
(* Every run's control is the abstract gate for as long as it lives, even  *)
(* to handlers that picked it up long ago and call it after the run ended  *)
(* or was replaced in the registry.                                        *)
(***************************************************************************)
GateState(r) ==
    CASE ctl[r].state = "running"  -> "open"
      [] ctl[r].state = "paused"   -> "held"
      [] ctl[r].state = "stopping" -> "cancelled"
      [] OTHER                     -> "closed"

Gate(r) == INSTANCE ScanGate WITH gate <- GateState(r)

EveryControlIsAGate ==
    [][\A r \in Runs : [Gate(r)!Next]_(GateState(r))]_ctl

(***************************************************************************)
(* Every run that was queued ends unless somebody holds it in a pause; so  *)
(* one that is told to stop ends for certain, also when its engagement is  *)
(* deleted under it or another run takes its place in the registry.        *)
(***************************************************************************)
OnlyAPauseHolds ==
    \A r \in Runs :
        pc[r] \notin {"free", "done"} ~> (pc[r] = "done" \/ ctl[r].state = "paused")

(***************************************************************************)
(* core/runcontrol.py: a control is "registered in the process-wide RUNS   *)
(* registry so the API can pause/resume/stop it".  So a scan at work on an *)
(* engagement can be reached through it, at least while no delete of the   *)
(* engagement is in flight.                                                *)
(***************************************************************************)
ScanIsWithinReach ==
    (\A h \in Handlers : op[h] # "delete") => \A r \in Runs :
        pc[r] \in {"check", "scan", "saveGet", "savePut"} /\ Active(ctl[r])
            => Exists /\ registry = r

=============================================================================
