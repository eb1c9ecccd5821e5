------------------------ MODULE RunLifecycle_proofs ------------------------
(***************************************************************************)
(* What RunLifecycle promises, proved for any number of background tasks,  *)
(* handler threads, findings and requests.                                 *)
(***************************************************************************)
EXTENDS RunLifecycle, TLAPS

(***************************************************************************)
(* A control nobody has created yet is nobody's to call; one whose run has *)
(* not finished is not in a final state; one that can be reached and whose *)
(* run is done is closed.                                                  *)
(***************************************************************************)
Fresh(r) == pc[r] \in {"free", "queued", "create"}

Reachable(r) == registry = r \/ \E h \in Handlers : target[h] = r

ControlsInStep ==
    \A r \in Runs :
        /\ Fresh(r) => ctl[r] = NewControl /\ ~Reachable(r)
        /\ ctl[r].state \in FinalStates => pc[r] = "done"
        /\ pc[r] = "done" /\ Reachable(r) => ctl[r].state \in FinalStates

(***************************************************************************)
(* What a task is about to store has been decided, and a task that read a  *)
(* row read one unless the row has vanished for good.                      *)
(***************************************************************************)
TasksInStep ==
    \A r \in Runs :
        /\ pc[r] \in {"storeGet", "storePut", "finish"} => final[r] \in FinalStates
        /\ pc[r] = "storePut" /\ Exists => seen[r] # NoRow

(***************************************************************************)
(* A handler at its gate, or about to call, serves a request that calls;   *)
(* one about to call has a control to call.                                *)
(***************************************************************************)
HandlersInStep ==
    \A h \in Handlers :
        /\ at[h] = "idle" <=> op[h] = "idle"
        /\ at[h] \in {"look", "gate", "call"} =>
               op[h] \in {"pause", "resume", "stop", "delete"}
        /\ at[h] = "call" => target[h] # None
        /\ at[h] \in {"putGet", "put"} => op[h] \notin {"stop", "delete"}
        /\ at[h] \in {"drop", "erase"} => op[h] = "delete"

(***************************************************************************)
(* Once a run has stored its outcome undisturbed and until another starts, *)
(* the row shows it; a pause or resume under way has not passed its gate,  *)
(* and before the control is closed there is none.                         *)
(***************************************************************************)
Calm == \A r \in Runs : pc[r] \in {"free", "done", "finish"}

OutcomeStands ==
    quiet /\ outcome # NoRow /\ Calm /\ Exists =>
        /\ row = outcome
        /\ \A h \in Handlers : op[h] \in {"pause", "resume"} => at[h] \in {"look", "gate"}
        /\ (\E r \in Runs : pc[r] = "finish") => \A h \in Handlers : op[h] \in {"idle", "stop"}

IInv ==
    /\ TypeOK
    /\ ControlsInStep
    /\ TasksInStep
    /\ HandlersInStep
    /\ OutcomeStands

-----------------------------------------------------------------------------
(***************************************************************************)
(* The methods of a control yield controls.                                *)
(***************************************************************************)
LEMMA MethodTypes ==
    ASSUME NEW c \in Control
    PROVE  /\ Paused(c) \in Control /\ Resumed(c) \in Control
           /\ Stopped(c) \in Control /\ Expired(c) \in Control
           /\ \A f \in FinalStates : Finished(c, f) \in Control
           /\ NewControl \in Control
  BY DEF Control, ControlStates, ActiveStates, FinalStates, StopReasons, Paused,
     Resumed, Stopped, Expired, Finished, NewControl, Active

(***************************************************************************)
(* A put writes a row or leaves the row as it was.                         *)
(***************************************************************************)
LEMMA PutTypes ==
    ASSUME TypeOK, NEW t \in Runs \union Handlers, NEW s \in Statuses,
           NEW fs \in SUBSET Keys, PutRow(t, s, fs)
    PROVE  /\ row' \in Row \union {NoRow}
           /\ seen' \in [Runs \union Handlers -> Row \union {NoRow}]
  BY DEF TypeOK, PutRow, Row

LEMMA SeenFindings ==
    ASSUME TypeOK, NEW t \in Runs \union Handlers
    PROVE  seen[t].findings \in SUBSET Keys
           /\ (seen[t] # NoRow => seen[t].status \in Statuses)
  <1>1. seen[t] \in Row \/ seen[t] = NoRow
    BY DEF TypeOK
  <1>2. CASE seen[t] = NoRow
    BY <1>2 DEF NoRow
  <1>3. CASE seen[t] \in Row
    BY <1>3 DEF Row
  <1> QED
    BY <1>1, <1>2, <1>3

LEMMA InitIInv == Init => IInv
  <1> SUFFICES ASSUME Init PROVE IInv
    OBVIOUS
  <1> USE LifecycleAssumption
  <1>1. TypeOK
    BY MethodTypes DEF Init, TypeOK, Row, NoRow, Statuses, Control, ControlStates, ActiveStates,
       FinalStates, StopReasons, NewControl, TaskLabels, HandlerLabels
  <1>2. ControlsInStep
    BY DEF Init, ControlsInStep, Fresh, Reachable, NewControl, FinalStates
  <1>3. TasksInStep /\ HandlersInStep /\ OutcomeStands
    BY DEF Init, TasksInStep, HandlersInStep, OutcomeStands, NoRow
  <1> QED
    BY <1>1, <1>2, <1>3 DEF IInv

-----------------------------------------------------------------------------
(***************************************************************************)
(* Type correctness, a group of actions at a time.                         *)
(***************************************************************************)
LEMMA ScanTypes ==
    ASSUME TypeOK, NEW r \in Runs,
           \/ Load(r) \/ TaskGet(r) \/ PassCheck(r) \/ CancelAtCheck(r)
           \/ ScanModule(r) \/ EndOfScan(r) \/ ScanFails(r)
    PROVE  TypeOK'
  <1> USE LifecycleAssumption
  <1>0. row.findings \in SUBSET Keys
    <2>1. row \in Row \/ row = NoRow
      BY DEF TypeOK
    <2>2. CASE row = NoRow
      BY <2>2 DEF NoRow
    <2>3. CASE row \in Row
      BY <2>3 DEF Row
    <2> QED
      BY <2>1, <2>2, <2>3
  <1>1. CASE Load(r)
    BY <1>0, <1>1 DEF Load, Goto, TypeOK, TaskLabels, handler, history
  <1>2. CASE TaskGet(r)
    BY <1>2 DEF TaskGet, GetRow, Goto, TypeOK, TaskLabels, handler, history
  <1>3. CASE PassCheck(r)
    BY <1>3 DEF PassCheck, Goto, TypeOK, TaskLabels, handler, history
  <1>4. CASE CancelAtCheck(r)
    BY <1>4 DEF CancelAtCheck, Merged, Goto, TypeOK, TaskLabels, handler, history
  <1>5. CASE ScanModule(r)
    <2>1. left[r] - 1 \in 0..NModules
      BY <1>5 DEF ScanModule, TypeOK
    <2> QED
      BY <1>5, <2>1 DEF ScanModule, Goto, TypeOK, TaskLabels, handler, history
  <1>6. CASE EndOfScan(r)
    BY <1>6 DEF EndOfScan, Merged, Goto, TypeOK, TaskLabels, handler, history
  <1>7. CASE ScanFails(r)
    BY <1>7 DEF ScanFails, Goto, TypeOK, TaskLabels, FinalStates, handler, history
  <1> QED
    BY <1>1, <1>2, <1>3, <1>4, <1>5, <1>6, <1>7

LEMMA TaskPutTypes ==
    ASSUME TypeOK, TasksInStep, NEW r \in Runs,
           MarkRunning(r) \/ SavePartial(r) \/ StoreOutcome(r)
    PROVE  TypeOK'
  <1>1. CASE MarkRunning(r)
    <2>1. "running" \in Statuses /\ seen[r].findings \in SUBSET Keys
      BY SeenFindings DEF Statuses
    <2>2. /\ row' \in Row \union {NoRow}
          /\ seen' \in [Runs \union Handlers -> Row \union {NoRow}]
      BY <1>1, <2>1, PutTypes DEF MarkRunning
    <2> QED
      BY <1>1, <2>2 DEF MarkRunning, Goto, TypeOK, TaskLabels, handler, history
  <1>2. CASE SavePartial(r)
    <2>1. CASE seen[r] = NoRow
      BY <1>2, <2>1 DEF SavePartial, PutRow, Goto, TypeOK, TaskLabels, handler, history
    <2>2. CASE seen[r] # NoRow
      <3>1. seen[r].status \in Statuses /\ eng[r] \in SUBSET Keys
        BY <2>2, SeenFindings DEF TypeOK
      <3>2. /\ row' \in Row \union {NoRow}
            /\ seen' \in [Runs \union Handlers -> Row \union {NoRow}]
        BY <1>2, <3>1, PutTypes DEF SavePartial
      <3> QED
        BY <1>2, <3>2 DEF SavePartial, Goto, TypeOK, TaskLabels, handler, history
    <2> QED
      BY <2>1, <2>2
  <1>3. CASE StoreOutcome(r)
    <2>1. final[r] \in Statuses /\ eng[r] \in SUBSET Keys
      BY <1>3 DEF StoreOutcome, TasksInStep, TypeOK, Statuses
    <2>2. /\ row' \in Row \union {NoRow}
          /\ seen' \in [Runs \union Handlers -> Row \union {NoRow}]
      BY <1>3, <2>1, PutTypes DEF StoreOutcome
    <2>3. outcome' \in Row
      BY <1>3, <2>1 DEF StoreOutcome, Row
    <2>4. quiet' \in BOOLEAN
      BY <1>3 DEF StoreOutcome, Alone
    <2> QED
      BY <1>3, <2>2, <2>3, <2>4 DEF StoreOutcome, Goto, TypeOK, TaskLabels, handler
  <1> QED
    BY <1>1, <1>2, <1>3

LEMMA TaskControlTypes ==
    ASSUME TypeOK, TasksInStep, NEW r \in Runs,
           \/ CreateControl(r) \/ ExpireAtCheck(r) \/ SettleState(r)
           \/ SettleReason(r) \/ FinishControl(r)
    PROVE  TypeOK'
  <1> USE LifecycleAssumption
  <1>0. ctl[r] \in Control
    BY DEF TypeOK
  <1>1. CASE CreateControl(r)
    BY <1>1, MethodTypes, <1>0 DEF CreateControl, Goto, TypeOK, TaskLabels, handler, history
  <1>2. CASE ExpireAtCheck(r)
    BY <1>2, MethodTypes, <1>0 DEF ExpireAtCheck, TypeOK, task, handler, history
  <1>3. CASE SettleState(r)
    <2>1. ctl[r].state \in ControlStates
      BY <1>0 DEF Control
    <2> QED
      BY <1>3, <2>1 DEF SettleState, Goto, TypeOK, TaskLabels, handler, history
  <1>4. CASE SettleReason(r)
    <2>1. TerminalStatus(st[r], ctl[r].reason) \in FinalStates
      BY DEF TerminalStatus, FinalStates
    <2> QED
      BY <1>4, <2>1 DEF SettleReason, Goto, TypeOK, TaskLabels, handler, history
  <1>5. CASE FinishControl(r)
    <2>1. Finished(ctl[r], final[r]) \in Control
      BY <1>5, <1>0, MethodTypes DEF FinishControl, TasksInStep
    <2>2. "running" \in ControlStates
      BY DEF ControlStates, ActiveStates
    <2>3. quiet' \in BOOLEAN
      BY <1>5 DEF FinishControl, Alone, TypeOK
    <2> QED
      BY <1>5, <2>1, <2>2, <2>3 DEF FinishControl, Forget, Goto, TypeOK, TaskLabels, handler
  <1> QED
    BY <1>1, <1>2, <1>3, <1>4, <1>5

LEMMA HandlerTypes ==
    ASSUME TypeOK, HandlersInStep, NEW h \in Handlers, Handle(h)
    PROVE  TypeOK'
  <1> USE LifecycleAssumption
  <1>1. CASE \E o \in Requests : Request(h, o)
    <2> SUFFICES ASSUME NEW o \in Requests, Request(h, o) PROVE TypeOK'
      BY <1>1
    <2>1. requests + 1 \in 0..MaxRequests
      BY DEF Request, TypeOK
    <2>2. quiet' \in BOOLEAN
      BY DEF Request, TypeOK
    <2> QED
      BY <2>1, <2>2 DEF Request, Move, TypeOK, HandlerLabels, task
  <1>2. CASE LookUp(h) \/ PassGate(h) \/ FailGate(h)
    BY <1>2 DEF LookUp, PassGate, FailGate, Proceed, Leave, Move, TypeOK,
       HandlerLabels, Requests, task, history
  <1>3. CASE CallControl(h)
    <2>1. ctl' \in [Runs -> Control]
      <3>1. \A c \in Control : op[h] \in {"pause", "resume", "stop", "delete"}
                                 => Apply(op[h], c) \in Control
        BY MethodTypes DEF Apply
      <3>2. op[h] \in {"pause", "resume", "stop", "delete"} /\ target[h] \in Runs
        BY <1>3 DEF CallControl, HandlersInStep, TypeOK
      <3>3. ctl[target[h]] \in Control
        BY <3>2 DEF TypeOK
      <3> QED
        BY <1>3, <3>1, <3>2, <3>3 DEF CallControl, TypeOK
    <2> QED
      BY <1>3, <2>1 DEF CallControl, Proceed, Leave, Move, TypeOK,
         HandlerLabels, Requests, task, history
  <1>4. CASE DropControl(h) \/ EraseRow(h) \/ HandlerGet(h)
    BY <1>4 DEF DropControl, EraseRow, HandlerGet, GetRow, Leave, Move, TypeOK,
       HandlerLabels, Requests, task, history
  <1>5. CASE PutStatus(h) \/ \E r \in Runs : Enqueue(h, r)
    <2>1. StatusAfter(op[h]) \in Statuses /\ seen[h].findings \in SUBSET Keys
      BY SeenFindings DEF StatusAfter, Statuses
    <2>2. /\ row' \in Row \union {NoRow}
          /\ seen' \in [Runs \union Handlers -> Row \union {NoRow}]
      BY <1>5, <2>1, PutTypes DEF PutStatus, Enqueue
    <2> QED
      BY <1>5, <2>2 DEF PutStatus, Enqueue, Leave, Goto, TypeOK, HandlerLabels,
         TaskLabels, Requests, task, history
  <1> QED
    BY <1>1, <1>2, <1>3, <1>4, <1>5 DEF Handle

LEMMA TypeStep == TypeOK /\ TasksInStep /\ HandlersInStep /\ [Next]_vars => TypeOK'
  <1> SUFFICES ASSUME TypeOK, TasksInStep, HandlersInStep, [Next]_vars PROVE TypeOK'
    OBVIOUS
  <1>1. CASE UNCHANGED vars
    BY <1>1 DEF vars, task, handler, history, TypeOK
  <1>2. ASSUME NEW r \in Runs, Task(r) PROVE TypeOK'
    BY <1>2, ScanTypes, TaskPutTypes, TaskControlTypes DEF Task
  <1>3. ASSUME NEW h \in Handlers, Handle(h) PROVE TypeOK'
    BY <1>3, HandlerTypes
  <1> QED
    BY <1>1, <1>2, <1>3 DEF Next

-----------------------------------------------------------------------------
(***************************************************************************)
(* What a step does to the controls and who can reach them.  A scan goes   *)
(* from one label to another and touches neither.                          *)
(***************************************************************************)
Working == TaskLabels \ {"free", "queued", "create", "done"}

LEMMA WorkEffect ==
    ASSUME TypeOK, NEW r \in Runs,
           \/ TaskGet(r) \/ MarkRunning(r) \/ PassCheck(r) \/ CancelAtCheck(r)
           \/ ScanModule(r) \/ SavePartial(r) \/ EndOfScan(r) \/ ScanFails(r)
           \/ SettleState(r) \/ SettleReason(r) \/ StoreOutcome(r)
    PROVE  /\ UNCHANGED <<registry, ctl, handler>>
           /\ pc[r] \in Working
           /\ \E w \in Working : pc' = [pc EXCEPT ![r] = w]
  BY DEF TypeOK, Working, TaskLabels, TaskGet, MarkRunning, PassCheck, CancelAtCheck, ScanModule,
     SavePartial, EndOfScan, ScanFails, SettleState, SettleReason, StoreOutcome, Goto

LEMMA FewerReach ==
    ASSUME TypeOK, NEW h \in Handlers, Handle(h), NEW r \in Runs
    PROVE  Reachable(r)' => Reachable(r)
  BY LifecycleAssumption DEF TypeOK, Handle, Request, LookUp, PassGate, FailGate, CallControl,
     DropControl, EraseRow, HandlerGet, PutStatus, Enqueue, Leave, Proceed, Reachable, task

LEMMA MethodStates ==
    ASSUME NEW c \in Control
    PROVE  /\ c.state \in FinalStates =>
                 Paused(c) = c /\ Resumed(c) = c /\ Stopped(c) = c
           /\ c.state \notin FinalStates =>
                 /\ Paused(c).state \notin FinalStates
                 /\ Resumed(c).state \notin FinalStates
                 /\ Stopped(c).state \notin FinalStates
                 /\ Expired(c).state \notin FinalStates
           /\ \A f \in FinalStates : Finished(c, f).state = f
           /\ NewControl.state \notin FinalStates
  BY DEF Control, FinalStates, ActiveStates, Paused, Resumed, Stopped, Expired,
     Finished, NewControl, Active

LEMMA CallEffect ==
    ASSUME TypeOK, HandlersInStep, NEW h \in Handlers, CallControl(h)
    PROVE  /\ target[h] \in Runs
           /\ \E d \in {Paused(ctl[target[h]]), Resumed(ctl[target[h]]), Stopped(ctl[target[h]])} :
                 ctl' = [ctl EXCEPT ![target[h]] = d]
           /\ pc' = pc
  <1>1. op[h] \in {"pause", "resume", "stop", "delete"} /\ target[h] \in Runs
    BY DEF CallControl, HandlersInStep, TypeOK
  <1> QED
    BY <1>1 DEF CallControl, Apply, task

LEMMA ControlsStep ==
    ASSUME TypeOK, ControlsInStep, TasksInStep, HandlersInStep, [Next]_vars
    PROVE  ControlsInStep'
  <1> USE LifecycleAssumption
  <1>1. CASE UNCHANGED vars
    BY <1>1 DEF vars, task, handler, ControlsInStep, Fresh, Reachable
  <1>2. ASSUME NEW r \in Runs, Task(r) PROVE ControlsInStep'
    <2>1. CASE Load(r)
      BY <2>1 DEF Load, Goto, TypeOK, ControlsInStep, Fresh, Reachable, handler, NewControl, FinalStates
    <2>2. CASE CreateControl(r)
      BY <2>2, MethodStates DEF CreateControl, Goto, TypeOK, ControlsInStep, Fresh, Reachable,
         handler, NewControl, FinalStates
    <2>3. CASE ExpireAtCheck(r)
      <3>1. Expired(ctl[r]).state \notin FinalStates
        BY <2>3, MethodStates DEF ExpireAtCheck, TypeOK, Active, ActiveStates, FinalStates
      <3> QED
        BY <2>3, <3>1 DEF ExpireAtCheck, TypeOK, ControlsInStep, Fresh, Reachable, task, handler
    <2>4. CASE FinishControl(r)
      <3>1. Finished(ctl[r], final[r]).state \in FinalStates
        BY <2>4, MethodStates DEF FinishControl, TypeOK, TasksInStep
      <3> QED
        BY <2>4, <3>1 DEF FinishControl, Goto, TypeOK, ControlsInStep, Fresh, Reachable, handler
    <2>5. CASE ~(Load(r) \/ CreateControl(r) \/ ExpireAtCheck(r) \/ FinishControl(r))
      <3>1. /\ UNCHANGED <<registry, ctl, handler>>
            /\ pc[r] \in Working
            /\ \E w \in Working : pc' = [pc EXCEPT ![r] = w]
        BY <1>2, <2>5, WorkEffect DEF Task
      <3> QED
        BY <3>1 DEF Working, TypeOK, ControlsInStep, Fresh, Reachable, handler
    <2> QED
      BY <2>1, <2>2, <2>3, <2>4, <2>5
  <1>3. ASSUME NEW h \in Handlers, Handle(h) PROVE ControlsInStep'
    <2>1. \A r \in Runs : Reachable(r)' => Reachable(r)
      BY <1>3, FewerReach
    <2>2. CASE CallControl(h)
      <3>1. Reachable(target[h]) /\ ctl[target[h]] \in Control
        BY <2>2, CallEffect DEF Reachable, TypeOK
      <3> QED
        BY <2>1, <2>2, <3>1, CallEffect, MethodStates DEF TypeOK, ControlsInStep, Fresh
    <2>3. CASE \E r \in Runs : Enqueue(h, r)
      BY <2>1, <2>3 DEF Enqueue, Goto, TypeOK, ControlsInStep, Fresh
    <2>4. CASE ~CallControl(h) /\ ~\E r \in Runs : Enqueue(h, r)
      <3>1. pc' = pc /\ ctl' = ctl
        BY <1>3, <2>4 DEF Handle, Request, LookUp, PassGate, FailGate, DropControl,
           EraseRow, HandlerGet, PutStatus, task
      <3> QED
        BY <2>1, <3>1 DEF ControlsInStep, Fresh
    <2> QED
      BY <2>2, <2>3, <2>4
  <1> QED
    BY <1>1, <1>2, <1>3 DEF Next

-----------------------------------------------------------------------------
(***************************************************************************)
(* Tasks.  Nobody else touches a task's locals, and a row is never brought *)
(* back, so what a task saw of it stays valid as long as there is one.     *)
(***************************************************************************)
LEMMA RowsOnlyVanish == TypeOK /\ [Next]_vars /\ Exists' => Exists
  <1> SUFFICES ASSUME TypeOK, [Next]_vars, ~Exists PROVE ~Exists'
    OBVIOUS
  <1>1. CASE UNCHANGED vars
    BY <1>1 DEF vars, Exists
  <1>2. ASSUME NEW r \in Runs, Task(r) PROVE row' = row
    BY <1>2 DEF Task, Load, CreateControl, TaskGet, GetRow, MarkRunning, PassCheck,
       ExpireAtCheck, CancelAtCheck, ScanModule, SavePartial, EndOfScan, ScanFails,
       SettleState, SettleReason, StoreOutcome, FinishControl, PutRow, Exists
  <1>3. ASSUME NEW h \in Handlers, Handle(h) PROVE row' = row
    BY <1>3 DEF Handle, Request, LookUp, PassGate, FailGate, CallControl, DropControl,
       EraseRow, HandlerGet, GetRow, PutStatus, Enqueue, PutRow, Exists
  <1> QED
    BY <1>1, <1>2, <1>3 DEF Next, Exists

LEMMA OwnTask ==
    ASSUME TypeOK, NEW r \in Runs, Task(r), NEW q \in Runs, q # r
    PROVE  pc'[q] = pc[q] /\ final'[q] = final[q] /\ seen'[q] = seen[q]
  BY DEF TypeOK, Task, Load, CreateControl, TaskGet, GetRow, MarkRunning, PassCheck,
     ExpireAtCheck, CancelAtCheck, ScanModule, SavePartial, EndOfScan, ScanFails,
     SettleState, SettleReason, StoreOutcome, FinishControl, Forget, PutRow, Goto, task

LEMMA HandlersKeepTasks ==
    ASSUME TypeOK, NEW h \in Handlers, Handle(h), NEW r \in Runs
    PROVE  /\ pc'[r] = pc[r] \/ (pc[r] = "free" /\ pc'[r] = "queued")
           /\ final' = final /\ seen'[r] = seen[r]
  <1>1. r # h
    BY LifecycleAssumption
  <1> QED
    BY <1>1 DEF TypeOK, Handle, Request, LookUp, PassGate, FailGate, CallControl,
       DropControl, EraseRow, HandlerGet, GetRow, PutStatus, Enqueue, PutRow, Goto, task

LEMMA TasksStep ==
    ASSUME TypeOK, TasksInStep, [Next]_vars
    PROVE  TasksInStep'
  <1>0. Exists' => Exists
    BY RowsOnlyVanish
  <1>1. CASE UNCHANGED vars
    BY <1>1 DEF vars, task, TasksInStep, Exists
  <1>2. ASSUME NEW r \in Runs, Task(r) PROVE TasksInStep'
    <2>1. pc'[r] \in {"storeGet", "storePut", "finish"} => final'[r] \in FinalStates
      BY <1>2 DEF TypeOK, TasksInStep, Task, Load, CreateControl, TaskGet, MarkRunning,
         PassCheck, ExpireAtCheck, CancelAtCheck, ScanModule, SavePartial, EndOfScan,
         ScanFails, SettleState, SettleReason, StoreOutcome, FinishControl, Forget,
         Goto, task, TerminalStatus, FinalStates
    <2>2. pc'[r] = "storePut" /\ Exists' => seen'[r] # NoRow
      BY <1>2, <1>0 DEF TypeOK, TasksInStep, Task, Load, CreateControl, TaskGet, GetRow,
         MarkRunning, PassCheck, ExpireAtCheck, CancelAtCheck, ScanModule, SavePartial,
         EndOfScan, ScanFails, SettleState, SettleReason, StoreOutcome, FinishControl,
         Goto, task, Exists
    <2> QED
      BY <1>0, <1>2, <2>1, <2>2, OwnTask DEF TasksInStep
  <1>3. ASSUME NEW h \in Handlers, Handle(h) PROVE TasksInStep'
    BY <1>0, <1>3, HandlersKeepTasks DEF TasksInStep
  <1> QED
    BY <1>1, <1>2, <1>3 DEF Next

-----------------------------------------------------------------------------
(***************************************************************************)
(* Handlers.                                                               *)
(***************************************************************************)
LEMMA TasksKeepHandlers ==
    ASSUME NEW r \in Runs, Task(r)
    PROVE  UNCHANGED handler
  BY DEF handler, Task, Load, CreateControl, TaskGet, MarkRunning, PassCheck,
     ExpireAtCheck, CancelAtCheck, ScanModule, SavePartial, EndOfScan, ScanFails,
     SettleState, SettleReason, StoreOutcome, FinishControl

LEMMA OwnRequest ==
    ASSUME TypeOK, NEW h \in Handlers, Handle(h), NEW g \in Handlers, g # h
    PROVE  op'[g] = op[g] /\ at'[g] = at[g] /\ target'[g] = target[g]
  BY DEF TypeOK, Handle, Request, LookUp, PassGate, FailGate, CallControl, DropControl,
     EraseRow, HandlerGet, PutStatus, Enqueue, Leave, Proceed, Move

LEMMA HandlersStep ==
    ASSUME TypeOK, HandlersInStep, [Next]_vars
    PROVE  HandlersInStep'
  <1>1. CASE UNCHANGED vars
    BY <1>1 DEF vars, handler, HandlersInStep
  <1>2. ASSUME NEW r \in Runs, Task(r) PROVE HandlersInStep'
    BY <1>2, TasksKeepHandlers DEF handler, HandlersInStep
  <1>3. ASSUME NEW h \in Handlers, Handle(h) PROVE HandlersInStep'
    <2>1. /\ at'[h] = "idle" <=> op'[h] = "idle"
          /\ at'[h] \in {"look", "gate", "call"} =>
                 op'[h] \in {"pause", "resume", "stop", "delete"}
          /\ at'[h] = "call" => target'[h] # None
          /\ at'[h] \in {"putGet", "put"} => op'[h] \notin {"stop", "delete"}
          /\ at'[h] \in {"drop", "erase"} => op'[h] = "delete"
      <3>1. CASE \E o \in Requests : Request(h, o)
        BY <3>1 DEF TypeOK, Requests, Request, Move
      <3>2. CASE ~\E o \in Requests : Request(h, o)
        BY <1>3, <3>2 DEF HandlersInStep, TypeOK, Handle, LookUp, PassGate, FailGate,
           CallControl, DropControl, EraseRow, HandlerGet, PutStatus, Enqueue, Leave,
           Proceed, Move
      <3> QED
        BY <3>1, <3>2
    <2> QED
      BY <1>3, <2>1, OwnRequest DEF HandlersInStep
  <1> QED
    BY <1>1, <1>2, <1>3 DEF Next

-----------------------------------------------------------------------------
(***************************************************************************)
(* The stored outcome.  A task that has not stored its outcome spoils the  *)
(* calm and does not restore it.                                           *)
(***************************************************************************)
LEMMA BusyTask ==
    ASSUME TypeOK, NEW r \in Runs, Task(r), ~StoreOutcome(r), ~FinishControl(r)
    PROVE  ~Exists' \/ ~Calm'
  <1>1. ~Exists' \/ pc'[r] \notin {"free", "done", "finish"}
    BY DEF TypeOK, Task, Load, CreateControl, TaskGet, MarkRunning, PassCheck,
       ExpireAtCheck, CancelAtCheck, ScanModule, SavePartial, EndOfScan, ScanFails,
       SettleState, SettleReason, Goto, task, Exists
  <1> QED
    BY <1>1 DEF Calm

LEMMA NoControlWhenCalm ==
    ASSUME TypeOK, ControlsInStep, OutcomeStands, quiet, outcome # NoRow, Calm, Exists,
           NEW h \in Handlers, op[h] \in {"pause", "resume"}
    PROVE  ~PassGate(h)
  <1> SUFFICES ASSUME PassGate(h) PROVE FALSE
    OBVIOUS
  <1>1. target[h] \in Runs /\ ctl[target[h]].state \in ActiveStates
    BY DEF PassGate, TypeOK, GateStates, ActiveStates
  <1>2. pc[target[h]] # "finish"
    BY <1>1 DEF OutcomeStands
  <1>3. Reachable(target[h])
    BY DEF Reachable
  <1>4. pc[target[h]] \in {"free", "done"}
    BY <1>1, <1>2 DEF Calm
  <1> QED
    BY <1>1, <1>3, <1>4 DEF ControlsInStep, Fresh, ActiveStates, FinalStates

LEMMA OutcomeStep ==
    ASSUME IInv, [Next]_vars
    PROVE  OutcomeStands'
  <1> USE DEF IInv
  <1>0. Exists' => Exists
    BY RowsOnlyVanish
  <1>1. CASE UNCHANGED vars
    BY <1>1 DEF vars, task, handler, history, OutcomeStands, Calm, Exists
  <1>2. ASSUME NEW r \in Runs, Task(r) PROVE OutcomeStands'
    <2>1. CASE StoreOutcome(r)
      <3> SUFFICES ASSUME quiet', Exists' PROVE OutcomeStands'
        BY DEF OutcomeStands
      <3>1. row' = outcome'
        BY <1>0, <2>1 DEF StoreOutcome, PutRow, TasksInStep
      <3>2. \A h \in Handlers : op'[h] \in {"idle", "stop"}
        BY <2>1 DEF StoreOutcome, Alone, handler
      <3> QED
        BY <3>1, <3>2 DEF OutcomeStands
    <2>2. CASE FinishControl(r)
      <3> SUFFICES ASSUME quiet', Exists', outcome' # NoRow PROVE OutcomeStands'
        BY DEF OutcomeStands
      <3>1. quiet /\ Alone(r) /\ Calm
        BY <2>2 DEF FinishControl, Alone, Calm
      <3>2. row' = outcome'
        BY <1>0, <2>2, <3>1 DEF FinishControl, OutcomeStands
      <3>3. \A h \in Handlers : op'[h] \in {"idle", "stop"}
        BY <2>2, <3>1 DEF FinishControl, Alone, handler
      <3> QED
        BY <3>2, <3>3 DEF OutcomeStands
    <2>3. CASE ~StoreOutcome(r) /\ ~FinishControl(r)
      BY <1>2, <2>3, BusyTask DEF OutcomeStands
    <2> QED
      BY <2>1, <2>2, <2>3
  <1>3. ASSUME NEW h \in Handlers, Handle(h) PROVE OutcomeStands'
    <2> SUFFICES ASSUME quiet', outcome' # NoRow, Calm', Exists' PROVE OutcomeStands'
      BY DEF OutcomeStands
    <2>1. \A r \in Runs : pc'[r] = pc[r]
      BY <1>3, HandlersKeepTasks DEF Calm
    <2>2. ~\E r \in Runs : Enqueue(h, r)
      BY <2>1 DEF Enqueue, Goto, TypeOK
    <2>3. quiet /\ outcome' = outcome /\ Calm /\ Exists
      BY <1>0, <1>3, <2>1 DEF Handle, Request, LookUp, PassGate, FailGate, CallControl,
         DropControl, EraseRow, HandlerGet, PutStatus, Enqueue, history, Calm
    <2>4. ~EraseRow(h)
      BY DEF EraseRow, Exists
    <2>5. op[h] \in {"pause", "resume"} => at[h] \in {"look", "gate"}
      BY <2>3 DEF OutcomeStands
    <2>6. ~PutStatus(h)
      BY <2>5 DEF PutStatus
    <2>7. row' = row
      BY <1>3, <2>2, <2>4, <2>6 DEF Handle, Request, LookUp, PassGate, FailGate,
         CallControl, DropControl, HandlerGet
    <2>8. op'[h] \in {"pause", "resume"} => at'[h] \in {"look", "gate"}
      <3>1. op[h] \in {"pause", "resume"} => ~PassGate(h)
        BY <2>3, NoControlWhenCalm
      <3> QED
        BY <1>3, <2>2, <2>4, <2>5, <2>6, <3>1 DEF TypeOK, Handle, Request, LookUp,
           PassGate, FailGate, CallControl, DropControl, HandlerGet, Leave, Proceed, Move
    <2>9. (\E r \in Runs : pc[r] = "finish") => op'[h] \in {"idle", "stop"}
      <3> SUFFICES ASSUME NEW r \in Runs, pc[r] = "finish"
                   PROVE  op'[h] \in {"idle", "stop"}
        OBVIOUS
      <3>1. op[h] \in {"idle", "stop"}
        BY <2>3 DEF OutcomeStands
      <3>2. CASE \E o \in Requests : Request(h, o)
        BY <3>2 DEF Request, TypeOK
      <3>3. CASE ~\E o \in Requests : Request(h, o)
        BY <1>3, <2>2, <2>4, <2>6, <3>1, <3>3 DEF TypeOK, Handle, LookUp, PassGate,
           FailGate, CallControl, DropControl, HandlerGet, Leave, Proceed
      <3> QED
        BY <3>2, <3>3
    <2> QED
      BY <1>3, <2>1, <2>3, <2>7, <2>8, <2>9, OwnRequest DEF OutcomeStands
  <1> QED
    BY <1>1, <1>2, <1>3 DEF Next

LEMMA NextIInv == IInv /\ [Next]_vars => IInv'
  BY TypeStep, ControlsStep, TasksStep, HandlersStep, OutcomeStep DEF IInv

-----------------------------------------------------------------------------
(***************************************************************************)
(* The inductive invariant holds of every behaviour, whatever the          *)
(* interleaving of scans, pauses, stops, deletes and new runs.             *)
(***************************************************************************)
THEOREM Invariance == Spec => []IInv
  BY InitIInv, NextIInv, PTL DEF Spec

(***************************************************************************)
(* Every variable keeps its type: no method of a control leaves its        *)
(* states, and nothing but a known status reaches the row.                 *)
(***************************************************************************)
THEOREM TypeCorrect == Spec => []TypeOK
  <1>1. IInv => TypeOK
    BY DEF IInv
  <1> QED
    BY <1>1, Invariance, PTL

(***************************************************************************)
(* When everything is at rest, the row shows what the run that ended last  *)
(* stored in _run_engagement, if it stored it and closed its control while *)
(* nothing but a stop was under way.                                       *)
(***************************************************************************)
THEOREM OutcomeIsShown == Spec => []QuietOutcomeStands
  <1>1. IInv => QuietOutcomeStands
    BY DEF IInv, OutcomeStands, Calm, AtRest, QuietOutcomeStands
  <1> QED
    BY <1>1, Invariance, PTL

(***************************************************************************)
(* No partial save, outcome or status change of store.update brings a      *)
(* deleted engagement back.                                                *)
(***************************************************************************)
THEOREM DeletedStaysDeleted == Spec => NeverResurrected
  <1>1. IInv /\ [Next]_vars => [~Exists => row' = row]_vars
    <2> SUFFICES ASSUME IInv, [Next]_vars, ~Exists PROVE row' = row
      BY DEF vars
    <2>1. ~Exists'
      BY RowsOnlyVanish DEF IInv
    <2> QED
      BY <2>1 DEF Exists
  <1> QED
    BY <1>1, Invariance, PTL DEF Spec, NeverResurrected

(***************************************************************************)
(* A step that changes a control changes one, by one of its methods:       *)
(* expiry and finish() before it is final, the others in any state.        *)
(***************************************************************************)
LEMMA OneControlMoves ==
    ASSUME IInv, [Next]_vars, NEW r \in Runs
    PROVE  \/ ctl'[r] \in {ctl[r], Paused(ctl[r]), Resumed(ctl[r]), Stopped(ctl[r])}
           \/ Active(ctl[r]) /\ ctl'[r] = Expired(ctl[r])
           \/ /\ ctl[r].state \notin FinalStates
              /\ \E f \in FinalStates : ctl'[r] = Finished(ctl[r], f)
  <1> USE DEF IInv
  <1>1. CASE UNCHANGED vars
    BY <1>1 DEF vars
  <1>2. ASSUME NEW q \in Runs, Task(q)
        PROVE  \/ ctl'[r] = ctl[r]
               \/ Active(ctl[r]) /\ ctl'[r] = Expired(ctl[r])
               \/ /\ ctl[r].state \notin FinalStates
                  /\ \E f \in FinalStates : ctl'[r] = Finished(ctl[r], f)
    <2>1. CASE CreateControl(q)
      BY <2>1 DEF CreateControl, TypeOK, ControlsInStep, Fresh
    <2>2. CASE ExpireAtCheck(q)
      BY <2>2 DEF ExpireAtCheck, TypeOK
    <2>3. CASE FinishControl(q)
      <3>1. ctl[q].state \notin FinalStates /\ final[q] \in FinalStates
        BY <2>3 DEF FinishControl, ControlsInStep, TasksInStep
      <3> QED
        BY <2>3, <3>1 DEF FinishControl, TypeOK
    <2>4. CASE ~(CreateControl(q) \/ ExpireAtCheck(q) \/ FinishControl(q))
      <3>1. ctl' = ctl
        BY <1>2, <2>4, WorkEffect DEF Task, Load
      <3> QED
        BY <3>1
    <2> QED
      BY <2>1, <2>2, <2>3, <2>4
  <1>3. ASSUME NEW h \in Handlers, Handle(h)
        PROVE  ctl'[r] \in {ctl[r], Paused(ctl[r]), Resumed(ctl[r]), Stopped(ctl[r])}
    <2>1. CASE CallControl(h)
      BY <2>1, CallEffect DEF TypeOK
    <2>2. CASE ~CallControl(h)
      BY <1>3, <2>2 DEF Handle, Request, LookUp, PassGate, FailGate, DropControl,
         EraseRow, HandlerGet, PutStatus, Enqueue
    <2> QED
      BY <2>1, <2>2
  <1> QED
    BY <1>1, <1>2, <1>3 DEF Next

LEMMA GateStep ==
    ASSUME IInv, [Next]_vars, NEW r \in Runs
    PROVE  [Gate(r)!Next]_(GateState(r))
  <1>1. ctl[r] \in Control
    BY DEF IInv, TypeOK
  <1> USE <1>1 DEF GateState, Gate!Next, Gate!Hold, Gate!Open, Gate!Cancel,
      Gate!Close, Control, ControlStates, ActiveStates, FinalStates
  <1>2. CASE ctl'[r] = ctl[r]
    BY <1>2
  <1>3. CASE ctl'[r] = Paused(ctl[r])
    BY <1>3 DEF Paused
  <1>4. CASE ctl'[r] = Resumed(ctl[r])
    BY <1>4 DEF Resumed
  <1>5. CASE ctl'[r] = Stopped(ctl[r])
    BY <1>5 DEF Stopped, Active
  <1>6. CASE Active(ctl[r]) /\ ctl'[r] = Expired(ctl[r])
    BY <1>6 DEF Expired, Active
  <1>7. CASE /\ ctl[r].state \notin FinalStates
             /\ \E f \in FinalStates : ctl'[r] = Finished(ctl[r], f)
    BY <1>7 DEF Finished
  <1> QED
    BY <1>2, <1>3, <1>4, <1>5, <1>6, <1>7, OneControlMoves

(***************************************************************************)
(* Every control in the process behaves as the abstract gate of ScanGate,  *)
(* whoever holds it and for however long: no method that a handler calls   *)
(* late, after the run's finish(), opens it again.                         *)
(***************************************************************************)
THEOREM ControlsAreGates == Spec => EveryControlIsAGate
  <1>1. IInv /\ [Next]_vars
            => [\A r \in Runs : [Gate(r)!Next]_(GateState(r))]_ctl
    BY GateStep
  <1> QED
    BY <1>1, Invariance, PTL DEF Spec, EveryControlIsAGate

=============================================================================
