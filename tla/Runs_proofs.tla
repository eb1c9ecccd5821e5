----------------------------- MODULE Runs_proofs -----------------------------
(***************************************************************************)
(* What holds of a run: of its control, for any set of handler threads,    *)
(* and of the scan pipeline, for every number of assets, modules, units    *)
(* and workers: the engagement is exactly what the modules returned, what  *)
(* the live feed showed is lost only where LossIsContained says, and what  *)
(* was saved is never taken back.                                          *)
(*                                                                         *)
(* Of the control everything rests on how far it may run ahead of the copy *)
(* the scanning thread holds; IInv says it label by label.  Of the         *)
(* pipeline the argument follows a finding: RunUnit puts it into the list  *)
(* of the module that runs, ReturnModule moves the list on, and a          *)
(* finding's name says which asset and which module it can only be with.   *)
(***************************************************************************)
EXTENDS RunControl, WorkflowRunner, FiniteSetTheorems, TLAPS

-----------------------------------------------------------------------------
(***************************************************************************)
(* The control.                                                            *)
(***************************************************************************)
(***************************************************************************)
(* The control by itself: a run that is still active has no stop reason,   *)
(* a running one has its event set, a paused one has it cleared, and only  *)
(* finish() puts it in a final state.                                      *)
(***************************************************************************)
ControlConsistent ==
    /\ Active(ctl) => ctl.reason = "none"
    /\ ctl.state = "running" => ctl.resume
    /\ ctl.state = "paused" => ~ctl.resume
    /\ ctl.state = "stopping" => ctl.reason # "none"
    /\ ctl.state \in FinalStates <=> pc = "done"

(***************************************************************************)
(* A thread on its way to sleep, or asleep, finds the event set unless the *)
(* run is still (or again) paused.                                         *)
(***************************************************************************)
WakesWhenNeeded ==
    (pc = "waiting" \/ (pc = "branch" /\ st = "paused")) /\ ~ctl.resume
        => ctl.state = "paused"

(***************************************************************************)
(* The thread's copy is a state that can lead to the present one, and once *)
(* a checkpoint has been passed against a paused or stopping run the next  *)
(* look at the state cannot show "running".                                *)
(***************************************************************************)
SlipBound ==
    /\ pc \in ScanPoints => st \notin FinalStates
    /\ slip \in 0..1
    /\ slip = 1 =>
          /\ ctl.state # "running"
          /\ pc = "branch" => st # "running"
          /\ pc = "woken" => ctl.state = "stopping"
          /\ pc = "rebranch" => st = "stopping"

(***************************************************************************)
(* An accepted stop has left its reason, and what the thread has read of   *)
(* it since leads to "stopped".                                            *)
(***************************************************************************)
StopRemembered ==
    /\ owed =>
          /\ ctl.reason = "user"
          /\ ctl.state = "stopping" \/ pc = "done"
          /\ pc = "settleReason" => st = "stopping"
          /\ pc \in {"finish", "done"} => final \in {"stopped", "failed"}
    /\ pc \in ScanPoints \union {"settle", "settleReason"} => final = "none"
    /\ pc \in {"finish", "done"} => final \in FinalStates
    /\ final = "stopped" => ctl.reason = "user"

IInv ==
    /\ TypeOK
    /\ ControlConsistent
    /\ WakesWhenNeeded
    /\ SlipBound
    /\ StopRemembered

-----------------------------------------------------------------------------
(***************************************************************************)
(* What a handler's call does to a control, in terms of its fields.        *)
(***************************************************************************)
LEMMA CallEffect ==
    ASSUME NEW c \in Control, NEW op \in Operations
    PROVE  LET d == Apply(op, c) IN
           /\ d \in Control
           /\ \/ d = c /\ ~(op = "stop" /\ Active(c))
              \/ op = "pause" /\ c.state = "running" /\ d.state = "paused"
                 /\ ~d.resume /\ d.reason = c.reason
              \/ op = "resume" /\ c.state = "paused" /\ d.state = "running"
                 /\ d.resume /\ d.reason = c.reason
              \/ op = "stop" /\ Active(c) /\ d.state = "stopping"
                 /\ d.resume /\ d.reason = "user"
  <1> USE DEF Control, ControlStates, ActiveStates, StopReasons, Active
  <1>1. CASE op = "pause"
    BY <1>1 DEF Apply, Paused
  <1>2. CASE op = "resume"
    BY <1>2 DEF Apply, Resumed
  <1>3. CASE op = "stop"
    <2>1. Apply(op, c) = Stopped(c)
      BY <1>3 DEF Apply
    <2> QED
      BY <1>3, <2>1 DEF Stopped
  <1> QED
    BY <1>1, <1>2, <1>3 DEF Operations

LEMMA InitIInv == Init => IInv
  <1> SUFFICES ASSUME Init PROVE IInv
    OBVIOUS
  <1> USE DEF Init, NewControl, Control, ControlStates, ActiveStates,
              FinalStates, StopReasons, Active, ScanPoints, SettlePoints
  <1>1. TypeOK
    BY DEF TypeOK
  <1>2. ControlConsistent /\ WakesWhenNeeded /\ StopRemembered
    BY DEF ControlConsistent, WakesWhenNeeded, StopRemembered
  <1>3. SlipBound
    BY DEF SlipBound
  <1> QED
    BY <1>1, <1>2, <1>3 DEF IInv

(***************************************************************************)
(* The steps of the scanning thread that leave the control alone.          *)
(***************************************************************************)
LEMMA QuietScannerStep ==
    ASSUME IInv,
           BeginCheck \/ ReadState \/ Branch \/ Wake \/ ReadAgain \/ BranchAgain
             \/ SwallowCancel \/ EndCancelled \/ LeaveAssess \/ EndOfScan
             \/ ScanFails \/ SettleState \/ SettleReason
    PROVE  IInv'
  <1> USE DEF IInv, TypeOK, ControlConsistent, WakesWhenNeeded, SlipBound,
              StopRemembered, Control, ControlStates, ActiveStates, FinalStates,
              StopReasons, Active, ScanPoints, SettlePoints, Goto, Operations
  <1>1. CASE BeginCheck
    BY <1>1 DEF BeginCheck
  <1>2. CASE ReadState
    BY <1>2 DEF ReadState
  <1>3. CASE Branch
    BY <1>3 DEF Branch, Pass
  <1>4. CASE Wake
    BY <1>4 DEF Wake
  <1>5. CASE ReadAgain
    BY <1>5 DEF ReadAgain
  <1>6. CASE BranchAgain
    BY <1>6 DEF BranchAgain, Pass
  <1>7. CASE SwallowCancel
    BY <1>7 DEF SwallowCancel
  <1>8. CASE EndCancelled
    BY <1>8 DEF EndCancelled
  <1>9. CASE LeaveAssess
    BY <1>9 DEF LeaveAssess
  <1>10. CASE EndOfScan
    BY <1>10 DEF EndOfScan
  <1>11. CASE ScanFails
    BY <1>11 DEF ScanFails
  <1>12. CASE SettleState
    BY <1>12 DEF SettleState
  <1>13. CASE SettleReason
    BY <1>13 DEF SettleReason, TerminalStatus
  <1> QED
    BY <1>1, <1>2, <1>3, <1>4, <1>5, <1>6, <1>7, <1>8, <1>9, <1>10, <1>11,
       <1>12, <1>13

(***************************************************************************)
(* The steps that call a method of the control.                            *)
(***************************************************************************)
LEMMA ExpireStep ==
    ASSUME IInv, ExpireRun
    PROVE  IInv'
  BY DEF IInv, TypeOK, ControlConsistent, WakesWhenNeeded, SlipBound,
         StopRemembered, Control, ControlStates, ActiveStates, FinalStates,
         StopReasons, Active, ScanPoints, SettlePoints, Goto, ExpireRun, Expired

LEMMA FinishStep ==
    ASSUME IInv, FinishRun
    PROVE  IInv'
  BY DEF IInv, TypeOK, ControlConsistent, WakesWhenNeeded, SlipBound,
         StopRemembered, Control, ControlStates, ActiveStates, FinalStates,
         StopReasons, Active, ScanPoints, SettlePoints, Goto, FinishRun, Finished

LEMMA HandlerStep ==
    ASSUME IInv, NEW c \in Callers, Handler(c)
    PROVE  IInv'
  <1> USE DEF IInv, TypeOK, ControlConsistent, WakesWhenNeeded, SlipBound,
              StopRemembered, Active, ActiveStates
  <1>1. ASSUME NEW op \in Operations, EnterHandler(c, op) \/ Reject409(c, op)
        PROVE  IInv'
    BY <1>1 DEF EnterHandler, Reject409, scanner, vars
  <1>2. CASE CallControl(c)
    <2>1. call' \in [Callers -> Operations \union {"idle"}]
      BY <1>2 DEF CallControl
    <2> DEFINE op == call[c]
    <2>2. op \in Operations /\ ctl' = Apply(op, ctl)
      BY <1>2 DEF CallControl
    <2>3. ctl' \in Control
      BY <2>2, CallEffect
    <2>4. slip' = IF ctl.state = "running" \/ ctl'.state = "running" THEN 0 ELSE slip
      BY <1>2 DEF CallControl
    <2>5. owed' = \/ owed
                  \/ op = "stop" /\ Active(ctl) /\ pc \in ScanPoints \union {"settle"}
      BY <1>2 DEF CallControl
    <2>6. UNCHANGED <<late, pc, where, st, final>>
      BY <1>2 DEF CallControl, scanner
    <2> HIDE DEF op
    <2>7. CASE ctl' = ctl /\ ~(op = "stop" /\ Active(ctl))
      BY <2>1, <2>4, <2>5, <2>6, <2>7
    <2>8. CASE /\ op = "pause" /\ ctl.state = "running"
               /\ ctl'.state = "paused" /\ ~ctl'.resume /\ ctl'.reason = ctl.reason
      BY <2>1, <2>3, <2>4, <2>5, <2>6, <2>8 DEF FinalStates, ScanPoints, SettlePoints
    <2>9. CASE /\ op = "resume" /\ ctl.state = "paused"
               /\ ctl'.state = "running" /\ ctl'.resume /\ ctl'.reason = ctl.reason
      BY <2>1, <2>3, <2>4, <2>5, <2>6, <2>9 DEF FinalStates, ScanPoints, SettlePoints
    <2>10. CASE /\ op = "stop" /\ Active(ctl)
                /\ ctl'.state = "stopping" /\ ctl'.resume /\ ctl'.reason = "user"
      BY <2>1, <2>3, <2>4, <2>5, <2>6, <2>10 DEF FinalStates, ScanPoints, SettlePoints
    <2> QED
      BY <2>2, <2>7, <2>8, <2>9, <2>10, CallEffect
  <1> QED
    BY <1>1, <1>2 DEF Handler

LEMMA NextIInv == IInv /\ [Next]_vars => IInv'
  <1> SUFFICES ASSUME IInv, [Next]_vars PROVE IInv'
    OBVIOUS
  <1>1. CASE BudgetRunsOut \/ UNCHANGED vars
    <2>1. UNCHANGED <<ctl, pc, where, st, final, call, slip, owed>> /\ late' \in BOOLEAN
      BY <1>1 DEF BudgetRunsOut, vars, scanner, IInv, TypeOK
    <2> QED
      BY <2>1 DEF IInv, TypeOK, ControlConsistent, WakesWhenNeeded, SlipBound,
         StopRemembered, Active
  <1>2. CASE Scanner
    BY <1>2, QuietScannerStep, ExpireStep, FinishStep DEF Scanner
  <1>3. CASE \E c \in Callers : Handler(c)
    BY <1>3, HandlerStep
  <1> QED
    BY <1>1, <1>2, <1>3 DEF Next

(***************************************************************************)
(* The inductive invariant holds in every reachable state.                 *)
(***************************************************************************)
THEOREM Invariance == Spec => []IInv
  BY InitIInv, NextIInv, PTL DEF Spec

(***************************************************************************)
(* Type correctness: every method and every checkpoint keeps the control   *)
(* and the thread's locals within their types.                             *)
(***************************************************************************)
THEOREM TypeCorrect == Spec => []TypeOK
  <1>1. IInv => TypeOK
    BY DEF IInv
  <1> QED
    BY <1>1, Invariance, PTL

(***************************************************************************)
(* No lost wakeup, for any number of handler threads.                      *)
(***************************************************************************)
THEOREM NoWakeupIsLost == Spec => []NoLostWakeup
  <1>1. IInv => NoLostWakeup
    BY DEF IInv, WakesWhenNeeded, NoLostWakeup
  <1> QED
    BY <1>1, Invariance, PTL

(***************************************************************************)
(* At most one checkpoint is passed against a paused or stopping run, for  *)
(* any number of handler threads.                                          *)
(***************************************************************************)
THEOREM OneSlipAtMost == Spec => []AtMostOneSlip
  <1>1. IInv => AtMostOneSlip
    BY DEF IInv, SlipBound, AtMostOneSlip
  <1> QED
    BY <1>1, Invariance, PTL

(***************************************************************************)
(* A stop accepted while the scan ran decides the outcome.                 *)
(***************************************************************************)
THEOREM StopsAreHonoured == Spec => []StopIsHonoured
  <1>1. IInv => StopIsHonoured
    BY DEF IInv, StopRemembered, StopIsHonoured
  <1> QED
    BY <1>1, Invariance, PTL

(***************************************************************************)
(* Only a user's stop is reported as one.                                  *)
(***************************************************************************)
THEOREM OnlyUsersStop == Spec => []StoppedMeansUser
  <1>1. IInv => StoppedMeansUser
    BY DEF IInv, StopRemembered, StoppedMeansUser
  <1> QED
    BY <1>1, Invariance, PTL

-----------------------------------------------------------------------------
(***************************************************************************)
(* What a step does to the control: nothing, or one method of it.  A step  *)
(* of a handler applies the method its request names.                      *)
(***************************************************************************)
LEMMA ControlStep ==
    ASSUME IInv, [Next]_vars
    PROVE  \/ ctl' = ctl
           \/ ctl' \in {Paused(ctl), Resumed(ctl), Stopped(ctl)}
           \/ pc = "expire" /\ ctl' = Expired(ctl)
           \/ pc = "finish" /\ ctl' = Finished(ctl, final)
  <1>1. CASE BudgetRunsOut \/ UNCHANGED vars
    BY <1>1 DEF BudgetRunsOut, vars
  <1>2. CASE Scanner
    BY <1>2 DEF Scanner, BeginCheck, ExpireRun, ReadState, Branch, Wake,
       ReadAgain, BranchAgain, SwallowCancel, EndCancelled, LeaveAssess,
       EndOfScan, ScanFails, SettleState, SettleReason, FinishRun
  <1>3. ASSUME NEW c \in Callers, Handler(c)
        PROVE  ctl' = ctl \/ ctl' \in {Paused(ctl), Resumed(ctl), Stopped(ctl)}
    <2>1. CASE CallControl(c)
      <3>1. call[c] \in Operations
        BY <2>1 DEF CallControl, IInv, TypeOK
      <3> QED
        BY <2>1, <3>1 DEF CallControl, Operations, Apply
    <2>2. CASE \E op \in Operations : EnterHandler(c, op) \/ Reject409(c, op)
      BY <2>2 DEF EnterHandler, Reject409, vars
    <2> QED
      BY <1>3, <2>1, <2>2 DEF Handler
  <1> QED
    BY <1>1, <1>2, <1>3 DEF Next

(***************************************************************************)
(* Why a run stopped is decided once, whatever comes later.                *)
(***************************************************************************)
THEOREM ReasonsAreFinal == Spec => ReasonIsFinal
  <1>1. IInv /\ [Next]_vars => [ctl.reason # "none" => ctl'.reason = ctl.reason]_vars
    <2> SUFFICES ASSUME IInv, [Next]_vars, ctl.reason # "none"
                 PROVE  ctl'.reason = ctl.reason
      OBVIOUS
    <2>1. ctl \in Control /\ ~Active(ctl)
      BY DEF IInv, TypeOK, ControlConsistent
    <2> QED
      BY <2>1, ControlStep DEF Control, Active, ActiveStates, Paused, Resumed,
         Stopped, Expired, Finished
  <1> QED
    BY <1>1, Invariance, PTL DEF Spec, ReasonIsFinal

(***************************************************************************)
(* The control implements the abstract gate: from the same start, every    *)
(* step of the scan, its clock and its handlers is a step of the gate or   *)
(* leaves it as it is.                                                     *)
(***************************************************************************)
THEOREM ControlIsAGate == Spec => ImplementsGate
  <1>1. Init => Gate!Init
    BY DEF Init, Gate!Init, GateOfControl, NewControl
  <1>2. IInv /\ [Next]_vars => [Gate!Next]_GateOfControl
    <2> SUFFICES ASSUME IInv, [Next]_vars
                 PROVE  [Gate!Next]_GateOfControl
      OBVIOUS
    <2> USE DEF GateOfControl, Gate!Next, Gate!Hold, Gate!Open, Gate!Cancel,
                Gate!Close
    <2>1. /\ ctl \in Control
          /\ pc \in {"expire", "finish"} => ctl.state \notin FinalStates
          /\ pc = "finish" => final \in FinalStates
      BY DEF IInv, TypeOK, ControlConsistent, StopRemembered
    <2>2. CASE ctl' = ctl
      BY <2>2
    <2>3. CASE ctl' = Paused(ctl)
      BY <2>1, <2>3 DEF Paused, Control
    <2>4. CASE ctl' = Resumed(ctl)
      BY <2>1, <2>4 DEF Resumed, Control
    <2>5. CASE ctl' = Stopped(ctl)
      BY <2>1, <2>5 DEF Stopped, Control, Active, ActiveStates
    <2>6. CASE pc = "expire" /\ ctl' = Expired(ctl)
      BY <2>1, <2>6 DEF Expired, Control, ControlStates, ActiveStates
    <2>7. CASE pc = "finish" /\ ctl' = Finished(ctl, final)
      BY <2>1, <2>7 DEF Finished, Control, FinalStates
    <2> QED
      BY ControlStep, <2>2, <2>3, <2>4, <2>5, <2>6, <2>7
  <1> QED
    BY <1>1, <1>2, Invariance, PTL DEF Spec, ImplementsGate, Gate!Spec

-----------------------------------------------------------------------------
(***************************************************************************)
(* The pipeline.                                                           *)
(***************************************************************************)
Working == {"module", "assess", "units", "validate", "return"}

\* Where an asset stands among its modules.
Positions ==
    \A a \in Assets :
        /\ at[a] # "idle" => a \in runnable
        /\ at[a] = "idle" => module[a] = 1 /\ collected[a] = {}
        /\ at[a] \in Working => module[a] \in Modules
        /\ at[a] \in {"returned", "done"} => module[a] = NModules + 1

\* A list in the hands of an asset holds findings of its own: those collected
\* come from earlier modules, the open list from the module it is at.
ListsAreOwn ==
    \A a \in Assets :
        /\ \A f \in collected[a] : f[1] = a /\ f[2] < module[a]
        /\ at[a] \in {"units", "validate", "return"} =>
              \A f \in findings[a] : f[1] = a /\ f[2] = module[a]

\* A controlled run takes the runnable assets in order.
InOrder ==
    Controlled =>
        \A a \in Assets : \A b \in runnable :
            at[a] # "idle" /\ b < a => at[b] = "done"

\* Only a controlled run can be cancelled or has a feed; the queue fills the
\* engagement at the end.
ModesDiffer ==
    ~Controlled => /\ ~cancel /\ phase # "cancelled"
                   /\ feed = {}
                   /\ phase = "running" => \A f \in Finding : engagement[f] = 0

DoneWhenComplete == phase = "complete" => AllDone

StoredIsOld == \A f \in Finding : stored[f] <= engagement[f]

\* What the feed showed is in the engagement, in the open list of its module,
\* or gone with a module that raised or was cut short.
Held(f) ==
    \/ engagement[f] > 0
    \/ <<f[1], f[2]>> \in raised \union cut
    \/ /\ at[f[1]] \in {"units", "validate", "return"}
       /\ module[f[1]] = f[2]
       /\ f \in findings[f[1]]

FeedIsHeld == \A f \in feed : Held(f)

\* Once a cancellation has cut a module short no asset can reach the inside of
\* a module again, so it cuts no second one.
CutStops ==
    cut # {} =>
        /\ cancel
        /\ \A a \in Assets :
              \/ at[a] \in {"idle", "module", "return", "returned", "done"}
              \/ at[a] = "validate" /\ phase = "cancelled"

\* Where the asset of the module cut short is left, and those behind it.
LeftAt(am) ==
    /\ \/ at[am[1]] \in {"return", "validate"} /\ module[am[1]] = am[2]
       \/ at[am[1]] = "module"
       \/ at[am[1]] \in {"returned", "done"} /\ am[2] = NModules
    /\ \A b \in runnable : b > am[1] => at[b] = "idle"

CutIsLast == \A am \in cut : LeftAt(am)

OneCut == \A am, bm \in cut : am = bm

RunnerIInv ==
    /\ RunnerTypeOK
    /\ Positions
    /\ ListsAreOwn
    /\ InOrder
    /\ ModesDiffer
    /\ EngagementIsWhatModulesReturned
    /\ DoneWhenComplete
    /\ StoredIsOld
    /\ FeedIsHeld
    /\ CutStops
    /\ CutIsLast
    /\ OneCut

-----------------------------------------------------------------------------
(***************************************************************************)
(* Adding findings counts each of them once more and leaves the others.    *)
(***************************************************************************)
LEMMA AddFindingsCounts ==
    ASSUME NEW e \in [Finding -> Nat], NEW fs
    PROVE  /\ AddFindings(e, fs) \in [Finding -> Nat]
           /\ \A f \in Finding :
                 AddFindings(e, fs)[f] = IF f \in fs THEN e[f] + 1 ELSE e[f]
BY DEF AddFindings

(***************************************************************************)
(* A finding names its asset, module and unit, and they it.                *)
(***************************************************************************)
LEMMA FindingShape ==
    /\ \A f \in Finding : f[1] \in Assets /\ f[2] \in Modules /\ f[3] \in Units
    /\ \A a \in Assets, m \in Modules, u \in Units : <<a, m, u>> \in Finding
BY DEF Finding

(***************************************************************************)
(* Assets and modules are numbers, and the module after a module is one or *)
(* the place behind the last.                                              *)
(***************************************************************************)
LEMMA Numbering ==
    /\ NModules \in Nat /\ NUnits \in Nat
    /\ \A a \in Assets : a \in Nat
    /\ \A m \in Modules : /\ m \in Nat /\ m <= NModules
                          /\ m \in 1..NModules + 1 /\ m + 1 \in 1..NModules + 1
    /\ \A m \in 1..NModules + 1 : m \in Nat /\ (m \in Modules \/ m = NModules + 1)
    /\ \A u \in 1..NUnits + 1 :
          u \in Nat /\ (u <= NUnits => u \in Units /\ u + 1 \in 1..NUnits + 1)
    /\ 1 \in 1..NUnits + 1 /\ 1 \in 1..NModules + 1
    /\ NModules # 0 => 1 \in Modules /\ NModules \in Modules
BY RunnerAssumption DEF Assets, Modules, Units

(***************************************************************************)
(* The initial states satisfy the invariant.                               *)
(***************************************************************************)
LEMMA RunnerInitIInv == RunnerInit => RunnerIInv
<1> SUFFICES ASSUME RunnerInit PROVE RunnerIInv
  OBVIOUS
<1> USE Numbering DEF RunnerInit
<1>1. RunnerTypeOK
  BY DEF RunnerTypeOK, Labels
<1>2. Positions /\ ListsAreOwn /\ InOrder /\ ModesDiffer
  BY DEF Positions, ListsAreOwn, InOrder, ModesDiffer, Working
<1>3. EngagementIsWhatModulesReturned
  BY DEF EngagementIsWhatModulesReturned, Kept
<1>4. DoneWhenComplete /\ StoredIsOld /\ FeedIsHeld /\ CutStops /\ CutIsLast /\ OneCut
  BY DEF DoneWhenComplete, StoredIsOld, FeedIsHeld, CutStops, CutIsLast, OneCut
<1> QED
  BY <1>1, <1>2, <1>3, <1>4 DEF RunnerIInv

(***************************************************************************)
(* Whoever still passes a checkpoint finds nothing cut short.              *)
(***************************************************************************)
LEMMA NothingCutBefore == ASSUME RunnerIInv, Passes PROVE cut = {}
BY DEF RunnerIInv, CutStops, ModesDiffer, Passes

\* Nor does one who is inside a module of a run that goes on.
LEMMA NothingCutInside ==
    ASSUME RunnerIInv, NEW a \in Assets,
           \/ at[a] = "units"
           \/ at[a] = "validate" /\ phase = "running"
    PROVE  cut = {}
BY DEF RunnerIInv, CutStops

(***************************************************************************)
(* While a controlled run is inside an asset, the runnable ones before it  *)
(* are done and those behind it have not started.                          *)
(***************************************************************************)
LEMMA OthersWait ==
    ASSUME RunnerIInv, Controlled, NEW a \in Assets, at[a] \notin {"idle", "done"},
           NEW b \in Assets, b # a, b \in runnable
    PROVE  at[b] = IF b < a THEN "done" ELSE "idle"
<1>1. a \in runnable /\ a \in Nat /\ b \in Nat
  BY Numbering DEF RunnerIInv, Positions
<1> QED
  BY <1>1 DEF RunnerIInv, InOrder

\* A stop is requested: only later checkpoints see it.
LEMMA RequestCancelKeeps ==
    ASSUME RunnerIInv, RequestCancel
    PROVE  RunnerIInv'
<1> USE Numbering DEF RunnerIInv, RequestCancel, job, Move, Passes, Controlled
<1>1. RunnerTypeOK'
  BY DEF RunnerTypeOK
<1>2. Positions'
  BY DEF Positions
<1>3. ListsAreOwn'
  BY DEF ListsAreOwn
<1>4. InOrder'
  BY DEF InOrder
<1>5. ModesDiffer'
  BY DEF ModesDiffer
<1>6. EngagementIsWhatModulesReturned'
  BY DEF EngagementIsWhatModulesReturned, Kept
<1>7. DoneWhenComplete'
  BY DEF DoneWhenComplete
<1>8. StoredIsOld'
  BY DEF StoredIsOld
<1>9. FeedIsHeld'
  <2> SUFFICES ASSUME NEW f \in feed' PROVE Held(f)'
    BY DEF FeedIsHeld
  <2>1. f \in feed /\ f \in Finding /\ f[1] \in Assets /\ Held(f)
    BY FindingShape DEF FeedIsHeld, RunnerTypeOK
  <2> QED
    BY <2>1 DEF Held, RunnerTypeOK, Labels
<1>10. CutStops'
  BY DEF CutStops
<1>11. CutIsLast'
  BY DEF CutIsLast, LeftAt
<1>12. OneCut'
  BY DEF OneCut
<1> QED
  BY <1>1, <1>2, <1>3, <1>4, <1>5, <1>6, <1>7, <1>8, <1>9, <1>10, <1>11, <1>12

\* An asset starts, the next in line or a free worker's.
LEMMA StartAssetKeeps ==
    ASSUME RunnerIInv, NEW a \in Assets, StartAsset(a)
    PROVE  RunnerIInv'
<1>c. cut = {}
  BY NothingCutBefore DEF StartAsset
<1> USE Numbering DEF RunnerIInv, StartAsset, job, Move, Passes, Controlled
<1>1. RunnerTypeOK'
  BY DEF RunnerTypeOK, Labels
<1>2. Positions'
  <2>1. a \in runnable /\ at[a] = "idle" /\ module[a] = 1
    BY DEF MayStart, Positions
  <2>2. NModules = 0 => module[a] = NModules + 1
    BY <2>1
  <2>3. NModules # 0 => module[a] \in Modules
    BY <2>1
  <2> QED
    BY <2>1, <2>2, <2>3 DEF Positions, Working, RunnerTypeOK
<1>3. ListsAreOwn'
  BY DEF ListsAreOwn
<1>4. InOrder'
  BY DEF InOrder, MayStart
<1>5. ModesDiffer'
  BY DEF ModesDiffer
<1>6. EngagementIsWhatModulesReturned'
  BY DEF EngagementIsWhatModulesReturned, Kept, Ended
<1>7. DoneWhenComplete'
  BY DEF DoneWhenComplete, MayStart
<1>8. StoredIsOld'
  BY DEF StoredIsOld
<1>9. FeedIsHeld'
  <2> SUFFICES ASSUME NEW f \in feed' PROVE Held(f)'
    BY DEF FeedIsHeld
  <2>1. f \in feed /\ f \in Finding /\ f[1] \in Assets /\ Held(f)
    BY FindingShape DEF FeedIsHeld, RunnerTypeOK
  <2> QED
    BY <2>1 DEF Held, RunnerTypeOK, Labels, MayStart
<1>10. CutStops' /\ CutIsLast' /\ OneCut'
  BY <1>c DEF CutStops, CutIsLast, OneCut
<1> QED
  BY <1>1, <1>2, <1>3, <1>4, <1>5, <1>6, <1>7, <1>8, <1>9, <1>10

\* The checkpoints before discover, and discover.
LEMMA DiscoverKeeps ==
    ASSUME RunnerIInv, NEW a \in Assets, Discover(a)
    PROVE  RunnerIInv'
<1>c. cut = {}
  BY NothingCutBefore DEF Discover
<1> USE Numbering DEF RunnerIInv, Discover, job, Move, Passes, Controlled
<1>1. RunnerTypeOK'
  BY DEF RunnerTypeOK, Labels
<1>2. Positions' /\ ListsAreOwn' /\ InOrder'
  BY DEF Positions, ListsAreOwn, InOrder, Working
<1>3. ModesDiffer'
  BY DEF ModesDiffer
<1>4. EngagementIsWhatModulesReturned'
  BY DEF EngagementIsWhatModulesReturned, Kept, Ended
<1>5. DoneWhenComplete'
  BY DEF DoneWhenComplete, AllDone
<1>6. StoredIsOld'
  BY DEF StoredIsOld
<1>7. FeedIsHeld'
  <2> SUFFICES ASSUME NEW f \in feed' PROVE Held(f)'
    BY DEF FeedIsHeld
  <2>1. f \in feed /\ f \in Finding /\ f[1] \in Assets /\ Held(f)
    BY FindingShape DEF FeedIsHeld, RunnerTypeOK
  <2> QED
    BY <2>1 DEF Held, RunnerTypeOK, Labels
<1>8. CutStops' /\ CutIsLast' /\ OneCut'
  BY <1>c DEF CutStops, CutIsLast, OneCut
<1> QED
  BY <1>1, <1>2, <1>3, <1>4, <1>5, <1>6, <1>7, <1>8

\* A module opens an empty list.
LEMMA EnterAssessKeeps ==
    ASSUME RunnerIInv, NEW a \in Assets, EnterAssess(a)
    PROVE  RunnerIInv'
<1>c. cut = {}
  BY NothingCutBefore DEF EnterAssess
<1> USE Numbering DEF RunnerIInv, EnterAssess, job, Move, Passes, Controlled
<1>1. RunnerTypeOK'
  BY DEF RunnerTypeOK, Labels
<1>2. Positions'
  BY DEF Positions, Working
<1>3. ListsAreOwn'
  BY DEF ListsAreOwn, RunnerTypeOK
<1>4. InOrder'
  BY DEF InOrder
<1>5. ModesDiffer'
  BY DEF ModesDiffer
<1>6. EngagementIsWhatModulesReturned'
  BY DEF EngagementIsWhatModulesReturned, Kept, Ended
<1>7. DoneWhenComplete'
  BY DEF DoneWhenComplete, AllDone
<1>8. StoredIsOld'
  BY DEF StoredIsOld
<1>9. FeedIsHeld'
  <2> SUFFICES ASSUME NEW f \in feed' PROVE Held(f)'
    BY DEF FeedIsHeld
  <2>1. f \in feed /\ f \in Finding /\ f[1] \in Assets /\ Held(f)
    BY FindingShape DEF FeedIsHeld, RunnerTypeOK
  <2> QED
    BY <2>1 DEF Held, RunnerTypeOK, Labels
<1>10. CutStops' /\ CutIsLast' /\ OneCut'
  BY <1>c DEF CutStops, CutIsLast, OneCut
<1> QED
  BY <1>1, <1>2, <1>3, <1>4, <1>5, <1>6, <1>7, <1>8, <1>9, <1>10

\* A unit adds what it finds to the list and the feed.
LEMMA RunUnitKeeps ==
    ASSUME RunnerIInv, NEW a \in Assets, RunUnit(a)
    PROVE  RunnerIInv'
<1>c. cut = {}
  BY NothingCutInside DEF RunUnit
<1> USE Numbering DEF RunnerIInv, RunUnit, job, Move, Passes, Controlled
<1>1. RunnerTypeOK'
  <2>1. PICK found \in SUBSET {<<a, module[a], unit[a]>>} :
           /\ findings' = [findings EXCEPT ![a] = @ \union found]
           /\ feed' \in {feed, feed \union found}
    OBVIOUS
  <2>2. module[a] \in Modules /\ unit[a] \in Units
    BY DEF Positions, Working, RunnerTypeOK
  <2>3. found \subseteq Finding
    BY <2>2, FindingShape
  <2> QED
    BY <2>1, <2>3 DEF RunnerTypeOK
<1>2. Positions'
  BY DEF Positions
<1>3. ListsAreOwn'
  BY DEF ListsAreOwn
<1>4. InOrder'
  BY DEF InOrder
<1>5. ModesDiffer'
  BY DEF ModesDiffer
<1>6. EngagementIsWhatModulesReturned'
  BY DEF EngagementIsWhatModulesReturned, Kept, Ended
<1>7. DoneWhenComplete'
  BY DEF DoneWhenComplete, AllDone
<1>8. StoredIsOld'
  BY DEF StoredIsOld
<1>9. FeedIsHeld'
  <2> SUFFICES ASSUME NEW f \in feed' PROVE Held(f)'
    BY DEF FeedIsHeld
  <2>1. \/ f \in feed /\ f \in Finding /\ f[1] \in Assets /\ Held(f)
        \/ f = <<a, module[a], unit[a]>> /\ f \in findings'[a]
    <3>1. PICK found \in SUBSET {<<a, module[a], unit[a]>>} :
             /\ findings' = [findings EXCEPT ![a] = @ \union found]
             /\ feed' \in {feed, feed \union found}
      OBVIOUS
    <3>2. CASE f \in feed
      BY <3>2, FindingShape DEF FeedIsHeld, RunnerTypeOK
    <3>3. CASE f \in found
      BY <3>1, <3>3 DEF RunnerTypeOK
    <3> QED
      BY <3>1, <3>2, <3>3
  <2> QED
    BY <2>1 DEF Held, RunnerTypeOK, Labels
<1>10. CutStops' /\ CutIsLast' /\ OneCut'
  BY <1>c DEF CutStops, CutIsLast, OneCut
<1> QED
  BY <1>1, <1>2, <1>3, <1>4, <1>5, <1>6, <1>7, <1>8, <1>9, <1>10

\* The list of a module that raises is dropped, and the module named.
LEMMA ToolRaisesKeeps ==
    ASSUME RunnerIInv, NEW a \in Assets, ToolRaises(a)
    PROVE  RunnerIInv'
<1>c. cut = {}
  BY NothingCutInside DEF ToolRaises
<1> USE Numbering DEF RunnerIInv, ToolRaises, job, Move, Passes, Controlled
<1>1. RunnerTypeOK'
  BY DEF RunnerTypeOK, Labels, Positions, Working, Abandon, Here
<1>2. Positions'
  BY DEF Positions, Working
<1>3. ListsAreOwn'
  BY DEF ListsAreOwn, Abandon
<1>4. InOrder'
  BY DEF InOrder
<1>5. ModesDiffer'
  BY DEF ModesDiffer
<1>6. EngagementIsWhatModulesReturned'
  BY DEF EngagementIsWhatModulesReturned, Kept, Ended
<1>7. DoneWhenComplete'
  BY DEF DoneWhenComplete, AllDone
<1>8. StoredIsOld'
  BY DEF StoredIsOld
<1>9. FeedIsHeld'
  <2> SUFFICES ASSUME NEW f \in feed' PROVE Held(f)'
    BY DEF FeedIsHeld
  <2>1. f \in feed /\ f \in Finding /\ f[1] \in Assets /\ Held(f)
    BY FindingShape DEF FeedIsHeld, RunnerTypeOK
  <2> QED
    BY <2>1 DEF Held, RunnerTypeOK, Labels, IsNative, Abandon, Here
<1>10. CutStops' /\ CutIsLast' /\ OneCut'
  BY <1>c DEF CutStops, CutIsLast, OneCut
<1> QED
  BY <1>1, <1>2, <1>3, <1>4, <1>5, <1>6, <1>7, <1>8, <1>9, <1>10

\* So is the list of the module a cancellation meets; nothing was cut before,
\* and nothing will be cut behind it.
LEMMA CancelledInAssessKeeps ==
    ASSUME RunnerIInv, NEW a \in Assets, CancelledInAssess(a)
    PROVE  RunnerIInv'
<1>c. cut = {}
  BY NothingCutInside DEF CancelledInAssess
<1> USE Numbering DEF RunnerIInv, CancelledInAssess, job, Move, Passes, Controlled
<1>1. RunnerTypeOK'
  BY DEF RunnerTypeOK, Labels, Positions, Working, Abandon, Here
<1>2. Positions'
  BY DEF Positions, Working
<1>3. ListsAreOwn'
  BY DEF ListsAreOwn, Abandon
<1>4. InOrder'
  BY DEF InOrder
<1>5. ModesDiffer'
  BY DEF ModesDiffer
<1>6. EngagementIsWhatModulesReturned'
  BY DEF EngagementIsWhatModulesReturned, Kept
<1>7. DoneWhenComplete'
  BY DEF DoneWhenComplete, AllDone
<1>8. StoredIsOld'
  BY DEF StoredIsOld
<1>9. FeedIsHeld'
  <2> SUFFICES ASSUME NEW f \in feed' PROVE Held(f)'
    BY DEF FeedIsHeld
  <2>1. f \in feed /\ f \in Finding /\ f[1] \in Assets /\ Held(f)
    BY FindingShape DEF FeedIsHeld, RunnerTypeOK
  <2> QED
    BY <2>1 DEF Held, RunnerTypeOK, Labels, IsNative, Abandon, Here
<1>10. CutStops' /\ CutIsLast' /\ OneCut'
  <2>1. Controlled /\ cancel /\ cut' = {<<a, module[a]>>}
    BY <1>c DEF Here
  <2>2. \A b \in Assets : b # a => at'[b] = at[b] /\ at[b] \in {"idle", "done"}
    BY <2>1, OthersWait DEF Positions
  <2>3. \A b \in runnable : b > a => at'[b] = "idle"
    BY <2>1, OthersWait DEF RunnerTypeOK
  <2>4. at'[a] = "return" /\ module'[a] = module[a]
    BY DEF RunnerTypeOK
  <2> QED
    BY <2>1, <2>2, <2>3, <2>4 DEF CutStops, CutIsLast, LeftAt, OneCut
<1> QED
  BY <1>1, <1>2, <1>3, <1>4, <1>5, <1>6, <1>7, <1>8, <1>9, <1>10

\* The module goes on to validate, or returns nothing.
LEMMA EndAssessKeeps ==
    ASSUME RunnerIInv, NEW a \in Assets, EndAssess(a)
    PROVE  RunnerIInv'
<1> USE Numbering DEF RunnerIInv, EndAssess, job, Move, Passes, Controlled
<1>1. RunnerTypeOK'
  BY DEF RunnerTypeOK, Labels
<1>2. Positions'
  BY DEF Positions, Working
<1>3. ListsAreOwn'
  BY DEF ListsAreOwn
<1>4. InOrder'
  BY DEF InOrder
<1>5. ModesDiffer'
  BY DEF ModesDiffer
<1>6. EngagementIsWhatModulesReturned'
  BY DEF EngagementIsWhatModulesReturned, Kept, Ended
<1>7. DoneWhenComplete'
  BY DEF DoneWhenComplete, AllDone
<1>8. StoredIsOld'
  BY DEF StoredIsOld
<1>9. FeedIsHeld'
  <2> SUFFICES ASSUME NEW f \in feed' PROVE Held(f)'
    BY DEF FeedIsHeld
  <2>1. f \in feed /\ f \in Finding /\ f[1] \in Assets /\ Held(f)
    BY FindingShape DEF FeedIsHeld, RunnerTypeOK
  <2> QED
    BY <2>1 DEF Held, RunnerTypeOK, Labels
<1>10. CutStops'
  BY DEF CutStops
<1>11. CutIsLast'
  BY DEF CutIsLast, LeftAt
<1>12. OneCut'
  BY DEF OneCut
<1> QED
  BY <1>1, <1>2, <1>3, <1>4, <1>5, <1>6, <1>7, <1>8, <1>9, <1>10, <1>11, <1>12

\* The findings are validated.
LEMMA ValidateKeeps ==
    ASSUME RunnerIInv, NEW a \in Assets, Validate(a)
    PROVE  RunnerIInv'
<1>c. cut = {}
  BY NothingCutBefore DEF Validate
<1> USE Numbering DEF RunnerIInv, Validate, job, Move, Passes, Controlled
<1>1. RunnerTypeOK'
  BY DEF RunnerTypeOK, Labels
<1>2. Positions'
  BY DEF Positions, Working
<1>3. ListsAreOwn'
  BY DEF ListsAreOwn
<1>4. InOrder'
  BY DEF InOrder
<1>5. ModesDiffer'
  BY DEF ModesDiffer
<1>6. EngagementIsWhatModulesReturned'
  BY DEF EngagementIsWhatModulesReturned, Kept, Ended
<1>7. DoneWhenComplete'
  BY DEF DoneWhenComplete, AllDone
<1>8. StoredIsOld'
  BY DEF StoredIsOld
<1>9. FeedIsHeld'
  <2> SUFFICES ASSUME NEW f \in feed' PROVE Held(f)'
    BY DEF FeedIsHeld
  <2>1. f \in feed /\ f \in Finding /\ f[1] \in Assets /\ Held(f)
    BY FindingShape DEF FeedIsHeld, RunnerTypeOK
  <2> QED
    BY <2>1 DEF Held, RunnerTypeOK, Labels
<1>10. CutStops' /\ CutIsLast' /\ OneCut'
  BY <1>c DEF CutStops, CutIsLast, OneCut
<1> QED
  BY <1>1, <1>2, <1>3, <1>4, <1>5, <1>6, <1>7, <1>8, <1>9, <1>10

\* The list moves to what the asset has collected, and in a controlled run to
\* the engagement: it holds findings nobody has counted yet.
LEMMA ReturnModuleKeeps ==
    ASSUME RunnerIInv, NEW a \in Assets, ReturnModule(a)
    PROVE  RunnerIInv'
<1> USE Numbering DEF RunnerIInv, ReturnModule, job, Move, Passes, Controlled
<1>g. /\ engagement' \in [Finding -> Nat] /\ stored' \in [Finding -> Nat]
      /\ \A f \in Finding : engagement'[f] >= engagement[f]
      /\ stored' \in {stored, engagement'}
  BY AddFindingsCounts DEF RunnerTypeOK, Stream, Persist
<1>1. RunnerTypeOK'
  BY <1>g DEF RunnerTypeOK, Positions, Working, Labels, ModuleAfter
<1>2. Positions'
  BY DEF Positions, Working, RunnerTypeOK, ModuleAfter
<1>3. ListsAreOwn'
  <2> SUFFICES ASSUME NEW b \in Assets
               PROVE  /\ \A f \in collected'[b] : f[1] = b /\ f[2] < module'[b]
                      /\ at'[b] \in {"units", "validate", "return"} =>
                            \A f \in findings'[b] : f[1] = b /\ f[2] = module'[b]
    BY DEF ListsAreOwn
  <2>1. CASE b # a
    BY <2>1 DEF ListsAreOwn, RunnerTypeOK
  <2>2. CASE b = a
    <3>1. module[a] \in Nat /\ module'[a] = module[a] + 1
      BY DEF RunnerTypeOK
    <3>2. \A f \in findings[a] : f[1] = a /\ f[2] = module[a]
      BY DEF ListsAreOwn
    <3>3. \A f \in collected[a] : f \in Finding /\ f[1] = a /\ f[2] < module[a] /\ f[2] \in Nat
      BY FindingShape DEF ListsAreOwn, RunnerTypeOK
    <3>4. collected'[a] = collected[a] \union findings[a] /\ at'[a] \in {"module", "returned"}
      BY DEF RunnerTypeOK, ModuleAfter
    <3> QED
      BY <2>2, <3>1, <3>2, <3>3, <3>4
  <2> QED
    BY <2>1, <2>2
<1>4. InOrder'
  BY DEF InOrder
<1>5. ModesDiffer'
  BY DEF ModesDiffer, Stream
<1>6. EngagementIsWhatModulesReturned'
  <2>1. Kept' = Kept \union findings[a]
    BY DEF Kept, RunnerTypeOK
  <2>2. \A f \in findings[a] : f \notin Kept
    <3> SUFFICES ASSUME NEW f \in findings[a], NEW b \in Assets, f \in collected[b]
                 PROVE  FALSE
      BY DEF Kept
    <3>1. f[1] = a /\ f[2] = module[a] /\ f[1] = b /\ f[2] < module[b] /\ f[2] \in Nat
      BY FindingShape DEF ListsAreOwn, RunnerTypeOK
    <3> QED
      BY <3>1
  <2>3. ~Controlled => ~Ended
    <3>1. a \in runnable /\ at[a] # "done"
      BY DEF Positions
    <3>2. phase = "cancelled" => Controlled
      BY DEF ModesDiffer
    <3> QED
      BY <3>1, <3>2 DEF Ended, DoneWhenComplete, AllDone, RunnerTypeOK
  <2>4. Controlled =>
           \A f \in Finding : engagement'[f] = IF f \in findings[a] THEN engagement[f] + 1
                                                                ELSE engagement[f]
    BY AddFindingsCounts DEF Stream, RunnerTypeOK
  <2> QED
    BY <2>1, <2>2, <2>3, <2>4 DEF EngagementIsWhatModulesReturned, Ended
<1>7. DoneWhenComplete'
  BY DEF DoneWhenComplete, AllDone
<1>8. StoredIsOld'
  BY <1>g DEF StoredIsOld, RunnerTypeOK
<1>9. FeedIsHeld'
  <2> SUFFICES ASSUME NEW f \in feed' PROVE Held(f)'
    BY DEF FeedIsHeld
  <2>1. f \in feed /\ f \in Finding /\ f[1] \in Assets /\ Held(f)
    BY FindingShape DEF FeedIsHeld, RunnerTypeOK
  <2>2. CASE f \in findings[a] /\ Controlled
    <3>1. engagement'[f] = engagement[f] + 1
      BY <2>1, <2>2, AddFindingsCounts DEF Stream, RunnerTypeOK
    <3> QED
      BY <2>1, <3>1 DEF Held, RunnerTypeOK
  <2>3. CASE f \notin findings[a] /\ Controlled
    BY <1>g, <2>1, <2>3 DEF Held, RunnerTypeOK
  <2>4. CASE ~Controlled
    BY <2>1, <2>4 DEF ModesDiffer
  <2> QED
    BY <2>2, <2>3, <2>4
<1>10. CutStops'
  BY DEF CutStops, ModuleAfter
<1>11. CutIsLast'
  BY DEF CutIsLast, LeftAt, RunnerTypeOK, ModuleAfter
<1>12. OneCut'
  BY DEF OneCut
<1> QED
  BY <1>1, <1>2, <1>3, <1>4, <1>5, <1>6, <1>7, <1>8, <1>9, <1>10, <1>11, <1>12

\* A controlled run adds nothing when an asset returns, and saves once more.
LEMMA ReturnAssetKeeps ==
    ASSUME RunnerIInv, NEW a \in Assets, ReturnAsset(a)
    PROVE  RunnerIInv'
<1> USE Numbering DEF RunnerIInv, ReturnAsset, job, Move, Passes, Controlled
<1>g. /\ engagement' \in [Finding -> Nat] /\ stored' \in [Finding -> Nat]
      /\ \A f \in Finding : engagement'[f] >= engagement[f]
      /\ stored' \in {stored, engagement'}
  BY AddFindingsCounts DEF RunnerTypeOK, Persist
<1>1. RunnerTypeOK'
  BY <1>g DEF RunnerTypeOK, Positions, Working, Labels, ModuleAfter
<1>2. Positions'
  BY DEF Positions, Working
<1>3. ListsAreOwn'
  BY DEF ListsAreOwn
<1>4. InOrder'
  BY DEF InOrder
<1>5. ModesDiffer'
  BY DEF ModesDiffer
<1>6. EngagementIsWhatModulesReturned'
  <2>1. Kept' = Kept
    BY DEF Kept
  <2>2. ~Controlled => ~Ended
    <3>1. a \in runnable /\ at[a] # "done"
      BY DEF Positions
    <3>2. phase = "cancelled" => Controlled
      BY DEF ModesDiffer
    <3> QED
      BY <3>1, <3>2 DEF Ended, DoneWhenComplete, AllDone, RunnerTypeOK
  <2>3. Controlled => \A f \in Finding : engagement'[f] = engagement[f]
    BY AddFindingsCounts DEF Result, RunnerTypeOK
  <2> QED
    BY <2>1, <2>2, <2>3 DEF EngagementIsWhatModulesReturned, Ended
<1>7. DoneWhenComplete'
  BY DEF DoneWhenComplete, AllDone
<1>8. StoredIsOld'
  BY <1>g DEF StoredIsOld, RunnerTypeOK
<1>9. FeedIsHeld'
  <2> SUFFICES ASSUME NEW f \in feed' PROVE Held(f)'
    BY DEF FeedIsHeld
  <2>1. f \in feed /\ f \in Finding /\ f[1] \in Assets /\ Held(f)
    BY FindingShape DEF FeedIsHeld, RunnerTypeOK
  <2> QED
    BY <1>g, <2>1 DEF Held, RunnerTypeOK, Labels, Result, Persist
<1>10. CutStops'
  BY DEF CutStops
<1>11. CutIsLast'
  BY DEF CutIsLast, LeftAt
<1>12. OneCut'
  BY DEF OneCut
<1> QED
  BY <1>1, <1>2, <1>3, <1>4, <1>5, <1>6, <1>7, <1>8, <1>9, <1>10, <1>11, <1>12

\* The run ends at an outer checkpoint; what it cuts short there is the first.
LEMMA BreakOutKeeps ==
    ASSUME RunnerIInv, NEW a \in Assets, BreakOut(a)
    PROVE  RunnerIInv'
<1>c. at[a] = "validate" => cut = {}
  BY NothingCutInside DEF BreakOut
<1> USE Numbering DEF RunnerIInv, BreakOut, job, Move, Passes, Controlled
<1>1. RunnerTypeOK'
  BY DEF RunnerTypeOK, Positions, Working, Here
<1>2. Positions'
  BY DEF Positions
<1>3. ListsAreOwn'
  BY DEF ListsAreOwn
<1>4. InOrder'
  BY DEF InOrder
<1>5. ModesDiffer'
  BY DEF ModesDiffer
<1>6. EngagementIsWhatModulesReturned'
  BY DEF EngagementIsWhatModulesReturned, Kept
<1>7. DoneWhenComplete'
  BY DEF DoneWhenComplete
<1>8. StoredIsOld'
  BY DEF StoredIsOld
<1>9. FeedIsHeld'
  <2> SUFFICES ASSUME NEW f \in feed' PROVE Held(f)'
    BY DEF FeedIsHeld
  <2>1. f \in feed /\ f \in Finding /\ f[1] \in Assets /\ Held(f)
    BY FindingShape DEF FeedIsHeld, RunnerTypeOK
  <2> QED
    BY <2>1 DEF Held, RunnerTypeOK, Labels, AtOuterCheckpoint, MayStart, Here
<1>d. Controlled /\ cancel
  OBVIOUS
<1>10. CutStops' /\ CutIsLast' /\ OneCut'
  <2>1. CASE at[a] = "validate"
    <3>1. cut' = {<<a, module[a]>>}
      BY <2>1, <1>c DEF Here
    <3>2. \A b \in Assets : b # a => at[b] \in {"idle", "done"}
      BY <1>d, <2>1, OthersWait DEF Positions
    <3>3. \A b \in runnable : b > a => at[b] = "idle"
      BY <1>d, <2>1, OthersWait, Numbering DEF RunnerTypeOK
    <3> QED
      BY <1>d, <2>1, <3>1, <3>2, <3>3 DEF CutStops, CutIsLast, LeftAt, OneCut
  <2>2. CASE at[a] # "validate"
    BY <2>2 DEF CutStops, CutIsLast, LeftAt, OneCut
  <2> QED
    BY <2>1, <2>2
<1> QED
  BY <1>1, <1>2, <1>3, <1>4, <1>5, <1>6, <1>7, <1>8, <1>9, <1>10

\* The run is complete: a queue's engagement is what its jobs collected.
LEMMA CompleteKeeps ==
    ASSUME RunnerIInv, Complete
    PROVE  RunnerIInv'
<1> USE Numbering DEF RunnerIInv, Complete, job, Move, Passes, Controlled
<1>g. /\ engagement' \in [Finding -> Nat] /\ stored' \in [Finding -> Nat]
      /\ \A f \in Finding : engagement'[f] >= engagement[f]
      /\ stored' \in {stored, engagement'}
  BY AddFindingsCounts DEF RunnerTypeOK
<1>1. RunnerTypeOK'
  BY <1>g DEF RunnerTypeOK, Positions, Working, Labels, ModuleAfter
<1>2. Positions'
  BY DEF Positions
<1>3. ListsAreOwn'
  BY DEF ListsAreOwn
<1>4. InOrder'
  BY DEF InOrder
<1>5. ModesDiffer'
  BY DEF ModesDiffer
<1>6. EngagementIsWhatModulesReturned'
  <2>1. Kept' = Kept
    BY DEF Kept
  <2>2. CASE Controlled
    BY <2>1, <2>2 DEF EngagementIsWhatModulesReturned
  <2>3. CASE ~Controlled
    <3>1. \A f : f \in Kept <=> f \in UNION {collected[a] : a \in runnable}
      BY DEF Kept, Positions, RunnerTypeOK
    <3>2. \A f \in Finding : engagement[f] = 0
      BY <2>3 DEF ModesDiffer
    <3>3. engagement' = AddFindings(engagement, UNION {collected[a] : a \in runnable})
      BY <2>3 DEF Result
    <3> QED
      BY <2>1, <3>1, <3>2, <3>3, AddFindingsCounts DEF EngagementIsWhatModulesReturned, RunnerTypeOK
  <2> QED
    BY <2>2, <2>3
<1>7. DoneWhenComplete'
  BY DEF DoneWhenComplete, AllDone
<1>8. StoredIsOld'
  BY <1>g DEF StoredIsOld, RunnerTypeOK
<1>9. FeedIsHeld'
  <2> SUFFICES ASSUME NEW f \in feed' PROVE Held(f)'
    BY DEF FeedIsHeld
  <2>1. f \in feed /\ f \in Finding /\ f[1] \in Assets /\ Held(f)
    BY FindingShape DEF FeedIsHeld, RunnerTypeOK
  <2> QED
    BY <1>g, <2>1 DEF Held, RunnerTypeOK, Labels, AllDone, Result
<1>10. CutStops'
  BY DEF CutStops
<1>11. CutIsLast'
  BY DEF CutIsLast, LeftAt
<1>12. OneCut'
  BY DEF OneCut
<1> QED
  BY <1>1, <1>2, <1>3, <1>4, <1>5, <1>6, <1>7, <1>8, <1>9, <1>10, <1>11, <1>12

(***************************************************************************)
(* Every step of the runner keeps the invariant.                           *)
(***************************************************************************)
LEMMA RunnerNextIInv == RunnerIInv /\ [RunnerNext]_runnerVars => RunnerIInv'
<1> SUFFICES ASSUME RunnerIInv, [RunnerNext]_runnerVars PROVE RunnerIInv'
  OBVIOUS
<1>1. CASE RequestCancel
  BY <1>1, RequestCancelKeeps
<1>2. CASE Complete
  BY <1>2, CompleteKeeps
<1>3. ASSUME NEW a \in Assets, Work(a) PROVE RunnerIInv'
  <2>1. CASE StartAsset(a) \/ Discover(a) \/ EnterAssess(a)
    BY <2>1, StartAssetKeeps, DiscoverKeeps, EnterAssessKeeps
  <2>2. CASE RunUnit(a) \/ ToolRaises(a) \/ CancelledInAssess(a) \/ EndAssess(a)
    BY <2>2, RunUnitKeeps, ToolRaisesKeeps, CancelledInAssessKeeps, EndAssessKeeps
  <2>3. CASE Validate(a) \/ ReturnModule(a) \/ ReturnAsset(a) \/ BreakOut(a)
    BY <2>3, ValidateKeeps, ReturnModuleKeeps, ReturnAssetKeeps, BreakOutKeeps
  <2> QED
    BY <1>3, <2>1, <2>2, <2>3 DEF Work
<1>4. CASE UNCHANGED runnerVars
  BY <1>4 DEF runnerVars, job, RunnerIInv, RunnerTypeOK, Positions, ListsAreOwn, InOrder,
              ModesDiffer, EngagementIsWhatModulesReturned, Kept, Ended, DoneWhenComplete,
              AllDone, StoredIsOld, FeedIsHeld, Held, CutStops, CutIsLast, LeftAt, OneCut,
              Controlled
<1> QED
  BY <1>1, <1>2, <1>3, <1>4 DEF RunnerNext

\* The inductive invariant holds in every reachable state.
THEOREM RunnerInvariance == RunnerSpec => []RunnerIInv
BY RunnerInitIInv, RunnerNextIInv, PTL DEF RunnerSpec

(***************************************************************************)
(* Every variable of a run keeps its type.                                 *)
(***************************************************************************)
THEOREM RunnerTypeCorrect == RunnerSpec => []RunnerTypeOK
BY RunnerInvariance, PTL DEF RunnerIInv

(***************************************************************************)
(* However many assets, modules and units there are and wherever a stop,   *)
(* a raised exception or a failed save falls, the engagement of a run      *)
(* holds what its modules returned, each finding's evidence once.          *)
(***************************************************************************)
THEOREM EngagementIsExact == RunnerSpec => []EngagementIsWhatModulesReturned
BY RunnerInvariance, PTL DEF RunnerIInv

(***************************************************************************)
(* The invariant gives the three parts of LossIsContained: no two modules  *)
(* are cut short, what the feed showed is held somewhere, and a run that   *)
(* calls itself complete left no module out.                               *)
(***************************************************************************)
LEMMA LossFollows == RunnerIInv => LossIsContained
<1> SUFFICES ASSUME RunnerIInv PROVE LossIsContained
  OBVIOUS
<1> USE DEF RunnerIInv
<1>1. Cardinality(cut) <= 1
  <2>1. CASE cut = {}
    BY <2>1, FS_EmptySet
  <2>2. CASE cut # {}
    <3>1. PICK am \in cut : TRUE
      BY <2>2
    <3>2. cut = {am}
      BY <3>1 DEF OneCut
    <3>3. Cardinality({am}) = 1
      BY FS_Singleton, Zenon
    <3> QED
      BY <3>2, <3>3
  <2> QED
    BY <2>1, <2>2
<1>2. ASSUME NEW f \in feed
      PROVE  \/ engagement[f] > 0
             \/ <<f[1], f[2]>> \in raised \union cut
             \/ module[f[1]] = f[2] /\ at[f[1]] # "done"
  BY DEF FeedIsHeld, Held
<1>3. ASSUME phase = "complete"
      PROVE  /\ \A a \in runnable : NModules > 0 => module[a] = NModules + 1
             /\ \A am \in cut : am[2] = NModules /\ \A b \in runnable : b <= am[1]
  <2>1. \A a \in runnable : a \in Assets /\ a \in Nat /\ at[a] = "done"
    BY <1>3, Numbering DEF DoneWhenComplete, AllDone, RunnerTypeOK
  <2>2. \A a \in runnable : module[a] = NModules + 1
    BY <2>1 DEF Positions
  <2>3. ASSUME NEW am \in cut
        PROVE  am[2] = NModules /\ \A b \in runnable : b <= am[1]
    <3>1. am[1] \in Assets /\ am[1] \in Nat
      BY Numbering DEF RunnerTypeOK
    <3>2. LeftAt(am)
      BY DEF CutIsLast
    <3>3. \A b \in runnable : b <= am[1]
      BY <2>1, <3>1, <3>2 DEF LeftAt
    <3>4. am[1] \in runnable
      BY <3>1, <3>2 DEF LeftAt, Positions
    <3>5. at[am[1]] = "done"
      BY <2>1, <3>4
    <3>6. am[2] = NModules
      BY <3>2, <3>5 DEF LeftAt
    <3> QED
      BY <3>3, <3>6
  <2> QED
    BY <2>2, <2>3
<1> QED
  BY <1>1, <1>2, <1>3 DEF LossIsContained

(***************************************************************************)
(* A finding the user has seen in the live feed is lost only with the one  *)
(* module a cancellation met or with a module that raised.                 *)
(***************************************************************************)
THEOREM LossIsOfOneModule == RunnerSpec => []LossIsContained
BY RunnerInvariance, LossFollows, PTL

(***************************************************************************)
(* What is saved while a run works is never ahead of its engagement and is *)
(* never taken back, in either mode and whichever saves fail.              *)
(***************************************************************************)
THEOREM SavedOnlyGrows == RunnerSpec => SavedResultsOnlyGrow
<1>1. RunnerIInv /\ RunnerIInv' /\ [RunnerNext]_runnerVars =>
        [\A f \in Finding : /\ stored'[f] <= engagement'[f]
                            /\ stored'[f] >= stored[f]]_runnerVars
  <2> SUFFICES ASSUME RunnerIInv, RunnerIInv', RunnerNext
               PROVE  \A f \in Finding : /\ stored'[f] <= engagement'[f]
                                         /\ stored'[f] >= stored[f]
    OBVIOUS
  <2>1. \A f \in Finding : /\ stored[f] \in Nat /\ stored'[f] \in Nat
                           /\ engagement'[f] \in Nat
                           /\ stored[f] <= engagement[f] /\ stored'[f] <= engagement'[f]
    BY DEF RunnerIInv, RunnerTypeOK, StoredIsOld
  <2>2. stored' = stored \/ \A f \in Finding : stored'[f] >= engagement[f]
    <3>1. ASSUME NEW a \in Assets, ReturnModule(a) \/ ReturnAsset(a)
          PROVE  stored' = stored \/ \A f \in Finding : stored'[f] >= engagement[f]
      BY <3>1, AddFindingsCounts
         DEF ReturnModule, ReturnAsset, Stream, Persist, RunnerIInv, RunnerTypeOK
    <3>2. ASSUME NEW a \in Assets, Work(a), ~ReturnModule(a), ~ReturnAsset(a)
          PROVE  stored' = stored
      BY <3>2 DEF Work, StartAsset, Discover, EnterAssess, RunUnit, ToolRaises,
                  CancelledInAssess, EndAssess, Validate, BreakOut
    <3> QED
      BY <3>1, <3>2 DEF RunnerNext, RequestCancel, Complete
  <2> QED
    BY <2>1, <2>2 DEF RunnerIInv, RunnerTypeOK
<1> QED
  BY <1>1, RunnerInvariance, PTL DEF RunnerSpec, SavedResultsOnlyGrow

=============================================================================
