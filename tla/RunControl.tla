----------------------------- MODULE RunControl -----------------------------
(***************************************************************************)
(* One scan run under live control (pentestiq/core/runcontrol.py).         *)
(*                                                                         *)
(* The scanning thread calls check() at its checkpoints; HTTP handler      *)
(* threads pause, resume and stop it at any moment.  check() is not        *)
(* atomic: it tests the clock, may take the lock to expire the run, reads  *)
(* the state through the locked property, branches on that copy, sleeps on *)
(* the resume event and reads the state again when it wakes.  Each of      *)
(* those is a step here, and so are the two halves of every handler: the   *)
(* test that answers 409 and the call on the control.                      *)
(*                                                                         *)
(* The work between two checkpoints is one state of the scanning thread.   *)
(* "inner" checkpoints are those of CheckEngine.run and InjectionFuzzer,   *)
(* inside module.assess, whose ScanCancelled is caught by the              *)
(* `except Exception` of _run_module; "outer" ones are those of the        *)
(* workflow runner itself, whose ScanCancelled ends the run.               *)
(***************************************************************************)
EXTENDS RunControlState, Naturals

CONSTANT Callers        \* the HTTP handler threads

VARIABLES
    ctl,        \* the RunControl object
    late,       \* has the wall clock passed the time budget?
    pc,         \* where the scanning thread is
    where,      \* the checkpoint it is between: "outer" or "inner"
    st,         \* the thread's local copy of the state
    final,      \* the terminal status it computed ("none" before)
    call,       \* what each handler thread is about to call
    slip,       \* history: checkpoints passed since the run was last running
    owed        \* history: a user stop was accepted while the scan ran

scanner == <<pc, where, st, final>>
vars == <<ctl, late, pc, where, st, final, call, slip, owed>>

ScanPoints == {"scanning", "expire", "read", "branch", "waiting", "woken",
               "rebranch", "cancelled"}

SettlePoints == {"settle", "settleReason", "finish", "done"}

Operations == {"pause", "resume", "stop"}

TypeOK ==
    /\ ctl \in Control
    /\ late \in BOOLEAN
    /\ pc \in ScanPoints \union SettlePoints
    /\ where \in {"outer", "inner"}
    /\ st \in ControlStates
    /\ final \in FinalStates \union {"none"}
    /\ call \in [Callers -> Operations \union {"idle"}]
    /\ slip \in Nat
    /\ owed \in BOOLEAN

Init ==
    /\ ctl = NewControl
    /\ late = FALSE
    /\ pc = "scanning"
    /\ where = "outer"
    /\ st = "running"
    /\ final = "none"
    /\ call = [c \in Callers |-> "idle"]
    /\ slip = 0
    /\ owed = FALSE

-----------------------------------------------------------------------------
(***************************************************************************)
(* The wall clock: the budget runs out at some moment, or never.           *)
(***************************************************************************)
BudgetRunsOut ==
    /\ ~late
    /\ late' = TRUE
    /\ UNCHANGED <<ctl, scanner, call, slip, owed>>

-----------------------------------------------------------------------------
(***************************************************************************)
(* The scanning thread.                                                    *)
(***************************************************************************)
Goto(label) == pc' = label

\* Returning from check() without an exception.  After an outer checkpoint
\* the runner goes on to the next phase, which may be assess.
Pass ==
    /\ Goto("scanning")
    /\ where' \in IF where = "outer" THEN {"outer", "inner"} ELSE {"inner"}
    /\ slip' = IF ctl.state = "running" THEN 0 ELSE slip + 1

BeginCheck ==
    /\ pc = "scanning"
    /\ Goto(IF late THEN "expire" ELSE "read")
    /\ UNCHANGED <<ctl, late, where, st, final, call, slip, owed>>

ExpireRun ==
    /\ pc = "expire"
    /\ ctl' = Expired(ctl)
    /\ Goto("read")
    /\ UNCHANGED <<late, where, st, final, call, slip, owed>>

ReadState ==
    /\ pc = "read"
    /\ st' = ctl.state
    /\ Goto("branch")
    /\ UNCHANGED <<ctl, late, where, final, call, slip, owed>>

\* Seeded fault: a paused run is not made to wait.
BranchWithoutWaiting ==
    /\ pc = "branch"
    /\ \/ st = "stopping" /\ Goto("cancelled") /\ UNCHANGED <<where, slip>>
       \/ st # "stopping" /\ Pass
    /\ UNCHANGED <<ctl, late, st, final, call, owed>>

Branch ==
    /\ pc = "branch"
    /\ \/ st = "stopping" /\ Goto("cancelled") /\ UNCHANGED <<where, slip>>
       \/ st = "paused" /\ Goto("waiting") /\ UNCHANGED <<where, slip>>
       \/ st \notin {"stopping", "paused"} /\ Pass
    /\ UNCHANGED <<ctl, late, st, final, call, owed>>

\* The 0.4 s polling of the wait changes nothing while the event is clear.
Wake ==
    /\ pc = "waiting"
    /\ ctl.resume
    /\ Goto("woken")
    /\ UNCHANGED <<ctl, late, where, st, final, call, slip, owed>>

ReadAgain ==
    /\ pc = "woken"
    /\ st' = ctl.state
    /\ Goto("rebranch")
    /\ UNCHANGED <<ctl, late, where, final, call, slip, owed>>

BranchAgain ==
    /\ pc = "rebranch"
    /\ \/ st = "stopping" /\ Goto("cancelled") /\ UNCHANGED <<where, slip>>
       \/ st # "stopping" /\ Pass
    /\ UNCHANGED <<ctl, late, st, final, call, owed>>

\* ScanCancelled inside assess is swallowed: the module yields no findings
\* and the runner goes on to its next checkpoint.
SwallowCancel ==
    /\ pc = "cancelled"
    /\ where = "inner"
    /\ where' = "outer"
    /\ Goto("scanning")
    /\ UNCHANGED <<ctl, late, st, final, call, slip, owed>>

EndCancelled ==
    /\ pc = "cancelled"
    /\ where = "outer"
    /\ Goto("settle")
    /\ UNCHANGED <<ctl, late, where, st, final, call, slip, owed>>

LeaveAssess ==
    /\ pc = "scanning"
    /\ where = "inner"
    /\ where' = "outer"
    /\ UNCHANGED <<ctl, late, pc, st, final, call, slip, owed>>

EndOfScan ==
    /\ pc = "scanning"
    /\ where = "outer"
    /\ Goto("settle")
    /\ UNCHANGED <<ctl, late, where, st, final, call, slip, owed>>

ScanFails ==
    /\ pc = "scanning"
    /\ where = "outer"
    /\ final' = "failed"
    /\ Goto("finish")
    /\ UNCHANGED <<ctl, late, where, st, call, slip, owed>>

\* _terminal_status reads the state, then the reason: two critical sections.
SettleState ==
    /\ pc = "settle"
    /\ st' = ctl.state
    /\ Goto("settleReason")
    /\ UNCHANGED <<ctl, late, where, final, call, slip, owed>>

SettleReason ==
    /\ pc = "settleReason"
    /\ final' = TerminalStatus(st, ctl.reason)
    /\ Goto("finish")
    /\ UNCHANGED <<ctl, late, where, st, call, slip, owed>>

FinishRun ==
    /\ pc = "finish"
    /\ ctl' = Finished(ctl, final)
    /\ Goto("done")
    /\ UNCHANGED <<late, where, st, final, call, slip, owed>>

Scanner ==
    \/ BeginCheck \/ ExpireRun \/ ReadState \/ Branch
    \/ Wake \/ ReadAgain \/ BranchAgain
    \/ SwallowCancel \/ EndCancelled \/ LeaveAssess \/ EndOfScan \/ ScanFails
    \/ SettleState \/ SettleReason \/ FinishRun

-----------------------------------------------------------------------------
(***************************************************************************)
(* The handlers of api/app.py.  The gate and the call are separate steps;  *)
(* a rejected request (409) changes nothing.                               *)
(***************************************************************************)
\* The states in which a handler goes on to call the control.
GateOf(op) == IF op = "resume" THEN {"paused"} ELSE ActiveStates

Apply(op, c) ==
    CASE op = "pause"  -> Paused(c)
      [] op = "resume" -> Resumed(c)
      [] op = "stop"   -> Stopped(c)

EnterHandler(c, op) ==
    /\ call[c] = "idle"
    /\ ctl.state \in GateOf(op)
    /\ call' = [call EXCEPT ![c] = op]
    /\ UNCHANGED <<ctl, late, scanner, slip, owed>>

Reject409(c, op) ==
    /\ call[c] = "idle"
    /\ ctl.state \notin GateOf(op)
    /\ UNCHANGED vars

CallControl(c) ==
    /\ call[c] # "idle"
    /\ ctl' = Apply(call[c], ctl)
    /\ call' = [call EXCEPT ![c] = "idle"]
    /\ slip' = IF ctl.state = "running" \/ ctl'.state = "running" THEN 0 ELSE slip
    /\ owed' = \/ owed
               \/ /\ call[c] = "stop"
                  /\ Active(ctl)
                  /\ pc \in ScanPoints \union {"settle"}
    /\ UNCHANGED <<late, scanner>>

Handler(c) ==
    \/ \E op \in Operations : EnterHandler(c, op) \/ Reject409(c, op)
    \/ CallControl(c)

Next ==
    \/ BudgetRunsOut
    \/ Scanner
    \/ \E c \in Callers : Handler(c)

(***************************************************************************)
(* The scanning thread keeps running (the OS schedules it); nothing obliges*)
(* a client to call or the clock to pass the budget.                       *)
(***************************************************************************)
Spec == Init /\ [][Next]_vars /\ WF_vars(Scanner)

-----------------------------------------------------------------------------
(***************************************************************************)
(* No lost wakeup: a thread asleep in check() with the event clear is      *)
(* asleep because the run is paused.  stop() and resume() must both set    *)
(* the event they found cleared.                                           *)
(***************************************************************************)
NoLostWakeup == pc = "waiting" /\ ~ctl.resume => ctl.state = "paused"

(***************************************************************************)
(* However pause, resume, stop and the stale reads inside check()          *)
(* interleave, the scan passes at most one more checkpoint after its run   *)
(* has been paused or stopped.                                             *)
(***************************************************************************)
AtMostOneSlip == slip <= 1

(***************************************************************************)
(* A stop accepted (202) while the scan was still running decides the      *)
(* outcome: the run is never reported as completed, although the deadline  *)
(* may fire, the scan may end on its own and the cancellation may be       *)
(* swallowed inside assess in the meantime.                                *)
(***************************************************************************)
StopIsHonoured == pc = "done" /\ owed => final \in {"stopped", "failed"}

(***************************************************************************)
(* Conversely a run is reported as stopped only if it was a user who       *)
(* stopped it: a deadline is a graceful partial finish, not an abort.      *)
(***************************************************************************)
StoppedMeansUser == final = "stopped" => ctl.reason = "user"

(***************************************************************************)
(* Why a run stopped is decided once: a deadline that passes after the     *)
(* user's stop does not rewrite the reason, nor the other way round.       *)
(***************************************************************************)
ReasonIsFinal == [][ctl.reason # "none" => ctl'.reason = ctl.reason]_vars

(***************************************************************************)
(* The control implements the abstract gate: in particular no interleaving *)
(* of late pause and resume calls reopens a cancelled or finished run.     *)
(***************************************************************************)
GateOfControl ==
    CASE ctl.state = "running"  -> "open"
      [] ctl.state = "paused"   -> "held"
      [] ctl.state = "stopping" -> "cancelled"
      [] OTHER                  -> "closed"

Gate == INSTANCE ScanGate WITH gate <- GateOfControl

ImplementsGate == Gate!Spec

(***************************************************************************)
(* A run that is told to stop ends, even from inside a pause; one past its *)
(* budget ends or is paused (check() looks at the clock only on entry, so  *)
(* a paused run is not expired).                                           *)
(***************************************************************************)
CancelledRunEnds ==
    /\ ctl.state = "stopping" ~> pc = "done"
    /\ late ~> (pc = "done" \/ ctl.state = "paused")

=============================================================================
