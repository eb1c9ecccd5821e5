-------------------------- MODULE RunControlState --------------------------
(***************************************************************************)
(* The lock-protected part of pentestiq/core/runcontrol.py: one RunControl *)
(* object as a record, and each of its methods as an operator that maps    *)
(* the record before the critical section to the record after it.  Every   *)
(* method body runs under the object's re-entrant lock, so a call is one   *)
(* step of whoever calls it.                                               *)
(*                                                                         *)
(* Two modules are built on these operators: RunControl (one control, the  *)
(* scanning thread's checkpoint against concurrent callers) and            *)
(* RunLifecycle (the controls of every run of one engagement).             *)
(*                                                                         *)
(* Left out: the activity log, the counters and the phase labels, which no *)
(* branch of the code reads back.                                          *)
(***************************************************************************)

FinalStates == {"completed", "stopped", "failed"}

ActiveStates == {"running", "paused"}

ControlStates == ActiveStates \union {"stopping"} \union FinalStates

StopReasons == {"none", "user", "deadline"}

\* resume is the threading.Event a paused scan waits on: TRUE when it is set.
Control == [state: ControlStates, resume: BOOLEAN, reason: StopReasons]

NewControl == [state |-> "running", resume |-> TRUE, reason |-> "none"]

Active(c) == c.state \in ActiveStates

(***************************************************************************)
(* Seeded faults for the mutation runs, each next to the method it         *)
(* changes: a pause that forgets to test the state, a stop that leaves a   *)
(* paused scan asleep, and a stop that forgets why.                        *)
(***************************************************************************)
PauseAnyState(c) == [c EXCEPT !.state = "paused", !.resume = FALSE]

Paused(c) ==
    IF c.state = "running"
    THEN [c EXCEPT !.state = "paused", !.resume = FALSE]
    ELSE c

Resumed(c) ==
    IF c.state = "paused"
    THEN [c EXCEPT !.state = "running", !.resume = TRUE]
    ELSE c

StopWithoutWakeup(c) ==
    IF Active(c) THEN [c EXCEPT !.state = "stopping", !.reason = "user"] ELSE c

StopWithoutReason(c) ==
    IF Active(c) THEN [c EXCEPT !.state = "stopping", !.resume = TRUE] ELSE c

Stopped(c) ==
    IF Active(c)
    THEN [c EXCEPT !.state = "stopping", !.resume = TRUE, !.reason = "user"]
    ELSE c

\* The locked part of check() once the wall clock has passed the budget.
\* It does not set the event: the thread that runs it is not waiting on it.
Expired(c) ==
    IF c.state \notin {"stopping", "stopped"}
    THEN [c EXCEPT !.state = "stopping",
                   !.reason = IF @ = "none" THEN "deadline" ELSE @]
    ELSE c

Finished(c, final) == [c EXCEPT !.state = final]

(***************************************************************************)
(* _terminal_status of api/app.py, as a function of the two values it      *)
(* reads one after the other: the control's state, then its stop reason.   *)
(***************************************************************************)
TerminalStatus(state, reason) ==
    IF state \in {"stopping", "stopped"} /\ reason = "user"
    THEN "stopped"
    ELSE "completed"

=============================================================================
