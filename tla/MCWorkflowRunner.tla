-------------------------- MODULE MCWorkflowRunner --------------------------
(***************************************************************************)
(* What runs in threads of its own, for TLC: the control of a scan, the    *)
(* scan itself and the poller of the schedules.  They share no variable    *)
(* (the runner sees of its control only that it has been cancelled), so in *)
(* each behaviour "part" names the one that moves.                         *)
(*                                                                         *)
(* The first module of an asset runs one tool and one native check (the    *)
(* web module), the second two native checks.                              *)
(***************************************************************************)
EXTENDS WorkflowRunner, RunControl, Schedules

WebThenChecks == [m \in 1..2 |-> IF m = 1 THEN {2} ELSE {1, 2}]

VARIABLE part

PartsInit ==
    /\ part \in {"control", "runner", "poller"}
    /\ Init /\ RunnerInit /\ SchedInit
    /\ part # "runner" => mode = "queue" /\ runnable = {}

\* A run of no asset can still complete while another part moves.
PartsNext ==
    \/ /\ part = "control" /\ Next
       /\ UNCHANGED <<part, runnerVars, schedVars>>
    \/ /\ part = "runner" /\ RunnerNext
       /\ UNCHANGED <<part, vars, schedVars>>
    \/ /\ part = "poller" /\ SchedNext
       /\ UNCHANGED <<part, vars, runnerVars>>
    \/ /\ part # "runner" /\ Complete
       /\ UNCHANGED <<part, vars, schedVars>>

partsVars == <<part, vars, runnerVars, schedVars>>

\* The scanning thread, every job and the poller are threads the system keeps scheduling.
PartsSpec ==
    /\ PartsInit /\ [][PartsNext]_partsVars
    /\ WF_partsVars(part = "control" /\ Scanner /\ UNCHANGED <<part, runnerVars, schedVars>>)
    /\ \A a \in Assets :
          WF_partsVars(part = "runner" /\ Work(a) /\ UNCHANGED <<part, vars, schedVars>>)
    /\ WF_partsVars(Complete /\ UNCHANGED <<part, vars, schedVars>>)
    /\ WF_partsVars(part = "poller" /\ PollerStep /\ UNCHANGED <<part, vars, runnerVars>>)

=============================================================================
