---------------------------- MODULE MCMonitoring ----------------------------
(***************************************************************************)
(* The runs of an engagement, continuous scanning and posture for TLC.     *)
(* The three share no state in this model, so each behaviour exercises one *)
(* of them while the others rest: their states add up instead of           *)
(* multiplying.                                                            *)
(***************************************************************************)
EXTENDS MCRunLifecycle, Schedules, Posture

CONSTANTS i1, i2

ModelRank == i1 :> 3 @@ i2 :> 1

Off == [on |-> FALSE, min_severity |-> 3, kev_only |-> FALSE, only_internet_facing |-> TRUE]
ByExposure == [Off EXCEPT !.on = TRUE]
KevOnly == [ByExposure EXCEPT !.kev_only = TRUE, !.only_internet_facing = FALSE]

AllConfigs == {Off, ByExposure, KevOnly}
AlwaysOn == {ByExposure}

\* A component with several initial states rests in one of them.
RunsRest == Init /\ row.findings = {}
PostureRests == PostureInit /\ open = {} /\ alertCfg = CHOOSE cfg \in AlertConfigs : TRUE

MonitoringInit ==
    \/ SafetyInit /\ SchedInit /\ PostureRests
    \/ part = "schedules" /\ SchedInit /\ RunsRest /\ PostureRests
    \/ part = "posture" /\ PostureInit /\ RunsRest /\ SchedInit

MonitoringNext ==
    \/ part \in {"status", "findings"} /\ SafetyNext /\ UNCHANGED <<schedVars, postureVars>>
    \/ part = "schedules" /\ SchedNext /\ UNCHANGED <<part, vars, postureVars>>
    \/ part = "posture" /\ PostureNext /\ UNCHANGED <<part, vars, schedVars>>

Monitoring == MonitoringInit /\ [][MonitoringNext]_<<part, vars, schedVars, postureVars>>

=============================================================================
