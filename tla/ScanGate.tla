------------------------------ MODULE ScanGate ------------------------------
(***************************************************************************)
(* What a run control promises, without saying how: a gate the scan must   *)
(* pass.  An open gate can be held and a held gate opened again, either    *)
(* can be cancelled, and a cancelled gate is never opened or held again.   *)
(* The gate is closed once, when the run has settled on an outcome, and    *)
(* nothing moves it afterwards.                                            *)
(***************************************************************************)
VARIABLE gate

Init == gate = "open"

Hold   == gate = "open" /\ gate' = "held"
Open   == gate = "held" /\ gate' = "open"
Cancel == gate \in {"open", "held"} /\ gate' = "cancelled"
Close  == gate # "closed" /\ gate' = "closed"

Next == Hold \/ Open \/ Cancel \/ Close

Spec == Init /\ [][Next]_gate

=============================================================================
