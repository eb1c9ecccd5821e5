--------------------------- MODULE MCRunLifecycle ---------------------------
(***************************************************************************)
(* RunLifecycle for safety checking: tasks and handler threads are         *)
(* interchangeable, which is sound because no liveness is checked here.    *)
(***************************************************************************)
EXTENDS RunLifecycle, TLC

Interchangeable == Permutations(Runs) \union Permutations(Handlers)

VARIABLE part

(***************************************************************************)
(* Three requests without findings, or two with them: either is what it    *)
(* takes for its properties, both at once are more than can be checked.    *)
(***************************************************************************)
SafetyInit == Init /\ part \in {"status", "findings"}

NothingFound == row.findings = {} /\ \A r \in Runs : eng[r] = {}

SafetyNext ==
    /\ Next
    /\ part = "status" => NothingFound'
    /\ part = "findings" => requests' <= 2
    /\ UNCHANGED part

Safety == SafetyInit /\ [][SafetyNext]_<<vars, part>>

(***************************************************************************)
(* For liveness the behaviours start where a first run has been queued,    *)
(* which every interesting behaviour comes to; this spares the requests    *)
(* that lead there.                                                        *)
(***************************************************************************)
First == CHOOSE r \in Runs : TRUE

Queued ==
    /\ row \in [status: {"queued"}, findings: SUBSET Keys]
    /\ registry = None
    /\ ctl = [r \in Runs |-> NewControl]
    /\ pc = [r \in Runs |-> IF r = First THEN "queued" ELSE "free"]
    /\ kind = [r \in Runs |-> "run"]
    /\ eng = [r \in Runs |-> {}]
    /\ prior = [r \in Runs |-> {}]
    /\ left = [r \in Runs |-> NModules]
    /\ st = [r \in Runs |-> "running"]
    /\ final = [r \in Runs |-> "none"]
    /\ seen = [t \in Runs \union Handlers |-> NoRow]
    /\ op = [h \in Handlers |-> "idle"]
    /\ at = [h \in Handlers |-> "idle"]
    /\ target = [h \in Handlers |-> None]
    /\ requests = 0
    /\ outcome = NoRow
    /\ quiet = TRUE

QueuedSpec ==
    /\ part = "queued" /\ Queued
    /\ [][Next /\ UNCHANGED part]_<<vars, part>>
    /\ \A r \in Runs : WF_vars(Task(r))

=============================================================================
