--------------------------- MODULE WorkflowRunner ---------------------------
(***************************************************************************)
(* The scan pipeline of one run: WorkflowRunner.run, _run_asset and        *)
(* _run_module of pentestiq/core/workflow.py, CheckEngine.run of           *)
(* pentestiq/checks/engine.py, and the job queue of pentestiq/core/jobs.py.*)
(*                                                                         *)
(* Every runnable asset goes through every module; a module discovers,     *)
(* assesses and validates.  Assessing is a sequence of units: external     *)
(* tools, and native checks each of which starts with a checkpoint and     *)
(* streams what it finds to the live feed.                                 *)
(*                                                                         *)
(* The runner works in one of two modes.  With a live control ("control")  *)
(* assets run one after the other on the scanning thread, every module's   *)
(* findings go into the engagement and to the store as soon as the module  *)
(* returns, and a stop or deadline surfaces at a checkpoint.  Without one  *)
(* ("queue": CLI, scheduler) the assets are jobs of a bounded thread pool  *)
(* and the engagement is filled when all have returned.                    *)
(*                                                                         *)
(* A unit finds at most one issue, so a finding is named by where it came  *)
(* from.  engagement[f] counts how often f's evidence was attached: adding *)
(* a finding twice attaches its evidence twice (Finding.merge_source).     *)
(***************************************************************************)
EXTENDS Naturals, FiniteSets

CONSTANTS
    NAssets,        \* assets of the engagement, in order
    NModules,       \* modules registered for their type, in order
    NUnits,         \* tools and checks a module's assess goes through
    Native,         \* Native[m]: the units of module m that are native checks
    MaxConcurrency  \* workers of LocalJobQueue

Assets  == 1..NAssets
Modules == 1..NModules
Units   == 1..NUnits
Finding == Assets \X Modules \X Units

ASSUME RunnerAssumption ==
    /\ NAssets \in Nat /\ NModules \in Nat /\ NUnits \in Nat
    /\ Native \in [Modules -> SUBSET Units]
    /\ MaxConcurrency \in Nat \ {0}

VARIABLES
    mode,       \* "control" or "queue"
    runnable,   \* the assets the scope check let through
    cancel,     \* a stop was requested or the deadline has passed
    at,         \* at[a]: where the work on asset a is
    module,     \* module[a]: the module it is at
    unit,       \* unit[a]: the unit of assess it is at
    findings,   \* findings[a]: the local list of _run_module
    collected,  \* collected[a]: the local list of _run_asset
    engagement, \* evidence attached to the engagement, per finding
    stored,     \* the copy of it in the store
    feed,       \* findings streamed to the live control
    phase,      \* the run's own phase: "running", "complete", "cancelled"
    raised,     \* history: modules whose assess raised an exception
    cut         \* history: modules a cancellation interrupted

job  == <<at, module, unit, findings>>
runnerVars == <<mode, runnable, cancel, job, collected, engagement, stored, feed,
          phase, raised, cut>>

Labels == {"idle", "module", "assess", "units", "validate", "return", "returned",
           "done"}

RunnerTypeOK ==
    /\ mode \in {"control", "queue"}
    /\ runnable \subseteq Assets
    /\ cancel \in BOOLEAN
    /\ at \in [Assets -> Labels]
    /\ module \in [Assets -> 1..NModules + 1]
    /\ unit \in [Assets -> 1..NUnits + 1]
    /\ findings \in [Assets -> SUBSET Finding]
    /\ collected \in [Assets -> SUBSET Finding]
    /\ engagement \in [Finding -> Nat]
    /\ stored \in [Finding -> Nat]
    /\ feed \subseteq Finding
    /\ phase \in {"running", "complete", "cancelled"}
    /\ raised \subseteq Assets \X Modules
    /\ cut \subseteq Assets \X Modules

RunnerInit ==
    /\ mode \in {"control", "queue"}
    /\ runnable \in SUBSET Assets
    /\ cancel = FALSE
    /\ at = [a \in Assets |-> "idle"]
    /\ module = [a \in Assets |-> 1]
    /\ unit = [a \in Assets |-> 1]
    /\ findings = [a \in Assets |-> {}]
    /\ collected = [a \in Assets |-> {}]
    /\ engagement = [f \in Finding |-> 0]
    /\ stored = [f \in Finding |-> 0]
    /\ feed = {}
    /\ phase = "running"
    /\ raised = {}
    /\ cut = {}

-----------------------------------------------------------------------------
Controlled == mode = "control"

\* What check() does to the thread that calls it: without a control there is
\* no checkpoint; with one it passes unless the run has been cancelled.
Passes == ~Controlled \/ ~cancel

Here(a) == <<a, module[a]>>

\* Seeded fault: the findings of one module replace those of the others.
ReplaceFindings(e, fs) == [f \in Finding |-> IF f \in fs THEN 1 ELSE 0]

AddFindings(e, fs) == [f \in Finding |-> IF f \in fs THEN e[f] + 1 ELSE e[f]]

Move(a, label) == at' = [at EXCEPT ![a] = label]

(***************************************************************************)
(* A user's stop, or the deadline: RunControl shows it is never undone.    *)
(***************************************************************************)
RequestCancel ==
    /\ Controlled
    /\ ~cancel
    /\ phase = "running"
    /\ cancel' = TRUE
    /\ UNCHANGED <<mode, runnable, job, collected, engagement, stored, feed,
                   phase, raised, cut>>

\* Seeded fault: an asset waits for the ones the scope check turned away.
MayStartInOrder(a) ==
    /\ a \in runnable
    /\ at[a] = "idle"
    /\ phase = "running"
    /\ \A b \in Assets : b < a => at[b] = "done"

\* Controlled runs take the assets in order; the queue starts any job while
\* a worker is free.
MayStart(a) ==
    /\ a \in runnable
    /\ at[a] = "idle"
    /\ phase = "running"
    /\ IF Controlled
       THEN \A b \in runnable : b < a => at[b] = "done"
       ELSE Cardinality({b \in runnable : at[b] \notin {"idle", "done"}})
                < MaxConcurrency

StartAsset(a) ==
    /\ MayStart(a)
    /\ Passes
    /\ Move(a, IF NModules = 0 THEN "returned" ELSE "module")
    /\ UNCHANGED <<mode, runnable, cancel, module, unit, findings, collected,
                   engagement, stored, feed, phase, raised, cut>>

\* The checkpoints of _run_asset and of the discover phase, then discover;
\* an exception in discover is logged and changes nothing.
Discover(a) ==
    /\ at[a] = "module"
    /\ Passes
    /\ Move(a, "assess")
    /\ UNCHANGED <<mode, runnable, cancel, module, unit, findings, collected,
                   engagement, stored, feed, phase, raised, cut>>

EnterAssess(a) ==
    /\ at[a] = "assess"
    /\ Passes
    /\ Move(a, "units")
    /\ unit' = [unit EXCEPT ![a] = 1]
    /\ findings' = [findings EXCEPT ![a] = {}]
    /\ UNCHANGED <<mode, runnable, cancel, module, collected, engagement,
                   stored, feed, phase, raised, cut>>

IsNative(a) == unit[a] \in Native[module[a]]

\* One tool or one check.  A check that raises is skipped, like one that
\* finds nothing.
RunUnit(a) ==
    /\ at[a] = "units"
    /\ unit[a] <= NUnits
    /\ IsNative(a) => Passes
    /\ \E found \in SUBSET {<<a, module[a], unit[a]>>} :
          /\ findings' = [findings EXCEPT ![a] = @ \union found]
          /\ feed' = IF Controlled /\ IsNative(a) THEN feed \union found ELSE feed
    /\ unit' = [unit EXCEPT ![a] = @ + 1]
    /\ UNCHANGED <<mode, runnable, cancel, at, module, collected, engagement,
                   stored, phase, raised, cut>>

\* assess raises: the `except Exception` of _run_module leaves findings = [].
Abandon(a) == findings' = [findings EXCEPT ![a] = {}]

ToolRaises(a) ==
    /\ at[a] = "units"
    /\ unit[a] <= NUnits
    /\ ~IsNative(a)
    /\ Abandon(a)
    /\ Move(a, "return")
    /\ raised' = raised \union {Here(a)}
    /\ UNCHANGED <<mode, runnable, cancel, module, unit, collected, engagement,
                   stored, feed, phase, cut>>

\* ScanCancelled, re-raised by CheckEngine.run, ends in the same handler.
CancelledInAssess(a) ==
    /\ at[a] = "units"
    /\ unit[a] <= NUnits
    /\ IsNative(a)
    /\ ~Passes
    /\ Abandon(a)
    /\ Move(a, "return")
    /\ cut' = cut \union {Here(a)}
    /\ UNCHANGED <<mode, runnable, cancel, module, unit, collected, engagement,
                   stored, feed, phase, raised>>

EndAssess(a) ==
    /\ at[a] = "units"
    /\ unit[a] > NUnits
    /\ Move(a, IF findings[a] = {} THEN "return" ELSE "validate")
    /\ UNCHANGED <<mode, runnable, cancel, module, unit, findings, collected,
                   engagement, stored, feed, phase, raised, cut>>

\* Validation rewrites status and confidence of the findings it is given and
\* returns them all; an exception leaves the list as it was.
Validate(a) ==
    /\ at[a] = "validate"
    /\ Passes
    /\ Move(a, "return")
    /\ UNCHANGED <<mode, runnable, cancel, module, unit, findings, collected,
                   engagement, stored, feed, phase, raised, cut>>

\* _persist_now is best effort: a failing store is logged and ignored.
Persist(e) == stored' \in {stored, e}

\* Seeded fault: the engagement is filled only at the end of the run.
StreamNothing(a) == UNCHANGED <<engagement, stored>>

\* After each module of a controlled run its findings go to the engagement
\* and the engagement to the store.
Stream(a) ==
    IF Controlled /\ findings[a] # {}
    THEN /\ engagement' = AddFindings(engagement, findings[a])
         /\ Persist(engagement')
    ELSE UNCHANGED <<engagement, stored>>

ModuleAfter(a) == IF module[a] = NModules THEN "returned" ELSE "module"

ReturnModule(a) ==
    /\ at[a] = "return"
    /\ collected' = [collected EXCEPT ![a] = @ \union findings[a]]
    /\ Stream(a)
    /\ module' = [module EXCEPT ![a] = @ + 1]
    /\ Move(a, ModuleAfter(a))
    /\ UNCHANGED <<mode, runnable, cancel, unit, findings, feed, phase, raised,
                   cut>>

\* What _run_asset hands back to run().  Seeded fault: a controlled run
\* hands back what it has streamed already.
ResultTwice(a) == collected[a]

Result(a) == IF Controlled THEN {} ELSE collected[a]

\* _run_asset has returned: a controlled run() folds in its result and saves;
\* a job leaves its result to run_all.
ReturnAsset(a) ==
    /\ at[a] = "returned"
    /\ Move(a, "done")
    /\ IF Controlled
       THEN /\ engagement' = AddFindings(engagement, Result(a))
            /\ Persist(engagement')
       ELSE UNCHANGED <<engagement, stored>>
    /\ UNCHANGED <<mode, runnable, cancel, module, unit, findings, collected,
                   feed, phase, raised, cut>>

-----------------------------------------------------------------------------
(***************************************************************************)
(* The run as a whole.                                                     *)
(***************************************************************************)
AllDone == \A a \in runnable : at[a] = "done"

\* An outer checkpoint raised ScanCancelled: run() leaves its loop.
AtOuterCheckpoint(a) ==
    \/ MayStart(a)
    \/ at[a] \in {"module", "assess", "validate"}

\* Seeded fault: the cancelled flag is not set.
BreakOutUnnoticed(a) ==
    /\ phase = "running"
    /\ AtOuterCheckpoint(a)
    /\ ~Passes
    /\ phase' = "complete"
    /\ UNCHANGED <<mode, runnable, cancel, job, collected, engagement, stored,
                   feed, raised, cut>>

BreakOut(a) ==
    /\ phase = "running"
    /\ AtOuterCheckpoint(a)
    /\ ~Passes
    /\ phase' = "cancelled"
    /\ cut' = IF at[a] = "validate" THEN cut \union {Here(a)} ELSE cut
    /\ UNCHANGED <<mode, runnable, cancel, job, collected, engagement, stored,
                   feed, raised>>

\* Every asset is through: run() folds in the results of the jobs, then
\* scores and correlates (analysis changes no finding's identity).
Complete ==
    /\ phase = "running"
    /\ AllDone
    /\ phase' = "complete"
    /\ engagement' = IF Controlled THEN engagement
                     ELSE AddFindings(engagement, UNION {Result(a) : a \in runnable})
    /\ UNCHANGED <<mode, runnable, cancel, job, collected, stored, feed, raised,
                   cut>>

Work(a) ==
    \/ StartAsset(a) \/ Discover(a) \/ EnterAssess(a)
    \/ RunUnit(a) \/ ToolRaises(a) \/ CancelledInAssess(a) \/ EndAssess(a)
    \/ Validate(a) \/ ReturnModule(a) \/ ReturnAsset(a) \/ BreakOut(a)

RunnerNext ==
    \/ RequestCancel
    \/ \E a \in Assets : Work(a)
    \/ Complete

\* Every job has a thread of its own that the system keeps scheduling.
RunnerSpec == RunnerInit /\ [][RunnerNext]_runnerVars /\ (\A a \in Assets : WF_runnerVars(Work(a)))
             /\ WF_runnerVars(Complete)

-----------------------------------------------------------------------------
Kept == UNION {collected[a] : a \in Assets}

Ended == phase # "running"

(***************************************************************************)
(* The engagement holds exactly what the modules that returned handed      *)
(* over, each finding's evidence once: nothing of a returned module is     *)
(* lost or attached twice, whichever mode the runner works in, and nothing *)
(* of an abandoned module leaks in.  A job queue fills it at the end.      *)
(***************************************************************************)
EngagementIsWhatModulesReturned ==
    Controlled \/ Ended =>
        \A f \in Finding : engagement[f] = IF f \in Kept THEN 1 ELSE 0

(***************************************************************************)
(* A finding shown in the live feed can be missing from the engagement     *)
(* only if its module is still running, raised, or was cut short; and a    *)
(* cancellation cuts at most one module short, the one it met.  A run that *)
(* calls itself complete went through every module of every runnable       *)
(* asset, and if a cancellation cut a module short unnoticed, it was the   *)
(* last module of the last asset: no later checkpoint was there to notice. *)
(***************************************************************************)
LossIsContained ==
    /\ Cardinality(cut) <= 1
    /\ \A f \in feed :
          LET a == f[1] IN
          \/ engagement[f] > 0
          \/ <<a, f[2]>> \in raised \union cut
          \/ module[a] = f[2] /\ at[a] # "done"
    /\ phase = "complete" =>
         /\ \A a \in runnable : NModules > 0 => module[a] = NModules + 1
         /\ \A am \in cut : am[2] = NModules /\ \A b \in runnable : b <= am[1]

(***************************************************************************)
(* What is saved while the scan runs is never more than the engagement     *)
(* holds, and what was saved is never taken back.                          *)
(***************************************************************************)
SavedResultsOnlyGrow ==
    [][\A f \in Finding : /\ stored'[f] <= engagement'[f]
                          /\ stored'[f] >= stored[f]]_runnerVars

(***************************************************************************)
(* Every run ends, whatever its modules raise and whenever it is stopped.  *)
(***************************************************************************)
EveryRunEnds == <>Ended

(***************************************************************************)
(* README.md on PENTESTIQ_SCAN_TIMEOUT_S: on reaching the time budget "the *)
(* scan finishes with the results gathered so far".  A finding already     *)
(* shown in the live feed is a result gathered so far.                     *)
(***************************************************************************)
FinishesWithResultsGathered ==
    Ended /\ cancel /\ raised = {} => \A f \in feed : engagement[f] > 0

=============================================================================
