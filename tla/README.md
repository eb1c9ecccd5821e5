# Corvex-RedOps in TLA+

Corvex-RedOps (Python package `pentestiq`) is a self-hosted platform that scans
assets, validates and scores what it finds, and follows the findings over later
scans. This directory holds TLA+ models of it, the TLC runs that check them on
small instances, and TLAPS proofs of what matters most for every instance. All
paths below are relative to the repository; `core/...`, `api/...` and so on are
under `pentestiq/`.

## The system and its parts

A FastAPI server (`api/app.py`) answers requests on a pool of threads. A request
to run an engagement stores its row as `queued` and hands a background task
(`_run_engagement`) to the same pool; the task drives the workflow runner, which
drives asset modules, which drive external tools, native checks, the crawler,
the fuzzer and safe validators. Everything is kept in SQLite, one connection per
store behind a lock. A daemon thread runs due schedules through the same engine.

| part | state it keeps | operations | what makes it correct |
|---|---|---|---|
| run control (`core/runcontrol.py`) | state, resume event, stop reason, deadline of one run | pause, resume, stop, check, finish | a stop takes effect and is reported; the reason is final; at most one checkpoint is passed after it |
| run registry (`RUNS`) | the control of the latest run per engagement | create, get, drop | handlers reach the scan that is running |
| workflow runner, check engine, job queue (`core/workflow.py`, `checks/engine.py`, `core/jobs.py`) | the engagement being filled, the findings of modules in progress | run, per-asset, per-module phases, streaming saves | every finding handed over arrives exactly once; a failure or cancellation costs at most what it interrupted; every run ends |
| background task, endpoints, engagement store (`api/app.py`, `storage/sqlite_store.py`) | one row per engagement; locals of the task | run, retest, pause, resume, stop, delete | the row ends up with the run's outcome; a deleted engagement stays deleted |
| finding lifecycle (`workflow/retest.py`, `models/`) | status, dates, lifecycle tag per finding | detect, validate, merge a retest | the dates MTTR is computed from are true |
| scheduler, diff, notifier (`scheduling/`) | schedules, next run, previous run | tick, run now, diff, notify, mark run | notices add up; a schedule that raises starves nobody |
| posture, alerts (`analytics/`) | snapshots per tenant, alert settings | snapshot, alert on newly open findings | nothing is recorded as known before its alert was tried |
| accounts (`auth/`, `storage/auth_store.py`) | tenants, users, memberships, keys | register, first-run admin, members, keys, passwords | an administrator can log in after a start that was torn |
| projects, tickets, portal (`workflow/`, `api/app.py`) | projects, tickets in findings, shared links | update and progress; push; share, revoke, visit | no edit or ticket lost to another writer's success; no closing over an open finding; a link opens while it is shared |
| inventory, exposure (`inventory/`) | assets per tenant | upsert, edit, merge | manual edits survive scans |
| intelligence (`intel/`) | KEV, EPSS and exploit tables and their caches | refresh, look up, enrich, prioritise | evidence of exploitation never ranks a finding lower |
| importers, SARIF export (`ingest/`, `ingest/sarif_export.py`) | findings of an engagement | ingest a report, export, re-import | nothing reported is lost, the highest severity stays |
| deep scan (`corvex_deepscan`) | flows, engagement | import a capture, analyse, attach | every kind of issue seen at a place is on record |
| code scans (`secrets/`, `sast/`, `sca/`) | an uploaded tree, engagement | unpack, search, query OSV, store | every place a detector saw is reported |
| native checks (`checks/`) | verdicts; a base answer kept with the asset | passive, upload, WordPress and authorization checks | an accusation is earned; silence is no weakness |
| fuzzer, crawler, rate limiter | budgets, queue, tokens | probe, crawl, acquire | indifferent points stay clean; budgets and rates hold |
| out-of-band store (`oast/`, `checks/oast_checks.py`) | tokens, interactions | plant, poll, record | only what was called is accused |
| validation, breach simulation (`validators/`, `bas/`) | verdicts | probe, apply, score | a verdict follows from the answers it got |
| attack graph, coverage (`attack/`) | none of its own | paths, matrix | the worst of what stands is shown |
| self-update (`selfupdate.py`) | lock, code on disk and in memory | fetch, pull, install, restart | what runs is what is checked out |

How they interact: handlers call the control of a run through the registry while
the task's thread is inside its checkpoints; task and handlers share the
engagement row through `store.update`, which is a read and a later write;
modules stream what they find into the engagement and call back to save it; a
completed task captures a posture snapshot and registers assets; tickets,
imports, captures and analyses write the row of the same engagement. What is
hard: the checkpoint is not atomic and runs against calls from other threads;
read-modify-write of rows nearly everywhere; two tasks for one engagement; a
delete under a running scan; exceptions that swallow a cancellation; a retest
that overwrites stored findings before it can merge them; tables refreshed in
place under their readers; answers that do not come, which a check can take for
good or for bad news; a process that dies half way. `PROJECT.json` lists these
hazards at their lines with the properties that watch them.

## The modules

### Runs of a scan

`RunControlState` holds the methods of `RunControl` as operators on a record.
Every method body runs under the object's lock, so one call is one step.
`ScanGate` is the abstract promise of a control: a gate that is open or held,
may be cancelled for good, and is closed once.

`RunControl` is one run. `pc` walks the scanning thread through `check()` line
by line (clock test, locked expiry, locked read, branch on the copy, wait on the
event, second read), then through `_terminal_status` (two reads) and `finish`.
`where` distinguishes outer checkpoints, whose `ScanCancelled` ends the run, from
inner ones inside `assess`, where `_run_module` swallows it. Handler threads
test the state in one step and call the control in the next. `slip` and `owed`
are history variables.

`WorkflowRunner` is the pipeline of one run over assets, modules and units (one
tool or one native check), in its two modes: with a live control, one asset
after the other and findings streamed after each module; without, jobs on a
bounded pool whose results are folded in at the end. `engagement[f]` counts how
often a finding's evidence was attached, because `merge_source` appends it again
whenever the same finding is added. `cancel` abstracts the control: a stop or
deadline is never undone (that is what `RunControl` shows). A raised exception,
a skipped check and a failing save are steps.

`RunLifecycle` is one stored engagement with several background tasks and
handlers. Every `store.update` is a get step and a put step, with the row it saw
in `seen`. The scan is a countdown of modules that may find and save; `check()`
is one step here. `EveryControlIsAGate` ties it back to `ScanGate`.

`Retest` follows findings, by dedup key, over scans: `Start`, `Detect`/`Miss`
per key, and `Conclude` (with `merge_retest`), `Fail` (no merge) or `Crash` (the
last partial save stays). Time is the number of the scan. A scan may conclude
with keys still to do, as a stopped one does; what a reader of the reports would
note is kept apart from what the code dates (`fixedAt`, `presumed`).

### What watches the scans

`Schedules`: the rows of schedules and of their runs, a poller that works
through the list it has read, `run_now` callers, and `run_schedule` as a
sequence of steps (create the row, scan, store, find the previous run by its
position, diff, notify, mark), any of which may raise, and a crash of the
process. `told` is what a reader of the notices believes.

`Posture`: `_capture_posture` in several threads step by step (read findings,
settings, previous snapshot, KEV look-ups, send, store), beside changes of the
findings and settings and the refresh that fills the KEV table row by row. The
channel may refuse a message; nobody looks at its answer.

### State people edit

`Accounts`: registration, first-run admin, members and keys as the commits they
are, by workers of several processes, with calls that die between commits.
`Projects`: PATCH and the closing GET, each a read and a later write of the
whole row. `Portal`: a visit is two steps, resolving the token and looking the
engagement up, with revocation, expiry, deletion and a change of edition in
between. `Tickets`: a push holds its copy of the row while the tracker answers;
runs and retests hold one too and write it back, the retest from a clean slate
and merged at its end, and either may fail or die. `Inventory`: one upsert is one step, a scan or
discovery files its hosts one after the other; `Normalize` maps spellings to the
canonical identifier as classes of spellings.

### What scans find

`WebChecks`: the passive, upload and WordPress checks as verdicts on a site, any
answer lost, over scans that keep the base answer in the asset's metadata or
crawl afresh. `Authz`: the authorization checks against an application;
`MassAssignmentCheck` is three steps because it writes to the application.
`Fuzzer`: injection points under the two bounds, and the verdict of each
detector on the answers. `Crawler`: the breadth-first loop over any bounded
site. `Oast`: checks that plant, wait and poll, and a collaborator that records
calls up to a cap, loses requests and restarts; where an answer redirects to the
payload, the scanner's own client may be the caller. `RateLimiter`: the bucket in
integer parts of a token, threads whose sleeps end late. `Validators`: the
engine over a list of findings, one probe at a time. `Bas`: ten checks over one
cached home page. A target, site or application is always data: a record of
what it answers, of which a few that differ in what the checks look at are
instances.

### What becomes of findings

`Imports`: what each of eight importers makes of a row, deduplication and merge,
and the SARIF export read back. `CodeScan` extends it with uploads: unpacking,
secrets line by line, Semgrep, lock files and OSV answers. `Deepscan`: a capture
cut to the store's cap, analysed and attached by two handlers to one row; an
issue is about a cookie, header or field, which the report's de-duplication does
not tell apart.
`Intel`: the three catalogues with seeds, caches, refreshes and restarts,
enrichment over a copy of the row, priority and service matching. `AttackPaths`:
paths and matrix as findings are reported and refuted. `SelfUpdate`:
`apply_update` under its try-lock, with failures, restarts and a `git` that
outlives the process.

### Composition

Scanning thread, runner and poller share the process but no variable of the
models; so do the components of the platform. `MCWorkflowRunner` (control,
runner, poller), `MCMonitoring` (run lifecycle, schedules, posture) and `MCPlatform` (the
twenty components whose invariants it checks) put such modules side by side with
a variable `part` that names the one that moves in a behaviour, all others
resting in an initial state. Their state spaces then add up instead of
multiplying, and nothing is lost, because a step of one component neither reads
nor writes a variable of another. Where components do share state, they are one
module: `RunLifecycle` joins registry, controls, tasks, handlers and store;
`Posture` joins captures with the KEV table they read; `CodeScan` extends
`Imports`; and `RunControl`, `RunLifecycle` are tied to `ScanGate` by
refinement. The other `MC` modules hold instances: sites, captures, trees,
feeds, spellings, clients.

## What the runs check

| run | instance | shows |
|---|---|---|
| WorkflowRunner | 2 handlers; 2 assets x 2 modules x 2 units, pool of 2, both modes; 2 schedules, either of which may raise at every attempt | `AtMostOneSlip`, `StopIsHonoured`, `ImplementsGate`, `CancelledRunEnds`; `EngagementIsWhatModulesReturned`, `LossIsContained`, `SavedResultsOnlyGrow`, `EveryRunEnds`; `DueScheduleGetsItsTurn` |
| RunEnds | 2 runs, 1 handler, no findings, 2 requests after a first run was queued | `OnlyAPauseHolds` |
| Monitoring | 2 runs, 2 handlers, 1 dedup key, 1 module, 3 requests (2 when scans find something), tasks and handlers interchangeable; 1 schedule, 1 caller, 3 scheduled runs, 1 crash; 2 issues, 2 captures at once, 3 in all, 2 changes, any message refused | `QuietOutcomeStands`, `NeverResurrected`; `NoticesAddUp`, `DisabledRunsAtMostOnce`; `RecordedMeansTried`, `NamedOnce` |
| Platform | see below | the type invariants of its twenty components, and one or two properties of each |
| ResultsGathered, ScanWithinReach, FalsePositives, RetestStopped, KevAlerts, OastDeferred, ExposedAlerts, RescanSeesTheSame | the least instance that has the case | a counterexample each, see "Where documentation and code disagree" |

`Platform` checks, by component:

| component | properties | instance |
|---|---|---|
| Accounts | `AdminAfterStart` | 2 users, 2 workers, 2 tenants, 1 call that dies |
| Projects | `ProjectIsAsEdited`, `OpenOnRecordKeepsItOpen` | 2 findings, 2 handlers, 2 changes |
| Portal | `LinkOpensWhileShared` | 1 client, 2 links, 1 visitor, links for ever or for one of 2 days |
| Tickets | `TicketsAreKept` | 1 finding, 2 pushers, 2 tickets, runs and retests |
| SelfUpdate | `RunningIsCheckedOut` | 2 administrators, 2 commits |
| Inventory | `CuratedSurvives` | 1 host in three spellings, 2 edits, 1 survey |
| Retest | `MttrIsHonest`, `FindingsAreCoherent` | 1 dedup key, 5 scans |
| Imports | `ReportsAddUp` | 8 formats, 2 reports of up to 2 rows |
| Deepscan | `KindsSeenAreOnRecord` | 2 captures of two hosts with bodies beyond the cap and two weak cookies in one answer, 2 uploaders |
| CodeScan | `CodeIsReported` | 1 upload: trees of up to 2 files, which may overwrite each other, limits of 2 to 4 reached; every answer of OSV |
| Intel | `EvidenceCounts` | 3 CVEs, 3 refreshes, restarts or edits |
| AttackPaths | `PathsShowTheWorst` | up to 3 findings of 3 hosts, each on a tactic, 2 paths shown, the third host a crown jewel or not |
| Validators | `VerdictFollowsProbes` | 2 findings, every outcome of every probe |
| Bas | `VerdictsAreEarned` | a hardened target, a bare one and two in between; 3 requests in a burst |
| RateLimiter | `RateIsKept` | 2 threads, half a token per tick, a burst of 2, 6 ticks |
| Crawler | `CrawlCoversReach` | 192 sites of 4 pages, limits of 3 pages, depth 1, 1 script |
| Fuzzer | `IndifferentPointIsClean` | 3 points, 2 tried, budget of 3 requests |
| Authz | `AccusationsAreEarned` | 2 identities, 2 objects, 6 applications, 2 scans |
| Oast | `OnlyCalledIsAccused` | 3 plants in two checks, one of them redirecting, five clients, 1 fault, 2 interactions per token |
| WebChecks | `SilenceIsNoWeakness`, `CrawledSiteIsSeenAfresh` | 6 sites, one without metadata, 2 scans |

Each property has a seeded fault in its module (an operator next to the one it
replaces, marked as such: a lock left out, a test dropped, two steps swapped, a
limit off by one) under which TLC finds the property violated.

Bounds. In `RunControl` nothing is bounded but the number of callers: a caller
may call for ever, and two of them give every pair of racing calls (the proofs
cover any number). In `WorkflowRunner` two assets, modules and units are the
least with a first, a last, and a next one after a failure. `MaxRequests` in
`RunLifecycle` limits the requests of one behaviour: three are enough to have a
second run, and a pause, stop or delete, in flight with a first one. A schedule
needs three runs for a notice that follows one from a run that was not the
newest. Three captures are two that overlap and one that reads what they left.
In `Retest`, five scans allow a run and two rounds of a retest that fixes and one that
finds again; keys never influence each other, so one is enough.
Two writers of one row (projects, tickets, captures) give every overlap of a
read with a write. Limits (pages, files, findings, interactions, paths shown: three hosts have
a path and two are listed) are small enough to be reached and large enough that something lies within.
The proofs cover any number of each for the modules they are about. Deadlock is
not checked, as behaviours are meant to stop, at the end of the run, the scan or
the allowed requests.

Fairness. Only the server's own threads are fair: the scanning thread in
`RunControl`, every job and the runner in `WorkflowRunner`, every background
task in `RunLifecycle`, the poller in `Schedules`, the running check in `Oast`.
The operating system schedules them, and all their waits are polls or have a
timeout. Nothing obliges a client to call, the clock to pass the budget, a
paused run to be resumed, or a target to act on a payload, so no property relies
on that.

Reading the properties:

- `AtMostOneSlip`: `check()` can act on a stale copy of the state, so a scan may
  pass one checkpoint after it was paused or stopped, never a second one.
- `StopIsHonoured` covers stops accepted before `_terminal_status` reads the
  state. One accepted later is answered 202 and changes nothing.
- `CancelledRunEnds` excepts runs that are past their budget and paused:
  `check()` looks at the clock on entry only.
- `LossIsContained` allows one module to be cut short unnoticed: the last one of
  the last asset, after which no checkpoint comes, so that the run calls itself
  complete.
- `QuietOutcomeStands` says the row shows the outcome of the last run when
  nothing but stop requests overlapped the end of that run. Without that proviso
  it does not hold: a pause accepted just before the outcome is stored writes
  `paused`, with the findings its own read saw, over the outcome.
- `MttrIsHonest` excepts keys that were ever dismissed as false positives and
  everything a failed or killed retest has overwritten. A finding a retest dated
  without having looked for it only has to carry some date: that is the
  disagreement `FixedMeansLookedFor` shows. `FindingsAreCoherent` has no
  exception.
- `NoticesAddUp` needs runs that did not overlap and that completed: the previous
  run is whichever row stands below, also one that is still running or failed.
- `RecordedMeansTried` is what is left of "nothing slips by": the message was
  tried, not that it arrived. The alert's filter is taken as it was evaluated at
  the time; that a look-up may have seen half a KEV table is `KevIsAnnounced`.
- `ProjectIsAsEdited` and `TicketsAreKept` except updates that overlapped, and
  `KindsSeenAreOnRecord` speaks of what the last writer had read: the row is read
  outside the lock and written back whole.
- `OpenOnRecordKeepsItOpen` speaks of the findings that can still be found.
- `TicketsAreKept` says where a ticket may be lost without an overlap: to a retest
  that found the issue again, or that failed or died after its first save.
- `KindsSeenAreOnRecord` is about kinds of issues: of two weak cookies in one
  answer the report keeps one.
- `OnlyCalledIsAccused` leaves out the points whose answer redirects to the
  payload, where the scanner's client is a caller too.
- `AdminAfterStart` excepts an admin whose own creation died before the
  membership: the user exists, so the next start creates nothing.
- `AccusationsAreEarned` says what each kind of accusation shows, in
  `Evidenced`. What a privileged identity can read shows nothing, a read-back
  shows a change only if the read before it was answered, and an echo shows none.
- `VerdictsAreEarned` holds of every verdict whose own answers arrived. Five of
  the ten checks (`SilenceDecides`) read a lost answer as a sign that is not
  there; of their verdicts nothing is claimed then.
- `VerdictFollowsProbes` names what a verdict takes an unanswered or refused
  request for.

## Where documentation and code disagree

Each with a run that shows it:

1. README.md:1064 and the message of `core/runcontrol.py:74` say that on
   reaching the time budget a scan finishes with the results gathered so far.
   `ScanCancelled` raised at a checkpoint inside `assess` is caught by the
   `except Exception` at `core/workflow.py:185`; the findings of that module
   are lost although the live feed showed them (ResultsGathered). A
   cancellation at the validate checkpoint loses them too.
2. `core/runcontrol.py:4` says the control is registered so that the API can
   pause, resume and stop the run, and a delete is meant to stop any scan in
   flight (`api/app.py:773`). A delete, or a second run, at the wrong moment
   leaves a scan at work that no request can reach (ScanWithinReach).
3. `workflow/retest.py:33` says false positives are preserved and never
   resurrected. One that the retest detects again comes back as a new finding
   (FalsePositives).
4. `models/finding.py:63` says `remediated_at` is set when a retest confirms a
   finding fixed. A retest that is stopped or runs out of time is merged like a
   complete one (`api/app.py:99`), and `workflow/retest.py:59` dates whatever it
   had not come to (RetestStopped).
5. `analytics/alerts.py:1` promises an alert when a KEV lands on an exposed
   asset. A capture that reads the KEV table while `refresh_kev` refills it
   (`intel/threat_intel.py:105`) takes the finding for an ordinary one, records
   it as known, and nothing announces it later (KevAlerts).
6. README.md:139 promises an alert for internet-facing assets. The filter
   compares a finding's identifier as written with canonical ones
   (`analytics/alerts.py:72`), so a finding on a URL or on host:port passes
   unannounced (ExposedAlerts).
7. `checks/oast_checks.py:133` says a finding materializes whenever the callback
   lands. One that lands after the check polled is recorded by the collaborator
   and never reported (OastDeferred).
8. `checks/web_passive.py:20` caches the base answer on the context. The context
   shares the asset's metadata, which is stored; loaded again the answer is a
   plain dictionary, on which three checks raise and are swallowed, so a second
   scan of an unchanged asset misses their findings (RescanSeesTheSame).

Seen while modelling and built into the models as the code has them, without a
run of their own:

- out-of-band: a client configured with a domain only has no base URL, so every
  poll fails (`oast/client.py:62`, against README.md:315); a host whose first
  label has the form of a token confirms nothing (`oast/server.py:31`).
- intelligence: a later CVE that is not in KEV but has a higher EPSS replaces a
  KEV hit (`intel/threat_intel.py:193`, against its comment); an exploit of the
  seed is not superseded by a verified row of the same id
  (`intel/exploit_intel.py:66`); a torn KEV cache counts as fresh.
- code scans: advisories of one component collapse when findings are added
  (against `sca/osv.py:5`); two secrets on one line merge; an OSV answer that
  does not come leaves a completed engagement without findings.
- exchange: severity, locations and long titles do not all survive the SARIF
  round trip (`ingest/sarif_export.py`).
- deep scan: the allow-list (`api/app.py:1513`) filters nothing, a per-host pin
  never happens, and of two overlapping imports one is lost
  (`api/app.py:1527`, `:1548`).
- posture: `send_alert` reports a refused or failed message
  (`analytics/alerts.py:103-108`), its caller ignores that (`api/app.py:1176`)
  and stores the snapshot, so the exposure is known and never alerted.
- projects: one "auto-closes when every finding in it is remediated or ruled a
  false positive" (`workflow/projects.py:5`). Findings that disappeared are left
  out of the count (`workflow/projects.py:151`), and a retest gives a weakness it
  detects again a new id (`workflow/retest.py:43-56`), so a project can close
  over a weakness that is still open.
- tickets: a retest that detects an issue again keeps the fresh record, whose
  ticket is none (`workflow/retest.py:43-56`); the next push files a second one.
- out-of-band: a confirmation "cannot be a false positive"
  (`checks/oast_checks.py:6`). The scanner's client follows redirects
  (`checks/base.py:80`) and payloads go into `redirect`, `next` and `return`
  parameters, so an open redirect is reported as a blind SSRF.
- deep scan: `dedupe` keeps one issue of an id and a location
  (`corvex_deepscan/findings.py:33-40`), so that a second weak cookie of an
  answer, or a second leaked field, is not reported.
- authorization: a mass assignment is to be flagged only when the value changed
  (`checks/authz_checks.py:277`) and from an echo only without a `read_url`
  (`:340`). A read before the write that got no answer counts as a different
  value, and the echo is used in any case: an echoed request body, or the stored
  object of an application that ignored the write, counts as confirmed. A login
  burst without any answer is reported as no rate limiting (`:239-248`).
- breach simulation: `bas/checks.py:10-12` means "inconclusive" to say that
  nothing could be determined. A target that answers nothing has its
  administration pages, listings and banner reported as defended; a lost
  redirect probe reports transport, and a half-lost burst rate limiting, as
  exposed.
- self-update: a pull is killed at its timeout, possibly half-way
  (`selfupdate.py:59-60`), and reported as one that failed
  (`selfupdate.py:205-208`); the code of a later start is then neither version.
- attack paths: the shortest path is chosen among the best-scored ones only
  (`attack/graph.py:10`), and the coverage matrix counts refuted findings that
  are not informational while the paths leave all of them out.
- validation: the planner promises an automatic confirmation of directory
  listings that no validator gives; a blocked probe dismisses a finding; a
  filter that refuses only the false condition confirms one.

## What is proved

For every value of the constants, from the named assumptions of the modules
only (that bounds are naturals, that `None` is no run, and the like):

`Runs_proofs`, for the control of a run and the runner under it. Of the control,
`Spec` implies `TypeOK`, `NoLostWakeup`, `AtMostOneSlip`, `StopIsHonoured`,
`StoppedMeansUser`, `ReasonIsFinal` and `ImplementsGate`. None of them is inductive alone, because they speak of what the thread holds in `st`
and `final` while handlers go on changing the control. `IInv` adds
`ControlConsistent` (how the fields of the control relate), `WakesWhenNeeded`
(when a sleeping thread can wake), `SlipBound` (at which labels the history
variable may already be one, which depends on the copy the thread has read) and
`StopRemembered` (an accepted stop carried through the control's state, the
thread's copy and the computed status). The step is proved label by label;
`ReasonIsFinal` and `ImplementsGate` follow from a lemma that lists what a step
can do to the control.

Of the runner: types, `EngagementIsWhatModulesReturned`, `LossIsContained` and
`SavedResultsOnlyGrow`, for any number of assets, modules, units and pool
threads, controlled or in the queue. `RunnerIInv` says where an asset can stand and that its lists hold findings of its own (`Positions`,
`ListsAreOwn`), that a controlled run takes assets in order (`InOrder`), and
what the two modes never do (`ModesDiffer`). That a cancellation costs at most
one module is not inductive: it needs `CutStops` (once a module is cut short no
asset gets inside a module again), `CutIsLast` (nothing behind it has begun) and
`FeedIsHeld` (what the feed showed is in the engagement, in the open list of its
module, or gone with a module that raised or was cut).

`RunLifecycle_proofs`: `TypeOK`, `QuietOutcomeStands`, `NeverResurrected` and
`EveryControlIsAGate`. `IInv` says that a control is fresh and out of
everybody's reach until its task creates it, is final only when its task is
done, and is final if it can be reached after that (`ControlsInStep`); that a
task about to store has settled on a status and holds a row unless the row is
gone (`TasksInStep`); that a handler past its gate holds a control
(`HandlersInStep`). `QuietOutcomeStands` needs the stronger `OutcomeStands`,
which also holds while requests are made: once a run has stored its outcome
undisturbed, and until another starts, no pause or resume gets past its gate.

`Findings_proofs`, for what becomes of findings:

- retest: types, `FindingsAreCoherent` and `MttrIsHonest`. `RetestIInv` adds
  that nothing is dated ahead of the present scan, that a retest scans into
  records that are new, and which copy of a finding is exact when: the row
  between scans, row and engagement during a run, and only the snapshot in
  memory during a retest. That last case is why a failed or killed retest is
  excepted. Which dates are true and which only presumed is followed from scan
  to scan (`KeysTracked`).
- attack paths: types, `PathsShowTheWorst`, for any mapping, catalogue and
  length of the list. The views are computed from the findings of the moment, so
  types are all the invariant it needs; the work is in the operators. The code's
  sorts and its running best are choices by a strict order, and the section
  proves once that a finite set in a strict order has a first element and a
  listing that leaves nothing out (`OneIsFirst`, `ListExists`, `ListHasAll`, from
  the well-foundedness of strict inclusion), then that the three orders in use
  are strict (`PreferenceIsStrict`, `PrecedenceIsStrict`, in `ShortestIsFound`).
- deep scan: types and `KindsSeenAreOnRecord`, for any captures, cap and number
  of handlers. A flow whose bodies are parts of another's shows no more than it
  (`FainterShowsLess`), and the store loses only what the cap cuts
  (`StoreKeepsWhatIsSure`); de-duplication keeps a strongest issue of every id
  and location (`DedupeKeepsTheWorst`); the register keeps severity and evidence
  (`AddingRecords`). `DeepscanIInv` adds `CopiesHoldTheirPast`: the row a handler
  holds has what was on record when it was read, and a register folded into it
  loses nothing of that.
- imports: types and `ReportsAddUp`, for any rows, reports and their order. What
  an importer makes of a row is a finding (`ParsedAreFindings`), a record is the
  merge of all that joined it (`FindingsJoin`), and what the export writes of a
  finding reads back under the same key and severity (`ExportIsRead`). The
  invariant adds to the property that the register is finite and files every
  record under its own key.
- intelligence: types and `EvidenceCounts`, for any catalogues, feeds, findings
  and versions. The first half is about the operators: whatever CVE ends up as
  the best (it is one of those named, `BestIsNamed`, by the least place where
  the recursion would have left the list), each factor is at least one, and
  rounding keeps order (`EvidenceRaises`, `EveryRankIsFair`). The second is the
  invariant `IntelIInv`: the row names every CVE a matched service is affected
  by, whichever copy was read and saved since (`MatchesAreNamed`), and the
  outdated services are those of the findings. An older service is a matched one
  whatever its suffix (`OverdueIsMatched`), and the ranking of the matches is a
  list that leaves none out, as the order by score and place is strict.
- source code: types and `CodeIsReported`, for any rules, trees, lock files and
  advisories. What is found in a line leaves out a secret only where another of
  the line stands for it (`EveryLineIsSearched`, by the least match at which the
  recursion would have erred, as induction over data is not to be had). The hits
  of a tree, ordered by file, line and match, have numbers of their own
  (`NumbersAreApart`, `SearchingIsStrict`) and are no more than the secrets
  (`HitsAreFew`), so that within the limit each is one of the numbered findings
  (`RuleIsHit`, `SearchSays`). A register into which findings are folded then
  tells of every one of them, at its severity or worse (`NumberedAreTold`).
  `CodeScanIInv` says of every upload so far that its findings report it.

`Service_proofs`, a section each for what the API does beside scanning:

- accounts: types, `OneIdentityPerUser`, `AdminAfterStart`. The key is
  `OneCreator` (only the call that wrote a user's row gives that user a
  membership, because the name is unique) and `NobodyIsForgotten` (a user
  without a membership is being given one, or that call died).
- projects: types, `ProjectIsAsEdited`, `OpenOnRecordKeepsItOpen`. As long as updates
  have not overlapped there is at most one, and its copy is the project
  (`UpdatesApart`); a handler that has been alone holds a current copy
  (`AloneIsCurrent`), so an automatic close was computed from what is there
  (`CloseIsEarned`).
- shared links: types, `LinkOpensWhileShared`. A visitor carries the share as it
  was resolved, so the invariant is about that copy: every share, in the table
  or in a handler's hands, ends when its days are over (`SharesEndInTime`), and
  whoever is past `resolve()` held one that was open then.
- tickets: types, `TicketsAreKept`. Until two writers overlap, every copy a push
  or a plain run works on has the tickets of the row (`CopiesAreCurrent`), and a
  retest has none on its slate, the old ones beside it, and a row that is either
  the one it began with or has none (`SlateIsClean`).
- self-update: types, `RunningIsCheckedOut`. The try-lock is held by exactly the
  handler that is past it (`LockIsHeld`), and the commit an update remembers to
  compare with is the one that runs (`RunningIsKnown`): otherwise an upgrade
  could pull new code and see no reason to restart.
- inventory: types, `CuratedSurvives`, which with its types is inductive: a row is
  filed under its normalised identifier whatever the spelling, and filing a
  survey's asset keeps what a person wrote in the row (`UpsertKeeps`).

`Probes_proofs`, for what is sent to a target:

- rate limiter: types, `RateIsKept`. What was withdrawn since any moment, and
  what could be taken now, come from a full bucket and what the rate has brought
  since (`OpenStretches`); once the clock moves on a stretch is settled
  (`ClosedStretches`).
- out-of-band: types, `OnlyCalledIsAccused`, because the count of a token tells
  of calls for that very plant, by the target or, where it redirects, the scanner
  (`CountsAreOwn`).
- crawler: types, `CrawlCoversReach`, on any site with finitely many links a
  page. `QueueIsLevels` is the invariant of a breadth-first search: the queue is
  sorted by depth and spans two depths at most; every page is queued at its
  distance from the seed; no page of an earlier level is missing; the links of
  a visited page above the depth limit have all been queued. If the crawl ends
  with a page missing, take the nearest one (`NothingIsMissed`): its predecessor
  was visited and followed. Distances are lengths of paths (`Within`), so that
  a step more or less is a path with a page appended or cut off.
- fuzzer: types, `IndifferentPointIsClean`. What is recorded for the point at
  work is what its detectors say about its own baseline (`PointIsJudged`).
- authorization: types, `AccusationsAreEarned`. Between the three steps of
  `MassAssignmentCheck` the role stays what the first read brought unless the
  application takes the write or others change it (`BaselineStands`), and an
  answer that shows the role echoes the input or what was stored
  (`ReplyStands`).

`Verdicts_proofs`, for what is said about a target:

- breach simulation: types and `VerdictsAreEarned`, which is its own invariant,
  as losses only grow and a home page that is lost is lost to each of the six
  checks that look at it.
- validation: types, `VerdictFollowsProbes`. The validators that failed on the
  current finding are those whose probe was lost, and a later one fails only
  after the first (`FailedAreLost`); nothing has been asked about findings to
  come.
- native checks: types, `SilenceIsNoWeakness`, `CrawledSiteIsSeenAfresh`. For
  each of the checks a lemma (`...Backed`) compares what it reports with an
  answer lost to what it reports with all of them; most report a subset, five
  that look for the first or the worst place report at another one.

`Monitoring_proofs`: `RecordedMeansTried` and `NamedOnce` of the posture,
where `CapturesDealWith` says that what a capture holds back or is about to
record has been tried or excused, and `SerialCaptures` where the named
findings are as long as captures keep apart; `LastRunIsFinished`,
`DisabledRunsAtMostOnce` and `NoticesAddUp` of the schedules, where
`JobsHaveRows` ties each thread to its row, `Lateness` follows a schedule from
the list it was read into, and `Notices` says of an orderly schedule what its
reader knows while a run is under way: the findings of the newest row below the
one being filled, which is the row the diff will pick.

`Platform_proofs`: the composition. Every step of `MCPlatform` is a step of one
component and leaves the variables of the others alone (`ServiceStepsAre`,
`RecordStepsAre`, `ProbeStepsAre`, `VerdictStepsAre`), so a behaviour of the
whole is one of each component's own specification (`...Runs`), and what was
proved of it alone carries over: the composed `TypeOK` and `PlatformPromises`,
the conjunction of all the safety properties the run `Platform` checks. Only the
callback server's specification asks for fairness, which the whole does not; its
invariants do without it (`OastStays`). These theorems rest on the sections above
and add no argument about a component.

Proved and not run: the type invariants of modules whose runs spend their
properties elsewhere, `NoLostWakeup`, `StoppedMeansUser`, `ReasonIsFinal`,
`EveryControlIsAGate`, `OneIdentityPerUser` and `LastRunIsFinished`.

The assumptions on the constants say no more than what the code makes of them:
that bounds are naturals; that the seed is a page of its own site and a page has
finitely many links and scripts (`CrawlerAssumption`); that an answer has a
status and shows some set of things, and a discovered endpoint a path
(`WebAssumption`); that findings, defences and captured requests are records of
the fields the code reads (`ValidatorsAssumption`, `BasAssumption`,
`DeepscanAssumption`); that a label the tables know stands for a severity, and a
finding of the program's own JSON validates as one (`ImportsAssumption`); that
catalogues, banners and versions have the fields the code reads and a product of
the seed lists no CVE twice (`IntelAssumption`); that a rule has a severity, what
is no archive is one file, and a lock file's entries and an advisory's label are
of the form the parsers give them (`CodeScanAssumption`). TLC evaluates each of
them.

Only model-checked: liveness (`CancelledRunEnds`, `EveryRunEnds`,
`DueScheduleGetsItsTurn`, `OnlyAPauseHolds`), since fairness and `ENABLED` are
beyond the prover. Every invariant and every other action property of a passing
run is a theorem.

## Abstractions

Left out of the modelled parts: log, counters and progress snapshots; texts,
patterns and payloads, of which only what they match is kept; scores where they
decide nothing; evidence lists except where they are counted; exceptions of
SQLite itself. A restart of the server is modelled for findings (`Retest`),
schedules, captures, catalogues, the collaborator and self-update, not for the
status of a row that was `running`: no code ever looks at such a row again, so
it keeps that status.

To be read with the properties: `Intel` has one refresher at a time (a second
one would meet the table `Posture` shows half-filled), enriches with the
intelligence it has when it saves, and rounds scores down after each factor; no
step gives a finding the status `exploited`, as nothing in the code does.
`CodeScan` handles one upload and leaves its registration in the inventory out.
Of a match it keeps the rule, what the rule's checks say of the value and which
values lie within which. `Bas` reads one cookie. In `WorkflowRunner` a scan is
one process with an outcome per unit; in `RunLifecycle` `check()` is one step,
as `RunControl` has shown what it can do in between.

## Not modelled, and why

- Password hashing, token signing, encryption of the credential vault: library
  calls, taken as sound by `Accounts`.
- Policy, scope and audit log: tables of decisions and an append-only log; scope
  enters `WorkflowRunner` as the set of runnable assets.
- External tools and their output, authenticated remote commands, network
  discovery, the language-model analyst: I/O whose results enter the models as
  choices (a unit finds, finds nothing or raises; what discovery registers).
- HTML parsing and the headless browser: a page is data of `Crawler`.
- Reports (HTML, PDF, DOCX), SVG and Mermaid: layout of documents.
- CLI, configuration, engine facade: wiring.

`PROJECT.json` gives the status of each part and the lines each definition
stands for.
