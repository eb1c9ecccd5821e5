------------------------------ MODULE Projects ------------------------------
(***************************************************************************)
(* A remediation project: SqliteProjectStore and project_progress of       *)
(* pentestiq/workflow/projects.py with the /projects endpoints of          *)
(* pentestiq/api/app.py.                                                   *)
(*                                                                         *)
(* update() reads the project under the store's lock, changes its copy and *)
(* writes the whole copy back under the lock again.  Every answer that     *)
(* shows a project, to a GET as well as to a PATCH, works out its progress *)
(* from the findings as they are then, and closes it by another update()   *)
(* when all findings that can be found are done.  Scans change, drop and   *)
(* restore findings meanwhile.                                             *)
(***************************************************************************)
EXTENDS Naturals, FiniteSets

CONSTANTS
    Items,       \* (engagement, finding) pairs a project may hold
    Handlers,    \* handler threads
    Patches,     \* bodies of PATCH requests
    MaxChanges     \* bound: PATCH and DELETE requests

\* The body of a PATCH; "keep" for a status that is not given.
Patch == [status: {"keep", "open", "closed"}, add: SUBSET Items, remove: SUBSET Items]

ASSUME ProjectsAssumption == MaxChanges \in Nat \ {0} /\ Patches \subseteq Patch

VARIABLES
    finding,     \* that of each item: open, done, or not to be found
    project,     \* the row
    request,     \* what each handler is in the middle of
    changes,
    wanted,      \* history: the project as the requests ask for, in order
    apart,       \* history: no two updates ever overlapped
    settled      \* history: closed automatically, alone, and nothing changed since

projectVars == <<finding, project, request, changes, wanted, apart, settled>>

Project == [there: BOOLEAN, status: {"open", "closed"}, items: SUBSET Items]
NoProject == [there |-> FALSE, status |-> "open", items |-> {}]

Close == [status |-> "closed", add |-> {}, remove |-> {}]

Request == [pc: {"idle", "write", "show"}, patch: Patch, copy: Project, alone: BOOLEAN,
            auto: BOOLEAN]
NoRequest == [pc |-> "idle", patch |-> Close, copy |-> NoProject, alone |-> TRUE,
              auto |-> FALSE]

ProjectsTypeOK ==
    /\ finding \in [Items -> {"open", "done", "missing"}]
    /\ project \in Project
    /\ wanted \in Project
    /\ request \in [Handlers -> Request]
    /\ changes \in 0..MaxChanges
    /\ apart \in BOOLEAN
    /\ settled \in BOOLEAN

ProjectsInit ==
    /\ finding = [i \in Items |-> "open"]
    /\ project = NoProject
    /\ request = [c \in Handlers |-> NoRequest]
    /\ changes = 0
    /\ wanted = NoProject
    /\ apart = TRUE
    /\ settled = FALSE

-----------------------------------------------------------------------------

\* Seeded fault: a project with nothing left to resolve counts as complete.
CompleteIfNothingOpen(items) ==
    \A i \in items : finding[i] \in {"done", "missing"}

\* project_progress: items whose finding cannot be found are left out.
Complete(items) ==
    LET resolvable == {i \in items : finding[i] # "missing"}
    IN resolvable # {} /\ \A i \in resolvable : finding[i] = "done"

\* The fields of a request, applied to a project in the order of the code.
Apply(p, patch) ==
    [p EXCEPT !.status = IF patch.status = "keep" THEN @ ELSE patch.status,
              !.items = (@ \union patch.add) \ patch.remove]

Updating == {c \in Handlers : request[c].pc = "write"}

\* Other requests are no longer alone once this one starts.
Crowded(r) == [c \in Handlers |-> [r[c] EXCEPT !.alone = FALSE]]

\* Seeded fault: the update works on the project the handler already has.
BeginUpdateOnOldCopy(c, patch, auto) ==
    LET old == IF auto THEN request[c].copy ELSE project IN
    /\ request' = [request EXCEPT ![c].pc = "write", ![c].patch = patch,
                                  ![c].copy = old, ![c].auto = auto]
    /\ apart' = (apart /\ Updating = {})

\* update(): get, then the copy is changed ...
BeginUpdate(c, patch, auto) ==
    /\ request' = [request EXCEPT ![c].pc = "write", ![c].patch = patch,
                                  ![c].copy = project, ![c].auto = auto]
    /\ apart' = (apart /\ Updating = {})

\* ... and written back whole; the row may be gone by then.  Whoever asked
\* shows the copy it wrote; an automatic close ends the request.
WriteBack(c) ==
    LET q == request[c]
        new == Apply(q.copy, q.patch)
    IN  /\ q.pc = "write"
        /\ project' = IF project.there THEN new ELSE project
        /\ wanted' = IF wanted.there THEN Apply(wanted, q.patch) ELSE wanted
        /\ request' = [request EXCEPT ![c] = IF q.auto THEN NoRequest
                                             ELSE [q EXCEPT !.pc = "show", !.copy = new]]
        /\ settled' = IF q.auto THEN project.there /\ q.alone ELSE FALSE
        /\ UNCHANGED <<finding, changes, apart>>

\* POST /projects, or a project from the open findings of an engagement.
CreateProject(c, items) ==
    /\ request[c].pc = "idle"
    /\ changes = 0 /\ ~project.there
    /\ changes' = 1
    /\ project' = [there |-> TRUE, status |-> "open", items |-> items]
    /\ wanted' = project'
    /\ request' = [request EXCEPT ![c] = [NoRequest EXCEPT !.pc = "show", !.copy = project']]
    /\ UNCHANGED <<finding, apart, settled>>

PatchProject(c, patch) ==
    /\ request[c].pc = "idle"
    /\ changes < MaxChanges
    /\ project.there
    /\ changes' = changes + 1
    /\ request' = [Crowded(request) EXCEPT
                     ![c] = [pc |-> "write", patch |-> patch, copy |-> project, auto |-> FALSE,
                             alone |-> \A d \in Handlers : request[d].pc = "idle"]]
    /\ apart' = (apart /\ Updating = {})
    /\ UNCHANGED <<finding, project, wanted, settled>>

GetProject(c) ==
    /\ request[c].pc = "idle"
    /\ project.there
    /\ request' = [Crowded(request) EXCEPT
                     ![c] = [NoRequest EXCEPT !.pc = "show", !.copy = project,
                             !.alone = \A d \in Handlers : request[d].pc = "idle"]]
    /\ UNCHANGED <<finding, project, changes, wanted, apart, settled>>

\* _project_dict: progress over the items of the copy, and the close.
ShowProject(c) ==
    LET p == request[c].copy IN
    /\ request[c].pc = "show"
    /\ IF Complete(p.items) /\ p.status # "closed" /\ project.there
       THEN BeginUpdate(c, Close, TRUE)
       ELSE request' = [request EXCEPT ![c] = NoRequest] /\ UNCHANGED apart
    /\ UNCHANGED <<finding, project, changes, wanted, settled>>

DeleteProject ==
    /\ changes < MaxChanges
    /\ project.there
    /\ changes' = changes + 1
    /\ project' = NoProject
    /\ wanted' = NoProject
    /\ settled' = FALSE
    /\ UNCHANGED <<finding, request, apart>>

\* Scans, retests and dismissals, between any two steps.  A finding goes missing
\* with its engagement, or in a retest that records it afresh under another id.
FindingMoves(i, to) ==
    /\ finding[i] # to
    /\ finding' = [finding EXCEPT ![i] = to]
    /\ request' = Crowded(request)
    /\ settled' = FALSE
    /\ UNCHANGED <<project, changes, wanted, apart>>

ProjectsNext ==
    \/ \E c \in Handlers :
         \/ \E items \in SUBSET Items : CreateProject(c, items)
         \/ \E patch \in Patches : PatchProject(c, patch)
         \/ GetProject(c) \/ ShowProject(c) \/ WriteBack(c)
    \/ DeleteProject
    \/ \E i \in Items, to \in {"open", "done", "missing"} : FindingMoves(i, to)

ProjectsSpec == ProjectsInit /\ [][ProjectsNext]_projectVars

-----------------------------------------------------------------------------
(***************************************************************************)
(* Properties                                                              *)
(***************************************************************************)

\* The project is what the requests made of it, one after the other, as long as
\* no two updates overlapped.  An answer that closes the project must not take
\* back what others changed after it had read the project.
ProjectIsAsEdited == apart => project = wanted

\* A project that closes by itself, while nobody else is at it, has at least one
\* finding resolved and none open among those on record: an empty project never
\* closes, and neither does one whose findings have all disappeared.  It is not
\* said that every finding was dealt with, which is what workflow/projects.py
\* promises (line 5): one that cannot be found counts for nothing, and a retest
\* that detects a weakness again gives it a new id and takes the old one away, so
\* that a project closes over weaknesses that are still there.
OpenOnRecordKeepsItOpen ==
    settled => /\ project.status = "closed"
               /\ \E i \in project.items : finding[i] = "done"
               /\ \A i \in project.items : finding[i] # "open"

=============================================================================
