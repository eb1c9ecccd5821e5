----------------------------- MODULE SelfUpdate -----------------------------
(***************************************************************************)
(* The one-click upgrade of the platform's own code (selfupdate.py): pull  *)
(* the deployment's git remote, reinstall, and restart in place.  Two      *)
(* administrators may ask for it at the same time; the lock is a try-lock, *)
(* and the commit it compares with is read before the lock is taken.       *)
(***************************************************************************)
EXTENDS Integers

CONSTANTS
    Admins,       \* handlers of /update/apply
    MaxCommits    \* bound: commits published

ASSUME SelfUpdateAssumption == MaxCommits \in Nat

VARIABLES
    deployment,   \* how the program is deployed
    remote,       \* the newest commit of the remote
    disk,         \* the commit checked out
    running,      \* the commit the process has loaded
    lock,         \* _UPDATE_LOCK
    update,       \* update[h]: where handler h is
    restart,      \* a restart is due
    orphan        \* history: a git pull was left to itself, by a restart or at its timeout

updateVars == <<deployment, remote, disk, running, lock, update, restart, orphan>>

NoUpdate == [at |-> "idle", before |-> 0, after |-> 0]

UpdateTypeOK ==
    /\ deployment \in {"native-git", "docker", "pip"}
    /\ {remote, disk, running} \subseteq 0..MaxCommits
    /\ {lock, restart, orphan} \subseteq BOOLEAN
    /\ update \in [Admins -> [at : {"idle", "lock", "fetch", "pull", "install"},
                              before : 0..MaxCommits, after : 0..MaxCommits]]

UpdateInit ==
    /\ deployment \in {"native-git", "docker", "pip"}
    /\ remote = 0 /\ disk = 0 /\ running = 0
    /\ lock = FALSE /\ restart = FALSE /\ orphan = FALSE
    /\ update = [h \in Admins |-> NoUpdate]

Publish ==
    /\ remote < MaxCommits
    /\ remote' = remote + 1
    /\ UNCHANGED <<deployment, disk, running, lock, update, restart, orphan>>

\* Containers and installs that are no checkout are told how to update.
ApplyUpdate(h) ==
    /\ update[h].at = "idle"
    /\ deployment = "native-git"
    /\ update' = [update EXCEPT ![h] = [at |-> "lock", before |-> disk, after |-> 0]]
    /\ UNCHANGED <<deployment, remote, disk, running, lock, restart, orphan>>

TakeLock(h) ==
    /\ update[h].at = "lock"
    /\ lock' = TRUE
    /\ update' = [update EXCEPT ![h] = IF lock THEN NoUpdate ELSE [@ EXCEPT !.at = "fetch"]]
    /\ UNCHANGED <<deployment, remote, disk, running, restart, orphan>>

GiveUp(h) ==
    /\ lock' = FALSE
    /\ update' = [update EXCEPT ![h] = NoUpdate]
    /\ UNCHANGED disk

\* git fetch, without network or with it.
Fetch(h) ==
    /\ update[h].at = "fetch"
    /\ \/ GiveUp(h)
       \/ update' = [update EXCEPT ![h].at = "pull"] /\ UNCHANGED <<disk, lock>>
    /\ UNCHANGED <<deployment, remote, running, restart, orphan>>

\* git pull --ff-only fetches once more; local changes stop it.  At its timeout
\* git is killed, wherever it is, but not what it has started: the commit may
\* still be checked out after the update has been reported as failed.
Pull(h) ==
    /\ update[h].at = "pull"
    /\ \/ GiveUp(h) /\ orphan' \in {orphan, TRUE}
       \/ /\ disk' = remote
          /\ update' = [update EXCEPT ![h].at = "install", ![h].after = remote]
          /\ UNCHANGED <<lock, orphan>>
    /\ UNCHANGED <<deployment, remote, running, restart>>

\* Seeded fault: the update counts as one only if there is still something behind.
StillBehind(h) == update[h].after # remote

Changed(h) == update[h].before # update[h].after

\* pip install is best effort; the answer is given and a restart may be due.
Install(h) ==
    /\ update[h].at = "install"
    /\ restart' = (restart \/ Changed(h))
    /\ lock' = FALSE
    /\ update' = [update EXCEPT ![h] = NoUpdate]
    /\ UNCHANGED <<deployment, remote, disk, running, orphan>>

\* execv, or a supervisor after a crash: a process with what is on disk, no lock,
\* and no handlers.
Begun ==
    /\ running' = disk
    /\ lock' = FALSE
    /\ restart' = FALSE
    /\ orphan' = (orphan \/ \E h \in Admins : update[h].at = "pull")
    /\ update' = [h \in Admins |-> NoUpdate]
    /\ UNCHANGED <<deployment, remote>>

RestartLater == restart /\ Begun /\ UNCHANGED disk

Die == Begun /\ UNCHANGED disk

\* What a restart or a timeout left of a pull.
OrphanPulls ==
    /\ orphan
    /\ disk' = remote
    /\ UNCHANGED <<deployment, remote, running, lock, update, restart, orphan>>

UpdateNext ==
    \/ Publish \/ RestartLater \/ Die \/ OrphanPulls
    \/ \E h \in Admins : ApplyUpdate(h) \/ TakeLock(h) \/ Fetch(h) \/ Pull(h) \/ Install(h)

UpdateSpec == UpdateInit /\ [][UpdateNext]_updateVars

-----------------------------------------------------------------------------
\* Between updates the process runs what is checked out, or is about to restart
\* into it, in whatever order two administrators' updates, new commits, failures
\* and restarts come.  A pull left to itself, by a restart or by its timeout, may
\* put code on disk, or half of it, that nothing will load: the next update takes
\* it for what runs.  A process holds the lock for one update only.
RunningIsCheckedOut ==
    orphan \/ /\ (\A h \in Admins : update[h].at # "install") /\ ~restart => running = disk
              /\ \A g, h \in Admins :
                    {update[g].at, update[h].at} \subseteq {"fetch", "pull", "install"} => g = h

=============================================================================
