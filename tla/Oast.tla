-------------------------------- MODULE Oast --------------------------------
(***************************************************************************)
(* Out-of-band confirmation (pentestiq/oast, the checks of                 *)
(* pentestiq/checks/oast_checks.py and the detectors that use a            *)
(* collaborator): a check plants payloads that carry a token each, waits,  *)
(* and asks the collaborator which tokens were called.                     *)
(*                                                                         *)
(* The target calls whenever it likes, also long after the scan, as often  *)
(* as it likes; every call is recorded by a thread of the collaborator.    *)
(* The check keeps its tokens in a local list and nowhere else.            *)
(***************************************************************************)
EXTENDS Naturals, FiniteSets

CONSTANTS
    Plants,        \* places a payload is put: parameters, headers, forms
    HostOnly,      \* those that get the host of the payload URL and no path
    Redirecting,   \* those whose answer redirects to the payload URL
    Batches,       \* the plants of each check; a detector's is one point
    Clients,       \* ways the client may be configured
    MaxPerToken,
    MaxFaults,     \* bound: lost probes, failed polls, collaborator restarts
    HostLabel      \* what the host of the collaborator's URL starts with

\* local() shares the store; otherwise a base URL, a domain, or both are given.
Client == [store: BOOLEAN, url: BOOLEAN, domain: BOOLEAN]

ASSUME OastAssumption ==
    /\ HostOnly \subseteq Plants /\ Redirecting \subseteq Plants
    /\ Batches \subseteq SUBSET Plants
    /\ \A a, b \in Batches : a # b => a \intersect b = {}
    /\ Clients \subseteq Client
    /\ \A c \in Clients : c.store => c.url
    /\ MaxPerToken \in Nat \ {0} /\ MaxFaults \in Nat
    /\ HostLabel \notin Plants

\* new_token(): 20 random hex digits, so a plant is its token.
Tokens == Plants \union {HostLabel}

VARIABLES
    client,
    labelled,    \* the host's first label has the form of a token
    left,        \* checks still to be run
    phase,       \* of the running check
    batch,       \* jobs: what it has planted or will
    outstanding, \* still to be planted, or to be polled
    reached,     \* payloads that arrived at the target
    byToken,     \* _by_token: how many interactions
    hits,        \* findings
    faults,
    called       \* history: plants whose payload the target acted on

oastVars == <<client, labelled, left, phase, batch, outstanding, reached, byToken, hits, faults, called>>

OastTypeOK ==
    /\ client \in Clients /\ labelled \in BOOLEAN
    /\ left \subseteq Batches
    /\ phase \in {"next", "plant", "poll"}
    /\ batch \in Batches \union {{}} /\ outstanding \subseteq batch
    /\ reached \subseteq Plants
    /\ byToken \in [Tokens -> 0..MaxPerToken]
    /\ hits \subseteq Plants /\ called \subseteq reached
    /\ faults \in 0..MaxFaults

OastInit ==
    /\ client \in Clients /\ labelled \in BOOLEAN
    /\ left = Batches
    /\ phase = "next"
    /\ batch = {} /\ outstanding = {}
    /\ reached = {}
    /\ byToken = [t \in Tokens |-> 0]
    /\ hits = {} /\ called = {}
    /\ faults = 0

Fault == faults < MaxFaults /\ faults' = faults + 1

\* Seeded fault: the tokens of a check are not told apart.
ExtractSharedToken(p) == {CHOOSE q \in Plants : \E b \in Batches : {p, q} \subseteq b}

\* extract_token: the first label of the host, else the first part of the path.
\* In domain form the label is the token; in path form it is whatever the host
\* is called, and a payload without a path carries no token.
ExtractToken(p) ==
    IF client.domain THEN {p}
    ELSE IF labelled THEN {HostLabel}
    ELSE {p} \ HostOnly

\* record(), for an HTTP request or a DNS query, up to the bucket's limit.
Record(p) ==
    byToken' = [t \in Tokens |-> IF t \in ExtractToken(p) /\ byToken[t] < MaxPerToken
                                THEN byToken[t] + 1 ELSE byToken[t]]

-----------------------------------------------------------------------------
(***************************************************************************)
(* The checks, one at a time.                                              *)
(***************************************************************************)

\* Without URL and domain, new_token() raises and the check yields nothing.
BeginCheck(b) ==
    /\ phase = "next"
    /\ b \in left
    /\ left' = left \ {b}
    /\ IF client.url \/ client.domain
       THEN phase' = "plant" /\ batch' = b /\ outstanding' = b
       ELSE UNCHANGED <<phase, batch, outstanding>>
    /\ UNCHANGED <<client, labelled, reached, byToken, hits, faults, called>>

\* The request is sent and its outcome ignored; the job is noted in any case.
\* The scanner's own client follows redirects, here to the collaborator; that
\* request may fail like any other.
Plant(p) ==
    /\ phase = "plant"
    /\ p \in outstanding
    /\ outstanding' = outstanding \ {p}
    /\ \/ /\ reached' = reached \union {p}
          /\ \/ p \in Redirecting /\ Record(p)
             \/ UNCHANGED byToken
          /\ UNCHANGED faults
       \/ Fault /\ UNCHANGED <<reached, byToken>>
    /\ UNCHANGED <<client, labelled, left, phase, batch, hits, called>>

\* Planting is over; the wait lasts as long as other steps take.
Planted ==
    /\ phase = "plant" /\ outstanding = {}
    /\ phase' = "poll"
    /\ outstanding' = batch
    /\ UNCHANGED <<client, labelled, left, batch, reached, byToken, hits, faults, called>>

\* poll(): in the shared store, or over HTTP at the base URL; any error, the
\* lack of a base URL among them, is an empty answer.
Recorded(p) == (client.store \/ client.url) /\ byToken[p] > 0

PollToken(p) ==
    /\ phase = "poll"
    /\ p \in outstanding
    /\ outstanding' = outstanding \ {p}
    /\ \/ /\ hits' = IF Recorded(p) THEN hits \union {p} ELSE hits
          /\ UNCHANGED faults
       \/ ~client.store /\ Fault /\ UNCHANGED hits
    /\ UNCHANGED <<client, labelled, left, phase, batch, reached, byToken, called>>

\* The list of jobs is gone when run() returns.
CheckEnds ==
    /\ phase = "poll" /\ outstanding = {}
    /\ phase' = "next"
    /\ batch' = {}
    /\ UNCHANGED <<client, labelled, left, outstanding, reached, byToken, hits, faults, called>>

-----------------------------------------------------------------------------
(***************************************************************************)
(* The collaborator.                                                       *)
(***************************************************************************)

\* The target, or a browser it has served, calls what it was given.
Interact(p) ==
    /\ p \in reached
    /\ called' = called \union {p}
    /\ Record(p)
    /\ UNCHANGED <<client, labelled, left, phase, batch, outstanding, reached, hits, faults>>

\* The store is in memory.
CollaboratorRestarts ==
    /\ ~client.store
    /\ Fault
    /\ byToken' = [t \in Tokens |-> 0]
    /\ UNCHANGED <<client, labelled, left, phase, batch, outstanding, reached, hits, called>>

CheckStep ==
    \/ \E b \in Batches : BeginCheck(b)
    \/ \E p \in Plants : Plant(p) \/ PollToken(p)
    \/ Planted
    \/ CheckEnds

OastNext ==
    \/ CheckStep
    \/ \E p \in Plants : Interact(p)
    \/ CollaboratorRestarts

OastSpec == OastInit /\ [][OastNext]_oastVars /\ WF_oastVars(CheckStep)

-----------------------------------------------------------------------------
(***************************************************************************)
(* Properties                                                              *)
(***************************************************************************)

\* What is reported was acted on by the target, at the very place the finding
\* names, however calls overlap, come twice, or come from what an earlier check
\* planted; only where the answer redirects to the payload may it have been the
\* scanner's own client that called.  A confirmation "cannot be a false positive",
\* says oast_checks.py (line 6), but an open redirect is reported as a blind SSRF.
OnlyCalledIsAccused == hits \subseteq called \union Redirecting

\* "Tokens are registered so the finding materializes whenever the callback lands":
\* what the target acts on is reported in the end.
CallbackMaterializes == \A p \in Plants : (p \in called) ~> (p \in hits)

=============================================================================
