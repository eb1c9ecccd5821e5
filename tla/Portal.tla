------------------------------- MODULE Portal -------------------------------
(***************************************************************************)
(* The read-only share links of the client portal (workflow/portal.py):    *)
(* made under an edition that has the portal (edition.py), good until they *)
(* expire, are revoked or their engagement is deleted, and used by         *)
(* visitors who are not logged in.                                         *)
(***************************************************************************)
EXTENDS Integers

CONSTANTS
    Customers,      \* the engagements
    Links,        \* share tokens
    Lifetimes,    \* expires_days of a share; 0 is without end
    Visitors,     \* handlers of the public pages
    MaxDays       \* bound: days that pass

ASSUME PortalAssumption == Lifetimes \subseteq Nat /\ MaxDays \in Nat

NoEnd == -1

VARIABLES
    edition,    \* the plan
    day,        \* the clock
    alive,      \* the engagements that exist
    link,       \* link[t]: the share of a token
    visit       \* visit[v]: the share handler v has resolved

portalVars == <<edition, day, alive, link, visit>>

NoLink == [made |-> FALSE]

PortalTypeOK ==
    /\ edition \in {"community", "premium"}
    /\ day \in 0..MaxDays
    /\ alive \subseteq Customers
    /\ \A t \in Links : link[t].made => link[t].client \in Customers
    /\ \A v \in Visitors : visit[v].at \in {"idle", "resolved", "served", "refused"}

PortalInit ==
    /\ edition = "community"
    /\ day = 0
    /\ alive = Customers
    /\ link = [t \in Links |-> NoLink]
    /\ visit = [v \in Visitors |-> [at |-> "idle"]]

\* detect_edition(): the environment or a file, read anew at each call.
ChangeEdition ==
    /\ edition' \in {"community", "premium"} \ {edition}
    /\ UNCHANGED <<day, alive, link, visit>>

DayPasses ==
    /\ day < MaxDays
    /\ day' = day + 1
    /\ UNCHANGED <<edition, alive, link, visit>>

DeleteClient(e) ==
    /\ e \in alive
    /\ alive' = alive \ {e}
    /\ UNCHANGED <<edition, day, link, visit>>

CreateShare(t, e, days) ==
    /\ edition = "premium"
    /\ e \in alive
    /\ ~link[t].made
    /\ link' = [link EXCEPT ![t] = [made |-> TRUE, client |-> e, revoked |-> FALSE,
                                    created |-> day, days |-> days,
                                    expires |-> IF days > 0 THEN day + days ELSE NoEnd]]
    /\ UNCHANGED <<edition, day, alive, visit>>

RevokeShare(t) ==
    /\ link[t].made
    /\ link' = [link EXCEPT ![t].revoked = TRUE]
    /\ UNCHANGED <<edition, day, alive, visit>>

\* Seeded fault: a share without an expiry is one that expired long ago.
IsValidUntil(share) == ~share.revoked /\ day <= share.expires

\* is_valid()
IsValid(share) == ~share.revoked /\ (share.expires = NoEnd \/ day <= share.expires)

\* resolve(); the engagement is looked up after it.
Resolve(v, t) ==
    /\ visit[v].at # "resolved"
    /\ visit' = [visit EXCEPT ![v] = [at |-> IF link[t].made /\ IsValid(link[t]) THEN "resolved"
                                             ELSE "refused",
                                      share |-> link[t], since |-> day]]
    /\ UNCHANGED <<edition, day, alive, link>>

PortalEngagement(v) ==
    /\ visit[v].at = "resolved"
    /\ visit' = [visit EXCEPT ![v].at = IF visit[v].share.client \in alive THEN "served"
                                        ELSE "refused"]
    /\ UNCHANGED <<edition, day, alive, link>>

PortalNext ==
    \/ ChangeEdition \/ DayPasses
    \/ \E e \in Customers : DeleteClient(e)
    \/ \E t \in Links : \/ RevokeShare(t)
                        \/ \E e \in Customers, days \in Lifetimes : CreateShare(t, e, days)
                        \/ \E v \in Visitors : Resolve(v, t)
    \/ \E v \in Visitors : PortalEngagement(v)

PortalSpec == PortalInit /\ [][PortalNext]_portalVars

-----------------------------------------------------------------------------
\* Was the share withdrawn, or its time up, on the day the visitor came?
Closed(share, when) == share.revoked \/ (share.days > 0 /\ when > share.created + share.days)

\* Whatever happens between resolving the token and looking the engagement up,
\* and whatever becomes of the plan: a visitor is served only through a link that
\* was open when they came, and is turned away only from one that was not or
\* whose engagement is gone.
LinkOpensWhileShared ==
    \A v \in Visitors :
        /\ visit[v].at = "served" => ~Closed(visit[v].share, visit[v].since)
        /\ visit[v].at = "refused" /\ visit[v].share.made =>
              Closed(visit[v].share, visit[v].since) \/ visit[v].share.client \notin alive

=============================================================================
