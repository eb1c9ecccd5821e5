------------------------------ MODULE Tickets -------------------------------
(***************************************************************************)
(* Tickets pushed to a tracker (workflow/tickets.py, the ticket endpoints  *)
(* of api/app.py).  The handler reads the engagement's row, waits for the  *)
(* tracker and writes the whole row back; a scan of the engagement         *)
(* (_run_engagement) works on a copy of the row as well.  A plain run adds *)
(* to the copy; a retest starts from a clean slate, and merge_retest       *)
(* (workflow/retest.py) joins what it found with what was there, the fresh *)
(* record of a finding in place of the old one and of its ticket.          *)
(***************************************************************************)
EXTENDS Integers, FiniteSets

CONSTANTS
    Issues,       \* the findings a scan may find
    Pushers,      \* handlers that push tickets
    MaxTickets    \* bound: tickets the tracker files

ASSUME TicketsAssumption == MaxTickets \in Nat

\* The settings: no endpoint, Jira without a project, or all that is needed.
Settings == {"none", "partial", "complete"}

VARIABLES
    row,        \* the stored engagement: its findings and their tickets
    settings,   \* the ticketing settings of the tenant
    push,       \* push[h]: the ticket handler h is pushing, and its copy of the row
    scan,       \* the running scan: its kind, its copy of the row, the row it began with
    filed,      \* tickets the tracker has filed
    confirmed,  \* history: the last ticket confirmed (201) for each finding
    dropped,    \* history: findings a retest has thrown the ticketed record of away
    raced       \* history: the row was written while somebody else had a copy of it

ticketVars == <<row, settings, push, scan, filed, confirmed, dropped, raced>>

NoTickets == [f \in Issues |-> 0]
NoPush == [at |-> "idle"]
NoScan == [busy |-> FALSE]

TicketsTypeOK ==
    /\ row \in [alive : BOOLEAN, found : SUBSET Issues, ticket : [Issues -> 0..MaxTickets]]
    /\ settings \in Settings
    /\ \A h \in Pushers : push[h].at \in {"idle", "posting", "answered"}
    /\ filed \in 0..MaxTickets
    /\ confirmed \in [Issues -> 0..MaxTickets]
    /\ dropped \subseteq Issues
    /\ raced \in BOOLEAN

TicketsInit ==
    /\ row = [alive |-> TRUE, found |-> {}, ticket |-> NoTickets]
    /\ settings = "none"
    /\ push = [h \in Pushers |-> NoPush]
    /\ scan = NoScan
    /\ filed = 0
    /\ confirmed = NoTickets
    /\ dropped = {}
    /\ raced = FALSE

\* update(engagement=...): the whole row, if it still exists.
WriteRow(copy, others) ==
    /\ row' = IF row.alive THEN copy ELSE row
    /\ raced' = (raced \/ others)

Pushing(handlers) == \E h \in handlers : push[h].at # "idle"

CleanSlate == [row EXCEPT !.found = {}, !.ticket = NoTickets]

ScanStarts(kind) ==
    /\ row.alive /\ ~scan.busy
    /\ scan' = [busy |-> TRUE, kind |-> kind, before |-> row,
                copy |-> IF kind = "retest" THEN CleanSlate ELSE row]
    /\ UNCHANGED <<row, settings, push, filed, confirmed, dropped, raced>>

\* A finding already in the copy keeps its record, any other is new and has no
\* ticket; the partial save that follows may fail unnoticed.
Detects(f) ==
    /\ scan.busy
    /\ scan' = [scan EXCEPT !.copy.found = @ \union {f}]
    /\ WriteRow(scan'.copy, Pushing(Pushers)) \/ UNCHANGED <<row, raced>>
    /\ UNCHANGED <<settings, push, filed, confirmed, dropped>>

\* merge_retest: what was found again is the fresh record, the rest is as before.
Merged(current, previous) ==
    [current EXCEPT !.found = @ \union previous.found,
                    !.ticket = [f \in Issues |-> IF f \in current.found THEN @[f]
                                                ELSE previous.ticket[f]]]

\* The engine returns, also when the scan was stopped.
EndScan ==
    /\ scan.busy
    /\ IF scan.kind = "retest"
       THEN /\ WriteRow(Merged(scan.copy, scan.before), Pushing(Pushers))
            /\ dropped' = dropped \union scan.copy.found
       ELSE /\ WriteRow(scan.copy, Pushing(Pushers))
            /\ UNCHANGED dropped
    /\ scan' = NoScan
    /\ UNCHANGED <<settings, push, filed, confirmed>>

\* The engine raises: what there is is stored, a retest is not merged.
ScanFails ==
    /\ scan.busy
    /\ WriteRow(scan.copy, Pushing(Pushers))
    /\ dropped' = IF scan.kind = "retest" THEN Issues ELSE dropped
    /\ scan' = NoScan
    /\ UNCHANGED <<settings, push, filed, confirmed>>

\* The process dies: the row is what was saved last.
ProcessDies ==
    /\ scan.busy \/ Pushing(Pushers)
    /\ dropped' = IF scan.busy /\ scan.kind = "retest" /\ row # scan.before THEN Issues
                  ELSE dropped
    /\ scan' = NoScan
    /\ push' = [h \in Pushers |-> NoPush]
    /\ UNCHANGED <<row, settings, filed, confirmed, raced>>

DeleteRow ==
    /\ row.alive
    /\ row' = [row EXCEPT !.alive = FALSE]
    /\ UNCHANGED <<settings, push, scan, filed, confirmed, dropped, raced>>

SetTicketConfig ==
    /\ settings' \in Settings \ {settings}
    /\ UNCHANGED <<row, push, scan, filed, confirmed, dropped, raced>>

\* Up to the request to the tracker; 404 and 422 change nothing.
PushFindingTicket(h, f) ==
    /\ push[h].at = "idle"
    /\ row.alive /\ f \in row.found
    /\ settings = "complete"
    /\ push' = [push EXCEPT ![h] = [at |-> "posting", issue |-> f, copy |-> row, key |-> 0]]
    /\ UNCHANGED <<row, settings, scan, filed, confirmed, dropped, raced>>

TrackerFiles(h) ==
    /\ push[h].at = "posting"
    /\ filed < MaxTickets
    /\ filed' = filed + 1
    /\ push' = [push EXCEPT ![h].at = "answered", ![h].key = filed + 1]
    /\ UNCHANGED <<row, settings, scan, confirmed, dropped, raced>>

\* An answer other than 2xx is a 502; one that comes too late is lost, and with
\* it the key of a ticket that was filed.
TrackerFails(h) ==
    /\ push[h].at = "posting"
    /\ filed' \in {filed, filed + 1} \intersect (0..MaxTickets)
    /\ push' = [push EXCEPT ![h] = NoPush]
    /\ UNCHANGED <<row, settings, scan, confirmed, dropped, raced>>

\* Seeded fault: a finding that has a ticket keeps it.
FirstTicketStays(copy, f, key) ==
    IF copy.ticket[f] = 0 THEN [copy EXCEPT !.ticket[f] = key] ELSE copy

Ticketed(copy, f, key) == [copy EXCEPT !.ticket[f] = key]

RecordTicket(h) ==
    /\ push[h].at = "answered"
    /\ WriteRow(Ticketed(push[h].copy, push[h].issue, push[h].key),
                Pushing(Pushers \ {h}) \/ scan.busy)
    /\ confirmed' = [confirmed EXCEPT ![push[h].issue] = push[h].key]
    /\ dropped' = dropped \ {push[h].issue}
    /\ push' = [push EXCEPT ![h] = NoPush]
    /\ UNCHANGED <<settings, scan, filed>>

TicketsNext ==
    \/ \E kind \in {"run", "retest"} : ScanStarts(kind)
    \/ \E f \in Issues : Detects(f)
    \/ EndScan \/ ScanFails \/ ProcessDies \/ DeleteRow \/ SetTicketConfig
    \/ \E h \in Pushers : \/ TrackerFiles(h) \/ TrackerFails(h) \/ RecordTicket(h)
                          \/ \E f \in Issues : PushFindingTicket(h, f)

TicketsSpec == TicketsInit /\ [][TicketsNext]_ticketVars

-----------------------------------------------------------------------------
\* Every ticket the tracker has confirmed is on record with its finding, the last
\* one if there are several: runs keep it, however they end, and so do retests of
\* which the finding is not one of the results.  A retest that finds it again, or
\* one that fails or dies, drops it; no finding ever shows the ticket of another or
\* one that was superseded.  Not so while a retest is at work, and where two writers
\* of the row overlapped one can have undone the other.
TicketsAreKept ==
    \/ raced \/ ~row.alive
    \/ scan.busy /\ scan.kind = "retest"
    \/ \A f \in Issues : row.ticket[f] = IF f \in dropped THEN 0 ELSE confirmed[f]

=============================================================================
