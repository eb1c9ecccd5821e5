----------------------------- MODULE Inventory -----------------------------
(***************************************************************************)
(* The asset inventory (pentestiq/inventory): what people, engagements and *)
(* discovery file under one canonical identifier, and who gets an exposure *)
(* alert because of it (_exposure_summary of pentestiq/api/app.py and      *)
(* evaluate_exposure_alerts of pentestiq/analytics).                       *)
(*                                                                         *)
(* Every operation of the store holds its lock from the first read to the  *)
(* last write; a scan or a discovery registers its hosts one after the     *)
(* other, with other requests in between.                                  *)
(***************************************************************************)
EXTENDS Naturals, FiniteSets

CONSTANTS
    Names,          \* hosts and file names
    Raws,           \* identifiers as people and scans write them
    Engagements,
    Scopes,         \* the assets an engagement may be created with
    Values,         \* what a person or a scan may put into a field
    Hosts,          \* names a discovery of the domain may find
    MaxEdits,       \* bound: requests of people
    MaxSurveys      \* bound: scans and discoveries

\* A raw identifier: a URL, a bare host, or a path to a file, whose extension
\* may be one that normalize() knows; with no port, or one that is not default.
Raw == [form: {"url", "bare", "file"}, name: Names, port: BOOLEAN, known: BOOLEAN]

\* A name with what is left around it: a port, a path, or a scheme.
Ident == [name: Names, rest: {"none", "port", "path", "scheme"}]

\* An asset: an identifier and whether its type is one of those of uploads and
\* devices (mobile, desktop, network_device, firewall, hardening, ...).
Target == [raw: Raws, device: BOOLEAN]

Fields == {"label", "owner", "criticality"}
Texts == [Fields -> Values \union {"none"}]
NoText == [f \in Fields |-> "none"]
Sources == {"manual", "engagement", "easm"}

Asset == [there: BOOLEAN, source: Sources, text: Texts, tags: SUBSET {"external", "mine"},
          engagement_ids: SUBSET Engagements]
NoAsset == [there |-> FALSE, source |-> "manual", text |-> NoText, tags |-> {},
            engagement_ids |-> {}]

\* What a call to upsert() is given; no engagement is the empty set.
Upsert == [raw: Raws, device: BOOLEAN, source: Sources, text: Texts,
           tags: SUBSET {"external", "mine"}, engagement_ids: SUBSET Engagements]

ASSUME InventoryAssumption ==
    /\ Raws \subseteq Raw
    /\ Scopes \subseteq SUBSET Target
    /\ \A scope \in Scopes : \A t \in scope : t.device => t.raw.form # "url"
    /\ Hosts \subseteq {r \in Raws : r.form = "bare" /\ ~r.port}
    /\ "none" \notin Values
    /\ {MaxEdits, MaxSurveys} \subseteq Nat

VARIABLES
    asset,      \* the table, by canonical identifier
    reported,   \* of each engagement: the targets its findings are on
    filing,     \* upserts that scans and discoveries have still to do
    edits, surveys,
    curated     \* history: what people last wrote into the fields of an asset

inventoryVars == <<asset, reported, filing, edits, surveys, curated>>

InventoryTypeOK ==
    /\ asset \in [Ident -> Asset]
    /\ reported \in [Engagements -> SUBSET Target]
    /\ filing \subseteq Upsert
    /\ edits \in 0..MaxEdits /\ surveys \in 0..MaxSurveys
    /\ curated \in [Ident -> Texts]

InventoryInit ==
    /\ asset = [c \in Ident |-> NoAsset]
    /\ reported = [e \in Engagements |-> {}]
    /\ filing = {}
    /\ edits = 0 /\ surveys = 0
    /\ curated = [c \in Ident |-> NoText]

-----------------------------------------------------------------------------
(***************************************************************************)
(* The store                                                               *)
(***************************************************************************)

\* The identifier as it is written.
AsWritten(raw) ==
    [name |-> raw.name,
     rest |-> CASE raw.form = "url" -> "scheme" [] raw.form = "file" -> "path"
                [] raw.form = "bare" -> IF raw.port THEN "port" ELSE "none"]

\* normalize(): a device or a file by its last path segment, a URL by its host
\* and a port that is not default, anything else by its host without the port.
Normalize(raw, device) ==
    [name |-> raw.name,
     rest |-> CASE device -> IF raw.port THEN "port" ELSE "none"
                [] ~device /\ raw.form = "url" -> IF raw.port THEN "port" ELSE "none"
                [] ~device /\ raw.form = "bare" -> "none"
                [] ~device /\ raw.form = "file" -> IF raw.known THEN "none" ELSE "path"]

\* Seeded fault: the latest writer wins, as for metadata.
MergeLatest(a, u) ==
    [a EXCEPT !.text = [f \in Fields |-> IF u.text[f] # "none" THEN u.text[f] ELSE a.text[f]],
              !.tags = @ \union u.tags,
              !.engagement_ids = @ \union u.engagement_ids]

\* upsert() on an asset that is there: fields that are set stay.
Merge(a, u) ==
    [a EXCEPT !.text = [f \in Fields |-> IF a.text[f] = "none" THEN u.text[f] ELSE a.text[f]],
              !.tags = @ \union u.tags,
              !.engagement_ids = @ \union u.engagement_ids]

\* The label of a new asset, if none is given, is made from the identifier.
Fresh(u, derived) ==
    [there |-> TRUE, source |-> u.source, tags |-> u.tags, engagement_ids |-> u.engagement_ids,
     text |-> [u.text EXCEPT !["label"] = IF @ = "none" THEN derived ELSE @]]

DoUpsert(u) ==
    LET c == Normalize(u.raw, u.device) IN
    \E derived \in Values \union {"none"} :
        asset' = [asset EXCEPT ![c] = IF @.there THEN Merge(@, u) ELSE Fresh(u, derived)]

-----------------------------------------------------------------------------
(***************************************************************************)
(* People: POST, PATCH and DELETE on /assets.                              *)
(***************************************************************************)
Edit == edits < MaxEdits /\ edits' = edits + 1

CreateAsset(u) ==
    /\ Edit
    /\ u.source = "manual" /\ u.engagement_ids = {}
    /\ DoUpsert(u)
    /\ UNCHANGED <<reported, filing, surveys, curated>>

\* update(): a field that is given is written, an empty one cleared; tags are
\* replaced.
UpdateAsset(c, f, value, tags) ==
    /\ Edit
    /\ asset[c].there
    /\ asset' = [asset EXCEPT ![c].text[f] = value, ![c].tags = tags]
    /\ curated' = [curated EXCEPT ![c][f] = value]
    /\ UNCHANGED <<reported, filing, surveys>>

DeleteAsset(c) ==
    /\ Edit
    /\ asset[c].there
    /\ asset' = [asset EXCEPT ![c] = NoAsset]
    /\ curated' = [curated EXCEPT ![c] = NoText]
    /\ UNCHANGED <<reported, filing, surveys>>

-----------------------------------------------------------------------------
(***************************************************************************)
(* Engagements and discovery.                                              *)
(***************************************************************************)
Filed(targets, e, label) ==
    {[raw |-> t.raw, device |-> t.device, source |-> "engagement", tags |-> {},
      text |-> [NoText EXCEPT !["label"] = label], engagement_ids |-> {e}] : t \in targets}

\* A scan ends (or the engagement is created with no findings): its assets and
\* then the hosts of its findings are registered.
ScanEnds(e, scope, found, label) ==
    /\ surveys < MaxSurveys
    /\ surveys' = surveys + 1
    /\ reported' = [reported EXCEPT ![e] = found]
    /\ filing' = filing \union Filed(scope, e, label) \union Filed(found \ scope, e, "none")
    /\ UNCHANGED <<asset, edits, curated>>

\* run_discovery: every host that resolves, tagged external.
Discover(hosts) ==
    /\ surveys < MaxSurveys
    /\ surveys' = surveys + 1
    /\ filing' = filing \union {[raw |-> h, device |-> FALSE, source |-> "easm", text |-> NoText,
                                 tags |-> {"external"}, engagement_ids |-> {}] : h \in hosts}
    /\ UNCHANGED <<asset, reported, edits, curated>>

\* One of the upserts; one that raises is passed over.
FileNext(u) ==
    /\ u \in filing
    /\ filing' = filing \ {u}
    /\ DoUpsert(u) \/ UNCHANGED asset
    /\ UNCHANGED <<reported, edits, surveys, curated>>

InventoryNext ==
    \/ \E u \in filing : FileNext(u)
    \/ \E raw \in Raws, v \in Values, tags \in {{}, {"mine"}} :
         CreateAsset([raw |-> raw, device |-> FALSE, source |-> "manual", tags |-> tags,
                      text |-> [f \in Fields |-> v], engagement_ids |-> {}])
    \/ \E c \in Ident :
         \/ \E f \in Fields, value \in Values \union {"none"}, tags \in {{}, {"mine"}} :
              UpdateAsset(c, f, value, tags)
         \/ DeleteAsset(c)
    \/ \E e \in Engagements, scope \in Scopes, label \in Values \union {"none"} :
         \E found \in SUBSET scope : ScanEnds(e, scope, found, label)
    \/ \E hosts \in SUBSET Hosts : Discover(hosts)

InventorySpec == InventoryInit /\ [][InventoryNext]_inventoryVars

-----------------------------------------------------------------------------
(***************************************************************************)
(* Who is alerted                                                          *)
(***************************************************************************)

\* is_internet_facing(): nothing in the code sets the "alive_http" it looks for.
InternetFacing(c) ==
    asset[c].there /\ (asset[c].source = "easm" \/ "external" \in asset[c].tags)

\* _asset_rollups(): the asset a finding counts for; types are not looked at.
RollsUpTo(t) == Normalize(t.raw, FALSE)

\* only_internet_facing: the identifier as written is among those of the
\* internet-facing assets, or there is no such asset at all.
Alerted(t) ==
    LET idents == {c \in Ident : InternetFacing(c)}
    IN idents = {} \/ AsWritten(t.raw) \in idents

-----------------------------------------------------------------------------
(***************************************************************************)
(* Properties                                                              *)
(***************************************************************************)

\* What a person has written about an asset stays, whatever scans, discoveries
\* and other people's new assets are merged into it, under whichever spelling.
CuratedSurvives ==
    \A c \in Ident : \A f \in Fields :
        curated[c][f] # "none" => asset[c].there /\ asset[c].text[f] = curated[c][f]

\* "a webhook alert when a new KEV or critical lands on an internet-facing asset":
\* a finding that counts for an internet-facing asset passes the alert's filter.
ExposedFindingIsAlerted ==
    \A e \in Engagements : \A t \in reported[e] :
        InternetFacing(RollsUpTo(t)) => Alerted(t)

=============================================================================
