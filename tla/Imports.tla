------------------------------ MODULE Imports ------------------------------
(***************************************************************************)
(* Reports of other scanners and the engagement's own SARIF export, as     *)
(* they are folded into an engagement (pentestiq/ingest, the ingest and    *)
(* export endpoints of pentestiq/api/app.py, Engagement.add_findings).     *)
(*                                                                         *)
(* A text is what the importers read off it: the CWE it names and the CWE  *)
(* of the first vulnerability class it mentions.  A score is in tenths.    *)
(***************************************************************************)
EXTENDS Integers, Sequences, FiniteSets, SequencesExt

CONSTANTS
    Cwes,        \* CWE ids, which are categories as well ("CWE-89")
    OwaspOf,     \* CWE_TO_OWASP_2021, of some of them
    Urls,        \* the targets that look like a URL
    Rows,        \* for each importer, rows its tool may write
    MaxRows,     \* bound: rows of a report
    MaxReports   \* bound: reports ingested

Importers == {"sarif", "prowler", "kube-bench", "nessus", "zap", "trivy", "nuclei",
              "generic-json"}

Severities == 0..4     \* info, low, medium, high, critical

NewFinding(asset, title, category, severity, location, cwe, tools) ==
    [asset |-> asset, title |-> title, category |-> category, severity |-> severity,
     location |-> location, cwe |-> cwe, tools |-> tools]

\* What validates as a finding: its fields are there, its kind of asset and its
\* severity are known.
IsFinding(f) ==
    /\ f = NewFinding(f.asset, f.title, f.category, f.severity, f.location, f.cwe, f.tools)
    /\ f.asset = [type |-> f.asset.type, identifier |-> f.asset.identifier]
    /\ f.asset.type # "none"
    /\ f.severity \in Severities

ASSUME ImportsAssumption ==
    /\ DOMAIN OwaspOf \subseteq Cwes
    /\ "none" \notin Cwes \union {OwaspOf[c] : c \in DOMAIN OwaspOf}
    /\ DOMAIN Rows = Importers
    /\ {MaxRows, MaxReports} \subseteq Nat
    \* a word that the table knows stands for a severity, and so does SARIF's level
    /\ \A r \in Rows["nessus"] : r.risk.level \in Severities /\ r.risk.score \in Int
                                /\ r.score \in Int
    /\ \A r \in Rows["nuclei"] : r.label.level \in Severities /\ r.label.score \in Int
                                /\ r.score \in Int
    /\ \A r \in Rows["trivy"] \union Rows["prowler"] :
            r.label.level \in Severities /\ r.label.score \in Int
    /\ \A r \in Rows["generic-json"] :
            IF r.native THEN IsFinding(r.finding)
            ELSE r.label.level \in Severities /\ r.label.score \in Int /\ r.score \in Int
    /\ \A r \in Rows["sarif"] : r.level \in Severities /\ r.score \in Int

-----------------------------------------------------------------------------
(***************************************************************************)
(* mapping.py                                                              *)
(***************************************************************************)
\* severity_from_cvss(); -1 is no score.
SeverityFromCvss(score) ==
    IF score >= 90 THEN 4 ELSE IF score >= 70 THEN 3 ELSE IF score >= 40 THEN 2
    ELSE IF score > 0 THEN 1 ELSE 0

\* normalize_severity(): a label is blank, has a word the table knows, is a
\* number, or says nothing.
NormalizeSeverity(label, score) ==
    CASE label.form = "word"   -> label.level
      [] label.form = "number" -> SeverityFromCvss(label.score)
      [] OTHER                 -> SeverityFromCvss(score)

FirstKnown(candidates) ==
    IF \E n \in DOMAIN candidates : candidates[n] # "none"
    THEN candidates[CHOOSE n \in DOMAIN candidates :
                        candidates[n] # "none" /\ \A m \in 1..(n - 1) : candidates[m] = "none"]
    ELSE "none"

\* category_for(): a CWE as such, one the text names, or the class it mentions;
\* its OWASP category if there is one.
CategoryFor(cwe, text) ==
    LET known == FirstKnown(<<cwe, text.cwe, text.class>>)
    IN IF known \in DOMAIN OwaspOf THEN OwaspOf[known] ELSE known

\* A category SARIF may carry: OWASP or CWE, by its looks.
Shaped == Cwes \union {OwaspOf[c] : c \in DOMAIN OwaspOf}

\* make_asset(): the kind the importer knows, or the one the target looks like.
MakeAsset(kind, target) ==
    [type |-> IF kind # "none" THEN kind ELSE IF target \in Urls THEN "web" ELSE "infra",
     identifier |-> target]

-----------------------------------------------------------------------------
(***************************************************************************)
(* The importers: what one row becomes.                                    *)
(***************************************************************************)
\* The plugin's severity counts before its risk factor and score; port 0 is no port.
FromNessus(r) ==
    {NewFinding(MakeAsset("infra", r.host), r.title, CategoryFor(r.cwe, r.title),
                IF r.severity \in Severities THEN r.severity
                ELSE NormalizeSeverity(r.risk, r.score),
                r.port, r.refs, {"nessus"})}

\* The URL that matched is both asset and location.
FromNuclei(r) ==
    {NewFinding(MakeAsset("none", IF r.matched = "none" THEN r.host ELSE r.matched), r.title,
                CategoryFor(r.cwe, r.title), NormalizeSeverity(r.label, r.score),
                r.matched, r.refs, {"nuclei"})}

\* ZAP's riskcode has no critical; the first instance is the location.
FromZap(r) ==
    {NewFinding(MakeAsset("none", r.host), r.title, CategoryFor(r.cwe, r.title),
                IF r.riskcode \in 0..3 THEN r.riskcode ELSE 0, r.instance, r.cwe, {"zap"})}

\* Vulnerabilities are located by package, misconfigurations by file and line;
\* a misconfiguration nobody can classify is one all the same.
FromTrivy(r) ==
    {NewFinding(MakeAsset("infra", r.artifact), r.title,
                IF r.misconfig /\ CategoryFor("none", r.title) = "none" THEN "A05"
                ELSE CategoryFor(IF r.misconfig THEN "none" ELSE r.cwe, r.title),
                NormalizeSeverity(r.label, -1), r.place, r.refs, {"trivy"})}

\* Only checks that failed; what they are about decides the category.
FromProwler(r) ==
    IF ~r.failed THEN {}
    ELSE {NewFinding(MakeAsset("cloud", r.account), r.title,
                     CASE r.about = "access" -> "A01" [] r.about = "crypto" -> "A02"
                       [] r.about = "logging" -> "A09" [] OTHER -> "A05",
                     NormalizeSeverity(r.label, -1), r.resource, "none", {"prowler"})}

\* A failed check counts more if it is scored, a warning little.
FromKubeBench(r) ==
    IF r.status \notin {"fail", "warn"} THEN {}
    ELSE {NewFinding(MakeAsset("cluster", r.node), r.title,
                     IF r.about = "access" THEN "A01" ELSE "A05",
                     IF r.status = "warn" THEN 1 ELSE IF r.scored THEN 3 ELSE 2,
                     r.number, "none", {"kube-bench"})}

\* Findings of this program pass; loose rows need a title.
FromGenericJson(r) ==
    CASE r.native -> {r.finding}
      [] ~r.native /\ ~r.titled -> {}
      [] OTHER -> {NewFinding(MakeAsset(r.type, r.target), r.title,
                              IF r.category # "none" THEN r.category
                              ELSE CategoryFor(r.cwe, r.title),
                              NormalizeSeverity(r.label, r.score), r.location, r.refs, r.tool)}

\* A result with its rule.  What this program wrote beside the standard fields
\* counts before them; a result without a location is located at its file.
FromSarif(r) ==
    {NewFinding(MakeAsset(IF r.asset_type = "none" THEN "infra" ELSE r.asset_type,
                          IF r.uri = "none" THEN r.driver ELSE r.uri),
                r.title,
                IF \E c \in {r.category, r.ruleCategory, r.ruleId} : c \in Shaped
                THEN FirstKnown([n \in 1..3 |->
                        LET c == <<r.category, r.ruleCategory, r.ruleId>>[n]
                        IN IF c \in Shaped THEN c ELSE "none"])
                ELSE CategoryFor(r.cwe, r.title),
                CASE r.severity \in Severities -> r.severity
                  [] r.severity \notin Severities /\ r.score >= 0 -> SeverityFromCvss(r.score)
                  [] OTHER -> r.level,
                IF r.location # "none" THEN r.location ELSE r.uri,
                r.cwe, {r.driver})}

Parse(importer, row) ==
    CASE importer = "nessus" -> FromNessus(row)   [] importer = "nuclei" -> FromNuclei(row)
      [] importer = "zap" -> FromZap(row)         [] importer = "trivy" -> FromTrivy(row)
      [] importer = "prowler" -> FromProwler(row) [] importer = "kube-bench" -> FromKubeBench(row)
      [] importer = "sarif" -> FromSarif(row)     [] importer = "generic-json" -> FromGenericJson(row)

-----------------------------------------------------------------------------
(***************************************************************************)
(* base.py: detection, provenance, de-duplication.                         *)
(***************************************************************************)
DetectPriority(i) ==
    CASE i = "sarif" -> 70  [] i = "prowler" -> 66 [] i = "kube-bench" -> 65 [] i = "nessus" -> 60
      [] i \in {"zap", "trivy"} -> 55 [] i = "nuclei" -> 50 [] i = "generic-json" -> -100

\* The importers whose sniff() accepts what a tool writes: the generic one takes
\* any JSON but SARIF.
Claimants(tool) ==
    {tool} \union (IF tool \in {"sarif", "nessus"} THEN {} ELSE {"generic-json"})

DetectImporter(tool) ==
    CHOOSE i \in Claimants(tool) :
        \A j \in Claimants(tool) : DetectPriority(j) <= DetectPriority(i)

\* dedup_key: asset, category or else title, location.
DedupKey(f) ==
    [asset |-> f.asset, category |-> f.category, location |-> f.location,
     title |-> IF f.category = "none" THEN {f.title} ELSE {}]

\* merge_source(): of a record and all that join it, every tool and the highest
\* severity; the rest is the record's.
MergeSource(f, others) ==
    [f EXCEPT !.tools = UNION {o.tools : o \in {f} \union others},
              !.severity = Max({o.severity : o \in {f} \union others})]

\* _dedupe() and add_findings(): a finding joins the record of its key, which the
\* first one starts.  The findings are numbered, or one for each key.
AddFindings(index, findings) ==
    LET places(k) == {n \in DOMAIN findings : DedupKey(findings[n]) = k}
        first(k) == CHOOSE n \in places(k) : \A m \in places(k) \ {n} : n < m
    IN [k \in DOMAIN index \union {DedupKey(findings[n]) : n \in DOMAIN findings} |->
            MergeSource(IF k \in DOMAIN index THEN index[k] ELSE findings[first(k)],
                        {findings[n] : n \in places(k)})]

\* The importer stamps its own name on every finding.
Stamp(f, importer) ==
    [f EXCEPT !.tools = @ \union {IF importer = "generic-json" THEN "imported-json" ELSE importer}]

\* import_findings(): parsed, stamped and de-duplicated; a report another importer
\* would get hold of yields nothing.  A finding keeps the number of its row.
ImportFindings(tool, rows) ==
    LET importer == DetectImporter(tool)
        raw == [n \in {m \in DOMAIN rows : Parse(importer, rows[m]) # {}} |->
                    CHOOSE f \in Parse(importer, rows[n]) : TRUE]
    IN IF importer # tool THEN << >>
       ELSE AddFindings(<< >>, [n \in DOMAIN raw |-> Stamp(raw[n], importer)])

-----------------------------------------------------------------------------
(***************************************************************************)
(* sarif_export.py: the row a finding becomes.                             *)
(***************************************************************************)
\* Seeded fault: the category is only written where SARIF has a place for it.
ToSarifTagged(f) ==
    [asset_type |-> f.asset.type, uri |-> f.asset.identifier,
     title |-> [f.title EXCEPT !.long = FALSE], category |-> "none", ruleCategory |-> "none",
     ruleId |-> "none", cwe |-> f.cwe, severity |-> f.severity, score |-> -1,
     level |-> f.severity, location |-> f.location, driver |-> "corvex-redops"]

\* _rule_for() and _result_for(): the title is cut, the rule's id is the key.
ToSarif(f) ==
    [asset_type |-> f.asset.type, uri |-> f.asset.identifier,
     title |-> [f.title EXCEPT !.long = FALSE], category |-> f.category,
     ruleCategory |-> f.category, ruleId |-> "none",
     cwe |-> IF f.category \in Cwes THEN f.category ELSE f.cwe,
     severity |-> f.severity, score |-> -1,
     level |-> f.severity, location |-> f.location, driver |-> "corvex-redops"]

-----------------------------------------------------------------------------
VARIABLES
    register,      \* the findings of the engagement, by key
    reports,       \* reports ingested
    everReported   \* history: every finding some report had, as its importer read it

importVars == <<register, reports, everReported>>

ImportTypeOK ==
    /\ \A k \in DOMAIN register : DedupKey(register[k]) = k /\ register[k].severity \in Severities
    /\ reports \in 0..MaxReports

ImportInit ==
    /\ register = << >>
    /\ reports = 0
    /\ everReported = {}

\* import into an engagement: what is not imported is not registered either.
IngestScan(tool, rows) ==
    LET found == ImportFindings(tool, rows)
    IN  /\ reports < MaxReports
        /\ DOMAIN found # {}
        /\ register' = AddFindings(register, found)
        /\ reports' = reports + 1
        /\ everReported' = everReported \union UNION {Parse(tool, rows[n]) : n \in DOMAIN rows}

\* The engagement is exported and the file ingested into it again.
IngestOwnExport ==
    LET rows == SetToSeq({ToSarif(register[k]) : k \in DOMAIN register})
        found == ImportFindings("sarif", rows)
    IN  /\ reports < MaxReports
        /\ rows # << >>
        /\ register' = AddFindings(register, found)
        /\ reports' = reports + 1
        /\ UNCHANGED everReported

ImportNext ==
    \/ \E tool \in Importers, n \in 1..MaxRows :
         \E rows \in [1..n -> Rows[tool]] : IngestScan(tool, rows)
    \/ IngestOwnExport

ImportSpec == ImportInit /\ [][ImportNext]_importVars

-----------------------------------------------------------------------------
\* A record that the export keeps whole: it has a target and a location, and a
\* category that is an OWASP or a CWE one.
ComesBack(f) ==
    f.asset.identifier # "none" /\ f.location # "none" /\ f.category \in Shaped

\* Whatever the order and the mixture of reports: every issue a report has is on
\* record with the highest severity anybody gave it and everyone who reported
\* it, and as long as all records come back from the program's own export as
\* they were, exporting and importing adds nothing.
ReportsAddUp ==
    LET keys == {DedupKey(f) : f \in everReported}
    IN  /\ \A f \in everReported :
             /\ DedupKey(f) \in DOMAIN register
             /\ f.tools \subseteq register[DedupKey(f)].tools
             /\ f.severity <= register[DedupKey(f)].severity
        /\ (\A f \in everReported : ComesBack(f)) =>
             /\ DOMAIN register = keys
             /\ \A k \in keys : \E f \in everReported :
                  DedupKey(f) = k /\ f.severity = register[k].severity

=============================================================================
