------------------------------ MODULE CodeScan ------------------------------
(***************************************************************************)
(* Uploads and the scans of source code that run inside the upload request *)
(* itself: committed secrets (pentestiq/secrets), static analysis with     *)
(* Semgrep (pentestiq/sast) and dependencies (pentestiq/sca); the upload   *)
(* endpoint of pentestiq/api/app.py.                                       *)
(*                                                                         *)
(* A source tree is a sequence of files, a file a sequence of lines, a     *)
(* line the sequence of the strings the secret rules match on it, in the   *)
(* order of the rules, of which the generic one is the last.  A value is   *)
(* a set of pieces, so that one value may lie within another.              *)
(***************************************************************************)
EXTENDS Imports

CONSTANTS
    RuleSeverity,  \* RULES: of each rule, by its id, the severity
    Trees,         \* source trees that may be uploaded
    Lockfiles,     \* dependency files that may be uploaded
    Advisories,    \* OSV: for each component a sequence of advisory ids
    Details,       \* OSV: for each advisory id its label and score
    MaxFiles,      \* _MAX_FILES of an archive
    MaxTotal,      \* _MAX_TOTAL_BYTES of an archive
    MaxFileBytes,  \* _MAX_FILE_BYTES of a file that is searched for secrets
    MaxFindings,   \* _MAX_FINDINGS of a search
    MaxUploads     \* bound: uploads

Matches == [rule : DOMAIN RuleSeverity, value : SUBSET STRING, random : BOOLEAN,
            placeholder : BOOLEAN]
SourceFiles == [name : STRING, lines : Seq(Seq(Matches)), size : Nat, inside : BOOLEAN,
                skipped : BOOLEAN, text : BOOLEAN]

\* What is no archive is one file.
ASSUME CodeScanAssumption ==
    /\ {MaxFiles, MaxTotal, MaxFileBytes, MaxFindings, MaxUploads} \subseteq Nat
    /\ \A rule \in DOMAIN RuleSeverity : RuleSeverity[rule] \in Severities
    /\ Trees \subseteq [archive : BOOLEAN, corrupt : BOOLEAN, files : Seq(SourceFiles)]
    /\ \A tree \in Trees : tree.archive \/ Len(tree.files) = 1
    /\ \A lockfile \in Lockfiles : /\ IsFiniteSet(lockfile.entries)
                                   /\ \A e \in lockfile.entries : IsFiniteSet(e.names)
    /\ \A c \in DOMAIN Advisories : Advisories[c] \in Seq(DOMAIN Details)
    /\ \A id \in DOMAIN Details : /\ Details[id].label.level \in Severities
                                  /\ Details[id].label.score \in Int
                                  /\ Details[id].score \in Int

CodeAsset == [type |-> "codebase", identifier |-> "codebase"]     \* the upload's label

CodeFinding(category, severity, location, tool) ==
    NewFinding(CodeAsset, location, category, severity, location, "none", {tool})

-----------------------------------------------------------------------------
(***************************************************************************)
(* semgrep_tool.py: the archive.                                           *)
(***************************************************************************)
TotalSize(files) == FoldLeft(LAMBDA acc, f : acc + f.size, 0, files)

\* _extract_zip(), _extract_tar(): every file counts, those left out as well.
TooLarge(files) == Len(files) > MaxFiles \/ TotalSize(files) > MaxTotal

CannotRead(tree) == tree.archive /\ (TooLarge(tree.files) \/ tree.corrupt)

\* materialize(): the places of what is there to be scanned.  Of an archive what
\* would lie outside is left out, and a file overwrites those of its name.
Unpacked(tree) ==
    {i \in DOMAIN tree.files :
        tree.archive => /\ tree.files[i].inside
                        /\ \A j \in DOMAIN tree.files :
                              tree.files[j].inside /\ tree.files[j].name = tree.files[i].name
                                => j <= i}

-----------------------------------------------------------------------------
(***************************************************************************)
(* secrets/: the search.                                                   *)
(***************************************************************************)
Generic(h) == h.rule = "generic"

Overlap(v, w) == v \subseteq w \/ w \subseteq v

\* A rule that is sure of itself, or a generic one whose value is no placeholder;
\* some rules want the value to be random.
Secret(h) == h.random /\ (Generic(h) => ~h.placeholder)

\* scan_line(): the places of what is reported.  The generic rule does not report
\* a value that overlaps one reported before.
Found(line) ==
    LET found[m \in 0..Len(line)] ==
            IF m = 0 THEN {}
            ELSE IF /\ Secret(line[m])
                    /\ Generic(line[m]) =>
                         \A k \in found[m - 1] : ~Overlap(line[m].value, line[k].value)
            THEN found[m - 1] \union {m} ELSE found[m - 1]
    IN found[Len(line)]

\* Vendored directories, other kinds of files, large and binary ones are passed over.
Searched(f) == ~f.skipped /\ f.size <= MaxFileBytes /\ f.text

\* The hits of a tree, as places <<file, line, match>>: each rule once a line.
HitPlaces(tree) ==
    LET files == {i \in Unpacked(tree) : Searched(tree.files[i])}
        once(line) == {m \in Found(line) :
                         \A k \in Found(line) : line[k].rule = line[m].rule => m <= k}
        inFile(i) == UNION {{<<i, n, m>> : m \in once(tree.files[i].lines[n])} :
                              n \in DOMAIN tree.files[i].lines}
    IN UNION {inFile(i) : i \in files}

Before(p, q) == \E i \in 1..3 : p[i] < q[i] /\ \A j \in 1..(i - 1) : p[j] = q[j]

\* scan_secrets(): the first hits, numbered from 0, as many as a search reports.
ScanSecrets(tree) ==
    LET places == HitPlaces(tree)
        number(p) == Cardinality({q \in places : Before(q, p)})
        finding(p) ==
            LET file == tree.files[p[1]]
            IN CodeFinding("A07", RuleSeverity[file.lines[p[2]][p[3]].rule],
                           <<file.name, p[2]>>, "pentestiq-secrets")
    IN [n \in {number(p) : p \in places} \intersect 0..(MaxFindings - 1) |->
            finding(CHOOSE p \in places : number(p) = n)]

-----------------------------------------------------------------------------
(***************************************************************************)
(* sast/: Semgrep's rows, through the SARIF importer.                      *)
(***************************************************************************)
\* scan_source(): the findings move to the code base, their locations stay.
ScanSource(rows) ==
    LET found == ImportFindings("sarif", rows)
        keys == SetToSeq(DOMAIN found)
    IN [n \in DOMAIN keys |->
            [found[keys[n]] EXCEPT !.asset = CodeAsset, !.tools = {"semgrep"}]]

-----------------------------------------------------------------------------
(***************************************************************************)
(* sca/: components, advisories, findings.                                 *)
(***************************************************************************)
\* The parsers: an entry may stand for several names; the root project and
\* entries without an exact version are no components.
ComponentsIn(lockfile) ==
    UNION {{[name |-> name, version |-> entry.version] : name \in entry.names} :
             entry \in {e \in lockfile.entries : ~e.root /\ e.version # "none"}}

\* parse_components(): none from a file nobody knows or that cannot be parsed.
ParseComponents(lockfile) ==
    IF lockfile.format = "unknown" \/ lockfile.corrupt THEN {} ELSE ComponentsIn(lockfile)

\* query_batch(): one call for all; offline, or without an answer, nothing is known.
QueryBatch(components, answer) ==
    [c \in {d \in components : answer.batch /\ d \in DOMAIN Advisories} |-> Advisories[c]]

\* get_vuln(): what its page says, or no more than the id.
VulnOf(c, id, answer) ==
    IF id \in answer.pages
    THEN [component |-> c, id |-> id, label |-> Details[id].label, score |-> Details[id].score]
    ELSE [component |-> c, id |-> id, label |-> [form |-> "blank"], score |-> -1]

\* Seeded fault: an advisory whose page is missing is dropped.
VulnsWithPages(components, answer) ==
    LET batch == QueryBatch(components, answer)
    IN UNION {{VulnOf(c, id, answer) : id \in Range(batch[c]) \intersect answer.pages} :
                c \in DOMAIN batch}

\* OSVClient.scan()
Vulns(components, answer) ==
    LET batch == QueryBatch(components, answer)
    IN UNION {{VulnOf(c, id, answer) : id \in Range(batch[c])} : c \in DOMAIN batch}

\* _finding_for()
ScaFinding(v) ==
    CodeFinding("A06", NormalizeSeverity(v.label, v.score),
                <<v.component.name, v.component.version>>, "osv")

\* build_sbom(): the components, and what is known to be wrong with them.
Sbom(components, vulns) ==
    [components |-> components,
     vulnerabilities |-> {[id |-> v.id, affects |-> v.component] : v \in vulns}]

\* scan_dependencies(): in an order that decides nothing.
ScanDependencies(lockfile, answer) ==
    LET components == ParseComponents(lockfile)
        vulns == Vulns(components, answer)
        list == SetToSeq(vulns)
    IN [findings |-> [n \in DOMAIN list |-> ScaFinding(list[n])],
        sbom |-> Sbom(components, vulns)]

-----------------------------------------------------------------------------
VARIABLES
    onDisk,      \* files in the upload directory
    refusals,    \* status codes answered instead of an engagement
    codebases,   \* engagements made by an upload that was scanned at once
    awaiting     \* engagements made by an upload for a scan to be started

codeScanVars == <<onDisk, refusals, codebases, awaiting>>

UploadKinds == {"secrets", "sast", "codebase", "burp", "api", "mobile", "config", "cloud"}
NoSbom == Sbom({}, {})

CodeScanTypeOK ==
    /\ {onDisk, awaiting} \subseteq 0..MaxUploads
    /\ refusals \subseteq {402, 422, 500, 503}
    /\ Len(codebases) + awaiting <= onDisk

CodeScanInit == onDisk = 0 /\ refusals = {} /\ codebases = << >> /\ awaiting = 0

Refuse(status) == refusals' = refusals \union {status} /\ UNCHANGED <<codebases, awaiting>>

\* An engagement that is complete as it is created; what was scanned and what
\* was answered is onDisk beside it, for the property.
CreateDone(kind, input, findings, sbom) ==
    /\ codebases' = Append(codebases, [kind |-> kind, input |-> input, sbom |-> sbom,
                                       findings |-> AddFindings(<< >>, findings)])
    /\ UNCHANGED <<refusals, awaiting>>

\* The asset type is neither one of those that can be uploaded, nor free: refused
\* before the file is written.
RefuseKind(kind, premium) ==
    /\ onDisk < MaxUploads
    /\ \/ kind = "cloud" /\ Refuse(422)
       \/ kind = "config" /\ ~premium /\ Refuse(402)
    /\ UNCHANGED onDisk

\* The file is written first and stays, whatever happens to the scan.
Receive == onDisk < MaxUploads /\ onDisk' = onDisk + 1

UploadSecrets(tree) ==
    /\ Receive
    /\ IF CannotRead(tree) THEN Refuse(422)
       ELSE CreateDone("secrets", tree, ScanSecrets(tree), NoSbom)

\* scan_source() up to Semgrep's answer: Semgrep may be missing or fail; an
\* archive that cannot be extracted is not handled.
SastStatus(tree, installed, runs) ==
    CASE ~installed                               -> 503
      [] installed /\ CannotRead(tree)            -> 500
      [] installed /\ ~CannotRead(tree) /\ ~runs  -> 422
      [] installed /\ ~CannotRead(tree) /\ runs   -> 201

UploadSast(tree, installed, runs, rows) ==
    /\ Receive
    /\ IF SastStatus(tree, installed, runs) # 201 THEN Refuse(SastStatus(tree, installed, runs))
       ELSE CreateDone("sast", rows, ScanSource(rows), NoSbom)

UploadCodebase(lockfile, answer) ==
    /\ Receive
    /\ IF ParseComponents(lockfile) = {} THEN Refuse(422)
       ELSE LET result == ScanDependencies(lockfile, answer)
            IN CreateDone("codebase", [lockfile |-> lockfile, answer |-> answer],
                         result.findings, result.sbom)

\* Any other file is scanned when its engagement is run.
UploadTarget(kind, premium) ==
    /\ kind \in {"burp", "api", "mobile", "config"}
    /\ kind = "config" => premium
    /\ Receive
    /\ awaiting' = awaiting + 1
    /\ UNCHANGED <<refusals, codebases>>

Answers == [batch : BOOLEAN, pages : SUBSET DOMAIN Details]

CodeScanNext ==
    \/ \E kind \in UploadKinds, premium \in BOOLEAN : RefuseKind(kind, premium)
    \/ \E tree \in Trees : UploadSecrets(tree)
    \/ \E tree \in Trees, installed, runs \in BOOLEAN, n \in 0..MaxRows :
         \E rows \in [1..n -> Rows["sarif"]] : UploadSast(tree, installed, runs, rows)
    \/ \E lockfile \in Lockfiles, answer \in Answers : UploadCodebase(lockfile, answer)
    \/ \E kind \in UploadKinds, premium \in BOOLEAN : UploadTarget(kind, premium)

CodeScanSpec == CodeScanInit /\ [][CodeScanNext]_codeScanVars

-----------------------------------------------------------------------------
\* Some finding of the engagement says so, at least as severely.
ReportedAt(e, location, severity) ==
    \E k \in DOMAIN e.findings :
        e.findings[k].location = location /\ e.findings[k].severity >= severity

\* Where a rule sees a secret.
SecretsOf(tree) ==
    UNION {UNION {{[location |-> <<tree.files[i].name, n>>, rule |-> h.rule] :
                     h \in {g \in Range(tree.files[i].lines[n]) : Secret(g)}} :
                   n \in DOMAIN tree.files[i].lines} :
             i \in {j \in Unpacked(tree) : Searched(tree.files[j])}}

\* Unless there is more than one search reports.
SecretsReported(e) ==
    Cardinality(SecretsOf(e.input)) <= MaxFindings =>
        \A s \in SecretsOf(e.input) :
            ReportedAt(e, s.location, IF s.rule = "generic" THEN 0 ELSE RuleSeverity[s.rule])

FlawsReported(e) ==
    \A n \in DOMAIN e.input : \A f \in FromSarif(e.input[n]) : ReportedAt(e, f.location, f.severity)

AdvisoriesReported(e) ==
    e.input.answer.batch =>
        \A c \in ComponentsIn(e.input.lockfile) \intersect DOMAIN Advisories :
          \A id \in Range(Advisories[c]) :
            ReportedAt(e, <<c.name, c.version>>,
                       IF id \in e.input.answer.pages
                       THEN NormalizeSeverity(Details[id].label, Details[id].score) ELSE 0)

\* Whatever is merged, suppressed or lost on the way: every place of the code
\* where a detector, Semgrep or OSV saw something is a place of the engagement's
\* findings, at least as severe as the worst that was seen there.
CodeIsReported ==
    \A n \in DOMAIN codebases :
        LET e == codebases[n]
        IN CASE e.kind = "secrets"  -> SecretsReported(e)
             [] e.kind = "sast"     -> FlawsReported(e)
             [] e.kind = "codebase" -> AdvisoriesReported(e)

=============================================================================
