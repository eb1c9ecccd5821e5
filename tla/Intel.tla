------------------------------- MODULE Intel -------------------------------
(***************************************************************************)
(* Threat and exploit intelligence, the priority it gives a finding, and   *)
(* the matching of services with known vulnerabilities                     *)
(* (pentestiq/intel, pentestiq/core/analysis.py and the endpoints of       *)
(* pentestiq/api/app.py that use them).                                    *)
(*                                                                         *)
(* Scores are in hundredths, rounded down after each factor; an EPSS       *)
(* probability and a CVSS score are in tenths, -1 when there is none.      *)
(***************************************************************************)
EXTENDS Integers, Sequences, FiniteSets, SequencesExt

CONSTANTS
    CveIds,       \* CVE ids
    KevSeed,      \* the bundled KEV catalogue: of some CVEs, "listed" or "ransomware"
    KevFeed,      \* what CISA answers
    EpssFeed,     \* what the EPSS service knows
    ExploitSeed,  \* the bundled exploits, a sequence
    ExploitCsv,   \* the Exploit-DB data set, a sequence
    Ranked,       \* the findings of the engagement: what does not change of them
    Fixes,        \* _SEED: for each product the CVEs in their order, with the fix
    Aliases,      \* _ALIASES: the product a name stands for
    MaxUpkeep     \* bound: refreshes, restarts and edits

IntelStatuses == {"detected", "validated", "exploited", "remediated", "false_positive"}
Maturities == {"none", "poc", "public-exploit", "weaponized"}

Versions == [numbers: Seq(Nat), suffix: [digits: BOOLEAN, number: Nat]]
Banners == [product: STRING, version: Versions]
Catalogue == [cve: CveIds, fixed: Versions, severity: 1..4]
Listings == UNION {[listed -> {"listed", "ransomware"}] : listed \in SUBSET CveIds}
Exploits == [cve: CveIds, source: STRING, edb: Nat, verified: BOOLEAN, msf: BOOLEAN]

\* No product of the seed lists a CVE twice.
ASSUME IntelAssumption ==
    /\ MaxUpkeep \in Nat
    /\ {KevSeed, KevFeed} \subseteq Listings
    /\ DOMAIN EpssFeed \subseteq CveIds /\ \A c \in DOMAIN EpssFeed : EpssFeed[c] \in 0..10
    /\ {ExploitSeed, ExploitCsv} \subseteq Seq(Exploits)
    /\ Ranked \subseteq [severity: 0..4, cvss: -1..100, confidence: 0..2, named: Seq(CveIds),
                        host: STRING, assetPort: STRING, ports: Seq(STRING),
                        banners: Seq(Banners)]
    /\ \A p \in DOMAIN Fixes :
         /\ Fixes[p] \in Seq(Catalogue)
         /\ \A m, n \in DOMAIN Fixes[p] : Fixes[p][m].cve = Fixes[p][n].cve => m = n

-----------------------------------------------------------------------------
(***************************************************************************)
(* exploit_intel.py                                                        *)
(***************************************************************************)
SameExploit(x, y) == x.cve = y.cve /\ x.source = y.source /\ x.edb = y.edb

\* _load_seed(), _load_csv(), _add(): one entry for each source and id, the first;
\* a verified entry of the data set does not replace the same one of the seed.
LoadExploits(exploits, entries) ==
    exploits \union
      {entries[n] : n \in {m \in DOMAIN entries :
                             \A x \in exploits \union {entries[k] : k \in 1..(m - 1)} :
                               ~SameExploit(x, entries[m])}}

\* _maturity()
Maturity(entries) ==
    CASE entries = {}                                     -> "none"
      [] \E e \in entries : e.msf                         -> "weaponized"
      [] entries # {} /\ (\A e \in entries : ~e.msf)
         /\ \E e \in entries : e.verified                 -> "public-exploit"
      [] OTHER                                            -> "poc"

\* best_for(): the most mature of all the CVEs named.
BestFor(exploits, cves) == Maturity({e \in exploits : e.cve \in Range(cves)})

ExploitFactor(maturity) ==
    CASE maturity = "weaponized" -> 130 [] maturity = "public-exploit" -> 120
      [] maturity = "poc" -> 110        [] maturity = "none" -> 100

-----------------------------------------------------------------------------
(***************************************************************************)
(* threat_intel.py: intel is what is known, [kev, epss, exploits].         *)
(***************************************************************************)
Kev(intel, c) == IF c \in DOMAIN intel.kev THEN intel.kev[c] ELSE "no"
Epss(intel, c) == IF c \in DOMAIN intel.epss THEN intel.epss[c] ELSE -1

\* enrich_finding(): a CVE takes over from the best one if it is the first with
\* a KEV hit, or if its EPSS is higher, whether or not the best one has a KEV hit.
BestCve(intel, cves) ==
    LET atLeast0(n) == IF n > 0 THEN n ELSE 0
        better(c, best) ==
            \/ Kev(intel, c) # "no" /\ Kev(intel, best) = "no"
            \/ atLeast0(Epss(intel, c)) > atLeast0(Epss(intel, best))
        best[n \in DOMAIN cves] ==
            IF n > 1 /\ ~better(cves[n], best[n - 1]) THEN best[n - 1] ELSE cves[n]
    IN best[Len(cves)]

Scaled(score, percent) == (score * percent) \div 100
AtLeast(score, floor) == IF score < floor THEN floor ELSE score
AtMost(score, ceiling) == IF score > ceiling THEN ceiling ELSE score

SeverityScore == <<500, 2500, 5000, 7500, 9000>>     \* from info to critical

BaseScore(f) == AtLeast(SeverityScore[f.severity + 1], f.cvss * 100)

\* Seeded fault: a KEV hit sets the score to the floor.
SetByKev(score, kev) == IF kev = "no" THEN score ELSE 8800

\* A KEV hit counts more if ransomware uses it, and puts a floor under the score.
RaisedByKev(score, kev) ==
    IF kev = "no" THEN score
    ELSE AtLeast(Scaled(score, IF kev = "ransomware" THEN 135 ELSE 125), 8800)

\* What the finding's severity and the outside world make of it.
Threat(intel, f, cves) ==
    LET best == IF cves = << >> THEN "none" ELSE BestCve(intel, cves)
        epss == Epss(intel, best)
        pressed == IF epss < 0 THEN BaseScore(f) ELSE Scaled(BaseScore(f), 100 + 6 * epss)
    IN Scaled(RaisedByKev(pressed, Kev(intel, best)),
              ExploitFactor(BestFor(intel.exploits, cves)))

StatusFactor(status) ==
    CASE status \in {"validated", "exploited"} -> 115 [] status = "detected"       -> 100
      [] status = "remediated"                 -> 40  [] status = "false_positive" -> 0

\* priority()
Priority(intel, f, cves, status) ==
    AtMost(Scaled(Scaled(Threat(intel, f, cves), StatusFactor(status)),
                  <<90, 100, 105>>[f.confidence + 1]),
           10000)

\* priority_label()
ScoreLabel(score) ==
    CASE score >= 8500          -> "critical"
      [] score \in 6500..8499 -> "urgent"
      [] score \in 4000..6499 -> "scheduled"
      [] OTHER                  -> "backlog"

PriorityLabel(intel, f, cves, status) ==
    IF cves # << >> /\ Kev(intel, BestCve(intel, cves)) # "no"
    THEN "act now"
    ELSE ScoreLabel(Priority(intel, f, cves, status))

-----------------------------------------------------------------------------
(***************************************************************************)
(* analysis.py                                                             *)
(***************************************************************************)
\* RiskScorer.score(): without intelligence.
RiskScore(f, status) ==
    LET confident == Scaled(BaseScore(f), <<85, 100, 110>>[f.confidence + 1])
    IN CASE status = "false_positive" -> 0
         [] status \in {"validated", "exploited"} -> AtMost(Scaled(confident, 115), 10000)
         [] status = "remediated" -> Scaled(confident, 50)
         [] status = "detected" -> AtMost(confident, 10000)

\* _host_port(): the port of the first evidence that has one, else of the asset.
ChainOf(f) ==
    LET ports == SelectSeq(f.ports, LAMBDA p : p # "none")
    IN [host |-> f.host, port |-> IF ports = << >> THEN f.assetPort ELSE ports[1]]

-----------------------------------------------------------------------------
(***************************************************************************)
(* service_cve.py: a version is its numbers and a suffix.                  *)
(***************************************************************************)
\* _ver_tuple(): three numbers; a suffix counts only if it ends in a number.
VerTuple(v) ==
    [n \in 1..3 |-> IF n \in DOMAIN v.numbers THEN v.numbers[n] ELSE 0]
    \o <<IF v.suffix.digits THEN v.suffix.number ELSE 0>>

\* _version_lt(): Python compares tuples.
VersionLt(v, w) ==
    LET a == VerTuple(v)  b == VerTuple(w)
    IN \E n \in 1..4 : a[n] < b[n] /\ \A m \in 1..(n - 1) : a[m] = b[m]

Canon(name) == IF name \in DOMAIN Aliases THEN Aliases[name] ELSE name

\* A name may be known, as an alias, and yet stand for no product of the seed.
SeedOf(name) == IF Canon(name) \in DOMAIN Fixes THEN Fixes[Canon(name)] ELSE << >>

\* parse_service(): the first banner of a product whose name is known.
NamesService(f) ==
    {n \in DOMAIN f.banners : f.banners[n].product \in DOMAIN Aliases \union DOMAIN Fixes}

ServiceOf(f) == f.banners[CHOOSE n \in NamesService(f) : \A m \in NamesService(f) : n <= m]

\* match(): places in the seed.
MatchedAt(service) ==
    {n \in DOMAIN SeedOf(service.product) :
        VersionLt(service.version, SeedOf(service.product)[n].fixed)}

MatchedBy(service) == {SeedOf(service.product)[n] : n \in MatchedAt(service)}

Outdated(findings) ==
    {f \in findings : NamesService(f) # {} /\ MatchedBy(ServiceOf(f)) # {}}

\* _priority(): of a finding that names the one CVE.
ServicePriority(intel, fix) ==
    Priority(intel, [severity |-> fix.severity, cvss |-> -1, confidence |-> 1], <<fix.cve>>,
             "detected")

\* ServiceCVEMatcher.enrich(): ranked, of two that rank alike the one listed first.
RanksBefore(intel, seed, m, n) ==
    LET score(k) == ServicePriority(intel, seed[k])
    IN score(m) > score(n) \/ (score(m) = score(n) /\ m < n)

RankedAt(intel, seed, places) ==
    CHOOSE list \in [1..Cardinality(places) -> places] :
        \A i, j \in DOMAIN list : i < j => RanksBefore(intel, seed, list[i], list[j])

\* enrich_finding_services(): the CVEs that are not there yet are added.
EnrichFinding(intel, f, cves) ==
    IF f \notin Outdated({f}) THEN cves
    ELSE LET seed == SeedOf(ServiceOf(f).product)
             new == {n \in MatchedAt(ServiceOf(f)) : seed[n].cve \notin Range(cves)}
             ranked == RankedAt(intel, seed, new)
         IN cves \o [n \in DOMAIN ranked |-> seed[ranked[n]].cve]

\* service_findings_from(): one finding for each outdated service, as severe as
\* the CVE that ranks first; the scan that calls it has no intelligence, so that
\* severity ranks.
ServiceFindings(findings) ==
    {[product |-> Canon(s.product), version |-> s.version,
      severity |-> CHOOSE n \in {fix.severity : fix \in MatchedBy(s)} :
                       \A fix \in MatchedBy(s) : fix.severity <= n] :
        s \in {ServiceOf(f) : f \in Outdated(findings)}}

-----------------------------------------------------------------------------
VARIABLES
    kev, epss, exploits,   \* what the process knows
    kevFile, csvFile,      \* the caches on disk: "none", "torn" or "full"
    kevStale, csvStale,    \* the cache is older than refresh_stale() allows
    loading,               \* how far a refresh has come: "no", "kev", "exploits", "seeded"
    ledger,                \* the engagement's row: of each finding the CVEs and the status
    rankings,              \* of each finding the score and chain of the last analyze()
    copies,                \* the row the enrichment is working on, if there is one
    outdated,              \* the services a scan has found to be outdated
    enriched,              \* history: findings whose services were matched and saved
    upkeep                 \* refreshes, restarts and edits

knownVars == <<kev, epss, exploits, kevFile, csvFile, kevStale, csvStale, loading>>
ledgerVars == <<ledger, rankings, copies, outdated, enriched>>
intelVars == <<knownVars, ledgerVars, upkeep>>

Known == [kev |-> kev, epss |-> epss, exploits |-> exploits]

CacheStates == {"none", "torn", "full"}
LedgerRows == [cves: Seq(CveIds), status: IntelStatuses]
Scores == 0..10000

KnowledgeTypeOK ==
    /\ kev \in Listings /\ exploits \subseteq Exploits
    /\ DOMAIN epss \subseteq CveIds /\ \A c \in DOMAIN epss : epss[c] \in 0..10
    /\ kevFile \in CacheStates /\ csvFile \in CacheStates
    /\ kevStale \in BOOLEAN /\ csvStale \in BOOLEAN
    /\ loading \in {"no", "kev", "exploits", "seeded"}

LedgerTypeOK ==
    /\ ledger \in [Ranked -> LedgerRows] /\ copies \subseteq [Ranked -> LedgerRows]
    /\ \A f \in Ranked : rankings[f].risk \in Scores
    /\ enriched \subseteq Ranked

IntelTypeOK == KnowledgeTypeOK /\ LedgerTypeOK /\ upkeep \in 0..MaxUpkeep

\* _load_kev(): the cache if it can be read, else the seed.
KevFrom(file) == IF file = "full" THEN KevFeed ELSE KevSeed

\* ExploitIntel.__init__(): the seed, then the rows of the cache that can be read;
\* of a torn one the first.
CsvFrom(file) ==
    CASE file = "none" -> << >> [] file = "full" -> ExploitCsv
      [] file = "torn" -> [n \in DOMAIN ExploitCsv \intersect {1} |-> ExploitCsv[n]]

LoadAll(csv) == LoadExploits(LoadExploits({}, ExploitSeed), csv)

Analyzed(rows) ==
    [f \in Ranked |-> [risk |-> RiskScore(f, rows[f].status), chain |-> ChainOf(f)]]

IntelInit ==
    /\ kev = KevSeed /\ epss = << >> /\ exploits = LoadAll(<< >>)
    /\ kevFile = "none" /\ csvFile = "none" /\ kevStale = FALSE /\ csvStale = FALSE
    /\ loading = "no"
    /\ ledger = [f \in Ranked |-> [cves |-> f.named, status |-> "detected"]]
    /\ rankings = Analyzed(ledger)
    /\ copies = {} /\ outdated = {} /\ enriched = {} /\ upkeep = 0

Bounded == upkeep < MaxUpkeep /\ upkeep' = upkeep + 1

\* refresh_kev(): the file, then an empty catalogue, then the rows of the file.
RefreshKev ==
    /\ loading = "no" /\ Bounded
    /\ kevFile' = "full" /\ kevStale' = FALSE
    /\ kev' = << >> /\ loading' = "kev"
    /\ UNCHANGED <<epss, exploits, csvFile, csvStale, ledgerVars>>

ReloadKev ==
    /\ loading = "kev"
    /\ kev' = KevFrom(kevFile) /\ loading' = "no"
    /\ UNCHANGED <<epss, exploits, kevFile, csvFile, kevStale, csvStale, ledgerVars, upkeep>>

\* ExploitIntel.refresh(): likewise, the seed before the rows of the file.
RefreshExploits ==
    /\ loading = "no" /\ Bounded
    /\ csvFile' = "full" /\ csvStale' = FALSE
    /\ exploits' = {} /\ loading' = "exploits"
    /\ UNCHANGED <<kev, epss, kevFile, kevStale, ledgerVars>>

ReloadExploits ==
    /\ \/ loading = "exploits" /\ exploits' = LoadExploits({}, ExploitSeed)
                               /\ loading' = "seeded"
       \/ loading = "seeded" /\ exploits' = LoadExploits(exploits, CsvFrom(csvFile))
                             /\ loading' = "no"
    /\ UNCHANGED <<kev, epss, kevFile, csvFile, kevStale, csvStale, ledgerVars, upkeep>>

\* A week passes.
Age ==
    /\ Bounded /\ kevStale' = TRUE /\ csvStale' = TRUE
    /\ UNCHANGED <<kev, epss, exploits, kevFile, csvFile, loading, ledgerVars>>

\* refresh_stale(): a cache that is missing or old is refreshed, KEV first.
RefreshStale ==
    \/ (kevFile = "none" \/ kevStale) /\ RefreshKev
    \/ kevFile # "none" /\ ~kevStale /\ (csvFile = "none" \/ csvStale) /\ RefreshExploits

\* The process is started again, perhaps in the middle of writing a file, which
\* is as fresh as a whole one.
Restart ==
    /\ Bounded
    /\ \/ kevFile' = "torn" /\ kevStale' = FALSE /\ UNCHANGED <<csvFile, csvStale>>
       \/ csvFile' = "torn" /\ csvStale' = FALSE /\ UNCHANGED <<kevFile, kevStale>>
       \/ UNCHANGED <<kevFile, kevStale, csvFile, csvStale>>
    /\ kev' = KevFrom(kevFile') /\ exploits' = LoadAll(CsvFrom(csvFile'))
    /\ loading' = "no" /\ copies' = {}
    /\ UNCHANGED <<epss, ledger, rankings, outdated, enriched>>

\* epss(): what the service answers is cached for good.
Fetched(cves, online) ==
    [c \in DOMAIN epss \union {d \in cves : online /\ d \in DOMAIN EpssFeed} |->
        IF c \in DOMAIN epss THEN epss[c] ELSE EpssFeed[c]]

\* The prioritization endpoint: every finding but the false positives is ranked.
Prioritize(online) ==
    /\ epss' = Fetched(UNION {Range(ledger[f].cves) :
                                f \in {g \in Ranked : ledger[g].status # "false_positive"}},
                       online)
    /\ UNCHANGED <<kev, exploits, kevFile, csvFile, kevStale, csvStale, loading, ledgerVars,
                   upkeep>>

\* A validator or a retest sets the status; nothing sets exploited.  A scan of the
\* host reports what is outdated and analyzes what is there.
SetStatus(f, status) ==
    /\ status # "exploited"
    /\ Bounded /\ ledger' = [ledger EXCEPT ![f].status = status]
    /\ UNCHANGED <<knownVars, rankings, copies, outdated, enriched>>

Analyze ==
    /\ rankings' = Analyzed(ledger)
    /\ outdated' = ServiceFindings(Ranked)
    /\ UNCHANGED <<knownVars, ledger, copies, enriched, upkeep>>

\* The enrichment endpoint reads the row, asks for the EPSS of what it matches
\* and writes the row back.
BeginEnrichment(online) ==
    LET matched == UNION {{fix.cve : fix \in MatchedBy(ServiceOf(f))} :
                             f \in Outdated(Ranked)}
    IN  /\ copies = {} /\ Bounded
        /\ copies' = {ledger}
        /\ epss' = Fetched(matched, online)
        /\ UNCHANGED <<kev, exploits, kevFile, csvFile, kevStale, csvStale, loading, ledger,
                       rankings, outdated, enriched>>

SaveEnrichment ==
    LET row == CHOOSE r \in copies : TRUE
        saved == [f \in Ranked |-> [row[f] EXCEPT !.cves = EnrichFinding(Known, f, @)]]
    IN  /\ copies # {}
        /\ copies' = {}
        /\ ledger' = IF Outdated(Ranked) = {} THEN ledger ELSE saved
        /\ enriched' = {f \in Ranked : NamesService(f) # {}}
        /\ UNCHANGED <<knownVars, rankings, outdated, upkeep>>

IntelNext ==
    \/ RefreshKev \/ ReloadKev \/ RefreshExploits \/ ReloadExploits
    \/ Age \/ RefreshStale \/ Restart
    \/ \E online \in BOOLEAN : Prioritize(online)
    \/ \E f \in Ranked, status \in IntelStatuses : SetStatus(f, status)
    \/ Analyze
    \/ \E online \in BOOLEAN : BeginEnrichment(online)
    \/ SaveEnrichment

IntelSpec == IntelInit /\ [][IntelNext]_intelVars

-----------------------------------------------------------------------------
Blind == [kev |-> << >>, epss |-> << >>, exploits |-> {}]

\* No evidence of exploitation ranks a finding lower than no evidence would, nor
\* does proof of it.
RanksByEvidence(f, cves, status) ==
    /\ Priority(Known, f, cves, status) >= Priority(Blind, f, cves, status)
    /\ Priority(Known, f, cves, "validated") >= Priority(Known, f, cves, "detected")
    /\ Priority(Known, f, cves, "detected") >= Priority(Known, f, cves, "remediated")
    /\ Priority(Known, f, cves, "remediated") >= Priority(Known, f, cves, "false_positive")

\* A finding all of whose CVEs are listed in KEV never ranks low, and is to be
\* acted on now.
AllListed(cves) == cves # << >> /\ \A c \in Range(cves) : Kev(Known, c) # "no"

RanksHigh(f, cves) == AllListed(cves) => Priority(Known, f, cves, "detected") >= 7920

IsUrgent(f, cves, status) ==
    AllListed(cves) => PriorityLabel(Known, f, cves, status) = "act now"

\* The fixes of a service whose numbers say that it is older.
Overdue(service) ==
    LET a == VerTuple(service.version)
        older(b) == \/ a[1] < b[1]
                    \/ a[1] = b[1] /\ a[2] < b[2]
                    \/ a[1] = b[1] /\ a[2] = b[2] /\ a[3] < b[3]
    IN {fix \in Range(SeedOf(service.product)) : older(VerTuple(fix.fixed))}

\* Whatever is being refreshed, torn or restarted: evidence counts as it should,
\* and a service that is older than a fix of the seed is reported as severely as
\* the worst of them, and named with all of them once matched.
EvidenceCounts ==
    /\ \A f \in Ranked : /\ RanksByEvidence(f, ledger[f].cves, ledger[f].status)
                         /\ RanksHigh(f, ledger[f].cves)
                         /\ IsUrgent(f, ledger[f].cves, ledger[f].status)
    /\ \A f \in enriched : \A fix \in Overdue(ServiceOf(f)) : fix.cve \in Range(ledger[f].cves)
    /\ outdated # {} =>
         \A f \in {g \in Ranked : NamesService(g) # {}} : \A fix \in Overdue(ServiceOf(f)) :
            \E o \in outdated : /\ o.product = Canon(ServiceOf(f).product)
                                /\ o.version = ServiceOf(f).version
                                /\ o.severity >= fix.severity

=============================================================================
