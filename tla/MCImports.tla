------------------------------ MODULE MCImports ------------------------------
(***************************************************************************)
(* Rows the tools may write for TLC: two or so for every importer, with    *)
(* and without a CWE, a score, a known label and a place.                  *)
(***************************************************************************)
EXTENDS Imports, TLC

TitleOf(n, long, cwe, class) == [name |-> n, long |-> long, cwe |-> cwe, class |-> class]
Xss == TitleOf("xss", FALSE, "none", "79")
Named == TitleOf("named", TRUE, "16", "79")
Odd == TitleOf("odd", TRUE, "none", "none")

Word(level) == [form |-> "word", level |-> level, score |-> -1]
Number(n) == [form |-> "number", level |-> 0, score |-> n]
Blank == [form |-> "blank", level |-> 0, score |-> -1]
Unknown == [form |-> "other", level |-> 0, score |-> -1]

ModelOwasp == "79" :> "A03" @@ "16" :> "A05"

SarifRow == [asset_type |-> "none", uri |-> "file", title |-> Xss, category |-> "none",
             ruleCategory |-> "none", ruleId |-> "none", cwe |-> "none", severity |-> -1,
             score |-> 75, level |-> 2, location |-> "none", driver |-> "semgrep"]
NessusRow == [host |-> "h", title |-> Xss, cwe |-> "none", severity |-> 2, risk |-> Blank,
              score |-> -1, port |-> "80", refs |-> "none"]
NucleiRow == [host |-> "h", matched |-> "url", title |-> Xss, cwe |-> "none", label |-> Word(4),
              score |-> -1, refs |-> "none"]
OwnExport == [native |-> TRUE,
              finding |-> NewFinding(MakeAsset("web", "url"), Xss, "A03", 3, "url", "none", {"x"})]

ModelRows ==
    "nessus" :> {NessusRow,
                 [NessusRow EXCEPT !.title = Odd, !.cwe = "434", !.severity = -1,
                                   !.risk = Unknown, !.score = 90]} @@
    "nuclei" :> {NucleiRow,
                 [NucleiRow EXCEPT !.matched = "none", !.title = Odd, !.label = Blank,
                                   !.score = 10, !.refs = "16"]} @@
    "zap" :> {[host |-> "url", title |-> Named, cwe |-> "79", riskcode |-> 1,
               instance |-> "url"]} @@
    "trivy" :> {[artifact |-> "h", title |-> Odd, misconfig |-> m, cwe |-> "79",
                 label |-> Word(1), place |-> "80", refs |-> "none"] : m \in BOOLEAN} @@
    "prowler" :> {[account |-> "acc", title |-> Odd, failed |-> f, about |-> "crypto",
                   label |-> Word(3), resource |-> "file"] : f \in BOOLEAN} @@
    "kube-bench" :> {[node |-> "node", title |-> Odd, status |-> s, scored |-> TRUE,
                      about |-> "access", number |-> "none"] : s \in {"fail", "warn", "pass"}} @@
    "sarif" :> {SarifRow, [SarifRow EXCEPT !.ruleId = "A05", !.score = -1, !.location = "80"]} @@
    "generic-json" :> {OwnExport,
                       [native |-> FALSE, titled |-> TRUE, type |-> "none", target |-> "h",
                        title |-> Xss, category |-> "custom", cwe |-> "none",
                        label |-> Number(50), score |-> -1, location |-> "80",
                        refs |-> "none", tool |-> {}]}

=============================================================================
