------------------------------ MODULE MCIntel ------------------------------
(***************************************************************************)
(* Feeds, findings and fixes for TLC.                                      *)
(***************************************************************************)
EXTENDS Intel, TLC

Exploit(cve, edb, verified, msf) ==
    [cve |-> cve, source |-> "exploit-db", edb |-> edb, verified |-> verified, msf |-> msf]

ModelSeedExploits == <<Exploit("c1", 1, FALSE, FALSE), Exploit("c2", 2, FALSE, TRUE)>>
ModelCsv == <<Exploit("c1", 1, TRUE, FALSE), Exploit("c3", 3, TRUE, FALSE)>>
ModelKevSeed == "c1" :> "listed"
ModelKevFeed == "c1" :> "listed" @@ "c3" :> "ransomware"
ModelEpss == "c1" :> 0 @@ "c2" :> 9

Version(numbers, number) ==
    [numbers |-> numbers, suffix |-> [digits |-> number # 0, number |-> number]]

\* A server that two fixes are newer than, and one that lacks a patch level.
OldServer ==
    [severity |-> 4, cvss |-> -1, confidence |-> 0, named |-> <<"c2">>,
     host |-> "h", assetPort |-> "none", ports |-> <<"none", "80">>,
     banners |-> <<[product |-> "unknown", version |-> Version(<<1>>, 0)],
                   [product |-> "httpd", version |-> Version(<<2, 4>>, 0)]>>]
NewServer ==
    [OldServer EXCEPT !.severity = 0, !.cvss = 98, !.confidence = 2, !.named = << >>,
        !.banners = <<[product |-> "apache", version |-> Version(<<3, 0, 1>>, 1)]>>]


\* The alias that is found first stands for no product of the seed.
Proxy ==
    [NewServer EXCEPT
        !.banners = <<[product |-> "lighttpd", version |-> Version(<<1, 4>>, 0)],
                      [product |-> "apache", version |-> Version(<<2, 0>>, 0)]>>]

ModelRanked == {OldServer, NewServer, Proxy}
ModelFixes ==
    "apache" :> <<[cve |-> "c1", fixed |-> Version(<<2, 4, 39>>, 0), severity |-> 3],
                  [cve |-> "c3", fixed |-> Version(<<3, 0, 1>>, 2), severity |-> 4]>>
ModelAliases == "httpd" :> "apache" @@ "lighttpd" :> "lighttpd"

=============================================================================
