----------------------------- MODULE MCPlatform -----------------------------
(***************************************************************************)
(* The components that share no state with each other, for TLC: in each    *)
(* behaviour one of them moves, named by "part", and the others rest, so   *)
(* that their states add up instead of multiplying.                        *)
(***************************************************************************)
EXTENDS Accounts, Projects, Portal, Tickets, SelfUpdate, MCInventory, Retest, MCImports,
        MCDeepscan, MCCodeScan, MCIntel, AttackPaths, Validators, Bas, RateLimiter, Crawler,
        Fuzzer, Authz, MCOast, MCWebChecks

FirstOf(S) == CHOOSE x \in S : TRUE

-----------------------------------------------------------------------------
(***************************************************************************)
(* Instances                                                               *)
(***************************************************************************)

\* PATCH bodies: one that leaves the status alone, one that reopens.
ModelPatches == {[status |-> "keep", add |-> {"b"}, remove |-> {}],
                 [status |-> "open", add |-> {}, remove |-> {"a"}]}

\* Sites of four pages, with every shape of links from the seed, cycles, pages
\* that are dead, on another host, or not HTML, and a seed that is redirected.
ModelSites ==
    {[links |-> "home" :> fromHome @@ "a" :> fromA @@ "b" :> fromB @@ "c" :> {"home"},
      scripts |-> [p \in Pages |-> IF p = "home" THEN {"j1", "j2"} ELSE {"j2"}],
      up |-> Pages \ dead, html |-> Pages \ {"c"}, own |-> Pages \ {"b"}, landing |-> landing] :
        fromHome \in SUBSET {"a", "b", "c"}, fromA \in {{}, {"b", "c"}, {"home", "b"}},
        fromB \in {{}, {"a", "c"}}, dead \in {{}, {"a"}}, landing \in {{}, {"b"}}}

\* Points that answer everything alike, one of them with all the signs a
\* detector looks for; and a vulnerable one.
Page == [status |-> 200, signs |-> {}, length |-> 100, slow |-> FALSE]
OddPage == [status |-> 500, signs |-> {"sql error", "code error", "product"}, length |-> 100,
            slow |-> TRUE]
Alike(answer) == [answer |-> [k \in Kinds |-> answer], calls |-> FALSE]
Vulnerable == [answer |-> [k \in Kinds |-> CASE k = "true" -> [Page EXCEPT !.length = 99]
                                             [] k = "false" -> [Page EXCEPT !.length = 50]
                                             [] k = "sleep" -> [Page EXCEPT !.slow = TRUE]
                                             [] OTHER -> Page],
               calls |-> TRUE]
ModelTargets == {Alike(Page), Alike(OddPage), Vulnerable}
TwoEach == [d \in Enabled |-> 2]

\* Two identities that share an object; one owns another besides.
ModelOwned == "ann" :> {"o1"} @@ "bob" :> {"o1", "o2"}

\* A strict application, and ones that err or mislead in different ways.
Strict == [enforces |-> {"get"}, public |-> {}, scoped |-> TRUE, guards |-> {"panel"},
           refusal |-> "denied", write |-> "ignored", echo |-> "nothing", leaks |-> {},
           tells |-> FALSE, throttleAt |-> 2]
ModelApps ==
    {Strict,
     [Strict EXCEPT !.write = "bound", !.echo = "stored"],
     [Strict EXCEPT !.echo = "stored"],
     [Strict EXCEPT !.echo = "input", !.refusal = "json"],
     [Strict EXCEPT !.enforces = {}, !.guards = {}, !.refusal = "login"],
     [Strict EXCEPT !.scoped = FALSE, !.leaks = {"pii"}, !.tells = TRUE, !.throttleAt = 0,
                    !.refusal = "words", !.write = "rejected"]}

\* Findings of three hosts over a chain of four tactics, the last two with impact.
Weakness(group, on, severity, risk, cwe, category) ==
    [group |-> group, asset |-> on, severity |-> severity, risk |-> risk, cwe |-> cwe,
     category |-> category]
ModelObservations ==
    {Weakness("c1", "https://x", 3, 1, "89", "A03"), Weakness("c1", "x:443", 4, 1, "89", "none"),
     Weakness("c1", "x:443", 3, 2, "none", "A03"), Weakness("y", "y", 0, 0, "none", "A01"),
     Weakness("y", "y", 2, 0, "16", "A01"), Weakness("z", "z", 1, 0, "none", "A05")}
ModelCwes == "89" :> <<"exploit", "collect">> @@ "16" :> <<"unlisted", "scan">>
ModelCategories == "A03" :> <<"exploit", "run">> @@ "A01" :> <<"collect">> @@ "A05" :> <<"dump">>
ModelTactics == "scan" :> 1 @@ "exploit" :> 2 @@ "run" :> 2 @@ "dump" :> 3 @@ "collect" :> 4
ModelKeys == "https://x" :> "x" @@ "x:443" :> "x" @@ "y" :> "y" @@ "z" :> "z"

\* Findings that claim what their target does, and ones that do not.
Suspect(claims, reflects, evaluates, exploit) ==
    [claims |-> claims, reflects |-> reflects, evaluates |-> evaluates, exploit |-> exploit]
ModelSuspects ==
    {Suspect({"xss"}, TRUE, FALSE, FALSE), Suspect({"xss", "sqli"}, FALSE, TRUE, FALSE),
     Suspect({"sqli"}, TRUE, TRUE, FALSE), Suspect({"sqli"}, FALSE, FALSE, FALSE),
     Suspect({"listing"}, FALSE, FALSE, FALSE), Suspect({}, TRUE, TRUE, TRUE)}

\* A hardened target, a bare one, and two in between.
Defended == [headers |-> {"hsts", "waf", "framing", "cookie", "nosniff"}, redirects |-> TRUE,
             allow |-> "safe", open |-> FALSE, lists |-> FALSE, throttleAt |-> 2]
ModelDefences ==
    {Defended,
     [headers |-> {"weak cookie", "banner"}, redirects |-> FALSE, allow |-> "dangerous",
      open |-> TRUE, lists |-> TRUE, throttleAt |-> 0],
     [Defended EXCEPT !.headers = {"framing"}, !.allow = "none", !.throttleAt = 3],
     [Defended EXCEPT !.headers = {"hsts", "nosniff"}, !.redirects = FALSE, !.open = TRUE]}

-----------------------------------------------------------------------------
VARIABLE part

Parts == {"accounts", "projects", "portal", "tickets", "update", "inventory", "retest", "imports",
          "deepscan", "codescan", "intel", "paths", "validate", "bas", "rate", "crawl", "fuzz",
          "authz", "oast", "web"}

\* The program as a service, its records of findings and assets, its probes of
\* targets, and what it makes of findings and defences.
serviceVars == <<accountVars, projectVars, portalVars, ticketVars, updateVars>>
recordVars == <<inventoryVars, retestVars, importVars, deepscanVars, codeScanVars, intelVars>>
probeVars == <<rateVars, crawlVars, fuzzVars, authzVars, oastVars, webVars>>
verdictVars == <<pathVars, validatorVars, basVars>>

\* A component with several initial states rests in one of them.
Init ==
    /\ part \in Parts
    /\ AccountsInit /\ ProjectsInit /\ PortalInit /\ TicketsInit
    /\ UpdateInit /\ (part = "update" \/ deployment = "pip")
    /\ InventoryInit /\ RetestInit /\ ImportInit /\ DeepscanInit /\ CodeScanInit /\ IntelInit
    /\ PathInit /\ (part = "paths" \/ jewels = FirstOf(Jewels))
    /\ ValidatorsInit /\ (part = "validate" \/ suspects = << >>)
    /\ BasInit /\ (part = "bas" \/ defence = FirstOf(Defences))
    /\ RateInit
    /\ CrawlInit /\ (part = "crawl" \/ site = FirstOf(Sites))
    /\ FuzzInit /\ (part = "fuzz" \/ target = [n \in 1..NPoints |-> FirstOf(Targets)])
    /\ OastInit /\ (part = "oast" \/ (client = FirstOf(Clients) /\ ~labelled))
    /\ WebInit /\ (part = "web" \/ website = FirstOf(WebSites))
    /\ AuthzInit
    /\ \/ part = "authz"
       \/ app = FirstOf(Apps) /\ roleOf = [i \in Identities |-> "user"] /\ ~active /\ ~readUrl

Next ==
    \/ /\ part = "accounts" /\ AccountsNext
       /\ UNCHANGED <<part, projectVars, portalVars, ticketVars, updateVars, recordVars,
                      probeVars, verdictVars>>
    \/ /\ part = "projects" /\ ProjectsNext
       /\ UNCHANGED <<part, accountVars, portalVars, ticketVars, updateVars, recordVars,
                      probeVars, verdictVars>>
    \/ /\ part = "portal" /\ PortalNext
       /\ UNCHANGED <<part, accountVars, projectVars, ticketVars, updateVars, recordVars,
                      probeVars, verdictVars>>
    \/ /\ part = "tickets" /\ TicketsNext
       /\ UNCHANGED <<part, accountVars, projectVars, portalVars, updateVars, recordVars,
                      probeVars, verdictVars>>
    \/ /\ part = "update" /\ UpdateNext
       /\ UNCHANGED <<part, accountVars, projectVars, portalVars, ticketVars, recordVars,
                      probeVars, verdictVars>>
    \/ /\ part = "inventory" /\ InventoryNext
       /\ UNCHANGED <<part, retestVars, importVars, deepscanVars, codeScanVars, intelVars,
                      serviceVars, probeVars, verdictVars>>
    \/ /\ part = "retest" /\ RetestNext
       /\ UNCHANGED <<part, inventoryVars, importVars, deepscanVars, codeScanVars, intelVars,
                      serviceVars, probeVars, verdictVars>>
    \/ /\ part = "imports" /\ ImportNext
       /\ UNCHANGED <<part, inventoryVars, retestVars, deepscanVars, codeScanVars, intelVars,
                      serviceVars, probeVars, verdictVars>>
    \/ /\ part = "deepscan" /\ DeepscanNext
       /\ UNCHANGED <<part, inventoryVars, retestVars, importVars, codeScanVars, intelVars,
                      serviceVars, probeVars, verdictVars>>
    \/ /\ part = "codescan" /\ CodeScanNext
       /\ UNCHANGED <<part, inventoryVars, retestVars, importVars, deepscanVars, intelVars,
                      serviceVars, probeVars, verdictVars>>
    \/ /\ part = "intel" /\ IntelNext
       /\ UNCHANGED <<part, inventoryVars, retestVars, importVars, deepscanVars, codeScanVars,
                      serviceVars, probeVars, verdictVars>>
    \/ /\ part = "rate" /\ RateNext
       /\ UNCHANGED <<part, crawlVars, fuzzVars, authzVars, oastVars, webVars, serviceVars,
                      recordVars, verdictVars>>
    \/ /\ part = "crawl" /\ CrawlNext
       /\ UNCHANGED <<part, rateVars, fuzzVars, authzVars, oastVars, webVars, serviceVars,
                      recordVars, verdictVars>>
    \/ /\ part = "fuzz" /\ FuzzNext
       /\ UNCHANGED <<part, rateVars, crawlVars, authzVars, oastVars, webVars, serviceVars,
                      recordVars, verdictVars>>
    \/ /\ part = "authz" /\ AuthzNext
       /\ UNCHANGED <<part, rateVars, crawlVars, fuzzVars, oastVars, webVars, serviceVars,
                      recordVars, verdictVars>>
    \/ /\ part = "oast" /\ OastNext
       /\ UNCHANGED <<part, rateVars, crawlVars, fuzzVars, authzVars, webVars, serviceVars,
                      recordVars, verdictVars>>
    \/ /\ part = "web" /\ WebNext
       /\ UNCHANGED <<part, rateVars, crawlVars, fuzzVars, authzVars, oastVars, serviceVars,
                      recordVars, verdictVars>>
    \/ /\ part = "paths" /\ PathNext
       /\ UNCHANGED <<part, validatorVars, basVars, serviceVars, recordVars, probeVars>>
    \/ /\ part = "validate" /\ ValidatorsNext
       /\ UNCHANGED <<part, pathVars, basVars, serviceVars, recordVars, probeVars>>
    \/ /\ part = "bas" /\ BasNext
       /\ UNCHANGED <<part, pathVars, validatorVars, serviceVars, recordVars, probeVars>>

vars == <<part, serviceVars, recordVars, probeVars, verdictVars>>

Spec == Init /\ [][Next]_vars

\* Every variable of every component stays in its type.
TypeOK ==
    /\ AccountsTypeOK /\ ProjectsTypeOK /\ PortalTypeOK /\ TicketsTypeOK /\ UpdateTypeOK
    /\ InventoryTypeOK /\ RetestTypeOK /\ ImportTypeOK /\ DeepscanTypeOK
    /\ CodeScanTypeOK /\ IntelTypeOK /\ PathTypeOK /\ ValidatorsTypeOK /\ BasTypeOK
    /\ RateTypeOK /\ CrawlTypeOK /\ FuzzTypeOK /\ AuthzTypeOK /\ OastTypeOK /\ WebTypeOK

=============================================================================
