--------------------------- MODULE Platform_proofs ---------------------------
(***************************************************************************)
(* The platform: the components that share no state, side by side.  Every  *)
(* step of the whole is a step of one of them and leaves the others where  *)
(* they are, so that each runs as its own specification says, and what is  *)
(* proved of it alone holds of the whole.                                  *)
(***************************************************************************)
EXTENDS MCPlatform, Service_proofs, Findings_proofs, Probes_proofs,
        Verdicts_proofs

-----------------------------------------------------------------------------
(***************************************************************************)
(* A step of the whole, seen by each component.                            *)
(***************************************************************************)
ServiceSteps ==
    /\ [AccountsNext]_accountVars /\ [ProjectsNext]_projectVars /\ [PortalNext]_portalVars
    /\ [TicketsNext]_ticketVars /\ [UpdateNext]_updateVars
RecordSteps ==
    /\ [InventoryNext]_inventoryVars /\ [RetestNext]_retestVars /\ [ImportNext]_importVars
    /\ [DeepscanNext]_deepscanVars /\ [CodeScanNext]_codeScanVars /\ [IntelNext]_intelVars
ProbeSteps ==
    /\ [RateNext]_rateVars /\ [CrawlNext]_crawlVars /\ [FuzzNext]_fuzzVars
    /\ [AuthzNext]_authzVars /\ [OastNext]_oastVars /\ [WebNext]_webVars
VerdictSteps ==
    /\ [PathNext]_pathVars /\ [ValidatorsNext]_validatorVars /\ [BasNext]_basVars

LEMMA ServiceStepsAre == ASSUME [Next]_vars PROVE ServiceSteps
<1>1. CASE AccountsNext /\ UNCHANGED <<projectVars, portalVars, ticketVars, updateVars>>
  BY <1>1 DEF ServiceSteps
<1>2. CASE ProjectsNext /\ UNCHANGED <<accountVars, portalVars, ticketVars, updateVars>>
  BY <1>2 DEF ServiceSteps
<1>3. CASE PortalNext /\ UNCHANGED <<accountVars, projectVars, ticketVars, updateVars>>
  BY <1>3 DEF ServiceSteps
<1>4. CASE TicketsNext /\ UNCHANGED <<accountVars, projectVars, portalVars, updateVars>>
  BY <1>4 DEF ServiceSteps
<1>5. CASE UpdateNext /\ UNCHANGED <<accountVars, projectVars, portalVars, ticketVars>>
  BY <1>5 DEF ServiceSteps
<1>6. CASE UNCHANGED serviceVars
  BY <1>6 DEF ServiceSteps, serviceVars
<1> QED
  BY <1>1, <1>2, <1>3, <1>4, <1>5, <1>6 DEF Next, vars

LEMMA RecordStepsAre == ASSUME [Next]_vars PROVE RecordSteps
<1>1. CASE InventoryNext /\ UNCHANGED <<retestVars, importVars, deepscanVars,
                                        codeScanVars, intelVars>>
  BY <1>1 DEF RecordSteps
<1>2. CASE RetestNext /\ UNCHANGED <<inventoryVars, importVars, deepscanVars,
                                     codeScanVars, intelVars>>
  BY <1>2 DEF RecordSteps
<1>3. CASE ImportNext /\ UNCHANGED <<inventoryVars, retestVars, deepscanVars,
                                     codeScanVars, intelVars>>
  BY <1>3 DEF RecordSteps
<1>4. CASE DeepscanNext /\ UNCHANGED <<inventoryVars, retestVars, importVars,
                                       codeScanVars, intelVars>>
  BY <1>4 DEF RecordSteps
<1>5. CASE CodeScanNext /\ UNCHANGED <<inventoryVars, retestVars, importVars,
                                       deepscanVars, intelVars>>
  BY <1>5 DEF RecordSteps
<1>6. CASE IntelNext /\ UNCHANGED <<inventoryVars, retestVars, importVars, deepscanVars,
                                    codeScanVars>>
  BY <1>6 DEF RecordSteps
<1>7. CASE UNCHANGED recordVars
  BY <1>7 DEF RecordSteps, recordVars
<1> QED
  BY <1>1, <1>2, <1>3, <1>4, <1>5, <1>6, <1>7 DEF Next, vars

LEMMA ProbeStepsAre == ASSUME [Next]_vars PROVE ProbeSteps
<1>1. CASE RateNext /\ UNCHANGED <<crawlVars, fuzzVars, authzVars, oastVars, webVars>>
  BY <1>1 DEF ProbeSteps
<1>2. CASE CrawlNext /\ UNCHANGED <<rateVars, fuzzVars, authzVars, oastVars, webVars>>
  BY <1>2 DEF ProbeSteps
<1>3. CASE FuzzNext /\ UNCHANGED <<rateVars, crawlVars, authzVars, oastVars, webVars>>
  BY <1>3 DEF ProbeSteps
<1>4. CASE AuthzNext /\ UNCHANGED <<rateVars, crawlVars, fuzzVars, oastVars, webVars>>
  BY <1>4 DEF ProbeSteps
<1>5. CASE OastNext /\ UNCHANGED <<rateVars, crawlVars, fuzzVars, authzVars, webVars>>
  BY <1>5 DEF ProbeSteps
<1>6. CASE WebNext /\ UNCHANGED <<rateVars, crawlVars, fuzzVars, authzVars, oastVars>>
  BY <1>6 DEF ProbeSteps
<1>7. CASE UNCHANGED probeVars
  BY <1>7 DEF ProbeSteps, probeVars
<1> QED
  BY <1>1, <1>2, <1>3, <1>4, <1>5, <1>6, <1>7 DEF Next, vars

LEMMA VerdictStepsAre == ASSUME [Next]_vars PROVE VerdictSteps
<1>1. CASE PathNext /\ UNCHANGED <<validatorVars, basVars>>
  BY <1>1 DEF VerdictSteps
<1>2. CASE ValidatorsNext /\ UNCHANGED <<pathVars, basVars>>
  BY <1>2 DEF VerdictSteps
<1>3. CASE BasNext /\ UNCHANGED <<pathVars, validatorVars>>
  BY <1>3 DEF VerdictSteps
<1>4. CASE UNCHANGED verdictVars
  BY <1>4 DEF VerdictSteps, verdictVars
<1> QED
  BY <1>1, <1>2, <1>3, <1>4 DEF Next, vars

-----------------------------------------------------------------------------
(***************************************************************************)
(* Each component runs as specified.                                       *)
(***************************************************************************)
LEMMA AccountsRuns == Spec => AccountsSpec
<1>1. Init => AccountsInit
  BY DEF Init
<1>2. [Next]_vars => [AccountsNext]_accountVars
  BY ServiceStepsAre DEF ServiceSteps
<1> QED
  BY <1>1, <1>2, PTL DEF Spec, AccountsSpec

LEMMA ProjectsRuns == Spec => ProjectsSpec
<1>1. Init => ProjectsInit
  BY DEF Init
<1>2. [Next]_vars => [ProjectsNext]_projectVars
  BY ServiceStepsAre DEF ServiceSteps
<1> QED
  BY <1>1, <1>2, PTL DEF Spec, ProjectsSpec

LEMMA PortalRuns == Spec => PortalSpec
<1>1. Init => PortalInit
  BY DEF Init
<1>2. [Next]_vars => [PortalNext]_portalVars
  BY ServiceStepsAre DEF ServiceSteps
<1> QED
  BY <1>1, <1>2, PTL DEF Spec, PortalSpec

LEMMA TicketsRuns == Spec => TicketsSpec
<1>1. Init => TicketsInit
  BY DEF Init
<1>2. [Next]_vars => [TicketsNext]_ticketVars
  BY ServiceStepsAre DEF ServiceSteps
<1> QED
  BY <1>1, <1>2, PTL DEF Spec, TicketsSpec

LEMMA UpdateRuns == Spec => UpdateSpec
<1>1. Init => UpdateInit
  BY DEF Init
<1>2. [Next]_vars => [UpdateNext]_updateVars
  BY ServiceStepsAre DEF ServiceSteps
<1> QED
  BY <1>1, <1>2, PTL DEF Spec, UpdateSpec

LEMMA InventoryRuns == Spec => InventorySpec
<1>1. Init => InventoryInit
  BY DEF Init
<1>2. [Next]_vars => [InventoryNext]_inventoryVars
  BY RecordStepsAre DEF RecordSteps
<1> QED
  BY <1>1, <1>2, PTL DEF Spec, InventorySpec

LEMMA RetestRuns == Spec => RetestSpec
<1>1. Init => RetestInit
  BY DEF Init
<1>2. [Next]_vars => [RetestNext]_retestVars
  BY RecordStepsAre DEF RecordSteps
<1> QED
  BY <1>1, <1>2, PTL DEF Spec, RetestSpec

LEMMA ImportRuns == Spec => ImportSpec
<1>1. Init => ImportInit
  BY DEF Init
<1>2. [Next]_vars => [ImportNext]_importVars
  BY RecordStepsAre DEF RecordSteps
<1> QED
  BY <1>1, <1>2, PTL DEF Spec, ImportSpec

LEMMA DeepscanRuns == Spec => DeepscanSpec
<1>1. Init => DeepscanInit
  BY DEF Init
<1>2. [Next]_vars => [DeepscanNext]_deepscanVars
  BY RecordStepsAre DEF RecordSteps
<1> QED
  BY <1>1, <1>2, PTL DEF Spec, DeepscanSpec

LEMMA CodeScanRuns == Spec => CodeScanSpec
<1>1. Init => CodeScanInit
  BY DEF Init
<1>2. [Next]_vars => [CodeScanNext]_codeScanVars
  BY RecordStepsAre DEF RecordSteps
<1> QED
  BY <1>1, <1>2, PTL DEF Spec, CodeScanSpec

LEMMA IntelRuns == Spec => IntelSpec
<1>1. Init => IntelInit
  BY DEF Init
<1>2. [Next]_vars => [IntelNext]_intelVars
  BY RecordStepsAre DEF RecordSteps
<1> QED
  BY <1>1, <1>2, PTL DEF Spec, IntelSpec

LEMMA RateRuns == Spec => RateSpec
<1>1. Init => RateInit
  BY DEF Init
<1>2. [Next]_vars => [RateNext]_rateVars
  BY ProbeStepsAre DEF ProbeSteps
<1> QED
  BY <1>1, <1>2, PTL DEF Spec, RateSpec

LEMMA CrawlRuns == Spec => CrawlSpec
<1>1. Init => CrawlInit
  BY DEF Init
<1>2. [Next]_vars => [CrawlNext]_crawlVars
  BY ProbeStepsAre DEF ProbeSteps
<1> QED
  BY <1>1, <1>2, PTL DEF Spec, CrawlSpec

LEMMA FuzzRuns == Spec => FuzzSpec
<1>1. Init => FuzzInit
  BY DEF Init
<1>2. [Next]_vars => [FuzzNext]_fuzzVars
  BY ProbeStepsAre DEF ProbeSteps
<1> QED
  BY <1>1, <1>2, PTL DEF Spec, FuzzSpec

LEMMA AuthzRuns == Spec => AuthzSpec
<1>1. Init => AuthzInit
  BY DEF Init
<1>2. [Next]_vars => [AuthzNext]_authzVars
  BY ProbeStepsAre DEF ProbeSteps
<1> QED
  BY <1>1, <1>2, PTL DEF Spec, AuthzSpec

LEMMA WebRuns == Spec => WebSpec
<1>1. Init => WebInit
  BY DEF Init
<1>2. [Next]_vars => [WebNext]_webVars
  BY ProbeStepsAre DEF ProbeSteps
<1> QED
  BY <1>1, <1>2, PTL DEF Spec, WebSpec

LEMMA PathRuns == Spec => PathSpec
<1>1. Init => PathInit
  BY DEF Init
<1>2. [Next]_vars => [PathNext]_pathVars
  BY VerdictStepsAre DEF VerdictSteps
<1> QED
  BY <1>1, <1>2, PTL DEF Spec, PathSpec

LEMMA ValidatorsRuns == Spec => ValidatorsSpec
<1>1. Init => ValidatorsInit
  BY DEF Init
<1>2. [Next]_vars => [ValidatorsNext]_validatorVars
  BY VerdictStepsAre DEF VerdictSteps
<1> QED
  BY <1>1, <1>2, PTL DEF Spec, ValidatorsSpec

LEMMA BasRuns == Spec => BasSpec
<1>1. Init => BasInit
  BY DEF Init
<1>2. [Next]_vars => [BasNext]_basVars
  BY VerdictStepsAre DEF VerdictSteps
<1> QED
  BY <1>1, <1>2, PTL DEF Spec, BasSpec

\* The callback server's own specification asks for fairness, which the whole does
\* not: its invariants need none.
LEMMA OastStays == Spec => [](OastTypeOK /\ OnlyCalledIsAccused)
<1>1. Init => OastIInv
  BY OastInitIInv DEF Init
<1>2. OastIInv /\ [Next]_vars => OastIInv'
  BY ProbeStepsAre, OastNextIInv DEF ProbeSteps
<1>3. OastIInv => OastTypeOK /\ OnlyCalledIsAccused
  BY DEF OastIInv
<1> QED
  BY <1>1, <1>2, <1>3, PTL DEF Spec

-----------------------------------------------------------------------------
(***************************************************************************)
(* What holds of the whole                                                 *)
(***************************************************************************)

\* Type correctness of the whole: whatever the components do side by side, with any
\* values of their constants, every variable of each stays in its type.
THEOREM PlatformTypeCorrect == Spec => []TypeOK
<1>1. Spec => [](/\ AccountsTypeOK /\ ProjectsTypeOK /\ PortalTypeOK /\ TicketsTypeOK
                 /\ UpdateTypeOK)
  BY AccountsRuns, AccountsTypeCorrect, ProjectsRuns, ProjectsTypeCorrect, PortalRuns,
     PortalTypeCorrect, TicketsRuns, TicketsTypeCorrect, UpdateRuns, UpdateTypeCorrect,
     PTL
<1>2. Spec => [](/\ InventoryTypeOK /\ RetestTypeOK /\ ImportTypeOK /\ DeepscanTypeOK
                 /\ CodeScanTypeOK /\ IntelTypeOK)
  BY InventoryRuns, InventoryTypeCorrect, RetestRuns, RetestTypeCorrect, ImportRuns,
     ImportTypeCorrect, DeepscanRuns, DeepscanTypeCorrect, CodeScanRuns,
     CodeScanTypeCorrect, IntelRuns, IntelTypeCorrect, PTL
<1>3. Spec => [](/\ RateTypeOK /\ CrawlTypeOK /\ FuzzTypeOK /\ AuthzTypeOK /\ OastTypeOK
                 /\ WebTypeOK)
  BY RateRuns, RateTypeCorrect, CrawlRuns, CrawlTypeCorrect, FuzzRuns, FuzzTypeCorrect,
     AuthzRuns, AuthzTypeCorrect, OastStays, WebRuns, WebTypeCorrect, PTL
<1>4. Spec => [](/\ PathTypeOK /\ ValidatorsTypeOK /\ BasTypeOK)
  BY PathRuns, PathTypeCorrect, ValidatorsRuns, ValidatorsTypeCorrect, BasRuns,
     BasTypeCorrect, PTL
<1> QED
  BY <1>1, <1>2, <1>3, <1>4, PTL DEF TypeOK

\* What the service, its records, its probes and its verdicts promise together: the
\* conjunction of what each of their components promises.
PlatformPromises ==
    /\ AdminAfterStart /\ ProjectIsAsEdited /\ OpenOnRecordKeepsItOpen
    /\ LinkOpensWhileShared /\ TicketsAreKept /\ RunningIsCheckedOut
    /\ CuratedSurvives /\ MttrIsHonest /\ FindingsAreCoherent /\ ReportsAddUp
    /\ KindsSeenAreOnRecord /\ CodeIsReported /\ EvidenceCounts
    /\ RateIsKept /\ CrawlCoversReach /\ IndifferentPointIsClean /\ AccusationsAreEarned
    /\ OnlyCalledIsAccused /\ SilenceIsNoWeakness /\ CrawledSiteIsSeenAfresh
    /\ PathsShowTheWorst /\ VerdictFollowsProbes /\ VerdictsAreEarned

\* No promise of one component is lost in the company of the others: the first
\* administrator can log in, edits and closed findings stand, links open, tickets and
\* curated assets stay, reports and traffic are kept, code and exploits are reported, the
\* rate is kept, the crawl covers its reach, and no verdict is passed that was not earned.
THEOREM PlatformKeepsPromises == Spec => []PlatformPromises
<1>1. Spec => [](/\ AdminAfterStart /\ ProjectIsAsEdited /\ OpenOnRecordKeepsItOpen
                 /\ LinkOpensWhileShared /\ TicketsAreKept /\ RunningIsCheckedOut)
  BY AccountsRuns, AdminCanLogIn, ProjectsRuns, EditsStand, ClosedOverNoneOnRecord,
     PortalRuns, LinksOpenInTime, TicketsRuns, TicketsStay, UpdateRuns, UpdatesAreLoaded,
     PTL
<1>2. Spec => [](/\ CuratedSurvives /\ MttrIsHonest /\ FindingsAreCoherent /\ ReportsAddUp
                 /\ KindsSeenAreOnRecord /\ CodeIsReported /\ EvidenceCounts)
  BY InventoryRuns, CuratedStays, RetestRuns, HonestDates, Coherence, ImportRuns,
     ReportsAreKept, DeepscanRuns, KindsAreKept, CodeScanRuns, CodeIsAlwaysReported,
     IntelRuns, EvidenceAlwaysCounts, PTL
<1>3. Spec => [](/\ RateIsKept /\ CrawlCoversReach /\ IndifferentPointIsClean
                 /\ AccusationsAreEarned /\ OnlyCalledIsAccused /\ SilenceIsNoWeakness
                 /\ CrawledSiteIsSeenAfresh)
  BY RateRuns, RateKept, CrawlRuns, CrawlCoversAll, FuzzRuns, ComparingIsFair, AuthzRuns,
     AccusationsEarned, OastStays, WebRuns, SilenceAccusesNobody, AnsweredScanIsFresh, PTL
<1>4. Spec => [](/\ PathsShowTheWorst /\ VerdictFollowsProbes /\ VerdictsAreEarned)
  BY PathRuns, PathsAreWorst, ValidatorsRuns, VerdictsFollow, BasRuns, VerdictsEarned, PTL
<1> QED
  BY <1>1, <1>2, <1>3, <1>4, PTL DEF PlatformPromises

=============================================================================
