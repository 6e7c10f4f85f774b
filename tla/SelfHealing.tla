----------------------------- MODULE SelfHealing -----------------------------
(***************************************************************************)
(* The whole loop: the supervised collection of CollectionPipeline, the    *)
(* demo site of DemoSite it collects, and the scraper each collector       *)
(* consists of at Bright Data, which the repair changes.                   *)
(*                                                                         *)
(* Where CollectionPipeline lets Bright Data answer anything, a collector  *)
(* here answers what its scraper makes of the page the site serves.        *)
(* Everything that may go wrong besides - a command that throws, a fix     *)
(* that does not fit, a write that fails, a crash, a page that changes -   *)
(* is a fault, and there are at most MaxFaults of them.                    *)
(***************************************************************************)
EXTENDS CollectionPipeline

CONSTANTS
    BASELINE_CATALOG, CHANGED_CATALOG, ControlConfigured, SavesMayFail, NoFile,
    Drafts,        \* the fixes a heal may propose: markups, and scrapers that misread every page
    MisreadRows,   \* the rows of each of the latter
    NoDraft,
    MaxFaults

VARIABLES
    mode, file,         \* the site (DemoSite)
    template,           \* the scraper of each collector: a markup it reads, or a misreading
    draft,              \* the fix waiting at a collector's approval gate
    unverified,         \* history: collectors changed and not run since
    unrecorded,         \* history: those of them of which no failed verification was written
    refused,            \* history: valid rows a verification refused for what they lost
    faults

Site == INSTANCE DemoSite

external == <<mode, file, template, draft, unverified, unrecorded, refused, faults>>
allVars == <<vars, external>>

ASSUME SiteAssumption ==
    /\ {ControlConfigured, SavesMayFail} \subseteq BOOLEAN
    /\ NoFile \notin Site!SCENARIO_MODES

ASSUME DraftsAssumption ==
    /\ DOMAIN MisreadRows \subseteq Drafts
    /\ NoDraft \notin Drafts
    /\ MaxFaults \in Nat

HealingInit ==
    /\ Init
    /\ Site!Init
    /\ template = [c \in Collectors |-> "original"]
    /\ draft = [c \in Collectors |-> NoDraft]
    /\ unverified = {}
    /\ unrecorded = {}
    /\ refused = {}
    /\ faults = 0
-----------------------------------------------------------------------------
(* The collector at Bright Data. *)

Fault == faults < MaxFaults /\ faults' = faults + 1

\* A fault exactly when unexpected holds.
FaultIf(unexpected) == IF unexpected THEN Fault ELSE UNCHANGED faults

Extracted(kinds, rows) == [status |-> "succeeded", retryable |-> FALSE,
                           extractionErrors |-> kinds, records |-> rows]

\* What a scraper makes of the site as it is now: it finds the products on the listing and reads
\* each on its own page.
Scrape(scraper) ==
    LET page == Site!buildCatalogResponse(mode)
        product(i) == Site!buildProductResponse(mode, page.records[i].sku)
    IN  CASE page.status = 503 -> Extracted({"unreachable_page"}, <<>>)
          [] page.status = 200 /\ scraper \in DOMAIN MisreadRows ->
                Extracted({}, MisreadRows[scraper])
          [] page.status = 200 /\ scraper = page.markup ->
                Extracted({}, [i \in DOMAIN page.records |-> Head(product(i).records)])
          [] OTHER -> Extracted({"selector_timeout"}, <<>>)

Scraped(s) == Scrape(template[CollectorId(s)])

\* A heal that fits the page it is asked to repair.
Repairing(fix) == fix = Site!buildCatalogResponse(mode).markup

\* What the preview of a fix shows.
Preview(fix) == LET run == Scrape(fix) IN IF run.records = <<>> THEN NoPreview ELSE run.records

RunThrew(s) == work'[s].step = "failed"
-----------------------------------------------------------------------------
(* The steps of a run, each with what it does to the collector. *)

StartRun(t) == BeginRun(t) /\ UNCHANGED external

\* From here on it is what the collector has become that is judged.
Runs(c) == unverified' = unverified \ {c} /\ unrecorded' = unrecorded \ {c}

Collects(s) ==
    /\ CollectReturns(s)
    /\ work'[s].run = Scraped(s)
    /\ Runs(CollectorId(s))
    /\ UNCHANGED <<mode, file, template, draft, refused, faults>>

CollectFaults(s) ==
    /\ CollectThrows(s)
    /\ Fault
    /\ UNCHANGED <<mode, file, template, draft, unverified, unrecorded, refused>>

\* The steps that only judge and store, in which a write may throw.
Computes(s) ==
    /\ \/ ReadBaseline(s) \/ Classify(s) \/ Learn(s)
       \/ RecordPublished(s) \/ Recovered(s) \/ RunFails(s) \/ Settle(s)
    /\ FaultIf(RunThrew(s))
    /\ UNCHANGED <<mode, file, template, draft, unverified, unrecorded, refused>>

\* The event of a repair; when its write throws, only the process knows how the repair went.
Records(s) ==
    /\ RecordRepair(s)
    /\ unrecorded' = IF RunThrew(s) THEN unrecorded ELSE unrecorded \ {CollectorId(s)}
    /\ FaultIf(RunThrew(s))
    /\ UNCHANGED <<mode, file, template, draft, unverified, refused>>

ProposesFix(s) ==
    /\ HealReachesGate(s)
    /\ \E fix \in Drafts :
          /\ work'[s].step = "approve" <=>
                Plausible(Preview(fix), ContractFor(work[s].stored))
          /\ draft' = [draft EXCEPT ![CollectorId(s)] = fix]
          /\ FaultIf(~Repairing(fix))
    /\ UNCHANGED <<mode, file, template, unverified, unrecorded, refused>>

\* Without a page to look at there is no fix to be found.
StopsShort(s) ==
    /\ HealStopsShort(s)
    /\ FaultIf(Site!buildCatalogResponse(mode).status = 200)
    /\ UNCHANGED <<mode, file, template, draft, unverified, unrecorded, refused>>

FixRejected(s) ==
    /\ RejectReturns(s)
    /\ draft' = [draft EXCEPT ![CollectorId(s)] = NoDraft]
    /\ UNCHANGED <<mode, file, template, unverified, unrecorded, refused, faults>>

\* The fix waiting at the gate replaces the collector's scraper.
Commits(c) == /\ template' = [template EXCEPT ![c] = draft[c]]
              /\ draft' = [draft EXCEPT ![c] = NoDraft]
              /\ unverified' = unverified \cup {c}
              /\ unrecorded' = unrecorded \cup {c}

FixApproved(s) ==
    /\ ApproveReturns(s)
    /\ Commits(CollectorId(s))
    /\ UNCHANGED <<mode, file, refused, faults>>

\* A command that throws may have had its effect: an approval may have committed the fix.
RepairBreaks(s) ==
    /\ RepairThrows(s)
    /\ \/ work[s].step = "approve" /\ Commits(CollectorId(s))
       \/ UNCHANGED <<template, draft, unverified, unrecorded>>
    /\ Fault
    /\ UNCHANGED <<mode, file, refused>>

Verifies(s) ==
    /\ VerifyPasses(s)
    /\ Recovers(s, Scraped(s))
    /\ mem'.snapshots[CollectorId(s)] = Scraped(s).records
    /\ Runs(CollectorId(s))
    /\ FaultIf(RunThrew(s))
    /\ UNCHANGED <<mode, file, template, draft, refused>>

RefusesFix(s) ==
    LET run == Scraped(s)
        evaluation == evaluateContract(run.records, ContractFor(work[s].stored))
    IN  /\ VerifyFails(s)
        /\ ~Recovers(s, run)
        /\ refused' = IF run.status = "succeeded" /\ evaluation.valid
                      THEN refused \cup {run.records} ELSE refused
        /\ UNCHANGED <<mode, file, template, draft, unverified, unrecorded, faults>>

RunStep(s) ==
    \/ Collects(s) \/ CollectFaults(s) \/ Computes(s) \/ Records(s)
    \/ ProposesFix(s) \/ StopsShort(s) \/ FixRejected(s) \/ FixApproved(s)
    \/ RepairBreaks(s) \/ Verifies(s) \/ RefusesFix(s)
-----------------------------------------------------------------------------
(* The surroundings. *)

\* Of a change whose failed verification was not written, a new process cannot know: the run that
\* made it, and the error it ended with, die with the old one.
ProcessRestarts ==
    /\ Restart
    /\ Fault
    /\ unverified' = unverified \ unrecorded
    /\ unrecorded' = {}
    /\ UNCHANGED <<mode, file, template, draft, refused>>

SiteChanges ==
    /\ Site!Next
    /\ Fault
    /\ UNCHANGED <<vars, template, draft, unverified, unrecorded, refused>>

HealingNext ==
    \/ \E t \in Targets : StartRun(t)
    \/ \E s \in Slots : RunStep(s)
    \/ ProcessRestarts
    \/ SiteChanges

HealingSpec == HealingInit /\ [][HealingNext]_allVars

\* Commands are bounded by timeouts, so no run stays suspended at one await for ever; and the
\* schedule starts a run of every target ever again.
HealingFairSpec ==
    /\ HealingSpec
    /\ \A s \in Slots : []<>(work[s].step = "idle") \/ []<><<work'[s] # work[s]>>_work
    /\ \A t \in Targets : WF_allVars(StartRun(t))
-----------------------------------------------------------------------------
(* Properties. *)

Served == Site!buildCatalogResponse(mode)

\* The contracts that are learned from a whole page of the catalogue.
WholePageContracts ==
    {profileContract(Site!recordsForScenario(scenario)) : scenario \in Site!SCENARIO_MODES}

WellTaught(c) == mem.contracts[c] \in {NoContract} \cup WholePageContracts

\* The product's promise.  However often the site was changed or broken, fixes were poor, commands
\* and writes failed and the process died: once that stops and the page can be reached, the
\* collector reads it again and its rows are the verified ones, with nobody stepping in - unless
\* the contract was learned from a poor fix, which is then what every run is held to.
SelfHeals ==
    \A c \in Collectors :
        <>[](\/ Served.status = 503
             \/ ~WellTaught(c)
             \/ template[c] = Served.markup /\ mem.snapshots[c] = Served.records)

\* A collector that was changed and not run since is never presented as in order: the target shows
\* the failure that came between, or an event that says so until the events of other sites have
\* filled the history.  So it does after a restart too, if that event had been written before; a
\* process that dies with the event still to be written leaves nothing to show.
UnverifiedChangeIsShown ==
    \A t \in Targets :
        CollectorOf[t] \in unverified /\ t \notin active =>
            \/ t \in errors
            \/ LET event == latestEvent(CollectorOf[t])
               IN  IF event = NoEvent THEN HistoryIsFull ELSE event.verification = "failed"

\* The scraper of a collector is only ever changed on a run that no scenario explains: neither the
\* catalogue as it is, nor as it may change, nor a page that could not be reached.
OnlyMisfitsAreChanged ==
    [][\A c \in Collectors :
          template'[c] # template[c] =>
              \E s \in Slots :
                  /\ work[s].step = "approve"
                  /\ CollectorId(s) = c
                  /\ work[s].run # Extracted({"unreachable_page"}, <<>>)
                  /\ \A scenario \in Site!SCENARIO_MODES :
                        work[s].run # Extracted({}, Site!recordsForScenario(scenario))]_allVars

\* Rows that a verification refused, because they satisfy the contract but lose the data known
\* before, are not published.
RefusedRowsStayOut ==
    \A c \in Collectors : mem.snapshots[c] \notin refused
=============================================================================
