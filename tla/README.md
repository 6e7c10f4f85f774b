# SupaScraper in TLA+

SupaScraper runs Bright Data collectors, judges every run against a learned data contract and the
last verified rows, publishes what it trusts, and repairs a broken collector. This directory models
that in TLA+, checks it with TLC and proves part of it with TLAPS. Source paths are relative to
`src/apps/supascraper/src` unless they start with another directory of the repository.

## The system

| Component | State it keeps | Operations | Correct when |
|---|---|---|---|
| Run guard (`presentation/api/server.ts`) | `active`, `errors` | `beginRun`, its `catch` and `finally` | one run per target; every run leaves `active` |
| Run pipeline (`application/process-run`) | the locals of each run | collect, check, classify, consult, publish or withhold, learn, record | publishes only trusted rows; acts on what the store still holds |
| Repair (`application/heal-and-verify`) | the locals of a repair | lock, heal, review, reject or approve, verify, save, release | only confident breaks; one repair per collector; lock never leaks; recovery keeps the data |
| Detection (`domain/detection`) | none | `classifyRun`, `compareToBaseline` | transport is never structure; the diff is exact |
| Contract (`domain/contracts`) | none | `profileContract`, `evaluateContract` | a learned contract accepts its own page |
| Second opinion (`infrastructure/gemini`) | none | `reason`, `mergeReasoning` | narrows, never widens |
| State repository (`infrastructure/persistence/json-file-repository.ts`) | memory, file, locks | save rows, save contract, append event, acquire, release, reload | contracts keep their rows; a restart loses nothing that was written |
| Added targets (`application/add-target`, `target-store.ts`) | targets, pending sites, file | add, resolve, fail, reload | unique ids and URLs; nothing acknowledged is lost; a build ends ready or failed |
| Scheduler (`application/schedule`) | a timer, a busy flag | tick | ticks never overlap and never stop |
| CLI adapter (`infrastructure/bright-data`) | a child process per command | run, create, heal, approve, reject | settles once, within its timeout |
| Activity log (`infrastructure/persistence/activity-log.ts`) | the steps of each target's last run | begin, record | the steps left after a run agree with its event; nothing over looks as if it were under way |
| Pages, health score, export (`presentation/web`, `domain/health`, `presentation/export`) | none | badge, notice, summary; scores; columns and cells | they agree with one another and with the verdict; an export has all of the data |
| Demo site (`apps/target-site`) | scenario, file, request log | set scenario, serve the catalogue and its products | every page is that of the scenario in force; a failed write or a restart changes only which one that is |
| Configuration, heal prompt, logging, scripts | none | text | start-up only, or text |

Everything runs on one Node event loop. Runs of different targets interleave at their awaits; they
share the repository, its locks, and a collector when two targets are configured with the same one.
The HTTP trigger and the scheduler start runs through the same guard. Bright Data and Gemini answer
late, wrongly, or not at all. The state file and the targets file are written synchronously and
atomically (write and rename), but a write may throw after memory has changed, and the process may die between any two
steps.

## Modules

| Module | Models |
|---|---|
| `DataContract` | `data-contract.ts`: profiling, identity choice, evaluation, as pure operators |
| `Detection` | `classify-run.ts`, `compare-baseline.ts`, `mergeReasoning`, the overlap of `heal-and-verify.ts`, as pure operators; extends `DataContract` |
| `CollectionPipeline` | the run guard, `processCollectorRun`, `healAndVerify` and the repository, composed; extends `Detection` |
| `Monitoring` | which sites there are and who collects them when: `addTarget`, the target registry and its file, the scheduler, and the handlers of the server that start runs |
| `BrightDataCommand` | one command of the CLI: the child process and its two timers (`ProcessCliRunner`), the adapter's verdict on its output, `parse-run-output.ts`; extends `Detection`, where a run's result goes |
| `Activity` | the steps a run reports and the log that keeps them; extends `CollectionPipeline`, each report joined to the action that makes it |
| `Dashboard` | what a page says of a site: `buildTargetStatus`, badge, stale notice, summary; extends `Activity` |
| `VerifiedData` | the abstract specification of the verified rows and contracts, which `CollectionPipeline` implements |
| `StateFile` | a save of `JsonFileRepository` call by call, and what a start makes of the file it finds, damaged or of the older version |
| `DemoSite` | the demo site: its scenario, the scenario's file, the control route, the pages |
| `SelfHealing` | the closed loop: `CollectionPipeline` collecting `DemoSite` through scrapers that a repair replaces |
| `Presentation` | health score and export columns, as pure operators; extends `DataContract` |
| `Pages` | two pages scraped row by row, to check the pure operators on every pair of small pages |
| `MCPipeline`, `MCActivity`, `MCSelfHealing`, `MCStateFile`, `MCPages`, `MCMonitoring`, `MCCommand`, `MCCatalogue` | the values of the constants for TLC |
| `Lists` | `list.filter(...)`, as a recursive function |
| `DataContract_proofs`, `CollectionPipeline_proofs`, `Monitoring_proofs`, `BrightDataCommand_proofs`, `StateFile_proofs`, `Pages_proofs`, `Lists_proofs` | theorems and proofs about the module they are named after; `DataContract_proofs` also about the overlap of `Detection` |
| `Compositions_proofs` | theorems and proofs about the two compositions of the pipeline: `SelfHealing`, and `Activity` with `Dashboard` |

How the state machines fit together: `Monitoring` decides that a run of a target begins and
learns that it ended; `CollectionPipeline` is that run; every `collect`, `heal`, `approve`, `reject`
and `verify` in it is one `BrightDataCommand`. Each is checked against all that its neighbour may do:
runs in `Monitoring` end at any time, and commands in `CollectionPipeline` answer anything or throw.
`StateFile` justifies the atomic write and the exact reload `CollectionPipeline` assumes; the targets
file and the scenario's file are written by the same calls. `SelfHealing` restricts
`CollectionPipeline`, action by action, to what the demo site and the hosted scraper would answer, so
that every behaviour of it is a behaviour of the pipeline (`ClosedLoopRunsThePipeline`).

### The pipeline and the code

A run occupies a slot; `work[s]` holds its locals and `work[s].step` names the await it is suspended
at. An action is the code between two awaits.

| Step | Suspended in | Next action |
|---|---|---|
| `collect` | `runCollector` | `CollectReturns`, `CollectThrows` |
| `contract`, `baseline` | `getContract`, `getLastKnownGood` | `ReadBaseline`; `Classify` or `ConsultReasoner` |
| `reason` | Gemini | `OpinionReturns` |
| `publish`, `learn` | `saveLastKnownGood`, `saveContract` | `Learn`, `RecordPublished` |
| `heal`, `reject`, `approve`, `verify`, `recover` | the repair's awaits, the lock held | `HealStopsShort` ... `Recovered`, `RepairThrows` |
| `report` | `release` (or a refused `acquire`) | `RecordRepair` |
| `failed`, `settled` | `catch`, `finally` of `beginRun` | `RunFails`, `Settle` |

`Publish`, `StartRepair`, `RepairInProgress` and `Withhold` are the alternatives of `ActOn`, which
`Classify` and `OpinionReturns` end in. `Persist` is an assignment to the repository's memory
followed by `#write`, which may throw: the run then rejects with memory ahead of the file. `Restart`
is the death of the process and its next start.

A row is a function from field names to values. A value keeps its type, its text, its normalised
text and whether it is empty: what profiling, evaluation, diff and overlap can tell apart. Rows carry
no dates, prompts or messages. `POST /api/run` may begin several targets in one callback; the
pipeline begins them one after the other, `Monitoring` all at once.

Abstractions a reader should know of: the order in which unhinted fields are tried as identity is a
constant (`IdentityRank`), where the code takes the order in which the rows name them; the order in
which a row names its fields depends on the set of them only (`KeyOrder`, any order in the proofs), so
that two rows with the same fields name them in the same order; two field names that differ only in case are not modelled; a verification run's collector and URL always
match, because the adapter copies them from the configuration.

### The monitored sites and the code

`mem` is what `FileTargetRegistry` holds (`#added`, `#pending`), `file` what `#write` last put on
disk, `seeds` the committed targets, `builds` the completions that have not settled, `active` the
server's map, `ticking` the scheduler's `running` flag and `awaited` the runs its `trigger` waits for.

| Action | Code |
|---|---|
| `AddTarget` | `handleAddTarget` and `addTarget` up to its return: validation, id, `hasUrl`, `addPending`; with a failed write the request ends with 500 and nothing is built |
| `BuildSucceeds`, `BuildUnsaved`, `BuildFails`, `CompletionRejects` | the `try` of the completion; its `resolvePending` failing to write and the `catch` succeeding; the `catch`; the `catch` failing to write |
| `RequestRun`, `RunEnds` | `handleRun`, the `finally` of `beginRun` |
| `Tick`, `TickEnds` | the scheduler's `tick` with `triggerRun`, and its `finally` |
| `Crash`, `Start` | death from outside; `startApplication`, which reads the file against the committed targets of that start |

URLs are compared through `PageOf` (trailing slashes and case), judged through `ShapeOf` (scheme,
credentials, kind of host), and name a sequence of `CandidateIds`. Left out: the rules for
descriptions and labels, which refuse a request and change nothing; a targets file that is not JSON,
which is read as empty; the interval between SIGTERM and the exit of the process; the activity log.

### The command and the code

`child` is the child process, `timer` and `killTimer` the two timeouts of `invoke`, `printed`,
`read` and `captured` how much of the reply the child has printed, the data events have delivered and
`append` has kept, and `answer` what the awaiting caller got. `Closes` is the close event followed by
the synchronous part of the awaiting method: `run`, `create`, `heal` or `#resume`. `TakesEffect`,
`Replies`, `Prints` and `Exits` are the environment. `append` decodes each part on its own, so a
character that two parts share becomes replacement characters: `decoded` is the reply as the runner
has it, and `CutsCharacter` may change a row in it to one of its `Misdecoded` rows. The markers a
reply is judged by are ASCII (`MarkersAreAscii`), so no cut changes what kind of line one is in. The exit code is not modelled because the code
ignores it; stderr matters only to messages and to whether a failure looks retryable, which is a
choice; the preview inside a heal's envelope is `CollectionPipeline`'s `Previews`.

### The display and the code

`steps` is the log. `Activity` conjoins to each action of the pipeline the sequence of reports that
stretch of code makes (`Reports`), or none (`ReportsNothing`); texts and times are left out. The
fallible reporter (`safeReporter`) never fails here, as the log it writes to cannot. A page is
rendered from one state: what `buildTargetStatus` awaits are reads of memory that nothing delays.
Of the twelve most recent events a page shows only the last, `latestEvent`, decides what is said of
the site.

### The state file and the code

`Opens`, `Fills` and `Renames` are the calls of `#write`; any of them may throw or be the last thing
the process does. The calls follow one another synchronously, so no other operation comes between them. `Document` and `VersionOne` are the two formats, `Read` is `#read`, with one outcome for
each check it makes. `acknowledged` is a history variable: the state of the last save that returned,
less what was damaged on disk since. Power loss that undoes a completed rename is not modelled.

### The closed loop and the code

`template[c]` is the scraper behind a collector: a markup it reads, or a way to misread every page.
`Scrape` finds the products on the listing and reads each on its own page. A heal proposes a fix,
an approval replaces the scraper, and everything that goes wrong beyond that is a fault: a command
that throws (an approval that throws may have had its effect), a fix that does not fit, a write that
fails, a crash, a change of the scenario. The demo catalogue is ASCII, so its rows come through whole
(see the command above). Two history variables say of what an operator ought to be told:
`unverified` are the collectors changed and not run since, `unrecorded` those of them of which no
failed verification has been written. A restart drops the latter from both, because the process that
knew of them is gone. The scrapers and the fixes are Bright Data's, hence
external; what the runs make of them is the pipeline's own code.

## Runs

Every property of these runs has a mutant of the code, defined next to what it replaces, that
violates it.

| Run | Shows | Bounds |
|---|---|---|
| `PipelineOne` | `HealsOnlyBreaks`, `ReportedDataIsStored`, `SnapshotSatisfiesContract`, `ContractHasEvidence`, `FreshReads`, `ContractIsStable`, `NeverLosesHalf`, the refinement `KeepsVerifiedData`, and of the display `StepsAgreeWithEvent`, `EveryStartIsConcluded`, `PageAgreesWithItself` | one site, every class of result, six opinions, crashes and failing writes |
| `PipelineShared` | `TypeOK`, `OneRunPerTarget`, `LockMatchesRepair`, `RunsEnd`, `RepairsEnd` | two sites on one collector, two results, no opinions, crashes, fairness |
| `SelfHealing` | `SelfHeals`, `UnverifiedChangeIsShown`, `OnlyMisfitsAreChanged` | one site, both markups, both catalogues, a fix that misses a field, four faults, fairness |
| `StateFile` | `AcknowledgedIsReadBack` | two collectors, rows of one and two records, a history of two events, two damages |
| `PagesCompared` | `RegularPageIsAccepted`, `UnchangedPageIsHealthy`, `DiffIsExact`, `OverlapBoundsLoss`, `AcceptedRowsStandAlone`, `HealthAgreesWithVerdict`, `ExportIsComplete` | all pairs of pages of at most 3 rows out of 7; data of three ages or no date, due after one or never |
| `Monitoring` | `TypeOK`, `ListedIdsAreUnique`, `PagesAreDistinct`, `AcknowledgedIsDurable`, `BuildsAreReported`, `EverySiteIsCollected`, `TicksEnd` | 3 ids, 4 URLs that compete for them, 2 sets of committed targets, 2 crashes, failing writes, fairness |
| `BrightDataCommand` | `TypeOK`, `SuccessIsReal`, `WholeRepliesAreJudged`, `StructureNeedsEvidence`, `CommandsSettle` | replies of at most 2 out of 9 kinds of row, one of which a cut character may change, in at most 3 parts of which 2 are kept, fairness |

Bounds. Slots are as many as targets, which `OneRunPerTarget` shows is enough. Three rows are the
fewest for which losing two thirds, keeping one third and repeating an identity across another row
differ. The catalogue of results contains one for each branch of `classifyRun`. `MAX_EVENTS` is 1 so
that eviction happens; `GrowthFactor` and `RowFloor` are 1 and 3 instead of 5 and 50, so that a
contract's upper limit is the size of the catalogue. `MAX_STEPS` is the code's 40, which no run
reaches. Automatic repair is on in every run of TLC, since off it only removes steps; the theorems
hold for both. `NeverLosesHalf` is about publications: after a
failed write a restart goes back to the older file, and that step is excepted. In `Monitoring` two
of the URLs are one page, one is refused, and all want the same root id, so that ids run out; two
crashes let a start find its own earlier file under other committed targets, and go back. In
`BrightDataCommand` the limit lies between the lengths of replies; the nine rows are data, data with
a character that may be cut, a row with vendor fields only, an element that is no row, and an error
of each kind, two of which name both a selector and the network.

Fairness.

- `CollectionPipeline`: every suspended run takes its next step eventually. Each await is an already
  resolved promise of the repository or an external command under a timeout, so the event loop
  resumes it; `CommandsSettle` shows this for the commands of Bright Data, and `gemini-adapter.ts`
  aborts its request. Nothing obliges anyone to start a run. Liveness is checked with crashes, which
  end every run at once, and without failing writes, which make a run throw where it would end
  anyway.
- `SelfHealing`: the same for a suspended run, and the schedule starts a run of every site again and
  again (`EverySiteIsCollected`). Faults are bounded, so they stop; nothing else is assumed of them.
  `SelfHeals` excepts a page that cannot be reached and a contract learned from a poor fix.
- `Monitoring`: a build ends (the adapter's timeout), a run ends (`RunsEnd`), the interval timer
  fires, a tick whose runs are done returns, and someone restarts a dead process. Nobody has to add
  a site or ask for a run, and runs asked for may keep every site busy. The liveness properties allow
  for the death of the process.
- `BrightDataCommand`: armed timers fire, data and close events arrive, and a child sent SIGKILL
  exits. The child itself owes nothing: it may hang, print nothing and ignore SIGTERM.

### Where the code and its documentation disagree

| Run | Shows |
|---|---|
| `PagesIrregular` | A first run with a field of two types, or with identities that differ only in case, is rejected by the contract learned from it (`data-contract.ts:146`). |
| `RepairWithoutContract` | A site whose first run is repaired publishes rows and learns nothing (`README.md:11`). |
| `RefusedRepairPublished` | A fix is approved before it is verified and stays when verification refuses it; the next ordinary run publishes the very rows that were refused (`README.md:7`). |
| `BuildLost` | After a restart a site is shown as building for ever although nothing builds it (`README.md:106`). |
| `CompletionRejects` | A write that fails while a failed build is recorded rejects a promise that is said never to reject, and ends the process (`add-target.ts:43`). |

Observed without a run of their own:

- Two targets configured with one collector share its contract and rows, and the later of two first
  runs overwrites the contract the other learned (`config/targets.ts:102`); `README.md:23` says the
  contract is per target. `ContractIsStable` is proved for distinct collectors.
- The run that verifies a repair is not classified, so rows it returns beside extraction errors are
  published (`heal-and-verify.ts:297`); `README.md:333` says every run is classified first.
- The comment at `data-contract.ts:187` expects the baseline comparison to catch a jump in the number
  of rows, which `classifyRun` does not test for.
- Without an identity, one recovered row retains every baseline row equal to it
  (`heal-and-verify.ts:79`), which is why `OverlapBoundsLoss` asks for one.
- `mergeReasoning` keeps the deterministic class always, although its comment says an opinion may make
  an ambiguous verdict more specific.
- After a recovery the summary still describes the break, because it goes by the classification of the
  run that was repaired (`components.ts:591`), and the health score is that of the run before the
  repair (`server.ts:203`). `PageAgreesWithItself` excepts the former.
- After a run that threw, badge and stale notice are still those of the event before it; only the
  summary speaks of the error.
- Each part of a command's output is decoded on its own (`cli-adapter.ts:92`), so a character that two
  data events share becomes replacement characters, and the altered value is judged, and published as
  a change. `WholeRepliesAreJudged` therefore promises the text of the rows only for a reply that comes
  in one part.
- Between `approve` and the writing of the event of a failed verification (`heal-and-verify.ts:257` to
  `process-run.ts:281`) a crash leaves a changed, unverified collector of which nothing tells, and so
  does a failed write of that event followed by a restart. `UnverifiedChangeIsShown` excepts these.
- Without a schedule, which is the default (`config.ts:127`), or without a readable date, the overall
  health may be full however old the data is (`health-score.ts:94`). `formatScore` rounds, so that 299
  valid rows of 300 are shown as 100% (line 160).
- A download as JSON or JSONL has the rows themselves; `ExportIsComplete` is about the table.
- The comment at `file-scenario-store.ts:17` of the demo site says that a restart intentionally falls
  back to `baseline`. The constructor reads the file (line 26), so a restart serves the scenario saved
  last (`Restart`); only a lost file system gives `baseline` (`Deploy`).
- An empty run has full schema health (`health-score.ts:73`): no field was missing from any row.
- The history is capped over all collectors; a failing site whose events were evicted is shown as
  healthy if it has rows (`server.ts:191`).
- A contract in the file keeps its place when only its required fields are of another shape, and then
  requires nothing (`json-file-repository.ts:80`), where line 50 says a malformed contract is dropped.
  An event is kept if it has a collector id, so one without evidence or metrics makes every page fail
  (line 157), which lines 112-114 say reading prevents. `StateFile` takes the entries as read.
- A state file that cannot be read counts as empty and is overwritten by the next save.

## Theorems

For any number of targets, collectors, slots, ids, URLs, rows, fields, answers and opinions, with
crashes and failing writes, automatic repair on or off:

- `TypeCorrect`, `OneRunPerTargetAlways`, `LockMatchesRepairAlways`, `HealsOnlyBreaksAlways` and
  `ContractHasEvidenceAlways` hold without assumptions beyond the modules' own.
- `FreshReadsAlways`, `ReportedDataIsStoredAlways` and `ContractStaysLearned` assume that no two
  targets share a collector, without which the last fails.
- `PipelineKeepsVerifiedData` assumes distinct collectors too, and nothing of the pages: the pipeline
  implements `VerifiedData` under the mapping `Verified`.
- `NeverLosesHalfAlways` assumes distinct collectors and that no page has two rows with the same data
  (`NoRowTwice`, which holds of the results `PipelineOne` has). Without the latter, a recovered row of a
  site without an identity may stand for many equal ones. The pages need not be regular.
- `ClosedLoopRunsThePipeline` carries every theorem of the pipeline over to `SelfHealing`, for any
  catalogue, fixes and number of faults; `ClosedLoopIsSafe` states two of them.
  `UnverifiedChangeIsShownAlways` assumes distinct collectors, and excepts a process that dies before
  it has written the event of the failed verification.
- `EveryStartIsConcludedAlways` holds without assumptions, for a log of any length;
  `StepsAgreeWithEventAlways` and `PageAgreesWithItselfAlways` assume distinct collectors, since
  the event on record may otherwise be that of the other target. The history may have any length,
  where TLC has one event.
- `SnapshotSatisfiesContractAlways` assumes distinct collectors and regular pages; `PagesIrregular`
  shows the latter is needed. It rests on `LearnedContractAcceptsItsRun` in `DataContract_proofs`.
- `MonitoringTypeCorrect`, `ListedIdsAreUniqueAlways`, `PagesAreDistinctAlways` and
  `AcknowledgedIsDurableAlways` hold for any spelling rule (`PageOf`), any candidate ids and any
  committed targets that parse.
- `SuccessIsRealAlways`, `StructureNeedsEvidenceAlways`, `WholeRepliesAreJudgedAlways` and the
  command's `TypeCorrect` hold for any replies, limits and ways to cut a character that leave the
  ASCII markers alone (`MarkersAreAscii`).
- `AcknowledgedIsReadBackAlways` holds for any collectors, records, rules and length of the history,
  any number of crashes and damages, and a file of either version at the first start. It assumes
  what `MarkersAssumption` says: that a value of the wrong shape is none of the right shape.
- The theorems of `Pages_proofs` are the properties of `Pages` for pages of any length over any
  finite set of fields and any values; values of the same text have the same normalised text
  (`ValuesAssumption`), as one is computed from the other. `HealthAgreesWithVerdictAlways` is for data
  of any age or none, due after any time or never. They hold of every pair of pages, so
  the state machine contributes only that pages are lists of rows (`PagesAreRows`).

The pipeline's argument. `TypeOK` is not inductive alone, because `Learn` profiles rows that are
rows only if the run was valid: `PublishesValidRuns` adds that. `StepEffect` says what a step does to
its slot, the locks and the active set, and gives the guard and the locks. `StepKeeps` says that a
run entering a repair keeps what it was judged on, and with `MergeNeverWidens` and
`OnlyBreaksAreHealed` gives `HealsOnlyBreaks`. `StepEffects` says what a step writes and what its run
has read. `FreshReads` follows because another run in flight works on another collector
(`OneRunPerCollector`). `Evidence` and `Contracted` strengthen the two properties of the store with
what a run between publishing and learning has stored. `ContractStaysLearned` needs in addition
that memory holds every contract the file holds (`FileFollows`). The refinement follows step by
step: `StepReplaces` says that rows are replaced only after a comparison with the rows the run has
read, which `FreshReads` says are those of the store, and `PublishedIsStored` that a run learns from
the rows the store holds. `Reported` strengthens `ReportedDataIsStored` with what a repair has stored
before its lock is released.

`NeverLosesHalf` is argued on `VerifiedData`'s steps (`VerifiedAdvances`, `AdvanceOfCollector`). An
ordinary run is counted row for row (`OnlyCloseRunsArePublished`), a repair by the baseline rows it
retains; these are as many as the recovered rows they match only if the baseline rows are told apart
(`RetainedAreAtMost`). That is the invariant `RowsAreNamed`, in memory and in the file: new rows
satisfy the contract in force, which requires its identity of each and lets none repeat
(`AcceptedRowsAreNamed`), and a contract learned later has an identity its own rows have
(`LearnedContractNames`) or none.

The registry's argument. An acknowledged site survives a restart only if the file can be read, and
one target the reader refuses makes it drop all: `SitesArePublic` says that what is stored was
submitted as a public page, and `PublicIsValid` that such a page can be read back. A build that ends
finds its own entry under an id nothing else holds (`BuildsArePending`), so promoting it takes no
other site away and adds no page (`DistinctResolved`, `KeptByResolving`); no build outlives the
process (`DeadIsIdle`), so that a start, which may give the id to a committed target, meets none.

The command's argument. A reply claims nothing that has not been done (`Honest`). A closed child has no
timer armed and no output unread (`Quiet`), so that neither a late timeout nor late output changes
what an answer was judged from; hence the answer is one of `RunAnswers`, or that of a command which
could not be started, until the next command is invoked (`Judged`). What has been decoded stays a
misdecoding of the reply, row by row (`Decodes`), and the rows that carry no marker are as many as
before (`RowsComeThrough`, `WholeRowsAreJudged`).

The display's argument. `EveryStartIsConcluded` needs to know, of a run at each of its awaits, which
stages its log has open (`Account`, and `Accounted` for all runs): the one it is suspended in and no
other, since each stretch of code closes what the one before has opened, whatever way it leaves. What
a run appends cannot be undone by the cap on the log, which drops the oldest entries, and so a start
always before its end (`OpenOfRecent` and the lemmas around it). `Agrees` relates the log to the event
from the moment a run has settled until the next begins (`Agreed`): `SettlesWith` lists the ways to
settle, and `Undisturbed` says that the runs of other sites only append events of their own or drop
this site's last one when the history is full. For the page, `AllTruthful` says of every event in
memory, in the file and about to be written that its state, classification and verification are ones
a run can have together, and that published data exists as long as the event that says so.

The closed loop's argument. A changed collector is run next by its own verification, which either
clears the change or ends in an event that says it failed, or by a run that throws, which shows as an
error; `BeforeRunning` says how far a run may be while its collector is still unverified. A restart
keeps what the file holds, so `ChangesAreShown`, the invariant with that, adds that a failed
verification, once written, is told by memory and by the file alike (`IsRecorded`): whatever other
sites write, the file only ever becomes what is in memory.

The file's argument. `AcknowledgedIsReadBack` is not inductive, since it says nothing of the temporary
file. `ReadableInv` adds that once it is written it holds what memory holds, that memory holds values
of the right shape only, so that reading the file loses none of it (`Read` of a `Document`), and that
the file is a document, absent or unreadable. A damage replaces one member of a list by something the
reader drops: `WithoutOne` shows, by induction on the list, that filtering then gives the filtered list
without the member at the place it had there, which is what `acknowledged` loses.

The pages' arguments. `AcceptedRowsStandAlone`: a rejected row cannot be what makes an accepted one
a duplicate's first occurrence, because the accepted rows keep their order and an identity once seen
stays seen. `DiffIsExact` and `UnchangedPageIsHealthy` rest on each identity naming one row of a page
that satisfies the contract (`NamedPages`), `OverlapBoundsLoss` on counting those rows, and
`HealthAgreesWithVerdict` on the count of valid rows being that of the rows without violations
(`ValidRowsAreCounted`), and on a sum of shares being as large as their number only if each of them is
full (`SumOfShares`, `PlusCounts`), whichever of them could be measured. `ExportIsComplete` follows the
gathering of the columns row by row (`EveryFieldIsNamedOnce`): a field is added the first time a row
names it and never again, and taking the identity to the front loses none (`OrderedFieldsName`).

Induction. The library's induction rules cannot be used here, since they take a predicate. Induction
over numbers is had from sets instead: a set of naturals that is not empty has a least element
(`LeastElement`, from the well-foundedness of `<`), of which `InductionUpTo` and `ListInduction` in
`Lists_proofs` are instances. They are why `Without` and `fieldsInRecords` are recursive functions, of which
something can be proved, where `SelectSeq` and the folds cannot be opened. `tlapm` reads `UNION S \ T`
and `SUBSET S \cup T` the other way round from TLC; such expressions carry parentheses, so that what
is proved is what is checked.

Only model-checked: liveness, which the prover does not support, and `OnlyMisfitsAreChanged`, which is
false for some constants: a contract learned from a poor fix may refuse what the site serves. Every
other property a passing run checks is stated by a theorem.

## Plan

1. Proof that a save of `StateFile` implements the pipeline's atomic write.
2. A command of `BrightDataCommand` shown to implement one await of `CollectionPipeline`.
3. The two stages of a build in `Activity`, composed with `Monitoring`.

Further properties of modelled parts join the runs above, so that the number of runs stays small.

## Not modelled

HTML, styles and scripts of the pages, the heal prompt's text, logging and the layout script read
state and decide nothing. The quoting of the export formats, the parsing of Gemini's answer and of
the environment are text handling, of which only the outcome is modelled. The check of the API token
guards requests one by one and changes no state. The in-memory repository serves tests. The table of
allowed transitions (`state-machine.ts`) is consulted only by `healAndVerify`, along a fixed path
every step of which it allows; `EventState` has the states that are recorded.
