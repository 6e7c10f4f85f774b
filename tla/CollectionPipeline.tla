------------------------- MODULE CollectionPipeline -------------------------
(***************************************************************************)
(* The supervised collection of the registered targets: the server's guard *)
(* of one run per target (presentation/api/server.ts), the run pipeline    *)
(* that classifies, publishes, learns and records                          *)
(* (application/process-run), the repair of a broken collector             *)
(* (application/heal-and-verify) and the file-backed store they share      *)
(* (infrastructure/persistence/json-file-repository.ts).                   *)
(*                                                                         *)
(* A run is an asynchronous function.  An action is what runs between two  *)
(* of its awaits, and work[s].step names the await it is suspended at.     *)
(* Any number of runs may be suspended at the same time; each occupies a   *)
(* slot.  Bright Data and Gemini are external: they answer anything, or    *)
(* throw.                                                                  *)
(***************************************************************************)
EXTENDS Detection

CONSTANTS
    Targets, Collectors,
    CollectorOf,          \* the collector id of each target
    Slots,                \* room for runs in flight; never the limit (see OneRunPerTarget)
    NoTarget, NoOwner, NoRun, NoDecision, NoPreview, NoEvent,
    RunResults,           \* what the hosted collector may return
    Previews,             \* what a heal may show at the approval gate
    Opinions,             \* what Gemini may answer
    AutoHealEnabled,      \* SUPASCRAPER_AUTO_HEAL and the repair dependencies
    ReasonerConfigured,   \* a Gemini key is set
    MayCrash,             \* the process may die and be restarted
    WritesMayFail,        \* writing the state file may throw
    MAX_EVENTS            \* 200 in the code: the history kept over all collectors

ASSUME ActorsAssumption ==
    /\ CollectorOf \in [Targets -> Collectors]
    /\ NoTarget \notin Targets
    /\ NoOwner \notin Slots

ASSUME AnswersAssumption ==
    /\ RunResults \subseteq Run
    /\ NoRun \notin Run
    /\ NoDecision \notin Decision
    /\ Previews \subseteq Seq(Row \cup {NonRow})
    /\ NoPreview \notin Seq(Row \cup {NonRow})
    /\ Opinions \subseteq Opinion

ASSUME SwitchesAssumption ==
    /\ {AutoHealEnabled, ReasonerConfigured, MayCrash, WritesMayFail} \subseteq BOOLEAN
    /\ MAX_EVENTS \in Nat \ {0}

VARIABLES
    active,    \* targets with a run in flight
    errors,    \* targets whose last run threw
    work,      \* the suspended runs
    mem, disk, \* the store in memory, and the file it is reloaded from
    locks      \* the run repairing a collector

vars == <<active, errors, work, mem, disk, locks>>

RepairStatus == {"recovered", "manual_review", "already_in_progress"}
VerificationStatus == {"not_started", "passed", "failed"}
EventState ==
    {"healthy", "retry_or_wait", "manual_review", "suspected", "healing", "recovered"}
RepairEvent == [collector : Collectors, classification : Classification, state : EventState,
                verification : VerificationStatus]
ASSUME NoEventAssumption == NoEvent \notin RepairEvent

\* The steps of a run that holds its collector's repair lock.
RepairSteps == {"heal", "reject", "approve", "verify", "recover"}
Steps == {"idle", "collect", "contract", "baseline", "reason", "publish", "learn",
          "report", "failed", "settled"} \cup RepairSteps

\* The locals of a run.  outcome is the result of its repair, "none" without one.
Locals == [step : Steps, target : Targets \cup {NoTarget}, run : RunResults \cup {NoRun},
           stored : Contract \cup {NoContract}, previous : Seq(Row) \cup {NoBaseline},
           decision : Decision \cup {NoDecision}, outcome : RepairStatus \cup {"none"}]

Blank == [step |-> "idle", target |-> NoTarget, run |-> NoRun, stored |-> NoContract,
          previous |-> NoBaseline, decision |-> NoDecision, outcome |-> "none"]

PersistedState == [snapshots : [Collectors -> Seq(Row) \cup {NoBaseline}],
                   contracts : [Collectors -> Contract \cup {NoContract}],
                   events : Seq(RepairEvent)]

Empty == [snapshots |-> [c \in Collectors |-> NoBaseline],
          contracts |-> [c \in Collectors |-> NoContract], events |-> <<>>]

Init == /\ active = {}
        /\ errors = {}
        /\ work = [s \in Slots |-> Blank]
        /\ mem = Empty
        /\ disk = Empty
        /\ locks = [c \in Collectors |-> NoOwner]
-----------------------------------------------------------------------------
(* The run's view of its inputs. *)

CollectorId(s) == CollectorOf[work[s].target]

\* Mutant: every run is judged as a first run.
AlwaysBootstrap(stored) == BOOTSTRAP_CONTRACT

ContractFor(stored) == IF stored = NoContract THEN BOOTSTRAP_CONTRACT ELSE stored

EvaluationOf(s) == evaluateContract(work[s].run.records, ContractFor(work[s].stored))

Deterministic(s) ==
    classifyRun(work[s].run, EvaluationOf(s), work[s].previous, ContractFor(work[s].stored))

Publishable(s, decision) ==
    /\ decision.recommendedAction = "publish"
    /\ EvaluationOf(s).valid
    /\ work[s].run.records # <<>>

AUTO_HEAL_CONFIDENCE_THRESHOLD == 85

MayHeal(decision) ==
    /\ AutoHealEnabled
    /\ decision.classification = "structural_break"
    /\ decision.recommendedAction = "heal"
    /\ decision.confidence >= AUTO_HEAL_CONFIDENCE_THRESHOLD

stateFor(decision, published, outcome) ==
    CASE outcome = "already_in_progress" -> "healing"
      [] outcome \in {"recovered", "manual_review"} -> outcome
      [] outcome = "none" /\ published -> "healthy"
      [] outcome = "none" /\ ~published ->
            CASE decision.recommendedAction = "retry" -> "retry_or_wait"
              [] decision.recommendedAction = "manual_review" -> "manual_review"
              [] OTHER -> "suspected"

VerificationFor(outcome) ==
    CASE outcome = "none" -> "not_started"
      [] outcome = "recovered" -> "passed"
      [] OTHER -> "failed"

\* Mutant: satisfying the contract is enough.
RecoversOnContract(s, verification) ==
    /\ verification.status = "succeeded"
    /\ evaluateContract(verification.records, ContractFor(work[s].stored)).valid

\* A repaired run is accepted on its contract and, given a baseline, on its overlap with it.
Recovers(s, verification) ==
    LET contract == ContractFor(work[s].stored)
        evaluation == evaluateContract(verification.records, contract)
        baseline == work[s].previous
    IN  /\ verification.status = "succeeded"
        /\ evaluation.valid
        /\ baseline \notin {NoBaseline, <<>>} =>
              KeepsHalf(baseline, evaluation.acceptedRecords, contract)

\* ContractPreviewReviewer.review
Plausible(preview, contract) ==
    /\ preview # NoPreview
    /\ evaluateContract(preview, contract).valid
-----------------------------------------------------------------------------
(* The store: a change is made in memory, then written; the write may throw. *)

SetWork(s, locals) == work' = [work EXCEPT ![s] = locals]

Suspend(s, step) == [work[s] EXCEPT !.step = step]

Throw(s) == [Blank EXCEPT !.step = "failed", !.target = work[s].target]

Done(s) == [Blank EXCEPT !.step = "settled", !.target = work[s].target]

\* #write after the assignment to #state; resolved continues the run, Throw rejects it.
Persist(s, state, resolved) ==
    /\ mem' = state
    /\ \/ /\ disk' = state
          /\ SetWork(s, resolved)
       \/ /\ WritesMayFail
          /\ UNCHANGED disk
          /\ SetWork(s, Throw(s))

saveLastKnownGood(c, rows) == [mem EXCEPT !.snapshots[c] = rows]

saveContract(c, contract) == [mem EXCEPT !.contracts[c] = contract]

Newest(events) ==
    SubSeq(events, IF Len(events) > MAX_EVENTS THEN Len(events) - MAX_EVENTS + 1 ELSE 1,
           Len(events))

\* The last thing a run does: append its event.
appendEvent(s, decision, published) ==
    LET event == [collector |-> CollectorId(s),
                  classification |-> decision.classification,
                  state |-> stateFor(decision, published, work[s].outcome),
                  verification |-> VerificationFor(work[s].outcome)]
    IN  Persist(s, [mem EXCEPT !.events = Newest(Append(@, event))], Done(s))

\* The events of a collector, by their places in the history.
listEvents(c) == {i \in DOMAIN mem.events : mem.events[i].collector = c}

\* The one that says how its site is doing: what else a page lists repeats nothing of it.
latestEvent(c) ==
    LET mine == listEvents(c)
    IN  IF mine = {} THEN NoEvent
        ELSE mem.events[CHOOSE i \in mine : \A j \in mine : j <= i]

\* Mutant: the lock is taken from whoever holds it.
SeizeLock(s) == locks' = [locks EXCEPT ![CollectorId(s)] = s]

\* acquire and release are keyed by the collector; only the owner's token releases.
Acquire(s) == /\ locks[CollectorId(s)] = NoOwner
              /\ locks' = [locks EXCEPT ![CollectorId(s)] = s]

Release(s) == locks' = [locks EXCEPT ![CollectorId(s)] = IF @ = s THEN NoOwner ELSE @]
-----------------------------------------------------------------------------
(* Starting a run: POST /api/run and the scheduler. *)

\* Mutant: a target being collected may be collected again.
BeginRunUnguarded(t) ==
    /\ active' = active \cup {t}
    /\ errors' = errors \ {t}
    /\ \E s \in Slots : /\ work[s].step = "idle"
                        /\ SetWork(s, [Blank EXCEPT !.step = "collect", !.target = t])
    /\ UNCHANGED <<mem, disk, locks>>

BeginRun(t) ==
    /\ t \notin active
    /\ active' = active \cup {t}
    /\ errors' = errors \ {t}
    /\ \E s \in Slots : /\ work[s].step = "idle"
                        /\ SetWork(s, [Blank EXCEPT !.step = "collect", !.target = t])
    /\ UNCHANGED <<mem, disk, locks>>

(* Collecting and judging. *)

\* The collector answered; getContract reads the store at once.
CollectReturns(s) ==
    /\ work[s].step = "collect"
    /\ \E run \in RunResults :
          SetWork(s, [Suspend(s, "contract") EXCEPT
                        !.run = run, !.stored = mem.contracts[CollectorId(s)]])
    /\ UNCHANGED <<active, errors, mem, disk, locks>>

\* The runner is not configured, refuses the target's configuration, or throws.
CollectThrows(s) ==
    /\ work[s].step = "collect"
    /\ SetWork(s, Throw(s))
    /\ UNCHANGED <<active, errors, mem, disk, locks>>

ReadBaseline(s) ==
    /\ work[s].step = "contract"
    /\ SetWork(s, [Suspend(s, "baseline") EXCEPT !.previous = mem.snapshots[CollectorId(s)]])
    /\ UNCHANGED <<active, errors, mem, disk, locks>>

\* Mutant: the contract is saved ahead of the rows it is learned from.
PublishContractFirst(s, decision) ==
    /\ Publishable(s, decision)
    /\ Persist(s, saveContract(CollectorId(s), profileContract(EvaluationOf(s).acceptedRecords)),
               [Suspend(s, "publish") EXCEPT !.decision = decision])
    /\ UNCHANGED <<active, errors, locks>>

\* A publishable run replaces the verified rows.
Publish(s, decision) ==
    /\ Publishable(s, decision)
    /\ Persist(s, saveLastKnownGood(CollectorId(s), EvaluationOf(s).acceptedRecords),
               [Suspend(s, "publish") EXCEPT !.decision = decision])
    /\ UNCHANGED <<active, errors, locks>>

\* A confident break enters healing if no other run is repairing the collector.
StartRepair(s, decision) ==
    /\ ~Publishable(s, decision)
    /\ MayHeal(decision)
    /\ Acquire(s)
    /\ SetWork(s, [Suspend(s, "heal") EXCEPT !.decision = decision])
    /\ UNCHANGED <<active, errors, mem, disk>>

RepairInProgress(s, decision) ==
    /\ ~Publishable(s, decision)
    /\ MayHeal(decision)
    /\ locks[CollectorId(s)] # NoOwner
    /\ SetWork(s, [Suspend(s, "report") EXCEPT !.decision = decision,
                                               !.outcome = "already_in_progress"])
    /\ UNCHANGED <<active, errors, mem, disk, locks>>

Withhold(s, decision) ==
    /\ ~Publishable(s, decision)
    /\ ~MayHeal(decision)
    /\ appendEvent(s, decision, FALSE)
    /\ UNCHANGED <<active, errors, locks>>

ActOn(s, decision) ==
    \/ Publish(s, decision)
    \/ StartRepair(s, decision)
    \/ RepairInProgress(s, decision)
    \/ Withhold(s, decision)

Consults(s) == ReasonerConfigured /\ shouldConsultReasoner(Deterministic(s))

Classify(s) ==
    /\ work[s].step = "baseline"
    /\ ~Consults(s)
    /\ \E decision \in {Deterministic(s)} : ActOn(s, decision)

ConsultReasoner(s) ==
    /\ work[s].step = "baseline"
    /\ Consults(s)
    /\ SetWork(s, Suspend(s, "reason"))
    /\ UNCHANGED <<active, errors, mem, disk, locks>>

OpinionReturns(s) ==
    /\ work[s].step = "reason"
    /\ \E llm \in Opinions \cup {NoOpinion} :
          \E decision \in {mergeReasoning(Deterministic(s), llm)} : ActOn(s, decision)

(* Learning and recording. *)

\* Mutant: every published run teaches the contract anew.
LearnAgain(s) ==
    /\ work[s].step = "publish"
    /\ Persist(s, saveContract(CollectorId(s), profileContract(EvaluationOf(s).acceptedRecords)),
               Suspend(s, "learn"))
    /\ UNCHANGED <<active, errors, locks>>

\* Mutant: what is saved is the contract the run was judged by.
LearnTheMinimum(s) ==
    /\ work[s].step = "publish"
    /\ work[s].stored = NoContract
    /\ Persist(s, saveContract(CollectorId(s), ContractFor(work[s].stored)), Suspend(s, "learn"))
    /\ UNCHANGED <<active, errors, locks>>

\* The first published run teaches the contract.
Learn(s) ==
    /\ work[s].step = "publish"
    /\ work[s].stored = NoContract
    /\ Persist(s, saveContract(CollectorId(s), profileContract(EvaluationOf(s).acceptedRecords)),
               Suspend(s, "learn"))
    /\ UNCHANGED <<active, errors, locks>>

RecordPublished(s) ==
    /\ \/ work[s].step = "publish" /\ work[s].stored # NoContract
       \/ work[s].step = "learn"
    /\ appendEvent(s, work[s].decision, TRUE)
    /\ UNCHANGED <<active, errors, locks>>

RecordRepair(s) ==
    /\ work[s].step = "report"
    /\ appendEvent(s, work[s].decision, FALSE)
    /\ UNCHANGED <<active, errors, locks>>
-----------------------------------------------------------------------------
(* Repairing: heal, review, approve, verify.  Every way out releases the lock. *)

\* The repair ends with outcome; its event is appended when release returns.
EndRepair(s, outcome) ==
    /\ Release(s)
    /\ SetWork(s, [Suspend(s, "report") EXCEPT !.outcome = outcome])

HealStopsShort(s) ==
    /\ work[s].step = "heal"
    /\ EndRepair(s, "manual_review")
    /\ UNCHANGED <<active, errors, mem, disk>>

HealReachesGate(s) ==
    /\ work[s].step = "heal"
    /\ \E preview \in Previews \cup {NoPreview} :
          SetWork(s, Suspend(s, IF Plausible(preview, ContractFor(work[s].stored))
                                THEN "approve" ELSE "reject"))
    /\ UNCHANGED <<active, errors, mem, disk, locks>>

RejectReturns(s) ==
    /\ work[s].step = "reject"
    /\ EndRepair(s, "manual_review")
    /\ UNCHANGED <<active, errors, mem, disk>>

ApproveReturns(s) ==
    /\ work[s].step = "approve"
    /\ SetWork(s, Suspend(s, "verify"))
    /\ UNCHANGED <<active, errors, mem, disk, locks>>

VerifyFails(s) ==
    /\ work[s].step = "verify"
    /\ \E run \in RunResults : ~Recovers(s, run)
    /\ EndRepair(s, "manual_review")
    /\ UNCHANGED <<active, errors, mem, disk>>

\* The write may throw inside the try block: the lock is released on the way out.
VerifyPasses(s) ==
    /\ work[s].step = "verify"
    /\ \E run \in RunResults :
          LET evaluation == evaluateContract(run.records, ContractFor(work[s].stored))
          IN  /\ Recovers(s, run)
              /\ Persist(s, saveLastKnownGood(CollectorId(s), evaluation.acceptedRecords),
                         Suspend(s, "recover"))
    /\ \/ work'[s].step = "recover" /\ UNCHANGED locks
       \/ work'[s].step = "failed" /\ Release(s)
    /\ UNCHANGED <<active, errors>>

Recovered(s) ==
    /\ work[s].step = "recover"
    /\ EndRepair(s, "recovered")
    /\ UNCHANGED <<active, errors, mem, disk>>

\* Mutant: a throwing repair leaves the lock behind.
RepairThrowsLocked(s) ==
    /\ work[s].step \in {"heal", "reject", "approve", "verify"}
    /\ SetWork(s, Throw(s))
    /\ UNCHANGED <<active, errors, mem, disk, locks>>

\* heal, reject, approve or the verification run throws.
RepairThrows(s) ==
    /\ work[s].step \in {"heal", "reject", "approve", "verify"}
    /\ Release(s)
    /\ SetWork(s, Throw(s))
    /\ UNCHANGED <<active, errors, mem, disk>>
-----------------------------------------------------------------------------
(* The end of a run, and of the process. *)

\* Mutant: a failed run skips the finally block.
RunFailsForGood(s) ==
    /\ work[s].step = "failed"
    /\ errors' = errors \cup {work[s].target}
    /\ SetWork(s, Blank)
    /\ UNCHANGED <<active, mem, disk, locks>>

\* Mutant: a failed run is only logged.
RunFailsSilently(s) ==
    /\ work[s].step = "failed"
    /\ SetWork(s, Done(s))
    /\ UNCHANGED <<active, errors, mem, disk, locks>>

\* beginRun's catch
RunFails(s) ==
    /\ work[s].step = "failed"
    /\ errors' = errors \cup {work[s].target}
    /\ SetWork(s, Done(s))
    /\ UNCHANGED <<active, mem, disk, locks>>

\* Mutant: the locals of a settled run are not dropped.
SettleKeepingLocals(s) ==
    /\ work[s].step = "settled"
    /\ active' = active \ {work[s].target}
    /\ SetWork(s, Suspend(s, "idle"))
    /\ UNCHANGED <<errors, mem, disk, locks>>

\* beginRun's finally
Settle(s) ==
    /\ work[s].step = "settled"
    /\ active' = active \ {work[s].target}
    /\ SetWork(s, Blank)
    /\ UNCHANGED <<errors, mem, disk, locks>>

\* The process dies and starts again: only the file survives.
Restart ==
    /\ MayCrash
    /\ active' = {}
    /\ errors' = {}
    /\ work' = [s \in Slots |-> Blank]
    /\ mem' = disk
    /\ locks' = [c \in Collectors |-> NoOwner]
    /\ UNCHANGED disk

\* What the event loop does next for a suspended run.
Step(s) ==
    \/ CollectReturns(s) \/ CollectThrows(s)
    \/ ReadBaseline(s) \/ Classify(s) \/ ConsultReasoner(s) \/ OpinionReturns(s)
    \/ Learn(s) \/ RecordPublished(s) \/ RecordRepair(s)
    \/ HealStopsShort(s) \/ HealReachesGate(s) \/ RejectReturns(s) \/ ApproveReturns(s)
    \/ VerifyFails(s) \/ VerifyPasses(s) \/ Recovered(s) \/ RepairThrows(s)
    \/ RunFails(s) \/ Settle(s)

Next == \/ \E t \in Targets : BeginRun(t)
        \/ \E s \in Slots : Step(s)
        \/ Restart

Spec == Init /\ [][Next]_vars

\* Every external command is bounded by a timeout, so a suspended run is always resumed.
\* Nothing obliges anyone to start a run, nor the process to die.
FairSpec == Spec /\ \A s \in Slots : WF_vars(Step(s))
-----------------------------------------------------------------------------
(* Properties. *)

Busy(s) == work[s].step # "idle"

\* From then on an event displaces the oldest one, whichever collector that is of.
HistoryIsFull == Len(mem.events) = MAX_EVENTS

\* The steps of a run that has its collector's answer.
JudgedSteps == Steps \ {"idle", "collect", "failed", "settled"}

\* The steps of a run that has acted on its verdict.
DecidedSteps == {"publish", "learn", "report"} \cup RepairSteps

\* Types of the variables.  A slot is blank when it is idle; a busy one has a target, once the
\* collector has answered the run it judges, and then its verdict.
TypeOK ==
    /\ active \subseteq Targets
    /\ errors \subseteq Targets
    /\ work \in [Slots -> Locals]
    /\ \A s \in Slots :
          /\ IF Busy(s) THEN work[s].target \in Targets ELSE work[s] = Blank
          /\ work[s].step \in JudgedSteps => work[s].run \in RunResults
          /\ work[s].step \in DecidedSteps => work[s].decision \in Decision
    /\ mem \in PersistedState
    /\ disk \in PersistedState
    /\ locks \in [Collectors -> Slots \cup {NoOwner}]

\* The active guard: no target ever has two runs in flight, and a target is shown running
\* exactly while its run is somewhere between beginRun and its finally.
OneRunPerTarget ==
    /\ active = {work[s].target : s \in {x \in Slots : Busy(x)}}
    /\ \A r, s \in Slots :
          Busy(r) /\ Busy(s) /\ work[r].target = work[s].target => r = s

\* Mutual exclusion on the hosted collector, and no leaked lock: the lock of a collector is held
\* by a run exactly while that run is inside healAndVerify, whichever way it leaves it.
LockMatchesRepair ==
    \A c \in Collectors, s \in Slots :
        locks[c] = s <=> work[s].step \in RepairSteps /\ CollectorId(s) = c

\* The steps at which a run still relies on the contract, and on the baseline, it has read.
HoldsContract == {"contract", "baseline", "reason", "publish"} \cup RepairSteps
HoldsBaseline == {"baseline", "reason"} \cup (RepairSteps \ {"recover"})

\* The contract and the baseline a run decides on, read several awaits earlier, are still the
\* store's when it acts on them: no run publishes over rows it has not compared with.
FreshReads ==
    \A s \in Slots :
        /\ work[s].step \in HoldsContract => work[s].stored = mem.contracts[CollectorId(s)]
        /\ work[s].step \in HoldsBaseline => work[s].previous = mem.snapshots[CollectorId(s)]

\* Only a page that loaded and no longer matches its extraction is ever healed: never a failed
\* command, never an error of the network or the page alone, whatever Gemini answers.
HealsOnlyBreaks ==
    \A s \in Slots : work[s].step \in RepairSteps =>
        LET run == work[s].run
        IN  /\ AutoHealEnabled
            /\ run.status = "succeeded"
            /\ \/ "selector_timeout" \in run.extractionErrors
               \/ /\ run.extractionErrors = {}
                  /\ run.records # <<>>
                  /\ ~EvaluationOf(s).valid

\* What a run is about to record is what the store holds: a healthy run's rows, a recovery that
\* satisfies the contract and overlaps the baseline, and after a failed repair the old rows.
ReportedDataIsStored ==
    \A s \in Slots :
        LET snapshot == mem.snapshots[CollectorId(s)]
            contract == ContractFor(work[s].stored)
        IN  /\ work[s].step \in {"publish", "learn"} => snapshot = work[s].run.records
            /\ work[s].step = "report" =>
                  CASE work[s].outcome = "recovered" ->
                          /\ evaluateContract(snapshot, contract).valid
                          /\ work[s].previous \notin {NoBaseline, <<>>} =>
                                KeepsHalf(work[s].previous, snapshot, contract)
                    [] OTHER -> snapshot = work[s].previous

\* A learned contract always comes with verified rows, in memory and on disk, across crashes
\* and failed writes: no site is held to a contract learned from data nobody has.
ContractHasEvidence ==
    \A store \in {mem, disk}, c \in Collectors :
        store.contracts[c] # NoContract => store.snapshots[c] # NoBaseline

\* The verified rows, in memory and on disk, satisfy the contract the site is held to.
SnapshotSatisfiesContract ==
    \A store \in {mem, disk}, c \in Collectors :
        store.contracts[c] # NoContract =>
            evaluateContract(store.snapshots[c], store.contracts[c]).valid

\* A site that has published and is not being collected has been taught a contract.
PublishedSiteHasContract ==
    \A c \in Collectors :
        /\ mem.snapshots[c] # NoBaseline
        /\ \A t \in active : CollectorOf[t] # c
        => mem.contracts[c] # NoContract

\* The contract is learned once: the file never loses or replaces it, and memory only by a
\* restart after the write that should have kept it failed.
ContractIsStable ==
    [][\A c \in Collectors :
          /\ disk.contracts[c] # NoContract => disk'.contracts[c] = disk.contracts[c]
          /\ mem.contracts[c] # NoContract =>
                mem'.contracts[c] \in {mem.contracts[c], disk.contracts[c]}]_vars

\* No single publication, by a run or by a repair, loses more than half of the verified rows.
NeverLosesHalf ==
    [][\/ Restart
       \/ \A c \in Collectors :
             /\ mem.snapshots[c] # NoBaseline
             /\ mem'.snapshots[c] # NoBaseline
             => 2 * Len(mem'.snapshots[c]) >= Len(mem.snapshots[c])]_vars

\* The store as VerifiedData sees it.
Data(store) == [rows |-> store.snapshots, contracts |-> store.contracts]

Satisfies(rows, stored) == evaluateContract(rows, ContractFor(stored)).valid

KeepsEnough(before, after, stored) ==
    \/ 2 * Len(after) >= Len(before)
    \/ KeepsHalf(before, after, ContractFor(stored))

Verified == INSTANCE VerifiedData WITH
    Pages <- {run.records : run \in RunResults},
    NoRows <- NoBaseline,
    LearnedFrom <- profileContract,
    shown <- Data(mem),
    saved <- Data(disk)

\* The runs, repairs, opinions, failed writes and crashes together do to the verified data no
\* more than VerifiedData allows: rows are replaced only by rows of a run that satisfy the contract
\* in force, and a contract is learned once, from the very rows that are shown.
KeepsVerifiedData == Verified!Spec

\* Every run that starts ends, so that its target can be collected again.
RunsEnd == \A t \in Targets : t \in active ~> t \notin active

\* A collector under repair is released, whatever the repair comes to.
RepairsEnd == \A c \in Collectors : locks[c] # NoOwner ~> locks[c] = NoOwner
=============================================================================
