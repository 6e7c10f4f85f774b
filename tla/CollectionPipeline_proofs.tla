---------------------- MODULE CollectionPipeline_proofs ----------------------
(***************************************************************************)
(* What is proved of the collection pipeline for any number of targets,    *)
(* collectors and runs in flight, any page contents, with crashes and      *)
(* failed writes.                                                          *)
(***************************************************************************)
EXTENDS CollectionPipeline, DataContract_proofs, Lists_proofs

(* The verdicts are verdicts. *)

LEMMA DeterministicType ==
    ASSUME NEW run \in Run, NEW evaluation, NEW baseline, NEW contract
    PROVE  classifyRun(run, evaluation, baseline, contract) \in Decision
<1>1. ClassifyFailedRun(run) \in Decision
  BY DEF ClassifyFailedRun, Verdict, Decision, Classification, RecommendedAction
<1>2. ClassifyExtractionErrors(run.extractionErrors) \in Decision
  BY DEF ClassifyExtractionErrors, Verdict, Decision, Classification, RecommendedAction
<1>3. ClassifyAgainstBaseline(evaluation.acceptedRecords, baseline, contract) \in Decision
  BY DEF ClassifyAgainstBaseline, Verdict, Decision, Classification, RecommendedAction
<1>4. QED
  BY <1>1, <1>2, <1>3
  DEF classifyRun, Verdict, Decision, Classification, RecommendedAction

LEMMA MergedType ==
    ASSUME NEW decision \in Decision, NEW llm \in Opinions \cup {NoOpinion}
    PROVE  mergeReasoning(decision, llm) \in Decision
<1>1. CASE llm = NoOpinion
  BY <1>1 DEF mergeReasoning
<1>2. CASE llm \in Opinion
  BY <1>2 DEF mergeReasoning, Opinion, Decision, RecommendedAction
<1>3. QED
  BY <1>1, <1>2, AnswersAssumption

\* Gemini never widens: a merged verdict keeps the class, and heals or publishes only if the
\* deterministic one did.
LEMMA MergeNeverWidens ==
    ASSUME NEW decision \in Decision, NEW llm
    PROVE  LET merged == mergeReasoning(decision, llm)
           IN  /\ merged.classification = decision.classification
               /\ merged.recommendedAction \in {decision.recommendedAction, "manual_review"}
               /\ merged.recommendedAction = "heal" => decision.recommendedAction = "heal"
BY DEF mergeReasoning, Decision

\* What is ever recommended for healing: a loaded page whose extraction no longer matches.
LEMMA OnlyBreaksAreHealed ==
    ASSUME NEW run \in Run, NEW evaluation, NEW baseline, NEW contract,
           classifyRun(run, evaluation, baseline, contract).recommendedAction = "heal"
    PROVE  /\ run.status = "succeeded"
           /\ \/ "selector_timeout" \in run.extractionErrors
              \/ /\ run.extractionErrors = {}
                 /\ run.records # <<>>
                 /\ ~evaluation.valid
<1> DEFINE kinds == run.extractionErrors
<1>1. ClassifyFailedRun(run).recommendedAction # "heal"
  BY DEF ClassifyFailedRun, Verdict
<1>2. ClassifyAgainstBaseline(evaluation.acceptedRecords, baseline, contract).recommendedAction
        # "heal"
  BY DEF ClassifyAgainstBaseline, Verdict
<1>3. "selector_timeout" \notin kinds => ClassifyExtractionErrors(kinds).recommendedAction # "heal"
  BY DEF ClassifyExtractionErrors, Verdict
<1>4. QED
  BY <1>1, <1>2, <1>3 DEF classifyRun, Verdict
-----------------------------------------------------------------------------
(* Types. *)

LEMMA BlankType == Blank \in Locals /\ Blank.step = "idle"
BY DEF Blank, Locals, Steps

LEMMA CollectorIdType ==
    ASSUME TypeOK, NEW s \in Slots, Busy(s)
    PROVE  CollectorId(s) \in Collectors
BY ActorsAssumption DEF TypeOK, CollectorId

\* A step leaves a run with locals of the right type, and never idle.
LEMMA LocalsTypes ==
    ASSUME TypeOK, NEW s \in Slots, Busy(s), NEW step \in Steps \ {"idle"}
    PROVE  /\ work[s] \in Locals
           /\ work[s].target \in Targets
           /\ Suspend(s, step) \in Locals
           /\ Suspend(s, step).step # "idle"
           /\ Suspend(s, step).target \in Targets
           /\ Suspend(s, step).run = work[s].run
           /\ Throw(s) \in Locals /\ Throw(s).step = "failed" /\ Throw(s).target \in Targets
           /\ Done(s) \in Locals /\ Done(s).step = "settled" /\ Done(s).target \in Targets
<1>1. work[s] \in Locals /\ work[s].target \in Targets
  BY DEF TypeOK
<1>2. Suspend(s, step) \in Locals /\ Suspend(s, step).step = step
      /\ Suspend(s, step).target \in Targets /\ Suspend(s, step).run = work[s].run
  BY <1>1 DEF Suspend, Locals
<1>3. /\ Throw(s) \in Locals /\ Throw(s).step = "failed" /\ Throw(s).target \in Targets
      /\ Done(s) \in Locals /\ Done(s).step = "settled" /\ Done(s).target \in Targets
  BY <1>1 DEF Throw, Done, Blank, Locals, Steps
<1>4. QED
  BY <1>1, <1>2, <1>3

\* The part of TypeOK about work, for one slot and for all.
LocalsOK(locals) ==
    /\ locals \in Locals
    /\ IF locals.step # "idle" THEN locals.target \in Targets ELSE locals = Blank
    /\ locals.step \in JudgedSteps => locals.run \in RunResults
    /\ locals.step \in DecidedSteps => locals.decision \in Decision

WorkOK(w) == w \in [Slots -> Locals] /\ \A s \in Slots : LocalsOK(w[s])

LEMMA TypeOfWork == TypeOK => WorkOK(work)
BY DEF TypeOK, WorkOK, LocalsOK, Busy

LEMMA SetWorkType ==
    ASSUME TypeOK, NEW s \in Slots, NEW locals, LocalsOK(locals), SetWork(s, locals)
    PROVE  WorkOK(work')
BY TypeOfWork DEF SetWork, WorkOK, LocalsOK

LEMMA ThrowAndDoneOK ==
    ASSUME TypeOK, NEW s \in Slots, Busy(s)
    PROVE  LocalsOK(Throw(s)) /\ LocalsOK(Done(s))
BY LocalsTypes DEF LocalsOK, JudgedSteps, DecidedSteps, RepairSteps, Steps

\* A judged run suspended at a judged step keeps its answer, and its verdict.
LEMMA SuspendOK ==
    ASSUME TypeOK, NEW s \in Slots, work[s].step \in JudgedSteps, NEW step \in JudgedSteps,
           step \in DecidedSteps => work[s].step \in DecidedSteps
    PROVE  /\ Busy(s)
           /\ work[s].run \in RunResults
           /\ LocalsOK(Suspend(s, step))
           /\ Suspend(s, step).step # "idle"
<1>1. Busy(s)
  BY DEF Busy, JudgedSteps
<1>2. work[s].run \in RunResults
  BY DEF TypeOK
<1>3. step \in Steps \ {"idle"}
  BY DEF JudgedSteps
<1>4. Suspend(s, step).step = step /\ Suspend(s, step).decision = work[s].decision
  BY <1>1 DEF Suspend, TypeOK, Locals
<1>5. step \in DecidedSteps => work[s].decision \in Decision
  BY DEF TypeOK
<1>6. QED
  BY <1>1, <1>2, <1>3, <1>4, <1>5, LocalsTypes DEF LocalsOK

\* It may be suspended at any judged step with a verdict.
LEMMA DecidedOK ==
    ASSUME TypeOK, NEW s \in Slots, work[s].step \in JudgedSteps, NEW step \in JudgedSteps,
           NEW decision \in Decision
    PROVE  LET decided == [Suspend(s, step) EXCEPT !.decision = decision]
           IN  LocalsOK(decided) /\ decided.step # "idle"
<1>1. Busy(s) /\ work[s].run \in RunResults /\ step \in Steps \ {"idle"}
  BY DEF TypeOK, Busy, JudgedSteps
<1>2. /\ Suspend(s, step) \in Locals /\ Suspend(s, step).step = step
      /\ Suspend(s, step).target \in Targets /\ Suspend(s, step).run \in RunResults
  BY <1>1, LocalsTypes DEF Suspend, TypeOK, Locals
<1>3. QED
  BY <1>1, <1>2 DEF LocalsOK, Locals

LEMMA ConcludedOK ==
    ASSUME NEW locals, LocalsOK(locals), locals.step # "idle", NEW outcome \in RepairStatus
    PROVE  LocalsOK([locals EXCEPT !.outcome = outcome])
BY DEF LocalsOK, Locals

\* A write that succeeds or throws keeps the store and the run well typed.
LEMMA PersistType ==
    ASSUME TypeOK, NEW s \in Slots, Busy(s),
           NEW state \in PersistedState, NEW resolved, LocalsOK(resolved),
           Persist(s, state, resolved)
    PROVE  WorkOK(work') /\ mem' \in PersistedState /\ disk' \in PersistedState
<1>1. LocalsOK(Throw(s))
  BY ThrowAndDoneOK
<1>2. QED
  BY <1>1, SetWorkType DEF Persist, TypeOK

LEMMA NewestType ==
    ASSUME NEW events \in Seq(RepairEvent)
    PROVE  Newest(events) \in Seq(RepairEvent)
<1> DEFINE from == IF Len(events) > MAX_EVENTS THEN Len(events) - MAX_EVENTS + 1 ELSE 1
<1>1. from \in 1 .. (Len(events) + 1)
  BY SwitchesAssumption
<1>2. QED
  BY <1>1, SubSeqProperties DEF Newest

LEMMA AppendEventType ==
    ASSUME TypeOK, NEW s \in Slots, Busy(s), NEW decision \in Decision, NEW published,
           appendEvent(s, decision, published)
    PROVE  WorkOK(work') /\ mem' \in PersistedState /\ disk' \in PersistedState
<1> DEFINE event == [collector |-> CollectorId(s),
                     classification |-> decision.classification,
                     state |-> stateFor(decision, published, work[s].outcome),
                     verification |-> VerificationFor(work[s].outcome)]
           state == [mem EXCEPT !.events = Newest(Append(@, event))]
<1>1. work[s].outcome \in RepairStatus \cup {"none"}
  BY DEF TypeOK, Locals
<1>2. stateFor(decision, published, work[s].outcome) \in EventState
  BY <1>1 DEF stateFor, EventState, RepairStatus
<1>3. VerificationFor(work[s].outcome) \in VerificationStatus
  BY <1>1 DEF VerificationFor, VerificationStatus, RepairStatus
<1>4. event \in RepairEvent
  BY <1>2, <1>3, CollectorIdType DEF RepairEvent, Decision
<1>5. mem \in PersistedState /\ mem.events \in Seq(RepairEvent)
  BY DEF TypeOK, PersistedState
<1>6. Append(mem.events, event) \in Seq(RepairEvent)
  BY <1>4, <1>5
<1> HIDE DEF event
<1>7. state \in PersistedState
  BY <1>5, <1>6, NewestType DEF PersistedState
<1>8. Persist(s, state, Done(s))
  BY DEF appendEvent, event
<1> HIDE DEF state
<1>9. QED
  BY <1>7, <1>8, PersistType, ThrowAndDoneOK

LEMMA SaveSnapshotType ==
    ASSUME TypeOK, NEW c \in Collectors, NEW rows \in Seq(Row)
    PROVE  saveLastKnownGood(c, rows) \in PersistedState
BY DEF saveLastKnownGood, TypeOK, PersistedState

LEMMA SaveContractType ==
    ASSUME TypeOK, NEW c \in Collectors, NEW contract \in Contract
    PROVE  saveContract(c, contract) \in PersistedState
BY DEF saveContract, TypeOK, PersistedState

\* An accepted run's rows are rows, so they may be stored.
LEMMA AcceptedType ==
    ASSUME NEW run \in RunResults, NEW contract, evaluateContract(run.records, contract).valid
    PROVE  /\ run.records \in Seq(Row)
           /\ evaluateContract(run.records, contract).acceptedRecords = run.records
<1>1. run.records \in Seq(Row \cup {NonRow})
  BY AnswersAssumption DEF Run
<1>2. QED
  BY <1>1, ValidRunIsKeptWhole

LEMMA ReleaseType ==
    ASSUME TypeOK, NEW s \in Slots, Release(s) \/ Acquire(s)
    PROVE  locks' \in [Collectors -> Slots \cup {NoOwner}]
BY DEF TypeOK, Release, Acquire

\* Acting on a verdict keeps the types, for any verdict.
LEMMA ActOnType ==
    ASSUME TypeOK, NEW s \in Slots, work[s].step \in {"baseline", "reason"},
           NEW decision \in Decision, ActOn(s, decision)
    PROVE  TypeOK'
<1>1. work[s].step \in JudgedSteps
  BY DEF JudgedSteps, Steps
<1>2. /\ Busy(s) /\ work[s].run \in RunResults
      /\ \A step \in {"publish", "heal", "report"} :
            LET decided == [Suspend(s, step) EXCEPT !.decision = decision]
            IN  LocalsOK(decided) /\ decided.step # "idle"
  <2>1. {"publish", "heal", "report"} \subseteq JudgedSteps
    BY DEF JudgedSteps, Steps, RepairSteps
  <2>2. Busy(s) /\ work[s].run \in RunResults
    BY <1>1 DEF TypeOK, Busy, JudgedSteps
  <2>3. QED
    BY <1>1, <2>1, <2>2, DecidedOK
<1>3. CollectorId(s) \in Collectors
  BY <1>2, CollectorIdType
<1>4. CASE Publish(s, decision)
  <2>1. EvaluationOf(s).valid
    BY <1>4 DEF Publish, Publishable
  <2>2. EvaluationOf(s).acceptedRecords \in Seq(Row)
    BY <1>2, <2>1, AcceptedType DEF EvaluationOf
  <2> DEFINE resolved == [Suspend(s, "publish") EXCEPT !.decision = decision]
             state == saveLastKnownGood(CollectorId(s), EvaluationOf(s).acceptedRecords)
  <2>3. LocalsOK(resolved)
    BY <1>2
  <2>4. state \in PersistedState
    BY <1>3, <2>2, SaveSnapshotType
  <2>5. Persist(s, state, resolved)
    BY <1>4 DEF Publish
  <2> HIDE DEF resolved, state
  <2>6. WorkOK(work') /\ mem' \in PersistedState /\ disk' \in PersistedState
    BY <1>2, <2>3, <2>4, <2>5, PersistType
  <2>7. QED
    BY <1>4, <2>6 DEF Publish, TypeOK, WorkOK, LocalsOK, Busy
<1>5. CASE StartRepair(s, decision)
  <2> DEFINE locals == [Suspend(s, "heal") EXCEPT !.decision = decision]
  <2>1. LocalsOK(locals)
    BY <1>2
  <2>2. WorkOK(work')
    BY <1>5, <2>1, SetWorkType DEF StartRepair
  <2>3. QED
    BY <1>5, <2>2, ReleaseType DEF StartRepair, TypeOK, WorkOK, LocalsOK, Busy
<1>6. CASE RepairInProgress(s, decision)
  <2> DEFINE locals == [Suspend(s, "report") EXCEPT !.decision = decision,
                                                    !.outcome = "already_in_progress"]
  <2> DEFINE decided == [Suspend(s, "report") EXCEPT !.decision = decision]
  <2>1. LocalsOK(decided) /\ decided.step # "idle"
    BY <1>2
  <2> HIDE DEF decided
  <2>2. LocalsOK([decided EXCEPT !.outcome = "already_in_progress"])
    BY <2>1, ConcludedOK DEF RepairStatus
  <2>3. LocalsOK(locals)
    BY <2>2 DEF decided
  <2>4. WorkOK(work')
    BY <1>6, <2>3, SetWorkType DEF RepairInProgress
  <2>5. QED
    BY <1>6, <2>4 DEF RepairInProgress, TypeOK, WorkOK, LocalsOK, Busy
<1>7. CASE Withhold(s, decision)
  <2>1. WorkOK(work') /\ mem' \in PersistedState /\ disk' \in PersistedState
    BY <1>2, <1>7, AppendEventType DEF Withhold
  <2>2. QED
    BY <1>7, <2>1 DEF Withhold, TypeOK, WorkOK, LocalsOK, Busy
<1>8. QED
  BY <1>4, <1>5, <1>6, <1>7 DEF ActOn

LEMMA EndRepairType ==
    ASSUME TypeOK, NEW s \in Slots, work[s].step \in RepairSteps,
           NEW outcome \in RepairStatus, EndRepair(s, outcome)
    PROVE  WorkOK(work') /\ locks' \in [Collectors -> Slots \cup {NoOwner}]
<1>1. /\ work[s].step \in JudgedSteps /\ "report" \in JudgedSteps
      /\ work[s].step \in DecidedSteps
  BY DEF JudgedSteps, DecidedSteps, Steps, RepairSteps
<1>2. LocalsOK(Suspend(s, "report")) /\ Suspend(s, "report").step # "idle"
  BY <1>1, SuspendOK
<1>3. LocalsOK([Suspend(s, "report") EXCEPT !.outcome = outcome])
  BY <1>2, ConcludedOK
<1>4. QED
  BY <1>3, SetWorkType, ReleaseType DEF EndRepair

LEMMA InitType == Init => TypeOK
<1> SUFFICES ASSUME Init PROVE TypeOK
  OBVIOUS
<1>1. Empty \in PersistedState
  BY DEF Empty, PersistedState
<1>2. Blank.step = "idle" /\ Blank.step \notin JudgedSteps \cup DecidedSteps
  BY DEF Blank, JudgedSteps, DecidedSteps, RepairSteps
<1>3. QED
  BY <1>1, <1>2, BlankType DEF Init, TypeOK, Busy

\* What Learn profiles was accepted: the strengthening TypeOK needs to be inductive.
PublishesValidRuns ==
    \A s \in Slots : work[s].step = "publish" => EvaluationOf(s).valid

LEMMA NextType == TypeOK /\ PublishesValidRuns /\ [Next]_vars => TypeOK'
<1> SUFFICES ASSUME TypeOK, PublishesValidRuns, [Next]_vars PROVE TypeOK'
  OBVIOUS
<1> USE DEF JudgedSteps, DecidedSteps, RepairSteps, Steps
<1>1. ASSUME NEW t \in Targets, BeginRun(t) PROVE TypeOK'
  <2>1. PICK s \in Slots : SetWork(s, [Blank EXCEPT !.step = "collect", !.target = t])
    BY <1>1 DEF BeginRun
  <2>2. LocalsOK([Blank EXCEPT !.step = "collect", !.target = t])
    BY BlankType DEF LocalsOK, Locals, Blank
  <2>3. WorkOK(work')
    BY <2>1, <2>2, SetWorkType
  <2>4. QED
    BY <1>1, <2>3 DEF BeginRun, TypeOK, WorkOK, LocalsOK, Busy
<1>2. ASSUME NEW s \in Slots, CollectReturns(s) PROVE TypeOK'
  <2>1. Busy(s)
    BY <1>2 DEF CollectReturns, Busy
  <2>2. PICK run \in RunResults :
           SetWork(s, [Suspend(s, "contract") EXCEPT
                         !.run = run, !.stored = mem.contracts[CollectorId(s)]])
    BY <1>2 DEF CollectReturns
  <2>3. Suspend(s, "contract") \in Locals /\ Suspend(s, "contract").step = "contract"
        /\ Suspend(s, "contract").target \in Targets
    BY <2>1, LocalsTypes DEF Suspend, Locals
  <2>4. mem.contracts[CollectorId(s)] \in Contract \cup {NoContract}
    BY <2>1, CollectorIdType DEF TypeOK, PersistedState
  <2> DEFINE suspended == Suspend(s, "contract")
             contract == mem.contracts[CollectorId(s)]
  <2> HIDE DEF suspended, contract
  <2>5. LocalsOK([suspended EXCEPT !.run = run, !.stored = contract])
    BY <2>3, <2>4 DEF LocalsOK, Locals, suspended, contract
  <2>6. WorkOK(work')
    BY <2>2, <2>5, SetWorkType DEF suspended, contract
  <2>7. QED
    BY <1>2, <2>6 DEF CollectReturns, TypeOK, WorkOK, LocalsOK, Busy
<1>3. ASSUME NEW s \in Slots, CollectThrows(s) PROVE TypeOK'
  <2>1. Busy(s)
    BY <1>3 DEF CollectThrows, Busy
  <2>2. WorkOK(work')
    BY <1>3, <2>1, ThrowAndDoneOK, SetWorkType DEF CollectThrows
  <2>3. QED
    BY <1>3, <2>2 DEF CollectThrows, TypeOK, WorkOK, LocalsOK, Busy
<1>4. ASSUME NEW s \in Slots, ReadBaseline(s) PROVE TypeOK'
  <2>1. LocalsOK(Suspend(s, "baseline")) /\ Busy(s) /\ Suspend(s, "baseline").step # "idle"
    BY <1>4, SuspendOK DEF ReadBaseline
  <2>2. mem.snapshots[CollectorId(s)] \in Seq(Row) \cup {NoBaseline}
    BY <2>1, CollectorIdType DEF TypeOK, PersistedState
  <2>3. LocalsOK([Suspend(s, "baseline") EXCEPT !.previous = mem.snapshots[CollectorId(s)]])
    BY <2>1, <2>2 DEF LocalsOK, Locals
  <2>4. WorkOK(work')
    BY <1>4, <2>3, SetWorkType DEF ReadBaseline
  <2>5. QED
    BY <1>4, <2>4 DEF ReadBaseline, TypeOK, WorkOK, LocalsOK, Busy
<1>5. ASSUME NEW s \in Slots, work[s].step \in {"baseline", "reason"}
      PROVE  Deterministic(s) \in Decision
  <2>1. work[s].run \in Run
    BY <1>5, AnswersAssumption DEF TypeOK
  <2>2. QED
    BY <2>1, DeterministicType DEF Deterministic
<1>6. ASSUME NEW s \in Slots, Classify(s) PROVE TypeOK'
  BY <1>5, <1>6, ActOnType DEF Classify
<1>7. ASSUME NEW s \in Slots, ConsultReasoner(s) PROVE TypeOK'
  <2>1. WorkOK(work')
    BY <1>7, SuspendOK, SetWorkType DEF ConsultReasoner
  <2>2. QED
    BY <1>7, <2>1 DEF ConsultReasoner, TypeOK, WorkOK, LocalsOK, Busy
<1>8. ASSUME NEW s \in Slots, OpinionReturns(s) PROVE TypeOK'
  <2>1. PICK llm \in Opinions \cup {NoOpinion} : ActOn(s, mergeReasoning(Deterministic(s), llm))
    BY <1>8 DEF OpinionReturns
  <2>2. mergeReasoning(Deterministic(s), llm) \in Decision
    BY <1>5, <1>8, MergedType DEF OpinionReturns
  <2>3. QED
    BY <1>8, <2>1, <2>2, ActOnType DEF OpinionReturns
<1>9. ASSUME NEW s \in Slots, Learn(s) PROVE TypeOK'
  <2>1. Busy(s) /\ LocalsOK(Suspend(s, "learn")) /\ work[s].run \in RunResults
    BY <1>9, SuspendOK DEF Learn
  <2>2. CollectorId(s) \in Collectors
    BY <2>1, CollectorIdType
  <2> DEFINE learned == profileContract(EvaluationOf(s).acceptedRecords)
             state == saveContract(CollectorId(s), learned)
  <2>3. EvaluationOf(s).acceptedRecords \in Seq(Row)
    BY <1>9, <2>1, AcceptedType DEF Learn, EvaluationOf, PublishesValidRuns
  <2>4. learned \in Contract
    BY <2>3, ProfiledContractIsWellFormed
  <2> HIDE DEF learned
  <2>5. state \in PersistedState
    BY <2>2, <2>4, SaveContractType
  <2>6. Persist(s, state, Suspend(s, "learn"))
    BY <1>9 DEF Learn, learned
  <2> HIDE DEF state
  <2>7. WorkOK(work') /\ mem' \in PersistedState /\ disk' \in PersistedState
    BY <2>1, <2>5, <2>6, PersistType
  <2>8. QED
    BY <1>9, <2>7 DEF Learn, TypeOK, WorkOK, LocalsOK, Busy
<1>10. ASSUME NEW s \in Slots, RecordPublished(s) \/ RecordRepair(s) PROVE TypeOK'
  <2>1. Busy(s)
    BY <1>10 DEF RecordPublished, RecordRepair, Busy
  <2>2. work[s].decision \in Decision
    BY <1>10 DEF RecordPublished, RecordRepair, TypeOK
  <2>3. WorkOK(work') /\ mem' \in PersistedState /\ disk' \in PersistedState
    BY <1>10, <2>1, <2>2, AppendEventType DEF RecordPublished, RecordRepair
  <2>4. QED
    BY <1>10, <2>3 DEF RecordPublished, RecordRepair, TypeOK, WorkOK, LocalsOK, Busy
<1>11. ASSUME NEW s \in Slots,
              HealStopsShort(s) \/ RejectReturns(s) \/ VerifyFails(s) \/ Recovered(s)
       PROVE  TypeOK'
  <2>1. /\ work[s].step \in RepairSteps
        /\ \E outcome \in RepairStatus : EndRepair(s, outcome)
        /\ UNCHANGED <<active, errors, mem, disk>>
    BY <1>11 DEF HealStopsShort, RejectReturns, VerifyFails, Recovered, RepairStatus
  <2>2. WorkOK(work') /\ locks' \in [Collectors -> Slots \cup {NoOwner}]
    BY <2>1, EndRepairType
  <2>3. QED
    BY <2>1, <2>2 DEF TypeOK, WorkOK, LocalsOK, Busy
<1>12. ASSUME NEW s \in Slots, HealReachesGate(s) \/ ApproveReturns(s) PROVE TypeOK'
  <2>1. /\ work[s].step \in JudgedSteps /\ work[s].step \in DecidedSteps
        /\ \E step \in {"approve", "reject", "verify"} : SetWork(s, Suspend(s, step))
        /\ UNCHANGED <<active, errors, mem, disk, locks>>
    BY <1>12 DEF HealReachesGate, ApproveReturns
  <2>2. \A step \in {"approve", "reject", "verify"} : LocalsOK(Suspend(s, step))
    BY <2>1, SuspendOK
  <2> HIDE DEF JudgedSteps, DecidedSteps, RepairSteps, Steps
  <2>3. WorkOK(work')
    BY <2>1, <2>2, SetWorkType
  <2>4. QED
    BY <2>1, <2>3 DEF TypeOK, WorkOK, LocalsOK, Busy
<1>13. ASSUME NEW s \in Slots, VerifyPasses(s) PROVE TypeOK'
  <2>1. Busy(s) /\ LocalsOK(Suspend(s, "recover"))
    BY <1>13, SuspendOK DEF VerifyPasses
  <2>2. CollectorId(s) \in Collectors
    BY <2>1, CollectorIdType
  <2> DEFINE evaluation(run) == evaluateContract(run.records, ContractFor(work[s].stored))
             state(run) == saveLastKnownGood(CollectorId(s), evaluation(run).acceptedRecords)
  <2>3. PICK run \in RunResults :
           Recovers(s, run) /\ Persist(s, state(run), Suspend(s, "recover"))
    BY <1>13 DEF VerifyPasses
  <2>4. evaluation(run).acceptedRecords \in Seq(Row)
    BY <2>3, AcceptedType DEF Recovers
  <2>5. state(run) \in PersistedState
    BY <2>2, <2>4, SaveSnapshotType
  <2> HIDE DEF state
  <2>6. WorkOK(work') /\ mem' \in PersistedState /\ disk' \in PersistedState
    BY <2>1, <2>3, <2>5, PersistType
  <2>7. locks' \in [Collectors -> Slots \cup {NoOwner}]
    BY <1>13, ReleaseType DEF VerifyPasses, TypeOK
  <2>8. QED
    BY <1>13, <2>6, <2>7 DEF VerifyPasses, TypeOK, WorkOK, LocalsOK, Busy
<1>14. ASSUME NEW s \in Slots, RepairThrows(s) PROVE TypeOK'
  <2>1. Busy(s)
    BY <1>14 DEF RepairThrows, Busy
  <2>2. WorkOK(work') /\ locks' \in [Collectors -> Slots \cup {NoOwner}]
    BY <1>14, <2>1, ThrowAndDoneOK, SetWorkType, ReleaseType DEF RepairThrows
  <2>3. QED
    BY <1>14, <2>2 DEF RepairThrows, TypeOK, WorkOK, LocalsOK, Busy
<1>15. ASSUME NEW s \in Slots, RunFails(s) PROVE TypeOK'
  <2>1. Busy(s) /\ work[s].target \in Targets
    BY <1>15 DEF RunFails, Busy, TypeOK
  <2>2. WorkOK(work')
    BY <1>15, <2>1, ThrowAndDoneOK, SetWorkType DEF RunFails
  <2>3. QED
    BY <1>15, <2>1, <2>2 DEF RunFails, TypeOK, WorkOK, LocalsOK, Busy
<1>16. LocalsOK(Blank)
  BY BlankType DEF LocalsOK
<1>17. ASSUME NEW s \in Slots, Settle(s) PROVE TypeOK'
  <2>1. WorkOK(work')
    BY <1>16, <1>17, SetWorkType DEF Settle
  <2>2. QED
    BY <1>17, <2>1 DEF Settle, TypeOK, WorkOK, LocalsOK, Busy
<1>18. CASE Restart
  <2>1. WorkOK(work')
    BY <1>16, <1>18 DEF Restart, WorkOK, LocalsOK
  <2>2. QED
    BY <1>18, <2>1 DEF Restart, TypeOK, WorkOK, LocalsOK, Busy
<1>19. CASE UNCHANGED vars
  BY <1>19 DEF vars, TypeOK, Busy
<1>20. QED
  BY <1>1, <1>2, <1>3, <1>4, <1>6, <1>7, <1>8, <1>9, <1>10, <1>11, <1>12, <1>13, <1>14, <1>15,
     <1>17, <1>18, <1>19
  DEF Next, Step
-----------------------------------------------------------------------------
(* The history of events. *)

\* latestEvent of a given history.
LatestOf(events, c) ==
    LET mine == {i \in DOMAIN events : events[i].collector = c}
    IN  IF mine = {} THEN NoEvent
        ELSE events[CHOOSE i \in mine : \A j \in mine : j <= i]

LEMMA LatestIsLast ==
    ASSUME NEW events \in Seq(RepairEvent), NEW c, NEW i \in 1 .. Len(events),
           events[i].collector = c,
           \A j \in 1 .. Len(events) : events[j].collector = c => j <= i
    PROVE  LatestOf(events, c) = events[i]
<1> DEFINE mine == {j \in DOMAIN events : events[j].collector = c}
<1>1. DOMAIN events = 1 .. Len(events)
  OBVIOUS
<1>2. i \in mine /\ \A j \in mine : j <= i
  BY <1>1
<1>3. mine \subseteq Nat
  BY <1>1
<1> HIDE DEF mine
<1>4. \A k \in mine : (\A j \in mine : j <= k) => k = i
  BY <1>2, <1>3
<1>5. (CHOOSE k \in mine : \A j \in mine : j <= k) = i
  BY <1>2, <1>4
<1> QED BY <1>2, <1>5 DEF LatestOf, mine

LEMMA LatestIsNone ==
    ASSUME NEW events \in Seq(RepairEvent), NEW c,
           \A j \in 1 .. Len(events) : events[j].collector # c
    PROVE  LatestOf(events, c) = NoEvent
BY DEF LatestOf

\* A collector has a last event or none.
LEMMA LatestExists ==
    ASSUME NEW events \in Seq(RepairEvent), NEW c
    PROVE  \/ \A j \in 1 .. Len(events) : events[j].collector # c
           \/ \E i \in 1 .. Len(events) :
                 /\ events[i].collector = c
                 /\ \A j \in 1 .. Len(events) : events[j].collector = c => j <= i
<1> DEFINE mine == {j \in 1 .. Len(events) : events[j].collector = c}
<1>1. CASE mine = {}
  BY <1>1
<1>2. CASE mine # {}
  <2>1. Len(events) \in Nat /\ mine \subseteq 1 .. Len(events)
    OBVIOUS
  <2>2. PICK i \in mine : \A j \in mine : j <= i
    BY <1>2, <2>1, GreatestElement
  <2> QED BY <2>2
<1> QED BY <1>1, <1>2

\* Newest drops as many of the oldest events as are over the limit, and fills the history if any.
LEMMA NewestKeeps ==
    ASSUME NEW events \in Seq(RepairEvent)
    PROVE  \E gone \in Nat :
              /\ Newest(events) \in Seq(RepairEvent)
              /\ Len(Newest(events)) = Len(events) - gone
              /\ \A i \in 1 .. Len(events) - gone : Newest(events)[i] = events[i + gone]
              /\ gone = IF Len(events) > MAX_EVENTS THEN Len(events) - MAX_EVENTS ELSE 0
<1> DEFINE gone == IF Len(events) > MAX_EVENTS THEN Len(events) - MAX_EVENTS ELSE 0
<1>1. gone \in Nat /\ Len(events) \in Nat /\ MAX_EVENTS \in Nat \ {0} /\ gone <= Len(events)
  BY SwitchesAssumption
<1>2. Newest(events) = SubSeq(events, gone + 1, Len(events))
  BY <1>1 DEF Newest
<1> HIDE DEF gone
<1>3. gone + 1 \in Int /\ Len(events) \in Int /\ \A i \in gone + 1 .. Len(events) : events[i] \in RepairEvent
  BY <1>1, ElementOfSeq
<1>4. /\ SubSeq(events, gone + 1, Len(events)) \in Seq(RepairEvent)
      /\ Len(SubSeq(events, gone + 1, Len(events))) =
            IF gone + 1 <= Len(events) THEN Len(events) - (gone + 1) + 1 ELSE 0
      /\ \A i \in 1 .. Len(events) - (gone + 1) + 1 :
            SubSeq(events, gone + 1, Len(events))[i] = events[gone + 1 + i - 1]
  BY <1>3, SubSeqProperties
<1>5. Len(Newest(events)) = Len(events) - gone
  BY <1>1, <1>2, <1>4
<1>6. \A i \in 1 .. Len(events) - gone : Newest(events)[i] = events[i + gone]
  <2> TAKE i \in 1 .. Len(events) - gone
  <2>1. i \in 1 .. Len(events) - (gone + 1) + 1 /\ gone + 1 + i - 1 = i + gone
    BY <1>1
  <2> QED BY <1>2, <1>4, <2>1
<1> QED BY <1>1, <1>2, <1>4, <1>5, <1>6 DEF gone

\* A new event is its collector's latest; the latest of another stays, or is displaced by a
\* history that is full.
LEMMA AppendedIsLatest ==
    ASSUME NEW events \in Seq(RepairEvent), NEW e \in RepairEvent
    PROVE  LET new == Newest(Append(events, e))
           IN  /\ LatestOf(new, e.collector) = e
               /\ \A c : c # e.collector =>
                     \/ LatestOf(new, c) = LatestOf(events, c)
                     \/ LatestOf(new, c) = NoEvent /\ Len(new) = MAX_EVENTS
               /\ Len(events) = MAX_EVENTS => Len(new) = MAX_EVENTS
<1> DEFINE longer == Append(events, e)
           new == Newest(longer)
           N == Len(events)
<1>1. /\ longer \in Seq(RepairEvent) /\ N \in Nat /\ Len(longer) = N + 1
      /\ longer[N + 1] = e /\ \A i \in 1 .. N : longer[i] = events[i]
  BY AppendProperties
<1> HIDE DEF longer
<1> HIDE DEF new
<1>2. PICK gone \in Nat :
         /\ new \in Seq(RepairEvent)
         /\ Len(new) = Len(longer) - gone
         /\ \A i \in 1 .. Len(longer) - gone : new[i] = longer[i + gone]
         /\ gone = IF Len(longer) > MAX_EVENTS THEN Len(longer) - MAX_EVENTS ELSE 0
  BY <1>1, NewestKeeps DEF new
<1>3. /\ MAX_EVENTS \in Nat \ {0} /\ gone <= N
      /\ Len(new) = N + 1 - gone
      /\ \A i \in 1 .. N + 1 - gone : new[i] = longer[i + gone]
      /\ gone > 0 => Len(new) = MAX_EVENTS
      /\ N = MAX_EVENTS => Len(new) = MAX_EVENTS
  BY <1>1, <1>2, SwitchesAssumption
<1>4. LatestOf(new, e.collector) = e
  <2>1. N + 1 - gone \in 1 .. Len(new) /\ new[N + 1 - gone] = e
    <3>1. N + 1 - gone \in 1 .. N + 1 - gone /\ (N + 1 - gone) + gone = N + 1
      BY <1>1, <1>3
    <3> QED BY <1>1, <1>3, <3>1
  <2>2. \A j \in 1 .. Len(new) : j <= N + 1 - gone
    BY <1>1, <1>3
  <2> QED BY <1>2, <2>1, <2>2, LatestIsLast
<1>5. ASSUME NEW c, c # e.collector
      PROVE  \/ LatestOf(new, c) = LatestOf(events, c)
             \/ LatestOf(new, c) = NoEvent /\ Len(new) = MAX_EVENTS
  <2>1. CASE \A j \in 1 .. N : events[j].collector # c
    <3>1. LatestOf(events, c) = NoEvent
      BY <2>1, LatestIsNone
    <3>2. ASSUME NEW j \in 1 .. Len(new) PROVE new[j].collector # c
      <4>1. j + gone \in 1 .. N + 1 /\ new[j] = longer[j + gone]
        BY <1>1, <1>3
      <4> QED BY <1>1, <1>5, <2>1, <4>1
    <3>3. LatestOf(new, c) = NoEvent
      BY <1>2, <3>2, LatestIsNone
    <3> QED BY <3>1, <3>3
  <2>2. ASSUME NEW i \in 1 .. N, events[i].collector = c,
               \A j \in 1 .. N : events[j].collector = c => j <= i
        PROVE  \/ LatestOf(new, c) = LatestOf(events, c)
               \/ LatestOf(new, c) = NoEvent /\ Len(new) = MAX_EVENTS
    <3>1. LatestOf(events, c) = events[i]
      BY <2>2, LatestIsLast
    <3>2. ASSUME NEW j \in 1 .. Len(new), new[j].collector = c PROVE j + gone <= i
      <4>1. j + gone \in 1 .. N + 1 /\ new[j] = longer[j + gone]
        BY <1>1, <1>3
      <4>2. j + gone # N + 1
        BY <1>1, <1>5, <3>2, <4>1
      <4>3. j + gone \in 1 .. N /\ events[j + gone].collector = c
        BY <1>1, <3>2, <4>1, <4>2
      <4> QED BY <2>2, <4>3
    <3>3. CASE i > gone
      <4>1. i - gone \in 1 .. Len(new) /\ i - gone \in 1 .. N + 1 - gone /\ (i - gone) + gone = i
        BY <1>1, <1>3, <3>3
      <4>2. new[i - gone] = events[i]
        BY <1>1, <1>3, <4>1
      <4>3. \A j \in 1 .. Len(new) : new[j].collector = c => j <= i - gone
        BY <1>1, <1>3, <3>2
      <4>4. LatestOf(new, c) = new[i - gone]
        BY <1>2, <2>2, <4>1, <4>2, <4>3, LatestIsLast
      <4> QED BY <3>1, <4>2, <4>4
    <3>4. CASE ~(i > gone)
      <4>1. ASSUME NEW j \in 1 .. Len(new), new[j].collector = c PROVE FALSE
        <5>1. j + gone <= i
          BY <3>2, <4>1
        <5>2. i \in Int /\ j \in Int /\ j >= 1
          BY <1>1
        <5> QED BY <3>4, <5>1, <5>2
      <4>2. LatestOf(new, c) = NoEvent
        BY <1>2, <4>1, LatestIsNone
      <4>3. Len(new) = MAX_EVENTS
        BY <1>1, <1>3, <3>4
      <4> QED BY <4>2, <4>3
    <3> QED BY <3>3, <3>4
  <2>3. \/ \A j \in 1 .. N : events[j].collector # c
        \/ \E i \in 1 .. N : /\ events[i].collector = c
                             /\ \A j \in 1 .. N : events[j].collector = c => j <= i
    BY LatestExists
  <2> QED BY <2>1, <2>2, <2>3
<1>6. N = MAX_EVENTS => Len(new) = MAX_EVENTS
  BY <1>1, <1>3
<1> QED BY <1>4, <1>5, <1>6 DEF new, longer

-----------------------------------------------------------------------------
(* What one step of a run does to the shared state. *)

InRepair(s) == work[s].step \in RepairSteps

\* A run that stays in flight keeps its target, and takes or gives up its collector's lock
\* exactly when it enters or leaves its repair.
Continues(s) ==
    /\ work[s].step # "idle"
    /\ work'[s].step # "idle"
    /\ work'[s].target = work[s].target
    /\ active' = active
    /\ \/ InRepair(s)' = InRepair(s) /\ locks' = locks
       \/ ~InRepair(s) /\ InRepair(s)' /\ Acquire(s)
       \/ InRepair(s) /\ ~InRepair(s)' /\ Release(s)

Ends(s) ==
    /\ work[s].step = "settled"
    /\ work'[s] = Blank
    /\ active' = active \ {work[s].target}
    /\ locks' = locks

LEMMA OneSlotMoves ==
    ASSUME TypeOK, NEW s \in Slots, Step(s)
    PROVE  \A x \in Slots \ {s} : work'[x] = work[x]
<1>1. \E locals : SetWork(s, locals)
  BY DEF Step, CollectReturns, CollectThrows, ReadBaseline, Classify, ConsultReasoner,
         OpinionReturns, ActOn, Publish, StartRepair, RepairInProgress, Withhold, Learn,
         RecordPublished, RecordRepair, appendEvent, Persist, HealStopsShort, HealReachesGate,
         RejectReturns, ApproveReturns, VerifyFails, VerifyPasses, Recovered, RepairThrows,
         EndRepair, RunFails, Settle
<1>2. QED
  BY <1>1 DEF SetWork, TypeOK

\* What Persist leaves of the run: its continuation or its rejection.
LEMMA PersistMoves ==
    ASSUME TypeOK, NEW s \in Slots, NEW state, NEW resolved, Persist(s, state, resolved)
    PROVE  work'[s] \in {resolved, Throw(s)} /\ mem' = state
BY DEF Persist, SetWork, TypeOK

LEMMA SteppedLocals ==
    ASSUME TypeOK, NEW s \in Slots, NEW step
    PROVE  /\ Suspend(s, step).step = step
           /\ Suspend(s, step).target = work[s].target
           /\ Suspend(s, step).run = work[s].run
           /\ Suspend(s, step).stored = work[s].stored
           /\ Suspend(s, step).previous = work[s].previous
           /\ Suspend(s, step).outcome = work[s].outcome
           /\ Throw(s).step = "failed" /\ Throw(s).target = work[s].target
           /\ Done(s).step = "settled" /\ Done(s).target = work[s].target
BY DEF TypeOK, Locals, Suspend, Throw, Done, Blank

LEMMA ActOnContinues ==
    ASSUME TypeOK, NEW s \in Slots, work[s].step \in {"baseline", "reason"},
           NEW decision, ActOn(s, decision)
    PROVE  Continues(s)
<1> USE DEF RepairSteps
<1>1. work[s] \in Locals
  BY DEF TypeOK
<1>2. CASE Publish(s, decision)
  <2>1. work'[s] \in {[Suspend(s, "publish") EXCEPT !.decision = decision], Throw(s)}
    BY <1>2, PersistMoves DEF Publish
  <2>2. work'[s].step \in {"publish", "failed"} /\ work'[s].target = work[s].target
    <3>1. CASE work'[s] = Throw(s)
      BY <3>1, SteppedLocals
    <3>2. CASE work'[s] = [Suspend(s, "publish") EXCEPT !.decision = decision]
      BY <1>1, <3>2 DEF Suspend, Locals
    <3>3. QED
      BY <2>1, <3>1, <3>2
  <2>3. QED
    BY <1>2, <2>2 DEF Publish, Continues, InRepair
<1>3. CASE StartRepair(s, decision)
  <2>1. work'[s] = [Suspend(s, "heal") EXCEPT !.decision = decision]
    BY <1>3 DEF StartRepair, SetWork, TypeOK
  <2>2. work'[s].step = "heal" /\ work'[s].target = work[s].target
    BY <1>1, <2>1 DEF Suspend, Locals
  <2>3. QED
    BY <1>3, <2>2 DEF StartRepair, Continues, InRepair
<1>4. CASE RepairInProgress(s, decision)
  <2>1. work'[s] = [Suspend(s, "report") EXCEPT !.decision = decision,
                                                !.outcome = "already_in_progress"]
    BY <1>4 DEF RepairInProgress, SetWork, TypeOK
  <2>2. work'[s].step = "report" /\ work'[s].target = work[s].target
    BY <1>1, <2>1 DEF Suspend, Locals
  <2>3. QED
    BY <1>4, <2>2 DEF RepairInProgress, Continues, InRepair
<1>5. CASE Withhold(s, decision)
  <2>1. work'[s] \in {Done(s), Throw(s)}
    BY <1>5, PersistMoves DEF Withhold, appendEvent
  <2>2. work'[s].step \in {"settled", "failed"} /\ work'[s].target = work[s].target
    BY <2>1, SteppedLocals
  <2>3. QED
    BY <1>5, <2>2 DEF Withhold, Continues, InRepair
<1>6. QED
  BY <1>2, <1>3, <1>4, <1>5 DEF ActOn

LEMMA StepEffect ==
    ASSUME TypeOK, NEW s \in Slots, Step(s)
    PROVE  Continues(s) \/ Ends(s)
<1> USE DEF RepairSteps
<1>1. work \in [Slots -> Locals] /\ work[s] \in Locals
  BY DEF TypeOK
<1>2. CASE CollectReturns(s)
  <2>1. work'[s].step = "contract" /\ work'[s].target = work[s].target
    BY <1>1, <1>2 DEF CollectReturns, SetWork, Suspend, Locals
  <2>2. QED
    BY <1>2, <2>1 DEF CollectReturns, Continues, InRepair
<1>3. CASE CollectThrows(s)
  BY <1>1, <1>3, SteppedLocals DEF CollectThrows, SetWork, Continues, InRepair
<1>4. CASE ReadBaseline(s)
  <2>1. work'[s].step = "baseline" /\ work'[s].target = work[s].target
    BY <1>1, <1>4 DEF ReadBaseline, SetWork, Suspend, Locals
  <2>2. QED
    BY <1>4, <2>1 DEF ReadBaseline, Continues, InRepair
<1>5. CASE Classify(s) \/ OpinionReturns(s)
  BY <1>5, ActOnContinues DEF Classify, OpinionReturns
<1>6. CASE ConsultReasoner(s)
  BY <1>1, <1>6, SteppedLocals DEF ConsultReasoner, SetWork, Continues, InRepair
<1>7. CASE Learn(s)
  <2>1. work'[s] \in {Suspend(s, "learn"), Throw(s)}
    BY <1>7, PersistMoves DEF Learn
  <2>2. work'[s].step \in {"learn", "failed"} /\ work'[s].target = work[s].target
    BY <2>1, SteppedLocals
  <2>3. QED
    BY <1>7, <2>2 DEF Learn, Continues, InRepair
<1>8. CASE RecordPublished(s) \/ RecordRepair(s)
  <2>1. work'[s] \in {Done(s), Throw(s)}
    BY <1>8, PersistMoves DEF RecordPublished, RecordRepair, appendEvent
  <2>2. work'[s].step \in {"settled", "failed"} /\ work'[s].target = work[s].target
    BY <2>1, SteppedLocals
  <2>3. /\ work[s].step \in {"publish", "learn", "report"}
        /\ active' = active /\ locks' = locks
    BY <1>8 DEF RecordPublished, RecordRepair
  <2>4. QED
    BY <2>2, <2>3 DEF Continues, InRepair
<1>9. CASE HealStopsShort(s) \/ RejectReturns(s) \/ VerifyFails(s) \/ Recovered(s)
  <2>1. /\ work[s].step \in RepairSteps
        /\ active' = active
        /\ Release(s)
        /\ \E outcome : work'[s] = [Suspend(s, "report") EXCEPT !.outcome = outcome]
    BY <1>1, <1>9
    DEF HealStopsShort, RejectReturns, VerifyFails, Recovered, EndRepair, SetWork
  <2>2. work'[s].step = "report" /\ work'[s].target = work[s].target
    BY <1>1, <2>1 DEF Suspend, Locals
  <2>3. QED
    BY <2>1, <2>2 DEF Continues, InRepair
<1>10. CASE HealReachesGate(s) \/ ApproveReturns(s)
  <2>1. /\ work[s].step \in RepairSteps
        /\ active' = active /\ locks' = locks
        /\ \E step \in RepairSteps : work'[s] = Suspend(s, step)
    BY <1>1, <1>10 DEF HealReachesGate, ApproveReturns, SetWork
  <2>2. QED
    BY <2>1, SteppedLocals DEF Continues, InRepair
<1>11. CASE VerifyPasses(s)
  <2>1. work'[s] \in {Suspend(s, "recover"), Throw(s)}
    BY <1>11, PersistMoves DEF VerifyPasses
  <2>2. work'[s].step \in {"recover", "failed"} /\ work'[s].target = work[s].target
    BY <2>1, SteppedLocals
  <2>3. QED
    BY <1>11, <2>2 DEF VerifyPasses, Continues, InRepair
<1>12. CASE RepairThrows(s)
  BY <1>1, <1>12, SteppedLocals DEF RepairThrows, SetWork, Continues, InRepair
<1>13. CASE RunFails(s)
  BY <1>1, <1>13, SteppedLocals DEF RunFails, SetWork, Continues, InRepair
<1>14. CASE Settle(s)
  BY <1>1, <1>14 DEF Settle, SetWork, Ends
<1>15. QED
  BY <1>2, <1>3, <1>4, <1>5, <1>6, <1>7, <1>8, <1>9, <1>10, <1>11, <1>12, <1>13, <1>14 DEF Step
-----------------------------------------------------------------------------
(* One run per target, and a lock exactly while repairing. *)

LEMMA OneRunPerTargetIsInductive ==
    TypeOK /\ OneRunPerTarget /\ [Next]_vars => OneRunPerTarget'
<1> SUFFICES ASSUME TypeOK, OneRunPerTarget, [Next]_vars PROVE OneRunPerTarget'
  OBVIOUS
<1> DEFINE Inflight == {work[x].target : x \in {y \in Slots : Busy(y)}}
<1>1. ASSUME NEW t \in Targets, BeginRun(t) PROVE OneRunPerTarget'
  <2>1. PICK s \in Slots : /\ ~Busy(s)
                           /\ SetWork(s, [Blank EXCEPT !.step = "collect", !.target = t])
    BY <1>1 DEF BeginRun, Busy
  <2>2. /\ Busy(s)' /\ work'[s].target = t
        /\ \A x \in Slots \ {s} : work'[x] = work[x]
    BY <2>1 DEF SetWork, TypeOK, Busy, Blank
  <2>3. \A x \in Slots : Busy(x) => work[x].target # t
    BY <1>1 DEF BeginRun, OneRunPerTarget
  <2>4. \A x, y \in Slots :
           Busy(x)' /\ Busy(y)' /\ work'[x].target = work'[y].target => x = y
    BY <2>1, <2>2, <2>3 DEF OneRunPerTarget, Busy
  <2>5. active' = {work'[x].target : x \in {y \in Slots : Busy(y)'}}
    BY <1>1, <2>1, <2>2 DEF OneRunPerTarget, Busy, BeginRun
  <2>6. QED
    BY <2>4, <2>5 DEF OneRunPerTarget
<1>2. ASSUME NEW s \in Slots, Step(s) PROVE OneRunPerTarget'
  <2>1. \A x \in Slots \ {s} : work'[x] = work[x]
    BY <1>2, OneSlotMoves
  <2>2. CASE Continues(s)
    BY <2>1, <2>2 DEF Continues, OneRunPerTarget, Busy
  <2>3. CASE Ends(s)
    <3>1. Busy(s) /\ ~Busy(s)' /\ active' = active \ {work[s].target}
      BY <2>3 DEF Ends, Busy, Blank
    <3>2. QED
      BY <2>1, <3>1 DEF OneRunPerTarget, Busy
  <2>4. QED
    BY <1>2, <2>2, <2>3, StepEffect
<1>3. CASE Restart
  BY <1>3 DEF Restart, OneRunPerTarget, Busy, Blank
<1>4. CASE UNCHANGED vars
  BY <1>4 DEF vars, OneRunPerTarget, Busy
<1>5. QED
  BY <1>1, <1>2, <1>3, <1>4 DEF Next

LEMMA LockMatchesRepairIsInductive ==
    TypeOK /\ LockMatchesRepair /\ [Next]_vars => LockMatchesRepair'
<1> SUFFICES ASSUME TypeOK, LockMatchesRepair, [Next]_vars PROVE LockMatchesRepair'
  OBVIOUS
<1>1. ASSUME NEW t \in Targets, BeginRun(t) PROVE LockMatchesRepair'
  <2>1. PICK s \in Slots : /\ work[s].step = "idle"
                           /\ SetWork(s, [Blank EXCEPT !.step = "collect", !.target = t])
    BY <1>1 DEF BeginRun
  <2>2. /\ work'[s].step = "collect"
        /\ \A x \in Slots \ {s} : work'[x] = work[x]
    BY <2>1 DEF SetWork, TypeOK, Blank
  <2>3. QED
    BY <1>1, <2>1, <2>2 DEF BeginRun, LockMatchesRepair, CollectorId, RepairSteps
<1>2. ASSUME NEW s \in Slots, Step(s) PROVE LockMatchesRepair'
  <2>1. \A x \in Slots \ {s} : work'[x] = work[x]
    BY <1>2, OneSlotMoves
  <2>2. CASE Ends(s)
    BY <2>1, <2>2 DEF Ends, LockMatchesRepair, CollectorId, RepairSteps, Blank
  <2>3. CASE Continues(s)
    <3>1. CollectorId(s)' = CollectorId(s) /\ CollectorId(s) \in Collectors
      BY <2>3, CollectorIdType DEF Continues, CollectorId, Busy
    <3>2. \A x \in Slots \ {s} : CollectorId(x)' = CollectorId(x) /\ InRepair(x)' = InRepair(x)
      BY <2>1 DEF CollectorId, InRepair
    <3>3. \A c \in Collectors, x \in Slots : locks[c] = x <=> InRepair(x) /\ CollectorId(x) = c
      BY DEF LockMatchesRepair, InRepair
    <3>4. NoOwner \notin Slots /\ locks \in [Collectors -> Slots \cup {NoOwner}]
      BY ActorsAssumption DEF TypeOK
    <3> SUFFICES ASSUME NEW c \in Collectors, NEW x \in Slots
                 PROVE  locks'[c] = x <=> InRepair(x)' /\ CollectorId(x)' = c
      BY DEF LockMatchesRepair, InRepair
    <3>5. CASE InRepair(s)' = InRepair(s) /\ locks' = locks
      BY <3>1, <3>2, <3>3, <3>5
    <3>6. CASE ~InRepair(s) /\ InRepair(s)' /\ Acquire(s)
      BY <3>1, <3>2, <3>3, <3>4, <3>6 DEF Acquire
    <3>7. CASE InRepair(s) /\ ~InRepair(s)' /\ Release(s)
      BY <3>1, <3>2, <3>3, <3>4, <3>7 DEF Release
    <3>8. QED
      BY <2>3, <3>5, <3>6, <3>7 DEF Continues
  <2>4. QED
    BY <1>2, <2>2, <2>3, StepEffect
<1>3. CASE Restart
  BY <1>3, ActorsAssumption DEF Restart, LockMatchesRepair, Blank, RepairSteps
<1>4. CASE UNCHANGED vars
  BY <1>4 DEF vars, LockMatchesRepair, CollectorId
<1>5. QED
  BY <1>1, <1>2, <1>3, <1>4 DEF Next
-----------------------------------------------------------------------------
(* What a run is judged on does not change until it has published or been repaired. *)

Kept(s) == work'[s].run = work[s].run /\ work'[s].stored = work[s].stored

\* Healing is entered on a verdict that some opinion, or none, made of the deterministic one.
EntersHealing(s) ==
    /\ work[s].step \in {"baseline", "reason"}
    /\ \E llm : MayHeal(mergeReasoning(Deterministic(s), llm))

LEMMA ActOnKeeps ==
    ASSUME TypeOK, NEW s \in Slots, NEW llm, work[s].step \in {"baseline", "reason"},
           ActOn(s, mergeReasoning(Deterministic(s), llm))
    PROVE  /\ work'[s].step = "publish" => Kept(s) /\ EvaluationOf(s).valid
           /\ work'[s].step \in RepairSteps => Kept(s) /\ EntersHealing(s)
<1> DEFINE decision == mergeReasoning(Deterministic(s), llm)
<1>1. /\ work \in [Slots -> Locals] /\ work[s] \in Locals
      /\ {"publish", "heal", "report"} \subseteq Steps
  BY DEF TypeOK, Steps, RepairSteps
<1>2. CASE Publish(s, decision)
  <2> DEFINE resolved == [Suspend(s, "publish") EXCEPT !.decision = decision]
  <2>1. EvaluationOf(s).valid /\ work'[s] \in {resolved, Throw(s)}
    BY <1>2, PersistMoves DEF Publish, Publishable
  <2>2. resolved.step = "publish" /\ resolved.run = work[s].run /\ resolved.stored = work[s].stored
    BY <1>1 DEF Suspend, Locals
  <2>3. QED
    BY <1>1, <2>1, <2>2, SteppedLocals DEF Kept, RepairSteps
<1>3. CASE StartRepair(s, decision)
  <2>1. work'[s] = [Suspend(s, "heal") EXCEPT !.decision = decision] /\ MayHeal(decision)
    BY <1>1, <1>3 DEF StartRepair, SetWork
  <2>2. work'[s].step = "heal" /\ Kept(s)
    BY <1>1, <2>1 DEF Suspend, Locals, Kept
  <2>3. QED
    BY <2>1, <2>2 DEF EntersHealing
<1>4. CASE RepairInProgress(s, decision)
  <2>1. work'[s].step = "report"
    BY <1>1, <1>4 DEF RepairInProgress, SetWork, Suspend, Locals
  <2>2. QED
    BY <2>1 DEF RepairSteps
<1>5. CASE Withhold(s, decision)
  <2>1. work'[s] \in {Done(s), Throw(s)}
    BY <1>5, PersistMoves DEF Withhold, appendEvent
  <2>2. QED
    BY <1>1, <2>1, SteppedLocals DEF RepairSteps
<1>6. QED
  BY <1>2, <1>3, <1>4, <1>5 DEF ActOn

LEMMA StepKeeps ==
    ASSUME TypeOK, NEW s \in Slots, Step(s)
    PROVE  /\ work'[s].step = "publish" => Kept(s) /\ EvaluationOf(s).valid
           /\ work'[s].step \in RepairSteps =>
                 Kept(s) /\ (work[s].step \in RepairSteps \/ EntersHealing(s))
<1> USE DEF RepairSteps
<1>1. work \in [Slots -> Locals] /\ work[s] \in Locals
  BY DEF TypeOK
<1>2. CASE CollectReturns(s) \/ CollectThrows(s) \/ ReadBaseline(s) \/ ConsultReasoner(s)
  <2>1. CASE CollectReturns(s)
    BY <1>1, <2>1 DEF CollectReturns, SetWork, Suspend, Locals
  <2>2. CASE CollectThrows(s)
    BY <1>1, <2>2, SteppedLocals DEF CollectThrows, SetWork, Steps
  <2>3. CASE ReadBaseline(s)
    BY <1>1, <2>3 DEF ReadBaseline, SetWork, Suspend, Locals
  <2>4. CASE ConsultReasoner(s)
    BY <1>1, <2>4, SteppedLocals DEF ConsultReasoner, SetWork, Steps
  <2>5. QED
    BY <1>2, <2>1, <2>2, <2>3, <2>4
<1>3. CASE Classify(s)
  <2>1. mergeReasoning(Deterministic(s), NoOpinion) = Deterministic(s)
    BY DEF mergeReasoning
  <2>2. work[s].step \in {"baseline", "reason"} /\ ActOn(s, Deterministic(s))
    BY <1>3 DEF Classify
  <2>3. QED
    BY <2>1, <2>2, ActOnKeeps
<1>4. CASE OpinionReturns(s)
  BY <1>4, ActOnKeeps DEF OpinionReturns
<1>5. CASE Learn(s) \/ RecordPublished(s) \/ RecordRepair(s)
  <2>1. work'[s] \in {Suspend(s, "learn"), Done(s), Throw(s)}
    BY <1>5, PersistMoves DEF Learn, RecordPublished, RecordRepair, appendEvent
  <2>2. QED
    BY <2>1, SteppedLocals DEF Steps
<1>6. CASE HealStopsShort(s) \/ RejectReturns(s) \/ VerifyFails(s) \/ Recovered(s)
  <2>1. \E outcome : work'[s] = [Suspend(s, "report") EXCEPT !.outcome = outcome]
    BY <1>1, <1>6
    DEF HealStopsShort, RejectReturns, VerifyFails, Recovered, EndRepair, SetWork
  <2>2. work'[s].step = "report"
    BY <1>1, <2>1 DEF Suspend, Locals
  <2>3. QED
    BY <2>2
<1>7. CASE HealReachesGate(s) \/ ApproveReturns(s)
  <2>1. /\ work[s].step \in RepairSteps
        /\ \E step \in RepairSteps : work'[s] = Suspend(s, step)
    BY <1>1, <1>7 DEF HealReachesGate, ApproveReturns, SetWork
  <2>2. QED
    BY <2>1, SteppedLocals DEF Kept, Steps
<1>8. CASE VerifyPasses(s)
  <2>1. work[s].step \in RepairSteps /\ work'[s] \in {Suspend(s, "recover"), Throw(s)}
    BY <1>8, PersistMoves DEF VerifyPasses
  <2>2. QED
    BY <2>1, SteppedLocals DEF Kept, Steps
<1>9. CASE RepairThrows(s) \/ RunFails(s) \/ Settle(s)
  <2>1. work'[s] \in {Throw(s), Done(s), Blank}
    BY <1>1, <1>9 DEF RepairThrows, RunFails, Settle, SetWork
  <2>2. QED
    BY <2>1, SteppedLocals DEF Blank, Steps
<1>10. QED
  BY <1>2, <1>3, <1>4, <1>5, <1>6, <1>7, <1>8, <1>9 DEF Step

LEMMA StepIsBusy ==
    ASSUME NEW s \in Slots, Step(s) PROVE Busy(s)
BY DEF Step, Busy, RepairSteps, CollectReturns, CollectThrows, ReadBaseline, Classify,
       ConsultReasoner, OpinionReturns, Learn, RecordPublished, RecordRepair, HealStopsShort,
       HealReachesGate, RejectReturns, ApproveReturns, VerifyFails, VerifyPasses, Recovered,
       RepairThrows, RunFails, Settle

\* What a step of the system does to one slot: nothing, a step of its run, or a start or a restart.
LEMMA SlotMoves ==
    ASSUME TypeOK, [Next]_vars, NEW s \in Slots
    PROVE  work'[s] = work[s] \/ Step(s) \/ work'[s].step \in {"collect", "idle"}
<1>1. ASSUME NEW t \in Targets, BeginRun(t)
      PROVE  work'[s] = work[s] \/ work'[s].step = "collect"
  BY <1>1 DEF BeginRun, SetWork, TypeOK, Blank
<1>2. ASSUME NEW x \in Slots, Step(x) PROVE work'[s] = work[s] \/ Step(s)
  BY <1>2, OneSlotMoves
<1>3. CASE Restart
  BY <1>3 DEF Restart, Blank
<1>4. QED
  BY <1>1, <1>2, <1>3 DEF Next, vars

LEMMA PublishesValidRunsIsInductive ==
    TypeOK /\ PublishesValidRuns /\ [Next]_vars => PublishesValidRuns'
<1> SUFFICES ASSUME TypeOK, PublishesValidRuns, [Next]_vars,
                    NEW s \in Slots, work'[s].step = "publish"
             PROVE  EvaluationOf(s)'.valid
  BY DEF PublishesValidRuns
<1>1. CASE work'[s] = work[s]
  BY <1>1 DEF PublishesValidRuns, EvaluationOf
<1>2. CASE Step(s)
  BY <1>2, StepKeeps DEF Kept, EvaluationOf
<1>3. CASE work'[s].step \in {"collect", "idle"}
  BY <1>3
<1>4. QED
  BY <1>1, <1>2, <1>3, SlotMoves

LEMMA HealsOnlyBreaksIsInductive ==
    TypeOK /\ HealsOnlyBreaks /\ [Next]_vars => HealsOnlyBreaks'
<1> SUFFICES ASSUME TypeOK, HealsOnlyBreaks, [Next]_vars PROVE HealsOnlyBreaks'
  OBVIOUS
<1> DEFINE Broken(run, evaluation) ==
             /\ AutoHealEnabled
             /\ run.status = "succeeded"
             /\ \/ "selector_timeout" \in run.extractionErrors
                \/ run.extractionErrors = {} /\ run.records # <<>> /\ ~evaluation.valid
<1> SUFFICES ASSUME NEW s \in Slots, work'[s].step \in RepairSteps
             PROVE  Broken(work'[s].run, EvaluationOf(s)')
  BY DEF HealsOnlyBreaks
<1>1. CASE work'[s] = work[s]
  BY <1>1 DEF HealsOnlyBreaks, EvaluationOf
<1>2. CASE Step(s)
  <2>1. Kept(s) /\ (work[s].step \in RepairSteps \/ EntersHealing(s))
    BY <1>2, StepKeeps
  <2>2. EvaluationOf(s)' = EvaluationOf(s) /\ work'[s].run = work[s].run
    BY <2>1 DEF Kept, EvaluationOf
  <2>3. CASE EntersHealing(s)
    <3>1. PICK llm : MayHeal(mergeReasoning(Deterministic(s), llm))
      BY <2>3 DEF EntersHealing
    <3>2. work[s].run \in Run
      BY <2>3, AnswersAssumption DEF EntersHealing, TypeOK, JudgedSteps, Steps
    <3>3. Deterministic(s) \in Decision
      BY <3>2, DeterministicType DEF Deterministic
    <3>4. Deterministic(s).recommendedAction = "heal" /\ AutoHealEnabled
      BY <3>1, <3>3, MergeNeverWidens DEF MayHeal
    <3>5. QED
      BY <2>2, <3>2, <3>4, OnlyBreaksAreHealed DEF Deterministic
  <2>4. QED
    BY <2>1, <2>2, <2>3 DEF HealsOnlyBreaks
<1>3. CASE work'[s].step \in {"collect", "idle"}
  BY <1>3 DEF RepairSteps
<1>4. QED
  BY <1>1, <1>2, <1>3, SlotMoves
-----------------------------------------------------------------------------
(* What a step writes, and what its run has read. *)

MemEffect(s) ==
    LET c == CollectorId(s)
    IN  \/ /\ mem'.snapshots = mem.snapshots
           /\ mem'.contracts = mem.contracts
           /\ work'[s].step # "publish"
        \/ /\ work[s].step \in HoldsContract
           /\ work'[s].step \in {"publish", "recover", "failed"}
           /\ \E rows \in Seq(Row) :
                 /\ mem' = saveLastKnownGood(c, rows)
                 /\ evaluateContract(rows, ContractFor(work[s].stored)).valid
                 /\ work'[s].step = "publish" => rows = work'[s].run.records
        \/ /\ work[s].step = "publish"
           /\ work[s].stored = NoContract
           /\ work'[s].step \in {"learn", "failed"}
           /\ mem' = saveContract(c, profileContract(EvaluationOf(s).acceptedRecords))

\* The file follows memory, unless the write throws.
DiskEffect == \/ mem' = mem /\ disk' = disk
              \/ disk' = mem'
              \/ WritesMayFail /\ disk' = disk

ReadsEffect(s) ==
    LET c == CollectorId(s)
    IN  /\ work'[s].step \in HoldsContract =>
              \/ work'[s].stored = mem.contracts[c] /\ mem' = mem
              \/ work[s].step \in HoldsContract /\ work'[s].stored = work[s].stored
        /\ work'[s].step \in HoldsBaseline =>
              \/ work'[s].previous = mem.snapshots[c] /\ mem' = mem
              \/ work[s].step \in HoldsBaseline /\ work'[s].previous = work[s].previous

Effects(s) == MemEffect(s) /\ DiskEffect /\ ReadsEffect(s)

\* A step that does not touch the store.
LEMMA QuietEffects ==
    ASSUME TypeOK, NEW s \in Slots, mem' = mem, disk' = disk, work'[s].step # "publish",
           ReadsEffect(s)
    PROVE  Effects(s)
BY DEF Effects, MemEffect, DiskEffect

\* A step whose run then holds nothing it has read.
LEMMA ForgetsReads ==
    ASSUME NEW s \in Slots,
           work'[s].step \in {"learn", "report", "failed", "settled", "idle"}
    PROVE  ReadsEffect(s)
BY DEF ReadsEffect, HoldsContract, HoldsBaseline, RepairSteps

LEMMA AppendEventEffects ==
    ASSUME TypeOK, NEW s \in Slots, NEW decision, NEW published,
           appendEvent(s, decision, published)
    PROVE  Effects(s)
<1>1. PICK events : Persist(s, [mem EXCEPT !.events = events], Done(s))
  BY DEF appendEvent
<1>2. mem'.snapshots = mem.snapshots /\ mem'.contracts = mem.contracts
  BY <1>1 DEF Persist, TypeOK, PersistedState
<1>3. work'[s].step \in {"settled", "failed"}
  BY <1>1, PersistMoves, SteppedLocals DEF Steps
<1>4. DiskEffect
  BY <1>1 DEF Persist, DiskEffect
<1>5. QED
  BY <1>2, <1>3, <1>4, ForgetsReads DEF Effects, MemEffect

LEMMA ActOnEffects ==
    ASSUME TypeOK, NEW s \in Slots, work[s].step \in {"baseline", "reason"},
           NEW decision, ActOn(s, decision)
    PROVE  Effects(s)
<1> USE DEF RepairSteps
<1>1. work \in [Slots -> Locals] /\ work[s] \in Locals
  BY DEF TypeOK
<1>2. CASE Publish(s, decision)
  <2> DEFINE resolved == [Suspend(s, "publish") EXCEPT !.decision = decision]
             rows == EvaluationOf(s).acceptedRecords
  <2>1. /\ work'[s] \in {resolved, Throw(s)}
        /\ mem' = saveLastKnownGood(CollectorId(s), rows)
    BY <1>2, PersistMoves DEF Publish
  <2>2. /\ rows \in Seq(Row) /\ rows = work[s].run.records
        /\ evaluateContract(rows, ContractFor(work[s].stored)).valid
    <3>1. work[s].run \in RunResults
      BY DEF TypeOK, JudgedSteps, Steps
    <3>2. QED
      BY <1>2, <3>1, AcceptedType DEF Publish, Publishable, EvaluationOf
  <2>3. DiskEffect /\ work[s].step \in HoldsContract
    BY <1>2 DEF Publish, Persist, DiskEffect, HoldsContract
  <2> HIDE DEF rows
  <2>4. CASE work'[s] = resolved
    <3>1. /\ work'[s].step = "publish"
          /\ work'[s].stored = work[s].stored /\ work'[s].run = work[s].run
      BY <1>1, <2>4 DEF Suspend, Locals
    <3>2. ReadsEffect(s)
      BY <3>1 DEF ReadsEffect, HoldsContract, HoldsBaseline
    <3>3. QED
      BY <2>1, <2>2, <2>3, <3>1, <3>2 DEF Effects, MemEffect
  <2>5. CASE work'[s] = Throw(s)
    <3>1. work'[s].step = "failed" /\ ReadsEffect(s)
      BY <2>5, SteppedLocals, ForgetsReads
    <3>2. QED
      BY <2>1, <2>2, <2>3, <3>1 DEF Effects, MemEffect
  <2>6. QED
    BY <2>1, <2>4, <2>5
<1>3. CASE StartRepair(s, decision)
  <2>1. work'[s] = [Suspend(s, "heal") EXCEPT !.decision = decision] /\ mem' = mem /\ disk' = disk
    BY <1>1, <1>3 DEF StartRepair, SetWork
  <2>2. /\ work'[s].step = "heal"
        /\ work'[s].stored = work[s].stored /\ work'[s].previous = work[s].previous
    BY <1>1, <2>1 DEF Suspend, Locals
  <2>3. ReadsEffect(s)
    BY <2>2 DEF ReadsEffect, HoldsContract, HoldsBaseline
  <2>4. QED
    BY <2>1, <2>2, <2>3, QuietEffects
<1>4. CASE RepairInProgress(s, decision)
  <2>1. work'[s].step = "report" /\ mem' = mem /\ disk' = disk
    BY <1>1, <1>4 DEF RepairInProgress, SetWork, Suspend, Locals
  <2>2. QED
    BY <2>1, ForgetsReads, QuietEffects
<1>5. CASE Withhold(s, decision)
  BY <1>5, AppendEventEffects DEF Withhold
<1>6. QED
  BY <1>2, <1>3, <1>4, <1>5 DEF ActOn

LEMMA StepEffects ==
    ASSUME TypeOK, NEW s \in Slots, Step(s)
    PROVE  Effects(s)
<1> USE DEF RepairSteps
<1>1. work \in [Slots -> Locals] /\ work[s] \in Locals
  BY DEF TypeOK
<1>2. CASE CollectReturns(s)
  <2>1. /\ work'[s].step = "contract" /\ work'[s].stored = mem.contracts[CollectorId(s)]
        /\ mem' = mem /\ disk' = disk
    BY <1>1, <1>2 DEF CollectReturns, SetWork, Suspend, Locals
  <2>2. ReadsEffect(s)
    BY <2>1 DEF ReadsEffect, HoldsBaseline
  <2>3. QED
    BY <2>1, <2>2, QuietEffects
<1>3. CASE ReadBaseline(s)
  <2>1. /\ work'[s].step = "baseline" /\ work'[s].previous = mem.snapshots[CollectorId(s)]
        /\ work[s].step = "contract" /\ work'[s].stored = work[s].stored
        /\ mem' = mem /\ disk' = disk
    BY <1>1, <1>3 DEF ReadBaseline, SetWork, Suspend, Locals
  <2>2. ReadsEffect(s)
    BY <2>1 DEF ReadsEffect, HoldsContract
  <2>3. QED
    BY <2>1, <2>2, QuietEffects
<1>4. CASE Classify(s) \/ OpinionReturns(s)
  BY <1>4, ActOnEffects DEF Classify, OpinionReturns
<1>5. CASE ConsultReasoner(s) \/ HealReachesGate(s) \/ ApproveReturns(s)
  <2>1. \E step \in {"reason", "approve", "reject", "verify"} :
           /\ work'[s] = Suspend(s, step)
           /\ work[s].step \in {"baseline", "heal", "approve"}
           /\ mem' = mem /\ disk' = disk
    BY <1>1, <1>5 DEF ConsultReasoner, HealReachesGate, ApproveReturns, SetWork
  <2>2. /\ work'[s].step \in {"reason", "approve", "reject", "verify"}
        /\ work'[s].stored = work[s].stored /\ work'[s].previous = work[s].previous
    BY <2>1, SteppedLocals
  <2>3. ReadsEffect(s)
    BY <2>1, <2>2 DEF ReadsEffect, HoldsContract, HoldsBaseline
  <2>4. QED
    BY <2>1, <2>2, <2>3, QuietEffects
<1>6. CASE Learn(s)
  <2> DEFINE contract == profileContract(EvaluationOf(s).acceptedRecords)
  <2>1. /\ work'[s] \in {Suspend(s, "learn"), Throw(s)}
        /\ mem' = saveContract(CollectorId(s), contract)
        /\ work[s].step = "publish" /\ work[s].stored = NoContract
    BY <1>6, PersistMoves DEF Learn
  <2> HIDE DEF contract
  <2>2. work'[s].step \in {"learn", "failed"}
    BY <2>1, SteppedLocals
  <2>3. DiskEffect
    BY <1>6 DEF Learn, Persist, DiskEffect
  <2>4. QED
    BY <2>1, <2>2, <2>3, ForgetsReads DEF Effects, MemEffect, contract
<1>7. CASE RecordPublished(s) \/ RecordRepair(s)
  BY <1>7, AppendEventEffects DEF RecordPublished, RecordRepair
<1>8. CASE HealStopsShort(s) \/ RejectReturns(s) \/ VerifyFails(s) \/ Recovered(s)
  <2>1. /\ \E outcome : work'[s] = [Suspend(s, "report") EXCEPT !.outcome = outcome]
        /\ mem' = mem /\ disk' = disk
    BY <1>1, <1>8
    DEF HealStopsShort, RejectReturns, VerifyFails, Recovered, EndRepair, SetWork
  <2>2. work'[s].step = "report"
    BY <1>1, <2>1 DEF Suspend, Locals
  <2>3. QED
    BY <2>1, <2>2, ForgetsReads, QuietEffects
<1>9. CASE VerifyPasses(s)
  <2>1. PICK run \in RunResults :
           LET evaluation == evaluateContract(run.records, ContractFor(work[s].stored))
           IN  /\ evaluation.valid
               /\ Persist(s, saveLastKnownGood(CollectorId(s), evaluation.acceptedRecords),
                          Suspend(s, "recover"))
    BY <1>9 DEF VerifyPasses, Recovers
  <2> DEFINE rows == evaluateContract(run.records, ContractFor(work[s].stored)).acceptedRecords
  <2>2. rows \in Seq(Row) /\ evaluateContract(rows, ContractFor(work[s].stored)).valid
    BY <2>1, AcceptedType
  <2>3. /\ work'[s] \in {Suspend(s, "recover"), Throw(s)}
        /\ mem' = saveLastKnownGood(CollectorId(s), rows)
    BY <2>1, PersistMoves
  <2>4. /\ work[s].step = "verify"
        /\ \/ work'[s].step = "recover" /\ work'[s].stored = work[s].stored
           \/ work'[s].step = "failed"
    BY <1>9, <2>3, SteppedLocals DEF VerifyPasses
  <2>5. ReadsEffect(s)
    BY <2>4 DEF ReadsEffect, HoldsContract, HoldsBaseline
  <2>6. DiskEffect /\ work[s].step \in HoldsContract
    BY <2>1, <2>4 DEF Persist, DiskEffect, HoldsContract
  <2> HIDE DEF rows
  <2>7. QED
    BY <2>2, <2>3, <2>4, <2>5, <2>6 DEF Effects, MemEffect
<1>10. CASE CollectThrows(s) \/ RepairThrows(s) \/ RunFails(s) \/ Settle(s)
  <2>1. work'[s] \in {Throw(s), Done(s), Blank} /\ mem' = mem /\ disk' = disk
    BY <1>1, <1>10 DEF CollectThrows, RepairThrows, RunFails, Settle, SetWork
  <2>2. work'[s].step \in {"failed", "settled", "idle"}
    BY <2>1, SteppedLocals DEF Blank
  <2>3. QED
    BY <2>1, <2>2, ForgetsReads, QuietEffects
<1>11. QED
  BY <1>2, <1>3, <1>4, <1>5, <1>6, <1>7, <1>8, <1>9, <1>10 DEF Step

-----------------------------------------------------------------------------
(* Contracts never outlive their evidence. *)

\* The strengthening: a run about to teach a contract has stored the rows.
Evidence ==
    /\ ContractHasEvidence
    /\ \A s \in Slots : work[s].step = "publish" => mem.snapshots[CollectorId(s)] # NoBaseline

LEMMA EvidenceIsInductive == TypeOK /\ Evidence /\ [Next]_vars => Evidence'
<1> SUFFICES ASSUME TypeOK, Evidence, [Next]_vars PROVE Evidence'
  OBVIOUS
<1>1. ASSUME NEW t \in Targets, BeginRun(t) PROVE Evidence'
  <2>1. \A x \in Slots : work'[x] = work[x] \/ work'[x].step = "collect"
    BY <1>1 DEF BeginRun, SetWork, TypeOK, Blank
  <2>2. QED
    BY <1>1, <2>1 DEF BeginRun, Evidence, ContractHasEvidence, CollectorId
<1>2. ASSUME NEW s \in Slots, Step(s) PROVE Evidence'
  <2>1. Effects(s) /\ \A x \in Slots \ {s} : work'[x] = work[x]
    BY <1>2, StepEffects, OneSlotMoves
  <2>2. CollectorId(s) \in Collectors
    BY <1>2, CollectorIdType, StepIsBusy
  <2>3. \A rows \in Seq(Row) : rows # NoBaseline
    BY NoBaselineAssumption
  <2>4. \A c \in Collectors : mem.snapshots[c] # NoBaseline => mem'.snapshots[c] # NoBaseline
    BY <2>1, <2>2, <2>3
    DEF Effects, MemEffect, saveLastKnownGood, saveContract, TypeOK, PersistedState
  <2>5. ASSUME work'[s].step = "publish" PROVE mem'.snapshots[CollectorId(s)] # NoBaseline
    BY <2>1, <2>2, <2>3, <2>5
    DEF Effects, MemEffect, saveLastKnownGood, TypeOK, PersistedState
  <2>6. ASSUME NEW c \in Collectors, mem'.contracts[c] # NoContract
        PROVE  mem'.snapshots[c] # NoBaseline
    <3>1. CASE mem'.contracts[c] = mem.contracts[c]
      BY <2>4, <2>6, <3>1 DEF Evidence, ContractHasEvidence
    <3>2. CASE mem'.contracts[c] # mem.contracts[c]
      <4>1. work[s].step = "publish" /\ c = CollectorId(s)
        BY <2>1, <3>2
        DEF Effects, MemEffect, saveLastKnownGood, saveContract, TypeOK, PersistedState
      <4>2. QED
        BY <2>4, <4>1 DEF Evidence
    <3>3. QED
      BY <3>1, <3>2
  <2>7. ContractHasEvidence'
    BY <2>1, <2>6 DEF Effects, DiskEffect, Evidence, ContractHasEvidence
  <2>8. work'[s].step = "publish" => CollectorId(s)' = CollectorId(s)
    BY <1>2, StepEffect DEF Continues, Ends, CollectorId, Blank
  <2>9. QED
    BY <2>1, <2>4, <2>5, <2>7, <2>8, CollectorIdType DEF Evidence, CollectorId, Busy
<1>3. CASE Restart
  BY <1>3 DEF Restart, Evidence, ContractHasEvidence, Blank
<1>4. CASE UNCHANGED vars
  BY <1>4 DEF vars, Evidence, ContractHasEvidence, CollectorId
<1>5. QED
  BY <1>1, <1>2, <1>3, <1>4 DEF Next
-----------------------------------------------------------------------------
(* Reads stay fresh when no two targets share a collector. *)

\* Two runs in flight then work on two collectors.
LEMMA OneRunPerCollector ==
    ASSUME TypeOK, OneRunPerTarget, IsInjective(CollectorOf),
           NEW r \in Slots, NEW s \in Slots, r # s, Busy(r), Busy(s)
    PROVE  CollectorId(r) # CollectorId(s)
<1>1. work[r].target \in Targets /\ work[s].target \in Targets
  BY DEF TypeOK
<1>2. work[r].target # work[s].target
  BY DEF OneRunPerTarget
<1>3. QED
  BY <1>1, <1>2, ActorsAssumption DEF CollectorId, IsInjective

LEMMA FreshReadsIsInductive ==
    ASSUME IsInjective(CollectorOf)
    PROVE  TypeOK /\ OneRunPerTarget /\ FreshReads /\ [Next]_vars => FreshReads'
<1> SUFFICES ASSUME TypeOK, OneRunPerTarget, FreshReads, [Next]_vars PROVE FreshReads'
  OBVIOUS
<1> DEFINE Fresh(x) ==
      /\ work[x].step \in HoldsContract => work[x].stored = mem.contracts[CollectorId(x)]
      /\ work[x].step \in HoldsBaseline => work[x].previous = mem.snapshots[CollectorId(x)]
<1>1. ASSUME NEW t \in Targets, BeginRun(t) PROVE FreshReads'
  <2>1. \A x \in Slots : work'[x] = work[x] \/ work'[x].step = "collect"
    BY <1>1 DEF BeginRun, SetWork, TypeOK, Blank
  <2>2. QED
    BY <1>1, <2>1
    DEF BeginRun, FreshReads, CollectorId, HoldsContract, HoldsBaseline, RepairSteps
<1>2. ASSUME NEW s \in Slots, Step(s) PROVE FreshReads'
  <2>1. /\ MemEffect(s) /\ ReadsEffect(s)
        /\ \A x \in Slots \ {s} : work'[x] = work[x]
    BY <1>2, StepEffects, OneSlotMoves DEF Effects
  <2>2. Busy(s) /\ CollectorId(s) \in Collectors
    BY <1>2, CollectorIdType, StepIsBusy
  <2>3. \A c \in Collectors \ {CollectorId(s)} :
           mem'.contracts[c] = mem.contracts[c] /\ mem'.snapshots[c] = mem.snapshots[c]
    BY <2>1 DEF MemEffect, saveLastKnownGood, saveContract, TypeOK, PersistedState
  <2>4. ASSUME NEW x \in Slots \ {s} PROVE Fresh(x)'
    <3>1. CASE Busy(x)
      <4>1. CollectorId(x) \in Collectors \ {CollectorId(s)}
        BY <2>2, <3>1, OneRunPerCollector, CollectorIdType
      <4>2. QED
        BY <2>1, <2>3, <4>1 DEF FreshReads, CollectorId
    <3>2. CASE ~Busy(x)
      BY <2>1, <3>2 DEF Busy, HoldsContract, HoldsBaseline, RepairSteps
    <3>3. QED
      BY <3>1, <3>2
  <2>5. work'[s].step # "idle" => CollectorId(s)' = CollectorId(s)
    BY <1>2, StepEffect DEF Continues, Ends, CollectorId, Blank
  <2>6. work'[s].step \in HoldsContract => mem'.contracts = mem.contracts
    BY <2>1
    DEF MemEffect, saveLastKnownGood, TypeOK, PersistedState, HoldsContract, RepairSteps
  <2>7. work'[s].step \in HoldsBaseline => mem'.snapshots = mem.snapshots
    BY <2>1
    DEF MemEffect, saveContract, TypeOK, PersistedState, HoldsBaseline, RepairSteps
  <2>8. "idle" \notin HoldsContract /\ "idle" \notin HoldsBaseline
    BY DEF HoldsContract, HoldsBaseline, RepairSteps
  <2>9. Fresh(s)'
    BY <2>1, <2>5, <2>6, <2>7, <2>8 DEF ReadsEffect, FreshReads
  <2>10. QED
    BY <2>4, <2>9 DEF FreshReads
<1>3. CASE Restart
  BY <1>3 DEF Restart, FreshReads, Blank, HoldsContract, HoldsBaseline, RepairSteps
<1>4. CASE UNCHANGED vars
  BY <1>4 DEF vars, FreshReads, CollectorId
<1>5. QED
  BY <1>1, <1>2, <1>3, <1>4 DEF Next

\* What the file holds of a contract is what memory holds: failed writes only leave it behind.
FileFollows ==
    \A c \in Collectors :
        disk.contracts[c] # NoContract => mem.contracts[c] = disk.contracts[c]

\* A step of a run teaches a contract only where there is none.
LEMMA StepKeepsContracts ==
    ASSUME TypeOK, FreshReads, NEW s \in Slots, Step(s),
           NEW c \in Collectors, mem.contracts[c] # NoContract
    PROVE  mem'.contracts[c] = mem.contracts[c]
<1>1. MemEffect(s)
  BY StepEffects DEF Effects
<1>2. CollectorId(s) \in Collectors
  BY CollectorIdType, StepIsBusy
<1>3. work[s].step = "publish" => work[s].stored = mem.contracts[CollectorId(s)]
  BY DEF FreshReads, HoldsContract
<1>4. QED
  BY <1>1, <1>2, <1>3 DEF MemEffect, saveLastKnownGood, saveContract, TypeOK, PersistedState

LEMMA FileFollowsIsInductive ==
    TypeOK /\ FreshReads /\ FileFollows /\ [Next]_vars => FileFollows'
<1> SUFFICES ASSUME TypeOK, FreshReads, FileFollows, [Next]_vars PROVE FileFollows'
  OBVIOUS
<1>1. ASSUME NEW s \in Slots, Step(s) PROVE FileFollows'
  <2>1. DiskEffect
    BY <1>1, StepEffects DEF Effects
  <2>2. \A c \in Collectors :
           mem.contracts[c] # NoContract => mem'.contracts[c] = mem.contracts[c]
    BY <1>1, StepKeepsContracts
  <2>3. QED
    BY <2>1, <2>2 DEF DiskEffect, FileFollows
<1>2. CASE \E t \in Targets : BeginRun(t)
  BY <1>2 DEF BeginRun, FileFollows
<1>3. CASE Restart \/ UNCHANGED vars
  BY <1>3 DEF Restart, vars, FileFollows
<1>4. QED
  BY <1>1, <1>2, <1>3 DEF Next
-----------------------------------------------------------------------------
(* The verified rows satisfy the contract. *)

RegularResults == \A run \in RunResults : Regular(run.records)

Satisfied(store, c) ==
    store.contracts[c] # NoContract => evaluateContract(store.snapshots[c], store.contracts[c]).valid

\* The strengthening: what a run learns its contract from is what the store holds.
Contracted ==
    /\ SnapshotSatisfiesContract
    /\ \A s \in Slots :
          work[s].step = "publish" => mem.snapshots[CollectorId(s)] = work[s].run.records

\* Teaching a contract to a site whose verified rows are the ones it is learned from.
LEMMA LearningSatisfies ==
    ASSUME TypeOK, PublishesValidRuns, RegularResults, NEW s \in Slots,
           work[s].step = "publish", work[s].stored = NoContract
    PROVE  LET rows == work[s].run.records
           IN  /\ EvaluationOf(s).acceptedRecords = rows
               /\ evaluateContract(rows, profileContract(rows)).valid
<1>1. work[s].run \in RunResults /\ EvaluationOf(s).valid
  BY DEF TypeOK, JudgedSteps, Steps, RepairSteps, PublishesValidRuns
<1>2. EvaluationOf(s).acceptedRecords = work[s].run.records
  BY <1>1, AcceptedType DEF EvaluationOf
<1>3. work[s].run.records \in Seq(Row \cup {NonRow}) /\ Regular(work[s].run.records)
  BY <1>1, AnswersAssumption DEF Run, RegularResults
<1>4. evaluateContract(work[s].run.records, BOOTSTRAP_CONTRACT).valid
  BY <1>1 DEF EvaluationOf, ContractFor
<1>5. QED
  BY <1>2, <1>3, <1>4, LearnedContractAcceptsItsRun DEF AcceptsWhatItLearned

LEMMA ContractedIsInductive ==
    ASSUME IsInjective(CollectorOf), RegularResults
    PROVE  /\ TypeOK /\ PublishesValidRuns /\ OneRunPerTarget /\ FreshReads
           /\ Contracted /\ [Next]_vars
           => Contracted'
<1> SUFFICES ASSUME TypeOK, PublishesValidRuns, OneRunPerTarget, FreshReads, Contracted,
                    [Next]_vars
             PROVE  Contracted'
  OBVIOUS
<1>1. ASSUME NEW t \in Targets, BeginRun(t) PROVE Contracted'
  <2>1. \A x \in Slots : work'[x] = work[x] \/ work'[x].step = "collect"
    BY <1>1 DEF BeginRun, SetWork, TypeOK, Blank
  <2>2. QED
    BY <1>1, <2>1 DEF BeginRun, Contracted, SnapshotSatisfiesContract, CollectorId
<1>2. ASSUME NEW s \in Slots, Step(s) PROVE Contracted'
  <2> DEFINE own == CollectorId(s)
  <2>1. /\ MemEffect(s) /\ DiskEffect
        /\ \A x \in Slots \ {s} : work'[x] = work[x]
    BY <1>2, StepEffects, OneSlotMoves DEF Effects
  <2>2. Busy(s) /\ own \in Collectors
    BY <1>2, CollectorIdType, StepIsBusy
  <2>3. mem \in PersistedState
    BY DEF TypeOK
  <2>4. \A c \in Collectors \ {own} :
           mem'.contracts[c] = mem.contracts[c] /\ mem'.snapshots[c] = mem.snapshots[c]
    BY <2>1, <2>3 DEF MemEffect, saveLastKnownGood, saveContract, PersistedState
  <2>5. \A c \in Collectors : Satisfied(mem, c) /\ Satisfied(disk, c)
    BY DEF Contracted, SnapshotSatisfiesContract, Satisfied
  <2>6. /\ work[s].step \in HoldsContract => work[s].stored = mem.contracts[own]
        /\ work[s].step = "publish" => mem.snapshots[own] = work[s].run.records
    BY DEF FreshReads, Contracted
  <2>7. Satisfied(mem', own)
    <3>1. CASE mem'.snapshots = mem.snapshots /\ mem'.contracts = mem.contracts
      BY <2>2, <2>5, <3>1 DEF Satisfied
    <3>2. CASE /\ work[s].step \in HoldsContract
               /\ \E rows \in Seq(Row) :
                     /\ mem' = saveLastKnownGood(own, rows)
                     /\ evaluateContract(rows, ContractFor(work[s].stored)).valid
      <4>1. PICK rows \in Seq(Row) :
               /\ mem' = saveLastKnownGood(own, rows)
               /\ evaluateContract(rows, ContractFor(work[s].stored)).valid
        BY <3>2
      <4>2. mem'.snapshots[own] = rows /\ mem'.contracts[own] = work[s].stored
        BY <2>2, <2>3, <2>6, <3>2, <4>1 DEF saveLastKnownGood, PersistedState
      <4>3. QED
        BY <4>1, <4>2 DEF Satisfied, ContractFor
    <3>3. CASE /\ work[s].step = "publish" /\ work[s].stored = NoContract
               /\ mem' = saveContract(own, profileContract(EvaluationOf(s).acceptedRecords))
      <4>1. /\ mem'.snapshots[own] = work[s].run.records
            /\ mem'.contracts[own] = profileContract(work[s].run.records)
        BY <2>2, <2>3, <2>6, <3>3, LearningSatisfies DEF saveContract, PersistedState
      <4>2. QED
        BY <3>3, <4>1, LearningSatisfies DEF Satisfied
    <3>4. QED
      BY <2>1, <3>1, <3>2, <3>3 DEF MemEffect
  <2>8. \A c \in Collectors : Satisfied(mem', c)
    BY <2>4, <2>5, <2>7 DEF Satisfied
  <2>9. \A c \in Collectors : Satisfied(disk', c)
    BY <2>1, <2>5, <2>8 DEF DiskEffect
  <2>10. SnapshotSatisfiesContract'
    BY <2>8, <2>9 DEF SnapshotSatisfiesContract, Satisfied
  <2>11. ASSUME NEW x \in Slots \ {s}, work'[x].step = "publish"
         PROVE  mem'.snapshots[CollectorId(x)'] = work'[x].run.records
    <3>1. Busy(x)
      BY <2>1, <2>11 DEF Busy
    <3>2. CollectorId(x) \in Collectors \ {own}
      BY <2>2, <3>1, OneRunPerCollector, CollectorIdType
    <3>3. QED
      BY <2>1, <2>4, <2>11, <3>2 DEF Contracted, CollectorId
  <2>12. ASSUME work'[s].step = "publish"
         PROVE  mem'.snapshots[CollectorId(s)'] = work'[s].run.records
    <3>1. CollectorId(s)' = own
      BY <1>2, <2>12, StepEffect DEF Continues, Ends, CollectorId, Blank
    <3>2. mem' = saveLastKnownGood(own, work'[s].run.records)
      BY <2>1, <2>12 DEF MemEffect
    <3>3. QED
      BY <2>2, <2>3, <3>1, <3>2 DEF saveLastKnownGood, PersistedState
  <2>13. QED
    BY <2>10, <2>11, <2>12 DEF Contracted
<1>3. CASE Restart
  BY <1>3 DEF Restart, Contracted, SnapshotSatisfiesContract, Blank
<1>4. CASE UNCHANGED vars
  BY <1>4 DEF vars, Contracted, SnapshotSatisfiesContract, CollectorId
<1>5. QED
  BY <1>1, <1>2, <1>3, <1>4 DEF Next
-----------------------------------------------------------------------------
(* The pipeline implements VerifiedData. *)

\* A run is published only if it has not lost more than half of the baseline's rows.
LEMMA OnlyCloseRunsArePublished ==
    ASSUME NEW run, NEW evaluation, NEW contract, NEW baseline \in Seq(Row),
           evaluation.acceptedRecords \in Seq(Row),
           classifyRun(run, evaluation, baseline, contract).recommendedAction = "publish"
    PROVE  2 * Len(evaluation.acceptedRecords) >= Len(baseline)
<1> DEFINE accepted == evaluation.acceptedRecords
<1>1. ClassifyFailedRun(run).recommendedAction # "publish"
  BY DEF ClassifyFailedRun, Verdict
<1>2. ClassifyExtractionErrors(run.extractionErrors).recommendedAction # "publish"
  BY DEF ClassifyExtractionErrors, Verdict
<1>3. ClassifyAgainstBaseline(accepted, baseline, contract).recommendedAction = "publish"
  BY <1>1, <1>2 DEF classifyRun, Verdict
<1>4. Len(accepted) \in Nat /\ Len(baseline) \in Nat /\ Len(<<>>) = 0
  OBVIOUS
<1>5. baseline # NoBaseline
  BY NoBaselineAssumption
<1>6. baseline = <<>> \/ ~(Len(accepted) * 2 < Len(baseline))
  BY <1>3, <1>5 DEF ClassifyAgainstBaseline, Verdict
<1>7. QED
  BY <1>4, <1>6

\* The rows of a run replace the verified ones.
ReplacesRows(s) ==
    \E run \in RunResults :
        /\ mem' = saveLastKnownGood(CollectorId(s), run.records)
        /\ Satisfies(run.records, work[s].stored)
        /\ work[s].previous # NoBaseline =>
              KeepsEnough(work[s].previous, run.records, work[s].stored)

LEMMA PublishReplaces ==
    ASSUME TypeOK, NEW s \in Slots, work[s].step \in {"baseline", "reason"},
           NEW llm \in Opinions \cup {NoOpinion}, NEW decision,
           decision \in {Deterministic(s), mergeReasoning(Deterministic(s), llm)},
           Publish(s, decision)
    PROVE  ReplacesRows(s)
<1>1. /\ work[s].run \in RunResults /\ work[s].run \in Run
      /\ work[s].previous \in Seq(Row) \cup {NoBaseline}
  BY AnswersAssumption DEF TypeOK, Locals, JudgedSteps, Steps
<1>2. /\ evaluateContract(work[s].run.records, ContractFor(work[s].stored)).valid
      /\ EvaluationOf(s).acceptedRecords = work[s].run.records
      /\ EvaluationOf(s).acceptedRecords \in Seq(Row)
  BY <1>1, AcceptedType DEF Publish, Publishable, EvaluationOf
<1>3. decision.recommendedAction = "publish"
  BY DEF Publish, Publishable
<1>4. Deterministic(s) \in Decision
  BY <1>1, DeterministicType DEF Deterministic
<1>5. Deterministic(s).recommendedAction = "publish"
  BY <1>3, <1>4, MergeNeverWidens
<1>6. ASSUME work[s].previous # NoBaseline
      PROVE  2 * Len(work[s].run.records) >= Len(work[s].previous)
  BY <1>1, <1>2, <1>5, <1>6, OnlyCloseRunsArePublished DEF Deterministic
<1>7. mem' = saveLastKnownGood(CollectorId(s), work[s].run.records)
  BY <1>2 DEF Publish, Persist
<1>8. QED
  BY <1>1, <1>2, <1>6, <1>7 DEF ReplacesRows, Satisfies, KeepsEnough

LEMMA VerifyReplaces ==
    ASSUME TypeOK, NEW s \in Slots, VerifyPasses(s)
    PROVE  ReplacesRows(s)
<1> DEFINE contract == ContractFor(work[s].stored)
<1>1. PICK run \in RunResults :
         /\ Recovers(s, run)
         /\ Persist(s, saveLastKnownGood(CollectorId(s),
                                         evaluateContract(run.records, contract).acceptedRecords),
                    Suspend(s, "recover"))
  BY DEF VerifyPasses
<1>2. evaluateContract(run.records, contract).valid
  BY <1>1 DEF Recovers
<1>3. /\ run.records \in Seq(Row)
      /\ evaluateContract(run.records, contract).acceptedRecords = run.records
  BY <1>2, AcceptedType
<1>4. mem' = saveLastKnownGood(CollectorId(s), run.records)
  BY <1>1, <1>3 DEF Persist
<1>5. ASSUME work[s].previous # NoBaseline
      PROVE  KeepsEnough(work[s].previous, run.records, work[s].stored)
  <2>1. CASE work[s].previous = <<>>
    <3>1. Len(run.records) \in Nat /\ Len(work[s].previous) = 0
      BY <1>3, <2>1
    <3>2. QED
      BY <3>1 DEF KeepsEnough
  <2>2. CASE work[s].previous # <<>>
    BY <1>1, <1>3, <1>5, <2>2 DEF Recovers, KeepsEnough
  <2>3. QED
    BY <2>1, <2>2
<1>6. QED
  BY <1>2, <1>4, <1>5 DEF ReplacesRows, Satisfies

\* Every step that changes the verified rows compares them with those it has read.
LEMMA StepReplaces ==
    ASSUME TypeOK, NEW s \in Slots, Step(s), mem'.snapshots # mem.snapshots
    PROVE  ReplacesRows(s) /\ work[s].step \in HoldsContract \cap HoldsBaseline
<1> USE DEF HoldsContract, HoldsBaseline, RepairSteps
<1>1. mem \in PersistedState
  BY DEF TypeOK
<1>2. ASSUME NEW decision, NEW published
      PROVE  ~appendEvent(s, decision, published)
  <2>1. ASSUME NEW events PROVE mem' # [mem EXCEPT !.events = events]
    BY <1>1 DEF PersistedState
  <2>2. QED
    BY <2>1 DEF appendEvent, Persist
<1>3. ASSUME NEW decision, ActOn(s, decision)
      PROVE  Publish(s, decision)
  BY <1>2, <1>3 DEF ActOn, StartRepair, RepairInProgress, Withhold
<1>4. CASE Classify(s)
  <2>1. work[s].step = "baseline" /\ Publish(s, Deterministic(s))
    BY <1>3, <1>4 DEF Classify
  <2>2. QED
    BY <2>1, PublishReplaces
<1>5. CASE OpinionReturns(s)
  <2>1. PICK llm \in Opinions \cup {NoOpinion} :
           Publish(s, mergeReasoning(Deterministic(s), llm))
    BY <1>3, <1>5 DEF OpinionReturns
  <2>2. work[s].step = "reason"
    BY <1>5 DEF OpinionReturns
  <2>3. QED
    BY <2>1, <2>2, PublishReplaces
<1>6. CASE VerifyPasses(s)
  BY <1>6, VerifyReplaces DEF VerifyPasses
<1>7. ~Learn(s)
  <2>1. ASSUME NEW c, NEW contract PROVE mem' # saveContract(c, contract)
    BY <1>1 DEF saveContract, PersistedState
  <2>2. QED
    BY <2>1 DEF Learn, Persist
<1>8. ~RecordPublished(s) /\ ~RecordRepair(s)
  BY <1>2 DEF RecordPublished, RecordRepair
<1>9. QED
  BY <1>4, <1>5, <1>6, <1>7, <1>8
  DEF Step, CollectReturns, CollectThrows, ReadBaseline, ConsultReasoner, HealStopsShort,
      HealReachesGate, RejectReturns, ApproveReturns, VerifyFails, Recovered, RepairThrows,
      RunFails, Settle

\* What a run is about to learn from is what the store holds.
PublishedIsStored ==
    \A s \in Slots :
        work[s].step = "publish" => mem.snapshots[CollectorId(s)] = work[s].run.records

LEMMA PublishedIsStoredIsInductive ==
    ASSUME IsInjective(CollectorOf)
    PROVE  TypeOK /\ OneRunPerTarget /\ PublishedIsStored /\ [Next]_vars => PublishedIsStored'
<1> SUFFICES ASSUME TypeOK, OneRunPerTarget, PublishedIsStored, [Next]_vars
             PROVE  PublishedIsStored'
  OBVIOUS
<1>1. ASSUME NEW t \in Targets, BeginRun(t) PROVE PublishedIsStored'
  <2>1. \A x \in Slots : work'[x] = work[x] \/ work'[x].step = "collect"
    BY <1>1 DEF BeginRun, SetWork, TypeOK, Blank
  <2>2. QED
    BY <1>1, <2>1 DEF BeginRun, PublishedIsStored, CollectorId
<1>2. ASSUME NEW s \in Slots, Step(s) PROVE PublishedIsStored'
  <2> DEFINE own == CollectorId(s)
  <2>1. MemEffect(s) /\ \A x \in Slots \ {s} : work'[x] = work[x]
    BY <1>2, StepEffects, OneSlotMoves DEF Effects
  <2>2. Busy(s) /\ own \in Collectors /\ mem \in PersistedState
    BY <1>2, CollectorIdType, StepIsBusy DEF TypeOK
  <2>3. \A c \in Collectors \ {own} : mem'.snapshots[c] = mem.snapshots[c]
    BY <2>1, <2>2 DEF MemEffect, saveLastKnownGood, saveContract, PersistedState
  <2>4. ASSUME NEW x \in Slots \ {s}, work'[x].step = "publish"
        PROVE  mem'.snapshots[CollectorId(x)'] = work'[x].run.records
    <3>1. Busy(x)
      BY <2>1, <2>4 DEF Busy
    <3>2. CollectorId(x) \in Collectors \ {own}
      BY <2>2, <3>1, OneRunPerCollector, CollectorIdType
    <3>3. QED
      BY <2>1, <2>3, <2>4, <3>2 DEF PublishedIsStored, CollectorId
  <2>5. ASSUME work'[s].step = "publish"
        PROVE  mem'.snapshots[CollectorId(s)'] = work'[s].run.records
    <3>1. CollectorId(s)' = own
      BY <1>2, <2>5, StepEffect DEF Continues, Ends, CollectorId, Blank
    <3>2. mem' = saveLastKnownGood(own, work'[s].run.records)
      BY <2>1, <2>5 DEF MemEffect
    <3>3. QED
      BY <2>2, <3>1, <3>2 DEF saveLastKnownGood, PersistedState
  <2>6. QED
    BY <2>4, <2>5 DEF PublishedIsStored
<1>3. CASE Restart
  BY <1>3 DEF Restart, PublishedIsStored, Blank
<1>4. CASE UNCHANGED vars
  BY <1>4 DEF vars, PublishedIsStored, CollectorId
<1>5. QED
  BY <1>1, <1>2, <1>3, <1>4 DEF Next

\* What VerifiedData allows while the process lives.
VerifiedAdvances == Verified!Keep \/ \E c \in Collectors : Verified!Replace(c) \/ Verified!Teach(c)

\* Every step of a run is one of VerifiedData, and none of its reloads.
LEMMA StepIsVerified ==
    ASSUME TypeOK, PublishesValidRuns, FreshReads, PublishedIsStored,
           NEW s \in Slots, Step(s)
    PROVE  VerifiedAdvances
<1> DEFINE c == CollectorId(s)
<1>1. MemEffect(s) /\ DiskEffect
  BY StepEffects DEF Effects
<1>2. c \in Collectors /\ mem \in PersistedState /\ Busy(s)
  BY CollectorIdType, StepIsBusy DEF TypeOK
<1>3. Verified!Written
  BY <1>1 DEF DiskEffect, Verified!Written, Data
<1>4. CASE mem'.snapshots # mem.snapshots
  <2>1. /\ work[s].stored = mem.contracts[c] /\ work[s].previous = mem.snapshots[c]
        /\ ReplacesRows(s)
    BY <1>4, StepReplaces DEF FreshReads
  <2>2. PICK run \in RunResults :
           /\ mem' = saveLastKnownGood(c, run.records)
           /\ Satisfies(run.records, mem.contracts[c])
           /\ mem.snapshots[c] # NoBaseline =>
                 KeepsEnough(mem.snapshots[c], run.records, mem.contracts[c])
    BY <2>1 DEF ReplacesRows
  <2>3. Data(mem)' = [Data(mem) EXCEPT !.rows[c] = run.records]
    BY <1>2, <2>2 DEF Data, saveLastKnownGood, PersistedState
  <2>4. Data(mem).rows[c] = mem.snapshots[c] /\ Data(mem).contracts[c] = mem.contracts[c]
    BY DEF Data
  <2>5. Verified!Replace(c)
    BY <1>3, <2>2, <2>3, <2>4 DEF Verified!Replace
  <2>6. QED
    BY <1>2, <2>5 DEF VerifiedAdvances
<1>5. CASE mem'.snapshots = mem.snapshots /\ mem'.contracts = mem.contracts
  BY <1>3, <1>5 DEF VerifiedAdvances, Verified!Keep, Data
<1>6. CASE /\ work[s].step = "publish" /\ work[s].stored = NoContract
           /\ mem' = saveContract(c, profileContract(EvaluationOf(s).acceptedRecords))
  <2>1. work[s].run \in RunResults /\ EvaluationOf(s).valid
    BY <1>6 DEF TypeOK, JudgedSteps, Steps, RepairSteps, PublishesValidRuns
  <2>2. /\ EvaluationOf(s).acceptedRecords = mem.snapshots[c]
        /\ mem.snapshots[c] \in Seq(Row)
    BY <1>6, <2>1, AcceptedType DEF EvaluationOf, PublishedIsStored
  <2>3. mem.contracts[c] = NoContract /\ mem.snapshots[c] # NoBaseline
    BY <1>6, <2>2, NoBaselineAssumption DEF FreshReads, HoldsContract
  <2>4. Data(mem)' = [Data(mem) EXCEPT !.contracts[c] = profileContract(mem.snapshots[c])]
    <3> DEFINE learned == profileContract(mem.snapshots[c])
    <3>1. mem' = saveContract(c, learned)
      BY <1>6, <2>2
    <3> HIDE DEF learned
    <3>2. /\ mem'.snapshots = mem.snapshots
          /\ mem'.contracts = [mem.contracts EXCEPT ![c] = learned]
      BY <1>2, <3>1 DEF saveContract, PersistedState
    <3>3. Data(mem)' = [Data(mem) EXCEPT !.contracts[c] = learned]
      BY <3>2 DEF Data
    <3>4. QED
      BY <3>3 DEF learned
  <2>5. Data(mem).rows[c] = mem.snapshots[c] /\ Data(mem).contracts[c] = mem.contracts[c]
    BY DEF Data
  <2>6. Verified!Teach(c)
    BY <1>3, <2>3, <2>4, <2>5 DEF Verified!Teach
  <2>7. QED
    BY <1>2, <2>6 DEF VerifiedAdvances
<1>7. ASSUME mem'.snapshots = mem.snapshots, NEW rows \in Seq(Row), mem' = saveLastKnownGood(c, rows)
      PROVE  mem'.contracts = mem.contracts
  BY <1>2, <1>7 DEF saveLastKnownGood, PersistedState
<1>8. QED
  BY <1>1, <1>4, <1>5, <1>6, <1>7 DEF MemEffect
-----------------------------------------------------------------------------
(* No publication loses more than half of the rows. *)

\* The contract in force tells the verified rows of each collector apart: by their identity, which
\* is then required of every row, or by all of their data.
NamesItsRows(store) ==
    \A c \in Collectors :
        LET contract == ContractFor(store.contracts[c])
            rows == store.snapshots[c]
        IN  /\ contract.identityField # NoField =>
                  contract.identityField \in contract.requiredFields
            /\ rows # NoBaseline =>
                  Distinguishes(contract, rows) /\ Distinguishes(BOOTSTRAP_CONTRACT, rows)

RowsAreNamed == NamesItsRows(mem) /\ NamesItsRows(disk)

\* No page has two rows with the same data.
NoRowTwice ==
    \A run \in RunResults : run.records \in Seq(Row) => Distinguishes(BOOTSTRAP_CONTRACT, run.records)

LEMMA KeyWithoutIdentity ==
    ASSUME NEW rows, NEW contract, contract.identityField = NoField,
           Distinguishes(BOOTSTRAP_CONTRACT, rows)
    PROVE  Distinguishes(contract, rows)
BY DEF Distinguishes, keyOf, BOOTSTRAP_CONTRACT

LEMMA AcceptedRowsAreNamed ==
    ASSUME NoRowTwice, NEW run \in RunResults, NEW contract,
           contract.identityField # NoField => contract.identityField \in contract.requiredFields,
           evaluateContract(run.records, contract).valid
    PROVE  /\ run.records \in Seq(Row)
           /\ Distinguishes(contract, run.records)
           /\ Distinguishes(BOOTSTRAP_CONTRACT, run.records)
<1>1. run.records \in Seq(Row) /\ Distinguishes(BOOTSTRAP_CONTRACT, run.records)
  BY AcceptedType DEF NoRowTwice
<1>2. CASE contract.identityField = NoField
  BY <1>1, <1>2, KeyWithoutIdentity
<1>3. CASE contract.identityField # NoField
  <2> DEFINE rows == run.records
             id == contract.identityField
  <2>1. /\ \A i \in DOMAIN rows : HasValue(rows[i], id)
        /\ \A i, j \in DOMAIN rows : rows[i][id].text = rows[j][id].text => i = j
    <3>1. rows \in Seq(Row) /\ evaluateContract(rows, contract).valid
      BY <1>1
    <3> HIDE DEF rows
    <3> QED BY <1>3, <3>1, ValidRowsAreNamed
  <2> QED BY <1>1, <1>3, <2>1, NamesDistinguish
<1> QED BY <1>1, <1>2, <1>3

LEMMA LearnedContractNames ==
    ASSUME NEW rows \in Seq(Row), Distinguishes(BOOTSTRAP_CONTRACT, rows)
    PROVE  LET contract == profileContract(rows)
           IN  /\ contract.identityField # NoField =>
                     contract.identityField \in contract.requiredFields
               /\ Distinguishes(contract, rows)
<1> DEFINE contract == profileContract(rows)
<1>1. CASE contract.identityField = NoField
  <2> HIDE DEF contract
  <2>1. Distinguishes(contract, rows)
    BY <1>1, KeyWithoutIdentity
  <2> QED BY <1>1, <2>1 DEF contract
<1>2. CASE contract.identityField # NoField
  <2>1. /\ contract.identityField \in contract.requiredFields
        /\ IsUsableIdentity(rows, contract.identityField)
    BY <1>2, LearnedIdentity
  <2> HIDE DEF contract
  <2>2. Distinguishes(contract, rows)
    BY <1>2, <2>1, NamesDistinguish DEF IsUsableIdentity
  <2> QED BY <2>1, <2>2 DEF contract
<1> QED BY <1>1, <1>2

\* What such a step does to one collector: nothing, new rows, or a contract for the rows it has.
LEMMA AdvanceOfCollector ==
    ASSUME TypeOK, VerifiedAdvances, NEW c \in Collectors
    PROVE  LET before == mem.contracts[c]
               held == mem.snapshots[c]
           IN  \/ mem'.contracts[c] = before /\ mem'.snapshots[c] = held
               \/ \E run \in RunResults :
                     /\ Satisfies(run.records, before)
                     /\ held # NoBaseline => KeepsEnough(held, run.records, before)
                     /\ mem'.snapshots[c] = run.records /\ mem'.contracts[c] = before
               \/ /\ held # NoBaseline /\ mem'.snapshots[c] = held /\ before = NoContract
                  /\ mem'.contracts[c] = profileContract(held)
<1>0. mem.snapshots \in [Collectors -> Seq(Row) \cup {NoBaseline}]
      /\ mem.contracts \in [Collectors -> Contract \cup {NoContract}]
  BY DEF TypeOK, PersistedState
<1>1. CASE Verified!Keep
  <2>1. mem'.contracts = mem.contracts /\ mem'.snapshots = mem.snapshots
    BY <1>1 DEF Verified!Keep, Data
  <2> QED BY <2>1
<1>2. ASSUME NEW d \in Collectors, Verified!Replace(d)
      PROVE  \/ mem'.contracts[c] = mem.contracts[c] /\ mem'.snapshots[c] = mem.snapshots[c]
             \/ \E run \in RunResults :
                   /\ Satisfies(run.records, mem.contracts[c])
                   /\ mem.snapshots[c] # NoBaseline =>
                         KeepsEnough(mem.snapshots[c], run.records, mem.contracts[c])
                   /\ mem'.snapshots[c] = run.records /\ mem'.contracts[c] = mem.contracts[c]
  <2>1. PICK run \in RunResults :
           /\ Data(mem)' = [Data(mem) EXCEPT !.rows[d] = run.records]
           /\ Satisfies(run.records, Data(mem).contracts[d])
           /\ Data(mem).rows[d] # NoBaseline =>
                 KeepsEnough(Data(mem).rows[d], run.records, Data(mem).contracts[d])
    BY <1>2 DEF Verified!Replace
  <2>2. /\ mem'.contracts = mem.contracts
        /\ mem'.snapshots = [mem.snapshots EXCEPT ![d] = run.records]
    BY <2>1 DEF Data
  <2>3. /\ Satisfies(run.records, mem.contracts[d])
        /\ mem.snapshots[d] # NoBaseline =>
              KeepsEnough(mem.snapshots[d], run.records, mem.contracts[d])
    BY <2>1 DEF Data
  <2> QED BY <1>0, <2>2, <2>3
<1>3. ASSUME NEW d \in Collectors, Verified!Teach(d)
      PROVE  \/ mem'.contracts[c] = mem.contracts[c] /\ mem'.snapshots[c] = mem.snapshots[c]
             \/ /\ mem.snapshots[c] # NoBaseline /\ mem'.snapshots[c] = mem.snapshots[c]
                /\ mem.contracts[c] = NoContract
                /\ mem'.contracts[c] = profileContract(mem.snapshots[c])
  <2> DEFINE learned == profileContract(mem.snapshots[d])
  <2>1. /\ Data(mem)' = [Data(mem) EXCEPT !.contracts[d] = learned]
        /\ mem.contracts[d] = NoContract /\ mem.snapshots[d] # NoBaseline
    BY <1>3 DEF Verified!Teach, Data
  <2> HIDE DEF learned
  <2>2. /\ mem'.snapshots = mem.snapshots
        /\ mem'.contracts = [mem.contracts EXCEPT ![d] = learned]
    BY <2>1 DEF Data
  <2> QED BY <1>0, <2>1, <2>2 DEF learned
<1> QED BY <1>1, <1>2, <1>3 DEF VerifiedAdvances

\* Whatever VerifiedData allows keeps the rows told apart.
LEMMA AdvanceKeepsNames ==
    ASSUME NoRowTwice, TypeOK, RowsAreNamed, VerifiedAdvances
    PROVE  RowsAreNamed'
<1>0. mem \in PersistedState
  BY DEF TypeOK
<1>1. NamesItsRows(mem)'
  <2> SUFFICES ASSUME NEW c \in Collectors
               PROVE  LET contract == ContractFor(mem'.contracts[c])
                          rows == mem'.snapshots[c]
                      IN  /\ contract.identityField # NoField =>
                                contract.identityField \in contract.requiredFields
                          /\ rows # NoBaseline => /\ Distinguishes(contract, rows)
                                                  /\ Distinguishes(BOOTSTRAP_CONTRACT, rows)
    BY DEF NamesItsRows, ContractFor
  <2> DEFINE before == mem.contracts[c]
             held == mem.snapshots[c]
  <2>1. /\ ContractFor(before).identityField # NoField =>
              ContractFor(before).identityField \in ContractFor(before).requiredFields
        /\ held # NoBaseline => /\ Distinguishes(ContractFor(before), held)
                                /\ Distinguishes(BOOTSTRAP_CONTRACT, held)
    BY DEF RowsAreNamed, NamesItsRows
  <2>2. CASE mem'.contracts[c] = before /\ mem'.snapshots[c] = held
    BY <2>1, <2>2
  <2>3. ASSUME NEW run \in RunResults, Satisfies(run.records, before),
               mem'.snapshots[c] = run.records, mem'.contracts[c] = before
        PROVE  /\ Distinguishes(ContractFor(before), run.records)
               /\ Distinguishes(BOOTSTRAP_CONTRACT, run.records)
    <3> DEFINE contract == ContractFor(before)
    <3>1. evaluateContract(run.records, contract).valid
      BY <2>3 DEF Satisfies
    <3>2. contract.identityField # NoField => contract.identityField \in contract.requiredFields
      BY <2>1
    <3> HIDE DEF contract
    <3> QED BY <3>1, <3>2, AcceptedRowsAreNamed DEF contract
  <2>4. ASSUME held # NoBaseline, mem'.snapshots[c] = held, before = NoContract,
               mem'.contracts[c] = profileContract(held)
        PROVE  LET contract == ContractFor(mem'.contracts[c])
               IN  /\ contract.identityField # NoField =>
                         contract.identityField \in contract.requiredFields
                   /\ Distinguishes(contract, held)
                   /\ Distinguishes(BOOTSTRAP_CONTRACT, held)
    <3>1. held \in Seq(Row) /\ Distinguishes(BOOTSTRAP_CONTRACT, held)
      BY <1>0, <2>1, <2>4 DEF PersistedState
    <3>2. ContractFor(mem'.contracts[c]) = profileContract(held)
      BY <2>4, <3>1, ProfiledContractIsWellFormed, NoContractAssumption DEF ContractFor
    <3> HIDE DEF held
    <3> QED BY <3>1, <3>2, LearnedContractNames
  <2>5. VerifiedAdvances =>
          \/ mem'.contracts[c] = before /\ mem'.snapshots[c] = held
          \/ \E run \in RunResults :
                /\ Satisfies(run.records, before)
                /\ mem'.snapshots[c] = run.records /\ mem'.contracts[c] = before
          \/ /\ held # NoBaseline /\ mem'.snapshots[c] = held /\ before = NoContract
             /\ mem'.contracts[c] = profileContract(held)
    BY AdvanceOfCollector
  <2> QED BY <2>1, <2>2, <2>3, <2>4, <2>5
<1>2. \/ disk'.snapshots = disk.snapshots /\ disk'.contracts = disk.contracts
      \/ disk'.snapshots = mem'.snapshots /\ disk'.contracts = mem'.contracts
  <2>1. Verified!Written
    BY DEF VerifiedAdvances, Verified!Keep, Verified!Replace, Verified!Teach
  <2>2. Data(disk)' = Data(mem)' \/ Data(disk)' = Data(disk)
    BY <2>1 DEF Verified!Written
  <2> QED BY <2>2 DEF Data
<1>3. NamesItsRows(disk)'
  BY <1>1, <1>2 DEF RowsAreNamed, NamesItsRows
<1> QED BY <1>1, <1>3 DEF RowsAreNamed

\* What passes for enough is half: rows that are told apart are not counted twice.
LEMMA AdvanceKeepsHalf ==
    ASSUME TypeOK, RowsAreNamed, VerifiedAdvances, NEW c \in Collectors,
           mem.snapshots[c] # NoBaseline
    PROVE  2 * Len(mem'.snapshots[c]) >= Len(mem.snapshots[c])
<1> DEFINE before == mem.snapshots[c]
           contract == ContractFor(mem.contracts[c])
<1>1. before \in Seq(Row) /\ Len(before) \in Nat
  BY LenProperties DEF TypeOK, PersistedState
<1>2. Distinguishes(contract, before)
  BY DEF RowsAreNamed, NamesItsRows
<1>3. ASSUME NEW run \in RunResults, Satisfies(run.records, mem.contracts[c]),
             KeepsEnough(before, run.records, mem.contracts[c])
      PROVE  2 * Len(run.records) >= Len(before)
  <2> DEFINE after == run.records
             kept == Cardinality(Retained(before, after, contract))
  <2>1. after \in Seq(Row) /\ Len(after) \in Nat
    BY <1>3, AcceptedType, LenProperties DEF Satisfies
  <2>2. CASE KeepsHalf(before, after, contract)
    <3>1. kept \in Nat /\ kept <= Len(after)
      <4> HIDE DEF contract, before, after
      <4> QED BY <1>1, <1>2, <2>1, RetainedAreAtMost
    <3>2. 2 * kept >= Len(before)
      BY <2>2 DEF KeepsHalf
    <3> HIDE DEF kept, after, before
    <3>3. 2 * Len(after) >= Len(before)
      BY <1>1, <2>1, <3>1, <3>2
    <3> QED BY <3>3 DEF after
  <2> QED BY <1>3, <2>2 DEF KeepsEnough
<1>4. CASE mem'.snapshots[c] = before
  BY <1>1, <1>4
<1> QED BY <1>3, <1>4, AdvanceOfCollector
-----------------------------------------------------------------------------
(* What a run is about to record is what the store holds. *)

\* The rows a recovery has stored.
RecoveredRows(s) ==
    LET snapshot == mem.snapshots[CollectorId(s)]
        contract == ContractFor(work[s].stored)
    IN  /\ evaluateContract(snapshot, contract).valid
        /\ work[s].previous \notin {NoBaseline, <<>>} =>
              KeepsHalf(work[s].previous, snapshot, contract)

\* ReportedDataIsStored for one run, strengthened by what it has stored before it reports.
Reported(s) ==
    LET snapshot == mem.snapshots[CollectorId(s)]
    IN  /\ work[s].step \in {"publish", "learn"} => snapshot = work[s].run.records
        /\ work[s].step = "recover" => RecoveredRows(s)
        /\ work[s].step = "report" =>
              IF work[s].outcome = "recovered" THEN RecoveredRows(s)
              ELSE snapshot = work[s].previous

AllReported == \A s \in Slots : Reported(s)

\* The run has ended its repair, or found another at work.
Concludes(s, outcome) ==
    /\ work'[s].step = "report"
    /\ work'[s].target = work[s].target
    /\ work'[s].outcome = outcome
    /\ work'[s].stored = work[s].stored
    /\ work'[s].previous = work[s].previous
    /\ mem' = mem

LEMMA ConcludesUnchanged ==
    ASSUME FreshReads, NEW s \in Slots, NEW outcome, outcome # "recovered",
           work[s].step \in HoldsBaseline, Concludes(s, outcome)
    PROVE  Reported(s)'
BY DEF FreshReads, Concludes, Reported, CollectorId

LEMMA ActOnReports ==
    ASSUME TypeOK, FreshReads, NEW s \in Slots, work[s].step \in {"baseline", "reason"},
           CollectorId(s) \in Collectors, NEW decision, ActOn(s, decision)
    PROVE  Reported(s)'
<1>1. work[s] \in Locals /\ mem \in PersistedState
  BY DEF TypeOK
<1>2. CASE Publish(s, decision)
  <2> DEFINE resolved == [Suspend(s, "publish") EXCEPT !.decision = decision]
  <2>1. /\ work'[s] \in {resolved, Throw(s)}
        /\ mem' = saveLastKnownGood(CollectorId(s), EvaluationOf(s).acceptedRecords)
    BY <1>2, PersistMoves DEF Publish
  <2>2. CASE work'[s] = Throw(s)
    BY <2>2, SteppedLocals DEF Reported
  <2>3. CASE work'[s] = resolved
    <3>1. /\ work'[s].step = "publish" /\ work'[s].run = work[s].run
          /\ work'[s].target = work[s].target
      BY <1>1, <2>3 DEF Suspend, Locals
    <3>2. EvaluationOf(s).acceptedRecords = work[s].run.records
      <4>1. work[s].run \in RunResults
        BY DEF TypeOK, JudgedSteps, Steps, RepairSteps
      <4>2. QED
        BY <1>2, <4>1, AcceptedType DEF Publish, Publishable, EvaluationOf
    <3>3. mem'.snapshots[CollectorId(s)] = work[s].run.records
      BY <1>1, <2>1, <3>2 DEF saveLastKnownGood, PersistedState
    <3>4. QED
      BY <3>1, <3>3 DEF Reported, CollectorId
  <2>4. QED
    BY <2>1, <2>2, <2>3
<1>3. CASE StartRepair(s, decision)
  <2>1. work'[s] = [Suspend(s, "heal") EXCEPT !.decision = decision]
    BY <1>3 DEF StartRepair, SetWork, TypeOK
  <2>2. work'[s].step = "heal"
    BY <1>1, <2>1 DEF Suspend, Locals
  <2>3. QED
    BY <2>2 DEF Reported
<1>4. CASE RepairInProgress(s, decision)
  <2>1. /\ work'[s] = [Suspend(s, "report") EXCEPT !.decision = decision,
                                                   !.outcome = "already_in_progress"]
        /\ mem' = mem
    BY <1>4 DEF RepairInProgress, SetWork, TypeOK
  <2>2. Concludes(s, "already_in_progress")
    BY <1>1, <2>1 DEF Suspend, Locals, Concludes
  <2>3. QED
    BY <2>2, ConcludesUnchanged DEF HoldsBaseline
<1>5. CASE Withhold(s, decision)
  <2>1. work'[s] \in {Done(s), Throw(s)}
    BY <1>5, PersistMoves DEF Withhold, appendEvent
  <2>2. QED
    BY <2>1, SteppedLocals DEF Reported
<1>6. QED
  BY <1>2, <1>3, <1>4, <1>5 DEF ActOn

LEMMA StepReports ==
    ASSUME TypeOK, FreshReads, AllReported, NEW s \in Slots, Step(s)
    PROVE  Reported(s)'
<1>1. /\ work \in [Slots -> Locals] /\ work[s] \in Locals /\ mem \in PersistedState
      /\ CollectorId(s) \in Collectors
  BY StepIsBusy, CollectorIdType DEF TypeOK
<1>2. CASE CollectReturns(s)
  <2>1. work'[s].step = "contract"
    BY <1>1, <1>2 DEF CollectReturns, SetWork, Suspend, Locals
  <2>2. QED
    BY <2>1 DEF Reported
<1>3. CASE ReadBaseline(s)
  <2>1. work'[s].step = "baseline"
    BY <1>1, <1>3 DEF ReadBaseline, SetWork, Suspend, Locals
  <2>2. QED
    BY <2>1 DEF Reported
<1>4. CASE Classify(s) \/ OpinionReturns(s)
  BY <1>1, <1>4, ActOnReports DEF Classify, OpinionReturns
<1>5. CASE ConsultReasoner(s) \/ HealReachesGate(s) \/ ApproveReturns(s)
  <2>1. \E step \in {"reason", "approve", "reject", "verify"} : work'[s] = Suspend(s, step)
    BY <1>1, <1>5 DEF ConsultReasoner, HealReachesGate, ApproveReturns, SetWork
  <2>2. QED
    BY <2>1, SteppedLocals DEF Reported
<1>6. CASE Learn(s)
  <2> DEFINE learned == profileContract(EvaluationOf(s).acceptedRecords)
  <2>1. /\ work'[s] \in {Suspend(s, "learn"), Throw(s)}
        /\ mem' = saveContract(CollectorId(s), learned)
        /\ work[s].step = "publish"
    BY <1>6, PersistMoves DEF Learn
  <2> HIDE DEF learned
  <2>2. mem'.snapshots = mem.snapshots
    BY <1>1, <2>1 DEF saveContract, PersistedState
  <2>3. \/ work'[s].step = "failed"
        \/ /\ work'[s].step = "learn" /\ work'[s].run = work[s].run
           /\ work'[s].target = work[s].target
    BY <2>1, SteppedLocals
  <2>4. mem.snapshots[CollectorId(s)] = work[s].run.records
    BY <2>1 DEF AllReported, Reported
  <2>5. QED
    BY <2>2, <2>3, <2>4 DEF Reported, CollectorId
<1>7. CASE RecordPublished(s) \/ RecordRepair(s)
  <2>1. work'[s] \in {Done(s), Throw(s)}
    BY <1>7, PersistMoves DEF RecordPublished, RecordRepair, appendEvent
  <2>2. QED
    BY <2>1, SteppedLocals DEF Reported
<1>8. CASE HealStopsShort(s) \/ RejectReturns(s) \/ VerifyFails(s)
  <2>1. /\ work'[s] = [Suspend(s, "report") EXCEPT !.outcome = "manual_review"]
        /\ mem' = mem /\ work[s].step \in {"heal", "reject", "verify"}
    BY <1>1, <1>8 DEF HealStopsShort, RejectReturns, VerifyFails, EndRepair, SetWork
  <2>2. Concludes(s, "manual_review")
    BY <1>1, <2>1 DEF Suspend, Locals, Concludes
  <2>3. QED
    BY <2>1, <2>2, ConcludesUnchanged DEF HoldsBaseline, RepairSteps
<1>9. CASE VerifyPasses(s)
  <2> DEFINE contract == ContractFor(work[s].stored)
  <2>1. PICK run \in RunResults :
           /\ Recovers(s, run)
           /\ Persist(s, saveLastKnownGood(CollectorId(s),
                                           evaluateContract(run.records, contract).acceptedRecords),
                      Suspend(s, "recover"))
    BY <1>9 DEF VerifyPasses
  <2>2. evaluateContract(run.records, contract).valid
    BY <2>1 DEF Recovers
  <2>3. evaluateContract(run.records, contract).acceptedRecords = run.records
    BY <2>2, AcceptedType
  <2>4. /\ work'[s] \in {Suspend(s, "recover"), Throw(s)}
        /\ mem'.snapshots[CollectorId(s)] = run.records
    BY <1>1, <2>1, <2>3, PersistMoves DEF saveLastKnownGood, PersistedState
  <2>5. work[s].previous \notin {NoBaseline, <<>>} =>
           KeepsHalf(work[s].previous, run.records, contract)
    BY <2>1, <2>3 DEF Recovers
  <2>6. \/ work'[s].step = "failed"
        \/ /\ work'[s].step = "recover" /\ work'[s].target = work[s].target
           /\ work'[s].stored = work[s].stored /\ work'[s].previous = work[s].previous
    BY <2>4, SteppedLocals
  <2>7. QED
    BY <2>2, <2>4, <2>5, <2>6 DEF Reported, RecoveredRows, CollectorId
<1>10. CASE Recovered(s)
  <2>1. /\ work'[s] = [Suspend(s, "report") EXCEPT !.outcome = "recovered"]
        /\ mem' = mem /\ work[s].step = "recover"
    BY <1>1, <1>10 DEF Recovered, EndRepair, SetWork
  <2>2. Concludes(s, "recovered")
    BY <1>1, <2>1 DEF Suspend, Locals, Concludes
  <2>3. RecoveredRows(s)
    BY <2>1 DEF AllReported, Reported
  <2>4. QED
    BY <2>2, <2>3 DEF Concludes, Reported, RecoveredRows, CollectorId
<1>11. CASE CollectThrows(s) \/ RepairThrows(s) \/ RunFails(s) \/ Settle(s)
  <2>1. work'[s] \in {Throw(s), Done(s), Blank}
    BY <1>1, <1>11 DEF CollectThrows, RepairThrows, RunFails, Settle, SetWork
  <2>2. QED
    BY <2>1, SteppedLocals DEF Reported, Blank
<1>12. QED
  BY <1>2, <1>3, <1>4, <1>5, <1>6, <1>7, <1>8, <1>9, <1>10, <1>11 DEF Step

LEMMA AllReportedIsInductive ==
    ASSUME IsInjective(CollectorOf)
    PROVE  TypeOK /\ OneRunPerTarget /\ FreshReads /\ AllReported /\ [Next]_vars => AllReported'
<1> SUFFICES ASSUME TypeOK, OneRunPerTarget, FreshReads, AllReported, [Next]_vars
             PROVE  AllReported'
  OBVIOUS
<1>1. ASSUME NEW t \in Targets, BeginRun(t) PROVE AllReported'
  <2>1. \A x \in Slots : work'[x] = work[x] \/ work'[x].step = "collect"
    BY <1>1 DEF BeginRun, SetWork, TypeOK, Blank
  <2>2. mem' = mem
    BY <1>1 DEF BeginRun
  <2>3. QED
    BY <2>1, <2>2 DEF AllReported, Reported, RecoveredRows, CollectorId
<1>2. ASSUME NEW s \in Slots, Step(s) PROVE AllReported'
  <2> DEFINE own == CollectorId(s)
  <2>1. MemEffect(s) /\ \A x \in Slots \ {s} : work'[x] = work[x]
    BY <1>2, StepEffects, OneSlotMoves DEF Effects
  <2>2. Busy(s) /\ own \in Collectors /\ mem \in PersistedState
    BY <1>2, CollectorIdType, StepIsBusy DEF TypeOK
  <2>3. \A c \in Collectors \ {own} : mem'.snapshots[c] = mem.snapshots[c]
    BY <2>1, <2>2 DEF MemEffect, saveLastKnownGood, saveContract, PersistedState
  <2>4. ASSUME NEW x \in Slots \ {s} PROVE Reported(x)'
    <3>1. CASE Busy(x)
      <4>1. CollectorId(x) \in Collectors \ {own}
        BY <2>2, <3>1, OneRunPerCollector, CollectorIdType
      <4>2. QED
        BY <2>1, <2>3, <4>1 DEF AllReported, Reported, RecoveredRows, CollectorId
    <3>2. CASE ~Busy(x)
      BY <2>1, <3>2 DEF Busy, Reported
    <3>3. QED
      BY <3>1, <3>2
  <2>5. QED
    BY <1>2, <2>4, StepReports DEF AllReported
<1>3. CASE Restart
  BY <1>3 DEF Restart, AllReported, Reported, Blank
<1>4. CASE UNCHANGED vars
  BY <1>4 DEF vars, AllReported, Reported, RecoveredRows, CollectorId
<1>5. QED
  BY <1>1, <1>2, <1>3, <1>4 DEF Next
-----------------------------------------------------------------------------
(* What the events of a site say while other sites are collected. *)

LEMMA VerdictType ==
    ASSUME TypeOK, NEW s \in Slots, work[s].step \in {"baseline", "reason"}
    PROVE  /\ Deterministic(s) \in Decision
           /\ \A llm \in Opinions \cup {NoOpinion} :
                 mergeReasoning(Deterministic(s), llm) \in Decision
<1>1. work[s].run \in Run
  BY AnswersAssumption DEF TypeOK, JudgedSteps, Steps, RepairSteps
<1> QED BY <1>1, DeterministicType, MergedType DEF Deterministic

\* A step of a run leaves the events as they are, or appends its own.
LEMMA StepEvents ==
    ASSUME TypeOK, NEW s \in Slots, Step(s)
    PROVE  \/ mem'.events = mem.events
           \/ \E decision \in Decision, published \in BOOLEAN :
                 appendEvent(s, decision, published)
<1>1. mem \in PersistedState
  BY DEF TypeOK
<1>2. ASSUME NEW decision \in Decision, ActOn(s, decision)
      PROVE  mem'.events = mem.events \/ appendEvent(s, decision, FALSE)
  <2>1. CASE Publish(s, decision)
    BY <1>1, <2>1 DEF Publish, Persist, saveLastKnownGood, PersistedState
  <2>2. CASE StartRepair(s, decision) \/ RepairInProgress(s, decision)
    BY <2>2 DEF StartRepair, RepairInProgress
  <2>3. CASE Withhold(s, decision)
    BY <2>3 DEF Withhold
  <2> QED BY <1>2, <2>1, <2>2, <2>3 DEF ActOn
<1>3. CASE Classify(s) \/ OpinionReturns(s)
  <2>1. \E decision \in Decision : ActOn(s, decision)
    BY <1>3, VerdictType DEF Classify, OpinionReturns
  <2> QED BY <1>2, <2>1
<1>4. CASE Learn(s)
  BY <1>1, <1>4 DEF Learn, Persist, saveContract, PersistedState
<1>5. CASE RecordPublished(s)
  BY <1>5 DEF RecordPublished, TypeOK, DecidedSteps
<1>6. CASE RecordRepair(s)
  BY <1>6 DEF RecordRepair, TypeOK, DecidedSteps
<1>7. CASE VerifyPasses(s)
  BY <1>1, <1>7 DEF VerifyPasses, Persist, saveLastKnownGood, PersistedState
<1>8. CASE mem' = mem
  BY <1>8
<1> QED BY <1>3, <1>4, <1>5, <1>6, <1>7, <1>8
  DEF Step, CollectReturns, CollectThrows, ReadBaseline, ConsultReasoner, HealStopsShort,
      HealReachesGate, RejectReturns, ApproveReturns, VerifyFails, Recovered, RepairThrows,
      RunFails, Settle

EventOf(s, decision, published) ==
    [collector |-> CollectorId(s),
     classification |-> decision.classification,
     state |-> stateFor(decision, published, work[s].outcome),
     verification |-> VerificationFor(work[s].outcome)]

\* The event a run appends is its collector's latest, and takes the latest of another collector
\* away only from a history that is full.
LEMMA AppendedEvent ==
    ASSUME TypeOK, NEW s \in Slots, Busy(s), NEW decision \in Decision,
           NEW published \in BOOLEAN, appendEvent(s, decision, published)
    PROVE  /\ LatestOf(mem'.events, CollectorId(s)) = EventOf(s, decision, published)
           /\ \A c : c # CollectorId(s) =>
                 \/ LatestOf(mem'.events, c) = LatestOf(mem.events, c)
                 \/ LatestOf(mem'.events, c) = NoEvent /\ Len(mem'.events) = MAX_EVENTS
           /\ Len(mem.events) = MAX_EVENTS => Len(mem'.events) = MAX_EVENTS
           /\ LatestOf(mem'.events, CollectorId(s)) # NoEvent
           /\ mem'.snapshots = mem.snapshots
<1> DEFINE event == EventOf(s, decision, published)
<1>1. work[s].outcome \in RepairStatus \cup {"none"}
  BY DEF TypeOK, Locals
<1>2. stateFor(decision, published, work[s].outcome) \in EventState
  BY <1>1 DEF stateFor, EventState, RepairStatus
<1>3. VerificationFor(work[s].outcome) \in VerificationStatus
  BY <1>1 DEF VerificationFor, VerificationStatus, RepairStatus
<1>4. event \in RepairEvent /\ event.collector = CollectorId(s)
  BY <1>2, <1>3, CollectorIdType DEF EventOf, RepairEvent, Decision
<1>5. mem.events \in Seq(RepairEvent)
  BY DEF TypeOK, PersistedState
<1>6. mem' = [mem EXCEPT !.events = Newest(Append(@, event))]
  BY DEF appendEvent, Persist, EventOf
<1> HIDE DEF event
<1>7. mem'.events = Newest(Append(mem.events, event)) /\ mem'.snapshots = mem.snapshots
  BY <1>6 DEF TypeOK, PersistedState
<1>8. event # NoEvent
  BY <1>4, NoEventAssumption
<1> QED BY <1>4, <1>5, <1>7, <1>8, AppendedIsLatest DEF event

\* What is shown of a target while another is collected.
Undisturbed(u) ==
    /\ u \in errors' <=> u \in errors
    /\ \/ LatestOf(mem'.events, CollectorOf[u]) = LatestOf(mem.events, CollectorOf[u])
       \/ LatestOf(mem'.events, CollectorOf[u]) = NoEvent /\ HistoryIsFull'
    /\ HistoryIsFull => HistoryIsFull'

LEMMA OthersAreUndisturbed ==
    ASSUME TypeOK, IsInjective(CollectorOf), NEW s \in Slots, Step(s),
           NEW u \in Targets, work[s].target # u
    PROVE  Undisturbed(u)
<1>1. Busy(s) /\ work[s].target \in Targets
  BY StepIsBusy DEF TypeOK
<1>2. CollectorOf[u] # CollectorId(s)
  BY <1>1, ActorsAssumption DEF CollectorId, IsInjective
<1>3. u \in errors' <=> u \in errors
  BY DEF Step, CollectReturns, CollectThrows, ReadBaseline, Classify, ConsultReasoner,
         OpinionReturns, ActOn, Publish, StartRepair, RepairInProgress, Withhold, Learn,
         RecordPublished, RecordRepair, HealStopsShort, HealReachesGate, RejectReturns,
         ApproveReturns, VerifyFails, VerifyPasses, Recovered, RepairThrows, RunFails, Settle
<1>4. CASE mem'.events = mem.events
  BY <1>3, <1>4 DEF Undisturbed, HistoryIsFull
<1>5. ASSUME NEW decision \in Decision, NEW published \in BOOLEAN,
             appendEvent(s, decision, published)
      PROVE  Undisturbed(u)
  BY <1>1, <1>2, <1>3, <1>5, AppendedEvent DEF Undisturbed, HistoryIsFull
<1> QED BY <1>4, <1>5, StepEvents
-----------------------------------------------------------------------------
(* The theorems. *)

\* The inductive invariant: the types, and the validity of what is published and learned from.
Typed == TypeOK /\ PublishesValidRuns

THEOREM TypedAlways == Spec => []Typed
<1>1. Init => Typed
  BY InitType DEF Typed, PublishesValidRuns, Init, Blank
<1>2. Typed /\ [Next]_vars => Typed'
  BY NextType, PublishesValidRunsIsInductive DEF Typed
<1>3. QED
  BY <1>1, <1>2, PTL DEF Spec

\* The state of the server, the runs in flight, the store and the locks keep their types through
\* every interleaving, crash and failed write.
THEOREM TypeCorrect == Spec => []TypeOK
<1>1. Typed => TypeOK
  BY DEF Typed
<1>2. QED
  BY <1>1, TypedAlways, PTL

\* However many runs are in flight, no target ever has two, and a target counts as running
\* exactly while its run has not settled (server.ts beginRun).
THEOREM OneRunPerTargetAlways == Spec => []OneRunPerTarget
<1>1. Init => OneRunPerTarget
  BY DEF Init, OneRunPerTarget, Busy, Blank
<1>2. TypeOK /\ OneRunPerTarget /\ [Next]_vars => OneRunPerTarget'
  BY OneRunPerTargetIsInductive
<1>3. QED
  BY <1>1, <1>2, TypeCorrect, PTL DEF Spec

\* The repair lock of a collector is held exactly by the run that is repairing it: two repairs
\* of one collector never overlap, and no way out of healAndVerify leaks the lock.
THEOREM LockMatchesRepairAlways == Spec => []LockMatchesRepair
<1>1. Init => LockMatchesRepair
  BY ActorsAssumption DEF Init, LockMatchesRepair, RepairSteps, Blank
<1>2. TypeOK /\ LockMatchesRepair /\ [Next]_vars => LockMatchesRepair'
  BY LockMatchesRepairIsInductive
<1>3. QED
  BY <1>1, <1>2, TypeCorrect, PTL DEF Spec

\* A repair is only ever spent on a page that loaded and no longer matches its extraction, for
\* any run, any contract and baseline, and whatever Gemini answers.
THEOREM HealsOnlyBreaksAlways == Spec => []HealsOnlyBreaks
<1>1. Init => HealsOnlyBreaks
  BY DEF Init, HealsOnlyBreaks, RepairSteps, Blank
<1>2. TypeOK /\ HealsOnlyBreaks /\ [Next]_vars => HealsOnlyBreaks'
  BY HealsOnlyBreaksIsInductive
<1>3. QED
  BY <1>1, <1>2, TypeCorrect, PTL DEF Spec

\* A site is never held to a contract without the verified rows that justify it, whatever the
\* interleaving, wherever the process dies and whichever writes fail.
THEOREM ContractHasEvidenceAlways == Spec => []ContractHasEvidence
<1>1. Init => Evidence
  BY DEF Init, Empty, Evidence, ContractHasEvidence, Blank
<1>2. TypeOK /\ Evidence /\ [Next]_vars => Evidence'
  BY EvidenceIsInductive
<1>3. Evidence => ContractHasEvidence
  BY DEF Evidence
<1>4. QED
  BY <1>1, <1>2, <1>3, TypeCorrect, PTL DEF Spec

\* With a collector of its own for each target, a run always acts on the contract and the
\* baseline the store still holds, however long its awaits.
THEOREM FreshReadsAlways ==
    ASSUME IsInjective(CollectorOf)
    PROVE  Spec => []FreshReads
<1>1. Init => FreshReads
  BY DEF Init, FreshReads, Blank, HoldsContract, HoldsBaseline, RepairSteps
<1>2. TypeOK /\ OneRunPerTarget /\ FreshReads /\ [Next]_vars => FreshReads'
  BY FreshReadsIsInductive
<1>3. QED
  BY <1>1, <1>2, TypeCorrect, OneRunPerTargetAlways, PTL DEF Spec

\* A site's contract, once in the file, is kept for good, through later runs, repairs, crashes
\* and failed writes, when each target has its own collector; memory only ever forgets one that
\* could not be written.
THEOREM ContractStaysLearned ==
    ASSUME IsInjective(CollectorOf)
    PROVE  Spec => ContractIsStable
<1> DEFINE Stable ==
      \A c \in Collectors :
          /\ disk.contracts[c] # NoContract => disk'.contracts[c] = disk.contracts[c]
          /\ mem.contracts[c] # NoContract =>
                mem'.contracts[c] \in {mem.contracts[c], disk.contracts[c]}
<1>1. Init => FileFollows
  BY DEF Init, FileFollows
<1>2. TypeOK /\ FreshReads /\ FileFollows /\ [Next]_vars => FileFollows'
  BY FileFollowsIsInductive
<1>3. TypeOK /\ FreshReads /\ FileFollows /\ [Next]_vars => [Stable]_vars
  <2> SUFFICES ASSUME TypeOK, FreshReads, FileFollows, Next PROVE Stable
    BY DEF vars
  <2>1. ASSUME NEW s \in Slots, Step(s) PROVE Stable
    <3>1. DiskEffect
      BY <2>1, StepEffects DEF Effects
    <3>2. \A c \in Collectors :
             mem.contracts[c] # NoContract => mem'.contracts[c] = mem.contracts[c]
      BY <2>1, StepKeepsContracts
    <3>3. QED
      BY <3>1, <3>2 DEF DiskEffect, FileFollows
  <2>2. QED
    BY <2>1 DEF Next, BeginRun, Restart
<1>4. Spec => [][Stable]_vars
  BY <1>1, <1>2, <1>3, TypeCorrect, FreshReadsAlways, PTL DEF Spec
<1>5. QED
  BY <1>4 DEF ContractIsStable

\* If pages are regular (one type per field, identities that differ beyond case) and targets do
\* not share a collector, then the rows a site has published satisfy the contract it is held to,
\* in memory and on disk, through every interleaving, repair, crash and failed write.
THEOREM SnapshotSatisfiesContractAlways ==
    ASSUME IsInjective(CollectorOf), \A run \in RunResults : Regular(run.records)
    PROVE  Spec => []SnapshotSatisfiesContract
<1>1. Init => Contracted
  BY DEF Init, Empty, Contracted, SnapshotSatisfiesContract, Blank
<1>2. RegularResults
  BY DEF RegularResults
<1>3. /\ TypeOK /\ PublishesValidRuns /\ OneRunPerTarget /\ FreshReads
      /\ Contracted /\ [Next]_vars
      => Contracted'
  BY <1>2, ContractedIsInductive
<1>4. Typed => TypeOK /\ PublishesValidRuns
  BY DEF Typed
<1>5. Contracted => SnapshotSatisfiesContract
  BY DEF Contracted
<1>6. QED
  BY <1>1, <1>3, <1>4, <1>5, TypedAlways, OneRunPerTargetAlways, FreshReadsAlways, PTL DEF Spec

\* With distinct collectors, what a run is about to record is what the store holds, whatever other
\* runs did during its awaits: a healthy run's rows, a recovery's rows that satisfy the contract
\* and overlap the baseline, and after a repair that failed the old rows.
THEOREM ReportedDataIsStoredAlways ==
    ASSUME IsInjective(CollectorOf)
    PROVE  Spec => []ReportedDataIsStored
<1>1. Init => AllReported
  BY DEF Init, AllReported, Reported, Blank
<1>2. TypeOK /\ OneRunPerTarget /\ FreshReads /\ AllReported /\ [Next]_vars => AllReported'
  BY AllReportedIsInductive
<1>3. AllReported => ReportedDataIsStored
  BY DEF AllReported, Reported, RecoveredRows, ReportedDataIsStored
<1>4. QED
  BY <1>1, <1>2, <1>3, TypeCorrect, OneRunPerTargetAlways, FreshReadsAlways, PTL DEF Spec

\* For targets with distinct collectors, all that runs, repairs, opinions, failed writes and
\* crashes do to the verified rows and the contracts is what VerifiedData allows: a refinement,
\* under the mapping that forgets runs, locks and events (process-run.ts, heal-and-verify.ts,
\* json-file-repository.ts).
THEOREM PipelineKeepsVerifiedData ==
    ASSUME IsInjective(CollectorOf)
    PROVE  Spec => KeepsVerifiedData
<1>1. Init => Verified!Init /\ PublishedIsStored
  BY DEF Init, Empty, Data, Verified!Init, Verified!Nothing, PublishedIsStored, Blank
<1>2. TypeOK /\ OneRunPerTarget /\ PublishedIsStored /\ [Next]_vars => PublishedIsStored'
  BY PublishedIsStoredIsInductive
<1>3. /\ TypeOK /\ PublishesValidRuns /\ FreshReads /\ PublishedIsStored /\ [Next]_vars
      => [Verified!Next]_<<Data(mem), Data(disk)>>
  <2> SUFFICES ASSUME TypeOK, PublishesValidRuns, FreshReads, PublishedIsStored, [Next]_vars
               PROVE  [Verified!Next]_<<Data(mem), Data(disk)>>
    OBVIOUS
  <2>1. CASE \E s \in Slots : Step(s)
    BY <2>1, StepIsVerified DEF VerifiedAdvances, Verified!Next
  <2>2. CASE Restart
    <3>1. Data(mem)' = Data(disk) /\ UNCHANGED Data(disk)
      BY <2>2 DEF Restart, Data
    <3>2. QED
      BY <3>1 DEF Verified!Next, Verified!Reload
  <2>3. CASE (\E t \in Targets : BeginRun(t)) \/ UNCHANGED vars
    BY <2>3 DEF BeginRun, vars, Data
  <2>4. QED
    BY <2>1, <2>2, <2>3 DEF Next
<1>4. Typed => TypeOK /\ PublishesValidRuns
  BY DEF Typed
<1>5. QED
  BY <1>1, <1>2, <1>3, <1>4, TypedAlways, OneRunPerTargetAlways, FreshReadsAlways, PTL
  DEF Spec, KeepsVerifiedData, Verified!Spec

\* If no page has two rows with the same data, no publication by a run or by a repair loses more
\* than half of the verified rows, however runs, repairs, failed writes and crashes interleave
\* (classifyRun's shrink guard, baselineOverlap).
THEOREM NeverLosesHalfAlways ==
    ASSUME IsInjective(CollectorOf), NoRowTwice
    PROVE  Spec => NeverLosesHalf
<1> DEFINE KeepsHalfOfAll ==
      \/ Restart
      \/ \A c \in Collectors :
            /\ mem.snapshots[c] # NoBaseline
            /\ mem'.snapshots[c] # NoBaseline
            => 2 * Len(mem'.snapshots[c]) >= Len(mem.snapshots[c])
<1>1. Init => RowsAreNamed /\ PublishedIsStored
  BY DEF Init, Empty, RowsAreNamed, NamesItsRows, ContractFor, BOOTSTRAP_CONTRACT,
         PublishedIsStored, Blank
<1>2. TypeOK /\ OneRunPerTarget /\ PublishedIsStored /\ [Next]_vars => PublishedIsStored'
  BY PublishedIsStoredIsInductive
<1>3. /\ TypeOK /\ PublishesValidRuns /\ FreshReads /\ PublishedIsStored /\ RowsAreNamed
      /\ [Next]_vars
      => RowsAreNamed' /\ [KeepsHalfOfAll]_vars
  <2> SUFFICES ASSUME TypeOK, PublishesValidRuns, FreshReads, PublishedIsStored, RowsAreNamed,
                      [Next]_vars
               PROVE  RowsAreNamed' /\ [KeepsHalfOfAll]_vars
    OBVIOUS
  <2>1. CASE \E s \in Slots : Step(s)
    <3>1. VerifiedAdvances
      BY <2>1, StepIsVerified
    <3> QED BY <3>1, AdvanceKeepsNames, AdvanceKeepsHalf
  <2>2. CASE Restart
    BY <2>2 DEF Restart, RowsAreNamed, NamesItsRows
  <2>3. CASE (\E t \in Targets : BeginRun(t)) \/ UNCHANGED vars
    <3>1. mem' = mem /\ disk' = disk
      BY <2>3 DEF BeginRun, vars
    <3>2. \A c \in Collectors : mem.snapshots[c] # NoBaseline =>
             Len(mem.snapshots[c]) \in Nat
      BY LenProperties DEF TypeOK, PersistedState
    <3> QED BY <3>1, <3>2 DEF RowsAreNamed, NamesItsRows
  <2> QED BY <2>1, <2>2, <2>3 DEF Next
<1>4. Typed => TypeOK /\ PublishesValidRuns
  BY DEF Typed
<1>5. Spec => [][KeepsHalfOfAll]_vars
  BY <1>1, <1>2, <1>3, <1>4, TypedAlways, OneRunPerTargetAlways, FreshReadsAlways, PTL DEF Spec
<1> QED BY <1>5 DEF NeverLosesHalf
=============================================================================
