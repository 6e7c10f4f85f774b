------------------------------- MODULE Activity -------------------------------
(***************************************************************************)
(* The live progress of each target (infrastructure/persistence/           *)
(* activity-log.ts, domain/progress/pipeline-step.ts): the steps a run     *)
(* reports while it goes through CollectionPipeline, which is all that an  *)
(* operator sees of it before its event.  The log is kept in memory, and   *)
(* each run starts its target's afresh.                                    *)
(***************************************************************************)
EXTENDS CollectionPipeline

CONSTANT MAX_STEPS    \* 40 in the code

ASSUME MaxStepsAssumption == MAX_STEPS \in Nat \ {0}

VARIABLE steps

activityVars == <<vars, steps>>

PipelineStage == {"collect", "read_output", "check_contract", "classify", "learn_contract",
                  "publish", "heal", "review_fix", "apply_fix", "verify"}
StepStatus == {"started", "done", "failed", "skipped"}
PipelineStep == [stage : PipelineStage, status : StepStatus]

At(stage, status) == [stage |-> stage, status |-> status]

DoneIf(condition) == IF condition THEN "done" ELSE "failed"

ActivityInit == Init /\ steps = [t \in Targets |-> <<>>]
-----------------------------------------------------------------------------
(* The log. *)

Recent(entries) ==
    SubSeq(entries, IF Len(entries) > MAX_STEPS THEN Len(entries) - MAX_STEPS + 1 ELSE 1,
           Len(entries))

record(s, entries) == steps' = [steps EXCEPT ![work[s].target] = Recent(@ \o entries)]

\* Mutant: the steps of earlier runs are kept.
beginAgain(t) == steps' = [steps EXCEPT ![t] = Recent(Append(@, At("collect", "started")))]

begin(t) == steps' = [steps EXCEPT ![t] = <<At("collect", "started")>>]

(* What each stretch of a run reports. *)

CollectReport(run) ==
    <<At("collect", DoneIf(run.status = "succeeded")),
      At("read_output", DoneIf(run.status = "succeeded"))>>

VerdictReport(s, decision) ==
    IF Publishable(s, decision) THEN <<At("classify", "done")>>
    ELSE <<At("classify", "done"), At("publish", "skipped")>>
         \o IF MayHeal(decision)
            THEN <<At("heal", IF locks[CollectorId(s)] = NoOwner THEN "started" ELSE "skipped")>>
            ELSE <<>>

PublishReport(s) ==
    <<At("learn_contract", IF work[s].step = "learn" THEN "done" ELSE "skipped"),
      At("publish", "done")>>

ReviewReport(approved) ==
    <<At("heal", "done"), At("review_fix", "started"), At("review_fix", DoneIf(approved))>>

\* Mutant: a heal that stops short is not reported.
StopReportMissing(s) == <<>>

StopReport(s) == <<At("heal", "failed")>>

Judges(s) ==
    \/ /\ Classify(s)
       /\ record(s, VerdictReport(s, Deterministic(s)))
    \/ /\ OpinionReturns(s)
       /\ \E llm \in Opinions \cup {NoOpinion} :
             \E decision \in {mergeReasoning(Deterministic(s), llm)} :
                ActOn(s, decision) /\ record(s, VerdictReport(s, decision))

Reports(s) ==
    \/ CollectReturns(s) /\ record(s, CollectReport(work'[s].run))
    \/ ReadBaseline(s) /\ record(s, <<At("check_contract", DoneIf(EvaluationOf(s).valid))>>)
    \/ Judges(s)
    \/ RecordPublished(s) /\ record(s, PublishReport(s))
    \/ HealStopsShort(s) /\ record(s, StopReport(s))
    \/ HealReachesGate(s) /\ record(s, ReviewReport(work'[s].step = "approve"))
    \/ ApproveReturns(s) /\ record(s, <<At("apply_fix", "done"), At("verify", "started")>>)
    \/ VerifyFails(s) /\ record(s, <<At("verify", "failed")>>)
    \/ Recovered(s) /\ record(s, <<At("verify", "done")>>)
    \/ RunFails(s) /\ record(s, <<At("collect", "failed")>>)

ReportsNothing(s) ==
    /\ \/ CollectThrows(s) \/ ConsultReasoner(s) \/ Learn(s) \/ RecordRepair(s)
       \/ RejectReturns(s) \/ VerifyPasses(s) \/ RepairThrows(s) \/ Settle(s)
    /\ UNCHANGED steps

ActivityNext ==
    \/ \E t \in Targets : BeginRun(t) /\ begin(t)
    \/ \E s \in Slots : Reports(s) \/ ReportsNothing(s)
    \/ Restart /\ steps' = [t \in Targets |-> <<>>]

ActivitySpec == ActivityInit /\ [][ActivityNext]_activityVars
-----------------------------------------------------------------------------
(* Properties. *)

Entries(t) == {steps[t][i] : i \in DOMAIN steps[t]}

\* A target that is not being collected and whose last run ended without an error.
Concluded(t) == t \notin active /\ t \notin errors /\ steps[t] # <<>>

\* "Data was published" and "data was not published" never look alike: the steps on display after
\* a run say published, or recovered, exactly when the event on record says so, whatever earlier
\* runs of the target have shown; and only runs of other sites ever take that event away.
StepsAgreeWithEvent ==
    \A t \in Targets :
        Concluded(t) =>
            LET event == latestEvent(CollectorOf[t])
            IN  IF event = NoEvent THEN HistoryIsFull
                ELSE /\ At("publish", "done") \in Entries(t) <=> event.state = "healthy"
                     /\ At("verify", "done") \in Entries(t) <=> event.state = "recovered"

\* Nothing that is over looks as if it were under way: after a run every stage it has started has
\* an outcome, or the run is shown as failed.
EveryStartIsConcluded ==
    \A t \in Targets :
        t \notin active /\ steps[t] # <<>> =>
            \/ steps[t][Len(steps[t])] = At("collect", "failed")
            \/ \A i \in DOMAIN steps[t] :
                  steps[t][i].status = "started" =>
                      \E j \in i + 1 .. Len(steps[t]) :
                          /\ steps[t][j].stage = steps[t][i].stage
                          /\ steps[t][j].status \in {"done", "failed"}
=============================================================================
