------------------------ MODULE Compositions_proofs -------------------------
(***************************************************************************)
(* What is proved of the two modules that put CollectionPipeline in its    *)
(* surroundings, for any number of targets and of slots.                   *)
(*                                                                         *)
(* SelfHealing fills in the site and the collectors: a collector changed   *)
(* without a verified fix shows, after a restart as before.                *)
(* Activity and Dashboard fill in what an operator sees: the steps a       *)
(* target shows say how its run went, none that is over looks as if it     *)
(* were under way, and the page built from them does not contradict        *)
(* itself.  Each is a behaviour of the pipeline, so that whatever          *)
(* CollectionPipeline_proofs shows holds of it as well.                    *)
(***************************************************************************)
EXTENDS SelfHealing, Dashboard, CollectionPipeline_proofs

(* The closed loop. *)

LEMMA RunStepIsStep ==
    ASSUME NEW s \in Slots, RunStep(s)
    PROVE  Step(s)
BY DEF RunStep, Collects, CollectFaults, Computes, ProposesFix, StopsShort, FixRejected,
       FixApproved, RepairBreaks, Verifies, RefusesFix, Records, Step

\* The demo site, the scrapers and the fixes only narrow what commands answer: every behaviour of
\* the closed loop is one of the pipeline (server.ts, process-run.ts, heal-and-verify.ts).
THEOREM ClosedLoopRunsThePipeline == HealingSpec => Spec
<1>1. HealingInit => Init
  BY DEF HealingInit
<1>2. [HealingNext]_allVars => [Next]_vars
  <2> SUFFICES ASSUME [HealingNext]_allVars PROVE [Next]_vars
    OBVIOUS
  <2>1. CASE \E t \in Targets : StartRun(t)
    BY <2>1 DEF StartRun, Next
  <2>2. CASE \E s \in Slots : RunStep(s)
    BY <2>2, RunStepIsStep DEF Next
  <2>3. CASE ProcessRestarts
    BY <2>3 DEF ProcessRestarts, Next
  <2>4. CASE SiteChanges \/ UNCHANGED allVars
    BY <2>4 DEF SiteChanges, allVars
  <2>5. QED
    BY <2>1, <2>2, <2>3, <2>4 DEF HealingNext
<1>3. QED
  BY <1>1, <1>2, PTL DEF HealingSpec, Spec

\* However the site breaks and whichever fixes are proposed, the closed loop never repairs a page
\* that merely could not be reached, and with distinct collectors changes the verified rows only
\* as VerifiedData allows.
THEOREM ClosedLoopIsSafe ==
    ASSUME IsInjective(CollectorOf)
    PROVE  HealingSpec => []HealsOnlyBreaks /\ KeepsVerifiedData
<1>1. Spec => []HealsOnlyBreaks
  BY HealsOnlyBreaksAlways
<1>2. Spec => KeepsVerifiedData
  BY PipelineKeepsVerifiedData
<1>3. QED
  BY <1>1, <1>2, ClosedLoopRunsThePipeline
-----------------------------------------------------------------------------
(* What is shown of a collector that was changed and not run since. *)

\* What a history shows of a collector, unless the events of others have filled it.
Tells(events, c) ==
    LET event == LatestOf(events, c)
    IN  IF event = NoEvent THEN Len(events) = MAX_EVENTS ELSE event.verification = "failed"

IsShown(t) == t \in errors \/ Tells(mem.events, CollectorOf[t])

\* How far a run comes without running the collector it has changed, or finds changed.
BeforeRunning(s) ==
    \/ work[s].step \in {"collect", "verify", "failed"}
    \/ work[s].step = "report" /\ work[s].outcome = "manual_review"
    \/ work[s].step = "settled" /\ IsShown(work[s].target)

\* A failed verification that was written is in the file, which is what a restart is left with.
IsRecorded(t) == Tells(mem.events, CollectorOf[t]) /\ Tells(disk.events, CollectorOf[t])

\* The inductive invariant: UnverifiedChangeIsShown, and the runs and writes that lead there.
ChangesAreShown ==
    \A t \in Targets : CollectorOf[t] \in unverified =>
        /\ t \notin active => IsShown(t)
        /\ CollectorOf[t] \notin unrecorded => IsRecorded(t)
        /\ \A s \in Slots : Busy(s) /\ work[s].target = t => BeforeRunning(s)

LEMMA ShownStays ==
    ASSUME NEW u, Undisturbed(u)
    PROVE  /\ Tells(mem.events, CollectorOf[u]) => Tells(mem'.events, CollectorOf[u])
           /\ IsShown(u) => IsShown(u)'
BY DEF Undisturbed, IsShown, Tells, HistoryIsFull

\* The event of a repair that did not recover says so in memory, and in the file once the write
\* is through.
LEMMA RefusalIsTold ==
    ASSUME TypeOK, NEW s \in Slots, RecordRepair(s), work[s].outcome = "manual_review"
    PROVE  /\ work'[s] \in {Done(s), Throw(s)}
           /\ Tells(mem'.events, CollectorId(s))
           /\ disk' = disk \/ disk' = mem'
           /\ work'[s].step # "failed" => disk' = mem'
<1>1. /\ work[s].decision \in Decision /\ Busy(s)
      /\ appendEvent(s, work[s].decision, FALSE)
  BY DEF RecordRepair, TypeOK, DecidedSteps, Busy
<1>2. /\ LatestOf(mem'.events, CollectorId(s)) # NoEvent
      /\ LatestOf(mem'.events, CollectorId(s)) = EventOf(s, work[s].decision, FALSE)
  BY <1>1, AppendedEvent
<1>3. EventOf(s, work[s].decision, FALSE).verification = "failed"
  BY DEF EventOf, VerificationFor
<1>4. Tells(mem'.events, CollectorId(s))
  BY <1>2, <1>3 DEF Tells
<1>5. \/ disk' = mem' /\ work'[s] = Done(s)
      \/ disk' = disk /\ work'[s] = Throw(s)
  BY <1>1 DEF appendEvent, Persist, SetWork, TypeOK
<1>6. Throw(s).step = "failed"
  BY DEF Throw, Blank
<1> QED BY <1>4, <1>5, <1>6

\* A run that runs the collector, or has run it, leaves nothing unverified; one that has not
\* ends with an error or with an event of a failed verification.
LEMMA OwnChangeIsShown ==
    ASSUME TypeOK, ChangesAreShown, NEW s \in Slots, RunStep(s),
           NEW own, own = work[s].target, CollectorOf[own] \in unverified'
    PROVE  \/ BeforeRunning(s)' /\ work'[s].target = own
           \/ work'[s] = Blank /\ IsShown(own)'
<1>1. /\ Step(s) /\ Busy(s) /\ own \in Targets /\ work[s] \in Locals
      /\ work \in [Slots -> Locals] /\ CollectorId(s) = CollectorOf[own]
  BY RunStepIsStep, StepIsBusy DEF TypeOK, CollectorId
<1>2. CollectorOf[own] \in unverified => BeforeRunning(s)
  BY <1>1 DEF ChangesAreShown
<1>3. CASE Collects(s) \/ Verifies(s)
  BY <1>1, <1>3 DEF Collects, Verifies, Runs
<1>4. CASE CollectFaults(s) \/ RepairBreaks(s)
  <2>1. work'[s] = Throw(s)
    BY <1>1, <1>4 DEF CollectFaults, RepairBreaks, CollectThrows, RepairThrows, SetWork
  <2> QED BY <2>1, SteppedLocals DEF BeforeRunning
<1>5. CASE FixApproved(s)
  <2>1. work'[s] = Suspend(s, "verify")
    BY <1>1, <1>5 DEF FixApproved, ApproveReturns, SetWork
  <2> QED BY <2>1, SteppedLocals DEF BeforeRunning
<1>6. CASE RefusesFix(s)
  <2>1. work'[s] = [Suspend(s, "report") EXCEPT !.outcome = "manual_review"]
    BY <1>1, <1>6 DEF RefusesFix, VerifyFails, EndRepair, SetWork
  <2>2. /\ work'[s].step = "report" /\ work'[s].outcome = "manual_review"
        /\ work'[s].target = work[s].target
    BY <1>1, <2>1 DEF Suspend, Locals
  <2> QED BY <2>2 DEF BeforeRunning
<1>7. CASE ProposesFix(s) \/ StopsShort(s) \/ FixRejected(s)
  <2>1. work[s].step \in {"heal", "reject"} /\ unverified' = unverified
    BY <1>7 DEF ProposesFix, StopsShort, FixRejected, HealReachesGate, HealStopsShort,
                RejectReturns
  <2> QED BY <1>2, <2>1 DEF BeforeRunning
<1>8. CASE Computes(s)
  <2>1. BeforeRunning(s)
    BY <1>2, <1>8 DEF Computes
  <2>2. CASE ReadBaseline(s) \/ Classify(s) \/ Learn(s) \/ RecordPublished(s) \/ Recovered(s)
    BY <2>1, <2>2 DEF BeforeRunning, ReadBaseline, Classify, Learn, RecordPublished, Recovered
  <2>4. CASE RunFails(s)
    <3>1. work'[s] = Done(s) /\ own \in errors'
      BY <1>1, <2>4 DEF RunFails, SetWork
    <3>2. work'[s].step = "settled" /\ work'[s].target = own
      BY <3>1, SteppedLocals
    <3> QED BY <3>1, <3>2 DEF BeforeRunning, IsShown
  <2>5. CASE Settle(s)
    <3>1. work'[s] = Blank /\ mem' = mem /\ errors' = errors /\ work[s].step = "settled"
      BY <1>1, <2>5 DEF Settle, SetWork
    <3>2. IsShown(own)
      BY <2>1, <3>1 DEF BeforeRunning
    <3> QED BY <3>1, <3>2 DEF IsShown
  <2> QED BY <1>8, <2>2, <2>4, <2>5 DEF Computes
<1>9. CASE Records(s)
  <2>1. RecordRepair(s) /\ work[s].outcome = "manual_review"
    BY <1>2, <1>9 DEF Records, RecordRepair, BeforeRunning
  <2>2. work'[s] \in {Done(s), Throw(s)} /\ IsShown(own)'
    BY <1>1, <2>1, RefusalIsTold DEF IsShown
  <2>3. work'[s].step \in {"settled", "failed"} /\ work'[s].target = own
    BY <2>2, SteppedLocals
  <2> QED BY <2>2, <2>3 DEF BeforeRunning
<1> QED BY <1>3, <1>4, <1>5, <1>6, <1>7, <1>8, <1>9 DEF RunStep

\* Only the event of a failed verification takes a change off those that are not recorded, and it
\* is then in the file.
LEMMA OwnChangeIsRecorded ==
    ASSUME TypeOK, ChangesAreShown, NEW s \in Slots, RunStep(s),
           NEW own, own = work[s].target, CollectorOf[own] \in unverified' \ unrecorded'
    PROVE  IsRecorded(own)'
<1>1. /\ Step(s) /\ Busy(s) /\ own \in Targets /\ CollectorId(s) = CollectorOf[own]
  BY RunStepIsStep, StepIsBusy DEF TypeOK, CollectorId
<1>2. CASE Records(s)
  <2>1. RecordRepair(s) /\ work[s].outcome = "manual_review" /\ CollectorOf[own] \in unverified
    BY <1>1, <1>2 DEF Records, RecordRepair, BeforeRunning, ChangesAreShown
  <2>2. CollectorOf[own] \notin unrecorded => IsRecorded(own)
    BY <1>1, <2>1 DEF ChangesAreShown
  <2>3. CASE work'[s].step = "failed"
    <3>1. CollectorOf[own] \notin unrecorded
      BY <1>2, <2>3 DEF Records, RunThrew
    <3> QED BY <1>1, <2>1, <2>2, <3>1, RefusalIsTold DEF IsRecorded
  <2> QED BY <1>1, <2>1, <2>3, RefusalIsTold DEF IsRecorded
<1>3. CASE ~Records(s)
  <2>1. CollectorOf[own] \in unverified \ unrecorded
    BY <1>1, <1>3 DEF RunStep, Collects, Runs, CollectFaults, Computes, ProposesFix, StopsShort,
          FixRejected, FixApproved, Commits, RepairBreaks, Verifies, RefusesFix
  <2>2. BeforeRunning(s) /\ IsRecorded(own)
    BY <1>1, <2>1 DEF ChangesAreShown
  <2>3. ~Collects(s) /\ ~Verifies(s)
    BY <1>1 DEF Collects, Verifies, Runs
  <2>4. mem' = mem /\ disk' = disk
    BY <1>3, <2>2, <2>3
    DEF BeforeRunning, RunStep, CollectFaults, CollectThrows, Computes, ReadBaseline, Classify,
        Learn, RecordPublished, Recovered, EndRepair, RunFails, Settle, ProposesFix,
        HealReachesGate, StopsShort, HealStopsShort, FixRejected, RejectReturns, FixApproved,
        ApproveReturns, RepairBreaks, RepairThrows, RefusesFix, VerifyFails
  <2> QED BY <2>2, <2>4 DEF IsRecorded
<1> QED BY <1>2, <1>3

LEMMA ChangesAreShownIsInductive ==
    ASSUME IsInjective(CollectorOf)
    PROVE  TypeOK /\ OneRunPerTarget /\ ChangesAreShown /\ [HealingNext]_allVars
           => ChangesAreShown'
<1> SUFFICES ASSUME TypeOK, OneRunPerTarget, ChangesAreShown, [HealingNext]_allVars
             PROVE  ChangesAreShown'
  OBVIOUS
<1>1. ASSUME NEW t \in Targets, StartRun(t)
      PROVE  ChangesAreShown'
  <2>1. /\ active' = active \cup {t} /\ errors' = errors \ {t} /\ mem' = mem
        /\ disk' = disk /\ unverified' = unverified /\ unrecorded' = unrecorded /\ BeginRun(t)
    BY <1>1 DEF StartRun, BeginRun, external
  <2>2. \A x \in Slots : work'[x] = work[x] \/ work'[x].step = "collect"
    BY <2>1 DEF BeginRun, SetWork, TypeOK, Blank
  <2>3. \A x \in Slots : Busy(x) => work[x].target # t
    BY <2>1 DEF BeginRun, OneRunPerTarget
  <2>4. \A u \in Targets \ {t} : IsShown(u)' <=> IsShown(u)
    BY <2>1 DEF IsShown
  <2>5. ASSUME NEW u \in Targets, CollectorOf[u] \in unverified', NEW x \in Slots,
               Busy(x)', work'[x].target = u
        PROVE  BeforeRunning(x)'
    <3>1. CASE work'[x].step = "collect"
      BY <3>1 DEF BeforeRunning
    <3>2. CASE work'[x] = work[x]
      <4>1. Busy(x) /\ work[x].target = u /\ u # t
        BY <2>3, <2>5, <3>2 DEF Busy
      <4>2. BeforeRunning(x)
        BY <2>1, <2>5, <4>1 DEF ChangesAreShown
      <4> QED BY <2>4, <3>2, <4>1, <4>2 DEF BeforeRunning
    <3> QED BY <2>2, <3>1, <3>2
  <2>6. \A u \in Targets : CollectorOf[u] \in unverified' /\ u \notin active' => IsShown(u)'
    BY <2>1, <2>4 DEF ChangesAreShown
  <2>7. \A u \in Targets : CollectorOf[u] \in unverified' \ unrecorded' => IsRecorded(u)'
    BY <2>1 DEF ChangesAreShown, IsRecorded
  <2> QED BY <2>5, <2>6, <2>7 DEF ChangesAreShown
<1>2. ASSUME NEW s \in Slots, RunStep(s)
      PROVE  ChangesAreShown'
  <2>0. PICK own : own = work[s].target
    OBVIOUS
  <2>1. /\ Step(s) /\ Busy(s) /\ own \in Targets
        /\ \A x \in Slots \ {s} : work'[x] = work[x]
    BY <1>2, <2>0, RunStepIsStep, StepIsBusy, OneSlotMoves DEF TypeOK
  <2>2. \A x \in Slots \ {s} : Busy(x) => work[x].target # own
    BY <2>0, <2>1 DEF OneRunPerTarget
  <2>3. /\ own \in active
        /\ \/ active' = active /\ work'[s].step # "idle" /\ work'[s].target = own
           \/ active' = active \ {own} /\ work'[s] = Blank
    BY <2>0, <2>1, StepEffect DEF Continues, Ends, OneRunPerTarget
  <2>4. ASSUME NEW u \in Targets \ {own}, CollectorOf[u] \in unverified'
        PROVE  /\ u \notin active' => IsShown(u)'
               /\ CollectorOf[u] \notin unrecorded' => IsRecorded(u)'
               /\ \A x \in Slots : Busy(x)' /\ work'[x].target = u => BeforeRunning(x)'
    <3>1. CollectorOf[u] # CollectorId(s)
      BY <2>0, <2>1, ActorsAssumption DEF CollectorId, IsInjective
    <3>2. /\ CollectorOf[u] \in unverified
          /\ CollectorOf[u] \notin unrecorded' => CollectorOf[u] \notin unrecorded
      BY <1>2, <2>4, <3>1
      DEF RunStep, Collects, Runs, CollectFaults, Computes, Records, ProposesFix, StopsShort,
          FixRejected, FixApproved, Commits, RepairBreaks, Verifies, RefusesFix
    <3>3. IsShown(u) => IsShown(u)'
      BY <2>0, <2>1, OthersAreUndisturbed, ShownStays
    <3>4. u \notin active' => IsShown(u)'
      BY <2>3, <3>2, <3>3 DEF ChangesAreShown
    <3>5. ASSUME NEW x \in Slots, Busy(x)', work'[x].target = u PROVE BeforeRunning(x)'
      <4>1. x # s
        BY <2>3, <3>5 DEF Busy, Blank
      <4>2. work'[x] = work[x] /\ Busy(x)
        BY <2>1, <3>5, <4>1 DEF Busy
      <4>3. BeforeRunning(x)
        BY <3>2, <3>5, <4>2 DEF ChangesAreShown
      <4> QED BY <3>3, <3>5, <4>2, <4>3 DEF BeforeRunning
    <3>6. CollectorOf[u] \notin unrecorded' => IsRecorded(u)'
      <4>1. IsRecorded(u) => Tells(mem'.events, CollectorOf[u])
        BY <2>0, <2>1, OthersAreUndisturbed, ShownStays DEF IsRecorded
      <4>2. disk' = disk \/ disk' = mem'
        BY <2>1, StepEffects DEF Effects, DiskEffect
      <4> QED BY <3>2, <4>1, <4>2 DEF ChangesAreShown, IsRecorded
    <3> QED BY <3>4, <3>5, <3>6
  <2>5. ASSUME CollectorOf[own] \in unverified'
        PROVE  /\ own \notin active' => IsShown(own)'
               /\ CollectorOf[own] \notin unrecorded' => IsRecorded(own)'
               /\ \A x \in Slots : Busy(x)' /\ work'[x].target = own => BeforeRunning(x)'
    <3>1. \/ BeforeRunning(s)' /\ work'[s].target = own
          \/ work'[s] = Blank /\ IsShown(own)'
      BY <1>2, <2>0, <2>5, OwnChangeIsShown
    <3>2. Blank.step = "idle" /\ (BeforeRunning(s)' => work'[s].step # "idle")
      BY DEF Blank, BeforeRunning
    <3>3. own \notin active' => IsShown(own)'
      BY <2>3, <3>1, <3>2
    <3>4. ASSUME NEW x \in Slots, Busy(x)', work'[x].target = own PROVE BeforeRunning(x)'
      <4>1. x = s
        BY <2>1, <2>2, <3>4 DEF Busy
      <4> QED BY <3>1, <3>2, <3>4, <4>1 DEF Busy
    <3>5. CollectorOf[own] \notin unrecorded' => IsRecorded(own)'
      BY <1>2, <2>0, <2>5, OwnChangeIsRecorded
    <3> QED BY <3>3, <3>4, <3>5
  <2> QED BY <2>4, <2>5 DEF ChangesAreShown
<1>3. CASE ProcessRestarts
  <2>1. /\ mem' = disk /\ disk' = disk /\ \A x \in Slots : ~Busy(x)'
        /\ unverified' = unverified \ unrecorded
    BY <1>3 DEF ProcessRestarts, Restart, Busy, Blank
  <2> QED BY <2>1 DEF ChangesAreShown, IsRecorded, IsShown
<1>4. CASE SiteChanges \/ UNCHANGED allVars
  <2>1. UNCHANGED <<vars, unverified, unrecorded>>
    BY <1>4 DEF SiteChanges, allVars, external
  <2> QED BY <2>1 DEF vars, ChangesAreShown, IsShown, IsRecorded, BeforeRunning, Busy
<1> QED BY <1>1, <1>2, <1>3, <1>4 DEF HealingNext

\* With distinct collectors, a collector that was changed and not run since is never presented as
\* in order, after a restart neither, unless the process died before it had written the event of
\* the failed verification (approveHeal's error paths in heal-and-verify.ts, appendEvent,
\* buildTargetStatus).
THEOREM UnverifiedChangeIsShownAlways ==
    ASSUME IsInjective(CollectorOf)
    PROVE  HealingSpec => []UnverifiedChangeIsShown
<1>1. HealingInit => ChangesAreShown
  BY DEF HealingInit, ChangesAreShown
<1>2. TypeOK /\ OneRunPerTarget /\ ChangesAreShown /\ [HealingNext]_allVars => ChangesAreShown'
  BY ChangesAreShownIsInductive
<1>3. ChangesAreShown => UnverifiedChangeIsShown
  BY DEF ChangesAreShown, IsShown, Tells, UnverifiedChangeIsShown, HistoryIsFull, latestEvent,
         listEvents, LatestOf
<1>4. HealingSpec => []TypeOK /\ []OneRunPerTarget
  BY ClosedLoopRunsThePipeline, TypeCorrect, OneRunPerTargetAlways
<1> QED BY <1>1, <1>2, <1>3, <1>4, PTL DEF HealingSpec
-----------------------------------------------------------------------------
(* The steps of a target and its page. *)

LEMMA ReportingIsStepping ==
    ASSUME NEW s \in Slots, Reports(s) \/ ReportsNothing(s)
    PROVE  Step(s)
BY DEF Reports, Judges, ReportsNothing, Step

LEMMA ActivityStepIsStep == [ActivityNext]_activityVars => [Next]_vars
<1> SUFFICES ASSUME [ActivityNext]_activityVars PROVE [Next]_vars
  OBVIOUS
<1>1. CASE \E s \in Slots : Reports(s) \/ ReportsNothing(s)
  BY <1>1, ReportingIsStepping DEF Next
<1>2. CASE (\E t \in Targets : BeginRun(t) /\ begin(t)) \/ Restart
  BY <1>2 DEF Next
<1>3. CASE UNCHANGED activityVars
  BY <1>3 DEF activityVars
<1> QED BY <1>1, <1>2, <1>3 DEF ActivityNext

\* The log only watches: every behaviour with it is one of the pipeline.
LEMMA ActivityWatches == ActivitySpec => Spec
<1>1. ActivityInit => Init
  BY DEF ActivityInit
<1>2. [ActivityNext]_activityVars => [Next]_vars
  BY ActivityStepIsStep
<1> QED BY <1>1, <1>2, PTL DEF ActivitySpec, Spec
-----------------------------------------------------------------------------
(* Lists of steps. *)

Elements(list) == {list[i] : i \in DOMAIN list}

\* The stages a list leaves under way.
Open(list) ==
    {stage \in PipelineStage :
        \E i \in 1 .. Len(list) :
            /\ list[i] = At(stage, "started")
            /\ \A j \in i + 1 .. Len(list) :
                  ~(list[j].stage = stage /\ list[j].status \in {"done", "failed"})}

\* The stages under way after one more step.
Opened(open, step) ==
    IF step.status = "started" THEN open \cup {step.stage}
    ELSE IF step.status = "skipped" THEN open
    ELSE open \ {step.stage}

\* What is known of a list with steps: its last step, and bounds on its steps and on what it leaves open.
Describes(list, last, elements, open) ==
    /\ list \in Seq(PipelineStep)
    /\ list # <<>>
    /\ list[Len(list)] = last
    /\ Elements(list) \subseteq elements
    /\ Open(list) \subseteq open

LEMMA OneMore ==
    ASSUME NEW list \in Seq(PipelineStep), NEW step \in PipelineStep
    PROVE  /\ Elements(Append(list, step)) \subseteq Elements(list) \cup {step}
           /\ Open(Append(list, step)) \subseteq Opened(Open(list), step)
<1> DEFINE longer == Append(list, step)
           N == Len(list)
<1>1. /\ longer \in Seq(PipelineStep) /\ N \in Nat /\ Len(longer) = N + 1
      /\ longer[N + 1] = step /\ \A i \in 1 .. N : longer[i] = list[i]
      /\ DOMAIN longer = 1 .. N + 1 /\ DOMAIN list = 1 .. N
  BY AppendProperties
<1> HIDE DEF longer
<1>2. Elements(longer) \subseteq Elements(list) \cup {step}
  BY <1>1 DEF Elements
<1>3. ASSUME NEW stage \in Open(longer)
      PROVE  stage \in Opened(Open(list), step)
  <2>1. PICK i \in 1 .. N + 1 :
           /\ longer[i] = At(stage, "started")
           /\ \A j \in i + 1 .. N + 1 :
                 ~(longer[j].stage = stage /\ longer[j].status \in {"done", "failed"})
    BY <1>1, <1>3 DEF Open
  <2>2. At(stage, "started").stage = stage /\ At(stage, "started").status = "started"
    BY DEF At
  <2>3. step.status \in {"started", "done", "failed", "skipped"}
    BY DEF PipelineStep, StepStatus
  <2>4. CASE i = N + 1
    BY <1>1, <2>1, <2>2, <2>4 DEF Opened
  <2>5. CASE i \in 1 .. N
    <3>1. \A j \in i + 1 .. N :
             ~(list[j].stage = stage /\ list[j].status \in {"done", "failed"})
      <4> TAKE j \in i + 1 .. N
      <4>1. j \in i + 1 .. N + 1 /\ j \in 1 .. N
        BY <1>1, <2>5
      <4> QED BY <1>1, <2>1, <4>1
    <3>2. stage \in Open(list)
      BY <1>1, <1>3, <2>1, <2>5, <3>1 DEF Open
    <3>3. ~(step.stage = stage /\ step.status \in {"done", "failed"})
      <4>1. N + 1 \in i + 1 .. N + 1
        BY <1>1, <2>5
      <4> QED BY <1>1, <2>1, <4>1
    <3> QED BY <2>3, <3>2, <3>3 DEF Opened
  <2> QED BY <1>1, <2>1, <2>4, <2>5
<1> QED BY <1>2, <1>3 DEF longer

\* The log forgets its oldest steps only.
LEMMA RecentKeeps ==
    ASSUME NEW list \in Seq(PipelineStep), list # <<>>
    PROVE  Describes(Recent(list), list[Len(list)], Elements(list), Open(list))
<1> DEFINE N == Len(list)
           gone == IF N > MAX_STEPS THEN N - MAX_STEPS ELSE 0
           new == Recent(list)
<1>1. N \in Nat \ {0} /\ DOMAIN list = 1 .. N
  BY EmptySeq
<1>2. gone \in Nat /\ gone < N
  BY <1>1, MaxStepsAssumption
<1>3. new = SubSeq(list, gone + 1, N)
  BY <1>1, MaxStepsAssumption DEF Recent
<1> HIDE DEF gone, new
<1>4. /\ new \in Seq(PipelineStep)
      /\ Len(new) = N - gone
      /\ \A i \in 1 .. N - gone : new[i] = list[i + gone]
  <2>1. gone + 1 \in Int /\ N \in Int /\ \A i \in gone + 1 .. N : list[i] \in PipelineStep
    BY <1>1, <1>2, ElementOfSeq
  <2>2. /\ SubSeq(list, gone + 1, N) \in Seq(PipelineStep)
        /\ Len(SubSeq(list, gone + 1, N)) = IF gone + 1 <= N THEN N - (gone + 1) + 1 ELSE 0
        /\ \A i \in 1 .. N - (gone + 1) + 1 :
              SubSeq(list, gone + 1, N)[i] = list[(gone + 1) + i - 1]
    BY <2>1, SubSeqProperties
  <2>3. N - (gone + 1) + 1 = N - gone /\ gone + 1 <= N
    BY <1>1, <1>2
  <2>4. \A i \in 1 .. N - gone : (gone + 1) + i - 1 = i + gone
    BY <1>1, <1>2
  <2> QED BY <1>3, <2>2, <2>3, <2>4
<1>5. new # <<>> /\ new[Len(new)] = list[N]
  <2>3. N - gone \in Nat /\ N - gone # 0 /\ N - gone \in 1 .. N - gone /\ (N - gone) + gone = N
    <3> HIDE DEF N
    <3> QED BY <1>1, <1>2
  <2>1. Len(new) # 0 /\ Len(new) \in 1 .. N - gone /\ Len(new) + gone = N
    BY <1>4, <2>3
  <2>2. Len(<<>>) = 0
    OBVIOUS
  <2> QED BY <1>4, <2>1, <2>2
<1>6. ASSUME NEW i \in 1 .. N - gone PROVE i + gone \in 1 .. N
  BY <1>1, <1>2
<1>7. Elements(new) \subseteq Elements(list)
  BY <1>1, <1>4, <1>6 DEF Elements
<1>8. ASSUME NEW stage \in Open(new) PROVE stage \in Open(list)
  <2>1. PICK i \in 1 .. N - gone :
           /\ new[i] = At(stage, "started")
           /\ \A j \in i + 1 .. N - gone :
                 ~(new[j].stage = stage /\ new[j].status \in {"done", "failed"})
    BY <1>4, <1>8 DEF Open
  <2>2. i + gone \in 1 .. N /\ list[i + gone] = At(stage, "started")
    BY <1>4, <1>6, <2>1
  <2>3. ASSUME NEW j \in (i + gone) + 1 .. N
        PROVE  ~(list[j].stage = stage /\ list[j].status \in {"done", "failed"})
    <3>1. j - gone \in i + 1 .. N - gone /\ j - gone \in 1 .. N - gone /\ (j - gone) + gone = j
      BY <1>1, <1>2, <2>1
    <3> QED BY <1>4, <2>1, <3>1
  <2> QED BY <1>8, <2>2, <2>3 DEF Open
<1> QED BY <1>4, <1>5, <1>7, <1>8 DEF Describes, new
-----------------------------------------------------------------------------
(* What a stretch of a run adds to the log. *)

LogsOK == steps \in [Targets -> Seq(PipelineStep)]

\* The log of t after the steps a, b and c: Adds1, Adds2 and Adds3 say what is known of it.
Adds1(before, after, a) ==
    Describes(after, a, Elements(before) \cup {a}, Opened(Open(before), a))

Adds2(before, after, a, b) ==
    Describes(after, b, Elements(before) \cup {a, b}, Opened(Opened(Open(before), a), b))

Adds3(before, after, a, b, c) ==
    Describes(after, c, Elements(before) \cup {a, b, c},
              Opened(Opened(Opened(Open(before), a), b), c))

LEMMA OpenedGrows ==
    ASSUME NEW less, NEW more, less \subseteq more, NEW step
    PROVE  Opened(less, step) \subseteq Opened(more, step)
BY DEF Opened

LEMMA OneAndOne ==
    ASSUME NEW a \in PipelineStep, NEW b \in PipelineStep
    PROVE  /\ <<a>> \o <<b>> = <<a, b>>
           /\ <<a>> \in Seq(PipelineStep) /\ <<b>> \in Seq(PipelineStep)
<1>1. <<a>> \in Seq(PipelineStep) /\ <<b>> \in Seq(PipelineStep)
  OBVIOUS
<1>2. <<a>> \o <<b>> \in Seq(PipelineStep) /\ <<a, b>> \in Seq(PipelineStep)
  BY <1>1, ConcatProperties
<1>3. Len(<<a>>) = 1 /\ Len(<<b>>) = 1 /\ Len(<<a, b>>) = 2 /\ Len(<<a>> \o <<b>>) = 2
  BY <1>1, ConcatProperties
<1>4. (<<a>> \o <<b>>)[1] = a /\ (<<a>> \o <<b>>)[2] = b
  BY <1>1, <1>3, ConcatProperties
<1>5. \A i \in 1 .. 2 : (<<a>> \o <<b>>)[i] = <<a, b>>[i]
  BY <1>4
<1> QED BY <1>1, <1>2, <1>3, <1>5, SeqEqual

LEMMA TwoAndOne ==
    ASSUME NEW a \in PipelineStep, NEW b \in PipelineStep, NEW c \in PipelineStep
    PROVE  /\ <<a, b>> \o <<c>> = <<a, b, c>>
           /\ <<a, b>> \in Seq(PipelineStep) /\ <<c>> \in Seq(PipelineStep)
<1>1. <<a, b>> \in Seq(PipelineStep) /\ <<c>> \in Seq(PipelineStep)
  OBVIOUS
<1>2. <<a, b>> \o <<c>> \in Seq(PipelineStep) /\ <<a, b, c>> \in Seq(PipelineStep)
  BY <1>1, ConcatProperties
<1>3. /\ Len(<<a, b>>) = 2 /\ Len(<<c>>) = 1 /\ Len(<<a, b, c>>) = 3
      /\ Len(<<a, b>> \o <<c>>) = 3
  BY <1>1, ConcatProperties
<1>4. /\ (<<a, b>> \o <<c>>)[1] = a /\ (<<a, b>> \o <<c>>)[2] = b
      /\ (<<a, b>> \o <<c>>)[3] = c
  BY <1>1, <1>3, ConcatProperties
<1>5. \A i \in 1 .. 3 : (<<a, b>> \o <<c>>)[i] = <<a, b, c>>[i]
  BY <1>4
<1> QED BY <1>1, <1>2, <1>3, <1>5, SeqEqual

LEMMA Added ==
    ASSUME NEW before \in Seq(PipelineStep), NEW a \in PipelineStep, NEW b \in PipelineStep,
           NEW c \in PipelineStep
    PROVE  /\ Adds1(before, Recent(before \o <<a>>), a)
           /\ Adds2(before, Recent(before \o <<a, b>>), a, b)
           /\ Adds3(before, Recent(before \o <<a, b, c>>), a, b, c)
<1> DEFINE one == Append(before, a)
           two == Append(one, b)
           three == Append(two, c)
<1>1. /\ one \in Seq(PipelineStep) /\ one # <<>> /\ one[Len(one)] = a
      /\ two \in Seq(PipelineStep) /\ two # <<>> /\ two[Len(two)] = b
      /\ three \in Seq(PipelineStep) /\ three # <<>> /\ three[Len(three)] = c
  BY AppendProperties
<1>2. before \o <<a>> = one /\ before \o <<a, b>> = two /\ before \o <<a, b, c>> = three
  <2>1. before \o <<a>> = one
    BY AppendIsConcat
  <2>2. before \o <<a, b>> = two
    <3>1. <<a>> \o <<b>> = <<a, b>> /\ <<a>> \in Seq(PipelineStep) /\ <<b>> \in Seq(PipelineStep)
      BY OneAndOne
    <3>2. (before \o <<a>>) \o <<b>> = before \o (<<a>> \o <<b>>)
      BY <3>1, ConcatAssociative
    <3>3. two = one \o <<b>>
      BY <1>1, AppendIsConcat
    <3> QED BY <2>1, <3>1, <3>2, <3>3
  <2>3. before \o <<a, b, c>> = three
    <3>1. <<a, b>> \o <<c>> = <<a, b, c>> /\ <<a, b>> \in Seq(PipelineStep)
          /\ <<c>> \in Seq(PipelineStep)
      BY TwoAndOne
    <3>2. (before \o <<a, b>>) \o <<c>> = before \o (<<a, b>> \o <<c>>)
      BY <3>1, ConcatAssociative
    <3>3. three = two \o <<c>>
      BY <1>1, AppendIsConcat
    <3> QED BY <2>2, <3>1, <3>2, <3>3
  <2> QED BY <2>1, <2>2, <2>3
<1>3. /\ Elements(one) \subseteq Elements(before) \cup {a}
      /\ Open(one) \subseteq Opened(Open(before), a)
  BY OneMore
<1>4. /\ Elements(two) \subseteq Elements(one) \cup {b}
      /\ Open(two) \subseteq Opened(Open(one), b)
  BY <1>1, OneMore
<1>5. /\ Elements(three) \subseteq Elements(two) \cup {c}
      /\ Open(three) \subseteq Opened(Open(two), c)
  BY <1>1, OneMore
<1>6. /\ Describes(Recent(one), a, Elements(one), Open(one))
      /\ Describes(Recent(two), b, Elements(two), Open(two))
      /\ Describes(Recent(three), c, Elements(three), Open(three))
  <2> HIDE DEF one, two, three
  <2> QED BY <1>1, RecentKeeps
<1> HIDE DEF one, two, three
<1>7. Open(two) \subseteq Opened(Opened(Open(before), a), b)
  BY <1>3, <1>4, OpenedGrows
<1>8. Open(three) \subseteq Opened(Opened(Opened(Open(before), a), b), c)
  BY <1>5, <1>7, OpenedGrows
<1> QED BY <1>2, <1>3, <1>4, <1>5, <1>6, <1>7, <1>8 DEF Describes, Adds1, Adds2, Adds3

\* The log of the run's target changes, and no other.
LEMMA Recorded ==
    ASSUME TypeOK, LogsOK, NEW s \in Slots, Busy(s), NEW report, record(s, report),
           NEW t, t = work[s].target
    PROVE  /\ t \in Targets /\ steps[t] \in Seq(PipelineStep)
           /\ steps'[t] = Recent(steps[t] \o report)
           /\ \A u \in Targets \ {t} : steps'[u] = steps[u]
           /\ DOMAIN steps' = Targets
BY DEF TypeOK, LogsOK, record
-----------------------------------------------------------------------------
(* The log of a run in flight. *)

\* The stages a run may have under way at each of its steps.
UnderWay(step) ==
    CASE step = "collect" -> {"collect"}
      [] step = "heal" -> {"heal"}
      [] step \in {"verify", "recover"} -> {"verify"}
      [] OTHER -> {}

Published == At("publish", "done")
RecoveredStep == At("verify", "done")
Failure == At("collect", "failed")

\* A log that is over: nothing is under way, or the run failed.
Over(list) == Open(list) = {} \/ list[Len(list)] = Failure

\* What the log of a run's target says at each step of the run, and which outcome it has.
Account(s) ==
    LET step == work[s].step
        list == steps[work[s].target]
    IN  /\ step # "report" => work[s].outcome = "none"
        /\ step \notin {"failed", "settled"} => Open(list) \subseteq UnderWay(step)
        /\ step = "settled" => Over(list)
        /\ step \notin {"failed", "settled"} => Published \notin Elements(list)
        /\ step \notin {"failed", "settled", "report"} => RecoveredStep \notin Elements(list)
        /\ step = "report" => (RecoveredStep \in Elements(list) <=> work[s].outcome = "recovered")

\* The inductive invariant: every run gives its account, and a log without a run is over.
Accounted ==
    /\ LogsOK
    /\ \A s \in Slots : IF Busy(s) THEN Account(s) ELSE work[s] = Blank
    /\ \A t \in Targets : t \notin active /\ steps[t] # <<>> => Over(steps[t])

\* How a run comes to be settled: with its failure, or with an event its log agrees with.
SettlesWith(s, t) ==
    \/ RunFails(s)
    \/ /\ RecordPublished(s) /\ work'[s] = Done(s)
       /\ Published \in Elements(steps'[t]) /\ RecoveredStep \notin Elements(steps'[t])
    \/ RecordRepair(s) /\ work'[s] = Done(s) /\ steps' = steps
    \/ \E decision \in Decision :
          /\ Withhold(s, decision) /\ work'[s] = Done(s) /\ work[s].outcome = "none"
          /\ Published \notin Elements(steps'[t]) /\ RecoveredStep \notin Elements(steps'[t])

\* What a step of the run of t does.
Accounts(s, t) ==
    /\ LogsOK'
    /\ \A u \in Targets \ {t} : steps'[u] = steps[u]
    /\ \/ /\ work'[s].step # "idle" /\ work'[s].target = t
          /\ Account(s)'
       \/ work'[s] = Blank /\ work[s].step = "settled" /\ steps' = steps
    /\ work'[s].step = "settled" => SettlesWith(s, t)

\* A run that reports nothing.
LEMMA SaysNothing ==
    ASSUME LogsOK, NEW s \in Slots, NEW t, steps' = steps
    PROVE  LogsOK' /\ \A u \in Targets \ {t} : steps'[u] = steps[u]
BY DEF LogsOK

LEMMA Says ==
    ASSUME TypeOK, LogsOK, NEW s \in Slots, Busy(s), NEW t, t = work[s].target,
           NEW report, record(s, report),
           NEW last, NEW elements, NEW open,
           Describes(Recent(steps[t] \o report), last, elements, open)
    PROVE  /\ LogsOK'
           /\ \A u \in Targets \ {t} : steps'[u] = steps[u]
           /\ Describes(steps'[t], last, elements, open)
<1>1. /\ t \in Targets
      /\ steps'[t] = Recent(steps[t] \o report)
      /\ \A u \in Targets \ {t} : steps'[u] = steps[u]
      /\ DOMAIN steps' = Targets
  BY Recorded
<1>2. steps'[t] \in Seq(PipelineStep)
  BY <1>1 DEF Describes
<1>3. \A u \in Targets : steps'[u] \in Seq(PipelineStep)
  BY <1>1, <1>2 DEF LogsOK
<1>4. LogsOK'
  <2>1. steps' = [u \in Targets |-> steps'[u]]
    BY <1>1 DEF record, LogsOK
  <2> QED BY <1>3, <2>1 DEF LogsOK
<1> QED BY <1>1, <1>4

LEMMA StepsAreSteps ==
    ASSUME NEW stage \in PipelineStage, NEW status \in StepStatus
    PROVE  At(stage, status) \in PipelineStep
BY DEF At, PipelineStep

\* Acting on a verdict.
LEMMA ActOnAccounts ==
    ASSUME TypeOK, Accounted, NEW s \in Slots, work[s].step \in {"baseline", "reason"},
           NEW decision \in Decision, ActOn(s, decision), record(s, VerdictReport(s, decision)),
           NEW t, t = work[s].target
    PROVE  Accounts(s, t)
<1> DEFINE before == steps[t]
           after == steps'[t]
           judged == At("classify", "done")
           withheld == At("publish", "skipped")
<1>1. /\ Busy(s) /\ LogsOK /\ work[s] \in Locals /\ work \in [Slots -> Locals]
      /\ t \in Targets /\ before \in Seq(PipelineStep)
      /\ work[s].outcome = "none" /\ Open(before) = {}
      /\ Published \notin Elements(before) /\ RecoveredStep \notin Elements(before)
  BY DEF TypeOK, Accounted, Busy, Account, LogsOK, UnderWay
<1>2. /\ judged \in PipelineStep /\ withheld \in PipelineStep
      /\ At("heal", "started") \in PipelineStep /\ At("heal", "skipped") \in PipelineStep
  BY StepsAreSteps DEF PipelineStage, StepStatus
<1>3. CASE Publish(s, decision)
  <2>1. VerdictReport(s, decision) = <<judged>>
    BY <1>3 DEF VerdictReport, Publish
  <2>2. Adds1(before, Recent(before \o <<judged>>), judged)
    BY <1>1, <1>2, Added
  <2>3. /\ LogsOK' /\ \A u \in Targets \ {t} : steps'[u] = steps[u]
        /\ Adds1(before, after, judged)
    BY <1>1, <2>1, <2>2, Says DEF Adds1
  <2>4. Open(after) = {} /\ Published \notin Elements(after) /\ RecoveredStep \notin Elements(after)
    BY <1>1, <2>3 DEF Adds1, Describes, Opened, At, Published, RecoveredStep
  <2>5. work'[s] \in {[Suspend(s, "publish") EXCEPT !.decision = decision], Throw(s)}
    BY <1>3, PersistMoves DEF Publish
  <2>6. /\ work'[s].step \in {"publish", "failed"} /\ work'[s].target = t
        /\ work'[s].outcome = "none"
    BY <1>1, <2>5 DEF Suspend, Throw, Blank, Locals
  <2> QED BY <2>3, <2>4, <2>6 DEF Accounts, Account, UnderWay
<1>4. CASE StartRepair(s, decision)
  <2> DEFINE healing == At("heal", "started")
  <2>1. VerdictReport(s, decision) = <<judged, withheld, healing>>
    BY <1>2, <1>4, TwoAndOne DEF VerdictReport, StartRepair, Acquire
  <2>2. Adds3(before, Recent(before \o <<judged, withheld, healing>>), judged, withheld, healing)
    BY <1>1, <1>2, Added
  <2>3. /\ LogsOK' /\ \A u \in Targets \ {t} : steps'[u] = steps[u]
        /\ Adds3(before, after, judged, withheld, healing)
    BY <1>1, <2>1, <2>2, Says DEF Adds3
  <2>4. /\ Open(after) \subseteq {"heal"}
        /\ Published \notin Elements(after) /\ RecoveredStep \notin Elements(after)
    BY <1>1, <2>3 DEF Adds3, Describes, Opened, At, Published, RecoveredStep
  <2>5. work'[s] = [Suspend(s, "heal") EXCEPT !.decision = decision]
    BY <1>1, <1>4 DEF StartRepair, SetWork
  <2>6. work'[s].step = "heal" /\ work'[s].target = t /\ work'[s].outcome = "none"
    BY <1>1, <2>5 DEF Suspend, Locals
  <2> QED BY <2>3, <2>4, <2>6 DEF Accounts, Account, UnderWay
<1>5. CASE RepairInProgress(s, decision)
  <2> DEFINE skipped == At("heal", "skipped")
  <2>1. VerdictReport(s, decision) = <<judged, withheld, skipped>>
    BY <1>2, <1>5, TwoAndOne DEF VerdictReport, RepairInProgress
  <2>2. Adds3(before, Recent(before \o <<judged, withheld, skipped>>), judged, withheld, skipped)
    BY <1>1, <1>2, Added
  <2>3. /\ LogsOK' /\ \A u \in Targets \ {t} : steps'[u] = steps[u]
        /\ Adds3(before, after, judged, withheld, skipped)
    BY <1>1, <2>1, <2>2, Says DEF Adds3
  <2>4. /\ Open(after) = {}
        /\ Published \notin Elements(after) /\ RecoveredStep \notin Elements(after)
    BY <1>1, <2>3 DEF Adds3, Describes, Opened, At, Published, RecoveredStep
  <2>5. work'[s] = [Suspend(s, "report") EXCEPT !.decision = decision,
                                                !.outcome = "already_in_progress"]
    BY <1>1, <1>5 DEF RepairInProgress, SetWork
  <2>6. /\ work'[s].step = "report" /\ work'[s].target = t
        /\ work'[s].outcome = "already_in_progress"
    BY <1>1, <2>5 DEF Suspend, Locals
  <2> QED BY <2>3, <2>4, <2>6 DEF Accounts, Account, UnderWay
<1>6. CASE Withhold(s, decision)
  <2>1. VerdictReport(s, decision) = <<judged, withheld>> \o <<>>
    BY <1>6 DEF VerdictReport, Withhold
  <2>2. VerdictReport(s, decision) = <<judged, withheld>>
    BY <1>2, <2>1, TwoAndOne, ConcatEmptySeq
  <2>3. Adds2(before, Recent(before \o <<judged, withheld>>), judged, withheld)
    BY <1>1, <1>2, Added
  <2>4. /\ LogsOK' /\ \A u \in Targets \ {t} : steps'[u] = steps[u]
        /\ Adds2(before, after, judged, withheld)
    BY <1>1, <2>2, <2>3, Says DEF Adds2
  <2>5. /\ Open(after) = {}
        /\ Published \notin Elements(after) /\ RecoveredStep \notin Elements(after)
    BY <1>1, <2>4 DEF Adds2, Describes, Opened, At, Published, RecoveredStep
  <2>6. work'[s] \in {Done(s), Throw(s)}
    BY <1>6, PersistMoves DEF Withhold, appendEvent
  <2>7. /\ work'[s].step \in {"settled", "failed"} /\ work'[s].target = t
        /\ work'[s].outcome = "none"
        /\ work'[s].step = "settled" => work'[s] = Done(s)
    BY <1>1, <2>6 DEF Done, Throw, Blank
  <2>8. work'[s].step = "settled" => SettlesWith(s, t)
    BY <1>1, <1>6, <2>5, <2>7 DEF SettlesWith
  <2> QED BY <2>4, <2>5, <2>7, <2>8 DEF Accounts, Account, UnderWay, Over
<1> QED BY <1>3, <1>4, <1>5, <1>6 DEF ActOn

\* A step of a run with what it reports.
LEMMA StepAccounts ==
    ASSUME TypeOK, Accounted, NEW s \in Slots, Reports(s) \/ ReportsNothing(s),
           NEW t, t = work[s].target
    PROVE  Accounts(s, t)
<1> DEFINE before == steps[t]
           after == steps'[t]
<1>1. /\ Busy(s) /\ LogsOK /\ work[s] \in Locals /\ work \in [Slots -> Locals]
      /\ t \in Targets /\ before \in Seq(PipelineStep) /\ Account(s)
  BY ReportingIsStepping, StepIsBusy DEF TypeOK, Accounted, LogsOK
<1>2. \A stage \in PipelineStage, status \in StepStatus : At(stage, status) \in PipelineStep
  BY StepsAreSteps
<1>3. ASSUME CollectReturns(s), record(s, CollectReport(work'[s].run))
      PROVE  Accounts(s, t)
  <2>1. PICK status \in {"done", "failed"} :
           CollectReport(work'[s].run) = <<At("collect", status), At("read_output", status)>>
    BY DEF CollectReport, DoneIf
  <2> DEFINE a == At("collect", status)
             b == At("read_output", status)
  <2>2. a \in PipelineStep /\ b \in PipelineStep
    BY <1>2 DEF PipelineStage, StepStatus
  <2>3. Adds2(before, Recent(before \o <<a, b>>), a, b)
    BY <1>1, <2>2, Added
  <2>4. /\ LogsOK' /\ \A u \in Targets \ {t} : steps'[u] = steps[u]
        /\ Adds2(before, after, a, b)
    BY <1>1, <1>3, <2>1, <2>3, Says DEF Adds2
  <2>5. /\ work[s].step = "collect" /\ work'[s].step = "contract" /\ work'[s].target = t
        /\ work'[s].outcome = work[s].outcome
    BY <1>1, <1>3 DEF CollectReturns, SetWork, Suspend, Locals
  <2>6. /\ Open(after) = {}
        /\ Published \notin Elements(after) /\ RecoveredStep \notin Elements(after)
    BY <1>1, <2>4, <2>5
    DEF Account, UnderWay, Adds2, Describes, Opened, At, Published, RecoveredStep
  <2> QED BY <1>1, <2>4, <2>5, <2>6 DEF Accounts, Account, UnderWay
<1>4. ASSUME ReadBaseline(s), record(s, <<At("check_contract", DoneIf(EvaluationOf(s).valid))>>)
      PROVE  Accounts(s, t)
  <2> DEFINE a == At("check_contract", DoneIf(EvaluationOf(s).valid))
  <2>1. DoneIf(EvaluationOf(s).valid) \in {"done", "failed"}
    BY DEF DoneIf
  <2>2. a \in PipelineStep
    BY <1>2, <2>1 DEF PipelineStage, StepStatus
  <2>3. Adds1(before, Recent(before \o <<a>>), a)
    BY <1>1, <2>2, Added
  <2>4. /\ LogsOK' /\ \A u \in Targets \ {t} : steps'[u] = steps[u]
        /\ Adds1(before, after, a)
    BY <1>1, <1>4, <2>3, Says DEF Adds1
  <2>5. /\ work[s].step = "contract" /\ work'[s].step = "baseline" /\ work'[s].target = t
        /\ work'[s].outcome = work[s].outcome
    BY <1>1, <1>4 DEF ReadBaseline, SetWork, Suspend, Locals
  <2>6. /\ Open(after) = {}
        /\ Published \notin Elements(after) /\ RecoveredStep \notin Elements(after)
    BY <1>1, <2>1, <2>4, <2>5
    DEF Account, UnderWay, Adds1, Describes, Opened, At, Published, RecoveredStep
  <2> QED BY <1>1, <2>4, <2>5, <2>6 DEF Accounts, Account, UnderWay
<1>5. ASSUME Judges(s)
      PROVE  Accounts(s, t)
  <2>1. /\ work[s].step \in {"baseline", "reason"}
        /\ \E decision \in Decision :
              ActOn(s, decision) /\ record(s, VerdictReport(s, decision))
    BY <1>5, VerdictType DEF Judges, Classify, OpinionReturns
  <2> QED BY <2>1, ActOnAccounts
<1>6. ASSUME RecordPublished(s), record(s, PublishReport(s))
      PROVE  Accounts(s, t)
  <2>1. PICK status \in {"done", "skipped"} :
           PublishReport(s) = <<At("learn_contract", status), Published>>
    BY DEF PublishReport, Published
  <2> DEFINE a == At("learn_contract", status)
  <2>2. a \in PipelineStep /\ Published \in PipelineStep
    BY <1>2 DEF PipelineStage, StepStatus, Published
  <2>3. Adds2(before, Recent(before \o <<a, Published>>), a, Published)
    BY <1>1, <2>2, Added
  <2>4. /\ LogsOK' /\ \A u \in Targets \ {t} : steps'[u] = steps[u]
        /\ Adds2(before, after, a, Published)
    BY <1>1, <1>6, <2>1, <2>3, Says DEF Adds2
  <2>5. /\ work[s].step \in {"publish", "learn"}
        /\ work'[s] \in {Done(s), Throw(s)}
    BY <1>6, PersistMoves DEF RecordPublished, appendEvent
  <2>6. /\ work'[s].step \in {"settled", "failed"} /\ work'[s].target = t
        /\ work'[s].outcome = "none"
        /\ work'[s].step = "settled" => work'[s] = Done(s)
    BY <1>1, <2>5 DEF Done, Throw, Blank
  <2>7. Open(after) = {} /\ RecoveredStep \notin Elements(after)
    BY <1>1, <2>4, <2>5
    DEF Account, UnderWay, Adds2, Describes, Opened, At, Published, RecoveredStep
  <2>8. Published \in Elements(after)
    <3>1. /\ after \in Seq(PipelineStep) /\ after # <<>> /\ after[Len(after)] = Published
      BY <2>4 DEF Adds2, Describes
    <3>2. Len(after) \in DOMAIN after
      BY <3>1, EmptySeq
    <3> QED BY <3>1, <3>2 DEF Elements
  <2>9. work'[s].step = "settled" => SettlesWith(s, t)
    BY <1>6, <2>6, <2>7, <2>8 DEF SettlesWith
  <2> QED BY <2>4, <2>6, <2>7, <2>9 DEF Accounts, Account, UnderWay, Over
<1>7. ASSUME HealStopsShort(s), record(s, StopReport(s))
      PROVE  Accounts(s, t)
  <2> DEFINE a == At("heal", "failed")
  <2>1. a \in PipelineStep
    BY <1>2 DEF PipelineStage, StepStatus
  <2>2. Adds1(before, Recent(before \o <<a>>), a)
    BY <1>1, <2>1, Added
  <2>3. /\ LogsOK' /\ \A u \in Targets \ {t} : steps'[u] = steps[u]
        /\ Adds1(before, after, a)
    BY <1>1, <1>7, <2>2, Says DEF Adds1, StopReport
  <2>4. /\ work[s].step = "heal" /\ work'[s].step = "report" /\ work'[s].target = t
        /\ work'[s].outcome = "manual_review"
    BY <1>1, <1>7 DEF HealStopsShort, EndRepair, SetWork, Suspend, Locals
  <2>5. /\ Open(after) = {}
        /\ Published \notin Elements(after) /\ RecoveredStep \notin Elements(after)
    BY <1>1, <2>3, <2>4
    DEF Account, UnderWay, Adds1, Describes, Opened, At, Published, RecoveredStep
  <2> QED BY <2>3, <2>4, <2>5 DEF Accounts, Account, UnderWay
<1>8. ASSUME HealReachesGate(s), record(s, ReviewReport(work'[s].step = "approve"))
      PROVE  Accounts(s, t)
  <2> DEFINE a == At("heal", "done")
             b == At("review_fix", "started")
  <2>1. PICK c \in {At("review_fix", "done"), At("review_fix", "failed")} :
           ReviewReport(work'[s].step = "approve") = <<a, b, c>>
    BY DEF ReviewReport, DoneIf
  <2>2. a \in PipelineStep /\ b \in PipelineStep /\ c \in PipelineStep
    BY <1>2 DEF PipelineStage, StepStatus
  <2>3. Adds3(before, Recent(before \o <<a, b, c>>), a, b, c)
    BY <1>1, <2>2, Added
  <2>4. /\ LogsOK' /\ \A u \in Targets \ {t} : steps'[u] = steps[u]
        /\ Adds3(before, after, a, b, c)
    <3>1. record(s, <<a, b, c>>)
      BY <1>8, <2>1
    <3> HIDE DEF a, b
    <3>2. Describes(Recent(steps[t] \o <<a, b, c>>), c, Elements(before) \cup {a, b, c},
                    Opened(Opened(Opened(Open(before), a), b), c))
      BY <2>3 DEF Adds3
    <3> QED BY <1>1, <3>1, <3>2, Says DEF Adds3
  <2>5. /\ work[s].step = "heal"
        /\ \E step \in {"approve", "reject"} : work'[s] = Suspend(s, step)
    BY <1>1, <1>8 DEF HealReachesGate, SetWork
  <2>6. /\ work'[s].step \in {"approve", "reject"} /\ work'[s].target = t
        /\ work'[s].outcome = work[s].outcome
    BY <1>1, <2>5, SteppedLocals
  <2>7. /\ Open(after) = {}
        /\ Published \notin Elements(after) /\ RecoveredStep \notin Elements(after)
    BY <1>1, <2>1, <2>4, <2>5
    DEF Account, UnderWay, Adds3, Describes, Opened, At, Published, RecoveredStep
  <2> QED BY <1>1, <2>4, <2>5, <2>6, <2>7 DEF Accounts, Account, UnderWay
<1>9. ASSUME ApproveReturns(s), record(s, <<At("apply_fix", "done"), At("verify", "started")>>)
      PROVE  Accounts(s, t)
  <2> DEFINE a == At("apply_fix", "done")
             b == At("verify", "started")
  <2>1. a \in PipelineStep /\ b \in PipelineStep
    BY <1>2 DEF PipelineStage, StepStatus
  <2>2. Adds2(before, Recent(before \o <<a, b>>), a, b)
    BY <1>1, <2>1, Added
  <2>3. /\ LogsOK' /\ \A u \in Targets \ {t} : steps'[u] = steps[u]
        /\ Adds2(before, after, a, b)
    BY <1>1, <1>9, <2>2, Says DEF Adds2
  <2>4. work[s].step = "approve" /\ work'[s] = Suspend(s, "verify")
    BY <1>1, <1>9 DEF ApproveReturns, SetWork
  <2>5. /\ work'[s].step = "verify" /\ work'[s].target = t
        /\ work'[s].outcome = work[s].outcome
    BY <1>1, <2>4, SteppedLocals
  <2>6. /\ Open(after) \subseteq {"verify"}
        /\ Published \notin Elements(after) /\ RecoveredStep \notin Elements(after)
    BY <1>1, <2>3, <2>4
    DEF Account, UnderWay, Adds2, Describes, Opened, At, Published, RecoveredStep
  <2> QED BY <1>1, <2>3, <2>4, <2>5, <2>6 DEF Accounts, Account, UnderWay
<1>10. ASSUME VerifyFails(s), record(s, <<At("verify", "failed")>>)
       PROVE  Accounts(s, t)
  <2> DEFINE a == At("verify", "failed")
  <2>1. a \in PipelineStep
    BY <1>2 DEF PipelineStage, StepStatus
  <2>2. Adds1(before, Recent(before \o <<a>>), a)
    BY <1>1, <2>1, Added
  <2>3. /\ LogsOK' /\ \A u \in Targets \ {t} : steps'[u] = steps[u]
        /\ Adds1(before, after, a)
    BY <1>1, <1>10, <2>2, Says DEF Adds1
  <2>4. /\ work[s].step = "verify" /\ work'[s].step = "report" /\ work'[s].target = t
        /\ work'[s].outcome = "manual_review"
    BY <1>1, <1>10 DEF VerifyFails, EndRepair, SetWork, Suspend, Locals
  <2>5. /\ Open(after) = {}
        /\ Published \notin Elements(after) /\ RecoveredStep \notin Elements(after)
    BY <1>1, <2>3, <2>4
    DEF Account, UnderWay, Adds1, Describes, Opened, At, Published, RecoveredStep
  <2> QED BY <2>3, <2>4, <2>5 DEF Accounts, Account, UnderWay
<1>11. ASSUME Recovered(s), record(s, <<At("verify", "done")>>)
       PROVE  Accounts(s, t)
  <2>1. RecoveredStep \in PipelineStep
    BY <1>2 DEF PipelineStage, StepStatus, RecoveredStep
  <2>2. Adds1(before, Recent(before \o <<RecoveredStep>>), RecoveredStep)
    BY <1>1, <2>1, Added
  <2>3. /\ LogsOK' /\ \A u \in Targets \ {t} : steps'[u] = steps[u]
        /\ Adds1(before, after, RecoveredStep)
    BY <1>1, <1>11, <2>2, Says DEF Adds1, RecoveredStep
  <2>4. /\ work[s].step = "recover" /\ work'[s].step = "report" /\ work'[s].target = t
        /\ work'[s].outcome = "recovered"
    BY <1>1, <1>11 DEF Recovered, EndRepair, SetWork, Suspend, Locals
  <2>5. Open(after) = {} /\ Published \notin Elements(after)
    BY <1>1, <2>3, <2>4
    DEF Account, UnderWay, Adds1, Describes, Opened, At, Published, RecoveredStep
  <2>6. RecoveredStep \in Elements(after)
    <3>1. /\ after \in Seq(PipelineStep) /\ after # <<>> /\ after[Len(after)] = RecoveredStep
      BY <2>3 DEF Adds1, Describes
    <3>2. Len(after) \in DOMAIN after
      BY <3>1, EmptySeq
    <3> QED BY <3>1, <3>2 DEF Elements
  <2> QED BY <2>3, <2>4, <2>5, <2>6 DEF Accounts, Account, UnderWay
<1>12. ASSUME RunFails(s), record(s, <<At("collect", "failed")>>)
       PROVE  Accounts(s, t)
  <2>1. Failure \in PipelineStep
    BY <1>2 DEF PipelineStage, StepStatus, Failure
  <2>2. Adds1(before, Recent(before \o <<Failure>>), Failure)
    BY <1>1, <2>1, Added
  <2>3. /\ LogsOK' /\ \A u \in Targets \ {t} : steps'[u] = steps[u]
        /\ Adds1(before, after, Failure)
    BY <1>1, <1>12, <2>2, Says DEF Adds1, Failure
  <2>4. work'[s] = Done(s)
    BY <1>1, <1>12 DEF RunFails, SetWork
  <2>5. work'[s].step = "settled" /\ work'[s].target = t /\ work'[s].outcome = "none"
    BY <1>1, <2>4 DEF Done, Blank
  <2>6. after[Len(after)] = Failure
    BY <2>3 DEF Adds1, Describes
  <2> QED BY <1>12, <2>3, <2>5, <2>6 DEF Accounts, Account, Over, SettlesWith
<1>13. ASSUME ReportsNothing(s)
       PROVE  Accounts(s, t)
  <2>1. steps' = steps /\ LogsOK' /\ \A u \in Targets \ {t} : steps'[u] = steps[u]
    BY <1>1, <1>13, SaysNothing DEF ReportsNothing
  <2>2. CASE CollectThrows(s) \/ RepairThrows(s)
    <3>1. work'[s] = Throw(s)
      BY <1>1, <2>2 DEF CollectThrows, RepairThrows, SetWork
    <3>2. work'[s].step = "failed" /\ work'[s].target = t /\ work'[s].outcome = "none"
      BY <1>1, <3>1 DEF Throw, Blank
    <3> QED BY <2>1, <3>2 DEF Accounts, Account
  <2>3. CASE ConsultReasoner(s)
    <3>1. work[s].step = "baseline" /\ work'[s] = Suspend(s, "reason")
      BY <1>1, <2>3 DEF ConsultReasoner, SetWork
    <3>2. /\ work'[s].step = "reason" /\ work'[s].target = t
          /\ work'[s].outcome = work[s].outcome
      BY <1>1, <3>1, SteppedLocals
    <3> QED BY <1>1, <2>1, <3>1, <3>2 DEF Accounts, Account, UnderWay
  <2>4. CASE Learn(s)
    <3>1. work[s].step = "publish" /\ work'[s] \in {Suspend(s, "learn"), Throw(s)}
      BY <2>4, PersistMoves DEF Learn
    <3>2. /\ work'[s].step \in {"learn", "failed"} /\ work'[s].target = t
          /\ work'[s].outcome = "none"
      <4>1. work[s].outcome = "none"
        BY <1>1, <3>1 DEF Account
      <4>2. Throw(s).outcome = "none"
        BY DEF Throw, Blank
      <4> QED BY <3>1, <4>1, <4>2, SteppedLocals
    <3> QED BY <1>1, <2>1, <3>1, <3>2 DEF Accounts, Account, UnderWay
  <2>5. CASE RecordRepair(s)
    <3>1. work[s].step = "report" /\ work'[s] \in {Done(s), Throw(s)}
      BY <2>5, PersistMoves DEF RecordRepair, appendEvent
    <3>2. /\ work'[s].step \in {"settled", "failed"} /\ work'[s].target = t
          /\ work'[s].outcome = "none"
          /\ work'[s].step = "settled" => work'[s] = Done(s)
      BY <1>1, <3>1 DEF Done, Throw, Blank
    <3>3. Over(before)
      BY <1>1, <3>1 DEF Account, UnderWay, Over
    <3>4. work'[s].step = "settled" => SettlesWith(s, t)
      BY <2>1, <2>5, <3>2 DEF SettlesWith
    <3> QED BY <2>1, <3>2, <3>3, <3>4 DEF Accounts, Account
  <2>6. CASE RejectReturns(s)
    <3>1. /\ work[s].step = "reject" /\ work'[s].step = "report" /\ work'[s].target = t
          /\ work'[s].outcome = "manual_review"
      BY <1>1, <2>6 DEF RejectReturns, EndRepair, SetWork, Suspend, Locals
    <3> QED BY <1>1, <2>1, <3>1 DEF Accounts, Account, UnderWay
  <2>7. CASE VerifyPasses(s)
    <3>1. work[s].step = "verify" /\ work'[s] \in {Suspend(s, "recover"), Throw(s)}
      BY <2>7, PersistMoves DEF VerifyPasses
    <3>2. /\ work'[s].step \in {"recover", "failed"} /\ work'[s].target = t
          /\ work'[s].outcome = "none"
      <4>1. work[s].outcome = "none"
        BY <1>1, <3>1 DEF Account
      <4>2. Throw(s).outcome = "none"
        BY DEF Throw, Blank
      <4> QED BY <3>1, <4>1, <4>2, SteppedLocals
    <3> QED BY <1>1, <2>1, <3>1, <3>2 DEF Accounts, Account, UnderWay
  <2>8. CASE Settle(s)
    <3>1. work[s].step = "settled" /\ work'[s] = Blank /\ Blank.step = "idle"
      BY <1>1, <2>8 DEF Settle, SetWork, Blank
    <3> QED BY <2>1, <3>1 DEF Accounts
  <2> QED BY <1>13, <2>2, <2>3, <2>4, <2>5, <2>6, <2>7, <2>8 DEF ReportsNothing
<1> QED BY <1>3, <1>4, <1>5, <1>6, <1>7, <1>8, <1>9, <1>10, <1>11, <1>12, <1>13 DEF Reports
-----------------------------------------------------------------------------
(* Every run gives its account. *)

LEMMA BeginAccounts ==
    ASSUME TypeOK, OneRunPerTarget, Accounted, NEW t \in Targets, BeginRun(t), begin(t)
    PROVE  Accounted'
<1> DEFINE first == At("collect", "started")
<1>1. PICK s \in Slots : /\ ~Busy(s)
                         /\ SetWork(s, [Blank EXCEPT !.step = "collect", !.target = t])
  BY DEF BeginRun, Busy
<1>2. /\ work'[s].step = "collect" /\ work'[s].target = t /\ work'[s].outcome = "none"
      /\ \A x \in Slots \ {s} : work'[x] = work[x]
  BY <1>1 DEF SetWork, TypeOK, Blank
<1>3. /\ steps'[t] = <<first>>
      /\ \A u \in Targets \ {t} : steps'[u] = steps[u]
      /\ LogsOK'
  <2>1. first \in PipelineStep
    BY StepsAreSteps DEF PipelineStage, StepStatus
  <2>2. <<first>> \in Seq(PipelineStep)
    BY <2>1
  <2> QED BY <2>2 DEF begin, LogsOK, Accounted
<1>4. /\ Open(<<first>>) \subseteq {"collect"}
      /\ Published \notin Elements(<<first>>) /\ RecoveredStep \notin Elements(<<first>>)
  <2>1. Len(<<first>>) = 1 /\ DOMAIN <<first>> = {1} /\ <<first>>[1] = first
    OBVIOUS
  <2>2. ASSUME NEW stage \in Open(<<first>>) PROVE stage = "collect"
    <3>1. \E i \in 1 .. Len(<<first>>) : <<first>>[i] = At(stage, "started")
      BY <2>2 DEF Open
    <3>2. first = At(stage, "started")
      BY <2>1, <3>1
    <3> QED BY <3>2 DEF At
  <2>3. Elements(<<first>>) = {first}
    BY <2>1 DEF Elements
  <2> QED BY <2>2, <2>3 DEF At, Published, RecoveredStep
<1>5. Account(s)'
  BY <1>2, <1>3, <1>4 DEF Account, UnderWay
<1>6. ASSUME NEW x \in Slots \ {s}
      PROVE  IF Busy(x)' THEN Account(x)' ELSE work'[x] = Blank
  <2>1. CASE Busy(x)
    <3>1. work[x].target \in Targets /\ work[x].target # t
      BY <2>1 DEF BeginRun, OneRunPerTarget, TypeOK
    <3>2. PICK own : own = work[x].target
      OBVIOUS
    <3>3. work'[x].target = own /\ steps'[own] = steps[own] /\ work'[x] = work[x]
      BY <1>2, <1>3, <3>1, <3>2
    <3>4. Account(x)
      BY <2>1 DEF Accounted
    <3> QED BY <2>1, <3>2, <3>3, <3>4 DEF Account, Busy
  <2>2. CASE ~Busy(x)
    BY <1>2, <2>2 DEF Accounted, Busy
  <2> QED BY <2>1, <2>2
<1>7. ASSUME NEW u \in Targets, u \notin active', steps'[u] # <<>> PROVE Over(steps'[u])
  <2>1. u # t /\ u \notin active /\ steps'[u] = steps[u]
    BY <1>3, <1>7 DEF BeginRun
  <2> QED BY <1>7, <2>1 DEF Accounted
<1>8. Busy(s)'
  BY <1>2 DEF Busy
<1> QED BY <1>3, <1>5, <1>6, <1>7, <1>8 DEF Accounted

LEMMA AccountedIsInductive ==
    TypeOK /\ OneRunPerTarget /\ Accounted /\ [ActivityNext]_activityVars => Accounted'
<1> SUFFICES ASSUME TypeOK, OneRunPerTarget, Accounted, [ActivityNext]_activityVars
             PROVE  Accounted'
  OBVIOUS
<1>1. ASSUME NEW t \in Targets, BeginRun(t), begin(t) PROVE Accounted'
  BY <1>1, BeginAccounts
<1>2. ASSUME NEW s \in Slots, Reports(s) \/ ReportsNothing(s) PROVE Accounted'
  <2>1. Step(s) /\ Busy(s)
    BY <1>2, ReportingIsStepping, StepIsBusy
  <2>2. PICK t \in Targets : t = work[s].target
    BY <2>1 DEF TypeOK
  <2>3. Accounts(s, t)
    BY <1>2, <2>2, StepAccounts
  <2>4. LogsOK' /\ \A u \in Targets \ {t} : steps'[u] = steps[u]
    BY <2>3 DEF Accounts
  <2>5. \A x \in Slots \ {s} : work'[x] = work[x]
    BY <2>1, OneSlotMoves
  <2>6. ASSUME NEW x \in Slots \ {s}
        PROVE  IF Busy(x)' THEN Account(x)' ELSE work'[x] = Blank
    <3>1. CASE Busy(x)
      <4>1. work[x].target \in Targets /\ work[x].target # t
        BY <2>1, <2>2, <3>1 DEF OneRunPerTarget, TypeOK
      <4>2. PICK own : own = work[x].target
        OBVIOUS
      <4>3. work'[x].target = own /\ steps'[own] = steps[own] /\ work'[x] = work[x]
        BY <2>4, <2>5, <4>1, <4>2
      <4>4. Account(x)
        BY <3>1 DEF Accounted
      <4> QED BY <3>1, <4>2, <4>3, <4>4 DEF Account, Busy
    <3>2. CASE ~Busy(x)
      BY <2>5, <3>2 DEF Accounted, Busy
    <3> QED BY <3>1, <3>2
  <2>7. IF Busy(s)' THEN Account(s)' ELSE work'[s] = Blank
    BY <2>3 DEF Accounts, Busy, Blank
  <2>8. ASSUME NEW u \in Targets, u \notin active', steps'[u] # <<>> PROVE Over(steps'[u])
    <3>1. CASE u \notin active
      <4>1. u # t
        BY <2>1, <2>2, <3>1 DEF OneRunPerTarget
      <4> QED BY <2>4, <2>8, <3>1, <4>1 DEF Accounted
    <3>2. CASE u \in active
      <4>1. u = t /\ work[s].step = "settled"
        BY <2>1, <2>2, <2>8, <3>2, StepEffect DEF Continues, Ends
      <4>2. work'[s] = Blank
        BY <2>1, <2>2, <2>8, <3>2, StepEffect DEF Continues, Ends
      <4>3. steps' = steps
        BY <2>3, <4>2 DEF Accounts, Blank
      <4>4. Over(steps[t])
        BY <2>1, <2>2, <4>1 DEF Accounted, Account
      <4> QED BY <4>1, <4>3, <4>4
    <3> QED BY <3>1, <3>2
  <2> QED BY <2>4, <2>6, <2>7, <2>8 DEF Accounted
<1>3. ASSUME Restart, steps' = [t \in Targets |-> <<>>] PROVE Accounted'
  <2>1. LogsOK' /\ \A u \in Targets : steps'[u] = <<>>
    BY <1>3 DEF LogsOK
  <2>2. \A x \in Slots : work'[x] = Blank /\ Blank.step = "idle"
    BY <1>3 DEF Restart, Blank
  <2> QED BY <2>1, <2>2 DEF Accounted, Busy
<1>4. CASE UNCHANGED activityVars
  BY <1>4 DEF activityVars, vars, Accounted, LogsOK, Account, Busy
<1> QED BY <1>1, <1>2, <1>3, <1>4 DEF ActivityNext

LEMMA AccountedAlways == ActivitySpec => []Accounted
<1>1. ActivityInit => Accounted
  BY DEF ActivityInit, Init, Accounted, LogsOK, Busy, Blank
<1>2. TypeOK /\ OneRunPerTarget /\ Accounted /\ [ActivityNext]_activityVars => Accounted'
  BY AccountedIsInductive
<1> QED BY <1>1, <1>2, ActivityWatches, TypeCorrect, OneRunPerTargetAlways, PTL DEF ActivitySpec

\* Nothing that is over looks as if it were under way, however the run ended, whatever its target
\* showed before and however much of the log is forgotten: after a run every stage on display as
\* started has an outcome, or the run is shown as failed (server.ts beginRun, activity-log.ts).
THEOREM EveryStartIsConcludedAlways == ActivitySpec => []EveryStartIsConcluded
<1>1. Accounted => EveryStartIsConcluded
  <2> SUFFICES ASSUME Accounted, NEW t \in Targets, t \notin active, steps[t] # <<>>,
                      steps[t][Len(steps[t])] # Failure,
                      NEW i \in DOMAIN steps[t], steps[t][i].status = "started"
               PROVE  \E j \in i + 1 .. Len(steps[t]) :
                         /\ steps[t][j].stage = steps[t][i].stage
                         /\ steps[t][j].status \in {"done", "failed"}
    BY DEF EveryStartIsConcluded, Failure
  <2>1. steps[t] \in Seq(PipelineStep) /\ Open(steps[t]) = {}
    BY DEF Accounted, LogsOK, Over
  <2>2. i \in 1 .. Len(steps[t]) /\ steps[t][i] \in PipelineStep
    BY <2>1, ElementOfSeq
  <2>3. /\ steps[t][i].stage \in PipelineStage
        /\ steps[t][i] = At(steps[t][i].stage, "started")
    BY <2>2 DEF PipelineStep, At
  <2> QED BY <2>1, <2>2, <2>3 DEF Open
<1> QED BY <1>1, AccountedAlways, PTL
-----------------------------------------------------------------------------
(* The steps on display and the event on record. *)

\* What StepsAgreeWithEvent says of a target.
Agrees(t) ==
    LET event == LatestOf(mem.events, CollectorOf[t])
    IN  IF event = NoEvent THEN HistoryIsFull
        ELSE /\ Published \in Elements(steps[t]) <=> event.state = "healthy"
             /\ RecoveredStep \in Elements(steps[t]) <=> event.state = "recovered"

\* A target whose run has settled, or is over.
Finished(t) ==
    \/ \E s \in Slots : work[s].step = "settled" /\ work[s].target = t
    \/ t \notin active /\ steps[t] # <<>>

\* The inductive invariant: the steps agree from the moment the run has settled.
Agreed == \A t \in Targets : Finished(t) => t \in errors \/ Agrees(t)

LEMMA LatestIsLatest ==
    ASSUME NEW c PROVE latestEvent(c) = LatestOf(mem.events, c)
BY DEF latestEvent, listEvents, LatestOf

\* The event of a run that settles says what its steps say.
LEMMA SettledAgrees ==
    ASSUME TypeOK, Accounted, NEW s \in Slots, Busy(s), NEW t, t = work[s].target,
           SettlesWith(s, t)
    PROVE  t \in errors' \/ Agrees(t)'
<1>1. t \in Targets /\ work[s] \in Locals /\ Account(s) /\ CollectorId(s) = CollectorOf[t]
  BY DEF TypeOK, Accounted, CollectorId
<1>2. CASE RunFails(s)
  BY <1>2 DEF RunFails
<1>3. ASSUME NEW decision \in Decision, NEW published \in BOOLEAN,
             appendEvent(s, decision, published),
             Published \in Elements(steps'[t]) <=>
                stateFor(decision, published, work[s].outcome) = "healthy",
             RecoveredStep \in Elements(steps'[t]) <=>
                stateFor(decision, published, work[s].outcome) = "recovered"
      PROVE  Agrees(t)'
  <2>1. /\ LatestOf(mem'.events, CollectorOf[t]) = EventOf(s, decision, published)
        /\ LatestOf(mem'.events, CollectorOf[t]) # NoEvent
    BY <1>1, <1>3, AppendedEvent
  <2>2. EventOf(s, decision, published).state = stateFor(decision, published, work[s].outcome)
    BY DEF EventOf
  <2> QED BY <1>3, <2>1, <2>2 DEF Agrees
<1>4. CASE RecordPublished(s) /\ Published \in Elements(steps'[t])
           /\ RecoveredStep \notin Elements(steps'[t])
  <2>1. work[s].decision \in Decision /\ appendEvent(s, work[s].decision, TRUE)
    BY <1>4 DEF RecordPublished, TypeOK, DecidedSteps
  <2>2. work[s].outcome = "none"
    BY <1>1, <1>4 DEF RecordPublished, Account
  <2>3. stateFor(work[s].decision, TRUE, work[s].outcome) = "healthy"
    BY <2>2 DEF stateFor
  <2> QED BY <1>3, <1>4, <2>1, <2>3
<1>5. CASE RecordRepair(s) /\ steps' = steps
  <2>1. work[s].decision \in Decision /\ appendEvent(s, work[s].decision, FALSE)
    BY <1>5 DEF RecordRepair, TypeOK, DecidedSteps
  <2>2. /\ Published \notin Elements(steps[t])
        /\ RecoveredStep \in Elements(steps[t]) <=> work[s].outcome = "recovered"
    BY <1>1, <1>5 DEF RecordRepair, Account
  <2>3. work[s].outcome \in {"recovered", "manual_review", "already_in_progress", "none"}
    BY <1>1 DEF Locals, RepairStatus
  <2>4. /\ stateFor(work[s].decision, FALSE, work[s].outcome) # "healthy"
        /\ stateFor(work[s].decision, FALSE, work[s].outcome) = "recovered" <=>
              work[s].outcome = "recovered"
    BY <2>3 DEF stateFor
  <2> QED BY <1>3, <1>5, <2>1, <2>2, <2>4
<1>6. ASSUME NEW decision \in Decision, Withhold(s, decision), work'[s] = Done(s),
             Published \notin Elements(steps'[t]), RecoveredStep \notin Elements(steps'[t]),
             work[s].outcome = "none"
      PROVE  Agrees(t)'
  <2>1. appendEvent(s, decision, FALSE)
    BY <1>6 DEF Withhold
  <2>2. stateFor(decision, FALSE, work[s].outcome) \notin {"healthy", "recovered"}
    BY <1>6 DEF stateFor
  <2> QED BY <1>3, <1>6, <2>1, <2>2
<1> QED BY <1>2, <1>4, <1>5, <1>6 DEF SettlesWith

\* The run of another target leaves what a target shows.
LEMMA OthersStillAgree ==
    ASSUME NEW u, Undisturbed(u), steps'[u] = steps[u]
    PROVE  /\ u \in errors => u \in errors'
           /\ Agrees(u) => Agrees(u)'
BY DEF Undisturbed, Agrees

LEMMA SettledSettles ==
    ASSUME NEW s \in Slots, Step(s), work[s].step = "settled" PROVE Settle(s)
BY DEF Step, RepairSteps, CollectReturns, CollectThrows, ReadBaseline, Classify,
       ConsultReasoner, OpinionReturns, Learn, RecordPublished, RecordRepair, HealStopsShort,
       HealReachesGate, RejectReturns, ApproveReturns, VerifyFails, VerifyPasses, Recovered,
       RepairThrows, RunFails, Settle

LEMMA AgreedIsInductive ==
    ASSUME IsInjective(CollectorOf)
    PROVE  TypeOK /\ OneRunPerTarget /\ Accounted /\ Agreed /\ [ActivityNext]_activityVars
              => Agreed'
<1> SUFFICES ASSUME TypeOK, OneRunPerTarget, Accounted, Agreed, [ActivityNext]_activityVars,
                    NEW u \in Targets, Finished(u)'
             PROVE  u \in errors' \/ Agrees(u)'
  BY DEF Agreed
<1>1. ASSUME NEW t \in Targets, BeginRun(t), begin(t) PROVE u \in errors' \/ Agrees(u)'
  <2>1. PICK s \in Slots : /\ ~Busy(s)
                           /\ SetWork(s, [Blank EXCEPT !.step = "collect", !.target = t])
    BY <1>1 DEF BeginRun, Busy
  <2>2. work'[s].step = "collect" /\ \A x \in Slots \ {s} : work'[x] = work[x]
    BY <2>1 DEF SetWork, TypeOK, Blank
  <2>3. mem' = mem /\ errors' = errors \ {t} /\ active' = active \cup {t} /\ t \notin active
    BY <1>1 DEF BeginRun
  <2>4. u # t
    <3>1. \A x \in Slots : Busy(x) => work[x].target # t
      BY <2>3 DEF OneRunPerTarget
    <3>2. \A x \in Slots : work'[x].step = "settled" => work'[x].target # t
      BY <2>2, <3>1 DEF Busy
    <3> QED BY <2>3, <3>2 DEF Finished
  <2>5. steps'[u] = steps[u]
    BY <1>1, <2>4 DEF begin, Accounted, LogsOK
  <2>6. Finished(u)
    BY <2>2, <2>3, <2>5 DEF Finished
  <2> QED BY <2>3, <2>4, <2>5, <2>6 DEF Agreed, Agrees, HistoryIsFull
<1>2. ASSUME NEW s \in Slots, Reports(s) \/ ReportsNothing(s)
      PROVE  u \in errors' \/ Agrees(u)'
  <2>1. Step(s) /\ Busy(s)
    BY <1>2, ReportingIsStepping, StepIsBusy
  <2>2. PICK t \in Targets : t = work[s].target
    BY <2>1 DEF TypeOK
  <2>3. Accounts(s, t)
    BY <1>2, <2>2, StepAccounts
  <2>4. \A x \in Slots \ {s} : work'[x] = work[x]
    BY <2>1, OneSlotMoves
  <2>5. CASE u # t
    <3>1. steps'[u] = steps[u]
      BY <2>3, <2>5 DEF Accounts
    <3>2. Undisturbed(u)
      BY <2>1, <2>2, <2>5, OthersAreUndisturbed
    <3>3. work'[s].step = "settled" => work'[s].target = t
      BY <2>3 DEF Accounts, Blank
    <3>4. active' = active \/ active' = active \ {t}
      BY <2>1, <2>2, StepEffect DEF Continues, Ends
    <3>5. Finished(u)
      BY <2>4, <2>5, <3>1, <3>3, <3>4 DEF Finished
    <3> QED BY <3>1, <3>2, <3>5, OthersStillAgree DEF Agreed
  <2>6. CASE u = t
    <3>1. CASE work'[s].step = "settled"
      BY <2>1, <2>2, <2>3, <2>6, <3>1, SettledAgrees DEF Accounts
    <3>2. CASE work'[s] = Blank
      <4>1. /\ work[s].step = "settled" /\ steps' = steps
        BY <2>3, <3>2 DEF Accounts, Blank
      <4>2. Finished(u)
        BY <2>2, <2>6, <4>1 DEF Finished
      <4>3. mem' = mem /\ errors' = errors
        <5>1. Ends(s)
          BY <2>1, <3>2, StepEffect DEF Continues, Blank
        <5>2. Settle(s)
          BY <2>1, <4>1, <5>1, SettledSettles DEF Ends
        <5> QED BY <5>2 DEF Settle
      <4> QED BY <4>1, <4>2, <4>3 DEF Agreed, Agrees, HistoryIsFull
    <3>3. CASE work'[s].step # "settled" /\ work'[s].step # "idle"
      <4>1. \A x \in Slots \ {s} : work[x].step = "settled" => work[x].target # t
        BY <2>1, <2>2 DEF OneRunPerTarget, Busy
      <4>2. t \in active /\ active' = active
        BY <2>1, <2>2, <3>3, StepEffect DEF Continues, Ends, Blank, OneRunPerTarget
      <4>3. ~Finished(u)'
        BY <2>4, <2>6, <3>3, <4>1, <4>2 DEF Finished
      <4> QED BY <4>3
    <3> QED BY <2>3, <3>1, <3>2, <3>3 DEF Accounts
  <2> QED BY <2>5, <2>6
<1>3. ASSUME Restart, steps' = [t \in Targets |-> <<>>] PROVE FALSE
  <2>1. steps'[u] = <<>> /\ \A x \in Slots : work'[x] = Blank /\ Blank.step = "idle"
    BY <1>3 DEF Restart, Blank
  <2> QED BY <2>1 DEF Finished
<1>4. CASE UNCHANGED activityVars
  BY <1>4 DEF activityVars, vars, Agreed, Agrees, HistoryIsFull, Finished
<1> QED BY <1>1, <1>2, <1>3, <1>4 DEF ActivityNext

\* "Data was published" and "data was not published" never look alike, when every site has its own
\* collector: once a run is over without an error, the steps it shows say published, or recovered,
\* exactly when the event on record says so, and that event is only ever missing from a history
\* that is full (server.ts beginRun, self-healing-orchestrator.ts, json-file-repository.ts).
THEOREM StepsAgreeWithEventAlways ==
    ASSUME IsInjective(CollectorOf)
    PROVE  ActivitySpec => []StepsAgreeWithEvent
<1>1. ActivityInit => Agreed
  BY DEF ActivityInit, Init, Agreed, Finished, Blank
<1>2. TypeOK /\ OneRunPerTarget /\ Accounted /\ Agreed /\ [ActivityNext]_activityVars => Agreed'
  BY AgreedIsInductive
<1>3. Agreed => StepsAgreeWithEvent
  BY LatestIsLatest
  DEF Agreed, Agrees, Finished, StepsAgreeWithEvent, Concluded, Entries, Elements, Published,
      RecoveredStep
<1> QED
  BY <1>1, <1>2, <1>3, ActivityWatches, TypeCorrect, OneRunPerTargetAlways, AccountedAlways, PTL
  DEF ActivitySpec
-----------------------------------------------------------------------------
(* The verdict an event carries, and the rows behind it. *)

\* The verdicts that publish.
PublishedKinds == {"healthy", "legitimate_change"}

\* An event is shown as healthy exactly when its verdict was, and then its site has rows to show.
Truthful(event, snapshots) ==
    /\ event.state = "healthy" <=> event.classification \in PublishedKinds
    /\ event.state = "healthy" => snapshots[event.collector] # NoBaseline

\* A contract that accepts no empty page.
AsksForRows(stored) == stored # NoContract => stored.minimumRows >= 1

StoreIsTruthful(store) ==
    /\ \A c \in Collectors : store.snapshots[c] # <<>> /\ AsksForRows(store.contracts[c])
    /\ \A i \in 1 .. Len(store.events) : Truthful(store.events[i], store.snapshots)

RunIsTruthful(s) ==
    /\ work[s].step \in HoldsContract => AsksForRows(work[s].stored)
    /\ work[s].step \in {"publish", "learn"} =>
          /\ work[s].decision.classification \in PublishedKinds
          /\ mem.snapshots[CollectorId(s)] # NoBaseline
    /\ work[s].step \in RepairSteps \cup {"report"} =>
          work[s].decision.classification \notin PublishedKinds

\* The inductive invariant: the history, the file and the runs on their way to an event.
AllTruthful ==
    /\ StoreIsTruthful(mem)
    /\ StoreIsTruthful(disk)
    /\ \A s \in Slots : RunIsTruthful(s)

\* A run publishes exactly on a verdict that publishes, whatever Gemini said of it.
LEMMA VerdictsThatPublish ==
    ASSUME TypeOK, NEW s \in Slots, work[s].step \in {"baseline", "reason"},
           NEW llm \in Opinions \cup {NoOpinion}
    PROVE  LET decision == mergeReasoning(Deterministic(s), llm)
           IN  Publishable(s, decision) <=> decision.classification \in PublishedKinds
<1> DEFINE found == Deterministic(s)
           decision == mergeReasoning(found, llm)
           evaluation == EvaluationOf(s)
           run == work[s].run
           contract == ContractFor(work[s].stored)
           compared == ClassifyAgainstBaseline(evaluation.acceptedRecords, work[s].previous,
                                               contract)
<1>1. found \in Decision
  BY VerdictType
<1>2. /\ decision.classification = found.classification
      /\ decision.recommendedAction = "publish" <=> found.recommendedAction = "publish"
  <2> HIDE DEF found
  <2>1. CASE llm = NoOpinion \/ llm.classification = found.classification
    BY <2>1 DEF mergeReasoning
  <2>2. CASE ~(llm = NoOpinion \/ llm.classification = found.classification)
    BY <1>1, <2>2 DEF mergeReasoning, Decision, RecommendedAction
  <2> QED BY <2>1, <2>2
<1>3. /\ ClassifyFailedRun(run).classification \notin PublishedKinds
      /\ ClassifyFailedRun(run).recommendedAction # "publish"
  BY DEF ClassifyFailedRun, Verdict, PublishedKinds
<1>4. /\ ClassifyExtractionErrors(run.extractionErrors).classification \notin PublishedKinds
      /\ ClassifyExtractionErrors(run.extractionErrors).recommendedAction # "publish"
  BY DEF ClassifyExtractionErrors, Verdict, PublishedKinds
<1>5. /\ compared.classification \in PublishedKinds => compared.recommendedAction = "publish"
      /\ compared.recommendedAction = "publish" => compared.classification \in PublishedKinds
  BY DEF ClassifyAgainstBaseline, Verdict, PublishedKinds
<1>6. found = classifyRun(run, evaluation, work[s].previous, contract)
  BY DEF Deterministic
<1>7. \/ found = compared /\ run.records # <<>> /\ evaluation.valid
      \/ /\ found.classification \notin PublishedKinds
         /\ found.recommendedAction # "publish"
  BY <1>3, <1>4, <1>6 DEF classifyRun, Verdict, PublishedKinds
<1> QED BY <1>2, <1>5, <1>7 DEF Publishable, PublishedKinds

\* How a run comes by the verdict it acts on.
Decides(s) ==
    \/ work'[s].step \notin DecidedSteps
    \/ /\ work[s].step \in DecidedSteps
       /\ work'[s].decision = work[s].decision
       /\ work'[s].step \in {"publish", "learn"} <=> work[s].step \in {"publish", "learn"}
    \/ /\ work[s].step \in {"baseline", "reason"}
       /\ work'[s].step = "publish" /\ work'[s].decision.classification \in PublishedKinds
    \/ /\ work[s].step \in {"baseline", "reason"}
       /\ work'[s].step \in {"heal", "report"}
       /\ work'[s].decision.classification \notin PublishedKinds

LEMMA ActOnDecides ==
    ASSUME TypeOK, NEW s \in Slots, work[s].step \in {"baseline", "reason"},
           NEW decision, ActOn(s, decision),
           Publishable(s, decision) <=> decision.classification \in PublishedKinds
    PROVE  Decides(s)
<1>1. work \in [Slots -> Locals] /\ work[s] \in Locals
  BY DEF TypeOK
<1>2. CASE Publish(s, decision)
  <2> DEFINE resolved == [Suspend(s, "publish") EXCEPT !.decision = decision]
  <2>1. work'[s] \in {resolved, Throw(s)}
    BY <1>2, PersistMoves DEF Publish
  <2>2. resolved.step = "publish" /\ resolved.decision = decision
    BY <1>1 DEF Suspend, Locals
  <2> QED BY <1>2, <2>1, <2>2, SteppedLocals DEF Publish, Decides, DecidedSteps, RepairSteps
<1>3. CASE StartRepair(s, decision)
  <2>1. work'[s] = [Suspend(s, "heal") EXCEPT !.decision = decision]
    BY <1>1, <1>3 DEF StartRepair, SetWork
  <2>2. work'[s].step = "heal" /\ work'[s].decision = decision
    BY <1>1, <2>1 DEF Suspend, Locals
  <2> QED BY <1>3, <2>2 DEF StartRepair, Decides
<1>4. CASE RepairInProgress(s, decision)
  <2>1. work'[s] = [Suspend(s, "report") EXCEPT !.decision = decision,
                                                !.outcome = "already_in_progress"]
    BY <1>1, <1>4 DEF RepairInProgress, SetWork
  <2>2. work'[s].step = "report" /\ work'[s].decision = decision
    BY <1>1, <2>1 DEF Suspend, Locals
  <2> QED BY <1>4, <2>2 DEF RepairInProgress, Decides
<1>5. CASE Withhold(s, decision)
  <2>1. work'[s] \in {Done(s), Throw(s)}
    BY <1>5, PersistMoves DEF Withhold, appendEvent
  <2> QED BY <2>1, SteppedLocals DEF Decides, DecidedSteps, RepairSteps
<1> QED BY <1>2, <1>3, <1>4, <1>5 DEF ActOn

\* The step on a verdict.
LEMMA JudgingActs ==
    ASSUME TypeOK, NEW s \in Slots, Classify(s) \/ OpinionReturns(s)
    PROVE  /\ work[s].step \in {"baseline", "reason"}
           /\ \E decision \in Decision :
                 /\ ActOn(s, decision)
                 /\ Publishable(s, decision) <=> decision.classification \in PublishedKinds
<1>1. work[s].step \in {"baseline", "reason"}
  BY DEF Classify, OpinionReturns
<1>2. CASE Classify(s)
  <2>1. mergeReasoning(Deterministic(s), NoOpinion) = Deterministic(s)
    BY DEF mergeReasoning
  <2> QED BY <1>1, <1>2, <2>1, VerdictType, VerdictsThatPublish DEF Classify
<1>3. CASE OpinionReturns(s)
  BY <1>1, <1>3, VerdictType, VerdictsThatPublish DEF OpinionReturns
<1> QED BY <1>1, <1>2, <1>3

LEMMA StepDecides ==
    ASSUME TypeOK, NEW s \in Slots, Step(s)
    PROVE  Decides(s)
<1> USE DEF RepairSteps, DecidedSteps
<1>1. work \in [Slots -> Locals] /\ work[s] \in Locals
  BY DEF TypeOK
<1>2. CASE CollectReturns(s) \/ ReadBaseline(s)
  <2>1. CASE CollectReturns(s)
    <3>1. work'[s].step = "contract"
      BY <1>1, <2>1 DEF CollectReturns, SetWork, Suspend, Locals
    <3> QED BY <3>1 DEF Decides
  <2>2. CASE ReadBaseline(s)
    <3>1. work'[s].step = "baseline"
      BY <1>1, <2>2 DEF ReadBaseline, SetWork, Suspend, Locals
    <3> QED BY <3>1 DEF Decides
  <2> QED BY <1>2, <2>1, <2>2
<1>3. CASE CollectThrows(s) \/ RepairThrows(s) \/ RunFails(s) \/ Settle(s)
  <2>1. work'[s] \in {Throw(s), Done(s), Blank}
    BY <1>1, <1>3 DEF CollectThrows, RepairThrows, RunFails, Settle, SetWork
  <2> QED BY <2>1, SteppedLocals DEF Decides, Blank
<1>4. CASE ConsultReasoner(s)
  BY <1>1, <1>4, SteppedLocals DEF ConsultReasoner, SetWork, Decides
<1>5. CASE Classify(s) \/ OpinionReturns(s)
  BY <1>5, JudgingActs, ActOnDecides
<1>6. CASE Learn(s)
  <2>1. work[s].step = "publish" /\ work'[s] \in {Suspend(s, "learn"), Throw(s)}
    BY <1>6, PersistMoves DEF Learn
  <2>2. Suspend(s, "learn").decision = work[s].decision
    BY <1>1 DEF Suspend, Locals
  <2> QED BY <2>1, <2>2, SteppedLocals DEF Decides
<1>7. CASE RecordPublished(s) \/ RecordRepair(s)
  <2>1. work'[s] \in {Done(s), Throw(s)}
    BY <1>7, PersistMoves DEF RecordPublished, RecordRepair, appendEvent
  <2> QED BY <2>1, SteppedLocals DEF Decides
<1>8. CASE HealStopsShort(s) \/ RejectReturns(s) \/ VerifyFails(s) \/ Recovered(s)
  <2>1. /\ work[s].step \in RepairSteps
        /\ \E outcome : work'[s] = [Suspend(s, "report") EXCEPT !.outcome = outcome]
    BY <1>1, <1>8
    DEF HealStopsShort, RejectReturns, VerifyFails, Recovered, EndRepair, SetWork
  <2>2. work'[s].step = "report" /\ work'[s].decision = work[s].decision
    BY <1>1, <2>1 DEF Suspend, Locals
  <2> QED BY <2>1, <2>2 DEF Decides
<1>9. CASE HealReachesGate(s) \/ ApproveReturns(s)
  <2>1. /\ work[s].step \in RepairSteps
        /\ \E step \in RepairSteps : work'[s] = Suspend(s, step)
    BY <1>1, <1>9 DEF HealReachesGate, ApproveReturns, SetWork
  <2>2. \A step : Suspend(s, step).decision = work[s].decision
    BY <1>1 DEF Suspend, Locals
  <2> QED BY <2>1, <2>2, SteppedLocals DEF Decides
<1>10. CASE VerifyPasses(s)
  <2>1. work[s].step = "verify" /\ work'[s] \in {Suspend(s, "recover"), Throw(s)}
    BY <1>10, PersistMoves DEF VerifyPasses
  <2>2. Suspend(s, "recover").decision = work[s].decision
    BY <1>1 DEF Suspend, Locals
  <2> QED BY <2>1, <2>2, SteppedLocals DEF Decides
<1> QED
  BY <1>2, <1>3, <1>4, <1>5, <1>6, <1>7, <1>8, <1>9, <1>10 DEF Step

\* The events of the history after one more: that one, and events it held before.
LEMMA AppendedIsOne ==
    ASSUME NEW events \in Seq(RepairEvent), NEW event \in RepairEvent,
           NEW i \in 1 .. Len(Newest(Append(events, event)))
    PROVE  \/ Newest(Append(events, event))[i] = event
           \/ \E j \in 1 .. Len(events) : Newest(Append(events, event))[i] = events[j]
<1> DEFINE longer == Append(events, event)
           new == Newest(longer)
<1>1. /\ longer \in Seq(RepairEvent) /\ Len(events) \in Nat /\ Len(longer) = Len(events) + 1
      /\ longer[Len(events) + 1] = event /\ \A j \in 1 .. Len(events) : longer[j] = events[j]
  BY AppendProperties
<1> HIDE DEF longer
<1>2. PICK gone \in Nat :
         /\ Len(new) = Len(longer) - gone
         /\ \A j \in 1 .. Len(longer) - gone : new[j] = longer[j + gone]
         /\ gone = IF Len(longer) > MAX_EVENTS THEN Len(longer) - MAX_EVENTS ELSE 0
  BY <1>1, NewestKeeps
<1>3. i \in 1 .. Len(new)
  BY DEF longer
<1>4. i + gone \in 1 .. Len(events) + 1 /\ new[i] = longer[i + gone]
  BY <1>1, <1>2, <1>3
<1>5. new[i] = event \/ \E j \in 1 .. Len(events) : new[i] = events[j]
  BY <1>1, <1>4
<1> QED BY <1>5 DEF longer

\* What a step of a run leaves in the history.
LEMMA StepAppends ==
    ASSUME TypeOK, Accounted, NEW s \in Slots, Step(s), RunIsTruthful(s)
    PROVE  \/ mem'.events = mem.events
           \/ \E event \in RepairEvent :
                 /\ mem'.events = Newest(Append(mem.events, event))
                 /\ Truthful(event, mem.snapshots)
<1>1. Busy(s) /\ work[s] \in Locals /\ mem \in PersistedState
  BY StepIsBusy DEF TypeOK
<1>2. ASSUME NEW decision \in Decision, NEW published \in BOOLEAN,
             appendEvent(s, decision, published),
             published /\ work[s].outcome = "none" <=>
                decision.classification \in PublishedKinds,
             published => mem.snapshots[CollectorId(s)] # NoBaseline
      PROVE  \E event \in RepairEvent :
                /\ mem'.events = Newest(Append(mem.events, event))
                /\ Truthful(event, mem.snapshots)
  <2> DEFINE event == EventOf(s, decision, published)
  <2>1. work[s].outcome \in RepairStatus \cup {"none"}
    BY <1>1 DEF Locals
  <2>2. /\ stateFor(decision, published, work[s].outcome) \in EventState
        /\ stateFor(decision, published, work[s].outcome) = "healthy" <=>
              published /\ work[s].outcome = "none"
    BY <2>1 DEF stateFor, EventState, RepairStatus
  <2>3. VerificationFor(work[s].outcome) \in VerificationStatus
    BY <2>1 DEF VerificationFor, VerificationStatus, RepairStatus
  <2>4. event \in RepairEvent
    BY <1>1, <2>2, <2>3, CollectorIdType DEF EventOf, RepairEvent, Decision
  <2>5. /\ event.collector = CollectorId(s) /\ event.classification = decision.classification
        /\ event.state = stateFor(decision, published, work[s].outcome)
    BY DEF EventOf
  <2>6. mem' = [mem EXCEPT !.events = Newest(Append(@, event))]
    BY <1>2 DEF appendEvent, Persist, EventOf
  <2> HIDE DEF event
  <2>7. mem'.events = Newest(Append(mem.events, event))
    BY <1>1, <2>6 DEF PersistedState
  <2>8. Truthful(event, mem.snapshots)
    BY <1>2, <2>2, <2>5 DEF Truthful
  <2> QED BY <2>4, <2>7, <2>8
<1>3. CASE Classify(s) \/ OpinionReturns(s)
  <2>1. PICK decision \in Decision :
           /\ ActOn(s, decision)
           /\ Publishable(s, decision) <=> decision.classification \in PublishedKinds
    BY <1>3, JudgingActs
  <2>2. CASE Publish(s, decision)
    BY <1>1, <2>2 DEF Publish, Persist, saveLastKnownGood, PersistedState
  <2>3. CASE StartRepair(s, decision) \/ RepairInProgress(s, decision)
    BY <2>3 DEF StartRepair, RepairInProgress
  <2>4. CASE Withhold(s, decision)
    <3>1. appendEvent(s, decision, FALSE) /\ decision.classification \notin PublishedKinds
      BY <2>1, <2>4 DEF Withhold
    <3> QED BY <1>2, <3>1
  <2> QED BY <2>1, <2>2, <2>3, <2>4 DEF ActOn
<1>4. CASE Learn(s)
  BY <1>1, <1>4 DEF Learn, Persist, saveContract, PersistedState
<1>5. CASE RecordPublished(s)
  <2>1. work[s].step \in {"publish", "learn"} /\ appendEvent(s, work[s].decision, TRUE)
    BY <1>5 DEF RecordPublished
  <2>2. work[s].decision \in Decision /\ work[s].outcome = "none"
    BY <1>1, <2>1 DEF TypeOK, DecidedSteps, Accounted, Account
  <2>3. /\ work[s].decision.classification \in PublishedKinds
        /\ mem.snapshots[CollectorId(s)] # NoBaseline
    BY <2>1 DEF RunIsTruthful
  <2> QED BY <1>2, <2>1, <2>2, <2>3
<1>6. CASE RecordRepair(s)
  <2>1. work[s].step = "report" /\ appendEvent(s, work[s].decision, FALSE)
    BY <1>6 DEF RecordRepair
  <2>2. /\ work[s].decision \in Decision
        /\ work[s].decision.classification \notin PublishedKinds
    BY <2>1 DEF TypeOK, DecidedSteps, RunIsTruthful
  <2> QED BY <1>2, <2>1, <2>2
<1>7. CASE VerifyPasses(s)
  BY <1>1, <1>7 DEF VerifyPasses, Persist, saveLastKnownGood, PersistedState
<1>8. CASE mem' = mem
  BY <1>8
<1> QED BY <1>3, <1>4, <1>5, <1>6, <1>7, <1>8
  DEF Step, CollectReturns, CollectThrows, ReadBaseline, ConsultReasoner, HealStopsShort,
      HealReachesGate, RejectReturns, ApproveReturns, VerifyFails, Recovered, RepairThrows,
      RunFails, Settle

\* Rows that satisfy a contract that asks for rows are rows.
LEMMA SatisfyingRowsExist ==
    ASSUME NEW rows \in Seq(Row), NEW stored \in Contract \cup {NoContract}, AsksForRows(stored),
           evaluateContract(rows, ContractFor(stored)).valid
    PROVE  rows # <<>>
<1>1. ContractFor(stored).minimumRows \in Nat /\ ContractFor(stored).minimumRows >= 1
  BY DEF ContractFor, AsksForRows, BOOTSTRAP_CONTRACT, Contract
<1>2. Len(rows) >= ContractFor(stored).minimumRows
  BY DEF evaluateContract
<1> QED BY <1>1, <1>2

\* What a run writes keeps the store truthful, and no rows are ever taken away.
LEMMA StepKeepsStore ==
    ASSUME TypeOK, Accounted, NEW s \in Slots, Step(s), RunIsTruthful(s), StoreIsTruthful(mem)
    PROVE  /\ StoreIsTruthful(mem')
           /\ \A c \in Collectors : mem.snapshots[c] # NoBaseline => mem'.snapshots[c] # NoBaseline
<1> DEFINE own == CollectorId(s)
<1>1. /\ own \in Collectors /\ mem \in PersistedState /\ work[s] \in Locals
      /\ work[s].stored \in Contract \cup {NoContract}
  BY StepIsBusy, CollectorIdType DEF TypeOK, Locals
<1>2. MemEffect(s)
  BY StepEffects DEF Effects
<1>3. /\ \A c \in Collectors : mem'.snapshots[c] # <<>> /\ AsksForRows(mem'.contracts[c])
      /\ \A c \in Collectors : mem.snapshots[c] # NoBaseline => mem'.snapshots[c] # NoBaseline
  <2>1. CASE mem'.snapshots = mem.snapshots /\ mem'.contracts = mem.contracts
    BY <2>1 DEF StoreIsTruthful
  <2>2. CASE /\ work[s].step \in HoldsContract
             /\ \E rows \in Seq(Row) :
                   /\ mem' = saveLastKnownGood(own, rows)
                   /\ evaluateContract(rows, ContractFor(work[s].stored)).valid
    <3>1. PICK rows \in Seq(Row) :
             /\ mem' = saveLastKnownGood(own, rows)
             /\ evaluateContract(rows, ContractFor(work[s].stored)).valid
      BY <2>2
    <3>2. rows # <<>> /\ rows # NoBaseline
      BY <1>1, <2>2, <3>1, SatisfyingRowsExist, NoBaselineAssumption DEF RunIsTruthful
    <3>3. /\ mem'.contracts = mem.contracts /\ mem'.snapshots[own] = rows
          /\ \A c \in Collectors \ {own} : mem'.snapshots[c] = mem.snapshots[c]
      BY <1>1, <3>1 DEF saveLastKnownGood, PersistedState
    <3> QED BY <3>2, <3>3 DEF StoreIsTruthful
  <2>3. CASE mem' = saveContract(own, profileContract(EvaluationOf(s).acceptedRecords))
    <3> DEFINE learned == profileContract(EvaluationOf(s).acceptedRecords)
    <3>1. learned.minimumRows = 1
      BY DEF profileContract
    <3> HIDE DEF learned
    <3>2. mem' = saveContract(own, learned)
      BY <2>3 DEF learned
    <3>3. /\ mem'.snapshots = mem.snapshots /\ mem'.contracts[own] = learned
          /\ \A c \in Collectors \ {own} : mem'.contracts[c] = mem.contracts[c]
      BY <1>1, <3>2 DEF saveContract, PersistedState
    <3>4. AsksForRows(learned)
      BY <3>1 DEF AsksForRows
    <3> QED BY <3>3, <3>4 DEF StoreIsTruthful
  <2> QED BY <1>2, <2>1, <2>2, <2>3 DEF MemEffect
<1>4. ASSUME NEW event \in RepairEvent, Truthful(event, mem.snapshots)
      PROVE  Truthful(event, mem'.snapshots)
  BY <1>3, <1>4 DEF Truthful, RepairEvent
<1>5. mem.events \in Seq(RepairEvent)
  BY <1>1 DEF PersistedState
<1>6. ASSUME NEW i \in 1 .. Len(mem.events)
      PROVE  mem.events[i] \in RepairEvent /\ Truthful(mem.events[i], mem.snapshots)
  BY <1>5, ElementOfSeq DEF StoreIsTruthful
<1>7. \A i \in 1 .. Len(mem'.events) : Truthful(mem'.events[i], mem'.snapshots)
  <2>1. CASE mem'.events = mem.events
    BY <1>4, <1>6, <2>1
  <2>2. CASE \E event \in RepairEvent :
                /\ mem'.events = Newest(Append(mem.events, event))
                /\ Truthful(event, mem.snapshots)
    <3>1. PICK event \in RepairEvent :
             /\ mem'.events = Newest(Append(mem.events, event))
             /\ Truthful(event, mem.snapshots)
      BY <2>2
    <3>2. ASSUME NEW i \in 1 .. Len(mem'.events)
          PROVE  mem'.events[i] = event \/ \E j \in 1 .. Len(mem.events) : mem'.events[i] = mem.events[j]
      BY <1>5, <3>1, AppendedIsOne
    <3> QED BY <1>4, <1>6, <3>1, <3>2
  <2> QED BY <2>1, <2>2, StepAppends
<1> QED BY <1>3, <1>7 DEF StoreIsTruthful

\* A run stays truthful by its own step.
LEMMA StepKeepsRun ==
    ASSUME TypeOK, Accounted, NEW s \in Slots, Step(s), RunIsTruthful(s), StoreIsTruthful(mem)
    PROVE  RunIsTruthful(s)'
<1> DEFINE own == CollectorId(s)
<1>1. /\ own \in Collectors /\ mem \in PersistedState /\ MemEffect(s) /\ ReadsEffect(s)
      /\ Decides(s)
  BY StepIsBusy, CollectorIdType, StepEffects, StepDecides DEF TypeOK, Effects
<1>2. work'[s].step \in HoldsContract => AsksForRows(work'[s].stored)
  BY <1>1 DEF ReadsEffect, RunIsTruthful, StoreIsTruthful
<1>3. ASSUME work'[s].step \in {"publish", "learn"}
      PROVE  /\ work'[s].decision.classification \in PublishedKinds
             /\ mem'.snapshots[CollectorId(s)'] # NoBaseline
  <2>1. CollectorId(s)' = own
    BY <1>3, StepEffect DEF Continues, Ends, CollectorId, Blank
  <2>2. work'[s].decision.classification \in PublishedKinds
    BY <1>1, <1>3 DEF Decides, DecidedSteps, RunIsTruthful
  <2>3. CASE work[s].step \in {"publish", "learn"}
    <3>1. mem.snapshots[own] # NoBaseline
      BY <2>3 DEF RunIsTruthful
    <3>2. mem'.snapshots[own] # NoBaseline
      BY <1>1, <3>1, StepKeepsStore
    <3> QED BY <2>1, <2>2, <3>2
  <2>4. CASE work'[s].step = "publish" /\ work[s].step \notin {"publish", "learn"}
    <3>1. PICK rows \in Seq(Row) : mem' = saveLastKnownGood(own, rows)
      BY <1>1, <2>4 DEF MemEffect
    <3>2. mem'.snapshots[own] = rows
      BY <1>1, <3>1 DEF saveLastKnownGood, PersistedState
    <3> QED BY <2>1, <2>2, <3>2, NoBaselineAssumption
  <2> QED BY <1>1, <1>3, <2>3, <2>4 DEF Decides, DecidedSteps
<1>4. ASSUME work'[s].step \in RepairSteps \cup {"report"}
      PROVE  work'[s].decision.classification \notin PublishedKinds
  <2>1. work'[s].step \notin {"publish", "learn"} /\ work'[s].step \in DecidedSteps
    BY <1>4 DEF RepairSteps, DecidedSteps
  <2> QED BY <1>1, <2>1 DEF Decides, DecidedSteps, RunIsTruthful
<1> QED BY <1>2, <1>3, <1>4 DEF RunIsTruthful

LEMMA AllTruthfulIsInductive ==
    TypeOK /\ Accounted /\ AllTruthful /\ [Next]_vars => AllTruthful'
<1> SUFFICES ASSUME TypeOK, Accounted, AllTruthful, [Next]_vars PROVE AllTruthful'
  OBVIOUS
<1>1. ASSUME NEW t \in Targets, BeginRun(t) PROVE AllTruthful'
  <2>1. \A x \in Slots : work'[x] = work[x] \/ work'[x].step = "collect"
    BY <1>1 DEF BeginRun, SetWork, TypeOK, Blank
  <2>2. mem' = mem /\ disk' = disk
    BY <1>1 DEF BeginRun
  <2>3. ASSUME NEW x \in Slots PROVE RunIsTruthful(x)'
    <3>1. CASE work'[x] = work[x]
      BY <2>2, <3>1 DEF AllTruthful, RunIsTruthful, CollectorId
    <3>2. CASE work'[x].step = "collect"
      BY <3>2 DEF RunIsTruthful, HoldsContract, RepairSteps
    <3> QED BY <2>1, <3>1, <3>2
  <2> QED BY <2>2, <2>3 DEF AllTruthful
<1>2. ASSUME NEW s \in Slots, Step(s) PROVE AllTruthful'
  <2>1. RunIsTruthful(s) /\ StoreIsTruthful(mem) /\ StoreIsTruthful(disk)
    BY DEF AllTruthful
  <2>2. /\ StoreIsTruthful(mem')
        /\ \A c \in Collectors : mem.snapshots[c] # NoBaseline => mem'.snapshots[c] # NoBaseline
    BY <1>2, <2>1, StepKeepsStore
  <2>3. StoreIsTruthful(disk')
    <3>1. DiskEffect
      BY <1>2, StepEffects DEF Effects
    <3> QED BY <2>1, <2>2, <3>1 DEF DiskEffect
  <2>4. RunIsTruthful(s)'
    BY <1>2, <2>1, StepKeepsRun
  <2>5. ASSUME NEW x \in Slots \ {s} PROVE RunIsTruthful(x)'
    <3>1. work'[x] = work[x] /\ RunIsTruthful(x)
      BY <1>2, OneSlotMoves DEF AllTruthful
    <3>2. work[x].step \in {"publish", "learn"} => CollectorId(x) \in Collectors
      BY CollectorIdType DEF Busy
    <3> QED BY <2>2, <3>1, <3>2 DEF RunIsTruthful, CollectorId
  <2> QED BY <2>2, <2>3, <2>4, <2>5 DEF AllTruthful
<1>3. CASE Restart
  <2>1. \A x \in Slots : work'[x].step = "idle"
    BY <1>3 DEF Restart, Blank
  <2>2. \A x \in Slots : RunIsTruthful(x)'
    BY <2>1 DEF RunIsTruthful, HoldsContract, RepairSteps
  <2> QED BY <1>3, <2>2 DEF Restart, AllTruthful
<1>4. CASE UNCHANGED vars
  BY <1>4 DEF vars, AllTruthful, RunIsTruthful, CollectorId
<1> QED BY <1>1, <1>2, <1>3, <1>4 DEF Next

LEMMA AllTruthfulAlways == ActivitySpec => []AllTruthful
<1>1. ActivityInit => AllTruthful
  <2> SUFFICES ASSUME ActivityInit PROVE AllTruthful
    OBVIOUS
  <2>1. mem = Empty /\ disk = Empty /\ \A s \in Slots : work[s].step = "idle"
    BY DEF ActivityInit, Init, Blank
  <2>2. \A s \in Slots : RunIsTruthful(s)
    BY <2>1 DEF RunIsTruthful, HoldsContract, RepairSteps
  <2>3. StoreIsTruthful(Empty)
    <3>1. /\ \A c \in Collectors : Empty.snapshots[c] = NoBaseline /\ Empty.contracts[c] = NoContract
          /\ Empty.events = <<>>
      BY DEF Empty
    <3>2. NoBaseline # <<>>
      BY EmptySeq, NoBaselineAssumption
    <3>3. 1 .. Len(Empty.events) = {}
      BY <3>1
    <3> QED BY <3>1, <3>2, <3>3 DEF StoreIsTruthful, AsksForRows
  <2> QED BY <2>1, <2>2, <2>3 DEF AllTruthful
<1>2. [ActivityNext]_activityVars => [Next]_vars
  BY ActivityStepIsStep
<1>3. TypeOK /\ Accounted /\ AllTruthful /\ [Next]_vars => AllTruthful'
  BY AllTruthfulIsInductive
<1> QED
  BY <1>1, <1>2, <1>3, ActivityWatches, TypeCorrect, AccountedAlways, PTL DEF ActivitySpec
-----------------------------------------------------------------------------
(* One page. *)

\* The latest event of a site is one of the history.
LEMMA LatestIsTruthful ==
    ASSUME TypeOK, StoreIsTruthful(mem), NEW c \in Collectors, latestEvent(c) # NoEvent
    PROVE  /\ latestEvent(c) \in RepairEvent /\ latestEvent(c).collector = c
           /\ Truthful(latestEvent(c), mem.snapshots)
<1> DEFINE events == mem.events
<1>1. events \in Seq(RepairEvent)
  BY DEF TypeOK, PersistedState
<1>2. latestEvent(c) = LatestOf(events, c)
  BY LatestIsLatest
<1>3. PICK i \in 1 .. Len(events) :
         /\ events[i].collector = c
         /\ \A j \in 1 .. Len(events) : events[j].collector = c => j <= i
  BY <1>1, <1>2, LatestExists, LatestIsNone
<1>4. LatestOf(events, c) = events[i]
  BY <1>1, <1>3, LatestIsLast
<1>5. events[i] \in RepairEvent
  BY <1>1, <1>3, ElementOfSeq
<1> QED BY <1>2, <1>3, <1>4, <1>5 DEF StoreIsTruthful

\* The badge, the notice, the summary and the feed of one page never contradict each other, when
\* every site has its own collector: what is called published has rows, a healthy badge and no
\* notice that it is old, and the notice goes with a badge and a feed that know of no published or
\* recovered data (server.ts buildTargetStatus, components.ts).
THEOREM PageAgreesWithItselfAlways ==
    ASSUME IsInjective(CollectorOf)
    PROVE  ActivitySpec => []PageAgreesWithItself
<1>1. TypeOK /\ AllTruthful /\ StepsAgreeWithEvent => PageAgreesWithItself
  <2> SUFFICES ASSUME TypeOK, AllTruthful, StepsAgreeWithEvent, NEW t \in Targets
               PROVE  LET status == buildTargetStatus(t)
                          badge == describeState(status.state)
                          situation == describeSituation(status)
                          feed == Entries(t)
                      IN  /\ situation \in {"published", "changed"} =>
                                /\ status.records # <<>> /\ badge = "Healthy"
                                /\ ~isShowingStaleData(status)
                          /\ situation \in {"no_longer_matches", "nothing_reached", "uncertain"}
                                /\ status.state # "recovered" =>
                                badge # "Healthy"
                                /\ (status.records # <<>> => isShowingStaleData(status))
                          /\ isShowingStaleData(status) /\ ~status.failed =>
                                {At("publish", "done"), At("verify", "done")} \cap feed = {}
    BY DEF PageAgreesWithItself
  <2> DEFINE c == CollectorOf[t]
             snapshot == mem.snapshots[c]
             latest == latestEvent(c)
             status == buildTargetStatus(t)
             situation == describeSituation(status)
  <2>1. c \in Collectors /\ snapshot # <<>> /\ StoreIsTruthful(mem)
    BY ActorsAssumption DEF AllTruthful, StoreIsTruthful
  <2>2. /\ status.latest = latest /\ status.busy = (t \in active) /\ status.failed = (t \in errors)
        /\ status.records = IF snapshot # NoBaseline THEN snapshot ELSE <<>>
        /\ t \in active => status.state = "running"
        /\ t \notin active /\ latest # NoEvent => status.state = latest.state
        /\ t \notin active /\ latest = NoEvent => status.state \in {"healthy", "idle"}
    BY DEF buildTargetStatus
  <2>3. latest # NoEvent =>
           /\ latest.state \in EventState /\ latest.classification \in Classification
           /\ latest.state = "healthy" <=> latest.classification \in PublishedKinds
           /\ latest.state = "healthy" => snapshot # NoBaseline
    BY <2>1, LatestIsTruthful DEF Truthful, RepairEvent
  <2> HIDE DEF latest, status, snapshot, c
  <2>4. situation \in {"published", "changed", "no_longer_matches", "nothing_reached", "uncertain"}
           => t \notin active /\ latest # NoEvent
    BY <2>2 DEF describeSituation
  <2>5. situation \in {"published", "changed"} =>
           /\ latest.classification \in PublishedKinds
    BY <2>2, <2>3 DEF describeSituation, Classification, PublishedKinds
  <2>6. situation \in {"no_longer_matches", "nothing_reached", "uncertain"} =>
           latest.classification \notin PublishedKinds
    BY <2>2, <2>3 DEF describeSituation, Classification, PublishedKinds
  <2>7. situation \in {"published", "changed"} =>
           /\ status.records # <<>> /\ describeState(status.state) = "Healthy"
           /\ ~isShowingStaleData(status)
    BY <2>1, <2>2, <2>3, <2>4, <2>5 DEF describeState, isShowingStaleData, CURRENT_DATA_STATES
  <2>8. situation \in {"no_longer_matches", "nothing_reached", "uncertain"}
           /\ status.state # "recovered" =>
              /\ describeState(status.state) # "Healthy"
              /\ status.records # <<>> => isShowingStaleData(status)
    BY <2>2, <2>3, <2>4, <2>6
    DEF describeState, isShowingStaleData, CURRENT_DATA_STATES, EventState
  <2>9. ASSUME isShowingStaleData(status), ~status.failed
        PROVE  {At("publish", "done"), At("verify", "done")} \cap Entries(t) = {}
    <3>1. /\ t \notin active /\ t \notin errors /\ latest # NoEvent
          /\ latest.state \notin {"healthy", "recovered"}
      BY <2>2, <2>9 DEF isShowingStaleData, CURRENT_DATA_STATES
    <3>2. CASE steps[t] = <<>>
      BY <3>2 DEF Entries
    <3>3. CASE steps[t] # <<>>
      BY <3>1, <3>3 DEF StepsAgreeWithEvent, Concluded, latest, c
    <3> QED BY <3>2, <3>3
  <2> QED BY <2>7, <2>8, <2>9 DEF status
<1> QED
  BY <1>1, ActivityWatches, TypeCorrect, AllTruthfulAlways, StepsAgreeWithEventAlways, PTL
=============================================================================
