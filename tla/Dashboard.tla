------------------------------- MODULE Dashboard -------------------------------
(***************************************************************************)
(* What the pages say of a registered site (presentation/api/server.ts     *)
(* buildTargetStatus, presentation/web/components.ts).                     *)
(*                                                                         *)
(* A page is built from one reading of the store and nothing it awaits     *)
(* waits for the outside, so it shows a single state of Activity.  What is *)
(* said of a site whose collector is still being built is in Monitoring.   *)
(***************************************************************************)
EXTENDS Activity

buildTargetStatus(t) ==
    LET snapshot == mem.snapshots[CollectorOf[t]]
        latest == latestEvent(CollectorOf[t])
    IN  [state |-> CASE t \in active -> "running"
                     [] t \notin active /\ latest # NoEvent -> latest.state
                     [] t \notin active /\ latest = NoEvent ->
                           IF snapshot # NoBaseline THEN "healthy" ELSE "idle",
         records |-> IF snapshot # NoBaseline THEN snapshot ELSE <<>>,
         latest |-> latest,
         busy |-> t \in active,
         failed |-> t \in errors,
         steps |-> steps[t]]

\* Mutant: data withheld for a person to look at counts as current.
CurrentOrReviewed == {"healthy", "recovered", "idle", "running", "manual_review"}

CURRENT_DATA_STATES == {"healthy", "recovered", "idle", "running"}

isShowingStaleData(status) == status.records # <<>> /\ status.state \notin CURRENT_DATA_STATES

describeState(state) ==
    CASE state \in {"healthy", "recovered"} -> "Healthy"
      [] state = "running" -> "Working"
      [] state = "healing" -> "Repairing"
      [] state = "suspected" -> "Schema drift"
      [] state = "manual_review" -> "Needs review"
      [] state = "retry_or_wait" -> "Waiting"
      [] state = "idle" -> "Idle"

\* What the reader is told has happened, in the order the cases are tried.
describeSituation(status) ==
    CASE status.busy -> "scraping"
      [] ~status.busy /\ status.failed -> "not_started"
      [] ~status.busy /\ ~status.failed /\ status.latest = NoEvent ->
            IF status.records # <<>> THEN "holding" ELSE "never_scraped"
      [] ~status.busy /\ ~status.failed /\ status.latest # NoEvent ->
            CASE status.latest.classification = "healthy" -> "published"
              [] status.latest.classification = "legitimate_change" -> "changed"
              [] status.latest.classification = "structural_break" -> "no_longer_matches"
              [] status.latest.classification = "transient_error" -> "nothing_reached"
              [] status.latest.classification = "ambiguous" -> "uncertain"
-----------------------------------------------------------------------------
(* Properties. *)

\* The badge, the notice, the summary and the feed of one page do not contradict each other: data is
\* called published only with rows to show, a badge that says healthy and no notice that it is
\* old; and the notice that the latest output was withheld is shown exactly with a badge and a
\* feed that know of no published or recovered data.  (A site just recovered is the exception:
\* its summary still reads as the break that was repaired.)
PageAgreesWithItself ==
    \A t \in Targets :
        LET status == buildTargetStatus(t)
            badge == describeState(status.state)
            situation == describeSituation(status)
            feed == Entries(t)
        IN  /\ situation \in {"published", "changed"} =>
                  status.records # <<>> /\ badge = "Healthy" /\ ~isShowingStaleData(status)
            /\ situation \in {"no_longer_matches", "nothing_reached", "uncertain"}
                  /\ status.state # "recovered" =>
                  badge # "Healthy" /\ (status.records # <<>> => isShowingStaleData(status))
            /\ isShowingStaleData(status) /\ ~status.failed =>
                  {At("publish", "done"), At("verify", "done")} \cap feed = {}
=============================================================================
