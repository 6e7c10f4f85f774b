------------------------------ MODULE Detection ------------------------------
(***************************************************************************)
(* Telling a broken extraction from a moved page: classifyRun and the      *)
(* comparison with the last verified rows (domain/detection), the second   *)
(* opinion's merge (infrastructure/gemini), the overlap a repaired         *)
(* collector must keep and the preview review (application/heal-and-verify)*)
(*                                                                         *)
(* A run keeps the outcome of the command, whether its error is retryable, *)
(* the kinds of its per-row extraction errors, and its rows.  Confidences  *)
(* are percentages.                                                        *)
(***************************************************************************)
EXTENDS DataContract

CONSTANTS
    NoBaseline,    \* getLastKnownGood's null
    NoOpinion      \* the model's answer when it cannot be had: every failure gives null

RunStatus == {"succeeded", "failed", "timed_out"}
ExtractionErrorKind == {"unreachable_page", "proxy_error", "selector_timeout", "unknown"}
Run == [status : RunStatus, retryable : BOOLEAN,
        extractionErrors : SUBSET ExtractionErrorKind, records : Seq(Row \cup {NonRow})]

Classification ==
    {"healthy", "legitimate_change", "structural_break", "transient_error", "ambiguous"}
RecommendedAction == {"publish", "retry", "heal", "manual_review"}
Decision == [classification : Classification, confidence : 0 .. 100,
             recommendedAction : RecommendedAction]

Opinion == [classification : Classification, confidence : 0 .. 100]

ASSUME NoBaselineAssumption == NoBaseline \notin Seq(Row)
ASSUME NoOpinionAssumption == NoOpinion \notin Opinion
-----------------------------------------------------------------------------
(* Comparing with the last verified rows. *)

\* The data of a row: what its fingerprint and its diff look at.
DataEntries(row) == Restrict(row, DOMAIN row \ VendorFields)

rowFingerprint(row) == DataEntries(row)

IsNull(v) == v.type = "none" /\ v.empty

\* Mutant: rows are matched by position.
indexByPosition(rows, id) == rows

\* Rows by the text of their identity; a later row replaces an earlier one of the same text.
indexByIdentity(rows, id) ==
    LET named == {i \in DOMAIN rows : id \in DOMAIN rows[i] /\ ~IsNull(rows[i][id])}
        last(text) == CHOOSE i \in named :
                         /\ rows[i][id].text = text
                         /\ \A j \in named : rows[j][id].text = text => j <= i
    IN  [text \in {rows[i][id].text : i \in named} |-> rows[last(text)]]

SameField(before, after, f) ==
    IF f \in DOMAIN before /\ f \in DOMAIN after THEN before[f] = after[f]
    ELSE f \notin DOMAIN before /\ f \notin DOMAIN after

compareToBaseline(baseline, current, contract) ==
    LET id == contract.identityField
        before == IF id = NoField THEN {rowFingerprint(r) : r \in Range(baseline)}
                  ELSE DOMAIN indexByIdentity(baseline, id)
        after == IF id = NoField THEN {rowFingerprint(r) : r \in Range(current)}
                 ELSE DOMAIN indexByIdentity(current, id)
        was == indexByIdentity(baseline, id)
        is == indexByIdentity(current, id)
    IN  [changes |-> IF id = NoField THEN {}
                     ELSE {change \in (before \cap after) \X (Fields \ (VendorFields \cup {id})) :
                              ~SameField(was[change[1]], is[change[1]], change[2])},
         added |-> after \ before,
         removed |-> before \ after]

\* Mutant: removed rows are no change.
HasGrownOrChanged(diff) == diff.changes # {} \/ diff.added # {}

HasChanges(diff) == diff.changes # {} \/ diff.added # {} \/ diff.removed # {}
-----------------------------------------------------------------------------
(* Classifying a run. *)

Verdict(classification, confidence, action) ==
    [classification |-> classification, confidence |-> confidence, recommendedAction |-> action]

ClassifyFailedRun(run) ==
    IF run.retryable THEN Verdict("transient_error", 95, "retry")
    ELSE Verdict("ambiguous", 60, "manual_review")

\* Mutant: a page that cannot be reached counts as broken.
HealUnreachablePages(kinds) ==
    IF {"selector_timeout", "unreachable_page"} \cap kinds # {}
    THEN Verdict("structural_break", 95, "heal")
    ELSE Verdict("ambiguous", 50, "manual_review")

\* A selector that no longer matches outweighs the network, and the network the page.
ClassifyExtractionErrors(kinds) ==
    IF "selector_timeout" \in kinds THEN Verdict("structural_break", 95, "heal")
    ELSE IF "proxy_error" \in kinds THEN Verdict("transient_error", 90, "manual_review")
    ELSE IF "unreachable_page" \in kinds THEN Verdict("ambiguous", 80, "manual_review")
    ELSE Verdict("ambiguous", 50, "manual_review")

\* Mutant: a shrunken page is a change like any other.
ClassifyWithoutShrinkGuard(accepted, baseline, contract) ==
    IF baseline \notin {NoBaseline, <<>>} /\ HasChanges(compareToBaseline(baseline, accepted, contract))
    THEN Verdict("legitimate_change", 90, "publish")
    ELSE Verdict("healthy", 100, "publish")

ClassifyAgainstBaseline(accepted, baseline, contract) ==
    IF baseline = NoBaseline \/ baseline = <<>> THEN Verdict("healthy", 100, "publish")
    ELSE IF Len(accepted) * 2 < Len(baseline) THEN Verdict("ambiguous", 70, "manual_review")
    ELSE IF HasChanges(compareToBaseline(baseline, accepted, contract))
         THEN Verdict("legitimate_change", 90, "publish")
         ELSE Verdict("healthy", 100, "publish")

\* The order matters more than the rules: transport before structure before comparison.
classifyRun(run, evaluation, baseline, contract) ==
    IF run.status # "succeeded" THEN ClassifyFailedRun(run)
    ELSE IF run.extractionErrors # {} THEN ClassifyExtractionErrors(run.extractionErrors)
    ELSE IF run.records = <<>> THEN Verdict("ambiguous", 60, "manual_review")
    ELSE IF ~evaluation.valid THEN Verdict("structural_break", 90, "heal")
    ELSE ClassifyAgainstBaseline(evaluation.acceptedRecords, baseline, contract)
-----------------------------------------------------------------------------
(* The second opinion. *)

shouldConsultReasoner(decision) ==
    decision.classification \in {"ambiguous", "structural_break"}

\* Mutant: the opinion replaces the verdict, so that it can widen it into a repair.
mergeAsReplacement(deterministic, llm) ==
    IF llm = NoOpinion THEN deterministic
    ELSE Verdict(llm.classification, llm.confidence,
                 IF llm.classification = "structural_break" THEN "heal" ELSE "manual_review")

mergeReasoning(deterministic, llm) ==
    IF llm = NoOpinion \/ llm.classification = deterministic.classification THEN deterministic
    ELSE [deterministic EXCEPT
            !.confidence = IF llm.confidence < @ THEN llm.confidence ELSE @,
            !.recommendedAction = IF @ = "heal" THEN "manual_review" ELSE @]
-----------------------------------------------------------------------------
(* Accepting a repair. *)

\* What a row is matched on; a missing or null identity has the text "".
keyOf(row, contract) ==
    LET id == contract.identityField
    IN  IF id = NoField THEN rowFingerprint(row)
        ELSE IF id \in DOMAIN row /\ ~IsNull(row[id]) THEN row[id].text ELSE ""

\* The baseline rows (by position) that the recovered rows still hold.
Retained(baseline, recovered, contract) ==
    {i \in DOMAIN baseline :
        \E r \in Range(recovered) : keyOf(r, contract) = keyOf(baseline[i], contract)}

\* Mutant: the share of the recovered rows that are known, instead of the known ones recovered.
KeepsHalfOfRecovered(baseline, recovered, contract) ==
    2 * Cardinality(Retained(baseline, recovered, contract)) >= Len(recovered)

\* baselineOverlap(...) >= MIN_BASELINE_OVERLAP, which is one half.
KeepsHalf(baseline, recovered, contract) ==
    2 * Cardinality(Retained(baseline, recovered, contract)) >= Len(baseline)
=============================================================================
