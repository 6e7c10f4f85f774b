----------------------------- MODULE Presentation -----------------------------
(***************************************************************************)
(* What is computed of a run and of the verified rows for people to read:  *)
(* the metrics and the health score of a run                               *)
(* (domain/health/health-score.ts) and the columns of an export            *)
(* (presentation/export/export-records.ts).                                *)
(*                                                                         *)
(* A score is a fraction, a pair of numbers; 0/0 stands for the null of a  *)
(* score nothing can be said about.                                        *)
(***************************************************************************)
EXTENDS DataContract, Lists

CONSTANTS
    KeyOrder,    \* the order in which a row names its fields, by the fields it has
    NoMetrics,   \* no run has been recorded
    NoDate,      \* the age of data with no date, or an unreadable one
    NoSchedule   \* runs are started on demand only, which is the default

ASSUME KeyOrderAssumption ==
    /\ DOMAIN KeyOrder = SUBSET Fields
    /\ \A keys \in SUBSET Fields :
          /\ KeyOrder[keys] \in Seq(Fields)
          /\ Range(KeyOrder[keys]) = keys
          /\ IsInjective(KeyOrder[keys])

ContractMetrics ==
    LET Counts == UNION {[required -> Nat] : required \in SUBSET Fields}
    IN  [rowCount : Nat, validRowCount : Nat, missingByField : Counts, nullByField : Counts]

ASSUME AbsencesAssumption ==
    NoMetrics \notin ContractMetrics /\ NoDate \notin Nat /\ NoSchedule \notin Nat

NoScore == <<0, 0>>

Full(score) == score[2] > 0 /\ score[1] = score[2]
-----------------------------------------------------------------------------
(* The metrics of a run. *)

Metrics(rows, contract) ==
    [rowCount |-> Len(rows),
     validRowCount |-> Len(evaluateContract(rows, contract).acceptedRecords),
     missingByField |-> [f \in contract.requiredFields |->
         Cardinality({i \in DOMAIN rows : rows[i] = NonRow \/ f \notin DOMAIN rows[i]})],
     nullByField |-> [f \in contract.requiredFields |->
         Cardinality({i \in DOMAIN rows :
                         rows[i] # NonRow /\ f \in DOMAIN rows[i] /\ rows[i][f].empty})]]

(* The health score. *)

scoreExtraction(metrics) ==
    IF metrics.rowCount = 0 THEN <<0, 1>> ELSE <<metrics.validRowCount, metrics.rowCount>>

\* The counts of a field the run was not judged by are taken as zero.
Count(counts, f) == IF f \in DOMAIN counts THEN counts[f] ELSE 0

\* Mutant: an empty value is no missing value.
IntactIfPresent(metrics, f) == Count(metrics.missingByField, f) = 0

Intact(metrics, f) == /\ Count(metrics.missingByField, f) = 0
                      /\ Count(metrics.nullByField, f) = 0

scoreSchema(metrics, contract) ==
    IF contract = NoContract \/ contract.requiredFields = {} THEN NoScore
    ELSE <<Cardinality({f \in contract.requiredFields : Intact(metrics, f)}),
           Cardinality(contract.requiredFields)>>

\* Full marks for one interval, then a straight decline to zero by the third; without a schedule
\* there is nothing to be late against.
scoreFreshness(age, interval) ==
    CASE age = NoDate \/ interval = NoSchedule -> NoScore
      [] OTHER -> IF age <= interval THEN <<1, 1>>
                  ELSE <<IF age < 3 * interval THEN 3 * interval - age ELSE 0, 2 * interval>>

Measured(score) == IF score = NoScore THEN 0 ELSE 1

\* The sum of what could be measured.
Plus(score, other) ==
    IF other = NoScore THEN score
    ELSE <<score[1] * other[2] + other[1] * score[2], score[2] * other[2]>>

\* The health of a run: overall is the mean of those scores that could be measured.
HealthOf(metrics, contract, freshness) ==
    LET extraction == scoreExtraction(metrics)
        schema == scoreSchema(metrics, contract)
        total == Plus(Plus(extraction, schema), freshness)
    IN  [extraction |-> extraction, schema |-> schema, freshness |-> freshness,
         overall |-> <<total[1], total[2] * (1 + Measured(schema) + Measured(freshness))>>]

\* Of a site that has never run nothing is known but how old its data is.
scoreHealth(metrics, contract, age, interval) ==
    LET freshness == scoreFreshness(age, interval)
    IN  IF metrics = NoMetrics
        THEN [extraction |-> NoScore, schema |-> NoScore, freshness |-> freshness,
              overall |-> NoScore]
        ELSE HealthOf(metrics, contract, freshness)
-----------------------------------------------------------------------------
(* The columns of an export. *)

Keys(row) == IF row = NonRow THEN <<>> ELSE KeyOrder[DOMAIN row]

\* Every data field the rows carry, in the order it is first seen.
fieldsInRecords(rows) ==
    LET names[n \in 0 .. Len(rows)] ==
            IF n = 0 THEN <<>>
            ELSE names[n - 1] \o Without(Keys(rows[n]), VendorFields \cup Range(names[n - 1]))
    IN  names[Len(rows)]

\* Mutant: only the fields the contract requires.
requiredFieldsOnly(contract, rows) ==
    IF contract = NoContract THEN fieldsInRecords(rows)
    ELSE Without(fieldsInRecords(rows), Fields \ contract.requiredFields)

\* The identity first, if the rows carry it.
orderedFields(contract, rows) ==
    LET all == fieldsInRecords(rows)
        identity == IF contract = NoContract THEN NoField ELSE contract.identityField
    IN  IF identity \notin Range(all) THEN all
        ELSE <<identity>> \o Without(all, {identity})

\* The cells of a table, by their text; a field a row does not carry gives an empty one.
exportRecords(rows, columns) ==
    [i \in DOMAIN rows |-> [k \in DOMAIN columns |->
        IF columns[k] \in DOMAIN rows[i] THEN rows[i][columns[k]].text ELSE ""]]
=============================================================================
