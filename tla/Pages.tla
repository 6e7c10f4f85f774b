-------------------------------- MODULE Pages --------------------------------
(***************************************************************************)
(* What the contract profiler, the contract check and the baseline diff    *)
(* promise together, checked on every pair of small pages: the rows a site *)
(* was last verified with, from which its contract is learned, and the     *)
(* rows it returns next.  Both pages are built row by row.                 *)
(***************************************************************************)
EXTENDS Detection, Presentation

CONSTANTS
    SampleRows,               \* the rows a page may have
    MaxBaseline, MaxCurrent,  \* bounds on the rows of the two pages
    Ages, Intervals           \* how old the data may be, and how often it may be due

ASSUME SampleAssumption == /\ SampleRows \subseteq Row
                           /\ {MaxBaseline, MaxCurrent} \subseteq Nat
                           /\ Ages \subseteq Nat
                           /\ Intervals \subseteq Nat \ {0}

VARIABLES baseline, current

pages == <<baseline, current>>

Init == baseline = <<>> /\ current = <<>>

ScrapeBaseline == /\ Len(baseline) < MaxBaseline
                  /\ \E row \in SampleRows : baseline' = Append(baseline, row)
                  /\ UNCHANGED current

ScrapeCurrent == /\ Len(current) < MaxCurrent
                 /\ \E row \in SampleRows : current' = Append(current, row)
                 /\ UNCHANGED baseline

Next == ScrapeBaseline \/ ScrapeCurrent

Spec == Init /\ [][Next]_pages
-----------------------------------------------------------------------------
Learned == profileContract(baseline)

Collected(rows) == [status |-> "succeeded", retryable |-> FALSE, extractionErrors |-> {},
               records |-> rows]

\* The baseline can be learned from, and both pages satisfy what is learned.
Comparable ==
    /\ evaluateContract(baseline, BOOTSTRAP_CONTRACT).valid
    /\ evaluateContract(baseline, Learned).valid
    /\ evaluateContract(current, Learned).valid

DataOf(rows) == {DataEntries(row) : row \in Range(rows)}

Reordered ==
    /\ Len(current) = Len(baseline)
    /\ \E p \in [DOMAIN baseline -> DOMAIN baseline] :
          IsInjective(p) /\ \A i \in DOMAIN baseline : current[p[i]] = baseline[i]

\* A contract accepts the run it was learned from: an unchanged site is not reported broken.
PageIsAccepted == AcceptsWhatItLearned(baseline)

\* It does whenever the page is regular.
RegularPageIsAccepted == Regular(baseline) => AcceptsWhatItLearned(baseline)

\* Profile, check, diff and verdict agree: a page that comes back with its rows in another order
\* is healthy, neither changed nor broken.
UnchangedPageIsHealthy ==
    /\ Regular(baseline)
    /\ evaluateContract(baseline, BOOTSTRAP_CONTRACT).valid
    /\ Reordered
    => classifyRun(Collected(current), evaluateContract(current, Learned), baseline, Learned)
         = Verdict("healthy", 100, "publish")

\* The diff reports no change exactly when the two pages carry the same data: no edit of a row,
\* loss or addition escapes it, and what Bright Data adds to a row is no change.
DiffIsExact ==
    Comparable =>
        (DataOf(baseline) = DataOf(current)
            <=> ~HasChanges(compareToBaseline(baseline, current, Learned)))

\* A repair accepted on its overlap returns at least half of the rows, given an identity.
OverlapBoundsLoss ==
    Comparable /\ Learned.identityField # NoField /\ KeepsHalf(baseline, current, Learned)
        => 2 * Len(current) >= Len(baseline)

\* The accepted rows of a partly invalid run need none of the rejected ones: judged again on
\* their own they are all accepted.
AcceptedRowsStandAlone ==
    LET accepted == evaluateContract(current, Learned).acceptedRecords
    IN  evaluateContract(accepted, Learned).acceptedRecords = accepted

\* The scores agree with the verdict: a page that satisfies the contract has full marks for its
\* data, a required value lost from any row costs both extraction and schema, however well the
\* other fields still work, and overall is full of exactly the data that is whole and not known to
\* be late.  So it is also full of data of any age where there is no schedule, or no date, to tell.
\* These are the scores before they are rounded to per cent.  (A page without rows is left out: it
\* has no extraction and yet a full schema.)
HealthAgreesWithVerdict ==
    baseline # <<>> /\ current # <<>> =>
        LET contract == Learned
            metrics == Metrics(current, contract)
            whole == \A i \in DOMAIN current : RowViolations(current, i, contract) = {}
            lost == {f \in contract.requiredFields :
                        \E row \in Range(current) : ~HasValue(row, f)}
        IN  \A age \in Ages \cup {NoDate}, interval \in Intervals \cup {NoSchedule} :
                LET health == scoreHealth(metrics, contract, age, interval)
                    late == age # NoDate /\ interval # NoSchedule /\ age > interval
                IN  /\ whole => Full(health.extraction)
                                /\ (health.schema = NoScore \/ Full(health.schema))
                    /\ lost # {} => ~Full(health.extraction) /\ ~Full(health.schema)
                    /\ Full(health.overall) <=> whole /\ ~late

\* A download of the table has all of the data: each value of each row stands in the one column of its field,
\* whether or not the contract asks for the field, and nothing Bright Data adds has a column.
ExportIsComplete ==
    \A contract \in {NoContract, Learned} :
        LET columns == orderedFields(contract, current)
            table == exportRecords(current, columns)
        IN  /\ Range(columns) = DataFields(current)
            /\ Cardinality(Range(columns)) = Len(columns)
            /\ \A i \in DOMAIN current : \A f \in DOMAIN current[i] \ VendorFields :
                  \E k \in DOMAIN columns : columns[k] = f /\ table[i][k] = current[i][f].text
=============================================================================
