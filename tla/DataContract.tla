---------------------------- MODULE DataContract ----------------------------
(***************************************************************************)
(* The data contract of a scraped site: what evaluateContract accepts, how *)
(* profileContract learns a contract from a run's rows, and how            *)
(* chooseIdentityField picks the field that names a row                    *)
(* (domain/contracts/data-contract.ts).                                    *)
(*                                                                         *)
(* A row is a function from the fields it carries to values.  A value      *)
(* keeps what the contract can tell apart: its type, its exact text        *)
(* (String(v)), that text trimmed and lower-cased, and whether it is empty.*)
(***************************************************************************)
EXTENDS Naturals, Sequences, FiniteSets, Functions

CONSTANTS
    Fields,           \* every field name a row of the instance may carry
    VendorFields,     \* those Bright Data adds (packages/shared/src/record.ts)
    Values,           \* the values of the instance
    NonRow,           \* an array element that is not an object
    NoField,          \* identityField: null
    NoContract,       \* getContract's null
    IdentityRank,     \* the order in which fields are tried as identity: hinted names first
    GrowthFactor,     \* 5 in the code
    RowFloor,         \* 50 in the code
    MaxSafeInteger    \* Number.MAX_SAFE_INTEGER: above any run of the instance

FieldTypes == {"string", "number", "boolean", "array", "object"}
ScalarTypes == {"string", "number", "boolean"}

ASSUME FieldsAssumption ==
    /\ IsFiniteSet(Fields)
    /\ VendorFields \subseteq Fields
    /\ IdentityRank \in [Fields -> Nat]
    /\ IsInjective(IdentityRank)
    /\ NoField \notin Fields

ASSUME ValuesAssumption ==
    \A v \in Values : /\ v = [type |-> v.type, text |-> v.text, key |-> v.key, empty |-> v.empty]
                      /\ v.type \in FieldTypes \cup {"none"}
                      /\ v.empty \in BOOLEAN
                      /\ \A w \in Values : v.text = w.text => v.key = w.key

ASSUME LimitsAssumption ==
    /\ GrowthFactor \in Nat \ {0}
    /\ RowFloor \in Nat
    /\ MaxSafeInteger \in Nat \ {0}

Row == UNION {[carried -> Values] : carried \in SUBSET Fields}
ASSUME NonRowAssumption == NonRow \notin Row

Contract == [version : {0, 1}, requiredFields : SUBSET Fields,
             fieldTypes : UNION {[typed -> FieldTypes] : typed \in SUBSET Fields},
             identityField : Fields \cup {NoField},
             minimumRows : Nat, maximumRows : Nat]
ASSUME NoContractAssumption == NoContract \notin Contract

\* The contract of a site that never produced a good run.
BOOTSTRAP_CONTRACT ==
    [version |-> 0, requiredFields |-> {}, fieldTypes |-> [f \in {} |-> "string"], identityField |-> NoField,
     minimumRows |-> 1, maximumRows |-> MaxSafeInteger]
-----------------------------------------------------------------------------
(* What a row carries. *)

DataFields(rows) == (UNION {DOMAIN row : row \in Range(rows)}) \ VendorFields

HasValue(row, f) == f \in DOMAIN row /\ ~row[f].empty

CarriesData(row) == \E f \in DOMAIN row \ VendorFields : ~row[f].empty

(* Learning a contract. *)

Present(rows, f) == {i \in DOMAIN rows : HasValue(rows[i], f)}

OfType(rows, f, type) == {i \in Present(rows, f) : rows[i][f].type = type}

\* The most frequent type; the one met first wins a tie (the sort is stable).
DominantType(rows, f) ==
    CHOOSE type \in FieldTypes :
        /\ OfType(rows, f, type) # {}
        /\ \A other \in FieldTypes \ {type} :
              LET mine == OfType(rows, f, type)
                  theirs == OfType(rows, f, other)
              IN  \/ Cardinality(mine) > Cardinality(theirs)
                  \/ /\ Cardinality(mine) = Cardinality(theirs)
                     /\ \E i \in mine : \A j \in theirs : i < j

\* Mutant: an identity need not be unique.
AnyScalarIsIdentity(rows, f) ==
    \A i \in DOMAIN rows : HasValue(rows[i], f) /\ rows[i][f].type \in ScalarTypes

\* An identity is a non-empty scalar in every row, no two with the same text.
IsUsableIdentity(rows, f) ==
    /\ \A i \in DOMAIN rows : HasValue(rows[i], f) /\ rows[i][f].type \in ScalarTypes
    /\ \A i, j \in DOMAIN rows : rows[i][f].text = rows[j][f].text => i = j

chooseIdentityField(rows, candidates) ==
    LET usable == {f \in candidates : IsUsableIdentity(rows, f)}
    IN  IF usable = {} THEN NoField
        ELSE CHOOSE f \in usable : \A g \in usable : IdentityRank[f] <= IdentityRank[g]

profileContract(rows) ==
    LET required == {f \in DataFields(rows) : Present(rows, f) = DOMAIN rows}
        typed == {f \in DataFields(rows) :
                     \E type \in FieldTypes : OfType(rows, f, type) # {}}
        grown == GrowthFactor * Len(rows)
    IN  [version |-> 1,
         requiredFields |-> required,
         fieldTypes |-> [f \in typed |-> DominantType(rows, f)],
         identityField |-> chooseIdentityField(rows, required),
         minimumRows |-> 1,
         maximumRows |-> IF grown > RowFloor THEN grown ELSE RowFloor]
-----------------------------------------------------------------------------
(* Judging a run. *)

\* Mutant: only the row just before is looked at.
RepeatsPreviousIdentity(rows, i, contract) ==
    LET id == contract.identityField
    IN  /\ id # NoField /\ HasValue(rows[i], id)
        /\ i > 1 /\ rows[i - 1] # NonRow
        /\ HasValue(rows[i - 1], id) /\ rows[i - 1][id].key = rows[i][id].key

\* The row repeats the identity of an earlier one, whether or not that one was valid.
RepeatsIdentity(rows, i, contract) ==
    LET id == contract.identityField
    IN  /\ id # NoField
        /\ HasValue(rows[i], id)
        /\ \E j \in 1 .. (i - 1) : /\ rows[j] # NonRow
                                   /\ HasValue(rows[j], id)
                                   /\ rows[j][id].key = rows[i][id].key

FieldViolations(row, contract) ==
    {<<"missing", f>> : f \in contract.requiredFields \ DOMAIN row}
    \cup {<<"empty", f>> : f \in {g \in contract.requiredFields \cap DOMAIN row : row[g].empty}}
    \cup {<<"type_invalid", f>> :
            f \in {g \in contract.requiredFields \cap DOMAIN contract.fieldTypes :
                      HasValue(row, g) /\ row[g].type # contract.fieldTypes[g]}}

RowViolations(rows, i, contract) ==
    IF rows[i] = NonRow THEN {<<"record_type_invalid", NoField>>}
    ELSE FieldViolations(rows[i], contract)
         \cup (IF CarriesData(rows[i]) THEN {} ELSE {<<"record_has_no_data", NoField>>})
         \cup (IF RepeatsIdentity(rows, i, contract)
               THEN {<<"identity_duplicated", contract.identityField>>} ELSE {})

\* The k-th smallest element of a set of numbers.
Nth(S, k) == CHOOSE n \in S : Cardinality({m \in S : m <= n}) = k

evaluateContract(rows, contract) ==
    LET clean == {i \in DOMAIN rows : RowViolations(rows, i, contract) = {}}
    IN  [valid |-> /\ Len(rows) >= contract.minimumRows
                   /\ Len(rows) <= contract.maximumRows
                   /\ clean = DOMAIN rows,
         acceptedRecords |-> IF clean = DOMAIN rows THEN rows
                             ELSE [k \in 1 .. Cardinality(clean) |-> rows[Nth(clean, k)]]]
-----------------------------------------------------------------------------
(* Properties of the operators, over one run's rows. *)

\* Each field holds values of one type, and texts that differ still differ once trimmed and
\* lower-cased.  Nothing in the code makes a page's rows regular.
Regular(rows) ==
    \A i, j \in DOMAIN rows : \A f \in Fields :
        HasValue(rows[i], f) /\ HasValue(rows[j], f) =>
            /\ rows[i][f].type = rows[j][f].type
            /\ rows[i][f].key = rows[j][f].key => rows[i][f].text = rows[j][f].text

\* A contract accepts the run it was learned from (a run good enough to be learned from).
AcceptsWhatItLearned(rows) ==
    evaluateContract(rows, BOOTSTRAP_CONTRACT).valid =>
        evaluateContract(rows, profileContract(rows)).valid
=============================================================================
