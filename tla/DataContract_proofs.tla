------------------------ MODULE DataContract_proofs ------------------------
(***************************************************************************)
(* What is proved of the data contract for every site: a learned contract  *)
(* is well formed, an accepted run is kept whole, a contract accepts the   *)
(* run it was learned from whenever that run is regular, and an identity   *)
(* tells the rows of a page apart, so that an overlap counts none twice.   *)
(***************************************************************************)
EXTENDS Detection, Lists_proofs, FiniteSetTheorems

\* The fields a set of rows carries are fields, and a row's values are values.
LEMMA RowFields ==
    ASSUME NEW row \in Row
    PROVE  /\ DOMAIN row \subseteq Fields
           /\ \A f \in DOMAIN row : row[f] \in Values
BY DEF Row

LEMMA DataFieldsAreFields ==
    ASSUME NEW rows \in Seq(Row)
    PROVE  DataFields(rows) \subseteq Fields
<1>1. \A row \in Range(rows) : DOMAIN row \subseteq Fields
  BY RowFields DEF Range
<1>2. QED
  BY <1>1 DEF DataFields

\* The rows holding a value of one type are a finite set of positions.
LEMMA OfTypeFinite ==
    ASSUME NEW rows \in Seq(Row), NEW f, NEW type
    PROVE  /\ OfType(rows, f, type) \in SUBSET (1 .. Len(rows))
           /\ OfType(rows, f, type) \in SUBSET Nat
           /\ IsFiniteSet(OfType(rows, f, type))
           /\ Cardinality(OfType(rows, f, type)) \in Nat
<1>1. OfType(rows, f, type) \in SUBSET (1 .. Len(rows))
  BY DEF OfType, Present
<1>2. IsFiniteSet(1 .. Len(rows))
  BY FS_Interval
<1>3. IsFiniteSet(OfType(rows, f, type))
  BY <1>1, <1>2, FS_Subset
<1>4. QED
  BY <1>1, <1>3, FS_CardinalityType
-----------------------------------------------------------------------------
(* The dominant type. *)

\* type has at least as strong a claim as other: more rows, or as many and met first.
Beats(rows, f, type, other) ==
    LET mine == OfType(rows, f, type)
        theirs == OfType(rows, f, other)
    IN  \/ Cardinality(mine) > Cardinality(theirs)
        \/ /\ Cardinality(mine) = Cardinality(theirs)
           /\ \E i \in mine : \A j \in theirs : i < j

\* Any two types a field has, one beats the other, and beating is transitive.
LEMMA BeatsIsTotal ==
    ASSUME NEW rows \in Seq(Row), NEW f,
           NEW t \in FieldTypes, NEW u \in FieldTypes, t # u,
           OfType(rows, f, t) # {}, OfType(rows, f, u) # {}
    PROVE  Beats(rows, f, t, u) \/ Beats(rows, f, u, t)
<1> DEFINE T == OfType(rows, f, t)
           U == OfType(rows, f, u)
<1>1. T \in SUBSET Nat /\ U \in SUBSET Nat /\ Cardinality(T) \in Nat /\ Cardinality(U) \in Nat
  BY OfTypeFinite
<1>2. T \cap U = {}
  BY DEF OfType
<1>3. PICK i \in T : \A n \in T : i <= n
  BY <1>1, LeastElement
<1>4. PICK j \in U : \A n \in U : j <= n
  BY <1>1, LeastElement
<1>5. i # j
  BY <1>2
<1>6. i < j => \A n \in U : i < n
  BY <1>1, <1>4
<1>7. j < i => \A n \in T : j < n
  BY <1>1, <1>3
<1>8. i < j \/ j < i
  BY <1>1, <1>5
<1> HIDE DEF T, U
<1>9. \/ Cardinality(T) > Cardinality(U)
      \/ Cardinality(T) < Cardinality(U)
      \/ Cardinality(T) = Cardinality(U)
  BY <1>1
<1>10. \/ Cardinality(T) > Cardinality(U)
       \/ Cardinality(U) > Cardinality(T)
       \/ Cardinality(T) = Cardinality(U) /\ \E k \in T : \A n \in U : k < n
       \/ Cardinality(U) = Cardinality(T) /\ \E k \in U : \A n \in T : k < n
  BY <1>1, <1>6, <1>7, <1>8, <1>9
<1>11. QED
  BY <1>10 DEF Beats, T, U

LEMMA BeatsIsTransitive ==
    ASSUME NEW rows \in Seq(Row), NEW f, NEW t, NEW u, NEW v,
           OfType(rows, f, u) # {},
           Beats(rows, f, t, u), Beats(rows, f, u, v)
    PROVE  Beats(rows, f, t, v)
<1> DEFINE T == OfType(rows, f, t)
           U == OfType(rows, f, u)
           V == OfType(rows, f, v)
<1>1. /\ T \in SUBSET Nat /\ U \in SUBSET Nat /\ V \in SUBSET Nat
      /\ Cardinality(T) \in Nat /\ Cardinality(U) \in Nat /\ Cardinality(V) \in Nat
  BY OfTypeFinite
<1>2. /\ \/ Cardinality(T) > Cardinality(U)
         \/ Cardinality(T) = Cardinality(U) /\ \E i \in T : \A j \in U : i < j
      /\ \/ Cardinality(U) > Cardinality(V)
         \/ Cardinality(U) = Cardinality(V) /\ \E i \in U : \A j \in V : i < j
  BY DEF Beats
<1> HIDE DEF T, U, V
<1>3. ASSUME NEW i \in T, \A j \in U : i < j,
             NEW k \in U, \A j \in V : k < j
      PROVE  \A j \in V : i < j
  BY <1>1, <1>3
<1>4. \/ Cardinality(T) > Cardinality(V)
      \/ Cardinality(T) = Cardinality(V) /\ \E i \in T : \A j \in V : i < j
  BY <1>1, <1>2, <1>3
<1>5. QED
  BY <1>4 DEF Beats, T, V

\* Where a field holds a typed value at all, one type beats every other.
LEMMA DominantTypeExists ==
    ASSUME NEW rows \in Seq(Row), NEW f,
           \E type \in FieldTypes : OfType(rows, f, type) # {}
    PROVE  \E type \in FieldTypes :
              /\ OfType(rows, f, type) # {}
              /\ \A other \in FieldTypes \ {type} : Beats(rows, f, type, other)
<1> DEFINE Held(t) == OfType(rows, f, t) # {}
           Over(t, u) == Beats(rows, f, t, u)
<1>1. \A t, u \in FieldTypes : Held(t) /\ Held(u) /\ t # u => Over(t, u) \/ Over(u, t)
  BY BeatsIsTotal
<1>2. \A t, u, v \in FieldTypes : Held(u) /\ Over(t, u) /\ Over(u, v) => Over(t, v)
  BY BeatsIsTransitive
<1>3. ASSUME NEW t \in FieldTypes, NEW u \in FieldTypes, Held(t), ~Held(u)
      PROVE  Over(t, u)
  <2>1. Cardinality(OfType(rows, f, u)) = 0
    BY <1>3, FS_EmptySet
  <2>2. Cardinality(OfType(rows, f, t)) # 0
    BY <1>3, OfTypeFinite, FS_EmptySet
  <2>3. QED
    BY <2>1, <2>2, OfTypeFinite DEF Beats
<1>4. \E t \in FieldTypes : Held(t)
  OBVIOUS
<1> HIDE DEF Held, Over
<1>5. \E t \in FieldTypes : Held(t) /\ \A u \in FieldTypes \ {t} : Over(t, u)
  BY <1>1, <1>2, <1>3, <1>4, SMTT(60) DEF FieldTypes
<1>6. QED
  BY <1>5 DEF Held, Over

LEMMA DominantTypeIsHeld ==
    ASSUME NEW rows \in Seq(Row), NEW f,
           \E type \in FieldTypes : OfType(rows, f, type) # {}
    PROVE  /\ DominantType(rows, f) \in FieldTypes
           /\ OfType(rows, f, DominantType(rows, f)) # {}
BY DominantTypeExists DEF DominantType, Beats
-----------------------------------------------------------------------------
(* The identity, and the whole contract. *)

LEMMA IdentityIsCandidate ==
    ASSUME NEW rows, NEW candidates \in SUBSET Fields
    PROVE  LET id == chooseIdentityField(rows, candidates)
           IN  id = NoField \/ (id \in candidates /\ IsUsableIdentity(rows, id))
<1> DEFINE usable == {f \in candidates : IsUsableIdentity(rows, f)}
<1>1. CASE usable = {}
  BY <1>1 DEF chooseIdentityField
<1>2. CASE usable # {}
  <2> DEFINE ranks == {IdentityRank[f] : f \in usable}
  <2>1. ranks \in SUBSET Nat /\ ranks # {}
    BY <1>2, FieldsAssumption
  <2>2. PICK m \in ranks : \A n \in ranks : m <= n
    BY <2>1, LeastElement
  <2>3. PICK f \in usable : m = IdentityRank[f]
    OBVIOUS
  <2>4. \A g \in usable : IdentityRank[f] <= IdentityRank[g]
    BY <2>2, <2>3
  <2>5. chooseIdentityField(rows, candidates) \in usable
    BY <1>2, <2>4 DEF chooseIdentityField
  <2>6. QED
    BY <2>5
<1>3. QED
  BY <1>1, <1>2

\* What profileContract returns is a contract: profiling never produces one the store
\* could not keep or evaluateContract could not apply.
THEOREM ProfiledContractIsWellFormed ==
    ASSUME NEW rows \in Seq(Row)
    PROVE  profileContract(rows) \in Contract
<1> DEFINE required == {f \in DataFields(rows) : Present(rows, f) = DOMAIN rows}
           typed == {f \in DataFields(rows) :
                        \E type \in FieldTypes : OfType(rows, f, type) # {}}
           types == [f \in typed |-> DominantType(rows, f)]
           grown == GrowthFactor * Len(rows)
<1>1. required \in SUBSET Fields /\ typed \in SUBSET Fields
  BY DataFieldsAreFields
<1>2. types \in [typed -> FieldTypes]
  BY DominantTypeIsHeld
<1>3. types \in UNION {[t -> FieldTypes] : t \in SUBSET Fields}
  BY <1>1, <1>2
<1>4. chooseIdentityField(rows, required) \in Fields \cup {NoField}
  BY <1>1, IdentityIsCandidate
<1>5. grown \in Nat
  BY LimitsAssumption
<1>6. (IF grown > RowFloor THEN grown ELSE RowFloor) \in Nat
  BY <1>5, LimitsAssumption
<1> HIDE DEF required, types, grown
<1>7. QED
  BY <1>1, <1>3, <1>4, <1>6 DEF profileContract, Contract, required, types, grown
-----------------------------------------------------------------------------
(* Judging a run. *)

\* An accepted run consists of rows, and is accepted whole: nothing is dropped from it.
THEOREM ValidRunIsKeptWhole ==
    ASSUME NEW rows \in Seq(Row \cup {NonRow}), NEW contract,
           evaluateContract(rows, contract).valid
    PROVE  /\ rows \in Seq(Row)
           /\ evaluateContract(rows, contract).acceptedRecords = rows
           /\ \A i \in DOMAIN rows : RowViolations(rows, i, contract) = {}
<1> DEFINE clean == {i \in DOMAIN rows : RowViolations(rows, i, contract) = {}}
<1>1. clean = DOMAIN rows
  BY DEF evaluateContract
<1>2. \A i \in DOMAIN rows : RowViolations(rows, i, contract) = {}
  BY <1>1
<1>3. \A i \in DOMAIN rows : rows[i] # NonRow
  <2>1. SUFFICES ASSUME NEW i \in DOMAIN rows, rows[i] = NonRow PROVE FALSE
    OBVIOUS
  <2>2. <<"record_type_invalid", NoField>> \in RowViolations(rows, i, contract)
    BY <2>1 DEF RowViolations
  <2>3. QED
    BY <1>2, <2>2
<1>4. rows \in Seq(Row)
  BY <1>3
<1>5. evaluateContract(rows, contract).acceptedRecords = rows
  BY <1>1 DEF evaluateContract
<1>6. QED
  BY <1>2, <1>4, <1>5

\* The reverse: the number of rows and the absence of violations decide validity.
LEMMA CleanRunIsValid ==
    ASSUME NEW rows, NEW contract,
           Len(rows) >= contract.minimumRows, Len(rows) <= contract.maximumRows,
           \A i \in DOMAIN rows : RowViolations(rows, i, contract) = {}
    PROVE  evaluateContract(rows, contract).valid
BY DEF evaluateContract

\* For a regular page the learned contract accepts the very run it was learned from, so the
\* site is not reported broken on the next unchanged run.
THEOREM LearnedContractAcceptsItsRun ==
    ASSUME NEW rows \in Seq(Row \cup {NonRow}), Regular(rows)
    PROVE  AcceptsWhatItLearned(rows)
<1> DEFINE contract == profileContract(rows)
           id == contract.identityField
<1>1. SUFFICES ASSUME evaluateContract(rows, BOOTSTRAP_CONTRACT).valid
               PROVE  evaluateContract(rows, contract).valid
  BY DEF AcceptsWhatItLearned
<1>2. rows \in Seq(Row) /\ \A i \in DOMAIN rows : RowViolations(rows, i, BOOTSTRAP_CONTRACT) = {}
  BY <1>1, ValidRunIsKeptWhole
<1>3. \A i \in DOMAIN rows : CarriesData(rows[i]) /\ rows[i] # NonRow
  <2>1. SUFFICES ASSUME NEW i \in DOMAIN rows, ~CarriesData(rows[i]) PROVE FALSE
    BY <1>2, NonRowAssumption
  <2>2. rows[i] # NonRow
    BY <1>2, NonRowAssumption
  <2>3. <<"record_has_no_data", NoField>> \in RowViolations(rows, i, BOOTSTRAP_CONTRACT)
    BY <2>1, <2>2 DEF RowViolations
  <2>4. QED
    BY <1>2, <2>3
<1>4. Len(rows) >= 1
  BY <1>1 DEF evaluateContract, BOOTSTRAP_CONTRACT
<1>5. Len(rows) >= contract.minimumRows /\ Len(rows) <= contract.maximumRows
  <2> DEFINE grown == GrowthFactor * Len(rows)
  <2>1. GrowthFactor \in Nat /\ GrowthFactor >= 1 /\ RowFloor \in Nat /\ Len(rows) \in Nat
    BY <1>2, LimitsAssumption
  <2>2. grown >= Len(rows) /\ grown \in Nat
    BY <2>1
  <2>3. contract.minimumRows = 1
        /\ contract.maximumRows = IF grown > RowFloor THEN grown ELSE RowFloor
    BY DEF profileContract
  <2> HIDE DEF grown, contract
  <2>4. QED
    BY <1>4, <2>1, <2>2, <2>3
<1>6. ASSUME NEW i \in DOMAIN rows
      PROVE  FieldViolations(rows[i], contract) = {}
  <2>1. contract.requiredFields \subseteq Fields
    BY <1>2, DataFieldsAreFields DEF profileContract
  <2>2. \A f \in contract.requiredFields : \A j \in DOMAIN rows : HasValue(rows[j], f)
    BY DEF profileContract, Present
  <2>3. ASSUME NEW f \in contract.requiredFields \cap DOMAIN contract.fieldTypes
        PROVE  rows[i][f].type = contract.fieldTypes[f]
    <3>1. \E type \in FieldTypes : OfType(rows, f, type) # {}
      BY <2>3 DEF profileContract
    <3>2. contract.fieldTypes[f] = DominantType(rows, f)
      BY <2>3 DEF profileContract
    <3>3. PICK j \in OfType(rows, f, DominantType(rows, f)) : TRUE
      BY <1>2, <3>1, DominantTypeIsHeld
    <3>4. j \in DOMAIN rows /\ HasValue(rows[j], f) /\ rows[j][f].type = DominantType(rows, f)
      BY <3>3 DEF OfType, Present
    <3>5. f \in Fields /\ HasValue(rows[i], f)
      BY <2>1, <2>2, <2>3
    <3>6. rows[i][f].type = rows[j][f].type
      BY <1>6, <3>4, <3>5 DEF Regular
    <3>7. QED
      BY <3>2, <3>4, <3>6
  <2> HIDE DEF contract
  <2>4. QED
    BY <1>6, <2>2, <2>3 DEF FieldViolations, HasValue
<1>7. ASSUME NEW i \in DOMAIN rows
      PROVE  ~RepeatsIdentity(rows, i, contract)
  <2>1. SUFFICES ASSUME id # NoField, NEW j \in 1 .. (i - 1),
                        HasValue(rows[i], id), HasValue(rows[j], id),
                        rows[j][id].key = rows[i][id].key
                 PROVE  FALSE
    BY DEF RepeatsIdentity
  <2> DEFINE required == {f \in DataFields(rows) : Present(rows, f) = DOMAIN rows}
  <2>2. id = chooseIdentityField(rows, required) /\ required \in SUBSET Fields
    BY <1>2, DataFieldsAreFields DEF profileContract
  <2>3. id \in required /\ IsUsableIdentity(rows, id)
    BY <2>1, <2>2, IdentityIsCandidate
  <2>4. i \in Nat /\ j \in DOMAIN rows /\ j # i
    BY <1>2, <1>7, <2>1
  <2> HIDE DEF id, contract
  <2>5. rows[j][id].text = rows[i][id].text
    BY <1>7, <2>1, <2>2, <2>3, <2>4 DEF Regular
  <2>6. QED
    BY <1>7, <2>3, <2>4, <2>5 DEF IsUsableIdentity
<1>8. \A i \in DOMAIN rows : RowViolations(rows, i, contract) = {}
  <2> HIDE DEF contract
  <2>1. QED
    BY <1>3, <1>6, <1>7 DEF RowViolations
<1> HIDE DEF contract
<1>9. QED
  BY <1>5, <1>8, CleanRunIsValid
-----------------------------------------------------------------------------
(* Rows, and what tells them apart. *)

\* Rows without an element that is none may be judged as they are.
LEMMA RowsMayBeJudged ==
    ASSUME NEW rows \in Seq(Row)
    PROVE  /\ rows \in Seq(Row \cup {NonRow})
           /\ DOMAIN rows = 1 .. Len(rows) /\ Len(rows) \in Nat
           /\ \A i \in DOMAIN rows : rows[i] \in Row /\ rows[i] # NonRow
<1>1. Row \subseteq Row \cup {NonRow}
  OBVIOUS
<1>2. DOMAIN rows = 1 .. Len(rows) /\ Len(rows) \in Nat
  BY LenProperties
<1>3. \A i \in DOMAIN rows : rows[i] \in Row
  BY <1>2, ElementOfSeq
<1> QED BY <1>1, <1>2, <1>3, NonRowAssumption

LEMMA LearnedIdentity ==
    ASSUME NEW rows \in Seq(Row), profileContract(rows).identityField # NoField
    PROVE  LET id == profileContract(rows).identityField
           IN  /\ id \in Fields \ VendorFields
               /\ id \in profileContract(rows).requiredFields
               /\ IsUsableIdentity(rows, id)
<1> DEFINE required == {f \in DataFields(rows) : Present(rows, f) = DOMAIN rows}
           id == profileContract(rows).identityField
<1>1. id = chooseIdentityField(rows, required) /\ profileContract(rows).requiredFields = required
  BY DEF profileContract
<1>2. required \in SUBSET Fields /\ required \cap VendorFields = {}
  <2>1. required \subseteq DataFields(rows)
    OBVIOUS
  <2>2. DataFields(rows) \cap VendorFields = {}
    BY DEF DataFields
  <2> QED BY <2>1, <2>2, DataFieldsAreFields
<1> HIDE DEF required
<1>3. id \in required /\ IsUsableIdentity(rows, id)
  BY <1>1, <1>2, IdentityIsCandidate
<1> QED BY <1>1, <1>2, <1>3

\* A null value is empty, so what has a value is matched on its text.
LEMMA KeyIsText ==
    ASSUME NEW row, NEW contract, contract.identityField # NoField,
           HasValue(row, contract.identityField)
    PROVE  /\ keyOf(row, contract) = row[contract.identityField].text
           /\ ~IsNull(row[contract.identityField])
BY DEF keyOf, HasValue, IsNull

\* Rows that satisfy a contract with an identity all carry it, no two the same.
LEMMA ValidRowsAreNamed ==
    ASSUME NEW rows \in Seq(Row), NEW contract, contract.identityField # NoField,
           contract.identityField \in contract.requiredFields,
           evaluateContract(rows, contract).valid
    PROVE  LET id == contract.identityField
           IN  /\ \A i \in DOMAIN rows :
                     /\ HasValue(rows[i], id)
                     /\ id \in DOMAIN contract.fieldTypes =>
                           rows[i][id].type = contract.fieldTypes[id]
               /\ \A i, j \in DOMAIN rows : rows[i][id].key = rows[j][id].key => i = j
               /\ \A i, j \in DOMAIN rows : rows[i][id].text = rows[j][id].text => i = j
<1> DEFINE id == contract.identityField
<1>1. /\ rows \in Seq(Row \cup {NonRow})
      /\ DOMAIN rows = 1 .. Len(rows) /\ Len(rows) \in Nat
      /\ \A i \in DOMAIN rows : rows[i] \in Row /\ rows[i] # NonRow
  BY RowsMayBeJudged
<1>2. \A i \in DOMAIN rows : RowViolations(rows, i, contract) = {}
  BY <1>1, ValidRunIsKeptWhole
<1>3. \A i \in DOMAIN rows : /\ FieldViolations(rows[i], contract) = {}
                             /\ ~RepeatsIdentity(rows, i, contract)
  BY <1>1, <1>2 DEF RowViolations
<1>4. ASSUME NEW i \in DOMAIN rows
      PROVE  HasValue(rows[i], id)
  <2>1. id \in DOMAIN rows[i]
    <3>1. SUFFICES ASSUME id \notin DOMAIN rows[i] PROVE FALSE
      OBVIOUS
    <3>2. <<"missing", id>> \in FieldViolations(rows[i], contract)
      BY <3>1 DEF FieldViolations
    <3> QED BY <1>3, <3>2
  <2>2. ~rows[i][id].empty
    <3>1. SUFFICES ASSUME rows[i][id].empty PROVE FALSE
      OBVIOUS
    <3>2. <<"empty", id>> \in FieldViolations(rows[i], contract)
      BY <2>1, <3>1 DEF FieldViolations
    <3> QED BY <1>3, <3>2
  <2> QED BY <2>1, <2>2 DEF HasValue
<1>5. ASSUME NEW i \in DOMAIN rows, id \in DOMAIN contract.fieldTypes
      PROVE  rows[i][id].type = contract.fieldTypes[id]
  <2>1. SUFFICES ASSUME rows[i][id].type # contract.fieldTypes[id] PROVE FALSE
    OBVIOUS
  <2>2. <<"type_invalid", id>> \in FieldViolations(rows[i], contract)
    BY <1>4, <1>5, <2>1 DEF FieldViolations
  <2> QED BY <1>3, <2>2
<1>6. ASSUME NEW i \in DOMAIN rows, NEW j \in DOMAIN rows, j < i
      PROVE  rows[j][id].key # rows[i][id].key
  <2>1. j \in 1 .. (i - 1)
    BY <1>1, <1>6
  <2> QED BY <1>1, <1>3, <1>4, <2>1 DEF RepeatsIdentity
<1>7. ASSUME NEW i \in DOMAIN rows, NEW j \in DOMAIN rows, rows[i][id].key = rows[j][id].key
      PROVE  i = j
  <2>1. i < j \/ j < i \/ i = j
    BY <1>1
  <2> QED BY <1>6, <1>7, <2>1
<1>8. ASSUME NEW i \in DOMAIN rows, NEW j \in DOMAIN rows, rows[i][id].text = rows[j][id].text
      PROVE  i = j
  <2>1. rows[i][id] \in Values /\ rows[j][id] \in Values
    BY <1>1, <1>4, RowFields DEF HasValue
  <2>2. rows[i][id].key = rows[j][id].key
    BY <1>8, <2>1, ValuesAssumption
  <2> QED BY <1>7, <2>2
<1> QED BY <1>4, <1>5, <1>7, <1>8

\* Under the contract, no two of the rows are taken for the same.
Distinguishes(contract, rows) ==
    \A i, j \in DOMAIN rows : keyOf(rows[i], contract) = keyOf(rows[j], contract) => i = j

LEMMA NamesDistinguish ==
    ASSUME NEW rows, NEW contract, contract.identityField # NoField,
           \A i \in DOMAIN rows : HasValue(rows[i], contract.identityField),
           \A i, j \in DOMAIN rows :
              rows[i][contract.identityField].text = rows[j][contract.identityField].text => i = j
    PROVE  Distinguishes(contract, rows)
BY KeyIsText DEF Distinguishes

\* Baseline rows that are told apart are matched by as many recovered rows.
LEMMA RetainedAreAtMost ==
    ASSUME NEW before \in Seq(Row), NEW after \in Seq(Row), NEW contract,
           Distinguishes(contract, before)
    PROVE  /\ Cardinality(Retained(before, after, contract)) \in Nat
           /\ Cardinality(Retained(before, after, contract)) <= Len(after)
<1> DEFINE S == Retained(before, after, contract)
           match == [i \in S |-> CHOOSE j \in DOMAIN after :
                                    keyOf(after[j], contract) = keyOf(before[i], contract)]
<1>1. /\ DOMAIN before = 1 .. Len(before) /\ Len(before) \in Nat
      /\ DOMAIN after = 1 .. Len(after) /\ Len(after) \in Nat
  BY LenProperties
<1>2. \A i \in S : i \in DOMAIN before /\ \E j \in DOMAIN after :
                       keyOf(after[j], contract) = keyOf(before[i], contract)
  BY DEF Retained, Range
<1>3. \A i \in S : /\ match[i] \in DOMAIN after
                   /\ keyOf(after[match[i]], contract) = keyOf(before[i], contract)
  BY <1>2
<1>4. match \in [S -> DOMAIN after]
  BY <1>3
<1> HIDE DEF S, match
<1>5. IsInjective(match)
  <2>1. SUFFICES ASSUME NEW i \in S, NEW j \in S, match[i] = match[j] PROVE i = j
    BY <1>4 DEF IsInjective
  <2>2. keyOf(before[i], contract) = keyOf(before[j], contract)
    BY <1>3, <2>1
  <2> QED BY <1>2, <2>2 DEF Distinguishes
<1>6. match \in Injection(S, DOMAIN after)
  BY <1>4, <1>5 DEF Injection
<1>7. IsFiniteSet(DOMAIN after) /\ Cardinality(DOMAIN after) = Len(after)
  <2>1. IsFiniteSet(1 .. Len(after))
    BY <1>1, FS_Interval
  <2> DEFINE n == Len(after)
  <2>2. n \in Int /\ 1 \in Int
    BY <1>1
  <2> HIDE DEF n
  <2>3. Cardinality(1 .. n) = IF 1 > n THEN 0 ELSE n - 1 + 1
    BY <2>2, FS_Interval
  <2> USE DEF n
  <2> QED BY <1>1, <2>1, <2>3
<1>8. IsFiniteSet(S) /\ Cardinality(S) <= Cardinality(DOMAIN after)
  BY <1>6, <1>7, FS_Injection
<1>9. Cardinality(S) \in Nat
  BY <1>8, FS_CardinalityType
<1> QED BY <1>7, <1>8, <1>9 DEF S
=============================================================================
