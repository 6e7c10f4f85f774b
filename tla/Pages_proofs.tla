---------------------------- MODULE Pages_proofs ----------------------------
(***************************************************************************)
(* Proofs about Pages, for pages of any number of rows over any fields and *)
(* values: what the profiler, the check, the diff and the scores promise   *)
(* together.  The state is two pages, and all that is used of it is that   *)
(* they are lists of rows.                                                 *)
(***************************************************************************)
EXTENDS Pages, DataContract_proofs, Lists_proofs

PagesAreRows == baseline \in Seq(Row) /\ current \in Seq(Row)

LEMMA PagesAreRowsAlways == Spec => []PagesAreRows
<1>1. Init => PagesAreRows
  BY EmptySeq DEF Init, PagesAreRows
<1>2. PagesAreRows /\ [Next]_pages => PagesAreRows'
  <2> SUFFICES ASSUME PagesAreRows, [Next]_pages PROVE PagesAreRows'
    OBVIOUS
  <2> USE DEF PagesAreRows
  <2>1. CASE ScrapeBaseline
    <3>1. PICK row \in SampleRows : baseline' = Append(baseline, row)
      BY <2>1 DEF ScrapeBaseline
    <3>2. row \in Row
      BY SampleAssumption
    <3> QED BY <2>1, <3>1, <3>2, AppendProperties DEF ScrapeBaseline
  <2>2. CASE ScrapeCurrent
    <3>1. PICK row \in SampleRows : current' = Append(current, row)
      BY <2>2 DEF ScrapeCurrent
    <3>2. row \in Row
      BY SampleAssumption
    <3> QED BY <2>2, <3>1, <3>2, AppendProperties DEF ScrapeCurrent
  <2>3. CASE UNCHANGED pages
    BY <2>3 DEF pages
  <2> QED BY <2>1, <2>2, <2>3 DEF Next
<1> QED BY <1>1, <1>2, PTL DEF Spec

\* The contract a regular page of a site taught accepts that page (profileContract,
\* evaluateContract).
THEOREM RegularPageIsAcceptedAlways == Spec => []RegularPageIsAccepted
<1>1. PagesAreRows => RegularPageIsAccepted
  BY RowsMayBeJudged, LearnedContractAcceptsItsRun DEF PagesAreRows, RegularPageIsAccepted
<1> QED BY <1>1, PagesAreRowsAlways, PTL
-----------------------------------------------------------------------------
(* Nth: the k-th element of a set of places. *)

UpTo(S, n) == {m \in S : m <= n}

LEMMA UpToCounts ==
    ASSUME NEW N \in Nat, NEW S, S \subseteq 1 .. N
    PROVE  /\ IsFiniteSet(S) /\ Cardinality(S) \in Nat
           /\ \A n \in 0 .. N : IsFiniteSet(UpTo(S, n)) /\ Cardinality(UpTo(S, n)) \in Nat
           /\ Cardinality(UpTo(S, 0)) = 0
           /\ UpTo(S, N) = S
           /\ \A i, j \in 0 .. N : i <= j => Cardinality(UpTo(S, i)) <= Cardinality(UpTo(S, j))
<1>1. IsFiniteSet(1 .. N)
  BY FS_Interval
<1>2. IsFiniteSet(S) /\ \A n : IsFiniteSet(UpTo(S, n))
  BY <1>1, FS_Subset DEF UpTo
<1>3. Cardinality(S) \in Nat /\ \A n : Cardinality(UpTo(S, n)) \in Nat
  BY <1>2, FS_CardinalityType
<1>4. UpTo(S, 0) = {} /\ UpTo(S, N) = S
  <2>1. \A m \in S : ~(m <= 0) /\ m <= N
    OBVIOUS
  <2>2. UpTo(S, 0) = {}
    BY <2>1 DEF UpTo
  <2>3. UpTo(S, N) = S
    BY <2>1 DEF UpTo
  <2> QED BY <2>2, <2>3
<1>5. Cardinality(UpTo(S, 0)) = 0
  BY <1>4, FS_EmptySet
<1>6. ASSUME NEW i \in 0 .. N, NEW j \in 0 .. N, i <= j
      PROVE  Cardinality(UpTo(S, i)) <= Cardinality(UpTo(S, j))
  <2>1. UpTo(S, i) \subseteq UpTo(S, j)
    <3>1. \A m \in S : m \in Int /\ (m <= i => m <= j)
      BY <1>6
    <3> QED BY <3>1 DEF UpTo
  <2> QED BY <1>2, <2>1, FS_Subset
<1> QED BY <1>2, <1>3, <1>4, <1>5, <1>6

LEMMA UpToNext ==
    ASSUME NEW N \in Nat, NEW S, S \subseteq 1 .. N, NEW n \in 0 .. N - 1
    PROVE  /\ n + 1 \in S => Cardinality(UpTo(S, n + 1)) = Cardinality(UpTo(S, n)) + 1
           /\ n + 1 \notin S => Cardinality(UpTo(S, n + 1)) = Cardinality(UpTo(S, n))
<1>1. IsFiniteSet(UpTo(S, n)) /\ Cardinality(UpTo(S, n)) \in Nat
  <2>1. n \in 0 .. N
    OBVIOUS
  <2> QED BY <2>1, UpToCounts
<1>2. \A m \in S : m \in Int /\ (m <= n + 1 <=> m <= n \/ m = n + 1)
  OBVIOUS
<1>3. CASE n + 1 \in S
  <2>1. UpTo(S, n + 1) = UpTo(S, n) \cup {n + 1}
    BY <1>2, <1>3 DEF UpTo
  <2>2. n + 1 \notin UpTo(S, n)
    BY DEF UpTo
  <2>3. Cardinality(UpTo(S, n + 1)) = Cardinality(UpTo(S, n)) + 1
    BY <1>1, <2>1, <2>2, FS_AddElement
  <2> QED BY <1>3, <2>3
<1>4. CASE n + 1 \notin S
  <2>1. UpTo(S, n + 1) = UpTo(S, n)
    BY <1>2, <1>4 DEF UpTo
  <2> QED BY <1>1, <1>4, <2>1
<1> QED BY <1>3, <1>4

LEMMA NthIsInOrder ==
    ASSUME NEW N \in Nat, NEW S, S \subseteq 1 .. N
    PROVE  \A k \in 1 .. Cardinality(S) :
              /\ Nth(S, k) \in S /\ Nth(S, k) \in 1 .. N
              /\ Cardinality(UpTo(S, Nth(S, k))) = k
<1> DEFINE T == {n \in 0 .. N : \A k \in 1 .. Cardinality(UpTo(S, n)) :
                                   \E m \in S : Cardinality(UpTo(S, m)) = k}
<1>0. /\ UpTo(S, N) = S /\ Cardinality(UpTo(S, 0)) = 0
      /\ \A n \in 0 .. N : Cardinality(UpTo(S, n)) \in Nat
  BY UpToCounts
<1>1. 0 \in T
  <2>1. Cardinality(UpTo(S, 0)) = 0
    BY <1>0
  <2>2. 0 \in 0 .. N /\ 1 .. 0 = {}
    OBVIOUS
  <2> QED BY <2>1, <2>2
<1>2. ASSUME NEW n \in 0 .. N - 1, n \in T
      PROVE  n + 1 \in T
  <2>1. n + 1 \in 0 .. N /\ Cardinality(UpTo(S, n)) \in Nat
    <3>1. n \in 0 .. N /\ n + 1 \in 0 .. N
      OBVIOUS
    <3>2. Cardinality(UpTo(S, n)) \in Nat
      BY <1>0, <3>1
    <3> QED BY <3>1, <3>2
  <2>2. /\ n + 1 \in S => Cardinality(UpTo(S, n + 1)) = Cardinality(UpTo(S, n)) + 1
        /\ n + 1 \notin S => Cardinality(UpTo(S, n + 1)) = Cardinality(UpTo(S, n))
    BY UpToNext
  <2>3. ASSUME NEW k \in 1 .. Cardinality(UpTo(S, n + 1))
        PROVE  \E m \in S : Cardinality(UpTo(S, m)) = k
    <3>1. CASE k \in 1 .. Cardinality(UpTo(S, n))
      BY <1>2, <3>1
    <3>2. CASE k \notin 1 .. Cardinality(UpTo(S, n))
      <4>1. n + 1 \in S /\ k = Cardinality(UpTo(S, n + 1))
        BY <2>1, <2>2, <3>2
      <4> QED BY <4>1
    <3> QED BY <3>1, <3>2
  <2> QED BY <2>1, <2>3
<1> HIDE DEF T
<1>3. 0 .. N \subseteq T
  BY <1>1, <1>2, InductionUpTo
<1>4. N \in 0 .. N
  OBVIOUS
<1>5. \A k \in 1 .. Cardinality(S) : \E m \in S : Cardinality(UpTo(S, m)) = k
  BY <1>0, <1>3, <1>4 DEF T
<1>6. \A k \in 1 .. Cardinality(S) : Nth(S, k) \in S /\ Cardinality(UpTo(S, Nth(S, k))) = k
  BY <1>5 DEF Nth, UpTo
<1> QED BY <1>6

LEMMA NthIsIncreasing ==
    ASSUME NEW N \in Nat, NEW S, S \subseteq 1 .. N,
           NEW k \in 1 .. Cardinality(S), NEW l \in 1 .. Cardinality(S), k < l
    PROVE  Nth(S, k) < Nth(S, l)
<1>1. /\ Nth(S, k) \in 1 .. N /\ Nth(S, l) \in 1 .. N
      /\ Cardinality(UpTo(S, Nth(S, k))) = k /\ Cardinality(UpTo(S, Nth(S, l))) = l
  BY NthIsInOrder
<1>2. Nth(S, l) <= Nth(S, k) => l <= k
  <2>1. Nth(S, k) \in 0 .. N /\ Nth(S, l) \in 0 .. N
    BY <1>1
  <2>2. \A i, j \in 0 .. N : i <= j => Cardinality(UpTo(S, i)) <= Cardinality(UpTo(S, j))
    BY UpToCounts
  <2> QED BY <1>1, <2>1, <2>2
<1>3. Cardinality(S) \in Nat
  BY UpToCounts
<1> QED BY <1>1, <1>2, <1>3
-----------------------------------------------------------------------------
(* The rows a check accepts. *)

CleanRows(rows, contract) == {i \in DOMAIN rows : RowViolations(rows, i, contract) = {}}

\* What repeats no identity among some rows repeats none among fewer, in the same order.
LEMMA AcceptedRowsAreClean ==
    ASSUME NEW rows \in Seq(Row), NEW contract
    PROVE  LET accepted == evaluateContract(rows, contract).acceptedRecords
           IN  evaluateContract(accepted, contract).acceptedRecords = accepted
<1> DEFINE clean == CleanRows(rows, contract)
           N == Cardinality(clean)
           kept == [k \in 1 .. N |-> rows[Nth(clean, k)]]
           accepted == evaluateContract(rows, contract).acceptedRecords
<1>1. Len(rows) \in Nat /\ DOMAIN rows = 1 .. Len(rows)
      /\ \A i \in DOMAIN rows : rows[i] \in Row /\ rows[i] # NonRow
  BY RowsMayBeJudged
<1>2. CASE clean = DOMAIN rows
  <2>1. accepted = rows
    BY <1>2 DEF evaluateContract, CleanRows
  <2> QED BY <2>1
<1>3. CASE clean # DOMAIN rows
  <2>1. accepted = kept
    BY <1>3 DEF evaluateContract, CleanRows
  <2>2. clean \subseteq 1 .. Len(rows)
    BY <1>1 DEF CleanRows
  <2>3. \A i \in clean : RowViolations(rows, i, contract) = {}
    BY DEF CleanRows
  <2> HIDE DEF clean
  <2>4. N \in Nat
    BY <1>1, <2>2, UpToCounts
  <2>5. \A k \in 1 .. N : Nth(clean, k) \in clean /\ Nth(clean, k) \in 1 .. Len(rows)
    BY <1>1, <2>2, NthIsInOrder
  <2>6. \A k, l \in 1 .. N : k < l => Nth(clean, k) < Nth(clean, l)
    BY <1>1, <2>2, NthIsIncreasing
  <2>7. DOMAIN kept = 1 .. N /\ \A k \in 1 .. N : kept[k] = rows[Nth(clean, k)]
    OBVIOUS
  <2> HIDE DEF kept, N
  <2>8. ASSUME NEW k \in 1 .. N
        PROVE  RowViolations(kept, k, contract) = {}
    <3> DEFINE i == Nth(clean, k)
    <3>1. kept[k] = rows[i] /\ i \in clean /\ i \in 1 .. Len(rows)
      BY <2>5, <2>7
    <3>2. RowViolations(rows, i, contract) = {}
      BY <2>3, <3>1
    <3>3. rows[i] # NonRow
      BY <1>1, <3>1
    <3> HIDE DEF i
    <3>4. /\ FieldViolations(rows[i], contract) = {}
          /\ CarriesData(rows[i])
          /\ ~RepeatsIdentity(rows, i, contract)
      BY <3>2, <3>3 DEF RowViolations
    <3>5. ~RepeatsIdentity(kept, k, contract)
      <4>1. SUFFICES ASSUME RepeatsIdentity(kept, k, contract)
                     PROVE  RepeatsIdentity(rows, i, contract)
        BY <3>4
      <4> DEFINE id == contract.identityField
      <4>2. PICK l \in 1 .. (k - 1) : /\ kept[l] # NonRow
                                      /\ HasValue(kept[l], id)
                                      /\ kept[l][id].key = kept[k][id].key
        BY <4>1 DEF RepeatsIdentity
      <4>3. l \in 1 .. N /\ l < k
        BY <2>4
      <4> DEFINE j == Nth(clean, l)
      <4>4. kept[l] = rows[j] /\ j \in 1 .. Len(rows) /\ j < i
        BY <2>5, <2>6, <2>7, <4>3 DEF i
      <4> HIDE DEF j
      <4>5. j \in 1 .. (i - 1)
        BY <3>1, <4>4
      <4>6. id # NoField /\ HasValue(rows[i], id)
        BY <3>1, <4>1 DEF RepeatsIdentity
      <4> HIDE DEF id
      <4>7. /\ rows[j] # NonRow /\ HasValue(rows[j], id)
            /\ rows[j][id].key = rows[i][id].key
        BY <3>1, <4>2, <4>4
      <4> QED BY <4>5, <4>6, <4>7 DEF RepeatsIdentity, id
    <3> QED BY <3>1, <3>3, <3>4, <3>5 DEF RowViolations
  <2>9. CleanRows(kept, contract) = DOMAIN kept
    BY <2>7, <2>8 DEF CleanRows
  <2>10. evaluateContract(kept, contract).acceptedRecords = kept
    BY <2>9 DEF evaluateContract, CleanRows
  <2> QED BY <2>1, <2>10
<1> QED BY <1>2, <1>3

\* Whatever rows are left out of a partly invalid run, those that remain are accepted without
\* them (evaluateContract, acceptedRecords).
THEOREM AcceptedRowsStandAloneAlways == Spec => []AcceptedRowsStandAlone
<1>1. PagesAreRows => AcceptedRowsStandAlone
  <2> SUFFICES ASSUME PagesAreRows PROVE AcceptedRowsStandAlone
    OBVIOUS
  <2> DEFINE contract == Learned
  <2> HIDE DEF contract
  <2>1. LET accepted == evaluateContract(current, contract).acceptedRecords
        IN  evaluateContract(accepted, contract).acceptedRecords = accepted
    BY AcceptedRowsAreClean DEF PagesAreRows
  <2> QED BY <2>1 DEF AcceptedRowsStandAlone, contract
<1> QED BY <1>1, PagesAreRowsAlways, PTL
-----------------------------------------------------------------------------
(* The overlap of a repair. *)

\* A repair that passes the overlap check on an identity has not lost more than half of the
\* rows, and rows cannot be counted twice to reach it (baselineOverlap).
THEOREM OverlapBoundsLossAlways == Spec => []OverlapBoundsLoss
<1>1. PagesAreRows => OverlapBoundsLoss
  <2>1. SUFFICES ASSUME PagesAreRows, Learned.identityField # NoField,
                        KeepsHalf(baseline, current, Learned)
                 PROVE  2 * Len(current) >= Len(baseline)
    BY DEF OverlapBoundsLoss
  <2> DEFINE kept == Cardinality(Retained(baseline, current, Learned))
  <2>2. baseline \in Seq(Row) /\ current \in Seq(Row)
    BY <2>1 DEF PagesAreRows
  <2>3. IsUsableIdentity(baseline, Learned.identityField)
    BY <2>1, <2>2, LearnedIdentity DEF Learned
  <2>4. kept \in Nat /\ kept <= Len(current)
    <3> DEFINE contract == Learned
    <3>1. contract.identityField # NoField /\ IsUsableIdentity(baseline, contract.identityField)
      BY <2>1, <2>3
    <3> HIDE DEF contract
    <3>2. Distinguishes(contract, baseline)
      BY <3>1, NamesDistinguish DEF IsUsableIdentity
    <3>3. /\ Cardinality(Retained(baseline, current, contract)) \in Nat
          /\ Cardinality(Retained(baseline, current, contract)) <= Len(current)
      BY <2>2, <3>2, RetainedAreAtMost
    <3> QED BY <3>3 DEF contract
  <2>5. 2 * kept >= Len(baseline) /\ Len(baseline) \in Nat /\ Len(current) \in Nat
    BY <2>1, <2>2, LenProperties DEF KeepsHalf
  <2> HIDE DEF kept
  <2> QED BY <2>4, <2>5
<1> QED BY <1>1, PagesAreRowsAlways, PTL
-----------------------------------------------------------------------------
(* The diff. *)

\* Two rows carry the same data exactly if every data field is the same in both.
LEMMA SameData ==
    ASSUME NEW before \in Row, NEW after \in Row
    PROVE  DataEntries(before) = DataEntries(after)
               <=> \A f \in Fields \ VendorFields : SameField(before, after, f)
<1> DEFINE D(row) == DOMAIN row \ VendorFields
<1>1. /\ DataEntries(before) = [f \in D(before) |-> before[f]]
      /\ DataEntries(after) = [f \in D(after) |-> after[f]]
  BY DEF DataEntries, Restrict
<1>2. D(before) \subseteq Fields \ VendorFields /\ D(after) \subseteq Fields \ VendorFields
  BY RowFields
<1>3. ASSUME DataEntries(before) = DataEntries(after), NEW f \in Fields \ VendorFields
      PROVE  SameField(before, after, f)
  <2>1. D(before) = D(after)
    <3>1. DOMAIN DataEntries(before) = D(before) /\ DOMAIN DataEntries(after) = D(after)
      BY <1>1
    <3> QED BY <1>3, <3>1
  <2>2. f \in D(before) => before[f] = after[f]
    <3>1. ASSUME f \in D(before)
          PROVE  DataEntries(before)[f] = before[f] /\ DataEntries(after)[f] = after[f]
      BY <1>1, <2>1, <3>1
    <3> QED BY <1>3, <3>1
  <2> QED BY <2>1, <2>2 DEF SameField
<1>4. ASSUME \A f \in Fields \ VendorFields : SameField(before, after, f)
      PROVE  DataEntries(before) = DataEntries(after)
  <2>1. D(before) = D(after)
    BY <1>2, <1>4 DEF SameField
  <2>2. \A f \in D(before) : before[f] = after[f]
    BY <1>2, <1>4, <2>1 DEF SameField
  <2> QED BY <1>1, <2>1, <2>2
<1> QED BY <1>3, <1>4

\* The index of rows with names of their own holds each of them under its name.
LEMMA IndexOfNamedRows ==
    ASSUME NEW rows \in Seq(Row), NEW id,
           \A i \in DOMAIN rows : HasValue(rows[i], id),
           \A i, j \in DOMAIN rows : rows[i][id].text = rows[j][id].text => i = j
    PROVE  /\ DOMAIN indexByIdentity(rows, id) = {rows[i][id].text : i \in DOMAIN rows}
           /\ \A i \in DOMAIN rows : indexByIdentity(rows, id)[rows[i][id].text] = rows[i]
<1> DEFINE named == {i \in DOMAIN rows : id \in DOMAIN rows[i] /\ ~IsNull(rows[i][id])}
           last(text) == CHOOSE i \in named :
                            /\ rows[i][id].text = text
                            /\ \A j \in named : rows[j][id].text = text => j <= i
           texts == {rows[i][id].text : i \in named}
<1>1. named = DOMAIN rows
  BY DEF HasValue, IsNull
<1>2. indexByIdentity(rows, id) = [text \in texts |-> rows[last(text)]]
  BY DEF indexByIdentity
<1>3. ASSUME NEW i \in DOMAIN rows
      PROVE  last(rows[i][id].text) = i
  <2> DEFINE l == last(rows[i][id].text)
  <2>0. /\ i \in named /\ i <= i
        /\ \A j \in named : rows[j][id].text = rows[i][id].text => j <= i
    <3>1. i \in Nat /\ i <= i
      BY LenProperties
    <3>2. \A j \in named : rows[j][id].text = rows[i][id].text => j = i
      BY <1>1
    <3> QED BY <1>1, <3>1, <3>2
  <2>1. l \in named /\ rows[l][id].text = rows[i][id].text
    BY <2>0
  <2> HIDE DEF l
  <2> QED BY <1>1, <2>1 DEF l
<1> HIDE DEF last
<1>4. texts = {rows[i][id].text : i \in DOMAIN rows}
  BY <1>1
<1> HIDE DEF named, texts
<1> QED BY <1>2, <1>3, <1>4

\* The names of the rows of two pages, and the one row of each page behind a name.
LEMMA NamedPages ==
    ASSUME NEW before \in Seq(Row), NEW after \in Seq(Row),
           evaluateContract(before, profileContract(before)).valid,
           evaluateContract(after, profileContract(before)).valid,
           profileContract(before).identityField # NoField
    PROVE  LET id == profileContract(before).identityField
               Named(rows) ==
                   /\ \A i \in DOMAIN rows :
                         /\ rows[i] \in Row /\ HasValue(rows[i], id)
                         /\ rows[i][id].type = profileContract(before).fieldTypes[id]
                   /\ \A i, j \in DOMAIN rows : rows[i][id].text = rows[j][id].text => i = j
           IN  id \in Fields \ VendorFields /\ Named(before) /\ Named(after)
<1> DEFINE contract == profileContract(before)
           id == contract.identityField
<1>1. id \in Fields \ VendorFields /\ id \in contract.requiredFields
      /\ IsUsableIdentity(before, id)
  BY LearnedIdentity
<1>2. id \in DOMAIN contract.fieldTypes
  <2>1. Len(before) >= 1
    BY DEF evaluateContract, profileContract
  <2>2. 1 \in DOMAIN before
    BY <2>1, LenProperties
  <2>3. HasValue(before[1], id) /\ before[1][id].type \in FieldTypes
    BY <1>1, <2>2 DEF IsUsableIdentity, ScalarTypes, FieldTypes
  <2>4. 1 \in OfType(before, id, before[1][id].type)
    BY <2>2, <2>3 DEF OfType, Present
  <2>5. id \in DataFields(before)
    BY <1>1 DEF profileContract
  <2>6. \E type \in FieldTypes : OfType(before, id, type) # {}
    BY <2>3, <2>4
  <2>7. DOMAIN contract.fieldTypes = {f \in DataFields(before) :
                                \E type \in FieldTypes : OfType(before, f, type) # {}}
    BY DEF profileContract
  <2> QED BY <2>5, <2>6, <2>7
<1> HIDE DEF contract
<1>3. \A rows \in Seq(Row) : evaluateContract(rows, contract).valid =>
         /\ \A i \in DOMAIN rows : /\ rows[i] \in Row /\ HasValue(rows[i], id)
                                   /\ rows[i][id].type = contract.fieldTypes[id]
         /\ \A i, j \in DOMAIN rows : rows[i][id].text = rows[j][id].text => i = j
  <2> SUFFICES ASSUME NEW rows \in Seq(Row), evaluateContract(rows, contract).valid
               PROVE  /\ \A i \in DOMAIN rows : /\ rows[i] \in Row /\ HasValue(rows[i], id)
                                                /\ rows[i][id].type = contract.fieldTypes[id]
                      /\ \A i, j \in DOMAIN rows : rows[i][id].text = rows[j][id].text => i = j
    OBVIOUS
  <2>1. contract.identityField # NoField
    BY <1>1, FieldsAssumption
  <2>2. /\ \A i \in DOMAIN rows : /\ HasValue(rows[i], id)
                                  /\ id \in DOMAIN contract.fieldTypes =>
                                        rows[i][id].type = contract.fieldTypes[id]
        /\ \A i, j \in DOMAIN rows : rows[i][id].text = rows[j][id].text => i = j
    BY <1>1, <2>1, ValidRowsAreNamed
  <2>3. \A i \in DOMAIN rows : rows[i] \in Row
    BY RowsMayBeJudged
  <2> QED BY <1>2, <2>2, <2>3
<1>4. evaluateContract(before, contract).valid /\ evaluateContract(after, contract).valid
  BY DEF contract
<1> QED BY <1>1, <1>3, <1>4 DEF contract

\* Two values of a field that satisfy one contract and have the same text are the same.
LEMMA SameTextSameValue ==
    ASSUME NEW v \in Values, NEW w \in Values, v.text = w.text, v.type = w.type,
           ~v.empty, ~w.empty
    PROVE  v = w
<1>1. v.key = w.key
  BY ValuesAssumption
<1>2. v.empty = w.empty
  <2>1. v.empty \in BOOLEAN /\ w.empty \in BOOLEAN
    BY ValuesAssumption
  <2> QED BY <2>1
<1>3. /\ v = [type |-> v.type, text |-> v.text, key |-> v.key, empty |-> v.empty]
      /\ w = [type |-> w.type, text |-> w.text, key |-> w.key, empty |-> w.empty]
  BY ValuesAssumption
<1> QED BY <1>1, <1>2, <1>3
LEMMA DiffOfValidPages ==
    ASSUME NEW before \in Seq(Row), NEW after \in Seq(Row),
           evaluateContract(before, profileContract(before)).valid,
           evaluateContract(after, profileContract(before)).valid
    PROVE  DataOf(before) = DataOf(after)
               <=> ~HasChanges(compareToBaseline(before, after, profileContract(before)))
<1> DEFINE contract == profileContract(before)
           id == contract.identityField
           diff == compareToBaseline(before, after, contract)
<1>1. CASE id = NoField
  <2>1. /\ diff.changes = {}
        /\ diff.added = DataOf(after) \ DataOf(before)
        /\ diff.removed = DataOf(before) \ DataOf(after)
    <3> HIDE DEF contract
    <3> QED BY <1>1 DEF compareToBaseline, DataOf, rowFingerprint
  <2> HIDE DEF diff, contract
  <2>2. DataOf(before) = DataOf(after) <=> ~HasChanges(diff)
    BY <2>1 DEF HasChanges
  <2> QED BY <2>2 DEF diff, contract
<1>2. CASE id # NoField
  <2> DEFINE Named(rows) ==
                 /\ \A i \in DOMAIN rows :
                       /\ rows[i] \in Row /\ HasValue(rows[i], id)
                       /\ rows[i][id].type = contract.fieldTypes[id]
                 /\ \A i, j \in DOMAIN rows : rows[i][id].text = rows[j][id].text => i = j
             texts(rows) == {rows[i][id].text : i \in DOMAIN rows}
             was == indexByIdentity(before, id)
             is == indexByIdentity(after, id)
  <2>1. id \in Fields \ VendorFields /\ Named(before) /\ Named(after)
    BY <1>2, NamedPages
  <2>2. /\ diff.changes = {change \in (DOMAIN was \cap DOMAIN is)
                                          \X (Fields \ (VendorFields \cup {id})) :
                              ~SameField(was[change[1]], is[change[1]], change[2])}
        /\ diff.added = DOMAIN is \ DOMAIN was
        /\ diff.removed = DOMAIN was \ DOMAIN is
    <3> HIDE DEF contract
    <3> QED BY <1>2 DEF compareToBaseline
  <2> HIDE DEF contract, diff
  <2>3. /\ DOMAIN was = texts(before) /\ \A i \in DOMAIN before : was[before[i][id].text] = before[i]
        /\ DOMAIN is = texts(after) /\ \A i \in DOMAIN after : is[after[i][id].text] = after[i]
    <3>1. /\ \A i \in DOMAIN before : HasValue(before[i], id)
          /\ \A i, j \in DOMAIN before : before[i][id].text = before[j][id].text => i = j
          /\ \A i \in DOMAIN after : HasValue(after[i], id)
          /\ \A i, j \in DOMAIN after : after[i][id].text = after[j][id].text => i = j
      BY <2>1
    <3> HIDE DEF id
    <3>2. /\ DOMAIN was = texts(before)
          /\ \A i \in DOMAIN before : was[before[i][id].text] = before[i]
      BY <3>1, IndexOfNamedRows
    <3>3. /\ DOMAIN is = texts(after)
          /\ \A i \in DOMAIN after : is[after[i][id].text] = after[i]
      BY <3>1, IndexOfNamedRows
    <3> QED BY <3>2, <3>3
  <2> HIDE DEF was, is
  <2>4. ASSUME ~HasChanges(diff)
        PROVE  DataOf(before) = DataOf(after)
    <3>1. texts(before) = texts(after) /\ diff.changes = {}
      BY <2>2, <2>3, <2>4 DEF HasChanges
    <3>2. ASSUME NEW i \in DOMAIN before, NEW j \in DOMAIN after,
                 before[i][id].text = after[j][id].text
          PROVE  DataEntries(before[i]) = DataEntries(after[j])
      <4>1. was[before[i][id].text] = before[i] /\ is[before[i][id].text] = after[j]
            /\ before[i][id].text \in DOMAIN was \cap DOMAIN is
        BY <2>3, <3>1, <3>2
      <4>2. \A f \in Fields \ (VendorFields \cup {id}) : SameField(before[i], after[j], f)
        <5>1. SUFFICES ASSUME NEW f \in Fields \ (VendorFields \cup {id}),
                              ~SameField(before[i], after[j], f)
                       PROVE  FALSE
          OBVIOUS
        <5>2. <<before[i][id].text, f>> \in diff.changes
          BY <2>2, <4>1, <5>1
        <5> QED BY <3>1, <5>2
      <4>3. /\ before[i] \in Row /\ HasValue(before[i], id)
            /\ before[i][id].type = contract.fieldTypes[id]
            /\ after[j] \in Row /\ HasValue(after[j], id)
            /\ after[j][id].type = contract.fieldTypes[id]
        BY <2>1
      <4>4. before[i][id] = after[j][id]
        <5>1. before[i][id] \in Values /\ after[j][id] \in Values
          BY <4>3, RowFields DEF HasValue
        <5> QED BY <3>2, <4>3, <5>1, SameTextSameValue DEF HasValue
      <4>5. SameField(before[i], after[j], id)
        BY <4>3, <4>4 DEF SameField, HasValue
      <4>6. \A f \in Fields \ VendorFields : SameField(before[i], after[j], f)
        BY <4>2, <4>5
      <4> QED BY <4>3, <4>6, SameData
    <3>3. \A i \in DOMAIN before : \E j \in DOMAIN after : before[i][id].text = after[j][id].text
      BY <3>1
    <3>4. \A j \in DOMAIN after : \E i \in DOMAIN before : before[i][id].text = after[j][id].text
      BY <3>1
    <3>5. /\ DataOf(before) = {DataEntries(before[i]) : i \in DOMAIN before}
          /\ DataOf(after) = {DataEntries(after[i]) : i \in DOMAIN after}
      BY DEF DataOf, Range
    <3>6. \A i \in DOMAIN before : \E j \in DOMAIN after :
              DataEntries(before[i]) = DataEntries(after[j])
      BY <3>2, <3>3
    <3>7. \A j \in DOMAIN after : \E i \in DOMAIN before :
              DataEntries(before[i]) = DataEntries(after[j])
      BY <3>2, <3>4
    <3> QED BY <3>5, <3>6, <3>7
  <2>5. ASSUME DataOf(before) = DataOf(after)
        PROVE  ~HasChanges(diff)
    <3>1. /\ DataOf(before) = {DataEntries(before[i]) : i \in DOMAIN before}
          /\ DataOf(after) = {DataEntries(after[i]) : i \in DOMAIN after}
      BY DEF DataOf, Range
    <3>2. ASSUME NEW i \in DOMAIN before, NEW j \in DOMAIN after,
                 DataEntries(before[i]) = DataEntries(after[j])
          PROVE  /\ before[i][id].text = after[j][id].text
                 /\ \A f \in Fields \ VendorFields : SameField(before[i], after[j], f)
      <4>1. before[i] \in Row /\ after[j] \in Row /\ HasValue(before[i], id)
            /\ HasValue(after[j], id)
        BY <2>1
      <4>2. \A f \in Fields \ VendorFields : SameField(before[i], after[j], f)
        BY <3>2, <4>1, SameData
      <4>3. SameField(before[i], after[j], id)
        BY <2>1, <4>2
      <4>4. before[i][id] = after[j][id]
        BY <4>1, <4>3 DEF SameField, HasValue
      <4> QED BY <4>2, <4>4
    <3>3. \A i \in DOMAIN before : \E j \in DOMAIN after :
              DataEntries(before[i]) = DataEntries(after[j])
      BY <2>5, <3>1
    <3>4. \A j \in DOMAIN after : \E i \in DOMAIN before :
              DataEntries(before[i]) = DataEntries(after[j])
      <4>1. \A j \in DOMAIN after : DataEntries(after[j]) \in DataOf(before)
        BY <2>5, <3>1
      <4> QED BY <3>1, <4>1
    <3>5. texts(before) = texts(after)
      <4>1. \A i \in DOMAIN before : \E j \in DOMAIN after :
                before[i][id].text = after[j][id].text
        BY <3>2, <3>3
      <4>2. \A j \in DOMAIN after : \E i \in DOMAIN before :
                before[i][id].text = after[j][id].text
        BY <3>2, <3>4
      <4> HIDE DEF id
      <4>3. \A i \in DOMAIN before : before[i][id].text \in texts(after)
        BY <4>1
      <4>4. \A j \in DOMAIN after : after[j][id].text \in texts(before)
        BY <4>2
      <4> QED BY <4>3, <4>4
    <3>6. diff.changes = {}
      <4>1. SUFFICES ASSUME NEW text \in DOMAIN was \cap DOMAIN is,
                            NEW f \in Fields \ (VendorFields \cup {id})
                     PROVE  SameField(was[text], is[text], f)
        BY <2>2
      <4>2. PICK i \in DOMAIN before : text = before[i][id].text
        BY <2>3
      <4>3. PICK j \in DOMAIN after : DataEntries(before[i]) = DataEntries(after[j])
        BY <3>3
      <4>4. text = after[j][id].text /\ SameField(before[i], after[j], f)
        BY <3>2, <4>2, <4>3
      <4> QED BY <2>3, <4>2, <4>4
    <3> QED BY <2>2, <2>3, <3>5, <3>6 DEF HasChanges
  <2>6. DataOf(before) = DataOf(after) <=> ~HasChanges(diff)
    BY <2>4, <2>5
  <2> QED BY <2>6 DEF diff, contract
<1> QED BY <1>1, <1>2

\* Between two pages that satisfy the learned contract the diff misses no edit, loss or
\* addition of data, and takes nothing Bright Data adds for one (compareToBaseline).
THEOREM DiffIsExactAlways == Spec => []DiffIsExact
<1>1. PagesAreRows => DiffIsExact
  BY DiffOfValidPages DEF PagesAreRows, DiffIsExact, Comparable, Learned
<1> QED BY <1>1, PagesAreRowsAlways, PTL
-----------------------------------------------------------------------------
(* An unchanged page. *)

LEMMA EveryPlaceIsTaken ==
    ASSUME NEW n \in Nat, NEW p \in [1 .. n -> 1 .. n], IsInjective(p)
    PROVE  \A k \in 1 .. n : \E i \in 1 .. n : p[i] = k
<1>1. IsFiniteSet(1 .. n)
  BY FS_Interval
<1>2. p \in Injection(1 .. n, 1 .. n)
  BY DEF Injection
<1>3. p \in Surjection(1 .. n, 1 .. n)
  BY <1>1, <1>2, FS_Injection
<1> QED BY <1>3 DEF Surjection

\* The rows of a valid page satisfy the contract in any order.
LEMMA OrderDoesNotMatter ==
    ASSUME NEW before \in Seq(Row), NEW after \in Seq(Row), Len(after) = Len(before),
           NEW p \in [DOMAIN before -> DOMAIN before], IsInjective(p),
           \A i \in DOMAIN before : after[p[i]] = before[i],
           NEW contract,
           contract.identityField # NoField =>
               contract.identityField \in contract.requiredFields,
           evaluateContract(before, contract).valid
    PROVE  evaluateContract(after, contract).valid /\ Range(after) = Range(before)
<1> DEFINE id == contract.identityField
           n == Len(before)
<1>1. /\ n \in Nat /\ DOMAIN before = 1 .. n /\ DOMAIN after = 1 .. n
      /\ before \in Seq(Row \cup {NonRow})
      /\ \A i \in 1 .. n : before[i] # NonRow
  BY RowsMayBeJudged
<1>2. \A k \in 1 .. n : \E i \in 1 .. n : p[i] = k
  <2>1. p \in [1 .. n -> 1 .. n] /\ n \in Nat
    BY <1>1
  <2> HIDE DEF n
  <2> QED BY <2>1, EveryPlaceIsTaken
<1>3. \A k \in 1 .. n : \E i \in 1 .. n : p[i] = k /\ after[k] = before[i]
  BY <1>1, <1>2
<1>4. Range(after) = Range(before)
  <2>1. \A i \in 1 .. n : \E k \in 1 .. n : after[k] = before[i]
    <3>1. \A i \in 1 .. n : p[i] \in 1 .. n
      BY <1>1
    <3> QED BY <1>1, <3>1
  <2> HIDE DEF n
  <2>2. Range(after) = {after[k] : k \in 1 .. n} /\ Range(before) = {before[i] : i \in 1 .. n}
    BY <1>1 DEF Range
  <2>3. \A i \in 1 .. n : before[i] \in Range(after)
    BY <2>1, <2>2
  <2>4. \A k \in 1 .. n : after[k] \in Range(before)
    BY <1>3, <2>2
  <2> QED BY <2>2, <2>3, <2>4
<1>5. \A i \in 1 .. n : RowViolations(before, i, contract) = {}
  BY <1>1, ValidRunIsKeptWhole
<1>6. Len(after) >= contract.minimumRows /\ Len(after) <= contract.maximumRows
  BY DEF evaluateContract
<1> HIDE DEF n
<1>7. ASSUME NEW k \in 1 .. n
      PROVE  RowViolations(after, k, contract) = {}
  <2>1. PICK i \in 1 .. n : p[i] = k /\ after[k] = before[i]
    BY <1>3
  <2>2. FieldViolations(before[i], contract) = {} /\ CarriesData(before[i])
    BY <1>1, <1>5 DEF RowViolations
  <2>3. ~RepeatsIdentity(after, k, contract)
    <3>1. SUFFICES ASSUME RepeatsIdentity(after, k, contract) PROVE FALSE
      OBVIOUS
    <3>2. id # NoField
      BY <3>1 DEF RepeatsIdentity
    <3>3. PICK l \in 1 .. (k - 1) : after[l][id].key = after[k][id].key
      BY <3>1 DEF RepeatsIdentity
    <3>4. l \in 1 .. n /\ l # k
      BY <1>1
    <3>5. PICK j \in 1 .. n : p[j] = l /\ after[l] = before[j]
      BY <1>3, <3>4
    <3>6. before[j][id].key = before[i][id].key /\ i # j
      BY <2>1, <3>3, <3>4, <3>5
    <3>7. \A x, y \in DOMAIN before : before[x][id].key = before[y][id].key => x = y
      BY <3>2, ValidRowsAreNamed
    <3> QED BY <1>1, <3>6, <3>7
  <2> QED BY <1>1, <2>1, <2>2, <2>3 DEF RowViolations
<1>8. evaluateContract(after, contract).valid
  BY <1>1, <1>6, <1>7, CleanRunIsValid
<1> QED BY <1>4, <1>8

\* A site that shows the same rows in another order is left alone: no repair is tried on it
\* and no change reported (profileContract, evaluateContract, compareToBaseline, classifyRun).
THEOREM UnchangedPageIsHealthyAlways == Spec => []UnchangedPageIsHealthy
<1>1. PagesAreRows => UnchangedPageIsHealthy
  <2>1. SUFFICES ASSUME PagesAreRows, Regular(baseline), Reordered,
                        evaluateContract(baseline, BOOTSTRAP_CONTRACT).valid
                 PROVE  classifyRun(Collected(current), evaluateContract(current, Learned),
                                    baseline, Learned) = Verdict("healthy", 100, "publish")
    BY DEF UnchangedPageIsHealthy
  <2> DEFINE contract == profileContract(baseline)
             evaluation == evaluateContract(current, contract)
  <2>2. baseline \in Seq(Row) /\ current \in Seq(Row)
    BY <2>1 DEF PagesAreRows
  <2>3. evaluateContract(baseline, contract).valid
    BY <2>1, <2>2, RowsMayBeJudged, LearnedContractAcceptsItsRun DEF AcceptsWhatItLearned
  <2>4. contract.identityField # NoField =>
            contract.identityField \in contract.requiredFields
    BY <2>2, LearnedIdentity
  <2>5. Len(baseline) \in Nat /\ Len(baseline) >= 1 /\ Len(current) = Len(baseline)
    BY <2>1, <2>2, LenProperties DEF evaluateContract, BOOTSTRAP_CONTRACT, Reordered
  <2>6. evaluation.valid /\ Range(current) = Range(baseline)
    <3>1. PICK p \in [DOMAIN baseline -> DOMAIN baseline] :
              IsInjective(p) /\ \A i \in DOMAIN baseline : current[p[i]] = baseline[i]
      BY <2>1 DEF Reordered
    <3> HIDE DEF contract
    <3>2. evaluateContract(current, contract).valid /\ Range(current) = Range(baseline)
      BY <2>2, <2>3, <2>4, <2>5, <3>1, OrderDoesNotMatter
    <3> QED BY <3>2
  <2>7. DataOf(baseline) = DataOf(current)
    BY <2>6 DEF DataOf
  <2>8. ~HasChanges(compareToBaseline(baseline, current, contract))
    BY <2>2, <2>3, <2>6, <2>7, DiffOfValidPages
  <2>9. evaluation.acceptedRecords = current
    BY <2>2, <2>6, RowsMayBeJudged, ValidRunIsKeptWhole
  <2> HIDE DEF contract, evaluation
  <2>10. ClassifyAgainstBaseline(current, baseline, contract) = Verdict("healthy", 100, "publish")
    <3>1. baseline # NoBaseline
      BY <2>2, NoBaselineAssumption
    <3>2. ~(Len(current) * 2 < Len(baseline))
      BY <2>5
    <3>3. baseline # <<>>
      BY <2>5, EmptySeq
    <3> QED BY <2>8, <3>1, <3>2, <3>3 DEF ClassifyAgainstBaseline
  <2>11. current # <<>>
    BY <2>5, EmptySeq
  <2>12. classifyRun(Collected(current), evaluation, baseline, contract)
             = ClassifyAgainstBaseline(evaluation.acceptedRecords, baseline, contract)
    BY <2>6, <2>11 DEF classifyRun, Collected
  <2> QED BY <2>9, <2>10, <2>12 DEF contract, evaluation, Learned
<1> QED BY <1>1, PagesAreRowsAlways, PTL
-----------------------------------------------------------------------------
(* The scores. *)

\* A share of what there is.
IsShare(score) == \E p, q \in Nat : score = <<p, q>> /\ q > 0 /\ p <= q

\* A sum of k shares, which is k if each of them is full.
IsSum(score, k) == \E x, y \in Nat : score = <<x, y>> /\ y > 0 /\ x <= k * y

Exhausts(score, k) == score[1] = k * score[2]

LEMMA SumOfShares ==
    ASSUME NEW k \in Nat, NEW x \in Nat, NEW y \in Nat, NEW p \in Nat, NEW q \in Nat,
           y > 0, q > 0, x <= k * y, p <= q
    PROVE  /\ x * q + p * y \in Nat /\ y * q \in Nat /\ y * q > 0
           /\ x * q + p * y <= (k + 1) * (y * q)
           /\ x * q + p * y = (k + 1) * (y * q) <=> x = k * y /\ p = q
<1>1. PICK d \in Nat : k * y = x + d
  <2>1. k * y \in Nat
    OBVIOUS
  <2> DEFINE all == k * y
  <2> HIDE DEF all
  <2>2. all - x \in Nat /\ all = x + (all - x)
    BY <2>1 DEF all
  <2> QED BY <2>2 DEF all
<1>2. PICK e \in Nat : q = p + e
  <2>1. q - p \in Nat /\ q = p + (q - p)
    OBVIOUS
  <2> QED BY <2>1
<1> DEFINE sum == x * q + p * y
           short == d * q + y * e
<1>3. (k + 1) * (y * q) = sum + short
  <2>1. (k + 1) * (y * q) = (k * y) * q + y * q
    OBVIOUS
  <2>2. (x + d) * q = x * q + d * q
    OBVIOUS
  <2>3. y * q = y * p + y * e
    BY <1>2
  <2>4. y * p = p * y
    OBVIOUS
  <2> QED BY <1>1, <2>1, <2>2, <2>3, <2>4
<1>4. /\ x * q \in Nat /\ p * y \in Nat /\ d * q \in Nat /\ y * e \in Nat
      /\ y * q \in Nat /\ y * q > 0
      /\ (d > 0 => d * q > 0) /\ (e > 0 => y * e > 0)
      /\ (d = 0 => d * q = 0) /\ (e = 0 => y * e = 0)
  BY SMT
<1>5. sum \in Nat /\ short \in Nat /\ (short = 0 <=> d = 0 /\ e = 0)
  BY <1>4
<1>6. x = k * y <=> d = 0
  BY <1>1
<1>7. p = q <=> e = 0
  BY <1>2
<1> DEFINE most == (k + 1) * (y * q)
<1>8. sum <= most /\ (sum = most <=> short = 0)
  <2> HIDE DEF sum, short, most
  <2> QED BY <1>3, <1>5 DEF most
<1> QED BY <1>4, <1>5, <1>6, <1>7, <1>8

\* A score that could not be measured is left out of the sum and of the number of its terms.
LEMMA PlusCounts ==
    ASSUME NEW k \in Nat, NEW total, IsSum(total, k),
           NEW score, score = NoScore \/ IsShare(score)
    PROVE  /\ k + Measured(score) \in Nat
           /\ IsSum(Plus(total, score), k + Measured(score))
           /\ Exhausts(Plus(total, score), k + Measured(score))
                <=> Exhausts(total, k) /\ (score = NoScore \/ Full(score))
<1>1. CASE score = NoScore
  BY <1>1 DEF Plus, Measured
<1>2. CASE score # NoScore
  <2>1. PICK x, y \in Nat : total = <<x, y>> /\ y > 0 /\ x <= k * y
    BY DEF IsSum
  <2>2. PICK p, q \in Nat : score = <<p, q>> /\ q > 0 /\ p <= q
    BY <1>2 DEF IsShare
  <2>3. Measured(score) = 1 /\ Plus(total, score) = <<x * q + p * y, y * q>>
    BY <1>2, <2>1, <2>2 DEF Measured, Plus
  <2>4. /\ x * q + p * y \in Nat /\ y * q \in Nat /\ y * q > 0
        /\ x * q + p * y <= (k + 1) * (y * q)
        /\ x * q + p * y = (k + 1) * (y * q) <=> x = k * y /\ p = q
    BY <2>1, <2>2, SumOfShares
  <2>5. IsSum(Plus(total, score), k + 1)
    BY <2>3, <2>4 DEF IsSum
  <2>6. Full(score) <=> p = q
    BY <2>2 DEF Full
  <2>7. Exhausts(Plus(total, score), k + 1) <=> x * q + p * y = (k + 1) * (y * q)
    BY <2>3 DEF Exhausts
  <2>8. Exhausts(total, k) <=> x = k * y
    BY <2>1 DEF Exhausts
  <2> QED BY <1>2, <2>3, <2>4, <2>5, <2>6, <2>7, <2>8
<1> QED BY <1>1, <1>2

\* A site is late, or nothing says so.
LEMMA FreshnessIsShare ==
    ASSUME NEW age \in Nat \cup {NoDate}, NEW interval \in (Nat \ {0}) \cup {NoSchedule}
    PROVE  LET fresh == scoreFreshness(age, interval)
               late == age # NoDate /\ interval # NoSchedule /\ age > interval
           IN  /\ fresh = NoScore \/ IsShare(fresh)
               /\ fresh = NoScore \/ Full(fresh) <=> ~late
<1> DEFINE fresh == scoreFreshness(age, interval)
           late == age # NoDate /\ interval # NoSchedule /\ age > interval
<1>1. CASE age = NoDate \/ interval = NoSchedule
  BY <1>1 DEF scoreFreshness
<1>2. CASE age # NoDate /\ interval # NoSchedule
  <2>1. age \in Nat /\ interval \in Nat /\ interval > 0
    BY <1>2
  <2>2. CASE age <= interval
    <3>1. fresh = <<1, 1>> /\ ~late
      BY <1>2, <2>1, <2>2 DEF scoreFreshness
    <3> HIDE DEF fresh, late
    <3>2. IsShare(fresh) /\ Full(fresh)
      BY <3>1 DEF IsShare, Full
    <3> QED BY <3>1, <3>2 DEF fresh, late
  <2>3. CASE ~(age <= interval)
    <3> DEFINE p == IF age < 3 * interval THEN 3 * interval - age ELSE 0
               q == 2 * interval
    <3>1. fresh = <<p, q>> /\ late
      BY <1>2, <2>1, <2>3 DEF scoreFreshness
    <3>2. p \in Nat /\ q \in Nat /\ q > 0 /\ p < q
      BY <2>1, <2>3
    <3> HIDE DEF fresh, late, p, q
    <3>3. IsShare(fresh) /\ ~Full(fresh) /\ fresh # NoScore
      BY <3>1, <3>2 DEF IsShare, Full, NoScore
    <3> QED BY <3>1, <3>3 DEF fresh, late
  <2> QED BY <2>2, <2>3
<1> QED BY <1>1, <1>2

\* Among finitely many, all have a property exactly if as many have it as there are.
LEMMA AllOfThem ==
    ASSUME NEW S, IsFiniteSet(S), NEW T, T \subseteq S
    PROVE  /\ Cardinality(S) \in Nat /\ Cardinality(T) \in Nat
           /\ Cardinality(T) <= Cardinality(S)
           /\ Cardinality(T) = Cardinality(S) <=> T = S
<1>1. IsFiniteSet(T) /\ Cardinality(T) <= Cardinality(S)
      /\ (Cardinality(S) = Cardinality(T) => S = T)
  BY FS_Subset
<1> QED BY <1>1, FS_CardinalityType
LEMMA CleanRowIsComplete ==
    ASSUME NEW rows, NEW contract, NEW i \in DOMAIN rows, rows[i] # NonRow,
           RowViolations(rows, i, contract) = {}, NEW f \in contract.requiredFields
    PROVE  HasValue(rows[i], f)
<1>1. FieldViolations(rows[i], contract) = {}
  BY DEF RowViolations
<1>2. f \in DOMAIN rows[i]
  <2>1. SUFFICES ASSUME f \notin DOMAIN rows[i] PROVE FALSE
    OBVIOUS
  <2>2. <<"missing", f>> \in FieldViolations(rows[i], contract)
    BY <2>1 DEF FieldViolations
  <2> QED BY <1>1, <2>2
<1>3. ~rows[i][f].empty
  <2>1. SUFFICES ASSUME rows[i][f].empty PROVE FALSE
    OBVIOUS
  <2>2. <<"empty", f>> \in FieldViolations(rows[i], contract)
    BY <1>2, <2>1 DEF FieldViolations
  <2> QED BY <1>1, <2>2
<1> QED BY <1>2, <1>3 DEF HasValue

\* As many rows are counted valid as satisfy the contract.
LEMMA ValidRowsAreCounted ==
    ASSUME NEW rows \in Seq(Row), NEW contract
    PROVE  LET valid == Metrics(rows, contract).validRowCount
           IN  /\ valid \in Nat /\ valid <= Len(rows)
               /\ valid = Len(rows) <=> CleanRows(rows, contract) = DOMAIN rows
<1> DEFINE clean == CleanRows(rows, contract)
           N == Cardinality(clean)
           valid == Metrics(rows, contract).validRowCount
<1>1. Len(rows) \in Nat /\ DOMAIN rows = 1 .. Len(rows)
  BY LenProperties
<1>2. clean \subseteq DOMAIN rows
  BY DEF CleanRows
<1>3. IsFiniteSet(DOMAIN rows) /\ Cardinality(DOMAIN rows) = Len(rows)
  <2> DEFINE n == Len(rows)
  <2>1. n \in Int /\ 1 \in Int /\ n \in Nat
    BY <1>1
  <2> HIDE DEF n
  <2>2. IsFiniteSet(1 .. n) /\ Cardinality(1 .. n) = IF 1 > n THEN 0 ELSE n - 1 + 1
    BY <2>1, FS_Interval
  <2>3. Cardinality(1 .. n) = n
    BY <2>1, <2>2
  <2> QED BY <1>1, <2>2, <2>3 DEF n
<1>4. N \in Nat /\ N <= Len(rows) /\ (N = Len(rows) <=> clean = DOMAIN rows)
  BY <1>2, <1>3, AllOfThem
<1>5. valid = Len(IF clean = DOMAIN rows THEN rows ELSE [k \in 1 .. N |-> rows[Nth(clean, k)]])
  BY DEF Metrics, evaluateContract, CleanRows
<1>7. Len([k \in 1 .. N |-> rows[Nth(clean, k)]]) = N
  <2> HIDE DEF N, clean
  <2> QED BY <1>4
<1>8. valid = N
  <2> HIDE DEF N, valid
  <2> QED BY <1>4, <1>5, <1>7
<1> HIDE DEF N, valid, clean
<1>9. valid \in Nat /\ valid <= Len(rows) /\ (valid = Len(rows) <=> clean = DOMAIN rows)
  BY <1>4, <1>8
<1> QED BY <1>9 DEF valid, clean

\* A required field is counted intact exactly if every row has a value for it.
LEMMA IntactFields ==
    ASSUME NEW rows \in Seq(Row), NEW contract, NEW f \in contract.requiredFields
    PROVE  Intact(Metrics(rows, contract), f) <=> \A i \in DOMAIN rows : HasValue(rows[i], f)
<1> DEFINE missing == {i \in DOMAIN rows : rows[i] = NonRow \/ f \notin DOMAIN rows[i]}
           null == {i \in DOMAIN rows :
                       rows[i] # NonRow /\ f \in DOMAIN rows[i] /\ rows[i][f].empty}
           metrics == Metrics(rows, contract)
<1>1. Len(rows) \in Nat /\ DOMAIN rows = 1 .. Len(rows)
      /\ \A i \in DOMAIN rows : rows[i] # NonRow
  BY RowsMayBeJudged
<1>2. IsFiniteSet(DOMAIN rows)
  BY <1>1, FS_Interval
<1>3. IsFiniteSet(missing) /\ IsFiniteSet(null)
  BY <1>2, FS_Subset
<1>4. /\ Count(metrics.missingByField, f) = Cardinality(missing)
      /\ Count(metrics.nullByField, f) = Cardinality(null)
  BY DEF Metrics, Count
<1> HIDE DEF metrics
<1>5. Intact(metrics, f) <=> missing = {} /\ null = {}
  BY <1>3, <1>4, FS_EmptySet DEF Intact
<1>6. (missing = {} /\ null = {}) <=> \A i \in DOMAIN rows : HasValue(rows[i], f)
  BY <1>1 DEF HasValue
<1> QED BY <1>5, <1>6 DEF metrics

\* The metrics of a run are metrics, and so are not mistaken for those of a site without a run.
LEMMA MetricsOfARun ==
    ASSUME NEW rows \in Seq(Row), NEW contract \in Contract
    PROVE  Metrics(rows, contract) # NoMetrics
<1> DEFINE metrics == Metrics(rows, contract)
           required == contract.requiredFields
           missing(f) == {i \in DOMAIN rows : rows[i] = NonRow \/ f \notin DOMAIN rows[i]}
           null(f) == {i \in DOMAIN rows :
                          rows[i] # NonRow /\ f \in DOMAIN rows[i] /\ rows[i][f].empty}
           missingByField == [f \in required |-> Cardinality(missing(f))]
           nullByField == [f \in required |-> Cardinality(null(f))]
<1>1. required \in SUBSET Fields /\ Len(rows) \in Nat /\ metrics.validRowCount \in Nat
  BY ValidRowsAreCounted, LenProperties DEF Contract
<1>2. IsFiniteSet(DOMAIN rows)
  BY LenProperties, FS_Interval
<1>3. ASSUME NEW f PROVE Cardinality(missing(f)) \in Nat /\ Cardinality(null(f)) \in Nat
  BY <1>2, FS_Subset, FS_CardinalityType
<1>4. missingByField \in [required -> Nat] /\ nullByField \in [required -> Nat]
  <2> HIDE DEF missing, null
  <2> QED BY <1>3
<1>5. metrics = [rowCount |-> Len(rows), validRowCount |-> metrics.validRowCount,
                 missingByField |-> missingByField, nullByField |-> nullByField]
  BY DEF Metrics
<1> HIDE DEF metrics, missingByField, nullByField, required
<1>6. metrics \in ContractMetrics
  BY <1>1, <1>4, <1>5 DEF ContractMetrics
<1> QED BY <1>6, AbsencesAssumption DEF metrics

LEMMA HealthOfRows ==
    ASSUME NEW rows \in Seq(Row), NEW contract \in Contract, rows # <<>>,
           NEW age \in Nat \cup {NoDate}, NEW interval \in (Nat \ {0}) \cup {NoSchedule}
    PROVE  LET health == scoreHealth(Metrics(rows, contract), contract, age, interval)
               late == age # NoDate /\ interval # NoSchedule /\ age > interval
               whole == CleanRows(rows, contract) = DOMAIN rows
               lost == {f \in contract.requiredFields :
                           \E i \in DOMAIN rows : ~HasValue(rows[i], f)}
           IN  /\ whole => Full(health.extraction)
                           /\ (health.schema = NoScore \/ Full(health.schema))
               /\ lost # {} => ~Full(health.extraction) /\ ~Full(health.schema)
               /\ Full(health.overall) <=> whole /\ ~late
<1> DEFINE metrics == Metrics(rows, contract)
           health == scoreHealth(metrics, contract, age, interval)
           late == age # NoDate /\ interval # NoSchedule /\ age > interval
           required == contract.requiredFields
           intact == {f \in required : Intact(metrics, f)}
           lost == {f \in required : \E i \in DOMAIN rows : ~HasValue(rows[i], f)}
           whole == CleanRows(rows, contract) = DOMAIN rows
           n == Len(rows)
           v == metrics.validRowCount
           r == Cardinality(required)
           s == Cardinality(intact)
<1>1. n \in Nat /\ n > 0
  BY EmptySeq
<1>2. v \in Nat /\ v <= n /\ (v = n <=> whole)
  BY ValidRowsAreCounted
<1>3. /\ required \subseteq Fields /\ IsFiniteSet(required) /\ contract # NoContract
  <2>1. required \subseteq Fields
    BY DEF Contract
  <2> QED BY <2>1, FieldsAssumption, FS_Subset, NoContractAssumption
<1>4. intact = required \ lost
  BY IntactFields
<1>5. /\ r \in Nat /\ s \in Nat /\ s <= r /\ (s = r <=> lost = {})
      /\ (r = 0 <=> required = {})
  <2> HIDE DEF required, lost, intact
  <2>1. intact \subseteq required /\ (intact = required <=> required \cap lost = {})
    BY <1>4
  <2>2. required \cap lost = lost
    BY DEF lost
  <2> QED BY <1>3, <2>1, <2>2, AllOfThem, FS_EmptySet
<1>6. whole => lost = {}
  <2>1. SUFFICES ASSUME whole, NEW f \in required, NEW i \in DOMAIN rows
                 PROVE  HasValue(rows[i], f)
    OBVIOUS
  <2>2. rows[i] # NonRow /\ RowViolations(rows, i, contract) = {}
    BY <2>1, RowsMayBeJudged DEF CleanRows
  <2> QED BY <2>2, CleanRowIsComplete
<1> DEFINE extraction == <<v, n>>
           schema == IF required = {} THEN NoScore ELSE <<s, r>>
           fresh == scoreFreshness(age, interval)
           two == Plus(extraction, schema)
           three == Plus(two, fresh)
           terms == 1 + Measured(schema) + Measured(fresh)
           overall == <<three[1], three[2] * terms>>
<1>7. health = [extraction |-> extraction, schema |-> schema, freshness |-> fresh,
                overall |-> overall]
  <2>1. metrics.rowCount = n
    BY DEF Metrics
  <2>2. scoreExtraction(metrics) = extraction
    BY <1>1, <2>1 DEF scoreExtraction
  <2>3. scoreSchema(metrics, contract) = schema
    BY <1>3 DEF scoreSchema
  <2>4. health = HealthOf(metrics, contract, fresh)
    <3>1. metrics # NoMetrics
      BY MetricsOfARun
    <3> HIDE DEF metrics
    <3> QED BY <3>1 DEF scoreHealth
  <2> HIDE DEF metrics, extraction, schema, fresh, health
  <2> QED BY <2>2, <2>3, <2>4 DEF HealthOf
<1> HIDE DEF health, metrics, required, intact, lost, whole, late, n, v, r, s
<1>8. /\ Full(extraction) <=> whole
      /\ Exhausts(extraction, 1) <=> whole
      /\ IsSum(extraction, 1)
  BY <1>1, <1>2 DEF Full, Exhausts, IsSum
<1>9. /\ schema = NoScore \/ IsShare(schema)
      /\ schema = NoScore \/ Full(schema) <=> lost = {}
      /\ lost # {} => ~Full(schema)
  <2>1. CASE required = {}
    <3>1. lost = {} /\ schema = NoScore
      BY <1>5, <2>1
    <3> QED BY <3>1
  <2>2. CASE required # {}
    <3>1. schema = <<s, r>> /\ r > 0
      BY <1>5, <2>2
    <3> HIDE DEF schema
    <3>2. schema # NoScore /\ IsShare(schema) /\ (Full(schema) <=> lost = {})
      BY <1>5, <3>1 DEF NoScore, IsShare, Full
    <3> QED BY <3>2
  <2> QED BY <2>1, <2>2
<1>10. /\ fresh = NoScore \/ IsShare(fresh)
       /\ fresh = NoScore \/ Full(fresh) <=> ~late
  BY FreshnessIsShare DEF late
<1>11. Full(overall) <=> whole /\ ~late
  <2> HIDE DEF extraction, schema, fresh
  <2>1. /\ 1 + Measured(schema) \in Nat /\ IsSum(two, 1 + Measured(schema))
        /\ Exhausts(two, 1 + Measured(schema)) <=> whole /\ lost = {}
    BY <1>8, <1>9, PlusCounts
  <2> HIDE DEF two
  <2>2. /\ terms \in Nat /\ IsSum(three, terms)
        /\ Exhausts(three, terms) <=> whole /\ lost = {} /\ ~late
    BY <1>10, <2>1, PlusCounts
  <2> HIDE DEF three
  <2>3. terms > 0
    BY DEF Measured
  <2> HIDE DEF terms
  <2>4. PICK x, y \in Nat : three = <<x, y>> /\ y > 0
    BY <2>2 DEF IsSum
  <2>5. overall = <<x, y * terms>> /\ (Exhausts(three, terms) <=> x = terms * y)
    BY <2>4 DEF Exhausts
  <2>6. y * terms > 0 /\ y * terms = terms * y
    BY <2>2, <2>3, <2>4, SMT
  <2> HIDE DEF overall
  <2>7. Full(overall) <=> Exhausts(three, terms)
    BY <2>5, <2>6 DEF Full
  <2> QED BY <1>6, <2>2, <2>7
<1> HIDE DEF extraction, schema, fresh, overall
<1>12. /\ whole => Full(health.extraction) /\ (health.schema = NoScore \/ Full(health.schema))
       /\ lost # {} => ~Full(health.extraction) /\ ~Full(health.schema)
       /\ Full(health.overall) <=> whole /\ ~late
  BY <1>6, <1>7, <1>8, <1>9, <1>11
<1> QED BY <1>12 DEF health, metrics, lost, required, whole, late

\* The scores agree with the verdict on the same rows, whatever they are, however old the data and
\* whatever the schedule, if there is one (evaluateContract's metrics, scoreHealth).
THEOREM HealthAgreesWithVerdictAlways == Spec => []HealthAgreesWithVerdict
<1>1. PagesAreRows => HealthAgreesWithVerdict
  <2> SUFFICES ASSUME PagesAreRows, current # <<>>, NEW age \in Ages \cup {NoDate},
                      NEW interval \in Intervals \cup {NoSchedule}
               PROVE  LET contract == Learned
                          health == scoreHealth(Metrics(current, contract), contract, age, interval)
                          late == age # NoDate /\ interval # NoSchedule /\ age > interval
                          whole == \A i \in DOMAIN current :
                                      RowViolations(current, i, contract) = {}
                          lost == {f \in contract.requiredFields :
                                      \E row \in Range(current) : ~HasValue(row, f)}
                      IN  /\ whole => Full(health.extraction)
                                      /\ (health.schema = NoScore \/ Full(health.schema))
                          /\ lost # {} => ~Full(health.extraction) /\ ~Full(health.schema)
                          /\ Full(health.overall) <=> whole /\ ~late
    BY Zenon DEF HealthAgreesWithVerdict
  <2> DEFINE contract == Learned
             late == age # NoDate /\ interval # NoSchedule /\ age > interval
  <2>1. contract \in Contract /\ current \in Seq(Row)
    BY ProfiledContractIsWellFormed DEF PagesAreRows, Learned
  <2>2. age \in Nat \cup {NoDate} /\ interval \in (Nat \ {0}) \cup {NoSchedule}
    BY SampleAssumption
  <2> HIDE DEF contract
  <2>3. (\A i \in DOMAIN current : RowViolations(current, i, contract) = {})
            <=> CleanRows(current, contract) = DOMAIN current
    BY DEF CleanRows
  <2>4. {f \in contract.requiredFields : \E row \in Range(current) : ~HasValue(row, f)}
            = {f \in contract.requiredFields : \E i \in DOMAIN current : ~HasValue(current[i], f)}
    BY DEF Range
  <2>5. LET health == scoreHealth(Metrics(current, contract), contract, age, interval)
            whole == CleanRows(current, contract) = DOMAIN current
            lost == {f \in contract.requiredFields :
                        \E i \in DOMAIN current : ~HasValue(current[i], f)}
        IN  /\ whole => Full(health.extraction)
                        /\ (health.schema = NoScore \/ Full(health.schema))
            /\ lost # {} => ~Full(health.extraction) /\ ~Full(health.schema)
            /\ Full(health.overall) <=> whole /\ ~late
    BY <2>1, <2>2, HealthOfRows
  <2> HIDE DEF late
  <2> QED BY <2>3, <2>4, <2>5 DEF contract, late
<1> QED BY <1>1, PagesAreRowsAlways, PTL
-----------------------------------------------------------------------------
(* The columns of an export. *)

\* The names after a row, given those before it.
WithNamesOf(names, row) == names \o Without(Keys(row), VendorFields \cup Range(names))

\* A function that gathers the names of the first m rows as fieldsInRecords does.
Gathers(g, rows, m) ==
    g = [n \in 0 .. m |->
            IF n = 0 THEN <<>>
            ELSE g[n - 1] \o Without(Keys(rows[n]), VendorFields \cup Range(g[n - 1]))]

LEMMA GathererExists ==
    ASSUME NEW rows, NEW N \in Nat
    PROVE  \E g : Gathers(g, rows, N)
<1> DEFINE T == {m \in 0 .. N : \E g : Gathers(g, rows, m)}
<1>1. 0 \in T
  <2>1. Gathers([n \in 0 .. 0 |-> <<>>], rows, 0)
    BY DEF Gathers
  <2> QED BY <2>1
<1>2. ASSUME NEW m \in 0 .. N - 1, m \in T
      PROVE  m + 1 \in T
  <2>1. PICK g : Gathers(g, rows, m)
    BY <1>2
  <2> DEFINE next == WithNamesOf(g[m], rows[m + 1])
             h == [n \in 0 .. m + 1 |-> IF n <= m THEN g[n] ELSE next]
             e(n) == IF n = 0 THEN <<>> ELSE WithNamesOf(h[n - 1], rows[n])
  <2>2. \A n \in 0 .. m : h[n] = g[n]
    OBVIOUS
  <2>3. h[m + 1] = next
    OBVIOUS
  <2>4. \A n \in 0 .. m : g[n] = IF n = 0 THEN <<>> ELSE WithNamesOf(g[n - 1], rows[n])
    BY <2>1 DEF Gathers, WithNamesOf
  <2>5. h = [n \in 0 .. m + 1 |-> h[n]]
    OBVIOUS
  <2> HIDE DEF h
  <2>6. \A n \in 0 .. m + 1 : h[n] = IF n = 0 THEN <<>> ELSE WithNamesOf(h[n - 1], rows[n])
    <3> TAKE n \in 0 .. m + 1
    <3>1. CASE n = 0
      BY <3>1, <2>2, <2>4
    <3>2. CASE n \in 1 .. m
      <4>1. n - 1 \in 0 .. m /\ n \in 0 .. m
        BY <3>2
      <4> QED BY <4>1, <3>2, <2>2, <2>4
    <3>3. CASE n = m + 1
      <4>1. n - 1 = m /\ m \in 0 .. m
        BY <3>3
      <4> QED BY <4>1, <3>3, <2>2, <2>3
    <3> QED BY <3>1, <3>2, <3>3
  <2>7. \A n \in 0 .. m + 1 : h[n] = e(n)
    BY <2>6
  <2> HIDE DEF e
  <2>8. h = [n \in 0 .. m + 1 |-> e(n)]
    BY <2>5, <2>7
  <2>9. Gathers(h, rows, m + 1)
    BY <2>8 DEF Gathers, WithNamesOf, e
  <2> QED BY <2>9
<1> HIDE DEF T
<1>3. 0 .. N \subseteq T
  BY <1>1, <1>2, InductionUpTo
<1> QED BY <1>3 DEF T

\* The data fields of the first n rows.
FieldsUpTo(rows, n) == {f \in Fields \ VendorFields : \E i \in 1 .. n : f \in DOMAIN rows[i]}

IsNaming(names, fields) == /\ names \in Seq(Fields)
                           /\ IsInjective(names)
                           /\ Range(names) = fields

LEMMA RowAddsItsNames ==
    ASSUME NEW names, NEW fields, IsNaming(names, fields), NEW row \in Row
    PROVE  IsNaming(WithNamesOf(names, row), fields \cup (DOMAIN row \ VendorFields))
<1> DEFINE dropped == VendorFields \cup fields
           keys == Keys(row)
           more == Without(keys, dropped)
<1>1. keys \in Seq(Fields) /\ IsInjective(keys) /\ Range(keys) = DOMAIN row
  <2>1. row # NonRow /\ DOMAIN row \in SUBSET Fields
    BY NonRowAssumption, RowFields
  <2> QED BY <2>1, KeyOrderAssumption DEF Keys
<1> HIDE DEF keys, dropped
<1>2. /\ Range(more) = DOMAIN row \ dropped
      /\ IsInjective(more)
      /\ more \in Seq(Fields \ dropped)
  BY <1>1, WithoutRange, WithoutType
<1>3. more \in Seq(Fields) /\ names \in Seq(Fields) /\ IsInjective(names) /\ Range(names) = fields
  <2>1. Seq(Fields \ dropped) \subseteq Seq(Fields)
    OBVIOUS
  <2> QED BY <1>2, <2>1 DEF IsNaming
<1>4. WithNamesOf(names, row) = names \o more
  BY <1>3 DEF WithNamesOf, dropped, keys
<1>5. fields \cap Range(more) = {}
  BY <1>2 DEF dropped
<1> HIDE DEF more
<1>6. /\ names \o more \in Seq(Fields)
      /\ Range(names \o more) = fields \cup Range(more)
      /\ IsInjective(names \o more)
  BY <1>2, <1>3, <1>5, RangeOfConcat
<1>7. fields \cup (DOMAIN row \ dropped) = fields \cup (DOMAIN row \ VendorFields)
  BY DEF dropped
<1> QED BY <1>2, <1>4, <1>6, <1>7 DEF IsNaming

\* fieldsInRecords names each data field of the rows once.
LEMMA EveryFieldIsNamedOnce ==
    ASSUME NEW rows \in Seq(Row)
    PROVE  IsNaming(fieldsInRecords(rows), DataFields(rows))
<1> DEFINE N == Len(rows)
           g == CHOOSE g : Gathers(g, rows, N)
           T == {n \in 0 .. N : IsNaming(g[n], FieldsUpTo(rows, n))}
<1>1. N \in Nat /\ DOMAIN rows = 1 .. N /\ \A i \in 1 .. N : rows[i] \in Row
  BY RowsMayBeJudged
<1>2. Gathers(g, rows, N)
  BY <1>1, GathererExists
<1>3. fieldsInRecords(rows) = g[N]
  BY DEF fieldsInRecords, Gathers
<1> HIDE DEF g, N
<1>4. \A n \in 0 .. N : g[n] = IF n = 0 THEN <<>> ELSE WithNamesOf(g[n - 1], rows[n])
  BY <1>2 DEF Gathers, WithNamesOf
<1>5. 0 \in T
  <2>1. 0 \in 0 .. N /\ g[0] = <<>>
    BY <1>1, <1>4
  <2>2. FieldsUpTo(rows, 0) = {}
    BY DEF FieldsUpTo
  <2>3. IsNaming(<<>>, {})
    BY EmptySeq DEF IsNaming, IsInjective, Range
  <2> QED BY <2>1, <2>2, <2>3
<1>6. ASSUME NEW n \in 0 .. N - 1, n \in T
      PROVE  n + 1 \in T
  <2>1. n + 1 \in 0 .. N /\ n + 1 \in 1 .. N /\ n + 1 # 0 /\ (n + 1) - 1 = n
    BY <1>1
  <2>2. g[n + 1] = WithNamesOf(g[n], rows[n + 1])
    BY <1>4, <2>1
  <2>3. FieldsUpTo(rows, n + 1) = FieldsUpTo(rows, n) \cup (DOMAIN rows[n + 1] \ VendorFields)
    <3>1. \A i : i \in 1 .. n + 1 <=> i \in 1 .. n \/ i = n + 1
      BY <1>1
    <3>2. DOMAIN rows[n + 1] \subseteq Fields
      BY <1>1, <2>1, RowFields
    <3> QED BY <3>1, <3>2 DEF FieldsUpTo
  <2>4. IsNaming(g[n], FieldsUpTo(rows, n)) /\ rows[n + 1] \in Row
    BY <1>1, <1>6, <2>1
  <2>5. IsNaming(g[n + 1], FieldsUpTo(rows, n + 1))
    BY <2>2, <2>3, <2>4, RowAddsItsNames
  <2> QED BY <2>1, <2>5
<1> HIDE DEF T
<1>7. 0 .. N \subseteq T
  BY <1>1, <1>5, <1>6, InductionUpTo
<1>8. IsNaming(g[N], FieldsUpTo(rows, N))
  BY <1>1, <1>7 DEF T
<1>9. FieldsUpTo(rows, N) = DataFields(rows)
  <2>1. \A i \in 1 .. N : DOMAIN rows[i] \subseteq Fields
    BY <1>1, RowFields
  <2> QED BY <1>1, <2>1 DEF FieldsUpTo, DataFields, Range
<1> QED BY <1>3, <1>8, <1>9

\* Putting the identity first loses no column and repeats none.
LEMMA OrderedFieldsName ==
    ASSUME NEW rows \in Seq(Row), NEW contract
    PROVE  IsNaming(orderedFields(contract, rows), DataFields(rows))
<1> DEFINE all == fieldsInRecords(rows)
           identity == IF contract = NoContract THEN NoField ELSE contract.identityField
           rest == Without(all, {identity})
<1>1. all \in Seq(Fields) /\ IsInjective(all) /\ Range(all) = DataFields(rows)
  BY EveryFieldIsNamedOnce DEF IsNaming
<1>2. orderedFields(contract, rows) =
          IF identity \notin Range(all) THEN all ELSE <<identity>> \o rest
  BY DEF orderedFields
<1> HIDE DEF all, identity
<1>3. CASE identity \notin Range(all)
  BY <1>1, <1>2, <1>3 DEF IsNaming
<1>4. CASE identity \in Range(all)
  <2>1. identity \in Fields
    <3>1. Range(all) \subseteq Fields
      BY <1>1, LenProperties, ElementOfSeq DEF Range
    <3> QED BY <1>4, <3>1
  <2>2. rest \in Seq(Fields \ {identity}) /\ IsInjective(rest)
        /\ Range(rest) = Range(all) \ {identity}
    BY <1>1, WithoutRange, WithoutType
  <2>3. rest \in Seq(Fields)
    BY <2>2
  <2> HIDE DEF rest
  <2>4. <<identity>> \in Seq(Fields) /\ IsInjective(<<identity>>) /\ Range(<<identity>>) = {identity}
    BY <2>1 DEF IsInjective, Range
  <2>5. Range(<<identity>>) \cap Range(rest) = {}
    BY <2>2, <2>4
  <2>6. /\ <<identity>> \o rest \in Seq(Fields)
        /\ Range(<<identity>> \o rest) = {identity} \cup Range(rest)
        /\ IsInjective(<<identity>> \o rest)
    <3> DEFINE one == <<identity>>
    <3>1. one \in Seq(Fields) /\ IsInjective(one) /\ Range(one) = {identity}
          /\ Range(one) \cap Range(rest) = {}
      BY <2>4, <2>5
    <3> HIDE DEF one
    <3>2. /\ one \o rest \in Seq(Fields)
          /\ Range(one \o rest) = {identity} \cup Range(rest)
          /\ IsInjective(one \o rest)
      BY <2>2, <2>3, <3>1, RangeOfConcat
    <3> QED BY <3>2 DEF one
  <2>7. {identity} \cup Range(rest) = DataFields(rows)
    BY <1>1, <1>4, <2>2
  <2>8. orderedFields(contract, rows) = <<identity>> \o rest
    BY <1>2, <1>4
  <2> QED BY <2>6, <2>7, <2>8 DEF IsNaming
<1> QED BY <1>3, <1>4

\* A list that holds nothing twice is as long as it has elements.
LEMMA AsManyAsNames ==
    ASSUME NEW S, NEW list \in Seq(S), IsInjective(list)
    PROVE  Cardinality(Range(list)) = Len(list)
<1>1. Len(list) \in Nat /\ DOMAIN list = 1 .. Len(list)
  BY LenProperties
<1>2. list \in Bijection(1 .. Len(list), Range(list))
  BY <1>1 DEF Bijection, Injection, Surjection, IsInjective, Range
<1>3. IsFiniteSet(1 .. Len(list)) /\ Cardinality(1 .. Len(list)) = Len(list)
  <2> DEFINE n == Len(list)
  <2>1. n \in Int /\ 1 \in Int /\ n \in Nat
    BY <1>1
  <2> HIDE DEF n
  <2>2. IsFiniteSet(1 .. n) /\ Cardinality(1 .. n) = IF 1 > n THEN 0 ELSE n - 1 + 1
    BY <2>1, FS_Interval
  <2>3. Cardinality(1 .. n) = n
    BY <2>1, <2>2
  <2> QED BY <2>2, <2>3 DEF n
<1>4. ExistsBijection(1 .. Len(list), Range(list))
  BY <1>2 DEF ExistsBijection
<1> QED BY <1>3, <1>4, FS_Bijection

\* A download has all of the data of a page, whatever its rows and the order of their keys
\* (fieldsInRecords, orderedFields, exportRecords).
THEOREM ExportIsCompleteAlways == Spec => []ExportIsComplete
<1>1. PagesAreRows => ExportIsComplete
  <2> SUFFICES ASSUME PagesAreRows, NEW contract \in {NoContract, Learned}
               PROVE  LET columns == orderedFields(contract, current)
                          table == exportRecords(current, columns)
                      IN  /\ Range(columns) = DataFields(current)
                          /\ Cardinality(Range(columns)) = Len(columns)
                          /\ \A i \in DOMAIN current : \A f \in DOMAIN current[i] \ VendorFields :
                                \E k \in DOMAIN columns :
                                   columns[k] = f /\ table[i][k] = current[i][f].text
    BY DEF ExportIsComplete
  <2> DEFINE columns == orderedFields(contract, current)
             table == exportRecords(current, columns)
  <2>1. /\ columns \in Seq(Fields) /\ IsInjective(columns)
        /\ Range(columns) = DataFields(current)
    BY OrderedFieldsName DEF PagesAreRows, IsNaming
  <2> HIDE DEF columns
  <2>2. Cardinality(Range(columns)) = Len(columns)
    BY <2>1, AsManyAsNames
  <2>3. ASSUME NEW i \in DOMAIN current, NEW f \in DOMAIN current[i] \ VendorFields
        PROVE  \E k \in DOMAIN columns : columns[k] = f /\ table[i][k] = current[i][f].text
    <3>1. f \in Range(columns)
      BY <2>1 DEF DataFields, Range
    <3>2. PICK k \in DOMAIN columns : columns[k] = f
      BY <3>1 DEF Range
    <3>3. table[i][k] = current[i][f].text
      BY <3>2 DEF exportRecords
    <3> QED BY <3>2, <3>3
  <2> QED BY <2>1, <2>2, <2>3 DEF columns
<1> QED BY <1>1, PagesAreRowsAlways, PTL
=============================================================================
