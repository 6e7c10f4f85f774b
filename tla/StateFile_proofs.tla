-------------------------- MODULE StateFile_proofs --------------------------
(***************************************************************************)
(* Proofs about StateFile, for all collectors, records, rules and bounds:  *)
(* every start reads back what the last save that returned had written,    *)
(* less exactly what was damaged on disk since.                            *)
(*                                                                         *)
(* A damaged member of a list is left out when the list is read, so the    *)
(* argument rests on what filtering makes of a list of which one member is *)
(* lost: the filtered list without the member at the place it had there.   *)
(***************************************************************************)
EXTENDS StateFile, Lists_proofs, FiniteSetTheorems
-----------------------------------------------------------------------------
(* RemoveAt. *)

LEMMA RemoveAtProperties ==
    ASSUME NEW S, NEW list \in Seq(S), NEW k \in 1 .. Len(list)
    PROVE  /\ RemoveAt(list, k) \in Seq(S)
           /\ Len(RemoveAt(list, k)) = Len(list) - 1
           /\ \A j \in 1 .. Len(list) - 1 :
                 RemoveAt(list, k)[j] = IF j < k THEN list[j] ELSE list[j + 1]
<1> DEFINE before == SubSeq(list, 1, k - 1)
           after == SubSeq(list, k + 1, Len(list))
<1>1. Len(list) \in Nat /\ k \in Nat /\ 1 <= k /\ k <= Len(list)
  BY LenProperties
<1>2. /\ before \in Seq(S)
      /\ Len(before) = k - 1
      /\ \A j \in 1 .. k - 1 : before[j] = list[j]
  <2>1. k - 1 \in Int /\ 1 \in Int /\ \A j \in 1 .. k - 1 : list[j] \in S
    BY <1>1, ElementOfSeq
  <2>2. /\ before \in Seq(S)
        /\ Len(before) = IF 1 <= k - 1 THEN (k - 1) - 1 + 1 ELSE 0
        /\ \A j \in 1 .. (k - 1) - 1 + 1 : before[j] = list[1 + j - 1]
    BY <2>1, SubSeqProperties
  <2> HIDE DEF before
  <2>3. \A j \in 1 .. k - 1 : j \in 1 .. (k - 1) - 1 + 1 /\ 1 + j - 1 = j
    BY <1>1
  <2> QED BY <1>1, <2>2, <2>3
<1>3. /\ after \in Seq(S)
      /\ Len(after) = Len(list) - k
      /\ \A j \in 1 .. Len(list) - k : after[j] = list[k + j]
  <2>1. k + 1 \in Int /\ Len(list) \in Int /\ \A j \in k + 1 .. Len(list) : list[j] \in S
    BY <1>1, ElementOfSeq
  <2>2. /\ after \in Seq(S)
        /\ Len(after) = IF k + 1 <= Len(list) THEN Len(list) - (k + 1) + 1 ELSE 0
        /\ \A j \in 1 .. Len(list) - (k + 1) + 1 : after[j] = list[(k + 1) + j - 1]
    BY <2>1, SubSeqProperties
  <2> HIDE DEF after
  <2>3. \A j \in 1 .. Len(list) - k :
           j \in 1 .. Len(list) - (k + 1) + 1 /\ (k + 1) + j - 1 = k + j
    BY <1>1
  <2> QED BY <1>1, <2>2, <2>3
<1> HIDE DEF before, after
<1>4. /\ before \o after \in Seq(S)
      /\ Len(before \o after) = Len(before) + Len(after)
      /\ \A i \in 1 .. Len(before) + Len(after) : (before \o after)[i] =
             IF i <= Len(before) THEN before[i] ELSE after[i - Len(before)]
  BY <1>2, <1>3, ConcatProperties
<1>5. RemoveAt(list, k) = before \o after
  BY DEF RemoveAt, before, after
<1>6. ASSUME NEW j \in 1 .. Len(list) - 1
      PROVE  (before \o after)[j] = IF j < k THEN list[j] ELSE list[j + 1]
  <2>1. j \in 1 .. Len(before) + Len(after)
    BY <1>1, <1>2, <1>3
  <2>2. CASE j < k
    <3>1. j <= Len(before) /\ j \in 1 .. k - 1
      BY <1>1, <1>2, <2>2
    <3> QED BY <1>2, <1>4, <2>1, <2>2, <3>1
  <2>3. CASE ~(j < k)
    <3>1. ~(j <= Len(before)) /\ j - Len(before) = j - k + 1 /\ j - k + 1 \in 1 .. Len(list) - k
          /\ k + (j - k + 1) = j + 1
      BY <1>1, <1>2, <2>3
    <3> QED BY <1>3, <1>4, <2>1, <2>3, <3>1
  <2> QED BY <2>2, <2>3
<1>7. Len(before \o after) = Len(list) - 1
  BY <1>1, <1>2, <1>3, <1>4
<1>8. \A j \in 1 .. Len(list) - 1 : (before \o after)[j] = IF j < k THEN list[j] ELSE list[j + 1]
  BY <1>6
<1> QED BY <1>4, <1>5, <1>7, <1>8

\* What is removed before the last element, and the last element.
LEMMA RemoveAtAppend ==
    ASSUME NEW S, NEW list \in Seq(S), NEW e \in S, NEW k \in 1 .. Len(list)
    PROVE  RemoveAt(Append(list, e), k) = Append(RemoveAt(list, k), e)
<1> DEFINE longer == Append(list, e)
           left == RemoveAt(list, k)
<1>1. /\ longer \in Seq(S) /\ Len(longer) = Len(list) + 1 /\ longer[Len(list) + 1] = e
      /\ \A i \in 1 .. Len(list) : longer[i] = list[i]
  BY AppendProperties
<1>2. Len(list) \in Nat /\ 1 <= k /\ k <= Len(list) /\ k \in 1 .. Len(longer)
  BY <1>1, LenProperties
<1>3. /\ left \in Seq(S)
      /\ Len(left) = Len(list) - 1
      /\ \A j \in 1 .. Len(list) - 1 : left[j] = IF j < k THEN list[j] ELSE list[j + 1]
  BY RemoveAtProperties
<1> HIDE DEF longer
<1>4. /\ RemoveAt(longer, k) \in Seq(S)
      /\ Len(RemoveAt(longer, k)) = Len(longer) - 1
      /\ \A j \in 1 .. Len(longer) - 1 :
            RemoveAt(longer, k)[j] = IF j < k THEN longer[j] ELSE longer[j + 1]
  BY <1>1, <1>2, RemoveAtProperties
<1> HIDE DEF left
<1>5. /\ Append(left, e) \in Seq(S) /\ Len(Append(left, e)) = Len(left) + 1
      /\ Append(left, e)[Len(left) + 1] = e
      /\ \A i \in 1 .. Len(left) : Append(left, e)[i] = left[i]
  BY <1>3, AppendProperties
<1>6. ASSUME NEW j \in 1 .. Len(list)
      PROVE  RemoveAt(longer, k)[j] = Append(left, e)[j]
  <2>1. j \in 1 .. Len(longer) - 1
    BY <1>1, <1>2
  <2>2. CASE j = Len(list)
    <3>1. ~(j < k) /\ longer[j + 1] = e /\ j = Len(left) + 1
      BY <1>1, <1>2, <1>3, <2>2
    <3> QED BY <1>4, <1>5, <2>1, <3>1
  <2>3. CASE j # Len(list)
    <3>1. j \in 1 .. Len(list) - 1 /\ j + 1 \in 1 .. Len(list) /\ j \in 1 .. Len(left)
      BY <1>2, <1>3, <2>3
    <3>2. longer[j] = list[j] /\ longer[j + 1] = list[j + 1]
      BY <1>1, <3>1
    <3> QED BY <1>3, <1>4, <1>5, <2>1, <3>1, <3>2
  <2> QED BY <2>2, <2>3
<1>7. Len(RemoveAt(longer, k)) = Len(list) /\ Len(Append(left, e)) = Len(list)
  BY <1>1, <1>2, <1>3, <1>4, <1>5
<1>8. RemoveAt(longer, k) = Append(left, e)
  BY <1>4, <1>5, <1>6, <1>7, SeqEqual
<1> QED BY <1>8 DEF longer, left

LEMMA RemoveAtLast ==
    ASSUME NEW S, NEW list \in Seq(S), NEW e \in S
    PROVE  RemoveAt(Append(list, e), Len(list) + 1) = list
<1> DEFINE longer == Append(list, e)
           k == Len(list) + 1
<1>1. /\ longer \in Seq(S) /\ Len(longer) = k
      /\ \A i \in 1 .. Len(list) : longer[i] = list[i]
  BY AppendProperties
<1>2. Len(list) \in Nat /\ k \in 1 .. Len(longer)
  BY <1>1, LenProperties
<1> HIDE DEF longer
<1>3. /\ RemoveAt(longer, k) \in Seq(S)
      /\ Len(RemoveAt(longer, k)) = Len(longer) - 1
      /\ \A j \in 1 .. Len(longer) - 1 :
            RemoveAt(longer, k)[j] = IF j < k THEN longer[j] ELSE longer[j + 1]
  BY <1>1, <1>2, RemoveAtProperties
<1>4. Len(longer) - 1 = Len(list) /\ \A j \in 1 .. Len(list) : j < k
  BY <1>1, <1>2
<1>5. \A j \in 1 .. Len(RemoveAt(longer, k)) : RemoveAt(longer, k)[j] = list[j]
  BY <1>1, <1>3, <1>4
<1>6. RemoveAt(longer, k) = list
  BY <1>3, <1>4, <1>5, SeqEqual
<1> QED BY <1>6 DEF longer
-----------------------------------------------------------------------------
(* A list of which one member is dropped instead of kept. *)

KeptUpTo(list, dropped, i) == Cardinality({j \in 1 .. i : list[j] \notin dropped})

\* The next member is counted exactly if it is kept.
LEMMA KeptOneMore ==
    ASSUME NEW list, NEW dropped, NEW i \in Nat
    PROVE  /\ KeptUpTo(list, dropped, i) \in Nat
           /\ KeptUpTo(list, dropped, 0) = 0
           /\ list[i + 1] \in dropped =>
                 KeptUpTo(list, dropped, i + 1) = KeptUpTo(list, dropped, i)
           /\ list[i + 1] \notin dropped =>
                 KeptUpTo(list, dropped, i + 1) = KeptUpTo(list, dropped, i) + 1
<1> DEFINE kept(n) == {j \in 1 .. n : list[j] \notin dropped}
<1>1. IsFiniteSet(kept(i))
  <2>1. IsFiniteSet(1 .. i)
    BY FS_Interval
  <2> QED BY <2>1, FS_Subset
<1>2. Cardinality(kept(i)) \in Nat
  BY <1>1, FS_CardinalityType
<1>3. kept(0) = {}
  OBVIOUS
<1>4. Cardinality(kept(0)) = 0
  BY <1>3, FS_EmptySet
<1>5. CASE list[i + 1] \in dropped
  <2>1. kept(i + 1) = kept(i)
    <3>1. \A j \in 1 .. i + 1 : j \in 1 .. i \/ j = i + 1
      OBVIOUS
    <3>2. \A j \in 1 .. i : j \in 1 .. i + 1
      OBVIOUS
    <3> QED BY <3>1, <3>2, <1>5
  <2> HIDE DEF kept
  <2>2. Cardinality(kept(i + 1)) = Cardinality(kept(i))
    BY <2>1
  <2> USE DEF kept
  <2> QED BY <1>2, <1>4, <1>5, <2>2 DEF KeptUpTo
<1>6. CASE list[i + 1] \notin dropped
  <2>1. kept(i + 1) = kept(i) \cup {i + 1}
    <3>1. \A j \in 1 .. i + 1 : j \in 1 .. i \/ j = i + 1
      OBVIOUS
    <3>2. i + 1 \in 1 .. i + 1 /\ \A j \in 1 .. i : j \in 1 .. i + 1
      OBVIOUS
    <3> QED BY <3>1, <3>2, <1>6
  <2>2. i + 1 \notin kept(i)
    OBVIOUS
  <2> HIDE DEF kept
  <2>3. Cardinality(kept(i + 1)) = Cardinality(kept(i)) + 1
    BY <1>1, <2>1, <2>2, FS_AddElement
  <2> USE DEF kept
  <2> QED BY <1>2, <1>4, <1>6, <2>3 DEF KeptUpTo
<1> QED BY <1>5, <1>6

\* The count up to a place depends on the members up to that place only.
LEMMA KeptSame ==
    ASSUME NEW list, NEW other, NEW dropped, NEW i \in Nat,
           \A j \in 1 .. i : list[j] = other[j]
    PROVE  KeptUpTo(list, dropped, i) = KeptUpTo(other, dropped, i)
<1>1. {j \in 1 .. i : list[j] \notin dropped} = {j \in 1 .. i : other[j] \notin dropped}
  OBVIOUS
<1> QED BY <1>1 DEF KeptUpTo

LEMMA WithoutLen ==
    ASSUME NEW S, NEW list \in Seq(S), NEW dropped
    PROVE  Len(Without(list, dropped)) = KeptUpTo(list, dropped, Len(list))
<1> DEFINE T == {l \in Seq(S) : Len(Without(l, dropped)) = KeptUpTo(l, dropped, Len(l))}
<1>1. <<>> \in T
  <2>1. Len(Without(<<>>, dropped)) = 0 /\ <<>> \in Seq(S)
    BY WithoutEmpty, EmptySeq
  <2>2. KeptUpTo(<<>>, dropped, 0) = 0
    BY KeptOneMore
  <2> QED BY <2>1, <2>2
<1>2. ASSUME NEW l \in Seq(S), NEW e \in S, l \in T
      PROVE  Append(l, e) \in T
  <2> DEFINE longer == Append(l, e)
  <2>1. /\ longer \in Seq(S) /\ Len(l) \in Nat /\ Len(longer) = Len(l) + 1
        /\ longer[Len(l) + 1] = e /\ \A j \in 1 .. Len(l) : l[j] = longer[j]
    BY AppendProperties, LenProperties
  <2>2. Without(longer, dropped) =
            IF e \in dropped THEN Without(l, dropped) ELSE Append(Without(l, dropped), e)
    BY WithoutAppend
  <2> HIDE DEF longer
  <2>3. KeptUpTo(l, dropped, Len(l)) = KeptUpTo(longer, dropped, Len(l))
    BY <2>1, KeptSame
  <2>4. /\ KeptUpTo(longer, dropped, Len(l)) \in Nat
        /\ KeptUpTo(longer, dropped, Len(l) + 1) =
              KeptUpTo(longer, dropped, Len(l)) + (IF e \in dropped THEN 0 ELSE 1)
    <3> DEFINE n == Len(l)
    <3>1. n \in Nat
      BY <2>1
    <3> HIDE DEF n
    <3>2. /\ KeptUpTo(longer, dropped, n) \in Nat
          /\ longer[n + 1] \in dropped =>
                KeptUpTo(longer, dropped, n + 1) = KeptUpTo(longer, dropped, n)
          /\ longer[n + 1] \notin dropped =>
                KeptUpTo(longer, dropped, n + 1) = KeptUpTo(longer, dropped, n) + 1
      BY <3>1, KeptOneMore
    <3>3. longer[n + 1] = e
      BY <2>1 DEF n
    <3>4. /\ KeptUpTo(longer, dropped, n) \in Nat
          /\ KeptUpTo(longer, dropped, n + 1) =
                KeptUpTo(longer, dropped, n) + (IF e \in dropped THEN 0 ELSE 1)
      BY <3>2, <3>3
    <3> QED BY <3>4 DEF n
  <2>5. Len(Without(l, dropped)) = KeptUpTo(l, dropped, Len(l))
    BY <1>2
  <2>6. CASE e \in dropped
    <3>1. Len(Without(longer, dropped)) = KeptUpTo(longer, dropped, Len(longer))
      BY <2>1, <2>2, <2>3, <2>4, <2>5, <2>6
    <3> QED BY <2>1, <3>1 DEF longer
  <2>7. CASE e \notin dropped
    <3>1. Without(l, dropped) \in Seq(S \ dropped) /\ e \in S \ dropped
      BY <2>7, WithoutType
    <3>2. Len(Append(Without(l, dropped), e)) = Len(Without(l, dropped)) + 1
      BY <3>1, AppendProperties
    <3>3. Len(Without(longer, dropped)) = KeptUpTo(longer, dropped, Len(longer))
      BY <2>1, <2>2, <2>3, <2>4, <2>5, <2>7, <3>2
    <3> QED BY <2>1, <3>3 DEF longer
  <2> QED BY <2>6, <2>7
<1> HIDE DEF T
<1>3. Seq(S) \subseteq T
  BY <1>1, <1>2, ListInduction
<1> QED BY <1>3 DEF T
\* Dropping one member of a list instead of keeping it removes it from what is kept, at
\* the place it had there.
LEMMA WithoutOne ==
    ASSUME NEW S, NEW list \in Seq(S), NEW dropped, NEW m \in S \cap dropped,
           NEW i \in 1 .. Len(list), list[i] \notin dropped
    PROVE  /\ KeptUpTo(list, dropped, i) \in 1 .. Len(Without(list, dropped))
           /\ Without([list EXCEPT ![i] = m], dropped) =
                 RemoveAt(Without(list, dropped), KeptUpTo(list, dropped, i))
<1> DEFINE Lost(l, k) ==
               /\ KeptUpTo(l, dropped, k) \in 1 .. Len(Without(l, dropped))
               /\ Without([l EXCEPT ![k] = m], dropped) =
                     RemoveAt(Without(l, dropped), KeptUpTo(l, dropped, k))
           T == {l \in Seq(S) : \A k \in 1 .. Len(l) : l[k] \notin dropped => Lost(l, k)}
<1>1. <<>> \in T
  BY EmptySeq
<1>2. ASSUME NEW l \in Seq(S), NEW e \in S, l \in T
      PROVE  Append(l, e) \in T
  <2> DEFINE longer == Append(l, e)
             n == Len(l)
  <2>1. /\ longer \in Seq(S) /\ n \in Nat /\ Len(longer) = n + 1
        /\ longer[n + 1] = e /\ \A j \in 1 .. n : longer[j] = l[j]
    BY AppendProperties, LenProperties
  <2>2. Without(longer, dropped) =
            IF e \in dropped THEN Without(l, dropped) ELSE Append(Without(l, dropped), e)
    BY WithoutAppend
  <2>3. /\ Without(l, dropped) \in Seq(S) /\ Len(Without(l, dropped)) \in Nat
        /\ Len(Append(Without(l, dropped), e)) = Len(Without(l, dropped)) + 1
    <3>1. Without(l, dropped) \in Seq(S \ dropped)
      BY WithoutType
    <3>2. Without(l, dropped) \in Seq(S)
      <4>1. S \ dropped \subseteq S
        OBVIOUS
      <4> QED BY <3>1, <4>1
    <3> QED BY <3>2, AppendProperties, LenProperties
  <2> HIDE DEF longer
  <2>4. ASSUME NEW k \in 1 .. n, l[k] \notin dropped
        PROVE  Lost(longer, k)
    <3>1. Lost(l, k)
      BY <1>2, <2>4
    <3>2. KeptUpTo(longer, dropped, k) = KeptUpTo(l, dropped, k)
      <4>1. k \in Nat /\ \A j \in 1 .. k : longer[j] = l[j]
        BY <2>1
      <4> QED BY <4>1, KeptSame
    <3>3. [longer EXCEPT ![k] = m] = Append([l EXCEPT ![k] = m], e)
      <4> DEFINE s == [longer EXCEPT ![k] = m]
                 t == [l EXCEPT ![k] = m]
      <4>1. k \in 1 .. Len(longer) /\ k \in 1 .. Len(l)
        BY <2>1
      <4>2. /\ s \in Seq(S) /\ Len(s) = Len(longer)
            /\ \A j \in 1 .. Len(longer) : s[j] = IF j = k THEN m ELSE longer[j]
        BY <2>1, <4>1, ExceptSeq
      <4>3. /\ t \in Seq(S) /\ Len(t) = Len(l)
            /\ \A j \in 1 .. Len(l) : t[j] = IF j = k THEN m ELSE l[j]
        BY <4>1, ExceptSeq
      <4> HIDE DEF s, t
      <4>4. /\ Append(t, e) \in Seq(S) /\ Len(Append(t, e)) = n + 1
            /\ Append(t, e)[n + 1] = e /\ \A j \in 1 .. n : Append(t, e)[j] = t[j]
        BY <4>3, AppendProperties
      <4>5. ASSUME NEW j \in 1 .. Len(s)
            PROVE  s[j] = Append(t, e)[j]
        <5>0. n \in Nat /\ j \in 1 .. n + 1 /\ n + 1 \notin 1 .. n
          BY <2>1, <4>2
        <5>1. j \in 1 .. n \/ (j = n + 1 /\ j # k)
          BY <5>0
        <5> QED BY <2>1, <4>2, <4>3, <4>4, <5>1
      <4>6. s = Append(t, e)
        BY <2>1, <4>2, <4>4, <4>5, SeqEqual
      <4> QED BY <4>6 DEF s, t
    <3>4. [l EXCEPT ![k] = m] \in Seq(S)
      BY ExceptSeq
    <3>5. Without([longer EXCEPT ![k] = m], dropped) =
              IF e \in dropped THEN Without([l EXCEPT ![k] = m], dropped)
              ELSE Append(Without([l EXCEPT ![k] = m], dropped), e)
      <4> DEFINE t == [l EXCEPT ![k] = m]
      <4>1. t \in Seq(S)
        BY <3>4
      <4> HIDE DEF t
      <4>2. Without(Append(t, e), dropped) =
                IF e \in dropped THEN Without(t, dropped) ELSE Append(Without(t, dropped), e)
        BY <4>1, WithoutAppend
      <4> QED BY <3>3, <4>2 DEF t
    <3>6. CASE e \in dropped
      BY <2>2, <3>1, <3>2, <3>5, <3>6
    <3>7. CASE e \notin dropped
      <4>1. RemoveAt(Append(Without(l, dropped), e), KeptUpTo(l, dropped, k)) =
                Append(RemoveAt(Without(l, dropped), KeptUpTo(l, dropped, k)), e)
        BY <2>3, <3>1, RemoveAtAppend
      <4>2. KeptUpTo(l, dropped, k) \in 1 .. Len(Append(Without(l, dropped), e))
        BY <2>3, <3>1
      <4> QED BY <2>2, <3>1, <3>2, <3>5, <3>7, <4>1, <4>2
    <3> QED BY <3>6, <3>7
  <2>5. ASSUME e \notin dropped
        PROVE  Lost(longer, n + 1)
    <3>1. KeptUpTo(longer, dropped, n + 1) = Len(Without(l, dropped)) + 1
      <4>1. Len(Without(longer, dropped)) = KeptUpTo(longer, dropped, n + 1)
        BY <2>1, WithoutLen
      <4> QED BY <2>2, <2>3, <2>5, <4>1
    <3>2. [longer EXCEPT ![n + 1] = m] = Append(l, m)
      <4> DEFINE s == [longer EXCEPT ![n + 1] = m]
      <4>1. n + 1 \in 1 .. Len(longer)
        BY <2>1
      <4>2. /\ s \in Seq(S) /\ Len(s) = Len(longer)
            /\ \A j \in 1 .. Len(longer) : s[j] = IF j = n + 1 THEN m ELSE longer[j]
        BY <2>1, <4>1, ExceptSeq
      <4> HIDE DEF s
      <4>3. /\ Append(l, m) \in Seq(S) /\ Len(Append(l, m)) = n + 1
            /\ Append(l, m)[n + 1] = m /\ \A j \in 1 .. n : Append(l, m)[j] = l[j]
        BY AppendProperties
      <4>4. ASSUME NEW j \in 1 .. Len(s)
            PROVE  s[j] = Append(l, m)[j]
        <5>1. (j \in 1 .. n /\ j # n + 1) \/ j = n + 1
          BY <2>1, <4>2
        <5> QED BY <2>1, <4>2, <4>3, <5>1
      <4>5. s = Append(l, m)
        BY <2>1, <4>2, <4>3, <4>4, SeqEqual
      <4> QED BY <4>5 DEF s
    <3>3. Without(Append(l, m), dropped) = Without(l, dropped)
      BY WithoutAppend
    <3>4. RemoveAt(Append(Without(l, dropped), e), Len(Without(l, dropped)) + 1)
              = Without(l, dropped)
      BY <2>3, RemoveAtLast
    <3>5. Without(longer, dropped) = Append(Without(l, dropped), e)
      BY <2>2, <2>5
    <3>6. Len(Without(l, dropped)) + 1 \in 1 .. Len(Append(Without(l, dropped), e))
      BY <2>3
    <3> QED BY <3>1, <3>2, <3>3, <3>4, <3>5, <3>6
  <2> HIDE DEF Lost
  <2>6. ASSUME NEW k \in 1 .. Len(longer), longer[k] \notin dropped
        PROVE  Lost(longer, k)
    <3>1. k \in 1 .. n \/ k = n + 1
      BY <2>1
    <3> QED BY <2>1, <2>4, <2>5, <2>6, <3>1
  <2>7. longer \in T
    BY <2>1, <2>6
  <2> QED BY <2>7 DEF longer
<1> HIDE DEF T
<1>3. Seq(S) \subseteq T
  BY <1>1, <1>2, ListInduction
<1>4. Lost(list, i)
  BY <1>3 DEF T
<1> QED BY <1>4
-----------------------------------------------------------------------------
(* What reading makes of a file. *)

\* What memory holds: nothing of a wrong shape.
CleanRows == Seq(Records) \cup {NoSnapshot}
CleanContracts == (SUBSET Fields) \cup {NoContract}

States == [snapshots : [Collectors -> CleanRows],
           contracts : [Collectors -> CleanContracts],
           events : Seq(Collectors)]

Present(d) == d \in Documents /\ (d.snapshots # Missing \/ d.catalog # Missing)

RawRows(d) == IF d.snapshots # Missing THEN d.snapshots ELSE d.catalog

LEMMA SnapshotIsRead ==
    ASSUME NEW entry
    PROVE  /\ entry \in StoredRows => readSnapshot(entry) \in CleanRows
           /\ entry \in CleanRows => entry \in StoredRows /\ readSnapshot(entry) = entry
<1>1. ASSUME entry \in StoredRows
      PROVE  readSnapshot(entry) \in CleanRows
  <2>1. CASE entry \in {NoSnapshot, Malformed}
    BY <2>1 DEF readSnapshot, CleanRows
  <2>2. CASE entry \notin {NoSnapshot, Malformed}
    <3>1. entry \in Seq(Records \cup {Malformed})
      BY <1>1, <2>2 DEF StoredRows
    <3>2. Without(entry, {Malformed}) \in Seq((Records \cup {Malformed}) \ {Malformed})
      BY <3>1, WithoutType
    <3>3. (Records \cup {Malformed}) \ {Malformed} = Records
      BY MarkersAssumption
    <3> QED BY <2>2, <3>2, <3>3 DEF readSnapshot, WellFormed, CleanRows
  <2> QED BY <2>1, <2>2
<1>2. ASSUME entry \in CleanRows
      PROVE  entry \in StoredRows /\ readSnapshot(entry) = entry
  <2>1. CASE entry = NoSnapshot
    BY <2>1 DEF readSnapshot, StoredRows
  <2>2. CASE entry # NoSnapshot
    <3>1. entry \in Seq(Records)
      BY <1>2, <2>2 DEF CleanRows
    <3>2. entry \in Seq(Records \cup {Malformed})
      <4>1. Records \subseteq Records \cup {Malformed}
        OBVIOUS
      <4> QED BY <3>1, <4>1
    <3>3. entry # Malformed
      BY <3>2, MarkersAssumption
    <3>4. Records \cap {Malformed} = {}
      BY MarkersAssumption
    <3>5. Without(entry, {Malformed}) = entry
      BY <3>1, <3>4, WithoutNothing
    <3> QED BY <2>2, <3>2, <3>3, <3>5 DEF readSnapshot, WellFormed, StoredRows
  <2> QED BY <2>1, <2>2
<1> QED BY <1>1, <1>2

LEMMA ContractIsRead ==
    ASSUME NEW entry
    PROVE  /\ entry \in StoredContracts => readContract(entry) \in CleanContracts
           /\ entry \in CleanContracts =>
                 entry \in StoredContracts /\ readContract(entry) = entry
<1>1. ASSUME entry \in StoredContracts
      PROVE  readContract(entry) \in CleanContracts
  BY <1>1 DEF StoredContracts, CleanContracts, readContract
<1>2. ASSUME entry \in CleanContracts
      PROVE  entry \in StoredContracts /\ readContract(entry) = entry
  <2>1. CASE entry = NoContract
    BY <2>1 DEF StoredContracts, readContract
  <2>2. CASE entry # NoContract
    <3>1. entry \in SUBSET Fields
      BY <1>2, <2>2 DEF CleanContracts
    <3>2. entry \in SUBSET (Fields \cup {Malformed}) /\ entry \ {Malformed} = entry
      BY <3>1, MarkersAssumption
    <3>3. entry \notin {NoContract, Malformed}
      BY <3>2, MarkersAssumption
    <3> QED BY <3>2, <3>3 DEF StoredContracts, readContract
  <2> QED BY <2>1, <2>2
<1> QED BY <1>1, <1>2

LEMMA EventsAreRead ==
    ASSUME NEW events
    PROVE  /\ events \in Seq(Collectors \cup {Malformed}) =>
                 WellFormed(events) \in Seq(Collectors)
           /\ events \in Seq(Collectors) =>
                 /\ events \in Seq(Collectors \cup {Malformed})
                 /\ WellFormed(events) = events
<1>1. ASSUME events \in Seq(Collectors \cup {Malformed})
      PROVE  WellFormed(events) \in Seq(Collectors)
  <2>1. Without(events, {Malformed}) \in Seq((Collectors \cup {Malformed}) \ {Malformed})
    BY <1>1, WithoutType
  <2>2. (Collectors \cup {Malformed}) \ {Malformed} = Collectors
    BY MarkersAssumption
  <2> QED BY <2>1, <2>2 DEF WellFormed
<1>2. ASSUME events \in Seq(Collectors)
      PROVE  events \in Seq(Collectors \cup {Malformed}) /\ WellFormed(events) = events
  <2>1. Collectors \subseteq Collectors \cup {Malformed}
    OBVIOUS
  <2>2. Collectors \cap {Malformed} = {}
    BY MarkersAssumption
  <2>3. Without(events, {Malformed}) = events
    BY <1>2, <2>2, WithoutNothing
  <2> QED BY <1>2, <2>1, <2>3 DEF WellFormed
<1> QED BY <1>1, <1>2

LEMMA EmptyIsClean == EMPTY \in States
<1>1. <<>> \in Seq(Collectors)
  BY EmptySeq
<1> QED BY <1>1 DEF EMPTY, States, CleanRows, CleanContracts

\* The parts of a file that is a document, and of what is read from it.
LEMMA PartsOfDocument ==
    ASSUME NEW d, Present(d)
    PROVE  /\ d \notin {NoFile, Unreadable}
           /\ RawRows(d) \in [Collectors -> StoredRows]
           /\ d.contracts # Missing => d.contracts \in [Collectors -> StoredContracts]
           /\ d.events \in Seq(Collectors \cup {Malformed})
           /\ Read(d) = [snapshots |-> [c \in Collectors |-> readSnapshot(RawRows(d)[c])],
                         contracts |-> [c \in Collectors |->
                             IF d.contracts = Missing THEN NoContract
                                                      ELSE readContract(d.contracts[c])],
                         events |-> WellFormed(d.events)]
<1>1. d \in Documents
  BY DEF Present
<1>2. d \notin {NoFile, Unreadable}
  BY <1>1, MarkersAssumption
<1>3. /\ d.snapshots \in [Collectors -> StoredRows] \cup {Missing}
      /\ d.catalog \in [Collectors -> StoredRows] \cup {Missing}
      /\ d.contracts \in [Collectors -> StoredContracts] \cup {Missing}
      /\ d.events \in Seq(Collectors \cup {Malformed})
  BY <1>1 DEF Documents
<1>4. RawRows(d) \in [Collectors -> StoredRows]
  BY <1>3 DEF Present, RawRows
<1>5. Read(d) = [snapshots |-> [c \in Collectors |-> readSnapshot(RawRows(d)[c])],
                 contracts |-> [c \in Collectors |->
                     IF d.contracts = Missing THEN NoContract
                                              ELSE readContract(d.contracts[c])],
                 events |-> WellFormed(d.events)]
  BY <1>2, Zenon DEF Read, RawRows
<1> QED BY <1>2, <1>3, <1>4, <1>5

LEMMA ReadType ==
    ASSUME NEW f, f \in {NoFile, Unreadable} \/ Present(f)
    PROVE  Read(f) \in States
<1>1. CASE f \in {NoFile, Unreadable}
  BY <1>1, EmptyIsClean DEF Read
<1>2. CASE Present(f)
  <2> DEFINE s == [c \in Collectors |-> readSnapshot(RawRows(f)[c])]
             k == [c \in Collectors |-> IF f.contracts = Missing THEN NoContract
                                                   ELSE readContract(f.contracts[c])]
             e == WellFormed(f.events)
  <2>1. s \in [Collectors -> CleanRows]
    <3>1. ASSUME NEW c \in Collectors PROVE readSnapshot(RawRows(f)[c]) \in CleanRows
      <4>1. RawRows(f)[c] \in StoredRows
        BY <1>2, PartsOfDocument
      <4> QED BY <4>1, SnapshotIsRead
    <3> QED BY <3>1
  <2>2. k \in [Collectors -> CleanContracts]
    <3>1. ASSUME NEW c \in Collectors, f.contracts # Missing
          PROVE  readContract(f.contracts[c]) \in CleanContracts
      <4>1. f.contracts[c] \in StoredContracts
        BY <1>2, <3>1, PartsOfDocument
      <4> QED BY <4>1, ContractIsRead
    <3> QED BY <3>1 DEF CleanContracts
  <2>3. e \in Seq(Collectors)
    BY <1>2, PartsOfDocument, EventsAreRead
  <2>4. Read(f) = [snapshots |-> s, contracts |-> k, events |-> e]
    BY <1>2, PartsOfDocument
  <2> HIDE DEF s, k, e
  <2> QED BY <2>1, <2>2, <2>3, <2>4 DEF States
<1> QED BY <1>1, <1>2

\* What a save writes is read back, in this version of the file and in the one before.
LEMMA WrittenIsReadBack ==
    ASSUME NEW s \in States
    PROVE  /\ Present(Document(s)) /\ Read(Document(s)) = s
           /\ s.contracts = EMPTY.contracts =>
                 Present(VersionOne(s)) /\ Read(VersionOne(s)) = s
<1>1. /\ s.snapshots \in [Collectors -> CleanRows]
      /\ s.contracts \in [Collectors -> CleanContracts]
      /\ s.events \in Seq(Collectors)
      /\ s = [snapshots |-> s.snapshots, contracts |-> s.contracts, events |-> s.events]
  BY DEF States
<1>2. s.snapshots \in [Collectors -> StoredRows]
      /\ \A c \in Collectors : readSnapshot(s.snapshots[c]) = s.snapshots[c]
  <2>1. \A c \in Collectors : s.snapshots[c] \in CleanRows
    BY <1>1
  <2>2. \A c \in Collectors : s.snapshots[c] \in StoredRows
                              /\ readSnapshot(s.snapshots[c]) = s.snapshots[c]
    BY <2>1, SnapshotIsRead
  <2> QED BY <1>1, <2>2
<1>3. s.contracts \in [Collectors -> StoredContracts]
      /\ \A c \in Collectors : readContract(s.contracts[c]) = s.contracts[c]
  <2>1. \A c \in Collectors : s.contracts[c] \in CleanContracts
    BY <1>1
  <2>2. \A c \in Collectors : s.contracts[c] \in StoredContracts
                              /\ readContract(s.contracts[c]) = s.contracts[c]
    BY <2>1, ContractIsRead
  <2> QED BY <1>1, <2>2
<1>4. s.events \in Seq(Collectors \cup {Malformed}) /\ WellFormed(s.events) = s.events
  BY <1>1, EventsAreRead
<1>5. s.snapshots # Missing /\ s.contracts # Missing
  BY <1>2, <1>3, MarkersAssumption
<1>6. [c \in Collectors |-> readSnapshot(s.snapshots[c])] = s.snapshots
  BY <1>1, <1>2
<1>7. Present(Document(s)) /\ Read(Document(s)) = s
  <2> DEFINE d == Document(s)
  <2>1. d.snapshots = s.snapshots /\ d.contracts = s.contracts /\ d.events = s.events
    BY DEF Document
  <2>2. Present(d)
    BY <1>2, <1>3, <1>4, <1>5 DEF Document, Documents, Present
  <2>3. RawRows(d) = s.snapshots
    BY <1>5, <2>1 DEF RawRows
  <2> HIDE DEF d
  <2>4. [c \in Collectors |-> IF d.contracts = Missing THEN NoContract
                                           ELSE readContract(d.contracts[c])] = s.contracts
    BY <1>1, <1>3, <1>5, <2>1
  <2>5. Read(d) = [snapshots |-> s.snapshots, contracts |-> s.contracts, events |-> s.events]
    BY <1>4, <1>6, <2>1, <2>2, <2>3, <2>4, PartsOfDocument
  <2> QED BY <1>1, <2>2, <2>5 DEF d
<1>8. ASSUME s.contracts = EMPTY.contracts
      PROVE  Present(VersionOne(s)) /\ Read(VersionOne(s)) = s
  <2> DEFINE d == VersionOne(s)
  <2>1. d.snapshots = Missing /\ d.catalog = s.snapshots /\ d.contracts = Missing
        /\ d.events = s.events
    BY DEF VersionOne
  <2>2. Present(d)
    BY <1>2, <1>4, <1>5 DEF VersionOne, Documents, Present
  <2>3. RawRows(d) = s.snapshots
    BY <2>1 DEF RawRows
  <2> HIDE DEF d
  <2>4. [c \in Collectors |-> IF d.contracts = Missing THEN NoContract
                                           ELSE readContract(d.contracts[c])] = s.contracts
    BY <1>8, <2>1 DEF EMPTY
  <2>5. Read(d) = [snapshots |-> s.snapshots, contracts |-> s.contracts, events |-> s.events]
    BY <1>4, <1>6, <2>1, <2>2, <2>3, <2>4, PartsOfDocument
  <2> QED BY <1>1, <2>2, <2>5 DEF d
<1> QED BY <1>7, <1>8
-----------------------------------------------------------------------------
(* What damage to one part of the file costs. *)

\* Another entry for the rows of a collector: only these are read differently.
LEMMA OtherRows ==
    ASSUME NEW d, Present(d), NEW c \in Collectors, NEW rows \in StoredRows,
           NEW place, place = (IF d.snapshots # Missing THEN "snapshots" ELSE "catalog")
    PROVE  /\ d[place] = RawRows(d)
           /\ Present([d EXCEPT ![place][c] = rows])
           /\ Read([d EXCEPT ![place][c] = rows]) =
                 [Read(d) EXCEPT !.snapshots[c] = readSnapshot(rows)]
<1> DEFINE after == [d EXCEPT ![place][c] = rows]
           raw == [RawRows(d) EXCEPT ![c] = rows]
<1>1. /\ d = [snapshots |-> d.snapshots, catalog |-> d.catalog,
              contracts |-> d.contracts, events |-> d.events]
      /\ d.snapshots \in [Collectors -> StoredRows] \cup {Missing}
      /\ d.catalog \in [Collectors -> StoredRows] \cup {Missing}
      /\ d.contracts \in [Collectors -> StoredContracts] \cup {Missing}
      /\ d.events \in Seq(Collectors \cup {Malformed})
  BY DEF Present, Documents
<1>2. RawRows(d) \in [Collectors -> StoredRows]
  BY PartsOfDocument
<1>3. raw \in [Collectors -> StoredRows] /\ raw # Missing
  BY <1>2, MarkersAssumption
<1>4. /\ d[place] = RawRows(d)
      /\ after = [snapshots |-> IF place = "snapshots" THEN raw ELSE d.snapshots,
                  catalog |-> IF place = "catalog" THEN raw ELSE d.catalog,
                  contracts |-> d.contracts, events |-> d.events]
  <2>1. CASE d.snapshots # Missing
    <3>1. place = "snapshots" /\ RawRows(d) = d.snapshots
      BY <2>1 DEF RawRows
    <3>2. d[place] = RawRows(d) /\ after = [d EXCEPT !.snapshots = raw]
      BY <3>1
    <3> HIDE DEF raw, after
    <3>3. [d EXCEPT !.snapshots = raw] =
              [snapshots |-> raw, catalog |-> d.catalog,
               contracts |-> d.contracts, events |-> d.events]
      BY <1>1
    <3> QED BY <3>1, <3>2, <3>3
  <2>2. CASE d.snapshots = Missing
    <3>1. place = "catalog" /\ RawRows(d) = d.catalog
      BY <2>2 DEF RawRows
    <3>2. d[place] = RawRows(d) /\ after = [d EXCEPT !.catalog = raw]
      BY <3>1
    <3> HIDE DEF raw, after
    <3>3. [d EXCEPT !.catalog = raw] =
              [snapshots |-> d.snapshots, catalog |-> raw,
               contracts |-> d.contracts, events |-> d.events]
      BY <1>1
    <3> QED BY <3>1, <3>2, <3>3
  <2> QED BY <2>1, <2>2
<1> HIDE DEF raw, after
<1>5. Present(after) /\ RawRows(after) = raw
  <2>1. after \in Documents
    BY <1>1, <1>3, <1>4 DEF Documents
  <2>2. CASE d.snapshots # Missing
    <3>1. after.snapshots = raw
      BY <1>4, <2>2
    <3> QED BY <1>3, <2>1, <3>1 DEF Present, RawRows
  <2>3. CASE d.snapshots = Missing
    <3>1. after.snapshots = Missing /\ after.catalog = raw
      BY <1>4, <2>3
    <3> QED BY <1>3, <2>1, <3>1 DEF Present, RawRows
  <2> QED BY <2>2, <2>3
<1>6. after.contracts = d.contracts /\ after.events = d.events
  BY <1>4
<1>7. [b \in Collectors |-> readSnapshot(raw[b])] =
          [[b \in Collectors |-> readSnapshot(RawRows(d)[b])] EXCEPT ![c] = readSnapshot(rows)]
  BY <1>2 DEF raw
<1>8. Read(after) = [Read(d) EXCEPT !.snapshots[c] = readSnapshot(rows)]
  <2>1. Read(d) = [snapshots |-> [b \in Collectors |-> readSnapshot(RawRows(d)[b])],
                   contracts |-> [b \in Collectors |->
                       IF d.contracts = Missing THEN NoContract
                                                ELSE readContract(d.contracts[b])],
                   events |-> WellFormed(d.events)]
    BY PartsOfDocument
  <2>2. Read(after) = [snapshots |-> [b \in Collectors |-> readSnapshot(raw[b])],
                       contracts |-> [b \in Collectors |->
                           IF d.contracts = Missing THEN NoContract
                                                    ELSE readContract(d.contracts[b])],
                       events |-> WellFormed(d.events)]
    BY <1>5, <1>6, PartsOfDocument
  <2> QED BY <1>7, <2>1, <2>2
<1> QED BY <1>4, <1>5, <1>8 DEF after

LEMMA OtherContract ==
    ASSUME NEW d, Present(d), d.contracts # Missing,
           NEW c \in Collectors, NEW rules \in StoredContracts
    PROVE  /\ Present([d EXCEPT !.contracts[c] = rules])
           /\ Read([d EXCEPT !.contracts[c] = rules]) =
                 [Read(d) EXCEPT !.contracts[c] = readContract(rules)]
<1> DEFINE after == [d EXCEPT !.contracts[c] = rules]
           stored == [d.contracts EXCEPT ![c] = rules]
<1>1. /\ d = [snapshots |-> d.snapshots, catalog |-> d.catalog,
              contracts |-> d.contracts, events |-> d.events]
      /\ d.snapshots \in [Collectors -> StoredRows] \cup {Missing}
      /\ d.catalog \in [Collectors -> StoredRows] \cup {Missing}
      /\ d.contracts \in [Collectors -> StoredContracts]
      /\ d.events \in Seq(Collectors \cup {Malformed})
  BY DEF Present, Documents
<1>2. stored \in [Collectors -> StoredContracts] /\ stored # Missing
  BY <1>1, MarkersAssumption
<1>3. after = [snapshots |-> d.snapshots, catalog |-> d.catalog,
               contracts |-> stored, events |-> d.events]
  BY <1>1
<1> HIDE DEF after
<1>4. /\ after.snapshots = d.snapshots /\ after.catalog = d.catalog
      /\ after.contracts = stored /\ after.events = d.events
  BY <1>3
<1>5. Present(after) /\ RawRows(after) = RawRows(d)
  <2>1. after \in Documents
    BY <1>1, <1>2, <1>3 DEF Documents
  <2> QED BY <1>4, <2>1 DEF Present, RawRows
<1>6. [b \in Collectors |-> IF stored = Missing THEN NoContract ELSE readContract(stored[b])] =
          [[b \in Collectors |-> IF d.contracts = Missing THEN NoContract
                                 ELSE readContract(d.contracts[b])]
             EXCEPT ![c] = readContract(rules)]
  <2>1. [b \in Collectors |-> IF stored = Missing THEN NoContract ELSE readContract(stored[b])]
            = [b \in Collectors |-> readContract(stored[b])]
    BY <1>2
  <2>2. [b \in Collectors |-> IF d.contracts = Missing THEN NoContract
                              ELSE readContract(d.contracts[b])]
            = [b \in Collectors |-> readContract(d.contracts[b])]
    OBVIOUS
  <2>3. [b \in Collectors |-> readContract(stored[b])] =
            [[b \in Collectors |-> readContract(d.contracts[b])] EXCEPT ![c] = readContract(rules)]
    BY <1>1
  <2> QED BY <2>1, <2>2, <2>3
<1> HIDE DEF stored
<1>7. Read(after) = [Read(d) EXCEPT !.contracts[c] = readContract(rules)]
  <2>1. Read(d) = [snapshots |-> [b \in Collectors |-> readSnapshot(RawRows(d)[b])],
                   contracts |-> [b \in Collectors |->
                       IF d.contracts = Missing THEN NoContract
                                                ELSE readContract(d.contracts[b])],
                   events |-> WellFormed(d.events)]
    BY PartsOfDocument
  <2>2. Read(after) = [snapshots |-> [b \in Collectors |-> readSnapshot(RawRows(d)[b])],
                       contracts |-> [b \in Collectors |->
                           IF stored = Missing THEN NoContract ELSE readContract(stored[b])],
                       events |-> WellFormed(d.events)]
    BY <1>4, <1>5, PartsOfDocument
  <2> QED BY <1>6, <2>1, <2>2
<1> QED BY <1>5, <1>7 DEF after

LEMMA OtherEvents ==
    ASSUME NEW d, Present(d), NEW events \in Seq(Collectors \cup {Malformed})
    PROVE  /\ Present([d EXCEPT !.events = events])
           /\ Read([d EXCEPT !.events = events]) =
                 [Read(d) EXCEPT !.events = WellFormed(events)]
<1> DEFINE after == [d EXCEPT !.events = events]
<1>1. /\ d = [snapshots |-> d.snapshots, catalog |-> d.catalog,
              contracts |-> d.contracts, events |-> d.events]
      /\ d.snapshots \in [Collectors -> StoredRows] \cup {Missing}
      /\ d.catalog \in [Collectors -> StoredRows] \cup {Missing}
      /\ d.contracts \in [Collectors -> StoredContracts] \cup {Missing}
  BY DEF Present, Documents
<1>2. after = [snapshots |-> d.snapshots, catalog |-> d.catalog,
               contracts |-> d.contracts, events |-> events]
  BY <1>1
<1> HIDE DEF after
<1>3. /\ after.snapshots = d.snapshots /\ after.catalog = d.catalog
      /\ after.contracts = d.contracts /\ after.events = events
  BY <1>2
<1>4. Present(after) /\ RawRows(after) = RawRows(d)
  <2>1. after \in Documents
    BY <1>1, <1>2 DEF Documents
  <2> QED BY <1>3, <2>1 DEF Present, RawRows
<1>5. Read(after) = [Read(d) EXCEPT !.events = WellFormed(events)]
  <2>1. Read(d) = [snapshots |-> [b \in Collectors |-> readSnapshot(RawRows(d)[b])],
                   contracts |-> [b \in Collectors |->
                       IF d.contracts = Missing THEN NoContract
                                                ELSE readContract(d.contracts[b])],
                   events |-> WellFormed(d.events)]
    BY PartsOfDocument
  <2>2. Read(after) = [snapshots |-> [b \in Collectors |-> readSnapshot(RawRows(d)[b])],
                       contracts |-> [b \in Collectors |->
                           IF d.contracts = Missing THEN NoContract
                                                    ELSE readContract(d.contracts[b])],
                       events |-> WellFormed(events)]
    BY <1>3, <1>4, PartsOfDocument
  <2> QED BY <2>1, <2>2
<1> QED BY <1>4, <1>5 DEF after
\* A saved row that loses its shape costs that row.
LEMMA LostRecord ==
    ASSUME NEW rows \in Seq(Records), NEW i \in DOMAIN rows
    PROVE  /\ [rows EXCEPT ![i] = Malformed] \in StoredRows
           /\ readSnapshot(rows) = rows
           /\ readSnapshot([rows EXCEPT ![i] = Malformed]) = RemoveAt(rows, i)
<1> DEFINE damaged == [rows EXCEPT ![i] = Malformed]
           Stored == Records \cup {Malformed}
           D == {Malformed}
<1>1. Records \subseteq Stored /\ Records \cap D = {} /\ Malformed \in Stored \cap D
  BY MarkersAssumption
<1>2. rows \in Seq(Stored) /\ rows \in CleanRows
  BY <1>1 DEF CleanRows
<1>3. i \in 1 .. Len(rows) /\ i \in Nat
  BY LenProperties
<1>4. damaged \in Seq(Stored)
  BY <1>1, <1>2, <1>3, ExceptSeq
<1>5. damaged \in StoredRows /\ damaged \notin {NoSnapshot, Malformed}
  BY <1>4, MarkersAssumption DEF StoredRows
<1>6. readSnapshot(rows) = rows
  BY <1>2, SnapshotIsRead
<1>7. Without(rows, D) = rows
  BY <1>1, WithoutNothing
<1>8. \A j \in 1 .. i : rows[j] \notin D
  <2>1. \A j \in 1 .. i : j \in 1 .. Len(rows)
    BY <1>3
  <2>2. \A j \in 1 .. Len(rows) : rows[j] \in Records
    BY ElementOfSeq
  <2> QED BY <1>1, <2>1, <2>2
<1>9. KeptUpTo(rows, D, i) = i
  <2>1. {j \in 1 .. i : rows[j] \notin D} = 1 .. i
    BY <1>8
  <2>2. Cardinality(1 .. i) = i
    <3>1. 1 \in Int /\ i \in Int
      BY <1>3
    <3>2. Cardinality(1 .. i) = IF 1 > i THEN 0 ELSE i - 1 + 1
      BY <3>1, FS_Interval
    <3> QED BY <1>3, <3>2
  <2> HIDE DEF D
  <2> QED BY <2>1, <2>2 DEF KeptUpTo
<1>10. rows[i] \notin D
  BY <1>3, <1>8
<1> HIDE DEF D, Stored
<1>11. Without([rows EXCEPT ![i] = Malformed], D) = RemoveAt(rows, i)
  <2>1. Without([rows EXCEPT ![i] = Malformed], D)
            = RemoveAt(Without(rows, D), KeptUpTo(rows, D, i))
    BY <1>1, <1>2, <1>3, <1>10, WithoutOne
  <2> QED BY <1>7, <1>9, <2>1
<1>12. readSnapshot(damaged) = RemoveAt(rows, i)
  <2> HIDE DEF damaged
  <2>1. readSnapshot(damaged) = Without(damaged, D)
    BY <1>5 DEF readSnapshot, WellFormed, D
  <2> QED BY <1>11, <2>1 DEF damaged
<1> QED BY <1>5, <1>6, <1>12

\* An event that loses its shape costs that event.
LEMMA LostEvent ==
    ASSUME NEW events \in Seq(Collectors \cup {Malformed}), NEW i \in DOMAIN events,
           events[i] # Malformed
    PROVE  /\ [events EXCEPT ![i] = Malformed] \in Seq(Collectors \cup {Malformed})
           /\ WellFormed([events EXCEPT ![i] = Malformed]) =
                 RemoveAt(WellFormed(events),
                          Cardinality({j \in 1 .. i : events[j] # Malformed}))
<1> DEFINE Stored == Collectors \cup {Malformed}
           D == {Malformed}
<1>1. i \in 1 .. Len(events)
  BY LenProperties
<1>2. Malformed \in Stored \cap D /\ events[i] \notin D
  OBVIOUS
<1>3. KeptUpTo(events, D, i) = Cardinality({j \in 1 .. i : events[j] # Malformed})
  <2>1. {j \in 1 .. i : events[j] \notin D} = {j \in 1 .. i : events[j] # Malformed}
    OBVIOUS
  <2> HIDE DEF D
  <2> QED BY <2>1 DEF KeptUpTo
<1>4. [events EXCEPT ![i] = Malformed] \in Seq(Stored)
  BY <1>1, <1>2, ExceptSeq
<1> HIDE DEF D, Stored
<1>5. events \in Seq(Stored)
  BY DEF Stored
<1>6. Without([events EXCEPT ![i] = Malformed], D)
          = RemoveAt(Without(events, D), KeptUpTo(events, D, i))
  BY <1>1, <1>2, <1>5, WithoutOne
<1> QED BY <1>3, <1>4, <1>6 DEF WellFormed, D, Stored
-----------------------------------------------------------------------------
(* The invariant.  A save that has come as far as the rename must have put   *)
(* into the temporary file what memory holds, and what memory holds must     *)
(* have its shape, or the file would be read as something else.              *)

ReadableInv ==
    /\ state \in States
    /\ file \in {NoFile, Unreadable} \/ Present(file)
    /\ step = "written" => temporary = Document(state)
    /\ Read(file) = acknowledged

LEMMA InitReadable == Init => ReadableInv
<1> SUFFICES ASSUME Init PROVE ReadableInv
  OBVIOUS
<1>1. acknowledged \in States /\ acknowledged.contracts = EMPTY.contracts
  <2>1. CASE acknowledged = EMPTY
    BY <2>1, EmptyIsClean
  <2>2. CASE acknowledged # EMPTY
    <3>1. PICK c \in Collectors, rows \in Snapshots :
             acknowledged = [EMPTY EXCEPT !.snapshots[c] = rows]
      BY <2>2 DEF Init
    <3>2. rows \in CleanRows
      BY StateFileAssumption DEF CleanRows
    <3> QED BY <3>1, <3>2, EmptyIsClean DEF States, EMPTY
  <2> QED BY <2>1, <2>2
<1>2. (file \in {NoFile, Unreadable} \/ Present(file)) /\ Read(file) = acknowledged
  <2>1. /\ Present(Document(acknowledged)) /\ Read(Document(acknowledged)) = acknowledged
        /\ Present(VersionOne(acknowledged)) /\ Read(VersionOne(acknowledged)) = acknowledged
    BY <1>1, WrittenIsReadBack
  <2>2. Read(NoFile) = EMPTY
    BY DEF Read
  <2>3. \/ file = NoFile /\ acknowledged = EMPTY
        \/ file = VersionOne(acknowledged)
        \/ file = Document(acknowledged)
    BY DEF Init
  <2> QED BY <2>1, <2>2, <2>3
<1>3. state \in States
  BY <1>2, ReadType DEF Init
<1> QED BY <1>2, <1>3 DEF Init, ReadableInv

LEMMA SaveKeeps ==
    ASSUME ReadableInv, NEW new \in States, Save(new)
    PROVE  ReadableInv'
BY DEF ReadableInv, Save, Read, Present, Documents, Document

LEMMA NewestAreEvents ==
    ASSUME NEW events \in Seq(Collectors), NEW c \in Collectors
    PROVE  Newest(Append(events, c)) \in Seq(Collectors)
<1> DEFINE longer == Append(events, c)
           first == IF Len(longer) > MAX_EVENTS THEN Len(longer) - MAX_EVENTS + 1 ELSE 1
<1>1. longer \in Seq(Collectors) /\ Len(longer) \in Nat
  BY AppendProperties, LenProperties
<1> HIDE DEF longer
<1>2. first \in Int /\ 1 <= first /\ Len(longer) \in Int
  BY <1>1, StateFileAssumption
<1> HIDE DEF first
<1>3. \A i \in first .. Len(longer) : longer[i] \in Collectors
  <2>1. \A i \in first .. Len(longer) : i \in 1 .. Len(longer)
    BY <1>1, <1>2
  <2> QED BY <1>1, <2>1, ElementOfSeq
<1>4. SubSeq(longer, first, Len(longer)) \in Seq(Collectors)
  BY <1>2, <1>3, SubSeqProperties
<1> QED BY <1>4 DEF Newest, longer, first

LEMMA DamageKeeps ==
    ASSUME ReadableInv, NEW damaged, NEW left, Damage(damaged, left),
           damaged \in {NoFile, Unreadable} \/ Present(damaged), Read(damaged) = left
    PROVE  ReadableInv'
<1>1. /\ step = "resting" /\ file' = damaged /\ acknowledged' = left
      /\ state' = state /\ step' = step
  BY DEF Damage
<1>2. Read(file)' = left /\ (file \in {NoFile, Unreadable} \/ Present(file))'
  BY <1>1 DEF Read, Present, Documents
<1> QED BY <1>1, <1>2 DEF ReadableInv

LEMMA ReadableIsInductive == ReadableInv /\ [Next]_vars => ReadableInv'
<1> SUFFICES ASSUME ReadableInv, [Next]_vars
             PROVE  ReadableInv'
  OBVIOUS
<1> USE DEF ReadableInv
<1>0. CASE UNCHANGED vars
  BY <1>0 DEF vars, Read, Present, Documents, Document
<1>1. ASSUME NEW c \in Collectors, saveLastKnownGood(c)
      PROVE  ReadableInv'
  <2>1. PICK rows \in Snapshots : Save([state EXCEPT !.snapshots[c] = rows])
    BY <1>1 DEF saveLastKnownGood
  <2>2. rows \in CleanRows
    BY StateFileAssumption DEF CleanRows
  <2>3. [state EXCEPT !.snapshots[c] = rows] \in States
    BY <2>2 DEF States
  <2> QED BY <2>1, <2>3, SaveKeeps
<1>2. ASSUME NEW c \in Collectors, saveContract(c)
      PROVE  ReadableInv'
  <2>1. Save([state EXCEPT !.contracts[c] = Fields])
    BY <1>2 DEF saveContract
  <2>2. [state EXCEPT !.contracts[c] = Fields] \in States
    BY DEF States, CleanContracts
  <2> QED BY <2>1, <2>2, SaveKeeps
<1>3. ASSUME NEW c \in Collectors, appendEvent(c)
      PROVE  ReadableInv'
  <2>1. Save([state EXCEPT !.events = Newest(Append(state.events, c))])
    BY <1>3 DEF appendEvent
  <2>2. Newest(Append(state.events, c)) \in Seq(Collectors)
    BY NewestAreEvents DEF States
  <2>3. [state EXCEPT !.events = Newest(Append(state.events, c))] \in States
    BY <2>2 DEF States
  <2> QED BY <2>1, <2>3, SaveKeeps
<1>4. ASSUME NEW c \in Collectors, SnapshotIsDamaged(c)
      PROVE  ReadableInv'
  <2>1. Present(file)
    BY <1>4 DEF SnapshotIsDamaged
  <2>2. Malformed \in StoredRows /\ readSnapshot(Malformed) = NoSnapshot
    BY DEF StoredRows, readSnapshot
  <2>3. /\ Present([file EXCEPT ![Rows][c] = Malformed])
        /\ Read([file EXCEPT ![Rows][c] = Malformed]) =
              [Read(file) EXCEPT !.snapshots[c] = NoSnapshot]
    BY <2>1, <2>2, OtherRows DEF Rows
  <2>4. Damage([file EXCEPT ![Rows][c] = Malformed],
               [acknowledged EXCEPT !.snapshots[c] = NoSnapshot])
    BY <1>4 DEF SnapshotIsDamaged
  <2> QED BY <2>3, <2>4, DamageKeeps
<1>5. ASSUME NEW c \in Collectors, RecordIsDamaged(c)
      PROVE  ReadableInv'
  <2> DEFINE rows == file[Rows][c]
  <2>1. Present(file) /\ rows \in Seq(Records)
    BY <1>5, StateFileAssumption DEF RecordIsDamaged
  <2>2. PICK i \in DOMAIN rows :
           Damage([file EXCEPT ![Rows][c] = [rows EXCEPT ![i] = Malformed]],
                  [acknowledged EXCEPT !.snapshots[c] = RemoveAt(@, i)])
    BY <1>5 DEF RecordIsDamaged
  <2>3. rows = RawRows(file)[c]
    <3>1. \A lost \in StoredRows : file[Rows] = RawRows(file)
      BY <2>1, OtherRows DEF Rows
    <3> QED BY <3>1 DEF StoredRows
  <2> HIDE DEF rows
  <2>4. /\ [rows EXCEPT ![i] = Malformed] \in StoredRows
        /\ readSnapshot(rows) = rows
        /\ readSnapshot([rows EXCEPT ![i] = Malformed]) = RemoveAt(rows, i)
    BY <2>1, LostRecord
  <2>5. /\ Present([file EXCEPT ![Rows][c] = [rows EXCEPT ![i] = Malformed]])
        /\ Read([file EXCEPT ![Rows][c] = [rows EXCEPT ![i] = Malformed]]) =
              [Read(file) EXCEPT !.snapshots[c] = RemoveAt(rows, i)]
    <3> DEFINE place == Rows
               lost == [rows EXCEPT ![i] = Malformed]
    <3>1. place = (IF file.snapshots # Missing THEN "snapshots" ELSE "catalog")
      BY DEF Rows
    <3>2. lost \in StoredRows /\ readSnapshot(lost) = RemoveAt(rows, i)
      BY <2>4
    <3> HIDE DEF place, lost
    <3>3. /\ Present([file EXCEPT ![place][c] = lost])
          /\ Read([file EXCEPT ![place][c] = lost]) =
                [Read(file) EXCEPT !.snapshots[c] = readSnapshot(lost)]
      BY <2>1, <3>1, <3>2, OtherRows
    <3> QED BY <3>2, <3>3 DEF place, lost
  <2>6. acknowledged.snapshots[c] = rows
    <3>1. acknowledged.snapshots[c] = readSnapshot(RawRows(file)[c])
      BY <2>1, PartsOfDocument
    <3> QED BY <2>3, <2>4, <3>1
  <2>7. [acknowledged EXCEPT !.snapshots[c] = RemoveAt(@, i)] =
            [acknowledged EXCEPT !.snapshots[c] = RemoveAt(rows, i)]
    BY <2>6
  <2> QED BY <2>2, <2>5, <2>7, DamageKeeps
<1>6. ASSUME NEW c \in Collectors, ContractIsDamaged(c)
      PROVE  ReadableInv'
  <2>1. Present(file) /\ file.contracts # Missing
    BY <1>6 DEF ContractIsDamaged
  <2>2. Malformed \in StoredContracts /\ readContract(Malformed) = NoContract
    BY DEF StoredContracts, readContract
  <2>3. /\ Present([file EXCEPT !.contracts[c] = Malformed])
        /\ Read([file EXCEPT !.contracts[c] = Malformed]) =
              [Read(file) EXCEPT !.contracts[c] = NoContract]
    BY <2>1, <2>2, OtherContract
  <2>4. Damage([file EXCEPT !.contracts[c] = Malformed],
               [acknowledged EXCEPT !.contracts[c] = NoContract])
    BY <1>6 DEF ContractIsDamaged
  <2> QED BY <2>3, <2>4, DamageKeeps
<1>7. ASSUME NEW c \in Collectors, RuleIsDamaged(c)
      PROVE  ReadableInv'
  <2> DEFINE rules == file.contracts[c]
  <2>1. Present(file) /\ file.contracts # Missing /\ rules \notin {NoContract, Malformed}
    BY <1>7 DEF RuleIsDamaged
  <2>2. PICK f \in rules \ {Malformed} :
           Damage([file EXCEPT !.contracts[c] = (rules \ {f}) \cup {Malformed}],
                  [acknowledged EXCEPT !.contracts[c] = @ \ {f}])
    BY <1>7 DEF RuleIsDamaged
  <2>3. rules \in SUBSET (Fields \cup {Malformed})
    BY <2>1, PartsOfDocument DEF StoredContracts
  <2>4. /\ (rules \ {f}) \cup {Malformed} \in StoredContracts
        /\ readContract((rules \ {f}) \cup {Malformed}) = (rules \ {Malformed}) \ {f}
    <3> DEFINE left == (rules \ {f}) \cup {Malformed}
    <3>1. left \in SUBSET (Fields \cup {Malformed})
      BY <2>3
    <3>2. left \notin {NoContract, Malformed}
      BY <3>1, MarkersAssumption
    <3>3. left \ {Malformed} = (rules \ {Malformed}) \ {f}
      BY <2>2
    <3> HIDE DEF left
    <3>4. left \in StoredContracts /\ readContract(left) = left \ {Malformed}
      BY <3>1, <3>2 DEF StoredContracts, readContract
    <3> QED BY <3>3, <3>4 DEF left
  <2>5. acknowledged.contracts[c] = rules \ {Malformed}
    <3>1. acknowledged.contracts[c] = readContract(rules)
      BY <2>1, PartsOfDocument
    <3> QED BY <2>1, <3>1 DEF readContract
  <2> HIDE DEF rules
  <2>6. /\ Present([file EXCEPT !.contracts[c] = (rules \ {f}) \cup {Malformed}])
        /\ Read([file EXCEPT !.contracts[c] = (rules \ {f}) \cup {Malformed}]) =
              [Read(file) EXCEPT !.contracts[c] = (rules \ {Malformed}) \ {f}]
    BY <2>1, <2>4, OtherContract
  <2>7. [acknowledged EXCEPT !.contracts[c] = @ \ {f}] =
            [acknowledged EXCEPT !.contracts[c] = (rules \ {Malformed}) \ {f}]
    BY <2>5
  <2> QED BY <2>2, <2>6, <2>7, DamageKeeps
<1>8. CASE EventIsDamaged
  <2> DEFINE events == file.events
  <2>1. Present(file)
    BY <1>8 DEF EventIsDamaged
  <2>2. PICK i \in DOMAIN events :
           /\ events[i] # Malformed
           /\ Damage([file EXCEPT !.events = [events EXCEPT ![i] = Malformed]],
                     [acknowledged EXCEPT !.events =
                         RemoveAt(@, Cardinality({j \in 1..i : events[j] # Malformed}))])
    BY <1>8 DEF EventIsDamaged
  <2>3. events \in Seq(Collectors \cup {Malformed})
    BY <2>1, PartsOfDocument
  <2>4. acknowledged.events = WellFormed(events)
    BY <2>1, PartsOfDocument
  <2> HIDE DEF events
  <2>5. /\ [events EXCEPT ![i] = Malformed] \in Seq(Collectors \cup {Malformed})
        /\ WellFormed([events EXCEPT ![i] = Malformed]) =
              RemoveAt(WellFormed(events),
                       Cardinality({j \in 1 .. i : events[j] # Malformed}))
    BY <2>2, <2>3, LostEvent
  <2>6. /\ Present([file EXCEPT !.events = [events EXCEPT ![i] = Malformed]])
        /\ Read([file EXCEPT !.events = [events EXCEPT ![i] = Malformed]]) =
              [Read(file) EXCEPT !.events = WellFormed([events EXCEPT ![i] = Malformed])]
    BY <2>1, <2>5, OtherEvents
  <2>7. [acknowledged EXCEPT !.events =
             RemoveAt(@, Cardinality({j \in 1..i : events[j] # Malformed}))] =
            [acknowledged EXCEPT !.events = WellFormed([events EXCEPT ![i] = Malformed])]
    BY <2>4, <2>5
  <2> QED BY <2>2, <2>6, <2>7, DamageKeeps
<1>9. CASE Opens
  BY <1>9 DEF Opens, Read, Present, Documents, Document
<1>10. CASE Fills
  BY <1>10 DEF Fills, Read, Present, Documents, Document
<1>11. CASE Renames
  <2>1. Present(Document(state)) /\ Read(Document(state)) = state
    BY WrittenIsReadBack
  <2>2. file' = Document(state) /\ acknowledged' = state /\ state' = state /\ step' = "resting"
    BY <1>11 DEF Renames
  <2>3. Read(file)' = state /\ Present(file)'
    BY <2>1, <2>2 DEF Read, Present, Documents
  <2> QED BY <2>2, <2>3
<1>12. CASE WriteThrows
  BY <1>12 DEF WriteThrows, Read, Present, Documents, Document
<1>13. CASE Restart
  <2>1. Read(file) \in States
    BY ReadType
  <2>2. state' = Read(file) /\ step' = "resting" /\ file' = file /\ acknowledged' = acknowledged
    BY <1>13 DEF Restart
  <2> QED BY <2>1, <2>2 DEF Read, Present, Documents
<1>14. CASE FileIsTorn
  <2>1. Damage(Unreadable, EMPTY)
    BY <1>14 DEF FileIsTorn
  <2>2. Read(Unreadable) = EMPTY
    BY DEF Read
  <2> QED BY <2>1, <2>2, DamageKeeps
<1> QED BY <1>0, <1>1, <1>2, <1>3, <1>4, <1>5, <1>6, <1>7, <1>8, <1>9, <1>10, <1>11, <1>12,
           <1>13, <1>14 DEF Next

\* For all collectors, rows, rules, bounds and damages: whenever the process dies, the start
\* that follows finds every part of the last save that returned, less exactly the parts
\* damaged on disk since (#write, #read).
THEOREM AcknowledgedIsReadBackAlways == Spec => []AcknowledgedIsReadBack
<1>1. ReadableInv => AcknowledgedIsReadBack
  BY DEF ReadableInv, AcknowledgedIsReadBack
<1> QED BY <1>1, InitReadable, ReadableIsInductive, PTL DEF Spec
=============================================================================
