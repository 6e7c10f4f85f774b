---------------------------- MODULE Lists_proofs ----------------------------
(***************************************************************************)
(* Facts about Lists, proved by induction on the length of a list: a set   *)
(* of natural numbers that is not empty has a least element.               *)
(***************************************************************************)
EXTENDS Lists, Integers, SequenceTheorems, TLAPS, WellFoundedInduction

Smaller == {pair \in Nat \X Nat : pair[1] < pair[2]}

LEMMA SmallerIsWellFounded == IsWellFoundedOn(Smaller, Nat)
<1>1. IsWellFoundedOn(OpToRel(<, Nat), Nat)
  BY NatLessThanWellFounded
<1>2. Smaller \cap (Nat \X Nat) \subseteq OpToRel(<, Nat)
  BY DEF Smaller, OpToRel
<1> QED BY <1>1, <1>2, IsWellFoundedOnSubrelation

\* A set of natural numbers that is not empty has a least element.
LEMMA LeastElement ==
    ASSUME NEW T, T \subseteq Nat, T # {}
    PROVE  \E x \in T : \A y \in T : x <= y
<1>1. PICK x \in T : \A y \in T : ~(<<y, x>> \in Smaller)
  BY SmallerIsWellFounded, WFMin
<1>2. \A y \in T : <<y, x>> \in Nat \X Nat
  OBVIOUS
<1>3. \A y \in T : ~(y < x)
  BY <1>1, <1>2 DEF Smaller
<1> QED BY <1>3

\* A set of places of a list that is not empty has a last one.
LEMMA GreatestElement ==
    ASSUME NEW N \in Nat, NEW T, T \subseteq 1 .. N, T # {}
    PROVE  \E x \in T : \A y \in T : y <= x
<1> DEFINE U == {N - x : x \in T}
<1>1. \A y \in T : y \in Int /\ y >= 1 /\ y <= N
  OBVIOUS
<1>2. U \subseteq Nat /\ U # {}
  <2>1. \A y \in T : N - y \in Nat /\ N - y \in U
    BY <1>1
  <2> QED BY <2>1
<1>3. PICK u \in U : \A v \in U : u <= v
  BY <1>2, LeastElement
<1>4. PICK x \in T : u = N - x
  BY <1>3
<1>5. ASSUME NEW y \in T PROVE y <= x
  <2>1. N - x <= N - y
    BY <1>3, <1>4
  <2>2. x \in Int /\ y \in Int
    BY <1>1
  <2> QED BY <2>1, <2>2
<1> QED BY <1>5

\* Induction up to a bound, for a property given as the set of numbers that have it.
LEMMA InductionUpTo ==
    ASSUME NEW N \in Nat, NEW T, 0 \in T, \A n \in 0 .. N - 1 : n \in T => n + 1 \in T
    PROVE  0 .. N \subseteq T
<1> SUFFICES ASSUME (0 .. N) \ T # {} PROVE FALSE
  OBVIOUS
<1>0. (0 .. N) \ T \subseteq Nat
  OBVIOUS
<1>1. PICK x \in (0 .. N) \ T : \A y \in (0 .. N) \ T : x <= y
  BY <1>0, LeastElement
<1>2. x # 0 /\ x - 1 \in 0 .. N - 1 /\ ~(x <= x - 1)
  BY <1>1
<1>3. x - 1 \in T
  BY <1>1, <1>2
<1>4. (x - 1) + 1 \in T
  BY <1>2, <1>3
<1> QED BY <1>1, <1>4
-----------------------------------------------------------------------------
(* Without. *)

\* A function that follows the recursion of Without for the first m elements of a list.
Follows(g, list, dropped, m) ==
    g = [n \in 0 .. m |->
            IF n = 0 THEN <<>>
            ELSE IF list[n] \in dropped THEN g[n - 1]
            ELSE Append(g[n - 1], list[n])]

LEMMA FollowerExists ==
    ASSUME NEW list, NEW dropped, NEW N \in Nat
    PROVE  \E g : Follows(g, list, dropped, N)
<1> DEFINE T == {m \in 0 .. N : \E g : Follows(g, list, dropped, m)}
<1>1. 0 \in T
  <2>1. Follows([n \in 0 .. 0 |-> <<>>], list, dropped, 0)
    BY DEF Follows
  <2> QED BY <2>1
<1>2. ASSUME NEW m \in 0 .. N - 1, m \in T
      PROVE  m + 1 \in T
  <2>1. PICK g : Follows(g, list, dropped, m)
    BY <1>2
  <2> DEFINE next == IF list[m + 1] \in dropped THEN g[m] ELSE Append(g[m], list[m + 1])
             h == [n \in 0 .. m + 1 |-> IF n <= m THEN g[n] ELSE next]
  <2>2. \A n \in 0 .. m : h[n] = g[n]
    OBVIOUS
  <2>3. h[m + 1] = next
    OBVIOUS
  <2>4. \A n \in 0 .. m : g[n] = IF n = 0 THEN <<>>
                                  ELSE IF list[n] \in dropped THEN g[n - 1]
                                  ELSE Append(g[n - 1], list[n])
    BY <2>1 DEF Follows
  <2>5. \A n \in 0 .. m + 1 : h[n] = IF n = 0 THEN <<>>
                                  ELSE IF list[n] \in dropped THEN h[n - 1]
                                  ELSE Append(h[n - 1], list[n])
    <3> TAKE n \in 0 .. m + 1
    <3> HIDE DEF h
    <3>1. CASE n = 0
      BY <3>1, <2>2, <2>4
    <3>2. CASE n \in 1 .. m
      <4>1. n - 1 \in 0 .. m /\ n \in 0 .. m
        BY <3>2
      <4> QED BY <4>1, <3>2, <2>2, <2>4
    <3>3. CASE n = m + 1
      <4>1. n - 1 = m /\ m \in 0 .. m
        BY <3>3
      <4> QED BY <4>1, <3>3, <2>2, <2>3
    <3> QED BY <3>1, <3>2, <3>3
  <2>6. Follows(h, list, dropped, m + 1)
    <3> DEFINE e(n) == IF n = 0 THEN <<>>
                       ELSE IF list[n] \in dropped THEN h[n - 1]
                       ELSE Append(h[n - 1], list[n])
    <3>1. h = [n \in 0 .. m + 1 |-> h[n]]
      OBVIOUS
    <3> HIDE DEF h
    <3>2. \A n \in 0 .. m + 1 : h[n] = e(n)
      BY <2>5
    <3> HIDE DEF e
    <3>3. h = [n \in 0 .. m + 1 |-> e(n)]
      BY <3>1, <3>2
    <3> QED BY <3>3 DEF Follows, e
  <2> HIDE DEF h
  <2> QED BY <2>6
<1> HIDE DEF T
<1>3. 0 .. N \subseteq T
  BY <1>1, <1>2, InductionUpTo
<1> QED BY <1>3 DEF T

LEMMA WithoutFollows ==
    ASSUME NEW list, NEW dropped, Len(list) \in Nat
    PROVE  \E g : Follows(g, list, dropped, Len(list)) /\ Without(list, dropped) = g[Len(list)]
<1> DEFINE g == CHOOSE g : Follows(g, list, dropped, Len(list))
<1>1. Follows(g, list, dropped, Len(list))
  BY FollowerExists
<1>2. Without(list, dropped) = g[Len(list)]
  BY DEF Without, Follows
<1> HIDE DEF g
<1> QED BY <1>1, <1>2

LEMMA WithoutEmpty ==
    ASSUME NEW dropped
    PROVE  Without(<<>>, dropped) = <<>>
<1>1. Len(<<>>) = 0
  OBVIOUS
<1>2. PICK g : Follows(g, <<>>, dropped, 0) /\ Without(<<>>, dropped) = g[0]
  BY <1>1, WithoutFollows
<1>3. g[0] = <<>>
  BY <1>2 DEF Follows
<1> QED BY <1>2, <1>3

LEMMA WithoutAppend ==
    ASSUME NEW S, NEW list \in Seq(S), NEW e \in S, NEW dropped
    PROVE  Without(Append(list, e), dropped) =
               IF e \in dropped THEN Without(list, dropped) ELSE Append(Without(list, dropped), e)
<1> DEFINE longer == Append(list, e)
           N == Len(list)
           M == Len(longer)
<1>1. N \in Nat /\ M \in Nat /\ M = N + 1 /\ longer[M] = e
      /\ \A n \in 1 .. N : list[n] = longer[n]
  BY AppendProperties
<1>2. PICK g : Follows(g, list, dropped, N) /\ Without(list, dropped) = g[N]
  BY <1>1, WithoutFollows
<1>3. PICK h : Follows(h, longer, dropped, M) /\ Without(longer, dropped) = h[M]
  BY <1>1, WithoutFollows
<1> HIDE DEF longer, N, M
<1>5. \A n \in 0 .. N : g[n] = h[n]
  <2> DEFINE T == {n \in 0 .. N : g[n] = h[n]}
  <2>1. 0 \in T
    BY <1>1, <1>2, <1>3 DEF Follows
  <2>2. ASSUME NEW n \in 0 .. N - 1, n \in T
        PROVE  n + 1 \in T
    <3>1. n + 1 \in 0 .. N /\ n + 1 \in 1 .. N /\ n + 1 \in 0 .. M /\ n + 1 # 0 /\ (n + 1) - 1 = n
      BY <1>1
    <3>2. g[n + 1] = IF list[n + 1] \in dropped THEN g[n] ELSE Append(g[n], list[n + 1])
      BY <1>2, <3>1 DEF Follows
    <3>3. h[n + 1] = IF longer[n + 1] \in dropped THEN h[n] ELSE Append(h[n], longer[n + 1])
      BY <1>3, <3>1 DEF Follows
    <3>4. list[n + 1] = longer[n + 1] /\ g[n] = h[n]
      BY <1>1, <2>2, <3>1
    <3> QED BY <3>1, <3>2, <3>3, <3>4
  <2> HIDE DEF T
  <2>3. 0 .. N \subseteq T
    BY <1>1, <2>1, <2>2, InductionUpTo
  <2> QED BY <2>3 DEF T
<1>6. g[N] = h[N]
  BY <1>1, <1>5
<1>7. M \in 0 .. M /\ M # 0 /\ M - 1 = N
  BY <1>1
<1>8. h[M] = IF longer[M] \in dropped THEN h[N] ELSE Append(h[N], longer[M])
  BY <1>3, <1>7 DEF Follows
<1>9. Without(longer, dropped) =
          IF e \in dropped THEN Without(list, dropped) ELSE Append(Without(list, dropped), e)
  BY <1>1, <1>2, <1>3, <1>6, <1>8
<1> QED BY <1>9 DEF longer
-----------------------------------------------------------------------------
\* Induction over lists, for a property given as the set of lists that have it.
LEMMA ListInduction ==
    ASSUME NEW S, NEW T, <<>> \in T,
           \A list \in Seq(S), e \in S : list \in T => Append(list, e) \in T
    PROVE  Seq(S) \subseteq T
<1> SUFFICES ASSUME NEW list \in Seq(S)
             PROVE  list \in T
  OBVIOUS
<1> DEFINE P(n) == SubSeq(list, 1, n)
           U == {n \in 0 .. Len(list) : P(n) \in T}
<1>1. Len(list) \in Nat
  OBVIOUS
<1>2. P(0) = <<>>
  BY SubSeqEmpty
<1>3. ASSUME NEW n \in 0 .. Len(list) - 1
      PROVE  P(n) \in Seq(S) /\ list[n + 1] \in S /\ P(n + 1) = Append(P(n), list[n + 1])
  <2>1. n + 1 \in 1 .. Len(list) /\ 1 \in 1 .. Len(list) /\ n + 1 \in 1 .. Len(list)
        /\ (n + 1) - 1 = n
    BY <1>1
  <2>2. P(n) \in Seq(S)
    <3>1. \A i \in 1 .. n : list[i] \in S
      BY <1>1, ElementOfSeq
    <3> QED BY <3>1, SubSeqProperties
  <2>3. list[n + 1] \in S
    BY <2>1, ElementOfSeq
  <2>4. P(n + 1) = P(n) \o <<list[n + 1]>>
    BY <2>1, SubSeqRecursiveSecond
  <2> HIDE DEF P
  <2> QED BY <2>2, <2>3, <2>4, AppendIsConcat
<1>4. P(Len(list)) = list
  BY SubSeqFull
<1> HIDE DEF P
<1>5. 0 \in U
  BY <1>1, <1>2
<1>6. ASSUME NEW n \in 0 .. Len(list) - 1, n \in U
      PROVE  n + 1 \in U
  <2>1. n + 1 \in 0 .. Len(list)
    BY <1>1
  <2> QED BY <1>3, <1>6, <2>1
<1> HIDE DEF U
<1>7. 0 .. Len(list) \subseteq U
  BY <1>1, <1>5, <1>6, InductionUpTo
<1>8. Len(list) \in U
  BY <1>1, <1>7
<1> QED BY <1>4, <1>8 DEF U

\* What is left are elements of the list that are not dropped.
LEMMA WithoutType ==
    ASSUME NEW S, NEW list \in Seq(S), NEW dropped
    PROVE  Without(list, dropped) \in Seq(S \ dropped)
<1> DEFINE T == {l \in Seq(S) : Without(l, dropped) \in Seq(S \ dropped)}
<1>1. <<>> \in T
  BY WithoutEmpty, EmptySeq
<1>2. ASSUME NEW l \in Seq(S), NEW e \in S, l \in T
      PROVE  Append(l, e) \in T
  <2>1. CASE e \in dropped
    BY <1>2, <2>1, WithoutAppend
  <2>2. CASE e \notin dropped
    <3>1. Without(Append(l, e), dropped) = Append(Without(l, dropped), e)
      BY <2>2, WithoutAppend
    <3>2. Without(l, dropped) \in Seq(S \ dropped) /\ e \in S \ dropped
      BY <1>2, <2>2
    <3>3. Append(Without(l, dropped), e) \in Seq(S \ dropped) /\ Append(l, e) \in Seq(S)
      BY <3>2, AppendProperties
    <3> QED BY <3>1, <3>3
  <2> QED BY <2>1, <2>2
<1> HIDE DEF T
<1>3. Seq(S) \subseteq T
  BY <1>1, <1>2, ListInduction
<1> QED BY <1>3 DEF T

\* A list with nothing to drop is left as it is.
LEMMA WithoutNothing ==
    ASSUME NEW S, NEW list \in Seq(S), NEW dropped, S \cap dropped = {}
    PROVE  Without(list, dropped) = list
<1> DEFINE T == {l \in Seq(S) : Without(l, dropped) = l}
<1>1. <<>> \in T
  BY WithoutEmpty, EmptySeq
<1>2. ASSUME NEW l \in Seq(S), NEW e \in S, l \in T
      PROVE  Append(l, e) \in T
  BY <1>2, WithoutAppend, AppendProperties
<1> HIDE DEF T
<1>3. Seq(S) \subseteq T
  BY <1>1, <1>2, ListInduction
<1> QED BY <1>3 DEF T

\* Two lists with something to drop at the same places are left equally long.
LEMMA WithoutLength ==
    ASSUME NEW S, NEW list \in Seq(S), NEW other \in Seq(S), NEW dropped, Len(other) = Len(list),
           \A i \in 1 .. Len(list) : list[i] \in dropped <=> other[i] \in dropped
    PROVE  Len(Without(list, dropped)) = Len(Without(other, dropped))
<1> DEFINE N == Len(list)
<1>1. N \in Nat /\ \A i \in 1 .. N : list[i] \in S /\ other[i] \in S
  BY ElementOfSeq
<1>2. PICK g : Follows(g, list, dropped, N) /\ Without(list, dropped) = g[N]
  BY <1>1, WithoutFollows
<1>3. PICK h : Follows(h, other, dropped, N) /\ Without(other, dropped) = h[N]
  BY <1>1, WithoutFollows
<1>4. \A i \in 1 .. N : list[i] \in dropped <=> other[i] \in dropped
  OBVIOUS
<1> DEFINE T == {n \in 0 .. N : g[n] \in Seq(S) /\ h[n] \in Seq(S) /\ Len(g[n]) = Len(h[n])}
<1> HIDE DEF N
<1>5. 0 \in T
  BY <1>1, <1>2, <1>3 DEF Follows
<1>6. ASSUME NEW n \in 0 .. N - 1, n \in T
      PROVE  n + 1 \in T
  <2>1. n + 1 \in 0 .. N /\ n + 1 \in 1 .. N /\ n + 1 # 0 /\ (n + 1) - 1 = n
    BY <1>1
  <2>2. g[n + 1] = IF list[n + 1] \in dropped THEN g[n] ELSE Append(g[n], list[n + 1])
    BY <1>2, <2>1 DEF Follows
  <2>3. h[n + 1] = IF other[n + 1] \in dropped THEN h[n] ELSE Append(h[n], other[n + 1])
    BY <1>3, <2>1 DEF Follows
  <2>4. g[n] \in Seq(S) /\ h[n] \in Seq(S) /\ Len(g[n]) = Len(h[n])
    BY <1>6
  <2>5. list[n + 1] \in S /\ other[n + 1] \in S
    BY <1>1, <2>1
  <2>6. CASE list[n + 1] \in dropped
    BY <1>4, <2>1, <2>2, <2>3, <2>4, <2>6
  <2>7. CASE list[n + 1] \notin dropped
    <3>1. g[n + 1] = Append(g[n], list[n + 1]) /\ h[n + 1] = Append(h[n], other[n + 1])
      BY <1>4, <2>1, <2>2, <2>3, <2>7
    <3>2. /\ g[n + 1] \in Seq(S) /\ Len(g[n + 1]) = Len(g[n]) + 1
          /\ h[n + 1] \in Seq(S) /\ Len(h[n + 1]) = Len(h[n]) + 1
      BY <2>4, <2>5, <3>1, AppendProperties
    <3> QED BY <2>1, <2>4, <3>2
  <2> QED BY <2>6, <2>7
<1> HIDE DEF T
<1>7. 0 .. N \subseteq T
  BY <1>1, <1>5, <1>6, InductionUpTo
<1>8. N \in T
  BY <1>1, <1>7
<1> QED BY <1>2, <1>3, <1>8 DEF T
-----------------------------------------------------------------------------
(* Lists that hold nothing twice. *)

LEMMA RangeOfAppend ==
    ASSUME NEW S, NEW list \in Seq(S), NEW e \in S
    PROVE  /\ Range(Append(list, e)) = Range(list) \cup {e}
           /\ IsInjective(Append(list, e)) <=> IsInjective(list) /\ e \notin Range(list)
<1> DEFINE longer == Append(list, e)
           N == Len(list)
<1>1. /\ N \in Nat /\ DOMAIN list = 1 .. N /\ DOMAIN longer = 1 .. N + 1
      /\ longer[N + 1] = e
      /\ \A n \in 1 .. N : longer[n] = list[n]
  BY AppendProperties, LenProperties
<1>2. N + 1 \in 1 .. N + 1 /\ N + 1 \notin 1 .. N
      /\ 1 .. N + 1 = 1 .. N \cup {N + 1}
  BY <1>1
<1> HIDE DEF longer, N
<1>3. Range(longer) = Range(list) \cup {e}
  BY <1>1, <1>2 DEF Range
<1>4. IsInjective(longer) => IsInjective(list) /\ e \notin Range(list)
  <2> SUFFICES ASSUME IsInjective(longer) PROVE IsInjective(list) /\ e \notin Range(list)
    OBVIOUS
  <2>1. \A n, m \in 1 .. N + 1 : longer[n] = longer[m] => n = m
    BY <1>1 DEF IsInjective
  <2>2. IsInjective(list)
    BY <1>1, <1>2, <2>1 DEF IsInjective
  <2>3. e \notin Range(list)
    BY <1>1, <1>2, <2>1 DEF Range
  <2> QED BY <2>2, <2>3
<1>5. IsInjective(list) /\ e \notin Range(list) => IsInjective(longer)
  <2> SUFFICES ASSUME IsInjective(list), e \notin Range(list),
                      NEW n \in 1 .. N + 1, NEW m \in 1 .. N + 1, longer[n] = longer[m]
               PROVE  n = m
    BY <1>1 DEF IsInjective
  <2>1. \A k \in 1 .. N : longer[k] # e
    BY <1>1 DEF Range
  <2>2. CASE n \in 1 .. N /\ m \in 1 .. N
    BY <1>1, <2>2 DEF IsInjective
  <2>3. CASE n = N + 1 \/ m = N + 1
    BY <1>1, <1>2, <2>1, <2>3
  <2> QED BY <1>2, <2>2, <2>3
<1> QED BY <1>3, <1>4, <1>5 DEF longer

\* What is left of a list is what is not dropped, and holds nothing twice that was there once.
LEMMA WithoutRange ==
    ASSUME NEW S, NEW list \in Seq(S), NEW dropped
    PROVE  /\ Range(Without(list, dropped)) = Range(list) \ dropped
           /\ IsInjective(list) => IsInjective(Without(list, dropped))
<1> DEFINE T == {l \in Seq(S) : /\ Range(Without(l, dropped)) = Range(l) \ dropped
                                /\ IsInjective(l) => IsInjective(Without(l, dropped))}
<1>1. <<>> \in T
  <2>1. Range(<<>>) = {} /\ IsInjective(<<>>)
    BY DEF Range, IsInjective
  <2> QED BY <2>1, WithoutEmpty, EmptySeq
<1>2. ASSUME NEW l \in Seq(S), NEW e \in S, l \in T
      PROVE  Append(l, e) \in T
  <2> DEFINE w == Without(l, dropped)
  <2>1. /\ Range(Append(l, e)) = Range(l) \cup {e}
        /\ IsInjective(Append(l, e)) <=> IsInjective(l) /\ e \notin Range(l)
    BY RangeOfAppend
  <2>2. Range(w) = Range(l) \ dropped /\ (IsInjective(l) => IsInjective(w))
    BY <1>2
  <2>3. Append(l, e) \in Seq(S)
    BY AppendProperties
  <2>4. CASE e \in dropped
    <3>1. Without(Append(l, e), dropped) = w
      BY <2>4, WithoutAppend
    <3> HIDE DEF w
    <3>2. Range(Append(l, e)) \ dropped = Range(w)
      BY <2>1, <2>2, <2>4
    <3> QED BY <2>1, <2>2, <2>3, <3>1, <3>2
  <2>5. CASE e \notin dropped
    <3>1. Without(Append(l, e), dropped) = Append(w, e)
      BY <2>5, WithoutAppend
    <3>2. w \in Seq(S \ dropped) /\ e \in S \ dropped
      BY <2>5, WithoutType
    <3> HIDE DEF w
    <3>3. /\ Range(Append(w, e)) = Range(w) \cup {e}
          /\ IsInjective(Append(w, e)) <=> IsInjective(w) /\ e \notin Range(w)
      BY <3>2, RangeOfAppend
    <3>4. Range(Append(l, e)) \ dropped = Range(Append(w, e))
      BY <2>1, <2>2, <2>5, <3>3
    <3> QED BY <2>1, <2>2, <2>3, <3>1, <3>3, <3>4
  <2> QED BY <2>4, <2>5
<1> HIDE DEF T
<1>3. Seq(S) \subseteq T
  BY <1>1, <1>2, ListInduction
<1> QED BY <1>3 DEF T

LEMMA RangeOfConcat ==
    ASSUME NEW S, NEW one \in Seq(S), NEW two \in Seq(S)
    PROVE  /\ one \o two \in Seq(S)
           /\ Range(one \o two) = Range(one) \cup Range(two)
           /\ IsInjective(one) /\ IsInjective(two) /\ Range(one) \cap Range(two) = {}
                 => IsInjective(one \o two)
<1> DEFINE both == one \o two
           N == Len(one)
           M == Len(two)
<1>1. /\ both \in Seq(S) /\ N \in Nat /\ M \in Nat
      /\ DOMAIN one = 1 .. N /\ DOMAIN two = 1 .. M /\ DOMAIN both = 1 .. N + M
      /\ \A i \in 1 .. N + M : both[i] = IF i <= N THEN one[i] ELSE two[i - N]
  BY ConcatProperties, LenProperties
<1> HIDE DEF both, N, M
<1>2. \A i \in 1 .. N : i \in 1 .. N + M /\ both[i] = one[i]
  BY <1>1
<1>3. \A k \in 1 .. M : k + N \in 1 .. N + M /\ both[k + N] = two[k]
  BY <1>1
<1>4. \A i \in 1 .. N + M : i \in 1 .. N \/ (i - N \in 1 .. M /\ i = (i - N) + N)
  BY <1>1
<1>5. Range(both) = Range(one) \cup Range(two)
  <2>1. \A i \in 1 .. N + M : both[i] \in Range(one) \cup Range(two)
    BY <1>1, <1>2, <1>3, <1>4 DEF Range
  <2>2. \A i \in 1 .. N : one[i] \in Range(both)
    BY <1>1, <1>2 DEF Range
  <2>3. \A k \in 1 .. M : two[k] \in Range(both)
    BY <1>1, <1>3 DEF Range
  <2> QED BY <1>1, <2>1, <2>2, <2>3 DEF Range
<1>6. ASSUME IsInjective(one), IsInjective(two), Range(one) \cap Range(two) = {},
             NEW i \in 1 .. N + M, NEW j \in 1 .. N + M, both[i] = both[j]
      PROVE  i = j
  <2>1. \A n \in 1 .. N, k \in 1 .. M : one[n] # two[k]
    BY <1>1, <1>6 DEF Range
  <2>2. CASE i \in 1 .. N /\ j \in 1 .. N
    BY <1>1, <1>2, <1>6, <2>2 DEF IsInjective
  <2>3. CASE i \notin 1 .. N /\ j \notin 1 .. N
    <3>1. i - N \in 1 .. M /\ j - N \in 1 .. M /\ two[i - N] = two[j - N]
      BY <1>1, <1>3, <1>4, <1>6, <2>3
    <3>2. i - N = j - N
      BY <1>1, <1>6, <3>1 DEF IsInjective
    <3> QED BY <1>1, <3>2
  <2>4. CASE i \in 1 .. N <=> j \notin 1 .. N
    BY <1>2, <1>3, <1>4, <1>6, <2>1, <2>4
  <2> QED BY <2>2, <2>3, <2>4
<1>7. IsInjective(one) /\ IsInjective(two) /\ Range(one) \cap Range(two) = {} => IsInjective(both)
  BY <1>1, <1>6 DEF IsInjective
<1> QED BY <1>1, <1>5, <1>7 DEF both
=============================================================================
