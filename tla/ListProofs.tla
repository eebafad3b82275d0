----------------------------- MODULE ListProofs -----------------------------
(***************************************************************************)
(* What the proofs need about numbers and lists: induction in a form that  *)
(* has no operator for a parameter, and what Kept returns.                 *)
(***************************************************************************)
EXTENDS Lists, WellFoundedInduction, FiniteSetTheorems, SequenceTheorems, TLAPS

\* Induction: a set of numbers that holds 0 and the successor of each of its
\* numbers holds them all.  (The rule of NaturalsInduction is about an operator
\* P(_); here the numbers for which it holds are a set.)
LEMMA Induction ==
    ASSUME NEW T \in SUBSET Nat, 0 \in T, \A n \in T : n + 1 \in T
    PROVE  T = Nat
<1> SUFFICES ASSUME Nat \ T # {} PROVE FALSE
    OBVIOUS
<1>1. PICK n \in Nat \ T : \A m \in Nat \ T : ~(<<m, n>> \in OpToRel(<, Nat))
    <2>1. IsWellFoundedOn(OpToRel(<, Nat), Nat) BY NatLessThanWellFounded
    <2>2. Nat \ T \subseteq Nat OBVIOUS
    <2> QED BY <2>1, <2>2, WFMin
<1>2. \A m \in Nat \ T : ~(m < n) BY <1>1 DEF OpToRel
<1>3. n # 0 /\ n - 1 \in Nat OBVIOUS
<1>4. n - 1 \in T BY <1>2, <1>3
<1> QED BY <1>3, <1>4

\* The same up to a bound.
LEMMA InductionUpTo ==
    ASSUME NEW n \in Nat, NEW T \in SUBSET (0 .. n), 0 \in T,
           \A k \in T : k < n => k + 1 \in T
    PROVE  T = 0 .. n
<1> DEFINE U == {k \in Nat : k <= n => k \in T}
<1>1. \A k \in U : k + 1 \in U OBVIOUS
<1>2. U \in SUBSET Nat /\ 0 \in U OBVIOUS
<1>3. U = Nat
    <2> HIDE DEF U
    <2> QED BY <1>1, <1>2, Induction
<1>4. \A k \in 0 .. n : k \in T BY <1>3
<1> QED BY <1>4

\* What is defined step by step, each value from the one before, is a function:
\* the fact that a recursive definition on 0 .. n rests on.
Iterates(f, n, S, base, step) ==
    f \in [0 .. n -> S] /\ f[0] = base /\ \A k \in 1 .. n : f[k] = step[<<k, f[k - 1]>>]

LEMMA Iteration ==
    ASSUME NEW S, NEW base \in S, NEW n \in Nat, NEW step \in [(1 .. n) \X S -> S]
    PROVE  \E f : Iterates(f, n, S, base, step)
<1> DEFINE Upto(m, f) == /\ f \in [0 .. m -> S] /\ f[0] = base
                         /\ \A k \in 1 .. m : f[k] = step[<<k, f[k - 1]>>]
           T == {m \in 0 .. n : \E f : Upto(m, f)}
<1>1. 0 \in T
    <2>1. PICK f : f = [k \in 0 .. 0 |-> base] OBVIOUS
    <2>2. Upto(0, f) BY <2>1
    <2> QED BY <2>2
<1>2. ASSUME NEW m \in T, m < n PROVE m + 1 \in T
    <2>1. m \in Nat /\ m + 1 \in 1 .. n /\ m + 1 \in 0 .. n BY <1>2
    <2>2. PICK f : Upto(m, f) OBVIOUS
    <2>3. PICK g : g = [k \in 0 .. m + 1 |-> IF k <= m THEN f[k] ELSE step[<<m + 1, f[m]>>]]
        OBVIOUS
    <2>4. f[m] \in S BY <2>1, <2>2
    <2>5. step[<<m + 1, f[m]>>] \in S BY <2>1, <2>4
    <2>6. \A k \in 0 .. m : g[k] = f[k] /\ g[k] \in S BY <2>1, <2>2, <2>3
    <2>7. g[m + 1] = step[<<m + 1, g[m]>>] /\ g[m + 1] \in S
        <3>1. m + 1 \in 0 .. m + 1 /\ ~(m + 1 <= m) /\ m \in 0 .. m BY <2>1
        <3>2. g[m + 1] = step[<<m + 1, f[m]>>] BY <2>3, <3>1
        <3> QED BY <2>5, <2>6, <3>1, <3>2
    <2>8. \A k \in 1 .. m + 1 : g[k] = step[<<k, g[k - 1]>>]
        <3>1. \A k \in 1 .. m + 1 : k \in 1 .. m \/ k = m + 1 BY <2>1
        <3>2. ASSUME NEW k \in 1 .. m PROVE g[k] = step[<<k, g[k - 1]>>]
            <4>1. k \in 0 .. m /\ k - 1 \in 0 .. m BY <2>1
            <4>2. f[k] = step[<<k, f[k - 1]>>] BY <2>2
            <4> QED BY <2>6, <4>1, <4>2
        <3>3. (m + 1) - 1 = m BY <2>1
        <3> QED BY <2>7, <3>1, <3>2, <3>3
    <2>9. g \in [0 .. m + 1 -> S]
        <3>1. \A k \in 0 .. m + 1 : k \in 0 .. m \/ k = m + 1 BY <2>1
        <3>2. \A k \in 0 .. m + 1 : g[k] \in S BY <2>6, <2>7, <3>1
        <3> QED BY <2>3, <3>2
    <2>10. g[0] = base BY <2>1, <2>2, <2>6
    <2>11. Upto(m + 1, g) BY <2>8, <2>9, <2>10
    <2> QED BY <2>1, <2>11
<1>3. T = 0 .. n
    <2>1. T \in SUBSET (0 .. n) OBVIOUS
    <2> HIDE DEF T
    <2> QED BY <1>1, <1>2, <2>1, InductionUpTo
<1>4. n \in 0 .. n OBVIOUS
<1>5. PICK f : Upto(n, f) BY <1>3, <1>4
<1> QED BY <1>5 DEF Iterates

\* The places of a list are finitely many, and so is every choice of them.
LEMMA PlacesAreFinite ==
    ASSUME NEW S, NEW list \in Seq(S), NEW keep \in SUBSET (1 .. Len(list))
    PROVE  IsFiniteSet(keep) /\ Cardinality(keep) \in 0 .. Len(list)
<1>1. Len(list) \in Nat BY LenProperties
<1>2. IsFiniteSet(1 .. Len(list)) /\ Cardinality(1 .. Len(list)) = Len(list)
    <2>1. \A a, b \in Int : /\ IsFiniteSet(a .. b)
                            /\ Cardinality(a .. b) = IF a > b THEN 0 ELSE b - a + 1
        BY FS_Interval
    <2>2. /\ IsFiniteSet(1 .. Len(list))
          /\ Cardinality(1 .. Len(list)) = IF 1 > Len(list) THEN 0 ELSE Len(list) - 1 + 1
        BY <1>1, <2>1
    <2> QED BY <1>1, <2>2
<1>3. IsFiniteSet(keep) /\ Cardinality(keep) <= Cardinality(1 .. Len(list))
    BY <1>2, FS_Subset
<1>4. Cardinality(keep) \in Nat BY <1>3, FS_CardinalityType
<1> QED BY <1>1, <1>2, <1>3, <1>4

LEMMA NextPlaces ==
    ASSUME NEW m \in Nat, NEW n \in Nat
    PROVE  Cardinality(m + 1 .. m + n) = n
<1>1. PICK low \in Int : low = m + 1 OBVIOUS
<1>2. PICK high \in Int : high = m + n OBVIOUS
<1>3. Cardinality(low .. high) = IF low > high THEN 0 ELSE high - low + 1 BY FS_Interval
<1>4. Cardinality(low .. high) = n BY <1>1, <1>2, <1>3
<1> QED BY <1>1, <1>2, <1>4

\* A place's rank is the number of chosen places up to it: the ranks are the
\* numbers from 1 to that of all places, each of them once, and in order.
Rank(keep, i) == Cardinality({j \in keep : j <= i})

LEMMA RanksAreOrdered ==
    ASSUME NEW n \in Nat, NEW keep \in SUBSET (1 .. n)
    PROVE  /\ \A i \in keep : Rank(keep, i) \in 1 .. Cardinality(keep)
           /\ \A i, j \in keep : i < j => Rank(keep, i) < Rank(keep, j)
<1>1. IsFiniteSet(1 .. n) BY FS_Interval
<1>2. IsFiniteSet(keep) /\ Cardinality(keep) \in Nat
    BY <1>1, FS_Subset, FS_CardinalityType
<1>3. \A i : /\ IsFiniteSet({j \in keep : j <= i})
             /\ Rank(keep, i) \in Nat /\ Rank(keep, i) <= Cardinality(keep)
    BY <1>2, FS_Subset, FS_CardinalityType DEF Rank
<1>4. ASSUME NEW i \in keep PROVE Rank(keep, i) # 0
    <2>1. i \in {j \in keep : j <= i} OBVIOUS
    <2> QED BY <1>3, <2>1, FS_EmptySet DEF Rank
<1>5. ASSUME NEW i \in keep, NEW k \in keep, i < k
      PROVE  Rank(keep, i) < Rank(keep, k)
    <2> DEFINE Low == {j \in keep : j <= i}
               High == {j \in keep : j <= k}
    <2>1. Low \subseteq High /\ k \in High /\ k \notin Low
        <3>1. i \in Nat /\ k \in Nat /\ \A j \in keep : j \in Nat OBVIOUS
        <3>2. ASSUME NEW j \in keep, j <= i PROVE j <= k BY <1>5, <3>1, <3>2
        <3>3. Low \subseteq High BY <3>2
        <3>4. k <= k /\ ~(k <= i) BY <1>5, <3>1
        <3> QED BY <3>3, <3>4
    <2>2. Cardinality(Low) <= Cardinality(High) /\ Cardinality(High) # Cardinality(Low)
        <3> HIDE DEF Low, High
        <3>1. IsFiniteSet(High) BY <1>3 DEF High
        <3> QED BY <2>1, <3>1, FS_Subset
    <2>3. Cardinality(Low) = Rank(keep, i) /\ Cardinality(High) = Rank(keep, k)
        BY DEF Rank
    <2>4. Rank(keep, i) \in Nat /\ Rank(keep, k) \in Nat BY <1>3
    <2>5. Rank(keep, i) <= Rank(keep, k) /\ Rank(keep, i) # Rank(keep, k)
        BY <2>2, <2>3
    <2> HIDE DEF Low, High
    <2> QED BY <2>4, <2>5
<1>6. ASSUME NEW i \in keep PROVE Rank(keep, i) \in 1 .. Cardinality(keep)
    <2>1. Rank(keep, i) \in Nat /\ Rank(keep, i) <= Cardinality(keep) BY <1>3
    <2> QED BY <1>2, <1>4, <2>1
<1> QED BY <1>5, <1>6

LEMMA EveryRankIsOnes ==
    ASSUME NEW n \in Nat, NEW keep \in SUBSET (1 .. n), NEW k \in 1 .. Cardinality(keep)
    PROVE  \E i \in keep : Rank(keep, i) = k
<1>1. IsFiniteSet(1 .. n) BY FS_Interval
<1>2. IsFiniteSet(keep) /\ Cardinality(keep) \in Nat
    BY <1>1, FS_Subset, FS_CardinalityType
<1> DEFINE f == [i \in keep |-> Rank(keep, i)]
           T == 1 .. Cardinality(keep)
<1>3. f \in [keep -> T] BY RanksAreOrdered
<1>4. \A i, j \in keep : f[i] = f[j] => i = j
    <2>1. ASSUME NEW i \in keep, NEW j \in keep, i # j PROVE f[i] # f[j]
        <3>1. i < j \/ j < i
            <4>1. i \in Nat /\ j \in Nat OBVIOUS
            <4> QED BY <2>1, <4>1
        <3>2. Rank(keep, i) < Rank(keep, j) \/ Rank(keep, j) < Rank(keep, i)
            BY <3>1, RanksAreOrdered
        <3>3. Rank(keep, i) \in Nat /\ Rank(keep, j) \in Nat
            <4>1. Rank(keep, i) \in 1 .. Cardinality(keep)
                  /\ Rank(keep, j) \in 1 .. Cardinality(keep)
                BY RanksAreOrdered
            <4> QED BY <1>2, <4>1
        <3>4. Rank(keep, i) # Rank(keep, j) BY <3>2, <3>3
        <3> QED BY <3>4
    <2> QED BY <2>1
<1>5. IsFiniteSet(T) /\ Cardinality(T) = Cardinality(keep) BY <1>2, FS_Interval
<1>6. f \in Surjection(keep, T)
    <2> HIDE DEF f, T
    <2>1. f \in Injection(keep, T) BY <1>3, <1>4 DEF Injection, IsInjective
    <2> QED BY <1>5, <2>1, FS_Injection
<1> QED BY <1>6 DEF Surjection
-----------------------------------------------------------------------------
\* Kept holds the entry of each place that is kept, at the place's rank.
THEOREM KeptIs ==
    ASSUME NEW S, NEW list \in Seq(S), NEW keep \in SUBSET (1 .. Len(list))
    PROVE  /\ Kept(list, keep) \in Seq(S)
           /\ Len(Kept(list, keep)) = Cardinality(keep)
           /\ Cardinality(keep) \in Nat
           /\ \A i \in keep : Rank(keep, i) \in 1 .. Cardinality(keep)
                             /\ Kept(list, keep)[Rank(keep, i)] = list[i]
           /\ \A k \in 1 .. Cardinality(keep) : \E i \in keep : Rank(keep, i) = k
<1>1. Len(list) \in Nat /\ \A i \in 1 .. Len(list) : list[i] \in S
    BY LenProperties, ElementOfSeq
<1>2. /\ \A i \in keep : Rank(keep, i) \in 1 .. Cardinality(keep)
      /\ \A i, j \in keep : i < j => Rank(keep, i) < Rank(keep, j)
    BY <1>1, RanksAreOrdered
<1>3. \A k \in 1 .. Cardinality(keep) : \E i \in keep : Rank(keep, i) = k
    BY <1>1, EveryRankIsOnes
<1>4. Cardinality(keep) \in Nat BY PlacesAreFinite
<1> DEFINE Place(k) == CHOOSE i \in keep : Rank(keep, i) = k
<1>5. Kept(list, keep) = [k \in 1 .. Cardinality(keep) |-> list[Place(k)]]
    BY DEF Kept, Rank
<1>6. \A k \in 1 .. Cardinality(keep) : Place(k) \in keep /\ Rank(keep, Place(k)) = k
    BY <1>3
<1>7. ASSUME NEW i \in keep PROVE Place(Rank(keep, i)) = i
    <2> DEFINE j == Place(Rank(keep, i))
    <2>1. j \in keep /\ Rank(keep, j) = Rank(keep, i) BY <1>2, <1>6
    <2> HIDE DEF j
    <2>2. i \in Nat /\ j \in Nat BY <2>1
    <2>3. Rank(keep, i) \in Nat BY <1>2, <1>4
    <2>4. ~(i < j) /\ ~(j < i) BY <1>2, <2>1, <2>3
    <2>5. i = j BY <2>2, <2>4
    <2> QED BY <2>5 DEF j
<1> HIDE DEF Place
<1>8. \A k \in 1 .. Cardinality(keep) : list[Place(k)] \in S BY <1>1, <1>6
<1>9. Kept(list, keep) \in Seq(S) /\ Len(Kept(list, keep)) = Cardinality(keep)
    BY <1>4, <1>5, <1>8
<1>10. \A i \in keep : Kept(list, keep)[Rank(keep, i)] = list[i]
    BY <1>2, <1>5, <1>7
<1> QED BY <1>2, <1>3, <1>4, <1>9, <1>10

\* What is in it is what was at the places.
LEMMA KeptHolds ==
    ASSUME NEW S, NEW list \in Seq(S), NEW keep \in SUBSET (1 .. Len(list))
    PROVE  {Kept(list, keep)[k] : k \in 1 .. Len(Kept(list, keep))}
                = {list[i] : i \in keep}
<1> DEFINE kept == Kept(list, keep)
<1>1. /\ Len(kept) = Cardinality(keep)
      /\ \A i \in keep : Rank(keep, i) \in 1 .. Cardinality(keep)
                        /\ kept[Rank(keep, i)] = list[i]
      /\ \A k \in 1 .. Cardinality(keep) : \E i \in keep : Rank(keep, i) = k
    BY KeptIs
<1> HIDE DEF kept
<1>2. \A i \in keep : list[i] \in {kept[k] : k \in 1 .. Len(kept)}
    BY <1>1
<1>3. \A k \in 1 .. Len(kept) : kept[k] \in {list[i] : i \in keep}
    <2> SUFFICES ASSUME NEW k \in 1 .. Len(kept) PROVE kept[k] \in {list[i] : i \in keep}
        OBVIOUS
    <2>1. PICK i \in keep : Rank(keep, i) = k BY <1>1
    <2> QED BY <1>1, <2>1
<1>4. {kept[k] : k \in 1 .. Len(kept)} \subseteq {list[i] : i \in keep} BY <1>3
<1>5. {list[i] : i \in keep} \subseteq {kept[k] : k \in 1 .. Len(kept)} BY <1>2
<1> QED BY <1>4, <1>5 DEF kept

\* The first is that of the lowest place.
LEMMA KeptStarts ==
    ASSUME NEW S, NEW list \in Seq(S), NEW keep \in SUBSET (1 .. Len(list)),
           NEW i \in keep, \A j \in keep : i <= j
    PROVE  Kept(list, keep) # <<>> /\ Head(Kept(list, keep)) = list[i]
<1>1. /\ Kept(list, keep) \in Seq(S)
      /\ Len(Kept(list, keep)) = Cardinality(keep) /\ Cardinality(keep) \in Nat
      /\ Rank(keep, i) \in 1 .. Cardinality(keep)
      /\ Kept(list, keep)[Rank(keep, i)] = list[i]
    BY KeptIs
<1>2. {j \in keep : j <= i} = {i}
    <2>1. \A j \in keep : j \in Nat /\ i \in Nat OBVIOUS
    <2>2. \A j \in keep : j <= i => j = i BY <2>1
    <2>3. i <= i BY <2>1
    <2> QED BY <2>2, <2>3
<1>3. Rank(keep, i) = 1 BY <1>2, FS_Singleton DEF Rank
<1>4. Kept(list, keep) # <<>> BY <1>1, <1>3
<1> QED BY <1>1, <1>3, <1>4

\* There is a lowest place, unless none is kept.
LEMMA KeptHeads ==
    ASSUME NEW S, NEW list \in Seq(S), NEW keep \in SUBSET (1 .. Len(list))
    PROVE  /\ keep = {} => Kept(list, keep) = <<>>
           /\ keep # {} =>
                /\ Kept(list, keep) # <<>>
                /\ \E i \in keep : /\ Head(Kept(list, keep)) = list[i]
                                  /\ \A j \in keep : i <= j
<1>1. /\ Kept(list, keep) \in Seq(S) /\ Len(Kept(list, keep)) = Cardinality(keep)
      /\ Cardinality(keep) \in Nat
      /\ \A i \in keep : Rank(keep, i) \in 1 .. Cardinality(keep)
      /\ \A k \in 1 .. Cardinality(keep) : \E i \in keep : Rank(keep, i) = k
    BY KeptIs, ZenonT(60)
<1>2. CASE keep = {}
    <2>1. Len(Kept(list, keep)) = 0 BY <1>1, <1>2, FS_EmptySet
    <2>2. \A seq \in Seq(S) : seq # <<>> => Len(seq) # 0 BY EmptySeq
    <2>3. Kept(list, keep) = <<>> BY <1>1, <2>1, <2>2
    <2> QED BY <1>2, <2>3
<1>3. CASE keep # {}
    <2>1. 1 \in 1 .. Cardinality(keep)
        <3>1. PICK j \in keep : TRUE BY <1>3
        <3>2. Rank(keep, j) \in 1 .. Cardinality(keep) BY <1>1
        <3> QED BY <1>1, <3>2
    <2>2. PICK i \in keep : Rank(keep, i) = 1 BY <1>1, <2>1
    <2>3. ASSUME NEW j \in keep PROVE i <= j
        <3>1. i \in Nat /\ j \in Nat OBVIOUS
        <3>2. ~(j < i)
            <4> SUFFICES ASSUME j < i PROVE FALSE
                OBVIOUS
            <4>1. Len(list) \in Nat BY LenProperties
            <4>2. Rank(keep, j) < Rank(keep, i) BY <4>1, RanksAreOrdered
            <4>3. Rank(keep, j) \in 1 .. Cardinality(keep) BY <1>1
            <4> QED BY <1>1, <2>2, <4>2, <4>3
        <3> QED BY <3>1, <3>2
    <2>4. Kept(list, keep) # <<>> /\ Head(Kept(list, keep)) = list[i]
        BY <2>3, KeptStarts
    <2> QED BY <1>3, <2>3, <2>4
<1> QED BY <1>2, <1>3

\* It holds an entry as often as the places do.
PlacesOf(list, x) == {i \in 1 .. Len(list) : list[i] = x}

LEMMA KeptCounts ==
    ASSUME NEW S, NEW list \in Seq(S), NEW keep \in SUBSET (1 .. Len(list)), NEW x
    PROVE  Cardinality(PlacesOf(Kept(list, keep), x)) = Cardinality(keep \cap PlacesOf(list, x))
<1> DEFINE kept == Kept(list, keep)
           P == {i \in keep : list[i] = x}
           K == {k \in 1 .. Len(kept) : kept[k] = x}
           f == [i \in P |-> Rank(keep, i)]
<1>1. /\ Len(kept) = Cardinality(keep) /\ Cardinality(keep) \in Nat
      /\ \A i \in keep : Rank(keep, i) \in 1 .. Cardinality(keep)
                        /\ kept[Rank(keep, i)] = list[i]
      /\ \A k \in 1 .. Cardinality(keep) : \E i \in keep : Rank(keep, i) = k
    BY KeptIs
<1>2. \A i, j \in keep : i < j => Rank(keep, i) < Rank(keep, j)
    <2>1. Len(list) \in Nat BY LenProperties
    <2> QED BY <2>1, RanksAreOrdered
<1>3. \A i, j \in keep : Rank(keep, i) = Rank(keep, j) => i = j
    <2> SUFFICES ASSUME NEW i \in keep, NEW j \in keep, Rank(keep, i) = Rank(keep, j)
                 PROVE  i = j
        OBVIOUS
    <2>1. Rank(keep, i) \in Nat /\ i \in Nat /\ j \in Nat BY <1>1
    <2>2. ~(i < j) /\ ~(j < i) BY <1>2, <2>1
    <2> QED BY <2>1, <2>2
<1> HIDE DEF kept
<1>4. f \in [P -> K] BY <1>1
<1>5. \A k \in K : \E i \in P : f[i] = k
    <2> SUFFICES ASSUME NEW k \in K PROVE \E i \in P : f[i] = k
        OBVIOUS
    <2>1. PICK i \in keep : Rank(keep, i) = k BY <1>1
    <2>2. i \in P BY <1>1, <2>1
    <2> QED BY <2>1, <2>2
<1>6. \A i, j \in P : f[i] = f[j] => i = j BY <1>3
<1> HIDE DEF f
<1>7. f \in Bijection(P, K)
    BY <1>4, <1>5, <1>6 DEF Bijection, Injection, IsInjective, Surjection
<1>8. IsFiniteSet(P)
    <2>1. IsFiniteSet(keep) BY PlacesAreFinite
    <2> QED BY <2>1, FS_Subset
<1>9. Cardinality(K) = Cardinality(P) BY <1>7, <1>8, FS_Bijection DEF ExistsBijection
<1>10. K = PlacesOf(Kept(list, keep), x) BY DEF kept, PlacesOf
<1>11. P = keep \cap PlacesOf(list, x) BY DEF PlacesOf
<1> QED BY <1>9, <1>10, <1>11
=============================================================================
