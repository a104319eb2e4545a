---------------------------- MODULE ConfigProofs ----------------------------
(***************************************************************************)
(* Proofs about ConfigCommands, for every limit on the list, every set of  *)
(* places and units, and every positive tolerance.                         *)
(*                                                                         *)
(* The invariant Inv is the conjunction of the three state properties, and *)
(* it is inductive as it stands because a command starts from a file that  *)
(* was loaded: CfgMaintains turns what Inv says of the file into Good and  *)
(* Tracks of the loaded record, one lemma per operation of config.c says   *)
(* that the operation keeps both, and SavesMaintain turns the result back  *)
(* into Inv of the new file.                                               *)
(***************************************************************************)
EXTENDS ConfigCommands, Functions, SequenceTheorems, FiniteSetTheorems,
        WellFoundedInduction, TLAPS

\* Dropping position i of a sequence keeps the elements before it and shifts
\* the ones after it (the vacated slot of config_remove).
LEMMA RemoveAtElements ==
    ASSUME NEW S, NEW s \in Seq(S), NEW i \in 1 .. Len(s)
    PROVE  /\ RemoveAt(s, i) \in Seq(S)
           /\ Len(RemoveAt(s, i)) = Len(s) - 1
           /\ \A k \in 1 .. Len(s) - 1 :
                RemoveAt(s, i)[k] = IF k < i THEN s[k] ELSE s[k + 1]
  <1> DEFINE a == SubSeq(s, 1, i - 1)
             b == SubSeq(s, i + 1, Len(s))
  <1>1. /\ a \in Seq(S)
        /\ Len(a) = i - 1
        /\ \A k \in 1 .. i - 1 : a[k] = s[k]
    OBVIOUS
  <1>2. /\ b \in Seq(S)
        /\ Len(b) = Len(s) - i
        /\ \A k \in 1 .. Len(s) - i : b[k] = s[i + k]
    OBVIOUS
  <1>3. RemoveAt(s, i) = a \o b
    BY DEF RemoveAt
  <1> HIDE DEF a, b
  <1>4. /\ a \o b \in Seq(S)
        /\ Len(a \o b) = Len(a) + Len(b)
        /\ \A k \in 1 .. Len(a) + Len(b) :
             (a \o b)[k] = IF k <= Len(a) THEN a[k] ELSE b[k - Len(a)]
    <2>1. a \in Seq(S) /\ b \in Seq(S)
      BY <1>1, <1>2
    <2> QED
      BY <2>1, ConcatProperties
  <1> QED
    BY <1>1, <1>2, <1>3, <1>4

\* A nonempty set of positions has a least element, which Min returns: the
\* searches of config.c stop at the first hit.
LEMMA MinOfPositions ==
    ASSUME NEW n \in Nat, NEW S \in SUBSET (1 .. n), S # {}
    PROVE  Min(S) \in S /\ \A k \in S : Min(S) <= k
  <1> DEFINE T == {1 .. m : m \in S}
  <1>1. T # {} /\ T \subseteq FiniteSubsetsOf(1 .. n)
    <2>1. \A m \in S : 1 .. m \in SUBSET (1 .. n)
      OBVIOUS
    <2>2. IsFiniteSet(1 .. n)
      BY FS_Interval
    <2>3. \A m \in S : 1 .. m \in FiniteSubsetsOf(1 .. n)
      BY <2>1, <2>2, FS_FiniteSubsetsOfFinite
    <2> QED
      BY <2>3
  <1>2. PICK x \in T : \A y \in T : ~(<<y, x>> \in StrictSubsetOrdering(1 .. n))
    <2> HIDE DEF T
    <2> QED
      BY <1>1, FS_StrictSubsetOrderingWellFounded, WFMin
  <1>3. PICK m \in S : x = 1 .. m
    OBVIOUS
  <1>4. ASSUME NEW k \in S, k < m
        PROVE  FALSE
    <2>1. 1 .. k \in T
      OBVIOUS
    <2>2. m \in 1 .. m /\ m \notin 1 .. k /\ 1 .. k \subseteq 1 .. m
      BY <1>4
    <2>3. 1 .. k \in SUBSET (1 .. n) /\ 1 .. m \in SUBSET (1 .. n)
      OBVIOUS
    <2> QED
      BY <1>2, <1>3, <2>1, <2>2, <2>3 DEF StrictSubsetOrdering
  <1>5. \A k \in S : m <= k
    BY <1>4
  <1> QED
    BY <1>5 DEF Min

\* A nonempty set of positions has a greatest element, which Max returns: the
\* last default of a file wins.
LEMMA MaxOfPositions ==
    ASSUME NEW n \in Nat, NEW S \in SUBSET (1 .. n), S # {}
    PROVE  Max(S) \in S /\ \A k \in S : k <= Max(S)
  <1> DEFINE T == {m .. n : m \in S}
  <1>1. T # {} /\ T \subseteq FiniteSubsetsOf(1 .. n)
    <2>1. \A m \in S : m .. n \in SUBSET (1 .. n)
      OBVIOUS
    <2>2. IsFiniteSet(1 .. n)
      BY FS_Interval
    <2>3. \A m \in S : m .. n \in FiniteSubsetsOf(1 .. n)
      BY <2>1, <2>2, FS_FiniteSubsetsOfFinite
    <2> QED
      BY <2>3
  <1>2. PICK x \in T : \A y \in T : ~(<<y, x>> \in StrictSubsetOrdering(1 .. n))
    <2> HIDE DEF T
    <2> QED
      BY <1>1, FS_StrictSubsetOrderingWellFounded, WFMin
  <1>3. PICK m \in S : x = m .. n
    OBVIOUS
  <1>4. ASSUME NEW k \in S, m < k
        PROVE  FALSE
    <2>1. k .. n \in T
      OBVIOUS
    <2>2. m \in m .. n /\ m \notin k .. n /\ k .. n \subseteq m .. n
      BY <1>4
    <2>3. k .. n \in SUBSET (1 .. n) /\ m .. n \in SUBSET (1 .. n)
      OBVIOUS
    <2> QED
      BY <1>2, <1>3, <2>1, <2>2, <2>3 DEF StrictSubsetOrdering
  <1>5. \A k \in S : k <= m
    BY <1>4
  <1> QED
    BY <1>5 DEF Max

----------------------------------------------------------------------------
(* Sets of positions in the order of the list                               *)

\* What Ascending promises of a sequence: its elements are those of the set,
\* each once, in ascending order.
Enumerates(s, positions) ==
    /\ s \in Seq(positions)
    /\ \A i, j \in 1 .. Len(s) : i < j => s[i] < s[j]
    /\ \A p \in positions : \E i \in 1 .. Len(s) : s[i] = p

\* The elements of an enumeration, with their types.
LEMMA EnumerationElements ==
    ASSUME NEW S \in SUBSET Int, NEW s, Enumerates(s, S)
    PROVE  /\ s \in Seq(S) /\ s \in Seq(Int) /\ Len(s) \in Nat
           /\ DOMAIN s = 1 .. Len(s)
           /\ \A i \in 1 .. Len(s) : s[i] \in S
           /\ \A i \in 1 .. Len(s) : s[i] \in Int
           /\ \A i, j \in 1 .. Len(s) : i < j => s[i] < s[j]
           /\ \A p \in S : \E i \in 1 .. Len(s) : s[i] = p
  <1>1. s \in Seq(S)
    BY DEF Enumerates
  <1>2. Len(s) \in Nat /\ DOMAIN s = 1 .. Len(s)
    BY <1>1
  <1>3. \A i \in 1 .. Len(s) : s[i] \in S
    BY <1>1
  <1>4. \A i \in 1 .. Len(s) : s[i] \in Int
    BY <1>3
  <1>5. s \in [1 .. Len(s) -> Int]
    BY <1>1, <1>2, <1>4
  <1>6. s \in Seq(Int)
    BY <1>2, <1>5
  <1>7. \A i, j \in 1 .. Len(s) : i < j => s[i] < s[j]
    BY Zenon DEF Enumerates
  <1>8. \A p \in S : \E i \in 1 .. Len(s) : s[i] = p
    BY Zenon DEF Enumerates
  <1> QED
    BY <1>1, <1>2, <1>3, <1>4, <1>6, <1>7, <1>8

\* Every set of positions can be listed in ascending order: of the sets that
\* cannot, a least one would be what is left of it and its last position.
LEMMA EnumerationExists ==
    ASSUME NEW n \in Nat, NEW S \in SUBSET (1 .. n)
    PROVE  \E s : Enumerates(s, S)
  <1> DEFINE B == {T \in SUBSET (1 .. n) : ~ \E s : Enumerates(s, T)}
  <1>1. SUFFICES ASSUME B # {} PROVE FALSE
    OBVIOUS
  <1>2. IsFiniteSet(1 .. n) /\ B \subseteq FiniteSubsetsOf(1 .. n)
    BY FS_Interval, FS_FiniteSubsetsOfFinite
  <1>3. PICK T \in B : \A U \in B : ~(<<U, T>> \in StrictSubsetOrdering(1 .. n))
    <2> HIDE DEF B
    <2> QED
      BY <1>1, <1>2, FS_StrictSubsetOrderingWellFounded, WFMin
  <1>4. T \in SUBSET (1 .. n) /\ ~ \E s : Enumerates(s, T)
    OBVIOUS
  <1>5. T # {}
    <2>1. Enumerates(<< >>, {})
      BY DEF Enumerates
    <2> QED
      BY <1>4, <2>1
  <1>6. PICK m \in T : \A k \in T : k <= m
    BY <1>4, <1>5, MaxOfPositions
  <1>7. PICK U : U = T \ {m}
    OBVIOUS
  <1>8. PICK s : Enumerates(s, U)
    <2>1. U \in SUBSET (1 .. n) /\ <<U, T>> \in StrictSubsetOrdering(1 .. n)
      BY <1>4, <1>6, <1>7 DEF StrictSubsetOrdering
    <2> QED
      BY <1>3, <2>1
  <1>9. PICK t : t = Append(s, m)
    OBVIOUS
  <1>10. U \in SUBSET Int /\ T \in SUBSET Int /\ m \in Int /\ U \subseteq T
    BY <1>4, <1>6, <1>7
  <1>11. /\ s \in Seq(T) /\ Len(s) \in Nat
         /\ \A i \in 1 .. Len(s) : s[i] \in U
    <2>1. /\ s \in Seq(U) /\ Len(s) \in Nat /\ DOMAIN s = 1 .. Len(s)
          /\ \A i \in 1 .. Len(s) : s[i] \in U
      BY <1>8, <1>10, EnumerationElements
    <2>2. \A i \in 1 .. Len(s) : s[i] \in T
      BY <1>10, <2>1
    <2>3. s = [i \in 1 .. Len(s) |-> s[i]]
      BY <2>1
    <2>4. s \in [1 .. Len(s) -> T]
      BY <2>2, <2>3
    <2> QED
      BY <2>1, <2>4
  <1>12. /\ t \in Seq(T) /\ Len(t) = Len(s) + 1
         /\ t[Len(s) + 1] = m
         /\ \A i \in 1 .. Len(s) : t[i] = s[i]
    BY <1>6, <1>9, <1>11
  <1>13. Enumerates(t, T)
    <2>1. ASSUME NEW i \in 1 .. Len(t), NEW j \in 1 .. Len(t), i < j
          PROVE  t[i] < t[j]
      <3>0. i \in 1 .. Len(s)
        BY <1>11, <1>12, <2>1
      <3>1. i \in 1 .. Len(s) /\ t[i] = s[i] /\ s[i] \in U /\ s[i] \in Int
        BY <1>10, <1>11, <1>12, <3>0
      <3>2. CASE j = Len(s) + 1
        <4>1. s[i] <= m /\ s[i] # m
          BY <1>6, <1>7, <3>1
        <4> QED
          BY <1>10, <1>12, <3>1, <3>2, <4>1
      <3>3. CASE j # Len(s) + 1
        <4>1. j \in 1 .. Len(s) /\ t[j] = s[j]
          BY <1>11, <1>12, <3>3
        <4> QED
          BY <1>8, <1>10, <2>1, <3>1, <4>1, EnumerationElements
      <3> QED
        BY <3>2, <3>3
    <2>2. ASSUME NEW p \in T
          PROVE  \E i \in 1 .. Len(t) : t[i] = p
      <3>1. CASE p = m
        BY <1>11, <1>12, <3>1
      <3>2. CASE p # m
        <4>1. PICK i \in 1 .. Len(s) : s[i] = p
          BY <1>7, <1>8, <1>10, <3>2, EnumerationElements
        <4> QED
          BY <1>11, <1>12, <4>1
      <3> QED
        BY <3>1, <3>2
    <2> QED
      BY <1>12, <2>1, <2>2 DEF Enumerates
  <1> QED
    BY <1>4, <1>13

\* Two ascending enumerations of a set are one: at the first position where
\* they differ, the lesser element would be missing from the other.
LEMMA EnumerationIsUnique ==
    ASSUME NEW S \in SUBSET Int, NEW s, Enumerates(s, S), NEW t, Enumerates(t, S)
    PROVE  s = t
  <1>1. /\ s \in Seq(Int) /\ Len(s) \in Nat
        /\ \A i \in 1 .. Len(s) : s[i] \in Int
        /\ \A i, j \in 1 .. Len(s) : i < j => s[i] < s[j]
        /\ t \in Seq(Int) /\ Len(t) \in Nat
        /\ \A i \in 1 .. Len(t) : t[i] \in Int
        /\ \A i, j \in 1 .. Len(t) : i < j => t[i] < t[j]
    BY EnumerationElements
  <1>2. /\ \A i \in 1 .. Len(s) : \E j \in 1 .. Len(t) : t[j] = s[i]
        /\ \A i \in 1 .. Len(t) : \E j \in 1 .. Len(s) : s[j] = t[i]
    <2>1. /\ \A i \in 1 .. Len(s) : s[i] \in S
          /\ \A p \in S : \E i \in 1 .. Len(s) : s[i] = p
      BY EnumerationElements
    <2>2. /\ \A i \in 1 .. Len(t) : t[i] \in S
          /\ \A p \in S : \E i \in 1 .. Len(t) : t[i] = p
      BY EnumerationElements
    <2> QED
      BY <2>1, <2>2
  <1>3. \A k \in 1 .. Len(s) : k <= Len(t) /\ s[k] = t[k]
    <2> DEFINE D == {k \in 1 .. Len(s) : ~(k <= Len(t) /\ s[k] = t[k])}
    <2>1. SUFFICES ASSUME D # {} PROVE FALSE
      OBVIOUS
    <2>2. PICK k \in D : \A j \in D : k <= j
      <3>1. D \in SUBSET (1 .. Len(s))
        OBVIOUS
      <3> HIDE DEF D
      <3> QED
        BY <1>1, <2>1, <3>1, MinOfPositions
    <2>3. /\ k \in 1 .. Len(s)
          /\ ~(k <= Len(t) /\ s[k] = t[k])
          /\ \A j \in 1 .. Len(s) : j < k => j <= Len(t) /\ s[j] = t[j]
      BY <1>1, <2>2
    <2> HIDE DEF D
    <2>4. PICK m \in 1 .. Len(t) : t[m] = s[k]
      BY <1>2, <2>3
    <2>5. m >= k
      <3>1. SUFFICES ASSUME m < k PROVE FALSE
        BY <1>1, <2>3
      <3>2. m \in 1 .. Len(s) /\ s[m] = s[k] /\ s[m] < s[k]
        BY <1>1, <2>3, <2>4, <3>1
      <3> QED
        BY <1>1, <3>2
    <2>6. k <= Len(t) /\ t[k] < s[k]
      BY <1>1, <2>3, <2>4, <2>5
    <2>7. PICK l \in 1 .. Len(s) : s[l] = t[k]
      BY <1>2, <2>3, <2>6
    <2>8. k \in 1 .. Len(t) /\ s[l] < s[k]
      BY <1>1, <2>3, <2>6, <2>7
    <2>9. CASE l < k
      <3>1. l \in 1 .. Len(t) /\ t[l] = t[k] /\ t[l] < t[k]
        BY <1>1, <2>3, <2>7, <2>8, <2>9
      <3> QED
        BY <1>1, <3>1
    <2>10. CASE l >= k
      <3>1. l = k \/ s[k] < s[l]
        BY <1>1, <2>3, <2>10
      <3> QED
        BY <1>1, <2>3, <2>8, <3>1
    <2> QED
      BY <1>1, <2>3, <2>9, <2>10
  <1>4. Len(t) <= Len(s)
    <2>1. SUFFICES ASSUME Len(s) < Len(t) PROVE FALSE
      BY <1>1
    <2>2. Len(s) + 1 \in 1 .. Len(t)
      BY <1>1, <2>1
    <2>3. PICK l \in 1 .. Len(s) : s[l] = t[Len(s) + 1]
      BY <1>2, <2>2
    <2>4. l \in 1 .. Len(t) /\ t[l] = s[l] /\ l < Len(s) + 1
      BY <1>1, <1>3, <2>1
    <2>5. t[l] < t[Len(s) + 1]
      BY <1>1, <2>2, <2>4
    <2> QED
      BY <1>1, <2>2, <2>3, <2>4, <2>5
  <1>5. Len(s) <= Len(t)
    BY <1>1, <1>3
  <1>6. Len(s) = Len(t) /\ \A k \in 1 .. Len(s) : s[k] = t[k]
    BY <1>1, <1>3, <1>4, <1>5
  <1> QED
    BY <1>1, <1>6, SeqEqual

\* Ascending lists a set of positions in ascending order, each once.
LEMMA AscendingEnumerates ==
    ASSUME NEW n \in Nat, NEW S \in SUBSET (1 .. n)
    PROVE  Enumerates(Ascending(S), S)
  <1>1. PICK s : Enumerates(s, S)
    BY EnumerationExists
  <1>2. S \in SUBSET Int
    OBVIOUS
  <1>3. /\ s \in Seq(S) /\ Len(s) \in Nat /\ DOMAIN s = 1 .. Len(s)
        /\ \A i \in 1 .. Len(s) : s[i] \in S
        /\ \A i \in 1 .. Len(s) : s[i] \in Int
        /\ \A i, j \in 1 .. Len(s) : i < j => s[i] < s[j]
        /\ \A p \in S : \E i \in 1 .. Len(s) : s[i] = p
    BY <1>1, <1>2, EnumerationElements
  <1>4. \A i, j \in 1 .. Len(s) : i # j => s[i] # s[j]
    BY <1>3
  <1>5. s \in Bijection(1 .. Len(s), S)
    BY <1>3, <1>4 DEF Bijection, Injection, Surjection, IsInjective
  <1>6. IsFiniteSet(S) /\ Cardinality(S) = Len(s)
    BY <1>3, <1>5, FS_CountingElements, FS_NatBijection DEF ExistsBijection
  <1>7. s \in SetToSeqs(S)
    BY <1>3, <1>4, <1>6 DEF SetToSeqs
  <1>8. PICK a : a = Ascending(S)
    OBVIOUS
  <1>9. a \in SetToSeqs(S) /\ \A i, j \in DOMAIN a : i < j => a[i] < a[j]
    BY <1>3, <1>7, <1>8 DEF Ascending
  <1>10. a \in [1 .. Len(s) -> S] /\ \A i, j \in 1 .. Len(s) : i # j => a[i] # a[j]
    BY <1>6, <1>9 DEF SetToSeqs
  <1>11. a \in Surjection(1 .. Len(s), S)
    <2>1. a \in Injection(1 .. Len(s), S)
      BY <1>10 DEF Injection, IsInjective
    <2>2. Cardinality(1 .. Len(s)) = Cardinality(S)
      <3>1. Cardinality(1 .. Len(s)) = IF 1 > Len(s) THEN 0 ELSE Len(s) - 1 + 1
        BY <1>3, FS_Interval
      <3> QED
        BY <1>3, <1>6, <3>1
    <2> QED
      BY <1>6, <2>1, <2>2, FS_Injection
  <1>12. a \in Seq(S) /\ Len(a) = Len(s) /\ DOMAIN a = 1 .. Len(a)
    BY <1>3, <1>10
  <1>13. \A p \in S : \E i \in 1 .. Len(a) : a[i] = p
    BY <1>11, <1>12 DEF Surjection
  <1> QED
    BY <1>8, <1>9, <1>12, <1>13 DEF Enumerates

\* An ascending enumeration of a set of positions is what Ascending returns.
LEMMA AscendingIs ==
    ASSUME NEW n \in Nat, NEW S \in SUBSET (1 .. n), NEW s, Enumerates(s, S)
    PROVE  Ascending(S) = s
  <1>1. S \in SUBSET Int
    OBVIOUS
  <1> QED
    BY <1>1, AscendingEnumerates, EnumerationIsUnique

----------------------------------------------------------------------------
(* Rounding                                                                *)

\* The quotient of a division, by its two bounds.
LEMMA QuotientIs ==
    ASSUME NEW a \in Int, NEW b \in Nat \ {0}, NEW q \in Int,
           q * b <= a, a < q * b + b
    PROVE  a \div b = q
  <1>1. PICK d \in Int : d = a \div b
    OBVIOUS
  <1>2. d * b <= a /\ a < d * b + b
    BY <1>1
  <1>3. CASE d < q
    <2>1. (d + 1) * b <= q * b
      BY <1>3
    <2>2. (d + 1) * b = d * b + b
      OBVIOUS
    <2> QED
      BY <1>2, <2>1, <2>2
  <1>4. CASE q < d
    <2>1. (q + 1) * b <= d * b
      BY <1>4
    <2>2. (q + 1) * b = q * b + b
      OBVIOUS
    <2> QED
      BY <1>2, <2>1, <2>2
  <1> QED
    BY <1>1, <1>3, <1>4

\* What is a multiple of the precision of a file stays what it is when it is
\* saved once more (round_coord).
LEMMA RoundCoordTwice ==
    ASSUME NEW place \in Int
    PROVE  /\ RoundCoord(place) \in Int
           /\ RoundCoord(RoundCoord(place)) = RoundCoord(place)
  <1> DEFINE nearest(n) == Grid * ((2 * n + Grid) \div (2 * Grid))
  <1>1. Grid \in Nat \ {0}
    BY GridAssumption
  <1>2. ASSUME NEW n \in Nat
        PROVE  nearest(n) \in Nat /\ nearest(nearest(n)) = nearest(n)
    <2>1. PICK m \in Nat : m = (2 * n + Grid) \div (2 * Grid)
      BY <1>1
    <2>2. PICK b \in Nat \ {0} : b = 2 * Grid
      BY <1>1
    <2>3. PICK k \in Nat : k = Grid * m
      BY <1>1
    <2>4. m * b = 2 * k
      BY <1>1, <2>2, <2>3
    <2>5. m * b <= 2 * k + Grid /\ 2 * k + Grid < m * b + b
      BY <1>1, <2>2, <2>4
    <2>6. (2 * k + Grid) \div b = m
      BY <1>1, <2>5, QuotientIs
    <2> QED
      BY <2>1, <2>2, <2>3, <2>6
  <1> HIDE DEF nearest
  <1>3. \A p \in Int : RoundCoord(p) = IF p < 0 THEN -nearest(-p) ELSE nearest(p)
    BY DEF RoundCoord, nearest
  <1>4. CASE place >= 0
    <2>1. RoundCoord(place) = nearest(place) /\ nearest(place) \in Nat
      BY <1>2, <1>3, <1>4
    <2> QED
      BY <1>2, <1>3, <1>4, <2>1
  <1>5. CASE place < 0
    <2>1. PICK n \in Nat : n = -place
      BY <1>5
    <2>2. RoundCoord(place) = -nearest(n)
      BY <1>3, <1>5, <2>1
    <2>3. PICK m \in Nat : m = nearest(n) /\ nearest(m) = m
      BY <1>2
    <2>4. nearest(0) = 0
      <3>1. (2 * 0 + Grid) \div (2 * Grid) = 0
        BY <1>1
      <3> QED
        BY <1>1, <3>1 DEF nearest
    <2>5. CASE m = 0
      BY <1>3, <2>2, <2>3, <2>4, <2>5
    <2>6. CASE m # 0
      <3>1. -m < 0 /\ -(-m) = m /\ -m \in Int
        BY <2>6
      <3> QED
        BY <1>3, <2>2, <2>3, <3>1
    <2> QED
      BY <2>5, <2>6
  <1> QED
    BY <1>4, <1>5

----------------------------------------------------------------------------

\* Two places that are the same, and still are once both have been saved.
Close(p, q) == /\ p - q < Tolerance
               /\ q - p < Tolerance
               /\ RoundCoord(p) - RoundCoord(q) < Tolerance
               /\ RoundCoord(q) - RoundCoord(p) < Tolerance

ActiveIsClose(cfg) == cfg.active # None =>
    /\ InRange(cfg, cfg.active)
    /\ Close(cfg.locs[cfg.active].place, cfg.current.place)

\* What every operation keeps: the record is well formed, ...
WellFormed(cfg) == /\ OneDefault(cfg)
                   /\ Len(cfg.locs) <= MaxLocations
                   /\ cfg.active = None \/ InRange(cfg, cfg.active)

\* ... and the active index names the location shown, before and after saving.
Tracks(cfg) == /\ ActiveIsClose(cfg)
               /\ cfg.active # None => ~cfg.geo

\* The entries of the list are what a file can hold.
Gridded(cfg) == \A i \in 1 .. Len(cfg.locs) : ~Rough(cfg.locs[i].place)

Good(cfg) == cfg \in Config /\ WellFormed(cfg)

\* Tracking is what the property asks, and more.
LEMMA TracksMeans ==
    ASSUME NEW cfg, Tracks(cfg)
    PROVE  ActiveIsCurrent(cfg) /\ (cfg.active # None => ~cfg.geo)
  BY DEF Tracks, ActiveIsClose, ActiveIsCurrent, Close, SamePlace

\* The default index is a position of the list or None.
LEMMA DefaultIndexRange ==
    ASSUME NEW cfg \in Config
    PROVE  ConfigDefaultIndex(cfg) \in 0 .. Len(cfg.locs)
  <1> DEFINE I == {i \in 1 .. Len(cfg.locs) : cfg.locs[i].isDefault}
  <1>1. I # {} => Min(I) \in I
    <2>1. Len(cfg.locs) \in Nat /\ I \in SUBSET (1 .. Len(cfg.locs))
      BY DEF Config
    <2> HIDE DEF I
    <2> QED
      BY <2>1, MinOfPositions
  <1> QED
    BY <1>1 DEF ConfigDefaultIndex, SelectInSeq, Config

\* The match of current is a position of the list whose place is current's,
\* or None.
LEMMA MatchRange ==
    ASSUME NEW cfg \in Config
    PROVE  /\ ConfigMatchCurrent(cfg) \in 0 .. Len(cfg.locs)
           /\ ConfigMatchCurrent(cfg) # None =>
                SamePlace(cfg.locs[ConfigMatchCurrent(cfg)], cfg.current)
  <1> DEFINE I == {i \in 1 .. Len(cfg.locs) : SamePlace(cfg.locs[i], cfg.current)}
  <1>1. I # {} => Min(I) \in I
    <2>1. Len(cfg.locs) \in Nat /\ I \in SUBSET (1 .. Len(cfg.locs))
      BY DEF Config
    <2> HIDE DEF I
    <2> QED
      BY <2>1, MinOfPositions
  <1> QED
    BY <1>1 DEF ConfigMatchCurrent, SelectInSeq, Config, InRange, None

\* Without a last default, no entry is a default.
LEMMA LastDefaultRange ==
    ASSUME NEW locs \in Seq(Location)
    PROVE  LastDefault(locs) = 0 => \A i \in 1 .. Len(locs) : ~locs[i].isDefault
  <1> DEFINE I == {i \in 1 .. Len(locs) : locs[i].isDefault}
  <1>1. I # {} => Max(I) \in I
    <2>1. Len(locs) \in Nat /\ I \in SUBSET (1 .. Len(locs))
      OBVIOUS
    <2> HIDE DEF I
    <2> QED
      BY <2>1, MaxOfPositions
  <1> QED
    BY <1>1 DEF LastDefault, SelectLastInSeq

\* Marking a default changes the flags only, and leaves at most one.
LEMMA MarkElements ==
    ASSUME NEW locs \in Seq(Location), NEW i
    PROVE  /\ Mark(locs, i) \in Seq(Location)
           /\ Len(Mark(locs, i)) = Len(locs)
           /\ \A j \in 1 .. Len(locs) :
                /\ Mark(locs, i)[j].place = locs[j].place
                /\ Mark(locs, i)[j].units = locs[j].units
                /\ Mark(locs, i)[j].isDefault <=> (j = i)
  <1>1. Mark(locs, i) = [j \in 1 .. Len(locs) |->
                           [locs[j] EXCEPT !.isDefault = (j = i)]]
    BY DEF Mark
  <1>2. ASSUME NEW j \in 1 .. Len(locs)
        PROVE  [locs[j] EXCEPT !.isDefault = (j = i)] \in Location
    <2>1. locs[j] \in Location
      OBVIOUS
    <2> QED
      BY <2>1, Zenon DEF Location
  <1> QED
    BY <1>1, <1>2 DEF Location

----------------------------------------------------------------------------
(* What reading a file yields                                              *)

\* A loaded list is a prefix of the file's, with at most one default; nothing
\* else changes but an active index outside the list.
LEMMA LoadedElements ==
    ASSUME NEW f \in Config
    PROVE  LET n == IF Len(f.locs) < MaxLocations THEN Len(f.locs) ELSE MaxLocations
           IN /\ Loaded(f).locs \in Seq(Location)
              /\ Len(Loaded(f).locs) = n
              /\ \A j \in 1 .. n : Loaded(f).locs[j].place = f.locs[j].place
              /\ OneDefault(Loaded(f))
              /\ Loaded(f) = [f EXCEPT !.locs = Loaded(f).locs,
                               !.active = IF f.active \in 1 .. n THEN f.active
                                          ELSE None]
  <1> DEFINE n == IF Len(f.locs) < MaxLocations THEN Len(f.locs) ELSE MaxLocations
             kept == SubSeq(f.locs, 1, n)
             locs == IF LastDefault(kept) = 0 THEN kept ELSE Mark(kept, LastDefault(kept))
  <1>1. f.locs \in Seq(Location) /\ n \in 0 .. Len(f.locs)
    BY LimitAssumption DEF Config
  <1>2. /\ kept \in Seq(Location)
        /\ Len(kept) = n
        /\ \A j \in 1 .. n : kept[j] = f.locs[j]
    <2> HIDE DEF n
    <2> QED
      BY <1>1
  <1>3. Loaded(f) = [f EXCEPT !.locs = locs,
                              !.active = IF f.active \in 1 .. n THEN f.active
                                         ELSE None]
    BY <1>2 DEF Loaded
  <1>4. Loaded(f).locs = locs
    BY <1>3 DEF Config
  <1> HIDE DEF n, kept
  <1>5. /\ locs \in Seq(Location)
        /\ Len(locs) = n
        /\ \A j \in 1 .. n : locs[j].place = f.locs[j].place
    BY <1>2, MarkElements
  <1>6. \A i, j \in 1 .. n : locs[i].isDefault /\ locs[j].isDefault => i = j
    <2>1. CASE LastDefault(kept) = 0
      BY <2>1, <1>2, LastDefaultRange
    <2>2. CASE LastDefault(kept) # 0
      BY <2>2, <1>2, MarkElements
    <2> QED
      BY <2>1, <2>2
  <1> QED
    BY <1>3, <1>4, <1>5, <1>6 DEF n, OneDefault

\* parse_v3 yields a well-formed record from any record in the file.
LEMMA LoadedIsGood ==
    ASSUME NEW f \in Config
    PROVE  Good(Loaded(f))
  <1> DEFINE n == IF Len(f.locs) < MaxLocations THEN Len(f.locs) ELSE MaxLocations
  <1>1. n \in Nat /\ n <= MaxLocations
    BY LimitAssumption DEF Config
  <1>2. Loaded(f) \in Config
    <2>1. /\ Loaded(f).locs \in Seq(Location)
          /\ Loaded(f) = [f EXCEPT !.locs = Loaded(f).locs,
                           !.active = IF f.active \in 1 .. n THEN f.active
                                      ELSE None]
      BY LoadedElements
    <2>2. (IF f.active \in 1 .. n THEN f.active ELSE None) \in Nat
      BY DEF None
    <2> HIDE DEF n
    <2> QED
      BY <2>1, <2>2 DEF Config
  <1> QED
    BY <1>1, <1>2, LoadedElements DEF Good, WellFormed, InRange, Config

\* Loading a well-formed file does not disturb its active index.
LEMMA LoadedTracks ==
    ASSUME NEW f \in Config, WellFormed(f)
    PROVE  /\ Tracks(f) => Tracks(Loaded(f))
           /\ Gridded(f) => Gridded(Loaded(f))
  <1>1. PICK d : d = Loaded(f)
    OBVIOUS
  <1>2. /\ Len(d.locs) = Len(f.locs)
        /\ \A j \in 1 .. Len(f.locs) : d.locs[j].place = f.locs[j].place
        /\ d.active = f.active /\ d.geo = f.geo /\ d.current = f.current
    <2>1. PICK n : n = Len(f.locs)
      OBVIOUS
    <2>2. n \in Nat /\ n <= MaxLocations /\ f.active \in 0 .. n
      BY <2>1 DEF WellFormed, InRange, None, Config
    <2>3. n = IF n < MaxLocations THEN n ELSE MaxLocations
      BY <2>2, LimitAssumption
    <2>4. f.active = IF f.active \in 1 .. n THEN f.active ELSE None
      BY <2>2 DEF None
    <2>5. PICK locs : locs = d.locs
      OBVIOUS
    <2>6. /\ Len(locs) = n
          /\ \A j \in 1 .. n : locs[j].place = f.locs[j].place
          /\ d = [f EXCEPT !.locs = locs, !.active = f.active]
      BY <1>1, <2>1, <2>3, <2>4, <2>5, LoadedElements
    <2> QED
      BY <2>1, <2>5, <2>6 DEF Config
  <1> QED
    BY <1>1, <1>2 DEF Tracks, Gridded, ActiveIsClose, InRange

\* A written list is the list of the record, with rounded places; units,
\* flags, the active index and the geolocation settings are written as they are.
LEMMA SavedElements ==
    ASSUME NEW cfg \in Config
    PROVE  /\ Saved(cfg) \in Config
           /\ Len(Saved(cfg).locs) = Len(cfg.locs)
           /\ \A i \in 1 .. Len(cfg.locs) :
                /\ Saved(cfg).locs[i].place = RoundCoord(cfg.locs[i].place)
                /\ Saved(cfg).locs[i].units = cfg.locs[i].units
                /\ Saved(cfg).locs[i].isDefault = cfg.locs[i].isDefault
           /\ Saved(cfg).current.place = RoundCoord(cfg.current.place)
           /\ Saved(cfg).current.units = cfg.current.units
           /\ Saved(cfg).active = cfg.active
           /\ Saved(cfg).geo = cfg.geo
           /\ Saved(cfg).geoSlot = cfg.geoSlot
  <1>1. cfg.locs \in Seq(Location) /\ cfg.current \in Location
    BY DEF Config
  <1>2. ASSUME NEW loc \in Location
        PROVE  /\ SavedLocation(loc) \in Location
               /\ SavedLocation(loc).place = RoundCoord(loc.place)
               /\ SavedLocation(loc).units = loc.units
               /\ SavedLocation(loc).isDefault = loc.isDefault
    <2>1. PICK p : p = RoundCoord(loc.place)
      OBVIOUS
    <2>2. p \in Place
      BY <2>1, GridAssumption DEF Location
    <2>3. SavedLocation(loc) = [loc EXCEPT !.place = p]
      BY <2>1 DEF SavedLocation
    <2> QED
      BY <2>1, <2>2, <2>3 DEF Location
  <1>3. PICK locs : locs = [i \in 1 .. Len(cfg.locs) |-> SavedLocation(cfg.locs[i])]
    OBVIOUS
  <1>4. /\ locs \in Seq(Location)
        /\ Len(locs) = Len(cfg.locs)
        /\ \A i \in 1 .. Len(cfg.locs) : locs[i] = SavedLocation(cfg.locs[i])
    BY <1>1, <1>2, <1>3
  <1>5. \A i \in 1 .. Len(cfg.locs) : cfg.locs[i] \in Location
    BY <1>1
  <1>6. PICK here : here = SavedLocation(cfg.current)
    OBVIOUS
  <1>7. PICK current : current = AsCurrent(here)
    OBVIOUS
  <1>8. /\ here \in Location
        /\ here.place = RoundCoord(cfg.current.place)
        /\ here.units = cfg.current.units
    BY <1>1, <1>2, <1>6
  <1>9. /\ current \in Location
        /\ current.place = here.place
        /\ current.units = here.units
    BY <1>7, <1>8 DEF AsCurrent, Location
  <1>10. Saved(cfg) = [cfg EXCEPT !.current = current, !.locs = locs]
    <2>1. DOMAIN cfg.locs = 1 .. Len(cfg.locs)
      BY <1>1
    <2>2. locs = [i \in DOMAIN cfg.locs |-> SavedLocation(cfg.locs[i])]
      BY <1>3, <2>1
    <2> QED
      BY <1>6, <1>7, <2>2, Zenon DEF Saved
  <1>11. /\ Saved(cfg) \in Config
         /\ Saved(cfg).current = current /\ Saved(cfg).locs = locs
         /\ Saved(cfg).active = cfg.active
         /\ Saved(cfg).geo = cfg.geo
         /\ Saved(cfg).geoSlot = cfg.geoSlot
    BY <1>4, <1>9, <1>10 DEF Config
  <1>12. \A i \in 1 .. Len(cfg.locs) :
            /\ locs[i].place = RoundCoord(cfg.locs[i].place)
            /\ locs[i].units = cfg.locs[i].units
            /\ locs[i].isDefault = cfg.locs[i].isDefault
    BY <1>2, <1>4, <1>5
  <1> QED
    BY <1>4, <1>8, <1>9, <1>11, <1>12

\* Saving keeps the record well formed and the active index on the location
\* shown, and leaves in the file only what a file can hold.
LEMMA SavedMaintains ==
    ASSUME NEW cfg, Good(cfg)
    PROVE  /\ Good(Saved(cfg))
           /\ Gridded(Saved(cfg))
           /\ Tracks(cfg) => Tracks(Saved(cfg))
  <1>1. PICK f : f = Saved(cfg)
    OBVIOUS
  <1>2. /\ cfg \in Config /\ cfg.locs \in Seq(Location)
        /\ cfg.current \in Location
    BY DEF Good, Config
  <1>3. \A loc \in Location : loc.place \in Int
    BY PlaceAssumption DEF Location
  <1>4. cfg.current.place \in Int /\ \A i \in 1 .. Len(cfg.locs) : cfg.locs[i].place \in Int
    BY <1>2, <1>3
  <1>5. /\ f \in Config /\ Len(f.locs) = Len(cfg.locs)
        /\ f.active = cfg.active /\ f.geo = cfg.geo
        /\ f.current.place = RoundCoord(cfg.current.place)
        /\ \A i \in 1 .. Len(cfg.locs) :
             /\ f.locs[i].place = RoundCoord(cfg.locs[i].place)
             /\ f.locs[i].isDefault = cfg.locs[i].isDefault
    BY <1>1, <1>2, SavedElements
  <1>6. Good(f)
    BY <1>5 DEF Good, WellFormed, OneDefault, InRange
  <1>7. Gridded(f)
    BY <1>4, <1>5, RoundCoordTwice DEF Gridded, Rough
  <1>8. Tracks(cfg) => Tracks(f)
    <2>1. ASSUME NEW p \in Int, NEW q \in Int, Close(p, q)
          PROVE  Close(RoundCoord(p), RoundCoord(q))
      BY <2>1, RoundCoordTwice DEF Close
    <2> QED
      BY <1>4, <1>5, <2>1 DEF Tracks, ActiveIsClose, InRange
  <1> QED
    BY <1>1, <1>6, <1>7, <1>8

----------------------------------------------------------------------------
(* What each operation maintains                                           *)

\* config_add of a list with room keeps the record well formed.
LEMMA AddMaintains ==
    ASSUME NEW cfg, Good(cfg), ~Full(cfg), NEW loc \in Location
    PROVE  /\ Good(ConfigAdd(cfg, loc))
           /\ Len(ConfigAdd(cfg, loc).locs) = Len(cfg.locs) + 1
           /\ Tracks(cfg) => Tracks(ConfigAdd(cfg, loc))
           /\ Gridded(cfg) /\ ~Rough(loc.place) => Gridded(ConfigAdd(cfg, loc))
  <1> DEFINE longer == Append(cfg.locs, loc)
             n == Len(cfg.locs)
             locs == IF loc.isDefault THEN Mark(longer, n + 1) ELSE longer
  <1>1. /\ longer \in Seq(Location)
        /\ Len(longer) = n + 1
        /\ \A j \in 1 .. n : longer[j] = cfg.locs[j]
        /\ longer[n + 1] = loc
        /\ n \in Nat
    BY DEF Good, Config
  <1>2. ConfigAdd(cfg, loc) = [cfg EXCEPT !.locs = locs]
    BY <1>1 DEF ConfigAdd
  <1> HIDE DEF longer, n
  <1>3. /\ locs \in Seq(Location)
        /\ Len(locs) = n + 1
        /\ \A j \in 1 .. n : locs[j].place = cfg.locs[j].place
        /\ locs[n + 1].place = loc.place
    BY <1>1, MarkElements
  <1>4. \A i, j \in 1 .. n + 1 : locs[i].isDefault /\ locs[j].isDefault => i = j
    <2>1. CASE loc.isDefault
      BY <2>1, <1>1, MarkElements
    <2>2. CASE ~loc.isDefault
      <3>1. locs = longer
        BY <2>2
      <3>2. \A i, j \in 1 .. n : cfg.locs[i].isDefault /\ cfg.locs[j].isDefault => i = j
        BY DEF Good, WellFormed, OneDefault, n
      <3> HIDE DEF locs
      <3>3. \A i \in 1 .. n + 1 : locs[i].isDefault => i \in 1 .. n
        BY <2>2, <1>1, <3>1
      <3>4. \A i \in 1 .. n : locs[i] = cfg.locs[i]
        BY <1>1, <3>1
      <3> QED
        BY <3>2, <3>3, <3>4
    <2> QED
      BY <2>1, <2>2
  <1> HIDE DEF locs
  <1>5. ConfigAdd(cfg, loc) \in Config
    BY <1>2, <1>3 DEF Good, Config
  <1>6. ConfigAdd(cfg, loc).locs = locs
    BY <1>2 DEF Good, Config
  <1>7. Gridded(cfg) /\ ~Rough(loc.place) => Gridded(ConfigAdd(cfg, loc))
    BY <1>1, <1>3, <1>6 DEF Gridded, Rough, n
  <1> QED
    BY <1>1, <1>2, <1>3, <1>4, <1>5, <1>7, LimitAssumption
       DEF Good, WellFormed, OneDefault, Full, Tracks, ActiveIsClose, InRange,
           Config, n

\* config_remove keeps the record well formed, and the active index on its
\* location.
LEMMA RemoveMaintains ==
    ASSUME NEW cfg, Good(cfg), NEW i \in 1 .. Len(cfg.locs)
    PROVE  /\ Good(ConfigRemove(cfg, i))
           /\ Len(ConfigRemove(cfg, i).locs) = Len(cfg.locs) - 1
           /\ Tracks(cfg) => Tracks(ConfigRemove(cfg, i))
  <1> DEFINE locs == RemoveAt(cfg.locs, i)
             n == Len(cfg.locs)
             active == AfterRemoval(cfg.active, i)
  <1>1. /\ locs \in Seq(Location)
        /\ Len(locs) = n - 1
        /\ \A k \in 1 .. n - 1 :
             locs[k] = IF k < i THEN cfg.locs[k] ELSE cfg.locs[k + 1]
        /\ n \in Nat
    <2>1. cfg.locs \in Seq(Location)
      BY DEF Good, Config
    <2> QED
      BY <2>1, RemoveAtElements
  <1> HIDE DEF locs
  <1>2. /\ n \in Nat /\ i \in 1 .. n
        /\ cfg.active \in 0 .. n
        /\ \A j, k \in 1 .. n : cfg.locs[j].isDefault /\ cfg.locs[k].isDefault => j = k
        /\ n <= MaxLocations
        /\ cfg \in Config
    BY <1>1 DEF Good, WellFormed, OneDefault, InRange, None, Config
  <1>3. ConfigRemove(cfg, i) = [cfg EXCEPT !.locs = locs, !.active = active]
    BY DEF ConfigRemove, locs
  <1> HIDE DEF n
  <1>4. /\ active \in 0 .. n - 1
        /\ active # None => /\ cfg.active # None
                            /\ locs[active] = cfg.locs[cfg.active]
    <2>1. CASE cfg.active = i
      BY <1>2, <2>1 DEF AfterRemoval, None
    <2>2. CASE cfg.active > i
      <3>1. active = cfg.active - 1 /\ active \in 1 .. n - 1 /\ ~(active < i)
        BY <1>2, <2>2 DEF AfterRemoval
      <3> HIDE DEF active
      <3>2. locs[active] = cfg.locs[active + 1]
        BY <1>1, <3>1
      <3>3. /\ active \in 0 .. n - 1
            /\ active + 1 = cfg.active
            /\ cfg.active # None
        BY <1>2, <3>1 DEF None
      <3> QED
        BY <3>2, <3>3
    <2>3. CASE cfg.active < i
      <3>1. active = cfg.active /\ active \in 0 .. n - 1 /\ active < i
        BY <1>2, <2>3 DEF AfterRemoval
      <3> HIDE DEF active
      <3> QED
        BY <1>1, <1>2, <3>1 DEF None
    <2> QED
      BY <1>2, <2>1, <2>2, <2>3
  <1>5. \A j, k \in 1 .. n - 1 : locs[j].isDefault /\ locs[k].isDefault => j = k
    <2>1. ASSUME NEW j \in 1 .. n - 1, NEW k \in 1 .. n - 1,
                 locs[j].isDefault, locs[k].isDefault
          PROVE  j = k
      <3> DEFINE old(m) == IF m < i THEN m ELSE m + 1
      <3>1. cfg.locs[old(j)].isDefault /\ cfg.locs[old(k)].isDefault
        BY <2>1, <1>1
      <3>2. old(j) \in 1 .. n /\ old(k) \in 1 .. n
        BY <1>2
      <3>3. old(j) = old(k)
        <4> HIDE DEF old
        <4> QED
          BY <3>1, <3>2, <1>2
      <3> QED
        BY <3>3, <1>2
    <2> QED
      BY <2>1
  <1> HIDE DEF active
  <1>6. active \in Nat
    BY <1>2, <1>4
  <1>7. ConfigRemove(cfg, i) \in Config
    BY <1>1, <1>2, <1>3, <1>6 DEF Config
  <1>8. /\ ConfigRemove(cfg, i).locs = locs
        /\ ConfigRemove(cfg, i).active = active
        /\ ConfigRemove(cfg, i).geo = cfg.geo
        /\ ConfigRemove(cfg, i).current = cfg.current
    BY <1>2, <1>3 DEF Config
  <1>9. WellFormed(ConfigRemove(cfg, i))
    BY <1>1, <1>2, <1>4, <1>5, <1>8, LimitAssumption
       DEF WellFormed, OneDefault, InRange, None
  <1>10. Tracks(cfg) => Tracks(ConfigRemove(cfg, i))
    BY <1>1, <1>2, <1>4, <1>8
       DEF Tracks, ActiveIsClose, InRange, None
  <1> QED
    BY <1>1, <1>7, <1>8, <1>9, <1>10 DEF Good, n

\* A location is at its own place, because the tolerance is positive.
LEMMA CloseToItself ==
    ASSUME NEW a \in Location
    PROVE  Close(a.place, a.place)
  <1>1. a.place \in Int
    BY PlaceAssumption DEF Location
  <1>2. RoundCoord(a.place) \in Int
    BY <1>1, RoundCoordTwice
  <1> QED
    BY <1>1, <1>2, ToleranceAssumption DEF Close

\* config_use establishes the meaning of the active index.
LEMMA UseMaintains ==
    ASSUME NEW cfg, Good(cfg), NEW i \in 1 .. Len(cfg.locs)
    PROVE  Good(ConfigUse(cfg, i)) /\ Tracks(ConfigUse(cfg, i))
  <1> DEFINE current == AsCurrent(cfg.locs[i])
  <1>1. /\ cfg \in Config /\ cfg.locs \in Seq(Location)
        /\ cfg.locs[i] \in Location /\ i \in Nat
    BY DEF Good, Config
  <1>2. current \in Location /\ current.place = cfg.locs[i].place
    BY <1>1 DEF AsCurrent, Location
  <1>3. Close(cfg.locs[i].place, current.place)
    BY <1>1, <1>2, CloseToItself
  <1>4. ConfigUse(cfg, i) = [cfg EXCEPT !.current = current, !.active = i,
                                        !.geo = FALSE]
    BY DEF ConfigUse
  <1> HIDE DEF current
  <1>5. ConfigUse(cfg, i) \in Config
    BY <1>1, <1>2, <1>4 DEF Config
  <1> QED
    BY <1>1, <1>3, <1>4, <1>5
       DEF Good, WellFormed, OneDefault, Tracks, ActiveIsClose, InRange, Config

\* Switching to geolocation clears the active index.
LEMMA UseGeoMaintains ==
    ASSUME NEW cfg, Good(cfg)
    PROVE  Good(UseGeo(cfg)) /\ Tracks(UseGeo(cfg))
  BY DEF UseGeo, Good, WellFormed, OneDefault, Tracks, ActiveIsClose, InRange,
         Config, None

\* config_set_default keeps the record well formed; None clears every flag.
LEMMA SetDefaultMaintains ==
    ASSUME NEW cfg, Good(cfg), NEW i \in Nat
    PROVE  /\ Good(ConfigSetDefault(cfg, i))
           /\ Tracks(cfg) => Tracks(ConfigSetDefault(cfg, i))
  <1> DEFINE locs == Mark(cfg.locs, i)
  <1>1. /\ locs \in Seq(Location)
        /\ Len(locs) = Len(cfg.locs)
        /\ \A j \in 1 .. Len(cfg.locs) : locs[j].place = cfg.locs[j].place
        /\ \A j, k \in 1 .. Len(cfg.locs) :
             locs[j].isDefault /\ locs[k].isDefault => j = k
    BY MarkElements DEF Good, Config
  <1>2. ConfigSetDefault(cfg, i) = [cfg EXCEPT !.locs = locs]
    BY DEF ConfigSetDefault
  <1> HIDE DEF locs
  <1> QED
    BY <1>1, <1>2 DEF Good, WellFormed, OneDefault, Tracks, ActiveIsClose, InRange, Config

\* One step of next / prev lands on a slot of the rotation.
LEMMA CycleMaintains ==
    ASSUME NEW cfg, Good(cfg), Slots(cfg) # 0, NEW direction \in {-1, 1}
    PROVE  Good(Cycle(cfg, direction)) /\ Tracks(Cycle(cfg, direction))
  <1>1. Slots(cfg) \in Nat \ {0} /\ Slots(cfg) <= Len(cfg.locs) + 1
    BY DEF Slots, Good, Config
  <1>2. SlotShown(cfg) \in 0 .. Len(cfg.locs) + 1
    BY MatchRange DEF SlotShown, GeoPosition, Good, Config, None
  <1>3. NextSlot(cfg, direction) \in 1 .. Slots(cfg)
    BY <1>1, <1>2 DEF NextSlot
  <1>4. CASE NextSlot(cfg, direction) = GeoPosition(cfg)
    BY <1>4, UseGeoMaintains DEF Cycle
  <1>5. CASE NextSlot(cfg, direction) # GeoPosition(cfg)
    <2>1. NextSlot(cfg, direction) \in 1 .. Len(cfg.locs)
      BY <1>1, <1>3, <1>5 DEF GeoPosition, Good, Config
    <2> QED
      BY <1>5, <2>1, UseMaintains DEF Cycle
  <1> QED
    BY <1>4, <1>5

\* One entry is replaced; its default flag stays.
LEMMA EntryMaintains ==
    ASSUME NEW cfg, Good(cfg), NEW i \in 1 .. Len(cfg.locs),
           NEW entry \in Location, entry.isDefault = cfg.locs[i].isDefault,
           NEW new, new = [cfg EXCEPT !.locs = [cfg.locs EXCEPT ![i] = entry]]
    PROVE  /\ Good(new)
           /\ new.locs = [cfg.locs EXCEPT ![i] = entry]
           /\ new.active = cfg.active /\ new.geo = cfg.geo
           /\ new.current = cfg.current
           /\ Tracks(cfg) /\ (cfg.active # i \/ entry.place = cfg.locs[i].place)
                => Tracks(new)
  <1> DEFINE locs == [cfg.locs EXCEPT ![i] = entry]
  <1>1. cfg \in Config /\ cfg.locs \in Seq(Location)
    BY DEF Good, Config
  <1>4. /\ locs \in Seq(Location)
        /\ Len(locs) = Len(cfg.locs)
        /\ locs[i] = entry
        /\ \A j \in 1 .. Len(cfg.locs) : j # i => locs[j] = cfg.locs[j]
    BY <1>1
  <1> HIDE DEF locs
  <1>5. new \in Config
    BY <1>1, <1>4 DEF Config, locs
  <1>6. \A j, k \in 1 .. Len(cfg.locs) : locs[j].isDefault /\ locs[k].isDefault => j = k
    BY <1>4 DEF Good, WellFormed, OneDefault
  <1>7. /\ new.locs = locs /\ new.active = cfg.active
        /\ new.geo = cfg.geo /\ new.current = cfg.current
    BY <1>1 DEF Config, locs
  <1>8. WellFormed(new)
    BY <1>4, <1>6, <1>7 DEF Good, WellFormed, OneDefault, InRange
  <1>9. Tracks(cfg) /\ (cfg.active # i \/ entry.place = cfg.locs[i].place) => Tracks(new)
    BY <1>4, <1>7 DEF Tracks, ActiveIsClose, InRange
  <1>10. new.locs = [cfg.locs EXCEPT ![i] = entry]
    BY <1>7 DEF locs
  <1> QED
    BY <1>5, <1>7, <1>8, <1>9, <1>10 DEF Good

\* "edit" and "units" overwrite fields of one entry.
LEMMA WithEntryMaintains ==
    ASSUME NEW cfg, Good(cfg), NEW i \in 1 .. Len(cfg.locs),
           NEW place \in Place, NEW units \in Units
    PROVE  LET new == WithEntry(cfg, i, place, units)
           IN /\ Good(new)
              /\ Len(new.locs) = Len(cfg.locs)
              /\ new.current = cfg.current
              /\ Tracks(cfg) /\ (cfg.active # i \/ place = cfg.locs[i].place)
                   => Tracks(new)
  <1>1. cfg.locs \in Seq(Location) /\ cfg.locs[i] \in Location
    BY DEF Good, Config
  <1>2. PICK entry : entry = [cfg.locs[i] EXCEPT !.place = place, !.units = units]
    OBVIOUS
  <1>3. /\ entry \in Location
        /\ entry.isDefault = cfg.locs[i].isDefault
        /\ entry.place = place
    BY <1>1, <1>2 DEF Location
  <1>4. WithEntry(cfg, i, place, units) =
          [cfg EXCEPT !.locs = [cfg.locs EXCEPT ![i] = entry]]
    BY <1>2 DEF WithEntry
  <1> QED
    BY <1>1, <1>3, <1>4, EntryMaintains

\* Changing the units of an entry moves nothing.
LEMMA WithUnitsMaintains ==
    ASSUME NEW cfg, Good(cfg), NEW i \in 1 .. Len(cfg.locs), NEW units \in Units
    PROVE  /\ Good(WithUnits(cfg, i, units))
           /\ Len(WithUnits(cfg, i, units).locs) = Len(cfg.locs)
           /\ WithUnits(cfg, i, units).current = cfg.current
           /\ Tracks(cfg) => Tracks(WithUnits(cfg, i, units))
  <1>1. cfg.locs[i] \in Location
    BY DEF Good, Config
  <1>2. cfg.locs[i].place \in Place
    BY <1>1 DEF Location
  <1> QED
    BY <1>2, WithEntryMaintains DEF WithUnits

\* A new current location at the same place keeps the active index right.
LEMMA CurrentMaintains ==
    ASSUME NEW cfg, Good(cfg), NEW loc \in Location,
           NEW new, new = [cfg EXCEPT !.current = loc]
    PROVE  /\ Good(new)
           /\ new.locs = cfg.locs
           /\ Tracks(cfg) /\ loc.place = cfg.current.place => Tracks(new)
  BY DEF Good, WellFormed, OneDefault, Tracks, ActiveIsClose, InRange,
         Config

\* The active index is looked up for a new current location.
LEMMA LookupMaintains ==
    ASSUME NEW cfg, Good(cfg), NEW loc \in Location,
           NEW now, now = [cfg EXCEPT !.current = loc, !.geo = FALSE],
           NEW new, new = [now EXCEPT !.active = ConfigMatchCurrent(now)]
    PROVE  Good(new) /\ (Gridded(cfg) /\ ~Rough(loc.place) => Tracks(new))
  <1>1. /\ now \in Config /\ now.locs = cfg.locs /\ now.geo = FALSE
        /\ now.current = loc
    BY DEF Good, Config
  <1>2. /\ ConfigMatchCurrent(now) \in 0 .. Len(cfg.locs)
        /\ ConfigMatchCurrent(now) # None =>
             SamePlace(cfg.locs[ConfigMatchCurrent(now)], now.current)
    BY <1>1, MatchRange
  <1>3. /\ new \in Config
        /\ new.locs = cfg.locs
        /\ new.geo = FALSE
        /\ new.current = now.current
        /\ new.active = ConfigMatchCurrent(now)
    <2> DEFINE m == ConfigMatchCurrent(now)
    <2>1. m \in Nat
      BY <1>2 DEF Good, Config
    <2>2. new = [now EXCEPT !.active = m]
      OBVIOUS
    <2> HIDE DEF m
    <2>3. new \in Config /\ new.locs = now.locs /\ new.geo = now.geo
          /\ new.current = now.current /\ new.active = m
      BY <1>1, <2>1, <2>2 DEF Config
    <2> QED
      BY <1>1, <2>3 DEF m
  <1>4. ASSUME Gridded(cfg), ~Rough(loc.place), ConfigMatchCurrent(now) # None
        PROVE  Close(cfg.locs[ConfigMatchCurrent(now)].place, loc.place)
    <2>1. PICK m : m = ConfigMatchCurrent(now)
      OBVIOUS
    <2>2. m \in 1 .. Len(cfg.locs) /\ SamePlace(cfg.locs[m], loc)
      BY <1>1, <1>2, <1>4, <2>1 DEF None, Good, Config
    <2>3. /\ RoundCoord(cfg.locs[m].place) = cfg.locs[m].place
          /\ RoundCoord(loc.place) = loc.place
      BY <1>4, <2>2 DEF Gridded, Rough
    <2> QED
      BY <2>1, <2>2, <2>3 DEF Close, SamePlace
  <1> QED
    BY <1>1, <1>2, <1>3, <1>4
       DEF Good, WellFormed, OneDefault, Tracks, ActiveIsClose, InRange, None,
           Config

\* Copying units to the saved twin moves nothing.
LEMMA SyncTwinMaintains ==
    ASSUME NEW cfg, Good(cfg)
    PROVE  /\ Good(SyncTwin(cfg))
           /\ Len(SyncTwin(cfg).locs) = Len(cfg.locs)
           /\ Tracks(cfg) => Tracks(SyncTwin(cfg))
  <1> DEFINE i == Shown(cfg)
             units == cfg.current.units
  <1>1. i \in 0 .. Len(cfg.locs) /\ Len(cfg.locs) \in Nat
    BY MatchRange DEF Shown, Good, None, Config
  <1>2. CASE i = None
    BY <1>2 DEF SyncTwin
  <1>3. CASE i # None
    <2>1. units \in Units
      BY DEF Good, Config, Location
    <2>2. SyncTwin(cfg) = WithUnits(cfg, i, units)
      BY <1>3 DEF SyncTwin
    <2> HIDE DEF i, units
    <2>3. i \in 1 .. Len(cfg.locs)
      BY <1>1, <1>3 DEF None
    <2> QED
      BY <2>1, <2>2, <2>3, WithUnitsMaintains
  <1> QED
    BY <1>2, <1>3

----------------------------------------------------------------------------
(* The invariant                                                           *)

\* What commands alone keep of the file.
Exact == author = "program" => Tracks(file) /\ Gridded(file)

Inv == TypeOK /\ SavedIsWellFormed /\ Exact

\* What a command finds when it loads the file: a good record, and one whose
\* active index is the loaded location if only commands produced the file.
LEMMA CfgMaintains ==
    ASSUME Inv
    PROVE  Good(Cfg) /\ (author = "program" => Tracks(Cfg) /\ Gridded(Cfg))
  <1>1. Good(Cfg)
    BY LoadedIsGood DEF Inv, TypeOK, Cfg
  <1>2. author = "program" => file \in Config /\ WellFormed(file)
    BY DEF Inv, TypeOK, SavedIsWellFormed, WellFormed
  <1> QED
    BY <1>1, <1>2, LoadedTracks DEF Inv, Exact, Cfg

\* Saving a record that keeps what the loaded one had keeps the invariant.
LEMMA SavesAsMaintain ==
    ASSUME Inv, NEW cfg, Good(cfg), NEW who \in {"program", "mixed"},
           author = "program" /\ who = "program" => Tracks(cfg),
           SavesAs(cfg, who)
    PROVE  Inv'
  <1>1. /\ file' = Saved(cfg)
        /\ author' \in {"program", "mixed"}
        /\ author' = "program" => author = "program" /\ who = "program"
    BY DEF SavesAs
  <1>2. /\ Good(file') /\ Gridded(file')
        /\ Tracks(cfg) => Tracks(file')
    BY <1>1, SavedMaintains
  <1>3. Exact'
    BY <1>1, <1>2 DEF Exact, Tracks, Gridded, ActiveIsClose, InRange
  <1>4. SavedIsWellFormed' /\ TypeOK'
    BY <1>1, <1>2 DEF SavedIsWellFormed, TypeOK, Good, WellFormed, OneDefault, InRange
  <1> QED
    BY <1>3, <1>4 DEF Inv

LEMMA SavesMaintain ==
    ASSUME Inv, NEW cfg, Good(cfg), Tracks(Cfg) => Tracks(cfg), Saves(cfg)
    PROVE  Inv'
  <1>1. author = "program" => Tracks(cfg)
    BY CfgMaintains
  <1> QED
    BY <1>1, SavesAsMaintain DEF Saves

\* config_defaults is a good record.
LEMMA DefaultsAreGood == Good(Defaults) /\ Tracks(Defaults) /\ Gridded(Defaults)
  <1>1. Blank \in Location
    BY PlaceAssumption, UnitsAssumption DEF Blank, Location
  <1>2. << >> \in Seq(Location) /\ Len(<< >>) = 0
    OBVIOUS
  <1> QED
    BY <1>1, <1>2, LimitAssumption
       DEF Defaults, Good, WellFormed, Tracks, Gridded, OneDefault, ActiveIsClose,
           InRange, Config, None

\* The invariant holds of a fresh and of a migrated configuration.
LEMMA InitEstablishesInv ==
    ASSUME Init
    PROVE  Inv
  <1>1. CASE file = Defaults /\ author = "program"
    BY <1>1, DefaultsAreGood DEF Inv, TypeOK, SavedIsWellFormed, Exact, Good, WellFormed
  <1>2. ASSUME NEW geo \in BOOLEAN, NEW place \in Place, NEW units \in Units,
               NEW entries \in BoundedSeq(Location, LegacyEntries),
               NEW current, current = [Blank EXCEPT !.place = place,
                                                    !.units = units],
               file \in {Saved(Migrated(geo, current, entries)),
                         Saved(Upgraded(geo, current, entries))},
               author = "mixed"
        PROVE  Inv
    <2>1. current \in Location
      BY <1>2 DEF Blank, Location
    <2>2. entries \in Seq(Location)
      <3>1. PICK k \in 0 .. LegacyEntries : entries \in [1 .. k -> Location]
        BY DEF BoundedSeq, SeqOf
      <3> QED
        BY <3>1, LegacyAssumption
    <2>3. PICK old : old = [Defaults EXCEPT !.geo = geo, !.current = current,
                                            !.locs = entries]
      OBVIOUS
    <2>4. old \in Config
      BY <2>1, <2>2, <2>3, DefaultsAreGood DEF Good, Config
    <2>5. PICK cfg : cfg = Loaded(old)
      OBVIOUS
    <2>6. Good(cfg)
      BY <2>4, <2>5, LoadedIsGood
    <2>7. PICK m : m = ConfigMatchCurrent(cfg)
      OBVIOUS
    <2>8. m \in 0 .. Len(cfg.locs)
      BY <2>6, <2>7, MatchRange DEF Good
    <2>9. PICK migrated : migrated = [cfg EXCEPT !.active = m]
      OBVIOUS
    <2>10. Good(migrated)
      BY <2>6, <2>8, <2>9 DEF Good, WellFormed, OneDefault, InRange, Config, None
    <2>11. file \in {Saved(migrated), Saved(cfg)}
      BY <1>2, <2>3, <2>5, <2>7, <2>9 DEF Migrated, Upgraded
    <2>12. Good(file)
      BY <2>6, <2>10, <2>11, SavedMaintains
    <2> QED
      BY <1>2, <2>12 DEF Inv, TypeOK, SavedIsWellFormed, Exact, Good, WellFormed
  <1> QED
    BY <1>1, <1>2 DEF Init

----------------------------------------------------------------------------
(* Every command keeps the invariant                                       *)

\* Removing one or two entries.
LEMMA RemoveBothIsGood ==
    ASSUME NEW cfg, Good(cfg), NEW i \in 1 .. Len(cfg.locs),
           NEW j \in 1 .. Len(cfg.locs)
    PROVE  /\ Good(RemoveBoth(cfg, i, j))
           /\ Tracks(cfg) => Tracks(RemoveBoth(cfg, i, j))
  <1> DEFINE low  == IF i < j THEN i ELSE j
             high == IF i < j THEN j ELSE i
             one  == ConfigRemove(cfg, high)
  <1>1. Len(cfg.locs) \in Nat
    BY DEF Good, Config
  <1>2. /\ high \in 1 .. Len(cfg.locs)
        /\ i # j => low \in 1 .. Len(cfg.locs) - 1
    BY <1>1
  <1>3. RemoveBoth(cfg, i, j) =
          IF i = j THEN ConfigRemove(cfg, i) ELSE ConfigRemove(one, low)
    BY DEF RemoveBoth
  <1> HIDE DEF low, high
  <1>4. Good(ConfigRemove(cfg, i)) /\ (Tracks(cfg) => Tracks(ConfigRemove(cfg, i)))
    BY RemoveMaintains
  <1>5. /\ Good(one) /\ Len(one.locs) = Len(cfg.locs) - 1
        /\ Tracks(cfg) => Tracks(one)
    BY <1>2, RemoveMaintains
  <1> HIDE DEF one
  <1>6. i # j => /\ Good(ConfigRemove(one, low))
                 /\ Tracks(cfg) => Tracks(ConfigRemove(one, low))
    BY <1>2, <1>5, RemoveMaintains
  <1> QED
    BY <1>3, <1>4, <1>6

\* add, remove, edit, default, geo save.
LEMMA ListCommandMaintainsInv ==
    ASSUME Inv, ListCommand
    PROVE  Inv'
  <1>1. Good(Cfg) /\ Len(Cfg.locs) \in Nat
    BY CfgMaintains DEF Good, Config
  <1>2. ASSUME NEW place \in Place, NEW units \in Units, NEW isDefault \in BOOLEAN,
               NEW use \in BOOLEAN, AddCommand(place, units, isDefault, use)
        PROVE  Inv'
    <2> DEFINE loc == Entry(place, units, isDefault)
               cfg == ConfigAdd(Cfg, loc)
    <2>1. loc \in Location
      BY DEF Entry, Location
    <2>2. /\ ~Full(Cfg)
          /\ Saves(IF use THEN ConfigUse(cfg, Len(cfg.locs)) ELSE cfg)
      BY <1>2 DEF AddCommand
    <2> HIDE DEF loc
    <2>3. /\ Good(cfg) /\ Len(cfg.locs) = Len(Cfg.locs) + 1
          /\ Tracks(Cfg) => Tracks(cfg)
      BY <1>1, <2>1, <2>2, AddMaintains
    <2> HIDE DEF cfg
    <2>4. Good(ConfigUse(cfg, Len(cfg.locs))) /\ Tracks(ConfigUse(cfg, Len(cfg.locs)))
      BY <1>1, <2>3, UseMaintains
    <2> QED
      BY <2>2, <2>3, <2>4, SavesMaintain
  <1>3. ASSUME NEW i \in Positions, NEW j \in Positions, RemoveCommand(i, j)
        PROVE  Inv'
    BY <1>1, <1>3, RemoveBothIsGood, SavesMaintain DEF RemoveCommand, Positions
  <1>4. ASSUME NEW i \in Positions, NEW place \in Place, NEW units \in Units,
               EditCommand(i, place, units)
        PROVE  Inv'
    <2> DEFINE edited == WithEntry(Cfg, i, place, units)
    <2>1. /\ Good(edited) /\ Len(edited.locs) = Len(Cfg.locs)
          /\ Tracks(Cfg) /\ Cfg.active # i => Tracks(edited)
      BY <1>1, WithEntryMaintains DEF Positions
    <2>2. Tracks(Cfg) /\ Cfg.active = i => Shown(Cfg) = i
      BY <1>1, TracksMeans
         DEF ActiveIsCurrent, Shown, ConfigMatchCurrent, Positions, None
    <2>3. Saves(IF Shown(Cfg) = i THEN ConfigUse(edited, i) ELSE edited)
      BY <1>4 DEF EditCommand, Edited
    <2> HIDE DEF edited
    <2>4. Good(ConfigUse(edited, i)) /\ Tracks(ConfigUse(edited, i))
      BY <2>1, UseMaintains DEF Positions
    <2> QED
      BY <2>1, <2>2, <2>3, <2>4, SavesMaintain
  <1>5. ASSUME NEW i \in Positions \cup {None}, DefaultCommand(i)
        PROVE  Inv'
    <2>1. i \in Nat
      BY <1>1 DEF Positions, None
    <2> QED
      BY <1>1, <1>5, <2>1, SetDefaultMaintains, SavesMaintain DEF DefaultCommand
  <1>6. ASSUME NEW place \in Place, GeoSaveCommand(place)
        PROVE  Inv'
    <2> DEFINE loc == AsCurrent([Cfg.current EXCEPT !.place = place])
    <2>1. loc \in Location
      BY <1>1 DEF AsCurrent, Good, Config, Location
    <2>2. ~Full(Cfg) /\ Saves(ConfigAdd(Cfg, loc))
      BY <1>6 DEF GeoSaveCommand
    <2> HIDE DEF loc
    <2> QED
      BY <1>1, <2>1, <2>2, AddMaintains, SavesMaintain
  <1> QED
    BY <1>2, <1>3, <1>4, <1>5, <1>6 DEF ListCommand

\* use, next / prev, geo, reset.
LEMMA ShowCommandMaintainsInv ==
    ASSUME Inv, ShowCommand
    PROVE  Inv'
  <1>1. Good(Cfg) /\ Len(Cfg.locs) \in Nat
    BY CfgMaintains DEF Good, Config
  <1>2. ASSUME NEW i \in Positions, UseCommand(i)
        PROVE  Inv'
    BY <1>1, <1>2, UseMaintains, SavesMaintain DEF UseCommand, Positions
  <1>3. CASE UseDefaultCommand
    <2>1. ConfigDefaultIndex(Cfg) \in 1 .. Len(Cfg.locs)
      BY <1>1, <1>3, DefaultIndexRange DEF UseDefaultCommand, Good, None
    <2> QED
      BY <1>1, <1>3, <2>1, UseMaintains, SavesMaintain DEF UseDefaultCommand
  <1>4. CASE UseGeoCommand
    BY <1>1, <1>4, UseGeoMaintains, SavesMaintain DEF UseGeoCommand
  <1>5. ASSUME NEW direction \in {-1, 1}, CycleCommand(direction)
        PROVE  Inv'
    BY <1>1, <1>5, CycleMaintains, SavesMaintain DEF CycleCommand, CanCycle
  <1>6. ASSUME NEW on \in BOOLEAN, GeoCommand(on)
        PROVE  Inv'
    <2> DEFINE off == [Cfg EXCEPT !.geo = FALSE]
    <2>1. Good(off) /\ (Tracks(Cfg) => Tracks(off))
      BY <1>1 DEF Good, WellFormed, OneDefault, Tracks, ActiveIsClose, InRange,
                  Config
    <2>2. Saves(IF on THEN UseGeo(Cfg) ELSE off)
      BY <1>6 DEF GeoCommand
    <2> HIDE DEF off
    <2> QED
      BY <1>1, <2>1, <2>2, UseGeoMaintains, SavesMaintain
  <1>7. CASE GeoToggleCommand
    <2>1. (~Cfg.geo) \in BOOLEAN
      OBVIOUS
    <2> QED
      BY <1>6, <1>7, <2>1 DEF GeoToggleCommand
  <1>8. ASSUME NEW units \in BOOLEAN, ResetCommand(units)
        PROVE  Inv'
    <2> DEFINE current == IF units THEN Blank ELSE [Blank EXCEPT !.units = Cfg.current.units]
               shown == UseGeo(Cfg)
               new == [shown EXCEPT !.current = current]
    <2>1. current \in Location
      BY <1>1, PlaceAssumption, UnitsAssumption DEF Blank, Good, Config, Location
    <2>2. Saves(new)
      BY <1>8 DEF ResetCommand
    <2>3. Good(shown) /\ shown.active = None
      BY <1>1, UseGeoMaintains DEF UseGeo, Good, Config
    <2> HIDE DEF current, shown
    <2>4. Good(new) /\ Tracks(new)
      BY <2>1, <2>3 DEF Good, WellFormed, OneDefault, Tracks, ActiveIsClose,
                        InRange, Config, None
    <2> QED
      BY <2>2, <2>4, SavesMaintain
  <1>9. CASE GeoProviderCommand
    BY <1>1, <1>9, SavesMaintain DEF GeoProviderCommand
  <1> QED
    BY <1>2, <1>3, <1>4, <1>5, <1>6, <1>7, <1>8, <1>9 DEF ShowCommand

\* The silent config_add of "set --save".
LEMMA AddIfRoomMaintains ==
    ASSUME NEW cfg, Good(cfg), NEW loc \in Location
    PROVE  /\ Good(AddIfRoom(cfg, loc))
           /\ Len(AddIfRoom(cfg, loc).locs) >= Len(cfg.locs)
           /\ Tracks(cfg) => Tracks(AddIfRoom(cfg, loc))
           /\ Gridded(cfg) /\ ~Rough(loc.place) => Gridded(AddIfRoom(cfg, loc))
           /\ AddIfRoom(cfg, loc).current = cfg.current
  <1>1. AsCurrent(loc) \in Location /\ AsCurrent(loc).place = loc.place
    BY DEF AsCurrent, Location
  <1>2. cfg \in Config
    BY DEF Good
  <1>3. ConfigAdd(cfg, AsCurrent(loc)).current = cfg.current
    BY <1>2 DEF ConfigAdd, Config
  <1>4. Len(cfg.locs) \in Nat
    BY <1>2 DEF Config
  <1> QED
    BY <1>1, <1>3, <1>4, AddMaintains DEF AddIfRoom

\* set, units.
LEMMA CurrentCommandMaintainsInv ==
    ASSUME Inv, CurrentCommand
    PROVE  Inv'
  <1>1. Good(Cfg) /\ Cfg.current \in Location
    BY CfgMaintains DEF Good, Config
  <1>2. ASSUME NEW place \in Place, NEW units \in Units, NEW save \in BOOLEAN,
               NEW skip \in BOOLEAN, SetPlaceCommand(place, units, save, skip)
        PROVE  Inv'
    <2> DEFINE loc == Entry(place, units, FALSE)
               cfg == IF save THEN AddIfRoom(Cfg, loc) ELSE Cfg
               now == [cfg EXCEPT !.current = loc, !.geo = FALSE]
               new == [now EXCEPT !.active = ConfigMatchCurrent(now)]
    <2>1. loc \in Location
      BY DEF Entry, Location
    <2>2. IF skip THEN Saves(cfg)
          ELSE SavesAs(new, IF Rough(place) THEN "mixed" ELSE "program")
      BY <1>2 DEF SetPlaceCommand
    <2>3. loc.place = place
      BY DEF Entry
    <2> HIDE DEF loc
    <2>4. /\ Good(cfg) /\ (Tracks(Cfg) => Tracks(cfg))
          /\ Gridded(Cfg) /\ ~Rough(place) => Gridded(cfg)
      BY <1>1, <2>1, <2>3, AddIfRoomMaintains
    <2> HIDE DEF cfg
    <2>5. now = [cfg EXCEPT !.current = loc, !.geo = FALSE]
      OBVIOUS
    <2>6. new = [now EXCEPT !.active = ConfigMatchCurrent(now)]
      OBVIOUS
    <2> HIDE DEF now, new
    <2>7. Good(new) /\ (Gridded(cfg) /\ ~Rough(place) => Tracks(new))
      BY <2>1, <2>3, <2>4, <2>5, <2>6, LookupMaintains
    <2>8. author = "program" /\ ~Rough(place) => Tracks(new)
      BY <2>4, <2>7, CfgMaintains
    <2> QED
      BY <2>2, <2>4, <2>7, <2>8, SavesMaintain, SavesAsMaintain
  <1>3. ASSUME NEW units \in Units, NEW save \in BOOLEAN, NEW skip \in BOOLEAN,
               SetUnitsCommand(units, save, skip)
        PROVE  Inv'
    <2> DEFINE loc == [Cfg.current EXCEPT !.units = units]
               cfg == IF save THEN AddIfRoom(Cfg, loc) ELSE Cfg
               new == [cfg EXCEPT !.current = loc]
    <2>1. loc \in Location /\ loc.place = Cfg.current.place
      BY <1>1 DEF Location
    <2>2. Saves(IF skip THEN cfg ELSE SyncTwin(new))
      BY <1>3 DEF SetUnitsCommand
    <2> HIDE DEF loc
    <2>3. /\ Good(cfg) /\ (Tracks(Cfg) => Tracks(cfg))
          /\ cfg.current = Cfg.current
      BY <1>1, <2>1, AddIfRoomMaintains
    <2> HIDE DEF cfg
    <2>4. new = [cfg EXCEPT !.current = loc]
      OBVIOUS
    <2> HIDE DEF new
    <2>5. Good(new) /\ (Tracks(cfg) => Tracks(new))
      BY <2>1, <2>3, <2>4, CurrentMaintains
    <2>6. Good(SyncTwin(new)) /\ (Tracks(new) => Tracks(SyncTwin(new)))
      BY <2>5, SyncTwinMaintains
    <2> QED
      BY <2>2, <2>3, <2>5, <2>6, SavesMaintain
  <1>4. ASSUME NEW units \in Units, UnitsCommand(units)
        PROVE  Inv'
    <2> DEFINE loc == [Cfg.current EXCEPT !.units = units]
               new == [Cfg EXCEPT !.current = loc]
    <2>1. loc \in Location /\ loc.place = Cfg.current.place
      BY <1>1 DEF Location
    <2>2. Saves(SyncTwin(new))
      BY <1>4 DEF UnitsCommand
    <2> HIDE DEF loc
    <2>3. new = [Cfg EXCEPT !.current = loc]
      OBVIOUS
    <2> HIDE DEF new
    <2>4. Good(new) /\ (Tracks(Cfg) => Tracks(new))
      BY <1>1, <2>1, <2>3, CurrentMaintains
    <2>5. Good(SyncTwin(new)) /\ (Tracks(new) => Tracks(SyncTwin(new)))
      BY <2>4, SyncTwinMaintains
    <2> QED
      BY <2>2, <2>4, <2>5, SavesMaintain
  <1>5. ASSUME NEW i \in Positions, NEW units \in Units, UnitsOfCommand(i, units)
        PROVE  Inv'
    <2> DEFINE cfg == WithUnits(Cfg, i, units)
               loc == [cfg.current EXCEPT !.units = units]
               new == [cfg EXCEPT !.current = loc]
    <2>1. /\ Good(cfg) /\ cfg.current = Cfg.current
          /\ Tracks(Cfg) => Tracks(cfg)
      BY <1>1, WithUnitsMaintains DEF Positions
    <2>2. Saves(IF Shown(cfg) = i THEN new ELSE cfg)
      BY <1>5 DEF UnitsOfCommand, UnitsOf
    <2> HIDE DEF cfg
    <2>3. loc \in Location /\ loc.place = cfg.current.place
      BY <1>1, <2>1 DEF Location
    <2> HIDE DEF loc
    <2>4. new = [cfg EXCEPT !.current = loc]
      OBVIOUS
    <2> HIDE DEF new
    <2>5. Good(new) /\ (Tracks(cfg) => Tracks(new))
      BY <2>1, <2>3, <2>4, CurrentMaintains
    <2> QED
      BY <2>1, <2>2, <2>5, SavesMaintain
  <1> QED
    BY <1>2, <1>3, <1>4, <1>5 DEF CurrentCommand

\* The user's editor leaves a record, and says nothing else about it.
LEMMA HandEditMaintainsInv ==
    ASSUME Inv, HandEdit
    PROVE  Inv'
  <1>1. file \in Config /\ file.locs \in Seq(Location) /\ author' = "user"
    BY DEF Inv, TypeOK, HandEdit, Config
  <1>2. ASSUME NEW a \in 0 .. MaxLocations + 1, file' = [file EXCEPT !.active = a]
        PROVE  file' \in Config
    BY <1>1, <1>2, LimitAssumption DEF Config
  <1>3. ASSUME NEW i \in DOMAIN file.locs,
               file' = [file EXCEPT !.locs[i].isDefault = ~file.locs[i].isDefault]
        PROVE  file' \in Config
    <2>1. PICK entry : entry = [file.locs[i] EXCEPT !.isDefault = ~file.locs[i].isDefault]
      OBVIOUS
    <2>2. file.locs[i] \in Location
      BY <1>1
    <2>3. entry \in Location
      BY <2>1, <2>2, Zenon DEF Location
    <2>4. PICK locs : locs = [file.locs EXCEPT ![i] = entry]
      OBVIOUS
    <2>5. locs \in Seq(Location)
      BY <1>1, <2>3, <2>4
    <2>6. file' = [file EXCEPT !.locs = locs]
      BY <1>3, <2>1, <2>4
    <2> QED
      BY <1>1, <2>5, <2>6 DEF Config
  <1>4. ASSUME file.locs # << >>, file' = [file EXCEPT !.locs = Front(file.locs)]
        PROVE  file' \in Config
    <2>1. Front(file.locs) \in Seq(Location)
      BY <1>1, <1>4 DEF Front
    <2> QED
      BY <1>1, <1>4, <2>1 DEF Config
  <1>5. ASSUME file' = [file EXCEPT !.locs = Append(file.locs, Blank)]
        PROVE  file' \in Config
    <2>1. Append(file.locs, Blank) \in Seq(Location)
      BY <1>1, PlaceAssumption, UnitsAssumption DEF Blank, Location
    <2> QED
      BY <1>1, <1>5, <2>1 DEF Config
  <1>6. file' \in Config
    BY <1>2, <1>3, <1>4, <1>5 DEF HandEdit
  <1> QED
    BY <1>1, <1>6 DEF Inv, TypeOK, SavedIsWellFormed, Exact

\* Every step keeps the invariant.
LEMMA NextMaintainsInv ==
    ASSUME Inv, [Next]_vars
    PROVE  Inv'
  <1>1. CASE ResetAllCommand
    BY <1>1, DefaultsAreGood, SavesMaintain DEF ResetAllCommand
  <1>2. CASE GeoSlotSetting
    <2> DEFINE new == [Cfg EXCEPT !.geoSlot = ~Cfg.geoSlot]
    <2>1. Good(Cfg)
      BY CfgMaintains
    <2>2. new \in Config
      BY <2>1, Zenon DEF Good, Config
    <2>3. /\ new.locs = Cfg.locs /\ new.active = Cfg.active
          /\ new.geo = Cfg.geo /\ new.current = Cfg.current
      BY <2>1 DEF Good, Config
    <2> HIDE DEF new
    <2>4. Good(new) /\ (Tracks(Cfg) => Tracks(new))
      BY <2>1, <2>2, <2>3 DEF Good, WellFormed, OneDefault, Tracks,
                              ActiveIsClose, InRange
    <2> QED
      BY <1>2, <2>4, SavesMaintain DEF GeoSlotSetting, new
  <1>3. CASE UNCHANGED vars
    BY <1>3 DEF vars, Inv, TypeOK, SavedIsWellFormed, Exact
  <1> QED
    BY <1>1, <1>2, <1>3, ListCommandMaintainsInv, ShowCommandMaintainsInv,
       CurrentCommandMaintainsInv, HandEditMaintainsInv DEF Next, Command

\* The inductive invariant holds in every reachable state.
LEMMA InvIsInvariant == Spec => []Inv
  BY InitEstablishesInv, NextMaintainsInv, PTL DEF Spec

----------------------------------------------------------------------------
(* What removing does                                                      *)

\* Where the entries at positions k and later come from, when position i has
\* been dropped.
After(i, k) == IF k < i THEN k ELSE k + 1

\* One removal: the entries that are left, and where the active index goes.
LEMMA RemoveElements ==
    ASSUME NEW cfg, Good(cfg), NEW i \in 1 .. Len(cfg.locs)
    PROVE  LET new == ConfigRemove(cfg, i)
           IN /\ Len(new.locs) = Len(cfg.locs) - 1
              /\ \A k \in 1 .. Len(cfg.locs) - 1 :
                   new.locs[k] = cfg.locs[After(i, k)]
              /\ new.active = AfterRemoval(cfg.active, i)
              /\ new.current = cfg.current
              /\ new.geo = cfg.geo
  <1>1. cfg \in Config /\ cfg.locs \in Seq(Location)
    BY DEF Good, Config
  <1>2. /\ Len(RemoveAt(cfg.locs, i)) = Len(cfg.locs) - 1
        /\ \A k \in 1 .. Len(cfg.locs) - 1 :
             RemoveAt(cfg.locs, i)[k] = IF k < i THEN cfg.locs[k] ELSE cfg.locs[k + 1]
    BY <1>1, RemoveAtElements
  <1>3. /\ ConfigRemove(cfg, i).locs = RemoveAt(cfg.locs, i)
        /\ ConfigRemove(cfg, i).active = AfterRemoval(cfg.active, i)
        /\ ConfigRemove(cfg, i).current = cfg.current
        /\ ConfigRemove(cfg, i).geo = cfg.geo
    BY <1>1 DEF ConfigRemove, Config
  <1> QED
    BY <1>2, <1>3 DEF After

\* A removed list, seen from the positions that are left.
Keeps(new, cfg, left) ==
    /\ new.locs = [k \in DOMAIN left |-> cfg.locs[left[k]]]
    /\ IF \E k \in DOMAIN left : left[k] = cfg.active
       THEN left[new.active] = cfg.active ELSE new.active = None

\* Naming one position removes that one ...
LEMMA RemoveOneKeepsTheRest ==
    ASSUME NEW cfg, Good(cfg), NEW i \in 1 .. Len(cfg.locs)
    PROVE  Keeps(ConfigRemove(cfg, i), cfg, Ascending((1 .. Len(cfg.locs)) \ {i}))
  <1> DEFINE n == Len(cfg.locs)
             left == [k \in 1 .. n - 1 |-> After(i, k)]
  <1>1. /\ n \in Nat /\ i \in 1 .. n
        /\ cfg.locs \in Seq(Location)
        /\ cfg.active \in 0 .. n
    BY DEF Good, Config, WellFormed, InRange, None
  <1> HIDE DEF n
  <1>2. Enumerates(left, (1 .. n) \ {i})
    <2>1. \A k \in 1 .. n - 1 : After(i, k) \in (1 .. n) \ {i}
      BY <1>1 DEF After
    <2>2. left \in Seq((1 .. n) \ {i}) /\ Len(left) = n - 1
      BY <1>1, <2>1
    <2>3. \A k, m \in 1 .. n - 1 : k < m => left[k] < left[m]
      BY <1>1 DEF After
    <2>4. ASSUME NEW p \in (1 .. n) \ {i}
          PROVE  \E k \in 1 .. n - 1 : left[k] = p
      <3>1. CASE p < i
        <4>1. p \in 1 .. n - 1 /\ left[p] = p
          BY <1>1, <3>1 DEF After
        <4> QED
          BY <4>1
      <3>2. CASE p > i
        <4>1. p - 1 \in 1 .. n - 1 /\ left[p - 1] = p
          BY <1>1, <3>2 DEF After
        <4> QED
          BY <4>1
      <3> QED
        BY <1>1, <3>1, <3>2
    <2> QED
      BY <2>2, <2>3, <2>4 DEF Enumerates
  <1>3. Ascending((1 .. n) \ {i}) = left
    BY <1>1, <1>2, AscendingIs
  <1>4. PICK new : new = ConfigRemove(cfg, i)
    OBVIOUS
  <1>5. /\ new.locs \in Seq(Location)
        /\ Len(new.locs) = n - 1
        /\ \A k \in 1 .. n - 1 : new.locs[k] = cfg.locs[After(i, k)]
        /\ new.active = AfterRemoval(cfg.active, i)
    BY <1>4, RemoveElements, RemoveMaintains DEF n, Good, Config
  <1>6. new.locs = [k \in DOMAIN left |-> cfg.locs[left[k]]]
    <2>1. DOMAIN left = 1 .. n - 1 /\ \A k \in 1 .. n - 1 : left[k] = After(i, k)
      OBVIOUS
    <2>2. new.locs = [k \in 1 .. n - 1 |-> new.locs[k]]
      BY <1>5
    <2> HIDE DEF left
    <2> QED
      BY <1>5, <2>1, <2>2
  <1>7. CASE cfg.active \in (1 .. n) \ {i}
    <2>1. new.active \in 1 .. n - 1 /\ After(i, new.active) = cfg.active
      BY <1>1, <1>5, <1>7 DEF AfterRemoval, After
    <2> QED
      BY <1>3, <1>4, <1>6, <2>1 DEF Keeps, n
  <1>8. CASE cfg.active \notin (1 .. n) \ {i}
    <2>1. new.active = None
      BY <1>1, <1>5, <1>8 DEF AfterRemoval, None
    <2>2. \A k \in 1 .. n - 1 : After(i, k) # cfg.active
      BY <1>1, <1>8 DEF After
    <2> QED
      BY <1>3, <1>4, <1>6, <2>1, <2>2 DEF Keeps, n
  <1> QED
    BY <1>7, <1>8

\* ... and naming two positions removes both, whatever their order: the later
\* one goes first, so the other is where it was.
LEMMA RemoveTwoKeepsTheRest ==
    ASSUME NEW cfg, Good(cfg), NEW low \in 1 .. Len(cfg.locs),
           NEW high \in 1 .. Len(cfg.locs), low < high
    PROVE  Keeps(ConfigRemove(ConfigRemove(cfg, high), low), cfg,
                 Ascending((1 .. Len(cfg.locs)) \ {low, high}))
  <1> DEFINE n == Len(cfg.locs)
             from(k) == After(high, After(low, k))
             left == [k \in 1 .. n - 2 |-> from(k)]
  <1>1. /\ n \in Nat /\ low \in 1 .. n /\ high \in 1 .. n /\ low < high
        /\ cfg.active \in 0 .. n
    BY DEF Good, Config, WellFormed, InRange, None
  <1>2. \A k \in 1 .. n - 2 : /\ After(low, k) \in 1 .. n - 1
                              /\ from(k) \in (1 .. n) \ {low, high}
    BY <1>1 DEF After
  <1>3. \A k, m \in 1 .. n - 2 : k < m => from(k) < from(m)
    BY <1>1 DEF After
  <1>4. ASSUME NEW p \in (1 .. n) \ {low, high}
        PROVE  \E k \in 1 .. n - 2 : from(k) = p
    <2>1. CASE p < low
      <3>1. p \in 1 .. n - 2 /\ from(p) = p
        BY <1>1, <2>1 DEF After
      <3> QED
        BY <3>1
    <2>2. CASE low < p /\ p < high
      <3>1. p - 1 \in 1 .. n - 2 /\ from(p - 1) = p
        BY <1>1, <2>2 DEF After
      <3> QED
        BY <3>1
    <2>3. CASE high < p
      <3>1. p - 2 \in 1 .. n - 2 /\ from(p - 2) = p
        BY <1>1, <2>3 DEF After
      <3> QED
        BY <3>1
    <2> QED
      BY <1>1, <2>1, <2>2, <2>3
  <1>5. PICK one : one = ConfigRemove(cfg, high)
    OBVIOUS
  <1>6. /\ Good(one)
        /\ Len(one.locs) = n - 1
        /\ \A k \in 1 .. n - 1 : one.locs[k] = cfg.locs[After(high, k)]
        /\ one.active = AfterRemoval(cfg.active, high)
    BY <1>5, RemoveElements, RemoveMaintains
  <1>7. low \in 1 .. Len(one.locs)
    BY <1>1, <1>6
  <1>8. PICK new : new = ConfigRemove(one, low)
    OBVIOUS
  <1>9. /\ Good(new)
        /\ Len(new.locs) = (n - 1) - 1
        /\ \A k \in 1 .. (n - 1) - 1 : new.locs[k] = one.locs[After(low, k)]
        /\ new.active = AfterRemoval(one.active, low)
    <2> HIDE DEF n
    <2>1. Good(new)
      BY <1>6, <1>7, <1>8, RemoveMaintains
    <2>2. /\ Len(new.locs) = Len(one.locs) - 1
          /\ \A k \in 1 .. Len(one.locs) - 1 : new.locs[k] = one.locs[After(low, k)]
          /\ new.active = AfterRemoval(one.active, low)
      BY <1>6, <1>7, <1>8, RemoveElements
    <2>3. Len(one.locs) = n - 1
      BY <1>6
    <2> QED
      BY <2>1, <2>2, <2>3
  <1> HIDE DEF n
  <1>10. Len(new.locs) = n - 2 /\ \A k \in 1 .. n - 2 : new.locs[k] = cfg.locs[from(k)]
    <2>1. ASSUME NEW k \in 1 .. n - 2
          PROVE  new.locs[k] = cfg.locs[from(k)]
      <3>1. After(low, k) \in 1 .. n - 1
        BY <1>2
      <3>2. (n - 1) - 1 = n - 2
        BY <1>1
      <3>3. new.locs[k] = one.locs[After(low, k)]
        BY <1>9, <3>2
      <3> QED
        BY <1>6, <3>1, <3>3
    <2> QED
      BY <1>1, <1>9, <2>1
  <1>11. new.active = AfterRemoval(AfterRemoval(cfg.active, high), low)
    BY <1>6, <1>9
  <1>12. /\ DOMAIN left = 1 .. n - 2
         /\ \A k \in 1 .. n - 2 : left[k] = from(k)
    OBVIOUS
  <1>13. Enumerates(left, (1 .. n) \ {low, high})
    <2>1. left \in Seq((1 .. n) \ {low, high}) /\ Len(left) = n - 2
      BY <1>1, <1>2
    <2>2. \A k, m \in 1 .. n - 2 : k < m => left[k] < left[m]
      BY <1>3
    <2>3. \A p \in (1 .. n) \ {low, high} : \E k \in 1 .. n - 2 : left[k] = p
      BY <1>4, <1>12
    <2> QED
      BY <2>1, <2>2, <2>3 DEF Enumerates
  <1>14. Ascending((1 .. n) \ {low, high}) = left
    BY <1>1, <1>13, AscendingIs
  <1>15. new.locs = [k \in DOMAIN left |-> cfg.locs[left[k]]]
    <2>1. new.locs = [k \in 1 .. n - 2 |-> new.locs[k]]
      <3>1. new.locs \in Seq(Location)
        BY <1>9 DEF Good, Config
      <3> QED
        BY <1>10, <3>1
    <2> HIDE DEF left, from
    <2> QED
      BY <1>10, <1>12, <2>1
  <1>16. CASE cfg.active \in (1 .. n) \ {low, high}
    <2>1. new.active \in 1 .. n - 2 /\ from(new.active) = cfg.active
      BY <1>1, <1>11, <1>16 DEF AfterRemoval, After, None
    <2> QED
      BY <1>5, <1>8, <1>12, <1>14, <1>15, <2>1 DEF Keeps, n
  <1>17. CASE cfg.active \notin (1 .. n) \ {low, high}
    <2>1. new.active = None
      BY <1>1, <1>11, <1>17 DEF AfterRemoval, None
    <2>2. \A k \in 1 .. n - 2 : left[k] # cfg.active
      BY <1>2, <1>12, <1>17
    <2> QED
      BY <1>5, <1>8, <1>12, <1>14, <1>15, <2>1, <2>2 DEF Keeps, n
  <1> QED
    BY <1>16, <1>17

\* remove, whichever positions it is given.
LEMMA RemoveBothKeepsTheRest ==
    ASSUME NEW cfg, Good(cfg), NEW i \in 1 .. Len(cfg.locs),
           NEW j \in 1 .. Len(cfg.locs)
    PROVE  Keeps(RemoveBoth(cfg, i, j), cfg,
                 Ascending((1 .. Len(cfg.locs)) \ {i, j}))
  <1>1. i \in Nat /\ j \in Nat
    OBVIOUS
  <1>2. CASE i = j
    <2>1. {i, j} = {i}
      BY <1>2
    <2> QED
      BY <1>2, <2>1, RemoveOneKeepsTheRest DEF RemoveBoth
  <1>3. CASE i < j
    BY <1>1, <1>3, RemoveTwoKeepsTheRest DEF RemoveBoth
  <1>4. CASE j < i
    <2>1. {i, j} = {j, i}
      OBVIOUS
    <2> QED
      BY <1>1, <1>4, <2>1, RemoveTwoKeepsTheRest DEF RemoveBoth
  <1> QED
    BY <1>1, <1>2, <1>3, <1>4

----------------------------------------------------------------------------
(* What is shown                                                           *)

\* The match of current depends on the places and the active index only.
LEMMA MatchOfSamePlaces ==
    ASSUME NEW c \in Config, NEW d \in Config,
           Len(d.locs) = Len(c.locs),
           \A i \in 1 .. Len(c.locs) : d.locs[i].place = c.locs[i].place,
           d.current.place = c.current.place, d.active = c.active
    PROVE  ConfigMatchCurrent(d) = ConfigMatchCurrent(c)
  <1>1. {i \in 1 .. Len(d.locs) : SamePlace(d.locs[i], d.current)}
          = {i \in 1 .. Len(c.locs) : SamePlace(c.locs[i], c.current)}
    BY DEF SamePlace
  <1>2. InRange(c, c.active) =>
          (SamePlace(d.locs[d.active], d.current)
             <=> SamePlace(c.locs[c.active], c.current))
    BY DEF InRange, SamePlace
  <1>3. InRange(d, d.active) <=> InRange(c, c.active)
    BY DEF InRange
  <1> QED
    BY <1>1, <1>2, <1>3 DEF ConfigMatchCurrent, SelectInSeq

\* A location that has been used is the one shown, whatever duplicates it has.
LEMMA UsedIsShown ==
    ASSUME NEW cfg, Good(cfg), NEW i \in 1 .. Len(cfg.locs)
    PROVE  Shown(ConfigUse(cfg, i)) = i
  <1>1. PICK new : new = ConfigUse(cfg, i)
    OBVIOUS
  <1>2. /\ new.locs = cfg.locs /\ new.active = i /\ ~new.geo
    BY <1>1 DEF ConfigUse, Good, Config
  <1>3. Tracks(new) /\ i # None
    BY <1>1, UseMaintains DEF None
  <1>4. SamePlace(new.locs[i], new.current)
    BY <1>2, <1>3, TracksMeans DEF ActiveIsCurrent
  <1> QED
    BY <1>1, <1>2, <1>4 DEF Shown, ConfigMatchCurrent, InRange

\* next and prev show the slot they are to show ...
LEMMA CycleShowsNextSlot ==
    ASSUME NEW cfg, Good(cfg), Slots(cfg) # 0, NEW direction \in {-1, 1}
    PROVE  /\ SlotShown(Cycle(cfg, direction)) = NextSlot(cfg, direction)
           /\ NextSlot(cfg, direction) \in 1 .. Slots(cfg)
           /\ Slots(Cycle(cfg, direction)) = Slots(cfg)
  <1>1. Slots(cfg) \in Nat \ {0}
    BY DEF Slots, Good, Config
  <1>2. Slots(cfg) = IF cfg.geoSlot THEN Len(cfg.locs) + 1 ELSE Len(cfg.locs)
    BY DEF Slots
  <1>3. SlotShown(cfg) \in 0 .. Len(cfg.locs) + 1 /\ Len(cfg.locs) \in Nat
    BY MatchRange DEF SlotShown, GeoPosition, Good, Config, None
  <1>4. NextSlot(cfg, direction) \in 1 .. Slots(cfg)
    BY <1>1, <1>3 DEF NextSlot
  <1>5. CASE NextSlot(cfg, direction) = GeoPosition(cfg)
    <2>1. PICK new : new = UseGeo(cfg)
      OBVIOUS
    <2>2. new.locs = cfg.locs /\ new.geo /\ new.geoSlot = cfg.geoSlot
      BY <2>1 DEF UseGeo, Good, Config
    <2>3. cfg.geoSlot
      BY <1>2, <1>3, <1>4, <1>5 DEF GeoPosition
    <2> QED
      BY <1>4, <1>5, <2>1, <2>2, <2>3 DEF Cycle, SlotShown, GeoPosition, Slots
  <1>6. CASE NextSlot(cfg, direction) # GeoPosition(cfg)
    <2>1. PICK i : i = NextSlot(cfg, direction)
      OBVIOUS
    <2>2. i \in 1 .. Len(cfg.locs)
      BY <1>2, <1>3, <1>4, <1>6, <2>1 DEF GeoPosition
    <2>3. PICK new : new = ConfigUse(cfg, i)
      OBVIOUS
    <2>4. new.locs = cfg.locs /\ ~new.geo /\ new.geoSlot = cfg.geoSlot
      BY <2>3 DEF ConfigUse, Good, Config
    <2>5. Shown(new) = i
      BY <2>2, <2>3, UsedIsShown
    <2> QED
      BY <1>4, <1>6, <2>1, <2>3, <2>4, <2>5 DEF Cycle, SlotShown, Shown, Slots
  <1> QED
    BY <1>4, <1>5, <1>6

\* ... also after the configuration has been saved and loaded again: the
\* active index survives rounding, because its entry is close to current.
LEMMA PressShowsNextSlot ==
    ASSUME NEW cfg, Good(cfg), Slots(cfg) # 0, NEW direction \in {-1, 1}
    PROVE  /\ Good(Pressed(cfg, direction))
           /\ SlotShown(Pressed(cfg, direction)) = NextSlot(cfg, direction)
           /\ NextSlot(cfg, direction) \in 1 .. Slots(cfg)
           /\ Slots(Pressed(cfg, direction)) = Slots(cfg)
  <1>1. PICK c : c = Cycle(cfg, direction)
    OBVIOUS
  <1>2. PICK d : d = Loaded(Saved(c))
    OBVIOUS
  <1>3. Good(c) /\ Tracks(c)
    BY <1>1, CycleMaintains
  <1>4. c.geo \/ c.active # None
    <2>1. PICK i : i = NextSlot(cfg, direction)
      OBVIOUS
    <2>2. i # None
      BY <2>1, CycleShowsNextSlot DEF Slots, Good, Config, None
    <2>3. c = UseGeo(cfg) \/ c = ConfigUse(cfg, i)
      BY <1>1, <2>1 DEF Cycle
    <2> QED
      BY <2>2, <2>3 DEF UseGeo, ConfigUse, Good, Config
  <1>5. Good(Saved(c)) /\ Tracks(Saved(c)) /\ Saved(c) \in Config
    BY <1>3, SavedMaintains DEF Good
  <1>6. Good(d) /\ Tracks(d)
    BY <1>2, <1>5, LoadedIsGood, LoadedTracks DEF Good
  <1>7. /\ Len(Saved(c).locs) = Len(c.locs) /\ Len(c.locs) \in Nat
        /\ Saved(c).active = c.active /\ c.active \in 0 .. Len(c.locs)
        /\ Saved(c).geo = c.geo /\ Saved(c).geoSlot = c.geoSlot
        /\ Len(c.locs) <= MaxLocations
    BY <1>3, SavedElements DEF Good, WellFormed, InRange, None, Config
  <1>8. /\ Len(d.locs) = Len(c.locs) /\ d.active = c.active
        /\ d.geo = c.geo /\ d.geoSlot = c.geoSlot
    <2>1. PICK f : f = Saved(c)
      OBVIOUS
    <2>2. /\ f \in Config /\ Len(f.locs) = Len(c.locs) /\ f.active = c.active
          /\ f.geo = c.geo /\ f.geoSlot = c.geoSlot
      BY <1>5, <1>7, <2>1
    <2>3. PICK n : n = Len(f.locs)
      OBVIOUS
    <2>4. n \in Nat /\ n <= MaxLocations /\ f.active \in 0 .. n
      BY <1>7, <2>2, <2>3
    <2>5. n = IF n < MaxLocations THEN n ELSE MaxLocations
      BY <2>4, LimitAssumption
    <2>6. f.active = IF f.active \in 1 .. n THEN f.active ELSE None
      BY <2>4 DEF None
    <2>7. PICK locs : locs = d.locs
      OBVIOUS
    <2>8. Len(locs) = n /\ d = [f EXCEPT !.locs = locs, !.active = f.active]
      BY <1>2, <2>1, <2>2, <2>3, <2>5, <2>6, <2>7, LoadedElements
    <2> QED
      BY <2>2, <2>3, <2>7, <2>8 DEF Config
  <1>9. ASSUME NEW x, Good(x), Tracks(x), x.active # None
        PROVE  ConfigMatchCurrent(x) = x.active
    BY <1>9, TracksMeans DEF ActiveIsCurrent, ConfigMatchCurrent
  <1>10. SlotShown(d) = SlotShown(c) /\ Slots(d) = Slots(c)
    BY <1>3, <1>4, <1>6, <1>8, <1>9 DEF SlotShown, Slots, GeoPosition
  <1> QED
    BY <1>1, <1>2, <1>6, <1>10, CycleShowsNextSlot DEF Pressed

\* The slots follow each other in a ring.
LEMMA PrevUndoesNext ==
    ASSUME NEW cfg, Good(cfg), Slots(cfg) # 0, SlotShown(cfg) # None
    PROVE  SlotShown(Pressed(Pressed(cfg, 1), -1)) = SlotShown(cfg)
  <1>1. PICK new : new = Pressed(cfg, 1)
    OBVIOUS
  <1>2. PICK n : n = Slots(cfg)
    OBVIOUS
  <1>3. PICK s : s = SlotShown(cfg)
    OBVIOUS
  <1>4. n \in Nat \ {0} /\ n \in {Len(cfg.locs), Len(cfg.locs) + 1}
    BY <1>2 DEF Slots, Good, Config
  <1>5. s \in 1 .. n
    <2>1. Len(cfg.locs) \in Nat
      BY DEF Good, Config
    <2> QED
      BY <1>2, <1>3, <2>1, MatchRange
         DEF SlotShown, Slots, GeoPosition, Good, None
  <1>6. Good(new)
    BY <1>1, PressShowsNextSlot
  <1>7. SlotShown(new) = ((s - 1 + 1) % n) + 1 /\ Slots(new) = n
    BY <1>1, <1>2, <1>3, PressShowsNextSlot DEF NextSlot
  <1>8. SlotShown(new) = IF s = n THEN 1 ELSE s + 1
    BY <1>4, <1>5, <1>7
  <1>9. Slots(new) # 0
    BY <1>4, <1>7
  <1>10. SlotShown(Pressed(new, -1)) = ((SlotShown(new) - 1 + (-1)) % n) + 1
    BY <1>6, <1>7, <1>8, <1>9, <1>5, PressShowsNextSlot DEF NextSlot, None
  <1>11. ((SlotShown(new) - 1 + (-1)) % n) + 1 = s
    BY <1>4, <1>5, <1>8
  <1> QED
    BY <1>1, <1>3, <1>10, <1>11

\* Two records that agree in their places show the same position.
LEMMA ShownOfSamePlaces ==
    ASSUME NEW c \in Config, NEW d \in Config,
           Len(d.locs) = Len(c.locs),
           \A i \in 1 .. Len(c.locs) : d.locs[i].place = c.locs[i].place,
           d.current.place = c.current.place, d.active = c.active, d.geo = c.geo
    PROVE  Shown(d) = Shown(c)
  BY MatchOfSamePlaces DEF Shown

\* An entry whose units were set has them, and the same entry is shown.
LEMMA WithUnitsElements ==
    ASSUME NEW cfg, Good(cfg), NEW i \in 1 .. Len(cfg.locs), NEW units \in Units
    PROVE  LET new == WithUnits(cfg, i, units)
           IN /\ new.locs[i].units = units
              /\ \A j \in 1 .. Len(cfg.locs) : j # i => new.locs[j] = cfg.locs[j]
              /\ new.current = cfg.current
              /\ Shown(new) = Shown(cfg)
  <1>1. cfg \in Config /\ cfg.locs \in Seq(Location) /\ cfg.locs[i] \in Location
    BY DEF Good, Config
  <1>2. PICK entry : entry = [cfg.locs[i] EXCEPT !.place = cfg.locs[i].place,
                                                 !.units = units]
    OBVIOUS
  <1>3. /\ entry.place = cfg.locs[i].place /\ entry.units = units
        /\ entry.isDefault = cfg.locs[i].isDefault /\ entry \in Location
    BY <1>1, <1>2 DEF Location
  <1>4. PICK new : new = WithUnits(cfg, i, units)
    OBVIOUS
  <1>5. new = [cfg EXCEPT !.locs = [cfg.locs EXCEPT ![i] = entry]]
    BY <1>2, <1>4 DEF WithUnits, WithEntry
  <1>6. /\ Good(new)
        /\ new.locs = [cfg.locs EXCEPT ![i] = entry]
        /\ new.active = cfg.active /\ new.geo = cfg.geo
        /\ new.current = cfg.current
    BY <1>1, <1>3, <1>5, EntryMaintains
  <1>7. /\ Len(new.locs) = Len(cfg.locs)
        /\ new.locs[i] = entry
        /\ \A j \in 1 .. Len(cfg.locs) : j # i => new.locs[j] = cfg.locs[j]
    BY <1>1, <1>6
  <1>8. Shown(new) = Shown(cfg)
    <2>1. \A j \in 1 .. Len(cfg.locs) : new.locs[j].place = cfg.locs[j].place
      BY <1>3, <1>7
    <2> QED
      BY <1>1, <1>6, <1>7, <2>1, ShownOfSamePlaces DEF Good
  <1> QED
    BY <1>3, <1>4, <1>6, <1>7, <1>8

\* The shown entry is a position of the list.
LEMMA ShownRange ==
    ASSUME NEW cfg, Good(cfg)
    PROVE  Shown(cfg) \in 0 .. Len(cfg.locs) /\ Len(cfg.locs) \in Nat
  BY MatchRange DEF Shown, Good, Config, None

\* The entry at position i and current name the same units.
AgreeAt(cfg, i) == cfg.locs[i].units = cfg.current.units

\* Copying units makes the twins agree, whatever they were before.
LEMMA SyncTwinAgrees ==
    ASSUME NEW cfg, Good(cfg), Shown(cfg) # None
    PROVE  AgreeAt(SyncTwin(cfg), Shown(cfg))
  <1>1. PICK i : i = Shown(cfg)
    OBVIOUS
  <1>2. PICK units : units = cfg.current.units
    OBVIOUS
  <1>3. i \in 1 .. Len(cfg.locs) /\ units \in Units
    <2>1. i \in 1 .. Len(cfg.locs)
      BY <1>1, ShownRange DEF None
    <2>2. cfg.current \in Location
      BY DEF Good, Config
    <2> QED
      BY <1>2, <2>1, <2>2 DEF Location
  <1>4. SyncTwin(cfg) = WithUnits(cfg, i, units)
    BY <1>1, <1>2 DEF SyncTwin
  <1> QED
    BY <1>1, <1>2, <1>3, <1>4, WithUnitsElements DEF AgreeAt

\* What the twins say of each other survives saving.
LEMMA SavedAgrees ==
    ASSUME NEW cfg, Good(cfg), NEW i \in 1 .. Len(cfg.locs), AgreeAt(cfg, i)
    PROVE  AgreeAt(Saved(cfg), i)
  BY SavedElements DEF Good, AgreeAt

\* A list that grew at its end, and a current at the same place, show the same.
LEMMA ShownAfterAdd ==
    ASSUME NEW cfg, Good(cfg), Shown(cfg) # None,
           NEW loc \in Location, loc.place = cfg.current.place,
           NEW new, new = [AddIfRoom(cfg, loc) EXCEPT !.current = loc]
    PROVE  Shown(new) = Shown(cfg)
  <1>1. PICK add : add = AddIfRoom(cfg, loc)
    OBVIOUS
  <1>2. /\ cfg \in Config /\ cfg.locs \in Seq(Location) /\ Len(cfg.locs) \in Nat
        /\ cfg.active \in 0 .. Len(cfg.locs)
    BY DEF Good, Config, WellFormed, InRange, None
  <1>3. Good(add) /\ add \in Config
    BY <1>1, AddIfRoomMaintains DEF Good
  <1>4. PICK here : here = AsCurrent(loc)
    OBVIOUS
  <1>5. here \in Location /\ ~here.isDefault
    BY <1>4 DEF AsCurrent, Location
  <1>6. /\ Len(add.locs) \in {Len(cfg.locs), Len(cfg.locs) + 1}
        /\ \A i \in 1 .. Len(cfg.locs) : add.locs[i].place = cfg.locs[i].place
        /\ add.active = cfg.active /\ add.geo = cfg.geo
    <2>1. CASE Full(cfg)
      BY <1>1, <2>1 DEF AddIfRoom
    <2>2. CASE ~Full(cfg)
      <3>1. add = [cfg EXCEPT !.locs = Append(cfg.locs, here)]
        BY <1>1, <1>4, <1>5, <2>2 DEF AddIfRoom, ConfigAdd
      <3>2. /\ add.locs = Append(cfg.locs, here)
            /\ add.active = cfg.active /\ add.geo = cfg.geo
        BY <1>2, <3>1 DEF Config
      <3> QED
        BY <1>2, <1>5, <3>2
    <2> QED
      BY <2>1, <2>2
  <1>7. /\ new.locs = add.locs /\ new.active = cfg.active /\ new.geo = cfg.geo
        /\ new.current = loc /\ new \in Config
    BY <1>1, <1>3, <1>6 DEF Config
  <1>8. /\ ~cfg.geo /\ ConfigMatchCurrent(cfg) # None
        /\ Shown(cfg) = ConfigMatchCurrent(cfg)
        /\ Shown(new) = ConfigMatchCurrent(new)
    BY <1>7 DEF Shown
  <1> DEFINE Hits(c) == {i \in 1 .. Len(c.locs) : SamePlace(c.locs[i], c.current)}
  <1>9. \A i \in 1 .. Len(cfg.locs) :
          SamePlace(new.locs[i], new.current) <=> SamePlace(cfg.locs[i], cfg.current)
    BY <1>6, <1>7 DEF SamePlace
  <1>10. CASE InRange(cfg, cfg.active) /\ SamePlace(cfg.locs[cfg.active], cfg.current)
    <2>1. InRange(new, new.active) /\ SamePlace(new.locs[new.active], new.current)
      BY <1>2, <1>6, <1>7, <1>9, <1>10 DEF InRange
    <2> QED
      BY <1>7, <1>8, <1>10, <2>1 DEF ConfigMatchCurrent
  <1>11. CASE ~(InRange(cfg, cfg.active) /\ SamePlace(cfg.locs[cfg.active], cfg.current))
    <2>1. ~(InRange(new, new.active) /\ SamePlace(new.locs[new.active], new.current))
      BY <1>2, <1>7, <1>9, <1>11 DEF InRange, None
    <2>2. /\ ConfigMatchCurrent(cfg) = IF Hits(cfg) = {} THEN 0 ELSE Min(Hits(cfg))
          /\ ConfigMatchCurrent(new) = IF Hits(new) = {} THEN 0 ELSE Min(Hits(new))
      BY <1>11, <2>1 DEF ConfigMatchCurrent, SelectInSeq
    <2>3. PICK g : g = Hits(cfg)
      OBVIOUS
    <2>4. PICK h : h = Hits(new)
      OBVIOUS
    <2>5. g # {} /\ g \subseteq h /\ h \cap (1 .. Len(cfg.locs)) = g
      BY <1>2, <1>6, <1>7, <1>8, <1>9, <2>2, <2>3, <2>4 DEF None
    <2>6. h \in SUBSET (1 .. Len(cfg.locs) + 1) /\ g \in SUBSET (1 .. Len(cfg.locs))
      BY <1>2, <1>6, <1>7, <2>3, <2>4
    <2> HIDE DEF Hits
    <2>7. /\ Min(g) \in g /\ \A k \in g : Min(g) <= k
          /\ Min(h) \in h /\ \A k \in h : Min(h) <= k
      <3>1. Len(cfg.locs) + 1 \in Nat /\ h # {}
        BY <1>2, <2>5
      <3> QED
        BY <1>2, <2>5, <2>6, <3>1, MinOfPositions
    <2>8. Min(h) <= Min(g) /\ Min(h) \in 1 .. Len(cfg.locs)
      BY <1>2, <2>5, <2>6, <2>7
    <2>9. Min(h) = Min(g)
      BY <2>5, <2>6, <2>7, <2>8
    <2> QED
      BY <1>8, <2>2, <2>3, <2>4, <2>5, <2>9
  <1> QED
    BY <1>10, <1>11

\* edit: the shown entry is loaded again, and another one leaves the twins be.
LEMMA EditKeepsTwins ==
    ASSUME NEW cfg, Good(cfg), NEW i \in 1 .. Len(cfg.locs),
           NEW place \in Place, NEW units \in Units,
           NEW new, new = Edited(cfg, i, place, units),
           Shown(cfg) # None, AgreeAt(cfg, Shown(cfg))
    PROVE  /\ Good(new) /\ Len(new.locs) = Len(cfg.locs)
           /\ AgreeAt(new, Shown(cfg))
  <1>1. PICK edited : edited = WithEntry(cfg, i, place, units)
    OBVIOUS
  <1>2. cfg.locs \in Seq(Location) /\ cfg.locs[i] \in Location
    BY DEF Good, Config
  <1>3. PICK entry : entry = [cfg.locs[i] EXCEPT !.place = place, !.units = units]
    OBVIOUS
  <1>4. edited = [cfg EXCEPT !.locs = [cfg.locs EXCEPT ![i] = entry]]
    BY <1>1, <1>3 DEF WithEntry
  <1>5. entry \in Location /\ entry.isDefault = cfg.locs[i].isDefault
    BY <1>2, <1>3 DEF Location
  <1>6. /\ Good(edited)
        /\ edited.locs = [cfg.locs EXCEPT ![i] = entry]
        /\ edited.current = cfg.current
    BY <1>2, <1>4, <1>5, EntryMaintains
  <1>7. /\ Len(edited.locs) = Len(cfg.locs)
        /\ \A j \in 1 .. Len(cfg.locs) : j # i => edited.locs[j] = cfg.locs[j]
        /\ edited.locs[i] \in Location
    BY <1>2, <1>5, <1>6
  <1>8. CASE Shown(cfg) = i
    <2>1. new = ConfigUse(edited, i)
      BY <1>1, <1>8 DEF Edited
    <2>2. /\ new.locs = edited.locs
          /\ new.current = AsCurrent(edited.locs[i])
      BY <1>6, <2>1 DEF ConfigUse, Good, Config
    <2>3. new.current.units = edited.locs[i].units
      BY <1>7, <2>2 DEF AsCurrent, Location
    <2>4. Good(new)
      BY <1>6, <1>7, <2>1, UseMaintains
    <2> QED
      BY <1>7, <1>8, <2>2, <2>3, <2>4 DEF AgreeAt
  <1>9. CASE Shown(cfg) # i
    <2>1. new = edited
      BY <1>1, <1>9 DEF Edited
    <2> QED
      BY <1>6, <1>7, <1>9, <2>1, ShownRange DEF AgreeAt, None
  <1> QED
    BY <1>8, <1>9

\* units --location: current follows when the entry is the one shown.
LEMMA UnitsOfKeepsTwins ==
    ASSUME NEW cfg, Good(cfg), NEW i \in 1 .. Len(cfg.locs), NEW units \in Units,
           NEW new, new = UnitsOf(cfg, i, units),
           Shown(cfg) # None, AgreeAt(cfg, Shown(cfg))
    PROVE  /\ Good(new) /\ Len(new.locs) = Len(cfg.locs)
           /\ AgreeAt(new, Shown(cfg))
  <1>1. PICK with : with = WithUnits(cfg, i, units)
    OBVIOUS
  <1>2. /\ with.locs[i].units = units
        /\ \A j \in 1 .. Len(cfg.locs) : j # i => with.locs[j] = cfg.locs[j]
        /\ with.current = cfg.current
        /\ Shown(with) = Shown(cfg)
    BY <1>1, WithUnitsElements
  <1>3. Good(with) /\ with \in Config /\ Len(with.locs) = Len(cfg.locs)
    BY <1>1, WithUnitsMaintains DEF Good
  <1>4. CASE Shown(with) = i
    <2>1. PICK loc : loc = [with.current EXCEPT !.units = units]
      OBVIOUS
    <2>2. new = [with EXCEPT !.current = loc] /\ loc.units = units /\ loc \in Location
      <3>1. new = [with EXCEPT !.current.units = units]
        BY <1>1, <1>4 DEF UnitsOf
      <3> QED
        BY <1>3, <2>1, <3>1 DEF Config, Location
    <2>3. new.locs = with.locs /\ new.current = loc
      BY <1>3, <2>2 DEF Config
    <2>4. Good(new)
      BY <1>3, <2>2, CurrentMaintains
    <2> QED
      BY <1>2, <1>3, <1>4, <2>2, <2>3, <2>4 DEF AgreeAt
  <1>5. CASE Shown(with) # i
    <2>1. new = with
      BY <1>1, <1>5 DEF UnitsOf
    <2> QED
      BY <1>2, <1>3, <1>5, <2>1, ShownRange DEF AgreeAt, None
  <1> QED
    BY <1>4, <1>5

----------------------------------------------------------------------------
(* The theorems                                                            *)

\* Type correctness: whatever sequence of commands and hand edits runs, the
\* file is a configuration record.
THEOREM TypeCorrect == Spec => []TypeOK
  BY InvIsInvariant, PTL DEF Inv

\* For every limit, place set and tolerance, what a command saves is well
\* formed: one default, at most MaxLocations entries, an active index in range.
THEOREM SavedFilesAreWellFormed == Spec => []SavedIsWellFormed
  BY InvIsInvariant, PTL DEF Inv

\* For every limit, place set and tolerance, commands alone keep the active
\* index on the location loaded into current, and None under geolocation.
THEOREM ActiveIndexIsLoaded == Spec => []ActiveIsLoaded
  <1>1. Inv => ActiveIsLoaded
    BY TracksMeans DEF Inv, Exact, ActiveIsLoaded
  <1> QED
    BY <1>1, InvIsInvariant, PTL

\* remove takes away exactly what was named, for every list and every pair of
\* positions, and the active index stays with its location.
THEOREM RemovalsKeepTheRest == Spec => RemovalKeepsTheRest
  <1>1. ASSUME Inv, NEW i \in Positions, NEW j \in Positions, RemoveCommand(i, j),
               NEW left, left = Ascending(Positions \ {i, j})
        PROVE  /\ file'.locs = [k \in DOMAIN left |-> SavedLocation(Cfg.locs[left[k]])]
               /\ IF Cfg.active \in Positions \ {i, j}
                  THEN left[file'.active] = Cfg.active
                  ELSE file'.active = None
    <2>1. Good(Cfg)
      BY <1>1, CfgMaintains
    <2>2. PICK new : new = RemoveBoth(Cfg, i, j)
      OBVIOUS
    <2>3. Keeps(new, Cfg, left)
      BY <1>1, <2>1, <2>2, RemoveBothKeepsTheRest DEF Positions
    <2>4. Enumerates(left, Positions \ {i, j})
      <3>1. Len(Cfg.locs) \in Nat
        BY <2>1 DEF Good, Config
      <3>2. Positions \ {i, j} \in SUBSET (1 .. Len(Cfg.locs))
        BY DEF Positions
      <3> QED
        BY <1>1, <3>1, <3>2, AscendingEnumerates
    <2>5. Cfg.active \in Positions \ {i, j}
            <=> \E k \in DOMAIN left : left[k] = Cfg.active
      <3>1. PICK rest : rest = Positions \ {i, j}
        OBVIOUS
      <3>2. rest \in SUBSET Int
        BY <3>1 DEF Positions
      <3>3. /\ DOMAIN left = 1 .. Len(left)
            /\ \A k \in 1 .. Len(left) : left[k] \in rest
            /\ \A p \in rest : \E k \in 1 .. Len(left) : left[k] = p
        BY <2>4, <3>1, <3>2, EnumerationElements
      <3>4. Cfg.active \in rest <=> \E k \in DOMAIN left : left[k] = Cfg.active
        BY <3>3, Zenon
      <3> QED
        BY <3>1, <3>4
    <2>6. /\ file'.locs = [k \in DOMAIN new.locs |-> SavedLocation(new.locs[k])]
          /\ file'.active = new.active
      <3>1. file' = Saved(new)
        BY <1>1, <2>2 DEF RemoveCommand, Saves, SavesAs
      <3>2. new \in Config
        BY <1>1, <2>1, <2>2, RemoveBothIsGood DEF Good, Positions
      <3> QED
        BY <3>1, <3>2 DEF Saved, Config
    <2>7. new.locs = [k \in DOMAIN left |-> Cfg.locs[left[k]]]
      BY <2>3 DEF Keeps
    <2>8. DOMAIN new.locs = DOMAIN left
          /\ \A k \in DOMAIN left : new.locs[k] = Cfg.locs[left[k]]
      BY <2>7
    <2>9. file'.locs = [k \in DOMAIN left |-> SavedLocation(Cfg.locs[left[k]])]
      BY <2>6, <2>8
    <2> QED
      BY <2>3, <2>5, <2>6, <2>9 DEF Keeps
  <1>2. Inv /\ [Next]_vars =>
          [ Len(file'.locs) < Len(file.locs) =>
            \A i, j \in Positions : RemoveCommand(i, j) =>
              LET left == Ascending(Positions \ {i, j})
              IN /\ file'.locs =
                      [k \in DOMAIN left |-> SavedLocation(Cfg.locs[left[k]])]
                 /\ IF Cfg.active \in Positions \ {i, j}
                    THEN left[file'.active] = Cfg.active
                    ELSE file'.active = None ]_vars
    BY <1>1
  <1> QED
    BY <1>2, InvIsInvariant, PTL DEF Spec, RemovalKeepsTheRest

\* The commands about units, and edit, never separate the shown location from
\* its saved entry.
THEOREM TwinsAreKept == Spec => TwinsStayInStep
  <1> DEFINE Separated == /\ ~TwinsAgree(file')
                          /\ Shown(file') = Shown(Cfg)
                          /\ TwinsAgree(Cfg)
  <1>1. Separated => /\ Shown(Cfg) # None
                     /\ AgreeAt(Cfg, Shown(Cfg))
                     /\ ~AgreeAt(file', Shown(Cfg))
    BY DEF TwinsAgree, AgreeAt
  <1>2. ASSUME Inv, Separated, NEW new, Good(new), Saves(new),
               Len(new.locs) >= Len(Cfg.locs)
        PROVE  ~AgreeAt(new, Shown(Cfg))
    <2>1. file' = Saved(new)
      BY <1>2 DEF Saves, SavesAs
    <2>2. Shown(Cfg) \in 1 .. Len(new.locs)
      <3>1. Shown(Cfg) \in 0 .. Len(Cfg.locs) /\ Len(Cfg.locs) \in Nat
        BY <1>2, CfgMaintains, ShownRange
      <3>2. Len(new.locs) \in Nat /\ Shown(Cfg) # None
        BY <1>1, <1>2 DEF Good, Config
      <3> QED
        BY <1>2, <3>1, <3>2 DEF None
    <2> QED
      BY <1>1, <1>2, <2>1, <2>2, SavedAgrees
  <1> HIDE DEF Separated
  <1>3. ASSUME Inv, Separated, NEW i \in Positions, NEW place \in Place,
               NEW units \in Units, EditCommand(i, place, units)
        PROVE  FALSE
    <2>1. PICK new : new = Edited(Cfg, i, place, units)
      OBVIOUS
    <2>2. Good(new) /\ AgreeAt(new, Shown(Cfg)) /\ Len(new.locs) = Len(Cfg.locs)
      BY <1>1, <1>3, <2>1, CfgMaintains, EditKeepsTwins DEF Positions
    <2>3. Len(new.locs) >= Len(Cfg.locs) /\ Saves(new)
      BY <1>3, <2>1, <2>2 DEF EditCommand, Good, Config
    <2> QED
      BY <1>2, <1>3, <2>2, <2>3
  <1>4. ASSUME Inv, Separated, NEW units \in Units, NEW save \in BOOLEAN,
               SetUnitsCommand(units, save, FALSE)
        PROVE  FALSE
    <2>1. PICK loc : loc = [Cfg.current EXCEPT !.units = units]
      OBVIOUS
    <2>2. PICK cfg : cfg = IF save THEN AddIfRoom(Cfg, loc) ELSE Cfg
      OBVIOUS
    <2>3. PICK now : now = [cfg EXCEPT !.current = loc]
      OBVIOUS
    <2>4. Good(Cfg) /\ Cfg \in Config
      BY <1>4, CfgMaintains DEF Good
    <2>5. loc \in Location /\ loc.place = Cfg.current.place
      BY <2>1, <2>4 DEF Config, Location
    <2>6. Good(cfg) /\ Len(cfg.locs) >= Len(Cfg.locs) /\ Len(cfg.locs) \in Nat
      <3>1. Good(cfg) /\ (save => Len(cfg.locs) >= Len(Cfg.locs))
        BY <2>2, <2>4, <2>5, AddIfRoomMaintains
      <3>2. Len(cfg.locs) \in Nat /\ Len(Cfg.locs) \in Nat
        BY <2>4, <3>1 DEF Good, Config
      <3> QED
        BY <2>2, <3>1, <3>2
    <2>7. Good(now) /\ now.locs = cfg.locs
      BY <2>3, <2>5, <2>6, CurrentMaintains
    <2>8. Shown(now) = Shown(Cfg)
      <3>1. CASE save
        BY <1>1, <1>4, <2>2, <2>3, <2>4, <2>5, <3>1, ShownAfterAdd
      <3>2. CASE ~save
        <4>1. /\ now.locs = Cfg.locs /\ now.active = Cfg.active
              /\ now.geo = Cfg.geo /\ now.current = loc
          BY <2>2, <2>3, <2>4, <3>2 DEF Config
        <4> QED
          BY <2>4, <2>5, <2>7, <4>1, ShownOfSamePlaces DEF Good
      <3> QED
        BY <3>1, <3>2
    <2>9. AgreeAt(SyncTwin(now), Shown(Cfg))
      BY <1>1, <1>4, <2>7, <2>8, SyncTwinAgrees
    <2>10. Good(SyncTwin(now)) /\ Len(SyncTwin(now).locs) = Len(now.locs)
      BY <2>7, SyncTwinMaintains
    <2>11. Saves(SyncTwin(now))
      BY <1>4, <2>1, <2>2, <2>3 DEF SetUnitsCommand
    <2> QED
      BY <1>2, <1>4, <2>6, <2>7, <2>9, <2>10, <2>11
  <1>5. ASSUME Inv, Separated, NEW units \in Units, UnitsCommand(units)
        PROVE  FALSE
    <2>1. units \in Units /\ SetUnitsCommand(units, FALSE, FALSE)
      BY <1>5 DEF UnitsCommand, SetUnitsCommand
    <2> QED
      BY <1>4, <1>5, <2>1
  <1>6. ASSUME Inv, Separated, NEW i \in Positions, NEW units \in Units,
               UnitsOfCommand(i, units)
        PROVE  FALSE
    <2>1. PICK new : new = UnitsOf(Cfg, i, units)
      OBVIOUS
    <2>2. Good(new) /\ AgreeAt(new, Shown(Cfg)) /\ Len(new.locs) = Len(Cfg.locs)
      BY <1>1, <1>6, <2>1, CfgMaintains, UnitsOfKeepsTwins DEF Positions
    <2>3. Len(new.locs) >= Len(Cfg.locs) /\ Saves(new)
      BY <1>6, <2>1, <2>2 DEF UnitsOfCommand, Good, Config
    <2> QED
      BY <1>2, <1>6, <2>2, <2>3
  <1>7. Inv /\ [Next]_vars =>
          [ ~TwinsAgree(file') /\ Shown(file') = Shown(Cfg) /\ TwinsAgree(Cfg) =>
              /\ \A i \in Positions, p \in Place, u \in Units : ~EditCommand(i, p, u)
              /\ \A u \in Units, save \in BOOLEAN : ~SetUnitsCommand(u, save, FALSE)
              /\ \A u \in Units : ~UnitsCommand(u)
              /\ \A i \in Positions, u \in Units : ~UnitsOfCommand(i, u) ]_vars
    BY <1>3, <1>4, <1>5, <1>6 DEF Separated
  <1> QED
    BY <1>7, InvIsInvariant, PTL DEF Spec, TwinsStayInStep

\* f is the configuration after 0 .. n presses of next.
Presses(f, cfg, n) ==
    f = [k \in 0 .. n |-> IF k = 0 THEN cfg ELSE Pressed(f[k - 1], 1)]

\* In terms of elements.
LEMMA PressesElements ==
    ASSUME NEW cfg, NEW n \in Nat, NEW f, Presses(f, cfg, n)
    PROVE  f[0] = cfg /\ \A k \in 1 .. n : f[k] = Pressed(f[k - 1], 1)
  <1>1. \A k \in 0 .. n : f[k] = IF k = 0 THEN cfg ELSE Pressed(f[k - 1], 1)
    BY Zenon DEF Presses
  <1>2. 0 \in 0 .. n /\ \A k \in 1 .. n : k \in 0 .. n /\ k # 0
    OBVIOUS
  <1> QED
    BY <1>1, <1>2

\* There is such a function for every n: at the least number without one, the
\* function for the number before it could be continued.
LEMMA PressesExist ==
    ASSUME NEW cfg, NEW n \in Nat
    PROVE  \E f : Presses(f, cfg, n)
  <1> DEFINE B == {m \in 1 .. n : ~ \E f : Presses(f, cfg, m)}
  <1>1. \E f : Presses(f, cfg, 0)
    <2>1. PICK f : f = [k \in 0 .. 0 |-> cfg]
      OBVIOUS
    <2>2. f = [k \in 0 .. 0 |-> IF k = 0 THEN cfg ELSE Pressed(f[k - 1], 1)]
      BY <2>1
    <2> QED
      BY <2>2 DEF Presses
  <1>2. ASSUME B # {} PROVE FALSE
    <2>1. PICK m : m = Min(B)
      OBVIOUS
    <2>2. m \in B /\ \A k \in B : m <= k
      <3>1. B \in SUBSET (1 .. n)
        OBVIOUS
      <3> HIDE DEF B
      <3> QED
        BY <1>2, <2>1, <3>1, MinOfPositions
    <2>3. m \in 1 .. n /\ ~ \E f : Presses(f, cfg, m)
      BY <2>2
    <2>4. \E f : Presses(f, cfg, m - 1)
      <3>1. CASE m = 1
        BY <1>1, <3>1
      <3>2. CASE m # 1
        <4>1. m - 1 \in 1 .. n /\ ~(m <= m - 1)
          BY <2>3, <3>2
        <4> QED
          BY <2>2, <4>1
      <3> QED
        BY <3>1, <3>2
    <2>5. PICK f : Presses(f, cfg, m - 1)
      BY <2>4
    <2>6. f[0] = cfg /\ \A k \in 1 .. m - 1 : f[k] = Pressed(f[k - 1], 1)
      <3>1. PICK p : p = m - 1
        OBVIOUS
      <3>2. p \in Nat
        BY <2>3, <3>1
      <3>3. Presses(f, cfg, p)
        BY <2>5, <3>1
      <3>4. f[0] = cfg /\ \A k \in 1 .. p : f[k] = Pressed(f[k - 1], 1)
        <4> HIDE DEF B
        <4> QED
          BY <3>2, <3>3, PressesElements
      <3> QED
        BY <3>1, <3>4
    <2>7. PICK g : g = [k \in 0 .. m |-> IF k < m THEN f[k] ELSE Pressed(f[m - 1], 1)]
      OBVIOUS
    <2>8. ASSUME NEW k \in 0 .. m
          PROVE  g[k] = IF k = 0 THEN cfg ELSE Pressed(g[k - 1], 1)
      <3>1. CASE k = 0
        BY <2>3, <2>6, <2>7, <3>1
      <3>2. CASE k # 0
        <4>1. k - 1 \in 0 .. m /\ k - 1 < m /\ k \in 1 .. m
          BY <2>3, <3>2
        <4>2. g[k - 1] = f[k - 1]
          BY <2>7, <4>1
        <4>3. g[k] = Pressed(f[k - 1], 1)
          BY <2>3, <2>6, <2>7, <4>1
        <4> QED
          BY <3>2, <4>2, <4>3
      <3> QED
        BY <3>1, <3>2
    <2>9. PICK h : h = [k \in 0 .. m |-> IF k = 0 THEN cfg ELSE Pressed(g[k - 1], 1)]
      OBVIOUS
    <2>10. g = h
      BY <2>7, <2>8, <2>9
    <2>11. Presses(g, cfg, m)
      BY <2>9, <2>10 DEF Presses
    <2> QED
      BY <2>3, <2>11
  <1>3. CASE n = 0
    BY <1>1, <1>3
  <1>4. CASE n # 0
    <2>1. n \in 1 .. n /\ n \notin B
      BY <1>2, <1>4
    <2> QED
      BY <2>1
  <1> QED
    BY <1>3, <1>4

\* AfterNexts is one.
LEMMA AfterNextsElements ==
    ASSUME NEW cfg, Slots(cfg) \in Nat
    PROVE  /\ AfterNexts(cfg)[0] = cfg
           /\ \A k \in 1 .. Slots(cfg) :
                AfterNexts(cfg)[k] = Pressed(AfterNexts(cfg)[k - 1], 1)
  <1>1. AfterNexts(cfg) = CHOOSE f : Presses(f, cfg, Slots(cfg))
    BY DEF AfterNexts, Presses
  <1>2. Presses(AfterNexts(cfg), cfg, Slots(cfg))
    BY <1>1, PressesExist
  <1> QED
    BY <1>2, PressesElements

\* Slot k of a ring of n slots that starts at slot q.
Ring(n, q, k) == IF q + k - 1 <= n THEN q + k - 1 ELSE q + k - 1 - n

\* Pressing next goes round the ring.
LEMMA NextsGoRound ==
    ASSUME NEW cfg, Good(cfg), NEW n \in Nat \ {0}, n = Slots(cfg),
           NEW q, q = NextSlot(cfg, 1)
    PROVE  /\ q \in 1 .. n
           /\ \A k \in 1 .. n : SlotShown(AfterNexts(cfg)[k]) = Ring(n, q, k)
  <1>1. PICK f : f = AfterNexts(cfg)
    OBVIOUS
  <1>2. f[0] = cfg /\ \A k \in 1 .. n : f[k] = Pressed(f[k - 1], 1)
    BY <1>1, AfterNextsElements
  <1> DEFINE Right(k) == /\ Good(f[k]) /\ Slots(f[k]) = n
                         /\ SlotShown(f[k]) = Ring(n, q, k)
             B == {k \in 1 .. n : ~Right(k)}
  <1>3. q \in 1 .. n
    BY PressShowsNextSlot
  <1>4. Right(1)
    <2>1. f[1] = Pressed(cfg, 1)
      BY <1>2
    <2>2. Ring(n, q, 1) = q
      BY <1>3 DEF Ring
    <2> QED
      BY <2>1, <2>2, PressShowsNextSlot
  <1>5. ASSUME NEW k \in 1 .. n, k # 1, Right(k - 1)
        PROVE  Right(k)
    <2>1. PICK c : c = f[k - 1]
      OBVIOUS
    <2>2. PICK s : s = Ring(n, q, k - 1)
      OBVIOUS
    <2>3. Good(c) /\ Slots(c) = n /\ SlotShown(c) = s
      BY <1>5, <2>1, <2>2
    <2>4. s \in 1 .. n /\ Ring(n, q, k) = IF s = n THEN 1 ELSE s + 1
      BY <1>3, <1>5, <2>2 DEF Ring
    <2>5. f[k] = Pressed(c, 1)
      BY <1>2, <2>1
    <2>6. NextSlot(c, 1) = ((s - 1 + 1) % n) + 1
      BY <2>3, <2>4 DEF NextSlot, None
    <2>7. ((s - 1 + 1) % n) + 1 = IF s = n THEN 1 ELSE s + 1
      BY <2>4
    <2> QED
      BY <2>3, <2>4, <2>5, <2>6, <2>7, PressShowsNextSlot
  <1>6. ASSUME B # {} PROVE FALSE
    <2>1. PICK m : m = Min(B)
      OBVIOUS
    <2>2. m \in B /\ \A k \in B : m <= k
      <3>1. B \in SUBSET (1 .. n)
        OBVIOUS
      <3> HIDE DEF B
      <3> QED
        BY <1>6, <2>1, <3>1, MinOfPositions
    <2> HIDE DEF Right
    <2>3. m \in 1 .. n /\ ~Right(m)
      BY <2>2
    <2>4. m # 1
      BY <1>4, <2>3
    <2>5. m - 1 \in 1 .. n /\ ~(m <= m - 1)
      BY <2>3, <2>4
    <2>6. Right(m - 1)
      BY <2>2, <2>5
    <2> QED
      BY <1>5, <2>3, <2>4, <2>6
  <1>7. ASSUME NEW k \in 1 .. n
        PROVE  SlotShown(f[k]) = Ring(n, q, k)
    BY <1>6
  <1> QED
    BY <1>1, <1>3, <1>7

\* next shows every saved location and geolocation exactly once before it
\* comes round, and prev undoes next, whatever duplicates and near places the
\* list holds and wherever the rotation starts (app_cycle).
THEOREM CyclesRotate == Spec => []CycleIsARotation
  <1>1. ASSUME Inv, CanCycle(Cfg)
        PROVE  /\ {SlotShown(AfterNexts(Cfg)[k]) : k \in 1 .. Slots(Cfg)}
                    = 1 .. Slots(Cfg)
               /\ SlotShown(Cfg) # None =>
                    SlotShown(Pressed(Pressed(Cfg, 1), -1)) = SlotShown(Cfg)
    <2>1. Good(Cfg) /\ Slots(Cfg) # 0
      BY <1>1, CfgMaintains DEF CanCycle
    <2>2. PICK n : n = Slots(Cfg)
      OBVIOUS
    <2>3. n \in Nat \ {0}
      BY <2>1, <2>2 DEF Slots, Good, Config
    <2>4. PICK q : q = NextSlot(Cfg, 1)
      OBVIOUS
    <2>5. /\ q \in 1 .. n
          /\ \A k \in 1 .. n : SlotShown(AfterNexts(Cfg)[k]) = Ring(n, q, k)
      BY <2>1, <2>2, <2>3, <2>4, NextsGoRound
    <2>6. {SlotShown(AfterNexts(Cfg)[k]) : k \in 1 .. n} = 1 .. n
      <3>1. \A k \in 1 .. n : Ring(n, q, k) \in 1 .. n
        BY <2>3, <2>5 DEF Ring
      <3>2. ASSUME NEW t \in 1 .. n
            PROVE  \E k \in 1 .. n : Ring(n, q, k) = t
        <4>1. CASE q <= t
          <5>1. t - q + 1 \in 1 .. n /\ Ring(n, q, t - q + 1) = t
            BY <2>3, <2>5, <4>1 DEF Ring
          <5> QED
            BY <5>1
        <4>2. CASE t < q
          <5>1. t - q + 1 + n \in 1 .. n /\ Ring(n, q, t - q + 1 + n) = t
            BY <2>3, <2>5, <4>2 DEF Ring
          <5> QED
            BY <5>1
        <4> QED
          BY <2>3, <2>5, <4>1, <4>2
      <3> QED
        BY <2>5, <3>1, <3>2
    <2> QED
      BY <2>1, <2>2, <2>6, PrevUndoesNext
  <1>2. Inv => CycleIsARotation
    BY <1>1 DEF CycleIsARotation
  <1> QED
    BY <1>2, InvIsInvariant, PTL

=============================================================================
