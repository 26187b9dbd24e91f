----------------------------- MODULE LibraryProofs -----------------------------
(* What holds of the parts that are called: the pools two ends derive, the *)
(* counters and the health sweep.                                          *)
EXTENDS PoolDerivation, Metrics, HealthSweep,
        FunctionTheorems, FiniteSetTheorems, SequenceTheorems, TLAPS

(***************************************************************************)
(* The pools (PoolDerivation).  Two ends that hold the same entries derive *)
(* nested pools, of the size asked for, whatever the draws: because        *)
(* sorting by a strict order leaves no choice.                             *)
(***************************************************************************)
-----------------------------------------------------------------------------
(* Sorting.                                                                *)

Strict(S, order) == \A x, y \in S : <<x, y>> \in order => <<y, x>> \notin order

(* What the definition says.                                               *)
LEMMA SortedFacts ==
  ASSUME NEW S, NEW order, NEW s \in Sorted(S, order)
  PROVE  /\ s \in [1..Cardinality(S) -> S]
         /\ \A i, j \in 1..Cardinality(S) : i < j => <<s[i], s[j]>> \in order
         /\ \A y \in S : \E i \in 1..Cardinality(S) : s[i] = y
         /\ \A i, j \in 1..Cardinality(S) : s[i] = s[j] => i = j
<1> DEFINE D == 1..Cardinality(S)
<1>1. s \in Bijection(D, S) /\ \A i, j \in D : i < j => <<s[i], s[j]>> \in order
  BY DEF Sorted
<1> HIDE DEF D
<1>2. /\ s \in [D -> S]
      /\ \A y \in S : \E i \in D : s[i] = y
      /\ \A i, j \in D : s[i] = s[j] => i = j
  BY <1>1 DEF Bijection, Injection, Surjection, IsInjective
<1> QED
  BY <1>1, <1>2 DEF D

(* In a sorted enumeration the place of an element is the number of those  *)
(* before it, plus one.                                                    *)
LEMMA SortedRank ==
  ASSUME NEW S, IsFiniteSet(S), NEW order, Strict(S, order),
         NEW s \in Sorted(S, order), NEW i \in 1..Cardinality(S)
  PROVE  Cardinality({ y \in S : <<y, s[i]>> \in order }) = i - 1
<1> DEFINE n == Cardinality(S)
           Before == { y \in S : <<y, s[i]>> \in order }
           f == [h \in 1..(i - 1) |-> s[h]]
<1>1. n \in Nat
  BY FS_CardinalityType
<1>2. /\ s \in [1..n -> S]
      /\ \A h, j \in 1..n : h < j => <<s[h], s[j]>> \in order
      /\ \A y \in S : \E h \in 1..n : s[h] = y
      /\ \A h, j \in 1..n : s[h] = s[j] => h = j
  BY SortedFacts
<1>3. ASSUME NEW h \in 1..n PROVE <<s[h], s[i]>> \in order <=> h < i
  <2>1. s[h] \in S /\ s[i] \in S
    BY <1>2
  <2>2. CASE h < i
    BY <2>2, <1>2
  <2>3. CASE i < h
    <3>1. <<s[i], s[h]>> \in order
      BY <2>3, <1>2
    <3> QED
      BY <1>1, <2>1, <2>3, <3>1 DEF Strict
  <2>4. CASE h = i
    BY <2>1, <2>4 DEF Strict
  <2> QED
    BY <1>1, <2>2, <2>3, <2>4
<1>4. f \in Bijection(1..(i - 1), Before)
  <2>1. f \in [1..(i - 1) -> Before]
    BY <1>1, <1>2, <1>3
  <2>2. \A h, j \in 1..(i - 1) : f[h] = f[j] => h = j
    BY <1>1, <1>2
  <2>3. \A y \in Before : \E h \in 1..(i - 1) : f[h] = y
    BY <1>1, <1>2, <1>3
  <2> QED
    BY <2>1, <2>2, <2>3, Fun_IsBij
<1>5. IsFiniteSet(1..(i - 1)) /\ Cardinality(1..(i - 1)) = i - 1
  <2>1. i - 1 \in Int /\ 1 \in Int
    BY <1>1
  <2>2. /\ IsFiniteSet(1..(i - 1))
        /\ Cardinality(1..(i - 1)) = IF 1 > i - 1 THEN 0 ELSE i - 1 - 1 + 1
    BY ONLY <2>1, FS_Interval
  <2> QED
    BY <1>1, <2>2
<1> QED
  BY <1>4, <1>5, FS_Bijection, Fun_ExistsBij

(* So there is only one.                                                   *)
LEMMA SortedUnique ==
  ASSUME NEW S, IsFiniteSet(S), NEW order, Strict(S, order),
         NEW s \in Sorted(S, order), NEW t \in Sorted(S, order)
  PROVE  s = t
<1> DEFINE n == Cardinality(S)
<1>1. n \in Nat
  BY FS_CardinalityType
<1>2. s \in [1..n -> S] /\ t \in [1..n -> S] /\ \A y \in S : \E j \in 1..n : t[j] = y
  BY SortedFacts
<1>3. ASSUME NEW i \in 1..n PROVE s[i] = t[i]
  <2>1. PICK j \in 1..n : t[j] = s[i]
    BY <1>2
  <2>2. Cardinality({ y \in S : <<y, s[i]>> \in order }) = i - 1
    BY SortedRank
  <2>3. Cardinality({ y \in S : <<y, t[j]>> \in order }) = j - 1
    BY SortedRank
  <2>4. i - 1 = j - 1
    BY <2>1, <2>2, <2>3
  <2> QED
    BY <1>1, <2>1, <2>4
<1>4. s = [i \in 1..n |-> s[i]] /\ t = [i \in 1..n |-> t[i]]
  BY <1>2
<1> QED
  BY <1>3, <1>4

-----------------------------------------------------------------------------
(* Master lists.                                                           *)

Loadable == [sni : Nat \ {0}, weight : Nat \ {0}]

(* The list of a configuration is finite, and its entries are numbered     *)
(* from 1.                                                                 *)
LEMMA ListFacts ==
  ASSUME NEW c, IsConfig(c)
  PROVE  /\ c.list \in [1..Len(c.list) -> Loadable]
         /\ Len(c.list) \in Nat \ {0}
         /\ DOMAIN c.list = 1..Len(c.list)
         /\ IsFiniteSet(DOMAIN c.list) /\ Cardinality(DOMAIN c.list) = Len(c.list)
         /\ c.list \in Bijection(DOMAIN c.list, Range(c.list))
         /\ IsFiniteSet(Range(c.list)) /\ Cardinality(Range(c.list)) = Len(c.list)
         /\ Range(c.list) \subseteq Loadable
<1> DEFINE l == c.list
           n == Len(l)
<1>1. l \in [1..n -> Loadable] /\ n \in Nat \ {0} /\ DOMAIN l = 1..n
  <2>1. l \in Seq(Loadable) /\ n \in 1..MaxLen
    BY DEF IsConfig, Loadable
  <2>2. l \in [1..n -> Loadable] /\ DOMAIN l = 1..n
    BY <2>1, LenProperties
  <2> QED
    BY <2>1, <2>2, DerivationAssumption
<1>2. IsFiniteSet(DOMAIN l) /\ Cardinality(DOMAIN l) = n
  <2>1. 1 \in Int /\ n \in Int /\ ~(1 > n)
    BY <1>1
  <2>2. IsFiniteSet(1..n) /\ Cardinality(1..n) = n - 1 + 1
    BY ONLY <2>1, FS_Interval
  <2> QED
    BY <1>1, <2>2
<1>3. l \in Bijection(DOMAIN l, Range(l))
  <2>1. ASSUME NEW i \in 1..n, NEW j \in 1..n, l[i] = l[j] PROVE i = j
    <3>1. l[i].sni \in Nat /\ l[j].sni = l[i].sni
      BY <1>1, <2>1 DEF Loadable
    <3>2. /\ i < j => l[i].sni < l[j].sni
          /\ j < i => l[j].sni < l[i].sni
      BY <1>1 DEF IsConfig
    <3> QED
      BY <1>1, <3>1, <3>2
  <2>2. l \in Injection(DOMAIN l, Loadable)
    BY <1>1, <2>1, Fun_IsInj
  <2> QED
    BY <2>2, Fun_InjMeansBijImage
<1>4. IsFiniteSet(Range(l)) /\ Cardinality(Range(l)) = n
  BY <1>2, <1>3, FS_Bijection, Fun_ExistsBij
<1>5. Range(l) \subseteq Loadable
  BY <1>1 DEF Range
<1> QED
  BY <1>1, <1>2, <1>3, <1>4, <1>5

(* Two loaded lists with the same entries are the same list: their order   *)
(* is the order of names.                                                  *)
LEMMA SameEntriesSameList ==
  ASSUME NEW c, IsConfig(c), NEW d, IsConfig(d), Range(c.list) = Range(d.list)
  PROVE  c.list = d.list
<1> DEFINE R == Range(c.list)
<1>1. ASSUME NEW b, IsConfig(b), Range(b.list) = R PROVE b.list \in Sorted(R, BySni(R))
  <2>1. /\ b.list \in Bijection(1..Cardinality(R), R)
        /\ Cardinality(R) = Len(b.list) /\ DOMAIN b.list = 1..Cardinality(R)
    BY <1>1, ListFacts
  <2>2. \A i, j \in 1..Cardinality(R) : i < j =>
          b.list[i] \in R /\ b.list[j] \in R /\ b.list[i].sni < b.list[j].sni
    BY <1>1, <2>1 DEF IsConfig, Range
  <2> QED
    BY <2>1, <2>2 DEF Sorted, BySni
<1>2. Strict(R, BySni(R))
  <2>1. R \subseteq Loadable
    BY ListFacts
  <2> QED
    BY <2>1 DEF Strict, BySni, Loadable
<1>3. IsFiniteSet(R)
  BY ListFacts
<1> QED
  BY <1>1, <1>2, <1>3, SortedUnique

-----------------------------------------------------------------------------
(* The sampler.                                                            *)

(* No two entries can each be before the other, ties included.             *)
LEMMA KeysStrict ==
  ASSUME NEW c, IsConfig(c), NEW draws \in Draws
  PROVE  Strict(DOMAIN c.list, ByKey(c.list, draws))
<1> SUFFICES ASSUME NEW i \in DOMAIN c.list, NEW j \in DOMAIN c.list,
                    Wins(c.list, draws, i, j), Wins(c.list, draws, j, i)
             PROVE  FALSE
  BY DEF Strict, ByKey
<1> DEFINE x == draws[i] * c.list[j].weight
           y == draws[j] * c.list[i].weight
<1>1. /\ i \in 1..MaxLen /\ j \in 1..MaxLen
      /\ c.list[i] \in Loadable /\ c.list[j] \in Loadable
  <2>1. i \in 1..Len(c.list) /\ j \in 1..Len(c.list) /\ Len(c.list) \in 1..MaxLen
    BY ListFacts DEF IsConfig
  <2>2. c.list \in [1..Len(c.list) -> Loadable]
    BY ListFacts
  <2> QED
    BY <2>1, <2>2, DerivationAssumption
<1>2. draws[i] \in Nat /\ draws[j] \in Nat
  BY <1>1, DerivationAssumption DEF Draws
<1>3. x \in Nat /\ y \in Nat
  BY <1>1, <1>2 DEF Loadable
<1>4. /\ x < y \/ (x = y /\ c.list[i].sni < c.list[j].sni)
      /\ y < x \/ (y = x /\ c.list[j].sni < c.list[i].sni)
  BY DEF Wins
<1>5. c.list[i].sni \in Nat /\ c.list[j].sni \in Nat
  BY <1>1 DEF Loadable
<1> HIDE DEF x, y
<1> QED
  BY <1>3, <1>4, <1>5

(* Less asked of the same list and draws is part of more.                  *)
LEMMA SubsetsNest ==
  ASSUME NEW c, IsConfig(c), NEW draws \in Draws, NEW k \in Nat, NEW m \in Nat, k <= m,
         NEW P \in SubsetFromSeed(c.list, draws, k),
         NEW Q \in SubsetFromSeed(c.list, draws, m)
  PROVE  P \subseteq Q
<1> DEFINE n == Len(c.list)
           order == Sorted(DOMAIN c.list, ByKey(c.list, draws))
<1>1. PICK s \in order : P = { c.list[s[i]] : i \in 1..Clamp(k, n) }
  BY DEF SubsetFromSeed
<1>2. PICK t \in order : Q = { c.list[t[i]] : i \in 1..Clamp(m, n) }
  BY DEF SubsetFromSeed
<1>3. s = t
  BY KeysStrict, ListFacts, SortedUnique
<1>4. 1..Clamp(k, n) \subseteq 1..Clamp(m, n)
  BY ListFacts DEF Clamp
<1> QED
  BY <1>1, <1>2, <1>3, <1>4

(* The subset has min(k, n) entries, all of the list.                      *)
LEMMA SubsetSize ==
  ASSUME NEW c, IsConfig(c), NEW draws \in Draws, NEW k \in Nat,
         NEW P \in SubsetFromSeed(c.list, draws, k)
  PROVE  /\ P \subseteq Range(c.list)
         /\ IsFiniteSet(P) /\ Cardinality(P) = Clamp(k, Len(c.list))
<1> DEFINE n == Len(c.list)
           m == Clamp(k, n)
<1>1. PICK s \in Sorted(DOMAIN c.list, ByKey(c.list, draws)) : P = { c.list[s[i]] : i \in 1..m }
  BY DEF SubsetFromSeed
<1>2. n \in Nat /\ m \in Nat /\ m <= n /\ 1..m \subseteq 1..n /\ DOMAIN c.list = 1..n
  BY ListFacts DEF Clamp
<1>3. s \in [1..n -> 1..n] /\ \A i, j \in 1..n : s[i] = s[j] => i = j
  BY <1>2, ListFacts, SortedFacts
<1>4. \A i, j \in 1..n : c.list[i] = c.list[j] => i = j
  BY <1>2, ListFacts, Fun_BijectionProperties, Fun_InjectionProperties
<1> DEFINE f == [i \in 1..m |-> c.list[s[i]]]
<1>5. f \in Bijection(1..m, P)
  <2>1. f \in [1..m -> P]
    BY <1>1
  <2>2. \A i, j \in 1..m : f[i] = f[j] => i = j
    BY <1>2, <1>3, <1>4
  <2>3. \A p \in P : \E i \in 1..m : f[i] = p
    BY <1>1
  <2> QED
    BY <2>1, <2>2, <2>3, Fun_IsBij
<1>6. IsFiniteSet(1..m) /\ Cardinality(1..m) = m
  <2>1. 1 \in Int /\ m \in Int
    BY <1>2
  <2>2. IsFiniteSet(1..m) /\ Cardinality(1..m) = IF 1 > m THEN 0 ELSE m - 1 + 1
    BY ONLY <2>1, FS_Interval
  <2> QED
    BY <1>2, <2>2
<1>7. P \subseteq Range(c.list)
  BY <1>1, <1>2, <1>3 DEF Range
<1> QED
  BY <1>5, <1>6, <1>7, FS_Bijection, Fun_ExistsBij
(* Another weight leaves every other entry in its place.                   *)
LEMMA ReweightedList ==
  ASSUME NEW c, IsConfig(c), NEW d, IsConfig(d), NEW i \in DOMAIN c.list,
         NEW y \in Range(d.list), y.sni = c.list[i].sni,
         Range(c.list) \ {c.list[i]} = Range(d.list) \ {y}
  PROVE  d.list = [c.list EXCEPT ![i] = y]
<1> DEFINE l == [c.list EXCEPT ![i] = y]
           b == [key |-> c.key, k |-> c.k, list |-> l]
           n == Len(c.list)
<1>1. /\ c.list \in [1..n -> Loadable] /\ DOMAIN c.list = 1..n /\ n \in Nat \ {0}
      /\ c.list \in Seq(Loadable) /\ n \in 1..MaxLen
      /\ y \in Loadable
  BY ListFacts DEF IsConfig, Loadable
<1>2. /\ l \in [1..n -> Loadable] /\ DOMAIN l = 1..n /\ l[i] = y
      /\ \A j \in 1..n : j # i => l[j] = c.list[j]
  BY <1>1
<1>3. l \in Seq(Loadable) /\ Len(l) = n
  BY <1>1, ExceptSeq
<1>4. \A h, j \in 1..n : h < j => l[h].sni < l[j].sni
  <2>1. \A j \in 1..n : l[j].sni = c.list[j].sni
    BY <1>2
  <2>2. \A h, j \in 1..n : h < j => c.list[h].sni < c.list[j].sni
    BY <1>1 DEF IsConfig
  <2> QED
    BY <2>1, <2>2
<1>5. IsConfig(b)
  <2>1. b.key \in KeyMaterial /\ b.k \in Nat \ {0}
    BY DEF IsConfig
  <2>2. b.list = l
    OBVIOUS
  <2> HIDE DEF l, b
  <2> QED
    BY <1>1, <1>2, <1>3, <1>4, <2>1, <2>2 DEF IsConfig, Loadable
<1>6. Range(l) = Range(d.list)
  <2>1. \A j \in 1..n : c.list[j] = c.list[i] => j = i
    BY <1>1, ListFacts, Fun_BijectionProperties, Fun_InjectionProperties
  <2>2. Range(l) = { c.list[j] : j \in (1..n) \ {i} } \cup {y}
    <3>1. Range(l) \subseteq { c.list[j] : j \in (1..n) \ {i} } \cup {y}
      BY <1>2 DEF Range
    <3>2. y \in Range(l)
      BY <1>1, <1>2 DEF Range
    <3>3. { c.list[j] : j \in (1..n) \ {i} } \subseteq Range(l)
      BY <1>2 DEF Range
    <3> QED
      BY <3>1, <3>2, <3>3
  <2>3. Range(c.list) \ {c.list[i]} = { c.list[j] : j \in (1..n) \ {i} }
    BY <1>1, <2>1 DEF Range
  <2> QED
    BY <2>2, <2>3
<1>7. b.list = d.list
  BY <1>5, <1>6, SameEntriesSameList
<1> QED
  BY <1>7

(* The same for the indices of a list.                                     *)
LEMMA SortedIndices ==
  ASSUME NEW n \in Nat, Cardinality(1..n) = n, IsFiniteSet(1..n),
         NEW order, Strict(1..n, order), NEW s \in Sorted(1..n, order)
  PROVE  /\ s \in [1..n -> 1..n]
         /\ \A i \in 1..n : \E h \in 1..n : s[h] = i
         /\ \A h \in 1..n : Cardinality({ j \in 1..n : <<j, s[h]>> \in order }) = h - 1
<1> DEFINE I == 1..n
<1>1. I = 1..Cardinality(I)
  OBVIOUS
<1>2. IsFiniteSet(I) /\ Strict(I, order) /\ s \in Sorted(I, order)
  OBVIOUS
<1> HIDE DEF I
<1>3. /\ s \in [I -> I]
      /\ \A i \in I : \E h \in I : s[h] = i
  BY <1>1, <1>2, SortedFacts
<1>4. \A h \in I : Cardinality({ j \in I : <<j, s[h]>> \in order }) = h - 1
  <2> TAKE h \in I
  <2>1. h \in 1..Cardinality(I)
    BY <1>1
  <2> QED
    BY <1>2, <2>1, SortedRank
<1> QED
  BY <1>3, <1>4 DEF I

(* Products of naturals, so that the solver need not look into them.       *)
LEMMA ProductMonotonic ==
  ASSUME NEW a \in Nat, NEW b \in Nat, NEW e \in Nat, b <= e
  PROVE  a * b <= a * e /\ a * b \in Nat /\ a * e \in Nat
<1>1. e - b \in Nat
  OBVIOUS
<1>2. a * (e - b) \in Nat /\ a * b \in Nat /\ a * e \in Nat
  BY <1>1
<1>3. a * e = a * b + a * (e - b)
  OBVIOUS
<1> QED
  BY <1>2, <1>3

(* Of two lists that differ in the weight of entry i, the one in which it  *)
(* is heavier keeps it if the other does.                                  *)
LEMMA HeavierIsKept ==
  ASSUME NEW c, IsConfig(c), NEW d, IsConfig(d), NEW draws \in Draws, NEW k \in Nat,
         NEW i \in DOMAIN c.list, NEW y \in Loadable,
         y.sni = c.list[i].sni, c.list[i].weight <= y.weight,
         d.list = [c.list EXCEPT ![i] = y],
         NEW P \in SubsetFromSeed(c.list, draws, k), c.list[i] \in P,
         NEW Q \in SubsetFromSeed(d.list, draws, k)
  PROVE  y \in Q
<1> DEFINE n == Len(c.list)
           m == Clamp(k, n)
           BeforeC == { j \in DOMAIN c.list : <<j, i>> \in ByKey(c.list, draws) }
           BeforeD == { j \in DOMAIN d.list : <<j, i>> \in ByKey(d.list, draws) }
<1>1. /\ n \in Nat /\ m \in Nat /\ m <= n
      /\ DOMAIN c.list = 1..n /\ DOMAIN d.list = 1..n /\ Len(d.list) = n
      /\ IsFiniteSet(1..n) /\ Cardinality(1..n) = n
      /\ c.list \in [1..n -> Loadable]
  BY ListFacts DEF Clamp
<1>2. PICK s \in Sorted(1..n, ByKey(c.list, draws)) : P = { c.list[s[h]] : h \in 1..m }
  BY <1>1 DEF SubsetFromSeed
<1>3. PICK t \in Sorted(1..n, ByKey(d.list, draws)) : Q = { d.list[t[h]] : h \in 1..m }
  BY <1>1 DEF SubsetFromSeed
<1>3a. /\ s \in [1..n -> 1..n]
      /\ \A h \in 1..n : Cardinality({ j \in 1..n : <<j, s[h]>> \in ByKey(c.list, draws) }) = h - 1
  <2> DEFINE order == ByKey(c.list, draws)
  <2>1. Strict(1..n, order)
    BY <1>1, KeysStrict
  <2>2. n \in Nat /\ Cardinality(1..n) = n /\ IsFiniteSet(1..n)
    BY <1>1
  <2>3. s \in Sorted(1..n, order)
    OBVIOUS
  <2> HIDE DEF order, n
  <2> QED
    BY <2>1, <2>2, <2>3, SortedIndices DEF order
<1>3b. /\ \A j \in 1..n : \E g \in 1..n : t[g] = j
      /\ \A g \in 1..n : Cardinality({ j \in 1..n : <<j, t[g]>> \in ByKey(d.list, draws) }) = g - 1
  <2> DEFINE order == ByKey(d.list, draws)
  <2>1. Strict(1..n, order)
    BY <1>1, KeysStrict
  <2>2. n \in Nat /\ Cardinality(1..n) = n /\ IsFiniteSet(1..n)
    BY <1>1
  <2>3. t \in Sorted(1..n, order)
    OBVIOUS
  <2> HIDE DEF order, n
  <2>4. \A j \in 1..n : \E g \in 1..n : t[g] = j
    BY ONLY <2>1, <2>2, <2>3, SortedIndices
  <2>5. \A g \in 1..n : Cardinality({ j \in 1..n : <<j, t[g]>> \in order }) = g - 1
    BY <2>1, <2>2, <2>3, SortedIndices
  <2> QED
    BY <2>4, <2>5 DEF order
<1>4. PICK h \in 1..m : s[h] = i
  <2>1. PICK h \in 1..m : c.list[s[h]] = c.list[i]
    BY <1>2
  <2>2. s[h] \in 1..n
    <3>1. h \in 1..n
      BY <1>1
    <3>2. s \in [1..n -> 1..n]
      BY <1>3a
    <3> QED
      BY ONLY <3>1, <3>2
  <2>3. \A a, b \in 1..n : c.list[a] = c.list[b] => a = b
    BY <1>1, ListFacts, Fun_BijectionProperties, Fun_InjectionProperties
  <2> QED
    BY <1>1, <2>1, <2>2, <2>3
<1>5. PICK g \in 1..n : t[g] = i
  BY <1>1, <1>3b
<1>6. Cardinality(BeforeC) = h - 1
  BY <1>1, <1>4, <1>3a
<1>7. Cardinality(BeforeD) = g - 1
  BY <1>1, <1>5, <1>3b
<1>8. BeforeD \subseteq BeforeC
  <2> SUFFICES ASSUME NEW j \in 1..n, Wins(d.list, draws, j, i)
               PROVE  Wins(c.list, draws, j, i)
    BY <1>1 DEF ByKey
  <2>1. j # i
    <3>1. ~ Wins(d.list, draws, i, i)
      BY <1>1, KeysStrict DEF Strict, ByKey
    <3> QED
      BY <3>1
  <2>2. d.list[j] = c.list[j] /\ d.list[i] = y
    BY <1>1, <2>1
  <2> DEFINE dj == draws[j]
             di == draws[i]
             wj == c.list[j].weight
             wi == c.list[i].weight
  <2>3. /\ dj \in Nat /\ di \in Nat /\ wj \in Nat /\ wi \in Nat /\ y.weight \in Nat
    <3>1. MaxLen \in Nat /\ MaxDraw \in Nat /\ n \in 1..MaxLen
      BY DerivationAssumption DEF IsConfig
    <3>2. j \in 1..MaxLen /\ i \in 1..MaxLen
      BY <1>1, <3>1
    <3>3. draws[j] \in 0..MaxDraw /\ draws[i] \in 0..MaxDraw
      BY <3>2 DEF Draws
    <3>4. c.list[j] \in Loadable /\ c.list[i] \in Loadable
      BY <1>1
    <3>5. c.list[j].weight \in Nat /\ c.list[i].weight \in Nat /\ y.weight \in Nat
      BY <3>4 DEF Loadable
    <3> QED
      BY <3>1, <3>3, <3>5
  <2>4. \/ dj * y.weight < di * wj
        \/ dj * y.weight = di * wj /\ c.list[j].sni < c.list[i].sni
    BY <2>2 DEF Wins
  <2>5. wi <= y.weight
    OBVIOUS
  <2> HIDE DEF dj, di, wj, wi
  <2>6. dj * wi <= dj * y.weight /\ dj * wi \in Nat /\ dj * y.weight \in Nat /\ di * wj \in Nat
    <3>1. dj * wi <= dj * y.weight /\ dj * wi \in Nat /\ dj * y.weight \in Nat
      BY <2>3, <2>5, ProductMonotonic
    <3>2. di * wj \in Nat
      BY <2>3, ProductMonotonic
    <3> QED
      BY <3>1, <3>2
  <2>7. \/ dj * wi < di * wj
        \/ dj * wi = di * wj /\ c.list[j].sni < c.list[i].sni
    BY <2>4, <2>6
  <2> QED
    BY <2>7 DEF Wins, dj, di, wj, wi
<1>9. g <= h
  <2>1. IsFiniteSet(BeforeC)
    BY <1>1, FS_Subset
  <2>2. Cardinality(BeforeD) <= Cardinality(BeforeC)
    BY <1>8, <2>1, FS_Subset
  <2> QED
    BY <1>1, <1>6, <1>7, <2>2
<1>10. g \in 1..m /\ d.list[t[g]] = y
  BY <1>1, <1>5, <1>9
<1> QED
  BY <1>3, <1>10

-----------------------------------------------------------------------------
(* The system.                                                             *)

(* What loads is a configuration the sampler can work with.                *)
LEMMA LoadedIsConfig ==
  ASSUME NEW raw \in RawConfigs, Acceptable(raw), NEW list \in MasterList(raw.pool)
  PROVE  IsConfig([key |-> raw.key, k |-> raw.k, list |-> list])
<1> DEFINE es == raw.pool
           R == Range(es)
           n == Cardinality(R)
<1>1. /\ es \in [1..Len(es) -> Entry] /\ DOMAIN es = 1..Len(es)
      /\ Len(es) \in Nat \ {0} /\ Len(es) <= MaxLen
  BY DerivationAssumption, LenProperties, EmptySeq DEF Acceptable, ValidPool
<1>2. R \subseteq Loadable /\ R # {}
  <2>1. ASSUME NEW i \in 1..Len(es) PROVE es[i] \in Loadable
    <3>1. es[i] \in Entry /\ es[i].sni # 0 /\ es[i].weight # 0
      BY <1>1 DEF Acceptable, ValidPool
    <3> QED
      BY <3>1 DEF Entry, Loadable
  <2>2. R = { es[i] : i \in 1..Len(es) } /\ 1 \in 1..Len(es)
    BY <1>1 DEF Range
  <2>3. R \subseteq Loadable
    BY <2>1, <2>2
  <2>4. es[1] \in R
    BY <2>2
  <2> QED
    BY <2>3, <2>4
<1>3. IsFiniteSet(R) /\ n <= Len(es)
  <2>1. es \in Surjection(1..Len(es), R)
    BY <1>1, Fun_RangeProperties
  <2>2. 1 \in Int /\ Len(es) \in Int /\ ~(1 > Len(es))
    BY <1>1
  <2>3. IsFiniteSet(1..Len(es)) /\ Cardinality(1..Len(es)) = Len(es) - 1 + 1
    BY ONLY <2>2, FS_Interval
  <2>4. IsFiniteSet(R) /\ n <= Cardinality(1..Len(es))
    BY <2>1, <2>3, FS_Surjection
  <2> QED
    BY <1>1, <2>3, <2>4
<1>4. n \in Nat /\ n # 0
  BY <1>2, <1>3, FS_CardinalityType, FS_EmptySet
<1>5. /\ list \in [1..n -> R]
      /\ \A i, j \in 1..n : i < j => <<list[i], list[j]>> \in BySni(R)
  BY SortedFacts DEF MasterList
<1>6. list \in Seq(Loadable) /\ Len(list) = n /\ DOMAIN list = 1..n
  <2>1. list \in [1..n -> Loadable]
    BY <1>2, <1>5
  <2>2. list \in Seq(Loadable)
    BY <1>4, <2>1, SeqDef
  <2> QED
    BY <1>4, <2>1, <2>2, LenProperties
<1>7. \A i, j \in 1..n : i < j => list[i].sni < list[j].sni
  BY <1>5 DEF BySni
<1>8. raw.key \in KeyMaterial /\ raw.k \in Nat \ {0}
  BY DerivationAssumption DEF Acceptable
<1>9. n \in 1..MaxLen
  BY <1>1, <1>3, <1>4, DerivationAssumption
<1> HIDE DEF n
<1> QED
  BY <1>6, <1>7, <1>8, <1>9 DEF IsConfig, Loadable

(* Only a loaded configuration is one.                                     *)
LEMMA BlankIsNotLoaded == ~ Loaded(Blank)
BY DEF Loaded, Blank

(* Every pool at hand is one the sampler returns for the end's             *)
(* configuration and the draws of its seed.                                *)
SampledAt(e) ==
  \A p \in pools[e] :
    p.entries \in SubsetFromSeed(config[e].list, stream[<<config[e].key, p.epoch>>], config[e].k)

DerivationInv == TypeOK /\ \A e \in End : SampledAt(e)

LEMMA LoadStep ==
  ASSUME DerivationInv, NEW e \in End, NEW raw \in RawConfigs, Load(e, raw)
  PROVE  DerivationInv'
<1>1. /\ DOMAIN config' = End /\ \A d \in End \ {e} : config'[d] = config[d]
      /\ config'[e] = Blank \/ IsConfig(config'[e])
  BY LoadedIsConfig DEF Load, DerivationInv, TypeOK
<1>2. /\ pools' \in [End -> SUBSET [epoch : Epochs, entries : SUBSET Entry]]
      /\ pools'[e] = {} /\ \A d \in End \ {e} : pools'[d] = pools[d]
  BY DEF Load, DerivationInv, TypeOK
<1>3. stream' = stream
  BY DEF Load
<1>4. TypeOK'
  BY <1>1, <1>2, <1>3 DEF DerivationInv, TypeOK
<1>5. ASSUME NEW d \in End PROVE SampledAt(d)'
  BY <1>1, <1>2, <1>3 DEF SampledAt, DerivationInv
<1> QED
  BY <1>4, <1>5 DEF DerivationInv

LEMMA DeriveStep ==
  ASSUME DerivationInv, NEW e \in End, NEW epoch \in Epochs, Derive(e, epoch)
  PROVE  DerivationInv'
<1> DEFINE c == config[e]
           draws == stream[<<c.key, epoch>>]
<1>1. IsConfig(c) /\ draws \in Draws
  BY BlankIsNotLoaded DEF Derive, DerivationInv, TypeOK, IsConfig, Seeds
<1>2. config' = config /\ stream' = stream
  BY DEF Derive
<1>3. PICK names \in SubsetFromSeed(c.list, draws, c.k) :
        pools' = [pools EXCEPT ![e] = @ \cup {[epoch |-> epoch, entries |-> names]}]
  BY DEF Derive
<1>4. names \subseteq Entry
  <2>1. names \subseteq Range(c.list) /\ Range(c.list) \subseteq Loadable
    BY <1>1, SubsetSize, ListFacts DEF IsConfig
  <2> QED
    BY <2>1 DEF Loadable, Entry
<1>5. /\ pools' \in [End -> SUBSET [epoch : Epochs, entries : SUBSET Entry]]
      /\ pools'[e] = pools[e] \cup {[epoch |-> epoch, entries |-> names]}
      /\ \A d \in End \ {e} : pools'[d] = pools[d]
  BY <1>3, <1>4 DEF DerivationInv, TypeOK
<1>6. TypeOK'
  BY <1>2, <1>5 DEF DerivationInv, TypeOK, Derive
<1>7. ASSUME NEW d \in End PROVE SampledAt(d)'
  BY <1>2, <1>3, <1>5 DEF SampledAt, DerivationInv
<1> QED
  BY <1>6, <1>7 DEF DerivationInv

LEMMA DerivationInvariant == Spec => []DerivationInv
<1>1. Init => DerivationInv
  BY DEF Init, DerivationInv, TypeOK, SampledAt
<1>2. DerivationInv /\ [Next]_vars => DerivationInv'
  <2> SUFFICES ASSUME DerivationInv, [Next]_vars PROVE DerivationInv'
    OBVIOUS
  <2>1. CASE UNCHANGED vars
    BY <2>1 DEF vars, DerivationInv, TypeOK, SampledAt
  <2> QED
    BY <2>1, LoadStep, DeriveStep DEF Next
<1> QED
  BY <1>1, <1>2, PTL DEF Spec

(* A file that is not refused gives a list in strict order with positive   *)
(* weights, in every reachable state.                                      *)
THEOREM DerivationTypeCorrect == Spec => []TypeOK
<1>1. DerivationInv => TypeOK
  BY DEF DerivationInv
<1> QED
  BY <1>1, DerivationInvariant, PTL

(* The facts about one pool at hand that the two theorems below start from.*)
LEMMA PoolFacts ==
  ASSUME DerivationInv, NEW e \in End, NEW p \in pools[e]
  PROVE  /\ IsConfig(config[e]) /\ config[e].k \in Nat \ {0}
         /\ p.epoch \in Epochs
         /\ stream[<<config[e].key, p.epoch>>] \in Draws
         /\ p.entries \in SubsetFromSeed(config[e].list, stream[<<config[e].key, p.epoch>>], config[e].k)
<1>1. IsConfig(config[e]) /\ p.epoch \in Epochs
  BY BlankIsNotLoaded DEF DerivationInv, TypeOK
<1> QED
  BY <1>1 DEF DerivationInv, TypeOK, SampledAt, IsConfig, Seeds

(* Client and exit node agree on the pool whatever the order of their      *)
(* files and whatever the draws, and a smaller active_k only takes names   *)
(* away.                                                                   *)
THEOREM NestedPools == Spec => []PoolsNest
<1>1. DerivationInv => PoolsNest
  <2> SUFFICES ASSUME DerivationInv, NEW d \in End, NEW e \in End,
                      NEW p \in pools[d], NEW q \in pools[e],
                      p.epoch = q.epoch, config[d].key = config[e].key,
                      Range(config[d].list) = Range(config[e].list),
                      config[d].k <= config[e].k
               PROVE  p.entries \subseteq q.entries
    BY DEF PoolsNest
  <2>1. config[d].list = config[e].list
    BY PoolFacts, SameEntriesSameList
  <2>2. p.entries \in SubsetFromSeed(config[e].list, stream[<<config[e].key, q.epoch>>], config[d].k)
    BY <2>1, PoolFacts
  <2> QED
    BY <2>2, PoolFacts, SubsetsNest
<1> QED
  BY <1>1, DerivationInvariant, PTL

(* Every pool has min(k, n) names of the list and is not empty.            *)
THEOREM ExactSize == Spec => []PoolSize
<1>1. DerivationInv => PoolSize
  <2> SUFFICES ASSUME DerivationInv, NEW e \in End, NEW p \in pools[e]
               PROVE  /\ p.entries \subseteq Range(config[e].list)
                      /\ Cardinality(p.entries) = Clamp(config[e].k, Len(config[e].list))
                      /\ p.entries # {}
    BY DEF PoolSize
  <2>1. /\ p.entries \subseteq Range(config[e].list)
        /\ IsFiniteSet(p.entries)
        /\ Cardinality(p.entries) = Clamp(config[e].k, Len(config[e].list))
    BY PoolFacts, SubsetSize
  <2>2. Clamp(config[e].k, Len(config[e].list)) # 0
    BY PoolFacts, ListFacts DEF Clamp
  <2>3. p.entries # {}
    BY <2>1, <2>2, FS_EmptySet
  <2> QED
    BY <2>1, <2>3
<1> QED
  BY <1>1, DerivationInvariant, PTL

(* A heavier weight never costs a name its place, whatever the draws.      *)
THEOREM HeavierStays == Spec => []HeavierStaysIn
<1>1. DerivationInv => HeavierStaysIn
  <2> SUFFICES ASSUME DerivationInv, NEW d \in End, NEW e \in End,
                      NEW p \in pools[d], NEW q \in pools[e],
                      p.epoch = q.epoch, config[d].key = config[e].key,
                      config[d].k = config[e].k,
                      NEW x \in p.entries, NEW y \in Range(config[e].list),
                      x.sni = y.sni, x.weight <= y.weight,
                      Range(config[d].list) \ {x} = Range(config[e].list) \ {y}
               PROVE  y \in q.entries
    BY DEF HeavierStaysIn
  <2> DEFINE draws == stream[<<config[d].key, p.epoch>>]
  <2>1. /\ IsConfig(config[d]) /\ IsConfig(config[e]) /\ draws \in Draws
        /\ config[d].k \in Nat
        /\ p.entries \in SubsetFromSeed(config[d].list, draws, config[d].k)
        /\ q.entries \in SubsetFromSeed(config[e].list, draws, config[d].k)
    BY PoolFacts
  <2>2. PICK i \in DOMAIN config[d].list : config[d].list[i] = x
    <3>1. p.entries \subseteq Range(config[d].list)
      BY <2>1, SubsetSize
    <3>2. x \in Range(config[d].list)
      BY <3>1
    <3> QED
      BY <3>2 DEF Range
  <2>3. config[e].list = [config[d].list EXCEPT ![i] = y]
    BY <2>1, <2>2, ReweightedList
  <2>4. y \in Loadable
    BY <2>1, ListFacts
  <2> HIDE DEF draws
  <2> QED
    BY <2>1, <2>2, <2>3, <2>4, HeavierIsKept
<1> QED
  BY <1>1, DerivationInvariant, PTL

(***************************************************************************)
(* Arithmetic.                                                             *)
(***************************************************************************)
LEMMA Remainder ==
  ASSUME NEW w \in Nat \ {0}, NEW k \in Int, NEW m \in 0..w - 1
  PROVE  (w * k + m) % w = m /\ (w * k + m) \div w = k
<1> DEFINE x == w * k + m
           d == x \div w
           r == x % w
<1>1. x \in Int /\ d \in Int /\ r \in 0..w - 1 /\ x = w * d + r
  OBVIOUS
<1>2. x = w * k + m
  OBVIOUS
<1> HIDE DEF x, d, r
<1>3. CASE d = k
  <2>1. m = r
    BY <1>1, <1>2, <1>3
  <2> QED
    BY <1>3, <2>1 DEF r, x, d
<1>4. CASE d < k
  <2>1. w * k - w * d = w * (k - d) /\ w * (k - d) >= w
    BY <1>1, <1>4
  <2> QED
    BY <1>1, <1>2, <2>1
<1>5. CASE k < d
  <2>1. w * d - w * k = w * (d - k) /\ w * (d - k) >= w
    BY <1>1, <1>5
  <2> QED
    BY <1>1, <1>2, <2>1
<1>6. d = k \/ d < k \/ k < d
  BY <1>1
<1> QED
  BY <1>3, <1>4, <1>5, <1>6, Zenon

LEMMA Division ==
  ASSUME NEW w \in Nat \ {0}, NEW x \in Nat
  PROVE  /\ x \div w \in Nat /\ x % w \in 0..w - 1 /\ x = w * (x \div w) + (x % w)
         /\ x < w => x % w = x
OBVIOUS

(***************************************************************************)
(* The counters (Metrics).                                                 *)
(***************************************************************************)
-----------------------------------------------------------------------------
LEMMA WordAdd ==
  ASSUME NEW w \in Nat \ {0}, NEW x \in Nat, NEW n \in Nat
  PROVE  ((x % w) + n) % w = (x + n) % w
<1> DEFINE a == x \div w
           y == (x % w) + n
           b == y \div w
           m == y % w
<1>1. a \in Nat /\ x % w \in Nat /\ x = w * a + (x % w)
  BY Division
<1>2. y \in Nat
  BY <1>1
<1>3. b \in Nat /\ m \in 0..w - 1 /\ y = w * b + m
  BY <1>2, Division
<1>4. x + n = w * (a + b) + m
  <2>1. x + n = w * a + y
    BY <1>1
  <2>2. w * (a + b) = w * a + w * b
    BY <1>1, <1>3
  <2> HIDE DEF a, b, y, m
  <2> QED
    BY <1>1, <1>2, <1>3, <2>1, <2>2
<1>5. a + b \in Int
  BY <1>1, <1>3
<1> HIDE DEF a, b, m
<1>6. (w * (a + b) + m) % w = m
  BY <1>3, <1>5, Remainder
<1> QED
  BY <1>4, <1>6 DEF m

(* Between two readings that did not go back at least their difference was *)
(* added.                                                                  *)
LEMMA WordGap ==
  ASSUME NEW w \in Nat \ {0}, NEW r \in Nat, NEW q \in Nat, r <= q, r % w <= q % w
  PROVE  (q % w) - (r % w) <= q - r
<1> DEFINE a == q \div w
           b == r \div w
           s == q % w
           t == r % w
<1>1. a \in Nat /\ b \in Nat /\ s \in 0..w - 1 /\ t \in 0..w - 1 /\ q = w * a + s /\ r = w * b + t
  BY Division
<1> HIDE DEF a, b, s, t
<1>2. CASE b <= a
  <2>1. w * a - w * b = w * (a - b) /\ w * (a - b) >= 0
    BY <1>1, <1>2
  <2>2. s - t <= q - r
    BY <1>1, <2>1
  <2> QED
    BY <2>2 DEF s, t
<1>3. CASE a < b
  <2>1. w * b - w * a = w * (b - a) /\ w * (b - a) >= w
    BY <1>1, <1>3
  <2> QED
    BY <1>1, <2>1
<1> QED
  BY <1>1, <1>2, <1>3

-----------------------------------------------------------------------------
(* What the last snapshot has of a counter.                                *)
Last(i) == IF latest = <<>> THEN 0 ELSE latest[i]

MetricsTyped ==
  /\ value \in [Name -> Nat] /\ added \in [Name -> Nat] /\ since \in [Name -> Nat]
  /\ reading \in Seq(Nat) /\ Len(reading) <= Len(AllNames)
  /\ latest \in Seq(Nat) /\ (latest = <<>> \/ Len(latest) = Len(AllNames))
  /\ reported \in [Slots -> Nat]

(* A counter is what was added to it, as far as a word holds it, and did   *)
(* not go back while the word held all of it.                              *)
ValueInv ==
  \A n \in Name :
    /\ value[n] = added[n] % Width
    /\ added[n] < Width => since[n] <= value[n]

(* Before the counter wraps: the snapshots are what was added up to the    *)
(* time they read it, in order, and the reports have all of it.            *)
UnwrappedInv ==
  \A i \in Slots :
    added[AllNames[i]] < Width =>
      /\ reported[i] = Last(i) /\ Last(i) <= value[AllNames[i]]
      /\ i <= Len(reading) =>
           /\ since[AllNames[i]] <= reading[i] /\ Last(i) <= reading[i]
           /\ reading[i] <= value[AllNames[i]]

(* Whether it wraps or not: the last snapshot read it when `then` was      *)
(* added, no more than that was reported, and the snapshot under way read  *)
(* it later.                                                               *)
ReportedInv ==
  \A i \in Slots : \E then \in 0..added[AllNames[i]] :
    /\ Last(i) = then % Width /\ reported[i] <= then
    /\ i <= Len(reading) => \E now \in then..added[AllNames[i]] : reading[i] = now % Width

MetricsInv == MetricsTyped /\ ValueInv /\ UnwrappedInv /\ ReportedInv

LEMMA CounterNames ==
  /\ Len(AllNames) \in Nat /\ Slots = 1..Len(AllNames) /\ \A i \in Slots : AllNames[i] \in Name
BY MetricsAssumption DEF Slots, Name

LEMMA MetricsInvInit == MetricsInit => MetricsInv
<1> SUFFICES ASSUME MetricsInit PROVE MetricsInv
  OBVIOUS
<1>1. /\ value = [name \in Name |-> 0] /\ added = value /\ since = value
      /\ reading = <<>> /\ latest = <<>> /\ reported = [i \in Slots |-> 0]
  BY DEF MetricsInit
<1>2. 0 % Width = 0
  BY MetricsAssumption
<1>3. MetricsTyped
  BY <1>1, CounterNames DEF MetricsTyped
<1>4. ValueInv
  BY <1>1, <1>2 DEF ValueInv
<1>5. UnwrappedInv
  BY <1>1, CounterNames DEF UnwrappedInv, Last
<1>6. ReportedInv
  BY <1>1, <1>2, CounterNames DEF ReportedInv, Last
<1> QED
  BY <1>3, <1>4, <1>5, <1>6 DEF MetricsInv

LEMMA AddStep ==
  ASSUME MetricsInv, NEW name \in Name, NEW n \in Amounts, Add(name, n)
  PROVE  MetricsInv'
<1>0. MetricsTyped /\ ValueInv /\ UnwrappedInv /\ ReportedInv /\ n \in Nat /\ Width \in Nat \ {0}
  BY MetricsAssumption DEF MetricsInv
<1>1. /\ value' = [value EXCEPT ![name] = (value[name] + n) % Width]
      /\ added' = [added EXCEPT ![name] = added[name] + n]
      /\ UNCHANGED <<reading, latest, reported, since>>
  BY DEF Add, FetchAdd
<1>2. \A m \in Name : added'[m] \in Nat /\ added[m] \in Nat /\ added[m] <= added'[m]
  BY <1>0, <1>1 DEF MetricsTyped
<1>3. \A m \in Name : value'[m] = added'[m] % Width
  <2>1. ((added[name] % Width) + n) % Width = (added[name] + n) % Width
    BY <1>0, WordAdd DEF MetricsTyped
  <2> QED
    BY <1>0, <1>1, <2>1 DEF MetricsTyped, ValueInv
<1>4. \A m \in Name : value'[m] \in Nat
  BY <1>0, <1>2, <1>3, Division
<1>5. MetricsTyped'
  BY <1>0, <1>1, <1>2, <1>4 DEF MetricsTyped
<1>6. ASSUME NEW m \in Name, added'[m] < Width
      PROVE  value[m] <= value'[m] /\ added[m] < Width
  <2>1. value[m] = added[m] % Width /\ value'[m] = added'[m] % Width
    BY <1>0, <1>3 DEF ValueInv
  <2>2. added[m] < Width /\ added[m] \in Nat /\ added'[m] \in Nat
    BY <1>0, <1>2, <1>6
  <2>3. added[m] % Width = added[m] /\ added'[m] % Width = added'[m]
    BY <1>0, <1>6, <2>2
  <2> QED
    BY <1>2, <2>1, <2>2, <2>3
<1>7. ValueInv'
  <2> SUFFICES ASSUME NEW m \in Name, added'[m] < Width PROVE since[m] <= value'[m]
    BY <1>1, <1>3 DEF ValueInv
  <2>1. since[m] <= value[m] /\ value[m] <= value'[m]
    BY <1>0, <1>6 DEF ValueInv
  <2> QED
    BY <1>0, <1>4, <2>1 DEF MetricsTyped
<1>8. UnwrappedInv'
  <2> SUFFICES ASSUME NEW i \in Slots, added'[AllNames[i]] < Width
               PROVE  /\ reported[i] = Last(i) /\ Last(i) <= value'[AllNames[i]]
                      /\ i <= Len(reading) =>
                           /\ since[AllNames[i]] <= reading[i] /\ Last(i) <= reading[i]
                           /\ reading[i] <= value'[AllNames[i]]
    BY <1>1 DEF UnwrappedInv, Last
  <2> DEFINE m == AllNames[i]
  <2>1. m \in Name /\ Len(reading) \in Nat /\ i \in Nat \ {0}
    BY <1>0, CounterNames DEF MetricsTyped
  <2>2. value[m] <= value'[m] /\ added[m] < Width
    BY <1>6, <2>1
  <2>3. /\ reported[i] = Last(i) /\ Last(i) <= value[m]
        /\ i <= Len(reading) =>
             /\ since[m] <= reading[i] /\ Last(i) <= reading[i]
             /\ reading[i] <= value[m]
    BY <1>0, <2>2 DEF UnwrappedInv
  <2>4. Last(i) \in Nat /\ value[m] \in Nat /\ value'[m] \in Nat /\ (i <= Len(reading) => reading[i] \in Nat)
    <3>1. value \in [Name -> Nat] /\ value' \in [Name -> Nat] /\ reported \in [Slots -> Nat]
      BY <1>0, <1>5 DEF MetricsTyped
    <3>2. reported[i] \in Nat /\ value[m] \in Nat /\ value'[m] \in Nat
      BY <2>1, <3>1
    <3>3. i <= Len(reading) => reading[i] \in Nat
      <4>1. reading \in Seq(Nat) /\ (i <= Len(reading) => i \in 1..Len(reading))
        BY <1>0, <2>1 DEF MetricsTyped
      <4> QED
        BY <4>1, ElementOfSeq
    <3> QED
      BY <2>3, <3>2, <3>3
  <2> HIDE DEF m
  <2>5. Last(i) <= value'[m] /\ (i <= Len(reading) => reading[i] <= value'[m])
    BY <2>2, <2>3, <2>4
  <2> QED
    BY <2>3, <2>5 DEF m
<1>9. ReportedInv'
  <2> SUFFICES ASSUME NEW i \in Slots
               PROVE  \E then \in 0..added'[AllNames[i]] :
                        /\ Last(i) = then % Width /\ reported[i] <= then
                        /\ i <= Len(reading) => \E now \in then..added'[AllNames[i]] : reading[i] = now % Width
    BY <1>1 DEF ReportedInv, Last
  <2> DEFINE a == added[AllNames[i]]
             b == added'[AllNames[i]]
  <2>1. a \in Nat /\ b \in Nat /\ a <= b
    BY <1>2, CounterNames
  <2>2. PICK then \in 0..a :
          /\ Last(i) = then % Width /\ reported[i] <= then
          /\ i <= Len(reading) => \E now \in then..a : reading[i] = now % Width
    BY <1>0 DEF ReportedInv
  <2>3. then \in 0..b /\ then..a \subseteq then..b
    BY <2>1
  <2> QED
    BY <2>2, <2>3
<1> QED
  BY <1>5, <1>7, <1>8, <1>9 DEF MetricsInv

LEMMA ReadStep ==
  ASSUME MetricsInv, ReadCounter
  PROVE  MetricsInv'
<1> DEFINE k == Len(reading) + 1
           c == AllNames[k]
<1>0. MetricsTyped /\ ValueInv /\ UnwrappedInv /\ ReportedInv /\ Width \in Nat \ {0}
  BY MetricsAssumption DEF MetricsInv
<1>1. /\ reading' = Append(reading, value[c]) /\ Len(reading) < Len(AllNames)
      /\ since' = IF reading = <<>> THEN value ELSE since
      /\ UNCHANGED <<value, latest, reported, added>>
  BY DEF ReadCounter, Slot
<1>2. Len(reading) \in Nat /\ k \in Slots /\ c \in Name /\ value[c] \in Nat
  BY <1>0, <1>1, CounterNames DEF MetricsTyped
<1>3. /\ reading' \in Seq(Nat) /\ Len(reading') = k /\ reading'[k] = value[c]
      /\ \A i \in 1..Len(reading) : reading'[i] = reading[i]
  BY <1>0, <1>1, <1>2, AppendProperties DEF MetricsTyped
<1>4. MetricsTyped'
  BY <1>0, <1>1, <1>2, <1>3, CounterNames DEF MetricsTyped
<1>5. ValueInv'
  <2> SUFFICES ASSUME NEW n \in Name, added[n] < Width PROVE since'[n] <= value[n]
    BY <1>0, <1>1 DEF ValueInv
  <2>1. since[n] <= value[n] /\ value[n] \in Nat
    BY <1>0 DEF ValueInv, MetricsTyped
  <2> QED
    BY <1>1, <2>1
<1> HIDE DEF k, c
<1>6. UnwrappedInv'
  <2> SUFFICES ASSUME NEW i \in Slots, added[AllNames[i]] < Width
               PROVE  /\ reported[i] = Last(i) /\ Last(i) <= value[AllNames[i]]
                      /\ i <= Len(reading') =>
                           /\ since'[AllNames[i]] <= reading'[i] /\ Last(i) <= reading'[i]
                           /\ reading'[i] <= value[AllNames[i]]
    BY <1>1 DEF UnwrappedInv, Last
  <2>1. /\ reported[i] = Last(i) /\ Last(i) <= value[AllNames[i]]
        /\ i <= Len(reading) =>
             /\ since[AllNames[i]] <= reading[i] /\ Last(i) <= reading[i]
             /\ reading[i] <= value[AllNames[i]]
    BY <1>0 DEF UnwrappedInv
  <2>2. i \in Nat \ {0} /\ AllNames[i] \in Name /\ value[AllNames[i]] \in Nat
    BY <1>0, CounterNames DEF MetricsTyped
  <2> SUFFICES ASSUME i <= Len(reading')
               PROVE  /\ since'[AllNames[i]] <= reading'[i] /\ Last(i) <= reading'[i]
                      /\ reading'[i] <= value[AllNames[i]]
    BY <2>1
  <2>3. CASE i <= Len(reading)
    <3>1. reading'[i] = reading[i] /\ reading # <<>>
      BY <1>2, <1>3, <2>2, <2>3
    <3> QED
      BY <1>1, <2>1, <2>3, <3>1
  <2>4. CASE i = k
    <3>1. since'[AllNames[i]] <= value[AllNames[i]]
      BY <1>0, <1>1, <2>2 DEF ValueInv
    <3> QED
      BY <1>3, <2>1, <2>2, <2>4, <3>1 DEF c
  <2> QED
    BY <1>2, <1>3, <2>2, <2>3, <2>4 DEF k
<1>7. ReportedInv'
  <2> SUFFICES ASSUME NEW i \in Slots
               PROVE  \E then \in 0..added[AllNames[i]] :
                        /\ Last(i) = then % Width /\ reported[i] <= then
                        /\ i <= Len(reading') => \E now \in then..added[AllNames[i]] : reading'[i] = now % Width
    BY <1>1 DEF ReportedInv, Last
  <2> DEFINE a == added[AllNames[i]]
  <2>1. a \in Nat /\ i \in Nat \ {0} /\ AllNames[i] \in Name
    BY <1>0, CounterNames DEF MetricsTyped
  <2>2. PICK then \in 0..a :
          /\ Last(i) = then % Width /\ reported[i] <= then
          /\ i <= Len(reading) => \E now \in then..a : reading[i] = now % Width
    BY <1>0 DEF ReportedInv
  <2>3. i <= Len(reading') => \E now \in then..a : reading'[i] = now % Width
    <3>1. CASE i <= Len(reading)
      BY <1>2, <1>3, <2>1, <2>2, <3>1
    <3>2. CASE i = k
      <4>1. reading'[i] = a % Width
        BY <1>0, <1>3, <2>1, <3>2 DEF c, ValueInv
      <4>2. a \in then..a
        BY <2>1
      <4> QED
        BY <4>1, <4>2
    <3> QED
      BY <1>2, <1>3, <2>1, <3>1, <3>2 DEF k
  <2> QED
    BY <2>2, <2>3
<1> QED
  BY <1>4, <1>5, <1>6, <1>7 DEF MetricsInv

LEMMA ReportStep ==
  ASSUME MetricsInv, Report
  PROVE  MetricsInv'
<1>0. MetricsTyped /\ ValueInv /\ UnwrappedInv /\ ReportedInv /\ Width \in Nat \ {0}
  BY MetricsAssumption DEF MetricsInv
<1>1. /\ Len(reading) = Len(AllNames)
      /\ reported' = [i \in Slots |-> reported[i] + Delta(reading[i], latest, i)]
      /\ latest' = reading /\ reading' = <<>>
      /\ UNCHANGED <<value, added, since>>
  BY DEF Report
<1>2. ASSUME NEW i \in Slots
      PROVE  /\ reading[i] \in Nat /\ Last(i) \in Nat /\ i \in 1..Len(reading)
             /\ Last(i)' = reading[i]
             /\ reported[i] \in Nat /\ AllNames[i] \in Name /\ added[AllNames[i]] \in Nat
             /\ reported'[i] = reported[i] + (IF reading[i] < Last(i) THEN 0 ELSE reading[i] - Last(i))
  <2>1. /\ i \in 1..Len(reading) /\ AllNames[i] \in Name /\ reading \in Seq(Nat) /\ reported[i] \in Nat
        /\ latest \in Seq(Nat) /\ (latest = <<>> \/ Len(latest) = Len(AllNames))
    BY <1>0, <1>1, CounterNames DEF MetricsTyped
  <2>2. reading[i] \in Nat /\ reading # <<>>
    BY <2>1
  <2>3. Last(i) \in Nat /\ Last(i) = IF i \in DOMAIN latest THEN latest[i] ELSE 0
    <3>1. CASE latest = <<>>
      BY <3>1 DEF Last
    <3>2. CASE latest # <<>>
      <4>1. i \in 1..Len(latest) /\ DOMAIN latest = 1..Len(latest)
        BY <1>1, <2>1, <3>2
      <4> QED
        BY <2>1, <3>2, <4>1 DEF Last
    <3> QED
      BY <3>1, <3>2
  <2>4. Last(i)' = reading[i]
    BY <1>1, <2>2 DEF Last
  <2>5. reported'[i] = reported[i] + Delta(reading[i], latest, i)
    BY <1>1
  <2>6. added[AllNames[i]] \in Nat
    BY <1>0, <2>1 DEF MetricsTyped
  <2> QED
    BY <2>1, <2>2, <2>3, <2>4, <2>5, <2>6 DEF Delta
<1>3. MetricsTyped'
  <2>1. reported' \in [Slots -> Nat]
    <3>1. \A i \in Slots : reported[i] + Delta(reading[i], latest, i) \in Nat
      BY <1>1, <1>2
    <3> QED
      BY <1>1, <3>1
  <2> QED
    BY <1>0, <1>1, <2>1, CounterNames DEF MetricsTyped
<1>4. ValueInv'
  BY <1>0, <1>1 DEF ValueInv
<1>5. UnwrappedInv'
  <2> SUFFICES ASSUME NEW i \in Slots, added[AllNames[i]] < Width
               PROVE  /\ reported'[i] = reading[i] /\ reading[i] <= value[AllNames[i]]
                      /\ i > Len(reading')
    BY <1>1, <1>2 DEF UnwrappedInv
  <2>1. reported[i] = Last(i) /\ Last(i) <= reading[i] /\ reading[i] <= value[AllNames[i]]
    BY <1>0, <1>2 DEF UnwrappedInv
  <2>2. Len(reading') = 0 /\ i > 0
    BY <1>1, CounterNames
  <2> QED
    BY <1>2, <2>1, <2>2
<1>6. ReportedInv'
  <2> SUFFICES ASSUME NEW i \in Slots
               PROVE  \E then \in 0..added[AllNames[i]] :
                        reading[i] = then % Width /\ reported'[i] <= then /\ i > Len(reading')
    BY <1>1, <1>2 DEF ReportedInv
  <2> DEFINE a == added[AllNames[i]]
  <2>1. PICK then \in 0..a :
          /\ Last(i) = then % Width /\ reported[i] <= then
          /\ i <= Len(reading) => \E now \in then..a : reading[i] = now % Width
    BY <1>0 DEF ReportedInv
  <2>2. PICK now \in then..a : reading[i] = now % Width
    BY <1>2, <2>1
  <2>3. a \in Nat /\ then \in Nat /\ now \in Nat /\ then <= now /\ now \in 0..a
    BY <1>2
  <2>4. reported'[i] <= now
    <3> DEFINE x == reading[i]
               y == Last(i)
               z == reported[i]
    <3>1. x \in Nat /\ y \in Nat /\ z \in Nat /\ z <= then
      BY <1>2, <2>1
    <3>2. y <= x => x - y <= now - then
      BY <1>0, <2>1, <2>2, <2>3, WordGap
    <3>3. reported'[i] = z + (IF x < y THEN 0 ELSE x - y)
      BY <1>2
    <3> HIDE DEF x, y, z
    <3> QED
      BY <2>3, <3>1, <3>2, <3>3
  <2>5. Len(reading') = 0 /\ i > 0
    BY <1>1, CounterNames
  <2> QED
    BY <2>2, <2>3, <2>4, <2>5
<1> QED
  BY <1>3, <1>4, <1>5, <1>6 DEF MetricsInv

(* A counter holds what was added, modulo its width, and what the monitor   *)
(* has and reported is of a moment that was: inc, add, take and delta.     *)
THEOREM MetricsInvariant == MetricsSpec => []MetricsInv
<1>1. MetricsInv /\ [MetricsNext]_metricsVars => MetricsInv'
  <2> SUFFICES ASSUME MetricsInv, [MetricsNext]_metricsVars PROVE MetricsInv'
    OBVIOUS
  <2>1. CASE MetricsNext
    BY <2>1, AddStep, ReadStep, ReportStep DEF MetricsNext
  <2>2. CASE UNCHANGED metricsVars
    BY <2>2 DEF metricsVars, MetricsInv, MetricsTyped, ValueInv, UnwrappedInv, ReportedInv, Last
  <2> QED
    BY <2>1, <2>2
<1> QED
  BY <1>1, MetricsInvInit, PTL DEF MetricsSpec

(* Each value of a snapshot is one that its counter had while the snapshot *)
(* was being taken, as long as it does not wrap: Snapshot::take.           *)
THEOREM SnapshotsAreRecent == MetricsSpec => []SnapshotIsRecent
<1>1. MetricsInv => SnapshotIsRecent
  <2> SUFFICES ASSUME MetricsInv, NEW i \in DOMAIN reading, added[AllNames[i]] < Width
               PROVE  since[AllNames[i]] <= reading[i] /\ reading[i] <= value[AllNames[i]]
    BY DEF SnapshotIsRecent
  <2>1. reading \in Seq(Nat) /\ Len(reading) <= Len(AllNames) /\ UnwrappedInv
    BY DEF MetricsInv, MetricsTyped
  <2>2. i \in Slots /\ i <= Len(reading)
    BY <2>1, CounterNames
  <2> QED
    BY <2>1, <2>2 DEF UnwrappedInv
<1> QED
  BY <1>1, MetricsInvariant, PTL

(* The deltas add up to what the last snapshot has, and wrapping or not    *)
(* never to more than was added: Snapshot::delta.                          *)
THEOREM DeltasAlwaysAddUp == MetricsSpec => []DeltasAddUp
<1>1. MetricsInv => DeltasAddUp
  <2> SUFFICES ASSUME MetricsInv, NEW i \in Slots
               PROVE  /\ reported[i] <= added[AllNames[i]]
                      /\ added[AllNames[i]] < Width /\ latest # <<>> => reported[i] = latest[i]
    BY DEF DeltasAddUp
  <2>1. MetricsTyped /\ UnwrappedInv /\ ReportedInv
    BY DEF MetricsInv
  <2>2. added[AllNames[i]] \in Nat /\ reported[i] \in Nat
    BY <2>1, CounterNames DEF MetricsTyped
  <2>3. PICK then \in 0..added[AllNames[i]] : reported[i] <= then
    BY <2>1 DEF ReportedInv
  <2>4. reported[i] <= added[AllNames[i]]
    BY <2>2, <2>3
  <2>5. added[AllNames[i]] < Width => reported[i] = Last(i)
    BY <2>1 DEF UnwrappedInv
  <2> QED
    BY <2>4, <2>5 DEF Last
<1> QED
  BY <1>1, MetricsInvariant, PTL

(***************************************************************************)
(* The health sweep (HealthSweep).                                         *)
(***************************************************************************)
-----------------------------------------------------------------------------
(* What the axes say.                                                      *)

(* A name is normalized to at least one label.                             *)
LEMMA Normal ==
  ASSUME NEW name \in Seq(DOMAIN Lower), name # <<>>
  PROVE  \E V : Normalized(name) \in Seq(V) /\ Len(Normalized(name)) >= 1
<1> DEFINE kept == { i \in DOMAIN name : i = 1 \/ \E j \in i..Len(name) : name[j] # "" }
           n == Cardinality(kept)
           V == { Lower[name[i]] : i \in 1..n }
<1>1. Len(name) \in Nat /\ kept \subseteq 1..Len(name) /\ 1 \in kept
  <2>1. Len(name) \in Nat /\ Len(name) >= 1 /\ DOMAIN name = 1..Len(name)
    OBVIOUS
  <2>2. 1 \in DOMAIN name
    BY <2>1
  <2> QED
    BY <2>1, <2>2
<1> HIDE DEF kept
<1>2. IsFiniteSet(kept)
  <2>1. IsFiniteSet(1..Len(name))
    BY <1>1, FS_Interval
  <2> QED
    BY <1>1, <2>1, FS_Subset
<1>3. n \in Nat /\ n # 0
  <2>1. n \in Nat
    BY <1>2, FS_CardinalityType
  <2>2. n = 0 => kept = {}
    BY <1>2, FS_EmptySet
  <2> QED
    BY <1>1, <2>1, <2>2
<1>4. Normalized(name) = [i \in 1..n |-> Lower[name[i]]]
  BY DEF Normalized, kept
<1> HIDE DEF n
<1> DEFINE s == [i \in 1..n |-> Lower[name[i]]]
<1>5. s \in Seq(V) /\ Len(s) = n
  BY <1>3
<1> HIDE DEF s, V
<1>6. Normalized(name) \in Seq(V) /\ Len(Normalized(name)) >= 1
  BY <1>3, <1>4, <1>5 DEF s
<1> QED
  BY <1>6

(* The wildcard's tail, and the labels from the second on.                 *)
LEMMA Tails ==
  ASSUME NEW V, NEW s \in Seq(V), NEW p \in Seq(V), s # <<>>, p # <<>>
  PROVE  Tail(s) = Tail(p) <=>
           Len(s) = Len(p) /\ \A i \in DOMAIN p : i # 1 => p[i] = s[i]
<1>1. /\ Tail(s) \in Seq(V) /\ Len(Tail(s)) = Len(s) - 1
      /\ \A i \in 1..Len(s) - 1 : Tail(s)[i] = s[i + 1]
  OBVIOUS
<1>2. /\ Tail(p) \in Seq(V) /\ Len(Tail(p)) = Len(p) - 1
      /\ \A i \in 1..Len(p) - 1 : Tail(p)[i] = p[i + 1]
  OBVIOUS
<1> DEFINE ts == Tail(s)
           tp == Tail(p)
<1> HIDE DEF ts, tp
<1>3. /\ ts \in Seq(V) /\ Len(ts) = Len(s) - 1 /\ \A i \in 1..Len(s) - 1 : ts[i] = s[i + 1]
      /\ tp \in Seq(V) /\ Len(tp) = Len(p) - 1 /\ \A i \in 1..Len(p) - 1 : tp[i] = p[i + 1]
  BY <1>1, <1>2 DEF ts, tp
<1>4. Len(s) \in Nat /\ Len(p) \in Nat /\ DOMAIN p = 1..Len(p)
  OBVIOUS
<1>5. ASSUME ts = tp PROVE Len(s) = Len(p) /\ \A i \in DOMAIN p : i # 1 => p[i] = s[i]
  <2>1. Len(s) = Len(p)
    BY <1>3, <1>4, <1>5
  <2>2. \A i \in 1..Len(p) : i # 1 => i - 1 \in 1..Len(p) - 1 /\ (i - 1) + 1 = i
    BY <1>4
  <2>3. ASSUME NEW i \in DOMAIN p, i # 1 PROVE p[i] = s[i]
    <3>1. i - 1 \in 1..Len(p) - 1 /\ (i - 1) + 1 = i
      BY <1>4, <2>2, <2>3
    <3>2. tp[i - 1] = p[i] /\ ts[i - 1] = s[i]
      BY <1>3, <2>1, <3>1
    <3> QED
      BY <1>5, <3>2
  <2> QED
    BY <2>1, <2>3
<1>6. ASSUME Len(s) = Len(p), \A i \in DOMAIN p : i # 1 => p[i] = s[i] PROVE ts = tp
  <2>1. \A i \in 1..Len(p) - 1 : i + 1 \in 1..Len(p) /\ i + 1 # 1
    BY <1>4
  <2>2. Len(ts) = Len(tp) /\ \A i \in 1..Len(ts) : ts[i] = tp[i]
    BY <1>3, <1>4, <1>6, <2>1
  <2> QED
    BY <1>3, <2>2, SeqEqual
<1> QED
  BY <1>5, <1>6 DEF ts, tp

LEMMA OneLabel == Len(<<"">>) = 1
OBVIOUS

(* Splitting a name at its first dot and comparing the rest is comparing   *)
(* the labels one by one.                                                  *)
LEMMA MatchIsCover ==
  ASSUME NEW sni \in Seq(DOMAIN Lower), sni # <<>>, NEW pattern \in Seq(DOMAIN Lower), pattern # <<>>
  PROVE  DnsNameMatches(sni, pattern) <=> Covers(pattern, sni)
<1> DEFINE s == Normalized(sni)
           p == Normalized(pattern)
           wild == Len(p) > 1 /\ p[1] = "*"
           labels == \A i \in DOMAIN p : p[i] = s[i] \/ (i = 1 /\ wild /\ s[i] # "")
<1>1. PICK V : s \in Seq(V) /\ Len(s) >= 1
  BY Normal, Zenon
<1>2. PICK W : p \in Seq(W) /\ Len(p) >= 1
  BY Normal, Zenon
<1> DEFINE X == V \cup W
<1> HIDE DEF s, p
<1>3. s \in Seq(X) /\ p \in Seq(X) /\ s # <<>> /\ p # <<>>
  BY <1>1, <1>2
<1>4. /\ Len(s) \in Nat /\ Len(p) \in Nat /\ Len(p) >= 1 /\ Len(s) >= 1
      /\ DOMAIN p = 1..Len(p) /\ DOMAIN s = 1..Len(s)
  BY <1>1, <1>2
<1> HIDE DEF X
<1>5. Covers(pattern, sni) <=> Len(p) = Len(s) /\ p # <<"">> /\ labels /\ (wild => Len(p) > 2)
  BY DEF Covers, s, p
<1> HIDE DEF labels
<1>6. CASE ~ wild
  <2>1. DnsNameMatches(sni, pattern) <=> s # <<"">> /\ p # <<"">> /\ s = p
    <3>1. p[1] # "*" \/ Len(p) = 1
      BY <1>4, <1>6
    <3> QED
      BY <3>1, Zenon DEF DnsNameMatches, s, p
  <2>2. s = p <=> Len(p) = Len(s) /\ labels
    <3>1. labels <=> \A i \in 1..Len(p) : p[i] = s[i]
      BY <1>4, <1>6 DEF labels
    <3>2. s = p => Len(p) = Len(s) /\ labels
      BY <3>1
    <3>3. Len(p) = Len(s) /\ labels => s = p
      BY <1>3, <3>1, SeqEqual
    <3> QED
      BY <3>2, <3>3
  <2> QED
    BY <1>5, <1>6, <2>1, <2>2, Zenon
<1>7. CASE wild
  <2>1. /\ Len(Tail(p)) >= 2 <=> Len(p) > 2
        /\ p # <<"">>
    <3>1. Len(Tail(p)) = Len(p) - 1
      BY <1>3
    <3>2. Len(p) > 1
      BY <1>7
    <3>3. Len(Tail(p)) >= 2 <=> Len(p) > 2
      BY <1>4, <3>1
    <3>4. Len(p) # 1
      BY <1>4, <3>2
    <3> QED
      BY <3>3, <3>4, OneLabel, Zenon
  <2>2. DnsNameMatches(sni, pattern) <=>
          /\ s # <<"">> /\ Len(p) > 2
          /\ Len(s) >= 2 /\ s[1] # "" /\ Tail(s) = Tail(p)
    <3>1. ~(p[1] # "*" \/ Len(p) = 1)
      BY <1>4, <1>7
    <3> QED
      BY <2>1, <3>1, Zenon DEF DnsNameMatches, s, p
  <2>3. Tail(s) = Tail(p) <=> Len(s) = Len(p) /\ \A i \in DOMAIN p : i # 1 => p[i] = s[i]
    BY <1>3, Tails, Zenon
  <2>4. labels <=> s[1] # "" /\ \A i \in DOMAIN p : i # 1 => p[i] = s[i]
    <3>1. 1 \in DOMAIN p
      BY <1>4
    <3>2. p[1] = "*" /\ "*" # ""
      BY <1>7
    <3>3. labels => s[1] # ""
      BY <3>1, <3>2 DEF labels
    <3>4. labels => \A i \in DOMAIN p : i # 1 => p[i] = s[i]
      BY DEF labels
    <3> HIDE DEF wild
    <3>5. s[1] # "" /\ (\A i \in DOMAIN p : i # 1 => p[i] = s[i]) => labels
      BY <1>7 DEF labels
    <3> QED
      BY <3>3, <3>4, <3>5
  <2>5. Len(p) > 2 /\ Len(s) = Len(p) => Len(s) >= 2 /\ s # <<"">>
    <3>1. Len(p) > 2 /\ Len(s) = Len(p) => Len(s) >= 2 /\ Len(s) # 1
      BY <1>4
    <3> QED
      BY <3>1, OneLabel, Zenon
  <2> HIDE DEF wild
  <2> QED
    BY <1>5, <1>7, <2>1, <2>2, <2>3, <2>4, <2>5, Zenon
<1> QED
  BY <1>6, <1>7

LEMMA ContainsIsInRange ==
  ASSUME NEW addrs
  PROVE  ContainsAll(addrs) <=> InRange(addrs)
BY DEF ContainsAll, InRange

LEMMA ListLength == Len(Master) \in Nat \ {0} /\ DOMAIN Master = 1..Len(Master)
BY SweepAssumption

LEMMA NextOrLast ==
  ASSUME NEW n \in Nat, NEW m \in Nat \ {0}, n < m
  PROVE  n + 1 = m \/ n + 1 < m
OBVIOUS

LEMMA EntriesAre ==
  /\ Len(Master) \in Nat \ {0} /\ DOMAIN Master = 1..Len(Master)
  /\ \A i \in 1..Len(Master) : Master[i].sni \in Seq(DOMAIN Lower) /\ Master[i].sni # <<>>
<1> DEFINE DnsNames == Seq(DOMAIN Lower) \ {<<>>}
<1>1. Master \in Seq([sni : DnsNames, weight : Nat])
  BY SweepAssumption
<1> HIDE DEF DnsNames
<1> DEFINE R == [sni : DnsNames, weight : Nat]
<1> HIDE DEF R
<1>2. \A i \in 1..Len(Master) : Master[i] \in R
  BY <1>1, ElementOfSeq DEF R
<1> USE DEF R
<1>3. \A i \in 1..Len(Master) : Master[i].sni \in DnsNames
  BY <1>2
<1> QED
  BY <1>3, ListLength DEF DnsNames

(* The verdict says of an entry what a good one shows.                     *)
LEMMA VerdictIsGood ==
  ASSUME NEW i \in 1..Len(Master), NEW b \in BOOLEAN, NEW obs \in Observations
  PROVE  IsHealthy(Verdict(Master[i], b, obs)) <=> b /\ Good(Master[i], obs)
<1> DEFINE v == Verdict(Master[i], b, obs)
<1>1. \A san \in obs.sans : DnsNameMatches(Master[i].sni, san) <=> Covers(san, Master[i].sni)
  <2>1. obs.sans \subseteq Seq(DOMAIN Lower) \ {<<>>}
    BY SweepAssumption
  <2> QED
    BY <2>1, EntriesAre, MatchIsCover
<1>2. SniMatchesAny(Master[i].sni, obs.sans) <=> \E san \in obs.sans : Covers(san, Master[i].sni)
  BY <1>1 DEF SniMatchesAny
<1>3. InBand(obs.rtt) <=> obs.rtt \in MinRtt..MaxRtt
  BY SweepAssumption DEF InBand
<1>4. /\ v.coherent = b /\ v.sanMatch = SniMatchesAny(Master[i].sni, obs.sans)
      /\ v.alpnH2 = (obs.alpn = "h2") /\ v.tls13 = obs.tls13 /\ v.latencyOk = InBand(obs.rtt)
  BY Zenon DEF Verdict
<1> HIDE DEF v
<1> QED
  BY <1>2, <1>3, <1>4, Zenon DEF IsHealthy, Good, v

-----------------------------------------------------------------------------
(* The sweep.                                                              *)

(* The verdicts so far, of the first entries in their order, and what was  *)
(* seen of those entries, agree.                                           *)
Agree(hs, of) == \A i \in 1..Len(hs) : hs[i].sni = Master[i].sni /\ (IsHealthy(hs[i]) <=> of[i])

Order ==
  /\ phase \in {"idle", "resolve", "inspect", "done", "aborted"}
  /\ coherent \in BOOLEAN
  /\ \E V : reports \in Seq(V)
  /\ seen \in Seq(BOOLEAN)
  /\ phase \in {"resolve", "inspect"} => Len(reports) < Len(Master) /\ pruned = NoPool
  /\ phase = "resolve" => Len(seen) = Len(reports)
  /\ phase = "inspect" => Len(seen) = Len(reports) + 1 /\ seen[Len(reports) + 1] = coherent

AgreeSoFar == phase \in {"resolve", "inspect"} => Agree(reports, seen)

SweepInv == Order /\ AgreeSoFar /\ PruneIsExact

(* What is pruned with all verdicts in hand is the entries seen to be good.*)
LEMMA PrunedIsSeen ==
  ASSUME NEW hs, NEW of, Len(hs) = Len(Master), DOMAIN hs = 1..Len(hs), Agree(hs, of)
  PROVE  Prune(hs) = { Master[i] : i \in { j \in DOMAIN Master : of[j] } }
<1> DEFINE healthy == { hs[i].sni : i \in { j \in DOMAIN hs : IsHealthy(hs[j]) } }
<1>1. \A i \in DOMAIN Master : Master[i].sni \in healthy <=> of[i]
  <2> SUFFICES ASSUME NEW i \in DOMAIN Master PROVE Master[i].sni \in healthy <=> of[i]
    OBVIOUS
  <2>1. i \in DOMAIN hs /\ hs[i].sni = Master[i].sni /\ (IsHealthy(hs[i]) <=> of[i])
    BY EntriesAre DEF Agree
  <2>2. of[i] => Master[i].sni \in healthy
    BY <2>1, Zenon
  <2>3. ASSUME Master[i].sni \in healthy PROVE of[i]
    <3>1. PICK j \in DOMAIN hs : IsHealthy(hs[j]) /\ Master[i].sni = hs[j].sni
      BY <2>3, Zenon
    <3>2. j \in DOMAIN Master /\ hs[j].sni = Master[j].sni
      BY EntriesAre DEF Agree
    <3>3. i = j
      BY <3>1, <3>2, SweepAssumption
    <3> QED
      BY <2>1, <3>1, <3>3, Zenon
  <2> QED
    BY <2>2, <2>3
<1> HIDE DEF healthy
<1>2. Prune(hs) = { Master[i] : i \in { j \in DOMAIN Master : Master[j].sni \in healthy } }
  BY DEF Prune, healthy
<1> QED
  BY <1>1, <1>2, Zenon

LEMMA SweepInitially == SweepInit => SweepInv
<1> SUFFICES ASSUME SweepInit PROVE SweepInv
  OBVIOUS
<1>1. reports \in Seq({}) /\ seen \in Seq(BOOLEAN)
  BY DEF SweepInit
<1>2. Order
  BY <1>1 DEF SweepInit, Order
<1>3. AgreeSoFar /\ PruneIsExact
  BY DEF SweepInit, AgreeSoFar, PruneIsExact
<1> QED
  BY <1>2, <1>3 DEF SweepInv

LEMMA SweepStep == SweepInv /\ [SweepNext]_sweepVars => SweepInv'
<1> SUFFICES ASSUME SweepInv, [SweepNext]_sweepVars PROVE SweepInv'
  OBVIOUS
<1> USE DEF SweepInv
<1>1. CASE StartSweep
  <2>1. phase' = "resolve" /\ reports' = <<>> /\ pruned' = NoPool /\ seen' = <<>> /\ coherent' = coherent
    BY <1>1 DEF StartSweep
  <2>2. reports' \in Seq({}) /\ seen' \in Seq(BOOLEAN) /\ Len(reports') = 0 /\ Len(seen') = 0
    BY <2>1
  <2>3. Order'
    BY <2>1, <2>2, EntriesAre DEF Order
  <2>4. AgreeSoFar'
    BY <2>2 DEF AgreeSoFar, Agree
  <2>5. PruneIsExact'
    BY <2>1 DEF PruneIsExact
  <2> QED
    BY <2>3, <2>4, <2>5
<1>2. CASE Resolve
  <2>1. PICK addrs \in Answers : coherent' = ContainsAll(addrs) /\ seen' = Append(seen, InRange(addrs))
    BY <1>2 DEF Resolve
  <2>2. /\ phase = "resolve" /\ phase' = "inspect" /\ reports' = reports /\ pruned' = pruned
    BY <1>2 DEF Resolve
  <2>3. PICK V : reports \in Seq(V)
    BY DEF Order
  <2> DEFINE b == InRange(addrs)
             n == Len(reports)
  <2>4. b \in BOOLEAN /\ coherent' = b
    BY <2>1, ContainsIsInRange DEF InRange, ContainsAll
  <2> HIDE DEF b
  <2>5. seen \in Seq(BOOLEAN) /\ n \in Nat /\ Len(seen) = n /\ n < Len(Master) /\ pruned = NoPool
    BY <2>2, <2>3 DEF Order
  <2>6. seen' = Append(seen, b)
    BY <2>1 DEF b
  <2>7. /\ seen' \in Seq(BOOLEAN) /\ Len(seen') = n + 1 /\ seen'[n + 1] = b
        /\ \A i \in 1..n : seen'[i] = seen[i]
    BY <2>4, <2>5, <2>6, AppendProperties
  <2>8. Order'
    <3>1. \E V_1 : reports' \in Seq(V_1)
      BY <2>2, <2>3
    <3> QED
      BY <2>2, <2>4, <2>5, <2>7, <3>1 DEF Order
  <2>9. AgreeSoFar'
    <3>1. Agree(reports, seen)
      BY <2>2 DEF AgreeSoFar
    <3>2. Agree(reports, seen')
      BY <2>7, <3>1, Zenon DEF Agree
    <3> QED
      BY <2>2, <3>2 DEF AgreeSoFar
  <2>10. PruneIsExact'
    BY <2>2, <2>5 DEF PruneIsExact
  <2> QED
    BY <2>8, <2>9, <2>10
<1>3. CASE Inspect
  <2> DEFINE n == Len(reports)
  <2>1. PICK obs \in Observations :
          LET hs == Append(reports, Verdict(Current, coherent, obs))
              last == Len(hs) = Len(Master)
          IN  /\ reports' = hs
              /\ seen' = [seen EXCEPT ![Len(hs)] = @ /\ Good(Current, obs)]
              /\ phase' = IF last THEN "done" ELSE "resolve"
              /\ pruned' = IF last THEN Some(Prune(hs)) ELSE NoPool
    BY <1>3 DEF Inspect
  <2>2. PICK V : reports \in Seq(V)
    BY DEF Order
  <2>3. phase = "inspect" /\ coherent' = coherent
    BY <1>3 DEF Inspect
  <2>4. /\ n \in Nat /\ n < Len(Master) /\ coherent \in BOOLEAN
        /\ seen \in Seq(BOOLEAN) /\ Len(seen) = n + 1 /\ seen[n + 1] = coherent
    BY <2>2, <2>3 DEF Order
  <2>5. Current = Master[n + 1] /\ n + 1 \in 1..Len(Master)
    BY <2>4, EntriesAre DEF Current
  <2> DEFINE v == Verdict(Current, coherent, obs)
             g == Good(Current, obs)
             last == n + 1 = Len(Master)
             hs == Append(reports, v)
  <2>6. (IsHealthy(v) <=> coherent /\ g) /\ v.sni = Master[n + 1].sni /\ g \in BOOLEAN
    <3>1. IsHealthy(v) <=> coherent /\ g
      BY <2>4, <2>5, VerdictIsGood
    <3>2. v.sni = Master[n + 1].sni
      BY <2>5 DEF Verdict
    <3>3. g \in BOOLEAN
      BY DEF Good
    <3> QED
      BY <3>1, <3>2, <3>3
  <2> HIDE DEF v, g
  <2>7. /\ hs \in Seq(V \cup {v}) /\ Len(hs) = n + 1 /\ hs[n + 1] = v
        /\ \A i \in 1..n : hs[i] = reports[i]
    <3>1. reports \in Seq(V \cup {v})
      BY <2>2
    <3> QED
      BY <3>1, AppendProperties
  <2>8. /\ reports' = hs
        /\ seen' = [seen EXCEPT ![n + 1] = seen[n + 1] /\ g]
        /\ phase' = IF last THEN "done" ELSE "resolve"
        /\ pruned' = IF last THEN Some(Prune(hs)) ELSE NoPool
    BY <2>1, <2>7 DEF v, g
  <2> HIDE DEF hs
  <2>9. /\ seen' \in Seq(BOOLEAN) /\ Len(seen') = n + 1 /\ (seen'[n + 1] <=> coherent /\ g)
        /\ \A i \in 1..n : seen'[i] = seen[i]
    <3>1. n + 1 \in 1..Len(seen) /\ (seen[n + 1] /\ g) \in BOOLEAN
      BY <2>4, <2>6
    <3> DEFINE c == seen[n + 1] /\ g
    <3>2. c \in BOOLEAN /\ (c <=> coherent /\ g)
      BY <2>4
    <3> HIDE DEF c
    <3>3. seen' = [seen EXCEPT ![n + 1] = c]
      BY <2>8 DEF c
    <3>4. seen' \in Seq(BOOLEAN) /\ Len(seen') = n + 1
      BY <2>4, <3>1, <3>2, <3>3, ExceptSeq
    <3>5. seen'[n + 1] = c /\ \A i \in 1..n : seen'[i] = seen[i]
      BY <2>4, <3>1, <3>3
    <3> QED
      BY <3>2, <3>4, <3>5
  <2>10. Agree(hs, seen')
    <3> SUFFICES ASSUME NEW i \in 1..n + 1
                 PROVE  hs[i].sni = Master[i].sni /\ (IsHealthy(hs[i]) <=> seen'[i])
      BY <2>7 DEF Agree
    <3>1. CASE i = n + 1
      BY <2>6, <2>7, <2>9, <3>1, Zenon
    <3>2. CASE i \in 1..n
      <4>1. reports[i].sni = Master[i].sni /\ (IsHealthy(reports[i]) <=> seen[i])
        BY <2>3, <3>2, Zenon DEF AgreeSoFar, Agree
      <4>2. hs[i] = reports[i] /\ seen'[i] = seen[i]
        BY <2>7, <2>9, <3>2
      <4> QED
        BY <4>1, <4>2, Zenon
    <3> QED
      BY <2>4, <3>1, <3>2
  <2>11. Order'
    <3>1. \E V_1 : reports' \in Seq(V_1)
      BY <2>7, <2>8
    <3>2. ~ last => n + 1 < Len(Master)
      BY <2>4, ListLength, NextOrLast, Zenon
    <3>3. Len(reports') = n + 1
      BY <2>7, <2>8
    <3>4. phase' \in {"done", "resolve"} /\ (phase' = "resolve" => ~ last /\ pruned' = NoPool)
      BY <2>8
    <3> HIDE DEF last
    <3> QED
      BY <2>3, <2>4, <2>9, <3>1, <3>2, <3>3, <3>4 DEF Order
  <2>12. AgreeSoFar'
    BY <2>8, <2>10 DEF AgreeSoFar
  <2>13. PruneIsExact'
    <3>1. CASE last
      <4>1. DOMAIN hs = 1..Len(hs) /\ Len(hs) = Len(Master) /\ Len(seen') = Len(Master)
        BY <2>7, <2>9, <3>1
      <4>2. Prune(hs) = { Master[i] : i \in { j \in DOMAIN Master : seen'[j] } }
        BY <2>10, <4>1, PrunedIsSeen
      <4>3. pruned' = Some(Prune(hs))
        BY <2>8, <3>1
      <4> QED
        BY <4>1, <4>2, <4>3, Zenon DEF PruneIsExact
    <3>2. CASE ~ last
      BY <2>8, <3>2 DEF PruneIsExact
    <3> QED
      BY <3>1, <3>2
  <2> QED
    BY <2>11, <2>12, <2>13
<1>4. CASE ProbeFails
  <2>1. /\ phase' = "aborted" /\ pruned' = NoPool /\ reports' = <<>> /\ seen' = <<>>
        /\ coherent' = coherent
    BY <1>4 DEF ProbeFails, PoolAfterFailure
  <2>2. reports' \in Seq({}) /\ seen' \in Seq(BOOLEAN)
    BY <2>1
  <2>3. Order'
    BY <2>1, <2>2 DEF Order
  <2>4. AgreeSoFar' /\ PruneIsExact'
    BY <2>1 DEF AgreeSoFar, PruneIsExact
  <2> QED
    BY <2>3, <2>4
<1>5. CASE UNCHANGED sweepVars
  <2>1. Order'
    BY <1>5 DEF sweepVars, Order
  <2>2. AgreeSoFar' /\ PruneIsExact'
    BY <1>5 DEF sweepVars, AgreeSoFar, PruneIsExact
  <2> QED
    BY <2>1, <2>2
<1> QED
  BY <1>1, <1>2, <1>3, <1>4, <1>5 DEF SweepNext

(* Each verdict so far is that of its entry, and good when what was seen   *)
(* of the entry was: check_all.                                            *)
THEOREM SweepInvariant == SweepSpec => []SweepInv
<1>1. SweepInit => SweepInv
  BY SweepInitially
<1>2. SweepInv /\ [SweepNext]_sweepVars => SweepInv'
  BY SweepStep
<1> QED
  BY <1>1, <1>2, PTL DEF SweepSpec

(* A pool is the entries of a whole sweep that were seen to be good on     *)
(* every axis, and all of them.                                            *)
THEOREM PrunedPoolIsExact == SweepSpec => []PruneIsExact
<1>1. SweepInv => PruneIsExact
  BY DEF SweepInv
<1> QED
  BY <1>1, SweepInvariant, PTL
================================================================================
