------------------------------ MODULE ReleaseProofs ------------------------------
(***************************************************************************)
(* Theorems about a release of packs, in two parts: what its packs hold    *)
(* and answer (PackedRelease), for any corpus and any plan; and how it is  *)
(* packaged and published (ReleasePublication), for any number of          *)
(* operators, builds, artifacts and parts and any number of kills.         *)
(***************************************************************************)
EXTENDS PackedRelease, ReleasePublication, FiniteSetTheorems, TLAPS

(* Induction over the numbers, from the fact that finite sets are well     *)
(* founded under strict inclusion.                                         *)
LEMMA Induction ==
  ASSUME NEW S \in SUBSET Nat, 0 \in S, \A n \in S : n + 1 \in S
  PROVE  S = Nat
<1> SUFFICES ASSUME NEW n \in Nat, n \notin S PROVE FALSE
  OBVIOUS
<1> DEFINE T == {0 .. k : k \in Nat \ S}
           R == StrictSubsetOrdering(Nat)
           F == FiniteSubsetsOf(Nat)
<1>1. IsWellFoundedOn(R, F)
  BY FS_StrictSubsetOrderingWellFounded
<1>2. T \subseteq F
  <2>1. \A k \in Nat : IsFiniteSet(0 .. k)
    BY FS_Interval
  <2>2. QED
    BY <2>1 DEF FiniteSubsetsOf
<1>3. T # {}
  OBVIOUS
<1> HIDE DEF F, T, R
<1>4. PICK x \in T : \A y \in T : ~ (<<y, x>> \in R)
  BY <1>1, <1>2, <1>3, WFMin
<1>5. PICK k \in Nat \ S : x = 0 .. k
  BY <1>4 DEF T
<1>6. k # 0 /\ k - 1 \in Nat \ S
  <2>1. k # 0
    BY <1>5
  <2>2. k - 1 \in Nat /\ k - 1 + 1 = k
    BY <1>5, <2>1
  <2>3. QED
    BY <1>5, <2>1, <2>2
<1>7. 0 .. (k - 1) \in T
  BY <1>6 DEF T
<1>8. <<0 .. (k - 1), x>> \in R
  <2>1. k \in 0 .. k /\ k \notin 0 .. (k - 1) /\ 0 .. (k - 1) \subseteq 0 .. k
    BY <1>5
  <2>2. 0 .. k \subseteq Nat /\ 0 .. (k - 1) \subseteq Nat
    BY <1>5
  <2>3. QED
    BY <1>5, <2>1, <2>2 DEF R, StrictSubsetOrdering
<1>9. QED
  BY <1>4, <1>7, <1>8

(* The least number of a set of numbers. *)
LEMMA Least ==
  ASSUME NEW S \in SUBSET Nat, S # {}
  PROVE  \E n \in S : \A m \in S : n <= m
<1> DEFINE T == {n \in Nat : \A m \in S : n <= m}
<1>1. 0 \in T
  OBVIOUS
<1>2. T # Nat
  <2>1. PICK m \in S : TRUE
    OBVIOUS
  <2>2. m + 1 \notin T
    BY <2>1
  <2>3. QED
    BY <2>2
<1>3. PICK n \in T : n + 1 \notin T
  <2> HIDE DEF T
  <2> SUFFICES ASSUME \A n \in T : n + 1 \in T PROVE FALSE
    OBVIOUS
  <2>1. T \in SUBSET Nat
    BY DEF T
  <2>2. QED
    BY <1>1, <1>2, <2>1, Induction
<1>4. n \in S
  BY <1>3
<1>5. QED
  BY <1>3, <1>4

Keys(n) == {k \in Seq(Int) : Len(k) = n}

(* Keys of one length order what they tell apart. *)
Keyed(S, key, n) ==
  /\ IsFiniteSet(S) /\ n \in Nat /\ key \in [S -> Keys(n)]
  /\ \A x, y \in S : key[x] = key[y] => x = y

LEMMA BeforeOrders ==
  ASSUME NEW n \in Nat, NEW k \in Keys(n), NEW l \in Keys(n)
  PROVE  /\ ~ Before(k, k)
         /\ k # l => Before(k, l) \/ Before(l, k)
         /\ \A m \in Keys(n) : Before(k, l) /\ Before(l, m) => Before(k, m)
<1>1. /\ k \in Seq(Int) /\ Len(k) = n /\ l \in Seq(Int) /\ Len(l) = n
      /\ \A i \in 1 .. n : k[i] \in Int /\ l[i] \in Int
  BY DEF Keys
<1>2. ~ Before(k, k)
  BY <1>1 DEF Before
<1>3. ASSUME k # l PROVE Before(k, l) \/ Before(l, k)
  <2> DEFINE D == {i \in 1 .. n : k[i] # l[i]}
  <2>1. D # {}
    BY <1>1, <1>3
  <2>2. D \in SUBSET Nat
    OBVIOUS
  <2>3. PICK i \in D : \A j \in D : i <= j
    <3> HIDE DEF D
    <3> QED BY <2>1, <2>2, Least
  <2>4. \A j \in 1 .. i - 1 : k[j] = l[j]
    BY <2>3
  <2>5. k[i] < l[i] \/ l[i] < k[i]
    BY <1>1
  <2>6. QED
    BY <1>1, <2>4, <2>5 DEF Before
<1>4. ASSUME NEW m \in Keys(n), Before(k, l), Before(l, m) PROVE Before(k, m)
  <2>1. m \in Seq(Int) /\ Len(m) = n /\ \A i \in 1 .. n : m[i] \in Int
    BY DEF Keys
  <2>2. PICK i \in 1 .. n : k[i] < l[i] /\ \A j \in 1 .. i - 1 : k[j] = l[j]
    BY <1>1, <1>4 DEF Before
  <2>3. PICK h \in 1 .. n : l[h] < m[h] /\ \A j \in 1 .. h - 1 : l[j] = m[j]
    BY <1>1, <1>4 DEF Before
  <2>4. CASE i < h
    <3>1. l[i] = m[i] /\ \A j \in 1 .. i - 1 : j \in 1 .. h - 1
      BY <2>3, <2>4
    <3>2. k[i] < m[i] /\ \A j \in 1 .. i - 1 : k[j] = m[j]
      BY <2>2, <2>3, <3>1
    <3> QED BY <1>1, <3>2 DEF Before
  <2>5. CASE h < i
    <3>1. l[h] = k[h] /\ \A j \in 1 .. h - 1 : j \in 1 .. i - 1
      BY <2>2, <2>5
    <3>2. k[h] < m[h] /\ \A j \in 1 .. h - 1 : k[j] = m[j]
      BY <2>2, <2>3, <3>1
    <3> QED BY <1>1, <3>2 DEF Before
  <2>6. CASE h = i
    <3>1. k[i] < m[i] /\ \A j \in 1 .. i - 1 : k[j] = m[j]
      BY <1>1, <2>1, <2>2, <2>3, <2>6
    <3> QED BY <1>1, <3>1 DEF Before
  <2>7. QED
    BY <2>4, <2>5, <2>6
<1>5. QED
  BY <1>2, <1>3, <1>4

(* The members of a set that come before one of them. *)
Below(S, key, x) == {y \in S : Before(key[y], key[x])}

LEMMA Ranked ==
  ASSUME NEW S, NEW key, NEW n, Keyed(S, key, n)
  PROVE  /\ Cardinality(S) \in Nat
         /\ \A x \in S : Cardinality(Below(S, key, x)) \in 0 .. Cardinality(S) - 1
         /\ \A x, y \in S : Before(key[x], key[y]) =>
              Cardinality(Below(S, key, x)) < Cardinality(Below(S, key, y))
<1>1. /\ IsFiniteSet(S) /\ n \in Nat /\ \A x \in S : key[x] \in Keys(n)
      /\ \A x, y \in S : key[x] = key[y] => x = y
  BY DEF Keyed
<1>2. Cardinality(S) \in Nat
  BY <1>1, FS_CardinalityType
<1>3. \A x \in S : Below(S, key, x) \in SUBSET S /\ x \notin Below(S, key, x)
  BY <1>1, BeforeOrders DEF Below
<1>4. \A x \in S : /\ IsFiniteSet(Below(S, key, x)) /\ Cardinality(Below(S, key, x)) \in Nat
                   /\ Cardinality(Below(S, key, x)) < Cardinality(S)
  <2> SUFFICES ASSUME NEW x \in S
               PROVE  /\ IsFiniteSet(Below(S, key, x)) /\ Cardinality(Below(S, key, x)) \in Nat
                      /\ Cardinality(Below(S, key, x)) < Cardinality(S)
    OBVIOUS
  <2>1. /\ IsFiniteSet(Below(S, key, x)) /\ Cardinality(Below(S, key, x)) <= Cardinality(S)
        /\ Cardinality(S) # Cardinality(Below(S, key, x))
    BY <1>1, <1>3, FS_Subset
  <2>2. Cardinality(Below(S, key, x)) \in Nat
    BY <2>1, FS_CardinalityType
  <2>3. QED
    BY <1>2, <2>1, <2>2
<1>5. ASSUME NEW x \in S, NEW y \in S, Before(key[x], key[y])
      PROVE  Cardinality(Below(S, key, x)) < Cardinality(Below(S, key, y))
  <2>1. Below(S, key, x) \in SUBSET Below(S, key, y)
    BY <1>1, <1>5, BeforeOrders DEF Below
  <2>2. x \in Below(S, key, y) /\ x \notin Below(S, key, x)
    BY <1>3, <1>5 DEF Below
  <2>3. /\ Cardinality(Below(S, key, x)) <= Cardinality(Below(S, key, y))
        /\ Cardinality(Below(S, key, y)) # Cardinality(Below(S, key, x))
    BY <1>4, <2>1, <2>2, FS_Subset
  <2>4. QED
    BY <1>4, <2>3
<1>6. QED
  BY <1>2, <1>4, <1>5

(* A sorted set is a list of its members, each once and in order. *)
LEMMA SortedLists ==
  ASSUME NEW S, NEW key, NEW n, Keyed(S, key, n)
  PROVE  /\ Sorted(key) \in Seq(S) /\ Len(Sorted(key)) = Cardinality(S) /\ Cardinality(S) \in Nat
         /\ DOMAIN Sorted(key) = 1 .. Cardinality(S)
         /\ \A i \in 1 .. Cardinality(S) : Sorted(key)[i] \in S
         /\ \A x \in S : \E i \in 1 .. Cardinality(S) : Sorted(key)[i] = x
         /\ \A i, j \in 1 .. Cardinality(S) : i < j => Before(key[Sorted(key)[i]], key[Sorted(key)[j]])
         /\ \A i, j \in 1 .. Cardinality(S) : Sorted(key)[i] = Sorted(key)[j] => i = j
<1> DEFINE N == Cardinality(S)
           rank == [x \in S |-> Cardinality(Below(S, key, x)) + 1]
           s == Sorted(key)
<1>1. /\ IsFiniteSet(S) /\ n \in Nat /\ \A x \in S : key[x] \in Keys(n)
      /\ \A x, y \in S : key[x] = key[y] => x = y /\ DOMAIN key = S
  BY DEF Keyed
<1>2. N \in Nat /\ \A x \in S : rank[x] \in 1 .. N
  BY Ranked
<1>3. \A x, y \in S : Before(key[x], key[y]) => rank[x] < rank[y]
  BY Ranked
<1>4. s = [i \in 1 .. N |-> CHOOSE x \in S : rank[x] = i]
  <2>1. S = DOMAIN key
    BY DEF Keyed
  <2>2. s = [i \in 1 .. N |-> CHOOSE x \in S : Cardinality(Below(S, key, x)) = i - 1]
    BY <2>1 DEF Sorted, Below
  <2>3. ASSUME NEW i \in 1 .. N, NEW x \in S
        PROVE  Cardinality(Below(S, key, x)) = i - 1 <=> rank[x] = i
    BY <1>2, <2>3, Ranked
  <2>4. ASSUME NEW i \in 1 .. N
        PROVE  (CHOOSE x \in S : Cardinality(Below(S, key, x)) = i - 1) = (CHOOSE x \in S : rank[x] = i)
    BY <2>3, Zenon
  <2>5. QED
    BY <2>2, <2>4, Zenon
<1> HIDE DEF rank
<1>5. \A x, y \in S : rank[x] = rank[y] => x = y
  BY <1>1, <1>2, <1>3, BeforeOrders
<1>6. rank \in Injection(S, 1 .. N)
  BY <1>2, <1>5 DEF rank, Injection, IsInjective
<1>7. rank \in Surjection(S, 1 .. N)
  <2>1. IsFiniteSet(1 .. N) /\ Cardinality(1 .. N) = N
    BY <1>2, FS_Interval
  <2>2. QED
    BY <1>6, <2>1, FS_Injection
<1>8. \A i \in 1 .. N : \E x \in S : rank[x] = i
  BY <1>7 DEF Surjection
<1>9. \A i \in 1 .. N : s[i] \in S /\ rank[s[i]] = i
  <2> HIDE DEF s, N
  <2> SUFFICES ASSUME NEW i \in 1 .. N PROVE s[i] \in S /\ rank[s[i]] = i
    OBVIOUS
  <2>1. s[i] = CHOOSE x \in S : rank[x] = i
    BY <1>4
  <2>2. QED
    BY <1>8, <2>1
<1>10. s \in [1 .. N -> S]
  <2> HIDE DEF s, N
  <2> QED BY <1>4, <1>9
<1>11. s \in Seq(S) /\ Len(s) = N /\ DOMAIN s = 1 .. N
  <2> HIDE DEF s, N
  <2> QED BY <1>2, <1>10
<1>12. \A x \in S : s[rank[x]] = x
  <2> HIDE DEF s, N
  <2> QED BY <1>2, <1>5, <1>9
<1>13. ASSUME NEW i \in 1 .. N, NEW j \in 1 .. N, i < j PROVE Before(key[s[i]], key[s[j]])
  <2> HIDE DEF s
  <2>1. s[i] # s[j] /\ ~ Before(key[s[j]], key[s[i]])
    BY <1>2, <1>3, <1>9, <1>13
  <2>2. key[s[i]] # key[s[j]] /\ key[s[i]] \in Keys(n) /\ key[s[j]] \in Keys(n)
    BY <1>1, <1>9, <2>1
  <2>3. QED
    BY <1>1, <2>1, <2>2, BeforeOrders
<1>14. /\ \A x \in S : \E i \in 1 .. N : s[i] = x
       /\ \A i, j \in 1 .. N : s[i] = s[j] => i = j
  <2> HIDE DEF s, N
  <2> QED BY <1>2, <1>9, <1>12
<1>15. /\ s \in Seq(S) /\ Len(s) = N /\ N \in Nat /\ DOMAIN s = 1 .. N
       /\ \A i \in 1 .. N : s[i] \in S
  <2> HIDE DEF s, N
  <2> QED BY <1>2, <1>9, <1>11
<1>16. QED
  BY <1>13, <1>14, <1>15

Covered(list) == UNION {RowsOf(list[j].languages) : j \in DOMAIN list}

(* No two packs of a plan share an id or a language. *)
Apart(list) ==
  /\ list \in Seq(PlannedPack)
  /\ \A i, j \in DOMAIN list :
       list[i].id = list[j].id \/ RowsOf(list[i].languages) \cap RowsOf(list[j].languages) # {} => i = j

Bundles(list) == {j \in DOMAIN list : Len(list[j].languages) > 1}

(* Packs of one language have its tag, bundles the number they were given. *)
Numbered(list) ==
  \A j \in DOMAIN list :
    \/ \E l \in Lang : list[j].id = <<"own", Tag[l]>> /\ list[j].languages = <<l>>
    \/ \E n \in 1 .. Cardinality(Bundles(list)) :
         list[j].id = <<"bundle", n>> /\ Len(list[j].languages) > 1

LEMMA RowsOfAppend ==
  ASSUME NEW S, NEW s \in Seq(S), NEW x \in S
  PROVE  RowsOf(Append(s, x)) = RowsOf(s) \cup {x}
<1>1. /\ Len(s) \in Nat /\ DOMAIN s = 1 .. Len(s) /\ Len(Append(s, x)) = Len(s) + 1
      /\ DOMAIN Append(s, x) = 1 .. Len(s) + 1 /\ Append(s, x)[Len(s) + 1] = x
      /\ \A i \in 1 .. Len(s) : Append(s, x)[i] = s[i] /\ s[i] \in S
  OBVIOUS
<1>2. RowsOf(Append(s, x)) = RowsOf(s) \cup {x}
  <2>1. \A y \in RowsOf(s) \cup {x} : y \in RowsOf(Append(s, x))
    BY <1>1 DEF RowsOf
  <2>2. \A i \in 1 .. Len(s) + 1 : i \in 1 .. Len(s) \/ i = Len(s) + 1
    BY <1>1
  <2>3. \A y \in RowsOf(Append(s, x)) : y \in RowsOf(s) \cup {x}
    BY <1>1, <2>2 DEF RowsOf
  <2>4. QED
    BY <2>1, <2>3
<1>3. QED
  BY <1>2

LEMMA BundlesCounted ==
  ASSUME NEW list \in Seq(PlannedPack)
  PROVE  IsFiniteSet(Bundles(list)) /\ Cardinality(Bundles(list)) \in Nat
<1>1. Len(list) \in Nat /\ IsFiniteSet(1 .. Len(list)) /\ Bundles(list) \in SUBSET (1 .. Len(list))
  <2>1. Len(list) \in Nat /\ DOMAIN list = 1 .. Len(list)
    OBVIOUS
  <2>2. QED
    BY <2>1, FS_Interval DEF Bundles
<1>2. QED
  BY <1>1, FS_Subset, FS_CardinalityType

LEMMA BundlesAppend ==
  ASSUME NEW list \in Seq(PlannedPack), NEW pack \in PlannedPack
  PROVE  Cardinality(Bundles(Append(list, pack)))
           = Cardinality(Bundles(list)) + (IF Len(pack.languages) > 1 THEN 1 ELSE 0)
<1>1. /\ Len(list) \in Nat /\ DOMAIN list = 1 .. Len(list)
      /\ DOMAIN Append(list, pack) = 1 .. Len(list) + 1
      /\ Append(list, pack)[Len(list) + 1] = pack
      /\ \A i \in 1 .. Len(list) : Append(list, pack)[i] = list[i]
      /\ Len(list) + 1 \notin 1 .. Len(list)
  OBVIOUS
<1>4. /\ IsFiniteSet(Bundles(list)) /\ Cardinality(Bundles(list)) \in Nat
      /\ Bundles(list) \in SUBSET (1 .. Len(list))
  BY <1>1, BundlesCounted DEF Bundles
<1>5. \A i \in 1 .. Len(list) + 1 : i \in 1 .. Len(list) \/ i = Len(list) + 1
  BY <1>1
<1>6. CASE Len(pack.languages) > 1
  <2>1. Bundles(Append(list, pack)) = Bundles(list) \cup {Len(list) + 1}
    BY <1>1, <1>5, <1>6 DEF Bundles
  <2>2. Len(list) + 1 \notin Bundles(list)
    BY <1>1, <1>4
  <2>3. QED
    BY <1>4, <1>6, <2>1, <2>2, FS_AddElement
<1>7. CASE ~(Len(pack.languages) > 1)
  <2>1. Bundles(Append(list, pack)) = Bundles(list)
    BY <1>1, <1>5, <1>7 DEF Bundles
  <2>2. QED
    BY <1>4, <1>7, <2>1
<1>8. QED
  BY <1>4, <1>6, <1>7

(* A pack more, of languages and with an id that no pack has.              *)
LEMMA ApartAppend ==
  ASSUME NEW list, Apart(list), NEW pack \in PlannedPack,
         \A j \in DOMAIN list : list[j].id # pack.id,
         Covered(list) \cap RowsOf(pack.languages) = {}
  PROVE  /\ Apart(Append(list, pack))
         /\ Covered(Append(list, pack)) = Covered(list) \cup RowsOf(pack.languages)
<1> DEFINE more == Append(list, pack)
<1>1. /\ Len(list) \in Nat /\ DOMAIN list = 1 .. Len(list) /\ list \in Seq(PlannedPack)
      /\ more \in Seq(PlannedPack)
      /\ DOMAIN more = 1 .. Len(list) + 1
      /\ more[Len(list) + 1] = pack
      /\ \A i \in 1 .. Len(list) : more[i] = list[i]
  BY DEF Apart
<1>2. \A i \in 1 .. Len(list) + 1 : i \in 1 .. Len(list) \/ i = Len(list) + 1
  BY <1>1
<1> HIDE DEF more
<1>3. Covered(more) = Covered(list) \cup RowsOf(pack.languages)
  <2>1. \A l \in Covered(list) \cup RowsOf(pack.languages) : l \in Covered(more)
    <3>1. Len(list) + 1 \in DOMAIN more /\ \A j \in DOMAIN list : j \in DOMAIN more
      BY <1>1
    <3> QED BY <1>1, <3>1 DEF Covered
  <2>2. \A l \in Covered(more) : l \in Covered(list) \cup RowsOf(pack.languages)
    BY <1>1, <1>2 DEF Covered
  <2>3. QED
    BY <2>1, <2>2
<1>4. \A j \in DOMAIN list : RowsOf(list[j].languages) \cap RowsOf(pack.languages) = {}
  BY DEF Covered
<1>5. ASSUME NEW i \in DOMAIN more, NEW j \in DOMAIN more,
             more[i].id = more[j].id \/ RowsOf(more[i].languages) \cap RowsOf(more[j].languages) # {}
      PROVE  i = j
  <2>1. CASE i \in 1 .. Len(list) /\ j \in 1 .. Len(list)
    BY <1>1, <1>5, <2>1 DEF Apart
  <2>2. CASE i \in 1 .. Len(list) /\ j = Len(list) + 1
    BY <1>1, <1>4, <1>5, <2>2
  <2>3. CASE i = Len(list) + 1 /\ j \in 1 .. Len(list)
    BY <1>1, <1>4, <1>5, <2>3
  <2>4. QED
    BY <1>1, <1>2, <2>1, <2>2, <2>3
<1>6. QED
  BY <1>1, <1>3, <1>5 DEF Apart, more

(* The recursion over the order of the languages has a solution.           *)
LEMMA PlansSteps ==
  ASSUME NEW order, Len(order) \in Nat, NEW has, NEW threshold, NEW target,
         NEW p, p = Plans(order, has, threshold, target)
  PROVE  /\ p[0] = [packs |-> <<>>, bundle |-> <<>>, size |-> 0]
         /\ \A i \in 1 .. Len(order) :
              p[i] = Assign(p[i - 1], order[i], has[order[i]], threshold, target)
<1> DEFINE none == [packs |-> <<>>, bundle |-> <<>>, size |-> 0]
           Step(g, i) == Assign(g[i - 1], order[i], has[order[i]], threshold, target)
           Solves(g, n) == g = [i \in 0 .. n |-> IF i = 0 THEN none ELSE Step(g, i)]
           N == {n \in Nat : \E g : Solves(g, n)}
<1>1. 0 \in N
  <2>1. Solves([i \in 0 .. 0 |-> none], 0)
    OBVIOUS
  <2>2. QED
    BY <2>1
<1>2. ASSUME NEW n \in N PROVE n + 1 \in N
  <2>1. PICK g : Solves(g, n)
    BY <1>2
  <2> DEFINE h == [i \in 0 .. n + 1 |-> IF i = 0 THEN none ELSE IF i = n + 1 THEN Step(g, n + 1) ELSE g[i]]
  <2>2. \A i \in 0 .. n : h[i] = g[i]
    <3>1. \A i \in 0 .. n : i \in 0 .. n + 1 /\ i # n + 1 /\ (i = 0 => g[i] = none)
      BY <2>1
    <3> QED BY <3>1
  <2>3. \A i \in 1 .. n : h[i] = Step(g, i)
    <3>1. \A i \in 1 .. n : g[i] = Step(g, i)
      BY <2>1
    <3> HIDE DEF Step
    <3> QED BY <2>2, <3>1
  <2>4. \A i \in 1 .. n + 1 : i - 1 \in 0 .. n
    OBVIOUS
  <2> HIDE DEF h
  <2>5. \A i \in 1 .. n + 1 : Step(h, i) = Step(g, i)
    BY <2>2, <2>4
  <2>6. \A i \in 0 .. n + 1 : h[i] = IF i = 0 THEN none ELSE Step(h, i)
    <3> HIDE DEF Step
    <3>1. \A i \in 0 .. n + 1 : i = 0 \/ i = n + 1 \/ i \in 1 .. n
      OBVIOUS
    <3>2. h[0] = none /\ h[n + 1] = Step(g, n + 1)
      BY DEF h
    <3> QED BY <2>3, <2>5, <3>1, <3>2
  <2>7. Solves(h, n + 1)
    <3> HIDE DEF Step
    <3>1. h = [i \in 0 .. n + 1 |-> h[i]]
      BY DEF h
    <3> QED BY <2>6, <3>1
  <2>8. n + 1 \in Nat
    BY <1>2
  <2>9. QED
    <3> HIDE DEF Solves
    <3> QED BY <2>7, <2>8
<1>3. \E g : Solves(g, Len(order))
  <2>1. Len(order) \in Nat /\ N \in SUBSET Nat
    OBVIOUS
  <2> HIDE DEF N
  <2>2. N = Nat
    BY <1>1, <1>2, <2>1, Induction
  <2> USE DEF N
  <2> HIDE DEF Solves
  <2>3. QED
    BY <2>1, <2>2
<1>4. p = CHOOSE g : Solves(g, Len(order))
  BY DEF Plans
<1>5. Solves(p, Len(order))
  <2> HIDE DEF Solves
  <2> QED BY <1>3, <1>4
<1>6. \A i \in 1 .. Len(order) : p[i] = Step(p, i)
  <2> HIDE DEF Step
  <2>1. \A i \in 1 .. Len(order) : i \in 0 .. Len(order) /\ i # 0
    OBVIOUS
  <2> QED BY <1>5, <2>1
<1>7. p[0] = none
  <2> HIDE DEF Step
  <2> QED BY <1>5
<1>8. QED
  BY <1>6, <1>7

(* A plan under way that has dealt with the languages D.                   *)
PlanSound(p, D) ==
  /\ p \in [packs : Seq(PlannedPack), bundle : Seq(Lang), size : Nat]
  /\ p.bundle = <<>> => p.size = 0
  /\ Apart(p.packs) /\ Numbered(p.packs)
  /\ Covered(p.packs) \cup RowsOf(p.bundle) = D
  /\ Covered(p.packs) \cap RowsOf(p.bundle) = {}

LEMMA FlushSound ==
  ASSUME NEW p, NEW D, PlanSound(p, D)
  PROVE  /\ Apart(Flush(p).packs) /\ Covered(Flush(p).packs) = D
         /\ Len(p.bundle) > 1 => PlanSound(Flush(p), D)
<1>1. /\ p.bundle \in Seq(Lang) /\ Apart(p.packs) /\ Numbered(p.packs)
      /\ Covered(p.packs) \cup RowsOf(p.bundle) = D
      /\ Covered(p.packs) \cap RowsOf(p.bundle) = {} /\ p.packs \in Seq(PlannedPack)
  BY DEF PlanSound, Apart
<1>2. RowsOf(<<>>) = {}
  BY DEF RowsOf
<1>3. CASE p.bundle = <<>>
  BY <1>1, <1>2, <1>3 DEF Flush
<1>4. CASE p.bundle # <<>>
  <2> DEFINE n == Cardinality(Bundles(p.packs))
             pack == [id |-> <<"bundle", 1 + n>>, languages |-> p.bundle]
  <2>1. n \in Nat /\ pack \in PlannedPack
    <3>1. n \in Nat
      BY <1>1, BundlesCounted
    <3> HIDE DEF n
    <3>2. <<"bundle", 1 + n>> \in {"own", "bundle"} \X Nat /\ p.bundle \in Seq(Lang) \ {<<>>}
      BY <1>1, <1>4, <3>1
    <3>3. QED
      BY <3>1, <3>2 DEF PlannedPack
  <2>2. Flush(p) = [packs |-> Append(p.packs, pack), bundle |-> <<>>, size |-> 0]
    BY <1>4 DEF Flush, Bundles
  <2>3. \A j \in DOMAIN p.packs : p.packs[j].id # pack.id
    <3> SUFFICES ASSUME NEW j \in DOMAIN p.packs PROVE p.packs[j].id # <<"bundle", 1 + n>>
      OBVIOUS
    <3>1. CASE \E l \in Lang : p.packs[j].id = <<"own", Tag[l]>>
      BY <3>1
    <3>2. CASE \E m \in 1 .. n : p.packs[j].id = <<"bundle", m>>
      BY <2>1, <3>2
    <3>3. QED
      BY <1>1, <3>1, <3>2 DEF Numbered
  <2>4. /\ Apart(Append(p.packs, pack))
        /\ Covered(Append(p.packs, pack)) = Covered(p.packs) \cup RowsOf(p.bundle)
    <3> HIDE DEF n
    <3> QED BY <1>1, <2>1, <2>3, ApartAppend
  <2>5. ASSUME Len(p.bundle) > 1 PROVE Numbered(Append(p.packs, pack))
    <3> DEFINE list == Append(p.packs, pack)
    <3>1. Cardinality(Bundles(list)) = n + 1
      <4> HIDE DEF n
      <4>1. Len(pack.languages) > 1
        BY <2>5
      <4> QED BY <1>1, <2>1, <4>1, BundlesAppend DEF n
    <3>2. /\ DOMAIN list = 1 .. Len(p.packs) + 1 /\ Len(p.packs) \in Nat
          /\ DOMAIN p.packs = 1 .. Len(p.packs)
          /\ list[Len(p.packs) + 1] = pack
          /\ \A i \in 1 .. Len(p.packs) : list[i] = p.packs[i]
      BY <1>1
    <3>3. n + 1 \in 1 .. n + 1 /\ \A m \in 1 .. n : m \in 1 .. n + 1
      BY <2>1
    <3>4. pack.id = <<"bundle", n + 1>> /\ Len(pack.languages) > 1
      BY <2>1, <2>5
    <3> HIDE DEF list, pack, n
    <3>5. ASSUME NEW j \in 1 .. Len(p.packs) + 1
          PROVE  \/ \E l \in Lang : list[j].id = <<"own", Tag[l]>> /\ list[j].languages = <<l>>
                 \/ \E m \in 1 .. n + 1 : list[j].id = <<"bundle", m>> /\ Len(list[j].languages) > 1
      <4>1. CASE j = Len(p.packs) + 1
        BY <3>2, <3>3, <3>4, <4>1
      <4>2. CASE j \in 1 .. Len(p.packs)
        <5>1. list[j] = p.packs[j] /\ j \in DOMAIN p.packs
          BY <3>2, <4>2
        <5>2. CASE \E l \in Lang : p.packs[j].id = <<"own", Tag[l]>> /\ p.packs[j].languages = <<l>>
          BY <5>1, <5>2
        <5>3. CASE \E m \in 1 .. n : p.packs[j].id = <<"bundle", m>> /\ Len(p.packs[j].languages) > 1
          BY <3>3, <5>1, <5>3
        <5>4. QED
          BY <1>1, <5>1, <5>2, <5>3 DEF Numbered, n
      <4>3. QED
        BY <3>2, <4>1, <4>2
    <3>6. QED
      <4> USE DEF list
      <4> HIDE DEF pack
      <4>1. DOMAIN Append(p.packs, pack) = 1 .. Len(p.packs) + 1
        BY <3>2
      <4>2. Cardinality(Bundles(Append(p.packs, pack))) = n + 1
        BY <3>1
      <4> HIDE DEF list
      <4>3. QED
        BY <3>5, <4>1, <4>2 DEF Numbered, list
  <2>6. QED
    <3> HIDE DEF n, pack
    <3> DEFINE q == [packs |-> Append(p.packs, pack), bundle |-> <<>>, size |-> 0]
    <3>1. /\ q.packs = Append(p.packs, pack) /\ q.bundle = <<>> /\ q.size = 0
          /\ q \in [packs : Seq(PlannedPack), bundle : Seq(Lang), size : Nat]
      BY <1>1, <2>1
    <3> HIDE DEF q
    <3>2. Flush(p) = q
      BY <2>2 DEF q
    <3>3. Covered(q.packs) = D
      BY <1>1, <2>4, <3>1
    <3>4. ASSUME Len(p.bundle) > 1 PROVE PlanSound(q, D)
      BY <1>2, <2>4, <2>5, <3>1, <3>3, <3>4 DEF PlanSound
    <3>5. QED
      BY <2>4, <3>1, <3>2, <3>3, <3>4
<1>5. QED
  BY <1>3, <1>4

LEMMA AssignSound ==
  ASSUME NEW p, NEW D \in SUBSET Lang, PlanSound(p, D), NEW l \in Lang \ D, NEW size \in Nat,
         NEW threshold \in Nat, NEW target \in Nat, threshold <= target
  PROVE  PlanSound(Assign(p, l, size, threshold, target), D \cup {l})
<1>1. /\ p \in [packs : Seq(PlannedPack), bundle : Seq(Lang), size : Nat]
      /\ p.bundle \in Seq(Lang) /\ p.size \in Nat /\ (p.bundle = <<>> => p.size = 0)
      /\ Apart(p.packs) /\ Numbered(p.packs) /\ p.packs \in Seq(PlannedPack)
      /\ Covered(p.packs) \cup RowsOf(p.bundle) = D
      /\ Covered(p.packs) \cap RowsOf(p.bundle) = {}
  BY DEF PlanSound, Apart
<1>2. CASE size >= threshold
  <2> DEFINE pack == [id |-> <<"own", Tag[l]>>, languages |-> <<l>>]
             q == [p EXCEPT !.packs = Append(@, pack)]
  <2>1. Assign(p, l, size, threshold, target) = q
    BY <1>2 DEF Assign
  <2>2. pack \in PlannedPack /\ RowsOf(<<l>>) = {l} /\ Tag[l] \in Nat /\ Len(pack.languages) = 1
    BY ContentsAssumption DEF PlannedPack, RowsOf
  <2>3. \A j \in DOMAIN p.packs : p.packs[j].id # pack.id
    <3> SUFFICES ASSUME NEW j \in DOMAIN p.packs PROVE p.packs[j].id # <<"own", Tag[l]>>
      OBVIOUS
    <3>1. CASE \E n \in 1 .. Cardinality(Bundles(p.packs)) : p.packs[j].id = <<"bundle", n>>
      BY <3>1
    <3>2. ASSUME NEW m \in Lang, p.packs[j].id = <<"own", Tag[m]>>, p.packs[j].languages = <<m>>
          PROVE  p.packs[j].id # <<"own", Tag[l]>>
      <4>1. m \in Covered(p.packs)
        BY <3>2 DEF Covered, RowsOf
      <4>2. m # l
        BY <1>1, <4>1
      <4>3. QED
        BY <3>2, <4>2, EditionsAssumption
    <3>3. QED
      BY <1>1, <3>1, <3>2 DEF Numbered
  <2>4. Covered(p.packs) \cap RowsOf(pack.languages) = {}
    BY <1>1, <2>2
  <2> DEFINE list == Append(p.packs, pack)
  <2>5. Apart(list) /\ Covered(list) = Covered(p.packs) \cup {l}
    <3>1. pack.languages = <<l>>
      OBVIOUS
    <3> HIDE DEF pack
    <3> QED BY <1>1, <2>2, <2>3, <2>4, <3>1, ApartAppend
  <2>6. Cardinality(Bundles(list)) = Cardinality(Bundles(p.packs))
    <3>1. Cardinality(Bundles(p.packs)) \in Nat
      BY <1>1, BundlesCounted
    <3>2. ~(Len(pack.languages) > 1)
      BY <2>2
    <3> HIDE DEF pack
    <3>3. Cardinality(Bundles(Append(p.packs, pack)))
            = Cardinality(Bundles(p.packs)) + (IF Len(pack.languages) > 1 THEN 1 ELSE 0)
      BY <1>1, <2>2, BundlesAppend
    <3> QED BY <3>1, <3>2, <3>3
  <2>7. /\ DOMAIN list = 1 .. Len(p.packs) + 1 /\ Len(p.packs) \in Nat
        /\ DOMAIN p.packs = 1 .. Len(p.packs) /\ list[Len(p.packs) + 1] = pack
        /\ \A i \in 1 .. Len(p.packs) : list[i] = p.packs[i]
    BY <1>1
  <2>8. Numbered(list)
    <3>1. pack.id = <<"own", Tag[l]>> /\ pack.languages = <<l>>
      OBVIOUS
    <3> HIDE DEF list, pack
    <3>2. ASSUME NEW j \in 1 .. Len(p.packs) + 1
          PROVE  \/ \E m \in Lang : list[j].id = <<"own", Tag[m]>> /\ list[j].languages = <<m>>
                 \/ \E n \in 1 .. Cardinality(Bundles(list)) :
                      list[j].id = <<"bundle", n>> /\ Len(list[j].languages) > 1
      <4>1. CASE j = Len(p.packs) + 1
        BY <2>7, <3>1, <4>1
      <4>2. CASE j \in 1 .. Len(p.packs)
        <5>1. list[j] = p.packs[j] /\ j \in DOMAIN p.packs
          BY <2>7, <4>2
        <5> QED BY <1>1, <2>6, <5>1 DEF Numbered
      <4> QED BY <2>7, <4>1, <4>2
    <3> QED BY <2>7, <3>2 DEF Numbered
  <2>9. /\ q \in [packs : Seq(PlannedPack), bundle : Seq(Lang), size : Nat]
        /\ q.packs = list /\ q.bundle = p.bundle /\ q.size = p.size
    <3>1. list \in Seq(PlannedPack)
      BY <2>5 DEF Apart
    <3> HIDE DEF pack
    <3> QED BY <1>1, <3>1
  <2> HIDE DEF q, list
  <2>10. Covered(list) \cap RowsOf(p.bundle) = {} /\ Covered(list) \cup RowsOf(p.bundle) = D \cup {l}
    BY <1>1, <2>5
  <2>11. QED
    BY <1>1, <2>1, <2>5, <2>8, <2>9, <2>10 DEF PlanSound
<1>3. CASE ~(size >= threshold)
  <2> DEFINE next == [p EXCEPT !.bundle = Append(@, l), !.size = @ + size]
  <2>1. Assign(p, l, size, threshold, target) = IF next.size >= target THEN Flush(next) ELSE next
    BY <1>3 DEF Assign
  <2>2. /\ next \in [packs : Seq(PlannedPack), bundle : Seq(Lang), size : Nat]
        /\ next.packs = p.packs /\ next.bundle = Append(p.bundle, l) /\ next.size = p.size + size
    <3>1. Append(p.bundle, l) \in Seq(Lang) /\ p.size + size \in Nat
      BY <1>1
    <3> DEFINE b == Append(p.bundle, l)
               z == p.size + size
    <3>2. next = [p EXCEPT !.bundle = b, !.size = z]
      OBVIOUS
    <3> HIDE DEF next, b, z
    <3>3. /\ next \in [packs : Seq(PlannedPack), bundle : Seq(Lang), size : Nat]
          /\ next.packs = p.packs /\ next.bundle = b /\ next.size = z
      <4>1. b \in Seq(Lang) /\ z \in Nat
        BY <3>1 DEF b, z
      <4>2. QED
        BY <1>1, <3>2, <4>1
    <3>4. QED
      BY <3>3 DEF b, z
  <2>3. Append(p.bundle, l) # <<>> /\ RowsOf(Append(p.bundle, l)) = RowsOf(p.bundle) \cup {l}
    <3>1. l \in Lang /\ p.bundle \in Seq(Lang)
      BY <1>1
    <3>2. Len(Append(p.bundle, l)) = Len(p.bundle) + 1 /\ Len(p.bundle) \in Nat
      BY <3>1
    <3>3. RowsOf(Append(p.bundle, l)) = RowsOf(p.bundle) \cup {l}
      BY <3>1, RowsOfAppend
    <3>4. QED
      BY <3>2, <3>3
  <2> HIDE DEF next
  <2>4. PlanSound(next, D \cup {l})
    BY <1>1, <2>2, <2>3 DEF PlanSound
  <2>5. ASSUME next.size >= target PROVE Len(next.bundle) > 1
    <3>1. p.bundle # <<>>
      BY <1>1, <1>3, <2>2, <2>5
    <3>2. Len(p.bundle) >= 1
      BY <1>1, <3>1
    <3>3. QED
      BY <1>1, <2>2, <3>2
  <2>6. QED
    BY <2>1, <2>4, <2>5, FlushSound
<1>4. QED
  BY <1>2, <1>3

(* Every language of the sizes is in one pack, under an id of its own.     *)
LEMMA PlanDealsLanguages ==
  ASSUME NEW L \in SUBSET Lang, IsFiniteSet(L), NEW has \in [L -> Nat],
         NEW threshold \in Nat, NEW target \in Nat, threshold <= target
  PROVE  LET plan == PlanLexicalPacks(has, threshold, target) IN
         Apart(plan) /\ Covered(plan) = L
<1> DEFINE order == PlanOrder(has)
           key == [l \in DOMAIN has |-> <<-has[l], Tag[l]>>]
           p == Plans(order, has, threshold, target)
           N == Cardinality(L)
           dealt(i) == {order[h] : h \in 1 .. i}
<1>1. Keyed(L, key, 2)
  <2>1. \A l \in L : /\ key[l] = <<-has[l], Tag[l]>> /\ -has[l] \in Int /\ Tag[l] \in Int
                    /\ <<-has[l], Tag[l]>> \in Seq(Int) /\ Len(<<-has[l], Tag[l]>>) = 2
    BY ContentsAssumption
  <2>2. \A l, m \in L : key[l] = key[m] => l = m
    BY <2>1, EditionsAssumption
  <2>3. key \in [L -> Keys(2)]
    BY <2>1 DEF Keys
  <2>4. QED
    <3> HIDE DEF key
    <3> QED BY <2>2, <2>3 DEF Keyed
<1>2. /\ N \in Nat /\ order \in Seq(L) /\ Len(order) = N
      /\ \A i \in 1 .. N : order[i] \in L
      /\ \A l \in L : \E i \in 1 .. N : order[i] = l
      /\ \A i, j \in 1 .. N : order[i] = order[j] => i = j
  <2> HIDE DEF key
  <2>1. order = Sorted(key)
    BY DEF PlanOrder, key
  <2> HIDE DEF order
  <2>2. /\ order \in Seq(L) /\ Len(order) = N /\ N \in Nat
        /\ \A i \in 1 .. N : order[i] \in L
    <3> HIDE DEF N
    <3>1. Sorted(key) \in Seq(L) /\ Len(Sorted(key)) = Cardinality(L) /\ Cardinality(L) \in Nat
      BY <1>1, SortedLists
    <3>2. \A i \in 1 .. Cardinality(L) : Sorted(key)[i] \in L
      BY <1>1, SortedLists
    <3>3. QED
      BY <2>1, <3>1, <3>2 DEF N
  <2>3. \A l \in L : \E i \in 1 .. N : order[i] = l
    <3>1. \A l \in L : \E i \in 1 .. Cardinality(L) : Sorted(key)[i] = l
      BY <1>1, SortedLists
    <3>2. QED
      BY <2>1, <3>1
  <2>4. \A i, j \in 1 .. N : order[i] = order[j] => i = j
    <3>1. \A i, j \in 1 .. Cardinality(L) : Sorted(key)[i] = Sorted(key)[j] => i = j
      BY <1>1, SortedLists
    <3>2. QED
      BY <2>1, <3>1
  <2>5. QED
    BY <2>2, <2>3, <2>4
<1> HIDE DEF order, key
<1>3. /\ p[0] = [packs |-> <<>>, bundle |-> <<>>, size |-> 0]
      /\ \A i \in 1 .. N : p[i] = Assign(p[i - 1], order[i], has[order[i]], threshold, target)
  <2> HIDE DEF N
  <2>1. /\ p[0] = [packs |-> <<>>, bundle |-> <<>>, size |-> 0]
        /\ \A i \in 1 .. Len(order) : p[i] = Assign(p[i - 1], order[i], has[order[i]], threshold, target)
    BY <1>2, PlansSteps
  <2>2. QED
    BY <1>2, <2>1
<1> HIDE DEF p, N
<1> DEFINE T == {i \in Nat : i <= N => PlanSound(p[i], dealt(i))}
<1>4. 0 \in T
  <2>1. dealt(0) = {} /\ RowsOf(<<>>) = {} /\ Covered(<<>>) = {}
    BY DEF RowsOf, Covered
  <2>2. Apart(<<>>) /\ Numbered(<<>>)
    BY DEF Apart, Numbered
  <2>3. PlanSound(p[0], dealt(0))
    BY <1>3, <2>1, <2>2 DEF PlanSound
  <2>4. QED
    BY <2>3
<1>5. ASSUME NEW i \in T PROVE i + 1 \in T
  <2> SUFFICES ASSUME i + 1 <= N PROVE PlanSound(p[i + 1], dealt(i + 1))
    OBVIOUS
  <2>1. /\ PlanSound(p[i], dealt(i)) /\ i + 1 \in 1 .. N /\ i + 1 - 1 = i
        /\ \A h \in 1 .. i : h \in 1 .. N /\ h # i + 1
    BY <1>2
  <2>2. /\ dealt(i) \in SUBSET Lang /\ order[i + 1] \in Lang \ dealt(i)
        /\ has[order[i + 1]] \in Nat
    BY <1>2, <2>1
  <2>3. dealt(i + 1) = dealt(i) \cup {order[i + 1]}
    <3>1. \A h \in 1 .. i + 1 : h \in 1 .. i \/ h = i + 1
      OBVIOUS
    <3> QED BY <2>1, <3>1
  <2>4. p[i + 1] = Assign(p[i], order[i + 1], has[order[i + 1]], threshold, target)
    BY <1>3, <2>1
  <2> HIDE DEF dealt
  <2>5. QED
    BY <2>1, <2>2, <2>3, <2>4, AssignSound
<1>6. PlanSound(p[N], dealt(N))
  <2>1. T \in SUBSET Nat
    OBVIOUS
  <2> HIDE DEF T
  <2>2. N \in T
    BY <1>2, <1>4, <1>5, <2>1, Induction
  <2>3. QED
    BY <1>2, <2>2 DEF T
<1>7. dealt(N) = L
  BY <1>2
<1>8. PlanLexicalPacks(has, threshold, target) = Flush(p[N]).packs
  BY <1>2 DEF PlanLexicalPacks, p, order
<1>9. QED
  BY <1>6, <1>7, <1>8, FlushSound

LEMMA ImageCounted ==
  ASSUME NEW S, IsFiniteSet(S), NEW f, DOMAIN f = S
  PROVE  /\ IsFiniteSet({f[x] : x \in S})
         /\ Cardinality({f[x] : x \in S}) <= Cardinality(S)
<1> DEFINE T == {f[x] : x \in S}
           g == [x \in S |-> f[x]]
<1>1. g \in Surjection(S, T)
  BY DEF Surjection
<1> HIDE DEF g, T
<1>2. IsFiniteSet(T) /\ Cardinality(T) <= Cardinality(S)
  BY <1>1, FS_Surjection
<1>3. QED
  BY <1>2 DEF T

CorpusTerms ==
  Base \cup {r.source : r \in Kind("relation")}
       \cup {i.row.target : i \in {j \in rows : j.kind # "sense"}}

LEMMA CorpusFields ==
  /\ Corpus.terms = CorpusTerms
  /\ Corpus.entries = {e \in Entry : HeadOf[e] \in CorpusTerms}
  /\ Corpus.senses = {s \in Sense : EntryOf[s] \in Corpus.entries}
                       \ {i.row : i \in {j \in Imported \ rows : j.kind = "sense"}}
  /\ Corpus.translations = Kind("translation") /\ Corpus.synonyms = Kind("synonym")
  /\ Corpus.relations = Kind("relation") /\ Corpus.stubs = <<>>
BY DEF Corpus, CorpusTerms

RowsKnown == rows \subseteq Imported /\ IsFiniteSet(rows) /\ Cardinality(rows) <= MaxRows

LEMMA KindTyped ==
  ASSUME RowsKnown
  PROVE  /\ \A k : IsFiniteSet(Kind(k)) /\ Cardinality(Kind(k)) <= MaxRows
         /\ Kind("relation") \subseteq Relation
         /\ Kind("translation") \subseteq Detail /\ Kind("synonym") \subseteq Detail
<1>1. \A j \in rows : \/ j.kind = "sense" /\ j.row \in Sense
                      \/ j.kind = "relation" /\ j.row \in Relation
                      \/ j.kind \in {"translation", "synonym"} /\ j.row \in Detail
  <2>1. rows \subseteq Item
    BY EditionsAssumption DEF RowsKnown
  <2>2. QED
    BY <2>1 DEF Item
<1>2. ASSUME NEW k PROVE IsFiniteSet(Kind(k)) /\ Cardinality(Kind(k)) <= MaxRows
  <2> DEFINE T == {j \in rows : j.kind = k}
             f == [i \in T |-> i.row]
  <2>1. /\ IsFiniteSet(T) /\ Cardinality(T) \in Nat /\ Cardinality(T) <= Cardinality(rows)
        /\ Cardinality(rows) \in Nat
    BY FS_Subset, FS_CardinalityType DEF RowsKnown
  <2>2. Kind(k) = {f[x] : x \in T}
    BY DEF Kind
  <2>3. DOMAIN f = T
    OBVIOUS
  <2> HIDE DEF f, T
  <2>4. IsFiniteSet(Kind(k)) /\ Cardinality(Kind(k)) <= Cardinality(T)
    BY <2>1, <2>2, <2>3, ImageCounted
  <2>5. Cardinality(Kind(k)) \in Nat
    BY <2>4, FS_CardinalityType
  <2>6. QED
    BY <2>1, <2>4, <2>5, EditionsAssumption DEF RowsKnown
<1>3. QED
  BY <1>1, <1>2 DEF Kind

LEMMA CorpusTyped ==
  ASSUME RowsKnown
  PROVE  /\ Corpus.terms \subseteq Term /\ IsFiniteSet(Corpus.terms)
         /\ Corpus.entries \subseteq Entry /\ IsFiniteSet(Corpus.entries)
         /\ Corpus.senses \subseteq Sense /\ IsFiniteSet(Corpus.senses)
         /\ Corpus.translations \subseteq Detail /\ IsFiniteSet(Corpus.translations)
         /\ Corpus.synonyms \subseteq Detail /\ IsFiniteSet(Corpus.synonyms)
         /\ Corpus.relations \subseteq Relation /\ IsFiniteSet(Corpus.relations)
<1>1. /\ \A k : IsFiniteSet(Kind(k))
      /\ Kind("relation") \subseteq Relation
      /\ Kind("translation") \subseteq Detail /\ Kind("synonym") \subseteq Detail
  BY KindTyped
<1>2. Corpus.terms \subseteq Term
  <2>1. \A j \in rows : j.kind # "sense" => j.row.target \in Term
    <3>1. rows \subseteq Item
      BY EditionsAssumption DEF RowsKnown
    <3>2. QED
      BY <3>1 DEF Item, Relation, Detail
  <2>2. \A r \in Kind("relation") : r.source \in Term
    BY <1>1 DEF Relation
  <2>3. QED
    BY <2>1, <2>2, EditionsAssumption, CorpusFields DEF CorpusTerms
<1>3. Corpus.entries \subseteq Entry /\ Corpus.senses \subseteq Sense
  BY CorpusFields
<1>4. IsFiniteSet(Corpus.terms) /\ IsFiniteSet(Corpus.entries) /\ IsFiniteSet(Corpus.senses)
  BY <1>2, <1>3, EditionsAssumption, FS_Subset
<1>5. QED
  BY <1>1, <1>2, <1>3, <1>4, CorpusFields

(* What the rows of a corpus name is in it. *)
LEMMA CorpusClosed ==
  /\ \A r \in Corpus.relations : r.source \in Corpus.terms /\ r.target \in Corpus.terms
  /\ \A r \in Corpus.translations \cup Corpus.synonyms : r.target \in Corpus.terms
  /\ \A e \in Corpus.entries : e \in Entry /\ HeadOf[e] \in Corpus.terms
  /\ \A e \in Entry : HeadOf[e] \in Corpus.terms => e \in Corpus.entries
  /\ \A s \in Corpus.senses : s \in Sense /\ EntryOf[s] \in Corpus.entries
<1>1. ASSUME NEW k \in {"relation", "translation", "synonym"}, NEW r \in Kind(k)
      PROVE  r.target \in CorpusTerms
  BY DEF Kind, CorpusTerms
<1>2. \A r \in Kind("relation") : r.source \in CorpusTerms
  BY DEF CorpusTerms
<1>3. QED
  BY <1>1, <1>2, CorpusFields

Attached == \A r \in Corpus.translations \cup Corpus.synonyms : r.sense \in Corpus.senses

(* A row more keeps what was there. *)
LEMMA CorpusGrows ==
  ASSUME NEW i, rows' = rows \cup {i}
  PROVE  /\ Corpus.terms \subseteq Corpus.terms' /\ Corpus.senses \subseteq Corpus.senses'
         /\ \A k : Kind(k)' = Kind(k) \cup (IF i.kind = k THEN {i.row} ELSE {})
<1>1. \A k : Kind(k)' = Kind(k) \cup (IF i.kind = k THEN {i.row} ELSE {})
  BY DEF Kind
<1>2. CorpusTerms \subseteq CorpusTerms'
  BY <1>1 DEF CorpusTerms
<1>3. Corpus.terms' = CorpusTerms' /\ Corpus.terms = CorpusTerms
  BY DEF Corpus, CorpusTerms
<1>4. Corpus.entries \subseteq Corpus.entries'
  BY <1>2 DEF Corpus, CorpusTerms
<1>5. Corpus.senses' = {s \in Sense : EntryOf[s] \in Corpus.entries'}
                         \ {h.row : h \in {j \in Imported \ rows' : j.kind = "sense"}}
  BY DEF Corpus
<1>6. Corpus.senses = {s \in Sense : EntryOf[s] \in Corpus.entries}
                         \ {h.row : h \in {j \in Imported \ rows : j.kind = "sense"}}
  BY DEF Corpus
<1>7. QED
  BY <1>1, <1>2, <1>3, <1>4, <1>5, <1>6

(* The tables of a pack, each with what its rows are chosen by.            *)
Holds(p, c, has, langs) ==
  /\ p.terms = Owned(c, langs)
  /\ p.entries = {e \in c.entries : HeadOf[e] \in p.terms}
  /\ p.senses = {s \in c.senses : EntryOf[s] \in p.entries}
  /\ p.translations = {r \in c.translations : r.sense \in p.senses}
  /\ p.synonyms = {r \in c.synonyms : r.sense \in p.senses}
  /\ p.relations = {r \in c.relations : r.source \in p.terms \/ r.target \in p.terms}
  /\ p.stubs = [t \in (Named(p) \ p.terms) \cap DOMAIN has |-> has[t]]
  /\ p = [terms |-> p.terms, entries |-> p.entries, senses |-> p.senses,
          translations |-> p.translations, synonyms |-> p.synonyms,
          relations |-> p.relations, stubs |-> p.stubs]

LEMMA PackHolds ==
  ASSUME NEW c, NEW has, NEW langs
  PROVE  Holds(LexicalPack(c, has, langs), c, has, langs)
<1> SUFFICES ASSUME NEW p, p = LexicalPack(c, has, langs) PROVE Holds(p, c, has, langs)
  OBVIOUS
<1> DEFINE own == Owned(c, langs)
           entries == {e \in c.entries : HeadOf[e] \in own}
           senses == {s \in c.senses : EntryOf[s] \in entries}
           tr == {r \in c.translations : r.sense \in senses}
           sy == {r \in c.synonyms : r.sense \in senses}
           re == Retained(c, own)
           table == [terms |-> own, entries |-> entries, senses |-> senses,
                     translations |-> tr, synonyms |-> sy, relations |-> re, stubs |-> <<>>]
           st == Stubs(table, own, has)
<1>1. p = [table EXCEPT !.stubs = st]
  BY DEF LexicalPack
<1>2. re = {r \in c.relations : r.source \in own \/ r.target \in own}
  BY DEF Retained
<1>3. st = [t \in (Named(table) \ own) \cap DOMAIN has |-> has[t]]
  BY DEF Stubs
<1>4. /\ table.relations = re /\ table.translations = tr /\ table.synonyms = sy
  OBVIOUS
<1> HIDE DEF st, re
<1>5. p = [terms |-> own, entries |-> entries, senses |-> senses,
           translations |-> tr, synonyms |-> sy, relations |-> re, stubs |-> st]
  <2> HIDE DEF own, entries, senses, tr, sy
  <2> QED BY <1>1
<1>6. /\ p.terms = own /\ p.entries = entries /\ p.senses = senses /\ p.translations = tr
      /\ p.synonyms = sy /\ p.relations = re /\ p.stubs = st
  <2> HIDE DEF own, entries, senses, tr, sy
  <2> QED BY <1>5
<1>7. Named(p) = Named(table)
  <2> HIDE DEF own, entries, senses, tr, sy, table
  <2> QED BY <1>4, <1>6 DEF Named
<1>8. p.stubs = [t \in (Named(p) \ p.terms) \cap DOMAIN has |-> has[t]]
  <2> HIDE DEF own, entries, senses, tr, sy, table
  <2> QED BY <1>3, <1>6, <1>7
<1>9. p = [terms |-> p.terms, entries |-> p.entries, senses |-> p.senses,
           translations |-> p.translations, synonyms |-> p.synonyms,
           relations |-> p.relations, stubs |-> p.stubs]
  <2> HIDE DEF own, entries, senses, tr, sy, table
  <2> QED BY <1>5, <1>6
<1>10. QED
  BY <1>2, <1>6, <1>8, <1>9 DEF Holds

CountsTyped ==
  /\ DOMAIN counts \subseteq Corpus.terms
  /\ counts \in [DOMAIN counts -> [entries : Nat, senses : Nat]]

LEMMA PackTyped ==
  ASSUME RowsKnown, CountsTyped, NEW langs
  PROVE  LexicalPack(Corpus, counts, langs) \in PackContent
<1> SUFFICES ASSUME NEW p, p = LexicalPack(Corpus, counts, langs) PROVE p \in PackContent
  OBVIOUS
<1>0. Holds(p, Corpus, counts, langs)
  BY PackHolds
<1>1. /\ p.terms = Owned(Corpus, langs)
      /\ p.entries = {e \in Corpus.entries : HeadOf[e] \in p.terms}
      /\ p.senses = {s \in Corpus.senses : EntryOf[s] \in p.entries}
      /\ p.translations = {r \in Corpus.translations : r.sense \in p.senses}
      /\ p.synonyms = {r \in Corpus.synonyms : r.sense \in p.senses}
      /\ p.relations = {r \in Corpus.relations : r.source \in p.terms \/ r.target \in p.terms}
      /\ p.stubs = [t \in (Named(p) \ p.terms) \cap DOMAIN counts |-> counts[t]]
      /\ p = [terms |-> p.terms, entries |-> p.entries, senses |-> p.senses,
              translations |-> p.translations, synonyms |-> p.synonyms,
              relations |-> p.relations, stubs |-> p.stubs]
  BY <1>0 DEF Holds
<1>2. /\ p.terms \in SUBSET Term /\ p.entries \in SUBSET Entry /\ p.senses \in SUBSET Sense
      /\ p.translations \in SUBSET Detail /\ p.synonyms \in SUBSET Detail
      /\ p.relations \in SUBSET Relation
  <2>1. Owned(Corpus, langs) \subseteq Corpus.terms
    BY DEF Owned
  <2>2. QED
    BY <1>1, <2>1, CorpusTyped
<1>3. p.stubs \in UNION {[T -> [entries : Nat, senses : Nat]] : T \in SUBSET Term}
  <2> DEFINE D == (Named(p) \ p.terms) \cap DOMAIN counts
  <2>1. D \in SUBSET Term /\ \A t \in D : counts[t] \in [entries : Nat, senses : Nat]
    BY CorpusTyped DEF CountsTyped
  <2>2. p.stubs = [t \in D |-> counts[t]]
    BY <1>1
  <2> HIDE DEF D
  <2>3. p.stubs \in [D -> [entries : Nat, senses : Nat]]
    BY <2>1, <2>2
  <2>4. QED
    BY <2>1, <2>3
<1>4. QED
  <2> DEFINE te == p.terms
             en == p.entries
             se == p.senses
             tr == p.translations
             sy == p.synonyms
             re == p.relations
             st == p.stubs
  <2>1. p = [terms |-> te, entries |-> en, senses |-> se, translations |-> tr, synonyms |-> sy,
             relations |-> re, stubs |-> st]
    BY <1>1
  <2>2. /\ te \in SUBSET Term /\ en \in SUBSET Entry /\ se \in SUBSET Sense
        /\ tr \in SUBSET Detail /\ sy \in SUBSET Detail /\ re \in SUBSET Relation
        /\ st \in UNION {[T -> [entries : Nat, senses : Nat]] : T \in SUBSET Term}
    BY <1>2, <1>3
  <2> HIDE DEF te, en, se, tr, sy, re, st
  <2>3. p \in PackContent
    BY <2>1, <2>2 DEF PackContent
  <2>4. QED
    BY <2>3

(* The plan in force deals out the languages that have sizes. *)
SizesTyped ==
  /\ DOMAIN sizes \subseteq Lang /\ IsFiniteSet(DOMAIN sizes)
  /\ sizes \in [DOMAIN sizes -> Nat]

LEMMA PlannedSound ==
  ASSUME SizesTyped
  PROVE  /\ Planned \in Seq(PlannedPack) /\ Apart(Planned) /\ Covered(Planned) = DOMAIN sizes
         /\ \A i \in DOMAIN Planned : /\ Planned[i] \in PlannedPack
                                      /\ RowsOf(Planned[i].languages) \subseteq Lang
<1> DEFINE L == DOMAIN sizes
<1>1. L \in SUBSET Lang /\ IsFiniteSet(L) /\ sizes \in [L -> Nat]
  BY DEF SizesTyped
<1> HIDE DEF L
<1>2. Apart(Planned) /\ Covered(Planned) = L
  BY <1>1, PlanDealsLanguages, PlanAssumption DEF Planned
<1>3. Planned \in Seq(PlannedPack)
  BY <1>2 DEF Apart
<1>4. \A i \in DOMAIN Planned : Planned[i] \in PlannedPack
  BY <1>3
<1>5. \A i \in DOMAIN Planned : RowsOf(Planned[i].languages) \subseteq Lang
  <2> SUFFICES ASSUME NEW i \in DOMAIN Planned PROVE RowsOf(Planned[i].languages) \subseteq Lang
    OBVIOUS
  <2>1. Planned[i].languages \in Seq(Lang)
    BY <1>4 DEF PlannedPack
  <2>2. QED
    BY <2>1 DEF RowsOf
<1>6. QED
  BY <1>2, <1>3, <1>4, <1>5 DEF L

(* Until there are packs there is no other part of a release, and nobody   *)
(* to ask; then all parts are of the corpus as it is.                      *)
BuiltFromCorpus ==
  /\ counts # NotYet
  /\ packs = [i \in DOMAIN Planned |-> [plan |-> Planned[i], content |-> PackOf(Planned[i])]]
  /\ \A i \in DOMAIN Planned : Closed(PackOf(Planned[i]))
  /\ core = Catalogue(Corpus, counts)
  /\ semantic = [l \in DOMAIN Mapping.shards |-> SemanticPack(Mapping, l)]
  /\ \A l \in DOMAIN Mapping.shards : SemanticSound(Mapping, l)

BuiltOnce ==
  IF packs = NotYet THEN core = NotYet /\ semantic = NotYet /\ view = <<>> ELSE BuiltFromCorpus

CountsKnown == counts # NotYet => CountsTyped /\ SizesTyped

Installed(S) ==
  [l \in UNION {Serving(i) : i \in S} |-> packs[CHOOSE i \in S : l \in Serving(i)].content]

Served == view = <<>> \/ \E S \in SUBSET (DOMAIN packs) : view = Installed(S)

Replied ==
  asked = NotYet \/
    /\ view # <<>>
    /\ \E q \in Queries, limits \in Limits :
         /\ q.term \in Corpus.terms
         /\ asked = [q |-> q, limits |-> limits, answer |-> Answer(view, q, limits, TRUE)]

PackedInv ==
  /\ RowsKnown /\ late \in 0 .. MaxLate /\ Attached
  /\ CountsKnown /\ BuiltOnce /\ Served /\ Replied

LEMMA CorpusKept ==
  ASSUME rows' = rows
  PROVE  /\ Corpus' = Corpus /\ \A k : Kind(k)' = Kind(k)
         /\ (RowsKnown => RowsKnown') /\ (Attached => Attached')
BY DEF Corpus, Kind, RowsKnown, Attached

LEMMA WorkKept ==
  ASSUME rows' = rows, counts' = counts, sizes' = sizes, CountsKnown
  PROVE  CountsKnown' /\ Planned' = Planned /\ \A p : PackOf(p)' = PackOf(p)
<1>1. Corpus' = Corpus
  BY CorpusKept
<1>2. QED
  BY <1>1 DEF CountsKnown, CountsTyped, SizesTyped, Planned, PackOf

LEMMA ReleaseKept ==
  ASSUME rows' = rows, counts' = counts, sizes' = sizes, CountsKnown,
         packs' = packs, core' = core, semantic' = semantic, BuiltFromCorpus
  PROVE  BuiltFromCorpus'
<1>1. Corpus' = Corpus /\ Planned' = Planned /\ \A p : PackOf(p)' = PackOf(p)
  BY CorpusKept, WorkKept
<1>2. QED
  BY <1>1 DEF BuiltFromCorpus

LEMMA PackedInitInv == PackedInit => PackedInv
<1> SUFFICES ASSUME PackedInit PROVE PackedInv
  OBVIOUS
<1>1. rows = {} /\ counts = NotYet /\ late = 0 /\ packs = NotYet /\ core = NotYet
      /\ semantic = NotYet /\ view = <<>> /\ asked = NotYet
  BY DEF PackedInit
<1>2. RowsKnown /\ late \in 0 .. MaxLate
  BY <1>1, EditionsAssumption, FS_EmptySet DEF RowsKnown
<1>3. Attached
  <2>1. Kind("translation") = {} /\ Kind("synonym") = {}
    BY <1>1 DEF Kind
  <2>2. QED
    BY <2>1, CorpusFields DEF Attached
<1>4. QED
  BY <1>1, <1>2, <1>3 DEF PackedInv, CountsKnown, BuiltOnce, Served, Replied

LEMMA ImportKeeps ==
  ASSUME PackedInv, NEW i \in Imported, Import(i)
  PROVE  PackedInv'
<1>1. /\ packs = NotYet /\ i \notin rows /\ Cardinality(rows) < MaxRows
      /\ (i.kind \in {"translation", "synonym"} => i.row.sense \in Corpus.senses)
      /\ late' = (IF counts = NotYet THEN 0 ELSE late + 1) /\ late' <= MaxLate
      /\ rows' = rows \cup {i}
      /\ counts' = counts /\ sizes' = sizes /\ packs' = packs /\ core' = core
      /\ semantic' = semantic /\ view' = view /\ asked' = asked
  BY DEF Import, work, built
<1>2. RowsKnown /\ Attached /\ CountsKnown /\ BuiltOnce /\ Replied /\ late \in 0 .. MaxLate
  BY DEF PackedInv
<1>3. RowsKnown' /\ late' \in 0 .. MaxLate
  <2>1. IsFiniteSet(rows \cup {i}) /\ Cardinality(rows \cup {i}) = Cardinality(rows) + 1
    BY <1>1, <1>2, FS_AddElement DEF RowsKnown
  <2>2. Cardinality(rows) \in Nat
    BY <1>2, FS_CardinalityType DEF RowsKnown
  <2>3. QED
    BY <1>1, <1>2, <2>1, <2>2, EditionsAssumption DEF RowsKnown
<1>4. /\ Corpus.terms \subseteq Corpus.terms' /\ Corpus.senses \subseteq Corpus.senses'
      /\ \A k : Kind(k)' = Kind(k) \cup (IF i.kind = k THEN {i.row} ELSE {})
  BY <1>1, CorpusGrows
<1>5. Attached'
  <2>1. /\ Corpus.translations' = Kind("translation")' /\ Corpus.synonyms' = Kind("synonym")'
        /\ Corpus.translations = Kind("translation") /\ Corpus.synonyms = Kind("synonym")
    BY DEF Corpus
  <2>2. \A r \in Corpus.translations' \cup Corpus.synonyms' : r.sense \in Corpus.senses'
    BY <1>1, <1>2, <1>4, <2>1 DEF Attached
  <2>3. QED
    BY <2>2 DEF Attached
<1>6. CountsKnown'
  BY <1>1, <1>2, <1>4 DEF CountsKnown, CountsTyped, SizesTyped
<1>7. view = <<>> /\ asked = NotYet
  BY <1>1, <1>2 DEF BuiltOnce, Replied
<1>8. BuiltOnce' /\ Served' /\ Replied'
  BY <1>1, <1>2, <1>7 DEF BuiltOnce, Served, Replied
<1>9. QED
  BY <1>3, <1>5, <1>6, <1>8 DEF PackedInv

LEMMA CountKeeps ==
  ASSUME PackedInv, Count
  PROVE  PackedInv'
<1>1. /\ counts = NotYet /\ counts' = TermCounts(Corpus) /\ sizes' = LanguageSizes(Corpus)
      /\ rows' = rows /\ late' = late /\ packs' = packs /\ core' = core
      /\ semantic' = semantic /\ view' = view /\ asked' = asked
  BY DEF Count, built
<1>2. RowsKnown /\ Attached /\ BuiltOnce /\ Replied /\ late \in 0 .. MaxLate
  BY DEF PackedInv
<1>3. Corpus' = Corpus /\ RowsKnown' /\ Attached'
  BY <1>1, <1>2, CorpusKept
<1>4. packs = NotYet /\ view = <<>> /\ asked = NotYet
  BY <1>1, <1>2 DEF BuiltOnce, BuiltFromCorpus, Replied
<1>5. CountsTyped'
  <2>1. \A t \in Corpus.terms : CountIn(Corpus, t) \in [entries : Nat, senses : Nat]
    <3> SUFFICES ASSUME NEW t \in Corpus.terms
                 PROVE  Cardinality(EntriesOf(Corpus, t)) \in Nat /\ Cardinality(SensesOf(Corpus, t)) \in Nat
      BY DEF CountIn
    <3>1. EntriesOf(Corpus, t) \in SUBSET Corpus.entries /\ SensesOf(Corpus, t) \in SUBSET Corpus.senses
      BY DEF EntriesOf, SensesOf
    <3>2. QED
      BY <1>2, <3>1, CorpusTyped, FS_Subset, FS_CardinalityType
  <2>2. DOMAIN TermCounts(Corpus) = Corpus.terms
        /\ TermCounts(Corpus) \in [Corpus.terms -> [entries : Nat, senses : Nat]]
    BY <2>1 DEF TermCounts
  <2>3. QED
    BY <1>1, <1>3, <2>2 DEF CountsTyped
<1>6. SizesTyped'
  <2> DEFINE L == {LanguageOf[t] : t \in Corpus.terms}
             f == [t \in Corpus.terms |-> LanguageOf[t]]
  <2>1. Corpus.terms \subseteq Term /\ IsFiniteSet(Corpus.terms)
    BY <1>2, CorpusTyped
  <2>2. IsFiniteSet(L)
    <3>1. L = {f[t] : t \in Corpus.terms} /\ DOMAIN f = Corpus.terms
      OBVIOUS
    <3> HIDE DEF L, f
    <3>2. QED
      BY <2>1, <3>1, ImageCounted
  <2>3. L \subseteq Lang
    BY <2>1, ContentsAssumption
  <2>4. \A l \in L : Cardinality({t \in Corpus.terms : LanguageOf[t] = l}) \in Nat
    <3> SUFFICES ASSUME NEW l \in L PROVE Cardinality({t \in Corpus.terms : LanguageOf[t] = l}) \in Nat
      OBVIOUS
    <3>1. {t \in Corpus.terms : LanguageOf[t] = l} \in SUBSET Corpus.terms
      OBVIOUS
    <3>2. QED
      BY <2>1, <3>1, FS_Subset, FS_CardinalityType
  <2>5. LanguageSizes(Corpus) \in [L -> Nat] /\ DOMAIN LanguageSizes(Corpus) = L
    BY <2>4 DEF LanguageSizes
  <2> HIDE DEF L
  <2>6. QED
    BY <1>1, <2>2, <2>3, <2>5 DEF SizesTyped
<1>7. QED
  BY <1>1, <1>2, <1>3, <1>4, <1>5, <1>6 DEF PackedInv, CountsKnown, BuiltOnce, Served, Replied

LEMMA BuildKeeps ==
  ASSUME PackedInv, BuildPacks
  PROVE  PackedInv'
<1>1. /\ counts # NotYet /\ packs = NotYet
      /\ \A l \in DOMAIN Mapping.shards : SemanticSound(Mapping, l)
      /\ \A i \in DOMAIN Planned : Closed(PackOf(Planned[i]))
      /\ packs' = [i \in DOMAIN Planned |-> [plan |-> Planned[i], content |-> PackOf(Planned[i])]]
      /\ core' = Catalogue(Corpus, counts)
      /\ semantic' = [l \in DOMAIN Mapping.shards |-> SemanticPack(Mapping, l)]
      /\ rows' = rows /\ counts' = counts /\ sizes' = sizes /\ late' = late
      /\ view' = view /\ asked' = asked
  BY DEF BuildPacks, work
<1>2. RowsKnown /\ Attached /\ CountsKnown /\ BuiltOnce /\ Replied /\ late \in 0 .. MaxLate
  BY DEF PackedInv
<1>3. Corpus' = Corpus /\ RowsKnown' /\ Attached'
  BY <1>1, <1>2, CorpusKept
<1>4. CountsKnown' /\ Planned' = Planned /\ \A p : PackOf(p)' = PackOf(p)
  BY <1>1, <1>2, WorkKept
<1>5. packs' # NotYet
  <2>1. CountsTyped /\ SizesTyped
    BY <1>1, <1>2 DEF CountsKnown
  <2>2. Planned \in Seq(PlannedPack) /\ \A i \in DOMAIN Planned : Planned[i] \in PlannedPack
    BY <2>1, PlannedSound
  <2>3. \A i \in DOMAIN Planned : PackOf(Planned[i]) \in PackContent
    BY <1>2, <2>1, PackTyped DEF PackOf
  <2> DEFINE made == [i \in DOMAIN Planned |-> [plan |-> Planned[i], content |-> PackOf(Planned[i])]]
             Made == [plan : PlannedPack, content : PackContent]
  <2>4. Len(Planned) \in Nat /\ DOMAIN Planned = 1 .. Len(Planned)
    BY <2>2
  <2>5. \A i \in DOMAIN Planned : made[i] \in Made
    BY <2>2, <2>3
  <2>6. made \in Seq(Made)
    <3>1. made = [i \in DOMAIN Planned |-> made[i]]
      OBVIOUS
    <3> HIDE DEF made, Made
    <3>2. QED
      BY <2>4, <2>5, <3>1
  <2>7. QED
    BY <1>1, <2>6, NotYetAssumption
<1>6. BuiltFromCorpus'
  BY <1>1, <1>3, <1>4 DEF BuiltFromCorpus
<1>7. view = <<>> /\ asked = NotYet
  BY <1>1, <1>2 DEF BuiltOnce, Replied
<1>8. QED
  BY <1>1, <1>2, <1>3, <1>4, <1>5, <1>6, <1>7 DEF PackedInv, BuiltOnce, Served, Replied

(* The release and the corpus stay when somebody installs or asks.         *)
LEMMA QuietKeeps ==
  ASSUME PackedInv, rows' = rows, counts' = counts, sizes' = sizes, late' = late,
         packs' = packs, core' = core, semantic' = semantic
  PROVE  /\ RowsKnown' /\ late' \in 0 .. MaxLate /\ Attached' /\ CountsKnown'
         /\ packs # NotYet => BuiltFromCorpus'
         /\ packs = NotYet => core' = NotYet /\ semantic' = NotYet /\ view = <<>>
         /\ \A i : Serving(i)' = Serving(i)
         /\ \A S : Installed(S)' = Installed(S)
<1>1. /\ RowsKnown /\ late \in 0 .. MaxLate /\ Attached /\ CountsKnown /\ BuiltOnce
  BY DEF PackedInv
<1>2. RowsKnown' /\ Attached' /\ CountsKnown'
  BY <1>1, CorpusKept, WorkKept
<1>3. packs # NotYet => BuiltFromCorpus'
  BY <1>1, ReleaseKept DEF BuiltOnce
<1>4. \A i : Serving(i)' = Serving(i)
  BY DEF Serving
<1>5. \A S : Installed(S)' = Installed(S)
  BY DEF Installed, Serving
<1>6. QED
  BY <1>1, <1>2, <1>3, <1>4, <1>5 DEF BuiltOnce

LEMMA InstallKeeps ==
  ASSUME PackedInv, NEW S \in SUBSET (DOMAIN packs), Install(S)
  PROVE  PackedInv'
<1>1. /\ packs # NotYet /\ view = <<>> /\ view' = Installed(S)
      /\ rows' = rows /\ counts' = counts /\ sizes' = sizes /\ late' = late
      /\ packs' = packs /\ core' = core /\ semantic' = semantic /\ asked' = asked
  BY DEF Install, work, built, Installed
<1>2. /\ RowsKnown' /\ late' \in 0 .. MaxLate /\ Attached' /\ CountsKnown' /\ BuiltFromCorpus'
      /\ Installed(S)' = Installed(S)
  BY <1>1, QuietKeeps
<1>3. Served'
  BY <1>1, <1>2 DEF Served
<1>4. Replied'
  BY <1>1 DEF PackedInv, Replied
<1>5. QED
  BY <1>1, <1>2, <1>3, <1>4 DEF PackedInv, BuiltOnce

LEMMA AskKeeps ==
  ASSUME PackedInv,
         \/ \E q \in Queries, limits \in Limits : Ask(q, limits)
         \/ Forget
         \/ UNCHANGED packedVars
  PROVE  PackedInv'
<1>1. /\ rows' = rows /\ counts' = counts /\ sizes' = sizes /\ late' = late
      /\ packs' = packs /\ core' = core /\ semantic' = semantic /\ view' = view
  BY DEF Ask, Forget, packedVars, work, built
<1>2. /\ RowsKnown' /\ late' \in 0 .. MaxLate /\ Attached' /\ CountsKnown'
      /\ packs # NotYet => BuiltFromCorpus'
      /\ packs = NotYet => core' = NotYet /\ semantic' = NotYet /\ view = <<>>
      /\ \A S : Installed(S)' = Installed(S)
  BY <1>1, QuietKeeps
<1>3. BuiltOnce'
  BY <1>1, <1>2 DEF BuiltOnce
<1>4. Served'
  BY <1>1, <1>2 DEF PackedInv, Served
<1>5. Replied'
  <2>1. Corpus' = Corpus
    BY <1>1, CorpusKept
  <2>2. \A q, limits : Answer(view, q, limits, TRUE)' = Answer(view, q, limits, TRUE)
    BY <1>1
  <2>3. ASSUME NEW q \in Queries, NEW limits \in Limits, Ask(q, limits) PROVE Replied'
    <3>1. /\ view # <<>> /\ q.term \in Corpus.terms
          /\ asked' = [q |-> q, limits |-> limits, answer |-> Answer(view, q, limits, TRUE)]
      BY <2>3 DEF Ask
    <3>2. QED
      BY <1>1, <2>1, <3>1 DEF Replied
  <2>4. CASE Forget
    BY <2>4 DEF Forget, Replied
  <2>5. CASE UNCHANGED packedVars
    <3>1. asked' = asked
      BY <2>5 DEF packedVars
    <3>2. QED
      BY <1>1, <2>1, <3>1 DEF Replied, PackedInv
  <2>6. QED
    BY <2>3, <2>4, <2>5
<1>6. QED
  BY <1>2, <1>3, <1>4, <1>5 DEF PackedInv

LEMMA PackedNextKeeps == PackedInv /\ [PackedNext]_packedVars => PackedInv'
BY ImportKeeps, CountKeeps, BuildKeeps, InstallKeeps, AskKeeps DEF PackedNext

(* The packs, the catalogue and the vectors are those of the corpus that   *)
(* was counted and planned (scripts/build_v2_release.py), what is installed*)
(* are some of the packs, and what was asked is what they answered.        *)
THEOREM PackedKept == PackedSpec => []PackedInv
<1>1. PackedInit => PackedInv
  BY PackedInitInv
<1>2. PackedInv /\ [PackedNext]_packedVars => PackedInv'
  BY PackedNextKeeps
<1>3. QED
  BY <1>1, <1>2, PTL DEF PackedSpec

(* A built pack: its plan, its tables and that they are closed.            *)
LEMMA BuiltPack ==
  ASSUME PackedInv, packs # NotYet
  PROVE  /\ DOMAIN packs = DOMAIN Planned /\ CountsTyped /\ SizesTyped
         /\ \A i \in DOMAIN packs :
              /\ packs[i].plan = Planned[i] /\ Serving(i) = RowsOf(Planned[i].languages)
              /\ packs[i].content = LexicalPack(Corpus, counts, Serving(i))
              /\ Closed(packs[i].content)
<1>1. BuiltFromCorpus /\ CountsKnown
  BY DEF PackedInv, BuiltOnce
<1>2. /\ CountsTyped /\ SizesTyped
      /\ packs = [i \in DOMAIN Planned |-> [plan |-> Planned[i], content |-> PackOf(Planned[i])]]
      /\ \A i \in DOMAIN Planned : Closed(PackOf(Planned[i]))
  BY <1>1 DEF BuiltFromCorpus, CountsKnown
<1>3. DOMAIN packs = DOMAIN Planned
  BY <1>2
<1>4. \A i \in DOMAIN packs : packs[i].plan = Planned[i] /\ packs[i].content = PackOf(Planned[i])
  BY <1>2
<1>5. \A i \in DOMAIN packs : Serving(i) = RowsOf(Planned[i].languages)
  BY <1>4 DEF Serving
<1>6. \A i \in DOMAIN packs : packs[i].content = LexicalPack(Corpus, counts, Serving(i))
  BY <1>4, <1>5 DEF PackOf
<1>7. QED
  BY <1>2, <1>3, <1>4, <1>5, <1>6

LEMMA PacksTyped == PackedInv => PackedTypeOK
<1> SUFFICES ASSUME PackedInv PROVE PackedTypeOK
  OBVIOUS
<1>1. RowsKnown /\ rows \subseteq Imported /\ late \in 0 .. MaxLate
  BY DEF PackedInv, RowsKnown
<1>2. ASSUME packs # NotYet, NEW i \in DOMAIN packs
      PROVE  /\ packs[i].plan.languages \in Seq(Lang) \ {<<>>} /\ packs[i].content.terms \subseteq Term
             /\ Serving(i) \subseteq Lang
  <2>1. /\ i \in DOMAIN Planned /\ SizesTyped /\ packs[i].plan = Planned[i]
        /\ Serving(i) = RowsOf(Planned[i].languages)
        /\ packs[i].content = LexicalPack(Corpus, counts, Serving(i))
    BY <1>2, BuiltPack
  <2>2. Planned[i] \in PlannedPack /\ RowsOf(Planned[i].languages) \subseteq Lang
    BY <2>1, PlannedSound
  <2>3. Holds(packs[i].content, Corpus, counts, Serving(i))
    BY <2>1, PackHolds
  <2>4. packs[i].content.terms \subseteq Corpus.terms
    BY <2>3 DEF Holds, Owned
  <2>5. QED
    BY <1>1, <2>1, <2>2, <2>4, CorpusTyped DEF PlannedPack
<1>3. DOMAIN view \subseteq Lang
  <2>1. CASE view = <<>>
    BY <2>1
  <2>2. CASE view # <<>>
    <3>1. packs # NotYet
      BY <2>2 DEF PackedInv, BuiltOnce
    <3>2. PICK S \in SUBSET (DOMAIN packs) : view = Installed(S)
      BY <2>2 DEF PackedInv, Served
    <3>3. DOMAIN view = UNION {Serving(i) : i \in S}
      BY <3>2 DEF Installed
    <3>4. QED
      BY <1>2, <3>1, <3>3
  <2>3. QED
    BY <2>1, <2>2
<1>4. QED
  BY <1>1, <1>2, <1>3 DEF PackedTypeOK

(* Where a language of the corpus is planned, some pack has each row.      *)
LEMMA RowsPlaced ==
  ASSUME PackedInv, packs # NotYet, sizes = LanguageSizes(Corpus)
  PROVE  \A t \in Corpus.terms : \E i \in DOMAIN packs : t \in packs[i].content.terms
<1> SUFFICES ASSUME NEW t \in Corpus.terms PROVE \E i \in DOMAIN packs : t \in packs[i].content.terms
  OBVIOUS
<1>1. DOMAIN packs = DOMAIN Planned /\ SizesTyped
  BY BuiltPack
<1>2. LanguageOf[t] \in Covered(Planned)
  <2>1. LanguageOf[t] \in DOMAIN sizes
    BY DEF LanguageSizes
  <2>2. QED
    BY <1>1, <2>1, PlannedSound
<1>3. PICK i \in DOMAIN Planned : LanguageOf[t] \in RowsOf(Planned[i].languages)
  BY <1>2 DEF Covered
<1>4. LanguageOf[t] \in Serving(i) /\ packs[i].content = LexicalPack(Corpus, counts, Serving(i))
  BY <1>1, <1>3, BuiltPack
<1>5. Holds(packs[i].content, Corpus, counts, Serving(i))
  BY <1>4, PackHolds
<1>6. t \in packs[i].content.terms
  BY <1>4, <1>5 DEF Holds, Owned
<1>7. QED
  BY <1>1, <1>6

LEMMA NoRowsAdded ==
  ASSUME PackedInv, packs # NotYet, NEW i \in DOMAIN packs
  PROVE  LET p == packs[i].content IN
         /\ p.terms \subseteq Corpus.terms
         /\ \A e \in Corpus.entries : HeadOf[e] \in p.terms <=> e \in p.entries
         /\ \A s \in Corpus.senses : EntryOf[s] \in p.entries <=> s \in p.senses
         /\ \A r \in Corpus.translations : r.sense \in p.senses <=> r \in p.translations
         /\ \A r \in Corpus.synonyms : r.sense \in p.senses <=> r \in p.synonyms
         /\ \A r \in Corpus.relations : r.source \in p.terms \/ r.target \in p.terms <=> r \in p.relations
         /\ p.entries \subseteq Corpus.entries /\ p.senses \subseteq Corpus.senses
         /\ p.translations \subseteq Corpus.translations /\ p.synonyms \subseteq Corpus.synonyms
         /\ p.relations \subseteq Corpus.relations
<1> SUFFICES ASSUME NEW p, p = packs[i].content
             PROVE  /\ p.terms \subseteq Corpus.terms
                    /\ \A e \in Corpus.entries : HeadOf[e] \in p.terms <=> e \in p.entries
                    /\ \A s \in Corpus.senses : EntryOf[s] \in p.entries <=> s \in p.senses
                    /\ \A r \in Corpus.translations : r.sense \in p.senses <=> r \in p.translations
                    /\ \A r \in Corpus.synonyms : r.sense \in p.senses <=> r \in p.synonyms
                    /\ \A r \in Corpus.relations :
                         r.source \in p.terms \/ r.target \in p.terms <=> r \in p.relations
                    /\ p.entries \subseteq Corpus.entries /\ p.senses \subseteq Corpus.senses
                    /\ p.translations \subseteq Corpus.translations
                    /\ p.synonyms \subseteq Corpus.synonyms
                    /\ p.relations \subseteq Corpus.relations
  OBVIOUS
<1>1. p = LexicalPack(Corpus, counts, Serving(i))
  BY BuiltPack
<1>2. Holds(p, Corpus, counts, Serving(i))
  BY <1>1, PackHolds
<1>3. QED
  BY <1>2 DEF Holds, Owned

LEMMA WholePacks == PackedInv => PacksWhole
<1> SUFFICES ASSUME PackedInv, packs # NotYet
             PROVE  /\ \A i, j \in DOMAIN packs :
                         packs[i].plan.id = packs[j].plan.id \/ Serving(i) \cap Serving(j) # {} => i = j
                    /\ sizes = LanguageSizes(Corpus) =>
                         \A k \in {"terms", "entries", "senses", "translations", "synonyms", "relations"} :
                           UNION {packs[i].content[k] : i \in DOMAIN packs} = Corpus[k]
  BY DEF PacksWhole
<1>1. ASSUME NEW i \in DOMAIN packs, NEW j \in DOMAIN packs,
             packs[i].plan.id = packs[j].plan.id \/ Serving(i) \cap Serving(j) # {}
      PROVE  i = j
  <2>1. /\ i \in DOMAIN Planned /\ j \in DOMAIN Planned /\ SizesTyped
        /\ packs[i].plan = Planned[i] /\ packs[j].plan = Planned[j]
        /\ Serving(i) = RowsOf(Planned[i].languages) /\ Serving(j) = RowsOf(Planned[j].languages)
    BY BuiltPack
  <2>2. Apart(Planned)
    BY <2>1, PlannedSound
  <2>3. QED
    BY <1>1, <2>1, <2>2 DEF Apart
<1>2. ASSUME sizes = LanguageSizes(Corpus)
      PROVE  /\ UNION {packs[i].content.terms : i \in DOMAIN packs} = Corpus.terms
             /\ UNION {packs[i].content.entries : i \in DOMAIN packs} = Corpus.entries
             /\ UNION {packs[i].content.senses : i \in DOMAIN packs} = Corpus.senses
             /\ UNION {packs[i].content.translations : i \in DOMAIN packs} = Corpus.translations
             /\ UNION {packs[i].content.synonyms : i \in DOMAIN packs} = Corpus.synonyms
             /\ UNION {packs[i].content.relations : i \in DOMAIN packs} = Corpus.relations
  <2>1. \A t \in Corpus.terms : \E i \in DOMAIN packs : t \in packs[i].content.terms
    BY <1>2, RowsPlaced
  <2>2. \A e \in Corpus.entries : \E i \in DOMAIN packs : e \in packs[i].content.entries
    BY <2>1, CorpusClosed, NoRowsAdded
  <2>3. \A s \in Corpus.senses : \E i \in DOMAIN packs : s \in packs[i].content.senses
    BY <2>2, CorpusClosed, NoRowsAdded
  <2>4. \A r \in Corpus.translations \cup Corpus.synonyms : r.sense \in Corpus.senses
    BY DEF PackedInv, Attached
  <2>5. /\ \A r \in Corpus.translations : \E i \in DOMAIN packs : r \in packs[i].content.translations
        /\ \A r \in Corpus.synonyms : \E i \in DOMAIN packs : r \in packs[i].content.synonyms
    BY <2>3, <2>4, NoRowsAdded
  <2>6. \A r \in Corpus.relations : \E i \in DOMAIN packs : r \in packs[i].content.relations
    BY <2>1, CorpusClosed, NoRowsAdded
  <2>7. \A i \in DOMAIN packs :
          /\ packs[i].content.terms \subseteq Corpus.terms
          /\ packs[i].content.entries \subseteq Corpus.entries
          /\ packs[i].content.senses \subseteq Corpus.senses
          /\ packs[i].content.translations \subseteq Corpus.translations
          /\ packs[i].content.synonyms \subseteq Corpus.synonyms
          /\ packs[i].content.relations \subseteq Corpus.relations
    BY NoRowsAdded
  <2>8. UNION {packs[i].content.terms : i \in DOMAIN packs} = Corpus.terms
    BY <2>1, <2>7
  <2>9. UNION {packs[i].content.entries : i \in DOMAIN packs} = Corpus.entries
    BY <2>2, <2>7
  <2>10. UNION {packs[i].content.senses : i \in DOMAIN packs} = Corpus.senses
    BY <2>3, <2>7
  <2>11. UNION {packs[i].content.translations : i \in DOMAIN packs} = Corpus.translations
    BY <2>5, <2>7
  <2>12. UNION {packs[i].content.synonyms : i \in DOMAIN packs} = Corpus.synonyms
    BY <2>5, <2>7
  <2>13. UNION {packs[i].content.relations : i \in DOMAIN packs} = Corpus.relations
    BY <2>6, <2>7
  <2>14. QED
    BY <2>8, <2>9, <2>10, <2>11, <2>12, <2>13
<1>3. QED
  BY <1>1, <1>2

LEMMA ClosedPacks == PackedInv => PacksClosed
<1> SUFFICES ASSUME PackedInv, packs # NotYet, NEW i \in DOMAIN packs, NEW p, p = packs[i].content
             PROVE  /\ \A r \in p.relations : {r.source, r.target} \subseteq p.terms \cup DOMAIN p.stubs
                    /\ \A r \in p.translations : r.target \in p.terms \cup DOMAIN p.stubs
                    /\ \A r \in p.synonyms : r.target \in p.terms
                    /\ \A t \in DOMAIN p.stubs : LanguageOf[t] \notin Serving(i)
  BY DEF PacksClosed
<1>1. Closed(p) /\ CountsTyped /\ p = LexicalPack(Corpus, counts, Serving(i))
  BY BuiltPack
<1>2. Holds(p, Corpus, counts, Serving(i))
  BY <1>1, PackHolds
<1>3. \A t \in DOMAIN p.stubs : LanguageOf[t] \notin Serving(i)
  <2>1. DOMAIN p.stubs = (Named(p) \ p.terms) \cap DOMAIN counts
    BY <1>2 DEF Holds
  <2>2. \A t \in DOMAIN p.stubs : t \in Corpus.terms /\ t \notin Owned(Corpus, Serving(i))
    BY <1>1, <1>2, <2>1 DEF Holds, CountsTyped
  <2>3. QED
    BY <2>2 DEF Owned
<1>4. Named(p) \subseteq p.terms \cup DOMAIN p.stubs /\ {r.target : r \in p.synonyms} \subseteq p.terms
  BY <1>1 DEF Closed
<1>5. QED
  BY <1>3, <1>4 DEF Named

(* By inclusion and exclusion: the relations that touch a language.        *)
LEMMA CatalogueOfPacks ==
  ASSUME RowsKnown, Attached, NEW l \in DOMAIN Catalogue(Corpus, counts)
  PROVE  LET alone == LexicalPack(Corpus, counts, {l}) IN
         /\ Catalogue(Corpus, counts)[l].relations = Cardinality(alone.relations)
         /\ Catalogue(Corpus, counts)[l].translations = Cardinality(alone.translations)
<1> SUFFICES ASSUME NEW p, p = LexicalPack(Corpus, counts, {l})
             PROVE  /\ Catalogue(Corpus, counts)[l].relations = Cardinality(p.relations)
                    /\ Catalogue(Corpus, counts)[l].translations = Cardinality(p.translations)
  OBVIOUS
<1>1. Holds(p, Corpus, counts, {l})
  BY PackHolds
<1>2. p.terms = {t \in Corpus.terms : LanguageOf[t] = l}
  BY <1>1 DEF Holds, Owned
<1> DEFINE A == {r \in Corpus.relations : LanguageOf[r.source] = l}
           B == {r \in Corpus.relations : LanguageOf[r.target] = l}
           C == {r \in Corpus.relations : LanguageOf[r.source] = l /\ LanguageOf[r.target] = l}
<1>3. p.relations = A \cup B
  BY <1>1, <1>2, CorpusClosed DEF Holds
<1>4. A \cap B = C
  OBVIOUS
<1>5. /\ IsFiniteSet(A) /\ IsFiniteSet(B)
      /\ Cardinality(A) \in Nat /\ Cardinality(B) \in Nat /\ Cardinality(C) \in Nat
  <2>1. /\ A \in SUBSET Corpus.relations /\ B \in SUBSET Corpus.relations
        /\ C \in SUBSET Corpus.relations /\ IsFiniteSet(Corpus.relations)
    BY CorpusTyped
  <2> HIDE DEF A, B, C
  <2>2. IsFiniteSet(A) /\ IsFiniteSet(B) /\ IsFiniteSet(C)
    BY <2>1, FS_Subset
  <2>3. QED
    BY <2>2, FS_CardinalityType
<1>6. RelationRows(Corpus, l) = Cardinality(A) + Cardinality(B) - Cardinality(A \cap B)
  <2>1. RelationRows(Corpus, l) = Cardinality(A) + Cardinality(B) - Cardinality(C)
    <3>1. RelationRows(Corpus, l) = Ends(Corpus, l) - Cardinality(C)
      BY DEF RelationRows
    <3>2. Ends(Corpus, l) = Cardinality(A) + Cardinality(B)
      BY DEF Ends
    <3> HIDE DEF A, B, C
    <3>3. QED
      BY <1>5, <3>1, <3>2
  <2> HIDE DEF A, B, C
  <2>2. QED
    BY <1>4, <2>1
<1> HIDE DEF A, B, C
<1>7. RelationRows(Corpus, l) = Cardinality(p.relations)
  BY <1>3, <1>5, <1>6, FS_Union
<1>8. p.translations = {r \in Corpus.translations : LanguageOf[HeadOf[EntryOf[r.sense]]] = l}
  <2>1. \A r \in Corpus.translations : /\ r.sense \in Corpus.senses
                                        /\ EntryOf[r.sense] \in Corpus.entries
                                        /\ HeadOf[EntryOf[r.sense]] \in Corpus.terms
    BY CorpusClosed DEF Attached
  <2>2. \A r \in Corpus.translations :
          r.sense \in p.senses <=> LanguageOf[HeadOf[EntryOf[r.sense]]] = l
    BY <1>1, <1>2, <2>1 DEF Holds
  <2>3. QED
    BY <1>1, <2>2 DEF Holds
<1>9. /\ Catalogue(Corpus, counts)[l].relations = RelationRows(Corpus, l)
      /\ Catalogue(Corpus, counts)[l].translations
           = Cardinality({r \in Corpus.translations : LanguageOf[HeadOf[EntryOf[r.sense]]] = l})
  BY DEF Catalogue
<1>10. QED
  BY <1>7, <1>8, <1>9

LEMMA TrueCatalogue == PackedInv => CatalogueTrue
<1> SUFFICES ASSUME PackedInv, core # NotYet, NEW l \in DOMAIN core
             PROVE  LET alone == LexicalPack(Corpus, counts, {l}) IN
                    /\ core[l].relations = Cardinality(alone.relations)
                    /\ core[l].translations = Cardinality(alone.translations)
  BY DEF CatalogueTrue
<1>1. core = Catalogue(Corpus, counts) /\ RowsKnown /\ Attached
  BY DEF PackedInv, BuiltOnce, BuiltFromCorpus
<1>2. QED
  BY <1>1, CatalogueOfPacks

(* The rows of a language in the order of their offsets. *)
LEMMA GatheredLists ==
  ASSUME NEW l
  PROVE  /\ Gathered(Mapping, l) \in Seq(Rows(Mapping, l))
         /\ \A i \in DOMAIN Gathered(Mapping, l) : Gathered(Mapping, l)[i] \in Rows(Mapping, l)
<1> DEFINE S == Rows(Mapping, l)
           key == [r \in Rows(Mapping, l) |-> <<r.offset>>]
<1>1. S \in SUBSET Mapping.rows /\ IsFiniteSet(S)
  <2>1. S \in SUBSET Mapping.rows
    BY DEF Rows
  <2>2. QED
    BY <2>1, MappingAssumption, FS_Subset
<1>2. Keyed(S, key, 1)
  <2>1. \A r \in S : /\ r.offset \in Int /\ key[r] = <<r.offset>>
                     /\ <<r.offset>> \in Seq(Int) /\ Len(<<r.offset>>) = 1
    BY <1>1, MappingAssumption
  <2>2. \A r, s \in S : key[r] = key[s] => r = s
    BY <1>1, <2>1, MappingAssumption
  <2>3. key \in [S -> Keys(1)]
    BY <2>1 DEF Keys
  <2> HIDE DEF S, key
  <2>4. QED
    BY <1>1, <2>2, <2>3 DEF Keyed
<1>3. Gathered(Mapping, l) = Sorted(key)
  BY DEF Gathered
<1> HIDE DEF key
<1>4. QED
  BY <1>2, <1>3, SortedLists

LEMMA KeptVectors == PackedInv => VectorsKept
<1> SUFFICES ASSUME PackedInv, semantic # NotYet, NEW l \in DOMAIN semantic, NEW r \in semantic[l].rows
             PROVE  \E g \in Mapping.rows :
                      /\ r.offset \in DOMAIN semantic[l].vectors /\ g.id = r.id /\ g.term = r.term
                      /\ semantic[l].vectors[r.offset] = Mapping.vectors[g.offset]
  BY DEF VectorsKept
<1>1. semantic = [m \in DOMAIN Mapping.shards |-> SemanticPack(Mapping, m)]
  BY DEF PackedInv, BuiltOnce, BuiltFromCorpus
<1> DEFINE s == Gathered(Mapping, l)
<1>2. /\ semantic[l].vectors = [i \in DOMAIN s |-> Mapping.vectors[s[i].offset]]
      /\ semantic[l].rows = {[s[i] EXCEPT !.offset = i] : i \in DOMAIN s}
  <2>1. semantic[l] = SemanticPack(Mapping, l)
    BY <1>1
  <2>2. QED
    BY <2>1 DEF SemanticPack
<1> HIDE DEF s
<1>3. PICK i \in DOMAIN s : r = [s[i] EXCEPT !.offset = i]
  BY <1>2
<1>4. s[i] \in Mapping.rows
  BY <1>3, GatheredLists DEF s, Rows
<1>5. s[i] \in [id : Nat, term : Term, offset : Nat]
  BY <1>4, MappingAssumption
<1>6. r.offset = i /\ r.id = s[i].id /\ r.term = s[i].term
  BY <1>3, <1>5
<1>7. QED
  BY <1>2, <1>3, <1>4, <1>6

(* A release is its corpus, repartitioned: its packs are whole and closed, *)
(* its catalogue counts them and its vectors are those of the mapping.     *)
THEOREM ReleaseIsCorpus == PackedSpec => []PacksFaithful
<1>1. PackedInv => PacksFaithful
  BY PacksTyped, WholePacks, ClosedPacks, TrueCatalogue, KeptVectors DEF PacksFaithful
<1>2. QED
  BY <1>1, PackedKept, PTL

(* A pack of a corpus that was counted as it is.                           *)
LEMMA FreshPack ==
  ASSUME PackedInv, packs # NotYet, Fresh, NEW i \in DOMAIN packs, NEW p, p = packs[i].content
  PROVE  Closed(p) /\ Holds(p, Corpus, TermCounts(Corpus), Serving(i))
<1>1. Closed(p) /\ p = LexicalPack(Corpus, counts, Serving(i)) /\ counts = TermCounts(Corpus)
  BY BuiltPack DEF Fresh
<1>2. QED
  BY <1>1, PackHolds

LEMMA SameSenses ==
  ASSUME PackedInv, packs # NotYet, Fresh, NEW i \in DOMAIN packs, NEW p, p = packs[i].content,
         NEW t \in p.terms
  PROVE  EntriesOf(p, t) = EntriesOf(Corpus, t) /\ SensesOf(p, t) = SensesOf(Corpus, t)
<1>1. Holds(p, Corpus, TermCounts(Corpus), Serving(i))
  BY FreshPack
<1>2. /\ p.entries = {e \in Corpus.entries : HeadOf[e] \in p.terms}
      /\ p.senses = {s \in Corpus.senses : EntryOf[s] \in p.entries}
  BY <1>1 DEF Holds
<1>3. EntriesOf(p, t) = EntriesOf(Corpus, t)
  BY <1>2 DEF EntriesOf
<1>4. \A s \in Corpus.senses : HeadOf[EntryOf[s]] = t => s \in p.senses
  BY <1>2, CorpusClosed
<1>5. SensesOf(p, t) = SensesOf(Corpus, t)
  BY <1>2, <1>4 DEF SensesOf
<1>6. QED
  BY <1>3, <1>5

(* A stub has the counts its term would have.                              *)
LEMMA SameCounts ==
  ASSUME PackedInv, packs # NotYet, Fresh, NEW i \in DOMAIN packs, NEW p, p = packs[i].content,
         NEW t \in p.terms \cup DOMAIN p.stubs
  PROVE  CountsOf(p, t) = CountsOf(Corpus, t) /\ t \in Corpus.terms
<1>1. Holds(p, Corpus, TermCounts(Corpus), Serving(i))
  BY FreshPack
<1>2. /\ p.terms = Owned(Corpus, Serving(i))
      /\ p.stubs = [u \in (Named(p) \ p.terms) \cap DOMAIN TermCounts(Corpus) |-> TermCounts(Corpus)[u]]
  BY <1>1 DEF Holds
<1>3. DOMAIN Corpus.stubs = {}
  BY CorpusFields
<1>4. CountsOf(Corpus, t) = CountIn(Corpus, t)
  BY <1>3 DEF CountsOf
<1>5. CASE t \in DOMAIN p.stubs
  <2>1. t \in DOMAIN TermCounts(Corpus) /\ p.stubs[t] = TermCounts(Corpus)[t]
    BY <1>2, <1>5
  <2>2. t \in Corpus.terms /\ TermCounts(Corpus)[t] = CountIn(Corpus, t)
    BY <2>1 DEF TermCounts
  <2>3. QED
    BY <1>4, <1>5, <2>1, <2>2 DEF CountsOf
<1>6. CASE t \notin DOMAIN p.stubs
  <2>1. EntriesOf(p, t) = EntriesOf(Corpus, t) /\ SensesOf(p, t) = SensesOf(Corpus, t)
    BY <1>6, SameSenses
  <2>2. t \in Corpus.terms
    BY <1>2, <1>6 DEF Owned
  <2>3. QED
    BY <1>4, <1>6, <2>1, <2>2 DEF CountsOf, CountIn
<1>7. QED
  BY <1>5, <1>6

(* The stored relations that a query sees from its term. *)
Facing(db, q, orient) ==
  LET code == IF orient = 1 THEN q.code ELSE InverseCode(q.code)
      stored == {r \in db.relations : r.code = code}
  IN IF orient = 1 THEN stored ELSE {Turned(r) : r \in stored}

Hits(db, q, orient) ==
  {r \in Facing(db, q, orient) :
     /\ r.source = q.term /\ q.term \in db.terms
     /\ r.target \in db.terms \cup DOMAIN db.stubs
     /\ q.target \in {Any, LanguageOf[r.target]}
     /\ q.sense \in {NoSense, r.ssense}}

Found(db, orient, r) ==
  [source |-> r.source, ssense |-> r.ssense, target |-> r.target, tsense |-> r.tsense,
   dir |-> r.dir, prov |-> r.prov, orient |-> orient, variant |-> 0, path |-> <<>>,
   entries |-> CountsOf(db, r.target).entries, senses |-> CountsOf(db, r.target).senses]

LEMMA CandidatesAre ==
  ASSUME NEW db, NEW q, NEW o
  PROVE  Candidates(db, q, o) = WithVariants({Found(db, o, r) : r \in Hits(db, q, o)})
BY DEF Candidates, Hits, Facing, Found

LEMMA FacingTyped ==
  ASSUME NEW db, db.relations \subseteq Relation, NEW q, NEW o
  PROVE  /\ Facing(db, q, o) \subseteq Relation
         /\ \A x \in Facing(db, q, o) : \E r \in db.relations :
              /\ r.code = (IF o = 1 THEN q.code ELSE InverseCode(q.code))
              /\ x = IF o = 1 THEN r ELSE Turned(r)
              /\ x.source = (IF o = 1 THEN r.source ELSE r.target)
              /\ x.target = (IF o = 1 THEN r.target ELSE r.source)
<1>1. \A r \in db.relations : Turned(r) \in Relation /\ Turned(r).source = r.target /\ Turned(r).target = r.source
  BY DEF Turned, Relation
<1>2. QED
  BY <1>1 DEF Facing

LEMMA SameFacing ==
  ASSUME PackedInv, packs # NotYet, Fresh, NEW i \in DOMAIN packs, NEW p, p = packs[i].content,
         NEW q, q.term \in p.terms, NEW o, NEW x, x.source = q.term
  PROVE  /\ x \in Facing(p, q, o) <=> x \in Facing(Corpus, q, o)
         /\ x \in Facing(p, q, o) => x.target \in p.terms \cup DOMAIN p.stubs /\ x.target \in Corpus.terms
<1>1. Holds(p, Corpus, TermCounts(Corpus), Serving(i)) /\ Closed(p) /\ RowsKnown
  BY FreshPack DEF PackedInv
<1>2. p.relations = {r \in Corpus.relations : r.source \in p.terms \/ r.target \in p.terms}
  BY <1>1 DEF Holds
<1>3. Corpus.relations \subseteq Relation /\ p.relations \subseteq Relation
  BY <1>1, <1>2, CorpusTyped
<1>4. ASSUME x \in Facing(p, q, o) PROVE x \in Facing(Corpus, q, o)
  BY <1>2, <1>4 DEF Facing
<1>5. ASSUME x \in Facing(Corpus, q, o) PROVE x \in Facing(p, q, o)
  <2>1. PICK r \in Corpus.relations :
          /\ r.code = (IF o = 1 THEN q.code ELSE InverseCode(q.code))
          /\ x = IF o = 1 THEN r ELSE Turned(r)
          /\ x.source = (IF o = 1 THEN r.source ELSE r.target)
    BY <1>3, <1>5, FacingTyped
  <2>2. r \in p.relations
    BY <1>2, <2>1
  <2>3. QED
    BY <2>1, <2>2 DEF Facing
<1>6. ASSUME x \in Facing(p, q, o)
      PROVE  x.target \in p.terms \cup DOMAIN p.stubs /\ x.target \in Corpus.terms
  <2>1. PICK r \in p.relations :
          /\ r.code = (IF o = 1 THEN q.code ELSE InverseCode(q.code))
          /\ x = IF o = 1 THEN r ELSE Turned(r)
          /\ x.source = (IF o = 1 THEN r.source ELSE r.target)
          /\ x.target = (IF o = 1 THEN r.target ELSE r.source)
    BY <1>3, <1>6, FacingTyped
  <2>2. r.source \in Named(p) /\ r.target \in Named(p)
    BY <2>1 DEF Named
  <2>3. x.target \in p.terms \cup DOMAIN p.stubs
    BY <1>1, <2>1, <2>2 DEF Closed
  <2>4. x.target \in Corpus.terms
    BY <1>2, <2>1, CorpusClosed
  <2>5. QED
    BY <2>3, <2>4
<1>7. QED
  BY <1>4, <1>5, <1>6

LEMMA TermServed ==
  ASSUME PackedInv, packs # NotYet, Fresh, NEW i \in DOMAIN packs, NEW p, p = packs[i].content,
         NEW t, LanguageOf[t] \in Serving(i)
  PROVE  t \in p.terms <=> t \in Corpus.terms
<1>1. p.terms = Owned(Corpus, Serving(i))
  BY FreshPack DEF Holds
<1>2. QED
  BY <1>1 DEF Owned

LEMMA SameHits ==
  ASSUME PackedInv, packs # NotYet, Fresh, NEW i \in DOMAIN packs, NEW p, p = packs[i].content,
         NEW q, LanguageOf[q.term] \in Serving(i), NEW o
  PROVE  /\ Hits(p, q, o) = Hits(Corpus, q, o)
         /\ \A r \in Hits(p, q, o) : CountsOf(p, r.target) = CountsOf(Corpus, r.target)
<1>1. q.term \in p.terms <=> q.term \in Corpus.terms
  BY TermServed
<1>2. ASSUME NEW x \in Hits(p, q, o)
      PROVE  x \in Hits(Corpus, q, o) /\ CountsOf(p, x.target) = CountsOf(Corpus, x.target)
  <2>1. /\ x \in Facing(p, q, o) /\ x.source = q.term /\ q.term \in p.terms
        /\ x.target \in p.terms \cup DOMAIN p.stubs
        /\ q.target \in {Any, LanguageOf[x.target]} /\ q.sense \in {NoSense, x.ssense}
    BY <1>2 DEF Hits
  <2>2. x \in Facing(Corpus, q, o) /\ x.target \in Corpus.terms
    BY <2>1, SameFacing
  <2>3. CountsOf(p, x.target) = CountsOf(Corpus, x.target)
    BY <2>1, SameCounts
  <2>4. QED
    BY <1>1, <2>1, <2>2, <2>3 DEF Hits
<1>3. ASSUME NEW x \in Hits(Corpus, q, o) PROVE x \in Hits(p, q, o)
  <2>1. /\ x \in Facing(Corpus, q, o) /\ x.source = q.term /\ q.term \in p.terms
        /\ q.target \in {Any, LanguageOf[x.target]} /\ q.sense \in {NoSense, x.ssense}
    BY <1>1, <1>3 DEF Hits
  <2>2. x \in Facing(p, q, o) /\ x.target \in p.terms \cup DOMAIN p.stubs
    BY <2>1, SameFacing
  <2>3. QED
    BY <2>1, <2>2 DEF Hits
<1>4. QED
  BY <1>2, <1>3

(* A pack finds for its terms what the corpus finds.                       *)
LEMMA SameCandidates ==
  ASSUME PackedInv, packs # NotYet, Fresh, NEW i \in DOMAIN packs, NEW p, p = packs[i].content,
         NEW q, LanguageOf[q.term] \in Serving(i), NEW o
  PROVE  Candidates(p, q, o) = Candidates(Corpus, q, o)
<1> DEFINE H == Hits(p, q, o)
<1>1. Hits(Corpus, q, o) = H /\ \A r \in H : CountsOf(p, r.target) = CountsOf(Corpus, r.target)
  BY SameHits
<1> HIDE DEF H
<1>2. \A r \in H : Found(p, o, r) = Found(Corpus, o, r)
  BY <1>1 DEF Found
<1>3. {Found(p, o, r) : r \in H} = {Found(Corpus, o, r) : r \in H}
  BY <1>2
<1>4. Candidates(p, q, o) = WithVariants({Found(p, o, r) : r \in H})
  BY CandidatesAre DEF H
<1>5. Candidates(Corpus, q, o) = WithVariants({Found(Corpus, o, r) : r \in H})
  BY <1>1, CandidatesAre
<1>6. QED
  BY <1>3, <1>4, <1>5

LEMMA SameRankedRows ==
  ASSUME PackedInv, packs # NotYet, Fresh, NEW i \in DOMAIN packs, NEW p, p = packs[i].content,
         NEW q, LanguageOf[q.term] \in Serving(i), NEW n
  PROVE  RankedRows(p, q, n) = RankedRows(Corpus, q, n)
<1>1. \A o \in {1, 2} : Candidates(p, q, o) = Candidates(Corpus, q, o)
  BY SameCandidates
<1>2. DirectRows(p, q, n) = DirectRows(Corpus, q, n)
  <2>1. {RowsOf(Prefix(InQueryOrder(Candidates(p, q, o)), n)) : o \in {1, 2}}
          = {RowsOf(Prefix(InQueryOrder(Candidates(Corpus, q, o)), n)) : o \in {1, 2}}
    BY <1>1
  <2>2. QED
    BY <2>1 DEF DirectRows
<1>3. QED
  BY <1>2 DEF RankedRows

LEMMA PrefixOf ==
  ASSUME NEW S, NEW s \in Seq(S), NEW n \in Nat
  PROVE  /\ Prefix(s, n) \in Seq(S) /\ Len(Prefix(s, n)) = IF n < Len(s) THEN n ELSE Len(s)
         /\ \A k \in DOMAIN Prefix(s, n) : k \in DOMAIN s /\ k <= n /\ Prefix(s, n)[k] = s[k]
         /\ \A k \in DOMAIN s : k <= n => k \in DOMAIN Prefix(s, n)
         /\ Len(s) <= n => Prefix(s, n) = s
<1> DEFINE m == IF n < Len(s) THEN n ELSE Len(s)
<1>1. Len(s) \in Nat /\ DOMAIN s = 1 .. Len(s) /\ m \in 0 .. Len(s) /\ \A k \in 1 .. Len(s) : s[k] \in S
  OBVIOUS
<1>0. m \in Int /\ Len(s) \in Int /\ m <= Len(s) /\ m <= n
  <2>1. Len(s) \in Nat
    OBVIOUS
  <2>2. QED
    BY <2>1
<1>2. Prefix(s, n) = SubSeq(s, 1, m)
  BY DEF Prefix
<1>3. m <= n /\ (Len(s) <= n => m = Len(s)) /\ \A k \in 1 .. Len(s) : k <= n => k \in 1 .. m
  <2> DEFINE N == Len(s)
  <2>1. N \in Nat
    OBVIOUS
  <2> HIDE DEF N
  <2>2. /\ (IF n < N THEN n ELSE N) <= n /\ (N <= n => (IF n < N THEN n ELSE N) = N)
        /\ \A k \in 1 .. N : k <= n => k \in 1 .. (IF n < N THEN n ELSE N)
    BY <2>1
  <2>3. QED
    BY <2>2 DEF N
<1> HIDE DEF m
<1>4. /\ SubSeq(s, 1, m) \in Seq(S) /\ Len(SubSeq(s, 1, m)) = m
      /\ DOMAIN SubSeq(s, 1, m) = 1 .. m /\ \A k \in 1 .. m : SubSeq(s, 1, m)[k] = s[k]
  BY <1>1
<1>5. m = Len(s) => SubSeq(s, 1, m) = s
  BY <1>1, <1>4
<1>6. Len(Prefix(s, n)) = IF n < Len(s) THEN n ELSE Len(s)
  BY <1>2, <1>4 DEF m
<1> DEFINE q == Prefix(s, n)
<1>7. q \in Seq(S) /\ DOMAIN q = 1 .. m /\ (\A k \in 1 .. m : q[k] = s[k]) /\ (m = Len(s) => q = s)
  BY <1>2, <1>4, <1>5
<1> HIDE DEF q
<1>8. /\ \A k \in DOMAIN q : k \in DOMAIN s /\ k <= n /\ q[k] = s[k]
      /\ \A k \in DOMAIN s : k <= n => k \in DOMAIN q
      /\ Len(s) <= n => q = s
  <2>1. \A k \in 1 .. m : k \in 1 .. Len(s) /\ k <= n
    BY <1>0
  <2>2. QED
    BY <1>1, <1>3, <1>7, <2>1
<1>9. QED
  BY <1>6, <1>7, <1>8 DEF q

(* What a query finds: rows that a path may be made of.                    *)
Row == [source : Term, ssense : Sense \cup {NoSense}, target : Term, tsense : Sense \cup {NoSense},
        dir : 1 .. 3, prov : Nat, orient : {1, 2}, variant : Nat, path : {<<>>},
        entries : Nat, senses : Nat]

Variants(S, r) == {x \in S : x.target = r.target /\ Before(VariantKey(x), VariantKey(r))}

Numbering(S, r) == [r EXCEPT !.variant = 1 + Cardinality(Variants(S, r))]

LEMMA NumberingTyped ==
  ASSUME NEW S, IsFiniteSet(S), NEW r \in Row
  PROVE  /\ Cardinality(Variants(S, r)) \in Nat /\ Numbering(S, r) \in Row
         /\ Numbering(S, r).target = r.target /\ VariantKey(Numbering(S, r)) = VariantKey(r)
         /\ Numbering(S, r).variant = 1 + Cardinality(Variants(S, r))
         /\ \A v : [Numbering(S, r) EXCEPT !.variant = v] = [r EXCEPT !.variant = v]
         /\ [r EXCEPT !.variant = r.variant] = r
<1> DEFINE n == 1 + Cardinality(Variants(S, r))
<1>1. Cardinality(Variants(S, r)) \in Nat
  <2>1. Variants(S, r) \in SUBSET S
    BY DEF Variants
  <2>2. QED
    BY <2>1, FS_Subset, FS_CardinalityType
<1>2. n \in Nat
  BY <1>1
<1>3. Numbering(S, r) = [r EXCEPT !.variant = n]
  BY DEF Numbering
<1> HIDE DEF n
<1> DEFINE y == [r EXCEPT !.variant = n]
<1>4. /\ y \in Row /\ y.target = r.target /\ y.variant = n
      /\ y.ssense = r.ssense /\ y.tsense = r.tsense /\ y.prov = r.prov /\ y.dir = r.dir
  BY <1>2 DEF Row
<1>5. VariantKey(y) = VariantKey(r)
  BY <1>4 DEF VariantKey, Unsensed
<1>6. \A v : [y EXCEPT !.variant = v] = [r EXCEPT !.variant = v]
  BY DEF Row
<1>7. [r EXCEPT !.variant = r.variant] = r
  BY DEF Row
<1>8. QED
  BY <1>1, <1>3, <1>4, <1>5, <1>6, <1>7 DEF n

(* Variants are numbered the same when they are numbered again.            *)
LEMMA NumberedAgain ==
  ASSUME NEW S, IsFiniteSet(S), S \subseteq Row, \A r \in S : r.variant = 0
  PROVE  WithVariants(WithVariants(S)) = WithVariants(S)
<1> DEFINE W == WithVariants(S)
<1>1. W = {Numbering(S, r) : r \in S}
  BY DEF WithVariants, Numbering, Variants
<1>2. WithVariants(W) = {Numbering(W, y) : y \in W}
  BY DEF WithVariants, Numbering, Variants
<1> HIDE DEF W
<1>3. \A r, x \in S : Numbering(S, r) = Numbering(S, x) => r = x
  <2> SUFFICES ASSUME NEW r \in S, NEW x \in S, Numbering(S, r) = Numbering(S, x) PROVE r = x
    OBVIOUS
  <2>0. r \in Row /\ x \in Row /\ Numbering(S, r) = Numbering(S, x)
    OBVIOUS
  <2>1. [r EXCEPT !.variant = 0] = [x EXCEPT !.variant = 0]
    <3>1. [Numbering(S, r) EXCEPT !.variant = 0] = [r EXCEPT !.variant = 0]
      BY NumberingTyped
    <3>2. [Numbering(S, x) EXCEPT !.variant = 0] = [x EXCEPT !.variant = 0]
      BY NumberingTyped
    <3>3. QED
      BY <2>0, <3>1, <3>2
  <2>2. [r EXCEPT !.variant = 0] = r /\ [x EXCEPT !.variant = 0] = x
    BY NumberingTyped
  <2>3. QED
    BY <2>1, <2>2
<1>4. ASSUME NEW r \in S PROVE Numbering(W, Numbering(S, r)) = Numbering(S, r)
  <2> DEFINE y == Numbering(S, r)
             A == Variants(S, r)
             B == Variants(W, y)
             f == [x \in A |-> Numbering(S, x)]
  <2>1. y.target = r.target /\ VariantKey(y) = VariantKey(r) /\ y \in Row
    BY NumberingTyped
  <2>2. \A x \in S : Numbering(S, x).target = x.target /\ VariantKey(Numbering(S, x)) = VariantKey(x)
    BY NumberingTyped
  <2>3. A \in SUBSET S /\ IsFiniteSet(A)
    <3>1. A \in SUBSET S
      BY DEF Variants
    <3>2. QED
      BY <3>1, FS_Subset
  <2>4. \A x \in S : x \in A <=> Numbering(S, x) \in B
    BY <1>1, <2>1, <2>2 DEF Variants
  <2>5. B \subseteq W
    BY DEF Variants
  <2> HIDE DEF A, B, y
  <2>6. \A x \in A : Numbering(S, x) \in B
    BY <2>3, <2>4
  <2>7. \A z \in B : \E x \in A : f[x] = z
    BY <1>1, <2>3, <2>4, <2>5
  <2>8. \A x, z \in A : f[x] = f[z] => x = z
    BY <1>3, <2>3
  <2>9. f \in Bijection(A, B)
    <3>1. f \in [A -> B] /\ \A x \in A : f[x] = Numbering(S, x)
      BY <2>6
    <3> HIDE DEF f
    <3>2. f \in Injection(A, B)
      BY <2>8, <3>1 DEF Injection, IsInjective
    <3>3. f \in Surjection(A, B)
      BY <2>7, <3>1 DEF Surjection
    <3>4. QED
      BY <3>2, <3>3 DEF Bijection
  <2> HIDE DEF f
  <2>10. Cardinality(B) = Cardinality(A)
    BY <2>3, <2>9, FS_Bijection DEF ExistsBijection
  <2>11. Numbering(W, y) = [y EXCEPT !.variant = 1 + Cardinality(A)]
    BY <2>10 DEF Numbering, B
  <2>12. y.variant = 1 + Cardinality(A) /\ [y EXCEPT !.variant = y.variant] = y
    <3>1. y.variant = 1 + Cardinality(A)
      BY NumberingTyped DEF y, A
    <3>2. QED
      BY <2>1, <3>1, NumberingTyped
  <2>13. QED
    BY <2>11, <2>12 DEF y
<1>5. {Numbering(W, y) : y \in W} = W
  <2>1. \A y \in W : Numbering(W, y) = y
    BY <1>1, <1>4
  <2>2. QED
    BY <2>1
<1>6. QED
  BY <1>2, <1>5 DEF W

LEMMA JoinOf ==
  ASSUME NEW S, NEW s \in Seq(S), NEW t \in Seq(S)
  PROVE  /\ s \o t \in Seq(S) /\ Len(s \o t) = Len(s) + Len(t) /\ Len(s) \in Nat /\ Len(t) \in Nat
         /\ DOMAIN (s \o t) = 1 .. Len(s) + Len(t)
         /\ \A k \in 1 .. Len(s) : (s \o t)[k] = s[k]
         /\ \A k \in 1 .. Len(t) : (s \o t)[Len(s) + k] = t[k]
OBVIOUS

LEMMA JoinThree ==
  ASSUME NEW a, NEW b, NEW c PROVE  <<a>> \o <<b, c>> = <<a, b, c>>
<1> DEFINE S == {a, b, c}
           u == <<a>> \o <<b, c>>
<1>1. /\ <<a>> \in Seq(S) /\ <<b, c>> \in Seq(S) /\ Len(<<a>>) = 1 /\ Len(<<b, c>>) = 2
      /\ <<a>>[1] = a /\ <<b, c>>[1] = b /\ <<b, c>>[2] = c
  OBVIOUS
<1>2. u \in Seq(S) /\ Len(u) = 3 /\ u[1] = a /\ u[2] = b /\ u[3] = c
  BY <1>1
<1> HIDE DEF u, S
<1>3. u = <<a, b, c>>
  BY <1>2
<1>4. QED
  BY <1>3 DEF u

LEMMA JoinFive ==
  ASSUME NEW a, NEW b, NEW c, NEW d, NEW e
  PROVE  <<a, b>> \o <<c, d, e>> = <<a, b, c, d, e>>
<1> DEFINE S == {a, b, c, d, e}
           u == <<a, b>> \o <<c, d, e>>
<1>1. /\ <<a, b>> \in Seq(S) /\ <<c, d, e>> \in Seq(S) /\ Len(<<a, b>>) = 2 /\ Len(<<c, d, e>>) = 3
      /\ <<a, b>>[1] = a /\ <<a, b>>[2] = b
      /\ <<c, d, e>>[1] = c /\ <<c, d, e>>[2] = d /\ <<c, d, e>>[3] = e
  OBVIOUS
<1>2. u \in Seq(S) /\ Len(u) = 5 /\ u[1] = a /\ u[2] = b /\ u[3] = c /\ u[4] = d /\ u[5] = e
  BY <1>1
<1> HIDE DEF u, S
<1>3. u = <<a, b, c, d, e>>
  BY <1>2
<1>4. QED
  BY <1>3 DEF u

LEMMA JoinNine ==
  ASSUME NEW a, NEW b, NEW c, NEW d, NEW e, NEW f, NEW g, NEW h, NEW i
  PROVE  <<a, b, c, d, e>> \o <<f, g, h, i>> = <<a, b, c, d, e, f, g, h, i>>
<1> DEFINE S == {a, b, c, d, e, f, g, h, i}
           s == <<a, b, c, d, e>>
           t == <<f, g, h, i>>
           u == s \o t
<1>1. /\ s \in Seq(S) /\ t \in Seq(S) /\ Len(s) = 5 /\ Len(t) = 4
      /\ s[1] = a /\ s[2] = b /\ s[3] = c /\ s[4] = d /\ s[5] = e
      /\ t[1] = f /\ t[2] = g /\ t[3] = h /\ t[4] = i
  OBVIOUS
<1> HIDE DEF s, t, S
<1>2. /\ u \in Seq(S) /\ Len(u) = 9 /\ u[1] = a /\ u[2] = b /\ u[3] = c /\ u[4] = d /\ u[5] = e
      /\ u[6] = f /\ u[7] = g /\ u[8] = h /\ u[9] = i
  <2>1. /\ u \in Seq(S) /\ Len(u) = 9
        /\ \A k \in 1 .. 5 : u[k] = s[k]
        /\ \A k \in 1 .. 4 : u[5 + k] = t[k]
    <3>1. /\ u \in Seq(S) /\ Len(u) = Len(s) + Len(t)
          /\ \A k \in 1 .. Len(s) : u[k] = s[k]
          /\ \A k \in 1 .. Len(t) : u[Len(s) + k] = t[k]
      <4>1. s \in Seq(S) /\ t \in Seq(S)
        BY <1>1
      <4>2. QED
        BY <4>1, JoinOf
    <3> HIDE DEF u
    <3>2. QED
      BY <1>1, <3>1
  <2>2. u[1] = a /\ u[2] = b /\ u[3] = c /\ u[4] = d /\ u[5] = e
    <3> HIDE DEF u
    <3> QED BY <1>1, <2>1
  <2>3. u[5 + 1] = f /\ u[5 + 2] = g /\ u[5 + 3] = h /\ u[5 + 4] = i
    <3> HIDE DEF u
    <3> QED BY <1>1, <2>1
  <2>4. QED
    <3> HIDE DEF u
    <3> QED BY <2>1, <2>2, <2>3
<1> HIDE DEF u
<1>3. u = <<a, b, c, d, e, f, g, h, i>>
  BY <1>2
<1>4. QED
  BY <1>3 DEF u, s, t

LEMMA Places ==
  ASSUME NEW t
  PROVE  Place(t) = <<Width[t], Tag[LanguageOf[t]], Spelling[t]>>
BY JoinThree DEF Place, ByTag

PrefetchKey(r) ==
  <<IF Unsensed(r) THEN 1 ELSE 0, IF r.tsense = NoSense THEN 1 ELSE 0, Width[r.target],
    Tag[LanguageOf[r.target]], Spelling[r.target], r.ssense, r.tsense, r.prov, r.dir>>

LEMMA PrefetchKeys ==
  ASSUME NEW r
  PROVE  PrefetchOrder(r) = PrefetchKey(r)
<1> DEFINE a == IF Unsensed(r) THEN 1 ELSE 0
           b == IF r.tsense = NoSense THEN 1 ELSE 0
           c == Width[r.target]
           d == Tag[LanguageOf[r.target]]
           e == Spelling[r.target]
<1>1. PrefetchOrder(r) = <<a, b>> \o Place(r.target) \o <<r.ssense, r.tsense, r.prov, r.dir>>
  BY DEF PrefetchOrder
<1>2. Place(r.target) = <<c, d, e>>
  BY Places
<1>3. PrefetchKey(r) = <<a, b, c, d, e, r.ssense, r.tsense, r.prov, r.dir>>
  BY DEF PrefetchKey
<1> HIDE DEF a, b, c, d, e
<1>4. <<a, b>> \o <<c, d, e>> = <<a, b, c, d, e>>
  BY JoinFive
<1>5. PrefetchOrder(r) = <<a, b, c, d, e>> \o <<r.ssense, r.tsense, r.prov, r.dir>>
  BY <1>1, <1>2, <1>4
<1>6. <<a, b, c, d, e>> \o <<r.ssense, r.tsense, r.prov, r.dir>>
        = <<a, b, c, d, e, r.ssense, r.tsense, r.prov, r.dir>>
  BY JoinNine
<1>7. QED
  BY <1>3, <1>5, <1>6

(* The orders read nothing of a row that tells two places apart but these. *)
LEMMA KeyTyped ==
  ASSUME NEW r \in Row
  PROVE  PrefetchKey(r) \in Keys(9)
<1>1. /\ r.target \in Term /\ r.ssense \in Nat /\ r.tsense \in Nat /\ r.prov \in Nat /\ r.dir \in 1 .. 3
  <2>1. Sense \cup {NoSense} \subseteq Nat
    BY ContentsAssumption DEF NoSense
  <2>2. QED
    BY <2>1 DEF Row
<1>2. /\ Width[r.target] \in Nat /\ Spelling[r.target] \in Nat /\ Tag[LanguageOf[r.target]] \in Nat
  BY <1>1, ContentsAssumption, QueriesAssumption
<1> DEFINE a == IF Unsensed(r) THEN 1 ELSE 0
           b == IF r.tsense = NoSense THEN 1 ELSE 0
           c == Width[r.target]
           d == Tag[LanguageOf[r.target]]
           e == Spelling[r.target]
           f == r.ssense
           g == r.tsense
           h == r.prov
           i == r.dir
           k == <<a, b, c, d, e, f, g, h, i>>
<1>3. /\ a \in Int /\ b \in Int /\ c \in Int /\ d \in Int /\ e \in Int /\ f \in Int
      /\ g \in Int /\ h \in Int /\ i \in Int
  BY <1>1, <1>2
<1>4. PrefetchKey(r) = k
  BY DEF PrefetchKey
<1> HIDE DEF a, b, c, d, e, f, g, h, i
<1>5. k \in Seq(Int) /\ Len(k) = 9
  BY <1>3
<1>6. QED
  BY <1>4, <1>5 DEF Keys

LEMMA KeyApart ==
  ASSUME NEW r \in Row, NEW x \in Row, PrefetchKey(r) = PrefetchKey(x)
  PROVE  r.target = x.target /\ r.ssense = x.ssense /\ r.tsense = x.tsense /\ r.prov = x.prov /\ r.dir = x.dir
<1>1. /\ Tag[LanguageOf[r.target]] = Tag[LanguageOf[x.target]] /\ Spelling[r.target] = Spelling[x.target]
      /\ r.ssense = x.ssense /\ r.tsense = x.tsense /\ r.prov = x.prov /\ r.dir = x.dir
  BY DEF PrefetchKey
<1>2. r.target \in Term /\ x.target \in Term
  BY DEF Row
<1>3. r.target = x.target
  BY <1>1, <1>2, ContentsAssumption, QueriesAssumption, EditionsAssumption
<1>4. QED
  BY <1>1, <1>3

(* Tables of finitely many rows, of the corpus or of a pack.               *)
Tables(db) ==
  /\ db.relations \subseteq Relation /\ IsFiniteSet(db.relations)
  /\ IsFiniteSet(db.entries) /\ IsFiniteSet(db.senses)
  /\ \A t \in DOMAIN db.stubs : db.stubs[t] \in [entries : Nat, senses : Nat]

LEMMA CorpusTables ==
  ASSUME PackedInv
  PROVE  Tables(Corpus)
<1>1. DOMAIN Corpus.stubs = {}
  BY CorpusFields
<1>2. RowsKnown
  BY DEF PackedInv
<1>3. QED
  BY <1>1, <1>2, CorpusTyped DEF Tables

LEMMA CountsAreNumbers ==
  ASSUME NEW db, Tables(db), NEW t
  PROVE  CountsOf(db, t) \in [entries : Nat, senses : Nat]
<1>1. CASE t \in DOMAIN db.stubs
  BY <1>1 DEF CountsOf, Tables
<1>2. CASE t \notin DOMAIN db.stubs
  <2>1. EntriesOf(db, t) \in SUBSET db.entries /\ SensesOf(db, t) \in SUBSET db.senses
    BY DEF EntriesOf, SensesOf
  <2>2. Cardinality(EntriesOf(db, t)) \in Nat /\ Cardinality(SensesOf(db, t)) \in Nat
    BY <2>1, FS_Subset, FS_CardinalityType DEF Tables
  <2>3. QED
    BY <1>2, <2>2 DEF CountsOf, CountIn
<1>3. QED
  BY <1>1, <1>2

LEMMA HitsCounted ==
  ASSUME NEW db, Tables(db), NEW q, NEW o
  PROVE  /\ IsFiniteSet(Hits(db, q, o)) /\ Cardinality(Hits(db, q, o)) <= Cardinality(db.relations)
         /\ Hits(db, q, o) \subseteq Relation
<1> DEFINE code == IF o = 1 THEN q.code ELSE InverseCode(q.code)
           stored == {r \in db.relations : r.code = code}
           f == [r \in stored |-> Turned(r)]
           F == Facing(db, q, o)
<1>1. /\ IsFiniteSet(stored) /\ Cardinality(stored) \in Nat
      /\ Cardinality(stored) <= Cardinality(db.relations) /\ Cardinality(db.relations) \in Nat
  <2>1. stored \in SUBSET db.relations /\ IsFiniteSet(db.relations)
    BY DEF Tables
  <2> HIDE DEF stored
  <2>2. QED
    BY <2>1, FS_Subset, FS_CardinalityType
<1>2. F = IF o = 1 THEN stored ELSE {f[r] : r \in stored}
  BY DEF Facing
<1>3. DOMAIN f = stored
  OBVIOUS
<1> HIDE DEF f, stored, F
<1>4. IsFiniteSet(F) /\ Cardinality(F) <= Cardinality(stored)
  BY <1>1, <1>2, <1>3, ImageCounted
<1>5. Hits(db, q, o) \in SUBSET F
  BY DEF Hits, F
<1>6. IsFiniteSet(Hits(db, q, o)) /\ Cardinality(Hits(db, q, o)) <= Cardinality(F)
  BY <1>4, <1>5, FS_Subset
<1>7. Cardinality(Hits(db, q, o)) \in Nat /\ Cardinality(F) \in Nat
  BY <1>4, <1>6, FS_CardinalityType
<1>8. F \subseteq Relation
  BY FacingTyped DEF F, Tables
<1>9. QED
  BY <1>1, <1>4, <1>5, <1>6, <1>7, <1>8

FoundSet(db, q, o) == {Found(db, o, r) : r \in Hits(db, q, o)}

LEMMA FoundTyped ==
  ASSUME NEW db, Tables(db), NEW q, NEW o \in {1, 2}
  PROVE  /\ IsFiniteSet(FoundSet(db, q, o))
         /\ Cardinality(FoundSet(db, q, o)) <= Cardinality(db.relations)
         /\ \A r \in FoundSet(db, q, o) : r \in Row /\ r.variant = 0 /\ r.source = q.term
         /\ \A r, x \in FoundSet(db, q, o) :
              r.target = x.target /\ r.ssense = x.ssense /\ r.tsense = x.tsense
                /\ r.prov = x.prov /\ r.dir = x.dir => r = x
<1> DEFINE H == Hits(db, q, o)
           f == [h \in H |-> Found(db, o, h)]
           S == FoundSet(db, q, o)
<1>1. /\ IsFiniteSet(H) /\ Cardinality(H) <= Cardinality(db.relations) /\ H \subseteq Relation
      /\ \A h \in H : h.source = q.term
  BY HitsCounted DEF Hits
<1>2. S = {f[h] : h \in H} /\ DOMAIN f = H /\ S = {Found(db, o, h) : h \in H}
  BY DEF FoundSet
<1> HIDE DEF H, f, S
<1>3. IsFiniteSet(S) /\ Cardinality(S) <= Cardinality(db.relations)
  <2>1. IsFiniteSet(S) /\ Cardinality(S) <= Cardinality(H)
    BY <1>1, <1>2, ImageCounted
  <2>2. Cardinality(S) \in Nat /\ Cardinality(H) \in Nat /\ Cardinality(db.relations) \in Nat
    BY <1>1, <2>1, FS_CardinalityType DEF Tables
  <2>3. QED
    BY <1>1, <2>1, <2>2
<1>4. ASSUME NEW h \in H
      PROVE  /\ Found(db, o, h) \in Row /\ Found(db, o, h).variant = 0
             /\ Found(db, o, h).source = q.term
  <2>1. h \in Relation /\ h.source = q.term
    BY <1>1
  <2>2. /\ CountsOf(db, h.target).entries \in Nat /\ CountsOf(db, h.target).senses \in Nat
    BY CountsAreNumbers
  <2>3. QED
    BY <2>1, <2>2 DEF Found, Row, Relation
<1>5. ASSUME NEW h \in H, NEW g \in H, NEW r, NEW x, r = Found(db, o, h), x = Found(db, o, g),
             r.target = x.target, r.ssense = x.ssense, r.tsense = x.tsense,
             r.prov = x.prov, r.dir = x.dir
      PROVE  r = x
  <2>1. /\ h.target = g.target /\ h.ssense = g.ssense /\ h.tsense = g.tsense
        /\ h.prov = g.prov /\ h.dir = g.dir /\ h.source = g.source
    BY <1>1, <1>5 DEF Found
  <2>2. QED
    BY <1>5, <2>1 DEF Found
<1>6. \A r \in S : r \in Row /\ r.variant = 0 /\ r.source = q.term
  BY <1>2, <1>4
<1>7. ASSUME NEW r \in S, NEW x \in S, r.target = x.target, r.ssense = x.ssense,
             r.tsense = x.tsense, r.prov = x.prov, r.dir = x.dir
      PROVE  r = x
  <2>1. PICK h \in H : r = Found(db, o, h)
    BY <1>2
  <2>2. PICK g \in H : x = Found(db, o, g)
    BY <1>2
  <2>3. QED
    BY <1>5, <1>7, <2>1, <2>2
<1>8. QED
  BY <1>3, <1>6, <1>7 DEF S

LEMMA CandidatesTyped ==
  ASSUME NEW db, Tables(db), NEW q, NEW o \in {1, 2}
  PROVE  /\ IsFiniteSet(Candidates(db, q, o))
         /\ Cardinality(Candidates(db, q, o)) <= Cardinality(db.relations)
         /\ \A r \in Candidates(db, q, o) : r \in Row /\ r.source = q.term
         /\ \A r, x \in Candidates(db, q, o) :
              r.target = x.target /\ r.ssense = x.ssense /\ r.tsense = x.tsense
                /\ r.prov = x.prov /\ r.dir = x.dir => r = x
         /\ WithVariants(Candidates(db, q, o)) = Candidates(db, q, o)
<1> DEFINE S == FoundSet(db, q, o)
           f == [r \in S |-> Numbering(S, r)]
           C == Candidates(db, q, o)
<1>1. /\ IsFiniteSet(S) /\ Cardinality(S) <= Cardinality(db.relations)
      /\ \A r \in S : r \in Row /\ r.variant = 0 /\ r.source = q.term
      /\ \A r, x \in S :
              r.target = x.target /\ r.ssense = x.ssense /\ r.tsense = x.tsense
                /\ r.prov = x.prov /\ r.dir = x.dir => r = x
  BY FoundTyped
<1>2. C = WithVariants(S)
  BY CandidatesAre DEF FoundSet
<1>3. WithVariants(S) = {Numbering(S, r) : r \in S}
  BY DEF WithVariants, Numbering, Variants
<1> HIDE DEF S, C
<1>4. IsFiniteSet(C) /\ Cardinality(C) <= Cardinality(db.relations)
  <2>1. C = {f[r] : r \in S} /\ DOMAIN f = S
    BY <1>2, <1>3
  <2> HIDE DEF f
  <2>2. IsFiniteSet(C) /\ Cardinality(C) <= Cardinality(S)
    BY <1>1, <2>1, ImageCounted
  <2>3. Cardinality(C) \in Nat /\ Cardinality(S) \in Nat /\ Cardinality(db.relations) \in Nat
    BY <1>1, <2>2, FS_CardinalityType DEF Tables
  <2>4. QED
    BY <1>1, <2>2, <2>3
<1>5. \A r \in S : /\ Numbering(S, r) \in Row /\ Numbering(S, r).source = r.source
                   /\ Numbering(S, r).target = r.target /\ Numbering(S, r).ssense = r.ssense
                   /\ Numbering(S, r).tsense = r.tsense /\ Numbering(S, r).prov = r.prov
                   /\ Numbering(S, r).dir = r.dir
  <2> SUFFICES ASSUME NEW r \in S
               PROVE  /\ Numbering(S, r) \in Row /\ Numbering(S, r).source = r.source
                      /\ Numbering(S, r).target = r.target /\ Numbering(S, r).ssense = r.ssense
                      /\ Numbering(S, r).tsense = r.tsense /\ Numbering(S, r).prov = r.prov
                      /\ Numbering(S, r).dir = r.dir
    OBVIOUS
  <2>1. r \in Row
    BY <1>1
  <2>2. Numbering(S, r) \in Row
    BY <1>1, <2>1, NumberingTyped
  <2>3. QED
    BY <2>1, <2>2 DEF Numbering, Row
<1>6. \A r \in C : r \in Row /\ r.source = q.term
  BY <1>1, <1>2, <1>3, <1>5
<1>7. ASSUME NEW r \in C, NEW x \in C, r.target = x.target, r.ssense = x.ssense,
             r.tsense = x.tsense, r.prov = x.prov, r.dir = x.dir
      PROVE  r = x
  <2>1. PICK a \in S : r = Numbering(S, a)
    BY <1>2, <1>3
  <2>2. PICK b \in S : x = Numbering(S, b)
    BY <1>2, <1>3
  <2>3. a = b
    BY <1>1, <1>5, <1>7, <2>1, <2>2
  <2>4. QED
    BY <2>1, <2>2, <2>3
<1>8. WithVariants(C) = C
  BY <1>1, <1>2, NumberedAgain
<1>9. QED
  BY <1>4, <1>6, <1>7, <1>8 DEF C

(* A prefetch that is long enough cuts nothing.                            *)
LEMMA PrefetchWhole ==
  ASSUME NEW db, Tables(db), NEW q, NEW o \in {1, 2}, Cardinality(Candidates(db, q, o)) <= Prefetch
  PROVE  RowsOf(Prefetched(db, q, o)) = Candidates(db, q, o)
<1> DEFINE C == Candidates(db, q, o)
           key == [r \in C |-> PrefetchOrder(r)]
           s == Sorted(key)
<1>1. /\ IsFiniteSet(C) /\ \A r \in C : r \in Row
      /\ \A r, x \in C : r.target = x.target /\ r.ssense = x.ssense /\ r.tsense = x.tsense
                           /\ r.prov = x.prov /\ r.dir = x.dir => r = x
  BY CandidatesTyped
<1>2. Prefetched(db, q, o) = Prefix(s, Prefetch)
  BY DEF Prefetched
<1> HIDE DEF C
<1>3. Keyed(C, key, 9)
  <2>1. \A r \in C : key[r] = PrefetchKey(r)
    BY PrefetchKeys
  <2>2. key \in [C -> Keys(9)]
    BY <1>1, <2>1, KeyTyped
  <2> HIDE DEF key
  <2>3. \A r, x \in C : key[r] = key[x] => r = x
    BY <1>1, <2>1, KeyApart
  <2>4. QED
    BY <1>1, <2>2, <2>3 DEF Keyed
<1> HIDE DEF key
<1>4. /\ s \in Seq(C) /\ Len(s) = Cardinality(C) /\ DOMAIN s = 1 .. Cardinality(C)
  BY <1>3, SortedLists
<1> HIDE DEF s
<1>5. \A i \in DOMAIN s : s[i] \in C
  BY <1>4
<1>6. \A r \in C : \E h \in DOMAIN s : s[h] = r
  BY <1>3, SortedLists DEF s
<1>7. RowsOf(s) = C
  BY <1>5, <1>6 DEF RowsOf
<1>8. Prefix(s, Prefetch) = s
  <2>1. Prefetch \in Nat /\ Len(s) <= Prefetch
    BY <1>4, QueriesAssumption DEF C
  <2>2. QED
    BY <1>4, <2>1, PrefixOf
<1>9. QED
  BY <1>2, <1>7, <1>8 DEF C

LEMMA ViewPacks ==
  ASSUME PackedInv, view # <<>>
  PROVE  /\ packs # NotYet
         /\ \A l \in DOMAIN view : \E i \in DOMAIN packs : l \in Serving(i) /\ view[l] = packs[i].content
<1>1. packs # NotYet
  BY DEF PackedInv, BuiltOnce
<1>2. PICK S \in SUBSET (DOMAIN packs) : view = Installed(S)
  BY DEF PackedInv, Served
<1>3. ASSUME NEW l \in DOMAIN view
      PROVE  \E i \in DOMAIN packs : l \in Serving(i) /\ view[l] = packs[i].content
  <2> DEFINE h == CHOOSE i \in S : l \in Serving(i)
  <2>1. \E i \in S : l \in Serving(i)
    BY <1>2, <1>3 DEF Installed
  <2>2. h \in S /\ l \in Serving(h)
    BY <2>1
  <2>3. view[l] = packs[h].content
    BY <1>2, <1>3 DEF Installed
  <2> HIDE DEF h
  <2>4. QED
    BY <2>2, <2>3
<1>4. QED
  BY <1>1, <1>3

(* No term of the corpus has more relations of a kind that is asked for,   *)
(* in one orientation, than a second hop reads.                            *)
NothingCut ==
  \A q \in Queries, t \in Corpus.terms, o \in {1, 2} :
    Cardinality(Candidates(Corpus, [q EXCEPT !.term = t, !.sense = NoSense], o)) <= Prefetch

LEMMA NoTermNoRows ==
  ASSUME NEW db, NEW q, NEW o, q.term \notin db.terms
  PROVE  Cardinality(Candidates(db, q, o)) = 0
<1>1. Hits(db, q, o) = {}
  BY DEF Hits
<1>2. WithVariants({}) = {}
  BY DEF WithVariants
<1>3. {Found(db, o, r) : r \in Hits(db, q, o)} = {}
  BY <1>1
<1>4. Candidates(db, q, o) = {}
  BY <1>2, <1>3, CandidatesAre
<1>5. QED
  BY <1>4, FS_EmptySet

LEMMA SameHops ==
  ASSUME PackedInv, packs # NotYet, Fresh, NEW i \in DOMAIN packs, NEW p, p = packs[i].content,
         NEW q, LanguageOf[q.term] \in Serving(i),
         \A o \in {1, 2} : Cardinality(Candidates(Corpus, q, o)) <= Prefetch
  PROVE  Hops(p, q, TRUE) = Hops(Corpus, q, FALSE)
<1>1. \A o \in {1, 2} : Candidates(p, q, o) = Candidates(Corpus, q, o)
  BY SameCandidates
<1>2. \A o \in {1, 2} : Prefetched(p, q, o) = Prefetched(Corpus, q, o)
  BY <1>1 DEF Prefetched
<1>3. Tables(Corpus)
  BY CorpusTables
<1>4. \A o \in {1, 2} : RowsOf(Prefetched(Corpus, q, o)) = Candidates(Corpus, q, o)
  BY <1>3, PrefetchWhole
<1>5. \A o \in {1, 2} : WithVariants(Candidates(Corpus, q, o)) = Candidates(Corpus, q, o)
  BY <1>3, CandidatesTyped
<1>6. {RowsOf(Prefetched(p, q, o)) : o \in {1, 2}} = {Candidates(Corpus, q, o) : o \in {1, 2}}
  BY <1>2, <1>4
<1>7. {WithVariants(RowsOf(Prefetched(Corpus, q, o))) : o \in {1, 2}} = {Candidates(Corpus, q, o) : o \in {1, 2}}
  BY <1>4, <1>5
<1>8. PackHops(p, q) = Oriented(UNION {Candidates(Corpus, q, o) : o \in {1, 2}})
  BY <1>6 DEF PackHops
<1>9. BatchedHops(Corpus, q) = Oriented(UNION {Candidates(Corpus, q, o) : o \in {1, 2}})
  BY <1>7 DEF BatchedHops
<1>10. QED
  BY <1>8, <1>9 DEF Hops

Whole == [l \in DOMAIN view |-> Corpus]

LEMMA HopsWhole ==
  ASSUME NothingCut, NEW q \in Queries, NEW t, NEW u, u = [q EXCEPT !.term = t, !.sense = NoSense]
  PROVE  u.term = t /\ \A o \in {1, 2} : Cardinality(Candidates(Corpus, u, o)) <= Prefetch
<1>1. u.term = t
  BY QuestionsAssumption
<1>2. CASE t \in Corpus.terms
  <2>1. \A o \in {1, 2} :
          Cardinality(Candidates(Corpus, [q EXCEPT !.term = t, !.sense = NoSense], o)) <= Prefetch
    BY <1>2 DEF NothingCut
  <2>2. QED
    BY <1>1, <2>1
<1>3. CASE t \notin Corpus.terms
  <2>1. Prefetch \in Nat /\ u.term \notin Corpus.terms
    BY <1>1, <1>3, QueriesAssumption
  <2>2. \A o \in {1, 2} : Cardinality(Candidates(Corpus, u, o)) = 0
    BY <2>1, NoTermNoRows
  <2>3. QED
    BY <1>1, <2>1, <2>2
<1>4. QED
  BY <1>2, <1>3

LEMMA SameSecondHops ==
  ASSUME PackedInv, view # <<>>, Fresh, NothingCut, NEW q \in Queries, NEW first
  PROVE  SecondHops(view, q, first, TRUE) = SecondHops(Whole, q, first, FALSE)
<1> DEFINE T == {r.target : r \in RowsOf(first)}
           U(t) == [q EXCEPT !.term = t, !.sense = NoSense]
<1>1. packs # NotYet /\ DOMAIN Whole = DOMAIN view
  BY ViewPacks DEF Whole
<1>2. ASSUME NEW t \in T, LanguageOf[t] \in DOMAIN view
      PROVE  Hops(view[LanguageOf[t]], U(t), TRUE) = Hops(Whole[LanguageOf[t]], U(t), FALSE)
  <2>1. PICK i \in DOMAIN packs :
          LanguageOf[t] \in Serving(i) /\ view[LanguageOf[t]] = packs[i].content
    BY <1>2, ViewPacks
  <2>2. Whole[LanguageOf[t]] = Corpus
    BY <1>2 DEF Whole
  <2>3. Hops(packs[i].content, U(t), TRUE) = Hops(Corpus, U(t), FALSE)
    <3>1. U(t).term = t /\ \A o \in {1, 2} : Cardinality(Candidates(Corpus, U(t), o)) <= Prefetch
      BY HopsWhole
    <3> HIDE DEF U
    <3>2. LanguageOf[U(t).term] \in Serving(i)
      BY <2>1, <3>1
    <3>3. QED
      BY <1>1, <3>1, <3>2, SameHops
  <2>4. QED
    BY <2>1, <2>2, <2>3
<1> DEFINE A(t) == IF LanguageOf[t] \in DOMAIN view
                   THEN RankOriented(Hops(view[LanguageOf[t]], U(t), TRUE), Branch) ELSE <<>>
           B(t) == IF LanguageOf[t] \in DOMAIN Whole
                   THEN RankOriented(Hops(Whole[LanguageOf[t]], U(t), FALSE), Branch) ELSE <<>>
<1>3. SecondHops(view, q, first, TRUE) = [t \in T |-> A(t)]
  BY DEF SecondHops
<1>4. SecondHops(Whole, q, first, FALSE) = [t \in T |-> B(t)]
  BY DEF SecondHops
<1>5. \A t \in T : A(t) = B(t)
  <2> HIDE DEF U, T
  <2> QED BY <1>1, <1>2
<1> HIDE DEF A, B, T
<1>6. QED
  BY <1>3, <1>4, <1>5

LEMMA SameRelations ==
  ASSUME PackedInv, view # <<>>, Fresh, NothingCut, NEW q \in Queries, LanguageOf[q.term] \in DOMAIN view,
         NEW limit, NEW transitive
  PROVE  Relations(view, q, limit, transitive, TRUE) = Relations(Whole, q, limit, transitive, FALSE)
<1> DEFINE l == LanguageOf[q.term]
           any == [q EXCEPT !.target = Any]
<1>1. PICK i \in DOMAIN packs : l \in Serving(i) /\ view[l] = packs[i].content
  BY ViewPacks
<1>2. packs # NotYet /\ Whole[l] = Corpus /\ any.term = q.term
  BY ViewPacks, QuestionsAssumption DEF Whole
<1>3. RankedRows(view[l], q, Scan) = RankedRows(Whole[l], q, Scan)
  BY <1>1, <1>2, SameRankedRows
<1>4. RankedRows(view[l], any, FrontierScan) = RankedRows(Whole[l], any, FrontierScan)
  <2>1. LanguageOf[any.term] \in Serving(i)
    BY <1>1, <1>2
  <2> HIDE DEF any, l
  <2>2. RankedRows(packs[i].content, any, FrontierScan) = RankedRows(Corpus, any, FrontierScan)
    BY <1>2, <2>1, SameRankedRows
  <2>3. QED
    BY <1>1, <1>2, <2>2
<1>5. \A found : FirstHops(view[l], q, found) = FirstHops(Whole[l], q, found)
  <2> HIDE DEF l
  <2> QED BY <1>4 DEF FirstHops
<1>6. \A first : Paths(view, q, first, TRUE) = Paths(Whole, q, first, FALSE)
  BY SameSecondHops DEF Paths
<1>7. \A found, direct : Transitive(view, q, found, direct, TRUE) = Transitive(Whole, q, found, direct, FALSE)
  BY <1>5, <1>6 DEF Transitive
<1>8. \A found, direct :
        Combine(view, q, found, direct, limit, transitive, TRUE)
          = Combine(Whole, q, found, direct, limit, transitive, FALSE)
  BY <1>7 DEF Combine
<1>9. QED
  BY <1>3, <1>8 DEF Relations

LEMMA FirstNumbers ==
  ASSUME NEW S, NEW s \in Seq(S)
  PROVE  IsFiniteSet(1 .. Len(s)) /\ Cardinality(1 .. Len(s)) = Len(s)
<1> DEFINE n == Len(s)
<1>1. n \in Nat
  OBVIOUS
<1> HIDE DEF n
<1>2. IsFiniteSet(1 .. n) /\ Cardinality(1 .. n) = IF 1 > n THEN 0 ELSE n - 1 + 1
  BY <1>1, FS_Interval
<1>3. IsFiniteSet(1 .. n) /\ Cardinality(1 .. n) = n
  BY <1>1, <1>2
<1>4. QED
  BY <1>3 DEF n

LEMMA SeqWithin ==
  ASSUME NEW S, NEW T, S \subseteq T, NEW s \in Seq(S)
  PROVE  s \in Seq(T)
<1>1. Len(s) \in Nat /\ s \in [1 .. Len(s) -> T]
  OBVIOUS
<1>2. QED
  BY <1>1

LEMMA RowsCounted ==
  ASSUME NEW S, NEW s \in Seq(S)
  PROVE  /\ RowsOf(s) \subseteq S /\ IsFiniteSet(RowsOf(s)) /\ Cardinality(RowsOf(s)) \in Nat
         /\ Cardinality(RowsOf(s)) <= Len(s)
<1>1. Len(s) \in Nat /\ DOMAIN s = 1 .. Len(s) /\ \A i \in 1 .. Len(s) : s[i] \in S
  OBVIOUS
<1>2. IsFiniteSet(1 .. Len(s)) /\ Cardinality(1 .. Len(s)) = Len(s)
  BY FirstNumbers
<1>3. RowsOf(s) = {s[i] : i \in DOMAIN s}
  BY DEF RowsOf
<1>4. IsFiniteSet(RowsOf(s)) /\ Cardinality(RowsOf(s)) <= Len(s)
  BY <1>1, <1>2, <1>3, ImageCounted
<1>5. QED
  BY <1>1, <1>3, <1>4, FS_CardinalityType

LEMMA NumbersKeyed ==
  ASSUME NEW S \in SUBSET Int, IsFiniteSet(S)
  PROVE  Keyed(S, [x \in S |-> <<x>>], 1)
<1> DEFINE key == [x \in S |-> <<x>>]
<1>1. \A x \in S : key[x] = <<x>> /\ <<x>> \in Seq(Int) /\ Len(<<x>>) = 1
  OBVIOUS
<1>2. key \in [S -> Keys(1)]
  BY <1>1 DEF Keys
<1>3. \A x, y \in S : key[x] = key[y] => x = y
  BY <1>1
<1> HIDE DEF key
<1>4. Keyed(S, key, 1)
  BY <1>2, <1>3 DEF Keyed
<1>5. QED
  BY <1>4 DEF key

(* The places of a list that are picked, in their order.                   *)
LEMMA PickOf ==
  ASSUME NEW S, NEW s \in Seq(S), NEW I \in SUBSET (DOMAIN s)
  PROVE  /\ Pick(s, I) \in Seq(S) /\ Len(Pick(s, I)) = Cardinality(I) /\ Cardinality(I) <= Len(s)
         /\ RowsOf(Pick(s, I)) = {s[i] : i \in I}
         /\ \E at : /\ \A k \in DOMAIN Pick(s, I) : at[k] \in I /\ Pick(s, I)[k] = s[at[k]]
                    /\ \A k, h \in DOMAIN Pick(s, I) : k < h => at[k] < at[h]
                    /\ \A i \in I : \E k \in DOMAIN Pick(s, I) : at[k] = i
<1> DEFINE key == [i \in I |-> <<i>>]
           at == Sorted(key)
           u == Pick(s, I)
           N == Cardinality(I)
<1>1. /\ Len(s) \in Nat /\ DOMAIN s = 1 .. Len(s) /\ \A i \in 1 .. Len(s) : s[i] \in S
  OBVIOUS
<1>2. I \in SUBSET Int /\ IsFiniteSet(I) /\ N <= Len(s)
  <2>1. I \in SUBSET (1 .. Len(s)) /\ 1 .. Len(s) \in SUBSET Int
    BY <1>1
  <2>2. IsFiniteSet(1 .. Len(s)) /\ Cardinality(1 .. Len(s)) = Len(s)
    BY FirstNumbers
  <2>3. QED
    BY <2>1, <2>2, FS_Subset
<1>3. Keyed(I, key, 1)
  BY <1>2, NumbersKeyed
<1>4. u = [k \in DOMAIN at |-> s[at[k]]]
  BY DEF Pick
<1>5. \A i, j \in I : Before(key[i], key[j]) => i < j
  <2> SUFFICES ASSUME NEW i \in I, NEW j \in I, Before(key[i], key[j]) PROVE i < j
    OBVIOUS
  <2>1. Before(<<i>>, <<j>>)
    OBVIOUS
  <2>2. QED
    BY <2>1 DEF Before
<1> HIDE DEF key
<1>6. /\ N \in Nat /\ DOMAIN at = 1 .. N /\ \A k \in 1 .. N : at[k] \in I
      /\ \A i \in I : \E k \in 1 .. N : at[k] = i
      /\ \A k, h \in 1 .. N : k < h => Before(key[at[k]], key[at[h]])
  BY <1>3, SortedLists
<1> HIDE DEF at, u, N
<1>7. /\ DOMAIN u = 1 .. N /\ \A k \in 1 .. N : u[k] = s[at[k]] /\ u[k] \in S
  BY <1>1, <1>4, <1>6
<1>8. u \in Seq(S) /\ Len(u) = N
  <2>1. u \in [1 .. N -> S]
    BY <1>4, <1>6, <1>7
  <2>2. QED
    BY <1>6, <2>1
<1>9. RowsOf(u) = {s[i] : i \in I}
  BY <1>6, <1>7 DEF RowsOf
<1>10. /\ \A k \in DOMAIN u : at[k] \in I /\ u[k] = s[at[k]]
       /\ \A k, h \in DOMAIN u : k < h => at[k] < at[h]
       /\ \A i \in I : \E k \in DOMAIN u : at[k] = i
  BY <1>5, <1>6, <1>7
<1>11. \E f : /\ \A k \in DOMAIN u : f[k] \in I /\ u[k] = s[f[k]]
              /\ \A k, h \in DOMAIN u : k < h => f[k] < f[h]
              /\ \A i \in I : \E k \in DOMAIN u : f[k] = i
  BY <1>10
<1>12. QED
  BY <1>2, <1>8, <1>9, <1>11 DEF u, N

LEMMA SenseRowsOf ==
  ASSUME NEW db, Tables(db), db.senses \subseteq Nat, NEW q, NEW n \in Nat
  PROVE  SenseRows(db, q, n) \in Seq(SensesOf(db, q.term)) /\ Len(SenseRows(db, q, n)) <= n
<1> DEFINE S == {x \in SensesOf(db, q.term) : q.term \in db.terms /\ q.sense \in {NoSense, x}}
           s == Sorted([x \in S |-> <<x>>])
<1>1. S \in SUBSET Int /\ IsFiniteSet(S) /\ S \subseteq SensesOf(db, q.term)
  <2>1. S \in SUBSET db.senses
    BY DEF SensesOf
  <2>2. IsFiniteSet(S)
    BY <2>1, FS_Subset DEF Tables
  <2>3. QED
    BY <2>1, <2>2
<1>2. SenseRows(db, q, n) = Prefix(s, n)
  BY DEF SenseRows
<1> HIDE DEF S
<1>3. s \in Seq(S)
  BY <1>1, NumbersKeyed, SortedLists
<1> HIDE DEF s
<1>4. /\ Prefix(s, n) \in Seq(S) /\ Len(s) \in Nat
      /\ Len(Prefix(s, n)) = IF n < Len(s) THEN n ELSE Len(s)
  BY <1>3, PrefixOf
<1>5. Len(Prefix(s, n)) <= n
  BY <1>4
<1>6. Prefix(s, n) \in Seq(SensesOf(db, q.term))
  BY <1>1, <1>4, SeqWithin
<1>7. QED
  BY <1>2, <1>5, <1>6

LEMMA PackTables ==
  ASSUME PackedInv, packs # NotYet, NEW i \in DOMAIN packs
  PROVE  Tables(packs[i].content) /\ packs[i].content.senses \subseteq Nat
<1> SUFFICES ASSUME NEW p, p = packs[i].content PROVE Tables(p) /\ p.senses \subseteq Nat
  OBVIOUS
<1>1. p = LexicalPack(Corpus, counts, Serving(i)) /\ CountsTyped /\ RowsKnown
  BY BuiltPack DEF PackedInv
<1>2. p \in PackContent
  BY <1>1, PackTyped
<1>3. p.relations \subseteq Relation /\ p.senses \subseteq Nat
  BY <1>2, ContentsAssumption DEF PackContent
<1>4. \A t \in DOMAIN p.stubs : p.stubs[t] \in [entries : Nat, senses : Nat]
  BY <1>2 DEF PackContent
<1>5. /\ p.relations \subseteq Corpus.relations /\ p.entries \subseteq Corpus.entries
      /\ p.senses \subseteq Corpus.senses
  BY NoRowsAdded
<1>6. IsFiniteSet(p.relations) /\ IsFiniteSet(p.entries) /\ IsFiniteSet(p.senses)
  BY <1>1, <1>5, CorpusTyped, FS_Subset
<1>7. QED
  BY <1>3, <1>4, <1>6 DEF Tables

LEMMA SameSenseRows ==
  ASSUME PackedInv, packs # NotYet, Fresh, NEW i \in DOMAIN packs, NEW p, p = packs[i].content,
         NEW q, q.term \in p.terms, NEW n \in Nat
  PROVE  /\ SenseRows(p, q, n) = SenseRows(Corpus, q, n)
         /\ SenseRows(p, q, n) \in Seq(SensesOf(p, q.term)) /\ Len(SenseRows(p, q, n)) <= n
<1>1. SensesOf(p, q.term) = SensesOf(Corpus, q.term)
  BY SameSenses
<1>2. q.term \in Corpus.terms
  BY NoRowsAdded
<1>3. {x \in SensesOf(p, q.term) : q.term \in p.terms /\ q.sense \in {NoSense, x}}
        = {x \in SensesOf(Corpus, q.term) : q.term \in Corpus.terms /\ q.sense \in {NoSense, x}}
  BY <1>1, <1>2
<1>4. SenseRows(p, q, n) = SenseRows(Corpus, q, n)
  BY <1>3 DEF SenseRows
<1>5. Tables(p) /\ p.senses \subseteq Nat
  BY PackTables
<1>6. QED
  BY <1>4, <1>5, SenseRowsOf

(* What belongs to a sense of a pack is what belongs to it in the corpus.  *)
SameOfSense(p, s) ==
  /\ \A target, n : TranslationRows(p, s, target, n) = TranslationRows(Corpus, s, target, n)
  /\ \A n : SynonymRows(p, s, n) = SynonymRows(Corpus, s, n)
  /\ Coverage(p, s) = Coverage(Corpus, s)

LEMMA SameRowsOfSense ==
  ASSUME PackedInv, packs # NotYet, Fresh, NEW i \in DOMAIN packs, NEW p, p = packs[i].content,
         NEW t, NEW s \in SensesOf(p, t)
  PROVE  SameOfSense(p, s)
<1>1. s \in p.senses
  BY DEF SensesOf
<1>2. Closed(p) /\ Holds(p, Corpus, TermCounts(Corpus), Serving(i))
  BY FreshPack
<1>3. /\ p.translations = {r \in Corpus.translations : r.sense \in p.senses}
      /\ p.synonyms = {r \in Corpus.synonyms : r.sense \in p.senses}
  BY <1>2 DEF Holds
<1>4. /\ \A r \in p.synonyms : r.target \in p.terms
      /\ \A r \in Corpus.synonyms : r.target \in Corpus.terms
  BY <1>2, CorpusClosed DEF Closed
<1>5. ASSUME NEW target
      PROVE  {r \in p.translations : r.sense = s /\ target \in {Any, LanguageOf[r.target]}}
               = {r \in Corpus.translations : r.sense = s /\ target \in {Any, LanguageOf[r.target]}}
  BY <1>1, <1>3
<1>6. {r \in p.synonyms : r.sense = s /\ r.target \in p.terms}
        = {r \in Corpus.synonyms : r.sense = s /\ r.target \in Corpus.terms}
  BY <1>1, <1>3, <1>4
<1>7. {r \in p.translations : r.sense = s} = {r \in Corpus.translations : r.sense = s}
  BY <1>1, <1>3
<1>8. ASSUME NEW target, NEW n
      PROVE  TranslationRows(p, s, target, n) = TranslationRows(Corpus, s, target, n)
  BY <1>5 DEF TranslationRows
<1>9. ASSUME NEW n PROVE SynonymRows(p, s, n) = SynonymRows(Corpus, s, n)
  BY <1>6 DEF SynonymRows
<1>10. Coverage(p, s) = Coverage(Corpus, s)
  BY <1>7 DEF Coverage
<1>11. QED
  BY <1>8, <1>9, <1>10 DEF SameOfSense

LEMMA SameTranslate ==
  ASSUME PackedInv, packs # NotYet, Fresh, NEW i \in DOMAIN packs, NEW p, p = packs[i].content,
         NEW q, q.term \in p.terms, NEW limit
  PROVE  Translate(p, q, limit) = Translate(Corpus, q, limit)
<1> DEFINE z == SenseRows(p, q, MostSenses)
<1>1. SenseRows(Corpus, q, MostSenses) = z /\ z \in Seq(SensesOf(p, q.term))
  BY SameSenseRows, DictionaryAssumption
<1> HIDE DEF z
<1>2. \A k \in DOMAIN z : z[k] \in SensesOf(p, q.term)
  BY <1>1
<1>3. \A k \in DOMAIN z :
        TranslationRows(p, z[k], q.target, limit) = TranslationRows(Corpus, z[k], q.target, limit)
  <2>1. \A k \in DOMAIN z : SameOfSense(p, z[k])
    BY <1>2, SameRowsOfSense
  <2>2. QED
    BY <2>1 DEF SameOfSense
<1>4. [k \in DOMAIN z |-> Distinct(Targets(TranslationRows(p, z[k], q.target, limit)))]
        = [k \in DOMAIN z |-> Distinct(Targets(TranslationRows(Corpus, z[k], q.target, limit)))]
  BY <1>3
<1>5. QED
  BY <1>1, <1>4 DEF Translate, z

LEMMA SameSynonyms ==
  ASSUME PackedInv, packs # NotYet, Fresh, NEW i \in DOMAIN packs, NEW p, p = packs[i].content,
         NEW q, q.term \in p.terms, LanguageOf[q.term] \in Serving(i), NEW limit, NEW unsensed
  PROVE  Synonyms(p, q, limit, unsensed) = Synonyms(Corpus, q, limit, unsensed)
<1> DEFINE z == SenseRows(p, q, MostSenses)
<1>1. SenseRows(Corpus, q, MostSenses) = z /\ z \in Seq(SensesOf(p, q.term))
  BY SameSenseRows, DictionaryAssumption
<1> HIDE DEF z
<1>2. \A k \in DOMAIN z : z[k] \in SensesOf(p, q.term)
  BY <1>1
<1>3. \A k \in DOMAIN z : SynonymRows(p, z[k], MostSenses) = SynonymRows(Corpus, z[k], MostSenses)
  <2>1. \A k \in DOMAIN z : SameOfSense(p, z[k])
    BY <1>2, SameRowsOfSense
  <2>2. QED
    BY <2>1 DEF SameOfSense
<1>4. SensedSynonyms(p, q, z) = SensedSynonyms(Corpus, q, z)
  BY <1>3 DEF SensedSynonyms
<1>5. \A support : RelationSynonyms(p, q.term, support) = RelationSynonyms(Corpus, q.term, support)
  <2> DEFINE u == [term |-> q.term, code |-> Synonym, target |-> LanguageOf[q.term], sense |-> NoSense]
  <2>1. LanguageOf[u.term] \in Serving(i)
    OBVIOUS
  <2> HIDE DEF u
  <2>2. RankedRows(p, u, Scan) = RankedRows(Corpus, u, Scan)
    BY <2>1, SameRankedRows
  <2>3. QED
    BY <2>2 DEF RelationSynonyms, u
<1>6. QED
  BY <1>1, <1>4, <1>5 DEF Synonyms, z

LEMMA CoverageCounts ==
  ASSUME NEW db, IsFiniteSet(db.translations), NEW s
  PROVE  Coverage(db, s)[1] \in Nat /\ Coverage(db, s)[2] \in Nat
<1> DEFINE R == {r \in db.translations : r.sense = s}
           f == [r \in R |-> LanguageOf[r.target]]
           L == {LanguageOf[r.target] : r \in R}
<1>1. IsFiniteSet(R)
  <2>1. R \in SUBSET db.translations
    OBVIOUS
  <2>2. QED
    BY <2>1, FS_Subset
<1>2. L = {f[r] : r \in R} /\ DOMAIN f = R
  OBVIOUS
<1>3. Coverage(db, s) = <<Cardinality(L), Cardinality(R)>>
  BY DEF Coverage
<1> HIDE DEF R, f, L
<1>4. IsFiniteSet(L)
  BY <1>1, <1>2, ImageCounted
<1>5. Cardinality(L) \in Nat /\ Cardinality(R) \in Nat
  BY <1>1, <1>4, FS_CardinalityType
<1>6. QED
  BY <1>3, <1>5

(* The senses that are looked up first are as many as are reserved.        *)
MostFirst(I, a, b) == [i \in I |-> <<-a[i], -b[i], i>>]

ReservedOnes(R, I, a, b, n) == R = RowsOf(Prefix(Sorted(MostFirst(I, a, b)), n))

LEMMA ReservedOf ==
  ASSUME NEW I \in SUBSET Nat, IsFiniteSet(I), NEW a, NEW b, NEW n \in Nat,
         \A i \in I : a[i] \in Nat /\ b[i] \in Nat,
         NEW R, ReservedOnes(R, I, a, b, n)
  PROVE  R \subseteq I /\ Cardinality(R) \in Nat /\ Cardinality(R) <= n
<1> DEFINE key == [i \in I |-> <<-a[i], -b[i], i>>]
           s == Sorted(key)
<1>0. R = RowsOf(Prefix(s, n))
  BY DEF MostFirst, ReservedOnes
<1>1. Keyed(I, key, 3)
  <2>1. \A i \in I : key[i] = <<-a[i], -b[i], i>>
    OBVIOUS
  <2>2. \A i \in I : -a[i] \in Int /\ -b[i] \in Int /\ i \in Int
    OBVIOUS
  <2>3. DOMAIN key = I /\ key = [i \in I |-> key[i]]
    OBVIOUS
  <2> HIDE DEF key
  <2>4. \A i \in I : key[i] \in Seq(Int) /\ Len(key[i]) = 3 /\ key[i][3] = i
    <3> SUFFICES ASSUME NEW i \in I
                 PROVE  key[i] \in Seq(Int) /\ Len(key[i]) = 3 /\ key[i][3] = i
      OBVIOUS
    <3> DEFINE u == -a[i]
               v == -b[i]
    <3>1. key[i] = <<u, v, i>> /\ u \in Int /\ v \in Int /\ i \in Int
      BY <2>1, <2>2
    <3> HIDE DEF u, v
    <3>2. QED
      BY <3>1
  <2>5. \A i \in I : key[i] \in Keys(3)
    BY <2>4 DEF Keys
  <2>6. key \in [I -> Keys(3)]
    BY <2>3, <2>5
  <2>7. \A x, y \in I : key[x] = key[y] => x = y
    BY <2>4
  <2>8. QED
    BY <2>6, <2>7 DEF Keyed
<1> HIDE DEF key
<1>2. s \in Seq(I)
  BY <1>1, SortedLists
<1> HIDE DEF s
<1>3. /\ Prefix(s, n) \in Seq(I) /\ Len(s) \in Nat
      /\ Len(Prefix(s, n)) = IF n < Len(s) THEN n ELSE Len(s)
  BY <1>2, PrefixOf
<1>4. /\ R \subseteq I /\ Cardinality(R) \in Nat /\ Cardinality(R) <= Len(Prefix(s, n))
  BY <1>0, <1>3, RowsCounted
<1>5. Cardinality(R) <= n
  BY <1>3, <1>4
<1>6. QED
  BY <1>4, <1>5

LEMMA ReserveWithin ==
  ASSUME NEW limit \in Nat
  PROVE  Reserve(limit) \in Nat /\ Reserve(limit) <= limit
<1>1. limit \div 4 \in Nat /\ limit \div 4 <= limit
  OBVIOUS
<1>2. QED
  BY <1>1 DEF Reserve

(* The others are the first of those that are left. *)
LEMMA OthersOf ==
  ASSUME NEW I \in SUBSET Nat, IsFiniteSet(I), NEW n \in Nat
  PROVE  RowsOf(Prefix(Sorted([i \in I |-> <<i>>]), n)) \subseteq I
<1> DEFINE s == Sorted([i \in I |-> <<i>>])
<1>1. I \in SUBSET Int
  OBVIOUS
<1>2. s \in Seq(I)
  BY <1>1, NumbersKeyed, SortedLists
<1> HIDE DEF s
<1>3. Prefix(s, n) \in Seq(I)
  BY <1>2, PrefixOf
<1>4. RowsOf(Prefix(s, n)) \subseteq I
  BY <1>3, RowsCounted
<1>5. QED
  BY <1>4 DEF s

LEMMA LookupSensesOf ==
  ASSUME NEW db, IsFiniteSet(db.translations), NEW q, NEW limit \in Nat, NEW preferred, NEW S,
         \A n \in Nat : SenseRows(db, q, n) \in Seq(S)
  PROVE  LookupSenses(db, q, limit, preferred) \in Seq(S)
<1> DEFINE z == SenseRows(db, q, IF preferred THEN MostSenses ELSE limit)
<1>0. z \in Seq(S) /\ Len(z) \in Nat /\ DOMAIN z = 1 .. Len(z)
  BY DictionaryAssumption
<1> DEFINE I == {i \in DOMAIN z : Coverage(db, z[i])[2] > 0}
           a == [i \in I |-> Coverage(db, z[i])[1]]
           b == [i \in I |-> Coverage(db, z[i])[2]]
           reserved == RowsOf(Prefix(Sorted([i \in I |->
                    <<-Coverage(db, z[i])[1], -Coverage(db, z[i])[2], i>>]), Reserve(limit)))
           others == Prefix(Sorted([i \in DOMAIN z \ reserved |-> <<i>>]),
                       limit - Cardinality(reserved))
<1>2. LookupSenses(db, q, limit, preferred) =
        IF Len(z) <= limit \/ ~preferred THEN Prefix(z, limit)
        ELSE Pick(z, reserved \cup RowsOf(others))
  BY DEF LookupSenses
<1> HIDE DEF z
<1>3. IsFiniteSet(DOMAIN z)
  BY <1>0, FirstNumbers
<1>4. reserved \subseteq I /\ Cardinality(reserved) \in Nat /\ Cardinality(reserved) <= limit
  <2>1. \A i \in I : a[i] = Coverage(db, z[i])[1] /\ b[i] = Coverage(db, z[i])[2]
    OBVIOUS
  <2>2. reserved = RowsOf(Prefix(Sorted(MostFirst(I, a, b)), Reserve(limit)))
    BY <2>1 DEF MostFirst
  <2>3. \A i \in I : a[i] \in Nat /\ b[i] \in Nat
    BY <2>1, CoverageCounts
  <2>4. I \in SUBSET (DOMAIN z)
    OBVIOUS
  <2> HIDE DEF I, a, b, reserved, others
  <2>4a. I \in SUBSET Nat
    BY <1>0, <2>4
  <2>5. IsFiniteSet(I)
    BY <1>3, <2>4, FS_Subset
  <2>6. Reserve(limit) \in Nat /\ Reserve(limit) <= limit
    BY ReserveWithin
  <2>7. reserved \subseteq I /\ Cardinality(reserved) \in Nat /\ Cardinality(reserved) <= Reserve(limit)
    <3> DEFINE n == Reserve(limit)
    <3>1. n \in Nat /\ ReservedOnes(reserved, I, a, b, n)
      BY <2>2, <2>6 DEF ReservedOnes
    <3> HIDE DEF n
    <3>2. reserved \subseteq I /\ Cardinality(reserved) \in Nat /\ Cardinality(reserved) <= n
      BY <2>3, <2>4a, <2>5, <3>1, ReservedOf
    <3>3. QED
      BY <3>2 DEF n
  <2>8. QED
    <3> DEFINE n == Reserve(limit)
               m == Cardinality(reserved)
    <3>1. n \in Nat /\ n <= limit /\ m \in Nat /\ m <= n
      BY <2>6, <2>7
    <3> HIDE DEF n, m
    <3>2. m <= limit
      BY <3>1
    <3>3. QED
      BY <2>7, <3>1, <3>2 DEF m
<1>5. reserved \subseteq DOMAIN z
  BY <1>4
<1> HIDE DEF I, reserved
<1>6. RowsOf(others) \subseteq DOMAIN z \ reserved
  <2> DEFINE c == Cardinality(reserved)
  <2>0. c \in Nat /\ c <= limit
    BY <1>4
  <2> HIDE DEF c
  <2>1. limit - c \in Nat
    BY <2>0
  <2>1a. DOMAIN z \in SUBSET Nat
    BY <1>0
  <2>1b. DOMAIN z \ reserved \in SUBSET Nat
    BY <2>1a
  <2>2. DOMAIN z \ reserved \in SUBSET (DOMAIN z)
    OBVIOUS
  <2>3. IsFiniteSet(DOMAIN z \ reserved)
    BY <1>3, <2>2, FS_Subset
  <2>4. QED
    BY <2>1, <2>1b, <2>3, OthersOf DEF c
<1> HIDE DEF others
<1>7. Prefix(z, limit) \in Seq(S)
  BY <1>0, PrefixOf
<1>8. Pick(z, reserved \cup RowsOf(others)) \in Seq(S)
  <2>1. reserved \cup RowsOf(others) \in SUBSET (DOMAIN z)
    BY <1>5, <1>6
  <2>2. QED
    BY <1>0, <2>1, PickOf
<1>9. QED
  BY <1>2, <1>7, <1>8

LEMMA SameLookup ==
  ASSUME PackedInv, packs # NotYet, Fresh, NEW i \in DOMAIN packs, NEW p, p = packs[i].content,
         NEW q, q.term \in p.terms, NEW limit \in Nat, NEW budget
  PROVE  Lookup(p, q, limit, budget) = Lookup(Corpus, q, limit, budget)
<1> DEFINE T == SensesOf(p, q.term)
           preferred == budget > 0
           n == IF preferred THEN MostSenses ELSE limit
           z == SenseRows(p, q, n)
<1>1. \A m \in Nat : SenseRows(Corpus, q, m) = SenseRows(p, q, m) /\ SenseRows(p, q, m) \in Seq(T)
  BY SameSenseRows
<1>2. n \in Nat
  BY DictionaryAssumption
<1>3. SenseRows(Corpus, q, n) = z /\ z \in Seq(T)
  BY <1>1, <1>2
<1> HIDE DEF z, n
<1>4. \A k \in DOMAIN z : z[k] \in T
  BY <1>3
<1>5. \A k \in DOMAIN z : SameOfSense(p, z[k])
  BY <1>4, SameRowsOfSense
<1>6. \A k \in DOMAIN z : Coverage(p, z[k]) = Coverage(Corpus, z[k])
  BY <1>5 DEF SameOfSense
<1> DEFINE senses == LookupSenses(p, q, limit, preferred)
<1>7. LookupSenses(Corpus, q, limit, preferred) = senses
  <2> DEFINE I == {k \in DOMAIN z : Coverage(p, z[k])[2] > 0}
             J == {k \in DOMAIN z : Coverage(Corpus, z[k])[2] > 0}
             f == [k \in I |-> <<-Coverage(p, z[k])[1], -Coverage(p, z[k])[2], k>>]
             g == [k \in J |-> <<-Coverage(Corpus, z[k])[1], -Coverage(Corpus, z[k])[2], k>>]
             R(key) == RowsOf(Prefix(Sorted(key), Reserve(limit)))
             O(S) == Prefix(Sorted([k \in DOMAIN z \ S |-> <<k>>]), limit - Cardinality(S))
             L(S) == IF Len(z) <= limit \/ ~preferred THEN Prefix(z, limit)
                     ELSE Pick(z, S \cup RowsOf(O(S)))
  <2>1. I = J
    BY <1>6
  <2>2. f = g
    BY <1>6, <2>1
  <2>3. LookupSenses(p, q, limit, preferred) = L(R(f))
    BY DEF LookupSenses, z, n
  <2>4. LookupSenses(Corpus, q, limit, preferred) = L(R(g))
    <3>1. SenseRows(Corpus, q, IF preferred THEN MostSenses ELSE limit) = z
      BY <1>3 DEF n
    <3> HIDE DEF z, n, preferred
    <3>2. QED
      BY <3>1 DEF LookupSenses
  <2> HIDE DEF f, g, R, L
  <2>5. QED
    BY <2>2, <2>3, <2>4
<1>8. senses \in Seq(T)
  <2>1. \A m \in Nat : SenseRows(Corpus, q, m) \in Seq(T)
    BY <1>1
  <2>2. IsFiniteSet(Corpus.translations)
    BY CorpusTyped DEF PackedInv
  <2> HIDE DEF T, preferred
  <2>3. QED
    BY <1>7, <2>1, <2>2, LookupSensesOf
<1> HIDE DEF senses
<1>9. \A k \in DOMAIN senses : senses[k] \in T
  BY <1>8
<1>10. \A k \in DOMAIN senses : SameOfSense(p, senses[k])
  BY <1>9, SameRowsOfSense
<1>11. [k \in DOMAIN senses |-> TranslationRows(p, senses[k], Any, ReadAhead(budget))]
         = [k \in DOMAIN senses |-> TranslationRows(Corpus, senses[k], Any, ReadAhead(budget))]
  BY <1>10 DEF SameOfSense
<1>12. QED
  BY <1>7, <1>11 DEF Lookup, senses

LEMMA AnswerIs ==
  ASSUME NEW v, NEW q \in Queries, NEW limits, NEW packed, LanguageOf[q.term] \in DOMAIN v
  PROVE  \/ q.op = "relations" /\ Answer(v, q, limits, packed) = Relations(v, q, limits[1], limits[2], packed)
         \/ q.op = "lookup" /\ Answer(v, q, limits, packed) = Lookup(v[LanguageOf[q.term]], q, limits[1], limits[2])
         \/ q.op = "translate" /\ Answer(v, q, limits, packed) = Translate(v[LanguageOf[q.term]], q, limits[1])
         \/ q.op = "synonyms" /\ Answer(v, q, limits, packed) = Synonyms(v[LanguageOf[q.term]], q, limits[1], limits[2])
<1>1. q.op \in {"relations", "lookup", "translate", "synonyms"}
  BY QuestionsAssumption
<1>2. CASE q.op = "relations"
  BY <1>2 DEF Answer
<1>3. CASE q.op = "lookup"
  BY <1>3 DEF Answer
<1>4. CASE q.op = "translate"
  BY <1>4 DEF Answer
<1>5. CASE q.op = "synonyms"
  BY <1>5 DEF Answer
<1>6. QED
  BY <1>1, <1>2, <1>3, <1>4, <1>5

LEMMA AnsweredAlike ==
  ASSUME PackedInv, view # <<>>, Fresh, NothingCut,
         NEW q \in Queries, NEW limits \in Limits, q.term \in Corpus.terms
  PROVE  Answer(view, q, limits, TRUE) = Answer(Whole, q, limits, FALSE)
<1> DEFINE l == LanguageOf[q.term]
<1>1. DOMAIN Whole = DOMAIN view
  BY DEF Whole
<1>2. CASE l \notin DOMAIN view
  BY <1>1, <1>2 DEF Answer
<1>3. CASE l \in DOMAIN view
  <2>1. PICK i \in DOMAIN packs : l \in Serving(i) /\ view[l] = packs[i].content
    BY <1>3, ViewPacks
  <2>2. PICK p : p = packs[i].content
    OBVIOUS
  <2>3. packs # NotYet /\ view[l] = p /\ Whole[l] = Corpus /\ l \in DOMAIN Whole
    BY <1>1, <1>3, <2>1, <2>2, ViewPacks DEF Whole
  <2>4. q.term \in p.terms
    BY <2>1, <2>2, <2>3, TermServed
  <2>5. limits[1] \in Nat
    BY QuestionsAssumption
  <2>6. CASE q.op = "relations"
    <3>1. /\ Answer(view, q, limits, TRUE) = Relations(view, q, limits[1], limits[2], TRUE)
          /\ Answer(Whole, q, limits, FALSE) = Relations(Whole, q, limits[1], limits[2], FALSE)
      BY <1>3, <2>3, <2>6, AnswerIs
    <3>2. QED
      BY <1>3, <3>1, SameRelations
  <2>7. CASE q.op = "lookup"
    <3>1. /\ Answer(view, q, limits, TRUE) = Lookup(p, q, limits[1], limits[2])
          /\ Answer(Whole, q, limits, FALSE) = Lookup(Corpus, q, limits[1], limits[2])
      BY <1>3, <2>3, <2>7, AnswerIs
    <3>2. Lookup(p, q, limits[1], limits[2]) = Lookup(Corpus, q, limits[1], limits[2])
      BY <2>2, <2>3, <2>4, <2>5, SameLookup
    <3>3. QED
      BY <3>1, <3>2
  <2>8. CASE q.op = "translate"
    <3>1. /\ Answer(view, q, limits, TRUE) = Translate(p, q, limits[1])
          /\ Answer(Whole, q, limits, FALSE) = Translate(Corpus, q, limits[1])
      BY <1>3, <2>3, <2>8, AnswerIs
    <3>2. Translate(p, q, limits[1]) = Translate(Corpus, q, limits[1])
      BY <2>2, <2>3, <2>4, SameTranslate
    <3>3. QED
      BY <3>1, <3>2
  <2>9. CASE q.op = "synonyms"
    <3>1. /\ Answer(view, q, limits, TRUE) = Synonyms(p, q, limits[1], limits[2])
          /\ Answer(Whole, q, limits, FALSE) = Synonyms(Corpus, q, limits[1], limits[2])
      BY <1>3, <2>3, <2>9, AnswerIs
    <3>2. Synonyms(p, q, limits[1], limits[2]) = Synonyms(Corpus, q, limits[1], limits[2])
      BY <2>1, <2>2, <2>3, <2>4, SameSynonyms
    <3>3. QED
      BY <3>1, <3>2
  <2>10. q.op \in {"relations", "lookup", "translate", "synonyms"}
    BY QuestionsAssumption
  <2>11. QED
    BY <2>6, <2>7, <2>8, <2>9, <2>10
<1>4. QED
  BY <1>2, <1>3

LEMMA RepliedAlike == PackedInv /\ NothingCut => SameAnswer
<1> SUFFICES ASSUME PackedInv, NothingCut, asked # NotYet, Fresh
             PROVE  asked.answer = Answer(Whole, asked.q, asked.limits, FALSE)
  BY DEF SameAnswer, Whole
<1>1. PICK q \in Queries, limits \in Limits :
        /\ q.term \in Corpus.terms
        /\ asked = [q |-> q, limits |-> limits, answer |-> Answer(view, q, limits, TRUE)]
  BY DEF PackedInv, Replied
<1>2. view # <<>>
  BY DEF PackedInv, Replied
<1>3. Answer(view, q, limits, TRUE) = Answer(Whole, q, limits, FALSE)
  BY <1>1, <1>2, AnsweredAlike
<1>4. asked.q = q /\ asked.limits = limits /\ asked.answer = Answer(view, q, limits, TRUE)
  BY <1>1
<1>5. QED
  BY <1>3, <1>4

(* Packs answer relations, lookups, translations and synonyms as the one   *)
(* corpus would for the languages that are installed (pack_queries.py), as *)
(* long as no second hop has more rows than are prefetched: beyond that    *)
(* the two number the variants of a target from different rows.            *)
THEOREM PacksAnswerAsCorpus == PackedSpec => [](NothingCut => SameAnswer)
<1>1. PackedInv => (NothingCut => SameAnswer)
  BY RepliedAlike
<1>2. QED
  BY <1>1, PackedKept, PTL

-----------------------------------------------------------------------------
(* A list of the members of a set, each of them once.                      *)
Lists(S, s) ==
  /\ s \in Seq(S)
  /\ \A x \in S : \E i \in DOMAIN s : s[i] = x
  /\ \A i, j \in DOMAIN s : s[i] = s[j] => i = j

LEMMA SortedIsList ==
  ASSUME NEW S, NEW key, NEW n, Keyed(S, key, n)
  PROVE  Lists(S, Sorted(key)) /\ Len(Sorted(key)) = Cardinality(S)
<1> DEFINE s == Sorted(key)
           N == Cardinality(S)
<1>1. /\ s \in Seq(S) /\ Len(s) = N /\ DOMAIN s = 1 .. N
      /\ \A x \in S : \E i \in 1 .. N : s[i] = x
      /\ \A i, j \in 1 .. N : s[i] = s[j] => i = j
  BY SortedLists
<1> HIDE DEF s, N
<1>2. Lists(S, s) /\ Len(s) = N
  BY <1>1 DEF Lists
<1>3. QED
  BY <1>2 DEF s, N

(* Keys that are put together keep what they tell apart.                   *)
Join(k, l) == k \o l

LEMMA JoinKeys ==
  ASSUME NEW m \in Nat, NEW n \in Nat, NEW k \in Keys(m), NEW l \in Keys(n)
  PROVE  Join(k, l) \in Keys(m + n)
<1>1. k \in Seq(Int) /\ l \in Seq(Int) /\ Len(k) = m /\ Len(l) = n
  BY DEF Keys
<1>2. k \o l \in Seq(Int) /\ Len(k \o l) = m + n
  BY <1>1, JoinOf
<1>3. QED
  BY <1>2 DEF Keys, Join

Halves(m, n, k, l, c) ==
  /\ \A x \in 1 .. m : c[x] = k[x]
  /\ \A x \in 1 .. n : c[m + x] = l[x]
  /\ DOMAIN k = 1 .. m /\ DOMAIN l = 1 .. n

LEMMA JoinIs ==
  ASSUME NEW m \in Nat, NEW n \in Nat, NEW k \in Keys(m), NEW l \in Keys(n)
  PROVE  Halves(m, n, k, l, Join(k, l))
<1> DEFINE c == k \o l
<1>1. k \in Seq(Int) /\ l \in Seq(Int) /\ m = Len(k) /\ n = Len(l)
  BY DEF Keys
<1>2. /\ \A x \in 1 .. Len(k) : c[x] = k[x]
      /\ \A x \in 1 .. Len(l) : c[Len(k) + x] = l[x]
  BY <1>1, JoinOf
<1>3. c = Join(k, l)
  BY DEF Join
<1> HIDE DEF c
<1>4. Halves(m, n, k, l, c)
  BY <1>1, <1>2 DEF Halves
<1>5. QED
  BY <1>3, <1>4

Same(k, l, h, g) == k = h /\ l = g

LEMMA JoinApart ==
  ASSUME NEW m \in Nat, NEW n \in Nat, NEW k \in Keys(m), NEW l \in Keys(n),
         NEW h \in Keys(m), NEW g \in Keys(n), Join(k, l) = Join(h, g)
  PROVE  Same(k, l, h, g)
<1>1. Halves(m, n, k, l, Join(k, l)) /\ Halves(m, n, h, g, Join(k, l))
  BY JoinIs
<1>2. k \in Seq(Int) /\ l \in Seq(Int) /\ h \in Seq(Int) /\ g \in Seq(Int)
  BY DEF Keys
<1> DEFINE c == Join(k, l)
<1> HIDE DEF c
<1>3. Halves(m, n, k, l, c) /\ Halves(m, n, h, g, c)
  BY <1>1 DEF c
<1>4. /\ DOMAIN k = 1 .. m /\ DOMAIN h = 1 .. m /\ \A x \in 1 .. m : k[x] = h[x]
      /\ DOMAIN l = 1 .. n /\ DOMAIN g = 1 .. n /\ \A x \in 1 .. n : l[x] = g[x]
  BY <1>3 DEF Halves
<1>5. k = h
  BY <1>2, <1>4
<1>6. l = g
  BY <1>2, <1>4
<1>7. QED
  BY <1>5, <1>6 DEF Same

LEMMA TagKeys ==
  ASSUME NEW t \in Term
  PROVE  ByTag(t) \in Keys(2) /\ \A u \in Term : ByTag(t) = ByTag(u) => t = u
<1>1. \A u \in Term : Tag[LanguageOf[u]] \in Int /\ Spelling[u] \in Int
  BY ContentsAssumption, QueriesAssumption
<1>2. ByTag(t) \in Keys(2)
  <2> DEFINE a == Tag[LanguageOf[t]]
             b == Spelling[t]
  <2>1. a \in Int /\ b \in Int /\ ByTag(t) = <<a, b>>
    BY <1>1 DEF ByTag
  <2> HIDE DEF a, b
  <2>2. QED
    BY <2>1 DEF Keys
<1>3. ASSUME NEW u \in Term, ByTag(t) = ByTag(u) PROVE t = u
  <2>1. Tag[LanguageOf[t]] = Tag[LanguageOf[u]] /\ Spelling[t] = Spelling[u]
    BY <1>3 DEF ByTag
  <2>2. LanguageOf[t] \in Lang /\ LanguageOf[u] \in Lang
    BY ContentsAssumption
  <2>3. LanguageOf[t] = LanguageOf[u]
    BY <2>1, <2>2, EditionsAssumption
  <2>4. QED
    BY <2>1, <2>3, QueriesAssumption
<1>4. QED
  BY <1>2, <1>3

LEMMA PlaceKeys ==
  ASSUME NEW t \in Term
  PROVE  Place(t) \in Keys(3) /\ \A u \in Term : Place(t) = Place(u) => t = u
<1>1. \A u \in Term : <<Width[u]>> \in Keys(1) /\ ByTag(u) \in Keys(2)
  <2>1. \A u \in Term : Width[u] \in Int
    BY QueriesAssumption
  <2>2. \A x \in Int : <<x>> \in Keys(1)
    BY DEF Keys
  <2>3. QED
    BY <2>1, <2>2, TagKeys
<1>2. Place(t) \in Keys(3)
  <2>1. Join(<<Width[t]>>, ByTag(t)) \in Keys(1 + 2)
    BY <1>1, JoinKeys
  <2>2. QED
    BY <2>1 DEF Place, Join
<1>3. ASSUME NEW u \in Term, Place(t) = Place(u) PROVE t = u
  <2>1. Join(<<Width[t]>>, ByTag(t)) = Join(<<Width[u]>>, ByTag(u))
    BY <1>3 DEF Place, Join
  <2>2. /\ <<Width[t]>> \in Keys(1) /\ ByTag(t) \in Keys(2)
        /\ <<Width[u]>> \in Keys(1) /\ ByTag(u) \in Keys(2)
    BY <1>1
  <2>3. ByTag(t) = ByTag(u)
    <3> DEFINE a == <<Width[t]>>
               b == <<Width[u]>>
    <3> HIDE DEF a, b
    <3>1. a \in Keys(1) /\ b \in Keys(1) /\ Join(a, ByTag(t)) = Join(b, ByTag(u))
      BY <2>1, <2>2 DEF a, b
    <3>2. QED
      BY <2>2, <3>1, JoinApart, 1 \in Nat, 2 \in Nat DEF Same
  <2>4. QED
    BY <2>3, TagKeys
<1>4. QED
  BY <1>2, <1>3

LEMMA Tuples ==
  /\ \A a \in Int : <<a>> \in Keys(1)
  /\ \A a, b \in Int : <<a, b>> \in Keys(2)
  /\ \A a, b, c \in Int : <<a, b, c>> \in Keys(3)
  /\ \A a, b, c, d \in Int : <<a, b, c, d>> \in Keys(4)
BY DEF Keys

LEMMA RowNumbers ==
  ASSUME NEW r \in Row
  PROVE  /\ r.target \in Term /\ r.source \in Term
         /\ r.ssense \in Int /\ r.tsense \in Int /\ r.prov \in Int /\ r.dir \in Int
         /\ r.orient \in Int /\ r.variant \in Int /\ r.entries \in Int /\ r.senses \in Int
         /\ -r.senses \in Int /\ -r.entries \in Int
<1>1. /\ r.ssense \in Nat /\ r.tsense \in Nat /\ r.prov \in Nat /\ r.dir \in 1 .. 3
      /\ r.orient \in {1, 2} /\ r.variant \in Nat /\ r.entries \in Nat /\ r.senses \in Nat
      /\ r.target \in Term /\ r.source \in Term
  <2>1. Sense \cup {NoSense} \subseteq Nat
    BY ContentsAssumption DEF NoSense
  <2>2. QED
    BY <2>1 DEF Row
<1>2. QED
  BY <1>1

(* The order of the rows of a query: seven numbers beside the target.      *)
LEMMA RankKeys ==
  ASSUME NEW r \in Row
  PROVE  /\ RankKey(r) \in Keys(10)
         /\ \A x \in Row : RankKey(r) = RankKey(x) =>
              /\ r.variant = x.variant /\ r.target = x.target
              /\ r.ssense = x.ssense /\ r.tsense = x.tsense /\ r.dir = x.dir /\ r.prov = x.prov
<1> DEFINE A(y) == <<y.variant, -y.senses, -y.entries>>
           B(y) == <<y.ssense, y.tsense, y.dir, y.prov>>
<1>1. \A y \in Row : A(y) \in Keys(3) /\ B(y) \in Keys(4)
  BY RowNumbers, Tuples
<1>2. \A y \in Row : RankKey(y) = Join(Join(A(y), Place(y.target)), B(y))
  BY DEF RankKey, Join
<1>3. /\ \A x \in Row : A(r) = A(x) => r.variant = x.variant
      /\ \A x \in Row : B(r) = B(x) =>
           r.ssense = x.ssense /\ r.tsense = x.tsense /\ r.dir = x.dir /\ r.prov = x.prov
  OBVIOUS
<1> HIDE DEF A, B
<1>4. \A y \in Row : y.target \in Term /\ Place(y.target) \in Keys(3)
  BY RowNumbers, PlaceKeys
<1>5. \A y \in Row : Join(A(y), Place(y.target)) \in Keys(6)
  <2>1. \A y \in Row : Join(A(y), Place(y.target)) \in Keys(3 + 3)
    BY <1>1, <1>4, JoinKeys, 3 \in Nat
  <2>2. QED
    BY <2>1
<1>6. \A y \in Row : RankKey(y) \in Keys(6 + 4)
  BY <1>1, <1>2, <1>5, JoinKeys, 6 \in Nat, 4 \in Nat
<1>7. ASSUME NEW x \in Row, RankKey(r) = RankKey(x)
      PROVE  A(r) = A(x) /\ r.target = x.target /\ B(r) = B(x)
  <2> DEFINE k == Join(A(r), Place(r.target))
             h == Join(A(x), Place(x.target))
  <2>1. /\ k \in Keys(6) /\ h \in Keys(6) /\ B(r) \in Keys(4) /\ B(x) \in Keys(4)
        /\ Join(k, B(r)) = Join(h, B(x))
    BY <1>1, <1>2, <1>5, <1>7
  <2>2. k = h /\ B(r) = B(x)
    <3> HIDE DEF k, h
    <3>1. QED
      BY <2>1, JoinApart, 6 \in Nat, 4 \in Nat DEF Same
  <2>3. A(r) = A(x) /\ Place(r.target) = Place(x.target)
    <3>1. /\ A(r) \in Keys(3) /\ A(x) \in Keys(3)
          /\ Place(r.target) \in Keys(3) /\ Place(x.target) \in Keys(3)
      BY <1>1, <1>4
    <3>2. QED
      BY <2>2, <3>1, JoinApart, 3 \in Nat DEF Same
  <2>4. QED
    BY <1>4, <2>2, <2>3, PlaceKeys
<1>8. RankKey(r) \in Keys(10)
  BY <1>6
<1>9. QED
  BY <1>3, <1>7, <1>8

LEMMA QueryKeys ==
  ASSUME NEW r \in Row
  PROVE  /\ QueryOrder(r) \in Keys(9)
         /\ \A x \in Row : QueryOrder(r) = QueryOrder(x) => r.variant = x.variant /\ r.target = x.target
<1> DEFINE A(y) == <<y.variant, -y.senses, -y.entries>>
           B(y) == <<y.tsense, y.prov, y.dir>>
<1>1. \A y \in Row : A(y) \in Keys(3) /\ B(y) \in Keys(3)
  BY RowNumbers, Tuples
<1>2. \A y \in Row : QueryOrder(y) = Join(Join(A(y), Place(y.target)), B(y))
  BY DEF QueryOrder, Join
<1>3. \A x \in Row : A(r) = A(x) => r.variant = x.variant
  OBVIOUS
<1> HIDE DEF A, B
<1>4. \A y \in Row : y.target \in Term /\ Place(y.target) \in Keys(3)
  BY RowNumbers, PlaceKeys
<1>5. \A y \in Row : Join(A(y), Place(y.target)) \in Keys(6)
  <2>1. \A y \in Row : Join(A(y), Place(y.target)) \in Keys(3 + 3)
    BY <1>1, <1>4, JoinKeys, 3 \in Nat
  <2>2. QED
    BY <2>1
<1>6. \A y \in Row : QueryOrder(y) \in Keys(6 + 3)
  BY <1>1, <1>2, <1>5, JoinKeys, 6 \in Nat, 3 \in Nat
<1>7. ASSUME NEW x \in Row, QueryOrder(r) = QueryOrder(x)
      PROVE  A(r) = A(x) /\ r.target = x.target
  <2> DEFINE k == Join(A(r), Place(r.target))
             h == Join(A(x), Place(x.target))
  <2>1. /\ k \in Keys(6) /\ h \in Keys(6) /\ B(r) \in Keys(3) /\ B(x) \in Keys(3)
        /\ Join(k, B(r)) = Join(h, B(x))
    BY <1>1, <1>2, <1>5, <1>7
  <2>2. k = h
    <3> HIDE DEF k, h
    <3>1. QED
      BY <2>1, JoinApart, 6 \in Nat, 3 \in Nat DEF Same
  <2>3. A(r) = A(x) /\ Place(r.target) = Place(x.target)
    <3>1. /\ A(r) \in Keys(3) /\ A(x) \in Keys(3)
          /\ Place(r.target) \in Keys(3) /\ Place(x.target) \in Keys(3)
      BY <1>1, <1>4
    <3>2. QED
      BY <2>2, <3>1, JoinApart, 3 \in Nat DEF Same
  <2>4. QED
    BY <1>4, <2>3, PlaceKeys
<1>8. QueryOrder(r) \in Keys(9)
  BY <1>6
<1>9. QED
  BY <1>3, <1>7, <1>8

(* A row answers the question it was read for.                             *)
Meets(q, r) ==
  /\ r \in Row /\ r.source = q.term
  /\ q.target \in {Any, LanguageOf[r.target]} /\ q.sense \in {NoSense, r.ssense}

Stored(db, e, code) ==
  [source |-> e.source, ssense |-> e.ssense, code |-> code, target |-> e.target,
   tsense |-> e.tsense, dir |-> e.dir, prov |-> e.prov] \in db.relations

StoredBackwards(db, e, code, dir) ==
  [source |-> e.target, ssense |-> e.tsense, code |-> InverseCode(code), target |-> e.source,
   tsense |-> e.ssense, dir |-> dir, prov |-> e.prov] \in db.relations

Backed(db, o, e, code) == IF o = 1 THEN Stored(db, e, code) ELSE StoredBackwards(db, e, code, e.dir)

LEMMA FoundBacked ==
  ASSUME NEW db, Tables(db), NEW q, NEW o \in {1, 2}, NEW r \in FoundSet(db, q, o)
  PROVE  Meets(q, r) /\ r.orient = o /\ Backed(db, o, r, q.code)
<1>1. PICK h \in Hits(db, q, o) : r = Found(db, o, h)
  BY DEF FoundSet
<1>2. /\ h \in Facing(db, q, o) /\ h.source = q.term
      /\ q.target \in {Any, LanguageOf[h.target]} /\ q.sense \in {NoSense, h.ssense}
  BY DEF Hits
<1>3. /\ r.source = h.source /\ r.ssense = h.ssense /\ r.target = h.target /\ r.tsense = h.tsense
      /\ r.dir = h.dir /\ r.prov = h.prov /\ r.orient = o
  BY <1>1 DEF Found
<1>4. r \in Row
  BY FoundTyped
<1>5. Meets(q, r)
  BY <1>2, <1>3, <1>4 DEF Meets
<1>6. db.relations \subseteq Relation
  BY DEF Tables
<1>7. PICK x \in db.relations : /\ x.code = (IF o = 1 THEN q.code ELSE InverseCode(q.code))
                                /\ h = IF o = 1 THEN x ELSE Turned(x)
  BY <1>2, <1>6, FacingTyped
<1>8. x \in Relation
  BY <1>6
<1>9. x = [source |-> x.source, ssense |-> x.ssense, code |-> x.code, target |-> x.target,
           tsense |-> x.tsense, dir |-> x.dir, prov |-> x.prov]
  BY <1>8 DEF Relation
<1>10. CASE o = 1
  <2>1. h = x /\ x.code = q.code
    BY <1>7, <1>10
  <2>2. x = [source |-> r.source, ssense |-> r.ssense, code |-> q.code, target |-> r.target,
             tsense |-> r.tsense, dir |-> r.dir, prov |-> r.prov]
    BY <1>3, <1>9, <2>1
  <2>3. QED
    BY <1>3, <1>5, <1>10, <2>2 DEF Backed, Stored
<1>11. CASE o = 2
  <2>1. h = Turned(x) /\ x.code = InverseCode(q.code)
    BY <1>7, <1>11
  <2>2. /\ h.source = x.target /\ h.ssense = x.tsense /\ h.target = x.source /\ h.tsense = x.ssense
        /\ h.dir = x.dir /\ h.prov = x.prov
    BY <1>8, <2>1 DEF Turned, Relation
  <2>3. x = [source |-> r.target, ssense |-> r.tsense, code |-> InverseCode(q.code), target |-> r.source,
             tsense |-> r.ssense, dir |-> r.dir, prov |-> r.prov]
    BY <1>3, <1>9, <2>1, <2>2
  <2>4. QED
    BY <1>3, <1>5, <1>11, <2>3 DEF Backed, StoredBackwards
<1>12. QED
  BY <1>10, <1>11

LEMMA VariantKeys ==
  ASSUME NEW r \in Row
  PROVE  /\ VariantKey(r) \in Keys(5)
         /\ \A x \in Row : VariantKey(r) = VariantKey(x) =>
              r.ssense = x.ssense /\ r.tsense = x.tsense /\ r.prov = x.prov /\ r.dir = x.dir
<1>1. VariantKey(r) \in Keys(5)
  <2> DEFINE a == IF Unsensed(r) THEN 1 ELSE 0
  <2>1. a \in Int /\ r.ssense \in Int /\ r.tsense \in Int /\ r.prov \in Int /\ r.dir \in Int
    BY RowNumbers
  <2>2. VariantKey(r) = <<a, r.ssense, r.tsense, r.prov, r.dir>>
    BY DEF VariantKey
  <2> HIDE DEF a
  <2>3. QED
    BY <2>1, <2>2 DEF Keys
<1>2. QED
  BY <1>1 DEF VariantKey

(* The variants of a target are numbered apart. *)
LEMMA NumberedApart ==
  ASSUME NEW S, IsFiniteSet(S), S \subseteq Row,
         \A r, x \in S : r.target = x.target /\ r.ssense = x.ssense /\ r.tsense = x.tsense
                           /\ r.prov = x.prov /\ r.dir = x.dir => r = x,
         NEW r \in S, NEW x \in S, r.target = x.target,
         Cardinality(Variants(S, r)) = Cardinality(Variants(S, x))
  PROVE  r = x
<1> DEFINE T == {y \in S : y.target = r.target}
           key == [y \in T |-> VariantKey(y)]
<1>1. IsFiniteSet(T) /\ T \subseteq Row
  BY FS_Subset
<1>2. \A y \in T : key[y] = VariantKey(y) /\ key[y] \in Keys(5)
  BY <1>1, VariantKeys
<1>3. \A y, z \in T : key[y] = key[z] => y = z
  <2> SUFFICES ASSUME NEW y \in T, NEW z \in T, key[y] = key[z] PROVE y = z
    OBVIOUS
  <2>1. /\ y.ssense = z.ssense /\ y.tsense = z.tsense /\ y.prov = z.prov /\ y.dir = z.dir
    BY <1>1, <1>2, VariantKeys
  <2>2. QED
    BY <2>1
<1>4. Keyed(T, key, 5)
  <2>1. key \in [T -> Keys(5)]
    BY <1>2
  <2> HIDE DEF key, T
  <2>2. QED
    BY <1>1, <1>3, <2>1 DEF Keyed
<1>5. \A y \in T : Below(T, key, y) = Variants(S, y)
  BY <1>2 DEF Below, Variants
<1>6. r \in T /\ x \in T
  OBVIOUS
<1> HIDE DEF T, key
<1>7. \A y \in T : Cardinality(Below(T, key, y)) \in Nat
  <2>1. \A y \in T : Below(T, key, y) \in SUBSET T
    BY DEF Below
  <2>2. QED
    BY <1>1, <2>1, FS_Subset, FS_CardinalityType
<1>8. ~ Before(key[r], key[x]) /\ ~ Before(key[x], key[r])
  <2>1. Cardinality(Below(T, key, r)) = Cardinality(Below(T, key, x))
    BY <1>5, <1>6
  <2>2. \A y, z \in T : Before(key[y], key[z]) =>
          Cardinality(Below(T, key, y)) < Cardinality(Below(T, key, z))
    BY <1>4, Ranked
  <2>3. QED
    BY <1>6, <1>7, <2>1, <2>2
<1>9. key[r] = key[x]
  BY <1>2, <1>6, <1>8, BeforeOrders
<1>10. QED
  BY <1>3, <1>6, <1>9

LEMMA CandidatesBacked ==
  ASSUME NEW db, Tables(db), NEW q, NEW o \in {1, 2}
  PROVE  /\ \A r \in Candidates(db, q, o) : Meets(q, r) /\ r.orient = o /\ Backed(db, o, r, q.code)
         /\ \A r, x \in Candidates(db, q, o) : r.variant = x.variant /\ r.target = x.target => r = x
<1> DEFINE S == FoundSet(db, q, o)
           C == Candidates(db, q, o)
<1>1. /\ IsFiniteSet(S) /\ S \subseteq Row
      /\ \A r, x \in S :
              r.target = x.target /\ r.ssense = x.ssense /\ r.tsense = x.tsense
                /\ r.prov = x.prov /\ r.dir = x.dir => r = x
  BY FoundTyped
<1>2. \A r \in S : Meets(q, r) /\ r.orient = o /\ Backed(db, o, r, q.code)
  BY FoundBacked
<1>3. C = {Numbering(S, r) : r \in S}
  <2>1. C = WithVariants(S)
    BY CandidatesAre DEF FoundSet
  <2> HIDE DEF S, C
  <2>2. QED
    BY <2>1 DEF WithVariants, Numbering, Variants
<1> HIDE DEF S, C
<1>4. \A r \in S : /\ Numbering(S, r) \in Row /\ Numbering(S, r).target = r.target
                   /\ Numbering(S, r).variant = 1 + Cardinality(Variants(S, r))
                   /\ Cardinality(Variants(S, r)) \in Nat
  BY <1>1, NumberingTyped
<1>5. ASSUME NEW r \in S
      PROVE  LET c == Numbering(S, r) IN Meets(q, c) /\ c.orient = o /\ Backed(db, o, c, q.code)
  <2> DEFINE c == Numbering(S, r)
  <2>1. r \in Row /\ c \in Row
    BY <1>1, <1>4
  <2>2. /\ c.source = r.source /\ c.ssense = r.ssense /\ c.target = r.target /\ c.tsense = r.tsense
        /\ c.dir = r.dir /\ c.prov = r.prov /\ c.orient = r.orient
    BY <2>1 DEF Numbering, Row
  <2>3. Meets(q, r) /\ r.orient = o /\ Backed(db, o, r, q.code)
    BY <1>2
  <2> HIDE DEF c
  <2>4. Meets(q, c)
    BY <2>1, <2>2, <2>3 DEF Meets
  <2>5. Backed(db, o, c, q.code)
    BY <2>2, <2>3 DEF Backed, Stored, StoredBackwards
  <2>6. QED
    BY <2>2, <2>3, <2>4, <2>5 DEF c
<1>6. \A c \in C : Meets(q, c) /\ c.orient = o /\ Backed(db, o, c, q.code)
  BY <1>3, <1>5
<1>7. ASSUME NEW r \in C, NEW x \in C, r.variant = x.variant, r.target = x.target
      PROVE  r = x
  <2>1. PICK a \in S : r = Numbering(S, a)
    BY <1>3
  <2>2. PICK b \in S : x = Numbering(S, b)
    BY <1>3
  <2>3. a.target = b.target /\ Cardinality(Variants(S, a)) = Cardinality(Variants(S, b))
    BY <1>4, <1>7, <2>1, <2>2
  <2>4. a = b
    BY <1>1, <2>3, NumberedApart
  <2>5. QED
    BY <2>1, <2>2, <2>4
<1>8. QED
  BY <1>6, <1>7 DEF C

LEMMA InQueryOrderLists ==
  ASSUME NEW db, Tables(db), NEW q, NEW o \in {1, 2}
  PROVE  Lists(Candidates(db, q, o), InQueryOrder(Candidates(db, q, o)))
<1> DEFINE C == Candidates(db, q, o)
           key == [r \in C |-> QueryOrder(r)]
<1>1. IsFiniteSet(C) /\ \A r \in C : r \in Row
  BY CandidatesTyped
<1>2. \A r, x \in C : r.variant = x.variant /\ r.target = x.target => r = x
  BY CandidatesBacked
<1> HIDE DEF C
<1>3. \A r \in C : key[r] = QueryOrder(r) /\ key[r] \in Keys(9)
  BY <1>1, QueryKeys
<1>4. key \in [C -> Keys(9)]
  BY <1>3
<1>5. \A r, x \in C : key[r] = key[x] => r = x
  BY <1>1, <1>2, <1>3, QueryKeys
<1>6. InQueryOrder(C) = Sorted(key)
  BY DEF InQueryOrder
<1> HIDE DEF key
<1>7. Keyed(C, key, 9)
  BY <1>1, <1>4, <1>5 DEF Keyed
<1>8. Lists(C, InQueryOrder(C))
  BY <1>6, <1>7, SortedIsList
<1>9. QED
  BY <1>8 DEF C

LEMMA PrefetchedWithin ==
  ASSUME NEW db, Tables(db), NEW q, NEW o \in {1, 2}
  PROVE  RowsOf(Prefetched(db, q, o)) \subseteq Candidates(db, q, o)
<1> DEFINE C == Candidates(db, q, o)
           key == [r \in C |-> PrefetchOrder(r)]
           s == Sorted(key)
<1>1. /\ IsFiniteSet(C) /\ \A r \in C : r \in Row
      /\ \A r, x \in C : r.target = x.target /\ r.ssense = x.ssense /\ r.tsense = x.tsense
                           /\ r.prov = x.prov /\ r.dir = x.dir => r = x
  BY CandidatesTyped
<1>2. Prefetched(db, q, o) = Prefix(s, Prefetch)
  BY DEF Prefetched
<1> HIDE DEF C
<1>3. \A r \in C : key[r] = PrefetchKey(r) /\ key[r] \in Keys(9)
  BY <1>1, PrefetchKeys, KeyTyped
<1>4. key \in [C -> Keys(9)]
  BY <1>3
<1> HIDE DEF key
<1>5. \A r, x \in C : key[r] = key[x] => r = x
  BY <1>1, <1>3, KeyApart
<1>6. Keyed(C, key, 9)
  BY <1>1, <1>4, <1>5 DEF Keyed
<1>7. s \in Seq(C)
  BY <1>6, SortedLists
<1> HIDE DEF s
<1>8. Prefix(s, Prefetch) \in Seq(C)
  BY <1>7, PrefixOf, QueriesAssumption
<1>9. QED
  BY <1>2, <1>8, RowsCounted DEF C

Turn(S, bucket, key, r) == {x \in S : bucket[x] = bucket[r] /\ Before(key[x], key[r])}

(* A turn and a bucket say which row it is.                                *)
LEMMA TurnsApart ==
  ASSUME NEW S, IsFiniteSet(S), NEW m \in Nat, NEW n \in Nat,
         NEW bucket \in [S -> Keys(m)], NEW key \in [S -> Keys(n)],
         \A x, y \in S : bucket[x] = bucket[y] /\ key[x] = key[y] => x = y,
         NEW r \in S, NEW z \in S, bucket[r] = bucket[z],
         Cardinality(Turn(S, bucket, key, r)) = Cardinality(Turn(S, bucket, key, z))
  PROVE  r = z
<1> DEFINE T == {x \in S : bucket[x] = bucket[r]}
           part == [x \in T |-> key[x]]
<1>1. IsFiniteSet(T)
  BY FS_Subset
<1>2. \A x \in T : part[x] = key[x] /\ key[x] \in Keys(n) /\ x \in S /\ bucket[x] = bucket[r]
  OBVIOUS
<1>3. part \in [T -> Keys(n)]
  BY <1>2
<1>4. \A x \in T : Below(T, part, x) = Turn(S, bucket, key, x)
  BY DEF Below, Turn
<1>5. r \in T /\ z \in T
  OBVIOUS
<1> HIDE DEF T, part
<1>6. Keyed(T, part, n)
  BY <1>1, <1>2, <1>3 DEF Keyed
<1>7. \A x \in T : Cardinality(Below(T, part, x)) \in Nat
  <2>1. \A x \in T : Below(T, part, x) \in SUBSET T
    BY DEF Below
  <2>2. QED
    BY <1>1, <2>1, FS_Subset, FS_CardinalityType
<1>8. ~ Before(part[r], part[z]) /\ ~ Before(part[z], part[r])
  <2>1. Cardinality(Below(T, part, r)) = Cardinality(Below(T, part, z))
    BY <1>4, <1>5
  <2>2. \A x, y \in T : Before(part[x], part[y]) =>
          Cardinality(Below(T, part, x)) < Cardinality(Below(T, part, y))
    BY <1>6, Ranked
  <2>3. QED
    BY <1>5, <1>7, <2>1, <2>2
<1>9. part[r] = part[z]
  BY <1>2, <1>5, <1>8, BeforeOrders
<1>10. QED
  BY <1>2, <1>5, <1>9

LEMMA RoundRobinLists ==
  ASSUME NEW S, IsFiniteSet(S), NEW m \in Nat, NEW n \in Nat,
         NEW bucket \in [S -> Keys(m)], NEW key \in [S -> Keys(n)],
         \A x, y \in S : bucket[x] = bucket[y] /\ key[x] = key[y] => x = y
  PROVE  Lists(S, RoundRobin(bucket, key))
<1> DEFINE turn == [r \in S |-> Cardinality(Turn(S, bucket, key, r))]
           order == [r \in S |-> <<turn[r]>> \o bucket[r]]
<1>1. RoundRobin(bucket, key) = Sorted(order)
  BY DEF RoundRobin, Turn
<1>2. \A r \in S : turn[r] = Cardinality(Turn(S, bucket, key, r)) /\ turn[r] \in Nat
  <2>1. \A r \in S : Turn(S, bucket, key, r) \in SUBSET S
    BY DEF Turn
  <2>2. QED
    BY <2>1, FS_Subset, FS_CardinalityType
<1>3. \A r \in S : order[r] = Join(<<turn[r]>>, bucket[r])
  BY DEF Join
<1>4. order = [r \in S |-> order[r]]
  OBVIOUS
<1> HIDE DEF turn, order
<1>5. \A r \in S : <<turn[r]>> \in Keys(1) /\ bucket[r] \in Keys(m)
  BY <1>2, Tuples
<1>6. ASSUME NEW r \in S PROVE order[r] \in Keys(1 + m)
  <2> DEFINE a == <<turn[r]>>
  <2>1. a \in Keys(1) /\ bucket[r] \in Keys(m) /\ order[r] = Join(a, bucket[r])
    BY <1>3, <1>5
  <2> HIDE DEF a
  <2>2. Join(a, bucket[r]) \in Keys(1 + m)
    BY <2>1, JoinKeys, 1 \in Nat
  <2>3. QED
    BY <2>1, <2>2
<1>7. order \in [S -> Keys(1 + m)]
  BY <1>4, <1>6
<1>8. ASSUME NEW r \in S, NEW z \in S, order[r] = order[z] PROVE r = z
  <2> DEFINE a == <<turn[r]>>
             b == <<turn[z]>>
  <2>1. a \in Keys(1) /\ b \in Keys(1) /\ Join(a, bucket[r]) = Join(b, bucket[z])
    BY <1>3, <1>5, <1>8
  <2>2. a = b => turn[r] = turn[z]
    OBVIOUS
  <2> HIDE DEF a, b
  <2>3. Same(a, bucket[r], b, bucket[z])
    BY <1>5, <2>1, JoinApart, 1 \in Nat
  <2>4. turn[r] = turn[z] /\ bucket[r] = bucket[z]
    BY <2>2, <2>3 DEF Same
  <2>5. Cardinality(Turn(S, bucket, key, r)) = Cardinality(Turn(S, bucket, key, z))
    BY <1>2, <2>4
  <2>6. QED
    BY <2>4, <2>5, TurnsApart
<1>9. Keyed(S, order, 1 + m)
  BY <1>7, <1>8 DEF Keyed
<1>10. QED
  BY <1>1, <1>9, SortedIsList

Upright(r) == IF r.orient = 2 THEN [r EXCEPT !.dir = InverseDirection(@)] ELSE r

(* A row says what a relation that is stored says.                         *)
Spoken(db, q, r) ==
  /\ Meets(q, r)
  /\ Stored(db, r, q.code) \/ StoredBackwards(db, r, q.code, InverseDirection(r.dir))

ReadRows(db, q) == {Upright(r) : r \in Candidates(db, q, 1) \cup Candidates(db, q, 2)}

Alike(r, x) ==
  /\ r.orient = x.orient /\ r.target = x.target /\ r.ssense = x.ssense /\ r.tsense = x.tsense
  /\ r.prov = x.prov /\ r.dir = x.dir

LEMMA UprightIs ==
  ASSUME NEW r \in Row
  PROVE  /\ Upright(r) \in Row /\ Upright(r).orient = r.orient /\ Upright(r).source = r.source
         /\ Upright(r).target = r.target /\ Upright(r).ssense = r.ssense
         /\ Upright(r).tsense = r.tsense /\ Upright(r).prov = r.prov
         /\ Upright(r).dir = (IF r.orient = 2 THEN InverseDirection(r.dir) ELSE r.dir)
         /\ InverseDirection(InverseDirection(r.dir)) = r.dir
<1>1. r.dir \in 1 .. 3 /\ InverseDirection(r.dir) \in 1 .. 3
      /\ InverseDirection(InverseDirection(r.dir)) = r.dir
  BY DEF Row, InverseDirection
<1>2. CASE r.orient = 2
  <2> DEFINE d == InverseDirection(r.dir)
  <2>1. Upright(r) = [r EXCEPT !.dir = d]
    BY <1>2 DEF Upright
  <2>2. d \in 1 .. 3
    BY <1>1
  <2> HIDE DEF d
  <2>3. /\ Upright(r) \in Row /\ Upright(r).orient = r.orient /\ Upright(r).source = r.source
        /\ Upright(r).target = r.target /\ Upright(r).ssense = r.ssense
        /\ Upright(r).tsense = r.tsense /\ Upright(r).prov = r.prov /\ Upright(r).dir = d
    BY <2>1, <2>2 DEF Row
  <2>4. QED
    BY <1>1, <1>2, <2>3 DEF d
<1>3. CASE r.orient # 2
  BY <1>1, <1>3 DEF Upright
<1>4. QED
  BY <1>2, <1>3

LEMMA ReadRowsTold ==
  ASSUME NEW db, Tables(db), NEW q
  PROVE  /\ IsFiniteSet(ReadRows(db, q))
         /\ \A r \in ReadRows(db, q) : Spoken(db, q, r)
         /\ \A r, x \in ReadRows(db, q) : Alike(r, x) => r = x
<1> DEFINE C == Candidates(db, q, 1) \cup Candidates(db, q, 2)
           f == [r \in C |-> Upright(r)]
           R == ReadRows(db, q)
<1>1. IsFiniteSet(C)
  <2>1. IsFiniteSet(Candidates(db, q, 1)) /\ IsFiniteSet(Candidates(db, q, 2))
    BY CandidatesTyped
  <2>2. QED
    BY <2>1, FS_Union
<1>2. R = {Upright(r) : r \in C}
  BY DEF ReadRows
<1>3. \A r \in C : \E o \in {1, 2} : r \in Candidates(db, q, o)
  OBVIOUS
<1>4. \A r \in C : r \in Row /\ Meets(q, r) /\ r.orient \in {1, 2} /\ Backed(db, r.orient, r, q.code)
  BY <1>3, CandidatesBacked, CandidatesTyped
<1>5. \A r, x \in C : Alike(r, x) => r = x
  <2> SUFFICES ASSUME NEW r \in C, NEW x \in C, Alike(r, x) PROVE r = x
    OBVIOUS
  <2>1. PICK o \in {1, 2} : r \in Candidates(db, q, o)
    BY <1>3
  <2>2. PICK p \in {1, 2} : x \in Candidates(db, q, p)
    BY <1>3
  <2>3. o = p
    <3>1. r.orient = o /\ x.orient = p
      BY <2>1, <2>2, CandidatesBacked
    <3>2. QED
      BY <3>1 DEF Alike
  <2>4. QED
    BY <2>1, <2>2, <2>3, CandidatesTyped DEF Alike
<1>6. IsFiniteSet(R)
  <2>1. R = {f[r] : r \in C} /\ DOMAIN f = C
    BY <1>2
  <2> HIDE DEF f, C
  <2>2. QED
    BY <1>1, <2>1, ImageCounted
<1> HIDE DEF C, R
<1>7. ASSUME NEW r \in C PROVE Spoken(db, q, Upright(r))
  <2> DEFINE u == Upright(r)
  <2>1. r \in Row /\ Meets(q, r) /\ r.orient \in {1, 2} /\ Backed(db, r.orient, r, q.code)
    BY <1>4
  <2>2. /\ u \in Row /\ u.source = r.source /\ u.target = r.target /\ u.ssense = r.ssense
        /\ u.tsense = r.tsense /\ u.prov = r.prov
        /\ u.dir = (IF r.orient = 2 THEN InverseDirection(r.dir) ELSE r.dir)
        /\ InverseDirection(InverseDirection(r.dir)) = r.dir
    BY <2>1, UprightIs
  <2> HIDE DEF u
  <2>3. Meets(q, u)
    BY <2>1, <2>2 DEF Meets
  <2>4. CASE r.orient = 1
    <3>1. Stored(db, r, q.code) /\ u.dir = r.dir
      BY <2>1, <2>2, <2>4 DEF Backed
    <3>2. Stored(db, u, q.code)
      BY <2>2, <3>1 DEF Stored
    <3>3. QED
      BY <2>3, <3>2 DEF Spoken, u
  <2>5. CASE r.orient = 2
    <3>1. StoredBackwards(db, r, q.code, r.dir) /\ InverseDirection(u.dir) = r.dir
      BY <2>1, <2>2, <2>5 DEF Backed
    <3>2. StoredBackwards(db, u, q.code, InverseDirection(u.dir))
      BY <2>2, <3>1 DEF StoredBackwards
    <3>3. QED
      BY <2>3, <3>2 DEF Spoken, u
  <2>6. QED
    BY <2>1, <2>4, <2>5
<1>8. ASSUME NEW r \in C, NEW x \in C, Alike(Upright(r), Upright(x)) PROVE Upright(r) = Upright(x)
  <2>1. /\ r \in Row /\ x \in Row
        /\ Upright(r).orient = r.orient /\ Upright(x).orient = x.orient
        /\ Upright(r).target = r.target /\ Upright(r).ssense = r.ssense
        /\ Upright(r).tsense = r.tsense /\ Upright(r).prov = r.prov
        /\ Upright(x).target = x.target /\ Upright(x).ssense = x.ssense
        /\ Upright(x).tsense = x.tsense /\ Upright(x).prov = x.prov
        /\ Upright(r).dir = (IF r.orient = 2 THEN InverseDirection(r.dir) ELSE r.dir)
        /\ InverseDirection(InverseDirection(r.dir)) = r.dir
        /\ Upright(x).dir = (IF x.orient = 2 THEN InverseDirection(x.dir) ELSE x.dir)
        /\ InverseDirection(InverseDirection(x.dir)) = x.dir
    BY <1>4, UprightIs
  <2>2. r.orient = x.orient /\ r.dir = x.dir
    BY <1>8, <2>1 DEF Alike
  <2>3. Alike(r, x)
    BY <1>8, <2>1, <2>2 DEF Alike
  <2>4. QED
    BY <1>5, <2>3
<1>9. \A r \in R : Spoken(db, q, r)
  BY <1>2, <1>7
<1>10. \A r, x \in R : Alike(r, x) => r = x
  BY <1>2, <1>8
<1>11. QED
  BY <1>6, <1>9, <1>10 DEF R

LEMMA PrefixWithin ==
  ASSUME NEW S, NEW s \in Seq(S), NEW n \in Int
  PROVE  /\ Prefix(s, n) \in Seq(S) /\ RowsOf(Prefix(s, n)) \subseteq RowsOf(s)
         /\ Len(Prefix(s, n)) = (IF n < 0 THEN 0 ELSE IF n < Len(s) THEN n ELSE Len(s))
         /\ \A k \in DOMAIN Prefix(s, n) : k \in DOMAIN s /\ Prefix(s, n)[k] = s[k]
         /\ \A k \in DOMAIN s : k <= n => k \in DOMAIN Prefix(s, n)
<1>1. CASE n >= 0
  <2>1. n \in Nat
    BY <1>1
  <2>2. /\ Prefix(s, n) \in Seq(S) /\ Len(Prefix(s, n)) = IF n < Len(s) THEN n ELSE Len(s)
        /\ \A k \in DOMAIN Prefix(s, n) : k \in DOMAIN s /\ k <= n /\ Prefix(s, n)[k] = s[k]
        /\ \A k \in DOMAIN s : k <= n => k \in DOMAIN Prefix(s, n)
    BY <2>1, PrefixOf
  <2>3. RowsOf(Prefix(s, n)) \subseteq RowsOf(s)
    BY <2>2 DEF RowsOf
  <2>4. QED
    BY <1>1, <2>2, <2>3
<1>2. CASE n < 0
  <2>1. Len(s) \in Nat
    OBVIOUS
  <2>2. Prefix(s, n) = SubSeq(s, 1, n)
    BY <1>2, <2>1 DEF Prefix
  <2>3. SubSeq(s, 1, n) \in Seq(S) /\ Len(SubSeq(s, 1, n)) = 0
    BY <1>2
  <2> DEFINE p == Prefix(s, n)
  <2> HIDE DEF p
  <2>4. p \in Seq(S) /\ Len(p) = 0
    BY <2>2, <2>3 DEF p
  <2>5. DOMAIN p = {} /\ RowsOf(p) = {}
    BY <2>4 DEF RowsOf
  <2>6. \A k \in DOMAIN s : ~ (k <= n)
    BY <1>2
  <2>7. QED
    BY <1>2, <2>4, <2>5, <2>6 DEF p
<1>3. QED
  BY <1>1, <1>2

LEMMA InOrientedRows ==
  ASSUME NEW db, NEW q, NEW S, S \subseteq Candidates(db, q, 1) \cup Candidates(db, q, 2)
  PROVE  Oriented(S) \subseteq ReadRows(db, q)
<1>1. Oriented(S) = {Upright(r) : r \in S}
  BY DEF Oriented, Upright
<1>2. QED
  BY <1>1 DEF ReadRows

LEMMA RowsAreRead ==
  ASSUME NEW db, Tables(db), NEW q, NEW n \in Nat
  PROVE  DirectRows(db, q, n) \subseteq ReadRows(db, q) /\ Hops(db, q, TRUE) \subseteq ReadRows(db, q)
<1> DEFINE D(o) == RowsOf(Prefix(InQueryOrder(Candidates(db, q, o)), n))
           H(o) == RowsOf(Prefetched(db, q, o))
<1>1. \A o \in {1, 2} : D(o) \subseteq Candidates(db, q, o) /\ H(o) \subseteq Candidates(db, q, o)
  <2> SUFFICES ASSUME NEW o \in {1, 2}
               PROVE  D(o) \subseteq Candidates(db, q, o) /\ H(o) \subseteq Candidates(db, q, o)
    OBVIOUS
  <2>1. InQueryOrder(Candidates(db, q, o)) \in Seq(Candidates(db, q, o))
    BY InQueryOrderLists DEF Lists
  <2>2. Prefix(InQueryOrder(Candidates(db, q, o)), n) \in Seq(Candidates(db, q, o))
    BY <2>1, PrefixOf
  <2>3. QED
    BY <2>2, RowsCounted, PrefetchedWithin
<1>2. /\ DirectRows(db, q, n) = Oriented(UNION {D(o) : o \in {1, 2}})
      /\ Hops(db, q, TRUE) = Oriented(UNION {H(o) : o \in {1, 2}})
  BY DEF DirectRows, Hops, PackHops
<1> HIDE DEF D, H
<1>3. /\ UNION {D(o) : o \in {1, 2}} \subseteq Candidates(db, q, 1) \cup Candidates(db, q, 2)
      /\ UNION {H(o) : o \in {1, 2}} \subseteq Candidates(db, q, 1) \cup Candidates(db, q, 2)
  BY <1>1
<1>4. QED
  BY <1>2, <1>3, InOrientedRows

(* Ranking shows each row that was read once. *)
InTurns(S) == RoundRobin([r \in S |-> <<r.prov, r.orient>>], [r \in S |-> RankKey(r)])

LEMMA InTurnsLists ==
  ASSUME NEW db, Tables(db), NEW q, NEW S \in SUBSET ReadRows(db, q)
  PROVE  Lists(S, InTurns(S))
<1> DEFINE bucket == [r \in S |-> <<r.prov, r.orient>>]
           key == [r \in S |-> RankKey(r)]
<1>1. /\ IsFiniteSet(S) /\ \A r \in S : r \in Row
      /\ \A r, x \in S : Alike(r, x) => r = x
  <2>1. /\ IsFiniteSet(ReadRows(db, q)) /\ \A r \in ReadRows(db, q) : Spoken(db, q, r)
        /\ \A r, x \in ReadRows(db, q) : Alike(r, x) => r = x
    BY ReadRowsTold
  <2>2. QED
    BY <2>1, FS_Subset DEF Spoken, Meets
<1>2. \A r \in S : bucket[r] \in Keys(2) /\ key[r] \in Keys(10)
  BY <1>1, RowNumbers, Tuples, RankKeys
<1>3. /\ bucket \in [S -> Keys(2)] /\ key \in [S -> Keys(10)]
  BY <1>2
<1>4. ASSUME NEW r \in S, NEW x \in S, bucket[r] = bucket[x], key[r] = key[x] PROVE r = x
  <2>1. r.orient = x.orient
    BY <1>4
  <2>2. RankKey(r) = RankKey(x) /\ r \in Row /\ x \in Row
    BY <1>1, <1>4
  <2>3. /\ r.target = x.target /\ r.ssense = x.ssense /\ r.tsense = x.tsense
        /\ r.dir = x.dir /\ r.prov = x.prov
    BY <2>2, RankKeys
  <2>4. QED
    BY <1>1, <2>1, <2>3 DEF Alike
<1>5. InTurns(S) = RoundRobin(bucket, key)
  BY DEF InTurns
<1> HIDE DEF bucket, key
<1>6. Lists(S, RoundRobin(bucket, key))
  BY <1>1, <1>3, <1>4, RoundRobinLists, 2 \in Nat, 10 \in Nat
<1>7. QED
  BY <1>5, <1>6

LEMMA RankOrientedOf ==
  ASSUME NEW db, Tables(db), NEW q, NEW S \in SUBSET ReadRows(db, q), NEW n \in Nat
  PROVE  RankOriented(S, n) \in Seq(S)
<1>1. Lists(S, InTurns(S)) /\ RankOriented(S, n) = Prefix(InTurns(S), n)
  BY InTurnsLists DEF RankOriented, InTurns
<1>2. QED
  BY <1>1, PrefixOf DEF Lists

(* The members at some places, in their order.                             *)
Picked(p, s, I) ==
  \E at : /\ \A k \in DOMAIN p : at[k] \in I /\ p[k] = s[at[k]]
          /\ \A k, h \in DOMAIN p : k < h => at[k] < at[h]
          /\ \A i \in I : \E k \in DOMAIN p : at[k] = i

LEMMA PickAt ==
  ASSUME NEW S, NEW s \in Seq(S), NEW I \in SUBSET (DOMAIN s)
  PROVE  Picked(Pick(s, I), s, I)
<1> DEFINE p == Pick(s, I)
<1>1. \E at : /\ \A k \in DOMAIN p : at[k] \in I /\ p[k] = s[at[k]]
              /\ \A k, h \in DOMAIN p : k < h => at[k] < at[h]
              /\ \A i \in I : \E k \in DOMAIN p : at[k] = i
  BY PickOf
<1> HIDE DEF p
<1>2. Picked(p, s, I)
  BY <1>1 DEF Picked
<1>3. QED
  BY <1>2 DEF p

(* The same members in another order.                                      *)
Shuffled(f, p) ==
  \E at : /\ \A k \in DOMAIN f : at[k] \in DOMAIN p /\ f[k] = p[at[k]]
          /\ \A k, h \in DOMAIN f : at[k] = at[h] => k = h
          /\ \A i \in DOMAIN p : \E k \in DOMAIN f : at[k] = i

LEMMA PrimaryFirstOf ==
  ASSUME NEW S, NEW p \in Seq(S)
  PROVE  PrimaryFirst(p) \in Seq(S) /\ Shuffled(PrimaryFirst(p), p)
<1> DEFINE F == FirstOfTarget(p)
           G == DOMAIN p \ F
           a == Pick(p, F)
           b == Pick(p, G)
           f == PrimaryFirst(p)
<1>1. F \in SUBSET (DOMAIN p) /\ G \in SUBSET (DOMAIN p) /\ G = DOMAIN p \ F
  BY DEF FirstOfTarget
<1>2. f = a \o b
  BY DEF PrimaryFirst
<1> HIDE DEF F, G
<1>3. a \in Seq(S) /\ b \in Seq(S)
  BY <1>1, PickOf
<1>0. Picked(a, p, F) /\ Picked(b, p, G)
  BY <1>1, PickAt
<1> HIDE DEF a, b, f
<1>4. PICK c : /\ \A k \in DOMAIN a : c[k] \in F /\ a[k] = p[c[k]]
               /\ \A k, h \in DOMAIN a : k < h => c[k] < c[h]
               /\ \A i \in F : \E k \in DOMAIN a : c[k] = i
  BY <1>0 DEF Picked
<1>5. PICK d : /\ \A k \in DOMAIN b : d[k] \in G /\ b[k] = p[d[k]]
               /\ \A k, h \in DOMAIN b : k < h => d[k] < d[h]
               /\ \A i \in G : \E k \in DOMAIN b : d[k] = i
  BY <1>0 DEF Picked
<1>6. /\ f \in Seq(S) /\ Len(a) \in Nat /\ Len(b) \in Nat
      /\ DOMAIN f = 1 .. Len(a) + Len(b) /\ DOMAIN a = 1 .. Len(a) /\ DOMAIN b = 1 .. Len(b)
      /\ \A k \in 1 .. Len(a) : f[k] = a[k]
      /\ \A k \in 1 .. Len(b) : f[Len(a) + k] = b[k]
  BY <1>2, <1>3, JoinOf
<1> DEFINE n == Len(a)
           at == [k \in DOMAIN f |-> IF k <= n THEN c[k] ELSE d[k - n]]
<1> HIDE DEF n
<1>7. /\ n \in Nat /\ DOMAIN a = 1 .. n /\ DOMAIN f = 1 .. n + Len(b)
      /\ \A k \in DOMAIN f : k <= n => k \in DOMAIN a /\ f[k] = a[k]
      /\ \A k \in DOMAIN f : ~ (k <= n) => k - n \in DOMAIN b /\ f[k] = b[k - n]
  <2>1. \A k \in DOMAIN f : ~ (k <= n) => k - n \in 1 .. Len(b) /\ f[n + (k - n)] = b[k - n] /\ n + (k - n) = k
    BY <1>6 DEF n
  <2>2. QED
    BY <1>6, <2>1 DEF n
<1>8. \A k \in DOMAIN f : /\ k <= n => at[k] = c[k] /\ at[k] \in F
                          /\ ~ (k <= n) => at[k] = d[k - n] /\ at[k] \in G
  BY <1>4, <1>5, <1>7
<1> HIDE DEF at
<1>9. \A k \in DOMAIN f : at[k] \in DOMAIN p /\ f[k] = p[at[k]]
  BY <1>1, <1>4, <1>5, <1>7, <1>8
<1>10. \A k, h \in DOMAIN a : c[k] = c[h] => k = h
  <2>1. \A k \in DOMAIN a : c[k] \in Nat /\ k \in Nat
    BY <1>1, <1>4, <1>7
  <2>2. QED
    BY <1>4, <2>1
<1>11. \A k, h \in DOMAIN b : d[k] = d[h] => k = h
  <2>1. \A k \in DOMAIN b : d[k] \in Nat /\ k \in Nat
    BY <1>1, <1>5, <1>6
  <2>2. QED
    BY <1>5, <2>1
<1>12. ASSUME NEW k \in DOMAIN f, NEW h \in DOMAIN f, at[k] = at[h] PROVE k = h
  <2>1. CASE k <= n /\ h <= n
    BY <1>7, <1>8, <1>10, <1>12, <2>1
  <2>2. CASE ~ (k <= n) /\ ~ (h <= n)
    <3>1. k - n \in DOMAIN b /\ h - n \in DOMAIN b /\ d[k - n] = d[h - n]
      BY <1>7, <1>8, <1>12, <2>2
    <3>2. k - n = h - n
      BY <1>11, <3>1
    <3>3. QED
      BY <1>7, <3>2
  <2>3. CASE (k <= n) # (h <= n)
    BY <1>1, <1>8, <1>12, <2>3
  <2>4. QED
    BY <2>1, <2>2, <2>3
<1>13. ASSUME NEW i \in DOMAIN p PROVE \E k \in DOMAIN f : at[k] = i
  <2>1. CASE i \in F
    <3>1. PICK k \in DOMAIN a : c[k] = i
      BY <1>4, <2>1
    <3>2. k \in DOMAIN f /\ k <= n
      BY <1>6, <1>7
    <3>3. QED
      BY <1>8, <3>1, <3>2
  <2>2. CASE i \in G
    <3>1. PICK k \in DOMAIN b : d[k] = i
      BY <1>5, <2>2
    <3>2. n + k \in DOMAIN f /\ ~ (n + k <= n) /\ (n + k) - n = k
      BY <1>6, <1>7
    <3>3. at[n + k] = d[(n + k) - n]
      BY <1>8, <3>2
    <3>4. at[n + k] = i
      BY <3>1, <3>2, <3>3
    <3>5. QED
      BY <3>2, <3>4
  <2>3. QED
    BY <1>1, <2>1, <2>2
<1>14. Shuffled(f, p)
  BY <1>9, <1>12, <1>13 DEF Shuffled
<1>15. QED
  BY <1>6, <1>14 DEF f

(* Rows of other targets and senses, none of them seen, and all there are. *)
Diverse(d, s, seen) ==
  /\ RowsOf(d) \subseteq RowsOf(s)
  /\ \A i, j \in DOMAIN d : Identity(d[i]) = Identity(d[j]) => i = j
  /\ \A i \in DOMAIN d : Identity(d[i]) \notin seen
  /\ \A k \in DOMAIN s : Identity(s[k]) \in seen \/ \E i \in DOMAIN d : Identity(d[i]) = Identity(s[k])

LEMMA TargetDiverseOf ==
  ASSUME NEW S, NEW s \in Seq(S), NEW seen
  PROVE  TargetDiverse(s, seen) \in Seq(S) /\ Diverse(TargetDiverse(s, seen), s, seen)
<1> DEFINE First(i) == \A j \in 1 .. i - 1 : Identity(s[j]) # Identity(s[i])
           I == {i \in DOMAIN s : Identity(s[i]) \notin seen /\ First(i)}
           p == Pick(s, I)
           d == TargetDiverse(s, seen)
<1>1. d = PrimaryFirst(p)
  BY DEF TargetDiverse
<1>2. I \in SUBSET (DOMAIN s) /\ DOMAIN s = 1 .. Len(s) /\ Len(s) \in Nat
  OBVIOUS
<1>3. \A i \in I : i \in DOMAIN s /\ Identity(s[i]) \notin seen /\ First(i)
  OBVIOUS
<1>4. \A i \in DOMAIN s : Identity(s[i]) \notin seen /\ First(i) => i \in I
  OBVIOUS
<1> HIDE DEF I
<1>5. p \in Seq(S)
  BY <1>2, PickOf
<1>6. PICK at : /\ \A k \in DOMAIN p : at[k] \in I /\ p[k] = s[at[k]]
                /\ \A k, h \in DOMAIN p : k < h => at[k] < at[h]
                /\ \A i \in I : \E k \in DOMAIN p : at[k] = i
  BY <1>2, PickOf
<1>7. d \in Seq(S) /\ Shuffled(d, p)
  BY <1>1, <1>5, PrimaryFirstOf
<1> HIDE DEF p, d
<1>8. PICK to : /\ \A k \in DOMAIN d : to[k] \in DOMAIN p /\ d[k] = p[to[k]]
                /\ \A k, h \in DOMAIN d : to[k] = to[h] => k = h
                /\ \A i \in DOMAIN p : \E k \in DOMAIN d : to[k] = i
  BY <1>7 DEF Shuffled
<1>9. \A k \in DOMAIN d : at[to[k]] \in I /\ d[k] = s[at[to[k]]]
  BY <1>6, <1>8
<1>10. RowsOf(d) \subseteq RowsOf(s)
  BY <1>3, <1>9 DEF RowsOf
<1>11. \A i \in DOMAIN d : Identity(d[i]) \notin seen
  BY <1>3, <1>9
<1>12. \A i, j \in I : Identity(s[i]) = Identity(s[j]) => i = j
  <2> SUFFICES ASSUME NEW i \in I, NEW j \in I, Identity(s[i]) = Identity(s[j]), i # j
               PROVE  FALSE
    OBVIOUS
  <2>1. i \in 1 .. Len(s) /\ j \in 1 .. Len(s) /\ First(i) /\ First(j)
    BY <1>2, <1>3
  <2>2. i < j \/ j < i
    BY <2>1
  <2>3. QED
    BY <1>2, <2>1, <2>2
<1>13. \A k, h \in DOMAIN p : at[k] = at[h] => k = h
  <2>1. \A k \in DOMAIN p : at[k] \in Nat /\ k \in Nat
    BY <1>2, <1>5, <1>6
  <2>2. QED
    BY <1>6, <2>1
<1>14. \A i, j \in DOMAIN d : Identity(d[i]) = Identity(d[j]) => i = j
  <2> SUFFICES ASSUME NEW i \in DOMAIN d, NEW j \in DOMAIN d, Identity(d[i]) = Identity(d[j])
               PROVE  i = j
    OBVIOUS
  <2>1. at[to[i]] = at[to[j]]
    BY <1>9, <1>12
  <2>2. to[i] = to[j]
    BY <1>8, <1>13, <2>1
  <2>3. QED
    BY <1>8, <2>2
<1>15. ASSUME NEW k \in DOMAIN s, Identity(s[k]) \notin seen
       PROVE  \E i \in DOMAIN d : Identity(d[i]) = Identity(s[k])
  <2> DEFINE E == {j \in DOMAIN s : Identity(s[j]) = Identity(s[k])}
  <2>1. E \in SUBSET Nat /\ k \in E
    BY <1>2
  <2>2. PICK m \in E : \A j \in E : m <= j
    BY <2>1, Least
  <2>3. m \in DOMAIN s /\ Identity(s[m]) = Identity(s[k])
    OBVIOUS
  <2>4. First(m)
    <3> SUFFICES ASSUME NEW j \in 1 .. m - 1, Identity(s[j]) = Identity(s[m]) PROVE FALSE
      OBVIOUS
    <3>1. j \in DOMAIN s /\ j < m
      BY <1>2, <2>3
    <3>2. j \in E
      BY <2>3, <3>1
    <3>3. QED
      BY <2>1, <2>2, <3>1, <3>2
  <2>5. m \in I
    BY <1>4, <1>15, <2>3, <2>4
  <2>6. PICK h \in DOMAIN p : at[h] = m
    BY <1>6, <2>5
  <2>7. PICK i \in DOMAIN d : to[i] = h
    BY <1>8
  <2>8. d[i] = s[m]
    BY <1>9, <2>6, <2>7
  <2>9. QED
    BY <2>3, <2>8
<1>16. Diverse(d, s, seen)
  BY <1>10, <1>11, <1>14, <1>15 DEF Diverse
<1>17. QED
  BY <1>7, <1>16 DEF d

(* A stable sort needs no keys that tell the members apart.                *)
LEMMA StableSortOf ==
  ASSUME NEW S, NEW s \in Seq(S), NEW n \in Nat, NEW key \in [DOMAIN s -> Keys(n)]
  PROVE  StableSort(s, key) \in Seq(S) /\ RowsOf(StableSort(s, key)) = RowsOf(s)
<1> DEFINE I == DOMAIN s
           full == [i \in I |-> key[i] \o <<i>>]
           order == Sorted(full)
           f == StableSort(s, key)
<1>1. I = 1 .. Len(s) /\ Len(s) \in Nat /\ IsFiniteSet(I)
  BY FirstNumbers
<1>2. f = [k \in DOMAIN order |-> s[order[k]]]
  BY DEF StableSort
<1>3. \A i \in I : full[i] = Join(key[i], <<i>>)
  BY DEF Join
<1>4. full = [i \in I |-> full[i]]
  OBVIOUS
<1>5. \A i \in I : s[i] \in S /\ key[i] \in Keys(n) /\ <<i>> \in Keys(1)
  <2>1. \A i \in I : i \in Int
    BY <1>1
  <2>2. \A i \in I : <<i>> \in Keys(1)
    BY <2>1, Tuples
  <2>3. \A i \in I : s[i] \in S /\ key[i] \in Keys(n)
    OBVIOUS
  <2>4. QED
    BY <2>2, <2>3
<1>6. RowsOf(s) = {s[i] : i \in I}
  BY DEF RowsOf
<1> HIDE DEF I, full
<1>7. ASSUME NEW i \in I PROVE full[i] \in Keys(n + 1)
  <2> DEFINE b == <<i>>
  <2>1. key[i] \in Keys(n) /\ b \in Keys(1) /\ full[i] = Join(key[i], b)
    BY <1>3, <1>5
  <2> HIDE DEF b
  <2>2. Join(key[i], b) \in Keys(n + 1)
    BY <2>1, JoinKeys, 1 \in Nat
  <2>3. QED
    BY <2>1, <2>2
<1>8. ASSUME NEW i \in I, NEW j \in I, full[i] = full[j] PROVE i = j
  <2> DEFINE a == <<i>>
             b == <<j>>
  <2>1. /\ key[i] \in Keys(n) /\ key[j] \in Keys(n) /\ a \in Keys(1) /\ b \in Keys(1)
        /\ Join(key[i], a) = Join(key[j], b)
    BY <1>3, <1>5, <1>8
  <2>2. a = b => i = j
    OBVIOUS
  <2> HIDE DEF a, b
  <2>3. Same(key[i], a, key[j], b)
    BY <2>1, JoinApart, 1 \in Nat
  <2>4. QED
    BY <2>2, <2>3 DEF Same
<1>9. full \in [I -> Keys(n + 1)]
  BY <1>4, <1>7
<1>10. Keyed(I, full, n + 1)
  BY <1>1, <1>8, <1>9 DEF Keyed
<1>11. Lists(I, order)
  BY <1>10, SortedIsList
<1> HIDE DEF order
<1>12. /\ order \in Seq(I) /\ DOMAIN order = 1 .. Len(order) /\ Len(order) \in Nat
       /\ \A k \in DOMAIN order : order[k] \in I
       /\ \A i \in I : \E k \in DOMAIN order : order[k] = i
  BY <1>11 DEF Lists
<1>13. \A k \in DOMAIN order : s[order[k]] \in S
  BY <1>5, <1>12
<1>14. f \in Seq(S)
  BY <1>2, <1>12, <1>13
<1> HIDE DEF f
<1>15. DOMAIN f = DOMAIN order /\ \A k \in DOMAIN order : f[k] = s[order[k]]
  BY <1>2
<1>16. RowsOf(f) = {s[order[k]] : k \in DOMAIN order}
  BY <1>15 DEF RowsOf
<1>17. RowsOf(f) = RowsOf(s)
  BY <1>6, <1>12, <1>16
<1>18. QED
  BY <1>14, <1>17 DEF f

FrontierKey(r) ==
  <<IF r.tsense = NoSense THEN 1 ELSE 0, -r.senses, -r.entries, r.variant>> \o Place(r.target) \o <<r.tsense>>

LEMMA FrontierKeys ==
  ASSUME NEW r \in Row
  PROVE  /\ FrontierKey(r) \in Keys(8)
         /\ \A x \in Row : FrontierKey(r) = FrontierKey(x) => r.target = x.target /\ r.tsense = x.tsense
<1> DEFINE A(y) == <<IF y.tsense = NoSense THEN 1 ELSE 0, -y.senses, -y.entries, y.variant>>
           B(y) == <<y.tsense>>
<1>1. \A y \in Row : A(y) \in Keys(4) /\ B(y) \in Keys(1)
  <2> SUFFICES ASSUME NEW y \in Row PROVE A(y) \in Keys(4) /\ B(y) \in Keys(1)
    OBVIOUS
  <2> DEFINE a == IF y.tsense = NoSense THEN 1 ELSE 0
  <2>1. a \in Int
    OBVIOUS
  <2>2. /\ y.tsense \in Int /\ y.variant \in Int /\ -y.senses \in Int /\ -y.entries \in Int
    BY RowNumbers
  <2>3. A(y) = <<a, -y.senses, -y.entries, y.variant>>
    OBVIOUS
  <2> HIDE DEF a
  <2>4. QED
    BY <2>1, <2>2, <2>3, Tuples
<1>2. \A y \in Row : FrontierKey(y) = Join(Join(A(y), Place(y.target)), B(y))
  BY DEF FrontierKey, Join
<1>3. \A x \in Row : B(r) = B(x) => r.tsense = x.tsense
  OBVIOUS
<1> HIDE DEF A, B
<1>4. \A y \in Row : y.target \in Term /\ Place(y.target) \in Keys(3)
  BY RowNumbers, PlaceKeys
<1>5. \A y \in Row : Join(A(y), Place(y.target)) \in Keys(7)
  <2>1. \A y \in Row : Join(A(y), Place(y.target)) \in Keys(4 + 3)
    BY <1>1, <1>4, JoinKeys, 4 \in Nat, 3 \in Nat
  <2>2. QED
    BY <2>1
<1>6. \A y \in Row : FrontierKey(y) \in Keys(7 + 1)
  BY <1>1, <1>2, <1>5, JoinKeys, 7 \in Nat, 1 \in Nat
<1>7. ASSUME NEW x \in Row, FrontierKey(r) = FrontierKey(x)
      PROVE  r.target = x.target /\ r.tsense = x.tsense
  <2> DEFINE k == Join(A(r), Place(r.target))
             h == Join(A(x), Place(x.target))
  <2>1. /\ k \in Keys(7) /\ h \in Keys(7) /\ B(r) \in Keys(1) /\ B(x) \in Keys(1)
        /\ Join(k, B(r)) = Join(h, B(x))
    BY <1>1, <1>2, <1>5, <1>7
  <2>2. k = h /\ B(r) = B(x)
    <3> HIDE DEF k, h
    <3>1. QED
      BY <2>1, JoinApart, 7 \in Nat, 1 \in Nat DEF Same
  <2>3. A(r) = A(x) /\ Place(r.target) = Place(x.target)
    <3>1. /\ A(r) \in Keys(4) /\ A(x) \in Keys(4)
          /\ Place(r.target) \in Keys(3) /\ Place(x.target) \in Keys(3)
      BY <1>1, <1>4
    <3>2. QED
      BY <2>2, <3>1, JoinApart, 4 \in Nat, 3 \in Nat DEF Same
  <2>4. QED
    BY <1>3, <1>4, <2>2, <2>3, PlaceKeys
<1>8. FrontierKey(r) \in Keys(8)
  BY <1>6
<1>9. QED
  BY <1>7, <1>8

(* A frontier is made of rows that were read, one for each identity.       *)
LEMMA FrontierTurnsOf ==
  ASSUME NEW T, IsFiniteSet(T), T \subseteq Row, \A r, x \in T : Identity(r) = Identity(x) => r = x
  PROVE  FrontierTurns(T) \in Seq(T)
<1> DEFINE bucket == [r \in T |-> <<r.prov, r.orient, r.ssense>>]
           key == [r \in T |-> FrontierKey(r)]
<1>1. FrontierTurns(T) = RoundRobin(bucket, key)
  BY DEF FrontierTurns, FrontierKey
<1>2. \A r \in T : bucket[r] \in Keys(3) /\ key[r] \in Keys(8) /\ r \in Row
  BY RowNumbers, Tuples, FrontierKeys
<1>3. bucket \in [T -> Keys(3)] /\ key \in [T -> Keys(8)]
  BY <1>2
<1>4. ASSUME NEW r \in T, NEW x \in T, bucket[r] = bucket[x], key[r] = key[x] PROVE r = x
  <2>1. r.ssense = x.ssense
    BY <1>4
  <2>2. FrontierKey(r) = FrontierKey(x) /\ r \in Row /\ x \in Row
    BY <1>2, <1>4
  <2>3. r.target = x.target /\ r.tsense = x.tsense
    BY <2>2, FrontierKeys
  <2>4. Identity(r) = Identity(x)
    BY <2>1, <2>3 DEF Identity
  <2>5. QED
    BY <2>4
<1> HIDE DEF bucket, key
<1>5. Lists(T, RoundRobin(bucket, key))
  BY <1>3, <1>4, RoundRobinLists, 3 \in Nat, 8 \in Nat
<1>6. QED
  BY <1>1, <1>5 DEF Lists

LEMMA FrontierOf ==
  ASSUME NEW S, S \subseteq Row, NEW s \in Seq(S), NEW code
  PROVE  Frontier(s, code) \in Seq(RowsOf(s)) /\ RowsOf(Frontier(s, code)) \subseteq RowsOf(s)
<1> DEFINE key == [i \in DOMAIN s |-> <<Preferred(code, s[i].dir)>> \o RankKey(s[i])]
           x == StableSort(s, key)
           t == TargetDiverse(x, {})
           T == RowsOf(t)
           C == Corroborated(T)
<1>1. ASSUME NEW i \in DOMAIN s PROVE key[i] \in Keys(11)
  <2> DEFINE a == <<Preferred(code, s[i].dir)>>
  <2>1. s[i] \in Row
    OBVIOUS
  <2>2. Preferred(code, s[i].dir) \in Int
    BY DEF Preferred
  <2>3. a \in Keys(1) /\ RankKey(s[i]) \in Keys(10) /\ key[i] = Join(a, RankKey(s[i]))
    BY <2>1, <2>2, RankKeys, Tuples DEF Join
  <2> HIDE DEF a, key
  <2>4. Join(a, RankKey(s[i])) \in Keys(1 + 10)
    BY <2>3, JoinKeys, 1 \in Nat, 10 \in Nat
  <2>5. QED
    BY <2>3, <2>4
<1>2. key \in [DOMAIN s -> Keys(11)]
  BY <1>1
<1>3. Frontier(s, code) = Prefix(FrontierTurns(C) \o FrontierTurns(T \ C), FrontierBudget)
  BY DEF Frontier, CorroboratedFirst
<1> HIDE DEF key
<1>4. x \in Seq(S) /\ RowsOf(x) = RowsOf(s)
  BY <1>2, StableSortOf, 11 \in Nat
<1> HIDE DEF x
<1>5. t \in Seq(S) /\ Diverse(t, x, {})
  BY <1>4, TargetDiverseOf
<1> HIDE DEF t
<1>6. T \subseteq RowsOf(s) /\ IsFiniteSet(T) /\ T \subseteq Row
  BY <1>4, <1>5, RowsCounted DEF Diverse
<1>7. \A r, y \in T : Identity(r) = Identity(y) => r = y
  BY <1>5 DEF Diverse, RowsOf
<1>8. C \in SUBSET T /\ T \ C \in SUBSET T
  BY DEF Corroborated
<1> HIDE DEF T, C
<1>9. FrontierTurns(C) \in Seq(C) /\ FrontierTurns(T \ C) \in Seq(T \ C)
  <2>1. /\ IsFiniteSet(C) /\ C \subseteq Row /\ \A r, y \in C : Identity(r) = Identity(y) => r = y
        /\ IsFiniteSet(T \ C) /\ T \ C \subseteq Row
        /\ \A r, y \in T \ C : Identity(r) = Identity(y) => r = y
    BY <1>6, <1>7, <1>8, FS_Subset
  <2>2. QED
    BY <2>1, FrontierTurnsOf
<1>10. FrontierTurns(C) \in Seq(RowsOf(s)) /\ FrontierTurns(T \ C) \in Seq(RowsOf(s))
  BY <1>6, <1>8, <1>9, SeqWithin
<1> DEFINE a == FrontierTurns(C)
           b == FrontierTurns(T \ C)
<1> HIDE DEF a, b
<1>11. a \o b \in Seq(RowsOf(s))
  BY <1>10, JoinOf DEF a, b
<1>12. Prefix(a \o b, FrontierBudget) \in Seq(RowsOf(s))
  BY <1>11, PrefixOf, QueriesAssumption
<1>13. Frontier(s, code) \in Seq(RowsOf(s))
  BY <1>3, <1>12 DEF a, b
<1>14. QED
  BY <1>13, RowsCounted

(* The files of a view tell only what the corpus says.                     *)
Speaks(db) == Tables(db) /\ db.relations \subseteq Corpus.relations

LEMMA ToldAsserted ==
  ASSUME NEW db, Speaks(db), NEW q, NEW r, Spoken(db, q, r)
  PROVE  Meets(q, r) /\ Asserted(r, q.code)
<1>1. Meets(q, r) /\ (Stored(db, r, q.code) \/ StoredBackwards(db, r, q.code, InverseDirection(r.dir)))
  BY DEF Spoken
<1>2. db.relations \subseteq Corpus.relations
  BY DEF Speaks
<1>3. CASE Stored(db, r, q.code)
  BY <1>1, <1>2, <1>3 DEF Stored, Asserted
<1>4. CASE StoredBackwards(db, r, q.code, InverseDirection(r.dir))
  BY <1>1, <1>2, <1>4 DEF StoredBackwards, Asserted
<1>5. QED
  BY <1>1, <1>3, <1>4

LEMMA RankedRowsOf ==
  ASSUME NEW db, Speaks(db), NEW q, NEW n \in Nat, NEW s, s = RankedRows(db, q, n)
  PROVE  s \in Seq(Row) /\ \A r \in RowsOf(s) : Meets(q, r) /\ Asserted(r, q.code)
<1> DEFINE D == DirectRows(db, q, n)
           R == ReadRows(db, q)
<1>1. Tables(db)
  BY DEF Speaks
<1>2. D \in SUBSET R
  BY <1>1, RowsAreRead
<1>3. \A r \in R : Spoken(db, q, r)
  BY <1>1, ReadRowsTold
<1>4. s \in Seq(D)
  BY <1>1, <1>2, RankOrientedOf DEF RankedRows
<1> HIDE DEF D, R
<1>5. \A r \in D : Meets(q, r) /\ Asserted(r, q.code) /\ r \in Row
  BY <1>2, <1>3, ToldAsserted DEF Meets
<1>6. s \in Seq(Row)
  BY <1>4, <1>5, SeqWithin
<1>7. RowsOf(s) \subseteq D
  BY <1>4, RowsCounted
<1>8. QED
  BY <1>5, <1>6, <1>7

(* A row that a path may start with, and one that may continue it.         *)
Starts(q, r) ==
  r \in Row /\ r.source = q.term /\ q.sense \in {NoSense, r.ssense} /\ Asserted(r, q.code)

Continues(q, t, r) ==
  r \in Row /\ r.source = t /\ q.target \in {Any, LanguageOf[r.target]} /\ Asserted(r, q.code)

LEMMA FirstHopsOf ==
  ASSUME NEW db, Speaks(db), NEW q \in Queries, NEW found, found = RankedRows(db, q, Scan),
         NEW s, s = FirstHops(db, q, found)
  PROVE  s \in Seq(Row) /\ \A r \in RowsOf(s) : Starts(q, r)
<1>1. Scan \in Nat /\ FrontierScan \in Nat
  BY QueriesAssumption
<1>2. CASE q.target = Any
  <2>1. found \in Seq(Row) /\ \A r \in RowsOf(found) : Meets(q, r) /\ Asserted(r, q.code)
    BY <1>1, RankedRowsOf
  <2>2. s = Prefix(found, FrontierScan)
    BY <1>2 DEF FirstHops
  <2>3. s \in Seq(Row) /\ RowsOf(s) \subseteq RowsOf(found)
    BY <1>1, <2>1, <2>2, PrefixWithin, FrontierScan \in Int
  <2>4. QED
    BY <2>1, <2>3 DEF Starts, Meets
<1>3. CASE q.target # Any
  <2> DEFINE u == [q EXCEPT !.target = Any]
  <2>1. u.term = q.term /\ u.sense = q.sense /\ u.code = q.code
    BY QuestionsAssumption
  <2>2. s = RankedRows(db, u, FrontierScan)
    BY <1>3 DEF FirstHops
  <2> HIDE DEF u
  <2>3. s \in Seq(Row) /\ \A r \in RowsOf(s) : Meets(u, r) /\ Asserted(r, u.code)
    BY <1>1, <2>2, RankedRowsOf
  <2>4. QED
    BY <2>1, <2>3 DEF Starts, Meets
<1>4. QED
  BY <1>2, <1>3

ViewSpeaks(v) == \A l \in DOMAIN v : Speaks(v[l])

LEMMA SecondHopsOf ==
  ASSUME NEW v, ViewSpeaks(v), NEW q \in Queries, NEW first,
         NEW second, second = SecondHops(v, q, first, TRUE)
  PROVE  \A t \in {r.target : r \in RowsOf(first)} :
           second[t] \in Seq(Row) /\ \A r \in RowsOf(second[t]) : Continues(q, t, r)
<1> SUFFICES ASSUME NEW t \in {r.target : r \in RowsOf(first)}
             PROVE  second[t] \in Seq(Row) /\ \A r \in RowsOf(second[t]) : Continues(q, t, r)
  OBVIOUS
<1> DEFINE u == [q EXCEPT !.term = t, !.sense = NoSense]
           db == v[LanguageOf[t]]
           H == Hops(db, u, TRUE)
<1>1. second[t] = IF LanguageOf[t] \in DOMAIN v THEN RankOriented(H, Branch) ELSE <<>>
  BY DEF SecondHops
<1>2. u.term = t /\ u.target = q.target /\ u.code = q.code
  BY QuestionsAssumption
<1> HIDE DEF u
<1>3. CASE LanguageOf[t] \in DOMAIN v
  <2>1. Speaks(db) /\ Tables(db)
    BY <1>3 DEF ViewSpeaks, Speaks
  <2> HIDE DEF db
  <2>2. H \in SUBSET ReadRows(db, u)
    BY <2>1, RowsAreRead, 0 \in Nat
  <2>3. \A r \in ReadRows(db, u) : Spoken(db, u, r)
    BY <2>1, ReadRowsTold
  <2>4. RankOriented(H, Branch) \in Seq(H)
    BY <2>1, <2>2, RankOrientedOf, QueriesAssumption
  <2> HIDE DEF H
  <2>5. \A r \in H : Meets(u, r) /\ Asserted(r, u.code) /\ r \in Row
    BY <2>1, <2>2, <2>3, ToldAsserted DEF Meets
  <2>6. second[t] \in Seq(H)
    BY <1>1, <1>3, <2>4
  <2>7. second[t] \in Seq(Row) /\ RowsOf(second[t]) \subseteq H
    BY <2>5, <2>6, SeqWithin, RowsCounted
  <2>8. QED
    BY <1>2, <2>5, <2>7 DEF Continues, Meets
<1>4. CASE LanguageOf[t] \notin DOMAIN v
  <2> DEFINE e == second[t]
  <2>1. e = <<>>
    BY <1>1, <1>4
  <2> HIDE DEF e
  <2>2. e \in Seq(Row) /\ DOMAIN e = {}
    BY <2>1
  <2>3. RowsOf(e) = {}
    BY <2>2 DEF RowsOf
  <2>4. QED
    BY <2>2, <2>3 DEF e
<1>5. QED
  BY <1>3, <1>4

(* Two rows that follow each other.                                        *)
Step(q, p) ==
  /\ Starts(q, p.a) /\ Continues(q, p.a.target, p.b)
  /\ p.a.prov = p.b.prov /\ p.a.dir = p.b.dir /\ Scoped(p.a, p.b) /\ p.b.target # q.term
  /\ p.at \in Keys(2)

(* The rows a first hop starts from and the rows a second hop continues with. *)
Starters(q, first) == first \in Seq(Row) /\ \A r \in RowsOf(first) : Starts(q, r)

Continued(q, first, second) ==
  \A t \in {r.target : r \in RowsOf(first)} :
    second[t] \in Seq(Row) /\ \A r \in RowsOf(second[t]) : Continues(q, t, r)

StepSet(q, S) ==
  /\ IsFiniteSet(S) /\ \A p \in S : Step(q, p)
  /\ \A p, o \in S : p.at = o.at => p = o

LEMMA StepsOf ==
  ASSUME NEW q, NEW first, Starters(q, first), NEW second, Continued(q, first, second)
  PROVE  StepSet(q, Steps(first, second, q.term))
<1> DEFINE S == Steps(first, second, q.term)
           I == DOMAIN first
           J(i) == DOMAIN second[first[i].target]
           pair(i, j) == [a |-> first[i], b |-> second[first[i].target][j], at |-> <<i, j>>]
           P(i) == {pair(i, j) : j \in J(i)}
           U == UNION {P(i) : i \in I}
<1>0. /\ first \in Seq(Row) /\ \A r \in RowsOf(first) : Starts(q, r)
      /\ \A t \in {r.target : r \in RowsOf(first)} :
           second[t] \in Seq(Row) /\ \A r \in RowsOf(second[t]) : Continues(q, t, r)
  BY DEF Starters, Continued
<1>1. S = {p \in U : p.a.prov = p.b.prov /\ p.a.dir = p.b.dir /\ Scoped(p.a, p.b) /\ p.b.target # q.term}
  BY DEF Steps
<1> HIDE DEF S
<1>2. \A i \in I : i \in Int /\ first[i] \in RowsOf(first) /\ first[i] \in Row
  BY <1>0 DEF RowsOf
<1>3. \A i \in I : second[first[i].target] \in Seq(Row) /\ Starts(q, first[i])
                   /\ \A r \in RowsOf(second[first[i].target]) : Continues(q, first[i].target, r)
  BY <1>0, <1>2
<1>4. ASSUME NEW i \in I, NEW j \in J(i)
      PROVE  j \in Int /\ Continues(q, first[i].target, second[first[i].target][j])
  <2> DEFINE z == second[first[i].target]
  <2>1. z \in Seq(Row) /\ \A r \in RowsOf(z) : Continues(q, first[i].target, r)
    BY <1>3
  <2>2. j \in DOMAIN z
    OBVIOUS
  <2> HIDE DEF z
  <2>3. j \in Int /\ z[j] \in RowsOf(z)
    BY <2>1, <2>2 DEF RowsOf
  <2>4. j \in Int /\ Continues(q, first[i].target, z[j])
    BY <2>1, <2>3
  <2>5. QED
    BY <2>4 DEF z
<1>5. \A i, j : /\ pair(i, j).a = first[i] /\ pair(i, j).b = second[first[i].target][j]
                /\ pair(i, j).at = <<i, j>>
  OBVIOUS
<1>6. IsFiniteSet(I) /\ \A i \in I : IsFiniteSet(J(i))
  <2>1. I = 1 .. Len(first) /\ IsFiniteSet(I)
    BY <1>0, FirstNumbers
  <2>2. ASSUME NEW i \in I PROVE IsFiniteSet(J(i))
    <3> DEFINE s == second[first[i].target]
    <3>1. s \in Seq(Row)
      BY <1>3, <2>2
    <3> HIDE DEF s
    <3>2. DOMAIN s = 1 .. Len(s) /\ IsFiniteSet(1 .. Len(s))
      BY <3>1, FirstNumbers
    <3>3. QED
      BY <3>2 DEF s
  <2>3. QED
    BY <2>1, <2>2
<1>7. U = {p \in U : \E i \in I : \E j \in J(i) : p = pair(i, j)}
  OBVIOUS
<1>8. \A i \in I : P(i) = {pair(i, j) : j \in J(i)}
  OBVIOUS
<1>9. U = UNION {P(i) : i \in I}
  OBVIOUS
<1> HIDE DEF pair, J, I
<1>10. IsFiniteSet(U)
  <2> DEFINE f == [i \in I |-> P(i)]
             F == {f[i] : i \in I}
  <2>1. ASSUME NEW i \in I PROVE IsFiniteSet(P(i))
    <3> DEFINE g == [j \in J(i) |-> pair(i, j)]
    <3>1. P(i) = {g[j] : j \in J(i)} /\ DOMAIN g = J(i)
      OBVIOUS
    <3> HIDE DEF g, P
    <3>2. QED
      BY <1>6, <3>1, ImageCounted
  <2>2. \A i \in I : f[i] = P(i)
    OBVIOUS
  <2>3. DOMAIN f = I /\ U = UNION F
    BY <1>9
  <2> HIDE DEF f, U, P
  <2>4. IsFiniteSet(F)
    BY <1>6, <2>3, ImageCounted
  <2>5. \A x \in F : IsFiniteSet(x)
    BY <2>1, <2>2
  <2> HIDE DEF F
  <2>6. QED
    BY <2>3, <2>4, <2>5, FS_UNION
<1> HIDE DEF U
<1>11. IsFiniteSet(S)
  <2>1. S \in SUBSET U
    BY <1>1
  <2>2. QED
    BY <1>10, <2>1, FS_Subset
<1>12. ASSUME NEW p \in S PROVE Step(q, p)
  <2>1. PICK i \in I : \E j \in J(i) : p = pair(i, j)
    BY <1>1, <1>7
  <2>2. PICK j \in J(i) : p = pair(i, j)
    BY <2>1
  <2>3. p.a = first[i] /\ p.b = second[first[i].target][j] /\ p.at = <<i, j>>
    BY <1>5, <2>2
  <2>4. Starts(q, p.a) /\ Continues(q, p.a.target, p.b)
    BY <1>3, <1>4, <2>3
  <2>5. p.at \in Keys(2)
    BY <1>2, <1>4, <2>3, Tuples
  <2>6. QED
    BY <1>1, <2>4, <2>5 DEF Step
<1>13. ASSUME NEW p \in S, NEW o \in S, p.at = o.at PROVE p = o
  <2>1. PICK i \in I : \E j \in J(i) : p = pair(i, j)
    BY <1>1, <1>7
  <2>2. PICK j \in J(i) : p = pair(i, j)
    BY <2>1
  <2>3. PICK k \in I : \E h \in J(k) : o = pair(k, h)
    BY <1>1, <1>7
  <2>4. PICK h \in J(k) : o = pair(k, h)
    BY <2>3
  <2>5. <<i, j>> = <<k, h>>
    BY <1>5, <1>13, <2>2, <2>4
  <2>6. i = k /\ j = h
    BY <2>5
  <2>7. QED
    BY <2>2, <2>4, <2>6
<1>14. QED
  BY <1>11, <1>12, <1>13 DEF StepSet, S

LEMMA EightNumbers ==
  \A a, b, c, d, e, f, g, h \in Int : <<a, b, c, d, e, f, g, h>> \in Keys(8)
BY DEF Keys

PathKey(p, sensed, code) ==
  <<IF p.a.ssense # NoSense THEN 1 ELSE IF Signature(p) \in sensed THEN 0 ELSE 2,
    -p.b.senses, -p.b.entries>> \o ByTag(p.b.target)
    \o <<p.b.tsense, Preferred(code, p.b.dir), p.b.dir, p.b.prov, p.a.ssense,
          Spelling[p.a.target], p.a.tsense, p.b.ssense>> \o p.at

LEMMA PathKeys ==
  ASSUME NEW q, NEW p, Step(q, p), NEW sensed, NEW code
  PROVE  \E k \in Keys(13) : PathKey(p, sensed, code) = Join(k, p.at)
<1> DEFINE c == IF p.a.ssense # NoSense THEN 1 ELSE IF Signature(p) \in sensed THEN 0 ELSE 2
           A == <<c, -p.b.senses, -p.b.entries>>
           B == <<p.b.tsense, Preferred(code, p.b.dir), p.b.dir, p.b.prov, p.a.ssense,
                  Spelling[p.a.target], p.a.tsense, p.b.ssense>>
           k == Join(Join(A, ByTag(p.b.target)), B)
<1>1. p.a \in Row /\ p.b \in Row
  BY DEF Step, Starts, Continues
<1>2. /\ p.b.target \in Term /\ p.a.target \in Term
      /\ -p.b.senses \in Int /\ -p.b.entries \in Int /\ p.b.tsense \in Int /\ p.b.dir \in Int
      /\ p.b.prov \in Int /\ p.b.ssense \in Int /\ p.a.ssense \in Int /\ p.a.tsense \in Int
  BY <1>1, RowNumbers
<1>3. c \in Int /\ Preferred(code, p.b.dir) \in Int /\ Spelling[p.a.target] \in Int
  BY <1>2, QueriesAssumption DEF Preferred
<1>4. PathKey(p, sensed, code) = Join(k, p.at)
  BY DEF PathKey, Join
<1> HIDE DEF c
<1>5. A \in Keys(3)
  BY <1>2, <1>3, Tuples
<1>6. B \in Keys(8)
  BY <1>2, <1>3, EightNumbers
<1>7. ByTag(p.b.target) \in Keys(2)
  BY <1>2, TagKeys
<1> HIDE DEF A, B
<1>8. Join(A, ByTag(p.b.target)) \in Keys(5)
  <2>1. Join(A, ByTag(p.b.target)) \in Keys(3 + 2)
    BY <1>5, <1>7, JoinKeys, 3 \in Nat, 2 \in Nat
  <2>2. QED
    BY <2>1
<1>9. k \in Keys(13)
  <2>1. k \in Keys(5 + 8)
    BY <1>6, <1>8, JoinKeys, 5 \in Nat, 8 \in Nat
  <2>2. QED
    BY <2>1
<1>10. QED
  BY <1>4, <1>9

LEMMA PathOrderOf ==
  ASSUME NEW q, NEW S, IsFiniteSet(S), \A p \in S : Step(q, p), \A p, o \in S : p.at = o.at => p = o,
         NEW sensed, NEW code
  PROVE  Lists(S, PathOrder(S, sensed, code))
<1> DEFINE key == [p \in S |-> PathKey(p, sensed, code)]
<1>1. PathOrder(S, sensed, code) = Sorted(key)
  BY DEF PathOrder, PathKey
<1>2. \A p \in S : key[p] = PathKey(p, sensed, code) /\ p.at \in Keys(2)
  BY DEF Step
<1>3. key = [p \in S |-> key[p]]
  OBVIOUS
<1> HIDE DEF key
<1>4. \A p \in S : \E k \in Keys(13) : key[p] = Join(k, p.at)
  BY <1>2, PathKeys
<1>5. ASSUME NEW p \in S PROVE key[p] \in Keys(15)
  <2>1. PICK k \in Keys(13) : key[p] = Join(k, p.at)
    BY <1>4
  <2>2. Join(k, p.at) \in Keys(13 + 2)
    BY <1>2, <2>1, JoinKeys, 13 \in Nat, 2 \in Nat
  <2>3. QED
    BY <2>1, <2>2
<1>6. ASSUME NEW p \in S, NEW o \in S, key[p] = key[o] PROVE p = o
  <2>1. PICK k \in Keys(13) : key[p] = Join(k, p.at)
    BY <1>4
  <2>2. PICK h \in Keys(13) : key[o] = Join(h, o.at)
    BY <1>4
  <2>3. Same(k, p.at, h, o.at)
    BY <1>2, <1>6, <2>1, <2>2, JoinApart, 13 \in Nat, 2 \in Nat
  <2>4. QED
    BY <2>3 DEF Same
<1>7. key \in [S -> Keys(15)]
  BY <1>3, <1>5
<1>8. Keyed(S, key, 15)
  BY <1>6, <1>7 DEF Keyed
<1>9. QED
  BY <1>1, <1>8, SortedIsList

(* What an answer may contain: a row that was read, or two that continue   *)
(* each other.                                                             *)
OneHop(q, d) == \E r \in Row : Meets(q, r) /\ Asserted(r, q.code) /\ d = [r EXCEPT !.path = <<r>>]

TwoHops(q, d) ==
  \E p : Step(q, p) /\ d = [p.b EXCEPT !.source = p.a.source, !.ssense = p.a.ssense,
                                       !.path = <<p.a, p.b>>]

LEMMA OwnRows ==
  ASSUME NEW s, NEW n \in Nat, DOMAIN s = 1 .. n, s = [k \in DOMAIN s |-> s[k]]
  PROVE  s \in Seq(RowsOf(s))
<1>1. \A k \in DOMAIN s : s[k] \in RowsOf(s)
  BY DEF RowsOf
<1>2. QED
  BY <1>1

LEMMA PathsOf ==
  ASSUME NEW v, ViewSpeaks(v), NEW q \in Queries,
         NEW first \in Seq(Row), \A r \in RowsOf(first) : Starts(q, r), NEW s, s = Paths(v, q, first, TRUE)
  PROVE  s \in Seq(RowsOf(s)) /\ \A d \in RowsOf(s) : TwoHops(q, d)
<1> DEFINE second == SecondHops(v, q, first, TRUE)
           S == Steps(first, second, q.term)
           order == PathOrder(S, Sensed(S), q.code)
<1>1. s = Joined(order)
  BY DEF Paths, RankPaths
<1>2. Starters(q, first) /\ Continued(q, first, second)
  <2>1. \A t \in {r.target : r \in RowsOf(first)} :
             second[t] \in Seq(Row) /\ \A r \in RowsOf(second[t]) : Continues(q, t, r)
    BY SecondHopsOf
  <2> HIDE DEF second
  <2>2. QED
    BY <2>1 DEF Starters, Continued
<1> HIDE DEF second
<1>3. StepSet(q, S)
  BY <1>2, StepsOf
<1> HIDE DEF S
<1>3a. /\ IsFiniteSet(S) /\ \A p \in S : Step(q, p)
       /\ \A p, o \in S : p.at = o.at => p = o
  BY <1>3 DEF StepSet
<1>4. order \in Seq(S)
  BY <1>3a, PathOrderOf DEF Lists
<1> HIDE DEF order
<1> DEFINE row(p) == [p.b EXCEPT !.source = p.a.source, !.ssense = p.a.ssense, !.path = <<p.a, p.b>>]
<1>5. s = [k \in DOMAIN order |-> row(order[k])]
  BY <1>1 DEF Joined
<1>6. \A k \in DOMAIN order : order[k] \in S /\ TwoHops(q, row(order[k]))
  <2>1. \A k \in DOMAIN order : order[k] \in S
    BY <1>4
  <2>2. \A p \in S : TwoHops(q, row(p))
    BY <1>3a DEF TwoHops
  <2> HIDE DEF row
  <2>3. QED
    BY <2>1, <2>2
<1> HIDE DEF row
<1>7. DOMAIN order = 1 .. Len(order) /\ Len(order) \in Nat
  BY <1>4
<1>8. DOMAIN s = DOMAIN order /\ \A k \in DOMAIN s : s[k] \in RowsOf(s) /\ s[k] = row(order[k])
  BY <1>5 DEF RowsOf
<1>9. s \in Seq(RowsOf(s))
  <2>1. s = [k \in DOMAIN s |-> s[k]] /\ DOMAIN s = 1 .. Len(order)
    BY <1>5, <1>7
  <2>2. QED
    BY <1>7, <2>1, OwnRows
<1>10. \A d \in RowsOf(s) : TwoHops(q, d)
  <2> SUFFICES ASSUME NEW d \in RowsOf(s)
               PROVE  TwoHops(q, d)
    OBVIOUS
  <2>1. PICK k \in DOMAIN s : d = s[k]
    BY DEF RowsOf
  <2>2. k \in DOMAIN order /\ d = row(order[k])
    BY <1>8, <2>1
  <2>3. QED
    BY <1>6, <2>2
<1>11. QED
  BY <1>9, <1>10

LEMMA DirectOf ==
  ASSUME NEW q, NEW found \in Seq(Row), \A r \in RowsOf(found) : Meets(q, r) /\ Asserted(r, q.code),
         NEW s, s = Direct(found)
  PROVE  /\ s \in Seq(RowsOf(s)) /\ \A d \in RowsOf(s) : OneHop(q, d)
         /\ \A i, j \in DOMAIN s : Identity(s[i]) = Identity(s[j]) => i = j
         /\ \A r \in RowsOf(found) : \E i \in DOMAIN s : Identity(s[i]) = Identity(r)
<1> DEFINE row(r) == [r EXCEPT !.path = <<r>>]
           x == [i \in DOMAIN found |-> row(found[i])]
           X == {d \in RowsOf(x) : OneHop(q, d)}
<1>1. s = TargetDiverse(x, {})
  BY DEF Direct
<1>2. \A i \in DOMAIN found : found[i] \in Row /\ found[i] \in RowsOf(found)
  BY DEF RowsOf
<1>3. \A i \in DOMAIN found : OneHop(q, row(found[i]))
  BY <1>2 DEF OneHop
<1>4. \A r \in Row : Identity(row(r)) = Identity(r)
  BY DEF Identity, Row
<1> HIDE DEF row
<1>5. DOMAIN x = DOMAIN found /\ \A i \in DOMAIN x : x[i] = row(found[i])
  OBVIOUS
<1>6. \A i \in DOMAIN x : x[i] \in X
  BY <1>3, <1>5 DEF RowsOf
<1>7. x \in Seq(X)
  <2>1. DOMAIN found = 1 .. Len(found) /\ Len(found) \in Nat
    OBVIOUS
  <2> HIDE DEF X
  <2>2. QED
    BY <1>6, <2>1
<1>8. \A d \in X : OneHop(q, d)
  OBVIOUS
<1> HIDE DEF X, x
<1>9. s \in Seq(X) /\ Diverse(s, x, {})
  BY <1>1, <1>7, TargetDiverseOf
<1>10. RowsOf(s) \subseteq X
  BY <1>9, RowsCounted
<1>11. s \in Seq(RowsOf(s))
  <2>1. DOMAIN s = 1 .. Len(s) /\ Len(s) \in Nat /\ s = [i \in DOMAIN s |-> s[i]]
    BY <1>9
  <2>2. QED
    BY <2>1, OwnRows
<1>12. \A i, j \in DOMAIN s : Identity(s[i]) = Identity(s[j]) => i = j
  BY <1>9 DEF Diverse
<1>13. \A r \in RowsOf(found) : \E i \in DOMAIN s : Identity(s[i]) = Identity(r)
  <2> SUFFICES ASSUME NEW k \in DOMAIN found
               PROVE  \E i \in DOMAIN s : Identity(s[i]) = Identity(found[k])
    BY DEF RowsOf
  <2>1. \E i \in DOMAIN s : Identity(s[i]) = Identity(x[k])
    BY <1>5, <1>9 DEF Diverse
  <2>2. Identity(x[k]) = Identity(found[k])
    BY <1>2, <1>4, <1>5
  <2>3. QED
    BY <2>1, <2>2
<1>14. QED
  BY <1>8, <1>10, <1>11, <1>12, <1>13

Selected(s, direct, paths, limit, n) ==
  \E m, l \in Nat :
    /\ DOMAIN s = 1 .. m + l /\ Len(s) = m + l /\ l <= n
    /\ \A k \in 1 .. m : k \in DOMAIN direct /\ s[k] = direct[k]
    /\ \A k \in 1 .. l : k \in DOMAIN paths /\ s[m + k] = paths[k]
    /\ n <= limit => m + l <= limit /\ (m + l < limit => m = Len(direct))

LEMMA SelectOf ==
  ASSUME NEW A, NEW direct \in Seq(A), NEW paths \in Seq(A), NEW limit \in Nat, NEW n \in Nat,
         NEW s, s = Select(direct, paths, limit, n)
  PROVE  s \in Seq(A) /\ Selected(s, direct, paths, limit, n)
<1> DEFINE t == Prefix(paths, n)
           h == Prefix(direct, limit - Len(t))
           m == Len(h)
           l == Len(t)
<1>1. s = h \o t
  BY DEF Select
<1>2. /\ t \in Seq(A) /\ l = (IF n < Len(paths) THEN n ELSE Len(paths))
      /\ \A k \in DOMAIN t : k \in DOMAIN paths /\ t[k] = paths[k]
  BY PrefixOf
<1>3. l \in Nat /\ l <= n /\ limit - l \in Int /\ Len(paths) \in Nat /\ Len(direct) \in Nat
  BY <1>2
<1> HIDE DEF t
<1>4. /\ h \in Seq(A)
      /\ m = (IF limit - l < 0 THEN 0 ELSE IF limit - l < Len(direct) THEN limit - l ELSE Len(direct))
      /\ \A k \in DOMAIN h : k \in DOMAIN direct /\ h[k] = direct[k]
  BY <1>3, PrefixWithin
<1> HIDE DEF h
<1>5. /\ s \in Seq(A) /\ Len(s) = m + l /\ m \in Nat /\ DOMAIN s = 1 .. m + l
      /\ \A k \in 1 .. m : s[k] = h[k]
      /\ \A k \in 1 .. l : s[m + k] = t[k]
  <2>1. h \in Seq(A) /\ t \in Seq(A)
    BY <1>2, <1>4
  <2>2. /\ s \in Seq(A) /\ Len(s) = Len(h) + Len(t) /\ Len(h) \in Nat /\ DOMAIN s = 1 .. Len(h) + Len(t)
        /\ \A k \in 1 .. Len(h) : s[k] = h[k]
        /\ \A k \in 1 .. Len(t) : s[Len(h) + k] = t[k]
    BY <1>1, <2>1, JoinOf
  <2>3. QED
    BY <2>2
<1>6. DOMAIN h = 1 .. m /\ DOMAIN t = 1 .. l
  BY <1>2, <1>4
<1> HIDE DEF m, l
<1>7. /\ \A k \in 1 .. m : k \in DOMAIN direct /\ s[k] = direct[k]
      /\ \A k \in 1 .. l : k \in DOMAIN paths /\ s[m + k] = paths[k]
  BY <1>2, <1>4, <1>5, <1>6
<1>8. n <= limit => m + l <= limit /\ (m + l < limit => m = Len(direct))
  BY <1>3, <1>4
<1>9. Selected(s, direct, paths, limit, n)
  BY <1>3, <1>5, <1>7, <1>8 DEF Selected
<1>10. QED
  BY <1>5, <1>9

(* The places of an answer: none taken twice, and the share of the paths.  *)
PlacesKept(s, direct, limit, n) ==
  /\ \A i, j \in DOMAIN s : Identity(s[i]) = Identity(s[j]) => i = j
  /\ n <= limit =>
       /\ Len(s) <= limit
       /\ Len(s) < limit => \A k \in DOMAIN direct : k \in DOMAIN s /\ s[k] = direct[k]

LEMMA SelectApart ==
  ASSUME NEW A, NEW direct \in Seq(A), NEW paths \in Seq(A), NEW limit \in Nat, NEW n \in Nat,
         NEW s, s = Select(direct, paths, limit, n),
         \A i, j \in DOMAIN direct : Identity(direct[i]) = Identity(direct[j]) => i = j,
         \A i, j \in DOMAIN paths : Identity(paths[i]) = Identity(paths[j]) => i = j,
         \A i \in DOMAIN paths : Identity(paths[i]) \notin {Identity(r) : r \in RowsOf(direct)}
  PROVE  PlacesKept(s, direct, limit, n)
<1>1. Selected(s, direct, paths, limit, n)
  BY SelectOf
<1>2. PICK m \in Nat, l \in Nat :
        /\ DOMAIN s = 1 .. m + l /\ Len(s) = m + l /\ l <= n
        /\ \A k \in 1 .. m : k \in DOMAIN direct /\ s[k] = direct[k]
        /\ \A k \in 1 .. l : k \in DOMAIN paths /\ s[m + k] = paths[k]
        /\ n <= limit => m + l <= limit /\ (m + l < limit => m = Len(direct))
  BY <1>1 DEF Selected
<1>3. \A k \in DOMAIN s : ~ (k <= m) => k - m \in 1 .. l /\ m + (k - m) = k
  BY <1>2
<1>4. \A k \in DOMAIN s : k <= m => k \in 1 .. m
  BY <1>2
<1>5. \A k \in DOMAIN s : ~ (k <= m) => k - m \in DOMAIN paths /\ s[k] = paths[k - m]
  BY <1>2, <1>3
<1>6. \A k \in DOMAIN s : k <= m => k \in DOMAIN direct /\ s[k] = direct[k]
  BY <1>2, <1>4
<1>7. \A k \in DOMAIN direct : Identity(direct[k]) \in {Identity(r) : r \in RowsOf(direct)}
  BY DEF RowsOf
<1>8. ASSUME NEW i \in DOMAIN s, NEW j \in DOMAIN s, Identity(s[i]) = Identity(s[j]) PROVE i = j
  <2>1. CASE i <= m /\ j <= m
    BY <1>6, <1>8, <2>1
  <2>2. CASE ~ (i <= m) /\ ~ (j <= m)
    <3>1. i - m = j - m
      BY <1>5, <1>8, <2>2
    <3>2. QED
      BY <1>2, <3>1
  <2>3. CASE i <= m /\ ~ (j <= m)
    BY <1>5, <1>6, <1>7, <1>8, <2>3
  <2>4. CASE ~ (i <= m) /\ j <= m
    BY <1>5, <1>6, <1>7, <1>8, <2>4
  <2>5. QED
    BY <2>1, <2>2, <2>3, <2>4
<1>9. ASSUME n <= limit, Len(s) < limit, NEW k \in DOMAIN direct
      PROVE  k \in DOMAIN s /\ s[k] = direct[k]
  <2>1. m = Len(direct) /\ DOMAIN direct = 1 .. Len(direct)
    BY <1>2, <1>9
  <2>2. k \in 1 .. m /\ k \in DOMAIN s
    BY <1>2, <2>1
  <2>3. QED
    BY <1>2, <2>2
<1>10. n <= limit => Len(s) <= limit
  BY <1>2
<1>11. QED
  BY <1>8, <1>9, <1>10 DEF PlacesKept

InAnswer(q, e) ==
  LET p == e.path IN
  /\ \A k \in DOMAIN p : Asserted(p[k], q.code)
  /\ p[1].source = q.term /\ p[Len(p)].target = e.row.target
  /\ q.target \in {Any, LanguageOf[e.row.target]}
  /\ q.sense \in {NoSense, p[1].ssense}
  /\ Len(p) = 2 => /\ p[1].target = p[2].source /\ p[1].tsense = p[2].ssense
                   /\ p[1].prov = p[2].prov /\ p[1].dir = p[2].dir
                   /\ e.row.target # q.term

Shown(d) == [row |-> Edge(d), path |-> [k \in DOMAIN d.path |-> Edge(d.path[k])]]

LEMMA EdgeIs ==
  ASSUME NEW r
  PROVE  /\ Edge(r).source = r.source /\ Edge(r).ssense = r.ssense /\ Edge(r).target = r.target
         /\ Edge(r).tsense = r.tsense /\ Edge(r).dir = r.dir /\ Edge(r).prov = r.prov
         /\ Identity(Edge(r)) = Identity(r)
         /\ \A code : Asserted(r, code) => Asserted(Edge(r), code)
<1>1. /\ Edge(r).source = r.source /\ Edge(r).ssense = r.ssense /\ Edge(r).target = r.target
      /\ Edge(r).tsense = r.tsense /\ Edge(r).dir = r.dir /\ Edge(r).prov = r.prov
  BY DEF Edge
<1>2. Identity(Edge(r)) = Identity(r)
  BY <1>1 DEF Identity
<1>3. \A code : Asserted(r, code) => Asserted(Edge(r), code)
  BY <1>1 DEF Asserted
<1>4. QED
  BY <1>1, <1>2, <1>3

LEMMA OneHopTruthful ==
  ASSUME NEW q, NEW d, OneHop(q, d)
  PROVE  InAnswer(q, Shown(d)) /\ Identity(Shown(d).row) = Identity(d) /\ Len(Shown(d).path) = 1
<1>1. PICK r \in Row : Meets(q, r) /\ Asserted(r, q.code) /\ d = [r EXCEPT !.path = <<r>>]
  BY DEF OneHop
<1>2. d.path = <<r>> /\ d.target = r.target
  BY <1>1 DEF Row
<1> DEFINE e == Shown(d)
           x == Edge(r)
<1>3. e.row = Edge(d) /\ e.path = [k \in DOMAIN d.path |-> Edge(d.path[k])]
  BY DEF Shown
<1>4. e.path = <<x>>
  BY <1>2, <1>3
<1>5. /\ x.source = q.term /\ x.target = r.target /\ x.ssense = r.ssense /\ Asserted(x, q.code)
      /\ q.target \in {Any, LanguageOf[r.target]} /\ q.sense \in {NoSense, r.ssense}
  BY <1>1, EdgeIs DEF Meets
<1>6. e.row.target = r.target /\ Identity(e.row) = Identity(d)
  BY <1>2, <1>3, EdgeIs
<1> HIDE DEF e, x
<1>7. DOMAIN e.path = {1} /\ Len(e.path) = 1 /\ e.path[1] = x
  BY <1>4
<1>8. InAnswer(q, e)
  BY <1>5, <1>6, <1>7 DEF InAnswer
<1>9. QED
  BY <1>6, <1>7, <1>8 DEF e

LEMMA TwoHopsTruthful ==
  ASSUME NEW q, NEW d, TwoHops(q, d)
  PROVE  InAnswer(q, Shown(d)) /\ Identity(Shown(d).row) = Identity(d)
<1>1. PICK p : Step(q, p) /\ d = [p.b EXCEPT !.source = p.a.source, !.ssense = p.a.ssense,
                                             !.path = <<p.a, p.b>>]
  BY DEF TwoHops
<1> DEFINE a == p.a
           b == p.b
<1>2. /\ a \in Row /\ b \in Row /\ a.source = q.term /\ q.sense \in {NoSense, a.ssense}
      /\ Asserted(a, q.code) /\ b.source = a.target /\ Asserted(b, q.code)
      /\ q.target \in {Any, LanguageOf[b.target]}
      /\ a.prov = b.prov /\ a.dir = b.dir /\ Scoped(a, b) /\ b.target # q.term
  BY <1>1 DEF Step, Starts, Continues
<1>3. a.tsense = b.ssense
  BY <1>2 DEF Scoped, Unsensed
<1>4. d = [b EXCEPT !.source = a.source, !.ssense = a.ssense, !.path = <<a, b>>]
  BY <1>1
<1> HIDE DEF a, b
<1>5. d.path = <<a, b>> /\ d.target = b.target
  BY <1>2, <1>4 DEF Row
<1> DEFINE e == Shown(d)
           x == Edge(a)
           y == Edge(b)
<1>6. e.row = Edge(d) /\ e.path = [k \in DOMAIN d.path |-> Edge(d.path[k])]
  BY DEF Shown
<1>7. e.path = <<x, y>>
  BY <1>5, <1>6
<1>8. /\ x.source = q.term /\ x.ssense = a.ssense /\ x.target = a.target /\ x.tsense = a.tsense
      /\ x.prov = a.prov /\ x.dir = a.dir /\ Asserted(x, q.code)
  BY <1>2, EdgeIs
<1>9. /\ y.source = b.source /\ y.ssense = b.ssense /\ y.target = b.target /\ y.prov = b.prov
      /\ y.dir = b.dir /\ Asserted(y, q.code)
  BY <1>2, EdgeIs
<1>10. e.row.target = b.target /\ Identity(e.row) = Identity(d)
  BY <1>5, <1>6, EdgeIs
<1> HIDE DEF e, x, y
<1>11. DOMAIN e.path = {1, 2} /\ Len(e.path) = 2 /\ e.path[1] = x /\ e.path[2] = y
  BY <1>7
<1>12. InAnswer(q, e)
  BY <1>2, <1>3, <1>8, <1>9, <1>10, <1>11 DEF InAnswer
<1>13. QED
  BY <1>10, <1>12 DEF e

(* What the paths of a search give: rows two hops away, of targets the     *)
(* direct rows have not.                                                   *)
Onward(q, s, direct) ==
  /\ s \in Seq(RowsOf(s)) /\ \A d \in RowsOf(s) : TwoHops(q, d)
  /\ \A i, j \in DOMAIN s : Identity(s[i]) = Identity(s[j]) => i = j
  /\ \A i \in DOMAIN s : Identity(s[i]) \notin {Identity(r) : r \in RowsOf(direct)}

LEMMA TransitiveOnward ==
  ASSUME NEW v, ViewSpeaks(v), NEW q \in Queries, LanguageOf[q.term] \in DOMAIN v, NEW direct
  PROVE  Onward(q, Transitive(v, q, RankedRows(v[LanguageOf[q.term]], q, Scan), direct, TRUE), direct)
<1> DEFINE db == v[LanguageOf[q.term]]
           found == RankedRows(db, q, Scan)
           s == Transitive(v, q, found, direct, TRUE)
           hops == FirstHops(db, q, found)
           front == Frontier(hops, q.code)
           paths == Paths(v, q, front, TRUE)
           seen == {Identity(r) : r \in RowsOf(direct)}
<1>1. s = TargetDiverse(paths, seen)
  BY DEF Transitive
<1>2. Speaks(db)
  BY DEF ViewSpeaks
<1>0. found = RankedRows(db, q, Scan)
  OBVIOUS
<1> HIDE DEF db, found, s
<1>3. hops \in Seq(Row) /\ \A r \in RowsOf(hops) : Starts(q, r)
  BY <1>0, <1>2, FirstHopsOf
<1> HIDE DEF hops
<1>4. front \in Seq(RowsOf(hops)) /\ RowsOf(front) \subseteq RowsOf(hops)
  BY <1>3, FrontierOf
<1> HIDE DEF front
<1>5. front \in Seq(Row) /\ \A r \in RowsOf(front) : Starts(q, r)
  <2>1. RowsOf(hops) \subseteq Row
    BY <1>3, RowsCounted
  <2>2. QED
    BY <1>3, <1>4, <2>1, SeqWithin
<1>6. paths \in Seq(RowsOf(paths)) /\ \A d \in RowsOf(paths) : TwoHops(q, d)
  BY <1>5, PathsOf
<1> HIDE DEF paths, seen
<1>7. s \in Seq(RowsOf(paths)) /\ Diverse(s, paths, seen)
  BY <1>1, <1>6, TargetDiverseOf
<1>8. s \in Seq(RowsOf(s))
  <2> DEFINE R == RowsOf(paths)
  <2>1. s \in Seq(R)
    BY <1>7
  <2> HIDE DEF R
  <2>2. DOMAIN s = 1 .. Len(s) /\ Len(s) \in Nat
    BY ONLY <2>1
  <2>3. s = [i \in DOMAIN s |-> s[i]]
    BY ONLY <2>1, <2>2
  <2>4. QED
    BY <2>2, <2>3, OwnRows
<1>9. Onward(q, s, direct)
  BY <1>6, <1>7, <1>8 DEF Diverse, seen, Onward
<1>10. QED
  BY <1>9 DEF s, found, db

(* An answer shows rows that were read, and what a limit leaves of them.   *)
Related(q, a, found, limit, n) ==
  /\ \A i \in DOMAIN a : InAnswer(q, a[i])
  /\ \A i, j \in DOMAIN a : Identity(a[i].row) = Identity(a[j].row) => i = j
  /\ IsFiniteSet({i \in DOMAIN a : Len(a[i].path) = 2})
  /\ Cardinality({i \in DOMAIN a : Len(a[i].path) = 2}) <= n
  /\ n <= limit =>
       /\ Len(a) <= limit
       /\ Len(a) < limit =>
            \A r \in RowsOf(found) : \E i \in DOMAIN a : Identity(a[i].row) = Identity(r)

LEMMA ShownRows ==
  ASSUME NEW q, NEW direct, direct \in Seq(RowsOf(direct)), \A d \in RowsOf(direct) : OneHop(q, d),
         NEW paths, paths \in Seq(RowsOf(paths)), \A d \in RowsOf(paths) : TwoHops(q, d),
         \A i, j \in DOMAIN direct : Identity(direct[i]) = Identity(direct[j]) => i = j,
         \A i, j \in DOMAIN paths : Identity(paths[i]) = Identity(paths[j]) => i = j,
         \A i \in DOMAIN paths : Identity(paths[i]) \notin {Identity(r) : r \in RowsOf(direct)},
         NEW found, \A r \in RowsOf(found) : \E i \in DOMAIN direct : Identity(direct[i]) = Identity(r),
         NEW limit \in Nat, NEW n \in Nat,
         NEW a, a = Results(Select(direct, paths, limit, n))
  PROVE  Related(q, a, found, limit, n)
<1> DEFINE s == Select(direct, paths, limit, n)
           A == RowsOf(direct) \cup RowsOf(paths)
<1>1. direct \in Seq(A) /\ paths \in Seq(A)
  BY SeqWithin
<1> HIDE DEF A
<1>2. s \in Seq(A) /\ Selected(s, direct, paths, limit, n) /\ PlacesKept(s, direct, limit, n)
  BY <1>1, SelectOf, SelectApart
<1>3. a = [i \in DOMAIN s |-> Shown(s[i])]
  BY DEF Results, Shown
<1> HIDE DEF s
<1>4. PICK m \in Nat, l \in Nat :
        /\ DOMAIN s = 1 .. m + l /\ Len(s) = m + l /\ l <= n
        /\ \A k \in 1 .. m : k \in DOMAIN direct /\ s[k] = direct[k]
        /\ \A k \in 1 .. l : k \in DOMAIN paths /\ s[m + k] = paths[k]
        /\ n <= limit => m + l <= limit /\ (m + l < limit => m = Len(direct))
  BY <1>2 DEF Selected
<1>5. ASSUME NEW k \in DOMAIN s
      PROVE  (k \in 1 .. m /\ OneHop(q, s[k])) \/ (k \in m + 1 .. m + l /\ TwoHops(q, s[k]))
  <2>1. CASE k <= m
    <3>1. k \in 1 .. m
      BY <1>4, <2>1
    <3>2. k \in DOMAIN direct /\ s[k] = direct[k]
      BY <1>4, <3>1
    <3>3. OneHop(q, s[k])
      BY <3>2 DEF RowsOf
    <3>4. QED
      BY <3>1, <3>3
  <2>2. CASE ~ (k <= m)
    <3>1. k \in m + 1 .. m + l /\ k - m \in 1 .. l /\ m + (k - m) = k
      BY <1>4, <2>2
    <3>2. k - m \in DOMAIN paths /\ s[m + (k - m)] = paths[k - m]
      BY <1>4, <3>1
    <3>3. TwoHops(q, s[k])
      BY <3>1, <3>2 DEF RowsOf
    <3>4. QED
      BY <3>1, <3>3
  <2>3. QED
    BY <2>1, <2>2
<1>6. DOMAIN a = DOMAIN s /\ Len(a) = Len(s) /\ \A i \in DOMAIN a : a[i] = Shown(s[i])
  <2>1. DOMAIN s = 1 .. Len(s) /\ Len(s) \in Nat
    BY <1>2
  <2>2. QED
    BY <1>3, <2>1
<1>7. \A i \in DOMAIN a : InAnswer(q, a[i]) /\ Identity(a[i].row) = Identity(s[i])
  BY <1>5, <1>6, OneHopTruthful, TwoHopsTruthful
<1>8. \A i \in DOMAIN a : Len(a[i].path) = 2 => i \in m + 1 .. m + l
  <2> SUFFICES ASSUME NEW i \in DOMAIN a, i \notin m + 1 .. m + l PROVE Len(a[i].path) # 2
    OBVIOUS
  <2>1. OneHop(q, s[i])
    BY <1>5, <1>6
  <2>2. Len(a[i].path) = 1
    BY <1>6, <2>1, OneHopTruthful
  <2>3. QED
    BY <2>2
<1> DEFINE T == {i \in DOMAIN a : Len(a[i].path) = 2}
<1>9. IsFiniteSet(T) /\ Cardinality(T) <= n
  <2>1. T \in SUBSET (m + 1 .. m + l)
    BY <1>8
  <2>2. /\ IsFiniteSet(m + 1 .. m + l)
        /\ Cardinality(m + 1 .. m + l) = (IF m + 1 > m + l THEN 0 ELSE (m + l) - (m + 1) + 1)
    BY FS_Interval, m + 1 \in Int, m + l \in Int
  <2>3. Cardinality(m + 1 .. m + l) = l
    BY <2>2
  <2> HIDE DEF T
  <2>4. IsFiniteSet(T) /\ Cardinality(T) <= Cardinality(m + 1 .. m + l) /\ Cardinality(T) \in Nat
    BY <2>1, <2>2, FS_Subset, FS_CardinalityType
  <2>5. QED
    BY <1>4, <2>3, <2>4
<1>10. \A i, j \in DOMAIN a : Identity(a[i].row) = Identity(a[j].row) => i = j
  BY <1>2, <1>6, <1>7 DEF PlacesKept
<1>11. n <= limit => Len(a) <= limit
  BY <1>2, <1>6 DEF PlacesKept
<1>12. ASSUME n <= limit, Len(a) < limit, NEW r \in RowsOf(found)
       PROVE  \E i \in DOMAIN a : Identity(a[i].row) = Identity(r)
  <2>1. PICK k \in DOMAIN direct : Identity(direct[k]) = Identity(r)
    OBVIOUS
  <2>2. k \in DOMAIN s /\ s[k] = direct[k]
    BY <1>2, <1>6, <1>12 DEF PlacesKept
  <2>3. QED
    BY <1>6, <1>7, <2>1, <2>2
<1>13. QED
  BY <1>7, <1>9, <1>10, <1>11, <1>12 DEF Related

LEMMA RelationsRelated ==
  ASSUME NEW v, ViewSpeaks(v), NEW q \in Queries, LanguageOf[q.term] \in DOMAIN v,
         NEW limit \in Nat, NEW n \in Nat, NEW a, a = Relations(v, q, limit, n, TRUE)
  PROVE  Related(q, a, RankedRows(v[LanguageOf[q.term]], q, Scan), limit, n)
<1> DEFINE db == v[LanguageOf[q.term]]
           found == RankedRows(db, q, Scan)
           direct == Direct(found)
           paths == IF n = 0 THEN <<>> ELSE Transitive(v, q, found, direct, TRUE)
<1>1. a = Results(Select(direct, paths, limit, n))
  BY DEF Relations, Combine
<1>2. Speaks(db)
  BY DEF ViewSpeaks
<1>3. found \in Seq(Row) /\ \A r \in RowsOf(found) : Meets(q, r) /\ Asserted(r, q.code)
  BY <1>2, RankedRowsOf, QueriesAssumption
<1>4. CASE n = 0
  <2> HIDE DEF found, direct
  <2> DEFINE e == <<>>
  <2>1. e = paths
    BY <1>4
  <2>2. DOMAIN e = {} /\ e = [i \in DOMAIN e |-> e[i]]
    OBVIOUS
  <2> HIDE DEF e, paths
  <2>3. paths \in Seq(RowsOf(paths)) /\ DOMAIN paths = {} /\ RowsOf(paths) = {}
    <3>1. e \in Seq(RowsOf(e))
      BY <2>2, OwnRows, 0 \in Nat, 1 .. 0 = {}
    <3>2. RowsOf(e) = {}
      BY <2>2 DEF RowsOf
    <3>3. QED
      BY <2>1, <2>2, <3>1, <3>2
  <2>4. /\ direct \in Seq(RowsOf(direct)) /\ \A d \in RowsOf(direct) : OneHop(q, d)
        /\ \A i, j \in DOMAIN direct : Identity(direct[i]) = Identity(direct[j]) => i = j
        /\ \A r \in RowsOf(found) : \E i \in DOMAIN direct : Identity(direct[i]) = Identity(r)
    BY <1>3, DirectOf DEF direct
  <2>5. Related(q, a, found, limit, n)
    BY <1>1, <2>3, <2>4, ShownRows
  <2>6. QED
    BY <2>5 DEF found
<1>5. CASE n # 0
  <2>1. paths = Transitive(v, q, found, direct, TRUE)
    BY <1>5
  <2>2. Onward(q, Transitive(v, q, found, direct, TRUE), direct)
    <3> HIDE DEF direct
    <3>1. QED
      BY TransitiveOnward
  <2> HIDE DEF direct, paths, found
  <2>3. /\ paths \in Seq(RowsOf(paths)) /\ \A d \in RowsOf(paths) : TwoHops(q, d)
        /\ \A i, j \in DOMAIN paths : Identity(paths[i]) = Identity(paths[j]) => i = j
        /\ \A i \in DOMAIN paths : Identity(paths[i]) \notin {Identity(r) : r \in RowsOf(direct)}
    BY <2>1, <2>2 DEF Onward
  <2>4. /\ direct \in Seq(RowsOf(direct)) /\ \A d \in RowsOf(direct) : OneHop(q, d)
        /\ \A i, j \in DOMAIN direct : Identity(direct[i]) = Identity(direct[j]) => i = j
        /\ \A r \in RowsOf(found) : \E i \in DOMAIN direct : Identity(direct[i]) = Identity(r)
    BY <1>3, DirectOf DEF direct
  <2>5. Related(q, a, found, limit, n)
    BY <1>1, <2>3, <2>4, ShownRows
  <2>6. QED
    BY <2>5 DEF found
<1>6. QED
  BY <1>4, <1>5

LEMMA ViewTells ==
  ASSUME PackedInv, view # <<>>
  PROVE  ViewSpeaks(view)
<1> SUFFICES ASSUME NEW l \in DOMAIN view PROVE Speaks(view[l])
  BY DEF ViewSpeaks
<1>1. packs # NotYet
  BY ViewPacks
<1>2. PICK i \in DOMAIN packs : view[l] = packs[i].content
  BY ViewPacks
<1>3. Tables(packs[i].content) /\ packs[i].content.relations \subseteq Corpus.relations
  BY <1>1, PackTables, NoRowsAdded
<1>4. QED
  BY <1>2, <1>3 DEF Speaks

LEMMA RelationsAnswered ==
  ASSUME PackedInv, Answered("relations")
  PROVE  /\ asked.limits[1] \in Nat /\ asked.limits[2] \in Nat
         /\ Related(asked.q, asked.answer, RankedRows(view[LanguageOf[asked.q.term]], asked.q, Scan),
                    asked.limits[1], asked.limits[2])
<1>1. asked # NotYet /\ asked.answer # Unavailable /\ asked.q.op = "relations"
  BY DEF Answered
<1>2. view # <<>> /\ \E q \in Queries, limits \in Limits :
         asked = [q |-> q, limits |-> limits, answer |-> Answer(view, q, limits, TRUE)]
  BY <1>1 DEF PackedInv, Replied
<1>3. PICK q \in Queries, limits \in Limits :
         asked = [q |-> q, limits |-> limits, answer |-> Answer(view, q, limits, TRUE)]
  BY <1>2
<1>4. asked.q = q /\ asked.limits = limits /\ asked.answer = Answer(view, q, limits, TRUE)
  BY <1>3
<1>5. limits[1] \in Nat /\ limits[2] \in Nat
  BY QuestionsAssumption
<1>6. LanguageOf[q.term] \in DOMAIN view
  BY <1>1, <1>4 DEF Answer
<1>7. q.op = "relations"
  BY <1>1, <1>4
<1>8. asked.answer = Relations(view, q, limits[1], limits[2], TRUE)
  BY <1>4, <1>6, <1>7 DEF Answer
<1>9. ViewSpeaks(view)
  BY <1>2, ViewTells
<1>10. Related(q, asked.answer, RankedRows(view[LanguageOf[q.term]], q, Scan), limits[1], limits[2])
  BY <1>5, <1>6, <1>8, <1>9, RelationsRelated
<1>11. QED
  BY <1>4, <1>5, <1>10

LEMMA Truthful == PackedInv => AnswerTruthful
<1> SUFFICES ASSUME PackedInv, Answered("relations") PROVE AnswerTruthful
  BY DEF AnswerTruthful
<1>1. /\ \A i \in DOMAIN asked.answer : InAnswer(asked.q, asked.answer[i])
      /\ \A i, j \in DOMAIN asked.answer :
           Identity(asked.answer[i].row) = Identity(asked.answer[j].row) => i = j
  BY RelationsAnswered DEF Related
<1>2. QED
  BY <1>1 DEF AnswerTruthful, InAnswer

(* Every entry of an answer to dictionary_relations is a path of one or    *)
(* two relations of the corpus that starts at the word, and no two entries *)
(* give the same target, sense and relation (relations, service.py).       *)
THEOREM AnswersTrue == PackedSpec => []AnswerTruthful
BY PackedKept, Truthful, PTL

(* _validate_allocation: what is reserved for paths is within the limit.   *)
Allocated == asked # NotYet => asked.limits[2] <= asked.limits[1]

LEMMA Used == PackedInv /\ Allocated => BudgetUsed
<1> SUFFICES ASSUME PackedInv, Allocated, Answered("relations") PROVE BudgetUsed
  BY DEF BudgetUsed
<1>1. asked.limits[2] <= asked.limits[1]
  BY DEF Allocated, Answered
<1>2. Related(asked.q, asked.answer, RankedRows(view[LanguageOf[asked.q.term]], asked.q, Scan),
              asked.limits[1], asked.limits[2])
  BY RelationsAnswered
<1>3. QED
  BY <1>1, <1>2 DEF BudgetUsed, Related

(* An answer to dictionary_relations is within its limit, and its paths    *)
(* within theirs; one that is below the limit has every row that was read  *)
(* (_combine_relation_rows), whatever the limits a caller may set.         *)
THEOREM BudgetAlwaysUsed == PackedSpec => [](Allocated => BudgetUsed)
BY PackedKept, Used, PTL

(* The translations of a sense have a place each.                          *)
LEMMA PositionsList ==
  ASSUME NEW S, S \subseteq Detail, IsFiniteSet(S), \A r, u \in S : r.sense = u.sense
  PROVE  /\ ByPosition(S) \in Seq(S) /\ Len(ByPosition(S)) = Cardinality(S)
         /\ Lists(S, ByPosition(S))
<1> DEFINE key == [r \in S |-> Join(<<r.at>>, ByTag(r.target))]
<1>1. \A r \in S : r.at \in Int /\ r.target \in Term
  BY DEF Detail
<1>2. \A r \in S : <<r.at>> \in Keys(1) /\ ByTag(r.target) \in Keys(2)
  BY <1>1, Tuples, TagKeys
<1>3. \A r \in S : Join(<<r.at>>, ByTag(r.target)) \in Keys(3)
  <2> SUFFICES ASSUME NEW r \in S PROVE Join(<<r.at>>, ByTag(r.target)) \in Keys(3)
    OBVIOUS
  <2> DEFINE a == <<r.at>>
  <2>1. a \in Keys(1) /\ ByTag(r.target) \in Keys(2)
    BY <1>2
  <2> HIDE DEF a
  <2>2. Join(a, ByTag(r.target)) \in Keys(1 + 2)
    BY <2>1, JoinKeys, 1 \in Nat, 2 \in Nat
  <2>3. QED
    BY <2>2 DEF a
<1>4. ASSUME NEW r \in S, NEW u \in S, key[r] = key[u] PROVE r = u
  <2> DEFINE a == <<r.at>>
             b == <<u.at>>
  <2>1. /\ a \in Keys(1) /\ ByTag(r.target) \in Keys(2) /\ b \in Keys(1) /\ ByTag(u.target) \in Keys(2)
        /\ Join(a, ByTag(r.target)) = Join(b, ByTag(u.target))
    BY <1>2, <1>4
  <2>2. a = b => r.at = u.at
    OBVIOUS
  <2> HIDE DEF a, b
  <2>3. a = b /\ ByTag(r.target) = ByTag(u.target)
    BY <2>1, JoinApart, 1 \in Nat, 2 \in Nat DEF Same
  <2>4. r.target = u.target
    BY <1>1, <2>3, TagKeys
  <2>5. r.at = u.at /\ r.sense = u.sense
    BY <2>2, <2>3
  <2>6. QED
    BY <2>4, <2>5 DEF Detail
<1>5. ByPosition(S) = Sorted(key)
  BY DEF ByPosition, Join
<1>6. key \in [S -> Keys(3)]
  BY <1>3
<1> HIDE DEF key
<1>7. Keyed(S, key, 3)
  BY <1>4, <1>6 DEF Keyed
<1>8. QED
  BY <1>5, <1>7, SortedLists, SortedIsList

(* A budget that groups share gives each of them a beginning of its list.  *)
Begins(shown, lists, budget) ==
  /\ DOMAIN shown = DOMAIN lists
  /\ \A i \in DOMAIN lists : \E k \in 0 .. budget : shown[i] = Prefix(lists[i], k)

LEMMA AllocateWithin ==
  ASSUME NEW lists, NEW n \in Nat, DOMAIN lists = 1 .. n, NEW budget \in Nat
  PROVE  Begins(Allocate(lists, DOMAIN lists, budget), lists, budget)
<1> DEFINE P == (1 .. n) \X (1 .. budget)
           slots == {x \in (DOMAIN lists) \X (1 .. budget) : x[2] \in DOMAIN lists[x[1]]}
           key == [x \in slots |-> <<x[2], x[1]>>]
           some == Prefix(Sorted(key), budget)
           taken == RowsOf(some)
           of(i) == {x \in taken : x[1] = i}
           shown == Allocate(lists, DOMAIN lists, budget)
<1>1. slots \in SUBSET P
  OBVIOUS
<1>2. IsFiniteSet(P)
  <2>1. IsFiniteSet(1 .. n) /\ IsFiniteSet(1 .. budget)
    BY FS_Interval, 1 \in Int, n \in Int, budget \in Int
  <2>2. QED
    BY <2>1, FS_Product
<1>3. IsFiniteSet(slots)
  BY <1>1, <1>2, FS_Subset
<1>4. Keyed(slots, key, 2)
  <2>1. \A x \in slots : x[1] \in Int /\ x[2] \in Int /\ x = <<x[1], x[2]>>
    OBVIOUS
  <2>2. key \in [slots -> Keys(2)]
    BY <2>1, Tuples
  <2>3. \A x, y \in slots : key[x] = key[y] => x[2] = y[2] /\ x[1] = y[1]
    OBVIOUS
  <2>4. \A x, y \in slots : key[x] = key[y] => x = y
    BY <2>1, <2>3
  <2> HIDE DEF slots, key
  <2>5. QED
    BY <1>3, <2>2, <2>4, 2 \in Nat DEF Keyed
<1>5. shown = [i \in DOMAIN lists |-> Prefix(lists[i], Cardinality(of(i)))]
  BY DEF Allocate
<1> HIDE DEF key, slots, shown
<1>6. Sorted(key) \in Seq(slots)
  BY <1>4, SortedLists
<1>7. some \in Seq(slots) /\ Len(some) <= budget
  <2>1. /\ some \in Seq(slots) /\ Len(Sorted(key)) \in Nat
        /\ Len(some) = (IF budget < Len(Sorted(key)) THEN budget ELSE Len(Sorted(key)))
    BY <1>6, PrefixOf
  <2>2. QED
    BY <2>1
<1> HIDE DEF some
<1>8. IsFiniteSet(taken) /\ Cardinality(taken) \in Nat /\ Cardinality(taken) <= budget
  <2>1. IsFiniteSet(taken) /\ Cardinality(taken) \in Nat /\ Cardinality(taken) <= Len(some) /\ Len(some) \in Nat
    BY <1>7, RowsCounted
  <2>2. QED
    BY <1>7, <2>1
<1> HIDE DEF taken
<1>9. ASSUME NEW i PROVE Cardinality(of(i)) \in 0 .. budget
  <2>1. of(i) \in SUBSET taken
    OBVIOUS
  <2> HIDE DEF of
  <2>2. IsFiniteSet(of(i)) /\ Cardinality(of(i)) <= Cardinality(taken) /\ Cardinality(of(i)) \in Nat
    BY <1>8, <2>1, FS_Subset, FS_CardinalityType
  <2>3. QED
    BY <1>8, <2>2
<1> HIDE DEF of
<1>10. Begins(shown, lists, budget)
  BY <1>5, <1>9 DEF Begins
<1>11. QED
  BY <1>10 DEF shown

(* A sense of a lookup: whether there is more of it than is shown.         *)
Tells(db, a) ==
  a.sense \in db.senses
    /\ (a.truncated <=> Len(a.shown) < Cardinality({r \in db.translations : r.sense = a.sense}))

LEMMA SenseTells ==
  ASSUME NEW db, db.translations \subseteq Detail, IsFiniteSet(db.translations), NEW s,
         NEW budget \in Nat, NEW found, found = TranslationRows(db, s, Any, ReadAhead(budget)),
         NEW k \in 0 .. budget, NEW shown, shown = Prefix(found, k)
  PROVE  /\ Len(Targets(shown)) = Len(shown)
         /\ Len(found) > Len(shown) <=> Len(shown) < Cardinality({r \in db.translations : r.sense = s})
<1> DEFINE S == {r \in db.translations : r.sense = s}
           all == ByPosition(S)
           N == Cardinality(S)
<1>1. S \in SUBSET db.translations /\ S \subseteq Detail /\ \A r, u \in S : r.sense = u.sense
  OBVIOUS
<1>2. {r \in db.translations : r.sense = s /\ Any \in {Any, LanguageOf[r.target]}} = S
  OBVIOUS
<1>3. found = Prefix(all, budget + 1)
  BY <1>2 DEF TranslationRows, ReadAhead
<1> HIDE DEF S
<1>4. IsFiniteSet(S) /\ N \in Nat
  BY <1>1, FS_Subset, FS_CardinalityType
<1>5. all \in Seq(S) /\ Len(all) = N
  BY <1>1, <1>4, PositionsList
<1> HIDE DEF all, N
<1>6. found \in Seq(S) /\ Len(found) = (IF budget + 1 < N THEN budget + 1 ELSE N)
  BY <1>3, <1>5, PrefixOf, budget + 1 \in Nat
<1>7. shown \in Seq(S) /\ Len(shown) = (IF k < Len(found) THEN k ELSE Len(found)) /\ Len(found) \in Nat
  BY <1>6, PrefixOf, k \in Nat
<1>8. Len(found) > Len(shown) <=> Len(shown) < N
  BY <1>4, <1>6, <1>7 DEF N
<1>9. Len(Targets(shown)) = Len(shown)
  <2>1. DOMAIN shown = 1 .. Len(shown) /\ Len(shown) \in Nat
    BY <1>7
  <2>2. QED
    BY <2>1 DEF Targets
<1>10. QED
  BY <1>8, <1>9 DEF N, S

LEMMA LookupTells ==
  ASSUME NEW db, Tables(db), db.senses \subseteq Nat, db.translations \subseteq Detail,
         IsFiniteSet(db.translations), NEW q, NEW limit \in Nat, NEW budget \in Nat,
         NEW a, a = Lookup(db, q, limit, budget), NEW i \in DOMAIN a
  PROVE  Tells(db, a[i])
<1> DEFINE senses == LookupSenses(db, q, limit, budget > 0)
           found == [j \in DOMAIN senses |-> TranslationRows(db, senses[j], Any, ReadAhead(budget))]
           shown == Allocate(found, DOMAIN found, budget)
<1>1. a = [j \in DOMAIN senses |-> [sense |-> senses[j], shown |-> Targets(shown[j]),
                                    truncated |-> Len(found[j]) > Len(shown[j])]]
  BY DEF Lookup
<1>2. senses \in Seq(SensesOf(db, q.term))
  <2>1. \A n \in Nat : SenseRows(db, q, n) \in Seq(SensesOf(db, q.term))
    BY SenseRowsOf
  <2>2. QED
    BY <2>1, LookupSensesOf
<1> HIDE DEF senses
<1>3. DOMAIN senses = 1 .. Len(senses) /\ Len(senses) \in Nat /\ i \in DOMAIN senses
  BY <1>1, <1>2
<1>4. senses[i] \in db.senses
  <2>1. senses[i] \in SensesOf(db, q.term)
    BY <1>2, <1>3
  <2>2. QED
    BY <2>1 DEF SensesOf
<1>5. DOMAIN found = 1 .. Len(senses) /\ found[i] = TranslationRows(db, senses[i], Any, ReadAhead(budget))
  BY <1>3
<1> HIDE DEF found
<1>6. PICK k \in 0 .. budget : shown[i] = Prefix(found[i], k)
  <2> DEFINE n == Len(senses)
  <2>1. n \in Nat /\ DOMAIN found = 1 .. n /\ i \in DOMAIN found
    BY <1>3, <1>5
  <2> HIDE DEF n
  <2>2. Begins(shown, found, budget)
    BY <2>1, AllocateWithin
  <2>3. QED
    BY <2>1, <2>2 DEF Begins
<1> HIDE DEF shown
<1>7. /\ Len(Targets(shown[i])) = Len(shown[i])
      /\ Len(found[i]) > Len(shown[i]) <=>
           Len(shown[i]) < Cardinality({r \in db.translations : r.sense = senses[i]})
  BY <1>5, <1>6, SenseTells
<1>8. a[i].sense = senses[i] /\ a[i].shown = Targets(shown[i]) /\ a[i].truncated = (Len(found[i]) > Len(shown[i]))
  BY <1>1, <1>3
<1>9. QED
  BY <1>4, <1>7, <1>8 DEF Tells

LEMMA TruncationSaid == PackedInv => TruncationTold
<1> SUFFICES ASSUME PackedInv, Answered("lookup"), NEW i \in DOMAIN asked.answer
             PROVE  asked.answer[i].truncated <=>
                      Len(asked.answer[i].shown)
                        < Cardinality({r \in Corpus.translations : r.sense = asked.answer[i].sense})
  BY DEF TruncationTold
<1>1. asked # NotYet /\ asked.answer # Unavailable /\ asked.q.op = "lookup"
  BY DEF Answered
<1>2. view # <<>> /\ \E q \in Queries, limits \in Limits :
         asked = [q |-> q, limits |-> limits, answer |-> Answer(view, q, limits, TRUE)]
  BY <1>1 DEF PackedInv, Replied
<1>3. PICK q \in Queries, limits \in Limits :
         asked = [q |-> q, limits |-> limits, answer |-> Answer(view, q, limits, TRUE)]
  BY <1>2
<1>4. asked.q = q /\ asked.answer = Answer(view, q, limits, TRUE)
  BY <1>3
<1>5. limits[1] \in Nat /\ limits[2] \in Nat
  BY QuestionsAssumption
<1>6. LanguageOf[q.term] \in DOMAIN view
  BY <1>1, <1>4 DEF Answer
<1> DEFINE db == view[LanguageOf[q.term]]
           a == asked.answer
<1>7. a = Lookup(db, q, limits[1], limits[2])
  <2>1. q.op = "lookup"
    BY <1>1, <1>4
  <2>2. QED
    BY <1>4, <1>6, <2>1 DEF Answer
<1>8. packs # NotYet
  BY <1>2, ViewPacks
<1>9. PICK p \in DOMAIN packs : db = packs[p].content
  BY <1>2, <1>6, ViewPacks
<1> HIDE DEF db
<1>10. Tables(db) /\ db.senses \subseteq Nat
  BY <1>8, <1>9, PackTables
<1>11. /\ \A r \in Corpus.translations : r.sense \in db.senses <=> r \in db.translations
       /\ db.translations \subseteq Corpus.translations
  BY <1>8, <1>9, NoRowsAdded
<1>12. db.translations \subseteq Detail /\ IsFiniteSet(db.translations)
  <2>1. Corpus.translations \subseteq Detail /\ IsFiniteSet(Corpus.translations)
    BY CorpusTyped DEF PackedInv
  <2>2. QED
    BY <1>11, <2>1, FS_Subset
<1> HIDE DEF a
<1>13. Tells(db, a[i])
  <2>1. i \in DOMAIN a
    BY DEF a
  <2>2. QED
    BY <1>5, <1>7, <1>10, <1>12, <2>1, LookupTells
<1>14. {r \in db.translations : r.sense = a[i].sense} = {r \in Corpus.translations : r.sense = a[i].sense}
  BY <1>11, <1>13 DEF Tells
<1>15. QED
  BY <1>13, <1>14 DEF Tells, a

(* dictionary_lookup says of a sense that it is truncated exactly when the *)
(* corpus has more translations of it than are shown: the row read beyond  *)
(* the budget tells, and a budget shared by senses hides nothing.          *)
THEOREM TruncationAlwaysTold == PackedSpec => []TruncationTold
BY PackedKept, TruncationSaid, PTL

(* What a one-to-one function maps a set to has as many members.           *)
LEMMA AsMany ==
  ASSUME NEW S, IsFiniteSet(S), NEW f, DOMAIN f = S, \A x, y \in S : f[x] = f[y] => x = y
  PROVE  /\ IsFiniteSet({f[x] : x \in S}) /\ Cardinality({f[x] : x \in S}) = Cardinality(S)
         /\ Cardinality(S) \in Nat
<1> DEFINE T == {f[x] : x \in S}
           g == [x \in S |-> f[x]]
<1>1. g \in Surjection(S, T)
  BY DEF Surjection
<1>2. g \in Injection(S, T)
  BY DEF Injection, IsInjective
<1> HIDE DEF g, T
<1>3. IsFiniteSet(T) /\ Cardinality(T) = Cardinality(S)
  BY <1>1, <1>2, FS_Surjection
<1>4. QED
  BY <1>3, FS_CardinalityType DEF T

LEMMA DistinctCounted ==
  ASSUME NEW S, NEW s \in Seq(S), \A i, j \in DOMAIN s : s[i] = s[j] => i = j
  PROVE  IsFiniteSet(RowsOf(s)) /\ Cardinality(RowsOf(s)) = Len(s)
<1>1. DOMAIN s = 1 .. Len(s) /\ Len(s) \in Nat
  OBVIOUS
<1>2. IsFiniteSet(1 .. Len(s)) /\ Cardinality(1 .. Len(s)) = Len(s)
  BY FirstNumbers
<1>3. RowsOf(s) = {s[i] : i \in DOMAIN s}
  BY DEF RowsOf
<1>4. QED
  BY <1>1, <1>2, <1>3, AsMany

(* A set of first numbers is all the numbers up to how many it has.        *)
LEMMA DownTo ==
  ASSUME NEW m \in Nat, NEW S \in SUBSET (1 .. m), \A j \in S, h \in 1 .. m : h < j => h \in S
  PROVE  S = 1 .. Cardinality(S) /\ Cardinality(S) \in 0 .. m
<1>1. PICK c \in 0 .. m : S = 1 .. c
  <2>1. CASE S = 1 .. m
    BY <2>1
  <2>2. CASE S # 1 .. m
    <3> DEFINE T == (1 .. m) \ S
    <3>0. \A x \in 1 .. m : x \in Nat
      OBVIOUS
    <3>1. T \in SUBSET Nat /\ T # {}
      <4>1. T # {}
        BY <2>2
      <4>2. T \in SUBSET Nat
        BY <3>0
      <4>3. QED
        BY <4>1, <4>2
    <3> HIDE DEF T
    <3>2. PICK d \in T : \A x \in T : d <= x
      BY <3>1, Least
    <3>3. d \in 1 .. m /\ d \notin S /\ \A x \in 1 .. m : x < d => x \in S
      BY <3>1, <3>2 DEF T
    <3>4. \A x \in S : x < d
      BY <3>3
    <3>5. S = 1 .. d - 1
      <4>1. \A x : x \in S => x \in 1 .. m
        OBVIOUS
      <4>2. \A x : x \in S => x \in 1 .. d - 1
        BY <3>3, <3>4, <4>1
      <4>3. \A x : x \in 1 .. d - 1 => x \in S
        BY <3>3
      <4>4. QED
        BY <4>2, <4>3
    <3>6. QED
      BY <3>3, <3>5
  <2>3. QED
    BY <2>1, <2>2
<1>2. IsFiniteSet(1 .. c) /\ Cardinality(1 .. c) = IF 1 > c THEN 0 ELSE c - 1 + 1
  BY FS_Interval, 1 \in Int, c \in Int
<1>3. QED
  BY <1>1, <1>2

(* The first of a set that is sorted.                                      *)
Firsts(T, S, key, b) ==
  /\ T \subseteq S /\ IsFiniteSet(T) /\ Cardinality(T) \in Nat /\ Cardinality(T) <= b
  /\ \A x \in T, y \in S : Before(key[y], key[x]) => y \in T
  /\ Cardinality(T) < b => T = S

LEMMA SortedFirsts ==
  ASSUME NEW S, NEW key, NEW n, Keyed(S, key, n), NEW b \in Nat
  PROVE  Firsts(RowsOf(Prefix(Sorted(key), b)), S, key, b)
<1> DEFINE s == Sorted(key)
           u == Prefix(s, b)
           N == Cardinality(S)
           T == RowsOf(u)
<1>1. /\ s \in Seq(S) /\ Len(s) = N /\ N \in Nat /\ DOMAIN s = 1 .. N
      /\ \A x \in S : \E i \in 1 .. N : s[i] = x
      /\ \A i, j \in 1 .. N : i < j => Before(key[s[i]], key[s[j]])
      /\ \A i, j \in 1 .. N : s[i] = s[j] => i = j
  BY SortedLists
<1>2. \A k, l \in S : ~ (Before(key[k], key[l]) /\ Before(key[l], key[k])) /\ ~ Before(key[k], key[k])
  <2> SUFFICES ASSUME NEW k \in S, NEW l \in S
               PROVE  ~ (Before(key[k], key[l]) /\ Before(key[l], key[k])) /\ ~ Before(key[k], key[k])
    OBVIOUS
  <2>1. key[k] \in Keys(n) /\ key[l] \in Keys(n) /\ n \in Nat
    BY DEF Keyed
  <2>2. QED
    BY <2>1, BeforeOrders
<1> HIDE DEF s, N
<1>3. /\ u \in Seq(S) /\ Len(u) = (IF b < N THEN b ELSE N)
      /\ \A k \in DOMAIN u : k \in DOMAIN s /\ k <= b /\ u[k] = s[k]
      /\ \A k \in DOMAIN s : k <= b => k \in DOMAIN u
      /\ N <= b => u = s
  BY <1>1, PrefixOf
<1> HIDE DEF u
<1>4. \A i, j \in DOMAIN u : u[i] = u[j] => i = j
  BY <1>1, <1>3
<1>5. IsFiniteSet(T) /\ Cardinality(T) = Len(u) /\ T \subseteq S
  <2>1. IsFiniteSet(T) /\ Cardinality(T) = Len(u)
    BY <1>3, <1>4, DistinctCounted
  <2>2. T \subseteq S
    BY <1>3, RowsCounted
  <2>3. QED
    BY <2>1, <2>2
<1>6. ASSUME NEW x \in T, NEW y \in S, Before(key[y], key[x]) PROVE y \in T
  <2>1. PICK i \in DOMAIN u : u[i] = x
    BY DEF RowsOf
  <2>2. i \in 1 .. N /\ i <= b /\ s[i] = x
    BY <1>1, <1>3, <2>1
  <2>3. PICK j \in 1 .. N : s[j] = y
    BY <1>1
  <2>4. ~ (i < j) /\ i # j
    <3>1. x \in S
      BY <1>5
    <3>2. QED
      BY <1>1, <1>2, <1>6, <2>2, <2>3, <3>1
  <2>5. j <= b /\ j \in DOMAIN s
    BY <1>1, <2>2, <2>4
  <2>6. j \in DOMAIN u /\ u[j] = y
    BY <1>3, <2>3, <2>5
  <2>7. QED
    BY <2>6 DEF RowsOf
<1>7. ASSUME Cardinality(T) < b PROVE T = S
  <2>1. N <= b /\ u = s
    BY <1>1, <1>3, <1>5, <1>7
  <2>2. \A x \in S : x \in T
    BY <1>1, <2>1 DEF RowsOf
  <2>3. QED
    BY <1>5, <2>2
<1>8. Len(u) \in Nat /\ Len(u) <= b
  BY <1>1, <1>3
<1>9. Firsts(T, S, key, b)
  BY <1>5, <1>6, <1>7, <1>8 DEF Firsts
<1>10. QED
  BY <1>9 DEF T, u, s

LEMMA PairsBefore ==
  ASSUME NEW a \in Int, NEW b \in Int, NEW c \in Int, NEW d \in Int, a < c \/ (a = c /\ b < d)
  PROVE  Before(<<a, b>>, <<c, d>>)
<1>1. CASE a < c
  BY <1>1 DEF Before
<1>2. CASE a = c /\ b < d
  BY <1>2 DEF Before
<1>3. QED
  BY <1>1, <1>2

(* What every group is given: a beginning of its list, no more in all than *)
(* the budget, no two more than another that has some left, and everything *)
(* when the budget is not used up.                                         *)
Given(shown) == UNION {{<<i, k>> : k \in DOMAIN shown[i]} : i \in DOMAIN shown}

Dealt(lists, groups, budget, shown) ==
  /\ DOMAIN shown = DOMAIN lists
  /\ \A i \in DOMAIN lists : /\ Len(shown[i]) \in 0 .. Len(lists[i])
                             /\ shown[i] = Prefix(lists[i], Len(shown[i]))
                             /\ i \notin groups => Len(shown[i]) = 0
  /\ \A i, j \in groups : Len(shown[i]) > Len(shown[j]) + 1 => Len(shown[j]) = Len(lists[j])
  /\ IsFiniteSet(Given(shown)) /\ Cardinality(Given(shown)) \in 0 .. budget
  /\ Cardinality(Given(shown)) < budget => \A i \in groups : Len(shown[i]) = Len(lists[i])

Slots(lists, groups, budget) == {x \in groups \X (1 .. budget) : x[2] \in DOMAIN lists[x[1]]}

LEMMA SlotsKeyed ==
  ASSUME NEW lists, NEW n \in Nat, NEW groups \in SUBSET (1 .. n), NEW budget \in Nat,
         NEW S, S = Slots(lists, groups, budget), NEW key, key = [x \in S |-> <<x[2], x[1]>>]
  PROVE  Keyed(S, key, 2)
<1> DEFINE P == (1 .. n) \X (1 .. budget)
<1>1. S \in SUBSET P
  BY DEF Slots
<1>2. IsFiniteSet(P)
  <2>1. IsFiniteSet(1 .. n) /\ IsFiniteSet(1 .. budget)
    BY FS_Interval, 1 \in Int, n \in Int, budget \in Int
  <2>2. QED
    BY <2>1, FS_Product
<1>3. IsFiniteSet(S)
  BY <1>1, <1>2, FS_Subset
<1>4. \A x \in S : x[1] \in Int /\ x[2] \in Int /\ x = <<x[1], x[2]>>
  BY <1>1
<1>5. key \in [S -> Keys(2)]
  BY <1>4, Tuples
<1>6. \A x, y \in S : key[x] = key[y] => x[2] = y[2] /\ x[1] = y[1]
  OBVIOUS
<1>7. \A x, y \in S : key[x] = key[y] => x = y
  BY <1>4, <1>6
<1>8. QED
  BY <1>3, <1>5, <1>7, 2 \in Nat DEF Keyed

LEMMA AllocateDeals ==
  ASSUME NEW T, NEW lists, NEW n \in Nat, DOMAIN lists = 1 .. n, \A i \in 1 .. n : lists[i] \in Seq(T),
         NEW groups \in SUBSET (1 .. n), NEW budget \in Nat
  PROVE  Dealt(lists, groups, budget, Allocate(lists, groups, budget))
<1> DEFINE S == Slots(lists, groups, budget)
           key == [x \in S |-> <<x[2], x[1]>>]
           taken == RowsOf(Prefix(Sorted(key), budget))
           of(i) == {x \in taken : x[1] = i}
           K(i) == {k \in 1 .. budget : <<i, k>> \in taken}
           shown == Allocate(lists, groups, budget)
<1>1. shown = [i \in DOMAIN lists |-> Prefix(lists[i], Cardinality(of(i)))]
  BY DEF Allocate, Slots
<1>2. Keyed(S, key, 2)
  BY SlotsKeyed
<1>3. /\ \A x \in S : x[1] \in groups /\ x[2] \in 1 .. budget /\ x = <<x[1], x[2]>> /\ x[2] \in DOMAIN lists[x[1]]
      /\ \A i \in groups, k \in 1 .. budget : k \in DOMAIN lists[i] => <<i, k>> \in S
  BY DEF Slots
<1>4. \A i \in groups, j \in groups, k, h \in 1 .. budget :
        <<i, k>> \in S /\ <<j, h>> \in S /\ (k < h \/ (k = h /\ i < j)) =>
          Before(key[<<i, k>>], key[<<j, h>>])
  <2> SUFFICES ASSUME NEW i \in groups, NEW j \in groups, NEW k \in 1 .. budget, NEW h \in 1 .. budget,
                      <<i, k>> \in S, <<j, h>> \in S, k < h \/ (k = h /\ i < j)
               PROVE  Before(key[<<i, k>>], key[<<j, h>>])
    OBVIOUS
  <2>1. key[<<i, k>>] = <<k, i>> /\ key[<<j, h>>] = <<h, j>>
    OBVIOUS
  <2>2. Before(<<k, i>>, <<h, j>>)
    <3>1. i \in Int /\ j \in Int /\ k \in Int /\ h \in Int
      OBVIOUS
    <3>2. QED
      BY <3>1, PairsBefore
  <2>3. QED
    BY <2>1, <2>2
<1>5. \A i \in 1 .. n : Len(lists[i]) \in Nat /\ DOMAIN lists[i] = 1 .. Len(lists[i])
  OBVIOUS
<1> HIDE DEF S, key, shown
<1>6. Firsts(taken, S, key, budget)
  BY <1>2, SortedFirsts
<1> HIDE DEF taken
<1>7. \A x \in taken : x \in S
  BY <1>6 DEF Firsts
<1>8. \A i \in groups, j \in groups, k, h \in 1 .. budget :
        <<j, h>> \in taken /\ k \in DOMAIN lists[i] /\ (k < h \/ (k = h /\ i < j)) => <<i, k>> \in taken
  <2> SUFFICES ASSUME NEW i \in groups, NEW j \in groups, NEW k \in 1 .. budget, NEW h \in 1 .. budget,
                      <<j, h>> \in taken, k \in DOMAIN lists[i], k < h \/ (k = h /\ i < j)
               PROVE  <<i, k>> \in taken
    OBVIOUS
  <2>1. <<i, k>> \in S /\ <<j, h>> \in S
    BY <1>3, <1>7
  <2>2. Before(key[<<i, k>>], key[<<j, h>>])
    BY <1>4, <2>1
  <2>3. QED
    BY <1>6, <2>1, <2>2 DEF Firsts
<1>9. ASSUME NEW i \in groups
      PROVE  /\ K(i) = 1 .. Cardinality(K(i)) /\ Cardinality(K(i)) \in 0 .. budget
             /\ Cardinality(K(i)) <= Len(lists[i]) /\ Cardinality(of(i)) = Cardinality(K(i))
  <2>1. K(i) \in SUBSET (1 .. budget)
    OBVIOUS
  <2>2. \A k \in K(i) : k \in DOMAIN lists[i]
    BY <1>3, <1>7
  <2>3. \A k \in K(i), h \in 1 .. budget : h < k => h \in K(i)
    <3> SUFFICES ASSUME NEW k \in K(i), NEW h \in 1 .. budget, h < k PROVE <<i, h>> \in taken
      OBVIOUS
    <3>1. h \in DOMAIN lists[i]
      BY <1>5, <2>2
    <3>2. QED
      BY <1>8, <3>1
  <2>4. IsFiniteSet(of(i))
    <3>1. of(i) \in SUBSET taken
      OBVIOUS
    <3>2. QED
      BY <1>6, <3>1, FS_Subset DEF Firsts
  <2>5. K(i) = {x[2] : x \in of(i)}
    <3>1. ASSUME NEW k \in K(i) PROVE \E x \in of(i) : x[2] = k
      <4>1. <<i, k>> \in of(i)
        OBVIOUS
      <4>2. QED
        BY <4>1
    <3>2. ASSUME NEW x \in of(i) PROVE x[2] \in K(i)
      <4>1. x \in taken /\ x[1] = i /\ x \in S
        BY <1>7
      <4>2. x = <<i, x[2]>> /\ x[2] \in 1 .. budget
        BY <1>3, <4>1
      <4>3. QED
        BY <4>1, <4>2
    <3>3. QED
      BY <3>1, <3>2
  <2>6. Cardinality(K(i)) = Cardinality(of(i))
    <3> DEFINE f == [x \in of(i) |-> x[2]]
    <3>1. \A x, y \in of(i) : x[2] = y[2] => x = y
      BY <1>3, <1>7
    <3>2. K(i) = {f[x] : x \in of(i)} /\ DOMAIN f = of(i) /\ \A x, y \in of(i) : f[x] = f[y] => x = y
      BY <2>5, <3>1
    <3> HIDE DEF f, K, of
    <3>3. QED
      BY <2>4, <3>2, AsMany
  <2> DEFINE c == Cardinality(K(i))
  <2>7. K(i) = 1 .. c /\ c \in 0 .. budget
    <3> HIDE DEF K
    <3>1. QED
      BY <2>1, <2>3, DownTo
  <2>8. c <= Len(lists[i])
    <3>1. c = 0 \/ c \in K(i)
      <4> HIDE DEF K, c
      <4>1. QED
        BY <2>7
    <3>2. c \in 0 .. budget /\ DOMAIN lists[i] = 1 .. Len(lists[i]) /\ Len(lists[i]) \in Nat
      BY <1>5, <2>7
    <3>3. c \in K(i) => c \in 1 .. Len(lists[i])
      BY <2>2, <3>2
    <3> HIDE DEF K, c
    <3>4. QED
      BY <3>1, <3>2, <3>3
  <2>9. QED
    BY <2>6, <2>7, <2>8
<1>10. ASSUME NEW i \in 1 .. n, i \notin groups PROVE of(i) = {} /\ Cardinality(of(i)) = 0
  <2>1. of(i) = {}
    BY <1>3, <1>7, <1>10
  <2>2. QED
    BY <2>1, FS_EmptySet
<1> DEFINE c(i) == Cardinality(of(i))
<1>11. ASSUME NEW i \in 1 .. n
       PROVE  /\ c(i) \in 0 .. Len(lists[i]) /\ shown[i] = Prefix(lists[i], c(i)) /\ Len(shown[i]) = c(i)
              /\ DOMAIN shown[i] = 1 .. c(i) /\ (i \notin groups => c(i) = 0)
              /\ \A k \in 1 .. c(i) : k \in 1 .. budget /\ <<i, k>> \in taken
              /\ \A k \in 1 .. budget : <<i, k>> \in taken => k \in 1 .. c(i)
  <2>1. /\ c(i) \in 0 .. Len(lists[i]) /\ (i \notin groups => c(i) = 0)
        /\ \A k \in 1 .. c(i) : k \in 1 .. budget /\ <<i, k>> \in taken
        /\ \A k \in 1 .. budget : <<i, k>> \in taken => k \in 1 .. c(i)
    <3>1. CASE i \in groups
      <4>1. K(i) = 1 .. c(i) /\ c(i) \in 0 .. budget /\ c(i) <= Len(lists[i])
        BY <1>9, <3>1
      <4>2. \A k : k \in K(i) <=> k \in 1 .. budget /\ <<i, k>> \in taken
        OBVIOUS
      <4> HIDE DEF K, c
      <4>3. QED
        BY <1>5, <3>1, <4>1, <4>2
    <3>2. CASE i \notin groups
      <4>1. c(i) = 0
        BY <1>10, <3>2
      <4>2. \A k : <<i, k>> \notin taken
        BY <1>3, <1>7, <3>2
      <4> HIDE DEF c
      <4>3. QED
        BY <1>5, <4>1, <4>2
    <3>3. QED
      BY <3>1, <3>2
  <2>2. shown[i] = Prefix(lists[i], c(i))
    BY <1>1
  <2> HIDE DEF c
  <2>3. c(i) \in Nat /\ lists[i] \in Seq(T) /\ Len(lists[i]) \in Nat /\ c(i) <= Len(lists[i])
    BY <1>5, <2>1
  <2>4. shown[i] \in Seq(T) /\ Len(shown[i]) = c(i)
    <3>1. /\ shown[i] \in Seq(T)
          /\ Len(shown[i]) = (IF c(i) < Len(lists[i]) THEN c(i) ELSE Len(lists[i]))
      BY <2>2, <2>3, PrefixOf
    <3>2. QED
      BY <2>3, <3>1
  <2>5. DOMAIN shown[i] = 1 .. c(i)
    BY <2>4
  <2>6. QED
    BY <2>1, <2>2, <2>4, <2>5
<1> HIDE DEF of, c
<1>12. DOMAIN shown = 1 .. n
  BY <1>1
<1>13. Given(shown) = taken
  <2>1. ASSUME NEW i \in 1 .. n, NEW k \in DOMAIN shown[i] PROVE <<i, k>> \in taken
    BY <1>11
  <2>2. ASSUME NEW x \in taken PROVE \E i \in 1 .. n : \E k \in DOMAIN shown[i] : x = <<i, k>>
    <3>1. x[1] \in 1 .. n /\ x[2] \in 1 .. budget /\ x = <<x[1], x[2]>>
      BY <1>3, <1>7
    <3>2. x[2] \in DOMAIN shown[x[1]]
      BY <1>11, <3>1
    <3>3. QED
      BY <3>1, <3>2
  <2>3. QED
    BY <1>12, <2>1, <2>2 DEF Given
<1>14. ASSUME NEW i \in groups, NEW j \in groups, c(i) > c(j) + 1 PROVE c(j) = Len(lists[j])
  <2>1. c(i) \in Nat /\ c(j) \in 0 .. Len(lists[j])
    BY <1>5, <1>11
  <2>2. ASSUME c(j) # Len(lists[j]) PROVE FALSE
    <3>1. c(i) \in 1 .. c(i) /\ c(j) + 1 < c(i) /\ c(j) + 1 \in 1 .. Len(lists[j])
      BY <1>5, <1>14, <2>1, <2>2
    <3>2. c(i) \in 1 .. budget /\ <<i, c(i)>> \in taken
      BY <1>11, <3>1
    <3>3. c(j) + 1 \in 1 .. budget /\ c(j) + 1 \in DOMAIN lists[j]
      BY <1>5, <2>1, <3>1, <3>2
    <3>4. <<j, c(j) + 1>> \in taken
      BY <1>8, <3>1, <3>2, <3>3
    <3>5. c(j) + 1 \in 1 .. c(j)
      BY <1>11, <3>3, <3>4
    <3>6. QED
      BY <2>1, <3>5
  <2>3. QED
    BY <2>2
<1>15. ASSUME Cardinality(taken) < budget, NEW i \in groups PROVE c(i) = Len(lists[i])
  <2>1. taken = S
    BY <1>6, <1>15 DEF Firsts
  <2>2. c(i) \in 0 .. Len(lists[i]) /\ Len(lists[i]) \in Nat
    BY <1>5, <1>11
  <2>3. ASSUME NEW k \in 1 .. budget, k \in 1 .. Len(lists[i]) PROVE k \in 1 .. c(i)
    <3>1. <<i, k>> \in taken
      BY <1>3, <1>5, <2>1, <2>3
    <3>2. QED
      BY <1>11, <3>1
  <2>4. CASE Len(lists[i]) <= budget
    <3>1. Len(lists[i]) = 0 \/ Len(lists[i]) \in 1 .. c(i)
      BY <2>2, <2>3, <2>4
    <3>2. QED
      BY <2>2, <3>1
  <2>5. CASE ~ (Len(lists[i]) <= budget)
    <3> DEFINE D == 1 .. budget
               f == [k \in D |-> <<i, k>>]
               R == {f[k] : k \in D}
    <3>1. \A k \in 1 .. budget : k \in 1 .. Len(lists[i])
      BY <2>2, <2>5
    <3>2. \A k \in 1 .. budget : <<i, k>> \in taken
      BY <1>3, <1>5, <2>1, <3>1
    <3>3. R \in SUBSET taken
      BY <3>2
    <3>4. IsFiniteSet(D) /\ Cardinality(D) = budget
      BY FS_Interval, 1 \in Int, budget \in Int
    <3>5. DOMAIN f = D /\ \A x, y \in D : f[x] = f[y] => x = y
      OBVIOUS
    <3> HIDE DEF f, D
    <3>6. Cardinality(R) = budget
      BY <3>4, <3>5, AsMany
    <3> HIDE DEF R
    <3>7. Cardinality(R) <= Cardinality(taken) /\ Cardinality(taken) \in Nat
      BY <1>6, <3>3, FS_Subset DEF Firsts
    <3>8. QED
      BY <1>15, <3>6, <3>7
  <2>6. QED
    BY <2>4, <2>5
<1>16. IsFiniteSet(taken) /\ Cardinality(taken) \in 0 .. budget
  BY <1>6 DEF Firsts
<1>17. Dealt(lists, groups, budget, shown)
  BY <1>11, <1>12, <1>13, <1>14, <1>15, <1>16 DEF Dealt
<1>18. QED
  BY <1>17 DEF shown

(* The first place of every member of a list.                              *)
LEMMA DistinctOf ==
  ASSUME NEW S, NEW s \in Seq(S)
  PROVE  /\ Distinct(s) \in Seq(S) /\ RowsOf(Distinct(s)) = RowsOf(s)
         /\ \A i, j \in DOMAIN Distinct(s) : Distinct(s)[i] = Distinct(s)[j] => i = j
<1> DEFINE I == {i \in DOMAIN s : \A j \in 1 .. i - 1 : s[j] # s[i]}
           u == Pick(s, I)
<1>1. u = Distinct(s)
  BY DEF Distinct
<1>2. I \in SUBSET (DOMAIN s) /\ DOMAIN s = 1 .. Len(s) /\ Len(s) \in Nat
  OBVIOUS
<1>3. \A i, j \in I : s[i] = s[j] => i = j
  <2> SUFFICES ASSUME NEW i \in I, NEW j \in I, s[i] = s[j], i < j PROVE FALSE
    BY <1>2
  <2>1. i \in 1 .. j - 1
    BY <1>2
  <2>2. QED
    BY <2>1
<1>4. ASSUME NEW i \in DOMAIN s PROVE \E j \in I : s[j] = s[i]
  <2> DEFINE T == {j \in DOMAIN s : s[j] = s[i]}
  <2>1. T \in SUBSET Nat /\ T # {}
    <3>1. i \in T
      OBVIOUS
    <3>2. \A j \in DOMAIN s : j \in Nat
      BY <1>2
    <3>3. QED
      BY <3>1, <3>2
  <2> HIDE DEF T
  <2>2. PICK d \in T : \A x \in T : d <= x
    BY <2>1, Least
  <2>3. d \in DOMAIN s /\ s[d] = s[i]
    BY DEF T
  <2>4. \A j \in 1 .. d - 1 : s[j] # s[d]
    <3> SUFFICES ASSUME NEW j \in 1 .. d - 1, s[j] = s[d] PROVE FALSE
      OBVIOUS
    <3>1. j \in DOMAIN s /\ j < d
      BY <1>2, <2>3
    <3>2. j \in T
      BY <2>3, <3>1 DEF T
    <3>3. QED
      BY <1>2, <2>2, <2>3, <3>1, <3>2
  <2>5. QED
    BY <2>3, <2>4
<1> HIDE DEF I
<1>5. /\ u \in Seq(S) /\ RowsOf(u) = {s[i] : i \in I}
      /\ \E at : /\ \A k \in DOMAIN u : at[k] \in I /\ u[k] = s[at[k]]
                 /\ \A k, h \in DOMAIN u : k < h => at[k] < at[h]
  BY <1>2, PickOf
<1> HIDE DEF u
<1>6. RowsOf(u) = RowsOf(s)
  <2>1. RowsOf(s) = {s[i] : i \in DOMAIN s}
    BY DEF RowsOf
  <2>2. QED
    BY <1>2, <1>4, <1>5, <2>1
<1>7. \A i, j \in DOMAIN u : u[i] = u[j] => i = j
  <2> SUFFICES ASSUME NEW i \in DOMAIN u, NEW j \in DOMAIN u, u[i] = u[j], i < j PROVE FALSE
    <3>1. \A i \in DOMAIN u : i \in Int
      BY <1>5
    <3>2. QED
      BY <3>1
  <2>1. PICK at : /\ \A k \in DOMAIN u : at[k] \in I /\ u[k] = s[at[k]]
                  /\ \A k, h \in DOMAIN u : k < h => at[k] < at[h]
    BY <1>5
  <2>2. at[i] = at[j] /\ at[i] < at[j] /\ at[i] \in Int
    BY <1>2, <1>3, <2>1
  <2>3. QED
    BY <2>2
<1>8. QED
  BY <1>1, <1>5, <1>6, <1>7

LEMMA TargetsOf ==
  ASSUME NEW S, \A r \in S : r.target \in Term, NEW s \in Seq(S)
  PROVE  Targets(s) \in Seq(Term) /\ RowsOf(Targets(s)) = {r.target : r \in RowsOf(s)}
         /\ Len(Targets(s)) = Len(s)
<1>1. DOMAIN s = 1 .. Len(s) /\ Len(s) \in Nat /\ \A i \in DOMAIN s : s[i] \in S
  OBVIOUS
<1>2. Targets(s) = [i \in 1 .. Len(s) |-> s[i].target]
  BY <1>1 DEF Targets
<1>3. Targets(s) \in Seq(Term) /\ Len(Targets(s)) = Len(s)
  <2>1. Targets(s) \in [1 .. Len(s) -> Term]
    BY <1>1, <1>2
  <2>2. QED
    BY <1>1, <1>2, <2>1
<1>4. RowsOf(Targets(s)) = {r.target : r \in RowsOf(s)}
  BY <1>1, <1>2 DEF RowsOf
<1>5. QED
  BY <1>3, <1>4

(* The senses of a term, all of them and each once.                        *)
LEMMA SenseRowsAll ==
  ASSUME NEW db, Tables(db), db.senses \subseteq Nat, NEW q, q.term \in db.terms, q.sense = NoSense,
         Cardinality(SensesOf(db, q.term)) <= MostSenses
  PROVE  Lists(SensesOf(db, q.term), SenseRows(db, q, MostSenses))
<1> DEFINE S == {x \in SensesOf(db, q.term) : q.term \in db.terms /\ q.sense \in {NoSense, x}}
           s == Sorted([x \in S |-> <<x>>])
<1>1. S = SensesOf(db, q.term)
  OBVIOUS
<1>2. S \in SUBSET Int /\ IsFiniteSet(S)
  <2>1. S \in SUBSET db.senses
    BY DEF SensesOf
  <2>2. IsFiniteSet(S)
    BY <2>1, FS_Subset DEF Tables
  <2>3. QED
    BY <2>1, <2>2
<1>3. SenseRows(db, q, MostSenses) = Prefix(s, MostSenses)
  BY DEF SenseRows
<1> HIDE DEF S
<1>4. Lists(S, s) /\ Len(s) = Cardinality(S) /\ s \in Seq(S)
  <2>1. Lists(S, s) /\ Len(s) = Cardinality(S)
    BY <1>2, NumbersKeyed, SortedIsList
  <2>2. QED
    BY <2>1 DEF Lists
<1> HIDE DEF s
<1>5. Prefix(s, MostSenses) = s
  BY <1>1, <1>4, PrefixOf, DictionaryAssumption
<1>6. QED
  BY <1>1, <1>3, <1>4, <1>5

(* What a sense is given of its translations or synonyms.                  *)
LEMMA TranslationsFound ==
  ASSUME NEW db, db.translations \subseteq Detail, IsFiniteSet(db.translations), NEW s, NEW target,
         NEW n \in Nat, NEW z, z = TranslationRows(db, s, target, n)
  PROVE  /\ Targets(z) \in Seq(Term)
         /\ Distinct(Targets(z)) \in Seq(Term) /\ RowsOf(Distinct(Targets(z))) = RowsOf(Targets(z))
         /\ \A i, j \in DOMAIN Distinct(Targets(z)) : Distinct(Targets(z))[i] = Distinct(Targets(z))[j] => i = j
<1> DEFINE S == {r \in db.translations : r.sense = s /\ target \in {Any, LanguageOf[r.target]}}
           all == ByPosition(S)
<1>1. S \in SUBSET db.translations /\ S \subseteq Detail /\ \A r, u \in S : r.sense = u.sense
  OBVIOUS
<1>2. z = Prefix(all, n)
  BY DEF TranslationRows
<1> HIDE DEF S
<1>3. IsFiniteSet(S) /\ \A r \in S : r.target \in Term
  BY <1>1, FS_Subset DEF Detail
<1>4. all \in Seq(S)
  BY <1>1, <1>3, PositionsList
<1> HIDE DEF all
<1>5. z \in Seq(S)
  BY <1>2, <1>4, PrefixOf
<1>6. Targets(z) \in Seq(Term)
  BY <1>3, <1>5, TargetsOf
<1>7. QED
  BY <1>6, DistinctOf

(* A list of terms that has each of them once, and the synonyms of a sense *)
(* without the word itself.                                                *)
OneEach(z, R) ==
  z \in Seq(Term) /\ RowsOf(z) = R /\ \A i, j \in DOMAIN z : z[i] = z[j] => i = j

SynonymsIn(db, s) == {r.target : r \in {x \in db.synonyms : x.sense = s}}

FoundSynonyms(db, s, t) ==
  LET all == Targets(SynonymRows(db, s, MostSenses)) IN Distinct(Pick(all, {k \in DOMAIN all : all[k] # t}))


LEMMA SynonymsFound ==
  ASSUME NEW db, db.synonyms \subseteq Detail, IsFiniteSet(db.synonyms),
         \A r \in db.synonyms : r.target \in db.terms, NEW s, NEW t,
         Cardinality({r \in db.synonyms : r.sense = s}) <= MostSenses
  PROVE  OneEach(FoundSynonyms(db, s, t), SynonymsIn(db, s) \ {t})
<1> DEFINE all == Targets(SynonymRows(db, s, MostSenses))
           z == FoundSynonyms(db, s, t)
           S == {r \in db.synonyms : r.sense = s}
           rows_ == ByPosition(S)
           I == {k \in DOMAIN all : all[k] # t}
           p == Pick(all, I)
<1>1. S \in SUBSET db.synonyms /\ S \subseteq Detail /\ \A r, u \in S : r.sense = u.sense
  OBVIOUS
<1>2. {r \in db.synonyms : r.sense = s /\ r.target \in db.terms} = S
  OBVIOUS
<1>3. SynonymRows(db, s, MostSenses) = Prefix(rows_, MostSenses)
  BY <1>2 DEF SynonymRows
<1> HIDE DEF S
<1>4. IsFiniteSet(S) /\ \A r \in S : r.target \in Term
  BY <1>1, FS_Subset DEF Detail
<1>5. rows_ \in Seq(S) /\ Len(rows_) = Cardinality(S) /\ Lists(S, rows_)
  BY <1>1, <1>4, PositionsList
<1> HIDE DEF rows_
<1>6. Prefix(rows_, MostSenses) = rows_
  <2>1. Cardinality(S) <= MostSenses
    BY DEF S
  <2>2. QED
    BY <1>5, <2>1, PrefixOf, DictionaryAssumption
<1>7. RowsOf(rows_) = S
  BY <1>5 DEF RowsOf, Lists
<1>7a. all = Targets(SynonymRows(db, s, MostSenses)) /\ z = Distinct(p)
  BY DEF FoundSynonyms
<1> HIDE DEF all, z
<1>8. all \in Seq(Term) /\ RowsOf(all) = {r.target : r \in S}
  BY <1>3, <1>4, <1>5, <1>6, <1>7, <1>7a, TargetsOf
<1>9. I \in SUBSET (DOMAIN all)
  OBVIOUS
<1>10. p \in Seq(Term) /\ RowsOf(p) = {all[k] : k \in I}
  <2> HIDE DEF I
  <2>1. QED
    BY <1>8, <1>9, PickOf
<1>11. RowsOf(p) = RowsOf(all) \ {t}
  <2>1. {all[k] : k \in I} = {all[k] : k \in DOMAIN all} \ {t}
    OBVIOUS
  <2>2. QED
    BY <1>10, <2>1 DEF RowsOf
<1> HIDE DEF p, I
<1>13. /\ z \in Seq(Term) /\ RowsOf(z) = RowsOf(p)
       /\ \A i, j \in DOMAIN z : z[i] = z[j] => i = j
  BY <1>7a, <1>10, DistinctOf
<1>14. SynonymsIn(db, s) = {r.target : r \in S}
  BY DEF SynonymsIn, S
<1>15. QED
  BY <1>8, <1>11, <1>13, <1>14 DEF OneEach, z

(* The groups of an answer: the senses that are given something.           *)
Groups(senses, c) ==
  {[sense |-> senses[i], shown |-> c[i]] : i \in {j \in DOMAIN senses : c[j] # <<>>}}

ShownOf(groups, s) == UNION {RowsOf(g.shown) : g \in {h \in groups : h.sense = s}}

PlacesOf(groups, limit) == {x \in groups \X (1 .. limit) : x[2] \in DOMAIN x[1].shown}

LEMMA PlacesCounted ==
  ASSUME NEW S, NEW senses \in Seq(S), \A i, j \in DOMAIN senses : senses[i] = senses[j] => i = j,
         NEW T, NEW c, DOMAIN c = DOMAIN senses, NEW limit \in Nat,
         \A i \in DOMAIN senses : c[i] \in Seq(T) /\ Len(c[i]) <= limit, IsFiniteSet(Given(c))
  PROVE  Cardinality(PlacesOf(Groups(senses, c), limit)) = Cardinality(Given(c))
<1> DEFINE G(i) == [sense |-> senses[i], shown |-> c[i]]
           f == [x \in Given(c) |-> <<G(x[1]), x[2]>>]
           P == PlacesOf(Groups(senses, c), limit)
<1>1. \A x \in Given(c) : x = <<x[1], x[2]>> /\ x[1] \in DOMAIN senses /\ x[2] \in DOMAIN c[x[1]]
  BY DEF Given
<1>2. \A i \in DOMAIN senses : \A k \in DOMAIN c[i] : <<i, k>> \in Given(c) /\ k \in 1 .. limit /\ c[i] # <<>>
  <2> SUFFICES ASSUME NEW i \in DOMAIN senses, NEW k \in DOMAIN c[i]
               PROVE  <<i, k>> \in Given(c) /\ k \in 1 .. limit /\ c[i] # <<>>
    OBVIOUS
  <2>1. <<i, k>> \in Given(c)
    BY DEF Given
  <2>2. c[i] \in Seq(T) /\ Len(c[i]) <= limit /\ DOMAIN c[i] = 1 .. Len(c[i]) /\ Len(c[i]) \in Nat
    OBVIOUS
  <2>3. k \in 1 .. limit
    BY <2>2
  <2>4. c[i] # <<>>
    <3>1. ASSUME c[i] = <<>> PROVE FALSE
      <4>1. DOMAIN c[i] = {}
        BY <3>1
      <4>2. QED
        BY <4>1
    <3>2. QED
      BY <3>1
  <2>5. QED
    BY <2>1, <2>3, <2>4
<1>3. \A x, y \in Given(c) : f[x] = f[y] => x = y
  <2> SUFFICES ASSUME NEW x \in Given(c), NEW y \in Given(c), f[x] = f[y] PROVE x = y
    OBVIOUS
  <2>1. G(x[1]) = G(y[1]) /\ x[2] = y[2]
    OBVIOUS
  <2>2. senses[x[1]] = senses[y[1]]
    BY <2>1
  <2>3. x[1] = y[1]
    BY <1>1, <2>2
  <2>4. QED
    BY <1>1, <2>1, <2>3
<1>4. P = {f[x] : x \in Given(c)}
  <2>1. ASSUME NEW x \in Given(c) PROVE f[x] \in P
    <3>1. x[1] \in DOMAIN senses /\ x[2] \in DOMAIN c[x[1]] /\ x[2] \in 1 .. limit /\ c[x[1]] # <<>>
      BY <1>1, <1>2
    <3>2. G(x[1]) \in Groups(senses, c)
      BY <3>1 DEF Groups
    <3>3. f[x] = <<G(x[1]), x[2]>> /\ G(x[1]).shown = c[x[1]]
      OBVIOUS
    <3> HIDE DEF G
    <3>4. QED
      BY <3>1, <3>2, <3>3 DEF PlacesOf
  <2>2. ASSUME NEW y \in P PROVE \E x \in Given(c) : y = f[x]
    <3>1. y \in Groups(senses, c) \X (1 .. limit) /\ y[2] \in DOMAIN y[1].shown
      BY DEF PlacesOf
    <3>2. PICK i \in DOMAIN senses : y[1] = G(i)
      BY <3>1 DEF Groups
    <3>3. G(i).shown = c[i]
      OBVIOUS
    <3>4. <<i, y[2]>> \in Given(c) /\ y = <<G(i), y[2]>>
      BY <1>2, <3>1, <3>2, <3>3
    <3>5. f[<<i, y[2]>>] = <<G(i), y[2]>>
      BY <3>4
    <3>6. QED
      BY <3>4, <3>5
  <2>3. QED
    BY <2>1, <2>2
<1>5. DOMAIN f = Given(c)
  OBVIOUS
<1> HIDE DEF f, P
<1>6. Cardinality(P) = Cardinality(Given(c))
  BY <1>3, <1>4, <1>5, AsMany
<1>7. QED
  BY <1>6 DEF P

LEMMA SenseShown ==
  ASSUME NEW S, NEW senses \in Seq(S), \A i, j \in DOMAIN senses : senses[i] = senses[j] => i = j,
         NEW c, NEW i \in DOMAIN senses
  PROVE  ShownOf(Groups(senses, c), senses[i]) = RowsOf(c[i])
<1> DEFINE G(j) == [sense |-> senses[j], shown |-> c[j]]
           H == {h \in Groups(senses, c) : h.sense = senses[i]}
<1>1. \A j : G(j).sense = senses[j] /\ G(j).shown = c[j]
  OBVIOUS
<1>2. Groups(senses, c) = {G(j) : j \in {k \in DOMAIN senses : c[k] # <<>>}}
  BY DEF Groups
<1> HIDE DEF G
<1>3. H \subseteq {G(i)}
  BY <1>1, <1>2
<1>4. c[i] # <<>> => G(i) \in H
  BY <1>1, <1>2
<1>5. c[i] = <<>> => H = {} /\ RowsOf(c[i]) = {}
  <2> SUFFICES ASSUME c[i] = <<>> PROVE H = {} /\ RowsOf(c[i]) = {}
    OBVIOUS
  <2>1. H = {}
    BY <1>1, <1>2
  <2>2. DOMAIN c[i] = {}
    OBVIOUS
  <2>3. QED
    BY <2>1, <2>2 DEF RowsOf
<1>6. ShownOf(Groups(senses, c), senses[i]) = UNION {RowsOf(g.shown) : g \in H}
  BY DEF ShownOf
<1> HIDE DEF H
<1>7. CASE c[i] = <<>>
  BY <1>5, <1>6, <1>7
<1>8. CASE c[i] # <<>>
  <2>1. H = {G(i)}
    BY <1>3, <1>4, <1>8
  <2>2. QED
    BY <1>1, <1>6, <2>1
<1>9. QED
  BY <1>7, <1>8

LEMMA PrefixShown ==
  ASSUME NEW T, NEW l \in Seq(T), \A i, j \in DOMAIN l : l[i] = l[j] => i = j,
         NEW u, Len(u) \in 0 .. Len(l), u = Prefix(l, Len(u))
  PROVE  /\ u \in Seq(T) /\ RowsOf(u) \subseteq RowsOf(l) /\ Cardinality(RowsOf(u)) = Len(u)
         /\ Len(u) = Len(l) => RowsOf(u) = RowsOf(l)
<1> DEFINE n == Len(u)
<1>1. n \in Nat /\ u = Prefix(l, n) /\ Len(l) \in Nat
  OBVIOUS
<1> HIDE DEF n
<1>2. /\ u \in Seq(T) /\ \A k \in DOMAIN u : k \in DOMAIN l /\ u[k] = l[k]
      /\ Len(l) <= n => u = l
  BY <1>1, PrefixOf
<1>3. \A i, j \in DOMAIN u : u[i] = u[j] => i = j
  BY <1>2
<1>4. Cardinality(RowsOf(u)) = Len(u)
  BY <1>2, <1>3, DistinctCounted
<1>5. RowsOf(u) \subseteq RowsOf(l)
  BY <1>2 DEF RowsOf
<1>6. Len(u) = Len(l) => u = l
  BY <1>1, <1>2 DEF n
<1>7. QED
  BY <1>2, <1>4, <1>5, <1>6

(* Senses of a kind have their turns: none has two more than one that has  *)
(* some left, and a limit that is not reached leaves nothing of the senses *)
(* that are not a whole entry.                                             *)
FairShares(groups, senses, all, total, limit) ==
  /\ total <= limit
  /\ \A s, u \in senses :
       /\ ShownOf(groups, s) \subseteq all[s]
       /\ (s \in UnsensedSense <=> u \in UnsensedSense)
            /\ Cardinality(ShownOf(groups, s)) > Cardinality(ShownOf(groups, u)) + 1 =>
              ShownOf(groups, u) = all[u]
  /\ total < limit => \A s \in senses \ UnsensedSense : ShownOf(groups, s) = all[s]

(* What senses are given of their lists.                                   *)
Portions(senses, found, c) ==
  \A i \in DOMAIN senses :
    /\ Len(c[i]) \in 0 .. Len(found[i]) /\ c[i] = Prefix(found[i], Len(c[i]))
    /\ \A j \in DOMAIN senses : (senses[i] \in UnsensedSense <=> senses[j] \in UnsensedSense) =>
         (Len(c[i]) > Len(c[j]) + 1 => Len(c[j]) = Len(found[j]))

LEMMA SharesFair ==
  ASSUME NEW S, NEW senses, Lists(S, senses), NEW found, NEW c, Portions(senses, found, c),
         \A i \in DOMAIN senses : /\ found[i] \in Seq(Term)
                                  /\ \A k, h \in DOMAIN found[i] : found[i][k] = found[i][h] => k = h,
         NEW all, \A i \in DOMAIN senses : all[senses[i]] = RowsOf(found[i]),
         NEW total, NEW limit, total <= limit,
         total < limit =>
           \A i \in DOMAIN senses : senses[i] \notin UnsensedSense => Len(c[i]) = Len(found[i])
  PROVE  FairShares(Groups(senses, c), S, all, total, limit)
<1> DEFINE Sh(s) == ShownOf(Groups(senses, c), s)
<1>1. senses \in Seq(S) /\ \A i, j \in DOMAIN senses : senses[i] = senses[j] => i = j
  BY DEF Lists
<1>2. \A s \in S : \E i \in DOMAIN senses : senses[i] = s
  BY DEF Lists
<1>3. \A i \in DOMAIN senses : Sh(senses[i]) = RowsOf(c[i])
  BY <1>1, SenseShown
<1>4. \A i \in DOMAIN senses :
        /\ RowsOf(c[i]) \subseteq RowsOf(found[i]) /\ Cardinality(RowsOf(c[i])) = Len(c[i])
        /\ Len(c[i]) = Len(found[i]) => RowsOf(c[i]) = RowsOf(found[i])
  <2> SUFFICES ASSUME NEW i \in DOMAIN senses
               PROVE  /\ RowsOf(c[i]) \subseteq RowsOf(found[i]) /\ Cardinality(RowsOf(c[i])) = Len(c[i])
                      /\ Len(c[i]) = Len(found[i]) => RowsOf(c[i]) = RowsOf(found[i])
    OBVIOUS
  <2> DEFINE l == found[i]
             u == c[i]
  <2>1. l \in Seq(Term) /\ \A k, h \in DOMAIN l : l[k] = l[h] => k = h
    OBVIOUS
  <2>2. Len(u) \in 0 .. Len(l) /\ u = Prefix(l, Len(u))
    BY DEF Portions
  <2> HIDE DEF l, u
  <2>3. /\ RowsOf(u) \subseteq RowsOf(l) /\ Cardinality(RowsOf(u)) = Len(u)
        /\ Len(u) = Len(l) => RowsOf(u) = RowsOf(l)
    BY <2>1, <2>2, PrefixShown
  <2>4. QED
    BY <2>3 DEF l, u
<1> HIDE DEF Sh
<1>5. ASSUME NEW s \in S, NEW u \in S
      PROVE  /\ Sh(s) \subseteq all[s]
             /\ (s \in UnsensedSense <=> u \in UnsensedSense) /\ Cardinality(Sh(s)) > Cardinality(Sh(u)) + 1 =>
                  Sh(u) = all[u]
  <2>1. PICK i \in DOMAIN senses : senses[i] = s
    BY <1>2
  <2>2. PICK j \in DOMAIN senses : senses[j] = u
    BY <1>2
  <2>3. /\ Sh(s) = RowsOf(c[i]) /\ all[s] = RowsOf(found[i])
        /\ Sh(u) = RowsOf(c[j]) /\ all[u] = RowsOf(found[j])
    BY <1>3, <2>1, <2>2
  <2>4. /\ Cardinality(Sh(s)) = Len(c[i]) /\ Cardinality(Sh(u)) = Len(c[j])
    BY <1>4, <2>3
  <2>5. (senses[i] \in UnsensedSense <=> senses[j] \in UnsensedSense) =>
          (Len(c[i]) > Len(c[j]) + 1 => Len(c[j]) = Len(found[j]))
    BY DEF Portions
  <2>6. Len(c[j]) = Len(found[j]) => Sh(u) = all[u]
    BY <1>4, <2>3
  <2>7. Sh(s) \subseteq all[s]
    BY <1>4, <2>3
  <2>8. QED
    BY <2>1, <2>2, <2>4, <2>5, <2>6, <2>7
<1>6. ASSUME total < limit, NEW s \in S \ UnsensedSense PROVE Sh(s) = all[s]
  <2>1. PICK i \in DOMAIN senses : senses[i] = s
    BY <1>2
  <2>2. Len(c[i]) = Len(found[i])
    BY <1>6, <2>1
  <2>3. QED
    BY <1>3, <1>4, <2>1, <2>2
<1>7. QED
  BY <1>5, <1>6 DEF FairShares, Sh

(* Synonyms by relation, one for each word.                                *)
Nominated(C) ==
  /\ IsFiniteSet(C)
  /\ \A c \in C : /\ c.target \in Term /\ c.row \in Row /\ c.row.target = c.target
                  /\ c.orients # {} /\ c.orients \subseteq {1, 2} /\ c.support \in Nat
  /\ \A c, d \in C : c.target = d.target => c = d

LEMMA BestExists ==
  ASSUME NEW R, IsFiniteSet(R), R # {}, \A r \in R : r \in Row
  PROVE  \E r \in R : \A x \in R : x = r \/ ~ Before(RankKey(x), RankKey(r))
<1> DEFINE f == [r \in R |-> RankKey(r)]
           K == {f[r] : r \in R}
           key == [k \in K |-> k]
           s == Sorted(key)
<1>1. \A r \in R : f[r] = RankKey(r) /\ f[r] \in Keys(10)
  BY RankKeys
<1>2. IsFiniteSet(K) /\ DOMAIN f = R
  <2>1. DOMAIN f = R
    OBVIOUS
  <2> HIDE DEF f
  <2>2. IsFiniteSet(K)
    BY <2>1, ImageCounted
  <2>3. QED
    BY <2>1, <2>2
<1> HIDE DEF f
<1>3. \A k \in K : k \in Keys(10)
  BY <1>1
<1>4. Keyed(K, key, 10)
  <2>1. key \in [K -> Keys(10)] /\ \A k, l \in K : key[k] = key[l] => k = l
    BY <1>3
  <2> HIDE DEF K, key
  <2>2. QED
    BY <1>2, <2>1, 10 \in Nat DEF Keyed
<1>5. \A k \in K : key[k] = k
  OBVIOUS
<1>6. K # {}
  OBVIOUS
<1>7. \A k \in K : \E r \in R : RankKey(r) = k
  BY <1>1
<1>8. \A r \in R : RankKey(r) \in K
  BY <1>1
<1> HIDE DEF K, key
<1>9. /\ \A k \in K : \E i \in 1 .. Cardinality(K) : s[i] = k
      /\ \A i \in 1 .. Cardinality(K) : s[i] \in K
      /\ \A i, j \in 1 .. Cardinality(K) : i < j => Before(key[s[i]], key[s[j]])
      /\ Cardinality(K) \in Nat
  BY <1>4, SortedLists
<1> HIDE DEF s
<1>10. 1 \in 1 .. Cardinality(K)
  <2>1. PICK k \in K : TRUE
    BY <1>6
  <2>2. PICK i \in 1 .. Cardinality(K) : s[i] = k
    BY <1>9
  <2>3. QED
    BY <1>9, <2>2
<1>11. s[1] \in K
  BY <1>9, <1>10
<1>12. PICK r \in R : RankKey(r) = s[1]
  BY <1>7, <1>11
<1>13. ASSUME NEW x \in R PROVE ~ Before(RankKey(x), RankKey(r))
  <2> DEFINE a == s[1]
             b == RankKey(x)
  <2>1. PICK i \in 1 .. Cardinality(K) : s[i] = b
    BY <1>8, <1>9
  <2>2. a \in K /\ b \in K /\ RankKey(r) = a
    BY <1>8, <1>11, <1>12
  <2>3. i = 1 \/ 1 < i
    OBVIOUS
  <2>4. a = b \/ Before(a, b)
    <3>1. CASE i = 1
      BY <2>1, <3>1
    <3>2. CASE 1 < i
      <4>1. Before(key[s[1]], key[s[i]])
        BY <1>9, <1>10, <3>2
      <4>2. key[s[1]] = a /\ key[s[i]] = b
        BY <1>5, <2>1, <2>2
      <4>3. QED
        BY <4>1, <4>2
    <3>3. QED
      BY <2>3, <3>1, <3>2
  <2> HIDE DEF a, b
  <2>5. a \in Keys(10) /\ b \in Keys(10)
    BY <1>3, <2>2
  <2>6. ~ Before(b, a)
    BY <2>4, <2>5, BeforeOrders, 10 \in Nat
  <2>7. QED
    BY <2>2, <2>6 DEF b
<1>14. QED
  BY <1>13

LEMMA SynonymsNominated ==
  ASSUME NEW F, NEW found \in Seq(F), \A r \in RowsOf(found) : r \in Row /\ r.orient \in {1, 2},
         NEW t, NEW support, \A u \in Term : support[u] \in Nat,
         NEW C, C = SynonymsAmong(found, t, support)
  PROVE  /\ Nominated(C)
         /\ {c.target : c \in C} = {r.target : r \in {x \in RowsOf(found) : Unsensed(x) /\ x.target # t}}
<1> DEFINE R == {r \in RowsOf(found) : Unsensed(r) /\ r.target # t}
           Best(u) == CHOOSE r \in R : r.target = u /\ \A x \in R :
                        x.target = u => x = r \/ ~ Before(RankKey(x), RankKey(r))
           D == {r.target : r \in R}
           f == [u \in D |-> [target |-> u, row |-> Best(u), orients |-> {r.orient : r \in {x \in R : x.target = u}},
                              support |-> support[u], affine |-> <<t, u>> \in Affine \/ <<u, t>> \in Affine]]
<1>1. C = {f[u] : u \in D}
  BY DEF SynonymsAmong
<1>2. \A u \in D : /\ f[u].target = u /\ f[u].row = Best(u) /\ f[u].support = support[u]
                   /\ f[u].orients = {r.orient : r \in {x \in R : x.target = u}}
  OBVIOUS
<1>3. DOMAIN f = D
  OBVIOUS
<1> HIDE DEF f
<1>4. IsFiniteSet(R)
  <2>1. R \in SUBSET RowsOf(found)
    OBVIOUS
  <2>2. QED
    BY <2>1, RowsCounted, FS_Subset
<1>5. IsFiniteSet(D)
  <2> DEFINE g == [r \in R |-> r.target]
  <2>1. D = {g[r] : r \in R} /\ DOMAIN g = R
    OBVIOUS
  <2> HIDE DEF g, D, R
  <2>2. QED
    BY <1>4, <2>1, ImageCounted
<1>6. IsFiniteSet(C)
  <2> HIDE DEF D
  <2>1. QED
    BY <1>1, <1>3, <1>5, ImageCounted
<1>7. \A r \in R : r \in Row /\ r.orient \in {1, 2} /\ r.target \in Term
  BY DEF Row
<1>8. ASSUME NEW u \in D PROVE Best(u) \in R /\ Best(u).target = u
  <2> DEFINE T == {r \in R : r.target = u}
  <2>1. T # {} /\ T \in SUBSET R
    OBVIOUS
  <2>2. IsFiniteSet(T) /\ \A r \in T : r \in Row
    BY <1>4, <1>7, <2>1, FS_Subset
  <2>3. \A r : r \in T <=> r \in R /\ r.target = u
    OBVIOUS
  <2> HIDE DEF T, R
  <2>4. PICK r \in T : \A x \in T : x = r \/ ~ Before(RankKey(x), RankKey(r))
    BY <2>1, <2>2, BestExists
  <2>5. r \in R /\ r.target = u /\ \A x \in R : x.target = u => x = r \/ ~ Before(RankKey(x), RankKey(r))
    BY <2>3, <2>4
  <2>6. QED
    BY <2>5
<1>9. ASSUME NEW u \in D
      PROVE  /\ u \in Term /\ f[u].target = u /\ f[u].row \in Row /\ f[u].row.target = u
             /\ f[u].orients # {} /\ f[u].orients \subseteq {1, 2} /\ f[u].support \in Nat
  <2>1. PICK r \in R : r.target = u
    OBVIOUS
  <2>2. u \in Term
    BY <1>7, <2>1
  <2>3. f[u].row \in Row /\ f[u].row.target = u
    <3>1. f[u].row = Best(u) /\ Best(u) \in R /\ Best(u).target = u
      BY <1>2, <1>8
    <3> HIDE DEF Best, R
    <3>2. QED
      BY <1>7, <3>1
  <2>4. r.orient \in f[u].orients /\ f[u].orients \subseteq {1, 2}
    BY <1>2, <1>7, <2>1
  <2>5. QED
    BY <1>2, <2>2, <2>3, <2>4
<1> HIDE DEF Best, D
<1>10. Nominated(C)
  <2>1. \A c \in C : /\ c.target \in Term /\ c.row \in Row /\ c.row.target = c.target
                     /\ c.orients # {} /\ c.orients \subseteq {1, 2} /\ c.support \in Nat
    BY <1>1, <1>9
  <2>2. \A c, d \in C : c.target = d.target => c = d
    BY <1>1, <1>9
  <2>3. QED
    BY <1>6, <2>1, <2>2 DEF Nominated
<1>11. {c.target : c \in C} = D
  BY <1>1, <1>2
<1>12. QED
  BY <1>10, <1>11 DEF D

(* One list before another.                                                *)
Follows(A, B, s, t, u) ==
  /\ Lists(A \cup B, u) /\ Len(u) = Len(s) + Len(t) /\ Len(s) \in Nat /\ Len(t) \in Nat
  /\ DOMAIN u = 1 .. Len(s) + Len(t)
  /\ \A k \in 1 .. Len(s) : u[k] \in A
  /\ \A x \in A : \E k \in 1 .. Len(s) : u[k] = x

LEMMA ListsFollow ==
  ASSUME NEW A, NEW B, A \cap B = {}, NEW s, Lists(A, s), NEW t, Lists(B, t)
  PROVE  Follows(A, B, s, t, Join(s, t))
<1> DEFINE u == s \o t
           m == Len(s)
           n == Len(t)
<1>1. s \in Seq(A \cup B) /\ t \in Seq(A \cup B)
  BY SeqWithin DEF Lists
<1>2. /\ m \in Nat /\ n \in Nat /\ DOMAIN s = 1 .. m /\ DOMAIN t = 1 .. n
      /\ \A k \in 1 .. m : s[k] \in A
      /\ \A k \in 1 .. n : t[k] \in B
      /\ \A x \in A : \E i \in 1 .. m : s[i] = x
      /\ \A x \in B : \E i \in 1 .. n : t[i] = x
      /\ \A i, j \in 1 .. m : s[i] = s[j] => i = j
      /\ \A i, j \in 1 .. n : t[i] = t[j] => i = j
  <2>1. s \in Seq(A) /\ t \in Seq(B)
    BY DEF Lists
  <2>2. m \in Nat /\ n \in Nat /\ DOMAIN s = 1 .. m /\ DOMAIN t = 1 .. n
    BY <2>1
  <2>3. (\A k \in 1 .. m : s[k] \in A) /\ \A k \in 1 .. n : t[k] \in B
    BY <2>1
  <2>4. QED
    BY <2>2, <2>3 DEF Lists
<1>3. /\ u \in Seq(A \cup B) /\ Len(u) = m + n /\ DOMAIN u = 1 .. m + n
      /\ \A k \in 1 .. m : u[k] = s[k]
      /\ \A k \in 1 .. n : u[m + k] = t[k]
  BY <1>1, JoinOf
<1> HIDE DEF u, m, n
<1>4. \A k \in m + 1 .. m + n : k - m \in 1 .. n /\ m + (k - m) = k
  BY <1>2
<1>5. \A k \in m + 1 .. m + n : u[k] = t[k - m] /\ u[k] \in B
  <2> SUFFICES ASSUME NEW k \in m + 1 .. m + n PROVE u[k] = t[k - m] /\ u[k] \in B
    OBVIOUS
  <2> DEFINE h == k - m
  <2>1. h \in 1 .. n /\ m + h = k
    BY <1>4
  <2> HIDE DEF h
  <2>2. u[m + h] = t[h] /\ t[h] \in B
    BY <1>2, <1>3, <2>1
  <2>3. QED
    BY <2>1, <2>2 DEF h
<1>6. \A k \in 1 .. m : u[k] \in A
  BY <1>2, <1>3
<1>7. \A x \in A : \E k \in 1 .. m : u[k] = x
  BY <1>2, <1>3
<1>8. \A x \in B : \E k \in 1 .. m + n : u[k] = x
  <2> SUFFICES ASSUME NEW x \in B PROVE \E k \in 1 .. m + n : u[k] = x
    OBVIOUS
  <2>1. PICK i \in 1 .. n : t[i] = x
    BY <1>2
  <2>2. m + i \in 1 .. m + n /\ u[m + i] = x
    BY <1>2, <1>3, <2>1
  <2>3. QED
    BY <2>2
<1>9. \A k \in 1 .. m + n : k \in 1 .. m \/ k \in m + 1 .. m + n
  BY <1>2
<1>10. \A k \in 1 .. m : k \in 1 .. m + n
  BY <1>2
<1>11. ASSUME NEW i \in 1 .. m + n, NEW j \in 1 .. m + n, u[i] = u[j] PROVE i = j
  <2>1. CASE i \in 1 .. m /\ j \in 1 .. m
    BY <1>2, <1>3, <1>11, <2>1
  <2>2. CASE i \in m + 1 .. m + n /\ j \in m + 1 .. m + n
    <3>1. t[i - m] = t[j - m] /\ i - m \in 1 .. n /\ j - m \in 1 .. n
      BY <1>4, <1>5, <1>11, <2>2
    <3>2. i - m = j - m
      BY <1>2, <3>1
    <3>3. QED
      BY <1>2, <3>2
  <2>3. CASE i \in 1 .. m /\ j \in m + 1 .. m + n
    BY <1>5, <1>6, <1>11, <2>3
  <2>4. CASE i \in m + 1 .. m + n /\ j \in 1 .. m
    BY <1>5, <1>6, <1>11, <2>4
  <2>5. QED
    BY <1>9, <2>1, <2>2, <2>3, <2>4
<1>12. Lists(A \cup B, u)
  BY <1>3, <1>7, <1>8, <1>10, <1>11 DEF Lists
<1>13. Follows(A, B, s, t, u)
  BY <1>2, <1>3, <1>6, <1>7, <1>12 DEF Follows, m, n
<1>14. QED
  BY <1>13 DEF u, Join

(* The order of synonyms by relation: fifteen numbers.                     *)
Standing(c) == <<IF c.row.senses > 0 THEN 0 ELSE 1, IF c.affine THEN 0 ELSE 1,
                 IF c.support > 0 THEN 0 ELSE 1, -c.row.senses, -c.support>>

StandingKey(c) == Standing(c) \o RankKey(c.row)

Bin(c) == <<CHOOSE o \in c.orients : TRUE, c.row.prov>>

RankedPart(part) ==
  LET both == {c \in part : Cardinality(c.orients) > 1}
  IN Sorted([c \in both |-> StandingKey(c)])
       \o RoundRobin([c \in part \ both |-> Bin(c)], [c \in part \ both |-> StandingKey(c)])

LEMMA StandingKeys ==
  ASSUME NEW C, Nominated(C), NEW c \in C
  PROVE  /\ StandingKey(c) \in Keys(15) /\ Bin(c) \in Keys(2)
         /\ \A d \in C : StandingKey(c) = StandingKey(d) => c = d
<1>1. \A d \in C : /\ d.row \in Row /\ d.row.target = d.target /\ d.orients # {}
                   /\ d.orients \subseteq {1, 2} /\ d.support \in Nat
  BY DEF Nominated
<1>2. \A d \in C : RankKey(d.row) \in Keys(10)
  BY <1>1, RankKeys
<1>3. ASSUME NEW d \in C PROVE Standing(d) \in Keys(5)
  <2> DEFINE a == IF d.row.senses > 0 THEN 0 ELSE 1
             b == IF d.affine THEN 0 ELSE 1
             e == IF d.support > 0 THEN 0 ELSE 1
             g == -d.row.senses
             h == -d.support
  <2>1. a \in Int /\ b \in Int /\ e \in Int
    OBVIOUS
  <2>2. g \in Int /\ h \in Int
    BY <1>1, RowNumbers
  <2>3. Standing(d) = <<a, b, e, g, h>>
    BY DEF Standing
  <2> HIDE DEF a, b, e, g, h
  <2>4. QED
    BY <2>1, <2>2, <2>3 DEF Keys
<1>4. \A d \in C : StandingKey(d) = Join(Standing(d), RankKey(d.row))
  BY DEF StandingKey, Join
<1>5. StandingKey(c) \in Keys(15)
  <2>1. Join(Standing(c), RankKey(c.row)) \in Keys(5 + 10)
    BY <1>2, <1>3, JoinKeys, 5 \in Nat, 10 \in Nat
  <2>2. QED
    BY <1>4, <2>1
<1>6. Bin(c) \in Keys(2)
  <2>1. (CHOOSE o \in c.orients : TRUE) \in {1, 2}
    BY <1>1
  <2> DEFINE o == CHOOSE o \in c.orients : TRUE
  <2>2. o \in Int /\ c.row.prov \in Int
    BY <1>1, <2>1, RowNumbers
  <2>3. Bin(c) = <<o, c.row.prov>>
    BY DEF Bin
  <2> HIDE DEF o
  <2>4. QED
    BY <2>2, <2>3, Tuples
<1>7. ASSUME NEW d \in C, StandingKey(c) = StandingKey(d) PROVE c = d
  <2>1. Join(Standing(c), RankKey(c.row)) = Join(Standing(d), RankKey(d.row))
    BY <1>4, <1>7
  <2>2. RankKey(c.row) = RankKey(d.row)
    BY <1>2, <1>3, <2>1, JoinApart, 5 \in Nat, 10 \in Nat DEF Same
  <2>3. c.row.target = d.row.target
    BY <1>1, <2>2, RankKeys
  <2>4. c.target = d.target
    BY <1>1, <2>3
  <2>5. QED
    BY <2>4 DEF Nominated
<1>8. QED
  BY <1>5, <1>6, <1>7

LEMMA RankedPartLists ==
  ASSUME NEW C, Nominated(C), NEW P \in SUBSET C
  PROVE  Lists(P, RankedPart(P))
<1> DEFINE both == {c \in P : Cardinality(c.orients) > 1}
           rest == P \ both
           key == [c \in both |-> StandingKey(c)]
           bin == [c \in rest |-> Bin(c)]
           order == [c \in rest |-> StandingKey(c)]
<1>1. RankedPart(P) = Join(Sorted(key), RoundRobin(bin, order))
  BY DEF RankedPart, Join
<1>2. both \in SUBSET C /\ rest \in SUBSET C /\ both \cap rest = {} /\ both \cup rest = P
  OBVIOUS
<1> HIDE DEF both, rest
<1>3. IsFiniteSet(both) /\ IsFiniteSet(rest)
  BY <1>2, FS_Subset DEF Nominated
<1>4. \A c \in C : StandingKey(c) \in Keys(15) /\ Bin(c) \in Keys(2)
  BY StandingKeys
<1>5. \A c, d \in C : StandingKey(c) = StandingKey(d) => c = d
  BY StandingKeys
<1>6. Keyed(both, key, 15)
  <2>1. key \in [both -> Keys(15)] /\ \A c, d \in both : key[c] = key[d] => c = d
    BY <1>2, <1>4, <1>5
  <2>2. QED
    BY <1>3, <2>1, 15 \in Nat DEF Keyed
<1>7. Lists(both, Sorted(key))
  BY <1>6, SortedIsList
<1>8. Lists(rest, RoundRobin(bin, order))
  <2>1. /\ bin \in [rest -> Keys(2)] /\ order \in [rest -> Keys(15)]
        /\ \A c, d \in rest : bin[c] = bin[d] /\ order[c] = order[d] => c = d
    BY <1>2, <1>4, <1>5
  <2> HIDE DEF bin, order
  <2>2. QED
    BY <1>3, <2>1, RoundRobinLists, 2 \in Nat, 15 \in Nat
<1> HIDE DEF key, bin, order
<1>9. Lists(both \cup rest, Join(Sorted(key), RoundRobin(bin, order)))
  <2>1. Follows(both, rest, Sorted(key), RoundRobin(bin, order), Join(Sorted(key), RoundRobin(bin, order)))
    BY <1>2, <1>7, <1>8, ListsFollow
  <2>2. QED
    BY <2>1 DEF Follows
<1>10. QED
  BY <1>1, <1>2, <1>9

(* Words that no sense shows are taken before any that one shows.          *)
LEMMA RankUnsensedOf ==
  ASSUME NEW C, Nominated(C), NEW shown, NEW n \in 0 .. Cardinality(C),
         NEW e, e = Targets(Prefix(RankUnsensed(C, shown), n))
  PROVE  /\ Len(e) = n /\ RowsOf(e) \subseteq {c.target : c \in C}
         /\ RowsOf(e) \cap shown # {} => \A c \in C : c.target \in shown \cup RowsOf(e)
<1> DEFINE again == {c \in C : c.target \in shown}
           new == C \ again
           s == RankedPart(new)
           t == RankedPart(again)
           u == Join(s, t)
           m == Len(s)
           p == Prefix(u, n)
<1>1. RankUnsensed(C, shown) = u
  BY DEF RankUnsensed, RankedPart, StandingKey, Standing, Bin, Join
<1>2. again \in SUBSET C /\ new \in SUBSET C /\ new \cap again = {} /\ new \cup again = C
  OBVIOUS
<1>3. Lists(new, s) /\ Lists(again, t)
  <2> HIDE DEF again, new
  <2>1. QED
    BY <1>2, RankedPartLists
<1>4. /\ Lists(C, u) /\ m \in Nat /\ Len(t) \in Nat /\ DOMAIN u = 1 .. m + Len(t)
      /\ Len(u) = m + Len(t)
      /\ \A k \in 1 .. m : u[k] \in new
      /\ \A x \in new : \E k \in 1 .. m : u[k] = x
  <2> HIDE DEF again, new, s, t
  <2>0. Follows(new, again, s, t, u)
    BY <1>2, <1>3, ListsFollow
  <2> HIDE DEF u, m
  <2>1. /\ Lists(new \cup again, u) /\ Len(u) = m + Len(t) /\ m \in Nat /\ Len(t) \in Nat
        /\ DOMAIN u = 1 .. m + Len(t)
        /\ \A k \in 1 .. m : u[k] \in new
        /\ \A x \in new : \E k \in 1 .. m : u[k] = x
    BY <2>0 DEF Follows, m
  <2>2. QED
    BY <1>2, <2>1
<1> HIDE DEF s, t, u, m
<1>5. u \in Seq(C) /\ Len(u) = Cardinality(C)
  <2>1. u \in Seq(C) /\ (\A x \in C : \E i \in DOMAIN u : u[i] = x) /\ \A i, j \in DOMAIN u : u[i] = u[j] => i = j
    BY <1>4 DEF Lists
  <2>2. RowsOf(u) = C
    <3>1. RowsOf(u) \subseteq C
      BY <2>1, RowsCounted
    <3>2. QED
      BY <2>1, <3>1 DEF RowsOf
  <2>3. QED
    BY <2>1, <2>2, DistinctCounted
<1>6. n \in Nat /\ n <= Len(u) /\ Len(u) \in Nat
  BY <1>5
<1>7. /\ p \in Seq(C) /\ Len(p) = n
      /\ \A k \in DOMAIN p : k \in DOMAIN u /\ k <= n /\ p[k] = u[k]
      /\ \A k \in DOMAIN u : k <= n => k \in DOMAIN p
  <2>1. /\ p \in Seq(C) /\ Len(p) = (IF n < Len(u) THEN n ELSE Len(u))
        /\ \A k \in DOMAIN p : k \in DOMAIN u /\ k <= n /\ p[k] = u[k]
        /\ \A k \in DOMAIN u : k <= n => k \in DOMAIN p
    BY <1>5, <1>6, PrefixOf
  <2>2. QED
    BY <1>6, <2>1
<1> HIDE DEF p
<1>8. e = Targets(p)
  BY <1>1 DEF p
<1>9. \A c \in C : c.target \in Term
  BY DEF Nominated
<1>10. Len(e) = n /\ RowsOf(e) = {c.target : c \in RowsOf(p)}
  BY <1>7, <1>8, <1>9, TargetsOf
<1>11. RowsOf(p) \subseteq C
  BY <1>7, RowsCounted
<1>12. ASSUME RowsOf(e) \cap shown # {}, NEW c \in C PROVE c.target \in shown \cup RowsOf(e)
  <2>1. PICK d \in RowsOf(p) : d.target \in shown
    BY <1>10, <1>12
  <2>2. PICK k \in DOMAIN p : p[k] = d
    BY DEF RowsOf
  <2>3. k \in DOMAIN u /\ k <= n /\ u[k] = d /\ d \in again
    BY <1>7, <1>11, <2>1, <2>2
  <2>4. ~ (k \in 1 .. m)
    BY <1>2, <1>4, <2>3
  <2>5. m <= n
    BY <1>4, <1>6, <2>3, <2>4
  <2>6. CASE c \in new
    <3>1. PICK h \in 1 .. m : u[h] = c
      BY <1>4, <2>6
    <3>2. h \in DOMAIN u /\ h <= n
      BY <1>4, <1>6, <2>5
    <3>3. h \in DOMAIN p /\ p[h] = c
      BY <1>7, <3>1, <3>2
    <3>4. c \in RowsOf(p)
      BY <3>3 DEF RowsOf
    <3>5. QED
      BY <1>10, <3>4
  <2>7. CASE c \notin new
    BY <2>7
  <2>8. QED
    BY <2>6, <2>7
<1>13. QED
  BY <1>10, <1>11, <1>12

LEMMA ListCounted ==
  ASSUME NEW S, NEW s, Lists(S, s)
  PROVE  RowsOf(s) = S /\ IsFiniteSet(S) /\ Len(s) \in Nat /\ Cardinality(S) = Len(s)
<1>1. s \in Seq(S) /\ \A i, j \in DOMAIN s : s[i] = s[j] => i = j
  BY DEF Lists
<1>2. IsFiniteSet(RowsOf(s)) /\ Cardinality(RowsOf(s)) = Len(s)
  BY <1>1, DistinctCounted
<1>3. \A i \in DOMAIN s : s[i] \in S
  BY <1>1
<1>4. RowsOf(s) = S
  BY <1>3 DEF RowsOf, Lists
<1>5. QED
  BY <1>1, <1>2, <1>4

LEMMA ListWhole ==
  ASSUME NEW S, NEW s, Lists(S, s), NEW n \in Nat, Cardinality(S) <= n
  PROVE  RowsOf(Prefix(s, n)) = S
<1>1. RowsOf(s) = S /\ Len(s) <= n
  BY ListCounted
<1>2. s \in Seq(S)
  BY DEF Lists
<1>3. Prefix(s, n) = s
  BY <1>1, <1>2, PrefixOf
<1>4. QED
  BY <1>1, <1>3

LEMMA CandidateOf ==
  ASSUME NEW db, Tables(db), NEW q, NEW o \in {1, 2}, NEW h \in Hits(db, q, o)
  PROVE  \E c \in Candidates(db, q, o) :
           c \in Row /\ c.target = h.target /\ c.ssense = h.ssense /\ c.tsense = h.tsense
<1> DEFINE S == FoundSet(db, q, o)
           r == Found(db, o, h)
<1>1. r \in S
  BY DEF FoundSet
<1>2. r.target = h.target /\ r.ssense = h.ssense /\ r.tsense = h.tsense
  BY DEF Found
<1>3. IsFiniteSet(S) /\ r \in Row
  BY <1>1, FoundTyped
<1>4. Candidates(db, q, o) = {Numbering(S, x) : x \in S}
  <2>1. Candidates(db, q, o) = WithVariants(S)
    BY CandidatesAre DEF FoundSet
  <2> HIDE DEF S
  <2>2. QED
    BY <2>1 DEF WithVariants, Numbering, Variants
<1> HIDE DEF r, S
<1>5. Numbering(S, r) \in Row
  BY <1>3, NumberingTyped
<1>6. /\ Numbering(S, r).target = r.target /\ Numbering(S, r).ssense = r.ssense
      /\ Numbering(S, r).tsense = r.tsense
  BY <1>3 DEF Numbering, Row
<1>7. QED
  BY <1>1, <1>2, <1>4, <1>5, <1>6

LEMMA ReadRowsCounted ==
  ASSUME NEW db, Tables(db), NEW q
  PROVE  /\ Cardinality(ReadRows(db, q)) \in Nat
         /\ Cardinality(Candidates(db, q, 1)) \in Nat /\ Cardinality(Candidates(db, q, 2)) \in Nat
         /\ Cardinality(ReadRows(db, q))
              <= Cardinality(Candidates(db, q, 1)) + Cardinality(Candidates(db, q, 2))
<1> DEFINE A == Candidates(db, q, 1)
           B == Candidates(db, q, 2)
           U == A \cup B
           f == [r \in U |-> Upright(r)]
<1>1. IsFiniteSet(A) /\ IsFiniteSet(B)
  BY CandidatesTyped
<1>2. ReadRows(db, q) = {f[r] : r \in U} /\ DOMAIN f = U
  BY DEF ReadRows
<1> HIDE DEF A, B, f
<1>3. IsFiniteSet(U) /\ Cardinality(U) = Cardinality(A) + Cardinality(B) - Cardinality(A \cap B)
  BY <1>1, FS_Union
<1>4. IsFiniteSet(A \cap B)
  BY <1>1, FS_Intersection
<1>5. /\ Cardinality(A) \in Nat /\ Cardinality(B) \in Nat /\ Cardinality(A \cap B) \in Nat
      /\ Cardinality(U) \in Nat
  BY <1>1, <1>3, <1>4, FS_CardinalityType
<1> HIDE DEF U
<1>6. IsFiniteSet({f[r] : r \in U}) /\ Cardinality({f[r] : r \in U}) <= Cardinality(U)
  BY <1>2, <1>3, ImageCounted
<1>7. Cardinality({f[r] : r \in U}) \in Nat
  BY <1>6, FS_CardinalityType
<1> DEFINE n == Cardinality({f[r] : r \in U})
<1>8. n = Cardinality(ReadRows(db, q))
  BY <1>2
<1>9. n \in Nat /\ n <= Cardinality(U)
  BY <1>6, <1>7
<1> HIDE DEF n
<1>10. n <= Cardinality(A) + Cardinality(B)
  BY <1>3, <1>5, <1>9
<1>11. QED
  BY <1>5, <1>8, <1>9, <1>10 DEF A, B

(* When a scan has room for what a term has in both orientations, it cuts  *)
(* off none of it.                                                         *)
LEMMA WholeScan ==
  ASSUME NEW db, Tables(db), NEW q,
         Cardinality(Candidates(db, q, 1)) + Cardinality(Candidates(db, q, 2)) <= Scan
  PROVE  RowsOf(RankedRows(db, q, Scan)) = ReadRows(db, q)
<1>1. Scan \in Nat
  BY QueriesAssumption
<1>2. \A o \in {1, 2} : Cardinality(Candidates(db, q, o)) <= Scan
  BY <1>1, ReadRowsCounted
<1>3. ASSUME NEW o \in {1, 2}
      PROVE  RowsOf(Prefix(InQueryOrder(Candidates(db, q, o)), Scan)) = Candidates(db, q, o)
  BY <1>1, <1>2, InQueryOrderLists, ListWhole
<1>4. DirectRows(db, q, Scan) = Oriented(Candidates(db, q, 1) \cup Candidates(db, q, 2))
  <2> DEFINE D(o) == RowsOf(Prefix(InQueryOrder(Candidates(db, q, o)), Scan))
  <2>1. DirectRows(db, q, Scan) = Oriented(UNION {D(o) : o \in {1, 2}})
    BY DEF DirectRows
  <2>2. D(1) = Candidates(db, q, 1) /\ D(2) = Candidates(db, q, 2)
    BY <1>3
  <2> HIDE DEF D
  <2>3. UNION {D(o) : o \in {1, 2}} = D(1) \cup D(2)
    OBVIOUS
  <2>4. QED
    BY <2>1, <2>2, <2>3
<1>5. DirectRows(db, q, Scan) = ReadRows(db, q)
  BY <1>4 DEF Oriented, Upright, ReadRows
<1>6. Lists(ReadRows(db, q), InTurns(ReadRows(db, q)))
  BY InTurnsLists
<1>7. Cardinality(ReadRows(db, q)) <= Scan
  BY <1>1, ReadRowsCounted
<1>8. RowsOf(Prefix(InTurns(ReadRows(db, q)), Scan)) = ReadRows(db, q)
  BY <1>1, <1>6, <1>7, ListWhole
<1>9. QED
  BY <1>5, <1>8 DEF RankedRows, RankOriented, InTurns

(* What the file of a language holds of the terms of that language.        *)
Serves(db, l) ==
  /\ Tables(db) /\ db.senses \subseteq Nat
  /\ db.translations \subseteq Detail /\ IsFiniteSet(db.translations)
  /\ db.synonyms \subseteq Detail /\ IsFiniteSet(db.synonyms)
  /\ \A t \in Corpus.terms : LanguageOf[t] = l =>
       t \in db.terms /\ SensesOf(db, t) = SensesOf(Corpus, t)
  /\ \A s \in db.senses :
       /\ {r \in db.translations : r.sense = s} = {r \in Corpus.translations : r.sense = s}
       /\ {r \in db.synonyms : r.sense = s} = {r \in Corpus.synonyms : r.sense = s}
  /\ \A r \in db.synonyms : r.target \in db.terms
  /\ \A r \in Corpus.relations : r.source \in db.terms \/ r.target \in db.terms => r \in db.relations

LEMMA PackServes ==
  ASSUME PackedInv, packs # NotYet, NEW i \in DOMAIN packs, NEW p, p = packs[i].content, NEW l \in Serving(i)
  PROVE  Serves(p, l)
<1>1. Closed(p) /\ Holds(p, Corpus, counts, Serving(i))
  <2>1. Closed(p) /\ p = LexicalPack(Corpus, counts, Serving(i))
    BY BuiltPack
  <2>2. QED
    BY <2>1, PackHolds
<1>2. Tables(p) /\ p.senses \subseteq Nat
  BY PackTables
<1>3. /\ p.translations = {r \in Corpus.translations : r.sense \in p.senses}
      /\ p.synonyms = {r \in Corpus.synonyms : r.sense \in p.senses}
      /\ p.relations = {r \in Corpus.relations : r.source \in p.terms \/ r.target \in p.terms}
      /\ p.terms = Owned(Corpus, Serving(i))
      /\ p.entries = {e \in Corpus.entries : HeadOf[e] \in p.terms}
      /\ p.senses = {s \in Corpus.senses : EntryOf[s] \in p.entries}
  BY <1>1 DEF Holds
<1>4. /\ Corpus.translations \subseteq Detail /\ IsFiniteSet(Corpus.translations)
      /\ Corpus.synonyms \subseteq Detail /\ IsFiniteSet(Corpus.synonyms)
  BY CorpusTyped DEF PackedInv
<1>5. /\ p.translations \subseteq Detail /\ IsFiniteSet(p.translations)
      /\ p.synonyms \subseteq Detail /\ IsFiniteSet(p.synonyms)
  <2>1. p.translations \in SUBSET Corpus.translations /\ p.synonyms \in SUBSET Corpus.synonyms
    BY <1>3
  <2>2. QED
    BY <1>4, <2>1, FS_Subset
<1>6. ASSUME NEW t \in Corpus.terms, LanguageOf[t] = l
      PROVE  t \in p.terms /\ SensesOf(p, t) = SensesOf(Corpus, t)
  <2>1. t \in p.terms
    BY <1>3, <1>6 DEF Owned
  <2>2. \A s \in Corpus.senses : HeadOf[EntryOf[s]] = t => s \in p.senses
    BY <1>3, <2>1, CorpusClosed
  <2>3. SensesOf(p, t) = SensesOf(Corpus, t)
    BY <1>3, <2>2 DEF SensesOf
  <2>4. QED
    BY <2>1, <2>3
<1>7. ASSUME NEW s \in p.senses
      PROVE  /\ {r \in p.translations : r.sense = s} = {r \in Corpus.translations : r.sense = s}
             /\ {r \in p.synonyms : r.sense = s} = {r \in Corpus.synonyms : r.sense = s}
  BY <1>3
<1>8. \A r \in p.synonyms : r.target \in p.terms
  BY <1>1 DEF Closed
<1>9. \A r \in Corpus.relations : r.source \in p.terms \/ r.target \in p.terms => r \in p.relations
  BY <1>3
<1>10. QED
  BY <1>2, <1>5, <1>6, <1>7, <1>8, <1>9 DEF Serves

LEMMA ViewServes ==
  ASSUME PackedInv, view # <<>>, NEW l \in DOMAIN view
  PROVE  Serves(view[l], l)
<1>1. PICK i \in DOMAIN packs : l \in Serving(i) /\ view[l] = packs[i].content
  BY ViewPacks
<1>2. packs # NotYet
  BY ViewPacks
<1>3. QED
  BY <1>1, <1>2, PackServes

SynonymQuestion(t) == [term |-> t, code |-> Synonym, target |-> LanguageOf[t], sense |-> NoSense]

(* The synonyms of a term that relations without a sense give it.          *)
UnsensedSynonyms(t) ==
  LET code == {r \in Corpus.relations : r.code = Synonym /\ Unsensed(r)}
      all == {r.target : r \in {x \in code : x.source = t}} \cup {r.source : r \in {x \in code : x.target = t}}
  IN {u \in all : LanguageOf[u] = LanguageOf[t]}

ReadSynonym(db, t, u) ==
  \E x \in ReadRows(db, SynonymQuestion(t)) : Unsensed(x) /\ x.target = u

LEMMA HitRead ==
  ASSUME NEW db, Tables(db), NEW t, NEW o \in {1, 2}, NEW h \in Hits(db, SynonymQuestion(t), o), Unsensed(h)
  PROVE  ReadSynonym(db, t, h.target)
<1> DEFINE q == SynonymQuestion(t)
<1>1. PICK c \in Candidates(db, q, o) :
        c \in Row /\ c.target = h.target /\ c.ssense = h.ssense /\ c.tsense = h.tsense
  BY CandidateOf
<1>2. Upright(c) \in ReadRows(db, q)
  BY <1>1 DEF ReadRows
<1>3. Upright(c).target = h.target /\ Unsensed(Upright(c))
  BY <1>1, UprightIs DEF Unsensed
<1>4. QED
  BY <1>2, <1>3 DEF ReadSynonym

LEMMA SynonymsRead ==
  ASSUME RowsKnown, NEW t \in Corpus.terms, NEW db, Serves(db, LanguageOf[t]), NEW u \in UnsensedSynonyms(t)
  PROVE  ReadSynonym(db, t, u)
<1> DEFINE q == SynonymQuestion(t)
<1>1. PICK r \in Corpus.relations : /\ r.code = Synonym /\ Unsensed(r)
                                    /\ \/ r.source = t /\ r.target = u
                                       \/ r.target = t /\ r.source = u
  BY DEF UnsensedSynonyms
<1>2. LanguageOf[u] = LanguageOf[t]
  BY DEF UnsensedSynonyms
<1>3. r \in Relation /\ u \in Corpus.terms
  BY <1>1, CorpusTyped, CorpusClosed
<1>4. Tables(db) /\ t \in db.terms /\ u \in db.terms
  BY <1>2, <1>3 DEF Serves
<1>5. r \in db.relations
  BY <1>1, <1>4 DEF Serves
<1>6. q.term = t /\ q.code = Synonym /\ q.target = LanguageOf[t] /\ q.sense = NoSense
  BY DEF SynonymQuestion
<1> HIDE DEF q
<1>7. CASE r.source = t /\ r.target = u
  <2>1. r \in Facing(db, q, 1)
    BY <1>1, <1>5, <1>6 DEF Facing
  <2>2. r \in Hits(db, q, 1)
    BY <1>2, <1>4, <1>6, <1>7, <2>1 DEF Hits
  <2>3. QED
    BY <1>1, <1>4, <1>7, <2>2, HitRead DEF q
<1>8. CASE r.target = t /\ r.source = u
  <2> DEFINE h == Turned(r)
  <2>1. h.source = t /\ h.target = u /\ Unsensed(h)
    BY <1>1, <1>3, <1>8 DEF Turned, Relation, Unsensed
  <2>2. InverseCode(Synonym) = Synonym
    BY DEF InverseCode, Synonym, Hypernym, Hyponym
  <2>3. h \in Facing(db, q, 2)
    BY <1>1, <1>5, <1>6, <2>2 DEF Facing
  <2> HIDE DEF h
  <2>4. h \in Hits(db, q, 2)
    BY <1>2, <1>4, <1>6, <2>1, <2>3 DEF Hits
  <2>5. QED
    BY <1>4, <2>1, <2>4, HitRead DEF q
<1>9. QED
  BY <1>1, <1>7, <1>8

LEMMA GivenBounds ==
  ASSUME NEW c, IsFiniteSet(Given(c)), NEW i \in DOMAIN c, NEW T, c[i] \in Seq(T)
  PROVE  Len(c[i]) \in Nat /\ Len(c[i]) <= Cardinality(Given(c))
<1> DEFINE n == Len(c[i])
           N == 1 .. n
           f == [k \in N |-> <<i, k>>]
           F == {f[k] : k \in N}
<1>1. n \in Nat /\ DOMAIN c[i] = N /\ IsFiniteSet(N) /\ Cardinality(N) = n
  BY FirstNumbers
<1>2. \A k \in N : f[k] = <<i, k>> /\ f[k] \in Given(c)
  BY <1>1 DEF Given
<1>3. DOMAIN f = N /\ \A k, h \in N : f[k] = f[h] => k = h
  OBVIOUS
<1> HIDE DEF f, N
<1>4. Cardinality({f[k] : k \in N}) = Cardinality(N)
  <2>1. IsFiniteSet(N)
    BY <1>1
  <2>2. QED
    BY ONLY <2>1, <1>3, AsMany
<1>5. F \in SUBSET Given(c)
  BY <1>2
<1> HIDE DEF F
<1>6. Cardinality(F) <= Cardinality(Given(c))
  BY <1>5, FS_Subset
<1> HIDE DEF n
<1>7. QED
  BY <1>1, <1>4, <1>6 DEF n, F

TranslatedBy(q, limit) ==
  [s \in SensesOf(Corpus, q.term) |-> RowsOf(Targets(TranslationRows(Corpus, s, q.target, limit)))]

TranslatedFairly(db, q, limit) ==
  LET groups == Translate(db, q, limit)
  IN /\ Cardinality(PlacesOf(groups, limit)) \in Nat
     /\ FairShares(groups, SensesOf(Corpus, q.term), TranslatedBy(q, limit),
                   Cardinality(PlacesOf(groups, limit)), limit)

LEMMA SensesServed ==
  ASSUME NEW q, NEW db, Serves(db, LanguageOf[q.term]), q.term \in Corpus.terms, q.sense = NoSense,
         Cardinality(SensesOf(Corpus, q.term)) <= MostSenses,
         NEW senses, senses = SenseRows(db, q, MostSenses)
  PROVE  /\ Lists(SensesOf(Corpus, q.term), senses)
         /\ \A s \in SensesOf(Corpus, q.term) : s \in db.senses
<1>1. /\ Tables(db) /\ db.senses \subseteq Nat /\ q.term \in db.terms
      /\ SensesOf(db, q.term) = SensesOf(Corpus, q.term)
  BY DEF Serves
<1>2. Lists(SensesOf(db, q.term), senses)
  BY <1>1, SenseRowsAll
<1>3. QED
  BY <1>1, <1>2 DEF SensesOf

LEMMA TranslationsServed ==
  ASSUME NEW db, NEW l, Serves(db, l), NEW s \in db.senses, NEW target, NEW n
  PROVE  TranslationRows(db, s, target, n) = TranslationRows(Corpus, s, target, n)
<1>1. {r \in db.translations : r.sense = s} = {r \in Corpus.translations : r.sense = s}
  BY DEF Serves
<1>2. {r \in db.translations : r.sense = s /\ target \in {Any, LanguageOf[r.target]}}
        = {r \in Corpus.translations : r.sense = s /\ target \in {Any, LanguageOf[r.target]}}
  BY <1>1
<1>3. QED
  BY <1>2 DEF TranslationRows

(* Every sense has its turn: what a translation shows of the senses of a   *)
(* word.                                                                   *)
LEMMA TranslatesFairly ==
  ASSUME NEW q, NEW db, Serves(db, LanguageOf[q.term]), q.term \in Corpus.terms, q.sense = NoSense,
         Cardinality(SensesOf(Corpus, q.term)) <= MostSenses, NEW limit \in Nat
  PROVE  TranslatedFairly(db, q, limit)
<1> DEFINE S == SensesOf(Corpus, q.term)
           senses == SenseRows(db, q, MostSenses)
           found == [i \in DOMAIN senses |-> Distinct(Targets(TranslationRows(db, senses[i], q.target, limit)))]
           c == Allocate(found, DOMAIN found, limit)
           all == TranslatedBy(q, limit)
           total == Cardinality(PlacesOf(Groups(senses, c), limit))
<1>1. Lists(S, senses) /\ \A s \in S : s \in db.senses
  BY SensesServed
<1>2. senses \in Seq(S) /\ \A i, j \in DOMAIN senses : senses[i] = senses[j] => i = j
  BY <1>1 DEF Lists
<1>3. Translate(db, q, limit)
        = {[sense |-> senses[i], shown |-> c[i]] : i \in {j \in DOMAIN c : c[j] # <<>>}}
  BY DEF Translate
<1>4. DOMAIN found = DOMAIN senses
  OBVIOUS
<1>5. \A i \in DOMAIN senses :
        /\ found[i] \in Seq(Term)
        /\ \A k, h \in DOMAIN found[i] : found[i][k] = found[i][h] => k = h
        /\ all[senses[i]] = RowsOf(found[i])
  <2> SUFFICES ASSUME NEW i \in DOMAIN senses
               PROVE  /\ found[i] \in Seq(Term)
                      /\ \A k, h \in DOMAIN found[i] : found[i][k] = found[i][h] => k = h
                      /\ all[senses[i]] = RowsOf(found[i])
    OBVIOUS
  <2> DEFINE s == senses[i]
             z == TranslationRows(db, s, q.target, limit)
  <2>1. s \in S /\ s \in db.senses
    BY <1>1, <1>2
  <2>2. found[i] = Distinct(Targets(z))
    OBVIOUS
  <2>3. z = TranslationRows(Corpus, s, q.target, limit)
    BY <2>1, TranslationsServed
  <2>4. all[s] = RowsOf(Targets(z))
    BY <2>1, <2>3 DEF TranslatedBy
  <2>5. db.translations \subseteq Detail /\ IsFiniteSet(db.translations)
    BY DEF Serves
  <2>6. z = TranslationRows(db, s, q.target, limit)
    OBVIOUS
  <2> HIDE DEF z, found, all, senses
  <2>7. /\ Distinct(Targets(z)) \in Seq(Term) /\ RowsOf(Distinct(Targets(z))) = RowsOf(Targets(z))
        /\ \A k, h \in DOMAIN Distinct(Targets(z)) : Distinct(Targets(z))[k] = Distinct(Targets(z))[h] => k = h
    BY <2>5, <2>6, TranslationsFound
  <2>8. QED
    BY <2>2, <2>4, <2>7
<1> HIDE DEF found, S, senses, all
<1>6. DOMAIN senses = 1 .. Len(senses) /\ Len(senses) \in Nat
  BY <1>2
<1>7. Dealt(found, DOMAIN found, limit, c)
  BY <1>4, <1>5, <1>6, AllocateDeals
<1> HIDE DEF c
<1>8. /\ DOMAIN c = DOMAIN senses /\ IsFiniteSet(Given(c)) /\ Cardinality(Given(c)) \in 0 .. limit
      /\ \A i \in DOMAIN senses : Len(c[i]) \in 0 .. Len(found[i]) /\ c[i] = Prefix(found[i], Len(c[i]))
      /\ \A i, j \in DOMAIN senses : Len(c[i]) > Len(c[j]) + 1 => Len(c[j]) = Len(found[j])
      /\ Cardinality(Given(c)) < limit => \A i \in DOMAIN senses : Len(c[i]) = Len(found[i])
  BY <1>4, <1>7 DEF Dealt
<1>9. Translate(db, q, limit) = Groups(senses, c)
  BY <1>3, <1>8 DEF Groups
<1>10. ASSUME NEW i \in DOMAIN senses
       PROVE  c[i] \in Seq(Term) /\ Len(c[i]) <= limit
  <2>1. c[i] \in Seq(Term)
    BY <1>5, <1>8, PrefixShown
  <2>2. Len(c[i]) \in Nat /\ Len(c[i]) <= Cardinality(Given(c))
    BY <1>8, <2>1, GivenBounds
  <2>3. QED
    BY <1>8, <2>1, <2>2
<1>11. total = Cardinality(Given(c))
  BY <1>2, <1>8, <1>10, PlacesCounted
<1> HIDE DEF total
<1>12. Portions(senses, found, c)
  BY <1>8 DEF Portions
<1>13. total \in Nat /\ total <= limit
       /\ (total < limit => \A i \in DOMAIN senses : senses[i] \notin UnsensedSense => Len(c[i]) = Len(found[i]))
  BY <1>8, <1>11
<1>14. FairShares(Groups(senses, c), S, all, total, limit)
  BY <1>1, <1>5, <1>12, <1>13, SharesFair
<1>15. QED
  BY <1>9, <1>13, <1>14 DEF TranslatedFairly, total, S, all

LEMMA InGiven ==
  ASSUME NEW c, NEW x
  PROVE  x \in Given(c) <=> \E i \in DOMAIN c : \E k \in DOMAIN c[i] : x = <<i, k>>
BY DEF Given

(* What senses that stand for entries and the others are given, side by    *)
(* side.                                                                   *)
Together(n, native, scoped, free, c) ==
  /\ DOMAIN c = 1 .. n
  /\ \A i \in 1 .. n : /\ c[i] \in Seq(Term) /\ c[i] = IF i \in native THEN free[i] ELSE scoped[i]
                       /\ RowsOf(c[i]) = RowsOf(scoped[i]) \cup RowsOf(free[i])
  /\ IsFiniteSet(Given(c)) /\ Cardinality(Given(c)) = Cardinality(Given(scoped)) + Cardinality(Given(free))

LEMMA EmptyJoin ==
  ASSUME NEW T, NEW s \in Seq(T), NEW e \in Seq(T), Len(e) = 0
  PROVE  e \o s = s /\ s \o e = s /\ DOMAIN e = {} /\ RowsOf(e) = {}
<1>1. e = <<>> /\ DOMAIN e = {}
  OBVIOUS
<1>2. e \o s = s /\ s \o e = s
  BY <1>1
<1>3. QED
  BY <1>1, <1>2 DEF RowsOf

LEMMA PartOf ==
  ASSUME NEW found, NEW groups, NEW budget, NEW shown, Dealt(found, groups, budget, shown),
         NEW i \in DOMAIN found, found[i] \in Seq(Term)
  PROVE  shown[i] \in Seq(Term) /\ (i \notin groups => Len(shown[i]) = 0)
<1>1. /\ Len(shown[i]) \in 0 .. Len(found[i]) /\ shown[i] = Prefix(found[i], Len(shown[i]))
      /\ i \notin groups => Len(shown[i]) = 0
  BY DEF Dealt
<1> DEFINE m == Len(shown[i])
<1>2. m \in Nat
  BY <1>1
<1> HIDE DEF m
<1>3. Prefix(found[i], m) \in Seq(Term)
  BY <1>2, PrefixOf
<1>4. QED
  BY <1>1, <1>3 DEF m

LEMMA PartsTogether ==
  ASSUME NEW n \in Nat, NEW found, DOMAIN found = 1 .. n, \A i \in 1 .. n : found[i] \in Seq(Term),
         NEW native \in SUBSET (1 .. n), NEW b, NEW u,
         NEW free, Dealt(found, native, u, free),
         NEW scoped, Dealt(found, (1 .. n) \ native, b, scoped),
         NEW c, c = [i \in 1 .. n |-> scoped[i] \o free[i]]
  PROVE  Together(n, native, scoped, free, c)
<1>1. \A i \in 1 .. n : /\ free[i] \in Seq(Term) /\ scoped[i] \in Seq(Term)
                        /\ i \notin native => Len(free[i]) = 0
                        /\ i \in native => Len(scoped[i]) = 0
  BY PartOf
<1>2. /\ DOMAIN free = 1 .. n /\ DOMAIN scoped = 1 .. n
      /\ IsFiniteSet(Given(free)) /\ IsFiniteSet(Given(scoped))
  BY DEF Dealt
<1>3. ASSUME NEW i \in 1 .. n
      PROVE  /\ c[i] \in Seq(Term) /\ c[i] = IF i \in native THEN free[i] ELSE scoped[i]
             /\ RowsOf(c[i]) = RowsOf(scoped[i]) \cup RowsOf(free[i])
             /\ i \notin native => DOMAIN free[i] = {}
             /\ i \in native => DOMAIN scoped[i] = {}
  <2>1. c[i] = scoped[i] \o free[i]
    OBVIOUS
  <2>2. CASE i \in native
    <3>1. scoped[i] \o free[i] = free[i] /\ DOMAIN scoped[i] = {} /\ RowsOf(scoped[i]) = {}
      BY <1>1, <2>2, EmptyJoin
    <3>2. QED
      BY <1>1, <2>1, <2>2, <3>1
  <2>3. CASE i \notin native
    <3>1. scoped[i] \o free[i] = scoped[i] /\ DOMAIN free[i] = {} /\ RowsOf(free[i]) = {}
      BY <1>1, <2>3, EmptyJoin
    <3>2. QED
      BY <1>1, <2>1, <2>3, <3>1
  <2>4. QED
    BY <2>2, <2>3
<1>4. DOMAIN c = 1 .. n
  OBVIOUS
<1>5. Given(c) = Given(scoped) \cup Given(free)
  <2>1. ASSUME NEW x PROVE x \in Given(c) <=> x \in Given(scoped) \/ x \in Given(free)
    <3>1. x \in Given(c) <=> \E i \in 1 .. n : \E k \in DOMAIN c[i] : x = <<i, k>>
      BY ONLY <1>4, InGiven
    <3>2. x \in Given(scoped) <=> \E i \in 1 .. n : \E k \in DOMAIN scoped[i] : x = <<i, k>>
      BY <1>2, InGiven
    <3>3. x \in Given(free) <=> \E i \in 1 .. n : \E k \in DOMAIN free[i] : x = <<i, k>>
      BY <1>2, InGiven
    <3>4. \A i \in 1 .. n : DOMAIN c[i] = DOMAIN scoped[i] \cup DOMAIN free[i]
      BY <1>3
    <3>5. QED
      BY <3>1, <3>2, <3>3, <3>4
  <2>2. QED
    BY <2>1
<1>6. Given(scoped) \cap Given(free) = {}
  <2> SUFFICES ASSUME NEW x, x \in Given(scoped), x \in Given(free)
               PROVE  FALSE
    OBVIOUS
  <2>1. PICK i \in 1 .. n : \E k \in DOMAIN scoped[i] : x = <<i, k>>
    BY <1>2, InGiven
  <2>2. PICK k \in DOMAIN scoped[i] : x = <<i, k>>
    BY <2>1
  <2>3. PICK j \in 1 .. n : \E h \in DOMAIN free[j] : x = <<j, h>>
    BY <1>2, InGiven
  <2>4. PICK h \in DOMAIN free[j] : x = <<j, h>>
    BY <2>3
  <2>5. i = j
    BY <2>2, <2>4
  <2>6. QED
    BY <1>3, <2>2, <2>4, <2>5
<1>7. /\ IsFiniteSet(Given(c))
      /\ Cardinality(Given(c)) = Cardinality(Given(scoped)) + Cardinality(Given(free))
  <2> DEFINE A == Given(scoped)
             B == Given(free)
  <2>1. IsFiniteSet(A) /\ IsFiniteSet(B) /\ A \cap B = {} /\ Given(c) = A \cup B
    BY <1>2, <1>5, <1>6
  <2> HIDE DEF A, B
  <2>2. IsFiniteSet(A \cup B) /\ Cardinality(A \cup B) = Cardinality(A) + Cardinality(B) - Cardinality(A \cap B)
    BY <2>1, FS_Union
  <2>3. Cardinality(A \cap B) = 0
    BY <2>1, FS_EmptySet
  <2>4. Cardinality(A) \in Nat /\ Cardinality(B) \in Nat
    BY <2>1, FS_CardinalityType
  <2> DEFINE a == Cardinality(A)
             b2 == Cardinality(B)
             m == Cardinality(A \cap B)
  <2>5. a \in Nat /\ b2 \in Nat /\ m = 0 /\ Cardinality(A \cup B) = a + b2 - m
    BY <2>2, <2>3, <2>4
  <2> HIDE DEF a, b2, m
  <2>6. Cardinality(A \cup B) = a + b2
    BY <2>5
  <2>7. QED
    BY ONLY <2>1, <2>2, <2>6 DEF A, B, a, b2
<1>8. QED
  BY <1>3, <1>4, <1>7 DEF Together

ShownIn(groups) == UNION {RowsOf(g.shown) : g \in groups}

ShownBy(lists) == UNION {RowsOf(lists[i]) : i \in DOMAIN lists}

LEMMA ShownTogether ==
  ASSUME NEW n \in Nat, NEW senses, DOMAIN senses = 1 .. n, NEW native, NEW scoped, DOMAIN scoped = 1 .. n,
         NEW free, DOMAIN free = 1 .. n, NEW c, Together(n, native, scoped, free, c)
  PROVE  ShownIn(Groups(senses, c)) = ShownBy(scoped) \cup ShownBy(free)
<1>1. /\ DOMAIN c = 1 .. n
      /\ \A i \in 1 .. n : c[i] \in Seq(Term) /\ RowsOf(c[i]) = RowsOf(scoped[i]) \cup RowsOf(free[i])
  BY DEF Together
<1>2. \A i \in 1 .. n : c[i] = <<>> => RowsOf(c[i]) = {}
  BY DEF RowsOf
<1> DEFINE G == Groups(senses, c)
<1>3. ASSUME NEW x, x \in ShownIn(G)
      PROVE  \E i \in 1 .. n : x \in RowsOf(c[i])
  <2>1. PICK g \in G : x \in RowsOf(g.shown)
    BY <1>3 DEF ShownIn
  <2>2. PICK i \in DOMAIN senses : g = [sense |-> senses[i], shown |-> c[i]]
    BY <2>1 DEF Groups
  <2>3. g.shown = c[i]
    BY <2>2
  <2>4. QED
    BY <2>1, <2>2, <2>3
<1>4. ASSUME NEW i \in 1 .. n, NEW x \in RowsOf(c[i])
      PROVE  x \in ShownIn(G)
  <2> DEFINE g == [sense |-> senses[i], shown |-> c[i]]
  <2>1. c[i] # <<>>
    BY <1>2, <1>4
  <2>2. g \in G
    BY <2>1 DEF Groups
  <2>3. g.shown = c[i]
    OBVIOUS
  <2> HIDE DEF g, G
  <2>4. QED
    BY <1>4, <2>2, <2>3 DEF ShownIn
<1> HIDE DEF G
<1>5. \A x : x \in ShownIn(G) <=> \E i \in 1 .. n : x \in RowsOf(c[i])
  BY <1>3, <1>4
<1>6. \A x : x \in ShownIn(G) <=> \E i \in 1 .. n : x \in RowsOf(scoped[i]) \/ x \in RowsOf(free[i])
  BY <1>1, <1>5
<1>7. \A x : x \in ShownBy(scoped) \cup ShownBy(free)
              <=> \E i \in 1 .. n : x \in RowsOf(scoped[i]) \/ x \in RowsOf(free[i])
  BY DEF ShownBy
<1>8. QED
  BY <1>6, <1>7 DEF G

(* How many relations may fill up what unsensed senses leave, and what     *)
(* they do fill.                                                           *)
Filled(C, slots, e, shown, related) ==
  /\ slots = Len(e) /\ slots \in Nat
  /\ RowsOf(e) \cap shown # {} => \A d \in related : d.target \in shown \cup RowsOf(e)

LEMMA FillsUp ==
  ASSUME NEW related, Nominated(related), NEW left \in Nat,
         NEW C, C = IF 0 < left THEN related ELSE {},
         NEW slots, slots = IF left < Cardinality(C) THEN left ELSE Cardinality(C),
         NEW shown, NEW e, e = Targets(Prefix(RankUnsensed(C, shown), slots))
  PROVE  slots <= left /\ Filled(C, slots, e, shown, related)
<1>1. Nominated(C)
  BY FS_EmptySet DEF Nominated
<1>2. IsFiniteSet(C) /\ Cardinality(C) \in Nat
  BY <1>1, FS_CardinalityType DEF Nominated
<1>3. slots \in 0 .. Cardinality(C) /\ slots <= left /\ slots \in Nat
  BY <1>2
<1>4. /\ Len(e) = slots /\ RowsOf(e) \subseteq {d.target : d \in C}
      /\ RowsOf(e) \cap shown # {} => \A d \in C : d.target \in shown \cup RowsOf(e)
  <2> HIDE DEF RankUnsensed
  <2>1. QED
    BY <1>1, <1>3, RankUnsensedOf
<1>5. RowsOf(e) \cap shown # {} => C = related
  BY <1>4
<1>6. QED
  BY <1>3, <1>4, <1>5 DEF Filled

SharedFairly(a, S, all, limit, related) ==
  /\ FairShares(a.groups, S, all, Cardinality(PlacesOf(a.groups, limit)) + Len(a.extra), limit)
  /\ RowsOf(a.extra) \cap ShownIn(a.groups) # {} =>
       \A d \in related : d.target \in ShownIn(a.groups) \cup RowsOf(a.extra)

LEMMA ShareShares ==
  ASSUME NEW S, NEW senses, Lists(S, senses), NEW found, DOMAIN found = DOMAIN senses,
         \A i \in DOMAIN senses : /\ found[i] \in Seq(Term)
                                  /\ \A k, h \in DOMAIN found[i] : found[i][k] = found[i][h] => k = h,
         NEW all, \A i \in DOMAIN senses : all[senses[i]] = RowsOf(found[i]),
         NEW related, Nominated(related), NEW q, q.sense = NoSense,
         NEW limit \in Nat, NEW unsensed \in Nat, unsensed <= limit
  PROVE  SharedFairly(Share(senses, found, related, q, limit, unsensed), S, all, limit, related)
<1> DEFINE native == {i \in DOMAIN senses : senses[i] \in UnsensedSense}
           n == Len(senses)
           free == Allocate(found, native, unsensed)
           tf == Cardinality(Given(free))
           left == unsensed - tf
           C == IF q.sense = NoSense /\ tf < unsensed THEN related ELSE {}
           slots == IF left < Cardinality(C) THEN left ELSE Cardinality(C)
           b == limit - tf - slots
           scoped == Allocate(found, DOMAIN senses \ native, b)
           c == [i \in 1 .. n |-> scoped[i] \o free[i]]
           shown == ShownBy(scoped) \cup ShownBy(free)
           e == Targets(Prefix(RankUnsensed(C, shown), slots))
           a == Share(senses, found, related, q, limit, unsensed)
           total == Cardinality(PlacesOf(Groups(senses, c), limit)) + Len(e)
<1>1. /\ senses \in Seq(S) /\ n \in Nat /\ DOMAIN senses = 1 .. n
      /\ \A i, j \in DOMAIN senses : senses[i] = senses[j] => i = j
  BY DEF Lists
<1>2. /\ a.extra = e
      /\ a.groups = {[sense |-> senses[i], shown |-> scoped[i] \o free[i]] :
                       i \in {j \in DOMAIN senses : scoped[j] \o free[j] # <<>>}}
  BY DEF Share, Given, ShownBy
<1>3. a.groups = Groups(senses, c)
  <2>1. \A i \in DOMAIN senses : c[i] = scoped[i] \o free[i]
    BY <1>1
  <2> HIDE DEF a, c, scoped, free
  <2> DEFINE I == {j \in DOMAIN senses : scoped[j] \o free[j] # <<>>}
  <2>2. I = {j \in DOMAIN senses : c[j] # <<>>}
    BY <2>1
  <2>3. a.groups = {[sense |-> senses[i], shown |-> scoped[i] \o free[i]] : i \in I}
    BY <1>2
  <2>4. \A i \in I : scoped[i] \o free[i] = c[i]
    BY <2>1
  <2> HIDE DEF I
  <2> DEFINE old(i) == [sense |-> senses[i], shown |-> scoped[i] \o free[i]]
             new(i) == [sense |-> senses[i], shown |-> c[i]]
  <2>4a. \A i \in I : old(i) = new(i)
    BY <2>4
  <2>4b. a.groups = {old(i) : i \in I}
    BY <2>3
  <2> HIDE DEF old, new
  <2>4c. a.groups = {new(i) : i \in I}
    BY <2>4a, <2>4b
  <2>5. a.groups = {[sense |-> senses[i], shown |-> c[i]] : i \in I}
    BY <2>4c DEF new
  <2>6. QED
    BY <2>2, <2>5 DEF Groups
<1> HIDE DEF a, n
<1>4. native \in SUBSET (1 .. n)
  BY <1>1
<1>4a. \A i \in 1 .. n : found[i] \in Seq(Term)
  BY <1>1
<1>5. Dealt(found, native, unsensed, free)
  BY <1>1, <1>4, <1>4a, AllocateDeals
<1>6. tf \in Nat /\ tf <= unsensed /\ left \in Nat
  <2>1. tf \in 0 .. unsensed
    BY <1>5 DEF Dealt
  <2> HIDE DEF tf
  <2>2. QED
    BY <2>1
<1>6a. C = IF 0 < left THEN related ELSE {}
  <2> HIDE DEF tf
  <2>1. tf < unsensed <=> 0 < unsensed - tf
    BY <1>6
  <2>2. QED
    BY <2>1
<1>6b. slots = (IF left < Cardinality(C) THEN left ELSE Cardinality(C)) /\ e = Targets(Prefix(RankUnsensed(C, shown), slots))
  OBVIOUS
<1> HIDE DEF native, free, tf, e, shown, C, slots
<1>7. slots <= left /\ Filled(C, slots, e, shown, related)
  <2> HIDE DEF left
  <2>1. QED
    BY <1>6, <1>6a, <1>6b, FillsUp
<1>8. slots = Len(e) /\ slots \in Nat /\ b \in Nat
  BY <1>6, <1>7 DEF Filled
<1>9. Dealt(found, (1 .. n) \ native, b, scoped)
  <2>1. (1 .. n) \ native \in SUBSET (1 .. n) /\ scoped = Allocate(found, (1 .. n) \ native, b)
    BY <1>1
  <2> HIDE DEF scoped, b
  <2>2. QED
    BY <1>1, <1>4a, <1>8, <2>1, AllocateDeals
<1> HIDE DEF scoped
<1>10. Together(n, native, scoped, free, c)
  BY <1>1, <1>4, <1>4a, <1>5, <1>9, PartsTogether
<1> HIDE DEF c
<1>11. /\ DOMAIN c = 1 .. n
       /\ \A i \in 1 .. n : c[i] \in Seq(Term) /\ c[i] = IF i \in native THEN free[i] ELSE scoped[i]
       /\ IsFiniteSet(Given(c)) /\ Cardinality(Given(c)) = Cardinality(Given(scoped)) + tf
  BY <1>10 DEF Together, tf
<1>12. /\ \A i \in 1 .. n :
            /\ Len(free[i]) \in 0 .. Len(found[i]) /\ free[i] = Prefix(found[i], Len(free[i]))
            /\ Len(scoped[i]) \in 0 .. Len(found[i]) /\ scoped[i] = Prefix(found[i], Len(scoped[i]))
       /\ \A i, j \in native : Len(free[i]) > Len(free[j]) + 1 => Len(free[j]) = Len(found[j])
       /\ \A i, j \in (1 .. n) \ native :
            Len(scoped[i]) > Len(scoped[j]) + 1 => Len(scoped[j]) = Len(found[j])
       /\ Cardinality(Given(scoped)) \in 0 .. b
       /\ Cardinality(Given(scoped)) < b => \A i \in (1 .. n) \ native : Len(scoped[i]) = Len(found[i])
       /\ DOMAIN scoped = 1 .. n /\ DOMAIN free = 1 .. n
  BY <1>1, <1>5, <1>9 DEF Dealt
<1>13. Portions(senses, found, c)
  <2> SUFFICES ASSUME NEW i \in 1 .. n
               PROVE  /\ Len(c[i]) \in 0 .. Len(found[i]) /\ c[i] = Prefix(found[i], Len(c[i]))
                      /\ \A j \in 1 .. n : (senses[i] \in UnsensedSense <=> senses[j] \in UnsensedSense) =>
                           (Len(c[i]) > Len(c[j]) + 1 => Len(c[j]) = Len(found[j]))
    BY <1>1 DEF Portions
  <2>1. Len(c[i]) \in 0 .. Len(found[i]) /\ c[i] = Prefix(found[i], Len(c[i]))
    BY <1>11, <1>12
  <2>2. ASSUME NEW j \in 1 .. n, senses[i] \in UnsensedSense <=> senses[j] \in UnsensedSense,
               Len(c[i]) > Len(c[j]) + 1
        PROVE  Len(c[j]) = Len(found[j])
    <3>1. i \in native <=> j \in native
      BY <1>1, <2>2 DEF native
    <3>2. CASE i \in native
      BY <1>11, <1>12, <2>2, <3>1, <3>2
    <3>3. CASE i \notin native
      BY <1>11, <1>12, <2>2, <3>1, <3>3
    <3>4. QED
      BY <3>2, <3>3
  <2>3. QED
    BY <2>1, <2>2
<1>14. Cardinality(Given(c)) <= limit - slots
  <2> DEFINE g == Cardinality(Given(scoped))
  <2>1. g \in Nat /\ g <= b
    BY <1>12
  <2>2. Cardinality(Given(c)) = g + tf
    BY <1>11
  <2> HIDE DEF g
  <2>3. QED
    BY <1>6, <1>8, <2>1, <2>2
<1>15. \A i \in DOMAIN senses : c[i] \in Seq(Term) /\ Len(c[i]) <= limit
  <2> SUFFICES ASSUME NEW i \in 1 .. n
               PROVE  c[i] \in Seq(Term) /\ Len(c[i]) <= limit
    BY <1>1
  <2>1. c[i] \in Seq(Term)
    BY <1>11
  <2>2. Len(c[i]) \in Nat /\ Len(c[i]) <= Cardinality(Given(c)) /\ Cardinality(Given(c)) \in Nat
    BY <1>11, <2>1, GivenBounds, FS_CardinalityType
  <2> DEFINE m == Len(c[i])
             g == Cardinality(Given(c))
  <2>3. m \in Nat /\ m <= g /\ g \in Nat /\ g <= limit - slots
    BY <1>14, <2>2
  <2> HIDE DEF m, g
  <2>4. m <= limit
    BY <1>8, <2>3
  <2>5. QED
    BY <2>1, <2>4 DEF m
<1>16. Cardinality(PlacesOf(Groups(senses, c), limit)) = Cardinality(Given(c))
  <2>1. DOMAIN c = DOMAIN senses /\ IsFiniteSet(Given(c))
    BY <1>1, <1>11
  <2>2. limit \in Nat /\ senses \in Seq(S) /\ \A i, j \in DOMAIN senses : senses[i] = senses[j] => i = j
    BY <1>1
  <2>3. QED
    BY ONLY <1>15, <2>1, <2>2, PlacesCounted
<1>17. total <= limit
       /\ (total < limit => \A i \in DOMAIN senses : senses[i] \notin UnsensedSense => Len(c[i]) = Len(found[i]))
  <2> DEFINE g == Cardinality(Given(scoped))
  <2>1. g \in Nat /\ g <= b /\ (g < b => \A i \in (1 .. n) \ native : Len(scoped[i]) = Len(found[i]))
    BY <1>12
  <2>2. total = g + tf + slots
    BY <1>8, <1>11, <1>16
  <2> HIDE DEF g, total
  <2>3. total <= limit /\ (total < limit => g < b)
    BY <1>6, <1>8, <2>1, <2>2
  <2>4. \A i \in DOMAIN senses : senses[i] \notin UnsensedSense => i \in (1 .. n) \ native /\ c[i] = scoped[i]
    BY <1>1, <1>11 DEF native
  <2>5. QED
    BY <2>1, <2>3, <2>4
<1> HIDE DEF total
<1>18. FairShares(Groups(senses, c), S, all, total, limit)
  BY <1>13, <1>17, SharesFair
<1>19. ShownIn(Groups(senses, c)) = shown
  <2>1. ShownIn(Groups(senses, c))
          = ShownBy(scoped) \cup ShownBy(free)
    <3>1. DOMAIN senses = 1 .. n /\ DOMAIN scoped = 1 .. n /\ DOMAIN free = 1 .. n /\ n \in Nat
      BY <1>1, <1>12
    <3>2. QED
      BY ONLY <1>10, <3>1, ShownTogether
  <2>2. QED
    BY <2>1 DEF shown
<1>20. SharedFairly(a, S, all, limit, related)
  <2>1. FairShares(a.groups, S, all, Cardinality(PlacesOf(a.groups, limit)) + Len(a.extra), limit)
    BY <1>2, <1>3, <1>18 DEF total
  <2>2. ShownIn(a.groups) = shown /\ a.extra = e
    BY <1>2, <1>3, <1>19
  <2>3. RowsOf(e) \cap shown # {} => \A d \in related : d.target \in shown \cup RowsOf(e)
    BY <1>7 DEF Filled
  <2>4. QED
    BY <2>1, <2>2, <2>3 DEF SharedFairly
<1>21. QED
  BY <1>20 DEF a

SynonymousTo(t) ==
  [s \in SensesOf(Corpus, t) |-> SynonymsIn(Corpus, s) \ {t}]

SynonymsFairly(db, q, limit, unsensed) ==
  LET a == Synonyms(db, q, limit, unsensed) IN
  /\ FairShares(a.groups, SensesOf(Corpus, q.term), SynonymousTo(q.term),
                Cardinality(PlacesOf(a.groups, limit)) + Len(a.extra), limit)
  /\ RowsOf(a.extra) \cap ShownIn(a.groups) # {} =>
       UnsensedSynonyms(q.term) \subseteq ShownIn(a.groups) \cup RowsOf(a.extra) \cup {q.term}

LEMMA SupportCounted ==
  ASSUME NEW found, NEW n \in Nat, DOMAIN found = 1 .. n, NEW u \in Term
  PROVE  Support(found)[u] \in Nat
<1> DEFINE I == {i \in DOMAIN found : u \in RowsOf(found[i])}
<1>1. Support(found)[u] = Cardinality(I)
  BY DEF Support
<1>2. I \in SUBSET (1 .. n)
  OBVIOUS
<1> HIDE DEF I
<1>3. IsFiniteSet(1 .. n)
  BY FS_Interval
<1>4. IsFiniteSet(I)
  BY <1>2, <1>3, FS_Subset
<1>5. QED
  BY <1>1, <1>4, FS_CardinalityType

LEMMA RelatedNominated ==
  ASSUME NEW db, Speaks(db), NEW t, NEW support, \A u \in Term : support[u] \in Nat
  PROVE  /\ Nominated(RelationSynonyms(db, t, support))
         /\ {c.target : c \in RelationSynonyms(db, t, support)}
              = {r.target : r \in {x \in RowsOf(RankedRows(db, SynonymQuestion(t), Scan)) :
                                     Unsensed(x) /\ x.target # t}}
<1> DEFINE found == RankedRows(db, SynonymQuestion(t), Scan)
<1>1. Scan \in Nat
  BY QueriesAssumption
<1>2. found \in Seq(Row) /\ \A r \in RowsOf(found) : Meets(SynonymQuestion(t), r)
  BY <1>1, RankedRowsOf
<1>3. RelationSynonyms(db, t, support) = SynonymsAmong(found, t, support)
  BY DEF RelationSynonyms, SynonymQuestion
<1> HIDE DEF found
<1>4. \A r \in RowsOf(found) : r \in Row /\ r.orient \in {1, 2}
  BY <1>2 DEF Meets, Row
<1>5. QED
  BY <1>2, <1>3, <1>4, SynonymsNominated DEF found

LEMMA SynonymsOfSense ==
  ASSUME NEW db, NEW l, Serves(db, l), NEW s \in db.senses,
         Cardinality({r \in Corpus.synonyms : r.sense = s}) <= MostSenses, NEW t
  PROVE  OneEach(FoundSynonyms(db, s, t), SynonymsIn(Corpus, s) \ {t})
<1>1. /\ db.synonyms \subseteq Detail /\ IsFiniteSet(db.synonyms)
      /\ \A r \in db.synonyms : r.target \in db.terms
      /\ {r \in db.synonyms : r.sense = s} = {r \in Corpus.synonyms : r.sense = s}
  BY DEF Serves
<1>2. Cardinality({r \in db.synonyms : r.sense = s}) <= MostSenses
  BY <1>1
<1>3. OneEach(FoundSynonyms(db, s, t), SynonymsIn(db, s) \ {t})
  BY <1>1, <1>2, SynonymsFound
<1>4. SynonymsIn(db, s) = SynonymsIn(Corpus, s)
  BY <1>1 DEF SynonymsIn
<1>5. QED
  BY <1>3, <1>4

LEMMA SynonymsFair ==
  ASSUME RowsKnown, NEW q, NEW db, Serves(db, LanguageOf[q.term]), Speaks(db),
         q.term \in Corpus.terms, q.sense = NoSense,
         Cardinality(SensesOf(Corpus, q.term)) <= MostSenses,
         \A s \in SensesOf(Corpus, q.term) :
           Cardinality({r \in Corpus.synonyms : r.sense = s}) <= MostSenses,
         Cardinality(Candidates(db, SynonymQuestion(q.term), 1))
           + Cardinality(Candidates(db, SynonymQuestion(q.term), 2)) <= Scan,
         NEW limit \in Nat, NEW unsensed \in Nat, unsensed <= limit
  PROVE  SynonymsFairly(db, q, limit, unsensed)
<1> DEFINE S == SensesOf(Corpus, q.term)
           senses == SenseRows(db, q, MostSenses)
           found == SensedSynonyms(db, q, senses)
           related == RelationSynonyms(db, q.term, Support(found))
           all == SynonymousTo(q.term)
           a == Synonyms(db, q, limit, unsensed)
<1>1. Lists(S, senses) /\ \A s \in S : s \in db.senses
  BY SensesServed
<1>2. senses \in Seq(S)
  BY <1>1 DEF Lists
<1>3. a = Share(senses, found, related, q, limit, unsensed)
  BY DEF Synonyms
<1>4. DOMAIN found = DOMAIN senses
  BY DEF SensedSynonyms
<1>5. \A i \in DOMAIN senses :
        /\ found[i] \in Seq(Term)
        /\ \A k, h \in DOMAIN found[i] : found[i][k] = found[i][h] => k = h
        /\ all[senses[i]] = RowsOf(found[i])
  <2> SUFFICES ASSUME NEW i \in DOMAIN senses
               PROVE  /\ found[i] \in Seq(Term)
                      /\ \A k, h \in DOMAIN found[i] : found[i][k] = found[i][h] => k = h
                      /\ all[senses[i]] = RowsOf(found[i])
    OBVIOUS
  <2> DEFINE s == senses[i]
  <2>1. s \in S /\ s \in db.senses
    BY <1>1, <1>2
  <2>2. found[i] = FoundSynonyms(db, s, q.term)
    BY DEF SensedSynonyms, FoundSynonyms
  <2>3. all[s] = SynonymsIn(Corpus, s) \ {q.term}
    BY <2>1 DEF SynonymousTo
  <2>4. Cardinality({r \in Corpus.synonyms : r.sense = s}) <= MostSenses
    BY <2>1
  <2> HIDE DEF found, all, s
  <2>5. OneEach(FoundSynonyms(db, s, q.term), SynonymsIn(Corpus, s) \ {q.term})
    BY <2>1, <2>4, SynonymsOfSense
  <2>6. QED
    BY <2>2, <2>3, <2>5 DEF s, OneEach
<1> HIDE DEF found, S, senses, all, a
<1>6. DOMAIN senses = 1 .. Len(senses) /\ Len(senses) \in Nat
  BY <1>2
<1>7. \A u \in Term : Support(found)[u] \in Nat
  BY <1>4, <1>6, SupportCounted
<1>8. /\ Nominated(related)
      /\ {c.target : c \in related}
           = {r.target : r \in {x \in RowsOf(RankedRows(db, SynonymQuestion(q.term), Scan)) :
                                  Unsensed(x) /\ x.target # q.term}}
  BY <1>7, RelatedNominated
<1> HIDE DEF related
<1>9. SharedFairly(a, S, all, limit, related)
  BY <1>1, <1>3, <1>4, <1>5, <1>8, ShareShares
<1>10. Tables(db)
  BY DEF Serves
<1>11. RowsOf(RankedRows(db, SynonymQuestion(q.term), Scan)) = ReadRows(db, SynonymQuestion(q.term))
  BY <1>10, WholeScan
<1>12. ASSUME NEW u \in UnsensedSynonyms(q.term), u # q.term
       PROVE  \E c \in related : c.target = u
  <2>1. ReadSynonym(db, q.term, u)
    BY SynonymsRead
  <2>2. PICK x \in ReadRows(db, SynonymQuestion(q.term)) : Unsensed(x) /\ x.target = u
    BY <2>1 DEF ReadSynonym
  <2>3. u \in {c.target : c \in related}
    BY <1>8, <1>11, <1>12, <2>2
  <2>4. QED
    BY <2>3
<1>13. QED
  BY <1>9, <1>12 DEF SharedFairly, SynonymsFairly, a, all, S

(* No query leaves out senses, synonyms or relations of a word because it  *)
(* scans only so many: maximum_sense_scan and relation_scan_limit are the  *)
(* safety caps of service.py.                                              *)
WithinScans ==
  \A op \in {"translate", "synonyms"} : Answered(op) =>
    LET q == asked.q
        db == view[LanguageOf[q.term]]
        related == SynonymQuestion(q.term)
    IN /\ q.sense = NoSense
       /\ Cardinality(SensesOf(Corpus, q.term)) <= MostSenses
       /\ op = "synonyms" =>
            /\ \A s \in SensesOf(Corpus, q.term) :
                 Cardinality({r \in Corpus.synonyms : r.sense = s}) <= MostSenses
            /\ Cardinality(Candidates(db, related, 1)) + Cardinality(Candidates(db, related, 2)) <= Scan

LEMMA AskedOf ==
  ASSUME PackedInv, Allocated, NEW op, Answered(op), NEW q, q = asked.q, NEW limit, limit = asked.limits[1],
         NEW share, share = asked.limits[2], NEW db, db = view[LanguageOf[q.term]]
  PROVE  /\ limit \in Nat /\ share \in Nat /\ share <= limit
         /\ Serves(db, LanguageOf[q.term]) /\ Speaks(db) /\ q.term \in Corpus.terms
         /\ op = "translate" => asked.answer = Translate(db, q, limit)
         /\ op = "synonyms" => asked.answer = Synonyms(db, q, limit, share)
<1>1. asked # NotYet /\ asked.answer # Unavailable /\ asked.q.op = op
  BY DEF Answered
<1>2. view # <<>> /\ \E r \in Queries, limits \in Limits :
         /\ r.term \in Corpus.terms
         /\ asked = [q |-> r, limits |-> limits, answer |-> Answer(view, r, limits, TRUE)]
  BY <1>1 DEF PackedInv, Replied
<1>3. PICK r \in Queries, limits \in Limits :
         /\ r.term \in Corpus.terms
         /\ asked = [q |-> r, limits |-> limits, answer |-> Answer(view, r, limits, TRUE)]
  BY <1>2
<1>4. q = r /\ asked.limits = limits /\ asked.answer = Answer(view, q, limits, TRUE)
  BY <1>3
<1>5. limit \in Nat /\ share \in Nat /\ share <= limit
  <2>1. limits[1] \in Nat /\ limits[2] \in Nat
    BY QuestionsAssumption
  <2>2. asked.limits[2] <= asked.limits[1]
    BY <1>1 DEF Allocated
  <2>3. QED
    BY <1>4, <2>1, <2>2
<1>6. LanguageOf[q.term] \in DOMAIN view
  BY <1>1, <1>4 DEF Answer
<1>7. Serves(db, LanguageOf[q.term])
  BY <1>2, <1>6, ViewServes
<1>8. Speaks(db)
  BY <1>2, <1>6, ViewTells DEF ViewSpeaks
<1>9. op = "translate" => asked.answer = Translate(db, q, limit)
  <2>1. q.op = op
    BY <1>1
  <2>2. QED
    BY <1>4, <1>6, <2>1 DEF Answer
<1>10. op = "synonyms" => asked.answer = Synonyms(db, q, limit, share)
  <2>1. q.op = op
    BY <1>1
  <2>2. QED
    BY <1>4, <1>6, <2>1 DEF Answer
<1>11. QED
  BY <1>3, <1>4, <1>5, <1>7, <1>8, <1>9, <1>10

LEMMA TranslatedShared ==
  ASSUME PackedInv, Allocated, WithinScans, Answered("translate")
  PROVE  TranslatedFairly(view[LanguageOf[asked.q.term]], asked.q, asked.limits[1])
         /\ asked.answer = Translate(view[LanguageOf[asked.q.term]], asked.q, asked.limits[1])
<1> DEFINE q == asked.q
           db == view[LanguageOf[q.term]]
           limit == asked.limits[1]
           share == asked.limits[2]
<1>1. q.sense = NoSense /\ Cardinality(SensesOf(Corpus, q.term)) <= MostSenses
  BY DEF WithinScans
<1>2. /\ q = asked.q /\ db = view[LanguageOf[q.term]] /\ limit = asked.limits[1]
      /\ share = asked.limits[2]
  OBVIOUS
<1> HIDE DEF q, db, limit, share
<1>3. /\ limit \in Nat /\ Serves(db, LanguageOf[q.term]) /\ q.term \in Corpus.terms
      /\ asked.answer = Translate(db, q, limit)
  BY <1>2, AskedOf
<1>4. TranslatedFairly(db, q, limit)
  BY <1>1, <1>3, TranslatesFairly
<1>5. QED
  BY <1>3, <1>4 DEF q, db, limit

LEMMA SynonymsShared ==
  ASSUME PackedInv, Allocated, WithinScans, Answered("synonyms")
  PROVE  SynonymsFairly(view[LanguageOf[asked.q.term]], asked.q, asked.limits[1], asked.limits[2])
         /\ asked.answer
              = Synonyms(view[LanguageOf[asked.q.term]], asked.q, asked.limits[1], asked.limits[2])
<1> DEFINE q == asked.q
           db == view[LanguageOf[q.term]]
           limit == asked.limits[1]
           share == asked.limits[2]
<1>1. /\ q.sense = NoSense /\ Cardinality(SensesOf(Corpus, q.term)) <= MostSenses
      /\ \A s \in SensesOf(Corpus, q.term) :
           Cardinality({r \in Corpus.synonyms : r.sense = s}) <= MostSenses
      /\ Cardinality(Candidates(db, SynonymQuestion(q.term), 1))
           + Cardinality(Candidates(db, SynonymQuestion(q.term), 2)) <= Scan
  BY DEF WithinScans
<1>2. /\ q = asked.q /\ db = view[LanguageOf[q.term]] /\ limit = asked.limits[1]
      /\ share = asked.limits[2]
  OBVIOUS
<1> HIDE DEF q, db, limit, share
<1>3. /\ limit \in Nat /\ share \in Nat /\ share <= limit
      /\ Serves(db, LanguageOf[q.term]) /\ Speaks(db) /\ q.term \in Corpus.terms
      /\ asked.answer = Synonyms(db, q, limit, share)
  BY <1>2, AskedOf
<1>4. RowsKnown
  BY DEF PackedInv
<1>5. SynonymsFairly(db, q, limit, share)
  BY <1>1, <1>3, <1>4, SynonymsFair
<1>6. QED
  BY <1>3, <1>5 DEF q, db, limit, share

(* What the two questions promise of their senses, in the terms of the     *)
(* property BudgetShared.                                                  *)
SharedOut(groups, limit, total, All(_)) ==
  LET senses == SensesOf(Corpus, asked.q.term)
      Part(s) == UNION {RowsOf(g.shown) : g \in {h \in groups : h.sense = s}}
  IN /\ total <= limit
     /\ \A s, u \in senses :
          /\ Part(s) \subseteq All(s)
          /\ (s \in UnsensedSense <=> u \in UnsensedSense)
               /\ Cardinality(Part(s)) > Cardinality(Part(u)) + 1 => Part(u) = All(u)
     /\ total < limit => \A s \in senses \ UnsensedSense : Part(s) = All(s)

LEMMA TranslateShares ==
  ASSUME PackedInv, Allocated, WithinScans, Answered("translate")
  PROVE  LET limit == asked.limits[1]
             All(s) == RowsOf(Targets(TranslationRows(Corpus, s, asked.q.target, limit)))
         IN SharedOut(asked.answer, limit, Cardinality(PlacesOf(asked.answer, limit)) + 0, All)
<1> DEFINE limit == asked.limits[1]
           S == SensesOf(Corpus, asked.q.term)
           all == TranslatedBy(asked.q, limit)
           total == Cardinality(PlacesOf(asked.answer, limit))
<1>1. total \in Nat /\ FairShares(asked.answer, S, all, total, limit)
  BY TranslatedShared DEF TranslatedFairly
<1>2. \A s \in S : all[s] = RowsOf(Targets(TranslationRows(Corpus, s, asked.q.target, limit)))
  BY DEF TranslatedBy
<1> HIDE DEF all, total
<1>3. total + 0 = total
  BY <1>1
<1>4. QED
  BY <1>1, <1>2, <1>3 DEF FairShares, ShownOf, SharedOut, total

LEMMA SynonymsShare ==
  ASSUME PackedInv, Allocated, WithinScans, Answered("synonyms")
  PROVE  LET limit == asked.limits[1]
             groups == asked.answer.groups
             All(s) == {r.target : r \in {x \in Corpus.synonyms : x.sense = s}} \ {asked.q.term}
         IN SharedOut(groups, limit, Cardinality(PlacesOf(groups, limit)) + Len(asked.answer.extra), All)
<1> DEFINE limit == asked.limits[1]
           groups == asked.answer.groups
           S == SensesOf(Corpus, asked.q.term)
           all == SynonymousTo(asked.q.term)
           total == Cardinality(PlacesOf(groups, limit)) + Len(asked.answer.extra)
<1>1. FairShares(groups, S, all, total, limit)
  BY SynonymsShared DEF SynonymsFairly
<1>2. \A s \in S : all[s] = {r.target : r \in {x \in Corpus.synonyms : x.sense = s}} \ {asked.q.term}
  BY DEF SynonymousTo, SynonymsIn
<1> HIDE DEF all, total
<1>3. QED
  BY <1>1, <1>2 DEF FairShares, ShownOf, SharedOut, total

LEMMA Shares == PackedInv /\ Allocated /\ WithinScans => BudgetShared
<1> SUFFICES ASSUME PackedInv, Allocated, WithinScans
             PROVE  BudgetShared
  OBVIOUS
<1>1. ASSUME Answered("translate")
      PROVE  LET limit == asked.limits[1]
                 All(s) == RowsOf(Targets(TranslationRows(Corpus, s, asked.q.target, limit)))
             IN SharedOut(asked.answer, limit, Cardinality(PlacesOf(asked.answer, limit)) + 0, All)
  BY <1>1, TranslateShares
<1>2. ASSUME Answered("synonyms")
      PROVE  LET limit == asked.limits[1]
                 groups == asked.answer.groups
                 All(s) == {r.target : r \in {x \in Corpus.synonyms : x.sense = s}} \ {asked.q.term}
             IN SharedOut(groups, limit, Cardinality(PlacesOf(groups, limit)) + Len(asked.answer.extra), All)
  BY <1>2, SynonymsShare
<1>3. SUFFICES ASSUME NEW op \in {"translate", "synonyms"}, Answered(op)
               PROVE  LET q == asked.q
                          groups == IF op = "translate" THEN asked.answer ELSE asked.answer.groups
                          Presented(s) == UNION {RowsOf(g.shown) : g \in {h \in groups : h.sense = s}}
                          All(s) == IF op = "translate"
                                    THEN RowsOf(Targets(TranslationRows(Corpus, s, q.target,
                                                                        asked.limits[1])))
                                    ELSE {r.target : r \in {x \in Corpus.synonyms : x.sense = s}}
                                           \ {q.term}
                          total == Cardinality({x \in groups \X (1 .. asked.limits[1]) :
                                                  x[2] \in DOMAIN x[1].shown})
                                     + (IF op = "synonyms" THEN Len(asked.answer.extra) ELSE 0)
                          senses == SensesOf(Corpus, q.term)
                      IN /\ total <= asked.limits[1]
                         /\ \A s, u \in senses :
                              /\ Presented(s) \subseteq All(s)
                              /\ (s \in UnsensedSense <=> u \in UnsensedSense)
                                   /\ Cardinality(Presented(s)) > Cardinality(Presented(u)) + 1
                                   => Presented(u) = All(u)
                         /\ total < asked.limits[1] =>
                              \A s \in senses \ UnsensedSense : Presented(s) = All(s)
  BY <1>3 DEF BudgetShared
<1>4. CASE op = "translate"
  BY <1>1, <1>3, <1>4 DEF SharedOut, PlacesOf
<1>5. CASE op = "synonyms"
  BY <1>2, <1>3, <1>5 DEF SharedOut, PlacesOf
<1>6. QED
  BY <1>3, <1>4, <1>5

LEMMA NewFirst == PackedInv /\ Allocated /\ WithinScans => ExtraNewFirst
<1> SUFFICES ASSUME PackedInv, Allocated, WithinScans, Answered("synonyms")
             PROVE  ExtraNewFirst
  BY DEF ExtraNewFirst
<1> DEFINE a == asked.answer
           t == asked.q.term
<1>1. RowsOf(a.extra) \cap ShownIn(a.groups) # {} =>
        UnsensedSynonyms(t) \subseteq ShownIn(a.groups) \cup RowsOf(a.extra) \cup {t}
  BY SynonymsShared DEF SynonymsFairly
<1>2. QED
  BY <1>1 DEF ExtraNewFirst, ShownIn, UnsensedSynonyms

(* What a limit leaves out is shared and told, as long as no safety cap on *)
(* a scan is reached: no sense has a second translation or synonym before  *)
(* every sense that has one has its first (_round_robin_allocate and the   *)
(* two budgets of dictionary_synonyms), nothing is left out below the      *)
(* limit, a lookup and its truncation flags agree, and a synonym by        *)
(* relation is shown again only when no new one is left                    *)
(* (_rank_unsensed_relation_synonyms).                                     *)
THEOREM BudgetsAlwaysKept == PackedSpec => [](Allocated /\ WithinScans => BudgetsKept)
<1>1. PackedInv => (Allocated /\ WithinScans => BudgetsKept)
  BY Used, TruncationSaid, Shares, NewFirst DEF BudgetsKept
<1>2. QED
  BY <1>1, PackedKept, PTL

-----------------------------------------------------------------------------
USE DEF package, github

(* The artifacts and the names of their parts.                             *)
LEMMA ArtifactNames ==
  /\ Len(Artifacts) \in Nat \ {0}
  /\ \A i \in 1 .. Len(Artifacts) :
       /\ Parts[Artifacts[i]] \in Nat \ {0}
       /\ \A k \in 1 .. Parts[Artifacts[i]] : <<Artifacts[i], k>> \in Name
  /\ \A n \in Name : \E i \in 1 .. Len(Artifacts) : \E k \in 1 .. Parts[Artifacts[i]] :
       n = <<Artifacts[i], k>>
<1>1. Len(Artifacts) \in Nat \ {0}
  BY ReleaseAssumption
<1>2. \A i \in 1 .. Len(Artifacts) : Artifacts[i] \in Artifact
  BY DEF Artifact
<1>3. \A i \in 1 .. Len(Artifacts) :
        /\ Parts[Artifacts[i]] \in Nat \ {0}
        /\ \A k \in 1 .. Parts[Artifacts[i]] : <<Artifacts[i], k>> \in Name
  BY <1>2, ReleaseAssumption DEF Name
<1>4. \A n \in Name : \E a \in Artifact : \E k \in 1 .. Parts[a] : n = <<a, k>>
  BY DEF Name
<1>5. QED
  BY <1>1, <1>3, <1>4 DEF Artifact

LEMMA Contents == Nothing \notin Build /\ Torn \notin Build /\ Torn # Nothing
BY ReleaseAssumption DEF Content

-----------------------------------------------------------------------------
(* PackageInv in its parts: the package directory, the release on GitHub,  *)
(* what the operators are at, and the faults there have been.              *)
Files ==
  /\ temp \in [Name -> Content \cup {Nothing}] /\ final \in [Name -> Build \cup {Nothing}]
  /\ manifest \in Build \cup {Nothing} /\ ManifestBacked
  /\ OneRun
  /\ \A o \in Packager : pc[o] \in Packing => OwnParts(o) /\ Progress(o)

Hub ==
  /\ remote \in Release \cup {Nothing}
  /\ setting \in BOOLEAN /\ reports \subseteq Build
  /\ told \subseteq [action : {"staged", "published"}, build : Build]
  /\ \A o \in Operator : pc[o] \in {"list", "upload", "edit", "confirm"} => remote # Nothing

Jobs == JobTyped /\ \A o \in Operator : pc[o] = "idle" <=> job[o] = Nothing

Counted == faults \in 0 .. MaxFaults

LEMMA Split == PackageInv <=> Files /\ Hub /\ Jobs /\ Counted
BY DEF PackageInv, PackageSound, TypeOK, Files, Hub, Jobs, Counted

LEMMA SplitPrimed == Files' /\ Hub' /\ Jobs' /\ Counted' => PackageInv'
BY Split, PTL

(* The kinds of step an operator may be at.                                *)
LEMMA Kinds ==
  /\ Packing \cap Staging = {} /\ Packing \cap Releasing = {} /\ Staging \cap Releasing = {}
  /\ "idle" \notin Packing \cup Staging \cup Releasing
BY DEF Packing, Writing, Staging, Releasing

Fits(o, s, j) ==
  \/ s \in Packing /\ o \in Packager /\ j \in PackageJob
  \/ s \in Staging /\ j \in StageJob
  \/ s \in Releasing /\ j \in PublishJob
  \/ s = "idle" /\ j = Nothing

LEMMA JobsStep ==
  ASSUME Jobs, NEW o \in Operator, NEW s, NEW j, Fits(o, s, j),
         pc' = [pc EXCEPT ![o] = s], job' = [job EXCEPT ![o] = j]
  PROVE  Jobs'
<1>1. /\ s \in Packing \cup Staging \cup Releasing \cup {"idle"}
      /\ j \in PackageJob \cup StageJob \cup PublishJob \cup {Nothing}
      /\ s = "idle" <=> j = Nothing
  BY Kinds, NothingAssumption DEF Fits
<1>2. /\ pc \in [Operator -> Packing \cup Staging \cup Releasing \cup {"idle"}]
      /\ job \in [Operator -> PackageJob \cup StageJob \cup PublishJob \cup {Nothing}]
  BY DEF Jobs, JobTyped
<1>3. \A p \in Operator :
        /\ pc'[p] = IF p = o THEN s ELSE pc[p]
        /\ job'[p] = IF p = o THEN j ELSE job[p]
  BY <1>2
<1>4. \A p \in Operator :
        /\ pc'[p] \in Packing => p \in Packager /\ job'[p] \in PackageJob
        /\ pc'[p] \in Staging => job'[p] \in StageJob
        /\ pc'[p] \in Releasing => job'[p] \in PublishJob
        /\ pc'[p] = "idle" <=> job'[p] = Nothing
  BY <1>1, <1>3, Kinds DEF Jobs, JobTyped, Fits
<1>5. QED
  BY <1>1, <1>2, <1>4 DEF Jobs, JobTyped

LEMMA JobsGoto ==
  ASSUME Jobs, NEW o \in Operator, NEW s, Fits(o, s, job[o]),
         pc' = [pc EXCEPT ![o] = s], job' = job
  PROVE  Jobs'
<1>1. job' = [job EXCEPT ![o] = job[o]]
  BY DEF Jobs, JobTyped
<1>2. QED
  BY <1>1, JobsStep

(* What everybody who does not package leaves alone.                       *)
LEMMA FilesFrame ==
  ASSUME Files, UNCHANGED package,
         \A p \in Packager : pc'[p] \in Packing => pc'[p] = pc[p] /\ job'[p] = job[p]
  PROVE  Files'
<1>1. OneRun'
  BY DEF Files, OneRun, Packing, Writing
<1>2. ASSUME NEW p \in Packager, pc'[p] \in Packing
      PROVE  OwnParts(p)' /\ Progress(p)'
  <2>1. OwnParts(p) /\ Progress(p) /\ pc'[p] = pc[p] /\ job'[p] = job[p]
    BY <1>2 DEF Files
  <2>2. Mine(p)' = Mine(p) /\ Linked(p)' = Linked(p)
    BY <2>1 DEF Mine, Linked, Current
  <2>3. OwnParts(p)'
    BY <2>1, <2>2 DEF OwnParts
  <2>4. Progress(p)'
    BY <2>1 DEF Progress
  <2>5. QED
    BY <2>3, <2>4
<1>3. ManifestBacked'
  BY DEF Files, ManifestBacked, Bundle
<1>4. QED
  BY <1>1, <1>2, <1>3 DEF Files

(* The run that packages is alone.                                         *)
LEMMA FilesStep ==
  ASSUME Files, Jobs, NEW o \in Packager, NEW s, pc' = [pc EXCEPT ![o] = s],
         \A p \in Packager : pc[p] \in Packing => p = o,
         temp' \in [Name -> Content \cup {Nothing}], final' \in [Name -> Build \cup {Nothing}],
         manifest' \in Build \cup {Nothing}, ManifestBacked',
         s \in Writing => /\ job'[o].at \in 1 .. Len(Artifacts)
                         /\ job'[o].part \in 1 .. Parts[Artifacts[job'[o].at]],
         s = "manifest" => job'[o].at = Len(Artifacts) + 1,
         s \in Packing => OwnParts(o)' /\ Progress(o)'
  PROVE  Files'
<1>1. o \in Operator /\ Packager \subseteq Operator
  BY ReleaseAssumption
<1>2. \A p \in Packager : pc'[p] = IF p = o THEN s ELSE pc[p]
  BY <1>1 DEF Jobs, JobTyped
<1>3. \A p \in Packager : pc'[p] \in Packing => p = o
  BY <1>2
<1>4. OneRun'
  BY <1>2, <1>3 DEF OneRun, Packing
<1>5. QED
  BY <1>2, <1>3, <1>4 DEF Files

LEMMA PackagingFacts ==
  ASSUME Files, Jobs, NEW o \in Packager, pc[o] \in Packing
  PROVE  /\ o \in Operator /\ job[o] \in PackageJob /\ OwnParts(o) /\ Progress(o)
         /\ \A p \in Packager : pc[p] \in Packing => p = o
         /\ pc[o] \in Writing =>
              /\ job[o].at \in 1 .. Len(Artifacts)
              /\ job[o].part \in 1 .. Parts[Artifacts[job[o].at]]
              /\ Current(o) \in Name
         /\ pc[o] = "manifest" => job[o].at = Len(Artifacts) + 1
<1>1. o \in Operator
  BY ReleaseAssumption
<1>2. QED
  BY <1>1, ArtifactNames DEF Files, Jobs, JobTyped, OneRun, Current

LEMMA SameParts ==
  ASSUME NEW o, OwnParts(o), UNCHANGED <<final, manifest>>,
         Mine(o)' \cup Linked(o)' = Mine(o) \cup Linked(o),
         pc'[o] = "abort" => Linked(o)' = Linked(o),
         Mine(o)' \cap Linked(o)' = {},
         pc'[o] # "abort" => job'[o].loose = {},
         job'[o].found = job[o].found, job'[o].build = job[o].build,
         pc[o] = "abort" => pc'[o] = "abort"
  PROVE  OwnParts(o)'
BY DEF OwnParts
-----------------------------------------------------------------------------
(* The steps of a packaging run.                                           *)
LEMMA StartPackageStep ==
  ASSUME Files, Jobs, NEW o \in Packager, NEW b \in Build, StartPackage(o, b)
  PROVE  Files' /\ Jobs'
<1> DEFINE j == [build |-> b, found |-> final, at |-> 1, part |-> 1,
                 opened |-> {}, committed |-> {}, generated |-> {}, loose |-> {}]
<1>1. /\ o \in Operator /\ pc' = [pc EXCEPT ![o] = "open"] /\ job' = [job EXCEPT ![o] = j]
      /\ UNCHANGED package /\ \A p \in Packager : pc[p] = "idle"
  BY ReleaseAssumption DEF StartPackage, Goto
<1>2. j \in PackageJob
  BY DEF Files, PackageJob
<1>3. Jobs'
  BY <1>1, <1>2, JobsStep DEF Fits, Packing, Writing
<1>4. job'[o] = j /\ pc'[o] = "open"
  BY <1>1 DEF Jobs, JobTyped
<1>5. 1 \in 1 .. Len(Artifacts) /\ 1 \in 1 .. Parts[Artifacts[1]]
  BY ArtifactNames
<1>6. Mine(o)' = {} /\ Linked(o)' = {} /\ job'[o].loose = {}
  BY <1>4 DEF Mine, Linked
<1>7. OwnParts(o)'
  BY <1>1, <1>4, <1>6 DEF OwnParts
<1>8. Progress(o)'
  BY <1>4 DEF Progress, Writing
<1>9. ManifestBacked'
  BY <1>1 DEF Files, ManifestBacked, Bundle
<1>10. \A p \in Packager : pc[p] \in Packing => p = o
  BY <1>1, Kinds
<1>11. job'[o].at = 1 /\ job'[o].part = 1
  BY <1>4
<1> HIDE DEF j
<1>12. Files'
  BY <1>1, <1>5, <1>7, <1>8, <1>9, <1>10, <1>11, FilesStep DEF Files
<1>13. QED
  BY <1>3, <1>12

(* A run that gives up keeps what it knows until it has cleaned it away.   *)
LEMMA AbortStep ==
  ASSUME Files, Jobs, NEW o \in Packager,
         pc[o] \in {"open", "fill", "link", "unlink", "manifest"}, UNCHANGED package,
         pc' = [pc EXCEPT ![o] = "abort"], job' = [job EXCEPT ![o].loose = Linked(o)]
  PROVE  Files' /\ Jobs'
<1> DEFINE j == [job[o] EXCEPT !.loose = Linked(o)]
<1>1. /\ o \in Operator /\ job[o] \in PackageJob /\ OwnParts(o)
      /\ \A p \in Packager : pc[p] \in Packing => p = o
      /\ pc[o] \in Writing => Current(o) \in Name
  BY PackagingFacts DEF Packing, Writing
<1>2. Linked(o) \subseteq Name
  BY <1>1 DEF Linked, Writing, PackageJob
<1>3. job' = [job EXCEPT ![o] = j]
  OBVIOUS
<1>4. j \in PackageJob
  BY <1>1, <1>2 DEF PackageJob
<1>5. Jobs'
  BY <1>1, <1>3, <1>4, JobsStep DEF Fits, Packing
<1>6. pc'[o] = "abort" /\ job'[o] = j
  BY <1>1, <1>3 DEF Jobs, JobTyped
<1>7. /\ j.found = job[o].found /\ j.build = job[o].build /\ j.loose = Linked(o)
      /\ j.committed = job[o].committed /\ j.generated = job[o].generated
  BY <1>1 DEF PackageJob
<1> HIDE DEF j
<1>8. Mine(o)' = Mine(o) /\ Linked(o)' = Linked(o)
  BY <1>6, <1>7 DEF Mine, Linked
<1>9. OwnParts(o)'
  <2>1. Mine(o)' \cap Linked(o)' = {}
    BY <1>1, <1>8 DEF OwnParts
  <2>2. QED
    BY <1>1, <1>6, <1>7, <1>8, <2>1, SameParts
<1>10. Progress(o)'
  BY <1>6 DEF Progress, Writing
<1>11. ManifestBacked'
  BY DEF Files, ManifestBacked, Bundle
<1>12. Files'
  BY <1>1, <1>9, <1>10, <1>11, FilesStep DEF Files, Writing
<1>13. QED
  BY <1>5, <1>12

(* A step that finds what it was to make there already: nothing of it is   *)
(* loose.                                                                  *)
LEMMA RefusedStep ==
  ASSUME Files, Jobs, NEW o \in Packager, pc[o] \in {"open", "link"},
         pc' = [pc EXCEPT ![o] = "abort"], UNCHANGED <<package, job>>
  PROVE  Files' /\ Jobs'
<1>1. job[o] \in PackageJob /\ job[o].loose = {} /\ o \in Operator
  BY PackagingFacts DEF Packing, Writing, OwnParts
<1>2. Linked(o) = {}
  BY <1>1 DEF Linked
<1>3. [job[o] EXCEPT !.loose = Linked(o)] = job[o]
  BY <1>1, <1>2 DEF PackageJob
<1>4. job' = [job EXCEPT ![o].loose = Linked(o)]
  BY <1>1, <1>3 DEF Jobs, JobTyped
<1>5. QED
  BY <1>4, AbortStep

LEMMA OpenStep ==
  ASSUME Files, Jobs, NEW o \in Packager, OpenPart(o)
  PROVE  Files' /\ Jobs'
<1>1. /\ pc[o] = "open" /\ UNCHANGED <<final, manifest>>
  BY DEF OpenPart, Packaging
<1>2. /\ o \in Operator /\ job[o] \in PackageJob /\ OwnParts(o) /\ Progress(o)
      /\ \A p \in Packager : pc[p] \in Packing => p = o
      /\ job[o].at \in 1 .. Len(Artifacts) /\ job[o].part \in 1 .. Parts[Artifacts[job[o].at]]
      /\ Current(o) \in Name
  BY <1>1, PackagingFacts DEF Packing, Writing
<1>3. CASE temp[Current(o)] # Nothing
  BY <1>1, <1>3, RefusedStep DEF OpenPart, Goto
<1>4. CASE temp[Current(o)] = Nothing
  <2> DEFINE j == [job[o] EXCEPT !.opened = @ \cup {Current(o)}]
  <2>1. /\ pc' = [pc EXCEPT ![o] = "fill"] /\ job' = [job EXCEPT ![o] = j]
        /\ temp' = [temp EXCEPT ![Current(o)] = Torn]
    BY <1>4 DEF OpenPart, Goto
  <2>2. j \in PackageJob
    BY <1>2 DEF PackageJob
  <2>3. Jobs'
    BY <1>2, <2>1, <2>2, JobsStep DEF Fits, Packing, Writing
  <2>4. pc'[o] = "fill" /\ job'[o] = j
    BY <1>2, <2>1 DEF Jobs, JobTyped
  <2>5. /\ j.build = job[o].build /\ j.found = job[o].found /\ j.at = job[o].at
        /\ j.part = job[o].part /\ j.committed = job[o].committed
        /\ j.generated = job[o].generated /\ j.loose = job[o].loose
    BY <1>2 DEF PackageJob
  <2> HIDE DEF j
  <2>6. Mine(o)' = Mine(o) /\ Linked(o)' = Linked(o)
    BY <1>1, <2>4, <2>5 DEF Mine, Linked
  <2>7. OwnParts(o)'
    <3>1. Mine(o) \cap Linked(o) = {} /\ job[o].loose = {}
      BY <1>1, <1>2 DEF OwnParts
    <3>2. QED
      BY <1>1, <1>2, <2>4, <2>5, <2>6, <3>1, SameParts
  <2>8. Progress(o)'
    <3>1. ASSUME NEW k \in 1 .. job[o].part - 1
          PROVE  temp'[<<Artifacts[job[o].at], k>>] = job[o].build
      <4>1. /\ temp[<<Artifacts[job[o].at], k>>] = job[o].build
            /\ k # job[o].part /\ k \in 1 .. Parts[Artifacts[job[o].at]]
        BY <1>1, <1>2, ArtifactNames DEF Progress
      <4>2. <<Artifacts[job[o].at], k>> \in Name /\ <<Artifacts[job[o].at], k>> # Current(o)
        BY <1>2, <4>1, ArtifactNames DEF Current
      <4>3. QED
        BY <1>2, <2>1, <4>1, <4>2 DEF Files
    <3>2. QED
      BY <1>1, <1>2, <2>4, <2>5, <3>1 DEF Progress, Writing
  <2>9. temp' \in [Name -> Content \cup {Nothing}] /\ ManifestBacked'
    BY <1>1, <1>2, <2>1 DEF Files, ManifestBacked, Bundle, Content
  <2>10. Files'
    BY <1>1, <1>2, <2>1, <2>4, <2>5, <2>7, <2>8, <2>9, FilesStep DEF Files
  <2>11. QED
    BY <2>3, <2>10
<1>5. QED
  BY <1>3, <1>4

LEMMA FillStep ==
  ASSUME Files, Jobs, NEW o \in Packager, FillPart(o)
  PROVE  Files' /\ Jobs'
<1> DEFINE next == IF LastPart(o) THEN 1 ELSE job[o].part + 1
           s == IF LastPart(o) THEN "link" ELSE "open"
           j == [job[o] EXCEPT !.part = next]
<1>1. /\ pc[o] = "fill" /\ UNCHANGED <<final, manifest>>
      /\ temp' = [temp EXCEPT ![Current(o)] = job[o].build]
      /\ pc' = [pc EXCEPT ![o] = s]
      /\ job' = [job EXCEPT ![o] = j]
  BY DEF FillPart, Packaging, Goto
<1>2. /\ o \in Operator /\ job[o] \in PackageJob /\ OwnParts(o) /\ Progress(o)
      /\ \A p \in Packager : pc[p] \in Packing => p = o
      /\ job[o].at \in 1 .. Len(Artifacts) /\ job[o].part \in 1 .. Parts[Artifacts[job[o].at]]
      /\ Current(o) \in Name /\ job[o].build \in Build
      /\ Parts[Artifacts[job[o].at]] \in Nat \ {0}
  BY <1>1, PackagingFacts, ArtifactNames DEF Packing, Writing, PackageJob
<1>3. next \in 1 .. Parts[Artifacts[job[o].at]]
  BY <1>2 DEF LastPart
<1>4. j \in PackageJob
  BY <1>2, <1>3 DEF PackageJob
<1>5. Jobs'
  BY <1>1, <1>2, <1>4, JobsStep DEF Fits, Packing, Writing
<1>6. pc'[o] = s /\ job'[o] = j
  BY <1>1, <1>2 DEF Jobs, JobTyped
<1>7. /\ j.build = job[o].build /\ j.found = job[o].found /\ j.at = job[o].at
      /\ j.part = next /\ j.committed = job[o].committed /\ j.generated = job[o].generated
      /\ j.loose = job[o].loose /\ s # "abort"
  BY <1>2 DEF PackageJob
<1> HIDE DEF j
<1>8. Mine(o)' = Mine(o) /\ Linked(o)' = Linked(o)
  BY <1>1, <1>6, <1>7 DEF Mine, Linked
<1>9. OwnParts(o)'
  <2>1. Mine(o) \cap Linked(o) = {} /\ job[o].loose = {}
    BY <1>1, <1>2 DEF OwnParts
  <2> HIDE DEF s
  <2>2. QED
    BY <1>1, <1>2, <1>6, <1>7, <1>8, <2>1, SameParts
<1>10. \A k \in 1 .. job[o].part : temp'[<<Artifacts[job[o].at], k>>] = job[o].build
  <2>1. ASSUME NEW k \in 1 .. job[o].part
        PROVE  temp'[<<Artifacts[job[o].at], k>>] = job[o].build
    <3>1. k \in 1 .. Parts[Artifacts[job[o].at]] /\ <<Artifacts[job[o].at], k>> \in Name
      BY <1>2, ArtifactNames
    <3>2. k = job[o].part \/ temp[<<Artifacts[job[o].at], k>>] = job[o].build
      BY <1>1, <1>2 DEF Progress
    <3>3. QED
      BY <1>1, <1>2, <3>1, <3>2 DEF Files, Current
  <2>2. QED
    BY <2>1
<1>11. Progress(o)'
  <2>1. CASE LastPart(o)
    <3>1. job[o].part = Parts[Artifacts[job[o].at]] /\ next = 1 /\ s = "link"
      BY <2>1 DEF LastPart
    <3>2. QED
      BY <1>1, <1>2, <1>6, <1>7, <1>10, <3>1 DEF Progress, Writing
  <2>2. CASE ~LastPart(o)
    <3>1. next = job[o].part + 1 /\ s = "open" /\ next - 1 = job[o].part
      BY <1>2, <2>2
    <3>2. QED
      BY <1>1, <1>2, <1>6, <1>7, <1>10, <3>1 DEF Progress, Writing
  <2>3. QED
    BY <2>1, <2>2
<1>12. temp' \in [Name -> Content \cup {Nothing}] /\ ManifestBacked'
  BY <1>1, <1>2 DEF Files, ManifestBacked, Bundle, Content
<1>13. Files'
  <2>1. /\ o \in Packager /\ final' \in [Name -> Build \cup {Nothing}]
        /\ manifest' \in Build \cup {Nothing} /\ pc' = [pc EXCEPT ![o] = s]
    BY <1>1 DEF Files
  <2>2. job'[o].at \in 1 .. Len(Artifacts) /\ job'[o].part \in 1 .. Parts[Artifacts[job'[o].at]]
    BY <1>2, <1>3, <1>6, <1>7
  <2>3. s # "manifest"
    OBVIOUS
  <2> HIDE DEF s, next
  <2>4. QED
    BY <1>1, <1>2, <1>9, <1>11, <1>12, <2>1, <2>2, <2>3, FilesStep
<1>14. QED
  BY <1>5, <1>13

LEMMA LinkStep ==
  ASSUME Files, Jobs, NEW o \in Packager, LinkPart(o)
  PROVE  Files' /\ Jobs'
<1>1. /\ pc[o] = "link" /\ UNCHANGED <<temp, manifest, job>>
  BY DEF LinkPart, Packaging
<1>2. /\ o \in Operator /\ job[o] \in PackageJob /\ OwnParts(o) /\ Progress(o)
      /\ \A p \in Packager : pc[p] \in Packing => p = o
      /\ job[o].at \in 1 .. Len(Artifacts) /\ job[o].part \in 1 .. Parts[Artifacts[job[o].at]]
      /\ Current(o) \in Name /\ job[o].build \in Build
  BY <1>1, PackagingFacts DEF Packing, Writing, PackageJob
<1>3. CASE ~(final[Current(o)] = Nothing /\ temp[Current(o)] # Nothing)
  BY <1>1, <1>3, RefusedStep DEF LinkPart, Goto
<1>4. CASE final[Current(o)] = Nothing /\ temp[Current(o)] # Nothing
  <2>1. /\ pc' = [pc EXCEPT ![o] = "unlink"]
        /\ final' = [final EXCEPT ![Current(o)] = temp[Current(o)]]
    BY <1>4 DEF LinkPart, Goto
  <2>2. temp[Current(o)] = job[o].build
    <3>1. Parts[Artifacts[job[o].at]] \in Nat
      BY <1>2, ArtifactNames
    <3>2. job[o].part \in job[o].part .. Parts[Artifacts[job[o].at]]
      BY <1>2, <3>1
    <3>3. QED
      BY <1>1, <1>2, <3>2 DEF Progress, Current
  <2>3. Jobs'
    BY <1>1, <1>2, <2>1, JobsGoto DEF Fits, Packing, Writing
  <2>4. pc'[o] = "unlink"
    BY <1>2, <2>1 DEF Jobs, JobTyped
  <2>5. /\ Mine(o)' = Mine(o) /\ Linked(o) = {} /\ Linked(o)' = {Current(o)}
        /\ Current(o) \notin Mine(o)
    <3>1. final[Current(o)] # job[o].build
      BY <1>2, <1>4, Contents
    <3>2. Current(o) \notin Mine(o)
      BY <1>1, <1>2, <3>1 DEF OwnParts
    <3>3. job[o].loose = {}
      BY <1>1, <1>2 DEF OwnParts
    <3>4. QED
      BY <1>1, <2>4, <3>2, <3>3 DEF Mine, Linked, Current
  <2>6. manifest = Nothing
    <3>1. manifest # Nothing => final[Current(o)] = manifest
      BY <1>2 DEF Files, ManifestBacked, Bundle
    <3>2. QED
      BY <1>4, <3>1
  <2>7. \A n \in Name : final'[n] = IF n = Current(o) THEN job[o].build ELSE final[n]
    BY <1>2, <2>1, <2>2 DEF Files
  <2>8. OwnParts(o)'
    <3>1. /\ \A n \in Mine(o) : n \in Name /\ job[o].found[n] = Nothing
                               /\ final[n] = job[o].build
          /\ \A n \in Name \ Mine(o) : final[n] = job[o].found[n]
      BY <1>1, <1>2, <2>5 DEF OwnParts, Mine, PackageJob
    <3>2. \A n \in Mine(o)' \cup Linked(o)' :
            job'[o].found[n] = Nothing /\ final'[n] = job'[o].build
      BY <1>1, <1>2, <1>4, <2>5, <2>7, <3>1
    <3>3. \A n \in Name \ (Mine(o)' \cup Linked(o)') : final'[n] = job'[o].found[n]
      BY <1>1, <1>2, <2>5, <2>7, <3>1
    <3>4. job'[o].loose = {} /\ Mine(o)' \cap Linked(o)' = {}
      BY <1>1, <1>2, <2>5 DEF OwnParts
    <3>5. QED
      BY <1>1, <2>6, <3>2, <3>3, <3>4 DEF OwnParts
  <2>9. Progress(o)'
    BY <1>1, <1>2, <2>4 DEF Progress, Writing
  <2>10. final' \in [Name -> Build \cup {Nothing}] /\ ManifestBacked'
    BY <1>1, <1>2, <2>1, <2>2, <2>6 DEF Files, ManifestBacked
  <2>11. Files'
    BY <1>1, <1>2, <2>1, <2>4, <2>8, <2>9, <2>10, FilesStep DEF Files
  <2>12. QED
    BY <2>3, <2>11
<1>5. QED
  BY <1>3, <1>4

LEMMA UnlinkStep ==
  ASSUME Files, Jobs, NEW o \in Packager, UnlinkTemporary(o)
  PROVE  Files' /\ Jobs'
<1> DEFINE mine == job[o].committed \cup {Current(o)}
           last == LastPart(o)
           s == IF ~last THEN "link"
                ELSE IF job[o].at + 1 > Len(Artifacts) THEN "manifest" ELSE "open"
           j == IF last
                THEN [job[o] EXCEPT !.generated = @ \cup mine, !.committed = {}, !.opened = {},
                                    !.at = job[o].at + 1, !.part = 1]
                ELSE [job[o] EXCEPT !.committed = mine, !.part = @ + 1]
<1>1. /\ pc[o] = "unlink" /\ UNCHANGED <<final, manifest>>
      /\ temp' = [temp EXCEPT ![Current(o)] = Nothing]
      /\ pc' = [pc EXCEPT ![o] = s]
      /\ job' = [job EXCEPT ![o] = j]
  <2>1. /\ pc[o] = "unlink" /\ UNCHANGED <<final, manifest>>
        /\ temp' = [temp EXCEPT ![Current(o)] = Nothing]
    BY DEF UnlinkTemporary, Packaging
  <2>2. pc' = [pc EXCEPT ![o] = s]
    BY DEF UnlinkTemporary, Goto
  <2>3. CASE last
    <3> DEFINE jl == [job[o] EXCEPT !.generated = @ \cup mine, !.committed = {}, !.opened = {},
                                    !.at = job[o].at + 1, !.part = 1]
    <3>1. job' = [job EXCEPT ![o] = jl]
      BY <2>3 DEF UnlinkTemporary
    <3>2. j = jl
      BY <2>3
    <3> HIDE DEF j, jl, s
    <3>3. QED
      BY <2>1, <2>2, <3>1, <3>2
  <2>4. CASE ~last
    <3> DEFINE jn == [job[o] EXCEPT !.committed = mine, !.part = @ + 1]
    <3>1. job' = [job EXCEPT ![o] = jn]
      BY <2>4 DEF UnlinkTemporary
    <3>2. j = jn
      BY <2>4
    <3> HIDE DEF j, jn, s
    <3>3. QED
      BY <2>1, <2>2, <3>1, <3>2
  <2>5. QED
    BY <2>3, <2>4
<1>2. /\ o \in Operator /\ job[o] \in PackageJob /\ OwnParts(o) /\ Progress(o)
      /\ \A p \in Packager : pc[p] \in Packing => p = o
      /\ job[o].at \in 1 .. Len(Artifacts) /\ job[o].part \in 1 .. Parts[Artifacts[job[o].at]]
      /\ Current(o) \in Name /\ job[o].build \in Build
      /\ Parts[Artifacts[job[o].at]] \in Nat \ {0} /\ Len(Artifacts) \in Nat \ {0}
  BY <1>1, PackagingFacts, ArtifactNames DEF Packing, Writing, PackageJob
<1>3. /\ j.build = job[o].build /\ j.found = job[o].found
      /\ j.at = IF last THEN job[o].at + 1 ELSE job[o].at
      /\ j.part = IF last THEN 1 ELSE job[o].part + 1
      /\ j.committed = IF last THEN {} ELSE mine
      /\ j.generated = IF last THEN job[o].generated \cup mine ELSE job[o].generated
      /\ j.opened \subseteq job[o].opened
      /\ j.loose = job[o].loose
  BY <1>2 DEF PackageJob
<1>4. j \in PackageJob
  <2>1. mine \subseteq Name /\ job[o].at + 1 \in Nat /\ job[o].part + 1 \in Nat
    BY <1>2 DEF PackageJob
  <2>2. CASE last
    BY <1>2, <2>1, <2>2 DEF PackageJob
  <2>3. CASE ~last
    BY <1>2, <2>1, <2>3 DEF PackageJob
  <2>4. QED
    BY <2>2, <2>3
<1>5. Jobs'
  BY <1>1, <1>2, <1>4, JobsStep DEF Fits, Packing, Writing
<1>6. pc'[o] = s /\ job'[o] = j
  BY <1>1, <1>2 DEF Jobs, JobTyped
<1>7. /\ job[o].part + 1 - 1 = job[o].part /\ job[o].at + 1 - 1 = job[o].at
      /\ last => job[o].part = Parts[Artifacts[job[o].at]]
      /\ ~last => job[o].part + 1 \in 1 .. Parts[Artifacts[job[o].at]]
      /\ s = "manifest" => job[o].at + 1 = Len(Artifacts) + 1
      /\ s = "open" => last /\ job[o].at + 1 \in 1 .. Len(Artifacts)
                         /\ 1 \in 1 .. Parts[Artifacts[job[o].at + 1]]
  <2>1. job[o].at \in Nat /\ job[o].part \in Nat
    BY <1>2 DEF PackageJob
  <2>2. last <=> job[o].part = Parts[Artifacts[job[o].at]]
    BY DEF LastPart
  <2>3. ~last => job[o].part + 1 \in 1 .. Parts[Artifacts[job[o].at]]
    BY <1>2, <2>1, <2>2
  <2>4. s = "manifest" => job[o].at + 1 = Len(Artifacts) + 1
    BY <1>2, <2>1
  <2>5. ASSUME s = "open"
        PROVE  last /\ job[o].at + 1 \in 1 .. Len(Artifacts)
    BY <1>2, <2>5
  <2>6. s = "open" => 1 \in 1 .. Parts[Artifacts[job[o].at + 1]]
    BY <2>5, ArtifactNames
  <2>7. QED
    BY <2>1, <2>2, <2>3, <2>4, <2>5, <2>6
<1> HIDE DEF j
<1>8. /\ Linked(o) = {Current(o)} /\ Linked(o)' = {} /\ job'[o].loose = {}
      /\ Mine(o)' = Mine(o) \cup {Current(o)} /\ s \notin {"unlink", "abort"}
  <2>1. job[o].loose = {}
    BY <1>1, <1>2 DEF OwnParts
  <2>2. QED
    BY <1>1, <1>3, <1>6, <2>1 DEF Mine, Linked
<1>9. OwnParts(o)'
  <2> HIDE DEF s, last, mine
  <2>1. QED
    BY <1>1, <1>2, <1>3, <1>6, <1>8, SameParts
<1>10. \A k \in 1 .. job[o].part : <<Artifacts[job[o].at], k>> \in mine
  <2>1. \A k \in 1 .. job[o].part : k \in 1 .. job[o].part - 1 \/ k = job[o].part
    BY <1>2
  <2>2. QED
    BY <1>1, <1>2, <2>1 DEF Progress, Current
<1> HIDE DEF mine
<1>11. Progress(o)'
  <2>1. CASE last
    <3>1. \A i \in 1 .. job[o].at : i \in 1 .. job[o].at - 1 \/ i = job[o].at
      BY <1>2
    <3>2. \A i \in 1 .. job[o].at : \A k \in 1 .. Parts[Artifacts[i]] :
            <<Artifacts[i], k>> \in j.generated
      BY <1>1, <1>2, <1>3, <1>7, <1>10, <2>1, <3>1 DEF Progress, Writing
    <3>3. s \in {"open", "manifest"} /\ j.at - 1 = job[o].at /\ j.part = 1
      <4>1. j.at = job[o].at + 1 /\ j.part = 1
        BY <1>3, <2>1
      <4>2. s \in {"open", "manifest"}
        BY <2>1
      <4>3. job[o].at \in Nat
        BY <1>2
      <4>4. QED
        BY <4>1, <4>2, <4>3
    <3>4. QED
      BY <1>6, <3>2, <3>3 DEF Progress, Writing
  <2>2. CASE ~last
    <3>1. s = "link" /\ j.at = job[o].at /\ j.part = job[o].part + 1 /\ j.committed = mine
          /\ j.generated = job[o].generated
      BY <1>3, <2>2
    <3>2. ASSUME NEW k \in job[o].part + 1 .. Parts[Artifacts[job[o].at]]
          PROVE  temp'[<<Artifacts[job[o].at], k>>] = job[o].build
      <4>1. /\ k \in job[o].part .. Parts[Artifacts[job[o].at]] /\ k # job[o].part
            /\ k \in 1 .. Parts[Artifacts[job[o].at]]
        BY <1>2
      <4>2. /\ temp[<<Artifacts[job[o].at], k>>] = job[o].build
            /\ <<Artifacts[job[o].at], k>> \in Name /\ <<Artifacts[job[o].at], k>> # Current(o)
        BY <1>1, <1>2, <4>1, ArtifactNames DEF Progress, Current
      <4>3. QED
        BY <1>1, <4>2 DEF Files
    <3>3. \A i \in 1 .. j.at - 1 : \A k \in 1 .. Parts[Artifacts[i]] :
            <<Artifacts[i], k>> \in j.generated
      BY <1>1, <1>2, <3>1 DEF Progress, Writing
    <3>4. \A k \in 1 .. j.part - 1 : <<Artifacts[j.at], k>> \in j.committed
      BY <1>2, <1>10, <3>1
    <3>5. j.build = job[o].build
      BY <1>3
    <3> HIDE DEF s, last
    <3>6. QED
      BY <1>6, <3>1, <3>2, <3>3, <3>4, <3>5 DEF Progress, Writing
  <2>3. QED
    BY <2>1, <2>2
<1>12. temp' \in [Name -> Content \cup {Nothing}] /\ ManifestBacked'
  BY <1>1, <1>2 DEF Files, ManifestBacked, Bundle
<1>13. /\ s \in Writing => /\ j.at \in 1 .. Len(Artifacts)
                          /\ j.part \in 1 .. Parts[Artifacts[j.at]]
       /\ s = "manifest" => j.at = Len(Artifacts) + 1
  <2>1. CASE last
    <3>1. s \in {"open", "manifest"}
      BY <2>1
    <3>2. j.at = job[o].at + 1 /\ j.part = 1
      BY <1>3, <2>1
    <3>3. QED
      BY <1>7, <3>1, <3>2 DEF Writing
  <2>2. CASE ~last
    <3>1. s = "link" /\ j.at = job[o].at /\ j.part = job[o].part + 1
      BY <1>3, <2>2
    <3>2. QED
      BY <1>2, <1>7, <2>2, <3>1
  <2>3. QED
    BY <2>1, <2>2
<1> HIDE DEF s
<1>14. Files'
  BY <1>1, <1>2, <1>6, <1>9, <1>11, <1>12, <1>13, FilesStep DEF Files
<1>15. QED
  BY <1>5, <1>14

(* Who has ended is at nothing.                                            *)
LEMMA EndJobs ==
  ASSUME Jobs, NEW o \in Operator, End(o)
  PROVE  /\ Jobs'
         /\ \A p \in Operator : pc'[p] = (IF p = o THEN "idle" ELSE pc[p])
                               /\ (p # o => job'[p] = job[p])
<1>1. pc' = [pc EXCEPT ![o] = "idle"] /\ job' = [job EXCEPT ![o] = Nothing]
  BY DEF End, Goto
<1>2. QED
  BY <1>1, JobsStep DEF Fits, Jobs, JobTyped

LEMMA EndFiles ==
  ASSUME Files, Jobs, NEW o \in Operator, End(o), UNCHANGED package
  PROVE  Files'
<1>1. \A p \in Packager : pc'[p] \in Packing => pc'[p] = pc[p] /\ job'[p] = job[p]
  BY EndJobs, Kinds, ReleaseAssumption
<1>2. QED
  BY <1>1, FilesFrame

(* The manifest lands when all the parts have.                             *)
LEMMA ManifestStep ==
  ASSUME Files, Jobs, NEW o \in Packager, WriteManifest(o)
  PROVE  Files' /\ Jobs'
<1>1. /\ pc[o] = "manifest" /\ UNCHANGED <<temp, final>> /\ manifest' = job[o].build /\ End(o)
  BY DEF WriteManifest, Packaging
<1>2. /\ o \in Operator /\ job[o] \in PackageJob /\ OwnParts(o) /\ Progress(o)
      /\ \A p \in Packager : pc[p] \in Packing => p = o
      /\ job[o].at = Len(Artifacts) + 1 /\ job[o].build \in Build
  BY <1>1, PackagingFacts DEF Packing, PackageJob
<1>3. \A n \in Name : final[n] = job[o].build
  <2>1. ASSUME NEW n \in Name
        PROVE  final[n] = job[o].build
    <3>1. PICK i \in 1 .. Len(Artifacts) : \E k \in 1 .. Parts[Artifacts[i]] :
                 n = <<Artifacts[i], k>>
      BY ArtifactNames
    <3>2. i \in 1 .. job[o].at - 1
      BY <1>2, ArtifactNames
    <3>3. n \in job[o].generated
      BY <1>1, <1>2, <3>1, <3>2 DEF Progress
    <3>4. QED
      BY <1>1, <1>2, <3>3 DEF OwnParts, Mine
  <2>2. QED
    BY <2>1
<1>4. Jobs' /\ pc' = [pc EXCEPT ![o] = "idle"]
  BY <1>1, <1>2, EndJobs DEF End, Goto
<1>5. ManifestBacked' /\ manifest' \in Build \cup {Nothing}
  BY <1>1, <1>2, <1>3 DEF ManifestBacked, Bundle
<1>6. Files'
  BY <1>1, <1>2, <1>4, <1>5, FilesStep, Kinds DEF Files, Packing
<1>7. QED
  BY <1>4, <1>6

LEMMA AbortFileStep ==
  ASSUME Files, Jobs, NEW o \in Packager, AbortFile(o)
  PROVE  Files' /\ Jobs'
<1>1. pc[o] = "abort" /\ UNCHANGED <<manifest, pc, job>>
  BY DEF AbortFile, Packaging
<1>2. /\ o \in Operator /\ job[o] \in PackageJob /\ OwnParts(o)
      /\ \A p \in Packager : pc[p] \in Packing => p = o
  BY <1>1, PackagingFacts DEF Packing
<1>3. Jobs'
  BY <1>1 DEF Jobs, JobTyped
<1>4. Mine(o)' = Mine(o) /\ Linked(o)' = Linked(o) /\ Mine(o) \cap Linked(o) = {}
  BY <1>1, <1>2 DEF Mine, Linked, OwnParts
<1>5. /\ temp' \in [Name -> Content \cup {Nothing}] /\ final' \in [Name -> Build \cup {Nothing}]
      /\ OwnParts(o)' /\ ManifestBacked'
  <2>1. CASE UNCHANGED final
    <3>1. temp' \in [Name -> Content \cup {Nothing}]
      BY <2>1 DEF AbortFile, Files
    <3>2. OwnParts(o)'
      BY <1>1, <1>2, <1>4, <2>1, SameParts
    <3>3. QED
      BY <1>1, <2>1, <3>1, <3>2 DEF Files, ManifestBacked, Bundle
  <2>2. CASE \E n \in Mine(o) : final' = [final EXCEPT ![n] = Nothing] /\ UNCHANGED temp
    <3>1. PICK n \in Mine(o) : final' = [final EXCEPT ![n] = Nothing] /\ UNCHANGED temp
      BY <2>2
    <3>2. n \in Name /\ manifest = Nothing
      BY <1>2 DEF Mine, PackageJob, OwnParts
    <3>3. \A m \in Name : final'[m] = IF m = n THEN Nothing ELSE final[m]
      BY <3>1, <3>2 DEF Files
    <3>4. Mine(o) \subseteq Name
      BY <1>2 DEF Mine, PackageJob
    <3>5. OwnParts(o)'
      <4>1. Linked(o) \subseteq Name /\ n \notin Linked(o)
        BY <1>1, <1>2, <1>4 DEF Linked, PackageJob
      <4>2. QED
        BY <1>1, <1>2, <1>4, <3>2, <3>3, <3>4, <4>1 DEF OwnParts
    <3>6. QED
      BY <1>1, <3>1, <3>2, <3>5 DEF Files, ManifestBacked
  <2>3. QED
    BY <2>1, <2>2 DEF AbortFile, Mine
<1>6. Progress(o)'
  BY <1>1 DEF Progress, Writing
<1>7. pc' = [pc EXCEPT ![o] = "abort"]
  BY <1>1 DEF Jobs, JobTyped
<1>8. Files'
  BY <1>1, <1>2, <1>5, <1>6, <1>7, FilesStep DEF Files, Writing
<1>9. QED
  BY <1>3, <1>8

LEMMA RemoveOutputsStep ==
  ASSUME Files, Jobs, RemoveOutputs
  PROVE  Files' /\ Jobs'
<1>1. /\ temp' = [n \in Name |-> Nothing] /\ final' = [n \in Name |-> Nothing]
      /\ manifest' = Nothing /\ UNCHANGED <<pc, job>> /\ \A p \in Packager : pc[p] = "idle"
  BY DEF RemoveOutputs
<1>2. \A p \in Packager : pc'[p] \notin Packing
  BY <1>1, Kinds
<1>3. OneRun' /\ ManifestBacked'
  BY <1>1, <1>2 DEF OneRun, ManifestBacked, Packing
<1>4. QED
  BY <1>1, <1>2, <1>3 DEF Files, Jobs, JobTyped
-----------------------------------------------------------------------------
(* The steps of staging and publishing leave the package alone.            *)
LEMMA PublishingMoves ==
  ASSUME Files, Jobs, NEW o \in Operator, NEW s, s \notin Packing, NEW j,
         pc' = [pc EXCEPT ![o] = s], job' = [job EXCEPT ![o] = j] \/ job' = job,
         UNCHANGED package
  PROVE  Files'
<1>1. \A p \in Packager : pc'[p] \in Packing => pc'[p] = pc[p] /\ job'[p] = job[p]
  BY ReleaseAssumption DEF Jobs, JobTyped
<1>2. QED
  BY <1>1, FilesFrame

(* Who looks at the assets of the release has found one.                   *)
LEMMA HubStep ==
  ASSUME Hub, Jobs, NEW o \in Operator, NEW s, pc' = [pc EXCEPT ![o] = s],
         UNCHANGED <<remote, setting, reports>>,
         told' \subseteq [action : {"staged", "published"}, build : Build],
         s \in {"list", "upload", "edit", "confirm"} => remote # Nothing
  PROVE  Hub'
<1>1. \A p \in Operator : pc'[p] = IF p = o THEN s ELSE pc[p]
  BY DEF Jobs, JobTyped
<1>2. QED
  BY <1>1 DEF Hub

LEMMA EndStep ==
  ASSUME Files, Hub, Jobs, NEW o \in Operator, End(o), UNCHANGED <<package, github, reports>>,
         told' \subseteq [action : {"staged", "published"}, build : Build]
  PROVE  Files' /\ Hub' /\ Jobs'
<1>1. pc' = [pc EXCEPT ![o] = "idle"]
  BY DEF End, Goto
<1>2. QED
  BY <1>1, EndFiles, EndJobs, HubStep

LEMMA StartStep ==
  ASSUME Files, Hub, Jobs, NEW o \in Operator, NEW b \in Build,
         StartStage(o, b) \/ StartPublish(o, b)
  PROVE  Files' /\ Hub' /\ Jobs'
<1>1. UNCHANGED <<package, github, reports, told>>
  BY DEF StartStage, StartPublish, Publishing
<1>2. CASE StartStage(o, b)
  <2> DEFINE j == [build |-> b, missing |-> {}]
  <2>1. pc' = [pc EXCEPT ![o] = "lookup"] /\ job' = [job EXCEPT ![o] = j]
    BY <1>2 DEF StartStage, Goto
  <2>2. Fits(o, "lookup", j) /\ "lookup" \notin Packing
    BY Kinds DEF Fits, StageJob, Staging
  <2> HIDE DEF j
  <2>3. QED
    BY <1>1, <2>1, <2>2, JobsStep, PublishingMoves, HubStep DEF Hub
<1>3. CASE StartPublish(o, b)
  <2> DEFINE j == [build |-> b]
  <2>1. pc' = [pc EXCEPT ![o] = "draft"] /\ job' = [job EXCEPT ![o] = j]
    BY <1>3 DEF StartPublish, Goto
  <2>2. Fits(o, "draft", j) /\ "draft" \notin Packing
    BY Kinds DEF Fits, PublishJob, Releasing
  <2> HIDE DEF j
  <2>3. QED
    BY <1>1, <2>1, <2>2, JobsStep, PublishingMoves, HubStep DEF Hub
<1>4. QED
  BY <1>2, <1>3

LEMMA FindStep ==
  ASSUME Files, Hub, Jobs, NEW o \in Operator, FindDraft(o)
  PROVE  Files' /\ Hub' /\ Jobs'
<1>1. pc[o] = "lookup" /\ UNCHANGED <<package, setting, reports>>
  BY DEF FindDraft, Publishing
<1>2. job[o] \in StageJob
  BY <1>1 DEF Jobs, JobTyped, Staging
<1>3. CASE setting /\ (remote = Nothing \/ remote.draft)
  <2> DEFINE fresh == [draft |-> TRUE, immutable |-> FALSE, assets |-> NoAssets]
  <2>1. /\ remote' = IF remote = Nothing THEN fresh ELSE remote
        /\ pc' = [pc EXCEPT ![o] = "list"] /\ UNCHANGED <<job, told>>
    BY <1>3 DEF FindDraft, Goto
  <2>2. Jobs'
    BY <1>2, <2>1, JobsGoto DEF Fits, Staging
  <2>3. Files'
    BY <1>1, <2>1, PublishingMoves, Kinds DEF Staging
  <2>4. fresh \in Release
    BY DEF Release, NoAssets
  <2>5. remote' \in Release /\ remote' # Nothing
    BY <2>1, <2>4, NothingAssumption DEF Hub
  <2>6. Hub'
    BY <1>1, <2>1, <2>5 DEF Hub
  <2>7. QED
    BY <2>2, <2>3, <2>6
<1>4. CASE ~(setting /\ (remote = Nothing \/ remote.draft))
  BY <1>1, <1>4, EndStep DEF FindDraft, Raise, Hub
<1>5. QED
  BY <1>3, <1>4

LEMMA ListStep ==
  ASSUME Files, Hub, Jobs, NEW o \in Operator, ListRemote(o)
  PROVE  Files' /\ Hub' /\ Jobs'
<1>1. pc[o] = "list" /\ UNCHANGED <<package, setting, reports>>
  BY DEF ListRemote, Publishing
<1>2. job[o] \in StageJob /\ remote # Nothing
  BY <1>1 DEF Jobs, JobTyped, Staging, Hub
<1>3. CASE \E a \in Asset : Wrong(a, job[o].build)
  BY <1>1, <1>3, EndStep DEF ListRemote, Raise, Hub
<1>4. CASE ~\E a \in Asset : Wrong(a, job[o].build)
  <2> DEFINE j == [job[o] EXCEPT !.missing = Missing(job[o].build)]
  <2>1. /\ pc' = [pc EXCEPT ![o] = "upload"] /\ job' = [job EXCEPT ![o] = j]
        /\ UNCHANGED <<remote, told>>
    BY <1>4 DEF ListRemote, Goto
  <2>2. Fits(o, "upload", j) /\ "upload" \notin Packing
    BY <1>2, Kinds DEF Fits, StageJob, Staging, Missing
  <2> HIDE DEF j
  <2>3. QED
    BY <1>1, <1>2, <2>1, <2>2, JobsStep, PublishingMoves, HubStep DEF Hub
<1>5. QED
  BY <1>3, <1>4

(* An upload adds an asset of the package directory, or fails.             *)
LEMMA UploadFacts ==
  ASSUME Files, Hub, Jobs, NEW o \in Operator, Upload(o)
  PROVE  /\ pc[o] = "upload" /\ remote # Nothing /\ remote \in Release /\ job[o] \in StageJob
         /\ UNCHANGED <<package, setting, reports, told>>
         /\ \/ End(o) /\ UNCHANGED remote
            \/ \E a \in job[o].missing :
                 /\ a \in Asset /\ remote.draft /\ remote.assets[a] = Nothing
                 /\ Local(a) \in Build
                 /\ remote' \in Release /\ remote' # Nothing
                 /\ remote'.draft = remote.draft /\ remote'.immutable = remote.immutable
                 /\ remote'.assets = [remote.assets EXCEPT ![a] = Local(a)]
                 /\ job' = [job EXCEPT ![o] = [job[o] EXCEPT !.missing = @ \ {a}]]
                 /\ UNCHANGED pc
<1>1. pc[o] = "upload" /\ UNCHANGED <<package, setting, reports, told>>
  BY DEF Upload, Publishing, Raise
<1>2. remote # Nothing /\ remote \in Release /\ job[o] \in StageJob
  BY <1>1 DEF Jobs, JobTyped, Staging, Hub
<1>3. PICK a \in job[o].missing :
        IF remote.draft /\ remote.assets[a] = Nothing /\ Local(a) # Nothing
        THEN /\ remote' = [remote EXCEPT !.assets[a] = Local(a)]
             /\ job' = [job EXCEPT ![o].missing = @ \ {a}]
             /\ UNCHANGED <<pc, told>>
        ELSE Raise(o)
  BY DEF Upload
<1>4. CASE remote.draft /\ remote.assets[a] = Nothing /\ Local(a) # Nothing
  <2>1. a \in Asset
    BY <1>2 DEF StageJob
  <2>2. Local(a) \in Build
    BY <1>4, <2>1 DEF Local, Asset, Files
  <2> DEFINE assets == [remote.assets EXCEPT ![a] = Local(a)]
             new == [draft |-> remote.draft, immutable |-> remote.immutable, assets |-> assets]
  <2>3. assets \in [Asset -> Build \cup {Nothing}]
    BY <1>2, <2>1, <2>2 DEF Release
  <2>4. remote' = new
    BY <1>2, <1>3, <1>4 DEF Release
  <2>5. new \in Release
    BY <1>2, <2>3 DEF Release
  <2>6. job' = [job EXCEPT ![o] = [job[o] EXCEPT !.missing = @ \ {a}]] /\ UNCHANGED pc
    BY <1>3, <1>4
  <2>7. QED
    BY <1>1, <1>2, <1>4, <2>1, <2>2, <2>4, <2>5, <2>6, NothingAssumption
<1>5. CASE ~(remote.draft /\ remote.assets[a] = Nothing /\ Local(a) # Nothing)
  BY <1>1, <1>2, <1>3, <1>5 DEF Raise
<1>6. QED
  BY <1>4, <1>5

LEMMA UploadStep ==
  ASSUME Files, Hub, Jobs, NEW o \in Operator, Upload(o)
  PROVE  Files' /\ Hub' /\ Jobs'
<1>1. CASE End(o) /\ UNCHANGED remote
  BY <1>1, UploadFacts, EndStep DEF Hub
<1>2. CASE ~(End(o) /\ UNCHANGED remote)
  <2>1. PICK a \in job[o].missing :
          /\ remote' \in Release /\ remote' # Nothing
          /\ job' = [job EXCEPT ![o] = [job[o] EXCEPT !.missing = @ \ {a}]]
          /\ UNCHANGED pc
    BY <1>2, UploadFacts
  <2>2. /\ pc[o] = "upload" /\ job[o] \in StageJob
        /\ UNCHANGED <<package, setting, reports, told>>
    BY UploadFacts
  <2> DEFINE j == [job[o] EXCEPT !.missing = @ \ {a}]
  <2>3. job' = [job EXCEPT ![o] = j] /\ pc' = [pc EXCEPT ![o] = "upload"]
    BY <2>1, <2>2 DEF Jobs, JobTyped
  <2>4. Fits(o, "upload", j) /\ "upload" \notin Packing
    BY <2>2, Kinds DEF Fits, StageJob, Staging
  <2> HIDE DEF j
  <2>5. Files' /\ Jobs'
    BY <2>2, <2>3, <2>4, JobsStep, PublishingMoves
  <2>6. Hub'
    BY <2>1, <2>2 DEF Hub
  <2>7. QED
    BY <2>5, <2>6
<1>3. QED
  BY <1>1, <1>2

LEMMA StagedStep ==
  ASSUME Files, Hub, Jobs, NEW o \in Operator, Staged(o)
  PROVE  Files' /\ Hub' /\ Jobs'
<1>1. pc[o] = "upload" /\ End(o) /\ UNCHANGED <<package, github, reports>>
  BY DEF Staged, Publishing
<1>2. job[o].build \in Build
  BY <1>1 DEF Jobs, JobTyped, Staging, StageJob
<1>3. told' \subseteq [action : {"staged", "published"}, build : Build]
  BY <1>2 DEF Staged, Hub
<1>4. QED
  BY <1>1, <1>3, EndStep

LEMMA ConfirmStep ==
  ASSUME Files, Hub, Jobs, NEW o \in Operator, Confirm(o)
  PROVE  Files' /\ Hub' /\ Jobs'
<1>1. pc[o] = "confirm" /\ End(o) /\ UNCHANGED <<package, github, reports>>
  BY DEF Confirm, Publishing
<1>2. job[o].build \in Build
  BY <1>1 DEF Jobs, JobTyped, Releasing, PublishJob
<1>3. told' \subseteq [action : {"staged", "published"}, build : Build]
  BY <1>2 DEF Confirm, Hub
<1>4. QED
  BY <1>1, <1>3, EndStep

LEMMA CheckStep ==
  ASSUME Files, Hub, Jobs, NEW o \in Operator, CheckDraft(o)
  PROVE  Files' /\ Hub' /\ Jobs'
<1>1. pc[o] = "draft" /\ UNCHANGED <<package, setting, reports, remote, told>>
  BY DEF CheckDraft, Publishing, Raise
<1>2. job[o] \in PublishJob
  BY <1>1 DEF Jobs, JobTyped, Releasing
<1>3. CASE End(o)
  BY <1>1, <1>3, EndStep DEF Hub
<1>4. CASE ~End(o)
  <2>1. pc' = [pc EXCEPT ![o] = "edit"] /\ job' = job /\ remote # Nothing
    BY <1>4 DEF CheckDraft, Raise, Goto
  <2>2. Fits(o, "edit", job[o]) /\ "edit" \notin Packing
    BY <1>2, Kinds DEF Fits, Releasing
  <2>3. QED
    BY <1>1, <2>1, <2>2, JobsGoto, PublishingMoves, HubStep DEF Hub
<1>5. QED
  BY <1>3, <1>4

LEMMA EditFacts ==
  ASSUME Hub, NEW o \in Operator, Edit(o)
  PROVE  /\ pc[o] = "edit" /\ pc' = [pc EXCEPT ![o] = "confirm"]
         /\ UNCHANGED <<package, setting, reports, job, told>>
         /\ remote \in Release /\ remote' \in Release /\ remote # Nothing /\ remote' # Nothing
         /\ remote'.draft = FALSE /\ remote'.assets = remote.assets
         /\ remote.immutable => remote'.immutable
<1>1. /\ pc[o] = "edit" /\ pc' = [pc EXCEPT ![o] = "confirm"]
      /\ UNCHANGED <<package, setting, reports, job, told>>
  BY DEF Edit, Publishing, Goto
<1>2. remote # Nothing /\ remote \in Release
  BY <1>1 DEF Hub
<1>3. /\ remote' \in Release /\ remote'.draft = FALSE /\ remote'.assets = remote.assets
      /\ remote.immutable => remote'.immutable
  BY <1>2 DEF Edit, Release, Hub
<1>4. QED
  BY <1>1, <1>2, <1>3, NothingAssumption

LEMMA EditStep ==
  ASSUME Files, Hub, Jobs, NEW o \in Operator, Edit(o)
  PROVE  Files' /\ Hub' /\ Jobs'
<1>1. job[o] \in PublishJob
  BY EditFacts DEF Jobs, JobTyped, Releasing
<1>2. Fits(o, "confirm", job[o]) /\ "confirm" \notin Packing
  BY <1>1, Kinds DEF Fits, Releasing
<1>3. Files' /\ Jobs'
  BY <1>2, EditFacts, JobsGoto, PublishingMoves
<1>4. Hub'
  BY EditFacts DEF Hub
<1>5. QED
  BY <1>3, <1>4
-----------------------------------------------------------------------------
LEMMA InitPackageInv == Init => PackageInv
<1> SUFFICES ASSUME Init
             PROVE  PackageInv
  OBVIOUS
<1>1. \A o \in Operator : pc[o] = "idle" /\ job[o] = Nothing
  BY DEF Init
<1>2. \A o \in Packager : pc[o] \notin Packing
  BY <1>1, Kinds, ReleaseAssumption
<1>3. OneRun
  BY <1>2 DEF OneRun, Packing
<1>4. Files
  BY <1>2, <1>3 DEF Init, Files, ManifestBacked
<1>5. Hub
  BY <1>1 DEF Init, Hub
<1>6. Jobs
  BY <1>1, Kinds DEF Init, Jobs, JobTyped
<1>7. Counted
  BY ReleaseAssumption DEF Init, Counted
<1>8. QED
  BY <1>4, <1>5, <1>6, <1>7, Split

LEMMA HubFrame ==
  ASSUME Hub, UNCHANGED <<remote, setting, told>>, reports' \subseteq Build,
         \A p \in Operator : pc'[p] \in {"list", "upload", "edit", "confirm"} => pc'[p] = pc[p]
  PROVE  Hub'
BY DEF Hub

LEMMA PackagingHub ==
  ASSUME Hub, Jobs, NEW o \in Packager,
         PackageStep(o) \/ FailPackage(o) \/ \E b \in Build : StartPackage(o, b)
  PROVE  /\ Hub' /\ UNCHANGED <<remote, reports, told>>
         /\ \A p \in Operator : pc'[p] \in Releasing => pc'[p] = pc[p] /\ job'[p] = job[p]
<1>1. UNCHANGED <<remote, setting, reports, told>>
  BY DEF PackageStep, OpenPart, FillPart, LinkPart, UnlinkTemporary, WriteManifest, AbortFile,
         Aborted, FailPackage, StartPackage, Packaging
<1>2. \E s \in Packing \cup {"idle"} : pc' = [pc EXCEPT ![o] = s]
  <2>1. CASE AbortFile(o)
    <3>1. pc[o] = "abort" /\ pc' = pc
      BY <2>1 DEF AbortFile, Packaging
    <3>2. pc' = [pc EXCEPT ![o] = "abort"]
      BY <3>1 DEF Jobs, JobTyped
    <3>3. QED
      BY <3>2 DEF Packing
  <2>2. CASE OpenPart(o) \/ FillPart(o) \/ LinkPart(o)
    BY <2>2 DEF OpenPart, FillPart, LinkPart, Goto, Packing, Writing
  <2>3. CASE UnlinkTemporary(o)
    BY <2>3 DEF UnlinkTemporary, Goto, Packing, Writing
  <2>4. CASE WriteManifest(o) \/ Aborted(o) \/ FailPackage(o) \/ \E b \in Build : StartPackage(o, b)
    BY <2>4 DEF WriteManifest, Aborted, FailPackage, StartPackage, End, Goto, Packing, Writing
  <2>5. QED
    BY <2>1, <2>2, <2>3, <2>4 DEF PackageStep
<1>3. \E j : job' = job \/ job' = [job EXCEPT ![o] = j]
  <2>1. CASE OpenPart(o) \/ FillPart(o) \/ LinkPart(o) \/ AbortFile(o)
    BY <2>1 DEF OpenPart, FillPart, LinkPart, AbortFile
  <2>2. CASE UnlinkTemporary(o)
    BY <2>2 DEF UnlinkTemporary
  <2>3. CASE WriteManifest(o) \/ Aborted(o) \/ FailPackage(o) \/ \E b \in Build : StartPackage(o, b)
    BY <2>3 DEF WriteManifest, Aborted, FailPackage, StartPackage, End
  <2>4. QED
    BY <2>1, <2>2, <2>3 DEF PackageStep
<1>4. \A p \in Operator : p # o => pc'[p] = pc[p] /\ job'[p] = job[p]
  BY <1>2, <1>3 DEF Jobs, JobTyped
<1>5. o \in Operator /\ pc'[o] \in Packing \cup {"idle"}
  BY <1>2, ReleaseAssumption DEF Jobs, JobTyped
<1>6. \A p \in Operator : pc'[p] \in Releasing => pc'[p] = pc[p] /\ job'[p] = job[p]
  BY <1>4, <1>5, Kinds
<1>7. \A p \in Operator : pc'[p] \in {"list", "upload", "edit", "confirm"} => pc'[p] = pc[p]
  BY <1>4, <1>5, Kinds DEF Staging, Releasing
<1>8. Hub'
  <2>1. reports' \subseteq Build
    BY <1>1 DEF Hub
  <2>2. QED
    BY <1>1, <1>7, <2>1, HubFrame
<1>9. QED
  BY <1>1, <1>6, <1>8

LEMMA NextPackageInv == PackageInv /\ [Next]_vars => PackageInv'
<1> SUFFICES ASSUME PackageInv, [Next]_vars
             PROVE  PackageInv'
  OBVIOUS
<1>1. Files /\ Hub /\ Jobs
  BY Split
<1>2. ASSUME NEW o \in Packager,
             PackageStep(o) \/ FailPackage(o) \/ \E b \in Build : StartPackage(o, b)
      PROVE  Files' /\ Hub' /\ Jobs'
  <2>1. Hub'
    BY <1>1, <1>2, PackagingHub
  <2>2. CASE \E b \in Build : StartPackage(o, b)
    BY <1>1, <2>1, <2>2, StartPackageStep
  <2>3. CASE FailPackage(o)
    BY <1>1, <2>1, <2>3, AbortStep DEF FailPackage, Goto
  <2>4. CASE Aborted(o)
    BY <1>1, <2>1, <2>4, ReleaseAssumption, EndFiles, EndJobs DEF Aborted, Packaging
  <2>5. CASE OpenPart(o) \/ FillPart(o) \/ LinkPart(o) \/ UnlinkTemporary(o)
    BY <1>1, <2>1, <2>5, OpenStep, FillStep, LinkStep, UnlinkStep
  <2>6. CASE WriteManifest(o) \/ AbortFile(o)
    BY <1>1, <2>1, <2>6, ManifestStep, AbortFileStep
  <2>7. QED
    BY <1>2, <2>2, <2>3, <2>4, <2>5, <2>6 DEF PackageStep
<1>3. ASSUME NEW o \in Operator, NEW b \in Build, StartStage(o, b) \/ StartPublish(o, b)
      PROVE  Files' /\ Hub' /\ Jobs'
  BY <1>1, <1>3, StartStep
<1>4. ASSUME NEW o \in Operator, PublishStep(o)
      PROVE  Files' /\ Hub' /\ Jobs'
  BY <1>1, <1>4, FindStep, ListStep, UploadStep, StagedStep, CheckStep, EditStep, ConfirmStep
  DEF PublishStep
<1>5. ASSUME NEW o \in Operator, Kill(o)
      PROVE  Files' /\ Hub' /\ Jobs'
  <2>1. End(o) /\ UNCHANGED <<package, github, reports, told>>
    BY <1>5 DEF Kill
  <2>2. QED
    BY <1>1, <2>1, EndStep DEF Hub
<1>6. ASSUME RemoveOutputs
      PROVE  Files' /\ Hub' /\ Jobs'
  <2>1. UNCHANGED <<pc, remote, setting, told, reports>>
    BY <1>6 DEF RemoveOutputs
  <2>2. QED
    BY <1>1, <1>6, <2>1, RemoveOutputsStep DEF Hub
<1>7. ASSUME (\E b \in Build : Accept(b)) \/ ChangeSetting \/ UNCHANGED vars
      PROVE  Files' /\ Hub' /\ Jobs'
  <2>1. /\ UNCHANGED <<package, pc, job, remote, told>> /\ setting' \in BOOLEAN
        /\ reports' \subseteq Build
    BY <1>1, <1>7 DEF Accept, ChangeSetting, vars, Hub
  <2>2. Files'
    BY <1>1, <2>1, FilesFrame
  <2>3. QED
    BY <1>1, <2>1, <2>2 DEF Hub, Jobs, JobTyped
<1>8. Files' /\ Hub' /\ Jobs'
  BY <1>2, <1>3, <1>4, <1>5, <1>6, <1>7 DEF Next
<1>9. Counted'
  <2>1. faults' = faults \/ (faults < MaxFaults /\ faults' = faults + 1)
    <3>1. ASSUME NEW o, PackageStep(o) \/ FailPackage(o)
          PROVE  faults' = faults \/ (faults < MaxFaults /\ faults' = faults + 1)
      BY <3>1
      DEF PackageStep, FailPackage, OpenPart, FillPart, LinkPart, UnlinkTemporary, WriteManifest,
          AbortFile, Aborted, Packaging
    <3>2. ASSUME NEW o, PublishStep(o)
          PROVE  faults' = faults
      BY <3>2
      DEF PublishStep, FindDraft, ListRemote, Upload, Staged, CheckDraft, Edit, Confirm, Publishing
    <3>3. ASSUME NEW o, NEW b, StartPackage(o, b) \/ StartStage(o, b) \/ StartPublish(o, b)
          PROVE  faults' = faults
      BY <3>3 DEF StartPackage, StartStage, StartPublish, Publishing
    <3>4. QED
      BY <3>1, <3>2, <3>3 DEF Next, Kill, Accept, RemoveOutputs, ChangeSetting, vars
  <2>2. QED
    BY <2>1, Split, ReleaseAssumption DEF Counted
<1>10. QED
  BY <1>8, <1>9, SplitPrimed

(* What packaging keeps at every step: each run touches only the parts it  *)
(* made itself, and knows how far it is (pipeline/release.py,              *)
(* pipeline/manifest.py).                                                  *)
THEOREM PackageInvariant == Spec => []PackageInv
<1>1. QED
  BY InitPackageInv, NextPackageInv, PTL DEF Spec

(* Whatever is killed or fails, manifest.json stands only beside all the   *)
(* parts it names, whole: package_packs writes it last, and removes none   *)
(* of the parts an earlier run left.                                       *)
THEOREM PackageAlwaysSound == Spec => []PackageSound
<1>1. PackageInv => PackageSound
  BY DEF PackageInv
<1>2. QED
  BY <1>1, PackageInvariant, PTL

(* A packaging run that fails and is not killed leaves the parts it found, *)
(* and of its own at most the one it had linked and not yet noted          *)
(* (package_packs' and _SplitPartWriter's cleanup).                        *)
THEOREM FailuresRestore == Spec => FailureRestores
<1> DEFINE Restored == \A o \in Packager : pc[o] = "abort" /\ pc'[o] = "idle" /\ faults' = faults =>
    /\ final' = [n \in Name |-> IF n \in job[o].loose THEN job[o].build ELSE job[o].found[n]]
    /\ \A n \in job[o].loose : job[o].found[n] = Nothing
<1>1. PackageInv /\ [Next]_vars => [Restored]_vars
  <2> SUFFICES ASSUME PackageInv, Next, NEW o \in Packager,
                      pc[o] = "abort", pc'[o] = "idle", faults' = faults
               PROVE  /\ final' = [n \in Name |-> IF n \in job[o].loose THEN job[o].build
                                                                      ELSE job[o].found[n]]
                      /\ \A n \in job[o].loose : job[o].found[n] = Nothing
    BY DEF vars
  <2>1. Files /\ Hub /\ Jobs
    BY Split
  <2>2. /\ o \in Operator /\ job[o] \in PackageJob /\ OwnParts(o)
        /\ \A p \in Packager : pc[p] \in Packing => p = o
    BY <2>1, PackagingFacts DEF Packing
  <2>3. PICK p \in Operator : \/ p \in Packager /\ (PackageStep(p) \/ FailPackage(p))
                              \/ PublishStep(p) \/ Kill(p)
                              \/ \E b \in Build : StartStage(p, b) \/ StartPublish(p, b)
                                                \/ (p \in Packager /\ StartPackage(p, b))
    BY <2>2, ReleaseAssumption DEF Next, Accept, RemoveOutputs, ChangeSetting
  <2>4. p = o
    <3>1. ASSUME p # o
          PROVE  pc'[o] = pc[o]
      <4>1. CASE p \in Packager /\ (PackageStep(p) \/ FailPackage(p))
        BY <2>2, <3>1, <4>1
        DEF PackageStep, FailPackage, OpenPart, FillPart, LinkPart, UnlinkTemporary, WriteManifest,
            AbortFile, Aborted, Packaging, Packing, Writing
      <4>2. CASE Kill(p) \/ \E b \in Build : StartStage(p, b) \/ StartPublish(p, b)
                                            \/ (p \in Packager /\ StartPackage(p, b))
        BY <2>1, <2>2, <3>1, <4>2
        DEF Kill, StartStage, StartPublish, StartPackage, End, Goto, Jobs, JobTyped
      <4>3. CASE PublishStep(p)
        BY <2>1, <2>2, <3>1, <4>3
        DEF PublishStep, FindDraft, ListRemote, Upload, Staged, CheckDraft, Edit, Confirm, Raise,
            End, Goto, Jobs, JobTyped
      <4>4. QED
        BY <2>3, <4>1, <4>2, <4>3
    <3>2. QED
      BY <3>1
  <2>5. Aborted(o)
    <3>1. ~PublishStep(o)
      BY DEF PublishStep, FindDraft, ListRemote, Upload, Staged, CheckDraft, Edit, Confirm,
             Publishing
    <3>2. ~\E b \in Build : StartStage(o, b) \/ StartPublish(o, b) \/ StartPackage(o, b)
      BY DEF StartStage, StartPublish, StartPackage, Publishing
    <3>3. ~Kill(o) /\ ~FailPackage(o)
      <4>1. Kill(o) => faults < MaxFaults /\ faults' = faults + 1
        BY DEF Kill
      <4>2. ASSUME FailPackage(o)
            PROVE  FALSE
        BY <4>2 DEF FailPackage
      <4>3. faults \in Nat
        BY Split, ReleaseAssumption DEF Counted
      <4>4. QED
        BY <4>1, <4>2, <4>3
    <3>4. ~OpenPart(o) /\ ~FillPart(o) /\ ~LinkPart(o) /\ ~UnlinkTemporary(o)
          /\ ~WriteManifest(o) /\ ~AbortFile(o)
      BY DEF OpenPart, FillPart, LinkPart, UnlinkTemporary, WriteManifest, AbortFile, Packaging
    <3>5. QED
      BY <2>3, <2>4, <3>1, <3>2, <3>3, <3>4 DEF PackageStep
  <2>6. final' = final /\ \A n \in Mine(o) : final[n] = Nothing
    BY <2>5 DEF Aborted, Mine
  <2>7. /\ \A n \in Name : final[n] = IF n \in job[o].loose THEN job[o].build
                                                              ELSE job[o].found[n]
        /\ \A n \in job[o].loose : job[o].found[n] = Nothing
    <3>1. Linked(o) = job[o].loose /\ Mine(o) \subseteq Name
      BY <2>2 DEF Linked, Mine, PackageJob
    <3>2. QED
      BY <2>2, <2>6, <3>1 DEF OwnParts
  <2>8. final \in [Name -> Build \cup {Nothing}]
    BY <2>1 DEF Files
  <2>9. QED
    BY <2>6, <2>7, <2>8
<1>2. QED
  BY <1>1, PackageInvariant, PTL DEF Spec, FailureRestores
-----------------------------------------------------------------------------
(* The assets pass the checks when they show as the build's.               *)
LEMMA AllTold ==
  ASSUME remote # Nothing, NEW b \in Build,
         Missing(b) = {}, \A a \in Asset : ~Wrong(a, b)
  PROVE  AllOf(b)
BY DEF AllOf, ShownAs, Missing, Wrong

(* Who does not touch the release, nor begin to publish it.                *)
LEMMA PublishFrame ==
  ASSUME PublishInv, UNCHANGED <<remote, told>>, reports \subseteq reports',
         \A p \in Operator : pc'[p] \in Releasing => pc'[p] = pc[p] /\ job'[p] = job[p]
  PROVE  PublishInv'
<1>1. PublishedSound'
  BY DEF PublishInv, PublishedSound, PublishedAccepted, ReportsTrue, ShownAs
<1>2. ASSUME NEW p \in Operator, pc'[p] \in Releasing
      PROVE  /\ job'[p].build \in reports'
             /\ pc'[p] \in {"edit", "confirm"} => AllOf(job[p].build)'
             /\ pc'[p] = "confirm" => ~remote'.draft
  BY <1>2 DEF PublishInv, AllOf, ShownAs
<1>3. \A p \in Operator : pc'[p] \in {"edit", "confirm"} => pc'[p] \in Releasing
  BY DEF Releasing
<1>4. QED
  BY <1>1, <1>2, <1>3 DEF PublishInv

(* A publishing step of o moves nobody else.                               *)
LEMMA OthersStay ==
  ASSUME Jobs, NEW o \in Operator, PublishStep(o)
  PROVE  \A p \in Operator : p # o => pc'[p] = pc[p] /\ job'[p] = job[p]
<1>1. pc' = pc \/ \E s : pc' = [pc EXCEPT ![o] = s]
  BY DEF PublishStep, FindDraft, ListRemote, Upload, Staged, CheckDraft, Edit, Confirm, Raise, End,
         Goto
<1>2. job' = job \/ \E j : job' = [job EXCEPT ![o] = j]
  BY DEF PublishStep, FindDraft, ListRemote, Upload, Staged, CheckDraft, Edit, Confirm, Raise, End
<1>3. QED
  BY <1>1, <1>2 DEF Jobs, JobTyped

(* An asset that is added changes nothing that is complete.                *)
LEMMA GrowsInv ==
  ASSUME Files, Hub, Jobs, PublishInv, NEW o \in Operator, FindDraft(o) \/ Upload(o)
  PROVE  PublishInv'
<1>1. \A p \in Operator : pc'[p] \in Releasing => pc'[p] = pc[p] /\ job'[p] = job[p]
  <2>1. \A p \in Operator : p # o => pc'[p] = pc[p] /\ job'[p] = job[p]
    BY OthersStay DEF PublishStep
  <2>2. pc'[o] \notin Releasing
    BY DEF FindDraft, Upload, Publishing, Raise, End, Goto, Releasing, Jobs, JobTyped
  <2>3. QED
    BY <2>1, <2>2
<1>2. UNCHANGED <<told, reports>>
  BY DEF FindDraft, Upload, Publishing, Raise
<1>3. CASE remote' = remote
  BY <1>1, <1>2, <1>3, PublishFrame
<1>4. CASE remote = Nothing /\ remote' # remote
  <2>1. told = {} /\ \A p \in Operator : pc[p] \notin {"edit", "confirm"}
    BY <1>4 DEF PublishInv, PublishedSound, ReportsTrue, AllOf, ShownAs
  <2>2. remote'.draft /\ ~remote'.immutable
    BY <1>4, UploadFacts DEF FindDraft, Raise
  <2>3. PublishedSound'
    BY <1>2, <2>1, <2>2 DEF PublishedSound, PublishedAccepted, ReportsTrue, ShownAs
  <2>4. QED
    BY <1>1, <1>2, <2>1, <2>2, <2>3 DEF PublishInv, Releasing
<1>5. CASE remote # Nothing /\ remote' # remote
  <2>1. Upload(o)
    BY <1>5 DEF FindDraft, Raise
  <2>2. PICK a \in Asset : remote.draft /\ remote'.draft = remote.draft /\ remote.assets[a] = Nothing
                            /\ remote'.immutable = remote.immutable /\ remote' # Nothing
    BY <1>5, <2>1, UploadFacts
  <2>3. \A b \in Build : ~AllOf(b)
    BY <2>2, Contents DEF AllOf, ShownAs
  <2>4. told = {}
    BY <1>5, <2>2, Contents DEF PublishInv, PublishedSound, ReportsTrue, ShownAs, Hub
  <2>5. \A p \in Operator : pc[p] \notin {"edit", "confirm"}
    BY <2>3 DEF PublishInv, Jobs, JobTyped, Releasing, PublishJob
  <2>6. PublishedSound'
    BY <1>2, <2>2, <2>4 DEF PublishedSound, PublishedAccepted, ReportsTrue, ShownAs
  <2>7. remote'.immutable => ~remote'.draft
    BY <1>5, <2>2 DEF PublishInv
  <2>8. \A p \in Operator : pc'[p] \in Releasing => job'[p].build \in reports'
    BY <1>1, <1>2 DEF PublishInv
  <2>9. \A p \in Operator : pc'[p] \notin {"edit", "confirm"}
    BY <1>1, <2>5 DEF Releasing
  <2>10. QED
    BY <2>6, <2>7, <2>8, <2>9 DEF PublishInv
<1>6. QED
  BY <1>3, <1>4, <1>5

(* What is reported has been checked.                                      *)
LEMMA StagedInv ==
  ASSUME Hub, Jobs, PublishInv, NEW o \in Operator, Staged(o)
  PROVE  PublishInv'
<1>1. /\ pc[o] = "upload" /\ End(o) /\ UNCHANGED <<remote, reports>>
      /\ remote # Nothing /\ remote \in Release /\ job[o].build \in Build
  BY DEF Staged, Publishing, Hub, Jobs, JobTyped, Staging, StageJob
<1>2. \A p \in Operator : pc'[p] \in Releasing => pc'[p] = pc[p] /\ job'[p] = job[p]
  BY <1>1, EndJobs, Kinds
<1>3. told' = told \/ (AllOf(job[o].build)
                       /\ told' = told \cup {[action |-> "staged", build |-> job[o].build]})
  BY <1>1, AllTold DEF Staged
<1>4. PublishedSound'
  BY <1>1, <1>3 DEF PublishInv, PublishedSound, PublishedAccepted, ReportsTrue, AllOf, ShownAs
<1>5. QED
  BY <1>1, <1>2, <1>4 DEF PublishInv, AllOf, ShownAs, Releasing

LEMMA ConfirmInv ==
  ASSUME Hub, Jobs, PublishInv, NEW o \in Operator, Confirm(o)
  PROVE  PublishInv'
<1>1. /\ pc[o] = "confirm" /\ End(o) /\ UNCHANGED <<remote, reports>>
      /\ AllOf(job[o].build) /\ ~remote.draft
  BY DEF Confirm, Publishing, PublishInv
<1>2. \A p \in Operator : pc'[p] \in Releasing => pc'[p] = pc[p] /\ job'[p] = job[p]
  BY <1>1, EndJobs, Kinds
<1>3. told' = told \/ (remote.immutable
                       /\ told' = told \cup {[action |-> "published", build |-> job[o].build]})
  BY DEF Confirm
<1>4. PublishedSound'
  BY <1>1, <1>3 DEF PublishInv, PublishedSound, PublishedAccepted, ReportsTrue, AllOf, ShownAs
<1>5. QED
  BY <1>1, <1>2, <1>4 DEF PublishInv, AllOf, ShownAs, Releasing

(* A draft whose assets are all the accepted build's cannot become another *)
(* before it is published.                                                 *)
LEMMA CheckInv ==
  ASSUME Hub, Jobs, PublishInv, NEW o \in Operator, CheckDraft(o)
  PROVE  PublishInv'
<1>1. pc[o] = "draft" /\ UNCHANGED <<remote, reports, told>> /\ job[o] \in PublishJob
  BY DEF CheckDraft, Publishing, Raise, Jobs, JobTyped, Releasing
<1>2. CASE End(o)
  <2>1. \A p \in Operator : pc'[p] \in Releasing => pc'[p] = pc[p] /\ job'[p] = job[p]
    BY <1>2, EndJobs, Kinds
  <2>2. QED
    BY <1>1, <2>1, PublishFrame
<1>3. CASE ~End(o)
  <2>1. /\ pc' = [pc EXCEPT ![o] = "edit"] /\ job' = job /\ remote # Nothing
        /\ Missing(job[o].build) = {} /\ \A a \in Asset : ~Wrong(a, job[o].build)
    BY <1>3 DEF CheckDraft, Raise, Goto
  <2>2. AllOf(job[o].build)
    BY <1>1, <2>1, AllTold DEF Hub, PublishJob
  <2>3. \A p \in Operator : pc'[p] = IF p = o THEN "edit" ELSE pc[p]
    BY <2>1 DEF Jobs, JobTyped
  <2>4. PublishedSound'
    BY <1>1 DEF PublishInv, PublishedSound, PublishedAccepted, ReportsTrue, ShownAs
  <2>5. QED
    BY <1>1, <2>1, <2>2, <2>3, <2>4 DEF PublishInv, AllOf, ShownAs, Releasing
<1>4. QED
  BY <1>2, <1>3

LEMMA EditInv ==
  ASSUME Hub, Jobs, PublishInv, NEW o \in Operator, Edit(o)
  PROVE  PublishInv'
<1>1. /\ pc[o] = "edit" /\ pc' = [pc EXCEPT ![o] = "confirm"]
      /\ UNCHANGED <<reports, job, told>> /\ remote' # Nothing /\ remote # Nothing
      /\ ~remote'.draft /\ remote'.assets = remote.assets
      /\ remote.immutable => remote'.immutable
  BY EditFacts
<1>2. AllOf(job[o].build) /\ job[o].build \in reports
  BY <1>1 DEF PublishInv, Releasing
<1>3. \A b : AllOf(b) => AllOf(b)'
  BY <1>1 DEF AllOf, ShownAs
<1>4. \A p \in Operator : pc'[p] = IF p = o THEN "confirm" ELSE pc[p]
  BY <1>1 DEF Jobs, JobTyped
<1>5. PublishedSound'
  BY <1>1, <1>2 DEF PublishInv, PublishedSound, PublishedAccepted, ReportsTrue, AllOf, ShownAs
<1>6. \A p \in Operator :
        /\ pc'[p] \in Releasing => job'[p].build \in reports'
        /\ pc'[p] \in {"edit", "confirm"} => AllOf(job[p].build)
        /\ pc'[p] = "confirm" => ~remote'.draft
  BY <1>1, <1>2, <1>4 DEF PublishInv
<1>7. \A p \in Operator : pc'[p] \in {"edit", "confirm"} => AllOf(job[p].build)'
  BY <1>1, <1>6 DEF AllOf, ShownAs
<1>8. QED
  BY <1>1, <1>5, <1>6, <1>7 DEF PublishInv

LEMMA NextPublishInv == PackageInv /\ PublishInv /\ [Next]_vars => PublishInv'
<1> SUFFICES ASSUME PackageInv, PublishInv, [Next]_vars
             PROVE  PublishInv'
  OBVIOUS
<1>1. Files /\ Hub /\ Jobs
  BY Split
<1>2. ASSUME NEW o \in Packager,
             PackageStep(o) \/ FailPackage(o) \/ \E b \in Build : StartPackage(o, b)
      PROVE  PublishInv'
  BY <1>1, <1>2, PackagingHub, PublishFrame
<1>3. ASSUME NEW o \in Operator, NEW b \in Build, StartStage(o, b)
      PROVE  PublishInv'
  <2>1. /\ pc' = [pc EXCEPT ![o] = "lookup"] /\ UNCHANGED <<remote, told, reports>>
        /\ job' = [job EXCEPT ![o] = [build |-> b, missing |-> {}]]
    BY <1>3 DEF StartStage, Publishing, Goto
  <2>2. \A p \in Operator : pc'[p] \in Releasing => pc'[p] = pc[p] /\ job'[p] = job[p]
    BY <1>1, <2>1 DEF Releasing, Jobs, JobTyped
  <2>3. QED
    BY <2>1, <2>2, PublishFrame
<1>4. ASSUME NEW o \in Operator, NEW b \in Build, StartPublish(o, b)
      PROVE  PublishInv'
  <2>1. /\ pc' = [pc EXCEPT ![o] = "draft"] /\ UNCHANGED <<remote, told, reports>>
        /\ job' = [job EXCEPT ![o] = [build |-> b]] /\ b \in reports
    BY <1>4 DEF StartPublish, Publishing, Goto
  <2>2. \A p \in Operator : /\ pc'[p] = (IF p = o THEN "draft" ELSE pc[p])
                           /\ job'[p] = (IF p = o THEN [build |-> b] ELSE job[p])
    BY <1>1, <2>1 DEF Jobs, JobTyped
  <2>3. PublishedSound'
    BY <2>1 DEF PublishInv, PublishedSound, PublishedAccepted, ReportsTrue, ShownAs
  <2>4. ASSUME NEW p \in Operator, p # o
        PROVE  /\ pc'[p] \in Releasing => job'[p].build \in reports'
               /\ pc'[p] \in {"edit", "confirm"} => AllOf(job[p].build)'
               /\ pc'[p] = "confirm" => ~remote'.draft
    BY <2>1, <2>2, <2>4 DEF PublishInv, AllOf, ShownAs
  <2>5. pc'[o] = "draft" /\ job'[o].build \in reports'
    BY <2>1, <2>2
  <2>6. QED
    BY <2>1, <2>3, <2>4, <2>5 DEF PublishInv
<1>5. ASSUME NEW o \in Operator, ListRemote(o)
      PROVE  PublishInv'
  <2>1. UNCHANGED <<remote, reports, told>>
    BY <1>5 DEF ListRemote, Publishing, Raise
  <2>2. \A p \in Operator : p # o => pc'[p] = pc[p] /\ job'[p] = job[p]
    BY <1>1, <1>5, OthersStay DEF PublishStep
  <2>3. pc'[o] \notin Releasing
    BY <1>1, <1>5 DEF ListRemote, Raise, End, Goto, Releasing, Jobs, JobTyped
  <2>4. QED
    BY <2>1, <2>2, <2>3, PublishFrame
<1>6. ASSUME NEW o \in Operator, PublishStep(o), ~ListRemote(o)
      PROVE  PublishInv'
  BY <1>1, <1>6, GrowsInv, StagedInv, ConfirmInv, CheckInv, EditInv DEF PublishStep
<1>7. ASSUME NEW o \in Operator, Kill(o)
      PROVE  PublishInv'
  <2>1. End(o) /\ UNCHANGED <<remote, told, reports>>
    BY <1>7 DEF Kill
  <2>2. QED
    BY <1>1, <2>1, EndJobs, Kinds, PublishFrame
<1>8. ASSUME (\E b \in Build : Accept(b)) \/ RemoveOutputs \/ ChangeSetting \/ UNCHANGED vars
      PROVE  PublishInv'
  BY <1>8, PublishFrame DEF Accept, RemoveOutputs, ChangeSetting, vars
<1>9. QED
  BY <1>2, <1>3, <1>4, <1>5, <1>6, <1>7, <1>8 DEF Next

(* What is published shows as one whole accepted build, and what the       *)
(* commands of publish_data_release.py report is so and stays so, whoever  *)
(* else stages or publishes meanwhile; GitHub shows sizes, and digests if  *)
(* it has them.                                                            *)
THEOREM PublishedAlwaysSound == Spec => []PublishedSound
<1>1. Init => PublishInv
  BY Kinds DEF Init, PublishInv, PublishedSound, PublishedAccepted, ReportsTrue, ShownAs, Releasing
<1>2. PackageInv /\ PublishInv /\ [Next]_vars => PublishInv'
  BY NextPublishInv
<1>3. PublishInv => PublishedSound
  BY DEF PublishInv
<1>4. QED
  BY <1>1, <1>2, <1>3, PackageInvariant, PTL DEF Spec
=============================================================================
