--------------------------- MODULE PackRouterProofs ---------------------------
(***************************************************************************)
(* Proofs about the caches of the server: for any number of search         *)
(* threads, languages, packs and places, what an eviction closes is not    *)
(* used again, where the README says that holds.                           *)
(***************************************************************************)
EXTENDS PackRouter, FiniteSetTheorems, SequenceTheorems, TLAPS

(* A sequence without its element i.                                       *)
LEMMA RemoveAtProperties ==
  ASSUME NEW S, NEW s \in Seq(S), NEW i \in 1 .. Len(s)
  PROVE  /\ RemoveAt(s, i) \in Seq(S)
         /\ Len(RemoveAt(s, i)) = Len(s) - 1
         /\ \A k \in 1 .. Len(s) - 1 :
              RemoveAt(s, i)[k] = IF k < i THEN s[k] ELSE s[k + 1]
<1> DEFINE front == SubSeq(s, 1, i - 1)
           back == SubSeq(s, i + 1, Len(s))
<1>1. Len(s) \in Nat /\ \A k \in 1 .. Len(s) : s[k] \in S
  OBVIOUS
<1>2. /\ front \in Seq(S) /\ Len(front) = i - 1
      /\ \A k \in 1 .. i - 1 : front[k] = s[k]
  BY <1>1, SubSeqProperties
<1>3. /\ back \in Seq(S) /\ Len(back) = Len(s) - i
      /\ \A k \in 1 .. Len(s) - i : back[k] = s[k + i]
  BY <1>1
<1>4. RemoveAt(s, i) = front \o back
  BY DEF RemoveAt
<1> HIDE DEF front, back
<1>5. /\ front \o back \in Seq(S)
      /\ Len(front \o back) = Len(s) - 1
      /\ \A k \in 1 .. Len(s) - 1 :
           (front \o back)[k] = IF k <= i - 1 THEN front[k] ELSE back[k - (i - 1)]
  BY <1>1, <1>2, <1>3
<1>6. ASSUME NEW k \in 1 .. Len(s) - 1
      PROVE  (front \o back)[k] = IF k < i THEN s[k] ELSE s[k + 1]
  <2>1. CASE k < i
    BY <2>1, <1>1, <1>2, <1>5
  <2>2. CASE k >= i
    <3> DEFINE j == k - (i - 1)
    <3>1. j \in 1 .. Len(s) - i /\ j + i = k + 1
      BY <2>2, <1>1
    <3>2. (front \o back)[k] = back[j]
      BY <2>2, <1>1, <1>5
    <3> HIDE DEF j
    <3>3. back[j] = s[k + 1]
      BY <3>1, <1>3
    <3> QED BY <2>2, <3>2, <3>3, <1>1
  <2>3. k < i \/ k >= i
    BY <1>1
  <2> QED BY <2>1, <2>2, <2>3
<1> QED BY <1>4, <1>5, <1>6

(* The last elements of a sequence.                                        *)
LEMMA TailEnd ==
  ASSUME NEW S, NEW s \in Seq(S), NEW k \in 0 .. Len(s)
  PROVE  /\ SubSeq(s, k + 1, Len(s)) \in Seq(S)
         /\ Len(SubSeq(s, k + 1, Len(s))) = Len(s) - k
         /\ \A n \in 1 .. Len(s) - k : SubSeq(s, k + 1, Len(s))[n] = s[n + k]
<1>1. Len(s) \in Nat
  OBVIOUS
<1> QED BY <1>1

(* A sequence with no element twice is no longer than the set they are of. *)
LEMMA NoLonger ==
  ASSUME NEW S, IsFiniteSet(S), NEW length \in Nat, NEW f \in [1 .. length -> S],
         \A m, n \in 1 .. length : f[m] = f[n] => m = n
  PROVE  length <= Cardinality(S)
<1>1. f \in Injection(1 .. length, S)
  BY DEF Injection, IsInjective
<1>2. Cardinality(1 .. length) <= Cardinality(S)
  BY <1>1, FS_Injection
<1>3. Cardinality(1 .. length) = length
  BY FS_Interval
<1> QED BY <1>2, <1>3

(* And what its elements are is finite.                                    *)
LEMMA AsManyAs ==
  ASSUME NEW length \in Nat, NEW S, NEW f \in [1 .. length -> S],
         S = {f[n] : n \in 1 .. length}
  PROVE  IsFiniteSet(S) /\ Cardinality(S) <= length
<1>1. f \in Surjection(1 .. length, S)
  BY DEF Surjection
<1>2. IsFiniteSet(1 .. length) /\ Cardinality(1 .. length) = length
  BY FS_Interval
<1> QED BY <1>1, <1>2, FS_Surjection
-----------------------------------------------------------------------------
(* The operators on a cache, which has one entry each for its languages.   *)
Cache(cache) == cache \in Seq(Entry) /\ OneEntryEach(cache)

LEMMA EntriesOf ==
  ASSUME NEW cache \in Seq(Entry)
  PROVE  /\ Len(cache) \in Nat /\ DOMAIN cache = 1 .. Len(cache)
         /\ \A n \in 1 .. Len(cache) :
              /\ cache[n] \in Entry
              /\ cache[n].language \in Language /\ cache[n].index \in Index
<1>1. Len(cache) \in Nat /\ DOMAIN cache = 1 .. Len(cache)
  OBVIOUS
<1>2. \A n \in 1 .. Len(cache) : cache[n] \in Entry
  OBVIOUS
<1> QED BY <1>1, <1>2 DEF Entry

(* What Lookup finds and what is left without it.                          *)
LEMMA WithoutProperties ==
  ASSUME NEW cache, Cache(cache), NEW l \in Keys(cache)
  PROVE  /\ Lookup(cache, l) \in ToSet(cache) /\ Lookup(cache, l).language = l
         /\ Place(cache, l) \in 1 .. Len(cache)
         /\ Cache(Without(cache, l)) /\ Len(Without(cache, l)) = Len(cache) - 1
         /\ l \notin Keys(Without(cache, l))
         /\ \A n \in 1 .. Len(cache) - 1 : \E m \in 1 .. Len(cache) :
              m # Place(cache, l) /\ Without(cache, l)[n] = cache[m]
         /\ \A j, k \in 1 .. Len(cache) - 1 : \A m \in 1 .. Len(cache) :
              Without(cache, l)[j] = cache[m] /\ Without(cache, l)[k] = cache[m] => j = k
<1> DEFINE i == Place(cache, l)
           w == Without(cache, l)
<1>1. cache \in Seq(Entry) /\ OneEntryEach(cache)
  BY DEF Cache
<1>2. /\ Len(cache) \in Nat /\ DOMAIN cache = 1 .. Len(cache)
      /\ \A m, n \in 1 .. Len(cache) : cache[m].language = cache[n].language => m = n
  BY <1>1, EntriesOf DEF OneEntryEach
<1>3. i \in 1 .. Len(cache) /\ cache[i].language = l
  <2>1. \E n \in DOMAIN cache : cache[n].language = l
    BY DEF Keys
  <2> QED BY <2>1, <1>2 DEF Place
<1>4. Lookup(cache, l) \in ToSet(cache) /\ Lookup(cache, l).language = l
  BY <1>2, <1>3 DEF Lookup, ToSet
<1> HIDE DEF i
<1>5. /\ w \in Seq(Entry) /\ Len(w) = Len(cache) - 1
      /\ \A k \in 1 .. Len(cache) - 1 : w[k] = IF k < i THEN cache[k] ELSE cache[k + 1]
  BY <1>1, <1>3, RemoveAtProperties DEF Without, i
<1> HIDE DEF w
<1> DEFINE from(n) == IF n < i THEN n ELSE n + 1
<1>6. \A n \in 1 .. Len(cache) - 1 :
        from(n) \in 1 .. Len(cache) /\ from(n) # i /\ w[n] = cache[from(n)]
  BY <1>2, <1>3, <1>5
<1>7. \A j, k \in 1 .. Len(cache) - 1 : from(j) = from(k) => j = k
  BY <1>2, <1>3
<1> HIDE DEF from
<1>8. DOMAIN w = 1 .. Len(cache) - 1
  BY <1>5, <1>2
<1>9. OneEntryEach(w) /\ l \notin Keys(w)
  <2>1. \A j, k \in 1 .. Len(cache) - 1 : w[j].language = w[k].language => j = k
    BY <1>2, <1>6, <1>7
  <2>2. \A n \in 1 .. Len(cache) - 1 : w[n].language # l
    BY <1>2, <1>3, <1>6
  <2> QED BY <2>1, <2>2, <1>8 DEF OneEntryEach, Keys
<1>10. \A j, k \in 1 .. Len(cache) - 1 : \A m \in 1 .. Len(cache) :
         w[j] = cache[m] /\ w[k] = cache[m] => j = k
  BY <1>2, <1>6, <1>7
<1> QED BY <1>3, <1>4, <1>5, <1>6, <1>9, <1>10 DEF Cache, i, w

(* What is appended for another language.                                  *)
LEMMA AppendCache ==
  ASSUME NEW cache, Cache(cache), NEW e \in Entry, e.language \notin Keys(cache)
  PROVE  /\ Cache(Append(cache, e)) /\ Len(Append(cache, e)) = Len(cache) + 1
         /\ \A n \in 1 .. Len(cache) : Append(cache, e)[n] = cache[n]
         /\ Append(cache, e)[Len(cache) + 1] = e
<1>1. /\ cache \in Seq(Entry) /\ Len(cache) \in Nat /\ DOMAIN cache = 1 .. Len(cache)
      /\ \A m, n \in 1 .. Len(cache) : cache[m].language = cache[n].language => m = n
      /\ \A n \in 1 .. Len(cache) : cache[n].language # e.language
  BY EntriesOf DEF Cache, OneEntryEach, Keys
<1> DEFINE a == Append(cache, e)
<1>2. /\ a \in Seq(Entry) /\ Len(a) = Len(cache) + 1
      /\ \A n \in 1 .. Len(cache) : a[n] = cache[n]
      /\ a[Len(cache) + 1] = e
  BY <1>1, AppendProperties
<1> HIDE DEF a
<1>3. DOMAIN a = 1 .. Len(cache) + 1
  BY <1>1, <1>2
<1>4. \A m, n \in 1 .. Len(cache) + 1 : a[m].language = a[n].language => m = n
  BY <1>1, <1>2
<1> QED BY <1>2, <1>3, <1>4 DEF Cache, OneEntryEach, a

LEMMA AssignProperties ==
  ASSUME NEW cache, Cache(cache), NEW l \in Language, NEW x \in Index
  PROVE  /\ Cache(Assign(cache, l, x))
         /\ Len(Assign(cache, l, x)) = IF l \in Keys(cache) THEN Len(cache) ELSE Len(cache) + 1
         /\ \A n \in 1 .. Len(Assign(cache, l, x)) :
              \/ n \in 1 .. Len(cache) /\ Assign(cache, l, x)[n] = cache[n]
              \/ Assign(cache, l, x)[n] = [language |-> l, index |-> x]
<1> DEFINE e == [language |-> l, index |-> x]
           a == [n \in DOMAIN cache |-> IF cache[n].language = l THEN e ELSE cache[n]]
<1>1. e \in Entry /\ e.language = l
  BY DEF Entry
<1>2. /\ cache \in Seq(Entry) /\ Len(cache) \in Nat /\ DOMAIN cache = 1 .. Len(cache)
      /\ \A n \in 1 .. Len(cache) : cache[n] \in Entry
      /\ \A m, n \in 1 .. Len(cache) : cache[m].language = cache[n].language => m = n
  BY EntriesOf DEF Cache, OneEntryEach
<1> HIDE DEF e
<1>3. CASE l \notin Keys(cache)
  <2>1. Assign(cache, l, x) = Append(cache, e)
    BY <1>3 DEF Assign, e
  <2>2. /\ Cache(Append(cache, e)) /\ Len(Append(cache, e)) = Len(cache) + 1
        /\ \A n \in 1 .. Len(cache) : Append(cache, e)[n] = cache[n]
        /\ Append(cache, e)[Len(cache) + 1] = e
    BY <1>1, <1>3, AppendCache
  <2>3. \A n \in 1 .. Len(cache) + 1 : n \in 1 .. Len(cache) \/ n = Len(cache) + 1
    BY <1>2
  <2> QED BY <1>3, <2>1, <2>2, <2>3 DEF e
<1>4. CASE l \in Keys(cache)
  <2>1. Assign(cache, l, x) = a
    BY <1>4 DEF Assign, e
  <2>2. a \in Seq(Entry) /\ Len(a) = Len(cache) /\ DOMAIN a = 1 .. Len(cache)
    BY <1>1, <1>2
  <2>3. \A n \in 1 .. Len(cache) : a[n].language = cache[n].language /\ a[n] \in {e, cache[n]}
    BY <1>1, <1>2
  <2> HIDE DEF a
  <2>4. OneEntryEach(a)
    BY <1>2, <2>2, <2>3 DEF OneEntryEach
  <2> QED BY <1>4, <2>1, <2>2, <2>3, <2>4 DEF Cache, e
<1> QED BY <1>3, <1>4

(* What is kept of a cache are its last entries, as many as it may have.   *)
LEMMA KeptProperties ==
  ASSUME NEW cache, Cache(cache), NEW size \in Nat
  PROVE  /\ Cache(Kept(cache, size)) /\ Len(Kept(cache, size)) <= size
         /\ \E k \in 0 .. Len(cache) :
              /\ k = IF Len(cache) > size THEN Len(cache) - size ELSE 0
              /\ Len(Kept(cache, size)) = Len(cache) - k
              /\ \A n \in 1 .. Len(cache) - k : Kept(cache, size)[n] = cache[n + k]
              /\ Evicted(cache, size) \in Seq(Entry) /\ Len(Evicted(cache, size)) = k
              /\ \A n \in 1 .. k : Evicted(cache, size)[n] = cache[n]
<1> DEFINE k == IF Len(cache) > size THEN Len(cache) - size ELSE 0
<1>1. /\ cache \in Seq(Entry) /\ Len(cache) \in Nat /\ DOMAIN cache = 1 .. Len(cache)
      /\ \A m, n \in 1 .. Len(cache) : cache[m].language = cache[n].language => m = n
      /\ \A n \in 1 .. Len(cache) : cache[n] \in Entry
  BY EntriesOf DEF Cache, OneEntryEach
<1>2. k \in 0 .. Len(cache) /\ Len(cache) - k <= size
  BY <1>1
<1>3. Evicted(cache, size) = SubSeq(cache, 1, k)
  BY DEF Evicted
<1> HIDE DEF k
<1>4. /\ SubSeq(cache, 1, k) \in Seq(Entry) /\ Len(SubSeq(cache, 1, k)) = k
      /\ \A n \in 1 .. k : SubSeq(cache, 1, k)[n] = cache[n]
  BY <1>1, <1>2
<1>5. Kept(cache, size) = SubSeq(cache, k + 1, Len(cache))
  <2>1. Len(Evicted(cache, size)) + 1 = k + 1
    BY <1>3, <1>4
  <2>2. QED
    BY <2>1 DEF Kept
<1>6. /\ Kept(cache, size) \in Seq(Entry) /\ Len(Kept(cache, size)) = Len(cache) - k
      /\ \A n \in 1 .. Len(cache) - k : Kept(cache, size)[n] = cache[n + k]
  <2>1. /\ SubSeq(cache, k + 1, Len(cache)) \in Seq(Entry)
        /\ Len(SubSeq(cache, k + 1, Len(cache))) = Len(cache) - k
        /\ \A n \in 1 .. Len(cache) - k : SubSeq(cache, k + 1, Len(cache))[n] = cache[n + k]
    BY ONLY <1>1, <1>2, TailEnd
  <2> QED BY <2>1, <1>5
<1>7. OneEntryEach(Kept(cache, size))
  <2>1. DOMAIN Kept(cache, size) = 1 .. Len(cache) - k
    BY <1>6
  <2>2. \A n \in 1 .. Len(cache) - k : n + k \in 1 .. Len(cache)
    BY <1>1, <1>2
  <2>3. ASSUME NEW m \in 1 .. Len(cache) - k, NEW n \in 1 .. Len(cache) - k,
               Kept(cache, size)[m].language = Kept(cache, size)[n].language
        PROVE  m = n
    <3>1. m + k = n + k
      BY <1>1, <1>6, <2>2, <2>3
    <3> QED BY <3>1, <1>1, <1>2
  <2> QED BY <2>1, <2>3 DEF OneEntryEach
<1> QED BY <1>2, <1>3, <1>4, <1>6, <1>7 DEF Cache, k
-----------------------------------------------------------------------------
(* The index caches.  While threads search, a name is left for an index.   *)
LEMMA FreshIsNew ==
  ASSUME TypeOK, Sizes
  PROVE  Fresh \in Index /\ Fresh \notin InUse
<1>1. /\ indexes \in Seq(Entry) /\ INDEX_CACHE \in Seq(Entry)
      /\ Len(indexes) \in Nat /\ Len(INDEX_CACHE) \in Nat
      /\ DOMAIN indexes = 1 .. Len(indexes) /\ DOMAIN INDEX_CACHE = 1 .. Len(INDEX_CACHE)
      /\ Len(indexes) <= LocalSize /\ Len(INDEX_CACHE) <= GlobalSize
      /\ LocalSize \in Nat /\ GlobalSize \in Nat
  BY CacheAssumption, EntriesOf DEF TypeOK, Sizes
<1>2. IsFiniteSet(Held(indexes)) /\ Cardinality(Held(indexes)) <= Len(indexes)
  <2> DEFINE f == [n \in 1 .. Len(indexes) |-> indexes[n].index]
  <2>1. f \in [1 .. Len(indexes) -> Held(indexes)]
    BY <1>1 DEF Held
  <2>2. Held(indexes) = {f[n] : n \in 1 .. Len(indexes)}
    BY <1>1 DEF Held
  <2> HIDE DEF f
  <2> QED BY <1>1, <2>1, <2>2, AsManyAs
<1>3. IsFiniteSet(Held(INDEX_CACHE)) /\ Cardinality(Held(INDEX_CACHE)) <= Len(INDEX_CACHE)
  <2> DEFINE f == [n \in 1 .. Len(INDEX_CACHE) |-> INDEX_CACHE[n].index]
  <2>1. f \in [1 .. Len(INDEX_CACHE) -> Held(INDEX_CACHE)]
    BY <1>1 DEF Held
  <2>2. Held(INDEX_CACHE) = {f[n] : n \in 1 .. Len(INDEX_CACHE)}
    BY <1>1 DEF Held
  <2> HIDE DEF f
  <2> QED BY <1>1, <2>1, <2>2, AsManyAs
<1> DEFINE taken == {index[t] : t \in Thread}
<1>4. IsFiniteSet(taken) /\ Cardinality(taken) <= Cardinality(Thread)
  <2>1. index \in [Thread -> taken]
    BY DEF TypeOK
  <2>2. index \in Surjection(Thread, taken)
    BY <2>1 DEF Surjection
  <2> HIDE DEF taken
  <2> QED BY <2>2, CacheAssumption, FS_Surjection
<1> HIDE DEF taken
<1> DEFINE both == Held(indexes) \cup Held(INDEX_CACHE)
<1>5. /\ IsFiniteSet(both)
      /\ Cardinality(both) <= LocalSize + GlobalSize
  <2>1. /\ IsFiniteSet(both)
        /\ Cardinality(both) = Cardinality(Held(indexes)) + Cardinality(Held(INDEX_CACHE))
              - Cardinality(Held(indexes) \cap Held(INDEX_CACHE))
    BY <1>2, <1>3, FS_Union
  <2>2. /\ Cardinality(Held(indexes)) \in Nat /\ Cardinality(Held(INDEX_CACHE)) \in Nat
        /\ Cardinality(Held(indexes) \cap Held(INDEX_CACHE)) \in Nat
    <3>1. IsFiniteSet(Held(indexes) \cap Held(INDEX_CACHE))
      BY <1>2, FS_Subset
    <3> QED BY <3>1, <1>2, <1>3, FS_CardinalityType
  <2> QED BY <1>1, <1>2, <1>3, <2>1, <2>2
<1> HIDE DEF both
<1>6. Cardinality(both \cup taken) <= LocalSize + GlobalSize + Cardinality(Thread)
      /\ IsFiniteSet(both \cup taken)
  <2>1. /\ IsFiniteSet(both \cup taken)
        /\ Cardinality(both \cup taken)
             = Cardinality(both) + Cardinality(taken) - Cardinality(both \cap taken)
    BY <1>4, <1>5, FS_Union
  <2>2. /\ Cardinality(both) \in Nat /\ Cardinality(taken) \in Nat
        /\ Cardinality(both \cap taken) \in Nat /\ Cardinality(Thread) \in Nat
    <3>1. IsFiniteSet(both \cap taken)
      BY <1>4, FS_Subset
    <3> QED BY <3>1, <1>4, <1>5, CacheAssumption, FS_CardinalityType
  <2> QED BY <1>1, <1>4, <1>5, <2>1, <2>2
<1>7. InUse = both \cup taken
  BY DEF InUse, both, taken
<1>8. \E x \in Index : x \notin InUse
  <2> SUFFICES ASSUME Index \subseteq InUse PROVE FALSE
    OBVIOUS
  <2>1. Cardinality(Index) <= Cardinality(InUse)
    BY <1>6, <1>7, FS_Subset
  <2>2. /\ Cardinality(Index) \in Nat /\ Cardinality(InUse) \in Nat
        /\ Cardinality(Thread) \in Nat
    BY <1>6, <1>7, CacheAssumption, FS_CardinalityType
  <2> QED BY <1>1, <1>6, <1>7, <2>1, <2>2, CacheAssumption
<1> QED BY <1>8 DEF Fresh

LEMMA CacheInit ==
  ASSUME Init
  PROVE  CacheInv
<1>1. <<>> \in Seq(Entry) /\ Len(<<>>) = 0 /\ DOMAIN <<>> = {}
  OBVIOUS
<1>2. LocalSize \in Nat /\ GlobalSize \in Nat /\ LocalSize >= 0 /\ GlobalSize >= 0
  BY CacheAssumption
<1> QED
  BY <1>1, <1>2 DEF Init, CacheInv, TypeOK, OneEntryEach, CachedOpen, Held, Sizes, Accesses,
     OnePlace

(* The place of a thread.                                                  *)
LEMMA Moves ==
  ASSUME TypeOK, NEW t \in Thread, NEW from, NEW to, Goto(t, from, to)
  PROVE  /\ pc[t] = from /\ pc'[t] = to
         /\ \A u \in Thread : u # t => pc'[u] = pc[u]
         /\ to \in {"idle", "get", "touch", "pop", "insert", "store", "search"} =>
              pc' \in [Thread -> {"idle", "get", "touch", "pop", "insert", "store", "search"}]
BY DEF TypeOK, Goto

(* Steps that leave the global cache alone, and take no index out of it.   *)
LEMMA GlobalUntouched ==
  ASSUME CacheInv, NEW t \in Thread,
         UNCHANGED <<INDEX_CACHE, reset>>,
         \A u \in Thread : u # t => pc'[u] = pc[u] /\ index'[u] = index[u],
         pc'[t] # "insert"
  PROVE  CachedOpen' /\ OnePlace'
<1>1. CachedOpen'
  BY DEF CacheInv, CachedOpen, Held
<1>2. OnePlace'
  BY DEF CacheInv, OnePlace, Held
<1> QED BY <1>1, <1>2 DEF CacheInv

LEMMA PopStep ==
  ASSUME CacheInv, NEW t \in Thread, Pop(t)
  PROVE  CacheInv'
<1> DEFINE l == language[t]
<1>1. /\ TypeOK /\ CachedOpen /\ Sizes /\ Accesses /\ OnePlace
      /\ Cache(INDEX_CACHE) /\ l \in Language
      /\ Goto(t, "pop", "insert")
  BY DEF CacheInv, TypeOK, Cache, Pop, Accesses, Goto
<1>2. /\ pc[t] = "pop" /\ pc'[t] = "insert"
      /\ \A u \in Thread : u # t => pc'[u] = pc[u]
      /\ pc' \in [Thread -> {"idle", "get", "touch", "pop", "insert", "store", "search"}]
  BY <1>1, Moves
<1>3. UNCHANGED <<indexes, closed, language>>
  BY DEF Pop
<1>4. /\ Len(INDEX_CACHE) \in Nat /\ DOMAIN INDEX_CACHE = 1 .. Len(INDEX_CACHE)
      /\ \A n \in 1 .. Len(INDEX_CACHE) : INDEX_CACHE[n].index \in Index
      /\ GlobalSize \in Nat
  BY <1>1, EntriesOf, CacheAssumption DEF Cache
<1>5. /\ Cache(INDEX_CACHE') /\ Len(INDEX_CACHE') <= GlobalSize
      /\ reset' \subseteq reset
      /\ \E x \in Index :
           /\ index' = [index EXCEPT ![t] = x]
           /\ x \notin Held(INDEX_CACHE)' \cup reset'
           /\ \A u \in Thread : u # t /\ pc[u] = "insert" => index[u] # x
      /\ Held(INDEX_CACHE)' \subseteq Held(INDEX_CACHE)
      /\ \A m, n \in DOMAIN INDEX_CACHE' :
           INDEX_CACHE'[m].index = INDEX_CACHE'[n].index => m = n
  <2>1. CASE l \in Keys(INDEX_CACHE)
    <3> DEFINE i == Place(INDEX_CACHE, l)
               w == Without(INDEX_CACHE, l)
    <3>1. /\ index' = [index EXCEPT ![t] = Lookup(INDEX_CACHE, l).index]
          /\ INDEX_CACHE' = w /\ reset' = reset
      BY <2>1 DEF Pop
    <3>2. /\ i \in 1 .. Len(INDEX_CACHE)
          /\ Cache(w) /\ Len(w) = Len(INDEX_CACHE) - 1
          /\ \A n \in 1 .. Len(INDEX_CACHE) - 1 : \E m \in 1 .. Len(INDEX_CACHE) :
               m # i /\ w[n] = INDEX_CACHE[m]
          /\ \A j, k \in 1 .. Len(INDEX_CACHE) - 1 : \A m \in 1 .. Len(INDEX_CACHE) :
               w[j] = INDEX_CACHE[m] /\ w[k] = INDEX_CACHE[m] => j = k
      BY <1>1, <2>1, WithoutProperties
    <3>3. Lookup(INDEX_CACHE, l).index = INDEX_CACHE[i].index
      BY DEF Lookup
    <3> HIDE DEF i, w
    <3> DEFINE x == INDEX_CACHE[i].index
    <3>4. x \in Index /\ x \in Held(INDEX_CACHE)
      BY <1>4, <3>2 DEF Held
    <3>5. DOMAIN w = 1 .. Len(INDEX_CACHE) - 1
      BY <3>2, <1>4, EntriesOf DEF Cache
    <3>6. Held(w) \subseteq Held(INDEX_CACHE) /\ x \notin Held(w)
      <4>1. ASSUME NEW n \in 1 .. Len(INDEX_CACHE) - 1
            PROVE  w[n].index \in Held(INDEX_CACHE) /\ w[n].index # x
        <5>1. PICK m \in 1 .. Len(INDEX_CACHE) : m # i /\ w[n] = INDEX_CACHE[m]
          BY <3>2
        <5>2. INDEX_CACHE[m].index \in Held(INDEX_CACHE)
          BY <1>4 DEF Held
        <5>3. INDEX_CACHE[m].index # x
          BY <1>1, <1>4, <3>2, <5>1 DEF OnePlace
        <5> QED BY <5>1, <5>2, <5>3
      <4>2. \A y \in Held(w) : \E n \in 1 .. Len(INDEX_CACHE) - 1 : y = w[n].index
        BY <3>5 DEF Held
      <4> QED BY <4>1, <4>2
    <3>7. \A m, n \in DOMAIN w : w[m].index = w[n].index => m = n
      <4> SUFFICES ASSUME NEW m \in 1 .. Len(INDEX_CACHE) - 1,
                          NEW n \in 1 .. Len(INDEX_CACHE) - 1, w[m].index = w[n].index
                   PROVE  m = n
        BY <3>5
      <4>1. PICK j \in 1 .. Len(INDEX_CACHE) : w[m] = INDEX_CACHE[j]
        BY <3>2
      <4>2. PICK k \in 1 .. Len(INDEX_CACHE) : w[n] = INDEX_CACHE[k]
        BY <3>2
      <4>3. j = k
        BY <1>1, <1>4, <4>1, <4>2 DEF OnePlace
      <4> QED BY <3>2, <4>1, <4>2, <4>3
    <3>8. x \notin reset /\ \A u \in Thread : u # t /\ pc[u] = "insert" => index[u] # x
      BY <1>1, <3>4 DEF CachedOpen, OnePlace
    <3>9. Len(w) <= GlobalSize
      BY <1>1, <1>4, <3>2 DEF Sizes
    <3>10. Held(INDEX_CACHE)' = Held(w)
      BY <3>1 DEF Held
    <3> HIDE DEF x
    <3>11. index' = [index EXCEPT ![t] = x]
      BY <3>1, <3>3 DEF x
    <3> QED BY <3>1, <3>2, <3>4, <3>6, <3>7, <3>8, <3>9, <3>10, <3>11
  <2>2. CASE l \notin Keys(INDEX_CACHE)
    <3>1. /\ index' = [index EXCEPT ![t] = Fresh]
          /\ reset' = reset \ {Fresh} /\ INDEX_CACHE' = INDEX_CACHE
      BY <2>2 DEF Pop
    <3>2. Fresh \in Index /\ Fresh \notin InUse
      BY <1>1, FreshIsNew
    <3>3. Fresh \notin Held(INDEX_CACHE) /\ \A u \in Thread : index[u] # Fresh
      BY <3>2 DEF InUse
    <3>4. Held(INDEX_CACHE)' = Held(INDEX_CACHE)
      BY <3>1 DEF Held
    <3>5. Len(INDEX_CACHE) <= GlobalSize
      BY <1>1 DEF Sizes
    <3>6. \A m, n \in DOMAIN INDEX_CACHE : INDEX_CACHE[m].index = INDEX_CACHE[n].index => m = n
      BY <1>1 DEF OnePlace
    <3> QED BY <1>1, <3>1, <3>2, <3>3, <3>4, <3>5, <3>6
  <2> QED BY <2>1, <2>2
<1>6. PICK x \in Index :
        /\ index' = [index EXCEPT ![t] = x]
        /\ x \notin Held(INDEX_CACHE)' \cup reset'
        /\ \A u \in Thread : u # t /\ pc[u] = "insert" => index[u] # x
  BY <1>5
<1>7. /\ index'[t] = x /\ \A u \in Thread : u # t => index'[u] = index[u]
      /\ index' \in [Thread -> Index \cup {None}]
  BY <1>1, <1>6 DEF TypeOK
<1>8. TypeOK'
  BY <1>1, <1>2, <1>3, <1>5, <1>7 DEF TypeOK, Cache
<1>9. CachedOpen' /\ Sizes'
  BY <1>1, <1>3, <1>5 DEF CachedOpen, Sizes
<1>10. Accesses'
  BY <1>1, <1>2, <1>3, <1>7 DEF Accesses
<1>11. OnePlace'
  BY <1>1, <1>2, <1>5, <1>6, <1>7 DEF OnePlace
<1> QED BY <1>8, <1>9, <1>10, <1>11 DEF CacheInv

LEMMA InsertStep ==
  ASSUME CacheInv, NEW t \in Thread, Insert(t)
  PROVE  CacheInv'
<1> DEFINE l == language[t]
           x == index[t]
           all == Assign(INDEX_CACHE, l, x)
           kept == Kept(all, GlobalSize)
           out == Evicted(all, GlobalSize)
<1>1. /\ TypeOK /\ CachedOpen /\ Sizes /\ Accesses /\ OnePlace
      /\ Cache(INDEX_CACHE) /\ GlobalSize \in Nat
      /\ Goto(t, "insert", "store")
  BY CacheAssumption DEF CacheInv, TypeOK, Cache, Insert
<1>2. /\ pc[t] = "insert" /\ pc'[t] = "store"
      /\ \A u \in Thread : u # t => pc'[u] = pc[u]
      /\ pc' \in [Thread -> {"idle", "get", "touch", "pop", "insert", "store", "search"}]
  BY <1>1, Moves
<1>3. /\ INDEX_CACHE' = kept /\ reset' = reset \cup Held(out)
      /\ UNCHANGED <<indexes, closed, language, index>>
  BY DEF Insert
<1>4. /\ l \in Language /\ x \in Index /\ x \notin Held(INDEX_CACHE) \cup reset
  BY <1>1, <1>2 DEF Accesses, OnePlace
<1>5. /\ Len(INDEX_CACHE) \in Nat /\ DOMAIN INDEX_CACHE = 1 .. Len(INDEX_CACHE)
      /\ \A n \in 1 .. Len(INDEX_CACHE) : INDEX_CACHE[n].index \in Held(INDEX_CACHE)
      /\ \A m, n \in 1 .. Len(INDEX_CACHE) :
           INDEX_CACHE[m].index = INDEX_CACHE[n].index => m = n
  BY <1>1, EntriesOf DEF Cache, Held, OnePlace
<1>6. /\ Cache(all)
      /\ \A n \in 1 .. Len(all) :
           \/ n \in 1 .. Len(INDEX_CACHE) /\ all[n] = INDEX_CACHE[n]
           \/ all[n] = [language |-> l, index |-> x]
  BY <1>1, <1>4, AssignProperties
<1> HIDE DEF all
<1>7. /\ Len(all) \in Nat /\ DOMAIN all = 1 .. Len(all)
      /\ \A n \in 1 .. Len(all) : all[n].index \in Index
      /\ \A m, n \in 1 .. Len(all) : all[m].language = all[n].language => m = n
  BY <1>6, EntriesOf DEF Cache, OneEntryEach
(* The entries hold different indexes, none of which has been reset.       *)
<1>8. /\ \A n \in 1 .. Len(all) : all[n].index \in Held(INDEX_CACHE) \cup {x}
      /\ \A m, n \in 1 .. Len(all) : all[m].index = all[n].index => m = n
  <2> DEFINE e == [language |-> l, index |-> x]
  <2>1. e.language = l /\ e.index = x
    OBVIOUS
  <2> HIDE DEF e
  <2>2. \A n \in 1 .. Len(all) :
          (n \in 1 .. Len(INDEX_CACHE) /\ all[n] = INDEX_CACHE[n]) \/ all[n] = e
    BY <1>6 DEF e
  <2> HIDE DEF l, x
  <2>3. \A m, n \in 1 .. Len(all) : all[m] = e /\ all[n] = e => m = n
    BY <1>7
  <2> QED BY <1>4, <1>5, <2>1, <2>2, <2>3
<1>9. PICK k \in 0 .. Len(all) :
        /\ Cache(kept) /\ Len(kept) <= GlobalSize
        /\ Len(kept) = Len(all) - k
        /\ \A n \in 1 .. Len(all) - k : kept[n] = all[n + k]
        /\ out \in Seq(Entry) /\ Len(out) = k
        /\ \A n \in 1 .. k : out[n] = all[n]
  BY <1>1, <1>6, KeptProperties
<1> HIDE DEF kept, out
<1>11. DOMAIN kept = 1 .. Len(all) - k /\ DOMAIN out = 1 .. k
  BY <1>9, EntriesOf DEF Cache
<1>12. \A n \in 1 .. Len(all) - k : n + k \in 1 .. Len(all) /\ n + k > k
  BY <1>7, <1>9
<1>13. \A n \in 1 .. k : n \in 1 .. Len(all)
  BY <1>7, <1>9
<1>14. /\ Held(kept) \subseteq Held(INDEX_CACHE) \cup {x}
       /\ Held(out) \subseteq Held(INDEX_CACHE) \cup {x}
       /\ Held(out) \subseteq Index
       /\ Held(kept) \cap Held(out) = {}
  <2>1. /\ Held(kept) \subseteq Held(INDEX_CACHE) \cup {x}
        /\ Held(out) \subseteq Held(INDEX_CACHE) \cup {x}
        /\ Held(out) \subseteq Index
    <3>1. \A n \in 1 .. Len(all) - k : kept[n].index \in Held(INDEX_CACHE) \cup {x}
      <4> SUFFICES ASSUME NEW n \in 1 .. Len(all) - k
                   PROVE  kept[n].index \in Held(INDEX_CACHE) \cup {x}
        OBVIOUS
      <4>1. kept[n] = all[n + k] /\ n + k \in 1 .. Len(all)
        BY <1>9, <1>12
      <4> HIDE DEF x
      <4> QED BY <4>1, <1>8
    <3>2. \A n \in 1 .. k : out[n].index \in Held(INDEX_CACHE) \cup {x} /\ out[n].index \in Index
      <4> HIDE DEF x
      <4> QED BY <1>7, <1>8, <1>9, <1>13
    <3>3. \A y \in Held(kept) : \E n \in 1 .. Len(all) - k : y = kept[n].index
      BY <1>11 DEF Held
    <3>4. \A y \in Held(out) : \E n \in 1 .. k : y = out[n].index
      BY <1>11 DEF Held
    <3> QED BY <3>1, <3>2, <3>3, <3>4
  <2>2. ASSUME NEW m \in 1 .. Len(all) - k, NEW n \in 1 .. k
        PROVE  kept[m].index # out[n].index
    <3>1. m + k # n
      BY <1>7, <1>9
    <3>2. kept[m] = all[m + k] /\ m + k \in 1 .. Len(all) /\ out[n] = all[n] /\ n \in 1 .. Len(all)
      BY <1>9, <1>12, <1>13
    <3> HIDE DEF x
    <3> QED BY <3>1, <3>2, <1>8
  <2>3. \A y \in Held(kept) : \E n \in 1 .. Len(all) - k : y = kept[n].index
    BY <1>11 DEF Held
  <2>4. \A y \in Held(out) : \E n \in 1 .. k : y = out[n].index
    BY <1>11 DEF Held
  <2> QED BY <2>1, <2>2, <2>3, <2>4
<1>15. \A m, n \in DOMAIN kept : kept[m].index = kept[n].index => m = n
  <2> SUFFICES ASSUME NEW m \in 1 .. Len(all) - k, NEW n \in 1 .. Len(all) - k,
                      kept[m].index = kept[n].index
               PROVE  m = n
    BY <1>11
  <2>1. /\ kept[m] = all[m + k] /\ m + k \in 1 .. Len(all)
        /\ kept[n] = all[n + k] /\ n + k \in 1 .. Len(all)
    BY <1>9, <1>12
  <2>2. m + k = n + k
    <3> HIDE DEF x
    <3> QED BY <1>8, <2>1
  <2> QED BY <2>2, <1>7, <1>9
<1>16. TypeOK'
  BY <1>1, <1>2, <1>3, <1>9, <1>14 DEF TypeOK, Cache
<1>17. Sizes'
  BY <1>1, <1>3, <1>9 DEF Sizes
<1>18. CachedOpen'
  <2>1. Held(INDEX_CACHE)' = Held(kept)
    BY <1>3 DEF Held
  <2>2. Held(kept) \cap reset = {}
    BY <1>1, <1>4, <1>14 DEF CachedOpen
  <2> QED BY <2>1, <2>2, <1>3, <1>14 DEF CachedOpen
<1>19. Accesses'
  BY <1>1, <1>2, <1>3, <1>4 DEF Accesses
<1>20. OnePlace'
  <2>1. ASSUME NEW u \in Thread, pc'[u] = "insert"
        PROVE  /\ index[u] \notin Held(kept) \cup reset'
               /\ \A v \in Thread : pc'[v] = "insert" /\ index[v] = index[u] => v = u
    <3>1. u # t /\ pc[u] = "insert"
      BY <1>2, <2>1
    <3>2. index[u] \notin Held(INDEX_CACHE) \cup reset /\ index[u] # x
      BY <1>1, <1>2, <3>1 DEF OnePlace
    <3>3. \A v \in Thread : pc'[v] = "insert" => pc[v] = "insert"
      BY <1>2
    <3>4. \A v \in Thread : pc[v] = "insert" /\ index[v] = index[u] => v = u
      BY <1>1, <3>1 DEF OnePlace
    <3> QED BY <3>2, <3>3, <3>4, <1>3, <1>14
  <2>2. Held(INDEX_CACHE)' = Held(kept)
    BY <1>3 DEF Held
  <2> QED BY <2>1, <2>2, <1>3, <1>15 DEF OnePlace
<1> QED BY <1>16, <1>17, <1>18, <1>19, <1>20 DEF CacheInv

(* The other steps.  They bring no index into the global cache.            *)
LEMMA QuietStep ==
  ASSUME CacheInv, NEW t \in Thread,
         SearchPack(t) \/ Get(t) \/ TouchFails(t) \/ Search(t)
  PROVE  CacheInv'
<1>1. TypeOK /\ Sizes /\ Accesses /\ Cache(indexes)
  BY DEF CacheInv, TypeOK, Cache
<1>2. UNCHANGED <<indexes, INDEX_CACHE, reset, closed>>
  BY DEF SearchPack, Get, TouchFails, Search
<1>3. /\ pc' \in [Thread -> {"idle", "get", "touch", "pop", "insert", "store", "search"}]
      /\ pc'[t] \in {"get", "touch", "pop", "idle"}
      /\ \A u \in Thread : u # t => pc'[u] = pc[u]
  BY <1>1 DEF TypeOK, SearchPack, Get, TouchFails, Search, Goto
<1>4. /\ \A u \in Thread : u # t => language'[u] = language[u] /\ index'[u] = index[u]
      /\ language' \in [Thread -> Language \cup {None}]
      /\ index' \in [Thread -> Index \cup {None}]
      /\ pc'[t] # "idle" => language'[t] \in Language
      /\ pc'[t] = "touch" => index'[t] \in Index
  <2>1. CASE SearchPack(t)
    BY <1>1, <1>3, <2>1 DEF SearchPack, Goto, TypeOK
  <2>2. CASE Get(t)
    <3>1. pc[t] = "get" /\ language[t] \in Language /\ language' = language
      BY <2>2, <1>1 DEF Get, Goto, Accesses
    <3>2. CASE language[t] \in Keys(indexes)
      <4>1. Lookup(indexes, language[t]).index \in Index
        BY <1>1, <3>2, WithoutProperties, EntriesOf DEF Cache, ToSet
      <4> QED BY <1>1, <2>2, <3>1, <3>2, <4>1 DEF Get, TypeOK
    <3>3. CASE language[t] \notin Keys(indexes)
      BY <1>1, <2>2, <3>1, <3>3 DEF Get, Goto, TypeOK
    <3> QED BY <3>2, <3>3
  <2>3. CASE TouchFails(t) \/ Search(t)
    BY <1>1, <2>3 DEF TouchFails, Search, Goto, TypeOK
  <2> QED BY <2>1, <2>2, <2>3
<1>5. TypeOK' /\ Sizes'
  BY <1>1, <1>2, <1>3, <1>4 DEF TypeOK, Sizes
<1>6. Accesses'
  BY <1>1, <1>3, <1>4 DEF Accesses
<1>7. CachedOpen' /\ OnePlace'
  BY <1>2, <1>3, <1>4, GlobalUntouched
<1> QED BY <1>5, <1>6, <1>7 DEF CacheInv

LEMMA LocalStep ==
  ASSUME CacheInv, NEW t \in Thread, Touch(t) \/ Store(t)
  PROVE  CacheInv'
<1>1. TypeOK /\ Sizes /\ Accesses /\ Cache(indexes) /\ LocalSize \in Nat
  BY CacheAssumption DEF CacheInv, TypeOK, Cache
<1>2. UNCHANGED <<INDEX_CACHE, reset, closed, language, index>>
  BY DEF Touch, Store
<1>3. /\ pc' \in [Thread -> {"idle", "get", "touch", "pop", "insert", "store", "search"}]
      /\ pc'[t] = "search" /\ pc[t] \in {"touch", "store"}
      /\ \A u \in Thread : u # t => pc'[u] = pc[u]
  BY <1>1 DEF TypeOK, Touch, Store, Goto
<1>4. language[t] \in Language /\ index[t] \in Index
  BY <1>1, <1>3 DEF Accesses
<1>5. Cache(indexes') /\ Len(indexes') <= LocalSize
  <2>1. CASE Touch(t)
    <3> DEFINE w == Without(indexes, language[t])
               e == Lookup(indexes, language[t])
    <3>1. language[t] \in Keys(indexes) /\ indexes' = Append(w, e)
      BY <2>1 DEF Touch, MoveToEnd
    <3>2. /\ e \in ToSet(indexes) /\ e.language = language[t]
          /\ Cache(w) /\ Len(w) = Len(indexes) - 1 /\ language[t] \notin Keys(w)
      BY <1>1, <3>1, WithoutProperties
    <3>3. e \in Entry /\ Len(indexes) \in Nat
      BY <1>1, <3>2, EntriesOf DEF Cache, ToSet
    <3> HIDE DEF w, e
    <3>4. Cache(Append(w, e)) /\ Len(Append(w, e)) = Len(w) + 1
      BY <3>2, <3>3, AppendCache
    <3> QED BY <1>1, <3>1, <3>2, <3>3, <3>4 DEF Sizes
  <2>2. CASE Store(t)
    <3>1. Cache(Assign(indexes, language[t], index[t]))
      BY <1>1, <1>4, AssignProperties
    <3> QED BY <1>1, <2>2, <3>1, KeptProperties DEF Store
  <2> QED BY <2>1, <2>2
<1>6. TypeOK' /\ Sizes'
  BY <1>1, <1>2, <1>3, <1>5 DEF TypeOK, Sizes, Cache
<1>7. Accesses'
  BY <1>1, <1>2, <1>3, <1>4 DEF Accesses
<1>8. CachedOpen' /\ OnePlace'
  BY <1>2, <1>3, GlobalUntouched
<1> QED BY <1>6, <1>7, <1>8 DEF CacheInv

LEMMA CacheStep ==
  ASSUME CacheInv, [Next]_vars
  PROVE  CacheInv'
<1>1. CASE UNCHANGED vars
  BY <1>1 DEF CacheInv, TypeOK, OneEntryEach, CachedOpen, Held, Sizes, Accesses, OnePlace, vars
<1>2. CASE Close
  <2>1. <<>> \in Seq(Entry) /\ Len(<<>>) = 0 /\ DOMAIN <<>> = {} /\ 0 <= LocalSize
    BY CacheAssumption
  <2> QED
    BY <1>2, <2>1 DEF Close, CacheInv, TypeOK, OneEntryEach, CachedOpen, Held, Sizes, Accesses,
       OnePlace
<1>3. ASSUME NEW t \in Thread,
             \/ SearchPack(t) \/ Get(t) \/ Touch(t) \/ TouchFails(t)
             \/ Pop(t) \/ Insert(t) \/ Store(t) \/ Search(t)
      PROVE  CacheInv'
  BY <1>3, QuietStep, LocalStep, PopStep, InsertStep
<1> QED BY <1>1, <1>2, <1>3 DEF Next
-----------------------------------------------------------------------------
(* The connections of the router.                                          *)
Open(s) ==
  /\ s \in Seq(Pack)
  /\ \A m, n \in 1 .. Len(s) : s[m] = s[n] => m = n

(* Whether p was open or not, its connection becomes the last, and the     *)
(* others keep their order.                                                *)
LEMMA MostRecentProperties ==
  ASSUME Open(open), NEW p \in Pack
  PROVE  /\ Open(MostRecent(p))
         /\ Len(MostRecent(p)) \in Nat \ {0}
         /\ Len(MostRecent(p)) <= Len(open) + 1
         /\ MostRecent(p)[Len(MostRecent(p))] = p
         /\ \A q \in ToSet(open) : \E n \in 1 .. Len(MostRecent(p)) : MostRecent(p)[n] = q
         /\ \A m, n \in 1 .. Len(MostRecent(p)) : m < n /\ n < Len(MostRecent(p)) =>
              \E j, k \in 1 .. Len(open) :
                j < k /\ MostRecent(p)[m] = open[j] /\ MostRecent(p)[n] = open[k]
<1>1. /\ open \in Seq(Pack) /\ Len(open) \in Nat /\ DOMAIN open = 1 .. Len(open)
      /\ \A m, n \in 1 .. Len(open) : open[m] = open[n] => m = n
      /\ \A n \in 1 .. Len(open) : open[n] \in Pack
  BY DEF Open
<1> DEFINE a == MostRecent(p)
<1>2. CASE p \in ToSet(open)
  <2> DEFINE i == CHOOSE n \in DOMAIN open : open[n] = p
             w == RemoveAt(open, i)
             from(n) == IF n < i THEN n ELSE n + 1
  <2>1. i \in 1 .. Len(open) /\ open[i] = p
    <3>1. \E n \in DOMAIN open : open[n] = p
      BY <1>2 DEF ToSet
    <3> QED BY <3>1, <1>1
  <2>2. a = Append(w, p)
    BY <1>2 DEF MostRecent
  <2> HIDE DEF i, a
  <2>3. /\ w \in Seq(Pack) /\ Len(w) = Len(open) - 1
        /\ \A k \in 1 .. Len(open) - 1 : w[k] = IF k < i THEN open[k] ELSE open[k + 1]
    BY <1>1, <2>1, RemoveAtProperties
  <2> HIDE DEF w
  <2>4. /\ a \in Seq(Pack) /\ Len(a) = Len(open)
        /\ \A n \in 1 .. Len(open) - 1 : a[n] = w[n]
        /\ a[Len(open)] = p
    <3>1. /\ Append(w, p) \in Seq(Pack) /\ Len(Append(w, p)) = Len(w) + 1
          /\ \A n \in 1 .. Len(w) : Append(w, p)[n] = w[n]
          /\ Append(w, p)[Len(w) + 1] = p
      BY <2>3, AppendProperties
    <3>2. Len(w) + 1 = Len(open)
      BY <1>1, <2>3
    <3> QED BY <2>2, <2>3, <3>1, <3>2
  <2>5. \A n \in 1 .. Len(open) - 1 :
          from(n) \in 1 .. Len(open) /\ from(n) # i /\ a[n] = open[from(n)]
    BY <1>1, <2>1, <2>3, <2>4
  <2>6. \A m, n \in 1 .. Len(open) - 1 :
          (from(m) = from(n) => m = n) /\ (m < n => from(m) < from(n))
    BY <1>1, <2>1
  <2>7. \A j \in 1 .. Len(open) : j # i => \E n \in 1 .. Len(open) - 1 : from(n) = j
    <3> SUFFICES ASSUME NEW j \in 1 .. Len(open), j # i
                 PROVE  \E n \in 1 .. Len(open) - 1 : from(n) = j
      OBVIOUS
    <3>1. CASE j < i
      <4>1. j \in 1 .. Len(open) - 1 /\ from(j) = j
        BY <1>1, <2>1, <3>1
      <4> QED BY <4>1
    <3>2. CASE j > i
      <4>1. j - 1 \in 1 .. Len(open) - 1 /\ from(j - 1) = j
        BY <1>1, <2>1, <3>2
      <4> QED BY <4>1
    <3>3. j < i \/ j > i
      BY <1>1, <2>1
    <3> QED BY <3>1, <3>2, <3>3
  <2> HIDE DEF from
  <2>8. ASSUME NEW n \in 1 .. Len(open)
        PROVE  n \in 1 .. Len(open) - 1 \/ n = Len(open)
    <3>1. Len(open) \in Nat
      BY <1>1
    <3> QED BY <3>1
  <2>9. ASSUME NEW m \in 1 .. Len(open), NEW n \in 1 .. Len(open), a[m] = a[n]
        PROVE  m = n
    <3>1. CASE m \in 1 .. Len(open) - 1 /\ n \in 1 .. Len(open) - 1
      BY <1>1, <2>5, <2>6, <2>9, <3>1
    <3>2. \A k \in 1 .. Len(open) - 1 : a[k] # a[Len(open)]
      BY <1>1, <2>1, <2>4, <2>5
    <3> QED BY <2>8, <2>9, <3>1, <3>2
  <2>10. \A q \in ToSet(open) : \E n \in 1 .. Len(open) : a[n] = q
    <3> SUFFICES ASSUME NEW j \in 1 .. Len(open)
                 PROVE  \E n \in 1 .. Len(open) : a[n] = open[j]
      BY <1>1 DEF ToSet
    <3>1. CASE j = i
      <4>1. Len(open) \in 1 .. Len(open)
        BY <1>1
      <4> QED BY <3>1, <4>1, <2>1, <2>4
    <3>2. CASE j # i
      <4>1. PICK n \in 1 .. Len(open) - 1 : from(n) = j
        BY <3>2, <2>7
      <4>2. n \in 1 .. Len(open)
        BY <1>1
      <4> QED BY <4>1, <4>2, <2>5
    <3> QED BY <3>1, <3>2
  <2>11. \A m, n \in 1 .. Len(open) : m < n /\ n < Len(open) =>
           \E j, k \in 1 .. Len(open) : j < k /\ a[m] = open[j] /\ a[n] = open[k]
    <3> SUFFICES ASSUME NEW m \in 1 .. Len(open), NEW n \in 1 .. Len(open),
                        m < n, n < Len(open)
                 PROVE  \E j, k \in 1 .. Len(open) : j < k /\ a[m] = open[j] /\ a[n] = open[k]
      OBVIOUS
    <3>1. m \in 1 .. Len(open) - 1 /\ n \in 1 .. Len(open) - 1
      BY <1>1
    <3> QED BY <3>1, <2>5, <2>6
  <2>12. Len(open) \in Nat \ {0}
    BY <1>1, <2>1
  <2>13. Len(a) <= Len(open) + 1
    BY <1>1, <2>4
  <2> QED BY <2>4, <2>9, <2>10, <2>11, <2>12, <2>13 DEF Open, a
<1>3. CASE p \notin ToSet(open)
  <2>1. a = Append(open, p)
    BY <1>3 DEF MostRecent
  <2> HIDE DEF a
  <2>2. /\ a \in Seq(Pack) /\ Len(a) = Len(open) + 1
        /\ \A n \in 1 .. Len(open) : a[n] = open[n]
        /\ a[Len(open) + 1] = p
    BY <1>1, <2>1, AppendProperties
  <2>3. \A n \in 1 .. Len(open) : open[n] # p
    BY <1>1, <1>3 DEF ToSet
  <2>4. \A n \in 1 .. Len(open) + 1 : n \in 1 .. Len(open) \/ n = Len(open) + 1
    BY <1>1
  <2>5. \A m, n \in 1 .. Len(open) + 1 : a[m] = a[n] => m = n
    BY <1>1, <2>2, <2>3, <2>4
  <2>6. \A q \in ToSet(open) : \E n \in 1 .. Len(open) + 1 : a[n] = q
    <3> SUFFICES ASSUME NEW j \in 1 .. Len(open)
                 PROVE  \E n \in 1 .. Len(open) + 1 : a[n] = open[j]
      BY <1>1 DEF ToSet
    <3>1. j \in 1 .. Len(open) + 1
      BY <1>1
    <3> QED BY <2>2, <3>1
  <2>7. \A m, n \in 1 .. Len(open) + 1 : m < n /\ n < Len(open) + 1 =>
           \E j, k \in 1 .. Len(open) : j < k /\ a[m] = open[j] /\ a[n] = open[k]
    <3> SUFFICES ASSUME NEW m \in 1 .. Len(open) + 1, NEW n \in 1 .. Len(open) + 1,
                        m < n, n < Len(open) + 1
                 PROVE  \E j, k \in 1 .. Len(open) : j < k /\ a[m] = open[j] /\ a[n] = open[k]
      OBVIOUS
    <3>1. m \in 1 .. Len(open) /\ n \in 1 .. Len(open)
      BY <1>1
    <3> QED BY <3>1, <2>2
  <2>8. Len(open) + 1 \in Nat \ {0}
    BY <1>1
  <2> QED BY <2>2, <2>5, <2>6, <2>7, <2>8 DEF Open, a
<1> QED BY <1>2, <1>3

(* With the connections a query has got, those it is still to get and the  *)
(* core pack's all in their places, no connection it has is evicted.       *)
LEMMA ConnectKeeps ==
  ASSUME Open(open), Len(open) <= MaxOpenPacks, held \subseteq ToSet(open), stale = {},
         \A m, n \in 1 .. Len(open) :
           m < n /\ open[m] \in held => open[n] \in held \cup {CorePack},
         NEW p \in Pack, Connect(p), NEW H, held \subseteq H, H \subseteq held \cup {p},
         p \in H \cup {CorePack},
         IsFiniteSet(H \cup {CorePack}), Cardinality(H \cup {CorePack}) <= MaxOpenPacks
  PROVE  /\ Open(open') /\ Len(open') <= MaxOpenPacks
         /\ H \subseteq ToSet(open')
         /\ \A m, n \in 1 .. Len(open') :
              m < n /\ open'[m] \in H => open'[n] \in H \cup {CorePack}
         /\ stale' = {}
<1> DEFINE a == MostRecent(p)
           x == IF Len(a) > MaxOpenPacks THEN Len(a) - MaxOpenPacks ELSE 0
<1>1. /\ open \in Seq(Pack) /\ Len(open) \in Nat /\ DOMAIN open = 1 .. Len(open)
      /\ MaxOpenPacks \in Nat \ {0}
  BY RouterAssumption DEF Open
<1>2. /\ open' = SubSeq(a, x + 1, Len(a))
      /\ stale' = stale \cup (held \cap ToSet(SubSeq(a, 1, x)))
  BY DEF Connect
<1>3. /\ a \in Seq(Pack) /\ Len(a) \in Nat \ {0} /\ DOMAIN a = 1 .. Len(a)
      /\ \A m, n \in 1 .. Len(a) : a[m] = a[n] => m = n
      /\ Len(a) <= Len(open) + 1 /\ a[Len(a)] = p
      /\ \A q \in ToSet(open) : \E n \in 1 .. Len(a) : a[n] = q
  BY MostRecentProperties DEF Open
<1>4. \A m, n \in 1 .. Len(a) : m < n /\ n < Len(a) =>
        \E j, k \in 1 .. Len(open) : j < k /\ a[m] = open[j] /\ a[n] = open[k]
  BY MostRecentProperties
<1> HIDE DEF a
<1>5. ASSUME NEW m \in 1 .. Len(a), NEW n \in 1 .. Len(a), m < n, a[m] \in H
      PROVE  a[n] \in H \cup {CorePack}
  <2>1. CASE n = Len(a)
    BY <2>1, <1>3
  <2>2. CASE n # Len(a)
    <3>1. n < Len(a) /\ Len(a) \in 1 .. Len(a) /\ m # Len(a)
      <4>1. Len(a) \in Nat
        BY <1>3
      <4> QED BY <4>1, <1>5, <2>2
    <3>2. a[m] # p
      BY <1>3, <3>1
    <3>3. a[m] \in held
      BY <1>5, <3>2
    <3> QED BY <1>4, <1>5, <3>1, <3>3
  <2> QED BY <2>1, <2>2
<1>6. x \in {0, 1} /\ x < Len(a) /\ x \in 0 .. Len(a) /\ Len(a) - x <= MaxOpenPacks
      /\ (x = 1 => Len(a) > MaxOpenPacks)
  <2>1. /\ Len(a) \in Nat \ {0} /\ MaxOpenPacks \in Nat \ {0} /\ Len(open) \in Nat
        /\ Len(a) <= Len(open) + 1
    BY <1>1, <1>3
  <2> QED BY <2>1
<1> HIDE DEF x
<1>7. x = 1 => a[1] \notin H
  <2> SUFFICES ASSUME x = 1, a[1] \in H PROVE FALSE
    OBVIOUS
  <2>1. \A n \in 1 .. Len(a) : a[n] \in H \cup {CorePack}
    <3> SUFFICES ASSUME NEW n \in 1 .. Len(a) PROVE a[n] \in H \cup {CorePack}
      OBVIOUS
    <3>1. 1 \in 1 .. Len(a) /\ (n = 1 \/ 1 < n)
      BY <1>3
    <3> QED BY <3>1, <1>5
  <2> DEFINE f == [n \in 1 .. Len(a) |-> a[n]]
             S == H \cup {CorePack}
  <2>2. f \in [1 .. Len(a) -> S] /\ \A m, n \in 1 .. Len(a) : f[m] = f[n] => m = n
    BY <1>3, <2>1
  <2>3. IsFiniteSet(S) /\ Cardinality(S) <= MaxOpenPacks
    OBVIOUS
  <2> HIDE DEF f, S
  <2>4. Len(a) <= Cardinality(S)
    BY <1>3, <2>2, <2>3, NoLonger
  <2>5. Cardinality(S) \in Nat
    BY <2>3, FS_CardinalityType
  <2> QED BY <1>1, <1>3, <1>6, <2>3, <2>4, <2>5
<1>8. /\ open' \in Seq(Pack) /\ Len(open') = Len(a) - x
      /\ \A n \in 1 .. Len(a) - x : open'[n] = a[n + x]
  <2>1. a \in Seq(Pack) /\ x \in 0 .. Len(a) /\ open' = SubSeq(a, x + 1, Len(a))
    BY <1>2, <1>3, <1>6
  <2>2. /\ SubSeq(a, x + 1, Len(a)) \in Seq(Pack)
        /\ Len(SubSeq(a, x + 1, Len(a))) = Len(a) - x
        /\ \A n \in 1 .. Len(a) - x : SubSeq(a, x + 1, Len(a))[n] = a[n + x]
    BY ONLY <2>1, TailEnd
  <2> QED BY <2>1, <2>2
<1>9. \A n \in 1 .. Len(a) - x : n + x \in 1 .. Len(a)
  BY <1>3, <1>6
<1>10. Open(open')
  <2> SUFFICES ASSUME NEW m \in 1 .. Len(a) - x, NEW n \in 1 .. Len(a) - x,
                      open'[m] = open'[n]
               PROVE  m = n
    BY <1>8 DEF Open
  <2>1. m + x = n + x
    BY <1>3, <1>8, <1>9
  <2> QED BY <2>1, <1>3, <1>6
<1>11. H \subseteq ToSet(open')
  <2> SUFFICES ASSUME NEW q \in H PROVE \E n \in 1 .. Len(open') : open'[n] = q
    BY <1>8 DEF ToSet
  <2>1. PICK k \in 1 .. Len(a) : a[k] = q
    <3>1. Len(a) \in 1 .. Len(a)
      BY <1>3
    <3> QED BY <1>3, <3>1
  <2>2. k > x
    <3>1. x = 1 => k # 1
      BY <1>7, <2>1
    <3> QED BY <1>6, <3>1
  <2>3. k - x \in 1 .. Len(a) - x /\ (k - x) + x = k
    BY <1>3, <1>6, <2>2
  <2> DEFINE n == k - x
  <2>4. n \in 1 .. Len(open') /\ n + x = k
    BY <1>8, <2>3
  <2> HIDE DEF n
  <2> QED BY <1>8, <2>1, <2>4
<1>12. ASSUME NEW m \in 1 .. Len(open'), NEW n \in 1 .. Len(open'), m < n, open'[m] \in H
       PROVE  open'[n] \in H \cup {CorePack}
  <2>1. /\ m + x \in 1 .. Len(a) /\ n + x \in 1 .. Len(a)
        /\ open'[m] = a[m + x] /\ open'[n] = a[n + x]
    BY <1>8, <1>9
  <2>2. m + x < n + x
    BY <1>6, <1>3, <1>8, <1>12
  <2> QED BY <1>5, <1>12, <2>1, <2>2
<1>13. stale' = {}
  <2>1. SubSeq(a, 1, x) \in Seq(Pack) /\ Len(SubSeq(a, 1, x)) = x
        /\ \A n \in 1 .. x : SubSeq(a, 1, x)[n] = a[n]
    BY <1>3, <1>6
  <2>2. \A q \in ToSet(SubSeq(a, 1, x)) : \E n \in 1 .. x : q = a[n]
    <3>1. DOMAIN SubSeq(a, 1, x) = 1 .. x
      BY <2>1
    <3> QED BY <2>1, <3>1 DEF ToSet
  <2>3. \A n \in 1 .. x : x = 1 /\ n = 1
    BY <1>6
  <2>4. held \cap ToSet(SubSeq(a, 1, x)) = {}
    BY <1>7, <2>2, <2>3
  <2> QED BY <1>2, <2>4
<1>14. Len(open') <= MaxOpenPacks
  BY <1>6, <1>8
<1> QED BY <1>10, <1>11, <1>12, <1>13, <1>14

(* The packs of a query, with the core pack, have places.                  *)
LEMMA Fitting ==
  ASSUME NEW H, H \subseteq Packs(DOMAIN PackOf), Cardinality(H) <= FrontierPacks
  PROVE  /\ IsFiniteSet(H)
         /\ \A G \in SUBSET H : /\ IsFiniteSet(G \cup {CorePack})
                                /\ Cardinality(G \cup {CorePack}) <= MaxOpenPacks
                                /\ Cardinality(G) <= FrontierPacks
<1> DEFINE f == [l \in DOMAIN PackOf |-> PackOf[l]]
           T == {PackOf[l] : l \in DOMAIN PackOf}
<1>1. f \in Surjection(DOMAIN PackOf, T)
  BY DEF Surjection
<1>2. IsFiniteSet(T)
  BY <1>1, RouterAssumption, FS_Surjection
<1>3. H \subseteq T
  BY DEF Packs
<1>4. IsFiniteSet(H)
  BY <1>2, <1>3, FS_Subset
<1>5. ASSUME NEW G \in SUBSET H
      PROVE  /\ IsFiniteSet(G \cup {CorePack})
             /\ Cardinality(G \cup {CorePack}) <= MaxOpenPacks
             /\ Cardinality(G) <= FrontierPacks
  <2>1. IsFiniteSet(G) /\ Cardinality(G) <= Cardinality(H)
    BY <1>4, FS_Subset
  <2>2. /\ IsFiniteSet(G \cup {CorePack})
        /\ Cardinality(G \cup {CorePack})
             = IF CorePack \in G THEN Cardinality(G) ELSE Cardinality(G) + 1
    BY <2>1, FS_AddElement
  <2>3. /\ Cardinality(G) \in Nat /\ Cardinality(H) \in Nat
        /\ MaxOpenPacks \in Nat /\ FrontierPacks \in 1 .. MaxOpenPacks - 1
    BY <1>4, <2>1, RouterAssumption, FS_CardinalityType
  <2> QED BY <2>1, <2>2, <2>3
<1> QED BY <1>4, <1>5

LEMMA RouterStart ==
  ASSUME RouterInit
  PROVE  CacheInv /\ RouterInv
<1>1. CacheInv
  BY CacheInit DEF RouterInit
<1>2. open \in Seq(Pack) /\ Len(open) = 0 /\ DOMAIN open = {}
  BY DEF RouterInit
<1>3. held \cup Packs(asked) = {}
  BY DEF RouterInit, Packs
<1>4. Cardinality({}) = 0
  BY FS_EmptySet
<1>5. 0 <= FrontierPacks /\ 0 <= MaxOpenPacks
  BY RouterAssumption
<1>6. RouterTypes /\ UsedLast
  BY <1>2, <1>3, <1>4, <1>5 DEF RouterInit, RouterTypes, UsedLast
<1> QED BY <1>1, <1>6 DEF RouterInv, RouterInit

(* Reading the catalogue, whoever does it.                                 *)
LEMMA CoverageStep ==
  ASSUME RouterInv, Coverage, UNCHANGED held, asked' \subseteq asked
  PROVE  RouterInv'
<1>1. /\ Open(open) /\ Len(open) <= MaxOpenPacks /\ held \subseteq ToSet(open)
      /\ DOMAIN open = 1 .. Len(open) /\ stale = {}
      /\ \A m, n \in 1 .. Len(open) :
           m < n /\ open[m] \in held => open[n] \in held \cup {CorePack}
  <2>1. DOMAIN open = 1 .. Len(open)
    BY DEF RouterInv, RouterTypes
  <2> QED BY <2>1 DEF RouterInv, RouterTypes, UsedLast, Open
<1>2. /\ held \cup Packs(asked) \subseteq Packs(DOMAIN PackOf)
      /\ Cardinality(held \cup Packs(asked)) <= FrontierPacks
      /\ held \cup Packs(asked') \subseteq held \cup Packs(asked)
  BY DEF RouterInv, RouterTypes, UsedLast, Packs
<1>3. /\ IsFiniteSet(held \cup {CorePack}) /\ Cardinality(held \cup {CorePack}) <= MaxOpenPacks
      /\ Cardinality(held \cup Packs(asked')) <= FrontierPacks
  BY <1>2, Fitting
<1>4. /\ Open(open') /\ Len(open') <= MaxOpenPacks /\ held \subseteq ToSet(open')
      /\ \A m, n \in 1 .. Len(open') :
           m < n /\ open'[m] \in held => open'[n] \in held \cup {CorePack}
      /\ stale' = {}
  <2>1. CASE coverage
    BY <1>1, <2>1 DEF Coverage
  <2>2. CASE ~coverage
    <3>1. Connect(CorePack) /\ CorePack \in Pack
      BY <2>2 DEF Coverage, Pack
    <3> QED BY <1>1, <1>3, <3>1, ConnectKeeps
  <2> QED BY <2>1, <2>2
<1>5. DOMAIN open' = 1 .. Len(open')
  BY <1>4 DEF Open
<1>6. RouterTypes'
  BY <1>4, <1>5 DEF RouterInv, RouterTypes, Open, Coverage
<1>7. UsedLast'
  BY <1>3, <1>4, <1>5 DEF UsedLast, Packs
<1> QED BY <1>4, <1>6, <1>7 DEF RouterInv

LEMMA RouteStep ==
  ASSUME RouterInv, NEW l \in asked, asked' = asked \ {l}, PackOf[l] # None,
         Connect(PackOf[l]), held' = held \cup {PackOf[l]}, UNCHANGED coverage
  PROVE  RouterInv'
<1> DEFINE p == PackOf[l]
           H == held \cup {p}
<1>1. /\ Open(open) /\ Len(open) <= MaxOpenPacks /\ held \subseteq ToSet(open)
      /\ stale = {}
      /\ \A m, n \in 1 .. Len(open) :
           m < n /\ open[m] \in held => open[n] \in held \cup {CorePack}
  <2>1. DOMAIN open = 1 .. Len(open)
    BY DEF RouterInv, RouterTypes
  <2> QED BY <2>1 DEF RouterInv, RouterTypes, UsedLast, Open
<1>2. p \in Packs(asked) /\ p \in Packs(DOMAIN PackOf) /\ p \in Pack
  BY DEF RouterInv, RouterTypes, Packs, Pack
<1>3. /\ held \cup Packs(asked) \subseteq Packs(DOMAIN PackOf)
      /\ Cardinality(held \cup Packs(asked)) <= FrontierPacks
      /\ H \in SUBSET (held \cup Packs(asked))
      /\ H \cup Packs(asked') \subseteq held \cup Packs(asked)
  BY <1>2 DEF RouterInv, RouterTypes, UsedLast, Packs
<1> HIDE DEF p, H
<1>4. /\ IsFiniteSet(H \cup {CorePack}) /\ Cardinality(H \cup {CorePack}) <= MaxOpenPacks
      /\ Cardinality(H \cup Packs(asked')) <= FrontierPacks
  BY <1>3, Fitting
<1>5. held \subseteq H /\ H \subseteq held \cup {p} /\ p \in H \cup {CorePack} /\ Connect(p) /\ held' = H
  BY DEF H, p
<1>6. /\ Open(open') /\ Len(open') <= MaxOpenPacks /\ H \subseteq ToSet(open')
      /\ \A m, n \in 1 .. Len(open') :
           m < n /\ open'[m] \in H => open'[n] \in H \cup {CorePack}
      /\ stale' = {}
  BY <1>1, <1>2, <1>4, <1>5, ConnectKeeps
<1>7. DOMAIN open' = 1 .. Len(open')
  BY <1>6 DEF Open
<1>8. RouterTypes'
  BY <1>2, <1>5, <1>6, <1>7 DEF RouterInv, RouterTypes, Open, H
<1>9. UsedLast'
  BY <1>4, <1>5, <1>6, <1>7 DEF UsedLast, Packs
<1> QED BY <1>6, <1>8, <1>9 DEF RouterInv

LEMMA RouterStep ==
  ASSUME RouterInv, [RouterNext]_<<vars, routerVars>>
  PROVE  RouterInv'
<1>1. CASE UNCHANGED routerVars
  BY <1>1 DEF RouterInv, RouterTypes, UsedLast, routerVars, Packs
<1>2. CASE Request
  <2>1. PICK languages \in SUBSET DOMAIN PackOf :
          Cardinality(Packs(languages)) <= FrontierPacks /\ asked' = languages
    BY <1>2 DEF Request
  <2>2. held = {} /\ UNCHANGED <<open, coverage, held, stale>>
    BY <1>2 DEF Request
  <2>3. held' \cup Packs(asked)' = Packs(languages)
    BY <2>1, <2>2 DEF Packs
  <2>4. UsedLast'
    BY <2>1, <2>2, <2>3 DEF RouterInv, UsedLast
  <2> QED BY <2>1, <2>2, <2>4 DEF RouterInv, RouterTypes
<1>3. CASE Route
  <2>1. PICK l \in asked :
          /\ asked' = asked \ {l}
          /\ IF PackOf[l] = None THEN Coverage /\ UNCHANGED held
             ELSE /\ Connect(PackOf[l])
                  /\ held' = held \cup {PackOf[l]}
                  /\ UNCHANGED coverage
    BY <1>3 DEF Route
  <2>2. CASE PackOf[l] = None
    BY <2>1, <2>2, CoverageStep
  <2>3. CASE PackOf[l] # None
    BY <2>1, <2>3, RouteStep
  <2> QED BY <2>2, <2>3
<1>4. CASE Return
  <2>1. held' = {} /\ stale' = {} /\ asked' = {} /\ asked = {} /\ UNCHANGED <<open, coverage>>
    BY <1>4 DEF Return
  <2>2. held' \cup Packs(asked)' = {}
    BY <2>1 DEF Packs
  <2>3. Cardinality({}) = 0 /\ 0 <= FrontierPacks
    BY FS_EmptySet, RouterAssumption
  <2> QED BY <2>1, <2>2, <2>3 DEF RouterInv, RouterTypes, UsedLast
<1>5. ASSUME NEW t \in Thread, ReadCoverage(t) PROVE RouterInv'
  BY <1>5, CoverageStep DEF ReadCoverage
<1> QED BY <1>1, <1>2, <1>3, <1>4, <1>5 DEF RouterNext, routerVars

LEMMA CachesStep ==
  ASSUME CacheInv, [RouterNext]_<<vars, routerVars>>
  PROVE  CacheInv'
<1>1. [Next]_vars
  BY DEF RouterNext
<1> QED BY <1>1, CacheStep
-----------------------------------------------------------------------------
(* What the caches of the server keep at every step: their bounds, one     *)
(* entry each, one place for an index object, and of the connections the   *)
(* query's own as those used last.                                         *)
THEOREM CachesInvariant == RouterSpec => [](CacheInv /\ RouterInv)
<1>1. RouterInit => CacheInv /\ RouterInv
  BY RouterStart
<1>2. CacheInv /\ RouterInv /\ [RouterNext]_<<vars, routerVars>> => (CacheInv /\ RouterInv)'
  BY CachesStep, RouterStep
<1> QED BY <1>1, <1>2, PTL DEF RouterSpec

(* Whatever threads and the event loop do to the router, a query uses no   *)
(* connection that the router's cache has evicted and closed (router.py),  *)
(* if the packs of a query leave room for the core pack.                   *)
THEOREM ConnectionsStayOpen == RouterSpec => []NoClosedUse
<1>1. RouterInv => NoClosedUse
  BY DEF RouterInv, NoClosedUse
<1> QED BY <1>1, CachesInvariant, PTL

(* An index that _load_index takes out of the global cache has never been  *)
(* reset, however small that cache and however many the languages          *)
(* (semantic.py): only the other cache can hand out a reset one.           *)
THEOREM GlobalCacheOpen == RouterSpec => []CachesSound
<1>1. CacheInv => CachesSound
  BY DEF CacheInv, CachesSound
<1> QED BY <1>1, CachesInvariant, PTL
=============================================================================
