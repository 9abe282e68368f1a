---------------------------- MODULE PackIndexCache ----------------------------
(***************************************************************************)
(* The two least-recently-used caches a semantic index passes through:     *)
(* PackSemanticSearch._indexes, keyed by language                          *)
(* (runtime/pack_semantic.py), in front of the process-wide _INDEX_CACHE,  *)
(* keyed by path (runtime/semantic.py).  Only the second closes, by        *)
(* reset(), the index it evicts.  The server's threads share both without  *)
(* a lock; one operation on a dictionary is one step, and so is an insert  *)
(* with the evictions that follow it.                                      *)
(*                                                                         *)
(* A cache is a sequence of entries, the least recently used first.  An    *)
(* index object that nothing refers to any more is garbage and its name    *)
(* is used again.  A pack serves one language here, so a language stands   *)
(* for its path.                                                           *)
(*                                                                         *)
(* An operator marked "Defect" is no part of the specification: it is the  *)
(* definition below it with a plausible bug, which a property must catch.  *)
(***************************************************************************)
EXTENDS Naturals, FiniteSets, SequencesExt

CONSTANTS
  Thread,     \* server threads that search semantic packs
  Language,   \* languages with an installed semantic pack
  Index,      \* names for index objects
  None,       \* no language, no index
  LocalSize,  \* max_open_indexes
  GlobalSize  \* _INDEX_CACHE_SIZE

(* There are names enough for every entry and every thread. *)
ASSUME CacheAssumption ==
  /\ IsFiniteSet(Thread) /\ IsFiniteSet(Language) /\ IsFiniteSet(Index)
  /\ LocalSize \in Nat \ {0}
  /\ GlobalSize \in Nat \ {0}
  /\ None \notin Language \cup Index
  /\ Cardinality(Index) > LocalSize + GlobalSize + Cardinality(Thread)

VARIABLES
  indexes,     \* _indexes
  INDEX_CACHE, \* _INDEX_CACHE
  reset,       \* the index objects that have been reset
  closed,      \* _closed
  pc, language, index  \* the access to one pack under way, by thread

vars == <<indexes, INDEX_CACHE, reset, closed, pc, language, index>>

Entry == [language : Language, index : Index]
Keys(cache) == {cache[n].language : n \in DOMAIN cache}
Held(cache) == {cache[n].index : n \in DOMAIN cache}
Place(cache, l) == CHOOSE n \in DOMAIN cache : cache[n].language = l
Lookup(cache, l) == cache[Place(cache, l)]
Without(cache, l) == RemoveAt(cache, Place(cache, l))

(* OrderedDict item assignment, which keeps the place of a key it has. *)
Assign(cache, l, x) ==
  LET e == [language |-> l, index |-> x] IN
  IF l \in Keys(cache)
  THEN [n \in DOMAIN cache |-> IF cache[n].language = l THEN e ELSE cache[n]]
  ELSE Append(cache, e)

MoveToEnd(cache, l) == Append(Without(cache, l), Lookup(cache, l))

(* The entries above a cache's size, which popitem(last=False) removes. *)
Evicted(cache, size) == SubSeq(cache, 1, IF Len(cache) > size THEN Len(cache) - size ELSE 0)
Kept(cache, size) == SubSeq(cache, 1 + Len(Evicted(cache, size)), Len(cache))

InUse == Held(indexes) \cup Held(INDEX_CACHE) \cup {index[t] : t \in Thread}
Fresh == CHOOSE x \in Index : x \notin InUse

Init ==
  /\ indexes = <<>>
  /\ INDEX_CACHE = <<>>
  /\ reset = {}
  /\ closed = FALSE
  /\ pc = [t \in Thread |-> "idle"]
  /\ language = [t \in Thread |-> None]
  /\ index = [t \in Thread |-> None]

Goto(t, from, to) ==
  /\ pc[t] = from
  /\ pc' = [pc EXCEPT ![t] = to]
-----------------------------------------------------------------------------
(* search() reaches a pack: the target language's, or each in turn. *)
SearchPack(t) ==
  /\ Goto(t, "idle", "get")
  /\ ~closed
  /\ \E l \in Language : language' = [language EXCEPT ![t] = l]
  /\ UNCHANGED <<indexes, INDEX_CACHE, reset, closed, index>>

Get(t) ==
  LET l == language[t] IN
  /\ IF l \in Keys(indexes)
     THEN /\ Goto(t, "get", "touch")
          /\ index' = [index EXCEPT ![t] = Lookup(indexes, l).index]
     ELSE Goto(t, "get", "pop") /\ UNCHANGED index
  /\ UNCHANGED <<indexes, INDEX_CACHE, reset, closed, language>>

(* A hit moves the entry to the end of _indexes only. *)
Touch(t) ==
  /\ Goto(t, "touch", "search")
  /\ language[t] \in Keys(indexes)
  /\ indexes' = MoveToEnd(indexes, language[t])
  /\ UNCHANGED <<INDEX_CACHE, reset, closed, language, index>>

(* move_to_end raises when another thread has just evicted the entry. *)
TouchFails(t) ==
  /\ Goto(t, "touch", "idle")
  /\ language[t] \notin Keys(indexes)
  /\ language' = [language EXCEPT ![t] = None]
  /\ index' = [index EXCEPT ![t] = None]
  /\ UNCHANGED <<indexes, INDEX_CACHE, reset, closed>>

(* Defect: the entry is looked up and stays in the cache. *)
PopKeeps(t) ==
  LET l == language[t]
      x == IF l \in Keys(INDEX_CACHE) THEN Lookup(INDEX_CACHE, l).index ELSE Fresh
  IN  /\ Goto(t, "pop", "insert")
      /\ index' = [index EXCEPT ![t] = x]
      /\ reset' = IF x = Fresh THEN reset \ {x} ELSE reset
      /\ UNCHANGED <<INDEX_CACHE, indexes, closed, language>>

(* _load_index takes an entry it finds out of the global cache.  An index  *)
(* in that cache is never a reset one, so its count is what is expected.   *)
Pop(t) ==
  LET l == language[t] IN
  /\ Goto(t, "pop", "insert")
  /\ IF l \in Keys(INDEX_CACHE)
     THEN /\ index' = [index EXCEPT ![t] = Lookup(INDEX_CACHE, l).index]
          /\ INDEX_CACHE' = Without(INDEX_CACHE, l)
          /\ UNCHANGED reset
     ELSE /\ index' = [index EXCEPT ![t] = Fresh]
          /\ reset' = reset \ {Fresh}
          /\ UNCHANGED INDEX_CACHE
  /\ UNCHANGED <<indexes, closed, language>>

(* It puts the index at the end, and resets those it has to evict. *)
Insert(t) ==
  LET all == Assign(INDEX_CACHE, language[t], index[t]) IN
  /\ Goto(t, "insert", "store")
  /\ INDEX_CACHE' = Kept(all, GlobalSize)
  /\ reset' = reset \cup Held(Evicted(all, GlobalSize))
  /\ UNCHANGED <<indexes, closed, language, index>>

Store(t) ==
  /\ Goto(t, "store", "search")
  /\ indexes' = Kept(Assign(indexes, language[t], index[t]), LocalSize)
  /\ UNCHANGED <<INDEX_CACHE, reset, closed, language, index>>

Search(t) ==
  /\ Goto(t, "search", "idle")
  /\ language' = [language EXCEPT ![t] = None]
  /\ index' = [index EXCEPT ![t] = None]
  /\ UNCHANGED <<indexes, INDEX_CACHE, reset, closed>>

Close ==
  /\ ~closed
  /\ closed' = TRUE
  /\ indexes' = <<>>
  /\ UNCHANGED <<INDEX_CACHE, reset, pc, language, index>>

Next ==
  \/ \E t \in Thread :
       \/ SearchPack(t) \/ Get(t) \/ Touch(t) \/ TouchFails(t)
       \/ Pop(t) \/ Insert(t) \/ Store(t) \/ Search(t)
  \/ Close

Spec == Init /\ [][Next]_vars
-----------------------------------------------------------------------------
OneEntryEach(cache) ==
  \A m, n \in DOMAIN cache : cache[m].language = cache[n].language => m = n

TypeOK ==
  /\ indexes \in Seq(Entry) /\ OneEntryEach(indexes)
  /\ INDEX_CACHE \in Seq(Entry) /\ OneEntryEach(INDEX_CACHE)
  /\ reset \subseteq Index
  /\ closed \in BOOLEAN
  /\ pc \in [Thread -> {"idle", "get", "touch", "pop", "insert", "store", "search"}]
  /\ language \in [Thread -> Language \cup {None}]
  /\ index \in [Thread -> Index \cup {None}]

(* An index that _load_index finds in the global cache has not been reset  *)
(* by an eviction, whoever took it out, put it back or replaced it         *)
(* meanwhile, so it has the length that is expected of it.  (Nothing of    *)
(* the kind holds of what _indexes finds: its hits do not count as uses of *)
(* the global cache, which resets indexes that are still in _indexes.)     *)
CachedOpen == Held(INDEX_CACHE) \cap reset = {}

(* The types of the variables, one entry a language, and what is cached.   *)
CachesSound == TypeOK /\ CachedOpen
-----------------------------------------------------------------------------
(* What keeps these invariant; the steps preserve CacheInv.                *)

Sizes == Len(indexes) <= LocalSize /\ Len(INDEX_CACHE) <= GlobalSize

(* What an access under way has in its hands.                              *)
Accesses ==
  \A t \in Thread :
    /\ pc[t] # "idle" => language[t] \in Language
    /\ pc[t] \in {"touch", "insert", "store", "search"} => index[t] \in Index

(* An index object has one place: an entry of the global cache, or the     *)
(* access that has taken it out or opened it.                              *)
OnePlace ==
  /\ \A m, n \in DOMAIN INDEX_CACHE : INDEX_CACHE[m].index = INDEX_CACHE[n].index => m = n
  /\ \A t \in Thread : pc[t] = "insert" =>
       /\ index[t] \notin Held(INDEX_CACHE) \cup reset
       /\ \A u \in Thread : pc[u] = "insert" /\ index[u] = index[t] => u = t

CacheInv == TypeOK /\ CachedOpen /\ Sizes /\ Accesses /\ OnePlace
=============================================================================
