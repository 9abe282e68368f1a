----------------------------- MODULE RelationQueries -----------------------------
(***************************************************************************)
(* dictionary_relations of runtime/service.py, over one corpus and over    *)
(* packs (runtime/pack_queries.py): oriented rows of a term, ranked in     *)
(* turns of their sources, and paths of two relations.  Which file answers *)
(* for a language is a view, language -> database.                         *)
(***************************************************************************)
EXTENDS PackContents

CONSTANTS
  Any,             \* no filter on the language of targets
  Width,           \* term -> its place by spaces, then length
  Spelling,        \* term -> its place by spelling
  Scan,            \* rows a query reads in either orientation
  FrontierScan,    \* the same for the first hop of a path
  FrontierBudget,  \* first hops that are followed
  Prefetch,        \* rows of a second hop in either orientation
  Branch           \* rows of a second hop that are kept

Synonym == 1
Hypernym == 3
Hyponym == 4
InverseCode(code) == CASE code = Hypernym -> Hyponym [] code = Hyponym -> Hypernym [] OTHER -> code
InverseDirection(d) == CASE d = 1 -> 2 [] d = 2 -> 1 [] d = 3 -> 3

ASSUME QueriesAssumption ==
  /\ Width \in [Term -> Nat] /\ Spelling \in [Term -> Nat]
  /\ \A t, u \in Term : LanguageOf[t] = LanguageOf[u] /\ Spelling[t] = Spelling[u] => t = u
  /\ {Scan, FrontierScan, FrontierBudget, Prefetch, Branch} \subseteq Nat \ {0}

ByTag(t) == <<Tag[LanguageOf[t]], Spelling[t]>>
Place(t) == <<Width[t]>> \o ByTag(t)

Pick(s, I) ==
  LET order == Sorted([i \in I |-> <<i>>]) IN [k \in DOMAIN order |-> s[order[k]]]

StableSort(s, key) ==
  LET order == Sorted([i \in DOMAIN s |-> key[i] \o <<i>>])
  IN [k \in DOMAIN order |-> s[order[k]]]

(* Every bucket gives one row a turn, buckets in the order of their keys;  *)
(* bucket and key are functions of the rows.                               *)
RoundRobin(bucket, key) ==
  LET turn == [r \in DOMAIN bucket |->
                 Cardinality({x \in DOMAIN bucket : bucket[x] = bucket[r] /\ Before(key[x], key[r])})]
  IN Sorted([r \in DOMAIN bucket |-> <<turn[r]>> \o bucket[r]])
-----------------------------------------------------------------------------
(* The counts a target is ranked by: those of its stub, or of the rows.    *)
CountsOf(db, t) == IF t \in DOMAIN db.stubs THEN db.stubs[t] ELSE CountIn(db, t)

Unsensed(r) == r.ssense = NoSense /\ r.tsense = NoSense

VariantKey(r) == <<IF Unsensed(r) THEN 1 ELSE 0, r.ssense, r.tsense, r.prov, r.dir>>

WithVariants(rows) ==
  {[r EXCEPT !.variant = 1 + Cardinality({x \in rows : x.target = r.target
                                                         /\ Before(VariantKey(x), VariantKey(r))})] :
     r \in rows}

Turned(r) ==
  [r EXCEPT !.source = r.target, !.ssense = r.tsense, !.target = r.source, !.tsense = r.ssense]

(* The relations of a term as they are stored (1) or backwards (2); a      *)
(* target is a headword or a stub.                                         *)
Candidates(db, q, orient) ==
  LET code == IF orient = 1 THEN q.code ELSE InverseCode(q.code)
      stored == {r \in db.relations : r.code = code}
      facing == IF orient = 1 THEN stored ELSE {Turned(r) : r \in stored}
      hits == {r \in facing :
                 /\ r.source = q.term /\ q.term \in db.terms
                 /\ r.target \in db.terms \cup DOMAIN db.stubs
                 /\ q.target \in {Any, LanguageOf[r.target]}
                 /\ q.sense \in {NoSense, r.ssense}}
  IN WithVariants(
       {[source |-> r.source, ssense |-> r.ssense, target |-> r.target, tsense |-> r.tsense,
         dir |-> r.dir, prov |-> r.prov, orient |-> orient, variant |-> 0, path |-> <<>>,
         entries |-> CountsOf(db, r.target).entries,
         senses |-> CountsOf(db, r.target).senses] : r \in hits})

QueryOrder(r) ==
  <<r.variant, -r.senses, -r.entries>> \o Place(r.target) \o <<r.tsense, r.prov, r.dir>>

PrefetchOrder(r) ==
  <<IF Unsensed(r) THEN 1 ELSE 0, IF r.tsense = NoSense THEN 1 ELSE 0>>
    \o Place(r.target) \o <<r.ssense, r.tsense, r.prov, r.dir>>

InQueryOrder(rows) == Sorted([r \in rows |-> QueryOrder(r)])

Prefetched(db, q, orient) ==
  Prefix(Sorted([r \in Candidates(db, q, orient) |-> PrefetchOrder(r)]), Prefetch)

RowsOf(s) == {s[i] : i \in DOMAIN s}

Oriented(rows) == {IF r.orient = 2 THEN [r EXCEPT !.dir = InverseDirection(@)] ELSE r : r \in rows}

(* _oriented_relation_rows, _relation_row_rank_key.                        *)
DirectRows(db, q, limit) ==
  Oriented(UNION {RowsOf(Prefix(InQueryOrder(Candidates(db, q, o)), limit)) : o \in {1, 2}})

RankKey(r) ==
  <<r.variant, -r.senses, -r.entries>> \o Place(r.target) \o <<r.ssense, r.tsense, r.dir, r.prov>>

RankOriented(rows, limit) ==
  Prefix(RoundRobin([r \in rows |-> <<r.prov, r.orient>>], [r \in rows |-> RankKey(r)]), limit)

(* _relation_rows_many for one source: over packs the variants of a target *)
(* are ranked before the prefetch, over one corpus after it.               *)
PackHops(db, q) ==
  Oriented(UNION {RowsOf(Prefetched(db, q, o)) : o \in {1, 2}})

BatchedHops(db, q) ==
  Oriented(UNION {WithVariants(RowsOf(Prefetched(db, q, o))) : o \in {1, 2}})

Hops(db, q, packed) == IF packed THEN PackHops(db, q) ELSE BatchedHops(db, q)
-----------------------------------------------------------------------------
Identity(r) == <<r.target, r.ssense, r.tsense>>

FirstOfTarget(s) == {i \in DOMAIN s : \A j \in 1 .. i - 1 : s[j].target # s[i].target}

PrimaryFirst(s) == Pick(s, FirstOfTarget(s)) \o Pick(s, DOMAIN s \ FirstOfTarget(s))

(* _target_diverse_relation_rows: a row per target before further senses.  *)
TargetDiverse(s, seen) ==
  PrimaryFirst(Pick(s, {i \in DOMAIN s :
    /\ Identity(s[i]) \notin seen
    /\ \A j \in 1 .. i - 1 : Identity(s[j]) # Identity(s[i])}))

Preferred(code, d) == IF d = (IF code = Hypernym THEN 1 ELSE 2) THEN 0 ELSE 1

Corroborated(rows) ==
  {r \in rows : {x.ssense = NoSense : x \in {y \in rows : y.target = r.target}} = BOOLEAN}

FrontierTurns(rows) ==
  RoundRobin([r \in rows |-> <<r.prov, r.orient, r.ssense>>],
             [r \in rows |-> <<IF r.tsense = NoSense THEN 1 ELSE 0, -r.senses, -r.entries,
                               r.variant>> \o Place(r.target) \o <<r.tsense>>])

CorroboratedFirst(rows) ==
  FrontierTurns(Corroborated(rows)) \o FrontierTurns(rows \ Corroborated(rows))

(* _transitive_frontier_rows: targets reached with and without a sense     *)
(* come first, and every source and sense has its turn.                    *)
Frontier(s, code) ==
  Prefix(CorroboratedFirst(RowsOf(
           TargetDiverse(StableSort(s, [i \in DOMAIN s |-> <<Preferred(code, s[i].dir)>> \o RankKey(s[i])]), {}))),
         FrontierBudget)

(* Defect: the ends of a path may leave one sense of a word for another. *)
ScopedLoosely(a, b) == a.target = b.source

(* _relation_path_is_scoped. *)
Scoped(a, b) ==
  \/ Unsensed(a) /\ Unsensed(b) /\ a.target = b.source
  \/ /\ NoSense \notin {a.ssense, a.tsense, b.ssense, b.tsense}
     /\ a.tsense = b.ssense

(* The second hops of every target that a first hop reaches.               *)
SecondHops(view, q, first, packed) ==
  [t \in {r.target : r \in RowsOf(first)} |->
     IF LanguageOf[t] \in DOMAIN view
     THEN RankOriented(Hops(view[LanguageOf[t]], [q EXCEPT !.term = t, !.sense = NoSense], packed), Branch)
     ELSE <<>>]

Steps(first, second, start) ==
  {p \in UNION {{[a |-> first[i], b |-> second[first[i].target][j], at |-> <<i, j>>] :
                   j \in DOMAIN second[first[i].target]} : i \in DOMAIN first} :
     p.a.prov = p.b.prov /\ p.a.dir = p.b.dir /\ Scoped(p.a, p.b) /\ p.b.target # start}

Signature(p) == <<p.a.source, p.a.target, p.b.source, p.b.target>>

Sensed(steps) == {Signature(p) : p \in {s \in steps : s.a.ssense # NoSense}}

(* Paths without a sense that one with senses supports come first.         *)
PathOrder(steps, sensed, code) ==
  Sorted([p \in steps |->
    <<IF p.a.ssense # NoSense THEN 1 ELSE IF Signature(p) \in sensed THEN 0 ELSE 2,
      -p.b.senses, -p.b.entries>> \o ByTag(p.b.target)
      \o <<p.b.tsense, Preferred(code, p.b.dir), p.b.dir, p.b.prov, p.a.ssense,
            Spelling[p.a.target], p.a.tsense, p.b.ssense>> \o p.at])

Joined(order) ==
  [k \in DOMAIN order |->
     [order[k].b EXCEPT !.source = order[k].a.source, !.ssense = order[k].a.ssense,
                        !.path = <<order[k].a, order[k].b>>]]

RankPaths(steps, code) == Joined(PathOrder(steps, Sensed(steps), code))

(* _transitive_relation_rows.                                              *)
Paths(view, q, first, packed) ==
  RankPaths(Steps(first, SecondHops(view, q, first, packed), q.term), q.code)
-----------------------------------------------------------------------------
(* What paths do not use of their allocation goes back to direct results.  *)
Select(direct, paths, limit, transitive) ==
  LET taken == Prefix(paths, transitive) IN Prefix(direct, limit - Len(taken)) \o taken

Edge(r) == [source |-> r.source, ssense |-> r.ssense, target |-> r.target, tsense |-> r.tsense,
            dir |-> r.dir, prov |-> r.prov]

RankedRows(db, q, scan) == RankOriented(DirectRows(db, q, scan), scan)

Direct(found) ==
  TargetDiverse([i \in DOMAIN found |-> [found[i] EXCEPT !.path = <<found[i]>>]], {})

(* The rows a path may start with are those of all languages.              *)
FirstHops(db, q, found) ==
  IF q.target = Any THEN Prefix(found, FrontierScan)
  ELSE RankedRows(db, [q EXCEPT !.target = Any], FrontierScan)

Transitive(view, q, found, direct, packed) ==
  TargetDiverse(Paths(view, q, Frontier(FirstHops(view[LanguageOf[q.term]], q, found), q.code), packed),
                {Identity(r) : r \in RowsOf(direct)})

Combine(view, q, found, direct, limit, transitive, packed) ==
  Select(direct, IF transitive = 0 THEN <<>> ELSE Transitive(view, q, found, direct, packed),
         limit, transitive)

Results(rows) ==
  [i \in DOMAIN rows |->
     [row |-> Edge(rows[i]), path |-> [k \in DOMAIN rows[i].path |-> Edge(rows[i].path[k])]]]

(* dictionary_relations. *)
Relations(view, q, limit, transitive, packed) ==
  LET found == RankedRows(view[LanguageOf[q.term]], q, Scan)
  IN Results(Combine(view, q, found, Direct(found), limit, transitive, packed))
=============================================================================
