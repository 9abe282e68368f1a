------------------------------ MODULE PackedRelease ------------------------------
(***************************************************************************)
(* From a corpus to an answer: scripts/build_v2_release.py counts and      *)
(* plans the corpus once, keeps both in its work directory, and builds the *)
(* packs; some of them are installed and asked for relations.  A corpus    *)
(* may be another edition by the time the packs are built.                 *)
(***************************************************************************)
EXTENDS DictionaryQueries

CONSTANTS
  NotYet,
  Unavailable, \* the answer for a language that is not installed
  Base,        \* the terms every edition has
  Editions,    \* what editions may grow to: sets of rows [kind, row]
  MaxRows,     \* bound on the rows of an edition
  MaxLate,     \* bound on the rows that come after the counts
  Threshold, Target,   \* sizes of packs and bundles
  Mapping,     \* the semantic mapping of the corpus
  Queries,     \* what is asked: [op, term, code, target, sense]
  Limits       \* and how much of it: <<limit, the part of it for paths, translations, ...>>

Imported == UNION Editions

(* The rows of the tables: an item of an edition is one of them.           *)
Relation == [source : Term, ssense : Sense \cup {NoSense}, code : Nat,
             target : Term, tsense : Sense \cup {NoSense}, dir : 1 .. 3, prov : Nat]
Detail == [sense : Sense, target : Term, at : Nat]
Item == [kind : {"sense"}, row : Sense] \cup [kind : {"relation"}, row : Relation]
          \cup [kind : {"translation", "synonym"}, row : Detail]

ASSUME EditionsAssumption ==
  /\ IsFiniteSet(Term) /\ IsFiniteSet(Entry) /\ IsFiniteSet(Sense)
  /\ Base \subseteq Term /\ Imported \subseteq Item
  /\ \A l, m \in Lang : Tag[l] = Tag[m] => l = m
  /\ MaxRows \in Nat /\ MaxLate \in Nat

(* A bundle that is full has two languages or more: bundles of one would   *)
(* share a number.                                                         *)
ASSUME PlanAssumption == Threshold \in Nat /\ Target \in Nat /\ Threshold <= Target

ASSUME QuestionsAssumption ==
  /\ Queries \subseteq [op : {"relations", "lookup", "translate", "synonyms"}, term : Term, code : Nat,
                        target : Lang \cup {Any}, sense : Sense \cup {NoSense}]
  /\ Limits \subseteq Nat \X Nat

(* Offsets are unique in the mapping.                                      *)
ASSUME MappingAssumption ==
  /\ IsFiniteSet(Mapping.rows) /\ Mapping.rows \subseteq [id : Nat, term : Term, offset : Nat]
  /\ \A r, s \in Mapping.rows : r.offset = s.offset => r = s

PlannedPack == [id : {"own", "bundle"} \X Nat, languages : Seq(Lang) \ {<<>>}]
PackContent == [terms : SUBSET Term, entries : SUBSET Entry, senses : SUBSET Sense,
                translations : SUBSET Detail, synonyms : SUBSET Detail, relations : SUBSET Relation,
                stubs : UNION {[T -> [entries : Nat, senses : Nat]] : T \in SUBSET Term}]

ASSUME NotYetAssumption == NotYet \notin Seq([plan : PlannedPack, content : PackContent])

VARIABLES
  rows,      \* the rows of the edition
  counts,    \* term-counts.sqlite3
  sizes,     \* language-sizes.json
  late,      \* rows that came after them
  packs,     \* the built lexical packs in the order of the plan
  core,      \* language_catalogue
  semantic,  \* language -> semantic pack
  view,      \* installed language -> the pack that serves it
  asked      \* the last question and its answer

work == <<counts, sizes>>
built == <<packs, core, semantic>>
packedVars == <<rows, work, late, built, view, asked>>

Kind(k) == {i.row : i \in {j \in rows : j.kind = k}}

Corpus ==
  LET relations == Kind("relation")
      terms == Base \cup {r.source : r \in relations}
                    \cup {i.row.target : i \in {j \in rows : j.kind # "sense"}}
      entries == {e \in Entry : HeadOf[e] \in terms}
  IN [terms |-> terms, entries |-> entries,
      senses |-> {s \in Sense : EntryOf[s] \in entries}
                   \ {i.row : i \in {j \in Imported \ rows : j.kind = "sense"}},
      translations |-> Kind("translation"), synonyms |-> Kind("synonym"),
      relations |-> relations, stubs |-> <<>>]

PackedInit ==
  /\ rows = {}
  /\ counts = NotYet /\ sizes = NotYet
  /\ late = 0
  /\ packs = NotYet /\ core = NotYet /\ semantic = NotYet
  /\ view = <<>>
  /\ asked = NotYet

(* Another edition of the corpus has a row more; its senses are those of   *)
(* terms it has.                                                           *)
Import(i) ==
  /\ packs = NotYet
  /\ i \notin rows
  /\ \E e \in Editions : rows \cup {i} \subseteq e
  /\ Cardinality(rows) < MaxRows
  /\ i.kind \in {"translation", "synonym"} => i.row.sense \in Corpus.senses
  /\ late' = IF counts = NotYet THEN 0 ELSE late + 1
  /\ late' <= MaxLate
  /\ rows' = rows \cup {i}
  /\ UNCHANGED <<work, built, view, asked>>

(* The caches of the work directory are made once and then believed.       *)
Count ==
  /\ counts = NotYet
  /\ counts' = TermCounts(Corpus)
  /\ sizes' = LanguageSizes(Corpus)
  /\ UNCHANGED <<rows, late, built, view, asked>>

Planned == PlanLexicalPacks(sizes, Threshold, Target)

PackOf(p) == LexicalPack(Corpus, counts, RowsOf(p.languages))

(* A pack that is not closed or vectors that do not fit stop the release.  *)
BuildPacks ==
  /\ counts # NotYet /\ packs = NotYet
  /\ \A l \in DOMAIN Mapping.shards : SemanticSound(Mapping, l)
  /\ \A i \in DOMAIN Planned : Closed(PackOf(Planned[i]))
  /\ packs' = [i \in DOMAIN Planned |-> [plan |-> Planned[i], content |-> PackOf(Planned[i])]]
  /\ core' = Catalogue(Corpus, counts)
  /\ semantic' = [l \in DOMAIN Mapping.shards |-> SemanticPack(Mapping, l)]
  /\ UNCHANGED <<rows, work, late, view, asked>>

Serving(i) == RowsOf(packs[i].plan.languages)

(* An activation serves the languages of its packs. *)
Install(S) ==
  /\ packs # NotYet /\ view = <<>>
  /\ view' = [l \in UNION {Serving(i) : i \in S} |->
                packs[CHOOSE i \in S : l \in Serving(i)].content]
  /\ UNCHANGED <<rows, work, late, built, asked>>

(* What a language's file answers; a language without one is unavailable.  *)
Answer(v, q, limits, packed) ==
  IF LanguageOf[q.term] \notin DOMAIN v THEN Unavailable
  ELSE LET db == v[LanguageOf[q.term]] IN
       CASE q.op = "relations" -> Relations(v, q, limits[1], limits[2], packed)
         [] q.op = "lookup" -> Lookup(db, q, limits[1], limits[2])
         [] q.op = "translate" -> Translate(db, q, limits[1])
         [] q.op = "synonyms" -> Synonyms(db, q, limits[1], limits[2])

Ask(q, limits) ==
  /\ view # <<>> /\ asked = NotYet
  /\ q.term \in Corpus.terms
  /\ asked' = [q |-> q, limits |-> limits, answer |-> Answer(view, q, limits, TRUE)]
  /\ UNCHANGED <<rows, work, late, built, view>>

Forget ==
  /\ asked # NotYet
  /\ asked' = NotYet
  /\ UNCHANGED <<rows, work, late, built, view>>

PackedNext ==
  \/ \E i \in Imported : Import(i)
  \/ Count
  \/ BuildPacks
  \/ packs # NotYet /\ \E S \in SUBSET (DOMAIN packs) : Install(S)
  \/ \E q \in Queries, limits \in Limits : Ask(q, limits)
  \/ Forget

PackedSpec == PackedInit /\ [][PackedNext]_packedVars
-----------------------------------------------------------------------------
Fresh == counts = TermCounts(Corpus) /\ sizes = LanguageSizes(Corpus)

PackedTypeOK ==
  /\ rows \subseteq Imported
  /\ late \in 0 .. MaxLate
  /\ DOMAIN view \subseteq Lang
  /\ packs # NotYet =>
       \A i \in DOMAIN packs : /\ packs[i].plan.languages \in Seq(Lang) \ {<<>>}
                               /\ packs[i].content.terms \subseteq Term

(* Every language of a current plan is in one pack, under an id of its own,*)
(* and the packs together hold the rows of the corpus and no others.       *)
PacksWhole ==
  packs # NotYet =>
    /\ \A i, j \in DOMAIN packs : packs[i].plan.id = packs[j].plan.id \/ Serving(i) \cap Serving(j) # {} => i = j
    /\ sizes = LanguageSizes(Corpus) =>
         \A k \in {"terms", "entries", "senses", "translations", "synonyms", "relations"} :
           UNION {packs[i].content[k] : i \in DOMAIN packs} = Corpus[k]

(* A pack that was built, from whatever counts, names all its rows reach,  *)
(* and has its headwords apart from its stubs.                             *)
PacksClosed ==
  packs # NotYet =>
    \A i \in DOMAIN packs :
      LET p == packs[i].content IN
      /\ \A r \in p.relations : {r.source, r.target} \subseteq p.terms \cup DOMAIN p.stubs
      /\ \A r \in p.translations : r.target \in p.terms \cup DOMAIN p.stubs
      /\ \A r \in p.synonyms : r.target \in p.terms
      /\ \A t \in DOMAIN p.stubs : LanguageOf[t] \notin Serving(i)

(* The catalogue counts what a pack of the language alone would hold.      *)
CatalogueTrue ==
  core # NotYet =>
    \A l \in DOMAIN core :
      LET alone == LexicalPack(Corpus, counts, {l}) IN
      /\ core[l].relations = Cardinality(alone.relations)
      /\ core[l].translations = Cardinality(alone.translations)

(* The index of a language finds at an id the vector it had in the corpus. *)
VectorsKept ==
  semantic # NotYet =>
    \A l \in DOMAIN semantic : \A r \in semantic[l].rows :
      \E g \in Mapping.rows : r.offset \in DOMAIN semantic[l].vectors /\ g.id = r.id /\ g.term = r.term
                                /\ semantic[l].vectors[r.offset] = Mapping.vectors[g.offset]

(* A release is its corpus, repartitioned.                                 *)
PacksFaithful == PackedTypeOK /\ PacksWhole /\ PacksClosed /\ CatalogueTrue /\ VectorsKept

(* Packs answer what the corpus would, whatever else is installed.         *)
SameAnswer ==
  asked # NotYet /\ Fresh =>
    asked.answer = Answer([l \in DOMAIN view |-> Corpus], asked.q, asked.limits, FALSE)

(* Every result is a relation of the corpus or two that continue each      *)
(* other in one source, one direction and one sense; none comes twice.     *)
Asserted(e, code) ==
  \E r \in Corpus.relations :
    \/ r = [source |-> e.source, ssense |-> e.ssense, code |-> code, target |-> e.target,
            tsense |-> e.tsense, dir |-> e.dir, prov |-> e.prov]
    \/ r = [source |-> e.target, ssense |-> e.tsense, code |-> InverseCode(code), target |-> e.source,
            tsense |-> e.ssense, dir |-> InverseDirection(e.dir), prov |-> e.prov]

Answered(op) == asked # NotYet /\ asked.answer # Unavailable /\ asked.q.op = op

AnswerTruthful ==
  Answered("relations") =>
    LET a == asked.answer  q == asked.q IN
    /\ \A i, j \in DOMAIN a : Identity(a[i].row) = Identity(a[j].row) => i = j
    /\ \A i \in DOMAIN a :
         LET p == a[i].path IN
         /\ \A k \in DOMAIN p : Asserted(p[k], q.code)
         /\ p[1].source = q.term /\ p[Len(p)].target = a[i].row.target
         /\ q.target \in {Any, LanguageOf[a[i].row.target]}
         /\ q.sense \in {NoSense, p[1].ssense}
         /\ Len(p) = 2 => /\ p[1].target = p[2].source /\ p[1].tsense = p[2].ssense
                          /\ p[1].prov = p[2].prov /\ p[1].dir = p[2].dir
                          /\ a[i].row.target # q.term

(* An answer shorter than its limit leaves no target out that was read.    *)
BudgetUsed ==
  Answered("relations") =>
    LET a == asked.answer
        db == view[LanguageOf[asked.q.term]]
        read == RankedRows(db, asked.q, Scan)
    IN /\ Len(a) <= asked.limits[1]
       /\ Cardinality({i \in DOMAIN a : Len(a[i].path) = 2}) <= asked.limits[2]
       /\ Len(a) < asked.limits[1] =>
            \A r \in RowsOf(read) : \E i \in DOMAIN a : Identity(a[i].row) = Identity(r)

(* A sense of a lookup that is not said to be truncated shows all its      *)
(* translations in the corpus.                                             *)
TruncationTold ==
  Answered("lookup") =>
    \A i \in DOMAIN asked.answer :
      LET a == asked.answer[i] IN
      a.truncated <=> Len(a.shown) < Cardinality({r \in Corpus.translations : r.sense = a.sense})

(* No sense is given a second translation or synonym before every sense    *)
(* that has one has its first, and so on; none that was read is left out   *)
(* of a limit that is not reached.  A translation that is read twice takes *)
(* two places of what is read and one of what is shown.                    *)
BudgetShared ==
  \A op \in {"translate", "synonyms"} : Answered(op) =>
    LET q == asked.q
        groups == IF op = "translate" THEN asked.answer ELSE asked.answer.groups
        Shown(s) == UNION {RowsOf(g.shown) : g \in {h \in groups : h.sense = s}}
        All(s) == IF op = "translate"
                  THEN RowsOf(Targets(TranslationRows(Corpus, s, q.target, asked.limits[1])))
                  ELSE {r.target : r \in {x \in Corpus.synonyms : x.sense = s}} \ {q.term}
        total == Cardinality({x \in groups \X (1 .. asked.limits[1]) : x[2] \in DOMAIN x[1].shown})
                   + (IF op = "synonyms" THEN Len(asked.answer.extra) ELSE 0)
        senses == SensesOf(Corpus, q.term)
    IN /\ total <= asked.limits[1]
       /\ \A s, u \in senses :
            /\ Shown(s) \subseteq All(s)
            /\ (s \in UnsensedSense <=> u \in UnsensedSense)
                 /\ Cardinality(Shown(s)) > Cardinality(Shown(u)) + 1 => Shown(u) = All(u)
       /\ total < asked.limits[1] => \A s \in senses \ UnsensedSense : Shown(s) = All(s)

(* A synonym by relation that a sense shows already is shown again only    *)
(* when none is left that no sense shows.                                  *)
ExtraNewFirst ==
  Answered("synonyms") =>
    LET a == asked.answer
        shown == UNION {RowsOf(g.shown) : g \in a.groups}
        code == {r \in Corpus.relations : r.code = Synonym /\ Unsensed(r)}
        all == {r.target : r \in {x \in code : x.source = asked.q.term}}
                 \cup {r.source : r \in {x \in code : x.target = asked.q.term}}
        left == {t \in all : LanguageOf[t] = LanguageOf[asked.q.term]}
                  \ (shown \cup RowsOf(a.extra) \cup {asked.q.term})
    IN RowsOf(a.extra) \cap shown # {} => left = {}

(* No place of an answer is wasted, and none that was left out is denied.  *)
BudgetsKept == BudgetUsed /\ TruncationTold /\ BudgetShared /\ ExtraNewFirst
=============================================================================
