------------------------------ MODULE PackContents ------------------------------
(***************************************************************************)
(* What a schema 2 release is made of: pipeline/packs.py plans the packs,  *)
(* pipeline/transform.py repartitions the rows of the corpus among them.   *)
(* A table is a set of rows.  A term stands for its headword in its        *)
(* language; senses are numbers, in the order of their ids, 0 for NULL.    *)
(***************************************************************************)
EXTENDS Integers, Sequences, FiniteSets

CONSTANTS
  Lang, Term, Entry, Sense,
  LanguageOf,  \* term -> language
  HeadOf,      \* entry -> term
  EntryOf,     \* sense -> entry
  Tag          \* language -> the place of its tag in the order of strings

NoSense == 0

ASSUME ContentsAssumption ==
  /\ LanguageOf \in [Term -> Lang]
  /\ HeadOf \in [Entry -> Term]
  /\ Sense \subseteq Nat \ {NoSense} /\ EntryOf \in [Sense -> Entry]
  /\ Tag \in [Lang -> Nat]

(* The order of tuples of numbers, and the members of a set in the order   *)
(* of their keys, which tell them apart.                                   *)
Before(k, l) == \E i \in 1 .. Len(k) : k[i] < l[i] /\ \A j \in 1 .. i - 1 : k[j] = l[j]

Sorted(key) ==
  [i \in 1 .. Cardinality(DOMAIN key) |->
     CHOOSE x \in DOMAIN key : Cardinality({y \in DOMAIN key : Before(key[y], key[x])}) = i - 1]

Prefix(s, n) == SubSeq(s, 1, IF n < Len(s) THEN n ELSE Len(s))
-----------------------------------------------------------------------------
(* plan_lexical_packs: a language is a pack of its own from the threshold  *)
(* on, the others fill bundles in the order of their sizes.                *)
PlanOrder(sizes) == Sorted([l \in DOMAIN sizes |-> <<-sizes[l], Tag[l]>>])

(* Defect: a language that fills a bundle starts the next one as well. *)
FlushKeepsLast(plan) ==
  IF plan.bundle = <<>> THEN plan
  ELSE [packs |-> Append(plan.packs,
          [id |-> <<"bundle", 1 + Cardinality({i \in DOMAIN plan.packs :
                                                Len(plan.packs[i].languages) > 1})>>,
           languages |-> plan.bundle]),
        bundle |-> IF Len(plan.bundle) > 1 THEN <<plan.bundle[Len(plan.bundle)]>> ELSE <<>>,
        size |-> 0]

Flush(plan) ==
  IF plan.bundle = <<>> THEN plan
  ELSE [packs |-> Append(plan.packs,
          [id |-> <<"bundle", 1 + Cardinality({i \in DOMAIN plan.packs :
                                                Len(plan.packs[i].languages) > 1})>>,
           languages |-> plan.bundle]),
        bundle |-> <<>>, size |-> 0]

Assign(plan, l, size, threshold, target) ==
  IF size >= threshold
  THEN [plan EXCEPT !.packs = Append(@, [id |-> <<"own", Tag[l]>>, languages |-> <<l>>])]
  ELSE LET next == [plan EXCEPT !.bundle = Append(@, l), !.size = @ + size]
       IN IF next.size >= target THEN Flush(next) ELSE next

Plans(order, sizes, threshold, target) ==
  LET plan[i \in 0 .. Len(order)] ==
        IF i = 0 THEN [packs |-> <<>>, bundle |-> <<>>, size |-> 0]
        ELSE Assign(plan[i - 1], order[i], sizes[order[i]], threshold, target)
  IN plan

PlanLexicalPacks(sizes, threshold, target) ==
  LET order == PlanOrder(sizes)
  IN Flush(Plans(order, sizes, threshold, target)[Len(order)]).packs

(* language_sizes: only a language that has a term has a size. *)
LanguageSizes(c) ==
  [l \in {LanguageOf[t] : t \in c.terms} |-> Cardinality({t \in c.terms : LanguageOf[t] = l})]
-----------------------------------------------------------------------------
EntriesOf(db, t) == {e \in db.entries : HeadOf[e] = t}
SensesOf(db, t) == {s \in db.senses : HeadOf[EntryOf[s]] = t}

CountIn(db, t) ==
  [entries |-> Cardinality(EntriesOf(db, t)), senses |-> Cardinality(SensesOf(db, t))]

(* build_term_counts: the counts of every term over the whole corpus.      *)
TermCounts(c) == [t \in c.terms |-> CountIn(c, t)]

(* The terms the rows of a pack name. *)
Named(db) ==
  {r.source : r \in db.relations} \cup {r.target : r \in db.relations}
    \cup {r.target : r \in db.translations} \cup {r.target : r \in db.synonyms}

Owned(c, langs) == {t \in c.terms : LanguageOf[t] \in langs}

Retained(c, own) == {r \in c.relations : r.source \in own \/ r.target \in own}

(* Defect: a stub has the counts of the pack, which has none of its rows. *)
StubsCountedHere(db, own, counts) ==
  [t \in (Named(db) \ own) \cap DOMAIN counts |-> CountIn(db, t)]

(* target_catalogue: the foreign terms with the counts that were made for  *)
(* them; one that has none is left out by the join.                        *)
Stubs(db, own, counts) == [t \in (Named(db) \ own) \cap DOMAIN counts |-> counts[t]]

(* build_lexical_pack.                                                     *)
LexicalPack(c, counts, langs) ==
  LET own == Owned(c, langs)
      entries == {e \in c.entries : HeadOf[e] \in own}
      senses == {s \in c.senses : EntryOf[s] \in entries}
      rows == [terms |-> own, entries |-> entries, senses |-> senses,
               translations |-> {r \in c.translations : r.sense \in senses},
               synonyms |-> {r \in c.synonyms : r.sense \in senses},
               relations |-> Retained(c, own),
               stubs |-> <<>>]
  IN [rows EXCEPT !.stubs = Stubs(rows, own, counts)]

(* _assert_pack_is_closed. *)
Closed(p) ==
  /\ Named(p) \subseteq p.terms \cup DOMAIN p.stubs
  /\ {r.target : r \in p.synonyms} \subseteq p.terms
  /\ p.terms \cap DOMAIN p.stubs = {}
-----------------------------------------------------------------------------
(* build_core_pack: rows of relations by inclusion and exclusion.          *)
Ends(c, l) ==
  Cardinality({r \in c.relations : LanguageOf[r.source] = l})
    + Cardinality({r \in c.relations : LanguageOf[r.target] = l})

RelationRows(c, l) ==
  Ends(c, l) - Cardinality({r \in c.relations : LanguageOf[r.source] = l /\ LanguageOf[r.target] = l})

Catalogue(c, counts) ==
  [l \in {LanguageOf[t] : t \in c.terms \cap DOMAIN counts} |->
     [terms |-> Cardinality({t \in c.terms \cap DOMAIN counts : LanguageOf[t] = l}),
      translations |-> Cardinality({r \in c.translations : LanguageOf[HeadOf[EntryOf[r.sense]]] = l}),
      relations |-> RelationRows(c, l)]]
-----------------------------------------------------------------------------
(* build_semantic_pack: the vectors of a language are gathered from the    *)
(* global file in the order of their offsets and renumbered; the index of  *)
(* the language is copied, so ids stay.                                    *)
Rows(mapping, l) == {r \in mapping.rows : LanguageOf[r.term] = l}

Gathered(mapping, l) == Sorted([r \in Rows(mapping, l) |-> <<r.offset>>])

(* No shard, no terms, another number of them, an offset outside the file, *)
(* or a term with two concepts: the build stops.                           *)
SemanticSound(mapping, l) ==
  /\ l \in DOMAIN mapping.shards
  /\ Rows(mapping, l) # {}
  /\ Cardinality(Rows(mapping, l)) = mapping.shards[l]
  /\ \A r \in Rows(mapping, l) : r.offset \in 1 .. Len(mapping.vectors)
  /\ \A r, s \in Rows(mapping, l) : r.term = s.term => r = s

SemanticPack(mapping, l) ==
  LET rows == Gathered(mapping, l)
  IN [vectors |-> [i \in DOMAIN rows |-> mapping.vectors[rows[i].offset]],
      rows |-> {[rows[i] EXCEPT !.offset = i] : i \in DOMAIN rows}]
=============================================================================
