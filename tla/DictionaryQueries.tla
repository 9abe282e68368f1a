---------------------------- MODULE DictionaryQueries ----------------------------
(***************************************************************************)
(* dictionary_lookup, dictionary_synonyms and dictionary_translate of      *)
(* runtime/service.py: senses of a term in the order of their ids, what    *)
(* belongs to each, and how a budget is divided among them.  Examples and  *)
(* pronunciations are read and divided as translations are.                *)
(***************************************************************************)
EXTENDS RelationQueries

CONSTANTS
  MostSenses,      \* senses a query scans
  UnsensedSense,   \* senses that stand for a whole entry
  Affine           \* <<t, u>>: one spelling starts with the other

ASSUME DictionaryAssumption ==
  MostSenses \in Nat \ {0} /\ UnsensedSense \subseteq Sense /\ Affine \subseteq Term \X Term

(* _sense_rows. *)
SenseRows(db, q, limit) ==
  Prefix(Sorted([s \in {x \in SensesOf(db, q.term) :
                          q.term \in db.terms /\ q.sense \in {NoSense, x}} |-> <<s>>]), limit)

ByPosition(rows) == Sorted([r \in rows |-> <<r.at>> \o ByTag(r.target)])

(* _translation_rows, with targets of one language or of all.              *)
TranslationRows(db, s, target, limit) ==
  Prefix(ByPosition({r \in db.translations : r.sense = s /\ target \in {Any, LanguageOf[r.target]}}),
         limit)

(* _synonym_rows: synonyms are looked for among the headwords only.        *)
SynonymRows(db, s, limit) ==
  Prefix(ByPosition({r \in db.synonyms : r.sense = s /\ r.target \in db.terms}), limit)

Targets(s) == [i \in DOMAIN s |-> s[i].target]

Distinct(s) == Pick(s, {i \in DOMAIN s : \A j \in 1 .. i - 1 : s[j] # s[i]})

(* _round_robin_allocate, _allocate_grouped_synonyms: every group in turn. *)
Allocate(lists, groups, budget) ==
  LET slots == {x \in groups \X (1 .. budget) : x[2] \in DOMAIN lists[x[1]]}
      taken == RowsOf(Prefix(Sorted([x \in slots |-> <<x[2], x[1]>>]), budget))
  IN [i \in DOMAIN lists |-> Prefix(lists[i], Cardinality({x \in taken : x[1] = i}))]
-----------------------------------------------------------------------------
(* _lookup_sense_rows: a quarter of the senses, but at least one of two,   *)
(* goes to those translated into most languages.                           *)
Coverage(db, s) ==
  LET rows == {r \in db.translations : r.sense = s}
  IN <<Cardinality({LanguageOf[r.target] : r \in rows}), Cardinality(rows)>>

Reserve(limit) == IF limit < 2 THEN 0 ELSE IF limit < 8 THEN 1 ELSE limit \div 4

LookupSenses(db, q, limit, preferred) ==
  LET scanned == SenseRows(db, q, IF preferred THEN MostSenses ELSE limit)
      translated == {i \in DOMAIN scanned : Coverage(db, scanned[i])[2] > 0}
      reserved == RowsOf(Prefix(Sorted([i \in translated |->
                    <<-Coverage(db, scanned[i])[1], -Coverage(db, scanned[i])[2], i>>]), Reserve(limit)))
      others == Prefix(Sorted([i \in DOMAIN scanned \ reserved |-> <<i>>]),
                       limit - Cardinality(reserved))
  IN IF Len(scanned) <= limit \/ ~preferred THEN Prefix(scanned, limit)
     ELSE Pick(scanned, reserved \cup RowsOf(others))

(* Defect: no row beyond the budget is read that would tell of more. *)
ReadNoFurther(budget) == budget

ReadAhead(budget) == budget + 1

(* dictionary_lookup. *)
Lookup(db, q, limit, budget) ==
  LET senses == LookupSenses(db, q, limit, budget > 0)
      found == [i \in DOMAIN senses |-> TranslationRows(db, senses[i], Any, ReadAhead(budget))]
      shown == Allocate(found, DOMAIN found, budget)
  IN [i \in DOMAIN senses |->
        [sense |-> senses[i], shown |-> Targets(shown[i]), truncated |-> Len(found[i]) > Len(shown[i])]]

(* dictionary_translate. *)
Translate(db, q, limit) ==
  LET senses == SenseRows(db, q, MostSenses)
      found == [i \in DOMAIN senses |-> Distinct(Targets(TranslationRows(db, senses[i], q.target, limit)))]
      shown == Allocate(found, DOMAIN found, limit)
  IN {[sense |-> senses[i], shown |-> shown[i]] : i \in {j \in DOMAIN shown : shown[j] # <<>>}}
-----------------------------------------------------------------------------
(* _unsensed_relation_synonym_candidates: synonyms by relations that name  *)
(* no sense at all, each with the orientations it was found in.            *)
SynonymsAmong(found, t, support) ==
  LET rows == {r \in RowsOf(found) : Unsensed(r) /\ r.target # t}
      Best(u) == CHOOSE r \in rows : r.target = u /\ \A x \in rows :
                   x.target = u => x = r \/ ~Before(RankKey(x), RankKey(r))
  IN {[target |-> u, row |-> Best(u), orients |-> {r.orient : r \in {x \in rows : x.target = u}},
       support |-> support[u], affine |-> <<t, u>> \in Affine \/ <<u, t>> \in Affine] :
        u \in {r.target : r \in rows}}

RelationSynonyms(db, t, support) ==
  SynonymsAmong(
    RankedRows(db, [term |-> t, code |-> Synonym, target |-> LanguageOf[t], sense |-> NoSense], Scan),
    t, support)

(* _rank_unsensed_relation_synonyms: candidates that no sense shows come   *)
(* first; those found both ways go before the others.                      *)
RankUnsensed(candidates, shown) ==
  LET Key(c) == <<IF c.row.senses > 0 THEN 0 ELSE 1, IF c.affine THEN 0 ELSE 1,
                  IF c.support > 0 THEN 0 ELSE 1, -c.row.senses, -c.support>> \o RankKey(c.row)
      Bucket(c) == <<CHOOSE o \in c.orients : TRUE, c.row.prov>>
      Ranked(part) ==
        LET both == {c \in part : Cardinality(c.orients) > 1}
        IN Sorted([c \in both |-> Key(c)])
             \o RoundRobin([c \in part \ both |-> Bucket(c)], [c \in part \ both |-> Key(c)])
      again == {c \in candidates : c.target \in shown}
  IN Ranked(candidates \ again) \o Ranked(again)

(* The synonyms of every sense, without the word itself.                   *)
SensedSynonyms(db, q, senses) ==
  [i \in DOMAIN senses |->
     LET all == Targets(SynonymRows(db, senses[i], MostSenses))
     IN Distinct(Pick(all, {k \in DOMAIN all : all[k] # q.term}))]

Support(found) == [u \in Term |-> Cardinality({i \in DOMAIN found : u \in RowsOf(found[i])})]

(* Senses share what the unsensed ones leave, which relations fill up.     *)
Share(senses, found, related, q, limit, unsensed) ==
  LET native == {i \in DOMAIN senses : senses[i] \in UnsensedSense}
      free == Allocate(found, native, unsensed)
      Shown(lists) == UNION {RowsOf(lists[i]) : i \in DOMAIN lists}
      Total(lists) == Cardinality(UNION {{<<i, k>> : k \in DOMAIN lists[i]} : i \in DOMAIN lists})
      candidates == IF q.sense = NoSense /\ Total(free) < unsensed THEN related ELSE {}
      slots == IF unsensed - Total(free) < Cardinality(candidates)
               THEN unsensed - Total(free) ELSE Cardinality(candidates)
      scoped == Allocate(found, DOMAIN senses \ native, limit - Total(free) - slots)
      extra == Prefix(RankUnsensed(candidates, Shown(scoped) \cup Shown(free)), slots)
  IN [groups |-> {[sense |-> senses[i], shown |-> scoped[i] \o free[i]] :
                    i \in {j \in DOMAIN senses : scoped[j] \o free[j] # <<>>}},
      extra |-> Targets(extra)]

(* dictionary_synonyms. *)
Synonyms(db, q, limit, unsensed) ==
  LET senses == SenseRows(db, q, MostSenses)
      found == SensedSynonyms(db, q, senses)
  IN Share(senses, found, RelationSynonyms(db, q.term, Support(found)), q, limit, unsensed)
=============================================================================
