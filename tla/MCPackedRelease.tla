---------------------------- MODULE MCPackedRelease ----------------------------
(* English is large enough for a pack of its own, two other languages      *)
(* share a bundle and a third one is left over.                            *)
EXTENDS PackedRelease

CONSTANTS en, fr, de, zu, dog, animal, being, chien, hund, inja

MCLanguageOf == [t \in {dog, animal, being, chien, hund, inja} |->
                   CASE t = chien -> fr [] t = hund -> de [] t = inja -> zu [] OTHER -> en]
MCTag == [l \in {en, fr, de, zu} |-> CASE l = de -> 1 [] l = en -> 2 [] l = fr -> 3 [] l = zu -> 4]
MCHeadOf == [e \in 1 .. 5 |->
               CASE e = 1 -> dog [] e = 2 -> animal [] e = 3 -> being [] e = 4 -> chien [] e = 5 -> hund]
MCEntryOf == [s \in 1 .. 8 |->
                CASE s \in {1, 7, 8} -> 1 [] s \in {2, 3} -> 2 [] s \in {4, 5} -> 4 [] s = 6 -> 5]
MCWidth == [t \in {dog, animal, being, chien, hund, inja} |->
              CASE t = dog -> 3 [] t \in {hund, inja} -> 4 [] t \in {being, chien} -> 5 [] t = animal -> 6]
MCSpelling == [t \in {dog, animal, being, chien, hund, inja} |->
                 CASE t = animal -> 1 [] t = being -> 2 [] t = chien -> 3 [] t = dog -> 4
                   [] t = hund -> 5 [] t = inja -> 6]

Rel(s, ss, code, t, ts, d, p) ==
  [kind |-> "relation", row |-> [source |-> s, ssense |-> ss, code |-> code, target |-> t,
                                 tsense |-> ts, dir |-> d, prov |-> p]]
Tr(s, t, at) == [kind |-> "translation", row |-> [sense |-> s, target |-> t, at |-> at]]
Syn(s, t, at) == [kind |-> "synonym", row |-> [sense |-> s, target |-> t, at |-> at]]
Sen(s) == [kind |-> "sense", row |-> s]

(* Hierarchies with and without senses, across languages and sources.      *)
Hierarchy ==
  { Rel(dog, 1, Hypernym, animal, 2, 1, 1), Rel(dog, 0, Hypernym, animal, 0, 1, 1),
    Rel(animal, 2, Hypernym, chien, 4, 1, 1), Rel(animal, 3, Hypernym, chien, 5, 1, 1),
    Rel(animal, 0, Hypernym, hund, 0, 1, 1), Rel(chien, 0, Hyponym, dog, 0, 2, 2),
    Rel(chien, 4, Hypernym, inja, 0, 1, 1), Rel(dog, 1, Hypernym, chien, 4, 1, 1),
    Rel(chien, 0, Hypernym, being, 0, 1, 1), Tr(1, inja, 1), Syn(1, animal, 1), Syn(4, hund, 1),
    Sen(5) }

Translations ==
  { Tr(4, dog, 1), Tr(4, dog, 2), Tr(4, animal, 3), Tr(5, dog, 1), Sen(5),
    Tr(1, inja, 1), Tr(8, chien, 1), Tr(8, hund, 2), Tr(7, chien, 1) }

SynonymRelations ==
  { Syn(1, animal, 1), Syn(1, being, 2), Syn(8, animal, 1), Syn(7, being, 1), Syn(1, dog, 3),
    Rel(dog, 0, Synonym, animal, 0, 3, 1), Rel(being, 0, Synonym, dog, 0, 3, 1),
    Rel(dog, 0, Synonym, being, 0, 3, 2) }

MCEditions == {Hierarchy, Translations, SynonymRelations}

MCMapping ==
  [rows |-> {[id |-> 1, term |-> dog, offset |-> 3], [id |-> 2, term |-> chien, offset |-> 1],
             [id |-> 3, term |-> animal, offset |-> 2], [id |-> 4, term |-> hund, offset |-> 4]},
   shards |-> [l \in {en, fr, de} |-> IF l = en THEN 2 ELSE 1],
   vectors |-> <<11, 12, 13, 14>>]

Q(op, t, code, target, sense) ==
  [op |-> op, term |-> t, code |-> code, target |-> target, sense |-> sense]

MCQueries ==
  { Q("relations", dog, Hypernym, Any, 0), Q("relations", dog, Hypernym, fr, 0),
    Q("relations", dog, Hypernym, Any, 1), Q("relations", chien, Hyponym, Any, 0),
    Q("relations", inja, Hyponym, Any, 0), Q("lookup", dog, 0, Any, 0),
    Q("translate", chien, 0, en, 0), Q("synonyms", dog, 0, Any, 0) }
MCLimits == {<<3, 1>>, <<2, 2>>}
=============================================================================
