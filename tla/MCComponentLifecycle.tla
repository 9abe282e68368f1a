------------------------ MODULE MCComponentLifecycle ------------------------
(* Instances of ComponentLifecycle for TLC. *)
EXTENDS ComponentLifecycle, TLC

CONSTANTS every, same, r1, r2, en, fr, lexical, dcore, den, dfr, den2

Lexical(langs, d) == [capability |-> lexical, languages |-> langs,
                      components |-> {d}, required |-> FALSE]
CorePack == [capability |-> Core, languages |-> {},
             components |-> {dcore}, required |-> TRUE]

(* Two releases that share their core and one pack. *)
MCManifest == (r1 :> {CorePack, Lexical({en}, den), Lexical({fr}, dfr)})
           @@ (r2 :> {CorePack, Lexical({en}, den2), Lexical({fr}, dfr)})

(* Whatever else may be written, it stands for English. *)
MCNormalOf == [t \in Tag |-> IF t \in Language THEN t ELSE en]

MCRequest(r, langs, caps) == [release |-> r, languages |-> langs, capabilities |-> caps]
MCInstall(r, langs, caps) == [request |-> MCRequest(r, langs, caps), strict |-> TRUE]
MCAmend(op, r, langs) ==
  [op |-> op, release |-> r, languages |-> langs,
   capabilities |-> SameCapabilities, strict |-> TRUE]

MCInstalls == {MCInstall(r1, {en}, {lexical}), MCInstall(r2, {en}, {lexical})}

(* With a request for every language, whose activation id may be that of a *)
(* request that named them all.                                            *)
MCInstallsAll == MCInstalls \cup {MCInstall(r1, AllLanguages, {lexical})}
MCAmendments == {MCAmend("add", r1, {fr}), MCAmend("remove", r1, {en})}

MCSymmetry == Permutations(Proc)
=============================================================================
