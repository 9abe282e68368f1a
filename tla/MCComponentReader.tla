-------------------------- MODULE MCComponentReader --------------------------
(* Instances of ComponentReader for TLC. *)
EXTENDS ComponentReader, MCComponentLifecycle

(* One release of two languages, installed with either: the activations     *)
(* share the core and own a pack each.  Removing a language is refused or  *)
(* changes nothing, as neither install has two.                            *)
ServeManifest == r1 :> {CorePack, Lexical({en}, den), Lexical({fr}, dfr)}
ServeInstalls == {MCInstall(r1, {en}, {lexical}), MCInstall(r1, {fr}, {lexical})}
ServeAmendments == {MCAmend("remove", r1, {en})}
=============================================================================
