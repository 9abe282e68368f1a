-------------------------- MODULE MCComponentIntent --------------------------
(* Instances of ComponentIntent for TLC. *)
EXTENDS ComponentIntent, MCComponentLifecycle

CONSTANTS de, EN, dde

(* A release that bundles two of its languages in one pack. *)
IntentManifest == r1 :> {CorePack, Lexical({en, fr}, den), Lexical({de}, dde)}

(* Users who install, widen and narrow, and write English in two ways. *)
IntentInstalls == {MCInstall(r1, {en}, {lexical}), MCInstall(r1, {EN, fr}, {lexical})}
IntentAmendments == {MCAmend("add", r1, {fr}), MCAmend("add", r1, {de}),
                     MCAmend("remove", r1, {en}), MCAmend("remove", r1, {fr})}
=============================================================================
