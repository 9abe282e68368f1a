---------------------------- MODULE MCPackRouter ----------------------------
(* Instances of PackRouter for TLC.  Two languages share one place in each  *)
(* index cache, so every load of the other language's index evicts.         *)
EXTENDS PackRouter

CONSTANTS en, de, fr, cy, pen, pde, pfr

MCIndex == 1 .. 5

(* Three installed packs and a language that is not installed. *)
MCPackOf == (en :> pen) @@ (de :> pde) @@ (fr :> pfr) @@ (cy :> None)

(* English and German are alike, each with its pack. *)
MCSymmetry ==
  { threads @@ languages @@ (pen :> MCPackOf[languages[en]]) @@ (pde :> MCPackOf[languages[de]]) :
    threads \in Permutations(Thread), languages \in Permutations(Language) }

(* Which unused names have been reset is forgotten: Pop gives a name anew. *)
MCView == <<indexes, INDEX_CACHE, reset \cap InUse, closed, pc, language, index, routerVars>>
=============================================================================
