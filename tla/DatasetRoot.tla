----------------------------- MODULE DatasetRoot -----------------------------
(***************************************************************************)
(* What a schema 2 dataset root promises, whoever is running commands on   *)
(* it and wherever they are stopped: a set of components held intact, a    *)
(* set of retained activations whose components are all held, and an       *)
(* active one among them, replaced only as a whole.                        *)
(***************************************************************************)
EXTENDS Selection

CONSTANT Nothing   \* no activation is active

VARIABLES
  held,      \* digests of the components held intact
  retained,  \* activation id -> request
  active     \* the active activation id, or Nothing

vars == <<held, retained, active>>

Init ==
  /\ held = {}
  /\ retained = [i \in {} |-> Nothing]
  /\ active = Nothing

(* A component is admitted, whole, under its digest. *)
Hold ==
  /\ \E d \in Digest \ held : held' = held \cup {d}
  /\ UNCHANGED <<retained, active>>

(* A component no retained activation lists is reclaimed. *)
Reclaim ==
  /\ \E d \in held :
       /\ \A i \in DOMAIN retained : d \notin i.components
       /\ held' = held \ {d}
  /\ UNCHANGED <<retained, active>>

(* An activation is retained under the id of its own contents, once        *)
(* everything it lists is held.                                            *)
Retain ==
  /\ \E q \in Request :
       /\ IdOf(q) \notin DOMAIN retained
       /\ SelectedComponents(q) \subseteq held
       /\ retained' = [i \in DOMAIN retained \cup {IdOf(q)} |->
                         IF i = IdOf(q) THEN q ELSE retained[i]]
  /\ UNCHANGED <<held, active>>

Activate ==
  /\ \E i \in DOMAIN retained : active' = i
  /\ UNCHANGED <<held, retained>>

Forget ==
  /\ \E i \in DOMAIN retained \ {active} :
       retained' = [k \in DOMAIN retained \ {i} |-> retained[k]]
  /\ UNCHANGED <<held, active>>

Next == Hold \/ Reclaim \/ Retain \/ Activate \/ Forget

Spec == Init /\ [][Next]_vars
-----------------------------------------------------------------------------
(* The promise: the active activation is retained, and every retained one  *)
(* can be served from the components held, so switching back is a pointer  *)
(* swap.                                                                   *)
Promise ==
  /\ active # Nothing => active \in DOMAIN retained
  /\ \A i \in DOMAIN retained :
       i.components \subseteq held /\ IdOf(retained[i]) = i
=============================================================================
