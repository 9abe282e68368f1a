------------------------------ MODULE PackRouter ------------------------------
(***************************************************************************)
(* The server's least-recently-used cache of pack connections              *)
(* (runtime/router.py) beside its index caches.  The event loop runs one   *)
(* tool at a time: it takes the connections a query needs (service._db,    *)
(* service._relation_rows_many, traversal.expand_frontier) and uses them   *)
(* after the router's lock is released.  The threads that search semantic  *)
(* packs make the router read the language catalogue, which opens the core *)
(* pack.  Opening a pack closes the connections it evicts.                 *)
(*                                                                         *)
(* An operator marked "Defect" is no part of the specification: it is the  *)
(* definition below it with a plausible bug, which a property must catch.  *)
(***************************************************************************)
EXTENDS PackIndexCache

CONSTANTS
  PackOf,        \* the installed lexical pack of each language, or None
  CorePack,      \* the pack with the language catalogue
  MaxOpenPacks,  \* max_open_packs
  FrontierPacks  \* bound on the packs one query reads

Packs(languages) == {PackOf[l] : l \in languages} \ {None}

(* The code does not check that a frontier leaves room for the core pack;  *)
(* the server's own queries read one pack each.                            *)
ASSUME RouterAssumption ==
  /\ CorePack # None
  /\ MaxOpenPacks \in Nat \ {0}
  /\ FrontierPacks \in 1 .. MaxOpenPacks - 1
  /\ IsFiniteSet(DOMAIN PackOf)

VARIABLES
  open,      \* _open: packs with a connection, the least recently used first
  coverage,  \* the catalogue has been read
  asked,     \* languages whose connection it has yet to ask for
  held,      \* packs whose connection it holds
  stale      \* those of them whose connection has been closed since

routerVars == <<open, coverage, asked, held, stale>>

(* Defect: a hit does not count as a use. *)
ConnectUnmoved(p) ==
  LET all == IF p \in ToSet(open) THEN open ELSE Append(open, p)
      excess == IF Len(all) > MaxOpenPacks THEN Len(all) - MaxOpenPacks ELSE 0
  IN  /\ open' = SubSeq(all, excess + 1, Len(all))
      /\ stale' = stale \cup (held \cap ToSet(SubSeq(all, 1, excess)))

(* The connections with that of p, open already or not, as the last used.  *)
MostRecent(p) ==
  IF p \in ToSet(open)
  THEN Append(RemoveAt(open, CHOOSE n \in DOMAIN open : open[n] = p), p)
  ELSE Append(open, p)

(* _connect, under the router's lock: what it evicts, it closes. *)
Connect(p) ==
  LET all == MostRecent(p)
      excess == IF Len(all) > MaxOpenPacks THEN Len(all) - MaxOpenPacks ELSE 0
  IN  /\ open' = SubSeq(all, excess + 1, Len(all))
      /\ stale' = stale \cup (held \cap ToSet(SubSeq(all, 1, excess)))

(* The catalogue is read once, under the same lock. *)
Coverage ==
  /\ coverage' = TRUE
  /\ IF coverage THEN UNCHANGED <<open, stale>> ELSE Connect(CorePack)

RouterInit ==
  /\ Init
  /\ open = <<>>
  /\ coverage = FALSE
  /\ asked = {}
  /\ held = {}
  /\ stale = {}
-----------------------------------------------------------------------------
(* A tool call: a lookup names one language, a frontier may span several.  *)
Request ==
  /\ asked = {} /\ held = {}
  /\ \E languages \in SUBSET DOMAIN PackOf :
       /\ Cardinality(Packs(languages)) <= FrontierPacks
       /\ asked' = languages
  /\ UNCHANGED <<open, coverage, held, stale>>

(* connection_for, or availability when no installed pack has the language. *)
Route ==
  /\ \E l \in asked :
       /\ asked' = asked \ {l}
       /\ IF PackOf[l] = None THEN Coverage /\ UNCHANGED held
          ELSE /\ Connect(PackOf[l])
               /\ held' = held \cup {PackOf[l]}
               /\ UNCHANGED coverage

(* Every connection has been asked for: the queries run, and then return.  *)
Return ==
  /\ asked = {}
  /\ held # {}
  /\ held' = {}
  /\ stale' = {}
  /\ UNCHANGED <<open, coverage, asked>>

(* dictionary_semantic_neighbors asks which languages have vectors, before *)
(* or after it has searched, and whatever the event loop is doing.         *)
ReadCoverage(t) ==
  /\ pc[t] = "idle"
  /\ Coverage
  /\ UNCHANGED <<asked, held>>

RouterNext ==
  \/ Next /\ UNCHANGED routerVars
  \/ (Request \/ Route \/ Return) /\ UNCHANGED vars
  \/ \E t \in Thread : ReadCoverage(t) /\ UNCHANGED vars

RouterSpec == RouterInit /\ [][RouterNext]_<<vars, routerVars>>
-----------------------------------------------------------------------------
(* router.py: connections are held in a small LRU, which a query outlives  *)
(* only because it is the most recent user.  No connection a query is      *)
(* about to use has been closed by an eviction, on whichever thread.       *)
NoClosedUse == asked = {} => stale = {}
-----------------------------------------------------------------------------
(* What keeps it invariant; the steps preserve RouterInv.                  *)

Pack == Packs(DOMAIN PackOf) \cup {CorePack}

RouterTypes ==
  /\ open \in Seq(Pack) /\ Len(open) <= MaxOpenPacks
  /\ \A m, n \in DOMAIN open : open[m] = open[n] => m = n
  /\ coverage \in BOOLEAN
  /\ asked \subseteq DOMAIN PackOf
  /\ held \subseteq Packs(DOMAIN PackOf)

(* The packs of a query are few, and those it holds were used last, but    *)
(* for the core pack: it may have been opened in between.                  *)
UsedLast ==
  /\ Cardinality(held \cup Packs(asked)) <= FrontierPacks
  /\ held \subseteq ToSet(open)
  /\ \A m, n \in DOMAIN open : m < n /\ open[m] \in held => open[n] \in held \cup {CorePack}

RouterInv == RouterTypes /\ UsedLast /\ stale = {}
=============================================================================
