--------------------------- MODULE ComponentReader ---------------------------
(***************************************************************************)
(* A server that reads the dataset root while commands change it           *)
(* (server._LazyService, runtime/locator.py, service.from_components).     *)
(* It takes no lock: it reads the pointer twice, then the record, then     *)
(* looks at each component, and opens packs as queries need them.  Until   *)
(* it has opened a dataset every tool call tries again; from then on it    *)
(* serves the same activation until it is stopped.                         *)
(*                                                                         *)
(* An operator marked "Defect" is no part of the specification: it is the  *)
(* definition below it with a plausible bug, which a property must catch.  *)
(***************************************************************************)
EXTENDS ComponentLifecycle

CONSTANT LexicalCapability  \* the capability a server cannot do without

ASSUME ReaderAssumption == LexicalCapability \in Capability

VARIABLES
  server,      \* what the server is doing
  name,        \* the activation id it has read from the pointer
  activation,  \* the record it has parsed, which it serves
  unchecked    \* components it has yet to find in the store

readerVars == <<server, name, activation, unchecked>>

Opened == server \in {"serving", "refused"}

Serving == server = "serving"

ReaderInit ==
  /\ Init
  /\ server = "stopped"
  /\ name = Nothing
  /\ activation = Nothing
  /\ unchecked = {}

Reads(from, to) ==
  /\ server = from
  /\ server' = to

(* Defect: a failure to open the dataset is remembered as the service.     *)
GiveUp ==
  /\ server' = "gone"
  /\ name' = Nothing
  /\ activation' = Nothing
  /\ unchecked' = {}

(* Opening the dataset raises out of the tool call; _LazyService keeps     *)
(* nothing of it, and the next call starts over.                           *)
TryAgain ==
  /\ server' = "stopped"
  /\ name' = Nothing
  /\ activation' = Nothing
  /\ unchecked' = {}
-----------------------------------------------------------------------------
CallTool == Reads("stopped", "schema") /\ UNCHANGED <<name, activation, unchecked>>

(* _pointer_schema reads current.json for its schema alone. *)
ReadSchema ==
  /\ Reads("schema", "pointer")
  /\ pointer # Nothing
  /\ UNCHANGED <<name, activation, unchecked>>

ReadName ==
  /\ Reads("pointer", "record")
  /\ name' = pointer
  /\ UNCHANGED <<activation, unchecked>>

ReadActivation ==
  /\ Reads("record", "contains")
  /\ name \in Readable
  /\ IdOf(records[name]) = name
  /\ activation' = records[name]
  /\ unchecked' = name.components
  /\ UNCHANGED name

(* contains() asks for presence only.  The components come in one order.   *)
FindComponent ==
  LET d == CHOOSE d \in unchecked : TRUE IN
  /\ server = "contains"
  /\ unchecked # {}
  /\ d \in Stored
  /\ unchecked' = unchecked \ {d}
  /\ UNCHANGED <<server, name, activation>>

(* from_components opens a lexical pack to look at its schema. *)
Open ==
  /\ Reads("contains", "serving")
  /\ unchecked = {}
  /\ \E k \in SelectedPacks(activation) :
       /\ k.capability = LexicalCapability
       /\ k.components \subseteq Stored
  /\ UNCHANGED <<name, activation, unchecked>>

OpenFails ==
  /\ \/ server = "schema" /\ pointer = Nothing
     \/ /\ server = "record"
        /\ name \in Readable => IdOf(records[name]) # name
     \/ /\ server = "contains"
        /\ unchecked # {}
        /\ (CHOOSE d \in unchecked : TRUE) \notin Stored
     \/ /\ server = "contains"
        /\ unchecked = {}
        /\ \A k \in SelectedPacks(activation) :
             k.capability = LexicalCapability => ~(k.components \subseteq Stored)
  /\ TryAgain
-----------------------------------------------------------------------------
(* A query needs a pack that is not open, or no longer: router._connect    *)
(* raises if it cannot be opened, and the server stays as it is.           *)
Query ==
  /\ Opened
  /\ \E k \in SelectedPacks(activation) :
       server' = IF k.components \subseteq Stored THEN "serving" ELSE "refused"
  /\ UNCHANGED <<name, activation, unchecked>>

(* Its client ends the server, whatever it is doing. *)
Stop == server # "stopped" /\ TryAgain

Reader ==
  \/ CallTool \/ ReadSchema \/ ReadName \/ ReadActivation
  \/ FindComponent \/ Open \/ OpenFails

ServeNext ==
  \/ Next /\ UNCHANGED readerVars
  \/ (Reader \/ Query \/ Stop) /\ UNCHANGED vars

serveVars == <<vars, readerVars>>

(* A client that gets no answer asks again, and the server's steps follow. *)
ServeFairness ==
  /\ \A p \in Proc : WF_serveVars(Step(p) /\ UNCHANGED readerVars)
  /\ WF_serveVars(Reader /\ UNCHANGED vars)

ServeSpec == ReaderInit /\ [][ServeNext]_serveVars /\ ServeFairness
-----------------------------------------------------------------------------
Refused == Query /\ server' = "refused"

(* A server is disturbed only by what a user asked for.  While no file has *)
(* been damaged, opening the dataset fails after the pointer was read, and *)
(* a query cannot open a pack, only if the activation has been forgotten,  *)
(* or has no lexical pack to begin with.  Installs, switches and prunes    *)
(* that run meanwhile never cause it.                                      *)
ReaderUndisturbed ==
  [][ damage = 0 /\ name # Nothing /\ (OpenFails \/ Refused) =>
        \/ name \notin DOMAIN records
        \/ /\ server = "contains"
           /\ \A k \in SelectedPacks(activation) : k.capability # LexicalCapability
    ]_serveVars

(* Once the pointer is left alone, a client is served for good: the server *)
(* opens and answers every query, however often it failed or had to refuse *)
(* before, if its client restarts it when it goes on refusing and          *)
(* otherwise lets it run.  (The restart is needed: a server serves what it *)
(* has opened, and that may have been forgotten and pruned since.)         *)
ServerComesUp ==
  ( /\ <>[][FALSE]_pointer
    /\ <>[](pointer # Nothing)
    /\ <>[][Stop => OpenFails \/ server = "refused"]_serveVars
    /\ SF_serveVars(server = "refused" /\ Stop /\ UNCHANGED vars) )
  => <>[]Serving
-----------------------------------------------------------------------------
(* What the server has read of the root: the record it parsed is what its  *)
(* name stands for, and what it has yet to find is listed there.           *)
ReaderInv ==
  /\ server \in {"stopped", "schema", "pointer"} => name = Nothing
  /\ server \in {"contains", "serving", "refused"} =>
       /\ activation \in Request
       /\ IdOf(activation) = name
       /\ unchecked \subseteq name.components
=============================================================================
