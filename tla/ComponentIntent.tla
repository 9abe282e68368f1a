--------------------------- MODULE ComponentIntent ---------------------------
(***************************************************************************)
(* ComponentLifecycle with a memory of what its users asked for, to say    *)
(* what an amendment promises them.  The history variables are no part of  *)
(* the program:                                                            *)
(*   intent     the languages the commands that have succeeded so far      *)
(*              asked for, in the order of their pointer swaps;            *)
(*   overtaken  the processes amending a selection that another command    *)
(*              has replaced since they read it;                           *)
(*   lapsed     whether the active record may ask for less than intent.    *)
(***************************************************************************)
EXTENDS ComponentLifecycle

VARIABLES intent, overtaken, lapsed

history == <<intent, overtaken, lapsed>>
ivars == <<vars, history>>

(* The languages a request names. *)
LanguagesAsked(q) ==
  IF q.languages = AllLanguages THEN ManifestLanguages(q.release)
                                ELSE Normalized(q.languages)

(* What the user of p intends once p's command has succeeded: an install   *)
(* replaces the languages, an amendment adds to them or takes from them,   *)
(* activate returns to those of the retained activation.                   *)
IntentAfter(p) ==
  IF ask[p] # Nothing
  THEN IF ask[p].op = "add" THEN intent \cup Normalized(ask[p].languages)
                            ELSE intent \ Normalized(ask[p].languages)
  ELSE LanguagesAsked(IF plan[p] = Nothing THEN records[target[p]] ELSE plan[p])

(* An amendment reads the active selection before it takes the lock, and   *)
(* does not look at it again.                                              *)
OvertakenBy(p) ==
  {q \in Proc \ {p} : ask[q] # Nothing /\ pc[q] # "amend_pointer"}

(* _write_activation keeps the record it finds under the id, although that *)
(* may have been written for a request of fewer languages.                 *)
RecordAsksLess(p) ==
  /\ plan[p] # Nothing
  /\ ~(LanguagesAsked(plan[p]) \subseteq LanguagesAsked(records[target[p]]))

InitI == Init /\ intent = {} /\ overtaken = {} /\ lapsed = FALSE

Succeed(p) ==
  /\ WritePointer(p)
  /\ intent' = IntentAfter(p)
  /\ overtaken' = (overtaken \cup OvertakenBy(p)) \ {p}
  /\ lapsed' = \/ RecordAsksLess(p)
               \/ ask[p] # Nothing /\ (lapsed \/ p \in overtaken)

Return(p) ==
  /\ LockBusy(p) \/ Refuse(p) \/ Abort(p) \/ Swept(p) \/ Unlink(p)
  /\ overtaken' = overtaken \ {p}
  /\ UNCHANGED <<intent, lapsed>>

Proceed(p) ==
  /\ \/ Start(p) \/ ReadPointer(p) \/ ReadRecord(p) \/ AcquireLock(p)
     \/ Scan(p) \/ Materialize(p) \/ Adopt(p)
     \/ RetainManifest(p) \/ WriteRecord(p)
     \/ Verify(p) \/ Mark(p) \/ Sweep(p) \/ CheckForget(p)
  /\ UNCHANGED history

NextI ==
  \/ \E p \in Proc : Succeed(p) \/ Return(p) \/ Proceed(p)
  \/ Damage /\ UNCHANGED history

SpecI == InitI /\ [][NextI]_ivars
-----------------------------------------------------------------------------
(* The active selection serves every language the successful commands      *)
(* leave the user with, in every capability it covers, as far as the       *)
(* release has a pack for it.                                              *)
ServesIntent ==
  LET active == records[pointer] IN
  \A c \in active.capabilities, l \in intent :
    PackFor(active.release, c, l) \subseteq SelectedPacks(active)

(* README: "A selection is never silently narrowed."  No succession of     *)
(* commands that all succeed, of whatever users, drops a language that was *)
(* asked for and not removed since.                                        *)
IntentServed == pointer # Nothing => ServesIntent

(* The only two ways in which a selection is narrowed after all: the       *)
(* record found under its id was written for fewer languages, or the       *)
(* amendment had been overtaken when it swapped the pointer; and then      *)
(* amendments build on the loss, until an install or activate.             *)
IntentKept == pointer # Nothing /\ ~lapsed => ServesIntent
-----------------------------------------------------------------------------
(* Why: unless the intent has lapsed, the active record asks for all of    *)
(* it, and so does what an amendment plans that has not been overtaken.    *)
IntentInv ==
  /\ pointer # Nothing /\ ~lapsed => intent \subseteq LanguagesAsked(records[pointer])
  /\ \A p \in Proc :
       /\ ask[p] # Nothing => pc[p] \in Reading \/ plan[p] # Nothing
       /\ pc[p] = "amend_record" /\ p \notin overtaken =>
            pointer # Nothing /\ target[p] = pointer
       /\ plan[p] # Nothing =>
            /\ pc[p] \in Planned \cup {"pointer"}
            /\ target[p] = IdOf(plan[p])
            /\ ask[p] = Nothing \/ (p \notin overtaken /\ ~lapsed) =>
                 IntentAfter(p) \subseteq LanguagesAsked(plan[p])
=============================================================================
