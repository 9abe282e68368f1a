----------------------- MODULE ComponentLifecycleProofs -----------------------
(***************************************************************************)
(* The safety of the schema 2 dataset root, for every set of releases,     *)
(* processes and commands, and any amount of damage.                       *)
(***************************************************************************)
EXTENDS ComponentIntent, ComponentReader, TLAPS

USE DEF Goto, root, locals

-----------------------------------------------------------------------------
(* Resolving a request, for every manifest that parses. *)

(* A selection consists of packs of its release, and of their components. *)
LEMMA SelectionTyped ==
  ASSUME NEW q \in Request
  PROVE  /\ SelectedPacks(q) \subseteq Manifest[q.release]
         /\ SelectedComponents(q) \in SUBSET Digest
         /\ IdOf(q) \in ActivationId
<1>1. q.release \in Release
  BY DEF Request
<1>2. SelectedPacks(q) \subseteq Manifest[q.release]
  <2>1. RequiredPacks(q.release) \subseteq Manifest[q.release]
    BY DEF RequiredPacks
  <2>2. \A c \in q.capabilities : \A l \in Wanted(q, c) :
          PackFor(q.release, c, l) \subseteq Manifest[q.release]
    BY DEF PackFor
  <2>3. ServedPacks(q) \subseteq Manifest[q.release]
    BY <2>2 DEF ServedPacks
  <2>4. QED
    BY <2>1, <2>3 DEF SelectedPacks
<1>3. \A p \in SelectedPacks(q) : p.components \subseteq Digest
  BY <1>1, <1>2, ManifestAssumption DEF PackType
<1>4. SelectedComponents(q) \in SUBSET Digest
  BY <1>3 DEF SelectedComponents
<1>5. IdOf(q) \in ActivationId
  BY <1>1, <1>4 DEF IdOf, ActivationId
<1>6. QED
  BY <1>2, <1>4, <1>5

LEMMA ManifestLanguagesTyped ==
  ASSUME NEW r \in Release
  PROVE  ManifestLanguages(r) \in SUBSET Language
<1>1. \A p \in Manifest[r] : p.languages \subseteq Language
  BY ManifestAssumption DEF PackType
<1>2. QED
  BY <1>1 DEF ManifestLanguages

(* Amending a record yields a request again. *)
LEMMA AmendedTyped ==
  ASSUME NEW active \in Request, NEW a \in AmendCommand
  PROVE  Amended(active, a) \in Request
<1>1. active.release \in Release /\ a.release \in Release
  BY DEF Request, AmendCommand
<1>2. ManifestLanguages(active.release) \in SUBSET Language
  BY <1>1, ManifestLanguagesTyped
<1>3. Amended(active, a).languages \in SUBSET Tag
  BY <1>2, ManifestAssumption DEF Amended, Request, AmendCommand
<1>4. Amended(active, a).capabilities \in SUBSET Capability
  BY DEF Amended, Request, AmendCommand
<1>5. Amended(active, a) = [release |-> a.release,
                            languages |-> Amended(active, a).languages,
                            capabilities |-> Amended(active, a).capabilities]
  BY DEF Amended
<1>6. QED
  BY <1>1, <1>3, <1>4, <1>5 DEF Request

(* What leaving a command keeps well typed. *)
LEMMA LeaveTyped ==
  ASSUME NEW p \in Proc, TypeOK, Leave(p)
  PROVE  /\ lock' \in Proc \cup {Nothing}
         /\ damage' \in 0 .. MaxDamage
         /\ pc' \in [Proc -> {"idle"} \cup Reading \cup Waiting \cup Locked]
         /\ ask' \in [Proc -> AmendCommand \cup {Nothing}]
         /\ plan' \in [Proc -> Request \cup {Nothing}]
         /\ target' \in [Proc -> ActivationId \cup {Nothing}]
         /\ todo' \in [Proc -> SUBSET Digest]
         /\ staged' \in [Proc -> StagedFile \cup {Nothing}]
BY DEF Leave, TypeOK

LEMMA InitIInv == Init => IInv
<1> SUFFICES ASSUME Init PROVE IInv
  OBVIOUS
<1>1. TypeOK
  BY LifecycleAssumption DEF Init, TypeOK, ObjectState, Waiting, Reading, Locked
<1>2. LockHeld /\ LocalsDefined /\ UnderLock
  BY DEF Init, LockHeld, LocalsDefined, UnderLock, Waiting, Reading, Locked, Planned, Named
<1>3. RecordsSound /\ Undamaged
  BY DEF Init, RecordsSound, Undamaged, Readable, Intact, Good
<1>4. QED
  BY <1>1, <1>2, <1>3 DEF IInv
-----------------------------------------------------------------------------
(* The steps that end a command, and those it takes while it holds the lock. *)
Leaves(p) ==
  LockBusy(p) \/ Refuse(p) \/ Abort(p) \/ Swept(p) \/ WritePointer(p) \/ Unlink(p)

HoldsOn(p) ==
  \/ Scan(p) \/ Materialize(p) \/ Adopt(p) \/ RetainManifest(p) \/ WriteRecord(p)
  \/ Verify(p) \/ Mark(p) \/ Sweep(p) \/ CheckForget(p)

LEMMA LeavesLeave ==
  ASSUME NEW p \in Proc, Leaves(p)
  PROVE  Leave(p)
BY DEF Leaves, LockBusy, Refuse, Abort, Swept, WritePointer, Unlink

LEMMA NextSplit ==
  ASSUME [Next]_vars
  PROVE  \/ \E p \in Proc : Start(p) \/ ReadPointer(p) \/ ReadRecord(p)
         \/ \E p \in Proc : AcquireLock(p)
         \/ \E p \in Proc : Leaves(p)
         \/ \E p \in Proc : HoldsOn(p)
         \/ Damage \/ UNCHANGED vars
BY DEF Next, Step, Leaves, HoldsOn

-----------------------------------------------------------------------------
LEMMA TypeStep == IInv /\ [Next]_vars => TypeOK'
<1> SUFFICES ASSUME IInv, [Next]_vars PROVE TypeOK'
  OBVIOUS
<1> USE DEF TypeOK, LocalsDefined
<1>1. ASSUME NEW p \in Proc, StartInstall(p) PROVE TypeOK'
  <2>1. PICK c \in Installs : Plan(p, c.request)
    BY <1>1 DEF StartInstall
  <2>2. c.request \in Request
    BY LifecycleAssumption DEF InstallCommand
  <2>3. IdOf(c.request) \in ActivationId
    BY <2>2, SelectionTyped
  <2>4. QED
    BY <1>1, <2>1, <2>2, <2>3 DEF IInv, StartInstall, Plan, Waiting
<1>2. ASSUME NEW p \in Proc, StartAmend(p) PROVE TypeOK'
  BY <1>2, LifecycleAssumption DEF IInv, StartAmend, Reading
<1>3. ASSUME NEW p \in Proc, StartUpkeep(p) PROVE TypeOK'
  BY <1>3 DEF IInv, StartUpkeep, Waiting
<1>4. ASSUME NEW p \in Proc, ReadPointer(p) PROVE TypeOK'
  BY <1>4 DEF IInv, ReadPointer, Reading
<1>5. ASSUME NEW p \in Proc, ReadRecord(p) PROVE TypeOK'
  <2>1. ask[p] \in AmendCommand /\ records[target[p]] \in Request
    BY <1>5 DEF IInv, ReadRecord, Readable, Reading
  <2> DEFINE q == Amended(records[target[p]], ask[p])
  <2>2. q \in Request
    BY <2>1, AmendedTyped
  <2>3. IdOf(q) \in ActivationId
    BY <2>2, SelectionTyped
  <2>4. Plan(p, q)
    BY <1>5 DEF ReadRecord
  <2> HIDE DEF q
  <2>5. QED
    BY <1>5, <2>2, <2>3, <2>4 DEF IInv, ReadRecord, Plan, Waiting
<1>6. ASSUME NEW p \in Proc, AcquireLock(p) PROVE TypeOK'
  BY <1>6 DEF IInv, AcquireLock, FirstStep, Waiting, Locked
<1>7. ASSUME NEW p \in Proc, LockBusy(p) \/ Refuse(p) \/ Abort(p) \/ Swept(p)
      PROVE TypeOK'
  <2>1. Leave(p) /\ UNCHANGED root
    BY <1>7 DEF LockBusy, Refuse, Abort, Swept
  <2>2. QED
    BY <2>1, LeaveTyped DEF IInv
<1>8. ASSUME NEW p \in Proc, Scan(p) PROVE TypeOK'
  <2>1. SelectedComponents(plan[p]) \in SUBSET Digest
    BY <1>8, SelectionTyped DEF IInv, Scan, Planned
  <2>2. QED
    BY <1>8, <2>1 DEF IInv, Scan, Locked
<1>9. ASSUME NEW p \in Proc, Materialize(p) PROVE TypeOK'
  BY <1>9 DEF IInv, Materialize, Locked, StagedFile
<1>10. ASSUME NEW p \in Proc, Adopt(p) PROVE TypeOK'
  <2>1. staged[p].digest \in Digest
    BY <1>10 DEF IInv, Adopt, StagedFile
  <2>2. store' \in [Digest -> ObjectState]
    BY <1>10, <2>1 DEF IInv, Adopt, ObjectState
  <2>3. QED
    BY <1>10, <2>2 DEF IInv, Adopt, Locked
<1>11. ASSUME NEW p \in Proc, RetainManifest(p) PROVE TypeOK'
  BY <1>11 DEF IInv, RetainManifest, Locked, Planned, Request
<1>12. ASSUME NEW p \in Proc, WriteRecord(p) PROVE TypeOK'
  <2>1. plan[p] \in Request /\ target[p] \in ActivationId
    BY <1>12, SelectionTyped DEF IInv, WriteRecord, Planned
  <2>2. /\ DOMAIN records' \subseteq ActivationId
        /\ records' \in [DOMAIN records' -> Request]
        /\ torn' \subseteq DOMAIN records'
    BY <1>12, <2>1 DEF IInv, WriteRecord
  <2>3. QED
    BY <1>12, <2>2 DEF IInv, WriteRecord, Locked
<1>13. ASSUME NEW p \in Proc, WritePointer(p) PROVE TypeOK'
  <2>1. pointer' \in ActivationId
    BY <1>13 DEF IInv, WritePointer, Named
  <2>2. QED
    BY <1>13, <2>1, LeaveTyped DEF IInv, WritePointer
<1>14. ASSUME NEW p \in Proc, Verify(p) \/ CheckForget(p) PROVE TypeOK'
  BY <1>14 DEF IInv, Verify, CheckForget, Locked
<1>15. ASSUME NEW p \in Proc, Mark(p) PROVE TypeOK'
  BY <1>15 DEF IInv, Mark, Locked, Stored
<1>16. ASSUME NEW p \in Proc, Sweep(p) PROVE TypeOK'
  BY <1>16 DEF IInv, Sweep, ObjectState
<1>17. ASSUME NEW p \in Proc, Unlink(p) PROVE TypeOK'
  <2>1. /\ DOMAIN records' \subseteq ActivationId
        /\ records' \in [DOMAIN records' -> Request]
        /\ torn' \subseteq DOMAIN records'
    BY <1>17 DEF IInv, Unlink
  <2>2. QED
    BY <1>17, <2>1, LeaveTyped DEF IInv, Unlink
<1>18. CASE Damage
  <2>1. damage' \in 0 .. MaxDamage
    BY <1>18, LifecycleAssumption DEF IInv, Damage
  <2>2. CASE RotObject
    BY <2>1, <2>2 DEF IInv, RotObject, ObjectState
  <2>3. CASE TearRecord
    BY <2>1, <2>3 DEF IInv, TearRecord, Readable
  <2>4. CASE RotStaged
    BY <2>1, <2>4 DEF IInv, RotStaged, StagedFile
  <2>5. QED
    BY <1>18, <2>2, <2>3, <2>4 DEF Damage
<1>19. CASE UNCHANGED vars
  BY <1>19 DEF IInv, vars
<1>20. QED
  BY <1>1, <1>2, <1>3, <1>4, <1>5, <1>6, <1>7, <1>8, <1>9, <1>10, <1>11, <1>12,
     <1>13, <1>14, <1>15, <1>16, <1>17, <1>18, <1>19 DEF Next, Start, Step
-----------------------------------------------------------------------------
LEMMA LockStep == IInv /\ [Next]_vars => LockHeld'
<1> SUFFICES ASSUME IInv, [Next]_vars, NEW r \in Proc, pc'[r] \in Locked
             PROVE  lock' = r
  BY DEF LockHeld
<1> USE DEF LockHeld, TypeOK
<1>1. Nothing \notin Proc
  BY LifecycleAssumption
<1>2. ASSUME NEW p \in Proc, Start(p) \/ ReadPointer(p) \/ ReadRecord(p)
      PROVE  lock' = r
  BY <1>2 DEF IInv, Start, StartInstall, StartAmend, StartUpkeep, Plan,
              ReadPointer, ReadRecord, Locked
<1>3. ASSUME NEW p \in Proc, AcquireLock(p) PROVE lock' = r
  BY <1>1, <1>3 DEF IInv, AcquireLock
<1>4. ASSUME NEW p \in Proc, Leave(p) PROVE lock' = r
  BY <1>1, <1>4 DEF IInv, Leave, Locked
<1>5. ASSUME NEW p \in Proc, Leaves(p) PROVE lock' = r
  BY <1>4, <1>5, LeavesLeave
<1>6. ASSUME NEW p \in Proc, HoldsOn(p) PROVE lock' = r
  BY <1>6 DEF IInv, HoldsOn, Scan, Materialize, Adopt, RetainManifest, WriteRecord,
              Verify, Mark, Sweep, CheckForget, Locked
<1>7. CASE Damage \/ UNCHANGED vars
  BY <1>7 DEF IInv, Damage, RotObject, TearRecord, RotStaged, vars
<1>8. QED
  BY <1>2, <1>3, <1>5, <1>6, <1>7, NextSplit
-----------------------------------------------------------------------------
(* The locals of one process, and that they are defined where it stands. *)
Defined(p) ==
  /\ pc[p] \in Reading => ask[p] \in AmendCommand
  /\ pc[p] \in Named => target[p] \in ActivationId
  /\ pc[p] \in Planned => plan[p] \in Request /\ target[p] = IdOf(plan[p])
  /\ pc[p] = "adopt" => staged[p] \in StagedFile /\ staged[p].digest \in todo[p]

LEMMA LocalsStep == IInv /\ [Next]_vars => LocalsDefined'
<1> SUFFICES ASSUME IInv, [Next]_vars PROVE \A r \in Proc : Defined(r)'
  BY DEF LocalsDefined, Defined
<1> USE DEF Defined, TypeOK, Reading, Named, Planned
<1>0. \A r \in Proc : Defined(r)
  BY DEF IInv, LocalsDefined
<1>1. ASSUME NEW p \in Proc, Start(p) PROVE \A r \in Proc : Defined(r)'
  <2>1. CASE StartInstall(p)
    <3>1. PICK c \in Installs : Plan(p, c.request)
      BY <2>1 DEF StartInstall
    <3>2. c.request \in Request
      BY LifecycleAssumption DEF InstallCommand
    <3>3. QED
      BY <1>0, <2>1, <3>1, <3>2 DEF IInv, StartInstall, Plan
  <2>2. CASE StartAmend(p)
    BY <1>0, <2>2, LifecycleAssumption DEF IInv, StartAmend
  <2>3. CASE StartUpkeep(p)
    BY <1>0, <2>3 DEF IInv, StartUpkeep
  <2>4. QED
    BY <1>1, <2>1, <2>2, <2>3 DEF Start
<1>2. ASSUME NEW p \in Proc, ReadPointer(p) PROVE \A r \in Proc : Defined(r)'
  BY <1>0, <1>2 DEF IInv, ReadPointer
<1>3. ASSUME NEW p \in Proc, ReadRecord(p) PROVE \A r \in Proc : Defined(r)'
  <2>1. ask[p] \in AmendCommand /\ records[target[p]] \in Request
    BY <1>0, <1>3 DEF IInv, ReadRecord, Readable
  <2> DEFINE q == Amended(records[target[p]], ask[p])
  <2>2. q \in Request
    BY <2>1, AmendedTyped
  <2>3. Plan(p, q)
    BY <1>3 DEF ReadRecord
  <2> HIDE DEF q
  <2>4. QED
    BY <1>0, <1>3, <2>2, <2>3 DEF IInv, ReadRecord, Plan
<1>4. ASSUME NEW p \in Proc, AcquireLock(p) PROVE \A r \in Proc : Defined(r)'
  BY <1>0, <1>4 DEF IInv, AcquireLock, Waiting, FirstStep
<1>5. ASSUME NEW p \in Proc, Leaves(p) PROVE \A r \in Proc : Defined(r)'
  <2>1. Leave(p)
    BY <1>5, LeavesLeave
  <2>2. QED
    BY <1>0, <2>1 DEF IInv, Leave
<1>6. ASSUME NEW p \in Proc, HoldsOn(p) PROVE \A r \in Proc : Defined(r)'
  <2>1. CASE Scan(p)
    BY <1>0, <2>1 DEF IInv, Scan
  <2>2. CASE Materialize(p)
    BY <1>0, <2>2 DEF IInv, Materialize, StagedFile
  <2>3. CASE Adopt(p)
    BY <1>0, <2>3 DEF IInv, Adopt
  <2>4. CASE RetainManifest(p)
    BY <1>0, <2>4 DEF IInv, RetainManifest
  <2>5. CASE WriteRecord(p)
    <3>1. target[p] \in ActivationId
      BY <1>0, <2>5, SelectionTyped DEF WriteRecord
    <3>2. QED
      BY <1>0, <2>5, <3>1 DEF IInv, WriteRecord
  <2>6. CASE Verify(p) \/ CheckForget(p)
    BY <1>0, <2>6 DEF IInv, Verify, CheckForget
  <2>7. CASE Mark(p)
    BY <1>0, <2>7 DEF IInv, Mark
  <2>8. CASE Sweep(p)
    BY <1>0, <2>8 DEF IInv, Sweep
  <2>9. QED
    BY <1>6, <2>1, <2>2, <2>3, <2>4, <2>5, <2>6, <2>7, <2>8 DEF HoldsOn
<1>7. CASE Damage
  <2>1. CASE RotStaged
    BY <1>0, <2>1 DEF IInv, RotStaged, StagedFile
  <2>2. CASE RotObject \/ TearRecord
    BY <1>0, <2>2 DEF RotObject, TearRecord
  <2>3. QED
    BY <1>7, <2>1, <2>2 DEF Damage
<1>8. CASE UNCHANGED vars
  BY <1>0, <1>8 DEF vars
<1>9. QED
  BY <1>1, <1>2, <1>3, <1>4, <1>5, <1>6, <1>7, <1>8, NextSplit
-----------------------------------------------------------------------------
(* The lock excludes: where one process works under it, no other does. *)
LEMMA Exclusion ==
  ASSUME IInv, NEW p \in Proc, pc[p] \in Locked, NEW r \in Proc, r # p
  PROVE  pc[r] \notin Locked
BY DEF IInv, LockHeld

LEMMA AtRest ==
  ASSUME IInv, lock = Nothing, NEW r \in Proc
  PROVE  pc[r] \notin Locked
BY LifecycleAssumption DEF IInv, LockHeld

(* Steps that hold on are taken under the lock. *)
LEMMA HoldsOnLocked ==
  ASSUME NEW p \in Proc, HoldsOn(p)
  PROVE  pc[p] \in Locked
BY DEF HoldsOn, Scan, Materialize, Adopt, RetainManifest, WriteRecord, Verify, Mark,
       Sweep, CheckForget, Locked

LEMMA RecordsStep == IInv /\ [Next]_vars => RecordsSound'
<1> SUFFICES ASSUME IInv, [Next]_vars PROVE RecordsSound'
  OBVIOUS
<1>0. TypeOK /\ RecordsSound /\ UnderLock /\ LocalsDefined
  BY DEF IInv
<1> USE DEF RecordsSound
<1>1. ASSUME UNCHANGED <<records, pointer, manifests>> PROVE RecordsSound'
  BY <1>0, <1>1
<1>2. ASSUME NEW p \in Proc, Start(p) \/ ReadPointer(p) \/ ReadRecord(p) \/ AcquireLock(p)
      PROVE  RecordsSound'
  BY <1>1, <1>2 DEF Start, StartInstall, StartAmend, StartUpkeep, ReadPointer,
                    ReadRecord, AcquireLock
<1>3. ASSUME NEW p \in Proc, Leaves(p) PROVE RecordsSound'
  <2>1. CASE WritePointer(p)
    BY <1>0, <2>1 DEF WritePointer, UnderLock
  <2>2. CASE Unlink(p)
    <3>1. target[p] # pointer
      BY <1>0, <2>2 DEF Unlink, UnderLock
    <3>2. QED
      BY <1>0, <2>2, <3>1 DEF Unlink
  <2>3. CASE LockBusy(p) \/ Refuse(p) \/ Abort(p) \/ Swept(p)
    BY <1>1, <2>3 DEF LockBusy, Refuse, Abort, Swept
  <2>4. QED
    BY <1>3, <2>1, <2>2, <2>3 DEF Leaves
<1>4. ASSUME NEW p \in Proc, HoldsOn(p) PROVE RecordsSound'
  <2>1. CASE RetainManifest(p)
    BY <1>0, <2>1 DEF RetainManifest
  <2>2. CASE WriteRecord(p)
    <3>1. /\ plan[p].release \in manifests
          /\ target[p] = IdOf(plan[p])
      BY <1>0, <2>2 DEF WriteRecord, UnderLock, LocalsDefined, Planned
    <3>2. target[p].release = plan[p].release
      BY <3>1 DEF IdOf
    <3>3. QED
      BY <1>0, <2>2, <3>1, <3>2 DEF WriteRecord
  <2>3. CASE \/ Scan(p) \/ Materialize(p) \/ Adopt(p) \/ Verify(p) \/ Mark(p)
             \/ Sweep(p) \/ CheckForget(p)
    BY <1>1, <2>3 DEF Scan, Materialize, Adopt, Verify, Mark, Sweep, CheckForget
  <2>4. QED
    BY <1>4, <2>1, <2>2, <2>3 DEF HoldsOn
<1>5. CASE Damage \/ UNCHANGED vars
  BY <1>1, <1>5 DEF Damage, RotObject, TearRecord, RotStaged, vars
<1>6. QED
  BY <1>2, <1>3, <1>4, <1>5, NextSplit
-----------------------------------------------------------------------------
(* What the process has established if it holds the lock. *)
Established(p) ==
  /\ pc[p] = "record" => plan[p].release \in manifests
  /\ pc[p] = "pointer" => target[p] \in DOMAIN records
  /\ pc[p] = "pointer" /\ plan[p] = Nothing => Intact(target[p])
  /\ pc[p] = "sweep" => \A i \in Readable : i.components \cap todo[p] = {}
  /\ pc[p] = "unlink" => target[p] # pointer

(* A process that is not under the lock, or about to be, has nothing to    *)
(* lose; and one that sees neither the root nor its locals change keeps    *)
(* what it has.                                                            *)
LEMMA EstablishedFrame ==
  ASSUME NEW r \in Proc,
         \/ pc'[r] \notin Locked
         \/ /\ Established(r)
            /\ UNCHANGED <<root, pc[r], plan[r], target[r], todo[r]>>
  PROVE  Established(r)'
BY DEF Established, Locked, Intact, Good, Readable

LEMMA UnderLockStep == IInv /\ [Next]_vars => UnderLock'
<1> SUFFICES ASSUME IInv, [Next]_vars, NEW r \in Proc PROVE Established(r)'
  BY DEF UnderLock, Established
<1>0. TypeOK /\ LockHeld /\ LocalsDefined /\ Established(r)
  BY DEF IInv, UnderLock, Established
<1> USE DEF TypeOK
<1>1. ASSUME NEW p \in Proc, Start(p) \/ ReadPointer(p) \/ ReadRecord(p)
      PROVE  Established(r)'
  <2>1. CASE r = p
    BY <1>0, <1>1, <2>1, EstablishedFrame
       DEF Start, StartInstall, StartAmend, StartUpkeep, ReadPointer, ReadRecord, Locked
  <2>2. CASE r # p
    BY <1>0, <1>1, <2>2, EstablishedFrame
       DEF Start, StartInstall, StartAmend, StartUpkeep, ReadPointer, ReadRecord, Plan
  <2>3. QED
    BY <2>1, <2>2
<1>2. ASSUME NEW p \in Proc, AcquireLock(p) PROVE Established(r)'
  <2>1. CASE r = p
    BY <1>0, <1>2, <2>1 DEF AcquireLock, Established, Waiting, FirstStep
  <2>2. CASE r # p
    BY <1>0, <1>2, <2>2, EstablishedFrame DEF AcquireLock
  <2>3. QED
    BY <2>1, <2>2
<1>3. ASSUME NEW p \in Proc, Leaves(p) PROVE Established(r)'
  <2>1. Leave(p)
    BY <1>3, LeavesLeave
  <2>2. CASE r = p
    BY <1>0, <2>1, <2>2, EstablishedFrame DEF Leave, Locked
  <2>3. CASE r # p /\ (WritePointer(p) \/ Unlink(p))
    <3>1. pc[r] \notin Locked
      BY <2>3, Exclusion DEF WritePointer, Unlink, Locked
    <3>2. QED
      BY <1>0, <2>1, <2>3, <3>1, EstablishedFrame DEF Leave
  <2>4. CASE r # p /\ (LockBusy(p) \/ Refuse(p) \/ Abort(p) \/ Swept(p))
    BY <1>0, <2>1, <2>4, EstablishedFrame DEF Leave, LockBusy, Refuse, Abort, Swept
  <2>5. QED
    BY <1>3, <2>2, <2>3, <2>4 DEF Leaves
<1>4. ASSUME NEW p \in Proc, HoldsOn(p) PROVE Established(r)'
  <2>1. CASE r # p
    <3>1. pc[r] \notin Locked
      BY <1>4, <2>1, Exclusion, HoldsOnLocked
    <3>2. pc'[r] = pc[r]
      BY <1>0, <1>4, <2>1 DEF HoldsOn, Scan, Materialize, Adopt, RetainManifest,
                              WriteRecord, Verify, Mark, Sweep, CheckForget
    <3>3. QED
      BY <3>1, <3>2, EstablishedFrame
  <2>2. CASE r = p
    <3>1. CASE Scan(p) \/ Materialize(p) \/ Adopt(p)
      BY <1>0, <2>2, <3>1 DEF Scan, Materialize, Adopt, Established
    <3>2. CASE RetainManifest(p)
      BY <1>0, <2>2, <3>2 DEF RetainManifest, Established
    <3>3. CASE WriteRecord(p)
      <4>1. plan[p] # Nothing
        BY <1>0, <3>3, LifecycleAssumption DEF WriteRecord, LocalsDefined, Planned
      <4>2. QED
        BY <1>0, <2>2, <3>3, <4>1 DEF WriteRecord, Established
    <3>4. CASE Verify(p)
      BY <1>0, <2>2, <3>4 DEF Verify, Established, Intact, Good, Readable
    <3>5. CASE Mark(p)
      BY <1>0, <2>2, <3>5 DEF Mark, Established, Readable
    <3>6. CASE Sweep(p)
      BY <1>0, <2>2, <3>6 DEF Sweep, Established, Readable
    <3>7. CASE CheckForget(p)
      BY <1>0, <2>2, <3>7 DEF CheckForget, Established
    <3>8. QED
      BY <1>4, <3>1, <3>2, <3>3, <3>4, <3>5, <3>6, <3>7 DEF HoldsOn
  <2>3. QED
    BY <2>1, <2>2
<1>5. CASE Damage
  <2>1. CASE RotObject \/ TearRecord
    <3>1. pc[r] \notin Locked
      BY <2>1, AtRest DEF RotObject, TearRecord
    <3>2. QED
      BY <2>1, <3>1, EstablishedFrame DEF RotObject, TearRecord
  <2>2. CASE RotStaged
    BY <1>0, <2>2, EstablishedFrame DEF RotStaged
  <2>3. QED
    BY <1>5, <2>1, <2>2 DEF Damage
<1>6. CASE UNCHANGED vars
  BY <1>0, <1>6, EstablishedFrame DEF vars
<1>7. QED
  BY <1>1, <1>2, <1>3, <1>4, <1>5, <1>6, NextSplit
-----------------------------------------------------------------------------
(* The two halves of Undamaged: the disk, and one running install. *)
DiskSound ==
  /\ \A d \in Digest : store[d] # "bad"
  /\ torn = {}
  /\ \A i \in DOMAIN records : Intact(i)

Fetched(p) ==
  /\ pc[p] \in {"fetch", "adopt"} =>
       \A d \in SelectedComponents(plan[p]) \ todo[p] : Good(d)
  /\ pc[p] \in {"manifest", "record"} => Intact(target[p])

LEMMA FetchedFrame ==
  ASSUME NEW r \in Proc,
         \/ pc'[r] \notin Locked
         \/ Fetched(r) /\ UNCHANGED <<store, pc[r], plan[r], target[r], todo[r]>>
  PROVE  Fetched(r)'
BY DEF Fetched, Locked, Intact, Good

(* Under the lock an install adds what it lists to the store, and nothing  *)
(* else to the disk until all of it is there.                              *)
LEMMA InstallSound ==
  ASSUME IInv, DiskSound, NEW p \in Proc, Fetched(p),
         Scan(p) \/ Materialize(p) \/ Adopt(p) \/ RetainManifest(p) \/ WriteRecord(p)
  PROVE  DiskSound' /\ Fetched(p)'
<1>0. TypeOK /\ LocalsDefined
  BY DEF IInv
<1> USE DEF TypeOK, DiskSound
<1>1. CASE Scan(p)
  <2>1. target[p] = IdOf(plan[p])
    BY <1>0, <1>1 DEF Scan, LocalsDefined, Planned
  <2>2. target[p].components = SelectedComponents(plan[p])
    BY <2>1 DEF IdOf
  <2>3. QED
    BY <1>0, <1>1, <2>2 DEF Scan, Fetched, Intact, Good
<1>2. CASE Materialize(p)
  BY <1>0, <1>2 DEF Materialize, Fetched, Intact, Good
<1>3. CASE Adopt(p)
  <2> DEFINE d == staged[p].digest
  <2>1. d \in todo[p] /\ todo[p] \subseteq Digest
    BY <1>0, <1>3 DEF Adopt, LocalsDefined
  <2>2. store' \in [Digest -> ObjectState] /\ store'[d] = "good"
    BY <1>0, <1>3, <2>1 DEF Adopt, Stored, ObjectState
  <2>3. \A e \in Digest : store[e] = "good" => store'[e] = "good"
    BY <1>0, <1>3, <2>1 DEF Adopt
  <2>4. \A e \in Digest : store'[e] # "bad"
    BY <1>0, <1>3, <2>1 DEF Adopt
  <2>5. \A i \in ActivationId : Intact(i) => Intact(i)'
    BY <2>3 DEF Intact, Good, ActivationId
  <2>6. DiskSound'
    BY <1>0, <1>3, <2>4, <2>5 DEF Adopt
  <2>7. /\ plan[p] \in Request
        /\ target[p].components = SelectedComponents(plan[p])
        /\ SelectedComponents(plan[p]) \subseteq Digest
    BY <1>0, <1>3, SelectionTyped DEF Adopt, LocalsDefined, Planned, IdOf
  <2>8. \A e \in SelectedComponents(plan[p]) \ todo'[p] : store'[e] = "good"
    BY <1>0, <1>3, <2>2, <2>3, <2>7 DEF Adopt, Fetched, Good
  <2>9. QED
    BY <1>0, <1>3, <2>6, <2>7, <2>8 DEF Adopt, Fetched, Intact, Good
<1>4. CASE RetainManifest(p)
  BY <1>0, <1>4 DEF RetainManifest, Fetched, Intact, Good
<1>5. CASE WriteRecord(p)
  <2>1. Intact(target[p])
    BY <1>5 DEF WriteRecord, Fetched
  <2>2. Fetched(p)' /\ \A i : Intact(i)' <=> Intact(i)
    BY <1>0, <1>5 DEF WriteRecord, Fetched, Intact, Good
  <2>3. DOMAIN records' \subseteq DOMAIN records \cup {target[p]}
    BY <1>5 DEF WriteRecord
  <2>4. QED
    BY <1>5, <2>1, <2>2, <2>3 DEF WriteRecord
<1>6. QED
  BY <1>1, <1>2, <1>3, <1>4, <1>5

LEMMA UndamagedStep == IInv /\ [Next]_vars => Undamaged'
<1> SUFFICES ASSUME IInv, [Next]_vars, damage' = 0
             PROVE  DiskSound' /\ \A r \in Proc : Fetched(r)'
  BY DEF Undamaged, DiskSound, Fetched
<1>0. TypeOK /\ UnderLock
  BY DEF IInv
<1> USE DEF TypeOK
<1>1. damage = 0 /\ ~Damage
  <2>1. damage \in Nat
    BY <1>0, LifecycleAssumption
  <2>2. ~Damage
    BY <2>1 DEF Damage
  <2>3. damage' = damage
    BY <2>2, NextSplit, LeavesLeave
       DEF Start, StartInstall, StartAmend, StartUpkeep, ReadPointer, ReadRecord,
           AcquireLock, Leave, HoldsOn, Scan, Materialize, Adopt, RetainManifest,
           WriteRecord, Verify, Mark, Sweep, CheckForget, vars
  <2>4. QED
    BY <2>2, <2>3
<1>2. DiskSound /\ \A r \in Proc : Fetched(r)
  BY <1>1 DEF IInv, Undamaged, DiskSound, Fetched
<1>3. ASSUME UNCHANGED <<store, torn, records>> PROVE DiskSound'
  BY <1>2, <1>3 DEF DiskSound, Intact, Good
<1>4. ASSUME NEW p \in Proc, Start(p) \/ ReadPointer(p) \/ ReadRecord(p) \/ AcquireLock(p)
      PROVE  DiskSound' /\ \A r \in Proc : Fetched(r)'
  <2>1. DiskSound'
    BY <1>3, <1>4 DEF Start, StartInstall, StartAmend, StartUpkeep, ReadPointer,
                      ReadRecord, AcquireLock
  <2>2. ASSUME NEW r \in Proc, r # p PROVE Fetched(r)'
    BY <1>0, <1>2, <1>4, <2>2, FetchedFrame
       DEF Start, StartInstall, StartAmend, StartUpkeep, ReadPointer, ReadRecord,
           AcquireLock, Plan
  <2>3. Fetched(p)'
    BY <1>0, <1>4 DEF Start, StartInstall, StartAmend, StartUpkeep, ReadPointer,
                      ReadRecord, AcquireLock, FirstStep, Waiting, Fetched
  <2>4. QED
    BY <2>1, <2>2, <2>3
<1>5. ASSUME NEW p \in Proc, Leaves(p) PROVE DiskSound' /\ \A r \in Proc : Fetched(r)'
  <2>1. Leave(p)
    BY <1>5, LeavesLeave
  <2>2. UNCHANGED store /\ torn' \subseteq torn /\ DOMAIN records' \subseteq DOMAIN records
    BY <1>5 DEF Leaves, LockBusy, Refuse, Abort, Swept, WritePointer, Unlink
  <2>3. DiskSound'
    BY <1>2, <2>2 DEF DiskSound, Intact, Good
  <2>4. ASSUME NEW r \in Proc PROVE Fetched(r)'
    <3>1. CASE r = p
      BY <1>0, <2>1, <3>1, FetchedFrame DEF Leave, Locked
    <3>2. CASE r # p
      BY <1>0, <1>2, <2>1, <2>2, <3>2, FetchedFrame DEF Leave
    <3>3. QED
      BY <3>1, <3>2
  <2>5. QED
    BY <2>3, <2>4
<1>6. ASSUME NEW p \in Proc, HoldsOn(p) PROVE DiskSound' /\ \A r \in Proc : Fetched(r)'
  <2>1. ASSUME NEW r \in Proc, r # p PROVE Fetched(r)'
    <3>1. pc[r] \notin Locked
      BY <1>6, <2>1, Exclusion, HoldsOnLocked
    <3>2. pc'[r] = pc[r]
      BY <1>0, <1>6, <2>1 DEF HoldsOn, Scan, Materialize, Adopt, RetainManifest,
                              WriteRecord, Verify, Mark, Sweep, CheckForget
    <3>3. QED
      BY <3>1, <3>2, FetchedFrame
  <2>2. DiskSound' /\ Fetched(p)'
    <3>1. CASE Scan(p) \/ Materialize(p) \/ Adopt(p) \/ RetainManifest(p) \/ WriteRecord(p)
      BY <1>2, <3>1, InstallSound
    <3>2. CASE Verify(p) \/ Mark(p) \/ CheckForget(p)
      BY <1>0, <1>2, <1>3, <3>2 DEF Verify, Mark, CheckForget, Fetched
    <3>3. CASE Sweep(p)
      <4>1. \A i \in DOMAIN records : i.components \cap todo[p] = {}
        BY <1>0, <1>2, <3>3 DEF Sweep, UnderLock, Readable, DiskSound
      <4>2. QED
        BY <1>0, <1>2, <3>3, <4>1 DEF Sweep, DiskSound, Fetched, Intact, Good
    <3>4. QED
      BY <1>6, <3>1, <3>2, <3>3 DEF HoldsOn
  <2>3. QED
    BY <2>1, <2>2
<1>7. CASE UNCHANGED vars
  BY <1>2, <1>3, <1>7, FetchedFrame DEF vars
<1>8. QED
  BY <1>1, <1>4, <1>5, <1>6, <1>7, NextSplit
-----------------------------------------------------------------------------
(* The invariant is inductive, hence true of every reachable root. *)
THEOREM Inductive == Spec => []IInv
<1>1. IInv /\ [Next]_vars => IInv'
  BY TypeStep, LockStep, LocalsStep, RecordsStep, UnderLockStep, UndamagedStep DEF IInv
<1>2. QED
  BY InitIInv, <1>1, PTL DEF Spec

(* Every variable keeps its type, whatever the commands and the damage. *)
THEOREM TypeCorrect == Spec => []TypeOK
<1>1. IInv => TypeOK
  BY DEF IInv
<1>2. QED
  BY Inductive, <1>1, PTL

(* Until a file is damaged, every retained activation can be switched back *)
(* to: no prune, removal, failed install or crash takes a component of it. *)
THEOREM RollbackAlwaysReady == Spec => []RollbackReady
<1>1. IInv => RollbackReady
  BY DEF IInv, Undamaged, RollbackReady, Readable
<1>2. QED
  BY Inductive, <1>1, PTL

(* The pointer always names an activation whose record file and manifest   *)
(* are on disk, with any damage: write order and lock see to it.           *)
THEOREM PointerAlwaysResolves == Spec => []PointerResolves
<1>1. IInv => PointerResolves
  BY DEF IInv, RecordsSound, PointerResolves
<1>2. QED
  BY Inductive, <1>1, PTL
-----------------------------------------------------------------------------
(* What one step may do to the files, from the invariant. *)

LEMMA PreviousIntactStep ==
  ASSUME IInv, [Next]_vars, pointer' = pointer, pointer \in Readable, damage' = damage
  PROVE  /\ pointer \in DOMAIN records' \ torn'
         /\ records'[pointer] = records[pointer]
         /\ \A d \in pointer.components : store'[d] \in {store[d], "good"}
<1> DEFINE Kept == /\ pointer \in DOMAIN records' \ torn'
                   /\ records'[pointer] = records[pointer]
                   /\ \A d \in pointer.components : store'[d] \in {store[d], "good"}
<1>0. TypeOK /\ UnderLock /\ pointer \in ActivationId
  BY DEF IInv, TypeOK, Readable
<1> USE DEF Readable
<1>1. ASSUME UNCHANGED <<store, records, torn>> PROVE Kept
  BY <1>1
<1>2. ASSUME NEW p \in Proc, Start(p) \/ ReadPointer(p) \/ ReadRecord(p) \/ AcquireLock(p)
      PROVE  Kept
  BY <1>1, <1>2 DEF Start, StartInstall, StartAmend, StartUpkeep, ReadPointer,
                    ReadRecord, AcquireLock
<1>3. ASSUME NEW p \in Proc, Leaves(p) PROVE Kept
  <2>1. CASE Unlink(p)
    <3>1. target[p] # pointer
      BY <1>0, <2>1 DEF Unlink, UnderLock
    <3>2. QED
      BY <2>1, <3>1 DEF Unlink
  <2>2. CASE ~Unlink(p)
    BY <1>1, <1>3, <2>2 DEF Leaves, LockBusy, Refuse, Abort, Swept, WritePointer
  <2>3. QED
    BY <2>1, <2>2
<1>4. ASSUME NEW p \in Proc, HoldsOn(p) PROVE Kept
  <2>1. CASE Adopt(p)
    BY <1>0, <2>1 DEF Adopt, TypeOK, ActivationId
  <2>2. CASE WriteRecord(p)
    BY <2>2 DEF WriteRecord
  <2>3. CASE Sweep(p)
    <3>1. pointer.components \cap todo[p] = {}
      BY <1>0, <2>3 DEF Sweep, UnderLock
    <3>2. QED
      BY <1>0, <2>3, <3>1 DEF Sweep, TypeOK, ActivationId
  <2>4. CASE \/ Scan(p) \/ Materialize(p) \/ RetainManifest(p)
             \/ Verify(p) \/ Mark(p) \/ CheckForget(p)
    BY <1>1, <2>4 DEF Scan, Materialize, RetainManifest, Verify, Mark, CheckForget
  <2>5. QED
    BY <1>4, <2>1, <2>2, <2>3, <2>4 DEF HoldsOn
<1>5. ~Damage
  BY <1>0, LifecycleAssumption DEF Damage, TypeOK
<1>6. CASE UNCHANGED vars
  BY <1>1, <1>6 DEF vars
<1>7. QED
  BY <1>2, <1>3, <1>4, <1>5, <1>6, NextSplit

(* An interrupted operation leaves the previous install exactly as it was: *)
(* no step but the pointer swap disturbs the active selection, in any      *)
(* interleaving of commands and wherever they are stopped.                 *)
THEOREM PreviousAlwaysIntact == Spec => PreviousInstallIntact
<1>1. IInv /\ [Next]_vars =>
        [ (pointer' = pointer /\ pointer \in Readable /\ damage' = damage) =>
            /\ pointer \in DOMAIN records' \ torn'
            /\ records'[pointer] = records[pointer]
            /\ \A d \in pointer.components : store'[d] \in {store[d], "good"} ]_vars
  BY PreviousIntactStep
<1>2. QED
  BY Inductive, <1>1, PTL DEF Spec, PreviousInstallIntact

(* A record file never changes while it exists. *)
THEOREM RecordsNeverChange == Spec => RecordsImmutable
<1>1. [Next]_vars =>
        \A i \in DOMAIN records \cap DOMAIN records' : records'[i] = records[i]
  <2> SUFFICES ASSUME [Next]_vars,
                      NEW i \in DOMAIN records \cap DOMAIN records'
               PROVE  records'[i] = records[i]
    OBVIOUS
  <2>1. ASSUME NEW p \in Proc, Start(p) \/ ReadPointer(p) \/ ReadRecord(p) \/ AcquireLock(p)
        PROVE  records' = records
    BY <2>1 DEF Start, StartInstall, StartAmend, StartUpkeep, ReadPointer,
                ReadRecord, AcquireLock
  <2>2. ASSUME NEW p \in Proc, Leaves(p) PROVE records'[i] = records[i]
    BY <2>2 DEF Leaves, LockBusy, Refuse, Abort, Swept, WritePointer, Unlink
  <2>3. ASSUME NEW p \in Proc, HoldsOn(p) PROVE records'[i] = records[i]
    BY <2>3 DEF HoldsOn, Scan, Materialize, Adopt, RetainManifest, WriteRecord,
                Verify, Mark, Sweep, CheckForget
  <2>4. CASE Damage \/ UNCHANGED vars
    BY <2>4 DEF Damage, RotObject, TearRecord, RotStaged, vars
  <2>5. QED
    BY <2>1, <2>2, <2>3, <2>4, NextSplit
<1>2. QED
  BY <1>1, PTL DEF Spec, RecordsImmutable

(* activate never moves the pointer to a selection with a damaged or       *)
(* missing component, however often files are damaged between commands.    *)
THEOREM ActivateAlwaysVerifies == Spec => ActivateVerifies
<1>1. IInv => \A p \in Proc :
        (pc[p] = "pointer" /\ plan[p] = Nothing => Intact(target[p]))
  BY DEF IInv, UnderLock
<1>2. IInv => \A p \in Proc : Switches(p) /\ plan[p] = Nothing => Intact(target[p])
  BY <1>1 DEF Switches
<1>3. QED
  BY Inductive, <1>2, PTL DEF Spec, ActivateVerifies
-----------------------------------------------------------------------------
(* What a sweep has yet to delete is all that no readable record lists.    *)
SweepLeaves(p) ==
  pc[p] = "sweep" => Stored \ todo[p] \subseteq UNION {i.components : i \in Readable}

LEMMA SweepLeavesStep ==
  ASSUME IInv, [Next]_vars, NEW r \in Proc, SweepLeaves(r)
  PROVE  SweepLeaves(r)'
<1>0. TypeOK
  BY DEF IInv
<1> USE DEF TypeOK, SweepLeaves
<1>1. ASSUME UNCHANGED <<store, records, torn, pc[r], todo[r]>> PROVE SweepLeaves(r)'
  BY <1>1 DEF Stored, Readable
<1>2. ASSUME pc'[r] # "sweep" PROVE SweepLeaves(r)'
  BY <1>2
<1>3. ASSUME NEW p \in Proc, Start(p) \/ ReadPointer(p) \/ ReadRecord(p) \/ AcquireLock(p)
      PROVE  SweepLeaves(r)'
  BY <1>0, <1>1, <1>2, <1>3 DEF Start, StartInstall, StartAmend, StartUpkeep, Plan,
                    ReadPointer, ReadRecord, AcquireLock, Waiting, FirstStep
<1>4. ASSUME NEW p \in Proc, Leaves(p) PROVE SweepLeaves(r)'
  <2>1. Leave(p)
    BY <1>4, LeavesLeave
  <2>2. CASE r = p
    BY <1>0, <1>2, <2>1, <2>2 DEF Leave
  <2>3. CASE r # p /\ (WritePointer(p) \/ Unlink(p))
    <3>1. pc[r] \notin Locked
      BY <2>3, Exclusion DEF WritePointer, Unlink, Locked
    <3>2. QED
      BY <1>0, <1>2, <2>1, <2>3, <3>1 DEF Leave, Locked
  <2>4. CASE r # p /\ (LockBusy(p) \/ Refuse(p) \/ Abort(p) \/ Swept(p))
    BY <1>0, <1>1, <2>1, <2>4 DEF Leave, LockBusy, Refuse, Abort, Swept
  <2>5. QED
    BY <1>4, <2>2, <2>3, <2>4 DEF Leaves
<1>5. ASSUME NEW p \in Proc, HoldsOn(p) PROVE SweepLeaves(r)'
  <2>1. CASE r # p
    <3>1. pc[r] \notin Locked
      BY <1>5, <2>1, Exclusion, HoldsOnLocked
    <3>2. pc'[r] = pc[r]
      BY <1>0, <1>5, <2>1 DEF HoldsOn, Scan, Materialize, Adopt, RetainManifest,
                              WriteRecord, Verify, Mark, Sweep, CheckForget
    <3>3. QED
      BY <1>2, <3>1, <3>2 DEF Locked
  <2>2. CASE r = p /\ Mark(p)
    <3>1. /\ todo'[p] = Stored \ UNION {i.components : i \in Readable}
          /\ UNCHANGED <<store, records, torn>>
      BY <1>0, <2>2 DEF Mark
    <3>2. Stored' = Stored /\ Readable' = Readable
      BY <3>1 DEF Stored, Readable
    <3>3. QED
      BY <2>2, <3>1, <3>2
  <2>3. CASE r = p /\ Sweep(p)
    <3>1. PICK d \in todo[p] : store' = [store EXCEPT ![d] = "absent"]
                               /\ todo' = [todo EXCEPT ![p] = todo[p] \ {d}]
      BY <2>3 DEF Sweep
    <3>2. Stored' \subseteq Stored \ {d}
      BY <1>0, <3>1 DEF Stored
    <3>3. Readable' = Readable /\ pc[p] = "sweep"
      BY <2>3 DEF Sweep, Readable
    <3>4. todo'[p] = todo[p] \ {d}
      BY <1>0, <3>1
    <3>5. QED
      BY <2>3, <3>2, <3>3, <3>4
  <2>4. CASE /\ r = p
             /\ \/ Scan(p) \/ Materialize(p) \/ Adopt(p) \/ RetainManifest(p)
                \/ WriteRecord(p) \/ Verify(p) \/ CheckForget(p)
    BY <1>0, <1>2, <2>4 DEF Scan, Materialize, Adopt, RetainManifest, WriteRecord,
                            Verify, CheckForget
  <2>5. QED
    BY <1>5, <2>1, <2>2, <2>3, <2>4 DEF HoldsOn
<1>6. CASE Damage
  <2>1. CASE RotObject \/ TearRecord
    BY <1>2, <2>1, AtRest DEF RotObject, TearRecord, Locked
  <2>2. CASE RotStaged
    BY <1>1, <2>2 DEF RotStaged
  <2>3. QED
    BY <1>6, <2>1, <2>2 DEF Damage
<1>7. CASE UNCHANGED vars
  BY <1>1, <1>7 DEF vars
<1>8. QED
  BY <1>3, <1>4, <1>5, <1>6, <1>7, NextSplit

(* No step but damage takes a stored component of a readable record away.  *)
LEMMA ComponentsKeptStep ==
  ASSUME IInv, [Next]_vars, NEW i \in Readable \cap DOMAIN records', NEW d \in i.components,
         damage' = damage, d \in Stored
  PROVE  store'[d] # "absent"
<1>0. TypeOK /\ UnderLock
  BY DEF IInv
<1>1. d \in Digest /\ store[d] # "absent"
  BY DEF Stored
<1>2. ASSUME NEW p \in Proc, Start(p) \/ ReadPointer(p) \/ ReadRecord(p) \/ AcquireLock(p)
      PROVE  store' = store
  BY <1>2 DEF Start, StartInstall, StartAmend, StartUpkeep, ReadPointer, ReadRecord,
              AcquireLock
<1>3. ASSUME NEW p \in Proc, Leaves(p) PROVE store' = store
  BY <1>3 DEF Leaves, LockBusy, Refuse, Abort, Swept, WritePointer, Unlink
<1>4. ASSUME NEW p \in Proc, HoldsOn(p) PROVE store'[d] # "absent"
  <2>1. CASE Adopt(p)
    BY <1>0, <1>1, <2>1 DEF Adopt, TypeOK
  <2>2. CASE Sweep(p)
    <3>1. d \notin todo[p]
      BY <1>0, <2>2 DEF Sweep, UnderLock
    <3>2. QED
      BY <1>0, <1>1, <2>2, <3>1 DEF Sweep, TypeOK
  <2>3. CASE \/ Scan(p) \/ Materialize(p) \/ RetainManifest(p) \/ WriteRecord(p)
             \/ Verify(p) \/ Mark(p) \/ CheckForget(p)
    BY <1>1, <2>3 DEF Scan, Materialize, RetainManifest, WriteRecord, Verify, Mark,
                      CheckForget
  <2>4. QED
    BY <1>4, <2>1, <2>2, <2>3 DEF HoldsOn
<1>5. ~Damage
  BY <1>0, LifecycleAssumption DEF Damage, TypeOK
<1>6. QED
  BY <1>1, <1>2, <1>3, <1>4, <1>5, NextSplit DEF vars

(* prune deletes exactly what no readable record lists: no rollback target *)
(* loses a component, whatever runs or has been damaged, and none is left. *)
THEOREM PruneAlwaysExact == Spec => PruneExact
<1> DEFINE Leaving == \A p \in Proc : SweepLeaves(p)
           Kept == \A i \in Readable \cap DOMAIN records' : \A d \in i.components :
                     damage' = damage /\ d \in Stored => store'[d] # "absent"
           Empty == \A p \in Proc : pc[p] = "sweep" /\ Swept(p) =>
                      Stored \subseteq UNION {i.components : i \in Readable}
<1>1. Init => Leaving
  BY DEF Init, SweepLeaves
<1>2. IInv /\ Leaving /\ [Next]_vars => Leaving'
  BY SweepLeavesStep
<1>3. IInv /\ [Next]_vars => Kept
  BY ComponentsKeptStep
<1>4. Leaving => Empty
  BY DEF Swept, SweepLeaves
<1>5. IInv /\ Leaving /\ [Next]_vars => [Kept /\ Empty]_vars
  BY <1>3, <1>4
<1>6. QED
  BY Inductive, <1>1, <1>2, <1>5, PTL DEF Spec, PruneExact
-----------------------------------------------------------------------------
(* The refinement of DatasetRoot. *)

(* DatasetRoot resolves a request the way the commands do. *)
LEMMA RootSelects ==
  /\ Root!Request = Request
  /\ \A q : Root!SelectedComponents(q) = SelectedComponents(q)
  /\ \A q : Root!IdOf(q) = IdOf(q)
<1>1. Root!Request = Request
  BY DEF Request, Root!Request
<1>2. \A q : Root!SelectedComponents(q) = SelectedComponents(q)
  BY DEF SelectedComponents, SelectedPacks, RequiredPacks, ServedPacks, Wanted,
         PackFor, LanguagesFor, Normalized, Root!SelectedComponents, Root!SelectedPacks,
         Root!RequiredPacks, Root!ServedPacks, Root!Wanted, Root!PackFor,
         Root!LanguagesFor, Root!Normalized
<1>3. \A q : Root!IdOf(q) = IdOf(q)
  BY <1>2 DEF IdOf, Root!IdOf
<1>4. QED
  BY <1>1, <1>2, <1>3

LEMMA RootStep ==
  ASSUME IInv, [Next]_vars, damage' = 0
  PROVE  [Root!Next]_Root!vars
<1>0. TypeOK /\ LocalsDefined /\ UnderLock /\ RecordsSound
  BY DEF IInv
<1>1. ~Damage /\ damage = 0
  <2>1. damage \in Nat
    BY <1>0, LifecycleAssumption DEF TypeOK
  <2>2. ~Damage
    BY <2>1 DEF Damage
  <2>3. damage' = damage
    BY <2>2, NextSplit, LeavesLeave
       DEF Start, StartInstall, StartAmend, StartUpkeep, ReadPointer, ReadRecord,
           AcquireLock, Leave, HoldsOn, Scan, Materialize, Adopt, RetainManifest,
           WriteRecord, Verify, Mark, Sweep, CheckForget, vars
  <2>4. QED
    BY <2>2, <2>3
<1>2. DiskSound /\ \A r \in Proc : Fetched(r)
  BY <1>1 DEF IInv, Undamaged, DiskSound, Fetched
<1>3. ASSUME UNCHANGED <<store, records, pointer>> PROVE UNCHANGED Root!vars
  BY <1>3 DEF Root!vars, Good
<1>4. ASSUME NEW p \in Proc, Start(p) \/ ReadPointer(p) \/ ReadRecord(p) \/ AcquireLock(p)
      PROVE  UNCHANGED Root!vars
  BY <1>3, <1>4 DEF Start, StartInstall, StartAmend, StartUpkeep, ReadPointer,
                    ReadRecord, AcquireLock
<1>5. ASSUME NEW p \in Proc, Leaves(p) PROVE [Root!Next]_Root!vars
  <2>1. CASE WritePointer(p)
    <3>1. target[p] \in DOMAIN records
      BY <1>0, <2>1 DEF WritePointer, UnderLock
    <3>2. Root!Activate
      BY <2>1, <3>1 DEF WritePointer, Root!Activate, Good
    <3>3. QED
      BY <3>2 DEF Root!Next
  <2>2. CASE Unlink(p)
    <3>1. target[p] # pointer
      BY <1>0, <2>2 DEF Unlink, UnderLock
    <3>2. CASE target[p] \in DOMAIN records
      <4>1. Root!Forget
        BY <2>2, <3>1, <3>2 DEF Unlink, Root!Forget, Good
      <4>2. QED
        BY <4>1 DEF Root!Next
    <3>3. CASE target[p] \notin DOMAIN records
      <4>1. records' = records
        BY <1>0, <2>2, <3>3 DEF Unlink, TypeOK
      <4>2. QED
        BY <1>3, <2>2, <4>1 DEF Unlink
    <3>4. QED
      BY <3>2, <3>3
  <2>3. CASE LockBusy(p) \/ Refuse(p) \/ Abort(p) \/ Swept(p)
    BY <1>3, <2>3 DEF LockBusy, Refuse, Abort, Swept
  <2>4. QED
    BY <1>5, <2>1, <2>2, <2>3 DEF Leaves
<1>6. ASSUME NEW p \in Proc, HoldsOn(p) PROVE [Root!Next]_Root!vars
  <2>1. CASE Adopt(p)
    <3> DEFINE d == staged[p].digest
    <3>1. d \in Digest
      BY <1>0, <2>1 DEF Adopt, LocalsDefined, StagedFile
    <3>2. CASE d \in Stored
      BY <1>3, <2>1, <3>2 DEF Adopt
    <3>3. CASE d \notin Stored
      <4>1. store' = [store EXCEPT ![d] = "good"] /\ store[d] = "absent"
        BY <2>1, <3>1, <3>3 DEF Adopt, Stored
      <4>2. {e \in Digest : Good(e)}' = {e \in Digest : Good(e)} \cup {d}
        BY <1>0, <3>1, <4>1 DEF TypeOK, Good
      <4>3. d \in Digest \ {e \in Digest : Good(e)}
        BY <3>1, <4>1 DEF Good
      <4>4. Root!Hold
        BY <2>1, <4>2, <4>3 DEF Adopt, Root!Hold
      <4>5. QED
        BY <4>4 DEF Root!Next
    <3>4. QED
      BY <3>2, <3>3
  <2>2. CASE WriteRecord(p)
    <3>1. /\ plan[p] \in Request
          /\ target[p] = IdOf(plan[p])
          /\ SelectedComponents(plan[p]) \subseteq Digest
      BY <1>0, <2>2, SelectionTyped DEF WriteRecord, LocalsDefined, Planned
    <3>2. CASE target[p] \in DOMAIN records
      BY <1>3, <2>2, <3>2 DEF WriteRecord
    <3>3. CASE target[p] \notin DOMAIN records
      <4>1. Intact(target[p])
        BY <1>2, <2>2 DEF WriteRecord, Fetched
      <4>2. SelectedComponents(plan[p]) \subseteq {e \in Digest : Good(e)}
        BY <3>1, <4>1 DEF Intact, IdOf
      <4>3. {e \in Digest : Good(e)}' = {e \in Digest : Good(e)}
        BY <2>2 DEF WriteRecord, Good
      <4>4. Root!Retain
        BY <2>2, <3>1, <3>3, <4>2, <4>3, RootSelects DEF WriteRecord, Root!Retain
      <4>5. QED
        BY <4>4 DEF Root!Next
    <3>4. QED
      BY <3>2, <3>3
  <2>3. CASE Sweep(p)
    <3>1. PICK d \in todo[p] : store' = [store EXCEPT ![d] = "absent"]
      BY <2>3 DEF Sweep
    <3>2. d \in Digest
      BY <1>0 DEF TypeOK
    <3>3. \A i \in DOMAIN records : d \notin i.components
      BY <1>0, <1>2, <2>3 DEF Sweep, UnderLock, Readable, DiskSound
    <3>4. {e \in Digest : Good(e)}' = {e \in Digest : Good(e)} \ {d}
      BY <1>0, <3>1, <3>2 DEF TypeOK, Good
    <3>5. CASE Good(d)
      <4>1. Root!Reclaim
        BY <2>3, <3>2, <3>3, <3>4, <3>5 DEF Sweep, Root!Reclaim
      <4>2. QED
        BY <4>1 DEF Root!Next
    <3>6. CASE ~Good(d)
      BY <2>3, <3>4, <3>6 DEF Sweep, Root!vars
    <3>7. QED
      BY <3>5, <3>6
  <2>4. CASE \/ Scan(p) \/ Materialize(p) \/ RetainManifest(p)
             \/ Verify(p) \/ Mark(p) \/ CheckForget(p)
    BY <1>3, <2>4 DEF Scan, Materialize, RetainManifest, Verify, Mark, CheckForget
  <2>5. QED
    BY <1>6, <2>1, <2>2, <2>3, <2>4 DEF HoldsOn
<1>7. CASE UNCHANGED vars
  BY <1>3, <1>7 DEF vars
<1>8. QED
  BY <1>1, <1>4, <1>5, <1>6, <1>7, NextSplit

(* The commands keep the promise of DatasetRoot for as long as the disk is *)
(* undamaged: components are admitted whole, an activation is retained     *)
(* when all of it is held, and the active one is replaced in one step.     *)
THEOREM Refinement == Spec => ImplementsRoot
<1>1. Init => Root!Init
  BY DEF Init, Root!Init, Good
<1>2. IInv /\ [Next]_vars => [damage' = 0 => [Root!Next]_Root!vars]_vars
  BY RootStep
<1>3. QED
  BY Inductive, <1>1, <1>2, PTL DEF Spec, ImplementsRoot

(* Whatever the order of admissions, reclaims, activations and forgets, the *)
(* active activation is retained and every retained one is held whole: the  *)
(* code's promise that switching back is a pointer swap.                    *)
THEOREM PromiseKept == Root!Spec => []Root!Promise
<1>1. Root!Init => Root!Promise
  BY DEF Root!Init, Root!Promise
<1>2. ASSUME Root!Promise, [Root!Next]_Root!vars PROVE Root!Promise'
  <2>1. CASE Root!Hold
    BY <1>2, <2>1 DEF Root!Hold, Root!Promise
  <2>2. CASE Root!Reclaim
    BY <1>2, <2>2 DEF Root!Reclaim, Root!Promise
  <2>3. CASE Root!Retain
    <3> DEFINE Held == {d \in Digest : Good(d)}
    <3>1. PICK q \in Root!Request :
            /\ Root!SelectedComponents(q) \subseteq Held
            /\ records' = [i \in DOMAIN records \cup {Root!IdOf(q)} |->
                             IF i = Root!IdOf(q) THEN q ELSE records[i]]
      BY <2>3 DEF Root!Retain
    <3>2. Root!IdOf(q).components = Root!SelectedComponents(q)
      BY DEF Root!IdOf
    <3>3. \A i \in DOMAIN records' :
            i.components \subseteq Held /\ Root!IdOf(records'[i]) = i
      BY <1>2, <3>1, <3>2 DEF Root!Promise
    <3>4. QED
      BY <1>2, <2>3, <3>1, <3>3 DEF Root!Retain, Root!Promise
  <2>4. CASE Root!Activate
    BY <1>2, <2>4 DEF Root!Activate, Root!Promise
  <2>5. CASE Root!Forget
    BY <1>2, <2>5 DEF Root!Forget, Root!Promise
  <2>6. CASE UNCHANGED Root!vars
    BY <1>2, <2>6 DEF Root!vars, Root!Promise
  <2>7. QED
    BY <1>2, <2>1, <2>2, <2>3, <2>4, <2>5, <2>6 DEF Root!Next
<1>3. QED
  BY <1>1, <1>2, PTL DEF Root!Spec
-----------------------------------------------------------------------------
(* What the users of ComponentIntent are left with.                        *)

(* The memory of what was asked for changes nothing of the commands.       *)
LEMMA IntentSplit ==
  ASSUME [NextI]_ivars
  PROVE  /\ [Next]_vars
         /\ \/ \E p \in Proc : Succeed(p) \/ Return(p)
            \/ (\E p \in Proc : Start(p) \/ ReadPointer(p) \/ ReadRecord(p) \/ AcquireLock(p))
                 /\ UNCHANGED history
            \/ (\E p \in Proc : HoldsOn(p)) /\ UNCHANGED history
            \/ (Damage \/ UNCHANGED vars) /\ UNCHANGED history
BY DEF NextI, ivars, Succeed, Return, Proceed, Next, Step, HoldsOn

(* What IntentInv says of one process. *)
Meant(p) ==
  /\ ask[p] # Nothing => pc[p] \in Reading \/ plan[p] # Nothing
  /\ pc[p] = "amend_record" /\ p \notin overtaken =>
       pointer # Nothing /\ target[p] = pointer
  /\ plan[p] # Nothing =>
       /\ pc[p] \in Planned \cup {"pointer"}
       /\ target[p] = IdOf(plan[p])
       /\ ask[p] = Nothing \/ (p \notin overtaken /\ ~lapsed) =>
            IntentAfter(p) \subseteq LanguagesAsked(plan[p])

(* An amendment of what serves the intent serves what it leads to.  A tag  *)
(* that is written otherwise than it was stays, which serves more.         *)
LEMMA AmendedServes ==
  ASSUME NEW q \in Request, NEW a \in AmendCommand, NEW wanted,
         wanted \subseteq LanguagesAsked(q)
  PROVE  (IF a.op = "add" THEN wanted \cup Normalized(a.languages)
                          ELSE wanted \ Normalized(a.languages))
           \subseteq LanguagesAsked(Amended(q, a))
<1> DEFINE current == IF q.languages \in {AllLanguages, {}}
                      THEN ManifestLanguages(q.release) ELSE q.languages
<1>1. Amended(q, a).languages =
        IF a.op = "add" THEN current \cup a.languages ELSE current \ a.languages
  BY DEF Amended
<1>2. ManifestLanguages(q.release) \subseteq Language
  BY ManifestLanguagesTyped DEF Request
<1>3. current \subseteq Tag /\ a.languages \subseteq Tag
  BY <1>2, ManifestAssumption DEF Request, AmendCommand
<1>4. Amended(q, a).languages # AllLanguages
  BY <1>1, <1>3, ManifestAssumption
<1>5. LanguagesAsked(Amended(q, a)) = Normalized(Amended(q, a).languages)
  BY <1>4 DEF LanguagesAsked
<1>6. wanted \subseteq Normalized(current)
  <2>1. CASE q.languages = AllLanguages
    <3>1. wanted \subseteq ManifestLanguages(q.release)
      BY <2>1 DEF LanguagesAsked
    <3>2. \A l \in wanted : l \in current /\ NormalOf[l] = l
      BY <1>2, <2>1, <3>1, ManifestAssumption
    <3>3. QED
      BY <3>2 DEF Normalized
  <2>2. CASE q.languages = {}
    <3>1. wanted = {}
      BY <2>2, ManifestAssumption DEF LanguagesAsked, Normalized
    <3>2. QED
      BY <3>1
  <2>3. CASE q.languages \notin {AllLanguages, {}}
    BY <2>3 DEF LanguagesAsked
  <2>4. QED
    BY <2>1, <2>2, <2>3
<1>7. CASE a.op = "add"
  BY <1>1, <1>5, <1>6, <1>7 DEF Normalized
<1>8. CASE a.op # "add"
  <2>1. SUFFICES ASSUME NEW l \in wanted, l \notin Normalized(a.languages)
                 PROVE  l \in Normalized(current \ a.languages)
    BY <1>1, <1>5, <1>8
  <2>2. PICK t \in current : l = NormalOf[t]
    BY <1>6 DEF Normalized
  <2>3. t \notin a.languages
    BY <2>1, <2>2 DEF Normalized
  <2>4. QED
    BY <2>2, <2>3 DEF Normalized
<1>9. QED
  BY <1>7, <1>8

LEMMA IntentStep ==
  ASSUME IInv, IntentInv, [NextI]_ivars
  PROVE  IntentInv'
<1>0. TypeOK /\ LocalsDefined /\ RecordsSound /\ UnderLock
  BY DEF IInv
<1> USE DEF TypeOK
<1>1. /\ pointer # Nothing /\ ~lapsed => intent \subseteq LanguagesAsked(records[pointer])
      /\ \A r \in Proc : Meant(r)
  BY DEF IntentInv, Meant
<1>2. Nothing \notin Request \cup AmendCommand \cup ActivationId
  BY LifecycleAssumption
<1>3. ASSUME pointer' # Nothing /\ ~lapsed' =>
               intent' \subseteq LanguagesAsked(records'[pointer']),
             \A r \in Proc : Meant(r)'
      PROVE  IntentInv'
  BY <1>3 DEF IntentInv, Meant
<1>4. ASSUME UNCHANGED <<records, pointer, intent, lapsed>>,
             \A r \in Proc : Meant(r)'
      PROVE  IntentInv'
  BY <1>1, <1>3, <1>4
<1>5. ASSUME NEW p \in Proc, Leave(p), ask'[p] = Nothing, plan'[p] = Nothing
      PROVE  Meant(p)'
  BY <1>0, <1>5 DEF Leave, Meant
<1>6. ASSUME NEW p \in Proc, Leave(p)
      PROVE  /\ ask'[p] = Nothing /\ plan'[p] = Nothing
             /\ \A r \in Proc \ {p} : /\ ask'[r] = ask[r] /\ plan'[r] = plan[r]
                                      /\ target'[r] = target[r] /\ pc'[r] = pc[r]
  BY <1>0, <1>6 DEF Leave
<1>7. ASSUME NEW p \in Proc, Succeed(p) PROVE IntentInv'
  <2>1. /\ Leave(p) /\ records' = records /\ pointer' = target[p] /\ pc[p] = "pointer"
        /\ intent' = IntentAfter(p)
        /\ overtaken' = (overtaken \cup OvertakenBy(p)) \ {p}
    BY <1>7 DEF Succeed, WritePointer
  <2>2. ASSUME ~lapsed' PROVE intent' \subseteq LanguagesAsked(records[target[p]])
    <3>1. ~RecordAsksLess(p) /\ (ask[p] = Nothing \/ (p \notin overtaken /\ ~lapsed))
      BY <1>7, <2>2 DEF Succeed
    <3>2. CASE plan[p] # Nothing
      <4>1. IntentAfter(p) \subseteq LanguagesAsked(plan[p])
        BY <1>1, <3>1, <3>2 DEF Meant
      <4>2. QED
        BY <2>1, <3>1, <3>2, <4>1 DEF RecordAsksLess
    <3>3. CASE plan[p] = Nothing
      <4>1. ask[p] = Nothing
        BY <1>1, <2>1, <3>3 DEF Meant, Reading
      <4>2. QED
        BY <2>1, <3>3, <4>1 DEF IntentAfter
    <3>4. QED
      BY <3>2, <3>3
  <2>3. ASSUME NEW r \in Proc PROVE Meant(r)'
    <3>1. CASE r = p
      BY <1>5, <1>6, <2>1, <3>1
    <3>2. CASE r # p
      <4>1. /\ ask'[r] = ask[r] /\ plan'[r] = plan[r]
            /\ target'[r] = target[r] /\ pc'[r] = pc[r] /\ Meant(r)
        BY <1>1, <1>6, <2>1, <3>2
      <4>2. ask[r] # Nothing /\ pc[r] # "amend_pointer" => r \in overtaken'
        BY <2>1, <3>2 DEF OvertakenBy
      <4>3. pc[r] = "amend_record" => ask[r] # Nothing
        BY <1>0, <1>2 DEF LocalsDefined, Reading
      <4>4. ask[r] = Nothing /\ plan[r] # Nothing => IntentAfter(r)' = IntentAfter(r)
        BY <4>1 DEF IntentAfter
      <4>5. plan[r] # Nothing => pc[r] # "amend_pointer"
        BY <4>1 DEF Meant, Planned
      <4>6. /\ ask'[r] # Nothing => pc'[r] \in Reading \/ plan'[r] # Nothing
            /\ ~(pc'[r] = "amend_record" /\ r \notin overtaken')
        BY <4>1, <4>2, <4>3 DEF Meant
      <4>7. ASSUME plan'[r] # Nothing
            PROVE  /\ pc'[r] \in Planned \cup {"pointer"} /\ target'[r] = IdOf(plan'[r])
                   /\ ask'[r] = Nothing \/ (r \notin overtaken' /\ ~lapsed') =>
                        IntentAfter(r)' \subseteq LanguagesAsked(plan'[r])
        BY <4>1, <4>2, <4>4, <4>5, <4>7 DEF Meant
      <4>8. QED
        BY <4>6, <4>7 DEF Meant
    <3>3. QED
      BY <3>1, <3>2
  <2>4. QED
    BY <1>3, <2>1, <2>2, <2>3
<1>8. ASSUME NEW p \in Proc, Return(p) PROVE IntentInv'
  <2>1. /\ Leave(p) /\ pointer' = pointer
        /\ UNCHANGED <<intent, lapsed>> /\ overtaken' = overtaken \ {p}
    BY <1>8 DEF Return, LockBusy, Refuse, Abort, Swept, Unlink
  <2>2. pointer # Nothing => records'[pointer] = records[pointer]
    <3>1. CASE Unlink(p)
      <4>1. /\ records' = [i \in DOMAIN records \ {target[p]} |-> records[i]]
            /\ target[p] # pointer
        BY <1>0, <3>1 DEF Unlink, UnderLock
      <4>2. QED
        BY <1>0, <4>1 DEF RecordsSound
    <3>2. CASE ~Unlink(p)
      BY <1>8, <3>2 DEF Return, LockBusy, Refuse, Abort, Swept
    <3>3. QED
      BY <3>1, <3>2
  <2>3. ASSUME NEW r \in Proc PROVE Meant(r)'
    <3>1. CASE r = p
      BY <1>5, <1>6, <2>1, <3>1
    <3>2. CASE r # p
      <4>1. /\ ask'[r] = ask[r] /\ plan'[r] = plan[r]
            /\ target'[r] = target[r] /\ pc'[r] = pc[r] /\ Meant(r)
            /\ r \in overtaken' <=> r \in overtaken
        BY <1>1, <1>6, <2>1, <3>2
      <4>2. plan[r] # Nothing => IntentAfter(r)' = IntentAfter(r)
        BY <2>1, <4>1 DEF IntentAfter
      <4>3. QED
        BY <2>1, <4>1, <4>2 DEF Meant
    <3>3. QED
      BY <3>1, <3>2
  <2>4. QED
    BY <1>1, <1>3, <2>1, <2>2, <2>3
<1>9. ASSUME NEW p \in Proc, Start(p), UNCHANGED history PROVE IntentInv'
  <2>1. UNCHANGED <<records, pointer>> /\ pc[p] = "idle" /\ Meant(p)
    BY <1>1, <1>9 DEF Start, StartInstall, StartAmend, StartUpkeep
  <2>2. plan[p] = Nothing /\ ask[p] = Nothing
    BY <2>1 DEF Meant, Planned, Reading
  <2>3. UNCHANGED <<intent, overtaken, lapsed>>
    BY <1>9 DEF history
  <2>4. \A r \in Proc \ {p} : Meant(r)'
    BY <1>0, <1>1, <1>9, <2>1, <2>3
       DEF Start, StartInstall, StartAmend, StartUpkeep, Goto, Plan, Meant, IntentAfter
  <2>5. CASE StartInstall(p)
    <3>1. PICK c \in Installs : Plan(p, c.request)
      BY <2>5 DEF StartInstall
    <3>2. /\ plan'[p] = c.request /\ target'[p] = IdOf(c.request)
          /\ pc'[p] = "apply_lock" /\ ask'[p] = Nothing
      BY <1>0, <2>2, <2>5, <3>1 DEF StartInstall, Plan, Goto
    <3>3. c.request # Nothing
      BY <1>2, LifecycleAssumption DEF InstallCommand
    <3>4. IntentAfter(p)' = LanguagesAsked(plan'[p])
      BY <3>2, <3>3 DEF IntentAfter
    <3>5. Meant(p)'
      BY <3>2, <3>3, <3>4 DEF Meant, Planned
    <3>6. QED
      BY <1>4, <2>1, <2>3, <2>4, <3>5
  <2>6. CASE StartAmend(p)
    <3>1. Meant(p)'
      BY <1>0, <2>2, <2>6 DEF StartAmend, Goto, Meant, Reading
    <3>2. QED
      BY <1>4, <2>1, <2>3, <2>4, <3>1
  <2>7. CASE StartUpkeep(p)
    <3>1. Meant(p)'
      BY <1>0, <2>2, <2>7 DEF StartUpkeep, Goto, Meant
    <3>2. QED
      BY <1>4, <2>1, <2>3, <2>4, <3>1
  <2>8. QED
    BY <1>9, <2>5, <2>6, <2>7 DEF Start
<1>10. ASSUME NEW p \in Proc, ReadPointer(p), UNCHANGED history PROVE IntentInv'
  <2>1. plan[p] = Nothing /\ UNCHANGED <<intent, overtaken, lapsed>>
    BY <1>1, <1>10 DEF Meant, ReadPointer, Goto, Planned, history
  <2>2. Meant(p)'
    BY <1>0, <1>1, <1>10, <2>1 DEF Meant, ReadPointer, Goto, Reading
  <2>3. \A r \in Proc \ {p} : Meant(r)'
    BY <1>0, <1>1, <1>10, <2>1 DEF Meant, ReadPointer, Goto, IntentAfter
  <2>4. QED
    BY <1>4, <1>10, <2>1, <2>2, <2>3 DEF ReadPointer
<1>11. ASSUME NEW p \in Proc, ReadRecord(p), UNCHANGED history PROVE IntentInv'
  <2> DEFINE active == records[target[p]]
             q == Amended(active, ask[p])
  <2>1. /\ ask[p] \in AmendCommand /\ active \in Request /\ q \in Request
    BY <1>0, <1>11, AmendedTyped DEF ReadRecord, Goto, Readable, LocalsDefined, Reading
  <2>2. ask[p] # Nothing /\ q # Nothing
    BY <1>2, <2>1
  <2>3. ASSUME p \notin overtaken, ~lapsed
        PROVE  (IF ask[p].op = "add" THEN intent \cup Normalized(ask[p].languages)
                                     ELSE intent \ Normalized(ask[p].languages))
                 \subseteq LanguagesAsked(q)
    <3>1. intent \subseteq LanguagesAsked(active)
      BY <1>1, <1>11, <2>3 DEF Meant, ReadRecord, Goto
    <3>2. QED
      BY <2>1, <3>1, AmendedServes
  <2>4. /\ Plan(p, q) /\ Goto(p, "amend_record", "apply_lock")
        /\ UNCHANGED <<ask, records, pointer>> /\ UNCHANGED <<intent, overtaken, lapsed>>
    BY <1>11 DEF ReadRecord, history
  <2> HIDE DEF q, active
  <2>5. /\ plan'[p] = q /\ target'[p] = IdOf(q)
        /\ pc'[p] = "apply_lock" /\ ask'[p] = ask[p]
    BY <1>0, <2>4 DEF Plan, Goto
  <2>6. p \notin overtaken /\ ~lapsed => IntentAfter(p)' \subseteq LanguagesAsked(q)
    BY <2>2, <2>3, <2>4, <2>5 DEF IntentAfter
  <2>7. Meant(p)'
    BY <2>2, <2>4, <2>5, <2>6 DEF Meant, Planned
  <2>8. \A r \in Proc \ {p} : Meant(r)'
    BY <1>0, <1>1, <2>4 DEF Plan, Goto, Meant, IntentAfter
  <2>9. QED
    BY <1>4, <2>4, <2>7, <2>8
<1>12. ASSUME NEW p \in Proc, AcquireLock(p), UNCHANGED history PROVE IntentInv'
  <2>1. UNCHANGED <<records, pointer, ask, plan, target, intent, overtaken, lapsed>>
    BY <1>12 DEF AcquireLock, root, locals, history
  <2>2. \A r \in Proc : IntentAfter(r)' = IntentAfter(r)
    BY <2>1 DEF IntentAfter
  <2>3. /\ pc'[p] \notin Reading
        /\ pc[p] \in Planned => pc'[p] \in Planned
        /\ pc[p] # "pointer" /\ pc[p] \notin Reading
        /\ \A r \in Proc \ {p} : pc'[r] = pc[r]
    BY <1>0, <1>12 DEF AcquireLock, Waiting, FirstStep, Planned, Reading
  <2>4. \A r \in Proc : Meant(r)'
    BY <1>1, <2>1, <2>2, <2>3 DEF Meant, Reading
  <2>5. QED
    BY <1>4, <2>1, <2>4
<1>13. ASSUME NEW p \in Proc, HoldsOn(p), UNCHANGED history PROVE IntentInv'
  <2>0. UNCHANGED <<intent, overtaken, lapsed>>
    BY <1>13 DEF history
  <2>1. CASE WriteRecord(p)
    <3>1. /\ UNCHANGED <<pointer, ask, plan, target>> /\ pc[p] = "record"
          /\ pc' = [pc EXCEPT ![p] = "pointer"]
      BY <1>0, <2>1 DEF WriteRecord, Goto, locals
    <3>2. \A i \in DOMAIN records : i \in DOMAIN records' /\ records'[i] = records[i]
      BY <2>1 DEF WriteRecord
    <3>3. \A r \in Proc : plan[r] # Nothing => IntentAfter(r)' = IntentAfter(r)
      BY <2>0, <3>1 DEF IntentAfter
    <3>4. \A r \in Proc : Meant(r)'
      BY <1>0, <1>1, <2>0, <3>1, <3>3 DEF Meant, Reading
    <3>5. pointer # Nothing => records'[pointer] = records[pointer]
      BY <1>0, <3>2 DEF RecordsSound
    <3>6. QED
      BY <1>1, <1>3, <2>0, <3>1, <3>4, <3>5
  <2>2. CASE ~WriteRecord(p)
    <3>1. UNCHANGED <<records, pointer, ask, plan, target>>
      BY <1>13, <2>2 DEF HoldsOn, Scan, Materialize, Adopt, RetainManifest, Verify,
                         Mark, Sweep, CheckForget, root, locals
    <3>2. \A r \in Proc : IntentAfter(r)' = IntentAfter(r)
      BY <2>0, <3>1 DEF IntentAfter
    <3>3. /\ pc[p] \in Planned => pc'[p] \in Planned
          /\ pc[p] \notin Reading /\ pc[p] # "pointer" /\ pc'[p] # "amend_record"
          /\ \A r \in Proc \ {p} : pc'[r] = pc[r]
      BY <1>0, <1>13, <2>2 DEF HoldsOn, Scan, Materialize, Adopt, RetainManifest, Verify,
                         Mark, Sweep, CheckForget, Goto, Planned, Reading
    <3>4. \A r \in Proc : Meant(r)'
      BY <1>1, <2>0, <3>1, <3>2, <3>3 DEF Meant
    <3>5. QED
      BY <1>4, <2>0, <3>1, <3>4
  <2>3. QED
    BY <2>1, <2>2
<1>14. ASSUME Damage \/ UNCHANGED vars, UNCHANGED history PROVE IntentInv'
  <2>1. UNCHANGED <<records, pointer, pc, ask, plan, target, intent, overtaken, lapsed>>
    BY <1>14 DEF Damage, RotObject, TearRecord, RotStaged, vars, root, locals, history
  <2>2. \A r \in Proc : IntentAfter(r)' = IntentAfter(r)
    BY <2>1 DEF IntentAfter
  <2>3. \A r \in Proc : Meant(r)'
    BY <1>1, <2>1, <2>2 DEF Meant
  <2>4. QED
    BY <1>4, <2>1, <2>3
<1>15. QED
  BY <1>7, <1>8, <1>9, <1>10, <1>11, <1>12, <1>13, <1>14, IntentSplit

(* README: "A selection is never silently narrowed."  That is true but for *)
(* two ways, and these are all there are, for any releases, commands and   *)
(* number of users, whatever is killed, damaged or switched to: while no   *)
(* pointer swap kept a record of fewer languages than it was made for, and *)
(* none was of an amendment overtaken by another command (or all that were *)
(* have been followed by an install or activate), the active selection     *)
(* serves every language asked for and not removed since.                  *)
THEOREM NarrowedInTwoWays == SpecI => []IntentKept
<1>1. InitI => IInv /\ IntentInv
  <2> SUFFICES ASSUME InitI PROVE IInv /\ IntentInv
    OBVIOUS
  <2>1. Init
    BY DEF InitI
  <2>2. IInv
    BY <2>1, InitIInv
  <2>3. IntentInv
    BY <2>1 DEF Init, IntentInv
  <2>4. QED
    BY <2>2, <2>3
<1>2. IInv /\ IntentInv /\ [NextI]_ivars => IInv' /\ IntentInv'
  <2> SUFFICES ASSUME IInv, IntentInv, [NextI]_ivars
               PROVE  IInv' /\ IntentInv'
    OBVIOUS
  <2>1. [Next]_vars
    BY IntentSplit
  <2>2. IInv'
    BY <2>1, TypeStep, LockStep, LocalsStep, RecordsStep, UnderLockStep, UndamagedStep
       DEF IInv
  <2>3. IntentInv'
    BY IntentStep
  <2>4. QED
    BY <2>2, <2>3
<1>3. IInv /\ IntentInv => IntentKept
  <2> SUFFICES ASSUME IInv, IntentInv, pointer # Nothing, ~lapsed,
                      NEW c \in records[pointer].capabilities, NEW l \in intent,
                      NEW k \in PackFor(records[pointer].release, c, l)
               PROVE  k \in SelectedPacks(records[pointer])
    BY DEF IntentKept, ServesIntent
  <2> DEFINE active == records[pointer]
  <2>1. l \in LanguagesAsked(active)
    BY DEF IntentInv
  <2>2. l \in Wanted(active, c)
    BY <2>1 DEF LanguagesAsked, Wanted, LanguagesFor, PackFor
  <2>3. k \in ServedPacks(active)
    BY <2>2 DEF ServedPacks
  <2>4. QED
    BY <2>3 DEF SelectedPacks
<1>4. QED
  BY <1>1, <1>2, <1>3, PTL DEF SpecI
-----------------------------------------------------------------------------
(* What a server meets that reads the root meanwhile.                      *)

LEMMA ReaderStep ==
  ASSUME IInv, ReaderInv, [ServeNext]_serveVars
  PROVE  [Next]_vars /\ ReaderInv'
<1>0. TypeOK
  BY DEF IInv
<1>1. CASE Next /\ UNCHANGED readerVars
  BY <1>1 DEF ReaderInv, readerVars
<1>2. CASE Reader /\ UNCHANGED vars
  <2>1. CASE CallTool \/ ReadSchema \/ ReadName
    BY <1>2, <2>1 DEF CallTool, ReadSchema, ReadName, Reads, ReaderInv
  <2>2. CASE ReadActivation
    <3>1. records[name] \in Request
      BY <1>0, <2>2 DEF ReadActivation, Readable, TypeOK
    <3>2. QED
      BY <1>2, <2>2, <3>1 DEF ReadActivation, Reads, ReaderInv
  <2>3. CASE FindComponent \/ Open
    BY <1>2, <2>3 DEF FindComponent, Open, Reads, ReaderInv
  <2>4. CASE OpenFails
    BY <1>2, <2>4 DEF OpenFails, TryAgain, ReaderInv
  <2>5. QED
    BY <1>2, <2>1, <2>2, <2>3, <2>4 DEF Reader
<1>3. CASE (Query \/ Stop) /\ UNCHANGED vars
  BY <1>3 DEF Query, Stop, Opened, TryAgain, ReaderInv
<1>4. CASE UNCHANGED serveVars
  BY <1>4 DEF serveVars, readerVars, ReaderInv
<1>5. QED
  BY <1>1, <1>2, <1>3, <1>4 DEF ServeNext

(* While its activation is retained, nothing a server looks for is away.   *)
LEMMA NothingAway ==
  ASSUME IInv, ReaderInv, damage = 0, name \in DOMAIN records
  PROVE  /\ name \in Readable /\ IdOf(records[name]) = name
         /\ server \in {"contains", "serving", "refused"} =>
              /\ unchecked \subseteq Stored
              /\ \A k \in SelectedPacks(activation) : k.components \subseteq Stored
<1>1. /\ name \in Readable /\ IdOf(records[name]) = name
      /\ name \in ActivationId
      /\ \A d \in name.components : d \in Digest /\ Good(d)
  BY DEF IInv, TypeOK, RecordsSound, Undamaged, Readable, Intact, ActivationId
<1>2. name.components \subseteq Stored
  BY <1>1 DEF Stored, Good
<1>3. SUFFICES ASSUME server \in {"contains", "serving", "refused"}
               PROVE  /\ unchecked \subseteq Stored
                      /\ \A k \in SelectedPacks(activation) : k.components \subseteq Stored
  BY <1>1
<1>4. /\ IdOf(activation) = name
      /\ unchecked \subseteq name.components
  BY <1>3 DEF ReaderInv
<1>5. name.components = SelectedComponents(activation)
  BY <1>4 DEF IdOf
<1>6. \A k \in SelectedPacks(activation) : k.components \subseteq name.components
  BY <1>5 DEF SelectedComponents
<1>7. QED
  BY <1>2, <1>4, <1>6

LEMMA UndisturbedStep ==
  ASSUME IInv, ReaderInv, damage = 0, name # Nothing, OpenFails \/ Refused,
         name \in DOMAIN records
  PROVE  /\ server = "contains"
         /\ \A k \in SelectedPacks(activation) : k.capability # LexicalCapability
<1>1. /\ name \in Readable /\ IdOf(records[name]) = name
      /\ server \in {"contains", "serving", "refused"} =>
           /\ unchecked \subseteq Stored
           /\ \A k \in SelectedPacks(activation) : k.components \subseteq Stored
  BY NothingAway
<1>2. ~Refused
  BY <1>1 DEF Refused, Query, Opened
<1>3. server # "schema"
  BY DEF ReaderInv
<1>4. unchecked # {} => (CHOOSE d \in unchecked : TRUE) \in unchecked
  OBVIOUS
<1>5. QED
  BY <1>1, <1>2, <1>3, <1>4 DEF OpenFails

(* Commands that run while a server opens its dataset, or serves it, never *)
(* take away a file it looks for: unless its activation is forgotten or    *)
(* serves no words at all, it opens, and every query opens its packs.      *)
THEOREM ReaderNeverDisturbed == ServeSpec => ReaderUndisturbed
<1>1. ReaderInit => IInv /\ ReaderInv
  BY InitIInv DEF ReaderInit, ReaderInv
<1>2. IInv /\ ReaderInv /\ [ServeNext]_serveVars => IInv' /\ ReaderInv'
  <2> SUFFICES ASSUME IInv, ReaderInv, [ServeNext]_serveVars PROVE IInv' /\ ReaderInv'
    OBVIOUS
  <2>1. [Next]_vars /\ ReaderInv'
    BY ReaderStep
  <2>2. QED
    BY <2>1, TypeStep, LockStep, LocalsStep, RecordsStep, UnderLockStep, UndamagedStep
       DEF IInv
<1>3. IInv /\ ReaderInv =>
        [ damage = 0 /\ name # Nothing /\ (OpenFails \/ Refused) =>
            \/ name \notin DOMAIN records
            \/ /\ server = "contains"
               /\ \A k \in SelectedPacks(activation) : k.capability # LexicalCapability
        ]_serveVars
  BY UndisturbedStep
<1>4. QED
  BY <1>1, <1>2, <1>3, PTL DEF ServeSpec, ReaderUndisturbed
=============================================================================
