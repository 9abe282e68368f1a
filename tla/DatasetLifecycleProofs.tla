------------------------ MODULE DatasetLifecycleProofs ------------------------
(***************************************************************************)
(* The safety of the schema 1 root, for every set of processes, releases   *)
(* and files, and any number of failures, kills and damaged files.         *)
(***************************************************************************)
EXTENDS DatasetLifecycle, TLAPS

Steps == {"idle", "lock", "install", "stage", "published", "activate", "repair", "mend", "rollback"}
Idle == {"idle", "lock"}

USE DEF root
-----------------------------------------------------------------------------
(* Who may change what: a command at work holds the lock, alone. *)
LEMMA Alone ==
  ASSUME IInv, NEW p \in Proc, NEW q \in Proc, pc[p] \notin Idle, pc[q] \notin Idle
  PROVE  p = q
BY DEF IInv, LockHeld, Idle

LEMMA Unlocked ==
  ASSUME IInv, NEW p \in Proc, lock = Nothing
  PROVE  pc[p] \in Idle
BY ContentAssumption DEF IInv, LockHeld, Idle

(* The steps of one command, with what they do to its locals. *)
LEMMA StepLocals ==
  ASSUME IInv, NEW p \in Proc,
         StartInstall(p) \/ StartRepair(p) \/ StartRollback(p) \/ Step(p) \/ Fail(p)
  PROVE  /\ \A q \in Proc \ {p} : pc'[q] = pc[q] /\ op'[q] = op[q] /\ todo'[q] = todo[q]
         /\ damage' = damage
         /\ pc[p] \in Idle => UNCHANGED <<dirs, pointer>>
<1>1. /\ pc \in [Proc -> Steps] /\ op \in [Proc -> Command \cup {Nothing}]
      /\ todo \in [Proc -> SUBSET Path]
  BY DEF IInv, VersionsSound, TypeOK, Steps
<1>2. \A q \in Proc \ {p} : pc'[q] = pc[q] /\ op'[q] = op[q] /\ todo'[q] = todo[q]
  BY <1>1 DEF StartInstall, StartRepair, StartRollback, Start, Step, Fail, Acquire, Refuse,
              InstallPresent, InstallStage, Materialize, Publish, Published, Activate, Diagnose,
              Mend, Mended, Rollback, Goto, Leave
<1>3. damage' = damage
  BY DEF StartInstall, StartRepair, StartRollback, Start, Step, Fail, Acquire, Refuse,
         InstallPresent, InstallStage, Materialize, Publish, Published, Activate, Diagnose,
         Mend, Mended, Rollback, Goto, Leave
<1>4. pc[p] \in Idle => UNCHANGED <<dirs, pointer>>
  BY DEF StartInstall, StartRepair, StartRollback, Start, Step, Fail, Acquire, Refuse,
         InstallPresent, InstallStage, Materialize, Publish, Published, Activate, Diagnose,
         Mend, Mended, Rollback, Goto, Leave, Idle
<1>5. QED
  BY <1>2, <1>3, <1>4

(* Nothing else is disturbed by a step of p. *)
LEMMA OthersKnown ==
  ASSUME IInv, NEW q \in Proc, pc'[q] = pc[q], op'[q] = op[q], todo'[q] = todo[q],
         UNCHANGED <<dirs, pointer>> \/ pc[q] \in Idle
  PROVE  Known(q)'
<1>1. Known(q)
  BY DEF IInv, CommandsKnown
<1>2. CASE UNCHANGED <<dirs, pointer>>
  BY <1>1, <1>2 DEF Known, Intact, Damaged, Installed, Named
<1>3. CASE pc[q] \in Idle
  BY <1>1, <1>3 DEF Known, Idle
<1>4. QED
  BY <1>2, <1>3
-----------------------------------------------------------------------------
(* The arguments of a command, as it starts and as it goes on.             *)
LEMMA CommandUpdate ==
  ASSUME NEW c \in Command, NEW v \in Version \cup {Nothing}, NEW r \in Release \cup {Nothing},
         NEW u \in Version \cup {Nothing}
  PROVE  /\ [c EXCEPT !.version = v, !.release = r] \in Command
         /\ [c EXCEPT !.previous = u] \in Command
         /\ [c EXCEPT !.version = v, !.release = r, !.previous = u] \in Command
BY DEF Command

LEMMA CommandFields ==
  ASSUME NEW c \in Command
  PROVE  /\ c.name \in {"install", "repair", "rollback"} /\ c.version \in Version \cup {Nothing}
         /\ c.release \in Release \cup {Nothing} /\ c.previous \in Version \cup {Nothing}
BY DEF Command

LEMMA StartKnown ==
  ASSUME IInv, NEW p \in Proc, StartInstall(p) \/ StartRepair(p) \/ StartRollback(p)
  PROVE  Known(p)' /\ op'[p] \in Command /\ todo'[p] \subseteq Path
<1>1. /\ pc \in [Proc -> Steps] /\ op \in [Proc -> Command \cup {Nothing}]
      /\ todo \in [Proc -> SUBSET Path]
  BY DEF IInv, VersionsSound, TypeOK, Steps
<1>2. ASSUME NEW c \in Command, Start(p, c),
             c.name = "install" => c.release \in Release /\ VersionOf[c.release] = c.version
      PROVE  Known(p)' /\ op'[p] \in Command /\ todo'[p] \subseteq Path
  BY <1>1, <1>2 DEF Start, Known
<1>3. CASE StartInstall(p)
  <2>1. PICK r \in Sources : Start(p, [name |-> "install", version |-> VersionOf[r],
                                       release |-> r, previous |-> Nothing])
    BY <1>3 DEF StartInstall
  <2>2. r \in Release /\ VersionOf[r] \in Version
    BY DatasetAssumption
  <2>3. [name |-> "install", version |-> VersionOf[r], release |-> r, previous |-> Nothing]
          \in Command
    BY <2>2 DEF Command
  <2>4. QED
    BY <1>2, <2>1, <2>2, <2>3
<1>4. CASE StartRepair(p)
  <2>1. PICK v \in Version \cup {Nothing}, r \in Sources \cup {Nothing} :
          Start(p, [name |-> "repair", version |-> v, release |-> r, previous |-> Nothing])
    BY <1>4 DEF StartRepair
  <2>2. [name |-> "repair", version |-> v, release |-> r, previous |-> Nothing] \in Command
    BY DatasetAssumption DEF Command
  <2>3. QED
    BY <1>2, <2>1, <2>2
<1>5. CASE StartRollback(p)
  <2>1. PICK v \in Version \cup {Nothing} :
          Start(p, [name |-> "rollback", version |-> v, release |-> Nothing,
                    previous |-> Nothing])
    BY <1>5 DEF StartRollback
  <2>2. [name |-> "rollback", version |-> v, release |-> Nothing, previous |-> Nothing] \in Command
    BY DEF Command
  <2>3. QED
    BY <1>2, <2>1, <2>2
<1>6. QED
  BY <1>3, <1>4, <1>5
-----------------------------------------------------------------------------
(* What is written to a directory, and what its files then are.            *)
LEMMA CompleteIntact ==
  ASSUME NEW r \in Release
  PROVE  Complete(r) \in Directory /\ Complete(r) # Nothing /\ Intact(Complete(r), r)
<1>1. Files[r] \in [Path -> Digest \cup {Nothing}]
  BY ContentAssumption
<1>2. Complete(r) \in Directory
  BY <1>1 DEF Complete, Directory
<1>3. QED
  BY <1>2, ContentAssumption DEF Complete, Intact, Damaged

LEMMA FileMoved ==
  ASSUME NEW dir \in Directory, NEW f \in Path, NEW r \in Release,
         NEW moved, moved = [dir EXCEPT !.files[f] = Files[r][f]]
  PROVE  /\ moved \in Directory /\ moved.manifest = dir.manifest
         /\ Damaged(moved, r) = Damaged(dir, r) \ {f}
<1>1. dir.manifest \in Release \cup {Bad} /\ dir.files \in [Path -> Digest \cup {Nothing, Bad}]
  BY DEF Directory
<1>2. Files[r] \in [Path -> Digest \cup {Nothing}]
  BY ContentAssumption
<1>3. moved = [manifest |-> dir.manifest, files |-> [dir.files EXCEPT ![f] = Files[r][f]]]
  BY DEF Directory
<1>4. [dir.files EXCEPT ![f] = Files[r][f]] \in [Path -> Digest \cup {Nothing, Bad}]
  BY <1>1, <1>2
<1>5. moved \in Directory
  BY <1>1, <1>3, <1>4 DEF Directory
<1>6. Damaged(moved, r) = Damaged(dir, r) \ {f}
  BY <1>1, <1>3 DEF Damaged, Wanted
<1>7. QED
  BY <1>3, <1>5, <1>6

LEMMA ManifestRestored ==
  ASSUME NEW dir \in Directory, NEW r \in Release \cup {Bad},
         NEW restored, restored = [dir EXCEPT !.manifest = r]
  PROVE  /\ restored \in Directory /\ restored.manifest = r
         /\ \A s \in Release : Damaged(restored, s) = Damaged(dir, s)
<1>1. restored = [manifest |-> r, files |-> dir.files]
  BY DEF Directory
<1>2. QED
  BY <1>1 DEF Directory, Damaged

LEMMA InstalledTyped ==
  ASSUME IInv, NEW v \in Version, Installed(v)
  PROVE  dirs[v] \in Directory
BY DEF IInv, VersionsSound, TypeOK, Installed

LEMMA PointerTyped ==
  ASSUME IInv, pointer \notin {Nothing, Schema2}
  PROVE  /\ pointer.version \in Version /\ pointer.release \in Release
         /\ pointer.previous \in Version \cup {Nothing}
BY DEF IInv, VersionsSound, TypeOK, Pointer1
-----------------------------------------------------------------------------
(* What a command knows after each step.                                   *)
LEMMA StepKnown ==
  ASSUME IInv, NEW p \in Proc, Step(p) \/ Fail(p)
  PROVE  Known(p)' /\ op'[p] \in Command \cup {Nothing} /\ todo'[p] \subseteq Path
<1> DEFINE Goal == Known(p)' /\ op'[p] \in Command \cup {Nothing} /\ todo'[p] \subseteq Path
           c == op[p]
<1>1. /\ pc \in [Proc -> Steps] /\ op \in [Proc -> Command \cup {Nothing}]
      /\ todo \in [Proc -> SUBSET Path] /\ dirs \in [Version -> Directory \cup {Nothing}]
  BY DEF IInv, VersionsSound, TypeOK, Steps
<1>2. Known(p)
  BY DEF IInv, CommandsKnown
<1>3. pc[p] # "idle" => c \in Command
  BY <1>2 DEF Known
<1>4. CASE Leave(p)
  BY <1>1, <1>4 DEF Leave, Known
<1>5. CASE Acquire(p)
  <2>1. c.name \in {"install", "repair", "rollback"}
    BY <1>3, <1>5, CommandFields DEF Acquire
  <2>2. QED
    BY <1>1, <1>2, <1>5, <2>1 DEF Acquire, Known
<1>6. CASE pc[p] \in {"install", "published"} /\ Installed(c.version)
           /\ Intact(dirs[c.version], c.release) /\ ~CurrentRaises
           /\ Goto(p, "activate", [c EXCEPT !.previous = Current], {})
  <2>1. Current \in Version \cup {Nothing}
    BY PointerTyped DEF Current
  <2>2. /\ [c EXCEPT !.previous = Current] \in Command
        /\ LET e == [c EXCEPT !.previous = Current]
           IN  e.name = c.name /\ e.version = c.version /\ e.release = c.release
    BY <1>3, <1>6, <2>1, CommandUpdate DEF Command
  <2>3. /\ c.release \in Release /\ VersionOf[c.release] = c.version
        /\ c.name = "install" /\ pointer # Schema2
    BY <1>2, <1>6 DEF Known, CurrentRaises
  <2>4. /\ pc'[p] = "activate" /\ op'[p] = [c EXCEPT !.previous = Current] /\ todo'[p] = {}
        /\ UNCHANGED <<dirs, pointer>>
    BY <1>1, <1>6 DEF Goto
  <2>5. QED
    BY <1>6, <2>2, <2>3, <2>4 DEF Known, Installed, Intact, Damaged
<1>7. CASE InstallStage(p) \/ Materialize(p)
  BY <1>1, <1>2, <1>3, <1>7 DEF InstallStage, Materialize, Goto, Known, Wanted, Installed
<1>8. CASE Publish(p)
  <2>1. /\ c.release \in Release /\ VersionOf[c.release] = c.version /\ c.version \in Version
        /\ c.name = "install"
    BY <1>2, <1>8, DatasetAssumption DEF Publish, Known
  <2>2. dirs'[c.version] = Complete(c.release)
    BY <1>1, <1>8, <2>1 DEF Publish
  <2>3. pc'[p] = "published" /\ UNCHANGED <<op, todo, pointer>>
    BY <1>1, <1>8 DEF Publish
  <2>4. Intact(dirs'[c.version], c.release) /\ dirs'[c.version] # Nothing
    BY <2>1, <2>2, CompleteIntact
  <2>5. QED
    BY <1>1, <1>3, <1>8, <2>1, <2>3, <2>4 DEF Publish, Known, Installed, Intact, Damaged
<1>9. CASE Diagnose(p)
  <2> DEFINE v == RepairVersion(c)
             r == RepairRelease(c)
  <2>1. RepairAllowed(c) /\ pc[p] = "repair" /\ c \in Command
    BY <1>3, <1>9 DEF Diagnose
  <2>2. v \in Version /\ Installed(v) /\ r # Nothing /\ VersionOf[r] = v
    BY <2>1, CommandFields, PointerTyped DEF RepairAllowed, RepairVersion, ActiveVersion
  <2>3. r \in Release
    BY <2>1, <2>2, CommandFields, InstalledTyped DEF RepairRelease, Directory
  <2>4. Named /\ pointer.version = v => pointer.release = r
    BY <2>1 DEF RepairAllowed, Named
  <2> HIDE DEF v, r
  <2>5. CASE Goto(p, "mend", [c EXCEPT !.version = v, !.release = r], Damaged(dirs[v], r))
    <3>1. /\ [c EXCEPT !.version = v, !.release = r] \in Command
          /\ LET e == [c EXCEPT !.version = v, !.release = r]
             IN  e.version = v /\ e.release = r
      BY <2>1, <2>2, <2>3, CommandUpdate DEF Command
    <3>2. /\ pc'[p] = "mend" /\ op'[p] = [c EXCEPT !.version = v, !.release = r]
          /\ todo'[p] = Damaged(dirs[v], r) /\ UNCHANGED <<dirs, pointer>>
      BY <1>1, <2>5 DEF Goto
    <3>3. Damaged(dirs[v], r) \subseteq Path
      BY DEF Damaged, Wanted
    <3>4. QED
      BY <2>2, <2>3, <2>4, <3>1, <3>2, <3>3 DEF Known, Installed, Damaged, Named
  <2>6. QED
    BY <1>4, <1>9, <2>5 DEF Diagnose, v, r
<1>10. CASE Mend(p)
  <2>1. PICK f \in todo[p] : /\ dirs' = [dirs EXCEPT ![c.version].files[f] = Files[c.release][f]]
                             /\ todo' = [todo EXCEPT ![p] = todo[p] \ {f}]
    BY <1>10 DEF Mend
  <2>2. /\ c.release \in Release /\ VersionOf[c.release] = c.version /\ c.version \in Version
        /\ Installed(c.version) /\ Damaged(dirs[c.version], c.release) \subseteq todo[p]
        /\ Named /\ pointer.version = c.version => pointer.release = c.release
        /\ pc[p] = "mend" /\ UNCHANGED <<pc, op, pointer>>
    BY <1>2, <1>10, DatasetAssumption DEF Mend, Known
  <2>3. dirs'[c.version] = [dirs[c.version] EXCEPT !.files[f] = Files[c.release][f]]
    BY <1>1, <2>1, <2>2
  <2>4. f \in Path /\ dirs[c.version] \in Directory
    BY <1>1, <2>1, <2>2, InstalledTyped
  <2>5. /\ dirs'[c.version] \in Directory
        /\ Damaged(dirs'[c.version], c.release) = Damaged(dirs[c.version], c.release) \ {f}
    BY <2>2, <2>3, <2>4, FileMoved
  <2>6. dirs'[c.version] # Nothing
    BY <2>5, ContentAssumption
  <2>7. todo'[p] = todo[p] \ {f}
    BY <1>1, <2>1
  <2>8. QED
    BY <1>1, <1>3, <2>2, <2>5, <2>6, <2>7 DEF Known, Installed, Damaged, Named
<1>11. CASE Rollback(p)
  <2> DEFINE v == RollbackVersion(c)
             e == [c EXCEPT !.version = v, !.release = dirs[v].manifest,
                            !.previous = pointer.version]
  <2>1. pc[p] = "rollback" /\ RollbackAllowed(c) /\ c \in Command /\ c.name = "rollback"
    BY <1>2, <1>3, <1>11 DEF Rollback, Known
  <2>2. Named /\ v \in Version /\ v # pointer.version /\ Installed(v)
    BY <2>1, CommandFields, PointerTyped DEF RollbackAllowed, RollbackVersion, Named
  <2>3. /\ dirs[v].manifest \in Release /\ Intact(dirs[v], dirs[v].manifest)
        /\ dirs[v].manifest # Bad
    BY <2>1, <2>2, InstalledTyped DEF RollbackAllowed, Directory
  <2>4. VersionOf[dirs[v].manifest] = v
    BY <2>2, <2>3 DEF IInv, InPlace
  <2>5. pointer.version \in Version
    BY <2>2, PointerTyped DEF Named
  <2>6. /\ e \in Command /\ e.version = v /\ e.release = dirs[v].manifest
        /\ e.previous = pointer.version
    BY <2>1, <2>2, <2>3, <2>5, CommandUpdate DEF Command
  <2>7. pc'[p] = "activate" /\ op'[p] = e /\ todo'[p] = {} /\ UNCHANGED <<dirs, pointer>>
    BY <1>1, <1>11 DEF Rollback, Goto
  <2> HIDE DEF v, e
  <2>8. QED
    BY <2>2, <2>3, <2>4, <2>6, <2>7 DEF Known, Named, Installed, Intact, Damaged
<1>12. CASE Published(p)
  <2>1. /\ pc[p] = "published" /\ Installed(c.version) /\ Intact(dirs[c.version], c.release)
        /\ ~CurrentRaises /\ Goto(p, "activate", [c EXCEPT !.previous = Current], {})
    BY <1>2, <1>12 DEF Published, Known
  <2>2. QED
    BY <1>6, <2>1
<1>13. CASE InstallPresent(p)
  BY <1>4, <1>6, <1>13 DEF InstallPresent
<1>14. QED
  BY <1>4, <1>5, <1>7, <1>8, <1>9, <1>10, <1>11, <1>12, <1>13
  DEF Step, Fail, Refuse, Activate, Mended

LEMMA CommandsStep == IInv /\ [Next]_vars => CommandsKnown'
<1> SUFFICES ASSUME IInv, [Next]_vars, NEW q \in Proc PROVE Known(q)'
  BY DEF CommandsKnown
<1>1. ASSUME NEW p \in Proc, StartInstall(p) \/ StartRepair(p) \/ StartRollback(p) \/ Step(p) \/ Fail(p)
      PROVE  Known(q)'
  <2>1. CASE p = q
    BY <1>1, <2>1, StartKnown, StepKnown
  <2>2. CASE p # q
    <3>1. /\ pc'[q] = pc[q] /\ op'[q] = op[q] /\ todo'[q] = todo[q]
          /\ pc[p] \in Idle => UNCHANGED <<dirs, pointer>>
      BY <1>1, <2>2, StepLocals
    <3>2. pc[p] \in Idle \/ pc[q] \in Idle
      BY <2>2, Alone
    <3>3. QED
      BY <3>1, <3>2, OthersKnown
  <2>3. QED
    BY <2>1, <2>2
<1>2. CASE Damage \/ TakeOver
  BY <1>2, Unlocked, OthersKnown DEF Damage, TakeOver
<1>3. CASE UNCHANGED vars
  BY <1>3, OthersKnown DEF vars
<1>4. QED
  BY <1>1, <1>2, <1>3 DEF Next
-----------------------------------------------------------------------------
LEMMA LockStep == IInv /\ [Next]_vars => LockHeld'
<1> SUFFICES ASSUME IInv, [Next]_vars, NEW q \in Proc, pc'[q] \notin Idle PROVE lock' = q
  BY DEF LockHeld, Idle
<1>1. pc \in [Proc -> Steps] /\ LockHeld
  BY DEF IInv, VersionsSound, TypeOK, Steps
<1>2. ASSUME NEW p \in Proc, Leave(p) PROVE lock' = q
  <2>1. p # q /\ pc'[q] = pc[q]
    BY <1>1, <1>2 DEF Leave, Idle
  <2>2. QED
    BY <1>1, <1>2, <2>1 DEF Leave, LockHeld, Idle
<1>3. ASSUME NEW p \in Proc, Acquire(p) PROVE lock' = q
  <2>1. p # q => pc'[q] = pc[q] /\ pc[q] \in Idle
    BY <1>1, <1>3, Unlocked DEF Acquire
  <2>2. QED
    BY <1>3, <2>1 DEF Acquire
<1>4. ASSUME NEW p \in Proc, NEW c, Start(p, c) PROVE lock' = q
  BY <1>1, <1>4 DEF Start, LockHeld, Idle
<1>5. ASSUME NEW p \in Proc, lock' = lock, pc[p] \notin Idle,
             pc' = pc \/ \E step \in Steps : pc' = [pc EXCEPT ![p] = step]
      PROVE  lock' = q
  BY <1>1, <1>5 DEF LockHeld, Idle
<1>6. ASSUME UNCHANGED <<lock, pc>> PROVE lock' = q
  BY <1>1, <1>6 DEF LockHeld, Idle
<1>7. ASSUME NEW p \in Proc, Step(p) PROVE lock' = q
  <2>1. CASE Acquire(p) \/ Leave(p)
    BY <1>2, <1>3, <2>1
  <2>2. CASE InstallPresent(p) \/ InstallStage(p) \/ Materialize(p) \/ Published(p)
             \/ Diagnose(p) \/ Rollback(p)
    BY <1>2, <1>5, <2>2 DEF InstallPresent, InstallStage, Materialize, Published, Diagnose,
                            Rollback, Goto, Steps, Idle
  <2>3. CASE Publish(p) \/ Mend(p)
    BY <1>5, <2>3 DEF Publish, Mend, Steps, Idle
  <2>4. QED
    BY <1>7, <2>1, <2>2, <2>3 DEF Step, Refuse, Activate, Mended
<1>8. QED
  BY <1>2, <1>4, <1>6, <1>7 DEF Next, vars, StartInstall, StartRepair, StartRollback, Fail,
                                Damage, TakeOver

(* The types of all but the directories and the pointer.                   *)
LEMMA BooksTyped ==
  ASSUME IInv, [Next]_vars
  PROVE  /\ lock' \in Proc \cup {Nothing} /\ leftovers' \subseteq Release
         /\ damage' \in BOOLEAN /\ faults' \in 0 .. MaxFaults
<1>1. /\ lock \in Proc \cup {Nothing} /\ leftovers \subseteq Release
      /\ faults \in 0 .. MaxFaults /\ MaxFaults \in Nat
  BY DatasetAssumption DEF IInv, VersionsSound, TypeOK
<1>2. damage' \in BOOLEAN
  BY StepLocals DEF IInv, VersionsSound, TypeOK, Next, vars, Damage, TakeOver
<1>3. lock' \in Proc \cup {Nothing}
  BY <1>1 DEF Next, vars, StartInstall, StartRepair, StartRollback, Start, Step, Fail, Acquire,
              Refuse, InstallPresent, InstallStage, Materialize, Publish, Published, Activate,
              Diagnose, Mend, Mended, Rollback, Goto, Leave, Damage, TakeOver
<1>4. faults' = faults \/ (faults < MaxFaults /\ faults' = faults + 1)
  BY DEF Next, vars, StartInstall, StartRepair, StartRollback, Start, Step, Fail, Acquire,
         Refuse, InstallPresent, InstallStage, Materialize, Publish, Published, Activate,
         Diagnose, Mend, Mended, Rollback, Goto, Damage, TakeOver
<1>5. ASSUME NEW p \in Proc, Fail(p) PROVE leftovers' \subseteq Release
  <2>1. pc[p] \in {"stage", "mend"} => op[p].release \in Release
    BY DEF IInv, CommandsKnown, Known
  <2>2. QED
    BY <1>1, <1>5, <2>1 DEF Fail
<1>6. leftovers' = leftovers \/ \E p \in Proc : Fail(p)
  BY DEF Next, vars, StartInstall, StartRepair, StartRollback, Start, Step, Acquire,
         Refuse, InstallPresent, InstallStage, Materialize, Publish, Published, Activate,
         Diagnose, Mend, Mended, Rollback, Goto, Damage, TakeOver
<1>7. QED
  BY <1>1, <1>2, <1>3, <1>4, <1>5, <1>6

LEMMA LocalsTyped ==
  ASSUME IInv, [Next]_vars
  PROVE  /\ pc' \in [Proc -> Steps] /\ op' \in [Proc -> Command \cup {Nothing}]
         /\ todo' \in [Proc -> SUBSET Path]
<1>1. /\ pc \in [Proc -> Steps] /\ op \in [Proc -> Command \cup {Nothing}]
      /\ todo \in [Proc -> SUBSET Path]
  BY DEF IInv, VersionsSound, TypeOK, Steps
<1>2. ASSUME NEW p \in Proc,
             StartInstall(p) \/ StartRepair(p) \/ StartRollback(p) \/ Step(p) \/ Fail(p)
      PROVE  /\ pc' \in [Proc -> Steps] /\ op' \in [Proc -> Command \cup {Nothing}]
             /\ todo' \in [Proc -> SUBSET Path]
  <2>1. op'[p] \in Command \cup {Nothing} /\ todo'[p] \subseteq Path
    BY <1>2, StartKnown, StepKnown
  <2>2. \A q \in Proc \ {p} : op'[q] = op[q] /\ todo'[q] = todo[q]
    BY <1>2, StepLocals
  <2>3. DOMAIN op' = Proc /\ op' = [q \in Proc |-> op'[q]]
    BY <1>1, <1>2 DEF StartInstall, StartRepair, StartRollback, Start, Step, Fail, Acquire,
         Refuse, InstallPresent, InstallStage, Materialize, Publish, Published, Activate,
         Diagnose, Mend, Mended, Rollback, Goto, Leave
  <2>4. todo' = [q \in Proc |-> todo'[q]]
    BY <1>1, <1>2 DEF StartInstall, StartRepair, StartRollback, Start, Step, Fail, Acquire,
         Refuse, InstallPresent, InstallStage, Materialize, Publish, Published, Activate,
         Diagnose, Mend, Mended, Rollback, Goto, Leave
  <2>5. pc' \in [Proc -> Steps]
    <3>1. ASSUME Acquire(p) PROVE op[p].name \in Steps
      <4>1. op[p] \in Command
        BY <3>1 DEF Acquire, IInv, CommandsKnown, Known
      <4>2. QED
        BY <4>1, CommandFields DEF Steps
    <3>2. QED
      BY <1>1, <1>2, <3>1 DEF StartInstall, StartRepair, StartRollback, Start, Step, Fail,
         Acquire, Refuse, InstallPresent, InstallStage, Materialize, Publish, Published, Activate,
         Diagnose, Mend, Mended, Rollback, Goto, Leave, Steps
  <2>6. op' \in [Proc -> Command \cup {Nothing}]
    BY <1>1, <2>1, <2>2, <2>3
  <2>7. todo' \in [Proc -> SUBSET Path]
    BY <1>1, <2>1, <2>2, <2>4
  <2>8. QED
    BY <2>5, <2>6, <2>7
<1>3. QED
  BY <1>1, <1>2 DEF Next, vars, Damage, TakeOver
-----------------------------------------------------------------------------
(* The directories and the pointer: RootKnown is what IInv says of them.   *)
RootKnown ==
  /\ dirs \in [Version -> Directory \cup {Nothing}]
  /\ pointer \in Pointer1 \cup {Nothing, Schema2}
  /\ InPlace /\ PointerKnown /\ ActiveComplete

LEMMA RootFrame ==
  ASSUME RootKnown, UNCHANGED <<dirs, pointer>>, damage' = damage
  PROVE  RootKnown'
BY DEF RootKnown, InPlace, PointerKnown, ActiveComplete, Named, Installed, Intact, Damaged, Loads

(* One directory is written: the active one may only be made better, or be *)
(* damaged, and then damage says so.                                       *)
LEMMA DirectoryWritten ==
  ASSUME RootKnown, NEW v \in Version, NEW dir \in Directory, dirs' = [dirs EXCEPT ![v] = dir],
         pointer' = pointer, damage => damage',
         dir.manifest # Bad => VersionOf[dir.manifest] = v,
         Named /\ pointer.version = v =>
           /\ dir.manifest \in {pointer.release, Bad}
           /\ ~damage' => Intact(dir, pointer.release)
  PROVE  RootKnown'
<1>1. dirs \in [Version -> Directory \cup {Nothing}]
  BY DEF RootKnown
<1>2. dirs' \in [Version -> Directory \cup {Nothing}]
  BY <1>1
<1>3. /\ dirs'[v] = dir /\ dir # Nothing
      /\ \A u \in Version : u # v => dirs'[u] = dirs[u]
  BY <1>1, ContentAssumption
<1>4. InPlace'
  BY <1>3 DEF RootKnown, InPlace, Installed
<1>5. PointerKnown'
  BY DEF RootKnown, PointerKnown, Named
<1>6. ASSUME Named PROVE pointer.version \in Version /\ pointer.release \in Release
  BY <1>6 DEF RootKnown, Named, Pointer1
<1>7. ASSUME Named
      PROVE  /\ dirs'[pointer.version] # Nothing
             /\ dirs'[pointer.version].manifest \in {pointer.release, Bad}
             /\ ~damage' => Intact(dirs'[pointer.version], pointer.release)
  <2>1. CASE pointer.version = v
    BY <1>3, <1>7, <2>1
  <2>2. CASE pointer.version # v
    BY <1>3, <1>6, <1>7, <2>2 DEF RootKnown, ActiveComplete, Named, Installed
  <2>3. QED
    BY <2>1, <2>2
<1>8. ASSUME Named, ~damage' PROVE Loads'
  <2>1. dirs'[pointer.version].manifest = pointer.release
    BY <1>7, <1>8 DEF Intact
  <2>2. dirs'[pointer.version].files[Lexicon] # Nothing
    BY <1>6, <1>7, <1>8, ContentAssumption, DatasetAssumption DEF Intact, Damaged, Wanted
  <2>3. pointer.release # Bad /\ VersionOf[pointer.release] = pointer.version
    BY <1>6, <1>8, ContentAssumption DEF RootKnown, PointerKnown
  <2>4. QED
    BY <1>7, <1>8, <2>1, <2>2, <2>3 DEF Loads, Named, Installed
<1>9. ActiveComplete'
  BY <1>7, <1>8 DEF ActiveComplete, Named, Installed, Intact, Damaged
<1>10. QED
  BY <1>2, <1>4, <1>5, <1>9 DEF RootKnown

LEMMA PublishRoot ==
  ASSUME IInv, RootKnown, NEW p \in Proc, Publish(p)
  PROVE  RootKnown'
<1>1. /\ op[p].release \in Release /\ VersionOf[op[p].release] = op[p].version
      /\ op[p].version \in Version /\ ~Installed(op[p].version)
  BY DatasetAssumption DEF Publish, IInv, CommandsKnown, Known
<1>2. ~(Named /\ pointer.version = op[p].version)
  BY <1>1 DEF RootKnown, ActiveComplete, Named
<1>3. Complete(op[p].release) \in Directory /\ Complete(op[p].release).manifest = op[p].release
  BY <1>1, CompleteIntact DEF Complete
<1>4. QED
  BY <1>1, <1>2, <1>3, DirectoryWritten DEF Publish

LEMMA MendRoot ==
  ASSUME IInv, RootKnown, NEW p \in Proc, Mend(p)
  PROVE  RootKnown'
<1> DEFINE c == op[p]
<1>1. PICK f \in todo[p] : dirs' = [dirs EXCEPT ![c.version].files[f] = Files[c.release][f]]
  BY DEF Mend
<1>2. /\ c.release \in Release /\ VersionOf[c.release] = c.version /\ c.version \in Version
      /\ Installed(c.version) /\ UNCHANGED <<pointer, damage>>
      /\ Named /\ pointer.version = c.version => pointer.release = c.release
  BY DatasetAssumption DEF Mend, IInv, CommandsKnown, Known
<1>3. f \in Path /\ dirs[c.version] \in Directory
  BY <1>2, InstalledTyped DEF IInv, VersionsSound, TypeOK
<1> DEFINE moved == [dirs[c.version] EXCEPT !.files[f] = Files[c.release][f]]
<1>4. /\ moved \in Directory /\ moved.manifest = dirs[c.version].manifest
      /\ Damaged(moved, c.release) = Damaged(dirs[c.version], c.release) \ {f}
  BY <1>2, <1>3, FileMoved
<1>5. dirs' = [dirs EXCEPT ![c.version] = moved]
  BY <1>1
<1> HIDE DEF moved, c
<1>6. moved.manifest # Bad => VersionOf[moved.manifest] = c.version
  BY <1>2, <1>4 DEF RootKnown, InPlace
<1>7. Named /\ pointer.version = c.version =>
        /\ moved.manifest \in {pointer.release, Bad}
        /\ ~damage' => Intact(moved, pointer.release)
  BY <1>2, <1>4 DEF RootKnown, ActiveComplete, Named, Intact
<1>8. QED
  BY <1>2, <1>4, <1>5, <1>6, <1>7, DirectoryWritten

LEMMA MendedRoot ==
  ASSUME IInv, RootKnown, NEW p \in Proc, Mended(p)
  PROVE  /\ RootKnown'
         /\ dirs' = [dirs EXCEPT ![op[p].version].manifest = op[p].release]
         /\ op[p].version \in Version
         /\ Damaged(dirs'[op[p].version], op[p].release) = {}
         /\ dirs'[op[p].version].manifest = op[p].release
<1> DEFINE c == op[p]
           restored == [dirs[c.version] EXCEPT !.manifest = c.release]
<1>1. /\ c.release \in Release /\ VersionOf[c.release] = c.version /\ c.version \in Version
      /\ Installed(c.version) /\ UNCHANGED <<pointer, damage>>
      /\ Named /\ pointer.version = c.version => pointer.release = c.release
      /\ Damaged(dirs[c.version], c.release) = {}
  BY DatasetAssumption DEF Mended, IInv, CommandsKnown, Known
<1>2. dirs[c.version] \in Directory
  BY <1>1, InstalledTyped
<1>3. /\ restored \in Directory /\ restored.manifest = c.release
      /\ Damaged(restored, c.release) = {}
  BY <1>1, <1>2, ManifestRestored
<1>4. dirs' = [dirs EXCEPT ![c.version] = restored]
  BY DEF Mended
<1>5. dirs'[c.version] = restored
  BY <1>1, <1>4 DEF RootKnown
<1> HIDE DEF restored
<1>6. RootKnown'
  BY <1>1, <1>3, <1>4, DirectoryWritten DEF Intact
<1>7. QED
  BY <1>1, <1>3, <1>5, <1>6 DEF Mended

LEMMA ActivateRoot ==
  ASSUME IInv, RootKnown, NEW p \in Proc, Activate(p)
  PROVE  RootKnown'
<1> DEFINE c == op[p]
<1>1. /\ c \in Command /\ c.release \in Release /\ VersionOf[c.release] = c.version
      /\ c.version \in Version /\ Installed(c.version) /\ Intact(dirs[c.version], c.release)
  BY DatasetAssumption DEF Activate, IInv, CommandsKnown, Known
<1>2. c.previous \in Version \cup {Nothing}
  BY <1>1, CommandFields
<1>3. /\ pointer' = [version |-> c.version, release |-> c.release,
                     previous |-> IF c.previous = c.version THEN Nothing ELSE c.previous]
      /\ UNCHANGED <<dirs, damage>>
  BY DEF Activate
<1>4. pointer' \in Pointer1 /\ pointer'.version = c.version /\ pointer'.release = c.release
  BY <1>1, <1>2, <1>3 DEF Pointer1
<1>5. dirs' \in [Version -> Directory \cup {Nothing}] /\ InPlace' /\ PointerKnown'
  BY <1>1, <1>3, <1>4 DEF RootKnown, InPlace, PointerKnown, Installed, Named
<1>6. c.release # Bad
  BY <1>1, ContentAssumption
<1>7. dirs[c.version].files[Lexicon] # Nothing
  BY <1>1, ContentAssumption, DatasetAssumption DEF Intact, Damaged, Wanted
<1>8. ActiveComplete'
  BY <1>1, <1>3, <1>4, <1>6, <1>7 DEF ActiveComplete, Installed, Intact, Damaged, Loads
<1>9. QED
  BY <1>4, <1>5, <1>8 DEF RootKnown

LEMMA DamageRoot ==
  ASSUME RootKnown, Damage
  PROVE  RootKnown'
<1>1. PICK v \in Version :
        /\ Installed(v)
        /\ \/ dirs' = [dirs EXCEPT ![v].manifest = Bad]
           \/ \E f \in Path : dirs' = [dirs EXCEPT ![v].files[f] = Bad]
  BY DEF Damage
<1>2. dirs[v] \in Directory
  BY <1>1 DEF RootKnown, Installed
<1>3. ASSUME dirs' = [dirs EXCEPT ![v].manifest = Bad] PROVE RootKnown'
  <2> DEFINE dir == [dirs[v] EXCEPT !.manifest = Bad]
  <2>1. dir \in Directory /\ dir.manifest = Bad
    BY <1>2, ManifestRestored
  <2>2. dirs' = [dirs EXCEPT ![v] = dir]
    BY <1>3
  <2> HIDE DEF dir
  <2>3. QED
    BY <2>1, <2>2, DirectoryWritten DEF Damage
<1>4. ASSUME NEW f \in Path, dirs' = [dirs EXCEPT ![v].files[f] = Bad] PROVE RootKnown'
  <2> DEFINE dir == [dirs[v] EXCEPT !.files[f] = Bad]
  <2>1. dir = [manifest |-> dirs[v].manifest, files |-> [dirs[v].files EXCEPT ![f] = Bad]]
    BY <1>2 DEF Directory
  <2>2. [dirs[v].files EXCEPT ![f] = Bad] \in [Path -> Digest \cup {Nothing, Bad}]
    BY <1>2 DEF Directory
  <2>3. dir \in Directory /\ dir.manifest = dirs[v].manifest
    BY <1>2, <2>1, <2>2 DEF Directory
  <2>4. dirs' = [dirs EXCEPT ![v] = dir]
    BY <1>4
  <2> HIDE DEF dir
  <2>5. /\ dir.manifest # Bad => VersionOf[dir.manifest] = v
        /\ Named /\ pointer.version = v => dir.manifest \in {pointer.release, Bad}
    BY <1>1, <2>3 DEF RootKnown, InPlace, ActiveComplete, Named
  <2>6. QED
    BY <2>3, <2>4, <2>5, DirectoryWritten DEF Damage
<1>5. QED
  BY <1>1, <1>3, <1>4

LEMMA RootStep == IInv /\ [Next]_vars => RootKnown'
<1> SUFFICES ASSUME IInv, [Next]_vars PROVE RootKnown'
  OBVIOUS
<1>1. RootKnown
  BY DEF IInv, VersionsSound, TypeOK, RootKnown
<1>2. CASE UNCHANGED <<dirs, pointer, damage>>
  BY <1>1, <1>2, RootFrame
<1>3. CASE TakeOver
  BY <1>1, <1>3 DEF TakeOver, RootKnown, InPlace, PointerKnown, ActiveComplete, Named, Installed
<1>4. QED
  BY <1>1, <1>2, <1>3, PublishRoot, MendRoot, MendedRoot, ActivateRoot, DamageRoot
  DEF Next, vars, StartInstall, StartRepair, StartRollback, Start, Step, Fail, Acquire,
      Refuse, InstallPresent, InstallStage, Materialize, Published, Diagnose, Rollback, Goto

LEMMA InitIInv == Init => IInv
<1> SUFFICES ASSUME Init PROVE IInv
  OBVIOUS
<1>1. TypeOK
  <2>1. faults \in 0 .. MaxFaults
    BY DatasetAssumption DEF Init
  <2>2. damage \in BOOLEAN
    BY DEF Init
  <2>3. /\ dirs \in [Version -> Directory \cup {Nothing}]
        /\ op \in [Proc -> Command \cup {Nothing}] /\ todo \in [Proc -> SUBSET Path]
        /\ pc \in [Proc -> {"idle", "lock", "install", "stage", "published", "activate",
                            "repair", "mend", "rollback"}]
    BY DEF Init
  <2>4. QED
    BY <2>1, <2>2, <2>3 DEF Init, TypeOK
<1>2. ActiveComplete /\ LockHeld /\ InPlace /\ PointerKnown
  BY DEF Init, ActiveComplete, LockHeld, InPlace, PointerKnown, Named, Installed
<1>3. CommandsKnown
  BY DEF Init, CommandsKnown, Known
<1>4. QED
  BY <1>1, <1>2, <1>3 DEF IInv, VersionsSound
-----------------------------------------------------------------------------
(* Under the installation lock each command still has, at every step, what *)
(* it found when it looked: the directory it built or verified, the        *)
(* release it repairs to, and a pointer nobody else has moved.             *)
THEOREM VersionsInvariant == Spec => []IInv
<1>1. IInv /\ [Next]_vars => IInv'
  BY RootStep, LockStep, CommandsStep, BooksTyped, LocalsTyped
  DEF RootKnown, IInv, VersionsSound, TypeOK, Steps
<1>2. QED
  BY InitIInv, <1>1, PTL DEF Spec

(* Wherever install, repair and rollback are killed or refused, the        *)
(* version current.json names is installed with the release that was       *)
(* activated, and complete as long as no file is damaged.                  *)
THEOREM VersionsAlwaysSound == Spec => []VersionsSound
<1>1. IInv => VersionsSound
  BY DEF IInv
<1>2. QED
  BY VersionsInvariant, <1>1, PTL

(* What each command writes: the pointer never goes back from schema 2, a  *)
(* rollback lands on a version that verifies and remembers the one it left *)
(* and a repair restores a manifest only over complete files.              *)
THEOREM RootAlwaysMovesSafely == Spec => RootMovesSafely
<1> DEFINE Kept == pointer = Schema2 => pointer' = Schema2
           Verified ==
             \A p \in Proc :
               pc[p] = "activate" /\ op[p].name = "rollback" /\ pointer' # pointer =>
                 /\ Intact(dirs[pointer'.version], pointer'.release)
                 /\ pointer \notin {Nothing, Schema2} => pointer'.previous = pointer.version
           Restored ==
             \A v \in Version :
               (Installed(v) /\ dirs'[v].manifest # dirs[v].manifest /\ dirs'[v].manifest # Bad) =>
                 Damaged(dirs'[v], dirs'[v].manifest) = {}
<1>1. ASSUME IInv, [Next]_vars
      PROVE  pointer' = pointer \/ TakeOver \/ \E p \in Proc : Activate(p)
  BY <1>1 DEF Next, vars, StartInstall, StartRepair, StartRollback, Start, Step, Fail, Acquire,
      Refuse, InstallPresent, InstallStage, Materialize, Publish, Mend, Mended, Published,
      Diagnose, Rollback, Goto, Damage
<1>2. ASSUME IInv, [Next]_vars PROVE Kept
  <2>1. ASSUME NEW p \in Proc, Activate(p) PROVE pointer # Schema2
    BY <1>2, <2>1 DEF Activate, IInv, CommandsKnown, Known
  <2>2. QED
    BY <1>1, <1>2, <2>1 DEF TakeOver
<1>3. ASSUME IInv, [Next]_vars, NEW p \in Proc, pc[p] = "activate", op[p].name = "rollback",
             pointer' # pointer
      PROVE  /\ Intact(dirs[pointer'.version], pointer'.release)
             /\ pointer \notin {Nothing, Schema2} => pointer'.previous = pointer.version
  <2>1. ~TakeOver
    BY <1>3, Unlocked DEF TakeOver, Idle
  <2>2. PICK q \in Proc : Activate(q)
    BY <1>1, <1>3, <2>1
  <2>3. q = p
    BY <1>3, <2>2, Alone DEF Activate, Idle
  <2>4. Known(p) /\ Activate(p)
    BY <1>3, <2>2, <2>3 DEF IInv, CommandsKnown
  <2>5. /\ Intact(dirs[op[p].version], op[p].release)
        /\ Named => op[p].previous = pointer.version /\ op[p].previous # op[p].version
    BY <1>3, <2>4 DEF Known
  <2>6. QED
    BY <2>4, <2>5 DEF Activate, Named
<1>4. ASSUME IInv, [Next]_vars, NEW v \in Version, Installed(v),
             dirs'[v].manifest # dirs[v].manifest, dirs'[v].manifest # Bad
      PROVE  Damaged(dirs'[v], dirs'[v].manifest) = {}
  <2>1. dirs \in [Version -> Directory \cup {Nothing}] /\ RootKnown
    BY <1>4 DEF IInv, VersionsSound, TypeOK, RootKnown
  <2>2. ASSUME NEW p \in Proc, Publish(p) PROVE dirs'[v] = dirs[v]
    <3>1. ~Installed(op[p].version)
      BY <1>4, <2>2 DEF Publish, IInv, CommandsKnown, Known
    <3>2. QED
      BY <1>4, <2>1, <2>2, <3>1 DEF Publish
  <2>3. ASSUME NEW p \in Proc, Mend(p) PROVE dirs'[v].manifest = dirs[v].manifest
    BY <1>4, <2>1, <2>3 DEF Mend, Installed, Directory
  <2>4. ASSUME NEW p \in Proc, Mended(p) PROVE Damaged(dirs'[v], dirs'[v].manifest) = {}
    <3>1. /\ dirs' = [dirs EXCEPT ![op[p].version].manifest = op[p].release]
          /\ Damaged(dirs'[op[p].version], op[p].release) = {}
          /\ dirs'[op[p].version].manifest = op[p].release
      BY <1>4, <2>1, <2>4, MendedRoot
    <3>2. v = op[p].version
      BY <1>4, <2>1, <3>1
    <3>3. QED
      BY <3>1, <3>2
  <2>5. ASSUME Damage PROVE dirs'[v].manifest \in {dirs[v].manifest, Bad}
    BY <1>4, <2>1, <2>5 DEF Damage, Installed, Directory
  <2>6. CASE dirs' = dirs
    BY <1>4, <2>6
  <2>7. QED
    BY <1>4, <2>2, <2>3, <2>4, <2>5, <2>6
    DEF Next, vars, StartInstall, StartRepair, StartRollback, Start, Step, Fail, Acquire, Refuse,
        InstallPresent, InstallStage, Materialize, Published, Activate, Diagnose, Rollback, Goto,
        TakeOver
<1>5. IInv /\ [Next]_vars => Kept /\ Verified /\ Restored
  BY <1>2, <1>3, <1>4
<1>6. QED
  BY VersionsInvariant, <1>5, PTL DEF Spec, RootMovesSafely
=============================================================================
