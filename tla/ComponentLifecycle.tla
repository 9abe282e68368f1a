-------------------------- MODULE ComponentLifecycle --------------------------
(***************************************************************************)
(* The schema 2 dataset root and the lexicon-data commands that mutate it  *)
(* (data/component_lifecycle.py, data/store.py, data/locking.py).          *)
(*                                                                         *)
(* Each process in Proc is a user running one command after another.  A    *)
(* command is interleaved with the others at every read and write of the   *)
(* root; it may raise or be killed between any two of them.  Damage to the *)
(* disk happens at rest, between commands, at most MaxDamage times.        *)
(*                                                                         *)
(* An operator marked "Defect" is no part of the specification: it is the  *)
(* definition below it with a plausible bug, which a property must catch.  *)
(***************************************************************************)
EXTENDS Selection, Naturals

CONSTANTS
  Proc,              \* the processes running lexicon-data
  Nothing,           \* no activation, no lock holder, no plan, no staged file
  SameCapabilities,  \* an amendment that names no capabilities
  Installs,          \* install commands a user may issue
  Amendments,        \* add-language and remove-language commands
  Upkeep,            \* which of activate, prune and forget are issued
  MaxDamage          \* bound on damaged files

InstallCommand == [request : Request, strict : BOOLEAN]

AmendCommand == [op           : {"add", "remove"},
                 release      : Release,
                 languages    : SUBSET Tag,
                 capabilities : (SUBSET Capability) \cup {SameCapabilities},
                 strict       : BOOLEAN]

ASSUME LifecycleAssumption ==
  /\ Nothing \notin ActivationId \cup Proc \cup Request \cup AmendCommand
  /\ SameCapabilities \notin SUBSET Capability
  /\ Installs \subseteq InstallCommand
  /\ Amendments \subseteq AmendCommand
  /\ Upkeep \subseteq {"activate", "prune", "forget"}
  /\ MaxDamage \in Nat

VARIABLES
  store,      \* state of the object at each digest's path
  records,    \* activation id -> request, for the record files on disk
  torn,       \* ids whose record file can no longer be parsed
  pointer,    \* current.json: an activation id, or Nothing
  manifests,  \* releases whose manifest is retained
  lock,       \* holder of .install.lock
  damage,     \* damage done so far (bounded by MaxDamage)
  pc, ask, plan, target, todo, staged  \* locals of the running commands

root == <<store, records, torn, pointer, manifests>>
locals == <<ask, plan, target, todo, staged>>
vars == <<root, lock, damage, pc, locals>>

ObjectState == {"absent", "good", "bad"}
StagedFile == [digest : Digest, good : BOOLEAN]

Waiting == {"apply_lock", "activate_lock", "prune_lock", "forget_lock"}
Reading == {"amend_pointer", "amend_record"}
Locked  == {"scan", "fetch", "adopt", "manifest", "record", "pointer",
            "verify", "mark", "sweep", "check", "unlink"}

(* The first step of each command once it holds the lock. *)
FirstStep == [apply_lock |-> "scan",  activate_lock |-> "verify",
              prune_lock |-> "mark",  forget_lock   |-> "check"]

Good(d) == store[d] = "good"
Stored == {d \in Digest : store[d] # "absent"}
Readable == DOMAIN records \ torn
-----------------------------------------------------------------------------
Init ==
  /\ store = [d \in Digest |-> "absent"]
  /\ records = [i \in {} |-> Nothing]
  /\ torn = {}
  /\ pointer = Nothing
  /\ manifests = {}
  /\ lock = Nothing
  /\ damage = 0
  /\ pc = [p \in Proc |-> "idle"]
  /\ ask = [p \in Proc |-> Nothing]
  /\ plan = [p \in Proc |-> Nothing]
  /\ target = [p \in Proc |-> Nothing]
  /\ todo = [p \in Proc |-> {}]
  /\ staged = [p \in Proc |-> Nothing]

Goto(p, from, to) ==
  /\ pc[p] = from
  /\ pc' = [pc EXCEPT ![p] = to]

(* Leaving the command, whether it returns, raises or dies: the advisory   *)
(* lock goes with the file descriptor.                                     *)
Leave(p) ==
  /\ pc' = [pc EXCEPT ![p] = "idle"]
  /\ ask' = [ask EXCEPT ![p] = Nothing]
  /\ plan' = [plan EXCEPT ![p] = Nothing]
  /\ target' = [target EXCEPT ![p] = Nothing]
  /\ todo' = [todo EXCEPT ![p] = {}]
  /\ staged' = [staged EXCEPT ![p] = Nothing]
  /\ lock' = IF lock = p THEN Nothing ELSE lock
  /\ UNCHANGED damage

(* A request resolved to an activation, waiting for the lock (_apply). *)
Plan(p, q) ==
  /\ plan' = [plan EXCEPT ![p] = q]
  /\ target' = [target EXCEPT ![p] = IdOf(q)]

StrictRefusal(q, strict) == strict /\ UnknownLanguages(q) # {}
-----------------------------------------------------------------------------
(* Commands, up to the point where they ask for the lock. *)

StartInstall(p) ==
  /\ Goto(p, "idle", "apply_lock")
  /\ \E c \in Installs :
       /\ ~StrictRefusal(c.request, c.strict)
       /\ Plan(p, c.request)
  /\ UNCHANGED <<root, lock, damage, ask, todo, staged>>

StartAmend(p) ==
  /\ Goto(p, "idle", "amend_pointer")
  /\ \E a \in Amendments : ask' = [ask EXCEPT ![p] = a]
  /\ UNCHANGED <<root, lock, damage, plan, target, todo, staged>>

(* active_activation reads current.json and then the record it names. *)
ReadPointer(p) ==
  /\ pointer # Nothing
  /\ Goto(p, "amend_pointer", "amend_record")
  /\ target' = [target EXCEPT ![p] = pointer]
  /\ UNCHANGED <<root, lock, damage, ask, plan, todo, staged>>

(* Defect: an addition starts from nothing instead of what is installed. *)
AmendedAfresh(active, a) ==
  LET current == IF active.languages \in {AllLanguages, {}}
                 THEN ManifestLanguages(active.release) ELSE active.languages
  IN  [release      |-> a.release,
       languages    |-> IF a.op = "add" THEN a.languages ELSE current \ a.languages,
       capabilities |-> IF a.capabilities = SameCapabilities
                        THEN active.capabilities ELSE a.capabilities]

(* The set of tags is amended as it is written: a tag is taken away only   *)
(* by itself, and a request that named no language counts as one for all.  *)
Amended(active, a) ==
  LET current == IF active.languages \in {AllLanguages, {}}
                 THEN ManifestLanguages(active.release) ELSE active.languages
  IN  [release      |-> a.release,
       languages    |-> IF a.op = "add" THEN current \cup a.languages
                                        ELSE current \ a.languages,
       capabilities |-> IF a.capabilities = SameCapabilities
                        THEN active.capabilities ELSE a.capabilities]

(* The refusals of _amend, and those of resolve(); removing is never strict. *)
AmendRefused(active, a) ==
  \/ a.release # active.release
  \/ active.languages = AllLanguages /\ a.op = "add"
  \/ Amended(active, a).languages = {}
  \/ a.op = "add" /\ StrictRefusal(Amended(active, a), a.strict)

ReadRecord(p) ==
  LET active == records[target[p]] IN
  /\ Goto(p, "amend_record", "apply_lock")
  /\ target[p] \in Readable
  /\ ~AmendRefused(active, ask[p])
  /\ Plan(p, Amended(active, ask[p]))
  /\ UNCHANGED <<root, lock, damage, ask, todo, staged>>

(* activate and forget name an id the user saw in the status report. *)
StartUpkeep(p) ==
  /\ \/ /\ "prune" \in Upkeep
        /\ Goto(p, "idle", "prune_lock")
        /\ UNCHANGED target
     \/ \E i \in DOMAIN records :
          /\ target' = [target EXCEPT ![p] = i]
          /\ \/ "activate" \in Upkeep /\ Goto(p, "idle", "activate_lock")
             \/ "forget" \in Upkeep /\ Goto(p, "idle", "forget_lock")
  /\ UNCHANGED <<root, lock, damage, ask, plan, todo, staged>>

(* Defect: the lock is granted while another process holds it. *)
AcquireHeldLock(p) ==
  /\ pc[p] \in Waiting
  /\ lock' = p
  /\ pc' = [pc EXCEPT ![p] = FirstStep[pc[p]]]
  /\ UNCHANGED <<root, damage, locals>>

AcquireLock(p) ==
  /\ pc[p] \in Waiting
  /\ lock = Nothing
  /\ lock' = p
  /\ pc' = [pc EXCEPT ![p] = FirstStep[pc[p]]]
  /\ UNCHANGED <<root, damage, locals>>
-----------------------------------------------------------------------------
(* _apply, under the lock. *)

Scan(p) ==
  LET missing == {d \in SelectedComponents(plan[p]) : ~Good(d)} IN
  /\ Goto(p, "scan", IF missing = {} THEN "manifest" ELSE "fetch")
  /\ todo' = [todo EXCEPT ![p] = missing]
  /\ UNCHANGED <<root, lock, damage, ask, plan, target, staged>>

(* materialize: a downloaded, assembled and verified file in the staging   *)
(* directory.  A download that fails raises (Abort).                       *)
Materialize(p) ==
  /\ Goto(p, "fetch", "adopt")
  /\ \E d \in todo[p] :
       staged' = [staged EXCEPT ![p] = [digest |-> d, good |-> TRUE]]
  /\ UNCHANGED <<root, lock, damage, ask, plan, target, todo>>

AdoptOnlyOne(p) ==
  LET d == staged[p].digest IN
  /\ Goto(p, "adopt", "manifest")
  /\ staged[p].good
  /\ store' = IF d \in Stored THEN store ELSE [store EXCEPT ![d] = "good"]
  /\ todo' = [todo EXCEPT ![p] = todo[p] \ {d}]
  /\ staged' = [staged EXCEPT ![p] = Nothing]
  /\ UNCHANGED <<records, torn, pointer, manifests, lock, damage, ask, plan, target>>

(* store.adopt hashes the staged file (a mismatch raises), keeps whatever  *)
(* file is already at the digest's path, and otherwise renames.            *)
Adopt(p) ==
  LET d == staged[p].digest
      rest == todo[p] \ {d}
  IN
  /\ Goto(p, "adopt", IF rest = {} THEN "manifest" ELSE "fetch")
  /\ staged[p].good
  /\ store' = IF d \in Stored THEN store ELSE [store EXCEPT ![d] = "good"]
  /\ todo' = [todo EXCEPT ![p] = rest]
  /\ staged' = [staged EXCEPT ![p] = Nothing]
  /\ UNCHANGED <<records, torn, pointer, manifests, lock, damage, ask, plan, target>>

RetainManifest(p) ==
  /\ Goto(p, "manifest", "record")
  /\ manifests' = manifests \cup {plan[p].release}
  /\ UNCHANGED <<store, records, torn, pointer, lock, damage, locals>>

(* _write_activation: a record file that exists is never rewritten, and    *)
(* is not read either.                                                     *)
WriteRecord(p) ==
  /\ Goto(p, "record", "pointer")
  /\ records' = IF target[p] \in DOMAIN records THEN records
                ELSE [i \in DOMAIN records \cup {target[p]} |->
                        IF i = target[p] THEN plan[p] ELSE records[i]]
  /\ UNCHANGED <<store, torn, pointer, manifests, lock, damage, locals>>

(* The atomic pointer swap, the last step of install and of activate. *)
WritePointer(p) ==
  /\ pc[p] = "pointer"
  /\ pointer' = target[p]
  /\ Leave(p)
  /\ UNCHANGED <<store, records, torn, manifests>>
-----------------------------------------------------------------------------
(* activate, prune and forget, under the lock. *)

(* Defect: the components need only be present. *)
VerifyPresence(p) ==
  /\ Goto(p, "verify", "pointer")
  /\ target[p] \in Readable
  /\ target[p].components \subseteq Stored
  /\ UNCHANGED <<root, lock, damage, locals>>

Verify(p) ==
  /\ Goto(p, "verify", "pointer")
  /\ target[p] \in Readable
  /\ \A d \in target[p].components : Good(d)
  /\ UNCHANGED <<root, lock, damage, locals>>

(* Defects: prune keeps what the active activation lists, or what any       *)
(* retained manifest lists.                                                *)
MarkActive(p) ==
  /\ Goto(p, "mark", "sweep")
  /\ todo' = [todo EXCEPT ![p] =
       Stored \ (IF pointer = Nothing THEN {} ELSE pointer.components)]
  /\ UNCHANGED <<root, lock, damage, ask, plan, target, staged>>

MarkReleases(p) ==
  /\ Goto(p, "mark", "sweep")
  /\ todo' = [todo EXCEPT ![p] =
       Stored \ UNION {k.components : k \in UNION {Manifest[r] : r \in manifests}}]
  /\ UNCHANGED <<root, lock, damage, ask, plan, target, staged>>

(* The digests every readable record refers to are kept: activations()     *)
(* passes over a record it cannot read.                                    *)
Mark(p) ==
  /\ Goto(p, "mark", "sweep")
  /\ todo' = [todo EXCEPT ![p] = Stored \ UNION {i.components : i \in Readable}]
  /\ UNCHANGED <<root, lock, damage, ask, plan, target, staged>>

Sweep(p) ==
  /\ pc[p] = "sweep"
  /\ \E d \in todo[p] :
       /\ store' = [store EXCEPT ![d] = "absent"]
       /\ todo' = [todo EXCEPT ![p] = todo[p] \ {d}]
  /\ UNCHANGED <<records, torn, pointer, manifests, lock, damage, pc,
                 ask, plan, target, staged>>

Swept(p) ==
  /\ pc[p] = "sweep"
  /\ todo[p] = {}
  /\ Leave(p)
  /\ UNCHANGED root

(* Defect: the active activation is not spared. *)
CheckForgetAny(p) ==
  /\ Goto(p, "check", "unlink")
  /\ target[p] \in DOMAIN records
  /\ UNCHANGED <<root, lock, damage, locals>>

CheckForget(p) ==
  /\ Goto(p, "check", "unlink")
  /\ target[p] # pointer
  /\ target[p] \in DOMAIN records
  /\ UNCHANGED <<root, lock, damage, locals>>

Unlink(p) ==
  /\ pc[p] = "unlink"
  /\ records' = [i \in DOMAIN records \ {target[p]} |-> records[i]]
  /\ torn' = torn \ {target[p]}
  /\ Leave(p)
  /\ UNCHANGED <<store, pointer, manifests>>
-----------------------------------------------------------------------------
(* Defect: a command that finds the lock held waits for it. *)
LockBlocks(p) ==
  /\ pc[p] \in Waiting
  /\ lock # Nothing
  /\ UNCHANGED vars

(* LockBusyError: the lock does not block. *)
LockBusy(p) ==
  /\ pc[p] \in Waiting
  /\ lock # Nothing
  /\ Leave(p)
  /\ UNCHANGED root

(* The errors the code raises itself, each where a step above is refused. *)
Refuse(p) ==
  /\ \/ pc[p] = "amend_pointer" /\ pointer = Nothing
     \/ /\ pc[p] = "amend_record"
        /\ target[p] \in Readable => AmendRefused(records[target[p]], ask[p])
     \/ pc[p] = "adopt" /\ ~staged[p].good
     \/ /\ pc[p] = "verify"
        /\ target[p] \in Readable => \E d \in target[p].components : ~Good(d)
     \/ pc[p] = "check" /\ (target[p] = pointer \/ target[p] \notin DOMAIN records)
  /\ Leave(p)
  /\ UNCHANGED root

(* A failed download, a full disk or any other I/O error raises out of the *)
(* command, or its process is killed, wherever it is.                      *)
Abort(p) ==
  /\ pc[p] # "idle"
  /\ Leave(p)
  /\ UNCHANGED root

(* Damage at rest: a stored object rots or is deleted, a record becomes    *)
(* unreadable; and a staged file may be damaged before it is adopted.      *)
RotObject ==
  /\ lock = Nothing
  /\ \E d \in Stored, s \in {"bad", "absent"} : store' = [store EXCEPT ![d] = s]
  /\ UNCHANGED <<records, torn, pointer, manifests, lock, pc, locals>>

TearRecord ==
  /\ lock = Nothing
  /\ \E i \in Readable : torn' = torn \cup {i}
  /\ UNCHANGED <<store, records, pointer, manifests, lock, pc, locals>>

RotStaged ==
  /\ \E p \in Proc :
       /\ pc[p] = "adopt"
       /\ staged' = [staged EXCEPT ![p] = [digest |-> staged[p].digest, good |-> FALSE]]
  /\ UNCHANGED <<root, lock, pc, ask, plan, target, todo>>

Damage ==
  /\ damage < MaxDamage
  /\ damage' = damage + 1
  /\ RotObject \/ TearRecord \/ RotStaged

Start(p) == StartInstall(p) \/ StartAmend(p) \/ StartUpkeep(p)

Step(p) ==
  \/ ReadPointer(p) \/ ReadRecord(p)
  \/ AcquireLock(p) \/ LockBusy(p) \/ Refuse(p)
  \/ Scan(p) \/ Materialize(p) \/ Adopt(p)
  \/ RetainManifest(p) \/ WriteRecord(p) \/ WritePointer(p)
  \/ Verify(p) \/ Mark(p) \/ Sweep(p) \/ Swept(p)
  \/ CheckForget(p) \/ Unlink(p)

Next ==
  \/ \E p \in Proc : Start(p) \/ Step(p) \/ Abort(p)
  \/ Damage

(* A running command takes its next step; nobody is obliged to start one,  *)
(* and nothing obliges a command to fail.                                  *)
Fairness == \A p \in Proc : WF_vars(Step(p))

Spec == Init /\ [][Next]_vars
FairSpec == Spec /\ Fairness
-----------------------------------------------------------------------------
TypeOK ==
  /\ store \in [Digest -> ObjectState]
  /\ DOMAIN records \subseteq ActivationId
  /\ records \in [DOMAIN records -> Request]
  /\ torn \subseteq DOMAIN records
  /\ pointer \in ActivationId \cup {Nothing}
  /\ manifests \subseteq Release
  /\ lock \in Proc \cup {Nothing}
  /\ damage \in 0 .. MaxDamage
  /\ pc \in [Proc -> {"idle"} \cup Reading \cup Waiting \cup Locked]
  /\ ask \in [Proc -> AmendCommand \cup {Nothing}]
  /\ plan \in [Proc -> Request \cup {Nothing}]
  /\ target \in [Proc -> ActivationId \cup {Nothing}]
  /\ todo \in [Proc -> SUBSET Digest]
  /\ staged \in [Proc -> StagedFile \cup {Nothing}]

(* Every component of an activation is stored and intact. *)
Intact(i) == \A d \in i.components : Good(d)

(* While the disk is undamaged every retained activation can be switched   *)
(* back to at once: its record is readable and all its components are in   *)
(* the store, whatever prunes, removals and failed installs came between.  *)
RollbackReady == damage = 0 => \A i \in DOMAIN records : i \in Readable /\ Intact(i)

(* The pointer never names an activation that has no record, or whose      *)
(* manifest was not retained: a crash anywhere in an install, or a forget  *)
(* racing an activate, cannot leave the root pointing at nothing.          *)
PointerResolves ==
  pointer # Nothing => pointer \in DOMAIN records /\ pointer.release \in manifests

(* README: an interrupted operation leaves the previous install exactly as *)
(* it was.  No step of any command but the pointer swap changes the active *)
(* record, or a component it lists other than by restoring it.             *)
PreviousInstallIntact ==
  [][ (pointer' = pointer /\ pointer \in Readable /\ damage' = damage) =>
        /\ pointer \in DOMAIN records' \ torn'
        /\ records'[pointer] = records[pointer]
        /\ \A d \in pointer.components : store'[d] \in {store[d], "good"} ]_vars

(* The process that moves the pointer in this step, if it does. *)
Switches(p) == pc[p] = "pointer" /\ pc'[p] = "idle" /\ pointer' # pointer

(* activate refuses a damaged selection: the pointer moves to a retained   *)
(* activation only when each of its components hashes to its digest.       *)
ActivateVerifies ==
  [][ \A p \in Proc : Switches(p) /\ plan[p] = Nothing => Intact(target[p]) ]_vars

(* README: downloads are hash-checked before anything is activated.  An    *)
(* install moves the pointer only when every component it lists is intact. *)
InstallVerifies ==
  [][ \A p \in Proc : Switches(p) /\ plan[p] # Nothing => Intact(target[p]) ]_vars

(* Activation records are immutable: a record file changes only by being   *)
(* forgotten, so what an id stands for is the same for every command that  *)
(* reads it while it exists.                                               *)
RecordsImmutable ==
  [][ \A i \in DOMAIN records \cap DOMAIN records' : records'[i] = records[i] ]_vars

(* store.prune: rollback targets must not lose their components.  Whatever *)
(* else is damaged or under way, no command deletes a component of an      *)
(* activation whose record can be read, and when a prune returns the store *)
(* holds no others.  (One whose record cannot loses what only it lists.)   *)
PruneExact ==
  [][ /\ \A i \in Readable \cap DOMAIN records' : \A d \in i.components :
           damage' = damage /\ d \in Stored => store'[d] # "absent"
      /\ \A p \in Proc : pc[p] = "sweep" /\ Swept(p) =>
           Stored \subseteq UNION {i.components : i \in Readable} ]_vars

(* Every command returns: no state leaves one waiting, for the lock or for *)
(* another command.  The advisory lock is released after crashes: however  *)
(* commands end, the root is never left locked.                            *)
CommandsEnd ==
  /\ \A p \in Proc : pc[p] # "idle" ~> pc[p] = "idle"
  /\ []<>(lock = Nothing)
-----------------------------------------------------------------------------
(* The root the commands keep is the abstract one: objects that hash to    *)
(* their digest are held, the record files are the retained activations.   *)
Root == INSTANCE DatasetRoot
          WITH held <- {d \in Digest : Good(d)}, retained <- records, active <- pointer

(* While no file has been damaged, every step of every command is a step   *)
(* of the abstract root or changes nothing of it.                          *)
ImplementsRoot == Root!Init /\ [][damage' = 0 => [Root!Next]_Root!vars]_vars
-----------------------------------------------------------------------------
(* The inductive invariant behind the theorems. *)

(* Steps between _apply's scan and its pointer swap, by what they know. *)
Planned == {"apply_lock", "scan", "fetch", "adopt", "manifest", "record"}
Named == {"amend_record", "activate_lock", "forget_lock", "verify", "check",
          "unlink", "pointer"}

LockHeld == \A p \in Proc : pc[p] \in Locked => lock = p

(* The locals a step reads have been given a value. *)
LocalsDefined ==
  \A p \in Proc :
    /\ pc[p] \in Reading => ask[p] \in AmendCommand
    /\ pc[p] \in Named => target[p] \in ActivationId
    /\ pc[p] \in Planned => plan[p] \in Request /\ target[p] = IdOf(plan[p])
    /\ pc[p] = "adopt" => staged[p] \in StagedFile /\ staged[p].digest \in todo[p]

RecordsSound ==
  /\ \A i \in DOMAIN records : IdOf(records[i]) = i /\ i.release \in manifests
  /\ pointer # Nothing => pointer \in DOMAIN records

(* What the holder of the lock has established, and nobody else can undo. *)
UnderLock ==
  \A p \in Proc :
    /\ pc[p] = "record" => plan[p].release \in manifests
    /\ pc[p] = "pointer" => target[p] \in DOMAIN records
    /\ pc[p] = "pointer" /\ plan[p] = Nothing => Intact(target[p])
    /\ pc[p] = "sweep" => \A i \in Readable : i.components \cap todo[p] = {}
    /\ pc[p] = "unlink" => target[p] # pointer

(* While no damage has been done: nothing stored is bad, what an install   *)
(* no longer has to fetch is stored, and every record is intact.           *)
Undamaged ==
  damage = 0 =>
    /\ \A d \in Digest : store[d] # "bad"
    /\ torn = {}
    /\ \A i \in DOMAIN records : Intact(i)
    /\ \A p \in Proc :
         /\ pc[p] \in {"fetch", "adopt"} =>
              \A d \in SelectedComponents(plan[p]) \ todo[p] : Good(d)
         /\ pc[p] \in {"manifest", "record"} => Intact(target[p])

IInv == TypeOK /\ LockHeld /\ LocalsDefined /\ RecordsSound /\ UnderLock /\ Undamaged
=============================================================================
