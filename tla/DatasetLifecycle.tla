--------------------------- MODULE DatasetLifecycle ---------------------------
(***************************************************************************)
(* The schema 1 dataset root: whole versions under versions/, installed,   *)
(* repaired and rolled back by data/lifecycle.py under the same lock as    *)
(* the schema 2 commands, which share current.json with it.                *)
(*                                                                         *)
(* A release is a manifest: the full and the English edition of a version  *)
(* are two releases of it and want the same directory.  A file is the      *)
(* digest of its content.  How a component is downloaded is MirrorFetch's  *)
(* subject; here it arrives verified or the command fails.                 *)
(***************************************************************************)
EXTENDS Naturals

CONSTANTS
  Proc,        \* the processes running lexicon-data
  Nothing,     \* no directory, no pointer, no argument
  Release,     \* manifests
  Version,     \* dataset versions
  VersionOf,   \* the dataset version of each release
  ProfileOf,   \* its profile, full or english
  Path,        \* component paths
  Lexicon,     \* the path of the lexical database
  Files,       \* Files[r][p]: the digest release r wants at p, or Nothing
  Schema2,     \* a pointer written by ComponentLifecycle
  Bad,         \* content that is nothing any release wants
  Sources,     \* releases a user can install from
  Owner,       \* the process of the user who keeps the root in repair
  MaxFaults    \* bound on failures, kills and damaged files

ASSUME DatasetAssumption ==
  /\ VersionOf \in [Release -> Version]
  /\ Lexicon \in Path
  /\ Sources \subseteq Release
  /\ Owner \in Proc
  /\ MaxFaults \in Nat

VARIABLES
  dirs,      \* version -> its directory, or Nothing
  pointer,   \* current.json
  lock,      \* holder of .install.lock
  leftovers, \* releases a killed install or repair left a staging directory of
  damage,    \* a file has been damaged
  faults,    \* failures so far (bounded by MaxFaults)
  pc, op, todo  \* locals of the running commands

vars == <<dirs, pointer, lock, leftovers, damage, faults, pc, op, todo>>

Digest == (UNION {{Files[r][p] : p \in Path} : r \in Release}) \ {Nothing}
Wanted(r) == {p \in Path : Files[r][p] # Nothing}
Directory == [manifest : Release \cup {Bad}, files : [Path -> Digest \cup {Nothing, Bad}]]
Pointer1 == [version : Version, release : Release, previous : Version \cup {Nothing}]

(* The arguments of a command: which one, what version it names, and the   *)
(* release it has (install) or is given as a source (repair).              *)
Command == [name : {"install", "repair", "rollback"},
            version : Version \cup {Nothing}, release : Release \cup {Nothing},
            previous : Version \cup {Nothing}]

(* A manifest lists components by path, the lexical database always among  *)
(* them (pipeline/orchestrator.py packages no release without one), and    *)
(* the markers are no values.                                              *)
ASSUME ContentAssumption ==
  /\ Files \in [Release -> [Path -> Digest \cup {Nothing}]]
  /\ \A r \in Release : Files[r][Lexicon] # Nothing
  /\ Nothing \notin Proc \cup Version \cup Release \cup Directory \cup Pointer1 \cup Command
  /\ Schema2 \notin Pointer1 \cup {Nothing}
  /\ Bad \notin Release \cup Digest \cup {Nothing}
-----------------------------------------------------------------------------
(* verify_component: the artifact is there and hashes to what the manifest *)
(* says.  Counts and schema checks are functions of that content.          *)
Damaged(dir, r) == {p \in Wanted(r) : dir.files[p] # Files[r][p]}

(* _verify_path: the manifest is byte for byte the release's, and every    *)
(* component it lists verifies.                                            *)
Intact(dir, r) == dir.manifest = r /\ Damaged(dir, r) = {}

Installed(v) == dirs[v] # Nothing

(* A version's directory as install leaves it. *)
Complete(r) == [manifest |-> r, files |-> Files[r]]

(* _current_version: a schema 2 pointer has no "version", and raises. *)
Current == IF pointer \in {Nothing, Schema2} THEN Nothing ELSE pointer.version
CurrentRaises == pointer = Schema2

(* active_version: what a command without a version acts on. *)
ActiveVersion ==
  IF pointer \in {Nothing, Schema2} THEN Nothing
  ELSE IF Installed(pointer.version) THEN pointer.version ELSE Nothing

(* What the server opens at start: the directory and the edition that the  *)
(* pointer names, with its lexical database.  Digests are not compared.    *)
Loads ==
  /\ pointer \notin {Nothing, Schema2}
  /\ Installed(pointer.version)
  /\ LET dir == dirs[pointer.version] IN
       /\ dir.manifest # Bad
       /\ VersionOf[dir.manifest] = pointer.version
       /\ ProfileOf[dir.manifest] = ProfileOf[pointer.release]
       /\ dir.files[Lexicon] # Nothing

Init ==
  /\ dirs = [v \in Version |-> Nothing]
  /\ pointer = Nothing
  /\ lock = Nothing
  /\ leftovers = {}
  /\ damage = FALSE
  /\ faults = 0
  /\ pc = [p \in Proc |-> "idle"]
  /\ op = [p \in Proc |-> Nothing]
  /\ todo = [p \in Proc |-> {}]

root == <<dirs, pointer, leftovers>>

(* The command of p returns, raises or dies, and its lock goes with it. *)
Leave(p) ==
  /\ pc' = [pc EXCEPT ![p] = "idle"]
  /\ op' = [op EXCEPT ![p] = Nothing]
  /\ todo' = [todo EXCEPT ![p] = {}]
  /\ lock' = IF lock = p THEN Nothing ELSE lock

Start(p, c) ==
  /\ pc[p] = "idle"
  /\ pc' = [pc EXCEPT ![p] = "lock"]
  /\ op' = [op EXCEPT ![p] = c]
  /\ UNCHANGED <<root, lock, damage, faults, todo>>

(* install: _match_request ties the version asked for to the manifest's. *)
StartInstall(p) ==
  \E r \in Sources :
    Start(p, [name |-> "install", version |-> VersionOf[r], release |-> r,
              previous |-> Nothing])

StartRepair(p) ==
  \E v \in Version \cup {Nothing}, r \in Sources \cup {Nothing} :
    Start(p, [name |-> "repair", version |-> v, release |-> r, previous |-> Nothing])

StartRollback(p) ==
  \E v \in Version \cup {Nothing} :
    Start(p, [name |-> "rollback", version |-> v, release |-> Nothing,
              previous |-> Nothing])

Acquire(p) ==
  /\ pc[p] = "lock"
  /\ lock = Nothing
  /\ lock' = p
  /\ pc' = [pc EXCEPT ![p] = op[p].name]
  /\ UNCHANGED <<root, damage, faults, op, todo>>

Goto(p, step, c, files) ==
  /\ pc' = [pc EXCEPT ![p] = step]
  /\ op' = [op EXCEPT ![p] = c]
  /\ todo' = [todo EXCEPT ![p] = files]
  /\ UNCHANGED <<root, lock, damage, faults>>
-----------------------------------------------------------------------------
(* install, under the lock: a version that is there is verified and        *)
(* activated, another is built in a staging directory beside it.           *)
InstallPresent(p) ==
  LET c == op[p] IN
  /\ pc[p] = "install"
  /\ Installed(c.version)
  /\ Intact(dirs[c.version], c.release)
  /\ ~CurrentRaises
  /\ IF Current = c.version
     THEN Leave(p) /\ UNCHANGED <<root, damage, faults>>
     ELSE Goto(p, "activate", [c EXCEPT !.previous = Current], {})

InstallStage(p) ==
  /\ pc[p] = "install"
  /\ ~Installed(op[p].version)
  /\ Goto(p, "stage", op[p], Wanted(op[p].release))

(* One component downloaded, assembled, unpacked and verified. *)
Materialize(p) ==
  /\ pc[p] = "stage"
  /\ \E f \in todo[p] : Goto(p, "stage", op[p], todo[p] \ {f})

(* Defect: the staging directory is renamed before it is complete. *)
PublishEarly(p) ==
  /\ pc[p] = "stage"
  /\ dirs' = [dirs EXCEPT ![op[p].version] =
       [manifest |-> op[p].release,
        files |-> [f \in Path |-> IF f \in todo[p] THEN Nothing ELSE Files[op[p].release][f]]]]
  /\ pc' = [pc EXCEPT ![p] = "published"]
  /\ UNCHANGED <<pointer, lock, leftovers, damage, faults, op, todo>>

(* The verified staging directory becomes the version, in one rename. *)
Publish(p) ==
  /\ pc[p] = "stage"
  /\ todo[p] = {}
  /\ dirs' = [dirs EXCEPT ![op[p].version] = Complete(op[p].release)]
  /\ pc' = [pc EXCEPT ![p] = "published"]
  /\ UNCHANGED <<pointer, lock, leftovers, damage, faults, op, todo>>

Published(p) ==
  /\ pc[p] = "published"
  /\ ~CurrentRaises
  /\ Goto(p, "activate", [op[p] EXCEPT !.previous = Current], {})

(* _activate: the pointer swap that ends install and rollback. *)
Activate(p) ==
  LET c == op[p] IN
  /\ pc[p] = "activate"
  /\ pointer' = [version |-> c.version, release |-> c.release,
                 previous |-> IF c.previous = c.version THEN Nothing ELSE c.previous]
  /\ Leave(p)
  /\ UNCHANGED <<dirs, leftovers, damage, faults>>
-----------------------------------------------------------------------------
(* repair, under the lock. *)

RepairVersion(c) == IF c.version = Nothing THEN ActiveVersion ELSE c.version

(* The manifest repaired to: the source's, or the installed one.           *)
RepairRelease(c) ==
  IF c.release # Nothing THEN c.release
  ELSE IF dirs[RepairVersion(c)].manifest = Bad THEN Nothing
       ELSE dirs[RepairVersion(c)].manifest

(* The active version is only repaired to the release that was activated. *)
RepairAllowed(c) ==
  LET v == RepairVersion(c) IN
  /\ v # Nothing /\ Installed(v)
  /\ RepairRelease(c) # Nothing
  /\ VersionOf[RepairRelease(c)] = v
  /\ pointer \notin {Nothing, Schema2} /\ pointer.version = v =>
       pointer.release = RepairRelease(c)

Diagnose(p) ==
  LET v == RepairVersion(op[p])
      r == RepairRelease(op[p])
  IN
  /\ pc[p] = "repair"
  /\ RepairAllowed(op[p])
  /\ IF Intact(dirs[v], r)
     THEN Leave(p) /\ UNCHANGED <<root, damage, faults>>
     ELSE Goto(p, "mend", [op[p] EXCEPT !.version = v, !.release = r],
               Damaged(dirs[v], r))

(* Defect: a component is taken off the list and not moved into place. *)
MendStaged(p) ==
  /\ pc[p] = "mend"
  /\ todo[p] # {}
  /\ \E f \in todo[p] : todo' = [todo EXCEPT ![p] = todo[p] \ {f}]
  /\ UNCHANGED <<dirs, pointer, lock, leftovers, damage, faults, pc, op>>

(* One damaged component is downloaded and moved over the installed one. *)
Mend(p) ==
  LET c == op[p] IN
  /\ pc[p] = "mend"
  /\ \E f \in todo[p] :
       /\ dirs' = [dirs EXCEPT ![c.version].files[f] = Files[c.release][f]]
       /\ todo' = [todo EXCEPT ![p] = todo[p] \ {f}]
  /\ UNCHANGED <<pointer, lock, leftovers, damage, faults, pc, op>>

(* The manifest is restored only after all repaired artifacts exist. *)
Mended(p) ==
  /\ pc[p] = "mend"
  /\ todo[p] = {}
  /\ dirs' = [dirs EXCEPT ![op[p].version].manifest = op[p].release]
  /\ Leave(p)
  /\ UNCHANGED <<pointer, leftovers, damage, faults>>
-----------------------------------------------------------------------------
(* rollback, under the lock. *)
RollbackVersion(c) ==
  IF c.version # Nothing THEN c.version
  ELSE IF pointer \in {Nothing, Schema2} THEN Nothing ELSE pointer.previous

(* Defect: the target of a rollback is not verified. *)
RollbackUnverified(c) ==
  LET v == RollbackVersion(c) IN
  /\ pointer \notin {Nothing, Schema2}
  /\ v \notin {Nothing, pointer.version}
  /\ Installed(v)
  /\ dirs[v].manifest # Bad

RollbackAllowed(c) ==
  LET v == RollbackVersion(c) IN
  /\ pointer \notin {Nothing, Schema2}
  /\ v \notin {Nothing, pointer.version}
  /\ Installed(v)
  /\ dirs[v].manifest # Bad
  /\ Intact(dirs[v], dirs[v].manifest)

Rollback(p) ==
  LET v == RollbackVersion(op[p]) IN
  /\ pc[p] = "rollback"
  /\ RollbackAllowed(op[p])
  /\ Goto(p, "activate", [op[p] EXCEPT !.version = v, !.release = dirs[v].manifest,
                                       !.previous = pointer.version], {})
-----------------------------------------------------------------------------
(* The errors the code raises, each where a step above is refused. *)
Refuse(p) ==
  /\ \/ pc[p] = "lock" /\ lock # Nothing
     \/ /\ pc[p] = "install"
        /\ Installed(op[p].version)
        /\ Intact(dirs[op[p].version], op[p].release) => CurrentRaises
     \/ pc[p] = "published" /\ CurrentRaises
     \/ pc[p] = "repair" /\ ~RepairAllowed(op[p])
     \/ pc[p] = "rollback" /\ ~RollbackAllowed(op[p])
  /\ Leave(p)
  /\ UNCHANGED <<root, damage, faults>>

(* A failed download, a full disk or another error, after which install    *)
(* and repair remove their staging directory; or a kill, which leaves it.  *)
Fail(p) ==
  /\ pc[p] # "idle"
  /\ faults < MaxFaults
  /\ faults' = faults + 1
  /\ leftovers' \in {leftovers} \cup
       (IF pc[p] \in {"stage", "mend"} THEN {leftovers \cup {op[p].release}} ELSE {})
  /\ Leave(p)
  /\ UNCHANGED <<dirs, pointer, damage>>

(* Damage at rest: a file of an installed version rots or is lost. *)
Damage ==
  /\ lock = Nothing
  /\ faults < MaxFaults
  /\ faults' = faults + 1
  /\ damage' = TRUE
  /\ \E v \in {u \in Version : Installed(u)} :
       \/ dirs' = [dirs EXCEPT ![v].manifest = Bad]
       \/ \E f \in Path : dirs[v].files[f] # Nothing /\ dirs' = [dirs EXCEPT ![v].files[f] = Bad]
  /\ UNCHANGED <<pointer, lock, leftovers, pc, op, todo>>

(* A schema 2 install takes the pointer over (ComponentLifecycle). *)
TakeOver ==
  /\ lock = Nothing
  /\ pointer' = Schema2
  /\ UNCHANGED <<dirs, lock, leftovers, damage, faults, pc, op, todo>>

Step(p) ==
  \/ Acquire(p) \/ Refuse(p)
  \/ InstallPresent(p) \/ InstallStage(p) \/ Materialize(p) \/ Publish(p)
  \/ Published(p) \/ Activate(p)
  \/ Diagnose(p) \/ Mend(p) \/ Mended(p) \/ Rollback(p)

Next ==
  \/ \E p \in Proc : StartInstall(p) \/ StartRepair(p) \/ StartRollback(p)
  \/ \E p \in Proc : Step(p) \/ Fail(p)
  \/ Damage \/ TakeOver

(* The active version is repaired from the release it was installed from.  *)
RepairActive(p) ==
  /\ pointer \notin {Nothing, Schema2}
  /\ Start(p, [name |-> "repair", version |-> Nothing, release |-> pointer.release,
               previous |-> Nothing])

(* A running command goes on; an owner who finds the active version damaged *)
(* keeps asking for a repair from its release.                             *)
Fairness == SF_vars(RepairActive(Owner)) /\ \A p \in Proc : WF_vars(Step(p))

Spec == Init /\ [][Next]_vars
FairSpec == Spec /\ Fairness
-----------------------------------------------------------------------------
TypeOK ==
  /\ dirs \in [Version -> Directory \cup {Nothing}]
  /\ pointer \in Pointer1 \cup {Nothing, Schema2}
  /\ lock \in Proc \cup {Nothing}
  /\ leftovers \subseteq Release
  /\ damage \in BOOLEAN
  /\ faults \in 0 .. MaxFaults
  /\ pc \in [Proc -> {"idle", "lock", "install", "stage", "published", "activate",
                      "repair", "mend", "rollback"}]
  /\ op \in [Proc -> Command \cup {Nothing}]
  /\ todo \in [Proc -> SUBSET Path]

(* Whatever was killed or refused in between, the version current.json     *)
(* names is installed, holds the release that was activated, and, as long  *)
(* as no file has been damaged, is complete: half an install or half a     *)
(* repair is never what the server opens.                                  *)
ActiveComplete ==
  pointer \notin {Nothing, Schema2} =>
    /\ Installed(pointer.version)
    /\ dirs[pointer.version].manifest \in {pointer.release, Bad}
    /\ ~damage => Intact(dirs[pointer.version], pointer.release) /\ Loads

(* The types of the variables, and what the pointer names.                 *)
VersionsSound == TypeOK /\ ActiveComplete

(* What a command may write.  The pointer never leaves schema 2 for schema *)
(* 1, which would undo a migration; a rollback moves it to a version that  *)
(* verifies, and can be taken back; and a damaged manifest comes back only *)
(* when all it lists is there, so that half a repair never looks finished. *)
RootMovesSafely ==
  [][ /\ pointer = Schema2 => pointer' = Schema2
      /\ \A p \in Proc :
           pc[p] = "activate" /\ op[p].name = "rollback" /\ pointer' # pointer =>
             /\ Intact(dirs[pointer'.version], pointer'.release)
             /\ pointer \notin {Nothing, Schema2} => pointer'.previous = pointer.version
      /\ \A v \in Version :
           (Installed(v) /\ dirs'[v].manifest # dirs[v].manifest /\ dirs'[v].manifest # Bad) =>
             Damaged(dirs'[v], dirs'[v].manifest) = {} ]_vars

(* A damaged active version is intact again in the end, once the other     *)
(* users leave the root alone, whatever repairs fail on the way.           *)
RepairHeals ==
  <>[](\A q \in Proc \ {Owner} : pc[q] = "idle") =>
    []<>(pointer \notin {Nothing, Schema2} => Intact(dirs[pointer.version], pointer.release))
-----------------------------------------------------------------------------
(* What keeps these invariant; the steps preserve IInv.                    *)

Named == pointer \notin {Nothing, Schema2}

(* A command past Acquire has the lock, so nothing is damaged and nobody   *)
(* takes the root over between its steps.                                  *)
LockHeld == \A p \in Proc : pc[p] \notin {"idle", "lock"} => lock = p

(* An installed manifest is in the directory of its version.               *)
InPlace == \A v \in Version :
  Installed(v) /\ dirs[v].manifest # Bad => VersionOf[dirs[v].manifest] = v

PointerKnown == Named => VersionOf[pointer.release] = pointer.version

(* What each command knows of its version, by the step it is at.           *)
Known(p) ==
  LET c == op[p] IN
  /\ pc[p] # "idle" => c \in Command
  /\ pc[p] \in {"install", "stage", "published", "activate"} \/ (pc[p] = "lock" /\ c.name = "install") =>
       c.release \in Release /\ VersionOf[c.release] = c.version
  /\ pc[p] \in {"install", "repair", "rollback"} => c.name = pc[p]
  /\ pc[p] = "stage" => ~Installed(c.version)
  /\ pc[p] \in {"published", "activate"} =>
       Installed(c.version) /\ Intact(dirs[c.version], c.release)
  /\ pc[p] \in {"stage", "published"} => c.name = "install"
  /\ pc[p] = "activate" =>
       /\ pointer # Schema2
       /\ c.name = "rollback" /\ Named => c.previous = pointer.version /\ c.previous # c.version
  /\ pc[p] = "mend" =>
       /\ c.release \in Release /\ VersionOf[c.release] = c.version
       /\ Installed(c.version) /\ Damaged(dirs[c.version], c.release) \subseteq todo[p]
       /\ Named /\ pointer.version = c.version => pointer.release = c.release

CommandsKnown == \A p \in Proc : Known(p)

IInv ==
  /\ VersionsSound
  /\ LockHeld
  /\ InPlace
  /\ PointerKnown
  /\ CommandsKnown
=============================================================================
