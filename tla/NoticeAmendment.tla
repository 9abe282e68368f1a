---------------------------- MODULE NoticeAmendment ----------------------------
(***************************************************************************)
(* pipeline/notice_amendment.py: the notices of a promoted corpus are      *)
(* replaced by those of a commit, and its manifest records that, by a      *)
(* transaction: a directory beside the corpus with the new notices, then   *)
(* the old ones, the old manifest and a journal.  A command recovers what  *)
(* an earlier one left before it does anything else.                       *)
(*                                                                         *)
(* The installation lock admits one command at a time; a kill releases it. *)
(* The checks of the corpus's artifacts either pass or raise (Raise).      *)
(***************************************************************************)
EXTENDS Naturals, Sequences

CONSTANTS
  Nothing,
  Torn,          \* a notices directory some of whose files are gone
  Version,       \* contents of the notices
  Commit,        \* commits of the repository
  NoticesOf,     \* commit -> its notices
  Reason,        \* reasons an operator gives
  First,         \* the notices the corpus was promoted with
  MaxAmendments, \* bound on recorded amendments
  MaxFaults,     \* bound on kills and exceptions
  MaxChanges     \* bound on changes of the repository

ASSUME AmendmentAssumption ==
  /\ NoticesOf \in [Commit -> Version]
  /\ First \in Version
  /\ Torn \notin Version /\ Nothing \notin Version /\ Torn # Nothing
  /\ MaxAmendments \in Nat /\ MaxFaults \in Nat /\ MaxChanges \in Nat

VARIABLES
  notices,   \* <dataset>/notices
  manifest,  \* notice_amendments in build-manifest.json
  tx,        \* <dataset>.notice-amendment.transaction, a tree of files
  partial,   \* the same with .partial: the tree while it is prepared
  pc, job,   \* the running command
  repo,      \* the repository: its HEAD and the notices in its work tree
  done,      \* the commits whose command has returned
  faults, changes

dataset == <<notices, manifest>>
vars == <<dataset, tx, partial, pc, job, repo, done, faults, changes>>

Amendment == [commit : Commit, reason : Reason, old : Version, new : Version]
Trail == UNION {[1 .. n -> Amendment] : n \in 0 .. MaxAmendments}
Journal == [state : {"prepared", "old_notices_moved", "new_notices_activated", "committed"},
            record : Amendment, original : Trail, final : Trail \cup {Nothing}]

Tree == [journal : Journal \cup {Nothing}, backup : Trail \cup {Nothing},
         new : Version \cup {Nothing}, old : Version \cup {Nothing}]

NoFiles == [journal |-> Nothing, backup |-> Nothing, new |-> Nothing, old |-> Nothing]

ASSUME NothingAssumption == Nothing \notin Journal /\ Nothing \notin Trail /\ Nothing \notin Tree

Decided(tree) == tree.journal # Nothing /\ tree.journal.state = "committed"

Init ==
  /\ notices = First
  /\ manifest = <<>>
  /\ tx = Nothing
  /\ partial = Nothing
  /\ pc = "idle"
  /\ job = Nothing
  /\ repo \in {[head |-> c, tree |-> NoticesOf[c]] : c \in Commit}
  /\ done = {}
  /\ faults = 0
  /\ changes = 0

Goto(step) == pc' = step /\ UNCHANGED <<job, repo, done, faults, changes>>

End == pc' = "idle" /\ job' = Nothing /\ UNCHANGED <<repo, faults, changes>>
-----------------------------------------------------------------------------
Start(c, r) ==
  /\ pc = "idle"
  /\ pc' = "recover"
  /\ job' = [commit |-> c, reason |-> r, new |-> Nothing, raising |-> FALSE]
  /\ UNCHANGED <<dataset, tx, partial, repo, done, faults, changes>>

(* _recover_notice_transaction: a tree that was being prepared goes.       *)
DropPartial ==
  /\ pc = "recover"
  /\ partial # Nothing
  /\ partial' = Nothing
  /\ Goto("recover")
  /\ UNCHANGED <<dataset, tx>>

Recovering == pc = "recover" /\ partial = Nothing

(* A command goes on to its checks; one that was recovering from its own   *)
(* exception raises it.                                                    *)
Recovered ==
  IF job.raising THEN End /\ UNCHANGED done ELSE Goto("check")

NoTransaction ==
  /\ Recovering
  /\ tx = Nothing
  /\ Recovered
  /\ UNCHANGED <<dataset, tx, partial>>

(* Defect: a transaction without a journal is an error, whatever it holds. *)
NoJournalRefused ==
  /\ Recovering
  /\ tx # Nothing
  /\ tx.journal = Nothing
  /\ End /\ UNCHANGED <<done, dataset, tx, partial>>

(* Without a journal there must be no file: a cleanup was interrupted.     *)
NoJournal ==
  /\ Recovering
  /\ tx # Nothing
  /\ tx.journal = Nothing
  /\ UNCHANGED <<dataset, partial>>
  /\ IF tx = NoFiles
     THEN tx' = Nothing /\ Recovered
     ELSE End /\ UNCHANGED <<done, tx>>

(* Defect: a transaction is rolled back whatever its journal says. *)
RollForwardNot ==
  /\ Recovering
  /\ tx # Nothing
  /\ Decided(tx)
  /\ UNCHANGED <<dataset, tx, partial>>
  /\ IF tx.backup # Nothing THEN Goto("rewrite") ELSE End /\ UNCHANGED done

RollForward ==
  /\ Recovering
  /\ tx # Nothing
  /\ Decided(tx)
  /\ UNCHANGED <<dataset, tx, partial>>
  /\ IF notices = tx.journal.record.new /\ manifest = tx.journal.final
     THEN Goto("clean")
     ELSE End /\ UNCHANGED done

Undecided == Recovering /\ tx # Nothing /\ tx.journal # Nothing /\ ~Decided(tx)

(* The backup of the manifest, and the old notices either where they were  *)
(* moved to or in their place.                                             *)
BackupsHold(tree) ==
  /\ tree.backup # Nothing
  /\ tree.backup = tree.journal.original
  /\ IF tree.old # Nothing THEN tree.old = tree.journal.record.old
                           ELSE notices = tree.journal.record.old

RollBack ==
  /\ Undecided
  /\ UNCHANGED <<dataset, tx, partial>>
  /\ IF BackupsHold(tx)
     THEN Goto(IF tx.old = Nothing THEN "rewrite" ELSE "restore")
     ELSE End /\ UNCHANGED done

(* _remove_notice_tree, file by file. *)
RemoveNotices ==
  /\ pc = "restore"
  /\ notices # Nothing
  /\ notices' = IF notices = Torn THEN Nothing ELSE Torn
  /\ Goto("restore")
  /\ UNCHANGED <<manifest, tx, partial>>

RestoreOld ==
  /\ pc = "restore"
  /\ notices = Nothing
  /\ notices' = tx.old
  /\ tx' = [tx EXCEPT !.old = Nothing]
  /\ Goto("rewrite")
  /\ UNCHANGED <<manifest, partial>>

(* Defect: the notices are restored and the manifest is not. *)
RewriteNothing ==
  /\ pc = "rewrite"
  /\ Goto("clean")
  /\ UNCHANGED <<dataset, tx, partial>>

RewriteManifest ==
  /\ pc = "rewrite"
  /\ manifest' = tx.backup
  /\ Goto("clean")
  /\ UNCHANGED <<notices, tx, partial>>
-----------------------------------------------------------------------------
(* _remove_transaction_tree: the files in the order of their names, the    *)
(* journal last, then the directories.                                     *)
CleanUp ==
  /\ pc = "clean"
  /\ tx # NoFiles
  /\ tx' = IF tx.backup # Nothing THEN [tx EXCEPT !.backup = Nothing]
           ELSE IF tx.new # Nothing THEN [tx EXCEPT !.new = Nothing]
           ELSE IF tx.old # Nothing THEN [tx EXCEPT !.old = Nothing]
           ELSE NoFiles
  /\ Goto("clean")
  /\ UNCHANGED <<dataset, partial>>

(* The command that committed returns; one that recovered goes on.         *)
CleanedUp ==
  /\ pc = "clean"
  /\ tx = NoFiles
  /\ tx' = Nothing
  /\ IF job.new # Nothing /\ ~job.raising
     THEN End /\ done' = done \cup {job.commit}
     ELSE Recovered
  /\ UNCHANGED <<dataset, partial>>
-----------------------------------------------------------------------------
Clean(c) == repo.head = c /\ repo.tree = NoticesOf[c]

RecordsOf(c) == {i \in DOMAIN manifest : manifest[i].commit = c}

(* A commit that is recorded already, as the repository and the corpus     *)
(* have it now, is done.                                                   *)
Recorded ==
  /\ Clean(job.commit)
  /\ \E i \in RecordsOf(job.commit) :
       /\ manifest[i].reason = job.reason
       /\ manifest[i].new = repo.tree
  /\ notices = repo.tree

AlreadyRecorded ==
  /\ pc = "check"
  /\ Recorded
  /\ End
  /\ done' = done \cup {job.commit}
  /\ UNCHANGED <<dataset, tx, partial>>

Allowed ==
  /\ Clean(job.commit)
  /\ notices \in Version
  /\ RecordsOf(job.commit) = {}
  /\ notices # repo.tree
  /\ Len(manifest) < MaxAmendments

Prepare ==
  /\ pc = "check"
  /\ Allowed
  /\ partial' = NoFiles
  /\ pc' = "stage"
  /\ job' = [job EXCEPT !.new = repo.tree]
  /\ UNCHANGED <<dataset, tx, repo, done, faults, changes>>

Refuse ==
  /\ pc = "check"
  /\ ~Allowed
  /\ ~Recorded
  /\ End
  /\ UNCHANGED <<dataset, tx, partial, done>>

(* _copy_notices; an unequal copy is an exception (Raise). *)
StageNotices ==
  /\ pc = "stage"
  /\ repo.tree = job.new
  /\ partial' = [partial EXCEPT !.new = repo.tree]
  /\ Goto("backup")
  /\ UNCHANGED <<dataset, tx>>

BackUpManifest ==
  /\ pc = "backup"
  /\ partial' = [partial EXCEPT !.backup = manifest]
  /\ Goto("journal")
  /\ UNCHANGED <<dataset, tx>>

Record == [commit |-> job.commit, reason |-> job.reason, old |-> notices, new |-> job.new]

WriteJournal ==
  /\ pc = "journal"
  /\ partial' = [partial EXCEPT !.journal =
       [state |-> "prepared", record |-> Record, original |-> manifest, final |-> Nothing]]
  /\ Goto("open")
  /\ UNCHANGED <<dataset, tx>>

(* The repository is checked once more before the tree gets its name.      *)
OpenTransaction ==
  /\ pc = "open"
  /\ Clean(job.commit)
  /\ repo.tree = job.new
  /\ tx' = partial
  /\ partial' = Nothing
  /\ Goto("take")
  /\ UNCHANGED dataset

(* Defect: the old notices are removed instead of being moved aside. *)
TakeOldRemoved ==
  /\ pc = "take"
  /\ notices' = Nothing
  /\ UNCHANGED tx
  /\ Goto("taken")
  /\ UNCHANGED <<manifest, partial>>

TakeOld ==
  /\ pc = "take"
  /\ tx' = [tx EXCEPT !.old = notices]
  /\ notices' = Nothing
  /\ Goto("taken")
  /\ UNCHANGED <<manifest, partial>>

JournalStep(at, state, next) ==
  /\ pc = at
  /\ tx' = [tx EXCEPT !.journal.state = state]
  /\ Goto(next)
  /\ UNCHANGED <<dataset, partial>>

PutNew ==
  /\ pc = "put"
  /\ notices' = tx.new
  /\ tx' = [tx EXCEPT !.new = Nothing]
  /\ Goto("placed")
  /\ UNCHANGED <<manifest, partial>>

WriteManifest ==
  /\ pc = "manifest"
  /\ manifest' = Append(manifest, tx.journal.record)
  /\ Goto("commit")
  /\ UNCHANGED <<notices, tx, partial>>

CommitJournal ==
  /\ pc = "commit"
  /\ notices = job.new
  /\ tx' = [tx EXCEPT !.journal = [@ EXCEPT !.state = "committed", !.final = manifest]]
  /\ Goto("clean")
  /\ UNCHANGED <<dataset, partial>>
-----------------------------------------------------------------------------
InTransaction == {"stage", "backup", "journal", "open", "take", "taken", "put", "placed",
                  "manifest", "commit"}

(* An exception, among them a repository that has changed meanwhile: what  *)
(* was begun is recovered by the same process, which then raises.          *)
Raise ==
  /\ pc \in InTransaction \/ (pc = "clean" /\ job.new # Nothing /\ ~job.raising)
  /\ IF (pc = "stage" /\ repo.tree # job.new) \/ (pc = "open" /\ ~Clean(job.commit))
     THEN UNCHANGED faults
     ELSE faults < MaxFaults /\ faults' = faults + 1
  /\ pc' = "recover"
  /\ job' = [job EXCEPT !.raising = TRUE]
  /\ UNCHANGED <<dataset, tx, partial, repo, done, changes>>

Kill ==
  /\ pc # "idle"
  /\ faults < MaxFaults
  /\ faults' = faults + 1
  /\ pc' = "idle"
  /\ job' = Nothing
  /\ UNCHANGED <<dataset, tx, partial, repo, done, changes>>

(* Somebody checks out another commit or edits a notice. *)
ChangeRepository ==
  /\ changes < MaxChanges
  /\ changes' = changes + 1
  /\ \E c \in Commit, v \in Version : repo' = [head |-> c, tree |-> v]
  /\ repo' # repo
  /\ UNCHANGED <<dataset, tx, partial, pc, job, done, faults>>

Recover ==
  \/ DropPartial \/ NoTransaction \/ NoJournal \/ RollForward \/ RollBack
  \/ RemoveNotices \/ RestoreOld \/ RewriteManifest

Amend ==
  \/ AlreadyRecorded \/ Prepare \/ Refuse \/ StageNotices \/ BackUpManifest \/ WriteJournal
  \/ OpenTransaction \/ TakeOld \/ JournalStep("taken", "old_notices_moved", "put")
  \/ PutNew \/ JournalStep("placed", "new_notices_activated", "manifest")
  \/ WriteManifest \/ CommitJournal

Step == Recover \/ Amend \/ CleanUp \/ CleanedUp \/ Raise

Next ==
  \/ \E c \in Commit, r \in Reason : Start(c, r)
  \/ Step \/ Kill \/ ChangeRepository

(* A command that runs goes on, and while there is a transaction somebody  *)
(* runs the command again.                                                 *)
Fairness ==
  /\ WF_vars(Step)
  /\ WF_vars(tx # Nothing /\ \E c \in Commit, r \in Reason : Start(c, r))

Spec == Init /\ [][Next]_vars
FairSpec == Spec /\ Fairness
-----------------------------------------------------------------------------
TypeOK ==
  /\ notices \in Version \cup {Nothing, Torn}
  /\ manifest \in Trail
  /\ tx \in Tree \cup {Nothing}
  /\ pc \in InTransaction \cup {"idle", "recover", "restore", "rewrite", "clean", "check"}
  /\ repo \in [head : Commit, tree : Version]
  /\ done \subseteq Commit

Latest(trail) == IF trail = <<>> THEN First ELSE trail[Len(trail)].new

Chained(trail) ==
  \A i \in DOMAIN trail :
    trail[i].old = Latest(SubSeq(trail, 1, i - 1)) /\ trail[i].new # trail[i].old

Settled == notices = Latest(manifest) /\ Chained(manifest)

(* Whenever there is no transaction the notices are those the last record  *)
(* of the manifest names, and every record starts where the one before it  *)
(* ended: all of an amendment has happened or nothing of it.               *)
AllOrNothing == tx = Nothing => Settled

(* Until an amendment is decided, the notices and the manifest it replaces *)
(* are on the disk, whole, in one place or another.                        *)
NothingLost ==
  tx # Nothing /\ tx.journal # Nothing /\ ~Decided(tx) =>
    /\ tx.journal.record.old \in {notices, tx.old}
    /\ tx.journal.original \in {manifest, tx.backup}

(* An amendment that was reported stays recorded.                          *)
AmendedForGood == \A c \in done : RecordsOf(c) # {}

(* The types of the variables, what is on the disk and what was reported.  *)
AmendmentSound == TypeOK /\ NothingLost /\ AmendedForGood

(* Once the journal says committed, no recovery takes anything back.       *)
DecisionStands == [][tx # Nothing /\ Decided(tx) => UNCHANGED dataset]_vars

(* A cleanup that was interrupted after a rollback, before its journal     *)
(* went, and after the backup of the manifest did.                         *)
Stranded == tx # Nothing /\ tx.journal # Nothing /\ ~Decided(tx) /\ tx.backup = Nothing

(* Every transaction is finished by those who run the command again,       *)
(* except one whose rollback died in its cleanup.                          *)
ResolvedOrStranded == tx # Nothing ~> (tx = Nothing \/ Stranded)
-----------------------------------------------------------------------------
(* What keeps these invariant; the steps preserve IInv.                    *)

Pending == tx # Nothing /\ tx.journal # Nothing /\ ~Decided(tx)

Names(trail, c) == \E i \in DOMAIN trail : trail[i].commit = c

(* A journal's record continues the trail it was written for, and nothing  *)
(* that was reported is undone with it.                                    *)
Continues(j) ==
  /\ Chained(j.original) /\ Len(j.original) < MaxAmendments
  /\ j.record.old = Latest(j.original) /\ j.record.new # j.record.old
  /\ \A c \in done : Names(j.original, c)

(* What a transaction on the disk says of the dataset beside it, whoever   *)
(* left it there.                                                          *)
OnDisk ==
  /\ tx # Nothing /\ tx.journal = Nothing => tx = NoFiles /\ Settled
  /\ tx # Nothing /\ tx.journal # Nothing /\ Decided(tx) =>
       notices = tx.journal.record.new /\ manifest = tx.journal.final /\ Settled
  /\ Pending =>
       /\ Continues(tx.journal)
       /\ manifest \in {tx.journal.original, Append(tx.journal.original, tx.journal.record)}
       /\ IF tx.old = Nothing THEN notices = tx.journal.record.old
                              ELSE tx.old = tx.journal.record.old
       /\ IF tx.backup = Nothing THEN manifest = tx.journal.original /\ tx.old = Nothing
                                 ELSE tx.backup = tx.journal.original

Job == [commit : Commit, reason : Reason, new : Version \cup {Nothing}, raising : BOOLEAN]

JobKnown ==
  /\ pc # "idle" => job \in Job
  /\ pc \in InTransaction => job.new \in Version /\ ~job.raising
  /\ pc \in {"recover", "restore", "rewrite"} => job.raising \/ job.new = Nothing
  /\ pc = "check" => ~job.raising /\ job.new = Nothing

(* The tree while it is prepared: nothing of the dataset has moved yet.    *)
Preparing ==
  pc \in {"stage", "backup", "journal", "open"} =>
    /\ notices # job.new /\ Len(manifest) < MaxAmendments
    /\ partial =
         [new     |-> IF pc = "stage" THEN Nothing ELSE job.new,
          backup  |-> IF pc \in {"stage", "backup"} THEN Nothing ELSE manifest,
          journal |-> IF pc # "open" THEN Nothing
                      ELSE [state |-> "prepared", record |-> Record, original |-> manifest,
                            final |-> Nothing],
          old     |-> Nothing]

(* The command that moves the notices and the manifest, step by step.      *)
Moving ==
  pc \in {"take", "taken", "put", "placed", "manifest", "commit"} =>
    /\ Pending
    /\ tx.backup # Nothing
    /\ tx.journal.record.commit = job.commit /\ tx.journal.record.new = job.new
    /\ tx.old = Nothing <=> pc = "take"
    /\ pc \in {"take", "taken", "put"} => tx.new = job.new
    /\ pc \in {"placed", "manifest", "commit"} => notices = job.new
    /\ manifest = IF pc = "commit" THEN Append(tx.journal.original, tx.journal.record)
                  ELSE tx.journal.original

(* What a recovery or a cleanup is at.                                     *)
Undoing ==
  /\ pc \in {"check", "stage", "backup", "journal", "open"} => tx = Nothing
  /\ pc = "restore" => Pending /\ tx.old # Nothing /\ tx.backup # Nothing
  /\ pc = "rewrite" => Pending /\ tx.old = Nothing /\ tx.backup # Nothing
  /\ pc = "clean" =>
       /\ tx # Nothing
       /\ Pending => manifest = tx.journal.original /\ tx.old = Nothing
       /\ job.new # Nothing /\ ~job.raising => ~Pending /\ Names(manifest, job.commit)

IInv ==
  /\ AmendmentSound
  /\ AllOrNothing
  /\ OnDisk
  /\ JobKnown
  /\ Preparing
  /\ Moving
  /\ Undoing
=============================================================================
