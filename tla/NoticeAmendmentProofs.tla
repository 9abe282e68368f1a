------------------------- MODULE NoticeAmendmentProofs -------------------------
(***************************************************************************)
(* The safety of notice amendments, for every repository and corpus and    *)
(* any number of amendments, kills and exceptions.                         *)
(***************************************************************************)
EXTENDS NoticeAmendment, SequenceTheorems, TLAPS

-----------------------------------------------------------------------------
(* Trails of amendments. *)
LEMMA TrailSeq ==
  ASSUME NEW trail
  PROVE  trail \in Trail <=> trail \in Seq(Amendment) /\ Len(trail) <= MaxAmendments
<1>1. ASSUME NEW n \in 0 .. MaxAmendments, trail \in [1 .. n -> Amendment]
      PROVE  trail \in Seq(Amendment) /\ Len(trail) = n
  <2>1. n \in Nat
    BY AmendmentAssumption
  <2>2. QED
    BY <1>1, <2>1
<1>2. ASSUME trail \in Seq(Amendment), Len(trail) <= MaxAmendments
      PROVE  Len(trail) \in 0 .. MaxAmendments /\ trail \in [1 .. Len(trail) -> Amendment]
  BY <1>2, AmendmentAssumption
<1>3. QED
  BY <1>1, <1>2, AmendmentAssumption DEF Trail

LEMMA Extended ==
  ASSUME NEW trail \in Seq(Amendment), NEW r \in Amendment
  PROVE  /\ Append(trail, r) \in Seq(Amendment) /\ Len(Append(trail, r)) = Len(trail) + 1
         /\ Append(trail, r) # trail
         /\ Append(trail, r)[Len(trail) + 1] = r
         /\ \A i \in 1 .. Len(trail) : Append(trail, r)[i] = trail[i]
<1>1. QED
  OBVIOUS

LEMMA LatestExtended ==
  ASSUME NEW trail \in Seq(Amendment), NEW r \in Amendment
  PROVE  Latest(Append(trail, r)) = r.new
<1>1. Len(Append(trail, r)) = Len(trail) + 1 /\ Len(trail) \in Nat /\ Len(<<>>) = 0
  OBVIOUS
<1>2. Append(trail, r) # <<>>
  BY <1>1
<1>3. QED
  BY <1>1, <1>2, Extended DEF Latest

LEMMA LatestIsNotices ==
  ASSUME NEW trail \in Seq(Amendment)
  PROVE  Latest(trail) \in Version
<1>1. CASE trail = <<>>
  BY <1>1, AmendmentAssumption DEF Latest
<1>2. CASE trail # <<>>
  <2>1. trail[Len(trail)] \in Amendment
    BY <1>2
  <2>2. QED
    BY <1>2, <2>1 DEF Latest, Amendment
<1>3. QED
  BY <1>1, <1>2

LEMMA PrefixOfExtended ==
  ASSUME NEW trail \in Seq(Amendment), NEW r \in Amendment, NEW i \in 1 .. Len(trail) + 1
  PROVE  SubSeq(Append(trail, r), 1, i - 1) = SubSeq(trail, 1, i - 1)
<1>1. /\ SubSeq(trail, 1, i - 1) \in Seq(Amendment)
      /\ SubSeq(Append(trail, r), 1, i - 1) \in Seq(Amendment)
  BY Extended
<1>2. Len(SubSeq(trail, 1, i - 1)) = i - 1 /\ Len(SubSeq(Append(trail, r), 1, i - 1)) = i - 1
  BY Extended
<1>3. \A k \in 1 .. i - 1 : SubSeq(Append(trail, r), 1, i - 1)[k] = SubSeq(trail, 1, i - 1)[k]
  BY Extended
<1>4. QED
  BY <1>1, <1>2, <1>3, SeqEqual

LEMMA ChainedExtended ==
  ASSUME NEW trail \in Seq(Amendment), NEW r \in Amendment, Chained(trail),
         r.old = Latest(trail), r.new # r.old
  PROVE  Chained(Append(trail, r))
<1> DEFINE longer == Append(trail, r)
<1>1. DOMAIN longer = 1 .. Len(trail) + 1 /\ DOMAIN trail = 1 .. Len(trail) /\ Len(trail) \in Nat
  BY Extended
<1>2. \A i \in 1 .. Len(trail) + 1 : SubSeq(longer, 1, i - 1) = SubSeq(trail, 1, i - 1)
  BY PrefixOfExtended
<1>3. ASSUME NEW i \in 1 .. Len(trail)
      PROVE  longer[i].old = Latest(SubSeq(longer, 1, i - 1)) /\ longer[i].new # longer[i].old
  <2>1. longer[i] = trail[i] /\ SubSeq(longer, 1, i - 1) = SubSeq(trail, 1, i - 1)
    BY <1>1, <1>2, Extended
  <2>2. QED
    BY <1>1, <2>1 DEF Chained
<1>4. SubSeq(longer, 1, Len(trail)) = trail
  <2>1. SubSeq(longer, 1, Len(trail)) = SubSeq(trail, 1, Len(trail))
    BY <1>1, <1>2
  <2>2. SubSeq(trail, 1, Len(trail)) \in Seq(Amendment)
    OBVIOUS
  <2>3. QED
    BY <2>1, <2>2, SeqEqual
<1>5. longer[Len(trail) + 1] = r
  BY Extended
<1> HIDE DEF longer
<1>6. ASSUME NEW i \in DOMAIN longer
      PROVE  longer[i].old = Latest(SubSeq(longer, 1, i - 1)) /\ longer[i].new # longer[i].old
  <2>1. i \in 1 .. Len(trail) \/ i = Len(trail) + 1
    BY <1>1
  <2>2. Len(trail) + 1 - 1 = Len(trail)
    BY <1>1
  <2>3. ASSUME i = Len(trail) + 1
        PROVE  longer[i].old = Latest(SubSeq(longer, 1, i - 1)) /\ longer[i].new # longer[i].old
    <3>1. i - 1 = Len(trail)
      BY <2>2, <2>3
    <3>2. longer[i] = r /\ SubSeq(longer, 1, i - 1) = trail
      BY <1>4, <1>5, <2>3, <3>1
    <3>3. QED
      BY <3>2
  <2>4. QED
    BY <1>3, <2>1, <2>3
<1>7. Chained(longer)
  BY <1>6 DEF Chained
<1>8. QED
  BY <1>7 DEF longer

LEMMA NamesExtended ==
  ASSUME NEW trail \in Seq(Amendment), NEW r \in Amendment, NEW c
  PROVE  Names(Append(trail, r), c) <=> Names(trail, c) \/ c = r.commit
<1>1. /\ DOMAIN Append(trail, r) = 1 .. Len(trail) + 1 /\ DOMAIN trail = 1 .. Len(trail)
      /\ Len(trail) \in Nat
  BY Extended
<1>2. \A i \in 1 .. Len(trail) + 1 : i \in 1 .. Len(trail) \/ i = Len(trail) + 1
  BY <1>1
<1>3. QED
  BY <1>1, <1>2, Extended DEF Names
-----------------------------------------------------------------------------
(* IInv in two parts: what is on the disk, and where the command is.       *)
Disk ==
  /\ notices \in Version \cup {Nothing, Torn} /\ manifest \in Trail
  /\ tx \in Tree \cup {Nothing} /\ done \subseteq Commit
  /\ AmendedForGood /\ AllOrNothing /\ OnDisk

Steps == InTransaction \cup {"idle", "recover", "restore", "rewrite", "clean", "check"}

At == pc \in Steps /\ JobKnown /\ Preparing /\ Moving /\ Undoing

RepoTyped == repo \in [head : Commit, tree : Version]

USE DEF dataset

LEMMA Parts == IInv <=> Disk /\ At /\ RepoTyped
<1>1. Disk => NothingLost
  BY DEF Disk, OnDisk, Pending, NothingLost
<1>2. QED
  BY <1>1 DEF IInv, AmendmentSound, TypeOK, Disk, At, Steps, RepoTyped

LEMMA PartsPrimed == Disk' /\ At' /\ RepoTyped' => IInv'
BY Parts, PTL

LEMMA RecordsNamed == \A c : RecordsOf(c) # {} <=> Names(manifest, c)
BY DEF RecordsOf, Names

LEMMA DiskFrame ==
  ASSUME Disk, UNCHANGED <<dataset, tx, done>>
  PROVE  Disk'
<1>1. \A c : RecordsOf(c)' = RecordsOf(c)
  BY DEF RecordsOf
<1>2. QED
  BY <1>1 DEF Disk, AmendedForGood, AllOrNothing, Settled, OnDisk, Pending, Decided, Continues

LEMMA PendingTyped ==
  ASSUME Disk, Pending
  PROVE  /\ tx \in Tree /\ tx.journal \in Journal
         /\ tx.journal.original \in Seq(Amendment) /\ tx.journal.record \in Amendment
         /\ tx.journal.original \in Trail
         /\ Append(tx.journal.original, tx.journal.record) \in Trail
         /\ tx.journal.record.old \in Version /\ tx.journal.record.new \in Version
         /\ tx.journal.record.old # tx.journal.record.new
<1>1. tx \in Tree /\ tx.journal \in Journal
  BY DEF Disk, Pending, Tree
<1>2. tx.journal.original \in Trail /\ tx.journal.record \in Amendment
  BY <1>1 DEF Journal
<1>3. tx.journal.original \in Seq(Amendment)
  BY <1>2, TrailSeq
<1>4. Len(tx.journal.original) < MaxAmendments /\ tx.journal.record.new # tx.journal.record.old
  BY DEF Disk, OnDisk, Continues
<1>5. Append(tx.journal.original, tx.journal.record) \in Trail
  <2> DEFINE o == tx.journal.original
             r == tx.journal.record
  <2>1. Append(o, r) \in Seq(Amendment) /\ Len(Append(o, r)) = Len(o) + 1 /\ Len(o) \in Nat
    BY <1>2, <1>3
  <2>2. Len(Append(o, r)) <= MaxAmendments
    BY <1>4, <2>1, AmendmentAssumption
  <2> HIDE DEF o, r
  <2>3. Append(o, r) \in Trail
    BY <2>1, <2>2, TrailSeq
  <2>4. QED
    BY <2>3 DEF o, r
<1>6. QED
  BY <1>1, <1>2, <1>3, <1>4, <1>5 DEF Amendment

(* The dataset as a pending transaction may have it.                       *)
LEMMA PendingDisk ==
  ASSUME Disk, Pending, done' = done, tx' \in Tree, tx'.journal \in Journal,
         tx'.journal.original = tx.journal.original, tx'.journal.record = tx.journal.record,
         tx'.journal.state # "committed",
         notices' \in Version \cup {Nothing, Torn},
         manifest' \in {tx.journal.original, Append(tx.journal.original, tx.journal.record)},
         IF tx'.old = Nothing THEN notices' = tx.journal.record.old
                              ELSE tx'.old = tx.journal.record.old,
         IF tx'.backup = Nothing THEN manifest' = tx.journal.original /\ tx'.old = Nothing
                                 ELSE tx'.backup = tx.journal.original
  PROVE  Disk' /\ Pending'
<1>1. tx' # Nothing /\ tx'.journal # Nothing /\ ~Decided(tx)' /\ Pending'
  BY NothingAssumption DEF Pending, Decided
<1>2. Continues(tx.journal)'
  BY DEF Disk, OnDisk, Continues
<1>3. manifest' \in Trail
  BY PendingTyped
<1>4. ASSUME NEW c \in done PROVE Names(manifest', c)
  <2>1. Names(tx.journal.original, c)
    BY <1>4 DEF Disk, OnDisk, Continues
  <2>2. Names(Append(tx.journal.original, tx.journal.record), c)
    BY <2>1, PendingTyped, NamesExtended
  <2>3. QED
    BY <2>1, <2>2
<1>5. AmendedForGood'
  BY <1>4 DEF AmendedForGood, RecordsOf, Names
<1>6. OnDisk' /\ AllOrNothing'
  BY <1>1, <1>2 DEF OnDisk, AllOrNothing
<1>7. QED
  BY <1>1, <1>3, <1>5, <1>6 DEF Disk

(* The dataset beside no transaction, or one that is decided or over.      *)
LEMMA SettledDisk ==
  ASSUME Disk, Settled, UNCHANGED dataset, tx' \in Tree \cup {Nothing},
         done' \subseteq Commit, \A c \in done' : Names(manifest, c),
         \/ tx' \in {Nothing, NoFiles}
         \/ /\ tx'.journal # Nothing /\ tx'.journal.state = "committed"
            /\ notices = tx'.journal.record.new /\ manifest = tx'.journal.final
  PROVE  Disk' /\ ~Pending'
<1>1. ~Pending'
  BY DEF Pending, Decided, NoFiles
<1>2. Settled'
  BY DEF Settled
<1>3. AmendedForGood'
  BY DEF AmendedForGood, RecordsOf, Names
<1>4. OnDisk' /\ AllOrNothing'
  BY <1>1, <1>2 DEF OnDisk, AllOrNothing, Decided, NoFiles
<1>5. QED
  BY <1>1, <1>3, <1>4 DEF Disk

LEMMA StateWritten ==
  ASSUME NEW tree \in Tree, tree.journal \in Journal,
         NEW s \in {"prepared", "old_notices_moved", "new_notices_activated", "committed"},
         NEW written, written = [tree EXCEPT !.journal.state = s]
  PROVE  /\ written \in Tree /\ written.journal \in Journal
         /\ written.journal.state = s
         /\ written.journal.original = tree.journal.original
         /\ written.journal.record = tree.journal.record
         /\ written.new = tree.new /\ written.old = tree.old /\ written.backup = tree.backup
<1> DEFINE j == [state |-> s, record |-> tree.journal.record, original |-> tree.journal.original,
                 final |-> tree.journal.final]
<1>1. j \in Journal
  BY DEF Journal
<1>2. written = [journal |-> j, backup |-> tree.backup, new |-> tree.new, old |-> tree.old]
  BY DEF Tree, Journal
<1>3. QED
  BY <1>1, <1>2 DEF Tree
-----------------------------------------------------------------------------
(* The steps that move the notices and the manifest of the dataset.        *)
LEMMA OpenStep ==
  ASSUME Disk, At, OpenTransaction
  PROVE  Disk' /\ At'
<1>1. /\ pc = "open" /\ tx = Nothing /\ notices # job.new /\ Len(manifest) < MaxAmendments
      /\ job \in Job /\ job.new \in Version /\ ~job.raising
      /\ partial = [new |-> job.new, backup |-> manifest,
                    journal |-> [state |-> "prepared", record |-> Record, original |-> manifest,
                                 final |-> Nothing],
                    old |-> Nothing]
  BY DEF OpenTransaction, At, Undoing, Preparing, JobKnown, InTransaction
<1>2. /\ tx' = partial /\ pc' = "take" /\ UNCHANGED <<dataset, job, done>>
  BY DEF OpenTransaction, Goto
<1>3. Settled /\ manifest \in Trail /\ manifest \in Seq(Amendment)
  BY <1>1, TrailSeq DEF Disk, AllOrNothing
<1>4. notices \in Version
  BY <1>3, LatestIsNotices DEF Settled
<1>5. Record \in Amendment /\ Record.old = notices /\ Record.new = job.new
        /\ Record.commit = job.commit
  BY <1>1, <1>4 DEF Record, Amendment, Job
<1>6. /\ tx' \in Tree /\ tx'.journal \in Journal /\ tx'.journal.record = Record
      /\ tx'.journal.original = manifest /\ tx'.journal.state = "prepared"
      /\ tx'.old = Nothing /\ tx'.backup = manifest /\ tx'.new = job.new
  BY <1>1, <1>2, <1>3, <1>5 DEF Tree, Journal
<1>7. Pending'
  BY <1>6, NothingAssumption DEF Pending, Decided
<1>8. Continues(tx.journal)'
  BY <1>1, <1>2, <1>3, <1>5, <1>6, RecordsNamed DEF Continues, Settled, Disk, AmendedForGood
<1>9. OnDisk' /\ AllOrNothing' /\ AmendedForGood'
  BY <1>2, <1>5, <1>6, <1>7, <1>8
  DEF OnDisk, AllOrNothing, Pending, Decided, Disk, AmendedForGood, RecordsOf
<1>10. manifest # Nothing
  BY <1>3, NothingAssumption
<1>11. At'
  BY <1>1, <1>2, <1>5, <1>6, <1>7, <1>10
  DEF At, Steps, InTransaction, JobKnown, Preparing, Moving, Undoing, Job
<1>12. QED
  BY <1>2, <1>6, <1>9, <1>11 DEF Disk

LEMMA MovingFacts ==
  ASSUME Disk, At, pc \in {"take", "taken", "put", "placed", "manifest", "commit"}
  PROVE  /\ Pending /\ tx.backup = tx.journal.original /\ tx.backup # Nothing
         /\ tx.journal.record.commit = job.commit /\ tx.journal.record.new = job.new
         /\ tx.old = Nothing <=> pc = "take"
         /\ tx.old # Nothing => tx.old = tx.journal.record.old
         /\ tx.old = Nothing => notices = tx.journal.record.old
         /\ pc \in {"take", "taken", "put"} => tx.new = job.new
         /\ pc \in {"placed", "manifest", "commit"} => notices = job.new
         /\ manifest = IF pc = "commit" THEN Append(tx.journal.original, tx.journal.record)
                       ELSE tx.journal.original
         /\ job \in Job /\ job.new \in Version /\ ~job.raising
         /\ tx.journal.state # "committed"
BY DEF Disk, At, OnDisk, Moving, JobKnown, InTransaction, Pending, Decided

LEMMA MoveStep ==
  ASSUME Disk, At,
         \/ TakeOld \/ PutNew \/ WriteManifest
         \/ JournalStep("taken", "old_notices_moved", "put")
         \/ JournalStep("placed", "new_notices_activated", "manifest")
  PROVE  Disk' /\ At'
<1> DEFINE o == tx.journal.original
           r == tx.journal.record
<1>1. /\ pc \in {"take", "taken", "put", "placed", "manifest"} /\ UNCHANGED <<job, done>>
      /\ pc' \in {"taken", "put", "placed", "manifest", "commit"}
  BY DEF TakeOld, PutNew, WriteManifest, JournalStep, Goto
<1>2. /\ Pending /\ tx.backup = o /\ tx.backup # Nothing
      /\ r.commit = job.commit /\ r.new = job.new
      /\ tx.old = Nothing <=> pc = "take"
      /\ tx.old # Nothing => tx.old = r.old
      /\ tx.old = Nothing => notices = r.old
      /\ pc \in {"take", "taken", "put"} => tx.new = job.new
      /\ pc \in {"placed", "manifest"} => notices = job.new
      /\ manifest = o
      /\ job \in Job /\ job.new \in Version /\ ~job.raising
      /\ tx.journal.state # "committed"
  BY <1>1, MovingFacts
<1>3. /\ tx \in Tree /\ tx.journal \in Journal /\ r.old \in Version
      /\ r.old # Nothing
  BY <1>2, PendingTyped, AmendmentAssumption
<1>4. /\ tx' \in Tree /\ tx'.journal \in Journal /\ tx'.journal.original = o
      /\ tx'.journal.record = r /\ tx'.journal.state # "committed" /\ tx'.backup = o
      /\ tx'.old = IF pc = "take" THEN notices ELSE tx.old
      /\ tx'.new = IF pc = "put" THEN Nothing ELSE tx.new
      /\ notices' = IF pc = "take" THEN Nothing ELSE IF pc = "put" THEN tx.new ELSE notices
      /\ manifest' = IF pc = "manifest" THEN Append(o, r) ELSE o
      /\ pc' = IF pc = "take" THEN "taken" ELSE IF pc = "taken" THEN "put" ELSE
               IF pc = "put" THEN "placed" ELSE IF pc = "placed" THEN "manifest" ELSE "commit"
  <2>1. CASE TakeOld
    BY <1>2, <1>3, <2>1 DEF TakeOld, Goto, Tree
  <2>2. CASE PutNew
    BY <1>2, <1>3, <2>2 DEF PutNew, Goto, Tree
  <2>3. CASE WriteManifest
    BY <1>2, <1>3, <2>3 DEF WriteManifest, Goto
  <2>4. ASSUME JournalStep("taken", "old_notices_moved", "put")
               \/ JournalStep("placed", "new_notices_activated", "manifest")
        PROVE  \E s \in {"old_notices_moved", "new_notices_activated"} :
                 tx' = [tx EXCEPT !.journal.state = s]
    BY <2>4 DEF JournalStep
  <2>5. CASE JournalStep("taken", "old_notices_moved", "put")
             \/ JournalStep("placed", "new_notices_activated", "manifest")
    <3>1. PICK s \in {"old_notices_moved", "new_notices_activated"} :
            tx' = [tx EXCEPT !.journal.state = s]
      BY <2>4, <2>5
    <3>2. /\ tx' \in Tree /\ tx'.journal \in Journal /\ tx'.journal.original = o
          /\ tx'.journal.record = r /\ tx'.journal.state = s /\ tx'.backup = tx.backup
          /\ tx'.old = tx.old /\ tx'.new = tx.new
      BY <1>3, <3>1, StateWritten
    <3>3. QED
      BY <1>2, <2>5, <3>2 DEF JournalStep, Goto
  <2>6. QED
    BY <2>1, <2>2, <2>3, <2>5
<1> HIDE DEF o, r
<1>5. Disk' /\ Pending'
  <2>1. notices' \in Version \cup {Nothing, Torn}
    BY <1>2, <1>3, <1>4 DEF Disk
  <2>2. manifest' \in {o, Append(o, r)}
    BY <1>4
  <2>3. IF tx'.old = Nothing THEN notices' = r.old ELSE tx'.old = r.old
    BY <1>2, <1>3, <1>4
  <2>4. tx'.backup # Nothing
    BY <1>2, <1>4
  <2>5. QED
    BY <1>1, <1>2, <1>4, <2>1, <2>2, <2>3, <2>4, PendingDisk DEF o, r
<1>6. At'
  BY <1>1, <1>2, <1>3, <1>4, <1>5
  DEF At, Steps, InTransaction, JobKnown, Preparing, Moving, Undoing, Job, o, r
<1>7. QED
  BY <1>5, <1>6

LEMMA CommitStep ==
  ASSUME Disk, At, CommitJournal
  PROVE  Disk' /\ At'
<1> DEFINE o == tx.journal.original
           r == tx.journal.record
<1>1. /\ pc = "commit" /\ pc' = "clean" /\ UNCHANGED <<job, done, notices, manifest>>
      /\ tx' = [tx EXCEPT !.journal = [@ EXCEPT !.state = "committed", !.final = manifest]]
  BY DEF CommitJournal, Goto
<1>2. /\ Pending /\ r.commit = job.commit /\ r.new = job.new /\ notices = job.new
      /\ manifest = Append(o, r) /\ job \in Job
  BY <1>1, MovingFacts
<1>3. /\ tx \in Tree /\ tx.journal \in Journal /\ o \in Seq(Amendment) /\ r \in Amendment
      /\ manifest \in Trail
  BY <1>2, PendingTyped
<1>4. /\ tx' \in Tree /\ tx'.journal \in Journal /\ tx'.journal.state = "committed"
      /\ tx'.journal.final = manifest /\ tx'.journal.record = r
  <2>1. tx \in Tree /\ tx.journal \in Journal /\ manifest \in Trail
    BY <1>3
  <2> DEFINE j == [tx.journal EXCEPT !.state = "committed", !.final = manifest]
  <2>2. tx' = [tx EXCEPT !.journal = j]
    BY <1>1
  <2>3. /\ j \in Journal /\ j.state = "committed" /\ j.final = manifest
        /\ j.record = tx.journal.record
    BY <2>1 DEF Journal
  <2> HIDE DEF j
  <2>4. QED
    BY <2>1, <2>2, <2>3 DEF Tree
<1>5. Continues(tx.journal)
  BY <1>2 DEF Disk, OnDisk
<1>6. Chained(manifest) /\ Latest(manifest) = r.new
  BY <1>2, <1>3, <1>5, ChainedExtended, LatestExtended DEF Continues
<1>7. Names(manifest, job.commit) /\ \A c \in done : Names(manifest, c)
  BY <1>2, <1>3, <1>5, NamesExtended DEF Continues
<1>8. tx'.journal # Nothing /\ tx' # Nothing
  BY <1>4, NothingAssumption
<1>9. Disk' /\ ~Pending'
  <2>1. Settled
    BY <1>2, <1>6 DEF Settled
  <2>2. done' \subseteq Commit /\ \A c \in done' : Names(manifest, c)
    BY <1>1, <1>7 DEF Disk
  <2>3. QED
    BY <1>1, <1>2, <1>4, <1>8, <2>1, <2>2, SettledDisk
<1> HIDE DEF o, r
<1>10. Names(manifest, job.commit)'
  BY <1>1, <1>7 DEF Names
<1>11. At'
  BY <1>1, <1>2, <1>8, <1>9, <1>10
  DEF At, Steps, InTransaction, JobKnown, Preparing, Moving, Undoing
<1>12. QED
  BY <1>9, <1>11
-----------------------------------------------------------------------------
(* The steps that take a pending transaction back.                         *)
LEMMA UndoStep ==
  ASSUME Disk, At, RemoveNotices \/ RestoreOld \/ RewriteManifest
  PROVE  Disk' /\ At'
<1> DEFINE o == tx.journal.original
           r == tx.journal.record
<1>1. /\ pc \in {"restore", "rewrite"} /\ UNCHANGED <<job, done, partial>>
      /\ pc' \in {"restore", "rewrite", "clean"}
  BY DEF RemoveNotices, RestoreOld, RewriteManifest, Goto
<1>2. /\ Pending /\ tx.backup # Nothing
      /\ tx.old # Nothing <=> pc = "restore"
      /\ job \in Job /\ (job.raising \/ job.new = Nothing)
  BY <1>1 DEF At, Undoing, JobKnown
<1>3. /\ tx \in Tree /\ tx.journal \in Journal /\ r.old \in Version /\ r.old # Nothing
      /\ tx.journal.state # "committed" /\ tx # Nothing
  BY <1>2, PendingTyped, AmendmentAssumption DEF Pending, Decided
<1>4. /\ tx.backup = o /\ manifest \in {o, Append(o, r)}
      /\ tx.old # Nothing => tx.old = r.old
      /\ tx.old = Nothing => notices = r.old
      /\ notices \in Version \cup {Nothing, Torn}
  BY <1>2 DEF Disk, OnDisk
<1>5. /\ tx' \in Tree /\ tx'.journal \in Journal /\ tx'.journal.original = o
      /\ tx'.journal.record = r /\ tx'.journal.state # "committed" /\ tx'.backup = o
      /\ manifest' \in {o, Append(o, r)} /\ notices' \in Version \cup {Nothing, Torn}
      /\ IF tx'.old = Nothing THEN notices' = r.old ELSE tx'.old = r.old
      /\ pc' = "restore" => tx'.old # Nothing
      /\ pc' = "rewrite" => tx'.old = Nothing
      /\ pc' = "clean" => tx'.old = Nothing /\ manifest' = o
  <2>1. CASE RemoveNotices
    BY <1>2, <1>3, <1>4, <2>1 DEF RemoveNotices, Goto
  <2>2. CASE RestoreOld
    BY <1>2, <1>3, <1>4, <2>2 DEF RestoreOld, Goto, Tree
  <2>3. CASE RewriteManifest
    BY <1>2, <1>3, <1>4, <2>3 DEF RewriteManifest, Goto
  <2>4. QED
    BY <2>1, <2>2, <2>3
<1>6. o # Nothing
  BY <1>2, <1>4
<1> HIDE DEF o, r
<1>7. Disk' /\ Pending'
  BY <1>1, <1>2, <1>5, <1>6, PendingDisk DEF o, r
<1>8. tx' # Nothing /\ tx'.backup # Nothing
  BY <1>5, <1>6, NothingAssumption
<1>9. At'
  BY <1>1, <1>2, <1>5, <1>7, <1>8
  DEF At, Steps, InTransaction, JobKnown, Preparing, Moving, Undoing, o, r
<1>10. QED
  BY <1>7, <1>9

(* A cleanup removes what a transaction that is over still holds.          *)
LEMMA CleanUpStep ==
  ASSUME Disk, At, CleanUp
  PROVE  Disk' /\ At'
<1>1. /\ pc = "clean" /\ pc' = "clean" /\ tx # NoFiles /\ tx # Nothing
      /\ UNCHANGED <<job, done, partial, notices, manifest>>
      /\ Pending => manifest = tx.journal.original /\ tx.old = Nothing
      /\ job.new # Nothing /\ ~job.raising => ~Pending /\ Names(manifest, job.commit)
      /\ job \in Job
  BY DEF CleanUp, Goto, At, Undoing, JobKnown
<1>2. tx \in Tree /\ NoFiles \in Tree
  BY <1>1, AmendmentAssumption DEF Disk, Tree, NoFiles
<1>3. /\ tx' \in Tree /\ tx' # Nothing
      /\ \/ tx' = NoFiles
         \/ tx'.journal = tx.journal /\ (tx.old = Nothing => tx'.old = Nothing)
            /\ tx'.backup = Nothing
  BY <1>1, <1>2, NothingAssumption DEF CleanUp, Tree
<1>4. Pending /\ tx' # NoFiles => Disk' /\ Pending'
  <2> SUFFICES ASSUME Pending, tx' # NoFiles
               PROVE  Disk' /\ Pending'
    OBVIOUS
  <2>1. /\ tx.journal \in Journal /\ tx.journal.state # "committed"
        /\ notices = tx.journal.record.old /\ manifest = tx.journal.original
    BY <1>1, PendingTyped DEF Pending, Decided, Disk, OnDisk
  <2>2. tx'.journal = tx.journal /\ tx'.old = Nothing /\ tx'.backup = Nothing
    BY <1>1, <1>3
  <2>3. notices' \in Version \cup {Nothing, Torn}
    BY <1>1 DEF Disk
  <2>4. QED
    BY <1>1, <1>3, <2>1, <2>2, <2>3, PendingDisk
<1>5. Settled
  <2>1. CASE Pending
    BY <1>1, <2>1 DEF Disk, OnDisk, Settled, Continues
  <2>2. CASE ~Pending
    BY <1>1, <2>2 DEF Disk, OnDisk, Pending
  <2>3. QED
    BY <2>1, <2>2
<1>6. ~Pending \/ tx' = NoFiles => Disk' /\ ~Pending'
  <2> SUFFICES ASSUME ~Pending \/ tx' = NoFiles
               PROVE  Disk' /\ ~Pending'
    OBVIOUS
  <2>1. done' \subseteq Commit /\ \A c \in done' : Names(manifest, c)
    BY <1>1, RecordsNamed DEF Disk, AmendedForGood
  <2>2. \/ tx' \in {Nothing, NoFiles}
        \/ /\ tx'.journal # Nothing /\ tx'.journal.state = "committed"
           /\ notices = tx'.journal.record.new /\ manifest = tx'.journal.final
    BY <1>1, <1>3 DEF Pending, Decided, Disk, OnDisk
  <2>3. QED
    BY <1>1, <1>3, <1>5, <2>1, <2>2, SettledDisk
<1>7. Disk' /\ (Pending' => Pending /\ tx'.journal = tx.journal /\ tx'.old = Nothing)
  BY <1>1, <1>3, <1>4, <1>6
<1>8. Names(manifest, job.commit) => Names(manifest, job.commit)'
  BY <1>1 DEF Names
<1>9. At'
  BY <1>1, <1>3, <1>7, <1>8
  DEF At, Steps, InTransaction, JobKnown, Preparing, Moving, Undoing
<1>10. QED
  BY <1>7, <1>9
-----------------------------------------------------------------------------
(* The steps that leave the dataset and the transaction as they are, or    *)
(* end with no transaction.                                                *)
LEMMA AtIdle ==
  ASSUME pc' = "idle"
  PROVE  At'
BY DEF At, Steps, InTransaction, JobKnown, Preparing, Moving, Undoing

LEMMA AtRecover ==
  ASSUME pc' = "recover", job' \in Job, job'.raising \/ job'.new = Nothing
  PROVE  At'
BY DEF At, Steps, InTransaction, JobKnown, Preparing, Moving, Undoing

LEMMA AtCheck ==
  ASSUME pc' = "check", job' \in Job, ~job'.raising, job'.new = Nothing, tx' = Nothing
  PROVE  At'
BY DEF At, Steps, InTransaction, JobKnown, Preparing, Moving, Undoing

LEMMA RecoveredAt ==
  ASSUME Recovered, job \in Job, job.raising \/ job.new = Nothing, tx' = Nothing
  PROVE  At' /\ done' = done
<1>1. CASE job.raising
  BY <1>1, AtIdle DEF Recovered, End
<1>2. CASE ~job.raising
  BY <1>2, AtCheck DEF Recovered, Goto
<1>3. QED
  BY <1>1, <1>2

LEMMA NoJournalStep ==
  ASSUME Disk, At, NoJournal
  PROVE  Disk' /\ At'
<1>1. /\ tx # Nothing /\ tx.journal = Nothing /\ UNCHANGED dataset
      /\ job \in Job /\ (job.raising \/ job.new = Nothing)
  BY DEF NoJournal, Recovering, At, JobKnown
<1>2. CASE tx = NoFiles
  <2>1. tx' = Nothing /\ Recovered
    BY <1>2 DEF NoJournal
  <2>2. At' /\ done' = done
    BY <1>1, <2>1, RecoveredAt
  <2>3. Settled
    BY <1>1 DEF Disk, OnDisk
  <2>4. done' \subseteq Commit /\ \A c \in done' : Names(manifest, c)
    BY <2>2, RecordsNamed DEF Disk, AmendedForGood
  <2>5. QED
    BY <1>1, <2>1, <2>2, <2>3, <2>4, SettledDisk
<1>3. CASE tx # NoFiles
  <2>1. pc' = "idle" /\ UNCHANGED <<tx, done>>
    BY <1>3 DEF NoJournal, End
  <2>2. QED
    BY <1>1, <2>1, AtIdle, DiskFrame
<1>4. QED
  BY <1>2, <1>3

LEMMA CleanedUpStep ==
  ASSUME Disk, At, CleanedUp
  PROVE  Disk' /\ At'
<1>1. /\ pc = "clean" /\ tx = NoFiles /\ tx' = Nothing /\ UNCHANGED dataset /\ tx # Nothing
      /\ job \in Job
      /\ job.new # Nothing /\ ~job.raising => Names(manifest, job.commit)
  BY DEF CleanedUp, At, Undoing, JobKnown
<1>2. Settled
  BY <1>1 DEF Disk, OnDisk, NoFiles
<1>3. \A c \in done : Names(manifest, c)
  BY RecordsNamed DEF Disk, AmendedForGood
<1>4. /\ At' /\ done' \subseteq Commit
      /\ \A c \in done' : Names(manifest, c)
  <2>1. CASE job.new # Nothing /\ ~job.raising
    <3>1. pc' = "idle" /\ done' = done \cup {job.commit}
      BY <2>1 DEF CleanedUp, End
    <3>2. QED
      BY <1>1, <1>3, <2>1, <3>1, AtIdle DEF Job, Disk
  <2>2. CASE ~(job.new # Nothing /\ ~job.raising)
    <3>1. Recovered
      BY <2>2 DEF CleanedUp
    <3>2. At' /\ done' = done
      BY <1>1, <2>2, <3>1, RecoveredAt
    <3>3. QED
      BY <1>3, <3>2 DEF Disk
  <2>3. QED
    BY <2>1, <2>2
<1>5. Disk'
  BY <1>1, <1>2, <1>4, SettledDisk
<1>6. QED
  BY <1>4, <1>5

LEMMA AlreadyRecordedStep ==
  ASSUME Disk, At, AlreadyRecorded
  PROVE  Disk' /\ At'
<1>1. /\ pc = "check" /\ pc' = "idle" /\ UNCHANGED <<dataset, tx>> /\ job \in Job
      /\ done' = done \cup {job.commit} /\ RecordsOf(job.commit) # {} /\ tx = Nothing
  BY DEF AlreadyRecorded, End, Recorded, At, Undoing, JobKnown
<1>2. Settled /\ done' \subseteq Commit
  BY <1>1 DEF Disk, AllOrNothing, Job
<1>3. \A c \in done' : Names(manifest, c)
  BY <1>1, RecordsNamed DEF Disk, AmendedForGood
<1>4. QED
  BY <1>1, <1>2, <1>3, AtIdle, SettledDisk

(* A recovery decides which way to go; nothing has moved yet.              *)
LEMMA DecideStep ==
  ASSUME Disk, At, RollForward \/ RollBack
  PROVE  Disk' /\ At'
<1>1. /\ pc = "recover" /\ tx # Nothing /\ tx.journal # Nothing
      /\ UNCHANGED <<dataset, tx, partial, done>>
      /\ job \in Job /\ (job.raising \/ job.new = Nothing)
  BY DEF RollForward, RollBack, Recovering, Undecided, Decided, Goto, End, At, JobKnown
<1>2. Disk'
  BY <1>1, DiskFrame
<1>3. Pending' = Pending
  BY <1>1 DEF Pending, Decided
<1>4. CASE pc' = "idle"
  BY <1>2, <1>4, AtIdle
<1>5. CASE RollForward /\ pc' # "idle"
  <2>1. pc' = "clean" /\ job' = job /\ ~Pending
    BY <1>5 DEF RollForward, Goto, End, Pending
  <2>2. At'
    BY <1>1, <1>3, <2>1
    DEF At, Steps, InTransaction, JobKnown, Preparing, Moving, Undoing
  <2>3. QED
    BY <1>2, <2>2
<1>6. CASE RollBack /\ pc' # "idle"
  <2>1. /\ pc' = IF tx.old = Nothing THEN "rewrite" ELSE "restore"
        /\ job' = job /\ Pending /\ tx.backup # Nothing
    BY <1>1, <1>6 DEF RollBack, Goto, End, Undecided, BackupsHold, Pending
  <2>2. At'
    BY <1>1, <1>3, <2>1
    DEF At, Steps, InTransaction, JobKnown, Preparing, Moving, Undoing
  <2>3. QED
    BY <1>2, <2>2
<1>7. QED
  BY <1>4, <1>5, <1>6

(* The tree of a new transaction is prepared beside the dataset.           *)
LEMMA PrepareStep ==
  ASSUME Disk, At, RepoTyped, Prepare \/ StageNotices \/ BackUpManifest \/ WriteJournal
  PROVE  Disk' /\ At'
<1>1. UNCHANGED <<notices, manifest, tx, done>> /\ repo.tree \in Version /\ repo.tree # Nothing
  BY AmendmentAssumption
  DEF Prepare, StageNotices, BackUpManifest, WriteJournal, Goto, RepoTyped
<1>2. CASE Prepare
  <2>1. /\ pc = "check" /\ pc' = "stage" /\ job \in Job /\ ~job.raising /\ tx = Nothing
        /\ notices # repo.tree /\ Len(manifest) < MaxAmendments /\ partial' = NoFiles
        /\ job' = [job EXCEPT !.new = repo.tree]
    BY <1>2 DEF Prepare, Allowed, At, JobKnown, Undoing
  <2>2. job' \in Job /\ job'.new = repo.tree /\ ~job'.raising
    BY <1>1, <2>1 DEF Job
  <2>3. At'
    BY <1>1, <2>1, <2>2
    DEF At, Steps, InTransaction, JobKnown, Preparing, Moving, Undoing, NoFiles
  <2>4. QED
    BY <1>1, <2>3, DiskFrame
<1>3. CASE StageNotices \/ BackUpManifest \/ WriteJournal
  <2>1. /\ pc \in {"stage", "backup", "journal"} /\ job' = job
        /\ pc' = IF pc = "stage" THEN "backup" ELSE IF pc = "backup" THEN "journal" ELSE "open"
    BY <1>3 DEF StageNotices, BackUpManifest, WriteJournal, Goto
  <2>2. /\ tx = Nothing /\ job \in Job /\ job.new \in Version /\ ~job.raising
        /\ notices # job.new /\ Len(manifest) < MaxAmendments
        /\ partial =
             [new     |-> IF pc = "stage" THEN Nothing ELSE job.new,
              backup  |-> IF pc \in {"stage", "backup"} THEN Nothing ELSE manifest,
              journal |-> IF pc # "open" THEN Nothing
                          ELSE [state |-> "prepared", record |-> Record, original |-> manifest,
                                final |-> Nothing],
              old     |-> Nothing]
    BY <2>1 DEF At, Undoing, JobKnown, InTransaction, Preparing
  <2>3. Record' = Record
    BY <1>1, <2>1 DEF Record
  <2>4. partial' =
          [new     |-> job.new,
           backup  |-> IF pc' = "backup" THEN Nothing ELSE manifest,
           journal |-> IF pc' # "open" THEN Nothing
                       ELSE [state |-> "prepared", record |-> Record, original |-> manifest,
                             final |-> Nothing],
           old     |-> Nothing]
    <3>1. CASE StageNotices
      BY <2>1, <2>2, <3>1 DEF StageNotices, Goto
    <3>2. CASE BackUpManifest
      BY <2>1, <2>2, <3>2 DEF BackUpManifest, Goto
    <3>3. CASE WriteJournal
      BY <2>1, <2>2, <3>3 DEF WriteJournal, Goto
    <3>4. QED
      BY <1>3, <3>1, <3>2, <3>3
  <2>5. Preparing'
    BY <1>1, <2>1, <2>2, <2>3, <2>4 DEF Preparing
  <2>6. At'
    BY <1>1, <2>1, <2>2, <2>5
    DEF At, Steps, InTransaction, JobKnown, Moving, Undoing
  <2>7. QED
    BY <1>1, <2>6, DiskFrame
<1>4. QED
  BY <1>2, <1>3

LEMMA QuietStep ==
  ASSUME Disk, At,
         \/ \E c \in Commit, r \in Reason : Start(c, r)
         \/ DropPartial \/ NoTransaction \/ Refuse \/ Raise \/ Kill
  PROVE  Disk' /\ At'
<1>1. CASE \E c \in Commit, r \in Reason : Start(c, r)
  <2>1. PICK c \in Commit, r \in Reason : Start(c, r)
    BY <1>1
  <2>2. pc' = "recover" /\ job' \in Job /\ job'.new = Nothing
    BY <2>1 DEF Start, Job
  <2>3. QED
    BY <2>1, <2>2, AtRecover, DiskFrame DEF Start
<1>2. CASE DropPartial
  <2>1. /\ pc' = "recover" /\ job' = job /\ job \in Job /\ (job.raising \/ job.new = Nothing)
        /\ UNCHANGED <<dataset, tx, done>>
    BY <1>2 DEF DropPartial, Goto, At, JobKnown
  <2>2. QED
    BY <2>1, AtRecover, DiskFrame
<1>3. CASE NoTransaction
  <2>1. /\ Recovered /\ job \in Job /\ (job.raising \/ job.new = Nothing) /\ tx' = Nothing
        /\ UNCHANGED <<dataset, tx>>
    BY <1>3 DEF NoTransaction, Recovering, At, JobKnown
  <2>2. At' /\ done' = done
    BY <2>1, RecoveredAt
  <2>3. QED
    BY <2>1, <2>2, DiskFrame
<1>4. CASE Refuse \/ Kill
  BY <1>4, AtIdle, DiskFrame DEF Refuse, Kill, End
<1>5. CASE Raise
  <2>1. /\ pc' = "recover" /\ job' = [job EXCEPT !.raising = TRUE] /\ job \in Job
        /\ UNCHANGED <<dataset, tx, done>>
    BY <1>5 DEF Raise, At, JobKnown, InTransaction
  <2>2. job' \in Job /\ job'.raising
    BY <2>1 DEF Job
  <2>3. QED
    BY <2>1, <2>2, AtRecover, DiskFrame
<1>6. QED
  BY <1>1, <1>2, <1>3, <1>4, <1>5

LEMMA SameState ==
  ASSUME Disk, At, UNCHANGED <<dataset, tx, partial, pc, job, done>>
  PROVE  Disk' /\ At'
<1>1. Pending' = Pending /\ Record' = Record
  BY DEF Pending, Decided, Record
<1>2. \A c : Names(manifest, c)' = Names(manifest, c)
  BY DEF Names
<1>3. JobKnown' /\ Preparing' /\ Moving'
  BY <1>1 DEF At, JobKnown, Preparing, Moving
<1>4. Undoing'
  BY <1>1, <1>2 DEF At, Undoing, Names
<1>5. QED
  BY <1>3, <1>4, DiskFrame DEF At
-----------------------------------------------------------------------------
LEMMA InitIInv == Init => IInv
<1> SUFFICES ASSUME Init
             PROVE  IInv
  OBVIOUS
<1>1. /\ notices = First /\ manifest = <<>> /\ tx = Nothing /\ pc = "idle" /\ done = {}
  BY DEF Init
<1>2. <<>> \in Trail
  <2>1. <<>> \in Seq(Amendment) /\ Len(<<>>) = 0
    OBVIOUS
  <2>2. 0 <= MaxAmendments
    BY AmendmentAssumption
  <2>3. QED
    BY <2>1, <2>2, TrailSeq
<1>3. AllOrNothing
  BY <1>1 DEF AllOrNothing, Settled, Latest, Chained
<1>4. Disk
  BY <1>1, <1>2, <1>3, AmendmentAssumption DEF Disk, AmendedForGood, OnDisk, Pending
<1>5. At
  BY <1>1 DEF At, Steps, InTransaction, JobKnown, Preparing, Moving, Undoing
<1>6. RepoTyped
  BY AmendmentAssumption DEF Init, RepoTyped
<1>7. QED
  BY <1>4, <1>5, <1>6, Parts

LEMMA NextIInv == IInv /\ [Next]_vars => IInv'
<1> SUFFICES ASSUME IInv, [Next]_vars
             PROVE  IInv'
  OBVIOUS
<1>1. Disk /\ At /\ RepoTyped
  BY Parts
<1>2. RepoTyped'
  <2>1. CASE ChangeRepository
    BY <2>1 DEF ChangeRepository, RepoTyped
  <2>2. CASE repo' = repo
    BY <1>1, <2>2 DEF RepoTyped
  <2>3. CASE UNCHANGED vars
    BY <1>1, <2>3 DEF RepoTyped, vars
  <2>4. CASE \E c \in Commit, r \in Reason : Start(c, r)
    BY <2>2, <2>4 DEF Start
  <2>5. CASE Kill \/ Raise
    BY <2>2, <2>5 DEF Kill, Raise
  <2>6. CASE CleanUp \/ CleanedUp \/ Recover
    BY <2>2, <2>6
    DEF CleanUp, CleanedUp, Recover, DropPartial, NoTransaction, NoJournal, RollForward, RollBack,
        RemoveNotices, RestoreOld, RewriteManifest, Recovered, Goto, End
  <2>7. CASE Amend
    BY <2>2, <2>7
    DEF Amend, AlreadyRecorded, Prepare, Refuse, StageNotices, BackUpManifest, WriteJournal,
        OpenTransaction, TakeOld, JournalStep, PutNew, WriteManifest, CommitJournal, Goto, End
  <2>8. QED
    BY <2>1, <2>3, <2>4, <2>5, <2>6, <2>7 DEF Next, Step
<1>3. Disk' /\ At'
  <2>1. CASE \/ \E c \in Commit, r \in Reason : Start(c, r)
             \/ Raise \/ Kill
    BY <1>1, <2>1, QuietStep
  <2>2. CASE Recover
    BY <1>1, <2>2, QuietStep, NoJournalStep, DecideStep, UndoStep DEF Recover
  <2>3. CASE Amend
    BY <1>1, <2>3, AlreadyRecordedStep, PrepareStep, QuietStep, OpenStep, MoveStep, CommitStep
    DEF Amend
  <2>4. CASE CleanUp \/ CleanedUp
    BY <1>1, <2>4, CleanUpStep, CleanedUpStep
  <2>5. CASE ChangeRepository \/ UNCHANGED vars
    BY <1>1, <2>5, SameState DEF ChangeRepository, vars
  <2>6. QED
    BY <2>1, <2>2, <2>3, <2>4, <2>5 DEF Next, Step
<1>4. QED
  BY <1>2, <1>3, PartsPrimed

(* What the amendments keep at every step, whoever is killed when: the     *)
(* trail of amendments on the disk, the journal beside it, and where the   *)
(* running command is, fit together (notice_amendment.py).                 *)
THEOREM AmendmentInvariant == Spec => []IInv
<1>1. QED
  BY InitIInv, NextIInv, PTL DEF Spec

(* No amendment loses notices: until one is decided, what it replaces is   *)
(* on the disk, and every amendment reported as done stays recorded.       *)
THEOREM AmendmentsAlwaysSound == Spec => []AmendmentSound
<1>1. IInv => AmendmentSound
  BY DEF IInv
<1>2. QED
  BY <1>1, AmendmentInvariant, PTL

(* Without a transaction on the disk, all of each amendment has happened   *)
(* or nothing of it: _recover_notice_transaction and the order of the      *)
(* steps that it takes back leave no half.                                 *)
THEOREM AmendmentsAllOrNothing == Spec => []AllOrNothing
<1>1. IInv => AllOrNothing
  BY DEF IInv
<1>2. QED
  BY <1>1, AmendmentInvariant, PTL

(* Once a journal says committed, no step of a recovery or of a command    *)
(* touches the notices or the manifest until the transaction is gone.      *)
THEOREM DecisionsStand == Spec => DecisionStands
<1>1. IInv /\ [Next]_vars => [tx # Nothing /\ Decided(tx) => UNCHANGED dataset]_vars
  <2> SUFFICES ASSUME IInv, Next, tx # Nothing, Decided(tx)
               PROVE  UNCHANGED dataset
    BY DEF vars
  <2>1. ~Pending /\ tx # Nothing
    BY DEF Pending
  <2>2. pc \notin {"restore", "rewrite", "take", "put", "manifest"}
    BY <2>1 DEF IInv, Moving, Undoing
  <2>3. QED
    BY <2>2
    DEF Next, Step, Start, Kill, ChangeRepository, Raise, CleanUp, CleanedUp, Recover, DropPartial,
        NoTransaction, NoJournal, RollForward, RollBack, RemoveNotices, RestoreOld,
        RewriteManifest, Amend, AlreadyRecorded, Prepare, Refuse, StageNotices, BackUpManifest,
        WriteJournal, OpenTransaction, TakeOld, JournalStep, PutNew, WriteManifest, CommitJournal
<1>2. QED
  BY <1>1, AmendmentInvariant, PTL DEF Spec, DecisionStands
=============================================================================
