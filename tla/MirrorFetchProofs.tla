--------------------------- MODULE MirrorFetchProofs ---------------------------
(***************************************************************************)
(* The safety of a release mirror for any processes, releases, part sizes, *)
(* retries and faults, in every behaviour in which no two fetches run at   *)
(* once ([]Alone).  A behaviour that meets this up to some state can stop  *)
(* there, so what is said of it holds until two fetches overlap; after     *)
(* that it is false, because they share the partial files.                 *)
(***************************************************************************)
EXTENDS MirrorFetch, FiniteSetTheorems, SequenceTheorems, TLAPS

USE DEF Goto, directory

(* The processes beside p run no fetch. *)
OthersIdle(p) == \A q \in Proc : q # p => pc[q] = "idle"

-----------------------------------------------------------------------------
(* The part a fetch is at is one of its release.                           *)
LEMMA PartTyped ==
  ASSUME NEW p \in Proc, OnTheWay(p), AtPart(p), TypeOK, pc[p] \notin {"idle", "part"}
  PROVE  /\ run[p].release \in Release
         /\ run[p].index \in 1 .. Len(Parts[run[p].release])
         /\ Part(p) \in Name
         /\ Wanted(p) \in Digest
<1>1. /\ run[p].release \in Release
      /\ run[p].index \in 1 .. Len(Parts[run[p].release]) + 1
      /\ run[p].index <= Len(Parts[run[p].release])
  BY DEF OnTheWay, AtPart, PartsLeft
<1>2. Parts[run[p].release] \in Seq(Name)
  BY <1>1, FetchAssumption
<1>3. Len(Parts[run[p].release]) \in Nat
  BY <1>2
<1>4. run[p].index \in 1 .. Len(Parts[run[p].release])
  BY <1>1, <1>3
<1>5. Part(p) \in Name
  BY <1>2, <1>4 DEF Part
<1>6. Wanted(p) \in Digest
  BY <1>1, <1>5, FetchAssumption DEF Wanted
<1>7. QED
  BY <1>1, <1>4, <1>5, <1>6

(* There is always an inode to begin a partial file with.                  *)
LEMMA UnusedLeft ==
  ASSUME TypeOK
  PROVE  Unused # {}
<1> DEFINE P == {partial[n] : n \in Name}
           F == {final[n] : n \in Name}
           H == {run[p].fd : p \in Proc}
<1>1. IsFiniteSet(P) /\ Cardinality(P) <= Cardinality(Name)
  <2>1. [n \in Name |-> partial[n]] \in Surjection(Name, P)
    BY DEF Surjection
  <2>2. QED
    BY <2>1, FetchAssumption, FS_Surjection
<1>2. IsFiniteSet(F) /\ Cardinality(F) <= Cardinality(Name)
  <2>1. [n \in Name |-> final[n]] \in Surjection(Name, F)
    BY DEF Surjection
  <2>2. QED
    BY <2>1, FetchAssumption, FS_Surjection
<1>3. IsFiniteSet(H) /\ Cardinality(H) <= Cardinality(Proc)
  <2>1. [p \in Proc |-> run[p].fd] \in Surjection(Proc, H)
    BY DEF Surjection
  <2>2. QED
    BY <2>1, FetchAssumption, FS_Surjection
<1>4. SUFFICES ASSUME Unused = {} PROVE FALSE
  OBVIOUS
<1>5. Inode \subseteq (P \cup F) \cup H
  BY <1>4 DEF Unused
<1> HIDE DEF P, F, H
<1>6. IsFiniteSet(P \cup F) /\ Cardinality(P \cup F) <= Cardinality(P) + Cardinality(F)
  <2>1. /\ IsFiniteSet(P \cup F)
        /\ Cardinality(P \cup F) = Cardinality(P) + Cardinality(F) - Cardinality(P \cap F)
    BY <1>1, <1>2, FS_Union
  <2>2. Cardinality(P \cap F) \in Nat
    BY <1>1, FS_Subset, FS_CardinalityType
  <2>3. Cardinality(P) \in Nat /\ Cardinality(F) \in Nat
    BY <1>1, <1>2, FS_CardinalityType
  <2>4. QED
    BY <2>1, <2>2, <2>3
<1>7. /\ IsFiniteSet((P \cup F) \cup H)
      /\ Cardinality((P \cup F) \cup H) <= Cardinality(P \cup F) + Cardinality(H)
  <2>1. /\ IsFiniteSet((P \cup F) \cup H)
        /\ Cardinality((P \cup F) \cup H)
             = Cardinality(P \cup F) + Cardinality(H) - Cardinality((P \cup F) \cap H)
    BY <1>3, <1>6, FS_Union
  <2>2. Cardinality((P \cup F) \cap H) \in Nat
    BY <1>6, FS_Subset, FS_CardinalityType
  <2>3. Cardinality(P \cup F) \in Nat /\ Cardinality(H) \in Nat
    BY <1>3, <1>6, FS_CardinalityType
  <2>4. QED
    BY <2>1, <2>2, <2>3
<1>8. Cardinality(Inode) <= Cardinality((P \cup F) \cup H)
  BY <1>5, <1>7, FS_Subset
<1>9. /\ Cardinality(Inode) \in Nat /\ Cardinality(Name) \in Nat /\ Cardinality(Proc) \in Nat
      /\ Cardinality(P) \in Nat /\ Cardinality(F) \in Nat /\ Cardinality(H) \in Nat
      /\ Cardinality(P \cup F) \in Nat /\ Cardinality((P \cup F) \cup H) \in Nat
  BY <1>1, <1>2, <1>3, <1>6, <1>7, FetchAssumption, FS_CardinalityType
<1>10. QED
  BY <1>1, <1>2, <1>3, <1>6, <1>7, <1>8, <1>9, FetchAssumption

(* A handle that has written all that its file holds appends to it,        *)
(* whichever way it was opened.                                            *)
LEMMA WrittenAppends ==
  ASSUME NEW p \in Proc, NEW chunk \in Chunks, content[run[p].fd] \in Seq(Chunks),
         run[p].got = Len(content[run[p].fd])
  PROVE  Written(p, chunk) = Append(content[run[p].fd], chunk)
<1> DEFINE old == content[run[p].fd]
<1>1. old \in Seq(Chunks) /\ Len(old) \in Nat
  OBVIOUS
<1>2. Written(p, chunk) =
        [k \in 1 .. Len(old) + 1 |-> IF k = Len(old) + 1 THEN chunk
                                     ELSE IF k <= Len(old) THEN old[k] ELSE Nothing]
  <2>1. (IF run[p].offset > 0 THEN Len(old) + 1 ELSE run[p].got + 1) = Len(old) + 1
    OBVIOUS
  <2>2. (IF Len(old) + 1 > Len(old) THEN Len(old) + 1 ELSE Len(old)) = Len(old) + 1
    BY <1>1
  <2>3. QED
    BY <2>1, <2>2 DEF Written
<1> HIDE DEF old
<1>3. /\ Len(Append(old, chunk)) = Len(old) + 1
      /\ DOMAIN Append(old, chunk) = 1 .. Len(old) + 1
      /\ \A k \in 1 .. Len(old) + 1 :
           Append(old, chunk)[k] = IF k = Len(old) + 1 THEN chunk ELSE old[k]
  BY <1>1
<1> DEFINE new == Append(old, chunk)
<1>4. new = [k \in 1 .. Len(old) + 1 |-> new[k]]
  <2>1. new \in Seq(Chunks)
    BY <1>1
  <2>2. Len(new) = Len(old) + 1
    BY <1>3
  <2> HIDE DEF new
  <2>3. new \in [1 .. Len(old) + 1 -> Chunks]
    BY <2>1, <2>2
  <2>4. QED
    BY <2>3
<1>5. \A k \in 1 .. Len(old) + 1 :
        Append(old, chunk)[k] = IF k = Len(old) + 1 THEN chunk
                                ELSE IF k <= Len(old) THEN old[k] ELSE Nothing
  BY <1>1, <1>3
<1>6. Written(p, chunk) = [k \in 1 .. Len(old) + 1 |-> Append(old, chunk)[k]]
  BY <1>2, <1>5
<1>7. QED
  BY <1>4, <1>6 DEF old
-----------------------------------------------------------------------------
(* Taking names away, and writing to files that have no final name, does   *)
(* no harm to those that have one.                                         *)
LEMMA FewerNames ==
  ASSUME TypeOK, FinalVerified, OneName,
         \A n \in Name : partial'[n] \in {partial[n], Nothing}
                         /\ final'[n] \in {final[n], Nothing},
         \A n \in Name : final'[n] # Nothing => content'[final'[n]] = content[final'[n]]
  PROVE  FinalVerified' /\ OneName'
<1>1. FinalVerified'
  <2> SUFFICES ASSUME NEW n \in Name, final'[n] # Nothing
               PROVE  \E r \in Release : Valid(final[n], DigestOf[r][n])'
    BY DEF FinalVerified
  <2>1. final'[n] = final[n] /\ content'[final'[n]] = content[final[n]]
    OBVIOUS
  <2>2. PICK r \in Release : Valid(final[n], DigestOf[r][n])
    BY <2>1 DEF FinalVerified
  <2>3. QED
    BY <2>1, <2>2 DEF Valid
<1>2. OneName'
  <2> SUFFICES ASSUME NEW m \in Name, NEW n \in Name, partial'[m] # Nothing
               PROVE  partial'[m] # final'[n] /\ (partial'[n] = partial'[m] => n = m)
    BY DEF OneName
  <2>1. partial'[m] = partial[m]
    OBVIOUS
  <2>2. final'[n] \in {final[n], Nothing} /\ partial'[n] \in {partial[n], Nothing}
    OBVIOUS
  <2>3. partial[m] # final[n] /\ (partial[n] = partial[m] => n = m)
    BY <2>1 DEF OneName
  <2>4. QED
    BY <2>1, <2>2, <2>3
<1>3. QED
  BY <1>1, <1>2

(* The variables of the directory are well typed after a step.             *)
FilesTyped ==
  /\ partial \in [Name -> Inode \cup {Nothing}]
  /\ final \in [Name -> Inode \cup {Nothing}]
  /\ content \in [Inode -> Seq(Chunks)]
  /\ manifest \in Release \cup {Nothing}
  /\ faults \in 0 .. MaxFaults

LEMMA FaultTyped ==
  ASSUME TypeOK, Fault
  PROVE  faults' \in 0 .. MaxFaults
BY FetchAssumption DEF TypeOK, Fault

LEMMA Dropping ==
  ASSUME TypeOK, NEW n \in Name, Drops(n) \/ DropsOversized(n) \/ UNCHANGED partial
  PROVE  /\ partial' \in [Name -> Inode \cup {Nothing}]
         /\ \A m \in Name : partial'[m] \in {partial[m], Nothing}
BY DEF TypeOK, Drops, DropsOversized

(* Of the others a step of p says nothing, if no other fetch runs.         *)
LEMMA OthersStay ==
  ASSUME TypeOK, NEW p \in Proc, OthersIdle(p), NEW at, NEW l,
         pc' = [pc EXCEPT ![p] = at], run' = [run EXCEPT ![p] = l]
  PROVE  \A q \in Proc : q # p =>
           /\ (pc'[q] = "body") <=> (run'[q].fd # Nothing)
           /\ OnTheWay(q)' /\ AtPart(q)'
<1> SUFFICES ASSUME NEW q \in Proc, q # p
             PROVE  /\ (pc'[q] = "body") <=> (run'[q].fd # Nothing)
                    /\ OnTheWay(q)' /\ AtPart(q)'
  OBVIOUS
<1>1. pc'[q] = pc[q] /\ run'[q] = run[q] /\ pc[q] = "idle"
  BY DEF TypeOK, OthersIdle
<1>2. (pc'[q] = "body") <=> (run'[q].fd # Nothing)
  BY <1>1 DEF TypeOK
<1>3. OnTheWay(q)' /\ AtPart(q)'
  BY <1>1 DEF OnTheWay, AtPart
<1>4. QED
  BY <1>2, <1>3

(* A fetch that is over leaves a sound mirror behind.                      *)
LEMMA Ended ==
  ASSUME NEW p \in Proc, OthersIdle(p), MirrorInv, Ends(p), FilesTyped',
         UNCHANGED <<final, content>>,
         \A n \in Name : partial'[n] \in {partial[n], Nothing}
  PROVE  MirrorInv'
<1>1. TypeOK /\ FinalVerified /\ OneName
  BY DEF MirrorInv
<1>2. FinalVerified' /\ OneName'
  BY <1>1, FewerNames
<1>3. pc'[p] = "idle" /\ run'[p] = Rest
  BY <1>1 DEF Ends, TypeOK
<1>o. \A q \in Proc : q # p =>
        /\ (pc'[q] = "body") <=> (run'[q].fd # Nothing)
        /\ OnTheWay(q)' /\ AtPart(q)'
  BY <1>1, OthersStay DEF Ends
<1>4. TypeOK'
  <2>1. Rest \in Locals /\ Rest.fd = Nothing
    BY FetchAssumption DEF Rest, Locals
  <2>2. /\ pc' \in [Proc -> {"idle", "part", "drop", "open", "file", "body", "verify",
                             "replace", "failed"}]
        /\ run' \in [Proc -> Locals]
    BY <1>1, <2>1 DEF TypeOK, Ends
  <2>3. \A q \in Proc : (pc'[q] = "body") <=> (run'[q].fd # Nothing)
    BY <1>3, <1>o, <2>1
  <2>4. QED
    BY <2>2, <2>3 DEF TypeOK, FilesTyped
<1>p. OnTheWay(p)' /\ AtPart(p)'
  BY <1>3 DEF OnTheWay, AtPart
<1>5. \A q \in Proc : OnTheWay(q)' /\ AtPart(q)'
  BY <1>o, <1>p
<1>6. QED
  BY <1>2, <1>4, <1>5 DEF MirrorInv

(* Nor does one whose attempt has failed.                                  *)
LEMMA Failed ==
  ASSUME NEW p \in Proc, OthersIdle(p), MirrorInv, Fails(p),
         pc[p] \notin {"idle", "part", "drop"},
         FilesTyped', UNCHANGED <<final, content>>,
         \A n \in Name : partial'[n] \in {partial[n], Nothing}
  PROVE  MirrorInv'
<1>1. TypeOK /\ FinalVerified /\ OneName /\ OnTheWay(p) /\ AtPart(p)
  BY DEF MirrorInv
<1>2. CASE Ends(p)
  BY <1>2, Ended
<1>3. CASE /\ pc' = [pc EXCEPT ![p] = "failed"]
           /\ run' = [run EXCEPT ![p].fd = Nothing]
  <2>1. FinalVerified' /\ OneName'
    BY <1>1, FewerNames
  <2>2. /\ pc'[p] = "failed"
        /\ run'[p] = [run[p] EXCEPT !.fd = Nothing]
        /\ run[p] \in Locals
    BY <1>1, <1>3 DEF TypeOK
  <2>3. /\ run'[p] \in Locals
        /\ run'[p].release = run[p].release /\ run'[p].index = run[p].index
        /\ run'[p].fd = Nothing
    BY <2>2 DEF Locals
  <2>o. \A q \in Proc : q # p =>
          /\ (pc'[q] = "body") <=> (run'[q].fd # Nothing)
          /\ OnTheWay(q)' /\ AtPart(q)'
    BY <1>1, <1>3, OthersStay
  <2>4. TypeOK'
    <3>1. /\ pc' \in [Proc -> {"idle", "part", "drop", "open", "file", "body", "verify",
                               "replace", "failed"}]
          /\ run' \in [Proc -> Locals]
      BY <1>1, <1>3, <2>3 DEF TypeOK
    <3>2. \A q \in Proc : (pc'[q] = "body") <=> (run'[q].fd # Nothing)
      BY <2>2, <2>3, <2>o
    <3>3. QED
      BY <3>1, <3>2 DEF TypeOK, FilesTyped
  <2>5. OnTheWay(p)'
    BY <1>1, <2>3 DEF OnTheWay, Valid
  <2>6. AtPart(p)'
    BY <1>1, <2>2, <2>3 DEF AtPart, PartsLeft, Part, Wanted, Valid
  <2>7. QED
    BY <2>1, <2>4, <2>5, <2>6, <2>o DEF MirrorInv
<1>4. QED
  BY <1>2, <1>3 DEF Fails
-----------------------------------------------------------------------------
(* Where no other fetch runs, what matters is a fetch's own position.      *)
LEMMA Moved ==
  ASSUME NEW p \in Proc, OthersIdle(p), MirrorInv, FilesTyped', FinalVerified', OneName',
         NEW at \in {"idle", "part", "drop", "open", "file", "body", "verify", "replace",
                     "failed"},
         NEW l \in Locals,
         pc' = [pc EXCEPT ![p] = at], run' = [run EXCEPT ![p] = l],
         (at = "body") <=> (l.fd # Nothing),
         OnTheWay(p)', AtPart(p)'
  PROVE  MirrorInv'
<1>1. TypeOK
  BY DEF MirrorInv
<1>2. pc'[p] = at /\ run'[p] = l
  BY <1>1 DEF TypeOK
<1>3. /\ pc' \in [Proc -> {"idle", "part", "drop", "open", "file", "body", "verify",
                           "replace", "failed"}]
      /\ run' \in [Proc -> Locals]
  BY <1>1 DEF TypeOK
<1>o. \A q \in Proc : q # p =>
        /\ (pc'[q] = "body") <=> (run'[q].fd # Nothing)
        /\ OnTheWay(q)' /\ AtPart(q)'
  BY <1>1, OthersStay
<1>4. TypeOK'
  BY <1>2, <1>3, <1>o DEF TypeOK, FilesTyped
<1>5. QED
  BY <1>4, <1>o DEF MirrorInv

LEMMA StartStep ==
  ASSUME NEW p \in Proc, OthersIdle(p), MirrorInv, Start(p)
  PROVE  MirrorInv'
<1>1. TypeOK /\ FinalVerified /\ OneName
  BY DEF MirrorInv
<1>2. FilesTyped' /\ FinalVerified' /\ OneName'
  BY <1>1, FewerNames DEF Start, TypeOK, FilesTyped
<1>3. PICK r \in Release, s \in Sources :
        run' = [run EXCEPT ![p] = [Rest EXCEPT !.release = r, !.source = s]]
  BY DEF Start
<1> DEFINE l == [Rest EXCEPT !.release = r, !.source = s]
<1>4. /\ l \in Locals /\ l.release = r /\ l.index = 1 /\ l.fd = Nothing
  <2>1. /\ Rest \in [release : {Nothing}, source : {Nothing}, index : {1}, attempt : {0},
                     offset : {0}, got : {0}, fd : {Nothing}]
    BY DEF Rest
  <2>2. l \in [release : {r}, source : {s}, index : {1}, attempt : {0},
               offset : {0}, got : {0}, fd : {Nothing}]
    BY <2>1
  <2> HIDE DEF l
  <2>3. 0 \in 0 .. Retries - 1
    BY FetchAssumption
  <2>4. QED
    BY <2>2, <2>3 DEF Locals
<1> HIDE DEF l
<1>5. pc' = [pc EXCEPT ![p] = "part"] /\ run' = [run EXCEPT ![p] = l]
  BY <1>3 DEF Start, l
<1>6. pc'[p] = "part" /\ run'[p] = l
  BY <1>1, <1>5 DEF TypeOK
<1>7. Len(Parts[r]) \in Nat
  BY FetchAssumption
<1>8. OnTheWay(p)'
  BY <1>4, <1>6, <1>7 DEF OnTheWay
<1>9. AtPart(p)'
  BY <1>6 DEF AtPart
<1>10. QED
  BY <1>2, <1>4, <1>5, <1>8, <1>9, Moved

LEMMA InspectStep ==
  ASSUME NEW p \in Proc, OthersIdle(p), MirrorInv, Inspect(p)
  PROVE  MirrorInv'
<1>1. TypeOK /\ FinalVerified /\ OneName /\ OnTheWay(p)
  BY DEF MirrorInv
<1>2. FilesTyped' /\ FinalVerified' /\ OneName'
  BY <1>1, FewerNames DEF Inspect, TypeOK, FilesTyped
<1> DEFINE r == run[p].release
<1>3. /\ pc[p] = "part" /\ r \in Release
      /\ run[p].index \in 1 .. Len(Parts[r])
      /\ \A k \in 1 .. run[p].index - 1 : Valid(final[Parts[r][k]], DigestOf[r][Parts[r][k]])
      /\ UNCHANGED <<final, content>>
      /\ run[p] \in Locals
      /\ run[p].fd = Nothing
  <2>1. Len(Parts[r]) \in Nat
    BY <1>1, FetchAssumption DEF OnTheWay, Inspect
  <2>2. QED
    BY <1>1, <2>1 DEF OnTheWay, Inspect, PartsLeft, TypeOK
<1>4. CASE Valid(final[Part(p)], Wanted(p))
  <2> DEFINE l == [run[p] EXCEPT !.index = @ + 1]
  <2>1. /\ l \in Locals /\ l.release = r /\ l.index = run[p].index + 1 /\ l.fd = Nothing
    BY <1>3 DEF Locals
  <2>2. run' = [run EXCEPT ![p] = l] /\ pc' = [pc EXCEPT ![p] = "part"]
    BY <1>1, <1>3, <1>4 DEF Inspect, TypeOK
  <2> HIDE DEF l
  <2>3. run'[p] = l /\ pc'[p] = "part"
    BY <1>1, <2>2 DEF TypeOK
  <2>4. \A k \in 1 .. l.index - 1 : Valid(final[Parts[r][k]], DigestOf[r][Parts[r][k]])
    <3> SUFFICES ASSUME NEW k \in 1 .. l.index - 1
                 PROVE  Valid(final[Parts[r][k]], DigestOf[r][Parts[r][k]])
      OBVIOUS
    <3>1. k \in 1 .. run[p].index - 1 \/ k = run[p].index
      BY <1>3, <2>1
    <3>2. QED
      BY <1>3, <1>4, <3>1 DEF Part, Wanted
  <2>5. OnTheWay(p)'
    <3>1. l.index \in 1 .. Len(Parts[r]) + 1
      BY <1>3, <2>1
    <3>2. QED
      BY <1>3, <2>1, <2>3, <2>4, <3>1 DEF OnTheWay, Valid
  <2>6. AtPart(p)'
    BY <2>3 DEF AtPart
  <2>7. QED
    BY <1>2, <2>1, <2>2, <2>5, <2>6, Moved
<1>5. CASE ~Valid(final[Part(p)], Wanted(p))
  <2>1. run' = [run EXCEPT ![p] = run[p]] /\ pc' = [pc EXCEPT ![p] = "drop"]
    BY <1>1, <1>5 DEF Inspect, TypeOK
  <2>2. run'[p] = run[p] /\ pc'[p] = "drop"
    BY <1>1, <2>1 DEF TypeOK
  <2>3. OnTheWay(p)'
    BY <1>1, <1>3, <2>2 DEF OnTheWay, Valid
  <2>4. AtPart(p)'
    BY <1>3, <1>5, <2>2 DEF AtPart, PartsLeft, Inspect, Part, Wanted, Valid
  <2>5. QED
    BY <1>2, <1>3, <2>1, <2>3, <2>4, Moved
<1>6. QED
  BY <1>4, <1>5

LEMMA DropStep ==
  ASSUME NEW p \in Proc, OthersIdle(p), MirrorInv, Drop(p)
  PROVE  MirrorInv'
<1>1. TypeOK /\ FinalVerified /\ OneName /\ OnTheWay(p) /\ AtPart(p)
  BY DEF MirrorInv
<1> DEFINE n == Part(p)
           r == run[p].release
<1>2. /\ r \in Release /\ n \in Name
      /\ run[p].index \in 1 .. Len(Parts[r])
      /\ pc[p] = "drop"
      /\ run[p] \in Locals /\ run[p].fd = Nothing
  BY <1>1, PartTyped DEF Drop, TypeOK
<1>3. /\ partial' \in [Name -> Inode \cup {Nothing}]
      /\ \A m \in Name : partial'[m] \in {partial[m], Nothing}
  BY <1>1, <1>2, Dropping DEF Drop
<1>4. final' = [final EXCEPT ![n] = Nothing] /\ UNCHANGED <<content, manifest, faults, run>>
  BY DEF Drop
<1>5. /\ final' \in [Name -> Inode \cup {Nothing}]
      /\ \A m \in Name : final'[m] \in {final[m], Nothing}
      /\ \A m \in Name : m # n => final'[m] = final[m]
      /\ final'[n] = Nothing
  BY <1>1, <1>2, <1>4 DEF TypeOK
<1>6. FilesTyped'
  BY <1>1, <1>3, <1>4, <1>5 DEF TypeOK, FilesTyped
<1>7. FinalVerified' /\ OneName'
  BY <1>1, <1>3, <1>4, <1>5, FewerNames
<1>8. pc' = [pc EXCEPT ![p] = "open"] /\ run' = [run EXCEPT ![p] = run[p]]
  BY <1>1, <1>4 DEF Drop, TypeOK
<1>9. pc'[p] = "open" /\ run'[p] = run[p]
  BY <1>1, <1>8 DEF TypeOK
<1>10. OnTheWay(p)'
  <2>1. Len(Parts[r]) \in Nat /\ Parts[r] \in Seq(Name)
    BY <1>2, FetchAssumption
  <2>2. ASSUME NEW k \in 1 .. run[p].index - 1
        PROVE  Valid(final[Parts[r][k]], DigestOf[r][Parts[r][k]])'
    <3>1. Valid(final[Parts[r][k]], DigestOf[r][Parts[r][k]])
      BY <1>1, <1>2 DEF OnTheWay
    <3>2. ~Valid(final[n], DigestOf[r][n])
      BY <1>1, <1>2 DEF AtPart, Wanted
    <3>3. Parts[r][k] # n
      BY <3>1, <3>2
    <3>4. k \in 1 .. Len(Parts[r])
      BY <1>2, <2>1
    <3>5. Parts[r][k] \in Name
      BY <2>1, <3>4
    <3>6. QED
      BY <1>4, <1>5, <3>1, <3>3, <3>5 DEF Valid
  <2>3. QED
    BY <1>1, <1>2, <1>9, <2>2 DEF OnTheWay
<1>11. AtPart(p)'
  <2>1. Part(p)' = n /\ PartsLeft(p)'
    BY <1>1, <1>2, <1>9 DEF AtPart, Part, PartsLeft
  <2>2. ~Valid(final[Part(p)], Wanted(p))'
    BY <1>5, <2>1 DEF Valid
  <2>3. QED
    BY <1>5, <1>9, <2>1, <2>2 DEF AtPart
<1>12. QED
  BY <1>2, <1>6, <1>7, <1>8, <1>10, <1>11, Moved

(* A step to pos within the same part, with the locals l, that leaves the  *)
(* final names and the files under them alone.                             *)
LEMMA SamePart ==
  ASSUME NEW p \in Proc, OthersIdle(p), MirrorInv, FilesTyped', FinalVerified', OneName',
         pc[p] \notin {"idle", "part", "drop"}, final' = final,
         \A n \in Name : final[n] # Nothing => content'[final[n]] = content[final[n]],
         NEW at \in {"open", "file", "body", "verify", "replace", "failed"},
         NEW l \in Locals,
         pc' = [pc EXCEPT ![p] = at], run' = [run EXCEPT ![p] = l],
         (at = "body") <=> (l.fd # Nothing),
         l.release = run[p].release, l.index = run[p].index,
         at = "file" => l.offset = Size(partial[Part(p)])',
         at = "body" => l.fd = partial'[Part(p)] /\ l.got = Len(content'[l.fd]),
         at = "replace" => Valid(partial[Part(p)], Wanted(p))'
  PROVE  MirrorInv'
<1>1. TypeOK /\ OnTheWay(p) /\ AtPart(p)
  BY DEF MirrorInv
<1>2. pc'[p] = at /\ run'[p] = l
  BY <1>1 DEF TypeOK
<1> DEFINE r == run[p].release
           n == Part(p)
<1>3. /\ r \in Release /\ n \in Name /\ run[p].index \in 1 .. Len(Parts[r])
      /\ final[n] = Nothing
  BY <1>1, PartTyped DEF AtPart
<1>4. Part(p)' = n /\ PartsLeft(p)' /\ Wanted(p)' = Wanted(p)
  BY <1>1, <1>2 DEF AtPart, Part, PartsLeft, Wanted
<1>5. OnTheWay(p)'
  <2>1. Parts[r] \in Seq(Name) /\ Len(Parts[r]) \in Nat
    BY <1>3, FetchAssumption
  <2>2. ASSUME NEW k \in 1 .. run[p].index - 1
        PROVE  Valid(final[Parts[r][k]], DigestOf[r][Parts[r][k]])'
    <3>1. Valid(final[Parts[r][k]], DigestOf[r][Parts[r][k]])
      BY <1>1 DEF OnTheWay
    <3>2. k \in 1 .. Len(Parts[r])
      BY <1>3, <2>1
    <3>3. Parts[r][k] \in Name
      BY <2>1, <3>2
    <3>4. QED
      BY <3>1, <3>3 DEF Valid
  <2>3. QED
    BY <1>1, <1>2, <2>2 DEF OnTheWay
<1>6. AtPart(p)'
  BY <1>2, <1>3, <1>4 DEF AtPart, Valid
<1>7. QED
  BY <1>5, <1>6, Moved

(* Its locals after a step that changes only some of the numbers in them.  *)
LEMMA PlaceTyped ==
  ASSUME MirrorInv, NEW p \in Proc, pc[p] \notin {"idle", "part", "drop"}
  PROVE  /\ TypeOK /\ FinalVerified /\ OneName /\ OnTheWay(p) /\ AtPart(p)
         /\ run[p] \in Locals /\ run[p].release \in Release
         /\ run[p].index \in 1 .. Len(Parts[run[p].release])
         /\ Part(p) \in Name /\ Wanted(p) \in Digest
         /\ final[Part(p)] = Nothing
<1>1. TypeOK /\ FinalVerified /\ OneName /\ OnTheWay(p) /\ AtPart(p)
  BY DEF MirrorInv
<1>2. QED
  BY <1>1, PartTyped DEF AtPart, TypeOK

LEMMA OpenStep ==
  ASSUME NEW p \in Proc, OthersIdle(p), MirrorInv, Open(p)
  PROVE  MirrorInv'
<1>0. pc[p] = "open"
  BY DEF Open
<1>1. /\ TypeOK /\ FinalVerified /\ OneName /\ OnTheWay(p) /\ AtPart(p)
      /\ run[p] \in Locals /\ Part(p) \in Name
  BY <1>0, PlaceTyped
<1>2. UNCHANGED <<partial, final, content, manifest, faults>>
  BY DEF Open
<1>3. FilesTyped' /\ FinalVerified' /\ OneName'
  BY <1>1, <1>2, FewerNames DEF TypeOK, FilesTyped
<1>4. CASE Fails(p)
  BY <1>0, <1>2, <1>3, <1>4, Failed
<1>5. CASE ~Fails(p)
  <2> DEFINE size == Size(partial[Part(p)])
             l == [run[p] EXCEPT !.offset = size]
  <2>1. size \in Nat
    <3>1. partial[Part(p)] # Nothing => content[partial[Part(p)]] \in Seq(Chunks)
      BY <1>1 DEF TypeOK
    <3>2. QED
      BY <3>1 DEF Size
  <2> HIDE DEF size
  <2>2. /\ l \in Locals /\ l.release = run[p].release /\ l.index = run[p].index
        /\ l.offset = size /\ l.fd = run[p].fd
    BY <1>1, <2>1 DEF Locals
  <2>3. run' = [run EXCEPT ![p] = l] /\ pc' = [pc EXCEPT ![p] = "file"]
    BY <1>5 DEF Open, size
  <2>4. run[p].fd = Nothing
    BY <1>0, <1>1 DEF TypeOK
  <2> HIDE DEF l
  <2>5. Size(partial[Part(p)])' = size
    <3>1. run'[p] = l
      BY <1>1, <2>3 DEF TypeOK
    <3>2. Part(p)' = Part(p)
      BY <2>2, <3>1 DEF Part
    <3>3. QED
      BY <1>2, <3>2 DEF Size, size
  <2>6. QED
    BY <1>0, <1>2, <1>3, <2>2, <2>3, <2>4, <2>5, SamePart
<1>6. QED
  BY <1>4, <1>5

LEMMA BadResponseStep ==
  ASSUME NEW p \in Proc, OthersIdle(p), MirrorInv, BadResponse(p)
  PROVE  MirrorInv'
<1>0. pc[p] = "open"
  BY DEF BadResponse
<1>1. TypeOK /\ Part(p) \in Name
  BY <1>0, PlaceTyped
<1>2. /\ partial' \in [Name -> Inode \cup {Nothing}]
      /\ \A m \in Name : partial'[m] \in {partial[m], Nothing}
  BY <1>1, Dropping DEF BadResponse
<1>3. FilesTyped'
  BY <1>1, <1>2, FaultTyped DEF BadResponse, FilesTyped, TypeOK
<1>4. QED
  BY <1>0, <1>2, <1>3, Failed DEF BadResponse

LEMMA OpenPartialStep ==
  ASSUME NEW p \in Proc, OthersIdle(p), MirrorInv, OpenPartial(p)
  PROVE  MirrorInv'
<1>0. pc[p] = "file"
  BY DEF OpenPartial
<1> DEFINE n == Part(p)
           file == IF partial[n] = Nothing THEN CHOOSE f \in Unused : TRUE ELSE partial[n]
           empty == partial[n] = Nothing \/ run[p].offset = 0
           l == [run[p] EXCEPT !.fd = file, !.got = run[p].offset]
<1>1. /\ TypeOK /\ FinalVerified /\ OneName /\ AtPart(p)
      /\ run[p] \in Locals /\ n \in Name
  BY <1>0, PlaceTyped
<1>2. /\ file \in Inode
      /\ \A m \in Name : file # final[m]
      /\ \A m \in Name : partial[m] = file => m = n
  <2>1. CASE partial[n] = Nothing
    <3>1. file \in Unused
      BY <1>1, <2>1, UnusedLeft
    <3>2. QED
      BY <3>1 DEF Unused
  <2>2. CASE partial[n] # Nothing
    BY <1>1, <2>2 DEF TypeOK, OneName
  <2>3. QED
    BY <2>1, <2>2
<1>3. /\ partial' = [partial EXCEPT ![n] = file]
      /\ content' = [content EXCEPT ![file] = IF empty THEN <<>> ELSE @]
      /\ UNCHANGED <<final, manifest, faults>>
      /\ pc' = [pc EXCEPT ![p] = "body"]
  BY DEF OpenPartial
<1>4. file # Nothing
  BY <1>2, FetchAssumption
<1>5. /\ l \in Locals /\ l.release = run[p].release /\ l.index = run[p].index
      /\ l.fd = file /\ l.got = run[p].offset
  <2> HIDE DEF file
  <2>1. QED
    BY <1>1, <1>2 DEF Locals
<1>6. run[p].offset = Size(partial[n])
  BY <1>0, <1>1 DEF AtPart
<1>7. content[file] \in Seq(Chunks)
  BY <1>1, <1>2 DEF TypeOK
<1>8. run[p].offset = Len(IF empty THEN <<>> ELSE content[file])
  <2>1. CASE partial[n] = Nothing
    BY <1>6, <2>1 DEF Size
  <2>2. CASE partial[n] # Nothing /\ run[p].offset = 0
    BY <2>2
  <2>3. CASE partial[n] # Nothing /\ run[p].offset # 0
    BY <1>6, <2>3 DEF Size
  <2>4. QED
    BY <2>1, <2>2, <2>3
<1> HIDE DEF empty, file
<1>i. run' = [run EXCEPT ![p] = l]
  <2>1. run' = [run EXCEPT ![p].fd = file, ![p].got = run[p].offset]
    BY DEF OpenPartial, file
  <2>2. run \in [Proc -> Locals]
    BY <1>1 DEF TypeOK
  <2>3. QED
    BY <2>1, <2>2
<1> HIDE DEF l
<1>9. /\ content' \in [Inode -> Seq(Chunks)]
      /\ content'[file] = IF empty THEN <<>> ELSE content[file]
      /\ \A f \in Inode : f # file => content'[f] = content[f]
  <2>1. <<>> \in Seq(Chunks)
    OBVIOUS
  <2>2. QED
    BY <1>1, <1>2, <1>3, <1>7, <2>1 DEF TypeOK
<1>10. /\ partial' \in [Name -> Inode \cup {Nothing}]
       /\ partial'[n] = file
       /\ \A m \in Name : m # n => partial'[m] = partial[m]
  BY <1>1, <1>2, <1>3 DEF TypeOK
<1>11. FilesTyped'
  BY <1>1, <1>3, <1>9, <1>10 DEF TypeOK, FilesTyped
<1>12. \A m \in Name : final[m] # Nothing => content'[final[m]] = content[final[m]]
  BY <1>1, <1>2, <1>9 DEF TypeOK
<1>13. FinalVerified'
  BY <1>1, <1>3, <1>12 DEF FinalVerified, Valid
<1>14. OneName'
  <2> SUFFICES ASSUME NEW m \in Name, NEW k \in Name, partial'[m] # Nothing
               PROVE  partial'[m] # final[k] /\ (partial'[k] = partial'[m] => k = m)
    BY <1>3 DEF OneName
  <2>1. CASE m = n
    BY <1>2, <1>10, <2>1
  <2>2. CASE m # n
    <3>1. partial'[m] = partial[m] /\ partial[m] # final[k]
      BY <1>1, <1>10, <2>2 DEF OneName
    <3>2. CASE k = n
      BY <1>2, <1>10, <2>2, <3>1, <3>2
    <3>3. CASE k # n
      BY <1>1, <1>10, <3>1, <3>3 DEF OneName
    <3>4. QED
      BY <3>1, <3>2, <3>3
  <2>3. QED
    BY <2>1, <2>2
<1>15. run'[p] = l
  BY <1>1, <1>i DEF TypeOK
<1>16. Part(p)' = n
  BY <1>5, <1>15 DEF Part
<1>17. l.fd = partial'[Part(p)] /\ l.got = Len(content'[l.fd])
  BY <1>5, <1>8, <1>9, <1>10
<1>18. QED
  BY <1>0, <1>3, <1>4, <1>5, <1>i, <1>11, <1>12, <1>13, <1>14, <1>16, <1>17, SamePart

(* What a chunk does to the files. *)
LEMMA WritesFiles ==
  ASSUME MirrorInv, NEW p \in Proc, NEW chunk \in Chunks, Writes(p, chunk)
  PROVE  /\ run[p].fd \in Inode /\ run[p].fd = partial[Part(p)]
         /\ content' = [content EXCEPT ![run[p].fd] = Append(content[run[p].fd], chunk)]
         /\ content' \in [Inode -> Seq(Chunks)]
         /\ content[run[p].fd] \in Seq(Chunks)
         /\ content'[run[p].fd] = Append(content[run[p].fd], chunk)
         /\ \A f \in Inode : f # run[p].fd => content'[f] = content[f]
<1>0. pc[p] = "body"
  BY DEF Writes
<1>1. /\ TypeOK /\ AtPart(p) /\ run[p] \in Locals /\ Part(p) \in Name
  BY <1>0, PlaceTyped
<1>2. run[p].fd # Nothing /\ run[p].fd = partial[Part(p)] /\ run[p].got = Len(content[run[p].fd])
  BY <1>0, <1>1 DEF TypeOK, AtPart
<1>3. run[p].fd \in Inode
  BY <1>1, <1>2 DEF TypeOK
<1>4. content[run[p].fd] \in Seq(Chunks)
  BY <1>1, <1>3 DEF TypeOK
<1>5. content' = [content EXCEPT ![run[p].fd] = Append(content[run[p].fd], chunk)]
  BY <1>2, <1>4, WrittenAppends DEF Writes
<1>6. Append(content[run[p].fd], chunk) \in Seq(Chunks)
  BY <1>4
<1>7. QED
  BY <1>1, <1>2, <1>3, <1>4, <1>5, <1>6 DEF TypeOK

LEMMA WritesStep ==
  ASSUME NEW p \in Proc, OthersIdle(p), MirrorInv,
         NEW chunk \in Chunks, Writes(p, chunk), faults' \in 0 .. MaxFaults
  PROVE  MirrorInv'
<1>0. pc[p] = "body"
  BY DEF Writes
<1> DEFINE f == run[p].fd
           l == [run[p] EXCEPT !.got = @ + 1]
<1>1. /\ TypeOK /\ FinalVerified /\ OneName /\ AtPart(p)
      /\ run[p] \in Locals /\ Part(p) \in Name
  BY <1>0, PlaceTyped
<1>2. /\ f \in Inode /\ f = partial[Part(p)]
      /\ content' \in [Inode -> Seq(Chunks)]
      /\ content[f] \in Seq(Chunks)
      /\ content'[f] = Append(content[f], chunk)
      /\ \A g \in Inode : g # f => content'[g] = content[g]
  BY WritesFiles
<1>3. UNCHANGED <<partial, final, manifest, pc>> /\ run' = [run EXCEPT ![p] = l]
  BY DEF Writes
<1>4. f # Nothing
  BY <1>2, FetchAssumption
<1>5. /\ l \in Locals /\ l.release = run[p].release /\ l.index = run[p].index
      /\ l.fd = f /\ l.got = run[p].got + 1
  BY <1>1 DEF Locals
<1>6. run[p].got = Len(content[f])
  BY <1>0, <1>1 DEF AtPart
<1> HIDE DEF f, l
<1>7. FilesTyped'
  BY <1>1, <1>2, <1>3 DEF TypeOK, FilesTyped
<1>8. \A m \in Name : final[m] # Nothing => content'[final[m]] = content[final[m]]
  BY <1>1, <1>2, <1>4 DEF TypeOK, OneName
<1>9. FinalVerified' /\ OneName'
  BY <1>1, <1>3, <1>8, FewerNames
<1>10. Len(content'[f]) = run[p].got + 1
  BY <1>2, <1>6
<1>11. run'[p] = l
  BY <1>1, <1>3 DEF TypeOK
<1>12. Part(p)' = Part(p)
  BY <1>5, <1>11 DEF Part
<1>13. pc' = [pc EXCEPT ![p] = "body"]
  BY <1>0, <1>1, <1>3 DEF TypeOK
<1>14. l.fd = partial'[Part(p)] /\ l.got = Len(content'[l.fd])
  BY <1>2, <1>3, <1>5, <1>10, <1>12
<1>15. QED
  BY <1>0, <1>3, <1>4, <1>5, <1>7, <1>8, <1>9, <1>13, <1>14, SamePart

LEMMA ReceiveStep ==
  ASSUME NEW p \in Proc, OthersIdle(p), MirrorInv,
         Receive(p) \/ ReceiveJunk(p)
  PROVE  MirrorInv'
<1>1. pc[p] = "body" /\ run[p].got < PartSize
  BY DEF Receive, ReceiveJunk, Writes
<1>2. TypeOK /\ run[p] \in Locals /\ Wanted(p) \in Digest
  BY <1>1, PlaceTyped
<1>3. CASE Receive(p)
  <2>1. run[p].got \in 0 .. PartSize - 1
    BY <1>1, <1>2, FetchAssumption DEF Locals
  <2>2. <<Wanted(p), run[p].got>> \in Chunks
    BY <1>2, <2>1 DEF Chunks, Chunk
  <2>3. faults' \in 0 .. MaxFaults
    BY <1>2, <1>3 DEF Receive, TypeOK
  <2>4. QED
    BY <1>3, <2>2, <2>3, WritesStep DEF Receive
<1>4. CASE ReceiveJunk(p)
  <2>1. Nothing \in Chunks
    BY DEF Chunks
  <2>2. QED
    BY <1>2, <1>4, <2>1, FaultTyped, WritesStep DEF ReceiveJunk
<1>5. QED
  BY <1>3, <1>4

LEMMA EndBodyStep ==
  ASSUME NEW p \in Proc, OthersIdle(p), MirrorInv, EndBody(p)
  PROVE  MirrorInv'
<1>0. pc[p] = "body"
  BY DEF EndBody
<1>1. TypeOK /\ FinalVerified /\ OneName /\ run[p] \in Locals
  BY <1>0, PlaceTyped
<1>2. UNCHANGED <<partial, final, content, manifest>> /\ faults' \in 0 .. MaxFaults
  BY <1>1, FaultTyped DEF EndBody, TypeOK
<1>3. FilesTyped' /\ FinalVerified' /\ OneName'
  BY <1>1, <1>2, FewerNames DEF TypeOK, FilesTyped
<1> DEFINE l == [run[p] EXCEPT !.fd = Nothing]
<1>4. /\ l \in Locals /\ l.release = run[p].release /\ l.index = run[p].index
      /\ l.fd = Nothing
  BY <1>1 DEF Locals
<1>5. run' = [run EXCEPT ![p] = l] /\ pc' = [pc EXCEPT ![p] = "verify"]
  BY DEF EndBody
<1> HIDE DEF l
<1>6. QED
  BY <1>0, <1>2, <1>3, <1>4, <1>5, SamePart

LEMMA OversizedStep ==
  ASSUME NEW p \in Proc, OthersIdle(p), MirrorInv, Oversized(p)
  PROVE  MirrorInv'
<1>0. pc[p] = "body"
  BY DEF Oversized
<1>1. TypeOK
  BY <1>0, PlaceTyped
<1>2. UNCHANGED <<partial, final, content, manifest>> /\ faults' \in 0 .. MaxFaults
  BY <1>1, FaultTyped DEF Oversized
<1>3. FilesTyped'
  BY <1>1, <1>2 DEF TypeOK, FilesTyped
<1>4. QED
  BY <1>0, <1>2, <1>3, Failed DEF Oversized

LEMMA VerifyStep ==
  ASSUME NEW p \in Proc, OthersIdle(p), MirrorInv, Verify(p)
  PROVE  MirrorInv'
<1>0. pc[p] = "verify"
  BY DEF Verify
<1>1. /\ TypeOK /\ FinalVerified /\ OneName /\ AtPart(p)
      /\ run[p] \in Locals /\ Part(p) \in Name
  BY <1>0, PlaceTyped
<1>2. UNCHANGED <<final, content, manifest, faults>>
  BY DEF Verify
<1>3. CASE Valid(partial[Part(p)], Wanted(p))
  <2>1. /\ UNCHANGED partial
        /\ pc' = [pc EXCEPT ![p] = "replace"] /\ run' = [run EXCEPT ![p] = run[p]]
    BY <1>1, <1>3 DEF Verify, TypeOK
  <2>2. FilesTyped' /\ FinalVerified' /\ OneName'
    BY <1>1, <1>2, <2>1, FewerNames DEF TypeOK, FilesTyped
  <2>3. run[p].fd = Nothing
    BY <1>0, <1>1 DEF TypeOK
  <2>4. run'[p] = run[p]
    BY <1>1, <2>1 DEF TypeOK
  <2>5. Valid(partial[Part(p)], Wanted(p))'
    BY <1>2, <1>3, <2>1, <2>4 DEF Valid, Part, Wanted
  <2>6. QED
    BY <1>0, <1>1, <1>2, <2>1, <2>2, <2>3, <2>5, SamePart
<1>4. CASE ~Valid(partial[Part(p)], Wanted(p))
  <2>1. /\ partial' \in [Name -> Inode \cup {Nothing}]
        /\ \A m \in Name : partial'[m] \in {partial[m], Nothing}
    BY <1>1, <1>4, Dropping DEF Verify
  <2>2. FilesTyped'
    BY <1>1, <1>2, <2>1 DEF TypeOK, FilesTyped
  <2>3. QED
    BY <1>0, <1>2, <1>4, <2>1, <2>2, Failed DEF Verify
<1>5. QED
  BY <1>3, <1>4

LEMMA ReplaceStep ==
  ASSUME NEW p \in Proc, OthersIdle(p), MirrorInv, Replace(p)
  PROVE  MirrorInv'
<1>0. pc[p] = "replace"
  BY DEF Replace
<1> DEFINE n == Part(p)
           r == run[p].release
           l == [Rest EXCEPT !.release = r, !.source = run[p].source,
                             !.index = run[p].index + 1]
<1>1. /\ TypeOK /\ FinalVerified /\ OneName /\ OnTheWay(p) /\ AtPart(p)
      /\ run[p] \in Locals /\ r \in Release /\ run[p].index \in 1 .. Len(Parts[r])
      /\ n \in Name /\ final[n] = Nothing
  BY <1>0, PlaceTyped
<1>2. Valid(partial[n], Wanted(p)) /\ partial[n] # Nothing /\ partial[n] \in Inode
  BY <1>0, <1>1 DEF AtPart, Valid, TypeOK
<1>3. /\ final' = [final EXCEPT ![n] = partial[n]]
      /\ partial' = [partial EXCEPT ![n] = Nothing]
      /\ pc' = [pc EXCEPT ![p] = "part"]
      /\ run' = [run EXCEPT ![p] = l]
      /\ UNCHANGED <<content, manifest, faults>>
  BY <1>2 DEF Replace, Drops
<1>4. /\ l \in Locals /\ l.release = r /\ l.index = run[p].index + 1 /\ l.fd = Nothing
  <2>1. /\ Rest \in [release : {Nothing}, source : {Nothing}, index : {1}, attempt : {0},
                     offset : {0}, got : {0}, fd : {Nothing}]
    BY DEF Rest
  <2>2. l \in [release : {r}, source : {run[p].source}, index : {run[p].index + 1},
               attempt : {0}, offset : {0}, got : {0}, fd : {Nothing}]
    BY <2>1
  <2> HIDE DEF l
  <2>3. 0 \in 0 .. Retries - 1
    BY FetchAssumption
  <2>4. run[p].source \in Sources \cup {Nothing} /\ run[p].index + 1 \in Nat
    BY <1>1 DEF Locals
  <2>5. QED
    BY <1>1, <2>2, <2>3, <2>4 DEF Locals
<1> HIDE DEF l
<1>5. /\ final' \in [Name -> Inode \cup {Nothing}]
      /\ partial' \in [Name -> Inode \cup {Nothing}]
      /\ final'[n] = partial[n] /\ partial'[n] = Nothing
      /\ \A m \in Name : m # n => final'[m] = final[m] /\ partial'[m] = partial[m]
  BY <1>1, <1>2, <1>3 DEF TypeOK
<1>6. FilesTyped'
  BY <1>1, <1>3, <1>5 DEF TypeOK, FilesTyped
<1>7. FinalVerified'
  <2> SUFFICES ASSUME NEW m \in Name, final'[m] # Nothing
               PROVE  \E s \in Release : Valid(final[m], DigestOf[s][m])'
    BY DEF FinalVerified
  <2>1. CASE m = n
    BY <1>1, <1>2, <1>3, <1>5, <2>1 DEF Valid, Wanted
  <2>2. CASE m # n
    <3>1. PICK s \in Release : Valid(final[m], DigestOf[s][m])
      BY <1>1, <1>5, <2>2 DEF FinalVerified
    <3>2. QED
      BY <1>3, <1>5, <2>2, <3>1 DEF Valid
  <2>3. QED
    BY <2>1, <2>2
<1>8. OneName'
  <2> SUFFICES ASSUME NEW m \in Name, NEW k \in Name, partial'[m] # Nothing
               PROVE  partial'[m] # final'[k] /\ (partial'[k] = partial'[m] => k = m)
    BY DEF OneName
  <2>1. m # n /\ partial'[m] = partial[m]
    BY <1>5
  <2>2. partial[m] # final[k] /\ partial[m] # partial[n] /\ (partial[k] = partial[m] => k = m)
    BY <1>1, <2>1 DEF OneName
  <2>3. QED
    BY <1>5, <2>1, <2>2
<1>9. pc'[p] = "part" /\ run'[p] = l
  BY <1>1, <1>3 DEF TypeOK
<1>10. OnTheWay(p)'
  <2>1. Parts[r] \in Seq(Name) /\ Len(Parts[r]) \in Nat
    BY <1>1, FetchAssumption
  <2>2. l.index \in 1 .. Len(Parts[r]) + 1
    BY <1>1, <1>4, <2>1
  <2>i. r' = r
    BY <1>4, <1>9
  <2>3. ASSUME NEW k \in 1 .. l.index - 1
        PROVE  Valid(final[Parts[r][k]], DigestOf[r][Parts[r][k]])'
    <3>1. k \in 1 .. Len(Parts[r]) /\ (k = run[p].index \/ k \in 1 .. run[p].index - 1)
      BY <1>1, <1>4, <2>1
    <3>2. Parts[r][k] \in Name
      BY <2>1, <3>1
    <3>3. CASE Parts[r][k] = n
      BY <1>2, <1>3, <1>5, <2>i, <3>3 DEF Valid, Wanted
    <3>4. CASE Parts[r][k] # n
      <4>1. k \in 1 .. run[p].index - 1
        BY <3>1, <3>4 DEF Part
      <4>2. Valid(final[Parts[r][k]], DigestOf[r][Parts[r][k]])
        BY <1>0, <1>1, <4>1 DEF OnTheWay
      <4>3. QED
        BY <1>3, <1>5, <2>i, <3>2, <3>4, <4>2 DEF Valid
    <3>5. QED
      BY <3>3, <3>4
  <2>4. QED
    BY <1>1, <1>4, <1>9, <2>2, <2>3 DEF OnTheWay
<1>11. AtPart(p)'
  BY <1>9 DEF AtPart
<1>12. QED
  BY <1>3, <1>4, <1>6, <1>7, <1>8, <1>10, <1>11, Moved

LEMMA RetryStep ==
  ASSUME NEW p \in Proc, OthersIdle(p), MirrorInv, Retry(p)
  PROVE  MirrorInv'
<1>0. pc[p] = "failed"
  BY DEF Retry
<1>1. /\ TypeOK /\ FinalVerified /\ OneName /\ run[p] \in Locals /\ Part(p) \in Name
  BY <1>0, PlaceTyped
<1>2. UNCHANGED <<final, content, manifest, faults>>
  BY DEF Retry
<1>3. /\ partial' \in [Name -> Inode \cup {Nothing}]
      /\ \A m \in Name : partial'[m] \in {partial[m], Nothing}
  BY <1>1, Dropping DEF Retry
<1>4. FilesTyped' /\ FinalVerified' /\ OneName'
  BY <1>1, <1>2, <1>3, FewerNames DEF TypeOK, FilesTyped
<1>5. CASE Ends(p)
  BY <1>2, <1>3, <1>4, <1>5, Ended
<1>6. CASE ~Ends(p)
  <2> DEFINE l == [run[p] EXCEPT !.attempt = @ + 1, !.offset = 0, !.got = 0]
  <2>1. /\ run[p].attempt + 1 < Retries
        /\ pc' = [pc EXCEPT ![p] = "open"]
        /\ run' = [run EXCEPT ![p].attempt = @ + 1, ![p].offset = 0, ![p].got = 0]
    BY <1>6 DEF Retry
  <2>2. run' = [run EXCEPT ![p] = l]
    <3>1. run \in [Proc -> Locals]
      BY <1>1 DEF TypeOK
    <3>2. QED
      BY <2>1, <3>1
  <2>3. run[p].attempt + 1 \in 0 .. Retries - 1
    BY <1>1, <2>1, FetchAssumption DEF Locals
  <2>4. /\ l \in Locals /\ l.release = run[p].release /\ l.index = run[p].index
        /\ l.fd = run[p].fd
    BY <1>1, <2>3 DEF Locals
  <2>5. run[p].fd = Nothing
    BY <1>0, <1>1 DEF TypeOK
  <2> HIDE DEF l
  <2>6. QED
    BY <1>0, <1>2, <1>4, <2>1, <2>2, <2>4, <2>5, SamePart
<1>7. QED
  BY <1>5, <1>6

LEMMA FinishStep ==
  ASSUME NEW p \in Proc, OthersIdle(p), MirrorInv, Finish(p)
  PROVE  MirrorInv'
<1>1. TypeOK /\ OnTheWay(p) /\ pc[p] = "part"
  BY DEF MirrorInv, Finish
<1>2. run[p].release \in Release
  BY <1>1 DEF OnTheWay
<1>3. FilesTyped'
  BY <1>1, <1>2 DEF Finish, FilesTyped, TypeOK
<1>4. QED
  BY <1>3, Ended DEF Finish

LEMMA KillStep ==
  ASSUME NEW p \in Proc, OthersIdle(p), MirrorInv, Kill(p)
  PROVE  MirrorInv'
<1>1. TypeOK
  BY DEF MirrorInv
<1>2. FilesTyped'
  BY <1>1, FaultTyped DEF Kill, FilesTyped, TypeOK
<1>3. QED
  BY <1>2, Ended DEF Kill

(* A step in which nothing happens. *)
LEMMA MirrorStutters ==
  ASSUME MirrorInv, UNCHANGED vars
  PROVE  MirrorInv'
<1>1. /\ partial' = partial /\ final' = final /\ content' = content
      /\ manifest' = manifest /\ faults' = faults /\ pc' = pc /\ run' = run
  BY DEF vars
<1>2. TypeOK'
  BY <1>1 DEF MirrorInv, TypeOK
<1>3. FinalVerified' /\ OneName'
  BY <1>1 DEF MirrorInv, FinalVerified, OneName, Valid
<1>4. ASSUME NEW p \in Proc
      PROVE  OnTheWay(p)' /\ AtPart(p)'
  <2>1. OnTheWay(p) /\ AtPart(p)
    BY DEF MirrorInv
  <2>2. OnTheWay(p)'
    BY <1>1, <2>1 DEF OnTheWay, Valid
  <2>3. AtPart(p)'
    BY <1>1, <2>1 DEF AtPart, PartsLeft, Part, Wanted, Valid, Size
  <2>4. QED
    BY <2>2, <2>3
<1>5. QED
  BY <1>2, <1>3, <1>4 DEF MirrorInv

LEMMA InitMirrorInv == Init => MirrorInv
<1> SUFFICES ASSUME Init PROVE MirrorInv
  OBVIOUS
<1>1. Rest \in Locals /\ Rest.fd = Nothing
  BY FetchAssumption DEF Rest, Locals
<1>2. TypeOK
  <2>1. <<>> \in Seq(Chunks) /\ 0 \in 0 .. MaxFaults
    BY FetchAssumption
  <2>2. QED
    BY <1>1, <2>1 DEF Init, TypeOK
<1>3. QED
  BY <1>2 DEF Init, MirrorInv, FinalVerified, OneName, OnTheWay, AtPart

(* A process that takes a step is the only one whose fetch runs.           *)
LEMMA OnlyRunning ==
  ASSUME TypeOK, Alone, Alone', NEW p \in Proc, Start(p) \/ pc[p] # "idle"
  PROVE  OthersIdle(p)
<1>1. CASE Start(p)
  <2> SUFFICES ASSUME NEW q \in Proc, q # p, pc[q] # "idle" PROVE FALSE
    BY DEF OthersIdle
  <2>1. pc'[p] = "part" /\ pc'[q] = pc[q]
    BY <1>1 DEF Start, TypeOK
  <2>2. QED
    BY <2>1 DEF Alone
<1>2. CASE pc[p] # "idle"
  BY <1>2 DEF Alone, OthersIdle
<1>3. QED
  BY <1>1, <1>2

LEMMA MirrorStep ==
  ASSUME Alone, Alone', MirrorInv, [Next]_vars
  PROVE  MirrorInv'
<1>o. ASSUME NEW p \in Proc,
             \/ Start(p) \/ Step(p) \/ BadResponse(p)
             \/ ReceiveJunk(p) \/ Oversized(p) \/ Kill(p)
      PROVE  OthersIdle(p)
  <2>1. Start(p) \/ pc[p] # "idle"
    BY <1>o DEF Step, Inspect, Drop, Open, BadResponse, OpenPartial, Receive, ReceiveJunk,
                Writes, EndBody, Oversized, Verify, Replace, Retry, Finish, Kill
  <2>2. QED
    BY <2>1, OnlyRunning DEF MirrorInv
<1>1. CASE UNCHANGED vars
  BY <1>1, MirrorStutters
<1>2. ASSUME NEW p \in Proc, OthersIdle(p), Start(p) \/ Inspect(p) \/ Drop(p)
      PROVE  MirrorInv'
  BY <1>2, StartStep, InspectStep, DropStep
<1>3. ASSUME NEW p \in Proc, OthersIdle(p), Open(p) \/ BadResponse(p) \/ OpenPartial(p)
      PROVE  MirrorInv'
  BY <1>3, OpenStep, BadResponseStep, OpenPartialStep
<1>4. ASSUME NEW p \in Proc, OthersIdle(p),
             Receive(p) \/ ReceiveJunk(p) \/ EndBody(p) \/ Oversized(p) \/ Verify(p)
      PROVE  MirrorInv'
  BY <1>4, ReceiveStep, EndBodyStep, OversizedStep, VerifyStep
<1>5. ASSUME NEW p \in Proc, OthersIdle(p), Replace(p) \/ Retry(p) \/ Finish(p) \/ Kill(p)
      PROVE  MirrorInv'
  BY <1>5, ReplaceStep, RetryStep, FinishStep, KillStep
<1>6. QED
  BY <1>o, <1>1, <1>2, <1>3, <1>4, <1>5 DEF Next, Step

-----------------------------------------------------------------------------
(* While no two fetches (DatasetLifecycle.fetch) run at once, each knows   *)
(* at each of its steps which parts are there, whatever those before it    *)
(* left behind, and its handle stands at the end of the partial file:      *)
(* MirrorInv is inductive.                                                 *)
THEOREM MirrorInvariant == Spec /\ []Alone => []MirrorInv
<1>1. MirrorInv /\ Alone /\ Alone' /\ [Next]_vars => MirrorInv'
  BY MirrorStep
<1>2. QED
  BY InitMirrorInv, <1>1, PTL DEF Spec

(* README: every part is verified before it is given its final name.  For  *)
(* any releases, faults and retries, the files under final names are ones  *)
(* a manifest describes, until two fetches overlap (_http_download and     *)
(* _replace_file of two fetches share a partial file).                     *)
THEOREM MirrorAlwaysSound == Spec /\ []Alone => []MirrorSound
<1>1. MirrorInv => MirrorSound
  BY DEF MirrorInv, MirrorSound
<1>2. QED
  BY MirrorInvariant, <1>1, PTL

LEMMA ManifestStep ==
  ASSUME MirrorInv, [Next]_vars, manifest' # manifest
  PROVE  Mirrored(manifest')
<1>1. PICK p \in Proc : Finish(p)
  BY DEF Next, Step, vars, Start, Inspect, Drop, Open, BadResponse, OpenPartial, Receive,
         ReceiveJunk, Writes, EndBody, Oversized, Verify, Replace, Retry, Kill
<1> DEFINE r == run[p].release
<1>2. /\ manifest' = r /\ r \in Release
      /\ run[p].index \in 1 .. Len(Parts[r]) + 1
      /\ ~(run[p].index <= Len(Parts[r]))
      /\ \A k \in 1 .. run[p].index - 1 : Valid(final[Parts[r][k]], DigestOf[r][Parts[r][k]])
  BY <1>1 DEF MirrorInv, OnTheWay, Finish, PartsLeft
<1>3. Len(Parts[r]) \in Nat
  BY <1>2, FetchAssumption
<1>4. run[p].index = Len(Parts[r]) + 1
  BY <1>2, <1>3
<1>5. QED
  BY <1>2, <1>3, <1>4 DEF Mirrored

(* fetch: manifest.json lands last.  Whenever it is written, every part it *)
(* lists is there and verified: no other step of the fetch takes one away, *)
(* and none of another one, until two fetches overlap.                     *)
THEOREM ManifestAlwaysLast == Spec /\ []Alone => ManifestLandsLast
<1>1. MirrorInv /\ [Next]_vars => [manifest' # manifest => Mirrored(manifest')]_vars
  BY ManifestStep
<1>2. QED
  BY MirrorInvariant, <1>1, PTL DEF Spec, ManifestLandsLast
-----------------------------------------------------------------------------
LEMMA PrefixOfSame ==
  ASSUME NEW s \in Seq(Chunks)
  PROVE  IsPrefix(s, s)
BY DEF IsPrefix

LEMMA PrefixOfAppend ==
  ASSUME NEW s \in Seq(Chunks), NEW c \in Chunks
  PROVE  IsPrefix(s, Append(s, c))
<1> DEFINE t == Append(s, c)
<1>1. /\ t \in Seq(Chunks) /\ Len(t) = Len(s) + 1 /\ Len(s) \in Nat
      /\ \A k \in 1 .. Len(s) : t[k] = s[k]
  OBVIOUS
<1> HIDE DEF t
<1>2. SubSeq(s, 1, Len(s)) = s /\ SubSeq(t, 1, Len(s)) = s
  <2>1. /\ SubSeq(t, 1, Len(s)) \in Seq(Chunks) /\ Len(SubSeq(t, 1, Len(s))) = Len(s)
        /\ \A k \in 1 .. Len(s) : SubSeq(t, 1, Len(s))[k] = t[k]
    BY <1>1
  <2>2. SubSeq(t, 1, Len(s)) = s
    BY <1>1, <2>1, SeqEqual
  <2>3. QED
    BY <2>2
<1>3. QED
  BY <1>1, <1>2 DEF IsPrefix, t

(* What a part still begins with is not what is dropped for its length.    *)
LEMMA BeginsFits ==
  ASSUME TypeOK, NEW n \in Name, NEW d, partial[n] # Nothing,
         Begins(content[partial[n]], d)
  PROVE  /\ DropsOversized(n) => partial' = partial
         /\ Size(partial[n]) = PartSize => Valid(partial[n], d)
<1>1. content[partial[n]] \in Seq(Chunks)
  BY DEF TypeOK
<1> DEFINE c == content[partial[n]]
<1>2. Len(c) \in Nat /\ Len(c) <= PartSize /\ \A k \in 1 .. Len(c) : c[k] = <<d, k - 1>>
  BY <1>1 DEF Begins
<1>3. Size(partial[n]) = Len(c)
  BY DEF Size
<1>4. DropsOversized(n) => partial' = partial
  BY <1>2, <1>3, FetchAssumption DEF DropsOversized
<1>5. ASSUME Len(c) = PartSize PROVE c = Whole(d)
  <2>1. c = [k \in 1 .. PartSize |-> c[k]]
    BY <1>1, <1>5
  <2>2. QED
    BY <1>2, <1>5, <2>1 DEF Whole
<1>6. QED
  BY <1>3, <1>4, <1>5 DEF Valid

(* A complete part keeps its final name. *)
LEMMA CompleteKept ==
  ASSUME MirrorInv, [Next]_vars, NEW n \in Name, Complete(n)
  PROVE  final'[n] = final[n]
<1>1. TypeOK
  BY DEF MirrorInv
<1>2. CASE UNCHANGED final
  BY <1>2
<1>3. CASE final' # final
  <2>1. PICK p \in Proc : Drop(p) \/ Replace(p)
    BY <1>3 DEF Next, Step, vars, Start, Inspect, Open, BadResponse, OpenPartial, Receive,
                ReceiveJunk, Writes, EndBody, Oversized, Verify, Retry, Kill, Finish
  <2>2. pc[p] \in {"drop", "replace"} /\ OnTheWay(p) /\ AtPart(p)
    BY <2>1 DEF Drop, Replace, MirrorInv
  <2>3. ~Valid(final[Part(p)], Wanted(p)) /\ Part(p) \in Name
    BY <1>1, <2>2, PartTyped DEF AtPart
  <2>4. Valid(final[n], DigestOf[run[p].release][n])
    <3>1. run[p].release # Nothing
      BY <2>2, FetchAssumption DEF OnTheWay
    <3>2. QED
      BY <3>1 DEF Complete
  <2>5. n # Part(p)
    BY <2>3, <2>4 DEF Wanted
  <2>6. \/ final' = final
        \/ \E f : final' = [final EXCEPT ![Part(p)] = f]
    BY <2>1 DEF Drop, Replace
  <2>7. QED
    BY <1>1, <2>3, <2>5, <2>6 DEF TypeOK
<1>4. QED
  BY <1>2, <1>3

(* The bytes of the part a fetch is at stay, when nothing fails.           *)
LEMMA PartialKept ==
  ASSUME Alone, Alone', MirrorInv, [Next]_vars, NEW p \in Proc,
         pc[p] \notin {"idle", "part"}, faults' = faults,
         partial[Part(p)] # Nothing, Begins(content[partial[Part(p)]], Wanted(p))
  PROVE  \/ final'[Part(p)] = partial[Part(p)]
         \/ /\ partial'[Part(p)] = partial[Part(p)]
            /\ IsPrefix(content[partial[Part(p)]], content'[partial[Part(p)]])
<1> DEFINE n == Part(p)
           old == partial[n]
<1>1. TypeOK /\ OnTheWay(p) /\ AtPart(p) /\ n \in Name
  <2>1. TypeOK /\ OnTheWay(p) /\ AtPart(p)
    BY DEF MirrorInv
  <2>2. QED
    BY <2>1, PartTyped
<1>2. old \in Inode /\ content[old] \in Seq(Chunks)
  BY <1>1 DEF TypeOK
<1>3. CASE partial'[n] = old /\ content'[old] = content[old]
  BY <1>2, <1>3, PrefixOfSame
<1>4. CASE UNCHANGED <<partial, content>>
  BY <1>3, <1>4
<1>5. CASE DropsOversized(n) /\ UNCHANGED content
  BY <1>1, <1>4, <1>5, BeginsFits
<1>6. ~Fault
  BY <1>1, FetchAssumption DEF Fault, TypeOK
<1>7. CASE Drop(p) \/ Retry(p)
  BY <1>5, <1>7 DEF Drop, Retry
<1>8. CASE OpenPartial(p)
  <2>1. /\ partial' = [partial EXCEPT ![n] = old]
        /\ content' = [content EXCEPT ![old] = IF run[p].offset = 0 THEN <<>> ELSE @]
    BY <1>8 DEF OpenPartial
  <2>2. partial'[n] = old
    BY <1>1, <2>1 DEF TypeOK
  <2>3. run[p].offset = Len(content[old])
    BY <1>1, <1>8 DEF AtPart, OpenPartial, Size
  <2>4. content'[old] = content[old]
    <3>1. content'[old] = IF run[p].offset = 0 THEN <<>> ELSE content[old]
      BY <1>1, <1>2, <2>1 DEF TypeOK
    <3>2. Len(content[old]) = 0 => content[old] = <<>>
      BY <1>2
    <3>3. QED
      BY <2>3, <3>1, <3>2
  <2>5. QED
    BY <1>3, <2>2, <2>4
<1>9. CASE Receive(p)
  <2>1. pc[p] = "body" /\ run[p].got < PartSize /\ UNCHANGED partial
    BY <1>9 DEF Receive, Writes
  <2>2. run[p] \in Locals /\ Wanted(p) \in Digest
    BY <1>1, PartTyped DEF TypeOK
  <2>3. run[p].got \in 0 .. PartSize - 1
    BY <2>1, <2>2, FetchAssumption DEF Locals
  <2>4. <<Wanted(p), run[p].got>> \in Chunks
    BY <2>2, <2>3 DEF Chunks, Chunk
  <2>5. run[p].fd = old /\ content'[old] = Append(content[old], <<Wanted(p), run[p].got>>)
    BY <1>9, <2>4, WritesFiles DEF Receive
  <2>6. QED
    BY <1>2, <2>1, <2>4, <2>5, PrefixOfAppend
<1>10. CASE Verify(p)
  <2>1. UNCHANGED content
    BY <1>10 DEF Verify
  <2>2. UNCHANGED partial
    BY <1>1, <1>10, BeginsFits DEF Verify
  <2>3. QED
    BY <1>4, <2>1, <2>2
<1>11. CASE Replace(p)
  <2>1. final' = [final EXCEPT ![n] = old]
    BY <1>11 DEF Replace
  <2>2. QED
    BY <1>1, <2>1 DEF TypeOK
<1>12. CASE Open(p) \/ EndBody(p)
  BY <1>4, <1>12 DEF Open, EndBody
<1>13. CASE UNCHANGED vars
  BY <1>4, <1>13 DEF vars
<1>14. CASE \/ Start(p) \/ Inspect(p) \/ Finish(p)
            \/ BadResponse(p) \/ ReceiveJunk(p) \/ Oversized(p) \/ Kill(p)
  BY <1>6, <1>14 DEF Start, Inspect, Finish, BadResponse, ReceiveJunk, Oversized, Kill
<1>15. QED
  <2>1. CASE Next
    <3>1. PICK q \in Proc : \/ Start(q) \/ Step(q) \/ BadResponse(q)
                            \/ ReceiveJunk(q) \/ Oversized(q) \/ Kill(q)
      BY <2>1 DEF Next
    <3>2. q = p
      <4>1. Start(q) \/ pc[q] # "idle"
        BY <3>1 DEF Step, Inspect, Drop, Open, BadResponse, OpenPartial, Receive, ReceiveJunk,
                    Writes, EndBody, Oversized, Verify, Replace, Retry, Finish, Kill
      <4>2. OthersIdle(q)
        BY <1>1, <4>1, OnlyRunning
      <4>3. QED
        BY <4>2 DEF OthersIdle
    <3>3. QED
      BY <3>1, <3>2, <1>7, <1>8, <1>9, <1>10, <1>11, <1>12, <1>14 DEF Step
  <2>2. QED
    BY <1>13, <2>1

(* README: a rerun skips whatever is already valid, and continues after an *)
(* interruption.  For any releases and part size, until two fetches        *)
(* overlap, no complete part of its release is taken away by a fetch, and  *)
(* while nothing fails it only adds to the bytes that can begin the part   *)
(* it is at, until they get its final name.                                *)
THEOREM BytesAlwaysKept == Spec /\ []Alone => BytesKept
<1> DEFINE Kept ==
      /\ \A n \in Name : Complete(n) => final'[n] = final[n]
      /\ \A p \in Proc :
           pc[p] \notin {"idle", "part"} /\ faults' = faults =>
             LET n == Part(p)
                 old == partial[n]
             IN  old # Nothing /\ Begins(content[old], Wanted(p)) =>
                   \/ final'[n] = old
                   \/ partial'[n] = old /\ IsPrefix(content[old], content'[old])
<1>1. MirrorInv /\ Alone /\ Alone' /\ [Next]_vars => Kept
  BY CompleteKept, PartialKept
<1> HIDE DEF Kept
<1>2. MirrorInv /\ Alone /\ Alone' /\ [Next]_vars => [Kept]_vars
  BY <1>1
<1>3. Spec /\ []Alone => [][Kept]_vars
  BY MirrorInvariant, <1>2, PTL DEF Spec
<1>4. QED
  BY <1>3 DEF BytesKept, Kept
=============================================================================
