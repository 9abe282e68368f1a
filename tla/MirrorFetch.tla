------------------------------ MODULE MirrorFetch ------------------------------
(***************************************************************************)
(* lexicon-data fetch: DatasetLifecycle.fetch mirrors a release into a     *)
(* directory, part by part, through a ".partial" file that _http_download  *)
(* and _copy_local_asset resume, and writes manifest.json last.  No lock   *)
(* is taken, so the processes in Proc share the directory.                 *)
(*                                                                         *)
(* A part is PartSize chunks; chunk k of digest d is the pair <<d, k>>,    *)
(* and Nothing is a chunk of junk.  Names and inodes are kept apart, as a  *)
(* POSIX directory does: a handle stays on the inode it opened, whatever   *)
(* the directory does with its name.  At most MaxFaults faults (of the     *)
(* server, the source or the process) happen.                              *)
(*                                                                         *)
(* An operator marked "Defect" is no part of the specification: it is the  *)
(* definition below it with a plausible bug, which a property must catch.  *)
(***************************************************************************)
EXTENDS Naturals, FiniteSets, SequencesExt

CONSTANTS
  Proc, Release, Name, Digest, Inode,
  Parts,      \* the names of a release's parts, in manifest order
  DigestOf,   \* DigestOf[r][n] is the SHA-256 the manifest of r gives to n
  Sources,    \* where a fetch reads from: "http", "local" or either
  PartSize,   \* size of every part, in chunks
  Retries,    \* attempts of _http_download
  MaxFaults,  \* bound on faults
  Nothing     \* no file, no handle, no manifest, no release; a junk chunk

(* There are inodes enough for every name and every handle.                *)
ASSUME FetchAssumption ==
  /\ PartSize \in Nat \ {0} /\ Retries \in Nat \ {0} /\ MaxFaults \in Nat
  /\ Sources \subseteq {"http", "local"}
  /\ Parts \in [Release -> Seq(Name)]
  /\ DigestOf \in [Release -> [Name -> Digest]]
  /\ Nothing \notin Inode \cup Release \cup Digest
  /\ IsFiniteSet(Name) /\ IsFiniteSet(Proc) /\ IsFiniteSet(Inode)
  /\ Cardinality(Inode) > 2 * Cardinality(Name) + Cardinality(Proc)

VARIABLES
  partial,   \* the inode of each part's ".partial" file
  final,     \* the inode under each part's final name
  content,   \* the chunks of each inode
  manifest,  \* the release manifest.json describes
  faults,    \* faults so far (bounded by MaxFaults)
  pc, run    \* each fetch's position and its locals

directory == <<partial, final, content, manifest>>
vars == <<directory, faults, pc, run>>

Rest == [release |-> Nothing, source |-> Nothing, index |-> 1, attempt |-> 0,
         offset |-> 0, got |-> 0, fd |-> Nothing]

Chunk(d) == {<<d, k>> : k \in 0 .. PartSize - 1}
Chunks == {Nothing} \cup UNION {Chunk(d) : d \in Digest}

(* The bytes that have the digest d, or begin like those that have.        *)
Whole(d) == [k \in 1 .. PartSize |-> <<d, k - 1>>]
Begins(c, d) == Len(c) <= PartSize /\ \A k \in 1 .. Len(c) : c[k] = <<d, k - 1>>

(* _valid_file: size and SHA-256 of the file under a name.                 *)
Valid(file, d) == file # Nothing /\ content[file] = Whole(d)

Size(file) == IF file = Nothing THEN 0 ELSE Len(content[file])

(* The part a fetch is at. *)
Part(p) == Parts[run[p].release][run[p].index]
Wanted(p) == DigestOf[run[p].release][Part(p)]

(* Defect: the last part is never reached. *)
PartsLeftButOne(p) == run[p].index < Len(Parts[run[p].release])

PartsLeft(p) == run[p].index <= Len(Parts[run[p].release])
-----------------------------------------------------------------------------
Init ==
  /\ partial = [n \in Name |-> Nothing]
  /\ final = [n \in Name |-> Nothing]
  /\ content = [i \in Inode |-> <<>>]
  /\ manifest = Nothing
  /\ faults = 0
  /\ pc = [p \in Proc |-> "idle"]
  /\ run = [p \in Proc |-> Rest]

Goto(p, from, to) ==
  /\ pc[p] = from
  /\ pc' = [pc EXCEPT ![p] = to]

Ends(p) ==
  /\ pc' = [pc EXCEPT ![p] = "idle"]
  /\ run' = [run EXCEPT ![p] = Rest]

(* An attempt raises: only a download is retried.                          *)
Fails(p) ==
  IF run[p].source = "http"
  THEN /\ pc' = [pc EXCEPT ![p] = "failed"]
       /\ run' = [run EXCEPT ![p].fd = Nothing]
  ELSE Ends(p)

Fault == faults < MaxFaults /\ faults' = faults + 1

Drops(n) == partial' = [partial EXCEPT ![n] = Nothing]
DropsOversized(n) ==
  IF Size(partial[n]) > PartSize THEN Drops(n) ELSE UNCHANGED partial

Unused == Inode \ ({partial[n] : n \in Name} \cup {final[n] : n \in Name}
                     \cup {run[p].fd : p \in Proc})
-----------------------------------------------------------------------------
Start(p) ==
  /\ Goto(p, "idle", "part")
  /\ \E r \in Release, s \in Sources :
       run' = [run EXCEPT ![p] = [Rest EXCEPT !.release = r, !.source = s]]
  /\ UNCHANGED <<directory, faults>>

(* A part that is valid already is skipped.                                *)
Inspect(p) ==
  /\ pc[p] = "part"
  /\ PartsLeft(p)
  /\ IF Valid(final[Part(p)], Wanted(p))
     THEN run' = [run EXCEPT ![p].index = @ + 1] /\ UNCHANGED pc
     ELSE pc' = [pc EXCEPT ![p] = "drop"] /\ UNCHANGED run
  /\ UNCHANGED <<directory, faults>>

(* An oversized partial and an unverified final file are dropped first.    *)
Drop(p) ==
  /\ Goto(p, "drop", "open")
  /\ DropsOversized(Part(p))
  /\ final' = [final EXCEPT ![Part(p)] = Nothing]
  /\ UNCHANGED <<content, manifest, faults, run>>

(* The request for the bytes from the partial file's size on.  A server    *)
(* that has no byte there answers 416, which the transport raises.         *)
Open(p) ==
  LET offset == Size(partial[Part(p)]) IN
  /\ pc[p] = "open"
  /\ IF run[p].source = "http" /\ offset >= PartSize
     THEN Fails(p)
     ELSE /\ pc' = [pc EXCEPT ![p] = "file"]
          /\ run' = [run EXCEPT ![p].offset = offset]
  /\ UNCHANGED <<directory, faults>>

(* Another error; or, from a server, a Range header it ignores or an       *)
(* invalid Content-Range, either of which drops the partial file.          *)
BadResponse(p) ==
  /\ pc[p] = "open"
  /\ Fault
  /\ UNCHANGED partial \/ (run[p].source = "http" /\ Drops(Part(p)))
  /\ Fails(p)
  /\ UNCHANGED <<final, content, manifest>>

(* Defect: the partial file is always opened to be written from scratch. *)
OpenTruncating(p) ==
  LET n == Part(p) IN
  /\ Goto(p, "file", "body")
  /\ \E f \in IF partial[n] = Nothing THEN Unused ELSE {partial[n]} :
       /\ partial' = [partial EXCEPT ![n] = f]
       /\ content' = [content EXCEPT ![f] = <<>>]
       /\ run' = [run EXCEPT ![p].fd = f, ![p].got = run[p].offset]
  /\ UNCHANGED <<final, manifest, faults>>

(* partial.open: "ab" to resume, "wb" (which truncates) to begin.          *)
OpenPartial(p) ==
  LET n == Part(p)
      file == IF partial[n] = Nothing THEN CHOOSE f \in Unused : TRUE ELSE partial[n]
      empty == partial[n] = Nothing \/ run[p].offset = 0
  IN
  /\ Goto(p, "file", "body")
  /\ partial' = [partial EXCEPT ![n] = file]
  /\ content' = [content EXCEPT ![file] = IF empty THEN <<>> ELSE @]
  /\ run' = [run EXCEPT ![p].fd = file, ![p].got = run[p].offset]
  /\ UNCHANGED <<final, manifest, faults>>

(* Writing a chunk through p's handle: at the end of the file if it was    *)
(* opened to append, at the handle's own position otherwise.               *)
Written(p, chunk) ==
  LET old == content[run[p].fd]
      at == IF run[p].offset > 0 THEN Len(old) + 1 ELSE run[p].got + 1
      length == IF at > Len(old) THEN at ELSE Len(old)
  IN  [k \in 1 .. length |-> IF k = at THEN chunk
                             ELSE IF k <= Len(old) THEN old[k] ELSE Nothing]

Writes(p, chunk) ==
  /\ pc[p] = "body"
  /\ run[p].got < PartSize
  /\ content' = [content EXCEPT ![run[p].fd] = Written(p, chunk)]
  /\ run' = [run EXCEPT ![p].got = @ + 1]
  /\ UNCHANGED <<partial, final, manifest, pc>>

Receive(p) == Writes(p, <<Wanted(p), run[p].got>>) /\ UNCHANGED faults

ReceiveJunk(p) == Fault /\ Writes(p, Nothing)

(* The body ends: where it should, or early.                               *)
EndBody(p) ==
  /\ Goto(p, "body", "verify")
  /\ run' = [run EXCEPT ![p].fd = Nothing]
  /\ IF run[p].got >= PartSize THEN UNCHANGED faults ELSE Fault
  /\ UNCHANGED directory

(* A chunk beyond the declared size raises before it is written.           *)
Oversized(p) ==
  /\ pc[p] = "body"
  /\ run[p].got >= PartSize
  /\ Fault
  /\ Fails(p)
  /\ UNCHANGED directory

(* Defect: the size alone is checked. *)
VerifySize(p) ==
  LET n == Part(p) IN
  /\ pc[p] = "verify"
  /\ IF Size(partial[n]) = PartSize
     THEN pc' = [pc EXCEPT ![p] = "replace"] /\ UNCHANGED run
     ELSE Fails(p)
  /\ UNCHANGED <<directory, faults>>

(* The size, then the digest, of the file that now has the partial's name; *)
(* a file of the right size and the wrong digest is dropped.               *)
Verify(p) ==
  LET n == Part(p) IN
  /\ pc[p] = "verify"
  /\ IF Valid(partial[n], Wanted(p))
     THEN pc' = [pc EXCEPT ![p] = "replace"] /\ UNCHANGED <<partial, run>>
     ELSE /\ IF Size(partial[n]) = PartSize THEN Drops(n) ELSE UNCHANGED partial
          /\ Fails(p)
  /\ UNCHANGED <<final, content, manifest, faults>>

Replace(p) ==
  LET n == Part(p) IN
  /\ pc[p] = "replace"
  /\ IF partial[n] = Nothing
     THEN Fails(p) /\ UNCHANGED <<partial, final>>
     ELSE /\ final' = [final EXCEPT ![n] = partial[n]]
          /\ Drops(n)
          /\ pc' = [pc EXCEPT ![p] = "part"]
          /\ run' = [run EXCEPT ![p] = [Rest EXCEPT !.release = run[p].release,
                         !.source = run[p].source, !.index = run[p].index + 1]]
  /\ UNCHANGED <<content, manifest, faults>>

(* The end of _http_download's loop: the next attempt, or the error.       *)
Retry(p) ==
  /\ pc[p] = "failed"
  /\ DropsOversized(Part(p))
  /\ IF run[p].attempt + 1 < Retries
     THEN /\ pc' = [pc EXCEPT ![p] = "open"]
          /\ run' = [run EXCEPT ![p].attempt = @ + 1, ![p].offset = 0, ![p].got = 0]
     ELSE Ends(p)
  /\ UNCHANGED <<final, content, manifest, faults>>

(* Defect: the manifest is written before the parts. *)
FinishFirst(p) ==
  /\ pc[p] = "part"
  /\ manifest' = run[p].release
  /\ IF PartsLeft(p) THEN UNCHANGED <<pc, run>> ELSE Ends(p)
  /\ UNCHANGED <<partial, final, content, faults>>

(* manifest.json is written beside the parts and renamed into place, last. *)
Finish(p) ==
  /\ pc[p] = "part"
  /\ ~PartsLeft(p)
  /\ manifest' = run[p].release
  /\ Ends(p)
  /\ UNCHANGED <<partial, final, content, faults>>

(* The process is killed, or its disk fills up.                            *)
Kill(p) ==
  /\ pc[p] # "idle"
  /\ Fault
  /\ Ends(p)
  /\ UNCHANGED directory

Step(p) ==
  \/ Inspect(p) \/ Drop(p) \/ Open(p) \/ OpenPartial(p) \/ Receive(p)
  \/ EndBody(p) \/ Verify(p) \/ Replace(p) \/ Retry(p) \/ Finish(p)

Next ==
  \E p \in Proc : \/ Start(p) \/ Step(p) \/ BadResponse(p)
                  \/ ReceiveJunk(p) \/ Oversized(p) \/ Kill(p)

Spec == Init /\ [][Next]_vars

(* A running fetch goes on, and the user reruns one that has ended.        *)
FairSpec == Spec /\ \A p \in Proc : WF_vars(Step(p)) /\ WF_vars(Start(p))
-----------------------------------------------------------------------------
Locals == [release : Release \cup {Nothing}, source : Sources \cup {Nothing},
           index : Nat, attempt : 0 .. Retries - 1, offset : Nat, got : Nat,
           fd : Inode \cup {Nothing}]

(* The types of the variables; a fetch has a handle exactly while it       *)
(* copies a body, and never goes on past its retries.                      *)
TypeOK ==
  /\ partial \in [Name -> Inode \cup {Nothing}]
  /\ final \in [Name -> Inode \cup {Nothing}]
  /\ content \in [Inode -> Seq(Chunks)]
  /\ manifest \in Release \cup {Nothing}
  /\ faults \in 0 .. MaxFaults
  /\ pc \in [Proc -> {"idle", "part", "drop", "open", "file", "body", "verify",
                      "replace", "failed"}]
  /\ run \in [Proc -> Locals]
  /\ \A p \in Proc : (pc[p] = "body") <=> (run[p].fd # Nothing)

(* README: every part is verified against its manifest SHA-256 before it   *)
(* is given its final name.  Whatever was cut short, resumed, mixed with   *)
(* another release's bytes or killed, a file under a final name is one the *)
(* manifest of a release describes.                                        *)
FinalVerified ==
  \A n \in Name : final[n] # Nothing =>
    \E r \in Release : Valid(final[n], DigestOf[r][n])

(* The types of the variables, and what stands under a final name.         *)
MirrorSound == TypeOK /\ FinalVerified

Mirrored(r) ==
  \A k \in 1 .. Len(Parts[r]) : Valid(final[Parts[r][k]], DigestOf[r][Parts[r][k]])

(* fetch: the manifest lands last.  When manifest.json is written every    *)
(* part it lists is there and verified.                                    *)
ManifestLandsLast == [][ manifest' # manifest => Mirrored(manifest') ]_vars

(* A part a fetch of its release would have to fetch again if it went.     *)
Complete(n) ==
  \E p \in Proc :
    /\ run[p].release # Nothing
    /\ Valid(final[n], DigestOf[run[p].release][n])
    /\ \A q \in Proc : run[q].release \in {run[p].release, Nothing}

(* README: a rerun skips whatever is already valid, and continues after an *)
(* interruption.  A fetch never takes away a complete part of its release; *)
(* and while the server and the process behave, bytes that are there are   *)
(* kept if they can begin the part, until they get its final name.         *)
BytesKept ==
  [][ /\ \A n \in Name : Complete(n) => final'[n] = final[n]
      /\ \A p \in Proc :
           pc[p] \notin {"idle", "part"} /\ faults' = faults =>
             LET n == Part(p)
                 old == partial[n]
             IN  old # Nothing /\ Begins(content[old], Wanted(p)) =>
                   \/ final'[n] = old
                   \/ partial'[n] = old /\ IsPrefix(content[old], content'[old]) ]_vars

(* The users who fetch settle on the release r.                            *)
SettlesOn(r) == <>[](\A p \in Proc : run[p].release \in {r, Nothing})

Completes(r) == <>(manifest = r /\ Mirrored(r))

(* Every fetch returns or raises, however the server answers.              *)
FetchEnds == \A p \in Proc : pc[p] # "idle" ~> pc[p] = "idle"

(* README: fetch is resumable and idempotent: rerun after an interruption, *)
(* it continues and in the end completes, unless a partial file as long as *)
(* its part is left behind: each request for what follows it is refused.   *)
FetchCompletesOrFull ==
  /\ FetchEnds
  /\ \A r \in Release : SettlesOn(r) =>
       Completes(r) \/ <>[](\E n \in Name : Size(partial[n]) = PartSize)
-----------------------------------------------------------------------------
(* No two fetches run at once.                                             *)
Alone == \A p, q \in Proc : pc[p] # "idle" /\ pc[q] # "idle" => p = q

(* What keeps these invariant while no two fetches run at once.            *)

(* A file has one name, and a file with a final name is no partial one.    *)
OneName ==
  \A m, n \in Name : partial[m] # Nothing =>
    partial[m] # final[n] /\ (partial[n] = partial[m] => n = m)

(* Where p is: the parts before the one it is at are there and verified.   *)
OnTheWay(p) ==
  LET r == run[p].release IN
  pc[p] # "idle" =>
    /\ r \in Release
    /\ run[p].index \in 1 .. Len(Parts[r]) + 1
    /\ \A k \in 1 .. run[p].index - 1 : Valid(final[Parts[r][k]], DigestOf[r][Parts[r][k]])

(* What it knows of the part it is at: it has no final name yet, and what  *)
(* the handle has written is what the partial file holds.                  *)
AtPart(p) ==
  pc[p] \notin {"idle", "part"} =>
    /\ PartsLeft(p)
    /\ ~Valid(final[Part(p)], Wanted(p))
    /\ pc[p] # "drop" => final[Part(p)] = Nothing
    /\ pc[p] = "file" => run[p].offset = Size(partial[Part(p)])
    /\ pc[p] = "body" =>
         /\ run[p].fd = partial[Part(p)]
         /\ run[p].got = Len(content[run[p].fd])
    /\ pc[p] = "replace" => Valid(partial[Part(p)], Wanted(p))

MirrorInv ==
  TypeOK /\ FinalVerified /\ OneName /\ \A p \in Proc : OnTheWay(p) /\ AtPart(p)
=============================================================================
