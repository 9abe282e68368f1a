--------------------------- MODULE ReleasePublication ---------------------------
(***************************************************************************)
(* A release from its packs to GitHub.  pipeline/release.py compresses     *)
(* every artifact of a build into parts, which pipeline/manifest.py        *)
(* publishes in the package directory by hard links, and writes            *)
(* manifest.json last.  scripts/publish_data_release.py validates that     *)
(* directory, stages it as a draft release, and publishes the draft when   *)
(* there is an acceptance report for the same manifest.                    *)
(*                                                                         *)
(* A file has the content of the build it comes from, or is Torn while it  *)
(* is written.  All builds have one version, so their names collide.       *)
(***************************************************************************)
EXTENDS Naturals, Sequences

CONSTANTS
  Nothing, Torn,
  Manifest,   \* the asset manifest.json
  Operator,   \* those who run the commands
  Packager,   \* those of them who package, one at a time
  Build,      \* contents of the packs
  Artifacts,  \* the artifacts of a release in their order
  Parts,      \* artifact -> into how many parts it is split
  Size,       \* content -> the size of its files
  Digests,    \* whether GitHub shows the digest of an asset
  MaxRuns,    \* bound on packaging runs
  MaxFaults   \* bound on kills and failures

Artifact == {Artifacts[i] : i \in 1 .. Len(Artifacts)}
Name == UNION {{<<a, k>> : k \in 1 .. Parts[a]} : a \in Artifact}
Asset == Name \cup {Manifest}
Content == Build \cup {Torn}

ASSUME ReleaseAssumption ==
  /\ Packager \subseteq Operator
  /\ Artifacts \in Seq(Artifact) /\ Artifacts # <<>>
  /\ Nothing \notin Content /\ Torn \notin Build
  /\ Parts \in [Artifact -> Nat \ {0}]
  /\ Size \in [Content -> Nat]
  /\ Digests \in BOOLEAN
  /\ MaxRuns \in Nat /\ MaxFaults \in Nat

VARIABLES
  temp,      \* .<name>.partial in the package directory
  final,     \* <name>
  manifest,  \* the build whose manifest.json is there
  pc, job,   \* operator -> the command it runs
  remote,    \* the release on GitHub
  setting,   \* whether the repository makes releases immutable
  reports,   \* builds there is an acceptance report for
  told,      \* what commands have reported
  runs, faults

package == <<temp, final, manifest>>
github == <<remote, setting>>
vars == <<package, pc, job, github, reports, told, runs, faults>>

NoAssets == [a \in Asset |-> Nothing]

Init ==
  /\ temp = [n \in Name |-> Nothing]
  /\ final = [n \in Name |-> Nothing]
  /\ manifest = Nothing
  /\ pc = [o \in Operator |-> "idle"]
  /\ job = [o \in Operator |-> Nothing]
  /\ remote = Nothing
  /\ setting = TRUE
  /\ reports = {}
  /\ told = {}
  /\ runs = 0
  /\ faults = 0

Goto(o, step) == pc' = [pc EXCEPT ![o] = step]

End(o) == Goto(o, "idle") /\ job' = [job EXCEPT ![o] = Nothing]
-----------------------------------------------------------------------------
(* package_packs.  A writer has opened temporaries and finished them; its  *)
(* committed parts have their names, and generated are those of artifacts  *)
(* that are done.  found and loose are history: what was there before the  *)
(* run, and the part it had linked and not yet noted when it failed.       *)
StartPackage(o, b) ==
  /\ pc[o] = "idle"
  /\ runs < MaxRuns
  /\ \A p \in Packager : pc[p] = "idle"
  /\ Goto(o, "open")
  /\ job' = [job EXCEPT ![o] = [build |-> b, found |-> final, at |-> 1, part |-> 1,
                                opened |-> {}, committed |-> {}, generated |-> {},
                                loose |-> {}]]
  /\ runs' = runs + 1
  /\ UNCHANGED <<package, github, reports, told, faults>>

Current(o) == <<Artifacts[job[o].at], job[o].part>>

LastPart(o) == job[o].part = Parts[Artifacts[job[o].at]]

Packaging(o, step) == pc[o] = step /\ UNCHANGED <<github, reports, told, runs, faults>>

(* Exclusive creation: a temporary that is there already fails the run.    *)
OpenPart(o) ==
  /\ Packaging(o, "open")
  /\ UNCHANGED <<final, manifest>>
  /\ IF temp[Current(o)] = Nothing
     THEN /\ temp' = [temp EXCEPT ![Current(o)] = Torn]
          /\ job' = [job EXCEPT ![o].opened = @ \cup {Current(o)}]
          /\ Goto(o, "fill")
     ELSE Goto(o, "abort") /\ UNCHANGED <<temp, job>>

FillPart(o) ==
  /\ Packaging(o, "fill")
  /\ temp' = [temp EXCEPT ![Current(o)] = job[o].build]
  /\ job' = [job EXCEPT ![o].part = IF LastPart(o) THEN 1 ELSE @ + 1]
  /\ Goto(o, IF LastPart(o) THEN "link" ELSE "open")
  /\ UNCHANGED <<final, manifest>>

(* Defect: the part replaces whatever has its name. *)
LinkOver(o) ==
  /\ Packaging(o, "link")
  /\ UNCHANGED <<temp, manifest, job>>
  /\ final' = [final EXCEPT ![Current(o)] = temp[Current(o)]]
  /\ Goto(o, "unlink")

(* os.link does not replace: a part that is there already fails the run.   *)
LinkPart(o) ==
  /\ Packaging(o, "link")
  /\ UNCHANGED <<temp, manifest, job>>
  /\ IF final[Current(o)] = Nothing /\ temp[Current(o)] # Nothing
     THEN /\ final' = [final EXCEPT ![Current(o)] = temp[Current(o)]]
          /\ Goto(o, "unlink")
     ELSE Goto(o, "abort") /\ UNCHANGED final

(* Defect: parts are remembered only when their artifact is complete. *)
UnlinkForgets(o) ==
  /\ Packaging(o, "unlink")
  /\ temp' = [temp EXCEPT ![Current(o)] = Nothing]
  /\ LET next == job[o].at + 1 IN
     IF LastPart(o)
     THEN /\ job' = [job EXCEPT ![o] = [job[o] EXCEPT !.generated = @ \cup {Current(o)},
                                !.opened = {}, !.at = next, !.part = 1]]
          /\ Goto(o, IF next > Len(Artifacts) THEN "manifest" ELSE "open")
     ELSE job' = [job EXCEPT ![o].part = @ + 1] /\ Goto(o, "link")
  /\ UNCHANGED <<final, manifest>>

UnlinkTemporary(o) ==
  /\ Packaging(o, "unlink")
  /\ temp' = [temp EXCEPT ![Current(o)] = Nothing]
  /\ LET mine == job[o].committed \cup {Current(o)}
         next == job[o].at + 1
     IN IF LastPart(o)
        THEN /\ job' = [job EXCEPT ![o] = [job[o] EXCEPT !.generated = @ \cup mine,
                                !.committed = {}, !.opened = {}, !.at = next, !.part = 1]]
             /\ Goto(o, IF next > Len(Artifacts) THEN "manifest" ELSE "open")
        ELSE /\ job' = [job EXCEPT ![o] = [job[o] EXCEPT !.committed = mine, !.part = @ + 1]]
             /\ Goto(o, "link")
  /\ UNCHANGED <<final, manifest>>

WriteManifest(o) ==
  /\ Packaging(o, "manifest")
  /\ manifest' = job[o].build
  /\ End(o)
  /\ UNCHANGED <<temp, final>>

(* The part that has been linked and not yet noted.                        *)
Linked(o) == IF pc[o] = "unlink" THEN {Current(o)} ELSE job[o].loose

(* Any step may raise; the writer and then package_packs remove what they  *)
(* have noted, file by file, so a part whose temporary could not be        *)
(* removed once it was linked stays.                                       *)
FailPackage(o) ==
  /\ pc[o] \in {"open", "fill", "link", "unlink", "manifest"}
  /\ faults < MaxFaults
  /\ faults' = faults + 1
  /\ Goto(o, "abort")
  /\ job' = [job EXCEPT ![o].loose = Linked(o)]
  /\ UNCHANGED <<package, github, reports, told, runs>>

AbortFile(o) ==
  /\ Packaging(o, "abort")
  /\ UNCHANGED <<manifest, pc, job>>
  /\ \/ \E n \in job[o].opened :
          temp[n] # Nothing /\ temp' = [temp EXCEPT ![n] = Nothing] /\ UNCHANGED final
     \/ \E n \in job[o].committed \cup job[o].generated :
          final[n] # Nothing /\ final' = [final EXCEPT ![n] = Nothing] /\ UNCHANGED temp

Aborted(o) ==
  /\ Packaging(o, "abort")
  /\ \A n \in job[o].opened : temp[n] = Nothing
  /\ \A n \in job[o].committed \cup job[o].generated : final[n] = Nothing
  /\ End(o)
  /\ UNCHANGED package

(* What a killed run left can only be removed by hand. *)
RemoveOutputs ==
  /\ \A p \in Packager : pc[p] = "idle"
  /\ package # <<[n \in Name |-> Nothing], [n \in Name |-> Nothing], Nothing>>
  /\ temp' = [n \in Name |-> Nothing]
  /\ final' = [n \in Name |-> Nothing]
  /\ manifest' = Nothing
  /\ UNCHANGED <<pc, job, github, reports, told, runs, faults>>
-----------------------------------------------------------------------------
(* validate_bundle: every part the manifest names has its digest.          *)
Bundle(b) == manifest = b /\ \A n \in Name : final[n] = b

Local(a) == IF a = Manifest THEN manifest ELSE final[a]

(* Defect: assets are compared by their sizes alone. *)
WrongSize(a, b) == remote.assets[a] # Nothing /\ Size[remote.assets[a]] # Size[b]

(* _verify_remote_assets: the size, and the digest if GitHub shows it.     *)
Wrong(a, b) ==
  LET c == remote.assets[a] IN
  c # Nothing /\ (Size[c] # Size[b] \/ (Digests /\ c # b))

Missing(b) == {a \in Asset : remote.assets[a] = Nothing}

Publishing(o, step) == pc[o] = step /\ UNCHANGED <<package, setting, reports, runs, faults>>

Raise(o) == End(o) /\ UNCHANGED <<remote, told>>

StartStage(o, b) ==
  /\ Publishing(o, "idle")
  /\ Bundle(b)
  /\ Goto(o, "lookup")
  /\ job' = [job EXCEPT ![o] = [build |-> b, missing |-> {}]]
  /\ UNCHANGED <<remote, told>>

(* Releases must be immutable; the draft is found or created.              *)
FindDraft(o) ==
  /\ Publishing(o, "lookup")
  /\ IF setting /\ (remote = Nothing \/ remote.draft)
     THEN /\ remote' = IF remote = Nothing
                       THEN [draft |-> TRUE, immutable |-> FALSE, assets |-> NoAssets] ELSE remote
          /\ Goto(o, "list")
          /\ UNCHANGED <<job, told>>
     ELSE Raise(o)

ListRemote(o) ==
  /\ Publishing(o, "list")
  /\ IF \E a \in Asset : Wrong(a, job[o].build)
     THEN Raise(o)
     ELSE /\ job' = [job EXCEPT ![o].missing = Missing(job[o].build)]
          /\ Goto(o, "upload")
          /\ UNCHANGED <<remote, told>>

(* gh uploads a batch in any order what the files hold now; it refuses an  *)
(* asset that is there already and a release that is published.            *)
Upload(o) ==
  /\ Publishing(o, "upload")
  /\ \E a \in job[o].missing :
       IF remote.draft /\ remote.assets[a] = Nothing /\ Local(a) # Nothing
       THEN /\ remote' = [remote EXCEPT !.assets[a] = Local(a)]
            /\ job' = [job EXCEPT ![o].missing = @ \ {a}]
            /\ UNCHANGED <<pc, told>>
       ELSE Raise(o)

Staged(o) ==
  /\ Publishing(o, "upload")
  /\ job[o].missing = {}
  /\ End(o)
  /\ UNCHANGED remote
  /\ told' = IF (\E a \in Asset : Wrong(a, job[o].build)) \/ Missing(job[o].build) # {}
             THEN told
             ELSE told \cup {[action |-> "staged", build |-> job[o].build]}

(* publish_release: the report has to be about the digest of this manifest.*)
StartPublish(o, b) ==
  /\ Publishing(o, "idle")
  /\ Bundle(b)
  /\ b \in reports
  /\ Goto(o, "draft")
  /\ job' = [job EXCEPT ![o] = [build |-> b]]
  /\ UNCHANGED <<remote, told>>

CheckDraft(o) ==
  /\ Publishing(o, "draft")
  /\ IF /\ remote # Nothing
        /\ remote.draft
        /\ Missing(job[o].build) = {}
        /\ \A a \in Asset : ~Wrong(a, job[o].build)
     THEN Goto(o, "edit") /\ UNCHANGED <<job, remote, told>>
     ELSE Raise(o)

Edit(o) ==
  /\ Publishing(o, "edit")
  /\ remote' = [remote EXCEPT !.draft = FALSE, !.immutable = @ \/ (setting /\ remote.draft)]
  /\ Goto(o, "confirm")
  /\ UNCHANGED <<job, told>>

Confirm(o) ==
  /\ Publishing(o, "confirm")
  /\ End(o)
  /\ UNCHANGED remote
  /\ told' = IF remote.immutable
             THEN told \cup {[action |-> "published", build |-> job[o].build]} ELSE told
-----------------------------------------------------------------------------
(* A kill, or a call to GitHub that fails. *)
Kill(o) ==
  /\ pc[o] # "idle"
  /\ faults < MaxFaults
  /\ faults' = faults + 1
  /\ End(o)
  /\ UNCHANGED <<package, github, reports, told, runs>>

(* The acceptance of a packaged build elsewhere, by its verdict alone.      *)
Accept(b) ==
  /\ Bundle(b)
  /\ b \notin reports
  /\ reports' = reports \cup {b}
  /\ UNCHANGED <<package, pc, job, github, told, runs, faults>>

(* Somebody changes the settings of the repository. *)
ChangeSetting ==
  /\ setting
  /\ setting' = FALSE
  /\ UNCHANGED <<package, pc, job, remote, reports, told, runs, faults>>

PackageStep(o) ==
  \/ OpenPart(o) \/ FillPart(o) \/ LinkPart(o) \/ UnlinkTemporary(o) \/ WriteManifest(o)
  \/ AbortFile(o) \/ Aborted(o)

PublishStep(o) ==
  \/ FindDraft(o) \/ ListRemote(o) \/ Upload(o) \/ Staged(o)
  \/ CheckDraft(o) \/ Edit(o) \/ Confirm(o)

Next ==
  \/ \E o \in Packager, b \in Build : StartPackage(o, b)
  \/ \E o \in Packager : PackageStep(o) \/ FailPackage(o)
  \/ \E o \in Operator, b \in Build : StartStage(o, b) \/ StartPublish(o, b)
  \/ \E o \in Operator : PublishStep(o) \/ Kill(o)
  \/ \E b \in Build : Accept(b)
  \/ RemoveOutputs \/ ChangeSetting

Spec == Init /\ [][Next]_vars
-----------------------------------------------------------------------------
Release == [draft : BOOLEAN, immutable : BOOLEAN, assets : [Asset -> Build \cup {Nothing}]]

TypeOK ==
  /\ temp \in [Name -> Content \cup {Nothing}]
  /\ final \in [Name -> Build \cup {Nothing}]
  /\ manifest \in Build \cup {Nothing}
  /\ \A o \in Operator : pc[o] = "idle" <=> job[o] = Nothing
  /\ remote \in Release \cup {Nothing}
  /\ setting \in BOOLEAN
  /\ reports \subseteq Build
  /\ told \subseteq [action : {"staged", "published"}, build : Build]
  /\ faults \in 0 .. MaxFaults

(* Whatever was killed, failed or run again in its directory, a manifest   *)
(* stands only beside all the parts it names, with their contents.         *)
ManifestBacked == manifest # Nothing => Bundle(manifest)

(* The types of the variables, and the package directory.                  *)
PackageSound == TypeOK /\ ManifestBacked

(* A run that fails leaves every part it found, and of its own none but    *)
(* the one it had linked and not yet noted when it failed.                 *)
FailureRestores ==
  [][\A o \in Packager : pc[o] = "abort" /\ pc'[o] = "idle" /\ faults' = faults =>
       /\ final' = [n \in Name |-> IF n \in job[o].loose THEN job[o].build ELSE job[o].found[n]]
       /\ \A n \in job[o].loose : job[o].found[n] = Nothing]_vars

(* Every asset is there and is the build's, in all that GitHub shows of    *)
(* it: only in size where it shows no digest.                              *)
ShownAs(b) ==
  \A a \in Asset : LET c == remote.assets[a] IN
    c # Nothing /\ Size[c] = Size[b] /\ (Digests => c = b)

(* What is published is one whole accepted build as far as GitHub shows,   *)
(* whoever staged what between the checks of the one who publishes.        *)
PublishedAccepted ==
  remote # Nothing /\ ~remote.draft => \E b \in reports : ShownAs(b)

(* What a command has reported is so, and stays so.                        *)
ReportsTrue ==
  \A t \in told :
    /\ remote # Nothing
    /\ ShownAs(t.build)
    /\ t.action = "published" => ~remote.draft /\ remote.immutable

(* What is public has been accepted, and nobody was told otherwise.        *)
PublishedSound == PublishedAccepted /\ ReportsTrue
-----------------------------------------------------------------------------
(* What keeps these invariant.                                             *)

PackageJob == [build : Build, found : [Name -> Build \cup {Nothing}],
               at : Nat, part : Nat,
               opened : SUBSET Name, committed : SUBSET Name, generated : SUBSET Name,
               loose : SUBSET Name]
StageJob == [build : Build, missing : SUBSET Asset]
PublishJob == [build : Build]

ASSUME NothingAssumption ==
  /\ Nothing \notin PackageJob /\ Nothing \notin StageJob /\ Nothing \notin PublishJob
  /\ Nothing \notin Release

Writing == {"open", "fill", "link", "unlink"}
Packing == Writing \cup {"manifest", "abort"}
Staging == {"lookup", "list", "upload"}
Releasing == {"draft", "edit", "confirm"}

JobTyped ==
  /\ pc \in [Operator -> Packing \cup Staging \cup Releasing \cup {"idle"}]
  /\ job \in [Operator -> PackageJob \cup StageJob \cup PublishJob \cup {Nothing}]
  /\ \A o \in Operator :
       /\ pc[o] \in Packing => o \in Packager /\ job[o] \in PackageJob
       /\ pc[o] \in Staging => job[o] \in StageJob
       /\ pc[o] \in Releasing => job[o] \in PublishJob

(* One run packages at a time; it is at a part of an artifact.             *)
OneRun ==
  /\ \A o, p \in Packager : pc[o] \in Packing /\ pc[p] \in Packing => o = p
  /\ \A o \in Packager :
       /\ pc[o] \in Writing =>
            job[o].at \in 1 .. Len(Artifacts) /\ job[o].part \in 1 .. Parts[Artifacts[job[o].at]]
       /\ pc[o] = "manifest" => job[o].at = Len(Artifacts) + 1

Mine(o) == job[o].committed \cup job[o].generated

(* A run has made the parts it knows as its own, and touched no other.     *)
OwnParts(o) ==
  /\ \A n \in Mine(o) \cup Linked(o) :
       /\ job[o].found[n] = Nothing
       /\ final[n] = job[o].build
            \/ (pc[o] = "abort" /\ n \notin Linked(o) /\ final[n] = Nothing)
  /\ \A n \in Name \ (Mine(o) \cup Linked(o)) : final[n] = job[o].found[n]
  /\ Mine(o) \cap Linked(o) = {}
  /\ pc[o] # "abort" => job[o].loose = {}
  /\ manifest # Nothing => Mine(o) \cup Linked(o) = {}

(* How far it is: the parts before the present one are its own, those that *)
(* have been filled and not been linked are whole in their temporaries.    *)
Progress(o) ==
  /\ pc[o] \in Writing \cup {"manifest"} =>
       \A i \in 1 .. job[o].at - 1 : \A k \in 1 .. Parts[Artifacts[i]] :
         <<Artifacts[i], k>> \in job[o].generated
  /\ pc[o] \in {"link", "unlink"} =>
       \A k \in 1 .. job[o].part - 1 : <<Artifacts[job[o].at], k>> \in job[o].committed
  /\ pc[o] \in {"open", "fill"} =>
       \A k \in 1 .. job[o].part - 1 :
         temp[<<Artifacts[job[o].at], k>>] = job[o].build
  /\ pc[o] \in {"link", "unlink"} =>
       \A k \in job[o].part .. Parts[Artifacts[job[o].at]] :
         temp[<<Artifacts[job[o].at], k>>] = job[o].build

PackageInv ==
  /\ PackageSound
  /\ JobTyped
  /\ OneRun
  /\ \A o \in Packager : pc[o] \in Packing => OwnParts(o) /\ Progress(o)
  /\ \A o \in Operator : pc[o] \in {"list", "upload", "edit", "confirm"} => remote # Nothing

AllOf(b) == remote # Nothing /\ ShownAs(b)

PublishInv ==
  /\ PublishedSound
  /\ remote # Nothing /\ remote.immutable => ~remote.draft
  /\ \A o \in Operator :
       /\ pc[o] \in Releasing => job[o].build \in reports
       /\ pc[o] \in {"edit", "confirm"} => AllOf(job[o].build)
       /\ pc[o] = "confirm" => ~remote.draft
=============================================================================
