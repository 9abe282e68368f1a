------------------------------ MODULE CorpusBuild ------------------------------
(***************************************************************************)
(* pipeline/orchestrator.py: build_full_corpus imports one source after    *)
(* another into one SQLite file and marks each as complete in a ledger in  *)
(* that file and in a marker beside it, so that a build that is killed     *)
(* resumes; builds the vectors (Numberbatch); and renames the directory    *)
(* <output>.partial to <output>.  recover_full_corpus_from_semantic_partial*)
(* finishes a build that died after its global index was saved.            *)
(*                                                                         *)
(* Rows are what the importer of a stage makes of an edition of its source *)
(* under a pipeline identity and a profile, all of them or a part.  The    *)
(* build itself never sees what they are, only how many: different rows    *)
(* may well have the same counts.                                          *)
(***************************************************************************)
EXTENDS Numberbatch, Sequences

CONSTANTS
  Stages,      \* the lexical stages in their order
  Identity,    \* hashes of the pipeline's own source
  Profile,     \* {"full", "english"}
  Vectors,     \* the input that is not a lexical stage
  FirstInput,  \* the inputs at first
  Revised,     \* the inputs that may be replaced, and by what
  Logical,     \* the counts an importer returns
  Physical,    \* the counts _lexical_stage_physical_counts finds on disk
  Retry,       \* the profile whose build the operator wants to see finished
  MaxFaults,   \* bound on kills and failed gates
  MaxChanges   \* bound on changes of inputs and of the pipeline between builds

Stage == {Stages[i] : i \in 1 .. Len(Stages)}

ASSUME CorpusAssumption ==
  /\ Stages \in Seq(Stage) /\ Stages # <<>>
  /\ \A i, k \in 1 .. Len(Stages) : Stages[i] = Stages[k] => i = k
  /\ "full" \in Profile
  /\ Vectors \notin Stage
  /\ FirstInput \in [Stage \cup {Vectors} -> Edition]
  /\ \A r \in Revised : r.input \in Stage \cup {Vectors} /\ r.edition \in Edition
  /\ Retry \in Profile
  /\ MaxFaults \in Nat /\ MaxChanges \in Nat

VARIABLES
  input,    \* the source files
  code,     \* the pipeline
  rows,     \* stage -> its rows in lexicon.sqlite3
  terms,    \* whose terms lexical_terms has
  ledger,   \* stage -> metadata checkpoint.<stage>.*
  markers,  \* profile -> stage -> <build_state>/.../<stage>.json
  stamp,    \* checkpoint.numberbatch.* in the mapping, and its marker
  output,   \* the promoted corpus
  job,      \* the arguments of the running command
  at,       \* the stage it is at
  faults, changes

lexical == <<rows, terms, ledger>>
world == <<input, code, changes>>
vars == <<pc, semanticVars, world, lexical, markers, stamp, output, job, at, faults>>

Fingerprint == [code : Identity, edition : Edition]
Rows == [of : Fingerprint, profile : Profile, whole : BOOLEAN]
Checkpoint == [of : Fingerprint, logical : Nat, physical : Nat]

ASSUME NothingAssumption ==
  Nothing \notin Rows \cup Checkpoint \cup Mapping \cup Language

(* No source is empty. *)
ASSUME CountsAssumption ==
  /\ Logical \in [Rows -> Nat]
  /\ Physical \in [Rows \cup {Nothing} -> Nat]
  /\ \A r \in Rows : r.whole => Physical[r] # Physical[Nothing]

Fresh(s, j) == [code |-> j.code, edition |-> j.input[s]]
Whole(s, j) == [of |-> Fresh(s, j), profile |-> j.profile, whole |-> TRUE]
Half(s, j) == [Whole(s, j) EXCEPT !.whole = FALSE]

Init ==
  /\ SemanticInit
  /\ pc = "idle"
  /\ input = FirstInput
  /\ code \in Identity
  /\ rows = [s \in Stage |-> Nothing]
  /\ terms = {}
  /\ ledger = [s \in Stage |-> Nothing]
  /\ markers = [p \in Profile |-> [s \in Stage |-> Nothing]]
  /\ stamp = Nothing
  /\ output = Nothing
  /\ job = Nothing
  /\ at = 1
  /\ faults = 0
  /\ changes = 0

Idle == pc' = "idle" /\ job' = Nothing /\ at' = 1

Goto(step) == pc' = step /\ UNCHANGED <<job, at>>
-----------------------------------------------------------------------------
(* Defect: a build is refused over the directory of an earlier one. *)
BuildAllowedAfresh == output = Nothing /\ semantic = "none" /\ \A s \in Stage : rows[s] = Nothing

(* build_full_corpus: refused over a finished output and over any vectors. *)
BuildAllowed == output = Nothing /\ semantic = "none"

StartBuild(p) ==
  /\ pc = "idle"
  /\ BuildAllowed
  /\ pc' = "stage"
  /\ job' = [name |-> "build", found |-> semantic, profile |-> p, code |-> code, input |-> input]
  /\ at' = 1
  /\ UNCHANGED <<semanticVars, world, lexical, markers, stamp, output, faults>>

(* Defect: a marker is trusted without the rows that it counted. *)
MarkerAndLedger(s, of, p) ==
  LET m == markers[p][s] IN m # Nothing /\ m.of = of /\ ledger[s] = m

(* _resume_lexical_checkpoint: the marker has the fingerprint, the ledger  *)
(* agrees with it, and the rows are as many as it says.                    *)
Resumable(s, of, p) ==
  LET m == markers[p][s] IN
  /\ m # Nothing
  /\ m.of = of
  /\ ledger[s] = m
  /\ Physical[rows[s]] = m.physical

AtStage(s) == pc = "stage" /\ at <= Len(Stages) /\ s = Stages[at]

NextStage(step) == pc' = step /\ at' = at + 1 /\ UNCHANGED job

SkipStage(s) ==
  /\ AtStage(s)
  /\ Resumable(s, Fresh(s, job), job.profile)
  /\ NextStage("stage")
  /\ UNCHANGED <<semanticVars, world, lexical, markers, stamp, output, faults>>

(* An importer first deletes the rows of its own source, not their terms,  *)
(* and then commits batch by batch.                                        *)
ClearStage(s) ==
  /\ AtStage(s)
  /\ ~Resumable(s, Fresh(s, job), job.profile)
  /\ rows' = [rows EXCEPT ![s] = Nothing]
  /\ Goto("rows")
  /\ UNCHANGED <<semanticVars, world, terms, ledger, markers, stamp, output, faults>>

ImportBatch(s) ==
  /\ pc = "rows" /\ s = Stages[at]
  /\ rows[s] = Nothing
  /\ rows' = [rows EXCEPT ![s] = Half(s, job)]
  /\ terms' = terms \cup {[stage |-> s, of |-> Fresh(s, job), profile |-> job.profile]}
  /\ Goto("rows")
  /\ UNCHANGED <<semanticVars, world, ledger, markers, stamp, output, faults>>

ImportRest(s) ==
  /\ pc = "rows" /\ s = Stages[at]
  /\ rows[s] # Nothing
  /\ rows' = [rows EXCEPT ![s] = Whole(s, job)]
  /\ Goto("ledger")
  /\ UNCHANGED <<semanticVars, world, terms, ledger, markers, stamp, output, faults>>

Taken(s, of) == [of |-> of, logical |-> Logical[rows[s]], physical |-> Physical[rows[s]]]

(* _record_lexical_checkpoint: the ledger first, then the marker. *)
WriteLedger(s) ==
  /\ pc = "ledger" /\ s = Stages[at]
  /\ ledger' = [ledger EXCEPT ![s] = Taken(s, Fresh(s, job))]
  /\ Goto("marker")
  /\ UNCHANGED <<semanticVars, world, rows, terms, markers, stamp, output, faults>>

Mark(s) ==
  /\ pc = "marker" /\ s = Stages[at]
  /\ markers' = [markers EXCEPT ![job.profile][s] = Taken(s, Fresh(s, job))]
  /\ NextStage("stage")
  /\ UNCHANGED <<semanticVars, world, lexical, stamp, output, faults>>

(* Query and wordplay indexes over the terms, then the vectors.            *)
IndexLexicon ==
  /\ pc = "stage"
  /\ at > Len(Stages)
  /\ Goto("numberbatch")
  /\ UNCHANGED <<semanticVars, world, lexical, markers, stamp, output, faults>>

BuildVectors ==
  /\ BeginImport(job.input[Vectors], job.profile = "english")
  /\ stamp' = Nothing
  /\ UNCHANGED <<world, lexical, markers, output, job, at, faults>>

VectorStep ==
  /\ SemanticStep
  /\ UNCHANGED <<world, lexical, markers, stamp, output, job, at, faults>>
-----------------------------------------------------------------------------
(* recover_full_corpus_from_semantic_partial.  The operator names the      *)
(* digests of the lexicon, the global index and the matrix.                *)

(* The one pipeline identity that all the recorded checkpoints have. *)
OneIdentity(c) == \A s \in Stage : markers["full"][s] # Nothing /\ markers["full"][s].of.code = c

LexicalRecovered(c) ==
  /\ OneIdentity(c)
  /\ \A s \in Stage : Resumable(s, [code |-> c, edition |-> input[s]], "full")

(* What must not change meanwhile: the digests are taken again at the end. *)
Anchors == <<rows, terms, global, mapping>>

RecoveryAllowed(c) ==
  /\ output = Nothing
  /\ LexicalRecovered(c)
  /\ PostGlobal(input[Vectors]) \/ CompletedRecovery

StartRecovery ==
  /\ pc = "idle"
  /\ \E c \in Identity :
       /\ RecoveryAllowed(c)
       /\ job' = [name |-> "recover", found |-> semantic, profile |-> "full", code |-> c,
                  input |-> input, anchors |-> Anchors]
  /\ pc' = IF semantic = "semantic" THEN "stamp" ELSE "shards"
  /\ left' = Every
  /\ at' = 1
  /\ UNCHANGED <<semantic, mapping, global, shard, temporary, recorded>>
  /\ UNCHANGED <<world, lexical, markers, stamp, output, faults>>
-----------------------------------------------------------------------------
(* Defect: the lexical stages are marked again under the pipeline of now. *)
StampAll ==
  /\ pc = "stamp"
  /\ Verified
  /\ stamp' = [code |-> code, edition |-> job.input[Vectors]]
  /\ markers' = [markers EXCEPT !["full"] =
       [s \in Stage |-> Taken(s, [code |-> code, edition |-> job.input[s]])]]
  /\ Goto("gates")
  /\ UNCHANGED <<semanticVars, world, lexical, output, faults>>

(* Both commands end alike: the fingerprint of the vectors is written into *)
(* their mapping, they are verified, and their marker is written.          *)
Stamp ==
  /\ pc = "stamp"
  /\ Verified
  /\ stamp' = [code |-> code, edition |-> job.input[Vectors]]
  /\ Goto("gates")
  /\ UNCHANGED <<semanticVars, world, lexical, markers, output, faults>>

(* The directory is renamed when the floors and the size limit allow it.   *)
Finish ==
  /\ pc = "gates"
  /\ Verified
  /\ job.name = "recover" => job.anchors = Anchors
  /\ output' = [rows |-> rows, terms |-> terms, vectors |-> mapping, lock |-> job.input,
                profile |-> job.profile, found |-> job.found]
  /\ Idle
  /\ UNCHANGED <<semanticVars, world, lexical, markers, stamp, faults>>

(* A kill, a full disk, a gate that fails. *)
Fail ==
  /\ pc # "idle"
  /\ faults < MaxFaults
  /\ faults' = faults + 1
  /\ Idle
  /\ UNCHANGED <<semanticVars, world, lexical, markers, stamp, output>>

(* Between two commands a source or the pipeline may be replaced.          *)
Change ==
  /\ pc = "idle"
  /\ output = Nothing
  /\ changes < MaxChanges
  /\ changes' = changes + 1
  /\ \/ \E r \in Revised : input' = [input EXCEPT ![r.input] = r.edition] /\ UNCHANGED code
     \/ code' \in Identity \ {code} /\ UNCHANGED input
  /\ UNCHANGED <<pc, semanticVars, lexical, markers, stamp, output, job, at, faults>>

(* What neither command accepts can only be removed by hand.               *)
Discard ==
  /\ pc = "idle"
  /\ output = Nothing
  /\ ~BuildAllowed
  /\ \A c \in Identity : ~RecoveryAllowed(c)
  /\ RemoveSemantic
  /\ UNCHANGED <<pc, world, lexical, markers, stamp, output, job, at, faults>>

StageStep == \E s \in Stage :
  \/ SkipStage(s) \/ ClearStage(s) \/ ImportBatch(s) \/ ImportRest(s)
  \/ WriteLedger(s) \/ Mark(s)

Step == StageStep \/ IndexLexicon \/ BuildVectors \/ VectorStep \/ Stamp \/ Finish

Next ==
  \/ \E p \in Profile : StartBuild(p)
  \/ StartRecovery \/ Step \/ Fail \/ Change \/ Discard

(* A running command goes on, and an operator who wants one profile        *)
(* reruns, recovers or clears away until there is an output.               *)
Fairness ==
  /\ WF_vars(Step)
  /\ SF_vars(StartBuild(Retry)) /\ SF_vars(StartRecovery) /\ WF_vars(Discard)

Spec == Init /\ [][Next]_vars
FairSpec == Spec /\ Fairness
-----------------------------------------------------------------------------
TypeOK ==
  /\ SemanticTypeOK
  /\ pc \in {"idle", "stage", "rows", "ledger", "marker", "numberbatch", "import", "save",
             "shards", "stamp", "gates"}
  /\ input \in [Stage \cup {Vectors} -> Edition]
  /\ code \in Identity
  /\ rows \in [Stage -> Rows \cup {Nothing}]
  /\ terms \subseteq [stage : Stage, of : Fingerprint, profile : Profile]
  /\ ledger \in [Stage -> Checkpoint \cup {Nothing}]
  /\ markers \in [Profile -> [Stage -> Checkpoint \cup {Nothing}]]
  /\ stamp \in Fingerprint \cup {Nothing}
  /\ at \in 1 .. Len(Stages) + 1
  /\ faults \in 0 .. MaxFaults /\ changes \in 0 .. MaxChanges

(* However often it was killed, over whatever changes of the sources and   *)
(* of the code, a promoted corpus has as many rows of every kind as one    *)
(* pipeline makes of the editions its sources.lock names under its         *)
(* profile.  They are those rows wherever the counts tell them from others *)
(* that were imported between (H26, H27).                                  *)
PromotedWhole ==
  output # Nothing =>
    \E c \in Identity : \A s \in Stage :
      Physical[output.rows[s]] =
        Physical[Whole(s, [code |-> c, input |-> output.lock, profile |-> output.profile])]

(* Its vectors are those of the locked edition, or, when a recovery has    *)
(* finished them, of one of equal shape, and every language has its index. *)
(* (A recovery that finds them finished does not look at the source.)      *)
PromotedVectors ==
  output # Nothing =>
    /\ Verified
    /\ output.vectors.english = (output.profile = "english")
    /\ output.found = "none" => output.vectors.edition = output.lock[Vectors]
    /\ output.found = "partial" => Shape[output.vectors.edition] = Shape[output.lock[Vectors]]

(* A row of semantic_languages is never written for an index that is not   *)
(* there whole, even if the process dies the moment after.                 *)
RecordedSound == mapping # Nothing /\ ~mapping.english => \A l \in recorded : shard[l] = "good"

(* The types of the variables, and the record of the shards.               *)
BuildSound == TypeOK /\ RecordedSound

(* The rows of a promoted corpus refer to words it has: a stage's words    *)
(* are never lost to another stage that starts over or is skipped.  (It    *)
(* may have words besides that only an interrupted import interned.)       *)
TermsHeld ==
  output # Nothing =>
    \A s \in Stage : [stage |-> s, of |-> output.rows[s].of,
                      profile |-> output.rows[s].profile] \in output.terms

(* A promoted corpus is what its sources.lock says, as far as its builder  *)
(* looks.                                                                  *)
Promoted == PromotedWhole /\ PromotedVectors /\ TermsHeld

(* Work that was finished is not redone or undone: a good shard is neither *)
(* lost nor built twice, and recovery, which has no destructive fallback,  *)
(* never touches the lexicon, its checkpoints, the mapping or the global   *)
(* index.                                                                  *)
WorkKept ==
  [][ /\ job # Nothing /\ job.name = "recover" => UNCHANGED <<lexical, markers, mapping, global>>
      /\ \A l \in Language : shard[l] = "good" /\ pc # "idle" =>
           shard'[l] = "good" /\ temporary'[l] \in {temporary[l], "none"} ]_vars

(* The build the operator wants comes to its end, whatever was killed      *)
(* before: no state is left that all the commands refuse for ever.         *)
BuildEnds == <>(output # Nothing)
-----------------------------------------------------------------------------
(* What keeps these invariant; the steps preserve IInv.                    *)

Lexical == {"stage", "rows", "ledger", "marker"}
Semantic == {"import", "save", "shards", "stamp", "gates"}

(* The running command, and how far it can be.                             *)
Running ==
  /\ pc = "idle" => job = Nothing
  /\ pc # "idle" =>
       /\ output = Nothing
       /\ job.profile \in Profile /\ job.code \in Identity
       /\ job.input \in [Stage \cup {Vectors} -> Edition]
       /\ \/ job.name = "build" /\ job.found = "none"
          \/ job.name = "recover" /\ job.found # "none" /\ pc \in {"shards", "stamp", "gates"}
  /\ pc \in {"rows", "ledger", "marker"} => at <= Len(Stages)

(* The stages behind it have as many rows as its job makes, and the one it *)
(* is at has the job's own, as far as it has come.                         *)
Full(s, j) == Physical[rows[s]] = Physical[Whole(s, j)]

Imported ==
  /\ pc \in Lexical => \A i \in 1 .. at - 1 : Full(Stages[i], job)
  /\ pc = "rows" => rows[Stages[at]] \in {Nothing, Half(Stages[at], job)}
  /\ pc \in {"ledger", "marker"} => rows[Stages[at]] = Whole(Stages[at], job)
  /\ pc \in Semantic \cup {"numberbatch"} => \A s \in Stage : Full(s, job)

(* A marker, whoever left it, counts all the rows of its edition, and rows *)
(* refer to terms that are there.                                          *)
Recorded ==
  /\ \A p \in Profile, s \in Stage :
       markers[p][s] # Nothing =>
         markers[p][s].physical = Physical[[of |-> markers[p][s].of, profile |-> p, whole |-> TRUE]]
  /\ \A s \in Stage :
       rows[s] # Nothing => [stage |-> s, of |-> rows[s].of, profile |-> rows[s].profile] \in terms

(* Vectors belong to the command that goes on with them, whoever left them. *)
VectorsBelong ==
  /\ mapping = Nothing <=> semantic = "none"
  /\ semantic = "none" => recorded = {}
  /\ pc \in Lexical \cup {"numberbatch"} => semantic = "none"
  /\ pc \in Semantic => semantic # "none"
  /\ pc \in Semantic => mapping.english = (job.profile = "english")
  /\ pc \in Semantic /\ job.found = "none" => mapping.edition = job.input[Vectors]
  /\ pc \in Semantic /\ job.found = "partial" =>
       Shape[mapping.edition] = Shape[job.input[Vectors]]
  /\ left.at # Nothing /\ shard[left.at] = "good" => temporary[left.at] = "none"

IInv == BuildSound /\ Promoted /\ Running /\ Imported /\ Recorded /\ VectorsBelong
=============================================================================
