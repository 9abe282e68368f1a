--------------------------- MODULE CorpusBuildProofs ---------------------------
(***************************************************************************)
(* Proofs about CorpusBuild: however builds and recoveries are killed and  *)
(* repeated, over whatever changes of the sources and of the pipeline, a   *)
(* corpus that is promoted is what its lock says as far as rows are        *)
(* counted, and finished work is kept.  IInv says how far a running        *)
(* command has come, what the markers of earlier ones count, and whose the *)
(* vectors on disk are.                                                    *)
(***************************************************************************)
EXTENDS CorpusBuild, TLAPS

(* The stages are counted by a natural number, and each is a Stage.        *)
LEMMA Staged ==
  /\ Len(Stages) \in Nat
  /\ Len(Stages) >= 1
  /\ \A i \in 1 .. Len(Stages) : Stages[i] \in Stage
  /\ Stage # {}
<1>1. Len(Stages) \in Nat /\ Len(Stages) >= 1
  BY CorpusAssumption
<1>2. \A i \in 1 .. Len(Stages) : Stages[i] \in Stage
  BY DEF Stage
<1>3. 1 \in 1 .. Len(Stages)
  BY <1>1
<1> QED BY <1>1, <1>2, <1>3

(* A stage is at one place of the order.                                   *)
LEMMA OnePlace ==
  \A i, k \in 1 .. Len(Stages) : Stages[i] = Stages[k] => i = k
BY CorpusAssumption

(* What an importer writes are rows, of the edition its command was given. *)
LEMMA WritesRows ==
  ASSUME NEW j, NEW s \in Stage,
         j.code \in Identity, j.profile \in Profile,
         j.input \in [Stage \cup {Vectors} -> Edition]
  PROVE  /\ Fresh(s, j) \in Fingerprint
         /\ Whole(s, j) \in Rows /\ Half(s, j) \in Rows
         /\ Whole(s, j) # Nothing /\ Half(s, j) # Nothing
         /\ Whole(s, j).of = Fresh(s, j) /\ Whole(s, j).profile = j.profile
         /\ Half(s, j).of = Fresh(s, j) /\ Half(s, j).profile = j.profile
<1>1. j.input[s] \in Edition
  OBVIOUS
<1>2. Fresh(s, j) \in Fingerprint
  BY <1>1 DEF Fresh, Fingerprint
<1>3. Whole(s, j) \in Rows /\ Half(s, j) \in Rows
  BY <1>2 DEF Whole, Half, Rows
<1>4. /\ Whole(s, j).of = Fresh(s, j) /\ Whole(s, j).profile = j.profile
      /\ Half(s, j).of = Fresh(s, j) /\ Half(s, j).profile = j.profile
  BY DEF Whole, Half
<1> QED BY <1>2, <1>3, <1>4, NothingAssumption

(* Every step is one of these actions.                                     *)
LEMMA Steps ==
  ASSUME Next
  PROVE  \/ \E p \in Profile : StartBuild(p)
         \/ StartRecovery
         \/ \E s \in Stage : SkipStage(s) \/ ClearStage(s) \/ ImportBatch(s)
                              \/ ImportRest(s) \/ WriteLedger(s) \/ Mark(s)
         \/ IndexLexicon \/ BuildVectors \/ VectorStep \/ Stamp \/ Finish
         \/ Fail \/ Change \/ Discard
BY DEF Next, Step, StageStep

(* Nothing is done to a corpus that has been promoted.                     *)
LEMMA NothingAfter ==
  ASSUME Running, Next
  PROVE  output = Nothing
<1>1. pc # "idle" => output = Nothing
  BY DEF Running
<1>2. CASE pc # "idle"
  BY <1>1, <1>2
<1>3. CASE pc = "idle"
  BY <1>3, Steps DEF StartBuild, BuildAllowed, StartRecovery, RecoveryAllowed, SkipStage,
     ClearStage, AtStage, ImportBatch, ImportRest, WriteLedger, Mark, IndexLexicon,
     BuildVectors, BeginImport, VectorStep, SemanticStep, Counted, SaveGlobal, EnglishOnly,
     Promote, KeepShard, TakeShard, AtShard, Stamp, Finish, Fail, Change, Discard
<1> QED BY <1>2, <1>3
-----------------------------------------------------------------------------
(* Running: where the command is, and with which arguments.                *)
LEMMA RunningInit ==
  ASSUME Init
  PROVE  Running
BY DEF Init, Running

LEMMA RunningStep ==
  ASSUME TypeOK, Running, [Next]_vars
  PROVE  Running'
<1>1. at \in 1 .. Len(Stages) + 1 /\ Len(Stages) \in Nat /\ code \in Identity
      /\ input \in [Stage \cup {Vectors} -> Edition]
  BY Staged DEF TypeOK
<1>2. CASE UNCHANGED vars
  BY <1>2 DEF Running, vars, world, lexical, semanticVars
<1>3. ASSUME Next PROVE Running'
  <2>1. output = Nothing
    BY <1>3, NothingAfter
  <2>2. ASSUME NEW p \in Profile, StartBuild(p) PROVE Running'
    BY <2>2, <1>1 DEF StartBuild, BuildAllowed, Running
  <2>3. CASE StartRecovery
    <3>1. semantic # "none"
      BY <2>3 DEF StartRecovery, RecoveryAllowed, PostGlobal, CompletedRecovery, Verified
    <3>2. "full" \in Profile
      BY CorpusAssumption
    <3>3. pc' \in {"stamp", "shards"} /\ output' = Nothing
      BY <2>3, <2>1 DEF StartRecovery
    <3>4. /\ job'.profile \in Profile /\ job'.code \in Identity
          /\ job'.input \in [Stage \cup {Vectors} -> Edition]
          /\ job'.name = "recover" /\ job'.found # "none"
      BY <2>3, <3>1, <3>2, <1>1 DEF StartRecovery
    <3> QED BY <3>3, <3>4 DEF Running
  <2>4. ASSUME NEW s \in Stage,
               \/ SkipStage(s) \/ ClearStage(s) \/ ImportBatch(s)
               \/ ImportRest(s) \/ WriteLedger(s) \/ Mark(s)
        PROVE  Running'
    BY <2>4, <2>1, <1>1 DEF Running, SkipStage, ClearStage, ImportBatch, ImportRest,
       WriteLedger, Mark, AtStage, NextStage, Goto
  <2>5. CASE IndexLexicon \/ BuildVectors \/ Stamp
    BY <2>5, <2>1 DEF Running, IndexLexicon, BuildVectors, BeginImport, Stamp, Goto
  <2>6. CASE VectorStep
    BY <2>6, <2>1 DEF Running, VectorStep, SemanticStep, Counted, SaveGlobal, EnglishOnly,
       Promote, KeepShard, TakeShard, AtShard, SaveShard, ReplaceShard, RecordShard
  <2>7. CASE Finish \/ Fail
    BY <2>7 DEF Running, Finish, Fail, Idle
  <2>8. CASE Change \/ Discard
    BY <2>8 DEF Running, Change, Discard
  <2> QED
    BY <1>3, Steps, <2>2, <2>3, <2>4, <2>5, <2>6, <2>7, <2>8
<1> QED BY <1>2, <1>3
-----------------------------------------------------------------------------
(* The types of the variables.                                             *)
LEMMA TypeInit ==
  ASSUME Init
  PROVE  TypeOK
<1>1. at \in 1 .. Len(Stages) + 1
  BY Staged DEF Init
<1>2. SemanticTypeOK
  BY DEF Init, SemanticInit, SemanticTypeOK, NoFiles, File, Every
<1>3. faults \in 0 .. MaxFaults /\ changes \in 0 .. MaxChanges
  BY CorpusAssumption DEF Init
<1> QED BY <1>1, <1>2, <1>3, CorpusAssumption DEF Init, TypeOK

(* The variables of the vectors, which Numberbatch's actions alone write.  *)
LEMMA VectorTypes ==
  ASSUME SemanticTypeOK, VectorStep, pc = "import" => mapping # Nothing
  PROVE  SemanticTypeOK'
<1>1. CASE Counted
  BY <1>1 DEF Counted, SemanticTypeOK, Mapping
<1>2. CASE SaveGlobal
  BY <1>2 DEF SaveGlobal, SemanticTypeOK, File
<1>3. CASE EnglishOnly \/ Promote
  BY <1>3 DEF EnglishOnly, Promote, SemanticTypeOK
<1>4. ASSUME NEW l \in Language,
             \/ KeepShard(l) \/ TakeShard(l)
             \/ SaveShard(l) \/ ReplaceShard(l) \/ RecordShard(l)
      PROVE  SemanticTypeOK'
  BY <1>4 DEF KeepShard, TakeShard, SaveShard, ReplaceShard, RecordShard, SemanticTypeOK, File
<1> QED BY <1>1, <1>2, <1>3, <1>4 DEF VectorStep, SemanticStep

LEMMA TypeStep ==
  ASSUME TypeOK, Running, Imported, VectorsBelong, [Next]_vars
  PROVE  TypeOK'
<1>1. at \in 1 .. Len(Stages) + 1 /\ Len(Stages) \in Nat
  BY Staged DEF TypeOK
<1>2. CASE UNCHANGED vars
  BY <1>2 DEF TypeOK, SemanticTypeOK, vars, world, lexical, semanticVars
<1>3. ASSUME Next PROVE TypeOK'
  <2>1. ASSUME NEW p \in Profile, StartBuild(p) PROVE TypeOK'
    BY <2>1, <1>1 DEF StartBuild, TypeOK, SemanticTypeOK, semanticVars, world, lexical
  <2>2. CASE StartRecovery
    BY <2>2, <1>1 DEF StartRecovery, TypeOK, SemanticTypeOK, semanticVars, world, lexical, Every
  <2>3. ASSUME NEW s \in Stage,
               \/ SkipStage(s) \/ ClearStage(s) \/ ImportBatch(s)
               \/ ImportRest(s) \/ WriteLedger(s) \/ Mark(s)
        PROVE  TypeOK'
    <3>1. job.code \in Identity /\ job.profile \in Profile
          /\ job.input \in [Stage \cup {Vectors} -> Edition]
      BY <2>3 DEF SkipStage, ClearStage, AtStage, ImportBatch, ImportRest, WriteLedger, Mark,
         Running
    <3>2. /\ Fresh(s, job) \in Fingerprint
          /\ Whole(s, job) \in Rows /\ Half(s, job) \in Rows
      BY <3>1, WritesRows
    <3>3. SemanticTypeOK'
      BY <2>3 DEF SkipStage, ClearStage, ImportBatch, ImportRest, WriteLedger, Mark,
         TypeOK, SemanticTypeOK, semanticVars
    <3>4. CASE SkipStage(s) \/ ClearStage(s)
      BY <3>3, <3>4, <1>1 DEF SkipStage, ClearStage, AtStage, NextStage, Goto, TypeOK,
         world, lexical
    <3>5. CASE ImportBatch(s) \/ ImportRest(s)
      BY <3>1, <3>2, <3>3, <3>5, <1>1 DEF ImportBatch, ImportRest, Goto, TypeOK, world
    <3>6. CASE WriteLedger(s) \/ Mark(s)
      <4>1. rows[s] \in Rows /\ at <= Len(Stages)
        BY <3>6, <3>2 DEF WriteLedger, Mark, Imported, Running
      <4>2. Taken(s, Fresh(s, job)) \in Checkpoint
        BY <4>1, <3>2, CountsAssumption DEF Taken, Checkpoint
      <4> HIDE DEF Checkpoint
      <4>3. ledger' \in [Stage -> Checkpoint \cup {Nothing}]
        BY <3>6, <4>2 DEF WriteLedger, Mark, TypeOK, lexical
      <4>4. markers' \in [Profile -> [Stage -> Checkpoint \cup {Nothing}]]
        BY <3>6, <4>2, <3>1 DEF WriteLedger, Mark, TypeOK
      <4>5. at' \in 1 .. Len(Stages) + 1
        BY <3>6, <4>1, <1>1 DEF WriteLedger, Mark, Goto, NextStage
      <4> QED
        BY <3>6, <3>3, <4>3, <4>4, <4>5 DEF WriteLedger, Mark, Goto, NextStage, TypeOK,
           world, lexical
    <3> QED BY <2>3, <3>4, <3>5, <3>6
  <2>4. CASE IndexLexicon
    BY <2>4 DEF IndexLexicon, Goto, TypeOK, SemanticTypeOK, semanticVars, world, lexical
  <2>5. CASE BuildVectors
    <3>1. job.input[Vectors] \in Edition
      BY <2>5 DEF BuildVectors, BeginImport, Running
    <3>2. SemanticTypeOK'
      BY <2>5, <3>1 DEF BuildVectors, BeginImport, TypeOK, SemanticTypeOK, Mapping, Every
    <3> QED BY <2>5, <3>2 DEF BuildVectors, BeginImport, TypeOK, world, lexical
  <2>6. CASE VectorStep
    <3>1. pc = "import" => mapping # Nothing
      BY DEF VectorsBelong, Semantic
    <3>2. SemanticTypeOK'
      BY <2>6, <3>1, VectorTypes DEF TypeOK
    <3>3. pc' \in {pc, "save", "shards", "stamp"}
      BY <2>6 DEF VectorStep, SemanticStep, Counted, SaveGlobal, EnglishOnly, Promote,
         KeepShard, TakeShard, SaveShard, ReplaceShard, RecordShard
    <3> QED BY <2>6, <3>2, <3>3 DEF VectorStep, TypeOK, world, lexical
  <2>7. CASE Stamp
    <3>1. job.input[Vectors] \in Edition
      BY <2>7 DEF Stamp, Running
    <3> QED
      BY <2>7, <3>1 DEF Stamp, Goto, TypeOK, SemanticTypeOK, Fingerprint, semanticVars, world,
         lexical
  <2>8. CASE Finish \/ Fail
    BY <2>8, <1>1, CorpusAssumption DEF Finish, Fail, Idle, TypeOK, SemanticTypeOK,
       semanticVars, world, lexical
  <2>9. CASE Change
    BY <2>9, CorpusAssumption DEF Change, TypeOK, SemanticTypeOK, semanticVars, lexical
  <2>10. CASE Discard
    BY <2>10 DEF Discard, RemoveSemantic, NoFiles, File, Every, TypeOK, SemanticTypeOK,
       world, lexical
  <2> QED
    BY <1>3, Steps, <2>1, <2>2, <2>3, <2>4, <2>5, <2>6, <2>7, <2>8, <2>9, <2>10
<1> QED BY <1>2, <1>3
-----------------------------------------------------------------------------
(* Imported: the rows of the stages behind the command.                    *)
LEMMA ImportedInit ==
  ASSUME Init
  PROVE  Imported
BY DEF Init, Imported, Lexical, Semantic

(* A stage that is skipped has as many rows as its marker counts, and      *)
(* those are as many as the command would make.                            *)
LEMMA ResumableFull ==
  ASSUME Recorded, NEW s \in Stage, NEW p \in Profile, NEW of, Resumable(s, of, p)
  PROVE  Physical[rows[s]] = Physical[[of |-> of, profile |-> p, whole |-> TRUE]]
BY DEF Recorded, Resumable

LEMMA ImportedStep ==
  ASSUME TypeOK, Running, Imported, Recorded, [Next]_vars
  PROVE  Imported'
<1>1. /\ at \in 1 .. Len(Stages) + 1 /\ Len(Stages) \in Nat
      /\ rows \in [Stage -> Rows \cup {Nothing}]
      /\ \A i \in 1 .. Len(Stages) : Stages[i] \in Stage
  BY Staged DEF TypeOK
<1>2. CASE UNCHANGED vars
  BY <1>2 DEF Imported, Full, Whole, Half, Fresh, vars, lexical
<1>3. ASSUME Next PROVE Imported'
  <2>1. ASSUME NEW p \in Profile, StartBuild(p) PROVE Imported'
    BY <2>1 DEF StartBuild, Imported, Lexical, Semantic
  <2>2. CASE StartRecovery
    <3>1. PICK c \in Identity :
            /\ RecoveryAllowed(c)
            /\ job' = [name |-> "recover", found |-> semantic, profile |-> "full",
                       code |-> c, input |-> input, anchors |-> Anchors]
      BY <2>2 DEF StartRecovery
    <3>2. ASSUME NEW s \in Stage PROVE Full(s, job)'
      <4>1. Resumable(s, [code |-> c, edition |-> input[s]], "full")
        BY <3>1 DEF RecoveryAllowed, LexicalRecovered
      <4>2. Physical[rows[s]] =
              Physical[[of |-> [code |-> c, edition |-> input[s]], profile |-> "full",
                        whole |-> TRUE]]
        BY <4>1, ResumableFull, CorpusAssumption
      <4>3. rows' = rows
        BY <2>2 DEF StartRecovery, lexical
      <4> QED BY <4>2, <4>3, <3>1 DEF Full, Whole, Fresh
    <3>3. rows' = rows /\ pc' \in {"stamp", "shards"}
      BY <2>2 DEF StartRecovery, lexical
    <3> QED BY <3>2, <3>3 DEF Imported, Lexical, Semantic
  <2>3. ASSUME NEW s \in Stage, SkipStage(s) PROVE Imported'
    <3>1. at <= Len(Stages) /\ s = Stages[at] /\ pc = "stage"
      BY <2>3 DEF SkipStage, AtStage
    <3>2. Full(s, job)
      BY <2>3, <3>1, ResumableFull DEF SkipStage, Full, Whole, Running
    <3>3. \A i \in 1 .. at - 1 : Full(Stages[i], job)
      BY <3>1 DEF Imported, Lexical
    <3>4. \A i \in 1 .. (at + 1) - 1 : Full(Stages[i], job)
      BY <1>1, <3>1, <3>2, <3>3
    <3>5. pc' = "stage" /\ at' = at + 1 /\ job' = job /\ rows' = rows
      BY <2>3 DEF SkipStage, NextStage, lexical
    <3> QED BY <3>4, <3>5 DEF Imported, Full, Lexical, Semantic, Whole, Fresh
  <2>4. ASSUME NEW s \in Stage, Mark(s) PROVE Imported'
    <3>1. at <= Len(Stages) /\ s = Stages[at] /\ pc = "marker"
      BY <2>4 DEF Mark, Running
    <3>2. Full(s, job)
      BY <3>1 DEF Imported, Full
    <3>3. \A i \in 1 .. at - 1 : Full(Stages[i], job)
      BY <3>1 DEF Imported, Lexical
    <3>4. \A i \in 1 .. (at + 1) - 1 : Full(Stages[i], job)
      BY <1>1, <3>1, <3>2, <3>3
    <3>5. pc' = "stage" /\ at' = at + 1 /\ job' = job /\ rows' = rows
      BY <2>4 DEF Mark, NextStage, lexical
    <3> QED BY <3>4, <3>5 DEF Imported, Full, Lexical, Semantic, Whole, Fresh
  <2>5. ASSUME NEW s \in Stage, ClearStage(s) \/ ImportBatch(s) \/ ImportRest(s)
        PROVE  Imported'
    <3>1. /\ pc \in Lexical /\ at <= Len(Stages) /\ s = Stages[at]
          /\ pc' \in {"rows", "ledger"} /\ at' = at /\ job' = job
      BY <2>5 DEF ClearStage, AtStage, ImportBatch, ImportRest, Goto, Running, Lexical
    <3>2. \A i \in 1 .. at - 1 : Stages[i] # s /\ Stages[i] \in Stage
      BY <1>1, <3>1, OnePlace
    <3>3. \A i \in 1 .. at - 1 : Full(Stages[i], job)
      BY <3>1 DEF Imported
    <3>4. /\ \A z \in Stage : z # s => rows'[z] = rows[z]
          /\ pc' = "rows" => rows'[s] \in {Nothing, Half(s, job)}
          /\ pc' = "ledger" => rows'[s] = Whole(s, job)
      BY <2>5, <1>1 DEF ClearStage, ImportBatch, ImportRest, Goto
    <3>5. /\ \A i \in 1 .. at - 1 : Full(Stages[i], job)'
          /\ pc' = "rows" => rows'[Stages[at]] \in {Nothing, Half(Stages[at], job)}
          /\ pc' = "ledger" => rows'[Stages[at]] = Whole(Stages[at], job)
      BY <3>1, <3>2, <3>3, <3>4 DEF Full, Whole, Fresh
    <3> QED BY <3>1, <3>5 DEF Imported, Full, Lexical, Semantic, Whole, Half, Fresh
  <2>6. ASSUME NEW s \in Stage, WriteLedger(s) PROVE Imported'
    BY <2>6 DEF WriteLedger, Goto, Imported, Full, Lexical, Semantic, Whole, Half, Fresh
  <2>7. CASE IndexLexicon
    <3>1. pc = "stage" /\ at > Len(Stages) /\ pc' = "numberbatch" /\ job' = job /\ rows' = rows
      BY <2>7 DEF IndexLexicon, Goto, lexical
    <3>2. \A i \in 1 .. at - 1 : Full(Stages[i], job)
      BY <3>1 DEF Imported, Lexical
    <3>3. \A s \in Stage : \E i \in 1 .. Len(Stages) : s = Stages[i]
      BY DEF Stage
    <3>4. \A i \in 1 .. Len(Stages) : i \in 1 .. at - 1
      BY <1>1, <3>1
    <3>5. \A s \in Stage : Full(s, job)
      BY <3>2, <3>3, <3>4
    <3> QED BY <3>1, <3>5 DEF Imported, Full, Lexical, Semantic, Whole, Fresh
  <2>8. CASE BuildVectors \/ VectorStep \/ Stamp
    <3>1. /\ rows' = rows /\ job' = job /\ pc \in Semantic \cup {"numberbatch"}
          /\ pc' \in Semantic
      BY <2>8 DEF BuildVectors, BeginImport, VectorStep, SemanticStep, Counted, SaveGlobal,
         EnglishOnly, Promote, KeepShard, TakeShard, AtShard, SaveShard, ReplaceShard,
         RecordShard, Stamp, Goto, lexical, Semantic
    <3> QED BY <3>1 DEF Imported, Full, Lexical, Semantic, Whole, Fresh
  <2>9. CASE Finish \/ Fail \/ Change \/ Discard
    <3>1. pc' = "idle"
      BY <2>9 DEF Finish, Fail, Idle, Change, Discard
    <3> QED BY <3>1 DEF Imported, Lexical, Semantic
  <2> QED
    BY <1>3, Steps, <2>1, <2>2, <2>3, <2>4, <2>5, <2>6, <2>7, <2>8, <2>9
<1> QED BY <1>2, <1>3
-----------------------------------------------------------------------------
(* Recorded: what the markers count, and the terms of the rows.            *)
LEMMA RecordedInit ==
  ASSUME Init
  PROVE  Recorded
BY DEF Init, Recorded

LEMMA RecordedStep ==
  ASSUME TypeOK, Running, Imported, Recorded, [Next]_vars
  PROVE  Recorded'
<1>1. /\ rows \in [Stage -> Rows \cup {Nothing}]
      /\ markers \in [Profile -> [Stage -> Checkpoint \cup {Nothing}]]
  BY DEF TypeOK
<1>2. CASE UNCHANGED <<rows, terms, markers>>
  BY <1>2 DEF Recorded
<1>3. ASSUME NEW s \in Stage, ClearStage(s) \/ ImportBatch(s) \/ ImportRest(s)
      PROVE  Recorded'
  <2>1. /\ job.code \in Identity /\ job.profile \in Profile
        /\ job.input \in [Stage \cup {Vectors} -> Edition]
    BY <1>3 DEF ClearStage, AtStage, ImportBatch, ImportRest, Running
  <2>2. /\ Whole(s, job).of = Fresh(s, job) /\ Whole(s, job).profile = job.profile
        /\ Half(s, job).of = Fresh(s, job) /\ Half(s, job).profile = job.profile
        /\ Half(s, job) # Nothing
    BY <2>1, WritesRows
  <2>3. markers' = markers /\ terms \subseteq terms'
    BY <1>3 DEF ClearStage, ImportBatch, ImportRest
  <2>4. \A z \in Stage : z # s => rows'[z] = rows[z]
    BY <1>1, <1>3 DEF ClearStage, ImportBatch, ImportRest
  <2>5. rows'[s] # Nothing =>
          [stage |-> s, of |-> rows'[s].of, profile |-> rows'[s].profile] \in terms'
    <3>1. CASE ClearStage(s)
      BY <3>1, <1>1 DEF ClearStage
    <3>2. CASE ImportBatch(s)
      BY <3>2, <1>1, <2>2 DEF ImportBatch
    <3>3. CASE ImportRest(s)
      <4>1. rows[s] = Half(s, job)
        BY <3>3 DEF ImportRest, Imported
      <4>2. [stage |-> s, of |-> Fresh(s, job), profile |-> job.profile] \in terms
        BY <4>1, <2>2 DEF Recorded
      <4>3. rows'[s] = Whole(s, job)
        BY <3>3, <1>1 DEF ImportRest
      <4> QED BY <4>2, <4>3, <2>2, <2>3
    <3> QED BY <1>3, <3>1, <3>2, <3>3
  <2> QED BY <2>3, <2>4, <2>5 DEF Recorded
<1>4. ASSUME NEW s \in Stage, Mark(s) PROVE Recorded'
  <2>1. rows[s] = Whole(s, job) /\ job.profile \in Profile
    BY <1>4 DEF Mark, Imported, Running
  <2> DEFINE m == Taken(s, Fresh(s, job))
  <2>3. m.physical = Physical[[of |-> m.of, profile |-> job.profile, whole |-> TRUE]]
    BY <2>1 DEF Taken, Whole
  <2> HIDE DEF m
  <2>4. markers'[job.profile][s] = m
    BY <1>4, <1>1, <2>1 DEF Mark, m
  <2>5. \A p \in Profile, z \in Stage :
          p # job.profile \/ z # s => markers'[p][z] = markers[p][z]
    BY <1>4, <1>1, <2>1 DEF Mark
  <2>6. rows' = rows /\ terms' = terms
    BY <1>4 DEF Mark, lexical
  <2>7. ASSUME NEW p \in Profile, NEW z \in Stage, markers'[p][z] # Nothing
        PROVE  markers'[p][z].physical =
                 Physical[[of |-> markers'[p][z].of, profile |-> p, whole |-> TRUE]]
    <3>1. CASE p = job.profile /\ z = s
      BY <3>1, <2>3, <2>4
    <3>2. CASE p # job.profile \/ z # s
      BY <3>2, <2>5, <2>7 DEF Recorded
    <3> QED BY <3>1, <3>2
  <2>8. \A z \in Stage :
          rows'[z] # Nothing => [stage |-> z, of |-> rows'[z].of, profile |-> rows'[z].profile] \in terms'
    BY <2>6 DEF Recorded
  <2> QED BY <2>7, <2>8 DEF Recorded
<1>5. ASSUME Next,
             ~ \E s \in Stage : ClearStage(s) \/ ImportBatch(s) \/ ImportRest(s) \/ Mark(s)
      PROVE  UNCHANGED <<rows, terms, markers>>
  BY <1>5, Steps DEF StartBuild, StartRecovery, SkipStage, WriteLedger, IndexLexicon,
     BuildVectors, VectorStep, Stamp, Finish, Fail, Change, Discard, lexical
<1> QED BY <1>2, <1>3, <1>4, <1>5 DEF vars, lexical
-----------------------------------------------------------------------------
(* VectorsBelong: the vectors and the command that goes on with them; and  *)
(* the record of the shards.                                               *)
VectorsSound == VectorsBelong /\ RecordedSound

LEMMA VectorsInit ==
  ASSUME Init
  PROVE  VectorsSound
BY DEF Init, SemanticInit, VectorsSound, VectorsBelong, RecordedSound, Every, Lexical, Semantic

(* A step of the builder.                                                  *)
LEMMA BuilderStep ==
  ASSUME TypeOK, VectorsSound, VectorStep
  PROVE  VectorsSound'
<1>1. /\ SemanticTypeOK
      /\ rows' = rows /\ job' = job
      /\ pc \in {"import", "save", "shards"}
  BY DEF VectorStep, SemanticStep, Counted, SaveGlobal, EnglishOnly, Promote, KeepShard,
     TakeShard, AtShard, lexical, TypeOK
<1>2. mapping # Nothing /\ semantic # "none" /\ mapping \in Mapping
  BY <1>1 DEF VectorsSound, VectorsBelong, Semantic, SemanticTypeOK
<1>3. /\ mapping' # Nothing /\ mapping'.edition = mapping.edition
      /\ mapping'.english = mapping.english
      /\ semantic' # "none" /\ pc' \in Semantic
  <2>1. CASE Counted
    <3>1. mapping' = [mapping EXCEPT !.counted = TRUE]
      BY <2>1 DEF Counted
    <3>2. mapping' \in Mapping
      BY <3>1, <1>2 DEF Mapping
    <3>3. mapping' # Nothing
      BY <3>2, NothingAssumption
    <3>4. mapping'.edition = mapping.edition /\ mapping'.english = mapping.english
      BY <3>1, <1>2 DEF Mapping
    <3> QED BY <2>1, <3>3, <3>4, <1>2 DEF Counted, Semantic
  <2>2. CASE ~Counted
    BY <2>2, <1>1, <1>2 DEF VectorStep, SemanticStep, SaveGlobal, EnglishOnly, Promote,
       KeepShard, TakeShard, AtShard, SaveShard, ReplaceShard, RecordShard, Semantic
  <2> QED BY <2>1, <2>2
<1>4. /\ ~mapping.english => \A l \in recorded' : shard'[l] = "good"
      /\ left'.at # Nothing /\ shard'[left'.at] = "good" => temporary'[left'.at] = "none"
  <2>1. /\ ~mapping.english => \A l \in recorded : shard[l] = "good"
        /\ left.at # Nothing /\ shard[left.at] = "good" => temporary[left.at] = "none"
        /\ left.at \in Language \cup {Nothing}
    BY <1>1, <1>2 DEF VectorsSound, VectorsBelong, RecordedSound, SemanticTypeOK
  <2>2. CASE Counted \/ SaveGlobal \/ Promote
    BY <2>1, <2>2 DEF Counted, SaveGlobal, Promote
  <2>3. CASE EnglishOnly
    BY <2>3 DEF EnglishOnly
  <2>4. ASSUME NEW l \in Language, KeepShard(l) \/ RecordShard(l)
        PROVE  /\ ~mapping.english => \A k \in recorded' : shard'[k] = "good"
               /\ left'.at # Nothing /\ shard'[left'.at] = "good"
                    => temporary'[left'.at] = "none"
    <3>1. left'.at = Nothing
      BY <2>4, <1>1 DEF KeepShard, AtShard, RecordShard, SemanticTypeOK
    <3>2. shard' = shard /\ shard[l] = "good" /\ recorded' = recorded \cup {l}
      BY <2>4 DEF KeepShard, RecordShard
    <3> QED BY <2>1, <3>1, <3>2
  <2>5. ASSUME NEW l \in Language, TakeShard(l) \/ SaveShard(l) \/ ReplaceShard(l)
        PROVE  /\ ~mapping.english => \A k \in recorded' : shard'[k] = "good"
               /\ left'.at # Nothing /\ shard'[left'.at] = "good"
                    => temporary'[left'.at] = "none"
    <3>1. recorded' = recorded /\ left'.at = l
      BY <2>5, <1>1 DEF TakeShard, SaveShard, ReplaceShard, SemanticTypeOK
    <3>2. \A k \in Language : shard[k] = "good" => shard'[k] = "good"
      BY <2>5, <1>1 DEF TakeShard, SaveShard, ReplaceShard, SemanticTypeOK
    <3>3. l \in Language /\ l # Nothing
      BY NothingAssumption
    <3>4. shard'[l] = "good" => temporary'[l] = "none"
      BY <2>5, <2>1, <3>3, <1>1 DEF TakeShard, SaveShard, ReplaceShard, SemanticTypeOK
    <3>5. recorded \subseteq Language
      BY <1>1 DEF SemanticTypeOK
    <3> QED BY <2>1, <3>1, <3>2, <3>4, <3>5
  <2> QED BY <2>2, <2>3, <2>4, <2>5 DEF VectorStep, SemanticStep
<1>5. /\ mapping.english = (job.profile = "english")
      /\ job.found = "none" => mapping.edition = job.input[Vectors]
      /\ job.found = "partial" => Shape[mapping.edition] = Shape[job.input[Vectors]]
  BY <1>1, <1>2 DEF VectorsSound, VectorsBelong, Semantic
<1>6. RecordedSound'
  BY <1>3, <1>4 DEF RecordedSound
<1>7. VectorsBelong'
  BY <1>1, <1>3, <1>4, <1>5 DEF VectorsBelong, Lexical, Semantic
<1> QED BY <1>6, <1>7 DEF VectorsSound

LEMMA VectorsStep ==
  ASSUME TypeOK, Running, Imported, Recorded, VectorsSound, [Next]_vars
  PROVE  VectorsSound'
<1>1. /\ rows \in [Stage -> Rows \cup {Nothing}] /\ SemanticTypeOK
  BY DEF TypeOK
<1>2. CASE UNCHANGED vars
  BY <1>2 DEF VectorsSound, VectorsBelong, RecordedSound, vars, semanticVars, lexical
<1>3. ASSUME Next PROVE VectorsSound'
  <2>1. ASSUME NEW p \in Profile, StartBuild(p) PROVE VectorsSound'
    BY <2>1 DEF StartBuild, BuildAllowed, VectorsSound, VectorsBelong, RecordedSound,
       semanticVars, lexical, Lexical, Semantic
  <2>2. CASE StartRecovery
    <3>1. PICK c \in Identity :
            /\ RecoveryAllowed(c)
            /\ job' = [name |-> "recover", found |-> semantic, profile |-> "full",
                       code |-> c, input |-> input, anchors |-> Anchors]
      BY <2>2 DEF StartRecovery
    <3>2. /\ semantic # "none" /\ ~mapping.english
          /\ semantic = "partial" => PostGlobal(input[Vectors])
      BY <3>1 DEF RecoveryAllowed, PostGlobal, CompletedRecovery, Verified
    <3>3. /\ job'.found # "none"
          /\ job'.found = "partial" => Shape[mapping.edition] = Shape[job'.input[Vectors]]
          /\ mapping.english = (job'.profile = "english")
      <4>1. semantic # "none" => mapping # Nothing /\ mapping \in Mapping
        BY <1>1 DEF VectorsSound, VectorsBelong, SemanticTypeOK
      <4>2. mapping.english = FALSE
        BY <3>2, <4>1 DEF Mapping
      <4> QED BY <3>1, <3>2, <4>2 DEF PostGlobal
    <3>4. left'.at = Nothing /\ pc' \in {"shards", "stamp"}
      BY <2>2 DEF StartRecovery, Every
    <3>5. UNCHANGED <<semantic, mapping, global, shard, temporary, recorded, rows>>
      BY <2>2 DEF StartRecovery, lexical
    <3> QED
      BY <3>2, <3>3, <3>4, <3>5 DEF VectorsSound, VectorsBelong, RecordedSound, Lexical, Semantic
  <2>3. ASSUME NEW s \in Stage,
               \/ SkipStage(s) \/ ClearStage(s) \/ ImportBatch(s)
               \/ ImportRest(s) \/ WriteLedger(s) \/ Mark(s)
        PROVE  VectorsSound'
    <3>1. /\ pc \in Lexical /\ pc' \in Lexical
          /\ UNCHANGED semanticVars
      BY <2>3 DEF SkipStage, ClearStage, AtStage, ImportBatch, ImportRest, WriteLedger, Mark,
         NextStage, Goto, Lexical
    <3>2. semantic = "none" /\ mapping = Nothing
      BY <3>1 DEF VectorsSound, VectorsBelong
    <3> QED
      BY <3>1, <3>2 DEF VectorsSound, VectorsBelong, RecordedSound, semanticVars, Lexical,
         Semantic
  <2>4. CASE IndexLexicon
    BY <2>4 DEF IndexLexicon, Goto, VectorsSound, VectorsBelong, RecordedSound, semanticVars,
       lexical, Lexical, Semantic
  <2>5. CASE BuildVectors
    <3>1. /\ pc = "numberbatch" /\ pc' = "import" /\ semantic = "none" /\ semantic' = "partial"
          /\ mapping' = [edition |-> job.input[Vectors], english |-> job.profile = "english",
                         counted |-> FALSE]
          /\ left' = Every
          /\ UNCHANGED <<global, shard, temporary, recorded, rows, job>>
      BY <2>5 DEF BuildVectors, BeginImport, lexical
    <3>2. /\ job.code \in Identity /\ job.profile \in Profile
          /\ job.input \in [Stage \cup {Vectors} -> Edition]
          /\ job.name = "build" /\ job.found = "none"
      BY <3>1 DEF Running
    <3>3. mapping' \in Mapping /\ mapping' # Nothing
      <4>1. job.input[Vectors] \in Edition /\ (job.profile = "english") \in BOOLEAN
        BY <3>2
      <4>2. mapping' \in Mapping
        BY <3>1, <4>1, Zenon DEF Mapping
      <4> QED BY <4>2, NothingAssumption
    <3>5. recorded = {}
      BY <3>1 DEF VectorsSound, VectorsBelong
    <3>6. RecordedSound'
      BY <3>1, <3>5 DEF RecordedSound
    <3>7. VectorsBelong'
      BY <3>1, <3>2, <3>3 DEF VectorsBelong, Lexical, Semantic, Every
    <3> QED BY <3>6, <3>7 DEF VectorsSound
  <2>6. CASE VectorStep
    BY <2>6, BuilderStep
  <2>7. CASE Stamp
    BY <2>7 DEF Stamp, Goto, VectorsSound, VectorsBelong, RecordedSound, semanticVars, lexical,
       Lexical, Semantic
  <2>8. CASE Finish \/ Fail \/ Change
    <3>1. pc' = "idle" /\ UNCHANGED <<semanticVars, rows>>
      BY <2>8 DEF Finish, Fail, Idle, Change, lexical
    <3> QED
      BY <3>1 DEF VectorsSound, VectorsBelong, RecordedSound, semanticVars, Lexical, Semantic
  <2>9. CASE Discard
    BY <2>9 DEF Discard, RemoveSemantic, Every, VectorsSound, VectorsBelong, RecordedSound,
       Lexical, Semantic
  <2> QED
    BY <1>3, Steps, <2>1, <2>2, <2>3, <2>4, <2>5, <2>6, <2>7, <2>8, <2>9
<1> QED BY <1>2, <1>3
-----------------------------------------------------------------------------
(* Promoted: the step that promotes a corpus, and there is none after it.  *)
LEMMA PromotedInit ==
  ASSUME Init
  PROVE  Promoted
BY DEF Init, Promoted, PromotedWhole, PromotedVectors, TermsHeld

LEMMA PromotedStep ==
  ASSUME TypeOK, Promoted, Running, Imported, Recorded, VectorsSound, [Next]_vars
  PROVE  Promoted'
<1>1. CASE UNCHANGED vars
  BY <1>1 DEF Promoted, PromotedWhole, PromotedVectors, TermsHeld, Verified, vars, semanticVars,
     Whole, Fresh
<1>2. CASE Finish
  <2>1. /\ output' = [rows |-> rows, terms |-> terms, vectors |-> mapping, lock |-> job.input,
                      profile |-> job.profile, found |-> job.found]
        /\ pc = "gates" /\ Verified /\ UNCHANGED semanticVars
    BY <1>2 DEF Finish
  <2>2. /\ job.code \in Identity /\ job.profile \in Profile
        /\ job.input \in [Stage \cup {Vectors} -> Edition]
    BY <2>1 DEF Running
  <2>3. \A s \in Stage : Full(s, job)
    BY <2>1 DEF Imported, Semantic
  <2>4. ASSUME NEW s \in Stage PROVE rows[s] # Nothing
    <3>1. Whole(s, job) \in Rows /\ Whole(s, job).whole
      BY <2>2, WritesRows DEF Whole
    <3> QED BY <2>3, <3>1, CountsAssumption DEF Full
  <2>5. PromotedWhole'
    <3>1. \A s \in Stage :
            Physical[output'.rows[s]] =
              Physical[Whole(s, [code |-> job.code, input |-> output'.lock,
                                 profile |-> output'.profile])]
      BY <2>1, <2>3 DEF Full, Whole, Fresh
    <3> QED BY <2>2, <3>1 DEF PromotedWhole, Whole, Fresh
  <2>6. PromotedVectors'
    <3>1. mapping # Nothing /\ mapping \in Mapping
      BY <2>1 DEF VectorsSound, VectorsBelong, Verified, TypeOK, SemanticTypeOK, Semantic
    <3>2. mapping.english = (job.profile = "english")
      BY <2>1 DEF VectorsSound, VectorsBelong, Semantic
    <3>3. /\ job.found = "none" => mapping.edition = job.input[Vectors]
          /\ job.found = "partial" => Shape[mapping.edition] = Shape[job.input[Vectors]]
      BY <2>1 DEF VectorsSound, VectorsBelong, Semantic
    <3>4. Verified'
      BY <2>1 DEF Verified, semanticVars
    <3> QED BY <2>1, <3>2, <3>3, <3>4 DEF PromotedVectors
  <2>7. TermsHeld'
    BY <2>1, <2>4 DEF TermsHeld, Recorded
  <2> QED BY <2>5, <2>6, <2>7 DEF Promoted
<1>3. CASE Next /\ ~Finish
  <2>1. output = Nothing
    BY <1>3, NothingAfter
  <2>2. output' = output
    BY <1>3, Steps DEF StartBuild, StartRecovery, SkipStage, ClearStage, ImportBatch, ImportRest,
       WriteLedger, Mark, IndexLexicon, BuildVectors, VectorStep, Stamp, Fail, Change, Discard
  <2> QED BY <2>1, <2>2 DEF Promoted, PromotedWhole, PromotedVectors, TermsHeld
<1> QED BY <1>1, <1>2, <1>3
-----------------------------------------------------------------------------
(* The parts together are the invariant.                                   *)
LEMMA Parts ==
  IInv <=> /\ TypeOK /\ VectorsSound /\ Promoted /\ Running /\ Imported /\ Recorded
BY DEF IInv, BuildSound, VectorsSound

LEMMA PartsPrimed ==
  TypeOK' /\ VectorsSound' /\ Promoted' /\ Running' /\ Imported' /\ Recorded' => IInv'
BY Parts, PTL

(* IInv holds of every behaviour: a running command's finished stages have *)
(* as many rows as its editions and profile make, the markers that earlier *)
(* commands left count rows that were whole, and vectors on disk have the  *)
(* profile of the command that goes on with them.                          *)
THEOREM BuildInvariant == Spec => []IInv
<1>1. Init => IInv
  BY Parts, TypeInit, VectorsInit, PromotedInit, RunningInit, ImportedInit, RecordedInit
<1>2. IInv /\ [Next]_vars => IInv'
  <2> SUFFICES ASSUME IInv, [Next]_vars PROVE IInv'
    OBVIOUS
  <2>1. TypeOK /\ VectorsSound /\ Promoted /\ Running /\ Imported /\ Recorded
    BY Parts
  <2>2. VectorsBelong
    BY <2>1 DEF VectorsSound
  <2>3. TypeOK'
    BY <2>1, <2>2, TypeStep
  <2>4. VectorsSound' /\ Promoted'
    BY <2>1, VectorsStep, PromotedStep
  <2>5. Running' /\ Imported' /\ Recorded'
    BY <2>1, RunningStep, ImportedStep, RecordedStep
  <2> QED BY <2>3, <2>4, <2>5, PartsPrimed
<1> QED BY <1>1, <1>2, PTL DEF Spec

(* A row of semantic_languages is never written for a shard that is not    *)
(* there whole, and every variable has its type.                           *)
THEOREM BuildAlwaysSound == Spec => []BuildSound
<1>1. IInv => BuildSound
  BY DEF IInv
<1> QED BY <1>1, BuildInvariant, PTL

(* A promoted corpus has as many rows of every kind as one pipeline makes  *)
(* of the editions its lock names under its profile, the terms they refer  *)
(* to, and the vectors of that profile with an index of every language;    *)
(* whatever editions, pipelines and profiles have the same counts.         *)
THEOREM AlwaysPromotedWhole == Spec => []Promoted
<1>1. IInv => Promoted
  BY DEF IInv
<1> QED BY <1>1, BuildInvariant, PTL

(* A command never undoes or repeats a shard that was finished, and a      *)
(* recovery never touches rows, checkpoints, mapping or global index.      *)
THEOREM WorkAlwaysKept == Spec => WorkKept
<1> DEFINE Kept ==
      /\ job # Nothing /\ job.name = "recover" => UNCHANGED <<lexical, markers, mapping, global>>
      /\ \A l \in Language : shard[l] = "good" /\ pc # "idle" =>
           shard'[l] = "good" /\ temporary'[l] \in {temporary[l], "none"}
<1>1. IInv /\ [Next]_vars => [Kept]_vars
  <2> SUFFICES ASSUME IInv, Next PROVE Kept
    OBVIOUS
  <2>1. TypeOK /\ VectorsSound /\ Running /\ SemanticTypeOK
    BY Parts DEF TypeOK
  <2>2. ASSUME job # Nothing, job.name = "recover"
        PROVE  UNCHANGED <<lexical, markers, mapping, global>>
    <3>1. pc \in {"shards", "stamp", "gates"}
      BY <2>1, <2>2 DEF Running
    <3> QED
      BY <3>1, Steps DEF StartBuild, StartRecovery, SkipStage, ClearStage, AtStage, ImportBatch,
         ImportRest, WriteLedger, Mark, IndexLexicon, BuildVectors, BeginImport, VectorStep,
         SemanticStep, Counted, SaveGlobal, EnglishOnly, Promote, KeepShard, TakeShard, SaveShard,
         ReplaceShard, RecordShard, Stamp, Finish, Fail, Change, Discard, semanticVars
  <2>3. ASSUME NEW l \in Language, shard[l] = "good", pc # "idle"
        PROVE  shard'[l] = "good" /\ temporary'[l] \in {temporary[l], "none"}
    <3>1. CASE VectorStep
      <4>1. left.at # Nothing /\ shard[left.at] = "good" => temporary[left.at] = "none"
        BY <2>1 DEF VectorsSound, VectorsBelong
      <4>2. CASE Counted \/ SaveGlobal \/ EnglishOnly \/ Promote
        BY <4>2, <2>3 DEF Counted, SaveGlobal, EnglishOnly, Promote
      <4>3. ASSUME NEW k \in Language,
                   \/ KeepShard(k) \/ TakeShard(k)
                   \/ SaveShard(k) \/ ReplaceShard(k) \/ RecordShard(k)
            PROVE  shard'[l] = "good" /\ temporary'[l] \in {temporary[l], "none"}
        BY <4>1, <4>3, <2>1, <2>3, NothingAssumption DEF KeepShard, TakeShard, SaveShard,
           ReplaceShard, RecordShard, SemanticTypeOK
      <4> QED BY <3>1, <4>2, <4>3 DEF VectorStep, SemanticStep
    <3>2. CASE ~VectorStep
      BY <2>3, <3>2, Steps DEF StartBuild, StartRecovery, SkipStage, ClearStage, ImportBatch,
         ImportRest, WriteLedger, Mark, IndexLexicon, BuildVectors, BeginImport, Stamp, Finish,
         Fail, Change, Discard, semanticVars
    <3> QED BY <3>1, <3>2
  <2> QED BY <2>2, <2>3
<1>2. [][Kept]_vars => WorkKept
  BY PTL DEF WorkKept
<1> QED BY <1>1, <1>2, BuildInvariant, PTL DEF Spec
=============================================================================
