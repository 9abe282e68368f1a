------------------------------ MODULE Numberbatch ------------------------------
(***************************************************************************)
(* pipeline/numberbatch.py: the vectors of a corpus are imported into a    *)
(* mapping database and a matrix, indexed as a whole and once more for     *)
(* each language, in semantic.partial, which becomes semantic in one       *)
(* rename.  A build that dies leaves its files; what has reached the saved *)
(* global index can be finished by resume_numberbatch_partial.             *)
(*                                                                         *)
(* A file is none, torn (being written when its process died) or good.     *)
(* The builder is a part of CorpusBuild, whose process runs it.            *)
(***************************************************************************)
EXTENDS Naturals

CONSTANTS
  Nothing,
  Language,   \* the languages the accepted vectors have
  Edition,    \* contents of source files
  Shape       \* the row count and dimensions in the header of an edition

VARIABLES
  pc,         \* where the build or recovery is
  semantic,   \* the directory: "none", "partial" or "semantic"
  mapping,    \* mapping.sqlite3 and the matrix
  global,     \* indexes/global.usearch
  shard,      \* indexes/languages/<language>.usearch
  temporary,  \* and <language>.usearch.partial
  recorded,   \* rows of semantic_languages
  left        \* languages the process has yet to deal with, and the one it is at

semanticVars == <<semantic, mapping, global, shard, temporary, recorded, left>>

File == {"none", "torn", "good"}
NoFiles == [l \in Language |-> "none"]
Every == [languages |-> Language, at |-> Nothing]

(* Importing is done batch by batch; the counters of malformed, duplicate  *)
(* and filtered rows are committed last.                                   *)
Mapping == [edition : Edition, english : BOOLEAN, counted : BOOLEAN]

SemanticInit ==
  /\ semantic = "none"
  /\ mapping = Nothing
  /\ global = "none"
  /\ shard = NoFiles
  /\ temporary = NoFiles
  /\ recorded = {}
  /\ left = Every
-----------------------------------------------------------------------------
(* build_numberbatch: never over a directory that is there already. *)
BeginImport(edition, english) ==
  /\ pc = "numberbatch"
  /\ semantic = "none"
  /\ pc' = "import"
  /\ semantic' = "partial"
  /\ mapping' = [edition |-> edition, english |-> english, counted |-> FALSE]
  /\ left' = Every
  /\ UNCHANGED <<global, shard, temporary, recorded>>

Counted ==
  /\ pc = "import"
  /\ pc' = "save"
  /\ mapping' = [mapping EXCEPT !.counted = TRUE]
  /\ UNCHANGED <<semantic, global, shard, temporary, recorded, left>>

SaveGlobal ==
  /\ pc = "save"
  /\ global' = IF global = "torn" THEN "good" ELSE "torn"
  /\ pc' = IF global = "torn" THEN "shards" ELSE "save"
  /\ UNCHANGED <<semantic, mapping, shard, temporary, recorded, left>>

(* _validate_post_global_partial: the counters have to add up to the rows  *)
(* the header of the source declares, filtered ones not among them.        *)
PostGlobal(edition) ==
  /\ semantic = "partial"
  /\ global = "good"
  /\ mapping.counted
  /\ Shape[mapping.edition] = Shape[edition]
  /\ ~mapping.english
-----------------------------------------------------------------------------
(* _finish_numberbatch_partial.  The English profile has no shards: its    *)
(* global index is recorded as the index of the language.                  *)
EnglishOnly ==
  /\ pc = "shards"
  /\ mapping.english
  /\ recorded' = Language
  /\ left' = [languages |-> {}, at |-> Nothing]
  /\ UNCHANGED <<pc, semantic, mapping, global, shard, temporary>>

AtShard(l) == pc = "shards" /\ ~mapping.english /\ left.at = Nothing /\ l \in left.languages

(* A shard that is valid is kept, and its row is written if it is missing. *)
KeepShard(l) ==
  /\ AtShard(l)
  /\ shard[l] = "good"
  /\ temporary' = [temporary EXCEPT ![l] = "none"]
  /\ recorded' = recorded \cup {l}
  /\ left' = [left EXCEPT !.languages = @ \ {l}]
  /\ UNCHANGED <<pc, semantic, mapping, global, shard>>

(* Defect: the row is written before the file is in its place. *)
RecordFirst(l) ==
  /\ AtShard(l)
  /\ shard[l] # "good"
  /\ left' = [left EXCEPT !.at = l]
  /\ temporary' = [temporary EXCEPT ![l] = IF @ = "good" THEN @ ELSE "torn"]
  /\ recorded' = recorded \cup {l}
  /\ UNCHANGED <<pc, semantic, mapping, global, shard>>

(* A temporary that is valid is moved into place; another is built.        *)
TakeShard(l) ==
  /\ AtShard(l)
  /\ shard[l] # "good"
  /\ left' = [left EXCEPT !.at = l]
  /\ temporary' = [temporary EXCEPT ![l] = IF @ = "good" THEN @ ELSE "torn"]
  /\ UNCHANGED <<pc, semantic, mapping, global, shard, recorded>>

(* _build_language_index: saved, reopened and compared key by key. *)
SaveShard(l) ==
  /\ left.at = l
  /\ temporary[l] = "torn"
  /\ temporary' = [temporary EXCEPT ![l] = "good"]
  /\ UNCHANGED <<pc, semantic, mapping, global, shard, recorded, left>>

ReplaceShard(l) ==
  /\ left.at = l
  /\ temporary[l] = "good"
  /\ shard' = [shard EXCEPT ![l] = "good"]
  /\ temporary' = [temporary EXCEPT ![l] = "none"]
  /\ UNCHANGED <<pc, semantic, mapping, global, recorded, left>>

RecordShard(l) ==
  /\ left.at = l
  /\ shard[l] = "good"
  /\ recorded' = recorded \cup {l}
  /\ left' = [languages |-> left.languages \ {l}, at |-> Nothing]
  /\ UNCHANGED <<pc, semantic, mapping, global, shard, temporary>>

(* Every language has its file and there is no other: the directory gets   *)
(* its final metadata and its final name.                                  *)
Promote ==
  /\ pc = "shards"
  /\ left.languages = {}
  /\ semantic' = "semantic"
  /\ pc' = "stamp"
  /\ UNCHANGED <<mapping, global, shard, temporary, recorded, left>>

SemanticStep ==
  \/ Counted \/ SaveGlobal \/ EnglishOnly \/ Promote
  \/ \E l \in Language :
       \/ KeepShard(l) \/ TakeShard(l)
       \/ pc = "shards" /\ (SaveShard(l) \/ ReplaceShard(l) \/ RecordShard(l))

(* The operator removes a directory that neither command accepts. *)
RemoveSemantic ==
  /\ semantic' = "none"
  /\ mapping' = Nothing
  /\ global' = "none"
  /\ shard' = NoFiles
  /\ temporary' = NoFiles
  /\ recorded' = {}
  /\ left' = Every
-----------------------------------------------------------------------------
(* _verified_semantic_counts: everything is there and can be opened.       *)
Verified ==
  /\ semantic = "semantic"
  /\ mapping.counted
  /\ global = "good"
  /\ recorded = Language
  /\ mapping.english \/ \A l \in Language : shard[l] = "good"

(* _completed_semantic_recovery_counts: the counters have to add up, too.  *)
CompletedRecovery == Verified /\ ~mapping.english

SemanticTypeOK ==
  /\ semantic \in {"none", "partial", "semantic"}
  /\ mapping = Nothing \/ mapping \in Mapping
  /\ global \in File
  /\ shard \in [Language -> File]
  /\ temporary \in [Language -> File]
  /\ recorded \subseteq Language
  /\ left \in [languages : SUBSET Language, at : Language \cup {Nothing}]
=============================================================================
