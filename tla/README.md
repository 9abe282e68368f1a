# Lexicon MCP: a verification project in TLA+

Lexicon MCP is an offline dictionary server. Its data is installed from
releases, verified, activated and replaced by `lexicon-data`; an MCP server
reads the active installation and answers queries, some of them through a
separate search process. This directory models the parts of that program whose
correctness depends on order: what happens when commands overlap, when a
process dies between two writes, when a download is cut short, when an answer
comes too late, when a cache evicts something that is still in use. It also models
the data those parts hand on: what a corpus becomes when it is cut into packs,
and what the packs answer. TLC checks the models on small instances; TLAPS
proves nearly all of the safety properties for every instance.

Paths below are relative to the package `src/lexicon_mcp/` unless they name a
top-level file of the repository.

## 1. Inventory

### Data root and its commands (`data/`)

| component | state | operations | what is hard | what must hold |
|---|---|---|---|---|
| `manifest.py` release manifest | none (immutable) | parse; packs by capability and language | many validation rules | one pack per (capability, language) |
| `selection.py` | none (pure) | `resolve` a request to packs and components | requests that differ and resolve alike | nothing asked for is silently dropped |
| `activation.py` | record files `activations/<id>.json` | build, parse, id | the id hashes the contents, not the request | an id stands for one thing |
| `store.py` | `components/sha256/xx/<digest>` | verify, adopt, prune | presence is not integrity | what is pointed at was verified; what is retained stays |
| `locking.py` | `.install.lock` | non-blocking acquire, release | release by crash; what is done outside the lock | mutual exclusion, never left locked |
| `component_lifecycle.py` (schema 2 root) | `current.json`, records, manifests, store, staging | install, add-language, remove-language, activate, prune, forget, status, verify | interleaving, crashes between four writes, damage, rollback | the previous install stays intact; the pointer resolves |
| `lifecycle.py` downloads, `transport.py` | `.partial` and final files, mirror directory | `fetch`, `_http_download`, `_copy_local_asset`, `_download_part` | resuming, faulty servers, kills, concurrent mirrors | only verified files get final names; reruns complete |
| `lifecycle.py` (schema 1 root) | `versions/<version>/`, `current.json` | install, repair, rollback, status, verify | kills between rename and pointer, damage, the two editions of a version, a schema 2 pointer | what the pointer names is whole; a rollback is verified |
| `integrity.py` | none | checks of SQLite and vector files | content | by its verdict only |
| `data_cli.py` | none | dispatch | two layouts behind one command line | which commands exist |

### Runtime (`runtime/`, `server.py`)

| component | state | operations | what is hard | what must hold |
|---|---|---|---|---|
| `locator.py` | none | find and check the active activation | reads without the lock | only a forgotten activation fails a reader |
| `router.py` | LRU of SQLite connections, coverage | availability, connection_for, close | eviction while a connection is in use | no closed connection is used |
| `service.py`, `pack_queries.py`, `traversal.py` | connections | relations, lookup, translations, synonyms | budgets, round-robin allocation, two-hop paths, packs against one file | packs answer what the corpus would; no place is wasted |
| `semantic.py` `SemanticWorker` | process, pipes, queue, timer, two locks | search, retire, close | timeout against late answer, timer against search, close against spawn | own answers, one process, everything ends |
| `semantic.py` `_INDEX_CACHE`, `pack_semantic.py` | two LRU caches of 4 over the same objects | open, evict, reset, search | evictions of one unknown to the other; threads | no cache keeps an index it has reset |
| `server.py`, `offline.py` | one lazily opened service | tools; semantic searches run on threads | a root that changes while it is opened | the server comes up |
| `wordplay.py`, `actual_wordplay.py` | one connection each | indexed queries | text derivations | not modelled |

### Building and releasing (`pipeline/`, `scripts/`, `live_acceptance.py`)

| component | state | operations | what is hard | what must hold |
|---|---|---|---|---|
| `orchestrator.py` | lexicon, ledger, checkpoint markers, `corpus.partial` | build, recover from a semantic partial | kills, changed sources and changed code between runs | a promoted corpus is what its lock says |
| `numberbatch.py` | mapping, global index, shards, `semantic.partial` | build, resume | kills between a file, its name and its record | finished work is kept and only it is recorded |
| importers (`wiktextract.py`, ...) | rows and terms of one source | import | interrupted imports | by what they clear and commit |
| `transform.py`, `packs.py`, `scripts/build_v2_release.py` | counts, plan, packs | count, plan, build packs | stubs and their counts, closure, renumbered vectors, stale caches | packs are the corpus, repartitioned |
| `release.py`, `manifest.py` (pipeline), `scripts/publish_data_release.py` | package directory, draft release | package, stage, publish, amend | crashes between links, racing publishers | what is public is one accepted build |
| `notice_amendment.py` | notices, build manifest, transaction directory | amend, recover | a kill between any two renames, in recovery too | all or nothing, decided once |
| `live_acceptance.py`, `ann_validation.py`, wrappers | evidence files | measure a deployment | external processes | by its verdict |

### How they interact

The commands share the data root. Each mutating command takes the installation
lock, but `_amend` reads the active selection first, `fetch` takes no lock at
all, and readers (`ComponentLocator`) never do. Schema 1 and schema 2 commands
share `current.json` and the lock and nothing else. `install` calls the
download code for each missing component and the store to adopt it. The server
opens the active installation on the first query that succeeds in it, and then
opens packs when it needs them. The tools run on the server's event loop, the
semantic searches on its worker threads; both reach the router, the latter for
its catalogue. The orchestrator drives the importers and the vector builder;
its corpus is amended in place, cut into packs, packaged and published, and a
release is what the commands of the root install.

## 2. Plan

Built, in this order:

1. `Selection`, `ComponentLifecycle`, the abstract `DatasetRoot`, their proofs.
2. `ComponentIntent`: the lifecycle with a memory of what was asked and how it
   is lost.
3. `SemanticWorker`, `PackIndexCache`, `MirrorFetch`.
4. `DatasetLifecycle`: the schema 1 root beside a schema 2 pointer.
5. `Numberbatch` inside `CorpusBuild`: checkpoints, kills, recovery.
6. `NoticeAmendment`; `ReleasePublication`.
7. `PackContents`, `RelationQueries`, `DictionaryQueries`, composed by
   `PackedRelease`: from a corpus to an answer.
8. `ComponentReader`, composed with `ComponentLifecycle`; `PackRouter`, composed
   with `PackIndexCache`.

9. Theorems: each state machine has an inductive invariant, and its safety
   properties are proved from it.

Next: `MirrorFetch` for the installer's way into the download code, under its
lock. Wordplay queries and the seeding and reranking of semantic search are the
largest parts without a model.

## 3. Modules

| module | models | role |
|---|---|---|
| `Selection` | `selection.py`, packs of `manifest.py`, ids of `activation.py` | operators |
| `ComponentLifecycle` | `component_lifecycle.py`, `store.py`, `locking.py` | state machine |
| `DatasetRoot` | what a data root promises | abstract specification |
| `ComponentIntent` | `ComponentLifecycle` and a history of what users asked for | history variable |
| `ComponentReader` | `ComponentLifecycle` beside `locator.py`, `_LazyService`, `from_components` | composition |
| `DatasetLifecycle` | schema 1 commands of `lifecycle.py` | state machine |
| `MirrorFetch` | `DatasetLifecycle.fetch` and the download code | state machine |
| `SemanticWorker` | `SemanticWorker` and `_worker_main` of `runtime/semantic.py` | state machine |
| `PackIndexCache` | `_load_index`, `PackSemanticSearch._index` | state machine |
| `PackRouter` | `PackIndexCache` beside `router.py` | composition |
| `Numberbatch` | `pipeline/numberbatch.py` | actions, run by `CorpusBuild` |
| `CorpusBuild` | `pipeline/orchestrator.py` and the importers' commits | state machine |
| `NoticeAmendment` | `pipeline/notice_amendment.py` | state machine |
| `ReleasePublication` | `pipeline/release.py`, writers of `pipeline/manifest.py`, `publish_data_release.py` | state machine |
| `PackContents` | `packs.py`, `transform.py` | operators |
| `RelationQueries`, `DictionaryQueries` | queries of `service.py`, `pack_queries.py` | operators |
| `PackedRelease` | `build_v2_release.py`, installing some packs, asking | state machine over the three |
| `ComponentLifecycleProofs` | `Selection`, `ComponentLifecycle`, `DatasetRoot`, `ComponentIntent`, `ComponentReader` | proofs |
| `PackRouterProofs` | `PackIndexCache`, `PackRouter` | proofs |
| `SemanticWorkerProofs`, `DatasetLifecycleProofs`, `MirrorFetchProofs`, `CorpusBuildProofs`, `NoticeAmendmentProofs` | the module each is named after | proofs |
| `ReleaseProofs` | `PackedRelease` with its operators, `ReleasePublication` | proofs |
| `MC...` | | instances for TLC |

Each state machine contains a few operators whose comment begins with
"Defect". They are not part of the specification (no action refers to them).
Each is the definition that follows it with one plausible bug: putting it in
the definition's place must make TLC report a named property violated, which
shows that the property is able to see that bug. `PROJECT.json` lists the pairs.

At the end of a state machine's module stand, under "What keeps these
invariant", the parts of its inductive invariant; section 5 says what they are for.

Properties that belong to one idea are named parts of one formula, which is
what a run checks: `WorkersSound` is `TypeOK /\ OneProcess /\ ClosedForGood`,
`BudgetsKept` the four budgets of an answer. The parts carry the explanation.

### ComponentLifecycle

A process is a user who runs one command after another. `pc` is the position
in the running command, and there is one action for each access to the shared
root, so that commands interleave exactly where the program lets them. The
variables are the root itself: `store` (the state of the file at each digest's
path: absent, good, or bad, that is, not hashing to its name), `records` and
`torn` (record files, readable or not), `pointer` (`current.json`), `manifests`
and `lock`. The locals are the amendment asked for (`ask`), the request to
install (`plan`), the activation id concerned (`target`), digests still to be
fetched or deleted (`todo`) and the staged file (`staged`).

| code | actions |
|---|---|
| `install` | `StartInstall`, then `_apply` |
| `add_languages`, `remove_languages` | `StartAmend`, `ReadPointer`, `ReadRecord` (all before the lock), then `_apply` |
| `_apply` | `AcquireLock`, `Scan`, `Materialize` and `Adopt` for each missing component, `RetainManifest`, `WriteRecord`, `WritePointer` |
| `activate` | `StartUpkeep`, `AcquireLock`, `Verify`, `WritePointer` |
| `prune` | `StartUpkeep`, `AcquireLock`, `Mark`, `Sweep` for each object, `Swept` |
| `forget` | `StartUpkeep`, `AcquireLock`, `CheckForget`, `Unlink` |
| `LockBusyError` | `LockBusy` |
| errors the code raises | `Refuse` |
| any other exception, a kill | `Abort`, enabled at every step |

Writes of the pointer, records and manifests go through a temporary file and
one rename, so each is one action. `Adopt` hashes and renames in one action:
the staged file is private to the holder of the lock. `Materialize` stands for
the whole download (its own module is `MirrorFetch`) and yields a verified file
or fails. `RotObject`, `TearRecord` and `RotStaged` are damage by the disk; the
first two happen while no command holds the lock, since within one command the
code itself does not recheck what it has checked.

Components are represented by their digests: the store, the record and the id
know them by nothing else. A release is its dataset version and manifest hash
together, since releases are immutable. Sizes, timestamps and reports are left
out; the disk-space preflight is one of the failures `Abort` stands for.

### DatasetRoot

A set of digests held intact, the retained activations, the active one. An
activation may be retained only when everything it lists is held, a component
reclaimed only when no retained activation lists it, an activation forgotten
only when it is not active. `ImplementsRoot` says that
`ComponentLifecycle` implements it under the mapping `held` = the digests whose
object is good, `retained` = the record files, `active` = the pointer.

### ComponentIntent

Adds three history variables that only the properties read: `intent`, the
languages that the commands which succeeded, in the order of their pointer
swaps, leave the users with; `overtaken`, the amendments that read the active
selection before another command replaced it; `lapsed`, that the intent has been
lost. `IntentServed` is what the README of the repository says, `IntentKept`
what is left of it: the selection serves the intent unless it has lapsed, in one
of exactly two ways (`OvertakenBy`, `RecordAsksLess`).

### SemanticWorker

One action for each block under `self._lock`; `self._request_lock` is the
variable `requestLock`, held over several actions. `stdin` and `responses` are
the pipe and the queue of each spawned process, which outlive it; a response
carries the number of the search it answers only so that the property can say
whose it is: the program does not. `armed` and `firing` tell a timer that can
still be cancelled from one that has expired and waits for the lock.
`SendFails` gathers the ways the first locked block raises (closed, spawn
failed, broken pipe). The file check `available`, the contents of requests and
the search itself are left out; `ok` tells results from an error.

### PackIndexCache

Both caches as sequences, least recently used first. One operation on a
dictionary is one action; `Insert` and `Store` include the evictions that
follow, which the threads could at most perform in each other's place. Index
objects have names that are used again once nothing refers to them. `reset`
holds the objects whose memory map has been closed. None of them is in the
global cache (`CachedOpen`); the upper cache may well hand one out (section 4).

### MirrorFetch

Names, inodes and handles are kept apart: `partial` and `final` map names to
inodes, `content` maps inodes to chunks, and each fetch has a handle `fd` while
it copies a body. This is what a POSIX directory does; on Windows an open file
cannot be replaced and some of the interleavings of two fetches fail instead.
A file is created under an inode nothing refers to; there are inodes enough
for every name, partial name and handle, as `FetchAssumption` says.
A chunk is the digest it belongs to and its place, so that bytes of two
releases, misplaced bytes and holes are told from good ones. `Open` models the
request: the server's honest answer to a range that begins at the end is 416,
which `UrllibTransport` raises. `BadResponse`, `ReceiveJunk`, `Oversized`, an
early `EndBody` and `Kill` are faults. `_copy_local_asset` differs in two
places (`Open` asks nobody, `Fails` does not retry) and shares the rest.
`_download_part`, the installer's way in, is the same but for its names, which
contain the digest, and for the lock it runs under.

### DatasetLifecycle

The schema 1 root: `dirs` is the directory of each version (its manifest and
the content at each path), `pointer` is `current.json`, which names a version
and the release (edition) that was activated and may also be one that a schema
2 command wrote (`TakeOver`). `install` is `StartInstall`, `Acquire`,
`InstallPresent` or `InstallStage`, `Materialize` for each component, `Publish`
(the rename of the staging directory), `Published`, `Activate`; `repair` is
`StartRepair`, `Acquire`, `Diagnose`, `Mend` for each damaged component,
`Mended`; `rollback` is `StartRollback`, `Acquire`, `Rollback`, `Activate`. A
kill leaves what the step before it had done, `leftovers` a staging directory,
of an install or of a repair, that nothing reads. A file is the digest of its content; `Bad` is any other content.

### Numberbatch and CorpusBuild

`CorpusBuild` is one machine on which one command runs at a time: the full
build, stage after stage, or the recovery of a corpus from a semantic partial.
A stage is cleared, imported in two commits (`ImportBatch`, `ImportRest`),
entered in the ledger and marked; what a resumed build may skip is decided by
`Resumable`, from marker, ledger and fingerprint, as in the code. `rows` holds
for each stage the edition, code version and profile its rows came from and
whether they are all there, which only the model knows: marker and ledger hold
counts (`Logical`, `Physical`), and these are all that `Resumable` compares. `terms` are
the words a stage interned, which outlive its rows. `Numberbatch` supplies the
vectors: import, global index, a shard for each language in the four steps
temporary, rename, record, next; and `PostGlobal`, what a resumption accepts.
`Change` replaces a source or the code between commands, `Fail` is a kill, a
full disk or a failing gate, `Discard` an operator who removes a semantic
directory that neither command accepts.

### NoticeAmendment

`tx` is the transaction directory as a tree of files (journal, backup of the
manifest, new and old notices), `partial` the same while it is prepared. Each
rename, each write of the journal and each unlink of the cleanup is an action,
so that a kill comes between any two of them, in an amendment, a rollback or a
roll-forward. Every command begins with the recovery of what an earlier one
left. An exception is recovered by the process that met it (`raising`). The
repository may change between the reads of it.

### ReleasePublication

Packaging writes temporaries, links them to their names and writes the manifest
last, file by file; an exception unlinks what the run has noted, a kill leaves it.
A part that is linked and whose temporary cannot be removed is not noted yet, so
it stays (`Linked`). An interrupt between the rename of the manifest and the
return is not modelled: nothing there raises by itself.
Staging looks for the draft, lists it, uploads what is missing, lists it again;
publishing checks the draft, edits it, and looks at the result. Several
operators do so with the builds they have; `remote` is the one release of the
version on GitHub, with a content for each asset. Acceptance enters by its
verdict: a set of builds with a report. `Digests` says whether GitHub shows digests.

### PackContents, RelationQueries, DictionaryQueries, PackedRelease

A table is a set of rows, a string its place in the order the queries use.
`PackContents` has one operator for each builder of `transform.py` and
`packs.py`. The query modules have one for each step of a query, over a
database, which is either a pack or the corpus; SQL's `ORDER BY` and `LIMIT` are
`Sorted` and `Prefix`. `PackedRelease` grows a corpus row by row (`Import`),
counts and plans it, possibly before it is complete, builds the packs, installs
any set of them and asks. The specification of the packs is the corpus: the
same question is answered from it by the code's other path
(`_relation_rows_many` over one file, `BatchedHops`) and compared.

### ComponentReader

A server beside `ComponentLifecycle`: `CallTool`, `ReadSchema`, `ReadName`,
`ReadActivation`, `FindComponent` for each component, `Open`, each an access to
the root between the commands' own; `OpenFails` gathers the exceptions, after
which the next call starts over; `Query` opens a pack when it needs one. A
server that has opened its activation keeps it until it is stopped, also when a
query finds a pack gone (`refused`): no call makes it open the root again. Besides a
forgotten activation, `ReaderUndisturbed` excepts one without a lexical pack,
which `from_components` refuses (`service.py:292`).

### PackRouter

`Connect` is the router's LRU with the closing of what it evicts. The event
loop asks for the connections of a query one by one (`Route`) and uses them
afterwards; the search threads of `PackIndexCache` may at any time read the
catalogue (`ReadCoverage`), which opens the core pack. `held` are the
connections the query has, `stale` those of them that have been closed. `open`
is ordered by last use (`MostRecent`), on which a query's safety rests.

## 4. Runs

| run | instance | checks |
|---|---|---|
| `core` | 2 processes, 2 releases sharing a core and a pack, installs by name and of everything, both amendments, activate, prune, forget; one damaged file | `IInv`, `RollbackReady`, `PointerResolves`, `PreviousInstallIntact`, `ActivateVerifies`, `PruneExact`, `ImplementsRoot` |
| `serve` | 2 processes and a server, one release of two languages installed with either, activate, prune, forget, an amendment that changes nothing; no damage | `CommandsEnd`, `ReaderUndisturbed`, `ServerComesUp` |
| `versions` | 2 processes, 3 releases of 2 versions (two editions of one), 2 components; two faults | `VersionsSound`, `RootMovesSafely`, `RepairHeals` |
| `mirror` | 1 process, 2 releases with 2 parts, one name with other bytes in each, both sources, 2 chunks, 3 attempts, 3 faults | `MirrorSound`, `BytesKept`, `ManifestLandsLast`, `FetchCompletesOrFull` |
| `worker` | 2 threads, 3 searches | `WorkersSound`, `OwnResponse`, `RetiresOnlyIdle`, `SearchesEnd`, `IdleReclaimed` |
| `caches` | 2 search threads, 2 languages with vectors, both index caches of size 1; 3 packs and the core for 3 connections, frontiers of 2 packs, one language not installed | `CachesSound`, `NoClosedUse` |
| `pipeline` | 2 lexical stages, one of which may be revised, vectors with a revision of another shape, 2 languages, 2 profiles, 2 code versions; 2 kills, 2 changes | `BuildSound`, `Promoted`, `WorkKept`, `BuildEnds` |
| `amend` | 3 commits, one of which restores the first notices, 2 reasons, 2 amendments, 2 faults, one change of the repository | `AmendmentSound`, `AllOrNothing`, `DecisionStands`, `ResolvedOrStranded` |
| `release` | 2 operators, one of whom packages, 2 builds of equal sizes, 2 artifacts of 3 parts, 2 packaging runs, one fault | `PackageSound`, `PublishedSound`, `FailureRestores` |
| `queries` | 4 languages (a pack of its own, a bundle, a rest), 3 families of editions of up to 4 rows, one of which may come late; 8 questions, 2 limits, any set of installed packs | `PacksFaithful`, `SameAnswer`, `AnswerTruthful`, `BudgetsKept` |

What the properties say is written above each of them. Those that speak of an
undamaged root (`RollbackReady`, `ImplementsRoot` and others) say so in their
formula: the runs check them on the behaviours in which nothing has been
damaged yet, and the rest on all of them.

Two runs show a disagreement between the code and what the repository says of
it; each checks one property and TLC finds it violated:

| run | what happens |
|---|---|
| `reinstall` | A stored component is damaged. `install` notices, downloads it again, and `adopt` throws the good copy away because a file is there already; the pointer moves to a selection that is still damaged. `activate` of the same selection would have refused. |
| `intent` | `IntentServed`: "A selection is never silently narrowed" (top-level `README.md:139`). Two users of an installed English each run `add-language`; both read the selection, take the lock in turn, and both succeed; only the second one's language is left. |

### What the models show besides

The following consequences of the code are seen by changing an instance or by
reading a property's exception. Each property above is stated, or its instance
chosen, so that it holds beside them; none is hidden by an abstraction.

Data root and mirror:

* A record that cannot be read is passed over by `prune`, which then deletes the
  components that only this record lists (`component_lifecycle.py:107`, against
  `store.py:120`). `PruneExact` speaks of readable records.
* `IntentServed` is violated by one user, too (`Proc = {p1}` in `intent`), where a
  release bundles languages. Install en, whose pack also has fr: add fr resolves
  to the same components, hence the same id, and the old record stays, without fr
  (`component_lifecycle.py:445`). Add de, then remove en: fr is gone. In the same
  way two requests that differ only in capabilities can resolve alike, and the
  one recorded first is what a later amendment reads.
* `_amend` compares raw tags with normalised ones (`component_lifecycle.py:326`):
  removing `en` from an install of `EN` removes nothing, and the command
  succeeds. `Selection` has `Normalized` where the code normalises.
* A download killed after its last byte and before the rename leaves a partial
  file as long as the part; the request for the rest is refused, and every rerun
  fails in the same way. `FetchCompletesOrFull` excepts it.
* `fetch` takes no lock: with two processes in `Proc` of `mirror` TLC finds
  `MirrorSound` violated, one fetch opening the partial file for writing between the other's
  hash and its rename. And fetching another release into a complete mirror drops
  the old parts one by one while the old manifest stays until the end.
* No reader notices a damaged component: `contains` asks for presence.

Runtime:

* The least recently loaded index is closed by the global cache while `_indexes`
  goes on handing it out: a hit in the upper cache is no use of the lower one, and
  four languages fill both (`semantic.py:53`, `pack_semantic.py:34`). With one
  thread already, TLC finds that a search uses a reset index; so there is no
  property of the searches, only of the cache that resets (`CachesSound`).
* A server whose pack is gone when it is asked for (forgotten and pruned after a
  switch) refuses that query for ever. `ServerComesUp` presumes a client that
  then restarts it.
* `expand_frontier` over as many packs as the router keeps open closes the first
  connection before it is used; `RouterAssumption` excludes it, the code does
  not. The server's own tools read one pack at a time. Closing the service
  leaves the router's connections open.
* Second hops: the packs rank the variants of a target before the prefetch
  limit, the one-file query after it (`service.py:1280`), although the comment
  of the packs' query says it mirrors the other (`service.py:1272`). With more
  second hops than the limit their answers differ; the run's limit cuts nothing,
  and the theorems have this as a hypothesis (`NothingCut`).
* `dictionary_translate` removes a target that comes twice after the SQL limit
  (`service.py:1903`): an answer may be shorter than its limit although there
  are more translations. `BudgetShared` speaks of the rows that were read.
* Paths of two hops depend on which languages are installed: the hop over a
  language that is not is left out without a word, as `SameAnswer` says by
  comparing with the corpus restricted to the installed languages.

Building and releasing:

* The words an interrupted import interned stay although no row of the finished
  corpus refers to them (`wiktextract.py:159`). `TermsHeld` asks for the others.
* A recovery that finds the vectors finished never compares them with the source
  it locks; `PromotedVectors` asks for the locked edition only of a build in one
  go. A kill before the global index is saved leaves a directory that neither
  the build nor the recovery accepts, as does a partial English build whenever
  it is killed: `BuildEnds` rests on an operator who clears it away.
  The code that resumes finished vectors inside the full build is unreachable.
* A kill in the cleanup of a rolled back amendment leaves an undecided journal
  without the backup it refers to, which no command can recover: the cleanup
  removes `build-manifest.old` before the journal (`notice_amendment.py:550`).
  `ResolvedOrStranded` excepts exactly these states (`Stranded`).
* The counts in the work directory of `build_v2_release.py` are trusted when
  they exist; packs of a corpus imported again rank by the old ones, and a
  language without counts is missing from the catalogue. `SameAnswer` presumes
  counts of the same corpus.
* Rows of another edition or of changed code pass for those of a marker of equal
  counts (`orchestrator.py:413-417`): a build of the first edition is marked, one
  of a second is killed behind its import, the next build of the first finds
  ledger, marker and counts in order, skips the stage, and promotes rows of the
  second, against the docstring of `orchestrator.py:93`. `Promoted` speaks of
  counts, as the code does; with the identity of the rows in their place TLC
  finds it violated in the run's own instance.
* Two packagers in one directory can unlink each other's temporaries; the run
  has one. A packaging run that fails to remove a temporary leaves the part it
  had linked (`manifest.py:159-161`), and the next run refuses to start beside
  it; `FailureRestores` says so. Immutability is looked at before staging and
  after publishing. When GitHub shows no digests assets are compared by size
  alone (`publish_data_release.py:231`); the properties compare what it shows
  (`ShownAs`), the run has digests.
* `--bundle-target` below `--individual-threshold` can give two bundles of one
  language each the same id; the run's target is not below it.

### Bounds, and why they are enough

Every bound is a constant of its module. Two processes are what interference
takes: every command touches the root in short critical sections and one lock
excludes the rest, so a third process adds waiting, not new overlaps (the
proofs cover any number). Two releases that share components, and one pair of
different requests for the same components, give every relation between two
activations the code can tell apart. One damaged file is enough for each claim
about damage, and the proof of `IInv` has no bound. The commands are not
bounded: a user may go on for ever, the state space is finite because the root
is. In `serve` there is one release, because what disturbs a reader is an
activation that differs in one pack, and no damage, because no reader looks.

In `versions` two editions of one version are what makes a repair change the
edition, and a second version sharing a component what makes a rollback have a
target; one fault is a damaged file, the other a repair of it that fails. The worker needs three searches for a late answer to meet a later
search after a replacement, and two threads for the request lock to matter. Two
chunks are the least that can be split by an interruption, three faults let an
interruption follow another and hit both parts. In `caches` the core pack and a
frontier of two fill the three connections, so that every opening may evict, and
each index cache has one place for two languages, so that every load does. (Of
the caches alone, without the router, three languages and two places in each
were checked as well: 26,621,744 states.) The run identifies states that differ
in the names of threads and of languages with their packs (`MCSymmetry`) or in
what became of indexes nobody refers to (`MCView`). `intent` needs three
languages, two of them in one pack, and two spellings of one.

In `pipeline` two kills let a recovery be killed as well, two changes let a
source go to another edition and back between them. The editions of a source
have equal counts, and half of what one version of the code makes of them counts
as much as all that the other does (`MCPhysical`), so that counts mislead
wherever they can. In `amend` two faults let
the recovery of a kill be killed, three commits let an amendment undo an
earlier one. In `release` equal sizes make the digest the only thing that tells
two builds apart. In `queries` each edition of the corpus is every subset, of
up to four rows, of a family of rows chosen to compete: edges with and without
senses at either end, in both orientations, across the languages of different
packs, from two sources, and more of them than the limits.

Deadlock is checked where a user can always start again. It is not checked in
`worker` (the searches are bounded and the server closes), `caches` (the service
closes), `pipeline` (a promoted corpus is the end), `release` (the runs are
bounded) and `queries` (an activation with no pack has nobody to ask).

### Fairness

`core`, `intent`, `caches`, `release` and `queries` assume none. In
`ComponentReader!ServeFairness` a running command takes its next step, weakly:
the program does not wait for anything between two accesses; and a client that
got no answer asks again. It does not oblige a user to start a command, nor a
command to fail. `ServerComesUp` concludes only from a root that is left alone in
the end, and from a client that restarts a server that refuses (strongly, since
the server may refuse only now and then) and in the end no other; without the
restart TLC finds it violated. `DatasetLifecycle!Fairness` makes running commands go on and
the owner of the root ask for a repair again and again (strongly, since another
command may hold the lock each time); downloads that fail are bounded faults.
`SemanticWorker!Fairness` makes a thread inside `search` or `close` go on,
timers that are due fire, the reader thread see the end of its stream; it does
not oblige a process to answer or to die, or anybody to search or close. The
timeout of `queue.get` is what lets `SearchesEnd` hold all the same.
`MirrorFetch!FairSpec` makes a running fetch go on and the user rerun it, which
is what the README tells them to do; faults are bounded and not fair, so in the
end the server and the process behave. `CorpusBuild!Fairness` makes a running
command go on, and an operator rerun the build, try the recovery, or clear away
what neither accepts; `NoticeAmendment!Fairness` makes a command go on and
somebody run the command again while a transaction is there.

## 5. Proofs

Every safety property of the passing runs is a theorem: for every value of the
constants, not for the instance alone. The theorems rest on the named
assumptions of the modules, which TLC evaluates in every run. Hashing is taken
to be injective: an activation id is the record of what it hashes, a file the
digest of its contents.

None of the safety invariants is inductive. The argument is the same in each
module: an invariant that says, position by position, what the running command,
thread or process has already established and still may rely on, is true
initially and preserved by every action; the invariants of the run follow from
it, and the action properties follow from it action by action. Each inductive
invariant was first checked by TLC, as an INVARIANT of the run's own instance:
over 366,701 states of `worker`, 1,271,480 of `versions`, 52,967 of `amend`,
574,814 of `release`, 175,744 of `pipeline`, 6,490,108 of `caches`, 12,270,127 of
`intent`, 59,985 of `serve`, 245,599 of `queries` and 18,127 of `mirror`; `core`
has its own among its properties.

### The schema 2 root: `ComponentLifecycleProofs`

For every set of processes, releases, languages, capabilities and digests, every
manifest that satisfies `ManifestAssumption` (what the manifest parser
enforces), every set of commands and any amount of damage:

| theorem | |
|---|---|
| `Inductive` | `Spec => []IInv` |
| `TypeCorrect` | `Spec => []TypeOK` |
| `RollbackAlwaysReady` | `Spec => []RollbackReady` |
| `PointerAlwaysResolves` | `Spec => []PointerResolves` |
| `PreviousAlwaysIntact` | `Spec => PreviousInstallIntact` |
| `RecordsNeverChange` | `Spec => RecordsImmutable` |
| `ActivateAlwaysVerifies` | `Spec => ActivateVerifies` |
| `PruneAlwaysExact` | `Spec => PruneExact` |
| `Refinement` | `Spec => ImplementsRoot` |
| `PromiseKept` | the abstract root keeps its promise |
| `NarrowedInTwoWays` | `SpecI => []IntentKept`, for any number of users |
| `ReaderNeverDisturbed` | `ServeSpec => ReaderUndisturbed` |

That every retained activation is intact (`RollbackReady`) survives a prune only
because the sweeping process holds the lock and what it is about to delete is
disjoint from every readable record; it survives the writing of a record only
because the components that were scanned as present or fetched since are still
there. `IInv` says this position by position:

* `LockHeld`: a process inside a critical section holds the lock. Hence
  `Exclusion`: two processes are never in one together.
* `LocalsDefined`: the locals a step reads were set by the steps before it, and
  the target of an install is the id of its plan.
* `RecordsSound`: a record is stored under the id of its own contents, its
  manifest is retained, and the pointer names a record.
* `UnderLock`: what the holder has established: the manifest before the record,
  the record before the pointer, the verified components before an activate's
  swap, the kept components during a sweep, that the id being forgotten is not
  active.
* `Undamaged`: while nothing has been damaged, nothing stored is bad, every
  record is intact, and an install has left to fetch all that it is missing.

There is one lemma for each conjunct (`TypeStep`, `LockStep`, `LocalsStep`,
`RecordsStep`, `UnderLockStep`, `UndamagedStep`), each by cases on the actions.
`Exclusion`, `HoldsOnLocked`, `EstablishedFrame` and `FetchedFrame` are the
frame arguments: what the other processes do leaves the holder's knowledge
alone. The action properties and the refinement follow action by action.

`NarrowedInTwoWays` is what remains of `IntentServed`, which run `intent`
refutes: the two ways in which it is lost are the only ones. `IntentInv` adds to
`IInv` that, unless the intent has lapsed, the active record asks for all of it,
and that so does the plan of a command that has not been overtaken; it holds
whatever is damaged, killed or switched to, and for any releases.
`ReaderInv` adds what the server has read: its record is what its name stands
for, so what it looks for is listed by that record for as long as it is there.

### The other components

| module | theorems | of |
|---|---|---|
| `DatasetLifecycleProofs` | `VersionsAlwaysSound`, `RootAlwaysMovesSafely` | `VersionsSound`, `RootMovesSafely` |
| `MirrorFetchProofs` | `MirrorAlwaysSound`, `ManifestAlwaysLast`, `BytesAlwaysKept`, until two fetches overlap | `MirrorSound`, `ManifestLandsLast`, `BytesKept` |
| `SemanticWorkerProofs` | `WorkersAlwaysSound`, `ResponsesAlwaysOwn`, `RetirementsOnlyIdle` | `WorkersSound`, `OwnResponse`, `RetiresOnlyIdle` |
| `PackRouterProofs` | `ConnectionsStayOpen`, `GlobalCacheOpen` | `NoClosedUse`, `CachesSound` |
| `CorpusBuildProofs` | `BuildAlwaysSound`, `AlwaysPromotedWhole`, `WorkAlwaysKept` | `BuildSound`, `Promoted`, `WorkKept` |
| `NoticeAmendmentProofs` | `AmendmentsAlwaysSound`, `AmendmentsAllOrNothing`, `DecisionsStand` | `AmendmentSound`, `AllOrNothing`, `DecisionStands` |
| `ReleaseProofs` | `ReleaseIsCorpus`; `PacksAnswerAsCorpus` while `NothingCut` | `PacksFaithful`; `SameAnswer` |
| | `AnswersTrue`; `BudgetsAlwaysKept` while `Allocated` and `WithinScans` | `AnswerTruthful`; `BudgetsKept` |
| | `BudgetAlwaysUsed` while `Allocated`; `TruncationAlwaysTold` | `BudgetUsed`, `TruncationTold`, parts of `BudgetsKept` |
| | `PackageAlwaysSound`, `FailuresRestore`, `PublishedAlwaysSound` | `PackageSound`, `FailureRestores`, `PublishedSound` |

In each the inductive invariant is a theorem of its own (`VersionsInvariant`,
`MirrorInvariant`, and so on). What it has to say, and why the property alone
does not last:

* `DatasetLifecycle`: `CommandsKnown`. An install that finds its version present
  verifies it and then only writes the pointer; that this is still right rests
  on what it found (the directory, its manifest, the damage left to mend) and on
  the lock (`LockHeld`), which nobody else can have. `InPlace` and
  `PointerKnown` keep the directories and the pointer fit for that.
* `MirrorFetch`: `OnTheWay`, that the parts before the current one are there and
  verified, without which the manifest could land beside a missing part; and
  `AtPart`, that the current part has no final name yet, that the handle is the
  partial file's and stands at its end, and that what is about to be renamed has
  been verified. `OneName`, that no file has two names, is why writing to a
  partial file cannot spoil a final one. All three hold for any number of
  processes until two of their fetches overlap, which the code does not prevent
  (section 4): the theorems are about the behaviours that satisfy `[]Alone`, and a
  behaviour that satisfies it up to some state can stop there. `UnusedLeft` counts inodes: a new partial file can always be created.
* `SemanticWorker`: `PipesPaired`, that the pipe and the queue of the process in
  use hold the request under way or its response and nothing else, and nothing
  when nobody waits: this is what stands in for the missing request ids. It
  needs `RunningKnown` (a process that was given up no longer runs, so a late
  answer goes to a queue nobody reads), `NoTimerWhileServed` and `PipesFresh`.
  `SpawnsCounted` bounds the processes by the searches.
* `PackIndexCache`: `OnePlace`, that an index object is in one place: an entry of
  the global cache, the hands of the one thread inserting it, or given up. So
  the global cache hands out no index that was reset, whatever its size. `PackRouter`:
  `UsedLast`, that the connections of the running query were used last, but for
  the core pack, which a search thread may have opened in between; with
  `FrontierPacks < MaxOpenPacks` an eviction finds another victim.
* `CorpusBuild`: `Imported`, that the stages behind the running command have as
  many rows as its job makes (`Full`), and the one it is at its own; `Recorded`,
  that a marker, whoever left it, counts all the rows of its edition, which is
  what makes skipping a stage as right as counts can be; `VectorsBelong`, that
  vectors on disk are of the profile and the edition of the command that goes on
  with them. The stages are distinct and there is at least one.
* `NoticeAmendment`: `OnDisk`, what a transaction directory says of the dataset
  beside it, whoever left it: undecided, the old notices are in one of two
  places and the old trail in one of two files; decided, the dataset is the new
  one. `Moving`, `Undoing`, `Preparing` and `JobKnown` place the running
  command in it. A trail is a chain (`Chained`): each record begins where the
  one before it ended, so recovery knows what it puts back.
* `ReleasePublication`: `OwnParts` and `Progress`: a packaging run has made
  exactly the parts before its place and the one it has just linked, which were
  not there when it began, so that what an exception unlinks is its own. One run
  packages at a time, as in the model. `PublishInv`: from the check of the draft on
  it shows all of the operator's accepted build (`AllOf`), since an upload only
  fills what is missing.

### From a corpus to its packs and answers: `PackedRelease`

`PackedInv` follows a row from the corpus through the packs to an answer, for
any corpus (finite sets of terms, entries, senses; editions of any rows), any
plan whose bundles are at least as large as the threshold, any mapping with
unique offsets and any questions:

* `RowsKnown`, `Attached`: rows are rows of the tables, and a translation or a
  synonym belongs to a sense that the corpus has.
* `CountsKnown`: counts and sizes are numbers, and what was counted are terms
  that the present edition still has.
* `BuiltOnce`, `BuiltFromCorpus`: packs, catalogue and vectors are made together,
  from the present rows, the plan of the sizes, and the counts; each pack passed
  the check that it is closed. After that no row comes, so they stay so.
* `Served`, `Installed`: what serves a language is the content of a pack that
  lists it. `Replied`: the last answer is what the installed packs answer.

The argument has three parts. *The plan*: `Plans` is a recursive function of the
position in the order of sizes; that languages already placed and those of the
open bundle are the languages so far, each once, and that ids are apart, is
shown position by position by well-foundedness of finite sets (a least position
that fails has a predecessor that does not). *The packs*: given the plan, the
rows of a pack are those its languages own, and a pack that passed the check
answers for what its rows reach; the catalogue's inclusion and exclusion counts
a union of two sets. *The answers*: a query of a term reads only rows that
involve the term, and the pack that lists the term's language has all of those;
the counts of a target come from the pack's own rows or from its stub, and are
those of the corpus when the counts are current (`Fresh`). Sorting is shown to
be a bijection for keys that tell rows apart (`Keyed`, `SortedLists`), which is
what makes a `LIMIT` cut the same rows from both.

The second hop of a path is the one place where the two paths of the code
differ (section 4); they agree while no term has more relations of a kind that
is asked for, in one orientation, than it reads (`NothingCut`).

What an answer contains is proved from the same invariant, since `Replied` and
`Served` say that it is computed from tables that are the corpus's (`Serves`):

* `AnswersTrue`: a row that a query reads is a stored relation in one of two
  orientations; a row of the second hop comes with the row of the first that it
  continues, which survives every sort and cut. Diversification keeps rows
  of distinct identity (`TargetDiverse`), and a path is combined with direct
  rows only under an identity they do not have.
* `TruncationAlwaysTold`: a lookup reads one row more than its budget, so a sense
  whose translations were cut has a row that is read and not shown; and a sense
  whose translations are all read says so truthfully.
* `BudgetsAlwaysKept`: the allocation deals one place per sense and turn, in the
  order of the senses. The key of a row (its turn, then its list) tells rows
  apart, so that a cut leaves lists that differ by at most one place unless the
  shorter one is exhausted, and no list is cut while places are left. Of the
  limit for synonyms one part is set aside: senses that stand for entries deal
  it among themselves, relations take what they leave of it, and the other
  senses deal all that remains. The sum of the three is within the limit, and
  below it only if those other senses have given all they have. A scan of all unsensed
  synonym relations, in both directions, is why a synonym that is repeated means
  that no new one was left.

Two hypotheses are the code's own. `Allocated` is `_validate_allocation`
(service.py:103): the part of a limit set aside for paths, or for synonyms
without a sense, is not above it. A greater one is refused before a query, which
the model leaves to the choice of `Limits`. `WithinScans` says that the word asked
about has no more senses, synonyms and relations than a query scans, and that
the question is not for one sense: past the safety caps the service shares out
what it read, not what the corpus has. Both hold in every state of run
`queries`, whose caps are not reached.

### Only model-checked

* All liveness (`CommandsEnd`, `ServerComesUp`, `RepairHeals`,
  `FetchCompletesOrFull`, `SearchesEnd`, `IdleReclaimed`, `BuildEnds`,
  `ResolvedOrStranded`): fairness and `ENABLED` are out of the prover's reach.
* `InstallVerifies` and `IntentServed`, which are violated (`reinstall`, `intent`).

## 6. Not modelled, and why

* Parsing and validation of manifests, names, paths, URLs and arguments, and the
  content checks of `integrity.py`: functions of their input, covered by unit
  tests.
* Wordplay queries, seeding and exact reranking of semantic search, the parsing
  of the sources by the importers: computations over text and numbers, with no
  order to get wrong.
* Live acceptance, calibration and size estimation, and the wrappers among the
  scripts: measurements around external programs, whose verdict alone enters
  (`Accept`).
* The wordplay pack (a copy of tables), compression, and the contents of
  notices.
* Temporary files of atomic writes, and power loss that loses flushed data: the
  code fsyncs files before it renames them, and the models take a completed
  rename to be durable.
