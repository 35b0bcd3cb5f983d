# HexxlaDB in TLA+

HexxlaDB is an embedded database written in Go: cells on a hexagonal lattice,
versioned by commit, in one B+ tree file with a redo WAL, an optional changelog
file beside it, and indexes and embeddings inside the tree. This directory holds
TLA+ models of its core, the TLC configurations that check them on small
instances and proofs that TLAPS checks. File names below are relative to the
repository; `PROJECT.json` maps every definition to the lines it models.

    tlc -workers 2 -config MCEngineWal.cfg MCEngineWal         # one run
    tlapm EngineWal_proofs.tla                                 # the proofs
    tlapm Mvcc_proofs.tla
    tlapm CopyOut_proofs.tla
    tlapm ChangelogOutbox_proofs.tla
    tlapm Rotation_proofs.tla
    tlapm Records_proofs.tla
    tlapm PageCache_proofs.tla
    tlapm PageStore_proofs.tla

## 1. Inventory

| Component | State | Operations | Interacts with |
|---|---|---|---|
| Engine (`internal/engine`: `engine.go`, `writetxn.go`, `group_wal.go`, `wal.go`) | primary file, header page, WAL file, `nextWALSeq`, `walSize`, one write transaction | Begin/Commit/AbortWriteTxn, WritePage, UpdateHeader, the flusher's pipeline, Open with replay | every writer of the root package, under `DB.mu` |
| Group-WAL flusher (`group_wal.go`) | job channel, overlay of images not yet in the primary, stop channel | enqueue, collect a batch, apply it, stop | writers wait on their job with `DB.mu` held; readers look into the overlay |
| Page cache (`page_cache.go`) | shards: a ring of hot, cold and ghost entries with three hands (CLOCK-Pro) | get, set, invalidate | readers beside each other, the pipeline |
| Free list, tail reclaim (`freelist.go`, `reclaim.go`) | chain of free pages, length of the primary | allocate, free, ReclaimTail | B+ tree, header-only commits |
| B+ tree (`btree*.go`, `overflow.go`) | pages | Get, Put, Delete, AscendRange, split, merge, overflow chains | everything above the engine |
| Changelog (`internal/changelog`, `changelog_outbox.go`, `db_changelog.go`) | sidecar file of numbered frames with a chained digest; outbox entries, projection checkpoint in the primary; `pendingOutboxEntries`, `recoveryRequired` | stage, append, sync, cleanup, recovery at Open, Close | Update, Open, Close |
| Changelog consumers (`changelog_consumers.go`) | cursor per consumer id, in the primary | read, compare-and-advance, delete, validate history | workers of the embedding program |
| Versioned cells (`tx.go`, `mvcc.go`, `primitives.go`, `delete_cell.go`) | `cell/<coord>/<seq>` rows, commit timeline, `cachedHdr`, `writeSeqNext`, overlay of a transaction | Update, Batch, PutCell, DeleteCell, View, ViewAt, ViewAtTime | engine, indexes, changelog |
| Secondary indexes (`cell_secondary.go`, `seam_secondary.go`) | tag, source and time rows | kept by Put and Delete, ascending scans | versioned cells |
| MVCC pruning (`mvcc_lifecycle.go`) | keys a pass has still to delete, a ticker goroutine | PruneCellVersions in sub-batches, SuggestedPruneBeforeSeq | releases `DB.mu` between sub-batches |
| Snapshot tags (`snapshot_tags.go`) | label -> sequence rows | TagSnapshot, ResolveSnapshot, DeleteSnapshotTag, list | engine, without Update |
| Seams, facets, edges (`primitives.go`, `facets_edges.go`) | versioned rows | put, resolve, delete, ascend | cells |
| Snapshot diff (`snapshot_diff.go`) | none | merge of two version scans | versioned cells |
| Rotation, migration, compaction, backup (`rotation.go`, `migration.go`, `compact.go`, `backup.go`) | several files, intent markers, checkpoint row | staged copy and replacement of files, recovery by the next call | Open, file locks |
| Embeddings, HNSW (`embedding*.go`, `tx_hnsw_storage.go`, `internal/hnsw`) | vectors, graph nodes, index state, rebuild progress | put, search, reindex, paged rebuild | Update, a rebuild that releases the lock |
| Lattice, path finding (`internal/lattice`, `internal/pathfind`) | none | coordinates, packing, rings, coarsening, field of view, Voronoi regions, Dijkstra, BFS | views, queries |
| Context loading, views, queries, search, health check, analytics, rendering (`context_load.go`, `internal/views`, `query_exec.go`, `health.go`, `tag_analytics.go`, ...) | none; the super-hex summary keeps counts in memory | read-only assembly | one snapshot each; the summary follows snapshot diffs |
| Command line tools, TUI, adapters, record encodings | none of their own | clients and byte layouts | public API |

What is hard here: a commit is about ten file operations in two files, any of which
can fail or be the last before the process or the machine stops, and recovery is
itself interruptible; the feed is a second durable history that must agree with the
first; prune passes and index rebuilds work on scans made before they last gave up
the lock; View and ViewAt hold `DB.mu` shared, and read through `cachedHdr`, the
page cache and the overlay while the flusher may still be cleaning up after a writer
that has let go of it; sequence numbers are given back after some errors and must
not be after others. `PROJECT.json` lists these hazards at their lines.

What makes each component correct:

- engine: a commit happens as a whole or not at all; success means durable; log
  before page, page before header; every writer starts from a known state; every
  commit and every Open is answered;
- flusher, cache, free list: a page is read in its newest committed image; no
  page is in use twice; the queue loses no job when it stops;
- changelog: every committed mutation reaches the sidecar, nothing else does, in
  commit order; a consumer that follows its cursor is given everything;
- versions: a snapshot never changes; a version is never overwritten; an index
  finds what the cell table holds; pruning takes only what no kept snapshot reads;
- file replacement: whatever the crash point, Open finds one complete database;
- records: every index, scan, count and plan agrees with what is visible, a
  deleted cell does not get its old facets back, the changes between two snapshots
  lead from one to the other;
- embeddings: a search never trusts a graph that misses a vector; the graph
  names no node that is gone.

## 2. Plan

Done, in this order: `AtomicStore` and `EngineWal` (commit and recovery),
`ChangelogOutbox` (the feed, over the contract of the engine), `Mvcc` (versions,
tag index, pruning, snapshot tags), `Rotation` and `CopyOut` (replacement of the
files), `BTree` (trees, chains, free list), `PageCache` and `PageStore` (locks,
overlay, cache, backup), `Lattice` and `Spatial` (geometry and searches),
`Records`, `Views` and `Inspect` (all records, and everything read from them),
`Hnsw` and `Embeddings` (the graph, its rebuild), with `EngineWal_proofs`,
`Mvcc_proofs`, `CopyOut_proofs`, `ChangelogOutbox_proofs`, `Rotation_proofs`,
`Records_proofs`, `PageCache_proofs` and `PageStore_proofs`.

What extends what: `Records` extends `Lattice`, `Views` extends `Records` and
`Spatial`, `Inspect` extends `Views`; `PageStore` extends `PageCache`;
`Embeddings` extends `Hnsw`. `EngineWal` implements `AtomicStore`; `Mvcc`,
`Records`, `Embeddings` and `ChangelogOutbox` use the engine only through its
contract.

Next:

1. what Open checks of the file's length and of the free list it reads; several
   jobs in one batch of the flusher, should a caller ever enqueue without
   waiting;
2. scores and byte budgets of searches.

The runs are kept few: one per component, with the kinds of failure and the
formats as scenarios that a behaviour chooses at its start.

## 3. Modules

### AtomicStore

What the engine promises: one value, replaced as a whole by a commit; an error
leaves the outcome unknown and the handle closed to writers; reopening settles
on the old or the new value. `EngineWal` is shown to implement it; `Mvcc` and
`ChangelogOutbox` use the engine only through it.

### EngineWal

Each file has two contents: what the process reads (`wal`, `page`, `hdr`) and
what the medium holds (`walDur`, `pageDur`, `hdrDur`); a sync copies the first to
the second. A page image is the number of the redo record that wrote it, a WAL
record is a number, a page and, for the header marker of format v3, a header.
One action per step of `applyGroupBatchPipeline`: `WriteWALRecord`, `SyncWAL`,
`WritePrimaryPage`, `SyncPrimaryPages`, `WriteHeader`, `SyncHeader`,
`TruncateWAL`, `Acknowledge`. `CommitError` is an I/O error at any of them, with
the partial effects the code leaves (the offset of the WAL handle after a short
write, `walSize` reset before the truncation is tried). `BeginWriteTxn`,
`WritePage`, `SetRoot`, `AbortWriteTxn` and `CommitWriteTxn` are the write
transaction, `OpenDatabase` to `OpenReadTree` the replay at Open.

`DB.mu` is held from `BeginWriteTxn` until the flusher answers, so a batch has
one job; the order of operations of the classic (non-group) pipeline is the
same. The truncation keeps the bytes the cycle wrote, so records of earlier
commits stay in the file and are recognised by their numbers: the model keeps
them too. `Kill` keeps every write that was made, and may cut the one under way;
`PowerLoss` keeps, tears or drops each write made since the last sync of its
file (WAL records are not aligned to blocks: a lost block in the middle of the
unsynced part tears a record, which the model expresses as a cut and a torn
record). The header is the first 512 bytes of the file and is written as a
whole. The immediate `WritePage` outside a transaction is not used by the root
package and is left out.

`committed` and `candidate` are history. `committed` is what the last successful
commit asked for: `CommitWriteTxn` computes `candidate` from the redo list and the
header of the transaction, not from the files, and `Acknowledge` makes it
`committed`. An Open settles on one of the two by the header it finds (`Settled`);
only in a format or a mixture of failures where recovery promises nothing is it
whatever the files hold. `Refinement` maps the abstract store to the files
themselves (`Store`) whenever a handle takes writers.

### ChangelogOutbox

The primary is the record `prim` and changes only by whole commits (with either
outcome on an error or a crash). The sidecar is a sequence of frames, of which
`synced` are on the medium, perhaps an incomplete frame, and in front of them the
`header`, which `CreatePhases` write and sync in place (`writeHeader`): until then a
failure can leave none, a part, or a whole one that is not on the medium. `phase` walks
through Update (`stageChangelogOutbox`, engine commit, `AppendIntents`, sync,
`cleanupChangelogOutbox`), through the lazy flush, Close and Open
(`openChangelog`, `recoverChangelogOutbox`, the validation of consumers). A
digest is the history it is computed from. A power loss leaves a prefix of the
sidecar that includes all synced frames. `processed` is history: what workers
have been given. A worker keeps what it read in `seen` and may acknowledge it at
any later time, after other workers, failures and restarts. `LoseSidecar` is
loss outside the program, while the workers are stopped as well.

### Mvcc

Rows are records of coordinate, sequence number and value; a cell's value is its
set of tags. A transaction works on a copy of the tree that `CommitUpdate`
publishes; `Restart` ends the process with either outcome of a commit under way.
`StartPrune` scans and deletes its first sub-batch under one hold of the lock,
`ContinuePrune` deletes later sub-batches from the old scan. `history` records
what each commit showed its own callback; `lost` records the pairs of coordinate
and snapshot whose visible row a prune pass took, which is exactly where pruning
may legitimately be felt.

### Rotation

The file system is a directory of names (`files`) and what of it is on the
medium (`medium`). Contents are written by the engine and are durable; what can
be lost is a rename, a removal or a new name that `SyncParents` has not
confirmed. `rotateSwapFiles` and `recoverInterruptedRotation` are the scripts
`Swap` and `Rollback`, one operation and one sync per step, run by `DoRename`,
`DoRemove`, `DoRestore` and `Sync`; the marker `.rotate.state` is created,
written and synced in three steps before them. An I/O error rolls the swap back
or, after the commit, reports a leftover; a crash leaves the marker, and Open
refuses until `BeginRecovery`. `promised` is history: the credential of the last
committed rotation. The changelog is enabled; a temporary primary and its WAL
are one name. Two constants state what is assumed of the surroundings:
`TidyOperator` (a leftover backup is removed before the next rotation, as
`ErrRotationCleanup` asks) and `SyncErrors` (whether a directory sync can fail
after its operation succeeded).

### CopyOut

The copies that end in a new file. Compaction and the migration of a v2 source
to v3 set a mark in the first header of the destination, copy batches of rows, set
the head and clear the mark, and remove the file on any error. The migration of a
v1 source, to v2 or v3, keeps a checkpoint row, written with each batch, and is
resumed by a later call if the digest of the source and the format of the
destination are the same. `call` is the running call, `by`, history, the one that
created the file. The source is locked during a call and may change between calls,
its changefeed included; a digest is the source itself. Keys are of three kinds:
records, index rows (`Owner` names the record), which compaction copies and the v1
migration makes anew from the record, and rows of the changefeed (`LogKey`), which
compaction copies and a migration refuses or, with `ResetChangelog`, leaves out.
A destination that was created but has no header yet is `Empty`.

### BTree

The tree is one value, `tree`: the pages of the file in order, the root, the
queue of free pages and the pages that hold the free list itself. Put, Delete and
ReclaimTail are whole calls in the engine's write transaction, each followed by
`Commit`, which is `prepareFreelistCommit`: it gives the free list a home in the
header and in pages of its own. Sizes are counted in units of the smallest entry
and keys have one size; a value is small or large, and stays in its leaf, or
huge, and goes to a chain of overflow pages. Splits, spills into parents, loans
from either sibling, merges and the removal of empty nodes are operators from
trees to trees, one per function of the code, and follow its order of writes: a
freed page keeps what it held until it is written again, parent pointers
included. `reuse` is the difference between format v3 and the older ones, which
never use a freed page. `content` is history: what the callers have put. `Loads`
are the puts made before, so that few further calls reach trees of three levels.

### PageCache and PageStore

`PageCache` is one shard of the CLOCK-Pro cache as operators on a record: the
ring as a sequence that starts at `handCold`, the other two hands as the pages
they point at, the entries with kind, reference bit and image, and the sizes.
Each loop of the hands runs its rounds until its condition fails, and sets `stuck`
if it has not after `Fuel` rounds, N(3N + 1) for N pages, which is proved to be
enough. `PageStore` puts it between readers, the write transaction, the flusher,
Close and BackupTo. A page image is the number of the transaction that wrote it.
`mu` is `DB.mu`, held exclusively from BeginWriteTxn until the answer and shared
by View and BackupTo. A read is two steps, because the image that came from the
primary is put into the cache later; a page write of the flusher is two steps,
because the cache entry is invalidated first; the overlay and the staged header
are reverted page by page after the waiter of a failed job has been answered. The
log is appended record by record, so a failed append leaves any number of whole
records of the job, with or without a cut one behind them (`Appended`). In v3 Open
refuses a log that lacks its marker; in v1 and v2 there is no marker and it replays
whatever whole records it finds (`Refused`, `Restored`).

### Lattice and Spatial

Pure definitions. `Lattice` has the axial coordinates, rings and spirals in the
code's order, the packed key (two zigzag-coded halves interleaved, which gives the order of
all keys), bounds of scans and the two coarsenings. `Spatial` has symmetric
shadowcasting with slopes as fractions, the Voronoi partition as a multi-source
Dijkstra, and Dijkstra and BFS over edges; a heap may pop any of several least
items. Those with recursion stay out of modules with proofs.

### Records, Views and Inspect

`Records` is the state: rows of cells, facets, edges, seams and their indexes,
each with the number of its commit (0 without MVCC), the committed tree `db` and
the transaction `tx` with its overlay. One action per mutating call: `PutCell`,
`DeleteCell`, `PutFacet`, `UpdateFacet`, `PutEdge`, `PutSeam`, `MarkConflict`,
`MarkSupersedes`, `ResolveSeam`, and `Begin`, `Commit`, `Rollback`. LinkCells is
PutEdge, and `writeSeqNext` is in `Mvcc`.

`Views` and `Inspect` are what a reader makes of it, as operators of a reader
(`Snapshot`, or `InTx` for the callback of an Update): FindSeams with its two key
ranges, the snapshot diff, QueryCells with each of its plans, edge paths, the
context loaders (rings, several seeds, edges, field of view, Voronoi) with
supersession and attached seams, walks of rings and placement, index scans, tag
statistics, the health check, and the super-hex summary, rebuilt or kept up to date.
(`Sync` of the summary, `superhex_summary.go` 135, reads the cell puts and deletes
from the changelog; here they are taken from the diff of the same commits, so what
the changelog may lose, repeat or reorder is the subject of `ChangelogOutbox` only.)
An invariant compares each with a definition over the visible records, in every
state and, unless a transaction is open, for every snapshot. What is asked in each
state (`Queries`, `Contexts`, `Centers`) is given by the MC module.

### Hnsw and Embeddings

`Hnsw` is the graph on the rows it is stored in: insertion with its climb, its
search per layer, bidirectional links and pruning, deletion with repair, and
search. `Embeddings` adds the dimension, which the engine keeps in the header and in
memory (`dim`), the vectors, the index state (revision and dirty
flag), deferred puts, DeleteCell, ReindexEmbeddings, restarts, and
RebuildEmbeddingIndex as its steps `Preflight`, `MarkDirty`, `Snapshot`, the
build (which is a function of what the snapshot took) and `Publish`, or `Cancel`.
`LayerOf` stands for the hash that fixes the layer of a coordinate.

## 4. Runs

A behaviour begins with a choice of one scenario; the bounds of the scenarios
are in the MC modules.

| Run | Shows | Bounds |
|---|---|---|
| `engine` | v3 implements `AtomicStore`, all formats keep acknowledged commits, readers of a handle that is not frozen see what the last commit asked for, the root's generation is pinned, log before page before header, commits and Opens are answered | 2 pages; v3 with 4 redo numbers (two commits of two pages, the second with stale records of the first behind it), 1 I/O error, 1 kill; v3 and v1/v2 with all kinds of writer, 3 redo numbers and 2 power losses (the second in the recovery from the first) |
| `changefeed` | no mutation lost, invented, overtaken or skipped; a cursor that moves forward; a bounded outbox; an Open that refuses nothing but a header cut short; every mutation leaves the outbox | an eager feed with 2 workers; a lazy feed with 2 updates of up to 2 mutations, limit 3, three modes of Open; a sidecar that is lost or cut while the outbox is empty, with 3 updates; 1 I/O error, 1 kill or power loss, also while the sidecar is created |
| `mvcc_store` | stable snapshots, complete tag index, time travel, immutable versions | 1 coordinate, 1 tag, 4 commits of up to 2 operations, 2 pruners with sub-batches of 1 |
| `btree` | every key is found with the value last put under it; the tree is ordered, balanced and linked to its parents; every page is used once: by the tree, by a chain, or free | 6 keys, leaves of 3 small entries, 3 children, chains of 2 pages, a free list of 1 page inline and 2 per metadata page, both formats, 4 loads and 4 further calls |
| `rotation` | a path without a marker holds one whole database; a retired credential stays retired; a marker comes with all that recovery needs, and is resolved | 3 updates, 3 attempts, batches of 2, 1 I/O error, 2 power losses (one in the recovery from the other); tidy operator, no failing syncs |
| `copy_out` | a destination that Open accepts has the format asked for and is a whole copy of one state of the source, index rows and changefeed included; the checkpoint tells the truth; a migration ends | sources of each format; 4 keys (two records, an index row, a changefeed row), batches of 2, 3 edits of the source, 2 errors, 2 crashes |
| `page_store` | a View reads the last commit through overlay, cache and primary; a backup restores it; the cache keeps its account | a cache of 2 1/2 pages; 2 pages, 2 commits, 1 I/O error, backups, with and without a marker in the log; 3 pages and 1 commit with evictions (an error beside evictions is left to the proofs); 4 pages read only; 1 reader |
| `records` | seam lookup, index scans, counts, health check, diffs, summary, query plans, context loaders and edge paths agree with the visible records; a deleted cell takes the facets of earlier commits with it | 4 coordinates; 2 commits of 2 calls with and without MVCC for cells and facets, and for seams; 4 commits of 1 call; 1 Update of 5 calls for edges, and for supersession |
| `embeddings` | a search finds what a flat scan finds; a rebuild publishes only the graph of the vectors there are | 4 coordinates on layers 0, 1, 2, 0, M = 2; 8 calls in one Update; 4 commits, 2 rebuilds and a restart; cells with re-indexing |

Bounds are enough because the interesting cases need two commits (one to leave
something stale, one to trip over it), one failure and one more crash than that;
coordinates and consumers do not interact with each other. One more page, update
or commit multiplies the states without a new case. `CHECK_DEADLOCK FALSE` is
set for the engine, for rotation, the B+ tree, the page store, records and
embeddings: a database that Open refuses and a path whose marker was cut short
stay refused, a closed handle stays closed, and a sequence of calls ends at its
bound. The loads of `btree` were chosen so that each case of a deletion occurs:
loans from the left and from the right, a merge, an internal page left with one
child, an emptied root, a new minimum two levels below the separator it changes,
and a free list that needs two pages. The breadth of
the searches in `embeddings` is at least the number of nodes, so that a search
that misses a vector is an error and not a loss of recall. Its lists are never
so full that links are dropped: with M = 2 instead of the default 16 that takes
five nodes, and is the subject of `embeddings_unlinked`.

The `ASSUME`s of the modules are evaluated by TLC in each run.

Runs that end in a counterexample, each the difference between a sentence of the
repository and the code (quoted in `PROJECT.json`):

- `embeddings_unlinked`: a full list of neighbours drops a link on its own side
  only. Deleting the node that was dropped from the list repairs just the lists
  that the node itself names, and a link to the deleted node stays behind. At the
  default M = 16 this needs more than 16 nodes on an upper layer or more than 32
  on layer 0.
- `btree_scan`: when a leaf becomes empty and is freed, the leaf before it keeps
  pointing at it. A scan then ends early or reads what the page holds now; once
  the page is used again a leaf may be its own successor and the scan does not
  end.
- `rotation_visible`: the copy under a new credential numbers its own commits, so
  rows of later commits of the source are above its head and not visible.

Observations made with the same modules, without a run of their own:

- `EngineWal!AlwaysReopens` fails: a kill during the WAL append leaves v3 records
  without a marker, and Open refuses a database whose primary is intact, where
  `docs/hexxladb/OPERATIONS.md` (604) expects it to be recovered.
- `Mvcc!CachedHeaderFresh` fails: TagSnapshot and DeleteSnapshotTag may move the
  root without storing `cachedHdr`, from which readers start, although the
  comment in `db.go` (45) says it is stored by every commit.
- Keys of different sizes are outside `BTree`: `updateSeparator` does not
  split, so a longer separator that no longer fits its internal page makes the
  Delete fail.
- `docs/hexxladb/DURABILITY.md` (38) says of a failed batch that "the root handle
  rejects another writer until close/reopen". That is so of Update, Batch and the
  consumer calls only. Prune, TagSnapshot, DeleteSnapshotTag and ReclaimTail do not
  look at `recoveryRequired` (`mvcc_lifecycle.go` 240, `snapshot_tags.go` 46 and
  128, `reclaim.go` 12) and start a writer on a handle whose last commit has an
  unknown outcome; and of them only ReclaimTail sets it, so that after a failed
  maintenance commit an Update is not rejected either. Such a handle looks healthy
  while its page file is written in part, and `ReadersSeeCommitted` fails in any
  scenario with an I/O error and a "maintenance" writer. The scenario of `engine`
  with I/O errors has "update" alone for this reason, and no property of the run
  says that every writer is rejected.
- `BackupTo`, which refuses a handle that requires recovery, copies a database
  whose last maintenance commit failed half-way. In v3 the backup restores the
  state before or after that commit, or is refused. In v1 and v2 it may restore
  half of it: the append failed after some records, and Open replays these under
  the old header, although `backup.go` (21) promises "a consistent physical backup"
  and `docs/hexxladb/OPERATIONS.md` (120) "one consistent recovery set".
  `BackupWhole` says that no worse can happen: each page is of one of the two states.
- The header of a new sidecar is written in place (`changelog.go` 216) and nothing
  removes what an error, a kill or a power loss leaves of it. A part of a header
  makes every later Open fail with `ErrCorrupt` (`readHeaderAndScan`), also when the
  outbox has entries, although `docs/hexxladb/CHANGEFEED.md` (89) says "`Open`
  projects durable outbox intents" and `docs/hexxladb/OPERATIONS.md` (641) that Open
  repairs an incomplete final frame. `OpenAccepts` states what is true: this is the
  only file that is refused, and every mutation ever committed is then still in the
  outbox, so that removing the file by hand loses nothing. `Projected` makes an
  exception for it.
- The directory entry of a new sidecar is synced (`changelog.go` 201) only by the
  Open that created the file. One that finds the empty file of a failed creation
  writes the header, and a power loss can still take the file away. The model has
  no directory entries; to it that is `LoseSidecar`.
- `applyGroupBatch` answers the waiter before it reverts the overlay and the
  staged header, so an Update that returns an error can be followed by a View
  that still sees the failed pages. `ReadsCommitted` says how far this goes.
- Recovery of a non-empty outbox rewrites the checkpoint that would have revealed
  a shortened sidecar, before the consumers are validated: the scenario of
  `changefeed` with a lost sidecar is about an empty outbox for this reason.
- Formats v1 and v2 (`Authenticated` FALSE) do not implement `AtomicStore`: replay
  writes pages without the header of their commit, so after a kill new pages
  appear under the old `CommitSeq` and root, although `docs/hexxladb/TX.md` (69)
  says a reopened database cannot show them under an older sequence.
- Without `TidyOperator`, `WholeDatabase` fails: the marker is written before an
  old `.rotate.bak` is removed, so a crash between the two lets recovery restore
  the backup of the rotation before.
- A crash between the creation and the writing of `.rotate.state` leaves a marker
  that neither Open nor recovery accepts; `OldFilesKept` says nothing is lost.
- With `SyncErrors`, a failed sync of the marker's removal starts a rollback
  without a marker, and a crash in the middle of it leaves no primary.
- With both crash kinds, a kill after the marker's removal and a later power loss
  bring the marker back, and the rollback drops updates made in between.
- Between the creation of a migration's destination and its first checkpoint, a
  crash leaves a file that opens as an empty database and that a later call
  refuses: `WholeCopy` allows a database without rows.
- A sidecar that is lost or shortened *while entries wait in the outbox* is not
  always noticed: `recoverChangelogOutbox` (`db.go` 192) appends the entries, and
  its cleanup records a new projection checkpoint, before
  `validateChangelogConsumerHistoryLocked` (`db.go` 198) compares the recorded
  one, which is then that of the new file; only a cursor beyond the new end is
  refused. With lazy mode, four Updates of one mutation, `FlushLimit` 2, one crash
  and one loss, `NothingSkipped` fails: the consumer goes on above records it was
  never given. `docs/hexxladb/CHANGEFEED.md` (68) says "A missing, shortened, or
  replaced history returns ErrChangelogConsumerInvalidated".
- With both crash kinds in one run, `Refinement` fails: after a kill before the
  WAL sync, Open replays a log that was written but never synced and does not
  sync it first; a power loss in the middle of that replay can leave pages of the
  commit with neither header nor log. Open syncs nothing if the WAL has nothing
  newer than the header. `AckedIsDurable` and `WriteOrder` are about power loss.
- With `ClockStepsBack`, `TimeTravelLatest` fails: the timeline is ordered by
  wall time, so the last commit need not be the one with the largest key.
- `SnapshotsStable` is stated from `lost` and not from the prune watermark: a
  pass removes a version below the watermark although a kept snapshot between
  that version and its successor still reads it.
- DeleteCell removes the index rows of the version it hides, so a tag or source
  scan, or a QueryCells that uses one, of an older snapshot can miss a cell that
  GetCell finds; `HeadIndexComplete` and the index parts of `IndexesExact` are
  about the head.
- With MVCC, two puts of one cell in one Update with different tags or sources
  leave the index rows of the first put under the number of the second. Scans
  look at the cell again and are right; HealthCheck counts the rows as index
  errors, and prune never removes them. `HealthTrue` is stated for Updates of one
  call when MVCC is on.
- A source id is trimmed when it is indexed and not when HealthCheck compares.
- AscendCellsBySource, AscendCellsInTimeBucket and AscendSeamsBySource return the
  record as it is now, whose source or bucket may have changed.
- DeleteCell after PutFacet of a new facet in one Update leaves the facet alive:
  `tombstoneFacetsForCell` (`delete_cell.go` 160) looks for facets with the visibility
  of a reader, which does not see rows of its own Update. The comment of DeleteCell
  (`delete_cell.go` 12) says that it "removes a cell and all associated data
  atomically: primary key, secondary indexes (source/, time/, tag/), facets, and
  outbound edges". A cell put again later shows that facet. `EarlierFacetsGone`
  is about the facets of earlier commits for this reason, and only with MVCC.
- PutSeam and ResolveSeam of one seam in one Update lose the put or do not find
  the seam; two PutSeams of a new id with different endpoints in one Update are
  not refused.
- `loadContextByRings` (`internal/views/context_assembly.go` 244) returns early
  when its rings have no cell to show, and with the cells it leaves out the seams
  around the seed; a context by edges attaches the seams of every seed.
- `resolveTarget` (`internal/views/context_assembly.go`) takes the coordinate
  (0, 0) for "no successor", although it is a cell like any other: a cell
  superseded by the one at the origin is shown as it is.
- LoadContext with edges limits coordinates, not cells, by MaxCells, and compares
  its EdgeFilter, documented as comma-separated, as one string. Of two supersedes
  seams from one cell only the first in index order is followed.
- `internal/lattice/fov.go` (22) promises full symmetry; with the wall (-1, 0) and
  radius 2, (-1, -1) and the origin do not see each other alike.
- `internal/lattice/voronoi.go` promises that each hex within maxRadius of a seed
  is assigned; with weights a heavy seed may keep one from being reached.
- The first PutEmbedding writes the dimension to the transaction's copy of the
  header and to the engine's memory (`embedding_config.go` 13, `engine.go` 939). If
  that Update is rolled back, the copy is dropped (`writetxn.go` 212) and the memory
  is not, so later puts take the dimension for set (`tx_embedding.go` 44) and commit
  vectors under a header that has 0. After the next Open the database has vectors,
  no dimension, and every search is empty (`embedding_search.go` 77); a vector of
  another length is then accepted. `docs/hexxladb/CONFIGURATION.md` (41) says the
  dimension is "auto-detected from the first `PutEmbedding` call and persisted in the
  file header". The model does the same: with `dropsFirst` in the scenario with restarts
  `SearchExact` fails. The scenario with restarts rolls back no Update that put the
  first vector, and those that do have no restart.

## 5. Fairness

`EngineWal!FairSpec` has weak fairness of the pipeline and of recovery: the
flusher goroutine loops until it is stopped and the opening process runs
straight through. Nothing is assumed of clients, errors or crashes.
`ChangelogOutbox!FairSpec` has weak fairness of the steps an Update or an Open
takes by itself, and of what the runbook in `docs/hexxladb/CHANGEFEED.md` asks
of the embedding program: close a handle that reports a finalization error, and
open the database again. `Rotation!FairSpec` has weak fairness of the steps of
one call, which runs straight through, and of recovery, which
`docs/hexxladb/OPERATIONS.md` asks of the operator; `CopyOut!FairSpec` of the
steps of one call and of `Resume`, the operator calling again. Open, Update,
errors and crashes are free in both. `PageStore`, `Records` and `Embeddings` state
safety only.

## 6. Proofs

`EngineWal_proofs` proves `TypeCorrect`: `Spec => []TypeOK` for every set of
pages, WAL size, mix of writers, format, crash kind and bound, from the named
assumptions on the constants. `TypeOK` is inductive by itself; the proof has a
lemma for the fields of each record type and one step per action. What makes it
more than bookkeeping is the arithmetic of the loop counter, the slots written
through `walOff`, the partial writes, and the header computed from the redo list.

It also proves the properties of the `engine` run, for every set of pages, WAL
size, bound and scenario:

| Theorem | States | For scenarios |
|---|---|---|
| `CommittedVisible` | `ReadersSeeCommitted` | without I/O errors, or with no writer but Update (`Careful`); any format, any crashes |
| `SuccessIsDurable`, `WriteAhead` | `AckedIsDurable`, `WriteOrder` | without I/O errors; power losses in any phase, recovery included |
| `RootIsPinned` | `RootPinned` | v3, with power losses (`Uninterrupted`), or with errors and kills (`Powered`) |
| `Implements` | `Refinement`: v3 implements `AtomicStore` | the same |

The scenarios of the run satisfy these hypotheses, and each one is needed.
Maintenance writers do not set `recoveryRequired` when a commit fails, and
ReclaimTail does not look at it, so after an error a reader or writer of such a
handle can meet half a commit. An error at the sync of the header, followed by
Close, Open and a power loss, loses a commit that the reopened handle has
shown: Open syncs nothing when the log has nothing newer than the header. A kill
does the same, and leaves in the log records that only the process has seen, so
kills and power losses together break the step from the old to the new contents.

None of these properties is inductive, since the state between two commits says
nothing about the way there. `IInv` has three parts:

- `ProcessInv`, in every format: what the process has written. The redo list is in
  number order and above the committed header, the dirty map holds the last image
  of each page (`RedoInv`); phase by phase, how much of log and pages is written
  (`CommitInv`: `Logged`, `Written`); a usable handle has the last commit in its
  files and nothing newer in its log (`ReadyInv`). What the last commit is, the
  history says and not the files: that the pages after the pipeline are those of
  the redo list is `Written`, and that they are after a redo is `AtomicInv`;
- `DurableInv`: which file is synced in which phase;
- `AtomicInv`, for v3: what the next Open finds. `Disk` has three cases: the old
  or the new contents with nothing newer in the log; the same with a log that Open
  refuses; or the old header with a log that is whole to its marker and repairs
  the pages, whatever images of the commit, old images or torn pages they hold.

The argument then is: a commit that is stopped anywhere, in the middle of a record or
page, leaves `Disk` (`CommitDisk`); so does a power loss in any phase, recovery
included, that keeps, drops or tears each unsynced write (`PowerDisk`); Open takes
`Disk` to the old or to the new contents, or refuses (`DiskRecovers`), because a whole
log is replayed as a whole (`WholeReplay`) and redo gives the new contents from
whatever the pages were (`RedoPage`, `RedoDone`). `WriteAhead` is read off the
medium, which is one that Open settles at every moment (`MediumDisk`). For the
refinement each step is matched with one of `AtomicStore` (`StepsAbstract`), and
the abstract store is what a usable handle reads from the files (`StoreCommitted`).

`Mvcc_proofs` proves five theorems about `Mvcc`, for every set of coordinates,
tags, labels and pruners, every size of a pass and a sub-batch, and every bound:
`TypeCorrect`, `SnapshotsNeverChange` (`SnapshotsStable`), `HeadIsIndexed`
(`HeadIndexComplete`), `NoVersionOverwritten` (`VersionsImmutable`) and
`TimeTravel` (`TimeTravelLatest`, without `ClockStepsBack`, for which it is false).
They rest on one inductive invariant, `IInv`, whose parts are

- `Sequence`: the number a transaction holds is the head's successor, and between
  transactions the next number given out is that successor again, so a number
  given back by an abort was never published;
- `RowKeys`: a key names one row, and no row is above the head;
- `PruneKeys`: every key that a pass has still to delete has a newer row of its
  coordinate in the tree *now*. This is what a scan made before the lock was
  released still guarantees when it is used: commits only add newer rows, and the
  newest row of a coordinate is in no pass's list, so no pass deletes it;
- `TxRows`, `TxIndexed`, `Indexed`: the working copy of a transaction differs from
  the tree only in rows of its own number, agrees with what its callback sees, and
  indexes each visible cell;
- `SnapshotsStable` itself.

`TimeTravel` adds `TimeInv`: the timeline has the number of every commit under its
time and no other entry, and, while the clock is not set back, later commits have
no earlier time. The entry with the largest key is then that of the last commit.

`SnapshotsStable` alone is not inductive (a stale list could name the newest row,
a reused number could change an old snapshot); the other parts exclude those
states. The lemmas below them are about `Newest`: it has at most one member when
keys are unique, it has one when the coordinate has a row below the snapshot (a
non-empty bounded set of numbers has a greatest element, from the well-founded
minimum), and deleting rows changes it only where it takes its member.

Type correctness of `EngineWal` and `Mvcc` is not a property of their runs, since
it is proved.

`CopyOut_proofs` proves `MigrationTruthful` (`CheckpointTrue`) and `OpenedIsWhole`
(`WholeCopy`) for every finite set of keys, any index and changefeed rows among
them, every batch size and every number of edits, errors and crashes. `WholeCopy`
is not inductive: a file that Open refuses today is accepted after the next step.
The invariant `IInv` adds

- `Left`: what a file says of itself whoever left it. With a checkpoint it holds
  the records up to `lastKey` and, if its first call did not reset the changefeed,
  the source it names had none; without mark and checkpoint it is empty or whole;
- `Running`: what the running call has established. A compaction holds the rows
  up to `pos` and its mark; a migration has the digest of the source before it,
  which cannot change, and `pos` is the checkpoint's;
- `SourceKept`: index rows of the source fit its records, and the present state
  is in its history.

The main lemma, `BatchIsNext`, says that a batch is the rows after `pos` up to its
last one, by comparing cardinalities; from it a batch extends what was copied
without a gap, and when no row is left after `pos` the copy is the source.
Besides the assumptions on keys and bounds it uses `CopyOutValues`, that the
values for a missing file or checkpoint are different from any file or checkpoint.

`ChangelogOutbox_proofs` proves every safety property of the changefeed, for any
number of workers, any flush limit and any scenario: `TypeCorrect`, `NothingLost`
(`NoMutationLost`), `NoPhantom` (`NoPhantomFrame`), `InCommitOrder`
(`CommitOrder`), `OpenRefusesNoFrame` (`OpenAccepts`), `OutboxStaysBounded`
(`OutboxBounded`), `NothingIsSkipped`, `LossIsNoticed` (both about
`NothingSkipped`) and `CursorForward` (`CursorMonotone`). The assumptions are
`FlushLimitAssumption` and `ScenariosAssumption`, which only give the constants
their types. None of the properties is inductive: they are about three durable
things, the outbox, the frames of the sidecar and the prefix of them that is
synced, and every crash forgets the phase that relates them. `IInv` says what
relates them in each phase:

- `ProcessInv`, `TxInv`: the phase against the mode and the flags of the handle;
  the commit id and the staged keys of the Update under way;
- `FilesInv`: frames are numbered without a gap, an incomplete or unsynced frame
  exists only while entries wait, the history in memory is that of the file, a
  cleanup follows a sync;
- `HeaderInv`: there is no frame without a whole header and none on the medium
  without the header on it, and a handle that feeds has created the file. A header
  cut short therefore has no frame behind it, and what was committed waits in the
  outbox (`OpenAccepts`);
- `KeysInv`, `MutationsInv`: key order in the outbox is the order of commits;
- `ProjectionInv`: in which phases each entry already has its frame;
- `BoundInv`: the counter of lazy mode is never behind the entries it counts;
- `SizeInv`, `MirrorInv`: the entries, in key order, are the frames behind the
  synced prefix, so a record that a power loss takes away is appended again with
  its number. `Rank` is the place of a key, and the lemmas about it (from
  cardinalities of initial segments) carry the argument;
- `ReadInv`: the cursor, and what each worker has read, lies over processed
  records of the file or of the outbox;
- `CheckpointInv`: with an empty outbox the recorded checkpoint is a prefix of
  the file.

The parts about content (`MirrorInv`, `ReadInv`, `NoMutationLost`) are proved from
what a step may do to the primary and to the file (the lemmas `PrimStep`,
`OutboxStep`, `LogStep`, `EntriesStep`) and not action by action; the parts about
phases are proved by action.

`NothingSkipped` holds without further hypothesis while the sidecar is not lost
(`NothingIsSkipped`). With losses it has the hypothesis of `LossIsNoticed`, that no
entry waits at the moment of a loss: without it the property is false
(observations above). That proof needs one more invariant, `CursorInv`: either the
consumer has read what the file holds, or `validate` will refuse the file.

`Rotation_proofs` proves `TypeCorrect`, `RotationKeepsData` (`WholeDatabase`),
`RetiredForGood` (`RetiredStaysRetired`) and `RollbackPossible` (`OldFilesKept`) for
any batch size and any number of updates, rotations, errors and crashes. The last
three have the hypothesis `Tended`: the operator removes leftover backups, a sync
does not fail after its operation, and crashes are of one kind, kills or power
losses. They are the surroundings of the `rotation` run, and of kills as well;
`WholeDatabase` is false without each of them (observations above). The proof uses
`RotationValues`, that a missing file is different from every file.

The properties are about an idle path; the invariant is about the directory after
every single operation:

- `Sound`: the directory is `Good`. The file or, as long as there is a marker, its
  backup makes up one whole database with the updates of the history, under one
  credential that is not older than the promised one, beside no WAL of another.
  This is why each order in the scripts is as it is: a file may go only while
  its backup and the marker are there (`GoodErase`), one may be replaced only while
  its backup counts (`GoodMove`), and the marker may go only when either no backup
  is left, or the new pair is whole in place and its WAL is gone;
- `CopyInv`: the copy holds the rows up to `from`, by counting the rows before one
  in a batch (`BatchIds`, `NoneLeft`); `MarkInv`, `SwapInv`, `RecoverInv`: what the
  steps done so far have left. At the marker's removal they give the new pair;
- `MediumInv`: with power losses, the medium is a `Good` directory too, and differs
  from the process's in one file, or by a file in a new place, or only in files
  that do not count. Then every mixture that a power loss may leave is `Good`
  (`SurvivorsGood`): removals that share one sync are of files that do not count.

`Records_proofs` proves, for every lattice coordinate, record, set of calls and
bound, with and without MVCC, `TypeCorrect`, `EarlierFacetsAreGone` (`EarlierFacetsGone`)
and the facts about indexes that the reads of `Views` and `Inspect` stand on:
`IndexesComplete` (every cell the newest snapshot or the Update under way sees has
its source, time and tag rows), `NoIndexRowStale` (every row belongs to a version,
without MVCC always, with it while an Update makes one call; with more calls it is
false, see `HealthTrue`), `SeamIndexesComplete` and `SeamEndpointsKept`.
`RecordsAssumption` says of the callers' records only that a put cell is no
tombstone and that a seam has its fields. Every call is first reduced to what it
changes, part by part (`Effect`: a put or deleted cell, a put facet, seam or edge),
and each part of `IInv` is proved from those:

- `OwnCells`, `PlainCells`: the overlay and the deletes of the Update are exactly its
  rows in the tree, so that what it sees is what its commit publishes
  (`CommittedSeen`);
- `FacetsGo`: behind a tombstone of the cell every older live facet has a newer
  version that is no newer than the tombstone. DeleteCell goes by what it *sees*,
  which leaves out facets of its own Update and versions that are not the newest;
  the lemma's two cases show that no facet of an earlier commit escapes behind one
  of these (a facet first put by the deleting Update does);
- `CellsIndexed`, `TrueInv`: removing the rows of one version leaves those of every
  cell still seen; without MVCC the version that PutCell removes is the only one;
- `SeamRows`, `OnePair`: putSeamWithOp does not see a version of its own Update, but
  replaces it under the same key, and of earlier ones it sees the newest, which
  exists (`NewestVersion`) as seams are never deleted.

`PageCache_proofs` proves, for every finite set of pages, page size and budget of a
shard, that the loops of the hands end (`HandsEnd`) and that get, set and
invalidate lead from a shard at rest (`Rest`) to one at rest, from
`PageCacheAssumption` alone. The difficulty is that a round may do no more than move
a hand, that hot entries are cooled inside the eviction of cold ones and ghosts
dropped inside both, and that each hand may run into what another has changed. Each
loop has a measure: N times the work left (data to drop, warmth and reference bits
to take away, or ghosts to forget) plus the way of the hand to the next entry it can
work on. A round lowers it, inner loops never raise it, and it starts at N(3N + 1)
at most. `Good` is what holds between any two rounds: the ring has each
entry once, the counters are those of the entries, the hands point into the ring.
Eviction ends within the budget only because a page that is larger than the
budget never stays (`Roomy`): such a shard is empty between calls (`RestSmall`).

`PageStore_proofs` proves every property of the `page_store` run, and three facts
that they rest on, for every set of readers and scenarios, from
`PageCacheAssumption` and `PageStoreAssumption` (the pages of a database are
numbered from 1, and no reader is called "backup"):

| Theorem | States |
|---|---|
| `TypeCorrect` | the variables have their types |
| `CacheAlwaysSound` | `CacheSound` |
| `LockExcludes` | `DB.mu` keeps writers, Close, Views and backups apart |
| `CacheCoherent` | a cached page is the page of the primary |
| `ViewsReadCommitted` | `ReadsCommitted` |
| `BackupsWhole` | `BackupWhole` |

`ReadsCommitted` says nothing of what the next read will find, and `BackupWhole`
nothing of a backup under way, so neither is inductive. `IInv` has, besides the types
and the shard at rest:

- `Locked`: the lock is held by the write transaction until its waiter is
  answered, or by Close, or by readers;
- `Pipeline`, `Failures`: where the job of the transaction is, and whose commit
  failed. The flusher may still be reverting when the next job is queued, but takes
  it only afterwards, so there is never more than one;
- `CacheExact`: a cached page is the page of the primary, the page under the pen is
  not cached, and no reader holds a page to be cached that is older than the
  primary. The flusher invalidates a page before it writes it; that nobody puts
  the old image back in between is due to the lock, not to the cache (`ReadersOut`);
- `Intended`, `Contents`: how far the pipeline has taken pages, overlay, header and
  log from the last commit to the next; `NoOlder`: after an error too, no image is
  older than the last commit;
- `LogWhole`, `AfterFailure`: no record is cut before a commit fails. After one, until
  another transaction writes the log, the files have a log that Open refuses, or
  restore the contents before it or after it; without a marker they restore for
  each page the image before or after it, since any prefix of the records may have
  been appended and each is the image that its page would have had;
- `Given`, `Copied`: what readers and a backup were given is still in the files.

Only model-checked: that every commit and Open is answered (`Answered`), that every
mutation reaches the feed (`Projected`) and every marker is resolved
(`MarkerResolved`), as fairness is outside what the prover handles; the B+ tree, the
searches of `Spatial` and what `Views` and `Inspect` read, as their modules declare
or use recursive operators; the graph and its rebuild. The three runs that expect a
violation have nothing to prove.

## 7. Not modelled

Listed with reasons in `PROJECT.json`. In short: byte layouts, cryptography and
system-call wrappers (the order they induce on keys, and what authentication
adds to the protocol, are modelled); scores of texts and vectors, quantisation
and recall; FieldOfViewRaycast and HexLine, which round real numbers; ring density and
rendering; storage statistics; free-space arithmetic of maintenance; several jobs
in one batch of the flusher, which `DB.mu` excludes; the tools. Failure of a sync
that drops dirty pages of the operating system is not modelled, nor are more than
one process at a time on the same file (an exclusive lock prevents it). The bytes
that ReclaimTail leaves behind when a crash comes between its header commit and
the truncation are not modelled: they lie beyond the allocator's limit. An error
of ReindexEmbeddings is modelled at its last cell only.
