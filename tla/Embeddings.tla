----------------------------- MODULE Embeddings -----------------------------
(***************************************************************************)
(* Embeddings and the life of their index (tx_embedding.go, embedding_*.go)*)
(* Update transactions write the authoritative embed/ rows and maintain    *)
(* the graph with them, or defer that and leave the index dirty, so that   *)
(* searches take the exact flat path. RebuildEmbeddingIndex builds a graph *)
(* aside: one transaction marks the index, a later View takes the vectors, *)
(* the build runs without the lock, and a last transaction publishes the   *)
(* graph unless the revision has moved. Anything may happen between its    *)
(* steps: writes, another rebuild, cancellation, the end of the process.   *)
(*                                                                         *)
(* db.mu makes Update and View exclude each other, so a step of a rebuild  *)
(* and a reader never meet a transaction under way.                        *)
(***************************************************************************)
EXTENDS Hnsw, FiniteSetsExt

CONSTANTS
  Coords,      \* cell coordinates, as the rank of their keys
  Scenarios    \* what a behaviour may do: calls (the methods an Update may
               \* call, with their arguments), rebuilders, maxVectors,
               \* dropsFirst (an Update that set the dimension may be rolled
               \* back), and the bounds maxOps, maxCommits, maxRebuilds,
               \* maxRestarts

VARIABLES
  env,        \* the scenario of this behaviour
  db,         \* the committed rows
  dim,        \* the vectors' dimension, 0 while there is none: of the
              \* header that is committed, and of the engine in memory
  tx,         \* the Update under way with the header's dimension in its
              \* copy, or NoTx
  rebuild,    \* each rebuild call: its pc and what it has taken
  used        \* what has been spent of the bounds

vars == <<env, db, dim, tx, rebuild, used>>

NoTx == [open |-> FALSE]
Idle == [pc |-> "idle"]

(* cells: "live", or "dead" once only version rows are left of it.         *)
EmptyRows == [cells |-> <<>>, vecs |-> <<>>, state |-> None, ok |-> TRUE] @@ NoGraph

Init ==
  /\ env \in Scenarios
  /\ db = EmptyRows
  /\ dim = [header |-> 0, memory |-> 0]
  /\ tx = NoTx
  /\ rebuild = [r \in env.rebuilders |-> Idle]
  /\ used = [commits |-> 0, rebuilds |-> 0, restarts |-> 0]

-----------------------------------------------------------------------------
(* embedding_index_state.go. No row is revision 0, not dirty.              *)

IsDirty(rows) == rows.state # None /\ rows.state.dirty
StateOf(rows) == IF rows.state = None THEN [revision |-> 0, dirty |-> FALSE] ELSE rows.state

(* recordEmbeddingMutation: once there is a row every mutation advances    *)
(* it. The graph is maintained while the index is not dirty.               *)
Bug_DirtyForgotten(rows, defer) ==
  IF rows.state = None /\ ~defer THEN rows
  ELSE [rows EXCEPT !.state = [revision |-> StateOf(rows).revision + 1, dirty |-> defer]]
RecordMutation(rows, defer) ==
  IF rows.state = None /\ ~defer THEN rows
  ELSE [rows EXCEPT !.state = [revision |-> StateOf(rows).revision + 1,
                               dirty |-> StateOf(rows).dirty \/ defer]]

(* PutEmbeddingWithOptions.                                                *)
PutVec(rows, c, v) ==
  [rows EXCEPT !.vecs = [d \in DOMAIN @ \cup {c} |-> IF d = c THEN v ELSE @[d]]]
PutEmbedding(rows, c, v, defer) ==
  LET recorded == RecordMutation(PutVec(rows, c, v), defer)
  IN IF IsDirty(recorded) THEN recorded ELSE Insert(recorded, c)

(* DeleteEmbedding, and deleteEmbeddingIfEnabled when a cell is deleted or *)
(* reindexed away: nothing while no vector has set the dimension. The row  *)
(* goes first, the graph is repaired without its vector.                   *)
DeleteEmbedding(rows, d, c) ==
  LET recorded == RecordMutation([rows EXCEPT !.vecs = [e \in DOMAIN @ \ {c} |-> @[e]]], FALSE)
  IN IF d = 0 THEN rows
     ELSE IF IsDirty(recorded) THEN recorded ELSE Delete(recorded, c)

-----------------------------------------------------------------------------
(* DB.Update and the calls of its callback.                                *)

Begin ==
  /\ ~tx.open /\ used.commits < env.maxCommits
  /\ tx' = [open |-> TRUE, rows |-> db, header |-> dim.header, ops |-> 0]
  /\ UNCHANGED <<env, db, dim, rebuild, used>>

(* A call has returned. The callback gives up on a corrupt graph; whatever *)
(* other error it gets it may well ignore. SetEmbeddingConfig, made by the *)
(* first vector the engine sees, writes the transaction's copy of the      *)
(* header and the engine's memory; no later vector writes either.          *)
Called(rows, d) ==
  /\ tx' = [tx EXCEPT !.rows = rows, !.ops = @ + 1,
                      !.header = IF dim.memory = 0 THEN d ELSE @]
  /\ dim' = [dim EXCEPT !.memory = d]
CalledOn(rows) == Called(rows, dim.memory)
CanCall(call) == tx.open /\ tx.rows.ok /\ tx.ops < env.maxOps /\ call \in env.calls

PutCell ==
  \E c \in Coords :
    /\ CanCall(<<"cell", c>>)
    /\ CalledOn([tx.rows EXCEPT !.cells = [d \in DOMAIN @ \cup {c} |->
                                             IF d = c THEN "live" ELSE @[d]]])
    /\ UNCHANGED <<env, db, rebuild, used>>

(* DeleteCell: not without a cell; its embedding goes with it.             *)
DeleteCell ==
  \E c \in Coords :
    /\ CanCall(<<"deleteCell", c>>)
    /\ c \in DOMAIN tx.rows.cells /\ tx.rows.cells[c] = "live"
    /\ CalledOn(DeleteEmbedding([tx.rows EXCEPT !.cells[c] = "dead"], dim.memory, c))
    /\ UNCHANGED <<env, db, rebuild, used>>

(* The first vector sets the dimension, one of another is refused.         *)
Put ==
  \E c \in Coords, call \in env.calls :
    /\ call[1] \in {"put", "defer"} /\ call[2] = c
    /\ CanCall(call)
    /\ LET v == call[3]
       IN IF dim.memory \in {0, v[1]}
          THEN Called(PutEmbedding(tx.rows, c, v, call[1] = "defer"), v[1])
          ELSE CalledOn(tx.rows)
    /\ UNCHANGED <<env, db, rebuild, used>>

RemoveEmbedding ==
  \E c \in Coords :
    /\ CanCall(<<"delete", c>>)
    /\ CalledOn(DeleteEmbedding(tx.rows, dim.memory, c))
    /\ UNCHANGED <<env, db, rebuild, used>>

(* ReindexEmbeddings: over every coordinate that has a cell row, in key    *)
(* order; fn gives a vector or skips the cell (None). A vector of another  *)
(* dimension ends it, and so does fn's error, on the last cell here: what  *)
(* was done before stays in the transaction.                               *)
ReindexCell(a, c, fn) ==
  IF a.failed \/ ~a.rows.ok THEN a
  ELSE IF a.rows.cells[c] = "dead" \/ fn[c] = None
  THEN [a EXCEPT !.rows = DeleteEmbedding(@, a.dim, c)]
  ELSE IF a.dim \notin {0, fn[c][1]} THEN [a EXCEPT !.failed = TRUE]
  ELSE [rows |-> PutEmbedding(a.rows, c, fn[c], FALSE), dim |-> fn[c][1], failed |-> FALSE]
ReindexFirst(n, fn) ==
  FoldLeft(LAMBDA a, c : ReindexCell(a, c, fn),
           [rows |-> tx.rows, dim |-> dim.memory, failed |-> FALSE],
           Truncate(SetToSortSeq(DOMAIN tx.rows.cells, <), n))
Reindex ==
  \E call \in env.calls, short \in {0, 1} :
    /\ call[1] = "reindex"
    /\ CanCall(call)
    /\ short <= Cardinality(DOMAIN tx.rows.cells)
    /\ LET done == ReindexFirst(Cardinality(DOMAIN tx.rows.cells) - short, call[2])
       IN Called(done.rows, done.dim)
    /\ UNCHANGED <<env, db, rebuild, used>>

Commit ==
  /\ tx.open /\ tx.rows.ok
  /\ db' = tx.rows
  /\ dim' = [dim EXCEPT !.header = tx.header]
  /\ tx' = NoTx
  /\ used' = [used EXCEPT !.commits = @ + 1]
  /\ UNCHANGED <<env, rebuild>>

(* AbortWriteTxn drops the copy of the header with the rest; the dimension *)
(* the engine has in memory stays, and no later put writes it down.        *)
Rollback ==
  /\ tx.open
  /\ env.dropsFirst \/ tx.header = dim.header
  /\ tx' = NoTx
  /\ used' = [used EXCEPT !.commits = @ + 1]
  /\ UNCHANGED <<env, db, dim, rebuild>>

-----------------------------------------------------------------------------
(* DB.RebuildEmbeddingIndex. Every step outside Publish may also find its  *)
(* context cancelled; an error ends the call (Cancel).                     *)

TooLarge(rows) == Cardinality(DOMAIN rows.vecs) > env.maxVectors
Step(r, next) == rebuild' = [rebuild EXCEPT ![r] = next]

(* preflightEmbeddingIndexRebuild: too much to hold ends it here, with the *)
(* published graph as it was.                                              *)
Preflight(r) ==
  /\ rebuild[r] = Idle /\ ~tx.open
  /\ used.rebuilds < env.maxRebuilds
  /\ used' = [used EXCEPT !.rebuilds = @ + 1]
  /\ Step(r, IF TooLarge(db) THEN Idle ELSE [pc |-> "mark"])
  /\ UNCHANGED <<env, db, dim, tx>>

MarkDirty(r) ==
  /\ rebuild[r].pc = "mark" /\ ~tx.open
  /\ db' = [db EXCEPT !.state = [revision |-> StateOf(db).revision + 1, dirty |-> TRUE]]
  /\ Step(r, [pc |-> "snapshot"])
  /\ UNCHANGED <<env, dim, tx, used>>

(* Every vector in key order into an empty memoryHNSWStorage.              *)
Build(vecs) ==
  FoldLeft(Insert, [vecs |-> vecs, ok |-> TRUE] @@ NoGraph, SetToSortSeq(DOMAIN vecs, <))

(* validate, before anything of the graph is published.                    *)
ValidNode(s, c) ==
  /\ Decodes(s.nodes[c])
  /\ \A lc \in 0..s.nodes[c].top :
       /\ Len(Links(s, c, lc)) <= LayerLimit(lc)
       /\ ToSet(Links(s, c, lc)) \subseteq DOMAIN s.nodes
Valid(s) ==
  IF DOMAIN s.vecs = {} THEN s.meta = None /\ s.entry = None /\ DOMAIN s.nodes = {}
  ELSE /\ s.meta # None /\ s.entry # None
       /\ s.meta.count = Cardinality(DOMAIN s.vecs)
       /\ Cardinality(DOMAIN s.nodes) = Cardinality(DOMAIN s.vecs)
       /\ HasNode(s, s.entry)
       /\ \A c \in DOMAIN s.nodes : ValidNode(s, c)

(* snapshotEmbeddingsForRebuild and the build, which reads nothing but the *)
(* snapshot. Another rebuild may have published in between.                *)
Snapshot(r) ==
  /\ rebuild[r].pc = "snapshot" /\ ~tx.open
  /\ LET graph == Build(db.vecs)
     IN Step(r, IF ~IsDirty(db) \/ TooLarge(db) \/ ~graph.ok \/ ~Valid(graph) THEN Idle
                ELSE [pc |-> "publish", revision |-> db.state.revision, graph |-> graph])
  /\ UNCHANGED <<env, db, dim, tx, used>>

(* The publishing transaction, with replaceEmbeddingGraph: the old rows    *)
(* go, the new ones come. ErrEmbeddingIndexChanged leaves all as it is.    *)
MayPublish(state, revision) == state # None /\ state.dirty /\ state.revision = revision
ReplaceGraph(rows, graph) ==
  [rows EXCEPT !.meta = graph.meta, !.entry = graph.entry, !.nodes = graph.nodes]
Bug_AnyRevision(rows, r) ==
  IF IsDirty(rows) THEN [ReplaceGraph(rows, r.graph) EXCEPT !.state.dirty = FALSE] ELSE rows
Published(rows, r) ==
  IF MayPublish(rows.state, r.revision)
  THEN [ReplaceGraph(rows, r.graph) EXCEPT !.state.dirty = FALSE] ELSE rows
Publish(r) ==
  /\ rebuild[r].pc = "publish" /\ ~tx.open
  /\ db' = Published(db, rebuild[r])
  /\ Step(r, Idle)
  /\ UNCHANGED <<env, dim, tx, used>>

Cancel(r) ==
  /\ rebuild[r] # Idle
  /\ Step(r, Idle)
  /\ UNCHANGED <<env, db, dim, tx, used>>

(* The process ends and the database is opened again, with the dimension   *)
(* the header names.                                                       *)
Restart ==
  /\ used.restarts < env.maxRestarts
  /\ used' = [used EXCEPT !.restarts = @ + 1]
  /\ tx' = NoTx
  /\ rebuild' = [r \in env.rebuilders |-> Idle]
  /\ dim' = [dim EXCEPT !.memory = dim.header]
  /\ UNCHANGED <<env, db>>

Next ==
  \/ Begin \/ PutCell \/ DeleteCell \/ Put \/ RemoveEmbedding \/ Reindex
  \/ Commit \/ Rollback \/ Restart
  \/ \E r \in env.rebuilders :
       Preflight(r) \/ MarkDirty(r) \/ Snapshot(r) \/ Publish(r) \/ Cancel(r)

Spec == Init /\ [][Next]_vars

-----------------------------------------------------------------------------
(* SearchByEmbedding: nothing while no dimension is known, the graph while *)
(* the index is not dirty and there is one, the flat scan otherwise.       *)

UsesGraph(rows) == ~IsDirty(rows) /\ rows.meta # None
FlatScan(rows, v, k) ==
  Truncate(FoldLeft(LAMBDA list, c : InsertSorted(rows, v, list, c), <<>>,
                    SetToSortSeq(DOMAIN rows.vecs, <)), k)
SearchByEmbedding(rows, v, k, ef) ==
  IF dim.memory = 0 THEN [ok |-> TRUE, found |-> <<>>]
  ELSE IF UsesGraph(rows) THEN Search(rows, v, k, ef)
  ELSE [ok |-> TRUE, found |-> FlatScan(rows, v, k)]

(* What a search must return: some k best of the embedded coordinates,     *)
(* best first.                                                             *)
Best(rows, v, k, found) ==
  LET Score(c) == Similarity(v, rows.vecs[c])
      wanted == Min({k, Cardinality(DOMAIN rows.vecs)})
  IN /\ Len(found) = wanted /\ Cardinality(ToSet(found)) = wanted
     /\ ToSet(found) \subseteq DOMAIN rows.vecs
     /\ \A i \in 1..(wanted - 1) : Score(found[i]) >= Score(found[i + 1])
     /\ \A c \in DOMAIN rows.vecs \ ToSet(found), i \in 1..wanted : Score(found[i]) >= Score(c)

(* What a reader may be reading: the committed rows, or an Update its own. *)
Readers == {db} \cup (IF tx.open THEN {tx.rows} ELSE {})
Queries == {call[3] : call \in {c \in env.calls : c[1] \in {"put", "defer"}}}

(* Whichever path serves it, a search is answered with the k best of the   *)
(* embeddings the reader has, no removed one and none left out, after any  *)
(* sequence of puts, deletes, deferred writes, reindexing and rebuilds     *)
(* racing them; every vector has the dimension the engine works with, and  *)
(* none is hidden by the engine knowing no dimension. On the graph's path  *)
(* this needs the links to reach every node, the entry and the layers to   *)
(* be kept, and the index to be dirty whenever the graph is not of these   *)
(* embeddings (SearchByEmbeddingWithStats).                                *)
(*                                                                         *)
(* It is claimed across a restart only where no Update that set the        *)
(* dimension was rolled back (dropsFirst). After such a rollback the later *)
(* vectors are committed under a header that still says 0, and the engine  *)
(* that opens it next finds nothing (embedding_config.go:20-30,            *)
(* embedding_search.go:77-80).                                             *)
SearchExact ==
  \A rows \in Readers :
    /\ rows.ok
    /\ \A c \in DOMAIN rows.vecs : rows.vecs[c][1] = dim.memory
    /\ \A v \in Queries, k \in {1, 2} :
         dim.memory \in {0, v[1]} => LET r == SearchByEmbedding(rows, v, k, EfC)
                                     IN r.ok /\ Best(rows, v, k, r.found)
    /\ UsesGraph(rows) => \A c \in DOMAIN rows.nodes : ValidNode(rows, c)

(* The index turns from dirty to current only with a graph built of the    *)
(* very embeddings that are committed: a rebuild that took its vectors     *)
(* before a later write publishes nothing, however the two interleave and  *)
(* whether the write touched the graph or not.                             *)
PublishesCurrent ==
  [][IsDirty(db) /\ ~IsDirty(db') =>
       LET built == Build(db'.vecs)
       IN /\ db'.vecs = db.vecs
          /\ <<db'.meta, db'.entry, db'.nodes>> = <<built.meta, built.entry, built.nodes>>]_db

(* graph.go:382 "repairNeighborLinks removes coord from all neighbor       *)
(* lists": no node of a maintained graph lists a coordinate without node.  *)
DeletedIsUnlinked ==
  \A rows \in Readers : ~IsDirty(rows) =>
    \A c \in DOMAIN rows.nodes : \A lc \in 0..rows.nodes[c].top :
      ToSet(Links(rows, c, lc)) \subseteq DOMAIN rows.nodes

=============================================================================
