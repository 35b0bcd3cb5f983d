------------------------------ MODULE Records ------------------------------
(***************************************************************************)
(* The records of a HexxlaDB database and the indexes kept beside them:    *)
(* cells, facets, edges and seams, as one Update transaction after another *)
(* writes them (primitives.go, facets_edges.go, delete_cell.go,            *)
(* cell_secondary.go, seam_secondary.go), and the reads every snapshot     *)
(* offers of them (mvcc.go, snapshot_diff.go).                             *)
(*                                                                         *)
(* The tree is one set of rows per key prefix. With MVCC a row carries the *)
(* sequence number of its commit; without it every row carries 0 and is    *)
(* replaced in place, and a reader reads at 0, so that both formats share  *)
(* the definitions below. Update and View exclude each other, so a         *)
(* transaction works on the tree as the last commit left it.               *)
(***************************************************************************)
EXTENDS Lattice

CONSTANTS
  Scenarios,   \* what a behaviour may do: the format (mvcc), the calls an
               \* Update's callback may make (calls: the method's name and its
               \* arguments), the identifiers new seams draw from (ids), the
               \* most Updates (maxCommits) and calls in one (maxOps)
  None         \* no source, no time, no status

Tombstone == [dead |-> TRUE]

(* The records a caller passes are never tombstones, which only DeleteCell *)
(* writes; a seam has all its fields.                                      *)
SeamFields == {"id", "a", "b", "type", "status", "source", "from"}
ASSUME RecordsAssumption ==
  \A sc \in Scenarios :
    /\ sc.mvcc \in BOOLEAN
    /\ \A call \in sc.calls :
         /\ call.op = "PutCell" => call.rec # Tombstone
         /\ call.op = "PutSeam" => DOMAIN call.rec = SeamFields

VARIABLES
  env,    \* the scenario of this behaviour
  db,     \* the committed tree
  head,   \* CommitSeq: the number of committed Updates
  tx      \* the Update under way, or NoTx

vars == <<env, db, head, tx>>

EmptyTree ==
  [cells |-> {}, facets |-> {}, edges |-> {}, seams |-> {}, byCells |-> {},
   source |-> {}, time |-> {}, tag |-> {}, seamSource |-> {}, seamTime |-> {}]
NoTx == [open |-> FALSE]

Init ==
  /\ env \in Scenarios
  /\ db = EmptyTree
  /\ head = 0
  /\ tx = NoTx

-----------------------------------------------------------------------------
(* What a reader sees. A reader is a tree, the sequence number it reads at *)
(* and, inside an Update, the transaction's own cells.                     *)

Snapshot(seq) ==
  [tree |-> db, seq |-> IF env.mvcc THEN seq ELSE 0, overlay |-> {}, deleted |-> {}]
InTx == [tree |-> tx.tree, seq |-> tx.readSeq, overlay |-> tx.overlay, deleted |-> tx.deleted]

(* getVisibleVersionRaw: the newest of some versions up to the sequence    *)
(* number; a tombstone hides the record.                                   *)
Visible(versions, seq) ==
  {v \in versions : /\ v.seq <= seq
                    /\ v.val # Tombstone
                    /\ \A w \in versions : w.seq <= seq => w.seq <= v.seq}

(* visibleCellAndSeq, GetCell: the transaction's own delete and put come   *)
(* first. The set is empty when there is no cell.                          *)
GetCell(rd, c) ==
  IF c \in rd.deleted THEN {}
  ELSE IF \E o \in rd.overlay : o.at = c THEN {o \in rd.overlay : o.at = c}
  ELSE Visible({v \in rd.tree.cells : v.at = c}, rd.seq)

(* getFacetVisibleRaw, getSeamVisibleRaw: a transaction that uses MVCC     *)
(* does not see the facets and seams it has written itself.                *)
GetFacet(rd, c, id) == Visible({v \in rd.tree.facets : v.at = c /\ v.id = id}, rd.seq)
GetSeam(rd, id) == Visible({v \in rd.tree.seams : v.id = id}, rd.seq)

MaxFacetID == 5
FacetsOf(rd, c) == UNION {GetFacet(rd, c, id) : id \in 0..MaxFacetID}
EdgesFrom(rd, c) == {e \in rd.tree.edges : e.from = c}

-----------------------------------------------------------------------------
(* DB.Update.                                                              *)

Begin ==
  /\ ~tx.open /\ head < env.maxCommits
  /\ tx' = [open |-> TRUE, ops |-> 0, tree |-> db, overlay |-> {}, deleted |-> {},
            readSeq |-> IF env.mvcc THEN head ELSE 0,
            writeSeq |-> IF env.mvcc THEN head + 1 ELSE 0]
  /\ UNCHANGED <<env, db, head>>

Commit ==
  /\ tx.open
  /\ db' = tx.tree
  /\ head' = head + 1
  /\ tx' = NoTx
  /\ UNCHANGED env

(* The callback returns an error: the staged pages are dropped. *)
Rollback ==
  /\ tx.open
  /\ tx' = NoTx
  /\ UNCHANGED <<env, db, head>>

(* The calls the callback may make now. *)
Calls(op) == {call \in env.calls : tx.open /\ tx.ops < env.maxOps /\ call.op = op}

(* A call that changes the transaction's tree and nothing else of it. *)
Write(tree) == tx' = [tx EXCEPT !.ops = @ + 1, !.tree = tree]

(* BTree.Put: the row replaces the one under the same key, which is all of *)
(* it but the value.                                                       *)
PutVersion(rows, row) ==
  {r \in rows : \E field \in DOMAIN row \ {"val"} : r[field] # row[field]} \cup {row}

-----------------------------------------------------------------------------
(* Cells.                                                                  *)

(* putCellSecondaryIndex, removeCellSecondaryIndex: the rows of a version  *)
(* in the source, time and tag indexes.                                    *)
SourceRows(c, rec, seq) == {[key |-> rec.source, at |-> c, seq |-> seq] : x \in {rec.source} \ {None}}
TimeRows(c, rec, seq) == {[key |-> rec.from, at |-> c, seq |-> seq] : x \in {rec.from} \ {None}}
TagRows(c, rec, seq) == {[key |-> t, at |-> c, seq |-> seq] : t \in rec.tags}

WithIndexRows(tree, c, rec, seq) ==
  [tree EXCEPT !.source = @ \cup SourceRows(c, rec, seq),
               !.time = @ \cup TimeRows(c, rec, seq),
               !.tag = @ \cup TagRows(c, rec, seq)]
WithoutIndexRows(tree, c, rec, seq) ==
  [tree EXCEPT !.source = @ \ SourceRows(c, rec, seq),
               !.time = @ \ TimeRows(c, rec, seq),
               !.tag = @ \ TagRows(c, rec, seq)]

Bug_IndexBeforeRemoval(tree, olds, row) ==
  LET put == WithIndexRows([tree EXCEPT !.cells = PutVersion(@, row)],
                           row.at, row.val, row.seq)
  IN  IF env.mvcc \/ olds = {} THEN put
      ELSE WithoutIndexRows(put, row.at, (CHOOSE o \in olds : TRUE).val, 0)

(* The tree after a put: without MVCC the index rows of the old version    *)
(* give way to those of the new one, in this order; with it they stay for  *)
(* the snapshots that still see the old version.                           *)
PutCellTree(tree, olds, row) ==
  LET put == [tree EXCEPT !.cells = PutVersion(@, row)]
      cleared == IF env.mvcc \/ olds = {} THEN put
                 ELSE WithoutIndexRows(put, row.at, (CHOOSE o \in olds : TRUE).val, 0)
  IN  WithIndexRows(cleared, row.at, row.val, row.seq)

PutCell ==
  /\ \E call \in Calls("PutCell") :
       LET row == [at |-> call.at, seq |-> tx.writeSeq, val |-> call.rec]
       IN  tx' = [tx EXCEPT !.ops = @ + 1,
                            !.tree = PutCellTree(@, GetCell(InTx, call.at), row),
                            !.overlay = IF env.mvcc
                                        THEN {o \in @ : o.at # call.at} \cup {row} ELSE @,
                            !.deleted = @ \ {call.at}]
  /\ UNCHANGED <<env, db, head>>

Bug_LastFacetKept(rd, c) == UNION {GetFacet(rd, c, id) : id \in 0..MaxFacetID - 1}

(* tombstoneFacetsForCell, deleteFacetsForCell: the facets that go with a  *)
(* cell.                                                                   *)
FacetsToDelete(rd, c) == FacetsOf(rd, c)

WithoutFacets(tree, c, gone, seq) ==
  IF env.mvcc
  THEN {f \in tree.facets : ~(f.at = c /\ f.seq = seq /\ \E g \in gone : g.id = f.id)}
       \cup {[at |-> c, id |-> g.id, seq |-> seq, val |-> Tombstone] : g \in gone}
  ELSE tree.facets \ gone

(* DeleteCell: nothing when no cell is visible. The cell's row, its index  *)
(* rows, the facets the transaction can see and the outbound edges go; the *)
(* seams stay.                                                             *)
DeleteCell ==
  /\ \E call \in Calls("DeleteCell") :
       \E old \in GetCell(InTx, call.at) :
         LET c == call.at
             hidden == {r \in tx.tree.cells : ~(r.at = c /\ r.seq = tx.writeSeq)}
             t1 == WithoutIndexRows(tx.tree, c, old.val, old.seq)
         IN  tx' = [tx EXCEPT
                      !.ops = @ + 1,
                      !.tree = [t1 EXCEPT
                        !.cells = IF env.mvcc
                                  THEN hidden \cup {[at |-> c, seq |-> tx.writeSeq, val |-> Tombstone]}
                                  ELSE hidden,
                        !.facets = WithoutFacets(tx.tree, c, FacetsToDelete(InTx, c), tx.writeSeq),
                        !.edges = {e \in @ : e.from # c}],
                      !.overlay = {o \in @ : o.at # c},
                      !.deleted = IF env.mvcc THEN @ \cup {c} ELSE @]
  /\ UNCHANGED <<env, db, head>>

-----------------------------------------------------------------------------
(* Facets and edges.                                                       *)

PutFacetTree(call) ==
  [tx.tree EXCEPT !.facets =
     PutVersion(@, [at |-> call.at, id |-> call.id, seq |-> tx.writeSeq, val |-> [hash |-> call.hash]])]

PutFacet ==
  /\ \E call \in Calls("PutFacet") : Write(PutFacetTree(call))
  /\ UNCHANGED <<env, db, head>>

(* UpdateFacet: only of a cell that is there, and only when the facet was  *)
(* derived from its present content.                                       *)
UpdateFacet ==
  /\ \E call \in Calls("UpdateFacet") :
       /\ \E cell \in GetCell(InTx, call.at) : cell.val.content = call.hash
       /\ Write(PutFacetTree(call))
  /\ UNCHANGED <<env, db, head>>

(* PutEdge, LinkCells: edges are not versioned. *)
PutEdge ==
  /\ \E call \in Calls("PutEdge") :
       Write([tx.tree EXCEPT !.edges =
                {e \in @ : ~(e.from = call.edge.from /\ e.to = call.edge.to /\ e.relation = call.edge.relation)}
                \cup {call.edge}])
  /\ UNCHANGED <<env, db, head>>

-----------------------------------------------------------------------------
(* Seams.                                                                  *)

Bug_PairAsGiven(a, b) == <<a, b>>

CanonicalCellPair(a, b) == IF Key(a) <= Key(b) THEN <<a, b>> ELSE <<b, a>>

(* putSeamSecondaryIndex, removeSeamSecondaryIndex. *)
SeamSourceRows(rec, seq) == {[key |-> rec.source, id |-> rec.id, seq |-> seq] : x \in {rec.source} \ {None}}
SeamTimeRows(rec, seq) == {[key |-> rec.from, id |-> rec.id, seq |-> seq] : x \in {rec.from} \ {None}}

(* putSeamWithOp. An existing seam keeps its endpoints; without MVCC its   *)
(* old index rows go first. The row of the pair is never removed.          *)
PutSeamTree(rec) ==
  LET pair == CanonicalCellPair(rec.a, rec.b)
      replaced == IF env.mvcc THEN {} ELSE GetSeam(InTx, rec.id)
  IN  [tx.tree EXCEPT
         !.seams = PutVersion(@, [id |-> rec.id, seq |-> tx.writeSeq, val |-> rec]),
         !.byCells = @ \cup {[lo |-> pair[1], hi |-> pair[2], id |-> rec.id]},
         !.seamSource = (@ \ UNION {SeamSourceRows(o.val, 0) : o \in replaced})
                        \cup SeamSourceRows(rec, tx.writeSeq),
         !.seamTime = (@ \ UNION {SeamTimeRows(o.val, 0) : o \in replaced})
                      \cup SeamTimeRows(rec, tx.writeSeq)]

SeamEndpointsMatch(rec) ==
  \A old \in GetSeam(InTx, rec.id) :
    CanonicalCellPair(old.val.a, old.val.b) = CanonicalCellPair(rec.a, rec.b)

PutSeam ==
  /\ \E call \in Calls("PutSeam") :
       /\ SeamEndpointsMatch(call.rec)
       /\ Write(PutSeamTree(call.rec))
  /\ UNCHANGED <<env, db, head>>

(* MarkConflict and MarkSupersedes: a seam under an identifier not used    *)
(* before (a ULID: of two drawn in one millisecond, or after the clock was *)
(* set back, the later may sort first); a conflict's endpoints are in canonical order, a supersession   *)
(* names the superseded cell first.                                        *)
NewSeam(id, a, b, type) ==
  [id |-> id, a |-> a, b |-> b, type |-> type, status |-> None, source |-> None, from |-> None]
FreshIDs == env.ids \ {s.id : s \in tx.tree.seams}

MarkConflict ==
  /\ \E call \in Calls("MarkConflict") : \E id \in FreshIDs :
       LET pair == CanonicalCellPair(call.a, call.b)
       IN  Write(PutSeamTree(NewSeam(id, pair[1], pair[2], "mark_conflict")))
  /\ UNCHANGED <<env, db, head>>

MarkSupersedes ==
  /\ \E call \in Calls("MarkSupersedes") : \E id \in FreshIDs :
       Write(PutSeamTree(NewSeam(id, call.superseded, call.superseder, "supersedes")))
  /\ UNCHANGED <<env, db, head>>

(* ResolveSeam: rewrites the seam the transaction sees. *)
ResolveSeam ==
  /\ \E call \in Calls("ResolveSeam") :
       \E old \in GetSeam(InTx, call.id) :
         Write(PutSeamTree([old.val EXCEPT !.status = call.status]))
  /\ UNCHANGED <<env, db, head>>

Next ==
  \/ Begin \/ Commit \/ Rollback
  \/ PutCell \/ DeleteCell \/ PutFacet \/ UpdateFacet \/ PutEdge
  \/ PutSeam \/ MarkConflict \/ MarkSupersedes \/ ResolveSeam

Spec == Init /\ [][Next]_vars

-----------------------------------------------------------------------------
(* In no snapshot does a cell that was deleted and put again show a facet  *)
(* that an Update before the deleting one has put, in whatever Updates     *)
(* facet, delete and new cell were written (tombstoneFacetsForCell, MVCC). *)
(* Facets of the deleting Update itself have the number of the tombstone   *)
(* and are not spoken of: tombstoneFacetsForCell does not see a new facet  *)
(* that its own Update has put before the delete, and leaves it, against   *)
(* "removes ... facets" of delete_cell.go (12).                            *)
EarlierFacetsGone ==
  env.mvcc => \A seq \in 0..head : \A t \in db.cells :
    t.val = Tombstone /\ t.seq <= seq => \A f \in FacetsOf(Snapshot(seq), t.at) : f.seq >= t.seq
=============================================================================
