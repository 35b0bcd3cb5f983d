--------------------------- MODULE Records_proofs ----------------------------
(***************************************************************************)
(* Proofs about Records: deletes are whole, the indexes of cells and seams *)
(* find what is there, with and without MVCC. The parts of the inductive   *)
(* invariant come first, then what each call changes (Effect), then one    *)
(* section for each part, with its proof from the effects.                 *)
(***************************************************************************)
EXTENDS Records, WellFoundedInduction, TLAPS

-----------------------------------------------------------------------------
(* Types. *)

TreeFields ==
  {"cells", "facets", "edges", "seams", "byCells", "source", "time", "tag", "seamSource", "seamTime"}
TxFields == {"open", "ops", "tree", "overlay", "deleted", "readSeq", "writeSeq"}

(* Rows are numbered up to n, and without MVCC all with 0.                 *)
Numbered(rows, n) == \A v \in rows : v.seq \in Nat /\ v.seq <= n
(* A key names one row. *)
CellsKeyed(rows) == \A u, v \in rows : u.at = v.at /\ u.seq = v.seq => u = v
SeamsKeyed(rows) == \A u, v \in rows : u.id = v.id /\ u.seq = v.seq => u = v

TreeOK(t, n) ==
  /\ DOMAIN t = TreeFields
  /\ Numbered(t.cells, n) /\ Numbered(t.facets, n) /\ Numbered(t.seams, n)
  /\ CellsKeyed(t.cells) /\ SeamsKeyed(t.seams)
  /\ \A s \in t.seams : DOMAIN s.val = SeamFields /\ s.val.id = s.id

(* The sequence number of a row written in, or read after, n commits. *)
Number(n) == IF env.mvcc THEN n ELSE 0

TypeOK ==
  /\ env \in Scenarios /\ head \in Nat
  /\ TreeOK(db, Number(head))
  /\ tx = NoTx \/ tx.open
  /\ tx.open =>
       /\ DOMAIN tx = TxFields
       /\ tx.ops \in Nat
       /\ tx.readSeq = Number(head) /\ tx.writeSeq = Number(head + 1)
       /\ TreeOK(tx.tree, tx.writeSeq)

-----------------------------------------------------------------------------
(* The transaction's own cells are its rows in the tree. *)

OwnCells ==
  (tx.open /\ env.mvcc) =>
    /\ \A r \in tx.tree.cells : r.seq = tx.writeSeq =>
         IF r.val = Tombstone THEN r.at \in tx.deleted ELSE r \in tx.overlay
    /\ \A own \in tx.overlay :
         own \in tx.tree.cells /\ own.seq = tx.writeSeq /\ own.val # Tombstone /\ own.at \notin tx.deleted
    /\ \A c \in tx.deleted : [at |-> c, seq |-> tx.writeSeq, val |-> Tombstone] \in tx.tree.cells
    /\ {r \in tx.tree.cells : r.seq <= head} = db.cells

(* Without MVCC a row is the present state.                                *)
PlainCells ==
  ~env.mvcc =>
    /\ \A r \in db.cells : r.val # Tombstone
    /\ tx.open => /\ tx.overlay = {} /\ tx.deleted = {}
                  /\ \A r \in tx.tree.cells : r.val # Tombstone

-----------------------------------------------------------------------------
(* Facets go with their cell: behind a tombstone of the cell no older      *)
(* facet is the newest of its identifier.                                  *)
FacetsGo(t) ==
  \A c \in t.cells, old \in t.facets :
    (c.val = Tombstone /\ old.at = c.at /\ old.id \in 0..MaxFacetID /\ old.seq < c.seq /\ old.val # Tombstone)
    => \E new \in t.facets : new.at = old.at /\ new.id = old.id /\ old.seq < new.seq /\ new.seq <= c.seq

FacetsInv == env.mvcc => FacetsGo(db) /\ (tx.open => FacetsGo(tx.tree))

-----------------------------------------------------------------------------
(* The secondary indexes of the cells. *)

Indexes == {"source", "time", "tag"}
IndexRows(k, c, rec, seq) ==
  IF k = "source" THEN SourceRows(c, rec, seq)
  ELSE IF k = "time" THEN TimeRows(c, rec, seq) ELSE TagRows(c, rec, seq)

(* Every cell a reader sees is in every index. *)
RowsOf(t, v) == \A k \in Indexes : IndexRows(k, v.at, v.val, v.seq) \subseteq t[k]
Indexed(rd) == \A v \in rd.tree.cells : v \in GetCell(rd, v.at) => RowsOf(rd.tree, v)

CellsIndexed == Indexed(Snapshot(head)) /\ (tx.open => Indexed(InTx))

(* Every row of an index is the row of a version. *)
IndexTrue(t) ==
  \A k \in Indexes : \A r \in t[k] :
    \E v \in t.cells : v.val # Tombstone /\ r \in IndexRows(k, v.at, v.val, v.seq)

NoStaleRows ==
  (~env.mvcc \/ env.maxOps = 1) => IndexTrue(db)
TrueInv ==
  /\ NoStaleRows
  /\ (tx.open /\ tx.ops = 0) => tx.tree = db
  /\ (tx.open /\ (~env.mvcc \/ env.maxOps = 1)) => IndexTrue(tx.tree)

-----------------------------------------------------------------------------
(* The indexes of the seams. *)

Pair(rec) == CanonicalCellPair(rec.a, rec.b)
SeamIndexes == {"seamSource", "seamTime"}
SeamIndexRows(k, rec, seq) ==
  IF k = "seamSource" THEN SeamSourceRows(rec, seq) ELSE SeamTimeRows(rec, seq)
SeamRows(t) ==
  \A s \in t.seams :
    /\ [lo |-> Pair(s.val)[1], hi |-> Pair(s.val)[2], id |-> s.id] \in t.byCells
    /\ \A k \in SeamIndexes : SeamIndexRows(k, s.val, s.seq) \subseteq t[k]
SeamsIndexed == SeamRows(db) /\ (tx.open => SeamRows(tx.tree))

OnePair(t) == \A u, v \in t.seams : u.id = v.id => Pair(u.val) = Pair(v.val)
SameEndpoints == OnePair(db) /\ (tx.open => OnePair(tx.tree))

-----------------------------------------------------------------------------
(* Rows. *)

LEMMA EnvOK == env \in Scenarios => env.mvcc \in BOOLEAN
  BY RecordsAssumption

LEMMA NumberNat ==
  ASSUME TypeOK
  PROVE  /\ Number(head) \in Nat /\ Number(head + 1) \in Nat
         /\ Number(head) <= Number(head + 1)
         /\ env.mvcc => Number(head) = head /\ Number(head + 1) = head + 1
         /\ ~env.mvcc => Number(head) = 0 /\ Number(head + 1) = 0
  BY EnvOK DEF TypeOK, Number

(* BTree.Put replaces the row of the same key, for each kind of row. *)
LEMMA PutCellRow ==
  ASSUME NEW rows, NEW c, NEW n, NEW x
  PROVE  PutVersion(rows, [at |-> c, seq |-> n, val |-> x])
         = {r \in rows : ~(r.at = c /\ r.seq = n)} \cup {[at |-> c, seq |-> n, val |-> x]}
  <1> DEFINE row == [at |-> c, seq |-> n, val |-> x]
  <1>1. DOMAIN row \ {"val"} = {"at", "seq"}
    OBVIOUS
  <1>2. row.at = c /\ row.seq = n
    OBVIOUS
  <1> HIDE DEF row
  <1>3. \A r \in rows : (\E field \in {"at", "seq"} : r[field] # row[field]) <=> ~(r.at = c /\ r.seq = n)
    BY <1>2
  <1>4. PutVersion(rows, row) = {r \in rows : ~(r.at = c /\ r.seq = n)} \cup {row}
    BY <1>1, <1>3 DEF PutVersion
  <1> QED
    BY <1>4 DEF row

LEMMA PutFacetRow ==
  ASSUME NEW rows, NEW c, NEW id, NEW n, NEW x
  PROVE  PutVersion(rows, [at |-> c, id |-> id, seq |-> n, val |-> x])
         = {r \in rows : ~(r.at = c /\ r.id = id /\ r.seq = n)}
           \cup {[at |-> c, id |-> id, seq |-> n, val |-> x]}
  <1> DEFINE row == [at |-> c, id |-> id, seq |-> n, val |-> x]
  <1>1. DOMAIN row \ {"val"} = {"at", "id", "seq"}
    OBVIOUS
  <1>2. row.at = c /\ row.id = id /\ row.seq = n
    OBVIOUS
  <1> HIDE DEF row
  <1>3. \A r \in rows : (\E field \in {"at", "id", "seq"} : r[field] # row[field])
                        <=> ~(r.at = c /\ r.id = id /\ r.seq = n)
    BY <1>2
  <1>4. PutVersion(rows, row) = {r \in rows : ~(r.at = c /\ r.id = id /\ r.seq = n)} \cup {row}
    BY <1>1, <1>3 DEF PutVersion
  <1> QED
    BY <1>4 DEF row

LEMMA PutSeamRow ==
  ASSUME NEW rows, NEW id, NEW n, NEW x
  PROVE  PutVersion(rows, [id |-> id, seq |-> n, val |-> x])
         = {r \in rows : ~(r.id = id /\ r.seq = n)} \cup {[id |-> id, seq |-> n, val |-> x]}
  <1> DEFINE row == [id |-> id, seq |-> n, val |-> x]
  <1>1. DOMAIN row \ {"val"} = {"id", "seq"}
    OBVIOUS
  <1>2. row.id = id /\ row.seq = n
    OBVIOUS
  <1> HIDE DEF row
  <1>3. \A r \in rows : (\E field \in {"id", "seq"} : r[field] # row[field]) <=> ~(r.id = id /\ r.seq = n)
    BY <1>2
  <1>4. PutVersion(rows, row) = {r \in rows : ~(r.id = id /\ r.seq = n)} \cup {row}
    BY <1>1, <1>3 DEF PutVersion
  <1> QED
    BY <1>4 DEF row

(* An index row names its cell and the version it was written for. *)
LEMMA IndexRowsOf ==
  ASSUME NEW k, NEW c, NEW rec, NEW n, NEW r \in IndexRows(k, c, rec, n)
  PROVE  r.at = c /\ r.seq = n
  BY DEF IndexRows, SourceRows, TimeRows, TagRows

LEMMA SeamIndexRowsOf ==
  ASSUME NEW k, NEW rec, NEW n, NEW r \in SeamIndexRows(k, rec, n)
  PROVE  r.id = rec.id /\ r.seq = n
  BY DEF SeamIndexRows, SeamSourceRows, SeamTimeRows

-----------------------------------------------------------------------------
(* What a call changes, part by part. *)

Same(fields) == \A k \in fields : tx'.tree[k] = tx.tree[k]
SameCells == Same({"cells"} \cup Indexes) /\ tx'.overlay = tx.overlay /\ tx'.deleted = tx.deleted
SameFacets == Same({"facets"})
SameSeams == Same({"seams", "byCells"} \cup SeamIndexes)

CellPut(c, rec) ==
  LET n == tx.writeSeq
      row == [at |-> c, seq |-> n, val |-> rec]
      olds == GetCell(InTx, c)
      Old(k) == IF env.mvcc \/ olds = {} THEN {}
                ELSE IndexRows(k, c, (CHOOSE old \in olds : TRUE).val, 0)
  IN  /\ rec # Tombstone
      /\ tx'.tree.cells = {r \in tx.tree.cells : ~(r.at = c /\ r.seq = n)} \cup {row}
      /\ \A k \in Indexes : tx'.tree[k] = (tx.tree[k] \ Old(k)) \cup IndexRows(k, c, rec, n)
      /\ tx'.overlay = IF env.mvcc THEN {r \in tx.overlay : r.at # c} \cup {row} ELSE tx.overlay
      /\ tx'.deleted = tx.deleted \ {c}
      /\ SameFacets /\ SameSeams

CellDeleted(c, old) ==
  LET n == tx.writeSeq
      hidden == {r \in tx.tree.cells : ~(r.at = c /\ r.seq = n)}
  IN  /\ old \in GetCell(InTx, c)
      /\ tx'.tree.cells = IF env.mvcc THEN hidden \cup {[at |-> c, seq |-> n, val |-> Tombstone]} ELSE hidden
      /\ \A k \in Indexes : tx'.tree[k] = tx.tree[k] \ IndexRows(k, c, old.val, old.seq)
      /\ tx'.overlay = {r \in tx.overlay : r.at # c}
      /\ tx'.deleted = IF env.mvcc THEN tx.deleted \cup {c} ELSE tx.deleted
      /\ tx'.tree.facets = WithoutFacets(tx.tree, c, FacetsOf(InTx, c), n)
      /\ SameSeams

FacetPut(c, id, x) ==
  LET n == tx.writeSeq
  IN  /\ tx'.tree.facets = {r \in tx.tree.facets : ~(r.at = c /\ r.id = id /\ r.seq = n)}
                           \cup {[at |-> c, id |-> id, seq |-> n, val |-> x]}
      /\ SameCells /\ SameSeams

SeamPut(rec) ==
  LET n == tx.writeSeq
      replaced == IF env.mvcc THEN {} ELSE GetSeam(InTx, rec.id)
  IN  /\ DOMAIN rec = SeamFields /\ SeamEndpointsMatch(rec)
      /\ tx'.tree.seams = {r \in tx.tree.seams : ~(r.id = rec.id /\ r.seq = n)}
                          \cup {[id |-> rec.id, seq |-> n, val |-> rec]}
      /\ tx'.tree.byCells = tx.tree.byCells
                            \cup {[lo |-> Pair(rec)[1], hi |-> Pair(rec)[2], id |-> rec.id]}
      /\ \A k \in SeamIndexes :
           tx'.tree[k] = (tx.tree[k] \ UNION {SeamIndexRows(k, old.val, 0) : old \in replaced})
                         \cup SeamIndexRows(k, rec, n)
      /\ SameCells /\ SameFacets

EdgesPut == SameCells /\ SameFacets /\ SameSeams

Called ==
  /\ tx.open /\ tx.ops < env.maxOps
  /\ tx'.open /\ DOMAIN tx' = TxFields /\ DOMAIN tx'.tree = TreeFields
  /\ tx'.ops = tx.ops + 1 /\ tx'.readSeq = tx.readSeq /\ tx'.writeSeq = tx.writeSeq
  /\ env' = env /\ db' = db /\ head' = head

Effect ==
  \/ \E c, rec : CellPut(c, rec)
  \/ \E c, old : CellDeleted(c, old)
  \/ \E c, id, x : FacetPut(c, id, x)
  \/ \E rec : SeamPut(rec)
  \/ EdgesPut

(* A change of the tree alone. *)
LEMMA WriteTree ==
  ASSUME TypeOK, tx.open, NEW t, Write(t)
  PROVE  /\ tx'.open /\ DOMAIN tx' = TxFields /\ tx'.tree = t
         /\ tx'.ops = tx.ops + 1 /\ tx'.readSeq = tx.readSeq /\ tx'.writeSeq = tx.writeSeq
         /\ tx'.overlay = tx.overlay /\ tx'.deleted = tx.deleted
  <1>1. DOMAIN tx = TxFields
    BY DEF TypeOK
  <1>2. tx' = [tx EXCEPT !.ops = @ + 1, !.tree = t]
    BY DEF Write
  <1> QED
    BY ONLY <1>1, <1>2, tx.open DEF TxFields

LEMMA PutCellEffect ==
  ASSUME TypeOK, PutCell
  PROVE  Called /\ Effect
  <1>1. PICK call \in Calls("PutCell") :
          tx' = [tx EXCEPT !.ops = @ + 1,
                           !.tree = PutCellTree(@, GetCell(InTx, call.at),
                                      [at |-> call.at, seq |-> tx.writeSeq, val |-> call.rec]),
                           !.overlay = IF env.mvcc
                                       THEN {own \in @ : own.at # call.at}
                                            \cup {[at |-> call.at, seq |-> tx.writeSeq, val |-> call.rec]} ELSE @,
                           !.deleted = @ \ {call.at}]
    BY DEF PutCell
  <1>2. tx.open /\ tx.ops < env.maxOps /\ call \in env.calls /\ call.op = "PutCell"
    BY DEF Calls
  <1>3. call.rec # Tombstone
    BY <1>2, RecordsAssumption DEF TypeOK
  <1> DEFINE c == call.at
             rec == call.rec
             row == [at |-> c, seq |-> tx.writeSeq, val |-> rec]
             olds == GetCell(InTx, c)
             t == PutCellTree(tx.tree, olds, row)
  <1>4. DOMAIN tx = TxFields /\ DOMAIN tx.tree = TreeFields
    BY <1>2 DEF TypeOK, TreeOK
  <1>5. /\ tx'.open /\ DOMAIN tx' = TxFields /\ tx'.tree = t
        /\ tx'.ops = tx.ops + 1 /\ tx'.readSeq = tx.readSeq /\ tx'.writeSeq = tx.writeSeq
        /\ tx'.overlay = IF env.mvcc THEN {r \in tx.overlay : r.at # c} \cup {row} ELSE tx.overlay
        /\ tx'.deleted = tx.deleted \ {c}
    <2> HIDE DEF olds, t
    <2> DEFINE over == IF env.mvcc THEN {r \in tx.overlay : r.at # c} \cup {row} ELSE tx.overlay
    <2>1. tx' = [tx EXCEPT !.ops = tx.ops + 1, !.tree = t, !.overlay = over, !.deleted = tx.deleted \ {c}]
      BY <1>1 DEF t, olds
    <2> HIDE DEF over
    <2>2. /\ tx'.open = tx.open /\ DOMAIN tx' = TxFields /\ tx'.tree = t
          /\ tx'.ops = tx.ops + 1 /\ tx'.readSeq = tx.readSeq /\ tx'.writeSeq = tx.writeSeq
          /\ tx'.overlay = over /\ tx'.deleted = tx.deleted \ {c}
      BY ONLY <2>1, <1>4 DEF TxFields
    <2> QED
      BY <2>2, <1>2 DEF over
  <1>6. row.at = c /\ row.val = rec /\ row.seq = tx.writeSeq
    OBVIOUS
  <1>7. /\ DOMAIN t = TreeFields /\ t.cells = PutVersion(tx.tree.cells, row)
        /\ \A k \in {"facets", "seams", "byCells", "seamSource", "seamTime"} : t[k] = tx.tree[k]
    <2> HIDE DEF row, olds
    <2> QED
      BY <1>4 DEF PutCellTree, WithIndexRows, WithoutIndexRows, TreeFields
  <1> DEFINE Old(k) == IF env.mvcc \/ olds = {} THEN {}
                       ELSE IndexRows(k, c, (CHOOSE old \in olds : TRUE).val, 0)
  <1>8. \A k \in Indexes : t[k] = (tx.tree[k] \ Old(k)) \cup IndexRows(k, c, rec, tx.writeSeq)
    <2> HIDE DEF row, olds
    <2>1. CASE env.mvcc \/ olds = {}
      BY <2>1, <1>4, <1>6 DEF PutCellTree, WithIndexRows, TreeFields, Indexes, IndexRows
    <2>2. CASE ~(env.mvcc \/ olds = {})
      <3> DEFINE old == (CHOOSE old \in olds : TRUE).val
      <3>1. t = WithIndexRows(WithoutIndexRows([tx.tree EXCEPT !.cells = PutVersion(tx.tree.cells, row)],
                                               c, old, 0), c, rec, tx.writeSeq)
        BY <2>2, <1>6 DEF PutCellTree
      <3>2. \A k \in Indexes : Old(k) = IndexRows(k, c, old, 0)
        BY <2>2
      <3> HIDE DEF old, t, Old
      <3> QED
        BY <3>1, <3>2, <1>4 DEF WithIndexRows, WithoutIndexRows, TreeFields, Indexes, IndexRows
    <2> QED
      BY <2>1, <2>2
  <1>9. PutVersion(tx.tree.cells, row) = {r \in tx.tree.cells : ~(r.at = c /\ r.seq = tx.writeSeq)} \cup {row}
    BY PutCellRow
  <1>10. CellPut(c, rec)
    <2> HIDE DEF t, row, olds, Old, c, rec
    <2>1. SameFacets /\ SameSeams
      BY <1>5, <1>7 DEF SameFacets, SameSeams, Same, SeamIndexes
    <2>2. rec # Tombstone
      BY <1>3 DEF rec
    <2> QED
      BY <1>5, <1>7, <1>8, <1>9, <2>1, <2>2 DEF CellPut, row, Old, olds
  <1>11. Called
    BY <1>2, <1>5, <1>7 DEF Called, PutCell
  <1> QED
    BY <1>10, <1>11 DEF Effect

LEMMA DeleteCellEffect ==
  ASSUME TypeOK, DeleteCell
  PROVE  Called /\ Effect
  <1> DEFINE Hidden(c) == {r \in tx.tree.cells : ~(r.at = c /\ r.seq = tx.writeSeq)}
             Cells(c) == IF env.mvcc
                         THEN Hidden(c) \cup {[at |-> c, seq |-> tx.writeSeq, val |-> Tombstone]}
                         ELSE Hidden(c)
             Tree(c, old) == [WithoutIndexRows(tx.tree, c, old.val, old.seq) EXCEPT
                        !.cells = Cells(c),
                        !.facets = WithoutFacets(tx.tree, c, FacetsToDelete(InTx, c), tx.writeSeq),
                        !.edges = {edge \in @ : edge.from # c}]
             Deleted(c) == IF env.mvcc THEN tx.deleted \cup {c} ELSE tx.deleted
  <1>1. PICK call \in Calls("DeleteCell") : \E old \in GetCell(InTx, call.at) :
          tx' = [tx EXCEPT !.ops = @ + 1,
                           !.tree = Tree(call.at, old),
                           !.overlay = {own \in @ : own.at # call.at},
                           !.deleted = Deleted(call.at)]
    BY DEF DeleteCell
  <1> DEFINE c == call.at
  <1>2. PICK old \in GetCell(InTx, c) :
          tx' = [tx EXCEPT !.ops = @ + 1,
                           !.tree = Tree(c, old),
                           !.overlay = {own \in @ : own.at # c},
                           !.deleted = Deleted(c)]
    BY <1>1
  <1>3. tx.open /\ tx.ops < env.maxOps
    BY DEF Calls
  <1>4. DOMAIN tx = TxFields /\ DOMAIN tx.tree = TreeFields
    BY <1>3 DEF TypeOK, TreeOK
  <1> DEFINE t == Tree(c, old)
             gone == Deleted(c)
             over == {own \in tx.overlay : own.at # c}
  <1>5. /\ tx'.open /\ DOMAIN tx' = TxFields /\ tx'.tree = t
        /\ tx'.ops = tx.ops + 1 /\ tx'.readSeq = tx.readSeq /\ tx'.writeSeq = tx.writeSeq
        /\ tx'.overlay = over /\ tx'.deleted = gone
    <2>1. tx' = [tx EXCEPT !.ops = tx.ops + 1, !.tree = t, !.overlay = over, !.deleted = gone]
      BY <1>2
    <2> HIDE DEF t, gone, over
    <2>2. /\ tx'.open = tx.open /\ DOMAIN tx' = TxFields /\ tx'.tree = t
          /\ tx'.ops = tx.ops + 1 /\ tx'.readSeq = tx.readSeq /\ tx'.writeSeq = tx.writeSeq
          /\ tx'.overlay = over /\ tx'.deleted = gone
      BY ONLY <2>1, <1>4 DEF TxFields
    <2> QED
      BY <2>2, <1>3
  <1> DEFINE facets == WithoutFacets(tx.tree, c, FacetsOf(InTx, c), tx.writeSeq)
             cells == Cells(c)
  <1>6. /\ DOMAIN t = TreeFields /\ t.cells = cells /\ t.facets = facets
        /\ \A k \in {"seams", "byCells", "seamSource", "seamTime"} : t[k] = tx.tree[k]
        /\ \A k \in Indexes : t[k] = tx.tree[k] \ IndexRows(k, c, old.val, old.seq)
    <2>1. t = [WithoutIndexRows(tx.tree, c, old.val, old.seq) EXCEPT
                        !.cells = cells, !.facets = facets, !.edges = {edge \in @ : edge.from # c}]
      BY DEF FacetsToDelete
    <2> HIDE DEF t, cells, facets, c
    <2> QED
      BY <2>1, <1>4 DEF WithoutIndexRows, TreeFields, Indexes, IndexRows
  <1>7. CellDeleted(c, old)
    <2> HIDE DEF t, c, facets
    <2>1. SameSeams
      BY <1>5, <1>6 DEF SameSeams, Same, SeamIndexes
    <2> QED
      BY <1>2, <1>5, <1>6, <2>1 DEF CellDeleted, facets
  <1>8. Called
    BY <1>3, <1>5, <1>6 DEF Called, DeleteCell
  <1> QED
    BY <1>7, <1>8 DEF Effect

LEMMA FacetEffect ==
  ASSUME TypeOK, PutFacet \/ UpdateFacet
  PROVE  Called /\ Effect
  <1>1. PICK call : tx.open /\ tx.ops < env.maxOps /\ Write(PutFacetTree(call))
    BY DEF PutFacet, UpdateFacet, Calls
  <1> DEFINE t == PutFacetTree(call)
             rows == PutVersion(tx.tree.facets, [at |-> call.at, id |-> call.id, seq |-> tx.writeSeq,
                                                 val |-> [hash |-> call.hash]])
  <1>2. DOMAIN tx.tree = TreeFields
    BY <1>1 DEF TypeOK, TreeOK
  <1>3. DOMAIN t = TreeFields /\ t.facets = rows /\ \A k \in TreeFields \ {"facets"} : t[k] = tx.tree[k]
    <2>1. t = [tx.tree EXCEPT !.facets = rows]
      BY DEF PutFacetTree
    <2> HIDE DEF t, rows
    <2> QED
      BY <2>1, <1>2 DEF TreeFields
  <1>4. rows = {r \in tx.tree.facets : ~(r.at = call.at /\ r.id = call.id /\ r.seq = tx.writeSeq)}
               \cup {[at |-> call.at, id |-> call.id, seq |-> tx.writeSeq, val |-> [hash |-> call.hash]]}
    BY PutFacetRow
  <1> HIDE DEF t, rows
  <1>5. /\ tx'.open /\ DOMAIN tx' = TxFields /\ tx'.tree = t
        /\ tx'.ops = tx.ops + 1 /\ tx'.readSeq = tx.readSeq /\ tx'.writeSeq = tx.writeSeq
        /\ tx'.overlay = tx.overlay /\ tx'.deleted = tx.deleted
    BY <1>1, WriteTree DEF t
  <1>6. FacetPut(call.at, call.id, [hash |-> call.hash])
    <2>1. SameCells /\ SameSeams
      BY <1>3, <1>5 DEF SameCells, SameSeams, Same, TreeFields, Indexes, SeamIndexes
    <2> QED
      BY <1>3, <1>4, <1>5, <2>1 DEF FacetPut
  <1>7. Called
    BY <1>1, <1>3, <1>5 DEF Called, PutFacet, UpdateFacet
  <1> QED
    BY <1>6, <1>7 DEF Effect

LEMMA EdgeEffect ==
  ASSUME TypeOK, PutEdge
  PROVE  Called /\ Effect
  <1> DEFINE Tree(call) ==
        [tx.tree EXCEPT !.edges =
           {edge \in @ : ~(edge.from = call.edge.from /\ edge.to = call.edge.to
                           /\ edge.relation = call.edge.relation)} \cup {call.edge}]
  <1>1. PICK call : tx.open /\ tx.ops < env.maxOps /\ Write(Tree(call))
    BY DEF PutEdge, Calls
  <1> DEFINE t == Tree(call)
             rows == {edge \in tx.tree.edges :
                        ~(edge.from = call.edge.from /\ edge.to = call.edge.to
                          /\ edge.relation = call.edge.relation)} \cup {call.edge}
  <1>2. DOMAIN tx.tree = TreeFields
    BY <1>1 DEF TypeOK, TreeOK
  <1>3. DOMAIN t = TreeFields /\ \A k \in TreeFields \ {"edges"} : t[k] = tx.tree[k]
    <2>1. t = [tx.tree EXCEPT !.edges = rows]
      OBVIOUS
    <2> HIDE DEF t, rows
    <2> QED
      BY <2>1, <1>2 DEF TreeFields
  <1> HIDE DEF t, rows
  <1>4. /\ tx'.open /\ DOMAIN tx' = TxFields /\ tx'.tree = t
        /\ tx'.ops = tx.ops + 1 /\ tx'.readSeq = tx.readSeq /\ tx'.writeSeq = tx.writeSeq
        /\ tx'.overlay = tx.overlay /\ tx'.deleted = tx.deleted
    BY <1>1, WriteTree DEF t
  <1>5. EdgesPut
    BY <1>3, <1>4 DEF EdgesPut, SameCells, SameFacets, SameSeams, Same, TreeFields, Indexes, SeamIndexes
  <1>6. Called
    BY <1>1, <1>3, <1>4 DEF Called, PutEdge
  <1> QED
    BY <1>5, <1>6 DEF Effect

LEMMA SeamWritten ==
  ASSUME TypeOK, tx.open, NEW rec, Write(PutSeamTree(rec)),
         DOMAIN rec = SeamFields, SeamEndpointsMatch(rec)
  PROVE  /\ SeamPut(rec)
         /\ tx'.open /\ DOMAIN tx' = TxFields /\ DOMAIN tx'.tree = TreeFields
         /\ tx'.ops = tx.ops + 1 /\ tx'.readSeq = tx.readSeq /\ tx'.writeSeq = tx.writeSeq
  <1> DEFINE t == PutSeamTree(rec)
             n == tx.writeSeq
             replaced == IF env.mvcc THEN {} ELSE GetSeam(InTx, rec.id)
             rows == PutVersion(tx.tree.seams, [id |-> rec.id, seq |-> n, val |-> rec])
             pairs == tx.tree.byCells \cup {[lo |-> Pair(rec)[1], hi |-> Pair(rec)[2], id |-> rec.id]}
             sources == (tx.tree.seamSource \ UNION {SeamSourceRows(old.val, 0) : old \in replaced})
                        \cup SeamSourceRows(rec, n)
             times == (tx.tree.seamTime \ UNION {SeamTimeRows(old.val, 0) : old \in replaced})
                      \cup SeamTimeRows(rec, n)
  <1>1. DOMAIN tx.tree = TreeFields
    BY DEF TypeOK, TreeOK
  <1>2. /\ DOMAIN t = TreeFields /\ t.seams = rows /\ t.byCells = pairs
        /\ t.seamSource = sources /\ t.seamTime = times
        /\ \A k \in {"cells", "facets"} \cup Indexes : t[k] = tx.tree[k]
    <2>1. t = [tx.tree EXCEPT !.seams = rows, !.byCells = pairs, !.seamSource = sources, !.seamTime = times]
      BY DEF PutSeamTree, Pair
    <2> HIDE DEF t, rows, pairs, sources, times
    <2> QED
      BY <2>1, <1>1 DEF TreeFields, Indexes
  <1>3. \A k \in SeamIndexes :
          t[k] = (tx.tree[k] \ UNION {SeamIndexRows(k, old.val, 0) : old \in replaced})
                 \cup SeamIndexRows(k, rec, n)
    <2> HIDE DEF t, replaced, n
    <2> QED
      BY <1>2 DEF SeamIndexes, SeamIndexRows
  <1>4. rows = {r \in tx.tree.seams : ~(r.id = rec.id /\ r.seq = n)} \cup {[id |-> rec.id, seq |-> n, val |-> rec]}
    BY PutSeamRow
  <1> HIDE DEF t, rows
  <1>5. /\ tx'.open /\ DOMAIN tx' = TxFields /\ tx'.tree = t
        /\ tx'.ops = tx.ops + 1 /\ tx'.readSeq = tx.readSeq /\ tx'.writeSeq = tx.writeSeq
        /\ tx'.overlay = tx.overlay /\ tx'.deleted = tx.deleted
    BY WriteTree DEF t
  <1>6. SameCells /\ SameFacets
    BY <1>2, <1>5 DEF SameCells, SameFacets, Same
  <1> QED
    BY <1>2, <1>3, <1>4, <1>5, <1>6 DEF SeamPut

(* A seam under an identifier not in the tree, and a rewritten one, fit    *)
(* the endpoints the transaction sees.                                     *)
LEMMA NewSeamFits ==
  ASSUME NEW id \in FreshIDs, NEW a, NEW b, NEW type
  PROVE  /\ DOMAIN NewSeam(id, a, b, type) = SeamFields
         /\ SeamEndpointsMatch(NewSeam(id, a, b, type))
  <1>1. NewSeam(id, a, b, type).id = id
    BY DEF NewSeam
  <1>2. GetSeam(InTx, id) = {}
    BY DEF GetSeam, InTx, Visible, FreshIDs
  <1> QED
    BY <1>1, <1>2 DEF NewSeam, SeamFields, SeamEndpointsMatch

LEMMA ResolvedSeamFits ==
  ASSUME TypeOK, tx.open, NEW id, NEW old \in GetSeam(InTx, id), NEW status
  PROVE  /\ DOMAIN [old.val EXCEPT !.status = status] = SeamFields
         /\ SeamEndpointsMatch([old.val EXCEPT !.status = status])
  <1> DEFINE rec == [old.val EXCEPT !.status = status]
  <1>1. /\ old \in tx.tree.seams /\ old.id = id
        /\ \A v \in tx.tree.seams : v.id = id /\ v.seq <= tx.readSeq => v.seq <= old.seq
        /\ old.seq <= tx.readSeq
    BY DEF GetSeam, InTx, Visible
  <1>2. TreeOK(tx.tree, tx.writeSeq)
    BY DEF TypeOK
  <1>3. DOMAIN old.val = SeamFields /\ old.val.id = id
    BY <1>1, <1>2 DEF TreeOK
  <1>4. DOMAIN rec = SeamFields /\ rec.id = id /\ rec.a = old.val.a /\ rec.b = old.val.b
    BY ONLY <1>3 DEF SeamFields
  <1> HIDE DEF rec
  <1>5. ASSUME NEW v \in GetSeam(InTx, id)
        PROVE  v = old
    <2>1. v \in tx.tree.seams /\ v.id = id /\ v.seq <= tx.readSeq /\ old.seq <= v.seq
      BY <1>1 DEF GetSeam, InTx, Visible
    <2>2. v.seq \in Nat /\ old.seq \in Nat /\ v.seq <= old.seq
      BY <1>1, <2>1, <1>2 DEF TreeOK, Numbered
    <2>3. v.seq = old.seq
      BY <2>1, <2>2
    <2> QED
      BY <1>1, <1>2, <2>1, <2>3 DEF TreeOK, SeamsKeyed
  <1>6. SeamEndpointsMatch(rec)
    BY <1>4, <1>5 DEF SeamEndpointsMatch
  <1> QED
    BY <1>4, <1>6 DEF rec

LEMMA SeamEffect ==
  ASSUME TypeOK, PutSeam \/ MarkConflict \/ MarkSupersedes \/ ResolveSeam
  PROVE  Called /\ Effect
  <1>1. /\ tx.open /\ tx.ops < env.maxOps
        /\ \E rec : DOMAIN rec = SeamFields /\ SeamEndpointsMatch(rec) /\ Write(PutSeamTree(rec))
    <2>1. CASE PutSeam
      <3>1. PICK call \in Calls("PutSeam") : SeamEndpointsMatch(call.rec) /\ Write(PutSeamTree(call.rec))
        BY <2>1 DEF PutSeam
      <3>2. tx.open /\ tx.ops < env.maxOps /\ call \in env.calls /\ call.op = "PutSeam"
        BY DEF Calls
      <3>3. DOMAIN call.rec = SeamFields
        BY <3>2, RecordsAssumption DEF TypeOK
      <3> QED
        BY <3>1, <3>2, <3>3
    <2>2. CASE MarkConflict
      <3>1. PICK call \in Calls("MarkConflict") : \E id \in FreshIDs :
              Write(PutSeamTree(NewSeam(id, CanonicalCellPair(call.a, call.b)[1],
                                        CanonicalCellPair(call.a, call.b)[2], "mark_conflict")))
        BY <2>2 DEF MarkConflict
      <3>2. tx.open /\ tx.ops < env.maxOps
        BY DEF Calls
      <3> QED
        BY <3>1, <3>2, NewSeamFits
    <2>3. CASE MarkSupersedes
      <3>1. PICK call \in Calls("MarkSupersedes") : \E id \in FreshIDs :
              Write(PutSeamTree(NewSeam(id, call.superseded, call.superseder, "supersedes")))
        BY <2>3 DEF MarkSupersedes
      <3>2. tx.open /\ tx.ops < env.maxOps
        BY DEF Calls
      <3> QED
        BY <3>1, <3>2, NewSeamFits
    <2>4. CASE ResolveSeam
      <3>1. PICK call \in Calls("ResolveSeam") : \E old \in GetSeam(InTx, call.id) :
              Write(PutSeamTree([old.val EXCEPT !.status = call.status]))
        BY <2>4 DEF ResolveSeam
      <3>2. tx.open /\ tx.ops < env.maxOps
        BY DEF Calls
      <3>3. PICK old \in GetSeam(InTx, call.id) : Write(PutSeamTree([old.val EXCEPT !.status = call.status]))
        BY <3>1
      <3> DEFINE rec == [old.val EXCEPT !.status = call.status]
      <3>4. DOMAIN rec = SeamFields /\ SeamEndpointsMatch(rec)
        BY <3>2, ResolvedSeamFits
      <3>5. Write(PutSeamTree(rec))
        BY <3>3
      <3> HIDE DEF rec
      <3> QED
        BY <3>2, <3>4, <3>5
    <2> QED
      BY <2>1, <2>2, <2>3, <2>4
  <1>2. PICK rec : DOMAIN rec = SeamFields /\ SeamEndpointsMatch(rec) /\ Write(PutSeamTree(rec))
    BY <1>1
  <1>3. /\ SeamPut(rec)
        /\ tx'.open /\ DOMAIN tx' = TxFields /\ DOMAIN tx'.tree = TreeFields
        /\ tx'.ops = tx.ops + 1 /\ tx'.readSeq = tx.readSeq /\ tx'.writeSeq = tx.writeSeq
    BY <1>1, <1>2, SeamWritten
  <1>4. env' = env /\ db' = db /\ head' = head
    BY DEF PutSeam, MarkConflict, MarkSupersedes, ResolveSeam
  <1> QED
    BY <1>1, <1>3, <1>4 DEF Called, Effect

Call ==
  \/ PutCell \/ DeleteCell \/ PutFacet \/ UpdateFacet \/ PutEdge
  \/ PutSeam \/ MarkConflict \/ MarkSupersedes \/ ResolveSeam

LEMMA CallEffect ==
  ASSUME TypeOK, Call
  PROVE  Called /\ Effect
  BY PutCellEffect, DeleteCellEffect, FacetEffect, EdgeEffect, SeamEffect DEF Call

-----------------------------------------------------------------------------
(* Types. *)

LEMMA TreeGrows ==
  ASSUME NEW t, NEW m \in Nat, NEW n \in Nat, m <= n, TreeOK(t, m)
  PROVE  TreeOK(t, n)
  BY DEF TreeOK, Numbered

LEMMA WriteSeqNat ==
  ASSUME TypeOK, tx.open
  PROVE  /\ tx.readSeq \in Nat /\ tx.writeSeq \in Nat /\ head \in Nat /\ env.mvcc \in BOOLEAN
         /\ env.mvcc => tx.readSeq = head /\ tx.writeSeq = head + 1
         /\ ~env.mvcc => tx.readSeq = 0 /\ tx.writeSeq = 0
  BY NumberNat, EnvOK DEF TypeOK

LEMMA CellRowsOK ==
  ASSUME NEW rows, NEW n \in Nat, NEW c, NEW x, NEW new, Numbered(rows, n), CellsKeyed(rows),
         new \subseteq {r \in rows : ~(r.at = c /\ r.seq = n)} \cup {[at |-> c, seq |-> n, val |-> x]}
  PROVE  Numbered(new, n) /\ CellsKeyed(new)
  BY DEF Numbered, CellsKeyed

LEMMA EffectType ==
  ASSUME TypeOK, Called, Effect
  PROVE  TreeOK(tx.tree, tx.writeSeq)'
  <1> DEFINE n == tx.writeSeq
             t == tx.tree
             u == tx'.tree
  <1>1. TreeOK(t, n) /\ n \in Nat
    BY WriteSeqNat DEF Called, TypeOK
  <1>2. DOMAIN u = TreeFields /\ tx'.writeSeq = n
    BY DEF Called
  <1> HIDE DEF n, t, u
  <1>3. SameCells => u.cells = t.cells
    BY DEF SameCells, Same, t, u
  <1>4. SameFacets => u.facets = t.facets
    BY DEF SameFacets, Same, t, u
  <1>5. SameSeams => u.seams = t.seams
    BY DEF SameSeams, Same, t, u
  <1>6. Numbered(u.cells, n) /\ CellsKeyed(u.cells)
    <2>1. CASE SameCells
      BY <2>1, <1>1, <1>3 DEF TreeOK
    <2>2. ASSUME NEW c, NEW rec, CellPut(c, rec)
          PROVE  Numbered(u.cells, n) /\ CellsKeyed(u.cells)
      <3>1. u.cells \subseteq {r \in t.cells : ~(r.at = c /\ r.seq = n)} \cup {[at |-> c, seq |-> n, val |-> rec]}
        BY <2>2 DEF CellPut, n, t, u
      <3> QED
        BY <3>1, <1>1, CellRowsOK DEF TreeOK
    <2>3. ASSUME NEW c, NEW old, CellDeleted(c, old)
          PROVE  Numbered(u.cells, n) /\ CellsKeyed(u.cells)
      <3>1. u.cells \subseteq {r \in t.cells : ~(r.at = c /\ r.seq = n)}
                              \cup {[at |-> c, seq |-> n, val |-> Tombstone]}
        BY <2>3 DEF CellDeleted, n, t, u
      <3> QED
        BY <3>1, <1>1, CellRowsOK DEF TreeOK
    <2> QED
      BY <2>1, <2>2, <2>3 DEF Effect, FacetPut, SeamPut, EdgesPut
  <1>7. Numbered(u.facets, n)
    <2>1. CASE SameFacets
      BY <2>1, <1>1, <1>4 DEF TreeOK
    <2>2. ASSUME NEW c, NEW old, CellDeleted(c, old)
          PROVE  Numbered(u.facets, n)
      <3>1. u.facets = WithoutFacets(t, c, FacetsOf(InTx, c), n)
        BY <2>2 DEF CellDeleted, n, t, u
      <3> QED
        BY <3>1, <1>1 DEF WithoutFacets, TreeOK, Numbered
    <2>3. ASSUME NEW c, NEW id, NEW x, FacetPut(c, id, x)
          PROVE  Numbered(u.facets, n)
      <3>1. u.facets = {r \in t.facets : ~(r.at = c /\ r.id = id /\ r.seq = n)}
                       \cup {[at |-> c, id |-> id, seq |-> n, val |-> x]}
        BY <2>3 DEF FacetPut, n, t, u
      <3> QED
        BY <3>1, <1>1 DEF TreeOK, Numbered
    <2> QED
      BY <2>1, <2>2, <2>3 DEF Effect, CellPut, SeamPut, EdgesPut
  <1>8. /\ Numbered(u.seams, n) /\ SeamsKeyed(u.seams)
        /\ \A s \in u.seams : DOMAIN s.val = SeamFields /\ s.val.id = s.id
    <2>1. CASE SameSeams
      BY <2>1, <1>1, <1>5 DEF TreeOK
    <2>2. ASSUME NEW rec, SeamPut(rec)
          PROVE  /\ Numbered(u.seams, n) /\ SeamsKeyed(u.seams)
                 /\ \A s \in u.seams : DOMAIN s.val = SeamFields /\ s.val.id = s.id
      <3>1. /\ u.seams = {r \in t.seams : ~(r.id = rec.id /\ r.seq = n)}
                         \cup {[id |-> rec.id, seq |-> n, val |-> rec]}
            /\ DOMAIN rec = SeamFields
        BY <2>2 DEF SeamPut, n, t, u
      <3> QED
        BY <3>1, <1>1 DEF TreeOK, Numbered, SeamsKeyed
    <2> QED
      BY <2>1, <2>2 DEF Effect, CellPut, CellDeleted, FacetPut, EdgesPut
  <1> QED
    BY <1>2, <1>6, <1>7, <1>8 DEF TreeOK, u

LEMMA TypeInit == Init => TypeOK
  <1> SUFFICES ASSUME Init PROVE TypeOK
    OBVIOUS
  <1>1. TreeOK(EmptyTree, Number(0))
    BY DEF EmptyTree, TreeOK, TreeFields, Numbered, CellsKeyed, SeamsKeyed
  <1>2. ~tx.open
    BY DEF Init, NoTx
  <1> QED
    BY <1>1, <1>2 DEF Init, TypeOK

LEMMA TypeStep == TypeOK /\ [Next]_vars => TypeOK'
  <1> SUFFICES ASSUME TypeOK, [Next]_vars PROVE TypeOK'
    OBVIOUS
  <1>1. CASE Begin
    <2>1. /\ tx'.open /\ DOMAIN tx' = TxFields /\ tx'.ops = 0 /\ tx'.tree = db
          /\ tx'.readSeq = Number(head) /\ tx'.writeSeq = Number(head + 1)
          /\ env' = env /\ db' = db /\ head' = head
      BY <1>1 DEF Begin, TxFields, Number
    <2>2. TreeOK(db, Number(head)) /\ TreeOK(db, Number(head + 1))
      BY NumberNat, TreeGrows DEF TypeOK
    <2> QED
      BY <2>1, <2>2 DEF TypeOK, Number
  <1>2. CASE Commit
    <2>1. tx.open /\ db' = tx.tree /\ head' = head + 1 /\ tx' = NoTx /\ env' = env
      BY <1>2 DEF Commit
    <2>2. ~tx'.open
      BY <2>1 DEF NoTx
    <2>3. TreeOK(db', Number(head)')
      BY <2>1 DEF TypeOK, Number
    <2> QED
      BY <2>1, <2>2, <2>3 DEF TypeOK
  <1>3. CASE Rollback
    <2>1. tx' = NoTx /\ env' = env /\ db' = db /\ head' = head
      BY <1>3 DEF Rollback
    <2>2. ~tx'.open
      BY <2>1 DEF NoTx
    <2> QED
      BY <2>1, <2>2 DEF TypeOK, Number
  <1>4. CASE Call
    <2>1. Called /\ Effect
      BY <1>4, CallEffect
    <2>2. TreeOK(tx.tree, tx.writeSeq)'
      BY <2>1, EffectType
    <2> QED
      BY <2>1, <2>2 DEF Called, TypeOK, Number
  <1>5. CASE UNCHANGED vars
    BY <1>5 DEF vars, TypeOK, Number
  <1> QED
    BY <1>1, <1>2, <1>3, <1>4, <1>5 DEF Next, Call

-----------------------------------------------------------------------------
(* Seams. *)

(* Of the versions a reader may see one is the newest. *)
LEMMA NewestVersion ==
  ASSUME NEW rows, NEW m \in Nat, \A r \in rows : r.seq \in Nat, \E r \in rows : r.seq <= m
  PROVE  \E r \in rows : r.seq <= m /\ \A s \in rows : s.seq <= m => s.seq <= r.seq
  <1> DEFINE below == {r \in rows : r.seq <= m}
             Gaps == {m - r.seq : r \in below}
  <1>1. Gaps \subseteq Nat /\ Gaps # {}
    <2>1. \A r \in below : r.seq \in Nat /\ r.seq <= m
      OBVIOUS
    <2>2. below # {}
      OBVIOUS
    <2> HIDE DEF below
    <2>3. \A r \in below : m - r.seq \in Nat
      BY <2>1
    <2> QED
      BY <2>2, <2>3
  <1>2. PICK gap \in Gaps : \A h \in Gaps : ~(<<h, gap>> \in OpToRel(<, Nat))
    BY <1>1, NatLessThanWellFounded, WFMin
  <1>3. PICK r \in rows : r.seq <= m /\ gap = m - r.seq
    OBVIOUS
  <1>4. ASSUME NEW s \in rows, s.seq <= m
        PROVE  s.seq <= r.seq
    <2>1. ~(<<m - s.seq, gap>> \in OpToRel(<, Nat))
      BY <1>2, <1>4
    <2>2. m - s.seq \in Nat /\ gap \in Nat
      BY <1>3, <1>4
    <2>3. ~(m - s.seq < gap)
      BY <2>1, <2>2 DEF OpToRel
    <2> QED
      BY <1>3, <2>3
  <1> QED
    BY <1>3, <1>4

LEMMA SeamRowsStep ==
  ASSUME TypeOK, Called, Effect, SeamRows(tx.tree)
  PROVE  SeamRows(tx.tree)'
  <1> DEFINE n == tx.writeSeq
             t == tx.tree
             u == tx'.tree
  <1>1. TreeOK(t, n) /\ n \in Nat
    BY WriteSeqNat DEF Called, TypeOK
  <1> HIDE DEF n, t, u
  <1>2. CASE SameSeams
    <2>1. u.seams = t.seams /\ u.byCells = t.byCells /\ \A k \in SeamIndexes : u[k] = t[k]
      BY <1>2 DEF SameSeams, Same, t, u
    <2> QED
      BY <2>1 DEF SeamRows, t, u
  <1>3. ASSUME NEW rec, SeamPut(rec)
        PROVE  SeamRows(u)
    <2> DEFINE replaced == IF env.mvcc THEN {} ELSE GetSeam(InTx, rec.id)
               row == [id |-> rec.id, seq |-> n, val |-> rec]
               pair == [lo |-> Pair(rec)[1], hi |-> Pair(rec)[2], id |-> rec.id]
    <2>1. /\ u.seams = {r \in t.seams : ~(r.id = rec.id /\ r.seq = n)} \cup {row}
          /\ u.byCells = t.byCells \cup {pair}
          /\ \A k \in SeamIndexes :
               u[k] = (t[k] \ UNION {SeamIndexRows(k, old.val, 0) : old \in replaced})
                      \cup SeamIndexRows(k, rec, n)
      BY <1>3 DEF SeamPut, n, t, u
    <2>2. \A old \in replaced : old.val.id = rec.id
      <3>1. \A old \in replaced : old \in t.seams /\ old.id = rec.id
        BY DEF GetSeam, InTx, Visible, t
      <3> QED
        BY <3>1, <1>1 DEF TreeOK
    <2>3. row.id = rec.id /\ row.seq = n /\ row.val = rec
      OBVIOUS
    <2>4. ASSUME NEW s \in u.seams
          PROVE  /\ [lo |-> Pair(s.val)[1], hi |-> Pair(s.val)[2], id |-> s.id] \in u.byCells
                 /\ \A k \in SeamIndexes : SeamIndexRows(k, s.val, s.seq) \subseteq u[k]
      <3>1. CASE s = row
        <4> HIDE DEF row
        <4>1. \A k \in SeamIndexes : SeamIndexRows(k, s.val, s.seq) \subseteq u[k]
          BY <2>1, <2>3, <3>1
        <4>2. [lo |-> Pair(s.val)[1], hi |-> Pair(s.val)[2], id |-> s.id] = pair
          BY <2>3, <3>1
        <4> QED
          BY <2>1, <4>1, <4>2
      <3>2. CASE s # row
        <4> HIDE DEF row
        <4>1. s \in t.seams /\ ~(s.id = rec.id /\ s.seq = n)
          BY <2>1, <3>2
        <4>2. /\ [lo |-> Pair(s.val)[1], hi |-> Pair(s.val)[2], id |-> s.id] \in t.byCells
              /\ \A k \in SeamIndexes : SeamIndexRows(k, s.val, s.seq) \subseteq t[k]
          BY <4>1 DEF SeamRows, t
        <4>3. ASSUME NEW k \in SeamIndexes, NEW r \in SeamIndexRows(k, s.val, s.seq)
              PROVE  r \in u[k]
          <5>1. r \in t[k]
            BY <4>2
          <5>2. r.id = s.val.id /\ s.val.id = s.id
            BY SeamIndexRowsOf, <4>1, <1>1 DEF TreeOK
          <5>3. CASE env.mvcc
            BY <5>1, <5>3, <2>1
          <5>4. CASE ~env.mvcc
            <6>1. s.seq = 0 /\ n = 0
              BY <5>4, <1>1, <4>1, WriteSeqNat DEF TreeOK, Numbered, Called, n
            <6>2. s.id # rec.id
              BY <6>1, <4>1
            <6>3. \A old \in replaced : r \notin SeamIndexRows(k, old.val, 0)
              BY <6>2, <5>2, <2>2, SeamIndexRowsOf
            <6> HIDE DEF replaced
            <6> QED
              BY <5>1, <6>3, <2>1
          <5> QED
            BY <5>3, <5>4
        <4> QED
          BY <4>2, <4>3, <2>1
      <3> QED
        BY <3>1, <3>2
    <2> QED
      BY <2>4 DEF SeamRows
  <1> QED
    BY <1>2, <1>3 DEF Effect, CellPut, CellDeleted, FacetPut, EdgesPut, u

LEMMA OnePairStep ==
  ASSUME TypeOK, Called, Effect, OnePair(tx.tree)
  PROVE  OnePair(tx.tree)'
  <1> DEFINE n == tx.writeSeq
             m == tx.readSeq
             t == tx.tree
             u == tx'.tree
  <1>1. TreeOK(t, n) /\ n \in Nat /\ m \in Nat /\ (n = m \/ n = m + 1)
    BY WriteSeqNat DEF Called, TypeOK
  <1> HIDE DEF n, m, t, u
  <1>2. CASE SameSeams
    <2>1. u.seams = t.seams
      BY <1>2 DEF SameSeams, Same, t, u
    <2> QED
      BY <2>1 DEF OnePair, t, u
  <1>3. ASSUME NEW rec, SeamPut(rec)
        PROVE  OnePair(u)
    <2> DEFINE row == [id |-> rec.id, seq |-> n, val |-> rec]
    <2>1. /\ u.seams = {r \in t.seams : ~(r.id = rec.id /\ r.seq = n)} \cup {row}
          /\ SeamEndpointsMatch(rec)
      BY <1>3 DEF SeamPut, n, t, u
    <2>2. row.id = rec.id /\ row.seq = n /\ row.val = rec
      OBVIOUS
    <2> HIDE DEF row
    (* The versions from before: the transaction sees the newest. *)
    <2>3. ASSUME NEW v \in t.seams, v.id = rec.id, ~(v.seq = n)
          PROVE  Pair(v.val) = Pair(rec)
      <3> DEFINE rows == {r \in t.seams : r.id = rec.id}
      <3>1. \A r \in rows : r.seq \in Nat
        BY <1>1 DEF TreeOK, Numbered
      <3>2. v \in rows /\ v.seq <= m
        BY <2>3, <1>1 DEF TreeOK, Numbered
      <3>3. \E r \in rows : r.seq <= m /\ \A s \in rows : s.seq <= m => s.seq <= r.seq
        <4> HIDE DEF rows
        <4> QED
          BY <3>1, <3>2, <1>1, NewestVersion
      <3>4. PICK r \in rows : r.seq <= m /\ \A s \in rows : s.seq <= m => s.seq <= r.seq
        BY <3>3
      <3>5. r.val # Tombstone
        <4>1. DOMAIN r.val = SeamFields
          BY <1>1 DEF TreeOK
        <4> QED
          BY <4>1 DEF SeamFields, Tombstone
      <3>6. r \in GetSeam(InTx, rec.id)
        BY <3>4, <3>5 DEF GetSeam, Visible, InTx, t, m
      <3>7. Pair(r.val) = Pair(rec)
        BY <3>6, <2>1 DEF SeamEndpointsMatch, Pair
      <3> QED
        BY <3>7, <3>4, <2>3 DEF OnePair, t
    <2>4. \A v \in u.seams : v.id = rec.id => Pair(v.val) = Pair(rec)
      BY <2>1, <2>2, <2>3
    <2>5. \A v \in u.seams : v.id # rec.id => v \in t.seams
      BY <2>1, <2>2
    <2> QED
      BY <2>4, <2>5 DEF OnePair, t
  <1> QED
    BY <1>2, <1>3 DEF Effect, CellPut, CellDeleted, FacetPut, EdgesPut, u

SeamsInv == SeamsIndexed /\ SameEndpoints

LEMMA SeamsInit == Init => SeamsInv
  BY DEF Init, SeamsInv, SeamsIndexed, SameEndpoints, SeamRows, OnePair, EmptyTree, NoTx

LEMMA SeamsStep == TypeOK /\ SeamsInv /\ [Next]_vars => SeamsInv'
  <1> SUFFICES ASSUME TypeOK, SeamsInv, [Next]_vars PROVE SeamsInv'
    OBVIOUS
  <1> USE DEF SeamsInv, SeamsIndexed, SameEndpoints
  <1>1. CASE Begin
    <2>1. tx'.tree = db /\ db' = db
      BY <1>1 DEF Begin
    <2> QED
      BY <2>1
  <1>2. CASE Commit
    <2>1. tx.open /\ db' = tx.tree /\ tx' = NoTx
      BY <1>2 DEF Commit
    <2> QED
      BY <2>1 DEF NoTx
  <1>3. CASE Rollback
    <2>1. tx' = NoTx /\ db' = db
      BY <1>3 DEF Rollback
    <2> QED
      BY <2>1 DEF NoTx
  <1>4. CASE Call
    <2>1. Called /\ Effect
      BY <1>4, CallEffect
    <2>2. tx.open /\ tx'.open /\ db' = db
      BY <2>1 DEF Called
    <2>3. SeamRows(tx.tree)' /\ OnePair(tx.tree)'
      BY <2>1, <2>2, SeamRowsStep, OnePairStep
    <2> QED
      BY <2>2, <2>3
  <1>5. CASE UNCHANGED vars
    BY <1>5 DEF vars
  <1> QED
    BY <1>1, <1>2, <1>3, <1>4, <1>5 DEF Next, Call

-----------------------------------------------------------------------------
(* Cells. *)

LEMMA OwnStep ==
  ASSUME TypeOK, OwnCells, PlainCells, Called, Effect
  PROVE  (OwnCells /\ PlainCells)'
  <1> DEFINE n == tx.writeSeq
             t == tx.tree
             u == tx'.tree
             over == tx.overlay
             del == tx.deleted
             Tomb(c) == [at |-> c, seq |-> n, val |-> Tombstone]
             Own(cells, o2, d2) ==
               /\ \A r \in cells : r.seq = n => IF r.val = Tombstone THEN r.at \in d2 ELSE r \in o2
               /\ \A own \in o2 : own \in cells /\ own.seq = n /\ own.val # Tombstone /\ own.at \notin d2
               /\ \A c \in d2 : Tomb(c) \in cells
               /\ {r \in cells : r.seq <= head} = db.cells
             Plain(cells, o2, d2) ==
               o2 = {} /\ d2 = {} /\ \A r \in cells : r.val # Tombstone
  <1>1. /\ n \in Nat /\ head \in Nat
        /\ env.mvcc => n = head + 1
        /\ tx.open /\ tx'.open /\ env' = env /\ db' = db /\ head' = head /\ tx'.writeSeq = n
    BY WriteSeqNat DEF Called
  <1>2. /\ env.mvcc => Own(t.cells, over, del)
        /\ ~env.mvcc => Plain(t.cells, over, del)
    BY <1>1 DEF OwnCells, PlainCells
  <1> HIDE DEF n, t, u, over, del
  <1>3. SUFFICES /\ env.mvcc => Own(u.cells, tx'.overlay, tx'.deleted)
                 /\ ~env.mvcc => Plain(u.cells, tx'.overlay, tx'.deleted)
    <2>1. (PlainCells)' <=> (~env.mvcc => /\ \A r \in db.cells : r.val # Tombstone
                                         /\ Plain(u.cells, tx'.overlay, tx'.deleted))
      BY <1>1 DEF PlainCells, u
    <2>2. (OwnCells)' <=> (env.mvcc => Own(u.cells, tx'.overlay, tx'.deleted))
      BY <1>1 DEF OwnCells, u
    <2> QED
      BY <2>1, <2>2 DEF PlainCells
  <1>4. CASE SameCells
    <2>1. u.cells = t.cells /\ tx'.overlay = over /\ tx'.deleted = del
      BY <1>4 DEF SameCells, Same, t, u, over, del
    <2> QED
      BY <1>2, <2>1
  <1>5. ASSUME NEW c, NEW rec, CellPut(c, rec)
        PROVE  /\ env.mvcc => Own(u.cells, tx'.overlay, tx'.deleted)
               /\ ~env.mvcc => Plain(u.cells, tx'.overlay, tx'.deleted)
    <2> DEFINE row == [at |-> c, seq |-> n, val |-> rec]
    <2>1. /\ u.cells = {r \in t.cells : ~(r.at = c /\ r.seq = n)} \cup {row}
          /\ tx'.overlay = IF env.mvcc THEN {r \in over : r.at # c} \cup {row} ELSE over
          /\ tx'.deleted = del \ {c}
          /\ rec # Tombstone
      BY <1>5 DEF CellPut, n, t, u, over, del
    <2>2. row.at = c /\ row.seq = n /\ row.val = rec
      OBVIOUS
    <2> HIDE DEF row
    <2>3. CASE env.mvcc
      <3>1. Own(t.cells, over, del) /\ tx'.overlay = {r \in over : r.at # c} \cup {row}
        BY <2>3, <1>2, <2>1
      <3>2. \A r \in u.cells : r.seq = n =>
              IF r.val = Tombstone THEN r.at \in tx'.deleted ELSE r \in tx'.overlay
        BY <3>1, <2>1, <2>2
      <3>3. \A own \in tx'.overlay :
              own \in u.cells /\ own.seq = n /\ own.val # Tombstone /\ own.at \notin tx'.deleted
        BY <3>1, <2>1, <2>2
      <3>4. \A d \in tx'.deleted : Tomb(d) \in u.cells
        <4>1. \A d : Tomb(d).at = d
          OBVIOUS
        <4> HIDE DEF Tomb
        <4> QED
          BY <3>1, <2>1, <4>1
      <3>5. {r \in u.cells : r.seq <= head} = {r \in t.cells : r.seq <= head}
        <4>1. ~(n <= head)
          BY <2>3, <1>1
        <4>2. \A r : (r \in u.cells /\ r.seq <= head) <=> (r \in t.cells /\ r.seq <= head)
          BY <4>1, <2>1, <2>2
        <4> QED
          BY <4>2
      <3> QED
        BY <2>3, <3>1, <3>2, <3>3, <3>4, <3>5
    <2>4. CASE ~env.mvcc
      BY <2>4, <1>2, <2>1, <2>2
    <2> QED
      BY <2>3, <2>4
  <1>6. ASSUME NEW c, NEW old, CellDeleted(c, old)
        PROVE  /\ env.mvcc => Own(u.cells, tx'.overlay, tx'.deleted)
               /\ ~env.mvcc => Plain(u.cells, tx'.overlay, tx'.deleted)
    <2> DEFINE hidden == {r \in t.cells : ~(r.at = c /\ r.seq = n)}
    <2>1. /\ u.cells = IF env.mvcc THEN hidden \cup {Tomb(c)} ELSE hidden
          /\ tx'.overlay = {r \in over : r.at # c}
          /\ tx'.deleted = IF env.mvcc THEN del \cup {c} ELSE del
      BY <1>6 DEF CellDeleted, n, t, u, over, del
    <2>2. \A d : Tomb(d).at = d /\ Tomb(d).seq = n /\ Tomb(d).val = Tombstone
      OBVIOUS
    <2> HIDE DEF Tomb
    <2>3. CASE env.mvcc
      <3>1. /\ Own(t.cells, over, del)
            /\ u.cells = hidden \cup {Tomb(c)} /\ tx'.deleted = del \cup {c}
        BY <2>3, <1>2, <2>1
      <3>2. \A r \in u.cells : r.seq = n =>
              IF r.val = Tombstone THEN r.at \in tx'.deleted ELSE r \in tx'.overlay
        BY <3>1, <2>1, <2>2
      <3>3. \A own \in tx'.overlay :
              own \in u.cells /\ own.seq = n /\ own.val # Tombstone /\ own.at \notin tx'.deleted
        BY <3>1, <2>1, <2>2
      <3>4. \A d \in tx'.deleted : Tomb(d) \in u.cells
        BY <3>1, <2>1, <2>2
      <3>5. {r \in u.cells : r.seq <= head} = {r \in t.cells : r.seq <= head}
        <4>1. ~(n <= head)
          BY <2>3, <1>1
        <4>2. \A r : (r \in u.cells /\ r.seq <= head) <=> (r \in t.cells /\ r.seq <= head)
          BY <4>1, <3>1, <2>2
        <4> QED
          BY <4>2
      <3> QED
        BY <2>3, <3>1, <3>2, <3>3, <3>4, <3>5
    <2>4. CASE ~env.mvcc
      BY <2>4, <1>2, <2>1
    <2> QED
      BY <2>3, <2>4
  <1> QED
    BY <1>4, <1>5, <1>6 DEF Effect, FacetPut, SeamPut, EdgesPut

-----------------------------------------------------------------------------
(* The indexes of the cells. *)

(* What a reader sees at a cell depends on what it holds of that cell. *)
LEMMA SameCellSeen ==
  ASSUME NEW rd, NEW other, NEW c,
         rd.seq = other.seq, c \in rd.deleted <=> c \in other.deleted,
         \A v : (v \in rd.overlay /\ v.at = c) <=> (v \in other.overlay /\ v.at = c),
         \A v : (v \in rd.tree.cells /\ v.at = c) <=> (v \in other.tree.cells /\ v.at = c)
  PROVE  GetCell(rd, c) = GetCell(other, c)
  <1>1. {v \in rd.tree.cells : v.at = c} = {v \in other.tree.cells : v.at = c}
    OBVIOUS
  <1>2. {v \in rd.overlay : v.at = c} = {v \in other.overlay : v.at = c}
    OBVIOUS
  <1>3. (\E v \in rd.overlay : v.at = c) <=> (\E v \in other.overlay : v.at = c)
    OBVIOUS
  <1> QED
    BY <1>1, <1>2, <1>3 DEF GetCell

LEMMA IndexedStep ==
  ASSUME TypeOK, OwnCells, PlainCells, Called, Effect, Indexed(InTx)
  PROVE  Indexed(InTx)'
  <1> DEFINE n == tx.writeSeq
             t == tx.tree
             u == tx'.tree
             rd == InTx
             new == InTx'
  <1>1. /\ tx.open /\ tx'.readSeq = tx.readSeq /\ env' = env
        /\ env.mvcc \in BOOLEAN
        /\ ~env.mvcc => n = 0 /\ tx.overlay = {} /\ tx.deleted = {}
    BY WriteSeqNat DEF Called, PlainCells
  <1>2. Numbered(t.cells, n) /\ n \in Nat
    BY <1>1, WriteSeqNat DEF TypeOK, TreeOK
  <1>3. /\ rd.tree = t /\ rd.seq = tx.readSeq /\ rd.overlay = tx.overlay /\ rd.deleted = tx.deleted
        /\ new.tree = u /\ new.seq = tx'.readSeq /\ new.overlay = tx'.overlay /\ new.deleted = tx'.deleted
    BY DEF InTx
  <1>4. \A v \in t.cells : v \in GetCell(rd, v.at) => RowsOf(t, v)
    BY <1>3 DEF Indexed
  <1>5. SUFFICES ASSUME NEW v \in u.cells, v \in GetCell(new, v.at)
                 PROVE  RowsOf(u, v)
    <2>1. Indexed(InTx)' <=> \A v \in u.cells : v \in GetCell(new, v.at) => RowsOf(u, v)
      BY <1>1 DEF Indexed, InTx, GetCell, Visible, RowsOf, Indexes, IndexRows, SourceRows, TimeRows, TagRows
    <2> QED
      BY <2>1
  <1> HIDE DEF n, t, u, rd, new
  (* A cell the call does not touch. *)
  <1>6. ASSUME v \in t.cells, v.at \in tx'.deleted <=> v.at \in tx.deleted,
               \A own : (own \in tx'.overlay /\ own.at = v.at) <=> (own \in tx.overlay /\ own.at = v.at),
               \A r : (r \in u.cells /\ r.at = v.at) <=> (r \in t.cells /\ r.at = v.at)
        PROVE  RowsOf(t, v)
    <2>1. GetCell(new, v.at) = GetCell(rd, v.at)
      BY <1>6, <1>1, <1>3, SameCellSeen
    <2> QED
      BY <2>1, <1>4, <1>5, <1>6
  <1>7. CASE SameCells
    <2>1. /\ u.cells = t.cells /\ tx'.overlay = tx.overlay /\ tx'.deleted = tx.deleted
          /\ \A k \in Indexes : u[k] = t[k]
      BY <1>7 DEF SameCells, Same, t, u
    <2>2. RowsOf(t, v)
      BY <1>6, <2>1
    <2> QED
      BY <2>1, <2>2 DEF RowsOf
  <1>8. ASSUME NEW c, NEW rec, CellPut(c, rec)
        PROVE  RowsOf(u, v)
    <2> DEFINE row == [at |-> c, seq |-> n, val |-> rec]
               olds == GetCell(InTx, c)
               Old(k) == IF env.mvcc \/ olds = {} THEN {}
                         ELSE IndexRows(k, c, (CHOOSE old \in olds : TRUE).val, 0)
    <2>1. /\ u.cells = {r \in t.cells : ~(r.at = c /\ r.seq = n)} \cup {row}
          /\ tx'.overlay = IF env.mvcc THEN {r \in tx.overlay : r.at # c} \cup {row} ELSE tx.overlay
          /\ tx'.deleted = tx.deleted \ {c}
          /\ \A k \in Indexes : u[k] = (t[k] \ Old(k)) \cup IndexRows(k, c, rec, n)
      BY <1>8 DEF CellPut, n, t, u
    <2>2. row.at = c /\ row.seq = n /\ row.val = rec
      OBVIOUS
    <2>3. \A k : \A r \in Old(k) : r.at = c
      <3> HIDE DEF olds
      <3> QED
        BY IndexRowsOf
    <2> HIDE DEF row, Old, olds
    <2>4. CASE v.at # c
      <3>1. /\ v \in t.cells
            /\ v.at \in tx'.deleted <=> v.at \in tx.deleted
        BY <2>1, <2>2, <2>4
      <3>2. \A own : (own \in tx'.overlay /\ own.at = v.at) <=> (own \in tx.overlay /\ own.at = v.at)
        BY <2>1, <2>2, <2>4
      <3>3. \A r : (r \in u.cells /\ r.at = v.at) <=> (r \in t.cells /\ r.at = v.at)
        BY <2>1, <2>2, <2>4
      <3>4. RowsOf(t, v)
        BY <1>6, <3>1, <3>2, <3>3
      <3>5. \A k : \A r \in IndexRows(k, v.at, v.val, v.seq) : r \notin Old(k)
        BY <2>3, <2>4, IndexRowsOf
      <3> QED
        BY <2>1, <3>4, <3>5 DEF RowsOf
    <2>5. CASE v.at = c
      <3>1. v = row
        <4>1. CASE env.mvcc
          <5>1. c \notin tx'.deleted /\ row \in tx'.overlay
            BY <4>1, <2>1
          <5>2. GetCell(new, c) = {own \in tx'.overlay : own.at = c}
            BY <5>1, <2>2, <1>3 DEF GetCell
          <5> QED
            BY <5>2, <4>1, <1>5, <2>1, <2>5
        <4>2. CASE ~env.mvcc
          <5>1. v \in t.cells => v.seq = 0 /\ n = 0
            BY <4>2, <1>1, <1>2 DEF Numbered
          <5> QED
            BY <5>1, <2>1, <2>5
        <4> QED
          BY <4>1, <4>2
      <3> QED
        BY <3>1, <2>1, <2>2 DEF RowsOf
    <2> QED
      BY <2>4, <2>5
  <1>9. ASSUME NEW c, NEW old, CellDeleted(c, old)
        PROVE  RowsOf(u, v)
    <2> DEFINE hidden == {r \in t.cells : ~(r.at = c /\ r.seq = n)}
               tomb == [at |-> c, seq |-> n, val |-> Tombstone]
    <2>1. /\ u.cells = IF env.mvcc THEN hidden \cup {tomb} ELSE hidden
          /\ tx'.overlay = {r \in tx.overlay : r.at # c}
          /\ tx'.deleted = IF env.mvcc THEN tx.deleted \cup {c} ELSE tx.deleted
          /\ \A k \in Indexes : u[k] = t[k] \ IndexRows(k, c, old.val, old.seq)
      BY <1>9 DEF CellDeleted, n, t, u
    <2>2. tomb.at = c
      OBVIOUS
    <2> HIDE DEF tomb
    <2>3. v.at # c
      <3>1. CASE env.mvcc
        <4>1. c \in tx'.deleted
          BY <3>1, <2>1
        <4>2. GetCell(new, c) = {}
          BY <4>1, <1>3 DEF GetCell
        <4> QED
          BY <4>2, <1>5
      <3>2. CASE ~env.mvcc
        <4>1. \A r \in t.cells : r.seq = n
          BY <3>2, <1>1, <1>2 DEF Numbered
        <4> QED
          BY <4>1, <3>2, <2>1
      <3> QED
        BY <3>1, <3>2
    <2>4. /\ v \in t.cells
          /\ v.at \in tx'.deleted <=> v.at \in tx.deleted
      BY <2>1, <2>2, <2>3
    <2>5. \A own : (own \in tx'.overlay /\ own.at = v.at) <=> (own \in tx.overlay /\ own.at = v.at)
      BY <2>1, <2>3
    <2>6. \A r : (r \in u.cells /\ r.at = v.at) <=> (r \in t.cells /\ r.at = v.at)
      BY <2>1, <2>2, <2>3
    <2>7. RowsOf(t, v)
      BY <1>6, <2>4, <2>5, <2>6
    <2>8. \A k : \A r \in IndexRows(k, v.at, v.val, v.seq) : r \notin IndexRows(k, c, old.val, old.seq)
      BY <2>3, IndexRowsOf
    <2> QED
      BY <2>1, <2>7, <2>8 DEF RowsOf
  <1> QED
    BY <1>7, <1>8, <1>9 DEF Effect, FacetPut, SeamPut, EdgesPut

(* A commit makes the transaction's own view the newest snapshot. *)
LEMMA CommittedSeen ==
  ASSUME TypeOK, OwnCells, PlainCells, tx.open, NEW v \in tx.tree.cells,
         v \in Visible({r \in tx.tree.cells : r.at = v.at}, tx.writeSeq)
  PROVE  v \in GetCell(InTx, v.at)
  <1> DEFINE n == tx.writeSeq
             rows == {r \in tx.tree.cells : r.at = v.at}
  <1>1. v.seq <= n /\ v.val # Tombstone /\ \A r \in rows : r.seq <= n => r.seq <= v.seq
    BY DEF Visible
  <1>2. /\ InTx.tree = tx.tree /\ InTx.seq = tx.readSeq
        /\ InTx.overlay = tx.overlay /\ InTx.deleted = tx.deleted
    BY DEF InTx
  <1>3. Numbered(tx.tree.cells, n)
    BY DEF TypeOK, TreeOK
  <1>4. CASE ~env.mvcc
    <2>1. tx.overlay = {} /\ tx.deleted = {} /\ tx.readSeq = n
      BY <1>4, WriteSeqNat DEF PlainCells
    <2> QED
      BY <1>2, <2>1 DEF GetCell
  <1>5. CASE env.mvcc /\ v.seq = n
    <2>1. v \in tx.overlay /\ v.at \notin tx.deleted
      BY <1>1, <1>5 DEF OwnCells
    <2> QED
      BY <1>2, <2>1 DEF GetCell
  <1>6. CASE env.mvcc /\ v.seq # n
    <2>1. n = head + 1 /\ tx.readSeq = head /\ head \in Nat
      BY <1>6, WriteSeqNat
    <2>2. v.seq \in Nat /\ v.seq <= head
      BY <1>3, <1>6, <2>1 DEF Numbered
    <2>3. \A r \in rows : r.seq # n /\ r.seq \in Nat
      BY <1>1, <1>3, <2>1, <2>2 DEF Numbered
    <2>4. \A own \in tx.overlay : own.at # v.at
      BY <2>3, <1>6 DEF OwnCells
    <2>5. v.at \notin tx.deleted
      <3>1. v.at \in tx.deleted => [at |-> v.at, seq |-> n, val |-> Tombstone] \in rows
        BY <1>6 DEF OwnCells
      <3> QED
        BY <3>1, <2>3
    <2>6. v \in Visible(rows, head)
      BY <1>1, <2>1, <2>2, <2>3 DEF Visible
    <2> QED
      BY <1>2, <2>1, <2>4, <2>5, <2>6 DEF GetCell
  <1> QED
    BY <1>4, <1>5, <1>6

LEMMA IndexTrueStep ==
  ASSUME TypeOK, OwnCells, PlainCells, TrueInv, Called, Effect, ~env.mvcc \/ env.maxOps = 1
  PROVE  IndexTrue(tx.tree)'
  <1> DEFINE n == tx.writeSeq
             t == tx.tree
             u == tx'.tree
  <1>1. /\ tx.open /\ env' = env /\ env.mvcc \in BOOLEAN
        /\ ~env.mvcc => n = 0 /\ tx.readSeq = 0 /\ tx.overlay = {} /\ tx.deleted = {}
        /\ env.mvcc => n = head + 1 /\ head \in Nat
    BY WriteSeqNat DEF Called, PlainCells
  <1>2. /\ TreeOK(t, n) /\ n \in Nat
        /\ IndexTrue(t)
    BY <1>1, WriteSeqNat DEF TypeOK, TrueInv
  (* With MVCC the call is the transaction's first. *)
  <1>3. env.mvcc => \A v \in t.cells : v.seq # n
    <2> SUFFICES ASSUME env.mvcc PROVE \A v \in t.cells : v.seq # n
      OBVIOUS
    <2>1. tx.ops < 1 /\ tx.ops \in Nat
      BY <1>1 DEF Called, TypeOK
    <2>2. t = db
      BY <2>1, <1>1 DEF TrueInv
    <2>3. Numbered(t.cells, head)
      BY <2>2 DEF TypeOK, TreeOK, Number
    <2> QED
      BY <2>3, <1>1 DEF Numbered
  <1>4. ~env.mvcc => \A v \in t.cells : v.seq = 0
    BY <1>1, <1>2 DEF TreeOK, Numbered
  (* Without MVCC the transaction sees the one row of a cell. *)
  <1>5. ASSUME ~env.mvcc, NEW v \in t.cells, v.val # Tombstone
        PROVE  GetCell(InTx, v.at) = {v}
    <2> DEFINE rows == {r \in t.cells : r.at = v.at}
    <2>1. rows = {v}
      <3>1. \A r \in rows : r.seq = v.seq /\ r.at = v.at
        BY <1>4, <1>5
      <3> QED
        BY <3>1, <1>2 DEF TreeOK, CellsKeyed
    <2>2. GetCell(InTx, v.at) = Visible(rows, 0)
      BY <1>1, <1>5 DEF GetCell, InTx
    <2>3. v.seq = 0
      BY <1>4, <1>5
    <2> HIDE DEF rows
    <2> QED
      BY <2>1, <2>2, <2>3, <1>5 DEF Visible
  <1> HIDE DEF n, t, u
  <1>6. SUFFICES ASSUME NEW k \in Indexes, NEW r \in u[k]
                 PROVE  \E v \in u.cells : v.val # Tombstone /\ r \in IndexRows(k, v.at, v.val, v.seq)
    BY DEF IndexTrue, IndexRows, SourceRows, TimeRows, TagRows, u
  <1>7. ASSUME r \in t[k]
        PROVE  \E v \in t.cells : v.val # Tombstone /\ r \in IndexRows(k, v.at, v.val, v.seq)
    BY <1>2, <1>7 DEF IndexTrue
  <1>8. CASE SameCells
    <2>1. u.cells = t.cells /\ u[k] = t[k]
      BY <1>8 DEF SameCells, Same, t, u
    <2> QED
      BY <2>1, <1>6, <1>7
  <1>9. ASSUME NEW c, NEW rec, CellPut(c, rec)
        PROVE  \E v \in u.cells : v.val # Tombstone /\ r \in IndexRows(k, v.at, v.val, v.seq)
    <2> DEFINE row == [at |-> c, seq |-> n, val |-> rec]
               olds == GetCell(InTx, c)
               Old == IF env.mvcc \/ olds = {} THEN {}
                      ELSE IndexRows(k, c, (CHOOSE old \in olds : TRUE).val, 0)
    <2>1. /\ u.cells = {v \in t.cells : ~(v.at = c /\ v.seq = n)} \cup {row}
          /\ u[k] = (t[k] \ Old) \cup IndexRows(k, c, rec, n)
          /\ rec # Tombstone
      BY <1>9 DEF CellPut, n, t, u
    <2>2. row.at = c /\ row.seq = n /\ row.val = rec
      OBVIOUS
    <2> HIDE DEF row, olds
    <2>3. CASE r \in IndexRows(k, c, rec, n)
      BY <2>3, <2>1, <2>2
    <2>4. CASE r \notin IndexRows(k, c, rec, n)
      <3>1. r \in t[k] /\ r \notin Old
        BY <2>4, <2>1, <1>6
      <3>2. PICK v \in t.cells : v.val # Tombstone /\ r \in IndexRows(k, v.at, v.val, v.seq)
        BY <3>1, <1>7
      <3>3. ~(v.at = c /\ v.seq = n)
        <4> SUFFICES ASSUME v.at = c, v.seq = n PROVE FALSE
          OBVIOUS
        <4>1. ~env.mvcc /\ v.seq = 0
          BY <1>3, <1>4
        <4>2. olds = {v}
          BY <4>1, <3>2, <1>5 DEF olds
        <4>3. Old = IndexRows(k, c, v.val, 0)
          BY <4>1, <4>2
        <4> QED
          BY <4>1, <4>3, <3>1, <3>2
      <3> QED
        BY <3>2, <3>3, <2>1
    <2> QED
      BY <2>3, <2>4
  <1>10. ASSUME NEW c, NEW old, CellDeleted(c, old)
         PROVE  \E v \in u.cells : v.val # Tombstone /\ r \in IndexRows(k, v.at, v.val, v.seq)
    <2> DEFINE hidden == {v \in t.cells : ~(v.at = c /\ v.seq = n)}
               tomb == [at |-> c, seq |-> n, val |-> Tombstone]
    <2>1. /\ u.cells = IF env.mvcc THEN hidden \cup {tomb} ELSE hidden
          /\ u[k] = t[k] \ IndexRows(k, c, old.val, old.seq)
          /\ old \in GetCell(InTx, c)
      BY <1>10 DEF CellDeleted, n, t, u
    <2> HIDE DEF tomb
    <2>2. r \in t[k] /\ r \notin IndexRows(k, c, old.val, old.seq)
      BY <2>1, <1>6
    <2>3. PICK v \in t.cells : v.val # Tombstone /\ r \in IndexRows(k, v.at, v.val, v.seq)
      BY <2>2, <1>7
    <2>4. ~(v.at = c /\ v.seq = n)
      <3> SUFFICES ASSUME v.at = c, v.seq = n PROVE FALSE
        OBVIOUS
      <3>1. ~env.mvcc
        BY <1>3
      <3>2. old = v
        BY <3>1, <2>1, <2>3, <1>5
      <3> QED
        BY <3>2, <2>2, <2>3
    <2> QED
      BY <2>1, <2>3, <2>4
  <1> QED
    BY <1>8, <1>9, <1>10 DEF Effect, FacetPut, SeamPut, EdgesPut

CellsInv == OwnCells /\ PlainCells /\ CellsIndexed /\ TrueInv

LEMMA CellsInit == Init => CellsInv
  <1> SUFFICES ASSUME Init PROVE CellsInv
    OBVIOUS
  <1>1. db = EmptyTree /\ ~tx.open /\ tx.open = FALSE
    BY DEF Init, NoTx
  <1>2. EmptyTree.cells = {} /\ \A k \in Indexes : EmptyTree[k] = {}
    BY DEF EmptyTree, Indexes
  <1>3. Indexed(Snapshot(head))
    BY <1>1, <1>2 DEF Indexed, Snapshot
  <1>4. IndexTrue(db)
    BY <1>1, <1>2 DEF IndexTrue
  <1> QED
    BY <1>1, <1>2, <1>3, <1>4 DEF CellsInv, OwnCells, PlainCells, CellsIndexed, TrueInv, NoStaleRows

LEMMA CellsStep == TypeOK /\ CellsInv /\ [Next]_vars => CellsInv'
  <1> SUFFICES ASSUME TypeOK, CellsInv, [Next]_vars PROVE CellsInv'
    OBVIOUS
  <1>0. OwnCells /\ PlainCells /\ CellsIndexed /\ TrueInv
    BY DEF CellsInv
  <1>a. env' = env /\ db' = db /\ head' = head => Snapshot(head)' = Snapshot(head)
    BY DEF Snapshot
  <1>b. ASSUME Snapshot(head)' = Snapshot(head), env' = env
        PROVE  Indexed(Snapshot(head))'
    <2>1. Indexed(Snapshot(head))
      BY <1>0 DEF CellsIndexed
    <2> QED
      BY <2>1, <1>b DEF Indexed
  <1>1. CASE Begin
    <2>1. /\ tx'.open /\ tx'.ops = 0 /\ tx'.tree = db /\ tx'.overlay = {} /\ tx'.deleted = {}
          /\ tx'.readSeq = (IF env.mvcc THEN head ELSE 0)
          /\ tx'.writeSeq = (IF env.mvcc THEN head + 1 ELSE 0)
          /\ env' = env /\ db' = db /\ head' = head
      BY <1>1 DEF Begin
    <2>2. head \in Nat /\ (env.mvcc => \A r \in db.cells : r.seq \in Nat /\ r.seq <= head)
      BY DEF TypeOK, TreeOK, Numbered, Number
    <2>3. OwnCells'
      <3>1. env.mvcc => \A r \in db.cells : r.seq # head + 1
        BY <2>2
      <3>2. env.mvcc => {r \in db.cells : r.seq <= head} = db.cells
        BY <2>2
      <3> QED
        BY <2>1, <3>1, <3>2 DEF OwnCells
    <2>4. PlainCells'
      BY <1>0, <2>1 DEF PlainCells
    <2>5. InTx' = Snapshot(head)'
      BY <2>1 DEF InTx, Snapshot
    <2>6. CellsIndexed'
      BY <2>1, <2>5, <1>a, <1>b DEF CellsIndexed
    <2>7. TrueInv'
      BY <1>0, <2>1 DEF TrueInv, NoStaleRows
    <2> QED
      BY <2>3, <2>4, <2>6, <2>7 DEF CellsInv
  <1>2. CASE Commit
    <2>1. tx.open /\ db' = tx.tree /\ head' = head + 1 /\ ~tx'.open /\ env' = env
      BY <1>2 DEF Commit, NoTx
    <2>2. OwnCells' /\ PlainCells'
      BY <1>0, <2>1 DEF OwnCells, PlainCells
    <2>3. Indexed(Snapshot(head))'
      <3> DEFINE rd == Snapshot(head)'
      <3>1. /\ rd.tree = tx.tree /\ rd.overlay = {} /\ rd.deleted = {} /\ rd.seq = tx.writeSeq
        BY <2>1 DEF Snapshot, TypeOK, Number
      <3> HIDE DEF rd
      <3>2. ASSUME NEW v \in tx.tree.cells, v \in GetCell(rd, v.at)
            PROVE  RowsOf(tx.tree, v)
        <4>1. v \in Visible({r \in tx.tree.cells : r.at = v.at}, tx.writeSeq)
          BY <3>1, <3>2 DEF GetCell
        <4>2. v \in GetCell(InTx, v.at)
          BY <4>1, <1>0, <2>1, CommittedSeen
        <4> QED
          BY <4>2, <1>0, <2>1 DEF CellsIndexed, Indexed, InTx
      <3>3. Indexed(rd)
        BY <3>1, <3>2 DEF Indexed
      <3>4. rd = Snapshot(head)'
        BY DEF rd
      <3> QED
        BY <3>3, <3>4 DEF Indexed
    <2>4. CellsIndexed' /\ TrueInv'
      BY <1>0, <2>1, <2>3 DEF CellsIndexed, TrueInv, NoStaleRows
    <2> QED
      BY <2>2, <2>4 DEF CellsInv
  <1>3. CASE Rollback
    <2>1. ~tx'.open /\ env' = env /\ db' = db /\ head' = head
      BY <1>3 DEF Rollback, NoTx
    <2> QED
      BY <2>1, <1>0, <1>a, <1>b DEF CellsInv, OwnCells, PlainCells, CellsIndexed, TrueInv, NoStaleRows
  <1>4. CASE Call
    <2>1. Called /\ Effect
      BY <1>4, CallEffect
    <2>2. tx.open /\ tx'.open /\ tx.ops \in Nat /\ tx'.ops = tx.ops + 1 /\ env' = env /\ db' = db /\ head' = head
      BY <2>1 DEF Called, TypeOK
    <2>3. OwnCells' /\ PlainCells'
      BY <1>0, <2>1, OwnStep
    <2>4. CellsIndexed'
      <3>1. Indexed(InTx)'
        BY <1>0, <2>1, <2>2, IndexedStep DEF CellsIndexed
      <3> QED
        BY <3>1, <2>2, <1>a, <1>b DEF CellsIndexed
    <2>5. TrueInv'
      <3>1. ~env.mvcc \/ env.maxOps = 1 => IndexTrue(tx.tree)'
        BY <1>0, <2>1, IndexTrueStep
      <3>2. tx'.ops # 0
        BY <2>2
      <3> QED
        BY <1>0, <2>2, <3>1, <3>2 DEF TrueInv, NoStaleRows
    <2> QED
      BY <2>3, <2>4, <2>5 DEF CellsInv
  <1>5. CASE UNCHANGED vars
    <2>1. env' = env /\ db' = db /\ head' = head /\ tx' = tx
      BY <1>5 DEF vars
    <2>2. InTx' = InTx
      BY <2>1 DEF InTx
    <2>3. (Indexed(InTx))' <=> Indexed(InTx)
      BY <2>2 DEF Indexed
    <2>4. CellsIndexed'
      BY <2>1, <2>3, <1>0, <1>a, <1>b DEF CellsIndexed
    <2> QED
      BY <2>1, <2>4, <1>0 DEF CellsInv, OwnCells, PlainCells, TrueInv, NoStaleRows
  <1> QED
    BY <1>1, <1>2, <1>3, <1>4, <1>5 DEF Next, Call

-----------------------------------------------------------------------------
(* Facets go with their cell. *)

LEMMA FacetsGoStep ==
  ASSUME TypeOK, Called, Effect, env.mvcc, FacetsGo(tx.tree)
  PROVE  FacetsGo(tx.tree)'
  <1> DEFINE n == tx.writeSeq
             t == tx.tree
             u == tx'.tree
  <1>1. /\ TreeOK(t, n) /\ n \in Nat /\ head \in Nat /\ tx.readSeq = head
        /\ n = head + 1
    BY WriteSeqNat DEF Called, TypeOK
  <1>2. /\ \A r \in t.cells : r.seq \in Nat /\ r.seq <= n
        /\ \A r \in t.facets : r.seq \in Nat /\ r.seq <= n
    BY <1>1 DEF TreeOK, Numbered
  <1> HIDE DEF n, t, u
  <1>3. SUFFICES ASSUME NEW c \in u.cells, NEW old \in u.facets,
                        c.val = Tombstone, old.at = c.at, old.id \in 0..MaxFacetID,
                        old.seq < c.seq, old.val # Tombstone
                 PROVE  \E new \in u.facets : new.at = old.at /\ new.id = old.id
                                              /\ old.seq < new.seq /\ new.seq <= c.seq
    BY DEF FacetsGo, u
  <1>4. ASSUME c \in t.cells, old \in t.facets
        PROVE  \E new \in t.facets : new.at = old.at /\ new.id = old.id
                                     /\ old.seq < new.seq /\ new.seq <= c.seq
    BY <1>3, <1>4 DEF FacetsGo, t
  <1>5. CASE SameCells /\ SameFacets
    <2>1. u.cells = t.cells /\ u.facets = t.facets
      BY <1>5 DEF SameCells, SameFacets, Same, t, u
    <2> QED
      BY <2>1, <1>3, <1>4
  <1>6. ASSUME NEW at, NEW rec, CellPut(at, rec)
        PROVE  \E new \in u.facets : new.at = old.at /\ new.id = old.id
                                     /\ old.seq < new.seq /\ new.seq <= c.seq
    <2>1. /\ u.facets = t.facets
          /\ u.cells \subseteq t.cells \cup {[at |-> at, seq |-> n, val |-> rec]}
          /\ rec # Tombstone
      BY <1>6 DEF CellPut, SameFacets, Same, n, t, u
    <2>2. c \in t.cells
      BY <2>1, <1>3
    <2> QED
      BY <2>1, <2>2, <1>3, <1>4
  <1>7. ASSUME NEW at, NEW id, NEW x, FacetPut(at, id, x)
        PROVE  \E new \in u.facets : new.at = old.at /\ new.id = old.id
                                     /\ old.seq < new.seq /\ new.seq <= c.seq
    <2> DEFINE row == [at |-> at, id |-> id, seq |-> n, val |-> x]
    <2>1. /\ u.cells = t.cells
          /\ u.facets = {r \in t.facets : ~(r.at = at /\ r.id = id /\ r.seq = n)} \cup {row}
      BY <1>7 DEF FacetPut, SameCells, Same, n, t, u
    <2>2. row.at = at /\ row.id = id /\ row.seq = n
      OBVIOUS
    <2> HIDE DEF row
    <2>3. old \in t.facets
      BY <2>1, <2>2, <1>1, <1>2, <1>3
    <2>4. PICK new \in t.facets : new.at = old.at /\ new.id = old.id
                                  /\ old.seq < new.seq /\ new.seq <= c.seq
      BY <2>1, <2>3, <1>3, <1>4
    <2>5. CASE new \in u.facets
      BY <2>4, <2>5
    <2>6. CASE new \notin u.facets
      <3>1. new.at = at /\ new.id = id /\ new.seq = n
        BY <2>1, <2>6
      <3> QED
        BY <2>1, <2>2, <2>4, <3>1
    <2> QED
      BY <2>5, <2>6
  <1>8. ASSUME NEW at, NEW gone, CellDeleted(at, gone)
        PROVE  \E new \in u.facets : new.at = old.at /\ new.id = old.id
                                     /\ old.seq < new.seq /\ new.seq <= c.seq
    <2> DEFINE tomb == [at |-> at, seq |-> n, val |-> Tombstone]
               Tomb(id) == [at |-> at, id |-> id, seq |-> n, val |-> Tombstone]
               live == FacetsOf(InTx, at)
    <2>1. /\ u.cells = {r \in t.cells : ~(r.at = at /\ r.seq = n)} \cup {tomb}
          /\ u.facets = {r \in t.facets : ~(r.at = at /\ r.seq = n /\ \E f \in live : f.id = r.id)}
                        \cup {Tomb(f.id) : f \in live}
      BY <1>8 DEF CellDeleted, WithoutFacets, n, t, u
    <2>2. /\ tomb.at = at /\ tomb.seq = n
          /\ \A id : Tomb(id).at = at /\ Tomb(id).id = id /\ Tomb(id).seq = n /\ Tomb(id).val = Tombstone
      OBVIOUS
    <2> HIDE DEF tomb, Tomb, live
    <2>3. old \in t.facets
      BY <2>1, <2>2, <1>3
    (* A newer version keeps its key, in its own or in a new row. *)
    <2>4. ASSUME NEW new \in t.facets
          PROVE  \E r \in u.facets : r.at = new.at /\ r.id = new.id /\ r.seq = new.seq
      <3>1. CASE new \in u.facets
        BY <3>1
      <3>2. CASE new \notin u.facets
        <4>1. PICK f \in live : new.at = at /\ new.seq = n /\ f.id = new.id
          BY <2>1, <3>2
        <4> QED
          BY <2>1, <2>2, <4>1
      <3> QED
        BY <3>1, <3>2
    <2>5. CASE c \in t.cells
      <3>1. PICK new \in t.facets : new.at = old.at /\ new.id = old.id
                                    /\ old.seq < new.seq /\ new.seq <= c.seq
        BY <2>3, <2>5, <1>4
      <3>2. PICK r \in u.facets : r.at = new.at /\ r.id = new.id /\ r.seq = new.seq
        BY <2>4
      <3> QED
        BY <3>1, <3>2
    <2>6. CASE c \notin t.cells
      <3>1. c.at = at /\ c.seq = n
        BY <2>1, <2>2, <2>6
      <3>2. old.seq \in Nat /\ old.seq <= head
        BY <3>1, <2>3, <1>1, <1>2, <1>3
      <3> DEFINE rows == {r \in t.facets : r.at = at /\ r.id = old.id}
      (* Not the newest the transaction sees: the newer one is there. *)
      <3>3. CASE \E new \in rows : new.seq <= head /\ ~(new.seq <= old.seq)
        <4>1. PICK new \in t.facets : /\ new.at = at /\ new.id = old.id
                                      /\ new.seq <= head /\ ~(new.seq <= old.seq)
          BY <3>3
        <4>2. new.seq \in Nat /\ old.seq < new.seq /\ new.seq <= n
          BY <4>1, <3>2, <1>1, <1>2
        <4>3. PICK r \in u.facets : r.at = new.at /\ r.id = new.id /\ r.seq = new.seq
          BY <2>4
        <4> QED
          BY <4>1, <4>2, <4>3, <3>1, <1>3
      (* The newest: the call writes its tombstone. *)
      <3>4. CASE \A new \in rows : new.seq <= head => new.seq <= old.seq
        <4>1. old \in GetFacet(InTx, at, old.id)
          BY <3>1, <3>2, <3>4, <2>3, <1>1, <1>3 DEF GetFacet, Visible, InTx, t
        <4>2. old \in live
          BY <4>1, <1>3 DEF FacetsOf, live
        <4>3. Tomb(old.id) \in u.facets
          BY <2>1, <4>2
        <4> QED
          BY <4>3, <2>2, <3>1, <3>2, <1>1, <1>3
      <3> QED
        BY <3>3, <3>4
    <2> QED
      BY <2>5, <2>6
  <1> QED
    BY <1>5, <1>6, <1>7, <1>8 DEF Effect, SeamPut, EdgesPut

LEMMA FacetsInit == Init => FacetsInv
  BY DEF Init, FacetsInv, FacetsGo, EmptyTree, NoTx

LEMMA FacetsStep == TypeOK /\ FacetsInv /\ [Next]_vars => FacetsInv'
  <1> SUFFICES ASSUME TypeOK, FacetsInv, [Next]_vars PROVE FacetsInv'
    OBVIOUS
  <1>1. CASE Begin
    <2>1. tx'.tree = db /\ db' = db /\ env' = env
      BY <1>1 DEF Begin
    <2> QED
      BY <2>1 DEF FacetsInv
  <1>2. CASE Commit
    <2>1. tx.open /\ db' = tx.tree /\ ~tx'.open /\ env' = env
      BY <1>2 DEF Commit, NoTx
    <2> QED
      BY <2>1 DEF FacetsInv
  <1>3. CASE Rollback
    <2>1. ~tx'.open /\ db' = db /\ env' = env
      BY <1>3 DEF Rollback, NoTx
    <2> QED
      BY <2>1 DEF FacetsInv
  <1>4. CASE Call
    <2>1. Called /\ Effect
      BY <1>4, CallEffect
    <2>2. tx.open /\ tx'.open /\ db' = db /\ env' = env
      BY <2>1 DEF Called
    <2>3. env.mvcc => FacetsGo(tx.tree)'
      BY <2>1, <2>2, FacetsGoStep DEF FacetsInv
    <2> QED
      BY <2>2, <2>3 DEF FacetsInv
  <1>5. CASE UNCHANGED vars
    BY <1>5 DEF vars, FacetsInv
  <1> QED
    BY <1>1, <1>2, <1>3, <1>4, <1>5 DEF Next, Call

LEMMA FacetsGone == TypeOK /\ FacetsInv => EarlierFacetsGone
  <1> SUFFICES ASSUME TypeOK, FacetsInv, env.mvcc,
                      NEW seq \in 0..head, NEW c \in db.cells, c.val = Tombstone, c.seq <= seq,
                      NEW f \in FacetsOf(Snapshot(seq), c.at)
               PROVE  f.seq >= c.seq
    BY DEF EarlierFacetsGone
  <1>1. FacetsGo(db)
    BY DEF FacetsInv
  <1>2. PICK id \in 0..MaxFacetID : f \in GetFacet(Snapshot(seq), c.at, id)
    BY DEF FacetsOf
  <1>3. /\ f \in db.facets /\ f.at = c.at /\ f.id = id /\ f.val # Tombstone
        /\ \A g \in db.facets : g.at = c.at /\ g.id = id => (g.seq <= seq => g.seq <= f.seq)
    BY <1>2 DEF GetFacet, Visible, Snapshot
  <1>4. /\ c.seq \in Nat
        /\ \A g \in db.facets : g.seq \in Nat
        /\ seq \in Nat /\ head \in Nat
    BY DEF TypeOK, TreeOK, Numbered
  <1>5. SUFFICES ASSUME f.seq < c.seq PROVE FALSE
    BY <1>3, <1>4
  <1>6. PICK g \in db.facets : g.at = f.at /\ g.id = f.id /\ f.seq < g.seq /\ g.seq <= c.seq
    BY <1>1, <1>2, <1>3, <1>5 DEF FacetsGo
  <1>7. g.seq <= seq
    BY <1>4, <1>6
  <1> QED
    BY <1>3, <1>4, <1>6, <1>7

-----------------------------------------------------------------------------
(* The theorems. *)

IInv == TypeOK /\ FacetsInv /\ CellsInv /\ SeamsInv

LEMMA Inductive == Spec => []IInv
  <1>1. Init => IInv
    BY TypeInit, FacetsInit, CellsInit, SeamsInit DEF IInv
  <1>2. IInv /\ [Next]_vars => IInv'
    BY TypeStep, FacetsStep, CellsStep, SeamsStep DEF IInv
  <1> QED
    BY <1>1, <1>2, PTL DEF Spec

(* Of one key a tree never holds two rows, rows carry numbers of commits   *)
(* that happened (or 0), and an Update reads and writes at the numbers of  *)
(* the commit it stands on and the one it becomes.                         *)
THEOREM TypeCorrect == Spec => []TypeOK
  <1>1. IInv => TypeOK
    BY DEF IInv
  <1> QED
    BY <1>1, Inductive, PTL

(* DeleteCell takes the facets of earlier Updates with it, whatever the    *)
(* transactions before and after it wrote: in no snapshot does a cell that *)
(* was deleted and put again show one of them (tombstoneFacetsForCell).    *)
(* Facets put by the deleting Update itself are outside: a new one stays.  *)
THEOREM EarlierFacetsAreGone == Spec => []EarlierFacetsGone
  <1>1. IInv => EarlierFacetsGone
    BY FacetsGone DEF IInv
  <1> QED
    BY <1>1, Inductive, PTL

(* Every cell the newest snapshot or the Update under way sees has its     *)
(* rows in the source, time and tag indexes, so a scan of an index misses  *)
(* none: putCellSecondaryIndex runs after the removal of the old rows, and *)
(* a removal never hits the rows of a version that is still the newest.    *)
THEOREM IndexesComplete == Spec => []CellsIndexed
  <1>1. IInv => CellsIndexed
    BY DEF IInv, CellsInv
  <1> QED
    BY <1>1, Inductive, PTL

(* Without MVCC, and with it as long as an Update makes one call, every    *)
(* index row is the row of a cell's version: no scan meets a stale one.    *)
THEOREM NoIndexRowStale == Spec => []NoStaleRows
  <1>1. IInv => NoStaleRows
    BY DEF IInv, CellsInv, TrueInv
  <1> QED
    BY <1>1, Inductive, PTL

(* Every version of a seam is in the index of cell pairs and in the source *)
(* and time indexes of the seams.                                          *)
THEOREM SeamIndexesComplete == Spec => []SeamsIndexed
  <1>1. IInv => SeamsIndexed
    BY DEF IInv, SeamsInv
  <1> QED
    BY <1>1, Inductive, PTL

(* All versions of a seam join the same two cells, although putSeamWithOp  *)
(* compares only with the version the Update can see, not with its own.    *)
THEOREM SeamEndpointsKept == Spec => []SameEndpoints
  <1>1. IInv => SameEndpoints
    BY DEF IInv, SeamsInv
  <1> QED
    BY <1>1, Inductive, PTL
=============================================================================
