---------------------------- MODULE Mvcc_proofs ----------------------------
(***************************************************************************)
(* Proofs about Mvcc for any sets of coordinates, tags, labels and prune   *)
(* passes and any bounds: type correctness, immutable versions, stable     *)
(* snapshots, a complete tag index at the head, and time travel.           *)
(*                                                                         *)
(* The inductive invariant has four parts.  Sequence: outside a            *)
(* transaction the next number is the head's, inside it is one more, so no *)
(* row carries it yet.  RowKeys: a key names one row.  PruneKeys: every    *)
(* key a pass has still to delete is below another row of its coordinate,  *)
(* and stays so because the top row of a coordinate is never deleted.      *)
(* TxRows and Indexed: a transaction's rows are those of the tree plus its *)
(* own, which its overlay and its tombstones account for, and the row a    *)
(* reader of the head sees has its index rows.                             *)
(***************************************************************************)
EXTENDS Mvcc, WellFoundedInduction, TLAPS

-----------------------------------------------------------------------------
(* The inductive invariant. *)

Sequence ==
  /\ cachedHdr.seq = commitSeq
  /\ phase = "idle" => writeSeqNext = commitSeq
  /\ phase = "update" => writeSeqNext = commitSeq + 1 /\ tx.seq = commitSeq + 1

Keyed(rs) == \A r, s \in rs : r.c = s.c /\ r.seq = s.seq => r = s

RowKeys ==
  /\ Keyed(rows)
  /\ \A r \in rows : r.seq <= commitSeq

PruneKeys ==
  \A p \in Pruner : \A k \in todo[p] : \E s \in rows : s.c = k.c /\ k.seq < s.seq

(* What the transaction has written to a coordinate. *)
TxRows ==
  /\ rows \subseteq tx.rows
  /\ \A r \in tx.rows : r \in rows \/ r.seq = tx.seq
  /\ Keyed(tx.rows)
  /\ \A o \in tx.overlay :
       o \in tx.rows /\ o.seq = tx.seq /\ o.val.live /\ o.c \notin tx.deleted
  /\ \A c \in tx.deleted : [c |-> c, seq |-> tx.seq, val |-> NoCell] \in tx.rows
  /\ \A r \in tx.rows : r.seq = tx.seq => r \in tx.overlay \/ r.c \in tx.deleted

Indexes(r, is) == \A t \in r.val.tags : [tag |-> t, c |-> r.c, seq |-> r.seq] \in is

Indexed ==
  \A c \in Coord : \A r \in Newest(rows, c, commitSeq) : r.val.live => Indexes(r, tagRows)

TxIndexed == \A c \in Coord : \A r \in VisibleInTx(c) : Indexes(r, tx.tagRows)

IInv ==
  /\ TypeOK
  /\ Sequence
  /\ RowKeys
  /\ PruneKeys
  /\ phase = "update" => TxRows /\ TxIndexed
  /\ Indexed
  /\ SnapshotsStable

-----------------------------------------------------------------------------
(* Numbers. *)

LEMMA NatSetHasMin ==
  ASSUME NEW T \in SUBSET Nat, T # {}
  PROVE  \E x \in T : \A y \in T : x <= y
<1> DEFINE R == OpToRel(<, Nat)
<1>1. IsWellFoundedOn(R, Nat)
  BY NatLessThanWellFounded
<1>2. R = {ss \in Nat \X Nat : ss[1] < ss[2]}
  BY DEF OpToRel
<1> HIDE DEF R
<1>3. PICK x \in T : \A y \in T : ~(<<y, x>> \in R)
  BY <1>1, WFMin
<1>4. \A y \in T : ~(y < x)
  BY <1>2, <1>3
<1> QED
  BY <1>3, <1>4

LEMMA BoundedNatSetHasMax ==
  ASSUME NEW T \in SUBSET Nat, T # {}, NEW n \in Nat, \A y \in T : y <= n
  PROVE  \E x \in T : \A y \in T : y <= x
<1> DEFINE U == {n - y : y \in T}
<1>1. U \in SUBSET Nat
  OBVIOUS
<1>2. U # {}
  OBVIOUS
<1>3. PICK u \in U : \A v \in U : u <= v
  BY <1>1, <1>2, NatSetHasMin
<1>4. PICK x \in T : u = n - x
  BY <1>3
<1>5. ASSUME NEW y \in T PROVE y <= x
  <2>1. n - y \in U
    OBVIOUS
  <2>2. n - x <= n - y
    BY <2>1, <1>3, <1>4
  <2> QED
    BY <2>2
<1> QED
  BY <1>5

-----------------------------------------------------------------------------
(* The row a snapshot sees. *)

LEMMA RowFields ==
  ASSUME NEW r \in Row
  PROVE  r.c \in Coord /\ r.seq \in Nat /\ r.val \in Cell
BY DEF Row

LEMMA NewestUnique ==
  ASSUME NEW rs \in SUBSET Row, Keyed(rs), NEW c, NEW n,
         NEW r \in Newest(rs, c, n), NEW s \in Newest(rs, c, n)
  PROVE  r = s
<1>1. r.seq \in Nat /\ s.seq \in Nat
  BY RowFields DEF Newest
<1>2. r.seq <= s.seq /\ s.seq <= r.seq
  BY DEF Newest
<1>3. r.seq = s.seq
  BY <1>1, <1>2
<1> QED
  BY <1>3 DEF Newest, Keyed

LEMMA NewestExists ==
  ASSUME NEW rs \in SUBSET Row, NEW n \in Nat, NEW r \in rs, r.seq <= n
  PROVE  \E k \in Newest(rs, r.c, n) : TRUE
<1> DEFINE T == {s.seq : s \in {q \in rs : q.c = r.c /\ q.seq <= n}}
<1>1. T \in SUBSET Nat
  BY RowFields
<1>2. r.seq \in T
  OBVIOUS
<1>3. \A y \in T : y <= n
  OBVIOUS
<1>4. PICK x \in T : \A y \in T : y <= x
  <2> HIDE DEF T
  <2> QED
    BY <1>1, <1>2, <1>3, BoundedNatSetHasMax
<1>5. PICK k \in rs : k.c = r.c /\ k.seq <= n /\ x = k.seq
  BY <1>4
<1>6. ASSUME NEW s \in rs, s.c = r.c, s.seq <= n PROVE s.seq <= k.seq
  BY <1>4, <1>5, <1>6
<1> QED
  BY <1>5, <1>6 DEF Newest

(* Rows above n do not matter to a reader at n. *)
LEMMA NewestBelow ==
  ASSUME NEW rs \in SUBSET Row, NEW qs \in SUBSET Row, rs \subseteq qs, NEW c, NEW n \in Nat,
         \A q \in qs : q \in rs \/ q.seq > n
  PROVE  Newest(qs, c, n) = Newest(rs, c, n)
<1>1. \A q \in qs : q.seq <= n => q \in rs
  BY RowFields
<1> QED
  BY <1>1 DEF Newest

(* Deleting rows that a reader does not see changes nothing for it. *)
LEMMA NewestPruned ==
  ASSUME NEW rs \in SUBSET Row, NEW b, NEW c, NEW n \in Nat, Newest(rs, c, n) \cap b = {}
  PROVE  Newest(rs \ b, c, n) = Newest(rs, c, n)
<1>1. ASSUME NEW k \in Newest(rs, c, n) PROVE k \in Newest(rs \ b, c, n)
  BY DEF Newest
<1>2. ASSUME NEW m \in Newest(rs \ b, c, n) PROVE m \in Newest(rs, c, n)
  <2>1. m \in rs /\ m.c = c /\ m.seq <= n
    BY DEF Newest
  <2>2. PICK k \in Newest(rs, c, n) : TRUE
    BY <2>1, NewestExists
  <2>3. k \in rs \ b /\ k.c = c /\ k.seq <= n
    BY <2>2 DEF Newest
  <2>4. k.seq <= m.seq
    BY <2>3 DEF Newest
  <2>5. \A s \in rs : s.c = c /\ s.seq <= n => s.seq <= k.seq
    BY <2>2 DEF Newest
  <2>6. \A s \in rs : s.c = c /\ s.seq <= n => s.seq <= m.seq
    BY <2>1, <2>3, <2>4, <2>5, RowFields
  <2> QED
    BY <2>1, <2>6 DEF Newest
<1> QED
  BY <1>1, <1>2

LEMMA GetCellOf ==
  ASSUME NEW rs \in SUBSET Row, Keyed(rs), NEW c, NEW n, NEW r \in Newest(rs, c, n)
  PROVE  GetCell(rs, c, n) = IF r.val.live THEN r.val ELSE NoCell
<1>1. \A s \in Newest(rs, c, n) : s = r
  BY NewestUnique
<1> QED
  BY <1>1 DEF GetCell

LEMMA GetCellNone ==
  ASSUME NEW rs, NEW c, NEW n, \A r \in Newest(rs, c, n) : ~r.val.live
  PROVE  GetCell(rs, c, n) = NoCell
BY DEF GetCell

-----------------------------------------------------------------------------
(* Types. *)

LEMMA NoCellType == NoCell \in Cell
BY DEF NoCell, Cell

LEMMA TxFields ==
  ASSUME NEW t \in Tx
  PROVE  /\ t.seq \in Nat /\ t.wall \in Nat /\ t.ops \in 0..MaxOps
         /\ t.rows \in SUBSET Row /\ t.tagRows \in SUBSET TagRow
         /\ t.overlay \in SUBSET Row /\ t.deleted \in SUBSET Coord
BY DEF Tx

LEMMA NoTxType == NoTx \in Tx
BY MvccBoundsAssumption DEF NoTx, Tx

LEMMA PutRowType ==
  ASSUME NEW rs \in SUBSET Row, NEW r \in Row
  PROVE  PutRow(rs, r) \in SUBSET Row
BY DEF PutRow

(* The part of TypeOK about the files; what a commit does to it. *)
DbType ==
  /\ rows \subseteq Row /\ tagRows \subseteq TagRow
  /\ timeline \subseteq [wall : Nat, seq : Nat]
  /\ snap \in [Label -> Nat \cup {NoSnap}]
  /\ commitSeq \in 0..MaxCommits /\ root \in 0..MaxRoots
  /\ DOMAIN history = 0..commitSeq

LEMMA NewRootType ==
  ASSUME root \in 0..MaxRoots, NEW r \in NewRoot
  PROVE  r \in 0..MaxRoots
BY MvccBoundsAssumption DEF NewRoot

LEMMA PublishedType ==
  ASSUME TypeOK, Sequence, phase = "update", Published
  PROVE  DbType' /\ commitSeq' = tx.seq
<1>1. tx \in Tx /\ writeSeqNext \in 0..MaxCommits /\ tx.seq = writeSeqNext
  BY DEF TypeOK, Sequence
<1>2. tx.seq \in 0..MaxCommits
  BY <1>1
<1>3. tx.rows \in SUBSET Row /\ tx.tagRows \in SUBSET TagRow /\ tx.wall \in Nat /\ tx.seq \in Nat
  BY <1>1, TxFields
<1>4. (rows \subseteq Row /\ tagRows \subseteq TagRow)'
  BY <1>3 DEF Published
<1>5. (timeline \subseteq [wall : Nat, seq : Nat])'
  BY <1>3 DEF Published, TypeOK
<1>6. (snap \in [Label -> Nat \cup {NoSnap}])'
  BY DEF Published, TypeOK
<1>7. (commitSeq \in 0..MaxCommits)'
  BY <1>2 DEF Published
<1>8. (root \in 0..MaxRoots)'
  BY NewRootType DEF Published, TypeOK
<1>9. (DOMAIN history = 0..commitSeq)'
  BY DEF Published
<1> QED
  BY <1>4, <1>5, <1>6, <1>7, <1>8, <1>9 DEF DbType, Published

LEMMA FirstRowsSubset ==
  ASSUME NEW rs, NEW n
  PROVE  FirstRows(rs, n) \subseteq rs
BY DEF FirstRows

LEMMA TypeInit == Init => TypeOK
<1> SUFFICES ASSUME Init PROVE TypeOK
  OBVIOUS
<1>1. tx \in Tx
  BY NoTxType DEF Init
<1>2. snap \in [Label -> Nat \cup {NoSnap}]
  BY DEF Init
<1>3. cachedHdr \in [seq : Nat, root : Nat]
  BY DEF Init
<1>4. todo \in [Pruner -> SUBSET Row]
  BY DEF Init
<1>5. DOMAIN history = 0..commitSeq
  BY DEF Init
<1> QED
  BY <1>1, <1>2, <1>3, <1>4, <1>5, MvccBoundsAssumption DEF Init, TypeOK

LEMMA BatchType ==
  ASSUME TypeOK, NEW p \in Pruner, NEW keys \in SUBSET Row, DeleteBatch(p, keys)
  PROVE  TypeOK'
<1>1. (rows \subseteq Row)'
  BY DEF DeleteBatch, TypeOK
<1>2. (todo \in [Pruner -> SUBSET Row])'
  BY DEF DeleteBatch, TypeOK
<1>3. (root \in 0..MaxRoots)'
  BY NewRootType DEF DeleteBatch, TypeOK
<1>4. (cachedHdr \in [seq : Nat, root : Nat])'
  BY <1>3 DEF DeleteBatch, TypeOK
<1>5. (lost \subseteq Coord \X Nat)'
  BY DEF DeleteBatch, Unseated, TypeOK
<1> QED
  BY <1>1, <1>2, <1>3, <1>4, <1>5 DEF DeleteBatch, TypeOK

LEMMA PrunableRows ==
  ASSUME TypeOK, NEW b
  PROVE  FirstRows(Prunable(b), MaxDelete) \in SUBSET Row
BY DEF FirstRows, Prunable, TypeOK

LEMMA TypeStep ==
  ASSUME TypeOK, Sequence, [Next]_vars
  PROVE  TypeOK'
<1>1. CASE BeginUpdate
  <2>1. (tx \in Tx)'
    <3>1. NoTx \in Tx
      BY NoTxType
    <3>2. writeSeqNext + 1 \in Nat /\ clock \in Nat
      BY DEF TypeOK
    <3> QED
      BY <1>1, <3>1, <3>2 DEF BeginUpdate, TypeOK, Tx
  <2>2. (writeSeqNext \in 0..MaxCommits)'
    BY <1>1, MvccBoundsAssumption DEF BeginUpdate, TypeOK
  <2> QED
    BY <1>1, <2>1, <2>2 DEF BeginUpdate, TypeOK, dbVars
<1>2. ASSUME NEW c \in Coord, NEW ts \in SUBSET Tag, PutCell(c, [live |-> TRUE, tags |-> ts])
      PROVE  TypeOK'
  <2> DEFINE v == [live |-> TRUE, tags |-> ts]
             r == [c |-> c, seq |-> tx.seq, val |-> v]
  <2>1. tx \in Tx /\ v \in Cell
    BY DEF TypeOK, Cell
  <2>2. r \in Row
    BY <2>1, TxFields DEF Row
  <2>3. IndexRows(c, v) \in SUBSET TagRow
    BY <2>1, TxFields DEF IndexRows, TagRow
  <2>4. PutRow(tx.rows, r) \in SUBSET Row
    BY <2>1, <2>2, TxFields, PutRowType
  <2>5. tx.ops + 1 \in 0..MaxOps
    BY <1>2, <2>1, TxFields, MvccBoundsAssumption DEF PutCell
  <2>6. {o \in tx.overlay : o.c # c} \cup {r} \in SUBSET Row
    BY <2>1, <2>2, TxFields
  <2>7. (tx \in Tx)'
    BY <1>2, <2>1, <2>3, <2>4, <2>5, <2>6 DEF PutCell, Tx
  <2> QED
    BY <1>2, <2>7 DEF PutCell, TypeOK, dbVars
<1>3. ASSUME NEW c \in Coord, DeleteCell(c) PROVE TypeOK'
  <2>1. tx \in Tx
    BY DEF TypeOK
  <2>2. [c |-> c, seq |-> tx.seq, val |-> NoCell] \in Row
    BY <2>1, TxFields, NoCellType DEF Row
  <2>3. PutRow(tx.rows, [c |-> c, seq |-> tx.seq, val |-> NoCell]) \in SUBSET Row
    BY <2>1, <2>2, TxFields, PutRowType
  <2>4. tx.ops + 1 \in 0..MaxOps
    BY <1>3, <2>1, TxFields, MvccBoundsAssumption DEF DeleteCell
  <2>5. (tx \in Tx)'
    <3>1. PICK old \in VisibleInTx(c) :
            tx' = [tx EXCEPT !.ops = @ + 1,
                             !.rows = PutRow(@, [c |-> c, seq |-> tx.seq, val |-> NoCell]),
                             !.tagRows = @ \ {[tag |-> t, c |-> c, seq |-> old.seq] : t \in old.val.tags},
                             !.overlay = {o \in @ : o.c # c},
                             !.deleted = @ \cup {c}]
      BY <1>3 DEF DeleteCell
    <3> DEFINE is == tx.tagRows \ {[tag |-> t, c |-> c, seq |-> old.seq] : t \in old.val.tags}
               ov == {o \in tx.overlay : o.c # c}
    <3>2. is \in SUBSET TagRow /\ ov \in SUBSET Row /\ tx.deleted \cup {c} \in SUBSET Coord
      BY <2>1, TxFields
    <3>3. tx' = [tx EXCEPT !.ops = tx.ops + 1,
                           !.rows = PutRow(tx.rows, [c |-> c, seq |-> tx.seq, val |-> NoCell]),
                           !.tagRows = is, !.overlay = ov, !.deleted = tx.deleted \cup {c}]
      BY <3>1
    <3> HIDE DEF is, ov
    <3> QED
      BY <2>1, <2>3, <2>4, <3>2, <3>3 DEF Tx
  <2> QED
    BY <1>3, <2>5 DEF DeleteCell, TypeOK, dbVars
<1>4. CASE CommitUpdate
  <2>1. DbType'
    BY <1>4, PublishedType DEF CommitUpdate
  <2>2. (cachedHdr \in [seq : Nat, root : Nat])'
    BY <1>4, <2>1 DEF CommitUpdate, DbType
  <2> QED
    BY <1>4, <2>1, <2>2, NoTxType DEF CommitUpdate, TypeOK, DbType
<1>5. CASE AbortUpdate
  <2>1. (writeSeqNext \in 0..MaxCommits)'
    BY <1>5 DEF AbortUpdate, SeqBefore, Sequence, TypeOK
  <2> QED
    BY <1>5, <2>1, NoTxType DEF AbortUpdate, TypeOK, dbVars
<1>6. CASE Restart
  <2>1. DbType'
    <3>1. CASE UNCHANGED <<dbVars, history>>
      BY <3>1 DEF dbVars, TypeOK, DbType
    <3>2. CASE phase = "update" /\ Published
      BY <3>2, PublishedType
    <3> QED
      BY <1>6, <3>1, <3>2 DEF Restart
  <2>2. (cachedHdr \in [seq : Nat, root : Nat])' /\ (writeSeqNext \in 0..MaxCommits)'
    BY <1>6, <2>1 DEF Restart, DbType
  <2>3. (todo \in [Pruner -> SUBSET Row])'
    BY <1>6 DEF Restart
  <2> QED
    BY <1>6, <2>1, <2>2, <2>3, NoTxType DEF Restart, TypeOK, DbType
<1>7. ASSUME NEW p \in Pruner, StartPrune(p) PROVE TypeOK'
  BY <1>7, BatchType, PrunableRows DEF StartPrune
<1>8. ASSUME NEW p \in Pruner, ContinuePrune(p) PROVE TypeOK'
  <2>1. todo[p] \in SUBSET Row
    BY DEF TypeOK
  <2> QED
    BY <1>8, <2>1, BatchType DEF ContinuePrune
<1>9. ASSUME NEW l \in Label, TagSnapshot(l) PROVE TypeOK'
  <2>1. (snap \in [Label -> Nat \cup {NoSnap}])'
    BY <1>9 DEF TagSnapshot, TypeOK
  <2>2. (root \in 0..MaxRoots)'
    BY <1>9, NewRootType DEF TagSnapshot, TypeOK
  <2> QED
    BY <1>9, <2>1, <2>2 DEF TagSnapshot, TypeOK
<1>10. ASSUME NEW l \in Label, DeleteSnapshotTag(l) PROVE TypeOK'
  <2>1. (snap \in [Label -> Nat \cup {NoSnap}])'
    BY <1>10 DEF DeleteSnapshotTag, TypeOK
  <2>2. (root \in 0..MaxRoots)'
    BY <1>10, NewRootType DEF DeleteSnapshotTag, TypeOK
  <2> QED
    BY <1>10, <2>1, <2>2 DEF DeleteSnapshotTag, TypeOK
<1>11. CASE Tick
  BY <1>11 DEF Tick, TypeOK, dbVars
<1>12. CASE UNCHANGED vars
  BY <1>12 DEF vars, dbVars, TypeOK
<1> QED
  BY <1>1, <1>2, <1>3, <1>4, <1>5, <1>6, <1>7, <1>8, <1>9, <1>10, <1>11, <1>12 DEF Next

-----------------------------------------------------------------------------
(* The transaction. *)

LEMMA PutRowKeyed ==
  ASSUME NEW rs, NEW r, Keyed(rs)
  PROVE  Keyed(PutRow(rs, r))
BY DEF Keyed, PutRow

LEMMA PutRowOther ==
  ASSUME NEW rs, NEW r, NEW c, NEW n, c # r.c
  PROVE  Newest(PutRow(rs, r), c, n) = Newest(rs, c, n)
BY DEF Newest, PutRow

(* The transaction sees what a snapshot at its own number will see. *)
LEMMA TxVisible ==
  ASSUME TypeOK, Sequence, RowKeys, phase = "update", TxRows, NEW c \in Coord
  PROVE  VisibleInTx(c) = {r \in Newest(tx.rows, c, tx.seq) : r.val.live}
<1>1. /\ commitSeq \in Nat /\ cachedHdr.seq = commitSeq
      /\ tx.seq \in Nat /\ tx.seq = commitSeq + 1
  BY DEF Sequence, TypeOK
<1>2. tx.rows \in SUBSET Row
  BY TxFields DEF TypeOK
<1>3. \A r \in tx.rows : r.seq \in Nat /\ r.seq <= tx.seq
  BY <1>1, <1>2, RowFields DEF TxRows, RowKeys
<1>4. CASE c \in tx.deleted
  <2> DEFINE d == [c |-> c, seq |-> tx.seq, val |-> NoCell]
  <2>1. d \in tx.rows /\ d.c = c /\ d.seq = tx.seq /\ ~d.val.live
    BY <1>4 DEF TxRows, NoCell
  <2> HIDE DEF d
  <2>2. ASSUME NEW r \in Newest(tx.rows, c, tx.seq) PROVE r = d
    <3>1. r \in tx.rows /\ r.c = c /\ d.seq <= r.seq
      BY <1>1, <2>1 DEF Newest
    <3>2. r.seq = tx.seq
      BY <1>1, <1>3, <2>1, <3>1
    <3> QED
      BY <2>1, <3>1, <3>2 DEF TxRows, Keyed
  <2> QED
    BY <1>4, <2>1, <2>2 DEF VisibleInTx
<1>5. CASE c \notin tx.deleted /\ \E o \in tx.overlay : o.c = c
  <2>1. PICK o \in tx.overlay : o.c = c
    BY <1>5
  <2>2. o \in tx.rows /\ o.seq = tx.seq /\ o.val.live
    BY <2>1 DEF TxRows
  <2>3. ASSUME NEW q \in tx.overlay, q.c = c PROVE q = o
    BY <2>1, <2>2, <2>3 DEF TxRows, Keyed
  <2>4. ASSUME NEW r \in Newest(tx.rows, c, tx.seq) PROVE r = o
    <3>1. r \in tx.rows /\ r.c = c /\ o.seq <= r.seq
      BY <1>1, <2>1, <2>2 DEF Newest
    <3>2. r.seq = tx.seq
      BY <1>1, <1>3, <2>2, <3>1
    <3> QED
      BY <2>1, <2>2, <3>1, <3>2 DEF TxRows, Keyed
  <2>5. o \in Newest(tx.rows, c, tx.seq)
    BY <1>1, <1>3, <2>1, <2>2 DEF Newest
  <2>6. VisibleInTx(c) = {o}
    BY <1>5, <2>1, <2>3 DEF VisibleInTx
  <2> QED
    BY <2>2, <2>4, <2>5, <2>6
<1>6. CASE c \notin tx.deleted /\ ~\E o \in tx.overlay : o.c = c
  <2>1. \A r \in tx.rows : r.c = c => r.seq # tx.seq
    BY <1>6 DEF TxRows
  <2>2. \A r \in tx.rows : r.c = c => r.seq <= commitSeq
    BY <1>1, <1>3, <2>1
  <2>3. Newest(tx.rows, c, tx.seq) = Newest(tx.rows, c, commitSeq)
    BY <1>1, <1>3, <2>2 DEF Newest
  <2> QED
    BY <1>1, <1>6, <2>3 DEF VisibleInTx
<1> QED
  BY <1>4, <1>5, <1>6

(* At the start of a transaction there is nothing of its own. *)
LEMMA BeginInv ==
  ASSUME IInv, BeginUpdate
  PROVE  (TxRows /\ TxIndexed)'
<1>1. /\ tx' = [NoTx EXCEPT !.seq = writeSeqNext + 1, !.wall = clock,
                            !.rows = rows, !.tagRows = tagRows]
      /\ UNCHANGED <<rows, tagRows, cachedHdr, commitSeq>>
  BY DEF BeginUpdate, dbVars
<1>2. /\ tx'.seq = commitSeq + 1 /\ tx'.rows = rows /\ tx'.tagRows = tagRows
      /\ tx'.overlay = {} /\ tx'.deleted = {}
  BY <1>1 DEF NoTx, IInv, Sequence, BeginUpdate
<1>3. \A r \in rows : r.seq # tx'.seq
  BY <1>2, RowFields DEF IInv, TypeOK, RowKeys
<1>4. TxRows'
  BY <1>1, <1>2, <1>3 DEF TxRows, IInv, RowKeys
<1>5. TxIndexed'
  BY <1>1, <1>2 DEF TxIndexed, VisibleInTx, IInv, Indexed, Sequence, Indexes
<1> QED
  BY <1>4, <1>5

LEMMA PutInv ==
  ASSUME IInv, TypeOK', NEW c \in Coord, NEW v \in Cell, v.live, PutCell(c, v)
  PROVE  (TxRows /\ TxIndexed)'
<1> DEFINE r == [c |-> c, seq |-> tx.seq, val |-> v]
<1>1. r.c = c /\ r.seq = tx.seq /\ r.val = v
  OBVIOUS
<1>2. /\ tx'.seq = tx.seq /\ tx'.rows = PutRow(tx.rows, r)
      /\ tx'.tagRows = tx.tagRows \cup IndexRows(c, v)
      /\ tx'.overlay = {o \in tx.overlay : o.c # c} \cup {r}
      /\ tx'.deleted = tx.deleted \ {c}
      /\ phase = "update" /\ UNCHANGED <<rows, tagRows, cachedHdr, commitSeq>>
  BY DEF PutCell, dbVars, IInv, TypeOK, Tx
<1>3. TxRows /\ TxIndexed /\ tx \in Tx
  BY <1>2 DEF IInv, TypeOK
<1>4. \A s \in rows : s.seq # tx.seq
  BY <1>2, RowFields DEF IInv, TypeOK, RowKeys, Sequence
<1> HIDE DEF r
<1>5. TxRows'
  <2>1. rows' \subseteq tx'.rows
    BY <1>1, <1>2, <1>3, <1>4 DEF TxRows, PutRow
  <2>2. \A s \in tx'.rows : s \in rows' \/ s.seq = tx'.seq
    BY <1>1, <1>2, <1>3 DEF TxRows, PutRow
  <2>3. Keyed(tx'.rows)
    BY <1>2, <1>3, PutRowKeyed DEF TxRows
  <2>4. \A o \in tx'.overlay :
          o \in tx'.rows /\ o.seq = tx'.seq /\ o.val.live /\ o.c \notin tx'.deleted
    BY <1>1, <1>2, <1>3 DEF TxRows, PutRow
  <2>5. \A d \in tx'.deleted : [c |-> d, seq |-> tx'.seq, val |-> NoCell] \in tx'.rows
    BY <1>1, <1>2, <1>3 DEF TxRows, PutRow
  <2>6. \A s \in tx'.rows : s.seq = tx'.seq => s \in tx'.overlay \/ s.c \in tx'.deleted
    BY <1>1, <1>2, <1>3 DEF TxRows, PutRow
  <2> QED
    BY <2>1, <2>2, <2>3, <2>4, <2>5, <2>6 DEF TxRows
<1>6. TxIndexed'
  <2>1. ASSUME NEW d \in Coord, NEW q \in VisibleInTx(d)', d = c PROVE Indexes(q, tx'.tagRows)
    <3>1. q = r
      BY <1>1, <1>2, <2>1 DEF VisibleInTx
    <3> QED
      BY <1>1, <1>2, <3>1 DEF Indexes, IndexRows
  <2>2. ASSUME NEW d \in Coord, NEW q \in VisibleInTx(d)', d # c PROVE Indexes(q, tx'.tagRows)
    <3>1. Newest(tx'.rows, d, cachedHdr.seq) = Newest(tx.rows, d, cachedHdr.seq)
      BY <1>1, <1>2, <2>2, PutRowOther
    <3>2. q \in VisibleInTx(d)
      BY <1>1, <1>2, <2>2, <3>1 DEF VisibleInTx
    <3> QED
      BY <1>2, <1>3, <3>2 DEF TxIndexed, Indexes
  <2> QED
    BY <2>1, <2>2 DEF TxIndexed
<1> QED
  BY <1>5, <1>6

LEMMA DeleteInv ==
  ASSUME IInv, TypeOK', NEW c \in Coord, DeleteCell(c)
  PROVE  (TxRows /\ TxIndexed)'
<1> DEFINE r == [c |-> c, seq |-> tx.seq, val |-> NoCell]
           gone(old) == {[tag |-> t, c |-> c, seq |-> old.seq] : t \in old.val.tags}
<1>1. r.c = c /\ r.seq = tx.seq /\ r.val = NoCell
  OBVIOUS
<1>2. PICK old \in VisibleInTx(c) :
        /\ tx'.seq = tx.seq /\ tx'.rows = PutRow(tx.rows, r)
        /\ tx'.tagRows = tx.tagRows \ gone(old)
        /\ tx'.overlay = {o \in tx.overlay : o.c # c}
        /\ tx'.deleted = tx.deleted \cup {c}
  BY DEF DeleteCell, IInv, TypeOK, Tx
<1>3. phase = "update" /\ UNCHANGED <<rows, tagRows, cachedHdr, commitSeq>>
  BY DEF DeleteCell, dbVars
<1>4. TxRows /\ TxIndexed /\ tx \in Tx
  BY <1>3 DEF IInv, TypeOK
<1>5. \A s \in rows : s.seq # tx.seq
  BY <1>3, RowFields DEF IInv, TypeOK, RowKeys, Sequence
<1>6. TxRows'
  <2>1. rows' \subseteq tx'.rows
    BY <1>1, <1>2, <1>3, <1>4, <1>5 DEF TxRows, PutRow
  <2>2. \A s \in tx'.rows : s \in rows' \/ s.seq = tx'.seq
    BY <1>1, <1>2, <1>3, <1>4 DEF TxRows, PutRow
  <2>3. Keyed(tx'.rows)
    BY <1>2, <1>4, PutRowKeyed DEF TxRows
  <2>4. \A o \in tx'.overlay :
          o \in tx'.rows /\ o.seq = tx'.seq /\ o.val.live /\ o.c \notin tx'.deleted
    BY <1>1, <1>2, <1>4 DEF TxRows, PutRow
  <2>5. ASSUME NEW d \in tx'.deleted
        PROVE  [c |-> d, seq |-> tx'.seq, val |-> NoCell] \in tx'.rows
    <3>1. CASE d = c
      BY <1>2, <3>1 DEF PutRow
    <3>2. CASE d # c
      BY <1>1, <1>2, <1>4, <3>2 DEF TxRows, PutRow
    <3> QED
      BY <3>1, <3>2
  <2>6. \A s \in tx'.rows : s.seq = tx'.seq => s \in tx'.overlay \/ s.c \in tx'.deleted
    BY <1>1, <1>2, <1>4 DEF TxRows, PutRow
  <2> QED
    BY <2>1, <2>2, <2>3, <2>4, <2>5, <2>6 DEF TxRows
<1>7. ASSUME NEW d \in Coord, NEW q \in VisibleInTx(d)' PROVE Indexes(q, tx'.tagRows)
  <2>1. d # c
    BY <1>2, <1>7 DEF VisibleInTx
  <2>2. Newest(tx'.rows, d, cachedHdr.seq) = Newest(tx.rows, d, cachedHdr.seq)
    BY <1>1, <1>2, <2>1, PutRowOther
  <2>3. q \in VisibleInTx(d)
    BY <1>1, <1>2, <1>3, <1>7, <2>1, <2>2 DEF VisibleInTx
  <2>4. q.c = d
    BY <2>3 DEF VisibleInTx, Newest
  <2>5. Indexes(q, tx.tagRows)
    BY <1>4, <2>3 DEF TxIndexed
  <2> QED
    BY <1>2, <2>1, <2>4, <2>5 DEF Indexes
<1> QED
  BY <1>6, <1>7 DEF TxIndexed

-----------------------------------------------------------------------------
(* Commit. *)

LEMMA CommitInv ==
  ASSUME IInv, phase = "update", Published, TypeOK', Sequence', phase' = "idle",
         lost' = lost, \A p \in Pruner : todo'[p] \subseteq todo[p]
  PROVE  IInv'
<1>1. /\ rows' = tx.rows /\ tagRows' = tx.tagRows /\ commitSeq' = tx.seq
      /\ history' = [s \in 0..tx.seq |->
                       IF s = tx.seq THEN [cells |-> TxView, wall |-> tx.wall] ELSE history[s]]
  BY DEF Published
<1>2. /\ TxRows /\ TxIndexed /\ TypeOK /\ Sequence /\ RowKeys /\ SnapshotsStable
      /\ tx.seq = commitSeq + 1 /\ commitSeq \in Nat /\ tx.seq \in Nat
  BY DEF IInv, Sequence, TypeOK
<1>3. rows \in SUBSET Row /\ tx.rows \in SUBSET Row
  BY <1>2, TxFields DEF TypeOK
<1>4. RowKeys'
  <2>1. \A r \in tx.rows : r.seq <= tx.seq
    BY <1>2, <1>3, RowFields DEF TxRows, RowKeys
  <2> QED
    BY <1>1, <1>2, <2>1 DEF TxRows, RowKeys
<1>5. PruneKeys'
  BY <1>1, <1>2 DEF IInv, PruneKeys, TxRows
<1>6. Indexed'
  <2>1. ASSUME NEW c \in Coord, NEW r \in Newest(tx.rows, c, tx.seq), r.val.live
        PROVE  Indexes(r, tx.tagRows)
    <3>1. r \in VisibleInTx(c)
      BY <1>2, <2>1, TxVisible
    <3> QED
      BY <1>2, <3>1 DEF TxIndexed
  <2> QED
    BY <1>1, <2>1 DEF Indexed, Indexes
<1>7. ASSUME NEW c \in Coord, NEW s \in 0..tx.seq, s = tx.seq \/ <<c, s>> \notin lost
      PROVE  GetCell(tx.rows, c, s) = history'[s].cells[c]
  <2>1. CASE s = tx.seq
    <3>1. history'[s].cells[c] = TxView[c]
      BY <1>1, <1>2, <2>1
    <3>2. VisibleInTx(c) = {r \in Newest(tx.rows, c, tx.seq) : r.val.live}
      BY <1>2, TxVisible
    <3>3. CASE VisibleInTx(c) = {}
      <4>1. \A r \in Newest(tx.rows, c, tx.seq) : ~r.val.live
        BY <3>2, <3>3
      <4>2. GetCell(tx.rows, c, tx.seq) = NoCell
        BY <4>1, GetCellNone
      <4> QED
        BY <2>1, <3>1, <3>3, <4>2 DEF TxView
    <3>4. CASE VisibleInTx(c) # {}
      <4> DEFINE v == CHOOSE r \in VisibleInTx(c) : TRUE
      <4>1. v \in VisibleInTx(c)
        BY <3>4
      <4>2. v \in Newest(tx.rows, c, tx.seq) /\ v.val.live
        BY <3>2, <4>1
      <4>3. Keyed(tx.rows)
        BY <1>2 DEF TxRows
      <4>4. TxView[c] = v.val
        BY <3>4 DEF TxView
      <4> HIDE DEF v
      <4>5. GetCell(tx.rows, c, tx.seq) = v.val
        BY <1>3, <4>2, <4>3, GetCellOf
      <4> QED
        BY <2>1, <3>1, <4>4, <4>5
    <3> QED
      BY <3>3, <3>4
  <2>2. CASE s # tx.seq
    <3>1. s \in 0..commitSeq /\ s \in Nat
      BY <1>2, <1>7, <2>2
    <3>2. \A r \in tx.rows : r \in rows \/ r.seq > s
      BY <1>2, <3>1 DEF TxRows
    <3>3. Newest(tx.rows, c, s) = Newest(rows, c, s)
      BY <1>2, <1>3, <3>1, <3>2, NewestBelow DEF TxRows
    <3>4. GetCell(tx.rows, c, s) = GetCell(rows, c, s)
      BY <3>3 DEF GetCell
    <3>5. GetCell(rows, c, s) = history[s].cells[c]
      BY <1>2, <1>7, <2>2, <3>1 DEF SnapshotsStable
    <3>6. history'[s] = history[s]
      BY <1>1, <1>7, <2>2
    <3> QED
      BY <3>4, <3>5, <3>6
  <2> QED
    BY <2>1, <2>2
<1>8. SnapshotsStable'
  BY <1>1, <1>7 DEF SnapshotsStable
<1> QED
  BY <1>4, <1>5, <1>6, <1>8 DEF IInv

-----------------------------------------------------------------------------
(* Prune. *)

(* The rows a batch may delete. *)
Superseded(b) == \A k \in b : \E s \in rows : s.c = k.c /\ k.seq < s.seq

(* What the head sees is not among them. *)
LEMMA HeadKept ==
  ASSUME TypeOK, RowKeys, NEW b \in SUBSET Row, Superseded(b), NEW c
  PROVE  Newest(rows, c, commitSeq) \cap b = {}
<1> SUFFICES ASSUME NEW r \in Newest(rows, c, commitSeq), r \in b PROVE FALSE
  OBVIOUS
<1>1. PICK s \in rows : s.c = r.c /\ r.seq < s.seq
  BY DEF Superseded
<1>2. s.seq <= commitSeq
  BY <1>1 DEF RowKeys
<1>3. s.seq <= r.seq
  BY <1>1, <1>2 DEF Newest
<1>4. s.seq \in Nat /\ r.seq \in Nat
  BY <1>1, RowFields DEF TypeOK
<1> QED
  BY <1>1, <1>3, <1>4

(* A row that has a successor still has one after a batch. *)
LEMMA SuccessorKept ==
  ASSUME TypeOK, RowKeys, NEW b \in SUBSET Row, Superseded(b), NEW k \in Row,
         \E s \in rows : s.c = k.c /\ k.seq < s.seq
  PROVE  \E s \in rows \ b : s.c = k.c /\ k.seq < s.seq
<1>1. PICK s \in rows : s.c = k.c /\ k.seq < s.seq
  OBVIOUS
<1>2. rows \in SUBSET Row /\ commitSeq \in Nat /\ s.seq <= commitSeq
  BY <1>1 DEF TypeOK, RowKeys
<1>3. PICK t \in Newest(rows, s.c, commitSeq) : TRUE
  BY <1>1, <1>2, NewestExists
<1>4. t \in rows /\ t.c = s.c /\ s.seq <= t.seq
  BY <1>1, <1>2, <1>3 DEF Newest
<1>5. t \notin b
  BY <1>3, HeadKept
<1>6. k.seq \in Nat /\ s.seq \in Nat /\ t.seq \in Nat
  BY <1>1, <1>2, <1>4, RowFields
<1> QED
  BY <1>1, <1>4, <1>5, <1>6

LEMMA BatchInv ==
  ASSUME IInv, phase = "idle", NEW p \in Pruner, NEW keys \in SUBSET Row, Superseded(keys),
         DeleteBatch(p, keys)
  PROVE  IInv'
<1> DEFINE b == FirstRows(keys, SubBatch)
<1>1. b \subseteq keys
  BY FirstRowsSubset
<1>2. /\ rows' = rows \ b /\ lost' = lost \cup Unseated(b)
      /\ todo' = [todo EXCEPT ![p] = keys \ b]
      /\ UNCHANGED <<tagRows, commitSeq, writeSeqNext, phase, tx, history>>
      /\ cachedHdr' = [seq |-> commitSeq', root |-> root']
  BY DEF DeleteBatch
<1> HIDE DEF b
<1>3. TypeOK /\ Sequence /\ RowKeys /\ PruneKeys /\ Indexed /\ SnapshotsStable
  BY DEF IInv
<1>4. b \in SUBSET Row /\ Superseded(b)
  BY <1>1 DEF Superseded
<1>5. TypeOK'
  BY <1>3, BatchType
<1>6. Sequence'
  BY <1>2, <1>3 DEF Sequence
<1>7. RowKeys'
  BY <1>2, <1>3 DEF RowKeys, Keyed
<1>8. PruneKeys'
  <2>1. ASSUME NEW q \in Pruner, NEW k \in todo'[q]
        PROVE  \E s \in rows \ b : s.c = k.c /\ k.seq < s.seq
    <3>1. k \in keys \/ k \in todo[q]
      BY <1>2, <1>3, <2>1 DEF TypeOK
    <3>2. k \in Row
      BY <1>3, <3>1 DEF TypeOK
    <3>3. \E s \in rows : s.c = k.c /\ k.seq < s.seq
      BY <1>3, <3>1 DEF PruneKeys, Superseded
    <3> QED
      BY <1>3, <1>4, <3>2, <3>3, SuccessorKept
  <2> QED
    BY <1>2, <2>1 DEF PruneKeys
<1>9. ASSUME NEW c, NEW s \in 0..commitSeq, Newest(rows, c, s) \cap b = {}
      PROVE  Newest(rows', c, s) = Newest(rows, c, s)
  <2>1. rows \in SUBSET Row /\ commitSeq \in Int
    BY <1>3 DEF TypeOK
  <2>2. s \in Nat
    BY <2>1
  <2>3. Newest(rows \ b, c, s) = Newest(rows, c, s)
    BY <1>9, <2>1, <2>2, NewestPruned
  <2> QED
    BY <1>2, <2>3
<1>10. commitSeq \in 0..commitSeq
  BY <1>3 DEF TypeOK
<1>11. \A c : Newest(rows', c, commitSeq) = Newest(rows, c, commitSeq)
  BY <1>3, <1>4, <1>9, <1>10, HeadKept
<1>12. Indexed'
  BY <1>2, <1>3, <1>11 DEF Indexed, Indexes
<1>13. ASSUME NEW c \in Coord, NEW s \in 0..commitSeq, s = commitSeq \/ <<c, s>> \notin lost'
       PROVE  GetCell(rows', c, s) = history[s].cells[c]
  <2>1. Newest(rows', c, s) = Newest(rows, c, s)
    <3>1. CASE s = commitSeq
      BY <1>11, <3>1
    <3>2. CASE s # commitSeq
      <4>1. <<c, s>> \notin Unseated(b)
        BY <1>2, <1>13, <3>2
      <4>2. Newest(rows, c, s) \cap b = {}
        BY <4>1 DEF Unseated
      <4> QED
        BY <1>9, <4>2
    <3> QED
      BY <3>1, <3>2
  <2>2. GetCell(rows', c, s) = GetCell(rows, c, s)
    BY <2>1 DEF GetCell
  <2>3. s = commitSeq \/ <<c, s>> \notin lost
    BY <1>2, <1>13
  <2> QED
    BY <1>3, <2>2, <2>3 DEF SnapshotsStable
<1>14. SnapshotsStable'
  BY <1>2, <1>13 DEF SnapshotsStable
<1> QED
  BY <1>2, <1>5, <1>6, <1>7, <1>8, <1>12, <1>14 DEF IInv

-----------------------------------------------------------------------------
(* The theorems. *)

(* A step that leaves the committed rows, the head and the passes alone. *)
LEMMA QuietInv ==
  ASSUME IInv, TypeOK', Sequence', UNCHANGED <<rows, tagRows, commitSeq, history, lost, todo>>,
         phase' = "update" => (TxRows /\ TxIndexed)'
  PROVE  IInv'
<1>1. RowKeys'
  BY DEF IInv, RowKeys, Keyed
<1>2. PruneKeys'
  BY DEF IInv, PruneKeys
<1>3. Indexed'
  BY DEF IInv, Indexed, Indexes, Newest
<1>4. SnapshotsStable'
  BY DEF IInv, SnapshotsStable, GetCell, Newest
<1> QED
  BY <1>1, <1>2, <1>3, <1>4 DEF IInv

LEMMA InvInit == Init => IInv
<1> SUFFICES ASSUME Init PROVE IInv
  OBVIOUS
<1>1. TypeOK
  BY TypeInit
<1>2. Sequence
  BY DEF Init, Sequence
<1>3. RowKeys /\ PruneKeys /\ phase # "update"
  BY DEF Init, RowKeys, Keyed, PruneKeys
<1>4. \A c, n : Newest(rows, c, n) = {}
  BY DEF Init, Newest
<1>5. Indexed
  BY <1>4 DEF Indexed
<1>6. SnapshotsStable
  <2>1. ASSUME NEW c \in Coord, NEW s \in 0..commitSeq PROVE GetCell(rows, c, s) = history[s].cells[c]
    <3>1. GetCell(rows, c, s) = NoCell
      BY <1>4, GetCellNone
    <3>2. s = 0
      BY DEF Init
    <3> QED
      BY <3>1, <3>2 DEF Init
  <2> QED
    BY <2>1 DEF SnapshotsStable
<1> QED
  BY <1>1, <1>2, <1>3, <1>5, <1>6 DEF IInv

LEMMA InvStep ==
  ASSUME IInv, [Next]_vars
  PROVE  IInv'
<1>1. TypeOK /\ Sequence /\ RowKeys /\ PruneKeys
  BY DEF IInv
<1>2. TypeOK'
  BY <1>1, TypeStep
<1>3. CASE BeginUpdate
  <2>1. Sequence'
    BY <1>1, <1>3 DEF BeginUpdate, Sequence, dbVars, NoTx
  <2>2. (TxRows /\ TxIndexed)'
    BY <1>3, BeginInv
  <2> QED
    BY <1>2, <1>3, <2>1, <2>2, QuietInv DEF BeginUpdate, dbVars
<1>4. ASSUME NEW c \in Coord, NEW ts \in SUBSET Tag, PutCell(c, [live |-> TRUE, tags |-> ts])
      PROVE  IInv'
  <2> DEFINE v == [live |-> TRUE, tags |-> ts]
  <2>1. v \in Cell /\ v.live /\ PutCell(c, v)
    BY <1>4 DEF Cell
  <2> HIDE DEF v
  <2>2. (TxRows /\ TxIndexed)'
    BY <1>2, <2>1, PutInv
  <2>3. tx'.seq = tx.seq
    BY <1>1, <2>1 DEF PutCell, TypeOK, Tx
  <2>4. Sequence'
    BY <1>1, <2>1, <2>3 DEF PutCell, Sequence, dbVars
  <2> QED
    BY <1>2, <2>1, <2>2, <2>4, QuietInv DEF PutCell, dbVars
<1>5. ASSUME NEW c \in Coord, DeleteCell(c) PROVE IInv'
  <2>1. (TxRows /\ TxIndexed)'
    BY <1>2, <1>5, DeleteInv
  <2>2. tx'.seq = tx.seq
    BY <1>1, <1>5 DEF DeleteCell, TypeOK, Tx
  <2>3. Sequence'
    BY <1>1, <1>5, <2>2 DEF DeleteCell, Sequence, dbVars
  <2> QED
    BY <1>2, <1>5, <2>1, <2>3, QuietInv DEF DeleteCell, dbVars
<1>6. CASE CommitUpdate
  <2>1. commitSeq' = tx.seq
    BY <1>6 DEF CommitUpdate, Published
  <2>2. Sequence'
    BY <1>1, <1>6, <2>1 DEF CommitUpdate, Sequence
  <2> QED
    BY <1>2, <1>6, <2>2, CommitInv DEF CommitUpdate
<1>7. CASE AbortUpdate
  <2>1. Sequence'
    BY <1>1, <1>7 DEF AbortUpdate, Sequence, SeqBefore, dbVars
  <2> QED
    BY <1>2, <1>7, <2>1, QuietInv DEF AbortUpdate, dbVars
<1>8. CASE Restart
  <2>1. Sequence'
    BY <1>8 DEF Restart, Sequence
  <2>2. \A p \in Pruner : todo'[p] = {}
    BY <1>8 DEF Restart
  <2>3. CASE UNCHANGED <<dbVars, history>>
    <3>1. PruneKeys'
      BY <2>2 DEF PruneKeys
    <3>2. RowKeys'
      BY <1>1, <2>3 DEF RowKeys, Keyed, dbVars
    <3>3. Indexed'
      BY <2>3 DEF IInv, Indexed, Indexes, Newest, dbVars
    <3>4. SnapshotsStable'
      BY <1>8, <2>3 DEF Restart, IInv, SnapshotsStable, dbVars
    <3> QED
      BY <1>2, <1>8, <2>1, <3>1, <3>2, <3>3, <3>4 DEF Restart, IInv
  <2>4. CASE phase = "update" /\ Published
    BY <1>2, <1>8, <2>1, <2>2, <2>4, CommitInv DEF Restart
  <2> QED
    BY <1>8, <2>3, <2>4 DEF Restart
<1>9. ASSUME NEW p \in Pruner, StartPrune(p) PROVE IInv'
  <2>1. PICK n \in BeforeSeq : DeleteBatch(p, FirstRows(Prunable(n), MaxDelete))
    BY <1>9 DEF StartPrune
  <2> DEFINE keys == FirstRows(Prunable(n), MaxDelete)
  <2>2. keys \in SUBSET Row
    BY <1>1, PrunableRows
  <2>3. keys \subseteq Prunable(n)
    BY FirstRowsSubset
  <2> HIDE DEF keys
  <2>4. ASSUME NEW k \in keys PROVE \E s \in rows : s.c = k.c /\ k.seq < s.seq
    <3>1. PICK s \in rows : s.c = k.c /\ s.seq > k.seq
      BY <2>3, <2>4 DEF Prunable
    <3>2. s.seq \in Nat /\ k.seq \in Nat
      BY <1>1, <2>2, <2>4, <3>1, RowFields DEF TypeOK
    <3> QED
      BY <3>1, <3>2
  <2> QED
    BY <1>9, <2>1, <2>2, <2>4, BatchInv DEF StartPrune, Superseded, keys
<1>10. ASSUME NEW p \in Pruner, ContinuePrune(p) PROVE IInv'
  <2>1. todo[p] \in SUBSET Row
    BY <1>1 DEF TypeOK
  <2>2. Superseded(todo[p])
    BY <1>1 DEF PruneKeys, Superseded
  <2> QED
    BY <1>10, <2>1, <2>2, BatchInv DEF ContinuePrune
<1>11. ASSUME NEW l \in Label, TagSnapshot(l) \/ DeleteSnapshotTag(l) PROVE IInv'
  <2>1. /\ UNCHANGED <<rows, tagRows, commitSeq, cachedHdr, writeSeqNext, phase, tx, todo, history, lost>>
        /\ phase = "idle"
    BY <1>11 DEF TagSnapshot, DeleteSnapshotTag
  <2>2. Sequence'
    BY <1>1, <2>1 DEF Sequence
  <2> QED
    BY <1>2, <2>1, <2>2, QuietInv
<1>12. CASE Tick
  <2>1. Sequence'
    BY <1>1, <1>12 DEF Tick, Sequence, dbVars
  <2> QED
    BY <1>2, <1>12, <2>1, QuietInv DEF Tick, dbVars
<1>13. CASE UNCHANGED vars
  <2>1. Sequence'
    BY <1>1, <1>13 DEF Sequence, vars, dbVars
  <2>2. phase' = "update" => (TxRows /\ TxIndexed)'
    BY <1>13 DEF IInv, vars, dbVars, TxRows, Keyed, TxIndexed, VisibleInTx, Newest, Indexes
  <2> QED
    BY <1>2, <1>13, <2>1, <2>2, QuietInv DEF vars, dbVars
<1> QED
  BY <1>3, <1>4, <1>5, <1>6, <1>7, <1>8, <1>9, <1>10, <1>11, <1>12, <1>13 DEF Next

(* The invariant holds for ever. *)
THEOREM Invariance == Spec => []IInv
BY InvInit, InvStep, PTL DEF Spec

(* Every reachable state of DB.Update, the prune passes and the snapshot   *)
(* tags is well typed.                                                     *)
THEOREM TypeCorrect == Spec => []TypeOK
<1>1. IInv => TypeOK
  BY DEF IInv
<1> QED
  BY <1>1, Invariance, PTL

(* ViewAt keeps showing what its commit left, and a prune pass, however    *)
(* old its scan, never takes a row the head sees.                          *)
THEOREM SnapshotsNeverChange == Spec => []SnapshotsStable
<1>1. IInv => SnapshotsStable
  BY DEF IInv
<1> QED
  BY <1>1, Invariance, PTL

(* AscendCellsByTag at the head finds every visible cell by every tag.     *)
THEOREM HeadIsIndexed == Spec => []HeadIndexComplete
<1>1. ASSUME IInv PROVE HeadIndexComplete
  <2> SUFFICES ASSUME NEW c \in Coord, NEW t \in GetCell(rows, c, commitSeq).tags
               PROVE  c \in AscendCellsByTag(t, commitSeq)
    BY DEF HeadIndexComplete
  <2>1. PICK r \in Newest(rows, c, commitSeq) : r.val.live
    BY DEF GetCell, NoCell
  <2>2. GetCell(rows, c, commitSeq) = r.val
    BY <1>1, <2>1, GetCellOf DEF IInv, TypeOK, RowKeys
  <2>3. [tag |-> t, c |-> r.c, seq |-> r.seq] \in tagRows /\ r.c = c
    BY <1>1, <2>1, <2>2 DEF IInv, Indexed, Indexes, Newest
  <2> QED
    BY <2>3 DEF AscendCellsByTag
<1> QED
  BY <1>1, Invariance, PTL

(* No step of any operation changes a committed version of a cell: its     *)
(* sequence number is never used again, after aborts, failed commits and   *)
(* restarts too.                                                           *)
THEOREM NoVersionOverwritten == Spec => VersionsImmutable
<1> DEFINE Kept == \A r \in rows, s \in rows' : r.c = s.c /\ r.seq = s.seq => r = s
<1>1. ASSUME IInv, [Next]_vars PROVE Kept
  <2>1. Keyed(rows)
    BY <1>1 DEF IInv, RowKeys
  <2>2. CASE rows' \subseteq rows
    BY <2>1, <2>2 DEF Keyed
  <2>3. CASE phase = "update" /\ Published
    <3>1. rows' = tx.rows /\ rows \subseteq tx.rows /\ Keyed(tx.rows)
      BY <1>1, <2>3 DEF Published, IInv, TxRows
    <3> QED
      BY <3>1 DEF Keyed
  <2>4. rows' \subseteq rows \/ (phase = "update" /\ Published)
    BY <1>1 DEF Next, BeginUpdate, PutCell, DeleteCell, CommitUpdate, AbortUpdate, Restart,
                StartPrune, ContinuePrune, DeleteBatch, TagSnapshot, DeleteSnapshotTag,
                Tick, vars, dbVars
  <2> QED
    BY <2>2, <2>3, <2>4
<1> QED
  BY <1>1, Invariance, PTL DEF Spec, VersionsImmutable

-----------------------------------------------------------------------------
(* The timeline, while the wall clock only moves forward: it names every   *)
(* commit at its time, later commits have no earlier times, and the commit *)
(* under way has read the clock after all of them.                         *)

Moments == {[wall |-> history[s].wall, seq |-> s] : s \in 1..commitSeq}

Forward ==
  /\ \A s \in 1..commitSeq : history[s].wall \in Nat /\ history[s].wall <= clock
  /\ \A s, t \in 1..commitSeq : s <= t => history[s].wall <= history[t].wall
  /\ phase = "update" =>
       tx.wall <= clock /\ \A s \in 1..commitSeq : history[s].wall <= tx.wall

TimeInv == ~ClockStepsBack => timeline = Moments /\ Forward

(* A commit adds its moment and keeps the order. *)
LEMMA TimePublished ==
  ASSUME IInv, timeline = Moments, Forward, phase = "update", Published,
         phase' = "idle", clock' = clock
  PROVE  timeline' = Moments' /\ Forward'
<1>1. /\ commitSeq \in Nat /\ clock \in Nat /\ tx.wall \in Nat /\ tx.seq = commitSeq + 1
  BY MvccBoundsAssumption DEF IInv, TypeOK, Sequence, Tx
<1>2. commitSeq' = commitSeq + 1
  BY <1>1 DEF Published
<1>3. \A s \in 1..commitSeq : history'[s] = history[s]
  BY <1>1, <1>2 DEF Published
<1>4. history'[commitSeq + 1].wall = tx.wall
  BY <1>1 DEF Published
<1>5. Forward'
  <2>1. \A s \in 1..(commitSeq + 1) : s = commitSeq + 1 \/ s \in 1..commitSeq
    BY <1>1
  <2>2. ASSUME NEW s \in 1..(commitSeq + 1)
        PROVE  history'[s].wall \in Nat /\ history'[s].wall <= clock
    BY <1>1, <1>3, <1>4, <2>1 DEF Forward
  <2>3. ASSUME NEW s \in 1..(commitSeq + 1), NEW t \in 1..(commitSeq + 1), s <= t
        PROVE  history'[s].wall <= history'[t].wall
    <3>1. CASE t = commitSeq + 1 /\ s \in 1..commitSeq
      BY <1>3, <1>4, <3>1 DEF Forward
    <3>2. CASE t = commitSeq + 1 /\ s = commitSeq + 1
      BY <1>1, <1>4, <3>2
    <3>3. CASE t \in 1..commitSeq
      <4>1. s \in 1..commitSeq BY <1>1, <2>1, <2>3, <3>3
      <4> QED BY <1>3, <2>3, <3>3, <4>1 DEF Forward
    <3> QED BY <2>1, <3>1, <3>2, <3>3
  <2> QED BY <1>2, <2>2, <2>3 DEF Forward
<1>6. timeline' = Moments'
  <2>1. timeline' = Moments \cup {[wall |-> tx.wall, seq |-> tx.seq]}
    BY DEF Published
  <2>2. \A s : s \in 1..(commitSeq + 1) <=> s \in 1..commitSeq \/ s = commitSeq + 1
    BY <1>1
  <2>3. Moments' = {[wall |-> history'[s].wall, seq |-> s] : s \in 1..(commitSeq + 1)}
    BY <1>2 DEF Moments
  <2> QED BY <1>1, <1>3, <1>4, <2>1, <2>2, <2>3 DEF Moments
<1> QED BY <1>5, <1>6

(* No operation disturbs the timeline. *)
LEMMA TimeStep ==
  ASSUME IInv, TimeInv, [Next]_vars
  PROVE  TimeInv'
<1> SUFFICES ASSUME ~ClockStepsBack PROVE timeline' = Moments' /\ Forward'
  BY DEF TimeInv
<1>0. timeline = Moments /\ Forward
  BY DEF TimeInv
<1>1. CASE phase = "update" /\ Published /\ phase' = "idle" /\ clock' = clock
  BY <1>0, <1>1, TimePublished
<1>2. CASE /\ UNCHANGED <<timeline, history, commitSeq>> /\ clock' \in Nat /\ clock <= clock'
           /\ phase' = "update" => \/ phase = "update" /\ tx'.wall = tx.wall
                                   \/ phase = "idle" /\ tx'.wall = clock
  <2>1. Moments' = Moments BY <1>2 DEF Moments
  <2>2. clock \in Nat /\ tx.wall \in Nat
    BY MvccBoundsAssumption DEF IInv, TypeOK, Tx
  <2>3. \A s \in 1..commitSeq : history[s].wall <= clock'
    BY <1>0, <1>2, <2>2 DEF Forward
  <2>4. phase' = "update" =>
          tx'.wall <= clock' /\ \A s \in 1..commitSeq : history[s].wall <= tx'.wall
    BY <1>0, <1>2, <2>2 DEF Forward
  <2>5. Forward' BY <1>0, <1>2, <2>3, <2>4 DEF Forward
  <2> QED BY <1>0, <1>2, <2>1, <2>5
<1>3. clock \in Nat /\ tx \in Tx /\ phase \in {"idle", "update"}
  BY MvccBoundsAssumption DEF IInv, TypeOK
<1>4. CASE BeginUpdate
  BY <1>2, <1>4, <1>3 DEF BeginUpdate, NoTx, dbVars
<1>5. ASSUME NEW c \in Coord, NEW ts \in SUBSET Tag, PutCell(c, [live |-> TRUE, tags |-> ts])
      PROVE  timeline' = Moments' /\ Forward'
  <2>1. phase = "update" /\ tx'.wall = tx.wall
    BY <1>3, <1>5 DEF PutCell, Tx
  <2> QED BY <1>2, <1>5, <1>3, <2>1 DEF PutCell, dbVars
<1>6. ASSUME NEW c \in Coord, DeleteCell(c) PROVE timeline' = Moments' /\ Forward'
  <2>1. phase = "update" /\ tx'.wall = tx.wall
    BY <1>3, <1>6 DEF DeleteCell, Tx
  <2> QED BY <1>2, <1>6, <1>3, <2>1 DEF DeleteCell, dbVars
<1>7. CASE AbortUpdate
  BY <1>2, <1>7, <1>3 DEF AbortUpdate, dbVars
<1>8. CASE Tick
  <2>1. clock' \in Nat /\ clock <= clock'
    BY <1>8, MvccBoundsAssumption DEF Tick, IInv, TypeOK
  <2> QED BY <1>2, <1>8, <2>1 DEF Tick, dbVars
<1>9. CASE \/ \E p \in Pruner : StartPrune(p) \/ ContinuePrune(p)
           \/ \E l \in Label : TagSnapshot(l) \/ DeleteSnapshotTag(l)
           \/ UNCHANGED vars
  <2>1. UNCHANGED <<timeline, history, commitSeq, clock, phase, tx>>
    BY <1>9 DEF StartPrune, ContinuePrune, DeleteBatch, TagSnapshot, DeleteSnapshotTag, vars, dbVars
  <2>2. clock \in Nat /\ phase \in {"idle", "update"}
    BY MvccBoundsAssumption DEF IInv, TypeOK
  <2> QED BY <1>2, <2>1, <2>2
<1>10. CASE CommitUpdate
  BY <1>1, <1>10 DEF CommitUpdate
<1>11. CASE Restart
  <2>1. CASE phase = "update" /\ Published
    BY <1>1, <1>11, <2>1 DEF Restart
  <2>2. CASE UNCHANGED <<dbVars, history>>
    <3>1. clock \in Nat BY MvccBoundsAssumption DEF IInv, TypeOK
    <3> QED BY <1>2, <1>11, <2>2, <3>1 DEF Restart, dbVars
  <2> QED BY <1>11, <2>1, <2>2 DEF Restart
<1> QED BY <1>4, <1>5, <1>6, <1>7, <1>8, <1>9, <1>10, <1>11 DEF Next

(* There is no commit yet. *)
LEMMA TimeInit == Init => TimeInv
<1> SUFFICES ASSUME Init PROVE timeline = Moments /\ Forward
  BY DEF TimeInv
<1>1. 1..commitSeq = {} /\ timeline = {} /\ phase = "idle"
  BY DEF Init
<1> QED BY <1>1 DEF Moments, Forward

(* The largest timeline key up to w is the last commit up to w. *)
LEMMA ResolvesLatest ==
  ASSUME IInv, timeline = Moments, Forward,
         NEW w \in Nat, NEW s \in 1..commitSeq, history[s].wall <= w
  PROVE  s <= ResolveReadSeq(w)
<1> DEFINE before == {e \in timeline : e.wall <= w}
           last == {e \in before : \A f \in before :
                      f.wall < e.wall \/ (f.wall = e.wall /\ f.seq <= e.seq)}
           Upto == {t \in 1..commitSeq : history[t].wall <= w}
<1>1. commitSeq \in Nat
  BY MvccBoundsAssumption DEF IInv, TypeOK
<1>2. \A e : e \in before <=> \E t \in Upto : e = [wall |-> history[t].wall, seq |-> t]
  BY DEF Moments
<1>3. PICK m \in Upto : \A t \in Upto : t <= m
  <2>1. Upto \in SUBSET Nat /\ Upto # {} /\ \A t \in Upto : t <= commitSeq
    BY <1>1
  <2> HIDE DEF Upto
  <2> QED BY <1>1, <2>1, BoundedNatSetHasMax
<1>4. \A t \in Upto : t \in Nat /\ history[t].wall \in Nat
  BY <1>1 DEF Forward
<1>5. \A t \in Upto, u \in Upto : t <= u => history[t].wall <= history[u].wall
  BY DEF Forward
<1>6. s \in Upto
  OBVIOUS
<1> HIDE DEF Upto
<1>7. [wall |-> history[m].wall, seq |-> m] \in last
  <2> DEFINE e == [wall |-> history[m].wall, seq |-> m]
  <2>1. e \in before BY <1>2
  <2>2. ASSUME NEW f \in before PROVE f.wall < e.wall \/ (f.wall = e.wall /\ f.seq <= e.seq)
    <3>1. PICK t \in Upto : f = [wall |-> history[t].wall, seq |-> t] BY <1>2
    <3>2. t <= m /\ history[t].wall <= history[m].wall BY <1>3, <1>5
    <3>3. f.wall = history[t].wall /\ f.seq = t BY <3>1
    <3>4. history[t].wall \in Nat /\ history[m].wall \in Nat BY <1>4
    <3> QED BY <3>2, <3>3, <3>4
  <2> QED BY <2>1, <2>2
<1>8. ASSUME NEW e \in last PROVE s <= e.seq
  <2>1. [wall |-> history[m].wall, seq |-> m] \in before BY <1>2
  <2>2. PICK t \in Upto : e = [wall |-> history[t].wall, seq |-> t] BY <1>2
  <2>3. e.wall = history[t].wall /\ e.seq = t BY <2>2
  <2>4. history[m].wall < history[t].wall \/ m <= t BY <2>1, <2>3
  <2>5. t <= m /\ history[t].wall <= history[m].wall BY <1>3, <1>5
  <2>6. t = m BY <1>4, <2>4, <2>5
  <2> QED BY <1>3, <1>6, <2>3, <2>6
<1>9. ResolveReadSeq(w) = (CHOOSE e \in last : TRUE).seq
  BY <1>7 DEF ResolveReadSeq
<1> HIDE DEF last
<1> QED BY <1>7, <1>8, <1>9

(* ViewAtTime is pinned to the last commit at or before its time, after    *)
(* aborts, restarts and commits at the same reading of the clock, as long  *)
(* as the wall clock is not set back.                                      *)
THEOREM TimeTravel == Spec => [](~ClockStepsBack => TimeTravelLatest)
<1>1. IInv /\ TimeInv => (~ClockStepsBack => TimeTravelLatest)
  <2> SUFFICES ASSUME IInv, timeline = Moments, Forward, NEW w \in 0..MaxClock,
                      NEW s \in 1..commitSeq, history[s].wall <= w
               PROVE  s <= ResolveReadSeq(w)
    BY DEF TimeInv, TimeTravelLatest
  <2> QED BY ResolvesLatest
<1>2. IInv /\ TimeInv /\ [Next]_vars => TimeInv'
  BY TimeStep
<1>3. IInv /\ [Next]_vars => IInv'
  BY InvStep
<1> QED BY <1>1, <1>2, <1>3, InvInit, TimeInit, PTL DEF Spec
=============================================================================
