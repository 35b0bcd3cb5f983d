-------------------------------- MODULE Mvcc --------------------------------
(***************************************************************************)
(* The versioned cell store of the root package: DB.Update with PutCell    *)
(* and DeleteCell, snapshot reads at a commit sequence and at a time, the  *)
(* tag index, PruneCellVersions and named snapshots.                       *)
(*                                                                         *)
(* DB.mu serialises all of them except that a prune pass releases it       *)
(* between two sub-batches.  The engine is used through its contract       *)
(* (AtomicStore): a commit happens as a whole or not at all.  A cell's     *)
(* record is abstracted to its tags.  Readers are not actions: what they   *)
(* would return is a function of the state while no writer holds DB.mu.    *)
(***************************************************************************)
EXTENDS Integers, FiniteSets

CONSTANTS
  Coord,         \* packed coordinates, as numbers in key order
  Tag,           \* tags of cells
  Label,         \* labels of named snapshots
  Pruner,        \* goroutines that run prune passes
  MaxDelete,     \* the maxDelete argument of a prune pass
  SubBatch,      \* pruneSubBatchSize
  ClockStepsBack,\* the wall clock may be set back
  MaxCommits,    \* bound: commit sequence numbers
  MaxOps,        \* bound: cell operations of one Update
  MaxClock,      \* bound: wall-clock readings
  MaxRoots       \* bound: changes of the tree's root page

ASSUME CoordAssumption == Coord \subseteq Nat
ASSUME PruneAssumption ==
  MaxDelete \in Nat \ {0} /\ SubBatch \in Nat \ {0}
ASSUME ClockAssumption == ClockStepsBack \in BOOLEAN
ASSUME MvccBoundsAssumption ==
  MaxCommits \in Nat /\ MaxOps \in Nat /\ MaxClock \in Nat /\ MaxRoots \in Nat

VARIABLES
  rows,          \* cell/<coord>/<seq> rows
  tagRows,       \* tag/<tag>/<coord>/<seq> rows
  timeline,      \* __meta/commit-time/<wall>/<seq> rows
  snap,          \* snapshot tags: label -> commit sequence, or NoSnap
  commitSeq,     \* the header's CommitSeq
  root,          \* the header's BTreeRoot
  cachedHdr,     \* db.cachedHdr
  writeSeqNext,  \* db.writeSeqNext
  phase, tx,     \* the Update that holds DB.mu
  todo,          \* per pruner: the keys its pass has still to delete
  clock,         \* wall clock
  history,       \* history: what commit s made visible, and its wall time
  lost           \* history: <<c, s>> when a prune took what snapshot s sees at c

dbVars == <<rows, tagRows, timeline, snap, commitSeq, root>>
vars == <<dbVars, cachedHdr, writeSeqNext, phase, tx, todo, clock, history, lost>>

-----------------------------------------------------------------------------
(* A row's value; a tombstone is a row with an empty value. *)
Cell == [live : BOOLEAN, tags : SUBSET Tag]
NoCell == [live |-> FALSE, tags |-> {}]
NoSnap == -1

Row == [c : Coord, seq : Nat, val : Cell]
TagRow == [tag : Tag, c : Coord, seq : Nat]
Tx == [seq : Nat, wall : Nat, ops : 0..MaxOps, rows : SUBSET Row,
       tagRows : SUBSET TagRow, overlay : SUBSET Row, deleted : SUBSET Coord]
NoTx == [seq |-> 0, wall |-> 0, ops |-> 0, rows |-> {}, tagRows |-> {},
         overlay |-> {}, deleted |-> {}]

(* B+ tree Put: the row replaces one with the same key. *)
PutRow(rs, r) == {s \in rs : s.c # r.c \/ s.seq # r.seq} \cup {r}

(* getVisibleVersionRaw: the row with the highest sequence number up to    *)
(* readSeq.                                                                *)
Newest(rs, c, readSeq) ==
  {r \in rs : /\ r.c = c /\ r.seq <= readSeq
              /\ \A s \in rs : s.c = c /\ s.seq <= readSeq => s.seq <= r.seq}

(* GetCell of a snapshot: a tombstone and a missing row read the same. *)
GetCell(rs, c, readSeq) ==
  IF \E r \in Newest(rs, c, readSeq) : r.val.live
  THEN (CHOOSE r \in Newest(rs, c, readSeq) : TRUE).val
  ELSE NoCell

(* AscendCellsByTag: every index row of the tag, whatever its sequence     *)
(* number, whose cell is visible and carries the tag.                      *)
AscendCellsByTag(t, readSeq) ==
  {c \in Coord : /\ \E i \in tagRows : i.tag = t /\ i.c = c
                 /\ t \in GetCell(rows, c, readSeq).tags}

Bug_FirstOfInstant(wall) ==
  LET before == {e \in timeline : e.wall <= wall}
      last == {e \in before : \A f \in before :
                 f.wall < e.wall \/ (f.wall = e.wall /\ f.seq >= e.seq)}
  IN  IF last = {} THEN 0 ELSE (CHOOSE e \in last : TRUE).seq

(* resolveReadSeqAtOrBeforeUnixNano: the largest timeline key up to wall.  *)
ResolveReadSeq(wall) ==
  LET before == {e \in timeline : e.wall <= wall}
      last == {e \in before : \A f \in before :
                 f.wall < e.wall \/ (f.wall = e.wall /\ f.seq <= e.seq)}
  IN  IF last = {} THEN 0 ELSE (CHOOSE e \in last : TRUE).seq

-----------------------------------------------------------------------------
Init ==
  /\ rows = {} /\ tagRows = {} /\ timeline = {}
  /\ snap = [l \in Label |-> NoSnap]
  /\ commitSeq = 0 /\ root = 0
  /\ cachedHdr = [seq |-> 0, root |-> 0]
  /\ writeSeqNext = 0
  /\ phase = "idle" /\ tx = NoTx
  /\ todo = [p \in Pruner |-> {}]
  /\ clock = 0
  /\ history = [s \in {0} |-> [cells |-> [c \in Coord |-> NoCell], wall |-> 0]]
  /\ lost = {}

(* A commit may move the root of the tree (growth, collapse). *)
NewRoot == {r \in {root, root + 1} : r <= MaxRoots}

-----------------------------------------------------------------------------
(* DB.Update.                                                              *)

BeginUpdate ==
  /\ phase = "idle"
  /\ writeSeqNext < MaxCommits
  /\ phase' = "update"
  /\ writeSeqNext' = writeSeqNext + 1
  /\ tx' = [NoTx EXCEPT !.seq = writeSeqNext + 1, !.wall = clock,
                        !.rows = rows, !.tagRows = tagRows]
  /\ UNCHANGED <<dbVars, cachedHdr, todo, clock, history, lost>>

(* What the transaction sees of a cell (visibleCellAndSeq): its own        *)
(* deletes and puts first, then the tree at the sequence it started from.  *)
VisibleInTx(c) ==
  IF c \in tx.deleted THEN {}
  ELSE IF \E o \in tx.overlay : o.c = c THEN {o \in tx.overlay : o.c = c}
  ELSE {r \in Newest(tx.rows, c, cachedHdr.seq) : r.val.live}

Bug_RowNotIndexed(c, v) == {}

(* putCellSecondaryIndex: one row per tag, at this commit's sequence. *)
IndexRows(c, v) == {[tag |-> t, c |-> c, seq |-> tx.seq] : t \in v.tags}

(* PutCell: the rows of earlier versions stay, for snapshot readers. *)
PutCell(c, v) ==
  /\ phase = "update" /\ tx.ops < MaxOps
  /\ LET r == [c |-> c, seq |-> tx.seq, val |-> v]
     IN  tx' = [tx EXCEPT !.ops = @ + 1,
                          !.rows = PutRow(@, r),
                          !.tagRows = @ \cup IndexRows(c, v),
                          !.overlay = {o \in @ : o.c # c} \cup {r},
                          !.deleted = @ \ {c}]
  /\ UNCHANGED <<dbVars, cachedHdr, writeSeqNext, phase, todo, clock, history, lost>>

(* DeleteCell: a tombstone, and the index rows of the version it hides are *)
(* removed; nothing happens when no cell is visible.                       *)
DeleteCell(c) ==
  /\ phase = "update" /\ tx.ops < MaxOps
  /\ \E old \in VisibleInTx(c) :
       tx' = [tx EXCEPT !.ops = @ + 1,
                        !.rows = PutRow(@, [c |-> c, seq |-> tx.seq, val |-> NoCell]),
                        !.tagRows = @ \ {[tag |-> t, c |-> c, seq |-> old.seq] : t \in old.val.tags},
                        !.overlay = {o \in @ : o.c # c},
                        !.deleted = @ \cup {c}]
  /\ UNCHANGED <<dbVars, cachedHdr, writeSeqNext, phase, todo, clock, history, lost>>

(* What the transaction shows its own callback, for the history. *)
TxView ==
  [c \in Coord |-> IF VisibleInTx(c) = {} THEN NoCell
                   ELSE (CHOOSE r \in VisibleInTx(c) : TRUE).val]

Published ==
  /\ rows' = tx.rows
  /\ tagRows' = tx.tagRows
  /\ timeline' = timeline \cup {[wall |-> tx.wall, seq |-> tx.seq]}
  /\ commitSeq' = tx.seq
  /\ root' \in NewRoot
  /\ history' = [s \in 0..tx.seq |->
                   IF s = tx.seq THEN [cells |-> TxView, wall |-> tx.wall] ELSE history[s]]
  /\ UNCHANGED snap

CommitUpdate ==
  /\ phase = "update"
  /\ Published
  /\ cachedHdr' = [seq |-> commitSeq', root |-> root']
  /\ phase' = "idle" /\ tx' = NoTx
  /\ UNCHANGED <<writeSeqNext, todo, clock, lost>>

Bug_SeqBefore == cachedHdr.seq - 1

SeqBefore == cachedHdr.seq

(* The callback fails: staged pages are dropped, the number is given back. *)
AbortUpdate ==
  /\ phase = "update"
  /\ phase' = "idle" /\ tx' = NoTx
  /\ writeSeqNext' = SeqBefore
  /\ UNCHANGED <<dbVars, cachedHdr, todo, clock, history, lost>>

(* The process ends, or closes a handle whose commit failed, and opens the *)
(* file again; a commit under way has either outcome, prune passes end.    *)
Restart ==
  /\ \/ UNCHANGED <<dbVars, history>>
     \/ phase = "update" /\ Published
  /\ cachedHdr' = [seq |-> commitSeq', root |-> root']
  /\ writeSeqNext' = commitSeq'
  /\ phase' = "idle" /\ tx' = NoTx
  /\ todo' = [p \in Pruner |-> {}]
  /\ UNCHANGED <<clock, lost>>

-----------------------------------------------------------------------------
(* PruneCellVersions.                                                      *)

KeyLess(a, b) == a.c < b.c \/ (a.c = b.c /\ a.seq < b.seq)

(* The first n rows of a set, in key order. *)
FirstRows(rs, n) == {r \in rs : Cardinality({s \in rs : KeyLess(s, r)}) < n}

Bug_Prunable(beforeSeq) == {r \in rows : r.seq < beforeSeq}

(* The single-pass scan: a row below beforeSeq that another row of the     *)
(* same coordinate follows.                                                *)
Prunable(beforeSeq) ==
  {r \in rows : r.seq < beforeSeq /\ \E s \in rows : s.c = r.c /\ s.seq > r.seq}

(* The watermark: SuggestedPruneBeforeSeq, or any number an operator picks. *)
BeforeSeq == 0..(MaxCommits + 1)

(* History: the snapshots of a coordinate whose visible row a batch takes. *)
Unseated(batch) ==
  {x \in Coord \X (0..commitSeq) : Newest(rows, x[1], x[2]) \cap batch # {}}

(* One sub-batch of deletes in an engine transaction of its own. *)
DeleteBatch(p, keys) ==
  /\ rows' = rows \ FirstRows(keys, SubBatch)
  /\ lost' = lost \cup Unseated(FirstRows(keys, SubBatch))
  /\ todo' = [todo EXCEPT ![p] = keys \ FirstRows(keys, SubBatch)]
  /\ root' \in NewRoot
  /\ UNCHANGED <<tagRows, timeline, snap, commitSeq>>
  /\ cachedHdr' = [seq |-> commitSeq', root |-> root']
  /\ UNCHANGED <<writeSeqNext, phase, tx, clock, history>>

(* Scan and first sub-batch under one hold of the lock. *)
StartPrune(p) ==
  /\ phase = "idle" /\ todo[p] = {}
  /\ \E b \in BeforeSeq :
       /\ Prunable(b) # {}
       /\ DeleteBatch(p, FirstRows(Prunable(b), MaxDelete))

(* The lock was free since; the keys to delete are those of the scan. *)
ContinuePrune(p) ==
  /\ phase = "idle" /\ todo[p] # {}
  /\ DeleteBatch(p, todo[p])

-----------------------------------------------------------------------------
(* Named snapshots.  Their commits do not refresh cachedHdr.               *)

TagSnapshot(l) ==
  /\ phase = "idle"
  /\ snap' = [snap EXCEPT ![l] = commitSeq]
  /\ root' \in NewRoot
  /\ UNCHANGED <<rows, tagRows, timeline, commitSeq, cachedHdr, writeSeqNext,
                 phase, tx, todo, clock, history, lost>>

DeleteSnapshotTag(l) ==
  /\ phase = "idle"
  /\ snap[l] # NoSnap
  /\ snap' = [snap EXCEPT ![l] = NoSnap]
  /\ root' \in NewRoot
  /\ UNCHANGED <<rows, tagRows, timeline, commitSeq, cachedHdr, writeSeqNext,
                 phase, tx, todo, clock, history, lost>>

(* The wall clock: read by Update as time.Now. *)
Tick ==
  /\ phase = "idle"
  /\ \E w \in 0..MaxClock : /\ w # clock
                            /\ w < clock => ClockStepsBack
                            /\ clock' = w
  /\ UNCHANGED <<dbVars, cachedHdr, writeSeqNext, phase, tx, todo, history, lost>>

-----------------------------------------------------------------------------
Next ==
  \/ BeginUpdate
  \/ \E c \in Coord, ts \in SUBSET Tag : PutCell(c, [live |-> TRUE, tags |-> ts])
  \/ \E c \in Coord : DeleteCell(c)
  \/ CommitUpdate
  \/ AbortUpdate
  \/ Restart
  \/ \E p \in Pruner : StartPrune(p) \/ ContinuePrune(p)
  \/ \E l \in Label : TagSnapshot(l) \/ DeleteSnapshotTag(l)
  \/ Tick

Spec == Init /\ [][Next]_vars

-----------------------------------------------------------------------------
TypeOK ==
  /\ rows \subseteq Row /\ tagRows \subseteq TagRow
  /\ timeline \subseteq [wall : Nat, seq : Nat]
  /\ snap \in [Label -> Nat \cup {NoSnap}]
  /\ commitSeq \in 0..MaxCommits /\ root \in 0..MaxRoots
  /\ cachedHdr \in [seq : Nat, root : Nat]
  /\ writeSeqNext \in 0..MaxCommits
  /\ phase \in {"idle", "update"}
  /\ tx \in Tx
  /\ todo \in [Pruner -> SUBSET Row]
  /\ clock \in 0..MaxClock
  /\ DOMAIN history = 0..commitSeq
  /\ lost \subseteq Coord \X Nat

(***************************************************************************)
(* ViewAt(s) shows for ever what commit s left, until a prune takes the    *)
(* row it sees; the head is never touched, whatever was committed between  *)
(* the scan of a prune pass and its last sub-batch.                        *)
(***************************************************************************)
SnapshotsStable ==
  \A c \in Coord, s \in 0..commitSeq :
    s = commitSeq \/ <<c, s>> \notin lost => GetCell(rows, c, s) = history[s].cells[c]

(***************************************************************************)
(* The tag index misses no cell at the head: a visible cell is found under *)
(* each of its tags after any sequence of puts, deletes, re-puts in one    *)
(* transaction, aborts and prune passes.                                   *)
(***************************************************************************)
HeadIndexComplete ==
  \A c \in Coord : \A t \in GetCell(rows, c, commitSeq).tags :
    c \in AscendCellsByTag(t, commitSeq)

(***************************************************************************)
(* db.go: writers store a new cachedHdr after every commit, so a reader    *)
(* that starts from it starts from the tree's root.                        *)
(***************************************************************************)
CachedHeaderFresh ==
  phase = "idle" => cachedHdr = [seq |-> commitSeq, root |-> root]

(***************************************************************************)
(* ViewAtTime(w) is pinned to the most recent commit at or before w.       *)
(***************************************************************************)
TimeTravelLatest ==
  \A w \in 0..MaxClock :
    \A s \in 1..commitSeq : history[s].wall <= w => s <= ResolveReadSeq(w)

(***************************************************************************)
(* A committed version is never overwritten: no later commit, retry or     *)
(* restart reuses its sequence number (prune may only remove it).          *)
(***************************************************************************)
VersionsImmutable ==
  [][\A r \in rows, s \in rows' : r.c = s.c /\ r.seq = s.seq => r = s]_vars
=============================================================================
