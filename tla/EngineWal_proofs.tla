--------------------------- MODULE EngineWal_proofs ---------------------------
(***************************************************************************)
(* Proofs about the commit pipeline and the recovery (EngineWal), for      *)
(* every set of pages, WAL size and set of scenarios: what a usable handle *)
(* shows, what the medium holds when a writer has been answered, and that  *)
(* the engine implements AtomicStore.                                      *)
(*                                                                         *)
(* The invariant has three parts. ProcessInv relates the transaction, the  *)
(* log and the files as the process sees them, step by step through the    *)
(* pipeline; it holds for every format and every crash. DurableInv says    *)
(* which syncs have been made. AtomicInv says what the next Open finds:    *)
(* the old or the new contents, a log that completes the new contents      *)
(* whatever the pages are like, or a log that Open refuses (Disk).         *)
(***************************************************************************)
EXTENDS EngineWal, TLAPS

USE DEF Slot

-----------------------------------------------------------------------------
(* Type correctness.                                                       *)

(* Every page record and header record is a WAL record. *)
LEMMA RecordTypes ==
  /\ NewHeader \in Header /\ Empty \in Record /\ Torn \in Record
  /\ \A r \in Redo : PageRecord(r) \in Record
  /\ \A h \in Header : HeaderRecord(h) \in Record
<1>1. NewHeader \in Header
  BY DEF NewHeader, Header
<1>2. Empty \in Record /\ Torn \in Record
  BY <1>1 DEF Empty, Torn, Record
<1>3. ASSUME NEW r \in Redo PROVE PageRecord(r) \in Record
  <2>1. r.seq \in Nat /\ r.page \in Page
    BY DEF Redo
  <2>2. r.seq \in Int
    BY <2>1
  <2>3. r.page \in Nat
    BY <2>1, PageAssumption
  <2> QED
    BY <1>1, <2>2, <2>3 DEF PageRecord, Record
<1>4. ASSUME NEW h \in Header PROVE HeaderRecord(h) \in Record
  <2>1. h.last \in Int
    BY DEF Header
  <2> QED
    BY <2>1 DEF HeaderRecord, Record
<1> QED
  BY <1>1, <1>2, <1>3, <1>4

(* The fields of a typed transaction and of a typed header. *)
LEMMA TxnFields ==
  ASSUME NEW t \in Txn
  PROVE  /\ t.hdr \in Header /\ t.pending \in Seq(Redo)
         /\ t.dirty \in [Page -> Nat]
         /\ t.writer \in {"none", "update", "maintenance", "reclaim"}
BY DEF Txn

LEMMA HeaderFields ==
  ASSUME NEW h \in Header
  PROVE  /\ h.last \in Nat /\ h.commit \in Nat /\ h.root \in Nat /\ h.gen \in Nat
         /\ h = [last |-> h.last, commit |-> h.commit, root |-> h.root, gen |-> h.gen]
BY DEF Header

(* What the assumption on the scenarios says of the one that was chosen. *)
LEMMA ScenarioFields ==
  ASSUME NEW e \in Scenarios
  PROVE  /\ e.writers \subseteq {"update", "maintenance", "reclaim"}
         /\ e.maxFailures \in Nat /\ e.maxCrashes \in Nat
BY ScenariosAssumption DEF Scenario

LEMMA NoTxnType == NoTxn \in Txn
<1>1. NotDirty \in [Page -> Nat]
  BY DEF NotDirty
<1> QED
  BY <1>1, RecordTypes DEF NoTxn, Txn

LEMMA InitType == Init => TypeOK
<1> SUFFICES ASSUME Init PROVE TypeOK
  OBVIOUS
<1>1. wal \in [Slot -> Record] /\ walDur \in [Slot -> Record]
  BY RecordTypes DEF Init
<1>2. page \in [Page -> Int] /\ pageDur \in [Page -> Int]
  BY DEF Init
<1>3. hdr \in Header /\ hdrDur \in Header
  BY RecordTypes DEF Init
<1>4. committed \in Image /\ candidate \in Image
  BY <1>2, <1>3 DEF Init, Contents, Image
<1>5. /\ env \in Scenarios
      /\ failures \in 0..env.maxFailures /\ crashes \in 0..env.maxCrashes
  BY ScenarioFields DEF Init
<1>6. phase \in Phases /\ txn \in Txn /\ recoveryRequired \in BOOLEAN
  BY NoTxnType DEF Init, Phases
<1>7. step \in Nat \ {0} /\ walOff \in Nat /\ walSize \in Nat /\ nextWALSeq \in Nat
  BY DEF Init
<1> QED
  BY <1>1, <1>2, <1>3, <1>4, <1>5, <1>6, <1>7 DEF TypeOK

LEMMA BeginType ==
  ASSUME TypeOK, NEW w \in env.writers, BeginWriteTxn(w)
  PROVE  TypeOK'
<1>1. NotDirty \in [Page -> Nat]
  BY DEF NotDirty
<1>2. txn' \in Txn
  BY <1>1, ScenarioFields DEF BeginWriteTxn, TypeOK, Txn
<1> QED
  BY <1>2 DEF BeginWriteTxn, TypeOK, Phases, fileVars, boundVars, histVars

LEMMA WritePageType ==
  ASSUME TypeOK, NEW p \in Page, WritePage(p)
  PROVE  TypeOK'
<1> DEFINE n == nextWALSeq + 1
           g == IF p = txn.hdr.root THEN n ELSE txn.hdr.gen
<1>0. n \in Nat /\ txn.hdr \in Header /\ txn.dirty \in [Page -> Nat]
  BY TxnFields DEF TypeOK
<1>1. Append(txn.pending, [seq |-> n, page |-> p]) \in Seq(Redo)
  <2>1. [seq |-> n, page |-> p] \in Redo
    BY <1>0 DEF Redo
  <2> QED
    BY <2>1, TxnFields DEF TypeOK
<1>2. [txn.hdr EXCEPT !.gen = g] \in Header
  <2>1. g \in Nat
    BY <1>0, HeaderFields
  <2> QED
    BY <1>0, <2>1 DEF Header
<1>3. [txn.dirty EXCEPT ![p] = n] \in [Page -> Nat]
  BY <1>0
<1>4. txn' = [txn EXCEPT !.pending = Append(txn.pending, [seq |-> n, page |-> p]),
                         !.dirty = [txn.dirty EXCEPT ![p] = n],
                         !.hdr = [txn.hdr EXCEPT !.gen = g]]
  BY DEF WritePage, TypeOK, Txn
<1>5. txn' \in Txn
  BY <1>1, <1>2, <1>3, <1>4 DEF TypeOK, Txn
<1> QED
  BY <1>5 DEF WritePage, TypeOK, fileVars, boundVars, histVars

LEMMA SetRootType ==
  ASSUME TypeOK, NEW r \in Page \cup {0}, SetRoot(r)
  PROVE  TypeOK'
<1> DEFINE h == [txn.hdr EXCEPT !.root = r]
<1>1. txn.hdr \in Header /\ txn.dirty \in [Page -> Nat] /\ r \in Nat
  BY TxnFields, PageAssumption DEF TypeOK
<1>2. h \in Header /\ h.root = r
  BY <1>1 DEF Header
<1>3. RootGeneration(h, txn) \in Nat
  BY <1>1, <1>2, HeaderFields DEF RootGeneration
<1>4. [h EXCEPT !.gen = RootGeneration(h, txn)] \in Header
  BY <1>2, <1>3 DEF Header
<1>5. txn' = [txn EXCEPT !.hdr = [h EXCEPT !.gen = RootGeneration(h, txn)]]
  BY DEF SetRoot
<1>6. txn' \in Txn
  BY <1>4, <1>5 DEF TypeOK, Txn
<1> QED
  BY <1>6 DEF SetRoot, TypeOK, fileVars, boundVars, histVars

LEMMA CommitType ==
  ASSUME TypeOK, CommitWriteTxn
  PROVE  TypeOK'
<1>0. txn \in Txn /\ committed \in Image /\ nextWALSeq \in Nat
  BY DEF TypeOK
<1>1. txn.hdr \in Header /\ txn.dirty \in [Page -> Nat] /\ txn.pending \in Seq(Redo)
  BY <1>0, TxnFields
<1> DEFINE l == IF txn.pending = <<>> THEN nextWALSeq + 1
                ELSE txn.pending[Len(txn.pending)].seq
           c == IF txn.writer = "update" THEN txn.hdr.commit + 1 ELSE txn.hdr.commit
<1>2. l \in Nat
  <2>1. txn.pending # <<>> => txn.pending[Len(txn.pending)] \in Redo
    BY <1>1
  <2>2. txn.pending # <<>> => txn.pending[Len(txn.pending)].seq \in Nat
    BY <2>1 DEF Redo
  <2> QED
    BY <1>0, <2>2
<1>3. c \in Nat
  BY <1>1, HeaderFields
<1>4. FinalHeader = [txn.hdr EXCEPT !.commit = c, !.last = l]
  BY <1>1 DEF FinalHeader, Header
<1>5. FinalHeader \in Header
  BY <1>1, <1>2, <1>3, <1>4 DEF Header
<1>6. Apply(committed.page, txn.dirty) \in [Page -> Int]
  <2>1. committed.page \in [Page -> Int]
    BY <1>0 DEF Image
  <2> QED
    BY <1>1, <2>1 DEF Apply
<1>7. candidate' \in Image
  BY <1>5, <1>6 DEF CommitWriteTxn, Image
<1>8. txn' \in Txn
  BY <1>0, <1>5 DEF CommitWriteTxn, Txn
<1> QED
  BY <1>7, <1>8 DEF CommitWriteTxn, TypeOK, Phases, CommitPhases, fileVars, boundVars

LEMMA PipelineType ==
  ASSUME TypeOK, Pipeline
  PROVE  TypeOK'
<1> USE DEF TypeOK, fileVars, boundVars, histVars, Phases, CommitPhases, WALSynced, PrimarySynced
<1>1. CASE WriteWALRecord
  <2>1. NextRecord \in Record
    <3>1. txn.hdr \in Header /\ txn.pending \in Seq(Redo)
      BY TxnFields
    <3>2. step <= Len(txn.pending) => txn.pending[step] \in Redo
      BY <3>1
    <3> QED
      BY <3>1, <3>2, RecordTypes DEF NextRecord
  <2>2. wal' \in [Slot -> Record]
    BY <1>1, <2>1 DEF WriteWALRecord
  <2> QED
    BY <1>1, <2>2 DEF WriteWALRecord
<1>2. CASE SyncWAL
  BY <1>2 DEF SyncWAL
<1>3. CASE WritePrimaryPage
  <2>1. txn.pending \in Seq(Redo) /\ step <= Len(txn.pending)
    BY <1>3, TxnFields DEF WritePrimaryPage
  <2>2. txn.pending[step] \in Redo
    BY <2>1
  <2>3. txn.pending[step].seq \in Int
    BY <2>2 DEF Redo
  <2>4. page' \in [Page -> Int]
    BY <1>3, <2>3 DEF WritePrimaryPage
  <2> QED
    BY <1>3, <2>4 DEF WritePrimaryPage
<1>4. CASE SyncPrimaryPages
  BY <1>4 DEF SyncPrimaryPages
<1>5. CASE WriteHeader
  BY <1>5, TxnFields DEF WriteHeader
<1>6. CASE SyncHeader
  BY <1>6 DEF SyncHeader
<1>7. CASE TruncateWAL
  <2>1. wal' \in [Slot -> Record]
    BY <1>7, RecordTypes DEF TruncateWAL
  <2> QED
    BY <1>7, <2>1 DEF TruncateWAL
<1>8. CASE Acknowledge
  <2>1. Contents \in Image
    BY DEF Contents, Image
  <2> QED
    BY <1>8, <2>1, NoTxnType DEF Acknowledge
<1> QED
  BY <1>1, <1>2, <1>3, <1>4, <1>5, <1>6, <1>7, <1>8 DEF Pipeline

LEMMA CommitErrorType ==
  ASSUME TypeOK, CommitError
  PROVE  TypeOK'
<1>0. \/ FailedWALWrite \/ FailedPageWrite \/ FailedTruncate
      \/ FailedFinalSync \/ FailedCleanly
  BY Zenon DEF CommitError
<1> USE DEF TypeOK, fileVars, boundVars, histVars, Phases
<1>1. /\ wal' \in [Slot -> Record] /\ page' \in [Page -> Int]
      /\ walOff' \in Nat /\ walSize' \in Nat
  <2>1. CASE FailedWALWrite
    <3>1. wal' \in [Slot -> Record]
      BY <2>1, RecordTypes DEF FailedWALWrite
    <3> QED
      BY <2>1, <3>1 DEF FailedWALWrite
  <2>2. CASE FailedPageWrite
    <3>0. TornPage \in Int
      BY DEF TornPage
    <3>1. page' \in [Page -> Int]
      BY <2>2, <3>0 DEF FailedPageWrite
    <3> QED
      BY <2>2, <3>1 DEF FailedPageWrite
  <2>3. CASE FailedTruncate
    BY <2>3 DEF FailedTruncate
  <2>4. CASE FailedFinalSync
    BY <2>4 DEF FailedFinalSync
  <2>5. CASE FailedCleanly
    BY <2>5 DEF FailedCleanly
  <2> QED
    BY <1>0, <2>1, <2>2, <2>3, <2>4, <2>5
<1>2. failures' \in 0..env'.maxFailures
  BY ScenarioFields DEF CommitError
<1>3. recoveryRequired' \in BOOLEAN
  BY DEF CommitError
<1> QED
  BY <1>1, <1>2, <1>3, NoTxnType DEF CommitError

LEMMA ProcessGoneType ==
  ASSUME TypeOK, ProcessGone
  PROVE  /\ phase' \in Phases /\ txn' \in Txn /\ step' \in Nat \ {0}
         /\ walOff' \in Nat /\ walSize' \in Nat /\ nextWALSeq' \in Nat
         /\ recoveryRequired' \in BOOLEAN /\ env' \in Scenarios /\ env' = env
         /\ failures' \in 0..env'.maxFailures
         /\ committed' \in Image /\ candidate' \in Image
<1>1. phase' \in Phases /\ txn' \in Txn /\ recoveryRequired' \in BOOLEAN
  BY NoTxnType DEF ProcessGone, Phases
<1>2. step' \in Nat \ {0} /\ walOff' \in Nat /\ walSize' \in Nat /\ nextWALSeq' \in Nat
  BY DEF ProcessGone
<1>3. /\ env' \in Scenarios /\ env' = env
      /\ failures' \in 0..env'.maxFailures
      /\ committed' \in Image /\ candidate' \in Image
  BY DEF ProcessGone, TypeOK, histVars
<1> QED
  BY <1>1, <1>2, <1>3

LEMMA StopType ==
  ASSUME TypeOK, Close \/ Kill \/ PowerLoss
  PROVE  TypeOK'
<1>0. ProcessGone
  BY DEF Close, Kill, PowerLoss
<1>1. CASE Close
  <2>1. UNCHANGED <<wal, page, hdr, walDur, pageDur, hdrDur, crashes>>
    BY <1>1 DEF Close, fileVars
  <2> QED
    BY <1>0, <2>1, ProcessGoneType DEF TypeOK
<1>2. CASE Kill
  <2>1. wal' \in [Slot -> Record] /\ page' \in [Page -> Int]
    BY <1>2, RecordTypes, SMTT(60) DEF Kill, TornPage, TypeOK
  <2>2. crashes' \in 0..env'.maxCrashes
    BY <1>0, <1>2, ScenarioFields, ProcessGoneType DEF Kill, TypeOK
  <2>3. UNCHANGED <<hdr, walDur, pageDur, hdrDur>>
    BY <1>2 DEF Kill
  <2> QED
    BY <1>0, <2>1, <2>2, <2>3, ProcessGoneType DEF TypeOK
<1>3. CASE PowerLoss
  <2>1. wal' \in [Slot -> Record]
    <3>1. PICK cut \in 0..WalSlots, torn \in BOOLEAN : wal' = SurvivingWAL(cut, torn)
      BY <1>3 DEF PowerLoss
    <3> QED
      BY <3>1, RecordTypes DEF SurvivingWAL, TypeOK
  <2>2. page' \in [Page -> Int]
    <3>1. \A p \in Page : page'[p] \in Int
      BY <1>3 DEF PowerLoss, TornPage, TypeOK
    <3>2. page' = [p \in Page |-> page'[p]]
      BY <1>3 DEF PowerLoss
    <3> QED
      BY <3>1, <3>2
  <2>3. hdr' \in Header
    BY <1>3 DEF PowerLoss, TypeOK
  <2>4. crashes' \in 0..env'.maxCrashes
    BY <1>0, <1>3, ScenarioFields, ProcessGoneType DEF PowerLoss, TypeOK
  <2>5. walDur' \in [Slot -> Record] /\ pageDur' \in [Page -> Int] /\ hdrDur' \in Header
    BY <1>3, <2>1, <2>2, <2>3 DEF PowerLoss
  <2> QED
    BY <1>0, <2>1, <2>2, <2>3, <2>4, <2>5, ProcessGoneType DEF TypeOK
<1> QED
  BY <1>1, <1>2, <1>3

LEMMA RecoveryType ==
  ASSUME TypeOK, Recovery
  PROVE  TypeOK'
<1> USE DEF TypeOK, fileVars, boundVars, histVars, Phases, OpenPhases, WALSynced, PrimarySynced
<1>1. CASE OpenDatabase
  BY <1>1 DEF OpenDatabase
<1>2. CASE \E s \in Slot : ReplayPage(s)
  <2>1. PICK s \in Slot : ReplayPage(s)
    BY <1>2
  <2>2. wal[s] \in Record
    BY <2>1
  <2>3. wal[s].seq \in Int
    BY <2>2 DEF Record
  <2>4. page' \in [Page -> Int]
    BY <2>1, <2>3 DEF ReplayPage
  <2>5. step' \in Nat \ {0}
    <3>1. s \in Nat
      BY WalSlotsAssumption
    <3> QED
      BY <2>1, <3>1 DEF ReplayPage
  <2> QED
    BY <2>1, <2>4, <2>5 DEF ReplayPage
<1>3. CASE ReplayCorrupt
  BY <1>3 DEF ReplayCorrupt
<1>4. CASE ReplayPagesDone
  BY <1>4 DEF ReplayPagesDone
<1>5. CASE ReplayWriteHeader
  <2>1. PICK s \in Slot : Fresh(s) /\ hdr' = ReplayedHeader(s)
    BY <1>5 DEF ReplayWriteHeader
  <2>2. wal[s].hdr \in Header /\ wal[s].seq \in Nat
    <3>1. wal[s] \in Record
      BY <2>1
    <3>2. wal[s].seq \in Int /\ wal[s].hdr \in Header
      BY <3>1 DEF Record
    <3>3. wal[s].seq > hdr.last /\ hdr.last \in Nat
      BY <2>1, HeaderFields DEF Fresh
    <3> QED
      BY <3>2, <3>3
  <2>3. hdr' \in Header
    BY <2>1, <2>2 DEF ReplayedHeader, Header
  <2> QED
    BY <1>5, <2>3 DEF ReplayWriteHeader
<1>6. CASE ReplaySyncHeader
  BY <1>6 DEF ReplaySyncHeader
<1>7. CASE OpenTruncateWAL
  BY <1>7, RecordTypes DEF OpenTruncateWAL
<1>8. CASE OpenSyncWAL
  BY <1>8, HeaderFields DEF OpenSyncWAL
<1>9. CASE OpenReadTree
  <2>1. Settled \in Image
    BY DEF Settled, Contents, Image
  <2> QED
    BY <1>9, <2>1 DEF OpenReadTree
<1> QED
  BY <1>1, <1>2, <1>3, <1>4, <1>5, <1>6, <1>7, <1>8, <1>9 DEF Recovery

(***************************************************************************)
(* Type correctness of the commit pipeline, the crashes and the recovery,  *)
(* for every value of the constants.                                       *)
(***************************************************************************)
THEOREM TypeCorrect == Spec => []TypeOK
<1>1. TypeOK /\ [Next]_vars => TypeOK'
  <2> SUFFICES ASSUME TypeOK, [Next]_vars PROVE TypeOK'
    OBVIOUS
  <2>1. CASE UNCHANGED vars
    BY <2>1 DEF TypeOK, vars, fileVars, procVars, boundVars, histVars
  <2>2. CASE AbortWriteTxn
    BY <2>2, NoTxnType DEF AbortWriteTxn, TypeOK, Phases, fileVars, boundVars, histVars
  <2> QED
    BY <2>1, <2>2, BeginType, WritePageType, SetRootType, CommitType, PipelineType,
       CommitErrorType, StopType, RecoveryType DEF Next
<1> QED
  BY <1>1, InitType, PTL DEF Spec

-----------------------------------------------------------------------------
(* The transaction and the pipeline.                                       *)

InCommit == phase \in CommitPhases
InTxn == phase = "txn" \/ InCommit

Redos == Len(txn.pending)

(* Among the first n redo records, v is the last image of page p; or there *)
(* is none of it.                                                          *)
LastImage(p, n, v) ==
  \E i \in 1..n : /\ txn.pending[i].page = p /\ txn.pending[i].seq = v
                  /\ \A j \in 1..n : j > i => txn.pending[j].page # p
NoImage(p, n) == \A i \in 1..n : txn.pending[i].page # p

(* No writer is inside while the outcome of a commit is unknown.           *)
GateInv ==
  /\ recoveryRequired => phase = "ready" /\ env.maxFailures > 0
  /\ InTxn => txn.writer \in env.writers /\ (txn.writer = "reclaim" => Authenticated)
  /\ phase \in {"down", "refused"} \cup OpenPhases => walOff = 1 /\ walSize = 0

(* The redo numbers are above the committed header, and the dirty map has  *)
(* the newest of each page.                                                *)
RedoInv ==
  InTxn =>
    /\ \A i \in 1..Redos :
         /\ txn.pending[i].seq > committed.hdr.last
         /\ txn.pending[i].seq <= nextWALSeq
         /\ InCommit => txn.pending[i].seq <= txn.hdr.last
    /\ \A i, j \in 1..Redos : i < j => txn.pending[i].seq < txn.pending[j].seq
    /\ \A p \in Page : \/ LastImage(p, Redos, txn.dirty[p])
                       \/ NoImage(p, Redos) /\ txn.dirty[p] = 0
    /\ phase = "txn" => txn.hdr.last = committed.hdr.last

(* A whole record that the header h already covers.                        *)
Old(r, h) == r # Torn /\ r.seq <= h.last
NothingNew(w, h) == \A s \in Slot : Old(w[s], h)

(* A usable handle: the files hold the last commit, and the log nothing    *)
(* that is newer.                                                          *)
ReadyInv ==
  Healthy =>
    /\ Contents = committed /\ candidate = committed
    /\ NothingNew(wal, hdr)
    /\ hdr.last <= nextWALSeq
    /\ walOff = 1 /\ walSize = 0

(* Record number s of the commit under way, and the log when the first n   *)
(* have been written.                                                      *)
RecordAt(s) ==
  IF s <= Redos THEN PageRecord(txn.pending[s]) ELSE HeaderRecord(txn.hdr)

Logged(w, n) ==
  /\ n \in 0..WalSlots
  /\ \A s \in Slot : IF s <= n THEN w[s] = RecordAt(s)
                     ELSE Old(w[s], committed.hdr)

(* The pages when the first n redo records have been written to them.      *)
Written(n) ==
  \A p \in Page : \/ LastImage(p, n, page[p])
                  \/ NoImage(p, n) /\ page[p] = committed.page[p]

CommitInv ==
  InCommit =>
    /\ candidate = [page |-> Apply(committed.page, txn.dirty), hdr |-> txn.hdr]
    /\ txn.hdr.last > committed.hdr.last /\ txn.hdr.last <= nextWALSeq
    /\ txn.pending = <<>> => Authenticated
    /\ phase = "append" => Logged(wal, step - 1) /\ walOff = step /\ walSize = step - 1
                           /\ step <= RecordCount
    /\ phase # "append" => Logged(wal, RecordCount)
                           /\ walSize = (IF phase = "seek" THEN 0 ELSE RecordCount)
    /\ phase \in {"append", "walSync"} => Contents = committed
    /\ phase = "primary" => Written(step - 1) /\ step <= Redos + 1 /\ hdr = committed.hdr
    /\ phase = "header" => page = candidate.page /\ hdr = committed.hdr
    /\ phase \in {"headerSync", "truncate", "seek"} => Contents = candidate

(* The log is emptied before the handle is given out.                      *)
OpenInv ==
  /\ phase \in {"openSync", "openTree"} => wal = [s \in Slot |-> Empty]
  /\ phase = "openTree" => nextWALSeq = hdr.last

ProcessInv ==
  /\ TypeOK
  /\ Careful => GateInv /\ RedoInv /\ ReadyInv /\ CommitInv /\ OpenInv

-----------------------------------------------------------------------------
(* The medium, when processes are not interrupted.                         *)

DurableInv ==
  Uninterrupted =>
    /\ phase \in {"ready", "txn", "append", "walSync", "header", "truncate", "seek", "down",
                  "openTruncate", "openSync", "openTree"} => pageDur = page
    /\ phase \notin {"refused", "headerSync", "replayHeaderSync"} => hdrDur = hdr
    /\ phase \notin {"append", "walSync", "seek", "openSync"} => walDur = wal
    /\ phase = "primary" => pageDur = committed.page
    /\ phase = "headerSync" => pageDur = page /\ hdrDur = committed.hdr
    /\ phase \in {"ready", "txn", "append", "walSync", "seek", "openSync", "openTree"} =>
         NothingNew(walDur, hdr)
    /\ phase \in {"replayHeaderSync", "openTruncate"} => NothingNew(wal, hdr)
    /\ Authenticated /\ phase \in {"refused", "replayHeader", "replayHeaderSync"} => pageDur = page
    /\ Authenticated /\ phase = "refused" => hdrDur = hdr
    /\ phase = "replay" => \A s \in Slot : s < step => wal[s] # Torn
    /\ phase = "replayHeader" => ~Damaged

-----------------------------------------------------------------------------
(* Recovery of format v3.                                                  *)

(* The log w holds the whole of the commit with the outcome candidate:     *)
(* its redo records, the marker in slot m, and nothing newer behind it.    *)
WholeTo(w, m) ==
  /\ m \in Slot
  /\ candidate.hdr.last > committed.hdr.last
  /\ w[m] = HeaderRecord(candidate.hdr)
  /\ \A s \in Slot :
       /\ s < m => /\ w[s].page \in Page /\ w[s].seq > committed.hdr.last
                   /\ w[s].seq <= candidate.hdr.last
       /\ s > m => Old(w[s], committed.hdr)

(* What redo between the slots k and m does to the pages pg gives the      *)
(* candidate.                                                              *)
LastRecord(w, k, m, p, v) ==
  \E s \in Slot : /\ k <= s /\ s < m /\ w[s].page = p /\ w[s].seq = v
                  /\ \A t \in Slot : s < t /\ t < m => w[t].page # p
NoRecord(w, k, m, p) == \A s \in Slot : k <= s /\ s < m => w[s].page # p
Redoes(w, k, m, pg) ==
  \A p \in Page : \/ LastRecord(w, k, m, p, candidate.page[p])
                  \/ NoRecord(w, k, m, p) /\ pg[p] = candidate.page[p]

(* Every page is as before the commit, torn, or one of the logged images.  *)
Known(w, m, pg) ==
  \A p \in Page : \/ pg[p] \in {committed.page[p], TornPage}
                  \/ \E s \in Slot : s < m /\ w[s].page = p /\ w[s].seq = pg[p]

Repairable(w, pg) == \E m \in Slot : WholeTo(w, m) /\ Redoes(w, 1, m, pg) /\ Known(w, m, pg)

(* A log that Open refuses: a damaged record, or records without marker.   *)
Unmarked(w) ==
  /\ \E s \in Slot : w[s].seq > committed.hdr.last
  /\ \A s \in Slot : w[s].seq > committed.hdr.last => w[s].page # 0
Unusable(w, h) ==
  \/ \E s \in Slot : w[s] = Torn
  \/ h = committed.hdr /\ Unmarked(w)

(* What a process may find when it opens the files.                        *)
Disk(w, pg, h) ==
  \/ [page |-> pg, hdr |-> h] \in {committed, candidate} /\ (NothingNew(w, h) \/ Unusable(w, h))
  \/ h = committed.hdr /\ Repairable(w, pg)

Covered(img) == \A p \in Page : img.page[p] <= img.hdr.last
Pinned(img) ==
  img.hdr.root # 0 => img.hdr.root \in Page /\ img.page[img.hdr.root] = img.hdr.gen

PinInv ==
  /\ candidate = committed \/ candidate.hdr.last > committed.hdr.last
  /\ Covered(committed) /\ Covered(candidate)
  /\ Pinned(committed) /\ Pinned(candidate)
  /\ InTxn => Pinned([page |-> Apply(committed.page, txn.dirty), hdr |-> txn.hdr])

DiskInv ==
  /\ phase \in {"down", "refused"} \/ recoveryRequired => Disk(wal, page, hdr)
  /\ phase = "replay" =>
       /\ hdr = committed.hdr /\ Repairable(wal, page)
       /\ \A m \in Slot : WholeTo(wal, m) => Redoes(wal, step, m, page)
       /\ Uninterrupted => Repairable(wal, pageDur)
  /\ phase = "replayHeader" =>
       hdr = committed.hdr /\ page = candidate.page /\ Repairable(wal, page)
  /\ phase = "replayHeaderSync" =>
       /\ Contents = candidate /\ Repairable(wal, page)
       /\ Uninterrupted => hdrDur = committed.hdr
  /\ phase \in {"openTruncate", "openSync", "openTree"} => Contents \in {committed, candidate}
  /\ phase = "openTruncate" => NothingNew(wal, hdr)

AtomicInv == Atomic => PinInv /\ DiskInv

IInv == ProcessInv /\ DurableInv /\ AtomicInv

-----------------------------------------------------------------------------
(* Types and frames. *)

(* The types of what the proofs read most. *)
LEMMA Fields ==
  ASSUME TypeOK
  PROVE  /\ hdr.last \in Nat /\ txn.hdr.last \in Nat /\ hdrDur.last \in Nat
         /\ committed.hdr.last \in Nat /\ candidate.hdr.last \in Nat
         /\ Redos \in Nat /\ WalSlots \in Nat /\ txn.pending \in Seq(Redo)
         /\ committed.hdr \in Header /\ candidate.hdr \in Header
         /\ committed.page \in [Page -> Int] /\ candidate.page \in [Page -> Int]
         /\ txn.hdr \in Header /\ txn.dirty \in [Page -> Nat]
<1>1. /\ committed.hdr \in Header /\ candidate.hdr \in Header
      /\ committed.page \in [Page -> Int] /\ candidate.page \in [Page -> Int]
  BY DEF TypeOK, Image
<1>2. txn.hdr \in Header /\ txn.pending \in Seq(Redo) /\ txn.dirty \in [Page -> Nat]
  BY TxnFields DEF TypeOK
<1>3. Redos \in Nat BY <1>2 DEF Redos
<1>4. hdr \in Header /\ hdrDur \in Header BY DEF TypeOK
<1> QED BY <1>1, <1>2, <1>3, <1>4, HeaderFields, WalSlotsAssumption

(* A redo record names a page and a sequence number. *)
LEMMA RedoFields ==
  ASSUME TypeOK, NEW i \in 1..Redos
  PROVE  /\ txn.pending[i] \in Redo
         /\ txn.pending[i].seq \in Nat /\ txn.pending[i].page \in Page
         /\ txn.pending[i].page \in Nat \ {0}
<1>1. txn.pending \in Seq(Redo) BY Fields
<1>2. txn.pending[i] \in Redo BY <1>1 DEF Redos
<1> QED BY <1>2, PageAssumption DEF Redo

(* A slot of the log holds a record. *)
LEMMA RecordFields ==
  ASSUME TypeOK, NEW s \in Slot
  PROVE  /\ wal[s] \in Record /\ walDur[s] \in Record
         /\ wal[s].seq \in Int /\ walDur[s].seq \in Int
         /\ wal[s].page \in Nat /\ walDur[s].page \in Nat
<1>1. wal[s] \in Record /\ walDur[s] \in Record BY DEF TypeOK
<1> QED BY <1>1 DEF Record

(* A header and a record are what their fields are. *)
LEMMA MarkerFields ==
  ASSUME NEW h \in Header
  PROVE  HeaderRecord(h).seq = h.last /\ HeaderRecord(h).page = 0 /\ HeaderRecord(h).hdr = h
BY DEF HeaderRecord

(* So is a redo record in the log. *)
LEMMA PageRecordFields ==
  ASSUME NEW r \in Redo
  PROVE  PageRecord(r).seq = r.seq /\ PageRecord(r).page = r.page
BY DEF PageRecord

(* An empty slot is older than any header. *)
LEMMA EmptyOld == ASSUME NEW h, h.last \in Nat PROVE Old(Empty, h)
BY DEF Old, Empty, Torn

(* The scenario is chosen once. *)
LEMMA EnvFixed ==
  ASSUME [Next]_vars PROVE env' = env
<1>1. CASE UNCHANGED vars BY <1>1 DEF vars, boundVars
<1>2. CASE Pipeline
  BY <1>2 DEF Pipeline, WriteWALRecord, SyncWAL, WritePrimaryPage, SyncPrimaryPages,
              WriteHeader, SyncHeader, TruncateWAL, Acknowledge, boundVars
<1>3. CASE Recovery
  BY <1>3 DEF Recovery, OpenDatabase, ReplayPage, ReplayCorrupt, ReplayPagesDone,
              ReplayWriteHeader, ReplaySyncHeader, OpenTruncateWAL, OpenSyncWAL,
              OpenReadTree, boundVars
<1>4. CASE CommitError BY <1>4 DEF CommitError
<1>5. CASE Close \/ Kill \/ PowerLoss BY <1>5 DEF Close, Kill, PowerLoss, ProcessGone
<1>6. CASE \/ \E w \in env.writers : BeginWriteTxn(w)
           \/ \E p \in Page : WritePage(p)
           \/ \E r \in Page \cup {0} : SetRoot(r)
           \/ AbortWriteTxn
           \/ CommitWriteTxn
  BY <1>6 DEF BeginWriteTxn, WritePage, SetRoot, AbortWriteTxn, CommitWriteTxn, boundVars
<1> QED BY <1>1, <1>2, <1>3, <1>4, <1>5, <1>6 DEF Next

(* Types are preserved. *)
LEMMA TypeStep == ASSUME TypeOK, [Next]_vars PROVE TypeOK'
<1>1. CASE UNCHANGED vars
  BY <1>1 DEF TypeOK, vars, fileVars, procVars, boundVars, histVars
<1>2. CASE AbortWriteTxn
  BY <1>2, NoTxnType DEF AbortWriteTxn, TypeOK, Phases, fileVars, boundVars, histVars
<1> QED
  BY <1>1, <1>2, BeginType, WritePageType, SetRootType, CommitType, PipelineType,
     CommitErrorType, StopType, RecoveryType DEF Next

(* An error under the assumption blocks the next writer.                   *)
LEMMA ErrorBlocks ==
  ASSUME TypeOK, Careful, GateInv, CommitError
  PROVE  recoveryRequired' = TRUE /\ env.maxFailures > 0
<1>1. env.maxFailures \in Nat /\ env.maxFailures > 0
  BY ScenarioFields DEF CommitError, TypeOK
<1>2. env.writers \subseteq {"update"} BY <1>1 DEF Careful
<1>3. txn.writer = "update" BY <1>2 DEF CommitError, GateInv, InTxn, InCommit
<1> QED BY <1>1, <1>3 DEF CommitError, BlocksWritersOnError

(* A writer begins on a usable handle. *)
LEMMA BeginsHealthy ==
  ASSUME TypeOK, Careful, GateInv, NEW w \in env.writers, BeginWriteTxn(w)
  PROVE  ~recoveryRequired /\ Healthy
<1>1. CASE w = "update" BY <1>1 DEF BeginWriteTxn, MayWrite, Healthy
<1>2. CASE w # "update"
  <2>1. env.maxFailures = 0 BY <1>2 DEF Careful
  <2> QED BY <2>1 DEF GateInv, BeginWriteTxn, Healthy
<1> QED BY <1>1, <1>2

(* Every step keeps writers out while an outcome is unknown. *)
LEMMA GateStep ==
  ASSUME TypeOK, Careful, GateInv, [Next]_vars
  PROVE  GateInv'
<1>0. env' = env BY EnvFixed
<1> USE <1>0 DEF GateInv, InTxn, InCommit, CommitPhases, OpenPhases, Authenticated
<1>1. CASE UNCHANGED vars BY <1>1 DEF vars, procVars
<1>2. CASE Pipeline
  <2>1. txn' = txn \/ phase' = "ready"
    BY <1>2 DEF Pipeline, WriteWALRecord, SyncWAL, WritePrimaryPage, SyncPrimaryPages,
              WriteHeader, SyncHeader, TruncateWAL, Acknowledge
  <2>2. /\ phase \in CommitPhases /\ phase' \in CommitPhases \cup {"ready"}
        /\ recoveryRequired' = recoveryRequired
    BY <1>2 DEF Pipeline, WriteWALRecord, SyncWAL, WritePrimaryPage, SyncPrimaryPages,
              WriteHeader, SyncHeader, TruncateWAL, Acknowledge
  <2> QED BY <2>1, <2>2
<1>3. CASE Recovery
  <2>1. /\ phase \in OpenPhases \cup {"down"} /\ phase' \in OpenPhases \cup {"refused", "ready"}
        /\ recoveryRequired' = recoveryRequired /\ walOff' = walOff /\ walSize' = walSize
    BY <1>3 DEF Recovery, OpenDatabase, ReplayPage, ReplayCorrupt, ReplayPagesDone,
              ReplayWriteHeader, ReplaySyncHeader, OpenTruncateWAL, OpenSyncWAL,
              OpenReadTree
  <2> QED BY <2>1
<1>4. CASE CommitError
  <2>1. phase' = "ready" /\ env.maxFailures > 0 BY <1>4, ErrorBlocks DEF CommitError
  <2> QED BY <2>1
<1>5. CASE Close \/ Kill \/ PowerLoss BY <1>5 DEF Close, Kill, PowerLoss, ProcessGone
<1>6. ASSUME NEW w \in env.writers, BeginWriteTxn(w) PROVE GateInv'
  <2>1. ~recoveryRequired BY <1>6, BeginsHealthy
  <2> QED BY <1>6, <2>1 DEF BeginWriteTxn, MayWrite
<1>7. CASE \/ \E p \in Page : WritePage(p)
           \/ \E r \in Page \cup {0} : SetRoot(r)
           \/ CommitWriteTxn
  <2>1. /\ phase = "txn" /\ phase' \in {"txn", "append"} /\ recoveryRequired' = recoveryRequired
        /\ txn'.writer = txn.writer
    BY <1>7 DEF WritePage, SetRoot, CommitWriteTxn, TypeOK, Txn
  <2> QED BY <2>1
<1>8. CASE AbortWriteTxn BY <1>8 DEF AbortWriteTxn
<1> QED BY <1>1, <1>2, <1>3, <1>4, <1>5, <1>6, <1>7, <1>8 DEF Next

-----------------------------------------------------------------------------
(* The transaction. *)

(* What FinalHeader changes. *)
LEMMA FinalFields ==
  ASSUME TypeOK
  PROVE  /\ FinalHeader.last = IF txn.pending = <<>> THEN nextWALSeq + 1
                               ELSE txn.pending[Redos].seq
         /\ FinalHeader.root = txn.hdr.root /\ FinalHeader.gen = txn.hdr.gen
<1>1. txn.hdr \in Header BY Fields
<1> QED BY <1>1 DEF FinalHeader, Header, Redos

(* A step that keeps the transaction and does not enter the pipeline. *)
LEMMA RedoKept ==
  ASSUME RedoInv, UNCHANGED <<txn, committed, nextWALSeq>>, InTxn' => InTxn,
         InCommit' => InCommit, phase' = "txn" => phase = "txn"
  PROVE  RedoInv'
<1> SUFFICES ASSUME InTxn' PROVE RedoInv' BY DEF RedoInv
<1>1. InTxn OBVIOUS
<1>2. Redos' = Redos BY DEF Redos
<1>3. \A i \in 1..Redos : /\ txn.pending[i].seq > committed.hdr.last
                          /\ txn.pending[i].seq <= nextWALSeq
                          /\ InCommit => txn.pending[i].seq <= txn.hdr.last
  BY <1>1 DEF RedoInv
<1>4. \A i, j \in 1..Redos : i < j => txn.pending[i].seq < txn.pending[j].seq
  BY <1>1 DEF RedoInv
<1>5. \A p \in Page : \/ LastImage(p, Redos, txn.dirty[p])
                      \/ NoImage(p, Redos) /\ txn.dirty[p] = 0
  BY <1>1 DEF RedoInv
<1>6. \A p \in Page : \/ LastImage(p, Redos, txn.dirty[p])'
                      \/ NoImage(p, Redos)' /\ txn'.dirty[p] = 0
  BY <1>2, <1>5 DEF LastImage, NoImage
<1>7. phase' = "txn" => txn'.hdr.last = committed'.hdr.last BY <1>1 DEF RedoInv
<1> QED BY <1>2, <1>3, <1>4, <1>6, <1>7 DEF RedoInv

(* A page write appends the newest image of its page. *)
LEMMA RedoWrite ==
  ASSUME TypeOK, GateInv, ReadyInv, RedoInv, NEW p \in Page, WritePage(p)
  PROVE  RedoInv'
<1> DEFINE n == nextWALSeq + 1
           e == [seq |-> n, page |-> p]
<1>1. /\ txn'.pending = Append(txn.pending, e) /\ txn'.dirty = [txn.dirty EXCEPT ![p] = n]
      /\ txn'.hdr.last = txn.hdr.last /\ committed' = committed /\ nextWALSeq' = n
      /\ phase = "txn" /\ phase' = "txn"
  <2>1. txn \in Txn /\ txn.hdr \in Header BY Fields DEF TypeOK
  <2> QED BY <2>1 DEF WritePage, histVars, Txn, Header
<1>2. txn.pending \in Seq(Redo) /\ Redos \in Nat /\ n \in Nat /\ nextWALSeq \in Nat
  BY Fields DEF TypeOK
<1>3. Redos' = Redos + 1 BY <1>1, <1>2 DEF Redos
<1>4. \A i \in 1..Redos : txn'.pending[i] = txn.pending[i] BY <1>1, <1>2 DEF Redos
<1>5. txn'.pending[Redos + 1] = e BY <1>1, <1>2 DEF Redos
<1>6. e.seq = n /\ e.page = p OBVIOUS
<1> HIDE DEF e
<1>7. committed.hdr.last <= nextWALSeq /\ committed.hdr.last \in Nat
  BY <1>1, Fields DEF ReadyInv, Healthy, GateInv, Contents
<1>8. ~InCommit' /\ InTxn BY <1>1 DEF InCommit, InTxn, CommitPhases
<1>9. \A i \in 1..Redos' : /\ txn'.pending[i].seq > committed'.hdr.last
                           /\ txn'.pending[i].seq <= nextWALSeq'
  <2> TAKE i \in 1..Redos'
  <2>1. CASE i = Redos + 1 BY <2>1, <1>1, <1>2, <1>5, <1>6, <1>7
  <2>2. CASE i # Redos + 1
    <3>1. i \in 1..Redos BY <2>2, <1>2, <1>3
    <3>2. /\ txn.pending[i].seq > committed.hdr.last /\ txn.pending[i].seq <= nextWALSeq
          /\ txn.pending[i].seq \in Nat
      BY <3>1, <1>8, RedoFields DEF RedoInv
    <3>3. txn'.pending[i] = txn.pending[i] BY <3>1, <1>4
    <3>4. txn.pending[i].seq <= n BY <3>2, <1>2
    <3> QED BY <3>2, <3>3, <3>4, <1>1
  <2> QED BY <2>1, <2>2
<1>10. \A i, j \in 1..Redos' : i < j => txn'.pending[i].seq < txn'.pending[j].seq
  <2> SUFFICES ASSUME NEW i \in 1..Redos', NEW j \in 1..Redos', i < j
               PROVE  txn'.pending[i].seq < txn'.pending[j].seq
    OBVIOUS
  <2>1. i \in 1..Redos BY <1>2, <1>3
  <2>2. txn.pending[i].seq <= nextWALSeq /\ txn.pending[i].seq \in Nat
    BY <2>1, <1>8, RedoFields DEF RedoInv
  <2>3. CASE j = Redos + 1 BY <2>1, <2>2, <2>3, <1>2, <1>4, <1>5, <1>6
  <2>4. CASE j # Redos + 1
    <3>1. j \in 1..Redos BY <2>4, <1>2, <1>3
    <3> QED BY <2>1, <3>1, <1>4, <1>8 DEF RedoInv
  <2> QED BY <2>3, <2>4
<1>11. \A q \in Page : \/ LastImage(q, Redos, txn.dirty[q])'
                       \/ NoImage(q, Redos)' /\ txn'.dirty[q] = 0
  <2> TAKE q \in Page
  <2>0. txn.dirty \in [Page -> Nat] BY Fields
  <2>1. CASE q = p
    <3>1. txn'.dirty[q] = n BY <2>0, <2>1, <1>1
    <3>2. Redos + 1 \in 1..Redos' BY <1>2, <1>3
    <3>3. LastImage(q, Redos, txn.dirty[q])'
      BY <2>1, <3>1, <3>2, <1>2, <1>3, <1>5, <1>6 DEF LastImage
    <3> QED BY <3>3
  <2>2. CASE q # p
    <3>1. txn'.dirty[q] = txn.dirty[q] BY <2>0, <2>2, <1>1
    <3>2. \A j \in 1..Redos' : j \in 1..Redos \/ (j = Redos + 1 /\ txn'.pending[j].page # q)
      BY <2>2, <1>2, <1>3, <1>5, <1>6
    <3>3. CASE LastImage(q, Redos, txn.dirty[q])
      <4>1. PICK i \in 1..Redos : /\ txn.pending[i].page = q
                                  /\ txn.pending[i].seq = txn.dirty[q]
                                  /\ \A j \in 1..Redos : j > i => txn.pending[j].page # q
        BY <3>3 DEF LastImage
      <4>2. i \in 1..Redos' BY <1>2, <1>3
      <4>3. \A j \in 1..Redos' : j > i => txn'.pending[j].page # q
        BY <4>1, <3>2, <1>4
      <4>4. LastImage(q, Redos, txn.dirty[q])' BY <4>1, <4>2, <4>3, <3>1, <1>4 DEF LastImage
      <4> QED BY <4>4
    <3>4. CASE NoImage(q, Redos) /\ txn.dirty[q] = 0
      <4>1. NoImage(q, Redos)' BY <3>4, <3>2, <1>4 DEF NoImage
      <4> QED BY <4>1, <3>4, <3>1
    <3> QED BY <3>3, <3>4, <1>8 DEF RedoInv
  <2> QED BY <2>1, <2>2
<1>12. txn'.hdr.last = committed'.hdr.last BY <1>1 DEF RedoInv, InTxn
<1> QED BY <1>8, <1>9, <1>10, <1>11, <1>12 DEF RedoInv

(* The final header covers the redo records. *)
LEMMA RedoCommit ==
  ASSUME TypeOK, RedoInv, CommitWriteTxn
  PROVE  RedoInv'
<1>1. /\ txn'.pending = txn.pending /\ txn'.dirty = txn.dirty /\ txn'.hdr = FinalHeader
      /\ committed' = committed /\ phase = "txn" /\ phase' = "append"
      /\ nextWALSeq' = IF txn.pending = <<>> THEN nextWALSeq + 1 ELSE nextWALSeq
  <2>1. txn \in Txn BY DEF TypeOK
  <2> QED BY <2>1 DEF CommitWriteTxn, Txn
<1>2. Redos' = Redos /\ InTxn BY <1>1 DEF Redos, InTxn
<1>3. Redos \in Nat /\ nextWALSeq \in Nat /\ txn.pending \in Seq(Redo) BY Fields DEF TypeOK
<1>4. \A i \in 1..Redos : /\ txn.pending[i].seq > committed.hdr.last
                          /\ txn.pending[i].seq <= nextWALSeq
                          /\ txn.pending[i].seq \in Nat
  BY <1>2, RedoFields DEF RedoInv
<1>5. \A i \in 1..Redos : txn.pending[i].seq <= FinalHeader.last
  <2> TAKE i \in 1..Redos
  <2>1. txn.pending # <<>> /\ Redos \in 1..Redos BY <1>3 DEF Redos
  <2>2. FinalHeader.last = txn.pending[Redos].seq BY <2>1, FinalFields
  <2>3. i < Redos => txn.pending[i].seq < txn.pending[Redos].seq
    BY <2>1, <1>2 DEF RedoInv
  <2>4. i = Redos \/ i < Redos BY <1>3
  <2> QED BY <2>1, <2>2, <2>3, <2>4, <1>4
<1>6. \A p \in Page : \/ LastImage(p, Redos, txn.dirty[p])'
                      \/ NoImage(p, Redos)' /\ txn'.dirty[p] = 0
  <2>1. \A p \in Page : \/ LastImage(p, Redos, txn.dirty[p])
                        \/ NoImage(p, Redos) /\ txn.dirty[p] = 0
    BY <1>2 DEF RedoInv
  <2> QED BY <2>1, <1>1, <1>2 DEF LastImage, NoImage
<1>7. \A i, j \in 1..Redos : i < j => txn.pending[i].seq < txn.pending[j].seq
  BY <1>2 DEF RedoInv
<1>8. nextWALSeq' >= nextWALSeq /\ nextWALSeq' \in Nat BY <1>1, <1>3
<1>9. \A i \in 1..Redos' : /\ txn'.pending[i].seq > committed'.hdr.last
                           /\ txn'.pending[i].seq <= nextWALSeq'
                           /\ txn'.pending[i].seq <= txn'.hdr.last
  BY <1>1, <1>2, <1>3, <1>4, <1>5, <1>8
<1> QED BY <1>1, <1>2, <1>6, <1>7, <1>9 DEF RedoInv

(* Every step keeps the redo records in order and the dirty map newest. *)
LEMMA RedoStep ==
  ASSUME TypeOK, Careful, GateInv, ReadyInv, RedoInv, [Next]_vars
  PROVE  RedoInv'
<1> USE DEF InTxn, InCommit, CommitPhases
<1>1. CASE UNCHANGED vars
  <2>1. UNCHANGED <<txn, committed, nextWALSeq, phase>> BY <1>1 DEF vars, procVars, histVars
  <2> QED BY <2>1, RedoKept
<1>2. CASE Pipeline
  <2>1. \/ UNCHANGED <<txn, committed, nextWALSeq>> /\ InCommit /\ phase' \in CommitPhases
        \/ phase' = "ready"
    BY <1>2 DEF Pipeline, WriteWALRecord, SyncWAL, WritePrimaryPage, SyncPrimaryPages,
              WriteHeader, SyncHeader, TruncateWAL, Acknowledge, histVars
  <2>2. CASE phase' = "ready" BY <2>2 DEF RedoInv
  <2>3. CASE UNCHANGED <<txn, committed, nextWALSeq>> /\ InCommit /\ phase' \in CommitPhases
    BY <2>3, RedoKept
  <2> QED BY <2>1, <2>2, <2>3
<1>3. CASE Recovery
  <2>1. phase' \in OpenPhases \cup {"refused", "ready"}
    BY <1>3 DEF Recovery, OpenDatabase, ReplayPage, ReplayCorrupt, ReplayPagesDone,
              ReplayWriteHeader, ReplaySyncHeader, OpenTruncateWAL, OpenSyncWAL,
              OpenReadTree, OpenPhases
  <2> QED BY <2>1 DEF RedoInv, OpenPhases
<1>4. CASE CommitError BY <1>4 DEF CommitError, RedoInv
<1>5. CASE Close \/ Kill \/ PowerLoss BY <1>5 DEF Close, Kill, PowerLoss, ProcessGone, RedoInv
<1>6. ASSUME NEW w \in env.writers, BeginWriteTxn(w) PROVE RedoInv'
  <2>1. Healthy BY <1>6, BeginsHealthy
  <2>2. /\ txn'.pending = <<>> /\ txn'.dirty = NotDirty /\ txn'.hdr = hdr
        /\ committed' = committed /\ phase' = "txn"
    BY <1>6 DEF BeginWriteTxn, histVars
  <2>3. hdr = committed.hdr BY <2>1 DEF ReadyInv, Contents
  <2>4. Redos' = 0 BY <2>2 DEF Redos
  <2>5. \A p \in Page : NoImage(p, Redos)' /\ txn'.dirty[p] = 0
    BY <2>2, <2>4 DEF NoImage, NotDirty
  <2> QED BY <2>2, <2>3, <2>4, <2>5 DEF RedoInv
<1>7. ASSUME NEW p \in Page, WritePage(p) PROVE RedoInv' BY <1>7, RedoWrite
<1>8. ASSUME NEW r \in Page \cup {0}, SetRoot(r) PROVE RedoInv'
  <2>1. /\ txn'.pending = txn.pending /\ txn'.dirty = txn.dirty
        /\ txn'.hdr.last = txn.hdr.last /\ UNCHANGED <<committed, nextWALSeq>>
        /\ phase = "txn" /\ phase' = "txn"
    <3>1. txn \in Txn /\ txn.hdr \in Header BY Fields DEF TypeOK
    <3> QED BY <1>8, <3>1 DEF SetRoot, histVars, Txn, Header
  <2>2. Redos' = Redos BY <2>1 DEF Redos
  <2>3. \A p \in Page : \/ LastImage(p, Redos, txn.dirty[p])'
                        \/ NoImage(p, Redos)' /\ txn'.dirty[p] = 0
    <3>1. \A p \in Page : \/ LastImage(p, Redos, txn.dirty[p])
                          \/ NoImage(p, Redos) /\ txn.dirty[p] = 0
      BY <2>1 DEF RedoInv
    <3> QED BY <3>1, <2>1, <2>2 DEF LastImage, NoImage
  <2> QED BY <2>1, <2>2, <2>3 DEF RedoInv
<1>9. CASE AbortWriteTxn BY <1>9 DEF AbortWriteTxn, RedoInv
<1>10. CASE CommitWriteTxn BY <1>10, RedoCommit
<1> QED BY <1>1, <1>2, <1>3, <1>4, <1>5, <1>6, <1>7, <1>8, <1>9, <1>10 DEF Next

-----------------------------------------------------------------------------
(* The pipeline. *)

(* The last image is one image, and is not there without records. *)
LEMMA LastUnique ==
  ASSUME TypeOK, NEW p \in Page, NEW v, NEW u, LastImage(p, Redos, v), LastImage(p, Redos, u)
  PROVE  v = u
<1>1. PICK i \in 1..Redos : /\ txn.pending[i].page = p /\ txn.pending[i].seq = v
                            /\ \A j \in 1..Redos : j > i => txn.pending[j].page # p
  BY DEF LastImage
<1>2. PICK k \in 1..Redos : /\ txn.pending[k].page = p /\ txn.pending[k].seq = u
                            /\ \A j \in 1..Redos : j > k => txn.pending[j].page # p
  BY DEF LastImage
<1>3. i = k
  <2>1. i \in Nat /\ k \in Nat BY Fields
  <2>2. ~(k > i) BY <1>1, <1>2
  <2>3. ~(i > k) BY <1>1, <1>2
  <2> QED BY <2>1, <2>2, <2>3
<1> QED BY <1>1, <1>2, <1>3

(* When all redo records have been written, the pages are the candidate's. *)
LEMMA AllWritten ==
  ASSUME TypeOK, RedoInv, CommitInv, InCommit, Written(Redos)
  PROVE  page = candidate.page
<1>1. candidate.page = Apply(committed.page, txn.dirty) BY DEF CommitInv
<1>2. ASSUME NEW p \in Page
      PROVE  page[p] = IF txn.dirty[p] = 0 THEN committed.page[p] ELSE txn.dirty[p]
  <2>1. \/ LastImage(p, Redos, txn.dirty[p])
        \/ NoImage(p, Redos) /\ txn.dirty[p] = 0
    BY DEF RedoInv, InTxn
  <2>2. CASE LastImage(p, Redos, page[p])
    <3>1. PICK i \in 1..Redos : txn.pending[i].page = p /\ txn.pending[i].seq = page[p]
      BY <2>2 DEF LastImage
    <3>2. LastImage(p, Redos, txn.dirty[p]) BY <2>1, <3>1 DEF NoImage
    <3>3. page[p] = txn.dirty[p] BY <2>2, <3>2, LastUnique
    <3>4. txn.pending[i].seq > committed.hdr.last /\ txn.pending[i].seq \in Nat
      BY RedoFields DEF RedoInv, InTxn
    <3>5. page[p] # 0 BY <3>1, <3>4, Fields
    <3> QED BY <3>3, <3>5
  <2>3. CASE NoImage(p, Redos) /\ page[p] = committed.page[p]
    <3>1. ~LastImage(p, Redos, txn.dirty[p]) BY <2>3 DEF LastImage, NoImage
    <3> QED BY <2>1, <2>3, <3>1
  <2> QED BY <2>2, <2>3 DEF Written
<1>3. page = [p \in Page |-> page[p]] BY DEF TypeOK
<1>4. Apply(committed.page, txn.dirty)
        = [p \in Page |-> IF txn.dirty[p] = 0 THEN committed.page[p] ELSE txn.dirty[p]]
  BY DEF Apply
<1>5. [p \in Page |-> page[p]]
        = [p \in Page |-> IF txn.dirty[p] = 0 THEN committed.page[p] ELSE txn.dirty[p]]
  BY <1>2
<1> QED BY <1>1, <1>3, <1>4, <1>5

(* Nothing in the log is newer than the commit that is written to it. *)
LEMMA LoggedBound ==
  ASSUME TypeOK, RedoInv, InCommit, NEW n, Logged(wal, n),
         txn.hdr.last > committed.hdr.last
  PROVE  NothingNew(wal, txn.hdr)
<1> SUFFICES ASSUME NEW s \in Slot PROVE Old(wal[s], txn.hdr) BY DEF NothingNew
<1>0. txn.hdr.last \in Nat /\ committed.hdr.last \in Nat /\ txn.hdr \in Header BY Fields
<1>1. CASE s <= n
  <2>1. wal[s] = RecordAt(s) BY <1>1 DEF Logged
  <2>2. CASE s <= Redos
    <3>1. s \in 1..Redos BY <2>2, Fields
    <3>2. txn.pending[s].seq <= txn.hdr.last BY <3>1 DEF RedoInv, InTxn
    <3>3. wal[s] = PageRecord(txn.pending[s]) BY <2>1, <2>2 DEF RecordAt
    <3>4. txn.pending[s] \in Redo /\ txn.pending[s].seq \in Nat BY <3>1, RedoFields
    <3>5. wal[s].seq = txn.pending[s].seq BY <3>3, <3>4, PageRecordFields
    <3> QED BY <3>2, <3>4, <3>5 DEF Old, Torn
  <2>3. CASE ~(s <= Redos)
    <3>1. wal[s] = HeaderRecord(txn.hdr) BY <2>1, <2>3 DEF RecordAt
    <3>2. wal[s].seq = txn.hdr.last BY <3>1, <1>0, MarkerFields
    <3> QED BY <3>2, <1>0 DEF Old, Torn
  <2> QED BY <2>2, <2>3
<1>2. CASE ~(s <= n)
  <2>1. Old(wal[s], committed.hdr) BY <1>2 DEF Logged
  <2>2. wal[s].seq \in Int BY RecordFields
  <2> QED BY <2>1, <2>2, <1>0 DEF Old
<1> QED BY <1>1, <1>2

(* What Open found is what a client must take it for: the header tells the *)
(* commit of unknown outcome from the one before it.                       *)
LEMMA SettledIsFound ==
  ASSUME TypeOK, AtomicInv, phase = "openTree"
  PROVE  Settled = Contents
<1>1. CASE ~Atomic BY <1>1 DEF Settled
<1>2. CASE Atomic
  <2>1. Contents \in {committed, candidate} BY <1>2 DEF AtomicInv, DiskInv
  <2>2. candidate = committed \/ candidate.hdr.last > committed.hdr.last
    BY <1>2 DEF AtomicInv, PinInv
  <2>3. candidate.hdr.last \in Nat /\ committed.hdr.last \in Nat BY Fields
  <2>4. hdr = Contents.hdr BY DEF Contents
  <2>5. CASE Contents = candidate BY <1>2, <2>4, <2>5 DEF Settled
  <2>6. CASE Contents = committed BY <1>2, <2>2, <2>3, <2>4, <2>6 DEF Settled
  <2> QED BY <2>1, <2>5, <2>6
<1> QED BY <1>1, <1>2

(* Every step leaves a usable handle on the last commit. *)
LEMMA ReadyStep ==
  ASSUME TypeOK, Careful, GateInv, RedoInv, ReadyInv, CommitInv, OpenInv, AtomicInv, [Next]_vars
  PROVE  ReadyInv'
<1> USE DEF Healthy
<1>k. ASSUME Healthy, UNCHANGED fileVars, UNCHANGED histVars, walOff' = walOff, walSize' = walSize,
             nextWALSeq' \in Nat, nextWALSeq' >= nextWALSeq
      PROVE  ReadyInv'
  <2>1. Contents' = Contents BY <1>k DEF Contents, fileVars
  <2>2. NothingNew(wal, hdr)' BY <1>k DEF ReadyInv, NothingNew, Old, fileVars
  <2>3. hdr'.last <= nextWALSeq'
    <3>1. hdr.last <= nextWALSeq /\ nextWALSeq \in Nat BY <1>k DEF ReadyInv, TypeOK
    <3> QED BY <1>k, <3>1, Fields DEF fileVars
  <2> QED BY <2>1, <2>2, <2>3, <1>k DEF ReadyInv, histVars
<1>0. nextWALSeq \in Nat BY DEF TypeOK
<1>1. CASE UNCHANGED vars
  <2>1. CASE Healthy
    BY <1>1, <2>1, <1>0, <1>k DEF vars, procVars
  <2>2. CASE ~Healthy BY <1>1, <2>2 DEF vars, procVars, ReadyInv
  <2> QED BY <2>1, <2>2
<1>2. CASE Pipeline
  <2>1. CASE Acknowledge
    <3>1. phase = "seek" /\ InCommit BY <2>1 DEF Acknowledge, InCommit, CommitPhases
    <3>2. /\ Contents = candidate /\ candidate.hdr = txn.hdr /\ Logged(wal, RecordCount)
          /\ txn.hdr.last > committed.hdr.last /\ txn.hdr.last <= nextWALSeq
          /\ walSize = 0
      BY <3>1 DEF CommitInv
    <3>3. hdr = txn.hdr BY <3>2 DEF Contents
    <3>4. NothingNew(wal, hdr) BY <3>1, <3>2, <3>3, LoggedBound
    <3>5. /\ UNCHANGED <<wal, page, hdr, walSize, nextWALSeq, candidate>> /\ walOff' = 1
          /\ committed' = candidate
      BY <2>1 DEF Acknowledge
    <3>6. Contents' = Contents BY <3>5 DEF Contents
    <3>7. NothingNew(wal, hdr)' BY <3>4, <3>5 DEF NothingNew, Old
    <3> QED BY <3>2, <3>3, <3>5, <3>6, <3>7 DEF ReadyInv
  <2>2. CASE ~Acknowledge
    <3>1. phase' \in CommitPhases
      BY <1>2, <2>2 DEF Pipeline, WriteWALRecord, SyncWAL, WritePrimaryPage, SyncPrimaryPages,
              WriteHeader, SyncHeader, TruncateWAL, CommitPhases
    <3> QED BY <3>1 DEF ReadyInv, CommitPhases
  <2> QED BY <2>1, <2>2
<1>3. CASE Recovery
  <2>1. CASE OpenReadTree /\ phase' = "ready"
    <3>1. /\ UNCHANGED <<wal, page, hdr, walOff, walSize, nextWALSeq>> /\ committed' = Contents
          /\ candidate' = Contents /\ phase = "openTree"
      BY <2>1, SettledIsFound DEF OpenReadTree, fileVars
    <3>2. Contents' = Contents BY <3>1 DEF Contents
    <3>3. wal = [s \in Slot |-> Empty] /\ nextWALSeq = hdr.last BY <3>1 DEF OpenInv
    <3>4. NothingNew(wal, hdr)'
      BY <3>1, <3>3, EmptyOld, Fields DEF NothingNew, Old
    <3>5. walOff = 1 /\ walSize = 0 BY <3>1 DEF GateInv, OpenPhases
    <3> QED BY <3>1, <3>2, <3>3, <3>4, <3>5, Fields DEF ReadyInv
  <2>2. CASE ~(OpenReadTree /\ phase' = "ready")
    <3>1. phase' \in OpenPhases \cup {"refused"}
      BY <1>3, <2>2 DEF Recovery, OpenDatabase, ReplayPage, ReplayCorrupt, ReplayPagesDone,
              ReplayWriteHeader, ReplaySyncHeader, OpenTruncateWAL, OpenSyncWAL,
              OpenReadTree, OpenPhases
    <3> QED BY <3>1 DEF ReadyInv, OpenPhases
  <2> QED BY <2>1, <2>2
<1>4. CASE CommitError BY <1>4, ErrorBlocks DEF ReadyInv
<1>5. CASE Close \/ Kill \/ PowerLoss BY <1>5 DEF Close, Kill, PowerLoss, ProcessGone, ReadyInv
<1>6. ASSUME NEW w \in env.writers, BeginWriteTxn(w) PROVE ReadyInv'
  <2>1. Healthy BY <1>6, BeginsHealthy
  <2> QED BY <1>6, <2>1, <1>0, <1>k DEF BeginWriteTxn
<1>7. ASSUME NEW p \in Page, WritePage(p) PROVE ReadyInv'
  <2>1. Healthy BY <1>7 DEF WritePage, GateInv
  <2> QED BY <1>7, <2>1, <1>0, <1>k DEF WritePage
<1>8. ASSUME NEW r \in Page \cup {0}, SetRoot(r) PROVE ReadyInv'
  <2>1. Healthy BY <1>8 DEF SetRoot, GateInv
  <2> QED BY <1>8, <2>1, <1>0, <1>k DEF SetRoot
<1>9. CASE AbortWriteTxn
  <2>1. Healthy BY <1>9 DEF AbortWriteTxn, GateInv
  <2> QED BY <1>9, <2>1, <1>0, <1>k DEF AbortWriteTxn
<1>10. CASE CommitWriteTxn BY <1>10 DEF CommitWriteTxn, ReadyInv
<1> QED BY <1>1, <1>2, <1>3, <1>4, <1>5, <1>6, <1>7, <1>8, <1>9, <1>10 DEF Next

(* Every step of Open empties the log before it reads its offset. *)
LEMMA OpenStep ==
  ASSUME OpenInv, [Next]_vars
  PROVE  OpenInv'
<1> USE DEF OpenInv
<1>1. CASE UNCHANGED vars BY <1>1 DEF vars, procVars, fileVars
<1>2. CASE OpenTruncateWAL BY <1>2 DEF OpenTruncateWAL
<1>3. CASE OpenSyncWAL BY <1>3 DEF OpenSyncWAL
<1>4. CASE ~(UNCHANGED vars) /\ ~OpenTruncateWAL /\ ~OpenSyncWAL
  <2>1. phase' \notin {"openSync", "openTree"}
    <3>1. CASE Pipeline
      BY <3>1 DEF Pipeline, WriteWALRecord, SyncWAL, WritePrimaryPage, SyncPrimaryPages,
              WriteHeader, SyncHeader, TruncateWAL, Acknowledge
    <3>2. CASE Recovery
      BY <3>2, <1>4 DEF Recovery, OpenDatabase, ReplayPage, ReplayCorrupt, ReplayPagesDone,
              ReplayWriteHeader, ReplaySyncHeader, OpenReadTree
    <3>3. CASE CommitError BY <3>3 DEF CommitError
    <3>4. CASE Close \/ Kill \/ PowerLoss BY <3>4 DEF Close, Kill, PowerLoss, ProcessGone
    <3>5. CASE \/ \E w \in env.writers : BeginWriteTxn(w)
               \/ \E p \in Page : WritePage(p)
               \/ \E r \in Page \cup {0} : SetRoot(r)
               \/ AbortWriteTxn
               \/ CommitWriteTxn
      BY <3>5 DEF BeginWriteTxn, WritePage, SetRoot, AbortWriteTxn, CommitWriteTxn
    <3> QED BY <1>4, <3>1, <3>2, <3>3, <3>4, <3>5 DEF Next
  <2> QED BY <2>1
<1> QED BY <1>1, <1>2, <1>3, <1>4

(* What does not change while a commit is under way. *)
CommitCore ==
  /\ candidate = [page |-> Apply(committed.page, txn.dirty), hdr |-> txn.hdr]
  /\ txn.hdr.last > committed.hdr.last /\ txn.hdr.last <= nextWALSeq
  /\ txn.pending = <<>> => Authenticated

(* It is kept by a step that leaves the transaction and the outcome alone. *)
LEMMA CommitCoreKept ==
  ASSUME CommitCore, UNCHANGED <<txn, committed, candidate, nextWALSeq, env>>
  PROVE  CommitCore' /\ RecordCount' = RecordCount /\ Redos' = Redos
BY DEF CommitCore, Authenticated, RecordCount, Redos, Apply

(* The number of records of a commit; format v3 has a marker more. *)
LEMMA CountType ==
  ASSUME TypeOK
  PROVE  /\ RecordCount \in Nat /\ RecordCount \in {Redos, Redos + 1}
         /\ Redos \in Nat
         /\ Authenticated => RecordCount = Redos + 1
<1>1. Redos \in Nat BY Fields
<1>2. CASE Authenticated BY <1>1, <1>2 DEF RecordCount, Redos
<1>3. CASE ~Authenticated BY <1>1, <1>3 DEF RecordCount, Redos
<1> QED BY <1>2, <1>3

(* The pipeline starts from the committed files and an old log. *)
LEMMA CommitBegins ==
  ASSUME TypeOK, GateInv, ReadyInv, RedoInv, CommitWriteTxn
  PROVE  CommitInv'
<1>1. /\ txn'.pending = txn.pending /\ txn'.dirty = txn.dirty /\ txn'.hdr = FinalHeader
      /\ committed' = committed /\ phase = "txn" /\ phase' = "append" /\ step' = 1
      /\ candidate' = [page |-> Apply(committed.page, txn.dirty), hdr |-> FinalHeader]
      /\ nextWALSeq' = (IF txn.pending = <<>> THEN nextWALSeq + 1 ELSE nextWALSeq)
      /\ UNCHANGED <<wal, page, hdr, walOff, walSize, env>>
  <2>1. txn \in Txn BY DEF TypeOK
  <2> QED BY <2>1 DEF CommitWriteTxn, Txn, fileVars, boundVars
<1>2. /\ Redos \in Nat /\ nextWALSeq \in Nat /\ txn.pending \in Seq(Redo)
      /\ committed.hdr.last \in Nat /\ WalSlots \in Nat
  BY Fields DEF TypeOK
<1>3. /\ Contents = committed /\ NothingNew(wal, hdr) /\ hdr.last <= nextWALSeq
      /\ walOff = 1 /\ walSize = 0
  BY <1>1 DEF ReadyInv, Healthy, GateInv
<1>4. hdr = committed.hdr BY <1>3 DEF Contents
<1>5. candidate' = [page |-> Apply(committed.page, txn.dirty), hdr |-> txn.hdr]'
  BY <1>1 DEF Apply
<1>6. txn'.hdr.last > committed'.hdr.last /\ txn'.hdr.last <= nextWALSeq'
  <2>1. CASE txn.pending = <<>>
    <3>1. FinalHeader.last = nextWALSeq + 1 BY <2>1, FinalFields
    <3> QED BY <2>1, <3>1, <1>1, <1>2, <1>3, <1>4
  <2>2. CASE txn.pending # <<>>
    <3>1. Redos \in 1..Redos BY <2>2, <1>2 DEF Redos
    <3>2. FinalHeader.last = txn.pending[Redos].seq BY <2>2, FinalFields
    <3>3. txn.pending[Redos].seq > committed.hdr.last /\ txn.pending[Redos].seq <= nextWALSeq
      BY <3>1, <1>1 DEF RedoInv, InTxn
    <3> QED BY <2>2, <3>2, <3>3, <1>1
  <2> QED BY <2>1, <2>2
<1>7. txn'.pending = <<>> => Authenticated'
  <2>1. txn.pending = <<>> => txn.writer = "reclaim" BY DEF CommitWriteTxn
  <2> QED BY <2>1, <1>1 DEF GateInv, InTxn, Authenticated
<1>8. Logged(wal, step - 1)'
  <2>1. step' - 1 = 0 BY <1>1
  <2>2. \A s \in Slot : ~(s <= 0) BY <1>2
  <2>3. \A s \in Slot : Old(wal'[s], committed'.hdr) BY <1>1, <1>3, <1>4 DEF NothingNew
  <2> QED BY <2>1, <2>2, <2>3, <1>2 DEF Logged, Old
<1>9. walOff' = step' /\ walSize' = step' - 1 BY <1>1, <1>3
<1>10. step' <= RecordCount'
  <2>1. txn'.pending = <<>> \/ Len(txn'.pending) >= 1 BY <1>1, <1>2
  <2>2. Len(txn'.pending) \in Nat BY <1>1, <1>2 DEF Redos
  <2>3. CASE Authenticated' BY <2>2, <2>3, <1>1 DEF RecordCount
  <2>4. CASE ~Authenticated' BY <2>1, <2>2, <2>4, <1>1, <1>7 DEF RecordCount
  <2> QED BY <2>3, <2>4
<1>11. Contents' = committed' BY <1>1, <1>3 DEF Contents
<1> QED BY <1>1, <1>5, <1>6, <1>7, <1>8, <1>9, <1>10, <1>11 DEF CommitInv

(* One more record is in the log. *)
LEMMA CommitWrites ==
  ASSUME TypeOK, RedoInv, CommitInv, WriteWALRecord
  PROVE  CommitInv'
<1>1. /\ phase = "append" /\ step <= RecordCount /\ walOff \in Slot
      /\ wal' = [wal EXCEPT ![walOff] = NextRecord] /\ walOff' = walOff + 1
      /\ walSize' = walSize + 1 /\ step' = step + 1
      /\ phase' = (IF step = RecordCount THEN "walSync" ELSE "append")
      /\ UNCHANGED <<page, hdr, txn, nextWALSeq, env, committed, candidate>>
  BY DEF WriteWALRecord, boundVars, histVars
<1>2. /\ CommitCore /\ Logged(wal, step - 1) /\ walOff = step /\ walSize = step - 1
      /\ Contents = committed
  BY <1>1 DEF CommitInv, InCommit, CommitPhases, CommitCore
<1>3. CommitCore' /\ RecordCount' = RecordCount /\ Redos' = Redos BY <1>1, <1>2, CommitCoreKept
<1>4. step \in Slot /\ step \in Nat /\ RecordCount \in Nat /\ WalSlots \in Nat /\ walSize \in Nat
  BY <1>1, <1>2, CountType, Fields DEF TypeOK
<1>5. NextRecord = RecordAt(step) BY DEF NextRecord, RecordAt, Redos
<1>6. \A s \in Slot : RecordAt(s)' = RecordAt(s) BY <1>1, <1>3 DEF RecordAt
<1>7. Logged(wal, step - 1)' /\ step' - 1 = step
  <2>1. step' - 1 = step BY <1>1, <1>4
  <2>2. ASSUME NEW s \in Slot
        PROVE  IF s <= step THEN wal'[s] = RecordAt(s)' ELSE Old(wal'[s], committed'.hdr)
    <3>1. wal'[s] = IF s = step THEN RecordAt(step) ELSE wal[s]
      BY <1>1, <1>2, <1>5 DEF TypeOK
    <3>2. CASE s = step BY <3>1, <3>2, <1>4, <1>6
    <3>3. CASE s < step
      <4>1. s <= step - 1 /\ s <= step BY <3>3, <1>4
      <4>2. wal[s] = RecordAt(s) BY <4>1, <1>2 DEF Logged
      <4> QED BY <3>1, <3>3, <4>1, <4>2, <1>4, <1>6
    <3>4. CASE s > step
      <4>1. ~(s <= step - 1) /\ ~(s <= step) BY <3>4, <1>4
      <4>2. Old(wal[s], committed.hdr) BY <4>1, <1>2 DEF Logged
      <4> QED BY <3>1, <3>4, <4>1, <4>2, <1>1, <1>4
    <3> QED BY <3>2, <3>3, <3>4, <1>4
  <2>3. step \in 0..WalSlots BY <1>4
  <2> QED BY <2>1, <2>2, <2>3 DEF Logged, Old
<1>8. Contents' = committed' BY <1>1, <1>2 DEF Contents
<1>9. CASE step = RecordCount
  <2>1. Logged(wal, RecordCount)' /\ walSize' = RecordCount' /\ phase' = "walSync"
    BY <1>1, <1>2, <1>3, <1>4, <1>7, <1>9
  <2> QED BY <2>1, <1>3, <1>8 DEF CommitInv, CommitCore
<1>10. CASE step # RecordCount
  <2>1. step' <= RecordCount' /\ phase' = "append" /\ walOff' = step' /\ walSize' = step' - 1
    BY <1>1, <1>2, <1>3, <1>4, <1>10
  <2> QED BY <2>1, <1>3, <1>7, <1>8 DEF CommitInv, CommitCore
<1> QED BY <1>9, <1>10

(* One more page is written. *)
LEMMA CommitPages ==
  ASSUME TypeOK, RedoInv, CommitInv, WritePrimaryPage
  PROVE  CommitInv'
<1>1. /\ phase = "primary" /\ phase' = "primary" /\ step <= Redos
      /\ page' = [page EXCEPT ![txn.pending[step].page] = txn.pending[step].seq]
      /\ step' = step + 1
      /\ UNCHANGED <<wal, walSize, hdr, txn, nextWALSeq, env, committed, candidate>>
  BY DEF WritePrimaryPage, boundVars, histVars, Redos
<1>2. /\ CommitCore /\ Logged(wal, RecordCount) /\ walSize = RecordCount
      /\ Written(step - 1) /\ hdr = committed.hdr
  BY <1>1 DEF CommitInv, InCommit, CommitPhases, CommitCore
<1>3. CommitCore' /\ RecordCount' = RecordCount /\ Redos' = Redos BY <1>1, <1>2, CommitCoreKept
<1>4. Logged(wal, RecordCount)' BY <1>1, <1>2, <1>3 DEF Logged, RecordAt, Old
<1>5. step \in 1..Redos /\ Redos \in Nat BY <1>1, Fields DEF TypeOK
<1>6. step' - 1 = step /\ step' <= Redos' + 1 BY <1>1, <1>3, <1>5
<1>7. \A p \in Page : \/ LastImage(p, step, page'[p])
                      \/ NoImage(p, step) /\ page'[p] = committed.page[p]
  <2> TAKE p \in Page
  <2>0. page \in [Page -> Int] /\ txn.pending[step].page \in Page
    BY <1>5, RedoFields DEF TypeOK
  <2>1. CASE txn.pending[step].page = p
    <3>1. page'[p] = txn.pending[step].seq BY <2>0, <2>1, <1>1
    <3>2. step \in 1..step /\ \A j \in 1..step : ~(j > step) BY <1>5
    <3> QED BY <2>1, <3>1, <3>2 DEF LastImage
  <2>2. CASE txn.pending[step].page # p
    <3>1. page'[p] = page[p] BY <2>0, <2>2, <1>1
    <3>2. \A j \in 1..step : j \in 1..(step - 1) \/ j = step BY <1>5
    <3>3. \A j \in 1..(step - 1) : j \in 1..step BY <1>5
    <3>4. CASE LastImage(p, step - 1, page[p])
      <4>1. PICK i \in 1..(step - 1) :
              /\ txn.pending[i].page = p /\ txn.pending[i].seq = page[p]
              /\ \A j \in 1..(step - 1) : j > i => txn.pending[j].page # p
        BY <3>4 DEF LastImage
      <4>2. \A j \in 1..step : j > i => txn.pending[j].page # p BY <4>1, <3>2, <2>2
      <4>3. i \in 1..step BY <3>3
      <4> QED BY <3>1, <4>1, <4>2, <4>3 DEF LastImage
    <3>5. CASE NoImage(p, step - 1) /\ page[p] = committed.page[p]
      <4>1. NoImage(p, step) BY <3>5, <3>2, <2>2 DEF NoImage
      <4> QED BY <4>1, <3>1, <3>5
    <3> QED BY <3>4, <3>5, <1>2 DEF Written
  <2> QED BY <2>1, <2>2
<1>8. Written(step - 1)' BY <1>1, <1>6, <1>7 DEF Written, LastImage, NoImage
<1> QED BY <1>1, <1>2, <1>3, <1>4, <1>6, <1>8 DEF CommitInv, CommitCore

(* The syncs and the header leave the log whole. *)
LEMMA CommitSyncs ==
  ASSUME TypeOK, RedoInv, CommitInv, SyncWAL \/ SyncPrimaryPages \/ WriteHeader \/ SyncHeader
  PROVE  CommitInv'
<1>1. /\ InCommit /\ phase # "append" /\ phase # "seek" /\ phase' \notin {"append", "seek"}
      /\ UNCHANGED <<wal, walSize, page, txn, nextWALSeq, env, committed, candidate>>
  BY DEF SyncWAL, SyncPrimaryPages, WriteHeader, SyncHeader, boundVars, histVars,
         InCommit, CommitPhases
<1>2. CommitCore /\ Logged(wal, RecordCount) /\ walSize = RecordCount
  BY <1>1 DEF CommitInv, CommitCore
<1>3. CommitCore' /\ RecordCount' = RecordCount /\ Redos' = Redos BY <1>1, <1>2, CommitCoreKept
<1>4. Logged(wal, RecordCount)' BY <1>1, <1>2, <1>3 DEF Logged, RecordAt, Old
<1>k. /\ phase' = "append" => /\ Logged(wal, step - 1)' /\ walOff' = step'
                              /\ walSize' = step' - 1 /\ step' <= RecordCount'
      /\ phase' # "append" => /\ Logged(wal, RecordCount)'
                              /\ walSize' = (IF phase' = "seek" THEN 0 ELSE RecordCount')
  BY <1>1, <1>2, <1>3, <1>4
<1>5. CASE SyncWAL
  <2>1. /\ phase = "walSync" /\ phase' \in {"header", "primary"} /\ step' = 1 /\ hdr' = hdr
        /\ phase' = "header" => txn.pending = <<>>
    BY <1>5 DEF SyncWAL
  <2>2. page = committed.page /\ hdr = committed.hdr
    BY <2>1 DEF CommitInv, InCommit, CommitPhases, Contents
  <2>3. Written(0) BY <2>2 DEF Written, NoImage
  <2>4. CASE phase' = "primary"
    <3>1. step' - 1 = 0 /\ step' <= Redos' + 1 BY <2>1, <1>3, Fields
    <3>2. Written(step - 1)' BY <2>3, <3>1, <1>1 DEF Written, LastImage, NoImage
    <3> QED BY <2>2, <2>1, <2>4, <3>1, <3>2, <1>1, <1>3, <1>k DEF CommitInv, CommitCore
  <2>5. CASE phase' = "header"
    <3>1. Redos = 0 BY <2>1, <2>5 DEF Redos
    <3>2. page = candidate.page BY <2>3, <3>1, <1>1, AllWritten
    <3> QED BY <2>1, <2>2, <2>5, <3>2, <1>1, <1>3, <1>k DEF CommitInv, CommitCore
  <2> QED BY <2>1, <2>4, <2>5
<1>6. CASE SyncPrimaryPages
  <2>1. phase = "primary" /\ phase' = "header" /\ step > Redos /\ hdr' = hdr
    BY <1>6 DEF SyncPrimaryPages, AllPagesWritten, Redos
  <2>2. Written(step - 1) /\ step <= Redos + 1 /\ hdr = committed.hdr
    BY <2>1 DEF CommitInv, InCommit, CommitPhases
  <2>a. step \in Nat /\ Redos \in Nat BY Fields DEF TypeOK
  <2>3. step - 1 = Redos BY <2>1, <2>2, <2>a
  <2>4. page = candidate.page BY <2>2, <2>3, <1>1, AllWritten
  <2> QED BY <2>1, <2>2, <2>4, <1>1, <1>3, <1>k DEF CommitInv, CommitCore
<1>7. CASE WriteHeader
  <2>1. phase = "header" /\ phase' = "headerSync" /\ hdr' = txn.hdr BY <1>7 DEF WriteHeader
  <2>2. page = candidate.page BY <2>1 DEF CommitInv, InCommit, CommitPhases
  <2>3. Contents' = candidate'
    BY <2>1, <2>2, <1>1, <1>2 DEF Contents, CommitCore
  <2> QED BY <2>1, <2>3, <1>1, <1>3, <1>k DEF CommitInv, CommitCore
<1>8. CASE SyncHeader
  <2>1. phase = "headerSync" /\ phase' = "truncate" /\ hdr' = hdr BY <1>8 DEF SyncHeader
  <2>2. Contents = candidate BY <2>1 DEF CommitInv, InCommit, CommitPhases
  <2>3. Contents' = candidate' BY <2>1, <2>2, <1>1 DEF Contents
  <2> QED BY <2>1, <2>3, <1>1, <1>3, <1>k DEF CommitInv, CommitCore
<1> QED BY <1>5, <1>6, <1>7, <1>8

(* The truncation cuts at the end of the commit, so its records stay. *)
LEMMA CommitTruncates ==
  ASSUME TypeOK, RedoInv, CommitInv, TruncateWAL
  PROVE  CommitInv'
<1>1. /\ phase = "truncate" /\ phase' = "seek" /\ walSize' = 0
      /\ wal' = [s \in Slot |-> IF s <= walSize THEN wal[s] ELSE Empty]
      /\ UNCHANGED <<page, hdr, txn, nextWALSeq, env, committed, candidate>>
  BY DEF TruncateWAL, boundVars, histVars
<1>2. /\ CommitCore /\ Logged(wal, RecordCount) /\ walSize = RecordCount
      /\ Contents = candidate
  BY <1>1 DEF CommitInv, InCommit, CommitPhases, CommitCore
<1>3. CommitCore' /\ RecordCount' = RecordCount /\ Redos' = Redos BY <1>1, <1>2, CommitCoreKept
<1>4. ASSUME NEW s \in Slot
      PROVE  IF s <= RecordCount THEN wal'[s] = RecordAt(s)' ELSE Old(wal'[s], committed'.hdr)
  <2>1. RecordAt(s)' = RecordAt(s) BY <1>1, <1>3 DEF RecordAt
  <2>2. wal'[s] = IF s <= RecordCount THEN wal[s] ELSE Empty BY <1>1, <1>2
  <2>3. s <= RecordCount => wal[s] = RecordAt(s) BY <1>2 DEF Logged
  <2>4. Old(Empty, committed.hdr) BY EmptyOld, Fields
  <2>5. ~(s <= RecordCount) => Old(wal[s], committed.hdr) BY <1>2 DEF Logged
  <2> QED BY <2>1, <2>2, <2>3, <2>4, <2>5, <1>1
<1>5. Logged(wal, RecordCount)' BY <1>2, <1>3, <1>4 DEF Logged, Old
<1>6. Contents' = candidate' BY <1>1, <1>2 DEF Contents
<1> QED BY <1>1, <1>3, <1>5, <1>6 DEF CommitInv, CommitCore

(* Every step keeps the pipeline in the state that its phase names. *)
LEMMA CommitStep ==
  ASSUME TypeOK, Careful, GateInv, RedoInv, ReadyInv, CommitInv, [Next]_vars
  PROVE  CommitInv'
<1>1. CASE UNCHANGED vars
  <2>1. UNCHANGED <<wal, page, hdr, phase, txn, step, walOff, walSize, nextWALSeq, env,
                    committed, candidate>>
    BY <1>1 DEF vars, fileVars, procVars, boundVars, histVars
  <2>2. CASE InCommit
    <3>1. CommitCore BY <2>2 DEF CommitInv, CommitCore
    <3>2. CommitCore' /\ RecordCount' = RecordCount /\ Redos' = Redos
      BY <2>1, <3>1, CommitCoreKept
    <3>3. /\ Logged(wal, step - 1)' <=> Logged(wal, step - 1)
          /\ Logged(wal, RecordCount)' <=> Logged(wal, RecordCount)
          /\ Written(step - 1)' <=> Written(step - 1)
          /\ Contents' = Contents
      BY <2>1, <3>2 DEF Logged, RecordAt, Old, Written, LastImage, NoImage, Contents
    <3>4. /\ phase = "append" => /\ Logged(wal, step - 1) /\ walOff = step
                                 /\ walSize = step - 1 /\ step <= RecordCount
          /\ phase # "append" => /\ Logged(wal, RecordCount)
                                 /\ walSize = (IF phase = "seek" THEN 0 ELSE RecordCount)
          /\ phase \in {"append", "walSync"} => Contents = committed
          /\ phase = "primary" => Written(step - 1) /\ step <= Redos + 1 /\ hdr = committed.hdr
          /\ phase = "header" => page = candidate.page /\ hdr = committed.hdr
          /\ phase \in {"headerSync", "truncate", "seek"} => Contents = candidate
      BY <2>2 DEF CommitInv
    <3> QED BY <2>1, <3>2, <3>3, <3>4 DEF CommitInv, CommitCore
  <2>3. CASE ~InCommit BY <2>1, <2>3 DEF CommitInv, InCommit
  <2> QED BY <2>2, <2>3
<1>2. CASE Pipeline
  <2>1. CASE Acknowledge BY <2>1 DEF Acknowledge, CommitInv, InCommit, CommitPhases
  <2> QED BY <1>2, <2>1, CommitWrites, CommitPages, CommitSyncs, CommitTruncates DEF Pipeline
<1>3. CASE CommitWriteTxn BY <1>3, CommitBegins
<1>4. CASE ~(UNCHANGED vars) /\ ~Pipeline /\ ~CommitWriteTxn
  <2>1. phase' \notin CommitPhases
    <3> USE DEF CommitPhases
    <3>1. CASE Recovery
      BY <3>1 DEF Recovery, OpenDatabase, ReplayPage, ReplayCorrupt, ReplayPagesDone,
                  ReplayWriteHeader, ReplaySyncHeader, OpenTruncateWAL, OpenSyncWAL, OpenReadTree
    <3>2. CASE CommitError BY <3>2 DEF CommitError
    <3>3. CASE Close \/ Kill \/ PowerLoss BY <3>3 DEF Close, Kill, PowerLoss, ProcessGone
    <3>4. CASE \/ \E w \in env.writers : BeginWriteTxn(w)
               \/ \E p \in Page : WritePage(p)
               \/ \E r \in Page \cup {0} : SetRoot(r)
               \/ AbortWriteTxn
      BY <3>4 DEF BeginWriteTxn, WritePage, SetRoot, AbortWriteTxn
    <3> QED BY <1>4, <3>1, <3>2, <3>3, <3>4 DEF Next
  <2> QED BY <2>1 DEF CommitInv, InCommit
<1> QED BY <1>1, <1>2, <1>3, <1>4

-----------------------------------------------------------------------------
(* What a commit that is interrupted leaves. *)

(* Pages of which some carry, or were to carry, an image of the commit.    *)
Partly(pg) ==
  \A p \in Page :
    \/ pg[p] = committed.page[p]
    \/ \E i \in 1..Redos : /\ txn.pending[i].page = p
                           /\ pg[p] \in {TornPage, txn.pending[i].seq}

(* Pages under way are partly written. *)
LEMMA WrittenPartly == ASSUME NEW n \in Nat, n <= Redos, TypeOK, Written(n) PROVE Partly(page)
<1> SUFFICES ASSUME NEW p \in Page
             PROVE  \/ page[p] = committed.page[p]
                    \/ \E i \in 1..Redos : /\ txn.pending[i].page = p
                                           /\ page[p] \in {TornPage, txn.pending[i].seq}
  BY DEF Partly
<1>1. CASE LastImage(p, n, page[p])
  <2>1. PICK i \in 1..n : txn.pending[i].page = p /\ txn.pending[i].seq = page[p]
    BY <1>1 DEF LastImage
  <2>2. i \in 1..Redos BY Fields
  <2> QED BY <2>1, <2>2
<1> QED BY <1>1 DEF Written

(* So are those of the candidate. *)
LEMMA CandidatePartly ==
  ASSUME TypeOK, RedoInv, CommitInv, InCommit PROVE Partly(candidate.page)
<1> SUFFICES ASSUME NEW p \in Page
             PROVE  \/ candidate.page[p] = committed.page[p]
                    \/ \E i \in 1..Redos : /\ txn.pending[i].page = p
                                           /\ candidate.page[p] \in {TornPage, txn.pending[i].seq}
  BY DEF Partly
<1>1. candidate.page[p] = IF txn.dirty[p] = 0 THEN committed.page[p] ELSE txn.dirty[p]
  BY DEF CommitInv, Apply
<1>2. CASE LastImage(p, Redos, txn.dirty[p]) BY <1>1, <1>2 DEF LastImage
<1>3. CASE txn.dirty[p] = 0 BY <1>1, <1>3
<1> QED BY <1>2, <1>3 DEF RedoInv, InTxn

(* The records of a commit. *)
LEMMA CommitRecords ==
  ASSUME TypeOK, RedoInv, CommitInv, InCommit, NEW s \in Slot, s <= Redos
  PROVE  /\ RecordAt(s).page = txn.pending[s].page /\ RecordAt(s).page \in Page
         /\ RecordAt(s).page # 0
         /\ RecordAt(s).seq = txn.pending[s].seq /\ RecordAt(s).seq \in Nat
         /\ RecordAt(s).seq > committed.hdr.last /\ RecordAt(s).seq <= candidate.hdr.last
         /\ s \in 1..Redos
<1>1. s \in 1..Redos BY Fields
<1>2. RecordAt(s) = PageRecord(txn.pending[s]) BY DEF RecordAt
<1>3. /\ txn.pending[s] \in Redo /\ txn.pending[s].seq \in Nat /\ txn.pending[s].page \in Page
      /\ txn.pending[s].page # 0
  BY <1>1, RedoFields
<1>4. txn.pending[s].seq > committed.hdr.last /\ txn.pending[s].seq <= txn.hdr.last
  BY <1>1 DEF RedoInv, InTxn
<1>5. candidate.hdr = txn.hdr BY DEF CommitInv
<1> QED BY <1>1, <1>2, <1>3, <1>4, <1>5, PageRecordFields

(* A log with all records of the commit is whole. *)
LEMMA LoggedWhole ==
  ASSUME TypeOK, RedoInv, CommitInv, InCommit, Authenticated, NEW w, Logged(w, RecordCount)
  PROVE  /\ WholeTo(w, RecordCount) /\ RecordCount = Redos + 1
         /\ \A i \in 1..Redos : i \in Slot /\ i < RecordCount /\ w[i] = RecordAt(i)
<1>1. RecordCount = Redos + 1 /\ Redos \in Nat BY CountType
<1>2. RecordCount \in Slot /\ WalSlots \in Nat BY <1>1, Fields DEF Logged
<1>3. candidate.hdr = txn.hdr /\ txn.hdr.last > committed.hdr.last BY DEF CommitInv
<1>4. w[RecordCount] = HeaderRecord(candidate.hdr)
  BY <1>1, <1>2, <1>3 DEF Logged, RecordAt
<1>5. \A s \in Slot : s < RecordCount => s <= Redos /\ w[s] = RecordAt(s)
  BY <1>1, <1>2 DEF Logged
<1>6. \A s \in Slot :
        /\ s < RecordCount => /\ w[s].page \in Page /\ w[s].seq > committed.hdr.last
                              /\ w[s].seq <= candidate.hdr.last
        /\ s > RecordCount => Old(w[s], committed.hdr)
  <2> TAKE s \in Slot
  <2>1. CASE s < RecordCount BY <2>1, <1>1, <1>2, <1>5, CommitRecords
  <2>2. CASE s > RecordCount BY <2>2, <1>1, <1>2 DEF Logged
  <2> QED BY <2>1, <2>2, <1>1, <1>2
<1>7. WholeTo(w, RecordCount) BY <1>2, <1>3, <1>4, <1>6 DEF WholeTo
<1>8. \A i \in 1..Redos : i \in Slot /\ i < RecordCount BY <1>1, <1>2
<1> QED BY <1>1, <1>5, <1>7, <1>8

(* It repairs any pages that are partly written.                           *)
LEMMA LoggedRepairs ==
  ASSUME TypeOK, RedoInv, CommitInv, InCommit, Authenticated, NEW w, Logged(w, RecordCount),
         NEW pg, Partly(pg)
  PROVE  Repairable(w, pg)
<1> DEFINE m == RecordCount
<1>1. /\ WholeTo(w, m) /\ m = Redos + 1 /\ m \in Slot /\ Redos \in Nat
      /\ \A i \in 1..Redos : i \in Slot /\ i < m /\ w[i] = RecordAt(i)
  BY LoggedWhole, CountType DEF WholeTo
<1>2. \A s \in Slot : s < m => s <= Redos /\ s \in 1..Redos BY <1>1, Fields
<1> HIDE DEF m
<1>3. \A i \in 1..Redos : w[i].page = txn.pending[i].page /\ w[i].seq = txn.pending[i].seq
  <2> TAKE i \in 1..Redos
  <2>1. i \in Slot /\ i <= Redos /\ w[i] = RecordAt(i) BY <1>1
  <2> QED BY <2>1, CommitRecords
<1>4. ASSUME NEW p \in Page
      PROVE  \/ LastRecord(w, 1, m, p, candidate.page[p])
             \/ NoRecord(w, 1, m, p) /\ pg[p] = candidate.page[p]
  <2>1. candidate.page[p] = IF txn.dirty[p] = 0 THEN committed.page[p] ELSE txn.dirty[p]
    BY DEF CommitInv, Apply
  <2>2. CASE LastImage(p, Redos, txn.dirty[p])
    <3>1. PICK i \in 1..Redos :
            /\ txn.pending[i].page = p /\ txn.pending[i].seq = txn.dirty[p]
            /\ \A j \in 1..Redos : j > i => txn.pending[j].page # p
      BY <2>2 DEF LastImage
    <3>2. txn.pending[i].seq > committed.hdr.last /\ txn.pending[i].seq \in Nat
      BY RedoFields DEF RedoInv, InTxn
    <3>3. candidate.page[p] = txn.pending[i].seq BY <2>1, <3>1, <3>2, Fields
    <3>4. w[i].page = p /\ w[i].seq = candidate.page[p] BY <3>1, <3>3, <1>3
    <3>5. i \in Slot /\ 1 <= i /\ i < m BY <1>1
    <3>6. \A t \in Slot : i < t /\ t < m => w[t].page # p
      <4> SUFFICES ASSUME NEW t \in Slot, i < t, t < m PROVE w[t].page # p OBVIOUS
      <4>1. t \in 1..Redos BY <1>2
      <4>2. w[t].page = txn.pending[t].page BY <4>1, <1>3
      <4>3. txn.pending[t].page # p BY <4>1, <3>1
      <4> QED BY <4>2, <4>3
    <3> QED BY <3>4, <3>5, <3>6 DEF LastRecord
  <2>3. CASE NoImage(p, Redos) /\ txn.dirty[p] = 0
    <3>1. NoRecord(w, 1, m, p)
      <4> SUFFICES ASSUME NEW t \in Slot, t < m PROVE w[t].page # p BY DEF NoRecord
      <4>1. t \in 1..Redos BY <1>2
      <4> QED BY <4>1, <1>3, <2>3 DEF NoImage
    <3>2. pg[p] = committed.page[p] BY <2>3 DEF NoImage, Partly
    <3> QED BY <2>1, <2>3, <3>1, <3>2
  <2> QED BY <2>2, <2>3 DEF RedoInv, InTxn
<1>5. Redoes(w, 1, m, pg) BY <1>4 DEF Redoes
<1>6. ASSUME NEW p \in Page
      PROVE  \/ pg[p] \in {committed.page[p], TornPage}
             \/ \E s \in Slot : s < m /\ w[s].page = p /\ w[s].seq = pg[p]
  <2>1. CASE \E i \in 1..Redos : txn.pending[i].page = p /\ pg[p] = txn.pending[i].seq
    <3>1. PICK i \in 1..Redos : txn.pending[i].page = p /\ pg[p] = txn.pending[i].seq BY <2>1
    <3>2. i \in Slot /\ i < m /\ w[i].page = p /\ w[i].seq = pg[p] BY <3>1, <1>1, <1>3
    <3> QED BY <3>2
  <2> QED BY <2>1 DEF Partly
<1>7. Known(w, m, pg) BY <1>6 DEF Known
<1> QED BY <1>1, <1>5, <1>7 DEF Repairable

(* Before the log is whole, Open finds the committed pages and a log that  *)
(* it refuses or that has nothing new.                                     *)
LEMMA LoggedDisk ==
  ASSUME TypeOK, RedoInv, CommitInv, InCommit, Authenticated, Contents = committed,
         NEW w \in [Slot -> Record], NEW n, n <= RecordCount, Logged(w, n)
  PROVE  Disk(w, page, hdr)
<1>0. /\ hdr = committed.hdr /\ page = committed.page
      /\ [page |-> page, hdr |-> hdr] = committed
      /\ RecordCount = Redos + 1 /\ Redos \in Nat /\ n \in Nat
  BY CountType, Fields DEF Contents, Logged
<1>1. CASE n = RecordCount
  <2>1. Partly(page) BY <1>0 DEF Partly
  <2> QED BY <1>1, <2>1, <1>0, LoggedRepairs DEF Disk
<1>2. CASE n # RecordCount
  <2>1. n <= Redos BY <1>0, <1>2
  <2>2. ASSUME NEW s \in Slot, s <= n
        PROVE  w[s].page # 0 /\ w[s].seq > committed.hdr.last
    <3>1. s <= Redos /\ w[s] = RecordAt(s) BY <2>1, <2>2, <1>0 DEF Logged
    <3> QED BY <3>1, CommitRecords
  <2>c. \A s \in Slot : w[s].seq \in Int BY DEF Record
  <2>3. ASSUME NEW s \in Slot, ~(s <= n) PROVE Old(w[s], committed.hdr)
    BY <2>3 DEF Logged
  <2>4. \A s \in Slot : ~(s <= n) => ~(w[s].seq > committed.hdr.last)
    <3>1. \A s \in Slot : ~(s <= n) => w[s].seq <= committed.hdr.last BY <2>3 DEF Old
    <3>2. \A s \in Slot : ~(s <= n) => w[s].seq \in Int BY <2>c
    <3> QED BY <3>1, <3>2, Fields
  <2>5. CASE \E s \in Slot : s <= n
    <3>1. Unmarked(w) BY <2>2, <2>4, <2>5 DEF Unmarked
    <3> QED BY <3>1, <1>0 DEF Disk, Unusable
  <2>6. CASE ~\E s \in Slot : s <= n
    <3>1. NothingNew(w, hdr) BY <2>3, <2>6, <1>0 DEF NothingNew
    <3> QED BY <3>1, <1>0 DEF Disk
  <2> QED BY <2>5, <2>6
<1> QED BY <1>1, <1>2

(* A commit that stops anywhere leaves files that the next Open settles:   *)
(* the record or the page it was writing may be torn.                      *)
LEMMA CommitDisk ==
  ASSUME TypeOK, RedoInv, CommitInv, InCommit, Authenticated,
         NEW w \in [Slot -> Record], NEW pg \in [Page -> Int],
         \/ w = wal /\ pg = page
         \/ phase = "append" /\ walOff \in Slot /\ w = [wal EXCEPT ![walOff] = Torn] /\ pg = page
         \/ /\ phase = "primary" /\ step <= Redos /\ w = wal
            /\ pg = [page EXCEPT ![txn.pending[step].page] = TornPage]
  PROVE  Disk(w, pg, hdr)
<1>0. /\ RecordCount = Redos + 1 /\ Redos \in Nat /\ step \in Nat \ {0}
      /\ wal \in [Slot -> Record] /\ page \in [Page -> Int]
  BY CountType DEF TypeOK
<1>1. CASE phase \in {"append", "walSync"} /\ w = wal
  <2>1. Contents = committed /\ pg = page BY <1>1 DEF CommitInv
  <2>2. CASE phase = "append"
    <3>1. Logged(wal, step - 1) /\ step - 1 <= RecordCount BY <2>2, <1>0 DEF CommitInv
    <3> QED BY <3>1, <2>1, <1>1, <1>0, LoggedDisk
  <2>3. CASE phase = "walSync"
    <3>1. Logged(wal, RecordCount) /\ RecordCount <= RecordCount BY <2>3, <1>0 DEF CommitInv
    <3> QED BY <3>1, <2>1, <1>1, <1>0, LoggedDisk
  <2> QED BY <1>1, <2>2, <2>3
<1>2. CASE phase = "append" /\ w # wal
  <2>1. Contents = committed /\ pg = page BY <1>2 DEF CommitInv
  <2>2. walOff \in Slot /\ w[walOff] = Torn BY <1>0, <1>2
  <2> QED BY <2>1, <2>2 DEF Disk, Unusable, Contents
<1>3. CASE phase = "primary"
  <2>1. /\ Logged(wal, RecordCount) /\ hdr = committed.hdr /\ Written(step - 1)
        /\ step <= Redos + 1 /\ w = wal
    BY <1>3 DEF CommitInv
  <2>2. Partly(page) BY <2>1, <1>0, WrittenPartly
  <2>3. Partly(pg)
    <3>1. CASE pg = page BY <2>2, <3>1
    <3>2. CASE step <= Redos /\ pg = [page EXCEPT ![txn.pending[step].page] = TornPage]
      <4>1. step \in 1..Redos BY <3>2, <1>0
      <4>2. ASSUME NEW p \in Page
            PROVE  \/ pg[p] = committed.page[p]
                   \/ \E i \in 1..Redos : /\ txn.pending[i].page = p
                                          /\ pg[p] \in {TornPage, txn.pending[i].seq}
        <5>1. CASE txn.pending[step].page = p BY <5>1, <4>1, <3>2, <1>0
        <5>2. CASE txn.pending[step].page # p
          <6>1. pg[p] = page[p] BY <5>2, <3>2, <1>0
          <6> QED BY <6>1, <2>2 DEF Partly
        <5> QED BY <5>1, <5>2
      <4> QED BY <4>2 DEF Partly
    <3> QED BY <1>3, <3>1, <3>2
  <2>4. Repairable(w, pg) BY <2>1, <2>3, LoggedRepairs
  <2> QED BY <2>1, <2>4 DEF Disk
<1>4. CASE phase = "header"
  <2>1. /\ Logged(wal, RecordCount) /\ hdr = committed.hdr /\ page = candidate.page
        /\ w = wal /\ pg = page
    BY <1>4 DEF CommitInv
  <2>2. Repairable(w, pg) BY <2>1, CandidatePartly, LoggedRepairs
  <2> QED BY <2>1, <2>2 DEF Disk
<1>5. CASE phase \in {"headerSync", "truncate", "seek"}
  <2>1. /\ Contents = candidate /\ candidate.hdr = txn.hdr /\ w = wal /\ pg = page
        /\ Logged(wal, RecordCount) /\ txn.hdr.last > committed.hdr.last
    BY <1>5 DEF CommitInv
  <2>2. NothingNew(w, hdr) BY <2>1, LoggedBound DEF Contents
  <2> QED BY <2>1, <2>2 DEF Disk, Contents
<1> QED BY <1>1, <1>2, <1>3, <1>4, <1>5 DEF InCommit, CommitPhases

-----------------------------------------------------------------------------
(* What a whole log is to recovery. *)

(* There is one marker that counts. *)
LEMMA WholeUnique ==
  ASSUME TypeOK, NEW w, NEW m, NEW k, WholeTo(w, m), WholeTo(w, k)
  PROVE  m = k
<1>0. /\ candidate.hdr.last \in Nat /\ committed.hdr.last \in Nat
      /\ candidate.hdr.last > committed.hdr.last /\ candidate.hdr \in Header
      /\ m \in Slot /\ k \in Slot
  BY Fields DEF WholeTo
<1>1. w[m].seq = candidate.hdr.last /\ w[k].seq = candidate.hdr.last
  BY <1>0, MarkerFields DEF WholeTo
<1>2. ~(m > k) BY <1>0, <1>1 DEF WholeTo, Old
<1>3. ~(k > m) BY <1>0, <1>1 DEF WholeTo, Old
<1> QED BY <1>0, <1>2, <1>3

(* The records of a whole log, one by one. *)
WholeRecords(w, m) ==
  /\ m \in Slot /\ m \in Nat
  /\ w[m].seq = candidate.hdr.last /\ w[m].page = 0 /\ w[m].hdr = candidate.hdr
  /\ candidate.hdr.last > committed.hdr.last
  /\ candidate.hdr.last \in Nat /\ committed.hdr.last \in Nat
  /\ \A s \in Slot : /\ w[s].seq \in Int /\ s \in Nat /\ w[s] # Torn
                     /\ w[s].seq <= candidate.hdr.last
                     /\ s < m => /\ w[s].page \in Page /\ w[s].page # 0
                                 /\ w[s].seq > committed.hdr.last
                     /\ s > m => w[s].seq <= committed.hdr.last

LEMMA WholeFields ==
  ASSUME TypeOK, NEW w \in [Slot -> Record], NEW m, WholeTo(w, m)
  PROVE  WholeRecords(w, m)
<1>0. /\ candidate.hdr.last \in Nat /\ committed.hdr.last \in Nat
      /\ candidate.hdr.last > committed.hdr.last /\ candidate.hdr \in Header
      /\ m \in Slot /\ m \in Nat
  BY Fields DEF WholeTo
<1>1. w[m].seq = candidate.hdr.last /\ w[m].page = 0 /\ w[m].hdr = candidate.hdr
  BY <1>0, MarkerFields DEF WholeTo
<1>2. ASSUME NEW s \in Slot
      PROVE  /\ w[s].seq \in Int /\ s \in Nat /\ w[s] # Torn
             /\ w[s].seq <= candidate.hdr.last
             /\ s < m => /\ w[s].page \in Page /\ w[s].page # 0
                         /\ w[s].seq > committed.hdr.last
             /\ s > m => w[s].seq <= committed.hdr.last
  <2>0. w[s].seq \in Int /\ s \in Nat BY DEF Record
  <2>1. CASE s = m
    <3>1. w[s] # Torn BY <2>1, <1>0, <1>1 DEF Torn
    <3> QED BY <2>0, <2>1, <3>1, <1>0, <1>1
  <2>2. CASE s < m
    <3>1. /\ w[s].page \in Page /\ w[s].seq > committed.hdr.last
          /\ w[s].seq <= candidate.hdr.last
      BY <2>2 DEF WholeTo
    <3>2. w[s] # Torn BY <3>1, <1>0 DEF Torn
    <3> QED BY <2>0, <2>2, <3>1, <3>2, <1>0, PageAssumption
  <2>3. CASE s > m
    <3>1. w[s] # Torn /\ w[s].seq <= committed.hdr.last BY <2>3 DEF WholeTo, Old
    <3> QED BY <2>0, <2>3, <3>1, <1>0
  <2> QED BY <2>0, <2>1, <2>2, <2>3, <1>0
<1> QED BY <1>0, <1>1, <1>2 DEF WholeRecords

(* With the candidate's header nothing in it is new. *)
LEMMA WholeBound ==
  ASSUME TypeOK, NEW w \in [Slot -> Record], NEW m, WholeTo(w, m)
  PROVE  NothingNew(w, candidate.hdr)
<1>1. WholeRecords(w, m) BY WholeFields
<1> QED BY <1>1 DEF WholeRecords, NothingNew, Old

(* With the committed header, redo is about the records before the marker. *)
LEMMA WholeReplay ==
  ASSUME TypeOK, Authenticated, hdr = committed.hdr, NEW m, WholeTo(wal, m)
  PROVE  /\ ~Damaged
         /\ \A s \in Slot : LastMarker(s) <=> s = m
         /\ \A s \in Slot : s \in ReplaySlots <=> s < m
         /\ Newest(m) /\ Fresh(m)
<1>0. wal \in [Slot -> Record] BY DEF TypeOK
<1>w. WholeRecords(wal, m) BY <1>0, WholeFields
<1>3. m \in Slot /\ m \in Nat /\ WalSlots \in Nat /\ \A s \in Slot : s \in Nat
  BY <1>w, Fields DEF WholeRecords
<1>1. ASSUME NEW s \in Slot PROVE Fresh(s) <=> s <= m
  <2>1. /\ wal[s].seq \in Int /\ candidate.hdr.last \in Nat /\ hdr.last \in Nat
        /\ candidate.hdr.last > hdr.last
        /\ s < m => wal[s].seq > hdr.last
        /\ s > m => wal[s].seq <= hdr.last
        /\ s = m => wal[s].seq = candidate.hdr.last
    BY <1>w DEF WholeRecords
  <2>2. s < m \/ s = m \/ s > m BY <1>3
  <2>3. CASE s < m BY <2>1, <2>3, <1>3 DEF Fresh
  <2>4. CASE s = m BY <2>1, <2>4, <1>3 DEF Fresh
  <2>5. CASE s > m BY <2>1, <2>5, <1>3 DEF Fresh
  <2> QED BY <2>2, <2>3, <2>4, <2>5
<1>2. ASSUME NEW s \in Slot PROVE Marker(s) <=> s = m
  <2>1. s < m => wal[s].page # 0 BY <1>w DEF WholeRecords
  <2>2. wal[m].page = 0 BY <1>w DEF WholeRecords
  <2> QED BY <2>1, <2>2, <1>1, <1>3 DEF Marker
<1>4. \A s \in Slot : LastMarker(s) <=> s = m BY <1>2, <1>3 DEF LastMarker
<1>5. \A s \in Slot : s \in ReplaySlots <=> s < m
  <2> TAKE s \in Slot
  <2>1. ASSUME s < m PROVE s \in ReplaySlots
    <3>1. Fresh(s) /\ ~Marker(s) BY <2>1, <1>1, <1>2, <1>3
    <3>2. \A t \in s..m : t # m => t \in Slot
      <4>1. s \in Nat /\ s >= 1 /\ m <= WalSlots BY <1>3
      <4> QED BY <4>1, <1>3
    <3>3. ~\E t \in s..m : t # m /\ Marker(t) BY <3>2, <1>2
    <3> QED BY <2>1, <3>1, <3>3, <1>3, <1>4 DEF ReplaySlots
  <2>2. ASSUME s \in ReplaySlots PROVE s < m
    <3>1. Fresh(s) /\ ~Marker(s) BY <2>2 DEF ReplaySlots
    <3> QED BY <3>1, <1>1, <1>2, <1>3
  <2> QED BY <2>1, <2>2
<1>6. ~Damaged BY <1>w DEF WholeRecords, Damaged
<1>7. Newest(m) BY <1>w DEF WholeRecords, Newest
<1> QED BY <1>1, <1>3, <1>4, <1>5, <1>6, <1>7

-----------------------------------------------------------------------------
(* What a power loss leaves. *)

(* The files that PowerLoss may leave behind. *)
Survives(w, pg, h) ==
  /\ \E cut \in 0..WalSlots, torn \in BOOLEAN :
       /\ torn => cut + 1 \in Slot /\ (wal[cut + 1] # walDur[cut + 1] \/ phase = "append")
       /\ w = SurvivingWAL(cut, torn)
  /\ pg \in [Page -> Int]
  /\ \A p \in Page : \/ pg[p] \in {page[p], pageDur[p]}
                     \/ pg[p] = TornPage /\ page[p] # pageDur[p]
  /\ h \in {hdr, hdrDur}

(* What was synced survives as it is. *)
LEMMA SurvivesFields ==
  ASSUME TypeOK, NEW w, NEW pg, NEW h, Survives(w, pg, h)
  PROVE  /\ w \in [Slot -> Record]
         /\ \A s \in Slot : w[s] \in {wal[s], walDur[s], Torn}
         /\ walDur = wal /\ phase # "append" => w = wal
         /\ pageDur = page => pg = page
         /\ hdrDur = hdr => h = hdr
<1>1. PICK cut \in 0..WalSlots, torn \in BOOLEAN :
        /\ torn => cut + 1 \in Slot /\ (wal[cut + 1] # walDur[cut + 1] \/ phase = "append")
        /\ w = SurvivingWAL(cut, torn)
  BY DEF Survives
<1>2. w = [s \in Slot |-> IF s <= cut THEN wal[s]
                          ELSE IF s = cut + 1 /\ torn THEN Torn ELSE walDur[s]]
  BY <1>1 DEF SurvivingWAL
<1>3. wal \in [Slot -> Record] /\ walDur \in [Slot -> Record] /\ Torn \in Record
  BY RecordTypes DEF TypeOK
<1>4. w \in [Slot -> Record] BY <1>2, <1>3
<1>5. \A s \in Slot : w[s] \in {wal[s], walDur[s], Torn} BY <1>2
<1>6. ASSUME walDur = wal, phase # "append" PROVE w = wal
  <2>1. ~torn BY <1>1, <1>6
  <2>2. \A s \in Slot : w[s] = wal[s] BY <1>2, <1>6, <2>1
  <2>3. w = [s \in Slot |-> w[s]] /\ wal = [s \in Slot |-> wal[s]] BY <1>3, <1>4
  <2>4. [s \in Slot |-> w[s]] = [s \in Slot |-> wal[s]] BY <2>2
  <2> QED BY <2>3, <2>4
<1>7. ASSUME pageDur = page PROVE pg = page
  <2>1. \A p \in Page : pg[p] = page[p] BY <1>7 DEF Survives
  <2> QED BY <2>1 DEF Survives, TypeOK
<1> QED BY <1>4, <1>5, <1>6, <1>7 DEF Survives

(* Nothing was under way. *)
LEMMA SettledDisk ==
  ASSUME TypeOK, Contents \in {committed, candidate}, pageDur = page, hdrDur = hdr,
         NothingNew(wal, hdr), NothingNew(walDur, hdr),
         NEW w, NEW pg, NEW h, Survives(w, pg, h)
  PROVE  Disk(w, pg, h)
<1>1. pg = page /\ h = hdr /\ \A s \in Slot : w[s] \in {wal[s], walDur[s], Torn}
  BY SurvivesFields
<1>2. [page |-> pg, hdr |-> h] \in {committed, candidate} BY <1>1 DEF Contents
<1>3. CASE \E s \in Slot : w[s] = Torn BY <1>2, <1>3 DEF Disk, Unusable
<1>4. CASE \A s \in Slot : w[s] # Torn
  <2>1. NothingNew(w, h) BY <1>1, <1>4 DEF NothingNew
  <2> QED BY <1>2, <2>1 DEF Disk
<1> QED BY <1>3, <1>4

(* Records were being appended: a whole prefix of them survives, or a torn *)
(* one.                                                                    *)
LEMMA AppendedDisk ==
  ASSUME TypeOK, RedoInv, CommitInv, InCommit, Authenticated, Contents = committed,
         pageDur = page, hdrDur = hdr, NothingNew(walDur, hdr),
         NEW n, n <= RecordCount, Logged(wal, n),
         NEW w, NEW pg, NEW h, Survives(w, pg, h)
  PROVE  Disk(w, pg, h)
<1>1. pg = page /\ h = hdr /\ w \in [Slot -> Record] BY SurvivesFields
<1>2. [page |-> pg, hdr |-> h] = committed /\ hdr = committed.hdr BY <1>1 DEF Contents
<1>3. PICK cut \in 0..WalSlots, torn \in BOOLEAN :
        /\ torn => cut + 1 \in Slot /\ (wal[cut + 1] # walDur[cut + 1] \/ phase = "append")
        /\ w = SurvivingWAL(cut, torn)
  BY DEF Survives
<1>4. w = [s \in Slot |-> IF s <= cut THEN wal[s]
                          ELSE IF s = cut + 1 /\ torn THEN Torn ELSE walDur[s]]
  BY <1>3 DEF SurvivingWAL
<1>5. CASE torn
  <2>1. cut + 1 \in Slot /\ ~(cut + 1 <= cut) BY <1>3, <1>5, Fields
  <2>2. w[cut + 1] = Torn BY <2>1, <1>4, <1>5
  <2> QED BY <1>2, <2>1, <2>2 DEF Disk, Unusable
<1>6. CASE ~torn
  <2> DEFINE k == IF cut <= n THEN cut ELSE n
  <2>1. /\ n \in 0..WalSlots /\ cut \in 0..WalSlots /\ WalSlots \in Nat /\ RecordCount \in Nat
        /\ n \in Nat /\ cut \in Nat
    BY Fields, CountType DEF Logged
  <2>2. k \in 0..WalSlots /\ k <= RecordCount /\ \A s \in Slot : s <= k <=> s <= cut /\ s <= n
    BY <2>1
  <2> HIDE DEF k
  <2>3. ASSUME NEW s \in Slot
        PROVE  IF s <= k THEN w[s] = RecordAt(s) ELSE Old(w[s], committed.hdr)
    <3>1. w[s] = IF s <= cut THEN wal[s] ELSE walDur[s] BY <1>4, <1>6
    <3>2. IF s <= n THEN wal[s] = RecordAt(s) ELSE Old(wal[s], committed.hdr) BY DEF Logged
    <3>3. Old(walDur[s], committed.hdr) BY <1>2 DEF NothingNew
    <3> QED BY <3>1, <3>2, <3>3, <2>2
  <2>4. Logged(w, k) BY <2>2, <2>3 DEF Logged
  <2> QED BY <2>2, <2>4, <1>1, LoggedDisk
<1> QED BY <1>5, <1>6

(* A commit was under way. *)
LEMMA CommitPowerDisk ==
  ASSUME TypeOK, Uninterrupted, RedoInv, CommitInv, DurableInv, InCommit, Authenticated,
         NEW w, NEW pg, NEW h, Survives(w, pg, h)
  PROVE  Disk(w, pg, h)
<1>0. /\ RecordCount = Redos + 1 /\ Redos \in Nat /\ step \in Nat \ {0}
  BY CountType DEF TypeOK
<1>1. CASE phase \in {"append", "walSync"}
  <2>1. Contents = committed BY <1>1 DEF CommitInv
  <2>2. pageDur = page /\ hdrDur = hdr /\ NothingNew(walDur, hdr) BY <1>1 DEF DurableInv
  <2>3. CASE phase = "append"
    <3>1. Logged(wal, step - 1) /\ step - 1 <= RecordCount BY <2>3, <1>0 DEF CommitInv
    <3> QED BY <2>1, <2>2, <3>1, AppendedDisk
  <2>4. CASE phase = "walSync"
    <3>1. Logged(wal, RecordCount) /\ RecordCount <= RecordCount BY <2>4, <1>0 DEF CommitInv
    <3> QED BY <2>1, <2>2, <3>1, AppendedDisk
  <2> QED BY <1>1, <2>3, <2>4
<1>2. CASE phase = "primary"
  <2>1. /\ Logged(wal, RecordCount) /\ hdr = committed.hdr /\ Written(step - 1)
        /\ step <= Redos + 1
    BY <1>2 DEF CommitInv
  <2>2. pageDur = committed.page /\ hdrDur = hdr /\ walDur = wal BY <1>2 DEF DurableInv
  <2>3. w = wal /\ h = committed.hdr BY <2>1, <2>2, <1>2, SurvivesFields
  <2>4. Partly(page) BY <2>1, <1>0, WrittenPartly
  <2>5. ASSUME NEW p \in Page
        PROVE  \/ pg[p] = committed.page[p]
               \/ \E i \in 1..Redos : /\ txn.pending[i].page = p
                                      /\ pg[p] \in {TornPage, txn.pending[i].seq}
    <3>1. CASE pg[p] = committed.page[p] BY <3>1
    <3>2. CASE pg[p] # committed.page[p]
      <4>1. pg[p] \in {page[p], TornPage} /\ page[p] # committed.page[p]
        BY <3>2, <2>2 DEF Survives
      <4> QED BY <4>1, <2>4 DEF Partly
    <3> QED BY <3>1, <3>2
  <2>6. Partly(pg) BY <2>5 DEF Partly
  <2>7. Repairable(wal, pg) BY <2>1, <2>6, LoggedRepairs
  <2> QED BY <2>3, <2>7 DEF Disk
<1>3. CASE phase = "header"
  <2>1. Logged(wal, RecordCount) /\ hdr = committed.hdr /\ page = candidate.page
    BY <1>3 DEF CommitInv
  <2>2. pageDur = page /\ hdrDur = hdr /\ walDur = wal BY <1>3 DEF DurableInv
  <2>3. w = wal /\ pg = page /\ h = hdr BY <2>2, <1>3, SurvivesFields
  <2>4. Repairable(wal, pg) BY <2>1, <2>3, CandidatePartly, LoggedRepairs
  <2> QED BY <2>1, <2>3, <2>4 DEF Disk
<1>4. CASE phase \in {"headerSync", "truncate", "seek"}
  <2>1. /\ Contents = candidate /\ candidate.hdr = txn.hdr
        /\ Logged(wal, RecordCount) /\ txn.hdr.last > committed.hdr.last
    BY <1>4 DEF CommitInv
  <2>2. NothingNew(wal, hdr) BY <2>1, LoggedBound DEF Contents
  <2>3. CASE phase = "headerSync"
    <3>1. pageDur = page /\ hdrDur = committed.hdr /\ walDur = wal BY <2>3 DEF DurableInv
    <3>2. w = wal /\ pg = page BY <3>1, <2>3, SurvivesFields
    <3>3. h \in {hdr, committed.hdr} BY <3>1 DEF Survives
    <3>4. CASE h = hdr BY <3>2, <3>4, <2>1, <2>2 DEF Disk, Contents
    <3>5. CASE h = committed.hdr
      <4>1. pg = candidate.page BY <3>2, <2>1 DEF Contents
      <4>2. Repairable(wal, pg) BY <4>1, <2>1, CandidatePartly, LoggedRepairs
      <4> QED BY <3>2, <3>5, <4>2 DEF Disk
    <3> QED BY <3>3, <3>4, <3>5
  <2>4. CASE phase \in {"truncate", "seek"}
    <3>1. pageDur = page /\ hdrDur = hdr BY <2>4 DEF DurableInv
    <3>2. NothingNew(walDur, hdr) BY <2>2, <2>4 DEF DurableInv
    <3> QED BY <3>1, <3>2, <2>1, <2>2, SettledDisk
  <2> QED BY <1>4, <2>3, <2>4
<1> QED BY <1>1, <1>2, <1>3, <1>4 DEF InCommit, CommitPhases

(* Two versions of pages that a log repairs, mixed. *)
LEMMA MixRepairable ==
  ASSUME TypeOK, Repairable(wal, page), Repairable(wal, pageDur),
         NEW pg, \A p \in Page : \/ pg[p] \in {page[p], pageDur[p]}
                                 \/ pg[p] = TornPage /\ page[p] # pageDur[p]
  PROVE  Repairable(wal, pg)
<1>1. PICK m \in Slot : WholeTo(wal, m) /\ Redoes(wal, 1, m, page) /\ Known(wal, m, page)
  BY DEF Repairable
<1>2. PICK k \in Slot : WholeTo(wal, k) /\ Redoes(wal, 1, k, pageDur) /\ Known(wal, k, pageDur)
  BY DEF Repairable
<1>3. k = m BY <1>1, <1>2, WholeUnique
<1>4. Redoes(wal, 1, m, pg)
  <2> SUFFICES ASSUME NEW p \in Page
               PROVE  \/ LastRecord(wal, 1, m, p, candidate.page[p])
                      \/ NoRecord(wal, 1, m, p) /\ pg[p] = candidate.page[p]
    BY DEF Redoes
  <2> QED BY <1>1, <1>2, <1>3 DEF Redoes
<1>5. Known(wal, m, pg)
  <2> SUFFICES ASSUME NEW p \in Page
               PROVE  \/ pg[p] \in {committed.page[p], TornPage}
                      \/ \E s \in Slot : s < m /\ wal[s].page = p /\ wal[s].seq = pg[p]
    BY DEF Known
  <2>1. CASE pg[p] = page[p] BY <2>1, <1>1 DEF Known
  <2>2. CASE pg[p] = pageDur[p] BY <2>2, <1>2, <1>3 DEF Known
  <2> QED BY <2>1, <2>2
<1> QED BY <1>1, <1>4, <1>5 DEF Repairable

(* Wherever a running process loses power, Open settles what is left. *)
LEMMA PowerDisk ==
  ASSUME ProcessInv, DurableInv, AtomicInv, Uninterrupted, Authenticated, Running,
         NEW w, NEW pg, NEW h, Survives(w, pg, h)
  PROVE  Disk(w, pg, h)
<1>0. /\ TypeOK /\ GateInv /\ RedoInv /\ ReadyInv /\ CommitInv /\ OpenInv /\ PinInv /\ DiskInv
  BY DEF ProcessInv, AtomicInv, Atomic, Careful, Uninterrupted
<1>1. CASE phase \in {"ready", "txn"}
  <2>1. Healthy BY <1>0, <1>1 DEF GateInv, Healthy, Uninterrupted
  <2>2. /\ Contents = committed /\ NothingNew(wal, hdr) BY <2>1, <1>0 DEF ReadyInv
  <2>3. pageDur = page /\ hdrDur = hdr /\ NothingNew(walDur, hdr) BY <1>1 DEF DurableInv
  <2> QED BY <1>0, <2>2, <2>3, SettledDisk
<1>2. CASE InCommit BY <1>0, <1>2, CommitPowerDisk
<1>3. CASE phase = "replay"
  <2>1. hdr = committed.hdr /\ Repairable(wal, page) /\ Repairable(wal, pageDur)
    BY <1>0, <1>3 DEF DiskInv
  <2>2. hdrDur = hdr /\ walDur = wal BY <1>3 DEF DurableInv
  <2>3. w = wal /\ h = hdr BY <1>0, <1>3, <2>2, SurvivesFields
  <2>4. Repairable(wal, pg) BY <1>0, <2>1, MixRepairable DEF Survives
  <2> QED BY <2>1, <2>3, <2>4 DEF Disk
<1>4. CASE phase = "replayHeader"
  <2>1. hdr = committed.hdr /\ Repairable(wal, page) BY <1>0, <1>4 DEF DiskInv
  <2>2. pageDur = page /\ hdrDur = hdr /\ walDur = wal BY <1>4 DEF DurableInv
  <2>3. w = wal /\ h = hdr /\ pg = page BY <1>0, <1>4, <2>2, SurvivesFields
  <2> QED BY <2>1, <2>3 DEF Disk
<1>5. CASE phase = "replayHeaderSync"
  <2>1. Contents = candidate /\ Repairable(wal, page) /\ hdrDur = committed.hdr
    BY <1>0, <1>5 DEF DiskInv
  <2>2. pageDur = page /\ walDur = wal /\ NothingNew(wal, hdr) BY <1>5 DEF DurableInv
  <2>3. w = wal /\ pg = page BY <1>0, <1>5, <2>2, SurvivesFields
  <2>4. h \in {hdr, committed.hdr} BY <2>1 DEF Survives
  <2>5. CASE h = hdr BY <2>1, <2>2, <2>3, <2>5 DEF Disk, Contents
  <2>6. CASE h = committed.hdr BY <2>1, <2>3, <2>6 DEF Disk
  <2> QED BY <2>4, <2>5, <2>6
<1>6. CASE phase \in {"openTruncate", "openSync", "openTree"}
  <2>1. Contents \in {committed, candidate} BY <1>0, <1>6 DEF DiskInv
  <2>2. pageDur = page /\ hdrDur = hdr BY <1>6 DEF DurableInv
  <2>3. NothingNew(wal, hdr)
    <3>1. CASE phase = "openTruncate" BY <3>1, <1>0 DEF DiskInv
    <3>2. CASE phase # "openTruncate"
      <4>1. wal = [s \in Slot |-> Empty] BY <3>2, <1>0, <1>6 DEF OpenInv
      <4> QED BY <4>1, <1>0, EmptyOld, Fields DEF NothingNew
    <3> QED BY <3>1, <3>2
  <2>4. NothingNew(walDur, hdr)
    <3>1. CASE phase = "openTruncate" BY <3>1, <2>3 DEF DurableInv
    <3>2. CASE phase # "openTruncate" BY <3>2, <1>6 DEF DurableInv
    <3> QED BY <3>1, <3>2
  <2> QED BY <1>0, <2>1, <2>2, <2>3, <2>4, SettledDisk
<1> QED
  BY <1>0, <1>1, <1>2, <1>3, <1>4, <1>5, <1>6
  DEF TypeOK, Running, Phases, OpenPhases, InCommit

-----------------------------------------------------------------------------
(* The steps and the medium. *)

(* The process invariant is inductive by itself. *)
LEMMA ProcessStep == ASSUME ProcessInv, AtomicInv, [Next]_vars PROVE ProcessInv'
<1>1. TypeOK' BY TypeStep DEF ProcessInv
<1>2. Careful' = Careful BY EnvFixed DEF Careful
<1>3. CASE Careful
  BY <1>1, <1>3, GateStep, RedoStep, ReadyStep, CommitStep, OpenStep DEF ProcessInv
<1> QED BY <1>1, <1>2, <1>3 DEF ProcessInv

(* What was shown of the new files holds of them in the next state, when   *)
(* the commit they are compared with is the same.                          *)
LEMMA RepairableNext ==
  ASSUME UNCHANGED <<committed, candidate>>, Repairable(wal', page')
  PROVE  Repairable(wal, page)'
BY DEF Repairable, WholeTo, Redoes, LastRecord, NoRecord, Known, Old

LEMMA RepairableDurNext ==
  ASSUME UNCHANGED <<committed, candidate>>, Repairable(wal', pageDur')
  PROVE  Repairable(wal, pageDur)'
BY DEF Repairable, WholeTo, Redoes, LastRecord, NoRecord, Known, Old

LEMMA DiskNext ==
  ASSUME UNCHANGED <<committed, candidate>>, Disk(wal', page', hdr')
  PROVE  Disk(wal, page, hdr)'
<1>1. NothingNew(wal', hdr') => NothingNew(wal, hdr)' BY DEF NothingNew, Old
<1>2. Unusable(wal', hdr') => Unusable(wal, hdr)' BY DEF Unusable, Unmarked
<1>3. Repairable(wal', page') => Repairable(wal, page)' BY RepairableNext
<1> QED BY <1>1, <1>2, <1>3 DEF Disk

-----------------------------------------------------------------------------
(* The root's generation. *)

(* The pages of a commit are covered by its header. *)
LEMMA CandidateCovered ==
  TypeOK /\ RedoInv /\ CommitInv /\ InCommit /\ Covered(committed) => Covered(candidate)
<1> SUFFICES ASSUME TypeOK, RedoInv, CommitInv, InCommit, Covered(committed), NEW p \in Page
             PROVE  candidate.page[p] <= candidate.hdr.last
  BY DEF Covered
<1>1. /\ candidate.page[p] = IF txn.dirty[p] = 0 THEN committed.page[p] ELSE txn.dirty[p]
      /\ candidate.hdr = txn.hdr /\ txn.hdr.last > committed.hdr.last
  BY DEF CommitInv, Apply
<1>2. CASE LastImage(p, Redos, txn.dirty[p])
  <2>1. PICK i \in 1..Redos : txn.pending[i].seq = txn.dirty[p] BY <1>2 DEF LastImage
  <2>2. /\ txn.pending[i].seq <= txn.hdr.last /\ txn.pending[i].seq > committed.hdr.last
        /\ txn.pending[i].seq \in Nat
    BY RedoFields DEF RedoInv, InTxn
  <2> QED BY <1>1, <2>1, <2>2, Fields
<1>3. CASE txn.dirty[p] = 0
  <2>1. committed.page[p] <= committed.hdr.last /\ committed.page[p] \in Int
    BY Fields DEF Covered
  <2> QED BY <1>1, <1>3, <2>1, Fields
<1> QED BY <1>2, <1>3 DEF RedoInv, InTxn

(* A commit under way has a newer header. *)
LEMMA CommitNewer ==
  CommitInv /\ InCommit => candidate.hdr.last > committed.hdr.last
BY DEF CommitInv

(* A step that publishes nothing keeps the pins. *)
LEMMA PinKept ==
  ASSUME PinInv, UNCHANGED <<txn, committed, candidate>>, InTxn' => InTxn
  PROVE  PinInv'
BY DEF PinInv, Covered, Pinned, Apply

(* A write of the root moves the generation with it. *)
LEMMA PinWrite ==
  ASSUME TypeOK, PinInv, NEW p \in Page, WritePage(p)
  PROVE  PinInv'
<1> DEFINE n == nextWALSeq + 1
<1>1. /\ txn'.dirty = [txn.dirty EXCEPT ![p] = n]
      /\ txn'.hdr = [txn.hdr EXCEPT !.gen = IF p = txn.hdr.root THEN n ELSE @]
      /\ UNCHANGED <<committed, candidate>> /\ phase = "txn"
  <2>1. txn \in Txn BY DEF TypeOK
  <2> QED BY <2>1 DEF WritePage, histVars, Txn
<1>2. /\ txn.hdr \in Header /\ txn.dirty \in [Page -> Nat] /\ n \in Nat \ {0}
  <2>1. nextWALSeq \in Nat BY DEF TypeOK
  <2> QED BY <2>1, Fields
<1>3. /\ txn'.hdr.root = txn.hdr.root
      /\ txn'.hdr.gen = IF p = txn.hdr.root THEN n ELSE txn.hdr.gen
  BY <1>1, <1>2 DEF Header
<1> HIDE DEF n
<1>4. Pinned([page |-> Apply(committed.page, txn.dirty), hdr |-> txn.hdr])
  BY <1>1 DEF PinInv, InTxn
<1>5. ASSUME txn.hdr.root # 0
      PROVE  /\ txn.hdr.root \in Page
             /\ Apply(committed.page, txn'.dirty)[txn.hdr.root] = txn'.hdr.gen
  <2>1. /\ txn.hdr.root \in Page
        /\ (IF txn.dirty[txn.hdr.root] = 0 THEN committed.page[txn.hdr.root]
            ELSE txn.dirty[txn.hdr.root]) = txn.hdr.gen
    BY <1>4, <1>5 DEF Pinned, Apply
  <2>2. CASE p = txn.hdr.root
    <3>1. txn'.dirty[txn.hdr.root] = n BY <2>2, <1>1, <1>2
    <3> QED BY <2>1, <2>2, <3>1, <1>2, <1>3 DEF Apply
  <2>3. CASE p # txn.hdr.root
    <3>1. txn'.dirty[txn.hdr.root] = txn.dirty[txn.hdr.root] BY <2>1, <2>3, <1>1, <1>2
    <3> QED BY <2>1, <2>3, <3>1, <1>3 DEF Apply
  <2> QED BY <2>2, <2>3
<1>6. Pinned([page |-> Apply(committed.page, txn.dirty), hdr |-> txn.hdr])'
  BY <1>1, <1>3, <1>5 DEF Pinned, Apply
<1> QED BY <1>1, <1>6 DEF PinInv, Covered, Pinned

(* A new root brings the generation of its newest image. *)
LEMMA PinSetRoot ==
  ASSUME TypeOK, PinInv, NEW r \in Page \cup {0}, SetRoot(r)
  PROVE  PinInv'
<1> DEFINE h == [txn.hdr EXCEPT !.root = r]
<1>1. /\ txn'.dirty = txn.dirty /\ txn'.hdr = [h EXCEPT !.gen = RootGeneration(h, txn)]
      /\ UNCHANGED <<committed, candidate>> /\ (r # 0 => txn.dirty[r] # 0)
  <2>1. txn \in Txn BY DEF TypeOK
  <2> QED BY <2>1 DEF SetRoot, histVars, Txn
<1>2. txn.hdr \in Header /\ h.root = r BY Fields DEF Header
<1>3. txn'.hdr.root = r /\ txn'.hdr.gen = RootGeneration(h, txn)
  BY <1>1, <1>2 DEF Header
<1> HIDE DEF h
<1>4. r # 0 => r \in Page /\ txn'.hdr.gen = txn.dirty[r]
  BY <1>1, <1>2, <1>3 DEF RootGeneration
<1>5. Pinned([page |-> Apply(committed.page, txn.dirty), hdr |-> txn.hdr])'
  BY <1>1, <1>3, <1>4 DEF Pinned, Apply
<1> QED BY <1>1, <1>5 DEF PinInv, Covered, Pinned

(* The candidate is covered by its header, and its root is pinned. *)
LEMMA PinCommit ==
  ASSUME ProcessInv, ProcessInv', Careful, PinInv, CommitWriteTxn
  PROVE  PinInv'
<1>0. Careful' BY EnvFixed DEF Careful, Next
<1>1. /\ txn'.dirty = txn.dirty /\ txn'.hdr = FinalHeader /\ committed' = committed
      /\ candidate' = [page |-> Apply(committed.page, txn.dirty), hdr |-> FinalHeader]
      /\ phase = "txn" /\ phase' = "append"
  <2>1. txn \in Txn BY DEF ProcessInv, TypeOK
  <2> QED BY <2>1 DEF CommitWriteTxn, Txn
<1>2. InCommit' /\ TypeOK' /\ RedoInv' /\ CommitInv'
  BY <1>0, <1>1 DEF ProcessInv, InCommit, CommitPhases
<1>3. Covered(committed)' BY <1>1 DEF PinInv, Covered
<1>4. Covered(candidate)'
  <2>1. (TypeOK /\ RedoInv /\ CommitInv /\ InCommit /\ Covered(committed) => Covered(candidate))'
    BY CandidateCovered, PTL
  <2> QED BY <2>1, <1>2, <1>3
<1>5. candidate'.hdr.last > committed'.hdr.last
  <2>1. (CommitInv /\ InCommit => candidate.hdr.last > committed.hdr.last)'
    BY CommitNewer, PTL
  <2> QED BY <2>1, <1>2
<1>6. Pinned([page |-> Apply(committed.page, txn.dirty), hdr |-> FinalHeader])
  <2>1. Pinned([page |-> Apply(committed.page, txn.dirty), hdr |-> txn.hdr])
    BY <1>1 DEF PinInv, InTxn
  <2> QED BY <2>1, FinalFields DEF Pinned, ProcessInv
<1>7. /\ Pinned(candidate)' /\ Pinned(committed)'
      /\ Pinned([page |-> Apply(committed.page, txn.dirty), hdr |-> txn.hdr])'
  BY <1>1, <1>6 DEF Pinned, Apply, PinInv
<1> QED BY <1>3, <1>4, <1>5, <1>7 DEF PinInv

(* Every step keeps committed and candidate covered and pinned. *)
LEMMA PinStep ==
  ASSUME ProcessInv, ProcessInv', Careful, Atomic, PinInv, DiskInv, [Next]_vars
  PROVE  PinInv'
<1>0. TypeOK /\ GateInv /\ ReadyInv /\ CommitInv BY DEF ProcessInv
<1> USE DEF InTxn, InCommit, CommitPhases
<1>1. CASE UNCHANGED vars BY <1>1, PinKept DEF vars, procVars, histVars
<1>2. CASE Pipeline
  <2>1. CASE Acknowledge
    <3>1. committed' = candidate /\ candidate' = candidate /\ phase' = "ready"
      BY <2>1 DEF Acknowledge
    <3> QED BY <3>1 DEF PinInv, Covered, Pinned
  <2>2. CASE ~Acknowledge
    <3>1. UNCHANGED <<txn, committed, candidate>> /\ InCommit
      BY <1>2, <2>2 DEF Pipeline, WriteWALRecord, SyncWAL, WritePrimaryPage, SyncPrimaryPages,
                        WriteHeader, SyncHeader, TruncateWAL, histVars
    <3> QED BY <3>1, PinKept
  <2> QED BY <2>1, <2>2
<1>3. CASE Recovery
  <2>0. phase' \notin CommitPhases \cup {"txn"}
    BY <1>3 DEF Recovery, OpenDatabase, ReplayPage, ReplayCorrupt, ReplayPagesDone,
                ReplayWriteHeader, ReplaySyncHeader, OpenTruncateWAL, OpenSyncWAL, OpenReadTree
  <2>1. CASE OpenReadTree
    <3>1. Settled \in {committed, candidate} BY DEF Settled
    <3>2. \/ committed' = Settled /\ candidate' = Settled
          \/ UNCHANGED <<committed, candidate>>
      BY <2>1 DEF OpenReadTree, histVars
    <3> QED BY <2>0, <3>1, <3>2 DEF PinInv, Covered, Pinned
  <2>2. CASE ~OpenReadTree
    <3>1. UNCHANGED <<txn, committed, candidate>>
      BY <1>3, <2>2 DEF Recovery, OpenDatabase, ReplayPage, ReplayCorrupt, ReplayPagesDone,
                ReplayWriteHeader, ReplaySyncHeader, OpenTruncateWAL, OpenSyncWAL, histVars
    <3> QED BY <2>0, <3>1, PinKept
  <2> QED BY <2>1, <2>2
<1>4. CASE CommitError \/ Close \/ Kill \/ PowerLoss \/ AbortWriteTxn
  <2>1. UNCHANGED <<committed, candidate>> /\ phase' \in {"ready", "down"}
    BY <1>4 DEF CommitError, Close, Kill, PowerLoss, AbortWriteTxn, ProcessGone, histVars
  <2> QED BY <2>1 DEF PinInv, Covered, Pinned
<1>5. ASSUME NEW w \in env.writers, BeginWriteTxn(w) PROVE PinInv'
  <2>1. Healthy BY <1>0, <1>5, BeginsHealthy
  <2>2. hdr = committed.hdr BY <2>1, <1>0 DEF ReadyInv, Contents
  <2>3. /\ txn'.dirty = NotDirty /\ txn'.hdr = committed.hdr
        /\ UNCHANGED <<committed, candidate>>
    BY <1>5, <2>2 DEF BeginWriteTxn, histVars
  <2>4. Pinned([page |-> Apply(committed.page, txn.dirty), hdr |-> txn.hdr])'
    BY <2>3 DEF Pinned, Apply, NotDirty, PinInv
  <2> QED BY <2>3, <2>4 DEF PinInv, Covered, Pinned
<1>6. ASSUME NEW p \in Page, WritePage(p) PROVE PinInv' BY <1>0, <1>6, PinWrite
<1>7. ASSUME NEW r \in Page \cup {0}, SetRoot(r) PROVE PinInv' BY <1>0, <1>7, PinSetRoot
<1>8. CASE CommitWriteTxn BY <1>8, PinCommit
<1> QED BY <1>1, <1>2, <1>3, <1>4, <1>5, <1>6, <1>7, <1>8 DEF Next

-----------------------------------------------------------------------------
(* Recovery, step by step. *)

(* Open starts a replay only when the log can complete the commit, and     *)
(* empties a log only when nothing in it is new.                           *)
LEMMA OpenDisk ==
  ASSUME TypeOK, Authenticated, DurableInv, Disk(wal, page, hdr), OpenDatabase
  PROVE  /\ phase' \in {"refused", "replay", "openTruncate"} /\ step' = 1
         /\ phase' = "replay" => hdr = committed.hdr /\ Repairable(wal, page)
         /\ phase' = "openTruncate" => Contents \in {committed, candidate} /\ NothingNew(wal, hdr)
<1>0. /\ phase' = (IF Authenticated /\ (Damaged \/ MarkerMissing) THEN "refused"
                   ELSE IF \E s \in Slot : Fresh(s) \/ wal[s] = Torn THEN "replay"
                   ELSE "openTruncate")
      /\ step' = 1
  BY DEF OpenDatabase
<1>1. /\ \A s \in Slot : wal[s].seq \in Int
      /\ hdr.last \in Nat /\ wal \in [Slot -> Record]
  BY RecordFields, Fields DEF TypeOK
<1>2. ASSUME ~Damaged, ~MarkerMissing, NEW s \in Slot, Fresh(s)
      PROVE  hdr = committed.hdr /\ Repairable(wal, page)
  <2>1. ~NothingNew(wal, hdr) BY <1>1, <1>2 DEF NothingNew, Old, Fresh
  <2>2. ~Unusable(wal, hdr)
    <3>1. PICK t \in Slot : LastMarker(t) BY <1>2 DEF MarkerMissing
    <3>2. t \in Slot /\ Fresh(t) /\ wal[t].page = 0 BY <3>1 DEF LastMarker, Marker
    <3>3. hdr = committed.hdr => ~Unmarked(wal) BY <3>2 DEF Unmarked, Fresh
    <3> QED BY <3>3, <1>2 DEF Unusable, Damaged
  <2> QED BY <2>1, <2>2 DEF Disk
<1>3. ASSUME ~\E s \in Slot : Fresh(s) \/ wal[s] = Torn
      PROVE  Contents \in {committed, candidate} /\ NothingNew(wal, hdr)
  <2>1. NothingNew(wal, hdr) BY <1>1, <1>3 DEF NothingNew, Old, Fresh
  <2>2. ~(hdr = committed.hdr /\ Repairable(wal, page))
    <3> SUFFICES ASSUME hdr = committed.hdr, NEW m \in Slot, WholeTo(wal, m) PROVE FALSE
      BY DEF Repairable
    <3>1. Fresh(m) BY WholeReplay
    <3> QED BY <3>1, <1>3
  <2> QED BY <2>1, <2>2 DEF Disk, Contents
<1> QED BY <1>0, <1>2, <1>3 DEF Damaged

(* One page of the redo: what remains to be done is one record less. *)
LEMMA RedoPage ==
  ASSUME TypeOK, Authenticated, hdr = committed.hdr, NEW m \in Slot, WholeTo(wal, m),
         Redoes(wal, 1, m, page), Known(wal, m, page), Redoes(wal, step, m, page),
         NEW s \in Slot, ReplayPage(s)
  PROVE  /\ s = step /\ wal[s].page \in Page
         /\ Redoes(wal, 1, m, page') /\ Known(wal, m, page')
         /\ Redoes(wal, step', m, page')
<1>0. /\ s >= step /\ s \in ReplaySlots /\ step' = s + 1
      /\ \A t \in Slot : t >= step /\ t < s => t \notin ReplaySlots
      /\ page' = [page EXCEPT ![wal[s].page] = wal[s].seq]
  BY DEF ReplayPage
<1>1. /\ step \in Nat \ {0} /\ page \in [Page -> Int] /\ m \in Nat /\ s \in Nat /\ WalSlots \in Nat
  BY Fields DEF TypeOK
<1>2. \A t \in Slot : t \in ReplaySlots <=> t < m BY WholeReplay
<1>3. s < m BY <1>0, <1>2
<1>4. s = step
  <2> SUFFICES ASSUME s # step PROVE FALSE OBVIOUS
  <2>1. step < s /\ step \in Slot BY <1>0, <1>1
  <2>2. step < m BY <2>1, <1>1, <1>3
  <2> QED BY <2>1, <2>2, <1>0, <1>1, <1>2
<1>5. wal[s].page \in Page BY <1>3 DEF WholeTo
<1>6. \A p \in Page : page'[p] = IF wal[s].page = p THEN wal[s].seq ELSE page[p]
  BY <1>0, <1>1
<1>7. Redoes(wal, 1, m, page')
  <2> SUFFICES ASSUME NEW p \in Page
               PROVE  \/ LastRecord(wal, 1, m, p, candidate.page[p])
                      \/ NoRecord(wal, 1, m, p) /\ page'[p] = candidate.page[p]
    BY DEF Redoes
  <2>1. CASE LastRecord(wal, 1, m, p, candidate.page[p]) BY <2>1
  <2>2. CASE NoRecord(wal, 1, m, p) /\ page[p] = candidate.page[p]
    <3>1. wal[s].page # p BY <2>2, <1>1, <1>3 DEF NoRecord
    <3> QED BY <2>2, <3>1, <1>6
  <2> QED BY <2>1, <2>2 DEF Redoes
<1>8. Known(wal, m, page')
  <2> SUFFICES ASSUME NEW p \in Page
               PROVE  \/ page'[p] \in {committed.page[p], TornPage}
                      \/ \E t \in Slot : t < m /\ wal[t].page = p /\ wal[t].seq = page'[p]
    BY DEF Known
  <2>1. CASE wal[s].page = p BY <2>1, <1>3, <1>6
  <2>2. CASE wal[s].page # p
    <3>1. page'[p] = page[p] BY <2>2, <1>6
    <3> QED BY <3>1 DEF Known
  <2> QED BY <2>1, <2>2
<1>9. Redoes(wal, s + 1, m, page')
  <2> SUFFICES ASSUME NEW p \in Page
               PROVE  \/ LastRecord(wal, s + 1, m, p, candidate.page[p])
                      \/ NoRecord(wal, s + 1, m, p) /\ page'[p] = candidate.page[p]
    BY DEF Redoes
  <2>1. CASE LastRecord(wal, s, m, p, candidate.page[p])
    <3>1. PICK t \in Slot : /\ s <= t /\ t < m /\ wal[t].page = p
                            /\ wal[t].seq = candidate.page[p]
                            /\ \A u \in Slot : t < u /\ u < m => wal[u].page # p
      BY <2>1 DEF LastRecord
    <3>2. CASE t = s
      <4>1. page'[p] = candidate.page[p] BY <3>1, <3>2, <1>6
      <4>2. \A u \in Slot : s + 1 <= u => s < u BY <1>1
      <4>3. NoRecord(wal, s + 1, m, p) BY <3>1, <3>2, <4>2 DEF NoRecord
      <4> QED BY <4>1, <4>3
    <3>3. CASE t # s
      <4>1. s + 1 <= t BY <3>1, <3>3, <1>1
      <4>2. LastRecord(wal, s + 1, m, p, candidate.page[p]) BY <3>1, <4>1 DEF LastRecord
      <4> QED BY <4>2
    <3> QED BY <3>2, <3>3
  <2>2. CASE NoRecord(wal, s, m, p) /\ page[p] = candidate.page[p]
    <3>1. wal[s].page # p BY <2>2, <1>1, <1>3 DEF NoRecord
    <3>2. \A u \in Slot : s + 1 <= u => s <= u BY <1>1
    <3>3. NoRecord(wal, s + 1, m, p) BY <2>2, <3>2 DEF NoRecord
    <3> QED BY <2>2, <3>1, <3>3, <1>6
  <2> QED BY <2>1, <2>2, <1>4 DEF Redoes
<1> QED BY <1>0, <1>4, <1>5, <1>7, <1>8, <1>9

(* When nothing is left to redo, the pages are the candidate's. *)
LEMMA RedoDone ==
  ASSUME TypeOK, Authenticated, hdr = committed.hdr, NEW m \in Slot, WholeTo(wal, m),
         Redoes(wal, step, m, page), ReplayDone
  PROVE  page = candidate.page
<1>1. \A t \in Slot : t \in ReplaySlots <=> t < m BY WholeReplay
<1>2. \A t \in Slot : ~(step <= t /\ t < m)
  <2> SUFFICES ASSUME NEW t \in Slot, step <= t, t < m PROVE FALSE OBVIOUS
  <2>1. t >= step BY DEF TypeOK
  <2> QED BY <2>1, <1>1 DEF ReplayDone
<1>3. \A p \in Page : page[p] = candidate.page[p]
  BY <1>2 DEF Redoes, LastRecord
<1>4. page \in [Page -> Int] /\ candidate.page \in [Page -> Int] BY Fields DEF TypeOK
<1>5. page = [p \in Page |-> page[p]] /\ candidate.page = [p \in Page |-> candidate.page[p]]
  BY <1>4
<1>6. [p \in Page |-> page[p]] = [p \in Page |-> candidate.page[p]] BY <1>3
<1> QED BY <1>5, <1>6

-----------------------------------------------------------------------------
(* What Open finds, step by step. *)

(* In the recovery too, a killed process leaves files that Open settles. *)
LEMMA KilledDisk ==
  ASSUME ProcessInv, Careful, DiskInv, Authenticated, Kill
  PROVE  Disk(wal', page', hdr')
<1>0. /\ TypeOK /\ GateInv /\ RedoInv /\ ReadyInv /\ CommitInv /\ OpenInv
  BY DEF ProcessInv
<1>1. /\ hdr' = hdr /\ phase \notin {"down", "refused"} /\ phase \in Phases
      /\ \/ wal' = wal /\ page' = page
         \/ phase = "append" /\ walOff \in Slot /\ wal' = [wal EXCEPT ![walOff] = Torn]
            /\ page' = page
         \/ phase = "primary" /\ step <= Redos /\ wal' = wal
            /\ page' = [page EXCEPT ![txn.pending[step].page] = TornPage]
  BY <1>0 DEF Kill, Running, Redos, TypeOK
<1>2. wal \in [Slot -> Record] /\ page \in [Page -> Int] BY <1>0 DEF TypeOK
<1>3. wal' \in [Slot -> Record] /\ page' \in [Page -> Int]
  <2>1. Torn \in Record /\ TornPage \in Int BY RecordTypes DEF TornPage
  <2> QED BY <1>1, <1>2, <2>1
<1>4. CASE InCommit BY <1>0, <1>1, <1>3, <1>4, CommitDisk
<1>5. CASE ~InCommit
  <2>1. wal' = wal /\ page' = page BY <1>1, <1>5 DEF InCommit, CommitPhases
  <2>2. Disk(wal, page, hdr)
    <3>1. CASE recoveryRequired BY <3>1 DEF DiskInv
    <3>2. CASE phase \in {"ready", "txn"} /\ ~recoveryRequired
      <4>1. Contents = committed /\ NothingNew(wal, hdr) BY <3>2, <1>0 DEF ReadyInv, Healthy
      <4> QED BY <4>1 DEF Disk, Contents
    <3>3. CASE phase \in {"replay", "replayHeader"} BY <3>3 DEF DiskInv, Disk
    <3>4. CASE phase = "replayHeaderSync"
      <4>1. Contents = candidate /\ Repairable(wal, page) BY <3>4 DEF DiskInv
      <4>2. PICK m \in Slot : WholeTo(wal, m) BY <4>1 DEF Repairable
      <4>3. NothingNew(wal, candidate.hdr) BY <1>0, <1>2, <4>2, WholeBound
      <4>4. hdr = candidate.hdr BY <4>1 DEF Contents
      <4> QED BY <4>1, <4>3, <4>4 DEF Disk, Contents
    <3>5. CASE phase \in {"openTruncate", "openSync", "openTree"}
      <4>1. Contents \in {committed, candidate} BY <3>5 DEF DiskInv
      <4>2. NothingNew(wal, hdr)
        <5>1. CASE phase = "openTruncate" BY <5>1 DEF DiskInv
        <5>2. CASE phase # "openTruncate"
          <6>1. wal = [s \in Slot |-> Empty] BY <5>2, <3>5, <1>0 DEF OpenInv
          <6> QED BY <6>1, <1>0, EmptyOld, Fields DEF NothingNew
        <5> QED BY <5>1, <5>2
      <4> QED BY <4>1, <4>2 DEF Disk, Contents
    <3> QED BY <1>1, <1>5, <3>1, <3>2, <3>3, <3>4, <3>5 DEF Phases, OpenPhases, InCommit
  <2> QED BY <1>1, <2>1, <2>2
<1> QED BY <1>4, <1>5

(* Every step of Open keeps a log that completes the commit until the     *)
(* header is the candidate's, or was refused.                              *)
LEMMA DiskRecovers ==
  ASSUME ProcessInv, Careful, DurableInv, PinInv, DiskInv, Authenticated, Recovery
  PROVE  DiskInv'
<1>0. /\ TypeOK /\ GateInv /\ OpenInv BY DEF ProcessInv
<1>1. env' = env /\ recoveryRequired' = recoveryRequired /\ Uninterrupted' = Uninterrupted
  <2>1. env' = env BY EnvFixed DEF Next
  <2> QED BY <2>1 DEF Uninterrupted, Recovery, OpenDatabase, ReplayPage, ReplayCorrupt,
          ReplayPagesDone, ReplayWriteHeader, ReplaySyncHeader, OpenTruncateWAL, OpenSyncWAL,
          OpenReadTree
<1>2. phase \in OpenPhases \cup {"down"}
  BY DEF Recovery, OpenDatabase, ReplayPage, ReplayCorrupt, ReplayPagesDone, OpenPhases,
         ReplayWriteHeader, ReplaySyncHeader, OpenTruncateWAL, OpenSyncWAL, OpenReadTree
<1>3. ~recoveryRequired' BY <1>0, <1>1, <1>2 DEF GateInv, OpenPhases
<1>4. CASE OpenDatabase
  <2>1. Disk(wal, page, hdr) BY <1>4 DEF OpenDatabase, DiskInv
  <2>2. UNCHANGED <<wal, page, hdr, pageDur, committed, candidate>> /\ phase = "down"
    BY <1>4 DEF OpenDatabase, fileVars, histVars
  <2>3. Disk(wal', page', hdr') BY <2>1, <2>2
  <2>4. CASE phase' = "refused"
    <3>1. Disk(wal, page, hdr)' BY <2>2, <2>3, DiskNext
    <3> QED BY <2>4, <3>1, <1>3 DEF DiskInv
  <2>5. CASE phase' = "replay"
    <3>1. hdr = committed.hdr /\ Repairable(wal, page) /\ step' = 1
      BY <1>0, <1>4, <2>1, <2>5, OpenDisk
    <3>2. Repairable(wal, page)'
      <4>1. Repairable(wal', page') BY <3>1, <2>2
      <4> QED BY <4>1, <2>2, RepairableNext
    <3>3. \A m \in Slot : WholeTo(wal, m)' => Redoes(wal, step, m, page)'
      <4>1. PICK k \in Slot : WholeTo(wal, k) /\ Redoes(wal, 1, k, page)
        BY <3>1 DEF Repairable
      <4>2. ASSUME NEW m \in Slot, WholeTo(wal, m) PROVE Redoes(wal, 1, m, page)
        <5>1. m = k BY <4>1, <4>2, <1>0, WholeUnique
        <5> QED BY <4>1, <5>1
      <4>3. ASSUME NEW m \in Slot PROVE WholeTo(wal, m)' => WholeTo(wal, m)
        BY <2>2 DEF WholeTo, Old
      <4>4. ASSUME NEW m \in Slot PROVE Redoes(wal, 1, m, page) => Redoes(wal, step, m, page)'
        BY <2>2, <3>1 DEF Redoes, LastRecord, NoRecord
      <4> QED BY <4>2, <4>3, <4>4
    <3>4. Uninterrupted => Repairable(wal, pageDur)'
      <4> SUFFICES ASSUME Uninterrupted PROVE Repairable(wal, pageDur)' OBVIOUS
      <4>1. pageDur = page BY <2>2 DEF DurableInv
      <4>2. Repairable(wal', pageDur') BY <3>1, <4>1, <2>2
      <4> QED BY <4>2, <2>2, RepairableDurNext
    <3> QED BY <2>2, <2>5, <3>1, <3>2, <3>3, <3>4, <1>1, <1>3 DEF DiskInv
  <2>6. CASE phase' = "openTruncate"
    <3>1. Contents \in {committed, candidate} /\ NothingNew(wal, hdr)
      BY <1>0, <1>4, <2>1, <2>6, OpenDisk
    <3>2. NothingNew(wal, hdr)' BY <3>1, <2>2 DEF NothingNew, Old
    <3> QED BY <2>2, <2>6, <3>1, <3>2, <1>3 DEF DiskInv, Contents
  <2> QED BY <1>0, <1>4, <2>1, <2>4, <2>5, <2>6, OpenDisk
<1>5. CASE \E s \in Slot : ReplayPage(s)
  <2>1. PICK s \in Slot : ReplayPage(s) BY <1>5
  <2>2. /\ UNCHANGED <<wal, hdr, pageDur, committed, candidate>>
        /\ phase = "replay" /\ phase' = "replay" /\ step' = s + 1
    BY <2>1 DEF ReplayPage, histVars
  <2>3. /\ hdr = committed.hdr /\ Repairable(wal, page)
        /\ \A m \in Slot : WholeTo(wal, m) => Redoes(wal, step, m, page)
        /\ Uninterrupted => Repairable(wal, pageDur)
    BY <2>2 DEF DiskInv
  <2>4. PICK m \in Slot : WholeTo(wal, m) /\ Redoes(wal, 1, m, page) /\ Known(wal, m, page)
    BY <2>3 DEF Repairable
  <2>5. /\ Redoes(wal, 1, m, page') /\ Known(wal, m, page') /\ Redoes(wal, step', m, page')
    BY <1>0, <2>1, <2>3, <2>4, RedoPage
  <2>6. Repairable(wal, page)'
    <3>1. Repairable(wal, page') BY <2>4, <2>5 DEF Repairable
    <3>2. Repairable(wal', page') BY <3>1, <2>2
    <3> QED BY <3>2, <2>2, RepairableNext
  <2>7. \A k \in Slot : WholeTo(wal, k)' => Redoes(wal, step, k, page)'
    <3> SUFFICES ASSUME NEW k \in Slot, WholeTo(wal, k)' PROVE Redoes(wal, step, k, page)'
      OBVIOUS
    <3>1. WholeTo(wal, k) BY <2>2 DEF WholeTo, Old
    <3>2. k = m BY <3>1, <2>4, <1>0, WholeUnique
    <3>3. Redoes(wal, step', k, page') BY <3>2, <2>5
    <3> QED BY <3>3, <2>2 DEF Redoes, LastRecord, NoRecord
  <2>8. Uninterrupted => Repairable(wal, pageDur)'
    <3> SUFFICES ASSUME Uninterrupted PROVE Repairable(wal, pageDur)' OBVIOUS
    <3>1. Repairable(wal', pageDur') BY <2>2, <2>3
    <3> QED BY <3>1, <2>2, RepairableDurNext
  <2> QED BY <2>2, <2>3, <2>6, <2>7, <2>8, <1>1, <1>3 DEF DiskInv
<1>6. CASE ReplayCorrupt
  <2>1. hdr = committed.hdr /\ Repairable(wal, page) /\ Damaged
    BY <1>6 DEF ReplayCorrupt, DiskInv, Damaged
  <2>2. PICK m \in Slot : WholeTo(wal, m) BY <2>1 DEF Repairable
  <2> QED BY <2>1, <2>2, <1>0, WholeReplay
<1>7. CASE ReplayPagesDone
  <2>1. /\ UNCHANGED <<wal, page, hdr, committed, candidate>>
        /\ phase = "replay" /\ phase' = "replayHeader" /\ ReplayDone
    BY <1>7 DEF ReplayPagesDone, histVars
  <2>2. /\ hdr = committed.hdr /\ Repairable(wal, page)
        /\ \A m \in Slot : WholeTo(wal, m) => Redoes(wal, step, m, page)
    BY <2>1 DEF DiskInv
  <2>3. PICK m \in Slot : WholeTo(wal, m) BY <2>2 DEF Repairable
  <2>4. page = candidate.page BY <1>0, <2>1, <2>2, <2>3, RedoDone
  <2>5. Repairable(wal, page)'
    <3>1. Repairable(wal', page') BY <2>1, <2>2
    <3> QED BY <3>1, <2>1, RepairableNext
  <2> QED BY <2>1, <2>2, <2>4, <2>5, <1>3 DEF DiskInv
<1>8. CASE ReplayWriteHeader
  <2>1. /\ UNCHANGED <<wal, page, pageDur, hdrDur, committed, candidate>>
        /\ phase = "replayHeader" /\ phase' = "replayHeaderSync"
    BY <1>8 DEF ReplayWriteHeader, histVars
  <2>2. hdr = committed.hdr /\ page = candidate.page /\ Repairable(wal, page)
    BY <2>1 DEF DiskInv
  <2>3. PICK m \in Slot : WholeTo(wal, m) BY <2>2 DEF Repairable
  <2>4. hdr' = candidate.hdr
    <3>1. PICK s \in Slot : LastMarker(s) /\ hdr' = wal[s].hdr
      BY <1>8 DEF ReplayWriteHeader, ReplayedHeader
    <3>2. s = m BY <3>1, <1>0, <2>2, <2>3, WholeReplay
    <3>3. wal \in [Slot -> Record] BY <1>0 DEF TypeOK
    <3>4. WholeRecords(wal, m) BY <3>3, <1>0, <2>3, WholeFields
    <3> QED BY <3>1, <3>2, <3>4 DEF WholeRecords
  <2>5. Contents' = candidate'
    <3>1. candidate = [page |-> candidate.page, hdr |-> candidate.hdr]
      BY <1>0 DEF TypeOK, Image
    <3> QED BY <3>1, <2>1, <2>2, <2>4 DEF Contents
  <2>6. Repairable(wal, page)'
    <3>1. Repairable(wal', page') BY <2>1, <2>2
    <3> QED BY <3>1, <2>1, RepairableNext
  <2>7. Uninterrupted => hdrDur' = committed'.hdr BY <2>1, <2>2 DEF DurableInv
  <2> QED BY <2>1, <2>5, <2>6, <2>7, <1>1, <1>3 DEF DiskInv
<1>9. CASE ReplaySyncHeader
  <2>1. /\ UNCHANGED <<wal, page, hdr, committed, candidate>>
        /\ phase = "replayHeaderSync" /\ phase' = "openTruncate"
    BY <1>9 DEF ReplaySyncHeader, histVars
  <2>2. Contents = candidate /\ Repairable(wal, page) BY <2>1 DEF DiskInv
  <2>3. PICK m \in Slot : WholeTo(wal, m) BY <2>2 DEF Repairable
  <2>4. wal \in [Slot -> Record] BY <1>0 DEF TypeOK
  <2>5. NothingNew(wal, candidate.hdr) BY <1>0, <2>3, <2>4, WholeBound
  <2>6. hdr' = candidate.hdr /\ Contents' = candidate' BY <2>1, <2>2 DEF Contents
  <2>7. NothingNew(wal, hdr)' BY <2>1, <2>5, <2>6 DEF NothingNew, Old
  <2> QED BY <2>1, <2>6, <2>7, <1>3 DEF DiskInv
<1>10. CASE OpenTruncateWAL \/ OpenSyncWAL
  <2>1. /\ UNCHANGED <<page, hdr, committed, candidate>>
        /\ phase \in {"openTruncate", "openSync"} /\ phase' \in {"openSync", "openTree"}
    BY <1>10 DEF OpenTruncateWAL, OpenSyncWAL, histVars
  <2>2. Contents \in {committed, candidate} BY <2>1 DEF DiskInv
  <2> QED BY <2>1, <2>2, <1>3 DEF DiskInv, Contents
<1>11. CASE OpenReadTree
  <2>1. /\ UNCHANGED <<wal, page, hdr>> /\ phase = "openTree" /\ phase' \in {"ready", "refused"}
        /\ phase' = "refused" => UNCHANGED <<committed, candidate>>
    BY <1>11 DEF OpenReadTree, fileVars, histVars
  <2>2. Contents \in {committed, candidate} BY <2>1 DEF DiskInv
  <2>3. CASE phase' = "ready" BY <2>3, <1>3 DEF DiskInv
  <2>4. CASE phase' = "refused"
    <3>1. wal = [s \in Slot |-> Empty] BY <1>0, <2>1 DEF OpenInv
    <3>2. NothingNew(wal, hdr) BY <3>1, <1>0, EmptyOld, Fields DEF NothingNew
    <3>3. Disk(wal, page, hdr) BY <3>2, <2>2 DEF Disk, Contents
    <3>4. Disk(wal', page', hdr') BY <3>3, <2>1
    <3>5. Disk(wal, page, hdr)' BY <3>4, <2>1, <2>4, DiskNext
    <3> QED BY <3>5, <2>4, <1>3 DEF DiskInv
  <2> QED BY <2>1, <2>3, <2>4
<1> QED BY <1>4, <1>5, <1>6, <1>7, <1>8, <1>9, <1>10, <1>11 DEF Recovery

(* Every step leaves what the next Open settles. *)
LEMMA DiskStep ==
  ASSUME ProcessInv, DurableInv, AtomicInv, Atomic, [Next]_vars
  PROVE  DiskInv'
<1>0. /\ TypeOK /\ GateInv /\ RedoInv /\ ReadyInv /\ CommitInv /\ OpenInv /\ PinInv /\ DiskInv
      /\ Careful /\ Authenticated
  BY DEF ProcessInv, AtomicInv, Atomic, Careful, Uninterrupted, Powered
<1>q. ASSUME phase' \in {"ready", "txn"} \cup CommitPhases, ~recoveryRequired' PROVE DiskInv'
  BY <1>q DEF DiskInv, CommitPhases
<1>1. CASE UNCHANGED vars
  <2>1. /\ UNCHANGED <<wal, page, hdr, pageDur, hdrDur, phase, step, recoveryRequired, env,
                       committed, candidate>>
    BY <1>1 DEF vars, fileVars, procVars, boundVars, histVars
  <2>2. /\ Disk(wal, page, hdr) => Disk(wal, page, hdr)'
        /\ Repairable(wal, page) => Repairable(wal, page)'
        /\ Repairable(wal, pageDur) => Repairable(wal, pageDur)'
    <3>1. Disk(wal, page, hdr) => Disk(wal', page', hdr') BY <2>1
    <3>2. Repairable(wal, page) => Repairable(wal', page') BY <2>1
    <3>3. Repairable(wal, pageDur) => Repairable(wal', pageDur') BY <2>1
    <3> QED BY <2>1, <3>1, <3>2, <3>3, DiskNext, RepairableNext, RepairableDurNext
  <2>3. ASSUME NEW m \in Slot
        PROVE  /\ WholeTo(wal, m)' => WholeTo(wal, m)
               /\ Redoes(wal, step, m, page) => Redoes(wal, step, m, page)'
    BY <2>1 DEF WholeTo, Old, Redoes, LastRecord, NoRecord
  <2>4. NothingNew(wal, hdr) => NothingNew(wal, hdr)' BY <2>1 DEF NothingNew, Old
  <2>5. Contents' = Contents /\ Uninterrupted' = Uninterrupted
    BY <2>1 DEF Contents, Uninterrupted
  <2> QED BY <1>0, <2>1, <2>2, <2>3, <2>4, <2>5 DEF DiskInv
<1>2. CASE Pipeline
  <2>1. /\ phase' \in {"ready"} \cup CommitPhases /\ phase \in CommitPhases
        /\ recoveryRequired' = recoveryRequired
    BY <1>2 DEF Pipeline, WriteWALRecord, SyncWAL, WritePrimaryPage, SyncPrimaryPages,
              WriteHeader, SyncHeader, TruncateWAL, Acknowledge, CommitPhases
  <2>2. ~recoveryRequired BY <2>1, <1>0 DEF GateInv, CommitPhases
  <2> QED BY <2>1, <2>2, <1>q
<1>3. CASE Recovery BY <1>0, <1>3, DiskRecovers
<1>4. CASE CommitError
  <2>1. /\ InCommit /\ UNCHANGED <<hdr, committed, candidate>> /\ phase' = "ready"
    BY <1>4 DEF CommitError, InCommit, histVars
  <2>2. /\ wal' \in [Slot -> Record] /\ page' \in [Page -> Int]
    <3>1. TypeOK' BY <1>0, TypeStep
    <3> QED BY <3>1 DEF TypeOK
  <2>3. \/ wal' = wal /\ page' = page
        \/ phase = "append" /\ walOff \in Slot /\ wal' = [wal EXCEPT ![walOff] = Torn]
           /\ page' = page
        \/ phase = "primary" /\ step <= Redos /\ wal' = wal
           /\ page' = [page EXCEPT ![txn.pending[step].page] = TornPage]
    BY <1>4 DEF CommitError, FailedWALWrite, FailedPageWrite, FailedTruncate, FailedFinalSync,
                FailedCleanly, Redos
  <2>4. Disk(wal', page', hdr) BY <1>0, <2>1, <2>2, <2>3, CommitDisk
  <2>5. Disk(wal', page', hdr') BY <2>1, <2>4
  <2>6. Disk(wal, page, hdr)' BY <2>1, <2>5, DiskNext
  <2> QED BY <2>1, <2>6 DEF DiskInv
<1>5. CASE Close
  <2>1. /\ UNCHANGED <<wal, page, hdr, committed, candidate>> /\ phase = "ready"
        /\ phase' = "down" /\ ~recoveryRequired'
    BY <1>5 DEF Close, ProcessGone, fileVars, histVars
  <2>2. Disk(wal, page, hdr)
    <3>1. CASE recoveryRequired BY <3>1, <1>0 DEF DiskInv
    <3>2. CASE ~recoveryRequired
      <4>1. Contents = committed /\ NothingNew(wal, hdr)
        BY <3>2, <2>1, <1>0 DEF ReadyInv, Healthy
      <4> QED BY <4>1 DEF Disk, Contents
    <3> QED BY <3>1, <3>2
  <2>3. Disk(wal', page', hdr') BY <2>1, <2>2
  <2>4. Disk(wal, page, hdr)' BY <2>1, <2>3, DiskNext
  <2> QED BY <2>1, <2>4 DEF DiskInv
<1>6. CASE Kill \/ PowerLoss
  <2>1. /\ UNCHANGED <<committed, candidate>> /\ phase' = "down" /\ ~recoveryRequired'
    BY <1>6 DEF Kill, PowerLoss, ProcessGone, histVars
  <2>2. Disk(wal', page', hdr')
    <3>1. CASE Kill BY <1>0, <3>1, KilledDisk
    <3>2. CASE PowerLoss
      <4>1. Uninterrupted /\ Running
        BY <3>2 DEF PowerLoss, Atomic, Powered
      <4>2. page' \in [Page -> Int]
        <5>1. TypeOK' BY <1>0, TypeStep, <3>2 DEF Next
        <5> QED BY <5>1 DEF TypeOK
      <4>3. Survives(wal', page', hdr') BY <3>2, <4>2 DEF PowerLoss, Survives
      <4> QED BY <1>0, <4>1, <4>3, PowerDisk
    <3> QED BY <1>6, <3>1, <3>2
  <2>3. Disk(wal, page, hdr)' BY <2>1, <2>2, DiskNext
  <2> QED BY <2>1, <2>3 DEF DiskInv
<1>7. ASSUME NEW w \in env.writers, BeginWriteTxn(w) PROVE DiskInv'
  <2>1. ~recoveryRequired BY <1>0, <1>7, BeginsHealthy
  <2> QED BY <1>7, <2>1, <1>q DEF BeginWriteTxn
<1>8. CASE \/ \E p \in Page : WritePage(p)
           \/ \E r \in Page \cup {0} : SetRoot(r)
           \/ AbortWriteTxn
           \/ CommitWriteTxn
  <2>1. /\ phase = "txn" /\ phase' \in {"ready", "txn", "append"}
        /\ recoveryRequired' = recoveryRequired
    BY <1>8 DEF WritePage, SetRoot, AbortWriteTxn, CommitWriteTxn
  <2>2. ~recoveryRequired BY <2>1, <1>0 DEF GateInv
  <2> QED BY <2>1, <2>2, <1>q DEF CommitPhases
<1> QED BY <1>1, <1>2, <1>3, <1>4, <1>5, <1>6, <1>7, <1>8 DEF Next

(* Both parts of AtomicInv. *)
LEMMA AtomicStep ==
  ASSUME IInv, [Next]_vars
  PROVE  AtomicInv'
<1>1. ProcessInv /\ DurableInv /\ AtomicInv /\ ProcessInv' BY ProcessStep DEF IInv
<1>2. Atomic' = Atomic
  BY EnvFixed DEF Atomic, Authenticated, Uninterrupted, Powered, Careful
<1>3. ASSUME Atomic PROVE PinInv' /\ DiskInv'
  <2>1. Careful /\ PinInv /\ DiskInv
    BY <1>1, <1>3 DEF AtomicInv, Atomic, Careful, Uninterrupted, Powered
  <2> QED BY <1>1, <1>3, <2>1, PinStep, DiskStep
<1> QED BY <1>2, <1>3 DEF AtomicInv

-----------------------------------------------------------------------------
(* The syncs, step by step. *)

(* Open syncs pages and header before it empties the log. *)
LEMMA DurableRecovers ==
  ASSUME IInv, Uninterrupted, Recovery
  PROVE  DurableInv'
<1>0. /\ TypeOK /\ OpenInv /\ DurableInv /\ env' = env
      /\ Authenticated => DiskInv
  BY EnvFixed DEF IInv, ProcessInv, Careful, Uninterrupted, AtomicInv, Atomic, Next
<1> USE DEF Authenticated
<1>1. CASE OpenDatabase
  <2>1. /\ phase = "down" /\ UNCHANGED fileVars /\ step' = 1
        /\ phase' \in {"refused", "replay", "openTruncate"}
        /\ phase' = "openTruncate" => \A s \in Slot : ~Fresh(s) /\ wal[s] # Torn
    BY <1>1 DEF OpenDatabase
  <2>2. pageDur = page /\ hdrDur = hdr /\ walDur = wal BY <2>1, <1>0 DEF DurableInv
  <2>3. phase' = "openTruncate" => NothingNew(wal, hdr)'
    <3>1. \A s \in Slot : wal[s].seq \in Int /\ hdr.last \in Int
      BY <1>0, RecordFields, Fields
    <3> QED BY <2>1, <3>1 DEF NothingNew, Old, Fresh, fileVars
  <2>4. \A s \in Slot : ~(s < step') BY <2>1
  <2> QED BY <2>1, <2>2, <2>3, <2>4 DEF DurableInv, fileVars
<1>2. CASE \E s \in Slot : ReplayPage(s)
  <2>1. PICK s \in Slot : ReplayPage(s) BY <1>2
  <2>2. /\ phase = "replay" /\ phase' = "replay" /\ step' = s + 1 /\ s >= step
        /\ UNCHANGED <<wal, walDur, hdr, pageDur, hdrDur>> /\ Fresh(s)
        /\ \A t \in Slot : t >= step /\ t < s => wal[t] # Torn
    BY <2>1 DEF ReplayPage, ReplaySlots
  <2>3. hdrDur = hdr /\ walDur = wal /\ \A t \in Slot : t < step => wal[t] # Torn
    BY <2>2, <1>0 DEF DurableInv
  <2>4. wal[s] # Torn BY <2>2, <1>0, Fields DEF Fresh, Torn
  <2>5. \A t \in Slot : t < s + 1 => wal[t] # Torn
    <3>1. step \in Nat /\ s \in Nat /\ WalSlots \in Nat BY <1>0, Fields DEF TypeOK
    <3>2. \A t \in Slot : t < s + 1 => t < step \/ (t >= step /\ t < s) \/ t = s BY <3>1
    <3> QED BY <2>2, <2>3, <2>4, <3>2
  <2> QED BY <2>2, <2>3, <2>5 DEF DurableInv
<1>3. CASE ReplayCorrupt
  <2>1. /\ phase = "replay" /\ phase' = "refused" /\ UNCHANGED fileVars /\ Damaged
    BY <1>3 DEF ReplayCorrupt, Damaged
  <2>2. hdrDur = hdr /\ walDur = wal BY <2>1, <1>0 DEF DurableInv
  <2>3. ~Authenticated
    <3> SUFFICES ASSUME Authenticated PROVE FALSE OBVIOUS
    <3>1. hdr = committed.hdr /\ Repairable(wal, page) BY <2>1, <1>0 DEF DiskInv
    <3>2. PICK m \in Slot : WholeTo(wal, m) BY <3>1 DEF Repairable
    <3> QED BY <2>1, <3>1, <3>2, <1>0, WholeReplay
  <2> QED BY <2>1, <2>2, <2>3, <1>0 DEF DurableInv, fileVars
<1>4. CASE ReplayPagesDone
  <2>1. /\ phase = "replay" /\ phase' = "replayHeader" /\ UNCHANGED <<wal, walDur, page, hdr>>
        /\ Authenticated => pageDur' = page /\ hdrDur' = hdr
        /\ ~Authenticated => hdrDur' = hdrDur
        /\ \A t \in Slot : t >= step => wal[t] # Torn
    BY <1>4 DEF ReplayPagesDone, ReplayDone, PrimarySynced
  <2>2. hdrDur = hdr /\ walDur = wal /\ \A t \in Slot : t < step => wal[t] # Torn
    BY <2>1, <1>0 DEF DurableInv
  <2>3. ~Damaged'
    <3>1. \A t \in Slot : t < step \/ t >= step BY <1>0 DEF TypeOK
    <3> QED BY <2>1, <2>2, <3>1 DEF Damaged
  <2> QED BY <2>1, <2>2, <2>3, <1>0 DEF DurableInv
<1>5. CASE ReplayWriteHeader
  <2>1. /\ phase = "replayHeader" /\ phase' = "replayHeaderSync"
        /\ UNCHANGED <<wal, walDur, page, pageDur, hdrDur>>
    BY <1>5 DEF ReplayWriteHeader
  <2>2. walDur = wal /\ ~Damaged /\ (Authenticated => pageDur = page)
    BY <2>1, <1>0 DEF DurableInv
  <2>3. NothingNew(wal, hdr')
    <3>0. wal \in [Slot -> Record] BY <1>0 DEF TypeOK
    <3>1. PICK s \in Slot : /\ Newest(s) /\ (Authenticated => LastMarker(s))
                            /\ hdr' = ReplayedHeader(s)
      BY <1>5 DEF ReplayWriteHeader
    <3>2. CASE Authenticated
      <4>1. hdr = committed.hdr /\ Repairable(wal, page) BY <2>1, <3>2, <1>0 DEF DiskInv
      <4>2. PICK m \in Slot : WholeTo(wal, m) BY <4>1 DEF Repairable
      <4>3. s = m BY <3>1, <3>2, <4>1, <4>2, <1>0, WholeReplay
      <4>4. hdr' = candidate.hdr
        <5>1. WholeRecords(wal, m) BY <3>0, <4>2, <1>0, WholeFields
        <5>2. hdr' = wal[m].hdr BY <3>1, <3>2, <4>3 DEF ReplayedHeader
        <5> QED BY <5>1, <5>2 DEF WholeRecords
      <4> QED BY <3>0, <4>2, <4>4, <1>0, WholeBound
    <3>3. CASE ~Authenticated
      <4>1. hdr \in Header /\ hdr' = [hdr EXCEPT !.last = wal[s].seq]
        BY <3>1, <3>3, <1>0 DEF ReplayedHeader, TypeOK
      <4>2. hdr'.last = wal[s].seq BY <4>1 DEF Header
      <4> QED BY <2>2, <3>1, <4>2 DEF NothingNew, Old, Newest, Damaged
    <3> QED BY <3>2, <3>3
  <2>4. NothingNew(wal, hdr)' BY <2>1, <2>3 DEF NothingNew, Old
  <2> QED BY <2>1, <2>2, <2>4, <1>0 DEF DurableInv
<1>6. CASE ReplaySyncHeader
  <2>1. /\ phase = "replayHeaderSync" /\ phase' = "openTruncate"
        /\ UNCHANGED <<wal, walDur, page, hdr>> /\ pageDur' = page /\ hdrDur' = hdr
    BY <1>6 DEF ReplaySyncHeader, PrimarySynced
  <2>2. walDur = wal /\ NothingNew(wal, hdr) BY <2>1, <1>0 DEF DurableInv
  <2>3. NothingNew(wal, hdr)' BY <2>1, <2>2 DEF NothingNew, Old
  <2> QED BY <2>1, <2>2, <2>3 DEF DurableInv
<1>7. CASE OpenTruncateWAL
  <2>1. /\ phase = "openTruncate" /\ phase' = "openSync"
        /\ UNCHANGED <<walDur, page, hdr, pageDur, hdrDur>>
    BY <1>7 DEF OpenTruncateWAL
  <2>2. walDur = wal /\ NothingNew(wal, hdr) /\ pageDur = page /\ hdrDur = hdr
    BY <2>1, <1>0 DEF DurableInv
  <2>3. NothingNew(walDur, hdr)' BY <2>1, <2>2 DEF NothingNew, Old
  <2> QED BY <2>1, <2>2, <2>3 DEF DurableInv
<1>8. CASE OpenSyncWAL
  <2>1. /\ phase = "openSync" /\ phase' = "openTree" /\ walDur' = wal
        /\ UNCHANGED <<wal, page, hdr, pageDur, hdrDur>>
    BY <1>8 DEF OpenSyncWAL, WALSynced
  <2>2. pageDur = page /\ hdrDur = hdr /\ wal = [s \in Slot |-> Empty]
    BY <2>1, <1>0 DEF DurableInv, OpenInv
  <2>3. NothingNew(walDur, hdr)'
    BY <2>1, <2>2, <1>0, EmptyOld, Fields DEF NothingNew, Old
  <2> QED BY <2>1, <2>2, <2>3 DEF DurableInv
<1>9. CASE OpenReadTree
  <2>1. /\ phase = "openTree" /\ phase' \in {"ready", "refused"} /\ UNCHANGED fileVars
    BY <1>9 DEF OpenReadTree
  <2>2. pageDur = page /\ hdrDur = hdr /\ walDur = wal /\ NothingNew(walDur, hdr)
    BY <2>1, <1>0 DEF DurableInv
  <2>3. NothingNew(walDur, hdr)' BY <2>1, <2>2 DEF NothingNew, Old, fileVars
  <2> QED BY <2>1, <2>2, <2>3 DEF DurableInv, fileVars
<1> QED BY <1>1, <1>2, <1>3, <1>4, <1>5, <1>6, <1>7, <1>8, <1>9 DEF Recovery

(* The pipeline syncs the log before pages, pages before the header and    *)
(* the header before it truncates.                                         *)
LEMMA DurablePipeline ==
  ASSUME IInv, ProcessInv', Uninterrupted, Pipeline
  PROVE  DurableInv'
<1>0. /\ TypeOK /\ RedoInv /\ CommitInv /\ DurableInv
  BY DEF IInv, ProcessInv, Careful, Uninterrupted
<1>1. CASE WriteWALRecord
  <2>1. /\ phase = "append" /\ phase' \in {"append", "walSync"}
        /\ UNCHANGED <<walDur, page, hdr, pageDur, hdrDur>>
    BY <1>1 DEF WriteWALRecord
  <2>2. pageDur = page /\ hdrDur = hdr /\ NothingNew(walDur, hdr)
    BY <2>1, <1>0 DEF DurableInv
  <2>3. NothingNew(walDur, hdr)' BY <2>1, <2>2 DEF NothingNew, Old
  <2> QED BY <2>1, <2>2, <2>3 DEF DurableInv
<1>2. CASE SyncWAL
  <2>1. /\ phase = "walSync" /\ phase' \in {"header", "primary"} /\ walDur' = wal
        /\ UNCHANGED <<wal, page, hdr, pageDur, hdrDur, committed>>
    BY <1>2 DEF SyncWAL, WALSynced, histVars
  <2>2. pageDur = page /\ hdrDur = hdr BY <2>1, <1>0 DEF DurableInv
  <2>3. page = committed.page
    BY <2>1, <1>0 DEF CommitInv, InCommit, CommitPhases, Contents
  <2> QED BY <2>1, <2>2, <2>3 DEF DurableInv
<1>3. CASE WritePrimaryPage
  <2>1. /\ phase = "primary" /\ phase' = "primary"
        /\ UNCHANGED <<wal, walDur, hdr, pageDur, hdrDur, committed>>
    BY <1>3 DEF WritePrimaryPage, histVars
  <2>2. walDur = wal /\ hdrDur = hdr /\ pageDur = committed.page
    BY <2>1, <1>0 DEF DurableInv
  <2> QED BY <2>1, <2>2 DEF DurableInv
<1>4. CASE SyncPrimaryPages \/ SyncHeader
  <2>1. /\ phase \in {"primary", "headerSync"} /\ phase' \in {"header", "truncate"}
        /\ UNCHANGED <<wal, walDur, page, hdr>> /\ pageDur' = page /\ hdrDur' = hdr
    BY <1>4 DEF SyncPrimaryPages, SyncHeader, PrimarySynced
  <2>2. walDur = wal BY <2>1, <1>0 DEF DurableInv
  <2> QED BY <2>1, <2>2 DEF DurableInv
<1>5. CASE WriteHeader
  <2>1. /\ phase = "header" /\ phase' = "headerSync"
        /\ UNCHANGED <<wal, walDur, page, pageDur, hdrDur, committed>>
    BY <1>5 DEF WriteHeader, histVars
  <2>2. walDur = wal /\ hdrDur = hdr /\ pageDur = page BY <2>1, <1>0 DEF DurableInv
  <2>3. hdr = committed.hdr BY <2>1, <1>0 DEF CommitInv, InCommit, CommitPhases
  <2> QED BY <2>1, <2>2, <2>3 DEF DurableInv
<1>6. CASE TruncateWAL
  <2>1. /\ phase = "truncate" /\ phase' = "seek"
        /\ UNCHANGED <<walDur, page, hdr, pageDur, hdrDur>>
    BY <1>6 DEF TruncateWAL
  <2>2. walDur = wal /\ hdrDur = hdr /\ pageDur = page BY <2>1, <1>0 DEF DurableInv
  <2>3. /\ Contents = candidate /\ candidate.hdr = txn.hdr /\ Logged(wal, RecordCount)
        /\ txn.hdr.last > committed.hdr.last /\ InCommit
    BY <2>1, <1>0 DEF CommitInv, InCommit, CommitPhases
  <2>4. NothingNew(walDur, hdr) BY <2>2, <2>3, <1>0, LoggedBound DEF Contents
  <2>5. NothingNew(walDur, hdr)' BY <2>1, <2>4 DEF NothingNew, Old
  <2> QED BY <2>1, <2>2, <2>5 DEF DurableInv
<1>7. CASE Acknowledge
  <2>1. /\ phase = "seek" /\ phase' = "ready" /\ walDur' = wal
        /\ UNCHANGED <<wal, page, hdr, pageDur, hdrDur>>
    BY <1>7 DEF Acknowledge, WALSynced
  <2>2. hdrDur = hdr /\ pageDur = page BY <2>1, <1>0 DEF DurableInv
  <2>3. /\ Contents = candidate /\ candidate.hdr = txn.hdr /\ Logged(wal, RecordCount)
        /\ txn.hdr.last > committed.hdr.last /\ InCommit
    BY <2>1, <1>0 DEF CommitInv, InCommit, CommitPhases
  <2>4. NothingNew(wal, hdr) BY <2>3, <1>0, LoggedBound DEF Contents
  <2>5. NothingNew(walDur, hdr)' BY <2>1, <2>4 DEF NothingNew, Old
  <2> QED BY <2>1, <2>2, <2>5 DEF DurableInv
<1> QED BY <1>1, <1>2, <1>3, <1>4, <1>5, <1>6, <1>7 DEF Pipeline

(* Every step makes the syncs that its phase relies on. *)
LEMMA DurableStep ==
  ASSUME IInv, [Next]_vars
  PROVE  DurableInv'
<1>0. TypeOK /\ DurableInv /\ ProcessInv' BY ProcessStep DEF IInv, ProcessInv
<1>1. Uninterrupted' = Uninterrupted BY EnvFixed DEF Uninterrupted
<1> SUFFICES ASSUME Uninterrupted PROVE DurableInv' BY <1>1 DEF DurableInv
<1>2. CASE \/ UNCHANGED vars
           \/ \E w \in env.writers : BeginWriteTxn(w)
           \/ \E p \in Page : WritePage(p)
           \/ \E r \in Page \cup {0} : SetRoot(r)
           \/ AbortWriteTxn
           \/ CommitWriteTxn
  <2>1. /\ UNCHANGED <<wal, page, hdr, walDur, pageDur, hdrDur>>
        /\ \/ UNCHANGED <<phase, step, env, committed>>
           \/ phase \in {"ready", "txn"} /\ phase' \in {"ready", "txn", "append"}
    BY <1>2 DEF BeginWriteTxn, WritePage, SetRoot, AbortWriteTxn, CommitWriteTxn, vars,
                fileVars, procVars, boundVars, histVars
  <2>2. NothingNew(walDur, hdr)' = NothingNew(walDur, hdr)
        /\ NothingNew(wal, hdr)' = NothingNew(wal, hdr) /\ Damaged' = Damaged
    BY <2>1 DEF NothingNew, Old, Damaged
  <2>3. CASE UNCHANGED <<phase, step, env, committed>>
    BY <2>1, <2>2, <2>3, <1>0 DEF DurableInv, Authenticated
  <2>4. CASE phase \in {"ready", "txn"} /\ phase' \in {"ready", "txn", "append"}
    <3>1. pageDur = page /\ hdrDur = hdr /\ walDur = wal /\ NothingNew(walDur, hdr)
      BY <2>4, <1>0 DEF DurableInv
    <3> QED BY <2>1, <2>2, <2>4, <3>1 DEF DurableInv
  <2> QED BY <2>1, <2>3, <2>4
<1>3. CASE Pipeline BY <1>0, <1>3, DurablePipeline
<1>4. CASE Recovery BY <1>4, DurableRecovers
<1>5. CASE CommitError
  <2>1. env.maxFailures > 0 /\ env.maxFailures \in Nat
    BY <1>0, <1>5, ScenarioFields DEF CommitError, TypeOK
  <2> QED BY <2>1 DEF Uninterrupted
<1>6. CASE Close
  <2>1. phase = "ready" /\ phase' = "down" /\ UNCHANGED fileVars
    BY <1>6 DEF Close, ProcessGone
  <2>2. pageDur = page /\ hdrDur = hdr /\ walDur = wal BY <2>1, <1>0 DEF DurableInv
  <2> QED BY <2>1, <2>2 DEF DurableInv, fileVars
<1>7. CASE Kill BY <1>7 DEF Kill, Uninterrupted
<1>8. CASE PowerLoss BY <1>8 DEF PowerLoss, ProcessGone, DurableInv
<1> QED BY <1>2, <1>3, <1>4, <1>5, <1>6, <1>7, <1>8 DEF Next

-----------------------------------------------------------------------------
(* The theorems. *)

(* A new database satisfies the invariant. *)
LEMMA InitInv == Init => IInv
<1> SUFFICES ASSUME Init PROVE IInv OBVIOUS
<1>1. TypeOK BY InitType
<1>2. /\ wal = [s \in Slot |-> Empty] /\ walDur = wal /\ page = [p \in Page |-> 0]
      /\ pageDur = page /\ hdr = NewHeader /\ hdrDur = hdr /\ phase = "ready"
      /\ walOff = 1 /\ walSize = 0 /\ nextWALSeq = 0 /\ recoveryRequired = FALSE
      /\ committed = Contents /\ candidate = Contents
  BY DEF Init
<1>3. hdr.last = 0 /\ hdr.root = 0 BY <1>2 DEF NewHeader
<1>4. NothingNew(wal, hdr) BY <1>2, <1>3, EmptyOld DEF NothingNew
<1>5. NothingNew(walDur, hdr) BY <1>2, <1>4
<1>6. ProcessInv
  BY <1>1, <1>2, <1>3, <1>4
  DEF ProcessInv, GateInv, RedoInv, ReadyInv, CommitInv, OpenInv, InTxn, InCommit, CommitPhases,
      OpenPhases, Healthy
<1>7. DurableInv BY <1>2, <1>5 DEF DurableInv
<1>8. PinInv
  BY <1>2, <1>3 DEF PinInv, Covered, Pinned, InTxn, InCommit, CommitPhases, Contents
<1>9. DiskInv BY <1>2 DEF DiskInv
<1> QED BY <1>6, <1>7, <1>8, <1>9 DEF IInv, AtomicInv

(* The inductive invariant. *)
LEMMA Invariance == Spec => []IInv
<1>1. Init => IInv BY InitInv
<1>2. IInv /\ [Next]_vars => IInv'
  <2> SUFFICES ASSUME IInv, [Next]_vars PROVE IInv' OBVIOUS
  <2> QED BY ProcessStep, DurableStep, AtomicStep DEF IInv
<1> QED BY <1>1, <1>2, PTL DEF Spec

(* Readers of a handle that is not frozen find what the last successful    *)
(* commit asked for: the images of its redo list, written page by page by  *)
(* the pipeline or by the redo of Open, on top of the commit before it,    *)
(* whatever has crashed before, as long as every writer is one that an     *)
(* error blocks (readPagePooled, groupWritePrimary, publish).             *)
THEOREM CommittedVisible == Spec => [](Careful => ReadersSeeCommitted)
<1>1. IInv => (Careful => ReadersSeeCommitted)
  BY DEF IInv, ProcessInv, ReadyInv, ReadersSeeCommitted
<1> QED BY <1>1, Invariance, PTL

(* An answered commit survives a power loss, in every format, when no      *)
(* write or sync has failed (groupWriteWAL to groupTruncateWAL and their   *)
(* syncs, and Open's).                                                     *)
THEOREM SuccessIsDurable == Spec => [](env.maxFailures = 0 => AckedIsDurable)
<1>1. IInv => (env.maxFailures = 0 => AckedIsDurable)
  <2> SUFFICES ASSUME IInv, env.maxFailures = 0, Healthy, "kill" \notin env.crashKinds
               PROVE  /\ pageDur = committed.page /\ hdrDur = committed.hdr
                      /\ \A s \in Slot : walDur[s].seq <= hdrDur.last
    BY DEF AckedIsDurable
  <2>1. ReadyInv /\ DurableInv /\ Uninterrupted
    BY DEF IInv, ProcessInv, Careful, Uninterrupted
  <2>2. Contents = committed BY <2>1 DEF ReadyInv
  <2>3. pageDur = page /\ hdrDur = hdr /\ NothingNew(walDur, hdr)
    BY <2>1 DEF DurableInv, Healthy
  <2> QED BY <2>2, <2>3 DEF Contents, NothingNew, Old
<1> QED BY <1>1, Invariance, PTL

(* The medium is at every moment one that Open settles. *)
LEMMA MediumDisk ==
  ASSUME IInv, Uninterrupted, Authenticated PROVE Disk(walDur, pageDur, hdrDur)
<1>0. /\ TypeOK /\ ProcessInv /\ DurableInv /\ AtomicInv /\ DiskInv
  BY DEF IInv, ProcessInv, AtomicInv, Atomic
<1>1. CASE Running
  <2>1. walDur = SurvivingWAL(0, FALSE)
    <3>1. walDur = [s \in Slot |-> walDur[s]] BY <1>0 DEF TypeOK
    <3>2. \A s \in Slot : ~(s <= 0) BY <1>0, Fields
    <3> QED BY <3>1, <3>2 DEF SurvivingWAL
  <2>2. 0 \in 0..WalSlots BY <1>0, Fields
  <2>3. Survives(walDur, pageDur, hdrDur) BY <1>0, <2>1, <2>2 DEF Survives, TypeOK
  <2> QED BY <1>0, <1>1, <2>3, PowerDisk
<1>2. CASE ~Running
  <2>1. phase \in {"down", "refused"} BY <1>2 DEF Running
  <2>2. walDur = wal /\ pageDur = page /\ hdrDur = hdr BY <2>1, <1>0 DEF DurableInv
  <2>3. Disk(wal, page, hdr) BY <2>1, <1>0 DEF DiskInv
  <2> QED BY <2>2, <2>3
<1> QED BY <1>1, <1>2

(* Write-ahead and header last, on the medium: a page image that the       *)
(* header does not cover has its redo record there too, and a published    *)
(* header has all its pages, when no write or sync has failed              *)
(* (groupWriteWAL, groupWritePrimary, groupFinalizeHeader).                *)
THEOREM WriteAhead == Spec => [](env.maxFailures = 0 => WriteOrder)
<1>1. IInv => (env.maxFailures = 0 => WriteOrder)
  <2> SUFFICES ASSUME IInv, env.maxFailures = 0, Authenticated, "kill" \notin env.crashKinds
               PROVE  /\ \A p \in Page : pageDur[p] > hdrDur.last =>
                           \E s \in Slot : walDur[s].page = p /\ walDur[s].seq = pageDur[p]
                      /\ hdrDur = candidate.hdr => pageDur = candidate.page
    BY DEF WriteOrder
  <2>1. Uninterrupted /\ TypeOK /\ PinInv
    BY DEF IInv, ProcessInv, AtomicInv, Atomic, Uninterrupted
  <2>2. Disk(walDur, pageDur, hdrDur) BY <2>1, MediumDisk
  <2>3. /\ \A p \in Page : pageDur[p] \in Int /\ committed.page[p] \in Int
                           /\ candidate.page[p] \in Int
        /\ hdrDur.last \in Nat /\ committed.hdr.last \in Nat /\ candidate.hdr.last \in Nat
    BY <2>1, Fields DEF TypeOK
  <2>4. CASE [page |-> pageDur, hdr |-> hdrDur] \in {committed, candidate}
    <3>1. \/ pageDur = committed.page /\ hdrDur = committed.hdr
          \/ pageDur = candidate.page /\ hdrDur = candidate.hdr
      BY <2>4
    <3>a. /\ \A p \in Page : committed.page[p] <= committed.hdr.last
          /\ \A p \in Page : candidate.page[p] <= candidate.hdr.last
      BY <2>1 DEF PinInv, Covered
    <3>2. ASSUME NEW p \in Page PROVE ~(pageDur[p] > hdrDur.last)
      <4>1. pageDur[p] <= hdrDur.last BY <3>1, <3>a
      <4>2. pageDur[p] \in Int /\ hdrDur.last \in Nat BY <2>3
      <4> QED BY <4>1, <4>2
    <3>3. hdrDur = candidate.hdr => pageDur = candidate.page
      <4>1. CASE [page |-> pageDur, hdr |-> hdrDur] = candidate BY <4>1
      <4>2. CASE [page |-> pageDur, hdr |-> hdrDur] = committed
        <5>1. candidate = committed \/ candidate.hdr.last > committed.hdr.last
          BY <2>1 DEF PinInv
        <5> QED BY <4>2, <5>1, <2>3
      <4> QED BY <2>4, <4>1, <4>2
    <3> QED BY <3>2, <3>3
  <2>5. CASE hdrDur = committed.hdr /\ Repairable(walDur, pageDur)
    <3>1. PICK m \in Slot : WholeTo(walDur, m) /\ Known(walDur, m, pageDur)
      BY <2>5 DEF Repairable
    <3>2. ASSUME NEW p \in Page, pageDur[p] > hdrDur.last
          PROVE  \E s \in Slot : walDur[s].page = p /\ walDur[s].seq = pageDur[p]
      <4>1. committed.page[p] <= committed.hdr.last BY <2>1 DEF PinInv, Covered
      <4>2. pageDur[p] # committed.page[p] BY <2>3, <2>5, <3>2, <4>1
      <4>3. pageDur[p] # TornPage BY <2>3, <3>2 DEF TornPage
      <4> QED BY <3>1, <4>2, <4>3 DEF Known
    <3>3. hdrDur # candidate.hdr BY <2>3, <2>5, <3>1 DEF WholeTo
    <3> QED BY <3>2, <3>3
  <2> QED BY <2>2, <2>4, <2>5 DEF Disk
<1> QED BY <1>1, Invariance, PTL

(* The root page carries the generation that the header pins: a database   *)
(* is not refused as stale after a crash (validateRootPageGeneration).     *)
THEOREM RootIsPinned == Spec => [](Uninterrupted \/ Powered => RootPinned)
<1>1. IInv => (Uninterrupted \/ Powered => RootPinned)
  <2> SUFFICES ASSUME IInv, Uninterrupted \/ Powered, Authenticated,
                      Healthy \/ phase = "openTree", hdr.root # 0
               PROVE  page[hdr.root] = hdr.gen
    BY DEF RootPinned
  <2>1. /\ ReadyInv /\ PinInv /\ DiskInv
    BY DEF IInv, ProcessInv, AtomicInv, Atomic, Careful, Uninterrupted, Powered
  <2>2. Contents \in {committed, candidate} BY <2>1 DEF ReadyInv, DiskInv
  <2> QED BY <2>1, <2>2 DEF Contents, PinInv, Pinned
<1> QED BY <1>1, Invariance, PTL

-----------------------------------------------------------------------------
(* The engine implements AtomicStore. *)

(* What the client of a handle sees in each phase. *)
StatusTable ==
  /\ phase \in {"ready", "txn"} /\ ~recoveryRequired => Status = "idle"
  /\ phase \in {"ready", "txn"} /\ recoveryRequired => Status = "unknown"
  /\ phase \in CommitPhases => Status = "busy"
  /\ phase = "refused" => Status = "refused"
  /\ phase \in OpenPhases \cup {"down"} => Status = "down"

LEMMA StatusValues == StatusTable
<1>1. phase \in {"ready", "txn"} /\ ~recoveryRequired => Status = "idle"
  BY DEF Status, CommitPhases
<1>2. phase \in {"ready", "txn"} /\ recoveryRequired => Status = "unknown"
  BY DEF Status, CommitPhases
<1>3. phase \in CommitPhases => Status = "busy" BY DEF Status, CommitPhases
<1>4. phase = "refused" => Status = "refused" BY DEF Status, CommitPhases
<1>5. phase \in OpenPhases \cup {"down"} => Status = "down"
  BY DEF Status, CommitPhases, OpenPhases
<1> QED BY <1>1, <1>2, <1>3, <1>4, <1>5 DEF StatusTable

(* How the abstract variables move.                                        *)
Stutters == UNCHANGED <<committed, candidate, Status>>
Stages == Status = "idle" /\ Status' = "busy" /\ candidate' \in Image /\ committed' = committed
Acknowledges ==
  Status = "busy" /\ Status' = "idle" /\ committed' = candidate /\ candidate' = candidate
ReportsError ==
  Status = "busy" /\ Status' = "unknown" /\ UNCHANGED <<committed, candidate>>
Stops ==
  /\ Status \in {"idle", "busy", "unknown"} /\ Status' = "down"
  /\ UNCHANGED <<committed, candidate>>
Reopens ==
  /\ Status = "down" /\ Status' = "idle" /\ committed' \in {committed, candidate}
  /\ candidate' = committed'
Refuses == Status = "down" /\ Status' = "refused" /\ UNCHANGED <<committed, candidate>>

AbstractStep ==
  \/ Stutters \/ Stages \/ Acknowledges \/ ReportsError \/ Stops \/ Reopens \/ Refuses

(* Every step of the engine is one of these. *)
LEMMA StepsAbstract ==
  ASSUME IInv, TypeOK', Atomic, [Next]_vars
  PROVE  AbstractStep
<1>0. /\ TypeOK /\ GateInv /\ ReadyInv /\ CommitInv /\ DiskInv /\ Careful
  BY DEF IInv, ProcessInv, AtomicInv, Atomic, Careful, Uninterrupted, Powered
<1>s. /\ phase \in {"ready", "txn"} /\ ~recoveryRequired => Status = "idle"
      /\ phase \in {"ready", "txn"} /\ recoveryRequired => Status = "unknown"
      /\ phase \in CommitPhases => Status = "busy"
      /\ phase = "refused" => Status = "refused"
      /\ phase \in OpenPhases \cup {"down"} => Status = "down"
  BY StatusValues DEF StatusTable
<1>t. /\ phase' \in {"ready", "txn"} /\ ~recoveryRequired' => Status' = "idle"
      /\ phase' \in {"ready", "txn"} /\ recoveryRequired' => Status' = "unknown"
      /\ phase' \in CommitPhases => Status' = "busy"
      /\ phase' = "refused" => Status' = "refused"
      /\ phase' \in OpenPhases \cup {"down"} => Status' = "down"
  <2>1. StatusTable' BY StatusValues, PTL
  <2> QED BY <2>1 DEF StatusTable
<1>1. CASE UNCHANGED vars
  <2>1. UNCHANGED <<phase, recoveryRequired, committed, candidate>>
    BY <1>1 DEF vars, procVars, histVars
  <2>2. Status' = Status BY <2>1 DEF Status
  <2> QED BY <2>1, <2>2 DEF AbstractStep, Stutters
<1>2. ASSUME NEW w \in env.writers, BeginWriteTxn(w) PROVE AbstractStep
  <2>1. /\ phase = "ready" /\ phase' = "txn" /\ recoveryRequired' = recoveryRequired
        /\ UNCHANGED <<committed, candidate>>
    BY <1>2 DEF BeginWriteTxn, histVars
  <2>2. Status' = Status BY <2>1, <1>s, <1>t, <1>0 DEF TypeOK
  <2> QED BY <2>1, <2>2 DEF AbstractStep, Stutters
<1>3. CASE \/ \E p \in Page : WritePage(p)
           \/ \E r \in Page \cup {0} : SetRoot(r)
           \/ AbortWriteTxn
  <2>1. /\ phase = "txn" /\ phase' \in {"txn", "ready"} /\ recoveryRequired' = recoveryRequired
        /\ UNCHANGED <<committed, candidate>>
    BY <1>3 DEF WritePage, SetRoot, AbortWriteTxn, histVars
  <2>2. ~recoveryRequired BY <2>1, <1>0 DEF GateInv
  <2>3. Status = "idle" /\ Status' = "idle" BY <2>1, <2>2, <1>s, <1>t
  <2> QED BY <2>1, <2>3 DEF AbstractStep, Stutters
<1>4. CASE CommitWriteTxn
  <2>1. /\ phase = "txn" /\ phase' = "append" /\ committed' = committed /\ candidate' \in Image
    BY <1>4 DEF CommitWriteTxn, TypeOK
  <2>2. ~recoveryRequired BY <2>1, <1>0 DEF GateInv
  <2>3. Status = "idle" /\ Status' = "busy" BY <2>1, <2>2, <1>s, <1>t DEF CommitPhases
  <2> QED BY <2>1, <2>3 DEF AbstractStep, Stages
<1>5. CASE Pipeline
  <2>1. CASE Acknowledge
    <3>1. /\ phase = "seek" /\ phase' = "ready" /\ recoveryRequired' = recoveryRequired
          /\ committed' = candidate /\ candidate' = candidate
      BY <2>1 DEF Acknowledge
    <3>3. ~recoveryRequired BY <3>1, <1>0 DEF GateInv
    <3>4. Status = "busy" /\ Status' = "idle" BY <3>1, <3>3, <1>s, <1>t DEF CommitPhases
    <3> QED BY <3>1, <3>4 DEF AbstractStep, Acknowledges
  <2>2. CASE ~Acknowledge
    <3>1. /\ phase \in CommitPhases /\ phase' \in CommitPhases
          /\ UNCHANGED <<committed, candidate>>
      BY <1>5, <2>2 DEF Pipeline, WriteWALRecord, SyncWAL, WritePrimaryPage, SyncPrimaryPages,
                        WriteHeader, SyncHeader, TruncateWAL, CommitPhases, histVars
    <3>2. Status' = Status BY <3>1, <1>s, <1>t
    <3> QED BY <3>1, <3>2 DEF AbstractStep, Stutters
  <2> QED BY <2>1, <2>2
<1>6. CASE CommitError
  <2>1. /\ phase \in CommitPhases /\ phase' = "ready" /\ UNCHANGED <<committed, candidate>>
    BY <1>6 DEF CommitError, histVars
  <2>2. recoveryRequired' BY <1>6, <1>0, ErrorBlocks
  <2>3. Status = "busy" /\ Status' = "unknown" BY <2>1, <2>2, <1>s, <1>t
  <2> QED BY <2>1, <2>3 DEF AbstractStep, ReportsError
<1>7. CASE Close \/ Kill \/ PowerLoss
  <2>1. /\ phase \in Phases \ {"down", "refused"} /\ phase' = "down"
        /\ UNCHANGED <<committed, candidate>>
    BY <1>7, <1>0 DEF Close, Kill, PowerLoss, ProcessGone, Running, histVars, TypeOK
  <2>2. Status' = "down" BY <2>1, <1>t
  <2>3. Status \in {"idle", "busy", "unknown", "down"}
    BY <2>1, <1>s, <1>0 DEF Phases, TypeOK
  <2>4. CASE Status = "down" BY <2>1, <2>2, <2>4 DEF AbstractStep, Stutters
  <2>5. CASE Status # "down" BY <2>1, <2>2, <2>3, <2>5 DEF AbstractStep, Stops
  <2> QED BY <2>4, <2>5
<1>8. CASE Recovery
  <2>1. phase \in OpenPhases \cup {"down"} /\ recoveryRequired' = recoveryRequired
    BY <1>8 DEF Recovery, OpenDatabase, ReplayPage, ReplayCorrupt, ReplayPagesDone, OpenPhases,
                ReplayWriteHeader, ReplaySyncHeader, OpenTruncateWAL, OpenSyncWAL, OpenReadTree
  <2>2. ~recoveryRequired BY <2>1, <1>0 DEF GateInv, OpenPhases
  <2>3. Status = "down" BY <2>1, <1>s
  <2>4. CASE OpenReadTree /\ ~StaleRoot
    <3>1. /\ phase = "openTree" /\ phase' = "ready"
          /\ committed' = Settled /\ candidate' = Settled
      BY <2>4 DEF OpenReadTree
    <3>2. Settled \in {committed, candidate} BY DEF Settled
    <3>3. Status' = "idle" BY <3>1, <2>1, <2>2, <1>t
    <3> QED BY <2>3, <3>1, <3>2, <3>3 DEF AbstractStep, Reopens
  <2>5. CASE ~(OpenReadTree /\ ~StaleRoot)
    <3>1. phase' \in OpenPhases \cup {"refused"} /\ UNCHANGED <<committed, candidate>>
      BY <1>8, <2>5 DEF Recovery, OpenDatabase, ReplayPage, ReplayCorrupt, ReplayPagesDone,
                OpenPhases, ReplayWriteHeader, ReplaySyncHeader, OpenTruncateWAL, OpenSyncWAL,
                OpenReadTree, histVars
    <3>2. CASE phase' = "refused" BY <2>3, <3>1, <3>2, <1>t DEF AbstractStep, Refuses
    <3>3. CASE phase' \in OpenPhases BY <2>3, <3>1, <3>3, <1>t DEF AbstractStep, Stutters
    <3> QED BY <3>1, <3>2, <3>3
  <2> QED BY <2>4, <2>5
<1> QED BY <1>1, <1>2, <1>3, <1>4, <1>5, <1>6, <1>7, <1>8 DEF Next

(* The files of a handle that takes writers hold the abstract store. *)
LEMMA StoreCommitted == ASSUME IInv, Careful PROVE Store = committed
  BY DEF IInv, ProcessInv, ReadyInv, Store

(* The same, as steps of the abstract specification. *)
LEMMA StepRefines ==
  ASSUME IInv, IInv', Authenticated => Atomic, [Next]_vars
  PROVE  [Abstract!ANext]_(Abstract!avars)
<1>0. Authenticated' = Authenticated BY EnvFixed DEF Authenticated
<1>1. CASE ~Authenticated BY <1>0, <1>1 DEF Abstract!avars
<1>2. CASE Authenticated
  <2>a. Careful BY <1>2 DEF Atomic, Uninterrupted, Powered, Careful
  <2>b. Store = committed BY <2>a, StoreCommitted
  <2>c. Store' = committed'
    <3>1. Careful' BY <2>a, EnvFixed DEF Careful
    <3>2. (IInv /\ Careful => Store = committed)' BY StoreCommitted, PTL
    <3> QED BY <3>1, <3>2
  <2>0. Store = committed /\ Store' = committed' BY <2>b, <2>c
  <2>t. TypeOK' BY DEF IInv, ProcessInv
  <2>1. AbstractStep BY <1>2, <2>t, StepsAbstract
  <2>2. CASE Stutters BY <1>0, <1>2, <2>0, <2>2 DEF Stutters, Abstract!avars
  <2>3. CASE Stages BY <1>0, <1>2, <2>0, <2>3 DEF Stages, Abstract!ANext, Abstract!Stage
  <2>4. CASE Acknowledges
    BY <1>0, <1>2, <2>0, <2>4 DEF Acknowledges, Abstract!ANext, Abstract!Acknowledge
  <2>5. CASE ReportsError
    BY <1>0, <1>2, <2>0, <2>5 DEF ReportsError, Abstract!ANext, Abstract!ReportError
  <2>6. CASE Stops BY <1>0, <1>2, <2>0, <2>6 DEF Stops, Abstract!ANext, Abstract!Stop
  <2>7. CASE Reopens BY <1>0, <1>2, <2>0, <2>7 DEF Reopens, Abstract!ANext, Abstract!Reopen
  <2>8. CASE Refuses BY <1>0, <1>2, <2>0, <2>8 DEF Refuses, Abstract!ANext, Abstract!Refuse
  <2> QED BY <2>1, <2>2, <2>3, <2>4, <2>5, <2>6, <2>7, <2>8 DEF AbstractStep
<1> QED BY <1>1, <1>2

(* A new database is a new store. *)
LEMMA InitRefines == Init => Abstract!AInit
<1> SUFFICES ASSUME Init PROVE Abstract!AInit OBVIOUS
<1>1. committed = NewImage /\ candidate = NewImage
  BY DEF Init, Contents, NewImage
<1>2. Store = NewImage
  BY DEF Init, Contents, NewImage, Store
<1>3. Status = "idle" BY StatusValues DEF StatusTable, Init
<1> QED BY <1>1, <1>2, <1>3 DEF Abstract!AInit

(* The engine implements the atomic store, for every scenario of format v3 *)
(* that is one of these two: processes that do not fail and are not killed *)
(* on a machine that may stop, or a machine that does not stop with        *)
(* processes that may, and whose failed writers block the next.            *)
THEOREM Implements == Spec /\ (Authenticated => Uninterrupted \/ Powered) => Refinement
<1>1. Init => Abstract!AInit BY InitRefines
<1>2. (Authenticated => Uninterrupted \/ Powered) /\ [Next]_vars
        => (Authenticated => Uninterrupted \/ Powered)'
  BY EnvFixed DEF Authenticated, Uninterrupted, Powered, Careful
<1>3. IInv /\ IInv' /\ (Authenticated => Uninterrupted \/ Powered) /\ [Next]_vars
        => [Abstract!ANext]_(Abstract!avars)
  <2> SUFFICES ASSUME IInv, IInv', Authenticated => Uninterrupted \/ Powered, [Next]_vars
               PROVE  [Abstract!ANext]_(Abstract!avars)
    OBVIOUS
  <2>1. Authenticated => Atomic BY DEF Atomic
  <2> QED BY <2>1, StepRefines
<1> QED BY <1>1, <1>2, <1>3, Invariance, PTL DEF Spec, Refinement, Abstract!ASpec
=============================================================================
