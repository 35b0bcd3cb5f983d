------------------------------ MODULE EngineWal ------------------------------
(***************************************************************************)
(* The redo-WAL commit pipeline and the recovery of internal/engine, over  *)
(* an explicit storage model: each file has the contents the running       *)
(* process reads (wal, page, hdr) and the contents that are on the medium  *)
(* (walDur, pageDur, hdrDur); only a sync makes the second equal the       *)
(* first.                                                                  *)
(*                                                                         *)
(* A page image is named by the redo sequence number that wrote it (in     *)
(* format v3 this number is in the page: its rewrite generation).  The     *)
(* header is the 512-byte prefix of page 0 and is written atomically.      *)
(* Format v3 (Authenticated) ends every transaction in the WAL with a      *)
(* header marker; formats v1 and v2 have no marker.                        *)
(***************************************************************************)
EXTENDS Integers, Sequences

CONSTANTS
  Page,           \* ids of data pages (page 0 is the header)
  WalSlots,       \* the WAL file holds at most this many records
  Scenarios,      \* the databases and environments considered, see below
  MaxPending      \* bound: redo records of one transaction

ASSUME PageAssumption == Page \subseteq Nat \ {0}
ASSUME WalSlotsAssumption == WalSlots \in Nat
ASSUME BoundsAssumption == MaxPending \in Nat

(* A scenario: the format, the kinds of writer that run (see              *)
(* BeginWriteTxn), the kinds of crash, and bounds on redo sequence         *)
(* numbers, errors and crashes.                                            *)
Scenario ==
  [v3 : BOOLEAN, writers : SUBSET {"update", "maintenance", "reclaim"},
   crashKinds : SUBSET {"kill", "power"},
   maxSeq : Nat, maxFailures : Nat, maxCrashes : Nat]

ASSUME ScenariosAssumption == Scenarios \subseteq Scenario

VARIABLES
  wal, page, hdr,             \* the files, as the process reads them
  walDur, pageDur, hdrDur,    \* the files, as the medium holds them
  phase,                      \* where the process is (see Phases)
  txn,                        \* the write transaction, or NoTxn
  step,                       \* next record, page or slot of a loop
  walOff,                     \* file offset of the WAL handle, in records
  walSize,                    \* e.walSize, in records
  nextWALSeq,                 \* e.nextWALSeq
  recoveryRequired,           \* db.recoveryRequired
  failures, crashes,          \* counters for the bounds
  env,                        \* the scenario, chosen once
  committed, candidate        \* history: what the last successful commit
                              \* asked for, and the one under way

fileVars == <<wal, page, hdr, walDur, pageDur, hdrDur>>
procVars == <<phase, txn, step, walOff, walSize, nextWALSeq, recoveryRequired>>
histVars == <<committed, candidate>>
boundVars == <<failures, crashes, env>>
vars == <<fileVars, procVars, boundVars, histVars>>

Authenticated == env.v3

(* Errors occur only where a failed writer blocks the next one.            *)
Careful == env.maxFailures = 0 \/ env.writers \subseteq {"update"}

(* Processes neither fail nor are killed: only the machine may stop.       *)
Uninterrupted == env.maxFailures = 0 /\ "kill" \notin env.crashKinds

(* Processes may fail or be killed, but the machine does not stop.         *)
Powered == Careful /\ "power" \notin env.crashKinds

(* Where format v3 promises that a commit happens as a whole or not at all.*)
Atomic == Authenticated /\ (Uninterrupted \/ Powered)

-----------------------------------------------------------------------------
(* Data. *)

Slot == 1..WalSlots

Header == [last : Nat, commit : Nat, root : Nat, gen : Nat]
Redo == [seq : Nat, page : Page]
Record == [seq : Int, page : Nat, hdr : Header]
Txn == [hdr : Header, pending : Seq(Redo), dirty : [Page -> Nat],
        writer : {"none", "update", "maintenance", "reclaim"}]
Image == [page : [Page -> Int], hdr : Header]

NewHeader == [last |-> 0, commit |-> 0, root |-> 0, gen |-> 0]

(* A slot beyond the end of the file, and one whose CRC or MAC fails. *)
Empty == [seq |-> 0, page |-> 0, hdr |-> NewHeader]
Torn == [seq |-> -1, page |-> 0, hdr |-> NewHeader]
TornPage == -1

PageRecord(r) == [seq |-> r.seq, page |-> r.page, hdr |-> NewHeader]
HeaderRecord(h) == [seq |-> h.last, page |-> 0, hdr |-> h]

NotDirty == [p \in Page |-> 0]
NoTxn == [hdr |-> NewHeader, pending |-> <<>>, dirty |-> NotDirty, writer |-> "none"]

(* What a reader finds in the primary file. *)
Contents == [page |-> page, hdr |-> hdr]

(* base overwritten by the dirty pages of a transaction. *)
Apply(base, dirty) == [p \in Page |-> IF dirty[p] = 0 THEN base[p] ELSE dirty[p]]

(* A sync of the WAL, and of the primary (pages and header are one file). *)
Bug_WALNotSynced == UNCHANGED walDur
Bug_OnlyPagesSynced == pageDur' = page /\ UNCHANGED hdrDur
WALSynced == walDur' = wal
PrimarySynced == pageDur' = page /\ hdrDur' = hdr

CommitPhases ==
  {"append", "walSync", "primary", "header", "headerSync", "truncate", "seek"}
OpenPhases ==
  {"replay", "replayHeader", "replayHeaderSync", "openTruncate", "openSync", "openTree"}
Phases ==
  CommitPhases \cup OpenPhases \cup {"ready", "txn", "down", "refused"}

-----------------------------------------------------------------------------
Init ==
  /\ wal = [s \in Slot |-> Empty] /\ walDur = wal
  /\ page = [p \in Page |-> 0] /\ pageDur = page
  /\ hdr = NewHeader /\ hdrDur = hdr
  /\ phase = "ready" /\ txn = NoTxn /\ step = 1
  /\ walOff = 1 /\ walSize = 0 /\ nextWALSeq = 0
  /\ recoveryRequired = FALSE
  /\ failures = 0 /\ crashes = 0
  /\ env \in Scenarios
  /\ committed = Contents /\ candidate = Contents

-----------------------------------------------------------------------------
(* The write transaction.                                                  *)

(***************************************************************************)
(* Three kinds of caller reach the engine.  "update" is DB.Update, Batch   *)
(* and the changelog-consumer writers, which refuse to run once            *)
(* recoveryRequired is set; "maintenance" is PruneCellVersions,            *)
(* TagSnapshot and DeleteSnapshotTag, which do not look at it; "reclaim"   *)
(* is ReclaimTail, which does not look at it either but sets it on error.  *)
(***************************************************************************)
MayWrite(w) ==
  /\ w = "update" => ~recoveryRequired
  /\ w = "reclaim" => Authenticated

BlocksWritersOnError(w) == w # "maintenance"

BeginWriteTxn(w) ==
  /\ phase = "ready"
  /\ MayWrite(w)
  /\ phase' = "txn"
  /\ txn' = [hdr |-> hdr, pending |-> <<>>, dirty |-> NotDirty, writer |-> w]
  /\ UNCHANGED <<fileVars, step, walOff, walSize, nextWALSeq, recoveryRequired,
                 boundVars, histVars>>

(* A page write inside the transaction: redo is buffered, and the header   *)
(* of the transaction pins the root page's newest generation.              *)
WritePage(p) ==
  /\ phase = "txn"
  /\ Len(txn.pending) < MaxPending
  /\ nextWALSeq < env.maxSeq
  /\ nextWALSeq' = nextWALSeq + 1
  /\ txn' = [txn EXCEPT
       !.pending = Append(@, [seq |-> nextWALSeq + 1, page |-> p]),
       !.dirty[p] = nextWALSeq + 1,
       !.hdr.gen = IF p = txn.hdr.root THEN nextWALSeq + 1 ELSE @]
  /\ UNCHANGED <<fileVars, phase, step, walOff, walSize, recoveryRequired,
                 boundVars, histVars>>

Bug_OldestRootGeneration(h, t) ==
  IF h.root = 0 THEN 0
  ELSE IF t.dirty[h.root] = 0 THEN h.gen
  ELSE t.pending[CHOOSE i \in DOMAIN t.pending :
                   /\ t.pending[i].page = h.root
                   /\ \A j \in 1..(i - 1) : t.pending[j].page # h.root].seq

(* refreshRootGeneration: the generation of the newest buffered image of   *)
(* the root, found from the end of the redo list; that image is also the   *)
(* page's entry in the dirty map.                                          *)
RootGeneration(h, t) ==
  IF h.root = 0 THEN 0
  ELSE IF t.dirty[h.root] = 0 THEN h.gen
  ELSE t.dirty[h.root]

(* UpdateHeader inside the transaction, as the B+ tree calls it: the new   *)
(* root is empty (0) or a page this transaction has written.               *)
SetRoot(r) ==
  /\ phase = "txn"
  /\ r # txn.hdr.root
  /\ r # 0 => txn.dirty[r] # 0
  /\ LET h == [txn.hdr EXCEPT !.root = r]
     IN  txn' = [txn EXCEPT !.hdr = [h EXCEPT !.gen = RootGeneration(h, txn)]]
  /\ UNCHANGED <<fileVars, phase, step, walOff, walSize, nextWALSeq,
                 recoveryRequired, boundVars, histVars>>

(* A callback error: buffered redo is dropped; its sequence numbers are    *)
(* not given back.                                                         *)
AbortWriteTxn ==
  /\ phase = "txn"
  /\ phase' = "ready"
  /\ txn' = NoTxn
  /\ UNCHANGED <<fileVars, step, walOff, walSize, nextWALSeq, recoveryRequired,
                 boundVars, histVars>>

(* The header a transaction publishes: CommitSeq is advanced by DB.Update  *)
(* only; LastWALSeq is the last buffered redo, or, for the header-only     *)
(* commit of ReclaimTail, a fresh sequence number.                         *)
FinalHeader ==
  [txn.hdr EXCEPT
     !.commit = IF txn.writer = "update" THEN @ + 1 ELSE @,
     !.last = IF txn.pending = <<>> THEN nextWALSeq + 1
              ELSE txn.pending[Len(txn.pending)].seq]

CommitWriteTxn ==
  /\ phase = "txn"
  /\ txn.pending = <<>> => txn.writer = "reclaim" /\ nextWALSeq < env.maxSeq
  /\ nextWALSeq' = IF txn.pending = <<>> THEN nextWALSeq + 1 ELSE nextWALSeq
  /\ txn' = [txn EXCEPT !.hdr = FinalHeader]
  /\ candidate' = [page |-> Apply(committed.page, txn.dirty), hdr |-> FinalHeader]
  /\ phase' = "append"
  /\ step' = 1
  /\ UNCHANGED <<fileVars, walOff, walSize, recoveryRequired, boundVars,
                 committed>>

-----------------------------------------------------------------------------
(* The commit pipeline of the flusher (one job per batch, as DB.mu has it). *)

RecordCount == Len(txn.pending) + (IF Authenticated THEN 1 ELSE 0)

NextRecord ==
  IF step <= Len(txn.pending) THEN PageRecord(txn.pending[step])
  ELSE HeaderRecord(txn.hdr)

(* groupWriteWAL, one record: written at the handle's offset, over         *)
(* whatever an earlier commit left there.                                  *)
WriteWALRecord ==
  /\ phase = "append"
  /\ step <= RecordCount
  /\ walOff \in Slot
  /\ wal' = [wal EXCEPT ![walOff] = NextRecord]
  /\ walOff' = walOff + 1
  /\ walSize' = walSize + 1
  /\ step' = step + 1
  /\ phase' = IF step = RecordCount THEN "walSync" ELSE "append"
  /\ UNCHANGED <<walDur, page, hdr, pageDur, hdrDur, txn, nextWALSeq,
                 recoveryRequired, boundVars, histVars>>

(* wal.Sync; a header-only commit goes straight to the header. *)
SyncWAL ==
  /\ phase = "walSync"
  /\ WALSynced
  /\ step' = 1
  /\ phase' = IF txn.pending = <<>> THEN "header" ELSE "primary"
  /\ UNCHANGED <<wal, page, hdr, pageDur, hdrDur, txn, walOff, walSize,
                 nextWALSeq, recoveryRequired, boundVars, histVars>>

Bug_OnePageTooMany == step > Len(txn.pending) + 1

AllPagesWritten == step > Len(txn.pending)

(* groupWritePrimary, one page. *)
WritePrimaryPage ==
  /\ phase = "primary"
  /\ step <= Len(txn.pending)
  /\ page' = [page EXCEPT ![txn.pending[step].page] = txn.pending[step].seq]
  /\ step' = step + 1
  /\ UNCHANGED <<wal, walDur, hdr, pageDur, hdrDur, phase, txn, walOff, walSize,
                 nextWALSeq, recoveryRequired, boundVars, histVars>>

(* syncPrimary after the pages. *)
SyncPrimaryPages ==
  /\ phase = "primary"
  /\ AllPagesWritten
  /\ PrimarySynced
  /\ phase' = "header"
  /\ UNCHANGED <<wal, walDur, page, hdr, txn, step, walOff, walSize, nextWALSeq,
                 recoveryRequired, boundVars, histVars>>

(* groupFinalizeHeader: write, then sync. *)
WriteHeader ==
  /\ phase = "header"
  /\ hdr' = txn.hdr
  /\ phase' = "headerSync"
  /\ UNCHANGED <<wal, walDur, page, pageDur, hdrDur, txn, step, walOff, walSize,
                 nextWALSeq, recoveryRequired, boundVars, histVars>>

SyncHeader ==
  /\ phase = "headerSync"
  /\ PrimarySynced
  /\ phase' = "truncate"
  /\ UNCHANGED <<wal, walDur, page, hdr, txn, step, walOff, walSize, nextWALSeq,
                 recoveryRequired, boundVars, histVars>>

(* groupTruncateWAL: the file is cut to the bytes this cycle wrote, not to *)
(* zero, so the records of this commit stay in it; walSize is reset before *)
(* the truncation is attempted.                                            *)
TruncateWAL ==
  /\ phase = "truncate"
  /\ wal' = [s \in Slot |-> IF s <= walSize THEN wal[s] ELSE Empty]
  /\ walSize' = 0
  /\ phase' = "seek"
  /\ UNCHANGED <<walDur, page, hdr, pageDur, hdrDur, txn, step, walOff,
                 nextWALSeq, recoveryRequired, boundVars, histVars>>

(* Seek to the start, sync, and answer the waiting writer with success. *)
Acknowledge ==
  /\ phase = "seek"
  /\ walOff' = 1
  /\ WALSynced
  /\ phase' = "ready"
  /\ txn' = NoTxn
  /\ committed' = candidate
  /\ UNCHANGED <<wal, page, hdr, pageDur, hdrDur, step, walSize, nextWALSeq,
                 recoveryRequired, boundVars, candidate>>

(***************************************************************************)
(* An I/O error anywhere in the pipeline: the flusher gives every waiter   *)
(* the error.  The operation that failed may have happened in part: a      *)
(* short write leaves a record that does not validate and an offset after  *)
(* it, a failed page write leaves a torn page, a failed final sync may     *)
(* come after the seek.                                                    *)
(***************************************************************************)
FailedWALWrite ==
  /\ phase = "append"
  /\ walOff \in Slot
  /\ wal' = [wal EXCEPT ![walOff] = Torn]
  /\ walOff' = walOff + 1
  /\ walSize' = walSize + 1
  /\ UNCHANGED page

FailedPageWrite ==
  /\ phase = "primary"
  /\ step <= Len(txn.pending)
  /\ page' = [page EXCEPT ![txn.pending[step].page] = TornPage]
  /\ UNCHANGED <<wal, walOff, walSize>>

FailedTruncate ==
  /\ phase = "truncate"
  /\ walSize' = 0
  /\ UNCHANGED <<wal, page, walOff>>

FailedFinalSync ==
  /\ phase = "seek"
  /\ walOff' = 1
  /\ UNCHANGED <<wal, page, walSize>>

FailedCleanly ==
  /\ phase # "truncate"
  /\ UNCHANGED <<wal, page, walOff, walSize>>

CommitError ==
  /\ phase \in CommitPhases
  /\ failures < env.maxFailures
  /\ failures' = failures + 1
  /\ \/ FailedWALWrite
     \/ FailedPageWrite
     \/ FailedTruncate
     \/ FailedFinalSync
     \/ FailedCleanly
  /\ recoveryRequired' = (recoveryRequired \/ BlocksWritersOnError(txn.writer))
  /\ phase' = "ready"
  /\ txn' = NoTxn
  /\ UNCHANGED <<hdr, walDur, pageDur, hdrDur, step, nextWALSeq, crashes, env,
                 histVars>>

-----------------------------------------------------------------------------
(* The end of the process.                                                 *)

ProcessGone ==
  /\ phase' = "down"
  /\ txn' = NoTxn
  /\ step' = 1
  /\ walOff' = 1
  /\ walSize' = 0
  /\ nextWALSeq' = 0
  /\ recoveryRequired' = FALSE
  /\ UNCHANGED <<failures, env, histVars>>

(* Close writes and syncs nothing. *)
Close ==
  /\ phase = "ready"
  /\ ProcessGone
  /\ UNCHANGED <<fileVars, crashes>>

Running == phase \notin {"down", "refused"}

(* The process is killed: what it wrote stays in the operating system's    *)
(* cache; the write it was in may be half done.                            *)
Kill ==
  /\ Running
  /\ "kill" \in env.crashKinds
  /\ crashes < env.maxCrashes
  /\ crashes' = crashes + 1
  /\ \/ UNCHANGED <<wal, page>>
     \/ /\ phase = "append" /\ walOff \in Slot
        /\ wal' = [wal EXCEPT ![walOff] = Torn]
        /\ UNCHANGED page
     \/ /\ phase = "primary" /\ step <= Len(txn.pending)
        /\ page' = [page EXCEPT ![txn.pending[step].page] = TornPage]
        /\ UNCHANGED wal
  /\ ProcessGone
  /\ UNCHANGED <<hdr, walDur, pageDur, hdrDur>>

(* A WAL after power loss: records up to cut reached the medium, the next  *)
(* one perhaps in part.  Records are not aligned to blocks, so losing any  *)
(* block between two records that did reach it also tears a record.        *)
SurvivingWAL(cut, torn) ==
  [s \in Slot |-> IF s <= cut THEN wal[s]
                  ELSE IF s = cut + 1 /\ torn THEN Torn
                  ELSE walDur[s]]

(* Power is lost: of each write since the last sync of its file, the       *)
(* medium has all, a part, or nothing.                                     *)
PowerLoss ==
  /\ Running
  /\ "power" \in env.crashKinds
  /\ crashes < env.maxCrashes
  /\ crashes' = crashes + 1
  /\ \E cut \in 0..WalSlots, torn \in BOOLEAN :
       /\ torn => cut + 1 \in Slot /\ (wal[cut + 1] # walDur[cut + 1] \/ phase = "append")
       /\ wal' = SurvivingWAL(cut, torn)
  /\ page' \in [Page -> {page[p] : p \in Page} \cup {pageDur[p] : p \in Page} \cup {TornPage}]
  /\ \A p \in Page :
       \/ page'[p] \in {page[p], pageDur[p]}
       \/ page'[p] = TornPage /\ page[p] # pageDur[p]
  /\ hdr' \in {hdr, hdrDur}
  /\ walDur' = wal' /\ pageDur' = page' /\ hdrDur' = hdr'
  /\ ProcessGone

-----------------------------------------------------------------------------
(* Open: parse the WAL, publish what it holds, empty it.                   *)

(* The records apply is called with: newer than the header. *)
Fresh(s) == wal[s].seq > hdr.last
Marker(s) == Fresh(s) /\ wal[s].page = 0

Damaged == \E s \in Slot : wal[s] = Torn

(* The slot with the highest sequence number in the file. *)
Newest(s) == \A t \in Slot : wal[t].seq <= wal[s].seq

(* The marker that counts is the last one in the file; it must carry the   *)
(* highest sequence number of all.                                         *)
LastMarker(s) == Marker(s) /\ \A t \in Slot : Marker(t) => t <= s
MarkerMissing ==
  /\ \E s \in Slot : Fresh(s)
  /\ ~\E s \in Slot : LastMarker(s) /\ Newest(s)

(* The pages to publish: in v3 those between the last marker and the one   *)
(* before it; without markers, every fresh record.                         *)
Bug_LastPageDropped ==
  {s \in Slot :
     /\ Fresh(s) /\ ~Marker(s)
     /\ \E m \in Slot : LastMarker(m) /\ s < m - 1}

ReplaySlots ==
  IF Authenticated
  THEN {s \in Slot :
          /\ Fresh(s) /\ ~Marker(s)
          /\ \E m \in Slot : LastMarker(m) /\ s < m
                             /\ ~\E t \in s..m : t # m /\ Marker(t)}
  ELSE {s \in Slot : Fresh(s)}

(* The header replay publishes: the one in the marker; without markers the *)
(* old one, with only LastWALSeq moved.                                    *)
ReplayedHeader(s) ==
  IF Authenticated THEN wal[s].hdr ELSE [hdr EXCEPT !.last = wal[s].seq]

(* In v3 nothing is written before the whole log has been validated; the   *)
(* older formats write each page as they parse it.                         *)
OpenDatabase ==
  /\ phase = "down"
  /\ phase' = IF Authenticated /\ (Damaged \/ MarkerMissing) THEN "refused"
              ELSE IF \E s \in Slot : Fresh(s) \/ wal[s] = Torn THEN "replay"
              ELSE "openTruncate"
  /\ step' = 1
  /\ UNCHANGED <<fileVars, txn, walOff, walSize, nextWALSeq, recoveryRequired,
                 boundVars, histVars>>

ReplayPage(s) ==
  /\ phase = "replay"
  /\ s >= step
  /\ s \in ReplaySlots
  /\ \A t \in Slot : t >= step /\ t < s => t \notin ReplaySlots /\ wal[t] # Torn
  /\ page' = [page EXCEPT ![wal[s].page] = wal[s].seq]
  /\ step' = s + 1
  /\ UNCHANGED <<wal, walDur, hdr, pageDur, hdrDur, phase, txn, walOff, walSize,
                 nextWALSeq, recoveryRequired, boundVars, histVars>>

(* A damaged record is met after earlier ones were written (v1 and v2). *)
ReplayCorrupt ==
  /\ phase = "replay"
  /\ \E s \in Slot : /\ s >= step /\ wal[s] = Torn
                     /\ \A t \in Slot : t >= step /\ t < s => t \notin ReplaySlots
  /\ phase' = "refused"
  /\ UNCHANGED <<fileVars, txn, step, walOff, walSize, nextWALSeq,
                 recoveryRequired, boundVars, histVars>>

ReplayDone == \A t \in Slot : t >= step => t \notin ReplaySlots /\ wal[t] # Torn

(* All pages are written; v3 syncs them before the header, v1 and v2 do not. *)
ReplayPagesDone ==
  /\ phase = "replay"
  /\ ReplayDone
  /\ IF Authenticated THEN PrimarySynced
     ELSE UNCHANGED <<pageDur, hdrDur>>
  /\ phase' = "replayHeader"
  /\ UNCHANGED <<wal, walDur, page, hdr, txn, step, walOff, walSize, nextWALSeq,
                 recoveryRequired, boundVars, histVars>>

ReplayWriteHeader ==
  /\ phase = "replayHeader"
  /\ \E s \in Slot : /\ Newest(s) /\ Fresh(s)
                     /\ Authenticated => LastMarker(s)
                     /\ hdr' = ReplayedHeader(s)
  /\ phase' = "replayHeaderSync"
  /\ UNCHANGED <<wal, walDur, page, pageDur, hdrDur, txn, step, walOff, walSize,
                 nextWALSeq, recoveryRequired, boundVars, histVars>>

ReplaySyncHeader ==
  /\ phase = "replayHeaderSync"
  /\ PrimarySynced
  /\ phase' = "openTruncate"
  /\ UNCHANGED <<wal, walDur, page, hdr, txn, step, walOff, walSize, nextWALSeq,
                 recoveryRequired, boundVars, histVars>>

OpenTruncateWAL ==
  /\ phase = "openTruncate"
  /\ wal' = [s \in Slot |-> Empty]
  /\ phase' = "openSync"
  /\ UNCHANGED <<walDur, page, hdr, pageDur, hdrDur, txn, step, walOff, walSize,
                 nextWALSeq, recoveryRequired, boundVars, histVars>>

OpenSyncWAL ==
  /\ phase = "openSync"
  /\ WALSynced
  /\ nextWALSeq' = hdr.last
  /\ phase' = "openTree"
  /\ UNCHANGED <<wal, page, hdr, pageDur, hdrDur, txn, step, walOff, walSize,
                 recoveryRequired, boundVars, histVars>>

(* The root page's generation must be the one the header pins (v3). *)
StaleRoot == Authenticated /\ hdr.root # 0 /\ page[hdr.root] # hdr.gen

(* History: the commit that a client must take the opened database for.    *)
(* Where recovery is atomic it is the one of unknown outcome when the      *)
(* header is that commit's, and the last successful one otherwise, whatever*)
(* the pages hold; elsewhere nothing is promised.                          *)
Settled ==
  IF ~Atomic THEN Contents
  ELSE IF hdr.last = candidate.hdr.last THEN candidate
  ELSE committed

(* The first reads through the tree, and the handle is usable. *)
OpenReadTree ==
  /\ phase = "openTree"
  /\ phase' = IF StaleRoot THEN "refused" ELSE "ready"
  /\ IF StaleRoot THEN UNCHANGED histVars
     ELSE committed' = Settled /\ candidate' = Settled
  /\ UNCHANGED <<fileVars, txn, step, walOff, walSize, nextWALSeq,
                 recoveryRequired, boundVars>>

-----------------------------------------------------------------------------
Pipeline ==
  \/ WriteWALRecord
  \/ SyncWAL
  \/ WritePrimaryPage
  \/ SyncPrimaryPages
  \/ WriteHeader
  \/ SyncHeader
  \/ TruncateWAL
  \/ Acknowledge

Recovery ==
  \/ OpenDatabase
  \/ \E s \in Slot : ReplayPage(s)
  \/ ReplayCorrupt
  \/ ReplayPagesDone
  \/ ReplayWriteHeader
  \/ ReplaySyncHeader
  \/ OpenTruncateWAL
  \/ OpenSyncWAL
  \/ OpenReadTree

Next ==
  \/ \E w \in env.writers : BeginWriteTxn(w)
  \/ \E p \in Page : WritePage(p)
  \/ \E r \in Page \cup {0} : SetRoot(r)
  \/ AbortWriteTxn
  \/ CommitWriteTxn
  \/ Pipeline
  \/ CommitError
  \/ Close
  \/ Kill
  \/ PowerLoss
  \/ Recovery

Spec == Init /\ [][Next]_vars

(* The flusher goroutine and a process that opens the database keep going. *)
FairSpec == Spec /\ WF_vars(Pipeline) /\ WF_vars(Recovery)

-----------------------------------------------------------------------------
TypeOK ==
  /\ wal \in [Slot -> Record] /\ walDur \in [Slot -> Record]
  /\ page \in [Page -> Int] /\ pageDur \in [Page -> Int]
  /\ hdr \in Header /\ hdrDur \in Header
  /\ phase \in Phases
  /\ txn \in Txn
  /\ step \in Nat \ {0} /\ walOff \in Nat /\ walSize \in Nat /\ nextWALSeq \in Nat
  /\ recoveryRequired \in BOOLEAN
  /\ env \in Scenarios
  /\ failures \in 0..env.maxFailures /\ crashes \in 0..env.maxCrashes
  /\ committed \in Image /\ candidate \in Image

(* A handle that accepts writers. *)
Healthy == phase \in {"ready", "txn"} /\ ~recoveryRequired

(***************************************************************************)
(* Readers and the next writer of a handle that is not frozen find in the  *)
(* primary file the contents that the last successful commit asked for:    *)
(* what the pipeline and the redo wrote page by page is the header and the *)
(* dirty pages the transaction handed over, on top of the commit before    *)
(* it, and no page of a failed or half-applied commit.  After Open that    *)
(* commit is the one whose header was found (Settled).  (readPagePooled    *)
(* reads the primary directly.)  Where a maintenance commit fails, which   *)
(* sets no recoveryRequired, it does not hold: no scenario has errors and  *)
(* maintenance writers together.                                           *)
(***************************************************************************)
ReadersSeeCommitted == Healthy => Contents = committed

(***************************************************************************)
(* Success means durable: when a writer has been answered, a power loss    *)
(* that throws away every unsynced write leaves that commit readable and   *)
(* nothing in the WAL that would undo it.  (About processes that are not   *)
(* killed: after a kill, or an error and a close, Open may find a commit   *)
(* that was never synced, and syncs nothing when the WAL has nothing newer *)
(* than the header.  No scenario here has errors and power loss together.) *)
(***************************************************************************)
AckedIsDurable ==
  Healthy /\ "kill" \notin env.crashKinds =>
    /\ pageDur = committed.page
    /\ hdrDur = committed.hdr
    /\ \A s \in Slot : walDur[s].seq <= hdrDur.last

(***************************************************************************)
(* Write-ahead and header last, on the medium of a format v3 database: a   *)
(* page image that the header does not cover yet has its redo record there *)
(* too, so recovery can finish what the pages began; and once the header   *)
(* is the one a commit publishes, so is every page of that commit          *)
(* (groupWriteWAL, groupWritePrimary, groupFinalizeHeader and their syncs).*)
(* A killed process can leave a log that was never synced, and recovery    *)
(* does not sync it before it writes pages: processes that are killed are  *)
(* left out here too.                                                      *)
(***************************************************************************)
WriteOrder ==
  Authenticated /\ "kill" \notin env.crashKinds =>
    /\ \A p \in Page : pageDur[p] > hdrDur.last =>
          \E s \in Slot : walDur[s].page = p /\ walDur[s].seq = pageDur[p]
    /\ hdrDur = candidate.hdr => pageDur = candidate.page

(***************************************************************************)
(* The root page a reader starts from carries the generation the header    *)
(* pins, so an authenticated database is never refused as stale after a    *)
(* crash (validateRootPageGeneration).                                     *)
(***************************************************************************)
RootPinned ==
  Authenticated /\ (Healthy \/ phase = "openTree") /\ hdr.root # 0
     => page[hdr.root] = hdr.gen

(***************************************************************************)
(* After a SIGKILL during Update, Open replays the WAL and succeeds        *)
(* (docs/hexxladb/OPERATIONS.md, crash recovery drill).                    *)
(***************************************************************************)
AlwaysReopens == phase # "refused"

(***************************************************************************)
(* A commit handed to the flusher is answered, and an opening process      *)
(* either gets a usable handle or an error, unless a crash intervenes.     *)
(***************************************************************************)
Answered ==
  /\ phase \in CommitPhases ~> phase \in {"ready", "down"}
  /\ phase = "down" ~> phase \in {"ready", "refused"}

-----------------------------------------------------------------------------
(* The abstract view of this engine: what each phase is to a client. *)
Status ==
  CASE phase \in {"ready", "txn"} /\ ~recoveryRequired -> "idle"
    [] phase \in {"ready", "txn"} /\ recoveryRequired -> "unknown"
    [] phase \in CommitPhases -> "busy"
    [] phase = "refused" -> "refused"
    [] OTHER -> "down"

NewImage == [page |-> [p \in Page |-> 0], hdr |-> NewHeader]

(* What the files hold for the readers of a handle that takes writers; no  *)
(* new handle reads while the outcome of a commit is open.                 *)
Store == IF Healthy THEN Contents ELSE committed

(* Formats v1 and v2 do not promise atomic recovery; they map to a store   *)
(* nobody writes.                                                          *)
Abstract == INSTANCE AtomicStore WITH
  Value <- Image,
  Initial <- NewImage,
  store <- IF Authenticated THEN Store ELSE NewImage,
  cand <- IF Authenticated THEN candidate ELSE NewImage,
  status <- IF Authenticated THEN Status ELSE "idle"

(***************************************************************************)
(* The engine implements the atomic store: what a reader finds in the      *)
(* primary after an acknowledged commit is the whole candidate, an error   *)
(* freezes the handle, and what it finds after recovery is the old or the  *)
(* new contents, never a mixture.                                          *)
(***************************************************************************)
Refinement == Abstract!ASpec
=============================================================================
