------------------------------ MODULE PageStore ------------------------------
(***************************************************************************)
(* Who may read and write pages when: DB.mu, the write transaction, the    *)
(* group-WAL flusher with its overlay and staged header, the page cache    *)
(* and BackupTo.                                                           *)
(*                                                                         *)
(* A page image is the number of the transaction that wrote it.  What the  *)
(* files hold after a crash is the matter of EngineWal; here an I/O error  *)
(* ends the pipeline at any step and the process goes on.                  *)
(***************************************************************************)
EXTENDS PageCache

CONSTANTS
  Reader,       \* goroutines in View
  Scenarios     \* what a behaviour may do: the pages of its database, the
                \* most write transactions (maxTxn) and I/O errors
                \* (maxFailures), whether backups are taken, and whether
                \* the format is v3, where the records of a commit in the
                \* WAL end with one of the header (v1, v2: no such record)

ASSUME PageStoreAssumption ==
  /\ "backup" \notin Reader
  /\ \A sc \in Scenarios :
       /\ Cardinality(sc.pages) \in Nat /\ sc.pages = 1..Cardinality(sc.pages)
       /\ sc.pages \subseteq Page /\ {sc.maxTxn, sc.maxFailures} \subseteq Nat /\ {sc.backup, sc.v3} \subseteq BOOLEAN

VARIABLES
  env,          \* the scenario of this behaviour
  disk, hdr,    \* the primary: pages, and the number of its header's commit
  wal,          \* the WAL: the transaction in it, the pages whose records
                \* are whole, whether a cut record follows them, and whether
                \* the record of its header does (marked)
  cache,
  overlay,      \* groupOverlay
  staged,       \* groupUnflushed, or 0
  jobs,         \* groupJobCh
  fl,           \* the flusher goroutine
  mu,           \* DB.mu: held exclusively, and the set of its readers
  txn,          \* the write transaction and the goroutine that runs it
  done,         \* the answer to the job of txn
  view,         \* the readers
  backup,       \* BackupTo
  recoveryRequired, closed,
  failed,       \* the transactions whose commit met an I/O error
  committed, candidate   \* history: contents after the last successful
                         \* commit, and with the one that is under way or failed

fileVars == <<disk, hdr, wal>>
groupVars == <<overlay, staged, jobs, fl, done>>
histVars == <<committed, candidate>>
vars == <<env, fileVars, cache, groupVars, mu, txn, view, backup, recoveryRequired, closed,
          failed, histVars>>

None == -1
Torn == -2
NoTxn == [no |-> 0, st |-> "none", kind |-> "update", dirty |-> <<>>]
NoView == [st |-> "none", page |-> 0, img |-> None, got |-> <<>>]
EmptyWAL == [no |-> 0, pages |-> <<>>, torn |-> FALSE, marked |-> FALSE]
NoBackup == [st |-> "none", pages |-> <<>>, hdr |-> 0, wal |-> EmptyWAL]
IdleFlusher == [st |-> "idle", job |-> [no |-> 0, pages |-> <<>>], i |-> 1]

Init ==
  /\ env \in Scenarios
  /\ disk = [p \in env.pages |-> 0] /\ hdr = 0 /\ wal = EmptyWAL
  /\ cache = NewShard
  /\ overlay = [p \in env.pages |-> None] /\ staged = 0 /\ jobs = <<>>
  /\ fl = IdleFlusher /\ done = "none"
  /\ mu = [writer |-> FALSE, readers |-> {}]
  /\ txn = NoTxn
  /\ view = [r \in Reader |-> NoView]
  /\ backup = NoBackup
  /\ recoveryRequired = FALSE /\ closed = "no"
  /\ failed = {}
  /\ committed = disk /\ candidate = disk

-----------------------------------------------------------------------------
(* DB.mu *)

Bug_ReadersIgnored == ~mu.writer
Lockable == ~mu.writer /\ mu.readers = {}
RLockable == ~mu.writer

Lock == Lockable /\ mu' = [mu EXCEPT !.writer = TRUE]
Unlock == mu' = [mu EXCEPT !.writer = FALSE]
RLock(r) == RLockable /\ mu' = [mu EXCEPT !.readers = @ \cup {r}]
RUnlock(r) == mu' = [mu EXCEPT !.readers = @ \ {r}]

-----------------------------------------------------------------------------
(* Reading.                                                                *)

(* View *)
StartView(r) ==
  /\ closed = "no" /\ view[r].st = "none"
  /\ RLock(r)
  /\ view' = [view EXCEPT ![r].st = "open"]
  /\ UNCHANGED <<env, fileVars, cache, groupVars, txn, backup, recoveryRequired, closed, failed, histVars>>

EndView(r) ==
  /\ view[r].st = "open"
  /\ view' = [view EXCEPT ![r] = NoView]
  /\ RUnlock(r)
  /\ UNCHANGED <<env, fileVars, cache, groupVars, txn, backup, recoveryRequired, closed, failed, histVars>>

(* readPagePooled without a write transaction: the overlay, the cache, the *)
(* primary; what comes from the primary is put into the cache later.       *)
ReadPage(r, p) ==
  /\ view[r].st = "open"
  /\ \/ /\ overlay[p] # None
        /\ view' = [view EXCEPT ![r].got = <<p, overlay[p]>>]
        /\ UNCHANGED cache
     \/ /\ overlay[p] = None /\ Cached(cache, p)
        /\ view' = [view EXCEPT ![r].got = <<p, cache.ent[p].img>>]
        /\ cache' = CacheGet(cache, p)
     \/ /\ overlay[p] = None /\ ~Cached(cache, p)
        /\ view' = [view EXCEPT ![r] = [st |-> "fill", page |-> p, img |-> disk[p], got |-> <<p, disk[p]>>]]
        /\ UNCHANGED cache
  /\ UNCHANGED <<env, fileVars, groupVars, mu, txn, backup, recoveryRequired, closed, failed, histVars>>

(* readPageFromDisk: transformRead refuses a torn page, others are cached. *)
FillCache(r) ==
  /\ view[r].st = "fill"
  /\ cache' = IF view[r].img = Torn THEN cache ELSE CacheSet(cache, view[r].page, view[r].img)
  /\ view' = [view EXCEPT ![r].st = "open", ![r].page = 0, ![r].img = None]
  /\ UNCHANGED <<env, fileVars, groupVars, mu, txn, backup, recoveryRequired, closed, failed, histVars>>

-----------------------------------------------------------------------------
(* Writing.                                                                *)

(***************************************************************************)
(* Update refuses to run once recoveryRequired is set; the maintenance     *)
(* writers (prune, snapshot tags) do not look at it.                       *)
(***************************************************************************)
BeginWriteTxn(kind) ==
  /\ closed = "no" /\ txn.st = "none" /\ txn.no < env.maxTxn
  /\ kind = "update" => ~recoveryRequired
  /\ Lock
  /\ txn' = [no |-> txn.no + 1, st |-> "open", kind |-> kind, dirty |-> <<>>]
  /\ UNCHANGED <<env, fileVars, cache, groupVars, view, backup, recoveryRequired, closed, failed, histVars>>

(* readPagePooled in a write transaction: its dirty pages, never the overlay. *)
ReadInTxn(p) ==
  /\ txn.st = "open" /\ p \notin ToSet(txn.dirty)
  /\ cache' = IF Cached(cache, p) THEN CacheGet(cache, p)
              ELSE IF disk[p] = Torn THEN cache ELSE CacheSet(cache, p, disk[p])
  /\ UNCHANGED <<env, fileVars, groupVars, mu, txn, view, backup, recoveryRequired, closed, failed, histVars>>

WritePage(p) ==
  /\ txn.st = "open" /\ p \notin ToSet(txn.dirty)
  /\ txn' = [txn EXCEPT !.dirty = Append(@, p)]
  /\ UNCHANGED <<env, fileVars, cache, groupVars, mu, view, backup, recoveryRequired, closed, failed, histVars>>

AbortWriteTxn ==
  /\ txn.st = "open"
  /\ txn' = [txn EXCEPT !.st = "none"]
  /\ Unlock
  /\ UNCHANGED <<env, fileVars, cache, groupVars, view, backup, recoveryRequired, closed, failed, histVars>>

(* enqueueGroupWALJob: overlay and staged header, then the job. *)
EnqueueJob ==
  /\ txn.st = "open" /\ txn.dirty # <<>>
  /\ overlay' = [p \in env.pages |-> IF p \in ToSet(txn.dirty) THEN txn.no ELSE overlay[p]]
  /\ staged' = txn.no
  /\ jobs' = Append(jobs, [no |-> txn.no, pages |-> txn.dirty])
  /\ txn' = [txn EXCEPT !.st = "wait"]
  /\ candidate' = [p \in env.pages |-> IF p \in ToSet(txn.dirty) THEN txn.no ELSE committed[p]]
  /\ UNCHANGED <<env, fileVars, cache, fl, done, mu, view, backup, recoveryRequired, closed, failed, committed>>

(* The writer is answered.  Only Update notes a failure. *)
FinishCommit ==
  /\ txn.st = "wait" /\ done # "none"
  /\ done' = "none"
  /\ txn' = [txn EXCEPT !.st = "none"]
  /\ recoveryRequired' = (recoveryRequired \/ (done = "error" /\ txn.kind = "update"))
  /\ committed' = IF done = "ok" THEN candidate ELSE committed
  /\ Unlock
  /\ UNCHANGED <<env, fileVars, cache, overlay, staged, jobs, fl, view, backup, closed, failed, candidate>>

-----------------------------------------------------------------------------
(* The flusher.                                                            *)

Bug_NotInvalidated(p) == cache
Invalidated(p) == CacheDel(cache, p)

(* runGroupWALFlusher takes a job; DB.mu leaves at most one to collect. *)
TakeJob ==
  /\ fl.st = "idle" /\ jobs # <<>>
  /\ fl' = [st |-> "wal", job |-> Head(jobs), i |-> 1]
  /\ jobs' = Tail(jobs)
  /\ UNCHANGED <<env, fileVars, cache, overlay, staged, done, mu, txn, view, backup, recoveryRequired, closed, failed, histVars>>

(* groupWriteWAL and the sync. The records of a failed commit, before      *)
(* which the file is not rewound, are left out once another commit appends *)
(* to them: nothing is claimed of such a log.                              *)
WriteWAL ==
  /\ fl.st = "wal"
  /\ wal' = [no |-> fl.job.no, pages |-> fl.job.pages, torn |-> FALSE, marked |-> env.v3]
  /\ fl' = [fl EXCEPT !.st = "invalidate"]
  /\ UNCHANGED <<env, disk, hdr, cache, overlay, staged, jobs, done, mu, txn, view, backup, recoveryRequired, closed, failed, histVars>>

(* writePrimaryData: the cache entry goes first ... *)
Invalidate ==
  /\ fl.st = "invalidate"
  /\ cache' = Invalidated(fl.job.pages[fl.i])
  /\ fl' = [fl EXCEPT !.st = "write"]
  /\ UNCHANGED <<env, fileVars, overlay, staged, jobs, done, mu, txn, view, backup, recoveryRequired, closed, failed, histVars>>

(* ... then the page is written and leaves the overlay. *)
WritePrimary ==
  /\ fl.st = "write"
  /\ disk' = [disk EXCEPT ![fl.job.pages[fl.i]] = fl.job.no]
  /\ overlay' = [overlay EXCEPT ![fl.job.pages[fl.i]] = None]
  /\ fl' = [fl EXCEPT !.i = @ + 1, !.st = IF fl.i = Len(fl.job.pages) THEN "header" ELSE "invalidate"]
  /\ UNCHANGED <<env, hdr, wal, cache, staged, jobs, done, mu, txn, view, backup, recoveryRequired, closed, failed, histVars>>

(* groupFinalizeHeader *)
WriteHeader ==
  /\ fl.st = "header"
  /\ hdr' = fl.job.no
  /\ staged' = 0
  /\ fl' = [fl EXCEPT !.st = "truncate"]
  /\ UNCHANGED <<env, disk, wal, cache, overlay, jobs, done, mu, txn, view, backup, recoveryRequired, closed, failed, histVars>>

(* groupTruncateWAL keeps the bytes; the header makes them old.  The       *)
(* waiter is answered.                                                     *)
TruncateWAL ==
  /\ fl.st = "truncate"
  /\ done' = "ok"
  /\ fl' = IdleFlusher
  /\ UNCHANGED <<env, fileVars, cache, overlay, staged, jobs, mu, txn, view, backup, recoveryRequired, closed, failed, histVars>>

(* groupWriteWAL writes record by record, the header's last: the error of  *)
(* one leaves those before it and maybe a part of it, an error of the sync *)
(* leaves them all.                                                        *)
Appended(k, torn, marked) ==
  /\ torn => k < Len(fl.job.pages) \/ env.v3
  /\ marked => env.v3 /\ k = Len(fl.job.pages) /\ ~torn
  /\ wal' = IF k = 0 /\ ~torn THEN wal
            ELSE [no |-> fl.job.no, pages |-> SubSeq(fl.job.pages, 1, k), torn |-> torn, marked |-> marked]

(* An I/O error, with what it may leave in the file that was written.      *)
Partial ==
  CASE fl.st = "wal" ->
         /\ \E k \in 0..Len(fl.job.pages), torn, marked \in BOOLEAN : Appended(k, torn, marked)
         /\ UNCHANGED <<disk, hdr>>
    [] fl.st = "write" ->
         /\ disk' \in {[disk EXCEPT ![fl.job.pages[fl.i]] = x] : x \in {disk[fl.job.pages[fl.i]], Torn, fl.job.no}}
         /\ UNCHANGED <<hdr, wal>>
    [] fl.st = "header" ->
         /\ hdr' \in {hdr, fl.job.no}
         /\ UNCHANGED <<disk, wal>>
    [] fl.st = "truncate" -> UNCHANGED fileVars

(* applyGroupBatch: the waiter is answered before the overlay is reverted. *)
FailBatch ==
  /\ fl.st \in {"wal", "write", "header", "truncate"}
  /\ Cardinality(failed) < env.maxFailures
  /\ failed' = failed \cup {fl.job.no}
  /\ Partial
  /\ done' = "error"
  /\ fl' = [fl EXCEPT !.st = "revert", !.i = 1]
  /\ UNCHANGED <<env, cache, overlay, staged, jobs, mu, txn, view, backup, recoveryRequired, closed, histVars>>

RevertOverlay ==
  /\ fl.st = "revert" /\ fl.i <= Len(fl.job.pages)
  /\ overlay' = [overlay EXCEPT ![fl.job.pages[fl.i]] = None]
  /\ fl' = [fl EXCEPT !.i = @ + 1]
  /\ UNCHANGED <<env, fileVars, cache, staged, jobs, done, mu, txn, view, backup, recoveryRequired, closed, failed, histVars>>

RevertStaged ==
  /\ fl.st = "revert" /\ fl.i > Len(fl.job.pages)
  /\ staged' = 0
  /\ fl' = IdleFlusher
  /\ UNCHANGED <<env, fileVars, cache, overlay, jobs, done, mu, txn, view, backup, recoveryRequired, closed, failed, histVars>>

-----------------------------------------------------------------------------
(* Close: the flusher is told to stop, drains the channel and is joined.   *)

BeginClose ==
  /\ closed = "no"
  /\ Lock
  /\ closed' = "stopping"
  /\ cache' = NewShard
  /\ UNCHANGED <<env, fileVars, groupVars, txn, view, backup, recoveryRequired, failed, histVars>>

StopFlusher ==
  /\ closed = "stopping" /\ fl.st = "idle" /\ jobs = <<>>
  /\ fl' = [IdleFlusher EXCEPT !.st = "stopped"]
  /\ UNCHANGED <<env, fileVars, cache, overlay, staged, jobs, done, mu, txn, view, backup, recoveryRequired, closed, failed, histVars>>

EndClose ==
  /\ closed = "stopping" /\ fl.st = "stopped"
  /\ closed' = "yes"
  /\ Unlock
  /\ UNCHANGED <<env, fileVars, cache, groupVars, txn, view, backup, recoveryRequired, failed, histVars>>

-----------------------------------------------------------------------------
(* BackupTo copies the primary, chunk after chunk, and then the WAL, under *)
(* the shared lock.                                                        *)

StartBackup ==
  /\ env.backup /\ closed = "no" /\ backup.st = "none"
  /\ ~recoveryRequired
  /\ RLock("backup")
  /\ backup' = [NoBackup EXCEPT !.st = "copying", !.hdr = hdr]
  /\ UNCHANGED <<env, fileVars, cache, groupVars, txn, view, recoveryRequired, closed, failed, histVars>>

CopyPage ==
  /\ backup.st = "copying" /\ Len(backup.pages) < Cardinality(env.pages)
  /\ backup' = [backup EXCEPT !.pages = Append(@, disk[Len(@) + 1])]
  /\ UNCHANGED <<env, fileVars, cache, groupVars, mu, txn, view, recoveryRequired, closed, failed, histVars>>

CopyWAL ==
  /\ backup.st = "copying" /\ Len(backup.pages) = Cardinality(env.pages)
  /\ backup' = [backup EXCEPT !.wal = wal, !.st = "complete"]
  /\ UNCHANGED <<env, fileVars, cache, groupVars, mu, txn, view, recoveryRequired, closed, failed, histVars>>

(* The call returns; a cancelled or failed one removes its files. *)
EndBackup ==
  /\ backup.st # "none"
  /\ backup' = NoBackup
  /\ RUnlock("backup")
  /\ UNCHANGED <<env, fileVars, cache, groupVars, txn, view, recoveryRequired, closed, failed, histVars>>

-----------------------------------------------------------------------------
Flush ==
  \/ TakeJob
  \/ WriteWAL
  \/ Invalidate
  \/ WritePrimary
  \/ WriteHeader
  \/ TruncateWAL
  \/ RevertOverlay
  \/ RevertStaged
  \/ StopFlusher

Next ==
  \/ \E r \in Reader : StartView(r) \/ EndView(r) \/ FillCache(r)
  \/ \E r \in Reader, p \in env.pages : ReadPage(r, p)
  \/ \E k \in {"update", "maintenance"} : BeginWriteTxn(k)
  \/ \E p \in env.pages : ReadInTxn(p) \/ WritePage(p)
  \/ AbortWriteTxn
  \/ EnqueueJob
  \/ FinishCommit
  \/ Flush
  \/ FailBatch
  \/ BeginClose
  \/ EndClose
  \/ StartBackup
  \/ CopyPage
  \/ CopyWAL
  \/ EndBackup

Spec == Init /\ [][Next]_vars

-----------------------------------------------------------------------------
Healthy == failed = {}

(***************************************************************************)
(* A View reads the last committed image of every page, whichever of       *)
(* overlay, cache and primary answers it.  On a handle whose commit failed *)
(* it may meet images of that commit or be refused a torn page, but is     *)
(* never given an image older than the last commit.                        *)
(***************************************************************************)
ReadsCommitted ==
  \A r \in Reader : view[r].got # <<>> =>
    LET p == view[r].got[1]
        img == view[r].got[2]
    IN  IF Healthy THEN img = committed[p] ELSE img = Torn \/ img >= committed[p]

(***************************************************************************)
(* The page cache keeps its own account whatever is read, invalidated and  *)
(* evicted, ghosts included: loops of the hands over the ring end, the     *)
(* sizes are those of the entries and within the budget, and no hand       *)
(* points at an entry that left the ring.                                  *)
(***************************************************************************)
CacheSound == ShardSound(cache)

(* What Open makes of a backup: it refuses a log with a cut record, and in *)
(* v3 a newer one without the header's record; the pages of a log newer    *)
(* than the header it replays. (v1 and v2 do so under the header copied    *)
(* with the primary, which is not in the log.)                             *)
Refused ==
  backup.wal.torn \/ (env.v3 /\ backup.wal.no > backup.hdr /\ ~backup.wal.marked)
Restored ==
  [p \in env.pages |-> IF backup.wal.no > backup.hdr /\ p \in ToSet(backup.wal.pages)
                       THEN backup.wal.no ELSE backup.pages[p]]

(***************************************************************************)
(* A backup of a handle without a failed commit is never refused and       *)
(* restores the last commit.  One taken after a failed maintenance commit, *)
(* which BackupTo does not refuse, is refused or, in v3, restores the      *)
(* contents before or after that commit as a whole.  In v1 and v2 it may   *)
(* hold half the commit, each page before or after it and none torn, for   *)
(* whichever records were appended are replayed (parseAndReplayWAL).  This *)
(* is so until another transaction appends to the log.                     *)
(***************************************************************************)
BackupWhole ==
  backup.st = "complete" /\ failed \subseteq {txn.no} =>
    IF Healthy THEN ~Refused /\ Restored = committed
    ELSE \/ Refused
         \/ Restored \in {committed, candidate}
         \/ ~env.v3 /\ \A p \in env.pages : Restored[p] \in {committed[p], candidate[p]}
=============================================================================
