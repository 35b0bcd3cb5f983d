---------------------------- MODULE PageStore_proofs ----------------------------
(***************************************************************************)
(* Theorems about the page store, for every set of pages, of readers and of *)
(* scenarios, every page size and cache budget.                            *)
(*                                                                         *)
(* The invariant (IInv) says who holds DB.mu (Locked), where the job of    *)
(* the write transaction is (Pipeline), whose commit failed (Failures),    *)
(* that a cached page is the page of the primary (CacheExact), how far the *)
(* pages are between the last commit and the next (NoOlder, Intended,      *)
(* Contents), what the files restore after a failure (AfterFailure) and    *)
(* what readers and backups have been given (Given, Copied).               *)
(***************************************************************************)
EXTENDS PageStore, PageCache_proofs

-----------------------------------------------------------------------------
(* The inductive invariant of PageStore, part by part.                     *)
Pages == env.pages

(* The flusher works on a job (no error so far), the pages of the write    *)
(* transaction, its job, and what the WAL holds of it when all is written. *)
InFlight == fl.st \in {"wal", "invalidate", "write", "header", "truncate"}
Dirty == ToSet(txn.dirty)
JobOfTxn == [no |-> txn.no, pages |-> txn.dirty]
LogOfTxn == [no |-> txn.no, pages |-> txn.dirty, torn |-> FALSE, marked |-> env.v3]

(* What the variables hold.                                                *)
Image == Nat \cup {Torn}
Job == [no : Nat, pages : Seq(Pages)]
Log == [no : Nat, pages : Seq(Pages), torn : BOOLEAN, marked : BOOLEAN]
LockState == [writer : BOOLEAN, readers : SUBSET (Reader \cup {"backup"})]
FlusherState == [st : {"idle", "wal", "invalidate", "write", "header", "truncate", "revert", "stopped"},
                 job : Job, i : Nat \ {0}]
WriteTxn == [no : Nat, st : {"none", "open", "wait"}, kind : {"update", "maintenance"}, dirty : Seq(Pages)]
Reading == [st : {"none", "open", "fill"}, page : Nat, img : Image \cup {None},
            got : {<<>>} \cup (Pages \X Image)]
Backup == [st : {"none", "copying", "complete"}, pages : Seq(Image), hdr : Nat, wal : Log]

(* The types of the variables.  The page cache has an invariant of its own. *)
TypeOK ==
  /\ env \in Scenarios
  /\ disk \in [Pages -> Image] /\ hdr \in Nat
  /\ wal \in Log
  /\ overlay \in [Pages -> Nat \cup {None}] /\ staged \in Nat
  /\ jobs \in Seq(Job)
  /\ fl \in FlusherState
  /\ done \in {"none", "ok", "error"}
  /\ mu \in LockState
  /\ txn \in WriteTxn
  /\ view \in [Reader -> Reading]
  /\ backup \in Backup
  /\ recoveryRequired \in BOOLEAN /\ closed \in {"no", "stopping", "yes"}
  /\ failed \in SUBSET Nat
  /\ committed \in [Pages -> Nat] /\ candidate \in [Pages -> Nat]

(* The shard is at rest between calls and holds images of pages, and a page *)
(* that a reader is about to put into it is a page of the database.        *)
CacheRest ==
  /\ Rest(cache)
  /\ \A p \in Pages : Cached(cache, p) => cache.ent[p].img \in Image
  /\ \A r \in Reader : view[r].st = "fill" => view[r].page \in Pages /\ view[r].img \in Image

(* DB.mu is held by the write transaction or Close, or by readers.         *)
Locked ==
  /\ mu.writer <=> txn.st # "none" \/ closed = "stopping"
  /\ mu.writer => mu.readers = {}
  /\ closed = "stopping" => txn.st = "none"
  /\ \A r \in Reader : view[r].st # "none" => r \in mu.readers
  /\ backup.st # "none" => "backup" \in mu.readers

(* Where the job of the write transaction is.                              *)
Pipeline ==
  /\ jobs # <<>> => jobs = <<JobOfTxn>> /\ txn.st = "wait" /\ done = "none" /\ fl.st \in {"idle", "revert"}
  /\ InFlight => jobs = <<>> /\ txn.st = "wait" /\ done = "none" /\ fl.job = JobOfTxn
  /\ txn.st = "wait" => jobs # <<>> \/ InFlight \/ done # "none"
  /\ done # "none" => txn.st = "wait" /\ jobs = <<>>
  /\ done = "ok" => fl.st = "idle"
  /\ fl.st = "stopped" => closed # "no" /\ txn.st = "none"
  /\ txn.st # "none" => closed = "no"
  /\ txn.st = "wait" => txn.dirty # <<>>
  /\ fl.st = "wal" => fl.i = 1
  /\ fl.st \in {"wal", "invalidate", "write"} => fl.i <= Len(fl.job.pages)

(* Which transactions failed: those whose waiter is or was told so.        *)
Failures ==
  /\ failed \subseteq 1..txn.no
  /\ done = "error" <=> txn.st = "wait" /\ txn.no \in failed
  /\ txn.no \in failed => txn.st \in {"none", "wait"} /\ fl.st \in {"idle", "revert", "stopped"}
  /\ fl.st = "revert" => failed # {}
  /\ txn.st # "none" => txn.no # 0

(* A cached page is the page on disk; the page under the pen is not cached, *)
(* and nobody writes while a reader has a page to put into the cache.      *)
CacheExact ==
  /\ \A p \in Pages : Cached(cache, p) => cache.ent[p].img = disk[p]
  /\ fl.st = "write" => ~Cached(cache, fl.job.pages[fl.i])
  /\ \A r \in Reader : view[r].st = "fill" =>
       view[r].page \in Pages /\ view[r].img = disk[view[r].page]

(* The page numbers that the flusher has written.                          *)
Written ==
  {p \in Pages : \/ fl.st \in {"invalidate", "write"} /\ \E k \in 1..(fl.i - 1) : p = fl.job.pages[k]
                 \/ (fl.st \in {"header", "truncate"} \/ done = "ok") /\ p \in Dirty}

(* Images never grow older than the last commit, nor younger than the      *)
(* transaction under way.                                                  *)
Between(img, old, new) == old <= img /\ img <= new

(* No page is older than the last commit nor younger than the transaction  *)
(* under way; nor is the header.                                           *)
NoOlder ==
  /\ hdr <= txn.no
  /\ \A p \in Pages :
       /\ committed[p] <= txn.no
       /\ disk[p] # Torn => Between(disk[p], committed[p], txn.no)
       /\ overlay[p] # None => Between(overlay[p], committed[p], txn.no)

(* What the job of the write transaction will have made of the pages, and  *)
(* has made of those that the flusher has written.                         *)
AfterJob == [p \in Pages |-> IF p \in Dirty THEN txn.no ELSE committed[p]]

Intended ==
  /\ txn.st = "wait" => candidate = AfterJob
  /\ txn.st = "wait" => \A p \in Dirty : overlay[p] \in {None, txn.no}
  /\ done # "error" => \A p \in Written : disk[p] = txn.no /\ overlay[p] = None
  /\ (txn.st = "open" \/ jobs # <<>> \/ fl.st \in {"wal", "invalidate", "write", "header"}) => hdr < txn.no

(* Before any failure, what each step of the pipeline has left.            *)
Contents ==
  failed = {} =>
    /\ \A p \in Pages : disk[p] = IF p \in Written THEN txn.no ELSE committed[p]
    /\ \A p \in Pages : overlay[p] # None => txn.st = "wait" /\ p \in Dirty
    /\ fl.st \in {"invalidate", "write", "header"} =>
         wal = LogOfTxn
    /\ fl.st \notin {"invalidate", "write", "header"} => wal.no = hdr

(* Before any failure no record in the WAL is cut.                         *)
LogWhole == failed = {} => ~wal.torn

(* What Open makes of a page, of all of them, and which log it refuses.    *)
Replayed(d, h, w, p) == IF w.no > h /\ p \in ToSet(w.pages) THEN w.no ELSE d[p]
Restores(d, h, w, c) == \A p \in Pages : c[p] = Replayed(d, h, w, p)
Refuses(h, w) == w.torn \/ (env.v3 /\ w.no > h /\ ~w.marked)

(* The primary and the log after a failed commit.                          *)
AfterFailure ==
  failed = {txn.no} =>
    \/ Refuses(hdr, wal)
    \/ Restores(disk, hdr, wal, committed)
    \/ Restores(disk, hdr, wal, candidate)
    \/ ~env.v3 /\ \A p \in Pages : Replayed(disk, hdr, wal, p) \in {committed[p], candidate[p]}

(* What a reader was given is still what it would be given.                *)
Given ==
  \A r \in Reader : view[r].got # <<>> =>
    /\ view[r].st # "none"
    /\ failed = {} => view[r].got[2] = committed[view[r].got[1]]
    /\ view[r].got[2] # Torn => committed[view[r].got[1]] <= view[r].got[2]

Copied ==
  backup.st # "none" =>
    /\ Len(backup.pages) <= Cardinality(Pages)
    /\ \A p \in 1..Len(backup.pages) : backup.pages[p] = disk[p]
    /\ backup.hdr = hdr
    /\ backup.st = "complete" => backup.wal = wal /\ Len(backup.pages) = Cardinality(Pages)
-----------------------------------------------------------------------------
(* Types.                                                                  *)

(* The pages of a database are numbered from 1 and are pages of the cache. *)
LEMMA PagesAre ==
  ASSUME TypeOK
  PROVE  /\ Pages \subseteq Page /\ Page \subseteq Nat \ {0}
         /\ Cardinality(Pages) \in Nat /\ Pages = 1..Cardinality(Pages)
         /\ env.maxTxn \in Nat /\ env.maxFailures \in Nat /\ env.v3 \in BOOLEAN
BY PageStoreAssumption, PageCacheAssumption DEF TypeOK, Pages

(* No step changes the scenario, and so the types stay what they are.      *)
LEMMA EnvFixed ==
  ASSUME [Next]_vars
  PROVE  env' = env
BY DEF Next, Flush, vars, StartView, EndView, FillCache, ReadPage, BeginWriteTxn, ReadInTxn,
   WritePage, AbortWriteTxn, EnqueueJob, FinishCommit, TakeJob, WriteWAL, Invalidate, WritePrimary,
   WriteHeader, TruncateWAL, RevertOverlay, RevertStaged, StopFlusher, FailBatch, BeginClose,
   EndClose, StartBackup, CopyPage, CopyWAL, EndBackup

Fixed ==
  /\ env' = env /\ Pages' = Pages /\ Image' = Image /\ Job' = Job /\ Log' = Log /\ LockState' = LockState
  /\ FlusherState' = FlusherState /\ WriteTxn' = WriteTxn /\ Reading' = Reading /\ Backup' = Backup

(* No step changes the scenario, and so the types stay what they are.      *)
LEMMA TypesFixed ==
  ASSUME [Next]_vars
  PROVE  Fixed
BY EnvFixed DEF Fixed, Pages, Image, Job, Log, LockState, FlusherState, WriteTxn, Reading, Backup

(* The database starts with empty pages, no log, nobody at work.           *)
LEMMA TypeInit ==
  ASSUME Init
  PROVE  TypeOK
<1>1. env \in Scenarios /\ disk \in [Pages -> Image] /\ overlay \in [Pages -> Nat \cup {None}]
  BY DEF Init, Pages, Image
<1>2. wal \in Log /\ fl \in FlusherState
  BY DEF Init, Log, FlusherState, Job, EmptyWAL, IdleFlusher
<1>3. mu \in LockState /\ txn \in WriteTxn
  BY DEF Init, LockState, WriteTxn, NoTxn
<1>4. view \in [Reader -> Reading] /\ backup \in Backup
  BY DEF Init, Reading, NoView, None, Backup, NoBackup, EmptyWAL, Log
<1>5. committed \in [Pages -> Nat] /\ candidate \in [Pages -> Nat]
  BY DEF Init, Pages
<1>6. jobs \in Seq(Job) /\ failed \in SUBSET Nat /\ hdr \in Nat /\ staged \in Nat /\ done = "none" /\ closed = "no"
  BY DEF Init
<1>7. recoveryRequired \in BOOLEAN
  BY DEF Init
<1>. QED
  BY <1>1, <1>2, <1>3, <1>4, <1>5, <1>6, <1>7 DEF TypeOK

(* Every step keeps the types: those of the variables that it changes.     *)
LEMMA TypeStep ==
  ASSUME TypeOK, CacheRest, [Next]_vars
  PROVE  TypeOK'
<1>1. Fixed
  BY TypesFixed
<1>2. ASSUME NEW r \in Reader, StartView(r) PROVE TypeOK'
  <2>1. mu' \in LockState
    BY <1>2 DEF TypeOK, StartView, LockState, RLock
  <2>2. view' \in [Reader -> Reading]
    BY <1>2, ZenonT(60) DEF TypeOK, StartView, Reading
  <2>. QED
    BY <1>1, <1>2, <2>1, <2>2 DEF TypeOK, StartView, Fixed, fileVars, groupVars, histVars
<1>3. ASSUME NEW r \in Reader, EndView(r) PROVE TypeOK'
  <2>1. mu' \in LockState
    BY <1>3 DEF TypeOK, EndView, LockState, RUnlock
  <2>2. view' \in [Reader -> Reading]
    BY <1>3 DEF TypeOK, EndView, Reading, NoView, None, Image
  <2>. QED
    BY <1>1, <1>3, <2>1, <2>2 DEF TypeOK, EndView, Fixed, fileVars, groupVars, histVars
<1>4. ASSUME NEW r \in Reader, FillCache(r) PROVE TypeOK'
  <2>1. view' \in [Reader -> Reading]
    <3>1. [st |-> "open", page |-> 0, img |-> None, got |-> view[r].got] \in Reading
      BY DEF TypeOK, Reading
    <3>2. view[r] = [st |-> view[r].st, page |-> view[r].page, img |-> view[r].img, got |-> view[r].got]
      BY DEF TypeOK, Reading
    <3>3. view'[r] = [st |-> "open", page |-> 0, img |-> None, got |-> view[r].got]
      BY <1>4, <3>2 DEF TypeOK, FillCache
    <3>4. DOMAIN view' = Reader /\ view' = [q \in Reader |-> view'[q]] /\ \A q \in Reader : q # r => view'[q] = view[q]
      BY <1>4 DEF TypeOK, FillCache
    <3>. QED
      BY <3>1, <3>3, <3>4 DEF TypeOK
  <2>. QED
    BY <1>1, <1>4, <2>1 DEF TypeOK, FillCache, Fixed, fileVars, groupVars, histVars
<1>5. ASSUME NEW r \in Reader, NEW p \in env.pages, ReadPage(r, p) PROVE TypeOK'
  <2>1. view' \in [Reader -> Reading]
    <3>1. disk[p] \in Image /\ p \in Nat /\ p \in Pages
      BY PagesAre DEF TypeOK, Pages
    <3>2. overlay[p] # None => overlay[p] \in Image
      BY DEF TypeOK, Pages, Image
    <3>3. Cached(cache, p) => cache.ent[p].img \in Image
      BY <3>1 DEF CacheRest
    <3>4. CASE \E x \in Image : view' = [view EXCEPT ![r].got = <<p, x>>]
      <4>1. PICK x \in Image : view' = [view EXCEPT ![r].got = <<p, x>>]
        BY <3>4
      <4> DEFINE answer == <<p, x>>
      <4>2. view' = [view EXCEPT ![r].got = answer] /\ answer \in {<<>>} \cup (Pages \X Image)
        BY <3>1, <4>1
      <4> HIDE DEF answer
      <4>3. [view[r] EXCEPT !.got = answer] \in Reading
        <5>1. view[r] \in Reading
          BY DEF TypeOK
        <5>2. [view[r] EXCEPT !.got = answer] = [st |-> view[r].st, page |-> view[r].page, img |-> view[r].img, got |-> answer]
          BY <5>1 DEF Reading
        <5>3. view[r].st \in {"none", "open", "fill"} /\ view[r].page \in Nat /\ view[r].img \in Image \cup {None}
          BY <5>1 DEF Reading
        <5>. QED
          BY <4>2, <5>2, <5>3 DEF Reading
      <4>. QED
        BY <4>2, <4>3 DEF TypeOK
    <3>5. CASE view' = [view EXCEPT ![r] = [st |-> "fill", page |-> p, img |-> disk[p], got |-> <<p, disk[p]>>]]
      BY <3>1, <3>5 DEF TypeOK, Reading
    <3>. QED
      BY <1>5, <3>2, <3>3, <3>4, <3>5 DEF ReadPage
  <2>. QED
    BY <1>1, <1>5, <2>1 DEF TypeOK, ReadPage, Fixed, fileVars, groupVars, histVars
<1>6. ASSUME NEW k \in {"update", "maintenance"}, BeginWriteTxn(k) PROVE TypeOK'
  <2>1. mu' \in LockState
    BY <1>6 DEF TypeOK, BeginWriteTxn, LockState, Lock
  <2>2. txn' \in WriteTxn
    BY <1>6 DEF TypeOK, BeginWriteTxn, WriteTxn
  <2>. QED
    BY <1>1, <1>6, <2>1, <2>2 DEF TypeOK, BeginWriteTxn, Fixed, fileVars, groupVars, histVars
<1>7. ASSUME NEW p \in env.pages, ReadInTxn(p) PROVE TypeOK'
  BY <1>1, <1>7 DEF TypeOK, ReadInTxn, Fixed, fileVars, groupVars, histVars
<1>8. ASSUME NEW p \in env.pages, WritePage(p) PROVE TypeOK'
  <2>1. txn' \in WriteTxn
    <3>1. Append(txn.dirty, p) \in Seq(Pages)
      BY DEF TypeOK, WriteTxn, Pages
    <3>. QED
      BY <1>8, <3>1 DEF TypeOK, WritePage, WriteTxn
  <2>. QED
    BY <1>1, <1>8, <2>1 DEF TypeOK, WritePage, Fixed, fileVars, groupVars, histVars
<1>9. CASE AbortWriteTxn
  <2>1. mu' \in LockState
    BY <1>9 DEF TypeOK, AbortWriteTxn, LockState, Unlock
  <2>2. txn' \in WriteTxn
    BY <1>9 DEF TypeOK, AbortWriteTxn, WriteTxn
  <2>. QED
    BY <1>1, <1>9, <2>1, <2>2 DEF TypeOK, AbortWriteTxn, Fixed, fileVars, groupVars, histVars
<1>10. CASE EnqueueJob
  <2>1. overlay' \in [Pages -> Nat \cup {None}]
    BY <1>10 DEF TypeOK, EnqueueJob, WriteTxn, Pages
  <2>2. staged' \in Nat
    BY <1>10 DEF TypeOK, EnqueueJob, WriteTxn
  <2>3. jobs' \in Seq(Job)
    BY <1>10 DEF TypeOK, EnqueueJob, Job, WriteTxn
  <2>4. txn' \in WriteTxn
    BY <1>10 DEF TypeOK, EnqueueJob, WriteTxn
  <2>5. candidate' \in [Pages -> Nat]
    BY <1>10 DEF TypeOK, EnqueueJob, WriteTxn, Pages
  <2>. QED
    BY <1>1, <1>10, <2>1, <2>2, <2>3, <2>4, <2>5 DEF TypeOK, EnqueueJob, Fixed, fileVars, groupVars,
       histVars
<1>11. CASE FinishCommit
  <2>1. done' \in {"none", "ok", "error"}
    BY <1>11 DEF TypeOK, FinishCommit
  <2>2. txn' \in WriteTxn
    BY <1>11 DEF TypeOK, FinishCommit, WriteTxn
  <2>3. recoveryRequired' \in BOOLEAN
    BY <1>11 DEF TypeOK, FinishCommit
  <2>4. committed' \in [Pages -> Nat]
    BY <1>11 DEF TypeOK, FinishCommit
  <2>5. mu' \in LockState
    BY <1>11 DEF TypeOK, FinishCommit, LockState, Unlock
  <2>. QED
    BY <1>1, <1>11, <2>1, <2>2, <2>3, <2>4, <2>5 DEF TypeOK, FinishCommit, Fixed, fileVars,
       groupVars, histVars
<1>12. CASE TakeJob
  <2>1. fl' \in FlusherState
    BY <1>12 DEF TypeOK, TakeJob, FlusherState
  <2>2. jobs' \in Seq(Job)
    BY <1>12 DEF TypeOK, TakeJob
  <2>. QED
    BY <1>1, <1>12, <2>1, <2>2 DEF TypeOK, TakeJob, Fixed, fileVars, groupVars, histVars
<1>13. CASE WriteWAL
  <2>1. wal' \in Log
    BY <1>13, PagesAre DEF TypeOK, WriteWAL, Log, FlusherState, Job
  <2>2. fl' \in FlusherState
    BY <1>13 DEF TypeOK, WriteWAL, FlusherState
  <2>. QED
    BY <1>1, <1>13, <2>1, <2>2 DEF TypeOK, WriteWAL, Fixed, fileVars, groupVars, histVars
<1>14. CASE Invalidate
  <2>1. fl' \in FlusherState
    BY <1>14 DEF TypeOK, Invalidate, FlusherState
  <2>. QED
    BY <1>1, <1>14, <2>1 DEF TypeOK, Invalidate, Fixed, fileVars, groupVars, histVars
<1>15. CASE WritePrimary
  <2>1. disk' \in [Pages -> Image]
    BY <1>15 DEF TypeOK, WritePrimary, FlusherState, Job, Image
  <2>2. overlay' \in [Pages -> Nat \cup {None}]
    BY <1>15 DEF TypeOK, WritePrimary
  <2>3. fl' \in FlusherState
    <3> DEFINE t == IF fl.i = Len(fl.job.pages) THEN "header" ELSE "invalidate"
    <3>1. fl' = [st |-> t, job |-> fl.job, i |-> fl.i + 1]
      BY <1>15 DEF TypeOK, WritePrimary, FlusherState
    <3>2. fl.i + 1 \in Nat \ {0} /\ fl.job \in Job
      BY DEF TypeOK, FlusherState
    <3>. QED
      BY <3>1, <3>2 DEF FlusherState
  <2>. QED
    BY <1>1, <1>15, <2>1, <2>2, <2>3 DEF TypeOK, WritePrimary, Fixed, fileVars, groupVars, histVars
<1>16. CASE WriteHeader
  <2>1. hdr' \in Nat
    BY <1>16 DEF TypeOK, WriteHeader, FlusherState, Job
  <2>2. staged' \in Nat
    BY <1>16 DEF TypeOK, WriteHeader
  <2>3. fl' \in FlusherState
    BY <1>16 DEF TypeOK, WriteHeader, FlusherState
  <2>. QED
    BY <1>1, <1>16, <2>1, <2>2, <2>3 DEF TypeOK, WriteHeader, Fixed, fileVars, groupVars, histVars
<1>17. CASE TruncateWAL
  <2>1. done' \in {"none", "ok", "error"}
    BY <1>17 DEF TypeOK, TruncateWAL
  <2>2. fl' \in FlusherState
    BY <1>17 DEF TypeOK, TruncateWAL, FlusherState, IdleFlusher, Job
  <2>. QED
    BY <1>1, <1>17, <2>1, <2>2 DEF TypeOK, TruncateWAL, Fixed, fileVars, groupVars, histVars
<1>18. CASE RevertOverlay
  <2>1. overlay' \in [Pages -> Nat \cup {None}]
    BY <1>18 DEF TypeOK, RevertOverlay
  <2>2. fl' \in FlusherState
    <3>1. fl' = [st |-> fl.st, job |-> fl.job, i |-> fl.i + 1]
      BY <1>18 DEF TypeOK, RevertOverlay, FlusherState
    <3>2. fl.i + 1 \in Nat \ {0} /\ fl.job \in Job
      BY DEF TypeOK, FlusherState
    <3>. QED
      BY <1>18, <3>1, <3>2 DEF FlusherState, RevertOverlay
  <2>. QED
    BY <1>1, <1>18, <2>1, <2>2 DEF TypeOK, RevertOverlay, Fixed, fileVars, groupVars, histVars
<1>19. CASE RevertStaged
  <2>1. staged' \in Nat
    BY <1>19 DEF TypeOK, RevertStaged
  <2>2. fl' \in FlusherState
    BY <1>19 DEF TypeOK, RevertStaged, FlusherState, IdleFlusher, Job
  <2>. QED
    BY <1>1, <1>19, <2>1, <2>2 DEF TypeOK, RevertStaged, Fixed, fileVars, groupVars, histVars
<1>20. CASE StopFlusher
  <2>1. fl' \in FlusherState
    <3>1. fl' = [st |-> "stopped", job |-> [no |-> 0, pages |-> <<>>], i |-> 1]
      BY <1>20 DEF StopFlusher, IdleFlusher
    <3>. QED
      BY <3>1 DEF FlusherState, Job
  <2>. QED
    BY <1>1, <1>20, <2>1 DEF TypeOK, StopFlusher, Fixed, fileVars, groupVars, histVars
<1>21. CASE FailBatch
  <2>1. wal' \in Log
    <3>1. CASE wal' = wal
      BY <3>1 DEF TypeOK
    <3>2. CASE fl.st = "wal"
      <4>1. PICK k \in 0..Len(fl.job.pages), torn \in BOOLEAN, marked \in BOOLEAN : Appended(k, torn, marked)
        BY <1>21, <3>2 DEF FailBatch, Partial
      <4>2. fl.job.no \in Nat /\ fl.job.pages \in Seq(Pages)
        BY DEF TypeOK, FlusherState, Job
      <4>3. SubSeq(fl.job.pages, 1, k) \in Seq(Pages)
        BY <4>2
      <4>4. [no |-> fl.job.no, pages |-> SubSeq(fl.job.pages, 1, k), torn |-> torn, marked |-> marked] \in Log
        BY <4>2, <4>3 DEF Log
      <4>. QED
        BY <4>1, <4>4 DEF Appended, TypeOK
    <3>. QED
      BY <1>21, <3>1, <3>2 DEF FailBatch, Partial, fileVars
  <2>2. disk' \in [Pages -> Image]
    <3>1. fl.job.no \in Nat /\ fl.job.pages \in Seq(Pages)
      BY DEF TypeOK, FlusherState, Job
    <3>2. CASE disk' = disk
      BY <3>2 DEF TypeOK
    <3>3. CASE fl.st = "write"
      <4>1. PICK x \in {disk[fl.job.pages[fl.i]], Torn, fl.job.no} : disk' = [disk EXCEPT ![fl.job.pages[fl.i]] = x]
        BY <1>21, <3>3 DEF FailBatch, Partial
      <4>2. CASE fl.job.pages[fl.i] \in Pages
        <5>1. x \in Image
          BY <3>1, <4>1, <4>2 DEF TypeOK, Image
        <5>. QED
          BY <4>1, <5>1 DEF TypeOK
      <4>3. CASE fl.job.pages[fl.i] \notin Pages
        BY <4>1, <4>3 DEF TypeOK
      <4>. QED
        BY <4>2, <4>3
    <3>. QED
      BY <1>21, <3>2, <3>3 DEF FailBatch, Partial, fileVars
  <2>3. hdr' \in Nat
    BY <1>21 DEF TypeOK, FailBatch, Partial, fileVars, FlusherState, Job
  <2>4. failed' \in SUBSET Nat
    BY <1>21 DEF TypeOK, FailBatch, FlusherState, Job
  <2>5. done' \in {"none", "ok", "error"}
    BY <1>21 DEF TypeOK, FailBatch
  <2>6. fl' \in FlusherState
    <3>1. fl' = [st |-> "revert", job |-> fl.job, i |-> 1]
      BY <1>21 DEF TypeOK, FailBatch, FlusherState
    <3>. QED
      BY <3>1 DEF TypeOK, FlusherState
  <2>. QED
    BY <1>1, <1>21, <2>1, <2>2, <2>3, <2>4, <2>5, <2>6 DEF TypeOK, FailBatch, Fixed, fileVars,
       groupVars, histVars
<1>22. CASE BeginClose
  <2>1. mu' \in LockState
    BY <1>22 DEF TypeOK, BeginClose, LockState, Lock
  <2>2. closed' \in {"no", "stopping", "yes"}
    BY <1>22 DEF TypeOK, BeginClose
  <2>. QED
    BY <1>1, <1>22, <2>1, <2>2 DEF TypeOK, BeginClose, Fixed, fileVars, groupVars, histVars
<1>23. CASE EndClose
  <2>1. mu' \in LockState
    BY <1>23 DEF TypeOK, EndClose, LockState, Unlock
  <2>2. closed' \in {"no", "stopping", "yes"}
    BY <1>23 DEF TypeOK, EndClose
  <2>. QED
    BY <1>1, <1>23, <2>1, <2>2 DEF TypeOK, EndClose, Fixed, fileVars, groupVars, histVars
<1>24. CASE StartBackup
  <2>1. mu' \in LockState
    BY <1>24 DEF TypeOK, StartBackup, LockState, RLock
  <2>2. backup' \in Backup
    <3>1. backup' = [st |-> "copying", pages |-> <<>>, hdr |-> hdr, wal |-> EmptyWAL]
      BY <1>24 DEF StartBackup, NoBackup
    <3>. QED
      BY <3>1 DEF TypeOK, Backup, EmptyWAL, Log
  <2>. QED
    BY <1>1, <1>24, <2>1, <2>2 DEF TypeOK, StartBackup, Fixed, fileVars, groupVars, histVars
<1>25. CASE CopyPage
  <2>1. backup' \in Backup
    <3>1. Len(backup.pages) + 1 \in Pages /\ backup.pages \in Seq(Image)
      BY <1>25, PagesAre DEF CopyPage, TypeOK, Backup, Pages
    <3>2. Append(backup.pages, disk[Len(backup.pages) + 1]) \in Seq(Image)
      BY <3>1 DEF TypeOK
    <3>. QED
      BY <1>25, <3>2 DEF CopyPage, TypeOK, Backup
  <2>. QED
    BY <1>1, <1>25, <2>1 DEF TypeOK, CopyPage, Fixed, fileVars, groupVars, histVars
<1>26. CASE CopyWAL
  <2>1. backup' \in Backup
    BY <1>26 DEF TypeOK, CopyWAL, Backup
  <2>. QED
    BY <1>1, <1>26, <2>1 DEF TypeOK, CopyWAL, Fixed, fileVars, groupVars, histVars
<1>27. CASE EndBackup
  <2>1. mu' \in LockState
    BY <1>27 DEF TypeOK, EndBackup, LockState, RUnlock
  <2>2. backup' \in Backup
    BY <1>27 DEF TypeOK, EndBackup, Backup, NoBackup, EmptyWAL, Log
  <2>. QED
    BY <1>1, <1>27, <2>1, <2>2 DEF TypeOK, EndBackup, Fixed, fileVars, groupVars, histVars
<1>28. CASE UNCHANGED vars
  BY <1>1, <1>28 DEF TypeOK, Fixed, vars, fileVars, groupVars, histVars
<1>29. QED
  BY <1>2, <1>3, <1>4, <1>5, <1>6, <1>7, <1>8, <1>9, <1>10, <1>11, <1>12, <1>13, <1>14, <1>15,
     <1>16, <1>17, <1>18, <1>19, <1>20, <1>21, <1>22, <1>23, <1>24, <1>25, <1>26, <1>27, <1>28 DEF
     Next, Flush

(* An empty shard is at rest.                                              *)
LEMMA CacheInit ==
  ASSUME Init
  PROVE  CacheRest
BY NewShardRests DEF Init, CacheRest, NoView

(* Get, set and invalidate, in whatever order the readers, the write       *)
(* transaction and the flusher call them, leave the shard at rest.         *)
LEMMA CacheStep ==
  ASSUME TypeOK, CacheRest, [Next]_vars
  PROVE  CacheRest'
<1>1. Fixed
  BY TypesFixed
<1>2. ASSUME NEW r \in Reader, StartView(r) PROVE CacheRest'
  BY <1>2, <1>1 DEF StartView, TypeOK, Reading, CacheRest, Fixed, fileVars, groupVars, histVars
<1>3. ASSUME NEW r \in Reader, EndView(r) PROVE CacheRest'
  BY <1>3, <1>1 DEF EndView, TypeOK, Reading, NoView, CacheRest, Fixed, fileVars, groupVars, histVars
<1>4. ASSUME NEW r \in Reader, FillCache(r) PROVE CacheRest'
  <2>1. CASE view[r].img = Torn
    BY <1>4, <1>1, <2>1 DEF FillCache, TypeOK, Reading, CacheRest, Fixed, fileVars, groupVars, histVars
  <2>2. CASE view[r].img # Torn
    <3>1. /\ view[r].page \in Page /\ view[r].img \in Int /\ view[r].img \in Image
          /\ cache' = CacheSet(cache, view[r].page, view[r].img)
      BY <1>4, <2>2, PagesAre DEF FillCache, CacheRest, Image, Torn
    <3>2. Rest(cache') /\ \A q \in Pages : Cached(cache', q) => cache'.ent[q].img \in Image
      BY <3>1, SetRests DEF CacheRest
    <3>3. \A q \in Reader : view'[q].st = "fill" => view[q].st = "fill" /\ view'[q] = view[q]
      BY <1>4 DEF FillCache, TypeOK, Reading
    <3>. QED
      BY <1>1, <3>2, <3>3 DEF CacheRest, Fixed
  <2>. QED
    BY <2>1, <2>2
<1>5. ASSUME NEW r \in Reader, NEW p \in env.pages, ReadPage(r, p) PROVE CacheRest'
  <2>1. p \in Pages /\ disk[p] \in Image
    BY DEF TypeOK, Pages
  <2>2. Rest(cache') /\ \A q \in Pages : Cached(cache', q) => cache'.ent[q].img \in Image
    BY <1>5, <2>1, GetRests DEF ReadPage, CacheRest
  <2>3. ASSUME NEW q \in Reader, view'[q].st = "fill"
        PROVE  view'[q].page \in Pages /\ view'[q].img \in Image
    <3>1. CASE view[q].st = "fill" /\ view'[q].page = view[q].page /\ view'[q].img = view[q].img
      BY <3>1 DEF CacheRest
    <3>2. CASE q = r
      <4>1. CASE \E x : view' = [view EXCEPT ![r].got = <<p, x>>]
        <5>1. view'[r].st = view[r].st
          BY <4>1 DEF TypeOK, Reading
        <5>. QED
          BY <1>5, <2>3, <3>2, <5>1 DEF ReadPage
      <4>2. CASE view' = [view EXCEPT ![r] = [st |-> "fill", page |-> p, img |-> disk[p], got |-> <<p, disk[p]>>]]
        BY <2>1, <3>2, <4>2 DEF TypeOK
      <4>. QED
        BY <1>5, <4>1, <4>2 DEF ReadPage
    <3>3. CASE q # r
      BY <1>5, <2>3, <3>1, <3>3 DEF ReadPage, TypeOK, Reading
    <3>. QED
      BY <3>2, <3>3
  <2>. QED
    BY <1>1, <2>2, <2>3 DEF CacheRest, Fixed
<1>6. ASSUME NEW p \in env.pages, ReadInTxn(p) PROVE CacheRest'
  <2>1. p \in Pages /\ p \in Page /\ disk[p] \in Image /\ (disk[p] # Torn => disk[p] \in Int)
    BY PagesAre DEF TypeOK, Pages, Image
  <2>2. Rest(cache') /\ \A q \in Pages : Cached(cache', q) => cache'.ent[q].img \in Image
    BY <1>6, <2>1, GetRests, SetRests DEF ReadInTxn, CacheRest
  <2>. QED
    BY <1>6, <1>1, <2>2 DEF ReadInTxn, CacheRest, Fixed
<1>7. CASE Invalidate
  <2>1. Rest(cache') /\ \A q \in Pages : Cached(cache', q) => cache'.ent[q].img \in Image
    BY <1>7, DelRests DEF Invalidate, Invalidated, CacheRest
  <2>. QED
    BY <1>7, <1>1, <2>1 DEF Invalidate, CacheRest, Fixed
<1>8. CASE BeginClose
  BY <1>8, <1>1, NewShardRests DEF BeginClose, CacheRest, Fixed
<1>9. ASSUME NEW k \in {"update", "maintenance"}, BeginWriteTxn(k) PROVE CacheRest'
  BY <1>9, <1>1 DEF BeginWriteTxn, CacheRest, Fixed, fileVars, groupVars, histVars
<1>10. ASSUME NEW p \in env.pages, WritePage(p) PROVE CacheRest'
  BY <1>10, <1>1 DEF WritePage, CacheRest, Fixed, fileVars, groupVars, histVars
<1>11. CASE AbortWriteTxn \/ EnqueueJob \/ FinishCommit \/ TakeJob \/ WriteWAL \/ WritePrimary \/
     WriteHeader \/ TruncateWAL \/ RevertOverlay \/ RevertStaged \/ StopFlusher \/ FailBatch \/
     EndClose \/ StartBackup \/ CopyPage \/ CopyWAL \/ EndBackup
  BY <1>11, <1>1 DEF AbortWriteTxn, EnqueueJob, FinishCommit, TakeJob, WriteWAL, WritePrimary,
     WriteHeader, TruncateWAL, RevertOverlay, RevertStaged, StopFlusher, FailBatch, EndClose,
     StartBackup, CopyPage, CopyWAL, EndBackup, CacheRest, Fixed, fileVars, groupVars, histVars
<1>12. CASE UNCHANGED vars
  BY <1>12, <1>1 DEF vars, CacheRest, Fixed, fileVars, groupVars, histVars
<1>13. QED
  BY <1>2, <1>3, <1>4, <1>5, <1>6, <1>7, <1>8, <1>9, <1>10, <1>11, <1>12 DEF Next, Flush

-----------------------------------------------------------------------------
(* DB.mu and the pipeline.                                                 *)

(* Nobody holds DB.mu at first.                                            *)
LEMMA LockedInit ==
  ASSUME Init
  PROVE  Locked
BY DEF Init, Locked, NoTxn, NoView, NoBackup

(* DB.mu: whoever writes or closes is alone.                               *)
LEMMA LockedStep ==
  ASSUME TypeOK, Locked, [Next]_vars
  PROVE  Locked'
<1>1. ASSUME NEW r \in Reader, StartView(r) PROVE Locked'
  BY <1>1, PageStoreAssumption DEF StartView, TypeOK, LockState, WriteTxn, Reading, Backup, Locked,
     RLock, RLockable, fileVars, groupVars, histVars
<1>2. ASSUME NEW r \in Reader, EndView(r) PROVE Locked'
  BY <1>2, PageStoreAssumption DEF EndView, TypeOK, LockState, WriteTxn, Reading, Backup, Locked,
     RUnlock, NoView, fileVars, groupVars, histVars
<1>3. ASSUME NEW r \in Reader, FillCache(r) PROVE Locked'
  BY <1>3, PageStoreAssumption DEF FillCache, TypeOK, LockState, WriteTxn, Reading, Backup, Locked,
     fileVars, groupVars, histVars
<1>4. ASSUME NEW r \in Reader, NEW p \in env.pages, ReadPage(r, p) PROVE Locked'
  BY <1>4, PageStoreAssumption, ZenonT(60) DEF ReadPage, TypeOK, LockState, WriteTxn, Reading, Backup, Locked,
     fileVars, groupVars, histVars
<1>5. ASSUME NEW k \in {"update", "maintenance"}, BeginWriteTxn(k) PROVE Locked'
  BY <1>5, PageStoreAssumption DEF BeginWriteTxn, TypeOK, LockState, WriteTxn, Reading, Backup,
     Locked, Lock, Lockable, fileVars, groupVars, histVars
<1>6. ASSUME NEW p \in env.pages, WritePage(p) PROVE Locked'
  BY <1>6, PageStoreAssumption DEF WritePage, TypeOK, LockState, WriteTxn, Reading, Backup, Locked,
     fileVars, groupVars, histVars
<1>7. CASE AbortWriteTxn
  BY <1>7, PageStoreAssumption DEF AbortWriteTxn, TypeOK, LockState, WriteTxn, Reading, Backup,
     Locked, Unlock, fileVars, groupVars, histVars
<1>8. CASE EnqueueJob
  BY <1>8, PageStoreAssumption DEF EnqueueJob, TypeOK, LockState, WriteTxn, Reading, Backup, Locked,
     fileVars, groupVars, histVars
<1>9. CASE FinishCommit
  BY <1>9, PageStoreAssumption DEF FinishCommit, TypeOK, LockState, WriteTxn, Reading, Backup,
     Locked, Unlock, fileVars, groupVars, histVars
<1>10. CASE BeginClose
  BY <1>10, PageStoreAssumption DEF BeginClose, TypeOK, LockState, WriteTxn, Reading, Backup,
     Locked, Lock, Lockable, fileVars, groupVars, histVars
<1>11. CASE EndClose
  BY <1>11, PageStoreAssumption DEF EndClose, TypeOK, LockState, WriteTxn, Reading, Backup, Locked,
     Unlock, fileVars, groupVars, histVars
<1>12. CASE StartBackup
  BY <1>12, PageStoreAssumption DEF StartBackup, TypeOK, LockState, WriteTxn, Reading, Backup,
     Locked, RLock, RLockable, NoBackup, fileVars, groupVars, histVars
<1>13. CASE CopyPage
  BY <1>13, PageStoreAssumption DEF CopyPage, TypeOK, LockState, WriteTxn, Reading, Backup, Locked,
     fileVars, groupVars, histVars
<1>14. CASE CopyWAL
  BY <1>14, PageStoreAssumption DEF CopyWAL, TypeOK, LockState, WriteTxn, Reading, Backup, Locked,
     fileVars, groupVars, histVars
<1>15. CASE EndBackup
  BY <1>15, PageStoreAssumption DEF EndBackup, TypeOK, LockState, WriteTxn, Reading, Backup, Locked,
     RUnlock, NoBackup, fileVars, groupVars, histVars
<1>16. ASSUME NEW p \in env.pages, ReadInTxn(p) PROVE Locked'
  BY <1>16 DEF ReadInTxn, Locked, fileVars, groupVars, histVars
<1>17. CASE TakeJob \/ WriteWAL \/ Invalidate \/ WritePrimary \/ WriteHeader \/ TruncateWAL \/
     RevertOverlay \/ RevertStaged \/ StopFlusher \/ FailBatch
  BY <1>17 DEF TakeJob, WriteWAL, Invalidate, WritePrimary, WriteHeader, TruncateWAL, RevertOverlay,
     RevertStaged, StopFlusher, FailBatch, Locked, fileVars, groupVars, histVars
<1>18. CASE UNCHANGED vars
  BY <1>18 DEF vars, Locked, fileVars, groupVars, histVars
<1>19. QED
  BY <1>1, <1>2, <1>3, <1>4, <1>5, <1>6, <1>7, <1>8, <1>9, <1>10, <1>11, <1>12, <1>13, <1>14, <1>15,
     <1>16, <1>17, <1>18 DEF Next, Flush

(* The pipeline is empty at first.                                         *)
LEMMA PipelineInit ==
  ASSUME Init
  PROVE  Pipeline
BY DEF Init, Pipeline, InFlight, NoTxn, IdleFlusher

(* One job at most: in the channel, with the flusher, or answered.         *)
LEMMA PipelineStep ==
  ASSUME TypeOK, Locked, Pipeline, [Next]_vars
  PROVE  Pipeline'
<1>1. txn \in WriteTxn /\ fl \in FlusherState /\ jobs \in Seq(Job)
  BY DEF TypeOK
<1>2. mu.writer <=> txn.st # "none" \/ closed = "stopping"
  BY DEF Locked
<1>3. ASSUME NEW k \in {"update", "maintenance"}, BeginWriteTxn(k) PROVE Pipeline'
  BY <1>3, <1>1, <1>2 DEF BeginWriteTxn, WriteTxn, FlusherState, Job, Locked, Pipeline, InFlight,
     JobOfTxn, Lock, Lockable, fileVars, groupVars, histVars
<1>4. ASSUME NEW p \in env.pages, WritePage(p) PROVE Pipeline'
  BY <1>4, <1>1, <1>2 DEF WritePage, WriteTxn, FlusherState, Job, Locked, Pipeline, InFlight,
     JobOfTxn, fileVars, groupVars, histVars
<1>5. CASE AbortWriteTxn
  BY <1>5, <1>1, <1>2 DEF AbortWriteTxn, WriteTxn, FlusherState, Job, Locked, Pipeline, InFlight,
     JobOfTxn, fileVars, groupVars, histVars
<1>6. CASE EnqueueJob
  <2>1. jobs = <<>> /\ ~InFlight /\ done = "none" /\ fl.st # "stopped" /\ txn.dirty # <<>>
    BY <1>6, <1>1 DEF EnqueueJob, Pipeline, WriteTxn, FlusherState, InFlight
  <2>2. txn' = [txn EXCEPT !.st = "wait"] /\ JobOfTxn' = JobOfTxn
    BY <1>6, <1>1 DEF EnqueueJob, JobOfTxn, WriteTxn
  <2>3. jobs' = <<JobOfTxn>>
    BY <1>6, <2>1 DEF EnqueueJob, JobOfTxn
  <2>4. fl' = fl /\ done' = done /\ closed' = closed /\ closed = "no" /\ txn'.st = "wait" /\ txn'.dirty = txn.dirty
    BY <1>6, <1>1, <2>2 DEF EnqueueJob, WriteTxn, Pipeline
  <2>5. fl.st \in {"idle", "revert"}
    BY <1>1, <2>1 DEF FlusherState, InFlight
  <2>. QED
    BY <2>1, <2>2, <2>3, <2>4, <2>5 DEF Pipeline, InFlight
<1>7. CASE FinishCommit
  BY <1>7, <1>1, <1>2 DEF FinishCommit, WriteTxn, FlusherState, Job, Locked, Pipeline, InFlight,
     JobOfTxn, fileVars, groupVars, histVars
<1>8. CASE TakeJob
  <2>1. jobs = <<JobOfTxn>> /\ txn.st = "wait" /\ done = "none" /\ fl.st = "idle" /\ txn.dirty # <<>>
    BY <1>8 DEF TakeJob, Pipeline
  <2>2. Head(jobs) = JobOfTxn /\ Tail(jobs) = <<>>
    BY <2>1
  <2>3. txn' = txn /\ JobOfTxn' = JobOfTxn /\ done' = done /\ closed' = closed /\ jobs' = <<>>
    BY <1>8, <2>2 DEF TakeJob, JobOfTxn
  <2>4. fl' = [st |-> "wal", job |-> JobOfTxn, i |-> 1]
    BY <1>8, <2>2 DEF TakeJob
  <2>5. JobOfTxn.pages = txn.dirty /\ Len(txn.dirty) \in Nat /\ 1 <= Len(txn.dirty)
    BY <1>1, <2>1 DEF JobOfTxn, WriteTxn
  <2>. QED
    BY <2>1, <2>3, <2>4, <2>5 DEF Pipeline, InFlight
<1>9. CASE WriteWAL
  BY <1>9, <1>1, <1>2 DEF WriteWAL, WriteTxn, FlusherState, Job, Locked, Pipeline, InFlight,
     JobOfTxn, fileVars, groupVars, histVars
<1>10. CASE Invalidate
  BY <1>10, <1>1, <1>2 DEF Invalidate, WriteTxn, FlusherState, Job, Locked, Pipeline, InFlight,
     JobOfTxn, fileVars, groupVars, histVars
<1>11. CASE WritePrimary
  BY <1>11, <1>1, <1>2 DEF WritePrimary, WriteTxn, FlusherState, Job, Locked, Pipeline, InFlight,
     JobOfTxn, fileVars, groupVars, histVars
<1>12. CASE WriteHeader
  BY <1>12, <1>1, <1>2 DEF WriteHeader, WriteTxn, FlusherState, Job, Locked, Pipeline, InFlight,
     JobOfTxn, fileVars, groupVars, histVars
<1>13. CASE TruncateWAL
  BY <1>13, <1>1, <1>2 DEF TruncateWAL, WriteTxn, FlusherState, Job, Locked, Pipeline, InFlight,
     JobOfTxn, IdleFlusher, fileVars, groupVars, histVars
<1>14. CASE RevertOverlay
  BY <1>14, <1>1, <1>2 DEF RevertOverlay, WriteTxn, FlusherState, Job, Locked, Pipeline, InFlight,
     JobOfTxn, fileVars, groupVars, histVars
<1>15. CASE RevertStaged
  BY <1>15, <1>1, <1>2 DEF RevertStaged, WriteTxn, FlusherState, Job, Locked, Pipeline, InFlight,
     JobOfTxn, IdleFlusher, fileVars, groupVars, histVars
<1>16. CASE StopFlusher
  BY <1>16, <1>1, <1>2 DEF StopFlusher, WriteTxn, FlusherState, Job, Locked, Pipeline, InFlight,
     JobOfTxn, IdleFlusher, fileVars, groupVars, histVars
<1>17. CASE FailBatch
  BY <1>17, <1>1, <1>2 DEF FailBatch, WriteTxn, FlusherState, Job, Locked, Pipeline, InFlight,
     JobOfTxn, fileVars, groupVars, histVars
<1>18. CASE BeginClose
  BY <1>18, <1>1, <1>2 DEF BeginClose, WriteTxn, FlusherState, Job, Locked, Pipeline, InFlight,
     JobOfTxn, Lock, Lockable, fileVars, groupVars, histVars
<1>19. CASE EndClose
  BY <1>19, <1>1, <1>2 DEF EndClose, WriteTxn, FlusherState, Job, Locked, Pipeline, InFlight,
     JobOfTxn, fileVars, groupVars, histVars
<1>20. ASSUME NEW r \in Reader, StartView(r) \/ EndView(r) \/ FillCache(r) PROVE Pipeline'
  BY <1>20 DEF StartView, EndView, FillCache, Pipeline, InFlight, JobOfTxn, fileVars, groupVars, histVars
<1>21. ASSUME NEW r \in Reader, NEW p \in env.pages, ReadPage(r, p) PROVE Pipeline'
  BY <1>21 DEF ReadPage, Pipeline, InFlight, JobOfTxn, fileVars, groupVars, histVars
<1>22. ASSUME NEW p \in env.pages, ReadInTxn(p) PROVE Pipeline'
  BY <1>22 DEF ReadInTxn, Pipeline, InFlight, JobOfTxn, fileVars, groupVars, histVars
<1>23. CASE StartBackup \/ CopyPage \/ CopyWAL \/ EndBackup
  BY <1>23 DEF StartBackup, CopyPage, CopyWAL, EndBackup, Pipeline, InFlight, JobOfTxn, fileVars,
     groupVars, histVars
<1>24. CASE UNCHANGED vars
  BY <1>24 DEF vars, Pipeline, InFlight, JobOfTxn, fileVars, groupVars, histVars
<1>25. QED
  BY <1>3, <1>4, <1>5, <1>6, <1>7, <1>8, <1>9, <1>10, <1>11, <1>12, <1>13, <1>14, <1>15, <1>16,
     <1>17, <1>18, <1>19, <1>20, <1>21, <1>22, <1>23, <1>24 DEF Next, Flush

(* Nothing failed at first.                                                *)
LEMMA FailuresInit ==
  ASSUME Init
  PROVE  Failures
BY DEF Init, Failures, NoTxn, IdleFlusher

(* A transaction fails at most once, and its waiter is told.               *)
LEMMA FailuresStep ==
  ASSUME TypeOK, Pipeline, Failures, [Next]_vars
  PROVE  Failures'
<1>1. txn \in WriteTxn /\ fl \in FlusherState /\ failed \in SUBSET Nat
  BY DEF TypeOK
<1>2. ASSUME NEW k \in {"update", "maintenance"}, BeginWriteTxn(k) PROVE Failures'
  BY <1>2, <1>1 DEF BeginWriteTxn, WriteTxn, FlusherState, Job, Failures, Pipeline, InFlight,
     JobOfTxn, fileVars, groupVars, histVars
<1>3. ASSUME NEW p \in env.pages, WritePage(p) PROVE Failures'
  BY <1>3, <1>1 DEF WritePage, WriteTxn, FlusherState, Job, Failures, Pipeline, InFlight, JobOfTxn,
     fileVars, groupVars, histVars
<1>4. CASE AbortWriteTxn
  BY <1>4, <1>1 DEF AbortWriteTxn, WriteTxn, FlusherState, Job, Failures, Pipeline, InFlight,
     JobOfTxn, fileVars, groupVars, histVars
<1>5. CASE EnqueueJob
  BY <1>5, <1>1 DEF EnqueueJob, WriteTxn, FlusherState, Job, Failures, Pipeline, InFlight, JobOfTxn,
     fileVars, groupVars, histVars
<1>6. CASE FinishCommit
  BY <1>6, <1>1 DEF FinishCommit, WriteTxn, FlusherState, Job, Failures, Pipeline, InFlight,
     JobOfTxn, fileVars, groupVars, histVars
<1>7. CASE TakeJob
  BY <1>7, <1>1 DEF TakeJob, WriteTxn, FlusherState, Job, Failures, Pipeline, InFlight, JobOfTxn,
     fileVars, groupVars, histVars
<1>8. CASE WriteWAL
  BY <1>8, <1>1 DEF WriteWAL, WriteTxn, FlusherState, Job, Failures, Pipeline, InFlight, JobOfTxn,
     fileVars, groupVars, histVars
<1>9. CASE Invalidate
  BY <1>9, <1>1 DEF Invalidate, WriteTxn, FlusherState, Job, Failures, Pipeline, InFlight, JobOfTxn,
     fileVars, groupVars, histVars
<1>10. CASE WritePrimary
  BY <1>10, <1>1 DEF WritePrimary, WriteTxn, FlusherState, Job, Failures, Pipeline, InFlight,
     JobOfTxn, fileVars, groupVars, histVars
<1>11. CASE WriteHeader
  BY <1>11, <1>1 DEF WriteHeader, WriteTxn, FlusherState, Job, Failures, Pipeline, InFlight,
     JobOfTxn, fileVars, groupVars, histVars
<1>12. CASE TruncateWAL
  BY <1>12, <1>1 DEF TruncateWAL, WriteTxn, FlusherState, Job, Failures, Pipeline, InFlight,
     JobOfTxn, IdleFlusher, fileVars, groupVars, histVars
<1>13. CASE RevertOverlay
  BY <1>13, <1>1 DEF RevertOverlay, WriteTxn, FlusherState, Job, Failures, Pipeline, InFlight,
     JobOfTxn, fileVars, groupVars, histVars
<1>14. CASE RevertStaged
  BY <1>14, <1>1 DEF RevertStaged, WriteTxn, FlusherState, Job, Failures, Pipeline, InFlight,
     JobOfTxn, IdleFlusher, fileVars, groupVars, histVars
<1>15. CASE StopFlusher
  BY <1>15, <1>1 DEF StopFlusher, WriteTxn, FlusherState, Job, Failures, Pipeline, InFlight,
     JobOfTxn, IdleFlusher, fileVars, groupVars, histVars
<1>16. CASE FailBatch
  BY <1>16, <1>1 DEF FailBatch, WriteTxn, FlusherState, Job, Failures, Pipeline, InFlight, JobOfTxn,
     fileVars, groupVars, histVars
<1>17. ASSUME NEW r \in Reader, StartView(r) \/ EndView(r) \/ FillCache(r) PROVE Failures'
  BY <1>17 DEF StartView, EndView, FillCache, Failures, fileVars, groupVars, histVars
<1>18. ASSUME NEW r \in Reader, NEW p \in env.pages, ReadPage(r, p) PROVE Failures'
  BY <1>18 DEF ReadPage, Failures, fileVars, groupVars, histVars
<1>19. ASSUME NEW p \in env.pages, ReadInTxn(p) PROVE Failures'
  BY <1>19 DEF ReadInTxn, Failures, fileVars, groupVars, histVars
<1>20. CASE BeginClose \/ EndClose \/ StartBackup \/ CopyPage \/ CopyWAL \/ EndBackup
  BY <1>20 DEF BeginClose, EndClose, StartBackup, CopyPage, CopyWAL, EndBackup, Failures, fileVars,
     groupVars, histVars
<1>21. CASE UNCHANGED vars
  BY <1>21 DEF vars, Failures, fileVars, groupVars, histVars
<1>22. QED
  BY <1>2, <1>3, <1>4, <1>5, <1>6, <1>7, <1>8, <1>9, <1>10, <1>11, <1>12, <1>13, <1>14, <1>15,
     <1>16, <1>17, <1>18, <1>19, <1>20, <1>21 DEF Next, Flush

-----------------------------------------------------------------------------
(* The page cache.                                                         *)

(* The cache is empty at first.                                            *)
LEMMA CacheExactInit ==
  ASSUME Init
  PROVE  CacheExact
BY NewShardRests DEF Init, CacheExact, IdleFlusher, NoView

(* The writer's exclusive lock is held until its job is done, and so the   *)
(* readers are out.                                                        *)
LEMMA ReadersOut ==
  ASSUME TypeOK, Locked, Pipeline, txn.st # "none"
  PROVE  mu.readers = {} /\ backup.st = "none" /\ \A r \in Reader : view[r].st = "none"
<1>1. mu.readers = {}
  BY DEF Locked
<1>. QED
  BY <1>1 DEF Locked

(* A page is not in the cache while the flusher writes it, and no reader is *)
(* between reading a page and caching it.                                  *)
LEMMA CacheExactStep ==
  ASSUME TypeOK, CacheRest, Locked, Pipeline, CacheExact, [Next]_vars
  PROVE  CacheExact'
<1>1. Fixed
  BY TypesFixed
<1>2. fl.st = "write" => txn.st = "wait" /\ \A r \in Reader : view[r].st = "none"
  BY ReadersOut DEF InFlight, Pipeline
<1>3. fl \in FlusherState /\ view \in [Reader -> Reading] /\ disk \in [Pages -> Image]
  BY DEF TypeOK
<1>4. InFlight => \A r \in Reader : view[r].st = "none"
  BY ReadersOut DEF Pipeline
<1>5. ASSUME NEW r \in Reader, StartView(r) PROVE CacheExact'
  BY <1>5, <1>1, <1>2, <1>3, <1>4 DEF StartView, FlusherState, Reading, CacheExact, Fixed, RLock,
     fileVars, groupVars, histVars
<1>6. ASSUME NEW r \in Reader, EndView(r) PROVE CacheExact'
  BY <1>6, <1>1, <1>2, <1>3, <1>4 DEF EndView, FlusherState, Reading, CacheExact, Fixed, NoView,
     fileVars, groupVars, histVars
<1>7. ASSUME NEW r \in Reader, FillCache(r) PROVE CacheExact'
  <2>1. fl.st # "write" /\ fl' = fl /\ disk' = disk
    BY <1>7, <1>2 DEF FillCache, fileVars, groupVars
  <2>2. \A q \in Reader : view'[q].st = "fill" => view[q].st = "fill" /\ view'[q] = view[q]
    BY <1>7, <1>3 DEF FillCache, Reading
  <2>3. view[r].page \in Page /\ view[r].img = disk[view[r].page] /\ view[r].page \in Pages
    BY <1>7, PagesAre DEF FillCache, CacheExact
  <2>4. ASSUME NEW q \in Pages, Cached(cache', q) PROVE cache'.ent[q].img = disk[q]
    <3>1. CASE view[r].img = Torn
      BY <1>7, <2>4, <3>1 DEF FillCache, CacheExact
    <3>2. CASE view[r].img # Torn
      <4>1. view[r].img \in Int /\ cache' = CacheSet(cache, view[r].page, view[r].img)
        BY <1>7, <1>3, <2>3, <3>2 DEF FillCache, TypeOK, Image, Torn
      <4>2. /\ q = view[r].page => cache'.ent[q].img = view[r].img
            /\ q # view[r].page => Cached(cache, q) /\ cache'.ent[q].img = cache.ent[q].img
        BY <2>3, <2>4, <4>1, SetRests DEF CacheRest
      <4>. QED
        BY <2>3, <4>2 DEF CacheExact
    <3>. QED
      BY <3>1, <3>2
  <2>. QED
    BY <1>1, <2>1, <2>2, <2>4 DEF CacheExact, Fixed
<1>8. ASSUME NEW r \in Reader, NEW p \in env.pages, ReadPage(r, p) PROVE CacheExact'
  <2>1. fl.st # "write" /\ fl' = fl /\ disk' = disk /\ p \in Pages
    BY <1>8, <1>2 DEF ReadPage, fileVars, groupVars, Pages
  <2>2. ASSUME NEW q \in Reader, view'[q].st = "fill"
        PROVE  view'[q].page \in Pages /\ view'[q].img = disk[view'[q].page]
    <3>1. CASE q # r \/ \E x : view' = [view EXCEPT ![r].got = <<p, x>>]
      <4>1. view'[q].st = view[q].st /\ view'[q].page = view[q].page /\ view'[q].img = view[q].img
        BY <1>8, <1>3, <3>1 DEF ReadPage, Reading
      <4>. QED
        BY <2>2, <4>1 DEF CacheExact
    <3>2. CASE q = r /\ view' = [view EXCEPT ![r] = [st |-> "fill", page |-> p, img |-> disk[p], got |-> <<p, disk[p]>>]]
      BY <1>3, <2>1, <3>2
    <3>. QED
      BY <1>8, <3>1, <3>2 DEF ReadPage
  <2>3. \A q \in Pages : Cached(cache', q) => cache'.ent[q].img = disk[q]
    BY <1>8, GetRests DEF ReadPage, CacheExact, CacheRest
  <2>. QED
    BY <1>1, <2>1, <2>2, <2>3 DEF CacheExact, Fixed
<1>9. ASSUME NEW p \in env.pages, ReadInTxn(p) PROVE CacheExact'
  <2>1. fl.st # "write" /\ fl' = fl /\ disk' = disk /\ view' = view /\ p \in Pages /\ p \in Page
    BY <1>9, <1>2, PagesAre DEF ReadInTxn, fileVars, groupVars, Pages
  <2>2. disk[p] # Torn => disk[p] \in Int
    BY <2>1 DEF TypeOK, Image
  <2>3. \A q \in Pages : Cached(cache', q) => cache'.ent[q].img = disk[q]
    BY <1>9, <2>1, <2>2, GetRests, SetRests DEF ReadInTxn, CacheExact, CacheRest
  <2>. QED
    BY <1>1, <2>1, <2>3 DEF CacheExact, Fixed
<1>10. CASE TakeJob
  BY <1>10, <1>1, <1>2, <1>3, <1>4 DEF TakeJob, FlusherState, Reading, CacheExact, Fixed, fileVars,
     groupVars, histVars
<1>11. CASE WriteWAL
  BY <1>11, <1>1, <1>2, <1>3, <1>4 DEF WriteWAL, FlusherState, Reading, CacheExact, Fixed, fileVars,
     groupVars, histVars
<1>12. CASE Invalidate
  <2>1. /\ fl'.i = fl.i /\ fl'.job = fl.job /\ disk' = disk /\ view' = view
        /\ cache' = CacheDel(cache, fl.job.pages[fl.i])
    BY <1>12, <1>3 DEF Invalidate, Invalidated, FlusherState, fileVars
  <2>2. ~Cached(cache', fl.job.pages[fl.i]) /\ \A q \in Pages : Cached(cache', q) => cache'.ent[q].img = disk[q]
    BY <2>1, DelRests DEF CacheExact, CacheRest
  <2>. QED
    BY <1>1, <2>1, <2>2 DEF CacheExact, Fixed
<1>13. CASE WritePrimary
  <2>1. \A r \in Reader : view'[r].st = "none"
    BY <1>13, <1>4 DEF WritePrimary, InFlight
  <2>2. cache' = cache /\ fl'.st # "write"
    BY <1>13, <1>3 DEF WritePrimary, FlusherState
  <2>3. \A q \in Pages : Cached(cache, q) => disk'[q] = disk[q]
    BY <1>13, <1>3 DEF WritePrimary, CacheExact, TypeOK
  <2>. QED
    BY <1>1, <2>1, <2>2, <2>3 DEF CacheExact, Fixed
<1>14. CASE WriteHeader
  BY <1>14, <1>1, <1>2, <1>3, <1>4 DEF WriteHeader, FlusherState, Reading, CacheExact, Fixed,
     fileVars, groupVars, histVars
<1>15. CASE TruncateWAL
  BY <1>15, <1>1, <1>2, <1>3, <1>4 DEF TruncateWAL, FlusherState, Reading, CacheExact, Fixed,
     IdleFlusher, fileVars, groupVars, histVars
<1>16. CASE RevertOverlay
  BY <1>16, <1>1, <1>2, <1>3, <1>4 DEF RevertOverlay, FlusherState, Reading, CacheExact, Fixed,
     fileVars, groupVars, histVars
<1>17. CASE RevertStaged
  BY <1>17, <1>1, <1>2, <1>3, <1>4 DEF RevertStaged, FlusherState, Reading, CacheExact, Fixed,
     IdleFlusher, fileVars, groupVars, histVars
<1>18. CASE StopFlusher
  BY <1>18, <1>1, <1>2, <1>3, <1>4 DEF StopFlusher, FlusherState, Reading, CacheExact, Fixed,
     IdleFlusher, fileVars, groupVars, histVars
<1>19. CASE FailBatch
  <2>1. \A r \in Reader : view'[r].st = "none"
    BY <1>19, <1>4 DEF FailBatch, InFlight
  <2>2. cache' = cache /\ fl'.st # "write"
    BY <1>19, <1>3 DEF FailBatch, FlusherState
  <2>3. \A q \in Pages : Cached(cache, q) => disk'[q] = disk[q]
    BY <1>19, <1>3 DEF FailBatch, CacheExact, TypeOK, Partial, fileVars
  <2>. QED
    BY <1>1, <2>1, <2>2, <2>3 DEF CacheExact, Fixed
<1>20. CASE BeginClose
  BY <1>20, <1>1, NewShardRests DEF BeginClose, CacheExact, Fixed, fileVars, groupVars
<1>21. ASSUME NEW k \in {"update", "maintenance"}, BeginWriteTxn(k) PROVE CacheExact'
  BY <1>21, <1>1 DEF BeginWriteTxn, CacheExact, Fixed, fileVars, groupVars, histVars
<1>22. ASSUME NEW p \in env.pages, WritePage(p) PROVE CacheExact'
  BY <1>22, <1>1 DEF WritePage, CacheExact, Fixed, fileVars, groupVars, histVars
<1>23. CASE AbortWriteTxn \/ EnqueueJob \/ FinishCommit \/ EndClose \/ StartBackup \/ CopyPage \/
     CopyWAL \/ EndBackup
  BY <1>23, <1>1 DEF AbortWriteTxn, EnqueueJob, FinishCommit, EndClose, StartBackup, CopyPage,
     CopyWAL, EndBackup, CacheExact, Fixed, fileVars, groupVars, histVars
<1>24. CASE UNCHANGED vars
  BY <1>24, <1>1 DEF vars, CacheExact, Fixed, fileVars, groupVars, histVars
<1>25. QED
  BY <1>5, <1>6, <1>7, <1>8, <1>9, <1>10, <1>11, <1>12, <1>13, <1>14, <1>15, <1>16, <1>17, <1>18,
     <1>19, <1>20, <1>21, <1>22, <1>23, <1>24 DEF Next, Flush

-----------------------------------------------------------------------------
(* The contents of the pages.                                              *)

(* All pages are those of the empty database at first.                     *)
LEMMA NoOlderInit ==
  ASSUME Init
  PROVE  NoOlder
BY DEF Init, NoOlder, Between, Pages, NoTxn

(* No page in the primary or the overlay falls behind the last commit.     *)
LEMMA NoOlderStep ==
  ASSUME TypeOK, Pipeline, NoOlder, Intended, [Next]_vars
  PROVE  NoOlder'
<1>1. Fixed
  BY TypesFixed
<1>2. /\ txn \in WriteTxn /\ fl \in FlusherState /\ disk \in [Pages -> Image] /\ hdr \in Nat
      /\ overlay \in [Pages -> Nat \cup {None}] /\ committed \in [Pages -> Nat]
  BY DEF TypeOK
<1>3. InFlight => fl.job.no = txn.no /\ fl.job.pages = txn.dirty
  BY DEF Pipeline, JobOfTxn
<1>4. ASSUME NEW k \in {"update", "maintenance"}, BeginWriteTxn(k) PROVE NoOlder'
  <2>1. txn'.no = txn.no + 1 /\ disk' = disk /\ hdr' = hdr /\ overlay' = overlay /\ committed' = committed
    BY <1>4, <1>2 DEF BeginWriteTxn, WriteTxn, fileVars, groupVars, histVars
  <2>2. txn.no \in Nat /\ hdr <= txn.no + 1
    BY <1>2 DEF WriteTxn, NoOlder
  <2>3. ASSUME NEW q \in Pages
        PROVE  /\ committed[q] <= txn.no + 1
               /\ disk[q] # Torn => Between(disk[q], committed[q], txn.no + 1)
               /\ overlay[q] # None => Between(overlay[q], committed[q], txn.no + 1)
    <3>1. committed[q] \in Nat /\ (disk[q] # Torn => disk[q] \in Nat) /\ (overlay[q] # None => overlay[q] \in Nat)
      BY <1>2 DEF Image
    <3>. QED
      BY <2>2, <3>1 DEF NoOlder, Between
  <2>. QED
    BY <1>1, <2>1, <2>2, <2>3 DEF NoOlder, Fixed
<1>5. ASSUME NEW p \in env.pages, WritePage(p) PROVE NoOlder'
  BY <1>5, <1>1, <1>2, <1>3 DEF WritePage, WriteTxn, FlusherState, NoOlder, Between, Fixed,
     fileVars, groupVars, histVars
<1>6. CASE AbortWriteTxn
  BY <1>6, <1>1, <1>2, <1>3 DEF AbortWriteTxn, WriteTxn, FlusherState, NoOlder, Between, Fixed,
     fileVars, groupVars, histVars
<1>7. CASE EnqueueJob
  BY <1>7, <1>1, <1>2, <1>3 DEF EnqueueJob, WriteTxn, FlusherState, NoOlder, Between, Fixed, Pages,
     fileVars, groupVars, histVars
<1>8. CASE FinishCommit
  <2>1. txn'.no = txn.no /\ disk' = disk /\ hdr' = hdr /\ overlay' = overlay
    BY <1>8, <1>2 DEF FinishCommit, WriteTxn, fileVars
  <2>2. CASE done # "ok"
    BY <1>8, <1>1, <2>1, <2>2 DEF FinishCommit, NoOlder, Fixed
  <2>3. CASE done = "ok"
    <3>1. \A p \in Pages : committed'[p] = IF p \in Dirty THEN txn.no ELSE committed[p]
      BY <1>8, <2>3 DEF FinishCommit, Intended, AfterJob
    <3>2. \A p \in Pages : p \in Dirty => disk[p] = txn.no /\ overlay[p] = None
      BY <2>3 DEF Written, Intended
    <3>3. txn.no \in Nat /\ txn.no <= txn.no
      BY <1>2 DEF WriteTxn
    <3>4. \A p \in Pages :
            /\ committed'[p] <= txn.no
            /\ disk[p] # Torn => Between(disk[p], committed'[p], txn.no)
            /\ overlay[p] # None => Between(overlay[p], committed'[p], txn.no)
      BY <3>1, <3>2, <3>3 DEF NoOlder, Between
    <3>. QED
      BY <1>1, <2>1, <3>4 DEF NoOlder, Fixed
  <2>. QED
    BY <2>2, <2>3
<1>9. CASE WritePrimary
  BY <1>9, <1>1, <1>2, <1>3 DEF WritePrimary, WriteTxn, FlusherState, NoOlder, Between, Fixed,
     InFlight, fileVars, groupVars, histVars
<1>10. CASE WriteHeader
  BY <1>10, <1>1, <1>2, <1>3 DEF WriteHeader, WriteTxn, FlusherState, NoOlder, Between, Fixed,
     InFlight, fileVars, groupVars, histVars
<1>11. CASE RevertOverlay
  BY <1>11, <1>1, <1>2, <1>3 DEF RevertOverlay, WriteTxn, FlusherState, NoOlder, Between, Fixed,
     fileVars, groupVars, histVars
<1>12. CASE FailBatch
  <2>1. fl.job.no = txn.no /\ txn.no \in Nat
    BY <1>12, <1>2, <1>3 DEF FailBatch, InFlight, WriteTxn
  <2>2. hdr' \in {hdr, txn.no} /\ txn' = txn /\ overlay' = overlay /\ committed' = committed
    BY <1>12, <2>1 DEF FailBatch, Partial, fileVars, histVars
  <2>3. \A p \in Pages : disk'[p] \in {disk[p], Torn, txn.no}
    <3>1. CASE disk' = disk
      BY <3>1
    <3>2. CASE fl.st = "write"
      BY <1>12, <2>1, <3>2, <1>2 DEF FailBatch, Partial
    <3>. QED
      BY <1>12, <3>1, <3>2 DEF FailBatch, Partial, fileVars
  <2>4. hdr' <= txn.no
    BY <1>2, <2>1, <2>2 DEF NoOlder
  <2>. QED
    BY <1>1, <2>1, <2>2, <2>3, <2>4 DEF NoOlder, Between, Fixed
<1>13. ASSUME NEW r \in Reader, StartView(r) \/ EndView(r) \/ FillCache(r) PROVE NoOlder'
  BY <1>13, <1>1 DEF StartView, EndView, FillCache, NoOlder, Between, Fixed, fileVars, groupVars,
     histVars
<1>14. ASSUME NEW r \in Reader, NEW p \in env.pages, ReadPage(r, p) PROVE NoOlder'
  BY <1>14, <1>1 DEF ReadPage, NoOlder, Between, Fixed, fileVars, groupVars, histVars
<1>15. ASSUME NEW p \in env.pages, ReadInTxn(p) PROVE NoOlder'
  BY <1>15, <1>1 DEF ReadInTxn, NoOlder, Between, Fixed, fileVars, groupVars, histVars
<1>16. CASE TakeJob \/ WriteWAL \/ Invalidate \/ TruncateWAL \/ RevertStaged \/ StopFlusher \/
     BeginClose \/ EndClose \/ StartBackup \/ CopyPage \/ CopyWAL \/ EndBackup
  BY <1>16, <1>1 DEF TakeJob, WriteWAL, Invalidate, TruncateWAL, RevertStaged, StopFlusher,
     BeginClose, EndClose, StartBackup, CopyPage, CopyWAL, EndBackup, NoOlder, Between, Fixed,
     fileVars, groupVars, histVars
<1>17. CASE UNCHANGED vars
  BY <1>17, <1>1 DEF vars, NoOlder, Between, Fixed, fileVars, groupVars, histVars
<1>18. QED
  BY <1>4, <1>5, <1>6, <1>7, <1>8, <1>9, <1>10, <1>11, <1>12, <1>13, <1>14, <1>15, <1>16, <1>17 DEF
     Next, Flush

(* No job, and so nothing written.                                         *)
LEMMA IntendedInit ==
  ASSUME Init
  PROVE  Intended
BY DEF Init, Intended, Written, NoTxn, IdleFlusher

(* The pages of a transaction are pages of the database.                   *)
LEMMA DirtyPages ==
  ASSUME TypeOK
  PROVE  Dirty \subseteq Pages
BY DEF TypeOK, WriteTxn, Dirty, ToSet

(* A page written is added to those written, and the last one completes    *)
(* the job.                                                                *)
LEMMA WrittenGrows ==
  ASSUME TypeOK, Pipeline, WritePrimary, Fixed
  PROVE  Written' = Written \cup {txn.dirty[fl.i]}
<1> DEFINE n == Len(txn.dirty)
<1>1. /\ fl.st = "write" /\ fl.job.pages = txn.dirty /\ txn.dirty \in Seq(Pages) /\ fl.i \in 1..n /\ n \in Nat
      /\ done = "none" /\ done' = done /\ txn' = txn /\ fl'.i = fl.i + 1 /\ fl'.job = fl.job
      /\ fl'.st = IF fl.i = n THEN "header" ELSE "invalidate"
  BY DEF WritePrimary, Pipeline, InFlight, JobOfTxn, TypeOK, WriteTxn, FlusherState
<1>2. Pages' = Pages
  BY DEF Fixed
<1>3. Dirty = {txn.dirty[k] : k \in 1..n} /\ (\A k \in 1..n : txn.dirty[k] \in Pages)
  BY <1>1 DEF Dirty, ToSet
<1>4. Written = {txn.dirty[k] : k \in 1..(fl.i - 1)}
  BY <1>1, <1>3 DEF Written
<1>5. CASE fl.i = n
  <2>1. Written' = Dirty
    BY <1>1, <1>2, <1>3, <1>5 DEF Written, Dirty
  <2>2. \A k \in 1..n : k \in 1..(fl.i - 1) \/ k = fl.i
    BY <1>1, <1>5
  <2>. QED
    BY <1>1, <1>3, <1>4, <2>1, <2>2
<1>6. CASE fl.i # n
  <2>1. Written' = {txn.dirty[k] : k \in 1..fl.i}
    BY <1>1, <1>2, <1>3, <1>6 DEF Written
  <2>2. \A k \in 1..fl.i : k \in 1..(fl.i - 1) \/ k = fl.i
    BY <1>1
  <2>. QED
    BY <1>1, <1>4, <2>1, <2>2
<1>. QED
  BY <1>5, <1>6

(* The flusher leaves in the primary what the job holds, page by page.     *)
LEMMA IntendedStep ==
  ASSUME TypeOK, Pipeline, NoOlder, Intended, [Next]_vars
  PROVE  Intended'
<1>1. Fixed
  BY TypesFixed
<1>2. /\ txn \in WriteTxn /\ fl \in FlusherState /\ disk \in [Pages -> Image] /\ hdr \in Nat
      /\ overlay \in [Pages -> Nat \cup {None}] /\ committed \in [Pages -> Nat]
  BY DEF TypeOK
<1>3. InFlight => fl.job.no = txn.no /\ fl.job.pages = txn.dirty
  BY DEF Pipeline, JobOfTxn
<1>4. done \in {"none", "ok", "error"}
  BY DEF TypeOK
<1>5. ASSUME NEW k \in {"update", "maintenance"}, BeginWriteTxn(k) PROVE Intended'
  <2>1. txn'.st # "wait" /\ jobs' = <<>> /\ ~InFlight' /\ done' = "none"
    BY <1>5, <1>2, <1>4 DEF BeginWriteTxn, WriteTxn, FlusherState, Pipeline, InFlight, fileVars,
       groupVars
  <2>2. Written' = {}
    BY <2>1 DEF Written, InFlight
  <2>3. txn'.st = "open" => hdr' < txn'.no
    BY <1>5, <1>2 DEF BeginWriteTxn, WriteTxn, Intended, NoOlder, fileVars
  <2>. QED
    BY <2>1, <2>2, <2>3 DEF Intended, InFlight
<1>6. ASSUME NEW p \in env.pages, WritePage(p) PROVE Intended'
  <2>1. txn'.st # "wait" /\ jobs' = <<>> /\ ~InFlight' /\ done' = "none"
    BY <1>6, <1>2, <1>4 DEF WritePage, WriteTxn, FlusherState, Pipeline, InFlight, fileVars, groupVars
  <2>2. Written' = {}
    BY <2>1 DEF Written, InFlight
  <2>3. txn'.st = "open" => hdr' < txn'.no
    BY <1>6, <1>2 DEF WritePage, WriteTxn, Intended, NoOlder, fileVars
  <2>. QED
    BY <2>1, <2>2, <2>3 DEF Intended, InFlight
<1>7. CASE AbortWriteTxn
  <2>1. txn'.st # "wait" /\ jobs' = <<>> /\ ~InFlight' /\ done' = "none"
    BY <1>7, <1>2, <1>4 DEF AbortWriteTxn, WriteTxn, FlusherState, Pipeline, InFlight, fileVars,
       groupVars
  <2>2. Written' = {}
    BY <2>1 DEF Written, InFlight
  <2>3. txn'.st = "open" => hdr' < txn'.no
    BY <1>7, <1>2 DEF AbortWriteTxn, WriteTxn, Intended, NoOlder, fileVars
  <2>. QED
    BY <2>1, <2>2, <2>3 DEF Intended, InFlight
<1>8. CASE EnqueueJob
  <2>1. /\ txn'.st = "wait" /\ txn'.no = txn.no /\ txn'.dirty = txn.dirty /\ committed' = committed /\ hdr' = hdr
        /\ fl' = fl /\ done' = "none" /\ ~InFlight /\ hdr < txn.no
    BY <1>8, <1>2 DEF EnqueueJob, WriteTxn, Pipeline, InFlight, Intended, fileVars
  <2>2. Written' = {}
    BY <2>1 DEF Written, InFlight
  <2>3. candidate' = AfterJob'
    BY <1>8, <1>1, <2>1 DEF EnqueueJob, AfterJob, Dirty, Pages, Fixed
  <2>4. \A p \in Dirty' : overlay'[p] = txn.no
    <3>1. Dirty' = ToSet(txn.dirty) /\ Dirty' \subseteq env.pages
      BY <1>2, <2>1, DirtyPages DEF Dirty, Pages
    <3>. QED
      BY <1>8, <3>1 DEF EnqueueJob
  <2>. QED
    BY <2>1, <2>2, <2>3, <2>4 DEF Intended
<1>9. CASE FinishCommit
  <2>1. txn'.st # "wait" /\ jobs' = <<>> /\ ~InFlight' /\ done' = "none"
    BY <1>9, <1>2, <1>4 DEF FinishCommit, WriteTxn, FlusherState, Pipeline, InFlight, fileVars, groupVars
  <2>2. Written' = {}
    BY <2>1 DEF Written, InFlight
  <2>3. txn'.st = "open" => hdr' < txn'.no
    BY <1>9, <1>2 DEF FinishCommit, WriteTxn, Intended, NoOlder, fileVars
  <2>. QED
    BY <2>1, <2>2, <2>3 DEF Intended, InFlight
<1>10. CASE TakeJob
  <2>1. txn' = txn /\ committed' = committed /\ candidate' = candidate /\ AfterJob' = AfterJob /\ Dirty' = Dirty
    BY <1>10, <1>1 DEF TakeJob, AfterJob, Dirty, Fixed, histVars
  <2>2. Written' = {}
    BY <1>10, <1>1, <1>2, <1>3, <1>4 DEF TakeJob, Written, Dirty, FlusherState, Pipeline, InFlight,
       Fixed, fileVars, groupVars
  <2>3. (jobs' # <<>> \/ fl'.st \in {"wal", "invalidate", "write", "header"}) => hdr' < txn.no
    BY <1>10, <1>2, <1>4 DEF TakeJob, FlusherState, Intended, Pipeline, InFlight, IdleFlusher, fileVars
  <2>4. txn.st = "open" => hdr' < txn.no
    BY <1>10, <1>2, <1>4 DEF TakeJob, Intended, Pipeline, InFlight, fileVars
  <2>5. disk' = disk /\ (overlay' = overlay \/ fl.st = "revert") /\ \A p \in Pages : overlay'[p] \in {overlay[p], None}
    BY <1>10, <1>2 DEF TakeJob, fileVars
  <2>6. Dirty \subseteq Pages /\ (done' # "error" /\ Written' # {} => done # "error")
    BY <1>10, <2>2, DirtyPages DEF TakeJob, Pipeline, InFlight
  <2>7. txn.st = "wait" => \A p \in Dirty : overlay'[p] \in {None, txn.no}
    BY <2>5, <2>6 DEF Intended
  <2>8. done' # "error" => \A p \in Written' : disk'[p] = txn.no /\ overlay'[p] = None
    BY <2>2, <2>5, <2>6, <1>10 DEF Intended, TakeJob, Written
  <2>. QED
    BY <2>1, <2>3, <2>4, <2>7, <2>8 DEF Intended
<1>11. CASE WriteWAL
  <2>1. txn' = txn /\ committed' = committed /\ candidate' = candidate /\ AfterJob' = AfterJob /\ Dirty' = Dirty
    BY <1>11, <1>1 DEF WriteWAL, AfterJob, Dirty, Fixed, histVars
  <2>2. Written' = {}
    BY <1>11, <1>1, <1>2, <1>3, <1>4 DEF WriteWAL, Written, Dirty, FlusherState, Pipeline, InFlight,
       Fixed, fileVars, groupVars
  <2>3. (jobs' # <<>> \/ fl'.st \in {"wal", "invalidate", "write", "header"}) => hdr' < txn.no
    BY <1>11, <1>2, <1>4 DEF WriteWAL, FlusherState, Intended, Pipeline, InFlight, IdleFlusher, fileVars
  <2>4. txn.st = "open" => hdr' < txn.no
    BY <1>11, <1>2, <1>4 DEF WriteWAL, Intended, Pipeline, InFlight, fileVars
  <2>5. disk' = disk /\ (overlay' = overlay \/ fl.st = "revert") /\ \A p \in Pages : overlay'[p] \in {overlay[p], None}
    BY <1>11, <1>2 DEF WriteWAL, fileVars
  <2>6. Dirty \subseteq Pages /\ (done' # "error" /\ Written' # {} => done # "error")
    BY <1>11, <2>2, DirtyPages DEF WriteWAL, Pipeline, InFlight
  <2>7. txn.st = "wait" => \A p \in Dirty : overlay'[p] \in {None, txn.no}
    BY <2>5, <2>6 DEF Intended
  <2>8. done' # "error" => \A p \in Written' : disk'[p] = txn.no /\ overlay'[p] = None
    BY <2>2, <2>5, <2>6, <1>11 DEF Intended, WriteWAL, Written
  <2>. QED
    BY <2>1, <2>3, <2>4, <2>7, <2>8 DEF Intended
<1>12. CASE Invalidate
  <2>1. txn' = txn /\ committed' = committed /\ candidate' = candidate /\ AfterJob' = AfterJob /\ Dirty' = Dirty
    BY <1>12, <1>1 DEF Invalidate, AfterJob, Dirty, Fixed, histVars
  <2>2. Written' = Written
    BY <1>12, <1>1, <1>2, <1>3, <1>4 DEF Invalidate, Written, Dirty, FlusherState, Pipeline,
       InFlight, Fixed, fileVars, groupVars
  <2>3. (jobs' # <<>> \/ fl'.st \in {"wal", "invalidate", "write", "header"}) => hdr' < txn.no
    BY <1>12, <1>2, <1>4 DEF Invalidate, FlusherState, Intended, Pipeline, InFlight, IdleFlusher,
       fileVars
  <2>4. txn.st = "open" => hdr' < txn.no
    BY <1>12, <1>2, <1>4 DEF Invalidate, Intended, Pipeline, InFlight, fileVars
  <2>5. disk' = disk /\ (overlay' = overlay \/ fl.st = "revert") /\ \A p \in Pages : overlay'[p] \in {overlay[p], None}
    BY <1>12, <1>2 DEF Invalidate, fileVars
  <2>6. Dirty \subseteq Pages /\ (done' # "error" /\ Written' # {} => done # "error")
    BY <1>12, <2>2, DirtyPages DEF Invalidate, Pipeline, InFlight
  <2>7. txn.st = "wait" => \A p \in Dirty : overlay'[p] \in {None, txn.no}
    BY <2>5, <2>6 DEF Intended
  <2>8. done' # "error" => \A p \in Written' : disk'[p] = txn.no /\ overlay'[p] = None
    BY <2>2, <2>5, <2>6, <1>12 DEF Intended, Invalidate, Written
  <2>. QED
    BY <2>1, <2>3, <2>4, <2>7, <2>8 DEF Intended
<1>13. CASE WritePrimary
  <2> DEFINE q == fl.job.pages[fl.i]
  <2>1. /\ txn' = txn /\ committed' = committed /\ candidate' = candidate /\ AfterJob' = AfterJob /\ Dirty' = Dirty
        /\ done' = done /\ hdr' = hdr /\ jobs' = jobs
    BY <1>13, <1>1 DEF WritePrimary, AfterJob, Dirty, Fixed, histVars
  <2>2. fl.i \in 1..Len(txn.dirty) /\ txn.dirty \in Seq(Pages) /\ q = txn.dirty[fl.i] /\ q \in Dirty /\ q \in Pages /\ fl.job.no = txn.no
    <3>1. fl.i \in 1..Len(txn.dirty) /\ q = txn.dirty[fl.i] /\ txn.dirty \in Seq(Pages) /\ fl.job.no = txn.no
      BY <1>13, <1>2, <1>3 DEF WritePrimary, Pipeline, InFlight, FlusherState, WriteTxn
    <3>. QED
      BY <3>1, DirtyPages DEF Dirty, ToSet
  <2>3. Written' \subseteq Written \cup {q}
    BY <1>13, <1>1, <1>2, <1>3, <2>1, <2>2, WrittenGrows DEF Fixed
  <2>4. /\ disk' = [disk EXCEPT ![q] = txn.no] /\ overlay' = [overlay EXCEPT ![q] = None]
        /\ fl.st = "write" /\ done = "none" /\ txn.st = "wait" /\ hdr < txn.no
    BY <1>13, <2>2 DEF WritePrimary, Pipeline, InFlight, Intended
  <2>5. \A p \in Pages : p # q => disk'[p] = disk[p] /\ overlay'[p] = overlay[p]
    BY <2>4, <1>2
  <2>6. disk'[q] = txn.no /\ overlay'[q] = None
    BY <2>2, <2>4, <1>2
  <2> HIDE DEF q
  <2>7. \A p \in Dirty : overlay'[p] \in {None, txn.no}
    BY <2>4, <2>5, <2>6, DirtyPages DEF Intended
  <2>8. \A p \in Written' : disk'[p] = txn.no /\ overlay'[p] = None
    <3>1. Written \subseteq Pages
      BY DEF Written
    <3>. QED
      BY <2>3, <2>4, <2>5, <2>6, <3>1 DEF Intended
  <2>. QED
    BY <2>1, <2>4, <2>7, <2>8 DEF Intended
<1>14. CASE WriteHeader
  <2>1. txn' = txn /\ committed' = committed /\ candidate' = candidate /\ AfterJob' = AfterJob /\ Dirty' = Dirty
    BY <1>14, <1>1 DEF WriteHeader, AfterJob, Dirty, Fixed, histVars
  <2>2. Written' = Written
    BY <1>14, <1>1, <1>2, <1>3, <1>4 DEF WriteHeader, Written, Dirty, FlusherState, Pipeline,
       InFlight, Fixed, fileVars, groupVars
  <2>3. (jobs' # <<>> \/ fl'.st \in {"wal", "invalidate", "write", "header"}) => hdr' < txn.no
    BY <1>14, <1>2, <1>4 DEF WriteHeader, FlusherState, Intended, Pipeline, InFlight, IdleFlusher,
       fileVars
  <2>4. txn.st = "open" => hdr' < txn.no
    BY <1>14, <1>2, <1>4 DEF WriteHeader, Intended, Pipeline, InFlight, fileVars
  <2>5. disk' = disk /\ (overlay' = overlay \/ fl.st = "revert") /\ \A p \in Pages : overlay'[p] \in {overlay[p], None}
    BY <1>14, <1>2 DEF WriteHeader, fileVars
  <2>6. Dirty \subseteq Pages /\ (done' # "error" /\ Written' # {} => done # "error")
    BY <1>14, <2>2, DirtyPages DEF WriteHeader, Pipeline, InFlight
  <2>7. txn.st = "wait" => \A p \in Dirty : overlay'[p] \in {None, txn.no}
    BY <2>5, <2>6 DEF Intended
  <2>8. done' # "error" => \A p \in Written' : disk'[p] = txn.no /\ overlay'[p] = None
    BY <2>2, <2>5, <2>6, <1>14 DEF Intended, WriteHeader, Written
  <2>. QED
    BY <2>1, <2>3, <2>4, <2>7, <2>8 DEF Intended
<1>15. CASE TruncateWAL
  <2>1. txn' = txn /\ committed' = committed /\ candidate' = candidate /\ AfterJob' = AfterJob /\ Dirty' = Dirty
    BY <1>15, <1>1 DEF TruncateWAL, AfterJob, Dirty, Fixed, histVars
  <2>2. Written' = Written
    BY <1>15, <1>1, <1>2, <1>3, <1>4 DEF TruncateWAL, Written, Dirty, FlusherState, Pipeline,
       InFlight, Fixed, IdleFlusher, fileVars, groupVars
  <2>3. (jobs' # <<>> \/ fl'.st \in {"wal", "invalidate", "write", "header"}) => hdr' < txn.no
    BY <1>15, <1>2, <1>4 DEF TruncateWAL, FlusherState, Intended, Pipeline, InFlight, IdleFlusher,
       fileVars
  <2>4. txn.st = "open" => hdr' < txn.no
    BY <1>15, <1>2, <1>4 DEF TruncateWAL, Intended, Pipeline, InFlight, fileVars
  <2>5. disk' = disk /\ (overlay' = overlay \/ fl.st = "revert") /\ \A p \in Pages : overlay'[p] \in {overlay[p], None}
    BY <1>15, <1>2 DEF TruncateWAL, fileVars
  <2>6. Dirty \subseteq Pages /\ (done' # "error" /\ Written' # {} => done # "error")
    BY <1>15, <2>2, DirtyPages DEF TruncateWAL, Pipeline, InFlight
  <2>7. txn.st = "wait" => \A p \in Dirty : overlay'[p] \in {None, txn.no}
    BY <2>5, <2>6 DEF Intended
  <2>8. done' # "error" => \A p \in Written' : disk'[p] = txn.no /\ overlay'[p] = None
    BY <2>2, <2>5, <2>6, <1>15 DEF Intended, TruncateWAL, Written
  <2>. QED
    BY <2>1, <2>3, <2>4, <2>7, <2>8 DEF Intended
<1>16. CASE RevertOverlay
  <2>1. txn' = txn /\ committed' = committed /\ candidate' = candidate /\ AfterJob' = AfterJob /\ Dirty' = Dirty
    BY <1>16, <1>1 DEF RevertOverlay, AfterJob, Dirty, Fixed, histVars
  <2>2. Written' = {}
    BY <1>16, <1>1, <1>2, <1>3, <1>4 DEF RevertOverlay, Written, Dirty, FlusherState, Pipeline,
       InFlight, Fixed, fileVars, groupVars
  <2>3. (jobs' # <<>> \/ fl'.st \in {"wal", "invalidate", "write", "header"}) => hdr' < txn.no
    BY <1>16, <1>2, <1>4 DEF RevertOverlay, FlusherState, Intended, Pipeline, InFlight, IdleFlusher,
       fileVars
  <2>4. txn.st = "open" => hdr' < txn.no
    BY <1>16, <1>2, <1>4 DEF RevertOverlay, Intended, Pipeline, InFlight, fileVars
  <2>5. disk' = disk /\ (overlay' = overlay \/ fl.st = "revert") /\ \A p \in Pages : overlay'[p] \in {overlay[p], None}
    BY <1>16, <1>2 DEF RevertOverlay, fileVars
  <2>6. Dirty \subseteq Pages /\ (done' # "error" /\ Written' # {} => done # "error")
    BY <1>16, <2>2, DirtyPages DEF RevertOverlay, Pipeline, InFlight
  <2>7. txn.st = "wait" => \A p \in Dirty : overlay'[p] \in {None, txn.no}
    BY <2>5, <2>6 DEF Intended
  <2>8. done' # "error" => \A p \in Written' : disk'[p] = txn.no /\ overlay'[p] = None
    BY <2>2, <2>5, <2>6, <1>16 DEF Intended, RevertOverlay, Written
  <2>. QED
    BY <2>1, <2>3, <2>4, <2>7, <2>8 DEF Intended
<1>17. CASE RevertStaged
  <2>1. txn' = txn /\ committed' = committed /\ candidate' = candidate /\ AfterJob' = AfterJob /\ Dirty' = Dirty
    BY <1>17, <1>1 DEF RevertStaged, AfterJob, Dirty, Fixed, histVars
  <2>2. Written' = {}
    BY <1>17, <1>1, <1>2, <1>3, <1>4 DEF RevertStaged, Written, Dirty, FlusherState, Pipeline,
       InFlight, Fixed, IdleFlusher, fileVars, groupVars
  <2>3. (jobs' # <<>> \/ fl'.st \in {"wal", "invalidate", "write", "header"}) => hdr' < txn.no
    BY <1>17, <1>2, <1>4 DEF RevertStaged, FlusherState, Intended, Pipeline, InFlight, IdleFlusher,
       fileVars
  <2>4. txn.st = "open" => hdr' < txn.no
    BY <1>17, <1>2, <1>4 DEF RevertStaged, Intended, Pipeline, InFlight, fileVars
  <2>5. disk' = disk /\ (overlay' = overlay \/ fl.st = "revert") /\ \A p \in Pages : overlay'[p] \in {overlay[p], None}
    BY <1>17, <1>2 DEF RevertStaged, fileVars
  <2>6. Dirty \subseteq Pages /\ (done' # "error" /\ Written' # {} => done # "error")
    BY <1>17, <2>2, DirtyPages DEF RevertStaged, Pipeline, InFlight
  <2>7. txn.st = "wait" => \A p \in Dirty : overlay'[p] \in {None, txn.no}
    BY <2>5, <2>6 DEF Intended
  <2>8. done' # "error" => \A p \in Written' : disk'[p] = txn.no /\ overlay'[p] = None
    BY <2>2, <2>5, <2>6, <1>17 DEF Intended, RevertStaged, Written
  <2>. QED
    BY <2>1, <2>3, <2>4, <2>7, <2>8 DEF Intended
<1>18. CASE StopFlusher
  <2>1. txn' = txn /\ committed' = committed /\ candidate' = candidate /\ AfterJob' = AfterJob /\ Dirty' = Dirty
    BY <1>18, <1>1 DEF StopFlusher, AfterJob, Dirty, Fixed, histVars
  <2>2. Written' = {}
    BY <1>18, <1>1, <1>2, <1>3, <1>4 DEF StopFlusher, Written, Dirty, FlusherState, Pipeline,
       InFlight, Fixed, IdleFlusher, fileVars, groupVars
  <2>3. (jobs' # <<>> \/ fl'.st \in {"wal", "invalidate", "write", "header"}) => hdr' < txn.no
    BY <1>18, <1>2, <1>4 DEF StopFlusher, FlusherState, Intended, Pipeline, InFlight, IdleFlusher,
       fileVars
  <2>4. txn.st = "open" => hdr' < txn.no
    BY <1>18, <1>2, <1>4 DEF StopFlusher, Intended, Pipeline, InFlight, fileVars
  <2>5. disk' = disk /\ (overlay' = overlay \/ fl.st = "revert") /\ \A p \in Pages : overlay'[p] \in {overlay[p], None}
    BY <1>18, <1>2 DEF StopFlusher, fileVars
  <2>6. Dirty \subseteq Pages /\ (done' # "error" /\ Written' # {} => done # "error")
    BY <1>18, <2>2, DirtyPages DEF StopFlusher, Pipeline, InFlight
  <2>7. txn.st = "wait" => \A p \in Dirty : overlay'[p] \in {None, txn.no}
    BY <2>5, <2>6 DEF Intended
  <2>8. done' # "error" => \A p \in Written' : disk'[p] = txn.no /\ overlay'[p] = None
    BY <2>2, <2>5, <2>6, <1>18 DEF Intended, StopFlusher, Written
  <2>. QED
    BY <2>1, <2>3, <2>4, <2>7, <2>8 DEF Intended
<1>19. CASE FailBatch
  <2>1. txn' = txn /\ committed' = committed /\ candidate' = candidate /\ overlay' = overlay /\ AfterJob' = AfterJob /\ Dirty' = Dirty
    BY <1>19, <1>1 DEF FailBatch, AfterJob, Dirty, Fixed, histVars
  <2>2. jobs' = <<>> /\ fl'.st = "revert" /\ txn.st = "wait" /\ done' = "error"
    BY <1>19, <1>2 DEF FailBatch, Pipeline, InFlight, FlusherState
  <2>. QED
    BY <2>1, <2>2 DEF Intended
<1>20. ASSUME NEW r \in Reader, StartView(r) \/ EndView(r) \/ FillCache(r) PROVE Intended'
  BY <1>20, <1>1 DEF StartView, EndView, FillCache, Intended, AfterJob, Written, Dirty, Fixed,
     fileVars, groupVars, histVars
<1>21. ASSUME NEW r \in Reader, NEW p \in env.pages, ReadPage(r, p) PROVE Intended'
  BY <1>21, <1>1 DEF ReadPage, Intended, AfterJob, Written, Dirty, Fixed, fileVars, groupVars, histVars
<1>22. ASSUME NEW p \in env.pages, ReadInTxn(p) PROVE Intended'
  BY <1>22, <1>1 DEF ReadInTxn, Intended, AfterJob, Written, Dirty, Fixed, fileVars, groupVars, histVars
<1>23. CASE BeginClose \/ EndClose \/ StartBackup \/ CopyPage \/ CopyWAL \/ EndBackup
  BY <1>23, <1>1 DEF BeginClose, EndClose, StartBackup, CopyPage, CopyWAL, EndBackup, Intended,
     AfterJob, Written, Dirty, Fixed, fileVars, groupVars, histVars
<1>24. CASE UNCHANGED vars
  BY <1>24, <1>1 DEF vars, Intended, AfterJob, Written, Dirty, Fixed, fileVars, groupVars, histVars
<1>25. QED
  BY <1>5, <1>6, <1>7, <1>8, <1>9, <1>10, <1>11, <1>12, <1>13, <1>14, <1>15, <1>16, <1>17, <1>18,
     <1>19, <1>20, <1>21, <1>22, <1>23, <1>24 DEF Next, Flush

(* The empty database.                                                     *)
LEMMA ContentsInit ==
  ASSUME Init
  PROVE  Contents
BY DEF Init, Contents, Written, Pages, None, NoTxn, IdleFlusher, EmptyWAL

(* Before any failure every step of the pipeline leaves what it should.    *)
LEMMA ContentsStep ==
  ASSUME TypeOK, Pipeline, Failures, Intended, Contents, [Next]_vars
  PROVE  Contents'
<1>1. Fixed
  BY TypesFixed
<1>2. /\ txn \in WriteTxn /\ fl \in FlusherState /\ disk \in [Pages -> Image] /\ hdr \in Nat
      /\ overlay \in [Pages -> Nat \cup {None}] /\ committed \in [Pages -> Nat]
  BY DEF TypeOK
<1>3. InFlight => fl.job.no = txn.no /\ fl.job.pages = txn.dirty
  BY DEF Pipeline, JobOfTxn
<1>4. done \in {"none", "ok", "error"}
  BY DEF TypeOK
<1>5. ASSUME NEW k \in {"update", "maintenance"}, BeginWriteTxn(k) PROVE Contents'
  <2>1. txn.st # "wait" /\ txn'.st # "wait" /\ ~InFlight /\ ~InFlight' /\ done = "none" /\ done' = "none" /\ fl' = fl
    BY <1>5, <1>2 DEF BeginWriteTxn, WriteTxn, Pipeline, InFlight, groupVars
  <2>2. Written = {} /\ Written' = {}
    BY <2>1 DEF Written, InFlight
  <2>3. disk' = disk /\ hdr' = hdr /\ wal' = wal /\ overlay' = overlay /\ committed' = committed /\ failed' = failed
    BY <1>5 DEF BeginWriteTxn, fileVars, groupVars, histVars
  <2>. QED
    BY <1>1, <2>1, <2>2, <2>3 DEF Contents, InFlight, LogOfTxn, Fixed
<1>6. ASSUME NEW p \in env.pages, WritePage(p) PROVE Contents'
  <2>1. txn.st # "wait" /\ txn'.st # "wait" /\ ~InFlight /\ ~InFlight' /\ done = "none" /\ done' = "none" /\ fl' = fl
    BY <1>6, <1>2 DEF WritePage, WriteTxn, Pipeline, InFlight, groupVars
  <2>2. Written = {} /\ Written' = {}
    BY <2>1 DEF Written, InFlight
  <2>3. disk' = disk /\ hdr' = hdr /\ wal' = wal /\ overlay' = overlay /\ committed' = committed /\ failed' = failed
    BY <1>6 DEF WritePage, fileVars, groupVars, histVars
  <2>. QED
    BY <1>1, <2>1, <2>2, <2>3 DEF Contents, InFlight, LogOfTxn, Fixed
<1>7. CASE AbortWriteTxn
  <2>1. txn.st # "wait" /\ txn'.st # "wait" /\ ~InFlight /\ ~InFlight' /\ done = "none" /\ done' = "none" /\ fl' = fl
    BY <1>7, <1>2 DEF AbortWriteTxn, WriteTxn, Pipeline, InFlight, groupVars
  <2>2. Written = {} /\ Written' = {}
    BY <2>1 DEF Written, InFlight
  <2>3. disk' = disk /\ hdr' = hdr /\ wal' = wal /\ overlay' = overlay /\ committed' = committed /\ failed' = failed
    BY <1>7 DEF AbortWriteTxn, fileVars, groupVars, histVars
  <2>. QED
    BY <1>1, <2>1, <2>2, <2>3 DEF Contents, InFlight, LogOfTxn, Fixed
<1>8. CASE EnqueueJob
  <2>1. /\ txn.st # "wait" /\ txn'.st = "wait" /\ txn'.dirty = txn.dirty /\ fl' = fl /\ done = "none" /\ done' = done /\ ~InFlight
        /\ disk' = disk /\ hdr' = hdr /\ wal' = wal /\ committed' = committed /\ failed' = failed
    BY <1>8, <1>2 DEF EnqueueJob, WriteTxn, Pipeline, InFlight, LogOfTxn, fileVars
  <2>2. Written = {} /\ Written' = {}
    BY <2>1 DEF Written, InFlight
  <2>3. failed = {} => \A p \in Pages : overlay'[p] # None => p \in Dirty'
    BY <1>8, <2>1 DEF EnqueueJob, Contents, Dirty, Pages
  <2>. QED
    BY <1>1, <2>1, <2>2, <2>3 DEF Contents, InFlight, LogOfTxn, Fixed
<1>9. CASE FinishCommit
  <2>1. /\ disk' = disk /\ hdr' = hdr /\ wal' = wal /\ overlay' = overlay /\ failed' = failed /\ fl' = fl
        /\ done' = "none" /\ txn.st = "wait" /\ ~InFlight
    BY <1>9, <1>2 DEF FinishCommit, Pipeline, InFlight, LogOfTxn, fileVars
  <2>2. failed = {} => done = "ok" /\ Written = Dirty /\ candidate = AfterJob
    <3>1. failed = {} => done = "ok"
      BY <1>9, <1>4 DEF FinishCommit, Failures
    <3>2. done = "ok" => Written = Dirty
      BY <2>1, DirtyPages DEF Written, InFlight
    <3>3. candidate = AfterJob
      BY <2>1 DEF Intended
    <3>. QED
      BY <3>1, <3>2, <3>3
  <2>3. Written' = {}
    BY <2>1 DEF Written, InFlight
  <2>4. failed = {} => \A p \in Pages : disk[p] = committed'[p]
    BY <1>9, <2>2 DEF FinishCommit, Contents, AfterJob
  <2>5. failed = {} => \A p \in Pages : overlay[p] = None
    BY <2>1, <2>2 DEF Contents, Intended
  <2>. QED
    BY <1>1, <2>1, <2>3, <2>4, <2>5 DEF Contents, InFlight, LogOfTxn, Fixed
<1>10. CASE TakeJob
  <2>1. /\ txn' = txn /\ committed' = committed /\ Dirty' = Dirty /\ failed' = failed /\ disk' = disk /\ overlay' = overlay
    BY <1>10, <1>1 DEF TakeJob, Dirty, histVars, fileVars
  <2>2. Written' = Written
    BY <1>10, <1>1, <1>2, <1>3, <1>4, <2>1 DEF TakeJob, Written, FlusherState, Pipeline, InFlight, Fixed
  <2>3. failed = {} => IF fl'.st \in {"invalidate", "write", "header"}
                      THEN wal' = LogOfTxn' ELSE wal'.no = hdr'
    BY <1>10, <1>2, <1>3 DEF TakeJob, Contents, FlusherState, InFlight, LogOfTxn, fileVars
  <2>. QED
    BY <1>1, <2>1, <2>2, <2>3 DEF Contents, LogOfTxn, Fixed
<1>11. CASE WriteWAL
  <2>1. /\ txn' = txn /\ committed' = committed /\ Dirty' = Dirty /\ failed' = failed /\ disk' = disk /\ overlay' = overlay
    BY <1>11, <1>1 DEF WriteWAL, Dirty, histVars, fileVars
  <2>2. Written' = Written
    BY <1>11, <1>1, <1>2, <1>3, <1>4, <2>1 DEF WriteWAL, Written, FlusherState, Pipeline, InFlight, Fixed
  <2>3. failed = {} => IF fl'.st \in {"invalidate", "write", "header"}
                      THEN wal' = LogOfTxn' ELSE wal'.no = hdr'
    BY <1>11, <1>2, <1>3 DEF WriteWAL, Contents, FlusherState, InFlight, LogOfTxn, fileVars
  <2>. QED
    BY <1>1, <2>1, <2>2, <2>3 DEF Contents, LogOfTxn, Fixed
<1>12. CASE Invalidate
  <2>1. /\ txn' = txn /\ committed' = committed /\ Dirty' = Dirty /\ failed' = failed /\ disk' = disk /\ overlay' = overlay
    BY <1>12, <1>1 DEF Invalidate, Dirty, histVars, fileVars
  <2>2. Written' = Written
    BY <1>12, <1>1, <1>2, <1>3, <1>4, <2>1 DEF Invalidate, Written, FlusherState, Pipeline,
       InFlight, Fixed
  <2>3. failed = {} => IF fl'.st \in {"invalidate", "write", "header"}
                      THEN wal' = LogOfTxn' ELSE wal'.no = hdr'
    BY <1>12, <1>2, <1>3 DEF Invalidate, Contents, FlusherState, InFlight, LogOfTxn, fileVars
  <2>. QED
    BY <1>1, <2>1, <2>2, <2>3 DEF Contents, LogOfTxn, Fixed
<1>13. CASE WritePrimary
  <2> DEFINE q == fl.job.pages[fl.i]
  <2>1. /\ txn' = txn /\ committed' = committed /\ Dirty' = Dirty /\ failed' = failed /\ wal' = wal /\ hdr' = hdr
        /\ fl.st = "write" /\ fl'.st \in {"header", "invalidate"} /\ txn.st = "wait"
    BY <1>13, <1>2 DEF WritePrimary, Dirty, histVars, FlusherState, Pipeline, InFlight
  <2>2. /\ disk' = [disk EXCEPT ![q] = txn.no] /\ overlay' = [overlay EXCEPT ![q] = None] /\ q = txn.dirty[fl.i]
    BY <1>13, <1>3, <2>1 DEF WritePrimary, InFlight
  <2>3. Written' = Written \cup {q}
    BY <1>13, <1>1, <2>2, WrittenGrows
  <2>4. \A p \in Pages : disk'[p] = (IF p = q THEN txn.no ELSE disk[p]) /\ overlay'[p] = (IF p = q THEN None ELSE overlay[p])
    BY <2>2, <1>2
  <2> HIDE DEF q
  <2>. QED
    BY <1>1, <2>1, <2>3, <2>4 DEF Contents, LogOfTxn, Fixed
<1>14. CASE WriteHeader
  <2>1. /\ txn' = txn /\ committed' = committed /\ Dirty' = Dirty /\ failed' = failed /\ disk' = disk /\ overlay' = overlay
    BY <1>14, <1>1 DEF WriteHeader, Dirty, histVars, fileVars
  <2>2. Written' = Written
    BY <1>14, <1>1, <1>2, <1>3, <1>4, <2>1 DEF WriteHeader, Written, FlusherState, Pipeline,
       InFlight, Fixed
  <2>3. failed = {} => IF fl'.st \in {"invalidate", "write", "header"}
                      THEN wal' = LogOfTxn' ELSE wal'.no = hdr'
    BY <1>14, <1>2, <1>3 DEF WriteHeader, Contents, FlusherState, InFlight, LogOfTxn, fileVars
  <2>. QED
    BY <1>1, <2>1, <2>2, <2>3 DEF Contents, LogOfTxn, Fixed
<1>15. CASE TruncateWAL
  <2>1. /\ txn' = txn /\ committed' = committed /\ Dirty' = Dirty /\ failed' = failed /\ disk' = disk /\ overlay' = overlay
    BY <1>15, <1>1 DEF TruncateWAL, Dirty, histVars, fileVars
  <2>2. Written' = Written
    BY <1>15, <1>1, <1>2, <1>3, <1>4, <2>1 DEF TruncateWAL, Written, FlusherState, Pipeline,
       InFlight, Fixed, IdleFlusher
  <2>3. failed = {} => IF fl'.st \in {"invalidate", "write", "header"}
                      THEN wal' = LogOfTxn' ELSE wal'.no = hdr'
    BY <1>15, <1>2, <1>3 DEF TruncateWAL, Contents, FlusherState, InFlight, LogOfTxn, fileVars, IdleFlusher
  <2>. QED
    BY <1>1, <2>1, <2>2, <2>3 DEF Contents, LogOfTxn, Fixed
<1>16. CASE RevertOverlay
  BY <1>16 DEF RevertOverlay, Failures, Contents
<1>17. CASE RevertStaged
  BY <1>17 DEF RevertStaged, Failures, Contents
<1>18. CASE StopFlusher
  <2>1. /\ txn' = txn /\ committed' = committed /\ Dirty' = Dirty /\ failed' = failed /\ disk' = disk /\ overlay' = overlay
    BY <1>18, <1>1 DEF StopFlusher, Dirty, histVars, fileVars
  <2>2. Written' = Written
    BY <1>18, <1>1, <1>2, <1>3, <1>4, <2>1 DEF StopFlusher, Written, FlusherState, Pipeline,
       InFlight, Fixed, IdleFlusher
  <2>3. failed = {} => IF fl'.st \in {"invalidate", "write", "header"}
                      THEN wal' = LogOfTxn' ELSE wal'.no = hdr'
    BY <1>18, <1>2, <1>3 DEF StopFlusher, Contents, FlusherState, InFlight, LogOfTxn, fileVars, IdleFlusher
  <2>. QED
    BY <1>1, <2>1, <2>2, <2>3 DEF Contents, LogOfTxn, Fixed
<1>19. CASE FailBatch
  BY <1>19 DEF FailBatch, Contents
<1>20. ASSUME NEW r \in Reader, StartView(r) \/ EndView(r) \/ FillCache(r) PROVE Contents'
  BY <1>20, <1>1 DEF StartView, EndView, FillCache, Contents, LogOfTxn, Written, Dirty, Fixed, fileVars,
     groupVars, histVars
<1>21. ASSUME NEW r \in Reader, NEW p \in env.pages, ReadPage(r, p) PROVE Contents'
  BY <1>21, <1>1 DEF ReadPage, Contents, LogOfTxn, Written, Dirty, Fixed, fileVars, groupVars, histVars
<1>22. ASSUME NEW p \in env.pages, ReadInTxn(p) PROVE Contents'
  BY <1>22, <1>1 DEF ReadInTxn, Contents, LogOfTxn, Written, Dirty, Fixed, fileVars, groupVars, histVars
<1>23. CASE BeginClose \/ EndClose \/ StartBackup \/ CopyPage \/ CopyWAL \/ EndBackup
  BY <1>23, <1>1 DEF BeginClose, EndClose, StartBackup, CopyPage, CopyWAL, EndBackup, Contents,
     LogOfTxn, Written, Dirty, Fixed, fileVars, groupVars, histVars
<1>24. CASE UNCHANGED vars
  BY <1>24, <1>1 DEF vars, Contents, LogOfTxn, Written, Dirty, Fixed, fileVars, groupVars, histVars
<1>25. QED
  BY <1>5, <1>6, <1>7, <1>8, <1>9, <1>10, <1>11, <1>12, <1>13, <1>14, <1>15, <1>16, <1>17, <1>18,
     <1>19, <1>20, <1>21, <1>22, <1>23, <1>24 DEF Next, Flush

(* The empty log.                                                          *)
LEMMA LogWholeInit ==
  ASSUME Init
  PROVE  LogWhole
BY DEF Init, LogWhole, EmptyWAL

(* Only an error leaves a cut record.                                      *)
LEMMA LogWholeStep ==
  ASSUME LogWhole, [Next]_vars
  PROVE  LogWhole'
<1>1. CASE wal' = wal /\ failed' = failed
  BY <1>1 DEF LogWhole
<1>2. CASE WriteWAL
  BY <1>2 DEF WriteWAL, LogWhole
<1>3. CASE FailBatch
  BY <1>3 DEF FailBatch, LogWhole
<1>. QED
  BY <1>1, <1>2, <1>3 DEF Next, Flush, vars, StartView, EndView, FillCache, ReadPage, BeginWriteTxn,
     ReadInTxn, WritePage, AbortWriteTxn, EnqueueJob, FinishCommit, TakeJob, Invalidate, WritePrimary,
     WriteHeader, TruncateWAL, RevertOverlay, RevertStaged, StopFlusher, BeginClose,
     EndClose, StartBackup, CopyPage, CopyWAL, EndBackup, fileVars

-----------------------------------------------------------------------------
(* After a failure.                                                        *)

(* The empty database.                                                     *)
LEMMA AfterFailureInit ==
  ASSUME Init
  PROVE  AfterFailure
BY DEF Init, AfterFailure

(* What is written belongs to the job: all of it before the header.        *)
LEMMA WrittenDirty ==
  ASSUME TypeOK, Pipeline, InFlight
  PROVE  /\ Written \subseteq Dirty
         /\ fl.st \in {"header", "truncate"} => Written = Dirty
         /\ fl.st = "wal" => Written = {}
<1>1. /\ fl.job.pages = txn.dirty /\ done = "none" /\ fl.i \in Nat \ {0} /\ txn.dirty \in Seq(Pages)
      /\ fl.st \in {"invalidate", "write"} => fl.i <= Len(txn.dirty)
  BY DEF Pipeline, JobOfTxn, TypeOK, FlusherState, WriteTxn
<1>2. fl.st \in {"header", "truncate"} => Written = Dirty
  BY DirtyPages DEF Written
<1>3. fl.st = "wal" => Written = {}
  BY <1>1 DEF Written
<1>4. ASSUME NEW p \in Written, fl.st \in {"invalidate", "write"}
      PROVE  p \in Dirty
  <2>1. PICK k \in 1..(fl.i - 1) : p = txn.dirty[k]
    BY <1>1, <1>4 DEF Written
  <2>. QED
    BY <1>1, <1>4, <2>1 DEF Dirty, ToSet
<1>. QED
  BY <1>2, <1>3, <1>4 DEF InFlight

(* An I/O error at any step of the pipeline leaves files that restore the  *)
(* contents before or after the commit, or a log that Open refuses; and    *)
(* nothing touches the files until another transaction is enqueued.        *)
LEMMA AfterFailureStep ==
  ASSUME TypeOK, Pipeline, Failures, Intended, Contents, AfterFailure, [Next]_vars
  PROVE  AfterFailure'
<1>1. Fixed
  BY TypesFixed
<1>2. /\ txn \in WriteTxn /\ fl \in FlusherState /\ disk \in [Pages -> Image] /\ hdr \in Nat /\ wal \in Log
      /\ committed \in [Pages -> Nat] /\ failed \in SUBSET Nat
  BY DEF TypeOK
<1>3. InFlight => fl.job.no = txn.no /\ fl.job.pages = txn.dirty
  BY DEF Pipeline, JobOfTxn
<1>4. ASSUME NEW k \in {"update", "maintenance"}, BeginWriteTxn(k) PROVE AfterFailure'
  BY <1>4, <1>1, <1>2, <1>3 DEF BeginWriteTxn, WriteTxn, FlusherState, Failures, Pipeline, InFlight,
     AfterFailure, Restores, Replayed, Refuses, Fixed, fileVars, groupVars, histVars
<1>5. ASSUME NEW p \in env.pages, WritePage(p) PROVE AfterFailure'
  BY <1>5, <1>1, <1>2, <1>3 DEF WritePage, WriteTxn, FlusherState, Failures, Pipeline, InFlight,
     AfterFailure, Restores, Replayed, Refuses, Fixed, fileVars, groupVars, histVars
<1>6. CASE AbortWriteTxn
  BY <1>6, <1>1, <1>2, <1>3 DEF AbortWriteTxn, WriteTxn, FlusherState, Failures, Pipeline, InFlight,
     AfterFailure, Restores, Replayed, Refuses, Fixed, fileVars, groupVars, histVars
<1>7. CASE EnqueueJob
  BY <1>7, <1>1, <1>2, <1>3 DEF EnqueueJob, WriteTxn, FlusherState, Failures, Pipeline, InFlight,
     AfterFailure, Restores, Replayed, Refuses, Fixed, fileVars, groupVars, histVars
<1>8. CASE FinishCommit
  BY <1>8, <1>1, <1>2, <1>3 DEF FinishCommit, WriteTxn, FlusherState, Failures, Pipeline, InFlight,
     AfterFailure, Restores, Replayed, Refuses, Fixed, fileVars, groupVars, histVars
<1>9. CASE WriteWAL
  BY <1>9, <1>1, <1>2, <1>3 DEF WriteWAL, WriteTxn, FlusherState, Failures, Pipeline, InFlight,
     AfterFailure, Restores, Replayed, Refuses, Fixed, fileVars, groupVars, histVars
<1>10. CASE WritePrimary
  BY <1>10, <1>1, <1>2, <1>3 DEF WritePrimary, WriteTxn, FlusherState, Failures, Pipeline, InFlight,
     AfterFailure, Restores, Replayed, Refuses, Fixed, fileVars, groupVars, histVars
<1>11. CASE WriteHeader
  BY <1>11, <1>1, <1>2, <1>3 DEF WriteHeader, WriteTxn, FlusherState, Failures, Pipeline, InFlight,
     AfterFailure, Restores, Replayed, Refuses, Fixed, fileVars, groupVars, histVars
<1>12. CASE FailBatch
  <2> DEFINE n == txn.no
  <2>1. /\ fl.st \in {"wal", "write", "header", "truncate"} /\ txn.st = "wait" /\ fl.job.no = n
        /\ fl.job.pages = txn.dirty /\ n \in Nat /\ done = "none"
    BY <1>12, <1>2, <1>3 DEF FailBatch, InFlight, Pipeline, WriteTxn
  <2>2. txn' = txn /\ committed' = committed /\ candidate' = candidate /\ failed' = failed \cup {n} /\ Pages' = Pages
    BY <1>12, <1>1, <2>1 DEF FailBatch, histVars, Fixed
  <2>3. CASE failed # {}
    <3>1. n \notin failed
      BY <2>1 DEF Failures
    <3>. QED
      BY <2>2, <2>3, <3>1 DEF AfterFailure
  <2>4. CASE failed = {}
    <3>1. (\A p \in Pages : candidate[p] = IF p \in Dirty THEN n ELSE committed[p]) /\ (fl.st # "truncate" => hdr < n)
      BY <2>1 DEF Intended, AfterJob
    <3>2. /\ \A p \in Pages : disk[p] = IF p \in Written THEN n ELSE committed[p]
          /\ fl.st \in {"write", "header"} => wal = LogOfTxn
          /\ fl.st \in {"wal", "truncate"} => wal.no = hdr
      BY <2>4 DEF Contents
    <3>3. /\ Written \subseteq Dirty /\ (fl.st \in {"header", "truncate"} => Written = Dirty) /\ (fl.st = "wal" => Written = {})
      BY <2>1, WrittenDirty DEF InFlight
    <3>4. wal.no \in Nat /\ hdr \in Nat /\ ToSet(txn.dirty) = Dirty
      BY <1>2 DEF Log, Dirty
    <3>5. CASE fl.st = "wal"
      <4>1. disk' = disk /\ hdr' = hdr /\ n > hdr
        BY <1>12, <2>1, <3>1, <3>4, <3>5 DEF FailBatch, Partial
      <4>2. \A p \in Pages : disk[p] = committed[p]
        BY <3>2, <3>3, <3>5
      <4>3. CASE wal' = wal
        <5>1. ~(wal.no > hdr)
          BY <3>2, <3>4, <3>5
        <5>. QED
          BY <2>2, <4>1, <4>2, <4>3, <5>1 DEF AfterFailure, Restores, Replayed
      <4>4. CASE wal' # wal
        <5>1. PICK k \in 0..Len(txn.dirty), torn \in BOOLEAN, marked \in BOOLEAN : Appended(k, torn, marked)
          BY <1>12, <2>1, <3>5 DEF FailBatch, Partial
        <5>2. wal' = [no |-> n, pages |-> SubSeq(txn.dirty, 1, k), torn |-> torn, marked |-> marked]
          BY <2>1, <4>4, <5>1 DEF Appended
        <5>3. wal'.no = n /\ wal'.pages = SubSeq(txn.dirty, 1, k) /\ wal'.torn = torn /\ wal'.marked = marked
          BY <5>2
        <5>4. CASE torn
          BY <5>3, <5>4 DEF AfterFailure, Refuses
        <5>5. CASE env.v3 /\ ~marked
          BY <1>1, <4>1, <5>3, <5>5 DEF AfterFailure, Refuses, Fixed
        <5>6. CASE marked
          <6>1. wal'.pages = txn.dirty
            BY <1>2, <2>1, <5>1, <5>3, <5>6 DEF Appended, WriteTxn
          <6>. QED
            BY <2>2, <3>1, <3>4, <4>1, <4>2, <5>3, <6>1 DEF AfterFailure, Restores, Replayed
        <5>7. CASE ~env.v3
          <6>1. ASSUME NEW p \in ToSet(wal'.pages)
                PROVE  p \in Dirty
            BY <1>2, <5>1, <5>3 DEF WriteTxn, Dirty, ToSet
          <6>2. \A p \in Pages : Replayed(disk', hdr', wal', p) \in {committed[p], candidate[p]}
            BY <3>1, <3>4, <4>1, <4>2, <5>3, <6>1 DEF Replayed
          <6>. QED
            BY <1>1, <2>2, <5>7, <6>2 DEF AfterFailure, Fixed
        <5>. QED
          BY <5>4, <5>5, <5>6, <5>7
      <4>. QED
        BY <4>3, <4>4
    <3>6. CASE fl.st = "write"
      <4>1. PICK x : disk' = [disk EXCEPT ![fl.job.pages[fl.i]] = x]
        BY <1>12, <3>6 DEF FailBatch, Partial
      <4>2. hdr' = hdr /\ wal' = wal /\ wal.no = n /\ wal.pages = txn.dirty /\ n > hdr
        BY <1>12, <2>1, <3>1, <3>2, <3>4, <3>6 DEF FailBatch, Partial, LogOfTxn
      <4>3. fl.job.pages[fl.i] \in Dirty
        BY <1>2, <2>1, <3>6 DEF Pipeline, FlusherState, WriteTxn, Dirty, ToSet
      <4>4. \A p \in Pages : p \notin Dirty => disk'[p] = committed[p]
        BY <1>2, <3>2, <3>3, <4>1, <4>3
      <4>. QED
        BY <2>2, <3>1, <3>4, <4>2, <4>4 DEF AfterFailure, Restores, Replayed, Refuses
    <3>7. CASE fl.st = "header"
      <4>1. disk' = disk /\ wal' = wal /\ wal.no = n /\ wal.pages = txn.dirty
        BY <1>12, <2>1, <3>2, <3>7 DEF FailBatch, Partial, LogOfTxn
      <4>2. \A p \in Pages : disk[p] = candidate[p]
        BY <3>1, <3>2, <3>3, <3>7
      <4>. QED
        BY <2>2, <3>1, <3>4, <4>1, <4>2 DEF AfterFailure, Restores, Replayed, Refuses
    <3>8. CASE fl.st = "truncate"
      <4>1. disk' = disk /\ wal' = wal /\ hdr' = hdr /\ ~(wal.no > hdr)
        BY <1>12, <2>1, <3>2, <3>4, <3>8 DEF FailBatch, Partial, fileVars
      <4>2. \A p \in Pages : disk[p] = candidate[p]
        BY <3>1, <3>2, <3>3, <3>8
      <4>. QED
        BY <2>2, <4>1, <4>2 DEF AfterFailure, Restores, Replayed, Refuses
    <3>. QED
      BY <2>1, <3>5, <3>6, <3>7, <3>8
  <2>. QED
    BY <2>3, <2>4
<1>13. ASSUME NEW r \in Reader, StartView(r) \/ EndView(r) \/ FillCache(r) PROVE AfterFailure'
  BY <1>13, <1>1 DEF StartView, EndView, FillCache, AfterFailure, Restores, Replayed, Refuses, Fixed, fileVars,
     groupVars, histVars
<1>14. ASSUME NEW r \in Reader, NEW p \in env.pages, ReadPage(r, p) PROVE AfterFailure'
  BY <1>14, <1>1 DEF ReadPage, AfterFailure, Restores, Replayed, Refuses, Fixed, fileVars, groupVars, histVars
<1>15. ASSUME NEW p \in env.pages, ReadInTxn(p) PROVE AfterFailure'
  BY <1>15, <1>1 DEF ReadInTxn, AfterFailure, Restores, Replayed, Refuses, Fixed, fileVars, groupVars, histVars
<1>16. CASE TakeJob \/ Invalidate \/ TruncateWAL \/ RevertOverlay \/ RevertStaged \/ StopFlusher \/
     BeginClose \/ EndClose \/ StartBackup \/ CopyPage \/ CopyWAL \/ EndBackup
  BY <1>16, <1>1 DEF TakeJob, Invalidate, TruncateWAL, RevertOverlay, RevertStaged, StopFlusher,
     BeginClose, EndClose, StartBackup, CopyPage, CopyWAL, EndBackup, AfterFailure, Restores, Replayed, Refuses, Fixed,
     fileVars, groupVars, histVars
<1>17. CASE UNCHANGED vars
  BY <1>17, <1>1 DEF vars, AfterFailure, Restores, Replayed, Refuses, Fixed, fileVars, groupVars, histVars
<1>18. QED
  BY <1>4, <1>5, <1>6, <1>7, <1>8, <1>9, <1>10, <1>11, <1>12, <1>13, <1>14, <1>15, <1>16, <1>17 DEF
     Next, Flush

-----------------------------------------------------------------------------
(* Readers and backups.                                                    *)

(* Nobody has read anything.                                               *)
LEMMA GivenInit ==
  ASSUME Init
  PROVE  Given
BY DEF Init, Given, NoView

(* A reader meets the last commit, whichever of overlay, cache and primary *)
(* answers it, and no commit happens while it is inside View.              *)
LEMMA GivenStep ==
  ASSUME TypeOK, Locked, Pipeline, CacheExact, NoOlder, Contents, Given, [Next]_vars
  PROVE  Given'
<1>1. Fixed
  BY TypesFixed
<1>2. view \in [Reader -> Reading]
  BY DEF TypeOK
<1>3. ASSUME NEW r \in Reader, StartView(r) PROVE Given'
  BY <1>3, <1>1, <1>2 DEF StartView, Reading, Given, Fixed, fileVars, groupVars, histVars
<1>4. ASSUME NEW r \in Reader, EndView(r) PROVE Given'
  BY <1>4, <1>1, <1>2 DEF EndView, Reading, Given, Fixed, NoView, fileVars, groupVars, histVars
<1>5. ASSUME NEW r \in Reader, FillCache(r) PROVE Given'
  BY <1>5, <1>1, <1>2 DEF FillCache, Reading, Given, Fixed, fileVars, groupVars, histVars
<1>6. ASSUME NEW r \in Reader, NEW p \in env.pages, ReadPage(r, p) PROVE Given'
  <2>1. p \in Pages /\ committed' = committed /\ failed' = failed /\ txn.st # "wait"
    BY <1>6, ReadersOut DEF ReadPage, Pages, histVars
  <2>2. /\ disk[p] # Torn => committed[p] <= disk[p]
        /\ overlay[p] # None => committed[p] <= overlay[p]
        /\ failed = {} => disk[p] = committed[p] /\ overlay[p] = None
    <3>1. Written = {}
      BY <2>1 DEF Written, Pipeline, InFlight
    <3>. QED
      BY <2>1, <3>1 DEF NoOlder, Between, Contents
  <2>3. overlay[p] = None /\ Cached(cache, p) => cache.ent[p].img = disk[p]
    BY <2>1 DEF CacheExact
  <2>4. \E x : /\ view'[r].got = <<p, x>> /\ view'[r].st # "none"
               /\ x # Torn => committed[p] <= x
               /\ failed = {} => x = committed[p]
    <3>1. CASE overlay[p] # None
      <4>1. view' = [view EXCEPT ![r].got = <<p, overlay[p]>>] /\ view[r].st = "open"
        BY <1>6, <3>1 DEF ReadPage
      <4>2. view'[r].got = <<p, overlay[p]>> /\ view'[r].st = "open"
        BY <1>2, <4>1 DEF Reading
      <4>. QED
        BY <2>2, <3>1, <4>2
    <3>2. CASE overlay[p] = None /\ Cached(cache, p)
      <4>1. view' = [view EXCEPT ![r].got = <<p, disk[p]>>] /\ view[r].st = "open"
        BY <1>6, <2>3, <3>2 DEF ReadPage
      <4>2. view'[r].got = <<p, disk[p]>> /\ view'[r].st = "open"
        BY <1>2, <4>1 DEF Reading
      <4>. QED
        BY <2>2, <4>2
    <3>3. CASE overlay[p] = None /\ ~Cached(cache, p)
      <4>1. view' = [view EXCEPT ![r] = [st |-> "fill", page |-> p, img |-> disk[p], got |-> <<p, disk[p]>>]]
        BY <1>6, <3>3 DEF ReadPage
      <4>2. view'[r].got = <<p, disk[p]>> /\ view'[r].st = "fill"
        BY <1>2, <4>1
      <4>. QED
        BY <2>2, <4>2
    <3>. QED
      BY <3>1, <3>2, <3>3
  <2>5. \A q \in Reader : q # r => view'[q].got = view[q].got /\ view'[q].st = view[q].st
    BY <1>6, <1>2 DEF ReadPage
  <2>6. ASSUME NEW q \in Reader, view'[q].got # <<>>
        PROVE  /\ view'[q].st # "none"
               /\ failed = {} => view'[q].got[2] = committed[view'[q].got[1]]
               /\ view'[q].got[2] # Torn => committed[view'[q].got[1]] <= view'[q].got[2]
    BY <2>4, <2>5, <2>6 DEF Given
  <2>. QED
    BY <1>1, <2>1, <2>6 DEF Given, Fixed
<1>7. CASE EnqueueJob
  BY <1>7 DEF EnqueueJob, Given
<1>8. CASE FinishCommit
  <2>1. view' = view /\ \A r \in Reader : view[r].got = <<>>
    BY <1>8, ReadersOut DEF FinishCommit, Given
  <2>. QED
    BY <2>1 DEF Given
<1>9. CASE FailBatch
  BY <1>9, <1>1, <1>2 DEF FailBatch, Reading, Given, Fixed, fileVars, groupVars, histVars
<1>10. ASSUME NEW k \in {"update", "maintenance"}, BeginWriteTxn(k) PROVE Given'
  BY <1>10, <1>1 DEF BeginWriteTxn, Given, Fixed, fileVars, groupVars, histVars
<1>11. ASSUME NEW p \in env.pages, ReadInTxn(p) \/ WritePage(p) PROVE Given'
  BY <1>11, <1>1 DEF ReadInTxn, WritePage, Given, Fixed, fileVars, groupVars, histVars
<1>12. CASE AbortWriteTxn \/ TakeJob \/ WriteWAL \/ Invalidate \/ WritePrimary \/ WriteHeader \/
     TruncateWAL \/ RevertOverlay \/ RevertStaged \/ StopFlusher \/ BeginClose \/ EndClose \/
     StartBackup \/ CopyPage \/ CopyWAL \/ EndBackup
  BY <1>12, <1>1 DEF AbortWriteTxn, TakeJob, WriteWAL, Invalidate, WritePrimary, WriteHeader,
     TruncateWAL, RevertOverlay, RevertStaged, StopFlusher, BeginClose, EndClose, StartBackup,
     CopyPage, CopyWAL, EndBackup, Given, Fixed, fileVars, groupVars, histVars
<1>13. CASE UNCHANGED vars
  BY <1>13, <1>1 DEF vars, Given, Fixed, fileVars, groupVars, histVars
<1>14. QED
  BY <1>3, <1>4, <1>5, <1>6, <1>7, <1>8, <1>9, <1>10, <1>11, <1>12, <1>13 DEF Next, Flush

(* No backup at first.                                                     *)
LEMMA CopiedInit ==
  ASSUME Init
  PROVE  Copied
BY DEF Init, Copied, NoBackup

(* One element more.                                                       *)
LEMMA AppendIs ==
  ASSUME NEW S, NEW b \in Seq(S), NEW x
  PROVE  /\ Len(Append(b, x)) = Len(b) + 1
         /\ \A p \in 1..(Len(b) + 1) : Append(b, x)[p] = IF p = Len(b) + 1 THEN x ELSE b[p]
OBVIOUS

(* Nothing writes the files while BackupTo copies them.                    *)
LEMMA CopiedStep ==
  ASSUME TypeOK, Locked, Pipeline, Copied, [Next]_vars
  PROVE  Copied'
<1>1. Fixed
  BY TypesFixed
<1>2. backup \in Backup
  BY DEF TypeOK
<1>4. CASE WriteWAL
  <2>1. backup' = backup /\ backup.st = "none"
    BY <1>4, ReadersOut DEF WriteWAL, Pipeline, InFlight
  <2>. QED
    BY <2>1 DEF Copied
<1>5. CASE WritePrimary
  <2>1. backup' = backup /\ backup.st = "none"
    BY <1>5, ReadersOut DEF WritePrimary, Pipeline, InFlight
  <2>. QED
    BY <2>1 DEF Copied
<1>6. CASE WriteHeader
  <2>1. backup' = backup /\ backup.st = "none"
    BY <1>6, ReadersOut DEF WriteHeader, Pipeline, InFlight
  <2>. QED
    BY <2>1 DEF Copied
<1>7. CASE FailBatch
  <2>1. backup' = backup /\ backup.st = "none"
    BY <1>7, ReadersOut DEF FailBatch, Pipeline, InFlight
  <2>. QED
    BY <2>1 DEF Copied
<1>8. CASE StartBackup
  BY <1>8, <1>1, <1>2, PagesAre DEF StartBackup, NoBackup, Copied, Fixed, fileVars
<1>9. CASE CopyPage
  <2> DEFINE b == backup.pages
             x == disk[Len(b) + 1]
  <2>1. /\ backup' = [backup EXCEPT !.pages = Append(b, x)] /\ backup.st = "copying"
        /\ b \in Seq(Image) /\ Len(b) + 1 <= Cardinality(Pages) /\ disk' = disk /\ hdr' = hdr /\ Cardinality(Pages) \in Nat
    BY <1>9, <1>2, PagesAre DEF CopyPage, Backup, Pages, fileVars
  <2>2. /\ backup'.pages = Append(b, x) /\ backup'.st = "copying" /\ backup'.hdr = backup.hdr
    BY <1>2, <2>1 DEF Backup
  <2>3. Len(Append(b, x)) = Len(b) + 1 /\ \A p \in 1..(Len(b) + 1) : Append(b, x)[p] = IF p = Len(b) + 1 THEN x ELSE b[p]
    BY <2>1, AppendIs
  <2>4. \A p \in 1..(Len(b) + 1) : Append(b, x)[p] = disk[p]
    BY <2>1, <2>3 DEF Copied
  <2> HIDE DEF x
  <2>. QED
    BY <1>1, <2>1, <2>2, <2>3, <2>4 DEF Copied, Fixed
<1>10. CASE CopyWAL
  BY <1>10, <1>1, <1>2 DEF CopyWAL, Copied, Backup, Fixed, fileVars, Pages
<1>11. CASE EndBackup
  BY <1>11 DEF EndBackup, NoBackup, Copied
<1>12. ASSUME NEW r \in Reader, StartView(r) \/ EndView(r) \/ FillCache(r) PROVE Copied'
  BY <1>12, <1>1 DEF StartView, EndView, FillCache, Copied, Fixed, fileVars, groupVars, histVars
<1>13. ASSUME NEW r \in Reader, NEW p \in env.pages, ReadPage(r, p) PROVE Copied'
  BY <1>13, <1>1 DEF ReadPage, Copied, Fixed, fileVars, groupVars, histVars
<1>14. ASSUME NEW k \in {"update", "maintenance"}, BeginWriteTxn(k) PROVE Copied'
  BY <1>14, <1>1 DEF BeginWriteTxn, Copied, Fixed, fileVars, groupVars, histVars
<1>15. ASSUME NEW p \in env.pages, ReadInTxn(p) \/ WritePage(p) PROVE Copied'
  BY <1>15, <1>1 DEF ReadInTxn, WritePage, Copied, Fixed, fileVars, groupVars, histVars
<1>16. CASE AbortWriteTxn \/ EnqueueJob \/ FinishCommit \/ TakeJob \/ Invalidate \/ TruncateWAL \/
     RevertOverlay \/ RevertStaged \/ StopFlusher \/ BeginClose \/ EndClose
  BY <1>16, <1>1 DEF AbortWriteTxn, EnqueueJob, FinishCommit, TakeJob, Invalidate, TruncateWAL,
     RevertOverlay, RevertStaged, StopFlusher, BeginClose, EndClose, Copied, Fixed, fileVars,
     groupVars, histVars
<1>17. CASE UNCHANGED vars
  BY <1>17, <1>1 DEF vars, Copied, Fixed, fileVars, groupVars, histVars
<1>18. QED
  BY <1>4, <1>5, <1>6, <1>7, <1>8, <1>9, <1>10, <1>11, <1>12, <1>13, <1>14, <1>15, <1>16, <1>17 DEF
     Next, Flush

-----------------------------------------------------------------------------
(* The theorems.                                                           *)

(* The conjunction of the parts is inductive.                              *)
IInv ==
  /\ TypeOK
  /\ CacheRest
  /\ Locked
  /\ Pipeline
  /\ Failures
  /\ CacheExact
  /\ NoOlder
  /\ Intended
  /\ Contents
  /\ LogWhole
  /\ AfterFailure
  /\ Given
  /\ Copied

(* The invariant holds in every reachable state.                           *)
LEMMA Inductive == Spec => []IInv
<1>1. Init => IInv
  BY TypeInit, CacheInit, LockedInit, PipelineInit, FailuresInit, CacheExactInit, NoOlderInit,
     IntendedInit,
     ContentsInit, LogWholeInit, AfterFailureInit, GivenInit, CopiedInit DEF IInv
<1>2. IInv /\ [Next]_vars => IInv'
  BY TypeStep, CacheStep, LockedStep, PipelineStep, FailuresStep, CacheExactStep, NoOlderStep,
     IntendedStep,
     ContentsStep, LogWholeStep, AfterFailureStep, GivenStep, CopiedStep DEF IInv
<1>. QED
  BY <1>1, <1>2, PTL DEF Spec

(* The variables have their types: what the readers, the writer, the       *)
(* flusher, Close and BackupTo may do to them never leaves the model.      *)
THEOREM TypeCorrect == Spec => []TypeOK
<1>1. IInv => TypeOK
  BY DEF IInv
<1>. QED
  BY <1>1, Inductive, PTL

(* Whatever is read, invalidated and evicted (page_cache.go), the loops    *)
(* over the ring end, the counters are those of the entries and within the *)
(* budget, and the hands point into the ring.                              *)
THEOREM CacheAlwaysSound == Spec => []CacheSound
<1>1. IInv => CacheSound
  BY SoundAtRest DEF IInv, CacheRest, CacheSound
<1>. QED
  BY <1>1, Inductive, PTL

(* DB.mu: a write transaction, from BeginWriteTxn until its waiter is      *)
(* answered, and Close exclude each other, every View and every BackupTo.  *)
THEOREM LockExcludes == Spec => []Locked
<1>1. IInv => Locked
  BY DEF IInv
<1>. QED
  BY <1>1, Inductive, PTL

(* The cache holds what the primary holds: the flusher invalidates a page  *)
(* before it writes it (writePrimaryData), and nobody can put the old      *)
(* image back in between.                                                  *)
THEOREM CacheCoherent == Spec => []CacheExact
<1>1. IInv => CacheExact
  BY DEF IInv
<1>. QED
  BY <1>1, Inductive, PTL

(* A View reads the last committed image of every page (readPagePooled),   *)
(* and after failed commits never an older one.                            *)
THEOREM ViewsReadCommitted == Spec => []ReadsCommitted
<1>1. IInv => ReadsCommitted
  BY DEF IInv, Given, ReadsCommitted, Healthy
<1>. QED
  BY <1>1, Inductive, PTL

(* BackupTo copies the last commit; after one failed commit a log that     *)
(* Open refuses or the contents before or after it, in v1 and v2 page by   *)
(* page.                                                                   *)
THEOREM BackupsWhole == Spec => []BackupWhole
<1>1. ASSUME IInv, backup.st = "complete", failed \subseteq {txn.no}
      PROVE  IF Healthy THEN ~Refused /\ Restored = committed
             ELSE \/ Refused
                  \/ Restored \in {committed, candidate}
                  \/ ~env.v3 /\ \A p \in env.pages : Restored[p] \in {committed[p], candidate[p]}
  <2>1. /\ backup.wal = wal /\ backup.hdr = hdr
        /\ \A p \in Pages : backup.pages[p] = disk[p]
        /\ committed \in [Pages -> Nat] /\ candidate \in [Pages -> Nat] /\ wal \in Log /\ hdr \in Nat
    BY <1>1, PagesAre DEF IInv, Copied, TypeOK
  <2>2. Restored = [p \in Pages |-> Replayed(disk, hdr, wal, p)]
    BY <2>1 DEF Restored, Replayed, Pages
  <2>3. Refused <=> Refuses(hdr, wal)
    BY <2>1 DEF Refused, Refuses
  <2>4. ASSUME NEW c \in [Pages -> Nat], Restores(disk, hdr, wal, c)
        PROVE  Restored = c
    BY <2>2, <2>4 DEF Restores
  <2>5. CASE failed = {txn.no}
    <3>1. ~Healthy
      BY <2>5 DEF Healthy
    <3>2. AfterFailure
      BY <1>1 DEF IInv
    <3>3. CASE ~env.v3 /\ \A p \in Pages : Replayed(disk, hdr, wal, p) \in {committed[p], candidate[p]}
      BY <2>2, <3>1, <3>3 DEF Pages
    <3>. QED
      BY <2>1, <2>3, <2>4, <2>5, <3>1, <3>2, <3>3 DEF AfterFailure
  <2>6. CASE failed = {}
    <3>1. txn.st # "wait"
      BY <1>1, ReadersOut DEF IInv
    <3>2. Written = {} /\ fl.st \notin {"invalidate", "write", "header"}
      BY <1>1, <3>1 DEF IInv, Written, Pipeline, InFlight
    <3>3. wal.no = hdr /\ ~wal.torn /\ \A p \in Pages : disk[p] = committed[p]
      BY <1>1, <2>6, <3>2 DEF IInv, Contents, LogWhole
    <3>4. Restores(disk, hdr, wal, committed) /\ ~Refuses(hdr, wal)
      BY <2>1, <3>3 DEF Restores, Replayed, Refuses
    <3>. QED
      BY <2>1, <2>3, <2>4, <2>6, <3>4 DEF Healthy
  <2>. QED
    BY <1>1, <2>5, <2>6
<1>2. IInv => BackupWhole
  BY <1>1 DEF BackupWhole
<1>. QED
  BY <1>2, Inductive, PTL
=============================================================================
