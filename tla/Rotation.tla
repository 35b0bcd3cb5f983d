------------------------------ MODULE Rotation ------------------------------
(***************************************************************************)
(* RotateEncryption: an offline copy of the database under a new           *)
(* credential and the replacement of its files, with the recovery of an    *)
(* interrupted replacement (rotation.go).                                  *)
(*                                                                         *)
(* The file system is a directory of names.  A crash may come after every  *)
(* operation on it: "kill" keeps all of them, "power" may lose those that  *)
(* SyncParents has not yet confirmed.  The changelog is enabled; without   *)
(* it the steps on the log files are left out.  A temporary primary and    *)
(* its WAL come and go together and are one name.                          *)
(***************************************************************************)
EXTENDS Integers, Sequences, FiniteSets

CONSTANTS
  Absent,        \* no file under a name
  BatchSize,     \* RotateOptions.BatchSize
  TidyOperator,  \* a leftover .rotate.bak is removed before the next rotation
  SyncErrors,    \* SyncParents may fail as well as the operations
  CrashKinds,    \* subset of {"kill", "power"}
  MaxUpdates,    \* bound: updates of the application
  MaxAttempts,   \* bound: calls of RotateEncryption
  MaxFailures,   \* bound: I/O errors
  MaxCrashes     \* bound: crashes

ASSUME RotationAssumption ==
  /\ BatchSize \in Nat \ {0}
  /\ TidyOperator \in BOOLEAN /\ SyncErrors \in BOOLEAN
  /\ CrashKinds \subseteq {"kill", "power"}
  /\ {MaxUpdates, MaxAttempts, MaxFailures, MaxCrashes} \subseteq Nat

VARIABLES
  files,      \* the directory as a process sees it: name -> content
  medium,     \* the directory on the medium
  unsynced,   \* the step under way has changed the directory since SyncParents
  phase,      \* idle, open, copy, mark, swap or recover
  step,       \* position in the script of the phase
  from,       \* last key the copy has read
  updates,    \* history: updates the application was told are durable
  attempts,   \* calls of RotateEncryption; also names the new credential
  promised,   \* history: the credential of the last rotation that was committed
  failures, crashes

dir == <<files, medium, unsynced>>
counters == <<updates, attempts, promised, failures, crashes>>
vars == <<dir, phase, step, from, counters>>

-----------------------------------------------------------------------------
Name == {"db", "bak", "tmp", "log", "logbak", "logtmp", "wal", "state"}

(* A row of the tree: the number of its commit, and which update wrote it. *)
Row == [seq : Nat, id : Nat]
Primary == [rows : SUBSET Row, head : Nat, cred : Nat]
Changelog == [frames : SUBSET Nat, cred : Nat]
WAL == [cred : Nat]
(* The marker, with its JSON or cut short. *)
State == [valid : BOOLEAN]

(* A missing file is different from every file. *)
ASSUME RotationValues == Absent \notin Primary \cup Changelog \cup WAL \cup State

Present(n) == files[n] # Absent
Pending == Present("state")

Init ==
  /\ files = [n \in Name |->
                CASE n = "db" -> [rows |-> {}, head |-> 0, cred |-> 0]
                  [] n = "log" -> [frames |-> {}, cred |-> 0]
                  [] OTHER -> Absent]
  /\ medium = files
  /\ unsynced = FALSE
  /\ phase = "idle" /\ step = 0 /\ from = 0
  /\ updates = 0 /\ attempts = 0 /\ promised = 0
  /\ failures = 0 /\ crashes = 0

(* Contents change under the commit protocol of the engine and are durable. *)
Write(n, content) ==
  /\ files' = [files EXCEPT ![n] = content]
  /\ medium' = [medium EXCEPT ![n] = content]

-----------------------------------------------------------------------------
(* The application.  Open refuses while the marker is there.               *)

Openable ==
  /\ ~Pending
  /\ Present("db") /\ Present("log")
  /\ files["log"].cred = files["db"].cred
  /\ files["wal"] \in {Absent, [cred |-> files["db"].cred]}

Open ==
  /\ phase = "idle" /\ Openable
  /\ phase' = "open"
  /\ Write("wal", [cred |-> files["db"].cred])
  /\ UNCHANGED <<unsynced, step, from, counters>>

(* One Update: a version row of a cell of its own and a frame of the log. *)
Update ==
  /\ phase = "open" /\ updates < MaxUpdates
  /\ LET db == files["db"]
         new == [db EXCEPT !.rows = @ \cup {[seq |-> db.head + 1, id |-> updates + 1]},
                           !.head = @ + 1]
         log == [files["log"] EXCEPT !.frames = @ \cup {updates + 1}]
     IN  /\ files' = [files EXCEPT !["db"] = new, !["log"] = log]
         /\ medium' = [medium EXCEPT !["db"] = new, !["log"] = log]
  /\ updates' = updates + 1
  /\ UNCHANGED <<unsynced, phase, step, from, attempts, promised, failures, crashes>>

Close ==
  /\ phase = "open"
  /\ phase' = "idle"
  /\ UNCHANGED <<dir, step, from, counters>>

(* The operator removes what ErrRotationCleanup reported. *)
RemoveLeftover(n) ==
  /\ TidyOperator
  /\ phase = "idle" /\ ~Pending /\ Present(n)
  /\ Write(n, Absent)
  /\ UNCHANGED <<unsynced, phase, step, from, counters>>

-----------------------------------------------------------------------------
(* The copy.                                                               *)

(* A pending rotation is rolled back first, by BeginRecovery. *)
BeginRotation ==
  /\ phase = "idle" /\ Openable
  /\ attempts < MaxAttempts
  /\ TidyOperator => ~Present("bak") /\ ~Present("logbak")
  /\ attempts' = attempts + 1
  /\ LET Fresh(d) == [d EXCEPT !["wal"] = [cred |-> files["db"].cred],
                               !["tmp"] = [rows |-> {}, head |-> 0, cred |-> attempts + 1],
                               !["logtmp"] = [frames |-> {}, cred |-> attempts + 1]]
     IN  files' = Fresh(files) /\ medium' = Fresh(medium)
  /\ phase' = "copy" /\ from' = 0
  /\ UNCHANGED <<unsynced, step, updates, promised, failures, crashes>>

(* The next rows of the source in key order. *)
Batch ==
  LET rest == {r \in files["db"].rows : r.id > from}
  IN  {r \in rest : Cardinality({s \in rest : s.id < r.id}) < BatchSize}

(* The head of the copy: dst.Update counts its own commits. *)
CopiedHead == files["tmp"].head + 1

CopyBatch ==
  /\ phase = "copy" /\ Batch # {}
  /\ Write("tmp", [files["tmp"] EXCEPT !.rows = @ \cup Batch, !.head = CopiedHead])
  /\ from' = CHOOSE k \in {r.id : r \in Batch} : \A r \in Batch : r.id <= k
  /\ UNCHANGED <<unsynced, phase, step, counters>>

(* CopyTo re-encrypts the log; both databases are closed. *)
FinishCopy ==
  /\ phase = "copy" /\ Batch = {}
  /\ Write("logtmp", [files["logtmp"] EXCEPT !.frames = files["log"].frames])
  /\ phase' = "mark" /\ step' = 1
  /\ UNCHANGED <<unsynced, from, counters>>

-----------------------------------------------------------------------------
(* writeRotationState.                                                     *)

CreateState ==
  /\ phase = "mark" /\ step = 1
  /\ files' = [files EXCEPT !["state"] = [valid |-> FALSE]]
  /\ unsynced' = TRUE /\ step' = 2
  /\ UNCHANGED <<medium, phase, from, counters>>

WriteState ==
  /\ phase = "mark" /\ step = 2
  /\ files' = [files EXCEPT !["state"] = [valid |-> TRUE]]
  /\ step' = 3
  /\ UNCHANGED <<medium, unsynced, phase, from, counters>>

SyncState ==
  /\ phase = "mark" /\ step = 3
  /\ medium' = files /\ unsynced' = FALSE
  /\ phase' = "swap" /\ step' = 1
  /\ UNCHANGED <<files, from, counters>>

-----------------------------------------------------------------------------
(* rotateSwapFiles and recoverInterruptedRotation, as scripts of file      *)
(* operations, each confirmed by SyncParents before the next.              *)

Rename(a, b) == [op |-> "rename", from |-> a, to |-> b, names |-> {}]
Remove(ns) == [op |-> "remove", from |-> "", to |-> "", names |-> ns]
(* restoreRotationFile: the backup replaces the file, if there is a backup. *)
Restore(n, backup) == [op |-> "restore", from |-> backup, to |-> n, names |-> {}]

Bug_ClearEarly ==
  << Remove({"bak"}), Rename("db", "bak"), Remove({"logbak"}), Rename("log", "logbak"),
     Rename("tmp", "db"), Rename("logtmp", "log"), Remove({"state"}), Remove({"wal"}),
     Remove({"bak", "logbak"}) >>

Bug_NoLogBackup ==
  << Remove({"bak"}), Rename("db", "bak"), Rename("tmp", "db"), Rename("logtmp", "log"),
     Remove({"wal"}), Remove({"state"}), Remove({"bak", "logbak"}) >>

Swap ==
  << Remove({"bak"}), Rename("db", "bak"), Remove({"logbak"}), Rename("log", "logbak"),
     Rename("tmp", "db"), Rename("logtmp", "log"), Remove({"wal"}), Remove({"state"}),
     Remove({"bak", "logbak"}) >>

Bug_MarkerKept ==
  << Restore("db", "bak"), Restore("log", "logbak"), Remove({"tmp", "logtmp"}) >>

Rollback ==
  << Restore("db", "bak"), Restore("log", "logbak"), Remove({"tmp", "logtmp"}),
     Remove({"state"}) >>

Script == IF phase = "swap" THEN Swap ELSE Rollback

Running(op) ==
  /\ phase \in {"swap", "recover"} /\ step <= Len(Script)
  /\ Script[step].op = op

Move(a, b) ==
  /\ Present(a) /\ ~unsynced
  /\ files' = [files EXCEPT ![b] = files[a], ![a] = Absent]
  /\ unsynced' = TRUE
  /\ UNCHANGED <<medium, phase, step, from, counters>>

Erase(n) ==
  /\ Present(n)
  /\ files' = [files EXCEPT ![n] = Absent]
  /\ unsynced' = TRUE
  /\ UNCHANGED <<medium, phase, step, from, counters>>

DoRename == Running("rename") /\ Move(Script[step].from, Script[step].to)

(* removeRotationFiles: a missing file is no error; one sync at the end. *)
DoRemove == Running("remove") /\ \E n \in Script[step].names : Erase(n)

DoRestore ==
  /\ Running("restore") /\ ~unsynced /\ Present(Script[step].from)
  /\ \/ Erase(Script[step].to)
     \/ ~Present(Script[step].to) /\ Move(Script[step].from, Script[step].to)

Done(s) ==
  CASE s.op = "rename" -> unsynced
    [] s.op = "remove" -> \A n \in s.names : ~Present(n)
    [] s.op = "restore" -> ~Present(s.from) /\ Present(s.to)

(* The rotation is committed when the marker is gone. *)
Commits == phase = "swap" /\ Script[step] = Remove({"state"})

Sync ==
  /\ phase \in {"swap", "recover"} /\ step <= Len(Script)
  /\ Done(Script[step]) \/ (unsynced /\ Running("restore"))
  /\ medium' = IF unsynced THEN files ELSE medium
  /\ unsynced' = FALSE
  /\ step' = IF Done(Script[step]) THEN step + 1 ELSE step
  /\ promised' = IF Commits THEN attempts ELSE promised
  /\ UNCHANGED <<files, phase, from, updates, attempts, failures, crashes>>

Finish ==
  /\ phase \in {"swap", "recover"} /\ step > Len(Script)
  /\ phase' = "idle" /\ step' = 0
  /\ UNCHANGED <<dir, from, counters>>

(* RecoverInterruptedRotation, or the start of the next RotateEncryption:  *)
(* refused when the marker cannot be parsed.                               *)
BeginRecovery ==
  /\ phase = "idle" /\ Pending /\ files["state"].valid
  /\ phase' = "recover" /\ step' = 1
  /\ UNCHANGED <<dir, from, counters>>

-----------------------------------------------------------------------------
(* I/O errors, at an operation or at its sync.                             *)

Fail ==
  /\ unsynced => SyncErrors
  /\ failures < MaxFailures /\ failures' = failures + 1
  /\ UNCHANGED <<medium, from, updates, attempts, promised, crashes>>

(* The copy is given up; its files stay until the next attempt. *)
CopyFails ==
  /\ phase = "copy" /\ Fail
  /\ phase' = "idle" /\ step' = 0
  /\ UNCHANGED <<files, unsynced>>

(* The marker is removed again. *)
MarkFails ==
  /\ phase = "mark" /\ Fail
  /\ files' = [files EXCEPT !["state"] = Absent]
  /\ unsynced' = FALSE
  /\ phase' = "idle" /\ step' = 0

Bug_NeverCommitted == FALSE

Committed == promised = attempts

(* Before the commit the swap is rolled back at once; after it the error   *)
(* is ErrRotationCleanup.                                                  *)
SwapFails ==
  /\ phase = "swap" /\ step <= Len(Swap) /\ Fail
  /\ IF Committed THEN phase' = "idle" /\ step' = 0
                  ELSE phase' = "recover" /\ step' = 1
  /\ unsynced' = FALSE
  /\ UNCHANGED files

(* ErrRotationIncomplete: the marker stays. *)
RecoveryFails ==
  /\ phase = "recover" /\ step <= Len(Rollback) /\ Fail
  /\ phase' = "idle" /\ step' = 0
  /\ unsynced' = FALSE
  /\ UNCHANGED files

-----------------------------------------------------------------------------
(* What a power loss leaves of the directory: a rename happened or not,    *)
(* removals are kept one by one, a marker may be cut short.                *)
Survivors ==
  IF \A n \in Name : files[n] \in {Absent, medium[n]}
  THEN {[n \in Name |-> IF n \in kept THEN medium[n] ELSE files[n]] : kept \in SUBSET Name}
  ELSE {files, medium} \cup
       (IF phase = "mark" THEN {[files EXCEPT !["state"] = [valid |-> FALSE]]} ELSE {})

Crash(kind) ==
  /\ crashes < MaxCrashes /\ crashes' = crashes + 1
  /\ files' \in IF kind = "kill" THEN {files} ELSE Survivors
  /\ medium' = IF kind = "kill" THEN medium ELSE files'
  /\ unsynced' = FALSE
  /\ phase' = "idle" /\ step' = 0
  /\ UNCHANGED <<from, updates, attempts, promised, failures>>

-----------------------------------------------------------------------------
Steps ==
  \/ CopyBatch \/ FinishCopy
  \/ CreateState \/ WriteState \/ SyncState
  \/ DoRename \/ DoRemove \/ DoRestore \/ Sync \/ Finish

Next ==
  \/ Open \/ Update \/ Close
  \/ \E n \in {"bak", "logbak"} : RemoveLeftover(n)
  \/ BeginRotation \/ BeginRecovery \/ Steps
  \/ CopyFails \/ MarkFails \/ SwapFails \/ RecoveryFails
  \/ \E kind \in CrashKinds : Crash(kind)

Spec == Init /\ [][Next]_vars

(***************************************************************************)
(* RotateEncryption runs straight through, and the operator follows        *)
(* docs/hexxladb/OPERATIONS.md: a pending rotation is recovered.           *)
(***************************************************************************)
FairSpec == Spec /\ WF_vars(Steps) /\ WF_vars(BeginRecovery)

-----------------------------------------------------------------------------
(***************************************************************************)
(* Whatever the crash point, a path without a marker holds one whole       *)
(* database: a primary with every acknowledged row, the log with every     *)
(* frame, under one credential, and no WAL of another primary.  With the   *)
(* file missing Open would create an empty database in its place.          *)
(***************************************************************************)
WholeDatabase ==
  phase = "idle" /\ ~Pending =>
    /\ Openable
    /\ {r.id : r \in files["db"].rows} = 1..updates
    /\ files["log"].frames = 1..updates

(***************************************************************************)
(* A retired credential never comes back: once a rotation was committed,   *)
(* no failure, crash or recovery restores the files under the old one.     *)
(***************************************************************************)
RetiredStaysRetired ==
  phase = "idle" /\ Openable => files["db"].cred >= promised

(***************************************************************************)
(* The swap keeps the old files until the commit: a valid marker always    *)
(* comes with what recovery needs to restore them, also when an earlier    *)
(* recovery was itself interrupted.                                        *)
(***************************************************************************)
OldFilesKept ==
  phase = "idle" /\ Pending =>
    LET old(n, backup) == IF Present(backup) THEN files[backup] ELSE files[n]
    IN  /\ Present("bak") \/ Present("db")
        /\ Present("logbak") \/ Present("log")
        /\ old("db", "bak").cred = old("log", "logbak").cred
        /\ {r.id : r \in old("db", "bak").rows} = 1..updates

(***************************************************************************)
(* compact.go: the destination must not be "observably different from the  *)
(* source": every row of the rotated primary is at or below its head.      *)
(***************************************************************************)
RowsVisible ==
  phase = "idle" /\ Openable => \A r \in files["db"].rows : r.seq <= files["db"].head

(***************************************************************************)
(* A marker that was synced is resolved: the replacement is committed or   *)
(* rolled back, and the database can be opened again.                      *)
(***************************************************************************)
MarkerResolved == (medium["state"] = [valid |-> TRUE]) ~> ~Pending
=============================================================================
