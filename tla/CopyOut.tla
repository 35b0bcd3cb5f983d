------------------------------- MODULE CopyOut -------------------------------
(***************************************************************************)
(* The operations that copy a database row by row into a new file:         *)
(* compaction, the migration of a v2 source to the authenticated format    *)
(* v3 (both mark the header of the destination until it is complete and    *)
(* remove it on an error, compact.go), and the resumable migration of a v1 *)
(* source to v2 or v3, which keeps a checkpoint row in the destination     *)
(* (migration.go).                                                         *)
(*                                                                         *)
(* The source cannot change while a copy runs: it is locked, or read under *)
(* DB.mu.  Between two calls it can.  A digest of the source is the source *)
(* itself.  The destination changes by whole commits of the engine.        *)
(***************************************************************************)
EXTENDS Integers, FiniteSets

CONSTANTS
  Absent, Empty,  \* destination: no file; a file that has no header yet
  NoCheckpoint,   \* no checkpoint row
  None,           \* no row under a key
  NoCall,         \* no copy is running
  Key,            \* keys of the source, in order
  LogKey,         \* those of the changefeed: head, outbox, checkpoint, consumers
  Owner,          \* the row an index row is derived from; other rows own themselves
  BatchSize,      \* rows of one transaction
  MaxEdits,       \* bound: changes of the source
  MaxFailures,    \* bound: errors and cancellations
  MaxCrashes      \* bound: crashes

ASSUME CopyOutAssumption ==
  /\ Key \subseteq Nat \ {0} /\ IsFiniteSet(Key)
  /\ LogKey \subseteq Key
  /\ Owner \in [Key -> Key]
  /\ \A k \in Key : Owner[Owner[k]] = Owner[k] /\ (k \in LogKey <=> Owner[k] \in LogKey)
  /\ BatchSize \in Nat \ {0}
  /\ {MaxEdits, MaxFailures, MaxCrashes} \subseteq Nat

VARIABLES
  format,     \* format version of the source
  source,     \* rows of the source
  head,       \* its CommitSeq
  dest,       \* the destination file
  call,       \* the running copy
  phase,      \* idle, compact, verify, close, migrate or rows
  pos,        \* last key handed to the destination
  versions,   \* history: every state of the source
  failures, crashes

vars == <<format, source, head, dest, call, phase, pos, versions, failures, crashes>>

-----------------------------------------------------------------------------
Format == 1..3
(* An index row has the value of the record it is derived from.            *)
Value == 0..MaxEdits
Rows == [Key -> Value \cup {None}]
(* reset: ResetChangelog; target: the format of the destination.           *)
Call == [op : {"compact", "authenticate", "migrate"}, target : Format, reset : BOOLEAN]
(* The checkpoint row: sourceDigest and lastKey. *)
Checkpoint == [digest : Rows, last : Nat]
(* mark: FeatureIncompleteCompaction; by: history, the call that made it.  *)
Database == [format : Format, rows : Rows, head : Nat, mark : BOOLEAN,
             cp : Checkpoint \cup {NoCheckpoint}, by : Call \cup {NoCall}]

ASSUME CopyOutValues ==
  /\ NoCheckpoint \notin Checkpoint
  /\ {Absent, Empty} \cap Database = {} /\ Absent # Empty

NoRows == [k \in Key |-> None]
New(version, mark, by) ==
  [format |-> version, rows |-> NoRows, head |-> 0, mark |-> mark, cp |-> NoCheckpoint, by |-> by]

Init ==
  /\ format \in Format
  /\ source = [k \in Key |-> IF k \in LogKey THEN None ELSE 0]
  /\ head = Cardinality(Key)
  /\ dest = Absent
  /\ call = NoCall /\ phase = "idle" /\ pos = 0
  /\ versions = {[rows |-> source, head |-> head]}
  /\ failures = 0 /\ crashes = 0

(* The exclusive lock of the source, or the read lock of DB.mu. *)
SourceLocked == phase # "idle"

(* The application changes a record of the source, and with it the index   *)
(* rows, between two calls; with the changelog enabled it leaves its rows. *)
EditSource(k, logged) ==
  /\ ~SourceLocked
  /\ head < Cardinality(Key) + MaxEdits
  /\ head' = head + 1
  /\ source' = [j \in Key |-> IF Owner[j] = k \/ (logged /\ j \in LogKey)
                              THEN head + 1 - Cardinality(Key) ELSE source[j]]
  /\ versions' = versions \cup {[rows |-> source', head |-> head']}
  /\ UNCHANGED <<format, dest, call, phase, pos, failures, crashes>>

(* The operator removes a destination, complete or not. *)
RemoveDestination ==
  /\ phase = "idle" /\ dest # Absent
  /\ dest' = Absent
  /\ UNCHANGED <<format, source, head, call, phase, pos, versions, failures, crashes>>

(* Open gives a file of length zero the header of a new database. *)
OpenEmpty ==
  /\ phase = "idle" /\ dest = Empty
  /\ \E version \in Format : dest' = New(version, FALSE, NoCall)
  /\ UNCHANGED <<format, source, head, call, phase, pos, versions, failures, crashes>>

-----------------------------------------------------------------------------
(* migrationChangelogState of any row of the source. *)
ChangelogState(rows) == \E k \in LogKey : rows[k] # None

(* The scan for the digest refuses to drop a changefeed silently. *)
HistoryKept(c) == c.reset \/ ~ChangelogState(source)

(* CompactTo and DB.Compact keep the format of the source. *)
Compacts(c) == c.op = "compact" /\ c.target = format /\ ~c.reset

Authenticates(c) == c.op = "authenticate" /\ format = 2 /\ c.target = 3 /\ HistoryKept(c)

(* MigrateV1ToV2 and MigrateToAuthenticated of a v1 source. *)
Migrates(c) == c.op = "migrate" /\ format = 1 /\ c.target \in {2, 3} /\ HistoryKept(c)

(* Exclusive creation of the destination, then its header. *)
CreateExclusive(c) ==
  /\ phase = "idle" /\ dest = Absent
  /\ Compacts(c) \/ Authenticates(c) \/ Migrates(c)
  /\ dest' = Empty
  /\ call' = c /\ pos' = 0
  /\ phase' = IF Migrates(c) THEN "migrate" ELSE "compact"
  /\ UNCHANGED <<format, source, head, versions, failures, crashes>>

Bug_NoMark == FALSE

(* newIncompleteCompaction: the first header already carries the mark. *)
MarkOfNew == phase = "compact"

WriteFirstHeader ==
  /\ phase \in {"compact", "migrate"} /\ dest = Empty
  /\ dest' = New(call.target, MarkOfNew, call)
  /\ UNCHANGED <<format, source, head, call, phase, pos, versions, failures, crashes>>

-----------------------------------------------------------------------------
(* Keys the copy looks at: skipKey leaves the changefeed out of v3.        *)
Scanned == {k \in Key : source[k] # None /\ (call.op = "authenticate" /\ call.reset => k \notin LogKey)}

Rest == {k \in Scanned : k > pos}

(* The next rows after pos, in key order; all rows are in one of them.     *)
Batch == {k \in Rest : Cardinality({j \in Rest : j < k}) < BatchSize}

BatchEnds(last) == last \in Batch /\ \A k \in Batch : k <= last

Copied(rows, ks) == [k \in Key |-> IF k \in ks THEN source[k] ELSE rows[k]]

Header == dest # Empty

(* writeCompactBatch: rows verbatim, no commit of its own in the timeline. *)
CompactBatch(last) ==
  /\ phase = "compact" /\ Header /\ BatchEnds(last)
  /\ dest' = [dest EXCEPT !.rows = Copied(@, Batch)]
  /\ pos' = last
  /\ UNCHANGED <<format, source, head, call, phase, versions, failures, crashes>>

SourceHead == head

SetHead ==
  /\ phase = "compact" /\ Header /\ Rest = {}
  /\ dest' = [dest EXCEPT !.head = IF format >= 2 THEN SourceHead ELSE @]
  /\ phase' = "verify"
  /\ UNCHANGED <<format, source, head, call, pos, versions, failures, crashes>>

(* The optional health check, then the mark is cleared; Close follows. *)
ClearMark ==
  /\ phase = "verify"
  /\ dest' = [dest EXCEPT !.mark = FALSE]
  /\ phase' = "close"
  /\ UNCHANGED <<format, source, head, call, pos, versions, failures, crashes>>

CloseCompacted ==
  /\ phase = "close"
  /\ phase' = "idle" /\ call' = NoCall
  /\ UNCHANGED <<format, source, head, dest, pos, versions, failures, crashes>>

(* Any error, also of the last Close: the files are removed. *)
CompactFails ==
  /\ phase \in {"compact", "verify", "close"}
  /\ failures < MaxFailures /\ failures' = failures + 1
  /\ dest' = Absent
  /\ phase' = "idle" /\ call' = NoCall
  /\ UNCHANGED <<format, source, head, pos, versions, crashes>>

-----------------------------------------------------------------------------
(* migrateV1ToTarget.                                                      *)

(* hasIncompleteMigration, loadMigrationState. *)
HasCheckpoint == dest.cp # NoCheckpoint

(* SHA-256 over all rows of the source. *)
Digest == source

(* storeMigrationState in the new destination: an Update of its own. *)
StoreFirstCheckpoint ==
  /\ phase = "migrate" /\ Header /\ ~HasCheckpoint
  /\ dest' = [dest EXCEPT !.cp = [digest |-> Digest, last |-> 0], !.head = @ + 1]
  /\ phase' = "rows"
  /\ UNCHANGED <<format, source, head, call, pos, versions, failures, crashes>>

(* A failure so far removes the destination. *)
CreationFails ==
  /\ phase = "migrate"
  /\ failures < MaxFailures /\ failures' = failures + 1
  /\ dest' = Absent
  /\ phase' = "idle" /\ call' = NoCall
  /\ UNCHANGED <<format, source, head, pos, versions, crashes>>

Bug_AnyDigest == HasCheckpoint

SameSource == HasCheckpoint /\ dest.cp.digest = Digest

SameFormat(c) == dest.format = c.target

(* The destination exists: it must be a migration of this very source to   *)
(* the same format.                                                        *)
Resume(c) ==
  /\ phase = "idle" /\ dest \notin {Absent, Empty} /\ ~dest.mark
  /\ Migrates(c) /\ SameFormat(c) /\ SameSource
  /\ call' = c /\ phase' = "rows" /\ pos' = dest.cp.last
  /\ UNCHANGED <<format, source, head, dest, versions, failures, crashes>>

(* applyMigrationPair: a record is put as the application would put it,    *)
(* which makes its index rows; those of the source, and the rows of the    *)
(* changefeed, are passed over.                                            *)
Rebuilt(rows, ks) ==
  [k \in Key |-> IF k \notin LogKey /\ Owner[k] \in ks THEN source[Owner[k]] ELSE rows[k]]

Bug_Behind(last) == [dest.cp EXCEPT !.last = last + 1]

Advanced(last) == [dest.cp EXCEPT !.last = last]

(* writeMigrationBatch: rows and checkpoint in one Update. *)
MigrateBatch(last) ==
  /\ phase = "rows" /\ BatchEnds(last)
  /\ dest' = [dest EXCEPT !.rows = Rebuilt(@, Batch), !.cp = Advanced(last), !.head = @ + 1]
  /\ pos' = last
  /\ UNCHANGED <<format, source, head, call, phase, versions, failures, crashes>>

(* Neither index rows nor the rows of the changefeed. *)
Logical == {k \in Key \ LogKey : Owner[k] = k}

NoChangelogState == ~ChangelogState(source)

(* verifyMigration: every logical row is read from both; the index rows    *)
(* are not.                                                                *)
Verified ==
  /\ \A k \in Logical : dest.rows[k] = source[k]
  /\ call.reset \/ NoChangelogState

(* The checkpoint is removed when the copy is verified. *)
FinishMigration ==
  /\ phase = "rows" /\ Rest = {}
  /\ phase' = "idle" /\ call' = NoCall
  /\ dest' = IF Verified
             THEN [dest EXCEPT !.cp = NoCheckpoint, !.head = @ + 1]
             ELSE dest
  /\ UNCHANGED <<format, source, head, pos, versions, failures, crashes>>

(* Cancellation or an error keeps the destination for a later call. *)
MigrationFails ==
  /\ phase = "rows"
  /\ failures < MaxFailures /\ failures' = failures + 1
  /\ phase' = "idle" /\ call' = NoCall
  /\ UNCHANGED <<format, source, head, dest, pos, versions, crashes>>

Crash ==
  /\ phase # "idle"
  /\ crashes < MaxCrashes /\ crashes' = crashes + 1
  /\ phase' = "idle" /\ call' = NoCall
  /\ UNCHANGED <<format, source, head, dest, pos, versions, failures>>

-----------------------------------------------------------------------------
Steps ==
  \/ WriteFirstHeader
  \/ \E last \in Key : CompactBatch(last) \/ MigrateBatch(last)
  \/ SetHead \/ ClearMark \/ CloseCompacted
  \/ StoreFirstCheckpoint \/ FinishMigration

Next ==
  \/ \E k \in Logical, logged \in BOOLEAN : EditSource(k, logged)
  \/ RemoveDestination \/ OpenEmpty
  \/ \E c \in Call : CreateExclusive(c) \/ Resume(c)
  \/ Steps
  \/ CompactFails \/ CreationFails \/ MigrationFails \/ Crash

Spec == Init /\ [][Next]_vars

(***************************************************************************)
(* A call runs straight through, and the operator calls again while the    *)
(* destination holds a migration of the source.                            *)
(***************************************************************************)
FairSpec == Spec /\ WF_vars(Steps) /\ WF_vars(\E c \in Call : Resume(c))

-----------------------------------------------------------------------------
(* Open: neither ErrCompactionIncomplete nor ErrMigrationIncomplete. *)
Opens == dest \notin {Absent, Empty} /\ ~dest.mark /\ ~HasCheckpoint

(* What a call promises of its source: only ResetChangelog drops history.  *)
Promised(c, rows) == [k \in Key |-> IF c.reset /\ k \in LogKey THEN None ELSE rows[k]]

(***************************************************************************)
(* A destination that Open accepts and a copy has filled has the format it *)
(* was asked for and holds one state of the source, all of it, with index  *)
(* rows that fit its records, the changefeed unless the caller gave it up, *)
(* and, when rows keep their numbers, the head that makes them visible:    *)
(* whatever failed, crashed, was resumed or changed in between. Until it   *)
(* is complete Open refuses it or finds no row.                            *)
(***************************************************************************)
WholeCopy ==
  phase = "idle" /\ Opens /\ dest.rows # NoRows =>
    /\ dest.format = dest.by.target
    /\ \E v \in versions :
         /\ dest.rows = Promised(dest.by, v.rows)
         /\ dest.by.op # "migrate" /\ format >= 2 => dest.head = v.head

(***************************************************************************)
(* The checkpoint tells the truth: the destination holds exactly the       *)
(* records up to lastKey of the source whose digest it names, with their   *)
(* index rows and no changefeed, also after the source was changed between *)
(* two calls.                                                              *)
(***************************************************************************)
CheckpointTrue ==
  dest \notin {Absent, Empty} /\ HasCheckpoint =>
    dest.rows = [k \in Key |-> IF k \notin LogKey /\ Owner[k] <= dest.cp.last
                              THEN dest.cp.digest[Owner[k]] ELSE None]

(***************************************************************************)
(* An interrupted migration of a source that stays as it was is finished   *)
(* by calling again.                                                       *)
(***************************************************************************)
Migrating == dest \notin {Absent, Empty} /\ HasCheckpoint /\ dest.cp.digest = source
MigrationEnds == Migrating ~> ~Migrating
=============================================================================
