--------------------------- MODULE ChangelogOutbox ---------------------------
(***************************************************************************)
(* The changefeed: every DB.Update stores its logical mutations in the     *)
(* primary as outbox entries, in the same engine transaction as the data;  *)
(* after that commit they are appended to the changelog sidecar and, once  *)
(* the sidecar is synced, a second engine transaction deletes them.  Open  *)
(* appends again what it still finds in the outbox.  Named consumers keep  *)
(* a cursor into the sidecar, in the primary.                              *)
(*                                                                         *)
(* The primary is used through its contract (AtomicStore): a commit is     *)
(* atomic and durable when it succeeds, and has either outcome when it     *)
(* fails or the process ends during it.  The sidecar is a file: a header   *)
(* and a sequence of frames, perhaps an incomplete one at its end, of      *)
(* which a prefix is on the medium.                                        *)
(***************************************************************************)
EXTENDS Integers, Sequences, FiniteSets

CONSTANTS
  Worker,       \* goroutines that consume the feed under one consumer id
  FlushLimit,   \* lazyChangelogFlushIntentLimit
  Scenarios     \* the uses and environments considered

ASSUME FlushLimitAssumption == FlushLimit \in Nat \ {0}

(* A scenario: which workers run, how Open may be called, the kinds of     *)
(* crash, and bounds on the calls of Update, the mutations of one Update,  *)
(* I/O errors, crashes, and losses of the sidecar outside the program.     *)
Scenario ==
  [workers : SUBSET Worker, modes : SUBSET {"eager", "lazy", "off"},
   crashKinds : SUBSET {"kill", "power"}, maxUpdates : Nat, maxMuts : Nat,
   maxFailures : Nat, maxCrashes : Nat, maxLosses : Nat]

ASSUME ScenariosAssumption == Scenarios \subseteq Scenario

VARIABLES
  prim,              \* the primary: [outbox, cursor, checkpoint, head, mutations]
  header,            \* of the sidecar: see Headers
  log, torn,         \* complete frames of the sidecar; an incomplete one follows
  synced,            \* how many frames are on the medium
  hist,              \* l.maxSeq and l.logicalDigest: the history they stand for
  phase, mode, tx,   \* where the process is, its changelog mode, its Update
  seqNext,           \* db.changefeedSeqNext
  pendingOutbox,     \* db.pendingOutboxEntries
  recoveryRequired,  \* db.recoveryRequired
  openError,         \* what the last Open answered
  seen, processed,   \* per worker: its last read; history: what was processed
  updates, failures, crashes, losses,
  env                \* the scenario, chosen once

files == <<prim, header, log, torn, synced>>
procVars == <<hist, phase, mode, tx, seqNext, pendingOutbox, recoveryRequired, openError>>
workerVars == <<seen, processed>>
counters == <<updates, failures, crashes, losses, env>>
vars == <<files, procVars, workerVars, counters>>

-----------------------------------------------------------------------------
(* Data.  An intent is named by the Update that made it and its ordinal;   *)
(* an outbox key is the commit id and the ordinal, in B+ tree order.       *)

NoEntries == [k \in {} |-> <<1, 1>>]
NoCheckpoint == [ok |-> FALSE, hist |-> <<>>]
Unregistered == -1
NoTx == [id |-> 0, before |-> 0, intents |-> <<>>]

KeyLess(a, b) == a[1] < b[1] \/ (a[1] = b[1] /\ a[2] < b[2])

(* AscendRange over the outbox: its keys in ascending order. *)
Bug_AnyOrder(keys) ==
  {s \in [1..Cardinality(keys) -> keys] : \A i, j \in 1..Cardinality(keys) : i # j => s[i] # s[j]}

AscendRange(keys) ==
  {s \in [1..Cardinality(keys) -> keys] :
     \A i, j \in 1..Cardinality(keys) : i < j => KeyLess(s[i], s[j])}

(* The frames AppendIntents builds after a history of n records. *)
Frames(n, intents) == [i \in DOMAIN intents |-> [seq |-> n + i, intent |-> intents[i]]]

(* The entries the transaction stages, and the primary with them. *)
StagedKeys == {<<tx.id, i>> : i \in DOMAIN tx.intents}
Staged ==
  [prim EXCEPT
     !.outbox = [k \in DOMAIN @ \cup StagedKeys |->
                   IF k \in StagedKeys THEN tx.intents[k[2]] ELSE @[k]],
     !.head = tx.id,
     !.mutations = @ \o tx.intents]

(* cleanupChangelogOutbox: delete the keys and record the checkpoint. *)
Cleaned(keys) ==
  [prim EXCEPT
     !.outbox = [k \in DOMAIN @ \ keys |-> @[k]],
     !.checkpoint = [ok |-> TRUE, hist |-> hist]]

(* The keys a cleanup deletes: those of this Update, or, when the lazy     *)
(* mode flushes and when Open recovers, all there are.                     *)
CleanupKeys == IF phase = "cleanup" THEN StagedKeys ELSE DOMAIN prim.outbox

(* The header of the sidecar: there is no file, or an empty one; a part of *)
(* it is in the file, or something unreadable; it is whole in the file; it *)
(* is also on the medium.                                                  *)
Headers == {"none", "cut", "written", "synced"}

UpdatePhases == {"staged", "append", "sync", "cleanup", "flushSync", "flushCleanup"}
ClosePhases == {"closeSync", "closeCleanup"}
CreatePhases == {"create", "createSync"}
OpenPhases ==
  {"create", "createSync", "openAppend", "openSync", "openCleanup", "validate"}
CleanupPhases == {"cleanup", "flushCleanup", "closeCleanup", "openCleanup"}
SyncPhases == {"sync", "flushSync", "closeSync", "openSync"}

-----------------------------------------------------------------------------
Init ==
  /\ prim = [outbox |-> NoEntries, cursor |-> Unregistered,
             checkpoint |-> NoCheckpoint, head |-> 0, mutations |-> <<>>]
  /\ header = "none" /\ log = <<>> /\ torn = FALSE /\ synced = 0
  /\ hist = <<>> /\ phase = "down" /\ mode = "off" /\ tx = NoTx
  /\ seqNext = 0 /\ pendingOutbox = 0 /\ recoveryRequired = FALSE
  /\ openError = "none"
  /\ seen = [w \in Worker |-> [from |-> 0, upto |-> 0]]
  /\ processed = {}
  /\ updates = 0 /\ failures = 0 /\ crashes = 0 /\ losses = 0
  /\ env \in Scenarios

-----------------------------------------------------------------------------
(* DB.Update, with db.mu held from the first step to the last.             *)

(* The callback has run; stageChangelogOutbox takes the next commit id.    *)
(* (Without a changelog nothing below happens.)                            *)
StageChangelogOutbox(n) ==
  /\ phase = "ready" /\ mode # "off" /\ ~recoveryRequired
  /\ updates < env.maxUpdates
  /\ updates' = updates + 1
  /\ seqNext' = seqNext + 1
  /\ tx' = [id |-> seqNext + 1, before |-> seqNext,
            intents |-> [i \in 1..n |-> <<updates + 1, i>>]]
  /\ phase' = "staged"
  /\ UNCHANGED <<files, hist, mode, pendingOutbox, recoveryRequired, openError,
                 workerVars, failures, crashes, losses, env>>

HeadBefore == tx.before

(* An error before the engine commit starts: the transaction is dropped    *)
(* and resetChangefeedHead gives the commit id back.                       *)
AbortUpdate ==
  /\ phase = "staged"
  /\ phase' = "ready"
  /\ tx' = NoTx
  /\ seqNext' = HeadBefore
  /\ UNCHANGED <<files, hist, mode, pendingOutbox, recoveryRequired, openError,
                 workerVars, counters>>

EngineCommit ==
  /\ phase = "staged"
  /\ prim' = Staged
  /\ phase' = "append"
  /\ UNCHANGED <<header, log, torn, synced, hist, mode, tx, seqNext, pendingOutbox,
                 recoveryRequired, openError, workerVars, counters>>

Failure == failures < env.maxFailures /\ failures' = failures + 1

Bug_ProjectAnyway ==
  /\ phase = "staged"
  /\ Failure
  /\ prim' \in {prim, Staged}
  /\ phase' = "append"
  /\ UNCHANGED <<header, log, torn, synced, hist, mode, tx, seqNext, pendingOutbox,
                 recoveryRequired, openError, workerVars, updates, crashes, losses, env>>

(* The engine reports an error; the outcome is known only after reopening. *)
EngineCommitError ==
  /\ phase = "staged"
  /\ Failure
  /\ prim' \in {prim, Staged}
  /\ recoveryRequired' = TRUE
  /\ phase' = "ready"
  /\ seqNext' = HeadBefore
  /\ tx' = NoTx
  /\ UNCHANGED <<header, log, torn, synced, hist, mode, pendingOutbox, openError,
                 workerVars, updates, crashes, losses, env>>

-----------------------------------------------------------------------------
(* finalizeChangelogProjection.                                            *)

Bug_CountCommits(n) == pendingOutbox + 1

CountPending(n) == pendingOutbox + n

(* AppendIntents: one Write of all frames.  The lazy mode counts them and  *)
(* returns unless the limit is reached.                                    *)
AppendIntents ==
  /\ phase = "append"
  /\ log' = log \o Frames(Len(hist), tx.intents)
  /\ hist' = hist \o Frames(Len(hist), tx.intents)
  /\ IF mode = "lazy"
     THEN /\ pendingOutbox' = CountPending(Len(tx.intents))
          /\ phase' = IF pendingOutbox' < FlushLimit THEN "ready" ELSE "flushSync"
     ELSE /\ phase' = "sync"
          /\ UNCHANGED pendingOutbox
  /\ tx' = IF phase' = "sync" THEN tx ELSE NoTx
  /\ UNCHANGED <<prim, header, torn, synced, mode, seqNext, recoveryRequired,
                 openError, workerVars, counters>>

(* k frames of the write and perhaps a part of the next reach the file. *)
PartialAppend(intents, k, part) ==
  /\ k < Len(intents)
  /\ log' = log \o SubSeq(Frames(Len(hist), intents), 1, k)
  /\ torn' = part

ProcessGone ==
  /\ phase' = "down"
  /\ mode' = "off"
  /\ tx' = NoTx
  /\ hist' = <<>>
  /\ seqNext' = 0
  /\ pendingOutbox' = 0
  /\ recoveryRequired' = FALSE

(* Where a process goes when a projection step fails: Update reports       *)
(* ErrCommitDurable and blocks the handle; Close closes the files; Open    *)
(* returns the error.                                                      *)
ProjectionError ==
  IF phase \in UpdatePhases
  THEN /\ phase' = "ready"
       /\ recoveryRequired' = TRUE
       /\ tx' = NoTx
       /\ UNCHANGED <<hist, mode, seqNext, pendingOutbox, openError>>
  ELSE /\ ProcessGone
       /\ openError' = IF phase \in OpenPhases THEN "finalization" ELSE openError

AppendError(k, part) ==
  /\ phase = "append"
  /\ Failure
  /\ PartialAppend(tx.intents, k, part)
  /\ ProjectionError
  /\ UNCHANGED <<prim, header, synced, workerVars, updates, crashes, losses, env>>

Bug_NotSynced == UNCHANGED <<header, synced>>

Synced == header' = "synced" /\ synced' = Len(log)

(* The sync that precedes every cleanup: of AppendIntents in eager mode,   *)
(* of syncAndCleanupPendingChangelog, of recoverChangelogOutbox.           *)
SyncChangelog ==
  /\ phase \in SyncPhases
  /\ Synced
  /\ phase' = CASE phase = "sync" -> "cleanup"
                [] phase = "flushSync" -> "flushCleanup"
                [] phase = "closeSync" -> "closeCleanup"
                [] phase = "openSync" -> "openCleanup"
  /\ UNCHANGED <<prim, log, torn, hist, mode, tx, seqNext, pendingOutbox,
                 recoveryRequired, openError, workerVars, counters>>

SyncError ==
  /\ phase \in SyncPhases
  /\ Failure
  /\ ProjectionError
  /\ UNCHANGED <<files, workerVars, updates, crashes, losses, env>>

(* cleanupChangelogOutbox, an engine transaction of its own. *)
CleanupChangelogOutbox ==
  /\ phase \in CleanupPhases
  /\ prim' = Cleaned(CleanupKeys)
  /\ IF phase = "closeCleanup"
     THEN ProcessGone
     ELSE /\ phase' = IF phase = "openCleanup" THEN "validate" ELSE "ready"
          /\ pendingOutbox' = IF phase = "flushCleanup" THEN 0 ELSE pendingOutbox
          /\ tx' = NoTx
          /\ UNCHANGED <<hist, mode, seqNext, recoveryRequired>>
  /\ UNCHANGED <<header, log, torn, synced, openError, workerVars, counters>>

CleanupError ==
  /\ phase \in CleanupPhases
  /\ Failure
  /\ prim' \in {prim, Cleaned(CleanupKeys)}
  /\ ProjectionError
  /\ UNCHANGED <<header, log, torn, synced, workerVars, updates, crashes, losses, env>>

-----------------------------------------------------------------------------
(* The end of the process.                                                 *)

(* A healthy lazy handle flushes first. *)
Close ==
  /\ phase = "ready"
  /\ IF mode = "lazy" /\ pendingOutbox > 0 /\ ~recoveryRequired
     THEN /\ phase' = "closeSync"
          /\ UNCHANGED <<hist, mode, tx, seqNext, pendingOutbox, recoveryRequired>>
     ELSE ProcessGone
  /\ UNCHANGED <<files, openError, workerVars, counters>>

(* What recoverChangelogOutbox appends: the outbox in key order. *)
PendingIntents ==
  {[i \in DOMAIN ks |-> prim.outbox[ks[i]]] : ks \in AscendRange(DOMAIN prim.outbox)}

(* The intents of the Write that the process may be in the middle of. *)
InFlight ==
  IF phase = "append" THEN {tx.intents}
  ELSE IF phase = "openAppend" THEN PendingIntents
  ELSE {<<>>}

(* The engine transaction under way has either outcome. *)
Crash(kind) ==
  /\ phase # "down"
  /\ kind \in env.crashKinds
  /\ crashes < env.maxCrashes
  /\ crashes' = crashes + 1
  /\ \/ prim' = prim
     \/ phase = "staged" /\ prim' = Staged
     \/ phase \in CleanupPhases /\ prim' = Cleaned(CleanupKeys)
  /\ ProcessGone
  /\ UNCHANGED <<openError, workerVars, updates, failures, losses, env>>

(* The process is killed: the file keeps what was written to it. *)
Kill ==
  /\ Crash("kill")
  /\ IF phase = "create" THEN header' \in {"none", "cut", "written"} ELSE UNCHANGED header
  /\ \E s \in InFlight : \E k \in 0..Len(s) :
       /\ log' = log \o SubSeq(Frames(Len(hist), s), 1, k)
       /\ torn' \in {torn, k < Len(s)}
  /\ UNCHANGED synced

(* Power is lost: a header that was never synced may be gone, or cut, and  *)
(* all the frames with it; with the header, any prefix of the file that    *)
(* includes the synced frames is on the medium.                            *)
HeaderLost ==
  /\ header # "synced"
  /\ header' \in {"none", IF header = "none" /\ phase # "create" THEN "none" ELSE "cut"}
  /\ log' = <<>>
  /\ torn' = FALSE
  /\ synced' = 0

PrefixKept ==
  /\ header \in {"written", "synced"} \/ phase = "create"
  /\ header' = "synced"
  /\ \E s \in InFlight : \E keep \in synced..(Len(log) + Len(s)) :
       /\ log' = SubSeq(log \o Frames(Len(hist), s), 1, keep)
       /\ torn' \in {FALSE, torn \/ keep < Len(log) + Len(s)}
       /\ synced' = keep

PowerLoss == Crash("power") /\ (HeaderLost \/ PrefixKept)

(* While no process has it open and the workers are stopped, the sidecar   *)
(* is deleted or replaced by an older copy.                                *)
LoseSidecar ==
  /\ phase = "down"
  /\ losses < env.maxLosses
  /\ losses' = losses + 1
  /\ \/ /\ header # "none"
        /\ header' = "none"
        /\ log' = <<>>
        /\ synced' = 0
     \/ \E k \in 0..(Len(log) - 1) :
          /\ header' = "synced"
          /\ log' = SubSeq(log, 1, k)
          /\ synced' = k
  /\ torn' = FALSE
  /\ seen' = [w \in Worker |-> [from |-> 0, upto |-> 0]]
  /\ UNCHANGED <<prim, procVars, processed, updates, failures, crashes, env>>

-----------------------------------------------------------------------------
(* Open.                                                                   *)

(* scanMaxSeq accepts a file whose frames are numbered without a gap. *)
Contiguous == \A i \in DOMAIN log : log[i].seq = i

Bug_NoRepair == FALSE

(* Only with intents to append again may Open cut off an incomplete frame. *)
RecoverableTail == prim.outbox # NoEntries

(* readHeaderAndScan: whether the header and the scan of the file succeed. *)
Readable == header # "cut" /\ Contiguous /\ (torn => RecoverableTail)

(* truncateIncompleteTail: a tail that was cut off is also synced. *)
TruncateIncompleteTail ==
  /\ torn' = FALSE
  /\ header' = IF torn THEN "synced" ELSE header
  /\ synced' = IF torn THEN Len(log) ELSE synced

(* Where Open goes with a sidecar that it has opened. *)
Recover == IF prim.outbox = NoEntries THEN "validate" ELSE "openAppend"

(* openDB, then openChangelog up to the opened file; a file that is absent *)
(* or empty is created.                                                    *)
Open(m) ==
  /\ phase = "down"
  /\ IF m # "off" /\ ~Readable
     THEN /\ openError' = "corrupt"
          /\ UNCHANGED <<header, torn, synced, hist, phase, mode, seqNext>>
     ELSE /\ openError' = "none"
          /\ mode' = m
          /\ seqNext' = prim.head
          /\ hist' = IF m = "off" THEN <<>> ELSE log
          /\ IF m = "off" THEN UNCHANGED <<header, torn, synced>> ELSE TruncateIncompleteTail
          /\ phase' = IF m = "off" THEN "ready"
                      ELSE IF header = "none" THEN "create" ELSE Recover
  /\ UNCHANGED <<prim, log, tx, pendingOutbox, recoveryRequired, workerVars, counters>>

(* writeHeader, then the sync of the new file. *)
WriteHeader ==
  /\ phase = "create"
  /\ header' = "written"
  /\ phase' = "createSync"
  /\ UNCHANGED <<prim, log, torn, synced, hist, mode, tx, seqNext, pendingOutbox,
                 recoveryRequired, openError, workerVars, counters>>

SyncHeader ==
  /\ phase = "createSync"
  /\ header' = "synced"
  /\ phase' = Recover
  /\ UNCHANGED <<prim, log, torn, synced, hist, mode, tx, seqNext, pendingOutbox,
                 recoveryRequired, openError, workerVars, counters>>

(* Open returns the error; nothing removes what a short write left. *)
CreateError ==
  /\ phase \in CreatePhases
  /\ Failure
  /\ header' \in IF phase = "create" THEN {"none", "cut"} ELSE {header, "synced"}
  /\ ProcessGone
  /\ openError' = "failed"
  /\ UNCHANGED <<prim, log, torn, synced, workerVars, updates, crashes, losses, env>>

(* recoverChangelogOutbox: append, then sync, then cleanup. *)
OpenAppendIntents ==
  /\ phase = "openAppend"
  /\ \E s \in PendingIntents :
       /\ log' = log \o Frames(Len(hist), s)
       /\ hist' = hist \o Frames(Len(hist), s)
  /\ phase' = "openSync"
  /\ UNCHANGED <<prim, header, torn, synced, mode, tx, seqNext, pendingOutbox,
                 recoveryRequired, openError, workerVars, counters>>

OpenAppendError ==
  /\ phase = "openAppend"
  /\ Failure
  /\ \E s \in PendingIntents, part \in BOOLEAN : \E k \in 0..Len(s) :
       PartialAppend(s, k, part)
  /\ ProjectionError
  /\ UNCHANGED <<prim, header, synced, workerVars, updates, crashes, losses, env>>

Bug_Unchecked == TRUE

(* LogicalDigestAt: the digest of the first n records, which stands for    *)
(* them; for the head from memory, for an earlier record from the file.    *)
LogicalDigestAt(n) == IF n = Len(hist) THEN hist ELSE SubSeq(log, 1, n)

(* validateChangelogConsumerHistoryLocked: the checkpoint and the cursor   *)
(* lie within the history, whose digest at the checkpoint is the recorded  *)
(* one.                                                                    *)
HistoryValid ==
  prim.cursor # Unregistered =>
    LET n == Len(prim.checkpoint.hist)
    IN  /\ prim.checkpoint.ok
        /\ n <= Len(hist)
        /\ prim.cursor <= Len(hist)
        /\ prim.checkpoint.hist = LogicalDigestAt(n)

ValidateConsumers ==
  /\ phase = "validate"
  /\ IF HistoryValid
     THEN /\ phase' = "ready"
          /\ UNCHANGED <<hist, mode, tx, seqNext, pendingOutbox, recoveryRequired, openError>>
     ELSE /\ ProcessGone
          /\ openError' = "invalidated"
  /\ UNCHANGED <<files, workerVars, counters>>

-----------------------------------------------------------------------------
(* Consumers.                                                              *)

(* The records ReadSince(from) returns, up to number upto. *)
ReadSince(from, upto) == {log[i].intent : i \in (from + 1)..upto}

(* A worker reads the cursor and some records after it, and processes      *)
(* them; without a cursor it prepares to register one at zero.             *)
Consume(w) ==
  /\ phase = "ready" /\ mode # "off"
  /\ HistoryValid
  /\ \/ /\ prim.cursor = Unregistered
        /\ seen' = [seen EXCEPT ![w] = [from |-> 0, upto |-> 0]]
        /\ UNCHANGED processed
     \/ \E upto \in prim.cursor..Len(log) :
           /\ prim.cursor # Unregistered
           /\ seen' = [seen EXCEPT ![w] = [from |-> prim.cursor, upto |-> upto]]
           /\ processed' = processed \cup ReadSince(prim.cursor, upto)
  /\ UNCHANGED <<files, procVars, counters>>

Bug_NoCompare(expectedSeq, nextSeq) == nextSeq <= Len(hist)

(* The compare of compare-and-advance. *)
MayAdvance(expectedSeq, nextSeq) ==
  /\ IF prim.cursor = Unregistered THEN expectedSeq = 0 ELSE prim.cursor = expectedSeq
  /\ nextSeq >= expectedSeq
  /\ nextSeq <= Len(hist)

Advanced(nextSeq) ==
  [prim EXCEPT !.cursor = nextSeq, !.checkpoint = [ok |-> TRUE, hist |-> hist]]

(* commitChangelogConsumerMetadataLocked: commit, or fail with either      *)
(* outcome and block the handle.                                           *)
CommitMetadata(new) ==
  \/ /\ prim' = new
     /\ UNCHANGED <<recoveryRequired, failures>>
  \/ /\ Failure
     /\ prim' \in {prim, new}
     /\ recoveryRequired' = TRUE

(* AdvanceChangelogConsumer with what the worker read, however long ago. *)
AdvanceChangelogConsumer(w) ==
  /\ phase = "ready" /\ mode # "off" /\ ~recoveryRequired
  /\ HistoryValid
  /\ MayAdvance(seen[w].from, seen[w].upto)
  /\ prim.cursor # seen[w].upto
  /\ CommitMetadata(Advanced(seen[w].upto))
  /\ UNCHANGED <<header, log, torn, synced, hist, phase, mode, tx, seqNext, pendingOutbox,
                 openError, workerVars, updates, crashes, losses, env>>

(* DeleteChangelogConsumer, also on a handle without a changelog. *)
DeleteChangelogConsumer ==
  /\ phase = "ready" /\ ~recoveryRequired
  /\ mode # "off" => HistoryValid
  /\ prim.cursor # Unregistered
  /\ CommitMetadata([prim EXCEPT !.cursor = Unregistered])
  /\ UNCHANGED <<header, log, torn, synced, hist, phase, mode, tx, seqNext, pendingOutbox,
                 openError, workerVars, updates, crashes, losses, env>>

-----------------------------------------------------------------------------
(* What the process does next without being asked. *)
Progress ==
  \/ EngineCommit
  \/ AppendIntents
  \/ SyncChangelog
  \/ CleanupChangelogOutbox
  \/ WriteHeader
  \/ SyncHeader
  \/ OpenAppendIntents
  \/ ValidateConsumers

Error ==
  \/ EngineCommitError
  \/ \E k \in 0..(env.maxMuts - 1), part \in BOOLEAN : AppendError(k, part)
  \/ SyncError
  \/ CleanupError
  \/ CreateError
  \/ OpenAppendError

Next ==
  \/ \E n \in 1..env.maxMuts : StageChangelogOutbox(n)
  \/ AbortUpdate
  \/ Progress
  \/ Error
  \/ Close
  \/ Kill
  \/ PowerLoss
  \/ LoseSidecar
  \/ \E m \in env.modes : Open(m)
  \/ \E w \in env.workers : Consume(w) \/ AdvanceChangelogConsumer(w)
  \/ DeleteChangelogConsumer

Spec == Init /\ [][Next]_vars

(***************************************************************************)
(* The process goes on, and the embedding application follows the runbook  *)
(* of docs/hexxladb/CHANGEFEED.md: it closes a handle that reports         *)
(* ErrCommitFinalization and opens the database again.                     *)
(***************************************************************************)
FairSpec ==
  /\ Spec
  /\ WF_vars(Progress)
  /\ WF_vars(Close /\ recoveryRequired)
  /\ WF_vars(\E m \in env.modes : Open(m))

-----------------------------------------------------------------------------
InOutbox(m) == \E k \in DOMAIN prim.outbox : prim.outbox[k] = m
OnMedium(m) == \E i \in 1..synced : log[i].intent = m

(***************************************************************************)
(* No committed mutation is lost from the feed: it waits in the outbox or  *)
(* its frame is on the medium, whatever crashes (options.go, on            *)
(* ChangelogLazy: a crash cannot permanently lose a committed event).      *)
(***************************************************************************)
NoMutationLost ==
  losses = 0 =>
  \A i \in DOMAIN prim.mutations :
    InOutbox(prim.mutations[i]) \/ OnMedium(prim.mutations[i])

(***************************************************************************)
(* The feed announces only what the primary has: a frame is of a committed *)
(* mutation, also after a commit whose outcome was unknown.                *)
(***************************************************************************)
NoPhantomFrame ==
  \A i \in DOMAIN log : \E j \in DOMAIN prim.mutations : prim.mutations[j] = log[i].intent

(***************************************************************************)
(* Delivery may repeat but never overtakes: before a mutation is announced *)
(* for the first time, every mutation committed earlier has been.          *)
(***************************************************************************)
CommitOrder ==
  losses = 0 =>
  \A i \in DOMAIN log : \A j \in DOMAIN prim.mutations :
    log[i].intent = prim.mutations[j] =>
      \A e \in 1..(j - 1) : \E h \in 1..(i - 1) : log[h].intent = prim.mutations[e]

(***************************************************************************)
(* What a consumer has acknowledged it has also been given: no record at   *)
(* or below the durable cursor went unprocessed, although recovery may     *)
(* have appended other records at those numbers.                           *)
(* A sidecar that is lost while entries wait in the outbox is the          *)
(* exception (README, observations).                                       *)
(***************************************************************************)
NothingSkipped ==
  phase = "ready" /\ mode # "off" =>
    \A i \in 1..prim.cursor : i \in DOMAIN log => log[i].intent \in processed

(***************************************************************************)
(* A healthy idle handle keeps fewer than lazyChangelogFlushIntentLimit    *)
(* intents in the outbox in lazy mode and none in the default mode.        *)
(***************************************************************************)
OutboxBounded ==
  phase = "ready" /\ ~recoveryRequired =>
    /\ mode = "eager" => prim.outbox = NoEntries
    /\ mode = "lazy" => Cardinality(DOMAIN prim.outbox) < FlushLimit

(***************************************************************************)
(* After crashes and errors Open refuses no sidecar but one whose creation *)
(* was cut short, and that one has never held anything that the outbox     *)
(* does not: an incomplete frame always comes with outbox entries that     *)
(* allow its repair, frames are never numbered twice, and a registered     *)
(* consumer's checkpoint matches the recovered history.                    *)
(* (Open writes the header of a new sidecar in place and, when that fails, *)
(* leaves the file; readHeaderAndScan then answers ErrCorrupt until        *)
(* somebody removes it.  README, observations.)                            *)
(***************************************************************************)
OpenAccepts ==
  losses = 0 =>
  /\ openError # "invalidated"
  /\ openError = "corrupt" =>
       /\ header = "cut"
       /\ \A i \in DOMAIN prim.mutations : InOutbox(prim.mutations[i])

(***************************************************************************)
(* The durable cursor moves forward only, however late and however often   *)
(* workers acknowledge; deleting the consumer is the only way back.        *)
(***************************************************************************)
CursorMonotone ==
  [][prim'.cursor < prim.cursor => prim'.cursor = Unregistered]_vars

(***************************************************************************)
(* In the default mode every committed mutation gets out of the outbox and *)
(* onto the medium, unless the creation of the sidecar was cut short (by a *)
(* failed write, a kill, or a power loss before the sync of the header)    *)
(* and has left a part of the header: Open refuses that file until         *)
(* somebody removes it.                                                    *)
(***************************************************************************)
Projected ==
  (env.modes = {"eager"} /\ prim.outbox # NoEntries)
    ~> (prim.outbox = NoEntries \/ header = "cut")
=============================================================================
