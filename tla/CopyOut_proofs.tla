--------------------------- MODULE CopyOut_proofs ---------------------------
(***************************************************************************)
(* Proofs about CopyOut for any finite set of keys, any index rows and     *)
(* changefeed rows among them, any batch size and any bounds: the          *)
(* checkpoint tells the truth, and what Open accepts is a whole copy.      *)
(*                                                                         *)
(* The inductive invariant says what a running call has established        *)
(* (Running), what a file says of itself, whoever left it (Left), and that *)
(* the history of the source holds its present state.                      *)
(***************************************************************************)
EXTENDS CopyOut, FiniteSetTheorems, TLAPS

-----------------------------------------------------------------------------
(* The inductive invariant. *)

TypeOK ==
  /\ format \in Format
  /\ source \in Rows
  /\ head \in Nat /\ Cardinality(Key) <= head
  /\ dest \in {Absent, Empty} \cup Database
  /\ call \in Call \cup {NoCall}
  /\ phase \in {"idle", "compact", "verify", "close", "migrate", "rows"}
  /\ pos \in Nat

SourceKept ==
  /\ \A k \in Key \ LogKey : source[k] = source[Owner[k]]
  /\ [rows |-> source, head |-> head] \in versions

Verbatim(d) == d.rows = [k \in Key |-> IF k \in Scanned /\ k <= pos THEN source[k] ELSE None]

WholeOf(d, vs, version) ==
  /\ d.format = d.by.target
  /\ \E v \in vs :
       /\ d.rows = Promised(d.by, v.rows)
       /\ d.by.op # "migrate" /\ version >= 2 => d.head = v.head
Whole == WholeOf(dest, versions, format)

UpTo(cp) == [k \in Key |-> IF k \notin LogKey /\ Owner[k] <= cp.last THEN cp.digest[Owner[k]] ELSE None]

(* What the file of an interrupted migration tells.                        *)
Resumable(d) ==
  /\ d.rows = UpTo(d.cp)
  /\ d.by \in Call /\ d.by.op = "migrate" /\ d.by.target = d.format
  /\ ~d.by.reset => \A k \in LogKey : d.cp.digest[k] = None

Left ==
  dest \in Database =>
    /\ HasCheckpoint => Resumable(dest)
    /\ ~HasCheckpoint /\ ~dest.mark => dest.rows = NoRows \/ Whole

Made(d) == d.by = call /\ d.format = call.target /\ d.cp = NoCheckpoint

Running ==
  /\ phase \in {"compact", "verify", "close"} =>
       call \in Call /\ (Compacts(call) \/ Authenticates(call))
  /\ phase \in {"migrate", "rows"} => call \in Call /\ Migrates(call)
  /\ phase = "compact" =>
       \/ dest = Empty /\ pos = 0
       \/ dest \in Database /\ dest.mark /\ Made(dest) /\ Verbatim(dest)
  /\ phase \in {"verify", "close"} => dest \in Database /\ dest.cp = NoCheckpoint /\ Whole
  /\ phase = "migrate" =>
       \/ dest = Empty /\ pos = 0
       \/ dest \in Database /\ Made(dest) /\ dest.rows = NoRows /\ pos = 0
  /\ phase = "rows" =>
       dest \in Database /\ HasCheckpoint /\ dest.cp.digest = source /\ dest.cp.last = pos

IInv == TypeOK /\ SourceKept /\ Left /\ Running

-----------------------------------------------------------------------------
LEMMA KeyFinite == Cardinality(Key) \in Nat
  BY CopyOutAssumption, FS_CardinalityType

(* A batch is the rows after pos up to its last one: none is passed over.  *)
LEMMA BatchIsNext ==
  ASSUME TypeOK, NEW last, BatchEnds(last)
  PROVE  /\ last \in Key /\ last > pos
         /\ \A k \in Scanned : k <= last <=> k <= pos \/ k \in Batch
  <1>1. Rest \subseteq Key /\ IsFiniteSet(Key) /\ Key \subseteq Nat /\ BatchSize \in Nat
    BY CopyOutAssumption DEF Rest, Scanned
  <1>2. last \in Key /\ last > pos /\ last \in Rest
    BY <1>1 DEF BatchEnds, Batch, Rest
  <1>3. ASSUME NEW k \in Scanned, k <= last, ~(k <= pos)  PROVE k \in Batch
    <2> DEFINE Below(x) == {j \in Rest : j < x}
    <2>1. k \in Rest /\ k \in Nat /\ last \in Nat
      BY <1>1, <1>2, <1>3 DEF Rest, Scanned, TypeOK
    <2>2. IsFiniteSet(Below(last))
      BY <1>1, FS_Subset
    <2>3. Below(k) \subseteq Below(last)
      <3>1. ASSUME NEW j \in Rest, j < k  PROVE j < last
        <4>1. j \in Nat
          BY <1>1
        <4> QED BY <4>1, <2>1, <1>3, <3>1
      <3> QED BY <3>1
    <2>4. IsFiniteSet(Below(k)) /\ Cardinality(Below(k)) <= Cardinality(Below(last))
      BY <2>2, <2>3, FS_Subset
    <2>5. Cardinality(Below(k)) \in Nat /\ Cardinality(Below(last)) \in Nat
      BY <2>2, <2>4, FS_CardinalityType
    <2>6. Cardinality(Below(last)) < BatchSize
      BY DEF BatchEnds, Batch
    <2>7. Cardinality(Below(k)) < BatchSize
      BY <2>4, <2>5, <2>6, <1>1
    <2> QED BY <2>1, <2>7 DEF Batch
  <1>4. ASSUME NEW k \in Scanned, k \in Batch \/ k <= pos  PROVE k <= last
    <2>1. k \in Nat /\ last \in Nat /\ pos \in Nat
      BY <1>1, <1>2 DEF Scanned, TypeOK
    <2> QED BY <1>2, <1>4, <2>1 DEF BatchEnds
  <1> QED BY <1>2, <1>3, <1>4

-----------------------------------------------------------------------------
LEMMA TypeInit == Init => TypeOK
  <1> SUFFICES ASSUME Init PROVE TypeOK
    OBVIOUS
  <1>1. 0 \in Value
    BY CopyOutAssumption DEF Value
  <1>2. source \in Rows
    BY <1>1 DEF Init, Rows
  <1> QED BY <1>2, KeyFinite DEF Init, TypeOK

LEMMA NewType ==
  ASSUME NEW version \in Format, NEW mark \in BOOLEAN, NEW by \in Call \cup {NoCall}
  PROVE  New(version, mark, by) \in Database
  BY DEF New, Database, NoRows, Rows

LEMMA CopiedType ==
  ASSUME TypeOK, dest \in Database, NEW ks
  PROVE  Copied(dest.rows, ks) \in Rows /\ Rebuilt(dest.rows, ks) \in Rows
  BY CopyOutAssumption DEF TypeOK, Database, Rows, Copied, Rebuilt

LEMMA CountType ==
  ASSUME dest \in Database
  PROVE  dest.head \in Nat /\ dest.head + 1 \in Nat
  BY DEF Database

LEMMA TypeStep == IInv /\ [Next]_vars => TypeOK'
  <1> SUFFICES ASSUME IInv, [Next]_vars PROVE TypeOK'
    OBVIOUS
  <1> USE DEF IInv
  <1>1. ASSUME NEW k \in Logical, NEW logged \in BOOLEAN, EditSource(k, logged)  PROVE TypeOK'
    <2>1. head + 1 - Cardinality(Key) \in Value
      BY <1>1, KeyFinite, CopyOutAssumption DEF EditSource, Value, TypeOK
    <2>2. source' \in Rows
      BY <1>1, <2>1 DEF EditSource, Rows, TypeOK
    <2> QED BY <1>1, <2>2, KeyFinite DEF EditSource, TypeOK
  <1>2. CASE RemoveDestination
    BY <1>2 DEF RemoveDestination, TypeOK
  <1>3. CASE OpenEmpty
    BY <1>3, NewType DEF OpenEmpty, TypeOK
  <1>4. ASSUME NEW c \in Call, CreateExclusive(c)  PROVE TypeOK'
    BY <1>4 DEF CreateExclusive, TypeOK
  <1>5. ASSUME NEW c \in Call, Resume(c)  PROVE TypeOK'
    <2>1. dest \in Database /\ dest.cp \in Checkpoint
      BY <1>5 DEF Resume, SameSource, HasCheckpoint, TypeOK, Database
    <2> QED BY <1>5, <2>1 DEF Resume, TypeOK, Checkpoint
  <1>6. CASE WriteFirstHeader
    <2>1. call \in Call /\ call.target \in Format /\ MarkOfNew \in BOOLEAN
      BY <1>6 DEF WriteFirstHeader, Running, Call, MarkOfNew
    <2> QED BY <1>6, <2>1, NewType DEF WriteFirstHeader, TypeOK
  <1>7. ASSUME NEW last \in Key, CompactBatch(last)  PROVE TypeOK'
    <2>1. dest \in Database
      BY <1>7 DEF CompactBatch, Header, Running
    <2>2. dest' \in Database
      BY <1>7, <2>1, CopiedType DEF CompactBatch, Database
    <2> QED BY <1>7, <2>2, CopyOutAssumption DEF CompactBatch, TypeOK
  <1>8. ASSUME NEW last \in Key, MigrateBatch(last)  PROVE TypeOK'
    <2>1. dest \in Database /\ dest.cp \in Checkpoint /\ last \in Nat
      BY <1>8, CopyOutAssumption DEF MigrateBatch, Running, HasCheckpoint, Database
    <2>2. Advanced(last) \in Checkpoint
      BY <2>1 DEF Advanced, Checkpoint
    <2>3. Rebuilt(dest.rows, Batch) \in Rows
      BY <2>1, CopiedType
    <2>4. dest' = [dest EXCEPT !.rows = Rebuilt(dest.rows, Batch), !.cp = Advanced(last),
                               !.head = dest.head + 1]
      BY <1>8 DEF MigrateBatch
    <2>5. dest' \in Database
      BY <2>1, <2>2, <2>3, <2>4, CountType DEF Database
    <2> QED BY <1>8, <2>1, <2>5 DEF MigrateBatch, TypeOK
  <1>9. CASE SetHead
    BY <1>9 DEF SetHead, Header, Running, TypeOK, Database, SourceHead
  <1>10. CASE ClearMark
    BY <1>10 DEF ClearMark, Running, TypeOK, Database
  <1>11. CASE CloseCompacted
    BY <1>11 DEF CloseCompacted, TypeOK
  <1>12. CASE StoreFirstCheckpoint
    <2>1. dest \in Database
      BY <1>12 DEF StoreFirstCheckpoint, Header, Running
    <2>2. [digest |-> Digest, last |-> 0] \in Checkpoint
      BY DEF TypeOK, Digest, Checkpoint
    <2>3. dest' \in Database
      BY <1>12, <2>1, <2>2, CountType DEF StoreFirstCheckpoint, Database
    <2> QED BY <1>12, <2>3 DEF StoreFirstCheckpoint, TypeOK
  <1>13. CASE FinishMigration
    <2>1. dest \in Database
      BY <1>13 DEF FinishMigration, Running
    <2>2. dest' \in Database
      BY <1>13, <2>1, CountType DEF FinishMigration, Database
    <2> QED BY <1>13, <2>2 DEF FinishMigration, TypeOK
  <1>14. CASE CompactFails \/ CreationFails \/ MigrationFails \/ Crash
    BY <1>14 DEF CompactFails, CreationFails, MigrationFails, Crash, TypeOK
  <1>15. CASE UNCHANGED vars
    BY <1>15 DEF vars, TypeOK
  <1> QED
    BY <1>1, <1>2, <1>3, <1>4, <1>5, <1>6, <1>7, <1>8, <1>9, <1>10, <1>11, <1>12, <1>13, <1>14, <1>15
    DEF Next, Steps

LEMMA SourceStep == IInv /\ [Next]_vars => SourceKept'
  <1> SUFFICES ASSUME IInv, [Next]_vars PROVE SourceKept'
    OBVIOUS
  <1> USE DEF IInv
  <1>1. ASSUME NEW k \in Logical, NEW logged \in BOOLEAN, EditSource(k, logged)  PROVE SourceKept'
    <2>1. ASSUME NEW j \in Key \ LogKey  PROVE source'[j] = source'[Owner[j]]
      BY <1>1, <2>1, CopyOutAssumption DEF EditSource, SourceKept
    <2>2. [rows |-> source', head |-> head'] \in versions'
      BY <1>1 DEF EditSource
    <2> QED BY <2>1, <2>2 DEF SourceKept
  <1>2. CASE UNCHANGED <<source, head, versions>>
    BY <1>2 DEF SourceKept
  <1> QED
    BY <1>1, <1>2
    DEF Next, Steps, vars, RemoveDestination, OpenEmpty, CreateExclusive, Resume, WriteFirstHeader,
        CompactBatch, MigrateBatch, SetHead, ClearMark, CloseCompacted, StoreFirstCheckpoint,
        FinishMigration, CompactFails, CreationFails, MigrationFails, Crash

-----------------------------------------------------------------------------
(* A finished copy stays one: the history of the source only grows.        *)
LEMMA WholeKept ==
  ASSUME NEW d, NEW vs, NEW ws, NEW version, vs \subseteq ws, WholeOf(d, vs, version)
  PROVE  WholeOf(d, ws, version)
  BY DEF WholeOf

(* compact.go: when the scan has ended the copy is whole.                  *)
LEMMA VerbatimIsPromised ==
  ASSUME IInv, phase = "compact", dest \in Database, Verbatim(dest), dest.by = call, Rest = {}
  PROVE  dest.rows = Promised(dest.by, source)
  <1>1. Key \subseteq Nat /\ pos \in Nat /\ source \in Rows
    BY CopyOutAssumption DEF IInv, TypeOK
  <1>2. call \in Call /\ (Compacts(call) \/ Authenticates(call))
    BY DEF IInv, Running
  <1>3. ASSUME NEW k \in Scanned  PROVE k <= pos
    BY <1>1 DEF Rest, Scanned
  <1>4. ASSUME NEW k \in Key
        PROVE  (IF k \in Scanned /\ k <= pos THEN source[k] ELSE None)
                 = (IF call.reset /\ k \in LogKey THEN None ELSE source[k])
    <2>1. CASE k \in Scanned
      <3>1. k <= pos
        BY <1>3, <2>1
      <3>2. ~(call.reset /\ k \in LogKey)
        BY <1>2, <2>1 DEF Scanned, Compacts, Authenticates
      <3> QED BY <2>1, <3>1, <3>2
    <2>2. CASE k \notin Scanned
      <3>1. source[k] = None \/ (call.reset /\ k \in LogKey)
        BY <2>2 DEF Scanned
      <3> QED BY <2>2, <3>1
    <2> QED BY <2>1, <2>2
  <1> QED BY <1>4 DEF Verbatim, Promised

(* migration.go: so it is when the last checkpoint names the last row.     *)
LEMMA UpToIsPromised ==
  ASSUME IInv, phase = "rows", Rest = {}
  PROVE  dest.rows = Promised(dest.by, source)
  <1>1. /\ Key \subseteq Nat /\ pos \in Nat /\ source \in Rows
        /\ LogKey \subseteq Key /\ Owner \in [Key -> Key]
        /\ \A k \in Key : k \in LogKey <=> Owner[k] \in LogKey
    BY CopyOutAssumption DEF IInv, TypeOK
  <1>2. /\ dest \in Database /\ dest.cp.digest = source /\ dest.cp.last = pos
        /\ Resumable(dest) /\ Migrates(call)
    BY DEF IInv, Running, Left
  <1>3. ASSUME NEW k \in Key, source[k] # None  PROVE k <= pos
    <2>1. k \in Scanned
      BY <1>2, <1>3 DEF Scanned, Migrates
    <2> QED BY <1>1, <2>1 DEF Rest
  <1>4. ASSUME NEW k \in Key
        PROVE  (IF k \notin LogKey /\ Owner[k] <= pos THEN source[Owner[k]] ELSE None)
                 = (IF dest.by.reset /\ k \in LogKey THEN None ELSE source[k])
    <2>1. CASE k \in LogKey
      BY <1>2, <2>1 DEF Resumable
    <2>2. CASE k \notin LogKey
      <3>1. source[k] = source[Owner[k]] /\ Owner[k] \in Key
        BY <1>1, <2>2 DEF IInv, SourceKept
      <3>2. Owner[k] <= pos \/ source[Owner[k]] = None
        BY <1>3, <3>1
      <3> QED BY <2>2, <3>1, <3>2
    <2> QED BY <2>1, <2>2
  <1>5. dest.rows = [k \in Key |-> IF k \notin LogKey /\ Owner[k] <= pos THEN source[Owner[k]] ELSE None]
    BY <1>2 DEF Resumable, UpTo
  <1> QED BY <1>4, <1>5 DEF Promised

(* A batch extends what has been copied to its last row.                   *)
LEMMA CompactedFurther ==
  ASSUME IInv, dest \in Database, Verbatim(dest), NEW last, BatchEnds(last)
  PROVE  Copied(dest.rows, Batch) = [k \in Key |-> IF k \in Scanned /\ k <= last THEN source[k] ELSE None]
  <1>1. \A k \in Scanned : k <= last <=> k <= pos \/ k \in Batch
    BY BatchIsNext DEF IInv
  <1>2. Batch \subseteq Scanned
    BY DEF Batch, Rest
  <1> QED BY <1>1, <1>2 DEF Verbatim, Copied

LEMMA MigratedFurther ==
  ASSUME IInv, phase = "rows", NEW last, BatchEnds(last)
  PROVE  Rebuilt(dest.rows, Batch) = UpTo([dest.cp EXCEPT !.last = last])
  <1>1. \A k \in Scanned : k <= last <=> k <= pos \/ k \in Batch
    BY BatchIsNext DEF IInv
  <1>2. /\ dest \in Database /\ dest.cp \in Checkpoint
        /\ dest.cp.digest = source /\ dest.cp.last = pos
        /\ dest.rows = UpTo(dest.cp) /\ Migrates(call)
    BY DEF IInv, Running, Left, Resumable, HasCheckpoint, Database
  <1>3. Key \subseteq Nat /\ Owner \in [Key -> Key] /\ pos \in Nat /\ last \in Key /\ last > pos
    BY CopyOutAssumption, BatchIsNext DEF IInv, TypeOK
  <1>4. Batch \subseteq Scanned
    BY DEF Batch, Rest
  <1>5. ASSUME NEW k \in Key, k \notin LogKey
        PROVE  (IF Owner[k] \in Batch THEN source[Owner[k]]
                ELSE IF Owner[k] <= pos THEN source[Owner[k]] ELSE None)
                 = (IF Owner[k] <= last THEN source[Owner[k]] ELSE None)
    <2>1. Owner[k] \in Key /\ Owner[k] \in Nat
      BY <1>3
    <2>2. CASE Owner[k] \in Scanned
      BY <1>1, <2>2
    <2>3. CASE Owner[k] \notin Scanned
      <3>1. source[Owner[k]] = None
        BY <1>2, <2>1, <2>3 DEF Scanned, Migrates
      <3> QED BY <3>1
    <2> QED BY <2>2, <2>3
  <1>6. [dest.cp EXCEPT !.last = last].digest = source /\ [dest.cp EXCEPT !.last = last].last = last
    BY <1>2 DEF Checkpoint
  <1>7. Rebuilt(dest.rows, Batch)
          = [k \in Key |-> IF k \notin LogKey /\ Owner[k] \in Batch THEN source[Owner[k]]
                          ELSE IF k \notin LogKey /\ Owner[k] <= pos THEN source[Owner[k]] ELSE None]
    BY <1>2 DEF Rebuilt, UpTo
  <1>8. UpTo([dest.cp EXCEPT !.last = last])
          = [k \in Key |-> IF k \notin LogKey /\ Owner[k] <= last THEN source[Owner[k]] ELSE None]
    BY <1>6 DEF UpTo
  <1> QED BY <1>5, <1>7, <1>8

-----------------------------------------------------------------------------
(* What is left to show of the file after a step.                          *)
LeftOf(d, vs, version) ==
  /\ d.cp # NoCheckpoint => Resumable(d)
  /\ d.cp = NoCheckpoint /\ ~d.mark => d.rows = NoRows \/ WholeOf(d, vs, version)

LEMMA LeftIs == (dest \in Database => LeftOf(dest, versions, format)) <=> Left
  BY DEF Left, LeftOf, Whole, HasCheckpoint

LEMMA LeftIsNext == (dest' \in Database => LeftOf(dest', versions', format')) <=> Left'
  <1>1. Left' <=> (dest' \in Database =>
                     /\ dest'.cp # NoCheckpoint => Resumable(dest')
                     /\ ~(dest'.cp # NoCheckpoint) /\ ~dest'.mark
                          => dest'.rows = NoRows \/ WholeOf(dest', versions', format'))
    BY DEF Left, HasCheckpoint, Whole, WholeOf, Resumable, UpTo, Promised, NoRows
  <1> QED BY <1>1 DEF LeftOf

LEMMA LeftStep == IInv /\ [Next]_vars => Left'
  <1> SUFFICES ASSUME IInv, [Next]_vars PROVE Left'
    OBVIOUS
  <1> USE DEF IInv
  <1>1. CASE UNCHANGED <<format, dest>> /\ versions \subseteq versions'
    <2>1. dest \in Database => LeftOf(dest, versions', format)
      BY <1>1, LeftIs, WholeKept DEF LeftOf
    <2> QED BY <1>1, <2>1, LeftIsNext
  <1>2. CASE dest' \in {Absent, Empty}
    BY <1>2, CopyOutValues DEF Left
  <1>3. CASE OpenEmpty
    BY <1>3 DEF OpenEmpty, New, Left, HasCheckpoint, NoRows
  <1>4. CASE WriteFirstHeader
    BY <1>4 DEF WriteFirstHeader, New, Left, HasCheckpoint, NoRows
  <1>5. ASSUME NEW last \in Key, CompactBatch(last)  PROVE Left'
    BY <1>5, CopyOutValues DEF CompactBatch, Header, Running, Made, Left, HasCheckpoint, Database
  <1>6. CASE SetHead
    BY <1>6, CopyOutValues DEF SetHead, Header, Running, Made, Left, HasCheckpoint, Database
  <1>7. CASE ClearMark
    <2>1. dest \in Database /\ dest.cp = NoCheckpoint /\ Whole
      BY <1>7 DEF ClearMark, Running
    <2>2. dest' = [dest EXCEPT !.mark = FALSE] /\ UNCHANGED <<format, versions>>
      BY <1>7 DEF ClearMark
    <2>3. /\ dest'.rows = dest.rows /\ dest'.by = dest.by /\ dest'.format = dest.format
          /\ dest'.cp = NoCheckpoint /\ dest'.head = dest.head
      BY <2>1, <2>2 DEF Database
    <2>4. WholeOf(dest', versions', format')
      BY <2>1, <2>2, <2>3 DEF Whole, WholeOf
    <2> QED BY <2>3, <2>4, LeftIsNext DEF LeftOf
  <1>8. CASE StoreFirstCheckpoint
    <2>1. /\ dest \in Database /\ Made(dest) /\ dest.rows = NoRows
          /\ call \in Call /\ Migrates(call)
      BY <1>8 DEF StoreFirstCheckpoint, Header, Running
    <2>2. dest' = [dest EXCEPT !.cp = [digest |-> source, last |-> 0], !.head = dest.head + 1]
      BY <1>8 DEF StoreFirstCheckpoint, Digest
    <2>3. /\ dest'.cp = [digest |-> source, last |-> 0] /\ dest'.rows = NoRows
          /\ dest'.by = call /\ dest'.format = call.target
      BY <2>1, <2>2 DEF Database, Made
    <2>4. ASSUME NEW k \in Key  PROVE ~(Owner[k] <= 0)
      <3>1. Owner[k] \in Nat \ {0}
        BY CopyOutAssumption
      <3> QED BY <3>1
    <2>5. UpTo(dest'.cp) = NoRows
      BY <2>3, <2>4 DEF UpTo, NoRows
    <2>6. ~call.reset => \A k \in LogKey : source[k] = None
      BY <2>1 DEF Migrates, HistoryKept, ChangelogState
    <2>7. Resumable(dest')
      BY <2>1, <2>3, <2>5, <2>6 DEF Resumable, Migrates
    <2>8. dest'.cp # NoCheckpoint
      BY <2>3, CopyOutValues DEF TypeOK, Checkpoint
    <2> QED BY <2>7, <2>8, LeftIsNext DEF LeftOf
  <1>9. ASSUME NEW last \in Key, MigrateBatch(last)  PROVE Left'
    <2>1. dest \in Database /\ Resumable(dest) /\ dest.cp \in Checkpoint
      BY <1>9 DEF MigrateBatch, Running, Left, HasCheckpoint, Database
    <2>2. dest' = [dest EXCEPT !.rows = Rebuilt(dest.rows, Batch),
                               !.cp = [dest.cp EXCEPT !.last = last], !.head = dest.head + 1]
      BY <1>9 DEF MigrateBatch, Advanced
    <2>3. /\ dest'.rows = Rebuilt(dest.rows, Batch) /\ dest'.cp = [dest.cp EXCEPT !.last = last]
          /\ dest'.by = dest.by /\ dest'.format = dest.format
      BY <2>1, <2>2 DEF Database
    <2>4. dest'.rows = UpTo(dest'.cp)
      BY <1>9, <2>3, MigratedFurther DEF MigrateBatch
    <2>5. dest'.cp.digest = dest.cp.digest /\ dest'.cp \in Checkpoint
      BY <2>1, <2>3, CopyOutAssumption DEF Checkpoint
    <2>6. Resumable(dest')
      BY <2>1, <2>3, <2>4, <2>5 DEF Resumable
    <2>7. dest'.cp # NoCheckpoint
      BY <2>5, CopyOutValues
    <2> QED BY <2>6, <2>7, LeftIsNext DEF LeftOf
  <1>10. CASE FinishMigration
    <2>1. CASE Verified
      <3>1. dest \in Database /\ Resumable(dest) /\ dest.rows = Promised(dest.by, source)
        BY <1>10, UpToIsPromised DEF FinishMigration, Running, Left
      <3>2. dest' = [dest EXCEPT !.cp = NoCheckpoint, !.head = dest.head + 1]
        BY <1>10, <2>1 DEF FinishMigration
      <3>3. /\ dest'.rows = dest.rows /\ dest'.by = dest.by /\ dest'.format = dest.format
            /\ dest'.cp = NoCheckpoint
        BY <3>1, <3>2 DEF Database
      <3>4. [rows |-> source, head |-> head] \in versions'
        BY <1>10 DEF FinishMigration, SourceKept
      <3>5. dest'.by.op = "migrate" /\ dest'.format = dest'.by.target
        BY <3>1, <3>3 DEF Resumable
      <3>6. WholeOf(dest', versions', format')
        BY <3>1, <3>3, <3>4, <3>5 DEF WholeOf
      <3> QED BY <3>3, <3>6, LeftIsNext DEF LeftOf
    <2>2. CASE ~Verified
      BY <1>1, <1>10, <2>2 DEF FinishMigration
    <2> QED BY <2>1, <2>2
  <1> QED
    BY <1>1, <1>2, <1>3, <1>4, <1>5, <1>6, <1>7, <1>8, <1>9, <1>10
    DEF Next, Steps, vars, EditSource, RemoveDestination, CreateExclusive, Resume, CloseCompacted,
        CompactFails, CreationFails, MigrationFails, Crash

-----------------------------------------------------------------------------
LEMMA RunningStep == IInv /\ [Next]_vars => Running'
  <1> SUFFICES ASSUME IInv, [Next]_vars PROVE Running'
    OBVIOUS
  <1> USE DEF IInv
  <1>1. CASE phase' = "idle"
    BY <1>1 DEF Running
  <1>2. ASSUME NEW c \in Call, CreateExclusive(c)  PROVE Running'
    BY <1>2 DEF CreateExclusive, Running, Compacts, Authenticates, Migrates, HistoryKept, ChangelogState
  <1>3. ASSUME NEW c \in Call, Resume(c)  PROVE Running'
    <2>1. dest \in Database /\ HasCheckpoint /\ dest.cp.digest = source
      BY <1>3 DEF Resume, SameSource, Digest, TypeOK
    <2> QED BY <1>3, <2>1
        DEF Resume, Running, Migrates, HistoryKept, ChangelogState, HasCheckpoint
  <1>4. CASE WriteFirstHeader
    <2>1. /\ dest = Empty /\ dest' = New(call.target, MarkOfNew, call)
          /\ phase \in {"compact", "migrate"} /\ call \in Call
          /\ UNCHANGED <<format, source, head, call, phase, pos>>
      BY <1>4 DEF WriteFirstHeader, Running
    <2>2. pos = 0
      BY <2>1, CopyOutValues DEF Running
    <2>3. dest' \in Database
      <3>1. call.target \in Format /\ MarkOfNew \in BOOLEAN
        BY <2>1 DEF Call, MarkOfNew
      <3> QED BY <2>1, <3>1, NewType
    <2>4. /\ dest'.by = call /\ dest'.format = call.target /\ dest'.cp = NoCheckpoint
          /\ dest'.rows = NoRows /\ (phase = "compact" => dest'.mark)
      BY <2>1 DEF New, MarkOfNew
    <2>5. Made(dest)'
      BY <2>1, <2>4 DEF Made
    <2>6. Verbatim(dest)'
      <3>1. \A k \in Key : ~(k <= 0)
        BY CopyOutAssumption
      <3>2. dest'.rows = [k \in Key |-> IF k \in Scanned' /\ k <= pos' THEN source'[k] ELSE None]
        BY <2>1, <2>2, <2>4, <3>1 DEF NoRows
      <3> QED BY <3>2 DEF Verbatim
    <2>7. dest'.rows = NoRows'
      BY <2>4 DEF NoRows
    <2>8. phase = "compact" => Compacts(call)' \/ Authenticates(call)'
      BY <2>1 DEF Running, Compacts, Authenticates, HistoryKept, ChangelogState
    <2>9. phase = "migrate" => Migrates(call)'
      BY <2>1 DEF Running, Migrates, HistoryKept, ChangelogState
    <2> QED BY <2>1, <2>2, <2>3, <2>4, <2>5, <2>6, <2>7, <2>8, <2>9 DEF Running
  <1>5. ASSUME NEW last \in Key, CompactBatch(last)  PROVE Running'
    <2>1. /\ dest \in Database /\ dest.mark /\ Made(dest) /\ Verbatim(dest)
          /\ BatchEnds(last) /\ dest' = [dest EXCEPT !.rows = Copied(dest.rows, Batch)]
          /\ phase = "compact" /\ pos' = last
          /\ UNCHANGED <<format, source, head, call, phase>>
      BY <1>5 DEF CompactBatch, Header, Running
    <2>2. /\ dest' \in Database /\ dest'.mark /\ dest'.by = call /\ dest'.format = call.target
          /\ dest'.cp = NoCheckpoint /\ dest'.rows = Copied(dest.rows, Batch)
      BY <2>1, CopiedType DEF Database, Made
    <2>3. Made(dest)'
      BY <2>1, <2>2 DEF Made
    <2>4. Scanned' = Scanned
      BY <2>1 DEF Scanned
    <2>5. dest'.rows = [k \in Key |-> IF k \in Scanned' /\ k <= pos' THEN source'[k] ELSE None]
      BY <2>1, <2>2, <2>4, CompactedFurther
    <2>6. Verbatim(dest)'
      BY <2>5 DEF Verbatim
    <2>7. call' \in Call /\ (Compacts(call)' \/ Authenticates(call)')
      BY <2>1 DEF Running, Compacts, Authenticates, HistoryKept, ChangelogState
    <2> QED BY <2>1, <2>2, <2>3, <2>6, <2>7 DEF Running
  <1>6. ASSUME NEW last \in Key, MigrateBatch(last)  PROVE Running'
    <2>1. /\ dest \in Database /\ HasCheckpoint /\ dest.cp.digest = source /\ dest.cp \in Checkpoint
          /\ call \in Call /\ Migrates(call)
          /\ dest' = [dest EXCEPT !.rows = Rebuilt(dest.rows, Batch),
                                  !.cp = [dest.cp EXCEPT !.last = last], !.head = dest.head + 1]
          /\ phase = "rows" /\ pos' = last
          /\ UNCHANGED <<format, source, head, call, phase>>
      BY <1>6 DEF MigrateBatch, Running, HasCheckpoint, Database, Advanced
    <2>2. dest'.cp = [dest.cp EXCEPT !.last = last]
      BY <2>1 DEF Database
    <2>3. dest'.cp \in Checkpoint /\ dest'.cp.digest = source /\ dest'.cp.last = last
      BY <2>1, <2>2, CopyOutAssumption DEF Checkpoint
    <2>4. dest' \in Database
      <3>1. Rebuilt(dest.rows, Batch) \in Rows
        BY <2>1, CopiedType
      <3> QED BY <2>1, <2>2, <2>3, <3>1, CountType DEF Database
    <2>5. HasCheckpoint'
      BY <2>3, CopyOutValues DEF HasCheckpoint
    <2>6. Migrates(call)'
      BY <2>1 DEF Migrates, HistoryKept, ChangelogState
    <2> QED BY <2>1, <2>3, <2>4, <2>5, <2>6 DEF Running
  <1>7. CASE SetHead
    <2>1. /\ dest \in Database /\ dest.by = call /\ dest.format = call.target
          /\ dest.cp = NoCheckpoint /\ Verbatim(dest) /\ Rest = {}
          /\ dest' = [dest EXCEPT !.head = IF format >= 2 THEN head ELSE @]
          /\ phase = "compact" /\ phase' = "verify" /\ call \in Call
          /\ UNCHANGED <<format, source, head, call, pos, versions>>
      BY <1>7 DEF SetHead, Header, Running, Made, SourceHead
    <2>2. dest.rows = Promised(dest.by, source)
      BY <2>1, VerbatimIsPromised
    <2>3. /\ dest' \in Database /\ dest'.rows = dest.rows /\ dest'.by = call /\ dest'.cp = NoCheckpoint
          /\ dest'.format = call.target /\ (format >= 2 => dest'.head = head)
      BY <2>1 DEF Database, TypeOK
    <2>4. [rows |-> source, head |-> head] \in versions'
      BY <2>1 DEF SourceKept
    <2>5. WholeOf(dest', versions', format')
      BY <2>1, <2>2, <2>3, <2>4 DEF WholeOf
    <2>6. Compacts(call)' \/ Authenticates(call)'
      BY <2>1 DEF Running, Compacts, Authenticates, HistoryKept, ChangelogState
    <2>7. Whole'
      BY <2>5 DEF Whole, WholeOf, Promised
    <2> QED BY <2>1, <2>3, <2>6, <2>7 DEF Running
  <1>8. CASE ClearMark
    <2>1. /\ dest \in Database /\ dest.cp = NoCheckpoint /\ Whole
          /\ dest' = [dest EXCEPT !.mark = FALSE]
          /\ phase = "verify" /\ phase' = "close" /\ call \in Call
          /\ UNCHANGED <<format, source, head, call, pos, versions>>
      BY <1>8 DEF ClearMark, Running
    <2>2. /\ dest' \in Database /\ dest'.rows = dest.rows /\ dest'.by = dest.by
          /\ dest'.cp = NoCheckpoint /\ dest'.format = dest.format /\ dest'.head = dest.head
      BY <2>1 DEF Database
    <2>3. WholeOf(dest', versions', format')
      BY <2>1, <2>2 DEF Whole, WholeOf
    <2>4. Whole'
      BY <2>3 DEF Whole, WholeOf, Promised
    <2>5. Compacts(call)' \/ Authenticates(call)'
      BY <2>1 DEF Running, Compacts, Authenticates, HistoryKept, ChangelogState
    <2> QED BY <2>1, <2>2, <2>4, <2>5 DEF Running
  <1>9. CASE StoreFirstCheckpoint
    <2>1. /\ dest \in Database /\ pos = 0 /\ call \in Call /\ Migrates(call)
          /\ dest' = [dest EXCEPT !.cp = [digest |-> source, last |-> 0], !.head = dest.head + 1]
          /\ phase' = "rows"
          /\ UNCHANGED <<format, source, head, call, pos>>
      BY <1>9 DEF StoreFirstCheckpoint, Header, Running, Digest
    <2>2. [digest |-> source, last |-> 0] \in Checkpoint
      BY DEF TypeOK, Checkpoint
    <2>3. dest' \in Database /\ dest'.cp = [digest |-> source, last |-> 0]
      BY <2>1, <2>2, CountType DEF Database
    <2>4. HasCheckpoint'
      BY <2>2, <2>3, CopyOutValues DEF HasCheckpoint
    <2>5. Migrates(call)'
      BY <2>1 DEF Migrates, HistoryKept, ChangelogState
    <2> QED BY <2>1, <2>3, <2>4, <2>5 DEF Running
  <1>10. CASE \/ \E k \in Logical, logged \in BOOLEAN : EditSource(k, logged)
              \/ RemoveDestination \/ OpenEmpty
    BY <1>10 DEF EditSource, SourceLocked, RemoveDestination, OpenEmpty, Running
  <1>11. CASE UNCHANGED vars
    BY <1>11 DEF vars, Running, Whole, WholeOf, Promised, Made, Verbatim, Scanned, HasCheckpoint,
         Compacts, Authenticates, Migrates, HistoryKept, ChangelogState, NoRows
  <1> QED
    BY <1>1, <1>2, <1>3, <1>4, <1>5, <1>6, <1>7, <1>8, <1>9, <1>10, <1>11
    DEF Next, Steps, CloseCompacted, FinishMigration, CompactFails, CreationFails, MigrationFails, Crash

-----------------------------------------------------------------------------
LEMMA CopyInit == Init => IInv
  <1> SUFFICES ASSUME Init PROVE IInv
    OBVIOUS
  <1>1. TypeOK
    BY TypeInit
  <1>2. SourceKept
    <2>1. ASSUME NEW k \in Key \ LogKey  PROVE source[k] = source[Owner[k]]
      BY <2>1, CopyOutAssumption DEF Init
    <2> QED BY <2>1 DEF Init, SourceKept
  <1>3. Left /\ Running
    BY CopyOutValues DEF Init, Left, Running
  <1> QED BY <1>1, <1>2, <1>3 DEF IInv

(***************************************************************************)
(* The inductive invariant holds in every state of every behaviour.        *)
(***************************************************************************)
THEOREM CopyInvariant == Spec => []IInv
  <1>1. IInv /\ [Next]_vars => IInv'
    BY TypeStep, SourceStep, LeftStep, RunningStep DEF IInv
  <1> QED BY <1>1, CopyInit, PTL DEF Spec

(***************************************************************************)
(* The checkpoint of an interrupted migration (migration.go) names exactly *)
(* the records the destination holds, with the index rows that fit them    *)
(* and no changefeed, of the source whose digest it carries.               *)
(***************************************************************************)
THEOREM MigrationTruthful == Spec => []CheckpointTrue
  <1>1. IInv => CheckpointTrue
    BY DEF IInv, TypeOK, Left, Resumable, UpTo, CheckpointTrue
  <1> QED BY <1>1, CopyInvariant, PTL

(***************************************************************************)
(* Whatever the copies of compact.go and migration.go leave and Open       *)
(* accepts has the format asked for, one whole state of the source, its    *)
(* changefeed unless the caller gave it up, and the head that makes its    *)
(* rows visible; or it has no row at all.                                  *)
(***************************************************************************)
THEOREM OpenedIsWhole == Spec => []WholeCopy
  <1>1. IInv => WholeCopy
    <2> SUFFICES ASSUME IInv, phase = "idle", Opens, dest.rows # NoRows
                 PROVE  WholeCopy
      BY DEF WholeCopy
    <2>1. dest \in Database /\ ~HasCheckpoint /\ ~dest.mark
      BY DEF IInv, TypeOK, Opens
    <2>2. Whole
      BY <2>1 DEF IInv, Left
    <2> QED BY <2>2 DEF Whole, WholeOf, WholeCopy
  <1> QED BY <1>1, CopyInvariant, PTL
=============================================================================
