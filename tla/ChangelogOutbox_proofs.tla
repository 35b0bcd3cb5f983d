----------------------- MODULE ChangelogOutbox_proofs -----------------------
(***************************************************************************)
(* Proofs about the changefeed (ChangelogOutbox), for every number of      *)
(* workers, every flush limit and every scenario.                          *)
(*                                                                         *)
(* Three files of state have to agree: the outbox in the primary, the      *)
(* frames of the sidecar, and the prefix of them that is on the medium.    *)
(* The invariant says how.  The entries of the outbox, in key order, are   *)
(* the frames behind the synced prefix, so that whatever a crash cuts off  *)
(* is appended again with the same numbers (Mirror); an incomplete or an   *)
(* unsynced frame is always backed by the outbox (FilesInv); and what a    *)
(* consumer has been given stays given, in the file or in the outbox       *)
(* (ReadTo).                                                               *)
(*                                                                         *)
(* The proofs go by what a step does to the primary (PrimStep, OutboxStep) *)
(* and to the file (LogStep, EntriesStep) where that is enough, and by the *)
(* action where the phase matters.                                         *)
(***************************************************************************)
EXTENDS ChangelogOutbox, FiniteSetTheorems, SequenceTheorems, TLAPS

-----------------------------------------------------------------------------
(* An outbox key (commit id, ordinal) or the name of an intent (Update,    *)
(* ordinal).                                                               *)
Pair == (Nat \ {0}) \X (Nat \ {0})

Frame == [seq : Nat, intent : Pair]

Outboxes == UNION {[K -> Pair] : K \in SUBSET Pair}

Primary ==
  [outbox : Outboxes, cursor : Nat \cup {Unregistered},
   checkpoint : [ok : BOOLEAN, hist : Seq(Frame)], head : Nat, mutations : Seq(Pair)]

Phases == {"down", "ready"} \cup UpdatePhases \cup ClosePhases \cup OpenPhases

Transaction == [id : Nat, before : Nat, intents : Seq(Pair)]

(* The type invariant: what the variables of the model range over.         *)
TypeOK ==
  /\ prim \in Primary
  /\ header \in Headers
  /\ log \in Seq(Frame) /\ torn \in BOOLEAN /\ synced \in 0..Len(log)
  /\ hist \in Seq(Frame) /\ phase \in Phases /\ mode \in {"eager", "lazy", "off"}
  /\ tx \in Transaction
  /\ seqNext \in Nat /\ pendingOutbox \in Nat /\ recoveryRequired \in BOOLEAN
  /\ openError \in {"none", "corrupt", "failed", "finalization", "invalidated"}
  /\ seen \in [Worker -> [from : Nat, upto : Nat]]
  /\ processed \subseteq Pair
  /\ updates \in Nat /\ failures \in Nat /\ crashes \in Nat /\ losses \in Nat
  /\ env \in Scenario

(* A process with a changelog has the database open; Healthy: and no       *)
(* failed commit blocks it.                                                *)
Feeding == phase # "down" /\ mode # "off"
Healthy == Feeding /\ ~recoveryRequired

keys == DOMAIN prim.outbox

(* Where the process can be: a finished one has no state, every step of an *)
(* Update, a Close or an Open belongs to a healthy handle, and only the    *)
(* default mode syncs and cleans up within an Update.                      *)
ProcessInv ==
  /\ phase = "down" => mode = "off" /\ ~recoveryRequired /\ pendingOutbox = 0
  /\ phase \notin {"down", "ready"} => Healthy
  /\ phase \in {"sync", "cleanup"} => mode = "eager"
  /\ phase \in OpenPhases => pendingOutbox = 0
  /\ openError = "corrupt" => phase = "down"

(* The sidecar: frames numbered without a gap, an incomplete frame or an   *)
(* unsynced one only while entries wait in the outbox, and the history in  *)
(* memory (maxSeq, logicalDigest) that of the file; a cleanup follows a    *)
(* sync.                                                                   *)
FilesInv ==
  /\ Contiguous
  /\ torn => keys # {}
  /\ synced < Len(log) => keys # {}
  /\ Healthy => ~torn /\ hist = log
  /\ phase \in CleanupPhases => synced = Len(log)

(* The header of the sidecar: no frame without a whole header, no frame on *)
(* the medium without the header on it, and a process that feeds has       *)
(* created the file.                                                       *)
HeaderInv ==
  /\ header \in {"none", "cut"} => log = <<>> /\ ~torn
  /\ synced > 0 => header = "synced"
  /\ Feeding /\ phase # "create" => header \in {"written", "synced"}
  /\ phase = "create" => header = "none"

(* The outbox: no entry above the head, every entry a committed mutation,  *)
(* and key order the order of the mutations.                               *)
KeysInv ==
  /\ IsFiniteSet(keys)
  /\ \A k \in keys : k[1] <= prim.head
  /\ \A k \in keys : \E j \in DOMAIN prim.mutations : prim.mutations[j] = prim.outbox[k]
  /\ \A k, l \in keys : KeyLess(k, l) => KeyLess(prim.outbox[k], prim.outbox[l])

(* The committed mutations are in the order of the Updates and, in one     *)
(* Update, of its calls.                                                   *)
MutationsInv ==
  /\ \A i \in DOMAIN prim.mutations :
       /\ prim.mutations[i][1] <= updates
       /\ phase = "staged" => prim.mutations[i][1] < updates
  /\ \A i, j \in DOMAIN prim.mutations : i < j => KeyLess(prim.mutations[i], prim.mutations[j])

(* The Update under way: its commit id follows the head and its entries,   *)
(* once committed, are the last of the outbox.                             *)
TxInv ==
  /\ phase \in {"staged", "append", "sync", "cleanup"} =>
       /\ tx.intents # <<>>
       /\ \A i \in DOMAIN tx.intents : tx.intents[i] = <<updates, i>>
  /\ phase = "staged" => tx.before = prim.head /\ tx.id = prim.head + 1 /\ seqNext = tx.id
  /\ Healthy /\ phase # "staged" => seqNext = prim.head
  /\ phase \in {"append", "sync", "cleanup"} =>
       /\ tx.id = prim.head
       /\ StagedKeys \subseteq keys
       /\ \A i \in DOMAIN tx.intents : prim.outbox[<<tx.id, i>>] = tx.intents[i]
       /\ \A k \in keys \ StagedKeys : k[1] < tx.id

(* The sidecar has a frame of the mutation.                                *)
InLog(m) == \E i \in DOMAIN log : log[i].intent = m

(* What is in the outbox is in the file as well, except what a write under *)
(* way has yet to append; in the default mode no entry outlives its        *)
(* Update.                                                                 *)
ProjectionInv ==
  /\ Healthy /\ mode = "eager" =>
       /\ phase \in {"ready", "staged"} => keys = {}
       /\ phase \in {"append", "sync", "cleanup"} => keys = StagedKeys
  /\ phase = "validate" => keys = {}
  /\ phase = "openAppend" => keys # {}
  /\ Healthy /\ phase \notin {"append", "openAppend", "create", "createSync"} =>
       \A k \in keys : InLog(prim.outbox[k])
  /\ phase = "append" => \A k \in keys \ StagedKeys : InLog(prim.outbox[k])

(* The counter of lazy mode is never behind the entries it counts.         *)
BoundInv ==
  /\ Healthy /\ mode = "lazy" /\ phase \in {"ready", "staged"} =>
       Cardinality(keys) <= pendingOutbox /\ pendingOutbox < FlushLimit
  /\ mode = "lazy" /\ phase = "append" =>
       Cardinality(keys) <= pendingOutbox + Len(tx.intents)

(* The place of key k among the keys K.                                    *)
Rank(K, k) == Cardinality({x \in K : x = k \/ KeyLess(x, k)})

(* How many frames are not yet on the medium, against the entries that     *)
(* wait.                                                                   *)
SizeInv ==
  /\ phase = "ready" /\ mode # "off" => Len(log) <= synced + Cardinality(keys)
  /\ Healthy /\ phase \in {"ready", "staged", "sync", "flushSync", "closeSync", "validate"} =>
       Len(log) = synced + Cardinality(keys)
  /\ phase = "append" => Len(log) + Len(tx.intents) = synced + Cardinality(keys)
  /\ phase = "openSync" => Len(log) >= synced + Cardinality(keys)

(* The k-th entry of the outbox is the k-th frame that is not yet on the   *)
(* medium: this is why recovery gives a record the number it had.          *)
Mirror ==
  \A k \in keys : synced + Rank(keys, k) \in DOMAIN log =>
     log[synced + Rank(keys, k)].intent = prim.outbox[k]

MirrorInv ==
  Feeding /\ phase \notin {"create", "createSync", "openAppend", "openSync", "openCleanup"} =>
    Mirror

(* Records up to number b have been processed: those of the file, and      *)
(* those that recovery would append again from the outbox with these       *)
(* numbers.                                                                *)
ReadTo(b) ==
  /\ \A i \in DOMAIN log : i <= b => log[i].intent \in processed
  /\ \A k \in keys : synced + Rank(keys, k) <= b => prim.outbox[k] \in processed
  /\ b <= synced + Cardinality(keys)
  /\ phase \in CleanupPhases => b <= Len(log)

(* A cursor, and what a worker has read, lies over processed records only. *)
ReadInv ==
  losses = 0 => ReadTo(prim.cursor) /\ \A w \in Worker : ReadTo(seen[w].upto)

(* With an empty outbox the recorded checkpoint is a prefix of the file.   *)
CheckpointInv ==
  losses = 0 /\ prim.cursor # Unregistered /\ keys = {} =>
     LET n == Len(prim.checkpoint.hist)
     IN  /\ prim.checkpoint.ok
         /\ n <= Len(log)
         /\ prim.checkpoint.hist = SubSeq(log, 1, n)

(* The inductive invariant. None of the four properties at its end is      *)
(* inductive alone: that a crash loses nothing and invents nothing needs   *)
(* the correspondence of outbox and file (Projection, Size, Mirror), and   *)
(* that in turn needs the phases of an Update and the order of keys.       *)
IInv ==
  /\ TypeOK
  /\ ProcessInv /\ FilesInv /\ HeaderInv /\ KeysInv /\ MutationsInv /\ TxInv
  /\ ProjectionInv /\ BoundInv /\ SizeInv /\ MirrorInv /\ ReadInv /\ CheckpointInv
  /\ NoMutationLost /\ NoPhantomFrame /\ CommitOrder /\ OpenAccepts

-----------------------------------------------------------------------------
(* Facts about the data. *)

(* B+ tree order is a strict total order of the keys.                      *)
LEMMA KeyOrder ==
  /\ \A a \in Pair : ~KeyLess(a, a)
  /\ \A a, b, c \in Pair : KeyLess(a, b) /\ KeyLess(b, c) => KeyLess(a, c)
  /\ \A a, b \in Pair : a = b \/ KeyLess(a, b) \/ KeyLess(b, a)
  BY DEF Pair, KeyLess

(* What AppendIntents writes: numbered frames of the intents, in order. *)
LEMMA FramesType ==
  ASSUME NEW n \in Nat, NEW s \in Seq(Pair)
  PROVE  /\ Frames(n, s) \in Seq(Frame)
         /\ Len(Frames(n, s)) = Len(s)
         /\ \A i \in 1..Len(s) : Frames(n, s)[i] = [seq |-> n + i, intent |-> s[i]]
<1>1. DOMAIN s = 1..Len(s) /\ Len(s) \in Nat /\ \A i \in 1..Len(s) : s[i] \in Pair
  BY LenProperties, ElementOfSeq
<1>2. Frames(n, s) = [i \in 1..Len(s) |-> [seq |-> n + i, intent |-> s[i]]]
  BY <1>1 DEF Frames
<1>3. \A i \in 1..Len(s) : [seq |-> n + i, intent |-> s[i]] \in Frame
  BY <1>1 DEF Frame
<1>4. Frames(n, s) \in Seq(Frame)
  BY <1>1, <1>2, <1>3
<1> QED BY <1>1, <1>2, <1>4

(* lg2 is what is left of lg and of the frames of s behind it, up to keep. *)
Extends(lg, s, keep, lg2) ==
  /\ lg2 \in Seq(Frame) /\ Len(lg2) = keep
  /\ \A i \in 1..keep :
       lg2[i] = IF i <= Len(lg) THEN lg[i] ELSE [seq |-> i, intent |-> s[i - Len(lg)]]

(* A power loss leaves a prefix of the file and of the write behind it.    *)
LEMMA PrefixOfConcat ==
  ASSUME NEW lg \in Seq(Frame), NEW s \in Seq(Pair), NEW n \in Nat,
         s # <<>> => n = Len(lg),
         NEW keep \in 0..(Len(lg) + Len(s))
  PROVE  Extends(lg, s, keep, SubSeq(lg \o Frames(n, s), 1, keep))
<1> DEFINE f == Frames(n, s)
           c == lg \o f
<1>1. Len(lg) \in Nat /\ Len(s) \in Nat /\ (s = <<>> => Len(s) = 0)
  BY LenProperties, EmptySeq
<1>2. f \in Seq(Frame) /\ Len(f) = Len(s)
      /\ \A i \in 1..Len(s) : f[i] = [seq |-> n + i, intent |-> s[i]]
  BY FramesType
<1>3. c \in Seq(Frame) /\ Len(c) = Len(lg) + Len(s)
      /\ \A i \in 1..(Len(lg) + Len(s)) : c[i] = IF i <= Len(lg) THEN lg[i] ELSE f[i - Len(lg)]
  <2> HIDE DEF f
  <2>0. f \in Seq(Frame) BY <1>2
  <2>1. lg \o f \in Seq(Frame) /\ Len(lg \o f) = Len(lg) + Len(f)
        /\ \A i \in 1..(Len(lg) + Len(f)) :
             (lg \o f)[i] = IF i <= Len(lg) THEN lg[i] ELSE f[i - Len(lg)]
    BY <2>0, ConcatProperties
  <2> QED BY <1>2, <2>1
<1>4. \A i \in 1..keep : c[i] \in Frame
  <2> TAKE i \in 1..keep
  <2>1. i \in 1..Len(c) BY <1>1, <1>3
  <2> QED BY <2>1, <1>3, ElementOfSeq
<1>5. SubSeq(c, 1, keep) \in Seq(Frame)
      /\ Len(SubSeq(c, 1, keep)) = (IF 1 <= keep THEN keep - 1 + 1 ELSE 0)
      /\ \A i \in 1..(keep - 1 + 1) : SubSeq(c, 1, keep)[i] = c[1 + i - 1]
  <2> keep \in Int /\ 1 \in Int BY <1>1
  <2> HIDE DEF c
  <2> QED BY <1>4, SubSeqProperties
<1>6. Len(SubSeq(c, 1, keep)) = keep BY <1>1, <1>5
<1>7. ASSUME NEW i \in 1..keep
      PROVE  SubSeq(c, 1, keep)[i] =
               IF i <= Len(lg) THEN lg[i] ELSE [seq |-> i, intent |-> s[i - Len(lg)]]
  <2> HIDE DEF c, f
  <2>1. SubSeq(c, 1, keep)[i] = c[i] BY <1>1, <1>5
  <2>2. i \in 1..(Len(lg) + Len(s)) BY <1>1
  <2>3. CASE i <= Len(lg) BY <2>1, <2>2, <2>3, <1>3
  <2>4. CASE ~(i <= Len(lg))
    <3>1. i - Len(lg) \in 1..Len(s) BY <1>1, <2>2, <2>4
    <3>2. n = Len(lg) BY <3>1, <1>1
    <3>3. n + (i - Len(lg)) = i BY <3>2, <1>1
    <3>4. f[i - Len(lg)] = [seq |-> n + (i - Len(lg)), intent |-> s[i - Len(lg)]]
      BY <1>2, <3>1
    <3> QED BY <2>1, <2>2, <2>4, <1>3, <3>3, <3>4
  <2> QED BY <2>3, <2>4
<1> QED BY <1>5, <1>6, <1>7 DEF Extends

(* A write of which k frames reached the file is such a prefix. *)
LEMMA PartOfWrite ==
  ASSUME NEW lg \in Seq(Frame), NEW s \in Seq(Pair), NEW n \in Nat,
         s # <<>> => n = Len(lg),
         NEW k \in 0..Len(s)
  PROVE  Extends(lg, s, Len(lg) + k, lg \o SubSeq(Frames(n, s), 1, k))
<1> DEFINE f == Frames(n, s)
           g == SubSeq(f, 1, k)
<1>1. Len(lg) \in Nat /\ Len(s) \in Nat /\ (s = <<>> => Len(s) = 0)
  BY LenProperties, EmptySeq
<1>2. f \in Seq(Frame) /\ Len(f) = Len(s)
      /\ \A i \in 1..Len(s) : f[i] = [seq |-> n + i, intent |-> s[i]]
  BY FramesType
<1>3. \A i \in 1..k : f[i] \in Frame
  <2> TAKE i \in 1..k
  <2>1. i \in 1..Len(f) BY <1>1, <1>2
  <2> QED BY <2>1, <1>2, ElementOfSeq
<1>4. g \in Seq(Frame)
      /\ Len(g) = (IF 1 <= k THEN k - 1 + 1 ELSE 0)
      /\ \A i \in 1..(k - 1 + 1) : g[i] = f[1 + i - 1]
  <2> k \in Int /\ 1 \in Int BY <1>1
  <2> HIDE DEF f
  <2> QED BY <1>3, SubSeqProperties
<1>5. Len(g) = k /\ \A i \in 1..k : g[i] = f[i] BY <1>1, <1>4
<1>6. lg \o g \in Seq(Frame) /\ Len(lg \o g) = Len(lg) + Len(g)
      /\ \A i \in 1..(Len(lg) + Len(g)) : (lg \o g)[i] = IF i <= Len(lg) THEN lg[i] ELSE g[i - Len(lg)]
  <2> HIDE DEF g
  <2> QED BY <1>4, ConcatProperties
<1>7. ASSUME NEW i \in 1..(Len(lg) + k)
      PROVE  (lg \o g)[i] =
               IF i <= Len(lg) THEN lg[i] ELSE [seq |-> i, intent |-> s[i - Len(lg)]]
  <2> HIDE DEF g
  <2>1. (lg \o g)[i] = IF i <= Len(lg) THEN lg[i] ELSE g[i - Len(lg)] BY <1>5, <1>6
  <2>2. CASE i <= Len(lg) BY <2>1, <2>2
  <2>3. CASE ~(i <= Len(lg))
    <3>1. i - Len(lg) \in 1..k BY <1>1, <2>3
    <3>2. n = Len(lg) BY <3>1, <1>1
    <3>3. n + (i - Len(lg)) = i BY <3>2, <1>1
    <3>4. g[i - Len(lg)] = f[i - Len(lg)] /\ i - Len(lg) \in 1..Len(s) BY <1>1, <1>5, <3>1
    <3>5. f[i - Len(lg)] = [seq |-> n + (i - Len(lg)), intent |-> s[i - Len(lg)]]
      BY <1>2, <3>4
    <3> QED BY <2>1, <2>3, <3>3, <3>4, <3>5
  <2> QED BY <2>2, <2>3
<1> QED BY <1>5, <1>6, <1>7 DEF Extends

-----------------------------------------------------------------------------
(* The order in which the outbox is recovered. *)

(* AscendRange gives every key once, at its rank.                          *)
LEMMA Enumeration ==
  ASSUME NEW K \in SUBSET Pair, IsFiniteSet(K), NEW ks \in AscendRange(K)
  PROVE  /\ Cardinality(K) \in Nat
         /\ ks \in [1..Cardinality(K) -> K]
         /\ \A i, j \in 1..Cardinality(K) : i < j <=> KeyLess(ks[i], ks[j])
         /\ \A k \in K : \E j \in 1..Cardinality(K) : ks[j] = k
         /\ \A j \in 1..Cardinality(K) : Rank(K, ks[j]) = j
<1> DEFINE n == Cardinality(K)
<1>1. n \in Nat BY FS_CardinalityType
<1>2. ks \in [1..n -> K] /\ \A i, j \in 1..n : i < j => KeyLess(ks[i], ks[j])
  BY DEF AscendRange
<1> HIDE DEF n
<1>3. \A i, j \in 1..n : i < j <=> KeyLess(ks[i], ks[j])
  <2> SUFFICES ASSUME NEW i \in 1..n, NEW j \in 1..n, KeyLess(ks[i], ks[j]), ~(i < j)
               PROVE  FALSE
    BY <1>2
  <2>1. ks[i] \in Pair /\ ks[j] \in Pair BY <1>2
  <2>2. CASE i = j BY <2>1, <2>2, KeyOrder
  <2>3. CASE j < i
    <3>1. KeyLess(ks[j], ks[i]) BY <1>2, <2>3
    <3> QED BY <2>1, <3>1, KeyOrder
  <2> QED BY <2>2, <2>3, <1>1
<1>4. \A i, j \in 1..n : ks[i] = ks[j] => i = j
  <2> SUFFICES ASSUME NEW i \in 1..n, NEW j \in 1..n, ks[i] = ks[j]
               PROVE  i = j
    OBVIOUS
  <2>1. ks[i] \in Pair /\ ks[j] \in Pair BY <1>2
  <2>2. ~KeyLess(ks[i], ks[j]) /\ ~KeyLess(ks[j], ks[i]) BY <2>1, KeyOrder
  <2> QED BY <2>2, <1>2, <1>1
<1>5. \A k \in K : \E j \in 1..n : ks[j] = k
  <2>1. ks \in Injection(1..n, K) BY <1>2, <1>4 DEF Injection, IsInjective
  <2>2. Cardinality(1..n) = n BY <1>1, FS_Interval
  <2>3. ks \in Surjection(1..n, K) BY <2>1, <2>2, FS_Injection DEF n
  <2> QED BY <2>3 DEF Surjection
<1>6. ASSUME NEW j \in 1..n PROVE Rank(K, ks[j]) = j
  <2> DEFINE T == {x \in K : x = ks[j] \/ KeyLess(x, ks[j])}
             f == [i \in 1..j |-> ks[i]]
  <2>1. \A i \in 1..j : i \in 1..n /\ ks[i] \in T
    <3> TAKE i \in 1..j
    <3>1. i \in 1..n BY <1>1
    <3>2. i = j \/ i < j BY <1>1
    <3> QED BY <3>1, <3>2, <1>2
  <2>2. f \in [1..j -> T] BY <2>1
  <2>3. \A t \in T : \E i \in 1..j : f[i] = t
    <3> TAKE t \in T
    <3>1. PICK i \in 1..n : ks[i] = t BY <1>5
    <3>2. i = j \/ i < j BY <3>1, <1>3
    <3>3. i \in 1..j BY <3>2, <1>1
    <3> QED BY <3>1, <3>3
  <2>4. \A a, b \in 1..j : f[a] = f[b] => a = b BY <2>1, <1>4
  <2>5. f \in Bijection(1..j, T)
    <3> HIDE DEF f, T
    <3> QED BY <2>2, <2>3, <2>4 DEF Bijection, Injection, IsInjective, Surjection
  <2>6. ExistsBijection(1..j, T) BY <2>5 DEF ExistsBijection
  <2>7. j \in Nat BY <1>1
  <2>8. Cardinality(T) = j BY <2>6, <2>7, FS_CountingElements
  <2> QED BY <2>8 DEF Rank
<1> QED BY <1>1, <1>2, <1>3, <1>5, <1>6 DEF n

(* A rank is a number from 1 to the number of keys.                        *)
LEMMA RankRange ==
  ASSUME NEW K \in SUBSET Pair, IsFiniteSet(K), NEW k \in K
  PROVE  Rank(K, k) \in 1..Cardinality(K)
<1> DEFINE T == {x \in K : x = k \/ KeyLess(x, k)}
<1>1. T \in SUBSET K /\ k \in T OBVIOUS
<1>2. IsFiniteSet(T) /\ Cardinality(T) <= Cardinality(K) BY <1>1, FS_Subset
<1>3. Cardinality(T) \in Nat /\ Cardinality(K) \in Nat BY <1>2, FS_CardinalityType
<1>4. Cardinality(T) # 0 BY <1>1, <1>2, FS_EmptySet
<1> QED BY <1>2, <1>3, <1>4 DEF Rank

(* The keys a transaction stages come after all that are there. *)
KeysOf(id, n) == {<<id, i>> : i \in 1..n}

(* An Update of n mutations stages n keys.                                 *)
LEMMA CountKeys ==
  ASSUME NEW id \in Nat, NEW n \in Nat
  PROVE  IsFiniteSet(KeysOf(id, n)) /\ Cardinality(KeysOf(id, n)) = n
<1> DEFINE f == [i \in 1..n |-> <<id, i>>]
<1>1. f \in [1..n -> KeysOf(id, n)] BY DEF KeysOf
<1>2. \A a, b \in 1..n : f[a] = f[b] => a = b OBVIOUS
<1>3. \A t \in KeysOf(id, n) : \E i \in 1..n : f[i] = t BY DEF KeysOf
<1>4. f \in Bijection(1..n, KeysOf(id, n))
  <2> HIDE DEF f
  <2> QED BY <1>1, <1>2, <1>3 DEF Bijection, Injection, IsInjective, Surjection
<1>5. ExistsBijection(1..n, KeysOf(id, n)) BY <1>4 DEF ExistsBijection
<1> QED BY <1>5, FS_CountingElements, FS_NatBijection

(* Staging leaves the ranks of the keys that are there and appends its     *)
(* own.                                                                    *)
LEMMA RankStaged ==
  ASSUME NEW K \in SUBSET Pair, IsFiniteSet(K), NEW id \in Nat \ {0}, NEW n \in Nat,
         \A k \in K : k[1] < id
  PROVE  LET S == KeysOf(id, n)
         IN  /\ IsFiniteSet(K \cup S)
             /\ Cardinality(K \cup S) = Cardinality(K) + n
             /\ \A k \in K : Rank(K \cup S, k) = Rank(K, k)
             /\ \A i \in 1..n : Rank(K \cup S, <<id, i>>) = Cardinality(K) + i
<1> DEFINE S == KeysOf(id, n)
<1>1. IsFiniteSet(S) /\ Cardinality(S) = n BY CountKeys
<1>2. \A m \in Nat : K \cap KeysOf(id, m) = {} BY DEF KeysOf
<1>3. \A m \in Nat : /\ IsFiniteSet(K \cup KeysOf(id, m))
                     /\ Cardinality(K \cup KeysOf(id, m)) = Cardinality(K) + m
  <2> TAKE m \in Nat
  <2>1. IsFiniteSet(KeysOf(id, m)) /\ Cardinality(KeysOf(id, m)) = m BY CountKeys
  <2>2. Cardinality(K) \in Nat BY FS_CardinalityType
  <2>3. Cardinality(K \cap KeysOf(id, m)) = 0 BY <1>2, FS_EmptySet
  <2>4. /\ IsFiniteSet(K \cup KeysOf(id, m))
        /\ Cardinality(K \cup KeysOf(id, m)) =
             Cardinality(K) + Cardinality(KeysOf(id, m)) - Cardinality(K \cap KeysOf(id, m))
    BY <2>1, FS_Union
  <2> QED BY <2>1, <2>2, <2>3, <2>4
<1>4. ASSUME NEW k \in K PROVE Rank(K \cup S, k) = Rank(K, k)
  <2>1. \A x \in S : ~(x = k \/ KeyLess(x, k)) BY DEF KeysOf, KeyLess, Pair
  <2>2. {x \in K \cup S : x = k \/ KeyLess(x, k)} = {x \in K : x = k \/ KeyLess(x, k)}
    BY <2>1
  <2> QED BY <2>2 DEF Rank
<1>5. ASSUME NEW i \in 1..n PROVE Rank(K \cup S, <<id, i>>) = Cardinality(K) + i
  <2> DEFINE k == <<id, i>>
  <2>1. \A x \in K : KeyLess(x, k) BY DEF KeyLess, Pair
  <2>2. \A j \in 1..n : (<<id, j>> = k \/ KeyLess(<<id, j>>, k)) <=> j <= i
    BY DEF KeyLess
  <2>3. \A x \in S : (x = k \/ KeyLess(x, k)) <=> x \in KeysOf(id, i)
    <3> TAKE x \in S
    <3>1. PICK j \in 1..n : x = <<id, j>> BY DEF KeysOf
    <3>2. x \in KeysOf(id, i) <=> j <= i BY <3>1 DEF KeysOf
    <3> QED BY <3>1, <3>2, <2>2
  <2>4. KeysOf(id, i) \subseteq S BY DEF KeysOf
  <2>5. {x \in K \cup S : x = k \/ KeyLess(x, k)} = K \cup KeysOf(id, i)
    <3> HIDE DEF k, S
    <3> QED BY <2>1, <2>3, <2>4
  <2>6. Cardinality(K \cup KeysOf(id, i)) = Cardinality(K) + i BY <1>3
  <2> QED BY <2>5, <2>6 DEF Rank
<1> QED BY <1>3, <1>4, <1>5

-----------------------------------------------------------------------------
(* The primary before and after the two engine transactions. *)

(* The parts of the primary.                                               *)
LEMMA PrimaryType ==
  ASSUME TypeOK
  PROVE  /\ keys \in SUBSET Pair
         /\ prim.outbox \in [keys -> Pair]
         /\ prim.cursor \in Nat \cup {Unregistered}
         /\ prim.checkpoint \in [ok : BOOLEAN, hist : Seq(Frame)]
         /\ prim.head \in Nat
         /\ prim.mutations \in Seq(Pair)
         /\ prim.outbox = NoEntries <=> keys = {}
<1>1. prim.outbox \in Outboxes /\ prim.cursor \in Nat \cup {Unregistered}
      /\ prim.checkpoint \in [ok : BOOLEAN, hist : Seq(Frame)]
      /\ prim.head \in Nat /\ prim.mutations \in Seq(Pair)
  BY DEF TypeOK, Primary
<1>2. PICK K \in SUBSET Pair : prim.outbox \in [K -> Pair]
  BY <1>1 DEF Outboxes
<1>3. keys = K BY <1>2 DEF keys
<1>4. prim.outbox = NoEntries <=> keys = {}
  BY <1>2, <1>3 DEF NoEntries
<1> QED BY <1>1, <1>2, <1>3, <1>4

(* The engine transaction of an Update: what stageChangelogOutbox adds to  *)
(* the primary, and what it leaves alone.                                  *)
LEMMA StagedFacts ==
  ASSUME TypeOK, tx.id \in Nat \ {0}
  PROVE  /\ Staged \in Primary
         /\ StagedKeys = KeysOf(tx.id, Len(tx.intents))
         /\ StagedKeys \in SUBSET Pair
         /\ DOMAIN Staged.outbox = keys \cup StagedKeys
         /\ \A i \in DOMAIN tx.intents : Staged.outbox[<<tx.id, i>>] = tx.intents[i]
         /\ \A k \in keys \ StagedKeys : Staged.outbox[k] = prim.outbox[k]
         /\ Staged.cursor = prim.cursor
         /\ Staged.checkpoint = prim.checkpoint
         /\ Staged.head = tx.id
         /\ Staged.mutations = prim.mutations \o tx.intents
<1>0. tx.id \in Nat /\ tx.intents \in Seq(Pair) BY DEF TypeOK, Transaction
<1>1. DOMAIN tx.intents = 1..Len(tx.intents) /\ Len(tx.intents) \in Nat
      /\ \A i \in DOMAIN tx.intents : tx.intents[i] \in Pair
  BY <1>0, LenProperties, ElementOfSeq
<1>2. StagedKeys = KeysOf(tx.id, Len(tx.intents)) BY <1>1 DEF StagedKeys, KeysOf
<1>3. StagedKeys \in SUBSET Pair BY <1>1 DEF StagedKeys, Pair
<1>4. \A k \in StagedKeys : k[2] \in DOMAIN tx.intents BY DEF StagedKeys
<1> DEFINE ob == [k \in keys \cup StagedKeys |->
                    IF k \in StagedKeys THEN tx.intents[k[2]] ELSE prim.outbox[k]]
           muts == prim.mutations \o tx.intents
<1>5. ob \in [keys \cup StagedKeys -> Pair] BY <1>1, <1>4, PrimaryType
<1>6. ob \in Outboxes BY <1>3, <1>5, PrimaryType DEF Outboxes
<1>7. muts \in Seq(Pair) BY <1>0, PrimaryType, ConcatProperties
<1>8. Staged = [prim EXCEPT !.outbox = ob, !.head = tx.id, !.mutations = muts]
  BY DEF Staged, keys
<1>9. \A i \in DOMAIN tx.intents : ob[<<tx.id, i>>] = tx.intents[i]
  BY <1>1 DEF StagedKeys
<1>10. \A k \in keys \ StagedKeys : ob[k] = prim.outbox[k] OBVIOUS
<1>11. DOMAIN ob = keys \cup StagedKeys OBVIOUS
<1>12. prim \in Primary BY DEF TypeOK
<1> HIDE DEF ob, muts
<1>13. /\ Staged.outbox = ob /\ Staged.head = tx.id /\ Staged.mutations = muts
       /\ Staged.cursor = prim.cursor /\ Staged.checkpoint = prim.checkpoint
       /\ Staged \in Primary
  BY <1>0, <1>6, <1>7, <1>8, <1>12 DEF Primary
<1>14. Staged.mutations = prim.mutations \o tx.intents BY <1>13 DEF muts
<1> QED BY <1>2, <1>3, <1>9, <1>10, <1>11, <1>13, <1>14

(* The engine transaction of cleanupChangelogOutbox.                       *)
LEMMA CleanedFacts ==
  ASSUME TypeOK, NEW K
  PROVE  /\ Cleaned(K) \in Primary
         /\ DOMAIN Cleaned(K).outbox = keys \ K
         /\ Cleaned(K).cursor = prim.cursor
         /\ Cleaned(K).checkpoint = [ok |-> TRUE, hist |-> hist]
         /\ Cleaned(K).head = prim.head
         /\ Cleaned(K).mutations = prim.mutations
<1> DEFINE ob == [k \in keys \ K |-> prim.outbox[k]]
           cp == [ok |-> TRUE, hist |-> hist]
<1>1. ob \in [keys \ K -> Pair] BY PrimaryType
<1>2. ob \in Outboxes BY <1>1, PrimaryType DEF Outboxes
<1>3. cp \in [ok : BOOLEAN, hist : Seq(Frame)] BY DEF TypeOK
<1>4. Cleaned(K) = [prim EXCEPT !.outbox = ob, !.checkpoint = cp] BY DEF Cleaned, keys
<1>5. prim \in Primary BY DEF TypeOK
<1>6. DOMAIN ob = keys \ K OBVIOUS
<1> HIDE DEF ob, cp
<1>7. /\ Cleaned(K) \in Primary /\ Cleaned(K).outbox = ob /\ Cleaned(K).checkpoint = cp
      /\ Cleaned(K).cursor = prim.cursor /\ Cleaned(K).head = prim.head
      /\ Cleaned(K).mutations = prim.mutations
  BY <1>2, <1>3, <1>4, <1>5 DEF Primary
<1> QED BY <1>6, <1>7 DEF cp

(* Every cleanup empties the outbox: in the default mode it holds nothing  *)
(* but the entries of the Update that cleans up.                           *)
LEMMA CleanupEmpties ==
  ASSUME TypeOK, ProcessInv, ProjectionInv, phase \in CleanupPhases
  PROVE  keys \ CleanupKeys = {}
<1>1. CASE phase = "cleanup"
  BY <1>1 DEF ProcessInv, ProjectionInv, CleanupKeys, Healthy, Feeding
<1>2. CASE phase # "cleanup" BY <1>2 DEF CleanupKeys, keys
<1> QED BY <1>1, <1>2

(* What recovery appends: the entries of the outbox, all of them, in order. *)
LEMMA Pending ==
  ASSUME TypeOK, IsFiniteSet(keys), NEW s \in PendingIntents
  PROVE  /\ s \in Seq(Pair) /\ Len(s) = Cardinality(keys) /\ DOMAIN s = 1..Len(s)
         /\ \E ks \in AscendRange(keys) : \A j \in 1..Len(s) : s[j] = prim.outbox[ks[j]]
<1>1. PICK ks \in AscendRange(keys) : s = [i \in DOMAIN ks |-> prim.outbox[ks[i]]]
  BY DEF PendingIntents, keys
<1>2. keys \in SUBSET Pair /\ prim.outbox \in [keys -> Pair] BY PrimaryType
<1>3. Cardinality(keys) \in Nat /\ ks \in [1..Cardinality(keys) -> keys] BY <1>2, Enumeration
<1>4. s = [i \in 1..Cardinality(keys) |-> prim.outbox[ks[i]]] BY <1>1, <1>3
<1>5. \A i \in 1..Cardinality(keys) : prim.outbox[ks[i]] \in Pair BY <1>2, <1>3
<1>6. s \in Seq(Pair) BY <1>3, <1>4, <1>5
<1>7. Len(s) = Cardinality(keys) BY <1>3, <1>4
<1> QED BY <1>1, <1>4, <1>6, <1>7

(* Whatever the process is writing when it ends. *)
LEMMA InFlightType ==
  ASSUME TypeOK, IsFiniteSet(keys), NEW s \in InFlight
  PROVE  s \in Seq(Pair) /\ (s # <<>> => phase \in {"append", "openAppend"})
<1>1. CASE phase = "append" BY <1>1 DEF InFlight, TypeOK, Transaction
<1>2. CASE phase = "openAppend" BY <1>2, Pending DEF InFlight
<1>3. CASE phase \notin {"append", "openAppend"} BY <1>3, EmptySeq DEF InFlight
<1> QED BY <1>1, <1>2, <1>3

-----------------------------------------------------------------------------
(* The shapes of a step: what it may do to the primary and to the sidecar. *)

Staging == phase = "staged" /\ prim' = Staged

(* A cleanup commits.                                                      *)
Cleaning == phase \in CleanupPhases /\ prim' = Cleaned(CleanupKeys)

(* A consumer's cursor is advanced, or deleted.                            *)
Advancing ==
  /\ phase = "ready" /\ Healthy /\ HistoryValid
  /\ \E w \in Worker : MayAdvance(seen[w].from, seen[w].upto) /\ prim' = Advanced(seen[w].upto)

Deleting == phase = "ready" /\ prim' = [prim EXCEPT !.cursor = Unregistered]

(* Open creates the sidecar.                                               *)
Creating == WriteHeader \/ SyncHeader \/ CreateError

(* The creation of the sidecar touches nothing but its header, and leaves  *)
(* an Open that goes on or has failed.                                     *)
LEMMA CreateFacts ==
  ASSUME Creating
  PROVE  /\ phase \in {"create", "createSync"}
         /\ prim' = prim /\ log' = log /\ torn' = torn /\ synced' = synced
         /\ UNCHANGED <<workerVars, updates, crashes, losses, env>>
         /\ \/ ProcessGone /\ openError' = "failed"
            \/ /\ UNCHANGED <<hist, mode, tx, seqNext, pendingOutbox, recoveryRequired, openError>>
               /\ header' \in {"written", "synced"}
               /\ \/ phase' = "createSync"
                  \/ phase' = "validate" /\ prim.outbox = NoEntries
                  \/ phase' = "openAppend" /\ prim.outbox # NoEntries
  BY DEF Creating, WriteHeader, SyncHeader, CreateError, CreatePhases, Recover, counters, workerVars

(* A power loss leaves a prefix of the file and of the write behind it;    *)
(* the file without its header is the empty prefix.                        *)
LEMMA PowerLossCuts ==
  ASSUME TypeOK, HeaderInv, PowerLoss
  PROVE  \E s \in InFlight \cup {<<>>} : \E keep \in synced..(Len(log) + Len(s)) :
           /\ log' = SubSeq(log \o Frames(Len(hist), s), 1, keep)
           /\ torn' \in {FALSE, torn \/ keep < Len(log) + Len(s)}
           /\ synced' = keep
<1>1. CASE PrefixKept BY <1>1 DEF PrefixKept
<1>2. CASE HeaderLost
  <2>1. log \in Seq(Frame) /\ Len(log) \in Nat /\ Len(<<>>) = 0 /\ Len(hist) \in Nat
        /\ <<>> \in Seq(Pair) /\ synced \in Nat
    BY LenProperties, EmptySeq DEF TypeOK
  <2>2. synced = 0 BY <1>2, <2>1 DEF HeaderLost, HeaderInv
  <2>3. 0 \in 0..(Len(log) + Len(<<>>)) BY <2>1
  <2>4. Extends(log, <<>>, 0, SubSeq(log \o Frames(Len(hist), <<>>), 1, 0))
    BY <2>1, <2>3, PrefixOfConcat
  <2>5. SubSeq(log \o Frames(Len(hist), <<>>), 1, 0) = <<>> BY <2>4, EmptySeq DEF Extends
  <2> QED BY <1>2, <2>2, <2>3, <2>5 DEF HeaderLost
<1> QED BY <1>1, <1>2 DEF PowerLoss

(* The primary changes in these four ways only.                            *)
LEMMA PrimStep ==
  ASSUME TypeOK, [Next]_vars
  PROVE  prim' = prim \/ Staging \/ Cleaning \/ Advancing \/ Deleting
<1> USE DEF Staging, Cleaning, Advancing, Deleting
<1>1. CASE \E n \in 1..env.maxMuts : StageChangelogOutbox(n)
  BY <1>1 DEF StageChangelogOutbox, files
<1>2. CASE AbortUpdate BY <1>2 DEF AbortUpdate, files
<1>3. CASE EngineCommit BY <1>3 DEF EngineCommit
<1>4. CASE AppendIntents BY <1>4 DEF AppendIntents
<1>5. CASE SyncChangelog BY <1>5 DEF SyncChangelog
<1>6. CASE CleanupChangelogOutbox BY <1>6 DEF CleanupChangelogOutbox
<1>7. CASE OpenAppendIntents BY <1>7 DEF OpenAppendIntents
<1>8. CASE ValidateConsumers BY <1>8 DEF ValidateConsumers, files
<1>9. CASE EngineCommitError BY <1>9 DEF EngineCommitError
<1>10. CASE \E k \in 0..(env.maxMuts - 1), part \in BOOLEAN : AppendError(k, part)
  BY <1>10 DEF AppendError
<1>11. CASE SyncError BY <1>11 DEF SyncError, files
<1>12. CASE CleanupError BY <1>12 DEF CleanupError
<1>13. CASE OpenAppendError BY <1>13 DEF OpenAppendError
<1>14. CASE Close BY <1>14 DEF Close, files
<1>15. CASE Kill BY <1>15 DEF Kill, Crash
<1>16. CASE PowerLoss BY <1>16 DEF PowerLoss, Crash
<1>17. CASE LoseSidecar BY <1>17 DEF LoseSidecar
<1>18. CASE \E m \in env.modes : Open(m) BY <1>18 DEF Open
<1>19. CASE \E w \in env.workers : Consume(w) BY <1>19 DEF Consume, files
<1>20. CASE \E w \in env.workers : AdvanceChangelogConsumer(w)
  <2>1. env.workers \subseteq Worker BY DEF TypeOK, Scenario
  <2>2. PICK w \in Worker : AdvanceChangelogConsumer(w) BY <1>20, <2>1
  <2> QED BY <2>2 DEF AdvanceChangelogConsumer, CommitMetadata, Healthy, Feeding
<1>21. CASE DeleteChangelogConsumer
  BY <1>21 DEF DeleteChangelogConsumer, CommitMetadata
<1>22. CASE UNCHANGED vars BY <1>22 DEF vars, files
<1>23. CASE Creating BY <1>23, CreateFacts
<1> QED BY <1>23, <1>1, <1>2, <1>3, <1>4, <1>5, <1>6, <1>7, <1>8, <1>9, <1>10, <1>11, <1>12,
           <1>13, <1>14, <1>15, <1>16, <1>17, <1>18, <1>19, <1>20, <1>21, <1>22
        DEF Creating, Next, Progress, Error

(* The engine transaction of AdvanceChangelogConsumer leaves the outbox    *)
(* alone.                                                                  *)
LEMMA AdvancedFacts ==
  ASSUME TypeOK, NEW n \in Nat
  PROVE  /\ Advanced(n) \in Primary
         /\ Advanced(n).outbox = prim.outbox
         /\ Advanced(n).cursor = n
         /\ Advanced(n).checkpoint = [ok |-> TRUE, hist |-> hist]
         /\ Advanced(n).head = prim.head
         /\ Advanced(n).mutations = prim.mutations
<1> DEFINE cp == [ok |-> TRUE, hist |-> hist]
<1>1. cp \in [ok : BOOLEAN, hist : Seq(Frame)] BY DEF TypeOK
<1>2. Advanced(n) = [prim EXCEPT !.cursor = n, !.checkpoint = cp] BY DEF Advanced
<1>3. prim \in Primary BY DEF TypeOK
<1> HIDE DEF cp
<1>4. /\ Advanced(n) \in Primary /\ Advanced(n).outbox = prim.outbox
      /\ Advanced(n).cursor = n /\ Advanced(n).checkpoint = cp
      /\ Advanced(n).head = prim.head /\ Advanced(n).mutations = prim.mutations
  BY <1>1, <1>2, <1>3 DEF Primary
<1> QED BY <1>4 DEF cp

(* So does that of DeleteChangelogConsumer.                                *)
LEMMA DeletedFacts ==
  ASSUME TypeOK
  PROVE  LET p == [prim EXCEPT !.cursor = Unregistered]
         IN  /\ p \in Primary
             /\ p.outbox = prim.outbox
             /\ p.cursor = Unregistered
             /\ p.checkpoint = prim.checkpoint
             /\ p.head = prim.head
             /\ p.mutations = prim.mutations
  BY DEF TypeOK, Primary

(* What a step leaves of the outbox and of the mutations. *)
LEMMA OutboxStep ==
  ASSUME IInv, [Next]_vars
  PROVE  /\ prim' \in Primary
         /\ \/ /\ prim'.outbox = prim.outbox /\ prim'.mutations = prim.mutations
               /\ prim'.head = prim.head
            \/ Staging
            \/ /\ Cleaning
               /\ DOMAIN prim'.outbox = {} /\ prim'.mutations = prim.mutations
               /\ prim'.head = prim.head
<1>0. TypeOK /\ ProcessInv /\ ProjectionInv /\ TxInv BY DEF IInv
<1>1. CASE prim' = prim BY <1>0, <1>1 DEF TypeOK
<1>2. CASE Staging
  <2>1. tx.id \in Nat \ {0}
    BY <1>0, <1>2, PrimaryType DEF Staging, TxInv
  <2> QED BY <1>0, <1>2, <2>1, StagedFacts DEF Staging
<1>3. CASE Cleaning
  BY <1>0, <1>3, CleanedFacts, CleanupEmpties DEF Cleaning
<1>4. CASE Advancing
  <2>1. PICK w \in Worker : prim' = Advanced(seen[w].upto) BY <1>4 DEF Advancing
  <2>2. seen[w].upto \in Nat BY <1>0 DEF TypeOK
  <2> QED BY <1>0, <2>1, <2>2, AdvancedFacts
<1>5. CASE Deleting BY <1>0, <1>5, DeletedFacts DEF Deleting
<1> QED BY <1>0, <1>1, <1>2, <1>3, <1>4, <1>5, PrimStep

(* AppendIntents when the Write succeeds.                                  *)
LEMMA WrittenWhole ==
  ASSUME NEW lg \in Seq(Frame), NEW s \in Seq(Pair)
  PROVE  /\ lg \o Frames(Len(lg), s) \in Seq(Frame)
         /\ Len(lg \o Frames(Len(lg), s)) = Len(lg) + Len(s)
         /\ Extends(lg, s, Len(lg) + Len(s), lg \o Frames(Len(lg), s))
<1> DEFINE f == Frames(Len(lg), s)
<1>1. Len(lg) \in Nat /\ Len(s) \in Nat BY LenProperties
<1>2. f \in Seq(Frame) BY <1>1, FramesType
<1>3. Len(f) = Len(s) BY <1>1, FramesType
<1> HIDE DEF f
<1>4. SubSeq(f, 1, Len(f)) = f BY <1>2, SubSeqFull
<1>5. Len(s) \in 0..Len(s) BY <1>1
<1>6. Extends(lg, s, Len(lg) + Len(s), lg \o SubSeq(Frames(Len(lg), s), 1, Len(s)))
  BY <1>1, <1>5, PartOfWrite
<1>7. Extends(lg, s, Len(lg) + Len(s), lg \o f) BY <1>3, <1>4, <1>6 DEF f
<1> QED BY <1>7 DEF Extends, f

(* A file that is not written to.                                          *)
LEMMA Untouched ==
  ASSUME NEW lg \in Seq(Frame), NEW s
  PROVE  Extends(lg, s, Len(lg), lg)
<1>1. Len(lg) \in Nat BY LenProperties
<1> QED BY <1>1 DEF Extends

(* A step other than the loss of the sidecar: of the file and of the       *)
(* write under way a prefix is there, no shorter than what was synced.     *)
Writing(s, keep) ==
  /\ keep \in synced..(Len(log) + Len(s))
  /\ Extends(log, s, keep, log')
  /\ synced' \in synced..keep
  /\ losses' = losses

(* Every step but the loss of the sidecar is such a step: whole, partial   *)
(* and failed appends, syncs, kills and power losses.                      *)
LEMMA LogStep ==
  ASSUME IInv, [Next]_vars, ~LoseSidecar
  PROVE  \E s \in InFlight \cup {<<>>}, keep \in Nat : Writing(s, keep)
<1>0. /\ TypeOK /\ ProcessInv /\ FilesInv /\ HeaderInv /\ IsFiniteSet(keys)
      /\ log \in Seq(Frame) /\ Len(log) \in Nat /\ synced \in 0..Len(log)
  BY LenProperties DEF IInv, TypeOK, KeysInv
<1>1. ASSUME log' = log, synced' = synced, losses' = losses
      PROVE  Writing(<<>>, Len(log))
  <2>1. Len(<<>>) = 0 BY EmptySeq
  <2>2. Len(log) \in synced..(Len(log) + Len(<<>>)) BY <1>0, <2>1
  <2>3. Extends(log, <<>>, Len(log), log') BY <1>0, <1>1, Untouched
  <2> QED BY <1>0, <1>1, <2>2, <2>3 DEF Writing
<1>2. ASSUME log' = log, synced' = Len(log), losses' = losses
      PROVE  Writing(<<>>, Len(log))
  <2>1. Len(<<>>) = 0 BY EmptySeq
  <2>2. Len(log) \in synced..(Len(log) + Len(<<>>)) BY <1>0, <2>1
  <2>3. Extends(log, <<>>, Len(log), log') BY <1>0, <1>2, Untouched
  <2> QED BY <1>0, <1>2, <2>2, <2>3 DEF Writing
<1>3. ASSUME NEW s \in InFlight, NEW k \in 0..Len(s),
             log' = log \o SubSeq(Frames(Len(hist), s), 1, k),
             synced' = synced, losses' = losses
      PROVE  Writing(s, Len(log) + k)
  <2>1. s \in Seq(Pair) /\ (s # <<>> => phase \in {"append", "openAppend"})
    BY <1>0, InFlightType
  <2>2. s # <<>> => Len(hist) = Len(log)
    BY <1>0, <2>1 DEF ProcessInv, FilesInv
  <2>3. Len(hist) \in Nat BY <1>0, LenProperties DEF TypeOK
  <2>4. Extends(log, s, Len(log) + k, log') BY <1>0, <1>3, <2>1, <2>2, <2>3, PartOfWrite
  <2>5. Len(s) \in Nat BY <2>1, LenProperties
  <2> QED BY <1>0, <1>3, <2>4, <2>5 DEF Writing
<1>4. ASSUME NEW s \in InFlight, s \in Seq(Pair),
             log' = log \o Frames(Len(hist), s), phase \in {"append", "openAppend"},
             synced' = synced, losses' = losses
      PROVE  Writing(s, Len(log) + Len(s))
  <2>1. hist = log BY <1>0, <1>4 DEF ProcessInv, FilesInv
  <2>2. Extends(log, s, Len(log) + Len(s), log') BY <1>0, <1>4, <2>1, WrittenWhole
  <2>3. Len(s) \in Nat BY <1>4, LenProperties
  <2> QED BY <1>0, <1>4, <2>2, <2>3 DEF Writing
<1>5. CASE \E n \in 1..env.maxMuts : StageChangelogOutbox(n)
  BY <1>0, <1>1, <1>5 DEF StageChangelogOutbox, files
<1>6. CASE AbortUpdate BY <1>0, <1>1, <1>6 DEF AbortUpdate, files, counters
<1>7. CASE EngineCommit BY <1>0, <1>1, <1>7 DEF EngineCommit, counters
<1>8. CASE AppendIntents
  <2>1. tx.intents \in InFlight /\ tx.intents \in Seq(Pair)
    BY <1>0, <1>8 DEF AppendIntents, InFlight, TypeOK, Transaction
  <2>2. Len(tx.intents) \in Nat BY <2>1, LenProperties
  <2>3. Writing(tx.intents, Len(log) + Len(tx.intents))
    BY <1>4, <1>8, <2>1 DEF AppendIntents, counters
  <2> QED BY <1>0, <2>1, <2>2, <2>3
<1>9. CASE SyncChangelog BY <1>0, <1>2, <1>9 DEF SyncChangelog, Synced, counters
<1>10. CASE CleanupChangelogOutbox
  BY <1>0, <1>1, <1>10 DEF CleanupChangelogOutbox, counters
<1>11. CASE OpenAppendIntents
  <2>1. PICK s \in PendingIntents : log' = log \o Frames(Len(hist), s)
    BY <1>11 DEF OpenAppendIntents
  <2>2. s \in InFlight BY <1>11, <2>1 DEF OpenAppendIntents, InFlight
  <2>3. s \in Seq(Pair) /\ Len(s) \in Nat BY <1>0, <2>1, Pending, LenProperties
  <2>4. Writing(s, Len(log) + Len(s))
    BY <1>4, <1>11, <2>1, <2>2, <2>3 DEF OpenAppendIntents, counters
  <2> QED BY <1>0, <2>2, <2>3, <2>4
<1>12. CASE ValidateConsumers BY <1>0, <1>1, <1>12 DEF ValidateConsumers, files, counters
<1>13. CASE EngineCommitError BY <1>0, <1>1, <1>13 DEF EngineCommitError
<1>14. CASE \E k \in 0..(env.maxMuts - 1), part \in BOOLEAN : AppendError(k, part)
  <2>1. PICK k \in 0..(env.maxMuts - 1), part \in BOOLEAN : AppendError(k, part) BY <1>14
  <2>2. tx.intents \in InFlight /\ tx.intents \in Seq(Pair)
    BY <1>0, <2>1 DEF AppendError, InFlight, TypeOK, Transaction
  <2>3. Len(tx.intents) \in Nat BY <2>2, LenProperties
  <2>4. k \in 0..Len(tx.intents)
    BY <1>0, <2>1, <2>3 DEF AppendError, PartialAppend, TypeOK, Scenario
  <2>5. Writing(tx.intents, Len(log) + k)
    BY <1>3, <2>1, <2>2, <2>4 DEF AppendError, PartialAppend
  <2> QED BY <1>0, <2>2, <2>3, <2>4, <2>5
<1>15. CASE SyncError BY <1>0, <1>1, <1>15 DEF SyncError, files
<1>16. CASE CleanupError BY <1>0, <1>1, <1>16 DEF CleanupError
<1>17. CASE OpenAppendError
  <2>0. PICK s \in PendingIntents, part \in BOOLEAN :
          \E k \in 0..Len(s) : PartialAppend(s, k, part)
    BY <1>17 DEF OpenAppendError
  <2>1. PICK k \in 0..Len(s) : PartialAppend(s, k, part) BY <2>0
  <2>2. s \in InFlight BY <1>17, <2>1 DEF OpenAppendError, InFlight
  <2>3. Len(s) \in Nat BY <1>0, <2>1, Pending, LenProperties
  <2>4. Writing(s, Len(log) + k)
    BY <1>3, <1>17, <2>1, <2>2 DEF OpenAppendError, PartialAppend
  <2> QED BY <1>0, <2>1, <2>2, <2>3, <2>4
<1>18. CASE Close BY <1>0, <1>1, <1>18 DEF Close, files, counters
<1>19. CASE Kill
  <2>0. PICK s \in InFlight :
          \E k \in 0..Len(s) : log' = log \o SubSeq(Frames(Len(hist), s), 1, k)
    BY <1>19 DEF Kill
  <2>1. PICK k \in 0..Len(s) : log' = log \o SubSeq(Frames(Len(hist), s), 1, k) BY <2>0
  <2>2. Len(s) \in Nat BY <1>0, <2>1, InFlightType, LenProperties
  <2>3. Writing(s, Len(log) + k) BY <1>3, <1>19, <2>1 DEF Kill, Crash
  <2> QED BY <1>0, <2>1, <2>2, <2>3
<1>20. CASE PowerLoss
  <2>0. PICK s \in InFlight \cup {<<>>} : \E keep \in synced..(Len(log) + Len(s)) :
          log' = SubSeq(log \o Frames(Len(hist), s), 1, keep) /\ synced' = keep
    BY <1>0, <1>20, PowerLossCuts
  <2>1. PICK keep \in synced..(Len(log) + Len(s)) :
          log' = SubSeq(log \o Frames(Len(hist), s), 1, keep) /\ synced' = keep
    BY <2>0
  <2>2. s \in Seq(Pair) /\ (s # <<>> => phase \in {"append", "openAppend"})
    BY <1>0, <2>0, InFlightType, EmptySeq
  <2>3. s # <<>> => Len(hist) = Len(log)
    BY <1>0, <2>2 DEF ProcessInv, FilesInv
  <2>4. Len(hist) \in Nat /\ Len(s) \in Nat BY <1>0, <2>2, LenProperties DEF TypeOK
  <2>5. keep \in 0..(Len(log) + Len(s)) /\ keep \in Nat BY <1>0, <2>4
  <2>6. Extends(log, s, keep, log') BY <1>0, <2>1, <2>2, <2>3, <2>4, <2>5, PrefixOfConcat
  <2>7. Writing(s, keep) BY <1>0, <1>20, <2>1, <2>4, <2>5, <2>6 DEF Writing, PowerLoss, Crash
  <2> QED BY <2>5, <2>7
<1>21. CASE \E m \in env.modes : Open(m)
  BY <1>0, <1>1, <1>2, <1>21 DEF Open, TruncateIncompleteTail, counters
<1>22. CASE \E w \in env.workers : Consume(w) BY <1>0, <1>1, <1>22 DEF Consume, files, counters
<1>23. CASE \E w \in env.workers : AdvanceChangelogConsumer(w)
  BY <1>0, <1>1, <1>23 DEF AdvanceChangelogConsumer
<1>24. CASE DeleteChangelogConsumer BY <1>0, <1>1, <1>24 DEF DeleteChangelogConsumer
<1>25. CASE UNCHANGED vars BY <1>0, <1>1, <1>25 DEF vars, files, counters
<1>26. CASE Creating BY <1>0, <1>1, <1>26, CreateFacts
<1> QED BY <1>26, <1>5, <1>6, <1>7, <1>8, <1>9, <1>10, <1>11, <1>12, <1>13, <1>14, <1>15, <1>16,
           <1>17, <1>18, <1>19, <1>20, <1>21, <1>22, <1>23, <1>24, <1>25
        DEF Creating, Next, Progress, Error

-----------------------------------------------------------------------------
(* The inductive step, part by part. *)

(* A loss of the sidecar leaves a prefix of it.                            *)
LEMMA LossFacts ==
  ASSUME IInv, LoseSidecar
  PROVE  /\ log' \in Seq(Frame) /\ Len(log') \in Nat /\ Len(log') <= Len(log)
         /\ synced' = Len(log')
         /\ \A i \in 1..Len(log') : log'[i] = log[i]
<1>0. log \in Seq(Frame) /\ Len(log) \in Nat BY LenProperties DEF IInv, TypeOK
<1>1. CASE log' = <<>> /\ synced' = 0 BY <1>0, <1>1, EmptySeq
<1>2. CASE \E k \in 0..(Len(log) - 1) : log' = SubSeq(log, 1, k) /\ synced' = k
  <2>1. PICK k \in 0..(Len(log) - 1) : log' = SubSeq(log, 1, k) /\ synced' = k
    BY <1>2
  <2>2. \A i \in 1..k : i \in 1..Len(log) BY <1>0
  <2>3. \A i \in 1..k : log[i] \in Frame BY <1>0, <2>2, ElementOfSeq
  <2>4. k \in Int /\ 1 \in Int /\ k \in Nat BY <1>0
  <2>5. SubSeq(log, 1, k) \in Seq(Frame)
        /\ Len(SubSeq(log, 1, k)) = (IF 1 <= k THEN k - 1 + 1 ELSE 0)
        /\ \A i \in 1..(k - 1 + 1) : SubSeq(log, 1, k)[i] = log[1 + i - 1]
    BY <2>3, <2>4, SubSeqProperties
  <2>6. Len(log') = k BY <2>1, <2>4, <2>5
  <2>7. ASSUME NEW i \in 1..k PROVE log'[i] = log[i]
    <3>1. i \in 1..(k - 1 + 1) /\ 1 + i - 1 = i BY <2>4
    <3>2. SubSeq(log, 1, k)[i] = log[1 + i - 1] BY <2>5, <3>1
    <3> QED BY <2>1, <3>1, <3>2
  <2> QED BY <1>0, <2>1, <2>4, <2>5, <2>6, <2>7
<1> QED BY <1>1, <1>2 DEF LoseSidecar

(* The sidecar stays a sequence of frames with a synced prefix.            *)
LEMMA FilesType ==
  ASSUME IInv, [Next]_vars
  PROVE  log' \in Seq(Frame) /\ synced' \in 0..Len(log') /\ torn' \in BOOLEAN
<1>0. TypeOK /\ log \in Seq(Frame) /\ Len(log) \in Nat /\ IsFiniteSet(keys)
  BY LenProperties DEF IInv, TypeOK, KeysInv
<1>1. CASE LoseSidecar
  <2>1. torn' \in BOOLEAN BY <1>1 DEF LoseSidecar
  <2>2. log' \in Seq(Frame) /\ synced' = Len(log') /\ Len(log') \in Nat BY <1>1, LossFacts
  <2> QED BY <2>1, <2>2
<1>2. CASE ~LoseSidecar
  <2>1. PICK s \in InFlight \cup {<<>>}, keep \in Nat : Writing(s, keep) BY <1>2, LogStep
  <2>2. log' \in Seq(Frame) /\ Len(log') = keep /\ synced' \in synced..keep
    BY <2>1 DEF Writing, Extends
  <2>3. synced \in Nat BY <1>0 DEF TypeOK
  <2>4. torn \in BOOLEAN BY <1>0 DEF TypeOK
  <2>5. torn' \in BOOLEAN
    <3> USE <2>4
    <3>1. CASE \E n \in 1..env.maxMuts : StageChangelogOutbox(n)
      BY <3>1 DEF StageChangelogOutbox, files
    <3>2. CASE AbortUpdate BY <3>2 DEF AbortUpdate, files
    <3>3. CASE Progress
      BY <3>3 DEF Progress, EngineCommit, AppendIntents, SyncChangelog,
                  CleanupChangelogOutbox, OpenAppendIntents, ValidateConsumers, WriteHeader,
                  SyncHeader, files
    <3>4. CASE Error
      BY <3>4 DEF Error, EngineCommitError, AppendError, SyncError, CleanupError,
                  OpenAppendError, CreateError, PartialAppend, files
    <3>5. CASE Close BY <3>5 DEF Close, files
    <3>6. CASE Kill
      <4>1. PICK r \in InFlight : \E k \in 0..Len(r) : torn' \in {torn, k < Len(r)}
        BY <3>6 DEF Kill
      <4>2. PICK k \in 0..Len(r) : torn' \in {torn, k < Len(r)} BY <4>1
      <4> DEFINE part == k < Len(r)
      <4>3. torn' = torn \/ torn' = part BY <4>2
      <4>4. part \in BOOLEAN OBVIOUS
      <4> HIDE DEF part
      <4> QED BY <4>3, <4>4
    <3>7. CASE PowerLoss BY <3>7 DEF PowerLoss, HeaderLost, PrefixKept
    <3>8. CASE \E m \in env.modes : Open(m) BY <3>8 DEF Open, TruncateIncompleteTail
    <3>9. CASE \E w \in env.workers : Consume(w) BY <3>9 DEF Consume, files
    <3>10. CASE \E w \in env.workers : AdvanceChangelogConsumer(w)
      BY <3>10 DEF AdvanceChangelogConsumer
    <3>11. CASE DeleteChangelogConsumer BY <3>11 DEF DeleteChangelogConsumer
    <3>12. CASE UNCHANGED vars BY <3>12 DEF vars, files
    <3> QED BY <1>2, <3>1, <3>2, <3>3, <3>4, <3>5, <3>6, <3>7, <3>8, <3>9, <3>10, <3>11,
               <3>12 DEF Next
  <2> QED BY <2>2, <2>3, <2>5
<1> QED BY <1>1, <1>2

(* TypeOK for the variables of the process, and for the rest.              *)
ProcessType ==
  /\ hist \in Seq(Frame) /\ phase \in Phases /\ mode \in {"eager", "lazy", "off"}
  /\ tx \in Transaction
  /\ seqNext \in Nat /\ pendingOutbox \in Nat /\ recoveryRequired \in BOOLEAN
  /\ openError \in {"none", "corrupt", "failed", "finalization", "invalidated"}

OtherType ==
  /\ seen \in [Worker -> [from : Nat, upto : Nat]]
  /\ processed \subseteq Pair
  /\ updates \in Nat /\ failures \in Nat /\ crashes \in Nat /\ losses \in Nat
  /\ env \in Scenario

(* The empty transaction is one.                                           *)
LEMMA NoTxType == NoTx \in Transaction
  BY EmptySeq DEF NoTx, Transaction

(* The steps keep the types of the variables of the process.               *)
LEMMA ProcessTypeStep ==
  ASSUME IInv, [Next]_vars
  PROVE  ProcessType'
<1>0. ProcessType /\ TypeOK BY DEF IInv, TypeOK, ProcessType
<1>1. env \in Scenario /\ log \in Seq(Frame) /\ prim.head \in Nat /\ updates \in Nat
      /\ tx.before \in Nat /\ tx.intents \in Seq(Pair) /\ IsFiniteSet(keys)
  BY PrimaryType DEF IInv, TypeOK, Transaction, KeysInv
<1>2. Len(tx.intents) \in Nat BY <1>1, LenProperties
<1>3. ASSUME NEW s \in Seq(Pair), hist' = hist \o Frames(Len(hist), s) PROVE hist' \in Seq(Frame)
  BY <1>0, <1>3, WrittenWhole DEF ProcessType
<1>4. /\ NoTx \in Transaction /\ <<>> \in Seq(Frame)
      /\ {"down", "ready"} \cup UpdatePhases \cup ClosePhases \cup OpenPhases = Phases
  BY NoTxType, EmptySeq DEF Phases
<1>5. ASSUME ProcessGone, openError' \in {openError, "failed", "finalization", "invalidated"}
      PROVE  ProcessType'
  BY <1>0, <1>4, <1>5 DEF ProcessGone, ProcessType, Phases
<1>6. ASSUME ProjectionError PROVE ProcessType'
  <2>1. CASE phase \in UpdatePhases
    BY <1>0, <1>4, <1>6, <2>1 DEF ProjectionError, ProcessType, Phases
  <2>2. CASE phase \notin UpdatePhases BY <1>5, <1>6, <2>2 DEF ProjectionError
  <2> QED BY <2>1, <2>2
<1>7. CASE \E n \in 1..env.maxMuts : StageChangelogOutbox(n)
  <2>1. PICK n \in 1..env.maxMuts : StageChangelogOutbox(n) BY <1>7
  <2>2. n \in Nat BY <1>1 DEF Scenario
  <2>3. \A i \in 1..n : <<updates + 1, i>> \in Pair BY <1>1, <2>2 DEF Pair
  <2>4. [i \in 1..n |-> <<updates + 1, i>>] \in Seq(Pair) BY <2>2, <2>3
  <2>5. tx' \in Transaction
    BY <1>0, <2>1, <2>4 DEF StageChangelogOutbox, Transaction, ProcessType
  <2> QED BY <1>0, <2>1, <2>5 DEF StageChangelogOutbox, ProcessType, Phases, UpdatePhases
<1>8. CASE AbortUpdate
  BY <1>0, <1>1, <1>4, <1>8 DEF AbortUpdate, ProcessType, HeadBefore, Phases
<1>9. CASE EngineCommit
  BY <1>0, <1>9 DEF EngineCommit, ProcessType, Phases, UpdatePhases
<1>10. CASE AppendIntents
  <2>1. hist' \in Seq(Frame) BY <1>1, <1>3, <1>10 DEF AppendIntents
  <2>2. pendingOutbox' \in Nat BY <1>0, <1>2, <1>10 DEF AppendIntents, CountPending, ProcessType
  <2>3. phase' \in Phases BY <1>10 DEF AppendIntents, Phases, UpdatePhases
  <2>4. tx' \in Transaction BY <1>0, <1>4, <1>10 DEF AppendIntents, ProcessType
  <2> QED BY <1>0, <1>10, <2>1, <2>2, <2>3, <2>4 DEF AppendIntents, ProcessType
<1>11. CASE SyncChangelog
  BY <1>0, <1>11 DEF SyncChangelog, ProcessType, SyncPhases, Phases, UpdatePhases, ClosePhases,
                     OpenPhases
<1>12. CASE CleanupChangelogOutbox
  BY <1>0, <1>4, <1>5, <1>12 DEF CleanupChangelogOutbox, ProcessType, Phases, OpenPhases
<1>13. CASE OpenAppendIntents
  <2>1. PICK s \in PendingIntents : hist' = hist \o Frames(Len(hist), s)
    BY <1>13 DEF OpenAppendIntents
  <2>2. hist' \in Seq(Frame) BY <1>0, <1>1, <1>3, <2>1, Pending
  <2> QED BY <1>0, <1>13, <2>2 DEF OpenAppendIntents, ProcessType, Phases, OpenPhases
<1>14. CASE ValidateConsumers
  BY <1>0, <1>5, <1>14 DEF ValidateConsumers, ProcessType, Phases
<1>15. CASE EngineCommitError
  BY <1>0, <1>1, <1>4, <1>15 DEF EngineCommitError, ProcessType, HeadBefore, Phases
<1>16. CASE \E k \in 0..(env.maxMuts - 1), part \in BOOLEAN : AppendError(k, part)
  BY <1>6, <1>16 DEF AppendError
<1>17. CASE SyncError BY <1>6, <1>17 DEF SyncError
<1>18. CASE CleanupError BY <1>6, <1>18 DEF CleanupError
<1>19. CASE OpenAppendError BY <1>6, <1>19 DEF OpenAppendError
<1>20. CASE Close
  BY <1>0, <1>5, <1>20 DEF Close, ProcessType, Phases, ClosePhases
<1>21. CASE Kill BY <1>5, <1>21 DEF Kill, Crash
<1>22. CASE PowerLoss BY <1>5, <1>22 DEF PowerLoss, Crash
<1>23. CASE LoseSidecar BY <1>0, <1>23 DEF LoseSidecar, procVars, ProcessType
<1>24. CASE \E m \in env.modes : Open(m)
  <2>1. PICK m \in env.modes : Open(m) BY <1>24
  <2>2. m \in {"eager", "lazy", "off"} BY <1>1 DEF Scenario
  <2> QED BY <1>0, <1>1, <1>4, <2>1, <2>2 DEF Open, Recover, ProcessType, Phases, OpenPhases
<1>25. CASE \E w \in env.workers : Consume(w) BY <1>0, <1>25 DEF Consume, procVars, ProcessType
<1>26. CASE \E w \in env.workers : AdvanceChangelogConsumer(w)
  BY <1>0, <1>26 DEF AdvanceChangelogConsumer, CommitMetadata, ProcessType
<1>27. CASE DeleteChangelogConsumer
  BY <1>0, <1>27 DEF DeleteChangelogConsumer, CommitMetadata, ProcessType
<1>28. CASE UNCHANGED vars BY <1>0, <1>28 DEF vars, procVars, ProcessType
<1>29. CASE Creating
  BY <1>0, <1>5, <1>29, CreateFacts DEF ProcessType, Phases, OpenPhases
<1> QED BY <1>29, <1>7, <1>8, <1>9, <1>10, <1>11, <1>12, <1>13, <1>14, <1>15, <1>16, <1>17, <1>18,
           <1>19, <1>20, <1>21, <1>22, <1>23, <1>24, <1>25, <1>26, <1>27, <1>28
        DEF Creating, Next, Progress, Error

(* They keep those of the workers and of the counters.                     *)
LEMMA OtherTypeStep ==
  ASSUME IInv, [Next]_vars
  PROVE  OtherType'
<1>0. OtherType /\ TypeOK BY DEF IInv, TypeOK, OtherType
<1>1. env \in Scenario /\ log \in Seq(Frame) /\ Len(log) \in Nat
      /\ seen \in [Worker -> [from : Nat, upto : Nat]]
      /\ prim.cursor \in Nat \cup {Unregistered} /\ processed \subseteq Pair
  BY PrimaryType, LenProperties DEF IInv, TypeOK
<1>2. env.workers \subseteq Worker BY <1>1 DEF Scenario
<1>3. CASE \E n \in 1..env.maxMuts : StageChangelogOutbox(n)
  BY <1>0, <1>3 DEF StageChangelogOutbox, workerVars, OtherType
<1>4. CASE AbortUpdate BY <1>0, <1>4 DEF AbortUpdate, workerVars, counters, OtherType
<1>5. CASE Progress
  BY <1>0, <1>5 DEF Progress, EngineCommit, AppendIntents, SyncChangelog, CleanupChangelogOutbox,
     OpenAppendIntents, ValidateConsumers, WriteHeader, SyncHeader, workerVars, counters, OtherType
<1>6. CASE Error
  BY <1>0, <1>6 DEF Error, EngineCommitError, AppendError, SyncError, CleanupError,
     OpenAppendError, CreateError, Failure, workerVars, counters, OtherType
<1>7. CASE Close BY <1>0, <1>7 DEF Close, workerVars, counters, OtherType
<1>8. CASE Kill BY <1>0, <1>8 DEF Kill, Crash, workerVars, OtherType
<1>9. CASE PowerLoss BY <1>0, <1>9 DEF PowerLoss, Crash, workerVars, OtherType
<1>10. CASE LoseSidecar BY <1>0, <1>10 DEF LoseSidecar, OtherType
<1>11. CASE \E m \in env.modes : Open(m) BY <1>0, <1>11 DEF Open, workerVars, counters, OtherType
<1>12. CASE \E w \in env.workers : Consume(w)
  <2>1. PICK w \in Worker : Consume(w) BY <1>2, <1>12
  <2>2. CASE seen' = [seen EXCEPT ![w] = [from |-> 0, upto |-> 0]] /\ processed' = processed
    BY <1>0, <2>1, <2>2 DEF Consume, counters, OtherType
  <2>3. CASE \E upto \in prim.cursor..Len(log) :
               /\ prim.cursor # Unregistered
               /\ seen' = [seen EXCEPT ![w] = [from |-> prim.cursor, upto |-> upto]]
               /\ processed' = processed \cup ReadSince(prim.cursor, upto)
    <3>1. PICK upto \in prim.cursor..Len(log) :
               /\ prim.cursor # Unregistered
               /\ seen' = [seen EXCEPT ![w] = [from |-> prim.cursor, upto |-> upto]]
               /\ processed' = processed \cup ReadSince(prim.cursor, upto)
      BY <2>3
    <3>2. prim.cursor \in Nat /\ upto \in Nat BY <1>1, <3>1
    <3>3. \A i \in (prim.cursor + 1)..upto : log[i].intent \in Pair
      <4> TAKE i \in (prim.cursor + 1)..upto
      <4>1. i \in 1..Len(log) BY <1>1, <3>1, <3>2
      <4>2. log[i] \in Frame BY <1>1, <4>1, ElementOfSeq
      <4> QED BY <4>2 DEF Frame
    <3>4. processed' \subseteq Pair BY <1>1, <3>1, <3>3 DEF ReadSince
    <3>5. seen' \in [Worker -> [from : Nat, upto : Nat]] BY <1>1, <3>1, <3>2
    <3> QED BY <1>0, <2>1, <3>4, <3>5 DEF Consume, counters, OtherType
  <2> QED BY <2>1, <2>2, <2>3 DEF Consume
<1>13. CASE \E w \in env.workers : AdvanceChangelogConsumer(w)
  BY <1>0, <1>13 DEF AdvanceChangelogConsumer, CommitMetadata, Failure, workerVars, OtherType
<1>14. CASE DeleteChangelogConsumer
  BY <1>0, <1>14 DEF DeleteChangelogConsumer, CommitMetadata, Failure, workerVars, OtherType
<1>15. CASE UNCHANGED vars BY <1>0, <1>15 DEF vars, workerVars, counters, OtherType
<1> QED BY <1>3, <1>4, <1>5, <1>6, <1>7, <1>8, <1>9, <1>10, <1>11, <1>12, <1>13, <1>14, <1>15
        DEF Next

(* The header stays one of Headers.                                        *)
LEMMA HeaderType ==
  ASSUME IInv, [Next]_vars
  PROVE  header' \in Headers
<1>0. header \in Headers BY DEF IInv, TypeOK
<1> USE <1>0 DEF Headers
<1>1. CASE \E n \in 1..env.maxMuts : StageChangelogOutbox(n)
  BY <1>1 DEF StageChangelogOutbox, files
<1>2. CASE AbortUpdate BY <1>2 DEF AbortUpdate, files
<1>3. CASE Progress
  BY <1>3 DEF Progress, EngineCommit, AppendIntents, SyncChangelog, Synced,
     CleanupChangelogOutbox, OpenAppendIntents, ValidateConsumers, WriteHeader, SyncHeader, files
<1>4. CASE Error
  BY <1>4 DEF Error, EngineCommitError, AppendError, SyncError, CleanupError,
     OpenAppendError, CreateError, files
<1>5. CASE Close BY <1>5 DEF Close, files
<1>6. CASE Kill BY <1>6 DEF Kill
<1>7. CASE PowerLoss BY <1>7 DEF PowerLoss, HeaderLost, PrefixKept
<1>8. CASE LoseSidecar BY <1>8 DEF LoseSidecar
<1>9. CASE \E m \in env.modes : Open(m) BY <1>9 DEF Open, TruncateIncompleteTail
<1>10. CASE \E w \in env.workers : Consume(w) BY <1>10 DEF Consume, files
<1>11. CASE \E w \in env.workers : AdvanceChangelogConsumer(w)
  BY <1>11 DEF AdvanceChangelogConsumer
<1>12. CASE DeleteChangelogConsumer BY <1>12 DEF DeleteChangelogConsumer
<1>13. CASE UNCHANGED vars BY <1>13 DEF vars, files
<1> QED BY <1>1, <1>2, <1>3, <1>4, <1>5, <1>6, <1>7, <1>8, <1>9, <1>10, <1>11, <1>12, <1>13
        DEF Next

(* The type invariant is preserved.                                        *)
LEMMA TypeStep == IInv /\ [Next]_vars => TypeOK'
<1> SUFFICES ASSUME IInv, [Next]_vars PROVE TypeOK'
  OBVIOUS
<1>1. prim' \in Primary BY OutboxStep
<1>2. log' \in Seq(Frame) /\ synced' \in 0..Len(log') /\ torn' \in BOOLEAN BY FilesType
<1>3. ProcessType' /\ OtherType' BY ProcessTypeStep, OtherTypeStep
<1>4. header' \in Headers BY HeaderType
<1> QED BY <1>1, <1>2, <1>3, <1>4 DEF TypeOK, ProcessType, OtherType

(* Every step of Update, Close and Open leaves the process where           *)
(* ProcessInv allows it.                                                   *)
LEMMA ProcessStep ==
  ASSUME IInv, [Next]_vars
  PROVE  ProcessInv'
<1>0. ProcessInv /\ ProcessType BY DEF IInv, TypeOK, ProcessType
<1> USE DEF ProcessInv, Healthy, Feeding
<1>1. ASSUME ProcessGone PROVE ProcessInv' BY <1>1 DEF ProcessGone, OpenPhases
<1>2. ASSUME ProjectionError PROVE ProcessInv'
  BY <1>0, <1>1, <1>2 DEF ProjectionError, UpdatePhases, OpenPhases
<1>3. CASE \E n \in 1..env.maxMuts : StageChangelogOutbox(n)
  BY <1>0, <1>3 DEF StageChangelogOutbox, OpenPhases
<1>4. CASE AbortUpdate BY <1>0, <1>4 DEF AbortUpdate, OpenPhases
<1>5. CASE EngineCommit BY <1>0, <1>5 DEF EngineCommit, OpenPhases
<1>6. CASE AppendIntents
  <2>1. mode = "lazy" \/ mode = "eager" BY <1>0, <1>6 DEF AppendIntents, ProcessType
  <2> QED BY <1>0, <1>6, <2>1 DEF AppendIntents, OpenPhases
<1>7. CASE SyncChangelog BY <1>0, <1>7 DEF SyncChangelog, SyncPhases, OpenPhases
<1>8. CASE CleanupChangelogOutbox
  BY <1>0, <1>1, <1>8 DEF CleanupChangelogOutbox, CleanupPhases, OpenPhases
<1>9. CASE OpenAppendIntents BY <1>0, <1>9 DEF OpenAppendIntents, OpenPhases
<1>10. CASE ValidateConsumers BY <1>0, <1>1, <1>10 DEF ValidateConsumers, OpenPhases
<1>11. CASE EngineCommitError BY <1>0, <1>11 DEF EngineCommitError, OpenPhases
<1>12. CASE \E k \in 0..(env.maxMuts - 1), part \in BOOLEAN : AppendError(k, part)
  BY <1>2, <1>12 DEF AppendError
<1>13. CASE SyncError BY <1>2, <1>13 DEF SyncError
<1>14. CASE CleanupError BY <1>2, <1>14 DEF CleanupError
<1>15. CASE OpenAppendError BY <1>2, <1>15 DEF OpenAppendError
<1>16. CASE Close BY <1>0, <1>1, <1>16 DEF Close, OpenPhases
<1>17. CASE Kill BY <1>1, <1>17 DEF Kill, Crash
<1>18. CASE PowerLoss BY <1>1, <1>18 DEF PowerLoss, Crash
<1>19. CASE LoseSidecar BY <1>0, <1>19 DEF LoseSidecar, procVars
<1>20. CASE \E m \in env.modes : Open(m) BY <1>0, <1>20 DEF Open, Recover, OpenPhases
<1>21. CASE \E w \in env.workers : Consume(w) BY <1>0, <1>21 DEF Consume, procVars
<1>22. CASE \E w \in env.workers : AdvanceChangelogConsumer(w)
  BY <1>0, <1>22 DEF AdvanceChangelogConsumer, OpenPhases
<1>23. CASE DeleteChangelogConsumer BY <1>0, <1>23 DEF DeleteChangelogConsumer, OpenPhases
<1>24. CASE UNCHANGED vars BY <1>0, <1>24 DEF vars, procVars
<1>25. CASE Creating BY <1>0, <1>1, <1>25, CreateFacts DEF OpenPhases
<1> QED BY <1>25, <1>3, <1>4, <1>5, <1>6, <1>7, <1>8, <1>9, <1>10, <1>11, <1>12, <1>13, <1>14,
           <1>15, <1>16, <1>17, <1>18, <1>19, <1>20, <1>21, <1>22, <1>23, <1>24
        DEF Creating, Next, Progress, Error

(* The engine commit of an Update: its entries come after all others. *)
LEMMA StagingFacts ==
  ASSUME IInv, Staging
  PROVE  LET n == Len(tx.intents)
             m == Len(prim.mutations)
         IN  /\ n \in Nat \ {0} /\ m \in Nat /\ DOMAIN tx.intents = 1..n
             /\ tx.id = prim.head + 1 /\ tx.id \in Nat \ {0}
             /\ StagedKeys = KeysOf(tx.id, n)
             /\ keys \cap StagedKeys = {}
             /\ \A k \in keys : k[1] < tx.id
             /\ DOMAIN prim'.outbox = keys \cup StagedKeys
             /\ \A k \in keys : prim'.outbox[k] = prim.outbox[k]
             /\ \A i \in 1..n : /\ tx.intents[i] = <<updates, i>>
                                /\ prim'.outbox[<<tx.id, i>>] = <<updates, i>>
             /\ prim'.cursor = prim.cursor /\ prim'.checkpoint = prim.checkpoint
             /\ prim'.head = tx.id
             /\ prim'.mutations \in Seq(Pair) /\ Len(prim'.mutations) = m + n
             /\ \A i \in 1..m : prim'.mutations[i] = prim.mutations[i]
             /\ \A i \in 1..n : prim'.mutations[m + i] = <<updates, i>>
             /\ IsFiniteSet(keys \cup StagedKeys)
             /\ Cardinality(keys \cup StagedKeys) = Cardinality(keys) + n
             /\ \A k \in keys : Rank(keys \cup StagedKeys, k) = Rank(keys, k)
             /\ \A i \in 1..n : Rank(keys \cup StagedKeys, <<tx.id, i>>) = Cardinality(keys) + i
<1> DEFINE n == Len(tx.intents)
           m == Len(prim.mutations)
<1>0. TypeOK /\ KeysInv /\ TxInv /\ phase = "staged" /\ prim' = Staged
  BY DEF IInv, Staging
<1>1. /\ tx.intents \in Seq(Pair) /\ prim.mutations \in Seq(Pair) /\ prim.head \in Nat
      /\ keys \in SUBSET Pair
  BY <1>0, PrimaryType DEF TypeOK, Transaction
<1>2. /\ n \in Nat \ {0} /\ m \in Nat /\ DOMAIN tx.intents = 1..n
      /\ tx.id = prim.head + 1 /\ tx.id \in Nat \ {0}
      /\ \A i \in 1..n : tx.intents[i] = <<updates, i>>
  BY <1>0, <1>1, LenProperties, EmptySeq DEF TxInv
<1>3. \A k \in keys : k[1] < tx.id BY <1>0, <1>1, <1>2 DEF KeysInv, Pair
<1>4. /\ StagedKeys = KeysOf(tx.id, n)
      /\ DOMAIN prim'.outbox = keys \cup StagedKeys
      /\ \A i \in DOMAIN tx.intents : prim'.outbox[<<tx.id, i>>] = tx.intents[i]
      /\ \A k \in keys \ StagedKeys : prim'.outbox[k] = prim.outbox[k]
      /\ prim'.cursor = prim.cursor /\ prim'.checkpoint = prim.checkpoint
      /\ prim'.head = tx.id
      /\ prim'.mutations = prim.mutations \o tx.intents
  BY <1>0, <1>2, StagedFacts
<1>5. keys \cap StagedKeys = {} BY <1>2, <1>3, <1>4 DEF KeysOf
<1>6. /\ prim.mutations \o tx.intents \in Seq(Pair)
      /\ Len(prim.mutations \o tx.intents) = m + n
      /\ \A i \in 1..(m + n) : (prim.mutations \o tx.intents)[i] =
            IF i <= m THEN prim.mutations[i] ELSE tx.intents[i - m]
  BY <1>1, ConcatProperties
<1>7. /\ \A i \in 1..m : prim'.mutations[i] = prim.mutations[i]
      /\ \A i \in 1..n : prim'.mutations[m + i] = <<updates, i>>
  <2> DEFINE both == prim.mutations \o tx.intents
  <2>0. \A i \in 1..(m + n) : both[i] = IF i <= m THEN prim.mutations[i] ELSE tx.intents[i - m]
    BY <1>6
  <2>3. prim'.mutations = both BY <1>4
  <2> HIDE DEF n, m, both
  <2>1. ASSUME NEW i \in 1..m PROVE prim'.mutations[i] = prim.mutations[i]
    <3>1. i \in 1..(m + n) /\ i <= m BY <1>2
    <3> QED BY <2>0, <2>3, <3>1
  <2>2. ASSUME NEW i \in 1..n PROVE prim'.mutations[m + i] = <<updates, i>>
    <3> DEFINE z == m + i
    <3>1. z \in 1..(m + n) /\ ~(z <= m) /\ z - m = i BY <1>2
    <3> HIDE DEF z
    <3>2. both[z] = tx.intents[z - m] BY <2>0, <3>1
    <3>3. both[z] = tx.intents[i] BY <3>1, <3>2
    <3>4. prim'.mutations[z] = <<updates, i>> BY <1>2, <2>3, <3>3
    <3> QED BY <3>4 DEF z
  <2> QED BY <2>1, <2>2
<1>8. /\ IsFiniteSet(keys \cup StagedKeys)
      /\ Cardinality(keys \cup StagedKeys) = Cardinality(keys) + n
      /\ \A k \in keys : Rank(keys \cup StagedKeys, k) = Rank(keys, k)
      /\ \A i \in 1..n : Rank(keys \cup StagedKeys, <<tx.id, i>>) = Cardinality(keys) + i
  <2>1. IsFiniteSet(keys) BY <1>0 DEF KeysInv
  <2>2. n \in Nat BY <1>2
  <2>3. keys \in SUBSET Pair /\ tx.id \in Nat \ {0} BY <1>1, <1>2
  <2> HIDE DEF n
  <2>4. /\ IsFiniteSet(keys \cup KeysOf(tx.id, n))
        /\ Cardinality(keys \cup KeysOf(tx.id, n)) = Cardinality(keys) + n
        /\ \A k \in keys : Rank(keys \cup KeysOf(tx.id, n), k) = Rank(keys, k)
        /\ \A i \in 1..n :
             Rank(keys \cup KeysOf(tx.id, n), <<tx.id, i>>) = Cardinality(keys) + i
    BY <1>3, <2>1, <2>2, <2>3, RankStaged
  <2> QED BY <1>4, <2>4
<1>9. \A k \in keys : prim'.outbox[k] = prim.outbox[k] BY <1>4, <1>5
<1>10. \A i \in 1..n : prim'.outbox[<<tx.id, i>>] = <<updates, i>> BY <1>2, <1>4
<1>11. prim'.mutations \in Seq(Pair) /\ Len(prim'.mutations) = m + n BY <1>4, <1>6
<1> QED BY <1>2, <1>3, <1>4, <1>5, <1>7, <1>8, <1>9, <1>10, <1>11

(* The outbox keeps its order: an Update stages under a commit id above    *)
(* all others, a cleanup leaves nothing.                                   *)
LEMMA KeysStep ==
  ASSUME IInv, [Next]_vars
  PROVE  KeysInv'
<1>0. TypeOK /\ KeysInv /\ MutationsInv BY DEF IInv
<1>1. CASE /\ prim'.outbox = prim.outbox /\ prim'.mutations = prim.mutations
           /\ prim'.head = prim.head
  BY <1>0, <1>1 DEF KeysInv, keys, KeyLess
<1>2. CASE DOMAIN prim'.outbox = {}
  <2>1. keys' = {} BY <1>2 DEF keys
  <2> QED BY <2>1, FS_EmptySet DEF KeysInv
<1>3. CASE Staging
  <2> DEFINE n == Len(tx.intents)
             m == Len(prim.mutations)
             S == KeysOf(tx.id, n)
  <2>1. /\ n \in Nat \ {0} /\ m \in Nat
        /\ tx.id = prim.head + 1 /\ tx.id \in Nat \ {0}
        /\ \A k \in keys : k[1] < tx.id
        /\ DOMAIN prim'.outbox = keys \cup S
        /\ \A k \in keys : prim'.outbox[k] = prim.outbox[k]
        /\ \A i \in 1..n : prim'.outbox[<<tx.id, i>>] = <<updates, i>>
        /\ prim'.head = tx.id
        /\ prim'.mutations \in Seq(Pair) /\ Len(prim'.mutations) = m + n
        /\ \A i \in 1..m : prim'.mutations[i] = prim.mutations[i]
        /\ \A i \in 1..n : prim'.mutations[m + i] = <<updates, i>>
        /\ IsFiniteSet(keys \cup S)
    BY <1>3, StagingFacts
  <2>2. /\ keys \in SUBSET Pair /\ prim.head \in Nat /\ updates \in Nat
        /\ prim.mutations \in Seq(Pair)
    BY <1>0, PrimaryType DEF TypeOK
  <2>3. DOMAIN prim.mutations = 1..m /\ DOMAIN prim'.mutations = 1..(m + n)
    BY <2>1, <2>2, LenProperties
  <2>4. keys' = keys \cup S BY <2>1 DEF keys
  <2> HIDE DEF n, m
  <2>5. \A k \in S : \E i \in 1..n : k = <<tx.id, i>> BY DEF KeysOf
  <2> HIDE DEF S
  <2>6. IsFiniteSet(keys') BY <2>1, <2>4
  <2>7. \A k \in keys' : k[1] <= prim'.head
    <3> TAKE k \in keys'
    <3>1. CASE k \in keys BY <2>1, <2>2, <3>1 DEF Pair
    <3>2. CASE k \in S BY <2>1, <2>5, <3>2
    <3> QED BY <2>4, <3>1, <3>2
  <2>8. \A k \in keys' : \E j \in DOMAIN prim'.mutations : prim'.mutations[j] = prim'.outbox[k]
    <3> TAKE k \in keys'
    <3>1. CASE k \in keys
      <4>1. PICK j \in 1..m : prim.mutations[j] = prim.outbox[k]
        BY <1>0, <2>3, <3>1 DEF KeysInv
      <4>2. j \in DOMAIN prim'.mutations BY <2>1, <2>3
      <4> QED BY <2>1, <3>1, <4>1, <4>2
    <3>2. CASE k \in S
      <4>1. PICK i \in 1..n : k = <<tx.id, i>> BY <2>5, <3>2
      <4>2. m + i \in DOMAIN prim'.mutations BY <2>1, <2>3
      <4> QED BY <2>1, <4>1, <4>2
    <3> QED BY <2>4, <3>1, <3>2
  <2>9. ASSUME NEW k \in keys', NEW l \in keys', KeyLess(k, l)
        PROVE  KeyLess(prim'.outbox[k], prim'.outbox[l])
    <3>1. CASE k \in keys /\ l \in keys BY <1>0, <2>1, <2>9, <3>1 DEF KeysInv
    <3>2. CASE k \in keys /\ l \in S
      <4>1. PICK i \in 1..n : l = <<tx.id, i>> BY <2>5, <3>2
      <4>2. PICK j \in 1..m : prim.mutations[j] = prim.outbox[k]
        BY <1>0, <2>3, <3>2 DEF KeysInv
      <4>3. prim.mutations[j][1] < updates
        BY <1>0, <1>3, <2>3 DEF MutationsInv, Staging
      <4> QED BY <2>1, <3>2, <4>1, <4>2, <4>3 DEF KeyLess
    <3>3. CASE k \in S /\ l \in keys
      <4>1. PICK i \in 1..n : k = <<tx.id, i>> BY <2>5, <3>3
      <4>2. k[1] = tx.id BY <4>1
      <4>3. l[1] < tx.id /\ l[1] \in Nat BY <2>1, <2>2, <3>3 DEF Pair
      <4>4. ~(k[1] < l[1]) /\ k[1] # l[1] BY <2>1, <4>2, <4>3
      <4> QED BY <2>9, <4>4 DEF KeyLess
    <3>4. CASE k \in S /\ l \in S
      <4>1. PICK i \in 1..n : k = <<tx.id, i>> BY <2>5, <3>4
      <4>2. PICK j \in 1..n : l = <<tx.id, j>> BY <2>5, <3>4
      <4>3. i < j BY <2>1, <2>9, <4>1, <4>2 DEF KeyLess
      <4>4. prim'.outbox[k] = <<updates, i>> /\ prim'.outbox[l] = <<updates, j>>
        BY <2>1, <4>1, <4>2
      <4> QED BY <4>3, <4>4 DEF KeyLess
    <3> QED BY <2>4, <3>1, <3>2, <3>3, <3>4
  <2> QED BY <2>6, <2>7, <2>8, <2>9 DEF KeysInv, KeyLess
<1> QED BY <1>1, <1>2, <1>3, OutboxStep

(* Staging takes the next number of an Update; nothing else does.          *)
LEMMA StagedStep ==
  ASSUME IInv, [Next]_vars
  PROVE  /\ updates' \in {updates, updates + 1}
         /\ phase = "staged" => updates' = updates
         /\ phase' = "staged" =>
              /\ prim' = prim
              /\ updates' = updates + 1 \/ (phase = "staged" /\ updates' = updates)
<1>1. CASE \E n \in 1..env.maxMuts : StageChangelogOutbox(n)
  BY <1>1 DEF StageChangelogOutbox, files
<1>2. CASE AbortUpdate BY <1>2 DEF AbortUpdate, counters
<1>3. CASE Progress
  BY <1>3 DEF Progress, EngineCommit, AppendIntents, SyncChangelog, CleanupChangelogOutbox,
     OpenAppendIntents, ValidateConsumers, WriteHeader, SyncHeader, Recover, ProcessGone,
     counters, SyncPhases
<1>4. ASSUME ProjectionError PROVE phase' # "staged"
  BY <1>4 DEF ProjectionError, ProcessGone
<1>5. CASE Error
  BY <1>4, <1>5 DEF Error, EngineCommitError, AppendError, SyncError, CleanupError,
     OpenAppendError, CreateError, CreatePhases, ProcessGone, CleanupPhases, SyncPhases
<1>6. CASE Close BY <1>6 DEF Close, ProcessGone, counters
<1>7. CASE Kill BY <1>7 DEF Kill, Crash, ProcessGone
<1>8. CASE PowerLoss BY <1>8 DEF PowerLoss, Crash, ProcessGone
<1>9. CASE LoseSidecar BY <1>9 DEF LoseSidecar, procVars
<1>10. CASE \E m \in env.modes : Open(m) BY <1>10 DEF Open, Recover, counters
<1>11. CASE \E w \in env.workers : Consume(w) BY <1>11 DEF Consume, procVars, counters
<1>12. CASE \E w \in env.workers : AdvanceChangelogConsumer(w)
  BY <1>12 DEF AdvanceChangelogConsumer
<1>13. CASE DeleteChangelogConsumer BY <1>13 DEF DeleteChangelogConsumer
<1>14. CASE UNCHANGED vars BY <1>14 DEF vars, files, procVars, counters
<1> QED BY <1>1, <1>2, <1>3, <1>5, <1>6, <1>7, <1>8, <1>9, <1>10, <1>11, <1>12, <1>13, <1>14
        DEF Next

(* Committed mutations stay in order.                                      *)
LEMMA MutationsStep ==
  ASSUME IInv, [Next]_vars
  PROVE  MutationsInv'
<1>0. TypeOK /\ MutationsInv /\ updates \in Nat /\ prim.mutations \in Seq(Pair)
  BY PrimaryType DEF IInv, TypeOK
<1>1. \A i \in DOMAIN prim.mutations : prim.mutations[i] \in Pair
  BY <1>0, LenProperties, ElementOfSeq
<1>2. CASE prim'.mutations = prim.mutations
  BY <1>0, <1>1, <1>2, StagedStep DEF MutationsInv, KeyLess, Pair
<1>3. CASE Staging
  <2> DEFINE n == Len(tx.intents)
             m == Len(prim.mutations)
  <2>1. /\ n \in Nat \ {0} /\ m \in Nat
        /\ prim'.mutations \in Seq(Pair) /\ Len(prim'.mutations) = m + n
        /\ \A i \in 1..m : prim'.mutations[i] = prim.mutations[i]
        /\ \A i \in 1..n : prim'.mutations[m + i] = <<updates, i>>
        /\ prim'.head = prim.head + 1
    BY <1>3, StagingFacts
  <2>2. DOMAIN prim.mutations = 1..m /\ DOMAIN prim'.mutations = 1..(m + n)
    BY <1>0, <2>1, LenProperties
  <2>3. phase = "staged" /\ prim.head \in Nat BY <1>0, <1>3, PrimaryType DEF Staging
  <2>4. updates' = updates /\ phase' # "staged" BY <2>1, <2>3, StagedStep
  <2> HIDE DEF n, m
  <2>5. \A i \in 1..m : prim'.mutations[i] = prim.mutations[i] /\ prim.mutations[i][1] < updates
    BY <1>0, <2>1, <2>2, <2>3 DEF MutationsInv
  <2>6. ASSUME NEW i \in 1..(m + n), ~(i <= m)
        PROVE  i - m \in 1..n /\ prim'.mutations[i] = <<updates, i - m>>
    <3>1. i - m \in 1..n BY <2>1, <2>6
    <3>2. m + (i - m) = i BY <2>1
    <3>3. prim'.mutations[m + (i - m)] = <<updates, i - m>> BY <2>1, <3>1
    <3> QED BY <3>1, <3>2, <3>3
  <2>7. ASSUME NEW i \in 1..(m + n) PROVE prim'.mutations[i][1] <= updates
    <3>1. CASE i <= m
      <4>1. i \in 1..m BY <2>1, <3>1
      <4>2. prim.mutations[i][1] \in Nat BY <1>1, <2>2, <4>1 DEF Pair
      <4> QED BY <1>0, <2>5, <4>1, <4>2
    <3>2. CASE ~(i <= m) BY <1>0, <2>6, <3>2
    <3> QED BY <3>1, <3>2
  <2>8. ASSUME NEW i \in 1..(m + n), NEW j \in 1..(m + n), i < j
        PROVE  KeyLess(prim'.mutations[i], prim'.mutations[j])
    <3>1. CASE j <= m
      <4>1. i \in 1..m /\ j \in 1..m BY <2>1, <2>8, <3>1
      <4> QED BY <1>0, <2>2, <2>5, <2>8, <4>1 DEF MutationsInv
    <3>2. CASE i <= m /\ ~(j <= m)
      <4>1. i \in 1..m BY <2>1, <3>2
      <4> QED BY <2>5, <2>6, <3>2, <4>1 DEF KeyLess
    <3>3. CASE ~(i <= m)
      <4>1. ~(j <= m) BY <2>1, <2>8, <3>3
      <4>2. i - m < j - m BY <2>1, <2>8
      <4> QED BY <2>6, <3>3, <4>1, <4>2 DEF KeyLess
    <3> QED BY <3>1, <3>2, <3>3
  <2> QED BY <2>2, <2>4, <2>7, <2>8 DEF MutationsInv, KeyLess
<1> QED BY <1>2, <1>3, OutboxStep

(* The Update under way keeps its commit id and its place at the end of    *)
(* the outbox.                                                             *)
LEMMA TxStep ==
  ASSUME IInv, [Next]_vars
  PROVE  TxInv'
<1>0. TypeOK /\ TxInv /\ ProcessInv BY DEF IInv
<1>1. /\ seqNext \in Nat /\ prim.head \in Nat /\ updates \in Nat BY <1>0, PrimaryType DEF TypeOK
<1>2. phase # "staged" => prim'.head = prim.head BY OutboxStep DEF Staging
<1>3. phase \notin {"staged"} \cup CleanupPhases => prim'.outbox = prim.outbox
  BY OutboxStep DEF Staging, Cleaning
<1>4. ASSUME phase' = "down" PROVE TxInv' BY <1>4 DEF TxInv, Healthy, Feeding
<1>5. ASSUME phase' = "ready", recoveryRequired' PROVE TxInv'
  BY <1>5 DEF TxInv, Healthy, Feeding
<1>6. ASSUME phase' \notin {"staged", "append", "sync", "cleanup"},
             phase # "staged", Healthy, seqNext' = seqNext
      PROVE  TxInv'
  BY <1>0, <1>2, <1>6 DEF TxInv
<1>7. ASSUME ProjectionError PROVE TxInv'
  BY <1>4, <1>5, <1>7 DEF ProjectionError, ProcessGone
<1>8. CASE \E n \in 1..env.maxMuts : StageChangelogOutbox(n)
  <2>1. PICK n \in 1..env.maxMuts : StageChangelogOutbox(n) BY <1>8
  <2>2. n \in Nat \ {0} BY <1>0 DEF TypeOK, Scenario
  <2>3. seqNext = prim.head /\ prim' = prim
    BY <1>0, <2>1 DEF StageChangelogOutbox, TxInv, Healthy, Feeding, files
  <2>4. tx'.id = seqNext + 1 /\ tx'.before = seqNext
        /\ tx'.intents = [i \in 1..n |-> <<updates + 1, i>>]
    BY <2>1 DEF StageChangelogOutbox
  <2>5. tx'.intents # <<>>
    <3>1. DOMAIN tx'.intents = 1..n /\ 1 \in 1..n BY <2>2, <2>4
    <3>2. DOMAIN <<>> = {} OBVIOUS
    <3> QED BY <3>1, <3>2
  <2>6. \A i \in DOMAIN tx'.intents : tx'.intents[i] = <<updates', i>>
    BY <2>1, <2>4 DEF StageChangelogOutbox
  <2> QED BY <2>1, <2>3, <2>4, <2>5, <2>6 DEF StageChangelogOutbox, TxInv
<1>9. CASE AbortUpdate
  <2>1. prim' = prim /\ tx.before = prim.head BY <1>0, <1>9 DEF AbortUpdate, TxInv, files
  <2> QED BY <1>9, <2>1 DEF AbortUpdate, TxInv, HeadBefore
<1>10. CASE EngineCommit
  <2>1. Staging /\ tx' = tx /\ seqNext' = seqNext /\ updates' = updates /\ phase' = "append"
    BY <1>10 DEF EngineCommit, Staging, counters
  <2>2. /\ DOMAIN tx.intents = 1..Len(tx.intents)
        /\ DOMAIN prim'.outbox = keys \cup StagedKeys
        /\ \A i \in 1..Len(tx.intents) : /\ tx.intents[i] = <<updates, i>>
                                         /\ prim'.outbox[<<tx.id, i>>] = <<updates, i>>
        /\ prim'.head = tx.id
        /\ \A k \in keys : k[1] < tx.id
    BY <2>1, StagingFacts
  <2>3. StagedKeys' = StagedKeys BY <2>1 DEF StagedKeys
  <2>4. StagedKeys' \subseteq keys' BY <2>2, <2>3 DEF keys
  <2>5. \A i \in DOMAIN tx.intents : prim'.outbox[<<tx.id, i>>] = tx.intents[i] BY <2>2
  <2>6. seqNext = tx.id /\ tx.intents # <<>>
        /\ \A i \in DOMAIN tx.intents : tx.intents[i] = <<updates, i>>
    BY <1>0, <2>1 DEF TxInv, Staging
  <2>7. \A k \in keys' \ StagedKeys' : k[1] < tx.id BY <2>2, <2>3 DEF keys
  <2> QED BY <2>1, <2>2, <2>4, <2>5, <2>6, <2>7 DEF TxInv
<1>11. CASE AppendIntents
  <2>1. prim' = prim /\ seqNext' = seqNext /\ updates' = updates /\ Healthy
        /\ phase' \in {"ready", "flushSync", "sync"} /\ (phase' = "sync" => tx' = tx)
    BY <1>0, <1>11 DEF AppendIntents, counters, ProcessInv
  <2>2. CASE phase' = "sync"
    BY <1>0, <1>11, <2>1, <2>2 DEF AppendIntents, TxInv, StagedKeys, keys
  <2>3. CASE phase' # "sync"
    BY <1>6, <1>11, <2>1, <2>3 DEF AppendIntents
  <2> QED BY <2>2, <2>3
<1>12. CASE SyncChangelog
  <2>1. prim' = prim /\ seqNext' = seqNext /\ updates' = updates /\ tx' = tx /\ Healthy
        /\ phase # "staged"
    BY <1>0, <1>12 DEF SyncChangelog, counters, ProcessInv, SyncPhases
  <2>2. CASE phase = "sync"
    BY <1>0, <1>12, <2>1, <2>2 DEF SyncChangelog, TxInv, StagedKeys, keys
  <2>3. CASE phase # "sync"
    <3>1. phase' \notin {"staged", "append", "sync", "cleanup"}
      BY <1>12, <2>3 DEF SyncChangelog, SyncPhases
    <3> QED BY <1>6, <2>1, <3>1
  <2> QED BY <2>2, <2>3
<1>13. CASE CleanupChangelogOutbox
  <2>1. CASE phase = "closeCleanup"
    BY <1>4, <1>13, <2>1 DEF CleanupChangelogOutbox, ProcessGone
  <2>2. CASE phase # "closeCleanup"
    <3>1. phase' \in {"validate", "ready"} /\ seqNext' = seqNext /\ phase # "staged" /\ Healthy
      BY <1>0, <1>13, <2>2 DEF CleanupChangelogOutbox, CleanupPhases, ProcessInv
    <3> QED BY <1>6, <3>1
  <2> QED BY <2>1, <2>2
<1>14. CASE OpenAppendIntents
  BY <1>0, <1>6, <1>14 DEF OpenAppendIntents, ProcessInv
<1>15. CASE ValidateConsumers
  BY <1>0, <1>4, <1>6, <1>15 DEF ValidateConsumers, ProcessGone, ProcessInv
<1>16. CASE EngineCommitError BY <1>5, <1>16 DEF EngineCommitError
<1>17. CASE \E k \in 0..(env.maxMuts - 1), part \in BOOLEAN : AppendError(k, part)
  BY <1>7, <1>17 DEF AppendError
<1>18. CASE SyncError BY <1>7, <1>18 DEF SyncError
<1>19. CASE CleanupError BY <1>7, <1>19 DEF CleanupError
<1>20. CASE OpenAppendError BY <1>7, <1>20 DEF OpenAppendError
<1>21. CASE Close
  <2>1. CASE mode = "lazy" /\ pendingOutbox > 0 /\ ~recoveryRequired
    BY <1>6, <1>21, <2>1 DEF Close, Healthy, Feeding
  <2>2. CASE ~(mode = "lazy" /\ pendingOutbox > 0 /\ ~recoveryRequired)
    BY <1>4, <1>21, <2>2 DEF Close, ProcessGone
  <2> QED BY <2>1, <2>2
<1>22. CASE Kill BY <1>4, <1>22 DEF Kill, Crash, ProcessGone
<1>23. CASE PowerLoss BY <1>4, <1>23 DEF PowerLoss, Crash, ProcessGone
<1>24. CASE LoseSidecar BY <1>4, <1>24 DEF LoseSidecar, procVars
<1>25. CASE \E m \in env.modes : Open(m)
  BY <1>4, <1>25 DEF Open, Recover, TxInv
<1>26. CASE \E w \in env.workers : Consume(w)
  BY <1>0, <1>26 DEF Consume, procVars, files, TxInv, Healthy, Feeding
<1>27. CASE \E w \in env.workers : AdvanceChangelogConsumer(w)
  BY <1>6, <1>27 DEF AdvanceChangelogConsumer, Healthy, Feeding
<1>28. CASE DeleteChangelogConsumer
  <2>1. CASE mode = "off"
    BY <1>28, <2>1 DEF DeleteChangelogConsumer, TxInv, Healthy, Feeding
  <2>2. CASE mode # "off"
    BY <1>6, <1>28, <2>2 DEF DeleteChangelogConsumer, Healthy, Feeding
  <2> QED BY <2>1, <2>2
<1>29. CASE UNCHANGED vars
  <2>1. /\ phase' = phase /\ mode' = mode /\ tx' = tx /\ prim' = prim /\ updates' = updates
        /\ seqNext' = seqNext /\ recoveryRequired' = recoveryRequired
    BY <1>29 DEF vars, procVars, files, counters
  <2> QED BY <1>0, <2>1 DEF TxInv, Healthy, Feeding, StagedKeys, keys
<1>30. CASE Creating
  BY <1>0, <1>4, <1>6, <1>30, CreateFacts DEF ProcessInv, ProcessGone
<1> QED BY <1>30, <1>8, <1>9, <1>10, <1>11, <1>12, <1>13, <1>14, <1>15, <1>16, <1>17, <1>18, <1>19,
           <1>20, <1>21, <1>22, <1>23, <1>24, <1>25, <1>26, <1>27, <1>28, <1>29
        DEF Creating, Next, Progress, Error

(* Where a write may be under way the outbox holds what is written. *)
LEMMA WritesPending ==
  ASSUME IInv, phase \in {"append", "openAppend"}
  PROVE  keys # {}
<1>1. CASE phase = "append"
  <2>1. StagedKeys \subseteq keys /\ tx.intents # <<>> /\ tx.intents \in Seq(Pair)
    BY <1>1 DEF IInv, TxInv, TypeOK, Transaction
  <2>2. Len(tx.intents) \in Nat \ {0} /\ DOMAIN tx.intents = 1..Len(tx.intents)
    BY <2>1, EmptySeq, LenProperties
  <2>3. <<tx.id, 1>> \in StagedKeys BY <2>2 DEF StagedKeys
  <2> QED BY <2>1, <2>3
<1>2. CASE phase = "openAppend" BY <1>2 DEF IInv, ProjectionInv
<1> QED BY <1>1, <1>2

(* Only a cleanup removes entries.                                         *)
LEMMA KeysKept ==
  ASSUME IInv, [Next]_vars, ~Cleaning
  PROVE  keys \subseteq keys'
<1>1. CASE prim'.outbox = prim.outbox BY <1>1 DEF keys
<1>2. CASE Staging
  <2>1. DOMAIN prim'.outbox = keys \cup StagedKeys BY <1>2, StagingFacts
  <2> QED BY <2>1 DEF keys
<1> QED BY <1>1, <1>2, OutboxStep

(* Frames stay numbered without a gap, and torn or unsynced frames stay    *)
(* backed by the outbox, whatever fails or crashes.                        *)
LEMMA FilesStep ==
  ASSUME IInv, [Next]_vars
  PROVE  FilesInv'
<1>0. /\ TypeOK /\ FilesInv /\ HeaderInv /\ ProcessInv /\ IsFiniteSet(keys)
      /\ log \in Seq(Frame) /\ Len(log) \in Nat /\ synced \in 0..Len(log)
      /\ hist \in Seq(Frame) /\ Len(hist) \in Nat
  BY LenProperties DEF IInv, TypeOK, KeysInv
<1>1. Contiguous'
  <2>0. \A i \in 1..Len(log) : log[i].seq = i
    BY <1>0, LenProperties DEF FilesInv, Contiguous
  <2>1. CASE LoseSidecar
    <3>1. log' \in Seq(Frame) /\ Len(log') \in Nat /\ Len(log') <= Len(log)
          /\ \A i \in 1..Len(log') : log'[i] = log[i]
      BY <2>1, LossFacts
    <3>2. DOMAIN log' = 1..Len(log') BY <3>1, LenProperties
    <3>3. \A i \in 1..Len(log') : i \in 1..Len(log) BY <1>0, <3>1
    <3> QED BY <2>0, <3>1, <3>2, <3>3 DEF Contiguous
  <2>2. CASE ~LoseSidecar
    <3>1. PICK s \in InFlight \cup {<<>>}, keep \in Nat : Writing(s, keep) BY <2>2, LogStep
    <3>2. /\ log' \in Seq(Frame) /\ Len(log') = keep
          /\ \A i \in 1..keep :
               log'[i] = IF i <= Len(log) THEN log[i] ELSE [seq |-> i, intent |-> s[i - Len(log)]]
      BY <3>1 DEF Writing, Extends
    <3>3. DOMAIN log' = 1..keep BY <3>2, LenProperties
    <3>4. ASSUME NEW i \in 1..keep PROVE log'[i].seq = i
      <4>1. CASE i <= Len(log)
        <5>1. i \in 1..Len(log) BY <1>0, <4>1
        <5> QED BY <2>0, <3>2, <4>1, <5>1
      <4>2. CASE ~(i <= Len(log)) BY <3>2, <4>2
      <4> QED BY <4>1, <4>2
    <3> QED BY <3>3, <3>4 DEF Contiguous
  <2> QED BY <2>1, <2>2
<1> DEFINE Explained == (torn' \/ synced' < Len(log')) => keys' # {}
           Current == (Healthy' => ~torn' /\ hist' = log')
                      /\ (phase' \in CleanupPhases => synced' = Len(log'))
<1>2. ASSUME log' = log, torn' = torn, synced' = synced PROVE Explained
  <2>1. CASE phase \in CleanupPhases
    BY <1>0, <1>2, <2>1 DEF FilesInv, ProcessInv, CleanupPhases
  <2>2. CASE phase \notin CleanupPhases
    BY <1>0, <1>2, <2>2, KeysKept DEF FilesInv, Cleaning
  <2> QED BY <2>1, <2>2
<1>3. ASSUME phase \in {"append", "openAppend"} PROVE Explained
  BY <1>3, WritesPending, KeysKept DEF Cleaning, CleanupPhases
<1>4. ASSUME torn' = FALSE, synced' = Len(log') PROVE Explained
  BY <1>4, FilesType, LenProperties
<1>5. ASSUME ProcessGone PROVE Current
  BY <1>5 DEF ProcessGone, Healthy, Feeding, CleanupPhases
<1>6. ASSUME ProjectionError PROVE Current
  BY <1>5, <1>6 DEF ProjectionError, Healthy, Feeding, CleanupPhases
<1>7. ASSUME hist' = hist, log' = log, torn' = torn, synced' = synced, mode' = mode,
             phase # "down", recoveryRequired => recoveryRequired',
             phase' \in CleanupPhases => phase' = phase
      PROVE  Current
  BY <1>0, <1>7 DEF FilesInv, Healthy, Feeding
<1>8. CASE \E n \in 1..env.maxMuts : StageChangelogOutbox(n)
  BY <1>2, <1>7, <1>8, <1>1 DEF StageChangelogOutbox, files, FilesInv, CleanupPhases
<1>9. CASE AbortUpdate
  BY <1>2, <1>7, <1>9, <1>1 DEF AbortUpdate, files, FilesInv, CleanupPhases
<1>10. CASE EngineCommit BY <1>2, <1>7, <1>10, <1>1 DEF EngineCommit, FilesInv, CleanupPhases
<1>11. CASE AppendIntents
  <2>1. hist' = log' /\ ~torn' /\ phase' \notin CleanupPhases
    BY <1>0, <1>11 DEF AppendIntents, FilesInv, ProcessInv, CleanupPhases
  <2> QED BY <1>1, <1>3, <1>11, <2>1 DEF AppendIntents, FilesInv
<1>12. CASE SyncChangelog
  <2>1. Healthy /\ log' = log /\ hist' = hist /\ torn' = torn /\ synced' = Len(log)
    BY <1>0, <1>12 DEF SyncChangelog, Synced, ProcessInv, SyncPhases
  <2>2. torn' = FALSE /\ hist' = log' /\ synced' = Len(log') BY <1>0, <2>1 DEF FilesInv, TypeOK
  <2> QED BY <1>1, <1>4, <2>2 DEF FilesInv
<1>13. CASE CleanupChangelogOutbox
  <2>1. Explained BY <1>2, <1>13 DEF CleanupChangelogOutbox
  <2>2. Current
    <3>1. CASE phase = "closeCleanup" BY <1>5, <1>13, <3>1 DEF CleanupChangelogOutbox
    <3>2. CASE phase # "closeCleanup"
      BY <1>7, <1>13, <3>2 DEF CleanupChangelogOutbox, CleanupPhases
    <3> QED BY <3>1, <3>2
  <2> QED BY <1>1, <2>1, <2>2 DEF FilesInv
<1>14. CASE OpenAppendIntents
  <2>1. PICK s \in PendingIntents :
          log' = log \o Frames(Len(hist), s) /\ hist' = hist \o Frames(Len(hist), s)
    BY <1>14 DEF OpenAppendIntents
  <2>2. hist = log /\ ~torn BY <1>0, <1>14 DEF OpenAppendIntents, FilesInv, ProcessInv
  <2>3. hist' = log' /\ ~torn' /\ phase' \notin CleanupPhases
    BY <1>14, <2>1, <2>2 DEF OpenAppendIntents, CleanupPhases
  <2> QED BY <1>1, <1>3, <1>14, <2>3 DEF OpenAppendIntents, FilesInv
<1>15. CASE ValidateConsumers
  <2>1. Explained BY <1>2, <1>15 DEF ValidateConsumers, files
  <2>2. Current
    <3>1. CASE HistoryValid
      BY <1>7, <1>15, <3>1 DEF ValidateConsumers, files, CleanupPhases
    <3>2. CASE ~HistoryValid BY <1>5, <1>15, <3>2 DEF ValidateConsumers
    <3> QED BY <3>1, <3>2
  <2> QED BY <1>1, <2>1, <2>2 DEF FilesInv
<1>16. CASE EngineCommitError
  BY <1>2, <1>7, <1>16, <1>1 DEF EngineCommitError, FilesInv, CleanupPhases
<1>17. CASE \E k \in 0..(env.maxMuts - 1), part \in BOOLEAN : AppendError(k, part)
  BY <1>1, <1>3, <1>6, <1>17 DEF AppendError, FilesInv
<1>18. CASE SyncError BY <1>1, <1>2, <1>6, <1>18 DEF SyncError, files, FilesInv
<1>19. CASE CleanupError BY <1>1, <1>2, <1>6, <1>19 DEF CleanupError, FilesInv
<1>20. CASE OpenAppendError BY <1>1, <1>3, <1>6, <1>20 DEF OpenAppendError, FilesInv
<1>21. CASE Close
  <2>1. Explained BY <1>2, <1>21 DEF Close, files
  <2>2. CASE mode = "lazy" /\ pendingOutbox > 0 /\ ~recoveryRequired
    BY <1>1, <1>7, <1>21, <2>1, <2>2 DEF Close, files, FilesInv, CleanupPhases
  <2>3. CASE ~(mode = "lazy" /\ pendingOutbox > 0 /\ ~recoveryRequired)
    BY <1>1, <1>5, <1>21, <2>1, <2>3 DEF Close, FilesInv
  <2> QED BY <2>2, <2>3
<1>22. CASE Kill
  <2>1. CASE phase \in {"append", "openAppend"}
    BY <1>1, <1>3, <1>5, <1>22, <2>1 DEF Kill, Crash, FilesInv
  <2>2. CASE phase \notin {"append", "openAppend"}
    <3>1. PICK s \in InFlight : \E k \in 0..Len(s) :
             log' = log \o SubSeq(Frames(Len(hist), s), 1, k) /\ torn' \in {torn, k < Len(s)}
      BY <1>22 DEF Kill
    <3>2. s = <<>> BY <2>2 DEF InFlight
    <3>3. Len(s) = 0 BY <3>2
    <3>4. PICK k \in 0..Len(s) :
             log' = log \o SubSeq(Frames(Len(hist), s), 1, k) /\ torn' \in {torn, k < Len(s)}
      BY <3>1
    <3>5. k = 0 /\ ~(k < Len(s)) BY <3>3
    <3>6. Extends(log, s, Len(log) + k, log')
      BY <1>0, <3>2, <3>4, EmptySeq, PartOfWrite
    <3>7. Len(log') = Len(log) /\ synced' = synced BY <1>0, <1>22, <3>5, <3>6 DEF Extends, Kill
    <3>8. torn' => torn BY <3>4, <3>5
    <3>9. Explained
      <4>1. CASE phase \in CleanupPhases
        BY <1>0, <3>7, <3>8, <4>1 DEF FilesInv, ProcessInv, CleanupPhases
      <4>2. CASE phase \notin CleanupPhases
        BY <1>0, <3>7, <3>8, <4>2, KeysKept DEF FilesInv, Cleaning
      <4> QED BY <4>1, <4>2
    <3> QED BY <1>1, <1>5, <1>22, <3>9 DEF Kill, Crash, FilesInv
  <2> QED BY <2>1, <2>2
<1>23. CASE PowerLoss
  <2>1. CASE phase \in {"append", "openAppend"}
    BY <1>1, <1>3, <1>5, <1>23, <2>1 DEF PowerLoss, Crash, FilesInv
  <2>2. CASE phase \notin {"append", "openAppend"}
    <3>1. PICK s \in InFlight \cup {<<>>} : \E keep \in synced..(Len(log) + Len(s)) :
             /\ log' = SubSeq(log \o Frames(Len(hist), s), 1, keep)
             /\ torn' \in {FALSE, torn \/ keep < Len(log) + Len(s)}
             /\ synced' = keep
      BY <1>0, <1>23, PowerLossCuts
    <3>2. s = <<>> BY <2>2 DEF InFlight
    <3>3. Len(s) = 0 BY <3>2
    <3>4. PICK keep \in synced..(Len(log) + Len(s)) :
             /\ log' = SubSeq(log \o Frames(Len(hist), s), 1, keep)
             /\ torn' \in {FALSE, torn \/ keep < Len(log) + Len(s)}
             /\ synced' = keep
      BY <3>1
    <3>5. keep \in 0..(Len(log) + Len(s)) /\ keep \in synced..Len(log) BY <1>0, <3>3
    <3>6. Extends(log, s, keep, log')
      BY <1>0, <3>2, <3>4, <3>5, EmptySeq, PrefixOfConcat
    <3>7. Len(log') = synced' BY <3>4, <3>6 DEF Extends
    <3>8. torn' => torn \/ keep < Len(log)
      <4> DEFINE part == keep < Len(log) + Len(s)
      <4>1. torn' = FALSE \/ torn' = (torn \/ part) BY <3>4
      <4>2. part => keep < Len(log) BY <1>0, <3>3, <3>5
      <4> HIDE DEF part
      <4> QED BY <4>1, <4>2
    <3>9. Explained
      <4>1. ~(synced' < Len(log')) BY <1>0, <3>4, <3>5, <3>7
      <4>2. CASE phase \in CleanupPhases
        BY <1>0, <3>5, <3>8, <4>1, <4>2 DEF FilesInv, ProcessInv, CleanupPhases
      <4>3. CASE phase \notin CleanupPhases
        BY <1>0, <3>5, <3>8, <4>1, <4>3, KeysKept DEF FilesInv, Cleaning
      <4> QED BY <4>2, <4>3
    <3> QED BY <1>1, <1>5, <1>23, <3>9 DEF PowerLoss, Crash, FilesInv
  <2> QED BY <2>1, <2>2
<1>24. CASE LoseSidecar
  <2>1. synced' = Len(log') BY <1>24, LossFacts
  <2>2. torn' = FALSE /\ phase' = "down" BY <1>24 DEF LoseSidecar, procVars
  <2> QED BY <1>1, <1>4, <2>1, <2>2 DEF FilesInv, Healthy, Feeding, CleanupPhases
<1>25. CASE \E m \in env.modes : Open(m)
  <2>1. PICK m \in env.modes : Open(m) BY <1>25
  <2>2. prim' = prim /\ log' = log BY <2>1 DEF Open
  <2>3. CASE m # "off" /\ ~Readable
    <3>1. Explained BY <1>2, <2>1, <2>2, <2>3 DEF Open
    <3>2. phase' = "down" BY <2>1, <2>3 DEF Open
    <3> QED BY <1>1, <3>1, <3>2 DEF FilesInv, Healthy, Feeding, CleanupPhases
  <2>4. CASE m = "off"
    <3>1. Explained BY <1>2, <2>1, <2>2, <2>4 DEF Open
    <3>2. mode' = "off" /\ phase' = "ready" BY <2>1, <2>4 DEF Open
    <3> QED BY <1>1, <3>1, <3>2 DEF FilesInv, Healthy, Feeding, CleanupPhases
  <2>5. CASE m # "off" /\ Readable
    <3>1. /\ torn' = FALSE /\ synced' = (IF torn THEN Len(log) ELSE synced) /\ hist' = log'
          /\ phase' \in {"create", "validate", "openAppend"}
      BY <2>1, <2>2, <2>5 DEF Open, Recover, TruncateIncompleteTail
    <3>2. Explained
      <4>1. CASE torn BY <1>0, <2>2, <3>1, <4>1
      <4>2. CASE ~torn BY <1>0, <2>2, <3>1, <4>2 DEF FilesInv, keys
      <4> QED BY <4>1, <4>2
    <3> QED BY <1>1, <3>1, <3>2 DEF FilesInv, CleanupPhases
  <2> QED BY <2>3, <2>4, <2>5
<1>26. CASE \E w \in env.workers : Consume(w)
  BY <1>1, <1>2, <1>7, <1>26 DEF Consume, procVars, files, FilesInv
<1>27. CASE \E w \in env.workers : AdvanceChangelogConsumer(w)
  BY <1>1, <1>2, <1>7, <1>27 DEF AdvanceChangelogConsumer, CleanupPhases, FilesInv
<1>28. CASE DeleteChangelogConsumer
  BY <1>1, <1>2, <1>7, <1>28 DEF DeleteChangelogConsumer, CleanupPhases, FilesInv
<1>29. CASE UNCHANGED vars
  <2>1. /\ hist' = hist /\ log' = log /\ torn' = torn /\ synced' = synced /\ mode' = mode
        /\ phase' = phase /\ recoveryRequired' = recoveryRequired
    BY <1>29 DEF vars, files, procVars
  <2>2. Explained BY <1>2, <2>1
  <2> QED BY <1>0, <1>1, <2>1, <2>2 DEF FilesInv, Healthy, Feeding
<1>30. CASE Creating
  <2>1. Explained BY <1>2, <1>30, CreateFacts
  <2>2. Current BY <1>5, <1>7, <1>30, CreateFacts DEF CleanupPhases
  <2> QED BY <1>1, <2>1, <2>2 DEF FilesInv
<1> QED BY <1>30, <1>8, <1>9, <1>10, <1>11, <1>12, <1>13, <1>14, <1>15, <1>16, <1>17, <1>18, <1>19,
           <1>20, <1>21, <1>22, <1>23, <1>24, <1>25, <1>26, <1>27, <1>28, <1>29
        DEF Creating, Next, Progress, Error

(* A header that was never synced takes no synced frame with it, and no    *)
(* process feeds before the file is created.                               *)
LEMMA HeaderStep ==
  ASSUME IInv, [Next]_vars
  PROVE  HeaderInv'
<1>0. /\ TypeOK /\ HeaderInv /\ FilesInv /\ ProcessInv /\ header \in Headers
      /\ synced \in Nat /\ log \in Seq(Frame) /\ Len(log) \in Nat /\ synced \in 0..Len(log)
      /\ hist \in Seq(Frame) /\ Len(hist) \in Nat /\ Len(<<>>) = 0
  BY LenProperties, EmptySeq DEF IInv, TypeOK
<1>1. ASSUME header' \in {"written", "synced"}, synced' = synced, phase' # "create",
             header = "synced" => header' = "synced"
      PROVE  HeaderInv'
  BY <1>0, <1>1 DEF HeaderInv
<1>2. ASSUME header' = "synced", phase' # "create" PROVE HeaderInv'
  BY <1>2 DEF HeaderInv
<1>3. ASSUME UNCHANGED <<header, log, torn, synced>>, phase' # "create",
             (phase = "create" \/ ~Feeding) => ~Feeding'
      PROVE  HeaderInv'
  BY <1>0, <1>3 DEF HeaderInv
<1>4. ASSUME UNCHANGED <<header, synced>>, phase' # "create", Feeding, phase # "create"
      PROVE  HeaderInv'
  BY <1>0, <1>1, <1>4 DEF HeaderInv
<1>5. ASSUME ProcessGone PROVE phase' = "down" /\ ~Feeding' BY <1>5 DEF ProcessGone, Feeding
<1>6. ASSUME ProjectionError, Feeding PROVE phase' \in {"down", "ready"}
  BY <1>5, <1>6 DEF ProjectionError
<1>7. CASE \E n \in 1..env.maxMuts : StageChangelogOutbox(n)
  BY <1>4, <1>7 DEF StageChangelogOutbox, files, Feeding
<1>8. CASE AbortUpdate BY <1>0, <1>4, <1>8 DEF AbortUpdate, files, ProcessInv, Healthy
<1>9. CASE EngineCommit BY <1>0, <1>4, <1>9 DEF EngineCommit, ProcessInv, Healthy
<1>10. CASE AppendIntents BY <1>0, <1>4, <1>10 DEF AppendIntents, ProcessInv, Healthy
<1>11. CASE SyncChangelog BY <1>2, <1>11 DEF SyncChangelog, Synced, SyncPhases
<1>12. CASE CleanupChangelogOutbox
  BY <1>0, <1>4, <1>5, <1>12
  DEF CleanupChangelogOutbox, CleanupPhases, ProcessInv, Healthy
<1>13. CASE OpenAppendIntents BY <1>0, <1>4, <1>13 DEF OpenAppendIntents, ProcessInv, Healthy
<1>14. CASE ValidateConsumers
  BY <1>0, <1>4, <1>5, <1>14 DEF ValidateConsumers, files, ProcessInv, Healthy
<1>15. CASE WriteHeader BY <1>0, <1>1, <1>15 DEF WriteHeader, HeaderInv
<1>16. CASE SyncHeader BY <1>2, <1>16 DEF SyncHeader, Recover
<1>17. CASE EngineCommitError
  BY <1>0, <1>4, <1>17 DEF EngineCommitError, ProcessInv, Healthy
<1>18. CASE \E k \in 0..(env.maxMuts - 1), part \in BOOLEAN : AppendError(k, part)
  BY <1>0, <1>4, <1>6, <1>18 DEF AppendError, ProcessInv, Healthy
<1>19. CASE SyncError
  BY <1>0, <1>4, <1>6, <1>19 DEF SyncError, files, SyncPhases, ProcessInv, Healthy
<1>20. CASE CleanupError
  BY <1>0, <1>4, <1>6, <1>20 DEF CleanupError, CleanupPhases, ProcessInv, Healthy
<1>21. CASE OpenAppendError
  BY <1>0, <1>4, <1>6, <1>21 DEF OpenAppendError, ProcessInv, Healthy
<1>22. CASE CreateError
  <2>1. phase' = "down" /\ ~Feeding' BY <1>5, <1>22 DEF CreateError
  <2>2. UNCHANGED <<log, torn, synced>> BY <1>22 DEF CreateError
  <2>3. CASE phase = "create"
    <3>1. log = <<>> /\ ~torn /\ ~(synced > 0) BY <1>0, <2>3 DEF HeaderInv
    <3> QED BY <2>1, <2>2, <3>1 DEF HeaderInv
  <2>4. CASE phase = "createSync"
    <3>1. Feeding /\ phase # "create" BY <1>0, <2>4 DEF ProcessInv, Healthy
    <3>2. header \in {"written", "synced"} /\ (header = "synced" \/ ~(synced > 0))
      BY <1>0, <3>1 DEF HeaderInv
    <3>3. header' \in {header, "synced"} BY <1>22, <2>4 DEF CreateError
    <3> QED BY <2>1, <2>2, <3>2, <3>3 DEF HeaderInv
  <2> QED BY <1>22, <2>3, <2>4 DEF CreateError, CreatePhases
<1>23. CASE Close
  <2>1. UNCHANGED <<header, log, torn, synced>> /\ phase' \in {"down", "closeSync"}
        /\ (phase' = "closeSync" => Feeding)
    BY <1>5, <1>23 DEF Close, files, Feeding
  <2>2. phase # "create" BY <1>23 DEF Close
  <2> QED BY <1>3, <1>4, <2>1, <2>2 DEF Feeding
<1>24. CASE Kill
  <2>1. phase' = "down" /\ ~Feeding' /\ synced' = synced BY <1>5, <1>24 DEF Kill, Crash
  <2>2. CASE phase \in {"append", "openAppend"}
    <3>1. header' = header BY <1>24, <2>2 DEF Kill
    <3> QED BY <1>0, <1>4, <2>1, <2>2, <3>1 DEF ProcessInv, Healthy
  <2>3. CASE phase \notin {"append", "openAppend"}
    <3>1. PICK s \in InFlight : \E k \in 0..Len(s) :
             log' = log \o SubSeq(Frames(Len(hist), s), 1, k) /\ torn' \in {torn, k < Len(s)}
      BY <1>24 DEF Kill
    <3>2. s = <<>> BY <2>3 DEF InFlight
    <3>3. PICK k \in 0..Len(s) :
             log' = log \o SubSeq(Frames(Len(hist), s), 1, k) /\ torn' \in {torn, k < Len(s)}
      BY <3>1
    <3>4. k = 0 /\ ~(k < Len(s)) BY <1>0, <3>2
    <3>5. Extends(log, s, Len(log) + k, log')
      BY <1>0, <3>2, <3>3, EmptySeq, PartOfWrite
    <3>6. log = <<>> => log' = <<>>
      <4>1. log' \in Seq(Frame) /\ Len(log') = Len(log) BY <1>0, <3>4, <3>5 DEF Extends
      <4> QED BY <1>0, <4>1, EmptySeq
    <3>7. ~torn => ~torn' BY <3>3, <3>4
    <3>8. CASE phase = "create"
      <4>1. log = <<>> /\ ~torn /\ ~(synced > 0) BY <1>0, <3>8 DEF HeaderInv
      <4> QED BY <2>1, <3>6, <3>7, <4>1 DEF HeaderInv
    <3>9. CASE phase # "create"
      <4>1. header' = header BY <1>24, <3>9 DEF Kill
      <4> QED BY <1>0, <2>1, <3>6, <3>7, <4>1 DEF HeaderInv
    <3> QED BY <3>8, <3>9
  <2> QED BY <2>2, <2>3
<1>25. CASE PowerLoss
  <2>1. phase' = "down" /\ ~Feeding' BY <1>5, <1>25 DEF PowerLoss, Crash
  <2>2. CASE PrefixKept BY <1>2, <2>1, <2>2 DEF PrefixKept
  <2>3. CASE HeaderLost BY <2>1, <2>3 DEF HeaderLost, HeaderInv
  <2> QED BY <1>25, <2>2, <2>3 DEF PowerLoss
<1>26. CASE LoseSidecar
  <2>1. phase' = "down" /\ ~Feeding' /\ torn' = FALSE
    BY <1>26 DEF LoseSidecar, procVars, Feeding
  <2> QED BY <1>2, <1>26, <2>1 DEF LoseSidecar, HeaderInv
<1>27. CASE \E m \in env.modes : Open(m)
  <2>1. PICK m \in env.modes : Open(m) BY <1>27
  <2>2. CASE m # "off" /\ ~Readable
    BY <1>3, <2>1, <2>2 DEF Open, Feeding
  <2>3. CASE m = "off"
    BY <1>3, <2>1, <2>3 DEF Open, Feeding
  <2>4. CASE m # "off" /\ Readable /\ header = "none"
    <3>1. log = <<>> /\ ~torn /\ ~(synced > 0) BY <1>0, <2>4 DEF HeaderInv
    <3>2. log' = log /\ torn' = FALSE /\ header' = "none" /\ synced' = synced /\ phase' = "create"
      BY <2>1, <2>4, <3>1 DEF Open, TruncateIncompleteTail
    <3> QED BY <3>1, <3>2 DEF HeaderInv
  <2>5. CASE m # "off" /\ Readable /\ header # "none"
    <3>1. header \in {"written", "synced"} BY <1>0, <2>5 DEF Headers, Readable
    <3>2. phase' # "create" BY <2>1, <2>5 DEF Open, Recover
    <3>3. CASE torn BY <1>2, <2>1, <2>5, <3>2, <3>3 DEF Open, TruncateIncompleteTail
    <3>4. CASE ~torn BY <1>1, <2>1, <2>5, <3>1, <3>2, <3>4 DEF Open, TruncateIncompleteTail
    <3> QED BY <3>3, <3>4
  <2> QED BY <2>2, <2>3, <2>4, <2>5
<1>28. CASE \E w \in env.workers : Consume(w)
  BY <1>3, <1>28 DEF Consume, files, procVars, Feeding
<1>29. CASE \E w \in env.workers : AdvanceChangelogConsumer(w)
  BY <1>3, <1>29 DEF AdvanceChangelogConsumer, Feeding
<1>30. CASE DeleteChangelogConsumer BY <1>3, <1>30 DEF DeleteChangelogConsumer, Feeding
<1>31. CASE UNCHANGED vars
  BY <1>0, <1>31 DEF vars, files, procVars, HeaderInv, Feeding
<1> QED BY <1>7, <1>8, <1>9, <1>10, <1>11, <1>12, <1>13, <1>14, <1>15, <1>16, <1>17, <1>18,
           <1>19, <1>20, <1>21, <1>22, <1>23, <1>24, <1>25, <1>26, <1>27, <1>28, <1>29, <1>30,
           <1>31
        DEF Next, Progress, Error

(* What a write under way holds: intents of the outbox, each at a place of *)
(* the file no earlier than its rank, and behind every earlier one.        *)
LEMMA AppendRank ==
  ASSUME IInv, phase = "append"
  PROVE  /\ tx.intents \in Seq(Pair) /\ Len(tx.intents) \in Nat
         /\ \A k \in StagedKeys : \E i \in 1..Len(tx.intents) : k = <<tx.id, i>>
         /\ \A i \in 1..Len(tx.intents) :
              /\ <<tx.id, i>> \in keys
              /\ prim.outbox[<<tx.id, i>>] = tx.intents[i]
              /\ tx.intents[i] = <<updates, i>>
              /\ synced + Rank(keys, <<tx.id, i>>) = Len(log) + i
         /\ \A k \in keys \ StagedKeys : synced + Rank(keys, k) <= Len(log)
<1> DEFINE n == Len(tx.intents)
           K == keys \ StagedKeys
<1>0. TypeOK /\ TxInv /\ KeysInv /\ SizeInv BY DEF IInv
<1>1. /\ tx.intents \in Seq(Pair) /\ n \in Nat /\ DOMAIN tx.intents = 1..n
      /\ tx.id \in Nat /\ keys \in SUBSET Pair /\ prim.head \in Nat
      /\ IsFiniteSet(keys) /\ synced \in Nat /\ Len(log) \in Nat
  BY <1>0, PrimaryType, LenProperties DEF TypeOK, Transaction, KeysInv
<1>2. /\ tx.id = prim.head /\ StagedKeys \subseteq keys /\ tx.intents # <<>>
      /\ \A i \in 1..n : tx.intents[i] = <<updates, i>> /\ prim.outbox[<<tx.id, i>>] = tx.intents[i]
      /\ \A k \in K : k[1] < tx.id
  BY <1>0, <1>1 DEF TxInv
<1>3. n # 0 /\ 1 \in 1..n BY <1>1, <1>2, EmptySeq
<1>4. StagedKeys = KeysOf(tx.id, n) /\ \A i \in 1..n : <<tx.id, i>> \in StagedKeys
  BY <1>1 DEF StagedKeys, KeysOf
<1>5. tx.id \in Nat \ {0} BY <1>1, <1>2, <1>3, <1>4 DEF Pair
<1>6. \A k \in StagedKeys : \E i \in 1..n : k = <<tx.id, i>> BY <1>1 DEF StagedKeys
<1>7. K \in SUBSET Pair /\ IsFiniteSet(K) BY <1>1, FS_Subset
<1>8. /\ Cardinality(K \cup KeysOf(tx.id, n)) = Cardinality(K) + n
      /\ \A k \in K : Rank(K \cup KeysOf(tx.id, n), k) = Rank(K, k)
      /\ \A i \in 1..n : Rank(K \cup KeysOf(tx.id, n), <<tx.id, i>>) = Cardinality(K) + i
  <2> HIDE DEF K, n
  <2> QED BY <1>1, <1>2, <1>5, <1>7, RankStaged
<1>9. K \cup KeysOf(tx.id, n) = keys BY <1>2, <1>4
<1> HIDE DEF K, n
<1>10. Cardinality(K) \in Nat BY <1>7, FS_CardinalityType
<1>11. Len(log) + n = synced + Cardinality(keys) BY <1>0 DEF SizeInv, n
<1>12. Len(log) = synced + Cardinality(K)
  <2>1. Cardinality(keys) = Cardinality(K) + n BY <1>8, <1>9
  <2> QED BY <1>1, <1>10, <1>11, <2>1
<1>13. ASSUME NEW i \in 1..n PROVE synced + Rank(keys, <<tx.id, i>>) = Len(log) + i
  <2>1. Rank(keys, <<tx.id, i>>) = Cardinality(K) + i BY <1>8, <1>9
  <2> QED BY <1>1, <1>10, <1>12, <2>1
<1>14. ASSUME NEW k \in K PROVE synced + Rank(keys, k) <= Len(log)
  <2>1. Rank(keys, k) = Rank(K, k) BY <1>8, <1>9
  <2>2. Rank(K, k) \in 1..Cardinality(K) BY <1>7, RankRange
  <2> QED BY <1>1, <1>10, <1>12, <2>1, <2>2
<1>15. \A i \in 1..n : <<tx.id, i>> \in keys BY <1>2, <1>4
<1> QED BY <1>1, <1>2, <1>6, <1>13, <1>14, <1>15 DEF K, n

(* What a write under way carries comes from the outbox, at the place the  *)
(* mirror gives it, and in commit order.                                   *)
LEMMA InFlightFacts ==
  ASSUME IInv, NEW s \in InFlight \cup {<<>>}
  PROVE  /\ s \in Seq(Pair) /\ Len(s) \in Nat
         /\ Len(s) # 0 => phase \in {"append", "openAppend"}
         /\ \A j \in 1..Len(s) :
              /\ \E k \in keys : prim.outbox[k] = s[j] /\ synced + Rank(keys, k) <= Len(log) + j
              /\ \A k \in keys : KeyLess(prim.outbox[k], s[j]) =>
                   \/ InLog(prim.outbox[k])
                   \/ \E i \in 1..(j - 1) : s[i] = prim.outbox[k]
<1>0. /\ TypeOK /\ KeysInv /\ ProjectionInv /\ keys \in SUBSET Pair /\ IsFiniteSet(keys)
      /\ prim.outbox \in [keys -> Pair] /\ updates \in Nat
      /\ Len(log) \in Nat /\ synced \in 0..Len(log)
  BY PrimaryType, LenProperties DEF IInv, TypeOK, KeysInv
<1>1. CASE s = <<>>
  <2>1. s \in Seq(Pair) /\ Len(s) = 0 BY <1>1, EmptySeq
  <2> QED BY <2>1
<1>2. CASE s # <<>> /\ phase = "append"
  <2>1. s = tx.intents BY <1>2 DEF InFlight
  <2>2. /\ s \in Seq(Pair) /\ Len(s) \in Nat
        /\ \A k \in StagedKeys : \E i \in 1..Len(s) : k = <<tx.id, i>>
        /\ \A i \in 1..Len(s) :
              /\ <<tx.id, i>> \in keys
              /\ prim.outbox[<<tx.id, i>>] = s[i]
              /\ s[i] = <<updates, i>>
              /\ synced + Rank(keys, <<tx.id, i>>) = Len(log) + i
    BY <1>2, <2>1, AppendRank
  <2>3. ASSUME NEW j \in 1..Len(s)
        PROVE  \E k \in keys : prim.outbox[k] = s[j] /\ synced + Rank(keys, k) <= Len(log) + j
    <3>1. Len(log) + j <= Len(log) + j BY <1>0, <2>2
    <3> QED BY <2>2, <3>1
  <2>4. ASSUME NEW j \in 1..Len(s), NEW k \in keys, KeyLess(prim.outbox[k], s[j])
        PROVE  \/ InLog(prim.outbox[k])
               \/ \E i \in 1..(j - 1) : s[i] = prim.outbox[k]
    <3>1. CASE k \notin StagedKeys BY <1>0, <1>2, <3>1 DEF ProjectionInv
    <3>2. CASE k \in StagedKeys
      <4>1. PICK i \in 1..Len(s) : k = <<tx.id, i>> BY <2>2, <3>2
      <4>2. prim.outbox[k] = s[i] /\ s[i] = <<updates, i>> /\ s[j] = <<updates, j>>
        BY <2>2, <4>1
      <4>3. i < j BY <1>0, <2>2, <2>4, <4>2 DEF KeyLess
      <4>4. i \in 1..(j - 1) BY <2>2, <4>3
      <4> QED BY <4>2, <4>4
    <3> QED BY <3>1, <3>2
  <2> QED BY <1>2, <2>2, <2>3, <2>4
<1>3. CASE s # <<>> /\ phase # "append"
  <2>1. phase = "openAppend" /\ s \in PendingIntents BY <1>3 DEF InFlight
  <2>2. s \in Seq(Pair) /\ Len(s) = Cardinality(keys) /\ DOMAIN s = 1..Len(s)
        /\ \E ks \in AscendRange(keys) : \A j \in 1..Len(s) : s[j] = prim.outbox[ks[j]]
    BY <1>0, <2>1, Pending
  <2>3. PICK ks \in AscendRange(keys) : \A j \in 1..Len(s) : s[j] = prim.outbox[ks[j]] BY <2>2
  <2>4. /\ Cardinality(keys) \in Nat /\ ks \in [1..Len(s) -> keys]
        /\ \A i, j \in 1..Len(s) : i < j <=> KeyLess(ks[i], ks[j])
        /\ \A k \in keys : \E j \in 1..Len(s) : ks[j] = k
        /\ \A j \in 1..Len(s) : Rank(keys, ks[j]) = j
    BY <1>0, <2>2, Enumeration
  <2>5. ASSUME NEW j \in 1..Len(s)
        PROVE  \E k \in keys : prim.outbox[k] = s[j] /\ synced + Rank(keys, k) <= Len(log) + j
    <3>1. ks[j] \in keys /\ prim.outbox[ks[j]] = s[j] /\ Rank(keys, ks[j]) = j BY <2>3, <2>4
    <3>2. synced + j <= Len(log) + j BY <1>0, <2>2, <2>4
    <3> QED BY <3>1, <3>2
  <2>6. ASSUME NEW j \in 1..Len(s), NEW k \in keys, KeyLess(prim.outbox[k], s[j])
        PROVE  \E i \in 1..(j - 1) : s[i] = prim.outbox[k]
    <3>1. PICK i \in 1..Len(s) : ks[i] = k BY <2>4
    <3>2. prim.outbox[k] \in Pair /\ s[j] \in Pair /\ s[j] = prim.outbox[ks[j]] /\ ks[j] \in keys
          /\ s[i] = prim.outbox[k]
      BY <1>0, <2>3, <2>4, <3>1
    <3>3. i # j BY <2>6, <3>2, KeyOrder
    <3>4. ~(j < i)
      <4> SUFFICES ASSUME j < i PROVE FALSE
        OBVIOUS
      <4>1. KeyLess(ks[j], k) BY <2>4, <3>1
      <4>2. KeyLess(s[j], prim.outbox[k]) BY <1>0, <3>2, <4>1 DEF KeysInv
      <4> QED BY <2>6, <3>2, <4>2, KeyOrder
    <3>5. i \in 1..(j - 1) BY <2>2, <2>4, <3>3, <3>4
    <3> QED BY <3>2, <3>5
  <2>7. Len(s) \in Nat BY <2>2, <2>4
  <2> QED BY <2>1, <2>2, <2>5, <2>6, <2>7
<1> QED BY <1>1, <1>2, <1>3

(* The frames after a step: those that were there, then those written.     *)
Entries(s, keep) ==
  /\ keep \in Nat /\ synced <= keep /\ keep <= Len(log) + Len(s)
  /\ DOMAIN log' = 1..keep /\ Len(log') = keep
  /\ synced' \in Nat /\ synced <= synced' /\ synced' <= keep
  /\ losses' = losses
  /\ \A i \in 1..keep : i <= Len(log) => i \in DOMAIN log /\ log'[i] = log[i]
  /\ \A i \in 1..keep : ~(i <= Len(log)) =>
       i - Len(log) \in 1..Len(s) /\ log'[i].intent = s[i - Len(log)]

(* Every step but the loss of the sidecar extends or cuts the file like    *)
(* this.                                                                   *)
LEMMA EntriesStep ==
  ASSUME IInv, [Next]_vars, ~LoseSidecar
  PROVE  \E s \in InFlight \cup {<<>>}, keep \in Nat : Entries(s, keep)
<1>0. log \in Seq(Frame) /\ Len(log) \in Nat /\ DOMAIN log = 1..Len(log) /\ synced \in 0..Len(log)
  BY LenProperties DEF IInv, TypeOK
<1>1. PICK s \in InFlight \cup {<<>>}, keep \in Nat : Writing(s, keep) BY LogStep
<1>2. Len(s) \in Nat BY InFlightFacts
<1>3. /\ keep \in synced..(Len(log) + Len(s)) /\ synced' \in synced..keep /\ losses' = losses
      /\ log' \in Seq(Frame) /\ Len(log') = keep
      /\ \A i \in 1..keep :
           log'[i] = IF i <= Len(log) THEN log[i] ELSE [seq |-> i, intent |-> s[i - Len(log)]]
  BY <1>1 DEF Writing, Extends
<1>4. DOMAIN log' = 1..keep BY <1>3, LenProperties
<1>5. ASSUME NEW i \in 1..keep, i <= Len(log) PROVE i \in DOMAIN log /\ log'[i] = log[i]
  BY <1>0, <1>3, <1>5
<1>6. ASSUME NEW i \in 1..keep, ~(i <= Len(log))
      PROVE  i - Len(log) \in 1..Len(s) /\ log'[i].intent = s[i - Len(log)]
  <2>1. i - Len(log) \in 1..Len(s) BY <1>0, <1>2, <1>3, <1>6
  <2> QED BY <1>3, <1>6, <2>1
<1>7. /\ synced <= keep /\ keep <= Len(log) + Len(s)
      /\ synced' \in Nat /\ synced <= synced' /\ synced' <= keep
  BY <1>0, <1>2, <1>3
<1> QED BY <1>3, <1>4, <1>5, <1>6, <1>7 DEF Entries

(* Where no loss has happened after a step, none happened in it.           *)
LEMMA NoLossYet ==
  ASSUME IInv, [Next]_vars, losses' = 0
  PROVE  losses = 0 /\ ~LoseSidecar
<1>1. losses \in Nat BY DEF IInv, TypeOK
<1>2. ~LoseSidecar BY <1>1 DEF LoseSidecar
<1>3. losses' = losses BY <1>2, LogStep DEF Writing
<1> QED BY <1>2, <1>3

(* The mutations only grow. *)
LEMMA MutationsGrow ==
  ASSUME IInv, [Next]_vars
  PROVE  \A i \in DOMAIN prim.mutations :
           i \in DOMAIN prim'.mutations /\ prim'.mutations[i] = prim.mutations[i]
<1>1. CASE prim'.mutations = prim.mutations BY <1>1
<1>2. CASE Staging
  <2> DEFINE m == Len(prim.mutations)
             n == Len(tx.intents)
  <2>1. /\ n \in Nat /\ m \in Nat
        /\ prim'.mutations \in Seq(Pair) /\ Len(prim'.mutations) = m + n
        /\ \A i \in 1..m : prim'.mutations[i] = prim.mutations[i]
    BY <1>2, StagingFacts
  <2>2. DOMAIN prim.mutations = 1..m BY PrimaryType, LenProperties DEF IInv
  <2>3. DOMAIN prim'.mutations = 1..(m + n) BY <2>1, LenProperties
  <2> HIDE DEF m, n
  <2>4. \A i \in 1..m : i \in 1..(m + n) BY <2>1
  <2> QED BY <2>1, <2>2, <2>3, <2>4
<1> QED BY <1>1, <1>2, OutboxStep

(* A frame is written only for a mutation the primary has committed.       *)
LEMMA PhantomStep ==
  ASSUME IInv, [Next]_vars
  PROVE  NoPhantomFrame'
<1>0. NoPhantomFrame /\ KeysInv /\ log \in Seq(Frame) /\ Len(log) \in Nat /\ DOMAIN log = 1..Len(log)
  BY LenProperties DEF IInv, TypeOK
<1>1. ASSUME NEW i \in DOMAIN log
      PROVE  \E j \in DOMAIN prim'.mutations : prim'.mutations[j] = log[i].intent
  <2>1. PICK j \in DOMAIN prim.mutations : prim.mutations[j] = log[i].intent
    BY <1>0 DEF NoPhantomFrame
  <2> QED BY <2>1, MutationsGrow
<1>2. CASE LoseSidecar
  <2>1. log' \in Seq(Frame) /\ Len(log') \in Nat /\ Len(log') <= Len(log)
        /\ \A i \in 1..Len(log') : log'[i] = log[i]
    BY <1>2, LossFacts
  <2>2. DOMAIN log' = 1..Len(log') BY <2>1, LenProperties
  <2>3. \A i \in DOMAIN log' : i \in DOMAIN log /\ log'[i] = log[i] BY <1>0, <2>1, <2>2
  <2> QED BY <1>1, <2>3 DEF NoPhantomFrame
<1>3. CASE ~LoseSidecar
  <2>1. PICK s \in InFlight \cup {<<>>}, keep \in Nat : Entries(s, keep) BY <1>3, EntriesStep
  <2>2. ASSUME NEW i \in 1..keep
        PROVE  \E j \in DOMAIN prim'.mutations : prim'.mutations[j] = log'[i].intent
    <3>1. CASE i <= Len(log)
      <4>1. i \in DOMAIN log /\ log'[i] = log[i] BY <2>1, <3>1 DEF Entries
      <4> QED BY <1>1, <4>1
    <3>2. CASE ~(i <= Len(log))
      <4>1. i - Len(log) \in 1..Len(s) /\ log'[i].intent = s[i - Len(log)]
        BY <2>1, <3>2 DEF Entries
      <4>2. PICK k \in keys : prim.outbox[k] = s[i - Len(log)] BY <4>1, InFlightFacts
      <4>3. PICK j \in DOMAIN prim.mutations : prim.mutations[j] = prim.outbox[k]
        BY <1>0 DEF KeysInv
      <4> QED BY <4>1, <4>2, <4>3, MutationsGrow
    <3> QED BY <3>1, <3>2
  <2>3. DOMAIN log' = 1..keep BY <2>1 DEF Entries
  <2> QED BY <2>2, <2>3 DEF NoPhantomFrame
<1> QED BY <1>2, <1>3

(* An entry leaves the outbox only when its frame is on the medium, and a  *)
(* frame that is on the medium stays.                                      *)
LEMMA LostStep ==
  ASSUME IInv, [Next]_vars
  PROVE  NoMutationLost'
<1> SUFFICES ASSUME losses' = 0, NEW i \in DOMAIN prim'.mutations
             PROVE  \/ \E k \in DOMAIN prim'.outbox : prim'.outbox[k] = prim'.mutations[i]
                    \/ \E h \in 1..synced' : log'[h].intent = prim'.mutations[i]
  BY DEF NoMutationLost, InOutbox, OnMedium
<1>0. /\ losses = 0 /\ ~LoseSidecar /\ NoMutationLost /\ FilesInv /\ ProjectionInv /\ ProcessInv
      /\ Len(log) \in Nat /\ DOMAIN log = 1..Len(log) /\ synced \in 0..Len(log)
  BY NoLossYet, LenProperties DEF IInv, TypeOK
<1>1. PICK s \in InFlight \cup {<<>>}, keep \in Nat : Entries(s, keep) BY <1>0, EntriesStep
<1>2. ASSUME NEW h \in 1..synced
      PROVE  h \in 1..synced' /\ log'[h] = log[h]
  <2>1. h \in 1..keep /\ h <= Len(log) /\ h \in 1..synced' BY <1>0, <1>1 DEF Entries
  <2> QED BY <1>1, <2>1 DEF Entries
<1>3. ASSUME NEW m, OnMedium(m) PROVE \E h \in 1..synced' : log'[h].intent = m
  <2>1. PICK h \in 1..synced : log[h].intent = m BY <1>3 DEF OnMedium
  <2> QED BY <1>2, <2>1
<1>6. ASSUME i \in DOMAIN prim.mutations, OnMedium(prim.mutations[i])
      PROVE  \E h \in 1..synced' : log'[h].intent = prim'.mutations[i]
  <2>1. prim'.mutations[i] = prim.mutations[i] BY <1>6, MutationsGrow
  <2> QED BY <1>3, <1>6, <2>1
<1>7. CASE prim'.outbox = prim.outbox /\ prim'.mutations = prim.mutations
  <2>1. CASE OnMedium(prim.mutations[i]) BY <1>6, <1>7, <2>1
  <2>2. CASE InOutbox(prim.mutations[i]) BY <1>7, <2>2 DEF InOutbox
  <2> QED BY <1>0, <1>7, <2>1, <2>2 DEF NoMutationLost
<1>8. CASE Staging
  <2> DEFINE m == Len(prim.mutations)
             n == Len(tx.intents)
  <2>1. /\ n \in Nat /\ m \in Nat
        /\ StagedKeys = KeysOf(tx.id, n)
        /\ DOMAIN prim'.outbox = keys \cup StagedKeys
        /\ \A k \in keys : prim'.outbox[k] = prim.outbox[k]
        /\ \A j \in 1..n : prim'.outbox[<<tx.id, j>>] = <<updates, j>>
        /\ prim'.mutations \in Seq(Pair) /\ Len(prim'.mutations) = m + n
        /\ \A j \in 1..m : prim'.mutations[j] = prim.mutations[j]
        /\ \A j \in 1..n : prim'.mutations[m + j] = <<updates, j>>
    BY <1>8, StagingFacts
  <2>2. DOMAIN prim.mutations = 1..m BY PrimaryType, LenProperties DEF IInv
  <2>3. DOMAIN prim'.mutations = 1..(m + n) BY <2>1, LenProperties
  <2>4. \A j \in 1..n : <<tx.id, j>> \in DOMAIN prim'.outbox BY <2>1 DEF KeysOf
  <2> HIDE DEF m, n
  <2>5. CASE i <= m
    <3>1. i \in DOMAIN prim.mutations /\ prim'.mutations[i] = prim.mutations[i]
      BY <2>1, <2>2, <2>3, <2>5
    <3>2. CASE OnMedium(prim.mutations[i]) BY <1>6, <3>1, <3>2
    <3>3. CASE InOutbox(prim.mutations[i])
      <4>1. PICK k \in keys : prim.outbox[k] = prim.mutations[i] BY <3>3 DEF InOutbox, keys
      <4> QED BY <2>1, <3>1, <4>1
    <3> QED BY <1>0, <3>1, <3>2, <3>3 DEF NoMutationLost
  <2>6. CASE ~(i <= m)
    <3> DEFINE j == i - m
    <3>1. j \in 1..n /\ m + j = i BY <2>1, <2>3, <2>6
    <3> HIDE DEF j
    <3>2. prim'.mutations[i] = <<updates, j>> BY <2>1, <3>1
    <3>3. <<tx.id, j>> \in DOMAIN prim'.outbox /\ prim'.outbox[<<tx.id, j>>] = <<updates, j>>
      BY <2>1, <2>4, <3>1
    <3> QED BY <3>2, <3>3
  <2> QED BY <2>5, <2>6
<1>9. CASE Cleaning /\ prim'.mutations = prim.mutations
  <2>1. Healthy /\ synced = Len(log) /\ phase \notin {"append", "openAppend", "create", "createSync"}
    BY <1>0, <1>9 DEF Cleaning, CleanupPhases, ProcessInv, FilesInv
  <2>2. CASE OnMedium(prim.mutations[i]) BY <1>6, <1>9, <2>2
  <2>3. CASE InOutbox(prim.mutations[i])
    <3>1. PICK k \in keys : prim.outbox[k] = prim.mutations[i] BY <2>3 DEF InOutbox, keys
    <3>2. InLog(prim.mutations[i]) BY <1>0, <2>1, <3>1 DEF ProjectionInv
    <3>3. OnMedium(prim.mutations[i]) BY <1>0, <2>1, <3>2 DEF InLog, OnMedium
    <3> QED BY <1>6, <1>9, <3>3
  <2> QED BY <1>0, <1>9, <2>2, <2>3 DEF NoMutationLost
<1> QED BY <1>7, <1>8, <1>9, OutboxStep

(* A mutation that is announced for the first time comes after all earlier *)
(* ones: they are on the medium, or before it in the same write.           *)
LEMMA OrderStep ==
  ASSUME IInv, [Next]_vars
  PROVE  CommitOrder'
<1> SUFFICES ASSUME losses' = 0,
                    NEW i \in DOMAIN log', NEW j \in DOMAIN prim'.mutations,
                    log'[i].intent = prim'.mutations[j], NEW e \in 1..(j - 1)
             PROVE  \E h \in 1..(i - 1) : log'[h].intent = prim'.mutations[e]
  BY DEF CommitOrder
<1>0. /\ losses = 0 /\ ~LoseSidecar
      /\ NoMutationLost /\ CommitOrder /\ NoPhantomFrame /\ MutationsInv /\ MutationsInv'
      /\ Len(log) \in Nat /\ DOMAIN log = 1..Len(log) /\ synced \in 0..Len(log)
      /\ prim.mutations \in Seq(Pair) /\ keys \in SUBSET Pair /\ prim.outbox \in [keys -> Pair]
      /\ Len(prim.mutations) \in Nat /\ DOMAIN prim.mutations = 1..Len(prim.mutations)
  BY NoLossYet, LenProperties, PrimaryType, MutationsStep DEF IInv, TypeOK
<1>1. PICK s \in InFlight \cup {<<>>}, keep \in Nat : Entries(s, keep) BY <1>0, EntriesStep
<1>2. i \in 1..keep BY <1>1 DEF Entries
<1>3. prim'.mutations \in Seq(Pair) BY OutboxStep DEF Primary
<1>4. /\ Len(prim'.mutations) \in Nat /\ DOMAIN prim'.mutations = 1..Len(prim'.mutations)
      /\ \A a \in DOMAIN prim'.mutations : prim'.mutations[a] \in Pair
  BY <1>3, LenProperties, ElementOfSeq
<1>5. e \in DOMAIN prim'.mutations /\ e < j BY <1>4
<1>6. KeyLess(prim'.mutations[e], prim'.mutations[j]) BY <1>0, <1>5 DEF MutationsInv, KeyLess
<1>7. CASE i <= Len(log)
  <2>1. i \in DOMAIN log /\ log'[i] = log[i] BY <1>1, <1>2, <1>7 DEF Entries
  <2>2. PICK j0 \in DOMAIN prim.mutations : prim.mutations[j0] = log[i].intent
    BY <1>0, <2>1 DEF NoPhantomFrame
  <2>3. j0 \in DOMAIN prim'.mutations /\ prim'.mutations[j0] = prim'.mutations[j]
    BY <2>1, <2>2, MutationsGrow
  <2>4. j0 = j
    <3>1. CASE j0 < j
      <4>1. KeyLess(prim'.mutations[j0], prim'.mutations[j])
        BY <1>0, <2>3, <3>1 DEF MutationsInv, KeyLess
      <4> QED BY <1>4, <2>3, <4>1, KeyOrder
    <3>2. CASE j < j0
      <4>1. KeyLess(prim'.mutations[j], prim'.mutations[j0])
        BY <1>0, <2>3, <3>2 DEF MutationsInv, KeyLess
      <4> QED BY <1>4, <2>3, <4>1, KeyOrder
    <3>3. j0 \in Nat /\ j \in Nat BY <1>4, <2>3
    <3> QED BY <3>1, <3>2, <3>3
  <2>5. e \in DOMAIN prim.mutations /\ prim'.mutations[e] = prim.mutations[e]
    <3>1. e \in DOMAIN prim.mutations BY <1>0, <2>2, <2>4
    <3> QED BY <3>1, MutationsGrow
  <2>6. PICK h \in 1..(i - 1) : log[h].intent = prim.mutations[e]
    BY <1>0, <2>1, <2>2, <2>4 DEF CommitOrder
  <2>7. h \in 1..keep /\ h <= Len(log) BY <1>0, <1>1, <1>2, <1>7 DEF Entries
  <2>8. log'[h] = log[h] BY <1>1, <2>7 DEF Entries
  <2> QED BY <2>5, <2>6, <2>8
<1>8. CASE ~(i <= Len(log))
  <2> DEFINE jj == i - Len(log)
  <2>1. jj \in 1..Len(s) /\ log'[i].intent = s[jj] BY <1>1, <1>2, <1>8 DEF Entries
  <2>2. Len(s) \in Nat /\ phase \in {"append", "openAppend"} BY <2>1, InFlightFacts
  <2>3. prim'.outbox = prim.outbox /\ prim'.mutations = prim.mutations
    BY <2>2, OutboxStep DEF Staging, Cleaning, CleanupPhases
  <2>4. \A h \in 1..Len(log) : h \in 1..(i - 1) /\ log'[h] = log[h]
    <3> TAKE h \in 1..Len(log)
    <3>1. h \in 1..keep /\ h <= Len(log) /\ h \in 1..(i - 1)
      BY <1>0, <1>1, <1>2, <1>8 DEF Entries
    <3> QED BY <1>1, <3>1 DEF Entries
  <2>5. CASE OnMedium(prim.mutations[e])
    <3>1. PICK h \in 1..synced : log[h].intent = prim.mutations[e] BY <2>5 DEF OnMedium
    <3>2. h \in 1..Len(log) BY <1>0
    <3> QED BY <2>3, <2>4, <3>1, <3>2
  <2>6. CASE InOutbox(prim.mutations[e])
    <3>1. PICK k \in keys : prim.outbox[k] = prim.mutations[e] BY <2>6 DEF InOutbox, keys
    <3>2. KeyLess(prim.outbox[k], s[jj]) BY <1>6, <2>1, <2>3, <3>1
    <3>3. InLog(prim.outbox[k]) \/ \E h \in 1..(jj - 1) : s[h] = prim.outbox[k]
      BY <2>1, <3>2, InFlightFacts
    <3>4. CASE InLog(prim.outbox[k])
      BY <1>0, <2>3, <2>4, <3>1, <3>4 DEF InLog
    <3>5. CASE \E h \in 1..(jj - 1) : s[h] = prim.outbox[k]
      <4>1. PICK h \in 1..(jj - 1) : s[h] = prim.outbox[k] BY <3>5
      <4> DEFINE g == Len(log) + h
      <4>2. g \in 1..keep /\ ~(g <= Len(log)) /\ g \in 1..(i - 1) /\ g - Len(log) = h
        BY <1>0, <1>1, <1>2, <1>8 DEF Entries
      <4> HIDE DEF g
      <4>3. log'[g].intent = s[g - Len(log)] BY <1>1, <4>2 DEF Entries
      <4> QED BY <2>3, <3>1, <4>1, <4>2, <4>3
    <3> QED BY <3>3, <3>4, <3>5
  <2>7. e \in DOMAIN prim.mutations BY <1>5, <2>3
  <2> QED BY <1>0, <2>5, <2>6, <2>7 DEF NoMutationLost
<1> QED BY <1>7, <1>8

(* Where the outbox is not written to and nothing is appended, what is in  *)
(* the file stays there.                                                   *)
LEMMA ProjectionStep ==
  ASSUME IInv, [Next]_vars
  PROVE  ProjectionInv'
<1>0. TypeOK /\ ProjectionInv /\ ProcessInv /\ TxInv /\ FilesInv
      /\ log \in Seq(Frame) /\ Len(log) \in Nat /\ DOMAIN log = 1..Len(log)
      /\ keys \in SUBSET Pair /\ IsFiniteSet(keys)
  BY LenProperties, PrimaryType DEF IInv, TypeOK, KeysInv
<1>1. ASSUME phase' = "down" \/ mode' = "off" \/ (phase' = "ready" /\ recoveryRequired'),
             phase' \notin OpenPhases \cup {"append"}
      PROVE  ProjectionInv'
  BY <1>1 DEF ProjectionInv, Healthy, Feeding, OpenPhases
<1>2. ASSUME ProcessGone PROVE ProjectionInv' BY <1>1, <1>2 DEF ProcessGone, OpenPhases
<1>3. ASSUME ProjectionError PROVE ProjectionInv'
  BY <1>1, <1>2, <1>3 DEF ProjectionError, OpenPhases
<1>4. ASSUME keys' = {}, phase' \in {"ready", "validate"} PROVE ProjectionInv'
  BY <1>4 DEF ProjectionInv
<1>5. ASSUME prim'.outbox = prim.outbox, log' = log,
             Healthy, phase \in {"ready", "staged"} \/ phase' \notin {"ready", "staged"},
             phase \notin {"append", "openAppend", "create", "createSync"},
             mode' = mode, tx' = tx \/ phase' \notin {"sync", "cleanup"},
             phase' \in {"ready", "staged", "flushSync", "closeSync"} \cup CleanupPhases,
             phase' = "cleanup" => phase \in {"sync", "cleanup"}
      PROVE  ProjectionInv'
  BY <1>0, <1>5 DEF ProjectionInv, Healthy, Feeding, keys, StagedKeys, InLog, CleanupPhases
<1>6. CASE \E n \in 1..env.maxMuts : StageChangelogOutbox(n)
  BY <1>0, <1>5, <1>6 DEF StageChangelogOutbox, Healthy, Feeding, files
<1>7. CASE AbortUpdate
  BY <1>0, <1>5, <1>7 DEF AbortUpdate, files, ProcessInv
<1>8. CASE EngineCommit
  <2>1. Staging /\ tx' = tx /\ mode' = mode /\ log' = log /\ phase' = "append" /\ Healthy
    BY <1>0, <1>8 DEF EngineCommit, Staging, ProcessInv
  <2>2. /\ DOMAIN prim'.outbox = keys \cup StagedKeys
        /\ \A k \in keys : prim'.outbox[k] = prim.outbox[k]
    BY <2>1, StagingFacts
  <2>3. StagedKeys' = StagedKeys /\ keys' = keys \cup StagedKeys
    BY <2>1, <2>2 DEF StagedKeys, keys
  <2>4. \A k \in keys' \ StagedKeys' : InLog(prim.outbox[k]) /\ prim'.outbox[k] = prim.outbox[k]
    BY <1>0, <2>1, <2>2, <2>3 DEF ProjectionInv, Staging
  <2>5. mode = "eager" => keys = {} BY <1>0, <2>1 DEF ProjectionInv, Staging
  <2> QED BY <2>1, <2>3, <2>4, <2>5 DEF ProjectionInv, InLog, Healthy, Feeding
<1>9. CASE AppendIntents
  <2>1. /\ prim' = prim /\ mode' = mode /\ Healthy /\ phase = "append" /\ hist = log
        /\ log' = log \o Frames(Len(log), tx.intents)
        /\ phase' \in {"ready", "flushSync", "sync"}
        /\ phase' = "sync" => tx' = tx
        /\ phase' # "sync" => mode = "lazy"
    BY <1>0, <1>9 DEF AppendIntents, ProcessInv, FilesInv
  <2>2. /\ tx.intents \in Seq(Pair) /\ Len(tx.intents) \in Nat
        /\ \A k \in StagedKeys : \E i \in 1..Len(tx.intents) : k = <<tx.id, i>>
        /\ \A i \in 1..Len(tx.intents) : prim.outbox[<<tx.id, i>>] = tx.intents[i]
    BY <2>1, AppendRank
  <2>3. log' \in Seq(Frame) /\ Extends(log, tx.intents, Len(log) + Len(tx.intents), log')
    BY <1>0, <2>1, <2>2, WrittenWhole
  <2>4. DOMAIN log' = 1..(Len(log) + Len(tx.intents)) BY <2>3, LenProperties DEF Extends
  <2>5. ASSUME NEW k \in keys PROVE \E i \in DOMAIN log' : log'[i].intent = prim.outbox[k]
    <3>1. CASE k \notin StagedKeys
      <4>1. PICK i \in DOMAIN log : log[i].intent = prim.outbox[k]
        BY <1>0, <2>1, <3>1 DEF ProjectionInv, InLog
      <4>2. i \in 1..(Len(log) + Len(tx.intents)) /\ i <= Len(log) BY <1>0, <2>2
      <4>3. log'[i] = log[i] BY <2>3, <4>2 DEF Extends
      <4> QED BY <2>4, <4>1, <4>2, <4>3
    <3>2. CASE k \in StagedKeys
      <4>1. PICK i \in 1..Len(tx.intents) : k = <<tx.id, i>> BY <2>2, <3>2
      <4> DEFINE g == Len(log) + i
      <4>2. g \in 1..(Len(log) + Len(tx.intents)) /\ ~(g <= Len(log)) /\ g - Len(log) = i
        BY <1>0, <2>2
      <4> HIDE DEF g
      <4>3. log'[g] = [seq |-> g, intent |-> tx.intents[g - Len(log)]] BY <2>3, <4>2 DEF Extends
      <4>4. log'[g].intent = tx.intents[i] BY <4>2, <4>3
      <4> QED BY <2>2, <2>4, <4>1, <4>2, <4>4
    <3> QED BY <3>1, <3>2
  <2>6. keys' = keys BY <2>1 DEF keys
  <2>7. \A k \in keys' : InLog(prim.outbox[k])' BY <2>1, <2>5, <2>6 DEF InLog
  <2>8. phase' = "sync" /\ mode = "eager" => keys' = StagedKeys'
    BY <1>0, <2>1, <2>6 DEF ProjectionInv, StagedKeys
  <2> QED BY <2>1, <2>7, <2>8 DEF ProjectionInv, Healthy, Feeding
<1>10. CASE SyncChangelog
  <2>1. /\ prim' = prim /\ log' = log /\ mode' = mode /\ tx' = tx /\ Healthy
        /\ phase \notin {"append", "openAppend", "create", "createSync"}
        /\ phase' \in CleanupPhases
        /\ phase' = "cleanup" => phase = "sync"
    BY <1>0, <1>10 DEF SyncChangelog, ProcessInv, SyncPhases, CleanupPhases
  <2> QED BY <1>5, <2>1 DEF CleanupPhases
<1>11. CASE CleanupChangelogOutbox
  <2>1. keys' = {}
    BY <1>0, <1>11, CleanedFacts, CleanupEmpties DEF CleanupChangelogOutbox, keys
  <2>2. CASE phase = "closeCleanup" BY <1>2, <1>11, <2>2 DEF CleanupChangelogOutbox
  <2>3. CASE phase # "closeCleanup"
    BY <1>4, <1>11, <2>1, <2>3 DEF CleanupChangelogOutbox
  <2> QED BY <2>2, <2>3
<1>12. CASE OpenAppendIntents
  <2>1. PICK s \in PendingIntents : log' = log \o Frames(Len(hist), s)
    BY <1>12 DEF OpenAppendIntents
  <2>2. /\ prim' = prim /\ hist = log /\ phase' = "openSync"
    BY <1>0, <1>12 DEF OpenAppendIntents, FilesInv, ProcessInv
  <2>3. s \in Seq(Pair) /\ Len(s) = Cardinality(keys)
        /\ \E ks \in AscendRange(keys) : \A j \in 1..Len(s) : s[j] = prim.outbox[ks[j]]
    BY <1>0, <2>1, Pending
  <2>4. PICK ks \in AscendRange(keys) : \A j \in 1..Len(s) : s[j] = prim.outbox[ks[j]] BY <2>3
  <2>5. Len(s) \in Nat /\ \A k \in keys : \E j \in 1..Len(s) : ks[j] = k
    BY <1>0, <2>3, Enumeration
  <2>6. log' \in Seq(Frame) /\ Extends(log, s, Len(log) + Len(s), log')
    BY <1>0, <2>1, <2>2, <2>3, WrittenWhole
  <2>7. DOMAIN log' = 1..(Len(log) + Len(s)) BY <2>6, LenProperties DEF Extends
  <2>8. ASSUME NEW k \in keys PROVE \E i \in DOMAIN log' : log'[i].intent = prim.outbox[k]
    <3>1. PICK j \in 1..Len(s) : ks[j] = k BY <2>5
    <3> DEFINE g == Len(log) + j
    <3>2. g \in 1..(Len(log) + Len(s)) /\ ~(g <= Len(log)) /\ g - Len(log) = j BY <1>0, <2>5
    <3> HIDE DEF g
    <3>3. log'[g].intent = s[g - Len(log)] BY <2>6, <3>2 DEF Extends
    <3> QED BY <2>4, <2>7, <3>1, <3>2, <3>3
  <2>9. keys' = keys BY <2>2 DEF keys
  <2>10. \A k \in keys' : InLog(prim.outbox[k])' BY <2>2, <2>8, <2>9 DEF InLog
  <2> QED BY <2>2, <2>10 DEF ProjectionInv
<1>13. CASE ValidateConsumers
  <2>1. keys' = {} BY <1>0, <1>13 DEF ValidateConsumers, files, ProjectionInv, keys
  <2> QED BY <1>2, <1>4, <1>13, <2>1 DEF ValidateConsumers
<1>14. CASE EngineCommitError BY <1>1, <1>14 DEF EngineCommitError, OpenPhases
<1>15. CASE \E k \in 0..(env.maxMuts - 1), part \in BOOLEAN : AppendError(k, part)
  BY <1>3, <1>15 DEF AppendError
<1>16. CASE SyncError BY <1>3, <1>16 DEF SyncError
<1>17. CASE CleanupError BY <1>3, <1>17 DEF CleanupError
<1>18. CASE OpenAppendError BY <1>3, <1>18 DEF OpenAppendError
<1>19. CASE Close
  <2>1. CASE mode = "lazy" /\ pendingOutbox > 0 /\ ~recoveryRequired
    BY <1>5, <1>19, <2>1 DEF Close, files, Healthy, Feeding, CleanupPhases
  <2>2. CASE ~(mode = "lazy" /\ pendingOutbox > 0 /\ ~recoveryRequired)
    BY <1>2, <1>19, <2>2 DEF Close
  <2> QED BY <2>1, <2>2
<1>20. CASE Kill BY <1>2, <1>20 DEF Kill, Crash
<1>21. CASE PowerLoss BY <1>2, <1>21 DEF PowerLoss, Crash
<1>22. CASE LoseSidecar BY <1>1, <1>22 DEF LoseSidecar, procVars, OpenPhases
<1>23. CASE \E m \in env.modes : Open(m)
  <2>1. PICK m \in env.modes : Open(m) BY <1>23
  <2>2. CASE m # "off" /\ ~Readable BY <1>1, <2>1, <2>2 DEF Open, OpenPhases
  <2>3. CASE m = "off" BY <1>1, <2>1, <2>3 DEF Open, OpenPhases
  <2>4. CASE m # "off" /\ Readable
    <3>1. prim' = prim /\ keys' = keys /\ (prim.outbox = NoEntries <=> keys = {})
          /\ \/ phase' = "create"
             \/ phase' = IF prim.outbox = NoEntries THEN "validate" ELSE "openAppend"
      BY <1>0, <2>1, <2>4, PrimaryType DEF Open, Recover, keys
    <3> QED BY <3>1 DEF ProjectionInv, Healthy, Feeding
  <2> QED BY <2>2, <2>3, <2>4
<1>24. CASE \E w \in env.workers : Consume(w)
  BY <1>0, <1>24 DEF Consume, procVars, files, ProjectionInv, Healthy, Feeding, keys, InLog
<1>25. CASE \E w \in env.workers : AdvanceChangelogConsumer(w)
  <2>1. prim'.outbox = prim.outbox
    BY <1>25, OutboxStep DEF AdvanceChangelogConsumer, Staging, Cleaning, CleanupPhases
  <2> QED BY <1>5, <1>25, <2>1 DEF AdvanceChangelogConsumer, Healthy, Feeding, CleanupPhases
<1>26. CASE DeleteChangelogConsumer
  <2>1. prim'.outbox = prim.outbox
    BY <1>26, OutboxStep DEF DeleteChangelogConsumer, Staging, Cleaning, CleanupPhases
  <2>2. CASE mode = "off" BY <1>1, <1>26, <2>2 DEF DeleteChangelogConsumer, OpenPhases
  <2>3. CASE mode # "off"
    BY <1>5, <1>26, <2>1, <2>3 DEF DeleteChangelogConsumer, Healthy, Feeding, CleanupPhases
  <2> QED BY <2>2, <2>3
<1>27. CASE UNCHANGED vars
  <2>1. /\ phase' = phase /\ mode' = mode /\ tx' = tx /\ prim' = prim /\ log' = log
        /\ recoveryRequired' = recoveryRequired
    BY <1>27 DEF vars, procVars, files
  <2> QED BY <1>0, <2>1 DEF ProjectionInv, Healthy, Feeding, StagedKeys, keys, InLog
<1>28. CASE Creating
  <2>1. prim' = prim /\ keys' = keys /\ (prim.outbox = NoEntries <=> keys = {})
    BY <1>0, <1>28, CreateFacts, PrimaryType DEF keys
  <2>2. CASE phase' = "createSync" \/ (phase' = "openAppend" /\ prim.outbox # NoEntries)
    BY <2>1, <2>2 DEF ProjectionInv
  <2> QED BY <1>2, <1>4, <1>28, <2>1, <2>2, CreateFacts
<1> QED BY <1>28, <1>6, <1>7, <1>8, <1>9, <1>10, <1>11, <1>12, <1>13, <1>14, <1>15, <1>16, <1>17,
           <1>18, <1>19, <1>20, <1>21, <1>22, <1>23, <1>24, <1>25, <1>26, <1>27
        DEF Creating, Next, Progress, Error

(* The entries of an Update come after all others, and nothing else moves. *)
LEMMA StagedSize ==
  ASSUME IInv, Staging
  PROVE  LET n == Len(tx.intents)
         IN  /\ n \in Nat \ {0} /\ Cardinality(keys) \in Nat
             /\ Cardinality(keys') = Cardinality(keys) + n
             /\ \A k \in keys : k \in keys' /\ Rank(keys', k) = Rank(keys, k)
                                 /\ prim'.outbox[k] = prim.outbox[k]
             /\ \A k \in keys' \ keys : Rank(keys', k) > Cardinality(keys)
<1> DEFINE n == Len(tx.intents)
           S == KeysOf(tx.id, n)
<1>1. /\ n \in Nat \ {0} /\ tx.id \in Nat \ {0} /\ StagedKeys = S
      /\ keys \cap StagedKeys = {}
      /\ \A k \in keys : k[1] < tx.id
      /\ DOMAIN prim'.outbox = keys \cup StagedKeys
      /\ \A k \in keys : prim'.outbox[k] = prim.outbox[k]
  BY StagingFacts
<1>2. keys \in SUBSET Pair /\ IsFiniteSet(keys) BY PrimaryType DEF IInv, KeysInv
<1>3. Cardinality(keys) \in Nat BY <1>2, FS_CardinalityType
<1>4. keys' = keys \cup S BY <1>1 DEF keys
<1>5. n \in Nat /\ tx.id \in Nat \ {0} /\ \A k \in keys : k[1] < tx.id BY <1>1
<1> HIDE DEF n
<1>6. /\ Cardinality(keys \cup S) = Cardinality(keys) + n
      /\ \A k \in keys : Rank(keys \cup S, k) = Rank(keys, k)
      /\ \A i \in 1..n : Rank(keys \cup S, <<tx.id, i>>) = Cardinality(keys) + i
  BY <1>2, <1>5, RankStaged
<1>7. ASSUME NEW k \in keys' \ keys PROVE Rank(keys', k) > Cardinality(keys)
  <2>1. PICK i \in 1..n : k = <<tx.id, i>> BY <1>4, <1>7 DEF KeysOf
  <2>2. Rank(keys', k) = Cardinality(keys) + i BY <1>4, <1>6, <2>1
  <2> QED BY <1>3, <2>2
<1> HIDE DEF S
<1>8. \A k \in keys : k \in keys' /\ Rank(keys', k) = Rank(keys, k) BY <1>4, <1>6
<1>9. Cardinality(keys') = Cardinality(keys) + n BY <1>4, <1>6
<1> QED BY <1>1, <1>3, <1>7, <1>8, <1>9 DEF n

(* In lazy mode the counter of pending entries never falls behind them:    *)
(* a failed finalization stops the handle, and the counter starts again    *)
(* from zero only over an empty outbox.                                    *)
LEMMA BoundStep ==
  ASSUME IInv, [Next]_vars
  PROVE  BoundInv'
<1>0. /\ TypeOK /\ ProcessInv /\ ProjectionInv /\ BoundInv
      /\ pendingOutbox \in Nat /\ IsFiniteSet(keys) /\ Cardinality(keys) \in Nat
      /\ FlushLimit \in Nat \ {0}
  BY FS_CardinalityType, FlushLimitAssumption DEF IInv, TypeOK, KeysInv
<1>1. ASSUME phase' = "down" \/ mode' = "off" \/ recoveryRequired',
             phase' # "append"
      PROVE  BoundInv'
  BY <1>1 DEF BoundInv, Healthy, Feeding
<1>2. ASSUME ProcessGone PROVE BoundInv' BY <1>1, <1>2 DEF ProcessGone
<1>3. ASSUME ProjectionError PROVE BoundInv'
  BY <1>1, <1>2, <1>3 DEF ProjectionError
<1>4. ASSUME phase' \notin {"ready", "staged", "append"} PROVE BoundInv' BY <1>4 DEF BoundInv
<1>5. ASSUME prim'.outbox = prim.outbox, pendingOutbox' = pendingOutbox, mode' = mode,
             phase \in {"ready", "staged"}, Healthy, phase' # "append"
      PROVE  BoundInv'
  BY <1>0, <1>5 DEF BoundInv, keys
<1>6. ASSUME keys' = {}, pendingOutbox' = 0, phase' # "append" PROVE BoundInv'
  BY <1>0, <1>6, FS_EmptySet DEF BoundInv
<1>7. CASE \E n \in 1..env.maxMuts : StageChangelogOutbox(n)
  BY <1>5, <1>7 DEF StageChangelogOutbox, files, Healthy, Feeding
<1>8. CASE AbortUpdate
  BY <1>0, <1>5, <1>8 DEF AbortUpdate, files, ProcessInv
<1>9. CASE EngineCommit
  <2>1. /\ Staging /\ Healthy /\ phase' = "append" /\ tx' = tx /\ mode' = mode
        /\ pendingOutbox' = pendingOutbox
    BY <1>0, <1>9 DEF EngineCommit, Staging, ProcessInv
  <2> DEFINE n == Len(tx.intents)
  <2>2. Cardinality(keys') = Cardinality(keys) + n /\ n \in Nat
    BY <2>1, StagedSize
  <2>3. mode = "lazy" => Cardinality(keys) <= pendingOutbox
    BY <1>0, <2>1 DEF BoundInv, Staging
  <2>4. mode' = "lazy" => Cardinality(keys') <= pendingOutbox' + Len(tx'.intents)
    BY <1>0, <2>1, <2>2, <2>3
  <2> QED BY <2>1, <2>4 DEF BoundInv
<1>10. CASE AppendIntents
  <2>1. CASE phase' = "ready"
    <3>1. /\ prim' = prim /\ mode' = mode /\ mode = "lazy" /\ phase = "append"
          /\ pendingOutbox' = pendingOutbox + Len(tx.intents)
          /\ pendingOutbox' < FlushLimit
      BY <1>10, <2>1 DEF AppendIntents, CountPending
    <3>2. Cardinality(keys) <= pendingOutbox' BY <1>0, <3>1 DEF BoundInv
    <3>3. Cardinality(keys') <= pendingOutbox' BY <3>1, <3>2 DEF keys
    <3> QED BY <2>1, <3>1, <3>3 DEF BoundInv
  <2>2. CASE phase' # "ready" BY <1>4, <1>10, <2>2 DEF AppendIntents
  <2> QED BY <2>1, <2>2
<1>11. CASE SyncChangelog BY <1>4, <1>11 DEF SyncChangelog, SyncPhases
<1>12. CASE CleanupChangelogOutbox
  <2>1. keys' = {}
    BY <1>0, <1>12, CleanedFacts, CleanupEmpties DEF CleanupChangelogOutbox, keys
  <2>2. CASE phase \in {"closeCleanup", "openCleanup"}
    BY <1>2, <1>4, <1>12, <2>2 DEF CleanupChangelogOutbox
  <2>3. CASE phase = "flushCleanup" BY <1>6, <1>12, <2>1, <2>3 DEF CleanupChangelogOutbox
  <2>4. CASE phase = "cleanup"
    <3>1. mode' = "eager" /\ phase' = "ready"
      BY <1>0, <1>12, <2>4 DEF CleanupChangelogOutbox, ProcessInv
    <3> QED BY <3>1 DEF BoundInv
  <2> QED BY <1>12, <2>2, <2>3, <2>4 DEF CleanupChangelogOutbox, CleanupPhases
<1>13. CASE OpenAppendIntents BY <1>4, <1>13 DEF OpenAppendIntents
<1>14. CASE ValidateConsumers
  <2>1. CASE HistoryValid
    <3>1. keys' = {} /\ pendingOutbox' = 0 /\ phase' = "ready"
      BY <1>0, <1>14, <2>1
      DEF ValidateConsumers, files, ProjectionInv, ProcessInv, OpenPhases, keys
    <3> QED BY <1>6, <3>1
  <2>2. CASE ~HistoryValid BY <1>2, <1>14, <2>2 DEF ValidateConsumers
  <2> QED BY <2>1, <2>2
<1>15. CASE EngineCommitError BY <1>1, <1>15 DEF EngineCommitError
<1>16. CASE \E k \in 0..(env.maxMuts - 1), part \in BOOLEAN : AppendError(k, part)
  BY <1>3, <1>16 DEF AppendError
<1>17. CASE SyncError BY <1>3, <1>17 DEF SyncError
<1>18. CASE CleanupError BY <1>3, <1>18 DEF CleanupError
<1>19. CASE OpenAppendError BY <1>3, <1>19 DEF OpenAppendError
<1>20. CASE Close BY <1>2, <1>4, <1>20 DEF Close
<1>21. CASE Kill BY <1>2, <1>21 DEF Kill, Crash
<1>22. CASE PowerLoss BY <1>2, <1>22 DEF PowerLoss, Crash
<1>23. CASE LoseSidecar BY <1>1, <1>23 DEF LoseSidecar, procVars
<1>24. CASE \E m \in env.modes : Open(m) BY <1>1, <1>4, <1>24 DEF Open, Recover
<1>25. CASE \E w \in env.workers : Consume(w)
  BY <1>0, <1>25 DEF Consume, procVars, files, BoundInv, Healthy, Feeding, keys
<1>26. CASE \E w \in env.workers : AdvanceChangelogConsumer(w)
  <2>1. prim'.outbox = prim.outbox
    BY <1>26, OutboxStep DEF AdvanceChangelogConsumer, Staging, Cleaning, CleanupPhases
  <2> QED BY <1>5, <1>26, <2>1 DEF AdvanceChangelogConsumer, Healthy, Feeding
<1>27. CASE DeleteChangelogConsumer
  <2>1. prim'.outbox = prim.outbox
    BY <1>27, OutboxStep DEF DeleteChangelogConsumer, Staging, Cleaning, CleanupPhases
  <2> QED BY <1>1, <1>5, <1>27, <2>1 DEF DeleteChangelogConsumer, Healthy, Feeding
<1>28. CASE UNCHANGED vars
  BY <1>0, <1>28 DEF vars, procVars, files, BoundInv, Healthy, Feeding, keys
<1>29. CASE Creating BY <1>2, <1>4, <1>29, CreateFacts
<1> QED BY <1>29, <1>7, <1>8, <1>9, <1>10, <1>11, <1>12, <1>13, <1>14, <1>15, <1>16, <1>17,
           <1>18, <1>19, <1>20, <1>21, <1>22, <1>23, <1>24, <1>25, <1>26, <1>27, <1>28
        DEF Creating, Next, Progress, Error

(* As many frames are not yet on the medium as entries wait in the outbox: *)
(* the two are the same list.  (After a failed write there may be fewer.)  *)
LEMMA SizeStep ==
  ASSUME IInv, [Next]_vars
  PROVE  SizeInv'
<1>0. /\ TypeOK /\ ProcessInv /\ ProjectionInv /\ SizeInv /\ FilesInv
      /\ IsFiniteSet(keys) /\ Cardinality(keys) \in Nat
      /\ log \in Seq(Frame) /\ Len(log) \in Nat /\ synced \in 0..Len(log)
  BY FS_CardinalityType, LenProperties DEF IInv, TypeOK, KeysInv
<1>1. /\ IsFiniteSet(keys') /\ Cardinality(keys') \in Nat
      /\ Len(log') \in Nat /\ synced' \in 0..Len(log')
  <2>1. IsFiniteSet(keys') BY KeysStep DEF KeysInv
  <2> QED BY <2>1, FilesType, LenProperties, FS_CardinalityType
<1>2. ASSUME phase' \notin {"ready", "staged", "append", "sync", "flushSync", "closeSync",
                            "openSync", "validate"}
      PROVE  SizeInv'
  BY <1>2 DEF SizeInv
<1>3. ASSUME ProcessGone PROVE SizeInv' BY <1>2, <1>3 DEF ProcessGone
<1>4. ASSUME phase' = "ready", mode' = "off" PROVE SizeInv'
  BY <1>4 DEF SizeInv, Healthy, Feeding
<1>5. ASSUME phase' = "ready", recoveryRequired', Len(log') <= synced' + Cardinality(keys')
      PROVE  SizeInv'
  BY <1>5 DEF SizeInv, Healthy
<1>6. ASSUME Len(log') = synced' + Cardinality(keys'), phase' \notin {"append", "openSync"}
      PROVE  SizeInv'
  BY <1>1, <1>6 DEF SizeInv
<1>7. ASSUME prim'.outbox = prim.outbox, log' = log, synced' = synced, Healthy,
             phase \in {"ready", "staged", "sync", "flushSync", "closeSync", "validate"},
             phase' \notin {"append", "openSync"}
      PROVE  SizeInv'
  <2>1. Len(log') = synced' + Cardinality(keys') BY <1>0, <1>7 DEF SizeInv, keys
  <2> QED BY <1>6, <1>7, <2>1
<1>8. CASE \E n \in 1..env.maxMuts : StageChangelogOutbox(n)
  BY <1>7, <1>8 DEF StageChangelogOutbox, files, Healthy, Feeding
<1>9. CASE AbortUpdate BY <1>0, <1>7, <1>9 DEF AbortUpdate, files, ProcessInv
<1>10. CASE EngineCommit
  <2>1. /\ Staging /\ Healthy /\ phase' = "append" /\ tx' = tx /\ log' = log /\ synced' = synced
    BY <1>0, <1>10 DEF EngineCommit, Staging, ProcessInv
  <2> DEFINE n == Len(tx.intents)
  <2>2. Cardinality(keys') = Cardinality(keys) + n /\ n \in Nat BY <2>1, StagedSize
  <2>3. Len(log) = synced + Cardinality(keys) BY <1>0, <2>1 DEF SizeInv, Staging
  <2>4. Len(log') + Len(tx'.intents) = synced' + Cardinality(keys')
    BY <1>0, <2>1, <2>2, <2>3
  <2> QED BY <2>1, <2>4 DEF SizeInv
<1>11. CASE AppendIntents
  <2>1. /\ prim' = prim /\ phase = "append" /\ synced' = synced /\ hist = log
        /\ log' = log \o Frames(Len(log), tx.intents)
        /\ phase' \in {"ready", "flushSync", "sync"}
    BY <1>0, <1>11 DEF AppendIntents, ProcessInv, FilesInv
  <2>2. tx.intents \in Seq(Pair) /\ Len(tx.intents) \in Nat BY <2>1, AppendRank
  <2>3. Len(log') = Len(log) + Len(tx.intents) BY <1>0, <2>1, <2>2, WrittenWhole
  <2>4. Len(log') = synced' + Cardinality(keys') BY <1>0, <2>1, <2>3 DEF SizeInv, keys
  <2> QED BY <1>6, <2>1, <2>4
<1>12. CASE SyncChangelog BY <1>2, <1>12 DEF SyncChangelog, SyncPhases
<1>13. CASE CleanupChangelogOutbox
  <2>1. keys' = {}
    BY <1>0, <1>13, CleanedFacts, CleanupEmpties DEF CleanupChangelogOutbox, keys
  <2>2. Cardinality(keys') = 0 BY <2>1, FS_EmptySet
  <2>3. log' = log /\ synced' = Len(log)
    BY <1>0, <1>13 DEF CleanupChangelogOutbox, FilesInv
  <2>4. Len(log') = synced' + Cardinality(keys') BY <1>0, <2>2, <2>3
  <2> QED BY <1>3, <1>6, <1>13, <2>4 DEF CleanupChangelogOutbox
<1>14. CASE OpenAppendIntents
  <2>1. PICK s \in PendingIntents : log' = log \o Frames(Len(hist), s)
    BY <1>14 DEF OpenAppendIntents
  <2>2. /\ prim' = prim /\ hist = log /\ phase' = "openSync" /\ synced' = synced
    BY <1>0, <1>14 DEF OpenAppendIntents, FilesInv, ProcessInv
  <2>3. s \in Seq(Pair) /\ Len(s) = Cardinality(keys) BY <1>0, <2>1, Pending
  <2>4. Len(log') = Len(log) + Cardinality(keys) BY <1>0, <2>1, <2>2, <2>3, WrittenWhole
  <2>5. Len(log') >= synced' + Cardinality(keys') BY <1>0, <2>2, <2>4 DEF keys
  <2> QED BY <2>2, <2>5 DEF SizeInv
<1>15. CASE ValidateConsumers
  <2>1. CASE HistoryValid
    BY <1>0, <1>7, <1>15, <2>1 DEF ValidateConsumers, files, ProcessInv
  <2>2. CASE ~HistoryValid BY <1>3, <1>15, <2>2 DEF ValidateConsumers
  <2> QED BY <2>1, <2>2
<1>16. CASE EngineCommitError
  <2>1. /\ phase' = "ready" /\ recoveryRequired' /\ log' = log /\ synced' = synced
        /\ phase = "staged" /\ (prim' = prim \/ Staging)
    BY <1>16 DEF EngineCommitError, Staging
  <2>2. Len(log) = synced + Cardinality(keys) BY <1>0, <2>1 DEF SizeInv, ProcessInv
  <2>3. Cardinality(keys) <= Cardinality(keys')
    <3>1. CASE prim' = prim BY <1>0, <3>1 DEF keys
    <3>2. CASE Staging
      <4>1. /\ Len(tx.intents) \in Nat
            /\ Cardinality(keys') = Cardinality(keys) + Len(tx.intents)
        BY <3>2, StagedSize
      <4> QED BY <1>0, <4>1
    <3> QED BY <2>1, <3>1, <3>2
  <2>4. Len(log') <= synced' + Cardinality(keys') BY <1>0, <1>1, <2>1, <2>2, <2>3
  <2> QED BY <1>5, <2>1, <2>4
<1>17. CASE \E k \in 0..(env.maxMuts - 1), part \in BOOLEAN : AppendError(k, part)
  <2>1. /\ phase = "append" /\ prim' = prim /\ synced' = synced /\ ProjectionError
        /\ losses' = losses
    BY <1>17 DEF AppendError
  <2>2. ~LoseSidecar BY <2>1 DEF LoseSidecar
  <2>3. PICK s \in InFlight \cup {<<>>}, keep \in Nat : Entries(s, keep)
    BY <2>2, EntriesStep
  <2>4. Len(s) <= Len(tx.intents) /\ Len(tx.intents) \in Nat /\ Len(s) \in Nat
    BY <2>1, AppendRank, InFlightFacts, EmptySeq DEF InFlight
  <2>5. Len(log') <= Len(log) + Len(s) BY <2>3 DEF Entries
  <2>6. Len(log) + Len(tx.intents) = synced + Cardinality(keys) BY <1>0, <2>1 DEF SizeInv
  <2>7. keys' = keys BY <2>1 DEF keys
  <2>8. Len(log') <= synced' + Cardinality(keys')
    BY <1>0, <1>1, <2>1, <2>4, <2>5, <2>6, <2>7
  <2> QED BY <1>5, <2>1, <2>8 DEF ProjectionError, UpdatePhases
<1>18. CASE SyncError
  <2>1. CASE phase \in {"sync", "flushSync"}
    <3>1. Len(log) = synced + Cardinality(keys) BY <1>0, <2>1 DEF SizeInv, ProcessInv
    <3>2. Len(log') = synced' + Cardinality(keys')
      BY <1>18, <3>1 DEF SyncError, files, keys
    <3>3. phase' = "ready" BY <1>18, <2>1 DEF SyncError, ProjectionError, UpdatePhases
    <3> QED BY <1>6, <3>2, <3>3
  <2>2. CASE phase \notin {"sync", "flushSync"}
    BY <1>3, <1>18, <2>2 DEF SyncError, ProjectionError, UpdatePhases, SyncPhases
  <2> QED BY <2>1, <2>2
<1>19. CASE CleanupError
  <2>1. synced' = Len(log') /\ ProjectionError
    BY <1>0, <1>19 DEF CleanupError, FilesInv
  <2>2. Len(log') <= synced' + Cardinality(keys') BY <1>1, <2>1
  <2> QED BY <1>3, <1>5, <2>1, <2>2 DEF ProjectionError
<1>20. CASE OpenAppendError
  BY <1>3, <1>20 DEF OpenAppendError, ProjectionError, UpdatePhases
<1>21. CASE Close
  <2>1. CASE mode = "lazy" /\ pendingOutbox > 0 /\ ~recoveryRequired
    BY <1>7, <1>21, <2>1 DEF Close, files, Healthy, Feeding
  <2>2. CASE ~(mode = "lazy" /\ pendingOutbox > 0 /\ ~recoveryRequired)
    BY <1>3, <1>21, <2>2 DEF Close
  <2> QED BY <2>1, <2>2
<1>22. CASE Kill BY <1>3, <1>22 DEF Kill, Crash
<1>23. CASE PowerLoss BY <1>3, <1>23 DEF PowerLoss, Crash
<1>24. CASE LoseSidecar BY <1>2, <1>24 DEF LoseSidecar, procVars
<1>25. CASE \E m \in env.modes : Open(m)
  <2>1. PICK m \in env.modes : Open(m) BY <1>25
  <2>2. CASE m # "off" /\ ~Readable BY <1>2, <2>1, <2>2 DEF Open
  <2>3. CASE m = "off" BY <1>4, <2>1, <2>3 DEF Open
  <2>4. CASE m # "off" /\ Readable /\ header # "none" /\ keys = {}
    <3>1. phase' = "validate" /\ log' = log /\ prim' = prim
          /\ synced' = IF torn THEN Len(log) ELSE synced
      BY <1>0, <2>1, <2>4, PrimaryType DEF Open, Recover, TruncateIncompleteTail
    <3>2. synced' = Len(log) BY <1>0, <2>4, <3>1 DEF FilesInv
    <3>3. Cardinality(keys') = 0 BY <2>4, <3>1, FS_EmptySet DEF keys
    <3>4. Len(log') = synced' + Cardinality(keys') BY <1>0, <3>1, <3>2, <3>3
    <3> QED BY <1>6, <3>1, <3>4
  <2>5. CASE m # "off" /\ Readable /\ (header = "none" \/ keys # {})
    BY <1>0, <1>2, <2>1, <2>5, PrimaryType DEF Open, Recover
  <2> QED BY <2>2, <2>3, <2>4, <2>5
<1>26. CASE \E w \in env.workers : Consume(w)
  BY <1>0, <1>26 DEF Consume, procVars, files, SizeInv, Healthy, Feeding, keys
<1>27. CASE \E w \in env.workers : AdvanceChangelogConsumer(w)
  <2>1. prim'.outbox = prim.outbox
    BY <1>27, OutboxStep DEF AdvanceChangelogConsumer, Staging, Cleaning, CleanupPhases
  <2> QED BY <1>7, <1>27, <2>1 DEF AdvanceChangelogConsumer, Healthy, Feeding
<1>28. CASE DeleteChangelogConsumer
  <2>1. prim'.outbox = prim.outbox
    BY <1>28, OutboxStep DEF DeleteChangelogConsumer, Staging, Cleaning, CleanupPhases
  <2> QED BY <1>4, <1>7, <1>28, <2>1 DEF DeleteChangelogConsumer, Healthy, Feeding
<1>29. CASE UNCHANGED vars
  BY <1>0, <1>29 DEF vars, procVars, files, SizeInv, Healthy, Feeding, keys
<1>30. CASE Creating
  <2>1. log' = log /\ synced' = synced /\ keys' = keys BY <1>30, CreateFacts DEF keys
  <2>2. CASE phase' = "validate" /\ prim.outbox = NoEntries
    <3>1. keys = {} BY <2>2 DEF keys, NoEntries
    <3>2. synced = Len(log) BY <1>0, <3>1 DEF FilesInv
    <3>3. Cardinality(keys') = 0 BY <2>1, <3>1, FS_EmptySet
    <3>4. Len(log') = synced' + Cardinality(keys') BY <1>0, <2>1, <3>2, <3>3
    <3> QED BY <1>6, <2>2, <3>4
  <2> QED BY <1>2, <1>3, <1>30, <2>2, CreateFacts
<1> QED BY <1>30, <1>8, <1>9, <1>10, <1>11, <1>12, <1>13, <1>14, <1>15, <1>16, <1>17, <1>18,
           <1>19, <1>20, <1>21, <1>22, <1>23, <1>24, <1>25, <1>26, <1>27, <1>28, <1>29
        DEF Creating, Next, Progress, Error

(* The types of the outbox and of the file after a step.                   *)
LEMMA AfterStep ==
  ASSUME IInv, [Next]_vars
  PROVE  /\ keys' \in SUBSET Pair /\ IsFiniteSet(keys') /\ Cardinality(keys') \in Nat
         /\ Len(log') \in Nat /\ DOMAIN log' = 1..Len(log') /\ synced' \in 0..Len(log')
         /\ \A k \in keys' : Rank(keys', k) \in Nat \ {0}
<1>1. IsFiniteSet(keys') BY KeysStep DEF KeysInv
<1>2. keys' \in SUBSET Pair
  <2>1. TypeOK' BY TypeStep
  <2>2. PICK K \in SUBSET Pair : prim'.outbox \in [K -> Pair]
    BY <2>1 DEF TypeOK, Primary, Outboxes
  <2> QED BY <2>2 DEF keys
<1>3. Cardinality(keys') \in Nat BY <1>1, FS_CardinalityType
<1>4. \A k \in keys' : Rank(keys', k) \in 1..Cardinality(keys') BY <1>1, <1>2, RankRange
<1> QED BY <1>1, <1>2, <1>3, <1>4, FilesType, LenProperties

(* The frames not yet on the medium are the entries of the outbox, in      *)
(* order: what recovery appends again gets the numbers it had before.      *)
LEMMA MirrorStep ==
  ASSUME IInv, [Next]_vars
  PROVE  MirrorInv'
<1>0. /\ TypeOK /\ ProcessInv /\ ProjectionInv /\ SizeInv /\ FilesInv /\ MirrorInv
      /\ keys \in SUBSET Pair /\ IsFiniteSet(keys) /\ Cardinality(keys) \in Nat
      /\ Len(log) \in Nat /\ DOMAIN log = 1..Len(log) /\ synced \in 0..Len(log)
  BY FS_CardinalityType, LenProperties, PrimaryType DEF IInv, TypeOK, KeysInv
<1>1. /\ keys' \in SUBSET Pair /\ IsFiniteSet(keys')
      /\ Len(log') \in Nat /\ DOMAIN log' = 1..Len(log') /\ synced' \in 0..Len(log')
      /\ \A k \in keys' : Rank(keys', k) \in Nat \ {0}
  BY AfterStep
<1> DEFINE At(k) == synced' + Rank(keys', k)
           Same(k) == log'[At(k)].intent = prim'.outbox[k]
<1>2. ASSUME \A k \in keys' : At(k) \in DOMAIN log' => Same(k) PROVE MirrorInv'
  BY <1>2 DEF MirrorInv, Mirror
<1> HIDE DEF Same
<1>3. ASSUME \/ phase' \in {"down", "create", "createSync", "openAppend", "openSync",
                            "openCleanup"}
             \/ mode' = "off"
      PROVE  MirrorInv'
  BY <1>3 DEF MirrorInv, Feeding
<1>4. ASSUME ProcessGone PROVE MirrorInv' BY <1>3, <1>4 DEF ProcessGone
<1>5. ASSUME keys' = {} PROVE MirrorInv' BY <1>2, <1>5
<1>6. ASSUME synced' = Len(log') PROVE MirrorInv'
  <2>1. \A k \in keys' : At(k) \notin DOMAIN log' BY <1>1, <1>6
  <2> QED BY <1>2, <2>1
<1>7. ASSUME prim'.outbox = prim.outbox, log' = log, synced' = synced,
             Feeding,
             phase \notin {"create", "createSync", "openAppend", "openSync", "openCleanup"}
      PROVE  MirrorInv'
  <2>1. Mirror BY <1>0, <1>7 DEF MirrorInv
  <2> QED BY <1>7, <2>1 DEF MirrorInv, Mirror, keys
<1>8. ASSUME Staging, log' = log, synced' = synced, Healthy PROVE MirrorInv'
  <2>1. Mirror /\ Len(log) = synced + Cardinality(keys)
    BY <1>0, <1>8 DEF MirrorInv, SizeInv, Staging, Healthy
  <2>2. /\ \A k \in keys : k \in keys' /\ Rank(keys', k) = Rank(keys, k)
                           /\ prim'.outbox[k] = prim.outbox[k]
        /\ \A k \in keys' \ keys : Rank(keys', k) > Cardinality(keys)
    BY <1>8, StagedSize
  <2>3. ASSUME NEW k \in keys', At(k) \in DOMAIN log' PROVE Same(k)
    <3>1. CASE k \in keys
      <4>1. At(k) = synced + Rank(keys, k) BY <1>8, <2>2, <3>1
      <4>2. log[At(k)].intent = prim.outbox[k] BY <1>8, <2>1, <2>3, <3>1, <4>1 DEF Mirror
      <4> QED BY <1>8, <2>2, <3>1, <4>2 DEF Same
    <3>2. CASE k \notin keys
      <4>1. Rank(keys', k) > Cardinality(keys) /\ Rank(keys', k) \in Nat
        BY <1>1, <2>2, <2>3, <3>2
      <4>2. At(k) > Len(log) BY <1>0, <1>8, <2>1, <4>1
      <4> QED BY <1>0, <1>8, <2>3, <4>2
    <3> QED BY <3>1, <3>2
  <2> QED BY <1>2, <2>3
<1>9. ASSUME phase = "append", prim' = prim, synced' = synced, ~LoseSidecar PROVE MirrorInv'
  <2>1. PICK s \in InFlight \cup {<<>>}, keep \in Nat : Entries(s, keep)
    BY <1>9, EntriesStep
  <2>2. s = tx.intents \/ Len(s) = 0 BY <1>9, EmptySeq DEF InFlight
  <2>3. /\ \A k \in StagedKeys : \E i \in 1..Len(tx.intents) : k = <<tx.id, i>>
        /\ \A i \in 1..Len(tx.intents) :
             /\ prim.outbox[<<tx.id, i>>] = tx.intents[i]
             /\ synced + Rank(keys, <<tx.id, i>>) = Len(log) + i
        /\ \A k \in keys \ StagedKeys : synced + Rank(keys, k) <= Len(log)
        /\ Len(tx.intents) \in Nat
    BY <1>9, AppendRank
  <2>4. Mirror BY <1>0, <1>9 DEF MirrorInv, ProcessInv, Healthy
  <2>5. keys' = keys BY <1>9 DEF keys
  <2>6. DOMAIN log' = 1..keep BY <2>1 DEF Entries
  <2>7. ASSUME NEW k \in keys', At(k) \in DOMAIN log' PROVE Same(k)
    <3>1. At(k) = synced + Rank(keys, k) /\ At(k) \in 1..keep /\ k \in keys
      BY <1>9, <2>5, <2>6, <2>7
    <3> DEFINE p == At(k)
    <3>2. p \in 1..keep /\ p = synced + Rank(keys, k) BY <3>1
    <3> HIDE DEF p
    <3>3. CASE k \notin StagedKeys
      <4>1. p <= Len(log) BY <2>3, <3>1, <3>2, <3>3
      <4>2. p \in DOMAIN log /\ log'[p] = log[p] BY <2>1, <3>2, <4>1 DEF Entries
      <4>3. log[p].intent = prim.outbox[k] BY <2>4, <3>1, <3>2, <4>2 DEF Mirror
      <4> QED BY <1>9, <4>2, <4>3 DEF Same, p
    <3>4. CASE k \in StagedKeys
      <4>1. PICK i \in 1..Len(tx.intents) : k = <<tx.id, i>> BY <2>3, <3>4
      <4>2. p = Len(log) + i BY <2>3, <3>2, <4>1
      <4>3. ~(p <= Len(log)) /\ p - Len(log) = i BY <1>0, <2>3, <4>2
      <4>4. p - Len(log) \in 1..Len(s) /\ log'[p].intent = s[p - Len(log)]
        BY <2>1, <3>2, <4>3 DEF Entries
      <4>5. s = tx.intents BY <2>2, <4>4
      <4> QED BY <1>9, <2>3, <4>1, <4>3, <4>4, <4>5 DEF Same, p
    <3> QED BY <3>3, <3>4
  <2> QED BY <1>2, <2>7
<1>10. CASE \E n \in 1..env.maxMuts : StageChangelogOutbox(n)
  BY <1>7, <1>10 DEF StageChangelogOutbox, files, Feeding
<1>11. CASE AbortUpdate BY <1>0, <1>7, <1>11 DEF AbortUpdate, files, ProcessInv, Healthy
<1>12. CASE EngineCommit BY <1>0, <1>8, <1>12 DEF EngineCommit, Staging, ProcessInv
<1>13. CASE AppendIntents
  BY <1>9, <1>13 DEF AppendIntents, LoseSidecar
<1>14. CASE SyncChangelog BY <1>6, <1>14 DEF SyncChangelog, Synced
<1>15. CASE CleanupChangelogOutbox
  <2>1. keys' = {}
    BY <1>0, <1>15, CleanedFacts, CleanupEmpties DEF CleanupChangelogOutbox, keys
  <2> QED BY <1>5, <2>1
<1>16. CASE OpenAppendIntents BY <1>3, <1>16 DEF OpenAppendIntents
<1>17. CASE ValidateConsumers
  BY <1>4, <1>0, <1>7, <1>17 DEF ValidateConsumers, files, ProcessInv, Healthy
<1>18. CASE EngineCommitError
  <2>1. /\ log' = log /\ synced' = synced /\ phase = "staged" /\ Healthy
        /\ prim' = prim \/ Staging
    BY <1>0, <1>18 DEF EngineCommitError, Staging, ProcessInv
  <2> QED BY <1>7, <1>8, <2>1 DEF Healthy
<1>19. CASE \E k \in 0..(env.maxMuts - 1), part \in BOOLEAN : AppendError(k, part)
  BY <1>9, <1>19 DEF AppendError, LoseSidecar
<1>20. CASE SyncError
  <2>1. CASE phase \in UpdatePhases
    BY <1>0, <1>7, <1>20, <2>1 DEF SyncError, files, UpdatePhases, ProcessInv, Healthy
  <2>2. CASE phase \notin UpdatePhases BY <1>4, <1>20, <2>2 DEF SyncError, ProjectionError
  <2> QED BY <2>1, <2>2
<1>21. CASE CleanupError BY <1>0, <1>6, <1>21 DEF CleanupError, FilesInv
<1>22. CASE OpenAppendError
  BY <1>4, <1>22 DEF OpenAppendError, ProjectionError, UpdatePhases
<1>23. CASE Close
  BY <1>3, <1>7, <1>23 DEF Close, files, ProcessGone, Feeding
<1>24. CASE Kill BY <1>4, <1>24 DEF Kill, Crash
<1>25. CASE PowerLoss BY <1>4, <1>25 DEF PowerLoss, Crash
<1>26. CASE LoseSidecar BY <1>3, <1>26 DEF LoseSidecar, procVars
<1>27. CASE \E m \in env.modes : Open(m)
  <2>1. PICK m \in env.modes : Open(m) BY <1>27
  <2>2. CASE m # "off" /\ Readable /\ keys = {} BY <1>5, <2>1, <2>2 DEF Open, keys
  <2>3. CASE ~(m # "off" /\ Readable /\ keys = {})
    BY <1>0, <1>3, <2>1, <2>3, PrimaryType DEF Open, Recover
  <2> QED BY <2>2, <2>3
<1>28. CASE \E w \in env.workers : Consume(w)
  BY <1>7, <1>28 DEF Consume, files, Feeding
<1>29. CASE \E w \in env.workers : AdvanceChangelogConsumer(w)
  <2>1. prim'.outbox = prim.outbox
    BY <1>29, OutboxStep DEF AdvanceChangelogConsumer, Staging, Cleaning, CleanupPhases
  <2> QED BY <1>7, <1>29, <2>1 DEF AdvanceChangelogConsumer, Feeding
<1>30. CASE DeleteChangelogConsumer
  <2>1. prim'.outbox = prim.outbox
    BY <1>30, OutboxStep DEF DeleteChangelogConsumer, Staging, Cleaning, CleanupPhases
  <2> QED BY <1>3, <1>7, <1>30, <2>1 DEF DeleteChangelogConsumer, Feeding
<1>31. CASE UNCHANGED vars
  BY <1>0, <1>31 DEF vars, procVars, files, MirrorInv, Mirror, Feeding, keys
<1>32. CASE Creating
  <2>1. CASE prim.outbox = NoEntries BY <1>5, <1>32, <2>1, CreateFacts DEF keys, NoEntries
  <2>2. CASE prim.outbox # NoEntries BY <1>3, <1>4, <1>32, <2>2, CreateFacts
  <2> QED BY <2>1, <2>2
<1> QED BY <1>32, <1>10, <1>11, <1>12, <1>13, <1>14, <1>15, <1>16, <1>17, <1>18, <1>19, <1>20,
           <1>21, <1>22, <1>23, <1>24, <1>25, <1>26, <1>27, <1>28, <1>29, <1>30, <1>31
        DEF Creating, Next, Progress, Error

(* ReadTo(b) of the state after a step. *)
ReadNext(b) ==
  /\ \A i \in DOMAIN log' : i <= b => log'[i].intent \in processed'
  /\ \A k \in keys' : synced' + Rank(keys', k) <= b => prim'.outbox[k] \in processed'
  /\ b <= synced' + Cardinality(keys')
  /\ phase' \in CleanupPhases => b <= Len(log')

(* A cleanup starts with a sync.                                           *)
LEMMA CleanupStarts ==
  ASSUME TypeOK, [Next]_vars, phase' \in CleanupPhases
  PROVE  phase \in CleanupPhases \/ SyncChangelog
<1>1. ASSUME ProcessGone PROVE FALSE BY <1>1 DEF ProcessGone, CleanupPhases
<1>2. ASSUME ProjectionError PROVE FALSE BY <1>1, <1>2 DEF ProjectionError, CleanupPhases
<1>3. CASE \E n \in 1..env.maxMuts : StageChangelogOutbox(n)
  BY <1>3 DEF StageChangelogOutbox, CleanupPhases
<1>4. CASE AbortUpdate BY <1>4 DEF AbortUpdate, CleanupPhases
<1>5. CASE Progress
  BY <1>1, <1>5 DEF Progress, EngineCommit, AppendIntents, CleanupChangelogOutbox,
     OpenAppendIntents, ValidateConsumers, WriteHeader, SyncHeader, Recover, CleanupPhases
<1>6. CASE Error
  BY <1>1, <1>2, <1>6 DEF Error, EngineCommitError, AppendError, SyncError, CleanupError,
     OpenAppendError, CreateError, CleanupPhases
<1>7. CASE Close BY <1>1, <1>7 DEF Close, CleanupPhases
<1>8. CASE Kill BY <1>1, <1>8 DEF Kill, Crash
<1>9. CASE PowerLoss BY <1>1, <1>9 DEF PowerLoss, Crash
<1>10. CASE LoseSidecar BY <1>10 DEF LoseSidecar, procVars
<1>11. CASE \E m \in env.modes : Open(m) BY <1>11 DEF Open, Recover, CleanupPhases
<1>12. CASE \E w \in env.workers : Consume(w) \/ AdvanceChangelogConsumer(w)
  BY <1>12 DEF Consume, AdvanceChangelogConsumer, procVars
<1>13. CASE DeleteChangelogConsumer BY <1>13 DEF DeleteChangelogConsumer
<1>14. CASE UNCHANGED vars BY <1>14 DEF vars, procVars
<1> QED BY <1>3, <1>4, <1>5, <1>6, <1>7, <1>8, <1>9, <1>10, <1>11, <1>12, <1>13, <1>14
        DEF Next

(* What has been read up to a record stays read up to it: what a step      *)
(* writes behind it was in the outbox with the same number, and what it    *)
(* stages comes later.                                                     *)
LEMMA ReadKept ==
  ASSUME IInv, [Next]_vars, ~LoseSidecar, processed \subseteq processed'
  PROVE  \A b \in Int : ReadTo(b) => ReadNext(b)
<1>0. /\ TypeOK /\ ProcessInv /\ FilesInv /\ SizeInv
      /\ IsFiniteSet(keys) /\ Cardinality(keys) \in Nat
      /\ \A k \in keys : Rank(keys, k) \in Nat
      /\ Len(log) \in Nat /\ DOMAIN log = 1..Len(log) /\ synced \in 0..Len(log)
  <2>1. TypeOK /\ KeysInv /\ keys \in SUBSET Pair BY PrimaryType DEF IInv
  <2>2. Cardinality(keys) \in Nat BY <2>1, FS_CardinalityType DEF KeysInv
  <2>3. \A k \in keys : Rank(keys, k) \in 1..Cardinality(keys) BY <2>1, RankRange DEF KeysInv
  <2> QED BY <2>1, <2>2, <2>3, LenProperties DEF IInv, TypeOK, KeysInv
<1>1. PICK s \in InFlight \cup {<<>>}, keep \in Nat : Entries(s, keep) BY <1>0, EntriesStep
<1>2. /\ synced' \in Nat /\ synced <= synced' /\ synced' <= keep /\ DOMAIN log' = 1..keep
      /\ Len(log') = keep /\ Len(s) \in Nat
  BY <1>1, InFlightFacts DEF Entries
<1>3. /\ Cardinality(keys') \in Nat
      /\ \A k \in keys' : Rank(keys', k) \in Nat
  BY AfterStep
<1> SUFFICES ASSUME NEW b \in Int, ReadTo(b) PROVE ReadNext(b)
  OBVIOUS
<1>4. /\ \A i \in DOMAIN log : i <= b => log[i].intent \in processed
      /\ \A k \in keys : synced + Rank(keys, k) <= b => prim.outbox[k] \in processed
      /\ b <= synced + Cardinality(keys)
      /\ phase \in CleanupPhases => b <= Len(log)
  BY DEF ReadTo
<1>5. ASSUME NEW i \in DOMAIN log', i <= b PROVE log'[i].intent \in processed'
  <2>0. i \in 1..keep BY <1>2
  <2>1. CASE i <= Len(log)
    <3>1. i \in DOMAIN log /\ log'[i] = log[i] BY <1>1, <2>0, <2>1 DEF Entries
    <3> QED BY <1>4, <1>5, <3>1
  <2>2. CASE ~(i <= Len(log))
    <3> DEFINE j == i - Len(log)
    <3>1. j \in 1..Len(s) /\ log'[i].intent = s[j] BY <1>1, <2>0, <2>2 DEF Entries
    <3>2. Len(log) + j = i BY <1>0, <2>0
    <3> HIDE DEF j
    <3>3. PICK k \in keys : prim.outbox[k] = s[j] /\ synced + Rank(keys, k) <= Len(log) + j
      BY <3>1, InFlightFacts
    <3>4. synced + Rank(keys, k) <= b BY <1>0, <1>5, <2>0, <3>2, <3>3
    <3> QED BY <1>4, <3>1, <3>3, <3>4
  <2> QED BY <2>1, <2>2
<1>6. /\ \A k \in keys' : synced' + Rank(keys', k) <= b => prim'.outbox[k] \in processed'
      /\ b <= synced' + Cardinality(keys')
  <2>1. CASE prim'.outbox = prim.outbox
    <3>1. keys' = keys BY <2>1 DEF keys
    <3>2. \A k \in keys : synced' + Rank(keys, k) <= b => synced + Rank(keys, k) <= b
      BY <1>0, <1>2
    <3>3. b <= synced' + Cardinality(keys) BY <1>0, <1>2, <1>4
    <3> QED BY <1>4, <2>1, <3>1, <3>2, <3>3
  <2>2. CASE Staging
    <3>1. /\ Len(tx.intents) \in Nat \ {0}
          /\ Cardinality(keys') = Cardinality(keys) + Len(tx.intents)
          /\ \A k \in keys : k \in keys' /\ Rank(keys', k) = Rank(keys, k)
                             /\ prim'.outbox[k] = prim.outbox[k]
          /\ \A k \in keys' \ keys : Rank(keys', k) > Cardinality(keys)
      BY <2>2, StagedSize
    <3>2. ASSUME NEW k \in keys', synced' + Rank(keys', k) <= b
          PROVE  prim'.outbox[k] \in processed'
      <4>1. k \in keys
        <5>1. CASE k \notin keys
          <6>1. Rank(keys', k) > Cardinality(keys) /\ Rank(keys', k) \in Nat
            BY <1>3, <3>1, <3>2, <5>1
          <6> QED BY <1>0, <1>2, <1>4, <3>2, <6>1
        <5> QED BY <5>1
      <4>2. Rank(keys, k) \in Nat /\ synced' + Rank(keys, k) <= b /\ prim'.outbox[k] = prim.outbox[k]
        BY <1>0, <3>1, <3>2, <4>1
      <4>3. synced + Rank(keys, k) <= b BY <1>0, <1>2, <4>2
      <4> QED BY <1>4, <4>1, <4>2, <4>3
    <3>3. b <= synced' + Cardinality(keys') BY <1>0, <1>2, <1>4, <3>1
    <3> QED BY <3>2, <3>3
  <2>3. CASE Cleaning /\ DOMAIN prim'.outbox = {}
    <3>1. keys' = {} BY <2>3 DEF keys
    <3>2. b <= synced BY <1>0, <1>4, <2>3 DEF Cleaning, FilesInv
    <3>3. b <= synced' + Cardinality(keys') BY <1>0, <1>2, <1>3, <3>2
    <3> QED BY <3>1, <3>3
  <2> QED BY <2>1, <2>2, <2>3, OutboxStep
<1>7. ASSUME phase' \in CleanupPhases PROVE b <= Len(log')
  <2>1. CASE phase \in CleanupPhases
    <3>1. b <= Len(log) /\ synced = Len(log) BY <1>0, <1>4, <2>1 DEF FilesInv
    <3> QED BY <1>0, <1>2, <3>1
  <2>2. CASE SyncChangelog
    <3>1. log' = log /\ phase \in SyncPhases /\ Healthy
      BY <1>0, <2>2 DEF SyncChangelog, ProcessInv, SyncPhases
    <3>2. Len(log) >= synced + Cardinality(keys) BY <1>0, <3>1 DEF SizeInv, SyncPhases
    <3> QED BY <1>0, <1>4, <3>1, <3>2
  <2> QED BY <1>0, <1>7, <2>1, <2>2, CleanupStarts
<1> QED BY <1>5, <1>6, <1>7 DEF ReadNext

(* What the workers have read, and what is done with it. *)
LEMMA ReadersStep ==
  ASSUME IInv, [Next]_vars, ~LoseSidecar
  PROVE  /\ processed \subseteq processed'
         /\ \/ prim'.cursor \in {prim.cursor, Unregistered}
            \/ \E w \in Worker : prim'.cursor = seen[w].upto
         /\ \/ seen' = seen
            \/ \E w \in env.workers : Consume(w)
<1>0. TypeOK BY DEF IInv
<1>1. \/ prim'.cursor \in {prim.cursor, Unregistered}
      \/ \E w \in Worker : prim'.cursor = seen[w].upto
  <2>1. CASE prim' = prim BY <2>1
  <2>2. CASE Staging BY <2>2, StagingFacts
  <2>3. CASE Cleaning BY <1>0, <2>3, CleanedFacts DEF Cleaning
  <2>4. CASE Advancing
    <3>1. PICK w \in Worker : prim' = Advanced(seen[w].upto) BY <2>4 DEF Advancing
    <3>2. seen[w].upto \in Nat BY <1>0 DEF TypeOK
    <3> QED BY <1>0, <3>1, <3>2, AdvancedFacts
  <2>5. CASE Deleting BY <1>0, <2>5, DeletedFacts DEF Deleting
  <2> QED BY <1>0, <2>1, <2>2, <2>3, <2>4, <2>5, PrimStep
<1>2. UNCHANGED workerVars \/ \E w \in env.workers : Consume(w)
  <2>1. CASE \E n \in 1..env.maxMuts : StageChangelogOutbox(n) BY <2>1 DEF StageChangelogOutbox
  <2>2. CASE AbortUpdate BY <2>2 DEF AbortUpdate
  <2>3. CASE Progress
    BY <2>3 DEF Progress, EngineCommit, AppendIntents, SyncChangelog, CleanupChangelogOutbox,
       OpenAppendIntents, ValidateConsumers, WriteHeader, SyncHeader
  <2>4. CASE Error
    BY <2>4 DEF Error, EngineCommitError, AppendError, SyncError, CleanupError, OpenAppendError,
       CreateError
  <2>5. CASE Close \/ Kill \/ PowerLoss BY <2>5 DEF Close, Kill, PowerLoss, Crash
  <2>6. CASE \E m \in env.modes : Open(m) BY <2>6 DEF Open
  <2>7. CASE \E w \in env.workers : AdvanceChangelogConsumer(w)
    BY <2>7 DEF AdvanceChangelogConsumer
  <2>8. CASE DeleteChangelogConsumer BY <2>8 DEF DeleteChangelogConsumer
  <2>9. CASE UNCHANGED vars BY <2>9 DEF vars
  <2> QED BY <1>0, <2>1, <2>2, <2>3, <2>4, <2>5, <2>6, <2>7, <2>8, <2>9 DEF Next
<1>3. processed \subseteq processed' BY <1>2 DEF workerVars, Consume
<1> QED BY <1>1, <1>2, <1>3 DEF workerVars

(* Cursors and reads stay over processed records: a cursor only moves to   *)
(* what some worker read, and a read from the cursor processes the rest.   *)
LEMMA WorkersStep ==
  ASSUME IInv, [Next]_vars, ~LoseSidecar, \A w \in Worker : ReadTo(seen[w].upto),
         phase = "ready" /\ mode # "off" /\ HistoryValid => ReadTo(prim.cursor)
  PROVE  /\ \A w \in Worker : ReadNext(seen'[w].upto)
         /\ ReadTo(prim.cursor) \/ prim'.cursor # prim.cursor => ReadNext(prim'.cursor)
<1>0. /\ TypeOK /\ MirrorInv /\ SizeInv
      /\ Len(log) \in Nat /\ DOMAIN log = 1..Len(log) /\ synced \in 0..Len(log)
      /\ Cardinality(keys) \in Nat /\ prim.cursor \in Nat \cup {Unregistered}
      /\ seen \in [Worker -> [from : Nat, upto : Nat]]
      /\ \A k \in keys : Rank(keys, k) \in Nat \ {0}
  <2>1. TypeOK /\ KeysInv /\ keys \in SUBSET Pair /\ prim.cursor \in Nat \cup {Unregistered}
    BY PrimaryType DEF IInv
  <2>2. Cardinality(keys) \in Nat BY <2>1, FS_CardinalityType DEF KeysInv
  <2>3. \A k \in keys : Rank(keys, k) \in 1..Cardinality(keys) BY <2>1, RankRange DEF KeysInv
  <2> QED BY <2>1, <2>2, <2>3, LenProperties DEF IInv, TypeOK
<1>1. /\ processed \subseteq processed'
      /\ \/ prim'.cursor \in {prim.cursor, Unregistered}
         \/ \E w \in Worker : prim'.cursor = seen[w].upto
      /\ \/ seen' = seen
         \/ \E w \in env.workers : Consume(w)
  BY ReadersStep
<1>2. \A b \in Int : ReadTo(b) => ReadNext(b) BY <1>1, ReadKept
<1>3. ASSUME NEW b \in {Unregistered, 0} PROVE ReadNext(b)
  <2>1. b \in Int /\ b <= 0 BY DEF Unregistered
  <2>2. ReadTo(b) BY <1>0, <2>1 DEF ReadTo
  <2> QED BY <1>2, <2>1, <2>2
<1>5. ASSUME ReadTo(prim.cursor) PROVE ReadNext(prim.cursor)
  <2>1. prim.cursor \in Int BY <1>0 DEF Unregistered
  <2> QED BY <1>2, <1>5, <2>1
<1>6. ASSUME NEW w \in Worker PROVE ReadNext(seen[w].upto)
  <2>1. seen[w].upto \in Int BY <1>0
  <2> QED BY <1>2, <2>1
<1>7. ReadTo(prim.cursor) \/ prim'.cursor # prim.cursor => ReadNext(prim'.cursor)
  BY <1>1, <1>3, <1>5, <1>6
<1>8. ASSUME NEW v \in Worker, Consume(v) PROVE \A w \in Worker : ReadNext(seen'[w].upto)
  <2>1. /\ phase = "ready" /\ mode # "off" /\ log' = log /\ synced' = synced /\ prim' = prim
        /\ phase' = phase /\ ReadTo(prim.cursor)
    BY <1>8 DEF Consume, files, procVars
  <2>2. CASE prim.cursor = Unregistered /\ seen' = [seen EXCEPT ![v] = [from |-> 0, upto |-> 0]]
    <3>1. \A w \in Worker : seen'[w].upto = seen[w].upto \/ seen'[w].upto = 0
      BY <1>0, <2>2
    <3> QED BY <1>3, <1>6, <3>1
  <2>3. ASSUME NEW upto \in prim.cursor..Len(log), prim.cursor # Unregistered,
               seen' = [seen EXCEPT ![v] = [from |-> prim.cursor, upto |-> upto]],
               processed' = processed \cup ReadSince(prim.cursor, upto)
        PROVE  \A w \in Worker : ReadNext(seen'[w].upto)
    <3>0. prim.cursor \in Nat /\ upto \in Nat /\ upto <= Len(log) BY <1>0, <2>3
    <3>1. ASSUME NEW i \in DOMAIN log, i <= upto PROVE log[i].intent \in processed'
      <4>1. CASE i <= prim.cursor BY <1>1, <2>1, <3>1, <4>1 DEF ReadTo
      <4>2. CASE ~(i <= prim.cursor)
        <5>1. i \in (prim.cursor + 1)..upto BY <1>0, <3>0, <3>1, <4>2
        <5> QED BY <2>3, <5>1 DEF ReadSince
      <4> QED BY <4>1, <4>2
    <3>2. ASSUME NEW k \in keys, synced + Rank(keys, k) <= upto
          PROVE  prim.outbox[k] \in processed'
      <4> DEFINE p == synced + Rank(keys, k)
      <4>1. p \in DOMAIN log /\ p <= upto BY <1>0, <3>0, <3>2
      <4>2. log[p].intent = prim.outbox[k] BY <1>0, <2>1, <4>1 DEF MirrorInv, Mirror, Feeding
      <4> HIDE DEF p
      <4> QED BY <3>1, <4>1, <4>2
    <3>3. upto <= synced + Cardinality(keys) BY <1>0, <2>1, <3>0 DEF SizeInv
    <3>4. keys' = keys /\ phase' \notin CleanupPhases BY <2>1 DEF keys, CleanupPhases
    <3>5. ReadNext(upto) BY <2>1, <3>1, <3>2, <3>3, <3>4 DEF ReadNext
    <3>6. \A w \in Worker : seen'[w].upto = seen[w].upto \/ seen'[w].upto = upto
      BY <1>0, <2>3
    <3> QED BY <1>6, <3>5, <3>6
  <2> QED BY <1>8, <2>2, <2>3 DEF Consume
<1>9. env.workers \subseteq Worker BY <1>0 DEF TypeOK, Scenario
<1> QED BY <1>1, <1>6, <1>7, <1>8, <1>9

(* So they do as long as the sidecar is not lost.                          *)
LEMMA ReadStep ==
  ASSUME IInv, [Next]_vars
  PROVE  ReadInv'
<1> SUFFICES ASSUME losses' = 0
             PROVE  ReadNext(prim'.cursor) /\ \A w \in Worker : ReadNext(seen'[w].upto)
  BY DEF ReadInv, ReadTo, ReadNext, keys
<1>1. ~LoseSidecar /\ ReadTo(prim.cursor) /\ \A w \in Worker : ReadTo(seen[w].upto)
  BY NoLossYet DEF IInv, ReadInv
<1> QED BY <1>1, WorkersStep

(* Nothing is written when nothing is pending. *)
LEMMA NothingWritten ==
  ASSUME IInv, [Next]_vars, ~LoseSidecar, synced = Len(log), phase \notin {"append", "openAppend"}
  PROVE  log' = log
<1>0. log \in Seq(Frame) /\ Len(log) \in Nat BY LenProperties DEF IInv, TypeOK
<1>1. PICK s \in InFlight \cup {<<>>}, keep \in Nat : Writing(s, keep)
  BY LogStep
<1>2. Len(s) \in Nat /\ ~(Len(s) # 0) BY InFlightFacts
<1>3. keep = Len(log) BY <1>0, <1>1, <1>2 DEF Writing
<1>4. /\ log' \in Seq(Frame) /\ Len(log') = Len(log)
      /\ \A i \in 1..Len(log) : log'[i] = log[i]
  BY <1>0, <1>1, <1>3 DEF Writing, Extends
<1> QED BY <1>0, <1>4, SeqEqual

(* With an empty outbox the checkpoint is a prefix of the history: it is   *)
(* recorded only where the file holds exactly that history, and nothing    *)
(* that was synced goes.                                                   *)
LEMMA CheckpointStep ==
  ASSUME IInv, [Next]_vars
  PROVE  CheckpointInv'
<1> DEFINE Recorded(cp, lg) ==
             LET n == Len(cp.hist)
             IN  cp.ok /\ n <= Len(lg) /\ cp.hist = SubSeq(lg, 1, n)
<1> SUFFICES ASSUME losses' = 0, prim'.cursor # Unregistered, keys' = {}
             PROVE  Recorded(prim'.checkpoint, log')
  BY DEF CheckpointInv
<1>0. /\ TypeOK /\ losses = 0 /\ ~LoseSidecar /\ FilesInv /\ ProcessInv /\ CheckpointInv
      /\ log \in Seq(Frame) /\ Len(log) \in Nat /\ synced \in 0..Len(log)
  BY NoLossYet, LenProperties DEF IInv, TypeOK
<1>1. Recorded([ok |-> TRUE, hist |-> log], log)
  <2>1. SubSeq(log, 1, Len(log)) = log BY <1>0, SubSeqFull
  <2> QED BY <1>0, <2>1
<1>2. ASSUME keys = {} PROVE log' = log
  BY <1>0, <1>2, WritesPending, NothingWritten DEF FilesInv
<1>3. CASE prim' = prim
  <2>1. keys = {} BY <1>3 DEF keys
  <2>2. Recorded(prim.checkpoint, log) BY <1>0, <1>3, <2>1 DEF CheckpointInv
  <2>3. log' = log /\ prim'.checkpoint = prim.checkpoint BY <1>2, <1>3, <2>1
  <2> HIDE DEF Recorded
  <2> QED BY <2>2, <2>3
<1>4. CASE Staging
  <2> DEFINE n == Len(tx.intents)
  <2>1. n \in Nat \ {0} /\ StagedKeys = KeysOf(tx.id, n)
        /\ DOMAIN prim'.outbox = keys \cup StagedKeys
    BY <1>4, StagingFacts
  <2> HIDE DEF n
  <2>2. <<tx.id, 1>> \in StagedKeys BY <2>1 DEF KeysOf
  <2> QED BY <2>1, <2>2 DEF keys
<1>5. CASE Cleaning
  <2>1. phase \in CleanupPhases /\ prim'.checkpoint = [ok |-> TRUE, hist |-> hist]
    BY <1>0, <1>5, CleanedFacts DEF Cleaning
  <2>2. hist = log /\ synced = Len(log) /\ phase \notin {"append", "openAppend"}
    BY <1>0, <2>1 DEF FilesInv, ProcessInv, CleanupPhases
  <2>3. log' = log BY <1>0, <2>2, NothingWritten
  <2> HIDE DEF Recorded
  <2> QED BY <1>1, <2>1, <2>2, <2>3
<1>6. CASE Advancing
  <2>1. PICK w \in Worker : prim' = Advanced(seen[w].upto) BY <1>6 DEF Advancing
  <2>2. seen[w].upto \in Nat BY <1>0 DEF TypeOK
  <2>3. prim'.checkpoint = [ok |-> TRUE, hist |-> hist] /\ prim'.outbox = prim.outbox
    BY <1>0, <2>1, <2>2, AdvancedFacts
  <2>4. hist = log BY <1>0, <1>6 DEF Advancing, FilesInv
  <2>5. log' = log BY <1>2, <2>3 DEF keys
  <2> HIDE DEF Recorded
  <2> QED BY <1>1, <2>3, <2>4, <2>5
<1>7. CASE Deleting BY <1>0, <1>7, DeletedFacts DEF Deleting
<1> HIDE DEF Recorded
<1> QED BY <1>0, <1>3, <1>4, <1>5, <1>6, <1>7, PrimStep

(* Open finds a file it can read, or one that never had a frame, and a     *)
(* history the consumers' checkpoint is part of.                           *)
LEMMA OpenStep ==
  ASSUME IInv, [Next]_vars
  PROVE  OpenAccepts'
<1> DEFINE Refusal == header = "cut" /\ \A i \in DOMAIN prim.mutations : InOutbox(prim.mutations[i])
<1> SUFFICES ASSUME losses' = 0
             PROVE  openError' # "invalidated" /\ (openError' = "corrupt" => Refusal')
  BY DEF OpenAccepts
<1>0. /\ TypeOK /\ ~LoseSidecar /\ losses = 0 /\ FilesInv /\ ProcessInv /\ ProjectionInv
      /\ CheckpointInv /\ ReadInv /\ OpenAccepts /\ HeaderInv /\ NoMutationLost
      /\ log \in Seq(Frame) /\ Len(log) \in Nat /\ synced \in 0..Len(log)
      /\ prim.cursor \in Nat \cup {Unregistered}
      /\ prim.checkpoint \in [ok : BOOLEAN, hist : Seq(Frame)]
      /\ prim.outbox = NoEntries <=> keys = {}
  BY NoLossYet, LenProperties, PrimaryType DEF IInv, TypeOK
<1>1. ASSUME phase # "down", openError' \in {openError, "failed", "finalization"}
      PROVE  openError' # "invalidated" /\ (openError' = "corrupt" => Refusal')
  BY <1>0, <1>1 DEF OpenAccepts, ProcessInv
<1>2. ASSUME ProjectionError PROVE openError' \in {openError, "finalization"}
  BY <1>2 DEF ProjectionError
<1>3. ~Readable => Refusal
  <2> SUFFICES ASSUME ~Readable PROVE Refusal
    OBVIOUS
  <2>1. header = "cut" BY <1>0 DEF Readable, RecoverableTail, FilesInv
  <2>2. synced = 0 BY <1>0, <2>1 DEF HeaderInv
  <2>3. \A m : ~OnMedium(m) BY <2>2 DEF OnMedium
  <2> QED BY <1>0, <2>1, <2>3 DEF NoMutationLost
<1>4. phase = "validate" => HistoryValid
  <2> SUFFICES ASSUME phase = "validate", prim.cursor # Unregistered
               PROVE  LET n == Len(prim.checkpoint.hist)
                      IN  /\ prim.checkpoint.ok
                          /\ n <= Len(hist)
                          /\ prim.cursor <= Len(hist)
                          /\ prim.checkpoint.hist = LogicalDigestAt(n)
    BY DEF HistoryValid
  <2> DEFINE n == Len(prim.checkpoint.hist)
  <2>1. keys = {} /\ hist = log BY <1>0 DEF ProjectionInv, ProcessInv, FilesInv
  <2>2. prim.checkpoint.ok /\ n <= Len(log) /\ prim.checkpoint.hist = SubSeq(log, 1, n)
    BY <1>0, <2>1 DEF CheckpointInv
  <2>3. prim.cursor <= Len(log)
    <3>1. prim.cursor <= synced + Cardinality(keys) BY <1>0 DEF ReadInv, ReadTo
    <3>2. Cardinality(keys) = 0 BY <2>1, FS_EmptySet
    <3>3. prim.cursor <= synced + 0 BY <3>1, <3>2
    <3>4. prim.cursor \in Nat BY <1>0
    <3> QED BY <1>0, <3>3, <3>4
  <2>4. SubSeq(log, 1, Len(log)) = log BY <1>0, SubSeqFull
  <2>5. prim.checkpoint.hist = LogicalDigestAt(n) BY <2>1, <2>2, <2>4 DEF LogicalDigestAt
  <2> QED BY <2>1, <2>2, <2>3, <2>5
<1>5. CASE \E n \in 1..env.maxMuts : StageChangelogOutbox(n)
  BY <1>1, <1>5 DEF StageChangelogOutbox
<1>6. CASE AbortUpdate BY <1>1, <1>6 DEF AbortUpdate
<1>7. CASE EngineCommit \/ AppendIntents \/ SyncChangelog \/ CleanupChangelogOutbox
  BY <1>1, <1>7
  DEF EngineCommit, AppendIntents, SyncChangelog, CleanupChangelogOutbox, SyncPhases, CleanupPhases
<1>8. CASE OpenAppendIntents BY <1>1, <1>8 DEF OpenAppendIntents
<1>9. CASE ValidateConsumers BY <1>1, <1>4, <1>9 DEF ValidateConsumers
<1>10. CASE EngineCommitError BY <1>1, <1>10 DEF EngineCommitError
<1>11. CASE \E k \in 0..(env.maxMuts - 1), part \in BOOLEAN : AppendError(k, part)
  BY <1>1, <1>2, <1>11 DEF AppendError
<1>12. CASE SyncError BY <1>1, <1>2, <1>12 DEF SyncError, SyncPhases
<1>13. CASE CleanupError BY <1>1, <1>2, <1>13 DEF CleanupError, CleanupPhases
<1>14. CASE OpenAppendError BY <1>1, <1>2, <1>14 DEF OpenAppendError
<1>15. CASE Close BY <1>1, <1>15 DEF Close
<1>16. CASE Kill \/ PowerLoss BY <1>1, <1>16 DEF Kill, PowerLoss, Crash
<1>17. CASE \E m \in env.modes : Open(m)
  <2>1. \/ openError' = "none"
        \/ openError' = "corrupt" /\ Refusal /\ header' = header /\ prim' = prim
    BY <1>3, <1>17 DEF Open
  <2> QED BY <2>1 DEF InOutbox
<1>18. CASE \E w \in env.workers : Consume(w) \/ AdvanceChangelogConsumer(w)
  BY <1>1, <1>18 DEF Consume, AdvanceChangelogConsumer, procVars
<1>19. CASE DeleteChangelogConsumer BY <1>1, <1>19 DEF DeleteChangelogConsumer
<1>20. CASE UNCHANGED vars
  <2>1. openError' = openError /\ header' = header /\ prim' = prim
    BY <1>20 DEF vars, procVars, files
  <2> QED BY <1>0, <2>1 DEF OpenAccepts, InOutbox
<1>21. CASE Creating BY <1>1, <1>21, CreateFacts
<1> QED BY <1>21, <1>0, <1>5, <1>6, <1>7, <1>8, <1>9, <1>10, <1>11, <1>12, <1>13, <1>14, <1>15,
           <1>16, <1>17, <1>18, <1>19, <1>20 DEF Creating, Next, Progress, Error

-----------------------------------------------------------------------------
(* A new database: no files, no process. *)
LEMMA InitInv == Init => IInv
<1> SUFFICES ASSUME Init PROVE IInv
  OBVIOUS
<1>1. /\ log = <<>> /\ hist = <<>> /\ Len(log) = 0 /\ DOMAIN log = {} /\ synced = 0
      /\ <<>> \in Seq(Frame) /\ <<>> \in Seq(Pair)
      /\ prim = [outbox |-> NoEntries, cursor |-> Unregistered,
                 checkpoint |-> NoCheckpoint, head |-> 0, mutations |-> <<>>]
      /\ phase = "down" /\ mode = "off" /\ ~recoveryRequired /\ ~torn /\ pendingOutbox = 0
      /\ seen = [w \in Worker |-> [from |-> 0, upto |-> 0]]
      /\ openError = "none" /\ header = "none"
  BY EmptySeq DEF Init
<1>2. keys = {} /\ DOMAIN prim.mutations = {} BY <1>1 DEF keys, NoEntries
<1>3. Cardinality(keys) = 0 BY <1>2, FS_EmptySet
<1>4. prim \in Primary
  <2>1. NoEntries \in Outboxes
    <3>1. NoEntries \in [{} -> Pair] /\ {} \in SUBSET Pair BY DEF NoEntries
    <3> QED BY <3>1 DEF Outboxes
  <2>2. NoCheckpoint \in [ok : BOOLEAN, hist : Seq(Frame)] BY <1>1 DEF NoCheckpoint
  <2> QED BY <1>1, <2>1, <2>2 DEF Primary
<1>5. TypeOK
  <2>1. synced \in 0..Len(log) BY <1>1
  <2>2. seen \in [Worker -> [from : Nat, upto : Nat]] /\ header \in Headers BY <1>1 DEF Headers
  <2>3. phase \in Phases BY <1>1 DEF Phases
  <2>4. env \in Scenario BY ScenariosAssumption DEF Init
  <2>5. tx \in Transaction BY NoTxType DEF Init
  <2>6. /\ seqNext = 0 /\ processed = {} /\ updates = 0 /\ failures = 0 /\ crashes = 0
        /\ losses = 0 /\ recoveryRequired = FALSE /\ torn = FALSE
    BY DEF Init
  <2> QED BY <1>1, <1>4, <2>1, <2>2, <2>3, <2>4, <2>5, <2>6 DEF TypeOK
<1>6. ProcessInv /\ FilesInv /\ HeaderInv
  BY <1>1, <1>2 DEF HeaderInv, ProcessInv, FilesInv, Contiguous, Healthy, Feeding, OpenPhases,
     CleanupPhases
<1>7. KeysInv BY <1>2, FS_EmptySet DEF KeysInv
<1>8. MutationsInv BY <1>2 DEF MutationsInv
<1>9. TxInv BY <1>1 DEF TxInv, Healthy, Feeding
<1>10. ProjectionInv BY <1>1, <1>2 DEF ProjectionInv
<1>11. BoundInv /\ SizeInv BY <1>1 DEF BoundInv, SizeInv, Healthy, Feeding
<1>12. MirrorInv BY <1>1 DEF MirrorInv, Feeding
<1>13. ReadInv
  <2>1. ASSUME NEW b \in {Unregistered, 0} PROVE ReadTo(b)
    <3>1. b <= synced + Cardinality(keys) BY <1>1, <1>3 DEF Unregistered
    <3> QED BY <1>1, <1>2, <3>1 DEF ReadTo, CleanupPhases
  <2>2. prim.cursor = Unregistered /\ \A w \in Worker : seen[w].upto = 0 BY <1>1
  <2> QED BY <2>1, <2>2 DEF ReadInv
<1>14. CheckpointInv BY <1>1 DEF CheckpointInv
<1>15. NoMutationLost /\ NoPhantomFrame /\ CommitOrder
  BY <1>1, <1>2 DEF NoMutationLost, NoPhantomFrame, CommitOrder
<1>16. OpenAccepts BY <1>1 DEF OpenAccepts
<1> QED BY <1>5, <1>6, <1>7, <1>8, <1>9, <1>10, <1>11, <1>12, <1>13, <1>14, <1>15, <1>16
        DEF IInv

-----------------------------------------------------------------------------
(* The inductive invariant holds in every reachable state, for any number  *)
(* of workers, Updates, mutations, errors, crashes and any flush limit.    *)
THEOREM Invariance == Spec => []IInv
<1>1. Init => IInv BY InitInv
<1>2. IInv /\ [Next]_vars => IInv'
  <2> SUFFICES ASSUME IInv, [Next]_vars PROVE IInv'
    OBVIOUS
  <2>1. TypeOK' /\ ProcessInv' /\ FilesInv' /\ HeaderInv' /\ KeysInv' /\ MutationsInv' /\ TxInv'
    BY TypeStep, ProcessStep, FilesStep, HeaderStep, KeysStep, MutationsStep, TxStep
  <2>2. ProjectionInv' /\ BoundInv' /\ SizeInv' /\ MirrorInv' /\ ReadInv' /\ CheckpointInv'
    BY ProjectionStep, BoundStep, SizeStep, MirrorStep, ReadStep, CheckpointStep
  <2>3. NoMutationLost' /\ NoPhantomFrame' /\ CommitOrder' /\ OpenAccepts'
    BY LostStep, PhantomStep, OrderStep, OpenStep
  <2> QED BY <2>1, <2>2, <2>3 DEF IInv
<1> QED BY <1>1, <1>2, PTL DEF Spec

(* The variables keep their types.                                         *)
THEOREM TypeCorrect == Spec => []TypeOK
<1>1. IInv => TypeOK BY DEF IInv
<1> QED BY <1>1, Invariance, PTL

(* Unless the sidecar itself is lost, a committed mutation is in the       *)
(* outbox or its frame is on the medium, whatever sequence of errors,      *)
(* kills and power losses the Updates, lazy flushes and recoveries go      *)
(* through.                                                                *)
THEOREM NothingLost == Spec => []NoMutationLost
<1>1. IInv => NoMutationLost BY DEF IInv
<1> QED BY <1>1, Invariance, PTL

(* The sidecar never has a frame of a mutation the primary has not         *)
(* committed, also after a commit whose outcome was unknown.               *)
THEOREM NoPhantom == Spec => []NoPhantomFrame
<1>1. IInv => NoPhantomFrame BY DEF IInv
<1> QED BY <1>1, Invariance, PTL

(* Appends, partial appends and the repeated appends of recovery announce  *)
(* mutations for the first time in commit order.                           *)
THEOREM InCommitOrder == Spec => []CommitOrder
<1>1. IInv => CommitOrder BY DEF IInv
<1> QED BY <1>1, Invariance, PTL

(* Unless the sidecar is lost, Open never invalidates a consumer and finds *)
(* a sidecar corrupt only when the writing of its header was cut short;    *)
(* the outbox then still has every mutation ever committed, so that the    *)
(* file can be removed without a loss.                                     *)
THEOREM OpenRefusesNoFrame == Spec => []OpenAccepts
<1>1. IInv => OpenAccepts BY DEF IInv
<1> QED BY <1>1, Invariance, PTL

(* An idle healthy handle has an empty outbox in the default mode and      *)
(* fewer than lazyChangelogFlushIntentLimit entries in lazy mode.          *)
THEOREM OutboxStaysBounded == Spec => []OutboxBounded
<1>1. IInv => OutboxBounded
  <2> SUFFICES ASSUME IInv, phase = "ready", ~recoveryRequired
               PROVE  /\ mode = "eager" => prim.outbox = NoEntries
                      /\ mode = "lazy" => Cardinality(DOMAIN prim.outbox) < FlushLimit
    BY DEF OutboxBounded
  <2>1. /\ TypeOK /\ ProjectionInv /\ BoundInv /\ pendingOutbox \in Nat
        /\ Cardinality(keys) \in Nat /\ (prim.outbox = NoEntries <=> keys = {})
    BY FS_CardinalityType, PrimaryType DEF IInv, TypeOK, KeysInv
  <2>2. ASSUME mode = "eager" PROVE prim.outbox = NoEntries
    BY <2>1, <2>2 DEF ProjectionInv, Healthy, Feeding
  <2>3. ASSUME mode = "lazy" PROVE Cardinality(keys) < FlushLimit
    <3>1. Cardinality(keys) <= pendingOutbox /\ pendingOutbox < FlushLimit
      BY <2>1, <2>3 DEF BoundInv, Healthy, Feeding
    <3> QED BY <2>1, <3>1, FlushLimitAssumption
  <2> QED BY <2>2, <2>3 DEF keys
<1> QED BY <1>1, Invariance, PTL

(* Unless the sidecar is lost, no record at or below the durable cursor is *)
(* unprocessed, although crashes may take unsynced records away and        *)
(* recovery appends others at their numbers.                               *)
THEOREM NothingIsSkipped == Spec => [](losses = 0 => NothingSkipped)
<1>1. IInv => (losses = 0 => NothingSkipped)
  <2> SUFFICES ASSUME IInv, losses = 0, NEW i \in 1..prim.cursor, i \in DOMAIN log
               PROVE  log[i].intent \in processed
    BY DEF NothingSkipped
  <2>1. prim.cursor \in Int BY PrimaryType DEF IInv, Unregistered
  <2>2. i <= prim.cursor BY <2>1
  <2> QED BY <2>2 DEF IInv, ReadInv, ReadTo
<1> QED BY <1>1, Invariance, PTL

(* A consumer whose cursor lies beyond a sidecar that was cut: nothing is  *)
(* pending, so Open has nothing to append before it compares the two, and  *)
(* the handle is without a changelog until the consumer is deleted.        *)
Barred ==
  /\ prim.cursor > Len(log) /\ keys = {}
  /\ phase \in {"down", "create", "createSync", "validate"} \/ mode = "off"
  /\ \A i \in DOMAIN log : log[i].intent \in processed

(* With losses: the cursor lies over processed records or its consumer is  *)
(* barred.                                                                 *)
CursorInv ==
  /\ ReadTo(prim.cursor) \/ Barred
  /\ \A w \in Worker : ReadTo(seen[w].upto)

(* What a handle serves is read up to the cursor. *)
LEMMA Served ==
  ASSUME IInv, CursorInv, phase \in {"ready", "validate"}, mode # "off", HistoryValid
  PROVE  ReadTo(prim.cursor)
<1>1. prim.cursor \in Nat \cup {Unregistered} /\ Len(log) \in Nat /\ Len(hist) \in Nat
  BY PrimaryType, LenProperties DEF IInv, TypeOK
<1>2. ASSUME Barred PROVE FALSE
  <2>1. phase = "validate" /\ prim.cursor > Len(log) BY <1>2 DEF Barred
  <2>2. hist = log BY <2>1 DEF IInv, ProcessInv, FilesInv
  <2>3. prim.cursor # Unregistered BY <1>1, <2>1 DEF Unregistered
  <2>4. prim.cursor <= Len(log) BY <2>2, <2>3 DEF HistoryValid
  <2> QED BY <1>1, <2>1, <2>4 DEF Unregistered
<1> QED BY <1>2 DEF CursorInv

(* A barred handle stays barred. *)
LEMMA BarredStep ==
  ASSUME IInv, CursorInv, [Next]_vars, ~LoseSidecar, Barred, ~ReadTo(prim.cursor)
  PROVE  Barred' \/ prim'.cursor # prim.cursor
<1>0. /\ TypeOK /\ ProcessInv /\ FilesInv /\ Len(log) \in Nat /\ synced \in 0..Len(log)
      /\ prim.cursor \in Nat \cup {Unregistered} /\ keys = {}
      /\ prim.outbox = NoEntries <=> keys = {}
  BY LenProperties, PrimaryType DEF IInv, TypeOK, Barred
<1>1. log' = log /\ processed \subseteq processed'
  BY <1>0, WritesPending, NothingWritten, ReadersStep DEF FilesInv
<1>2. prim' = prim \/ Deleting
  BY <1>0, PrimStep
  DEF Staging, Cleaning, Advancing, Barred, ProcessInv, Healthy, Feeding, CleanupPhases
<1>3. CASE Deleting
  <2>1. prim'.cursor = Unregistered BY <1>0, <1>3, DeletedFacts DEF Deleting
  <2>2. prim.cursor # Unregistered BY <1>0 DEF Barred, Unregistered
  <2> QED BY <2>1, <2>2
<1>4. CASE prim' = prim
  <2>1. ASSUME phase' \in {"down", "create", "createSync", "validate"} \/ mode' = "off"
        PROVE  Barred'
    <3>1. /\ prim'.cursor > Len(log') /\ keys' = {}
          /\ \A i \in DOMAIN log' : log'[i].intent \in processed'
      BY <1>1, <1>4 DEF Barred, keys
    <3> QED BY <2>1, <3>1 DEF Barred
  <2>2. ASSUME ProcessGone PROVE Barred' BY <2>1, <2>2 DEF ProcessGone
  <2>3. /\ phase \in {"down", "create", "createSync", "validate", "ready"}
        /\ (phase = "ready" => mode = "off")
    BY <1>0 DEF Barred, ProcessInv, Healthy, Feeding
  <2>4. ~HistoryValid \/ phase # "validate"
    BY Served, <1>0 DEF ProcessInv, Healthy, Feeding
  <2>5. CASE \E n \in 1..env.maxMuts : StageChangelogOutbox(n)
    BY <2>3, <2>5 DEF StageChangelogOutbox
  <2>6. CASE AbortUpdate BY <2>3, <2>6 DEF AbortUpdate
  <2>7. CASE EngineCommit \/ AppendIntents \/ SyncChangelog \/ CleanupChangelogOutbox
             \/ OpenAppendIntents
    BY <2>3, <2>7 DEF EngineCommit, AppendIntents, SyncChangelog, CleanupChangelogOutbox,
       OpenAppendIntents, SyncPhases, CleanupPhases
  <2>8. CASE ValidateConsumers BY <2>2, <2>4, <2>8 DEF ValidateConsumers
  <2>9. CASE Error
    BY <2>2, <2>3, <2>9 DEF Error, EngineCommitError, AppendError, SyncError, CleanupError,
       OpenAppendError, CreateError, CreatePhases, SyncPhases, CleanupPhases
  <2>10. CASE Close BY <2>2, <2>3, <2>10 DEF Close
  <2>11. CASE Kill \/ PowerLoss BY <2>2, <2>11 DEF Kill, PowerLoss, Crash
  <2>12. CASE \E m \in env.modes : Open(m) BY <1>0, <2>1, <2>12 DEF Open, Recover
  <2>13. CASE \E w \in env.workers : Consume(w) \/ AdvanceChangelogConsumer(w)
    BY <2>3, <2>13 DEF Consume, AdvanceChangelogConsumer
  <2>14. CASE DeleteChangelogConsumer
    BY <2>1, <2>3, <2>14 DEF DeleteChangelogConsumer
  <2>15. CASE UNCHANGED vars BY <2>1, <2>15 DEF vars, procVars, Barred
  <2>16. CASE Creating
    BY <1>0, <2>1, <2>2, <2>16, CreateFacts
  <2> QED BY <2>16, <2>5, <2>6, <2>7, <2>8, <2>9, <2>10, <2>11, <2>12, <2>13, <2>14, <2>15
          DEF Creating, Next, Progress
<1> QED BY <1>2, <1>3, <1>4

(* A sidecar that is lost with nothing pending bars the consumers it had   *)
(* records for, and only these.                                            *)
LEMMA LossStep ==
  ASSUME IInv, CursorInv, LoseSidecar, keys = {}
  PROVE  CursorInv'
<1>0. /\ TypeOK /\ Len(log) \in Nat /\ DOMAIN log = 1..Len(log)
      /\ prim.cursor \in Nat \cup {Unregistered} /\ Cardinality(keys) = 0
  BY LenProperties, PrimaryType, FS_EmptySet DEF IInv, TypeOK
<1>1. /\ log' \in Seq(Frame) /\ Len(log') \in Nat /\ Len(log') <= Len(log) /\ synced' = Len(log')
      /\ \A i \in 1..Len(log') : log'[i] = log[i]
  BY LossFacts
<1>2. DOMAIN log' = 1..Len(log') BY <1>1, LenProperties
<1>3. /\ prim' = prim /\ phase' = phase /\ phase = "down" /\ mode' = mode
      /\ processed' = processed /\ keys' = {}
      /\ seen' = [w \in Worker |-> [from |-> 0, upto |-> 0]]
  BY DEF LoseSidecar, procVars, keys
<1>4. ASSUME NEW b \in Int, b <= Len(log'),
             \A i \in DOMAIN log' : i <= b => log'[i].intent \in processed
      PROVE  ReadNext(b)
  <2>1. Cardinality(keys') = 0 BY <1>3, FS_EmptySet
  <2>2. b <= synced' + Cardinality(keys') BY <1>1, <1>4, <2>1
  <2> QED BY <1>3, <1>4, <2>2 DEF ReadNext, CleanupPhases
<1>5. \A w \in Worker : ReadNext(seen'[w].upto)
  <2>1. ReadNext(0)
    <3>1. \A i \in DOMAIN log' : ~(i <= 0) BY <1>2
    <3>2. 0 \in Int /\ 0 <= Len(log') BY <1>1
    <3> QED BY <1>4, <3>1, <3>2
  <2> QED BY <1>3, <2>1
<1>6. ASSUME NEW i \in DOMAIN log', i <= prim.cursor PROVE log'[i].intent \in processed
  <2>1. i \in DOMAIN log /\ log'[i] = log[i] BY <1>0, <1>1, <1>2
  <2> QED BY <1>6, <2>1 DEF CursorInv, ReadTo, Barred
<1>7. CASE prim.cursor <= Len(log')
  <2>1. prim.cursor \in Int BY <1>0 DEF Unregistered
  <2>2. ReadNext(prim.cursor) BY <1>4, <1>6, <1>7, <2>1
  <2>3. ReadTo(prim.cursor)' BY <1>3, <2>2 DEF ReadTo, ReadNext
  <2> QED BY <1>5, <2>3 DEF CursorInv, ReadTo, ReadNext
<1>8. CASE ~(prim.cursor <= Len(log'))
  <2>1. prim.cursor \in Nat /\ prim.cursor > Len(log')
    BY <1>0, <1>1, <1>8 DEF Unregistered
  <2>2. \A i \in DOMAIN log' : i <= prim.cursor BY <1>1, <1>2, <2>1
  <2>3. Barred' BY <1>3, <1>6, <2>1, <2>2 DEF Barred
  <2> QED BY <1>5, <2>3 DEF CursorInv, ReadTo, ReadNext
<1> QED BY <1>7, <1>8

(* A sidecar that is deleted or replaced by an older copy while no intent  *)
(* is pending costs no consumer a record: no handle serves the consumer    *)
(* whose history is gone. (With intents pending this is not so:            *)
(* recoverChangelogOutbox appends them and records a new checkpoint before *)
(* validateChangelogConsumerHistoryLocked compares the old one.)           *)
THEOREM LossIsNoticed ==
  Spec /\ [][LoseSidecar => prim.outbox = NoEntries]_vars => []NothingSkipped
<1> DEFINE EmptyLoss == LoseSidecar => prim.outbox = NoEntries
<1>1. Init => CursorInv
  <2> SUFFICES ASSUME Init PROVE CursorInv
    OBVIOUS
  <2>1. losses = 0 /\ ReadInv BY InitInv DEF Init, IInv
  <2> QED BY <2>1 DEF ReadInv, CursorInv
<1>2. IInv /\ CursorInv /\ [Next]_vars /\ [EmptyLoss]_vars => CursorInv'
  <2> SUFFICES ASSUME IInv, CursorInv, [Next]_vars, [EmptyLoss]_vars PROVE CursorInv'
    OBVIOUS
  <2>1. CASE LoseSidecar
    <3>1. losses \in Nat BY DEF IInv, TypeOK
    <3>2. vars' # vars BY <2>1, <3>1 DEF LoseSidecar, vars, counters
    <3>3. keys = {} BY <2>1, <3>2, PrimaryType DEF IInv
    <3> QED BY <2>1, <3>3, LossStep
  <2>2. CASE ~LoseSidecar
    <3>1. /\ \A w \in Worker : ReadNext(seen'[w].upto)
          /\ ReadTo(prim.cursor) \/ prim'.cursor # prim.cursor => ReadNext(prim'.cursor)
      BY <2>2, Served, WorkersStep DEF CursorInv
    <3>2. ReadNext(prim'.cursor) \/ Barred' BY <2>2, <3>1, BarredStep DEF CursorInv
    <3> QED BY <3>1, <3>2 DEF CursorInv, ReadTo, ReadNext
  <2> QED BY <2>1, <2>2
<1>3. IInv /\ CursorInv => NothingSkipped
  <2> SUFFICES ASSUME IInv, CursorInv, phase = "ready", mode # "off",
                      NEW i \in 1..prim.cursor, i \in DOMAIN log
               PROVE  log[i].intent \in processed
    BY DEF NothingSkipped
  <2>1. ReadTo(prim.cursor) BY DEF CursorInv, Barred
  <2>2. prim.cursor \in Int BY PrimaryType DEF IInv, Unregistered
  <2> QED BY <2>1, <2>2 DEF ReadTo
<1> QED BY <1>1, <1>2, <1>3, Invariance, PTL DEF Spec

(* The durable cursor only moves forward until the consumer is deleted,    *)
(* also with several workers that acknowledge late.                        *)
THEOREM CursorForward == Spec => CursorMonotone
<1> DEFINE Forward == prim'.cursor < prim.cursor => prim'.cursor = Unregistered
<1>1. IInv /\ [Next]_vars => [Forward]_vars
  <2> SUFFICES ASSUME IInv, [Next]_vars PROVE Forward
    OBVIOUS
  <2>0. TypeOK /\ prim.cursor \in Int BY PrimaryType DEF IInv, Unregistered
  <2>1. CASE prim'.cursor = prim.cursor BY <2>0, <2>1
  <2>2. CASE prim'.cursor = Unregistered BY <2>2
  <2>3. CASE Advancing
    <3>1. PICK w \in Worker : MayAdvance(seen[w].from, seen[w].upto)
                              /\ prim' = Advanced(seen[w].upto)
      BY <2>3 DEF Advancing
    <3>2. seen[w].upto \in Nat /\ seen[w].from \in Nat BY <2>0 DEF TypeOK
    <3>3. prim'.cursor = seen[w].upto BY <2>0, <3>1, <3>2, AdvancedFacts
    <3>4. prim'.cursor >= prim.cursor
      BY <2>0, <3>1, <3>2, <3>3 DEF MayAdvance, Unregistered
    <3> QED BY <2>0, <3>2, <3>3, <3>4
  <2>4. CASE prim' = prim BY <2>1, <2>4
  <2>5. CASE Staging BY <2>1, <2>5, StagingFacts
  <2>6. CASE Cleaning BY <2>0, <2>1, <2>6, CleanedFacts DEF Cleaning
  <2>7. CASE Deleting BY <2>0, <2>2, <2>7, DeletedFacts DEF Deleting
  <2> QED BY <2>0, <2>3, <2>4, <2>5, <2>6, <2>7, PrimStep
<1> QED BY <1>1, Invariance, PTL DEF Spec, CursorMonotone
=============================================================================
