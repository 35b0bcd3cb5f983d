-------------------------- MODULE Rotation_proofs ---------------------------
(***************************************************************************)
(* Proofs about Rotation for any batch size and any number of updates,     *)
(* rotations, errors and crashes: a path without a marker holds one whole  *)
(* database, a retired credential does not come back, and the marker comes *)
(* with what recovery needs.                                               *)
(*                                                                         *)
(* The invariant has two parts.  Sound says that the directory, as it is   *)
(* after every single operation, is one the program can go on from; the    *)
(* others say how far the scripts of the swap and of the rollback have     *)
(* come, and what a power loss can bring back (MediumInv).                 *)
(***************************************************************************)
EXTENDS Rotation, FiniteSetTheorems, WellFoundedInduction, TLAPS

-----------------------------------------------------------------------------
(* The surroundings the theorems are about: the operator removes leftover  *)
(* backups, a sync does not fail after its operation, and crashes are of   *)
(* one kind.                                                               *)
Tended == TidyOperator /\ ~SyncErrors /\ CrashKinds # {"kill", "power"}

-----------------------------------------------------------------------------
(* Types. *)

Tree == {p \in Primary : IsFiniteSet(p.rows)}

Directory ==
  {d \in [Name -> Primary \cup Changelog \cup WAL \cup State \cup {Absent}] :
     /\ {d["db"], d["bak"], d["tmp"]} \subseteq Tree \cup {Absent}
     /\ {d["log"], d["logbak"], d["logtmp"]} \subseteq Changelog \cup {Absent}
     /\ d["wal"] \in WAL \cup {Absent} /\ d["state"] \in State \cup {Absent}}

(* The files that are open are there.                                      *)
InUse ==
  /\ phase \in {"open", "copy"} => Present("db") /\ Present("log")
  /\ phase = "copy" => Present("tmp") /\ Present("logtmp")

TypeOK ==
  /\ files \in Directory /\ medium \in Directory /\ unsynced \in BOOLEAN
  /\ phase \in {"idle", "open", "copy", "mark", "swap", "recover"}
  /\ step \in Nat /\ from \in Nat
  /\ updates \in Nat /\ attempts \in Nat /\ promised \in Nat
  /\ failures \in Nat /\ crashes \in Nat
  /\ phase \in {"swap", "recover"} => step >= 1
  /\ InUse

-----------------------------------------------------------------------------
(* What a directory holds. *)

Ids(p) == {r.id : r \in p.rows}

(* One whole database with u updates, under a credential from lo to hi.    *)
Whole(p, l, u, lo, hi) ==
  /\ p \in Tree /\ l \in Changelog
  /\ Ids(p) = 1..u /\ l.frames = 1..u
  /\ p.cred = l.cred /\ lo <= p.cred /\ p.cred <= hi

Marked(d) == d["state"] # Absent

(* The file, or its backup as long as a marker says that it counts.        *)
Valid(d, n, backup) == IF Marked(d) /\ d[backup] # Absent THEN d[backup] ELSE d[n]

(* A directory from which the program can go on: without a marker one      *)
(* whole database, with a marker what a rollback makes one of.             *)
Good(d, u, lo, hi) ==
  /\ Whole(Valid(d, "db", "bak"), Valid(d, "log", "logbak"), u, lo, hi)
  /\ d["wal"] \in {Absent, [cred |-> Valid(d, "db", "bak").cred]}

Sound == Good(files, updates, promised, attempts)

(* Files that do not count. *)
Unused(d) == {"tmp", "logtmp"} \cup (IF Marked(d) THEN {} ELSE {"bak", "logbak"})

-----------------------------------------------------------------------------
(* How far a call has come. *)

CopyInv ==
  /\ phase \in {"idle", "open", "copy"} => ~unsynced
  /\ phase \in {"open", "copy"} => ~Marked(files)
  /\ phase = "open" => files["wal"] = [cred |-> files["db"].cred]
  /\ phase \in {"copy", "mark"} =>
       files["bak"] = Absent /\ files["logbak"] = Absent /\ promised < attempts
  /\ phase = "copy" =>
       /\ Ids(files["tmp"]) = {i \in 1..updates : i <= from}
       /\ files["tmp"].cred = attempts /\ files["logtmp"].cred = attempts

MarkInv ==
  phase = "mark" =>
    /\ step \in 1..3
    /\ Marked(files) <=> (step > 1)
    /\ unsynced <=> (step > 1)
    /\ Whole(files["tmp"], files["logtmp"], updates, attempts, attempts)

(* Operation n of the script has been made. *)
Did(n) == step > n \/ (step = n /\ unsynced)

SwapInv ==
  phase = "swap" =>
    /\ step \in 1..10
    /\ step \in {1, 3, 10} => ~unsynced
    /\ Marked(files) <=> ~Did(8)
    /\ IF step < 9 THEN promised < attempts ELSE promised = attempts
    /\ step < 9 => /\ (files["bak"] = Absent) <=> ~Did(2)
                   /\ (files["logbak"] = Absent) <=> ~Did(4)
                   /\ (Did(2) /\ ~Did(5)) => files["db"] = Absent
                   /\ (Did(4) /\ ~Did(6)) => files["log"] = Absent
    /\ Did(7) => files["wal"] = Absent
    /\ Whole(IF Did(5) THEN files["db"] ELSE files["tmp"],
             IF Did(6) THEN files["log"] ELSE files["logtmp"], updates, attempts, attempts)

RecoverInv ==
  phase = "recover" =>
    /\ step \in 1..5
    /\ step = 5 => ~unsynced
    /\ Marked(files) <=> ~Did(4)
    /\ step > 1 => files["bak"] = Absent
    /\ step > 2 => files["logbak"] = Absent

(* What a power loss can bring back: the directory before the operation,   *)
(* or any mixture that differs in files that do not count.                 *)
OneChanged == \E n \in Name : \A m \in Name \ {n} : files[m] = medium[m]
Replaced == \E n \in Name : files[n] \notin {Absent, medium[n]}
OnlyUnused ==
  files["state"] = medium["state"] /\ \A m \in Name \ Unused(files) : files[m] = medium[m]

MediumInv ==
  "kill" \notin CrashKinds =>
    /\ ~unsynced => medium = files
    /\ unsynced =>
         /\ Good(medium, updates, promised, attempts)
         /\ phase = "mark" => medium = [files EXCEPT !["state"] = Absent]
         /\ OneChanged \/ Replaced \/ OnlyUnused
         /\ ((phase = "swap" /\ step = 9) \/ (phase = "recover" /\ step = 3)) => OnlyUnused

Inv ==
  /\ promised <= attempts
  /\ Sound
  /\ CopyInv /\ MarkInv /\ SwapInv /\ RecoverInv /\ MediumInv

IInv == TypeOK /\ (Tended => Inv)

-----------------------------------------------------------------------------
(* Directories. *)

LEMMA Names ==
  ASSUME NEW d \in Directory
  PROVE  /\ DOMAIN d = Name
         /\ d["db"] \in Tree \cup {Absent} /\ d["bak"] \in Tree \cup {Absent}
         /\ d["tmp"] \in Tree \cup {Absent}
         /\ d["log"] \in Changelog \cup {Absent} /\ d["logbak"] \in Changelog \cup {Absent}
         /\ d["logtmp"] \in Changelog \cup {Absent}
         /\ d["wal"] \in WAL \cup {Absent} /\ d["state"] \in State \cup {Absent}
  BY DEF Directory

LEMMA TreeFields ==
  ASSUME NEW p \in Tree
  PROVE  /\ p.rows \subseteq Row /\ IsFiniteSet(p.rows) /\ p.head \in Nat /\ p.cred \in Nat
         /\ p # Absent
  BY RotationValues DEF Tree, Primary

LEMMA LogFields ==
  ASSUME NEW l \in Changelog
  PROVE  l.frames \subseteq Nat /\ l.cred \in Nat /\ l # Absent
  BY RotationValues DEF Changelog

LEMMA OtherValues ==
  /\ \A c \in Nat : [cred |-> c] \in WAL /\ [cred |-> c] # Absent
  /\ \A b \in BOOLEAN : [valid |-> b] \in State /\ [valid |-> b] # Absent
  BY RotationValues DEF WAL, State

(* Erasing, moving and overwriting of files. *)
LEMMA ErasedType ==
  ASSUME NEW d \in Directory, NEW n \in Name
  PROVE  [d EXCEPT ![n] = Absent] \in Directory
  BY DEF Directory, Name

LEMMA PrimaryType ==
  ASSUME NEW d \in Directory, NEW n \in {"db", "bak", "tmp"}, NEW p \in Tree \cup {Absent}
  PROVE  [d EXCEPT ![n] = p] \in Directory
  BY DEF Directory, Name, Tree

LEMMA LogType ==
  ASSUME NEW d \in Directory, NEW n \in {"log", "logbak", "logtmp"},
         NEW l \in Changelog \cup {Absent}
  PROVE  [d EXCEPT ![n] = l] \in Directory
  BY DEF Directory, Name

LEMMA OtherType ==
  ASSUME NEW d \in Directory
  PROVE  /\ \A w \in WAL \cup {Absent} : [d EXCEPT !["wal"] = w] \in Directory
         /\ \A s \in State \cup {Absent} : [d EXCEPT !["state"] = s] \in Directory
  BY DEF Directory, Name

(* A mixture of two directories. *)
LEMMA MixType ==
  ASSUME NEW d \in Directory, NEW e \in Directory, NEW kept \in SUBSET Name
  PROVE  [n \in Name |-> IF n \in kept THEN e[n] ELSE d[n]] \in Directory
<1> DEFINE m == [n \in Name |-> IF n \in kept THEN e[n] ELSE d[n]]
<1>1. m \in [Name -> Primary \cup Changelog \cup WAL \cup State \cup {Absent}]
  BY DEF Directory
<1>2. \A n \in Name : m[n] = d[n] \/ m[n] = e[n]
  OBVIOUS
<1>3. {"db", "bak", "tmp", "log", "logbak", "logtmp", "wal", "state"} = Name
  BY DEF Name
<1> HIDE DEF m
<1> QED BY <1>1, <1>2, <1>3, Names DEF Directory

LEMMA NewFilesType ==
  ASSUME NEW c \in Nat
  PROVE  /\ [rows |-> {}, head |-> 0, cred |-> c] \in Tree
         /\ [frames |-> {}, cred |-> c] \in Changelog
  BY FS_EmptySet DEF Tree, Primary, Changelog

-----------------------------------------------------------------------------
(* The scripts. *)

LEMMA Scripts ==
  /\ Len(Swap) = 9 /\ Len(Rollback) = 4
  /\ Swap[1] = Remove({"bak"}) /\ Swap[2] = Rename("db", "bak")
  /\ Swap[3] = Remove({"logbak"}) /\ Swap[4] = Rename("log", "logbak")
  /\ Swap[5] = Rename("tmp", "db") /\ Swap[6] = Rename("logtmp", "log")
  /\ Swap[7] = Remove({"wal"}) /\ Swap[8] = Remove({"state"})
  /\ Swap[9] = Remove({"bak", "logbak"})
  /\ Rollback[1] = Restore("db", "bak") /\ Rollback[2] = Restore("log", "logbak")
  /\ Rollback[3] = Remove({"tmp", "logtmp"}) /\ Rollback[4] = Remove({"state"})
  BY DEF Swap, Rollback

LEMMA Kinds ==
  /\ \A a, b : /\ Rename(a, b).op = "rename"
               /\ Rename(a, b).from = a /\ Rename(a, b).to = b
  /\ \A ns : Remove(ns).op = "remove" /\ Remove(ns).names = ns
  /\ \A a, b : /\ Restore(a, b).op = "restore"
               /\ Restore(a, b).from = b /\ Restore(a, b).to = a
  BY DEF Rename, Remove, Restore

(* When an operation is done. *)
LEMMA DoneMeans ==
  /\ \A a, b : Done(Rename(a, b)) => unsynced
  /\ \A ns : Done(Remove(ns)) => \A n \in ns : files[n] = Absent
  /\ \A a, b : Done(Restore(a, b)) => files[b] = Absent /\ files[a] # Absent
<1>1. ASSUME NEW a, NEW b, Done(Rename(a, b)) PROVE unsynced
  <2>1. Rename(a, b).op = "rename" BY Kinds
  <2> QED BY <1>1, <2>1 DEF Done
<1>2. ASSUME NEW ns, Done(Remove(ns)) PROVE \A n \in ns : files[n] = Absent
  <2>1. Remove(ns).op = "remove" /\ Remove(ns).names = ns BY Kinds
  <2>2. \A n \in Remove(ns).names : ~Present(n)
    BY <1>2, <2>1 DEF Done
  <2> QED BY <2>1, <2>2 DEF Present
<1>3. ASSUME NEW a, NEW b, Done(Restore(a, b)) PROVE files[b] = Absent /\ files[a] # Absent
  <2>1. Restore(a, b).op = "restore" /\ Restore(a, b).from = b /\ Restore(a, b).to = a BY Kinds
  <2>2. ~Present(Restore(a, b).from) /\ Present(Restore(a, b).to) BY <1>3, <2>1 DEF Done
  <2> QED BY <2>1, <2>2 DEF Present
<1> QED BY <1>1, <1>2, <1>3

(* The place in the script decides what is done. *)
LEMMA StepNumbers ==
  ASSUME TypeOK, phase \in {"swap", "recover"}, step <= Len(Script)
  PROVE  \/ phase = "swap" /\ Script = Swap /\ step \in {1, 2, 3, 4, 5, 6, 7, 8, 9}
         \/ phase = "recover" /\ Script = Rollback /\ step \in {1, 2, 3, 4}
<1>1. step \in Nat /\ step >= 1 BY DEF TypeOK
<1>2. CASE phase = "swap"
  <2>1. Script = Swap /\ Len(Swap) = 9 BY <1>2, Scripts DEF Script
  <2>2. step <= 9 BY <2>1
  <2> QED BY <1>1, <1>2, <2>1, <2>2
<1>3. CASE phase = "recover"
  <2>1. Script = Rollback /\ Len(Rollback) = 4 BY <1>3, Scripts DEF Script
  <2>2. step <= 4 BY <2>1
  <2> QED BY <1>1, <1>3, <2>1, <2>2
<1> QED BY <1>2, <1>3

LEMMA Renames ==
  ASSUME TypeOK, DoRename
  PROVE  /\ phase = "swap"
         /\ \/ step = 2 /\ Move("db", "bak")
            \/ step = 4 /\ Move("log", "logbak")
            \/ step = 5 /\ Move("tmp", "db")
            \/ step = 6 /\ Move("logtmp", "log")
<1>1. phase \in {"swap", "recover"} /\ step <= Len(Script) /\ Script[step].op = "rename"
  BY DEF DoRename, Running
<1>2. Move(Script[step].from, Script[step].to)
  BY DEF DoRename
<1> QED BY <1>1, <1>2, StepNumbers, Scripts, Kinds

LEMMA Removes ==
  ASSUME TypeOK, DoRemove
  PROVE  \/ /\ phase = "swap"
            /\ \/ step = 1 /\ Erase("bak")
               \/ step = 3 /\ Erase("logbak")
               \/ step = 7 /\ Erase("wal")
               \/ step = 8 /\ Erase("state")
               \/ step = 9 /\ (Erase("bak") \/ Erase("logbak"))
         \/ /\ phase = "recover"
            /\ \/ step = 3 /\ (Erase("tmp") \/ Erase("logtmp"))
               \/ step = 4 /\ Erase("state")
<1>1. phase \in {"swap", "recover"} /\ step <= Len(Script) /\ Script[step].op = "remove"
  BY DEF DoRemove, Running
<1>2. PICK n \in Script[step].names : Erase(n)
  BY DEF DoRemove
<1> QED BY <1>1, <1>2, StepNumbers, Scripts, Kinds

LEMMA Restores ==
  ASSUME TypeOK, DoRestore
  PROVE  /\ phase = "recover" /\ ~unsynced
         /\ \/ /\ step = 1 /\ Present("bak")
               /\ Erase("db") \/ (~Present("db") /\ Move("bak", "db"))
            \/ /\ step = 2 /\ Present("logbak")
               /\ Erase("log") \/ (~Present("log") /\ Move("logbak", "log"))
<1>1. phase \in {"swap", "recover"} /\ step <= Len(Script) /\ Script[step].op = "restore"
  BY DEF DoRestore, Running
<1>2. /\ ~unsynced /\ Present(Script[step].from)
      /\ \/ Erase(Script[step].to)
         \/ ~Present(Script[step].to) /\ Move(Script[step].from, Script[step].to)
  BY DEF DoRestore
<1> QED BY <1>1, <1>2, StepNumbers, Scripts, Kinds

(* A sync completes a step that has done its work. *)
LEMMA SwapSyncs ==
  ASSUME TypeOK, Sync, phase = "swap"
  PROVE  /\ step \in 1..9 /\ step' = step + 1 /\ phase' = phase
         /\ step \in {2, 4, 5, 6} => unsynced
         /\ step = 7 => files["wal"] = Absent
         /\ step = 8 => files["state"] = Absent
         /\ promised' = IF step = 8 THEN attempts ELSE promised
<1>1. step <= Len(Script) BY DEF Sync
<1>2. Script = Swap /\ step \in {1, 2, 3, 4, 5, 6, 7, 8, 9} BY <1>1, StepNumbers
<1>3. Done(Script[step]) BY <1>2, Scripts, Kinds DEF Sync, Running
<1>4. step \in {2, 4, 5, 6} => unsynced BY <1>2, <1>3, Scripts, DoneMeans
<1>5. step = 7 => files["wal"] = Absent BY <1>2, <1>3, Scripts, DoneMeans
<1>6. step = 8 => files["state"] = Absent BY <1>2, <1>3, Scripts, DoneMeans
<1>7. Commits <=> step = 8
  <2>1. Script[step] = Remove({"state"}) => step = 8
    <3> SUFFICES ASSUME Script[step] = Remove({"state"}) PROVE step = 8
      OBVIOUS
    <3>1. Script[step].op = "remove" /\ Script[step].names = {"state"} BY Kinds
    <3>2. step \in {1, 3, 7, 8, 9} BY <1>2, <3>1, Scripts, Kinds
    <3> QED BY <1>2, <3>1, <3>2, Scripts, Kinds
  <2> QED BY <1>2, <2>1, Scripts DEF Commits
<1> QED BY <1>2, <1>3, <1>4, <1>5, <1>6, <1>7 DEF Sync

LEMMA RecoverSyncs ==
  ASSUME TypeOK, Sync, phase = "recover"
  PROVE  /\ step \in 1..4 /\ step' \in {step, step + 1} /\ phase' = phase
         /\ (step' = step + 1 /\ step = 1) => files["bak"] = Absent
         /\ (step' = step + 1 /\ step = 2) => files["logbak"] = Absent
         /\ (step' = step + 1 /\ step = 4) => files["state"] = Absent
         /\ step = 4 => step' = 5
         /\ promised' = promised
<1>1. step <= Len(Script) BY DEF Sync
<1>2. Script = Rollback /\ step \in {1, 2, 3, 4} BY <1>1, StepNumbers
<1>3. step' = step + 1 => Done(Script[step]) BY <1>2 DEF Sync
<1>4. step = 4 => Done(Script[step]) BY <1>2, Scripts, Kinds DEF Sync, Running
<1>5. (step' = step + 1 /\ step = 1) => files["bak"] = Absent
  BY <1>2, <1>3, Scripts, DoneMeans
<1>6. (step' = step + 1 /\ step = 2) => files["logbak"] = Absent
  BY <1>2, <1>3, Scripts, DoneMeans
<1>7. step = 4 => files["state"] = Absent
  BY <1>2, <1>4, Scripts, DoneMeans
<1>8. ~Commits BY DEF Commits
<1> QED BY <1>2, <1>4, <1>5, <1>6, <1>7, <1>8 DEF Sync

-----------------------------------------------------------------------------
(* Types. *)

(* Names that hold a primary, and names that hold a changelog. *)
Primaries == {"db", "bak", "tmp"}
Changelogs == {"log", "logbak", "logtmp"}

LEMMA MovedType ==
  ASSUME NEW d \in Directory, NEW a, NEW b,
         (a \in Primaries /\ b \in Primaries) \/ (a \in Changelogs /\ b \in Changelogs)
  PROVE  [d EXCEPT ![b] = d[a], ![a] = Absent] \in Directory
<1>1. CASE a \in Primaries /\ b \in Primaries
  <2>1. d[a] \in Tree \cup {Absent} BY <1>1, Names DEF Primaries
  <2>2. [d EXCEPT ![b] = d[a]] \in Directory BY <1>1, <2>1, PrimaryType DEF Primaries
  <2> QED BY <1>1, <2>2, ErasedType DEF Primaries, Name
<1>2. CASE a \in Changelogs /\ b \in Changelogs
  <2>1. d[a] \in Changelog \cup {Absent} BY <1>2, Names DEF Changelogs
  <2>2. [d EXCEPT ![b] = d[a]] \in Directory BY <1>2, <2>1, LogType DEF Changelogs
  <2> QED BY <1>2, <2>2, ErasedType DEF Changelogs, Name
<1> QED BY <1>1, <1>2

(* A finite set of rows has one with the greatest number. *)
LEMMA LastRow ==
  ASSUME NEW B, IsFiniteSet(B), B # {}, \A r \in B : r.id \in Nat
  PROVE  \E r \in B : \A q \in B : q.id <= r.id
<1> DEFINE Above(r) == {q \in B : q.id > r.id}
           C == {Cardinality(Above(r)) : r \in B}
<1>1. \A r \in B : IsFiniteSet(Above(r)) /\ Cardinality(Above(r)) \in Nat
  <2> SUFFICES ASSUME NEW r \in B PROVE IsFiniteSet(Above(r)) /\ Cardinality(Above(r)) \in Nat
    OBVIOUS
  <2>1. IsFiniteSet(Above(r)) BY FS_Subset
  <2> QED BY <2>1, FS_CardinalityType
<1>2. PICK c \in C : \A e \in C : c <= e
  <2> DEFINE R == OpToRel(<, Nat)
  <2>1. IsWellFoundedOn(R, Nat) BY NatLessThanWellFounded
  <2>2. R = {ss \in Nat \X Nat : ss[1] < ss[2]} BY DEF OpToRel
  <2>3. C \in SUBSET Nat /\ C # {} BY <1>1
  <2> HIDE DEF R, C
  <2>4. PICK c \in C : \A e \in C : ~(<<e, c>> \in R) BY <2>1, <2>3, WFMin
  <2>5. \A e \in C : ~(e < c) BY <2>2, <2>3, <2>4
  <2>6. \A e \in C : c <= e BY <2>3, <2>5
  <2> QED BY <2>6
<1>3. PICK r \in B : c = Cardinality(Above(r))
  BY <1>2
<1>4. ASSUME NEW q \in B, ~(q.id <= r.id) PROVE FALSE
  <2>1. r.id \in Nat /\ q.id \in Nat BY <1>4
  <2>2. q.id > r.id BY <1>4, <2>1
  <2>3. Above(q) \subseteq Above(r)
    <3>1. ASSUME NEW z \in B, z.id > q.id PROVE z.id > r.id
      <4>1. z.id \in Nat OBVIOUS
      <4> QED BY <2>1, <2>2, <3>1, <4>1
    <3> QED BY <3>1
  <2>4. q \in Above(r) /\ q \notin Above(q) BY <2>1, <2>2
  <2>5. Cardinality(Above(q)) \in Nat /\ Cardinality(Above(r)) \in Nat /\ IsFiniteSet(Above(r))
    BY <1>1
  <2>6. Cardinality(Above(q)) < Cardinality(Above(r))
    <3> HIDE DEF Above
    <3>1. Cardinality(Above(q)) <= Cardinality(Above(r))
      BY <2>3, <2>5, FS_Subset
    <3>2. Cardinality(Above(q)) # Cardinality(Above(r))
      BY <2>3, <2>4, <2>5, FS_Subset
    <3> QED BY <2>5, <3>1, <3>2
  <2>7. Cardinality(Above(q)) \in C BY <1>4
  <2>8. Cardinality(Above(r)) <= Cardinality(Above(q)) BY <1>2, <1>3, <2>7
  <2> QED BY <2>5, <2>6, <2>8
<1> QED BY <1>4

LEMMA BatchType ==
  ASSUME files["db"] \in Tree
  PROVE  /\ Batch \subseteq files["db"].rows /\ IsFiniteSet(Batch)
         /\ \A r \in Batch : r.id \in Nat
<1>1. Batch \subseteq files["db"].rows BY DEF Batch
<1>2. IsFiniteSet(Batch) BY <1>1, TreeFields, FS_Subset
<1>3. \A r \in Batch : r.id \in Nat BY <1>1, TreeFields DEF Row
<1> QED BY <1>1, <1>2, <1>3

(* The key the copy goes on from is the last one of the batch. *)
LEMMA BatchLast ==
  ASSUME files["db"] \in Tree, CopyBatch
  PROVE  /\ from' \in Nat /\ \E r \in Batch : from' = r.id
         /\ \A r \in Batch : r.id <= from'
<1> DEFINE T == {r.id : r \in Batch}
<1>1. \E q \in Batch : \A r \in Batch : r.id <= q.id
  BY BatchType, LastRow DEF CopyBatch
<1>2. \E x \in T : \A r \in Batch : r.id <= x BY <1>1
<1>3. from' = CHOOSE x \in T : \A r \in Batch : r.id <= x BY DEF CopyBatch
<1>4. from' \in T /\ \A r \in Batch : r.id <= from'
  <2> HIDE DEF T
  <2> QED BY <1>2, <1>3
<1> QED BY <1>4, BatchType

LEMMA OpenFiles ==
  ASSUME TypeOK
  PROVE  /\ phase \in {"open", "copy"} => files["db"] \in Tree /\ files["log"] \in Changelog
         /\ phase = "copy" => files["tmp"] \in Tree /\ files["logtmp"] \in Changelog
         /\ (phase = "idle" /\ Openable) => files["db"] \in Tree /\ files["log"] \in Changelog
<1>1. files \in Directory BY DEF TypeOK
<1> QED BY <1>1, Names DEF TypeOK, InUse, Present, Openable

LEMMA MoveType ==
  ASSUME TypeOK, NEW a, NEW b, Move(a, b),
         (a \in Primaries /\ b \in Primaries) \/ (a \in Changelogs /\ b \in Changelogs),
         phase \in {"swap", "recover"}
  PROVE  TypeOK'
<1>1. files' \in Directory BY MovedType DEF TypeOK, Move
<1> QED BY <1>1 DEF TypeOK, Move, counters, InUse

LEMMA EraseType ==
  ASSUME TypeOK, NEW n \in Name, Erase(n), phase \in {"swap", "recover"}
  PROVE  TypeOK'
<1>1. files' \in Directory BY ErasedType DEF TypeOK, Erase
<1> QED BY <1>1 DEF TypeOK, Erase, counters, InUse

LEMMA ScriptType ==
  ASSUME TypeOK, DoRename \/ DoRemove \/ DoRestore
  PROVE  TypeOK'
<1>1. phase \in {"swap", "recover"}
  BY DEF DoRename, DoRemove, DoRestore, Running
<1>2. CASE DoRename BY <1>1, <1>2, Renames, MoveType DEF Primaries, Changelogs
<1>3. CASE DoRemove BY <1>1, <1>3, Removes, EraseType DEF Name
<1>4. CASE DoRestore
  BY <1>1, <1>4, Restores, EraseType, MoveType DEF Name, Primaries, Changelogs
<1> QED BY <1>2, <1>3, <1>4

(* What a power loss leaves is a directory. *)
LEMMA SurvivorsType ==
  ASSUME TypeOK, NEW d \in Survivors
  PROVE  d \in Directory
<1>1. files \in Directory /\ medium \in Directory BY DEF TypeOK
<1>2. [files EXCEPT !["state"] = [valid |-> FALSE]] \in Directory
  BY <1>1, OtherType, OtherValues
<1>3. CASE d \in {[n \in Name |-> IF n \in kept THEN medium[n] ELSE files[n]] : kept \in SUBSET Name}
  BY <1>1, <1>3, MixType
<1>4. CASE d \in {files, medium, [files EXCEPT !["state"] = [valid |-> FALSE]]}
  BY <1>1, <1>2, <1>4
<1> QED BY <1>3, <1>4 DEF Survivors

(* A commit of the tree keeps the file a primary. *)
LEMMA UpdatedTree ==
  ASSUME NEW p \in Tree, NEW new \in SUBSET Row, IsFiniteSet(new), NEW h \in Nat
  PROVE  [p EXCEPT !.rows = @ \cup new, !.head = h] \in Tree
<1>1. IsFiniteSet(p.rows \cup new) BY TreeFields, FS_Union
<1> QED BY <1>1 DEF Tree, Primary

LEMMA UpdateTypes ==
  ASSUME TypeOK, Update
  PROVE  TypeOK'
<1>1. files["db"] \in Tree /\ files["log"] \in Changelog BY OpenFiles DEF Update
<1> DEFINE db == files["db"]
           row == [seq |-> db.head + 1, id |-> updates + 1]
           new == [db EXCEPT !.rows = @ \cup {row}, !.head = @ + 1]
           log == [files["log"] EXCEPT !.frames = @ \cup {updates + 1}]
<1>2. db.head \in Nat /\ updates \in Nat BY <1>1, TreeFields DEF TypeOK
<1>3. {row} \in SUBSET Row /\ IsFiniteSet({row}) /\ db.head + 1 \in Nat
  <2>1. IsFiniteSet({row}) BY FS_Singleton
  <2>2. row \in Row /\ db.head + 1 \in Nat BY <1>2 DEF Row
  <2> QED BY <2>1, <2>2
<1>4. new = [db EXCEPT !.rows = @ \cup {row}, !.head = db.head + 1] OBVIOUS
<1>5. new \in Tree
  <2> HIDE DEF row, new
  <2> QED BY <1>1, <1>3, <1>4, UpdatedTree
<1>6. log \in Changelog BY <1>1, <1>2 DEF Changelog
<1>7. /\ files' = [files EXCEPT !["db"] = new, !["log"] = log]
      /\ medium' = [medium EXCEPT !["db"] = new, !["log"] = log]
  BY DEF Update
<1> HIDE DEF new, log
<1>8. files' \in Directory /\ medium' \in Directory
  <2>1. ASSUME NEW d \in Directory PROVE [d EXCEPT !["db"] = new, !["log"] = log] \in Directory
    <3>1. [d EXCEPT !["db"] = new] \in Directory BY <1>5, PrimaryType
    <3> QED BY <1>6, <3>1, LogType
  <2> QED BY <1>7, <2>1 DEF TypeOK
<1>9. files'["db"] = new /\ files'["log"] = log
  BY <1>7, Names DEF TypeOK, Name
<1>10. new # Absent /\ log # Absent BY <1>5, <1>6, TreeFields, LogFields
<1>11. phase = "open" /\ updates' \in Nat
  BY <1>2 DEF Update
<1>12. UNCHANGED <<unsynced, phase, step, from, attempts, promised, failures, crashes>>
  BY DEF Update
<1>13. InUse' BY <1>9, <1>10, <1>11, <1>12 DEF InUse, Present
<1> QED BY <1>8, <1>11, <1>12, <1>13 DEF TypeOK

LEMMA TypeStep ==
  ASSUME TypeOK, [Next]_vars
  PROVE  TypeOK'
<1>0. files \in Directory /\ medium \in Directory BY DEF TypeOK
<1>1. CASE Open
  <2>1. files["db"] \in Tree /\ phase = "idle" /\ Openable BY <1>1, OpenFiles DEF Open
  <2>2. [cred |-> files["db"].cred] \in WAL BY <2>1, TreeFields, OtherValues
  <2>3. files' \in Directory /\ medium' \in Directory
    BY <1>0, <1>1, <2>2, OtherType DEF Open, Write
  <2>4. files'["db"] = files["db"] /\ files'["log"] = files["log"]
    BY <1>0, <1>1 DEF Open, Write, Directory, Name
  <2> QED BY <1>1, <2>1, <2>3, <2>4 DEF TypeOK, Open, counters, InUse, Openable, Present
<1>2. CASE Update BY <1>2, UpdateTypes
<1>3. CASE Close BY <1>3 DEF TypeOK, Close, dir, counters, InUse
<1>4. ASSUME NEW n \in {"bak", "logbak"}, RemoveLeftover(n) PROVE TypeOK'
  <2>1. files' \in Directory /\ medium' \in Directory
    BY <1>0, <1>4, ErasedType DEF RemoveLeftover, Write, Name
  <2> QED BY <1>4, <2>1 DEF TypeOK, RemoveLeftover, counters, InUse
<1>5. CASE BeginRotation
  <2> DEFINE w == [cred |-> files["db"].cred]
             t == [rows |-> {}, head |-> 0, cred |-> attempts + 1]
             l == [frames |-> {}, cred |-> attempts + 1]
             Fresh(d) == [d EXCEPT !["wal"] = w, !["tmp"] = t, !["logtmp"] = l]
  <2>1. files["db"] \in Tree /\ files["log"] \in Changelog
    BY <1>5, OpenFiles DEF BeginRotation
  <2>2. w \in WAL /\ t \in Tree /\ l \in Changelog
    BY <2>1, TreeFields, OtherValues, NewFilesType DEF TypeOK
  <2>3. files' = Fresh(files) /\ medium' = Fresh(medium) BY <1>5 DEF BeginRotation
  <2> HIDE DEF w, t, l
  <2>4. ASSUME NEW d \in Directory PROVE Fresh(d) \in Directory
    <3>1. [d EXCEPT !["wal"] = w] \in Directory BY <2>2, OtherType
    <3>2. [d EXCEPT !["wal"] = w, !["tmp"] = t] \in Directory BY <2>2, <3>1, PrimaryType
    <3> QED BY <2>2, <3>2, LogType
  <2>5. files' \in Directory /\ medium' \in Directory BY <1>0, <2>3, <2>4
  <2>6. /\ files'["db"] = files["db"] /\ files'["log"] = files["log"]
        /\ files'["tmp"] = t /\ files'["logtmp"] = l
    BY <1>0, <2>3 DEF Directory, Name
  <2>7. /\ files["db"] # Absent /\ files["log"] # Absent /\ t # Absent /\ l # Absent
    BY <2>1, <2>2, TreeFields, LogFields
  <2>8. /\ UNCHANGED <<unsynced, step, updates, promised, failures, crashes>>
        /\ phase' = "copy" /\ from' = 0 /\ attempts' = attempts + 1
    BY <1>5 DEF BeginRotation
  <2>9. InUse' BY <2>6, <2>7, <2>8 DEF InUse, Present
  <2> HIDE DEF Fresh
  <2> QED BY <2>5, <2>8, <2>9 DEF TypeOK
<1>6. CASE BeginRecovery BY <1>6 DEF TypeOK, BeginRecovery, dir, counters, InUse
<1>7. CASE CopyBatch
  <2>1. files["db"] \in Tree /\ files["tmp"] \in Tree BY <1>7, OpenFiles DEF CopyBatch
  <2>2. from' \in Nat BY <1>7, <2>1, BatchLast
  <2>3. Batch \in SUBSET Row /\ IsFiniteSet(Batch) BY <2>1, BatchType, TreeFields
  <2>4. CopiedHead \in Nat BY <2>1, TreeFields DEF CopiedHead
  <2> DEFINE t == [files["tmp"] EXCEPT !.rows = @ \cup Batch, !.head = CopiedHead]
  <2>5. t \in Tree BY <2>1, <2>3, <2>4, UpdatedTree
  <2>6. files' = [files EXCEPT !["tmp"] = t] /\ medium' = [medium EXCEPT !["tmp"] = t]
    BY <1>7 DEF CopyBatch, Write
  <2> HIDE DEF t
  <2>7. files' \in Directory /\ medium' \in Directory BY <1>0, <2>5, <2>6, PrimaryType
  <2>8. /\ files'["tmp"] = t
        /\ \A n \in {"db", "log", "logtmp"} : files'[n] = files[n]
    BY <1>0, <2>6 DEF Directory, Name
  <2>9. t # Absent BY <2>5, TreeFields
  <2>10. UNCHANGED <<unsynced, phase, step, counters>> /\ phase = "copy" BY <1>7 DEF CopyBatch
  <2>11. InUse' BY <2>8, <2>9, <2>10 DEF TypeOK, InUse, Present
  <2> QED BY <2>2, <2>7, <2>10, <2>11 DEF TypeOK, counters
<1>8. CASE FinishCopy
  <2>1. files["log"] \in Changelog /\ files["logtmp"] \in Changelog
    BY <1>8, OpenFiles DEF FinishCopy
  <2> DEFINE l == [files["logtmp"] EXCEPT !.frames = files["log"].frames]
  <2>2. l \in Changelog BY <2>1 DEF Changelog
  <2>3. files' = [files EXCEPT !["logtmp"] = l] /\ medium' = [medium EXCEPT !["logtmp"] = l]
    BY <1>8 DEF FinishCopy, Write
  <2> HIDE DEF l
  <2>4. files' \in Directory /\ medium' \in Directory BY <1>0, <2>2, <2>3, LogType
  <2> QED BY <1>8, <2>4 DEF TypeOK, FinishCopy, counters, InUse
<1>9. CASE CreateState \/ WriteState
  <2>1. files' \in Directory
    <3>1. PICK s \in State : files' = [files EXCEPT !["state"] = s]
      BY <1>9, OtherValues DEF CreateState, WriteState
    <3> QED BY <1>0, <3>1, OtherType
  <2>2. UNCHANGED <<medium, phase, from, counters>> /\ phase = "mark"
    BY <1>9 DEF CreateState, WriteState
  <2>3. step' \in {2, 3} /\ unsynced' \in {TRUE, unsynced}
    BY <1>9 DEF CreateState, WriteState
  <2>4. unsynced' \in BOOLEAN BY <2>3 DEF TypeOK
  <2> QED BY <2>1, <2>2, <2>3, <2>4 DEF TypeOK, counters, InUse
<1>10. CASE SyncState
  <2>1. UNCHANGED <<files, from, counters>> /\ phase' = "swap" /\ step' = 1
    BY <1>10 DEF SyncState
  <2>2. medium' = files /\ unsynced' \in BOOLEAN BY <1>10 DEF SyncState
  <2> QED BY <1>0, <2>1, <2>2 DEF TypeOK, counters, InUse
<1>11. CASE DoRename \/ DoRemove \/ DoRestore BY <1>11, ScriptType
<1>12. CASE Sync
  <2>1. phase \in {"swap", "recover"} BY <1>12 DEF Sync
  <2>2. UNCHANGED <<files, phase, from, updates, attempts, failures, crashes>>
    BY <1>12 DEF Sync
  <2>3. unsynced' \in BOOLEAN /\ medium' \in {files, medium} /\ promised' \in {attempts, promised}
    BY <1>12 DEF Sync
  <2>4. step' \in {step, step + 1} BY <1>12 DEF Sync
  <2>5. step' \in Nat /\ step' >= 1 BY <2>1, <2>4 DEF TypeOK
  <2> QED BY <1>0, <2>1, <2>2, <2>3, <2>5 DEF TypeOK, InUse
<1>13. CASE Finish BY <1>13 DEF TypeOK, Finish, dir, counters, InUse
<1>14. CASE CopyFails \/ MarkFails \/ SwapFails \/ RecoveryFails
  <2>1. files' \in Directory
    BY <1>0, <1>14, ErasedType DEF CopyFails, MarkFails, SwapFails, RecoveryFails, Name
  <2>2. UNCHANGED <<medium, from, updates, attempts, promised, crashes>> /\ failures' = failures + 1
    BY <1>14 DEF CopyFails, MarkFails, SwapFails, RecoveryFails, Fail
  <2>3. /\ unsynced' \in BOOLEAN
        /\ (phase' = "idle" /\ step' = 0) \/ (phase' = "recover" /\ step' = 1)
    BY <1>14 DEF TypeOK, CopyFails, MarkFails, SwapFails, RecoveryFails
  <2> QED BY <2>1, <2>2, <2>3 DEF TypeOK, InUse
<1>15. ASSUME NEW kind \in CrashKinds, Crash(kind) PROVE TypeOK'
  <2>1. files' \in Directory BY <1>0, <1>15, SurvivorsType DEF Crash
  <2>2. medium' \in Directory BY <1>0, <1>15, <2>1 DEF Crash
  <2>3. /\ UNCHANGED <<from, updates, attempts, promised, failures>> /\ crashes' = crashes + 1
        /\ phase' = "idle" /\ step' = 0
    BY <1>15 DEF Crash
  <2>4. unsynced' \in BOOLEAN BY <1>15 DEF Crash
  <2> QED BY <2>1, <2>2, <2>3, <2>4 DEF TypeOK, InUse
<1>16. CASE UNCHANGED vars BY <1>16 DEF TypeOK, vars, dir, counters, InUse, Present
<1> QED BY <1>1, <1>2, <1>3, <1>4, <1>5, <1>6, <1>7, <1>8, <1>9, <1>10, <1>11, <1>12, <1>13,
           <1>14, <1>15, <1>16 DEF Next, Steps

-----------------------------------------------------------------------------
(* Directories the program can go on from. *)

LEMMA GoodSame ==
  ASSUME NEW d, NEW e, NEW u, NEW lo, NEW hi, Good(d, u, lo, hi), Marked(d) <=> Marked(e),
         \A n \in {"db", "log", "wal"} : e[n] = d[n],
         Marked(d) => e["bak"] = d["bak"] /\ e["logbak"] = d["logbak"]
  PROVE  Good(e, u, lo, hi)
  BY DEF Good, Valid

LEMMA GoodWider ==
  ASSUME NEW d \in Directory, NEW u, NEW lo \in Nat, NEW hi \in Nat, Good(d, u, lo, hi),
         NEW a \in Nat, NEW b \in Nat, a <= lo, hi <= b
  PROVE  Good(d, u, a, b)
<1>1. Valid(d, "db", "bak") \in Tree BY DEF Good, Whole
<1>2. Valid(d, "db", "bak").cred \in Nat BY <1>1, TreeFields
<1> QED BY <1>2 DEF Good, Whole

LEMMA Erased ==
  ASSUME NEW d \in Directory, NEW n \in Name
  PROVE  /\ [d EXCEPT ![n] = Absent][n] = Absent
         /\ \A m \in Name : m # n => [d EXCEPT ![n] = Absent][m] = d[m]
  BY DEF Directory

LEMMA GoodErase ==
  ASSUME NEW d \in Directory, NEW u, NEW lo, NEW hi, Good(d, u, lo, hi), NEW n \in Name,
         \/ n \in Unused(d)
         \/ n = "wal"
         \/ n = "db" /\ Marked(d) /\ d["bak"] # Absent
         \/ n = "log" /\ Marked(d) /\ d["logbak"] # Absent
         \/ n = "state" /\ d["bak"] = Absent /\ d["logbak"] = Absent
  PROVE  Good([d EXCEPT ![n] = Absent], u, lo, hi)
<1> DEFINE e == [d EXCEPT ![n] = Absent]
<1>1. e[n] = Absent /\ \A m \in Name : m # n => e[m] = d[m] BY Erased
<1>2. {"db", "bak", "tmp", "log", "logbak", "logtmp", "wal", "state"} = Name BY DEF Name
<1> HIDE DEF e
<1>3. CASE n \in Unused(d)
  <2>1. Marked(d) <=> Marked(e) BY <1>1, <1>2, <1>3 DEF Unused, Marked
  <2>2. \A m \in {"db", "log", "wal"} : e[m] = d[m] BY <1>1, <1>2, <1>3 DEF Unused
  <2>3. Marked(d) => e["bak"] = d["bak"] /\ e["logbak"] = d["logbak"]
    BY <1>1, <1>2, <1>3 DEF Unused
  <2>4. Good(e, u, lo, hi) BY <2>1, <2>2, <2>3, GoodSame
  <2> QED BY <2>4 DEF e
<1>4. CASE n # "wal" /\ n \notin Unused(d)
  <2>1. Valid(e, "db", "bak") = Valid(d, "db", "bak") /\ Valid(e, "log", "logbak") = Valid(d, "log", "logbak")
    BY <1>1, <1>2, <1>4 DEF Valid, Marked, Unused
  <2>2. e["wal"] = d["wal"] BY <1>1, <1>2, <1>4
  <2>3. Good(e, u, lo, hi) BY <2>1, <2>2 DEF Good
  <2> QED BY <2>3 DEF e
<1>5. CASE n = "wal"
  <2>1. Valid(e, "db", "bak") = Valid(d, "db", "bak") /\ Valid(e, "log", "logbak") = Valid(d, "log", "logbak")
    BY <1>1, <1>2, <1>5 DEF Valid, Marked
  <2>2. Good(e, u, lo, hi) BY <1>1, <1>5, <2>1 DEF Good
  <2> QED BY <2>2 DEF e
<1> QED BY <1>3, <1>4, <1>5

LEMMA GoodMove ==
  ASSUME NEW d \in Directory, NEW u, NEW lo, NEW hi, Good(d, u, lo, hi), Marked(d),
         NEW a \in Name, NEW b \in Name, d[a] # Absent,
         \/ a = "db" /\ b = "bak" /\ d["bak"] = Absent
         \/ a = "log" /\ b = "logbak" /\ d["logbak"] = Absent
         \/ a = "tmp" /\ b = "db" /\ d["bak"] # Absent
         \/ a = "logtmp" /\ b = "log" /\ d["logbak"] # Absent
         \/ a = "bak" /\ b = "db"
         \/ a = "logbak" /\ b = "log"
  PROVE  Good([d EXCEPT ![b] = d[a], ![a] = Absent], u, lo, hi)
<1> DEFINE e == [d EXCEPT ![b] = d[a], ![a] = Absent]
<1>1. a # b /\ e = [d EXCEPT ![b] = d[a], ![a] = Absent] OBVIOUS
<1>2. d \in Directory /\ a \in Name /\ b \in Name OBVIOUS
<1> HIDE DEF e
<1>3. e[a] = Absent /\ e[b] = d[a] /\ \A m \in Name : m # a /\ m # b => e[m] = d[m]
  BY ONLY <1>1, <1>2 DEF Directory
<1>4. {"db", "bak", "tmp", "log", "logbak", "logtmp", "wal", "state"} = Name BY DEF Name
<1>5. e["wal"] = d["wal"] /\ e["state"] = d["state"] BY <1>3, <1>4
<1>6. Valid(e, "db", "bak") = Valid(d, "db", "bak") BY <1>3, <1>4, <1>5 DEF Valid, Marked
<1>7. Valid(e, "log", "logbak") = Valid(d, "log", "logbak") BY <1>3, <1>4, <1>5 DEF Valid, Marked
<1>8. Good(e, u, lo, hi) BY <1>5, <1>6, <1>7 DEF Good
<1> QED BY <1>8 DEF e

(* A power loss leaves a directory the program can go on from. *)
LEMMA SurvivorsGood ==
  ASSUME TypeOK, Inv, "kill" \notin CrashKinds, NEW d \in Survivors
  PROVE  Good(d, updates, promised, attempts)
<1>1. files \in Directory /\ medium \in Directory /\ Good(files, updates, promised, attempts)
  BY DEF TypeOK, Inv, Sound
<1>2. DOMAIN files = Name /\ DOMAIN medium = Name BY <1>1, Names
<1> DEFINE Mix(kept) == [n \in Name |-> IF n \in kept THEN medium[n] ELSE files[n]]
<1>3. CASE ~unsynced
  <2>1. medium = files BY <1>3 DEF Inv, MediumInv
  <2>2. PICK kept \in SUBSET Name : d = Mix(kept) BY <2>1 DEF Survivors
  <2>3. d = files
    <3>1. Mix(kept) = [n \in Name |-> files[n]] BY <2>1
    <3>2. files = [n \in Name |-> files[n]] BY <1>1 DEF Directory
    <3> QED BY <2>2, <3>1, <3>2
  <2> QED BY <1>1, <2>3
<1>4. CASE unsynced
  <2>1. Good(medium, updates, promised, attempts) BY <1>4 DEF Inv, MediumInv
  <2>2. CASE d \in {files, medium} BY <1>1, <2>1, <2>2
  <2>3. CASE phase = "mark" /\ d = [files EXCEPT !["state"] = [valid |-> FALSE]]
    <3>1. Marked(files) BY <1>4, <2>3 DEF Inv, MarkInv
    <3>2. d["state"] = [valid |-> FALSE] /\ \A n \in Name : n # "state" => d[n] = files[n]
      BY <2>3, <1>2 DEF Name
    <3>3. Marked(d) BY <3>2, OtherValues DEF Marked
    <3>4. \A n \in {"db", "log", "wal", "bak", "logbak"} : d[n] = files[n] BY <3>2 DEF Name
    <3> QED BY <1>1, <3>1, <3>3, <3>4, GoodSame
  <2>4. CASE /\ \A n \in Name : files[n] \in {Absent, medium[n]}
             /\ \E kept \in SUBSET Name : d = Mix(kept)
    <3>1. PICK kept \in SUBSET Name : d = Mix(kept) BY <2>4
    <3>2. d = [n \in Name |-> d[n]] /\ \A n \in Name : d[n] \in {files[n], medium[n]}
      BY <3>1
    <3>3. files = [n \in Name |-> files[n]] /\ medium = [n \in Name |-> medium[n]]
      BY <1>1 DEF Directory
    <3>4. CASE OneChanged
      <4>1. PICK n \in Name : \A m \in Name \ {n} : files[m] = medium[m] BY <3>4 DEF OneChanged
      <4>2. \A m \in Name : m # n => d[m] = files[m] /\ d[m] = medium[m] BY <3>2, <4>1
      <4>3. CASE d[n] = files[n]
        <5>1. \A m \in Name : d[m] = files[m] BY <4>2, <4>3
        <5>2. d = files BY <3>2, <3>3, <5>1
        <5> QED BY <1>1, <5>2
      <4>4. CASE d[n] = medium[n]
        <5>1. \A m \in Name : d[m] = medium[m] BY <4>2, <4>4
        <5>2. d = medium BY <3>2, <3>3, <5>1
        <5> QED BY <2>1, <5>2
      <4> QED BY <3>2, <4>3, <4>4
    <3>5. CASE OnlyUnused
      <4>1. \A n \in Name \ Unused(files) : d[n] = files[n] BY <3>2, <3>5 DEF OnlyUnused
      <4>2. \A n \in {"db", "log", "wal", "state"} : d[n] = files[n] BY <4>1 DEF Name, Unused
      <4>3. Marked(files) => d["bak"] = files["bak"] /\ d["logbak"] = files["logbak"]
        BY <4>1 DEF Name, Unused
      <4>4. Marked(d) <=> Marked(files) BY <4>2 DEF Marked
      <4> QED BY <1>1, <4>2, <4>3, <4>4, GoodSame
    <3>6. ~Replaced BY <2>4 DEF Replaced
    <3> QED BY <1>4, <3>4, <3>5, <3>6 DEF Inv, MediumInv
  <2> QED BY <2>2, <2>3, <2>4 DEF Survivors
<1> QED BY <1>3, <1>4


-----------------------------------------------------------------------------
(* The parts of the invariant that say nothing of a phase. *)

LEMMA IdleInv ==
  (/\ phase = "idle" /\ ~unsynced /\ promised <= attempts /\ Sound
   /\ "kill" \notin CrashKinds => medium = files) => Inv
BY DEF Inv, CopyInv, MarkInv, SwapInv, RecoverInv, MediumInv

LEMMA SwapPhase ==
  (phase = "swap" /\ promised <= attempts /\ Sound /\ SwapInv /\ MediumInv) => Inv
BY DEF Inv, CopyInv, MarkInv, RecoverInv

LEMMA RecoverPhase ==
  (phase = "recover" /\ promised <= attempts /\ Sound /\ RecoverInv /\ MediumInv) => Inv
BY DEF Inv, CopyInv, MarkInv, SwapInv

(* While nothing is unsynced the medium is the directory. *)
LEMMA Settled ==
  ASSUME Inv, ~unsynced, "kill" \notin CrashKinds
  PROVE  medium = files
BY DEF Inv, MediumInv

LEMMA InitInv == Init => IInv
<1> SUFFICES ASSUME Init PROVE IInv
  OBVIOUS
<1> DEFINE p == [rows |-> {}, head |-> 0, cred |-> 0]
           l == [frames |-> {}, cred |-> 0]
<1>1. p \in Tree /\ l \in Changelog BY NewFilesType
<1>2. /\ files["db"] = p /\ files["log"] = l
      /\ \A n \in Name : n \notin {"db", "log"} => files[n] = Absent
  BY DEF Init, Name
<1>3. Ids(p) = {} /\ p.cred = 0 /\ l.frames = {} /\ l.cred = 0 /\ 1..0 = {}
  BY DEF Ids
<1>4. files = [n \in Name |-> files[n]] BY DEF Init
<1> HIDE DEF p, l
<1>5. \A n \in Name : files[n] \in Primary \cup Changelog \cup {Absent}
  BY <1>1, <1>2 DEF Name, Tree
<1>6. files \in Directory
  <2>1. files \in [Name -> Primary \cup Changelog \cup WAL \cup State \cup {Absent}]
    BY <1>4, <1>5
  <2> QED BY <1>1, <1>2, <2>1 DEF Directory, Name
<1>7. TypeOK BY <1>6 DEF Init, TypeOK, InUse
<1>8. Good(files, 0, 0, 0)
  <2>1. ~Marked(files) /\ files["wal"] = Absent BY <1>2 DEF Marked, Name
  <2> QED BY <1>1, <1>2, <1>3, <2>1 DEF Good, Valid, Whole
<1>9. Inv
  <2>1. phase = "idle" /\ ~unsynced /\ promised <= attempts /\ medium = files BY DEF Init
  <2>2. Sound BY <1>8 DEF Init, Sound
  <2> QED BY <2>1, <2>2, IdleInv
<1> QED BY <1>7, <1>9 DEF IInv

-----------------------------------------------------------------------------
(* The application. *)

LEMMA OpenStep ==
  ASSUME TypeOK, Inv, Open
  PROVE  Inv'
<1> DEFINE w == [cred |-> files["db"].cred]
<1>0. files \in Directory /\ medium \in Directory BY DEF TypeOK
<1>1. ~Marked(files) /\ phase = "idle" /\ phase' = "open"
  BY DEF Open, Openable, Pending, Present, Marked
<1>2. files' = [files EXCEPT !["wal"] = w] /\ medium' = [medium EXCEPT !["wal"] = w]
  BY DEF Open, Write
<1>3. UNCHANGED <<unsynced, step, updates, attempts, promised>> BY DEF Open, counters
<1> HIDE DEF w
<1>4. files'["wal"] = w /\ \A n \in Name : n # "wal" => files'[n] = files[n]
  BY <1>0, <1>2 DEF Directory, Name
<1>5. {"db", "bak", "tmp", "log", "logbak", "logtmp", "wal", "state"} = Name BY DEF Name
<1>6. ~Marked(files') BY <1>1, <1>4, <1>5 DEF Marked
<1>7. files'["wal"] = [cred |-> files'["db"].cred] BY <1>4, <1>5 DEF w
<1>8. Good(files', updates, promised, attempts)
  BY <1>1, <1>4, <1>5, <1>6, <1>7 DEF Inv, Sound, Good, Valid
<1>9. ~unsynced /\ promised <= attempts BY <1>1 DEF Inv, CopyInv
<1>10. "kill" \notin CrashKinds => medium' = files' BY <1>2, <1>9, Settled
<1>11. Sound' BY <1>3, <1>8 DEF Sound
<1>12. CopyInv' BY <1>1, <1>3, <1>6, <1>7, <1>9 DEF CopyInv
<1>13. MarkInv' /\ SwapInv' /\ RecoverInv' BY <1>1 DEF MarkInv, SwapInv, RecoverInv
<1>14. MediumInv' BY <1>3, <1>9, <1>10 DEF MediumInv
<1> QED BY <1>3, <1>9, <1>11, <1>12, <1>13, <1>14 DEF Inv

LEMMA UpdateStep ==
  ASSUME TypeOK, Inv, Update
  PROVE  Inv'
<1> DEFINE db == files["db"]
           row == [seq |-> db.head + 1, id |-> updates + 1]
           new == [db EXCEPT !.rows = @ \cup {row}, !.head = @ + 1]
           log == [files["log"] EXCEPT !.frames = @ \cup {updates + 1}]
<1>0. files \in Directory /\ medium \in Directory /\ updates \in Nat BY DEF TypeOK
<1>1. TypeOK' BY UpdateTypes
<1>2. db \in Tree /\ files["log"] \in Changelog BY OpenFiles DEF Update
<1>3. ~Marked(files) /\ ~unsynced /\ files["wal"] = [cred |-> db.cred] /\ phase = "open"
  BY DEF Update, Inv, CopyInv
<1>4. /\ files' = [files EXCEPT !["db"] = new, !["log"] = log]
      /\ medium' = [medium EXCEPT !["db"] = new, !["log"] = log]
  BY DEF Update
<1>5. UNCHANGED <<unsynced, phase, step, from, attempts, promised>> /\ updates' = updates + 1
  BY DEF Update
<1>6. Whole(db, files["log"], updates, promised, attempts)
  BY <1>3 DEF Inv, Sound, Good, Valid
<1>7. new.cred = db.cred /\ new.rows = db.rows \cup {row} BY <1>2 DEF Tree, Primary
<1>8. log.cred = files["log"].cred /\ log.frames = files["log"].frames \cup {updates + 1}
  BY <1>2 DEF Changelog
<1>9. (1..updates) \cup {updates + 1} = 1..(updates + 1) BY <1>0
<1>10. Ids(new) = 1..(updates + 1)
  <2>1. Ids(new) = Ids(db) \cup {updates + 1}
    <3>1. row.id = updates + 1 OBVIOUS
    <3> HIDE DEF new, row
    <3> QED BY <1>7, <3>1 DEF Ids
  <2> QED BY <1>6, <1>9, <2>1 DEF Whole
<1> HIDE DEF new, log
<1>11. files'["db"] = new /\ files'["log"] = log
       /\ \A n \in Name : n \notin {"db", "log"} => files'[n] = files[n]
  BY <1>0, <1>4 DEF Directory, Name
<1>12. new \in Tree /\ log \in Changelog
  <2>1. files'["db"] \in Tree /\ files'["log"] \in Changelog
    <3>1. files' \in Directory BY <1>1 DEF TypeOK
    <3>2. files'["db"] # Absent /\ files'["log"] # Absent
      BY <1>1, <1>3, <1>5 DEF TypeOK, InUse, Present
    <3> QED BY <3>1, <3>2, Names
  <2> QED BY <1>11, <2>1
<1>13. Whole(new, log, updates + 1, promised, attempts)
  BY <1>6, <1>7, <1>8, <1>9, <1>10, <1>12 DEF Whole
<1>14. ~Marked(files') /\ files'["wal"] = [cred |-> new.cred]
  BY <1>3, <1>7, <1>11 DEF Marked, Name
<1>15. Sound' BY <1>5, <1>11, <1>13, <1>14 DEF Sound, Good, Valid
<1>16. "kill" \notin CrashKinds => medium' = files' BY <1>3, <1>4, Settled
<1>17. CopyInv' BY <1>3, <1>5, <1>11, <1>14 DEF CopyInv
<1>18. MarkInv' /\ SwapInv' /\ RecoverInv' BY <1>3, <1>5 DEF MarkInv, SwapInv, RecoverInv
<1>19. MediumInv' BY <1>3, <1>5, <1>16 DEF MediumInv
<1>20. promised' <= attempts' BY <1>5 DEF Inv
<1> QED BY <1>15, <1>17, <1>18, <1>19, <1>20 DEF Inv

LEMMA CloseStep ==
  ASSUME TypeOK, Inv, Close
  PROVE  Inv'
<1>1. UNCHANGED <<files, medium, unsynced, updates, attempts, promised>> /\ phase' = "idle"
  BY DEF Close, dir, counters
<1>2. ~unsynced BY DEF Inv, CopyInv, Close
<1>3. "kill" \notin CrashKinds => medium = files BY <1>2, Settled
<1>4. Sound' BY <1>1 DEF Inv, Sound
<1>5. IdleInv' BY IdleInv, PTL
<1> QED BY <1>1, <1>2, <1>3, <1>4, <1>5 DEF Inv

LEMMA RemoveLeftoverStep ==
  ASSUME TypeOK, Inv, NEW n \in {"bak", "logbak"}, RemoveLeftover(n)
  PROVE  Inv'
<1>0. files \in Directory /\ n \in Name BY DEF TypeOK, Name
<1>1. phase = "idle" /\ ~Marked(files) /\ ~unsynced
  BY DEF RemoveLeftover, Pending, Present, Marked, Inv, CopyInv
<1>2. files' = [files EXCEPT ![n] = Absent] /\ medium' = [medium EXCEPT ![n] = Absent]
  BY DEF RemoveLeftover, Write
<1>3. UNCHANGED <<unsynced, phase, updates, attempts, promised>> BY DEF RemoveLeftover, counters
<1>4. n \in Unused(files) BY <1>1 DEF Unused
<1>5. Good(files', updates, promised, attempts)
  BY <1>0, <1>2, <1>4, GoodErase DEF Inv, Sound
<1>6. "kill" \notin CrashKinds => medium' = files' BY <1>1, <1>2, Settled
<1>7. Sound' BY <1>3, <1>5 DEF Sound
<1>8. promised <= attempts BY DEF Inv
<1>9. IdleInv' BY IdleInv, PTL
<1> QED BY <1>1, <1>3, <1>6, <1>7, <1>8, <1>9

-----------------------------------------------------------------------------
(* The copy. *)

LEMMA BeginRotationStep ==
  ASSUME TypeOK, Inv, Tended, BeginRotation
  PROVE  Inv'
<1> DEFINE w == [cred |-> files["db"].cred]
           t == [rows |-> {}, head |-> 0, cred |-> attempts + 1]
           l == [frames |-> {}, cred |-> attempts + 1]
           Fresh(d) == [d EXCEPT !["wal"] = w, !["tmp"] = t, !["logtmp"] = l]
<1>0. /\ files \in Directory /\ medium \in Directory /\ updates \in Nat
      /\ attempts \in Nat /\ promised \in Nat
  BY DEF TypeOK
<1>1. ~Marked(files) /\ phase = "idle" /\ phase' = "copy" /\ ~unsynced
  BY DEF BeginRotation, Openable, Pending, Present, Marked, Inv, CopyInv
<1>2. files' = Fresh(files) /\ medium' = Fresh(medium) BY DEF BeginRotation
<1>3. /\ UNCHANGED <<unsynced, updates, promised>> /\ attempts' = attempts + 1 /\ from' = 0
  BY DEF BeginRotation
<1>4. files["bak"] = Absent /\ files["logbak"] = Absent BY DEF BeginRotation, Present, Tended
<1>5. promised < attempts + 1 /\ promised <= attempts + 1 /\ attempts <= attempts + 1
  BY <1>0 DEF Inv
<1>6. Ids(t) = {} /\ t.cred = attempts + 1 /\ l.cred = attempts + 1 BY DEF Ids
<1>7. {i \in 1..updates : i <= 0} = {} BY <1>0
<1> HIDE DEF w, t, l
<1>8. /\ files'["wal"] = w /\ files'["tmp"] = t /\ files'["logtmp"] = l
      /\ \A n \in {"db", "log", "bak", "logbak", "state"} : files'[n] = files[n]
  BY <1>0, <1>2 DEF Directory, Name
<1>9. ~Marked(files') BY <1>1, <1>8 DEF Marked
<1>10. Good(files', updates, promised, attempts)
  <2>1. Valid(files', "db", "bak") = files["db"] /\ Valid(files', "log", "logbak") = files["log"]
    BY <1>8, <1>9 DEF Valid
  <2>2. Valid(files, "db", "bak") = files["db"] /\ Valid(files, "log", "logbak") = files["log"]
    BY <1>1 DEF Valid
  <2> QED BY <1>8, <2>1, <2>2 DEF Inv, Sound, Good, w
<1>11. files' \in Directory
  <2>1. TypeOK' BY TypeStep DEF Next
  <2> QED BY <2>1 DEF TypeOK
<1>12. Good(files', updates, promised, attempts + 1)
  BY <1>0, <1>5, <1>10, <1>11, GoodWider
<1>13. Sound' BY <1>3, <1>12 DEF Sound
<1>14. Ids(files'["tmp"]) = {i \in 1..updates' : i <= from'} BY <1>3, <1>6, <1>7, <1>8
<1>15. CopyInv' BY <1>1, <1>3, <1>4, <1>5, <1>6, <1>8, <1>9, <1>14 DEF CopyInv
<1>16. "kill" \notin CrashKinds => medium' = files' BY <1>1, <1>2, Settled
<1>17. MediumInv' BY <1>1, <1>3, <1>16 DEF MediumInv
<1>18. MarkInv' /\ SwapInv' /\ RecoverInv' BY <1>1 DEF MarkInv, SwapInv, RecoverInv
<1> QED BY <1>3, <1>5, <1>13, <1>15, <1>17, <1>18 DEF Inv

(* What the copy reads: the whole source. *)
LEMMA Source ==
  ASSUME TypeOK, Inv, phase = "copy"
  PROVE  /\ files["db"] \in Tree /\ files["log"] \in Changelog
         /\ files["tmp"] \in Tree /\ files["logtmp"] \in Changelog
         /\ ~Marked(files) /\ ~unsynced
         /\ Ids(files["db"]) = 1..updates /\ files["log"].frames = 1..updates
<1>1. ~Marked(files) /\ ~unsynced BY DEF Inv, CopyInv
<1> QED BY <1>1, OpenFiles DEF Inv, Sound, Good, Valid, Whole

(* A batch holds every row from where the copy stands up to its last one. *)
LEMMA BatchIds ==
  ASSUME TypeOK, Inv, CopyBatch
  PROVE  {r.id : r \in Batch} = {i \in 1..updates : from < i /\ i <= from'}
<1> DEFINE rest == {r \in files["db"].rows : r.id > from}
           Before(r) == {s \in rest : s.id < r.id}
<1>0. phase = "copy" BY DEF CopyBatch
<1>1. /\ files["db"] \in Tree /\ Ids(files["db"]) = 1..updates
      /\ from \in Nat /\ updates \in Nat
  BY <1>0, Source DEF TypeOK
<1>2. /\ from' \in Nat /\ \E r \in Batch : from' = r.id
      /\ \A r \in Batch : r.id <= from'
  BY <1>1, BatchLast
<1>3. Batch = {r \in rest : Cardinality(Before(r)) < BatchSize} BY DEF Batch
<1>4. \A r \in files["db"].rows : r.id \in Nat BY <1>1, TreeFields DEF Row
<1>5. ASSUME NEW r \in Batch PROVE r.id \in 1..updates /\ from < r.id /\ r.id <= from'
  <2>1. r \in files["db"].rows /\ r.id > from BY <1>3
  <2>2. r.id \in 1..updates BY <1>1, <2>1 DEF Ids
  <2> QED BY <1>1, <1>2, <2>1, <2>2
<1>6. ASSUME NEW i \in 1..updates, from < i, i <= from' PROVE \E r \in Batch : i = r.id
  <2>1. PICK r \in files["db"].rows : i = r.id BY <1>1, <1>6 DEF Ids
  <2>2. PICK z \in Batch : from' = z.id BY <1>2
  <2>3. r \in rest BY <1>1, <1>6, <2>1
  <2>4. z \in rest /\ Cardinality(Before(z)) < BatchSize BY <1>3
  <2>5. Before(r) \subseteq Before(z)
    <3>1. ASSUME NEW s \in rest, s.id < r.id PROVE s.id < z.id
      <4>1. s.id \in Nat /\ i \in Nat BY <1>1, <1>4
      <4> QED BY <1>2, <1>6, <2>1, <2>2, <3>1, <4>1
    <3> QED BY <3>1
  <2>6. IsFiniteSet(files["db"].rows) BY <1>1, TreeFields
  <2>7. IsFiniteSet(rest) BY <2>6, FS_Subset
  <2>8. IsFiniteSet(Before(z)) BY <2>7, FS_Subset
  <2> HIDE DEF rest, Before
  <2>9. /\ Cardinality(Before(r)) <= Cardinality(Before(z)) /\ IsFiniteSet(Before(r))
    BY <2>5, <2>8, FS_Subset
  <2>10. Cardinality(Before(r)) \in Nat /\ Cardinality(Before(z)) \in Nat
    BY <2>8, <2>9, FS_CardinalityType
  <2>11. Cardinality(Before(r)) < BatchSize BY <2>4, <2>9, <2>10, RotationAssumption
  <2> QED BY <1>3, <2>1, <2>3, <2>11
<1> HIDE DEF rest
<1> QED BY <1>5, <1>6

(* When there is no batch nothing is left to copy. *)
LEMMA NoneLeft ==
  ASSUME TypeOK, Inv, phase = "copy", Batch = {}
  PROVE  \A i \in 1..updates : i <= from
<1> DEFINE rest == {r \in files["db"].rows : r.id > from}
           Before(r) == {s \in rest : s.id < r.id}
           T == {r.id : r \in rest}
<1>1. /\ files["db"] \in Tree /\ Ids(files["db"]) = 1..updates
      /\ from \in Nat /\ updates \in Nat
  BY Source DEF TypeOK
<1>2. \A r \in files["db"].rows : r.id \in Nat BY <1>1, TreeFields DEF Row
<1>3. rest = {}
  <2> SUFFICES ASSUME rest # {} PROVE FALSE
    OBVIOUS
  <2> DEFINE R == OpToRel(<, Nat)
  <2>1. IsWellFoundedOn(R, Nat) BY NatLessThanWellFounded
  <2>2. R = {ss \in Nat \X Nat : ss[1] < ss[2]} BY DEF OpToRel
  <2>3. T \in SUBSET Nat /\ T # {} BY <1>2
  <2>4. \E c \in T : \A e \in T : ~(e < c)
    <3> HIDE DEF R, T
    <3>1. PICK c \in T : \A e \in T : ~(<<e, c>> \in R) BY <2>1, <2>3, WFMin
    <3> QED BY <2>2, <2>3, <3>1
  <2>5. PICK r \in rest : \A q \in rest : ~(q.id < r.id) BY <2>4
  <2>6. Before(r) = {} BY <2>5
  <2>7. Cardinality(Before(r)) = 0 BY <2>6, FS_EmptySet
  <2>8. r \in Batch
    <3>1. 0 < BatchSize BY RotationAssumption
    <3>2. Cardinality(Before(r)) < BatchSize BY <2>7, <3>1
    <3> QED BY <3>2 DEF Batch
  <2> QED BY <2>8
<1>4. ASSUME NEW i \in 1..updates PROVE i <= from
  <2>1. PICK r \in files["db"].rows : i = r.id BY <1>1 DEF Ids
  <2>2. ~(r.id > from) BY <1>3
  <2> QED BY <1>1, <2>1, <2>2
<1> QED BY <1>4

LEMMA CopyBatchStep ==
  ASSUME TypeOK, Inv, CopyBatch
  PROVE  Inv'
<1> DEFINE t == [files["tmp"] EXCEPT !.rows = @ \cup Batch, !.head = CopiedHead]
<1>0. files \in Directory /\ from \in Nat /\ updates \in Nat BY DEF TypeOK
<1>1. phase = "copy" /\ phase' = "copy" /\ UNCHANGED <<unsynced, updates, attempts, promised>>
  BY DEF CopyBatch, counters
<1>2. files' = [files EXCEPT !["tmp"] = t] /\ medium' = [medium EXCEPT !["tmp"] = t]
  BY DEF CopyBatch, Write
<1>3. ~Marked(files) /\ ~unsynced /\ files["tmp"] \in Tree BY <1>1, Source
<1>4. t.rows = files["tmp"].rows \cup Batch /\ t.cred = files["tmp"].cred
  BY <1>3 DEF Tree, Primary
<1> HIDE DEF t
<1>5. files'["tmp"] = t /\ \A n \in Name : n # "tmp" => files'[n] = files[n]
  BY <1>0, <1>2 DEF Directory, Name
<1>6. \A n \in {"db", "bak", "log", "logbak", "logtmp", "wal", "state"} : files'[n] = files[n]
  BY <1>5 DEF Name
<1>7. ~Marked(files') BY <1>3, <1>6 DEF Marked
<1>8. Good(files', updates, promised, attempts) BY <1>3, <1>6, <1>7, GoodSame DEF Inv, Sound
<1>9. Ids(t) = Ids(files["tmp"]) \cup {r.id : r \in Batch} BY <1>4 DEF Ids
<1>10. from' \in Nat /\ from <= from'
  <2>1. files["db"] \in Tree BY <1>1, Source
  <2>2. from' \in Nat /\ \E r \in Batch : from' = r.id BY <2>1, BatchLast
  <2>3. PICK r \in Batch : from' = r.id BY <2>2
  <2>4. r.id > from BY DEF Batch
  <2> QED BY <1>0, <2>2, <2>3, <2>4
<1>11. Ids(t) = {i \in 1..updates : i <= from'}
  <2>1. Ids(files["tmp"]) = {i \in 1..updates : i <= from} BY <1>1 DEF Inv, CopyInv
  <2>2. {r.id : r \in Batch} = {i \in 1..updates : from < i /\ i <= from'} BY BatchIds
  <2>3. Ids(t) = {i \in 1..updates : i <= from}
                 \cup {i \in 1..updates : from < i /\ i <= from'}
    BY <1>9, <2>1, <2>2
  <2> QED BY <1>0, <1>10, <2>3
<1>12. Ids(files'["tmp"]) = {i \in 1..updates' : i <= from'} BY <1>1, <1>5, <1>11
<1>13. CopyInv'
  <2>1. /\ files["bak"] = Absent /\ files["logbak"] = Absent /\ promised < attempts
        /\ files["tmp"].cred = attempts /\ files["logtmp"].cred = attempts
    BY <1>1 DEF Inv, CopyInv
  <2> QED BY <1>1, <1>3, <1>4, <1>5, <1>6, <1>7, <1>12, <2>1 DEF CopyInv
<1>14. "kill" \notin CrashKinds => medium' = files' BY <1>2, <1>3, Settled
<1>15. MediumInv' BY <1>1, <1>3, <1>14 DEF MediumInv
<1>16. MarkInv' /\ SwapInv' /\ RecoverInv' BY <1>1 DEF MarkInv, SwapInv, RecoverInv
<1>17. Sound' BY <1>1, <1>8 DEF Sound
<1> QED BY <1>1, <1>13, <1>15, <1>16, <1>17 DEF Inv

LEMMA FinishCopyStep ==
  ASSUME TypeOK, Inv, FinishCopy
  PROVE  Inv'
<1> DEFINE l == [files["logtmp"] EXCEPT !.frames = files["log"].frames]
<1>0. files \in Directory /\ from \in Nat /\ updates \in Nat BY DEF TypeOK
<1>1. /\ phase = "copy" /\ phase' = "mark" /\ step' = 1
      /\ UNCHANGED <<unsynced, updates, attempts, promised>>
  BY DEF FinishCopy, counters
<1>2. files' = [files EXCEPT !["logtmp"] = l] /\ medium' = [medium EXCEPT !["logtmp"] = l]
  BY DEF FinishCopy, Write
<1>3. /\ ~Marked(files) /\ ~unsynced /\ files["tmp"] \in Tree /\ files["logtmp"] \in Changelog
      /\ files["log"] \in Changelog /\ files["log"].frames = 1..updates
  BY <1>1, Source
<1>4. l \in Changelog /\ l.frames = 1..updates /\ l.cred = files["logtmp"].cred
  BY <1>3 DEF Changelog
<1> HIDE DEF l
<1>5. files'["logtmp"] = l /\ \A n \in Name : n # "logtmp" => files'[n] = files[n]
  BY <1>0, <1>2 DEF Directory, Name
<1>6. \A n \in {"db", "bak", "log", "logbak", "tmp", "wal", "state"} : files'[n] = files[n]
  BY <1>5 DEF Name
<1>7. ~Marked(files') BY <1>3, <1>6 DEF Marked
<1>8. Good(files', updates, promised, attempts) BY <1>3, <1>6, <1>7, GoodSame DEF Inv, Sound
<1>9. /\ files["bak"] = Absent /\ files["logbak"] = Absent /\ promised < attempts
      /\ files["tmp"].cred = attempts /\ files["logtmp"].cred = attempts
      /\ Ids(files["tmp"]) = {i \in 1..updates : i <= from}
  BY <1>1 DEF Inv, CopyInv
<1>10. \A i \in 1..updates : i <= from BY <1>1, NoneLeft DEF FinishCopy
<1>11. Ids(files["tmp"]) = 1..updates BY <1>9, <1>10
<1>12. attempts <= attempts BY DEF TypeOK
<1>13. Whole(files'["tmp"], files'["logtmp"], updates, attempts, attempts)
  BY <1>3, <1>4, <1>5, <1>6, <1>9, <1>11, <1>12 DEF Whole
<1>14. MarkInv' BY <1>1, <1>3, <1>7, <1>13 DEF MarkInv
<1>15. CopyInv' BY <1>1, <1>6, <1>9 DEF CopyInv
<1>16. "kill" \notin CrashKinds => medium' = files' BY <1>2, <1>3, Settled
<1>17. MediumInv' BY <1>1, <1>3, <1>16 DEF MediumInv
<1>18. SwapInv' /\ RecoverInv' BY <1>1 DEF SwapInv, RecoverInv
<1>19. Sound' BY <1>1, <1>8 DEF Sound
<1>20. promised' <= attempts' BY <1>1 DEF Inv
<1> QED BY <1>14, <1>15, <1>17, <1>18, <1>19, <1>20 DEF Inv

-----------------------------------------------------------------------------
(* The marker. *)

(* The marker is created or filled in: the medium still has none. *)
LEMMA MarkerWritten ==
  ASSUME TypeOK, Inv, phase = "mark", phase' = "mark", step \in {1, 2}, step' = step + 1,
         NEW s \in State, files' = [files EXCEPT !["state"] = s], unsynced' = TRUE,
         UNCHANGED <<medium, from, counters>>
  PROVE  Inv'
<1>0. files \in Directory /\ medium \in Directory /\ s # Absent
  BY RotationValues DEF TypeOK
<1>1. UNCHANGED <<updates, attempts, promised>> BY DEF counters
<1>2. files'["state"] = s /\ \A n \in Name : n # "state" => files'[n] = files[n]
  BY <1>0 DEF Directory, Name
<1>3. \A n \in {"db", "bak", "log", "logbak", "tmp", "logtmp", "wal"} : files'[n] = files[n]
  BY <1>2 DEF Name
<1>4. Marked(files') BY <1>0, <1>2 DEF Marked
<1>5. /\ files["bak"] = Absent /\ files["logbak"] = Absent /\ promised < attempts
  BY DEF Inv, CopyInv
<1>6. Good(files', updates, promised, attempts)
  <2>1. Valid(files', "db", "bak") = files["db"] /\ Valid(files', "log", "logbak") = files["log"]
    BY <1>3, <1>5 DEF Valid
  <2>2. Valid(files, "db", "bak") = files["db"] /\ Valid(files, "log", "logbak") = files["log"]
    BY <1>5 DEF Valid
  <2> QED BY <1>3, <2>1, <2>2 DEF Inv, Sound, Good
<1>7. MarkInv'
  <2>1. step' \in 1..3 /\ step' > 1 BY DEF TypeOK
  <2>2. Whole(files["tmp"], files["logtmp"], updates, attempts, attempts) BY DEF Inv, MarkInv
  <2> QED BY <1>1, <1>3, <1>4, <2>1, <2>2 DEF MarkInv
<1>8. CopyInv' BY <1>1, <1>3, <1>5 DEF CopyInv
<1>9. "kill" \notin CrashKinds => medium = [files EXCEPT !["state"] = Absent]
  <2> SUFFICES ASSUME "kill" \notin CrashKinds PROVE medium = [files EXCEPT !["state"] = Absent]
    OBVIOUS
  <2>1. CASE unsynced BY <2>1 DEF Inv, MediumInv
  <2>2. CASE ~unsynced
    <3>1. medium = files BY <2>2, Settled
    <3>2. files["state"] = Absent BY <2>2 DEF Inv, MarkInv, Marked
    <3> QED BY <1>0, <3>1, <3>2 DEF Directory
  <2> QED BY <2>1, <2>2
<1>10. "kill" \notin CrashKinds => Good(medium, updates, promised, attempts)
  <2> SUFFICES ASSUME "kill" \notin CrashKinds PROVE Good(medium, updates, promised, attempts)
    OBVIOUS
  <2>1. CASE unsynced BY <2>1 DEF Inv, MediumInv
  <2>2. CASE ~unsynced BY <2>2, Settled DEF Inv, Sound
  <2> QED BY <2>1, <2>2
<1>11. [files' EXCEPT !["state"] = Absent] = [files EXCEPT !["state"] = Absent]
  BY <1>0 DEF Directory
<1>12. MediumInv'
  <2> SUFFICES ASSUME "kill" \notin CrashKinds PROVE MediumInv'
    BY DEF MediumInv
  <2>1. medium' = [files' EXCEPT !["state"] = Absent] BY <1>9, <1>11
  <2>2. \A m \in Name \ {"state"} : files'[m] = medium'[m]
    <3>1. files' \in [Name -> Primary \cup Changelog \cup WAL \cup State \cup {Absent}]
      BY <1>0, RotationValues DEF Directory
    <3> QED BY <2>1, <3>1
  <2>3. OneChanged' BY <2>2 DEF OneChanged, Name
  <2> QED BY <1>1, <1>10, <2>1, <2>3 DEF MediumInv
<1>13. SwapInv' /\ RecoverInv' BY DEF SwapInv, RecoverInv
<1>14. Sound' BY <1>1, <1>6 DEF Sound
<1>15. promised' <= attempts' BY <1>1 DEF Inv
<1> QED BY <1>7, <1>8, <1>12, <1>13, <1>14, <1>15 DEF Inv

LEMMA SyncStateStep ==
  ASSUME TypeOK, Inv, SyncState
  PROVE  Inv'
<1>1. /\ phase = "mark" /\ step = 3 /\ phase' = "swap" /\ step' = 1
      /\ UNCHANGED <<files, updates, attempts, promised>>
  BY DEF SyncState, counters
<1>2. medium' = files' /\ ~unsynced' BY <1>1 DEF SyncState
<1>3. /\ Marked(files) /\ files["bak"] = Absent /\ files["logbak"] = Absent /\ promised < attempts
      /\ Whole(files["tmp"], files["logtmp"], updates, attempts, attempts)
  BY <1>1 DEF Inv, CopyInv, MarkInv
<1>4. SwapInv'
  <2>1. ~Did(2)' /\ ~Did(4)' /\ ~Did(5)' /\ ~Did(6)' /\ ~Did(7)' /\ ~Did(8)'
    BY <1>1, <1>2 DEF Did
  <2> QED BY <1>1, <1>2, <1>3, <2>1 DEF SwapInv
<1>5. MediumInv' BY <1>2 DEF MediumInv
<1>6. Sound' BY <1>1 DEF Inv, Sound
<1>7. promised' <= attempts' BY <1>1 DEF Inv
<1>8. SwapPhase' BY SwapPhase, PTL
<1> QED BY <1>1, <1>4, <1>5, <1>6, <1>7, <1>8

-----------------------------------------------------------------------------
(* The scripts. *)

(* The directory before an operation, and the one after it, differ in one  *)
(* file, or in what an operation replaced.                                 *)
LEMMA MediumKept ==
  ASSUME Inv, ~unsynced, unsynced' = TRUE,
         UNCHANGED <<medium, updates, attempts, promised>>, phase' # "mark",
         ~(phase' = "swap" /\ step' = 9), ~(phase' = "recover" /\ step' = 3),
         "kill" \notin CrashKinds => (OneChanged \/ Replaced)'
  PROVE  MediumInv'
<1> SUFFICES ASSUME "kill" \notin CrashKinds PROVE MediumInv'
  BY DEF MediumInv
<1>1. medium = files BY Settled
<1>2. Good(medium, updates, promised, attempts) BY <1>1 DEF Inv, Sound
<1>3. Good(medium', updates', promised', attempts') BY <1>2
<1>4. (OneChanged \/ Replaced \/ OnlyUnused)' OBVIOUS
<1> QED BY <1>3, <1>4 DEF MediumInv

(* A name is moved where there was no file. *)
LEMMA MoveStep ==
  ASSUME TypeOK, Inv, NEW a \in Name, NEW b \in Name, a # b, Move(a, b), files[b] = Absent
  PROVE  /\ files'[a] = Absent /\ files'[b] = files[a]
         /\ \A m \in Name : m # a /\ m # b => files'[m] = files[m]
         /\ "kill" \notin CrashKinds => Replaced'
<1>0. files \in Directory BY DEF TypeOK
<1>1. files' = [files EXCEPT ![b] = files[a], ![a] = Absent] /\ medium' = medium
      /\ ~unsynced /\ files[a] # Absent
  BY DEF Move, Present
<1>2. /\ files'[a] = Absent /\ files'[b] = files[a]
      /\ \A m \in Name : m # a /\ m # b => files'[m] = files[m]
  BY <1>0, <1>1 DEF Directory
<1>3. "kill" \notin CrashKinds => Replaced'
  <2> SUFFICES ASSUME "kill" \notin CrashKinds PROVE Replaced'
    OBVIOUS
  <2>1. medium'[b] = Absent BY <1>1, Settled
  <2>2. files'[b] \notin {Absent, medium'[b]} BY <1>1, <1>2, <2>1
  <2> QED BY <2>2 DEF Replaced
<1> QED BY <1>2, <1>3

(* A file is removed. *)
LEMMA EraseStep ==
  ASSUME TypeOK, Inv, NEW n \in Name, Erase(n)
  PROVE  /\ files[n] # Absent /\ files'[n] = Absent
         /\ \A m \in Name : m # n => files'[m] = files[m]
         /\ ("kill" \notin CrashKinds /\ ~unsynced) => OneChanged'
<1>0. files \in Directory BY DEF TypeOK
<1>1. files' = [files EXCEPT ![n] = Absent] /\ medium' = medium /\ files[n] # Absent
  BY DEF Erase, Present
<1>2. files'[n] = Absent /\ \A m \in Name : m # n => files'[m] = files[m]
  BY <1>0, <1>1, Erased
<1>3. ("kill" \notin CrashKinds /\ ~unsynced) => OneChanged'
  <2> SUFFICES ASSUME "kill" \notin CrashKinds, ~unsynced PROVE OneChanged'
    OBVIOUS
  <2>1. medium' = files BY <1>1, Settled
  <2>2. \A m \in Name \ {n} : files'[m] = medium'[m] BY <1>2, <2>1
  <2> QED BY <2>2 DEF OneChanged
<1> QED BY <1>1, <1>2, <1>3

LEMMA RenameStep ==
  ASSUME TypeOK, Inv, DoRename
  PROVE  Inv'
<1>0. files \in Directory /\ phase = "swap" /\ SwapInv BY Renames DEF TypeOK, Inv
<1> DEFINE a == CASE step = 2 -> "db" [] step = 4 -> "log" [] step = 5 -> "tmp" [] step = 6 -> "logtmp"
           b == CASE step = 2 -> "bak" [] step = 4 -> "logbak" [] step = 5 -> "db" [] step = 6 -> "log"
<1>1. step \in {2, 4, 5, 6} /\ Move(a, b) BY Renames
<1>2. a \in Name /\ b \in Name /\ a # b BY <1>1 DEF Name
<1>3. /\ UNCHANGED <<phase, step, medium, updates, attempts, promised>> /\ unsynced' = TRUE
      /\ ~unsynced /\ files[a] # Absent
      /\ files' = [files EXCEPT ![b] = files[a], ![a] = Absent]
  BY <1>1 DEF Move, counters, Present
<1>4. /\ (files["bak"] = Absent) <=> step <= 2
      /\ (files["logbak"] = Absent) <=> step <= 4
      /\ step \in {4, 5} => files["db"] = Absent
      /\ step \in {5, 6} => files["log"] = Absent
      /\ Marked(files) /\ promised < attempts
  BY <1>0, <1>1, <1>3 DEF SwapInv, Did
<1>5. files[b] = Absent BY <1>1, <1>4
<1>6. /\ files'[a] = Absent /\ files'[b] = files[a]
      /\ \A m \in Name : m # a /\ m # b => files'[m] = files[m]
      /\ "kill" \notin CrashKinds => Replaced'
  BY <1>1, <1>2, <1>5, MoveStep
<1>7. Good(files', updates, promised, attempts)
  <2>1. Good(files, updates, promised, attempts) BY DEF Inv, Sound
  <2> HIDE DEF a, b
  <2>2. \/ a = "db" /\ b = "bak" /\ files["bak"] = Absent
        \/ a = "log" /\ b = "logbak" /\ files["logbak"] = Absent
        \/ a = "tmp" /\ b = "db" /\ files["bak"] # Absent
        \/ a = "logtmp" /\ b = "log" /\ files["logbak"] # Absent
    BY <1>1, <1>4 DEF a, b
  <2> QED BY <1>0, <1>2, <1>3, <1>4, <2>1, <2>2, GoodMove
<1>8. files'["state"] = files["state"] BY <1>1, <1>6 DEF Name
<1>9. Marked(files') BY <1>4, <1>8 DEF Marked
<1>10. SwapInv'
  <2>1. /\ Whole(IF step > 5 THEN files["db"] ELSE files["tmp"],
                 IF step > 6 THEN files["log"] ELSE files["logtmp"], updates, attempts, attempts)
    BY <1>0, <1>1, <1>3 DEF SwapInv, Did
  <2>2. step' = step /\ step' < 7 /\ \A n \in 1..9 : Did(n)' <=> n <= step
    BY <1>1, <1>3 DEF Did
  <2>3. CASE step = 2
    <3>1. files'["db"] = Absent /\ files'["bak"] = files["db"] /\ files["db"] # Absent
          /\ \A m \in {"tmp", "log", "logbak", "logtmp", "wal"} : files'[m] = files[m]
      BY <1>3, <1>6, <2>3 DEF Name
    <3> QED BY <1>3, <1>4, <1>9, <2>1, <2>2, <2>3, <3>1 DEF SwapInv
  <2>4. CASE step = 4
    <3>1. files'["log"] = Absent /\ files'["logbak"] = files["log"] /\ files["log"] # Absent
          /\ \A m \in {"tmp", "db", "bak", "logtmp", "wal"} : files'[m] = files[m]
      BY <1>3, <1>6, <2>4 DEF Name
    <3> QED BY <1>3, <1>4, <1>9, <2>1, <2>2, <2>4, <3>1 DEF SwapInv
  <2>5. CASE step = 5
    <3>1. files'["db"] = files["tmp"]
          /\ \A m \in {"bak", "log", "logbak", "logtmp", "wal"} : files'[m] = files[m]
      BY <1>3, <1>6, <2>5 DEF Name
    <3> QED BY <1>3, <1>4, <1>9, <2>1, <2>2, <2>5, <3>1 DEF SwapInv
  <2>6. CASE step = 6
    <3>1. files'["log"] = files["logtmp"]
          /\ \A m \in {"db", "tmp", "bak", "logbak", "wal"} : files'[m] = files[m]
      BY <1>3, <1>6, <2>6 DEF Name
    <3> QED BY <1>3, <1>4, <1>9, <2>1, <2>2, <2>6, <3>1 DEF SwapInv
  <2> QED BY <1>1, <2>3, <2>4, <2>5, <2>6
<1>11. MediumInv'
  <2>1. phase' = "swap" /\ step' # 9 BY <1>0, <1>1, <1>3
  <2> QED BY <1>3, <1>6, <2>1, MediumKept
<1>12. Sound' BY <1>3, <1>7 DEF Sound
<1>13. promised' <= attempts' BY <1>3 DEF Inv
<1>14. SwapPhase' BY SwapPhase, PTL
<1> QED BY <1>0, <1>3, <1>10, <1>11, <1>12, <1>13, <1>14

(* What the swap removes. *)
LEMMA SwapRemoves ==
  ASSUME TypeOK, Inv, DoRemove, phase = "swap"
  PROVE  Inv'
<1>0. files \in Directory /\ SwapInv /\ step \in Nat /\ attempts \in Nat /\ promised \in Nat
  BY DEF TypeOK, Inv
<1>1. \/ step = 7 /\ Erase("wal")
      \/ step = 8 /\ Erase("state")
      \/ step = 9 /\ (Erase("bak") \/ Erase("logbak"))
  <2>1. ~(step = 1 /\ Erase("bak")) BY <1>0 DEF SwapInv, Did, Erase, Present
  <2>2. ~(step = 3 /\ Erase("logbak")) BY <1>0 DEF SwapInv, Did, Erase, Present
  <2> QED BY <2>1, <2>2, Removes
<1> SUFFICES ASSUME NEW n \in Name, Erase(n),
                    \/ step = 7 /\ n = "wal"
                    \/ step = 8 /\ n = "state"
                    \/ step = 9 /\ n \in {"bak", "logbak"}
             PROVE  Inv'
  BY <1>1 DEF Name
<1>2. /\ UNCHANGED <<phase, step, medium, updates, attempts, promised>> /\ unsynced' = TRUE
      /\ files' = [files EXCEPT ![n] = Absent]
  BY DEF Erase, counters
<1>3. /\ files[n] # Absent /\ files'[n] = Absent
      /\ \A m \in Name : m # n => files'[m] = files[m]
      /\ ("kill" \notin CrashKinds /\ ~unsynced) => OneChanged'
  BY EraseStep
<1>4. /\ files'["db"] = files["db"] /\ files'["log"] = files["log"]
      /\ files'["tmp"] = files["tmp"] /\ files'["logtmp"] = files["logtmp"]
  BY <1>3 DEF Name
<1>5. Whole(files["db"], files["log"], updates, attempts, attempts)
  BY <1>0 DEF SwapInv, Did
<1>6. promised <= attempts /\ Good(files, updates, promised, attempts) BY DEF Inv, Sound
<1>7. CASE step = 7
  <2>1. n = "wal" BY <1>7
  <2>2. ~unsynced BY <1>0, <1>3, <1>7, <2>1 DEF SwapInv, Did
  <2>3. \A m \in {"db", "bak", "tmp", "log", "logbak", "logtmp", "state"} : files'[m] = files[m]
    BY <1>3, <2>1 DEF Name
  <2>4. Good(files', updates, promised, attempts) BY <1>0, <1>2, <1>6, <2>1, GoodErase
  <2>5. Marked(files') <=> Marked(files) BY <2>3 DEF Marked
  <2>6. SwapInv' BY <1>0, <1>2, <1>3, <1>7, <2>1, <2>2, <2>3, <2>5 DEF SwapInv, Did
  <2>7. MediumInv' BY <1>2, <1>3, <1>7, <2>2, MediumKept
  <2>8. Sound' BY <1>2, <2>4 DEF Sound
  <2>9. SwapPhase' BY SwapPhase, PTL
  <2> QED BY <1>2, <1>6, <2>6, <2>7, <2>8, <2>9
<1>8. CASE step = 8
  <2>1. n = "state" BY <1>8
  <2>2. ~unsynced BY <1>0, <1>3, <1>8, <2>1 DEF SwapInv, Did, Marked
  <2>3. \A m \in {"db", "bak", "tmp", "log", "logbak", "logtmp", "wal"} : files'[m] = files[m]
    BY <1>3, <2>1 DEF Name
  <2>4. ~Marked(files') BY <1>3, <2>1 DEF Marked
  <2>5. files["wal"] = Absent BY <1>0, <1>8 DEF SwapInv, Did
  <2>6. Whole(files'["db"], files'["log"], updates, promised, attempts)
    <3>1. files["db"].cred \in Nat BY <1>5, TreeFields DEF Whole
    <3> QED BY <1>0, <1>4, <1>5, <1>6, <3>1 DEF Whole
  <2>7. Good(files', updates, promised, attempts)
    BY <2>3, <2>4, <2>5, <2>6 DEF Good, Valid
  <2>8. SwapInv' BY <1>0, <1>2, <1>3, <1>8, <2>1, <2>2, <2>3, <2>4 DEF SwapInv, Did
  <2>9. MediumInv' BY <1>2, <1>3, <1>8, <2>2, MediumKept
  <2>10. Sound' BY <1>2, <2>7 DEF Sound
  <2>11. SwapPhase' BY SwapPhase, PTL
  <2> QED BY <1>2, <1>6, <2>8, <2>9, <2>10, <2>11
<1>9. CASE step = 9
  <2>1. n \in {"bak", "logbak"} BY <1>9
  <2>2. ~Marked(files) BY <1>0, <1>9 DEF SwapInv, Did
  <2>3. n \in Unused(files) BY <2>1, <2>2 DEF Unused
  <2>4. \A m \in {"db", "tmp", "log", "logtmp", "wal", "state"} : files'[m] = files[m]
    BY <1>3, <2>1 DEF Name
  <2>5. ~Marked(files') BY <2>2, <2>4 DEF Marked
  <2>6. Good(files', updates, promised, attempts) BY <1>0, <1>2, <1>6, <2>3, GoodErase
  <2>7. SwapInv' BY <1>0, <1>2, <1>9, <2>4, <2>2, <2>5 DEF SwapInv, Did
  <2>8. "kill" \notin CrashKinds =>
          Good(medium, updates, promised, attempts) /\ OnlyUnused
    <3> SUFFICES ASSUME "kill" \notin CrashKinds
                 PROVE  Good(medium, updates, promised, attempts) /\ OnlyUnused
      OBVIOUS
    <3>1. CASE unsynced BY <1>9, <3>1 DEF Inv, MediumInv
    <3>2. CASE ~unsynced
      <4>1. medium = files BY <3>2, Settled
      <4> QED BY <1>6, <4>1 DEF OnlyUnused
    <3> QED BY <3>1, <3>2
  <2>9. OnlyUnused => OnlyUnused'
    <3>1. Unused(files') = Unused(files) BY <2>2, <2>5 DEF Unused
    <3>2. \A m \in Name \ Unused(files) : files'[m] = files[m] BY <1>3, <2>3
    <3> QED BY <1>2, <2>4, <3>1, <3>2 DEF OnlyUnused
  <2>10. MediumInv' BY <1>2, <1>9, <2>8, <2>9 DEF MediumInv
  <2>11. Sound' BY <1>2, <2>6 DEF Sound
  <2>12. SwapPhase' BY SwapPhase, PTL
  <2> QED BY <1>2, <1>6, <2>7, <2>10, <2>11, <2>12
<1> QED BY <1>7, <1>8, <1>9

(* What the rollback removes. *)
LEMMA RecoverRemoves ==
  ASSUME TypeOK, Inv, DoRemove, phase = "recover"
  PROVE  Inv'
<1>0. files \in Directory /\ RecoverInv BY DEF TypeOK, Inv
<1>1. \/ step = 3 /\ (Erase("tmp") \/ Erase("logtmp"))
      \/ step = 4 /\ Erase("state")
  BY Removes
<1> SUFFICES ASSUME NEW n \in Name, Erase(n),
                    \/ step = 3 /\ n \in {"tmp", "logtmp"}
                    \/ step = 4 /\ n = "state"
             PROVE  Inv'
  BY <1>1 DEF Name
<1>2. /\ UNCHANGED <<phase, step, medium, updates, attempts, promised>> /\ unsynced' = TRUE
      /\ files' = [files EXCEPT ![n] = Absent]
  BY DEF Erase, counters
<1>3. /\ files[n] # Absent /\ files'[n] = Absent
      /\ \A m \in Name : m # n => files'[m] = files[m]
      /\ ("kill" \notin CrashKinds /\ ~unsynced) => OneChanged'
  BY EraseStep
<1>4. files'["bak"] = files["bak"] /\ files'["logbak"] = files["logbak"]
  BY <1>3 DEF Name
<1>5. files["bak"] = Absent /\ files["logbak"] = Absent BY <1>0 DEF RecoverInv
<1>6. promised <= attempts /\ Good(files, updates, promised, attempts) BY DEF Inv, Sound
<1>7. Good(files', updates, promised, attempts)
  <2>1. n \in Unused(files) \/ (n = "state" /\ files["bak"] = Absent /\ files["logbak"] = Absent)
    BY <1>5 DEF Unused
  <2> QED BY <1>0, <1>2, <1>6, <2>1, GoodErase
<1>8. CASE step = 3
  <2>1. n \in {"tmp", "logtmp"} /\ n \in Unused(files) BY <1>8 DEF Unused
  <2>2. files'["state"] = files["state"] BY <1>3, <2>1 DEF Name
  <2>3. Marked(files') <=> Marked(files) BY <2>2 DEF Marked
  <2>4. RecoverInv' BY <1>0, <1>2, <1>4, <1>5, <1>8, <2>3 DEF RecoverInv, Did
  <2>5. "kill" \notin CrashKinds =>
          Good(medium, updates, promised, attempts) /\ OnlyUnused
    <3> SUFFICES ASSUME "kill" \notin CrashKinds
                 PROVE  Good(medium, updates, promised, attempts) /\ OnlyUnused
      OBVIOUS
    <3>1. CASE unsynced BY <1>8, <3>1 DEF Inv, MediumInv
    <3>2. CASE ~unsynced
      <4>1. medium = files BY <3>2, Settled
      <4> QED BY <1>6, <4>1 DEF OnlyUnused
    <3> QED BY <3>1, <3>2
  <2>6. OnlyUnused => OnlyUnused'
    <3>1. Unused(files') = Unused(files) BY <2>3 DEF Unused
    <3>2. \A m \in Name \ Unused(files) : files'[m] = files[m] BY <1>3, <2>1
    <3> QED BY <1>2, <2>2, <3>1, <3>2 DEF OnlyUnused
  <2>7. MediumInv' BY <1>2, <1>8, <2>5, <2>6 DEF MediumInv
  <2>8. Sound' BY <1>2, <1>7 DEF Sound
  <2>9. RecoverPhase' BY RecoverPhase, PTL
  <2> QED BY <1>2, <1>6, <2>4, <2>7, <2>8, <2>9
<1>9. CASE step = 4
  <2>1. n = "state" BY <1>9
  <2>2. ~unsynced BY <1>0, <1>3, <1>9, <2>1 DEF RecoverInv, Did, Marked
  <2>3. ~Marked(files') BY <1>3, <2>1 DEF Marked
  <2>4. RecoverInv' BY <1>0, <1>2, <1>4, <1>5, <1>9, <2>3 DEF RecoverInv, Did
  <2>5. MediumInv' BY <1>2, <1>3, <1>9, <2>2, MediumKept
  <2>6. Sound' BY <1>2, <1>7 DEF Sound
  <2>7. RecoverPhase' BY RecoverPhase, PTL
  <2> QED BY <1>2, <1>6, <2>4, <2>5, <2>6, <2>7
<1> QED BY <1>8, <1>9

LEMMA RemoveStep ==
  ASSUME TypeOK, Inv, DoRemove
  PROVE  Inv'
<1>1. phase \in {"swap", "recover"} BY DEF DoRemove, Running
<1> QED BY <1>1, SwapRemoves, RecoverRemoves

(* A file is replaced by its backup. *)
LEMMA RestoreStep ==
  ASSUME TypeOK, Inv, DoRestore
  PROVE  Inv'
<1>0. files \in Directory /\ RecoverInv BY DEF TypeOK, Inv
<1>1. phase = "recover" /\ ~unsynced BY Restores
<1> SUFFICES ASSUME NEW n \in Name, NEW backup \in Name,
                    \/ step = 1 /\ n = "db" /\ backup = "bak"
                    \/ step = 2 /\ n = "log" /\ backup = "logbak",
                    Present(backup), Erase(n) \/ (~Present(n) /\ Move(backup, n))
             PROVE  Inv'
  BY Restores DEF Name
<1>2. /\ UNCHANGED <<phase, step, medium, updates, attempts, promised>> /\ unsynced' = TRUE
      /\ \/ files' = [files EXCEPT ![n] = Absent]
         \/ files' = [files EXCEPT ![n] = files[backup], ![backup] = Absent]
  BY DEF Erase, Move, counters
<1>3. Marked(files) BY <1>0, <1>1 DEF RecoverInv, Did
<1>4. promised <= attempts /\ Good(files, updates, promised, attempts) BY DEF Inv, Sound
<1>5. files[backup] # Absent BY DEF Present
<1>6. Good(files', updates, promised, attempts)
  <2>1. CASE files' = [files EXCEPT ![n] = Absent]
    BY <1>0, <1>3, <1>4, <1>5, <2>1, GoodErase
  <2>2. CASE files' = [files EXCEPT ![n] = files[backup], ![backup] = Absent]
    BY <1>0, <1>3, <1>4, <1>5, <2>2, GoodMove
  <2> QED BY <1>2, <2>1, <2>2
<1>7. /\ \A m \in Name : m # n /\ m # backup => files'[m] = files[m]
      /\ "kill" \notin CrashKinds => (OneChanged \/ Replaced)'
  <2>1. CASE Erase(n) BY <1>1, <2>1, EraseStep
  <2>2. CASE ~Present(n) /\ Move(backup, n)
    <3>1. backup # n /\ files[n] = Absent BY <2>2 DEF Present
    <3> QED BY <2>2, <3>1, MoveStep
  <2> QED BY <2>1, <2>2
<1>8. files'["state"] = files["state"] /\ (step = 2 => files'["bak"] = files["bak"])
  BY <1>7 DEF Name
<1>9. Marked(files') BY <1>3, <1>8 DEF Marked
<1>10. RecoverInv' BY <1>0, <1>1, <1>2, <1>8, <1>9 DEF RecoverInv, Did
<1>11. MediumInv' BY <1>1, <1>2, <1>7, MediumKept
<1>12. Sound' BY <1>2, <1>6 DEF Sound
<1>13. RecoverPhase' BY RecoverPhase, PTL
<1> QED BY <1>1, <1>2, <1>4, <1>10, <1>11, <1>12, <1>13

(* SyncParents: the directory is now on the medium. *)
LEMMA SyncStep ==
  ASSUME TypeOK, Inv, Sync
  PROVE  Inv'
<1>0. /\ phase \in {"swap", "recover"}
      /\ UNCHANGED <<files, phase, updates, attempts>> /\ ~unsynced'
      /\ medium' = IF unsynced THEN files ELSE medium
  BY DEF Sync
<1>1. MediumInv'
  <2> SUFFICES ASSUME "kill" \notin CrashKinds PROVE MediumInv'
    BY DEF MediumInv
  <2>1. medium' = files BY <1>0, Settled
  <2> QED BY <1>0, <2>1 DEF MediumInv
<1>2. /\ promised \in Nat /\ attempts \in Nat /\ promised <= attempts
      /\ Good(files, updates, promised, attempts)
  BY DEF TypeOK, Inv, Sound
<1>3. CASE phase = "swap"
  <2>1. /\ step \in 1..9 /\ step' = step + 1
        /\ step \in {2, 4, 5, 6} => unsynced
        /\ step = 7 => files["wal"] = Absent
        /\ step = 8 => files["state"] = Absent
        /\ promised' = IF step = 8 THEN attempts ELSE promised
    BY <1>3, SwapSyncs
  <2>2. SwapInv BY DEF Inv
  <2>3. SwapInv' BY <1>0, <1>2, <1>3, <2>1, <2>2 DEF SwapInv, Did, Marked
  <2>4. CASE step # 8
    <3>1. promised' = promised BY <2>1, <2>4
    <3>2. Sound' BY <1>0, <1>2, <3>1 DEF Sound
    <3>3. SwapPhase' BY SwapPhase, PTL
    <3> QED BY <1>0, <1>1, <1>2, <1>3, <2>3, <3>1, <3>2, <3>3
  <2>5. CASE step = 8
    <3>1. promised' = attempts BY <2>1, <2>5
    <3>2. ~Marked(files) /\ files["wal"] = Absent
          /\ Whole(files["db"], files["log"], updates, attempts, attempts)
      BY <1>3, <2>1, <2>2, <2>5 DEF SwapInv, Did, Marked
    <3>3. Sound' BY <1>0, <3>1, <3>2 DEF Sound, Good, Valid
    <3>4. SwapPhase' BY SwapPhase, PTL
    <3> QED BY <1>0, <1>1, <1>2, <1>3, <2>3, <3>1, <3>3, <3>4
  <2> QED BY <2>4, <2>5
<1>4. CASE phase = "recover"
  <2>1. /\ step \in 1..4 /\ step' \in {step, step + 1}
        /\ (step' = step + 1 /\ step = 1) => files["bak"] = Absent
        /\ (step' = step + 1 /\ step = 2) => files["logbak"] = Absent
        /\ (step' = step + 1 /\ step = 4) => files["state"] = Absent
        /\ step = 4 => step' = 5
        /\ promised' = promised
    BY <1>4, RecoverSyncs
  <2>2. RecoverInv BY DEF Inv
  <2>3. RecoverInv'
    <3>1. CASE step = 4 BY <1>0, <1>4, <2>1, <2>2, <3>1 DEF RecoverInv, Did, Marked
    <3>2. CASE step # 4 BY <1>0, <1>4, <2>1, <2>2, <3>2 DEF RecoverInv, Did, Marked
    <3> QED BY <3>1, <3>2
  <2>4. Sound' BY <1>0, <1>2, <2>1 DEF Sound
  <2>5. RecoverPhase' BY RecoverPhase, PTL
  <2> QED BY <1>0, <1>1, <1>2, <1>4, <2>1, <2>3, <2>4, <2>5
<1> QED BY <1>0, <1>3, <1>4

LEMMA FinishStep ==
  ASSUME TypeOK, Inv, Finish
  PROVE  Inv'
<1>1. /\ UNCHANGED <<files, medium, unsynced, updates, attempts, promised>> /\ phase' = "idle"
      /\ phase \in {"swap", "recover"} /\ step > Len(Script)
  BY DEF Finish, dir, counters
<1>2. ~unsynced
  <2>1. CASE phase = "swap"
    <3>1. step > 9 BY <1>1, <2>1, Scripts DEF Script
    <3> QED BY <2>1, <3>1 DEF Inv, SwapInv
  <2>2. CASE phase = "recover"
    <3>1. step > 4 BY <1>1, <2>2, Scripts DEF Script
    <3> QED BY <2>2, <3>1 DEF Inv, RecoverInv
  <2> QED BY <1>1, <2>1, <2>2
<1>3. "kill" \notin CrashKinds => medium = files BY <1>2, Settled
<1>4. Sound' /\ promised <= attempts BY <1>1 DEF Inv, Sound
<1>5. IdleInv' BY IdleInv, PTL
<1> QED BY <1>1, <1>2, <1>3, <1>4, <1>5

LEMMA BeginRecoveryStep ==
  ASSUME TypeOK, Inv, BeginRecovery
  PROVE  Inv'
<1>1. /\ UNCHANGED <<files, medium, unsynced, updates, attempts, promised>>
      /\ phase = "idle" /\ phase' = "recover" /\ step' = 1 /\ Marked(files)
  BY DEF BeginRecovery, dir, counters, Pending, Present, Marked
<1>2. ~unsynced BY <1>1 DEF Inv, CopyInv
<1>3. "kill" \notin CrashKinds => medium = files BY <1>2, Settled
<1>4. RecoverInv' BY <1>1, <1>2 DEF RecoverInv, Did
<1>5. MediumInv' BY <1>1, <1>2, <1>3 DEF MediumInv
<1>6. Sound' /\ promised' <= attempts' BY <1>1 DEF Inv, Sound
<1>7. RecoverPhase' BY RecoverPhase, PTL
<1> QED BY <1>1, <1>4, <1>5, <1>6, <1>7

-----------------------------------------------------------------------------
(* Errors and crashes. *)

(* An operation that fails has changed nothing. *)
LEMMA FailStep ==
  ASSUME TypeOK, Inv, Tended, CopyFails \/ MarkFails \/ SwapFails \/ RecoveryFails
  PROVE  Inv'
<1>0. /\ UNCHANGED <<medium, updates, attempts, promised>> /\ ~unsynced
      /\ files \in Directory
  BY DEF CopyFails, MarkFails, SwapFails, RecoveryFails, Fail, Tended, TypeOK
<1>1. "kill" \notin CrashKinds => medium = files BY <1>0, Settled
<1>2. files' = files
  <2>1. CASE MarkFails
    <3>1. files["state"] = Absent BY <1>0, <2>1 DEF MarkFails, Inv, MarkInv, Marked
    <3>2. files' = [files EXCEPT !["state"] = Absent] BY <2>1 DEF MarkFails
    <3> QED BY <1>0, <3>1, <3>2 DEF Directory
  <2> QED BY <2>1 DEF CopyFails, SwapFails, RecoveryFails
<1>3. unsynced' \in {FALSE, unsynced} BY DEF CopyFails, MarkFails, SwapFails, RecoveryFails
<1>4. ~unsynced' BY <1>0, <1>3
<1>5. Sound' /\ promised' <= attempts' BY <1>0, <1>2 DEF Inv, Sound
<1>6. CASE phase' = "idle"
  <2>1. IdleInv' BY IdleInv, PTL
  <2> QED BY <1>0, <1>1, <1>2, <1>4, <1>5, <1>6, <2>1
<1>7. CASE SwapFails /\ phase' = "recover" /\ step' = 1 /\ promised # attempts
  <2>1. phase = "swap" /\ step <= 9 BY <1>7, Scripts DEF SwapFails
  <2>2. Marked(files) BY <1>0, <1>7, <2>1 DEF Inv, SwapInv, Did
  <2>3. RecoverInv' BY <1>2, <1>4, <1>7, <2>2 DEF RecoverInv, Did
  <2>4. MediumInv' BY <1>0, <1>1, <1>2, <1>4, <1>7 DEF MediumInv
  <2>5. RecoverPhase' BY RecoverPhase, PTL
  <2> QED BY <1>5, <1>7, <2>3, <2>4, <2>5
<1> QED BY <1>6, <1>7 DEF CopyFails, MarkFails, SwapFails, RecoveryFails, Committed

LEMMA CrashStep ==
  ASSUME TypeOK, Inv, Tended, NEW kind \in CrashKinds, Crash(kind)
  PROVE  Inv'
<1>1. /\ UNCHANGED <<updates, attempts, promised>> /\ phase' = "idle" /\ ~unsynced'
      /\ files' \in IF kind = "kill" THEN {files} ELSE Survivors
      /\ medium' = IF kind = "kill" THEN medium ELSE files'
  BY DEF Crash
<1>2. promised <= attempts /\ Good(files, updates, promised, attempts) BY DEF Inv, Sound
<1>3. kind # "kill" => "kill" \notin CrashKinds
  BY RotationAssumption DEF Tended
<1>4. Good(files', updates, promised, attempts) BY <1>1, <1>2, <1>3, SurvivorsGood
<1>5. "kill" \notin CrashKinds => medium' = files' BY <1>1
<1>6. Sound' BY <1>1, <1>4 DEF Sound
<1>7. IdleInv' BY IdleInv, PTL
<1> QED BY <1>1, <1>2, <1>5, <1>6, <1>7

LEMMA StutterStep ==
  ASSUME Inv, UNCHANGED vars
  PROVE  Inv'
<1>1. UNCHANGED <<files, medium, unsynced, phase, step, from, updates, attempts, promised>>
  BY DEF vars, dir, counters
<1> QED BY <1>1 DEF Inv, Sound, CopyInv, MarkInv, SwapInv, Did, RecoverInv, MediumInv,
                    OneChanged, Replaced, OnlyUnused

-----------------------------------------------------------------------------
(* The invariant is inductive. *)

LEMMA Invariance == IInv /\ [Next]_vars => IInv'
<1> SUFFICES ASSUME IInv, [Next]_vars PROVE IInv'
  OBVIOUS
<1>1. TypeOK /\ TypeOK' BY TypeStep DEF IInv
<1>2. Tended => Inv'
  <2> SUFFICES ASSUME Tended PROVE Inv'
    OBVIOUS
  <2>0. Inv BY DEF IInv
  <2>1. CASE Open BY <1>1, <2>0, <2>1, OpenStep
  <2>2. CASE Update BY <1>1, <2>0, <2>2, UpdateStep
  <2>3. CASE Close BY <1>1, <2>0, <2>3, CloseStep
  <2>4. CASE \E n \in {"bak", "logbak"} : RemoveLeftover(n)
    BY <1>1, <2>0, <2>4, RemoveLeftoverStep
  <2>5. CASE BeginRotation BY <1>1, <2>0, <2>5, BeginRotationStep
  <2>6. CASE BeginRecovery BY <1>1, <2>0, <2>6, BeginRecoveryStep
  <2>7. CASE CopyBatch BY <1>1, <2>0, <2>7, CopyBatchStep
  <2>8. CASE FinishCopy BY <1>1, <2>0, <2>8, FinishCopyStep
  <2>9. CASE CreateState \/ WriteState
    <3>1. PICK s \in State : files' = [files EXCEPT !["state"] = s]
      BY <2>9, OtherValues DEF CreateState, WriteState
    <3>2. /\ phase = "mark" /\ step \in {1, 2} /\ step' = step + 1
          /\ UNCHANGED <<medium, phase, from, counters>>
      BY <2>9 DEF CreateState, WriteState
    <3>3. unsynced' = TRUE
      <4>1. CASE CreateState BY <4>1 DEF CreateState
      <4>2. CASE WriteState
        <5>1. unsynced BY <2>0, <4>2 DEF WriteState, Inv, MarkInv
        <5>2. unsynced' = unsynced BY <4>2 DEF WriteState
        <5>3. unsynced = TRUE BY <1>1, <5>1 DEF TypeOK
        <5> QED BY <5>2, <5>3
      <4> QED BY <2>9, <4>1, <4>2
    <3>4. phase' = "mark" BY <3>2
    <3> QED BY <1>1, <2>0, <3>1, <3>2, <3>3, <3>4, MarkerWritten
  <2>10. CASE SyncState BY <1>1, <2>0, <2>10, SyncStateStep
  <2>11. CASE DoRename BY <1>1, <2>0, <2>11, RenameStep
  <2>12. CASE DoRemove BY <1>1, <2>0, <2>12, RemoveStep
  <2>13. CASE DoRestore BY <1>1, <2>0, <2>13, RestoreStep
  <2>14. CASE Sync BY <1>1, <2>0, <2>14, SyncStep
  <2>15. CASE Finish BY <1>1, <2>0, <2>15, FinishStep
  <2>16. CASE CopyFails \/ MarkFails \/ SwapFails \/ RecoveryFails
    BY <1>1, <2>0, <2>16, FailStep
  <2>17. CASE \E kind \in CrashKinds : Crash(kind) BY <1>1, <2>0, <2>17, CrashStep
  <2>18. CASE UNCHANGED vars BY <2>0, <2>18, StutterStep
  <2> QED BY <2>1, <2>2, <2>3, <2>4, <2>5, <2>6, <2>7, <2>8, <2>9, <2>10, <2>11, <2>12,
             <2>13, <2>14, <2>15, <2>16, <2>17, <2>18 DEF Next, Steps
<1> QED BY <1>1, <1>2 DEF IInv

LEMMA Invariant == Spec => []IInv
<1>1. Init => IInv BY InitInv
<1>2. IInv /\ [Next]_vars => IInv' BY Invariance
<1> QED BY <1>1, <1>2, PTL DEF Spec

-----------------------------------------------------------------------------
(* What a directory that can be gone on from means for the application.    *)

LEMMA SoundMeans ==
  (TypeOK /\ Inv) => (WholeDatabase /\ RetiredStaysRetired /\ OldFilesKept)
<1> SUFFICES ASSUME TypeOK, Inv PROVE WholeDatabase /\ RetiredStaysRetired /\ OldFilesKept
  OBVIOUS
<1>0. files \in Directory /\ Good(files, updates, promised, attempts)
      /\ promised \in Nat
  BY DEF TypeOK, Inv, Sound
<1> DEFINE p == Valid(files, "db", "bak")
           l == Valid(files, "log", "logbak")
<1>1. /\ p \in Tree /\ l \in Changelog /\ Ids(p) = 1..updates /\ l.frames = 1..updates
      /\ p.cred = l.cred /\ promised <= p.cred
      /\ files["wal"] \in {Absent, [cred |-> p.cred]}
  BY <1>0 DEF Good, Whole
<1>2. p # Absent /\ l # Absent /\ p.cred \in Nat BY <1>1, TreeFields, LogFields
<1>3. ASSUME ~Pending PROVE p = files["db"] /\ l = files["log"]
  BY <1>3 DEF Pending, Present, Valid, Marked
<1>4. WholeDatabase
  <2> HIDE DEF p, l
  <2> SUFFICES ASSUME ~Pending
               PROVE  /\ Openable
                      /\ {r.id : r \in files["db"].rows} = 1..updates
                      /\ files["log"].frames = 1..updates
    BY DEF WholeDatabase
  <2>1. p = files["db"] /\ l = files["log"] BY <1>3
  <2>2. Openable BY <1>1, <1>2, <2>1 DEF Openable, Present
  <2> QED BY <1>1, <2>1, <2>2 DEF Ids
<1>5. RetiredStaysRetired
  <2> HIDE DEF p, l
  <2> SUFFICES ASSUME Openable PROVE files["db"].cred >= promised
    BY DEF RetiredStaysRetired
  <2>1. p = files["db"] BY <1>3 DEF Openable
  <2> QED BY <1>0, <1>1, <1>2, <2>1
<1>6. OldFilesKept
  <2> DEFINE old(n, backup) == IF Present(backup) THEN files[backup] ELSE files[n]
  <2> SUFFICES ASSUME Pending
               PROVE  /\ Present("bak") \/ Present("db")
                      /\ Present("logbak") \/ Present("log")
                      /\ old("db", "bak").cred = old("log", "logbak").cred
                      /\ {r.id : r \in old("db", "bak").rows} = 1..updates
    BY DEF OldFilesKept
  <2>1. p = old("db", "bak") /\ l = old("log", "logbak")
    BY DEF Pending, Present, Valid, Marked
  <2>2. Present("bak") \/ Present("db") BY <1>2, <2>1 DEF Present
  <2>3. Present("logbak") \/ Present("log") BY <1>2, <2>1 DEF Present
  <2>4. p.cred = l.cred /\ {r.id : r \in p.rows} = 1..updates BY <1>1 DEF Ids
  <2> HIDE DEF p, l, old
  <2> QED BY <2>1, <2>2, <2>3, <2>4
<1> QED BY <1>4, <1>5, <1>6

(***************************************************************************)
(* The directory, as the process sees it and as it is on the medium, keeps *)
(* its form, and the files a call has open are there, whatever the         *)
(* operator does, whatever fails and whatever crashes (rotation.go).       *)
(***************************************************************************)
THEOREM TypeCorrect == Spec => []TypeOK
<1>1. IInv => TypeOK BY DEF IInv
<1> QED BY <1>1, Invariant, PTL

(***************************************************************************)
(* Wherever RotateEncryption or a recovery stops, a path without a marker  *)
(* holds one whole database: every acknowledged row and frame, under one   *)
(* credential (rotateSwapFiles, recoverInterruptedRotation).               *)
(***************************************************************************)
THEOREM RotationKeepsData == Spec => [](Tended => WholeDatabase)
<1>1. IInv => (Tended => WholeDatabase) BY SoundMeans DEF IInv
<1> QED BY <1>1, Invariant, PTL

(***************************************************************************)
(* Once rotateSwapFiles has removed the marker, nothing that happens later *)
(* brings back files under the retired credential.                         *)
(***************************************************************************)
THEOREM RetiredForGood == Spec => [](Tended => RetiredStaysRetired)
<1>1. IInv => (Tended => RetiredStaysRetired) BY SoundMeans DEF IInv
<1> QED BY <1>1, Invariant, PTL

(***************************************************************************)
(* A marker always comes with the old database, whole, in its place or in  *)
(* the backups: recoverInterruptedRotation can always roll back.           *)
(***************************************************************************)
THEOREM RollbackPossible == Spec => [](Tended => OldFilesKept)
<1>1. IInv => (Tended => OldFilesKept) BY SoundMeans DEF IInv
<1> QED BY <1>1, Invariant, PTL
=============================================================================
