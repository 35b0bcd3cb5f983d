---------------------------- MODULE AtomicStore ----------------------------
(***************************************************************************)
(* What the storage engine promises the layer above it, with no file, log  *)
(* or page in sight: the store holds one value; a commit replaces it as a  *)
(* whole; a commit that returns an error leaves the outcome unknown and    *)
(* the handle unusable for writing; reopening after a crash or a close     *)
(* settles on the old or on the new value, never on a mixture.             *)
(*                                                                         *)
(* EngineWal implements this specification (its Refinement property).      *)
(***************************************************************************)

CONSTANT Value, Initial

VARIABLES
  store,      \* the value every reader of a healthy handle sees
  cand,       \* the value a commit under way or with unknown outcome writes
  status      \* "idle", "busy", "unknown", "down" or "refused"

avars == <<store, cand, status>>

AInit ==
  /\ store = Initial
  /\ cand = Initial
  /\ status = "idle"

(* A writer hands a complete new value to the engine. *)
Stage ==
  /\ status = "idle"
  /\ status' = "busy"
  /\ cand' \in Value
  /\ UNCHANGED store

(* The engine reports success: the new value is the store. *)
Acknowledge ==
  /\ status = "busy"
  /\ status' = "idle"
  /\ store' = cand
  /\ UNCHANGED cand

(* The engine reports an error: nobody may build on the handle any more. *)
ReportError ==
  /\ status = "busy"
  /\ status' = "unknown"
  /\ UNCHANGED <<store, cand>>

(* The process ends, cleanly or not. *)
Stop ==
  /\ status \in {"idle", "busy", "unknown"}
  /\ status' = "down"
  /\ UNCHANGED <<store, cand>>

(* A new process opens the files: old value or new value, as a whole. *)
Reopen ==
  /\ status = "down"
  /\ status' = "idle"
  /\ store' \in {store, cand}
  /\ cand' = store'

(* A new process refuses the files as corrupt. *)
Refuse ==
  /\ status = "down"
  /\ status' = "refused"
  /\ UNCHANGED <<store, cand>>

ANext ==
  \/ Stage
  \/ Acknowledge
  \/ ReportError
  \/ Stop
  \/ Reopen
  \/ Refuse

ASpec == AInit /\ [][ANext]_avars
=============================================================================
