---------------------------- MODULE MCEngineWal ----------------------------
(* Model checking of EngineWal. *)
EXTENDS EngineWal

(* Format v3: errors and kills; power loss with every kind of writer.      *)
(* Formats v1 and v2: power loss.                                          *)
MCScenarios ==
  {[v3 |-> TRUE, writers |-> {"update"}, crashKinds |-> {"kill"},
    maxSeq |-> 4, maxFailures |-> 1, maxCrashes |-> 1],
   [v3 |-> TRUE, writers |-> {"update", "maintenance", "reclaim"},
    crashKinds |-> {"power"}, maxSeq |-> 3, maxFailures |-> 0, maxCrashes |-> 2],
   [v3 |-> FALSE, writers |-> {"update", "maintenance"},
    crashKinds |-> {"power"}, maxSeq |-> 3, maxFailures |-> 0, maxCrashes |-> 2]}
=============================================================================
