------------------------- MODULE MCChangelogOutbox -------------------------
(* Model checking of ChangelogOutbox. *)
EXTENDS ChangelogOutbox

(* Two workers on an eager feed; a lazy feed that is reopened in any mode; *)
(* a sidecar that is lost or replaced while the outbox is empty.           *)
MCScenarios ==
  {[workers |-> Worker, modes |-> {"eager"}, crashKinds |-> {"kill", "power"},
    maxUpdates |-> 2, maxMuts |-> 1, maxFailures |-> 1, maxCrashes |-> 1,
    maxLosses |-> 0],
   [workers |-> {"w1"}, modes |-> {"eager", "lazy", "off"},
    crashKinds |-> {"kill", "power"}, maxUpdates |-> 2, maxMuts |-> 2,
    maxFailures |-> 1, maxCrashes |-> 1, maxLosses |-> 0],
   [workers |-> {"w1"}, modes |-> {"eager", "off"}, crashKinds |-> {},
    maxUpdates |-> 3, maxMuts |-> 1, maxFailures |-> 0, maxCrashes |-> 0,
    maxLosses |-> 1]}
=============================================================================
