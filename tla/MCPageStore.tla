---------------------------- MODULE MCPageStore -----------------------------
(* Pages, their locks, the flusher, and a cache with room for two pages    *)
(* and a half.                                                             *)
EXTENDS PageStore

(* Two commits, an I/O error and backups on pages that all fit the cache,  *)
(* in either kind of format; a commit with evictions and ghosts; readers   *)
(* alone, with more of both.                                               *)
MCScenarios ==
  {[pages |-> {1, 2}, maxTxn |-> 2, maxFailures |-> 1, backup |-> TRUE, v3 |-> marked] : marked \in BOOLEAN}
  \cup
  {[pages |-> {1, 2, 3}, maxTxn |-> 1, maxFailures |-> 0, backup |-> FALSE, v3 |-> TRUE],
   [pages |-> {1, 2, 3, 4}, maxTxn |-> 0, maxFailures |-> 0, backup |-> FALSE, v3 |-> TRUE]}
=============================================================================
