------------------------------ MODULE MCCopyOut ------------------------------
(* Copies into a new file on small instances; see MCCopyOut.cfg. *)
EXTENDS CopyOut

(* In the order of the prefixes: a changefeed row (1), a cell (2), another *)
(* record (3) and an index row of the cell (4).                            *)
MCOwner == [k \in 1..4 |-> IF k = 4 THEN 2 ELSE k]
=============================================================================
