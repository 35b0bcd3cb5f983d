------------------------------ MODULE MCBTree -------------------------------
(* The B+ tree on pages of three small entries and three children.         *)
EXTENDS BTree

(***************************************************************************)
(* An empty tree; two full leaves, for loans in both directions; three     *)
(* levels whose right branch is thin, to empty it or the left one; and     *)
(* three levels whose right branch has a leaf of two entries.              *)
(***************************************************************************)
MCLoads ==
  { <<>>,
    [i \in 1..6 |-> <<i, "small">>],
    [i \in 1..4 |-> <<i, "large">>],
    [i \in 1..5 |-> <<i, IF i = 5 THEN "small" ELSE "large">>] }
=============================================================================
