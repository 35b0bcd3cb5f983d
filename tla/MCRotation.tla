---------------------------- MODULE MCRotation ----------------------------
(* Key rotation on small instances; see MCRotation*.cfg. *)
EXTENDS Rotation
=============================================================================
