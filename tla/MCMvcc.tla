------------------------------- MODULE MCMvcc -------------------------------
(* The versioned cell store on small instances; see MCMvcc*.cfg. *)
EXTENDS Mvcc
=============================================================================
