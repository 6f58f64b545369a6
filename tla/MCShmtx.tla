------------------------------ MODULE MCShmtx ------------------------------
(* Instances of Shmtx. *)
EXTENDS Shmtx
=============================================================================
