------------------------------ MODULE MCRestore ------------------------------
(* Restore on small instances.                                               *)
EXTENDS Restore
=============================================================================
