------------------------------ MODULE MCRuntime ------------------------------
(* A small instance of Runtime. *)
EXTENDS Runtime
=============================================================================
