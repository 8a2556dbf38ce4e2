------------------------------ MODULE MCMalloc ------------------------------
(* The user heap for TLC: see MCMalloc.cfg. *)
EXTENDS Malloc
=============================================================================
