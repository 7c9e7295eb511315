------------------------------ MODULE MCMalloc ------------------------------
(* The allocator on a small heap, see the .cfg files. *)
EXTENDS Malloc
=============================================================================
