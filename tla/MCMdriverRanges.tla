--------------------------- MODULE MCMdriverRanges ---------------------------
(* mdriver's range list with an allocator that returns any address. *)
EXTENDS MdriverRanges
=============================================================================
