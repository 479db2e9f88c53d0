------------------------------ MODULE BooksMC ------------------------------
(***************************************************************************)
(* Books for TLC. Its liveness property rules a symmetry out.              *)
(***************************************************************************)
EXTENDS Books, TLC
=============================================================================
