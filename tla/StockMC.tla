------------------------------ MODULE StockMC ------------------------------
(***************************************************************************)
(* Stock with interchangeable sessions.                                    *)
(***************************************************************************)
EXTENDS Stock, TLC

Sessions == Permutations(Op)
=============================================================================
