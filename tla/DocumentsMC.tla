---------------------------- MODULE DocumentsMC ----------------------------
(***************************************************************************)
(* Documents with interchangeable requests and fees.                       *)
(***************************************************************************)
EXTENDS Documents, TLC

Swaps == Permutations(Op) \cup Permutations(Fee)
=============================================================================
