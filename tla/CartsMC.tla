------------------------------- MODULE CartsMC -------------------------------
(***************************************************************************)
(* Carts with interchangeable operations.                                  *)
(***************************************************************************)
EXTENDS Carts, TLC

Swaps == Permutations(Op)

\* A void of nothing, of one unit, of the whole line, and one that adds a unit.
Voids == {-1, 0, 1, 9}
=============================================================================
