---------------------------- MODULE SubLedgersMC ----------------------------
(***************************************************************************)
(* SubLedgers with interchangeable requests and stores.                    *)
(***************************************************************************)
EXTENDS SubLedgers, TLC

Swaps == Permutations(Op) \cup Permutations(Store)
=============================================================================
