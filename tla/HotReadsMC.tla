----------------------------- MODULE HotReadsMC -----------------------------
(***************************************************************************)
(* HotReads with interchangeable requests and processes.                   *)
(***************************************************************************)
EXTENDS HotReads, TLC

Swaps == Permutations(Task) \cup Permutations(Proc)
=============================================================================
