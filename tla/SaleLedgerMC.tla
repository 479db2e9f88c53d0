---------------------------- MODULE SaleLedgerMC ----------------------------
(***************************************************************************)
(* SaleLedger with interchangeable requests.                               *)
(***************************************************************************)
EXTENDS SaleLedger, TLC

Calls == Permutations(Call)
=============================================================================
