-------------------------- MODULE PaymentIntentsMC --------------------------
(***************************************************************************)
(* PaymentIntents with interchangeable calls.                              *)
(***************************************************************************)
EXTENDS PaymentIntents, TLC

Calls == Permutations(Call)
=============================================================================
