------------------------------- MODULE Debts -------------------------------
(***************************************************************************)
(* What the receivables and payables of a business promise, with nothing   *)
(* of how: a debt is raised once, and is paid off in payments, each no     *)
(* more than what is left, each recorded in the step that takes it.        *)
(* SubLedgers implements this specification through rows, locks and        *)
(* payment functions, while the rows move from store to store.             *)
(***************************************************************************)
EXTENDS Naturals

CONSTANTS
  Debt,   \* debts
  Amount  \* what a debt may come to

VARIABLES
  left,    \* what is left of each debt that has been raised
  recorded \* what the payments recorded for it add up to

vars == <<left, recorded>>

Empty == [d \in {} |-> 0]

With(f, d, n) == [x \in DOMAIN f \cup {d} |-> IF x = d THEN n ELSE f[x]]

Init == left = Empty /\ recorded = Empty

Raise(d, n) ==
  /\ d \notin DOMAIN left
  /\ left' = With(left, d, n)
  /\ recorded' = With(recorded, d, 0)

Take(d, n) ==
  /\ left' = [left EXCEPT ![d] = @ - n]
  /\ recorded' = [recorded EXCEPT ![d] = @ + n]

Next ==
  \/ \E d \in Debt, n \in Amount : Raise(d, n)
  \/ \E d \in DOMAIN left : \E n \in 1 .. left[d] : Take(d, n)

Spec == Init /\ [][Next]_vars
=============================================================================
