---------------------------- MODULE EventBusMC ----------------------------
(***************************************************************************)
(* EventBus on the part of the topology that one settled payment crosses:  *)
(* payment.succeeded, staged by record_payment, and sales.receipt_created, *)
(* staged by the sales handler of the first (messagebus/setup.py,          *)
(* worker/handlers/__init__.py).                                           *)
(***************************************************************************)
EXTENDS EventBus, TLC

CONSTANTS pay, rcpt, sales, payments, reporting

\* payment.succeeded goes to all three queues, sales.receipt_created to those
\* bound to sales.#; the payments service registers no handler at all.
MCBound == (pay :> {sales, payments, reporting}) @@ (rcpt :> {sales, reporting})

MCHandled ==
  (sales :> {pay}) @@ (payments :> {}) @@ (reporting :> {pay, rcpt})

MCEmits ==
  [s \in {sales, payments, reporting} |->
     [e \in {pay, rcpt} |-> IF s = sales /\ e = pay THEN {rcpt} ELSE {}]]

MCBorn == {pay}
=============================================================================
