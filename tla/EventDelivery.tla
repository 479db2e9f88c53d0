--------------------------- MODULE EventDelivery ---------------------------
(***************************************************************************)
(* What the messaging of the system promises, with nothing of how: an      *)
(* event is announced once its transaction has committed, copies of it are *)
(* sent only from then on and until it is settled, at most one service     *)
(* ever handles it, and handling it announces the events that the handler  *)
(* itself stages, in the same step. EventBus implements this specification *)
(* through outbox, relay, queues and inbox.                                *)
(***************************************************************************)
EXTENDS Naturals

CONSTANTS
  Event,      \* events
  Service,    \* services that may handle them
  Handled,    \* Handled[s]: the events s has a handler for
  Emits,      \* Emits[s][e]: the events that handler announces
  Born        \* the events that are announced on their own

VARIABLES
  announced,  \* the events that have been announced
  copies,     \* copies sent of each event
  settled,    \* the events of which no copy is sent any more
  handled     \* the pairs <<s, e>> with e handled by s

vars == <<announced, copies, settled, handled>>

Init ==
  /\ announced = {} /\ settled = {} /\ handled = {}
  /\ copies = [e \in Event |-> 0]

Announce(e) ==
  /\ e \in Born \ announced
  /\ announced' = announced \cup {e}
  /\ UNCHANGED <<copies, settled, handled>>

Send(e) ==
  /\ e \in announced \ settled
  /\ copies' = [copies EXCEPT ![e] = @ + 1]
  /\ UNCHANGED <<announced, settled, handled>>

Settle(E) ==
  /\ E \subseteq announced /\ \A e \in E : copies[e] > 0
  /\ settled' = settled \cup E
  /\ UNCHANGED <<announced, copies, handled>>

Handle(s, e) ==
  /\ e \in announced \cap Handled[s] /\ copies[e] > 0
  /\ \A t \in Service : <<t, e>> \notin handled
  /\ handled' = handled \cup {<<s, e>>}
  /\ announced' = announced \cup Emits[s][e]
  /\ UNCHANGED <<copies, settled>>

Next ==
  \/ \E E \in SUBSET Event : Settle(E)
  \/ \E e \in Event :
       Announce(e) \/ Send(e) \/ \E s \in Service : Handle(s, e)

Spec == Init /\ [][Next]_vars
=============================================================================
