------------------------------- MODULE Books -------------------------------
(***************************************************************************)
(* One sale in the general ledger, told by three sources that do not know  *)
(* of each other: the request that creates the sale books it in a commit   *)
(* of its own; each payment settles the receivable in record_payment; and  *)
(* the accounting service's consumers book sale.confirmed and              *)
(* payment.succeeded from what they find in the journals. An event goes to *)
(* several services, and the first of them to commit takes it from the     *)
(* others (see EventBus).                                                  *)
(*                                                                         *)
(* A handler reads the journals and commits later, in READ COMMITTED. The  *)
(* requests are atomic here: SaleLedger has their interleavings.           *)
(*                                                                         *)
(* Sources: worker/handlers/accounting.py, common/bridge.py                *)
(* (_post_sale_journal, _settle_sale_receivable, record_payment),          *)
(* common/services.py (void_sale, return_sale), accounting/routes.py,      *)
(* common/messagebus/consumer.py.                                          *)
(***************************************************************************)
EXTENDS Integers, Sequences, FiniteSets, Functions

CONSTANTS
  Payment,   \* payments that may be recorded for the sale
  Total,     \* the total of the sale
  Worker,    \* consumers of the accounting queue
  MaxUndos,  \* bound on voids and returns
  MaxFaults  \* bound on consumers that die and sales that are never booked

ASSUME BooksAssumption ==
  /\ IsFiniteSet(Payment)
  /\ IsFiniteSet(Worker)
  /\ Total \in Nat \ {0}
  /\ MaxUndos \in Nat
  /\ MaxFaults \in Nat

VARIABLES
  booking, \* the commit that books an unpaid sale: "missing", "posted", "lost"
  sold,    \* the sale's journals: "credit" debits 1100, "cash" debits cash
  ledger,  \* debit balances of cash, 1100 and revenue
  row,     \* the receivable's row exists
  owed,    \* and its balance
  amt,     \* amount of each payment, 0 before it is recorded
  paid,    \* amount_paid of the sale
  saleStatus, \* its status
  undone,  \* its voids and returns, each with the kind of journal it reversed
  hasty,   \* the sale was completed before it was booked
  staged,  \* events published
  inbox,   \* events some service has committed
  stolen,  \* those of them that were another service's
  entries, \* journals the accounting service posted for each event
  how,     \* what it posted for each payment
  task,    \* what a consumer is about to commit
  faults

booksVars == <<booking, sold, ledger, row, owed, amt, paid, saleStatus, undone, hasty,
          staged, inbox, stolen, entries, how, task, faults>>
saleVars  == <<amt, paid, saleStatus, hasty>>
eventVars == <<staged, inbox, stolen, entries, how, task>>

\* The payment.succeeded of a payment, and the sale.confirmed it may stage.
Event   == {"succeeded", "confirmed"} \X Payment
Account == {"cash", "receivable", "revenue"}
Plan    == {"skip", "cash", "recognise", "collect"}
Idle    == [event |-> <<>>, plan |-> "skip"]

\* A journal with one debit and one credit.
Posted(l, debit, credit, a) == [l EXCEPT ![debit] = @ + a, ![credit] = @ - a]

Smaller(a, b) == IF a < b THEN a ELSE b

\* A cart's sale is booked with the sale, in cash; the sale of a document or of
\* the API is committed first and booked next.
BooksInit ==
  /\ \/ /\ booking = "posted" /\ sold = <<"cash">>
        /\ ledger = [cash |-> Total, receivable |-> 0, revenue |-> -Total]
     \/ /\ booking = "missing" /\ sold = <<>>
        /\ ledger = [a \in Account |-> 0]
  /\ row = FALSE /\ owed = 0
  /\ amt = [p \in Payment |-> 0] /\ paid = 0 /\ saleStatus = "pending"
  /\ undone = <<>> /\ hasty = FALSE
  /\ staged = {} /\ inbox = {} /\ stolen = {}
  /\ entries = [e \in Event |-> 0]
  /\ how = [p \in Payment |-> "skip"]
  /\ task = [w \in Worker |-> Idle]
  /\ faults = 0

-----------------------------------------------------------------------------
(* The requests.                                                           *)

\* _post_sale_journal: the journal and the receivable's row in one commit.
Book ==
  /\ booking = "missing"
  /\ booking' = "posted"
  /\ sold' = Append(sold, "credit")
  /\ ledger' = Posted(ledger, "receivable", "revenue", Total)
  /\ row' = TRUE /\ owed' = Total
  /\ UNCHANGED <<saleVars, undone, eventVars, faults>>

\* An account is missing, or the process dies between the two commits.
LoseBooks ==
  /\ booking = "missing" /\ faults < MaxFaults
  /\ booking' = "lost"
  /\ faults' = faults + 1
  /\ UNCHANGED <<sold, ledger, row, owed, saleVars, undone, eventVars>>

\* _settle_sale_receivable: what the payment draws from the receivable.
Settled(a) == IF row THEN Smaller(a, owed) ELSE 0

\* Mutation of Pay: the row is not drawn down.
PayUnsettled(p, a) ==
  LET done == paid + a >= Total IN
  /\ amt[p] = 0
  /\ amt' = [amt EXCEPT ![p] = a]
  /\ paid' = paid + a
  /\ saleStatus' = IF done THEN "completed" ELSE "partial"
  /\ hasty' = (hasty \/ (done /\ booking = "missing"))
  /\ staged' = staged \cup {<<"succeeded", p>>}
                \cup (IF done /\ saleStatus # "completed" THEN {<<"confirmed", p>>} ELSE {})
  /\ owed' = owed
  /\ ledger' = Posted(ledger, "cash", "receivable", Settled(a))
  /\ UNCHANGED <<booking, sold, row, undone, inbox, stolen, entries, how, task, faults>>

\* record_payment: the payment, the sale's row, the events, the settlement.
Pay(p, a) ==
  LET done == paid + a >= Total IN
  /\ amt[p] = 0
  /\ amt' = [amt EXCEPT ![p] = a]
  /\ paid' = paid + a
  /\ saleStatus' = IF done THEN "completed" ELSE "partial"
  /\ hasty' = (hasty \/ (done /\ booking = "missing"))
  /\ staged' = staged \cup {<<"succeeded", p>>}
                \cup (IF done /\ saleStatus # "completed" THEN {<<"confirmed", p>>} ELSE {})
  /\ owed' = owed - Settled(a)
  /\ ledger' = Posted(ledger, "cash", "receivable", Settled(a))
  /\ UNCHANGED <<booking, sold, row, undone, inbox, stolen, entries, how, task, faults>>

\* A payment entered against the receivable: the row and the journal in one
\* transaction; the sale and the bus do not hear of it.
PayReceivable(a) ==
  /\ row /\ a <= owed
  /\ owed' = owed - a
  /\ ledger' = Posted(ledger, "cash", "receivable", a)
  /\ UNCHANGED <<booking, sold, row, saleVars, undone, eventVars, faults>>

\* Which sides a sale's journal of a kind has, and its mirror.
Debited(k) == IF k = "credit" THEN "receivable" ELSE "cash"
Reversed(k) == Posted(ledger, "revenue", Debited(k), Total)

Refuses(k) == IF k = "voided" THEN {"voided"} ELSE {"voided", "returned"}

\* void_sale and return_sale: some posted journal of the sale is mirrored; the
\* payments' journals and the receivable's row are left as they are.
Undo(k) ==
  /\ saleStatus \notin Refuses(k) /\ Len(undone) < MaxUndos
  /\ saleStatus' = k
  /\ IF sold = <<>>
     THEN ledger' = ledger /\ undone' = Append(undone, "nothing")
     ELSE \E i \in DOMAIN sold :
            ledger' = Reversed(sold[i]) /\ undone' = Append(undone, sold[i])
  /\ UNCHANGED <<booking, sold, row, owed, amt, paid, hasty, eventVars, faults>>

-----------------------------------------------------------------------------
(* The consumers.                                                          *)

\* Mutation of ConfirmPlan: a payment's journal counts as the sale's.
ConfirmPlanEager == {IF sold = <<>> /\ \A p \in Payment : how[p] = "skip" THEN "cash" ELSE "skip"}

\* handle_sale_confirmed: checkout posts the sale's journal, unless it did not.
ConfirmPlan == {IF sold = <<>> THEN "cash" ELSE "skip"}

\* handle_payment_succeeded: without a journal of the sale the payment is the
\* recognition; with one that debited 1100 it settles it; otherwise nothing.
PaymentPlan(p) ==
  IF entries[<<"succeeded", p>>] > 0 THEN {"skip"}
  ELSE IF sold = <<>> THEN {"recognise"}
  ELSE {IF sold[i] = "credit" THEN "collect" ELSE "skip" : i \in DOMAIN sold}

\* A delivery that is not yet in the inbox: the handler reads the journals.
Look(w, e) ==
  /\ task[w] = Idle /\ e \in staged \ inbox
  /\ \E k \in IF e[1] = "confirmed" THEN ConfirmPlan ELSE PaymentPlan(e[2]) :
       task' = [task EXCEPT ![w] = [event |-> e, plan |-> k]]
  /\ UNCHANGED <<booking, sold, ledger, row, owed, saleVars, undone, staged,
                 inbox, stolen, entries, how, faults>>

\* Mutation of Taken: the inbox has no key.
TakenNever(e) == FALSE

\* The inbox row's key: only one transaction commits an event.
Taken(e) == e \in inbox

\* The journal a plan posts.
Journal(k, p) ==
  IF k = "cash" THEN Posted(ledger, "cash", "revenue", Total)
  ELSE IF k = "recognise" THEN Posted(ledger, "receivable", "revenue", amt[p])
  ELSE IF k = "collect" THEN Posted(ledger, "cash", "receivable", amt[p])
  ELSE ledger

Commit(w) ==
  LET e == task[w].event
      k == task[w].plan
  IN
  /\ task[w] # Idle /\ ~Taken(e)
  /\ inbox' = inbox \cup {e}
  /\ ledger' = Journal(k, e[2])
  /\ sold' = IF k = "cash" THEN Append(sold, "cash") ELSE sold
  /\ how' = IF e[1] = "succeeded" THEN [how EXCEPT ![e[2]] = k] ELSE how
  /\ entries' = IF k = "skip" THEN entries ELSE [entries EXCEPT ![e] = @ + 1]
  /\ task' = [task EXCEPT ![w] = Idle]
  /\ UNCHANGED <<booking, row, owed, saleVars, undone, staged, stolen, faults>>

\* Its insert into the inbox fails, and the transaction with it.
Rollback(w) ==
  /\ task[w] # Idle /\ Taken(task[w].event)
  /\ task' = [task EXCEPT ![w] = Idle]
  /\ UNCHANGED <<booking, sold, ledger, row, owed, saleVars, undone, staged,
                 inbox, stolen, entries, how, faults>>

\* The consumer dies before its commit; the message comes again.
Crash(w) ==
  /\ task[w] # Idle /\ faults < MaxFaults
  /\ task' = [task EXCEPT ![w] = Idle]
  /\ faults' = faults + 1
  /\ UNCHANGED <<booking, sold, ledger, row, owed, saleVars, undone, staged,
                 inbox, stolen, entries, how>>

\* Another service's consumer commits the event first.
Elsewhere(e) ==
  /\ e \in staged \ inbox
  /\ inbox' = inbox \cup {e}
  /\ stolen' = stolen \cup {e}
  /\ UNCHANGED <<booking, sold, ledger, row, owed, saleVars, undone, staged,
                 entries, how, task, faults>>

Consume(w) == (\E e \in staged : Look(w, e)) \/ Commit(w) \/ Rollback(w)

BooksNext ==
  \/ Book \/ LoseBooks
  \/ \E a \in 1 .. Total : PayReceivable(a) \/ \E p \in Payment : Pay(p, a)
  \/ \E k \in {"voided", "returned"} : Undo(k)
  \/ \E w \in Worker : Consume(w) \/ Crash(w)
  \/ \E e \in staged : Elsewhere(e)

\* A sale that was committed is booked or its request fails, and a consumer
\* goes on with its queue.
BooksSpec ==
  /\ BooksInit /\ [][BooksNext]_booksVars
  /\ WF_booksVars(Book \/ LoseBooks)
  /\ \A w \in Worker : WF_booksVars(Consume(w))

-----------------------------------------------------------------------------
(* What the books say.                                                     *)

\* Payments whose event accounting booked in a way, and what they come to.
Booked(k)  == {p \in Payment : how[p] = k}
Amount(P)  == SumFunctionOnSet(amt, P)
Times(k)   == Cardinality({i \in DOMAIN undone : undone[i] = k})

\* The kinds of values.
BooksTypeOK ==
  /\ booking \in {"missing", "posted", "lost"}
  /\ sold \in Seq({"credit", "cash"})
  /\ ledger \in [Account -> Int]
  /\ row \in BOOLEAN /\ owed \in 0 .. Total
  /\ amt \in [Payment -> 0 .. Total] /\ paid \in Nat
  /\ saleStatus \in {"pending", "partial", "completed", "voided", "returned"}
  /\ undone \in Seq({"credit", "cash", "nothing"}) /\ hasty \in BOOLEAN
  /\ staged \subseteq Event /\ inbox \subseteq staged /\ stolen \subseteq inbox
  /\ entries \in [Event -> Nat] /\ how \in [Payment -> Plan]
  /\ task \in [Worker -> [event : {<<>>} \cup Event, plan : Plan]]
  /\ faults \in 0 .. MaxFaults

\* However often an event is delivered and whichever consumers hold it, it is
\* booked once (consumer.py, the inbox row in the handler's transaction).
OneEntryPerEvent == \A e \in Event : entries[e] <= 1

\* The difference between account 1100 and the receivable's row is, exactly,
\* what the consumers booked for payments and what voids and returns took back:
\* nothing else makes the two drift apart (get_balance_sheet reports it).
ControlExplained ==
  ledger["receivable"] - owed =
    Amount(Booked("recognise")) - Amount(Booked("collect")) - Total * Times("credit")

\* The sale is booked once, unless it was completed before its request booked
\* it, or confirmed twice (it was paid again after a void or a return).
SaleBookedOnce ==
  Len(sold) > 1 => hasty \/ Cardinality({e \in staged : e[1] = "confirmed"}) > 1

\* A completed sale gets to the books, even when the request that created it
\* failed to book it, unless another service took its confirmation.
EventuallyBooked ==
  saleStatus = "completed" ~> sold # <<>> \/ \E e \in stolen : e[1] = "confirmed"
=============================================================================
