----------------------------- MODULE SaleLedger -----------------------------
(***************************************************************************)
(* The money of one sale after it is committed: what the customer has paid *)
(* (the payments rows), what the sale says was paid (amount_paid, status), *)
(* what the receivable row says is owed, what the general ledger was told, *)
(* and the rows of the platform's fee ledger.                              *)
(*                                                                         *)
(* Any number of requests act on it at once: cash payments, a split        *)
(* payment, a sale-bound payment link, the gateway's webhook for a leg, a  *)
(* payment entered against the receivable, a void, a return. The sale is   *)
(* read without a lock; the first statement that flushes the change takes  *)
(* the row's lock until the commit, and then writes the sum computed from  *)
(* the old reading. A webhook holds one connection of the shared pool      *)
(* while record_payment opens a second one.                                *)
(*                                                                         *)
(* Sources: common/bridge.py (record_payment, process_split_payment,       *)
(* confirm_split_card_payment and its transfer twin), common/services.py   *)
(* (void_sale, return_sale),                                               *)
(* accounting/routes.py with fn_record_ar_payment, payments/routes.py.     *)
(***************************************************************************)
EXTENDS Naturals, FiniteSets, Sequences

CONSTANTS
  Call,       \* requests
  Total,      \* the total of the sale
  Pool,       \* connections of the shared pool (pool_size + max_overflow)
  CardLeg,    \* TRUE: the leg is a card link; FALSE: a bank transfer
  MaxDeaths,  \* bound on the requests that fail half-way
  NoCall      \* "nobody holds the lock"

ASSUME LedgerAssumption ==
  /\ IsFiniteSet(Call)
  /\ Total \in Nat \ {0}
  /\ Pool \in Nat \ {0}
  /\ CardLeg \in BOOLEAN
  /\ MaxDeaths \in Nat
  /\ NoCall \notin Call

VARIABLES
  receivable, \* the sale was booked unpaid: its journal debits 1100
  books,      \* its journal: "missing", "posted" or "lost"
  paid,       \* amount_paid of the sale's row
  status,     \* its status
  lock,       \* the request that holds its row lock
  arPaid,     \* amount_paid of the receivable's row
  credited,   \* what the journals of payments credited to 1100
  taken,      \* the sum of the payments rows
  pend,       \* the amounts of the sale whose fee rows are pending
  ded,        \* and those whose fee rows are deducted
  confirms,   \* sale.confirmed events staged
  reversed,   \* reversal journals posted
  undone,     \* the voids and returns, and the payments that revived the sale
  leg,        \* status of the sale-bound intent, "none" before it exists
  legAmt,     \* its amount
  legLock,    \* the request that holds its row lock
  legTaken,   \* payments recorded for it
  seen,       \* its webhook has a key in the replay window
  logged,     \* its webhook is in webhook_logs
  raced,      \* some request wrote what another had read
  pc, kind, amt, held, deaths

saleVars  == <<paid, status>>
moneyVars == <<taken, pend, ded, confirms>>
bookVars  == <<receivable, books, arPaid, credited>>
legVars   == <<leg, legAmt>>
undoVars  == <<reversed, undone>>
hookVars  == <<seen, logged>>
vars == <<receivable, books, paid, status, lock, arPaid, credited, taken, pend,
          ded, confirms, reversed, undone, leg, legAmt, legLock, legTaken, seen,
          logged, raced, pc, kind, amt, held, deaths>>

Status == {"pending", "partial", "completed", "voided", "returned"}
Kind   == {"none", "pay", "split", "link", "hook", "ar", "void", "return"}
Amount == 1 .. Total

Phase == {"ready", "reading", "flushing", "locked", "splitting", "checking",
          "undoing", "linking", "deduping", "claiming", "marking",
          "claimed", "flipping", "logging", "done", "refused", "timeout",
          "dead"}
Ended == {"ready", "done", "refused", "timeout", "dead"}

\* Between its reading of the sale's row and its commit.
Stale(c)    == pc[c] \in {"flushing", "locked", "splitting", "undoing"}
Reckoning   == {c \in Call : Stale(c)}
\* Holding a connection of its own; a webhook's record_payment holds two.
Outer == {"marking", "claimed", "flipping"}
Inner == {"flushing", "locked", "splitting"}
InUse == Cardinality({c \in Call : pc[c] \in Outer \cup Inner})
           + Cardinality({c \in Call : kind[c] = "hook" /\ pc[c] \in Inner})
Free  == InUse < Pool

Smaller(a, b) == IF a < b THEN a ELSE b

\* A request that ends forgets its amount.
Goto(c, p) ==
  /\ pc' = [pc EXCEPT ![c] = p]
  /\ amt' = IF p \in Ended THEN [amt EXCEPT ![c] = 0] ELSE amt

Drop(c) == held' = [held EXCEPT ![c] = [paid |-> 0, status |-> "pending", ar |-> 0]]

Release(c) ==
  /\ lock' = IF lock = c THEN NoCall ELSE lock
  /\ legLock' = IF legLock = c THEN NoCall ELSE legLock

\* A sale converted from a document or entered through the API is unpaid and
\* booked to receivables by a second commit; a cart's is booked with the sale.
Init ==
  /\ receivable \in BOOLEAN
  /\ books = IF receivable THEN "missing" ELSE "posted"
  /\ paid = 0 /\ status = "pending" /\ lock = NoCall
  /\ arPaid = 0 /\ credited = 0
  /\ taken = 0 /\ pend = 0 /\ ded = 0
  /\ confirms = 0 /\ reversed = 0 /\ undone = <<>>
  /\ leg = "none" /\ legAmt = 0 /\ legLock = NoCall /\ legTaken = 0
  /\ seen = FALSE /\ logged = FALSE
  /\ raced = FALSE
  /\ pc = [c \in Call |-> "ready"]
  /\ kind = [c \in Call |-> "none"]
  /\ amt = [c \in Call |-> 0]
  /\ held = [c \in Call |-> [paid |-> 0, status |-> "pending", ar |-> 0]]
  /\ deaths = 0

-----------------------------------------------------------------------------
(* The second commit of create_sale_via_service.                           *)

Book ==
  /\ books = "missing"
  /\ books' = "posted"
  /\ raced' = (raced \/ undone # <<>> \/ \E c \in Call : pc[c] = "undoing")
  /\ UNCHANGED <<receivable, saleVars, lock, arPaid, credited, moneyVars,
                 undoVars, legVars, legLock, legTaken, hookVars, pc, kind, amt,
                 held, deaths>>

\* An account is missing from the chart, or the process died in between.
LoseBooks ==
  /\ books = "missing" /\ deaths < MaxDeaths
  /\ books' = "lost"
  /\ deaths' = deaths + 1
  /\ UNCHANGED <<receivable, saleVars, lock, arPaid, credited, moneyVars,
                 undoVars, legVars, legLock, legTaken, hookVars, raced, pc,
                 kind, amt, held>>

-----------------------------------------------------------------------------
(* The arrival of a request.                                               *)

Begin(c, k, a, p) ==
  /\ pc[c] = "ready"
  /\ pc' = [pc EXCEPT ![c] = p]
  /\ kind' = [kind EXCEPT ![c] = k]
  /\ amt' = [amt EXCEPT ![c] = IF p \in Ended THEN 0 ELSE a]
  /\ UNCHANGED <<bookVars, saleVars, lock, moneyVars, undoVars, legVars,
                 legLock, legTaken, logged, raced, held, deaths>>

Pay(c) == \E a \in Amount : Begin(c, "pay", a, "reading") /\ UNCHANGED seen

\* The cash share, possibly none; the rest is the card or transfer leg. One
\* leg is modelled: no second split or link while the first has one.
Split(c) ==
  /\ leg = "none"
  /\ \E a \in 0 .. Total - 1 : Begin(c, "split", a, "reading")
  /\ UNCHANGED seen

StartLink(c) ==
  /\ leg = "none"
  /\ \E a \in Amount : Begin(c, "link", a, "linking")
  /\ UNCHANGED seen

Undo(c) ==
  /\ \E k \in {"void", "return"} : Begin(c, k, 0, "checking")
  /\ UNCHANGED seen

\* The replay middleware answers a repeated body within its window.
Hook(c) ==
  /\ leg # "none"
  /\ Begin(c, "hook", legAmt, IF seen THEN "refused" ELSE "deduping")
  /\ seen' = TRUE

Forget ==
  /\ seen
  /\ seen' = FALSE
  /\ UNCHANGED <<bookVars, saleVars, lock, moneyVars, undoVars, legVars,
                 legLock, legTaken, logged, raced, pc, kind, amt, held, deaths>>

-----------------------------------------------------------------------------
(* record_payment: the payment is inserted, the sale read and changed in   *)
(* memory; a later query flushes the change, which takes the row lock, and *)
(* the receivable is read; then everything is committed.                   *)

ReadSale(c) ==
  /\ pc[c] \in {"reading", "claimed"}
  /\ Free
  /\ held' = [held EXCEPT ![c].paid = paid, ![c].status = status]
  /\ Goto(c, IF kind[c] = "split" THEN "splitting" ELSE "flushing")
  /\ raced' = (raced \/ Reckoning # {})
  /\ UNCHANGED <<bookVars, saleVars, lock, moneyVars, undoVars, legVars,
                 legLock, legTaken, hookVars, kind, deaths>>

HasOpenReceivable == receivable /\ books = "posted" /\ arPaid < Total

Flush(c) ==
  /\ pc[c] = "flushing"
  /\ lock = NoCall
  /\ lock' = c
  /\ held' = [held EXCEPT ![c].ar = IF HasOpenReceivable THEN arPaid ELSE Total]
  /\ Goto(c, "locked")
  /\ UNCHANGED <<bookVars, saleVars, moneyVars, undoVars, legVars, legLock,
                 legTaken, hookVars, raced, kind, deaths>>

NewPaid(c) == held[c].paid + amt[c]

\* Mutation of NewStatus: one unit short counts as paid.
NewStatusShort(c) ==
  IF NewPaid(c) + 1 >= Total THEN "completed" ELSE "partial"

NewStatus(c) ==
  IF NewPaid(c) >= Total THEN "completed"
  ELSE IF NewPaid(c) > 0 THEN "partial" ELSE held[c].status

\* The ORM writes the columns that differ from what it loaded.
WriteStatus(c) == IF NewStatus(c) = held[c].status THEN status ELSE NewStatus(c)

\* Mutation of Confirms: whether the sale was completed already is not asked.
ConfirmsAgain(c) == IF NewStatus(c) = "completed" THEN 1 ELSE 0

\* Staged by the payment that finds the sale not yet completed.
Confirms(c) == IF NewStatus(c) = "completed" /\ held[c].status # "completed"
               THEN 1 ELSE 0

Revives(c) == IF status \in {"voided", "returned"}
                 /\ WriteStatus(c) # status
              THEN Append(undone, "pay") ELSE undone

\* What _settle_sale_receivable takes off the balance it read.
Settles(c) == Smaller(amt[c], Total - held[c].ar)

\* Mutation of DrawDown: the row is drawn down and no journal posted.
DrawDownRow(c) ==
  IF Settles(c) > 0
  THEN arPaid' = held[c].ar + Settles(c) /\ UNCHANGED credited
  ELSE UNCHANGED <<arPaid, credited>>

DrawDown(c) ==
  IF Settles(c) > 0
  THEN /\ arPaid' = held[c].ar + Settles(c)
       /\ credited' = credited + Settles(c)
  ELSE UNCHANGED <<arPaid, credited>>

BookFee(c) ==
  IF NewStatus(c) = "completed"
  THEN IF kind[c] = "hook"
       THEN ded' = ded + amt[c] /\ UNCHANGED pend
       ELSE pend' = pend + amt[c] /\ UNCHANGED ded
  ELSE UNCHANGED <<pend, ded>>

CommitPayment(c) ==
  /\ pc[c] = "locked"
  /\ taken' = taken + amt[c]
  /\ paid' = NewPaid(c)
  /\ status' = WriteStatus(c)
  /\ confirms' = confirms + Confirms(c)
  /\ undone' = Revives(c)
  /\ BookFee(c)
  /\ DrawDown(c)
  /\ legTaken' = IF kind[c] = "hook" THEN legTaken + 1 ELSE legTaken
  /\ lock' = NoCall
  /\ Drop(c)
  /\ Goto(c, IF kind[c] = "hook" THEN "flipping" ELSE "done")
  /\ UNCHANGED <<receivable, books, reversed, legVars, legLock, hookVars, raced,
                 kind, deaths>>

-----------------------------------------------------------------------------
(* process_split_payment. The sale is read, the gateway is asked for the   *)
(* leg, and the cash share and the leg's intent are committed together.    *)
(* The receivable is left alone: only the cash leg of the sale's journal   *)
(* is reclassified. (The row is locked from the first flush on; holding it *)
(* until the commit or taking it there lets the same others run before.)   *)

SplitFee(c) ==
  IF NewStatus(c) = "completed"
  THEN pend' = pend + amt[c] /\ ded' = ded + (Total - amt[c])
  ELSE UNCHANGED <<pend, ded>>

CommitSplit(c) ==
  /\ pc[c] = "splitting"
  /\ lock = NoCall /\ leg = "none"
  /\ taken' = taken + amt[c]
  /\ paid' = IF amt[c] > 0 THEN NewPaid(c) ELSE paid
  /\ status' = WriteStatus(c)
  /\ undone' = Revives(c)
  /\ SplitFee(c)
  /\ leg' = "pending"
  /\ legAmt' = Total - amt[c]
  /\ Drop(c)
  /\ Goto(c, "done")
  /\ UNCHANGED <<bookVars, lock, confirms, reversed, legLock, legTaken,
                 hookVars, raced, kind, deaths>>

\* initiate_card_payment and initiate_transfer_payment, whatever the sale's
\* status: the gateway first, then the intent.
Link(c) ==
  /\ pc[c] = "linking"
  /\ leg = "none"
  /\ leg' = "pending"
  /\ legAmt' = amt[c]
  /\ Goto(c, "done")
  /\ UNCHANGED <<bookVars, saleVars, lock, moneyVars, undoVars, legLock,
                 legTaken, hookVars, raced, kind, held, deaths>>

-----------------------------------------------------------------------------
(* The webhook of a sale-bound leg: webhook_logs; for a card, the flow that *)
(* starts from the intent, which refuses an intent without a cart but marks *)
(* one whose time has passed expired; then confirm_split_card_payment or    *)
(* confirm_split_transfer_payment, which look at no status.                 *)

Keep(c, p) ==
  /\ Goto(c, p)
  /\ UNCHANGED <<bookVars, saleVars, lock, moneyVars, undoVars, legAmt,
                 legTaken, seen, kind, held, deaths>>

\* Another delivery that has passed the look-up and is not logged yet.
OtherHook(c) == \E d \in Call \ {c} : kind[d] = "hook" /\ pc[d] \notin Ended

\* Mutation of Dedupe: webhook_logs is not consulted.
DedupeNothing(c) ==
  /\ pc[c] = "deduping" /\ Free
  /\ Keep(c, "claiming")
  /\ raced' = (raced \/ (~logged /\ OtherHook(c)))
  /\ UNCHANGED <<leg, legLock, logged>>

Dedupe(c) ==
  /\ pc[c] = "deduping" /\ Free
  /\ Keep(c, IF logged THEN "refused" ELSE "claiming")
  /\ raced' = (raced \/ (~logged /\ OtherHook(c)))
  /\ \/ leg' = leg
     \/ /\ CardLeg /\ ~logged /\ leg = "pending" /\ legLock = NoCall
        /\ leg' = "expired"
  /\ UNCHANGED <<legLock, logged>>

\* The session is opened, and the intent's row is locked by the flush if its
\* status changes.
Open(c) ==
  /\ pc[c] = "claiming" /\ Free
  /\ Keep(c, "marking")
  /\ UNCHANGED <<leg, legLock, logged, raced>>

Claim(c) ==
  /\ pc[c] = "marking"
  /\ legLock = NoCall \/ leg = "completed"
  /\ legLock' = IF leg = "completed" THEN legLock ELSE c
  /\ Keep(c, "claimed")
  /\ UNCHANGED <<leg, logged, raced>>

\* Every pending fee row of the sale is flipped with the intent.
Flip(c) ==
  /\ pc[c] = "flipping"
  /\ ded' = ded + pend
  /\ pend' = 0
  /\ leg' = IF legLock = c THEN "completed" ELSE leg
  /\ legLock' = IF legLock = c THEN NoCall ELSE legLock
  /\ Goto(c, IF CardLeg THEN "logging" ELSE "done")
  /\ UNCHANGED <<bookVars, saleVars, lock, taken, confirms, undoVars, legAmt,
                 legTaken, hookVars, raced, kind, held, deaths>>

LogWebhook(c) ==
  /\ pc[c] = "logging" /\ Free
  /\ logged' = TRUE
  /\ Keep(c, "done")
  /\ UNCHANGED <<leg, legLock, raced>>

-----------------------------------------------------------------------------
(* A payment entered against the receivable: one transaction that locks    *)
(* the row, refuses more than its balance and posts the journal.           *)

ArPay(c) ==
  /\ pc[c] = "ready"
  /\ receivable /\ books = "posted"
  /\ kind' = [kind EXCEPT ![c] = "ar"]
  /\ \E a \in Amount :
       IF a > Total - arPaid
       THEN Goto(c, "refused") /\ UNCHANGED <<arPaid, credited, raced>>
       ELSE /\ arPaid' = arPaid + a
            /\ credited' = credited + a
            /\ raced' = (raced \/ \E d \in Call : pc[d] = "locked")
            /\ Goto(c, "done")
  /\ UNCHANGED <<receivable, books, saleVars, lock, moneyVars, undoVars, legVars,
                 legLock, legTaken, hookVars, held, deaths>>

-----------------------------------------------------------------------------
(* void_sale and return_sale: the status is read without a lock; the goods *)
(* go back on the shelf and the mirror of the sale's journal is posted.    *)

\* Mutation of Refuses: a void forgets that the sale is void already.
RefusesReturned(k) == {"returned"}

Refuses(k) == IF k = "void" THEN {"voided"} ELSE {"voided", "returned"}

CheckUndo(c) ==
  /\ pc[c] = "checking"
  /\ Goto(c, IF status \in Refuses(kind[c]) THEN "refused" ELSE "undoing")
  /\ raced' = (raced \/ (status \notin Refuses(kind[c]) /\ Reckoning # {}))
  /\ UNCHANGED <<bookVars, saleVars, lock, moneyVars, undoVars, legVars,
                 legLock, legTaken, hookVars, kind, held, deaths>>

\* Mutation of CommitUndo: a sale without a journal is reversed like any other.
CommitUndoUnbooked(c) ==
  /\ pc[c] = "undoing"
  /\ lock = NoCall
  /\ status' = IF kind[c] = "void" THEN "voided" ELSE "returned"
  /\ reversed' = reversed + 1
  /\ undone' = Append(undone, kind[c])
  /\ Goto(c, "done")
  /\ UNCHANGED <<bookVars, paid, lock, moneyVars, legVars, legLock, legTaken,
                 hookVars, raced, kind, held, deaths>>

CommitUndo(c) ==
  /\ pc[c] = "undoing"
  /\ lock = NoCall
  /\ status' = IF kind[c] = "void" THEN "voided" ELSE "returned"
  /\ reversed' = IF books = "posted" THEN reversed + 1 ELSE reversed
  /\ undone' = Append(undone, kind[c])
  /\ Goto(c, "done")
  /\ UNCHANGED <<bookVars, paid, lock, moneyVars, legVars, legLock, legTaken,
                 hookVars, raced, kind, held, deaths>>

-----------------------------------------------------------------------------
(* Failures. A request dies or a statement or the gateway fails: its open  *)
(* transactions are rolled back. One that waits for a connection while the *)
(* pool is exhausted gives up after pool_timeout.                          *)

Die(c) ==
  /\ pc[c] \notin Ended /\ deaths < MaxDeaths
  /\ deaths' = deaths + 1
  /\ Goto(c, "dead")
  /\ Release(c) /\ Drop(c)
  /\ UNCHANGED <<bookVars, saleVars, moneyVars, undoVars, legVars, legTaken,
                 hookVars, raced, kind>>

Waits(c) == pc[c] \in {"reading", "deduping", "claiming", "claimed",
                       "logging"}

\* Mutation of PoolTimeout: a request waits for a connection for ever.
PoolForever(c) == FALSE /\ UNCHANGED vars

PoolTimeout(c) ==
  /\ Waits(c) /\ ~Free
  /\ Goto(c, "timeout")
  /\ Release(c)
  /\ UNCHANGED <<bookVars, saleVars, moneyVars, undoVars, legVars, legTaken,
                 hookVars, raced, kind, held, deaths>>

\* A second leg appeared while the request was at the gateway: outside of the
\* model, which has one leg.
GiveUp(c) ==
  /\ pc[c] \in {"splitting", "linking"} /\ leg # "none"
  /\ Goto(c, "refused")
  /\ Drop(c)
  /\ UNCHANGED <<bookVars, saleVars, lock, moneyVars, undoVars, legVars,
                 legLock, legTaken, hookVars, raced, kind, deaths>>

-----------------------------------------------------------------------------
Arrive(c) == Pay(c) \/ Split(c) \/ StartLink(c) \/ Hook(c) \/ ArPay(c) \/ Undo(c)

Advance(c) ==
  \/ ReadSale(c) \/ Flush(c) \/ CommitPayment(c) \/ CommitSplit(c) \/ Link(c)
  \/ Dedupe(c) \/ Open(c) \/ Claim(c) \/ Flip(c) \/ LogWebhook(c)
  \/ CheckUndo(c) \/ CommitUndo(c) \/ PoolTimeout(c) \/ GiveUp(c)

Next ==
  \/ Book \/ LoseBooks \/ Forget
  \/ \E c \in Call : Arrive(c) \/ Advance(c) \/ Die(c)

\* A request that has begun takes its next step; none has to arrive or fail.
Spec == Init /\ [][Next]_vars /\ \A c \in Call : WF_vars(Advance(c))

-----------------------------------------------------------------------------
(* Properties.                                                             *)

TypeOK ==
  /\ receivable \in BOOLEAN
  /\ books \in {"missing", "posted", "lost"}
  /\ paid \in Nat /\ status \in Status /\ lock \in Call \cup {NoCall}
  /\ arPaid \in 0 .. Total /\ credited \in Nat
  /\ taken \in Nat /\ pend \in Nat /\ ded \in Nat
  /\ confirms \in Nat /\ reversed \in Nat
  /\ undone \in Seq({"void", "return", "pay"})
  /\ leg \in {"none", "pending", "completed", "expired"}
  /\ legAmt \in 0 .. Total /\ legLock \in Call \cup {NoCall} /\ legTaken \in Nat
  /\ seen \in BOOLEAN /\ logged \in BOOLEAN /\ raced \in BOOLEAN
  /\ pc \in [Call -> Phase] /\ kind \in [Call -> Kind]
  /\ amt \in [Call -> 0 .. Total]
  /\ held \in [Call -> [paid : Nat, status : Status, ar : 0 .. Total]]
  /\ deaths \in 0 .. MaxDeaths

\* The sale never says more was paid than payments were committed, and exactly
\* that unless two requests raced on the row: what a request adds to an old
\* reading can lose a payment but never invent one (record_payment reads
\* amount_paid without a lock, bridge.py 7801). So a completed sale was paid in
\* full, however its payments interleaved.
PaidIsTaken ==
  /\ paid <= taken
  /\ ~raced => paid = taken
  /\ status = "completed" => taken >= Total

\* The receivable's row and the ledger's account 1100 move together unless
\* record_payment settled a balance that fn_record_ar_payment had changed
\* since it was read; then the row lags behind the ledger, never ahead of it.
ReceivableFollowsBooks ==
  /\ arPaid <= credited
  /\ ~raced => arPaid = credited

Revivals(u) == Cardinality({j \in DOMAIN u : u[j] = "pay"})

\* sale.confirmed is staged once; again only for a sale that was voided or
\* returned and paid once more, or when two payments raced.
ConfirmedOnce == ~raced => confirms <= 1 + Revivals(undone)

\* A sale is undone once: between two reversals a payment has revived it, or
\* the first was a return and the second a void, which void_sale lets pass.
UndoneOnce ==
  ~raced => \A j \in 1 .. Len(undone) - 1 :
              undone[j] = "pay" \/ undone[j + 1] = "pay"
                \/ <<undone[j], undone[j + 1]>> = <<"return", "void">>

\* One charge is recorded once: a second record needs a webhook that died or
\* timed out before it was logged, two deliveries at the same time, or a bank
\* transfer, whose deliveries are not logged at all.
LegRecordedOnce ==
  legTaken > 1 =>
    \/ ~CardLeg
    \/ raced
    \/ \E c \in Call : kind[c] = "hook" /\ pc[c] \in {"dead", "timeout"}

\* The requests implement Till: unless two of them raced, each commit does to the
\* sale of that moment what its operation would have done alone, although it was
\* computed from what the request had read before (bridge.py, record_payment and
\* process_split_payment; common/services.py, void_sale and return_sale).
Serial == INSTANCE Till WITH drawn <- arPaid, loose <- raced

ImplementsTill == Serial!Spec

\* A request that has begun comes to an end: nobody waits for ever for a row
\* lock or for the second connection while all connections are held by
\* requests that wait for theirs.
RequestsEnd == \A c \in Call : pc[c] \notin Ended ~> pc[c] \in Ended
=============================================================================
