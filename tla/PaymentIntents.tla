--------------------------- MODULE PaymentIntents ---------------------------
(***************************************************************************)
(* The life of a payment intent: initiate_payment opens it from a cart,    *)
(* the customer pays its link or its virtual account, and the cashier's    *)
(* client and the gateway's webhook both confirm it, which books the sale, *)
(* takes the goods out of stock, records the payment and settles the       *)
(* intent. Cancelling, switching the method, failed charges and the expiry *)
(* of a virtual account race with that.                                    *)
(*                                                                         *)
(* Every request is handled once and its database sessions are its steps:  *)
(* between two of them every other request may run, the process may die,   *)
(* and what was read may be stale. The request that initiates intent i is  *)
(* named i; the requests that act on an intent are the members of Call. A  *)
(* call books at most one sale, so the sale is named after its call.       *)
(*                                                                         *)
(* Sources: common/bridge.py (initiate_payment, confirm_payment,           *)
(* checkout_cart, record_payment, validate_coupon), payments/routes.py,    *)
(* payments/repository.py and middleware/webhook_replay.py. The amounts of *)
(* money, and record_payment called for any other sale, are left out.      *)
(***************************************************************************)
EXTENDS Naturals, FiniteSets

CONSTANTS
  Intent,     \* payment intents, each for a cart with one unit of the product
  Call,       \* requests to confirm, cancel or switch, and webhook deliveries
  Transfer,   \* intents paid by bank transfer: they expire; the others have a
              \* card link, whose charges may fail
  Couponed,   \* intents whose cart carries the coupon
  MaxUses,    \* the coupon's max_uses
  InitStock,  \* units in stock
  MaxDeaths,  \* bound on the requests that die half-way
  NoIntent,   \* "acts on no intent yet"
  NoCall      \* "no sale"

ASSUME IntentAssumption ==
  /\ Intent \cap Call = {}
  /\ IsFiniteSet(Call)
  /\ Transfer \subseteq Intent
  /\ Couponed \subseteq Intent
  /\ MaxUses \in Nat \ {0}
  /\ InitStock \in Nat
  /\ MaxDeaths \in Nat
  /\ NoIntent \notin Intent
  /\ NoCall \notin Call
  /\ IsFiniteSet(Call)

VARIABLES
  status,   \* status[i]: the status of i's row, "none" before it exists
  saleOf,   \* saleOf[i]: its sale_id
  linked,   \* intents with a payment link or a virtual account
  charged,  \* intents the customer has paid at the gateway
  late,     \* intents whose expires_at has passed
  seen,     \* intents whose webhook has a key in the replay window
  logged,   \* intents whose webhook is in webhook_logs
  sale,     \* sale[c]: the sale that call c booked
  stock,    \* the stock balance of the product
  uses,     \* the coupon's used_count
  pc,       \* pc[r]: where request r stands
  kind,     \* kind[c]: what call c is
  of,       \* of[c]: the intent it acts on
  held,     \* held[r]: the stock or the count r has read
  met,      \* pairs of calls that were selling at the same time
  deaths    \* requests that died

rowVars  == <<status, saleOf>>
payVars  == <<linked, charged, late>>
hookVars == <<seen, logged>>
callVars == <<kind, of>>
vars == <<status, saleOf, linked, charged, late, seen, logged, sale, stock,
          uses, pc, kind, of, held, met, deaths>>

Request == Intent \cup Call

Status == {"none", "pending", "completed", "failed", "cancelled", "expired"}
Kind   == {"none", "confirm", "hook", "cancel", "switch"}

\* From the check that the intent is pending to the write that settles it.
SellPhase == {"checkout", "validating", "counting", "counted", "checking",
              "reading", "writing", "paying", "marking"}
EndPhase  == {"done", "refused", "duplicate", "dead"}
Phase     == {"ready", "resolving", "loading", "expiring", "logging",
              "switching", "cancelling", "creating", "linking"}
               \cup SellPhase \cup EndPhase

Selling == {c \in Call : pc[c] \in SellPhase}
Sold    == {c \in Call : sale[c] # "none"}

Goto(r, p) == pc' = [pc EXCEPT ![r] = p]

\* What a request has read is gone with the session it read it in.
Drop(r) == held' = [held EXCEPT ![r] = 0]

Init ==
  /\ status = [i \in Intent |-> "none"]
  /\ saleOf = [i \in Intent |-> NoCall]
  /\ linked = {} /\ charged = {} /\ late = {}
  /\ seen = {} /\ logged = {}
  /\ sale = [c \in Call |-> "none"]
  /\ stock = InitStock
  /\ uses = 0
  /\ pc = [r \in Request |-> "ready"]
  /\ kind = [c \in Call |-> "none"]
  /\ of = [c \in Call |-> NoIntent]
  /\ held = [r \in Request |-> 0]
  /\ met = {}
  /\ deaths = 0

-----------------------------------------------------------------------------
(* initiate_payment. The coupon is validated and counted in two sessions   *)
(* of their own, the intent's row is committed, and only then is the       *)
(* gateway asked for a link or a virtual account.                          *)

FirstStep(i) == IF i \in Couponed THEN "validating" ELSE "creating"

Initiate(i) ==
  /\ pc[i] = "ready"
  /\ Goto(i, FirstStep(i))
  /\ UNCHANGED <<rowVars, payVars, hookVars, sale, stock, uses, callVars, held,
                 met, deaths>>

Create(i) ==
  /\ pc[i] = "creating"
  /\ status' = [status EXCEPT ![i] = "pending"]
  /\ Goto(i, "linking")
  /\ UNCHANGED <<saleOf, payVars, hookVars, sale, stock, uses, callVars, held,
                 met, deaths>>

Link(i) ==
  /\ pc[i] = "linking"
  /\ linked' = linked \cup {i}
  /\ Goto(i, "done")
  /\ UNCHANGED <<rowVars, charged, late, hookVars, sale, stock, uses, callVars,
                 held, met, deaths>>

-----------------------------------------------------------------------------
(* The coupon, for initiate_payment and for checkout_cart alike.           *)

AfterCoupon(r) == IF r \in Intent THEN "creating" ELSE "checking"

Validate(r) ==
  /\ pc[r] = "validating"
  /\ Goto(r, IF uses >= MaxUses THEN "refused" ELSE "counting")
  /\ UNCHANGED <<rowVars, payVars, hookVars, sale, stock, uses, callVars, held,
                 met, deaths>>

\* increment_coupon_usage reads the count and writes it back one higher.
ReadUses(r) ==
  /\ pc[r] = "counting"
  /\ held' = [held EXCEPT ![r] = uses]
  /\ Goto(r, "counted")
  /\ UNCHANGED <<rowVars, payVars, hookVars, sale, stock, uses, callVars, met,
                 deaths>>

WriteUses(r) ==
  /\ pc[r] = "counted"
  /\ uses' = held[r] + 1
  /\ Drop(r)
  /\ Goto(r, AfterCoupon(r))
  /\ UNCHANGED <<rowVars, payVars, hookVars, sale, stock, callVars, met, deaths>>

-----------------------------------------------------------------------------
(* The customer and the gateway.                                           *)

\* The customer pays. Cancelling an intent does not close its link.
Charge(i) ==
  /\ i \in linked \ charged
  /\ charged' = charged \cup {i}
  /\ UNCHANGED <<rowVars, linked, late, hookVars, sale, stock, uses, pc,
                 callVars, held, met, deaths>>

Lapse(i) ==
  /\ i \in (linked \cap Transfer) \ late
  /\ late' = late \cup {i}
  /\ UNCHANGED <<rowVars, linked, charged, hookVars, sale, stock, uses, pc,
                 callVars, held, met, deaths>>

\* The charge.failed webhook of an attempt, perhaps late: whatever the status.
ChargeFailed(i) ==
  /\ i \in linked \ Transfer
  /\ status[i] # "failed"
  /\ status' = [status EXCEPT ![i] = "failed"]
  /\ UNCHANGED <<saleOf, payVars, hookVars, sale, stock, uses, pc, callVars,
                 held, met, deaths>>

-----------------------------------------------------------------------------
(* Calls that confirm: the client's, and the charge.completed webhook.     *)

Begin(c, k, i, p) ==
  /\ pc[c] = "ready"
  /\ Goto(c, p)
  /\ kind' = [kind EXCEPT ![c] = k]
  /\ of' = [of EXCEPT ![c] = i]

Confirm(c, i) ==
  /\ status[i] # "none"
  /\ Begin(c, "confirm", i, "loading")
  /\ UNCHANGED <<rowVars, payVars, hookVars, sale, stock, uses, held, met,
                 deaths>>

\* The gateway delivers the webhook, once or again. WebhookReplayMiddleware
\* answers a body it has seen in the last 300 s and remembers any other.
Hook(c, i) ==
  /\ i \in charged
  /\ Begin(c, "hook", i, IF i \in seen THEN "duplicate" ELSE "resolving")
  /\ seen' = seen \cup {i}
  /\ UNCHANGED <<rowVars, payVars, logged, sale, stock, uses, held, met, deaths>>

\* The key expires; two deliveries that both miss it look the same.
Forget(i) ==
  /\ i \in seen
  /\ seen' = seen \ {i}
  /\ UNCHANGED <<rowVars, payVars, logged, sale, stock, uses, pc, callVars,
                 held, met, deaths>>

\* The route looks the event up in webhook_logs and then the intent among the
\* pending ones. An intent it does not find is acknowledged without effect.
Resolve(c) ==
  /\ pc[c] = "resolving"
  /\ Goto(c, IF of[c] \in logged THEN "duplicate"
             ELSE IF status[of[c]] = "pending" THEN "loading" ELSE "refused")
  /\ UNCHANGED <<rowVars, payVars, hookVars, sale, stock, uses, callVars, held,
                 met, deaths>>

\* Once its intent is confirmed, a webhook is logged and a client answered.
AfterConfirm(c) == IF kind[c] = "hook" THEN "logging" ELSE "done"

\* Mutations of AfterLoad: without the status check, and refusing only what
\* is completed.
AfterLoadUnchecked(c) == IF of[c] \in late THEN "expiring" ELSE "checkout"

AfterLoadCompleted(c) ==
  IF status[of[c]] = "completed" THEN AfterConfirm(c) ELSE "checkout"

\* What confirm_payment makes of the intent it has loaded: a completed one
\* has its sale already, any other that is not pending is refused.
AfterLoad(c) ==
  LET i == of[c]
  IN  IF status[i] = "pending"
        THEN IF i \in late THEN "expiring" ELSE "checkout"
        ELSE IF status[i] = "completed" /\ saleOf[i] # NoCall
               THEN AfterConfirm(c) ELSE "refused"

Load(c) ==
  /\ pc[c] = "loading"
  /\ Goto(c, AfterLoad(c))
  /\ met' = IF AfterLoad(c) = "checkout"
              THEN met \cup {{c, d} : d \in Selling} ELSE met
  /\ UNCHANGED <<rowVars, payVars, hookVars, sale, stock, uses, callVars, held,
                 deaths>>

Expire(c) ==
  /\ pc[c] = "expiring"
  /\ status' = [status EXCEPT ![of[c]] = "expired"]
  /\ Goto(c, "refused")
  /\ UNCHANGED <<saleOf, payVars, hookVars, sale, stock, uses, callVars, held,
                 met, deaths>>

-----------------------------------------------------------------------------
(* checkout_cart, called by confirm_payment.                               *)

\* No fee headroom, or a product that is gone or expired.
RefuseCheckout(c) ==
  /\ pc[c] = "checkout"
  /\ Goto(c, "refused")
  /\ UNCHANGED <<rowVars, payVars, hookVars, sale, stock, uses, callVars, held,
                 met, deaths>>

StartCheckout(c) ==
  /\ pc[c] = "checkout"
  /\ Goto(c, IF of[c] \in Couponed THEN "validating" ELSE "checking")
  /\ UNCHANGED <<rowVars, payVars, hookVars, sale, stock, uses, callVars, held,
                 met, deaths>>

\* Mutation of CheckStock: the check is gone.
CheckNothing(c) ==
  /\ pc[c] = "checking"
  /\ Goto(c, "reading")
  /\ UNCHANGED <<rowVars, payVars, hookVars, sale, stock, uses, callVars, held,
                 met, deaths>>

\* The stock is checked in a session of its own.
CheckStock(c) ==
  /\ pc[c] = "checking"
  /\ Goto(c, IF stock >= 1 THEN "reading" ELSE "refused")
  /\ UNCHANGED <<rowVars, payVars, hookVars, sale, stock, uses, callVars, held,
                 met, deaths>>

\* The write transaction reads the balance again, without a lock.
ReadStock(c) ==
  /\ pc[c] = "reading"
  /\ held' = [held EXCEPT ![c] = stock]
  /\ Goto(c, "writing")
  /\ UNCHANGED <<rowVars, payVars, hookVars, sale, stock, uses, callVars, met,
                 deaths>>

\* An account is missing from the chart: the transaction rolls back.
RollbackSale(c) ==
  /\ pc[c] = "writing"
  /\ Drop(c)
  /\ Goto(c, "refused")
  /\ UNCHANGED <<rowVars, payVars, hookVars, sale, stock, uses, callVars, met,
                 deaths>>

\* Sale, stock, journal and cart in one commit.
CommitSale(c) ==
  /\ pc[c] = "writing"
  /\ sale' = [sale EXCEPT ![c] = "booked"]
  /\ stock' = IF held[c] > 0 THEN held[c] - 1 ELSE 0
  /\ Drop(c)
  /\ Goto(c, "paying")
  /\ UNCHANGED <<rowVars, payVars, hookVars, uses, callVars, met, deaths>>

-----------------------------------------------------------------------------
(* The rest of confirm_payment, and the webhook's log.                     *)

\* Mutation of RecordPayment: the payment is left for later.
RecordNothing(c) ==
  /\ pc[c] = "paying"
  /\ Goto(c, "marking")
  /\ UNCHANGED <<rowVars, payVars, hookVars, sale, stock, uses, callVars, held,
                 met, deaths>>

RecordPayment(c) ==
  /\ pc[c] = "paying"
  /\ sale' = [sale EXCEPT ![c] = "paid"]
  /\ Goto(c, "marking")
  /\ UNCHANGED <<rowVars, payVars, hookVars, stock, uses, callVars, held, met,
                 deaths>>

\* The intent is loaded again and completed, whatever its status is by now.
MarkCompleted(c) ==
  /\ pc[c] = "marking"
  /\ status' = [status EXCEPT ![of[c]] = "completed"]
  /\ saleOf' = [saleOf EXCEPT ![of[c]] = c]
  /\ Goto(c, AfterConfirm(c))
  /\ UNCHANGED <<payVars, hookVars, sale, stock, uses, callVars, held, met,
                 deaths>>

\* Mutation of LogWebhook: every delivery that is not a duplicate is logged
\* as soon as it arrives.
LogOnArrival(c) ==
  /\ \/ pc[c] = "logging" /\ Goto(c, "done")
     \/ pc[c] = "resolving" /\ Goto(c, "loading")
  /\ logged' = logged \cup {of[c]}
  /\ UNCHANGED <<rowVars, payVars, seen, sale, stock, uses, callVars, held, met,
                 deaths>>

LogWebhook(c) ==
  /\ pc[c] = "logging"
  /\ logged' = logged \cup {of[c]}
  /\ Goto(c, "done")
  /\ UNCHANGED <<rowVars, payVars, seen, sale, stock, uses, callVars, held, met,
                 deaths>>

-----------------------------------------------------------------------------
(* cancel_intent and switch_payment_method.                                *)

Cancel(c, i) ==
  /\ status[i] = "pending"
  /\ Begin(c, "cancel", i, "cancelling")
  /\ UNCHANGED <<rowVars, payVars, hookVars, sale, stock, uses, held, met,
                 deaths>>

\* switch_payment_method looks at the status and then calls cancel_intent.
Switch(c, i) ==
  /\ status[i] = "pending"
  /\ Begin(c, "switch", i, "switching")
  /\ UNCHANGED <<rowVars, payVars, hookVars, sale, stock, uses, held, met,
                 deaths>>

\* The call is over. After a switch a new intent is initiated on the same
\* cart, as long as Intent has one left.
FinishSwitch(c) ==
  \/ \E j \in Intent :
       /\ pc[j] = "ready"
       /\ pc' = [pc EXCEPT ![c] = "done", ![j] = FirstStep(j)]
  \/ (\A j \in Intent : pc[j] # "ready") /\ Goto(c, "done")

\* cancel_intent selects the intent if it is still pending, and reports when
\* it is not; switch_payment_method ignores that report.
SelectPending(c) ==
  /\ pc[c] = "switching"
  /\ IF status[of[c]] = "pending" THEN Goto(c, "cancelling") ELSE FinishSwitch(c)
  /\ UNCHANGED <<rowVars, payVars, hookVars, sale, stock, uses, callVars, held,
                 met, deaths>>

\* The row is updated by its id, whatever its status is by now.
WriteCancelled(c) ==
  /\ pc[c] = "cancelling"
  /\ status' = [status EXCEPT ![of[c]] = "cancelled"]
  /\ IF kind[c] = "switch" THEN FinishSwitch(c) ELSE Goto(c, "done")
  /\ UNCHANGED <<saleOf, payVars, hookVars, sale, stock, uses, callVars, held,
                 met, deaths>>

-----------------------------------------------------------------------------
\* A request dies between two of its sessions: the process is killed, the
\* database is gone, or the gateway does not answer.
Die(r) ==
  /\ deaths < MaxDeaths
  /\ pc[r] \notin {"ready"} \cup EndPhase
  /\ deaths' = deaths + 1
  /\ Drop(r)
  /\ Goto(r, "dead")
  /\ UNCHANGED <<rowVars, payVars, hookVars, sale, stock, uses, callVars, met>>

Initiating ==
  \E i \in Intent : Initiate(i) \/ Create(i) \/ Link(i)

Counting ==
  \E r \in Request : Validate(r) \/ ReadUses(r) \/ WriteUses(r)

Paying ==
  \E i \in Intent : Charge(i) \/ Lapse(i) \/ ChargeFailed(i) \/ Forget(i)

Confirming ==
  \E c \in Call :
    \/ \E i \in Intent : Confirm(c, i) \/ Hook(c, i)
    \/ Resolve(c) \/ Load(c) \/ Expire(c)
    \/ RefuseCheckout(c) \/ StartCheckout(c)
    \/ CheckStock(c) \/ ReadStock(c) \/ RollbackSale(c) \/ CommitSale(c)
    \/ RecordPayment(c) \/ MarkCompleted(c) \/ LogWebhook(c)

Cancelling ==
  \E c \in Call :
    \/ \E i \in Intent : Cancel(c, i) \/ Switch(c, i)
    \/ SelectPending(c) \/ WriteCancelled(c)

Next ==
  \/ Initiating \/ Counting \/ Paying \/ Confirming \/ Cancelling
  \/ \E r \in Request : Die(r)

Spec == Init /\ [][Next]_vars

-----------------------------------------------------------------------------
(* Properties.                                                             *)

TypeOK ==
  /\ status \in [Intent -> Status]
  /\ saleOf \in [Intent -> Call \cup {NoCall}]
  /\ linked \subseteq Intent
  /\ charged \subseteq Intent
  /\ late \subseteq Intent
  /\ seen \subseteq Intent
  /\ logged \subseteq Intent
  /\ sale \in [Call -> {"none", "booked", "paid"}]
  /\ stock \in Nat
  /\ uses \in Nat
  /\ pc \in [Request -> Phase]
  /\ kind \in [Call -> Kind]
  /\ of \in [Call -> Intent \cup {NoIntent}]
  /\ held \in [Request -> Nat]
  /\ met \subseteq SUBSET Call
  /\ deaths \in Nat

\* A completed intent names a sale, and the sale an intent names was booked
\* for this very intent and is paid, whoever completed it and whatever other
\* calls did to the intent's status before and after.
CompletedIsPaid ==
  \A i \in Intent :
    /\ status[i] = "completed" => saleOf[i] # NoCall
    /\ saleOf[i] # NoCall => of[saleOf[i]] = i /\ sale[saleOf[i]] = "paid"

\* Two sales are booked for one intent only if the calls that booked them were
\* both selling at some time, or if one of them died: repeated confirmations
\* and webhooks one after the other are idempotent (the status check of
\* confirm_payment, and the completion that follows every sale).
DuplicateSalesOverlap ==
  \A c, d \in Sold :
    c # d /\ of[c] = of[d] => {c, d} \in met \/ "dead" \in {pc[c], pc[d]}

\* No unit is lost: the balance is never below what was not sold, however the
\* unlocked reads and writes of concurrent checkouts interleave.
NoUnitLost == stock + Cardinality(Sold) >= InitStock

\* The balance is exact unless two of the sales were made at the same time.
StockIsExact ==
  (\A c, d \in Sold : c # d => {c, d} \notin met)
    => stock + Cardinality(Sold) = InitStock

\* Sales account for the stock: concurrent checkouts can sell a unit twice, but
\* never make one vanish, and sales one after the other do neither
\* (checkout_cart checks and deducts in two sessions, without a lock).
StockAccountedFor == NoUnitLost /\ StockIsExact

\* _log_webhook_event records a webhook only after a confirmation succeeded:
\* a logged webhook, shielded from every retry, has a paid sale.
LoggedIsPaid ==
  \A i \in logged : \E c \in Call : of[c] = i /\ sale[c] = "paid"

Closed(i) ==
  /\ status[i] \notin {"none", "pending"}
  /\ \A c \in Selling : of[c] # i

SalesFor(i) == {c \in Sold : of[c] = i}

\* An intent that is no longer pending, with no call of it under way, is closed
\* for good: it is never pending again and nothing is sold for it any more.
ClosedStaysClosed ==
  [][\A i \in Intent : Closed(i) => Closed(i)' /\ SalesFor(i)' = SalesFor(i)]_vars

-----------------------------------------------------------------------------
(* What the repository says of the intents and the code does not do. *)

\* _existing_sale_confirmation: when the gateway's webhook confirmed the intent
\* before, or concurrently with, the client's call, the call returns the existing
\* sale. So a webhook and a client never book a sale each.
OneSaleForWebhookAndClient ==
  \A c, d \in Sold :
    kind[c] = "hook" /\ kind[d] = "confirm" /\ of[c] = of[d]
      => "dead" \in {pc[c], pc[d]}
=============================================================================
