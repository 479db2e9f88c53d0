------------------------ MODULE PaymentIntentsProofs ------------------------
(***************************************************************************)
(* Proofs about PaymentIntents, for any intents, calls, coupon and stock.  *)
(*                                                                         *)
(* The inductive invariant says where each request's data stands at each   *)
(* of its phases (CallsInPlace to LoggedInPlace), which pairs of calls     *)
(* have met (Overlaps), and what a call that has read the balance knows of *)
(* it (StockInPlace).                                                      *)
(*                                                                         *)
(* The second part proves Books.                                           *)
(***************************************************************************)
EXTENDS PaymentIntents, Books, SumTheorems, TLAPS

\* A call that has begun acts on an intent whose row exists.
CallsInPlace ==
  \A c \in Call :
    /\ pc[c] \notin {"creating", "linking"}
    /\ pc[c] # "ready" => of[c] \in Intent /\ status[of[c]] # "none"

\* A row is created once, and only a created intent is linked and charged.
RowsInPlace ==
  /\ \A i \in Intent :
       pc[i] \in {"ready", "validating", "counting", "counted", "creating"}
         => status[i] = "none"
  /\ \A i \in Intent : pc[i] = "linking" => status[i] # "none"
  /\ \A i \in linked : status[i] # "none"
  /\ charged \subseteq linked

\* A sale exists from its commit on, is unpaid only until its payment is
\* recorded, and a call that booked one leaves its intent settled.
SalesInPlace ==
  \A c \in Call :
    /\ sale[c] # "none" => pc[c] \in {"paying", "marking", "logging", "done", "dead"}
    /\ pc[c] = "paying" => sale[c] = "booked"
    /\ pc[c] = "marking" => sale[c] = "paid"
    /\ sale[c] = "booked" => pc[c] \in {"paying", "dead"}
    /\ sale[c] # "none" /\ pc[c] \in {"logging", "done"}
         => status[of[c]] \notin {"none", "pending"}

LoggedInPlace ==
  /\ \A c \in Call : pc[c] = "logging" => saleOf[of[c]] # NoCall
  /\ LoggedIsPaid

\* Calls that sell at the same time have met; a call that sells for an intent
\* has met every call that sold for it before, unless that one died.
Overlaps ==
  /\ \A c, d \in Selling : c # d => {c, d} \in met
  /\ \A c \in Sold, d \in Selling :
       c # d /\ of[c] = of[d] => {c, d} \in met \/ pc[c] = "dead"

\* No sold call has met c.
Alone(c) == \A d \in Sold : {c, d} \notin met

\* What a call has read of the balance still holds, unless it has met a sale.
StockInPlace ==
  \A c \in Call :
    /\ pc[c] = "writing" => held[c] + Cardinality(Sold) >= InitStock
    /\ pc[c] = "reading" /\ Alone(c) => stock >= 1
    /\ pc[c] = "writing" /\ Alone(c) => held[c] = stock /\ stock >= 1

IInv ==
  /\ TypeOK
  /\ CallsInPlace
  /\ RowsInPlace
  /\ SalesInPlace
  /\ CompletedIsPaid
  /\ LoggedInPlace
  /\ Overlaps
  /\ DuplicateSalesOverlap
  /\ StockInPlace
  /\ NoUnitLost
  /\ StockIsExact

\* Every step keeps the types.
LEMMA TypeStep ==
  ASSUME IInv, Next
  PROVE  TypeOK'
<1>1. ASSUME NEW i \in Intent,
             Initiate(i) \/ Create(i) \/ Link(i)
      PROVE  TypeOK'
  BY <1>1, IntentAssumption DEF Initiate, FirstStep, Create, Link, IInv,
         TypeOK, Request, Phase, SellPhase, EndPhase, CallsInPlace, Status,
         Kind, Selling, rowVars, payVars, hookVars, callVars, Goto
<1>2. ASSUME NEW r \in Request,
             Validate(r) \/ ReadUses(r) \/ WriteUses(r)
      PROVE  TypeOK'
  BY <1>2, IntentAssumption DEF Validate, ReadUses, WriteUses, AfterCoupon,
         Drop, IInv, TypeOK, Request, Phase, SellPhase, EndPhase,
         CallsInPlace, Status, Kind, Selling, rowVars, payVars, hookVars,
         callVars, Goto
<1>3. ASSUME NEW i \in Intent,
             Charge(i) \/ Lapse(i) \/ ChargeFailed(i) \/ Forget(i)
      PROVE  TypeOK'
  BY <1>3, IntentAssumption DEF Charge, Lapse, ChargeFailed, Forget, IInv,
         TypeOK, Request, Phase, SellPhase, EndPhase, CallsInPlace, Status,
         Kind, Selling, rowVars, payVars, hookVars, callVars, Goto
<1>4. ASSUME NEW c \in Call, NEW i \in Intent,
             Confirm(c, i) \/ Hook(c, i) \/ Cancel(c, i) \/ Switch(c, i)
      PROVE  TypeOK'
  BY <1>4, IntentAssumption DEF Confirm, Begin, Hook, Cancel, Switch, IInv,
         TypeOK, Request, Phase, SellPhase, EndPhase, CallsInPlace, Status,
         Kind, Selling, rowVars, payVars, hookVars, callVars, Goto
<1>5. ASSUME NEW c \in Call,
             Resolve(c) \/ Load(c) \/ Expire(c)
      PROVE  TypeOK'
  BY <1>5, IntentAssumption DEF Resolve, Load, AfterLoad, AfterConfirm,
         Expire, IInv, TypeOK, Request, Phase, SellPhase, EndPhase,
         CallsInPlace, Status, Kind, Selling, rowVars, payVars, hookVars,
         callVars, Goto
<1>6. ASSUME NEW c \in Call,
             RefuseCheckout(c) \/ StartCheckout(c) \/ CheckStock(c) \/
             ReadStock(c) \/ RollbackSale(c)
      PROVE  TypeOK'
  BY <1>6, IntentAssumption DEF RefuseCheckout, StartCheckout, CheckStock,
         ReadStock, RollbackSale, Drop, IInv, TypeOK, Request, Phase,
         SellPhase, EndPhase, CallsInPlace, Status, Kind, Selling, rowVars,
         payVars, hookVars, callVars, Goto
<1>7. ASSUME NEW c \in Call,
             CommitSale(c) \/ RecordPayment(c)
      PROVE  TypeOK'
  BY <1>7, IntentAssumption DEF CommitSale, Drop, RecordPayment, IInv, TypeOK,
         Request, Phase, SellPhase, EndPhase, CallsInPlace, Status, Kind,
         Selling, rowVars, payVars, hookVars, callVars, Goto
<1>8. ASSUME NEW c \in Call,
             MarkCompleted(c) \/ LogWebhook(c)
      PROVE  TypeOK'
  BY <1>8, IntentAssumption DEF MarkCompleted, AfterConfirm, LogWebhook, IInv,
         TypeOK, Request, Phase, SellPhase, EndPhase, CallsInPlace, Status,
         Kind, Selling, rowVars, payVars, hookVars, callVars, Goto
<1>9. ASSUME NEW c \in Call,
             SelectPending(c) \/ WriteCancelled(c)
      PROVE  TypeOK'
  BY <1>9, IntentAssumption DEF SelectPending, FinishSwitch, FirstStep,
         WriteCancelled, IInv, TypeOK, Request, Phase, SellPhase, EndPhase,
         CallsInPlace, Status, Kind, Selling, rowVars, payVars, hookVars,
         callVars, Goto
<1>10. ASSUME NEW r \in Request,
             Die(r)
      PROVE  TypeOK'
  BY <1>10, IntentAssumption DEF Die, Drop, IInv, TypeOK, Request, Phase,
         SellPhase, EndPhase, CallsInPlace, Status, Kind, Selling, rowVars,
         payVars, hookVars, callVars, Goto
<1>11. QED
  BY <1>1, <1>2, <1>3, <1>4, <1>5, <1>6, <1>7, <1>8, <1>9, <1>10 DEF Next,
     Initiating, Counting, Paying,
     Confirming, Cancelling

\* A call that begins finds the row of its intent, and no step removes a row.
LEMMA CallsStep ==
  ASSUME IInv, Next
  PROVE  CallsInPlace'
<1>1. ASSUME NEW i \in Intent,
             Initiate(i) \/ Create(i) \/ Link(i)
      PROVE  CallsInPlace'
  BY <1>1, IntentAssumption DEF Initiate, FirstStep, Create, Link, IInv,
         TypeOK, Request, Phase, SellPhase, EndPhase, CallsInPlace,
         RowsInPlace, rowVars, payVars, hookVars, callVars, Goto
<1>2. ASSUME NEW r \in Request,
             Validate(r) \/ ReadUses(r) \/ WriteUses(r)
      PROVE  CallsInPlace'
  BY <1>2, IntentAssumption DEF Validate, ReadUses, WriteUses, AfterCoupon,
         Drop, IInv, TypeOK, Request, Phase, SellPhase, EndPhase,
         CallsInPlace, RowsInPlace, rowVars, payVars, hookVars, callVars, Goto
<1>3. ASSUME NEW i \in Intent,
             Charge(i) \/ Lapse(i) \/ ChargeFailed(i) \/ Forget(i)
      PROVE  CallsInPlace'
  BY <1>3, IntentAssumption DEF Charge, Lapse, ChargeFailed, Forget, IInv,
         TypeOK, Request, Phase, SellPhase, EndPhase, CallsInPlace,
         RowsInPlace, rowVars, payVars, hookVars, callVars, Goto
<1>4. ASSUME NEW c \in Call, NEW i \in Intent,
             Confirm(c, i) \/ Hook(c, i) \/ Cancel(c, i) \/ Switch(c, i)
      PROVE  CallsInPlace'
  BY <1>4, IntentAssumption DEF Confirm, Begin, Hook, Cancel, Switch, IInv,
         TypeOK, Request, Phase, SellPhase, EndPhase, CallsInPlace,
         RowsInPlace, rowVars, payVars, hookVars, callVars, Goto
<1>5. ASSUME NEW c \in Call,
             Resolve(c) \/ Load(c) \/ Expire(c)
      PROVE  CallsInPlace'
  BY <1>5, IntentAssumption DEF Resolve, Load, AfterLoad, AfterConfirm,
         Expire, IInv, TypeOK, Request, Phase, SellPhase, EndPhase,
         CallsInPlace, RowsInPlace, rowVars, payVars, hookVars, callVars, Goto
<1>6. ASSUME NEW c \in Call,
             RefuseCheckout(c) \/ StartCheckout(c) \/ CheckStock(c) \/
             ReadStock(c) \/ RollbackSale(c)
      PROVE  CallsInPlace'
  BY <1>6, IntentAssumption DEF RefuseCheckout, StartCheckout, CheckStock,
         ReadStock, RollbackSale, Drop, IInv, TypeOK, Request, Phase,
         SellPhase, EndPhase, CallsInPlace, RowsInPlace, rowVars, payVars,
         hookVars, callVars, Goto
<1>7. ASSUME NEW c \in Call,
             CommitSale(c) \/ RecordPayment(c)
      PROVE  CallsInPlace'
  BY <1>7, IntentAssumption DEF CommitSale, Drop, RecordPayment, IInv, TypeOK,
         Request, Phase, SellPhase, EndPhase, CallsInPlace, RowsInPlace,
         rowVars, payVars, hookVars, callVars, Goto
<1>8. ASSUME NEW c \in Call,
             MarkCompleted(c) \/ LogWebhook(c)
      PROVE  CallsInPlace'
  BY <1>8, IntentAssumption DEF MarkCompleted, AfterConfirm, LogWebhook, IInv,
         TypeOK, Request, Phase, SellPhase, EndPhase, CallsInPlace,
         RowsInPlace, rowVars, payVars, hookVars, callVars, Goto
<1>9. ASSUME NEW c \in Call,
             SelectPending(c) \/ WriteCancelled(c)
      PROVE  CallsInPlace'
  BY <1>9, IntentAssumption DEF SelectPending, FinishSwitch, FirstStep,
         WriteCancelled, IInv, TypeOK, Request, Phase, SellPhase, EndPhase,
         CallsInPlace, RowsInPlace, rowVars, payVars, hookVars, callVars, Goto
<1>10. ASSUME NEW r \in Request,
             Die(r)
      PROVE  CallsInPlace'
  BY <1>10, IntentAssumption DEF Die, Drop, IInv, TypeOK, Request, Phase,
         SellPhase, EndPhase, CallsInPlace, RowsInPlace, rowVars, payVars,
         hookVars, callVars, Goto
<1>11. QED
  BY <1>1, <1>2, <1>3, <1>4, <1>5, <1>6, <1>7, <1>8, <1>9, <1>10 DEF Next,
     Initiating, Counting, Paying,
     Confirming, Cancelling

\* Only Create makes a row, and only for an intent that has none.
LEMMA RowsStep ==
  ASSUME IInv, Next
  PROVE  RowsInPlace'
<1>1. ASSUME NEW i \in Intent,
             Initiate(i) \/ Create(i) \/ Link(i)
      PROVE  RowsInPlace'
  BY <1>1, IntentAssumption DEF Initiate, FirstStep, Create, Link, IInv,
         TypeOK, Request, Phase, SellPhase, EndPhase, CallsInPlace,
         RowsInPlace, rowVars, payVars, hookVars, callVars, Goto
<1>2. ASSUME NEW r \in Request,
             Validate(r) \/ ReadUses(r) \/ WriteUses(r)
      PROVE  RowsInPlace'
  BY <1>2, IntentAssumption DEF Validate, ReadUses, WriteUses, AfterCoupon,
         Drop, IInv, TypeOK, Request, Phase, SellPhase, EndPhase,
         CallsInPlace, RowsInPlace, rowVars, payVars, hookVars, callVars, Goto
<1>3. ASSUME NEW i \in Intent,
             Charge(i) \/ Lapse(i) \/ ChargeFailed(i) \/ Forget(i)
      PROVE  RowsInPlace'
  BY <1>3, IntentAssumption DEF Charge, Lapse, ChargeFailed, Forget, IInv,
         TypeOK, Request, Phase, SellPhase, EndPhase, CallsInPlace,
         RowsInPlace, rowVars, payVars, hookVars, callVars, Goto
<1>4. ASSUME NEW c \in Call, NEW i \in Intent,
             Confirm(c, i) \/ Hook(c, i) \/ Cancel(c, i) \/ Switch(c, i)
      PROVE  RowsInPlace'
  BY <1>4, IntentAssumption DEF Confirm, Begin, Hook, Cancel, Switch, IInv,
         TypeOK, Request, Phase, SellPhase, EndPhase, CallsInPlace,
         RowsInPlace, rowVars, payVars, hookVars, callVars, Goto
<1>5. ASSUME NEW c \in Call,
             Resolve(c) \/ Load(c) \/ Expire(c)
      PROVE  RowsInPlace'
  BY <1>5, IntentAssumption DEF Resolve, Load, AfterLoad, AfterConfirm,
         Expire, IInv, TypeOK, Request, Phase, SellPhase, EndPhase,
         CallsInPlace, RowsInPlace, rowVars, payVars, hookVars, callVars, Goto
<1>6. ASSUME NEW c \in Call,
             RefuseCheckout(c) \/ StartCheckout(c) \/ CheckStock(c) \/
             ReadStock(c) \/ RollbackSale(c)
      PROVE  RowsInPlace'
  BY <1>6, IntentAssumption DEF RefuseCheckout, StartCheckout, CheckStock,
         ReadStock, RollbackSale, Drop, IInv, TypeOK, Request, Phase,
         SellPhase, EndPhase, CallsInPlace, RowsInPlace, rowVars, payVars,
         hookVars, callVars, Goto
<1>7. ASSUME NEW c \in Call,
             CommitSale(c) \/ RecordPayment(c)
      PROVE  RowsInPlace'
  BY <1>7, IntentAssumption DEF CommitSale, Drop, RecordPayment, IInv, TypeOK,
         Request, Phase, SellPhase, EndPhase, CallsInPlace, RowsInPlace,
         rowVars, payVars, hookVars, callVars, Goto
<1>8. ASSUME NEW c \in Call,
             MarkCompleted(c) \/ LogWebhook(c)
      PROVE  RowsInPlace'
  BY <1>8, IntentAssumption DEF MarkCompleted, AfterConfirm, LogWebhook, IInv,
         TypeOK, Request, Phase, SellPhase, EndPhase, CallsInPlace,
         RowsInPlace, rowVars, payVars, hookVars, callVars, Goto
<1>9. ASSUME NEW c \in Call,
             SelectPending(c) \/ WriteCancelled(c)
      PROVE  RowsInPlace'
  BY <1>9, IntentAssumption DEF SelectPending, FinishSwitch, FirstStep,
         WriteCancelled, IInv, TypeOK, Request, Phase, SellPhase, EndPhase,
         CallsInPlace, RowsInPlace, rowVars, payVars, hookVars, callVars, Goto
<1>10. ASSUME NEW r \in Request,
             Die(r)
      PROVE  RowsInPlace'
  BY <1>10, IntentAssumption DEF Die, Drop, IInv, TypeOK, Request, Phase,
         SellPhase, EndPhase, CallsInPlace, RowsInPlace, rowVars, payVars,
         hookVars, callVars, Goto
<1>11. QED
  BY <1>1, <1>2, <1>3, <1>4, <1>5, <1>6, <1>7, <1>8, <1>9, <1>10 DEF Next,
     Initiating, Counting, Paying,
     Confirming, Cancelling

\* A sale and the phase of its call move together, and the status that a sale
\* leaves behind is never pending again.
LEMMA SalesStep ==
  ASSUME IInv, Next
  PROVE  SalesInPlace'
<1>1. ASSUME NEW i \in Intent,
             Initiate(i) \/ Create(i) \/ Link(i)
      PROVE  SalesInPlace'
  BY <1>1, IntentAssumption DEF Initiate, FirstStep, Create, Link, IInv,
         TypeOK, Request, Phase, SellPhase, EndPhase, CallsInPlace,
         RowsInPlace, SalesInPlace, rowVars, payVars, hookVars, callVars, Goto
<1>2. ASSUME NEW r \in Request,
             Validate(r) \/ ReadUses(r) \/ WriteUses(r)
      PROVE  SalesInPlace'
  BY <1>2, IntentAssumption DEF Validate, ReadUses, WriteUses, AfterCoupon,
         Drop, IInv, TypeOK, Request, Phase, SellPhase, EndPhase,
         CallsInPlace, RowsInPlace, SalesInPlace, rowVars, payVars, hookVars,
         callVars, Goto
<1>3. ASSUME NEW i \in Intent,
             Charge(i) \/ Lapse(i) \/ ChargeFailed(i) \/ Forget(i)
      PROVE  SalesInPlace'
  BY <1>3, IntentAssumption DEF Charge, Lapse, ChargeFailed, Forget, IInv,
         TypeOK, Request, Phase, SellPhase, EndPhase, CallsInPlace,
         RowsInPlace, SalesInPlace, rowVars, payVars, hookVars, callVars, Goto
<1>4. ASSUME NEW c \in Call, NEW i \in Intent,
             Confirm(c, i) \/ Hook(c, i) \/ Cancel(c, i) \/ Switch(c, i)
      PROVE  SalesInPlace'
  BY <1>4, IntentAssumption DEF Confirm, Begin, Hook, Cancel, Switch, IInv,
         TypeOK, Request, Phase, SellPhase, EndPhase, CallsInPlace,
         RowsInPlace, SalesInPlace, rowVars, payVars, hookVars, callVars, Goto
<1>5. ASSUME NEW c \in Call,
             Resolve(c) \/ Load(c) \/ Expire(c)
      PROVE  SalesInPlace'
  BY <1>5, IntentAssumption DEF Resolve, Load, AfterLoad, AfterConfirm,
         Expire, IInv, TypeOK, Request, Phase, SellPhase, EndPhase,
         CallsInPlace, RowsInPlace, SalesInPlace, rowVars, payVars, hookVars,
         callVars, Goto
<1>6. ASSUME NEW c \in Call,
             RefuseCheckout(c) \/ StartCheckout(c) \/ CheckStock(c) \/
             ReadStock(c) \/ RollbackSale(c)
      PROVE  SalesInPlace'
  BY <1>6, IntentAssumption DEF RefuseCheckout, StartCheckout, CheckStock,
         ReadStock, RollbackSale, Drop, IInv, TypeOK, Request, Phase,
         SellPhase, EndPhase, CallsInPlace, RowsInPlace, SalesInPlace,
         rowVars, payVars, hookVars, callVars, Goto
<1>7. ASSUME NEW c \in Call,
             CommitSale(c) \/ RecordPayment(c)
      PROVE  SalesInPlace'
  BY <1>7, IntentAssumption DEF CommitSale, Drop, RecordPayment, IInv, TypeOK,
         Request, Phase, SellPhase, EndPhase, CallsInPlace, RowsInPlace,
         SalesInPlace, rowVars, payVars, hookVars, callVars, Goto
<1>8. ASSUME NEW c \in Call,
             MarkCompleted(c) \/ LogWebhook(c)
      PROVE  SalesInPlace'
  BY <1>8, IntentAssumption DEF MarkCompleted, AfterConfirm, LogWebhook, IInv,
         TypeOK, Request, Phase, SellPhase, EndPhase, CallsInPlace,
         RowsInPlace, SalesInPlace, rowVars, payVars, hookVars, callVars, Goto
<1>9. ASSUME NEW c \in Call,
             SelectPending(c) \/ WriteCancelled(c)
      PROVE  SalesInPlace'
  BY <1>9, IntentAssumption DEF SelectPending, FinishSwitch, FirstStep,
         WriteCancelled, IInv, TypeOK, Request, Phase, SellPhase, EndPhase,
         CallsInPlace, RowsInPlace, SalesInPlace, rowVars, payVars, hookVars,
         callVars, Goto
<1>10. ASSUME NEW r \in Request,
             Die(r)
      PROVE  SalesInPlace'
  BY <1>10, IntentAssumption DEF Die, Drop, IInv, TypeOK, Request, Phase,
         SellPhase, EndPhase, CallsInPlace, RowsInPlace, SalesInPlace,
         rowVars, payVars, hookVars, callVars, Goto
<1>11. QED
  BY <1>1, <1>2, <1>3, <1>4, <1>5, <1>6, <1>7, <1>8, <1>9, <1>10 DEF Next,
     Initiating, Counting, Paying,
     Confirming, Cancelling

\* MarkCompleted is the only step to complete an intent, for a sale just paid.
LEMMA CompletedStep ==
  ASSUME IInv, Next
  PROVE  CompletedIsPaid'
<1>1. ASSUME NEW i \in Intent,
             Initiate(i) \/ Create(i) \/ Link(i)
      PROVE  CompletedIsPaid'
  BY <1>1, IntentAssumption DEF Initiate, FirstStep, Create, Link, IInv,
         TypeOK, Request, Phase, SellPhase, EndPhase, CallsInPlace,
         SalesInPlace, CompletedIsPaid, rowVars, payVars, hookVars, callVars,
         Goto
<1>2. ASSUME NEW r \in Request,
             Validate(r) \/ ReadUses(r) \/ WriteUses(r)
      PROVE  CompletedIsPaid'
  BY <1>2, IntentAssumption DEF Validate, ReadUses, WriteUses, AfterCoupon,
         Drop, IInv, TypeOK, Request, Phase, SellPhase, EndPhase,
         CallsInPlace, SalesInPlace, CompletedIsPaid, rowVars, payVars,
         hookVars, callVars, Goto
<1>3. ASSUME NEW i \in Intent,
             Charge(i) \/ Lapse(i) \/ ChargeFailed(i) \/ Forget(i)
      PROVE  CompletedIsPaid'
  BY <1>3, IntentAssumption DEF Charge, Lapse, ChargeFailed, Forget, IInv,
         TypeOK, Request, Phase, SellPhase, EndPhase, CallsInPlace,
         SalesInPlace, CompletedIsPaid, rowVars, payVars, hookVars, callVars,
         Goto
<1>4. ASSUME NEW c \in Call, NEW i \in Intent,
             Confirm(c, i) \/ Hook(c, i) \/ Cancel(c, i) \/ Switch(c, i)
      PROVE  CompletedIsPaid'
  BY <1>4, IntentAssumption DEF Confirm, Begin, Hook, Cancel, Switch, IInv,
         TypeOK, Request, Phase, SellPhase, EndPhase, CallsInPlace,
         SalesInPlace, CompletedIsPaid, rowVars, payVars, hookVars, callVars,
         Goto
<1>5. ASSUME NEW c \in Call,
             Resolve(c) \/ Load(c) \/ Expire(c)
      PROVE  CompletedIsPaid'
  BY <1>5, IntentAssumption DEF Resolve, Load, AfterLoad, AfterConfirm,
         Expire, IInv, TypeOK, Request, Phase, SellPhase, EndPhase,
         CallsInPlace, SalesInPlace, CompletedIsPaid, rowVars, payVars,
         hookVars, callVars, Goto
<1>6. ASSUME NEW c \in Call,
             RefuseCheckout(c) \/ StartCheckout(c) \/ CheckStock(c) \/
             ReadStock(c) \/ RollbackSale(c)
      PROVE  CompletedIsPaid'
  BY <1>6, IntentAssumption DEF RefuseCheckout, StartCheckout, CheckStock,
         ReadStock, RollbackSale, Drop, IInv, TypeOK, Request, Phase,
         SellPhase, EndPhase, CallsInPlace, SalesInPlace, CompletedIsPaid,
         rowVars, payVars, hookVars, callVars, Goto
<1>7. ASSUME NEW c \in Call,
             CommitSale(c) \/ RecordPayment(c)
      PROVE  CompletedIsPaid'
  BY <1>7, IntentAssumption DEF CommitSale, Drop, RecordPayment, IInv, TypeOK,
         Request, Phase, SellPhase, EndPhase, CallsInPlace, SalesInPlace,
         CompletedIsPaid, rowVars, payVars, hookVars, callVars, Goto
<1>8. ASSUME NEW c \in Call,
             MarkCompleted(c) \/ LogWebhook(c)
      PROVE  CompletedIsPaid'
  BY <1>8, IntentAssumption DEF MarkCompleted, AfterConfirm, LogWebhook, IInv,
         TypeOK, Request, Phase, SellPhase, EndPhase, CallsInPlace,
         SalesInPlace, CompletedIsPaid, rowVars, payVars, hookVars, callVars,
         Goto
<1>9. ASSUME NEW c \in Call,
             SelectPending(c) \/ WriteCancelled(c)
      PROVE  CompletedIsPaid'
  BY <1>9, IntentAssumption DEF SelectPending, FinishSwitch, FirstStep,
         WriteCancelled, IInv, TypeOK, Request, Phase, SellPhase, EndPhase,
         CallsInPlace, SalesInPlace, CompletedIsPaid, rowVars, payVars,
         hookVars, callVars, Goto
<1>10. ASSUME NEW r \in Request,
             Die(r)
      PROVE  CompletedIsPaid'
  BY <1>10, IntentAssumption DEF Die, Drop, IInv, TypeOK, Request, Phase,
         SellPhase, EndPhase, CallsInPlace, SalesInPlace, CompletedIsPaid,
         rowVars, payVars, hookVars, callVars, Goto
<1>11. QED
  BY <1>1, <1>2, <1>3, <1>4, <1>5, <1>6, <1>7, <1>8, <1>9, <1>10 DEF Next,
     Initiating, Counting, Paying,
     Confirming, Cancelling

\* A webhook comes to its log only by way of a sale.
LEMMA LoggedStep ==
  ASSUME IInv, Next
  PROVE  LoggedInPlace'
<1>1. ASSUME NEW i \in Intent,
             Initiate(i) \/ Create(i) \/ Link(i)
      PROVE  LoggedInPlace'
  BY <1>1, IntentAssumption DEF Initiate, FirstStep, Create, Link, IInv,
         TypeOK, Request, Phase, SellPhase, EndPhase, CallsInPlace,
         SalesInPlace, CompletedIsPaid, LoggedInPlace, LoggedIsPaid, rowVars,
         payVars, hookVars, callVars, Goto
<1>2. ASSUME NEW r \in Request,
             Validate(r) \/ ReadUses(r) \/ WriteUses(r)
      PROVE  LoggedInPlace'
  BY <1>2, IntentAssumption DEF Validate, ReadUses, WriteUses, AfterCoupon,
         Drop, IInv, TypeOK, Request, Phase, SellPhase, EndPhase,
         CallsInPlace, SalesInPlace, CompletedIsPaid, LoggedInPlace,
         LoggedIsPaid, rowVars, payVars, hookVars, callVars, Goto
<1>3. ASSUME NEW i \in Intent,
             Charge(i) \/ Lapse(i) \/ ChargeFailed(i) \/ Forget(i)
      PROVE  LoggedInPlace'
  BY <1>3, IntentAssumption DEF Charge, Lapse, ChargeFailed, Forget, IInv,
         TypeOK, Request, Phase, SellPhase, EndPhase, CallsInPlace,
         SalesInPlace, CompletedIsPaid, LoggedInPlace, LoggedIsPaid, rowVars,
         payVars, hookVars, callVars, Goto
<1>4. ASSUME NEW c \in Call, NEW i \in Intent,
             Confirm(c, i) \/ Hook(c, i) \/ Cancel(c, i) \/ Switch(c, i)
      PROVE  LoggedInPlace'
  BY <1>4, IntentAssumption DEF Confirm, Begin, Hook, Cancel, Switch, IInv,
         TypeOK, Request, Phase, SellPhase, EndPhase, CallsInPlace,
         SalesInPlace, CompletedIsPaid, LoggedInPlace, LoggedIsPaid, rowVars,
         payVars, hookVars, callVars, Goto
<1>5. ASSUME NEW c \in Call,
             Resolve(c) \/ Load(c) \/ Expire(c)
      PROVE  LoggedInPlace'
  BY <1>5, IntentAssumption DEF Resolve, Load, AfterLoad, AfterConfirm,
         Expire, IInv, TypeOK, Request, Phase, SellPhase, EndPhase,
         CallsInPlace, SalesInPlace, CompletedIsPaid, LoggedInPlace,
         LoggedIsPaid, rowVars, payVars, hookVars, callVars, Goto
<1>6. ASSUME NEW c \in Call,
             RefuseCheckout(c) \/ StartCheckout(c) \/ CheckStock(c) \/
             ReadStock(c) \/ RollbackSale(c)
      PROVE  LoggedInPlace'
  BY <1>6, IntentAssumption DEF RefuseCheckout, StartCheckout, CheckStock,
         ReadStock, RollbackSale, Drop, IInv, TypeOK, Request, Phase,
         SellPhase, EndPhase, CallsInPlace, SalesInPlace, CompletedIsPaid,
         LoggedInPlace, LoggedIsPaid, rowVars, payVars, hookVars, callVars,
         Goto
<1>7. ASSUME NEW c \in Call,
             CommitSale(c) \/ RecordPayment(c)
      PROVE  LoggedInPlace'
  BY <1>7, IntentAssumption DEF CommitSale, Drop, RecordPayment, IInv, TypeOK,
         Request, Phase, SellPhase, EndPhase, CallsInPlace, SalesInPlace,
         CompletedIsPaid, LoggedInPlace, LoggedIsPaid, rowVars, payVars,
         hookVars, callVars, Goto
<1>8. ASSUME NEW c \in Call,
             MarkCompleted(c) \/ LogWebhook(c)
      PROVE  LoggedInPlace'
  BY <1>8, IntentAssumption DEF MarkCompleted, AfterConfirm, LogWebhook, IInv,
         TypeOK, Request, Phase, SellPhase, EndPhase, CallsInPlace,
         SalesInPlace, CompletedIsPaid, LoggedInPlace, LoggedIsPaid, rowVars,
         payVars, hookVars, callVars, Goto
<1>9. ASSUME NEW c \in Call,
             SelectPending(c) \/ WriteCancelled(c)
      PROVE  LoggedInPlace'
  BY <1>9, IntentAssumption DEF SelectPending, FinishSwitch, FirstStep,
         WriteCancelled, IInv, TypeOK, Request, Phase, SellPhase, EndPhase,
         CallsInPlace, SalesInPlace, CompletedIsPaid, LoggedInPlace,
         LoggedIsPaid, rowVars, payVars, hookVars, callVars, Goto
<1>10. ASSUME NEW r \in Request,
             Die(r)
      PROVE  LoggedInPlace'
  BY <1>10, IntentAssumption DEF Die, Drop, IInv, TypeOK, Request, Phase,
         SellPhase, EndPhase, CallsInPlace, SalesInPlace, CompletedIsPaid,
         LoggedInPlace, LoggedIsPaid, rowVars, payVars, hookVars, callVars,
         Goto
<1>11. QED
  BY <1>1, <1>2, <1>3, <1>4, <1>5, <1>6, <1>7, <1>8, <1>9, <1>10 DEF Next,
     Initiating, Counting, Paying,
     Confirming, Cancelling

\* A call that starts to sell meets all that are selling; for its own intent no
\* other call can have sold and finished, because that settles the intent.
LEMMA OverlapsStep ==
  ASSUME IInv, Next
  PROVE  Overlaps'
<1>1. ASSUME NEW i \in Intent,
             Initiate(i) \/ Create(i) \/ Link(i)
      PROVE  Overlaps'
  BY <1>1, IntentAssumption DEF Initiate, FirstStep, Create, Link, IInv,
         TypeOK, Request, Phase, SellPhase, EndPhase, CallsInPlace,
         SalesInPlace, Overlaps, Selling, Sold, rowVars, payVars, hookVars,
         callVars, Goto
<1>2. ASSUME NEW r \in Request,
             Validate(r) \/ ReadUses(r) \/ WriteUses(r)
      PROVE  Overlaps'
  BY <1>2, IntentAssumption DEF Validate, ReadUses, WriteUses, AfterCoupon,
         Drop, IInv, TypeOK, Request, Phase, SellPhase, EndPhase,
         CallsInPlace, SalesInPlace, Overlaps, Selling, Sold, rowVars,
         payVars, hookVars, callVars, Goto
<1>3. ASSUME NEW i \in Intent,
             Charge(i) \/ Lapse(i) \/ ChargeFailed(i) \/ Forget(i)
      PROVE  Overlaps'
  BY <1>3, IntentAssumption DEF Charge, Lapse, ChargeFailed, Forget, IInv,
         TypeOK, Request, Phase, SellPhase, EndPhase, CallsInPlace,
         SalesInPlace, Overlaps, Selling, Sold, rowVars, payVars, hookVars,
         callVars, Goto
<1>4. ASSUME NEW c \in Call, NEW i \in Intent,
             Confirm(c, i) \/ Hook(c, i) \/ Cancel(c, i) \/ Switch(c, i)
      PROVE  Overlaps'
  BY <1>4, IntentAssumption DEF Confirm, Begin, Hook, Cancel, Switch, IInv,
         TypeOK, Request, Phase, SellPhase, EndPhase, CallsInPlace,
         SalesInPlace, Overlaps, Selling, Sold, rowVars, payVars, hookVars,
         callVars, Goto
<1>5. ASSUME NEW c \in Call,
             Resolve(c) \/ Load(c) \/ Expire(c)
      PROVE  Overlaps'
  BY <1>5, IntentAssumption DEF Resolve, Load, AfterLoad, AfterConfirm,
         Expire, IInv, TypeOK, Request, Phase, SellPhase, EndPhase,
         CallsInPlace, SalesInPlace, Overlaps, Selling, Sold, rowVars,
         payVars, hookVars, callVars, Goto
<1>6. ASSUME NEW c \in Call,
             RefuseCheckout(c) \/ StartCheckout(c) \/ CheckStock(c) \/
             ReadStock(c) \/ RollbackSale(c)
      PROVE  Overlaps'
  BY <1>6, IntentAssumption DEF RefuseCheckout, StartCheckout, CheckStock,
         ReadStock, RollbackSale, Drop, IInv, TypeOK, Request, Phase,
         SellPhase, EndPhase, CallsInPlace, SalesInPlace, Overlaps, Selling,
         Sold, rowVars, payVars, hookVars, callVars, Goto
<1>7. ASSUME NEW c \in Call,
             CommitSale(c) \/ RecordPayment(c)
      PROVE  Overlaps'
  BY <1>7, IntentAssumption DEF CommitSale, Drop, RecordPayment, IInv, TypeOK,
         Request, Phase, SellPhase, EndPhase, CallsInPlace, SalesInPlace,
         Overlaps, Selling, Sold, rowVars, payVars, hookVars, callVars, Goto
<1>8. ASSUME NEW c \in Call,
             MarkCompleted(c) \/ LogWebhook(c)
      PROVE  Overlaps'
  BY <1>8, IntentAssumption DEF MarkCompleted, AfterConfirm, LogWebhook, IInv,
         TypeOK, Request, Phase, SellPhase, EndPhase, CallsInPlace,
         SalesInPlace, Overlaps, Selling, Sold, rowVars, payVars, hookVars,
         callVars, Goto
<1>9. ASSUME NEW c \in Call,
             SelectPending(c) \/ WriteCancelled(c)
      PROVE  Overlaps'
  BY <1>9, IntentAssumption DEF SelectPending, FinishSwitch, FirstStep,
         WriteCancelled, IInv, TypeOK, Request, Phase, SellPhase, EndPhase,
         CallsInPlace, SalesInPlace, Overlaps, Selling, Sold, rowVars,
         payVars, hookVars, callVars, Goto
<1>10. ASSUME NEW r \in Request,
             Die(r)
      PROVE  Overlaps'
  BY <1>10, IntentAssumption DEF Die, Drop, IInv, TypeOK, Request, Phase,
         SellPhase, EndPhase, CallsInPlace, SalesInPlace, Overlaps, Selling,
         Sold, rowVars, payVars, hookVars, callVars, Goto
<1>11. QED
  BY <1>1, <1>2, <1>3, <1>4, <1>5, <1>6, <1>7, <1>8, <1>9, <1>10 DEF Next,
     Initiating, Counting, Paying,
     Confirming, Cancelling

\* A second sale is booked only by a call that has met the first, or after
\* the first call died.
LEMMA DuplicateStep ==
  ASSUME IInv, Next
  PROVE  DuplicateSalesOverlap'
<1>1. ASSUME NEW i \in Intent,
             Initiate(i) \/ Create(i) \/ Link(i)
      PROVE  DuplicateSalesOverlap'
  BY <1>1, IntentAssumption DEF Initiate, FirstStep, Create, Link, IInv,
         TypeOK, Request, Phase, SellPhase, EndPhase, SalesInPlace, Overlaps,
         Selling, Sold, DuplicateSalesOverlap, rowVars, payVars, hookVars,
         callVars, Goto
<1>2. ASSUME NEW r \in Request,
             Validate(r) \/ ReadUses(r) \/ WriteUses(r)
      PROVE  DuplicateSalesOverlap'
  BY <1>2, IntentAssumption DEF Validate, ReadUses, WriteUses, AfterCoupon,
         Drop, IInv, TypeOK, Request, Phase, SellPhase, EndPhase,
         SalesInPlace, Overlaps, Selling, Sold, DuplicateSalesOverlap,
         rowVars, payVars, hookVars, callVars, Goto
<1>3. ASSUME NEW i \in Intent,
             Charge(i) \/ Lapse(i) \/ ChargeFailed(i) \/ Forget(i)
      PROVE  DuplicateSalesOverlap'
  BY <1>3, IntentAssumption DEF Charge, Lapse, ChargeFailed, Forget, IInv,
         TypeOK, Request, Phase, SellPhase, EndPhase, SalesInPlace, Overlaps,
         Selling, Sold, DuplicateSalesOverlap, rowVars, payVars, hookVars,
         callVars, Goto
<1>4. ASSUME NEW c \in Call, NEW i \in Intent,
             Confirm(c, i) \/ Hook(c, i) \/ Cancel(c, i) \/ Switch(c, i)
      PROVE  DuplicateSalesOverlap'
  BY <1>4, IntentAssumption DEF Confirm, Begin, Hook, Cancel, Switch, IInv,
         TypeOK, Request, Phase, SellPhase, EndPhase, SalesInPlace, Overlaps,
         Selling, Sold, DuplicateSalesOverlap, rowVars, payVars, hookVars,
         callVars, Goto
<1>5. ASSUME NEW c \in Call,
             Resolve(c) \/ Load(c) \/ Expire(c)
      PROVE  DuplicateSalesOverlap'
  BY <1>5, IntentAssumption DEF Resolve, Load, AfterLoad, AfterConfirm,
         Expire, IInv, TypeOK, Request, Phase, SellPhase, EndPhase,
         SalesInPlace, Overlaps, Selling, Sold, DuplicateSalesOverlap,
         rowVars, payVars, hookVars, callVars, Goto
<1>6. ASSUME NEW c \in Call,
             RefuseCheckout(c) \/ StartCheckout(c) \/ CheckStock(c) \/
             ReadStock(c) \/ RollbackSale(c)
      PROVE  DuplicateSalesOverlap'
  BY <1>6, IntentAssumption DEF RefuseCheckout, StartCheckout, CheckStock,
         ReadStock, RollbackSale, Drop, IInv, TypeOK, Request, Phase,
         SellPhase, EndPhase, SalesInPlace, Overlaps, Selling, Sold,
         DuplicateSalesOverlap, rowVars, payVars, hookVars, callVars, Goto
<1>7. ASSUME NEW c \in Call,
             CommitSale(c) \/ RecordPayment(c)
      PROVE  DuplicateSalesOverlap'
  BY <1>7, IntentAssumption DEF CommitSale, Drop, RecordPayment, IInv, TypeOK,
         Request, Phase, SellPhase, EndPhase, SalesInPlace, Overlaps, Selling,
         Sold, DuplicateSalesOverlap, rowVars, payVars, hookVars, callVars,
         Goto
<1>8. ASSUME NEW c \in Call,
             MarkCompleted(c) \/ LogWebhook(c)
      PROVE  DuplicateSalesOverlap'
  BY <1>8, IntentAssumption DEF MarkCompleted, AfterConfirm, LogWebhook, IInv,
         TypeOK, Request, Phase, SellPhase, EndPhase, SalesInPlace, Overlaps,
         Selling, Sold, DuplicateSalesOverlap, rowVars, payVars, hookVars,
         callVars, Goto
<1>9. ASSUME NEW c \in Call,
             SelectPending(c) \/ WriteCancelled(c)
      PROVE  DuplicateSalesOverlap'
  BY <1>9, IntentAssumption DEF SelectPending, FinishSwitch, FirstStep,
         WriteCancelled, IInv, TypeOK, Request, Phase, SellPhase, EndPhase,
         SalesInPlace, Overlaps, Selling, Sold, DuplicateSalesOverlap,
         rowVars, payVars, hookVars, callVars, Goto
<1>10. ASSUME NEW r \in Request,
             Die(r)
      PROVE  DuplicateSalesOverlap'
  BY <1>10, IntentAssumption DEF Die, Drop, IInv, TypeOK, Request, Phase,
         SellPhase, EndPhase, SalesInPlace, Overlaps, Selling, Sold,
         DuplicateSalesOverlap, rowVars, payVars, hookVars, callVars, Goto
<1>11. QED
  BY <1>1, <1>2, <1>3, <1>4, <1>5, <1>6, <1>7, <1>8, <1>9, <1>10 DEF Next,
     Initiating, Counting, Paying,
     Confirming, Cancelling

\* The sold calls are finitely many.
LEMMA SoldFinite == IsFiniteSet(Sold) /\ Cardinality(Sold) \in Nat
<1>1. Sold \subseteq Call
  BY DEF Sold
<1>2. IsFiniteSet(Sold)
  BY <1>1, IntentAssumption, FS_Subset
<1>. QED
  BY <1>2, FS_CardinalityType

\* A commit adds its own sale to the sold ones.
LEMMA SoldGrows ==
  ASSUME IInv, NEW c \in Call, CommitSale(c)
  PROVE  /\ c \notin Sold
         /\ Sold' = Sold \cup {c}
         /\ Cardinality(Sold') = Cardinality(Sold) + 1
<1>1. c \notin Sold
  BY DEF IInv, SalesInPlace, CommitSale, Sold
<1>2. Sold' = Sold \cup {c}
  BY DEF IInv, TypeOK, CommitSale, Sold
<1>. QED
  BY <1>1, <1>2, SoldFinite, FS_AddElement

\* No other step touches the sold calls or the balance.
LEMMA SoldSame ==
  ASSUME IInv, Next
  PROVE  (\E d \in Call : CommitSale(d)) \/ (Sold' = Sold /\ stock' = stock)
<1>1. ASSUME NEW i \in Intent,
             Initiate(i) \/ Create(i) \/ Link(i)
      PROVE  (\E d \in Call : CommitSale(d)) \/ (Sold' = Sold /\ stock' = stock)
  BY <1>1 DEF Initiate, FirstStep, Create, Link, IInv, TypeOK, SalesInPlace,
         Sold, rowVars, payVars, hookVars, callVars, Goto
<1>2. ASSUME NEW r \in Request,
             Validate(r) \/ ReadUses(r) \/ WriteUses(r)
      PROVE  (\E d \in Call : CommitSale(d)) \/ (Sold' = Sold /\ stock' = stock)
  BY <1>2 DEF Validate, ReadUses, WriteUses, AfterCoupon, Drop, IInv, TypeOK,
         SalesInPlace, Sold, rowVars, payVars, hookVars, callVars, Goto
<1>3. ASSUME NEW i \in Intent,
             Charge(i) \/ Lapse(i) \/ ChargeFailed(i) \/ Forget(i)
      PROVE  (\E d \in Call : CommitSale(d)) \/ (Sold' = Sold /\ stock' = stock)
  BY <1>3 DEF Charge, Lapse, ChargeFailed, Forget, IInv, TypeOK, SalesInPlace,
         Sold, rowVars, payVars, hookVars, callVars, Goto
<1>4. ASSUME NEW c \in Call, NEW i \in Intent,
             Confirm(c, i) \/ Hook(c, i) \/ Cancel(c, i) \/ Switch(c, i)
      PROVE  (\E d \in Call : CommitSale(d)) \/ (Sold' = Sold /\ stock' = stock)
  BY <1>4 DEF Confirm, Begin, Hook, Cancel, Switch, IInv, TypeOK,
         SalesInPlace, Sold, rowVars, payVars, hookVars, callVars, Goto
<1>5. ASSUME NEW c \in Call,
             Resolve(c) \/ Load(c) \/ Expire(c)
      PROVE  (\E d \in Call : CommitSale(d)) \/ (Sold' = Sold /\ stock' = stock)
  BY <1>5 DEF Resolve, Load, AfterLoad, AfterConfirm, Expire, IInv, TypeOK,
         SalesInPlace, Sold, rowVars, payVars, hookVars, callVars, Goto
<1>6. ASSUME NEW c \in Call,
             RefuseCheckout(c) \/ StartCheckout(c) \/ CheckStock(c) \/
             ReadStock(c) \/ RollbackSale(c)
      PROVE  (\E d \in Call : CommitSale(d)) \/ (Sold' = Sold /\ stock' = stock)
  BY <1>6 DEF RefuseCheckout, StartCheckout, CheckStock, ReadStock,
         RollbackSale, Drop, IInv, TypeOK, SalesInPlace, Sold, rowVars,
         payVars, hookVars, callVars, Goto
<1>7. ASSUME NEW c \in Call,
             CommitSale(c) \/ RecordPayment(c)
      PROVE  (\E d \in Call : CommitSale(d)) \/ (Sold' = Sold /\ stock' = stock)
  BY <1>7 DEF CommitSale, Drop, RecordPayment, IInv, TypeOK, SalesInPlace,
         Sold, rowVars, payVars, hookVars, callVars, Goto
<1>8. ASSUME NEW c \in Call,
             MarkCompleted(c) \/ LogWebhook(c)
      PROVE  (\E d \in Call : CommitSale(d)) \/ (Sold' = Sold /\ stock' = stock)
  BY <1>8 DEF MarkCompleted, AfterConfirm, LogWebhook, IInv, TypeOK,
         SalesInPlace, Sold, rowVars, payVars, hookVars, callVars, Goto
<1>9. ASSUME NEW c \in Call,
             SelectPending(c) \/ WriteCancelled(c)
      PROVE  (\E d \in Call : CommitSale(d)) \/ (Sold' = Sold /\ stock' = stock)
  BY <1>9 DEF SelectPending, FinishSwitch, FirstStep, WriteCancelled, IInv,
         TypeOK, SalesInPlace, Sold, rowVars, payVars, hookVars, callVars,
         Goto
<1>10. ASSUME NEW r \in Request,
             Die(r)
      PROVE  (\E d \in Call : CommitSale(d)) \/ (Sold' = Sold /\ stock' = stock)
  BY <1>10 DEF Die, Drop, IInv, TypeOK, SalesInPlace, Sold, rowVars, payVars,
         hookVars, callVars, Goto
<1>11. QED
  BY <1>1, <1>2, <1>3, <1>4, <1>5, <1>6, <1>7, <1>8, <1>9, <1>10 DEF Next,
     Initiating, Counting, Paying,
     Confirming, Cancelling

\* A call that is about to sell is unaffected by the steps of others, unless it
\* has met them.
LEMMA StockStep ==
  ASSUME IInv, Next, Sold' = Sold, stock' = stock
  PROVE  StockInPlace'
<1>. DEFINE n == Cardinality(Sold)
<1>0. n \in Nat /\ n' = n
  BY SoldFinite
<1>1. met \subseteq met' /\ \A c \in Call : Alone(c)' => Alone(c)
  <2>1. met \subseteq met'
    BY DEF Next, Initiating, Counting, Paying, Confirming, Cancelling,
           Initiate, Create, Link, Validate, ReadUses, WriteUses, Charge,
           Lapse, ChargeFailed, Forget, Confirm, Hook, Cancel, Switch,
           Resolve, Load, Expire, RefuseCheckout, StartCheckout, CheckStock,
           ReadStock, RollbackSale, CommitSale, RecordPayment, MarkCompleted,
           LogWebhook, SelectPending, WriteCancelled, Die
  <2>. QED
    BY <2>1 DEF Alone
<1>. SUFFICES ASSUME NEW d \in Call
              PROVE  /\ pc'[d] = "writing" => held'[d] + n >= InitStock
                     /\ pc'[d] = "reading" /\ Alone(d) => stock >= 1
                     /\ pc'[d] = "writing" /\ Alone(d) => held'[d] = stock /\ stock >= 1
  BY <1>0, <1>1 DEF StockInPlace
<1>2. CASE pc'[d] = pc[d] /\ held'[d] = held[d]
  BY <1>2, <1>0 DEF IInv, StockInPlace
<1>3. CASE ReadStock(d)
  BY <1>3, <1>0 DEF ReadStock, Goto, IInv, TypeOK, Request, StockInPlace,
     NoUnitLost
<1>4. CASE CheckStock(d)
  BY <1>4, <1>0 DEF CheckStock, Goto, IInv, TypeOK, Request
<1>5. CASE pc'[d] \notin {"reading", "writing"}
  BY <1>5
<1>6. \/ pc'[d] = pc[d] /\ held'[d] = held[d]
      \/ ReadStock(d) \/ CheckStock(d) \/ pc'[d] \notin {"reading", "writing"}
  BY IntentAssumption
     DEF IInv, TypeOK, Request, Goto, Drop, Begin, FirstStep, AfterCoupon, AfterLoad,
           AfterConfirm, FinishSwitch, EndPhase,
           Next, Initiating, Counting, Paying, Confirming, Cancelling,
           Initiate, Create, Link, Validate, ReadUses, WriteUses, Charge,
           Lapse, ChargeFailed, Forget, Confirm, Hook, Cancel, Switch,
           Resolve, Load, Expire, RefuseCheckout, StartCheckout, CheckStock,
           ReadStock, RollbackSale, CommitSale, RecordPayment, MarkCompleted,
           LogWebhook, SelectPending, WriteCancelled, Die
<1>. QED
  BY <1>2, <1>3, <1>4, <1>5, <1>6

\* A commit takes one unit from the balance its call has read: exactly one of
\* those in stock when the call has met no sale, and never more than one.
LEMMA StockCommit ==
  ASSUME IInv, NEW c \in Call, CommitSale(c)
  PROVE  StockInPlace' /\ NoUnitLost' /\ StockIsExact'
<1>. DEFINE n == Cardinality(Sold)
<1>0. /\ n \in Nat /\ n' = n + 1
      /\ c \notin Sold /\ Sold' = Sold \cup {c} /\ met' = met
      /\ InitStock \in Nat /\ stock \in Nat /\ held[c] \in Nat
      /\ stock' = IF held[c] > 0 THEN held[c] - 1 ELSE 0
      /\ held[c] + n >= InitStock
  BY SoldFinite, SoldGrows, IntentAssumption
     DEF CommitSale, IInv, TypeOK, Request, StockInPlace
<1>1. NoUnitLost'
  BY <1>0 DEF NoUnitLost
<1>2. StockIsExact'
  <2>. SUFFICES ASSUME \A a, b \in Sold' : a # b => {a, b} \notin met
                PROVE  stock' + n' = InitStock
    BY <1>0 DEF StockIsExact
  <2>1. stock + n = InitStock
    BY <1>0 DEF IInv, StockIsExact
  <2>2. Alone(c)
    BY <1>0 DEF Alone
  <2>3. held[c] = stock /\ stock >= 1
    BY <2>2 DEF IInv, StockInPlace, CommitSale
  <2>. QED
    BY <1>0, <2>1, <2>3
<1>3. StockInPlace'
  <2>. SUFFICES ASSUME NEW d \in Call, pc'[d] \in {"reading", "writing"}
                PROVE  /\ pc[d] = "writing" => held[d] + n' >= InitStock
                       /\ held'[d] = held[d] /\ pc'[d] = pc[d] /\ ~Alone(d)'
    BY DEF StockInPlace
  <2>1. d # c /\ pc'[d] = pc[d] /\ held'[d] = held[d] /\ held[d] \in Nat
    BY DEF CommitSale, Goto, Drop, IInv, TypeOK, Request
  <2>2. {d, c} \in met
    BY <2>1 DEF IInv, Overlaps, Selling, SellPhase, CommitSale
  <2>3. ~Alone(d)'
    BY <2>2, <1>0 DEF Alone
  <2>4. pc[d] = "writing" => held[d] + n' >= InitStock
    BY <2>1, <1>0 DEF IInv, StockInPlace
  <2>. QED
    BY <2>1, <2>3, <2>4
<1>. QED
  BY <1>1, <1>2, <1>3

\* The initial state has no sale, no row and no call under way.
LEMMA InitInvariant == Init => IInv
<1>. SUFFICES ASSUME Init PROVE IInv
  OBVIOUS
<1>1. TypeOK /\ CallsInPlace /\ RowsInPlace /\ SalesInPlace
  BY IntentAssumption DEF Init, TypeOK, Status, Kind, Phase, SellPhase, EndPhase,
     CallsInPlace, RowsInPlace, SalesInPlace, Request
<1>2. Sold = {} /\ Selling = {}
  BY DEF Init, Sold, Selling, Request, SellPhase
<1>3. CompletedIsPaid /\ LoggedInPlace
  BY DEF Init, CompletedIsPaid, LoggedInPlace, LoggedIsPaid, Request
<1>4. Overlaps /\ DuplicateSalesOverlap
  BY <1>2 DEF Overlaps, DuplicateSalesOverlap
<1>5. Cardinality(Sold) = 0
  BY <1>2, FS_EmptySet
<1>6. StockInPlace /\ NoUnitLost /\ StockIsExact
  BY <1>5, IntentAssumption DEF Init, StockInPlace, NoUnitLost, StockIsExact,
     Request
<1>. QED
  BY <1>1, <1>3, <1>4, <1>6 DEF IInv

\* The invariant is inductive.
LEMMA NextInvariant == IInv /\ [Next]_vars => IInv'
<1>1. ASSUME IInv, Next PROVE IInv'
  <2>1. StockInPlace' /\ NoUnitLost' /\ StockIsExact'
    <3>1. CASE \E c \in Call : CommitSale(c)
      BY <1>1, <3>1, StockCommit
    <3>2. CASE Sold' = Sold /\ stock' = stock
      <4>1. StockInPlace'
        BY <1>1, <3>2, StockStep
      <4>2. met \subseteq met'
        BY <1>1 DEF Next, Initiating, Counting, Paying, Confirming, Cancelling,
           Initiate, Create, Link, Validate, ReadUses, WriteUses, Charge,
           Lapse, ChargeFailed, Forget, Confirm, Hook, Cancel, Switch,
           Resolve, Load, Expire, RefuseCheckout, StartCheckout, CheckStock,
           ReadStock, RollbackSale, CommitSale, RecordPayment, MarkCompleted,
           LogWebhook, SelectPending, WriteCancelled, Die
      <4>. QED
        BY <1>1, <3>2, <4>1, <4>2 DEF IInv, NoUnitLost, StockIsExact
    <3>. QED
      BY <1>1, <3>1, <3>2, SoldSame
  <2>. QED
    BY <1>1, <2>1, TypeStep, CallsStep, RowsStep, SalesStep, CompletedStep,
       LoggedStep, OverlapsStep, DuplicateStep DEF IInv
<1>2. ASSUME IInv, UNCHANGED vars PROVE IInv'
  <2>. USE <1>2 DEF IInv, vars
  <2>1. TypeOK' /\ CallsInPlace' /\ RowsInPlace'
    BY DEF TypeOK, CallsInPlace, RowsInPlace
  <2>2. SalesInPlace' /\ CompletedIsPaid' /\ LoggedInPlace'
    BY DEF SalesInPlace, CompletedIsPaid, LoggedInPlace, LoggedIsPaid
  <2>3. Sold' = Sold /\ Selling' = Selling
    BY DEF Sold, Selling
  <2>4. Overlaps' /\ DuplicateSalesOverlap'
    BY <2>3 DEF Overlaps, DuplicateSalesOverlap
  <2>5. \A c \in Call : Alone(c)' <=> Alone(c)
    BY <2>3 DEF Alone
  <2>6. StockInPlace' /\ NoUnitLost' /\ StockIsExact'
    BY <2>3, <2>5 DEF StockInPlace, NoUnitLost, StockIsExact
  <2>. QED
    BY <2>1, <2>2, <2>4, <2>6
<1>. QED
  BY <1>1, <1>2

-----------------------------------------------------------------------------
(* Theorems.                                                               *)

\* The inductive invariant holds in every reachable state.
THEOREM InvariantHolds == Spec => []IInv
BY InitInvariant, NextInvariant, PTL DEF Spec

\* Every variable keeps its type.
THEOREM TypeCorrect == Spec => []TypeOK
<1>1. IInv => TypeOK
  BY DEF IInv
<1>. QED
  BY <1>1, InvariantHolds, PTL

\* confirm_payment, cancel, expiry and failed charges in any order: a completed
\* intent names a sale that was booked for it and is paid.
THEOREM CompletedIsPaidHolds == Spec => []CompletedIsPaid
<1>1. IInv => CompletedIsPaid
  BY DEF IInv
<1>. QED
  BY <1>1, InvariantHolds, PTL

\* Two sales for one intent need two calls that sold at the same time, or one
\* that died.
THEOREM DuplicateSalesOverlapHolds == Spec => []DuplicateSalesOverlap
<1>1. IInv => DuplicateSalesOverlap
  BY DEF IInv
<1>. QED
  BY <1>1, InvariantHolds, PTL

\* The unlocked writes of the balance never lose a unit, and they are exact
\* unless two sales were made at the same time.
THEOREM StockHolds == Spec => []StockAccountedFor
<1>1. IInv => StockAccountedFor
  BY DEF IInv, StockAccountedFor
<1>. QED
  BY <1>1, InvariantHolds, PTL

\* A webhook in webhook_logs has a paid sale behind it.
THEOREM LoggedIsPaidHolds == Spec => []LoggedIsPaid
<1>1. IInv => LoggedIsPaid
  BY DEF IInv, LoggedInPlace
<1>. QED
  BY <1>1, InvariantHolds, PTL

\* No step reopens a closed intent or sells for it.
LEMMA ClosedStep ==
  ASSUME IInv, Next
  PROVE  \A j \in Intent : Closed(j) => Closed(j)' /\ SalesFor(j)' = SalesFor(j)
<1>1. ASSUME NEW i \in Intent,
             Initiate(i) \/ Create(i) \/ Link(i)
      PROVE  \A j \in Intent : Closed(j) => Closed(j)' /\ SalesFor(j)' = SalesFor(j)
  BY <1>1, IntentAssumption DEF Initiate, FirstStep, Create, Link, IInv,
         TypeOK, Request, Phase, SellPhase, EndPhase, CallsInPlace,
         RowsInPlace, SalesInPlace, Closed, SalesFor, Sold, Selling, rowVars,
         payVars, hookVars, callVars, Goto
<1>2. ASSUME NEW r \in Request,
             Validate(r) \/ ReadUses(r) \/ WriteUses(r)
      PROVE  \A j \in Intent : Closed(j) => Closed(j)' /\ SalesFor(j)' = SalesFor(j)
  BY <1>2, IntentAssumption DEF Validate, ReadUses, WriteUses, AfterCoupon,
         Drop, IInv, TypeOK, Request, Phase, SellPhase, EndPhase,
         CallsInPlace, RowsInPlace, SalesInPlace, Closed, SalesFor, Sold,
         Selling, rowVars, payVars, hookVars, callVars, Goto
<1>3. ASSUME NEW i \in Intent,
             Charge(i) \/ Lapse(i) \/ ChargeFailed(i) \/ Forget(i)
      PROVE  \A j \in Intent : Closed(j) => Closed(j)' /\ SalesFor(j)' = SalesFor(j)
  BY <1>3, IntentAssumption DEF Charge, Lapse, ChargeFailed, Forget, IInv,
         TypeOK, Request, Phase, SellPhase, EndPhase, CallsInPlace,
         RowsInPlace, SalesInPlace, Closed, SalesFor, Sold, Selling, rowVars,
         payVars, hookVars, callVars, Goto
<1>4. ASSUME NEW c \in Call, NEW i \in Intent,
             Confirm(c, i) \/ Hook(c, i) \/ Cancel(c, i) \/ Switch(c, i)
      PROVE  \A j \in Intent : Closed(j) => Closed(j)' /\ SalesFor(j)' = SalesFor(j)
  BY <1>4, IntentAssumption DEF Confirm, Begin, Hook, Cancel, Switch, IInv,
         TypeOK, Request, Phase, SellPhase, EndPhase, CallsInPlace,
         RowsInPlace, SalesInPlace, Closed, SalesFor, Sold, Selling, rowVars,
         payVars, hookVars, callVars, Goto
<1>5. ASSUME NEW c \in Call,
             Resolve(c) \/ Load(c) \/ Expire(c)
      PROVE  \A j \in Intent : Closed(j) => Closed(j)' /\ SalesFor(j)' = SalesFor(j)
  BY <1>5, IntentAssumption DEF Resolve, Load, AfterLoad, AfterConfirm,
         Expire, IInv, TypeOK, Request, Phase, SellPhase, EndPhase,
         CallsInPlace, RowsInPlace, SalesInPlace, Closed, SalesFor, Sold,
         Selling, rowVars, payVars, hookVars, callVars, Goto
<1>6. ASSUME NEW c \in Call,
             RefuseCheckout(c) \/ StartCheckout(c) \/ CheckStock(c) \/
             ReadStock(c) \/ RollbackSale(c)
      PROVE  \A j \in Intent : Closed(j) => Closed(j)' /\ SalesFor(j)' = SalesFor(j)
  BY <1>6, IntentAssumption DEF RefuseCheckout, StartCheckout, CheckStock,
         ReadStock, RollbackSale, Drop, IInv, TypeOK, Request, Phase,
         SellPhase, EndPhase, CallsInPlace, RowsInPlace, SalesInPlace, Closed,
         SalesFor, Sold, Selling, rowVars, payVars, hookVars, callVars, Goto
<1>7. ASSUME NEW c \in Call,
             CommitSale(c) \/ RecordPayment(c)
      PROVE  \A j \in Intent : Closed(j) => Closed(j)' /\ SalesFor(j)' = SalesFor(j)
  BY <1>7, IntentAssumption DEF CommitSale, Drop, RecordPayment, IInv, TypeOK,
         Request, Phase, SellPhase, EndPhase, CallsInPlace, RowsInPlace,
         SalesInPlace, Closed, SalesFor, Sold, Selling, rowVars, payVars,
         hookVars, callVars, Goto
<1>8. ASSUME NEW c \in Call,
             MarkCompleted(c) \/ LogWebhook(c)
      PROVE  \A j \in Intent : Closed(j) => Closed(j)' /\ SalesFor(j)' = SalesFor(j)
  BY <1>8, IntentAssumption DEF MarkCompleted, AfterConfirm, LogWebhook, IInv,
         TypeOK, Request, Phase, SellPhase, EndPhase, CallsInPlace,
         RowsInPlace, SalesInPlace, Closed, SalesFor, Sold, Selling, rowVars,
         payVars, hookVars, callVars, Goto
<1>9. ASSUME NEW c \in Call,
             SelectPending(c) \/ WriteCancelled(c)
      PROVE  \A j \in Intent : Closed(j) => Closed(j)' /\ SalesFor(j)' = SalesFor(j)
  BY <1>9, IntentAssumption DEF SelectPending, FinishSwitch, FirstStep,
         WriteCancelled, IInv, TypeOK, Request, Phase, SellPhase, EndPhase,
         CallsInPlace, RowsInPlace, SalesInPlace, Closed, SalesFor, Sold,
         Selling, rowVars, payVars, hookVars, callVars, Goto
<1>10. ASSUME NEW r \in Request,
             Die(r)
      PROVE  \A j \in Intent : Closed(j) => Closed(j)' /\ SalesFor(j)' = SalesFor(j)
  BY <1>10, IntentAssumption DEF Die, Drop, IInv, TypeOK, Request, Phase,
         SellPhase, EndPhase, CallsInPlace, RowsInPlace, SalesInPlace, Closed,
         SalesFor, Sold, Selling, rowVars, payVars, hookVars, callVars, Goto
<1>11. QED
  BY <1>1, <1>2, <1>3, <1>4, <1>5, <1>6, <1>7, <1>8, <1>9, <1>10 DEF Next,
     Initiating, Counting, Paying,
     Confirming, Cancelling

\* An intent that is settled, with no call of it under way, stays so, and its
\* sales are final.
THEOREM ClosedStaysClosedHolds == Spec => ClosedStaysClosed
<1>1. ASSUME IInv, [Next]_vars
      PROVE  [\A i \in Intent : Closed(i) => Closed(i)' /\ SalesFor(i)' = SalesFor(i)]_vars
  BY <1>1, ClosedStep
<1>. QED
  BY <1>1, InvariantHolds, PTL DEF Spec, ClosedStaysClosed

-----------------------------------------------------------------------------
(* The general ledger of one sale: proofs about Books, for any payments and *)
(* consumers, whose names are its own so that they stand beside those of    *)
(* PaymentIntents.                                                          *)
(*                                                                          *)
(* The inductive invariant BooksInv bounds the journals of a sale that its  *)
(* request has not booked by the confirmations committed, and keeps what a  *)
(* consumer plans to post in step with what its event has had posted.       *)

\* From here on the constants are what Books assumes of them.
USE BooksAssumption

\* The confirmations among some events.
Confirmed(E) == {e \in E : e[1] = "confirmed"}

\* How many of the reversals in s mirrored a kind of journal.
Reversals(s, k) == Cardinality({i \in DOMAIN s : s[i] = k})

\* What a consumer is about to commit: an event that was published, and a plan
\* of its handler's; it found no journal of the sale if it is to book one.
Planned(w) ==
  task[w] # Idle =>
    /\ task[w].event \in staged
    /\ task[w].event[1] = "confirmed" => task[w].plan \in {"skip", "cash"}
    /\ task[w].event[1] = "succeeded" => task[w].plan \in {"skip", "recognise", "collect"}

\* What is booked for an event is committed with it, and a payment whose event
\* is there was recorded.
Committed ==
  /\ \A e \in Event \ inbox : entries[e] = 0
  /\ \A p \in Payment : how[p] # "skip" => <<"succeeded", p>> \in inbox
  /\ \A p \in Payment : how[p] # "cash"
  /\ \A p \in Payment : <<"succeeded", p>> \in staged => amt[p] # 0

\* Only a sale that is booked with its commit or by its request has a row.
RowInPlace == booking # "posted" => ~row
NoRow == ~row => owed = 0

\* The ledger of a sale that its request has not booked come from
\* confirmations; a sale that its request did book has no other journal, and
\* nobody is about to post one, unless it was completed before.
SoldInPlace ==
  /\ booking = "missing" /\ ~hasty => Confirmed(staged) = {}
  /\ booking # "posted" => Len(sold) <= Cardinality(Confirmed(inbox))
  /\ booking = "posted" => sold # <<>>
  /\ booking = "posted" /\ ~hasty =>
       Len(sold) = 1 /\ \A w \in Worker : task[w].plan # "cash"

BooksInv ==
  /\ BooksTypeOK
  /\ \A w \in Worker : Planned(w)
  /\ Committed
  /\ RowInPlace /\ NoRow
  /\ SoldInPlace
  /\ OneEntryPerEvent
  /\ ControlExplained

-----------------------------------------------------------------------------
(* Facts the steps share.                                                  *)

\* Confirmations are finitely many, and a set of events has no more of them
\* than one that contains it.
LEMMA ConfirmedCount ==
  ASSUME NEW E \in SUBSET Event, NEW F \in SUBSET E
  PROVE  /\ IsFiniteSet(Confirmed(E)) /\ IsFiniteSet(Confirmed(F))
         /\ Cardinality(Confirmed(E)) \in Nat /\ Cardinality(Confirmed(F)) \in Nat
         /\ Cardinality(Confirmed(F)) <= Cardinality(Confirmed(E))
<1>1. IsFiniteSet({"succeeded", "confirmed"})
  <2>1. IsFiniteSet({"succeeded"} \cup {"confirmed"})
    BY FS_Singleton, FS_AddElement
  <2>2. {"succeeded"} \cup {"confirmed"} = {"succeeded", "confirmed"}
    OBVIOUS
  <2>3. QED
    BY <2>1, <2>2
<1>2. IsFiniteSet(Event)
  BY <1>1, FS_Product DEF BooksAssumption, Event
<1>3. Confirmed(E) \in SUBSET Event /\ Confirmed(F) \in SUBSET Confirmed(E)
  BY DEF Confirmed
<1>4. IsFiniteSet(Confirmed(E))
  BY <1>2, <1>3, FS_Subset
<1>5. QED
  BY <1>3, <1>4, FS_Subset, FS_CardinalityType

\* One more confirmation, one more to count.
LEMMA ConfirmedMore ==
  ASSUME NEW E \in SUBSET Event, NEW e \in Event, e \notin E
  PROVE  /\ e[1] = "confirmed" =>
              Cardinality(Confirmed(E \cup {e})) = Cardinality(Confirmed(E)) + 1
         /\ e[1] # "confirmed" => Confirmed(E \cup {e}) = Confirmed(E)
<1>1. IsFiniteSet(Confirmed(E)) /\ Cardinality(Confirmed(E)) \in Nat
  BY ConfirmedCount
<1>2. CASE e[1] = "confirmed"
  <2>1. Confirmed(E \cup {e}) = Confirmed(E) \cup {e} /\ e \notin Confirmed(E)
    BY <1>2 DEF Confirmed
  <2>2. QED
    BY <1>1, <1>2, <2>1, FS_AddElement
<1>3. CASE e[1] # "confirmed"
  BY <1>3 DEF Confirmed
<1>4. QED
  BY <1>2, <1>3

\* What the payments of some set come to is a number, unchanged while their
\* amounts are, and one more payment adds its amount.
LEMMA AmountFacts ==
  ASSUME BooksTypeOK, NEW P \in SUBSET Payment
  PROVE  /\ Amount(P) \in Int
         /\ \A p \in Payment \ P : Amount(P \cup {p}) = Amount(P) + amt[p]
<1>1. IsFiniteSet(P)
  BY FS_Subset DEF BooksAssumption
<1>2. \A p \in Payment : amt[p] \in Int
  BY DEF BooksAssumption, BooksTypeOK
<1>3. Amount(P) \in Int
  BY <1>1, <1>2, SumType DEF Amount
<1>4. ASSUME NEW p \in Payment \ P PROVE Amount(P \cup {p}) = Amount(P) + amt[p]
  <2>1. SumFunctionOnSet(amt, P \cup {p}) = amt[p] + SumFunctionOnSet(amt, P)
    BY <1>1, <1>2, SumAdd
  <2>2. QED
    BY <1>2, <1>3, <2>1 DEF Amount
<1>5. QED
  BY <1>3, <1>4

\* A payment that is recorded later does not change what others come to.
LEMMA AmountSame ==
  ASSUME BooksTypeOK, NEW P \in SUBSET Payment, NEW p \in Payment \ P,
         NEW a, amt' = [amt EXCEPT ![p] = a]
  PROVE  SumFunctionOnSet(amt', P) = SumFunctionOnSet(amt, P)
<1>1. IsFiniteSet(P)
  BY FS_Subset DEF BooksAssumption
<1>2. \A q \in P : amt[q] \in Int /\ amt'[q] = amt[q]
  BY DEF BooksAssumption, BooksTypeOK
<1>3. QED
  BY <1>1, <1>2, SumSame

\* How often voids and returns reversed a kind of journal, after one more.
LEMMA TimesMore ==
  ASSUME NEW s \in Seq({"credit", "cash", "nothing"}), NEW k, NEW j
  PROVE  /\ Reversals(s, j) \in Nat
         /\ k = j => Reversals(Append(s, k), j) = Reversals(s, j) + 1
         /\ k # j => Reversals(Append(s, k), j) = Reversals(s, j)
<1> DEFINE A == {i \in DOMAIN s : s[i] = j}
           t == Append(s, k)
           B == {i \in DOMAIN t : t[i] = j}
<1>1. /\ DOMAIN s = 1 .. Len(s) /\ Len(s) \in Nat
      /\ DOMAIN t = 1 .. Len(s) + 1
      /\ t[Len(s) + 1] = k
      /\ \A i \in 1 .. Len(s) : t[i] = s[i]
  OBVIOUS
<1>2. IsFiniteSet(A)
  <2>1. IsFiniteSet(1 .. Len(s))
    BY <1>1, FS_Interval
  <2>2. QED
    BY <1>1, <2>1, FS_Subset
<1>3. Cardinality(A) \in Nat
  BY <1>2, FS_CardinalityType
<1>4. ASSUME k = j PROVE Cardinality(B) = Cardinality(A) + 1
  <2>1. B = A \cup {Len(s) + 1} /\ Len(s) + 1 \notin A
    <3> HIDE DEF t
    <3>1. QED
      BY <1>1, <1>4
  <2>2. QED
    BY <1>2, <1>3, <1>4, <2>1, FS_AddElement
<1>5. ASSUME k # j PROVE Cardinality(B) = Cardinality(A)
  <2>1. B = A
    <3> HIDE DEF t
    <3>1. QED
      BY <1>1, <1>5
  <2>2. QED
    BY <1>3, <1>5, <2>1
<1>6. Reversals(s, j) = Cardinality(A) /\ Reversals(Append(s, k), j) = Cardinality(B)
  BY DEF Reversals
<1>7. QED
  <2> HIDE DEF A, B, t
  <2>1. QED
    BY <1>3, <1>4, <1>5, <1>6


-----------------------------------------------------------------------------
(* The invariant is inductive: the requests.                               *)

\* A sale begins booked with its commit, or not at all.
LEMMA BooksStart ==
  ASSUME BooksInit
  PROVE  BooksInv
<1>1. BooksTypeOK
  <2>1. Total \in Nat \ {0} /\ MaxFaults \in Nat
    BY DEF BooksAssumption
  <2>2. /\ booking \in {"missing", "posted", "lost"} /\ sold \in Seq({"credit", "cash"})
        /\ undone \in Seq({"credit", "cash", "nothing"})
    <3>1. <<"cash">> \in Seq({"credit", "cash"}) /\ <<>> \in Seq({"credit", "cash"})
          /\ <<>> \in Seq({"credit", "cash", "nothing"})
      OBVIOUS
    <3>2. (booking = "posted" /\ sold = <<"cash">>) \/ (booking = "missing" /\ sold = <<>>)
      BY DEF BooksInit
    <3>3. undone = <<>>
      BY DEF BooksInit
    <3>4. QED
      BY <3>1, <3>2, <3>3
  <2>3. ledger \in [Account -> Int]
    <3>1. CASE ledger = [cash |-> Total, receivable |-> 0, revenue |-> -Total]
      <4>1. Account = {"cash", "receivable", "revenue"}
        BY DEF Account
      <4>2. DOMAIN ledger = Account /\ \A a \in Account : ledger[a] \in Int
        BY <2>1, <3>1, <4>1
      <4>3. ledger = [a \in {"cash", "receivable", "revenue"} |-> ledger[a]]
        BY <3>1
      <4>4. QED
        BY <4>1, <4>2, <4>3
    <3>2. CASE ledger = [a \in Account |-> 0]
      BY <3>2
    <3>3. QED
      BY <3>1, <3>2 DEF BooksInit
  <2>4. /\ row \in BOOLEAN /\ owed \in 0 .. Total /\ amt \in [Payment -> 0 .. Total]
        /\ paid \in Nat /\ faults \in 0 .. MaxFaults
        /\ saleStatus \in {"pending", "partial", "completed", "voided", "returned"}
        /\ hasty \in BOOLEAN
    <3>1. /\ row = FALSE /\ owed = 0 /\ amt = [p \in Payment |-> 0] /\ paid = 0
          /\ saleStatus = "pending" /\ hasty = FALSE /\ faults = 0
      BY DEF BooksInit
    <3>2. 0 \in 0 .. Total /\ 0 \in 0 .. MaxFaults
      BY <2>1
    <3>3. QED
      BY <3>1, <3>2
  <2>5. /\ staged \subseteq Event /\ inbox \subseteq staged /\ stolen \subseteq inbox
        /\ entries \in [Event -> Nat] /\ how \in [Payment -> Plan]
    BY DEF BooksInit, Plan
  <2>6. task \in [Worker -> [event : {<<>>} \cup Event, plan : Plan]]
    BY DEF BooksInit, Idle, Plan
  <2>7. QED
    BY <2>2, <2>3, <2>4, <2>5, <2>6 DEF BooksTypeOK
<1>2. /\ \A w \in Worker : Planned(w)
      /\ Committed /\ RowInPlace /\ NoRow /\ OneEntryPerEvent
  BY DEF BooksInit, Planned, Committed, RowInPlace, NoRow, OneEntryPerEvent, Idle
<1>3. SoldInPlace
  <2>1. Confirmed(staged) = {} /\ Confirmed(inbox) = {}
    BY DEF BooksInit, Confirmed
  <2>2. Cardinality(Confirmed(inbox)) = 0
    BY <2>1, FS_EmptySet
  <2>3. \A w \in Worker : task[w].plan # "cash"
    BY DEF BooksInit, Idle
  <2>4. CASE booking = "posted" /\ sold = <<"cash">>
    BY <2>3, <2>4 DEF SoldInPlace
  <2>5. CASE booking = "missing" /\ sold = <<>>
    BY <2>1, <2>2, <2>5 DEF SoldInPlace
  <2>6. QED
    BY <2>4, <2>5 DEF BooksInit
<1>4. ControlExplained
  <2>1. Booked("recognise") = {} /\ Booked("collect") = {}
    BY DEF BooksInit, Booked
  <2>2. Amount({}) = 0
    BY SumEmpty DEF Amount
  <2>3. Times("credit") = 0
    <3>1. {i \in DOMAIN undone : undone[i] = "credit"} = {}
      BY DEF BooksInit
    <3>2. QED
      BY <3>1, FS_EmptySet DEF Times
  <2>4. ledger["receivable"] = 0 /\ owed = 0
    BY DEF BooksInit, Account
  <2>5. Total \in Int
    BY DEF BooksAssumption
  <2>6. QED
    BY <2>1, <2>2, <2>3, <2>4, <2>5 DEF ControlExplained
<1>5. QED
  BY <1>1, <1>2, <1>3, <1>4 DEF BooksInv

\* What the payments booked in a way come to, and how often a kind of journal
\* was reversed, are numbers.
LEMMA ControlTypes ==
  ASSUME BooksTypeOK
  PROVE  /\ Amount(Booked("recognise")) \in Int /\ Amount(Booked("collect")) \in Int
         /\ Times("credit") \in Nat /\ Total \in Nat
         /\ ledger["receivable"] \in Int /\ ledger["cash"] \in Int
         /\ ledger["revenue"] \in Int /\ owed \in Int
         /\ Total * Times("credit") \in Int
<1>1. Booked("recognise") \in SUBSET Payment /\ Booked("collect") \in SUBSET Payment
  BY DEF Booked
<1>2. Amount(Booked("recognise")) \in Int /\ Amount(Booked("collect")) \in Int
  BY <1>1, AmountFacts
<1>3. Times("credit") \in Nat
  BY TimesMore DEF Times, Reversals, BooksTypeOK
<1>4. Total \in Nat /\ \A a \in Account : ledger[a] \in Int
  BY DEF BooksTypeOK, BooksAssumption
<1>5. owed \in Int
  BY <1>4 DEF BooksTypeOK
<1>6. QED
  BY <1>2, <1>3, <1>4, <1>5 DEF Account

\* A journal changes its two accounts and leaves balances that are numbers.
LEMMA PostedFacts ==
  ASSUME NEW l \in [Account -> Int], NEW d \in Account, NEW c \in Account, d # c,
         NEW a \in Int
  PROVE  /\ Posted(l, d, c, a) \in [Account -> Int]
         /\ Posted(l, d, c, a)[d] = l[d] + a
         /\ Posted(l, d, c, a)[c] = l[c] - a
         /\ \A x \in Account : x # d /\ x # c => Posted(l, d, c, a)[x] = l[x]
BY DEF Posted

\* The request books the sale: before it the receivable had no row, and if the
\* sale was not completed, no confirmation was there to book it.
LEMMA BookKeeps ==
  ASSUME BooksInv, Book
  PROVE  BooksInv'
<1>1. /\ BooksTypeOK /\ RowInPlace /\ NoRow /\ Committed /\ SoldInPlace /\ OneEntryPerEvent
      /\ ControlExplained /\ \A w \in Worker : Planned(w)
  BY DEF BooksInv
<1>2. /\ booking = "missing" /\ booking' = "posted"
      /\ sold' = Append(sold, "credit")
      /\ ledger' = Posted(ledger, "receivable", "revenue", Total)
      /\ row' = TRUE /\ owed' = Total
      /\ UNCHANGED <<amt, paid, saleStatus, hasty, undone, staged, inbox, stolen, entries,
                     how, task, faults>>
  BY DEF Book, saleVars, eventVars
<1>3. /\ ledger' \in [Account -> Int]
      /\ ledger'["receivable"] = ledger["receivable"] + Total
  <2>1. Total \in Int /\ ledger \in [Account -> Int]
    BY <1>1 DEF BooksTypeOK, BooksAssumption
  <2>2. "receivable" \in Account /\ "revenue" \in Account
    BY DEF Account
  <2>3. \A l \in [Account -> Int], t \in Int :
          /\ Posted(l, "receivable", "revenue", t) \in [Account -> Int]
          /\ Posted(l, "receivable", "revenue", t)["receivable"] = l["receivable"] + t
    BY <2>2 DEF Posted
  <2>4. QED
    BY <1>2, <2>1, <2>3
<1>4. BooksTypeOK'
  <2>1. sold' \in Seq({"credit", "cash"})
    BY <1>1, <1>2 DEF BooksTypeOK
  <2>2. owed' \in 0 .. Total
    BY <1>2 DEF BooksAssumption
  <2>3. QED
    BY <1>1, <1>2, <1>3, <2>1, <2>2 DEF BooksTypeOK
<1>5. /\ Committed' /\ RowInPlace' /\ NoRow' /\ OneEntryPerEvent'
      /\ \A w \in Worker : Planned(w)'
  BY <1>1, <1>2 DEF Committed, RowInPlace, NoRow, OneEntryPerEvent, Planned
<1>6. SoldInPlace'
  <2>1. sold \in Seq({"credit", "cash"})
    BY <1>1 DEF BooksTypeOK
  <2>2. sold' # <<>> /\ Len(sold') = Len(sold) + 1 /\ Len(sold) \in Nat
    BY <1>2, <2>1
  <2>3. ASSUME ~hasty
        PROVE  Len(sold') = 1 /\ \A w \in Worker : task[w].plan # "cash"
    <3>1. Confirmed(staged) = {}
      BY <1>1, <1>2, <2>3 DEF SoldInPlace
    <3>2. Confirmed(inbox) = {}
      BY <1>1, <3>1 DEF Confirmed, BooksTypeOK
    <3>3. Len(sold) = 0
      BY <1>1, <1>2, <2>2, <3>2, FS_EmptySet DEF SoldInPlace
    <3>4. ASSUME NEW w \in Worker PROVE task[w].plan # "cash"
      <4>1. CASE task[w] = Idle
        BY <4>1 DEF Idle
      <4>2. CASE task[w] # Idle
        <5>1. task[w].event \in staged /\ task[w].event \in Event
          BY <1>1, <4>2 DEF Planned, BooksTypeOK
        <5>2. task[w].event[1] = "succeeded"
          BY <3>1, <5>1 DEF Confirmed, Event
        <5>3. QED
          BY <1>1, <4>2, <5>2 DEF Planned
      <4>3. QED
        BY <4>1, <4>2
    <3>5. QED
      BY <2>2, <3>3, <3>4
  <2>4. QED
    BY <1>2, <2>2, <2>3 DEF SoldInPlace
<1>7. ControlExplained'
  <2>1. owed = 0
    BY <1>1, <1>2 DEF RowInPlace, NoRow
  <2>2. /\ Amount(Booked("recognise"))' = Amount(Booked("recognise"))
        /\ Amount(Booked("collect"))' = Amount(Booked("collect"))
        /\ Times("credit")' = Times("credit")
    BY <1>2 DEF Amount, Booked, Times
  <2>3. QED
    BY <1>1, <1>2, <1>3, <2>1, <2>2, ControlTypes DEF ControlExplained
<1>8. QED
  BY <1>4, <1>5, <1>6, <1>7 DEF BooksInv

\* The sale is not booked: a posted sale is one that was.
LEMMA LoseBooksKeeps ==
  ASSUME BooksInv, LoseBooks
  PROVE  BooksInv'
<1>1. /\ BooksTypeOK /\ RowInPlace /\ NoRow /\ Committed /\ SoldInPlace /\ OneEntryPerEvent
      /\ ControlExplained /\ \A w \in Worker : Planned(w)
  BY DEF BooksInv
<1>2. /\ booking = "missing" /\ booking' = "lost"
      /\ faults < MaxFaults /\ faults' = faults + 1
      /\ UNCHANGED <<sold, ledger, row, owed, amt, paid, saleStatus, hasty, undone, staged,
                     inbox, stolen, entries, how, task>>
  BY DEF LoseBooks, saleVars, eventVars
<1>3. BooksTypeOK'
  <2>1. faults' \in 0 .. MaxFaults
    BY <1>1, <1>2 DEF BooksTypeOK, BooksAssumption
  <2>2. QED
    BY <1>1, <1>2, <2>1 DEF BooksTypeOK
<1>4. /\ Committed' /\ RowInPlace' /\ NoRow' /\ OneEntryPerEvent'
      /\ \A w \in Worker : Planned(w)'
  BY <1>1, <1>2 DEF Committed, RowInPlace, NoRow, OneEntryPerEvent, Planned
<1>5. SoldInPlace'
  BY <1>1, <1>2 DEF SoldInPlace
<1>6. ControlExplained'
  BY <1>1, <1>2 DEF ControlExplained, Amount, Booked, Times
<1>7. QED
  BY <1>3, <1>4, <1>5, <1>6 DEF BooksInv

\* What a payment draws from the receivable is no more than is owed.
LEMMA SettledType ==
  ASSUME BooksTypeOK, NEW a \in 1 .. Total
  PROVE  /\ Settled(a) \in Nat /\ owed - Settled(a) \in 0 .. Total
         /\ ~row => Settled(a) = 0
BY DEF BooksAssumption, BooksTypeOK, Settled, Smaller

\* A payment: nothing was booked for it before, and it draws the row and the
\* account down alike. It confirms the sale only when it completes it.
LEMMA PayKeeps ==
  ASSUME BooksInv, NEW p \in Payment, NEW a \in 1 .. Total, Pay(p, a)
  PROVE  BooksInv'
<1>1. /\ BooksTypeOK /\ RowInPlace /\ NoRow /\ Committed /\ SoldInPlace /\ OneEntryPerEvent
      /\ ControlExplained /\ \A w \in Worker : Planned(w)
  BY DEF BooksInv
<1> DEFINE done == paid + a >= Total
           new  == {<<"succeeded", p>>}
                     \cup (IF done /\ saleStatus # "completed" THEN {<<"confirmed", p>>} ELSE {})
<1>2. /\ amt[p] = 0
      /\ amt' = [amt EXCEPT ![p] = a]
      /\ paid' = paid + a
      /\ saleStatus' = IF done THEN "completed" ELSE "partial"
      /\ hasty' = (hasty \/ (done /\ booking = "missing"))
      /\ staged' = staged \cup new
      /\ owed' = owed - Settled(a)
      /\ ledger' = Posted(ledger, "cash", "receivable", Settled(a))
      /\ UNCHANGED <<booking, sold, row, undone, inbox, stolen, entries, how, task, faults>>
  <2>1. staged \cup new = staged \cup {<<"succeeded", p>>}
          \cup (IF done /\ saleStatus # "completed" THEN {<<"confirmed", p>>} ELSE {})
    OBVIOUS
  <2>2. QED
    BY <2>1 DEF Pay
<1>3. Settled(a) \in Nat /\ owed' \in 0 .. Total /\ (~row => Settled(a) = 0)
  BY <1>1, <1>2, SettledType
<1>4. /\ ledger' \in [Account -> Int]
      /\ ledger'["receivable"] = ledger["receivable"] - Settled(a)
  <2>1. ledger \in [Account -> Int] /\ Settled(a) \in Int
    BY <1>1, <1>3 DEF BooksTypeOK
  <2>2. "cash" \in Account /\ "receivable" \in Account
    BY DEF Account
  <2>3. ledger' = [ledger EXCEPT !["cash"] = @ + Settled(a), !["receivable"] = @ - Settled(a)]
    BY <1>2 DEF Posted
  <2>4. QED
    BY <2>1, <2>2, <2>3
<1>5. new \subseteq Event
  BY DEF Event
<1>6. a \in 0 .. Total /\ a \in Nat /\ a # 0
  BY DEF BooksAssumption
<1>7. BooksTypeOK'
  <2>1. amt' \in [Payment -> 0 .. Total]
    BY <1>1, <1>2, <1>6 DEF BooksTypeOK
  <2>2. paid' \in Nat
    BY <1>1, <1>2, <1>6 DEF BooksTypeOK
  <2>3. staged' \subseteq Event /\ inbox' \subseteq staged'
    BY <1>1, <1>2, <1>5 DEF BooksTypeOK
  <2>4. saleStatus' \in {"pending", "partial", "completed", "voided", "returned"}
    BY <1>2
  <2>5. hasty' \in BOOLEAN
    BY <1>2
  <2>6. QED
    BY <1>1, <1>2, <1>3, <1>4, <2>1, <2>2, <2>3, <2>4, <2>5 DEF BooksTypeOK
<1>8. Committed'
  <2>1. \A q \in Payment : <<"succeeded", q>> \in new => q = p
    OBVIOUS
  <2>2. \A q \in Payment : amt'[q] = IF q = p THEN a ELSE amt[q]
    BY <1>1, <1>2 DEF BooksTypeOK
  <2>3. \A q \in Payment : <<"succeeded", q>> \in staged' => amt'[q] # 0
    BY <1>1, <1>2, <1>6, <2>1, <2>2 DEF Committed
  <2>4. QED
    BY <1>1, <1>2, <2>3 DEF Committed
<1>9. RowInPlace' /\ NoRow' /\ OneEntryPerEvent' /\ \A w \in Worker : Planned(w)'
  <2>1. NoRow'
    BY <1>1, <1>2, <1>3 DEF NoRow
  <2>2. RowInPlace' /\ OneEntryPerEvent'
    BY <1>1, <1>2 DEF RowInPlace, OneEntryPerEvent
  <2>3. \A w \in Worker : Planned(w)'
    BY <1>1, <1>2 DEF Planned
  <2>4. QED
    BY <2>1, <2>2, <2>3
<1>10. SoldInPlace'
  <2>1. ASSUME booking = "missing", ~hasty' PROVE Confirmed(staged') = {}
    <3>1. ~done /\ ~hasty
      BY <1>2, <2>1
    <3>2. new = {<<"succeeded", p>>}
      BY <3>1
    <3>3. Confirmed(staged) = {}
      BY <1>1, <2>1, <3>1 DEF SoldInPlace
    <3>4. QED
      BY <1>2, <3>2, <3>3 DEF Confirmed
  <2>2. ~hasty' => ~hasty
    BY <1>2
  <2>3. QED
    BY <1>1, <1>2, <2>1, <2>2 DEF SoldInPlace
<1>11. ControlExplained'
  <2>1. how[p] = "skip" /\ p \notin Booked("recognise") /\ p \notin Booked("collect")
    <3>1. how[p] = "skip"
      BY <1>1, <1>2 DEF Committed, BooksTypeOK
    <3>2. QED
      BY <3>1 DEF Booked
  <2>2. /\ SumFunctionOnSet(amt', Booked("recognise")) = SumFunctionOnSet(amt, Booked("recognise"))
        /\ SumFunctionOnSet(amt', Booked("collect")) = SumFunctionOnSet(amt, Booked("collect"))
    <3>1. Booked("recognise") \in SUBSET Payment /\ Booked("collect") \in SUBSET Payment
      BY DEF Booked
    <3>2. QED
      BY <1>1, <1>2, <2>1, <3>1, AmountSame
  <2>3. /\ Amount(Booked("recognise"))' = Amount(Booked("recognise"))
        /\ Amount(Booked("collect"))' = Amount(Booked("collect"))
        /\ Times("credit")' = Times("credit")
    <3>1. Booked("recognise")' = Booked("recognise") /\ Booked("collect")' = Booked("collect")
      BY <1>2 DEF Booked
    <3>2. QED
      BY <1>2, <2>2, <3>1 DEF Amount, Times
  <2>4. QED
    BY <1>1, <1>2, <1>3, <1>4, <2>3, ControlTypes DEF ControlExplained
<1>12. QED
  BY <1>7, <1>8, <1>9, <1>10, <1>11 DEF BooksInv


\* A payment against the receivable draws the row and the account down alike.
LEMMA PayReceivableKeeps ==
  ASSUME BooksInv, NEW a \in 1 .. Total, PayReceivable(a)
  PROVE  BooksInv'
<1>1. /\ BooksTypeOK /\ RowInPlace /\ NoRow /\ Committed /\ SoldInPlace /\ OneEntryPerEvent
      /\ ControlExplained /\ \A w \in Worker : Planned(w)
  BY DEF BooksInv
<1>2. /\ row /\ a <= owed /\ owed' = owed - a
      /\ ledger' = Posted(ledger, "cash", "receivable", a)
      /\ UNCHANGED <<booking, sold, row, amt, paid, saleStatus, hasty, undone, staged, inbox,
                     stolen, entries, how, task, faults>>
  BY DEF PayReceivable, saleVars, eventVars
<1>3. owed' \in 0 .. Total /\ a \in Int
  BY <1>1, <1>2 DEF BooksTypeOK, BooksAssumption
<1>4. /\ ledger' \in [Account -> Int]
      /\ ledger'["receivable"] = ledger["receivable"] - a
  BY <1>1, <1>2, <1>3, PostedFacts DEF BooksTypeOK, Account
<1>5. BooksTypeOK'
  BY <1>1, <1>2, <1>3, <1>4 DEF BooksTypeOK
<1>6. /\ Committed' /\ RowInPlace' /\ NoRow' /\ OneEntryPerEvent' /\ SoldInPlace'
      /\ \A w \in Worker : Planned(w)'
  BY <1>1, <1>2 DEF Committed, RowInPlace, NoRow, OneEntryPerEvent, Planned, SoldInPlace
<1>7. ControlExplained'
  <2>1. /\ Amount(Booked("recognise"))' = Amount(Booked("recognise"))
        /\ Amount(Booked("collect"))' = Amount(Booked("collect"))
        /\ Times("credit")' = Times("credit")
    BY <1>2 DEF Amount, Booked, Times
  <2>2. QED
    BY <1>1, <1>2, <1>3, <1>4, <2>1, ControlTypes DEF ControlExplained
<1>8. QED
  BY <1>5, <1>6, <1>7 DEF BooksInv

\* A void or a return takes the total back from the account that the mirrored
\* journal had debited, and is counted with it.
LEMMA UndoKeeps ==
  ASSUME BooksInv, NEW k \in {"voided", "returned"}, Undo(k)
  PROVE  BooksInv'
<1>1. /\ BooksTypeOK /\ RowInPlace /\ NoRow /\ Committed /\ SoldInPlace /\ OneEntryPerEvent
      /\ ControlExplained /\ \A w \in Worker : Planned(w)
  BY DEF BooksInv
<1>2. /\ saleStatus' = k
      /\ UNCHANGED <<booking, sold, row, owed, amt, paid, hasty, staged, inbox, stolen,
                     entries, how, task, faults>>
  BY DEF Undo, eventVars
<1>3. PICK j \in {"credit", "cash", "nothing"} :
        /\ undone' = Append(undone, j)
        /\ ledger' = IF j = "nothing" THEN ledger ELSE Reversed(j)
  <2>1. CASE sold = <<>>
    BY <2>1 DEF Undo
  <2>2. CASE sold # <<>>
    <3>1. PICK i \in DOMAIN sold : ledger' = Reversed(sold[i]) /\ undone' = Append(undone, sold[i])
      BY <2>2 DEF Undo
    <3>2. sold[i] \in {"credit", "cash"}
      BY <1>1, <3>1 DEF BooksTypeOK
    <3>3. QED
      BY <3>1, <3>2
  <2>3. QED
    BY <2>1, <2>2
<1>4. /\ ledger' \in [Account -> Int]
      /\ ledger'["receivable"]
           = ledger["receivable"] - (IF j = "credit" THEN Total ELSE 0)
  <2>1. ledger \in [Account -> Int] /\ Total \in Int /\ ledger["receivable"] \in Int
    BY <1>1, ControlTypes DEF BooksTypeOK
  <2>2. "cash" \in Account /\ "receivable" \in Account /\ "revenue" \in Account
    BY DEF Account
  <2>3. CASE j = "credit"
    <3>1. ledger' = Posted(ledger, "revenue", "receivable", Total)
      BY <1>3, <2>3 DEF Reversed, Debited
    <3>2. QED
      BY <2>1, <2>2, <2>3, <3>1, PostedFacts
  <2>4. CASE j = "cash"
    <3>1. ledger' = Posted(ledger, "revenue", "cash", Total)
      BY <1>3, <2>4 DEF Reversed, Debited
    <3>2. ledger' = [ledger EXCEPT !["revenue"] = @ + Total, !["cash"] = @ - Total]
      BY <3>1 DEF Posted
    <3>3. QED
      BY <2>1, <2>2, <2>4, <3>2
  <2>5. CASE j = "nothing"
    BY <1>3, <2>1, <2>5
  <2>6. QED
    BY <2>3, <2>4, <2>5
<1>5. BooksTypeOK'
  <2>1. undone' \in Seq({"credit", "cash", "nothing"})
    BY <1>1, <1>3 DEF BooksTypeOK
  <2>2. QED
    BY <1>1, <1>2, <1>4, <2>1 DEF BooksTypeOK
<1>6. /\ Committed' /\ RowInPlace' /\ NoRow' /\ OneEntryPerEvent' /\ SoldInPlace'
      /\ \A w \in Worker : Planned(w)'
  BY <1>1, <1>2 DEF Committed, RowInPlace, NoRow, OneEntryPerEvent, Planned, SoldInPlace
<1>7. ControlExplained'
  <2>1. /\ Amount(Booked("recognise"))' = Amount(Booked("recognise"))
        /\ Amount(Booked("collect"))' = Amount(Booked("collect"))
    BY <1>2 DEF Amount, Booked
  <2>2. Times("credit")' = Times("credit") + (IF j = "credit" THEN 1 ELSE 0)
    <3>1. undone \in Seq({"credit", "cash", "nothing"})
      BY <1>1 DEF BooksTypeOK
    <3>2. Times("credit") \in Nat
      BY <1>1, ControlTypes
    <3>3. Times("credit") = Reversals(undone, "credit")
          /\ Times("credit")' = Reversals(Append(undone, j), "credit")
      BY <1>3 DEF Times, Reversals
    <3>4. QED
      BY <3>1, <3>2, <3>3, TimesMore
  <2>3. Total * Times("credit")'
          = Total * Times("credit") + (IF j = "credit" THEN Total ELSE 0)
    <3>1. Total \in Nat /\ Times("credit") \in Nat
      BY <1>1, ControlTypes
    <3>2. \A m, n \in Nat : m * (n + 1) = m * n + m
      OBVIOUS
    <3>3. QED
      BY <2>2, <3>1, <3>2
  <2>4. DEFINE c == IF j = "credit" THEN Total ELSE 0
  <2>5. c \in Int
    BY <1>1, ControlTypes
  <2>6. QED
    BY <1>1, <1>2, <1>4, <2>1, <2>3, <2>5, ControlTypes DEF ControlExplained
<1>8. QED
  BY <1>5, <1>6, <1>7 DEF BooksInv

-----------------------------------------------------------------------------
(* The consumers.                                                          *)

\* What only changes the tasks keeps the invariant, when each task has a plan
\* that its handler could have come to.
LEMMA TasksKeep ==
  ASSUME BooksInv,
         task' \in [Worker -> [event : {<<>>} \cup Event, plan : Plan]],
         \A w \in Worker : Planned(w)',
         booking = "posted" /\ ~hasty => \A w \in Worker : task'[w].plan # "cash",
         faults' \in 0 .. MaxFaults,
         UNCHANGED <<booking, sold, ledger, row, owed, saleVars, undone, staged, inbox,
                     stolen, entries, how>>
  PROVE  BooksInv'
<1>1. /\ BooksTypeOK /\ RowInPlace /\ NoRow /\ Committed /\ SoldInPlace /\ OneEntryPerEvent
      /\ ControlExplained
  BY DEF BooksInv
<1>2. BooksTypeOK'
  BY <1>1 DEF BooksTypeOK, saleVars
<1>3. RowInPlace' /\ NoRow' /\ Committed' /\ OneEntryPerEvent'
  BY <1>1 DEF RowInPlace, NoRow, Committed, OneEntryPerEvent, saleVars
<1>4. ControlExplained'
  BY <1>1 DEF ControlExplained, Amount, Booked, Times, saleVars
<1>5. SoldInPlace'
  BY <1>1 DEF SoldInPlace, saleVars
<1>6. QED
  BY <1>2, <1>3, <1>4, <1>5 DEF BooksInv

\* A handler plans from the ledger it reads: it books the sale itself only
\* when there is none, and then the request did not book it either.
LEMMA LookKeeps ==
  ASSUME BooksInv, NEW w \in Worker, NEW e \in staged, Look(w, e)
  PROVE  BooksInv'
<1>1. BooksTypeOK /\ SoldInPlace /\ \A v \in Worker : Planned(v)
  BY DEF BooksInv
<1>2. PICK k \in IF e[1] = "confirmed" THEN ConfirmPlan ELSE PaymentPlan(e[2]) :
        task' = [task EXCEPT ![w] = [event |-> e, plan |-> k]]
  BY DEF Look
<1>3. UNCHANGED <<booking, sold, ledger, row, owed, saleVars, undone, staged, inbox,
                  stolen, entries, how, faults>>
  BY DEF Look
<1>4. e \in Event /\ e[1] \in {"confirmed", "succeeded"} /\ e # <<>>
  BY <1>1 DEF BooksTypeOK, Event
<1>5. /\ e[1] = "confirmed" => k \in {"skip", "cash"} /\ (k = "cash" => sold = <<>>)
      /\ e[1] = "succeeded" => k \in {"skip", "recognise", "collect"}
  <2>1. CASE e[1] = "confirmed"
    BY <1>2, <2>1 DEF ConfirmPlan
  <2>2. CASE e[1] = "succeeded"
    BY <1>2, <2>2 DEF PaymentPlan
  <2>3. QED
    BY <2>1, <2>2
<1>6. k \in Plan
  BY <1>4, <1>5 DEF Plan
<1>7. \A v \in Worker : task'[v] = IF v = w THEN [event |-> e, plan |-> k] ELSE task[v]
  BY <1>1, <1>2 DEF BooksTypeOK
<1>8. task' \in [Worker -> [event : {<<>>} \cup Event, plan : Plan]]
  BY <1>1, <1>2, <1>4, <1>6 DEF BooksTypeOK
<1>9. ASSUME NEW v \in Worker PROVE Planned(v)'
  <2>1. CASE v = w
    <3>1. task'[v].event = e /\ task'[v].plan = k
      BY <1>7, <2>1
    <3>2. QED
      BY <1>3, <1>5, <3>1 DEF Planned
  <2>2. CASE v # w
    BY <1>1, <1>3, <1>7, <2>2 DEF Planned
  <2>3. QED
    BY <2>1, <2>2
<1>10. ASSUME booking = "posted", ~hasty, NEW v \in Worker PROVE task'[v].plan # "cash"
  <2>1. CASE v = w
    <3>1. k # "cash"
      BY <1>1, <1>4, <1>5, <1>10 DEF SoldInPlace
    <3>2. QED
      BY <1>7, <2>1, <3>1
  <2>2. CASE v # w
    BY <1>1, <1>7, <1>10, <2>2 DEF SoldInPlace
  <2>3. QED
    BY <2>1, <2>2
<1>11. faults' \in 0 .. MaxFaults
  BY <1>1, <1>3 DEF BooksTypeOK
<1>12. QED
  BY <1>3, <1>8, <1>9, <1>10, <1>11, TasksKeep

\* A consumer that drops its task, because the event was taken or it died.
LEMMA DropKeeps ==
  ASSUME BooksInv, NEW w \in Worker, Rollback(w) \/ Crash(w)
  PROVE  BooksInv'
<1>1. BooksTypeOK /\ SoldInPlace /\ \A v \in Worker : Planned(v)
  BY DEF BooksInv
<1>2. /\ task' = [task EXCEPT ![w] = Idle]
      /\ UNCHANGED <<booking, sold, ledger, row, owed, saleVars, undone, staged, inbox,
                     stolen, entries, how>>
  BY DEF Rollback, Crash
<1>3. faults' \in 0 .. MaxFaults
  <2>1. CASE Rollback(w)
    BY <1>1, <2>1 DEF Rollback, BooksTypeOK
  <2>2. CASE Crash(w)
    BY <1>1, <2>2 DEF Crash, BooksTypeOK, BooksAssumption
  <2>3. QED
    BY <2>1, <2>2
<1>4. \A v \in Worker : task'[v] = IF v = w THEN Idle ELSE task[v]
  BY <1>1, <1>2 DEF BooksTypeOK
<1>5. task' \in [Worker -> [event : {<<>>} \cup Event, plan : Plan]]
  BY <1>1, <1>2 DEF BooksTypeOK, Idle, Plan
<1>6. \A v \in Worker : Planned(v)'
  BY <1>1, <1>2, <1>4 DEF Planned
<1>7. booking = "posted" /\ ~hasty => \A v \in Worker : task'[v].plan # "cash"
  BY <1>1, <1>4 DEF SoldInPlace, Idle
<1>8. QED
  BY <1>2, <1>3, <1>5, <1>6, <1>7, TasksKeep


\* The journal a consumer posts changes account 1100 by the payment's amount,
\* for one of the plans of a payment, and not otherwise.
LEMMA JournalFacts ==
  ASSUME BooksTypeOK, NEW p \in Payment, NEW k \in Plan
  PROVE  /\ Journal(k, p) \in [Account -> Int]
         /\ Journal(k, p)["receivable"]
              = ledger["receivable"] + (IF k = "recognise" THEN amt[p] ELSE 0)
                                     - (IF k = "collect" THEN amt[p] ELSE 0)
<1>1. /\ ledger \in [Account -> Int] /\ Total \in Int /\ amt[p] \in Int
      /\ ledger["receivable"] \in Int
  BY DEF BooksTypeOK, BooksAssumption, Account
<1>2. "cash" \in Account /\ "receivable" \in Account /\ "revenue" \in Account
  BY DEF Account
<1>3. CASE k = "skip"
  BY <1>1, <1>3 DEF Journal
<1>4. CASE k = "cash"
  <2>1. Journal(k, p) = [ledger EXCEPT !["cash"] = @ + Total, !["revenue"] = @ - Total]
    BY <1>4 DEF Journal, Posted
  <2>2. QED
    BY <1>1, <1>2, <1>4, <2>1
<1>5. CASE k = "recognise"
  <2>1. Journal(k, p) = [ledger EXCEPT !["receivable"] = @ + amt[p], !["revenue"] = @ - amt[p]]
    BY <1>5 DEF Journal, Posted
  <2>2. QED
    BY <1>1, <1>2, <1>5, <2>1
<1>6. CASE k = "collect"
  <2>1. Journal(k, p) = [ledger EXCEPT !["cash"] = @ + amt[p], !["receivable"] = @ - amt[p]]
    BY <1>6 DEF Journal, Posted
  <2>2. QED
    BY <1>1, <1>2, <1>6, <2>1
<1>7. QED
  BY <1>3, <1>4, <1>5, <1>6 DEF Plan

\* The first commit of an event: nothing was booked for it, and what is booked
\* now is remembered for its payment.
LEMMA CommitKeeps ==
  ASSUME BooksInv, NEW w \in Worker, Commit(w)
  PROVE  BooksInv'
<1>1. /\ BooksTypeOK /\ RowInPlace /\ NoRow /\ Committed /\ SoldInPlace /\ OneEntryPerEvent
      /\ ControlExplained /\ \A v \in Worker : Planned(v)
  BY DEF BooksInv
<1> DEFINE e == task[w].event
           k == task[w].plan
<1>2. /\ task[w] # Idle /\ e \notin inbox
      /\ inbox' = inbox \cup {e}
      /\ ledger' = Journal(k, e[2])
      /\ sold' = IF k = "cash" THEN Append(sold, "cash") ELSE sold
      /\ how' = IF e[1] = "succeeded" THEN [how EXCEPT ![e[2]] = k] ELSE how
      /\ entries' = IF k = "skip" THEN entries ELSE [entries EXCEPT ![e] = @ + 1]
      /\ task' = [task EXCEPT ![w] = Idle]
      /\ UNCHANGED <<booking, row, owed, amt, paid, saleStatus, hasty, undone, staged, stolen,
                     faults>>
  BY DEF Commit, Taken, saleVars
<1>3. /\ e \in staged /\ e \in Event /\ k \in Plan
      /\ e[1] = "confirmed" => k \in {"skip", "cash"}
      /\ e[1] = "succeeded" => k \in {"skip", "recognise", "collect"}
  BY <1>1, <1>2 DEF Planned, BooksTypeOK
<1> HIDE DEF e, k
<1>4. e[1] \in {"succeeded", "confirmed"} /\ e[2] \in Payment /\ e = <<e[1], e[2]>>
  BY <1>3 DEF Event
<1>5. /\ ledger' \in [Account -> Int]
      /\ ledger'["receivable"]
           = ledger["receivable"] + (IF k = "recognise" THEN amt[e[2]] ELSE 0)
                                  - (IF k = "collect" THEN amt[e[2]] ELSE 0)
  BY <1>1, <1>2, <1>3, <1>4, JournalFacts
<1>6. \A v \in Worker : task'[v] = IF v = w THEN Idle ELSE task[v]
  BY <1>1, <1>2 DEF BooksTypeOK
<1>7. BooksTypeOK'
  <2>1. sold' \in Seq({"credit", "cash"})
    BY <1>1, <1>2 DEF BooksTypeOK
  <2>2. inbox' \subseteq staged' /\ stolen' \subseteq inbox' /\ staged' \subseteq Event
    BY <1>1, <1>2, <1>3 DEF BooksTypeOK
  <2>3. entries' \in [Event -> Nat]
    BY <1>1, <1>2, <1>3 DEF BooksTypeOK
  <2>4. how' \in [Payment -> Plan]
    BY <1>1, <1>2, <1>3 DEF BooksTypeOK
  <2>5. task' \in [Worker -> [event : {<<>>} \cup Event, plan : Plan]]
    BY <1>1, <1>2 DEF BooksTypeOK, Idle, Plan
  <2>6. QED
    BY <1>1, <1>2, <1>5, <2>1, <2>2, <2>3, <2>4, <2>5 DEF BooksTypeOK
<1>8. \A v \in Worker : Planned(v)'
  BY <1>1, <1>2, <1>6 DEF Planned
<1>9. entries[e] = 0 /\ (e[1] = "succeeded" => how[e[2]] = "skip")
  BY <1>1, <1>2, <1>3, <1>4 DEF Committed
<1>10. Committed' /\ OneEntryPerEvent'
  <2>1. \A d \in Event : entries'[d] = entries[d] \/ (d = e /\ entries'[d] = 1)
    BY <1>1, <1>2, <1>3, <1>9 DEF BooksTypeOK
  <2>2. \A p \in Payment : \/ how'[p] = how[p]
                           \/ e = <<"succeeded", p>> /\ how'[p] = k /\ k # "cash"
    BY <1>1, <1>2, <1>3, <1>4 DEF BooksTypeOK
  <2>3. e \in inbox'
    BY <1>2
  <2>4. OneEntryPerEvent'
    BY <1>1, <2>1 DEF OneEntryPerEvent
  <2>5. \A d \in Event \ inbox' : entries'[d] = 0
    BY <1>1, <1>2, <2>1, <2>3 DEF Committed
  <2>6. \A p \in Payment : how'[p] # "skip" => <<"succeeded", p>> \in inbox'
    BY <1>1, <1>2, <2>2, <2>3 DEF Committed
  <2>7. \A p \in Payment : how'[p] # "cash"
    BY <1>1, <2>2 DEF Committed
  <2>8. \A p \in Payment : <<"succeeded", p>> \in staged' => amt'[p] # 0
    BY <1>1, <1>2 DEF Committed
  <2>9. QED
    BY <2>4, <2>5, <2>6, <2>7, <2>8 DEF Committed
<1>11. RowInPlace' /\ NoRow'
  BY <1>1, <1>2 DEF RowInPlace, NoRow
<1>12. SoldInPlace'
  <2>1. sold \in Seq({"credit", "cash"}) /\ Len(sold) \in Nat
    BY <1>1 DEF BooksTypeOK
  <2>2. ASSUME booking # "posted" PROVE Len(sold') <= Cardinality(Confirmed(inbox'))
    <3>1. inbox \in SUBSET Event /\ inbox \in SUBSET inbox'/\ inbox' \in SUBSET Event
      BY <1>1, <1>2, <1>3 DEF BooksTypeOK
    <3>2. /\ Cardinality(Confirmed(inbox)) \in Nat /\ Cardinality(Confirmed(inbox')) \in Nat
          /\ Cardinality(Confirmed(inbox)) <= Cardinality(Confirmed(inbox'))
      BY <3>1, ConfirmedCount
    <3>3. Len(sold) <= Cardinality(Confirmed(inbox))
      BY <1>1, <2>2 DEF SoldInPlace
    <3>4. CASE k = "cash"
      <4>1. e[1] = "confirmed"
        BY <1>3, <1>4, <3>4
      <4>2. Cardinality(Confirmed(inbox')) = Cardinality(Confirmed(inbox)) + 1
        BY <1>2, <1>3, <3>1, <4>1, ConfirmedMore
      <4>3. Len(sold') = Len(sold) + 1
        BY <1>2, <2>1, <3>4
      <4>4. QED
        BY <2>1, <3>2, <3>3, <4>2, <4>3
    <3>5. CASE k # "cash"
      BY <1>2, <2>1, <3>2, <3>3, <3>5
    <3>6. QED
      BY <3>4, <3>5
  <2>3. ASSUME booking = "posted" PROVE sold' # <<>>
    BY <1>1, <1>2, <2>1, <2>3 DEF SoldInPlace
  <2>4. ASSUME booking = "posted", ~hasty
        PROVE  Len(sold') = 1 /\ \A v \in Worker : task'[v].plan # "cash"
    <3>1. Len(sold) = 1 /\ k # "cash" /\ \A v \in Worker : task[v].plan # "cash"
      BY <1>1, <2>4 DEF SoldInPlace, k
    <3>2. QED
      BY <1>2, <1>6, <3>1 DEF Idle
  <2>5. booking = "missing" /\ ~hasty => Confirmed(staged) = {}
    BY <1>1 DEF SoldInPlace
  <2>6. QED
    BY <1>2, <2>2, <2>3, <2>4, <2>5 DEF SoldInPlace
<1>13. ControlExplained'
  <2> DEFINE p == e[2]
             R == Booked("recognise")
             C == Booked("collect")
  <2>1. Times("credit")' = Times("credit")
    BY <1>2 DEF Times
  <2>2. /\ Amount(R)' = SumFunctionOnSet(amt, {q \in Payment : how'[q] = "recognise"})
        /\ Amount(C)' = SumFunctionOnSet(amt, {q \in Payment : how'[q] = "collect"})
        /\ Amount(R) = SumFunctionOnSet(amt, R) /\ Amount(C) = SumFunctionOnSet(amt, C)
    BY <1>2 DEF Amount, Booked
  <2>3. amt[p] \in Int
    BY <1>1, <1>4 DEF BooksTypeOK, BooksAssumption
  <2>4. ASSUME e[1] = "confirmed" PROVE ControlExplained'
    <3>1. k # "recognise" /\ k # "collect" /\ how' = how
      BY <1>2, <1>3, <2>4
    <3>2. Amount(R)' = Amount(R) /\ Amount(C)' = Amount(C)
      BY <2>2, <3>1 DEF Booked
    <3>3. ledger'["receivable"] = ledger["receivable"]
      BY <1>1, <1>5, <3>1, ControlTypes
    <3>4. QED
      BY <1>1, <1>2, <2>1, <3>2, <3>3 DEF ControlExplained
  <2>5. ASSUME e[1] = "succeeded" PROVE ControlExplained'
    <3>1. \A q \in Payment : how'[q] = IF q = p THEN k ELSE how[q]
      BY <1>1, <1>2, <1>4, <2>5 DEF BooksTypeOK
    <3>2. p \in Payment \ R /\ p \in Payment \ C /\ R \in SUBSET Payment /\ C \in SUBSET Payment
      BY <1>4, <1>9, <2>5 DEF Booked
    <3>3. {q \in Payment : how'[q] = "recognise"} = IF k = "recognise" THEN R \cup {p} ELSE R
      BY <1>4, <3>1, <3>2 DEF Booked
    <3>4. {q \in Payment : how'[q] = "collect"} = IF k = "collect" THEN C \cup {p} ELSE C
      BY <1>4, <3>1, <3>2 DEF Booked
    <3>5. /\ Amount(R \cup {p}) = Amount(R) + amt[p]
          /\ Amount(C \cup {p}) = Amount(C) + amt[p]
      <4> HIDE DEF p, R, C
      <4>1. QED
        BY <1>1, <3>2, AmountFacts
    <3>6. Amount(R)' = Amount(R) + (IF k = "recognise" THEN amt[p] ELSE 0)
      <4>1. Amount(R) \in Int
        BY <1>1, ControlTypes
      <4>2. SumFunctionOnSet(amt, R \cup {p}) = Amount(R \cup {p})
        BY DEF Amount
      <4> HIDE DEF p, R, C
      <4>3. QED
        <5>1. CASE k = "recognise"
          BY <2>2, <3>3, <3>5, <4>2, <5>1
        <5>2. CASE k # "recognise"
          <6>1. {q \in Payment : how'[q] = "recognise"} = R
            BY <3>3, <5>2
          <6>2. Amount(R)' = Amount(R)
            BY <2>2, <6>1
          <6>3. QED
            BY <4>1, <5>2, <6>2
        <5>3. QED
          BY <5>1, <5>2
    <3>7. Amount(C)' = Amount(C) + (IF k = "collect" THEN amt[p] ELSE 0)
      <4>1. Amount(C) \in Int
        BY <1>1, ControlTypes
      <4>2. SumFunctionOnSet(amt, C \cup {p}) = Amount(C \cup {p})
        BY DEF Amount
      <4> HIDE DEF p, R, C
      <4>3. QED
        <5>1. CASE k = "collect"
          BY <2>2, <3>4, <3>5, <4>2, <5>1
        <5>2. CASE k # "collect"
          <6>1. {q \in Payment : how'[q] = "collect"} = C
            BY <3>4, <5>2
          <6>2. Amount(C)' = Amount(C)
            BY <2>2, <6>1
          <6>3. QED
            BY <4>1, <5>2, <6>2
        <5>3. QED
          BY <5>1, <5>2
    <3>8. /\ ledger["receivable"] - owed = Amount(R) - Amount(C) - Total * Times("credit")
          /\ Amount(R) \in Int /\ Amount(C) \in Int /\ owed \in Int
          /\ ledger["receivable"] \in Int /\ Total * Times("credit") \in Int
      BY <1>1, ControlTypes DEF ControlExplained
    <3>9. owed' = owed /\ Total * Times("credit")' = Total * Times("credit")
      BY <1>2, <2>1
    <3>10. ledger'["receivable"] - owed' = Amount(R)' - Amount(C)' - Total * Times("credit")'
      <4> HIDE DEF p, R, C
      <4>1. CASE k = "recognise"
        BY <1>5, <2>3, <3>6, <3>7, <3>8, <3>9, <4>1 DEF p
      <4>2. CASE k = "collect"
        BY <1>5, <2>3, <3>6, <3>7, <3>8, <3>9, <4>2 DEF p
      <4>3. CASE k # "recognise" /\ k # "collect"
        BY <1>5, <2>3, <3>6, <3>7, <3>8, <3>9, <4>3 DEF p
      <4>4. QED
        BY <4>1, <4>2, <4>3
    <3>11. QED
      BY <3>10 DEF ControlExplained
  <2>6. QED
    BY <1>4, <2>4, <2>5
<1>14. QED
  BY <1>7, <1>8, <1>10, <1>11, <1>12, <1>13 DEF BooksInv

\* Another service takes the event: it is committed, and nothing is booked.
LEMMA ElsewhereKeeps ==
  ASSUME BooksInv, NEW e \in staged, Elsewhere(e)
  PROVE  BooksInv'
<1>1. /\ BooksTypeOK /\ RowInPlace /\ NoRow /\ Committed /\ SoldInPlace /\ OneEntryPerEvent
      /\ ControlExplained /\ \A w \in Worker : Planned(w)
  BY DEF BooksInv
<1>2. /\ inbox' = inbox \cup {e} /\ stolen' = stolen \cup {e}
      /\ UNCHANGED <<booking, sold, ledger, row, owed, amt, paid, saleStatus, hasty, undone,
                     staged, entries, how, task, faults>>
  BY DEF Elsewhere, saleVars
<1>3. BooksTypeOK'
  BY <1>1, <1>2 DEF BooksTypeOK
<1>4. /\ RowInPlace' /\ NoRow' /\ Committed' /\ OneEntryPerEvent'
      /\ \A w \in Worker : Planned(w)'
  BY <1>1, <1>2 DEF RowInPlace, NoRow, Committed, OneEntryPerEvent, Planned
<1>5. SoldInPlace'
  <2>1. inbox \in SUBSET inbox' /\ inbox' \in SUBSET Event
    BY <1>1, <1>2 DEF BooksTypeOK
  <2>2. /\ Cardinality(Confirmed(inbox)) \in Nat /\ Cardinality(Confirmed(inbox')) \in Nat
        /\ Cardinality(Confirmed(inbox)) <= Cardinality(Confirmed(inbox'))
    BY <2>1, ConfirmedCount
  <2>3. Len(sold) \in Nat
    BY <1>1 DEF BooksTypeOK
  <2>4. booking # "posted" => Len(sold) <= Cardinality(Confirmed(inbox'))
    BY <1>1, <2>2, <2>3 DEF SoldInPlace
  <2>5. QED
    BY <1>1, <1>2, <2>4 DEF SoldInPlace
<1>6. ControlExplained'
  BY <1>1, <1>2 DEF ControlExplained, Amount, Booked, Times
<1>7. QED
  BY <1>3, <1>4, <1>5, <1>6 DEF BooksInv

-----------------------------------------------------------------------------
(* The theorems.                                                           *)

\* Every step keeps the invariant.
LEMMA BooksStep ==
  ASSUME BooksInv, [BooksNext]_booksVars
  PROVE  BooksInv'
<1>1. CASE Book
  BY <1>1, BookKeeps
<1>2. CASE LoseBooks
  BY <1>2, LoseBooksKeeps
<1>3. CASE \E a \in 1 .. Total : PayReceivable(a) \/ \E p \in Payment : Pay(p, a)
  BY <1>3, PayReceivableKeeps, PayKeeps
<1>4. CASE \E k \in {"voided", "returned"} : Undo(k)
  BY <1>4, UndoKeeps
<1>5. CASE \E w \in Worker : Consume(w) \/ Crash(w)
  BY <1>5, LookKeeps, CommitKeeps, DropKeeps DEF Consume
<1>6. CASE \E e \in staged : Elsewhere(e)
  BY <1>6, ElsewhereKeeps
<1>7. CASE UNCHANGED booksVars
  <2>1. UNCHANGED <<booking, sold, ledger, row, owed, amt, paid, saleStatus, undone, hasty,
                    staged, inbox, stolen, entries, how, task, faults>>
    BY <1>7 DEF booksVars
  <2>2. BooksTypeOK /\ SoldInPlace /\ \A w \in Worker : Planned(w)
    BY DEF BooksInv
  <2>3. QED
    BY <2>1, <2>2, TasksKeep DEF BooksTypeOK, SoldInPlace, Planned, saleVars
<1>8. QED
  BY <1>1, <1>2, <1>3, <1>4, <1>5, <1>6, <1>7 DEF BooksNext

\* The invariant of the books holds of every behaviour of one sale.
THEOREM BooksInvariantHolds == BooksSpec => []BooksInv
<1>1. BooksInit => BooksInv
  BY BooksStart
<1>2. BooksInv /\ [BooksNext]_booksVars => BooksInv'
  BY BooksStep
<1>3. QED
  BY <1>1, <1>2, PTL DEF BooksSpec

\* The kinds of values, for any payments, consumers and total: the receivable
\* stays between nothing and the total, and no payment is more than that.
THEOREM BooksTypeCorrect == BooksSpec => []BooksTypeOK
<1>1. BooksInv => BooksTypeOK
  BY DEF BooksInv
<1>2. QED
  BY <1>1, BooksInvariantHolds, PTL

\* However often an event is delivered and whichever consumers hold it, the
\* accounting service books it once.
THEOREM BooksOneEntryHolds == BooksSpec => []OneEntryPerEvent
<1>1. BooksInv => OneEntryPerEvent
  BY DEF BooksInv
<1>2. QED
  BY <1>1, BooksInvariantHolds, PTL

\* Account 1100 and the receivable's row differ by exactly what the consumers
\* booked for payments and what voids and returns took back.
THEOREM BooksControlHolds == BooksSpec => []ControlExplained
<1>1. BooksInv => ControlExplained
  BY DEF BooksInv
<1>2. QED
  BY <1>1, BooksInvariantHolds, PTL

\* A sale is booked once, unless it was completed before its request booked it,
\* or was confirmed twice.
THEOREM BooksSaleOnceHolds == BooksSpec => []SaleBookedOnce
<1>1. ASSUME BooksInv PROVE SaleBookedOnce
  <2>1. BooksTypeOK /\ SoldInPlace
    BY <1>1 DEF BooksInv
  <2>2. inbox \in SUBSET staged /\ staged \in SUBSET Event /\ Len(sold) \in Nat
    BY <2>1 DEF BooksTypeOK
  <2>3. /\ Cardinality(Confirmed(inbox)) \in Nat /\ Cardinality(Confirmed(staged)) \in Nat
        /\ Cardinality(Confirmed(inbox)) <= Cardinality(Confirmed(staged))
    BY <2>2, ConfirmedCount
  <2>4. ASSUME Len(sold) > 1, ~hasty PROVE Cardinality(Confirmed(staged)) > 1
    <3>1. booking # "posted"
      <4>1. Len(sold) # 1
        <5>1. \A n \in Nat : n > 1 => n # 1
          OBVIOUS
        <5>2. QED
          BY <2>2, <2>4, <5>1
      <4>2. booking = "posted" /\ ~hasty => Len(sold) = 1
        BY <2>1 DEF SoldInPlace
      <4>3. QED
        BY <2>4, <4>1, <4>2
    <3>2. Len(sold) <= Cardinality(Confirmed(inbox))
      BY <2>1, <3>1 DEF SoldInPlace
    <3>3. QED
      BY <2>2, <2>3, <2>4, <3>2
  <2>5. QED
    BY <2>4 DEF SaleBookedOnce, Confirmed
<1>2. BooksInv => SaleBookedOnce
  BY <1>1
<1>3. QED
  BY <1>2, BooksInvariantHolds, PTL
=============================================================================
