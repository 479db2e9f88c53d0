-------------------------------- MODULE Stock --------------------------------
(***************************************************************************)
(* The stock of one product in a warehouse and a shop. Every operation is  *)
(* one session: it reads a document or a balance after the other, plans    *)
(* the new absolute quantities from what it read, and writes them in one   *)
(* commit. No reading takes a lock and no write compares a version, and    *)
(* nothing makes the balance of a product in a store unique, so two first  *)
(* deliveries can insert two rows, which no later reading accepts.         *)
(*                                                                         *)
(* Sources: common/bridge.py (adjust_stock, transfer_stock, the transfer   *)
(* requests, the distributions, checkout_cart), inventory/service.py (the  *)
(* planners), inventory/repository.py, common/services.py (restocking).    *)
(***************************************************************************)
EXTENDS Integers, Sequences, FiniteSets, Functions

CONSTANTS
  Op,         \* sessions that operate at the same time
  Warehouse,  \* the store that supplies
  Shop,       \* the store that is supplied
  Supply,     \* units in the warehouse at first
  MaxQty,     \* bound on the units of one request or distribution
  Lot,        \* units of one adjustment, transfer or sale
  MaxOps      \* bound on the operations

ASSUME StockAssumption ==
  /\ IsFiniteSet(Op)
  /\ Warehouse # Shop
  /\ Warehouse \notin {"request", "distribution", "check"}
  /\ Shop \notin {"request", "distribution", "check"}
  /\ Supply \in Nat
  /\ MaxQty \in Nat \ {0}
  /\ Lot \subseteq 1 .. MaxQty
  /\ MaxOps \in Nat

VARIABLES
  bal,      \* the rows of stock_balances of each store, in order of insertion
  moved,    \* what stock_movements adds up to, per store
  deducted, \* what sales took from the balance, per store
  sold,     \* units sold and not brought back, per store
  short,    \* units sold that no balance was charged for
  added,    \* units that adjustments brought in
  request,  \* the transfer request: [status, asked, approved]
  dist,     \* the distribution: [status, n]
  broken,   \* units recorded as damaged
  missing,  \* units of a received distribution that nobody recorded
  dropped,  \* units brought back to a store without a balance
  unasked,  \* some sale was not checked against the stock
  repeated, \* a line of the distribution was entered twice
  raced,    \* some operation wrote over what another had read
  job, todo, read, heard, seen, stale, ops

stockVars == <<bal, moved, deducted, sold, short, added>>
docVars   == <<request, dist>>
tallyVars == <<broken, missing, dropped, unasked, repeated>>
opVars    == <<job, todo, read, heard, seen, stale>>
vars == <<bal, moved, deducted, sold, short, added, request, dist,
          broken, missing, dropped, unasked, repeated, raced, job, todo, read,
          heard, seen, stale, ops>>

Store == {Warehouse, Shop}
Doc   == {"request", "distribution"}
Qty   == 1 .. MaxQty
Kind  == {"none", "adjust", "transfer", "ask", "approve", "reject", "fulfil",
          "dispatch", "receive", "cancel", "sell", "deduct", "restock"}
RequestStatus == {"none", "pending", "approved", "rejected", "fulfilled"}
DistStatus    == {"none", "in_transit", "received", "cancelled"}

Request == [status : RequestStatus, asked : 0 .. MaxQty, approved : 0 .. MaxQty]
Dist    == [status : DistStatus, n : 0 .. MaxQty]

NoRequest == [status |-> "none", asked |-> 0, approved |-> 0]
NoDist    == [status |-> "none", n |-> 0]
Idle      == [kind |-> "none", src |-> Warehouse, dst |-> Shop, n |-> 0]
Deaf      == [request |-> NoRequest, distribution |-> NoDist]
Blind     == [s \in Store |-> <<>>]

Larger(a, b) == IF a > b THEN a ELSE b

\* Every balance of a store together.
Tally(q)  == SumFunctionOnSet(q, DOMAIN q)
Units(s)  == Tally(bal[s])
InTransit == IF dist.status = "in_transit" THEN dist.n ELSE 0

Init ==
  /\ bal \in {[s \in Store |-> IF s = Warehouse THEN <<Supply>> ELSE b] :
                 b \in {<<>>, <<0>>}}
  /\ moved = [s \in Store |-> 0] /\ deducted = [s \in Store |-> 0]
  /\ sold = [s \in Store |-> 0] /\ short = 0 /\ added = 0
  /\ request = NoRequest /\ dist = NoDist
  /\ broken = 0 /\ missing = 0 /\ dropped = 0
  /\ unasked = FALSE /\ repeated = FALSE /\ raced = FALSE
  /\ job = [w \in Op |-> Idle]
  /\ todo = [w \in Op |-> <<>>]
  /\ read = [w \in Op |-> Blind]
  /\ heard = [w \in Op |-> Deaf]
  /\ seen = [w \in Op |-> {}]
  /\ stale = [w \in Op |-> FALSE]
  /\ ops = 0

-----------------------------------------------------------------------------
(* The arrival of an operation, and what it will read, in order.           *)

Begin(w, k, s, t, n, list) ==
  /\ job[w] = Idle /\ ops < MaxOps
  /\ job' = [job EXCEPT ![w] = [kind |-> k, src |-> s, dst |-> t, n |-> n]]
  /\ todo' = [todo EXCEPT ![w] = list]
  /\ ops' = ops + 1
  /\ UNCHANGED <<bal, moved, deducted, added, docVars, broken, missing,
                 dropped, repeated, raced, read, heard, seen, stale>>

Start(w) ==
  /\ \/ \E s \in Store, n \in Lot : Begin(w, "adjust", s, s, n, <<s>>)
     \/ \E s, t \in Store, n \in Lot :
          s # t /\ Begin(w, "transfer", s, t, n, <<s, t>>)
     \/ \E n \in Qty : request = NoRequest /\ Begin(w, "ask", Warehouse, Shop, n, <<>>)
     \/ \E n \in Qty : Begin(w, "approve", Warehouse, Shop, n, <<"request", Warehouse>>)
     \/ Begin(w, "reject", Warehouse, Shop, 1, <<"request">>)
     \/ Begin(w, "fulfil", Warehouse, Shop, 1, <<"request", Warehouse, Shop>>)
     \/ \E n \in Qty : dist = NoDist
          /\ Begin(w, "dispatch", Warehouse, Shop, n, <<Warehouse>>)
     \/ Begin(w, "receive", Warehouse, Shop, 1, <<"distribution", Shop>>)
     \/ Begin(w, "cancel", Warehouse, Shop, 1, <<"distribution", Warehouse>>)
     \* The balance is checked in a session of its own, then read again.
     \/ \E s \in Store, n \in Lot : Begin(w, "sell", s, s, n, <<"check", s>>)
  /\ UNCHANGED <<sold, short, unasked>>

\* A cart stored item by item commits its sale first and deducts the stock in
\* a session of its own, without a check.
SellStored(w) == \E s \in Store, n \in Lot :
  /\ Begin(w, "deduct", s, s, n, <<s>>)
  /\ sold' = [sold EXCEPT ![s] = @ + n]
  /\ short' = short + n
  /\ unasked' = TRUE

\* A void or a return brings goods back. Two of the same sale at once are the
\* subject of SaleLedger.
BringBack(w) == \E s \in Store, n \in Lot :
  /\ n <= sold[s]
  /\ \A v \in Op : job[v].kind # "restock" \/ job[v].src # s
  /\ Begin(w, "restock", s, s, n, <<s>>)
  /\ UNCHANGED <<sold, short, unasked>>

-----------------------------------------------------------------------------
(* One reading.                                                            *)

Look(w, x) ==
  /\ todo[w] # <<>> /\ Head(todo[w]) = x
  /\ todo' = [todo EXCEPT ![w] = Tail(@)]
  /\ UNCHANGED <<stockVars, docVars, tallyVars, raced, job, stale, ops>>

\* scalar_one_or_none raises on a second row.
LookBalance(w, s) ==
  /\ Look(w, s)
  /\ Len(bal[s]) <= 1
  /\ read' = [read EXCEPT ![w][s] = bal[s]]
  /\ seen' = [seen EXCEPT ![w] = @ \cup {s}]
  /\ UNCHANGED heard

LookRequest(w) ==
  /\ Look(w, "request")
  /\ heard' = [heard EXCEPT ![w].request = request]
  /\ seen' = [seen EXCEPT ![w] = @ \cup {"request"}]
  /\ UNCHANGED read

LookDistribution(w) ==
  /\ Look(w, "distribution")
  /\ heard' = [heard EXCEPT ![w].distribution = dist]
  /\ seen' = [seen EXCEPT ![w] = @ \cup {"distribution"}]
  /\ UNCHANGED read

CheckStock(w) ==
  /\ Look(w, "check")
  /\ bal[job[w].src] # <<>> /\ job[w].n <= Units(job[w].src)
  /\ seen' = [seen EXCEPT ![w] = @ \cup {job[w].src}]
  /\ UNCHANGED <<read, heard>>

-----------------------------------------------------------------------------
(* The end of an operation.                                                *)

Leave(w) ==
  /\ job' = [job EXCEPT ![w] = Idle]
  /\ todo' = [todo EXCEPT ![w] = <<>>]
  /\ read' = [read EXCEPT ![w] = Blind]
  /\ heard' = [heard EXCEPT ![w] = Deaf]
  /\ seen' = [seen EXCEPT ![w] = {}]
  /\ UNCHANGED ops

\* Refused by a check of what it read, or failed: the session rolls back.
Abort(w) ==
  /\ job[w] # Idle
  /\ Leave(w)
  /\ stale' = [stale EXCEPT ![w] = FALSE]
  /\ UNCHANGED <<stockVars, docVars, tallyVars, raced>>

\* The commit of an operation that wrote the things in W: whoever has read one
\* of them now holds an old reading.
Commit(w, k, W) ==
  /\ job[w].kind = k /\ todo[w] = <<>>
  /\ Leave(w)
  /\ stale' = [v \in Op |-> v # w /\ (stale[v] \/ seen[v] \cap W # {})]
  /\ raced' = (raced \/ stale[w])

Held(w, s) == IF read[w][s] = <<>> THEN 0 ELSE read[w][s][1]

\* Writing into the row that was read; an unchanged quantity is not written.
Overwrite(w, s, q) == IF q = Held(w, s) THEN bal[s] ELSE [bal[s] EXCEPT ![1] = q]

\* What the store's rows become when the operation writes quantity q:
\* upsert_stock_balance selects the row again, writes into the one it finds and
\* inserts when it finds none; an insert not yet committed is not found.
Upsert(w, s, q) ==
  IF read[w][s] # <<>>
  THEN IF Len(bal[s]) = 1 THEN {Overwrite(w, s, q)} ELSE {}
  ELSE {Append(bal[s], q)} \cup (IF Len(bal[s]) = 1 THEN {<<q>>} ELSE {})

\* Mutation of Covered: the units asked for are not compared.
CoveredByAny(w, s, n) == read[w][s] # <<>>

Covered(w, s, n) == read[w][s] # <<>> /\ n <= read[w][s][1]

Record(s, n) == moved' = [moved EXCEPT ![s] = @ + n]

-----------------------------------------------------------------------------
(* Adjustments and transfers.                                              *)

Adjust(w) ==
  LET s == job[w].src  n == job[w].n IN
  /\ Commit(w, "adjust", {s})
  /\ \E b \in Upsert(w, s, Held(w, s) + n) : bal' = [bal EXCEPT ![s] = b]
  /\ Record(s, n)
  /\ added' = added + n
  /\ UNCHANGED <<deducted, sold, short, docVars, tallyVars>>

\* n units from s to t, on both balances and in both movements.
Move(w, s, t, n) ==
  /\ Covered(w, s, n)
  /\ \E b \in Upsert(w, s, Held(w, s) - n), c \in Upsert(w, t, Held(w, t) + n) :
        bal' = [bal EXCEPT ![s] = b, ![t] = c]
  /\ moved' = [moved EXCEPT ![s] = @ - n, ![t] = @ + n]
  /\ UNCHANGED <<deducted, sold, short, added, tallyVars>>

Transfer(w) ==
  /\ Commit(w, "transfer", {job[w].src, job[w].dst})
  /\ Move(w, job[w].src, job[w].dst, job[w].n)
  /\ UNCHANGED docVars

-----------------------------------------------------------------------------
(* The transfer request.                                                   *)

Ask(w) ==
  /\ Commit(w, "ask", {"request"})
  /\ request = NoRequest
  /\ request' = [status |-> "pending", asked |-> job[w].n, approved |-> 0]
  /\ UNCHANGED <<stockVars, tallyVars, dist>>

\* Mutation of Approve: the status is not looked at.
ApproveAnything(w) ==
  /\ Commit(w, "approve", {"request"})
  /\ heard[w].request # NoRequest
  /\ job[w].n <= heard[w].request.asked
  /\ Covered(w, Warehouse, job[w].n)
  /\ request' = [request EXCEPT !.status = "approved", !.approved = job[w].n]
  /\ UNCHANGED <<stockVars, tallyVars, dist>>

Approve(w) ==
  /\ Commit(w, "approve", {"request"})
  /\ heard[w].request.status = "pending"
  /\ job[w].n <= heard[w].request.asked
  /\ Covered(w, Warehouse, job[w].n)
  /\ request' = [request EXCEPT !.status = "approved", !.approved = job[w].n]
  /\ UNCHANGED <<stockVars, tallyVars, dist>>

Reject(w) ==
  /\ Commit(w, "reject", {"request"})
  /\ heard[w].request.status = "pending"
  /\ request' = [request EXCEPT !.status = "rejected"]
  /\ UNCHANGED <<stockVars, tallyVars, dist>>

MayFulfil(r) == r.status = "approved"

Fulfil(w) ==
  LET r == heard[w].request IN
  /\ Commit(w, "fulfil", {"request", Warehouse, Shop})
  /\ MayFulfil(r)
  /\ Move(w, Warehouse, Shop, r.approved)
  /\ request' = [request EXCEPT !.status = "fulfilled"]
  /\ UNCHANGED dist

-----------------------------------------------------------------------------
(* The distribution.                                                       *)

Dispatch(w) ==
  LET n == job[w].n IN
  /\ Commit(w, "dispatch", {"distribution", Warehouse})
  /\ dist = NoDist
  /\ Covered(w, Warehouse, n)
  /\ \E b \in Upsert(w, Warehouse, Held(w, Warehouse) - n) :
        bal' = [bal EXCEPT ![Warehouse] = b]
  /\ Record(Warehouse, -n)
  /\ dist' = [status |-> "in_transit", n |-> n]
  /\ UNCHANGED <<deducted, sold, short, added, request, tallyVars>>

\* A line of the receipt may not exceed what was dispatched, and nothing keeps
\* a line from being there twice.
Line  == {l \in [good : 0 .. MaxQty, bad : 0 .. MaxQty] : l.good + l.bad <= dist.n}
Lines == {<<l>> : l \in Line} \cup {<<k, l>> : k, l \in Line}
Good(lines) == Tally([i \in DOMAIN lines |-> lines[i].good])
Bad(lines)  == Tally([i \in DOMAIN lines |-> lines[i].bad])

Receive(w) == \E lines \in Lines :
  /\ Commit(w, "receive", {"distribution", Shop})
  /\ heard[w].distribution.status = "in_transit"
  /\ \E b \in Upsert(w, Shop, Held(w, Shop) + Good(lines)) :
        bal' = [bal EXCEPT ![Shop] = b]
  /\ Record(Shop, Good(lines))
  /\ dist' = [dist EXCEPT !.status = "received"]
  /\ broken' = broken + Bad(lines)
  /\ missing' = missing + Larger(dist.n - Good(lines) - Bad(lines), 0)
  /\ repeated' = (repeated \/ Len(lines) = 2)
  /\ UNCHANGED <<deducted, sold, short, added, request, dropped, unasked>>

\* Mutation of Cancel: the status is not looked at.
CancelAnything(w) ==
  /\ Commit(w, "cancel", {"distribution", Warehouse})
  /\ heard[w].distribution # NoDist
  /\ read[w][Warehouse] # <<>>
  /\ \E b \in Upsert(w, Warehouse, Held(w, Warehouse) + dist.n) :
        bal' = [bal EXCEPT ![Warehouse] = b]
  /\ Record(Warehouse, dist.n)
  /\ dist' = [dist EXCEPT !.status = "cancelled"]
  /\ UNCHANGED <<deducted, sold, short, added, request, tallyVars>>

Cancel(w) ==
  /\ Commit(w, "cancel", {"distribution", Warehouse})
  /\ heard[w].distribution.status = "in_transit"
  /\ read[w][Warehouse] # <<>>
  /\ \E b \in Upsert(w, Warehouse, Held(w, Warehouse) + dist.n) :
        bal' = [bal EXCEPT ![Warehouse] = b]
  /\ Record(Warehouse, dist.n)
  /\ dist' = [dist EXCEPT !.status = "cancelled"]
  /\ UNCHANGED <<deducted, sold, short, added, request, tallyVars>>

-----------------------------------------------------------------------------
(* Sales.                                                                  *)

\* What a sale of n units finds in the store, n at most.
Taken(w) == Held(w, job[w].src) - Larger(Held(w, job[w].src) - job[w].n, 0)

\* Never below zero; a store without a balance gets an empty one.
Deducted(w) ==
  bal' = [bal EXCEPT ![job[w].src] =
            IF read[w][job[w].src] = <<>>
            THEN Append(@, 0)
            ELSE Overwrite(w, job[w].src, Held(w, job[w].src) - Taken(w))]

\* The sale and the deduction in one commit; no movement is written.
Sell(w) ==
  /\ Commit(w, "sell", {job[w].src})
  /\ Deducted(w)
  /\ deducted' = [deducted EXCEPT ![job[w].src] = @ + Taken(w)]
  /\ sold' = [sold EXCEPT ![job[w].src] = @ + job[w].n]
  /\ short' = short + job[w].n - Taken(w)
  /\ UNCHANGED <<moved, added, docVars, tallyVars>>

\* The deduction after the sale.
Deduct(w) ==
  /\ Commit(w, "deduct", {job[w].src})
  /\ Deducted(w)
  /\ deducted' = [deducted EXCEPT ![job[w].src] = @ + Taken(w)]
  /\ short' = short - Taken(w)
  /\ UNCHANGED <<moved, sold, added, docVars, tallyVars>>

\* Mutation of Restock: the movement is forgotten.
RestockUnlogged(w) ==
  LET s == job[w].src  n == job[w].n IN
  /\ Commit(w, "restock", {s})
  /\ sold' = [sold EXCEPT ![s] = @ - n]
  /\ \/ /\ read[w][s] # <<>>
        /\ bal' = [bal EXCEPT ![s] = Overwrite(w, s, Held(w, s) + n)]
        /\ UNCHANGED <<moved, dropped>>
     \/ /\ read[w][s] = <<>>
        /\ dropped' = dropped + n
        /\ UNCHANGED <<bal, moved>>
  /\ UNCHANGED <<deducted, short, added, docVars, broken, missing, unasked, repeated>>

\* A store without a balance is passed over.
Restock(w) ==
  LET s == job[w].src  n == job[w].n IN
  /\ Commit(w, "restock", {s})
  /\ sold' = [sold EXCEPT ![s] = @ - n]
  /\ \/ /\ read[w][s] # <<>>
        /\ bal' = [bal EXCEPT ![s] = Overwrite(w, s, Held(w, s) + n)]
        /\ Record(s, n)
        /\ UNCHANGED dropped
     \/ /\ read[w][s] = <<>>
        /\ dropped' = dropped + n
        /\ UNCHANGED <<bal, moved>>
  /\ UNCHANGED <<deducted, short, added, docVars, broken, missing, unasked, repeated>>

Next == \E w \in Op :
  \/ Start(w) \/ SellStored(w) \/ BringBack(w)
  \/ \E s \in Store : LookBalance(w, s)
  \/ LookRequest(w) \/ LookDistribution(w) \/ CheckStock(w)
  \/ Abort(w)
  \/ Adjust(w) \/ Transfer(w)
  \/ Ask(w) \/ Approve(w) \/ Reject(w) \/ Fulfil(w)
  \/ Dispatch(w) \/ Receive(w) \/ Cancel(w)
  \/ Sell(w) \/ Deduct(w) \/ Restock(w)

Spec == Init /\ [][Next]_vars

-----------------------------------------------------------------------------
(* What holds of the stock.                                                *)

\* The kinds of values; a request or a distribution has a quantity once it
\* exists.
TypeOK ==
  /\ bal \in [Store -> Seq(Int)]
  /\ moved \in [Store -> Int] /\ deducted \in [Store -> Nat]
  /\ sold \in [Store -> Nat] /\ short \in Int /\ added \in Nat
  /\ request \in Request /\ dist \in Dist
  /\ broken \in Nat /\ missing \in Nat /\ dropped \in Nat
  /\ unasked \in BOOLEAN /\ repeated \in BOOLEAN /\ raced \in BOOLEAN
  /\ job \in [Op -> [kind : Kind, src : Store, dst : Store, n : 0 .. MaxQty]]
  /\ todo \in [Op -> Seq(Store \cup Doc \cup {"check"})]
  /\ read \in [Op -> [Store -> Seq(Int)]]
  /\ heard \in [Op -> [request : Request, distribution : Dist]]
  /\ seen \in [Op -> SUBSET (Store \cup Doc)]
  /\ stale \in [Op -> BOOLEAN]
  /\ ops \in 0 .. MaxOps

\* However the operations interleave, no balance goes below zero: the quantity
\* that is written is the one that was checked (inventory/service.py, the
\* planners), or the sale's max(qty - n, 0).
NonNegative == \A s \in Store : \A i \in DOMAIN bal[s] : bal[s][i] >= 0

\* Unless two operations raced or a receipt repeated a line, units are neither
\* made nor lost between the stores, the road, the customers and the losses
\* (bridge.py, transfer_stock, the distributions, checkout_cart, void_sale),
\* and a sale that was checked finds every unit it sells.
UnitsConserved ==
  /\ ~raced /\ ~repeated =>
       Units(Warehouse) + Units(Shop) + InTransit + sold[Warehouse] + sold[Shop]
         + broken + missing + dropped
         = Supply + added + short
  /\ ~raced /\ ~unasked => short = 0

\* Unless two operations raced, a product has one balance in a store, which
\* scalar_one_or_none needs (inventory/repository.py), and it is what the store
\* began with, its movements and what its sales took (bridge.py,
\* _record_movement at every operation but a sale).
BalanceExplained ==
  ~raced => \A s \in Store :
    /\ Len(bal[s]) <= 1
    /\ Units(s) = (IF s = Warehouse THEN Supply ELSE 0) + moved[s] - deducted[s]

\* What Inventory sees of the rows and the tallies.
Serial == INSTANCE Inventory WITH
  qty     <- [s \in Store |-> Units(s)],
  stocked <- {s \in Store : bal[s] # <<>>},
  lost    <- broken + missing + dropped,
  loose   <- raced \/ repeated

\* The sessions implement Inventory: unless two of them raced or a receipt repeated
\* a line, each commit does to the stock, the request and the distribution of that
\* moment what its operation would have done alone, although it was planned from
\* what the session had read before (bridge.py, adjust_stock to checkout_cart:
\* read, plan in inventory/service.py, write the planned quantity).
ImplementsInventory == Serial!Spec
=============================================================================
