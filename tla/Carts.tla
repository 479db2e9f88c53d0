-------------------------------- MODULE Carts --------------------------------
(***************************************************************************)
(* One cart from its first line to its sale. An operation reads the cart   *)
(* and its lines, plans from what it read and commits; a supervised        *)
(* removal then writes its audit entry in a commit of its own, and the     *)
(* checkout of a stored cart takes four commits after its coupon's. No     *)
(* reading takes a lock, and an update is written only if it changes the   *)
(* value that was read.                                                    *)
(*                                                                         *)
(* Sources: common/bridge.py (add_to_cart, remove_cart_item,               *)
(* void_cart_item, clear_cart, checkout_cart, the coupons),                *)
(* cart/repository.py, worker/tasks.py (task_cleanup_sessions).            *)
(***************************************************************************)
EXTENDS Integers, Sequences, FiniteSets, Functions

CONSTANTS
  Op,       \* requests and sweeps that run at the same time
  Product,  \* the products
  Qty,      \* quantities entered by a cashier
  VoidQty,  \* quantities asked to be voided; the route checks no bound
  Uses,     \* max_uses of the coupon, 0 for no limit
  MaxOps    \* bound on the operations

ASSUME CartsAssumption ==
  /\ IsFiniteSet(Op) /\ IsFiniteSet(Product)
  /\ Qty \subseteq Nat \ {0}
  /\ VoidQty \subseteq Int
  /\ Uses \in Nat
  /\ MaxOps \in Nat

VARIABLES
  status,   \* of the cart
  line,     \* cart_items: the rows there are, by identifier
  made,     \* rows ever inserted
  entered,  \* units the cashiers entered, per product
  removed,  \* units removed without a supervisor, per product
  voided,   \* units voided or cleared with a supervisor, per product
  logged,   \* units the audit log says were voided, per product
  unlogged, \* units voided by requests that died before their entry
  used,     \* used_count of the coupon
  sale,     \* the sales of the cart: [stock, booked, coupon]
  raced,    \* some operation wrote over what another had read
  rushed,   \* two checkouts used the coupon at the same time
  cut,      \* a stored cart's checkout died after its sale
  job, todo, got, ops

lineVars  == <<line, made, entered, removed, voided>>
auditVars == <<logged, unlogged>>
vars == <<status, line, made, entered, removed, voided, logged, unlogged,
          used, sale, raced, rushed, cut, job, todo, got, ops>>

Kind   == {"none", "add", "remove", "void", "clear", "checkout", "stored", "sweep"}
Status == {"active", "checked_out", "expired"}
Step   == {"cart", "lines", "coupon", "tally", "count", "write", "log",
           "sale", "deduct", "book", "finish"}
Line   == [product : Product, qty : Int]

None  == [p \in Product |-> 0]
Empty == [i \in {} |-> 0]
Idle  == [kind |-> "none", product |-> CHOOSE p \in Product : TRUE,
          line |-> 0, n |-> 0, coupon |-> FALSE, sale |-> 0]
Blank == [status |-> "active", lines |-> Empty, used |-> 0]

Job  == [kind : Kind, product : Product \cup {Idle.product}, line : Nat, n : Int,
         coupon : BOOLEAN, sale : Nat]
Sale == [stock : BOOLEAN, booked : BOOLEAN, coupon : BOOLEAN]

\* The units of product p in the lines f.
Portion(f, p) == [i \in DOMAIN f |-> IF f[i].product = p THEN f[i].qty ELSE 0]
UnitsIn(f, p) == SumFunctionOnSet(Portion(f, p), DOMAIN f)
Units(f) == [p \in Product |-> UnitsIn(f, p)]
Plus(a, b)  == [p \in Product |-> a[p] + b[p]]
Minus(a, b) == [p \in Product |-> a[p] - b[p]]
Of(p, n)    == [None EXCEPT ![p] = n]

Smaller(a, b) == IF a < b THEN a ELSE b

Init ==
  /\ status = "active" /\ line = Empty /\ made = 0
  /\ entered = None /\ removed = None /\ voided = None
  /\ logged = None /\ unlogged = None
  /\ used = 0 /\ sale = <<>>
  /\ raced = FALSE /\ rushed = FALSE /\ cut = FALSE
  /\ job = [w \in Op |-> Idle]
  /\ todo = [w \in Op |-> <<>>]
  /\ got = [w \in Op |-> Blank]
  /\ ops = 0

-----------------------------------------------------------------------------
(* The arrival of an operation, and its steps.                             *)

Begin(w, j, list) ==
  /\ job[w] = Idle /\ ops < MaxOps
  /\ job' = [job EXCEPT ![w] = j]
  /\ todo' = [todo EXCEPT ![w] = list]
  /\ ops' = ops + 1
  /\ UNCHANGED <<status, lineVars, auditVars, used, sale, raced, rushed, cut, got>>

\* A checkout, with or without a coupon, of the items it is given or of those
\* that are stored.
CheckoutSteps(c) ==
  IF c THEN <<"cart", "coupon", "tally", "count", "write">> ELSE <<"cart", "write">>
StoredSteps(c) ==
  IF c THEN <<"cart", "lines", "coupon", "tally", "count",
              "sale", "deduct", "book", "finish">>
       ELSE <<"cart", "lines", "sale", "deduct", "book", "finish">>

\* Zero units ask for one more. A removal and a void name a line that was seen,
\* perhaps in a cart that is closed.
Start(w) ==
  \/ \E p \in Product, n \in Qty \cup {0} :
       Begin(w, [Idle EXCEPT !.kind = "add", !.product = p, !.n = n],
             <<"cart", "lines", "write">>)
  \/ \E i \in DOMAIN line :
       Begin(w, [Idle EXCEPT !.kind = "remove", !.line = i], <<"lines", "write">>)
  \/ \E i \in DOMAIN line, n \in VoidQty :
       Begin(w, [Idle EXCEPT !.kind = "void", !.line = i, !.n = n],
             <<"lines", "write", "log">>)
  \/ Begin(w, [Idle EXCEPT !.kind = "clear"], <<"cart", "lines", "write", "log">>)
  \/ \E p \in Product, n \in Qty, c \in BOOLEAN :
       Begin(w, [Idle EXCEPT !.kind = "checkout", !.product = p, !.n = n, !.coupon = c],
             CheckoutSteps(c))
  \/ \E c \in BOOLEAN :
       Begin(w, [Idle EXCEPT !.kind = "stored", !.coupon = c], StoredSteps(c))
  \/ Begin(w, [Idle EXCEPT !.kind = "sweep"], <<"cart", "write">>)

Doing(w, x) == todo[w] # <<>> /\ Head(todo[w]) = x
Advance(w) == todo' = [todo EXCEPT ![w] = Tail(@)]

\* The last step of an operation.
Leave(w) ==
  /\ job' = [job EXCEPT ![w] = Idle]
  /\ todo' = [todo EXCEPT ![w] = <<>>]
  /\ got' = [got EXCEPT ![w] = Blank]

\* The lines the operation depends on.
Relevant(w, f) ==
  Restrict(f, {i \in DOMAIN f :
    /\ job[w].kind = "add" => f[i].product = job[w].product
    /\ job[w].kind \in {"remove", "void"} => i = job[w].line})

\* What was planned from is no longer so.
Outdated(w) ==
  \/ Relevant(w, line) # got[w].lines
  \/ job[w].kind \in {"add", "clear", "sweep"} /\ got[w].status # status
Race(w) == raced' = (raced \/ Outdated(w))

-----------------------------------------------------------------------------
(* Readings.                                                               *)

\* Only adding, clearing and the sweep ask for an active cart; a checkout does
\* not look at the status.
ReadCart(w) ==
  /\ Doing(w, "cart")
  /\ job[w].kind \in {"add", "clear", "sweep"} => status = "active"
  /\ got' = [got EXCEPT ![w].status = status]
  /\ Advance(w)
  /\ UNCHANGED <<status, lineVars, auditVars, used, sale, raced, rushed, cut, job, ops>>

\* A second line of the product is more than add_to_cart can read.
ReadLines(w) ==
  /\ Doing(w, "lines")
  /\ job[w].kind = "add" => Cardinality(DOMAIN Relevant(w, line)) <= 1
  /\ job[w].kind \in {"remove", "void", "stored"} => Relevant(w, line) # Empty
  /\ got' = [got EXCEPT ![w].lines = Relevant(w, line)]
  /\ Advance(w)
  /\ UNCHANGED <<status, lineVars, auditVars, used, sale, raced, rushed, cut, job, ops>>

\* Mutation of Valid: the last use is given twice.
ValidOnceMore(n) == Uses = 0 \/ n <= Uses

Valid(n) == Uses = 0 \/ n < Uses

ValidateCoupon(w) ==
  /\ Doing(w, "coupon")
  /\ Valid(used)
  /\ got' = [got EXCEPT ![w].used = used]
  /\ Advance(w)
  /\ UNCHANGED <<status, lineVars, auditVars, used, sale, raced, rushed, cut, job, ops>>

\* increment_coupon_usage reads the coupon again and commits before the sale.
TallyCoupon(w) ==
  /\ Doing(w, "tally")
  /\ got' = [got EXCEPT ![w].used = used]
  /\ rushed' = (rushed \/ got[w].used # used)
  /\ Advance(w)
  /\ UNCHANGED <<status, lineVars, auditVars, used, sale, raced, cut, job, ops>>

CountCoupon(w) ==
  /\ Doing(w, "count")
  /\ used' = got[w].used + 1
  /\ rushed' = (rushed \/ got[w].used # used)
  /\ Advance(w)
  /\ UNCHANGED <<status, lineVars, auditVars, sale, raced, cut, job, got, ops>>

-----------------------------------------------------------------------------
(* Lines.                                                                  *)

Insert(p, n) ==
  /\ line' = [i \in DOMAIN line \cup {made + 1} |->
                IF i = made + 1 THEN [product |-> p, qty |-> n] ELSE line[i]]
  /\ made' = made + 1

\* An unchanged value is not written; the update of a deleted row raises.
Update(w, i, n) ==
  /\ n = got[w].lines[i].qty \/ i \in DOMAIN line
  /\ line' = IF n = got[w].lines[i].qty THEN line ELSE [line EXCEPT ![i].qty = n]
  /\ UNCHANGED made

\* Rows that another operation has deleted are passed over with a warning.
Delete(S) ==
  /\ line' = Restrict(line, DOMAIN line \ S)
  /\ UNCHANGED made

\* The line of the product, when there was one.
Found(w) == DOMAIN got[w].lines

\* The quantity replaces the line's, and none adds one.
Topped(n, old) == IF n = 0 THEN old + 1 ELSE n

Add(w) ==
  LET p == job[w].product  n == job[w].n IN
  /\ Doing(w, "write") /\ job[w].kind = "add"
  /\ \/ /\ Found(w) = {}
        /\ Insert(p, Topped(n, 0))
        /\ entered' = Plus(entered, Of(p, Topped(n, 0)))
     \/ \E i \in Found(w) :
        /\ Update(w, i, Topped(n, got[w].lines[i].qty))
        /\ entered' = Plus(entered, Of(p,
             Topped(n, got[w].lines[i].qty) - got[w].lines[i].qty))
  /\ Race(w) /\ Leave(w)
  /\ UNCHANGED <<status, removed, voided, auditVars, used, sale, rushed, cut, ops>>

\* The entry of a direct removal is never written: its details are a mapping
\* where the column holds text, so the request fails after its commit.
Remove(w) ==
  /\ Doing(w, "write") /\ job[w].kind = "remove"
  /\ Delete({job[w].line})
  /\ removed' = Plus(removed, Minus(Units(line), Units(line')))
  /\ Race(w) /\ Leave(w)
  /\ UNCHANGED <<status, entered, voided, auditVars, used, sale, rushed, cut, ops>>

VoidWhole(v, old) == v >= old

\* The quantity is capped by the line's, and nothing bounds it from below.
Void(w) ==
  LET i == job[w].line  old == got[w].lines[i].qty  v == Smaller(job[w].n, old) IN
  /\ Doing(w, "write") /\ job[w].kind = "void"
  /\ IF VoidWhole(v, old) THEN Delete({i}) ELSE Update(w, i, old - v)
  /\ voided' = Plus(voided, Minus(Units(line), Units(line')))
  /\ job' = [job EXCEPT ![w].n = v]
  /\ Race(w) /\ Advance(w)
  /\ UNCHANGED <<status, entered, removed, auditVars, used, sale, rushed, cut, got, ops>>

Clear(w) ==
  /\ Doing(w, "write") /\ job[w].kind = "clear"
  /\ Delete(DOMAIN got[w].lines)
  /\ voided' = Plus(voided, Minus(Units(line), Units(line')))
  /\ Race(w) /\ Advance(w)
  /\ UNCHANGED <<status, entered, removed, auditVars, used, sale, rushed, cut, job, got, ops>>

\* What the operation's entries say was voided.
Entry(w) ==
  IF job[w].kind = "void"
  THEN Of(got[w].lines[job[w].line].product, job[w].n)
  ELSE Units(got[w].lines)

\* Mutation of Log: a clearance writes its summary only.
LogVoids(w) ==
  /\ Doing(w, "log")
  /\ logged' = IF job[w].kind = "void" THEN Plus(logged, Entry(w)) ELSE logged
  /\ Leave(w)
  /\ UNCHANGED <<status, lineVars, unlogged, used, sale, raced, rushed, cut, ops>>

Log(w) ==
  /\ Doing(w, "log")
  /\ logged' = Plus(logged, Entry(w))
  /\ Leave(w)
  /\ UNCHANGED <<status, lineVars, unlogged, used, sale, raced, rushed, cut, ops>>

-----------------------------------------------------------------------------
(* Checkout.                                                               *)

\* The client's items become lines next to those that are there; the sale, its
\* deduction, its journal and the status are one commit.
Checkout(w) ==
  /\ Doing(w, "write") /\ job[w].kind = "checkout"
  /\ sale' = Append(sale, [stock |-> TRUE, booked |-> TRUE, coupon |-> job[w].coupon])
  /\ Insert(job[w].product, job[w].n)
  /\ entered' = Plus(entered, Of(job[w].product, job[w].n))
  /\ status' = IF got[w].status = "checked_out" THEN status ELSE "checked_out"
  /\ Leave(w)
  /\ UNCHANGED <<removed, voided, auditVars, used, raced, rushed, cut, ops>>

\* A stored cart: four commits, of which only the last touches the cart.
SellStored(w) ==
  /\ Doing(w, "sale")
  /\ sale' = Append(sale, [stock |-> FALSE, booked |-> FALSE, coupon |-> job[w].coupon])
  /\ job' = [job EXCEPT ![w].sale = Len(sale) + 1]
  /\ Race(w) /\ Advance(w)
  /\ UNCHANGED <<status, lineVars, auditVars, used, rushed, cut, got, ops>>

DeductStored(w) ==
  /\ Doing(w, "deduct")
  /\ sale' = [sale EXCEPT ![job[w].sale].stock = TRUE]
  /\ Advance(w)
  /\ UNCHANGED <<status, lineVars, auditVars, used, raced, rushed, cut, job, got, ops>>

BookStored(w) ==
  /\ Doing(w, "book")
  /\ sale' = [sale EXCEPT ![job[w].sale].booked = TRUE]
  /\ Advance(w)
  /\ UNCHANGED <<status, lineVars, auditVars, used, raced, rushed, cut, job, got, ops>>

\* Mutation of FinishStored: the cart is closed as soon as the sale is made.
FinishEarly(w) ==
  /\ job[w].kind = "stored" /\ todo[w] # <<>> /\ job[w].sale # 0
  /\ status' = "checked_out"
  /\ Leave(w)
  /\ UNCHANGED <<lineVars, auditVars, used, sale, raced, rushed, cut, ops>>

FinishStored(w) ==
  /\ Doing(w, "finish")
  /\ status' = "checked_out"
  /\ Leave(w)
  /\ UNCHANGED <<lineVars, auditVars, used, sale, raced, rushed, cut, ops>>

-----------------------------------------------------------------------------
(* The sweep, and what goes wrong.                                         *)

Sweep(w) ==
  /\ Doing(w, "write") /\ job[w].kind = "sweep"
  /\ status' = "expired"
  /\ raced' = (raced \/ got[w].status # status)
  /\ Leave(w)
  /\ UNCHANGED <<lineVars, auditVars, used, sale, rushed, cut, ops>>

\* Refused by a check, failed, or died: what is committed stays.
Stop(w) ==
  /\ job[w] # Idle
  /\ unlogged' = IF Doing(w, "log") THEN Plus(unlogged, Entry(w)) ELSE unlogged
  /\ cut' = (cut \/ job[w].sale # 0)
  /\ Leave(w)
  /\ UNCHANGED <<status, lineVars, logged, used, sale, raced, rushed, ops>>

Next == \E w \in Op :
  \/ Start(w)
  \/ ReadCart(w) \/ ReadLines(w)
  \/ ValidateCoupon(w) \/ TallyCoupon(w) \/ CountCoupon(w)
  \/ Add(w) \/ Remove(w) \/ Void(w) \/ Clear(w) \/ Log(w)
  \/ Checkout(w)
  \/ SellStored(w) \/ DeductStored(w) \/ BookStored(w) \/ FinishStored(w)
  \/ Sweep(w) \/ Stop(w)

Spec == Init /\ [][Next]_vars

-----------------------------------------------------------------------------
(* What holds of the cart.                                                 *)

\* Rows, in the cart or as they were read.
AreLines(f) == DOMAIN f \subseteq 1 .. made /\ f \in [DOMAIN f -> Line]

\* The kinds of values.
TypeOK ==
  /\ status \in Status /\ made \in Nat /\ AreLines(line)
  /\ entered \in [Product -> Int] /\ removed \in [Product -> Int]
  /\ voided \in [Product -> Int] /\ logged \in [Product -> Int]
  /\ unlogged \in [Product -> Int]
  /\ used \in Nat /\ sale \in Seq(Sale)
  /\ raced \in BOOLEAN /\ rushed \in BOOLEAN /\ cut \in BOOLEAN
  /\ job \in [Op -> Job] /\ todo \in [Op -> Seq(Step)]
  /\ \A w \in Op : /\ got[w].status \in Status /\ got[w].used \in Nat
                   /\ AreLines(got[w].lines)
  /\ ops \in 0 .. MaxOps

\* The entries of the operations that have voided and not yet logged.
Unwritten(p) ==
  SumFunctionOnSet([w \in Op |-> IF Doing(w, "log") THEN Entry(w)[p] ELSE 0], Op)

\* What the lines of each product come to, and where its voided units are.
LinesExplained ==
  ~raced => \A p \in Product :
    /\ status # "checked_out" =>
         Cardinality({i \in DOMAIN line : line[i].product = p}) <= 1
    /\ UnitsIn(line, p) = entered[p] - removed[p] - voided[p]
    /\ voided[p] = logged[p] + unlogged[p] + Unwritten(p)

\* However the operations interleave, a line that exists has units: a partial
\* void leaves what it read less what it takes. Unless they raced, the lines are
\* what was entered less what was removed or voided, the audit log accounts for
\* every voided unit but those of a request that died between its two commits
\* (bridge.py, void_cart_item, clear_cart), and until it is sold a cart has one
\* line of a product, as the reading of add_to_cart needs (cart/repository.py,
\* get_cart_item_by_product; no constraint keeps it so).
CartAccounted == (\A i \in DOMAIN line : line[i].qty > 0) /\ LinesExplained

Complete(s) == s.stock /\ s.booked

\* A cart is checked out only once a sale of it is deducted and booked, in any
\* interleaving and after any death; and a complete sale leaves the cart
\* checked out unless its checkout is about to finish or died, or the sweep
\* overwrote it (bridge.py, checkout_cart, both flows).
CheckedOutIsSold ==
  /\ status = "checked_out" => \E s \in Range(sale) : Complete(s)
  /\ (\E s \in Range(sale) : Complete(s)) =>
       \/ status = "checked_out" \/ raced \/ cut
       \/ \E w \in Op : Doing(w, "finish")

\* Unless two checkouts used it at the same time, the coupon is counted at
\* least once for each sale that had it and never beyond its limit (bridge.py,
\* validate_coupon, increment_coupon_usage).
CouponWithinLimit ==
  ~rushed =>
    /\ Uses > 0 => used <= Uses
    /\ Cardinality({i \in DOMAIN sale : sale[i].coupon}) <= used
=============================================================================
