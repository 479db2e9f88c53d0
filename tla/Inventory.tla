----------------------------- MODULE Inventory -----------------------------
(***************************************************************************)
(* What the stock of one product in two stores promises: every operation   *)
(* happens at once and acts on the stock, the request and the distribution *)
(* as they are at that moment. Stock implements it through sessions that   *)
(* read first and write what they computed later, until two of them race   *)
(* or a receipt repeats a line: from then on (loose) nothing is promised.  *)
(***************************************************************************)
EXTENDS Integers

CONSTANTS
  Warehouse, \* the store that supplies
  Shop,      \* the store that is supplied
  Supply,    \* units in the warehouse at first
  MaxQty     \* units of one operation at most

VARIABLES
  qty,     \* units in each store
  stocked, \* stores that have a balance for the product
  sold,    \* units sold and not brought back, per store
  short,   \* units sold that no balance was charged for
  lost,    \* units that arrived damaged or not at all, or came back to no balance
  request, \* the transfer request: [status, asked, approved]
  dist,    \* the distribution: [status, n]
  loose    \* the promise is off

vars == <<qty, stocked, sold, short, lost, request, dist, loose>>

Store  == {Warehouse, Shop}
Amount == 0 .. MaxQty

Init ==
  /\ qty = [s \in Store |-> IF s = Warehouse THEN Supply ELSE 0]
  /\ stocked \in {{Warehouse}, Store}
  /\ sold = [s \in Store |-> 0] /\ short = 0 /\ lost = 0
  /\ request = [status |-> "none", asked |-> 0, approved |-> 0]
  /\ dist = [status |-> "none", n |-> 0]
  /\ ~loose

\* n units more in store s, which has a balance from then on.
Put(s, n) ==
  /\ qty' = [qty EXCEPT ![s] = @ + n]
  /\ stocked' = stocked \cup {s}

\* n units from s, which has them, to t.
Carry(s, t, n) ==
  /\ s \in stocked /\ n <= qty[s]
  /\ qty' = [qty EXCEPT ![s] = @ - n, ![t] = @ + n]
  /\ stocked' = stocked \cup {t}
  /\ UNCHANGED <<sold, short, lost>>

Adjust(s, n) == Put(s, n) /\ UNCHANGED <<sold, short, lost, request, dist>>

Transfer(s, t, n) == s # t /\ Carry(s, t, n) /\ UNCHANGED <<request, dist>>

Ask(n) ==
  /\ request.status = "none"
  /\ request' = [status |-> "pending", asked |-> n, approved |-> 0]
  /\ UNCHANGED <<qty, stocked, sold, short, lost, dist>>

Approve(n) ==
  /\ request.status = "pending" /\ n <= request.asked
  /\ Warehouse \in stocked /\ n <= qty[Warehouse]
  /\ request' = [request EXCEPT !.status = "approved", !.approved = n]
  /\ UNCHANGED <<qty, stocked, sold, short, lost, dist>>

Reject ==
  /\ request.status = "pending"
  /\ request' = [request EXCEPT !.status = "rejected"]
  /\ UNCHANGED <<qty, stocked, sold, short, lost, dist>>

Fulfil ==
  /\ request.status = "approved"
  /\ Carry(Warehouse, Shop, request.approved)
  /\ request' = [request EXCEPT !.status = "fulfilled"]
  /\ UNCHANGED dist

Dispatch(n) ==
  /\ dist.status = "none"
  /\ Warehouse \in stocked /\ n <= qty[Warehouse]
  /\ Put(Warehouse, -n)
  /\ dist' = [status |-> "in_transit", n |-> n]
  /\ UNCHANGED <<sold, short, lost, request>>

\* What does not arrive in good order is lost.
Receive(good) ==
  /\ dist.status = "in_transit" /\ good <= dist.n
  /\ Put(Shop, good)
  /\ lost' = lost + dist.n - good
  /\ dist' = [dist EXCEPT !.status = "received"]
  /\ UNCHANGED <<sold, short, request>>

Cancel ==
  /\ dist.status = "in_transit" /\ Warehouse \in stocked
  /\ Put(Warehouse, dist.n)
  /\ dist' = [dist EXCEPT !.status = "cancelled"]
  /\ UNCHANGED <<sold, short, lost, request>>

\* A sale that is checked against the stock.
Sell(s, n) ==
  /\ n <= qty[s]
  /\ Put(s, -n)
  /\ sold' = [sold EXCEPT ![s] = @ + n]
  /\ UNCHANGED <<short, lost, request, dist>>

\* One that is not, and charges the stock later, if at all.
SellUnchecked(s, n) ==
  /\ sold' = [sold EXCEPT ![s] = @ + n]
  /\ short' = short + n
  /\ UNCHANGED <<qty, stocked, lost, request, dist>>

\* m units charged of n that were sold unchecked: as many as the store has.
Deduct(s, n, m) ==
  /\ n <= short /\ m <= n /\ m <= qty[s] /\ (m = n \/ m = qty[s])
  /\ Put(s, -m)
  /\ short' = short - m
  /\ UNCHANGED <<sold, lost, request, dist>>

Restock(s, n) ==
  /\ n <= sold[s]
  /\ sold' = [sold EXCEPT ![s] = @ - n]
  /\ \/ s \in stocked /\ Put(s, n) /\ UNCHANGED lost
     \/ s \notin stocked /\ lost' = lost + n /\ UNCHANGED <<qty, stocked>>
  /\ UNCHANGED <<short, request, dist>>

Operate ==
  \/ \E s, t \in Store, n \in Amount : Transfer(s, t, n)
  \/ \E s \in Store, n \in Amount :
       \/ Adjust(s, n) \/ Sell(s, n) \/ SellUnchecked(s, n) \/ Restock(s, n)
       \/ \E m \in 0 .. n : Deduct(s, n, m)
  \/ \E n \in Amount : Ask(n) \/ Approve(n) \/ Dispatch(n) \/ Receive(n)
  \/ Reject \/ Fulfil \/ Cancel

Next ==
  \/ ~loose /\ ~loose' /\ Operate
  \/ loose'

Spec == Init /\ [][Next]_vars
=============================================================================
