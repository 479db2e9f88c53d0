--------------------------- MODULE DocumentsProofs ---------------------------
(***************************************************************************)
(* Proofs about Documents, for every set of requests and fees and for      *)
(* every limit. The inductive invariant IInv says what a request that has  *)
(* read still knows when it writes, and counts the requests under way next *)
(* to the sales and the fees they are about to create.                     *)
(***************************************************************************)
EXTENDS Documents, SumTheorems, TLAPS

\* The requests in a phase.
At(p) == {o \in Op : pc[o] = p}

\* Fees that were charged.
Booked == {f \in Fee : fee[f] # "none"}

\* A conversion knows its sale, a settlement the intent it found pending, a
\* confirmation an intent with a link that was paid. Unless an intent was given
\* other rows, the rows a request read are still those frozen on its intent.
Remembers(o) ==
  LET h == held[o] IN
  /\ pc[o] = "linking" => h.ref \in 1 .. sales
  /\ pc[o] = "freezing" =>
       /\ h.rows \subseteq Booked
       /\ Len(h.saw) <= Len(intents)
       /\ h.intent # 0 =>
            h.intent \in DOMAIN h.saw /\ h.saw[h.intent].status = "pending"
  /\ pc[o] \in {"asking", "confirming", "flipping"} => h.intent \in DOMAIN intents
  /\ pc[o] \in {"asking", "flipping"} /\ ~refrozen => h.rows = intents[h.intent].frozen
  /\ pc[o] \in {"confirming", "flipping"} => \E l \in paid : l.intent = h.intent

\* A link is of an intent, and of its rows.
LinkKnown(l) ==
  l.intent \in DOMAIN intents /\ (~refrozen => l.rows = intents[l.intent].frozen)

\* An intent that is not pending was failed by a charge, or has settled its rows.
IntentSettles(i) ==
  /\ intents[i].frozen \subseteq Booked
  /\ ~refrozen => \/ intents[i].status = "pending"
                  \/ i \in declined
                  \/ intents[i].frozen \subseteq Deducted

\* Each sale there is, or will be, has a conversion to account for it.
SalesCounted ==
  /\ sales + Cardinality(At("selling")) <= 1 + overlaps + orphans
  /\ doc.sale = 0 => sales <= orphans + Cardinality(At("linking"))

IInv ==
  /\ TypeOK
  /\ \A o \in Op : Remembers(o)
  /\ \A l \in links : LinkKnown(l)
  /\ \A i \in DOMAIN intents : IntentSettles(i)
  /\ SalesCounted
  /\ HeadroomHolds
  /\ DeductedIsPaid

-----------------------------------------------------------------------------
(* Facts the steps share.                                                  *)

\* A set of indices that is not empty has a greatest element.
LEMMA NewestType ==
  ASSUME NEW S, IsFiniteSet(S), S # {}, \A i \in S : i \in Nat
  PROVE  Newest(S) \in S
<1> DEFINE Tails == {U \in SUBSET S : U # {} /\ \A i \in U, j \in S : i <= j => j \in U}
<1>1. Tails \in SUBSET (SUBSET S) /\ Tails # {}
  <2>1. S \in Tails
    OBVIOUS
  <2>2. QED
    BY <2>1
<1>2. PICK A \in Tails : \A B \in Tails : B \subseteq A => B = A
  <2> HIDE DEF Tails
  <2>1. QED
    BY <1>1, MinimalSubset
<1>3. A # {} /\ A \subseteq S /\ \A i \in A, j \in S : i <= j => j \in A
  OBVIOUS
<1>4. PICK i \in A : i \in S
  BY <1>3
<1>5. ASSUME NEW j \in S, j > i PROVE FALSE
  <2> DEFINE B == {k \in S : j <= k}
  <2>1. i \in Nat /\ j \in Nat /\ \A k \in S : k \in Nat
    BY <1>4
  <2>2. ASSUME NEW k \in B PROVE k \in A
    <3>1. k \in S /\ k \in Nat /\ i <= k
      BY <1>5, <2>1
    <3>2. QED
      BY <1>3, <3>1
  <2>3. j \in B /\ B \in SUBSET S /\ i \notin B
    BY <1>5, <2>1
  <2>4. \A u \in B, v \in S : u <= v => v \in B
    BY <2>1
  <2>5. B \in Tails
    <3> HIDE DEF B
    <3>1. QED
      BY <2>3, <2>4
  <2>6. QED
    BY <1>2, <2>2, <2>3, <2>5
<1>6. \A j \in S : j <= i
  <2>1. \A j \in S : j \in Nat /\ i \in Nat
    BY <1>4
  <2>2. QED
    BY <1>5, <2>1
<1>7. QED
  BY <1>4, <1>6 DEF Newest

\* How a request's change of phase changes the number of requests in a phase.
LEMMA Count ==
  ASSUME NEW x, NEW o \in Op, NEW p, pc \in [Op -> Phase], pc' = [pc EXCEPT ![o] = p]
  PROVE  /\ Cardinality(At(x)) \in Nat /\ Cardinality(At(x)') \in Nat
         /\ p = x /\ pc[o] # x => Cardinality(At(x)') = Cardinality(At(x)) + 1
         /\ p # x /\ pc[o] = x => Cardinality(At(x)') = Cardinality(At(x)) - 1
         /\ p # x => Cardinality(At(x)') <= Cardinality(At(x))
         /\ (p = x <=> pc[o] = x) => At(x)' = At(x)
<1>1. IsFiniteSet(At(x))
  BY DocumentsAssumption, FS_Subset DEF At
<1>2. Cardinality(At(x)) \in Nat
  BY <1>1, FS_CardinalityType
<1>3. \A v \in Op : pc'[v] = IF v = o THEN p ELSE pc[v]
  OBVIOUS
<1>4. CASE p = x
  <2>1. At(x)' = At(x) \cup {o}
    BY <1>3, <1>4 DEF At
  <2>2. o \in At(x) <=> pc[o] = x
    BY DEF At
  <2>3. Cardinality(At(x) \cup {o})
          = IF o \in At(x) THEN Cardinality(At(x)) ELSE Cardinality(At(x)) + 1
    BY <1>1, FS_AddElement
  <2>4. pc[o] = x => At(x)' = At(x)
    BY <2>1, <2>2
  <2>5. QED
    BY <1>2, <1>4, <2>1, <2>2, <2>3, <2>4
<1>5. CASE p # x
  <2>1. At(x)' = At(x) \ {o}
    BY <1>3, <1>5 DEF At
  <2>2. o \in At(x) <=> pc[o] = x
    BY DEF At
  <2>3. IsFiniteSet(At(x) \ {o}) /\ Cardinality(At(x) \ {o})
          = IF o \in At(x) THEN Cardinality(At(x)) - 1 ELSE Cardinality(At(x))
    BY <1>1, FS_RemoveElement
  <2>4. Cardinality(At(x) \ {o}) \in Nat
    BY <2>3, FS_CardinalityType
  <2>5. pc[o] # x => At(x)' = At(x)
    BY <2>1, <2>2
  <2>6. QED
    BY <1>2, <1>5, <2>1, <2>2, <2>3, <2>4, <2>5
<1>6. QED
  BY <1>4, <1>5

\* The fees are finitely many.
LEMMA PendingFinite == IsFiniteSet(Pending) /\ Cardinality(Pending) \in Nat
<1>1. IsFiniteSet(Pending)
  BY DocumentsAssumption, FS_Subset DEF Pending
<1>2. QED
  BY <1>1, FS_CardinalityType

\* Nothing is remembered that is not of its type.
LEMMA NothingType == Nothing \in Memo
BY DEF Nothing, Memo

\* What a step may do to intents and fees without a request losing track.
Keeps ==
  /\ sales \in Nat /\ sales' \in Nat /\ sales <= sales'
  /\ Booked \subseteq Booked'
  /\ paid \subseteq paid'
  /\ DOMAIN intents \subseteq DOMAIN intents' /\ Len(intents) <= Len(intents')
  /\ ~refrozen' => /\ ~refrozen
                   /\ \A i \in DOMAIN intents : intents'[i].frozen = intents[i].frozen

\* A request enters a phase; the others remember what they did.
LEMMA GotoStep ==
  ASSUME IInv, NEW o \in Op, NEW p \in Phase, NEW h, Goto(o, p, h), h \in Memo',
         Keeps, Remembers(o)', intents' \in Seq(Intent)
  PROVE  /\ pc' \in [Op -> Phase] /\ pc' = [pc EXCEPT ![o] = p]
         /\ held' \in [Op -> Memo']
         /\ \A v \in Op : Remembers(v)'
<1>1. pc' = [pc EXCEPT ![o] = p] /\ held' = [held EXCEPT ![o] = h]
  BY DEF Goto
<1>2. pc \in [Op -> Phase] /\ held \in [Op -> Memo] /\ intents \in Seq(Intent)
  BY DEF IInv, TypeOK
<1>3. Memo \subseteq Memo'
  BY DEF Memo, Keeps
<1>4. ASSUME NEW v \in Op, v # o PROVE Remembers(v)'
  <2>1. pc'[v] = pc[v] /\ held'[v] = held[v] /\ held[v] \in Memo
    BY <1>1, <1>2, <1>4
  <2>2. Remembers(v)
    BY DEF IInv
  <2>3. Len(held[v].saw) \in Nat /\ Len(intents) \in Nat /\ Len(intents') \in Nat
    BY <1>2, <2>1 DEF Memo
  <2>4. pc[v] = "freezing" =>
          (Len(held[v].saw) <= Len(intents) => Len(held[v].saw) <= Len(intents'))
    BY <2>3 DEF Keeps
  <2>5. QED
    BY <2>1, <2>2, <2>4 DEF Remembers, Keeps
<1>5. QED
  BY <1>1, <1>2, <1>3, <1>4

\* The sales stay accounted for when a request other than a conversion that
\* has created its sale goes on.
LEMMA SalesStay ==
  ASSUME IInv, NEW o \in Op, NEW p, pc' = [pc EXCEPT ![o] = p],
         p \notin {"selling", "linking"}, pc[o] # "linking",
         UNCHANGED <<doc, sales, overlaps, orphans>>
  PROVE  SalesCounted'
<1>1. pc \in [Op -> Phase] /\ sales \in Nat /\ overlaps \in Nat /\ orphans \in Nat
  BY DEF IInv, TypeOK
<1>2. /\ Cardinality(At("selling")') \in Nat /\ Cardinality(At("selling")) \in Nat
      /\ Cardinality(At("selling")') <= Cardinality(At("selling"))
  BY <1>1, Count
<1>3. At("linking")' = At("linking")
  BY <1>1, Count
<1>4. SalesCounted
  BY DEF IInv
<1>5. QED
  BY <1>1, <1>2, <1>3, <1>4 DEF SalesCounted

\* The unpaid fees stay under the limit when none is added.
LEMMA HeadroomStays ==
  ASSUME IInv, NEW o \in Op, NEW p, pc' = [pc EXCEPT ![o] = p], p # "billing",
         Pending' \subseteq Pending, crowd' = crowd
  PROVE  HeadroomHolds'
<1>1. pc \in [Op -> Phase] /\ crowd \in Nat /\ Limit \in Nat
  BY DocumentsAssumption DEF IInv, TypeOK
<1>2. /\ Cardinality(At("billing")') \in Nat /\ Cardinality(At("billing")) \in Nat
      /\ Cardinality(At("billing")') <= Cardinality(At("billing"))
  BY <1>1, Count
<1>3. Cardinality(Pending') <= Cardinality(Pending) /\ Cardinality(Pending') \in Nat
      /\ Cardinality(Pending) \in Nat
  BY PendingFinite, FS_Subset, FS_CardinalityType
<1>4. HeadroomHolds /\ Billing = At("billing")
  BY DEF IInv, Billing, At
<1>5. QED
  BY <1>1, <1>2, <1>3, <1>4 DEF HeadroomHolds, Billing, At

\* A step that leaves fees, intents and links alone.
LEMMA QuietStep ==
  ASSUME IInv, NEW o \in Op, NEW p \in Phase, NEW h \in Memo, Goto(o, p, h),
         p # "billing", UNCHANGED feeVars, Remembers(o)', SalesCounted',
         doc' \in [status : QuoteStatus, sale : 0 .. sales'],
         sales' \in Nat, sales <= sales', overlaps' \in Nat, orphans' \in Nat,
         changes' = changes, faults' \in 0 .. MaxFaults
  PROVE  IInv'
<1> USE DEF feeVars
<1>1. Memo' = Memo /\ Booked' = Booked /\ Pending' = Pending /\ Deducted' = Deducted
  BY DEF Memo, Booked, Pending, Deducted
<1>2. Keeps
  BY <1>1 DEF Keeps, IInv, TypeOK
<1>3. /\ pc' \in [Op -> Phase] /\ pc' = [pc EXCEPT ![o] = p]
      /\ held' \in [Op -> Memo']
      /\ \A v \in Op : Remembers(v)'
  BY <1>1, <1>2, GotoStep DEF IInv, TypeOK
<1>4. TypeOK'
  BY <1>3 DEF IInv, TypeOK
<1>5. HeadroomHolds'
  BY <1>1, <1>3, HeadroomStays
<1>6. (\A l \in links' : LinkKnown(l)') /\ (\A i \in DOMAIN intents' : IntentSettles(i)')
  BY <1>1 DEF IInv, LinkKnown, IntentSettles
<1>7. DeductedIsPaid'
  BY <1>1 DEF IInv, DeductedIsPaid
<1>8. QED
  BY <1>3, <1>4, <1>5, <1>6, <1>7 DEF IInv

-----------------------------------------------------------------------------
(* The document and its conversions.                                       *)

\* In the beginning nothing was sold, and less than the limit is owed.
LEMMA InitIInv == Init => IInv
<1> SUFFICES ASSUME Init PROVE IInv
  OBVIOUS
<1> USE DEF Init
<1>1. \A o \in Op : pc[o] = "ready"
  OBVIOUS
<1>2. TypeOK
  <2>1. held \in [Op -> Memo] /\ pc \in [Op -> Phase]
    BY NothingType DEF Phase
  <2>2. doc \in [status : QuoteStatus, sale : 0 .. sales]
    BY DEF QuoteStatus
  <2>3. QED
    <3>1. fee \in [Fee -> {"none", "pending", "deducted"}]
      OBVIOUS
    <3>2. intents \in Seq(Intent) /\ DOMAIN intents = {}
      OBVIOUS
    <3>3. faults \in 0 .. MaxFaults /\ changes \in 0 .. MaxChanges
      BY DocumentsAssumption
    <3>4. QED
      BY <2>1, <2>2, <3>1, <3>2, <3>3 DEF TypeOK
<1>3. \A o \in Op : Remembers(o)
  BY <1>1 DEF Remembers
<1>4. At("selling") = {} /\ At("linking") = {} /\ Billing = {}
  BY <1>1 DEF At, Billing
<1>5. SalesCounted
  <2>1. Cardinality(At("selling")) = 0 /\ Cardinality(At("linking")) = 0
    BY <1>4, FS_EmptySet
  <2>2. QED
    BY <2>1 DEF SalesCounted
<1>6. HeadroomHolds
  BY <1>4, PendingFinite, FS_EmptySet, DocumentsAssumption DEF HeadroomHolds
<1>7. DeductedIsPaid
  BY DEF DeductedIsPaid, Deducted
<1>8. QED
  BY <1>2, <1>3, <1>5, <1>6, <1>7 DEF IInv

\* The document's status changes, and its sale stays.
LEMMA SetStatusIInv ==
  ASSUME IInv, NEW s \in QuoteStatus, SetStatus(s)
  PROVE  IInv'
<1>1. /\ changes' = changes + 1 /\ changes < MaxChanges
      /\ UNCHANGED <<sales, overlaps, orphans, feeVars, pc, held, faults>>
      /\ doc' = [doc EXCEPT !.status = s]
  BY DEF SetStatus
<1>2. doc' \in [status : QuoteStatus, sale : 0 .. sales] /\ doc'.sale = doc.sale
  BY <1>1 DEF IInv, TypeOK
<1> USE DEF feeVars
<1>3. TypeOK'
  <2>1. changes' \in 0 .. MaxChanges
    BY <1>1, DocumentsAssumption DEF IInv, TypeOK
  <2>2. Memo' = Memo
    BY <1>1 DEF Memo
  <2>3. QED
    BY <1>1, <1>2, <2>1, <2>2 DEF IInv, TypeOK
<1>4. \A o \in Op : Remembers(o)'
  BY <1>1 DEF IInv, Remembers, Booked
<1>5. SalesCounted' /\ HeadroomHolds' /\ DeductedIsPaid'
  BY <1>1, <1>2 DEF IInv, SalesCounted, HeadroomHolds, DeductedIsPaid, At, Pending,
                    Billing, Deducted
<1>6. (\A l \in links' : LinkKnown(l)') /\ (\A i \in DOMAIN intents' : IntentSettles(i)')
  BY <1>1 DEF IInv, LinkKnown, IntentSettles, Booked, Deducted
<1>7. QED
  BY <1>3, <1>4, <1>5, <1>6 DEF IInv

\* A conversion begins: the document has no sale yet, so every sale there is
\* has an orphan or a conversion to account for it.
LEMMA ReadDocumentIInv ==
  ASSUME IInv, NEW o \in Op, ReadDocument(o)
  PROVE  IInv'
<1>1. /\ pc[o] = "ready" /\ doc.sale = 0
      /\ Goto(o, "selling", Nothing)
      /\ overlaps' = overlaps + (IF UnderWay = {} THEN 0 ELSE 1)
      /\ UNCHANGED <<doc, sales, orphans, changes, feeVars, faults>>
  BY DEF ReadDocument, Convertible
<1>2. /\ pc \in [Op -> Phase] /\ pc' = [pc EXCEPT ![o] = "selling"] /\ pc'[o] = "selling"
      /\ sales \in Nat /\ overlaps \in Nat /\ orphans \in Nat
  BY <1>1 DEF Goto, IInv, TypeOK
<1>3. /\ Cardinality(At("selling")') = Cardinality(At("selling")) + 1
      /\ Cardinality(At("selling")) \in Nat /\ Cardinality(At("linking")) \in Nat
      /\ At("linking")' = At("linking")
  BY <1>1, <1>2, Count
<1>4. SalesCounted
  BY DEF IInv
<1>5. /\ doc' \in [status : QuoteStatus, sale : 0 .. sales']
      /\ sales' \in Nat /\ sales <= sales' /\ overlaps' \in Nat /\ orphans' \in Nat
      /\ changes' = changes /\ faults' \in 0 .. MaxFaults
  BY <1>1, <1>2 DEF IInv, TypeOK
<1>6. Remembers(o)'
  BY <1>2 DEF Remembers
<1>7. SalesCounted'
  <2>1. CASE UnderWay = {}
    <3>1. At("selling") = {} /\ At("linking") = {}
      BY <2>1 DEF UnderWay, At
    <3>2. Cardinality(At("selling")) = 0 /\ Cardinality(At("linking")) = 0
      BY <3>1, FS_EmptySet
    <3>3. sales <= orphans /\ overlaps' = overlaps
      BY <1>1, <1>2, <1>4, <2>1, <3>2 DEF SalesCounted
    <3>4. QED
      BY <1>1, <1>2, <1>3, <3>2, <3>3 DEF SalesCounted
  <2>2. CASE UnderWay # {}
    <3>1. overlaps' = overlaps + 1
      BY <1>1, <2>2
    <3>2. QED
      BY <1>1, <1>2, <1>3, <1>4, <3>1 DEF SalesCounted
  <2>3. QED
    BY <2>1, <2>2
<1>8. "selling" \in Phase /\ Nothing \in Memo
  BY NothingType DEF Phase
<1>9. QED
  BY <1>1, <1>5, <1>6, <1>7, <1>8, QuietStep

\* A conversion creates its sale.
LEMMA CreateSaleIInv ==
  ASSUME IInv, NEW o \in Op, CreateSale(o)
  PROVE  IInv'
<1>1. /\ pc \in [Op -> Phase] /\ sales \in Nat /\ overlaps \in Nat /\ orphans \in Nat
      /\ doc \in [status : QuoteStatus, sale : 0 .. sales] /\ faults \in 0 .. MaxFaults
  BY DEF IInv, TypeOK
<1>2. /\ pc[o] = "selling" /\ sales' = sales + 1
      /\ UNCHANGED <<doc, overlaps, orphans, changes, feeVars, faults>>
  BY DEF CreateSale
<1>3. PICK h : h = [Nothing EXCEPT !.ref = sales + 1]
  OBVIOUS
<1>4. h \in Memo /\ h.ref = sales + 1 /\ Goto(o, "linking", h)
  <2>1. h \in Memo /\ h.ref = sales + 1
    <3>1. sales + 1 \in Nat
      BY <1>1
    <3>2. QED
      BY <1>3, <3>1, NothingType DEF Memo
  <2>2. Goto(o, "linking", [Nothing EXCEPT !.ref = sales'])
    BY DEF CreateSale
  <2>3. QED
    BY <1>2, <1>3, <2>1, <2>2
<1>5. pc' = [pc EXCEPT ![o] = "linking"] /\ pc'[o] = "linking" /\ held'[o] = h
  BY <1>1, <1>4 DEF Goto, IInv, TypeOK
<1>6. /\ Cardinality(At("selling")') = Cardinality(At("selling")) - 1
      /\ Cardinality(At("linking")') = Cardinality(At("linking")) + 1
      /\ Cardinality(At("selling")) \in Nat /\ Cardinality(At("linking")) \in Nat
  BY <1>1, <1>2, <1>5, Count
<1>7. SalesCounted
  BY DEF IInv
<1>8. SalesCounted'
  BY <1>1, <1>2, <1>6, <1>7 DEF SalesCounted
<1>9. Remembers(o)'
  BY <1>1, <1>2, <1>4, <1>5 DEF Remembers
<1>10. QED
  BY <1>1, <1>2, <1>4, <1>8, <1>9, QuietStep DEF Phase

\* A conversion links its sale, which then needs no conversion to account for it.
LEMMA LinkSaleIInv ==
  ASSUME IInv, NEW o \in Op, LinkSale(o)
  PROVE  IInv'
<1>1. /\ pc \in [Op -> Phase] /\ sales \in Nat /\ overlaps \in Nat /\ orphans \in Nat
      /\ faults \in 0 .. MaxFaults
  BY DEF IInv, TypeOK
<1>2. /\ pc[o] = "linking" /\ doc' = [status |-> "accepted", sale |-> held[o].ref]
      /\ Goto(o, "done", Nothing)
      /\ UNCHANGED <<sales, overlaps, orphans, changes, feeVars, faults>>
  BY DEF LinkSale, Finish
<1>3. held[o].ref \in 1 .. sales
  BY <1>2 DEF IInv, Remembers
<1>4. pc' = [pc EXCEPT ![o] = "done"] /\ pc'[o] = "done"
  BY <1>1, <1>2 DEF Goto
<1>5. At("selling")' = At("selling")
  BY <1>1, <1>2, <1>4, Count
<1>6. SalesCounted'
  BY <1>1, <1>2, <1>3, <1>5 DEF IInv, SalesCounted
<1>7. Remembers(o)'
  BY <1>4 DEF Remembers
<1>8. doc' \in [status : QuoteStatus, sale : 0 .. sales']
  BY <1>1, <1>2, <1>3 DEF QuoteStatus
<1>9. QED
  BY <1>1, <1>2, <1>6, <1>7, <1>8, NothingType, QuietStep DEF Phase

\* A request fails; a sale that it had not linked is an orphan.
LEMMA FailIInv ==
  ASSUME IInv, NEW o \in Op, Fail(o)
  PROVE  IInv'
<1>1. /\ pc \in [Op -> Phase] /\ sales \in Nat /\ overlaps \in Nat /\ orphans \in Nat
      /\ doc \in [status : QuoteStatus, sale : 0 .. sales] /\ faults \in 0 .. MaxFaults
  BY DEF IInv, TypeOK
<1>2. /\ pc[o] \notin {"ready", "done"} /\ faults < MaxFaults /\ faults' = faults + 1
      /\ orphans' = IF pc[o] = "linking" THEN orphans + 1 ELSE orphans
      /\ Goto(o, "done", Nothing)
      /\ UNCHANGED <<doc, sales, overlaps, changes, feeVars>>
  BY DEF Fail, Finish
<1>3. pc' = [pc EXCEPT ![o] = "done"] /\ pc'[o] = "done"
  BY <1>1, <1>2 DEF Goto
<1>4. SalesCounted'
  <2>1. CASE pc[o] = "linking"
    <3>1. /\ Cardinality(At("linking")') = Cardinality(At("linking")) - 1
          /\ Cardinality(At("linking")) \in Nat /\ Cardinality(At("selling")) \in Nat
          /\ At("selling")' = At("selling")
      BY <1>1, <1>3, <2>1, Count
    <3>2. SalesCounted
      BY DEF IInv
    <3>3. QED
      BY <1>1, <1>2, <2>1, <3>1, <3>2 DEF SalesCounted
  <2>2. CASE pc[o] # "linking"
    BY <1>2, <1>3, <2>2, SalesStay
  <2>3. QED
    BY <2>1, <2>2
<1>5. faults' \in 0 .. MaxFaults
  BY <1>1, <1>2, DocumentsAssumption
<1>6. Remembers(o)'
  BY <1>3 DEF Remembers
<1>7. orphans' \in Nat
  BY <1>1, <1>2
<1>8. QED
  BY <1>1, <1>2, <1>4, <1>5, <1>6, <1>7, NothingType, QuietStep DEF Phase

-----------------------------------------------------------------------------
(* Settlements: what a request reads.                                      *)

\* A request that only reads goes on.
LEMMA ReadStep ==
  ASSUME IInv, NEW o \in Op, NEW p \in Phase \ {"billing", "selling", "linking"},
         NEW h \in Memo, Goto(o, p, h), pc[o] # "linking", UNCHANGED <<docVars, feeVars, faults>>,
         Remembers(o)'
  PROVE  IInv'
<1>1. pc' = [pc EXCEPT ![o] = p]
  BY DEF Goto
<1>2. SalesCounted'
  BY <1>1, SalesStay DEF docVars
<1>3. QED
  BY <1>2, QuietStep DEF docVars, IInv, TypeOK

\* A settlement reads the pending fees and the newest open intent.
LEMMA ReadPendingIInv ==
  ASSUME IInv, NEW o \in Op, ReadPending(o)
  PROVE  IInv'
<1>1. intents \in Seq(Intent) /\ Len(intents) \in Nat /\ DOMAIN intents = 1 .. Len(intents)
      /\ pc \in [Op -> Phase] /\ held \in [Op -> Memo]
  BY DEF IInv, TypeOK
<1>2. PICK i, r, h : /\ i = IF Open = {} THEN 0 ELSE Newest(Open)
                     /\ r = IF Open = {} THEN 0 ELSE intents[i].ref
                     /\ h = [Nothing EXCEPT !.intent = i, !.ref = r, !.rows = Pending,
                                            !.saw = intents]
  OBVIOUS
<1>3. Open # {} => Newest(Open) \in Open
  <2>1. IsFiniteSet(1 .. Len(intents))
    BY <1>1, FS_Interval
  <2>2. Open \in SUBSET (1 .. Len(intents))
    BY <1>1 DEF Open
  <2>3. IsFiniteSet(Open)
    BY <2>1, <2>2, FS_Subset
  <2>4. \A j \in Open : j \in Nat
    BY <1>1, <2>2
  <2>5. QED
    BY <2>3, <2>4, NewestType
<1>4. \/ i = 0 /\ r = 0
      \/ i \in DOMAIN intents /\ intents[i].status = "pending" /\ r = intents[i].ref
  <2>1. CASE Open = {}
    BY <1>2, <2>1
  <2>2. CASE Open # {}
    <3>1. i \in Open /\ r = intents[i].ref
      BY <1>2, <1>3, <2>2
    <3>2. QED
      BY <3>1 DEF Open
  <2>3. QED
    BY <2>1, <2>2
<1>5. i \in Nat /\ r \in Nat
  <2>1. CASE i \in DOMAIN intents /\ r = intents[i].ref
    <3>1. i \in 1 .. Len(intents) /\ intents[i] \in Intent
      BY <1>1, <2>1
    <3>2. QED
      BY <1>1, <2>1, <3>1 DEF Intent
  <2>2. QED
    BY <1>4, <2>1
<1>6. /\ h \in Memo /\ h.intent = i /\ h.rows = Pending /\ h.saw = intents
  BY <1>1, <1>2, <1>5, NothingType DEF Memo, Nothing, Pending
<1>7. /\ Goto(o, "freezing", h) /\ pc[o] = "ready"
      /\ UNCHANGED <<docVars, feeVars, faults>>
  BY <1>2 DEF ReadPending
<1>8. pc'[o] = "freezing" /\ held'[o] = h /\ intents' = intents /\ Booked' = Booked
  BY <1>1, <1>7 DEF Goto, feeVars, Booked
<1>9. Pending \subseteq Booked
  BY DEF Pending, Booked
<1>10. Remembers(o)'
  BY <1>1, <1>4, <1>6, <1>8, <1>9 DEF Remembers
<1>11. QED
  BY <1>6, <1>7, <1>10, ReadStep DEF Phase

\* The webhook finds the pending intent of a link that was paid.
LEMMA ResolveIInv ==
  ASSUME IInv, NEW o \in Op, NEW l \in links, Resolve(o, l)
  PROVE  IInv'
<1>1. PICK h : h = [Nothing EXCEPT !.intent = l.intent, !.link = {l}]
  OBVIOUS
<1>2. l \in paid /\ l \in Link /\ l.intent \in DOMAIN intents
  BY DEF Resolve, IInv, TypeOK, LinkKnown
<1>3. h \in Memo /\ h.intent = l.intent
  BY <1>1, <1>2, NothingType DEF Memo, Nothing, Link
<1>4. Goto(o, "confirming", h) /\ pc[o] = "ready" /\ UNCHANGED <<docVars, feeVars, faults>>
  BY <1>1 DEF Resolve
<1>5. pc'[o] = "confirming" /\ held'[o] = h /\ intents' = intents /\ paid' = paid
  BY <1>4 DEF Goto, feeVars, IInv, TypeOK
<1>6. Remembers(o)'
  BY <1>2, <1>3, <1>5 DEF Remembers
<1>7. QED
  BY <1>3, <1>4, <1>6, ReadStep DEF Phase

\* A reconciliation finds the open intent of a link that was paid.
LEMMA ReconcileIInv ==
  ASSUME IInv, NEW o \in Op, NEW l \in links, Reconcile(o, l)
  PROVE  IInv'
<1>1. PICK h : h = [Nothing EXCEPT !.intent = l.intent]
  OBVIOUS
<1>2. l \in paid /\ l \in Link /\ l.intent \in DOMAIN intents
  BY DEF Reconcile, Covers, IInv, TypeOK, LinkKnown
<1>3. h \in Memo /\ h.intent = l.intent
  BY <1>1, <1>2, NothingType DEF Memo, Nothing, Link
<1>4. Goto(o, "confirming", h) /\ pc[o] = "ready" /\ UNCHANGED <<docVars, feeVars, faults>>
  BY <1>1 DEF Reconcile
<1>5. pc'[o] = "confirming" /\ held'[o] = h /\ intents' = intents /\ paid' = paid
  BY <1>4 DEF Goto, feeVars, IInv, TypeOK
<1>6. Remembers(o)'
  BY <1>2, <1>3, <1>5 DEF Remembers
<1>7. QED
  BY <1>3, <1>4, <1>6, ReadStep DEF Phase

\* The confirmation reads the rows frozen on the intent.
LEMMA ReadFrozenIInv ==
  ASSUME IInv, NEW o \in Op, ReadFrozen(o)
  PROVE  IInv'
<1>1. PICK h : h = [held[o] EXCEPT !.rows = intents[held[o].intent].frozen]
  OBVIOUS
<1>2. held[o] \in Memo /\ intents \in Seq(Intent) /\ pc[o] = "confirming"
  BY DEF ReadFrozen, IInv, TypeOK
<1>3. held[o].intent \in DOMAIN intents /\ \E l \in paid : l.intent = held[o].intent
  BY <1>2 DEF IInv, Remembers
<1>4. intents[held[o].intent] \in Intent
  BY <1>2, <1>3
<1>5. h \in Memo /\ h.intent = held[o].intent /\ h.rows = intents[h.intent].frozen
  BY <1>1, <1>2, <1>4 DEF Memo, Intent
<1>6. Goto(o, "flipping", h) /\ UNCHANGED <<docVars, feeVars, faults>>
  BY <1>1 DEF ReadFrozen, Swept
<1>7. pc'[o] = "flipping" /\ held'[o] = h /\ intents' = intents /\ paid' = paid
  BY <1>6 DEF Goto, feeVars, IInv, TypeOK
<1>8. Remembers(o)'
  BY <1>3, <1>5, <1>7 DEF Remembers
<1>9. QED
  BY <1>2, <1>5, <1>6, <1>8, ReadStep DEF Phase

-----------------------------------------------------------------------------
(* Fees.                                                                   *)

\* A request passes the limit's check, and is counted among those that have.
LEMMA AssertHeadroomIInv ==
  ASSUME IInv, NEW o \in Op, AssertHeadroom(o)
  PROVE  IInv'
<1>1. /\ pc[o] = "ready" /\ Cardinality(Pending) < Limit
      /\ Goto(o, "billing", Nothing)
      /\ crowd' = IF Cardinality(Billing) < crowd THEN crowd ELSE Cardinality(Billing) + 1
      /\ UNCHANGED <<docVars, fee, intents, links, paid, logged, refrozen, declined, raced, faults>>
  BY DEF AssertHeadroom, Headroom
<1> USE DEF docVars
<1>2. /\ Memo' = Memo /\ Booked' = Booked /\ Pending' = Pending /\ Deducted' = Deducted
      /\ pc \in [Op -> Phase] /\ crowd \in Nat
  BY <1>1 DEF Memo, Booked, Pending, Deducted, IInv, TypeOK
<1>3. Keeps
  BY <1>1, <1>2 DEF Keeps, IInv, TypeOK
<1>4. Remembers(o)'
  BY <1>1, <1>2 DEF Remembers, Goto
<1>5. /\ pc' \in [Op -> Phase] /\ pc' = [pc EXCEPT ![o] = "billing"]
      /\ held' \in [Op -> Memo']
      /\ \A v \in Op : Remembers(v)'
  BY <1>1, <1>2, <1>3, <1>4, NothingType, GotoStep DEF IInv, TypeOK, Phase
<1>6. /\ Cardinality(At("billing")') = Cardinality(At("billing")) + 1
      /\ Cardinality(At("billing")) \in Nat
  BY <1>1, <1>2, <1>5, Count
<1>7. Billing = At("billing") /\ Billing' = At("billing")'
  BY DEF Billing, At
<1>8. HeadroomHolds'
  BY <1>1, <1>2, <1>6, <1>7, PendingFinite, DocumentsAssumption DEF HeadroomHolds
<1>9. TypeOK'
  <2>1. TypeOK /\ crowd' \in Nat
    BY <1>1, <1>2, <1>6, <1>7 DEF IInv
  <2>2. QED
    BY <1>1, <1>2, <1>5, <2>1 DEF TypeOK
<1>10. SalesCounted'
  <2>1. UNCHANGED <<doc, sales, overlaps, orphans>>
    BY <1>1
  <2>2. PICK p : p = "billing"
    OBVIOUS
  <2>3. pc' = [pc EXCEPT ![o] = p] /\ pc[o] # "linking" /\ p \notin {"selling", "linking"}
    BY <1>1, <1>5, <2>2
  <2>4. QED
    BY <2>1, <2>3, SalesStay
<1>11. (\A l \in links' : LinkKnown(l)') /\ (\A i \in DOMAIN intents' : IntentSettles(i)')
  BY <1>1, <1>2 DEF IInv, LinkKnown, IntentSettles
<1>12. DeductedIsPaid'
  BY <1>1, <1>2 DEF IInv, DeductedIsPaid
<1>13. QED
  BY <1>5, <1>8, <1>9, <1>10, <1>11, <1>12 DEF IInv

\* A fee takes the place of the request that had passed the check for it.
LEMMA BookFeeIInv ==
  ASSUME IInv, NEW o \in Op, BookFee(o)
  PROVE  IInv'
<1>1. /\ pc[o] = "billing"
      /\ Goto(o, "done", Nothing)
      /\ UNCHANGED <<docVars, crowd, intents, links, paid, logged, refrozen, declined,
                     raced, faults>>
  BY DEF BookFee, Finish
<1>2. PICK f \in Fee : fee[f] = "none" /\ fee' = [fee EXCEPT ![f] = "pending"]
  BY DEF BookFee
<1> USE DEF docVars
<1>3. /\ Memo' = Memo /\ Booked \subseteq Booked' /\ Deducted' = Deducted
      /\ Pending' = Pending \cup {f} /\ f \notin Pending
      /\ pc \in [Op -> Phase] /\ crowd \in Nat
      /\ fee' \in [Fee -> {"none", "pending", "deducted"}]
  BY <1>1, <1>2 DEF Memo, Booked, Pending, Deducted, IInv, TypeOK
<1>4. Keeps
  BY <1>1, <1>3 DEF Keeps, IInv, TypeOK
<1>5. Remembers(o)'
  BY <1>1, <1>3 DEF Remembers, Goto
<1>6. /\ pc' \in [Op -> Phase] /\ pc' = [pc EXCEPT ![o] = "done"]
      /\ held' \in [Op -> Memo']
      /\ \A v \in Op : Remembers(v)'
  BY <1>1, <1>3, <1>4, <1>5, NothingType, GotoStep DEF IInv, TypeOK, Phase
<1>7. /\ Cardinality(At("billing")') = Cardinality(At("billing")) - 1
      /\ Cardinality(At("billing")) \in Nat
  BY <1>1, <1>3, <1>6, Count
<1>8. Billing = At("billing") /\ Billing' = At("billing")'
  BY DEF Billing, At
<1>9. Cardinality(Pending') = Cardinality(Pending) + 1
  BY <1>3, PendingFinite, FS_AddElement
<1>10. HeadroomHolds'
  BY <1>1, <1>3, <1>7, <1>8, <1>9, PendingFinite, DocumentsAssumption DEF HeadroomHolds, IInv
<1>11. TypeOK'
  <2>1. TypeOK /\ fee' \in [Fee -> {"none", "pending", "deducted"}]
    BY <1>3 DEF IInv
  <2>2. QED
    BY <1>1, <1>6, <2>1 DEF TypeOK
<1>12. SalesCounted'
  <2>1. UNCHANGED <<doc, sales, overlaps, orphans>>
    BY <1>1
  <2>2. PICK p : p = "done"
    OBVIOUS
  <2>3. pc' = [pc EXCEPT ![o] = p] /\ pc[o] # "linking" /\ p \notin {"selling", "linking"}
    BY <1>1, <1>6, <2>2
  <2>4. QED
    BY <2>1, <2>3, SalesStay
<1>13. (\A l \in links' : LinkKnown(l)') /\ (\A i \in DOMAIN intents' : IntentSettles(i)')
  BY <1>1, <1>3 DEF IInv, LinkKnown, IntentSettles
<1>14. DeductedIsPaid'
  BY <1>1, <1>3 DEF IInv, DeductedIsPaid
<1>15. QED
  BY <1>6, <1>10, <1>11, <1>12, <1>13, <1>14 DEF IInv

-----------------------------------------------------------------------------
(* Intents and links.                                                      *)

\* What becomes of the intents when a request freezes the rows it read: a new
\* one, or the copy it read written over an old one.
LEMMA FreezeEffect ==
  ASSUME IInv, NEW o \in Op, Freeze(o)
  PROVE  \E i \in DOMAIN intents' :
           /\ intents' \in Seq(Intent)
           /\ intents'[i].status = "pending" /\ intents'[i].frozen = held[o].rows
           /\ DOMAIN intents \subseteq DOMAIN intents' /\ Len(intents) <= Len(intents')
           /\ \A j \in DOMAIN intents' \ {i} : j \in DOMAIN intents /\ intents'[j] = intents[j]
           /\ i \in DOMAIN intents =>
                held[o].intent = i /\ i \in DOMAIN held[o].saw
                /\ held[o].saw[i].status = "pending"
           /\ held[o].intent = 0 => i \notin DOMAIN intents
           /\ Goto(o, "asking", [Nothing EXCEPT !.intent = i, !.ref = intents'[i].ref,
                                                !.rows = held[o].rows])
<1> DEFINE h == held[o]
<1>1. /\ intents \in Seq(Intent) /\ h \in Memo /\ Len(intents) \in Nat
      /\ h.saw \in Seq(Intent) /\ Len(h.saw) \in Nat
  BY DEF IInv, TypeOK, Memo
<1>2. /\ pc[o] = "freezing" /\ intents' = Frozen(h)
      /\ Len(h.saw) <= Len(intents)
      /\ h.intent # 0 => h.intent \in DOMAIN h.saw /\ h.saw[h.intent].status = "pending"
      /\ h.rows \subseteq Fee /\ h.ref \in Nat
  BY <1>1 DEF Freeze, IInv, Remembers, Memo
<1>3. CASE h.intent = 0
  <2> DEFINE i == Len(intents) + 1
             new == [status |-> "pending", ref |-> 0, frozen |-> h.rows]
  <2>1. intents' = Append(intents, new) /\ new \in Intent
    BY <1>2, <1>3 DEF Frozen, Intent
  <2> HIDE DEF new
  <2>2. /\ intents' \in Seq(Intent) /\ Len(intents') = i /\ intents'[i] = new
        /\ \A j \in 1 .. Len(intents) : intents'[j] = intents[j]
    BY <1>1, <2>1
  <2>3. /\ DOMAIN intents' = 1 .. i /\ DOMAIN intents = 1 .. Len(intents)
    BY <1>1, <2>2
  <2>4. new.status = "pending" /\ new.frozen = h.rows
    BY DEF new
  <2>5. Goto(o, "asking", [Nothing EXCEPT !.intent = i, !.ref = intents'[i].ref,
                                          !.rows = h.rows])
    BY <1>3 DEF Freeze
  <2>6. \A j \in DOMAIN intents' \ {i} : j \in DOMAIN intents /\ intents'[j] = intents[j]
    BY <1>1, <2>2, <2>3
  <2>7. DOMAIN intents \subseteq DOMAIN intents' /\ Len(intents) <= Len(intents')
        /\ i \in DOMAIN intents' /\ i \notin DOMAIN intents
    BY <1>1, <2>2, <2>3
  <2>8. QED
    BY <2>2, <2>4, <2>5, <2>6, <2>7
<1>4. CASE h.intent # 0
  <2>0. PICK i : i = h.intent
    OBVIOUS
  <2> DEFINE new == [status |-> "pending", ref |-> h.ref + 1, frozen |-> h.rows]
  <2>1. i \in DOMAIN intents
    BY <1>1, <1>2, <1>4, <2>0
  <2>2. intents' = [intents EXCEPT ![i] = new] /\ new \in Intent
    BY <1>2, <1>4, <2>0 DEF Frozen, Intent
  <2>3. new.status = "pending" /\ new.frozen = h.rows
    OBVIOUS
  <2> HIDE DEF new
  <2>4. /\ intents' \in Seq(Intent) /\ DOMAIN intents' = DOMAIN intents
        /\ Len(intents') = Len(intents)
        /\ intents'[i] = new
        /\ \A j \in DOMAIN intents \ {i} : intents'[j] = intents[j]
    BY <1>1, <2>1, <2>2
  <2>5. Goto(o, "asking", [Nothing EXCEPT !.intent = i, !.ref = intents'[i].ref,
                                          !.rows = h.rows])
    BY <1>4, <2>0 DEF Freeze
  <2>6. i \in DOMAIN h.saw /\ h.saw[i].status = "pending"
    BY <1>2, <1>4, <2>0
  <2>7. Len(intents) <= Len(intents')
    BY <1>1, <2>4
  <2>8. QED
    BY <1>4, <2>0, <2>1, <2>3, <2>4, <2>5, <2>6, <2>7
<1>5. QED
  BY <1>3, <1>4

\* A step of a settlement or a confirmation: what it must show.
LEMMA IntentStep ==
  ASSUME IInv, NEW o \in Op, NEW p \in Phase \ {"billing", "selling", "linking"}, NEW h,
         Goto(o, p, h), h \in Memo', pc[o] # "linking",
         UNCHANGED <<docVars, crowd, declined, faults>>,
         Keeps, Remembers(o)', Pending' \subseteq Pending,
         fee' \in [Fee -> {"none", "pending", "deducted"}],
         intents' \in Seq(Intent), links' \subseteq Link, paid' \subseteq links',
         logged' \subseteq paid', refrozen' \in BOOLEAN, raced' \in BOOLEAN,
         \A l \in links' : LinkKnown(l)',
         \A i \in DOMAIN intents' : IntentSettles(i)',
         DeductedIsPaid'
  PROVE  IInv'
<1>1. /\ pc' \in [Op -> Phase] /\ pc' = [pc EXCEPT ![o] = p]
      /\ held' \in [Op -> Memo']
      /\ \A v \in Op : Remembers(v)'
  BY GotoStep
<1>2. UNCHANGED <<doc, sales, overlaps, orphans, changes>>
  BY DEF docVars
<1>3. SalesCounted'
  BY <1>1, <1>2, SalesStay
<1>4. HeadroomHolds'
  BY <1>1, HeadroomStays
<1>5. declined' \subseteq DOMAIN intents'
  BY DEF IInv, TypeOK, Keeps
<1>6. TypeOK'
  <2>1. TypeOK
    BY DEF IInv
  <2>2. QED
    BY <1>1, <1>2, <1>5, <2>1 DEF TypeOK
<1>7. QED
  BY <1>1, <1>3, <1>4, <1>6 DEF IInv

\* Rows are frozen: they were charged, and if an intent was given other rows,
\* that is marked.
LEMMA FreezeIInv ==
  ASSUME IInv, NEW o \in Op, Freeze(o)
  PROVE  IInv'
<1> DEFINE h == held[o]
<1>1. PICK i \in DOMAIN intents' :
        /\ intents' \in Seq(Intent)
        /\ intents'[i].status = "pending" /\ intents'[i].frozen = h.rows
        /\ DOMAIN intents \subseteq DOMAIN intents' /\ Len(intents) <= Len(intents')
        /\ \A j \in DOMAIN intents' \ {i} : j \in DOMAIN intents /\ intents'[j] = intents[j]
        /\ h.intent = 0 => i \notin DOMAIN intents
        /\ Goto(o, "asking", [Nothing EXCEPT !.intent = i, !.ref = intents'[i].ref,
                                             !.rows = h.rows])
  BY FreezeEffect
<1>2. /\ pc[o] = "freezing"
      /\ refrozen' = (refrozen \/ h.intent # 0)
      /\ raced' = (raced \/ intents # h.saw)
      /\ UNCHANGED <<docVars, fee, crowd, links, paid, logged, declined, faults>>
  BY DEF Freeze
<1>3. /\ h \in Memo /\ h.rows \subseteq Booked /\ h.rows \subseteq Fee
      /\ refrozen \in BOOLEAN /\ raced \in BOOLEAN
      /\ fee \in [Fee -> {"none", "pending", "deducted"}]
      /\ links \subseteq Link /\ paid \subseteq links /\ logged \subseteq paid
      /\ pc \in [Op -> Phase] /\ held \in [Op -> Memo] /\ sales \in Nat
  BY <1>2 DEF IInv, TypeOK, Remembers, Booked
<1>4. /\ Memo' = Memo /\ Booked' = Booked /\ Pending' = Pending /\ Deducted' = Deducted
      /\ sales' = sales
  BY <1>2 DEF Memo, Booked, Pending, Deducted, docVars
<1>5. ~refrozen' =>
        /\ ~refrozen /\ i \notin DOMAIN intents
        /\ \A j \in DOMAIN intents : intents'[j] = intents[j]
  BY <1>1, <1>2
<1>6. Keeps
  BY <1>1, <1>2, <1>3, <1>4, <1>5 DEF Keeps
<1>7. PICK m : m = [Nothing EXCEPT !.intent = i, !.ref = intents'[i].ref, !.rows = h.rows]
  OBVIOUS
<1>8. m \in Memo /\ m.intent = i /\ m.rows = h.rows
  <2>1. i \in Nat /\ intents'[i] \in Intent
    BY <1>1
  <2>2. intents'[i].ref \in Nat
    BY <2>1 DEF Intent
  <2>3. QED
    BY <1>3, <1>7, <2>1, <2>2, NothingType DEF Memo
<1>9. pc'[o] = "asking" /\ held'[o] = m
  BY <1>1, <1>3, <1>7 DEF Goto
<1>10. Remembers(o)'
  BY <1>1, <1>8, <1>9 DEF Remembers
<1>11. \A l \in links' : LinkKnown(l)'
  BY <1>1, <1>2, <1>5 DEF IInv, LinkKnown
<1>12. ASSUME NEW j \in DOMAIN intents' PROVE IntentSettles(j)'
  <2>1. CASE j = i
    BY <1>1, <1>3, <1>4, <2>1 DEF IntentSettles
  <2>2. CASE j # i
    <3>1. j \in DOMAIN intents /\ intents'[j] = intents[j]
      BY <1>1, <2>2
    <3>2. QED
      BY <1>2, <1>4, <1>5, <3>1 DEF IInv, IntentSettles
  <2>3. QED
    BY <2>1, <2>2
<1>13. DeductedIsPaid'
  BY <1>2, <1>4, <1>5 DEF IInv, DeductedIsPaid
<1>14. Goto(o, "asking", m)
  BY <1>1, <1>7
<1>15. refrozen' \in BOOLEAN /\ raced' \in BOOLEAN
  BY <1>2, <1>3
<1>16. "asking" \in Phase \ {"billing", "selling", "linking"}
  BY DEF Phase
<1>17. QED
  BY <1>1, <1>2, <1>3, <1>4, <1>6, <1>8, <1>10, <1>11, <1>12, <1>13, <1>14, <1>15, <1>16,
     IntentStep

\* The gateway issues the link of an intent and of the rows frozen with it.
LEMMA AskForLinkIInv ==
  ASSUME IInv, NEW o \in Op, AskForLink(o)
  PROVE  IInv'
<1> DEFINE h == held[o]
           l == [intent |-> h.intent, ref |-> h.ref, rows |-> h.rows]
<1>1. /\ pc[o] = "asking" /\ links' = links \cup {l}
      /\ Goto(o, "done", Nothing)
      /\ UNCHANGED <<docVars, fee, crowd, intents, paid, logged, refrozen, declined, raced, faults>>
  BY DEF AskForLink, Finish
<1>2. /\ h \in Memo /\ h.intent \in DOMAIN intents
      /\ ~refrozen => h.rows = intents[h.intent].frozen
      /\ intents \in Seq(Intent) /\ sales \in Nat /\ links \subseteq Link
      /\ paid \subseteq links /\ logged \subseteq paid
      /\ refrozen \in BOOLEAN /\ raced \in BOOLEAN
      /\ fee \in [Fee -> {"none", "pending", "deducted"}]
      /\ pc \in [Op -> Phase]
  BY <1>1 DEF IInv, TypeOK, Remembers
<1>3. l \in Link /\ l.intent = h.intent /\ l.rows = h.rows
  BY <1>2 DEF Link, Memo
<1> HIDE DEF l
<1>4. /\ Memo' = Memo /\ Booked' = Booked /\ Pending' = Pending /\ Deducted' = Deducted
      /\ sales' = sales
  BY <1>1 DEF Memo, Booked, Pending, Deducted, docVars
<1>5. Keeps
  BY <1>1, <1>2, <1>4 DEF Keeps
<1>6. pc'[o] = "done"
  BY <1>1, <1>2 DEF Goto
<1>7. Remembers(o)'
  BY <1>6 DEF Remembers
<1>8. ASSUME NEW k \in links' PROVE LinkKnown(k)'
  <2>1. CASE k \in links
    BY <1>1, <2>1 DEF IInv, LinkKnown
  <2>2. CASE k = l
    BY <1>1, <1>2, <1>3, <2>2 DEF LinkKnown
  <2>3. QED
    BY <1>1, <2>1, <2>2
<1>9. \A j \in DOMAIN intents' : IntentSettles(j)'
  BY <1>1, <1>4 DEF IInv, IntentSettles
<1>10. DeductedIsPaid'
  BY <1>1, <1>4 DEF IInv, DeductedIsPaid
<1>11. "done" \in Phase \ {"billing", "selling", "linking"}
  BY DEF Phase
<1>12. /\ links' \subseteq Link /\ paid' \subseteq links' /\ logged' \subseteq paid'
       /\ Nothing \in Memo'
  BY <1>1, <1>2, <1>3, <1>4, NothingType
<1>13. QED
  BY <1>1, <1>2, <1>4, <1>5, <1>7, <1>8, <1>9, <1>10, <1>11, <1>12, IntentStep

\* The webhook is logged.
LEMMA LogWebhookIInv ==
  ASSUME IInv, NEW o \in Op, LogWebhook(o)
  PROVE  IInv'
<1>1. /\ pc[o] = "logging" /\ logged' = logged \cup held[o].link
      /\ Goto(o, "done", Nothing)
      /\ UNCHANGED <<docVars, fee, crowd, intents, links, paid, refrozen, declined, raced, faults>>
  BY DEF LogWebhook, Finish
<1>2. /\ held[o] \in Memo /\ intents \in Seq(Intent) /\ sales \in Nat /\ links \subseteq Link
      /\ paid \subseteq links /\ logged \subseteq paid
      /\ refrozen \in BOOLEAN /\ raced \in BOOLEAN
      /\ fee \in [Fee -> {"none", "pending", "deducted"}]
      /\ pc \in [Op -> Phase]
  BY <1>1 DEF IInv, TypeOK
<1>3. /\ Memo' = Memo /\ Booked' = Booked /\ Pending' = Pending /\ Deducted' = Deducted
      /\ sales' = sales
  BY <1>1 DEF Memo, Booked, Pending, Deducted, docVars
<1>4. Keeps
  BY <1>1, <1>2, <1>3 DEF Keeps
<1>5. pc'[o] = "done"
  BY <1>1, <1>2 DEF Goto
<1>6. Remembers(o)'
  BY <1>5 DEF Remembers
<1>7. \A l \in links' : LinkKnown(l)'
  BY <1>1 DEF IInv, LinkKnown
<1>8. \A j \in DOMAIN intents' : IntentSettles(j)'
  BY <1>1, <1>3 DEF IInv, IntentSettles
<1>9. DeductedIsPaid'
  BY <1>1, <1>3 DEF IInv, DeductedIsPaid
<1>10. "done" \in Phase \ {"billing", "selling", "linking"}
  BY DEF Phase
<1>11. /\ links' \subseteq Link /\ paid' \subseteq links' /\ logged' \subseteq paid'
       /\ Nothing \in Memo'
  BY <1>1, <1>2, <1>3, NothingType DEF Memo
<1>12. QED
  BY <1>1, <1>2, <1>3, <1>4, <1>6, <1>7, <1>8, <1>9, <1>10, <1>11, IntentStep

\* A status is written to an intent, whose rows and place stay.
LEMMA SetIntent ==
  ASSUME intents \in Seq(Intent), NEW i \in DOMAIN intents,
         NEW s \in {"completed", "failed"}, intents' = [intents EXCEPT ![i].status = s]
  PROVE  /\ intents' \in Seq(Intent)
         /\ DOMAIN intents' = DOMAIN intents /\ Len(intents') = Len(intents)
         /\ intents'[i].status = s /\ intents'[i].frozen = intents[i].frozen
         /\ \A j \in DOMAIN intents \ {i} : intents'[j] = intents[j]
<1> DEFINE new == [intents[i] EXCEPT !.status = s]
<1>1. intents[i] \in Intent
  OBVIOUS
<1>2. new \in Intent /\ new.status = s /\ new.frozen = intents[i].frozen
  BY <1>1 DEF Intent
<1>3. intents' = [intents EXCEPT ![i] = new]
  OBVIOUS
<1> HIDE DEF new
<1>4. QED
  BY <1>2, <1>3

\* A confirmation completes its intent, and the rows it read are deducted.
LEMMA FlipIInv ==
  ASSUME IInv, NEW o \in Op, Flip(o)
  PROVE  IInv'
<1> DEFINE h == held[o]
<1>0. PICK i : i = h.intent
  OBVIOUS
<1>1. /\ pc[o] = "flipping" /\ intents' = [intents EXCEPT ![i].status = "completed"]
      /\ fee' = [f \in Fee |-> IF f \in h.rows /\ fee[f] = "pending" THEN "deducted"
                                                                 ELSE fee[f]]
      /\ Goto(o, "logging", [Nothing EXCEPT !.link = h.link])
      /\ UNCHANGED <<docVars, crowd, links, paid, logged, refrozen, declined, raced, faults>>
  BY <1>0 DEF Flip
<1>2. /\ h \in Memo /\ i \in DOMAIN intents
      /\ ~refrozen => h.rows = intents[i].frozen
      /\ \E l \in paid : l.intent = i
      /\ intents \in Seq(Intent) /\ sales \in Nat /\ links \subseteq Link
      /\ paid \subseteq links /\ logged \subseteq paid
      /\ refrozen \in BOOLEAN /\ raced \in BOOLEAN
      /\ fee \in [Fee -> {"none", "pending", "deducted"}]
      /\ pc \in [Op -> Phase]
  BY <1>0, <1>1 DEF IInv, TypeOK, Remembers
<1>3. /\ intents' \in Seq(Intent)
      /\ DOMAIN intents' = DOMAIN intents /\ Len(intents') = Len(intents)
      /\ intents'[i].status = "completed" /\ intents'[i].frozen = intents[i].frozen
      /\ \A j \in DOMAIN intents \ {i} : intents'[j] = intents[j]
  BY <1>1, <1>2, SetIntent
<1>4. /\ Memo' = Memo /\ sales' = sales
      /\ fee' \in [Fee -> {"none", "pending", "deducted"}]
      /\ Booked' = Booked /\ Pending' \subseteq Pending
      /\ Deducted \subseteq Deducted' /\ Booked \cap h.rows \subseteq Deducted'
      /\ Deducted' \subseteq Deducted \cup h.rows
  BY <1>1, <1>2 DEF Memo, Booked, Pending, Deducted, docVars
<1>5. Len(intents) \in Nat
  BY <1>2
<1>6. Keeps
  <2>1. \A j \in DOMAIN intents : intents'[j].frozen = intents[j].frozen
    BY <1>3
  <2>2. QED
    BY <1>1, <1>2, <1>3, <1>4, <1>5, <2>1 DEF Keeps
<1>7. PICK m : m = [Nothing EXCEPT !.link = h.link]
  OBVIOUS
<1>8. m \in Memo' /\ Goto(o, "logging", m)
  BY <1>1, <1>2, <1>4, <1>7, NothingType DEF Memo
<1>9. pc'[o] = "logging"
  BY <1>1, <1>2 DEF Goto
<1>10. Remembers(o)'
  BY <1>9 DEF Remembers
<1>11. ASSUME NEW l \in links' PROVE LinkKnown(l)'
  <2>1. l \in links /\ LinkKnown(l)
    BY <1>1 DEF IInv
  <2>2. l.intent \in DOMAIN intents /\ (~refrozen => l.rows = intents[l.intent].frozen)
    BY <2>1 DEF LinkKnown
  <2>3. intents'[l.intent].frozen = intents[l.intent].frozen
    BY <1>3, <2>2
  <2>4. QED
    BY <1>1, <1>3, <2>2, <2>3 DEF LinkKnown
<1>12. ASSUME NEW j \in DOMAIN intents' PROVE IntentSettles(j)'
  <2>1. j \in DOMAIN intents /\ IntentSettles(j)
    BY <1>3 DEF IInv
  <2>2. CASE j # i
    BY <1>1, <1>3, <1>4, <2>1, <2>2 DEF IntentSettles
  <2>3. CASE j = i
    <3>1. intents'[i].frozen \subseteq Booked'
      BY <1>3, <1>4, <2>1, <2>3 DEF IntentSettles
    <3>2. ~refrozen => intents'[i].frozen \subseteq Deducted'
      BY <1>2, <1>3, <1>4, <3>1
    <3>3. QED
      BY <1>1, <2>3, <3>1, <3>2 DEF IntentSettles
  <2>4. QED
    BY <2>2, <2>3
<1>13. DeductedIsPaid'
  <2>1. SUFFICES ASSUME ~refrozen', NEW f \in Deducted' PROVE \E l \in paid' : f \in l.rows
    BY DEF DeductedIsPaid
  <2>2. CASE f \in Deducted
    BY <1>1, <2>1, <2>2 DEF IInv, DeductedIsPaid
  <2>3. CASE f \in h.rows
    <3>1. PICK l \in paid : l.intent = i
      BY <1>2
    <3>2. l.rows = intents[i].frozen
      BY <1>1, <1>2, <2>1, <3>1 DEF IInv, LinkKnown
    <3>3. QED
      BY <1>1, <1>2, <2>1, <2>3, <3>1, <3>2
  <2>4. QED
    BY <1>4, <2>2, <2>3
<1>14. "logging" \in Phase \ {"billing", "selling", "linking"}
  BY DEF Phase
<1>15. /\ links' \subseteq Link /\ paid' \subseteq links' /\ logged' \subseteq paid'
       /\ refrozen' \in BOOLEAN /\ raced' \in BOOLEAN /\ pc[o] # "linking"
       /\ UNCHANGED <<docVars, crowd, declined, faults>>
  BY <1>1, <1>2
<1>16. QED
  BY <1>3, <1>4, <1>6, <1>8, <1>10, <1>11, <1>12, <1>13, <1>14, <1>15, IntentStep

\* A link is paid.
LEMMA PayIInv ==
  ASSUME IInv, NEW l \in links, Pay(l)
  PROVE  IInv'
<1>1. /\ paid' = paid \cup {l}
      /\ UNCHANGED <<docVars, fee, crowd, intents, links, logged, refrozen, declined, raced, pc,
                     held, faults>>
  BY DEF Pay
<1> USE DEF docVars
<1>2. /\ Booked' = Booked /\ Pending' = Pending /\ Deducted' = Deducted /\ Memo \subseteq Memo'
  BY <1>1 DEF Memo, Booked, Pending, Deducted
<1>3. TypeOK'
  <2>1. TypeOK
    BY DEF IInv
  <2>2. held' \in [Op -> Memo']
    BY <1>1, <1>2, <2>1 DEF TypeOK
  <2>3. QED
    BY <1>1, <2>1, <2>2 DEF TypeOK
<1>4. ASSUME NEW o \in Op PROVE Remembers(o)'
  BY <1>1, <1>2 DEF IInv, Remembers
<1>5. SalesCounted' /\ HeadroomHolds'
  BY <1>1, <1>2 DEF IInv, SalesCounted, HeadroomHolds, At, Billing
<1>6. (\A k \in links' : LinkKnown(k)') /\ (\A i \in DOMAIN intents' : IntentSettles(i)')
  BY <1>1, <1>2 DEF IInv, LinkKnown, IntentSettles
<1>7. DeductedIsPaid'
  BY <1>1, <1>2 DEF IInv, DeductedIsPaid
<1>8. QED
  BY <1>3, <1>4, <1>5, <1>6, <1>7 DEF IInv

\* A charge is declined, and its intent marked.
LEMMA DeclineIInv ==
  ASSUME IInv, NEW l \in links, Decline(l)
  PROVE  IInv'
<1> DEFINE i == l.intent
<1>1. /\ faults < MaxFaults /\ faults' = faults + 1
      /\ intents' = [intents EXCEPT ![i].status = "failed"]
      /\ declined' = declined \cup {i}
      /\ UNCHANGED <<docVars, fee, crowd, links, paid, logged, refrozen, raced, pc, held>>
  BY DEF Decline
<1>2. TypeOK /\ intents \in Seq(Intent) /\ i \in DOMAIN intents
  BY DEF IInv, TypeOK, LinkKnown
<1>3. /\ intents' \in Seq(Intent)
      /\ DOMAIN intents' = DOMAIN intents /\ Len(intents') = Len(intents)
      /\ intents'[i].frozen = intents[i].frozen
      /\ \A j \in DOMAIN intents \ {i} : intents'[j] = intents[j]
  BY <1>1, <1>2, SetIntent
<1> USE DEF docVars
<1>4. /\ Booked' = Booked /\ Pending' = Pending /\ Deducted' = Deducted /\ Memo = Memo'
      /\ \A j \in DOMAIN intents : intents'[j].frozen = intents[j].frozen
  BY <1>1, <1>3 DEF Memo, Booked, Pending, Deducted
<1>5. TypeOK'
  <2>1. faults' \in 0 .. MaxFaults
    BY <1>1, <1>2, DocumentsAssumption DEF TypeOK
  <2>2. declined' \subseteq DOMAIN intents'
    BY <1>1, <1>2, <1>3 DEF TypeOK
  <2>3. QED
    BY <1>1, <1>2, <1>3, <1>4, <2>1, <2>2 DEF TypeOK
<1>6. ASSUME NEW o \in Op PROVE Remembers(o)'
  <2>1. Remembers(o)
    BY DEF IInv
  <2>2. QED
    BY <1>1, <1>3, <1>4, <2>1 DEF Remembers
<1>7. SalesCounted' /\ HeadroomHolds'
  BY <1>1, <1>4 DEF IInv, SalesCounted, HeadroomHolds, At, Billing
<1>8. \A k \in links' : LinkKnown(k)'
  BY <1>1, <1>3, <1>4 DEF IInv, LinkKnown
<1>9. ASSUME NEW j \in DOMAIN intents' PROVE IntentSettles(j)'
  <2>1. j \in DOMAIN intents /\ IntentSettles(j)
    BY <1>3 DEF IInv
  <2>2. j # i => intents'[j] = intents[j]
    BY <1>3, <2>1
  <2>3. QED
    BY <1>1, <1>4, <2>1, <2>2 DEF IntentSettles
<1>10. DeductedIsPaid'
  BY <1>1, <1>4 DEF IInv, DeductedIsPaid
<1>11. QED
  BY <1>5, <1>6, <1>7, <1>8, <1>9, <1>10 DEF IInv

-----------------------------------------------------------------------------
(* The theorems.                                                           *)

\* No step of the program breaks the invariant.
LEMMA NextIInv == IInv /\ [Next]_vars => IInv'
<1> SUFFICES ASSUME IInv, [Next]_vars PROVE IInv'
  OBVIOUS
<1>1. ASSUME NEW s \in QuoteStatus, SetStatus(s) PROVE IInv'
  BY <1>1, SetStatusIInv
<1>2. ASSUME NEW l \in links, Pay(l) \/ Decline(l) PROVE IInv'
  BY <1>2, PayIInv, DeclineIInv
<1>3. ASSUME NEW o \in Op, ReadDocument(o) \/ CreateSale(o) \/ LinkSale(o) \/ Fail(o)
      PROVE  IInv'
  BY <1>3, ReadDocumentIInv, CreateSaleIInv, LinkSaleIInv, FailIInv
<1>4. ASSUME NEW o \in Op, AssertHeadroom(o) \/ BookFee(o) PROVE IInv'
  BY <1>4, AssertHeadroomIInv, BookFeeIInv
<1>5. ASSUME NEW o \in Op, ReadPending(o) \/ Freeze(o) \/ AskForLink(o) PROVE IInv'
  BY <1>5, ReadPendingIInv, FreezeIInv, AskForLinkIInv
<1>6. ASSUME NEW o \in Op, NEW l \in links, Resolve(o, l) \/ Reconcile(o, l) PROVE IInv'
  BY <1>6, ResolveIInv, ReconcileIInv
<1>7. ASSUME NEW o \in Op, ReadFrozen(o) \/ Flip(o) \/ LogWebhook(o) PROVE IInv'
  BY <1>7, ReadFrozenIInv, FlipIInv, LogWebhookIInv
<1>8. CASE UNCHANGED vars
  <2> USE DEF vars
  <2>1. /\ Memo' = Memo /\ Booked' = Booked /\ Pending' = Pending /\ Deducted' = Deducted
        /\ \A p : At(p)' = At(p)
    BY <1>8 DEF Memo, Booked, Pending, Deducted, At
  <2>2. TypeOK'
    BY <1>8, <2>1 DEF IInv, TypeOK
  <2>3. \A o \in Op : Remembers(o)'
    BY <1>8, <2>1 DEF IInv, Remembers
  <2>4. (\A l \in links' : LinkKnown(l)') /\ (\A i \in DOMAIN intents' : IntentSettles(i)')
    BY <1>8, <2>1 DEF IInv, LinkKnown, IntentSettles
  <2>5. SalesCounted' /\ HeadroomHolds' /\ DeductedIsPaid'
    BY <1>8, <2>1 DEF IInv, SalesCounted, HeadroomHolds, Billing, DeductedIsPaid
  <2>6. QED
    BY <2>2, <2>3, <2>4, <2>5 DEF IInv
<1>9. QED
  BY <1>1, <1>2, <1>3, <1>4, <1>5, <1>6, <1>7, <1>8 DEF Next

\* The inductive invariant holds in every reachable state.
THEOREM InvariantHolds == Spec => []IInv
<1>1. Init => IInv
  BY InitIInv
<1>2. IInv /\ [Next]_vars => IInv'
  BY NextIInv
<1>3. QED
  BY <1>1, <1>2, PTL DEF Spec

\* Documents, fees, intents and requests have the values that the database and
\* the handlers can give them.
THEOREM TypeCorrect == Spec => []TypeOK
BY InvariantHolds, PTL DEF IInv

\* When no conversion is under way none is about to link its sale.
LEMMA CountedSales == IInv => SalesAccountedFor
<1> SUFFICES ASSUME IInv PROVE SalesAccountedFor
  OBVIOUS
<1>1. sales \in Nat /\ orphans \in Nat /\ overlaps \in Nat /\ SalesCounted
  BY DEF IInv, TypeOK
<1>2. Cardinality(At("selling")) \in Nat
  BY DocumentsAssumption, FS_Subset, FS_CardinalityType DEF At
<1>3. UnderWay = {} => Cardinality(At("linking")) = 0
  <2>1. UnderWay = {} => At("linking") = {}
    BY DEF UnderWay, At
  <2>2. QED
    BY <2>1, FS_EmptySet
<1>4. QED
  BY <1>1, <1>2, <1>3 DEF SalesCounted, SalesAccountedFor

\* However many conversions overlap or fail, a document has no more sales than
\* they account for, and in the end its sale is linked.
THEOREM SalesAccountedForHolds == Spec => []SalesAccountedFor
BY InvariantHolds, CountedSales, PTL

\* For any limit and any number of requests, the unpaid fees pass the limit by no
\* more than the requests that passed its check together.
THEOREM HeadroomHoldsHolds == Spec => []HeadroomHolds
BY InvariantHolds, PTL DEF IInv

\* While no intent was given other rows, no fee is deducted that no link was
\* paid for.
THEOREM DeductedIsPaidHolds == Spec => []DeductedIsPaid
BY InvariantHolds, PTL DEF IInv

\* The intent of a link that was paid is pending, or marked by a charge, or has
\* settled the rows the link stands for.
LEMMA PaidSettles == IInv => PaidCanSettle
<1> SUFFICES ASSUME IInv, ~refrozen, NEW l \in paid
             PROVE  \/ l.rows \subseteq Deducted
                    \/ intents[l.intent].status = "pending"
                    \/ l.intent \in declined
  BY DEF PaidCanSettle
<1>1. l.intent \in DOMAIN intents /\ l.rows = intents[l.intent].frozen
  BY DEF IInv, TypeOK, LinkKnown
<1>2. QED
  BY <1>1 DEF IInv, IntentSettles

\* While no intent was given other rows, money that was paid has settled its
\* fees or still can.
THEOREM PaidCanSettleHolds == Spec => []PaidCanSettle
BY InvariantHolds, PaidSettles, PTL

\* Only a request that writes over what it did not read, or a declined charge,
\* takes an intent out of its completion.
LEMMA StepKeepsCompleted ==
  ASSUME IInv, [Next]_vars
  PROVE  raced' \/ \A i \in DOMAIN intents :
           intents[i].status = "completed" =>
             intents'[i].status = "completed" \/ i \in declined'
<1> DEFINE Goal == raced' \/ \A i \in DOMAIN intents :
             intents[i].status = "completed" =>
               intents'[i].status = "completed" \/ i \in declined'
<1>1. ASSUME intents' = intents PROVE Goal
  BY <1>1
<1>2. ASSUME NEW o \in Op, Freeze(o) PROVE Goal
  <2>1. PICK i \in DOMAIN intents' :
          /\ \A j \in DOMAIN intents' \ {i} : intents'[j] = intents[j]
          /\ i \in DOMAIN intents =>
               held[o].intent = i /\ held[o].saw[i].status = "pending"
          /\ DOMAIN intents \subseteq DOMAIN intents'
    BY <1>2, FreezeEffect
  <2>2. raced' \/ intents = held[o].saw
    BY <1>2 DEF Freeze
  <2>3. QED
    BY <2>1, <2>2
<1>3. ASSUME NEW o \in Op, Flip(o) PROVE Goal
  <2>1. /\ intents' = [intents EXCEPT ![held[o].intent].status = "completed"]
        /\ held[o].intent \in DOMAIN intents /\ intents \in Seq(Intent)
    BY <1>3 DEF Flip, IInv, TypeOK, Remembers
  <2>2. \A j \in DOMAIN intents : intents[j].status = "completed" =>
          intents'[j].status = "completed"
    BY <2>1, SetIntent
  <2>3. QED
    BY <2>2
<1>4. ASSUME NEW l \in links, Decline(l) PROVE Goal
  <2>1. /\ intents' = [intents EXCEPT ![l.intent].status = "failed"]
        /\ declined' = declined \cup {l.intent}
        /\ l.intent \in DOMAIN intents /\ intents \in Seq(Intent)
    BY <1>4 DEF Decline, IInv, TypeOK, LinkKnown
  <2>2. \A j \in DOMAIN intents \ {l.intent} : intents'[j] = intents[j]
    BY <2>1, SetIntent
  <2>3. QED
    BY <2>1, <2>2
<1>5. ASSUME NEW s \in QuoteStatus, SetStatus(s) PROVE intents' = intents
  BY <1>5 DEF SetStatus, feeVars
<1>6. ASSUME NEW l \in links, Pay(l) PROVE intents' = intents
  BY <1>6 DEF Pay
<1>7. ASSUME NEW o \in Op,
             \/ ReadDocument(o) \/ CreateSale(o) \/ LinkSale(o)
             \/ AssertHeadroom(o) \/ BookFee(o)
             \/ ReadPending(o) \/ AskForLink(o)
             \/ \E l \in links : Resolve(o, l) \/ Reconcile(o, l)
             \/ ReadFrozen(o) \/ LogWebhook(o)
             \/ Fail(o)
      PROVE  intents' = intents
  BY <1>7 DEF ReadDocument, CreateSale, LinkSale, AssertHeadroom, BookFee, ReadPending,
              AskForLink, Resolve, Reconcile, ReadFrozen, LogWebhook, Fail, feeVars
<1>8. ASSUME UNCHANGED vars PROVE Goal
  BY <1>1, <1>8 DEF vars
<1>9. ASSUME NEW s \in QuoteStatus, SetStatus(s) PROVE Goal
  BY <1>1, <1>5, <1>9
<1>10. ASSUME NEW l \in links, Pay(l) PROVE Goal
  BY <1>1, <1>6, <1>10
<1>11. ASSUME NEW o \in Op,
              \/ ReadDocument(o) \/ CreateSale(o) \/ LinkSale(o)
              \/ AssertHeadroom(o) \/ BookFee(o)
              \/ ReadPending(o) \/ AskForLink(o)
              \/ \E l \in links : Resolve(o, l) \/ Reconcile(o, l)
              \/ ReadFrozen(o) \/ LogWebhook(o)
              \/ Fail(o)
       PROVE  Goal
  <2>1. intents' = intents
    BY <1>7, <1>11
  <2>2. QED
    BY <1>1, <2>1
<1> HIDE DEF Goal
<1>12. ASSUME NEW o \in Op,
              \/ ReadDocument(o) \/ CreateSale(o) \/ LinkSale(o)
              \/ AssertHeadroom(o) \/ BookFee(o)
              \/ ReadPending(o) \/ Freeze(o) \/ AskForLink(o)
              \/ \E l \in links : Resolve(o, l) \/ Reconcile(o, l)
              \/ ReadFrozen(o) \/ Flip(o) \/ LogWebhook(o)
              \/ Fail(o)
       PROVE  Goal
  BY <1>2, <1>3, <1>11, <1>12
<1>13. Goal
  BY <1>4, <1>8, <1>9, <1>10, <1>12 DEF Next
<1>14. QED
  BY <1>13 DEF Goal

\* An intent that a confirmation completed stays completed, unless a request
\* raced with it or a charge was declined.
THEOREM CompletedStaysHolds == Spec => CompletedStays
<1>1. IInv /\ [Next]_vars =>
        [raced' \/ \A i \in DOMAIN intents :
           intents[i].status = "completed" =>
             intents'[i].status = "completed" \/ i \in declined']_vars
  BY StepKeepsCompleted
<1>2. QED
  BY <1>1, InvariantHolds, PTL DEF Spec, CompletedStays
=============================================================================
