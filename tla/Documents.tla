----------------------------- MODULE Documents -----------------------------
(***************************************************************************)
(* What documents bring the tenant and the platform: a quote that is       *)
(* converted to a sale, the flat fee every document is charged, the limit  *)
(* on unpaid fees, and the payment links that settle them.                 *)
(*                                                                         *)
(* Requests read in one session and write in another. A conversion reads   *)
(* the document, creates the sale in commits of its own and links it last. *)
(* A settlement link reads the open intent and the pending fees, writes    *)
(* the copy it read back over the row, and asks the gateway for a link;    *)
(* the links of an intent stay payable after it was given a new one.       *)
(*                                                                         *)
(* Sources: common/bridge.py (create_document, convert_document_to_sale,   *)
(* update_document_status, create_settlement_payment,                      *)
(* confirm_settlement_payment), platform/fee_calculator.py,                *)
(* payments/routes.py (the webhook, reconcile), documents/service.py.      *)
(***************************************************************************)
EXTENDS Naturals, FiniteSets, Sequences

CONSTANTS
  Op,         \* requests
  Fee,        \* rows of the fee ledger, each of one unit of money
  Limit,      \* max_pending_balance
  MaxChanges, \* bound on the changes of the document's status
  MaxFaults   \* bound on the requests that fail half-way and the declined charges

ASSUME DocumentsAssumption ==
  /\ IsFiniteSet(Op)
  /\ IsFiniteSet(Fee)
  /\ Limit \in Nat \ {0}
  /\ MaxChanges \in Nat
  /\ MaxFaults \in Nat

VARIABLES
  doc,      \* the quote: [status, sale], sale 0 while it is not linked
  sales,    \* sales created from it
  overlaps, \* conversions that began while another was under way
  orphans,  \* sales whose conversion failed before linking them
  changes,  \* status changes so far
  fee,      \* status of each row: "none", "pending" or "deducted"
  crowd,    \* the most requests that had passed the limit's check at once
  intents,  \* settlement intents in order of creation: [status, ref, frozen]
  links,    \* links the gateway knows: [intent, ref, rows]
  paid,     \* links that were paid
  logged,   \* links whose webhook is in webhook_logs
  refrozen, \* an intent was given another set of rows
  declined, \* intents that a declined charge marked failed
  raced,    \* a request wrote an intent over what another had written
  pc, held, faults

docVars  == <<doc, sales, overlaps, orphans, changes>>
feeVars  == <<fee, crowd, intents, links, paid, logged, refrozen, declined, raced>>
vars == <<doc, sales, overlaps, orphans, changes, fee, crowd, intents, links,
          paid, logged, refrozen, declined, raced, pc, held, faults>>

QuoteStatus == {"draft", "sent", "accepted", "expired", "void"}
Phase == {"ready", "billing", "selling", "linking", "freezing", "asking",
          "confirming", "flipping", "logging", "done"}

\* What a request remembers: the intent it works on (0: none), the reference
\* and the rows it read, the links it is about, the intents it saw.
Nothing == [intent |-> 0, ref |-> 0, rows |-> {}, link |-> {}, saw |-> <<>>]

Pending  == {f \in Fee : fee[f] = "pending"}
Deducted == {f \in Fee : fee[f] = "deducted"}

Init ==
  /\ doc \in [status : {"sent", "accepted"}, sale : {0}]
  /\ sales = 0 /\ overlaps = 0 /\ orphans = 0 /\ changes = 0
  /\ fee \in [Fee -> {"none", "pending"}]
  /\ Cardinality(Pending) < Limit /\ crowd = 0
  /\ intents = <<>> /\ links = {} /\ paid = {} /\ logged = {}
  /\ refrozen = FALSE /\ declined = {} /\ raced = FALSE
  /\ pc = [o \in Op |-> "ready"]
  /\ held = [o \in Op |-> Nothing]
  /\ faults = 0

Goto(o, p, h) ==
  /\ pc' = [pc EXCEPT ![o] = p]
  /\ held' = [held EXCEPT ![o] = h]

Finish(o) == Goto(o, "done", Nothing)

\* The process dies or a call fails: what was committed stays.
Fail(o) ==
  /\ pc[o] \notin {"ready", "done"} /\ faults < MaxFaults
  /\ faults' = faults + 1
  /\ orphans' = IF pc[o] = "linking" THEN orphans + 1 ELSE orphans
  /\ Finish(o)
  /\ UNCHANGED <<doc, sales, overlaps, changes, feeVars>>

-----------------------------------------------------------------------------
(* The document's status: any status of the type's list, whatever the      *)
(* present one is.                                                         *)

\* Mutation of SetStatus: the row is written anew, without its sale.
SetStatusFresh(s) ==
  /\ changes < MaxChanges /\ s # doc.status
  /\ changes' = changes + 1
  /\ doc' = [status |-> s, sale |-> 0]
  /\ UNCHANGED <<sales, overlaps, orphans, feeVars, pc, held, faults>>

SetStatus(s) ==
  /\ changes < MaxChanges /\ s # doc.status
  /\ changes' = changes + 1
  /\ doc' = [doc EXCEPT !.status = s]
  /\ UNCHANGED <<sales, overlaps, orphans, feeVars, pc, held, faults>>

-----------------------------------------------------------------------------
(* convert_document_to_sale.                                               *)

Convertible(d) == d.status \in {"sent", "accepted"} /\ d.sale = 0

UnderWay == {o \in Op : pc[o] \in {"selling", "linking"}}

ReadDocument(o) ==
  /\ pc[o] = "ready" /\ Convertible(doc)
  /\ Goto(o, "selling", Nothing)
  /\ overlaps' = overlaps + (IF UnderWay = {} THEN 0 ELSE 1)
  /\ UNCHANGED <<doc, sales, orphans, changes, feeVars, faults>>

\* The sale has commits of its own.
CreateSale(o) ==
  /\ pc[o] = "selling"
  /\ sales' = sales + 1
  /\ Goto(o, "linking", [Nothing EXCEPT !.ref = sales'])
  /\ UNCHANGED <<doc, overlaps, orphans, changes, feeVars, faults>>

LinkSale(o) ==
  /\ pc[o] = "linking"
  /\ doc' = [status |-> "accepted", sale |-> held[o].ref]
  /\ Finish(o)
  /\ UNCHANGED <<sales, overlaps, orphans, changes, feeVars, faults>>

-----------------------------------------------------------------------------
(* create_document: the limit is checked, then the document and its fee    *)
(* are committed. A checkout checks the same limit, and its sale's fee is  *)
(* booked when it is paid.                                                 *)

\* Mutation of Headroom: one more than the limit.
HeadroomLoose == Cardinality(Pending) <= Limit

Headroom == Cardinality(Pending) < Limit

Billing == {o \in Op : pc[o] = "billing"}

AssertHeadroom(o) ==
  /\ pc[o] = "ready" /\ Headroom
  /\ Goto(o, "billing", Nothing)
  /\ crowd' = IF Cardinality(Billing) < crowd THEN crowd ELSE Cardinality(Billing) + 1
  /\ UNCHANGED <<docVars, fee, intents, links, paid, logged, refrozen, declined, raced, faults>>

BookFee(o) ==
  /\ pc[o] = "billing"
  /\ \E f \in Fee : fee[f] = "none" /\ fee' = [fee EXCEPT ![f] = "pending"]
  /\ Finish(o)
  /\ UNCHANGED <<docVars, crowd, intents, links, paid, logged, refrozen, declined, raced, faults>>

-----------------------------------------------------------------------------
(* create_settlement_payment.                                              *)

\* Mutation of Open: an intent is open whatever its status.
OpenAny == DOMAIN intents

\* The intents that wait for a payment.
Open == {i \in DOMAIN intents : intents[i].status = "pending"}

Newest(S) == CHOOSE i \in S : \A j \in S : j <= i

\* The open intent and the pending rows, in one session.
ReadPending(o) ==
  /\ pc[o] = "ready" /\ Pending # {}
  /\ LET i == IF Open = {} THEN 0 ELSE Newest(Open)
         r == IF Open = {} THEN 0 ELSE intents[i].ref
     IN Goto(o, "freezing", [Nothing EXCEPT !.intent = i, !.ref = r,
                                            !.rows = Pending, !.saw = intents])
  /\ UNCHANGED <<docVars, feeVars, faults>>

\* What the intents become: a new one, or the copy that was read, with the next
\* reference and the rows that were read, merged over whatever the row holds.
Frozen(h) ==
  IF h.intent = 0
  THEN Append(intents, [status |-> "pending", ref |-> 0, frozen |-> h.rows])
  ELSE [intents EXCEPT ![h.intent] =
          [status |-> "pending", ref |-> h.ref + 1, frozen |-> h.rows]]

Freeze(o) ==
  LET h == held[o]
      i == IF h.intent = 0 THEN Len(intents) + 1 ELSE h.intent
  IN
  /\ pc[o] = "freezing"
  /\ intents' = Frozen(h)
  /\ refrozen' = (refrozen \/ h.intent # 0)
  /\ raced' = (raced \/ intents # h.saw)
  /\ Goto(o, "asking", [Nothing EXCEPT !.intent = i, !.ref = intents'[i].ref,
                                       !.rows = h.rows])
  /\ UNCHANGED <<docVars, fee, crowd, links, paid, logged, declined, faults>>

\* The gateway's answer; nothing expires the links of earlier references.
AskForLink(o) ==
  LET h == held[o] IN
  /\ pc[o] = "asking"
  /\ links' = links \cup {[intent |-> h.intent, ref |-> h.ref, rows |-> h.rows]}
  /\ Finish(o)
  /\ UNCHANGED <<docVars, fee, crowd, intents, paid, logged, refrozen, declined, raced, faults>>

-----------------------------------------------------------------------------
(* The payment and its confirmation.                                       *)

\* The tenant pays a link that was issued.
Pay(l) ==
  /\ l \in links \ paid
  /\ paid' = paid \cup {l}
  /\ UNCHANGED <<docVars, fee, crowd, intents, links, logged, refrozen, declined, raced, pc,
                 held, faults>>

\* charge.failed: an attempt to pay the link was declined, or its event comes
\* late; the intent is failed whatever its status is.
Decline(l) ==
  /\ l \in links /\ faults < MaxFaults
  /\ faults' = faults + 1
  /\ intents' = [intents EXCEPT ![l.intent].status = "failed"]
  /\ declined' = declined \cup {l.intent}
  /\ UNCHANGED <<docVars, fee, crowd, links, paid, logged, refrozen, raced, pc, held>>

\* A delivery of the webhook that is not yet in webhook_logs. It finds a pending
\* intent by the link's metadata, and without it by the current reference; a
\* delivery that finds none ends here.
Resolve(o, l) ==
  /\ pc[o] = "ready" /\ l \in paid \ logged
  /\ intents[l.intent].status = "pending"
  /\ Goto(o, "confirming", [Nothing EXCEPT !.intent = l.intent, !.link = {l}])
  /\ UNCHANGED <<docVars, feeVars, faults>>

Covers(l, i) == l \in paid /\ Cardinality(intents[i].frozen) <= Cardinality(l.rows)

\* reconcile_settlement_payment: the gateway confirms that the reference an open
\* intent has now was paid, for at least the intent's amount.
Reconcile(o, l) ==
  /\ pc[o] = "ready"
  /\ l.intent \in Open /\ l.ref = intents[l.intent].ref
  /\ Covers(l, l.intent)
  /\ Goto(o, "confirming", [Nothing EXCEPT !.intent = l.intent])
  /\ UNCHANGED <<docVars, feeVars, faults>>

\* Mutation of Swept: every pending fee is flipped.
SweptAll(h) == Fee

\* Mutation of Swept: the frozen rows are lost.
SweptNone(h) == {}

\* The rows an intent settles are those frozen on it.
Swept(h) == intents[h.intent].frozen

\* The confirmation reads the intent and does not look at its status.
ReadFrozen(o) ==
  /\ pc[o] = "confirming"
  /\ Goto(o, "flipping", [held[o] EXCEPT !.rows = Swept(held[o])])
  /\ UNCHANGED <<docVars, feeVars, faults>>

\* The intent is completed and the rows still pending are deducted.
Flip(o) ==
  LET h == held[o] IN
  /\ pc[o] = "flipping"
  /\ intents' = [intents EXCEPT ![h.intent].status = "completed"]
  /\ fee' = [f \in Fee |-> IF f \in h.rows /\ fee[f] = "pending" THEN "deducted"
                                                             ELSE fee[f]]
  /\ Goto(o, "logging", [Nothing EXCEPT !.link = h.link])
  /\ UNCHANGED <<docVars, crowd, links, paid, logged, refrozen, declined, raced, faults>>

\* Only a webhook is logged.
LogWebhook(o) ==
  /\ pc[o] = "logging"
  /\ logged' = logged \cup held[o].link
  /\ Finish(o)
  /\ UNCHANGED <<docVars, fee, crowd, intents, links, paid, refrozen, declined, raced, faults>>

Next ==
  \/ \E s \in QuoteStatus : SetStatus(s)
  \/ \E l \in links : Pay(l) \/ Decline(l)
  \/ \E o \in Op :
       \/ ReadDocument(o) \/ CreateSale(o) \/ LinkSale(o)
       \/ AssertHeadroom(o) \/ BookFee(o)
       \/ ReadPending(o) \/ Freeze(o) \/ AskForLink(o)
       \/ \E l \in links : Resolve(o, l) \/ Reconcile(o, l)
       \/ ReadFrozen(o) \/ Flip(o) \/ LogWebhook(o)
       \/ Fail(o)

Spec == Init /\ [][Next]_vars

-----------------------------------------------------------------------------
(* What holds of documents and fees.                                       *)

Intent == [status : {"pending", "completed", "failed"}, ref : Nat, frozen : SUBSET Fee]
Link   == [intent : Nat, ref : Nat, rows : SUBSET Fee]
Memo   == [intent : Nat, ref : Nat, rows : SUBSET Fee, link : SUBSET paid,
           saw : Seq(Intent)]

\* The kinds of values.
TypeOK ==
  /\ doc \in [status : QuoteStatus, sale : 0 .. sales]
  /\ sales \in Nat /\ overlaps \in Nat /\ orphans \in Nat /\ changes \in 0 .. MaxChanges
  /\ fee \in [Fee -> {"none", "pending", "deducted"}] /\ crowd \in Nat
  /\ intents \in Seq(Intent)
  /\ links \subseteq Link /\ paid \subseteq links /\ logged \subseteq paid
  /\ refrozen \in BOOLEAN /\ declined \subseteq DOMAIN intents /\ raced \in BOOLEAN
  /\ pc \in [Op -> Phase]
  /\ held \in [Op -> Memo]
  /\ faults \in 0 .. MaxFaults

\* A document yields one sale, and one more for each conversion that began
\* during another or failed before its link; once no conversion is under way, a
\* sale that was not orphaned is linked (bridge.py, convert_document_to_sale).
SalesAccountedFor ==
  /\ sales <= 1 + overlaps + orphans
  /\ UnderWay = {} /\ sales > orphans => doc.sale # 0

\* The unpaid fees pass the limit by no more than the requests that had passed
\* its check together (fee_calculator.py, assert_fee_headroom).
HeadroomHolds == Cardinality(Pending) + Cardinality(Billing) < Limit + crowd

\* While no intent was given other rows, a fee is deducted only if a link that
\* stands for it was paid (bridge.py, confirm_settlement_payment).
DeductedIsPaid ==
  ~refrozen => \A f \in Deducted : \E l \in paid : f \in l.rows

\* Money is never stuck: unless an intent was given other rows, a link that was
\* paid has settled its fees or can still settle them, since its intent is
\* pending or a declined charge failed it (payments/routes.py, the webhook and
\* reconcile, which look for pending intents only).
PaidCanSettle ==
  ~refrozen =>
    \A l \in paid :
      \/ l.rows \subseteq Deducted
      \/ intents[l.intent].status = "pending"
      \/ l.intent \in declined

\* Only a request that raced or a declined charge reopens a completed intent.
CompletedStays == [][
  raced' \/ \A i \in DOMAIN intents :
    intents[i].status = "completed" => intents'[i].status = "completed" \/ i \in declined']_vars
=============================================================================
