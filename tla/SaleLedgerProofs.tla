-------------------------- MODULE SaleLedgerProofs --------------------------
(***************************************************************************)
(* Proofs about SaleLedger, for any requests, total, pool and either leg.  *)
(*                                                                         *)
(* What a request read of the sale is never ahead of the payments, and     *)
(* while no two requests have raced it is what the sale still says         *)
(* (ReaderKnows, Alone). From there on each conjunct of the inductive      *)
(* invariant is one account: the sale's money, the receivable, the staged  *)
(* confirmations, the reversals and the records of the leg. The same facts *)
(* show that each commit is an operation of Till.                          *)
(*                                                                         *)
(* The second part proves HotReads.                                        *)
(***************************************************************************)
EXTENDS SaleLedger, HotReads, FiniteSetTheorems, SequenceTheorems, TLAPS

\* Which kinds of requests are found in which phase.
Fits(c) ==
  /\ pc[c] \in {"flushing", "locked"} => kind[c] \in {"pay", "hook"}
  /\ pc[c] = "reading" => kind[c] \in {"pay", "split"}
  /\ pc[c] = "splitting" => kind[c] = "split"
  /\ pc[c] \in {"checking", "undoing"} => kind[c] \in {"void", "return"}
  /\ pc[c] = "linking" => kind[c] = "link"
  /\ pc[c] \in {"deduping", "claiming", "marking", "claimed", "flipping", "logging"}
       => kind[c] = "hook"
  /\ pc[c] = "ready" => kind[c] = "none"

\* What a request holds of the sale that it has read.
ReaderKnows(c) ==
  pc[c] \in Inner =>
    /\ held[c].paid <= taken
    /\ ~raced => held[c].paid = paid /\ held[c].status = status

\* What it holds of the receivable; Total stands for a row that is settled or
\* not to be found.
PayerKnows(c) ==
  pc[c] = "locked" =>
    \/ held[c].ar = Total
    \/ held[c].ar <= credited /\ (~raced => held[c].ar = arPaid)

\* Unless two requests raced, one at a time is between reading and commit.
Alone == ~raced => \A c, d \in Call : Stale(c) /\ Stale(d) => c = d

\* A sale that is open has no confirmation but those that revivals account for.
ConfirmsCounted ==
  ~raced => confirms <= Revivals(undone)
                          + (IF status \in {"pending", "partial"} THEN 0 ELSE 1)

\* The last reversal is still what the sale says, and a request about to undo
\* the sale finds it as it was checked.
LastUndo ==
  ~raced =>
    /\ undone # <<>> => /\ undone[Len(undone)] = "void" => status = "voided"
                        /\ undone[Len(undone)] = "return" => status = "returned"
    /\ \A c \in Call : pc[c] = "undoing" => status \notin Refuses(kind[c])

\* No delivery of the card leg's webhook has met another, or failed.
Clean ==
  /\ CardLeg /\ ~raced
  /\ \A c \in Call : kind[c] = "hook" => pc[c] \notin {"dead", "timeout"}

Recording == {"claiming", "marking", "claimed", "flushing", "locked"}
Recorded  == {"flipping", "logging"}

\* Then one delivery at a time is past the look-up, before it is logged, and the
\* leg has a record exactly if it was recorded by that one or one that is logged.
LegInPlace ==
  Clean =>
    /\ \A c, d \in Call :
         /\ kind[c] = "hook" /\ pc[c] \in Recording \cup Recorded
         /\ kind[d] = "hook" /\ pc[d] \in Recording \cup Recorded
         => c = d
    /\ \A c \in Call : kind[c] = "hook" =>
         /\ pc[c] \in Recording => ~logged /\ legTaken = 0
         /\ pc[c] \in Recorded => ~logged
    /\ legTaken <= 1
    /\ legTaken = 1 =>
         logged \/ \E c \in Call : kind[c] = "hook" /\ pc[c] \in Recorded

IInv ==
  /\ TypeOK
  /\ \A c \in Call : Fits(c) /\ ReaderKnows(c) /\ PayerKnows(c)
  /\ Alone
  /\ PaidIsTaken /\ ReceivableFollowsBooks
  /\ ConfirmsCounted
  /\ UndoneOnce /\ LastUndo
  /\ LegInPlace

HeldRow == [paid : Nat, status : Status, ar : 0 .. Total]

\* A request that moves keeps the types of phases and amounts.
LEMMA GotoType ==
  ASSUME TypeOK, NEW c \in Call, NEW p \in Phase, Goto(c, p)
  PROVE  /\ pc' \in [Call -> Phase] /\ amt' \in [Call -> 0 .. Total]
         /\ pc'[c] = p /\ \A d \in Call \ {c} : pc'[d] = pc[d] /\ amt'[d] = amt[d]
BY LedgerAssumption DEF Goto, TypeOK

\* What a payment would write is an amount and a status of the sale.
LEMMA WritesType ==
  ASSUME TypeOK, NEW c \in Call
  PROVE  /\ NewPaid(c) \in Nat /\ NewStatus(c) \in Status /\ WriteStatus(c) \in Status
         /\ Confirms(c) \in {0, 1} /\ amt[c] \in Nat /\ held[c] \in HeldRow
         /\ Settles(c) \in 0 .. (Total - held[c].ar)
         /\ Revives(c) \in Seq({"void", "return", "pay"})
<1>1. /\ held[c] \in HeldRow /\ held[c].status \in Status /\ held[c].paid \in Nat
      /\ held[c].ar \in 0 .. Total
      /\ amt[c] \in 0 .. Total /\ status \in Status /\ Total \in Nat
    BY LedgerAssumption DEF TypeOK, HeldRow
<1>2. NewPaid(c) \in Nat /\ NewStatus(c) \in Status
  BY <1>1 DEF NewPaid, NewStatus, Status
<1>3. WriteStatus(c) \in Status /\ Confirms(c) \in {0, 1}
  BY <1>1, <1>2 DEF WriteStatus, Confirms
<1>4. Settles(c) \in 0 .. (Total - held[c].ar)
  BY <1>1 DEF Settles, Smaller
<1>5. Revives(c) \in Seq({"void", "return", "pay"})
  BY DEF Revives, TypeOK
<1>6. QED
  BY <1>1, <1>2, <1>3, <1>4, <1>5

\* Every step keeps the types.
LEMMA TypeNext ==
  ASSUME TypeOK, \A c \in Call : Fits(c), [Next]_vars
  PROVE  TypeOK'
<1> USE DEF bookVars, saleVars, moneyVars, undoVars, legVars, hookVars
<1>1. CASE Book
  BY <1>1, LedgerAssumption DEF Book, TypeOK, Phase, Kind, Status, Amount
<1>2. CASE LoseBooks
  BY <1>2, LedgerAssumption DEF LoseBooks, TypeOK, Phase, Kind, Status, Amount
<1>3. CASE Forget
  BY <1>3 DEF Forget, TypeOK
<1>4. ASSUME NEW c \in Call, Pay(c) PROVE TypeOK'
  BY <1>4, LedgerAssumption DEF Pay, Begin, TypeOK, Phase, Kind, Status, Amount
<1>5. ASSUME NEW c \in Call, Split(c) PROVE TypeOK'
  BY <1>5, LedgerAssumption DEF Split, Begin, TypeOK, Phase, Kind, Status, Amount
<1>6. ASSUME NEW c \in Call, StartLink(c) PROVE TypeOK'
  BY <1>6, LedgerAssumption DEF StartLink, Begin, TypeOK, Phase, Kind, Status, Amount
<1>7. ASSUME NEW c \in Call, Hook(c) PROVE TypeOK'
  <2>1. legAmt \in 0 .. Total
    BY DEF TypeOK
  <2>2. pc' \in [Call -> Phase] /\ amt' \in [Call -> 0 .. Total] /\ kind' \in [Call -> Kind]
    BY <1>7, <2>1, LedgerAssumption DEF Hook, Begin, TypeOK, Phase, Kind
  <2>3. QED
    BY <1>7, <2>2 DEF Hook, Begin, TypeOK
<1>8. ASSUME NEW c \in Call, ArPay(c) PROVE TypeOK'
  <2>1. /\ pc' \in [Call -> Phase] /\ amt' \in [Call -> 0 .. Total]
    <3>1. Goto(c, "refused") \/ Goto(c, "done")
      BY <1>8 DEF ArPay
    <3>2. QED
      BY <3>1, GotoType DEF Phase
  <2>2. (arPaid' \in 0 .. Total) /\ (credited' \in Nat) /\ (raced' \in BOOLEAN)
    <3>1. PICK a \in Amount :
            \/ UNCHANGED <<arPaid, credited, raced>>
            \/ /\ ~(a > Total - arPaid)
               /\ arPaid' = arPaid + a /\ credited' = credited + a
               /\ raced' = (raced \/ \E d \in Call : pc[d] = "locked")
      BY <1>8 DEF ArPay
    <3>2. a \in Nat /\ Total \in Nat /\ arPaid \in 0 .. Total /\ credited \in Nat
            /\ raced \in BOOLEAN
      BY LedgerAssumption DEF TypeOK, Amount
    <3>3. raced' \in BOOLEAN
      BY <3>1, <3>2
    <3>4. (arPaid' \in 0 .. Total) /\ (credited' \in Nat)
      BY <3>1, <3>2
    <3>5. QED
      BY <3>3, <3>4
  <2>3. kind' \in [Call -> Kind]
    BY <1>8 DEF ArPay, TypeOK, Kind
  <2>4. QED
    BY <1>8, <2>1, <2>2, <2>3 DEF ArPay, TypeOK
<1>9. ASSUME NEW c \in Call, Undo(c) PROVE TypeOK'
  <2>1. PICK k \in {"void", "return"} : Begin(c, k, 0, "checking")
    BY <1>9 DEF Undo
  <2>2. /\ pc' \in [Call -> Phase] /\ amt' \in [Call -> 0 .. Total]
        /\ kind' \in [Call -> Kind]
    BY <2>1, LedgerAssumption DEF Begin, TypeOK, Phase, Kind
  <2>3. QED
    BY <1>9, <2>1, <2>2 DEF Undo, Begin, TypeOK
<1>10. ASSUME NEW c \in Call, ReadSale(c) PROVE TypeOK'
  <2>1. /\ pc' \in [Call -> Phase] /\ amt' \in [Call -> 0 .. Total]
    BY <1>10, GotoType DEF ReadSale, Phase
  <2>2. paid \in Nat /\ status \in Status /\ held[c] \in HeldRow
    BY LedgerAssumption DEF TypeOK, HeldRow
  <2>3. held' \in [Call -> HeldRow]
    BY <1>10, <2>2 DEF ReadSale, HeldRow, TypeOK
  <2>4. QED
    BY <1>10, <2>1, <2>3, LedgerAssumption DEF ReadSale, TypeOK, HeldRow
<1>11. ASSUME NEW c \in Call, Flush(c) PROVE TypeOK'
  <2>1. /\ pc' \in [Call -> Phase] /\ amt' \in [Call -> 0 .. Total]
    BY SMTT(30), <1>11, LedgerAssumption DEF Flush, Goto, TypeOK, Phase
  <2>2. arPaid \in 0 .. Total /\ Total \in 0 .. Total /\ held[c] \in HeldRow
    BY LedgerAssumption DEF TypeOK, HeldRow
  <2>3. held' \in [Call -> HeldRow]
    BY <1>11, <2>2 DEF Flush, HeldRow, TypeOK
  <2>4. QED
    BY <1>11, <2>1, <2>3, LedgerAssumption DEF Flush, TypeOK, HeldRow
<1>12. ASSUME NEW c \in Call, CommitPayment(c) PROVE TypeOK'
  <2>1. /\ pc' \in [Call -> Phase] /\ amt' \in [Call -> 0 .. Total]
    BY <1>12, LedgerAssumption DEF CommitPayment, Goto, TypeOK, Phase
  <2>2. held' \in [Call -> HeldRow]
    BY <1>12, LedgerAssumption DEF CommitPayment, Drop, TypeOK, HeldRow, Status
  <2>3. /\ NewPaid(c) \in Nat /\ WriteStatus(c) \in Status
        /\ Confirms(c) \in {0, 1} /\ amt[c] \in Nat /\ held[c] \in HeldRow
        /\ Settles(c) \in 0 .. (Total - held[c].ar)
        /\ Revives(c) \in Seq({"void", "return", "pay"})
    BY WritesType
  <2>4. /\ taken \in Nat /\ confirms \in Nat /\ pend \in Nat /\ ded \in Nat
        /\ credited \in Nat /\ arPaid \in 0 .. Total /\ Total \in Nat /\ legTaken \in Nat
    BY LedgerAssumption DEF TypeOK
  <2>5. (taken' \in Nat) /\ (paid' \in Nat) /\ (status' \in Status) /\ (confirms' \in Nat)
    BY <1>12, <2>3, <2>4 DEF CommitPayment
  <2>6. (pend' \in Nat) /\ (ded' \in Nat) /\ (legTaken' \in Nat)
    BY SMTT(30), <1>12, <2>3, <2>4 DEF CommitPayment, BookFee
  <2>7. (arPaid' \in 0 .. Total) /\ (credited' \in Nat)
    <3>1. held[c].ar \in 0 .. Total
      BY <2>3 DEF HeldRow
    <3>2. DrawDown(c)
      BY <1>12 DEF CommitPayment
    <3>3. Settles(c) \in Nat /\ held[c].ar + Settles(c) \in 0 .. Total
      <4>1. PICK d \in Nat, a \in Nat : d = Settles(c) /\ a = held[c].ar
        BY <2>3, <2>4, <3>1
      <4>2. d <= Total - a
        BY <2>3, <4>1
      <4>3. QED
        BY <2>4, <4>1, <4>2
    <3>4. QED
      BY <2>4, <3>2, <3>3 DEF DrawDown
  <2>8. undone' \in Seq({"void", "return", "pay"})
    BY <1>12, <2>3 DEF CommitPayment
  <2>9. lock' = NoCall
    BY <1>12 DEF CommitPayment
  <2>10. UNCHANGED <<receivable, books, reversed, legVars, legLock, hookVars, raced,
                     kind, deaths>>
    BY <1>12 DEF CommitPayment
  <2>11. QED
    BY <2>1, <2>2, <2>5, <2>6, <2>7, <2>8, <2>9, <2>10 DEF TypeOK, HeldRow
<1>13. ASSUME NEW c \in Call, CommitSplit(c) PROVE TypeOK'
  <2>1. /\ pc' \in [Call -> Phase] /\ amt' \in [Call -> 0 .. Total]
    BY <1>13, LedgerAssumption DEF CommitSplit, Goto, TypeOK, Phase
  <2>2. held' \in [Call -> HeldRow]
    BY <1>13, LedgerAssumption DEF CommitSplit, Drop, TypeOK, HeldRow, Status
  <2>3. /\ NewPaid(c) \in Nat /\ WriteStatus(c) \in Status /\ amt[c] \in 0 .. Total
        /\ Revives(c) \in Seq({"void", "return", "pay"})
    BY WritesType DEF TypeOK
  <2>4. /\ taken \in Nat /\ pend \in Nat /\ ded \in Nat /\ paid \in Nat /\ Total \in Nat
    BY LedgerAssumption DEF TypeOK
  <2>5. (taken' \in Nat) /\ (paid' \in Nat) /\ (status' \in Status)
    BY <1>13, <2>3, <2>4 DEF CommitSplit
  <2>6. (pend' \in Nat) /\ (ded' \in Nat) /\ (legAmt' \in 0 .. Total)
    <3>1. SplitFee(c) /\ legAmt' = Total - amt[c]
      BY <1>13 DEF CommitSplit
    <3>2. Total - amt[c] \in 0 .. Total /\ amt[c] \in Nat
      BY <2>3, <2>4
    <3>3. QED
      BY <2>4, <3>1, <3>2 DEF SplitFee
  <2>7. (undone' \in Seq({"void", "return", "pay"})) /\ leg' = "pending"
    BY <1>13, <2>3 DEF CommitSplit
  <2>8. UNCHANGED <<bookVars, lock, confirms, reversed, legLock, legTaken,
                    hookVars, raced, kind, deaths>>
    BY <1>13 DEF CommitSplit
  <2>9. QED
    BY <2>1, <2>2, <2>5, <2>6, <2>7, <2>8 DEF TypeOK, HeldRow
<1>14. ASSUME NEW c \in Call, Link(c) PROVE TypeOK'
  BY <1>14, LedgerAssumption DEF Link, Goto, TypeOK, Phase, Kind, Status, Amount
<1>15. ASSUME NEW c \in Call, Dedupe(c) PROVE TypeOK'
  BY <1>15, LedgerAssumption DEF Dedupe, Keep, Goto, TypeOK, Phase, Kind, Status, Amount
<1>16. ASSUME NEW c \in Call, Open(c) PROVE TypeOK'
  BY <1>16, LedgerAssumption DEF Open, Keep, Goto, TypeOK, Phase, Kind, Status, Amount
<1>17. ASSUME NEW c \in Call, Claim(c) PROVE TypeOK'
  BY <1>17, LedgerAssumption DEF Claim, Keep, Goto, TypeOK, Phase, Kind, Status, Amount
<1>18. ASSUME NEW c \in Call, Flip(c) PROVE TypeOK'
  BY <1>18, LedgerAssumption DEF Flip, Goto, TypeOK, Phase, Kind, Status, Amount
<1>19. ASSUME NEW c \in Call, LogWebhook(c) PROVE TypeOK'
  BY <1>19, LedgerAssumption DEF LogWebhook, Keep, Goto, TypeOK, Phase, Kind, Status, Amount
<1>20. ASSUME NEW c \in Call, CheckUndo(c) PROVE TypeOK'
  <2>1. /\ pc' \in [Call -> Phase] /\ amt' \in [Call -> 0 .. Total]
    BY <1>20, LedgerAssumption DEF CheckUndo, Goto, TypeOK, Phase
  <2>2. raced' \in BOOLEAN
    BY <1>20 DEF CheckUndo, TypeOK
  <2>3. UNCHANGED <<bookVars, saleVars, lock, moneyVars, undoVars, legVars,
                    legLock, legTaken, hookVars, kind, held, deaths>>
    BY <1>20 DEF CheckUndo
  <2>4. QED
    BY <2>1, <2>2, <2>3 DEF TypeOK
<1>21. ASSUME NEW c \in Call, CommitUndo(c) PROVE TypeOK'
  <2>1. /\ pc' \in [Call -> Phase] /\ amt' \in [Call -> 0 .. Total]
    BY <1>21, LedgerAssumption DEF CommitUndo, Goto, TypeOK, Phase
  <2>2. kind[c] \in {"void", "return"} /\ undone \in Seq({"void", "return", "pay"})
    BY <1>21 DEF CommitUndo, Fits, TypeOK
  <2>3. undone' \in Seq({"void", "return", "pay"})
    BY <1>21, <2>2 DEF CommitUndo
  <2>4. QED
    BY <1>21, <2>1, <2>3 DEF CommitUndo, TypeOK, Status
<1>22. ASSUME NEW c \in Call, PoolTimeout(c) PROVE TypeOK'
  BY <1>22, LedgerAssumption DEF PoolTimeout, Goto, Release, TypeOK, Phase, Kind, Status, Amount
<1>23. ASSUME NEW c \in Call, GiveUp(c) PROVE TypeOK'
  BY <1>23, LedgerAssumption DEF GiveUp, Goto, Drop, TypeOK, Phase, Kind, Status, Amount
<1>24. ASSUME NEW c \in Call, Die(c) PROVE TypeOK'
  BY <1>24, LedgerAssumption DEF Die, Goto, Release, Drop, TypeOK, Phase, Kind, Status, Amount
<1>25. CASE UNCHANGED vars
  BY <1>25 DEF vars, TypeOK, Phase, Kind, Status, Amount
<1>26. QED
  BY <1>1, <1>2, <1>3, <1>4, <1>5, <1>6, <1>7, <1>8, <1>9, <1>10, <1>11, <1>12, <1>13,
     <1>14, <1>15, <1>16, <1>17, <1>18, <1>19, <1>20, <1>21, <1>22, <1>23, <1>24, <1>25
     DEF Next, Arrive, Advance

\* Requests of each kind stay in their phases.
LEMMA FitsNext ==
  ASSUME TypeOK, \A c \in Call : Fits(c), [Next]_vars
  PROVE  \A c \in Call : Fits(c)'
<1> USE DEF bookVars, saleVars, moneyVars, undoVars, legVars, hookVars
<1>1. CASE Book
  BY <1>1 DEF Book, TypeOK, Fits, Ended
<1>2. CASE LoseBooks
  BY <1>2 DEF LoseBooks, TypeOK, Fits, Ended
<1>3. CASE Forget
  BY <1>3 DEF Forget, TypeOK, Fits, Ended
<1>4. ASSUME NEW c \in Call, Pay(c) PROVE \A b \in Call : Fits(b)'
  BY <1>4 DEF Pay, Begin, TypeOK, Fits, Ended
<1>5. ASSUME NEW c \in Call, Split(c) PROVE \A b \in Call : Fits(b)'
  BY <1>5 DEF Split, Begin, TypeOK, Fits, Ended
<1>6. ASSUME NEW c \in Call, StartLink(c) PROVE \A b \in Call : Fits(b)'
  BY <1>6 DEF StartLink, Begin, TypeOK, Fits, Ended
<1>7. ASSUME NEW c \in Call, Hook(c) PROVE \A b \in Call : Fits(b)'
  BY <1>7 DEF Hook, Begin, TypeOK, Fits, Ended
<1>8. ASSUME NEW c \in Call, ArPay(c) PROVE \A b \in Call : Fits(b)'
  BY SMTT(30), <1>8 DEF ArPay, Goto, TypeOK, Fits, Ended
<1>9. ASSUME NEW c \in Call, Undo(c) PROVE \A b \in Call : Fits(b)'
  BY <1>9 DEF Undo, Begin, TypeOK, Fits, Ended
<1>10. ASSUME NEW c \in Call, ReadSale(c) PROVE \A b \in Call : Fits(b)'
  BY <1>10 DEF ReadSale, Goto, TypeOK, Fits, Ended
<1>11. ASSUME NEW c \in Call, Flush(c) PROVE \A b \in Call : Fits(b)'
  BY <1>11 DEF Flush, Goto, TypeOK, Fits, Ended
<1>12. ASSUME NEW c \in Call, CommitPayment(c) PROVE \A b \in Call : Fits(b)'
  BY <1>12 DEF CommitPayment, Goto, Drop, TypeOK, Fits, Ended
<1>13. ASSUME NEW c \in Call, CommitSplit(c) PROVE \A b \in Call : Fits(b)'
  BY <1>13 DEF CommitSplit, Goto, Drop, TypeOK, Fits, Ended
<1>14. ASSUME NEW c \in Call, Link(c) PROVE \A b \in Call : Fits(b)'
  BY <1>14 DEF Link, Goto, TypeOK, Fits, Ended
<1>15. ASSUME NEW c \in Call, Dedupe(c) PROVE \A b \in Call : Fits(b)'
  BY <1>15 DEF Dedupe, Keep, Goto, TypeOK, Fits, Ended
<1>16. ASSUME NEW c \in Call, Open(c) PROVE \A b \in Call : Fits(b)'
  BY <1>16 DEF Open, Keep, Goto, TypeOK, Fits, Ended
<1>17. ASSUME NEW c \in Call, Claim(c) PROVE \A b \in Call : Fits(b)'
  BY <1>17 DEF Claim, Keep, Goto, TypeOK, Fits, Ended
<1>18. ASSUME NEW c \in Call, Flip(c) PROVE \A b \in Call : Fits(b)'
  BY <1>18 DEF Flip, Goto, TypeOK, Fits, Ended
<1>19. ASSUME NEW c \in Call, LogWebhook(c) PROVE \A b \in Call : Fits(b)'
  BY <1>19 DEF LogWebhook, Keep, Goto, TypeOK, Fits, Ended
<1>20. ASSUME NEW c \in Call, CheckUndo(c) PROVE \A b \in Call : Fits(b)'
  BY <1>20 DEF CheckUndo, Goto, TypeOK, Fits, Ended
<1>21. ASSUME NEW c \in Call, CommitUndo(c) PROVE \A b \in Call : Fits(b)'
  BY <1>21 DEF CommitUndo, Goto, TypeOK, Fits, Ended
<1>22. ASSUME NEW c \in Call, PoolTimeout(c) PROVE \A b \in Call : Fits(b)'
  BY <1>22 DEF PoolTimeout, Goto, Release, TypeOK, Fits, Ended
<1>23. ASSUME NEW c \in Call, GiveUp(c) PROVE \A b \in Call : Fits(b)'
  BY <1>23 DEF GiveUp, Goto, Drop, TypeOK, Fits, Ended
<1>24. ASSUME NEW c \in Call, Die(c) PROVE \A b \in Call : Fits(b)'
  BY <1>24 DEF Die, Goto, Release, Drop, TypeOK, Fits, Ended
<1>25. CASE UNCHANGED vars
  BY <1>25 DEF vars, TypeOK, Fits
<1>26. QED
  BY <1>1, <1>2, <1>3, <1>4, <1>5, <1>6, <1>7, <1>8, <1>9, <1>10, <1>11, <1>12, <1>13,
     <1>14, <1>15, <1>16, <1>17, <1>18, <1>19, <1>20, <1>21, <1>22, <1>23, <1>24, <1>25
     DEF Next, Arrive, Advance

\* A payment writes an open or a completed status, or leaves the sale's, and
\* completes only what is paid.
LEMMA PaymentWrites ==
  ASSUME TypeOK, NEW c \in Call
  PROVE  /\ WriteStatus(c) \in {status, "partial", "completed"}
         /\ WriteStatus(c) = "completed" => status = "completed" \/ NewPaid(c) >= Total
         /\ Revives(c) = IF status \in {"voided", "returned"} /\ WriteStatus(c) # status
                         THEN Append(undone, "pay") ELSE undone
BY WritesType DEF WriteStatus, NewStatus, Revives

\* While no two requests raced, it keeps a completed sale completed, and confirms
\* just the sale that it completes.
LEMMA PaymentWritesFresh ==
  ASSUME TypeOK, PaidIsTaken, NEW c \in Call, ReaderKnows(c), pc[c] \in Inner, ~raced
  PROVE  /\ status = "completed" => WriteStatus(c) = "completed"
         /\ Confirms(c) = IF WriteStatus(c) = "completed" /\ status # "completed"
                          THEN 1 ELSE 0
<1>1. /\ held[c].paid = paid /\ held[c].status = status /\ paid = taken
      /\ status = "completed" => paid >= Total
  BY DEF ReaderKnows, PaidIsTaken
<1>2. /\ amt[c] \in Nat /\ paid \in Nat /\ Total \in Nat
  BY LedgerAssumption DEF TypeOK
<1>3. WriteStatus(c) = NewStatus(c)
  BY <1>1 DEF WriteStatus
<1>4. status = "completed" => NewStatus(c) = "completed"
  BY <1>1, <1>2 DEF NewStatus, NewPaid
<1>5. QED
  BY <1>1, <1>3, <1>4 DEF Confirms

\* Only a request that begins to read can meet another one that has read.
LEMMA AloneNext ==
  ASSUME TypeOK, \A c \in Call : Fits(c) /\ ReaderKnows(c) /\ PayerKnows(c), Alone, [Next]_vars
  PROVE  Alone'
<1> USE DEF bookVars, saleVars, moneyVars, undoVars, legVars, hookVars
<1>1. CASE Book
  BY <1>1 DEF Book, TypeOK, Alone, Stale, Ended
<1>2. CASE LoseBooks
  BY <1>2 DEF LoseBooks, TypeOK, Alone, Stale, Ended
<1>3. CASE Forget
  BY <1>3 DEF Forget, TypeOK, Alone, Stale, Ended
<1>4. ASSUME NEW c \in Call, Pay(c) PROVE Alone'
  BY <1>4 DEF Pay, Begin, TypeOK, Alone, Stale, Ended
<1>5. ASSUME NEW c \in Call, Split(c) PROVE Alone'
  BY <1>5 DEF Split, Begin, TypeOK, Alone, Stale, Ended
<1>6. ASSUME NEW c \in Call, StartLink(c) PROVE Alone'
  BY <1>6 DEF StartLink, Begin, TypeOK, Alone, Stale, Ended
<1>7. ASSUME NEW c \in Call, Hook(c) PROVE Alone'
  BY <1>7 DEF Hook, Begin, TypeOK, Alone, Stale, Ended
<1>8. ASSUME NEW c \in Call, ArPay(c) PROVE Alone'
  BY <1>8 DEF ArPay, Goto, TypeOK, Alone, Stale, Ended
<1>9. ASSUME NEW c \in Call, Undo(c) PROVE Alone'
  BY <1>9 DEF Undo, Begin, TypeOK, Alone, Stale, Ended
<1>10. ASSUME NEW c \in Call, ReadSale(c) PROVE Alone'
  BY <1>10 DEF ReadSale, Goto, TypeOK, Alone, Stale, Ended, Reckoning
<1>11. ASSUME NEW c \in Call, Flush(c) PROVE Alone'
  BY <1>11 DEF Flush, Goto, TypeOK, Alone, Stale, Ended
<1>12. ASSUME NEW c \in Call, CommitPayment(c) PROVE Alone'
  BY <1>12 DEF CommitPayment, Goto, Drop, TypeOK, Alone, Stale, Ended
<1>13. ASSUME NEW c \in Call, CommitSplit(c) PROVE Alone'
  BY <1>13 DEF CommitSplit, Goto, Drop, TypeOK, Alone, Stale, Ended
<1>14. ASSUME NEW c \in Call, Link(c) PROVE Alone'
  BY <1>14 DEF Link, Goto, TypeOK, Alone, Stale, Ended
<1>15. ASSUME NEW c \in Call, Dedupe(c) PROVE Alone'
  BY <1>15 DEF Dedupe, Keep, Goto, TypeOK, Alone, Stale, Ended
<1>16. ASSUME NEW c \in Call, Open(c) PROVE Alone'
  BY <1>16 DEF Open, Keep, Goto, TypeOK, Alone, Stale, Ended
<1>17. ASSUME NEW c \in Call, Claim(c) PROVE Alone'
  BY <1>17 DEF Claim, Keep, Goto, TypeOK, Alone, Stale, Ended
<1>18. ASSUME NEW c \in Call, Flip(c) PROVE Alone'
  BY <1>18 DEF Flip, Goto, TypeOK, Alone, Stale, Ended
<1>19. ASSUME NEW c \in Call, LogWebhook(c) PROVE Alone'
  BY <1>19 DEF LogWebhook, Keep, Goto, TypeOK, Alone, Stale, Ended
<1>20. ASSUME NEW c \in Call, CheckUndo(c) PROVE Alone'
  BY <1>20 DEF CheckUndo, Goto, TypeOK, Alone, Stale, Ended, Reckoning
<1>21. ASSUME NEW c \in Call, CommitUndo(c) PROVE Alone'
  BY <1>21 DEF CommitUndo, Goto, TypeOK, Alone, Stale, Ended
<1>22. ASSUME NEW c \in Call, PoolTimeout(c) PROVE Alone'
  BY <1>22 DEF PoolTimeout, Goto, Release, TypeOK, Alone, Stale, Ended
<1>23. ASSUME NEW c \in Call, GiveUp(c) PROVE Alone'
  BY <1>23 DEF GiveUp, Goto, Drop, TypeOK, Alone, Stale, Ended
<1>24. ASSUME NEW c \in Call, Die(c) PROVE Alone'
  BY <1>24 DEF Die, Goto, Release, Drop, TypeOK, Alone, Stale, Ended
<1>25. CASE UNCHANGED vars
  BY <1>25 DEF vars, TypeOK, Alone, Stale, Ended
<1>26. QED
  BY <1>1, <1>2, <1>3, <1>4, <1>5, <1>6, <1>7, <1>8, <1>9, <1>10, <1>11, <1>12, <1>13,
     <1>14, <1>15, <1>16, <1>17, <1>18, <1>19, <1>20, <1>21, <1>22, <1>23, <1>24, <1>25
     DEF Next, Arrive, Advance

\* What a request holds of the sale stays true.
LEMMA ReadersNext ==
  ASSUME TypeOK, \A c \in Call : Fits(c) /\ ReaderKnows(c) /\ PayerKnows(c), Alone,
           PaidIsTaken, [Next]_vars
  PROVE  \A x \in Call : ReaderKnows(x)'
<1> USE DEF bookVars, saleVars, moneyVars, undoVars, legVars, hookVars
<1>1. CASE Book
  BY <1>1 DEF Book, TypeOK, ReaderKnows, Alone, Stale, Inner, Ended
<1>2. CASE LoseBooks
  BY <1>2 DEF LoseBooks, TypeOK, ReaderKnows, Alone, Stale, Inner, Ended
<1>3. CASE Forget
  BY <1>3 DEF Forget, TypeOK, ReaderKnows, Alone, Stale, Inner, Ended
<1>4. ASSUME NEW c \in Call, Pay(c) PROVE \A x \in Call : ReaderKnows(x)'
  BY <1>4 DEF Pay, Begin, TypeOK, ReaderKnows, Alone, Stale, Inner, Ended
<1>5. ASSUME NEW c \in Call, Split(c) PROVE \A x \in Call : ReaderKnows(x)'
  BY <1>5 DEF Split, Begin, TypeOK, ReaderKnows, Alone, Stale, Inner, Ended
<1>6. ASSUME NEW c \in Call, StartLink(c) PROVE \A x \in Call : ReaderKnows(x)'
  BY <1>6 DEF StartLink, Begin, TypeOK, ReaderKnows, Alone, Stale, Inner, Ended
<1>7. ASSUME NEW c \in Call, Hook(c) PROVE \A x \in Call : ReaderKnows(x)'
  BY <1>7 DEF Hook, Begin, TypeOK, ReaderKnows, Alone, Stale, Inner, Ended
<1>8. ASSUME NEW c \in Call, ArPay(c) PROVE \A x \in Call : ReaderKnows(x)'
  BY <1>8 DEF ArPay, Goto, TypeOK, ReaderKnows, Alone, Stale, Inner, Ended
<1>9. ASSUME NEW c \in Call, Undo(c) PROVE \A x \in Call : ReaderKnows(x)'
  BY <1>9 DEF Undo, Begin, TypeOK, ReaderKnows, Alone, Stale, Inner, Ended
<1>10. ASSUME NEW c \in Call, ReadSale(c) PROVE \A x \in Call : ReaderKnows(x)'
  BY <1>10 DEF ReadSale, Goto, TypeOK, ReaderKnows, Alone, Stale, Inner, Ended, PaidIsTaken
<1>11. ASSUME NEW c \in Call, Flush(c) PROVE \A x \in Call : ReaderKnows(x)'
  BY <1>11 DEF Flush, Goto, TypeOK, ReaderKnows, Alone, Stale, Inner, Ended
<1>12. ASSUME NEW c \in Call, CommitPayment(c) PROVE \A x \in Call : ReaderKnows(x)'
  BY SMTT(30), <1>12
     DEF CommitPayment, Goto, Drop, TypeOK, ReaderKnows, Alone, Stale, Inner, Ended,
     NewPaid, NewStatus, WriteStatus
<1>13. ASSUME NEW c \in Call, CommitSplit(c) PROVE \A x \in Call : ReaderKnows(x)'
  BY SMTT(30), <1>13 DEF CommitSplit, Goto, Drop, TypeOK, ReaderKnows, Alone, Stale, Inner, Ended,
     NewPaid, NewStatus, WriteStatus
<1>14. ASSUME NEW c \in Call, Link(c) PROVE \A x \in Call : ReaderKnows(x)'
  BY <1>14 DEF Link, Goto, TypeOK, ReaderKnows, Alone, Stale, Inner, Ended
<1>15. ASSUME NEW c \in Call, Dedupe(c) PROVE \A x \in Call : ReaderKnows(x)'
  BY <1>15 DEF Dedupe, Keep, Goto, TypeOK, ReaderKnows, Alone, Stale, Inner, Ended
<1>16. ASSUME NEW c \in Call, Open(c) PROVE \A x \in Call : ReaderKnows(x)'
  BY <1>16 DEF Open, Keep, Goto, TypeOK, ReaderKnows, Alone, Stale, Inner, Ended
<1>17. ASSUME NEW c \in Call, Claim(c) PROVE \A x \in Call : ReaderKnows(x)'
  BY <1>17 DEF Claim, Keep, Goto, TypeOK, ReaderKnows, Alone, Stale, Inner, Ended
<1>18. ASSUME NEW c \in Call, Flip(c) PROVE \A x \in Call : ReaderKnows(x)'
  BY <1>18 DEF Flip, Goto, TypeOK, ReaderKnows, Alone, Stale, Inner, Ended
<1>19. ASSUME NEW c \in Call, LogWebhook(c) PROVE \A x \in Call : ReaderKnows(x)'
  BY <1>19 DEF LogWebhook, Keep, Goto, TypeOK, ReaderKnows, Alone, Stale, Inner, Ended
<1>20. ASSUME NEW c \in Call, CheckUndo(c) PROVE \A x \in Call : ReaderKnows(x)'
  BY <1>20 DEF CheckUndo, Goto, TypeOK, ReaderKnows, Alone, Stale, Inner, Ended
<1>21. ASSUME NEW c \in Call, CommitUndo(c) PROVE \A x \in Call : ReaderKnows(x)'
  BY <1>21 DEF CommitUndo, Goto, TypeOK, ReaderKnows, Alone, Stale, Inner, Ended
<1>22. ASSUME NEW c \in Call, PoolTimeout(c) PROVE \A x \in Call : ReaderKnows(x)'
  BY <1>22 DEF PoolTimeout, Goto, Release, TypeOK, ReaderKnows, Alone, Stale, Inner, Ended
<1>23. ASSUME NEW c \in Call, GiveUp(c) PROVE \A x \in Call : ReaderKnows(x)'
  BY <1>23 DEF GiveUp, Goto, Drop, TypeOK, ReaderKnows, Alone, Stale, Inner, Ended
<1>24. ASSUME NEW c \in Call, Die(c) PROVE \A x \in Call : ReaderKnows(x)'
  BY <1>24 DEF Die, Goto, Release, Drop, TypeOK, ReaderKnows, Alone, Stale, Inner, Ended
<1>25. CASE UNCHANGED vars
  BY <1>25 DEF vars, TypeOK, ReaderKnows, Alone, Stale, Inner, Ended
<1>26. QED
  BY <1>1, <1>2, <1>3, <1>4, <1>5, <1>6, <1>7, <1>8, <1>9, <1>10, <1>11, <1>12, <1>13,
     <1>14, <1>15, <1>16, <1>17, <1>18, <1>19, <1>20, <1>21, <1>22, <1>23, <1>24, <1>25
     DEF Next, Arrive, Advance

\* The sale says what its payments add up to.
LEMMA PaidNext ==
  ASSUME TypeOK, \A c \in Call : Fits(c) /\ ReaderKnows(c) /\ PayerKnows(c), Alone,
           PaidIsTaken, [Next]_vars
  PROVE  PaidIsTaken'
<1> USE DEF bookVars, saleVars, moneyVars, undoVars, legVars, hookVars
<1>1. CASE Book
  BY <1>1 DEF Book, TypeOK, PaidIsTaken
<1>2. CASE LoseBooks
  BY <1>2 DEF LoseBooks, TypeOK, PaidIsTaken
<1>3. CASE Forget
  BY <1>3 DEF Forget, TypeOK, PaidIsTaken
<1>4. ASSUME NEW c \in Call, Pay(c) PROVE PaidIsTaken'
  BY <1>4 DEF Pay, Begin, TypeOK, PaidIsTaken
<1>5. ASSUME NEW c \in Call, Split(c) PROVE PaidIsTaken'
  BY <1>5 DEF Split, Begin, TypeOK, PaidIsTaken
<1>6. ASSUME NEW c \in Call, StartLink(c) PROVE PaidIsTaken'
  BY <1>6 DEF StartLink, Begin, TypeOK, PaidIsTaken
<1>7. ASSUME NEW c \in Call, Hook(c) PROVE PaidIsTaken'
  BY <1>7 DEF Hook, Begin, TypeOK, PaidIsTaken
<1>8. ASSUME NEW c \in Call, ArPay(c) PROVE PaidIsTaken'
  BY <1>8 DEF ArPay, Goto, TypeOK, PaidIsTaken
<1>9. ASSUME NEW c \in Call, Undo(c) PROVE PaidIsTaken'
  BY <1>9 DEF Undo, Begin, TypeOK, PaidIsTaken
<1>10. ASSUME NEW c \in Call, ReadSale(c) PROVE PaidIsTaken'
  BY <1>10 DEF ReadSale, Goto, TypeOK, PaidIsTaken
<1>11. ASSUME NEW c \in Call, Flush(c) PROVE PaidIsTaken'
  BY <1>11 DEF Flush, Goto, TypeOK, PaidIsTaken
<1>12. ASSUME NEW c \in Call, CommitPayment(c) PROVE PaidIsTaken'
  <2>1. /\ paid \in Nat /\ taken \in Nat /\ Total \in Nat /\ NewPaid(c) \in Nat
        /\ amt[c] \in Nat /\ held[c].paid \in Nat
    BY LedgerAssumption, WritesType DEF HeldRow, TypeOK
  <2>2. /\ held[c].paid <= taken
        /\ ~raced => held[c].paid = paid
    BY <1>12 DEF CommitPayment, ReaderKnows, Inner
  <2>3. status' = WriteStatus(c) /\ taken' = taken + amt[c] /\ raced' = raced
    BY <1>12 DEF CommitPayment
  <2>4. paid' = NewPaid(c)
    BY <1>12 DEF CommitPayment
  <2>5. NewPaid(c) = held[c].paid + amt[c]
    BY DEF NewPaid
  <2>6. status' = "completed" => status = "completed" \/ NewPaid(c) >= Total
    BY <2>3, PaymentWrites
  <2>7. QED
    BY <2>1, <2>2, <2>3, <2>4, <2>5, <2>6 DEF PaidIsTaken
<1>13. ASSUME NEW c \in Call, CommitSplit(c) PROVE PaidIsTaken'
  <2>1. /\ paid \in Nat /\ taken \in Nat /\ Total \in Nat /\ NewPaid(c) \in Nat
        /\ amt[c] \in Nat /\ held[c].paid \in Nat
    BY LedgerAssumption, WritesType DEF HeldRow, TypeOK
  <2>2. /\ held[c].paid <= taken
        /\ ~raced => held[c].paid = paid
    BY <1>13 DEF CommitSplit, ReaderKnows, Inner
  <2>3. status' = WriteStatus(c) /\ taken' = taken + amt[c] /\ raced' = raced
    BY <1>13 DEF CommitSplit
  <2>4. paid' = IF amt[c] > 0 THEN NewPaid(c) ELSE paid
    BY <1>13 DEF CommitSplit
  <2>5. NewPaid(c) = held[c].paid + amt[c]
    BY DEF NewPaid
  <2>6. status' = "completed" => status = "completed" \/ NewPaid(c) >= Total
    BY <2>3, PaymentWrites
  <2>7. QED
    BY <2>1, <2>2, <2>3, <2>4, <2>5, <2>6 DEF PaidIsTaken
<1>14. ASSUME NEW c \in Call, Link(c) PROVE PaidIsTaken'
  BY <1>14 DEF Link, Goto, TypeOK, PaidIsTaken
<1>15. ASSUME NEW c \in Call, Dedupe(c) PROVE PaidIsTaken'
  BY <1>15 DEF Dedupe, Keep, Goto, TypeOK, PaidIsTaken
<1>16. ASSUME NEW c \in Call, Open(c) PROVE PaidIsTaken'
  BY <1>16 DEF Open, Keep, Goto, TypeOK, PaidIsTaken
<1>17. ASSUME NEW c \in Call, Claim(c) PROVE PaidIsTaken'
  BY <1>17 DEF Claim, Keep, Goto, TypeOK, PaidIsTaken
<1>18. ASSUME NEW c \in Call, Flip(c) PROVE PaidIsTaken'
  BY <1>18 DEF Flip, Goto, TypeOK, PaidIsTaken
<1>19. ASSUME NEW c \in Call, LogWebhook(c) PROVE PaidIsTaken'
  BY <1>19 DEF LogWebhook, Keep, Goto, TypeOK, PaidIsTaken
<1>20. ASSUME NEW c \in Call, CheckUndo(c) PROVE PaidIsTaken'
  BY <1>20 DEF CheckUndo, Goto, TypeOK, PaidIsTaken
<1>21. ASSUME NEW c \in Call, CommitUndo(c) PROVE PaidIsTaken'
  BY <1>21 DEF CommitUndo, Goto, TypeOK, PaidIsTaken
<1>22. ASSUME NEW c \in Call, PoolTimeout(c) PROVE PaidIsTaken'
  BY <1>22 DEF PoolTimeout, Goto, Release, TypeOK, PaidIsTaken
<1>23. ASSUME NEW c \in Call, GiveUp(c) PROVE PaidIsTaken'
  BY <1>23 DEF GiveUp, Goto, Drop, TypeOK, PaidIsTaken
<1>24. ASSUME NEW c \in Call, Die(c) PROVE PaidIsTaken'
  BY <1>24 DEF Die, Goto, Release, Drop, TypeOK, PaidIsTaken
<1>25. CASE UNCHANGED vars
  BY <1>25 DEF vars, TypeOK, PaidIsTaken
<1>26. QED
  BY <1>1, <1>2, <1>3, <1>4, <1>5, <1>6, <1>7, <1>8, <1>9, <1>10, <1>11, <1>12, <1>13,
     <1>14, <1>15, <1>16, <1>17, <1>18, <1>19, <1>20, <1>21, <1>22, <1>23, <1>24, <1>25
     DEF Next, Arrive, Advance

\* What a request holds of the receivable stays true.
LEMMA PayersNext ==
  ASSUME TypeOK, \A c \in Call : Fits(c) /\ ReaderKnows(c) /\ PayerKnows(c), Alone,
           ReceivableFollowsBooks, [Next]_vars
  PROVE  \A x \in Call : PayerKnows(x)'
<1> USE DEF bookVars, saleVars, moneyVars, undoVars, legVars, hookVars
<1>1. CASE Book
  BY <1>1 DEF Book, TypeOK, PayerKnows, Ended
<1>2. CASE LoseBooks
  BY <1>2 DEF LoseBooks, TypeOK, PayerKnows, Ended
<1>3. CASE Forget
  BY <1>3 DEF Forget, TypeOK, PayerKnows, Ended
<1>4. ASSUME NEW c \in Call, Pay(c) PROVE \A x \in Call : PayerKnows(x)'
  BY <1>4 DEF Pay, Begin, TypeOK, PayerKnows, Ended
<1>5. ASSUME NEW c \in Call, Split(c) PROVE \A x \in Call : PayerKnows(x)'
  BY <1>5 DEF Split, Begin, TypeOK, PayerKnows, Ended
<1>6. ASSUME NEW c \in Call, StartLink(c) PROVE \A x \in Call : PayerKnows(x)'
  BY <1>6 DEF StartLink, Begin, TypeOK, PayerKnows, Ended
<1>7. ASSUME NEW c \in Call, Hook(c) PROVE \A x \in Call : PayerKnows(x)'
  BY <1>7 DEF Hook, Begin, TypeOK, PayerKnows, Ended
<1>8. ASSUME NEW c \in Call, ArPay(c) PROVE \A x \in Call : PayerKnows(x)'
  <2>1. PICK a \in Amount :
          \/ UNCHANGED <<arPaid, credited, raced>>
          \/ /\ credited' = credited + a
             /\ ~raced' => ~raced /\ \A d \in Call : pc[d] # "locked"
    BY <1>8 DEF ArPay
  <2>2. a \in Nat /\ credited \in Nat /\ \A x \in Call : held[x].ar \in Nat
    BY LedgerAssumption DEF TypeOK, Amount
  <2>3. held' = held /\ \A x \in Call : pc'[x] = "locked" => pc[x] = "locked"
    BY <1>8 DEF ArPay, Goto, TypeOK
  <2>4. CASE UNCHANGED <<arPaid, credited, raced>>
    BY <2>3, <2>4 DEF PayerKnows
  <2>5. CASE /\ credited' = credited + a
             /\ ~raced' => ~raced /\ \A d \in Call : pc[d] # "locked"
    BY <2>2, <2>3, <2>5 DEF PayerKnows
  <2>6. QED
    BY <2>1, <2>4, <2>5
<1>9. ASSUME NEW c \in Call, Undo(c) PROVE \A x \in Call : PayerKnows(x)'
  BY <1>9 DEF Undo, Begin, TypeOK, PayerKnows, Ended
<1>10. ASSUME NEW c \in Call, ReadSale(c) PROVE \A x \in Call : PayerKnows(x)'
  BY <1>10 DEF ReadSale, Goto, TypeOK, PayerKnows, Ended
<1>11. ASSUME NEW c \in Call, Flush(c) PROVE \A x \in Call : PayerKnows(x)'
  BY <1>11 DEF Flush, Goto, TypeOK, PayerKnows, Ended, ReceivableFollowsBooks, HasOpenReceivable
<1>12. ASSUME NEW c \in Call, CommitPayment(c) PROVE \A x \in Call : PayerKnows(x)'
  <2>1. \A x \in Call : pc'[x] = "locked" => x # c /\ pc[x] = "locked" /\ held'[x] = held[x]
    BY <1>12 DEF CommitPayment, Goto, Drop, TypeOK
  <2>2. raced' = raced /\ (~raced => \A x \in Call : pc'[x] # "locked")
    BY <1>12, <2>1 DEF CommitPayment, Alone, Stale
  <2>3. credited' >= credited /\ credited \in Nat /\ (credited' \in Nat)
    <3>1. /\ Settles(c) \in 0 .. (Total - held[c].ar) /\ held[c].ar \in Nat /\ Total \in Nat
          /\ credited \in Nat
      BY LedgerAssumption, WritesType DEF TypeOK
    <3>2. credited' = IF Settles(c) > 0 THEN credited + Settles(c) ELSE credited
      BY <1>12 DEF CommitPayment, DrawDown
    <3>3. QED
      BY <3>1, <3>2
  <2>4. \A x \in Call : held[x].ar \in Nat
    BY LedgerAssumption DEF TypeOK
  <2>5. QED
    BY <2>1, <2>2, <2>3, <2>4 DEF PayerKnows
<1>13. ASSUME NEW c \in Call, CommitSplit(c) PROVE \A x \in Call : PayerKnows(x)'
  BY <1>13 DEF CommitSplit, Goto, Drop, TypeOK, PayerKnows, Ended
<1>14. ASSUME NEW c \in Call, Link(c) PROVE \A x \in Call : PayerKnows(x)'
  BY <1>14 DEF Link, Goto, TypeOK, PayerKnows, Ended
<1>15. ASSUME NEW c \in Call, Dedupe(c) PROVE \A x \in Call : PayerKnows(x)'
  BY <1>15 DEF Dedupe, Keep, Goto, TypeOK, PayerKnows, Ended
<1>16. ASSUME NEW c \in Call, Open(c) PROVE \A x \in Call : PayerKnows(x)'
  BY <1>16 DEF Open, Keep, Goto, TypeOK, PayerKnows, Ended
<1>17. ASSUME NEW c \in Call, Claim(c) PROVE \A x \in Call : PayerKnows(x)'
  BY <1>17 DEF Claim, Keep, Goto, TypeOK, PayerKnows, Ended
<1>18. ASSUME NEW c \in Call, Flip(c) PROVE \A x \in Call : PayerKnows(x)'
  BY <1>18 DEF Flip, Goto, TypeOK, PayerKnows, Ended
<1>19. ASSUME NEW c \in Call, LogWebhook(c) PROVE \A x \in Call : PayerKnows(x)'
  BY <1>19 DEF LogWebhook, Keep, Goto, TypeOK, PayerKnows, Ended
<1>20. ASSUME NEW c \in Call, CheckUndo(c) PROVE \A x \in Call : PayerKnows(x)'
  BY <1>20 DEF CheckUndo, Goto, TypeOK, PayerKnows, Ended
<1>21. ASSUME NEW c \in Call, CommitUndo(c) PROVE \A x \in Call : PayerKnows(x)'
  BY <1>21 DEF CommitUndo, Goto, TypeOK, PayerKnows, Ended
<1>22. ASSUME NEW c \in Call, PoolTimeout(c) PROVE \A x \in Call : PayerKnows(x)'
  BY <1>22 DEF PoolTimeout, Goto, Release, TypeOK, PayerKnows, Ended
<1>23. ASSUME NEW c \in Call, GiveUp(c) PROVE \A x \in Call : PayerKnows(x)'
  BY <1>23 DEF GiveUp, Goto, Drop, TypeOK, PayerKnows, Ended
<1>24. ASSUME NEW c \in Call, Die(c) PROVE \A x \in Call : PayerKnows(x)'
  BY <1>24 DEF Die, Goto, Release, Drop, TypeOK, PayerKnows, Ended
<1>25. CASE UNCHANGED vars
  BY <1>25 DEF vars, TypeOK, PayerKnows, Ended
<1>26. QED
  BY <1>1, <1>2, <1>3, <1>4, <1>5, <1>6, <1>7, <1>8, <1>9, <1>10, <1>11, <1>12, <1>13,
     <1>14, <1>15, <1>16, <1>17, <1>18, <1>19, <1>20, <1>21, <1>22, <1>23, <1>24, <1>25
     DEF Next, Arrive, Advance

\* The receivable says what the journals of its payments credited.
LEMMA ReceivableNext ==
  ASSUME TypeOK, \A c \in Call : Fits(c) /\ ReaderKnows(c) /\ PayerKnows(c), Alone,
           ReceivableFollowsBooks, [Next]_vars
  PROVE  ReceivableFollowsBooks'
<1> USE DEF bookVars, saleVars, moneyVars, undoVars, legVars, hookVars
<1>1. CASE Book
  BY <1>1 DEF Book, TypeOK, ReceivableFollowsBooks
<1>2. CASE LoseBooks
  BY <1>2 DEF LoseBooks, TypeOK, ReceivableFollowsBooks
<1>3. CASE Forget
  BY <1>3 DEF Forget, TypeOK, ReceivableFollowsBooks
<1>4. ASSUME NEW c \in Call, Pay(c) PROVE ReceivableFollowsBooks'
  BY <1>4 DEF Pay, Begin, TypeOK, ReceivableFollowsBooks
<1>5. ASSUME NEW c \in Call, Split(c) PROVE ReceivableFollowsBooks'
  BY <1>5 DEF Split, Begin, TypeOK, ReceivableFollowsBooks
<1>6. ASSUME NEW c \in Call, StartLink(c) PROVE ReceivableFollowsBooks'
  BY <1>6 DEF StartLink, Begin, TypeOK, ReceivableFollowsBooks
<1>7. ASSUME NEW c \in Call, Hook(c) PROVE ReceivableFollowsBooks'
  BY <1>7 DEF Hook, Begin, TypeOK, ReceivableFollowsBooks
<1>8. ASSUME NEW c \in Call, ArPay(c) PROVE ReceivableFollowsBooks'
  <2>1. PICK a \in Amount :
          \/ UNCHANGED <<arPaid, credited, raced>>
          \/ /\ arPaid' = arPaid + a /\ credited' = credited + a
             /\ ~raced' => ~raced
    BY <1>8 DEF ArPay
  <2>2. a \in Nat /\ credited \in Nat /\ arPaid \in Nat
    BY LedgerAssumption DEF TypeOK, Amount
  <2>3. QED
    BY <2>1, <2>2 DEF ReceivableFollowsBooks
<1>9. ASSUME NEW c \in Call, Undo(c) PROVE ReceivableFollowsBooks'
  BY <1>9 DEF Undo, Begin, TypeOK, ReceivableFollowsBooks
<1>10. ASSUME NEW c \in Call, ReadSale(c) PROVE ReceivableFollowsBooks'
  BY <1>10 DEF ReadSale, Goto, TypeOK, ReceivableFollowsBooks
<1>11. ASSUME NEW c \in Call, Flush(c) PROVE ReceivableFollowsBooks'
  BY <1>11 DEF Flush, Goto, TypeOK, ReceivableFollowsBooks
<1>12. ASSUME NEW c \in Call, CommitPayment(c) PROVE ReceivableFollowsBooks'
  <2>1. /\ held[c].ar \in Nat /\ arPaid \in Nat /\ credited \in Nat /\ Total \in Nat
        /\ Settles(c) \in 0 .. (Total - held[c].ar)
    BY LedgerAssumption, WritesType DEF TypeOK
  <2>2. DrawDown(c) /\ raced' = raced /\ PayerKnows(c) /\ pc[c] = "locked"
    BY <1>12 DEF CommitPayment
  <2>3. Settles(c) > 0 =>
          /\ arPaid' = held[c].ar + Settles(c) /\ credited' = credited + Settles(c)
          /\ held[c].ar <= credited /\ (~raced => held[c].ar = arPaid)
    BY <2>1, <2>2 DEF DrawDown, PayerKnows
  <2>4. ~(Settles(c) > 0) => UNCHANGED <<arPaid, credited>>
    BY <2>2 DEF DrawDown
  <2>5. QED
    BY <2>1, <2>2, <2>3, <2>4 DEF ReceivableFollowsBooks
<1>13. ASSUME NEW c \in Call, CommitSplit(c) PROVE ReceivableFollowsBooks'
  BY <1>13 DEF CommitSplit, Goto, Drop, TypeOK, ReceivableFollowsBooks
<1>14. ASSUME NEW c \in Call, Link(c) PROVE ReceivableFollowsBooks'
  BY <1>14 DEF Link, Goto, TypeOK, ReceivableFollowsBooks
<1>15. ASSUME NEW c \in Call, Dedupe(c) PROVE ReceivableFollowsBooks'
  BY <1>15 DEF Dedupe, Keep, Goto, TypeOK, ReceivableFollowsBooks
<1>16. ASSUME NEW c \in Call, Open(c) PROVE ReceivableFollowsBooks'
  BY <1>16 DEF Open, Keep, Goto, TypeOK, ReceivableFollowsBooks
<1>17. ASSUME NEW c \in Call, Claim(c) PROVE ReceivableFollowsBooks'
  BY <1>17 DEF Claim, Keep, Goto, TypeOK, ReceivableFollowsBooks
<1>18. ASSUME NEW c \in Call, Flip(c) PROVE ReceivableFollowsBooks'
  BY <1>18 DEF Flip, Goto, TypeOK, ReceivableFollowsBooks
<1>19. ASSUME NEW c \in Call, LogWebhook(c) PROVE ReceivableFollowsBooks'
  BY <1>19 DEF LogWebhook, Keep, Goto, TypeOK, ReceivableFollowsBooks
<1>20. ASSUME NEW c \in Call, CheckUndo(c) PROVE ReceivableFollowsBooks'
  BY <1>20 DEF CheckUndo, Goto, TypeOK, ReceivableFollowsBooks
<1>21. ASSUME NEW c \in Call, CommitUndo(c) PROVE ReceivableFollowsBooks'
  BY <1>21 DEF CommitUndo, Goto, TypeOK, ReceivableFollowsBooks
<1>22. ASSUME NEW c \in Call, PoolTimeout(c) PROVE ReceivableFollowsBooks'
  BY <1>22 DEF PoolTimeout, Goto, Release, TypeOK, ReceivableFollowsBooks
<1>23. ASSUME NEW c \in Call, GiveUp(c) PROVE ReceivableFollowsBooks'
  BY <1>23 DEF GiveUp, Goto, Drop, TypeOK, ReceivableFollowsBooks
<1>24. ASSUME NEW c \in Call, Die(c) PROVE ReceivableFollowsBooks'
  BY <1>24 DEF Die, Goto, Release, Drop, TypeOK, ReceivableFollowsBooks
<1>25. CASE UNCHANGED vars
  BY <1>25 DEF vars, TypeOK, ReceivableFollowsBooks
<1>26. QED
  BY <1>1, <1>2, <1>3, <1>4, <1>5, <1>6, <1>7, <1>8, <1>9, <1>10, <1>11, <1>12, <1>13,
     <1>14, <1>15, <1>16, <1>17, <1>18, <1>19, <1>20, <1>21, <1>22, <1>23, <1>24, <1>25
     DEF Next, Arrive, Advance

\* What appending does.
LEMMA AppendGives ==
  ASSUME NEW T, NEW u \in Seq(T), NEW k \in T
  PROVE  /\ Len(u) \in Nat /\ Len(Append(u, k)) = Len(u) + 1
         /\ DOMAIN u = 1 .. Len(u) /\ DOMAIN Append(u, k) = 1 .. (Len(u) + 1)
         /\ \A j \in 1 .. Len(u) : Append(u, k)[j] = u[j]
         /\ Append(u, k)[Len(u) + 1] = k
         /\ u = <<>> <=> Len(u) = 0
OBVIOUS

\* The revivals of a sale are numbers, and a reversal or a payment adds to them.
LEMMA RevivalsAppend ==
  ASSUME NEW u \in Seq({"void", "return", "pay"}), NEW k \in {"void", "return", "pay"}
  PROVE  /\ Revivals(u) \in Nat
         /\ Revivals(Append(u, k)) = Revivals(u) + (IF k = "pay" THEN 1 ELSE 0)
<1> DEFINE R(v) == {j \in DOMAIN v : v[j] = "pay"}
           n == Len(u)
<1>1. /\ n \in Nat /\ DOMAIN u = 1 .. n /\ DOMAIN Append(u, k) = 1 .. (n + 1)
      /\ \A j \in 1 .. n : Append(u, k)[j] = u[j]
      /\ Append(u, k)[n + 1] = k
  BY AppendGives
<1>2. /\ R(u) \subseteq 1 .. n /\ n + 1 \notin R(u)
      /\ R(Append(u, k)) = IF k = "pay" THEN R(u) \cup {n + 1} ELSE R(u)
  BY <1>1
<1>3. IsFiniteSet(1 .. n)
  BY <1>1, FS_Interval
<1>4. IsFiniteSet(R(u))
  BY <1>2, <1>3, FS_Subset
<1>5. Revivals(u) = Cardinality(R(u)) /\ Revivals(Append(u, k)) = Cardinality(R(Append(u, k)))
  BY DEF Revivals
<1> HIDE DEF R, n
<1>6. Cardinality(R(u)) \in Nat
        /\ Cardinality(R(u) \cup {n + 1}) = Cardinality(R(u)) + 1
  BY <1>2, <1>4, FS_AddElement, FS_CardinalityType
<1>7. QED
  BY <1>2, <1>5, <1>6

\* The sale is confirmed by the payment that completes it.
LEMMA ConfirmsNext ==
  ASSUME TypeOK, \A c \in Call : Fits(c) /\ ReaderKnows(c) /\ PayerKnows(c), Alone,
           PaidIsTaken, ConfirmsCounted, [Next]_vars
  PROVE  ConfirmsCounted'
<1> USE DEF bookVars, saleVars, moneyVars, undoVars, legVars, hookVars
<1>1. CASE Book
  BY <1>1 DEF Book, TypeOK, ConfirmsCounted
<1>2. CASE LoseBooks
  BY <1>2 DEF LoseBooks, TypeOK, ConfirmsCounted
<1>3. CASE Forget
  BY <1>3 DEF Forget, TypeOK, ConfirmsCounted
<1>4. ASSUME NEW c \in Call, Pay(c) PROVE ConfirmsCounted'
  BY <1>4 DEF Pay, Begin, TypeOK, ConfirmsCounted
<1>5. ASSUME NEW c \in Call, Split(c) PROVE ConfirmsCounted'
  BY <1>5 DEF Split, Begin, TypeOK, ConfirmsCounted
<1>6. ASSUME NEW c \in Call, StartLink(c) PROVE ConfirmsCounted'
  BY <1>6 DEF StartLink, Begin, TypeOK, ConfirmsCounted
<1>7. ASSUME NEW c \in Call, Hook(c) PROVE ConfirmsCounted'
  BY <1>7 DEF Hook, Begin, TypeOK, ConfirmsCounted
<1>8. ASSUME NEW c \in Call, ArPay(c) PROVE ConfirmsCounted'
  BY <1>8 DEF ArPay, Goto, TypeOK, ConfirmsCounted
<1>9. ASSUME NEW c \in Call, Undo(c) PROVE ConfirmsCounted'
  BY <1>9 DEF Undo, Begin, TypeOK, ConfirmsCounted
<1>10. ASSUME NEW c \in Call, ReadSale(c) PROVE ConfirmsCounted'
  BY <1>10 DEF ReadSale, Goto, TypeOK, ConfirmsCounted
<1>11. ASSUME NEW c \in Call, Flush(c) PROVE ConfirmsCounted'
  BY <1>11 DEF Flush, Goto, TypeOK, ConfirmsCounted
<1>12. ASSUME NEW c \in Call, CommitPayment(c) PROVE ConfirmsCounted'
  <2>1. /\ undone \in Seq({"void", "return", "pay"}) /\ confirms \in Nat /\ status \in Status
        /\ WriteStatus(c) \in {status, "partial", "completed"}
    BY PaymentWrites DEF TypeOK
  <2>2. /\ raced' = raced /\ pc[c] \in Inner /\ ReaderKnows(c)
        /\ status' = WriteStatus(c) /\ undone' = Revives(c)
        /\ confirms' = confirms + Confirms(c)
    BY <1>12 DEF CommitPayment, Inner
  <2>3. SUFFICES ASSUME ~raced PROVE ConfirmsCounted'
    BY <2>2 DEF ConfirmsCounted
  <2>4. /\ status = "completed" => WriteStatus(c) = "completed"
        /\ Confirms(c) = IF WriteStatus(c) = "completed" /\ status # "completed"
                         THEN 1 ELSE 0
    BY <2>2, <2>3, PaymentWritesFresh
  <2>5. /\ Revivals(undone) \in Nat
        /\ Revivals(undone') = Revivals(undone)
             + (IF status \in {"voided", "returned"} /\ WriteStatus(c) # status THEN 1 ELSE 0)
    <3>1. /\ Revivals(undone) \in Nat
          /\ Revivals(Append(undone, "pay")) = Revivals(undone) + 1
      BY <2>1, RevivalsAppend
    <3>2. undone' = IF status \in {"voided", "returned"} /\ WriteStatus(c) # status
                    THEN Append(undone, "pay") ELSE undone
      BY <2>2, PaymentWrites
    <3>3. QED
      BY <3>1, <3>2
  <2>6. QED
    BY <2>1, <2>2, <2>3, <2>4, <2>5 DEF ConfirmsCounted, Status
<1>13. ASSUME NEW c \in Call, CommitSplit(c) PROVE ConfirmsCounted'
  <2>1. /\ undone \in Seq({"void", "return", "pay"}) /\ confirms \in Nat /\ status \in Status
        /\ WriteStatus(c) \in {status, "partial", "completed"}
    BY PaymentWrites DEF TypeOK
  <2>2. /\ raced' = raced /\ pc[c] \in Inner /\ ReaderKnows(c)
        /\ status' = WriteStatus(c) /\ undone' = Revives(c)
        /\ confirms' = confirms
    BY <1>13 DEF CommitSplit, Inner
  <2>3. SUFFICES ASSUME ~raced PROVE ConfirmsCounted'
    BY <2>2 DEF ConfirmsCounted
  <2>4. /\ status = "completed" => WriteStatus(c) = "completed"
        /\ Confirms(c) = IF WriteStatus(c) = "completed" /\ status # "completed"
                         THEN 1 ELSE 0
    BY <2>2, <2>3, PaymentWritesFresh
  <2>5. /\ Revivals(undone) \in Nat
        /\ Revivals(undone') = Revivals(undone)
             + (IF status \in {"voided", "returned"} /\ WriteStatus(c) # status THEN 1 ELSE 0)
    <3>1. /\ Revivals(undone) \in Nat
          /\ Revivals(Append(undone, "pay")) = Revivals(undone) + 1
      BY <2>1, RevivalsAppend
    <3>2. undone' = IF status \in {"voided", "returned"} /\ WriteStatus(c) # status
                    THEN Append(undone, "pay") ELSE undone
      BY <2>2, PaymentWrites
    <3>3. QED
      BY <3>1, <3>2
  <2>6. QED
    BY <2>1, <2>2, <2>3, <2>4, <2>5 DEF ConfirmsCounted, Status
<1>14. ASSUME NEW c \in Call, Link(c) PROVE ConfirmsCounted'
  BY <1>14 DEF Link, Goto, TypeOK, ConfirmsCounted
<1>15. ASSUME NEW c \in Call, Dedupe(c) PROVE ConfirmsCounted'
  BY <1>15 DEF Dedupe, Keep, Goto, TypeOK, ConfirmsCounted
<1>16. ASSUME NEW c \in Call, Open(c) PROVE ConfirmsCounted'
  BY <1>16 DEF Open, Keep, Goto, TypeOK, ConfirmsCounted
<1>17. ASSUME NEW c \in Call, Claim(c) PROVE ConfirmsCounted'
  BY <1>17 DEF Claim, Keep, Goto, TypeOK, ConfirmsCounted
<1>18. ASSUME NEW c \in Call, Flip(c) PROVE ConfirmsCounted'
  BY <1>18 DEF Flip, Goto, TypeOK, ConfirmsCounted
<1>19. ASSUME NEW c \in Call, LogWebhook(c) PROVE ConfirmsCounted'
  BY <1>19 DEF LogWebhook, Keep, Goto, TypeOK, ConfirmsCounted
<1>20. ASSUME NEW c \in Call, CheckUndo(c) PROVE ConfirmsCounted'
  BY <1>20 DEF CheckUndo, Goto, TypeOK, ConfirmsCounted
<1>21. ASSUME NEW c \in Call, CommitUndo(c) PROVE ConfirmsCounted'
  <2>1. /\ undone \in Seq({"void", "return", "pay"}) /\ confirms \in Nat
        /\ kind[c] \in {"void", "return"} /\ undone' = Append(undone, kind[c])
        /\ raced' = raced /\ confirms' = confirms /\ status' \notin {"pending", "partial"}
    BY <1>21 DEF CommitUndo, Fits, TypeOK
  <2>2. Revivals(undone) \in Nat /\ Revivals(undone') = Revivals(undone)
    BY <2>1, RevivalsAppend
  <2>3. QED
    BY <2>1, <2>2 DEF ConfirmsCounted
<1>22. ASSUME NEW c \in Call, PoolTimeout(c) PROVE ConfirmsCounted'
  BY <1>22 DEF PoolTimeout, Goto, Release, TypeOK, ConfirmsCounted
<1>23. ASSUME NEW c \in Call, GiveUp(c) PROVE ConfirmsCounted'
  BY <1>23 DEF GiveUp, Goto, Drop, TypeOK, ConfirmsCounted
<1>24. ASSUME NEW c \in Call, Die(c) PROVE ConfirmsCounted'
  BY <1>24 DEF Die, Goto, Release, Drop, TypeOK, ConfirmsCounted
<1>25. CASE UNCHANGED vars
  BY <1>25 DEF vars, TypeOK, ConfirmsCounted
<1>26. QED
  BY <1>1, <1>2, <1>3, <1>4, <1>5, <1>6, <1>7, <1>8, <1>9, <1>10, <1>11, <1>12, <1>13,
     <1>14, <1>15, <1>16, <1>17, <1>18, <1>19, <1>20, <1>21, <1>22, <1>23, <1>24, <1>25
     DEF Next, Arrive, Advance

\* Appending keeps the reversals apart if the new one may follow the last.
LEMMA UndoneAppend ==
  ASSUME NEW u \in Seq({"void", "return", "pay"}), NEW k \in {"void", "return", "pay"},
         \A j \in 1 .. Len(u) - 1 :
           u[j] = "pay" \/ u[j + 1] = "pay" \/ <<u[j], u[j + 1]>> = <<"return", "void">>,
         u # <<>> => u[Len(u)] = "pay" \/ k = "pay" \/ <<u[Len(u)], k>> = <<"return", "void">>
  PROVE  LET v == Append(u, k)
         IN  /\ v # <<>> /\ v[Len(v)] = k
             /\ \A j \in 1 .. Len(v) - 1 :
                  v[j] = "pay" \/ v[j + 1] = "pay" \/ <<v[j], v[j + 1]>> = <<"return", "void">>
<1> DEFINE v == Append(u, k)
           n == Len(u)
<1>1. /\ n \in Nat /\ Len(v) = n + 1 /\ v[n + 1] = k /\ v # <<>>
      /\ \A j \in 1 .. n : v[j] = u[j]
      /\ u = <<>> <=> n = 0
  BY AppendGives
<1> HIDE DEF v
<1>2. ASSUME NEW j \in 1 .. n
      PROVE  v[j] = "pay" \/ v[j + 1] = "pay" \/ <<v[j], v[j + 1]>> = <<"return", "void">>
  <2>1. CASE j = n
    BY <1>1, <1>2, <2>1
  <2>2. CASE j # n
    <3>1. j \in 1 .. n - 1 /\ j + 1 \in 1 .. n
      BY <1>1, <1>2, <2>2
    <3>2. v[j] = u[j] /\ v[j + 1] = u[j + 1]
      BY <1>1, <1>2, <3>1
    <3>3. QED
      BY <3>1, <3>2
  <2>3. QED
    BY <2>1, <2>2
<1>3. QED
  BY <1>1, <1>2 DEF v

\* Only a payment comes between two reversals, or a void after a return.
LEMMA UndoNext ==
  ASSUME TypeOK, \A c \in Call : Fits(c) /\ ReaderKnows(c) /\ PayerKnows(c), Alone,
           UndoneOnce, LastUndo, [Next]_vars
  PROVE  (UndoneOnce /\ LastUndo)'
<1> USE DEF bookVars, saleVars, moneyVars, undoVars, legVars, hookVars
<1>1. CASE Book
  BY <1>1 DEF Book, TypeOK, UndoneOnce, LastUndo, Refuses
<1>2. CASE LoseBooks
  BY <1>2 DEF LoseBooks, TypeOK, UndoneOnce, LastUndo, Refuses
<1>3. CASE Forget
  BY <1>3 DEF Forget, TypeOK, UndoneOnce, LastUndo, Refuses
<1>4. ASSUME NEW c \in Call, Pay(c) PROVE (UndoneOnce /\ LastUndo)'
  BY <1>4 DEF Pay, Begin, TypeOK, UndoneOnce, LastUndo, Refuses
<1>5. ASSUME NEW c \in Call, Split(c) PROVE (UndoneOnce /\ LastUndo)'
  BY <1>5 DEF Split, Begin, TypeOK, UndoneOnce, LastUndo, Refuses
<1>6. ASSUME NEW c \in Call, StartLink(c) PROVE (UndoneOnce /\ LastUndo)'
  BY <1>6 DEF StartLink, Begin, TypeOK, UndoneOnce, LastUndo, Refuses
<1>7. ASSUME NEW c \in Call, Hook(c) PROVE (UndoneOnce /\ LastUndo)'
  BY <1>7 DEF Hook, Begin, TypeOK, UndoneOnce, LastUndo, Refuses
<1>8. ASSUME NEW c \in Call, ArPay(c) PROVE (UndoneOnce /\ LastUndo)'
  BY <1>8 DEF ArPay, Goto, TypeOK, UndoneOnce, LastUndo, Refuses
<1>9. ASSUME NEW c \in Call, Undo(c) PROVE (UndoneOnce /\ LastUndo)'
  BY <1>9 DEF Undo, Begin, TypeOK, UndoneOnce, LastUndo, Refuses
<1>10. ASSUME NEW c \in Call, ReadSale(c) PROVE (UndoneOnce /\ LastUndo)'
  BY <1>10 DEF ReadSale, Goto, TypeOK, UndoneOnce, LastUndo, Refuses
<1>11. ASSUME NEW c \in Call, Flush(c) PROVE (UndoneOnce /\ LastUndo)'
  BY <1>11 DEF Flush, Goto, TypeOK, UndoneOnce, LastUndo, Refuses
<1>12. ASSUME NEW c \in Call, CommitPayment(c) PROVE (UndoneOnce /\ LastUndo)'
  <2>1. /\ undone \in Seq({"void", "return", "pay"}) /\ status \in Status
        /\ WriteStatus(c) \in {status, "partial", "completed"}
    BY PaymentWrites DEF TypeOK
  <2>2. /\ raced' = raced /\ status' = WriteStatus(c) /\ undone' = Revives(c)
    BY <1>12 DEF CommitPayment
  <2>3. SUFFICES ASSUME ~raced PROVE (UndoneOnce /\ LastUndo)'
    BY <2>2 DEF UndoneOnce, LastUndo
  <2>4. \A x \in Call : pc'[x] # "undoing"
    BY <1>12, <2>3 DEF CommitPayment, Goto, TypeOK, Alone, Stale
  <2>5. CASE status \in {"voided", "returned"} /\ WriteStatus(c) # status
    <3>1. undone' = Append(undone, "pay")
      BY <2>2, <2>5, PaymentWrites
    <3>2. /\ undone' # <<>> /\ undone'[Len(undone')] = "pay"
          /\ \A j \in 1 .. Len(undone') - 1 :
               undone'[j] = "pay" \/ undone'[j + 1] = "pay"
                 \/ <<undone'[j], undone'[j + 1]>> = <<"return", "void">>
      BY <2>1, <2>3, <3>1, UndoneAppend DEF UndoneOnce
    <3>3. QED
      BY <2>4, <3>2 DEF UndoneOnce, LastUndo
  <2>6. CASE ~(status \in {"voided", "returned"} /\ WriteStatus(c) # status)
    <3>1. undone' = undone
      BY <2>6, <2>2, PaymentWrites
    <3>2. status \in {"voided", "returned"} => status' = status
      BY <2>2, <2>6
    <3>3. QED
      BY <2>3, <2>4, <3>1, <3>2 DEF UndoneOnce, LastUndo
  <2>7. QED
    BY <2>5, <2>6
<1>13. ASSUME NEW c \in Call, CommitSplit(c) PROVE (UndoneOnce /\ LastUndo)'
  <2>1. /\ undone \in Seq({"void", "return", "pay"}) /\ status \in Status
        /\ WriteStatus(c) \in {status, "partial", "completed"}
    BY PaymentWrites DEF TypeOK
  <2>2. /\ raced' = raced /\ status' = WriteStatus(c) /\ undone' = Revives(c)
    BY <1>13 DEF CommitSplit
  <2>3. SUFFICES ASSUME ~raced PROVE (UndoneOnce /\ LastUndo)'
    BY <2>2 DEF UndoneOnce, LastUndo
  <2>4. \A x \in Call : pc'[x] # "undoing"
    BY <1>13, <2>3 DEF CommitSplit, Goto, TypeOK, Alone, Stale
  <2>5. CASE status \in {"voided", "returned"} /\ WriteStatus(c) # status
    <3>1. undone' = Append(undone, "pay")
      BY <2>2, <2>5, PaymentWrites
    <3>2. /\ undone' # <<>> /\ undone'[Len(undone')] = "pay"
          /\ \A j \in 1 .. Len(undone') - 1 :
               undone'[j] = "pay" \/ undone'[j + 1] = "pay"
                 \/ <<undone'[j], undone'[j + 1]>> = <<"return", "void">>
      BY <2>1, <2>3, <3>1, UndoneAppend DEF UndoneOnce
    <3>3. QED
      BY <2>4, <3>2 DEF UndoneOnce, LastUndo
  <2>6. CASE ~(status \in {"voided", "returned"} /\ WriteStatus(c) # status)
    <3>1. undone' = undone
      BY <2>6, <2>2, PaymentWrites
    <3>2. status \in {"voided", "returned"} => status' = status
      BY <2>2, <2>6
    <3>3. QED
      BY <2>3, <2>4, <3>1, <3>2 DEF UndoneOnce, LastUndo
  <2>7. QED
    BY <2>5, <2>6
<1>14. ASSUME NEW c \in Call, Link(c) PROVE (UndoneOnce /\ LastUndo)'
  BY <1>14 DEF Link, Goto, TypeOK, UndoneOnce, LastUndo, Refuses
<1>15. ASSUME NEW c \in Call, Dedupe(c) PROVE (UndoneOnce /\ LastUndo)'
  BY <1>15 DEF Dedupe, Keep, Goto, TypeOK, UndoneOnce, LastUndo, Refuses
<1>16. ASSUME NEW c \in Call, Open(c) PROVE (UndoneOnce /\ LastUndo)'
  BY <1>16 DEF Open, Keep, Goto, TypeOK, UndoneOnce, LastUndo, Refuses
<1>17. ASSUME NEW c \in Call, Claim(c) PROVE (UndoneOnce /\ LastUndo)'
  BY <1>17 DEF Claim, Keep, Goto, TypeOK, UndoneOnce, LastUndo, Refuses
<1>18. ASSUME NEW c \in Call, Flip(c) PROVE (UndoneOnce /\ LastUndo)'
  BY <1>18 DEF Flip, Goto, TypeOK, UndoneOnce, LastUndo, Refuses
<1>19. ASSUME NEW c \in Call, LogWebhook(c) PROVE (UndoneOnce /\ LastUndo)'
  BY <1>19 DEF LogWebhook, Keep, Goto, TypeOK, UndoneOnce, LastUndo, Refuses
<1>20. ASSUME NEW c \in Call, CheckUndo(c) PROVE (UndoneOnce /\ LastUndo)'
  BY <1>20 DEF CheckUndo, Goto, TypeOK, UndoneOnce, LastUndo, Refuses
<1>21. ASSUME NEW c \in Call, CommitUndo(c) PROVE (UndoneOnce /\ LastUndo)'
  <2>1. /\ undone \in Seq({"void", "return", "pay"})
        /\ kind[c] \in {"void", "return"} /\ undone' = Append(undone, kind[c])
        /\ raced' = raced /\ pc[c] = "undoing"
        /\ status' = IF kind[c] = "void" THEN "voided" ELSE "returned"
    BY <1>21 DEF CommitUndo, Fits, TypeOK
  <2>2. SUFFICES ASSUME ~raced PROVE (UndoneOnce /\ LastUndo)'
    BY <2>1 DEF UndoneOnce, LastUndo
  <2>3. \A x \in Call : pc'[x] # "undoing"
    BY <1>21, <2>2 DEF CommitUndo, Goto, TypeOK, Alone, Stale
  <2>4. undone # <<>> => \/ undone[Len(undone)] = "pay"
                         \/ <<undone[Len(undone)], kind[c]>> = <<"return", "void">>
    <3>1. undone # <<>> => undone[Len(undone)] \in {"void", "return", "pay"}
      BY <2>1, AppendGives
    <3>2. /\ undone # <<>> => /\ undone[Len(undone)] = "void" => status = "voided"
                              /\ undone[Len(undone)] = "return" => status = "returned"
          /\ status \notin Refuses(kind[c])
      BY <2>1, <2>2 DEF LastUndo
    <3>3. QED
      BY <2>1, <3>1, <3>2 DEF Refuses
  <2>5. /\ undone' # <<>> /\ undone'[Len(undone')] = kind[c]
        /\ \A j \in 1 .. Len(undone') - 1 :
             undone'[j] = "pay" \/ undone'[j + 1] = "pay"
               \/ <<undone'[j], undone'[j + 1]>> = <<"return", "void">>
    BY <2>1, <2>2, <2>4, UndoneAppend DEF UndoneOnce
  <2>6. QED
    BY <2>1, <2>3, <2>5 DEF UndoneOnce, LastUndo
<1>22. ASSUME NEW c \in Call, PoolTimeout(c) PROVE (UndoneOnce /\ LastUndo)'
  BY <1>22 DEF PoolTimeout, Goto, Release, TypeOK, UndoneOnce, LastUndo, Refuses
<1>23. ASSUME NEW c \in Call, GiveUp(c) PROVE (UndoneOnce /\ LastUndo)'
  BY <1>23 DEF GiveUp, Goto, Drop, TypeOK, UndoneOnce, LastUndo, Refuses
<1>24. ASSUME NEW c \in Call, Die(c) PROVE (UndoneOnce /\ LastUndo)'
  BY <1>24 DEF Die, Goto, Release, Drop, TypeOK, UndoneOnce, LastUndo, Refuses
<1>25. CASE UNCHANGED vars
  BY <1>25 DEF vars, TypeOK, UndoneOnce, LastUndo, Refuses
<1>26. QED
  BY <1>1, <1>2, <1>3, <1>4, <1>5, <1>6, <1>7, <1>8, <1>9, <1>10, <1>11, <1>12, <1>13,
     <1>14, <1>15, <1>16, <1>17, <1>18, <1>19, <1>20, <1>21, <1>22, <1>23, <1>24, <1>25
     DEF Next, Arrive, Advance

\* A step that records nothing and moves no delivery forward leaves the leg's
\* records in place.
LEMMA LegStays ==
  ASSUME LegInPlace, raced => raced', UNCHANGED <<logged, legTaken>>,
         \A x \in Call :
           /\ kind'[x] = "hook" /\ pc'[x] \in Recording => kind[x] = "hook" /\ pc[x] \in Recording
           /\ kind'[x] = "hook" /\ pc'[x] \in Recorded => kind[x] = "hook" /\ pc[x] \in Recorded
           /\ kind[x] = "hook" /\ pc[x] \in Recorded /\ Clean'
                => kind'[x] = "hook" /\ pc'[x] \in Recorded
           /\ kind[x] = "hook" /\ pc[x] \in {"dead", "timeout"}
                => kind'[x] = "hook" /\ pc'[x] \in {"dead", "timeout"}
  PROVE  LegInPlace'
<1>1. Clean' => Clean
  BY DEF Clean
<1>2. QED
  BY <1>1 DEF LegInPlace

\* One delivery at a time records the leg.
LEMMA LegNext ==
  ASSUME TypeOK, \A c \in Call : Fits(c) /\ ReaderKnows(c) /\ PayerKnows(c), Alone,
           LegInPlace, [Next]_vars
  PROVE  LegInPlace'
<1> USE DEF bookVars, saleVars, moneyVars, undoVars, legVars, hookVars
<1>1. CASE Book
  BY <1>1 DEF Book, TypeOK, LegInPlace, Fits, Clean, Recording, Recorded, Ended
<1>2. CASE LoseBooks
  BY <1>2 DEF LoseBooks, TypeOK, LegInPlace, Fits, Clean, Recording, Recorded, Ended
<1>3. CASE Forget
  BY <1>3 DEF Forget, TypeOK, LegInPlace, Fits, Clean, Recording, Recorded, Ended
<1>4. ASSUME NEW c \in Call, Pay(c) PROVE LegInPlace'
  BY <1>4 DEF Pay, Begin, TypeOK, LegInPlace, Fits, Clean, Recording, Recorded, Ended
<1>5. ASSUME NEW c \in Call, Split(c) PROVE LegInPlace'
  BY <1>5 DEF Split, Begin, TypeOK, LegInPlace, Fits, Clean, Recording, Recorded, Ended
<1>6. ASSUME NEW c \in Call, StartLink(c) PROVE LegInPlace'
  BY <1>6 DEF StartLink, Begin, TypeOK, LegInPlace, Fits, Clean, Recording, Recorded, Ended
<1>7. ASSUME NEW c \in Call, Hook(c) PROVE LegInPlace'
  BY <1>7 DEF Hook, Begin, TypeOK, LegInPlace, Fits, Clean, Recording, Recorded, Ended
<1>8. ASSUME NEW c \in Call, ArPay(c) PROVE LegInPlace'
  <2>1. (raced => raced') /\ UNCHANGED <<logged, legTaken>>
    BY <1>8 DEF ArPay, Goto
  <2>2. ASSUME NEW x \in Call
        PROVE  /\ kind'[x] = "hook" /\ pc'[x] \in Recording
                    => kind[x] = "hook" /\ pc[x] \in Recording
               /\ kind'[x] = "hook" /\ pc'[x] \in Recorded
                    => kind[x] = "hook" /\ pc[x] \in Recorded
               /\ kind[x] = "hook" /\ pc[x] \in Recorded /\ Clean'
                    => kind'[x] = "hook" /\ pc'[x] \in Recorded
               /\ kind[x] = "hook" /\ pc[x] \in {"dead", "timeout"}
                    => kind'[x] = "hook" /\ pc'[x] \in {"dead", "timeout"}
    BY <1>8 DEF ArPay, Goto, TypeOK, Recording, Recorded, Fits, Clean, Ended
  <2>3. QED
    BY <2>1, <2>2, LegStays
<1>9. ASSUME NEW c \in Call, Undo(c) PROVE LegInPlace'
  <2>1. (raced => raced') /\ UNCHANGED <<logged, legTaken>>
    BY <1>9 DEF Undo, Begin
  <2>2. ASSUME NEW x \in Call
        PROVE  /\ kind'[x] = "hook" /\ pc'[x] \in Recording
                    => kind[x] = "hook" /\ pc[x] \in Recording
               /\ kind'[x] = "hook" /\ pc'[x] \in Recorded
                    => kind[x] = "hook" /\ pc[x] \in Recorded
               /\ kind[x] = "hook" /\ pc[x] \in Recorded /\ Clean'
                    => kind'[x] = "hook" /\ pc'[x] \in Recorded
               /\ kind[x] = "hook" /\ pc[x] \in {"dead", "timeout"}
                    => kind'[x] = "hook" /\ pc'[x] \in {"dead", "timeout"}
    BY <1>9 DEF Undo, Begin, TypeOK, Recording, Recorded, Fits, Clean, Ended
  <2>3. QED
    BY <2>1, <2>2, LegStays
<1>10. ASSUME NEW c \in Call, ReadSale(c) PROVE LegInPlace'
  <2>1. (raced => raced') /\ UNCHANGED <<logged, legTaken>>
    BY <1>10 DEF ReadSale, Goto
  <2>2. ASSUME NEW x \in Call
        PROVE  /\ kind'[x] = "hook" /\ pc'[x] \in Recording
                    => kind[x] = "hook" /\ pc[x] \in Recording
               /\ kind'[x] = "hook" /\ pc'[x] \in Recorded
                    => kind[x] = "hook" /\ pc[x] \in Recorded
               /\ kind[x] = "hook" /\ pc[x] \in Recorded /\ Clean'
                    => kind'[x] = "hook" /\ pc'[x] \in Recorded
               /\ kind[x] = "hook" /\ pc[x] \in {"dead", "timeout"}
                    => kind'[x] = "hook" /\ pc'[x] \in {"dead", "timeout"}
    BY <1>10 DEF ReadSale, Goto, TypeOK, Recording, Recorded, Fits, Clean, Ended
  <2>3. QED
    BY <2>1, <2>2, LegStays
<1>11. ASSUME NEW c \in Call, Flush(c) PROVE LegInPlace'
  <2>1. (raced => raced') /\ UNCHANGED <<logged, legTaken>>
    BY <1>11 DEF Flush, Goto
  <2>2. ASSUME NEW x \in Call
        PROVE  /\ kind'[x] = "hook" /\ pc'[x] \in Recording
                    => kind[x] = "hook" /\ pc[x] \in Recording
               /\ kind'[x] = "hook" /\ pc'[x] \in Recorded
                    => kind[x] = "hook" /\ pc[x] \in Recorded
               /\ kind[x] = "hook" /\ pc[x] \in Recorded /\ Clean'
                    => kind'[x] = "hook" /\ pc'[x] \in Recorded
               /\ kind[x] = "hook" /\ pc[x] \in {"dead", "timeout"}
                    => kind'[x] = "hook" /\ pc'[x] \in {"dead", "timeout"}
    BY <1>11 DEF Flush, Goto, TypeOK, Recording, Recorded, Fits, Clean, Ended
  <2>3. QED
    BY <2>1, <2>2, LegStays
<1>12. ASSUME NEW c \in Call, CommitPayment(c) PROVE LegInPlace'
  BY SMTT(30), <1>12 DEF CommitPayment, Goto, Drop, TypeOK, LegInPlace, Fits, Clean, Recording,
     Recorded, Ended
<1>13. ASSUME NEW c \in Call, CommitSplit(c) PROVE LegInPlace'
  BY <1>13 DEF CommitSplit, Goto, Drop, TypeOK, LegInPlace, Fits, Clean, Recording, Recorded, Ended
<1>14. ASSUME NEW c \in Call, Link(c) PROVE LegInPlace'
  BY <1>14 DEF Link, Goto, TypeOK, LegInPlace, Fits, Clean, Recording, Recorded, Ended
<1>15. ASSUME NEW c \in Call, Dedupe(c) PROVE LegInPlace'
  <2>1. /\ pc[c] = "deduping" /\ kind[c] = "hook" /\ kind' = kind /\ legTaken' = legTaken
        /\ logged' = logged /\ (~raced' => ~raced /\ ~(~logged /\ OtherHook(c)))
        /\ \A x \in Call \ {c} : pc'[x] = pc[x]
        /\ pc'[c] = IF logged THEN "refused" ELSE "claiming"
    BY <1>15 DEF Dedupe, Keep, Goto, TypeOK, Fits
  <2>2. CASE logged
    <3>1. ASSUME NEW x \in Call
          PROVE  /\ kind'[x] = "hook" /\ pc'[x] \in Recording
                      => kind[x] = "hook" /\ pc[x] \in Recording
                 /\ kind'[x] = "hook" /\ pc'[x] \in Recorded
                      => kind[x] = "hook" /\ pc[x] \in Recorded
                 /\ kind[x] = "hook" /\ pc[x] \in Recorded /\ Clean'
                      => kind'[x] = "hook" /\ pc'[x] \in Recorded
                 /\ kind[x] = "hook" /\ pc[x] \in {"dead", "timeout"}
                      => kind'[x] = "hook" /\ pc'[x] \in {"dead", "timeout"}
      BY <2>1, <2>2 DEF Recording, Recorded
    <3>2. QED
      BY <2>1, <3>1, LegStays
  <2>3. CASE ~logged
    <3>1. SUFFICES ASSUME Clean' PROVE LegInPlace'
      BY DEF LegInPlace
    <3>2. Clean
      BY <2>1, <3>1 DEF Clean
    <3>3. \A x \in Call : kind[x] = "hook" => pc[x] \notin Recording \cup Recorded
      BY <2>1, <2>3, <3>1 DEF Clean, OtherHook, Ended, Recording, Recorded
    <3>4. legTaken = 0
      BY <2>3, <3>2, <3>3 DEF LegInPlace, TypeOK
    <3>5. \A x \in Call : /\ pc'[x] \notin Recorded \/ kind'[x] # "hook"
                          /\ kind'[x] = "hook" /\ pc'[x] \in Recording => x = c
      BY <2>1, <2>3, <3>3 DEF Recording, Recorded
    <3>6. QED
      BY <2>1, <2>3, <3>4, <3>5 DEF LegInPlace
  <2>4. QED
    BY <2>2, <2>3
<1>16. ASSUME NEW c \in Call, Open(c) PROVE LegInPlace'
  BY SMTT(30), <1>16
     DEF Open, Keep, Goto, TypeOK, LegInPlace, Fits, Clean, Recording, Recorded, Ended
<1>17. ASSUME NEW c \in Call, Claim(c) PROVE LegInPlace'
  BY <1>17 DEF Claim, Keep, Goto, TypeOK, LegInPlace, Fits, Clean, Recording, Recorded, Ended
<1>18. ASSUME NEW c \in Call, Flip(c) PROVE LegInPlace'
  BY <1>18 DEF Flip, Goto, TypeOK, LegInPlace, Fits, Clean, Recording, Recorded, Ended
<1>19. ASSUME NEW c \in Call, LogWebhook(c) PROVE LegInPlace'
  BY <1>19 DEF LogWebhook, Keep, Goto, TypeOK, LegInPlace, Fits, Clean, Recording, Recorded, Ended
<1>20. ASSUME NEW c \in Call, CheckUndo(c) PROVE LegInPlace'
  BY SMTT(30), <1>20
     DEF CheckUndo, Goto, TypeOK, LegInPlace, Fits, Clean, Recording, Recorded, Ended
<1>21. ASSUME NEW c \in Call, CommitUndo(c) PROVE LegInPlace'
  BY <1>21 DEF CommitUndo, Goto, TypeOK, LegInPlace, Fits, Clean, Recording, Recorded, Ended
<1>22. ASSUME NEW c \in Call, PoolTimeout(c) PROVE LegInPlace'
  BY <1>22 DEF PoolTimeout, Goto, Release, TypeOK, LegInPlace, Fits, Clean, Recording,
     Recorded, Ended
<1>23. ASSUME NEW c \in Call, GiveUp(c) PROVE LegInPlace'
  BY <1>23 DEF GiveUp, Goto, Drop, TypeOK, LegInPlace, Fits, Clean, Recording, Recorded, Ended
<1>24. ASSUME NEW c \in Call, Die(c) PROVE LegInPlace'
  BY <1>24 DEF Die, Goto, Release, Drop, TypeOK, LegInPlace, Fits, Clean, Recording, Recorded, Ended
<1>25. CASE UNCHANGED vars
  BY <1>25 DEF vars, TypeOK, LegInPlace, Fits, Clean, Recording, Recorded, Ended
<1>26. QED
  BY <1>1, <1>2, <1>3, <1>4, <1>5, <1>6, <1>7, <1>8, <1>9, <1>10, <1>11, <1>12, <1>13,
     <1>14, <1>15, <1>16, <1>17, <1>18, <1>19, <1>20, <1>21, <1>22, <1>23, <1>24, <1>25
     DEF Next, Arrive, Advance

\* The first state.
LEMMA InitIInv == Init => IInv
<1> SUFFICES ASSUME Init PROVE IInv
  OBVIOUS
<1>1. TypeOK
  <2>1. Total \in Nat /\ MaxDeaths \in Nat
    BY LedgerAssumption
  <2>2. held \in [Call -> [paid : Nat, status : Status, ar : 0 .. Total]]
    BY <2>1 DEF Init, Status
  <2>3. /\ pc \in [Call -> Phase] /\ kind \in [Call -> Kind] /\ amt \in [Call -> 0 .. Total]
    BY <2>1 DEF Init, Phase, Kind
  <2>4. undone \in Seq({"void", "return", "pay"})
    BY DEF Init
  <2>5. /\ receivable \in BOOLEAN /\ books \in {"missing", "posted", "lost"}
        /\ seen \in BOOLEAN /\ logged \in BOOLEAN /\ raced \in BOOLEAN
    BY DEF Init
  <2>6. /\ paid = 0 /\ status \in Status /\ lock \in Call \cup {NoCall} /\ arPaid = 0
        /\ credited = 0 /\ taken = 0 /\ pend = 0 /\ ded = 0 /\ confirms = 0 /\ reversed = 0
        /\ leg = "none" /\ legAmt = 0 /\ legLock \in Call \cup {NoCall} /\ legTaken = 0
        /\ deaths = 0
    BY DEF Init, Status
  <2>7. QED
    BY <2>1, <2>2, <2>3, <2>4, <2>5, <2>6 DEF TypeOK
<1>2. \A c \in Call : Fits(c) /\ ReaderKnows(c) /\ PayerKnows(c)
  BY DEF Init, Fits, ReaderKnows, PayerKnows, Inner
<1>3. Alone /\ PaidIsTaken /\ ReceivableFollowsBooks /\ UndoneOnce /\ LastUndo
  BY LedgerAssumption DEF Init, Alone, Stale, PaidIsTaken, ReceivableFollowsBooks,
     UndoneOnce, LastUndo
<1>4. ConfirmsCounted
  <2>1. undone = <<>> /\ confirms = 0 /\ status = "pending"
    BY DEF Init
  <2>2. Revivals(undone) \in Nat
    BY <1>1, RevivalsAppend DEF TypeOK
  <2>3. QED
    BY <2>1, <2>2 DEF ConfirmsCounted
<1>5. LegInPlace
  BY DEF Init, LegInPlace
<1>6. QED
  BY <1>1, <1>2, <1>3, <1>4, <1>5 DEF IInv

\* Every step keeps the invariant.
LEMMA NextIInv == IInv /\ [Next]_vars => IInv'
BY TypeNext, FitsNext, AloneNext, ReadersNext, PaidNext, PayersNext, ReceivableNext,
   ConfirmsNext, UndoNext, LegNext DEF IInv

\* The inductive invariant holds in every reachable state.
THEOREM InvariantHolds == Spec => []IInv
<1>1. Init => IInv
  BY InitIInv
<1>2. IInv /\ [Next]_vars => IInv'
  BY NextIInv
<1>3. QED
  BY <1>1, <1>2, PTL DEF Spec

\* Amounts, statuses, locks and the records of the requests are of their types.
THEOREM TypeCorrect == Spec => []TypeOK
BY InvariantHolds, PTL DEF IInv

\* For any total and any requests, the sale never says that more was paid than
\* was, and exactly what was paid unless two requests raced.
THEOREM PaidIsTakenHolds == Spec => []PaidIsTaken
BY InvariantHolds, PTL DEF IInv

\* The receivable's row never runs ahead of the ledger, and follows it exactly
\* unless two payments raced.
THEOREM ReceivableFollowsBooksHolds == Spec => []ReceivableFollowsBooks
BY InvariantHolds, PTL DEF IInv

\* An open sale has the confirmations its revivals account for, any other at most
\* one more.
LEMMA CountedConfirms == IInv => ConfirmedOnce
<1> SUFFICES ASSUME IInv PROVE ConfirmedOnce
  OBVIOUS
<1>1. confirms \in Nat /\ Revivals(undone) \in Nat /\ ConfirmsCounted
  BY RevivalsAppend DEF IInv, TypeOK
<1>2. QED
  BY <1>1 DEF ConfirmsCounted, ConfirmedOnce

\* sale.confirmed is staged once for each time the sale is opened.
THEOREM ConfirmedOnceHolds == Spec => []ConfirmedOnce
BY InvariantHolds, CountedConfirms, PTL

\* A sale is reversed once for each time it is opened, but for the void of a
\* returned sale.
THEOREM UndoneOnceHolds == Spec => []UndoneOnce
BY InvariantHolds, PTL DEF IInv

\* A clean leg has at most one record.
LEMMA CleanLeg == IInv => LegRecordedOnce
BY DEF IInv, LegInPlace, Clean, LegRecordedOnce, TypeOK

\* A card leg is recorded once unless a delivery of its webhook failed or met
\* another.
THEOREM LegRecordedOnceHolds == Spec => []LegRecordedOnce
BY InvariantHolds, CleanLeg, PTL

-----------------------------------------------------------------------------
(* Nobody waits in a circle. This is the part of RequestsEnd that needs no *)
(* fairness; TLC finds that Blocked(c) is what keeps Advance(c) from being *)
(* taken.                                                                  *)

\* A request under way has no step of its own: it waits for a row lock. (One
\* that waits for a connection has PoolTimeout.)
Blocked(c) ==
  \/ pc[c] \in {"flushing", "undoing"} /\ lock # NoCall
  \/ pc[c] = "splitting" /\ lock # NoCall /\ leg = "none"
  \/ pc[c] = "marking" /\ legLock # NoCall /\ leg # "completed"

Underway(c) == pc[c] \notin Ended

\* If any request is under way, one of them has a step.
SomeoneProceeds ==
  (\E c \in Call : Underway(c)) => \E c \in Call : Underway(c) /\ ~Blocked(c)

OnLeg == {"claimed", "flushing", "locked", "flipping"}

\* Who holds the sale's row is about to commit; who holds the leg's has claimed
\* it and has yet to flip it.
Locks ==
  /\ lock # NoCall => pc[lock] = "locked"
  /\ legLock # NoCall => kind[legLock] = "hook" /\ pc[legLock] \in OnLeg

\* Every step keeps the locks with requests that are at work on what they lock.
LEMMA LocksNext ==
  ASSUME TypeOK, \A c \in Call : Fits(c), Locks, [Next]_vars
  PROVE  Locks'
<1> USE DEF bookVars, saleVars, moneyVars, undoVars, legVars, hookVars
<1>0. /\ lock \in Call \cup {NoCall} /\ legLock \in Call \cup {NoCall} /\ NoCall \notin Call
      /\ pc \in [Call -> Phase] /\ kind \in [Call -> Kind]
  BY LedgerAssumption DEF TypeOK
<1>1. CASE Book \/ LoseBooks \/ Forget \/ UNCHANGED vars
  BY <1>1 DEF Book, LoseBooks, Forget, vars, Locks
<1>2. ASSUME NEW c \in Call, Pay(c) \/ Split(c) \/ StartLink(c) \/ Undo(c) \/ Hook(c)
      PROVE  Locks'
  <2>1. /\ pc[c] = "ready" /\ UNCHANGED <<lock, legLock>>
        /\ \A d \in Call \ {c} : pc'[d] = pc[d] /\ kind'[d] = kind[d]
    BY <1>0, <1>2 DEF Pay, Split, StartLink, Undo, Hook, Begin
  <2>2. QED
    BY <1>0, <2>1 DEF Locks, OnLeg
<1>3. ASSUME NEW c \in Call, ArPay(c) PROVE Locks'
  <2>1. /\ pc[c] = "ready" /\ UNCHANGED <<lock, legLock>>
        /\ \A d \in Call \ {c} : pc'[d] = pc[d] /\ kind'[d] = kind[d]
    BY <1>0, <1>3 DEF ArPay, Goto
  <2>2. QED
    BY <1>0, <2>1 DEF Locks, OnLeg
<1>4. ASSUME NEW c \in Call, ReadSale(c) PROVE Locks'
  BY <1>0, <1>4 DEF ReadSale, Goto, Locks, OnLeg, Fits
<1>5. ASSUME NEW c \in Call, Flush(c) PROVE Locks'
  BY <1>0, <1>5 DEF Flush, Goto, Locks, OnLeg
<1>6. ASSUME NEW c \in Call, CommitPayment(c) PROVE Locks'
  BY <1>0, <1>6 DEF CommitPayment, Goto, Locks, OnLeg
<1>7. ASSUME NEW c \in Call, CommitSplit(c) \/ Link(c) PROVE Locks'
  BY <1>0, <1>7 DEF CommitSplit, Link, Goto, Locks, OnLeg
<1>8. ASSUME NEW c \in Call, Dedupe(c) \/ Open(c) \/ LogWebhook(c) PROVE Locks'
  BY <1>0, <1>8 DEF Dedupe, Open, LogWebhook, Keep, Goto, Locks, OnLeg
<1>9. ASSUME NEW c \in Call, Claim(c) PROVE Locks'
  BY <1>0, <1>9 DEF Claim, Keep, Goto, Locks, OnLeg, Fits
<1>10. ASSUME NEW c \in Call, Flip(c) PROVE Locks'
  BY <1>0, <1>10 DEF Flip, Goto, Locks, OnLeg
<1>11. ASSUME NEW c \in Call, CheckUndo(c) \/ CommitUndo(c) \/ GiveUp(c) PROVE Locks'
  BY <1>0, <1>11 DEF CheckUndo, CommitUndo, GiveUp, Goto, Locks, OnLeg
<1>12. ASSUME NEW c \in Call, PoolTimeout(c) \/ Die(c) PROVE Locks'
  BY <1>0, <1>12 DEF PoolTimeout, Die, Release, Goto, Locks, OnLeg
<1>13. QED
  BY <1>1, <1>2, <1>3, <1>4, <1>5, <1>6, <1>7, <1>8, <1>9, <1>10, <1>11, <1>12
     DEF Next, Arrive, Advance

\* A request that waits for the leg's row waits for one that has a step, or that
\* waits for the sale's row; and the holder of that one commits next.
LEMMA HolderProceeds ==
  ASSUME TypeOK, Locks
  PROVE  SomeoneProceeds
<1> SUFFICES ASSUME NEW c \in Call, Underway(c)
             PROVE  \E d \in Call : Underway(d) /\ ~Blocked(d)
  BY DEF SomeoneProceeds
<1>1. CASE lock # NoCall
  <2>1. lock \in Call /\ pc[lock] = "locked"
    BY <1>1 DEF TypeOK, Locks
  <2>2. QED
    BY <2>1 DEF Underway, Ended, Blocked
<1>2. CASE lock = NoCall /\ legLock # NoCall
  <2>1. legLock \in Call /\ pc[legLock] \in OnLeg
    BY <1>2 DEF TypeOK, Locks
  <2>2. QED
    BY <1>2, <2>1 DEF OnLeg, Underway, Ended, Blocked
<1>3. CASE lock = NoCall /\ legLock = NoCall
  BY <1>3 DEF Blocked
<1>4. QED
  BY <1>1, <1>2, <1>3

\* For any number of requests and connections, the requests never all wait for
\* each other: a webhook that holds the leg's row and a connection while
\* record_payment asks for more of both is no part of a circle.
THEOREM SomeoneProceedsHolds == Spec => []SomeoneProceeds
<1>1. Init => Locks
  BY DEF Init, Locks
<1>2. IInv /\ Locks /\ [Next]_vars => Locks'
  BY LocksNext DEF IInv
<1>3. IInv /\ Locks => SomeoneProceeds
  BY HolderProceeds DEF IInv
<1>4. QED
  BY <1>1, <1>2, <1>3, InvariantHolds, PTL DEF Spec

-----------------------------------------------------------------------------
(* The requests implement Till: a commit computes from what its request    *)
(* read, and while no two have raced that is what the sale still says.     *)

\* A race is never forgotten.
LEMMA RacedStays ==
  ASSUME TypeOK, [Next]_vars, ~raced'
  PROVE  raced = FALSE
<1> USE DEF TypeOK
<1>1. CASE Book \/ LoseBooks \/ Forget
  BY <1>1 DEF Book, LoseBooks, Forget
<1>2. ASSUME NEW c \in Call, Arrive(c) PROVE raced = FALSE
  BY <1>2 DEF Arrive, Pay, Split, StartLink, Hook, ArPay, Undo, Begin
<1>3. ASSUME NEW c \in Call, Advance(c) PROVE raced = FALSE
  BY <1>3 DEF Advance, ReadSale, Flush, CommitPayment, CommitSplit, Link, Dedupe, Open, Claim,
     Flip, LogWebhook, CheckUndo, CommitUndo, PoolTimeout, GiveUp, Keep
<1>4. ASSUME NEW c \in Call, Die(c) PROVE raced = FALSE
  BY <1>4 DEF Die
<1>5. CASE UNCHANGED vars
  BY <1>5 DEF vars
<1>6. QED
  BY <1>1, <1>2, <1>3, <1>4, <1>5 DEF Next

\* A request that has read the sale writes what its operation makes of it now.
LEMMA WritesAfter ==
  ASSUME IInv, NEW c \in Call, pc[c] \in Inner, ~raced
  PROVE  /\ amt[c] \in 0 .. Total /\ NewPaid(c) = paid + amt[c]
         /\ WriteStatus(c) = Serial!After(amt[c])
         /\ Revives(c) = IF status \in {"voided", "returned"}
                            /\ Serial!After(amt[c]) # status
                         THEN Append(undone, "pay") ELSE undone
         /\ Confirms(c) = IF Serial!After(amt[c]) = "completed" /\ status # "completed"
                          THEN 1 ELSE 0
<1>1. TypeOK /\ PaidIsTaken /\ ReaderKnows(c)
  BY DEF IInv
<1>2. held[c].paid = paid /\ held[c].status = status /\ amt[c] \in 0 .. Total
  BY <1>1 DEF ReaderKnows, TypeOK
<1>3. NewPaid(c) = paid + amt[c]
  BY <1>2 DEF NewPaid
<1>4. NewStatus(c) = Serial!After(amt[c])
  BY <1>2, <1>3 DEF NewStatus, Serial!After
<1>5. WriteStatus(c) = Serial!After(amt[c])
  BY <1>2, <1>4 DEF WriteStatus
<1>6. Revives(c) = IF status \in {"voided", "returned"} /\ Serial!After(amt[c]) # status
                   THEN Append(undone, "pay") ELSE undone
  BY <1>5 DEF Revives
<1>7. Confirms(c) = IF Serial!After(amt[c]) = "completed" /\ status # "completed"
                    THEN 1 ELSE 0
  BY <1>2, <1>4 DEF Confirms
<1>8. QED
  BY <1>2, <1>3, <1>5, <1>6, <1>7

\* What a payment takes off the receivable is off the row as it is, or nothing.
LEMMA DrawsNow ==
  ASSUME IInv, NEW c \in Call, pc[c] = "locked", ~raced, DrawDown(c)
  PROVE  arPaid' \in {arPaid, IF arPaid + amt[c] < Total THEN arPaid + amt[c] ELSE Total}
<1>1. /\ held[c].ar \in 0 .. Total /\ amt[c] \in 0 .. Total /\ arPaid \in 0 .. Total
      /\ Total \in Nat
  BY LedgerAssumption DEF IInv, TypeOK
<1>2. held[c].ar = Total \/ held[c].ar = arPaid
  BY DEF IInv, PayerKnows
<1>3. CASE held[c].ar = Total
  <2>1. Settles(c) = 0
    BY <1>1, <1>3 DEF Settles, Smaller
  <2>2. QED
    BY <2>1 DEF DrawDown
<1>4. CASE held[c].ar = arPaid
  <2>1. Settles(c) = IF amt[c] < Total - arPaid THEN amt[c] ELSE Total - arPaid
    BY <1>4 DEF Settles, Smaller
  <2>2. Settles(c) > 0 => arPaid' = arPaid + Settles(c)
    BY <1>4 DEF DrawDown
  <2>3. ~(Settles(c) > 0) => arPaid' = arPaid
    BY DEF DrawDown
  <2>4. QED
    BY <1>1, <2>1, <2>2, <2>3
<1>5. QED
  BY <1>2, <1>3, <1>4

\* record_payment, as a payment of its amount.
LEMMA PaymentSerial ==
  ASSUME IInv, NEW c \in Call, CommitPayment(c), ~raced
  PROVE  \E a \in 0 .. Total : Serial!Pay(a)
<1>1. pc[c] = "locked" /\ pc[c] \in Inner /\ DrawDown(c)
  BY DEF CommitPayment, Inner
<1>2. PICK a \in 0 .. Total : a = amt[c]
  BY <1>1, WritesAfter
<1>3. /\ taken' = taken + a /\ paid' = paid + a /\ status' = Serial!After(a)
      /\ undone' = IF status \in {"voided", "returned"} /\ Serial!After(a) # status
                   THEN Append(undone, "pay") ELSE undone
  BY <1>1, <1>2, WritesAfter DEF CommitPayment
<1>4. confirms' = IF Serial!After(a) = "completed" /\ status # "completed"
                  THEN confirms + 1 ELSE confirms
  <2>1. confirms' = confirms + Confirms(c) /\ confirms \in Nat
    BY DEF CommitPayment, IInv, TypeOK
  <2>2. Confirms(c) = IF Serial!After(a) = "completed" /\ status # "completed"
                      THEN 1 ELSE 0
    BY <1>1, <1>2, WritesAfter
  <2>3. QED
    BY <2>1, <2>2
<1>5. arPaid' \in {arPaid, IF arPaid + a < Total THEN arPaid + a ELSE Total}
  BY <1>1, <1>2, DrawsNow
<1>6. UNCHANGED <<books, reversed>>
  BY DEF CommitPayment
<1>7. Serial!Pay(a)
  BY <1>3, <1>4, <1>5, <1>6 DEF Serial!Pay, Serial!Take
<1>8. QED
  BY <1>7

\* process_split_payment, as a payment of the cash share.
LEMMA SplitSerial ==
  ASSUME IInv, NEW c \in Call, CommitSplit(c), ~raced
  PROVE  \E a \in 0 .. Total : Serial!Share(a)
<1>1. pc[c] \in Inner
  BY DEF CommitSplit, Inner
<1>2. PICK a \in 0 .. Total : a = amt[c]
  BY <1>1, WritesAfter
<1>3. /\ taken' = taken + a /\ status' = Serial!After(a)
      /\ undone' = IF status \in {"voided", "returned"} /\ Serial!After(a) # status
                   THEN Append(undone, "pay") ELSE undone
  BY <1>1, <1>2, WritesAfter DEF CommitSplit
<1>4. paid' = paid + a
  <2>1. paid' = IF a > 0 THEN paid + a ELSE paid
    BY <1>1, <1>2, WritesAfter DEF CommitSplit
  <2>2. paid \in Nat
    BY DEF IInv, TypeOK
  <2>3. QED
    BY <2>1, <2>2
<1>5. UNCHANGED <<books, reversed, confirms, arPaid>>
  BY DEF CommitSplit, bookVars
<1>6. Serial!Share(a)
  BY <1>3, <1>4, <1>5 DEF Serial!Share, Serial!Take
<1>7. QED
  BY <1>6

\* fn_record_ar_payment, as a payment entered against the receivable.
LEMMA EnterSerial ==
  ASSUME IInv, NEW c \in Call, ArPay(c), raced' = raced
  PROVE  UNCHANGED Serial!vars \/ \E a \in 0 .. Total : Serial!Enter(a)
<1>1. books = "posted" /\ UNCHANGED <<taken, paid, status, books, confirms, reversed, undone>>
  BY DEF ArPay, saleVars, moneyVars, undoVars
<1>2. PICK a \in Amount :
        \/ a > Total - arPaid /\ UNCHANGED arPaid
        \/ ~(a > Total - arPaid) /\ arPaid' = arPaid + a
  BY DEF ArPay
<1>3. CASE UNCHANGED arPaid
  BY <1>1, <1>3 DEF Serial!vars
<1>4. CASE ~(a > Total - arPaid) /\ arPaid' = arPaid + a
  <2>1. arPaid \in 0 .. Total /\ Total \in Nat /\ a \in 0 .. Total
    BY LedgerAssumption DEF IInv, TypeOK, Amount
  <2>2. a <= Total - arPaid
    BY <1>4, <2>1
  <2>3. Serial!Enter(a)
    BY <1>1, <1>4, <2>2 DEF Serial!Enter
  <2>4. QED
    BY <2>1, <2>3
<1>5. QED
  BY <1>2, <1>3, <1>4

\* void_sale and return_sale, of a sale that is as it was checked.
LEMMA UndoSerial ==
  ASSUME IInv, NEW c \in Call, CommitUndo(c), ~raced
  PROVE  \/ Serial!Undo("void", "voided", {"voided"})
         \/ Serial!Undo("return", "returned", {"voided", "returned"})
<1>1. pc[c] = "undoing" /\ kind[c] \in {"void", "return"} /\ status \notin Refuses(kind[c])
  BY DEF CommitUndo, IInv, Fits, LastUndo
<1>2. /\ status' = IF kind[c] = "void" THEN "voided" ELSE "returned"
      /\ reversed' = IF books = "posted" THEN reversed + 1 ELSE reversed
      /\ undone' = Append(undone, kind[c])
      /\ UNCHANGED <<taken, paid, arPaid, books, confirms>>
  BY DEF CommitUndo, bookVars, moneyVars
<1>3. QED
  BY <1>1, <1>2 DEF Refuses, Serial!Undo

\* Every step of the requests is one of Till's operations, or nothing it sees.
LEMMA StepSerial ==
  ASSUME IInv, [Next]_vars, ~raced'
  PROVE  UNCHANGED Serial!vars \/ Serial!Operate
<1> USE DEF bookVars, saleVars, moneyVars, undoVars, Serial!vars
<1>1. raced = FALSE /\ raced' = raced
  <2>1. TypeOK /\ TypeOK'
    BY NextIInv DEF IInv
  <2>2. QED
    BY <2>1, RacedStays DEF TypeOK
<1>2. CASE Book
  <2>1. undone = <<>>
    BY <1>1, <1>2 DEF Book
  <2>2. Serial!Book
    BY <1>2, <2>1 DEF Book, Serial!Book
  <2>3. QED
    BY <2>2 DEF Serial!Operate
<1>3. CASE LoseBooks
  BY <1>3 DEF LoseBooks, Serial!Lose, Serial!Operate
<1>4. CASE Forget
  BY <1>1, <1>4 DEF Forget
<1>5. ASSUME NEW c \in Call, Pay(c) \/ Split(c) \/ StartLink(c) \/ Hook(c) \/ Undo(c)
      PROVE  UNCHANGED Serial!vars
  BY <1>1, <1>5 DEF Pay, Split, StartLink, Hook, Undo, Begin
<1>6. ASSUME NEW c \in Call, ArPay(c) PROVE UNCHANGED Serial!vars \/ Serial!Operate
  BY <1>1, <1>6, EnterSerial DEF Serial!Operate
<1>7. ASSUME NEW c \in Call, CommitPayment(c) PROVE Serial!Operate
  BY <1>1, <1>7, PaymentSerial DEF Serial!Operate
<1>8. ASSUME NEW c \in Call, CommitSplit(c) PROVE Serial!Operate
  BY <1>1, <1>8, SplitSerial DEF Serial!Operate
<1>9. ASSUME NEW c \in Call, CommitUndo(c) PROVE Serial!Operate
  BY <1>1, <1>9, UndoSerial DEF Serial!Operate
<1>10. ASSUME NEW c \in Call, ReadSale(c) \/ Flush(c) \/ Link(c) PROVE UNCHANGED Serial!vars
  BY <1>1, <1>10 DEF ReadSale, Flush, Link
<1>11. ASSUME NEW c \in Call,
              Dedupe(c) \/ Open(c) \/ Claim(c) \/ Flip(c) \/ LogWebhook(c)
       PROVE  UNCHANGED Serial!vars
  BY <1>1, <1>11 DEF Dedupe, Open, Claim, Flip, LogWebhook, Keep
<1>12. ASSUME NEW c \in Call, CheckUndo(c) \/ PoolTimeout(c) \/ GiveUp(c) \/ Die(c)
       PROVE  UNCHANGED Serial!vars
  BY <1>1, <1>12 DEF CheckUndo, PoolTimeout, GiveUp, Die
<1>13. CASE UNCHANGED vars
  BY <1>13 DEF vars
<1>14. QED
  BY <1>2, <1>3, <1>4, <1>5, <1>6, <1>7, <1>8, <1>9, <1>10, <1>11, <1>12, <1>13
     DEF Next, Arrive, Advance

\* From the first race on nothing is promised.
LEMMA NextSerial == IInv /\ [Next]_vars => [Serial!Next]_(Serial!vars)
<1> SUFFICES ASSUME IInv, [Next]_vars PROVE [Serial!Next]_(Serial!vars)
  OBVIOUS
<1>1. CASE raced'
  BY <1>1 DEF Serial!Next
<1>2. CASE ~raced'
  <2>1. raced = FALSE
    BY <1>2, RacedStays DEF IInv
  <2>2. QED
    BY <1>2, <2>1, StepSerial DEF Serial!Next
<1>3. QED
  BY <1>1, <1>2

\* A sale begins as Till's does.
LEMMA InitSerial == Init => Serial!Init
BY DEF Init, Serial!Init

\* For any requests, total, pool and leg, unless two requests race each payment,
\* void and return does to the sale of the moment it commits what its operation
\* would do alone, although it was computed from an older reading.
THEOREM TillImplemented == Spec => ImplementsTill
<1>1. Init => Serial!Init
  BY InitSerial
<1>2. IInv /\ [Next]_vars => [Serial!Next]_(Serial!vars)
  BY NextSerial
<1>3. QED
  BY <1>1, <1>2, InvariantHolds, PTL DEF Spec, ImplementsTill, Serial!Spec

-----------------------------------------------------------------------------
(* The versioned cache of a scope: proofs about HotReads, for any requests, *)
(* processes and threshold, whose names are its own so that they stand      *)
(* beside those of SaleLedger.                                              *)
(*                                                                          *)
(* The inductive invariant ReadsInv counts commits and bumps by requests,   *)
(* and says of each request that looks for an entry, or is about to store   *)
(* one, what can be under the version it holds.                             *)

\* From here on the constants are what HotReads assumes of them.
USE HotReadsAssumption

\* Requests that may still commit, and those that may still bump the version.
Committing == {"ready", "commit", "bump first", "commit last"}
Bumping    == {"ready", "commit", "bump", "bump first"}
At(S)      == {t \in Task : task[t].at \in S}

\* Each commit and each bump is some request's.
Counted ==
  /\ db + Cardinality(At(Committing)) <= Cardinality(Task)
  /\ ver + Cardinality(At(Bumping)) <= Cardinality(Task)

\* No version that was read is ahead of the version, nothing that is settled
\* is ahead of the data, a request has no value before it begins, and only one
\* that did bump the version settles the data by a commit.
Behind ==
  /\ settled <= db
  /\ \A t \in Task :
       /\ task[t].ver <= ver /\ task[t].since <= ver /\ task[t].floor <= settled
       /\ task[t].at = "ready" => task[t].val = None
       /\ task[t].at = "commit last" /\ task[t].client => early

\* Only a command that is on the way is a probe.
Probes == \A t \in Task : task[t].probing => task[t].sent

\* A value in the hands of a request is not older than what it began with.
Holds(t) == task[t].val # None => task[t].val >= task[t].floor

\* A request that is about to store what it read.
Storing(t) == task[t].at \in {"again", "store"}

\* The entry a request is about to find, and any that may take its place
\* before, is not older than what the request began with.
Looks(t) ==
  task[t].at = "entry" =>
    /\ cache[task[t].ver] # None => cache[task[t].ver] >= task[t].floor
    /\ \A u \in Task : Storing(u) /\ task[u].since = task[t].ver
                         => task[u].val >= task[t].floor

\* What is stored under the version it was read at is not older than what was
\* settled at that version.
Stores(t) ==
  /\ task[t].at = "store" => task[t].ver = task[t].since
  /\ Storing(t) => task[t].val # None
  /\ Storing(t) /\ task[t].since = ver => task[t].val >= settled

\* The entry at hand is not older than what
\* is settled, and there is none under versions to come.
Fresh ==
  /\ \A t \in Task : Holds(t) /\ Looks(t) /\ Stores(t)
  /\ cache[ver] # None => cache[ver] >= settled
  /\ \A v \in Version : v > ver => cache[v] = None

\* How a request goes on: it looks for an entry under the version at hand, or
\* where it did before; what it is about to store was read at the version at
\* hand, or was to be stored before.
Careful(t, n) ==
  /\ n.floor <= settled
  /\ n.val # None => n.val >= n.floor
  /\ n.at = "entry" =>
       \/ n.ver = ver
       \/ task[t].at = "entry" /\ n.ver = task[t].ver /\ n.floor = task[t].floor
  /\ n.at \in {"again", "store"} =>
       /\ n.val # None
       /\ \/ n.since = ver /\ n.val >= settled
          \/ Storing(t) /\ n.since = task[t].since /\ n.val = task[t].val
  /\ n.at = "store" => n.ver = n.since

ReadsInv ==
  /\ ReadsTypeOK
  /\ Counted
  /\ Behind
  /\ Probes
  /\ ProbeIsUnderWay
  /\ early \/ slow \/ Fresh

-----------------------------------------------------------------------------
(* Versions and values are numbers.                                        *)

\* The kinds of numbers.
LEMMA Numbers ==
  /\ Cardinality(Task) \in Nat
  /\ \A v : v \in Version <=> v \in Nat /\ v <= Cardinality(Task)
  /\ \A v : v \in Value <=> v = None \/ v \in Version
  /\ None = -1
  /\ \A v \in Value : v \in Int
  /\ \A v \in Version : v \in Int
<1>1. PICK c \in Nat : c = Cardinality(Task)
  BY FS_CardinalityType DEF HotReadsAssumption
<1>2. Version = 0 .. c /\ Value = -1 .. c
  BY <1>1 DEF Version, Value, None
<1>3. \A v : v \in 0 .. c <=> v \in Nat /\ v <= c
  BY <1>1
<1>4. \A v : v \in -1 .. c <=> v = -1 \/ v \in 0 .. c
  BY <1>1
<1>5. (\A v \in Value : v \in Int) /\ (\A v \in Version : v \in Int)
  BY <1>2
<1>6. QED
  BY <1>1, <1>2, <1>3, <1>4, <1>5 DEF None

\* What is not older than something is not older than what that is not older than.
LEMMA NotOlder ==
  ASSUME NEW i \in Int, NEW j \in Int, NEW k \in Int, i >= j, k <= j
  PROVE  i >= k
OBVIOUS

\* What is not ahead of something is not ahead of what comes later.
LEMMA NotAhead ==
  ASSUME NEW i \in Int, NEW j \in Nat, NEW k \in Nat, i <= j, j <= k
  PROVE  i <= k
OBVIOUS

\* The numbers of a state.
LEMMA StateNumbers ==
  ASSUME ReadsTypeOK
  PROVE  /\ db \in Nat /\ settled \in Nat /\ ver \in Nat
         /\ \A v \in Version : v \in Nat /\ cache[v] \in Int
         /\ \A t \in Task : /\ task[t] \in Request
                           /\ task[t].ver \in Nat /\ task[t].since \in Nat
                           /\ task[t].val \in Int /\ task[t].floor \in Int
<1>1. \A v \in Version : v \in Nat
  BY Numbers
<1>2. \A v \in Value : v \in Int
  BY Numbers
<1>3. db \in Nat /\ settled \in Nat /\ ver \in Nat
  BY <1>1 DEF ReadsTypeOK
<1>4. \A v \in Version : cache[v] \in Int
  BY <1>2 DEF ReadsTypeOK
<1>5. ASSUME NEW t \in Task
      PROVE  /\ task[t] \in Request
             /\ task[t].ver \in Nat /\ task[t].since \in Nat
             /\ task[t].val \in Int /\ task[t].floor \in Int
  <2>1. task[t] \in Request
    BY DEF ReadsTypeOK
  <2>2. /\ task[t].ver \in Version /\ task[t].since \in Version
        /\ task[t].val \in Value /\ task[t].floor \in Value
    BY <2>1 DEF Request
  <2>3. QED
    BY <1>1, <1>2, <2>1, <2>2
<1>6. QED
  BY <1>1, <1>3, <1>4, <1>5

-----------------------------------------------------------------------------
(* What a step of one request may do: it becomes n.                        *)

\* The number of requests at some steps, after one of them moved.
LEMMA AtMoves ==
  ASSUME task \in [Task -> Request], NEW t \in Task,
         NEW n \in Request, task' = [task EXCEPT ![t] = n], NEW S
  PROVE  /\ Cardinality(At(S)) \in Nat /\ Cardinality(At(S)') \in Nat
         /\ n.at \in S /\ task[t].at \in S => Cardinality(At(S)') = Cardinality(At(S))
         /\ n.at \notin S /\ task[t].at \in S => Cardinality(At(S)') = Cardinality(At(S)) - 1
         /\ n.at \notin S /\ task[t].at \notin S => Cardinality(At(S)') = Cardinality(At(S))
<1>1. IsFiniteSet(At(S))
  BY FS_Subset DEF HotReadsAssumption, At
<1>2. Cardinality(At(S)) \in Nat
  BY <1>1, FS_CardinalityType
<1>3. \A u \in Task : task'[u] = IF u = t THEN n ELSE task[u]
  OBVIOUS
<1>4. IsFiniteSet(At(S)') /\ Cardinality(At(S)') \in Nat
  <2>1. At(S)' \in SUBSET Task
    BY DEF At
  <2>2. IsFiniteSet(At(S)')
    BY <2>1, FS_Subset DEF HotReadsAssumption
  <2>3. QED
    BY <2>2, FS_CardinalityType
<1>5. CASE n.at \in S /\ task[t].at \in S
  <2>1. At(S)' = At(S)
    BY <1>3, <1>5 DEF At
  <2>2. QED
    BY <1>2, <1>5, <2>1
<1>6. CASE n.at \notin S /\ task[t].at \in S
  <2>1. At(S)' = At(S) \ {t} /\ t \in At(S)
    BY <1>3, <1>6 DEF At
  <2>2. Cardinality(At(S) \ {t}) = Cardinality(At(S)) - 1
    BY <1>1, <2>1, FS_RemoveElement
  <2>3. QED
    BY <1>2, <1>4, <1>6, <2>1, <2>2
<1>7. CASE n.at \notin S /\ task[t].at \notin S
  <2>1. At(S)' = At(S)
    BY <1>3, <1>7 DEF At
  <2>2. QED
    BY <1>2, <1>7, <2>1
<1>8. QED
  BY <1>2, <1>4, <1>5, <1>6, <1>7

\* Requests only leave the steps from which they commit or bump, and whoever
\* commits or bumps leaves them.
LEMMA CountedMoves ==
  ASSUME ReadsInv, NEW t \in Task, NEW n \in Request,
         task' = [task EXCEPT ![t] = n],
         n.at \in Committing => task[t].at \in Committing,
         n.at \in Bumping => task[t].at \in Bumping,
         db' = db \/ (db' = db + 1 /\ task[t].at \in Committing /\ n.at \notin Committing),
         ver' = ver \/ (ver' = ver + 1 /\ task[t].at \in Bumping /\ n.at \notin Bumping)
  PROVE  Counted' /\ db' \in Version /\ ver' \in Version
<1>1. ReadsTypeOK /\ Counted
  BY DEF ReadsInv
<1>2. Cardinality(Task) \in Nat /\ db \in Nat /\ ver \in Nat
  BY <1>1, Numbers, StateNumbers
<1>3. task \in [Task -> Request]
  BY <1>1 DEF ReadsTypeOK
<1>4. /\ Cardinality(At(Committing)) \in Nat /\ Cardinality(At(Committing)') \in Nat
      /\ db' + Cardinality(At(Committing)') <= Cardinality(Task) /\ db' \in Nat
  <2> DEFINE a == Cardinality(At(Committing))
             b == Cardinality(At(Committing)')
             c == Cardinality(Task)
  <2>1. db + a <= c
    BY <1>1 DEF Counted
  <2>2. /\ a \in Nat /\ b \in Nat
        /\ b = a \/ (b = a - 1 /\ task[t].at \in Committing)
        /\ task[t].at \in Committing /\ n.at \notin Committing => b = a - 1
    BY <1>3, AtMoves
  <2> HIDE DEF a, b, c
  <2>3. c \in Nat
    BY <1>2 DEF c
  <2>4. b <= a /\ (db' = db + 1 => b = a - 1)
    BY <1>2, <2>2
  <2>5. db' + b <= c /\ db' \in Nat
    BY <1>2, <2>1, <2>2, <2>3, <2>4
  <2>6. QED
    BY <2>2, <2>5 DEF a, b, c
<1>5. /\ Cardinality(At(Bumping)) \in Nat /\ Cardinality(At(Bumping)') \in Nat
      /\ ver' + Cardinality(At(Bumping)') <= Cardinality(Task) /\ ver' \in Nat
  <2> DEFINE a == Cardinality(At(Bumping))
             b == Cardinality(At(Bumping)')
             c == Cardinality(Task)
  <2>1. ver + a <= c
    BY <1>1 DEF Counted
  <2>2. /\ a \in Nat /\ b \in Nat
        /\ b = a \/ (b = a - 1 /\ task[t].at \in Bumping)
        /\ task[t].at \in Bumping /\ n.at \notin Bumping => b = a - 1
    BY <1>3, AtMoves
  <2> HIDE DEF a, b, c
  <2>3. c \in Nat
    BY <1>2 DEF c
  <2>4. b <= a /\ (ver' = ver + 1 => b = a - 1)
    BY <1>2, <2>2
  <2>5. ver' + b <= c /\ ver' \in Nat
    BY <1>2, <2>1, <2>2, <2>3, <2>4
  <2>6. QED
    BY <2>2, <2>5 DEF a, b, c
<1>6. Counted'
  BY <1>4, <1>5 DEF Counted
<1>7. db' <= Cardinality(Task) /\ ver' <= Cardinality(Task)
  <2>1. \A i, j, k \in Nat : i + j <= k => i <= k
    OBVIOUS
  <2>2. QED
    BY <1>2, <1>4, <1>5, <2>1
<1>8. QED
  BY <1>4, <1>5, <1>6, <1>7, Numbers

\* A breaker's probe is still under way when the request that sent it goes on
\* with it, or when the breaker was told.
LEMMA ProbeMoves ==
  ASSUME ReadsInv, NEW t \in Task, NEW n \in Request,
         task' = [task EXCEPT ![t] = n],
         n.home = task[t].home, n.probing => n.sent,
         leaked \subseteq leaked',
         \A p \in Proc \ leaked' : breaker'[p].probe =>
           \/ p = n.home /\ n.probing
           \/ breaker[p].probe /\ (p = n.home /\ task[t].probing => n.probing)
  PROVE  Probes' /\ ProbeIsUnderWay'
<1>1. /\ task \in [Task -> Request] /\ Probes
      /\ \A p \in Proc \ leaked :
           breaker[p].probe => \E u \in Task : task[u].home = p /\ task[u].probing
  BY DEF ReadsInv, ReadsTypeOK, ProbeIsUnderWay
<1>2. \A u \in Task : task'[u] = IF u = t THEN n ELSE task[u]
  BY <1>1
<1>3. Probes'
  BY <1>1, <1>2 DEF Probes
<1>4. ASSUME NEW p \in Proc \ leaked', breaker'[p].probe
      PROVE  \E u \in Task : task'[u].home = p /\ task'[u].probing
  <2>1. CASE p = n.home /\ n.probing
    BY <1>2, <2>1
  <2>2. CASE breaker[p].probe /\ (p = n.home /\ task[t].probing => n.probing)
    <3>1. PICK u \in Task : task[u].home = p /\ task[u].probing
      BY <1>1, <2>2
    <3>2. CASE u = t
      BY <1>2, <2>2, <3>1, <3>2
    <3>3. CASE u # t
      BY <1>2, <3>1, <3>3
    <3>4. QED
      BY <3>2, <3>3
  <2>3. QED
    BY <1>4, <2>1, <2>2
<1>5. ProbeIsUnderWay'
  BY <1>4 DEF ProbeIsUnderWay
<1>6. QED
  BY <1>3, <1>5

\* While the version is the same, a request that goes on so keeps what is fresh.
LEMMA FreshMoves ==
  ASSUME ReadsInv, Fresh, NEW t \in Task, NEW n \in Request,
         task' = [task EXCEPT ![t] = n],
         UNCHANGED <<settled, ver, cache>>, Careful(t, n)
  PROVE  Fresh'
<1>1. ReadsTypeOK /\ Behind
  BY DEF ReadsInv
<1>2. task \in [Task -> Request] /\ ver \in Version /\ settled \in Version
  BY <1>1 DEF ReadsTypeOK
<1>3. \A u \in Task : task'[u] = IF u = t THEN n ELSE task[u]
  BY <1>2
<1>4. /\ \A u \in Task : Holds(u) /\ Looks(u) /\ Stores(u)
      /\ cache[ver] # None => cache[ver] >= settled
      /\ \A v \in Version : v > ver => cache[v] = None
  BY DEF Fresh
<1>5. /\ \A u \in Task : /\ task[u].ver \in Version /\ task[u].floor \in Int
                           /\ task[u].val \in Int /\ task[u].floor <= settled
      /\ \A v \in Version : cache[v] \in Int
      /\ settled \in Int /\ ver \in Int /\ ver \in Version
  <2>1. ASSUME NEW u \in Task
        PROVE  /\ task[u].ver \in Version /\ task[u].floor \in Int
               /\ task[u].val \in Int /\ task[u].floor <= settled
    <3>1. task[u] \in Request /\ task[u].floor \in Int /\ task[u].val \in Int
      BY <1>1, StateNumbers
    <3>2. task[u].ver \in Version
      BY <3>1 DEF Request
    <3>3. QED
      BY <1>1, <3>1, <3>2 DEF Behind
  <2>2. settled \in Nat /\ ver \in Nat
    BY <1>1, StateNumbers
  <2>3. \A v \in Version : cache[v] \in Int
    BY <1>1, StateNumbers
  <2>4. QED
    BY <1>2, <2>1, <2>2, <2>3
<1>6. n.floor \in Int /\ n.val \in Int /\ n.ver \in Version
  <2>1. n.floor \in Value /\ n.val \in Value /\ n.ver \in Version
    BY DEF Request
  <2>2. \A v \in Value : v \in Int
    BY Numbers
  <2>3. QED
    BY <2>1, <2>2
<1>10. \A u \in Task : Holds(u)'
  BY <1>3, <1>4 DEF Holds, Careful
<1>11. \A u \in Task : Stores(u)'
  <2>1. ASSUME NEW u \in Task PROVE Stores(u)'
    <3>1. CASE u # t
      BY <1>3, <1>4, <3>1 DEF Stores, Storing
    <3>2. CASE u = t
      <4>1. /\ task[t].at \in {"again", "store"} /\ task[t].since = ver
                 => task[t].val >= settled
        BY <1>4 DEF Stores, Storing
      <4>2. task'[u] = n
        BY <1>3, <3>2
      <4>3. n.at = "store" => n.ver = n.since
        BY DEF Careful
      <4>4. n.at \in {"again", "store"} => n.val # None
        BY DEF Careful
      <4>5. n.at \in {"again", "store"} /\ n.since = ver => n.val >= settled
        BY <4>1 DEF Storing, Careful
      <4>6. QED
        BY <4>2, <4>3, <4>4, <4>5 DEF Stores, Storing
    <3>3. QED
      BY <3>1, <3>2
  <2>2. QED
    BY <2>1
\* A value about to be stored under v is, if v is the version at hand, not older than
\* what is settled, and otherwise one that was to be stored before.
<1>12. ASSUME NEW u \in Task, Storing(u)' 
       PROVE  \/ task'[u].since = ver /\ task'[u].val >= settled
              \/ Storing(u) /\ task'[u].since = task[u].since /\ task'[u].val = task[u].val
  <2>1. CASE u = t
    BY <1>3, <1>12, <2>1 DEF Storing, Careful
  <2>2. CASE u # t
    BY <1>3, <1>12, <2>2 DEF Storing
  <2>3. QED
    BY <2>1, <2>2
<1>13. ASSUME NEW u \in Task, task'[u].at = "entry"
       PROVE  \/ task'[u].ver = ver
              \/ /\ task[u].at = "entry" /\ task'[u].ver = task[u].ver
                 /\ task'[u].floor = task[u].floor
  BY <1>3, <1>13 DEF Careful
<1>14. \A u \in Task : task'[u].floor <= settled /\ task'[u].floor \in Int /\ task'[u].val \in Int
  BY <1>3, <1>5, <1>6 DEF Careful
<1>15. ASSUME NEW u \in Task, task'[u].at = "entry"
       PROVE  /\ cache[task'[u].ver] # None => cache[task'[u].ver] >= task'[u].floor
              /\ \A w \in Task : Storing(w)' /\ task'[w].since = task'[u].ver
                                   => task'[w].val >= task'[u].floor
  <2>1. CASE task'[u].ver = ver
    <3>1. cache[ver] \in Int
      BY <1>5
    <3>2. cache[ver] # None => cache[ver] >= task'[u].floor
      BY <1>4, <1>5, NotOlder, <1>14, <3>1
    <3>3. ASSUME NEW w \in Task, Storing(w)', task'[w].since = ver
          PROVE  task'[w].val >= settled
      <4>1. CASE Storing(w) /\ task'[w].since = task[w].since /\ task'[w].val = task[w].val
        BY <1>4, <3>3, <4>1 DEF Stores
      <4>2. QED
        BY <1>12, <3>3, <4>1
    <3>4. \A w \in Task : Storing(w)' /\ task'[w].since = ver
                            => task'[w].val >= task'[u].floor
      BY <1>5, NotOlder, <1>14, <3>3
    <3>5. QED
      BY <2>1, <3>2, <3>4
  <2>2. CASE /\ task[u].at = "entry" /\ task'[u].ver = task[u].ver
             /\ task'[u].floor = task[u].floor
    <3>1. /\ cache[task[u].ver] # None => cache[task[u].ver] >= task[u].floor
          /\ \A w \in Task : Storing(w) /\ task[w].since = task[u].ver
                               => task[w].val >= task[u].floor
      BY <1>4, <2>2 DEF Looks
    <3>2. ASSUME NEW w \in Task, Storing(w)', task'[w].since = task'[u].ver
          PROVE  task'[w].val >= task'[u].floor
      <4>1. CASE task'[w].since = ver /\ task'[w].val >= settled
        BY <1>5, NotOlder, <1>14, <4>1
      <4>2. CASE Storing(w) /\ task'[w].since = task[w].since /\ task'[w].val = task[w].val
        BY <2>2, <3>1, <3>2, <4>2
      <4>3. QED
        BY <1>12, <3>2, <4>1, <4>2
    <3>3. QED
      BY <2>2, <3>1, <3>2
  <2>3. QED
    BY <1>13, <1>15, <2>1, <2>2
<1>16. \A u \in Task : Looks(u)'
  BY <1>15 DEF Looks
<1>17. QED
  BY <1>4, <1>10, <1>11, <1>16 DEF Fresh


\* What a request keeps, and how far it may go, whatever it does.
Onward(t, n) ==
  /\ n.home = task[t].home /\ (n.probing => n.sent) /\ n.at # "ready"
  /\ n.at \in Committing => task[t].at \in Committing
  /\ n.at \in Bumping => task[t].at \in Bumping
  /\ n.ver <= ver /\ n.since <= ver /\ n.floor <= settled
  /\ n.at = "commit last" /\ n.client => early'

\* Breakers are what they should be.
Breaker    == [fails : 0 .. Threshold, state : {"closed", "open", "half-open"}, probe : BOOLEAN]
BreakersOK ==
  /\ breaker \in [Proc -> Breaker]
  /\ \A p \in Proc : breaker[p].probe => breaker[p].state = "half-open"

\* The probes under way, after t went on.
ProbesGoOn(t, n) ==
  \A p \in Proc \ leaked' : breaker'[p].probe =>
    \/ p = n.home /\ n.probing
    \/ breaker[p].probe /\ (p = n.home /\ task[t].probing => n.probing)

\* What does not concern versions: Redis, breakers, faults.
Elsewise ==
  /\ BreakersOK' /\ up' \in BOOLEAN /\ faults' \in 0 .. MaxFaults
  /\ leaked \subseteq leaked' /\ leaked' \subseteq Proc
  /\ early' \in BOOLEAN /\ slow' \in BOOLEAN /\ (early => early') /\ (slow => slow')

\* The type invariant, in the words of this module.
LEMMA TypeParts ==
  ASSUME ReadsInv
  PROVE  /\ BreakersOK /\ task \in [Task -> Request] /\ cache \in [Version -> Value]
         /\ db \in Version /\ settled \in Version /\ ver \in Version
         /\ up \in BOOLEAN /\ early \in BOOLEAN /\ slow \in BOOLEAN
         /\ leaked \subseteq Proc /\ faults \in 0 .. MaxFaults
BY DEF ReadsInv, ReadsTypeOK, BreakersOK, Breaker

\* The type invariant from its parts.
LEMMA TypeWhole ==
  ASSUME Elsewise, task' \in [Task -> Request],
         cache' \in [Version -> Value],
         db' \in Version, settled' \in Version, ver' \in Version
  PROVE  ReadsTypeOK'
BY DEF ReadsTypeOK, Elsewise, BreakersOK, Breaker

\* Nothing is ahead of the version or the data, after a step of t.
LEMMA BehindMoves ==
  ASSUME ReadsInv, NEW t \in Task, NEW n \in Request,
         task' = [task EXCEPT ![t] = n], Onward(t, n),
         ver' \in Nat, ver <= ver', settled' \in Nat, settled <= settled',
         db' \in Nat, settled' <= db', early => early'
  PROVE  Behind'
<1>1. ReadsTypeOK /\ Behind
  BY DEF ReadsInv
<1>2. \A u \in Task : task'[u] = IF u = t THEN n ELSE task[u]
  BY <1>1 DEF ReadsTypeOK
<1>3. ver \in Nat /\ settled \in Nat
  BY <1>1, StateNumbers
<1>4. \A r \in Request : r.ver \in Int /\ r.since \in Int /\ r.floor \in Int
  <2>1. \A r \in Request : r.ver \in Version /\ r.since \in Version /\ r.floor \in Value
    BY DEF Request
  <2>2. QED
    BY <2>1, Numbers
<1>5. \A u \in Task : task[u] \in Request
  BY <1>1, StateNumbers
<1>6. ASSUME NEW u \in Task
      PROVE  /\ task'[u].ver <= ver' /\ task'[u].since <= ver' /\ task'[u].floor <= settled'
             /\ task'[u].at = "ready" => task'[u].val = None
             /\ task'[u].at = "commit last" /\ task'[u].client => early'
  <2>1. CASE u = t
    <3>1. /\ n.ver <= ver /\ n.since <= ver /\ n.floor <= settled /\ n.at # "ready"
          /\ n.at = "commit last" /\ n.client => early'
          /\ task'[u] = n
      BY <1>2, <2>1 DEF Onward
    <3>2. n.ver <= ver' /\ n.since <= ver' /\ n.floor <= settled'
      BY <1>3, <1>4, <3>1, NotAhead
    <3>3. QED
      BY <3>1, <3>2
  <2>2. CASE u # t
    <3>1. /\ task[u].ver <= ver /\ task[u].since <= ver /\ task[u].floor <= settled
          /\ task[u].at = "ready" => task[u].val = None
          /\ task[u].at = "commit last" /\ task[u].client => early
          /\ task'[u] = task[u]
      BY <1>1, <1>2, <2>2 DEF Behind
    <3>2. task[u].ver <= ver' /\ task[u].since <= ver' /\ task[u].floor <= settled'
      BY <1>3, <1>4, <1>5, <3>1, NotAhead
    <3>3. QED
      BY <3>1, <3>2
  <2>3. QED
    BY <2>1, <2>2
<1>7. QED
  BY <1>6 DEF Behind

\* A step of one request under one version: the database may have one commit
\* more, which settles it only if its version was bumped before.
LEMMA TaskStep ==
  ASSUME ReadsInv, NEW t \in Task, NEW n \in Request,
         task' = [task EXCEPT ![t] = n], Onward(t, n),
         ProbesGoOn(t, n), Elsewise, UNCHANGED <<ver, cache>>,
         db' = db \/ (db' = db + 1 /\ task[t].at \in Committing /\ n.at \notin Committing),
         settled' = settled \/ (settled' = db' /\ early),
         ~early /\ ~slow' => Careful(t, n)
  PROVE  ReadsInv'
<1>1. /\ task \in [Task -> Request] /\ cache \in [Version -> Value]
      /\ db \in Version /\ settled \in Version /\ ver \in Version
  BY TypeParts
<1>2. Counted' /\ db' \in Version /\ ver' \in Version
  BY CountedMoves DEF Onward
<1>3. Probes' /\ ProbeIsUnderWay'
  <2>1. n.home = task[t].home /\ (n.probing => n.sent)
    BY DEF Onward
  <2>2. leaked \subseteq leaked'
    BY DEF Elsewise
  <2>3. \A p \in Proc \ leaked' : breaker'[p].probe =>
          \/ p = n.home /\ n.probing
          \/ breaker[p].probe /\ (p = n.home /\ task[t].probing => n.probing)
    BY DEF ProbesGoOn
  <2>4. QED
    BY <2>1, <2>2, <2>3, ProbeMoves
<1>4. db \in Nat /\ db' \in Nat /\ settled \in Nat /\ ver \in Nat
  BY <1>1, <1>2, Numbers
<1>5. settled <= db
  BY DEF ReadsInv, Behind
<1>6. settled' \in Version /\ settled <= settled' /\ settled' <= db' /\ settled' \in Nat
  BY <1>1, <1>2, <1>4, <1>5
<1>7. ReadsTypeOK'
  BY <1>1, <1>2, <1>6, TypeWhole
<1>8. Behind'
  <2>1. ver' \in Nat /\ ver <= ver'
    BY <1>4
  <2>2. early => early'
    BY DEF Elsewise
  <2>3. QED
    BY <1>4, <1>6, <2>1, <2>2, BehindMoves
<1>9. early' \/ slow' \/ Fresh'
  <2>1. SUFFICES ASSUME ~early', ~slow' PROVE Fresh'
    OBVIOUS
  <2>2. ~early /\ ~slow
    BY <2>1 DEF Elsewise
  <2>3. Fresh
    BY <2>2 DEF ReadsInv
  <2>4. Careful(t, n) /\ settled' = settled
    BY <2>1, <2>2
  <2>5. QED
    BY <2>3, <2>4, FreshMoves
<1>10. QED
  BY <1>2, <1>3, <1>7, <1>8, <1>9 DEF ReadsInv


-----------------------------------------------------------------------------
(* Breakers.                                                               *)

\* What a breaker becomes when it hears of an answer or a failure.
LEMMA BreakerFacts ==
  ASSUME NEW b \in Breaker
  PROVE  /\ Succeeded(b) \in Breaker /\ ~Succeeded(b).probe
         /\ Failed(b) \in Breaker /\ ~Failed(b).probe
<1>1. Threshold \in Nat \ {0}
  BY DEF HotReadsAssumption
<1>2. Succeeded(b) \in Breaker /\ ~Succeeded(b).probe
  BY <1>1 DEF Succeeded, Closed, Breaker
<1>3. Failed(b) \in Breaker /\ ~Failed(b).probe
  BY <1>1 DEF Failed, Breaker
<1>4. QED
  BY <1>2, <1>3

\* A breaker that was told has no probe, and the others have those they had.
LEMMA Told ==
  ASSUME ReadsInv, NEW t \in Task, NEW n, n.home = task[t].home,
         leaked \subseteq leaked', NEW b \in Breaker, ~b.probe,
         breaker' = [breaker EXCEPT ![task[t].home] = b]
  PROVE  BreakersOK' /\ ProbesGoOn(t, n)
<1>1. BreakersOK /\ task \in [Task -> Request]
  BY TypeParts
<1>2. task[t].home \in Proc
  BY <1>1 DEF Request
<1>3. \A p \in Proc : breaker'[p] = IF p = task[t].home THEN b ELSE breaker[p]
  BY <1>1 DEF BreakersOK
<1>4. breaker' \in [Proc -> Breaker]
  BY <1>1, <1>2 DEF BreakersOK
<1>5. BreakersOK'
  BY <1>1, <1>3, <1>4 DEF BreakersOK
<1>6. ProbesGoOn(t, n)
  BY <1>3 DEF ProbesGoOn
<1>7. QED
  BY <1>5, <1>6

\* A breaker that was not told has the probe it had.
LEMMA Untold ==
  ASSUME ReadsInv, NEW t \in Task, NEW n, n.probing = task[t].probing,
         UNCHANGED <<breaker, leaked>>
  PROVE  BreakersOK' /\ ProbesGoOn(t, n)
<1>1. BreakersOK
  BY TypeParts
<1>2. QED
  BY <1>1 DEF BreakersOK, ProbesGoOn

\* The fields of a request that begins no command and keeps its home.
LEMMA OnFacts ==
  ASSUME NEW r \in Request, NEW step \in Step
  PROVE  /\ On(r, step) \in Request
         /\ On(r, step).at = step /\ On(r, step).home = r.home
         /\ On(r, step).sent = FALSE /\ On(r, step).probing = FALSE
         /\ On(r, step).client = r.client /\ On(r, step).ver = r.ver
         /\ On(r, step).val = r.val /\ On(r, step).since = r.since
         /\ On(r, step).floor = r.floor
BY DEF On, Request

\* What a request knows, as numbers that can be compared.
LEMMA Knows ==
  ASSUME ReadsInv, NEW t \in Task
  PROVE  /\ task[t] \in Request /\ task[t].home \in Proc
         /\ task[t].ver <= ver /\ task[t].since <= ver /\ task[t].floor <= settled
         /\ task[t].at = "ready" => task[t].val = None
         /\ task[t].at = "commit last" /\ task[t].client => early
         /\ task[t].probing => task[t].sent
         /\ settled <= db /\ settled \in Nat /\ db \in Nat /\ ver \in Nat
         /\ settled <= settled /\ ver <= ver
         /\ task[t].floor \in Int /\ task[t].val \in Int
<1>1. ReadsTypeOK /\ Behind /\ Probes
  BY DEF ReadsInv
<1>2. /\ task[t] \in Request /\ settled \in Nat /\ db \in Nat /\ ver \in Nat
      /\ task[t].floor \in Int /\ task[t].val \in Int
  BY <1>1, StateNumbers
<1>3. task[t].home \in Proc
  BY <1>2 DEF Request
<1>4. settled <= settled /\ ver <= ver
  BY <1>2
<1>5. QED
  BY <1>1, <1>2, <1>3, <1>4 DEF Behind, Probes

\* What the invariant says of a request while no version was bumped too early
\* or overtaken.
LEMMA FreshFacts ==
  ASSUME ReadsInv, ~early, ~slow, NEW t \in Task
  PROVE  /\ task[t].val # None => task[t].val >= task[t].floor
         /\ task[t].at = "entry" => (cache[task[t].ver] # None
                                       => cache[task[t].ver] >= task[t].floor)
         /\ task[t].at = "store" => task[t].ver = task[t].since
         /\ task[t].at \in {"again", "store"} => task[t].val # None
BY DEF ReadsInv, Fresh, Holds, Looks, Stores, Storing

-----------------------------------------------------------------------------
(* The steps of a request.                                                 *)

\* A request begins with what is settled.
LEMMA BeginKeeps ==
  ASSUME ReadsInv, NEW t \in Task,
         NEW step \in {"version", "commit", "bump first"}, Serve(t, step)
  PROVE  ReadsInv'
<1> DEFINE some == HasClient(Of(t))
           at   == IF step = "version" /\ ~some THEN "fetch" ELSE step
           n    == [task[t] EXCEPT !.at = at, !.client = some, !.floor = settled]
<1>1. /\ task[t].at = "ready" /\ task' = [task EXCEPT ![t] = n]
      /\ UNCHANGED <<db, settled, ver, cache, up, breaker, early, slow, leaked, faults>>
  BY DEF Serve, redisVars, ghosts
<1>2. /\ task[t] \in Request /\ task[t].val = None /\ settled \in Nat /\ settled \in Version
      /\ task[t].ver <= ver /\ task[t].since <= ver
  BY <1>1, Knows, TypeParts
<1>3. at \in {"version", "fetch", "commit", "bump first"} /\ some \in BOOLEAN
  BY DEF HasClient
<1>4. settled \in Value
  BY <1>2, Numbers
<1> HIDE DEF at, some
<1>5. /\ n \in Request /\ n.at = at /\ n.client = some /\ n.floor = settled
      /\ n.val = task[t].val /\ n.ver = task[t].ver /\ n.since = task[t].since
      /\ n.sent = task[t].sent /\ n.probing = task[t].probing /\ n.home = task[t].home
  BY <1>2, <1>3, <1>4 DEF Request, Step, Command
<1> HIDE DEF n
<1>6. Onward(t, n)
  <2>1. settled <= settled
    BY Knows
  <2>2. task[t].probing => task[t].sent
    BY Knows
  <2>3. task[t].ver <= ver /\ task[t].since <= ver
    BY Knows
  <2>4. QED
    BY <1>1, <1>3, <1>5, <2>1, <2>2, <2>3 DEF Onward, Committing, Bumping
<1>7. BreakersOK' /\ ProbesGoOn(t, n)
  BY <1>1, <1>5, Untold
<1>8. Elsewise
  BY <1>1, <1>7, TypeParts DEF Elsewise
<1>9. Careful(t, n)
  <2>1. n.val = None /\ n.at \notin {"entry", "again", "store"}
    BY <1>1, <1>3, <1>5, Knows
  <2>2. QED
    BY <1>6, <2>1 DEF Careful, Onward
<1>10. QED
  BY <1>1, <1>5, <1>6, <1>7, <1>8, <1>9, TaskStep

\* A read of the database is not older than what is settled.
LEMMA FetchKeeps ==
  ASSUME ReadsInv, NEW t \in Task, Fetch(t)
  PROVE  ReadsInv'
<1> DEFINE r  == task[t]
           at == IF r.client THEN "again" ELSE "done"
           n  == [r EXCEPT !.val = db, !.since = ver, !.at = at]
<1>1. /\ r.at = "fetch" /\ task' = [task EXCEPT ![t] = n]
      /\ UNCHANGED <<db, settled, ver, cache, up, breaker, early, slow, leaked, faults>>
  BY DEF Fetch, redisVars, ghosts
<1>2. /\ r \in Request /\ r.ver <= ver /\ r.floor <= settled /\ r.floor \in Int
      /\ settled <= db /\ settled \in Nat /\ db \in Nat /\ ver \in Nat
      /\ r.probing => r.sent
  BY Knows
<1>3. db \in Value /\ ver \in Version /\ db # None
  BY <1>2, TypeParts, Numbers
<1>4. at \in {"again", "done"}
  OBVIOUS
<1> HIDE DEF at
<1>5. /\ n \in Request /\ n.at = at /\ n.client = r.client /\ n.floor = r.floor
      /\ n.val = db /\ n.ver = r.ver /\ n.since = ver
      /\ n.sent = r.sent /\ n.probing = r.probing /\ n.home = r.home
  BY <1>2, <1>3, <1>4 DEF Request, Step, Command
<1> HIDE DEF n
<1>6. Onward(t, n)
  <2>1. ver <= ver
    BY <1>2
  <2>2. QED
    BY <1>2, <1>4, <1>5, <2>1 DEF Onward, Committing, Bumping
<1>7. BreakersOK' /\ ProbesGoOn(t, n)
  BY <1>1, <1>5, Untold
<1>8. Elsewise
  BY <1>1, <1>7, TypeParts DEF Elsewise
<1>9. Careful(t, n)
  <2>1. db >= settled /\ db >= r.floor
    BY <1>2
  <2>2. n.val >= n.floor /\ n.val >= settled /\ n.val # None /\ n.floor <= settled
    BY <1>2, <1>3, <1>5, <2>1
  <2>3. n.at \notin {"entry", "store", "commit last"} /\ n.since = ver
    BY <1>4, <1>5
  <2>4. QED
    BY <2>2, <2>3 DEF Careful
<1>10. QED
  BY <1>1, <1>5, <1>6, <1>7, <1>8, <1>9, TaskStep

\* A commit before its bump: what is settled does not change.
LEMMA CommitFirstKeeps ==
  ASSUME ReadsInv, NEW t \in Task, CommitFirst(t)
  PROVE  ReadsInv'
<1> DEFINE r  == task[t]
           at == IF HasClient(Of(t)) THEN "bump" ELSE "done"
           n  == [r EXCEPT !.at = at]
<1>1. /\ r.at = "commit" /\ db' = db + 1 /\ task' = [task EXCEPT ![t] = n]
      /\ UNCHANGED <<settled, ver, cache, up, breaker, early, slow, leaked, faults>>
  BY DEF CommitFirst, redisVars, ghosts
<1>2. /\ r \in Request /\ r.ver <= ver /\ r.since <= ver /\ r.floor <= settled
      /\ r.probing => r.sent
  BY Knows
<1>3. at \in {"bump", "done"}
  OBVIOUS
<1> HIDE DEF at
<1>4. /\ n \in Request /\ n.at = at /\ n.client = r.client /\ n.floor = r.floor
      /\ n.val = r.val /\ n.ver = r.ver /\ n.since = r.since
      /\ n.sent = r.sent /\ n.probing = r.probing /\ n.home = r.home
  BY <1>2, <1>3 DEF Request, Step, Command
<1> HIDE DEF n
<1>5. Onward(t, n)
  BY <1>1, <1>2, <1>3, <1>4 DEF Onward, Committing, Bumping
<1>6. BreakersOK' /\ ProbesGoOn(t, n)
  BY <1>1, <1>4, Untold
<1>7. Elsewise
  BY <1>1, <1>6, TypeParts DEF Elsewise
<1>8. ASSUME ~early, ~slow PROVE Careful(t, n)
  <2>1. n.val # None => n.val >= n.floor
    BY <1>4, <1>8, FreshFacts
  <2>2. n.at \notin {"entry", "again", "store"}
    BY <1>3, <1>4
  <2>3. QED
    BY <1>2, <1>4, <2>1, <2>2 DEF Careful
<1>9. task[t].at \in Committing /\ n.at \notin Committing
  BY <1>1, <1>3, <1>4 DEF Committing
<1>10. QED
  BY <1>1, <1>4, <1>5, <1>6, <1>7, <1>8, <1>9, TaskStep

\* A commit after its bump settles the data, when the version was bumped.
LEMMA CommitLastKeeps ==
  ASSUME ReadsInv, NEW t \in Task, CommitLast(t)
  PROVE  ReadsInv'
<1> DEFINE r == task[t]
           n == [r EXCEPT !.at = "done"]
<1>1. /\ r.at = "commit last" /\ db' = db + 1 /\ task' = [task EXCEPT ![t] = n]
      /\ settled' = IF r.client THEN db' ELSE settled
      /\ UNCHANGED <<ver, cache, up, breaker, early, slow, leaked, faults>>
  BY DEF CommitLast, redisVars, ghosts
<1>2. /\ r \in Request /\ r.ver <= ver /\ r.since <= ver /\ r.floor <= settled
      /\ r.probing => r.sent
  BY Knows
<1>3. /\ n \in Request /\ n.at = "done" /\ n.client = r.client /\ n.floor = r.floor
      /\ n.val = r.val /\ n.ver = r.ver /\ n.since = r.since
      /\ n.sent = r.sent /\ n.probing = r.probing /\ n.home = r.home
  BY <1>2 DEF Request, Step, Command
<1> HIDE DEF n
<1>4. Onward(t, n)
  BY <1>1, <1>2, <1>3 DEF Onward, Committing, Bumping
<1>5. BreakersOK' /\ ProbesGoOn(t, n)
  BY <1>1, <1>3, Untold
<1>6. Elsewise
  BY <1>1, <1>5, TypeParts DEF Elsewise
<1>7. ASSUME ~early, ~slow PROVE Careful(t, n)
  <2>1. n.val # None => n.val >= n.floor
    BY <1>3, <1>7, FreshFacts
  <2>2. QED
    BY <1>2, <1>3, <2>1 DEF Careful
<1>8. task[t].at \in Committing /\ n.at \notin Committing
  BY <1>1, <1>3 DEF Committing
<1>9. settled' = settled \/ (settled' = db' /\ early)
  <2>1. r.client => early
    BY <1>1, Knows
  <2>2. QED
    BY <1>1, <2>1
<1>10. QED
  BY <1>1, <1>3, <1>4, <1>5, <1>6, <1>7, <1>8, <1>9, TaskStep


\* A command passes the breaker: from now on it may be its probe.
LEMMA SendKeeps ==
  ASSUME ReadsInv, NEW t \in Task, Send(t)
  PROVE  ReadsInv'
<1> DEFINE r    == task[t]
           half == Of(t).state = "half-open"
           n    == [r EXCEPT !.sent = TRUE, !.probing = half]
<1>1. /\ r.at \in Command /\ ~r.sent /\ Allows(Of(t)) /\ task' = [task EXCEPT ![t] = n]
      /\ breaker' = [breaker EXCEPT ![r.home].probe = @ \/ half]
      /\ UNCHANGED <<db, settled, ver, cache, up, early, slow, leaked, faults>>
  BY DEF Send, redisVars, ghosts
<1>2. /\ r \in Request /\ r.home \in Proc
      /\ r.ver <= ver /\ r.since <= ver /\ r.floor <= settled
  BY Knows
<1>3. half \in BOOLEAN
  OBVIOUS
<1>4. Of(t) = breaker[r.home]
  BY DEF Of
<1> HIDE DEF half
<1>5. /\ n \in Request /\ n.at = r.at /\ n.client = r.client /\ n.floor = r.floor
      /\ n.val = r.val /\ n.ver = r.ver /\ n.since = r.since
      /\ n.sent = TRUE /\ n.probing = half /\ n.home = r.home
  BY <1>2, <1>3 DEF Request
<1> HIDE DEF n
<1>6. Onward(t, n)
  <2>1. r.at # "ready" /\ r.at # "commit last"
    BY <1>1 DEF Command
  <2>2. QED
    BY <1>2, <1>5, <2>1 DEF Onward
<1>7. BreakersOK' /\ ProbesGoOn(t, n)
  <2> DEFINE b == breaker[r.home]
             c == [b EXCEPT !.probe = b.probe \/ half]
  <2>1. BreakersOK /\ b \in Breaker /\ (b.probe => b.state = "half-open")
    BY <1>2, TypeParts DEF BreakersOK
  <2>2. half = (b.state = "half-open")
    BY <1>4 DEF half
  <2>3. b.state = "closed" \/ (b.state = "half-open" /\ ~b.probe)
    BY <1>1, <1>4 DEF Allows
  <2>4. c \in Breaker /\ c.state = b.state /\ (c.probe <=> half)
    BY <2>1, <2>2, <2>3 DEF Breaker
  <2>5. breaker' = [breaker EXCEPT ![r.home] = c]
    BY <1>1, <1>2, <2>1 DEF BreakersOK
  <2> HIDE DEF b, c
  <2>6. \A p \in Proc : breaker'[p] = IF p = r.home THEN c ELSE breaker[p]
    BY <2>1, <2>5 DEF BreakersOK
  <2>7. BreakersOK'
    <3>1. breaker' \in [Proc -> Breaker]
      BY <1>2, <2>1, <2>4, <2>5 DEF BreakersOK
    <3>2. c.probe => c.state = "half-open"
      BY <2>2, <2>4
    <3>3. \A p \in Proc : breaker[p].probe => breaker[p].state = "half-open"
      BY <2>1 DEF BreakersOK
    <3>4. \A p \in Proc : breaker'[p].probe => breaker'[p].state = "half-open"
      BY <2>6, <3>2, <3>3
    <3>5. QED
      BY <3>1, <3>4 DEF BreakersOK
  <2>8. ProbesGoOn(t, n)
    BY <1>5, <2>4, <2>6 DEF ProbesGoOn
  <2>9. QED
    BY <2>7, <2>8
<1>8. Elsewise
  BY <1>1, <1>7, TypeParts DEF Elsewise
<1>9. ASSUME ~early, ~slow PROVE Careful(t, n)
  <2>1. /\ r.val # None => r.val >= r.floor
        /\ r.at = "store" => r.ver = r.since
        /\ r.at \in {"again", "store"} => r.val # None
    BY <1>9, FreshFacts
  <2>2. QED
    BY <1>2, <1>5, <2>1 DEF Careful, Storing
<1>10. QED
  BY <1>1, <1>5, <1>6, <1>7, <1>8, <1>9, TaskStep

\* A command that failed or was refused leads to the database, or past the cache.
LEMMA WithoutFacts ==
  ASSUME ReadsInv, NEW t \in Task
  PROVE  LET r == task[t]
             n == Without(r)
         IN  /\ n \in Request /\ n.home = r.home /\ n.sent = FALSE /\ n.probing = FALSE
             /\ Onward(t, n)
             /\ ~early /\ ~slow => Careful(t, n)
<1> DEFINE r == task[t]
           n == Without(r)
<1>1. /\ r \in Request /\ r.ver <= ver /\ r.since <= ver /\ r.floor <= settled
  BY Knows
<1>3. /\ n \in Request /\ n.home = r.home /\ n.sent = FALSE /\ n.probing = FALSE
      /\ n.val = r.val /\ n.ver = r.ver /\ n.since = r.since /\ n.floor = r.floor
      /\ n.at \in {"fetch", "commit last", "done"}
      /\ n.at = "commit last" => r.at = "bump first" /\ ~n.client
  <2>1. CASE r.at \in {"version", "entry"}
    <3>1. n = On(r, "fetch") /\ "fetch" \in Step
      BY <2>1 DEF Without, Step
    <3> HIDE DEF n, r
    <3>2. QED
      BY <1>1, <3>1, OnFacts
  <2>2. CASE r.at = "bump first"
    <3>1. n = [On(r, "commit last") EXCEPT !.client = FALSE] /\ "commit last" \in Step
      BY <2>2 DEF Without, Step
    <3> DEFINE o == On(r, "commit last")
    <3> HIDE DEF n, r
    <3>2. /\ o \in Request /\ o.at = "commit last" /\ o.home = r.home
          /\ o.sent = FALSE /\ o.probing = FALSE /\ o.ver = r.ver /\ o.val = r.val
          /\ o.since = r.since /\ o.floor = r.floor
      BY <1>1, <3>1, OnFacts
    <3> HIDE DEF o
    <3>3. n = [o EXCEPT !.client = FALSE]
      BY <3>1 DEF o
    <3>4. QED
      BY <2>2, <3>2, <3>3 DEF Request
  <2>3. CASE r.at \notin {"version", "entry", "bump first"}
    <3>1. n = On(r, "done") /\ "done" \in Step
      BY <2>3 DEF Without, Step
    <3> HIDE DEF n, r
    <3>2. QED
      BY <1>1, <3>1, OnFacts
  <2>4. QED
    BY <2>1, <2>2, <2>3
<1> HIDE DEF n, r
<1>4. Onward(t, n)
  BY <1>1, <1>3 DEF Onward, Committing, Bumping, r
<1>5. ASSUME ~early, ~slow PROVE Careful(t, n)
  <2>1. r.val # None => r.val >= r.floor
    BY <1>5, FreshFacts DEF r
  <2>2. n.at \notin {"entry", "again", "store"}
    BY <1>3
  <2>3. QED
    BY <1>1, <1>3, <2>1, <2>2 DEF Careful
<1>6. QED
  BY <1>3, <1>4, <1>5 DEF n, r

\* A command that was not sent is no probe, and the breaker hears nothing.
LEMMA RefuseKeeps ==
  ASSUME ReadsInv, NEW t \in Task, Refuse(t)
  PROVE  ReadsInv'
<1> DEFINE n == Without(task[t])
<1>1. /\ task[t].at \in Command /\ ~task[t].sent /\ task' = [task EXCEPT ![t] = n]
      /\ UNCHANGED <<db, settled, ver, cache, up, breaker, early, slow, leaked, faults>>
  BY DEF Refuse, redisVars, ghosts
<1>2. /\ n \in Request /\ n.home = task[t].home /\ n.probing = FALSE /\ Onward(t, n)
      /\ (~early /\ ~slow => Careful(t, n))
  BY <1>1, WithoutFacts
<1>3. task[t].probing = FALSE
  <2>1. task[t] \in Request /\ (task[t].probing => task[t].sent)
    BY Knows
  <2>2. QED
    BY <1>1, <2>1 DEF Request
<1> HIDE DEF n
<1>4. BreakersOK' /\ ProbesGoOn(t, n)
  BY <1>1, <1>2, <1>3, Untold
<1>5. Elsewise
  BY <1>1, <1>4, TypeParts DEF Elsewise
<1>6. QED
  BY <1>1, <1>2, <1>4, <1>5, TaskStep

\* A command that is not answered: the breaker is told.
LEMMA ErrorKeeps ==
  ASSUME ReadsInv, NEW t \in Task, Error(t)
  PROVE  ReadsInv'
<1> DEFINE n == Without(task[t])
           b == Failed(breaker[task[t].home])
<1>1. /\ task' = [task EXCEPT ![t] = n]
      /\ breaker' = [breaker EXCEPT ![task[t].home] = b]
      /\ UNCHANGED <<db, settled, ver, cache, up, early, slow, leaked, faults>>
  BY DEF Error, redisVars, ghosts
<1>2. /\ n \in Request /\ n.home = task[t].home /\ n.probing = FALSE /\ Onward(t, n)
      /\ (~early /\ ~slow => Careful(t, n))
  BY WithoutFacts
<1>3. b \in Breaker /\ ~b.probe
  <2>1. breaker[task[t].home] \in Breaker
    BY Knows, TypeParts DEF BreakersOK
  <2>2. QED
    BY <2>1, BreakerFacts
<1> HIDE DEF n, b
<1>4. BreakersOK' /\ ProbesGoOn(t, n)
  <2>1. leaked \subseteq leaked'
    BY <1>1
  <2>2. QED
    BY <1>1, <1>2, <1>3, <2>1, Told
<1>5. Elsewise
  BY <1>1, <1>4, TypeParts DEF Elsewise
<1>6. QED
  BY <1>1, <1>2, <1>4, <1>5, TaskStep

\* What an answer changes besides what its step does.
LEMMA AnswerFacts ==
  ASSUME ReadsInv, NEW t \in Task, NEW step, Answered(t, step),
         NEW n, n.home = task[t].home,
         early' \in BOOLEAN, slow' \in BOOLEAN, early => early', slow => slow'
  PROVE  /\ Elsewise /\ ProbesGoOn(t, n)
         /\ task[t].at = step /\ db' = db
<1> DEFINE b == Succeeded(breaker[task[t].home])
<1>1. /\ task[t].at = step /\ breaker' = [breaker EXCEPT ![task[t].home] = b]
      /\ UNCHANGED <<db, up, leaked, faults>>
  BY DEF Answered
<1>2. b \in Breaker /\ ~b.probe
  <2>1. breaker[task[t].home] \in Breaker
    BY Knows, TypeParts DEF BreakersOK
  <2>2. QED
    BY <2>1, BreakerFacts
<1> HIDE DEF b
<1>3. BreakersOK' /\ ProbesGoOn(t, n)
  <2>1. leaked \subseteq leaked'
    BY <1>1
  <2>2. QED
    BY <1>1, <1>2, <2>1, Told
<1>4. Elsewise
  BY <1>1, <1>3, TypeParts DEF Elsewise
<1>5. QED
  BY <1>1, <1>3, <1>4

\* The version a read takes first is the one it looks under.
LEMMA GetVersionKeeps ==
  ASSUME ReadsInv, NEW t \in Task, GetVersion(t)
  PROVE  ReadsInv'
<1> DEFINE r == task[t]
           o == On(r, "entry")
           n == [o EXCEPT !.ver = ver]
<1>1. /\ Answered(t, "version") /\ task' = [task EXCEPT ![t] = n]
      /\ UNCHANGED <<settled, ver, cache, early, slow>>
  BY DEF GetVersion, redisVars
<1>2. /\ r \in Request /\ r.since <= ver /\ r.floor <= settled /\ ver <= ver
  BY Knows
<1>3. /\ o \in Request /\ o.at = "entry" /\ o.home = r.home /\ o.sent = FALSE
      /\ o.probing = FALSE /\ o.val = r.val /\ o.since = r.since /\ o.floor = r.floor
  <2>1. "entry" \in Step
    BY DEF Step, Command
  <2>2. QED
    BY <1>2, <2>1, OnFacts
<1>4. ver \in Version
  BY TypeParts
<1> HIDE DEF o
<1>5. /\ n \in Request /\ n.at = "entry" /\ n.home = r.home /\ n.sent = FALSE
      /\ n.probing = FALSE /\ n.val = r.val /\ n.since = r.since /\ n.floor = r.floor
      /\ n.ver = ver
  BY <1>3, <1>4 DEF Request
<1> HIDE DEF n
<1>6. Onward(t, n)
  BY <1>2, <1>5 DEF Onward, Committing, Bumping
<1>7. early' \in BOOLEAN /\ slow' \in BOOLEAN /\ (early => early') /\ (slow => slow')
  BY <1>1, TypeParts
<1>8. Elsewise /\ ProbesGoOn(t, n) /\ db' = db
  BY <1>1, <1>5, <1>7, AnswerFacts
<1>9. ASSUME ~early, ~slow PROVE Careful(t, n)
  <2>1. r.val # None => r.val >= r.floor
    BY <1>9, FreshFacts
  <2>2. QED
    BY <1>2, <1>5, <2>1 DEF Careful
<1>10. QED
  BY <1>1, <1>5, <1>6, <1>8, <1>9, TaskStep

\* An entry that is found is not older than what the request began with.
LEMMA GetEntryKeeps ==
  ASSUME ReadsInv, NEW t \in Task, GetEntry(t)
  PROVE  ReadsInv'
<1> DEFINE r     == task[t]
           found == cache[r.ver]
           f     == On(r, "fetch")
           o     == On(r, "done")
           d     == [o EXCEPT !.val = found]
           n     == IF found = None THEN f ELSE d
<1>1. /\ Answered(t, "entry") /\ task' = [task EXCEPT ![t] = n]
      /\ UNCHANGED <<settled, ver, cache, early, slow>>
  BY DEF GetEntry, redisVars
<1>2. /\ r \in Request /\ r.ver <= ver /\ r.since <= ver /\ r.floor <= settled
  BY Knows
<1>3. "fetch" \in Step /\ "done" \in Step
  BY DEF Step
<1>4. /\ f \in Request /\ f.at = "fetch" /\ f.home = r.home /\ f.sent = FALSE
      /\ f.probing = FALSE /\ f.val = r.val /\ f.since = r.since /\ f.floor = r.floor
      /\ f.ver = r.ver
  BY <1>2, <1>3, OnFacts
<1>5. /\ o \in Request /\ o.at = "done" /\ o.home = r.home /\ o.sent = FALSE
      /\ o.probing = FALSE /\ o.since = r.since /\ o.floor = r.floor /\ o.ver = r.ver
  BY <1>2, <1>3, OnFacts
<1>6. found \in Value
  <2>1. r.ver \in Version
    BY <1>2 DEF Request
  <2>2. QED
    BY <2>1, TypeParts
<1> HIDE DEF f, o, found
<1>7. /\ d \in Request /\ d.at = "done" /\ d.home = r.home /\ d.sent = FALSE
      /\ d.probing = FALSE /\ d.since = r.since /\ d.floor = r.floor /\ d.ver = r.ver
      /\ d.val = found
  BY <1>5, <1>6 DEF Request
<1> HIDE DEF d
<1>8. /\ n \in Request /\ n.at \in {"fetch", "done"} /\ n.home = r.home /\ n.sent = FALSE
      /\ n.probing = FALSE /\ n.since = r.since /\ n.floor = r.floor /\ n.ver = r.ver
      /\ n.val = r.val \/ (n.val = found /\ found # None)
  BY <1>4, <1>7
<1> HIDE DEF n
<1>9. Onward(t, n)
  BY <1>2, <1>8 DEF Onward, Committing, Bumping
<1>10. early' \in BOOLEAN /\ slow' \in BOOLEAN /\ (early => early') /\ (slow => slow')
  BY <1>1, TypeParts
<1>11. Elsewise /\ ProbesGoOn(t, n) /\ db' = db /\ r.at = "entry"
  BY <1>1, <1>8, <1>10, AnswerFacts
<1>12. ASSUME ~early, ~slow PROVE Careful(t, n)
  <2>1. /\ r.val # None => r.val >= r.floor
        /\ found # None => found >= r.floor
    BY <1>11, <1>12, FreshFacts DEF found
  <2>2. QED
    BY <1>2, <1>8, <2>1 DEF Careful
<1>13. QED
  BY <1>1, <1>8, <1>9, <1>11, <1>12, TaskStep

\* The version taken anew is the one of the read, or the value is overtaken.
LEMMA GetVersionAgainKeeps ==
  ASSUME ReadsInv, NEW t \in Task, GetVersionAgain(t)
  PROVE  ReadsInv'
<1> DEFINE r == task[t]
           o == On(r, "store")
           n == [o EXCEPT !.ver = ver]
<1>1. /\ Answered(t, "again") /\ task' = [task EXCEPT ![t] = n]
      /\ slow' = (slow \/ ver # r.since)
      /\ UNCHANGED <<settled, ver, cache, early>>
  BY DEF GetVersionAgain, redisVars
<1>2. /\ r \in Request /\ r.since <= ver /\ r.floor <= settled /\ ver <= ver
  BY Knows
<1>3. /\ o \in Request /\ o.at = "store" /\ o.home = r.home /\ o.sent = FALSE
      /\ o.probing = FALSE /\ o.val = r.val /\ o.since = r.since /\ o.floor = r.floor
  <2>1. "store" \in Step
    BY DEF Step, Command
  <2>2. QED
    BY <1>2, <2>1, OnFacts
<1>4. ver \in Version
  BY TypeParts
<1> HIDE DEF o
<1>5. /\ n \in Request /\ n.at = "store" /\ n.home = r.home /\ n.sent = FALSE
      /\ n.probing = FALSE /\ n.val = r.val /\ n.since = r.since /\ n.floor = r.floor
      /\ n.ver = ver
  BY <1>3, <1>4 DEF Request
<1> HIDE DEF n
<1>6. Onward(t, n)
  BY <1>2, <1>5 DEF Onward, Committing, Bumping
<1>7. early' \in BOOLEAN /\ slow' \in BOOLEAN /\ (early => early') /\ (slow => slow')
  BY <1>1, TypeParts
<1>8. Elsewise /\ ProbesGoOn(t, n) /\ db' = db /\ r.at = "again"
  BY <1>1, <1>5, <1>7, AnswerFacts
<1>9. ASSUME ~early, ~slow' PROVE Careful(t, n)
  <2>1. ~slow /\ ver = r.since
    BY <1>1, <1>9
  <2>2. (r.val # None => r.val >= r.floor) /\ r.val # None
    BY <1>8, <1>9, <2>1, FreshFacts
  <2>3. Storing(t)
    BY <1>8 DEF Storing
  <2>4. QED
    BY <1>2, <1>5, <2>1, <2>2, <2>3 DEF Careful
<1>10. QED
  BY <1>1, <1>5, <1>6, <1>8, <1>9, TaskStep

\* A cancelled request holds its probe for good, and its process is marked.
LEMMA CancelKeeps ==
  ASSUME ReadsInv, NEW t \in Task, Cancel(t)
  PROVE  ReadsInv'
<1> DEFINE r == task[t]
           n == On(r, "cancelled")
<1>1. /\ faults < MaxFaults /\ faults' = faults + 1 /\ task' = [task EXCEPT ![t] = n]
      /\ leaked' = IF r.probing THEN leaked \cup {r.home} ELSE leaked
      /\ UNCHANGED <<db, settled, ver, cache, up, breaker, early, slow>>
  BY DEF Cancel, redisVars
<1>2. /\ r \in Request /\ r.home \in Proc
      /\ r.ver <= ver /\ r.since <= ver /\ r.floor <= settled
  BY Knows
<1>3. /\ n \in Request /\ n.at = "cancelled" /\ n.home = r.home /\ n.sent = FALSE
      /\ n.probing = FALSE /\ n.val = r.val /\ n.since = r.since /\ n.floor = r.floor
      /\ n.ver = r.ver
  <2>1. "cancelled" \in Step
    BY DEF Step
  <2>2. QED
    BY <1>2, <2>1, OnFacts
<1> HIDE DEF n
<1>4. Onward(t, n)
  BY <1>2, <1>3 DEF Onward, Committing, Bumping
<1>5. BreakersOK /\ leaked \subseteq Proc
  BY TypeParts
<1>6. ProbesGoOn(t, n)
  BY <1>1, <1>3 DEF ProbesGoOn
<1>7. faults' \in 0 .. MaxFaults
  BY <1>1, TypeParts DEF HotReadsAssumption
<1>8. Elsewise
  <2>1. BreakersOK'
    BY <1>1, <1>5 DEF BreakersOK
  <2>2. leaked \subseteq leaked' /\ leaked' \subseteq Proc
    BY <1>1, <1>2, <1>5
  <2>3. QED
    BY <1>1, <1>7, <2>1, <2>2, TypeParts DEF Elsewise
<1>9. ASSUME ~early, ~slow PROVE Careful(t, n)
  <2>1. r.val # None => r.val >= r.floor
    BY <1>9, FreshFacts
  <2>2. QED
    BY <1>2, <1>3, <2>1 DEF Careful
<1>10. QED
  BY <1>1, <1>3, <1>4, <1>6, <1>8, <1>9, TaskStep

-----------------------------------------------------------------------------
(* The steps that change what is cached, or under which version.           *)

\* The entry under one version becomes another, or goes.
LEMMA EntryStored ==
  ASSUME ReadsTypeOK, NEW v \in Version, NEW x \in Value,
         cache' = [cache EXCEPT ![v] = x]
  PROVE  /\ cache' \in [Version -> Value]
         /\ \A w \in Version : cache'[w] = IF w = v THEN x ELSE cache[w]
BY DEF ReadsTypeOK

\* What is stored under the version it was read at is fresh for whoever looks.
LEMMA StoreFresh ==
  ASSUME ReadsInv, Fresh, NEW t \in Task, task[t].at = "store",
         NEW n \in Request, task' = [task EXCEPT ![t] = n],
         n.at = "done", n.val = task[t].val, n.floor = task[t].floor,
         cache' = [cache EXCEPT ![task[t].ver] = task[t].val],
         UNCHANGED <<settled, ver>>
  PROVE  Fresh'
<1> DEFINE r == task[t]
<1>1. ReadsTypeOK /\ task \in [Task -> Request] /\ ver \in Version
  BY TypeParts DEF ReadsInv
<1>2. /\ \A u \in Task : Holds(u) /\ Looks(u) /\ Stores(u)
      /\ cache[ver] # None => cache[ver] >= settled
      /\ \A v \in Version : v > ver => cache[v] = None
  BY DEF Fresh
<1>3. \A u \in Task : task'[u] = IF u = t THEN n ELSE task[u]
  BY <1>1
<1>4. \A u \in Task : task[u].ver \in Version /\ task[u].val \in Value
  BY <1>1 DEF Request
<1>5. \A w \in Version : cache'[w] = IF w = r.ver THEN r.val ELSE cache[w]
  BY <1>1, <1>4, EntryStored
<1>6. r.ver = r.since /\ (r.since = ver => r.val >= settled) /\ Storing(t)
  BY <1>2 DEF Stores, Storing
<1>7. \A u \in Task : Storing(u)' => u # t /\ Storing(u)
  BY <1>3 DEF Storing
<1>8. \A u \in Task : Holds(u)'
  BY <1>2, <1>3 DEF Holds
<1>9. \A u \in Task : Stores(u)'
  <2>1. ASSUME NEW u \in Task PROVE Stores(u)'
    <3>1. CASE u = t
      BY <1>3, <3>1 DEF Stores, Storing
    <3>2. CASE u # t
      <4>1. Stores(u) /\ task'[u] = task[u]
        BY <1>2, <1>3, <3>2
      <4>2. QED
        BY <4>1 DEF Stores, Storing
    <3>3. QED
      BY <3>1, <3>2
  <2>2. QED
    BY <2>1
<1>10. ASSUME NEW u \in Task PROVE Looks(u)'
  <2>1. SUFFICES ASSUME task'[u].at = "entry" PROVE Looks(u)'
    BY DEF Looks
  <2>2. u # t /\ task'[u] = task[u] /\ task[u].at = "entry"
    BY <1>3, <2>1
  <2>3. /\ cache[task[u].ver] # None => cache[task[u].ver] >= task[u].floor
        /\ \A w \in Task : Storing(w) /\ task[w].since = task[u].ver
                             => task[w].val >= task[u].floor
    BY <1>2, <2>2 DEF Looks
  <2>4. cache'[task[u].ver] # None => cache'[task[u].ver] >= task[u].floor
    <3>1. CASE task[u].ver = r.ver
      <4>1. cache'[task[u].ver] = r.val /\ r.since = task[u].ver
        BY <1>4, <1>5, <1>6, <3>1
      <4>2. QED
        BY <1>6, <2>3, <4>1
    <3>2. CASE task[u].ver # r.ver
      <4>1. cache'[task[u].ver] = cache[task[u].ver]
        BY <1>4, <1>5, <3>2
      <4>2. QED
        BY <2>3, <4>1
    <3>3. QED
      BY <3>1, <3>2
  <2>5. \A w \in Task : Storing(w)' /\ task'[w].since = task[u].ver
                          => task'[w].val >= task[u].floor
    BY <1>3, <1>7, <2>3
  <2>6. QED
    BY <2>2, <2>4, <2>5 DEF Looks
<1>11. cache'[ver] # None => cache'[ver] >= settled
  <2>1. CASE ver = r.ver
    BY <1>1, <1>5, <1>6, <2>1
  <2>2. CASE ver # r.ver
    BY <1>1, <1>2, <1>5, <2>2
  <2>3. QED
    BY <2>1, <2>2
<1>12. \A v \in Version : v > ver => cache'[v] = None
  <2>1. ASSUME NEW v \in Version, v > ver PROVE cache'[v] = None
    <3>1. r.ver <= ver
      BY Knows
    <3>2. v \in Nat /\ ver \in Nat /\ r.ver \in Nat
      BY <1>1, StateNumbers
    <3>3. v # r.ver
      BY <2>1, <3>1, <3>2
    <3>4. QED
      BY <1>2, <1>5, <2>1, <3>3
  <2>2. QED
    BY <2>1
<1>13. QED
  BY <1>8, <1>9, <1>10, <1>11, <1>12 DEF Fresh

\* What was read is stored.
LEMMA StoreKeeps ==
  ASSUME ReadsInv, NEW t \in Task, Store(t)
  PROVE  ReadsInv'
<1> DEFINE r == task[t]
           n == On(r, "done")
<1>1. /\ Answered(t, "store") /\ task' = [task EXCEPT ![t] = n]
      /\ cache' = [cache EXCEPT ![r.ver] = r.val]
      /\ UNCHANGED <<settled, ver, early, slow>>
  BY DEF Store
<1>2. /\ r \in Request /\ r.ver <= ver /\ r.since <= ver /\ r.floor <= settled
      /\ settled <= db /\ settled \in Nat /\ db \in Nat /\ ver \in Nat
      /\ settled <= settled /\ ver <= ver
  BY Knows
<1>3. /\ n \in Request /\ n.at = "done" /\ n.home = r.home /\ n.sent = FALSE
      /\ n.probing = FALSE /\ n.val = r.val /\ n.since = r.since /\ n.floor = r.floor
      /\ n.ver = r.ver
  <2>1. "done" \in Step
    BY DEF Step
  <2>2. QED
    BY <1>2, <2>1, OnFacts
<1> HIDE DEF n
<1>4. Onward(t, n)
  BY <1>2, <1>3 DEF Onward, Committing, Bumping
<1>5. early' \in BOOLEAN /\ slow' \in BOOLEAN /\ (early => early') /\ (slow => slow')
  BY <1>1, TypeParts
<1>6. Elsewise /\ ProbesGoOn(t, n) /\ db' = db /\ r.at = "store"
  BY <1>1, <1>3, <1>5, AnswerFacts
<1>7. ReadsTypeOK /\ task \in [Task -> Request] /\ settled \in Version
  BY TypeParts DEF ReadsInv
<1>8. r.ver \in Version /\ r.val \in Value
  BY <1>2 DEF Request
<1>9. cache' \in [Version -> Value]
  BY <1>1, <1>7, <1>8, EntryStored
<1>10. task' \in [Task -> Request]
  BY <1>1, <1>3, <1>7
<1>11. Counted' /\ db' \in Version /\ ver' \in Version
  BY <1>1, <1>3, <1>6, CountedMoves DEF Committing, Bumping
<1>12. Probes' /\ ProbeIsUnderWay'
  <2>1. leaked \subseteq leaked'
    BY <1>6 DEF Elsewise
  <2>2. \A p \in Proc \ leaked' : breaker'[p].probe =>
          \/ p = n.home /\ n.probing
          \/ breaker[p].probe /\ (p = n.home /\ task[t].probing => n.probing)
    BY <1>6 DEF ProbesGoOn
  <2>3. QED
    BY <1>1, <1>3, <2>1, <2>2, ProbeMoves
<1>13. ReadsTypeOK'
  BY <1>1, <1>6, <1>7, <1>9, <1>10, <1>11, TypeWhole
<1>14. Behind'
  BY <1>1, <1>2, <1>3, <1>4, <1>5, <1>6, BehindMoves
<1>15. early' \/ slow' \/ Fresh'
  <2>1. early \/ slow \/ Fresh
    BY DEF ReadsInv
  <2>2. Fresh => Fresh'
    BY <1>1, <1>3, <1>6, StoreFresh
  <2>3. QED
    BY <1>1, <2>1, <2>2
<1>16. QED
  BY <1>11, <1>12, <1>13, <1>14, <1>15 DEF ReadsInv

\* A version that is new has no entry, and nothing was read under it.
LEMMA BumpFresh ==
  ASSUME ReadsInv, Fresh, NEW t \in Task,
         NEW n \in Request, task' = [task EXCEPT ![t] = n],
         n.at = "done", n.val = task[t].val, n.floor = task[t].floor,
         ver' = ver + 1, ver' \in Version, UNCHANGED cache
  PROVE  Fresh'
<1>1. task \in [Task -> Request] /\ ver \in Version
  BY TypeParts
<1>2. /\ \A u \in Task : Holds(u) /\ Looks(u) /\ Stores(u)
      /\ \A v \in Version : v > ver => cache[v] = None
  BY DEF Fresh
<1>3. \A u \in Task : task'[u] = IF u = t THEN n ELSE task[u]
  BY <1>1
<1>4. \A u \in Task : Storing(u)' => u # t /\ Storing(u)
  BY <1>3 DEF Storing
<1>5. \A u \in Task : Holds(u)'
  BY <1>2, <1>3 DEF Holds
<1>6. \A u \in Task : task[u].since # ver'
  <2>1. ASSUME NEW u \in Task PROVE task[u].since # ver'
    <3>1. task[u].since <= ver
      BY Knows
    <3>2. task[u].since \in Nat /\ ver \in Nat
      BY StateNumbers DEF ReadsInv
    <3>3. QED
      BY <3>1, <3>2
  <2>2. QED
    BY <2>1
<1>7. ASSUME NEW u \in Task PROVE Stores(u)'
  <2>1. CASE u = t
    BY <1>3, <2>1 DEF Stores, Storing
  <2>2. CASE u # t
    <3>1. Stores(u) /\ task'[u] = task[u] /\ task[u].since # ver'
      BY <1>2, <1>3, <1>6, <2>2
    <3>2. QED
      BY <3>1 DEF Stores, Storing
  <2>3. QED
    BY <2>1, <2>2
<1>8. ASSUME NEW u \in Task PROVE Looks(u)'
  <2>1. SUFFICES ASSUME task'[u].at = "entry" PROVE Looks(u)'
    BY DEF Looks
  <2>2. task'[u] = task[u] /\ task[u].at = "entry"
    BY <1>3, <2>1
  <2>3. /\ cache[task[u].ver] # None => cache[task[u].ver] >= task[u].floor
        /\ \A w \in Task : Storing(w) /\ task[w].since = task[u].ver
                             => task[w].val >= task[u].floor
    BY <1>2, <2>2 DEF Looks
  <2>4. \A w \in Task : Storing(w)' /\ task'[w].since = task[u].ver
                          => task'[w].val >= task[u].floor
    BY <1>3, <1>4, <2>3
  <2>5. QED
    BY <2>2, <2>3, <2>4 DEF Looks
<1>9. /\ cache'[ver'] = None
      /\ \A v \in Version : v > ver' => cache'[v] = None
  <2>1. ver \in Nat /\ \A v \in Version : v \in Nat
    BY <1>1, StateNumbers DEF ReadsInv
  <2>2. \A v \in Version : v > ver' \/ v = ver' => v > ver
    BY <2>1
  <2>3. QED
    BY <1>2, <2>2
<1>10. QED
  BY <1>5, <1>7, <1>8, <1>9 DEF Fresh

\* A bump, which settles the data or marks that the commit is still to come.
LEMMA VersionStep ==
  ASSUME ReadsInv, NEW t \in Task, NEW n \in Request,
         task' = [task EXCEPT ![t] = n], Onward(t, n),
         ProbesGoOn(t, n), Elsewise, UNCHANGED <<db, cache>>, ver' = ver + 1,
         task[t].at \in Bumping, n.at \notin Bumping,
         settled' = settled \/ settled' = db,
         early' \/ slow \/ (n.at = "done" /\ n.val = task[t].val /\ n.floor = task[t].floor)
  PROVE  ReadsInv'
<1>1. /\ task \in [Task -> Request] /\ cache \in [Version -> Value]
      /\ db \in Version /\ settled \in Version /\ ver \in Version
  BY TypeParts
<1>2. Counted' /\ db' \in Version /\ ver' \in Version
  BY CountedMoves DEF Onward
<1>3. Probes' /\ ProbeIsUnderWay'
  <2>1. n.home = task[t].home /\ (n.probing => n.sent)
    BY DEF Onward
  <2>2. leaked \subseteq leaked'
    BY DEF Elsewise
  <2>3. \A p \in Proc \ leaked' : breaker'[p].probe =>
          \/ p = n.home /\ n.probing
          \/ breaker[p].probe /\ (p = n.home /\ task[t].probing => n.probing)
    BY DEF ProbesGoOn
  <2>4. QED
    BY <2>1, <2>2, <2>3, ProbeMoves
<1>4. db \in Nat /\ settled \in Nat /\ ver \in Nat
  BY <1>1, Numbers
<1>5. settled <= db
  BY DEF ReadsInv, Behind
<1>6. /\ settled' \in Version /\ settled <= settled' /\ settled' <= db' /\ settled' \in Nat
      /\ ver' \in Nat /\ ver <= ver' /\ db' \in Nat
  BY <1>1, <1>4, <1>5
<1>7. ReadsTypeOK'
  BY <1>1, <1>2, <1>6, TypeWhole
<1>8. Behind'
  <2>1. early => early'
    BY DEF Elsewise
  <2>2. QED
    BY <1>6, <2>1, BehindMoves
<1>9. early' \/ slow' \/ Fresh'
  <2>1. SUFFICES ASSUME ~early', ~slow' PROVE Fresh'
    OBVIOUS
  <2>2. ~early /\ ~slow
    BY <2>1 DEF Elsewise
  <2>3. Fresh
    BY <2>2 DEF ReadsInv
  <2>4. n.at = "done" /\ n.val = task[t].val /\ n.floor = task[t].floor
    BY <2>1, <2>2
  <2>5. QED
    BY <1>2, <2>3, <2>4, BumpFresh
<1>10. QED
  BY <1>2, <1>3, <1>7, <1>8, <1>9 DEF ReadsInv

\* A bump after its commit.
LEMMA BumpKeeps ==
  ASSUME ReadsInv, NEW t \in Task, Bump(t)
  PROVE  ReadsInv'
<1> DEFINE r == task[t]
           n == On(r, "done")
<1>1. /\ Answered(t, "bump") /\ task' = [task EXCEPT ![t] = n]
      /\ ver' = ver + 1 /\ settled' = db /\ UNCHANGED <<cache, early, slow>>
  BY DEF Bump, Bumped
<1>2. /\ r \in Request /\ r.ver <= ver /\ r.since <= ver /\ r.floor <= settled
  BY Knows
<1>3. /\ n \in Request /\ n.at = "done" /\ n.home = r.home /\ n.sent = FALSE
      /\ n.probing = FALSE /\ n.val = r.val /\ n.since = r.since /\ n.floor = r.floor
      /\ n.ver = r.ver
  <2>1. "done" \in Step
    BY DEF Step
  <2>2. QED
    BY <1>2, <2>1, OnFacts
<1> HIDE DEF n
<1>4. Onward(t, n)
  BY <1>2, <1>3 DEF Onward, Committing, Bumping
<1>5. early' \in BOOLEAN /\ slow' \in BOOLEAN /\ (early => early') /\ (slow => slow')
  BY <1>1, TypeParts
<1>6. Elsewise /\ ProbesGoOn(t, n) /\ db' = db /\ r.at = "bump"
  BY <1>1, <1>3, <1>5, AnswerFacts
<1>7. r.at \in Bumping /\ n.at \notin Bumping
  BY <1>3, <1>6 DEF Bumping
<1>8. QED
  BY <1>1, <1>3, <1>4, <1>6, <1>7, VersionStep

\* A bump before its commit.
LEMMA BumpFirstKeeps ==
  ASSUME ReadsInv, NEW t \in Task, BumpFirst(t)
  PROVE  ReadsInv'
<1> DEFINE r == task[t]
           n == On(r, "commit last")
<1>1. /\ Answered(t, "bump first") /\ task' = [task EXCEPT ![t] = n]
      /\ ver' = ver + 1 /\ early' = TRUE /\ UNCHANGED <<settled, cache, slow>>
  BY DEF BumpFirst, Bumped
<1>2. /\ r \in Request /\ r.ver <= ver /\ r.since <= ver /\ r.floor <= settled
  BY Knows
<1>3. /\ n \in Request /\ n.at = "commit last" /\ n.home = r.home /\ n.sent = FALSE
      /\ n.probing = FALSE /\ n.val = r.val /\ n.since = r.since /\ n.floor = r.floor
      /\ n.ver = r.ver
  <2>1. "commit last" \in Step
    BY DEF Step
  <2>2. QED
    BY <1>2, <2>1, OnFacts
<1> HIDE DEF n
<1>4. early' \in BOOLEAN /\ slow' \in BOOLEAN /\ (early => early') /\ (slow => slow')
  BY <1>1, TypeParts
<1>5. Elsewise /\ ProbesGoOn(t, n) /\ db' = db /\ r.at = "bump first"
  BY <1>1, <1>3, <1>4, AnswerFacts
<1>6. Onward(t, n)
  BY <1>1, <1>2, <1>3, <1>5 DEF Onward, Committing, Bumping
<1>7. r.at \in Bumping /\ n.at \notin Bumping
  BY <1>3, <1>5 DEF Bumping
<1>8. QED
  BY <1>1, <1>3, <1>5, <1>6, <1>7, VersionStep

-----------------------------------------------------------------------------
(* The steps of no request.                                                *)

\* A breaker that is half-open again has the probe mark it had.
LEMMA ElapseKeeps ==
  ASSUME ReadsInv, NEW p \in Proc, Elapse(p)
  PROVE  ReadsInv'
<1>1. /\ breaker[p].state = "open"
      /\ breaker' = [breaker EXCEPT ![p] = [breaker[p] EXCEPT !.state = "half-open"]]
      /\ UNCHANGED <<db, settled, ver, cache, up, task, early, slow, leaked, faults>>
  BY DEF Elapse, redisVars, ghosts
<1>2. ReadsTypeOK /\ BreakersOK
  BY TypeParts DEF ReadsInv
<1> DEFINE b == [breaker[p] EXCEPT !.state = "half-open"]
<1>3. breaker[p] \in Breaker /\ b \in Breaker /\ b.state = "half-open" /\ b.probe = breaker[p].probe
  BY <1>2 DEF BreakersOK, Breaker
<1> HIDE DEF b
<1>4. breaker' = [breaker EXCEPT ![p] = b]
  BY <1>1 DEF b
<1>5. \A q \in Proc : breaker'[q] = IF q = p THEN b ELSE breaker[q]
  BY <1>2, <1>4 DEF BreakersOK
<1>6. breaker' \in [Proc -> Breaker]
  BY <1>2, <1>3, <1>4 DEF BreakersOK
<1>7. BreakersOK'
  BY <1>2, <1>3, <1>5, <1>6 DEF BreakersOK
<1>8. ReadsTypeOK'
  BY <1>1, <1>2, <1>7 DEF ReadsTypeOK, BreakersOK, Breaker
<1>9. ProbeIsUnderWay'
  <2>1. \A q \in Proc : breaker'[q].probe => breaker[q].probe
    BY <1>3, <1>5
  <2>2. ProbeIsUnderWay
    BY DEF ReadsInv
  <2>3. QED
    BY <1>1, <2>1, <2>2 DEF ProbeIsUnderWay
<1>10. Counted' /\ Behind' /\ Probes' /\ (early' \/ slow' \/ Fresh')
  BY <1>1 DEF ReadsInv, Counted, At, Behind, Probes, Fresh, Holds, Looks, Stores, Storing
<1>11. QED
  BY <1>8, <1>9, <1>10 DEF ReadsInv

\* An entry that expired is one entry less to find.
LEMMA ExpireKeeps ==
  ASSUME ReadsInv, NEW v \in Version, Expire(v)
  PROVE  ReadsInv'
<1>1. /\ cache' = [cache EXCEPT ![v] = None]
      /\ UNCHANGED <<db, settled, ver, up, breaker, task, early, slow, leaked, faults>>
  BY DEF Expire, ghosts
<1>2. ReadsTypeOK /\ task \in [Task -> Request] /\ ver \in Version
  BY TypeParts DEF ReadsInv
<1>3. None \in Value
  BY Numbers
<1>4. /\ cache' \in [Version -> Value]
      /\ \A w \in Version : cache'[w] = None \/ cache'[w] = cache[w]
  BY <1>1, <1>2, <1>3, EntryStored
<1>5. ReadsTypeOK'
  BY <1>1, <1>2, <1>4 DEF ReadsTypeOK
<1>6. Counted' /\ Behind' /\ Probes' /\ ProbeIsUnderWay'
  BY <1>1 DEF ReadsInv, Counted, At, Behind, Probes, ProbeIsUnderWay
<1>7. ASSUME Fresh PROVE Fresh'
  <2>1. /\ \A t \in Task : Holds(t) /\ Looks(t) /\ Stores(t)
        /\ cache[ver] # None => cache[ver] >= settled
        /\ \A w \in Version : w > ver => cache[w] = None
    BY <1>7 DEF Fresh
  <2>2. \A t \in Task : task[t].ver \in Version
    BY <1>2 DEF Request
  <2>3. \A t \in Task : Holds(t)' /\ Stores(t)'
    BY <1>1, <2>1 DEF Holds, Stores, Storing
  <2>4. ASSUME NEW t \in Task PROVE Looks(t)'
    <3>1. cache'[task[t].ver] = None \/ cache'[task[t].ver] = cache[task[t].ver]
      BY <1>4, <2>2
    <3>2. Looks(t)
      BY <2>1
    <3>3. QED
      BY <1>1, <3>1, <3>2 DEF Looks, Storing
  <2>5. cache'[ver] # None => cache'[ver] >= settled
    BY <1>2, <1>4, <2>1
  <2>6. \A w \in Version : w > ver => cache'[w] = None
    BY <1>4, <2>1
  <2>7. QED
    BY <1>1, <2>3, <2>4, <2>5, <2>6 DEF Fresh
<1>8. early' \/ slow' \/ Fresh'
  BY <1>1, <1>7 DEF ReadsInv
<1>9. QED
  BY <1>5, <1>6, <1>8 DEF ReadsInv

\* Redis falls or rises, or nothing happens.
LEMMA RedisKeeps ==
  ASSUME ReadsInv, Fall \/ Rise \/ UNCHANGED readsVars
  PROVE  ReadsInv'
<1>1. /\ UNCHANGED <<db, settled, ver, cache, breaker, task, early, slow, leaked>>
      /\ up' \in BOOLEAN /\ faults' \in 0 .. MaxFaults
  <2>1. up \in BOOLEAN /\ faults \in 0 .. MaxFaults /\ MaxFaults \in Nat
    BY TypeParts DEF HotReadsAssumption
  <2>2. CASE Fall
    <3>1. faults < MaxFaults /\ faults' = faults + 1 /\ up' = FALSE
          /\ UNCHANGED <<db, settled, ver, cache, breaker, task, early, slow, leaked>>
      BY <2>2 DEF Fall, redisVars, ghosts
    <3>2. faults' \in 0 .. MaxFaults
      BY <2>1, <3>1
    <3>3. QED
      BY <3>1, <3>2
  <2>3. CASE Rise
    BY <2>1, <2>3 DEF Rise, redisVars, ghosts
  <2>4. CASE UNCHANGED readsVars
    BY <2>1, <2>4 DEF readsVars
  <2>5. QED
    BY <2>2, <2>3, <2>4
<1>2. ReadsTypeOK'
  BY <1>1 DEF ReadsInv, ReadsTypeOK
<1>3. Counted' /\ Behind' /\ Probes' /\ ProbeIsUnderWay'
  BY <1>1 DEF ReadsInv, Counted, At, Behind, Probes, ProbeIsUnderWay
<1>4. early' \/ slow' \/ Fresh'
  BY <1>1 DEF ReadsInv, Fresh, Holds, Looks, Stores, Storing
<1>5. QED
  BY <1>2, <1>3, <1>4 DEF ReadsInv

-----------------------------------------------------------------------------
(* The theorems.                                                           *)

\* Before any request began nothing is cached and nothing was committed.
LEMMA ReadsStart ==
  ASSUME ReadsInit
  PROVE  ReadsInv
<1>1. /\ db = 0 /\ settled = 0 /\ ver = 0 /\ up = TRUE
      /\ cache = [v \in Version |-> None] /\ breaker = [p \in Proc |-> Closed]
      /\ early = FALSE /\ slow = FALSE /\ leaked = {} /\ faults = 0
  BY DEF ReadsInit
<1>2. 0 \in Version /\ None \in Value /\ Cardinality(Task) \in Nat
  BY Numbers
<1>3. 0 \in Value
  BY <1>2, Numbers
<1>4. \A t \in Task : /\ task[t].at = "ready" /\ task[t].home \in Proc
                      /\ task[t].sent = FALSE /\ task[t].probing = FALSE
                      /\ task[t].client = FALSE /\ task[t].ver = 0
                      /\ task[t].val = None /\ task[t].since = 0 /\ task[t].floor = 0
                      /\ task[t] \in Request
  <2>1. /\ task \in [Task -> [at : {"ready"}, home : Proc, sent : {FALSE},
                        probing : {FALSE}, client : {FALSE}, ver : {0},
                        val : {None}, since : {0}, floor : {0}]]
        /\ "ready" \in Step
    BY DEF ReadsInit, Step
  <2>2. QED
    BY <1>2, <1>3, <2>1 DEF Request
<1>5. task \in [Task -> Request]
  <2>1. task = [t \in Task |-> task[t]]
    BY DEF ReadsInit
  <2>2. QED
    BY <1>4, <2>1
<1>6. BreakersOK
  <2>1. Closed \in Breaker /\ Closed.probe = FALSE
    BY DEF Closed, Breaker, HotReadsAssumption
  <2>2. QED
    BY <1>1, <2>1 DEF BreakersOK
<1>7. ReadsTypeOK
  <2>1. cache \in [Version -> Value]
    BY <1>1, <1>2
  <2>2. faults \in 0 .. MaxFaults
    BY <1>1 DEF HotReadsAssumption
  <2>3. QED
    BY <1>1, <1>2, <1>5, <1>6, <2>1, <2>2 DEF ReadsTypeOK, BreakersOK, Breaker
<1>8. Counted
  <2>1. At(Committing) = Task /\ At(Bumping) = Task
    BY <1>4 DEF At, Committing, Bumping
  <2>2. QED
    BY <1>1, <1>2, <2>1 DEF Counted
<1>9. Behind /\ Probes
  <2>1. 0 <= 0
    OBVIOUS
  <2>2. Behind
    BY <1>1, <1>4, <2>1 DEF Behind
  <2>3. Probes
    BY <1>4 DEF Probes
  <2>4. QED
    BY <2>2, <2>3
<1>10. ProbeIsUnderWay
  BY <1>1 DEF ProbeIsUnderWay, Closed
<1>11. Fresh
  BY <1>1, <1>2, <1>4 DEF Fresh, Holds, Looks, Stores, Storing
<1>12. QED
  BY <1>7, <1>8, <1>9, <1>10, <1>11 DEF ReadsInv

\* No step breaks the invariant.
LEMMA ReadsStep ==
  ASSUME ReadsInv, [ReadsNext]_readsVars
  PROVE  ReadsInv'
<1>1. ASSUME NEW t \in Task, NEW step \in {"version", "commit", "bump first"}, Serve(t, step)
      PROVE  ReadsInv'
  BY <1>1, BeginKeeps
<1>2. ASSUME NEW t \in Task, Fetch(t) PROVE ReadsInv'
  BY <1>2, FetchKeeps
<1>3. ASSUME NEW t \in Task, CommitFirst(t) PROVE ReadsInv'
  BY <1>3, CommitFirstKeeps
<1>4. ASSUME NEW t \in Task, CommitLast(t) PROVE ReadsInv'
  BY <1>4, CommitLastKeeps
<1>5. ASSUME NEW t \in Task, Send(t) PROVE ReadsInv'
  BY <1>5, SendKeeps
<1>6. ASSUME NEW t \in Task, Refuse(t) PROVE ReadsInv'
  BY <1>6, RefuseKeeps
<1>7. ASSUME NEW t \in Task, Error(t) PROVE ReadsInv'
  BY <1>7, ErrorKeeps
<1>8. ASSUME NEW t \in Task, Cancel(t) PROVE ReadsInv'
  BY <1>8, CancelKeeps
<1>9. ASSUME NEW t \in Task, GetVersion(t) PROVE ReadsInv'
  BY <1>9, GetVersionKeeps
<1>10. ASSUME NEW t \in Task, GetEntry(t) PROVE ReadsInv'
  BY <1>10, GetEntryKeeps
<1>11. ASSUME NEW t \in Task, GetVersionAgain(t) PROVE ReadsInv'
  BY <1>11, GetVersionAgainKeeps
<1>12. ASSUME NEW t \in Task, Store(t) PROVE ReadsInv'
  BY <1>12, StoreKeeps
<1>13. ASSUME NEW t \in Task, Bump(t) PROVE ReadsInv'
  BY <1>13, BumpKeeps
<1>14. ASSUME NEW t \in Task, BumpFirst(t) PROVE ReadsInv'
  BY <1>14, BumpFirstKeeps
<1>15. ASSUME NEW p \in Proc, Elapse(p) PROVE ReadsInv'
  BY <1>15, ElapseKeeps
<1>16. ASSUME NEW v \in Version, Expire(v) PROVE ReadsInv'
  BY <1>16, ExpireKeeps
<1>17. CASE Fall \/ Rise \/ UNCHANGED readsVars
  BY <1>17, RedisKeeps
<1>18. QED
  BY <1>1, <1>2, <1>3, <1>4, <1>5, <1>6, <1>7, <1>8, <1>9, <1>10, <1>11, <1>12,
     <1>13, <1>14, <1>15, <1>16, <1>17 DEF ReadsNext

\* The inductive invariant holds for any requests, processes and threshold.
THEOREM ReadsInvariantHolds == ReadsSpec => []ReadsInv
<1>1. ReadsInit => ReadsInv
  BY ReadsStart
<1>2. ReadsInv /\ [ReadsNext]_readsVars => ReadsInv'
  BY ReadsStep
<1>3. QED
  BY <1>1, <1>2, PTL DEF ReadsSpec

\* The kinds of values, for any requests, processes and threshold: no more
\* commits and no more bumps than requests, and a probe is marked only while
\* its breaker is half-open.
THEOREM ReadsTypeCorrect == ReadsSpec => []ReadsTypeOK
<1>1. ReadsInv => ReadsTypeOK
  BY DEF ReadsInv
<1>2. QED
  BY <1>1, ReadsInvariantHolds, PTL

\* A read is never older than what was settled when it began, for any number
\* of requests and processes, unless a write bumped before its commit or a value
\* was stored under a version bumped since (scope_read, bump_scope_version).
THEOREM ReadsAreFreshHolds == ReadsSpec => []ReadsAreFresh
<1>1. ReadsInv => ReadsAreFresh
  BY DEF ReadsInv, Fresh, Holds, ReadsAreFresh
<1>2. QED
  BY <1>1, ReadsInvariantHolds, PTL

\* No breaker waits for a probe nobody sent, for any number of requests and
\* processes, but where a request was cancelled with it (_breaker_allows).
THEOREM ProbeIsUnderWayHolds == ReadsSpec => []ProbeIsUnderWay
<1>1. ReadsInv => ProbeIsUnderWay
  BY DEF ReadsInv
<1>2. QED
  BY <1>1, ReadsInvariantHolds, PTL
=============================================================================
