-------------------------------- MODULE Till --------------------------------
(***************************************************************************)
(* What the money of one sale promises: a payment, a void or a return      *)
(* happens at once and acts on the sale as it is at that moment.           *)
(* SaleLedger implements it through requests that read the sale first and  *)
(* write what they computed later, until two of them race: from then on    *)
(* (loose) nothing is promised.                                            *)
(***************************************************************************)
EXTENDS Naturals, Sequences

CONSTANT Total \* the total of the sale

VARIABLES
  taken,    \* what the customer has paid
  paid,     \* what the sale says was paid
  status,   \* "pending", "partial", "completed", "voided" or "returned"
  drawn,    \* what was taken off its receivable
  books,    \* its journal: "missing", "posted" or "lost"
  confirms, \* announcements of its completion
  reversed, \* reversals of its journal
  undone,   \* the voids and returns, and the payments that revived it
  loose     \* the promise is off

vars == <<taken, paid, status, drawn, books, confirms, reversed, undone, loose>>

Init ==
  /\ taken = 0 /\ paid = 0 /\ status = "pending" /\ drawn = 0
  /\ books \in {"missing", "posted"}
  /\ confirms = 0 /\ reversed = 0 /\ undone = <<>>
  /\ ~loose

Book ==
  /\ books = "missing" /\ undone = <<>>
  /\ books' = "posted"
  /\ UNCHANGED <<taken, paid, status, drawn, confirms, reversed, undone>>

Lose ==
  /\ books = "missing"
  /\ books' = "lost"
  /\ UNCHANGED <<taken, paid, status, drawn, confirms, reversed, undone>>

\* The status after a units more.
After(a) ==
  IF paid + a >= Total THEN "completed"
  ELSE IF paid + a > 0 THEN "partial" ELSE status

Take(a) ==
  /\ taken' = taken + a /\ paid' = paid + a
  /\ status' = After(a)
  /\ undone' = IF status \in {"voided", "returned"} /\ After(a) # status
               THEN Append(undone, "pay") ELSE undone
  /\ UNCHANGED <<books, reversed>>

\* A payment draws the receivable down by what it covers, if it finds one that
\* is booked and open.
Pay(a) ==
  /\ Take(a)
  /\ confirms' = IF After(a) = "completed" /\ status # "completed"
                 THEN confirms + 1 ELSE confirms
  /\ drawn' \in {drawn, IF drawn + a < Total THEN drawn + a ELSE Total}

\* The cash share of a split payment.
Share(a) == Take(a) /\ UNCHANGED <<confirms, drawn>>

\* A payment entered against the receivable.
Enter(a) ==
  /\ books = "posted" /\ a <= Total - drawn
  /\ drawn' = drawn + a
  /\ UNCHANGED <<taken, paid, status, books, confirms, reversed, undone>>

Undo(kind, result, refused) ==
  /\ status \notin refused
  /\ status' = result
  /\ reversed' = IF books = "posted" THEN reversed + 1 ELSE reversed
  /\ undone' = Append(undone, kind)
  /\ UNCHANGED <<taken, paid, drawn, books, confirms>>

Operate ==
  \/ Book \/ Lose
  \/ \E a \in 0 .. Total : Pay(a) \/ Share(a) \/ Enter(a)
  \/ Undo("void", "voided", {"voided"})
  \/ Undo("return", "returned", {"voided", "returned"})

Next ==
  \/ ~loose /\ ~loose' /\ Operate
  \/ loose'

Spec == Init /\ [][Next]_vars
=============================================================================
