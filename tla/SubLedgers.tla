----------------------------- MODULE SubLedgers -----------------------------
(***************************************************************************)
(* Receivables, payables and expenses next to the general ledger, store by *)
(* store, and the tax a store remits.                                      *)
(*                                                                         *)
(* A row is created with its journal in one transaction. A payment locks   *)
(* the row until its commit, in which it also posts the cash leg. A row    *)
(* can be moved to another store: the request reads it without a lock,     *)
(* writes the new store if it differs from the one read, tags the row's    *)
(* journals anew, and commits. A remittance of tax sums the store's        *)
(* journals and posts its own, without a lock. What a sale's own payments   *)
(* do to the sale's receivable is in SaleLedger.                           *)
(*                                                                         *)
(* Sources: accounting/routes.py, accounting/rpc.py with the SQL functions *)
(* of alembic/versions, accounting/repository.py, common/bridge.py         *)
(* (_post_sale_journal).                                                   *)
(***************************************************************************)
EXTENDS Integers, FiniteSets, Functions

CONSTANTS
  Op,       \* requests that run at the same time
  Row,      \* the rows there can be
  Sale,     \* those that an unpaid sale raises
  Expense,  \* those that are paid when they are recorded
  Store,    \* the stores
  NoStore,  \* the tag of a row or a journal without a store
  Amount,   \* the amounts of rows
  MaxTax,   \* bound on the tax of a store
  MaxOps    \* bound on the requests

ASSUME SubLedgersAssumption ==
  /\ IsFiniteSet(Op) /\ IsFiniteSet(Row) /\ IsFiniteSet(Store)
  /\ Sale \subseteq Row /\ Expense \subseteq Row /\ Sale \cap Expense = {}
  /\ Row # {} /\ Store # {} /\ NoStore \notin Store
  /\ Amount \subseteq Nat \ {0}
  /\ MaxTax \in Nat
  /\ MaxOps \in Nat

VARIABLES
  row,       \* the rows there are: [store, amount, paid, balance, status]
  booked,    \* the store of each row's first journal
  cleared,   \* what the journals of its payments add up to, per store
  ledger,    \* what its rows of ar_payments or ap_payments add up to
  recent,    \* what was paid for it since its last move
  crossed,   \* rows moved back to where another move had just taken them from
  collected, \* tax credited to the tax account, per store
  reversed,  \* tax debited by voids and returns, per store
  remitted,  \* tax debited by remittances, per store
  rushed,    \* stores with a remittance planned from a sum that had changed
  job, ops

rowVars == <<row, booked, cleared, ledger, recent, crossed>>
taxVars == <<collected, reversed, remitted, rushed>>
vars == <<row, booked, cleared, ledger, recent, crossed, collected, reversed,
          remitted, rushed, job, ops>>

Place  == Store \cup {NoStore}
Status == {"pending", "partial", "paid"}
Record == [store : Place, amount : Amount, paid : Nat, balance : Int, status : Status]

Kind == {"none", "pay", "move", "remit"}
Idle == [kind |-> "none", row |-> CHOOSE r \in Row : TRUE, store |-> NoStore,
         n |-> 0, read |-> FALSE, from |-> NoStore, paid |-> 0, owed |-> 0]

Empty == [x \in {} |-> 0]
Zero  == [p \in Place |-> 0]

Init ==
  /\ row = Empty /\ booked = Empty
  /\ cleared = [r \in Row |-> Zero]
  /\ ledger = [r \in Row |-> 0]
  /\ recent = [r \in Row |-> 0]
  /\ crossed = {}
  /\ collected = [s \in Store |-> 0]
  /\ reversed = [s \in Store |-> 0]
  /\ remitted = [s \in Store |-> 0]
  /\ rushed = {}
  /\ job = [w \in Op |-> Idle]
  /\ ops = 0

-----------------------------------------------------------------------------
(* Requests.                                                               *)

Begin(w, k, r, s, n) ==
  /\ job[w] = Idle /\ ops < MaxOps
  /\ job' = [job EXCEPT ![w] = [Idle EXCEPT !.kind = k, !.row = r, !.store = s, !.n = n]]
  /\ ops' = ops + 1
  /\ UNCHANGED <<rowVars, taxVars>>

\* Only a move may name no store.
Start(w) ==
  \/ \E r \in DOMAIN row \ Expense : \E n \in 1 .. row[r].amount :
       Begin(w, "pay", r, NoStore, n)
  \/ \E r \in DOMAIN row, p \in Place : Begin(w, "move", r, p, 0)
  \/ \E s \in Store, n \in 1 .. MaxTax : Begin(w, "remit", Idle.row, s, n)

Doing(w, k, read) == job[w].kind = k /\ job[w].read = read
Leave(w) == job' = [job EXCEPT ![w] = Idle] /\ UNCHANGED ops

\* Refused or failed: the transaction is rolled back, its journal with it.
Abort(w) ==
  /\ job[w] # Idle
  /\ Leave(w)
  /\ UNCHANGED <<rowVars, taxVars>>

-----------------------------------------------------------------------------
(* Rows and their payments.                                                *)

\* The row and its first journal are one transaction.
Insert(r, s, n) ==
  /\ r \notin DOMAIN row
  /\ row' = [x \in DOMAIN row \cup {r} |->
       IF x # r THEN row[x]
       ELSE [store |-> s, amount |-> n, paid |-> 0, balance |-> n, status |-> "pending"]]
  /\ booked' = [x \in DOMAIN row \cup {r} |-> IF x # r THEN booked[x] ELSE s]
  /\ UNCHANGED <<cleared, ledger, recent, crossed, taxVars, job, ops>>

Create  == \E r \in Row \ (Sale \cup Expense), s \in Store, n \in Amount : Insert(r, s, n)
Spend   == \E r \in Expense, s \in Store, n \in Amount : Insert(r, s, n)
SellDue == \E r \in Sale, s \in Store, n \in Amount : Insert(r, s, n)

\* A payment that has read the row holds its lock.
Locked(r) == \E w \in Op : Doing(w, "pay", TRUE) /\ job[w].row = r

\* Mutation of LockRow: FOR UPDATE is left out.
LockNothing(w) ==
  /\ Doing(w, "pay", FALSE)
  /\ job[w].n <= row[job[w].row].balance
  /\ job' = [job EXCEPT ![w].read = TRUE, ![w].paid = row[job[w].row].paid,
                        ![w].owed = row[job[w].row].balance]
  /\ UNCHANGED <<rowVars, taxVars, ops>>

\* SELECT ... FOR UPDATE, and the refusal of more than is owed.
LockRow(w) ==
  /\ Doing(w, "pay", FALSE)
  /\ ~Locked(job[w].row)
  /\ job[w].n <= row[job[w].row].balance
  /\ job' = [job EXCEPT ![w].read = TRUE, ![w].paid = row[job[w].row].paid,
                        ![w].owed = row[job[w].row].balance]
  /\ UNCHANGED <<rowVars, taxVars, ops>>

StatusOf(balance) == IF balance <= 0 THEN "paid" ELSE "partial"

\* The function returns no store_id, so the cash leg has no store.
Pay(w) ==
  LET r == job[w].row  n == job[w].n  b == job[w].owed - n IN
  /\ Doing(w, "pay", TRUE)
  /\ row' = [row EXCEPT ![r].paid = job[w].paid + n, ![r].balance = b,
                        ![r].status = StatusOf(b)]
  /\ ledger' = [ledger EXCEPT ![r] = @ + n]
  /\ recent' = [recent EXCEPT ![r] = @ + n]
  /\ cleared' = [cleared EXCEPT ![r][NoStore] = @ + n]
  /\ Leave(w)
  /\ UNCHANGED <<booked, crossed, taxVars>>

-----------------------------------------------------------------------------
(* Moving a row to another store.                                          *)

ReadRow(w) ==
  /\ Doing(w, "move", FALSE)
  /\ job' = [job EXCEPT ![w].read = TRUE, ![w].from = row[job[w].row].store]
  /\ UNCHANGED <<rowVars, taxVars, ops>>

\* Every posted payment of row r now belongs to store p.
Gathered(r, p) ==
  [x \in Place |-> IF x = p THEN SumFunctionOnSet(cleared[r], Place) ELSE 0]

\* Mutation of Retag: the journals of the payments are left where they are.
RetagFirst(r, p) ==
  /\ booked' = IF r \in Sale THEN booked ELSE [booked EXCEPT ![r] = p]
  /\ UNCHANGED cleared

\* The journals whose reference is the row: its own and its payments'. The
\* journal of a sale refers to the sale.
Retag(r, p) ==
  /\ booked' = IF r \in Sale THEN booked ELSE [booked EXCEPT ![r] = p]
  /\ cleared' = [cleared EXCEPT ![r] = Gathered(r, p)]

\* A store that equals the one read is not written, and then the row's lock is
\* not needed either.
Move(w) ==
  LET r == job[w].row  p == job[w].store  same == p = job[w].from IN
  /\ Doing(w, "move", TRUE)
  /\ same \/ ~Locked(r)
  /\ row' = IF same THEN row ELSE [row EXCEPT ![r].store = p]
  /\ Retag(r, p)
  /\ recent' = [recent EXCEPT ![r] = 0]
  /\ crossed' = IF same /\ row[r].store # p THEN crossed \cup {r} ELSE crossed \ {r}
  /\ Leave(w)
  /\ UNCHANGED <<ledger, taxVars>>

-----------------------------------------------------------------------------
(* The tax of a store.                                                     *)

\* A taxed sale, its void or return, or a journal entered by hand.
Collect(s) ==
  /\ collected[s] < MaxTax
  /\ collected' = [collected EXCEPT ![s] = @ + 1]
  /\ UNCHANGED <<rowVars, reversed, remitted, rushed, job, ops>>

Reverse(s) ==
  /\ reversed[s] < collected[s]
  /\ reversed' = [reversed EXCEPT ![s] = @ + 1]
  /\ UNCHANGED <<rowVars, collected, remitted, rushed, job, ops>>

\* Mutation of Owed: the sum is the business's, not the store's.
OwedByAll(s) ==
  SumFunctionOnSet([x \in Store |-> collected[x] - reversed[x] - remitted[x]], Store)

Owed(s) == collected[s] - reversed[s] - remitted[s]

ReadOwed(w) ==
  /\ Doing(w, "remit", FALSE)
  /\ job[w].n <= Owed(job[w].store)
  /\ job' = [job EXCEPT ![w].read = TRUE, ![w].owed = Owed(job[w].store)]
  /\ UNCHANGED <<rowVars, taxVars, ops>>

Remit(w) ==
  LET s == job[w].store IN
  /\ Doing(w, "remit", TRUE)
  /\ remitted' = [remitted EXCEPT ![s] = @ + job[w].n]
  /\ rushed' = IF job[w].owed # Owed(s) THEN rushed \cup {s} ELSE rushed
  /\ Leave(w)
  /\ UNCHANGED <<rowVars, collected, reversed>>

Next ==
  \/ Create \/ Spend \/ SellDue
  \/ \E w \in Op :
       \/ Start(w) \/ Abort(w)
       \/ LockRow(w) \/ Pay(w)
       \/ ReadRow(w) \/ Move(w)
       \/ ReadOwed(w) \/ Remit(w)
  \/ \E s \in Store : Collect(s) \/ Reverse(s)

Spec == Init /\ [][Next]_vars

-----------------------------------------------------------------------------
(* What the statements may rely on.                                        *)

\* A request: what it is about, and what it has read.
Request == [kind : Kind, row : Row, store : Place, n : Nat, read : BOOLEAN,
            from : Place, paid : Nat, owed : Int]

\* The kinds of values; a row has a first journal.
TypeOK ==
  /\ DOMAIN row \subseteq Row /\ row \in [DOMAIN row -> Record]
  /\ booked \in [DOMAIN row -> Place]
  /\ {ledger, recent} \subseteq [Row -> Nat]
  /\ cleared \in [Row -> [Place -> Nat]]
  /\ crossed \subseteq Row /\ rushed \subseteq Store
  /\ {collected, reversed, remitted} \subseteq [Store -> Nat]
  /\ job \in [Op -> Request]
  /\ ops \in 0 .. MaxOps

Cleared(r) == SumFunctionOnSet(cleared[r], Place)

\* A row is never paid beyond its amount, what it says was paid is what its
\* payments add up to, and its status says whether something is owed.
RowsMatchPayments == \A r \in DOMAIN row :
  /\ row[r].balance >= 0
  /\ row[r].balance + row[r].paid = row[r].amount
  /\ row[r].paid = ledger[r]
  /\ row[r].status = IF ledger[r] = 0 THEN "pending" ELSE StatusOf(row[r].balance)

\* The journals of its payments add up to the same, wherever they are tagged.
JournalsMatch == \A r \in DOMAIN row : row[r].paid = Cleared(r)

\* However payments and moves interleave, rows, payments and journals agree: the
\* control account and the sub-ledger of the business are equal
\* (fn_record_ar_payment, fn_record_ap_payment, _post_payment_journal; the checks
\* of tests/test_accounting_invariants.py).
RowsMatchLedger == RowsMatchPayments /\ JournalsMatch

\* What the balance sheet of a store shows of the rows R: the sub-ledger, and
\* the control account behind it.
SubLedger(s, R) ==
  SumFunctionOnSet([r \in R |-> row[r].balance], {r \in R : row[r].store = s})
Control(s, R) ==
  SumFunctionOnSet([r \in R |-> row[r].amount], {r \in R : booked[r] = s})
    - SumFunctionOnSet([r \in R |-> cleared[r][s]], R)

\* The rows whose journals should all be where the row is: a sale's row leaves
\* the sale's journal behind when it is moved.
Tagged == {r \in DOMAIN row \ (crossed \cup Expense) : r \in Sale => booked[r] = row[r].store}

\* Unless two moves of a row crossed or the row of a sale was moved, the
\* control account of a store is the sub-ledger's balance and the payments that
\* were posted without a store since the row's last move, no more and no less
\* (routes.py, move_receivable_to_store: "otherwise per-store cash and
\* receivable figures would keep the original attribution"); and an expense is
\* counted in the store it is in.
StoreExplained ==
  /\ \A s \in Store :
       Control(s, Tagged) = SubLedger(s, Tagged)
         + SumFunctionOnSet(recent, {r \in Tagged : row[r].store = s})
  /\ \A r \in DOMAIN row \cap Expense : r \notin crossed => booked[r] = row[r].store

\* Unless two postings overlapped, no store remits more tax than it collected
\* (routes.py, remit_tax: "a tax that was already remitted cannot be re-paid").
TaxRemittedOnce == \A s \in Store \ rushed : remitted[s] <= collected[s]

\* What Debts sees of the rows and their payments.
OnCredit == DOMAIN row \ Expense

Account == INSTANCE Debts WITH
  Debt     <- Row \ Expense,
  left     <- [r \in OnCredit |-> row[r].balance],
  recorded <- [r \in OnCredit |-> ledger[r]]

\* Rows and locks implement Debts: whatever requests overlap, each payment is a
\* step of its own that takes no more than what is left and is recorded with it,
\* and no move between stores changes either (fn_record_ar_payment: "Lock the row
\* so two concurrent payments cannot both pass the balance check").
ImplementsDebts == Account!Spec
=============================================================================
