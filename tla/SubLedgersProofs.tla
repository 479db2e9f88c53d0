-------------------------- MODULE SubLedgersProofs --------------------------
(***************************************************************************)
(* Proofs about SubLedgers, for every set of requests, rows and stores.    *)
(* The inductive invariant IInv adds to the properties what a request that *)
(* has read still knows when it writes: a payment, because it holds the    *)
(* row's lock; a remittance, unless its store is marked as rushed; and, row *)
(* by row, where the journals of its payments are.                          *)
(***************************************************************************)
EXTENDS SubLedgers, Sequences, SumTheorems, TLAPS

\* A payment or a move is of a row there is, and only a row on credit is paid;
\* a remittance is of a store.
Aimed(w) ==
  /\ job[w].kind \in {"pay", "move"} => job[w].row \in DOMAIN row
  /\ job[w].kind = "pay" => job[w].row \notin Expense /\ job[w].n > 0
  /\ job[w].kind = "remit" => job[w].store \in Store

\* What a payment has read of its row is still true, and covers it.
Fresh(w) ==
  Doing(w, "pay", TRUE) =>
    /\ job[w].paid = row[job[w].row].paid
    /\ job[w].owed = row[job[w].row].balance
    /\ job[w].n <= job[w].owed

\* A remittance that has read is covered by what it read.
Covered(w) == Doing(w, "remit", TRUE) => job[w].n <= job[w].owed

JobsInPlace == \A w \in Op : Aimed(w) /\ Fresh(w) /\ Covered(w)

\* The lock of a row has one holder.
OneHolder ==
  \A v, w \in Op :
    Doing(v, "pay", TRUE) /\ Doing(w, "pay", TRUE) /\ job[v].row = job[w].row => v = w

\* Nothing is paid for a row that does not exist, and it has not moved.
NothingPaid ==
  \A r \in Row \ DOMAIN row :
    /\ ledger[r] = 0 /\ recent[r] = 0 /\ r \notin crossed
    /\ \A p \in Place : cleared[r][p] = 0

\* Where the journals of a row are, unless two moves of it crossed: its own, with
\* the row; in no store but the row's, those of payments, which are those
\* before its last move.
RowExplained(r) ==
  r \notin crossed =>
    /\ r \notin Sale => booked[r] = row[r].store
    /\ \A s \in Store :
         cleared[r][s] = IF s = row[r].store THEN row[r].paid - recent[r] ELSE 0

RowsInPlace ==
  /\ NothingPaid
  /\ RowsMatchPayments
  /\ JournalsMatch
  /\ \A r \in DOMAIN row : RowExplained(r)

IInv ==
  /\ TypeOK
  /\ JobsInPlace
  /\ OneHolder
  /\ RowsInPlace
  /\ TaxRemittedOnce

\* A step that leaves the rows and their journals alone.
LEMMA RowsStay ==
  ASSUME RowsInPlace, UNCHANGED rowVars
  PROVE  RowsInPlace'
<1> USE DEF rowVars
<1>1. NothingPaid' /\ RowsMatchPayments'
  BY DEF RowsInPlace, NothingPaid, RowsMatchPayments
<1>2. JournalsMatch'
  BY DEF RowsInPlace, JournalsMatch, Cleared
<1>3. \A r \in DOMAIN row' : RowExplained(r)'
  BY DEF RowsInPlace, RowExplained
<1>4. QED
  BY <1>1, <1>2, <1>3 DEF RowsInPlace

\* An idle request is a request.
LEMMA IdleType == Idle \in Request
<1>1. (CHOOSE r \in Row : TRUE) \in Row
  BY SubLedgersAssumption
<1>2. QED
  BY <1>1 DEF Idle, Request, Kind, Place

\* In the beginning there are no rows and no requests.
LEMMA InitIInv == Init => IInv
<1> SUFFICES ASSUME Init PROVE IInv
  OBVIOUS
<1> USE DEF Init
<1>1. DOMAIN row = {} /\ row = [x \in {} |-> 0] /\ booked = [x \in {} |-> 0]
  BY DEF Empty
<1>2. \A w \in Op : job[w] = Idle
  OBVIOUS
<1>3. TypeOK
  <2>1. job \in [Op -> Request]
    BY IdleType
  <2>2. row \in [DOMAIN row -> Record] /\ booked \in [DOMAIN row -> Place]
    BY <1>1
  <2>3. QED
    BY <1>1, <2>1, <2>2, SubLedgersAssumption DEF TypeOK, Zero
<1>4. \A w \in Op : job[w].kind = "none"
  BY <1>2 DEF Idle
<1>5. JobsInPlace /\ OneHolder
  BY <1>4 DEF JobsInPlace, OneHolder, Aimed, Fresh, Covered, Doing
<1>6. NothingPaid /\ RowsMatchPayments /\ JournalsMatch /\ TaxRemittedOnce
  BY <1>1 DEF NothingPaid, RowsMatchPayments, JournalsMatch, TaxRemittedOnce, Zero
<1>7. QED
  BY <1>1, <1>3, <1>5, <1>6 DEF IInv, RowsInPlace

-----------------------------------------------------------------------------
(* Steps of a request that has not written yet: only its record changes.   *)

\* What such a step must show: the record's type and what it knows.
LEMMA JobStep ==
  ASSUME IInv, NEW w \in Op, NEW j \in Request, job' = [job EXCEPT ![w] = j],
         UNCHANGED <<rowVars, taxVars>>, ops' \in 0 .. MaxOps,
         Aimed(w)', Fresh(w)', Covered(w)',
         j.kind = "pay" /\ j.read =>
           \A v \in Op \ {w} : ~(Doing(v, "pay", TRUE) /\ job[v].row = j.row)
  PROVE  IInv'
<1> USE DEF rowVars, taxVars
<1>1. \A v \in Op : job'[v] = IF v = w THEN j ELSE job[v]
  BY DEF IInv, TypeOK
<1>2. TypeOK'
  BY DEF IInv, TypeOK
<1>3. JobsInPlace'
  <2>1. ASSUME NEW v \in Op, v # w PROVE Aimed(v)' /\ Fresh(v)' /\ Covered(v)'
    BY <2>1, <1>1 DEF IInv, JobsInPlace, Aimed, Fresh, Covered, Doing
  <2>2. QED
    BY <2>1 DEF JobsInPlace
<1>4. OneHolder'
  BY <1>1 DEF IInv, OneHolder, Doing
<1>5. RowsInPlace' /\ TaxRemittedOnce'
  BY RowsStay DEF IInv, TaxRemittedOnce
<1>6. QED
  BY <1>2, <1>3, <1>4, <1>5 DEF IInv

\* A request begins.
LEMMA BeginIInv ==
  ASSUME IInv, NEW w \in Op, Start(w)
  PROVE  IInv'
<1> USE DEF rowVars, taxVars
<1>1. ASSUME NEW k \in Kind, NEW r \in Row, NEW p \in Place, NEW n \in Nat,
             Begin(w, k, r, p, n),
             k \in {"pay", "move"} => r \in DOMAIN row,
             k = "pay" => r \notin Expense /\ n > 0,
             k = "remit" => p \in Store
      PROVE  IInv'
  <2> DEFINE j == [Idle EXCEPT !.kind = k, !.row = r, !.store = p, !.n = n]
  <2>1. /\ j \in Request /\ ~j.read
        /\ j.kind = k /\ j.row = r /\ j.store = p /\ j.n = n
    BY IdleType DEF Request, Idle
  <2>2. job' = [job EXCEPT ![w] = j] /\ ops' = ops + 1 /\ ops < MaxOps
        /\ UNCHANGED <<rowVars, taxVars>>
    BY <1>1 DEF Begin
  <2>3. job'[w] = j
    BY <2>2 DEF IInv, TypeOK
  <2>4. ops' \in 0 .. MaxOps
    BY <2>2, SubLedgersAssumption DEF IInv, TypeOK
  <2> HIDE DEF j
  <2>5. Aimed(w)' /\ Fresh(w)' /\ Covered(w)'
    BY <1>1, <2>1, <2>2, <2>3 DEF Aimed, Fresh, Covered, Doing
  <2>6. QED
    BY <2>1, <2>2, <2>4, <2>5, JobStep
<1>2. ASSUME NEW r \in DOMAIN row \ Expense, NEW n \in 1 .. row[r].amount,
             Begin(w, "pay", r, NoStore, n)
      PROVE  IInv'
  <2>1. r \in Row /\ row[r] \in Record /\ n \in Nat /\ n > 0
    BY SubLedgersAssumption DEF IInv, TypeOK, Record
  <2>2. QED
    BY <1>1, <1>2, <2>1 DEF Kind, Place
<1>3. ASSUME NEW r \in DOMAIN row, NEW p \in Place, Begin(w, "move", r, p, 0)
      PROVE  IInv'
  BY <1>1, <1>3 DEF Kind, IInv, TypeOK
<1>4. ASSUME NEW s \in Store, NEW n \in 1 .. MaxTax, Begin(w, "remit", Idle.row, s, n)
      PROVE  IInv'
  BY <1>1, <1>4, IdleType, SubLedgersAssumption DEF Kind, Place, Request
<1>5. QED
  BY <1>2, <1>3, <1>4 DEF Start

\* A request is given up.
LEMMA AbortIInv ==
  ASSUME IInv, NEW w \in Op, Abort(w)
  PROVE  IInv'
<1>1. job' = [job EXCEPT ![w] = Idle] /\ ops' = ops /\ UNCHANGED <<rowVars, taxVars>>
  BY DEF Abort, Leave
<1>2. job'[w] = Idle
  BY <1>1 DEF IInv, TypeOK
<1>3. Idle.kind = "none" /\ ~Idle.read
  BY DEF Idle
<1>4. Aimed(w)' /\ Fresh(w)' /\ Covered(w)'
  BY <1>2, <1>3 DEF Aimed, Fresh, Covered, Doing
<1>5. QED
  BY <1>1, <1>3, <1>4, IdleType, JobStep DEF IInv, TypeOK

\* A payment takes the lock and reads the row.
LEMMA LockRowIInv ==
  ASSUME IInv, NEW w \in Op, LockRow(w)
  PROVE  IInv'
<1> DEFINE r == job[w].row
           j == [job[w] EXCEPT !.read = TRUE, !.paid = row[r].paid, !.owed = row[r].balance]
<1>1. job[w] \in Request /\ job[w].kind = "pay" /\ r \in DOMAIN row /\ row[r] \in Record
  BY DEF LockRow, Doing, IInv, TypeOK, JobsInPlace, Aimed
<1>2. /\ j \in Request /\ j.read /\ j.kind = "pay" /\ j.row = r /\ j.n = job[w].n
      /\ j.paid = row[r].paid /\ j.owed = row[r].balance
  BY <1>1 DEF Request, Record
<1>3. /\ job' = [job EXCEPT ![w] = j]
      /\ ops' = ops /\ UNCHANGED <<rowVars, taxVars>> /\ job[w].n <= row[r].balance
  BY DEF LockRow, IInv, TypeOK, Request
<1>4. job'[w] = j
  BY <1>3 DEF IInv, TypeOK
<1>5. \A v \in Op \ {w} : ~(Doing(v, "pay", TRUE) /\ job[v].row = j.row)
  BY <1>2 DEF LockRow, Locked
<1>6. Aimed(w) /\ row' = row
  BY <1>3 DEF IInv, JobsInPlace, rowVars
<1> HIDE DEF j
<1>7. Aimed(w)' /\ Fresh(w)' /\ Covered(w)'
  BY <1>1, <1>2, <1>3, <1>4, <1>6 DEF Aimed, Fresh, Covered, Doing
<1>8. QED
  BY <1>2, <1>3, <1>5, <1>7, JobStep DEF IInv, TypeOK

\* A move reads the row's store, without the lock.
LEMMA ReadRowIInv ==
  ASSUME IInv, NEW w \in Op, ReadRow(w)
  PROVE  IInv'
<1> DEFINE r == job[w].row
           j == [job[w] EXCEPT !.read = TRUE, !.from = row[r].store]
<1>1. job[w] \in Request /\ job[w].kind = "move" /\ r \in DOMAIN row /\ row[r] \in Record
  BY DEF ReadRow, Doing, IInv, TypeOK, JobsInPlace, Aimed
<1>2. j \in Request /\ j.kind = "move" /\ j.row = r
  BY <1>1 DEF Request, Record
<1>3. job' = [job EXCEPT ![w] = j] /\ ops' = ops /\ UNCHANGED <<rowVars, taxVars>>
  BY DEF ReadRow, IInv, TypeOK, Request
<1>4. job'[w] = j /\ row' = row
  BY <1>3 DEF IInv, TypeOK, rowVars
<1> HIDE DEF j
<1>5. Aimed(w)' /\ Fresh(w)' /\ Covered(w)'
  BY <1>1, <1>2, <1>4 DEF Aimed, Fresh, Covered, Doing
<1>6. QED
  BY <1>2, <1>3, <1>5, JobStep DEF IInv, TypeOK

\* What a store owes is a number.
LEMMA OwedType ==
  ASSUME IInv, NEW s \in Store
  PROVE  Owed(s) \in Int /\ collected[s] \in Nat /\ reversed[s] \in Nat /\ remitted[s] \in Nat
BY DEF Owed, IInv, TypeOK

\* A remittance sums the store's journals.
LEMMA ReadOwedIInv ==
  ASSUME IInv, NEW w \in Op, ReadOwed(w)
  PROVE  IInv'
<1> DEFINE s == job[w].store
           j == [job[w] EXCEPT !.read = TRUE, !.owed = Owed(s)]
<1>1. job[w] \in Request /\ job[w].kind = "remit" /\ s \in Store
  BY DEF ReadOwed, Doing, IInv, TypeOK, JobsInPlace, Aimed
<1>2. Owed(s) \in Int /\ job[w].n <= Owed(s)
  BY <1>1, OwedType DEF ReadOwed
<1>3. /\ j \in Request /\ j.kind = "remit" /\ j.store = s
      /\ j.n = job[w].n /\ j.owed = Owed(s)
  BY <1>1, <1>2 DEF Request
<1>4. job' = [job EXCEPT ![w] = j] /\ ops' = ops /\ UNCHANGED <<rowVars, taxVars>>
  BY DEF ReadOwed, IInv, TypeOK, Request
<1>5. job'[w] = j
  BY <1>4 DEF IInv, TypeOK
<1> HIDE DEF j
<1>6. Aimed(w)' /\ Fresh(w)' /\ Covered(w)'
  BY <1>1, <1>2, <1>3, <1>5 DEF Aimed, Fresh, Covered, Doing
<1>7. QED
  BY <1>3, <1>4, <1>6, JobStep DEF IInv, TypeOK

-----------------------------------------------------------------------------
(* Steps that write.                                                       *)

\* When a request ends, what the others know is as before if the rows they
\* paid for are.
LEMMA LeaveStep ==
  ASSUME IInv, NEW w \in Op, Leave(w), DOMAIN row' = DOMAIN row,
         \A v \in Op \ {w} : Doing(v, "pay", TRUE) =>
           /\ row'[job[v].row].paid = row[job[v].row].paid
           /\ row'[job[v].row].balance = row[job[v].row].balance
  PROVE  /\ job' \in [Op -> Request]
         /\ JobsInPlace'
         /\ OneHolder'
<1>1. /\ job' \in [Op -> Request]
      /\ \A v \in Op : job'[v] = IF v = w THEN Idle ELSE job[v]
  BY IdleType DEF Leave, IInv, TypeOK
<1>2. Idle.kind = "none"
  BY DEF Idle
<1>3. ASSUME NEW v \in Op, v # w PROVE Aimed(v)' /\ Fresh(v)' /\ Covered(v)'
  BY <1>1, <1>3 DEF IInv, JobsInPlace, Aimed, Fresh, Covered, Doing
<1>4. Aimed(w)' /\ Fresh(w)' /\ Covered(w)'
  BY <1>1, <1>2 DEF Aimed, Fresh, Covered, Doing
<1>5. JobsInPlace'
  BY <1>3, <1>4 DEF JobsInPlace
<1>6. OneHolder'
  BY <1>1, <1>2 DEF IInv, OneHolder, Doing
<1>7. QED
  BY <1>1, <1>5, <1>6

\* A payment is written: the row says what the lock has kept true, less or more
\* the amount paid, which is recorded with it.
LEMMA PayEffect ==
  ASSUME IInv, NEW w \in Op, Pay(w)
  PROVE  LET r == job[w].row  n == job[w].n IN
         /\ r \in DOMAIN row /\ r \in Row \ Expense
         /\ n \in 1 .. row[r].balance
         /\ row[r] \in Record /\ ledger[r] \in Nat
         /\ row' \in [DOMAIN row -> Record]
         /\ \A x \in DOMAIN row \ {r} : row'[x] = row[x]
         /\ row'[r].store = row[r].store /\ row'[r].amount = row[r].amount
         /\ row'[r].paid = row[r].paid + n
         /\ row'[r].balance = row[r].balance - n
         /\ row'[r].status = StatusOf(row[r].balance - n)
         /\ ledger' = [ledger EXCEPT ![r] = @ + n]
         /\ recent' = [recent EXCEPT ![r] = @ + n]
         /\ cleared' = [cleared EXCEPT ![r][NoStore] = @ + n]
<1> DEFINE r == job[w].row  n == job[w].n
<1>1. Doing(w, "pay", TRUE)
  BY DEF Pay
<1>2. /\ r \in DOMAIN row /\ r \in Row \ Expense
      /\ row[r] \in Record /\ n \in Nat /\ ledger[r] \in Nat
  BY <1>1 DEF Doing, IInv, TypeOK, Request, JobsInPlace, Aimed
<1>3. /\ job[w].paid = row[r].paid /\ job[w].owed = row[r].balance
      /\ n <= row[r].balance /\ n > 0
  BY <1>1 DEF Doing, IInv, JobsInPlace, Aimed, Fresh
<1>4. row[r].paid \in Nat /\ row[r].balance \in Int
  BY <1>2 DEF Record
<1>5. n \in 1 .. row[r].balance
  BY <1>2, <1>3, <1>4
<1> DEFINE new == [row[r] EXCEPT !.paid = row[r].paid + n, !.balance = row[r].balance - n,
                                 !.status = StatusOf(row[r].balance - n)]
<1>6. new \in Record
  <2>1. StatusOf(row[r].balance - n) \in Status
    BY DEF StatusOf, Status
  <2>2. row[r].paid + n \in Nat /\ row[r].balance - n \in Int
    BY <1>2, <1>4
  <2>3. QED
    BY <1>2, <2>1, <2>2 DEF Record
<1>7. /\ new.store = row[r].store /\ new.amount = row[r].amount
      /\ new.paid = row[r].paid + n /\ new.balance = row[r].balance - n
      /\ new.status = StatusOf(row[r].balance - n)
  BY <1>2 DEF Record
<1>8. row' = [row EXCEPT ![r] = new] /\ ledger' = [ledger EXCEPT ![r] = @ + n]
  BY <1>2, <1>3 DEF Pay, IInv, TypeOK, Record
<1> HIDE DEF new
<1>9. /\ row' \in [DOMAIN row -> Record] /\ row'[r] = new
      /\ \A x \in DOMAIN row \ {r} : row'[x] = row[x]
  BY <1>2, <1>6, <1>8 DEF IInv, TypeOK
<1>10. /\ recent' = [recent EXCEPT ![r] = @ + n]
       /\ cleared' = [cleared EXCEPT ![r][NoStore] = @ + n]
  BY DEF Pay
<1>11. QED
  BY <1>2, <1>5, <1>7, <1>8, <1>9, <1>10

\* The stores are finitely many, and so are the tags.
LEMMA PlacesFinite == IsFiniteSet(Place)
BY SubLedgersAssumption, FS_AddElement DEF Place

\* The journal of a payment has no store.
LEMMA PayCleared ==
  ASSUME IInv, NEW r \in Row, NEW n \in Nat,
         cleared' = [cleared EXCEPT ![r][NoStore] = @ + n]
  PROVE  /\ cleared' \in [Row -> [Place -> Nat]]
         /\ cleared'[r][NoStore] = cleared[r][NoStore] + n
         /\ \A x \in Row, p \in Place :
              ~(x = r /\ p = NoStore) => cleared'[x][p] = cleared[x][p]
<1>1. NoStore \in Place /\ cleared \in [Row -> [Place -> Nat]]
  BY DEF Place, IInv, TypeOK
<1> DEFINE new == [cleared[r] EXCEPT ![NoStore] = cleared[r][NoStore] + n]
<1>2. /\ new \in [Place -> Nat] /\ new[NoStore] = cleared[r][NoStore] + n
      /\ \A p \in Place \ {NoStore} : new[p] = cleared[r][p]
  BY <1>1
<1>3. cleared' = [cleared EXCEPT ![r] = new]
  BY <1>1
<1> HIDE DEF new
<1>4. /\ cleared' \in [Row -> [Place -> Nat]] /\ cleared'[r] = new
      /\ \A x \in Row \ {r} : cleared'[x] = cleared[x]
  BY <1>1, <1>2, <1>3
<1>5. QED
  BY <1>2, <1>4

\* A payment keeps the invariant.
LEMMA PayIInv ==
  ASSUME IInv, NEW w \in Op, Pay(w)
  PROVE  IInv'
<1>0. PICK r, n : r = job[w].row /\ n = job[w].n
  OBVIOUS
<1>1. /\ r \in DOMAIN row /\ r \in Row
      /\ n \in 1 .. row[r].balance
      /\ row[r] \in Record /\ ledger[r] \in Nat
      /\ row' \in [DOMAIN row -> Record]
      /\ \A x \in DOMAIN row \ {r} : row'[x] = row[x]
      /\ row'[r].store = row[r].store /\ row'[r].amount = row[r].amount
      /\ row'[r].paid = row[r].paid + n
      /\ row'[r].balance = row[r].balance - n
      /\ row'[r].status = StatusOf(row[r].balance - n)
      /\ ledger' = [ledger EXCEPT ![r] = @ + n]
      /\ recent' = [recent EXCEPT ![r] = @ + n]
      /\ cleared' = [cleared EXCEPT ![r][NoStore] = @ + n]
  BY <1>0, PayEffect
<1>2. /\ DOMAIN row' = DOMAIN row /\ ledger'[r] = ledger[r] + n
      /\ \A x \in Row \ {r} : ledger'[x] = ledger[x]
      /\ n \in Nat /\ n > 0
      /\ row[r].balance \in Int /\ row[r].paid \in Nat /\ row[r].amount \in Amount
  BY <1>1 DEF IInv, TypeOK, Record
<1>3. \A v \in Op \ {w} : Doing(v, "pay", TRUE) => job[v].row # r
  BY <1>0 DEF IInv, OneHolder, Pay
<1>4. ASSUME NEW v \in Op \ {w}, Doing(v, "pay", TRUE)
      PROVE  row'[job[v].row] = row[job[v].row]
  BY <1>1, <1>3, <1>4 DEF IInv, JobsInPlace, Aimed, Doing
<1>5. Leave(w) /\ UNCHANGED <<booked, crossed, taxVars>>
  BY DEF Pay
<1>6. job' \in [Op -> Request] /\ JobsInPlace' /\ OneHolder'
  BY <1>2, <1>4, <1>5, LeaveStep
<1>7. /\ cleared' \in [Row -> [Place -> Nat]]
       /\ cleared'[r][NoStore] = cleared[r][NoStore] + n
       /\ \A x \in Row, p \in Place :
            ~(x = r /\ p = NoStore) => cleared'[x][p] = cleared[x][p]
  BY <1>1, <1>2, PayCleared
<1>8. TypeOK'
  <2>1. ledger' \in [Row -> Nat]
    BY <1>1, <1>2 DEF IInv, TypeOK
  <2>2. recent' \in [Row -> Nat]
    BY <1>1, <1>2 DEF IInv, TypeOK
  <2>3. QED
    BY <1>1, <1>2, <1>5, <1>6, <1>7, <2>1, <2>2 DEF IInv, TypeOK, taxVars, Leave
<1>9. NothingPaid'
  BY <1>1, <1>2, <1>5, <1>7 DEF IInv, TypeOK, RowsInPlace, NothingPaid
<1>10. RowsMatchPayments'
  <2>1. ASSUME NEW x \in DOMAIN row, x # r
        PROVE  /\ row'[x].balance >= 0
               /\ row'[x].balance + row'[x].paid = row'[x].amount
               /\ row'[x].paid = ledger'[x]
               /\ row'[x].status = IF ledger'[x] = 0 THEN "pending" ELSE StatusOf(row'[x].balance)
    BY <1>1, <1>2, <2>1 DEF IInv, TypeOK, RowsInPlace, RowsMatchPayments
  <2>2. /\ row[r].balance + row[r].paid = row[r].amount
        /\ row[r].paid = ledger[r]
    BY <1>1 DEF IInv, RowsInPlace, RowsMatchPayments
  <2>3. row[r].amount \in Nat
    BY <1>2, SubLedgersAssumption
  <2>4. /\ row'[r].balance >= 0
        /\ row'[r].balance + row'[r].paid = row'[r].amount
        /\ row'[r].paid = ledger'[r]
        /\ ledger'[r] # 0
    BY <1>1, <1>2, <2>2, <2>3
  <2>5. QED
    BY <1>1, <1>2, <2>1, <2>4 DEF RowsMatchPayments
<1>11. JournalsMatch'
  <2>1. ASSUME NEW x \in DOMAIN row, x # r PROVE row'[x].paid = Cleared(x)'
    <3>1. cleared'[x] = cleared[x]
      BY <1>1, <2>1 DEF IInv, TypeOK
    <3>2. QED
      BY <1>1, <2>1, <3>1 DEF IInv, RowsInPlace, JournalsMatch, Cleared
  <2>2. Cleared(r)' = Cleared(r) + n
    <3>1. PICK f, g : f = cleared[r] /\ g = cleared'[r]
      OBVIOUS
    <3>2. \A p \in Place : f[p] \in Int /\ g[p] \in Int
      BY <1>1, <1>7, <3>1 DEF IInv, TypeOK
    <3>3. \A p \in Place \ {NoStore} : g[p] = f[p]
      BY <1>1, <1>7, <3>1
    <3>4. NoStore \in Place /\ g[NoStore] = f[NoStore] + n
      BY <1>7, <3>1 DEF Place
    <3>5. SumFunctionOnSet(g, Place)
            = SumFunctionOnSet(f, Place) + g[NoStore] - f[NoStore]
      BY <3>2, <3>3, <3>4, PlacesFinite, SumChange
    <3>6. SumFunctionOnSet(f, Place) \in Int
      BY <3>2, PlacesFinite, SumType
    <3>7. SumFunctionOnSet(g, Place) = SumFunctionOnSet(f, Place) + n
      BY <1>2, <3>2, <3>4, <3>5, <3>6
    <3>8. QED
      BY <3>1, <3>7 DEF Cleared
  <2>3. row'[r].paid = Cleared(r)'
    BY <1>1, <2>2 DEF IInv, RowsInPlace, JournalsMatch
  <2>4. QED
    BY <1>1, <2>1, <2>3 DEF JournalsMatch
<1>12. \A x \in DOMAIN row : RowExplained(x)'
  <2>1. ASSUME NEW x \in DOMAIN row, x # r PROVE RowExplained(x)'
    <3>1. recent'[x] = recent[x] /\ x \in Row
      BY <1>1, <2>1 DEF IInv, TypeOK
    <3>2. \A p \in Place : cleared'[x][p] = cleared[x][p]
      BY <1>7, <2>1, <3>1
    <3>3. QED
      BY <1>1, <1>5, <2>1, <3>1, <3>2 DEF IInv, RowsInPlace, RowExplained, Place
  <2>2. RowExplained(r)'
    <3>1. recent'[r] = recent[r] + n /\ recent[r] \in Nat
      BY <1>1 DEF IInv, TypeOK
    <3>2. \A s \in Store : cleared'[r][s] = cleared[r][s]
      BY <1>1, <1>7, SubLedgersAssumption DEF Place
    <3>3. row'[r].paid - recent'[r] = row[r].paid - recent[r]
      BY <1>1, <1>2, <3>1
    <3>4. QED
      BY <1>1, <1>5, <3>2, <3>3 DEF IInv, RowsInPlace, RowExplained
  <2>3. QED
    BY <2>1, <2>2
<1>13. TaxRemittedOnce'
  BY <1>5 DEF IInv, TaxRemittedOnce, taxVars
<1>14. QED
  BY <1>2, <1>6, <1>8, <1>9, <1>10, <1>13, <1>11, <1>12 DEF IInv, RowsInPlace

\* A row and its first journal are inserted; requests are about other rows.
LEMMA InsertEffect ==
  ASSUME IInv, NEW r \in Row, NEW s \in Store, NEW n \in Amount, Insert(r, s, n)
  PROVE  /\ r \notin DOMAIN row /\ DOMAIN row' = DOMAIN row \cup {r}
         /\ row' \in [DOMAIN row' -> Record] /\ booked' \in [DOMAIN row' -> Place]
         /\ row'[r] = [store |-> s, amount |-> n, paid |-> 0, balance |-> n,
                       status |-> "pending"]
         /\ \A x \in DOMAIN row : row'[x] = row[x] /\ booked'[x] = booked[x]
         /\ booked'[r] = s
         /\ UNCHANGED <<cleared, ledger, recent, crossed, taxVars, job, ops>>
<1> DEFINE new == [store |-> s, amount |-> n, paid |-> 0, balance |-> n, status |-> "pending"]
<1>1. new \in Record
  BY SubLedgersAssumption DEF Record, Place, Status
<1>2. /\ r \notin DOMAIN row
      /\ row' = [x \in DOMAIN row \cup {r} |-> IF x # r THEN row[x] ELSE new]
      /\ booked' = [x \in DOMAIN row \cup {r} |-> IF x # r THEN booked[x] ELSE s]
      /\ UNCHANGED <<cleared, ledger, recent, crossed, taxVars, job, ops>>
  BY DEF Insert
<1> HIDE DEF new
<1>3. row' \in [DOMAIN row' -> Record] /\ booked' \in [DOMAIN row' -> Place]
  BY <1>1, <1>2 DEF IInv, TypeOK, Place
<1>4. row'[r] = new /\ booked'[r] = s /\ \A x \in DOMAIN row : row'[x] = row[x] /\ booked'[x] = booked[x]
  BY <1>2
<1>5. QED
  BY <1>2, <1>3, <1>4 DEF new

\* A new row owes its whole amount, and nothing was paid for it before.
LEMMA InsertIInv ==
  ASSUME IInv, NEW r \in Row, NEW s \in Store, NEW n \in Amount, Insert(r, s, n)
  PROVE  IInv'
<1>1. /\ r \notin DOMAIN row /\ DOMAIN row' = DOMAIN row \cup {r}
      /\ row' \in [DOMAIN row' -> Record] /\ booked' \in [DOMAIN row' -> Place]
      /\ row'[r] = [store |-> s, amount |-> n, paid |-> 0, balance |-> n,
                    status |-> "pending"]
      /\ \A x \in DOMAIN row : row'[x] = row[x] /\ booked'[x] = booked[x]
      /\ booked'[r] = s
      /\ UNCHANGED <<cleared, ledger, recent, crossed, taxVars, job, ops>>
  BY InsertEffect
<1>2. TypeOK'
  BY <1>1 DEF IInv, TypeOK, taxVars
<1>3. JobsInPlace'
  <2>1. ASSUME NEW w \in Op PROVE Aimed(w)' /\ Fresh(w)' /\ Covered(w)'
    BY <1>1 DEF IInv, JobsInPlace, Aimed, Fresh, Covered, Doing
  <2>2. QED
    BY <2>1 DEF JobsInPlace
<1>4. OneHolder'
  BY <1>1 DEF IInv, OneHolder, Doing
<1>5. NothingPaid'
  BY <1>1 DEF IInv, RowsInPlace, NothingPaid
<1>6. RowsMatchPayments'
  <2>1. ledger'[r] = 0
    BY <1>1 DEF IInv, RowsInPlace, NothingPaid
  <2>2. n \in Nat
    BY SubLedgersAssumption
  <2>3. ASSUME NEW x \in DOMAIN row
        PROVE  /\ row'[x].balance >= 0
               /\ row'[x].balance + row'[x].paid = row'[x].amount
               /\ row'[x].paid = ledger'[x]
               /\ row'[x].status = IF ledger'[x] = 0 THEN "pending" ELSE StatusOf(row'[x].balance)
    BY <1>1, <2>3 DEF IInv, RowsInPlace, RowsMatchPayments
  <2>4. /\ row'[r].balance >= 0
        /\ row'[r].balance + row'[r].paid = row'[r].amount
        /\ row'[r].paid = ledger'[r]
        /\ row'[r].status = "pending"
    BY <1>1, <2>1, <2>2
  <2>5. QED
    BY <1>1, <2>1, <2>3, <2>4 DEF RowsMatchPayments
<1>7. TaxRemittedOnce'
  BY <1>1 DEF IInv, TaxRemittedOnce, taxVars
<1>8. JournalsMatch'
  <2>1. ASSUME NEW x \in DOMAIN row PROVE row'[x].paid = Cleared(x)'
    BY <1>1, <2>1 DEF IInv, RowsInPlace, JournalsMatch, Cleared
  <2>2. Cleared(r)' = 0
    <3>1. PICK f : f = cleared'[r]
      OBVIOUS
    <3>2. \A p \in Place : f[p] = 0
      BY <1>1, <3>1 DEF IInv, RowsInPlace, NothingPaid
    <3>3. SumFunctionOnSet(f, Place) = 0
      BY <3>2, PlacesFinite, SumZero
    <3>4. QED
      BY <3>1, <3>3 DEF Cleared
  <2>3. QED
    BY <1>1, <2>1, <2>2 DEF JournalsMatch
<1>9. ASSUME NEW x \in DOMAIN row' PROVE RowExplained(x)'
  <2>1. CASE x = r
    BY <1>1, <2>1 DEF IInv, RowsInPlace, NothingPaid, RowExplained, Place
  <2>2. CASE x # r
    BY <1>1, <2>2 DEF IInv, RowsInPlace, RowExplained
  <2>3. QED
    BY <2>1, <2>2
<1>10. QED
  BY <1>2, <1>3, <1>4, <1>5, <1>6, <1>7, <1>8, <1>9 DEF IInv, RowsInPlace

\* A move changes the store of a row, and nothing of what it owes.
LEMMA MoveEffect ==
  ASSUME IInv, NEW w \in Op, Move(w)
  PROVE  /\ row' \in [DOMAIN row -> Record] /\ booked' \in [DOMAIN row -> Place]
         /\ recent' \in [Row -> Nat] /\ crossed' \subseteq Row
         /\ \A x \in DOMAIN row :
              /\ row'[x].amount = row[x].amount /\ row'[x].paid = row[x].paid
              /\ row'[x].balance = row[x].balance /\ row'[x].status = row[x].status
         /\ Leave(w) /\ UNCHANGED <<ledger, taxVars>>
<1> DEFINE r == job[w].row  p == job[w].store  same == p = job[w].from
<1>1. r \in DOMAIN row /\ r \in Row /\ p \in Place /\ row[r] \in Record
  BY DEF Move, Doing, IInv, TypeOK, Request, JobsInPlace, Aimed
<1>2. row' = row \/ row' = [row EXCEPT ![r].store = p]
  BY DEF Move
<1>3. booked' = booked \/ booked' = [booked EXCEPT ![r] = p]
  BY DEF Move, Retag
<1>4. /\ row' \in [DOMAIN row -> Record]
      /\ \A x \in DOMAIN row :
           /\ row'[x].amount = row[x].amount /\ row'[x].paid = row[x].paid
           /\ row'[x].balance = row[x].balance /\ row'[x].status = row[x].status
  <2>1. CASE row' = row
    BY <2>1 DEF IInv, TypeOK
  <2>2. CASE row' = [row EXCEPT ![r].store = p]
    <3> DEFINE new == [row[r] EXCEPT !.store = p]
    <3>1. /\ new \in Record
          /\ new.amount = row[r].amount /\ new.paid = row[r].paid
          /\ new.balance = row[r].balance /\ new.status = row[r].status
      BY <1>1 DEF Record
    <3>2. row' = [row EXCEPT ![r] = new]
      BY <2>2
    <3> HIDE DEF new
    <3>3. QED
      BY <1>1, <3>1, <3>2 DEF IInv, TypeOK
  <2>3. QED
    BY <1>2, <2>1, <2>2
<1>5. booked' \in [DOMAIN row -> Place]
  BY <1>1, <1>3 DEF IInv, TypeOK
<1>6. recent' = [recent EXCEPT ![r] = 0]
      /\ (crossed' = crossed \cup {r} \/ crossed' = crossed \ {r})
      /\ Leave(w) /\ UNCHANGED <<ledger, taxVars>>
  BY DEF Move
<1>7. QED
  BY <1>1, <1>4, <1>5, <1>6 DEF IInv, TypeOK

\* A move tags the row and its journals with the store it names, unless it
\* found the row there and another move took it away since.
LEMMA MoveTags ==
  ASSUME IInv, NEW w \in Op, Move(w)
  PROVE  LET r == job[w].row  p == job[w].store IN
         /\ r \in DOMAIN row /\ r \in Row /\ p \in Place
         /\ cleared' \in [Row -> [Place -> Nat]]
         /\ \A x \in Place : cleared'[r][x] = IF x = p THEN row[r].paid ELSE 0
         /\ recent'[r] = 0
         /\ r \notin Sale => booked'[r] = p
         /\ r \notin crossed' => row'[r].store = p
         /\ \A x \in DOMAIN row \ {r} :
              row'[x] = row[x] /\ booked'[x] = booked[x] /\ (x \in crossed' <=> x \in crossed)
         /\ \A x \in Row \ {r} :
              cleared'[x] = cleared[x] /\ recent'[x] = recent[x]
              /\ (x \in crossed' <=> x \in crossed)
<1> DEFINE r == job[w].row  p == job[w].store
<1>1. /\ r \in DOMAIN row /\ r \in Row /\ p \in Place
      /\ row \in [DOMAIN row -> Record] /\ row[r] \in Record
  BY DEF Move, Doing, IInv, TypeOK, Request, JobsInPlace, Aimed
<1>2. /\ recent' = [recent EXCEPT ![r] = 0]
      /\ cleared' = [cleared EXCEPT ![r] = Gathered(r, p)]
      /\ booked' = IF r \in Sale THEN booked ELSE [booked EXCEPT ![r] = p]
      /\ \/ p = job[w].from /\ row' = row
            /\ crossed' = IF row[r].store # p THEN crossed \cup {r} ELSE crossed \ {r}
         \/ row' = [row EXCEPT ![r].store = p] /\ crossed' = crossed \ {r}
  BY DEF Move, Retag
<1>3. row[r].paid \in Nat /\ SumFunctionOnSet(cleared[r], Place) = row[r].paid
  BY <1>1 DEF IInv, RowsInPlace, JournalsMatch, Cleared, Record
<1>4. PICK g : g = Gathered(r, p)
  OBVIOUS
<1>5. g \in [Place -> Nat] /\ \A x \in Place : g[x] = IF x = p THEN row[r].paid ELSE 0
  BY <1>3, <1>4 DEF Gathered
<1>6. /\ cleared' \in [Row -> [Place -> Nat]] /\ cleared'[r] = g
      /\ \A x \in Row \ {r} : cleared'[x] = cleared[x]
  BY <1>1, <1>2, <1>4, <1>5 DEF IInv, TypeOK
<1>7. recent'[r] = 0 /\ \A x \in Row \ {r} : recent'[x] = recent[x]
  BY <1>1, <1>2 DEF IInv, TypeOK
<1>8. /\ r \notin Sale => booked'[r] = p
      /\ \A x \in DOMAIN row \ {r} : booked'[x] = booked[x]
  BY <1>1, <1>2 DEF IInv, TypeOK
<1>9. /\ r \notin crossed' => row'[r].store = p
      /\ \A x \in DOMAIN row \ {r} : row'[x] = row[x]
      /\ \A x \in Row \ {r} : x \in crossed' <=> x \in crossed
  <2>1. CASE row' = row /\ crossed' = IF row[r].store # p THEN crossed \cup {r} ELSE crossed \ {r}
    BY <2>1
  <2>2. CASE row' = [row EXCEPT ![r].store = p] /\ crossed' = crossed \ {r}
    <3>1. row'[r].store = p
      BY <1>1, <2>2 DEF Record
    <3>2. QED
      BY <1>1, <2>2, <3>1
  <2>3. QED
    BY <1>2, <2>1, <2>2
<1>10. DOMAIN row \subseteq Row
  BY DEF IInv, TypeOK
<1>11. QED
  BY <1>1, <1>5, <1>6, <1>7, <1>8, <1>9, <1>10

\* A move keeps the invariant.
LEMMA MoveIInv ==
  ASSUME IInv, NEW w \in Op, Move(w)
  PROVE  IInv'
<1>1. /\ row' \in [DOMAIN row -> Record] /\ booked' \in [DOMAIN row -> Place]
      /\ recent' \in [Row -> Nat] /\ crossed' \subseteq Row
      /\ \A x \in DOMAIN row :
           /\ row'[x].amount = row[x].amount /\ row'[x].paid = row[x].paid
           /\ row'[x].balance = row[x].balance /\ row'[x].status = row[x].status
      /\ Leave(w) /\ UNCHANGED <<ledger, taxVars>>
  BY MoveEffect
<1>2. DOMAIN row' = DOMAIN row
  BY <1>1
<1>3. ASSUME NEW v \in Op \ {w}, Doing(v, "pay", TRUE)
      PROVE  job[v].row \in DOMAIN row
  BY <1>3 DEF IInv, JobsInPlace, Aimed, Doing
<1>4. job' \in [Op -> Request] /\ JobsInPlace' /\ OneHolder'
  BY <1>1, <1>2, <1>3, LeaveStep
<1>0. PICK r, p : r = job[w].row /\ p = job[w].store
  OBVIOUS
<1>5. /\ r \in DOMAIN row /\ r \in Row /\ p \in Place
      /\ cleared' \in [Row -> [Place -> Nat]]
      /\ \A x \in Place : cleared'[r][x] = IF x = p THEN row[r].paid ELSE 0
      /\ recent'[r] = 0
      /\ r \notin Sale => booked'[r] = p
      /\ r \notin crossed' => row'[r].store = p
      /\ \A x \in DOMAIN row \ {r} :
           row'[x] = row[x] /\ booked'[x] = booked[x] /\ (x \in crossed' <=> x \in crossed)
      /\ \A x \in Row \ {r} :
           cleared'[x] = cleared[x] /\ recent'[x] = recent[x]
           /\ (x \in crossed' <=> x \in crossed)
  BY <1>0, MoveTags
<1>6. TypeOK'
  BY <1>1, <1>2, <1>4, <1>5 DEF IInv, TypeOK, taxVars, Leave
<1>7. NothingPaid'
  BY <1>1, <1>2, <1>5 DEF IInv, RowsInPlace, NothingPaid
<1>8. RowsMatchPayments'
  BY <1>1, <1>2 DEF IInv, RowsInPlace, RowsMatchPayments
<1>9. JournalsMatch'
  <2>1. ASSUME NEW x \in DOMAIN row, x # r PROVE row'[x].paid = Cleared(x)'
    <3>1. cleared'[x] = cleared[x]
      BY <1>5, <2>1 DEF IInv, TypeOK
    <3>2. QED
      BY <1>1, <2>1, <3>1 DEF IInv, RowsInPlace, JournalsMatch, Cleared
  <2>2. row'[r].paid = Cleared(r)'
    <3>1. PICK g, q, n : g = cleared'[r] /\ q = p /\ n = row[r].paid
      OBVIOUS
    <3>2. q \in Place /\ \A x \in Place : g[x] = IF x = q THEN n ELSE 0
      BY <1>5, <3>1
    <3>3. n \in Nat
      BY <1>5, <3>1 DEF IInv, TypeOK, Record
    <3>4. /\ \A x \in {q} : g[x] \in Int /\ g[x] = g[x]
          /\ \A x \in Place \ {q} : g[x] = 0
      BY <3>2, <3>3
    <3>5. {q} \in SUBSET Place
      BY <3>2
    <3>6. SumFunctionOnSet(g, Place) = SumFunctionOnSet(g, {q})
      BY <3>4, <3>5, PlacesFinite, SumOver
    <3>7. SumFunctionOnSet(g, {q}) = n
      BY <3>2, <3>4, SumOne
    <3>8. QED
      BY <1>1, <1>5, <3>1, <3>6, <3>7 DEF Cleared
  <2>3. QED
    BY <1>2, <2>1, <2>2 DEF JournalsMatch
<1>10. \A x \in DOMAIN row : RowExplained(x)'
  <2>1. ASSUME NEW x \in DOMAIN row, x # r PROVE RowExplained(x)'
    <3>1. x \in Row
      BY DEF IInv, TypeOK
    <3>2. QED
      BY <1>1, <1>5, <2>1, <3>1 DEF IInv, RowsInPlace, RowExplained
  <2>2. RowExplained(r)'
    <3>1. row'[r].paid = row[r].paid /\ row[r].paid \in Nat
      BY <1>1, <1>5 DEF IInv, TypeOK, Record
    <3>2. row[r].paid - recent'[r] = row[r].paid
      BY <1>5, <3>1
    <3>3. QED
      BY <1>5, <3>1, <3>2 DEF RowExplained, Place
  <2>3. QED
    BY <2>1, <2>2
<1>11. TaxRemittedOnce'
  BY <1>1 DEF IInv, TaxRemittedOnce, taxVars
<1>12. QED
  BY <1>2, <1>4, <1>6, <1>7, <1>8, <1>9, <1>10, <1>11 DEF IInv, RowsInPlace

\* Tax is collected, or reversed up to what was collected: a store still has
\* remitted no more than it collected.
LEMMA TaxIInv ==
  ASSUME IInv, NEW s \in Store, Collect(s) \/ Reverse(s)
  PROVE  IInv'
<1>1. /\ UNCHANGED <<rowVars, remitted, rushed, job, ops>>
      /\ collected' \in [Store -> Nat] /\ reversed' \in [Store -> Nat]
      /\ \A x \in Store : collected'[x] >= collected[x]
  <2>1. collected \in [Store -> Nat] /\ reversed \in [Store -> Nat]
    BY DEF IInv, TypeOK
  <2>2. QED
    BY <2>1 DEF Collect, Reverse
<1>2. TypeOK'
  BY <1>1 DEF IInv, TypeOK, rowVars
<1>3. JobsInPlace' /\ OneHolder'
  BY <1>1 DEF IInv, JobsInPlace, Aimed, Fresh, Covered, OneHolder, Doing, rowVars
<1>4. RowsInPlace'
  BY <1>1, RowsStay DEF IInv
<1>5. TaxRemittedOnce'
  BY <1>1 DEF IInv, TypeOK, TaxRemittedOnce
<1>6. QED
  BY <1>2, <1>3, <1>4, <1>5 DEF IInv

\* A remittance: its sum is still true, or its store is marked as rushed.
LEMMA RemitIInv ==
  ASSUME IInv, NEW w \in Op, Remit(w)
  PROVE  IInv'
<1> DEFINE s == job[w].store  n == job[w].n
<1>1. s \in Store /\ n \in Nat /\ job[w].owed \in Int /\ n <= job[w].owed
  BY DEF Remit, Doing, IInv, TypeOK, Request, JobsInPlace, Aimed, Covered
<1>2. /\ remitted' = [remitted EXCEPT ![s] = @ + n]
      /\ rushed' = IF job[w].owed # Owed(s) THEN rushed \cup {s} ELSE rushed
      /\ Leave(w) /\ UNCHANGED <<rowVars, collected, reversed>>
  BY DEF Remit
<1>3. /\ collected[s] \in Nat /\ reversed[s] \in Nat /\ remitted[s] \in Nat
      /\ Owed(s) = collected[s] - reversed[s] - remitted[s]
  BY <1>1, OwedType DEF Owed
<1>4. job' \in [Op -> Request] /\ JobsInPlace' /\ OneHolder'
  BY <1>2, LeaveStep DEF rowVars
<1>5. remitted' \in [Store -> Nat] /\ rushed' \subseteq Store
  BY <1>1, <1>2, <1>3 DEF IInv, TypeOK
<1>6. TypeOK'
  BY <1>2, <1>4, <1>5 DEF IInv, TypeOK, rowVars, Leave
<1>7. RowsInPlace'
  BY <1>2, RowsStay DEF IInv
<1>8. TaxRemittedOnce'
  <2>1. ASSUME NEW x \in Store \ rushed', x # s PROVE remitted'[x] <= collected'[x]
    BY <1>1, <1>2, <2>1 DEF IInv, TypeOK, TaxRemittedOnce
  <2>2. ASSUME s \notin rushed' PROVE remitted'[s] <= collected'[s]
    <3>1. job[w].owed = Owed(s)
      BY <1>2, <2>2
    <3>2. remitted'[s] = remitted[s] + n /\ collected' = collected
      BY <1>1, <1>2 DEF IInv, TypeOK
    <3>3. QED
      BY <1>1, <1>3, <3>1, <3>2
  <2>3. QED
    BY <2>1, <2>2 DEF TaxRemittedOnce
<1>9. QED
  BY <1>4, <1>6, <1>7, <1>8 DEF IInv

\* No step of the program breaks the invariant.
LEMMA NextIInv == IInv /\ [Next]_vars => IInv'
<1> SUFFICES ASSUME IInv, [Next]_vars PROVE IInv'
  OBVIOUS
<1>1. CASE Create
  BY <1>1, InsertIInv DEF Create
<1>2. CASE Spend
  BY <1>2, InsertIInv, SubLedgersAssumption DEF Spend
<1>3. CASE SellDue
  BY <1>3, InsertIInv, SubLedgersAssumption DEF SellDue
<1>4. ASSUME NEW w \in Op,
             \/ Start(w) \/ Abort(w)
             \/ LockRow(w) \/ Pay(w)
             \/ ReadRow(w) \/ Move(w)
             \/ ReadOwed(w) \/ Remit(w)
      PROVE  IInv'
  BY <1>4, BeginIInv, AbortIInv, LockRowIInv, PayIInv, ReadRowIInv, MoveIInv,
     ReadOwedIInv, RemitIInv
<1>5. ASSUME NEW s \in Store, Collect(s) \/ Reverse(s) PROVE IInv'
  BY <1>5, TaxIInv
<1>6. CASE UNCHANGED vars
  <2>1. RowsInPlace'
    BY <1>6, RowsStay DEF vars, rowVars, IInv
  <2>2. QED
    BY <1>6, <2>1 DEF vars, IInv, TypeOK, JobsInPlace, Aimed, Fresh, Covered, OneHolder,
                      Doing, TaxRemittedOnce
<1>7. QED
  BY <1>1, <1>2, <1>3, <1>4, <1>5, <1>6 DEF Next

\* The inductive invariant holds in every reachable state.
THEOREM InvariantHolds == Spec => []IInv
<1>1. Init => IInv
  BY InitIInv
<1>2. IInv /\ [Next]_vars => IInv'
  BY NextIInv
<1>3. QED
  BY <1>1, <1>2, PTL DEF Spec

\* The rows, their payments and the requests have the values the database and
\* the handlers can give them.
THEOREM TypeCorrect == Spec => []TypeOK
BY InvariantHolds, PTL DEF IInv

\* However payments overlap with each other and with moves, no row is paid beyond
\* its amount, and what a row says was paid is what its payments add up to.
THEOREM RowsMatchPaymentsHolds == Spec => []RowsMatchPayments
BY InvariantHolds, PTL DEF IInv, RowsInPlace

\* And the journals of its payments add up to the same, however often the row
\* was moved: the control account of the business is its sub-ledger.
THEOREM RowsMatchLedgerHolds == Spec => []RowsMatchLedger
BY InvariantHolds, PTL DEF IInv, RowsInPlace, RowsMatchLedger

\* Unless two postings overlapped, no store remits more tax than it collected,
\* for every number of stores and requests.
THEOREM TaxRemittedOnceHolds == Spec => []TaxRemittedOnce
BY InvariantHolds, PTL DEF IInv

\* Row by row, what a store's control account has of the row is what the row
\* still owes and what was paid for it without a store; so it is in the sum.
LEMMA StoreSums ==
  ASSUME IInv, NEW s \in Store
  PROVE  Control(s, Tagged) = SubLedger(s, Tagged)
           + SumFunctionOnSet(recent, {r \in Tagged : row[r].store = s})
<1> DEFINE T == Tagged
           H == {r \in T : row[r].store = s}
           a == [r \in T |-> row[r].amount]
           b == [r \in T |-> row[r].balance]
           c == [r \in T |-> cleared[r][s]]
           d == [r \in T |-> row[r].balance + recent[r]]
<1>1. ASSUME NEW r \in T
      PROVE  /\ r \in DOMAIN row /\ r \in Row /\ row[r] \in Record
             /\ recent[r] \in Nat /\ cleared[r][s] \in Nat
             /\ booked[r] = row[r].store
             /\ cleared[r][s] = IF s = row[r].store THEN row[r].paid - recent[r] ELSE 0
             /\ row[r].balance + row[r].paid = row[r].amount
  BY DEF IInv, TypeOK, Tagged, Place, RowsInPlace, RowExplained, RowsMatchPayments
<1>2. IsFiniteSet(T) /\ IsFiniteSet(H) /\ H \in SUBSET T
  BY <1>1, SubLedgersAssumption, FS_Subset
<1>3. \A r \in T :
        /\ a[r] \in Int /\ b[r] \in Int /\ c[r] \in Int /\ d[r] \in Int /\ recent[r] \in Int
        /\ d[r] = b[r] + recent[r]
  BY <1>1, SubLedgersAssumption DEF Record
<1>4. \A r \in H : a[r] = d[r] + c[r]
  BY <1>1 DEF Record
<1>5. \A r \in T \ H : c[r] = 0
  BY <1>1
<1>6. {r \in T : booked[r] = s} = H
  BY <1>1
<1>7. Control(s, Tagged) = SumFunctionOnSet(a, H) - SumFunctionOnSet(c, T)
  BY <1>6 DEF Control
<1>8. SubLedger(s, Tagged) = SumFunctionOnSet(b, H)
  BY DEF SubLedger
<1> HIDE DEF T, H, a, b, c, d
<1>9. SumFunctionOnSet(c, T) = SumFunctionOnSet(c, H)
  BY <1>2, <1>3, <1>5, SumOver
<1>10. SumFunctionOnSet(d, H) = SumFunctionOnSet(b, H) + SumFunctionOnSet(recent, H)
  BY <1>2, <1>3, SumPlus
<1>11. SumFunctionOnSet(a, H) = SumFunctionOnSet(d, H) + SumFunctionOnSet(c, H)
  BY <1>2, <1>3, <1>4, SumPlus
<1>12. SumFunctionOnSet(c, H) \in Int /\ SumFunctionOnSet(d, H) \in Int
  BY <1>2, <1>3, SumType
<1>13. Control(s, Tagged) = SubLedger(s, Tagged) + SumFunctionOnSet(recent, H)
  BY <1>7, <1>8, <1>9, <1>10, <1>11, <1>12
<1>14. QED
  BY <1>13 DEF T, H

\* The invariant explains the figures of every store.
LEMMA StoreFigures == IInv => StoreExplained
<1>1. ASSUME IInv, NEW r \in DOMAIN row \cap Expense, r \notin crossed
      PROVE  booked[r] = row[r].store
  BY <1>1, SubLedgersAssumption DEF IInv, RowsInPlace, RowExplained
<1>2. QED
  BY <1>1, StoreSums DEF StoreExplained

\* However payments, moves and retagging interleave, and for any number of rows:
\* unless two moves of a row crossed or the row of a sale was moved, a store's
\* control account is its sub-ledger and what was paid without a store.
THEOREM StoreExplainedHolds == Spec => []StoreExplained
BY InvariantHolds, StoreFigures, PTL

-----------------------------------------------------------------------------
(* The implementation of Debts.                                            *)

\* Before there are rows there are no debts.
LEMMA InitDebts == Init => Account!Init
BY DEF Init, Empty, OnCredit, Account!Init, Account!Empty

\* A new row on credit is a debt raised; an expense is nothing to Debts.
LEMMA InsertDebts ==
  ASSUME IInv, NEW r \in Row, NEW s \in Store, NEW n \in Amount, Insert(r, s, n)
  PROVE  [Account!Next]_Account!vars
<1>1. /\ r \notin DOMAIN row /\ DOMAIN row' = DOMAIN row \cup {r}
      /\ row'[r].balance = n
      /\ \A x \in DOMAIN row : row'[x] = row[x]
      /\ ledger' = ledger /\ ledger[r] = 0
  <2>1. /\ r \notin DOMAIN row /\ DOMAIN row' = DOMAIN row \cup {r}
        /\ row'[r] = [store |-> s, amount |-> n, paid |-> 0, balance |-> n,
                      status |-> "pending"]
        /\ \A x \in DOMAIN row : row'[x] = row[x] /\ booked'[x] = booked[x]
        /\ ledger' = ledger
    BY InsertEffect
  <2>2. ledger[r] = 0
    BY <2>1 DEF IInv, RowsInPlace, NothingPaid
  <2>3. QED
    BY <2>1, <2>2
<1>2. CASE r \in Expense
  <2>1. OnCredit' = OnCredit
    BY <1>1, <1>2 DEF OnCredit
  <2>2. /\ [x \in OnCredit |-> row[x].balance]' = [x \in OnCredit |-> row[x].balance]
        /\ [x \in OnCredit |-> ledger[x]]' = [x \in OnCredit |-> ledger[x]]
    BY <1>1, <2>1 DEF OnCredit
  <2>3. QED
    BY <2>2 DEF Account!vars
<1>3. CASE r \notin Expense
  <2>1. OnCredit' = OnCredit \cup {r} /\ r \notin OnCredit
    BY <1>1, <1>3 DEF OnCredit
  <2>2. Account!Raise(r, n)
    BY <1>1, <2>1 DEF OnCredit, Account!Raise, Account!With
  <2>3. QED
    BY <1>3, <2>2 DEF Account!Next
<1>4. QED
  BY <1>2, <1>3

\* A payment takes no more than what is left, and is recorded in the same step.
LEMMA PayDebts ==
  ASSUME IInv, NEW w \in Op, Pay(w)
  PROVE  [Account!Next]_Account!vars
<1> DEFINE r == job[w].row  n == job[w].n
<1>1. /\ r \in DOMAIN row /\ r \in Row \ Expense
      /\ n \in 1 .. row[r].balance
      /\ row' \in [DOMAIN row -> Record]
      /\ \A x \in DOMAIN row \ {r} : row'[x] = row[x]
      /\ row'[r].balance = row[r].balance - n
      /\ ledger' = [ledger EXCEPT ![r] = @ + n]
  BY PayEffect
<1>2. OnCredit' = OnCredit /\ r \in OnCredit /\ OnCredit \subseteq Row
  BY <1>1 DEF OnCredit, IInv, TypeOK
<1>3. /\ ledger'[r] = ledger[r] + n
      /\ \A x \in Row \ {r} : ledger'[x] = ledger[x]
  BY <1>1 DEF IInv, TypeOK
<1>4. PICK d \in OnCredit, m \in Nat : d = r /\ m = n /\ m \in 1 .. row[d].balance
  BY <1>1, <1>2
<1>5. Account!Take(d, m)
  BY <1>1, <1>2, <1>3, <1>4 DEF OnCredit, Account!Take
<1>6. QED
  BY ZenonT(60), <1>4, <1>5 DEF Account!Next, Account!Take

\* Every other step leaves what is owed and what was paid as it was.
LEMMA StutterDebts ==
  ASSUME DOMAIN row' = DOMAIN row,
         \A x \in DOMAIN row : row'[x].balance = row[x].balance,
         ledger' = ledger
  PROVE  [Account!Next]_Account!vars
<1>1. OnCredit' = OnCredit
  BY DEF OnCredit
<1>2. /\ [x \in OnCredit |-> row[x].balance]' = [x \in OnCredit |-> row[x].balance]
      /\ [x \in OnCredit |-> ledger[x]]' = [x \in OnCredit |-> ledger[x]]
  BY <1>1 DEF OnCredit
<1>3. QED
  BY <1>2 DEF Account!vars

\* Every step is a step of Debts, or none to it.
LEMMA NextDebts == IInv /\ [Next]_vars => [Account!Next]_Account!vars
<1> SUFFICES ASSUME IInv, [Next]_vars PROVE [Account!Next]_Account!vars
  OBVIOUS
<1>1. CASE Create \/ Spend \/ SellDue
  BY <1>1, InsertDebts, SubLedgersAssumption DEF Create, Spend, SellDue
<1>2. ASSUME NEW w \in Op, Pay(w) PROVE [Account!Next]_Account!vars
  BY <1>2, PayDebts
<1>3. ASSUME NEW w \in Op, Move(w) PROVE [Account!Next]_Account!vars
  <2>1. /\ row' \in [DOMAIN row -> Record] /\ ledger' = ledger
        /\ \A x \in DOMAIN row : row'[x].balance = row[x].balance
    BY <1>3, MoveEffect
  <2>2. DOMAIN row' = DOMAIN row
    BY <2>1
  <2>3. QED
    BY <2>1, <2>2, StutterDebts
<1>4. ASSUME UNCHANGED <<row, ledger>> PROVE [Account!Next]_Account!vars
  BY <1>4, StutterDebts
<1>5. ASSUME NEW w \in Op,
             Start(w) \/ Abort(w) \/ LockRow(w) \/ ReadRow(w) \/ ReadOwed(w) \/ Remit(w)
      PROVE  UNCHANGED <<row, ledger>>
  BY <1>5 DEF Start, Begin, Abort, LockRow, ReadRow, ReadOwed, Remit, rowVars
<1>6. ASSUME NEW s \in Store, Collect(s) \/ Reverse(s) PROVE UNCHANGED <<row, ledger>>
  BY <1>6 DEF Collect, Reverse, rowVars
<1>7. CASE UNCHANGED vars
  BY <1>4, <1>7 DEF vars
<1>8. QED
  BY <1>1, <1>2, <1>3, <1>4, <1>5, <1>6, <1>7 DEF Next

\* Whatever requests overlap, receivables and payables are paid off as Debts
\* says.
THEOREM DebtsImplemented == Spec => ImplementsDebts
<1>1. Init => Account!Init
  BY InitDebts
<1>2. IInv /\ [Next]_vars => [Account!Next]_Account!vars
  BY NextDebts
<1>3. QED
  BY <1>1, <1>2, InvariantHolds, PTL DEF Spec, ImplementsDebts, Account!Spec

=============================================================================
