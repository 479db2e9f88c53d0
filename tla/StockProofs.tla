----------------------------- MODULE StockProofs -----------------------------
(***************************************************************************)
(* Proofs about Stock, for any number of sessions and operations, any lots *)
(* and any supply.                                                         *)
(*                                                                         *)
(* A session knows what it has read: as long as nobody has written over    *)
(* it, the balances and documents that its kind of operation has to read   *)
(* and that are no longer on its list are the current ones (Knows). A      *)
(* commit that does not race therefore writes the sum of the current       *)
(* balance and its units, and each operation moves as many units out of    *)
(* one account as into another. For the same reason it is a step of        *)
(* Inventory, whose operations read nothing beforehand; that a sale's      *)
(* stock is never deducted twice over is an invariant of its own           *)
(* (DeductsOwed).                                                          *)
(***************************************************************************)
EXTENDS Stock, SumTheorems, SequenceTheorems

\* What an operation of kind k, from s to t, reads before it commits.
Reads(k, s, t, x) ==
  \/ k \in {"adjust", "transfer", "sell", "deduct", "restock"} /\ x = s
  \/ k = "transfer" /\ x = t
  \/ k \in {"approve", "reject", "fulfil"} /\ x = "request"
  \/ k \in {"receive", "cancel"} /\ x = "distribution"
  \/ k \in {"approve", "fulfil", "dispatch", "cancel"} /\ x = Warehouse
  \/ k \in {"fulfil", "receive"} /\ x = Shop

MustRead(w, x) == Reads(job[w].kind, job[w].src, job[w].dst, x)

Waiting(w) == {todo[w][i] : i \in DOMAIN todo[w]}

Current(w, x) ==
  /\ x = "request" => heard[w].request = request
  /\ x = "distribution" => heard[w].distribution = dist
  /\ x \in Store => read[w][x] = bal[x] /\ Len(bal[x]) <= 1

\* What has been read is marked as seen, and current unless it was overwritten.
Knows(w) == \A x \in Store \cup Doc : MustRead(w, x) =>
  x \in Waiting(w) \/ (x \in seen[w] /\ (~stale[w] => Current(w, x)))

\* A sale that has checked the stock still finds its units there.
Checked(w) == job[w].kind = "sell" =>
  \/ "check" \in Waiting(w)
  \/ job[w].src \in seen[w] /\ (~stale[w] => job[w].n <= Units(job[w].src))

\* A transfer has two stores; a sale's stock is deducted later only for a sale
\* without a check; goods are brought back once.
Sensible(w) ==
  /\ job[w].kind = "transfer" => job[w].src # job[w].dst
  /\ job[w].kind = "deduct" => unasked
  /\ job[w].kind = "restock" =>
       /\ job[w].n <= sold[job[w].src]
       /\ \A v \in Op : job[v].kind = "restock" /\ job[v].src = job[w].src => v = w

\* Every row, and every row that was read.
Quantities == bal \in [Store -> Seq(Nat)] /\ read \in [Op -> [Store -> Seq(Nat)]]

IInv ==
  /\ TypeOK /\ Quantities
  /\ \A w \in Op : Knows(w) /\ Checked(w) /\ Sensible(w)
  /\ UnitsConserved /\ BalanceExplained

Job   == [kind : Kind, src : Store, dst : Store, n : 0 .. MaxQty]
Thing == Store \cup Doc \cup {"check"}
Memo  == [request : Request, distribution : Dist]

-----------------------------------------------------------------------------
(* The rows of a store.                                                    *)

\* The sum of a sequence of quantities is a quantity; of one row, that row's.
LEMMA TallyIs ==
  ASSUME NEW q \in Seq(Nat)
  PROVE  /\ Tally(q) \in Nat
         /\ q = <<>> => Tally(q) = 0
         /\ Len(q) = 1 => Tally(q) = q[1]
<1>1. DOMAIN q = 1 .. Len(q) /\ Len(q) \in Nat /\ \A i \in DOMAIN q : q[i] \in Nat
  OBVIOUS
<1>2. PICK D : D = DOMAIN q
  OBVIOUS
<1>3. IsFiniteSet(D) /\ \A i \in D : q[i] \in Nat
  BY <1>1, <1>2, FS_Interval
<1>4. SumFunctionOnSet(q, D) \in Nat
  BY <1>3, SumNat
<1>5. q = <<>> => SumFunctionOnSet(q, D) = 0
  <2>1. q = <<>> => D = {}
    BY <1>1, <1>2
  <2>2. QED
    BY <2>1, SumEmpty
<1>6. Len(q) = 1 => SumFunctionOnSet(q, D) = q[1]
  <2>1. Len(q) = 1 => D = {1} /\ q[1] \in Int
    BY <1>1, <1>2
  <2>2. QED
    BY <2>1, SumOne
<1>7. QED
  BY <1>2, <1>4, <1>5, <1>6 DEF Tally

\* A store that has rows, one at most, has one.
LEMMA OneRow ==
  ASSUME NEW q \in Seq(Nat), q # <<>>, Len(q) <= 1
  PROVE  Len(q) = 1
<1>1. Len(q) \in Nat /\ Len(q) # 0
  BY EmptySeq
<1>2. PICK n : n = Len(q)
  OBVIOUS
<1>3. n \in Nat /\ n # 0 /\ n <= 1
  BY <1>1, <1>2
<1>4. n = 1
  BY <1>3
<1>5. QED
  BY <1>2, <1>4

\* A store's units are a quantity, and with one row at most what is read of it.
LEMMA UnitsAre ==
  ASSUME TypeOK, Quantities, NEW s \in Store
  PROVE  /\ Units(s) \in Nat
         /\ \A w \in Op : read[w][s] = bal[s] /\ Len(bal[s]) <= 1 => Held(w, s) = Units(s)
<1>1. bal[s] \in Seq(Nat)
  BY DEF Quantities
<1>2. Units(s) \in Nat /\ (bal[s] = <<>> => Units(s) = 0)
        /\ (Len(bal[s]) = 1 => Units(s) = bal[s][1])
  BY <1>1, TallyIs DEF Units
<1>3. Len(bal[s]) <= 1 => bal[s] = <<>> \/ (Len(bal[s]) = 1 /\ bal[s] # <<>>)
  <2>1. PICK b : b = bal[s]
    OBVIOUS
  <2>2. b \in Seq(Nat) /\ Len(b) \in Nat /\ (Len(b) = 0 <=> b = <<>>)
    BY <1>1, <2>1, EmptySeq
  <2>3. Len(b) <= 1 => Len(b) = 0 \/ Len(b) = 1
    BY SMTT(30), <2>2
  <2>4. Len(b) <= 1 => b = <<>> \/ (Len(b) = 1 /\ b # <<>>)
    BY <2>2, <2>3
  <2>5. QED
    BY <2>1, <2>4
<1>4. QED
  BY <1>2, <1>3 DEF Held

\* What is read of a store is a quantity.
LEMMA HeldType ==
  ASSUME Quantities, NEW w \in Op, NEW s \in Store
  PROVE  Held(w, s) \in Nat
<1>1. read[w][s] \in Seq(Nat)
  BY DEF Quantities
<1>2. read[w][s] # <<>> => read[w][s][1] \in Nat
  BY <1>1
<1>3. QED
  BY <1>2 DEF Held

\* Writing a quantity into the row that was read.
LEMMA OverwriteGives ==
  ASSUME Quantities, NEW w \in Op, NEW s \in Store, NEW q \in Nat
  PROVE  /\ Overwrite(w, s, q) \in Seq(Nat)
         /\ read[w][s] = bal[s] /\ Len(bal[s]) = 1
              => Len(Overwrite(w, s, q)) = 1 /\ Tally(Overwrite(w, s, q)) = q
<1>1. PICK b : b = bal[s]
  OBVIOUS
<1>2. b \in Seq(Nat) /\ Len(b) \in Nat
  BY <1>1 DEF Quantities
<1>3. [b EXCEPT ![1] = q] \in Seq(Nat)
  <2>1. CASE 1 \in DOMAIN b
    BY <1>2, <2>1, ExceptSeq
  <2>2. CASE 1 \notin DOMAIN b
    <3>1. [b EXCEPT ![1] = q] = b
      BY <1>2, <2>2
    <3>2. QED
      BY <1>2, <3>1
  <2>3. QED
    BY <2>1, <2>2
<1>4. Overwrite(w, s, q) \in Seq(Nat)
  BY <1>1, <1>2, <1>3 DEF Overwrite
<1>5. ASSUME read[w][s] = b, Len(b) = 1
      PROVE  Len(Overwrite(w, s, q)) = 1 /\ Tally(Overwrite(w, s, q)) = q
  <2>1. Held(w, s) = b[1]
    BY <1>2, <1>5 DEF Held
  <2>2. Len([b EXCEPT ![1] = q]) = 1 /\ [b EXCEPT ![1] = q][1] = q
    BY <1>2, <1>5, ExceptSeq
  <2>3. PICK v : v = Overwrite(w, s, q)
    OBVIOUS
  <2>4. v \in Seq(Nat) /\ Len(v) = 1 /\ v[1] = q
    BY <1>1, <1>4, <1>5, <2>1, <2>2, <2>3 DEF Overwrite
  <2>5. Tally(v) = q
    BY <2>4, TallyIs
  <2>6. QED
    BY <2>3, <2>4, <2>5
<1>6. QED
  BY <1>1, <1>4, <1>5

\* Writing a quantity into the row, or into a new one.
LEMMA UpsertGives ==
  ASSUME Quantities, NEW w \in Op, NEW s \in Store, NEW q \in Nat, NEW b \in Upsert(w, s, q)
  PROVE  /\ b \in Seq(Nat)
         /\ read[w][s] = bal[s] /\ Len(bal[s]) <= 1 => Len(b) = 1 /\ Tally(b) = q
<1>1. bal[s] \in Seq(Nat) /\ read[w][s] \in Seq(Nat)
  BY DEF Quantities
<1>2. PICK one : one = <<q>>
  OBVIOUS
<1>3. one \in Seq(Nat) /\ Len(one) = 1 /\ one[1] = q /\ Append(bal[s], q) \in Seq(Nat)
        /\ (bal[s] = <<>> => Append(bal[s], q) = one)
  <2>1. one \in Seq(Nat) /\ Len(one) = 1 /\ one[1] = q
    BY <1>2
  <2>2. Append(bal[s], q) \in Seq(Nat)
    BY <1>1, AppendProperties
  <2>3. Append(<<>>, q) = one
    BY <1>2
  <2>4. QED
    BY <2>1, <2>2, <2>3
<1>4. Tally(one) = q
  BY <1>3, TallyIs
<1>5. CASE read[w][s] # <<>>
  <2>1. b = Overwrite(w, s, q) /\ Len(bal[s]) = 1
    BY <1>5 DEF Upsert
  <2>2. QED
    BY <2>1, OverwriteGives
<1>6. CASE read[w][s] = <<>>
  <2>1. b = Append(bal[s], q) \/ b = one
    BY <1>2, <1>6 DEF Upsert
  <2>2. read[w][s] = bal[s] => b = one
    BY <1>3, <1>6, <2>1
  <2>3. QED
    BY <1>3, <1>4, <2>1, <2>2
<1>7. QED
  BY <1>5, <1>6

-----------------------------------------------------------------------------
(* Beginning, reading, committing.                                         *)

\* A session that begins.
LEMMA BeginType ==
  ASSUME TypeOK, NEW w \in Op, NEW k \in Kind, NEW s \in Store, NEW t \in Store,
         NEW n \in 0 .. MaxQty, NEW list \in Seq(Thing), Begin(w, k, s, t, n, list)
  PROVE  /\ job' \in [Op -> Job] /\ todo' \in [Op -> Seq(Thing)] /\ ops' \in 0 .. MaxOps
         /\ UNCHANGED <<bal, moved, deducted, added, request, dist, broken, missing,
                        dropped, repeated, raced, read, heard, seen, stale>>
<1>1. job' \in [Op -> Job]
  BY DEF Begin, TypeOK, Job
<1>2. todo' \in [Op -> Seq(Thing)]
  BY DEF Begin, TypeOK, Thing
<1>3. ops' \in 0 .. MaxOps
  BY StockAssumption DEF Begin, TypeOK
<1>4. QED
  BY <1>1, <1>2, <1>3 DEF Begin, docVars

\* It has everything that it must read on its list.
LEMMA BeginKnows ==
  ASSUME TypeOK, \A v \in Op : Knows(v) /\ Checked(v),
         NEW w \in Op, NEW k \in Kind, NEW s \in Store, NEW t \in Store,
         NEW n \in 0 .. MaxQty, NEW list \in Seq(Thing), Begin(w, k, s, t, n, list),
         \A x \in Store \cup Doc : Reads(k, s, t, x) => \E i \in DOMAIN list : list[i] = x,
         k = "sell" => \E i \in DOMAIN list : list[i] = "check"
  PROVE  \A v \in Op : (Knows(v) /\ Checked(v))'
<1> SUFFICES ASSUME NEW v \in Op PROVE (Knows(v) /\ Checked(v))'
  OBVIOUS
<1>1. UNCHANGED <<bal, request, dist, read, heard, seen, stale>>
  BY DEF Begin, docVars
<1>2. CASE v = w
  <2>1. /\ job'[w].kind = k /\ job'[w].src = s /\ job'[w].dst = t
        /\ todo'[w] = list
    BY DEF Begin, TypeOK
  <2>2. \A x : MustRead(w, x)' <=> Reads(k, s, t, x)
    BY <2>1 DEF MustRead, Reads
  <2>3. \A x : x \in Waiting(w)' <=> \E i \in DOMAIN list : list[i] = x
    BY <2>1 DEF Waiting
  <2>4. QED
    BY <1>2, <2>1, <2>2, <2>3 DEF Knows, Checked
<1>3. CASE v # w
  <2>1. job'[v] = job[v] /\ todo'[v] = todo[v]
    BY <1>3 DEF Begin, TypeOK
  <2>2. /\ \A x : MustRead(v, x)' <=> MustRead(v, x)
        /\ Waiting(v)' = Waiting(v)
        /\ \A x : Current(v, x)' <=> Current(v, x)
        /\ \A x \in Store : Units(x)' = Units(x)
    BY <1>1, <2>1 DEF MustRead, Reads, Waiting, Current, Units
  <2>3. Knows(v)'
    BY <1>1, <2>2 DEF Knows
  <2>4. job[v].src \in Store
    BY DEF TypeOK
  <2>5. Checked(v)'
    BY <1>1, <2>1, <2>2, <2>4 DEF Checked
  <2>6. QED
    BY <2>3, <2>5
<1>4. QED
  BY <1>2, <1>3

\* Reading takes the first thing off the list.
LEMMA LookGives ==
  ASSUME TypeOK, NEW w \in Op, NEW x, Look(w, x)
  PROVE  /\ todo' \in [Op -> Seq(Thing)]
         /\ x \in Waiting(w) /\ Waiting(w) \subseteq Waiting(w)' \cup {x}
         /\ \A v \in Op \ {w} : Waiting(v)' = Waiting(v)
<1>1. PICK list : list = todo[w]
  OBVIOUS
<1>2. list \in Seq(Thing) /\ list # <<>> /\ x = list[1] /\ todo' = [todo EXCEPT ![w] = Tail(list)]
  BY <1>1 DEF Look, TypeOK, Thing
<1>3. /\ Tail(list) \in Seq(Thing) /\ Len(Tail(list)) = Len(list) - 1
      /\ \A i \in 1 .. Len(Tail(list)) : Tail(list)[i] = list[i + 1]
  BY <1>2, HeadTailProperties
<1>4. DOMAIN list = 1 .. Len(list) /\ Len(list) \in Nat /\ Len(list) # 0
        /\ DOMAIN Tail(list) = 1 .. (Len(list) - 1)
  BY <1>2, <1>3, EmptySeq
<1>5. todo' \in [Op -> Seq(Thing)] /\ todo'[w] = Tail(list) /\ \A v \in Op \ {w} : todo'[v] = todo[v]
  BY <1>2, <1>3 DEF TypeOK, Thing
<1>6. x \in Waiting(w)
  BY <1>1, <1>2, <1>4 DEF Waiting
<1>7. ASSUME NEW i \in DOMAIN list, list[i] # x PROVE list[i] \in Waiting(w)'
  <2>1. i - 1 \in DOMAIN Tail(list) /\ Tail(list)[i - 1] = list[i]
    BY <1>2, <1>3, <1>4, <1>7
  <2>2. QED
    BY <1>5, <2>1 DEF Waiting
<1>8. Waiting(w) \subseteq Waiting(w)' \cup {x}
  BY <1>1, <1>7 DEF Waiting
<1>9. \A v \in Op \ {w} : Waiting(v)' = Waiting(v)
  BY <1>5 DEF Waiting
<1>10. QED
  BY <1>5, <1>6, <1>8, <1>9

\* Whatever was read is current when nothing is written.
LEMMA LookKnows ==
  ASSUME TypeOK, \A v \in Op : Knows(v) /\ Checked(v), NEW w \in Op, NEW x, Look(w, x),
         seen \in [Op -> SUBSET (Store \cup Doc)],
         \A v \in Op : seen[v] \subseteq seen'[v],
         \A v \in Op, y \in Store \cup Doc : Current(v, y) => Current(v, y)',
         x \in Store \cup Doc => x \in seen'[w] /\ Current(w, x)',
         x = "check" => job[w].src \in seen'[w] /\ job[w].n <= Units(job[w].src)
  PROVE  \A v \in Op : (Knows(v) /\ Checked(v))'
<1> SUFFICES ASSUME NEW v \in Op PROVE (Knows(v) /\ Checked(v))'
  OBVIOUS
<1>1. job' = job /\ stale' = stale /\ bal' = bal
  BY DEF Look, stockVars
<1>2. Waiting(v) \subseteq Waiting(v)' \cup {x} /\ (v # w => Waiting(v)' = Waiting(v))
  BY LookGives
<1>3. \A y : MustRead(v, y)' <=> MustRead(v, y)
  BY <1>1 DEF MustRead, Reads
<1>4. Knows(v)'
  <2> SUFFICES ASSUME NEW y \in Store \cup Doc, MustRead(v, y)',
                      y \notin Waiting(v)'
               PROVE  y \in seen'[v] /\ (~stale'[v] => Current(v, y)')
    BY DEF Knows
  <2>1. CASE y \in Waiting(v)
    BY <1>1, <1>2, <2>1
  <2>2. CASE y \notin Waiting(v)
    BY <1>1, <1>3, <2>2 DEF Knows
  <2>3. QED
    BY <2>1, <2>2
<1>5. Checked(v)'
  <2>1. \A s : Units(s)' = Units(s)
    BY <1>1 DEF Units
  <2>2. CASE "check" \in Waiting(v) /\ "check" \notin Waiting(v)'
    <3>1. v = w /\ x = "check"
      BY <1>2, <2>2
    <3>2. QED
      BY <1>1, <2>1, <3>1 DEF Checked
  <2>3. CASE ~("check" \in Waiting(v) /\ "check" \notin Waiting(v)')
    BY <1>1, <2>1, <2>3 DEF Checked
  <2>4. QED
    BY <2>2, <2>3
<1>6. QED
  BY <1>4, <1>5

\* A session that ends forgets.
LEMMA LeaveType ==
  ASSUME TypeOK, Quantities, NEW w \in Op, Leave(w)
  PROVE  /\ job' \in [Op -> Job] /\ todo' \in [Op -> Seq(Thing)]
         /\ read' \in [Op -> [Store -> Seq(Nat)]] /\ heard' \in [Op -> Memo]
         /\ seen' \in [Op -> SUBSET (Store \cup Doc)] /\ ops' = ops
         /\ job'[w].kind = "none"
         /\ \A v \in Op \ {w} : /\ job'[v] = job[v] /\ todo'[v] = todo[v] /\ read'[v] = read[v]
                                /\ heard'[v] = heard[v] /\ seen'[v] = seen[v]
<1>1. Idle \in Job /\ Idle.kind = "none"
  BY StockAssumption DEF Idle, Job, Kind, Store
<1>2. NoRequest \in Request /\ NoDist \in Dist
  BY StockAssumption DEF NoRequest, NoDist, Request, Dist, RequestStatus, DistStatus
<1>3. Deaf \in Memo
  BY <1>2 DEF Deaf, Memo
<1>4. Blind \in [Store -> Seq(Nat)]
  BY DEF Blind
<1>5. job' \in [Op -> Job] /\ job'[w].kind = "none" /\ \A v \in Op \ {w} : job'[v] = job[v]
  BY <1>1 DEF Leave, TypeOK, Job
<1>6. todo' \in [Op -> Seq(Thing)] /\ \A v \in Op \ {w} : todo'[v] = todo[v]
  <2>1. PICK e : e = <<>>
    OBVIOUS
  <2>2. e \in Seq(Thing) /\ todo \in [Op -> Seq(Thing)] /\ todo' = [todo EXCEPT ![w] = e]
    BY <2>1 DEF Leave, TypeOK, Thing
  <2>3. QED
    BY <2>2
<1>7. read' \in [Op -> [Store -> Seq(Nat)]] /\ \A v \in Op \ {w} : read'[v] = read[v]
  BY <1>4 DEF Leave, Quantities
<1>8. heard' \in [Op -> Memo] /\ \A v \in Op \ {w} : heard'[v] = heard[v]
  BY <1>3 DEF Leave, TypeOK, Memo
<1>9. seen' \in [Op -> SUBSET (Store \cup Doc)] /\ \A v \in Op \ {w} : seen'[v] = seen[v]
  BY DEF Leave, TypeOK
<1>10. QED
  BY <1>5, <1>6, <1>7, <1>8, <1>9 DEF Leave

\* Whoever else has read what a commit wrote is stale from then on, and what
\* the others have read is current.
LEMMA CommitKnows ==
  ASSUME TypeOK, Quantities, \A v \in Op : Knows(v) /\ Checked(v),
         NEW w \in Op, NEW k, NEW W, Commit(w, k, W),
         \A s \in Store \ W : bal'[s] = bal[s],
         "request" \in W \/ request' = request,
         "distribution" \in W \/ dist' = dist
  PROVE  \A v \in Op : (Knows(v) /\ Checked(v))'
<1> SUFFICES ASSUME NEW v \in Op PROVE (Knows(v) /\ Checked(v))'
  OBVIOUS
<1>1. Leave(w) /\ stale' = [u \in Op |-> u # w /\ (stale[u] \/ seen[u] \cap W # {})]
  BY DEF Commit
<1>2. CASE v = w
  <2>1. job'[w].kind = "none"
    BY <1>1, LeaveType
  <2>2. QED
    BY <1>2, <2>1 DEF Knows, Checked, MustRead, Reads
<1>3. CASE v # w
  <2>1. /\ job'[v] = job[v] /\ todo'[v] = todo[v] /\ read'[v] = read[v]
        /\ heard'[v] = heard[v] /\ seen'[v] = seen[v]
    BY <1>1, <1>3, LeaveType
  <2>2. ~stale'[v] => ~stale[v] /\ seen[v] \cap W = {}
    BY <1>1, <1>3
  <2>3. (\A x : MustRead(v, x)' <=> MustRead(v, x)) /\ Waiting(v)' = Waiting(v)
    BY <2>1 DEF MustRead, Reads, Waiting
  <2>4. \A x \in (Store \cup Doc) \ W : Current(v, x) => Current(v, x)'
    BY <2>1 DEF Current
  <2>5. Knows(v)'
    BY <2>1, <2>2, <2>3, <2>4 DEF Knows
  <2>6. \A x \in Store \ W : Units(x)' = Units(x)
    BY DEF Units
  <2>7. job[v].src \in Store
    BY DEF TypeOK
  <2>8. Checked(v)'
    BY <2>1, <2>2, <2>3, <2>6, <2>7 DEF Checked
  <2>9. QED
    BY <2>5, <2>8
<1>4. QED
  BY <1>2, <1>3

\* A commit that does not race writes from current readings.
LEMMA CommitFresh ==
  ASSUME IInv, NEW w \in Op, NEW k, NEW W, Commit(w, k, W), ~raced'
  PROVE  /\ ~raced
         /\ \A x \in Store \cup Doc : MustRead(w, x) => Current(w, x)
         /\ k = "sell" => job[w].n <= Units(job[w].src)
         /\ \A s \in Store : Len(bal[s]) <= 1
         /\ \A s \in Store : MustRead(w, s) => Held(w, s) = Units(s)
<1>1. ~raced /\ ~stale[w] /\ todo[w] = <<>> /\ job[w].kind = k
  BY DEF Commit, IInv, TypeOK
<1>2. Waiting(w) = {}
  BY <1>1 DEF Waiting
<1>3. \A x \in Store \cup Doc : MustRead(w, x) => Current(w, x)
  BY <1>1, <1>2 DEF IInv, Knows
<1>4. k = "sell" => job[w].n <= Units(job[w].src)
  BY <1>1, <1>2 DEF IInv, Checked
<1>5. \A s \in Store : Len(bal[s]) <= 1
  BY <1>1 DEF IInv, BalanceExplained
<1>6. \A s \in Store : MustRead(w, s) => Held(w, s) = Units(s)
  BY <1>3, UnitsAre DEF IInv, Current
<1>7. QED
  BY <1>1, <1>3, <1>4, <1>5, <1>6

\* The types after a commit, but for what the operation writes.
LEMMA CommitType ==
  ASSUME TypeOK, Quantities, NEW w \in Op, NEW k, NEW W, Commit(w, k, W)
  PROVE  /\ job' \in [Op -> Job] /\ todo' \in [Op -> Seq(Thing)]
         /\ read' \in [Op -> [Store -> Seq(Nat)]] /\ heard' \in [Op -> Memo]
         /\ seen' \in [Op -> SUBSET (Store \cup Doc)] /\ ops' = ops
         /\ stale' \in [Op -> BOOLEAN] /\ raced' \in BOOLEAN
         /\ job[w] \in Job /\ job[w].kind = k
<1>1. Leave(w) /\ job[w] \in Job /\ job[w].kind = k
  BY DEF Commit, TypeOK, Job
<1>2. stale' \in [Op -> BOOLEAN]
  BY DEF Commit
<1>3. raced' \in BOOLEAN
  BY DEF Commit, TypeOK
<1>4. QED
  BY <1>1, <1>2, <1>3, LeaveType

\* They are kept when each tally keeps its type.
LEMMA CommitTypes ==
  ASSUME TypeOK, Quantities, NEW w \in Op, NEW k, NEW W, Commit(w, k, W),
         bal' \in [Store -> Seq(Nat)], moved' \in [Store -> Int],
         deducted' \in [Store -> Nat], sold' \in [Store -> Nat], short' \in Int,
         added' \in Nat, request' \in Request, dist' \in Dist, broken' \in Nat,
         missing' \in Nat, dropped' \in Nat, unasked' \in BOOLEAN, repeated' \in BOOLEAN
  PROVE  (TypeOK /\ Quantities)'
<1>1. /\ job' \in [Op -> Job] /\ todo' \in [Op -> Seq(Thing)]
      /\ read' \in [Op -> [Store -> Seq(Nat)]] /\ heard' \in [Op -> Memo]
      /\ seen' \in [Op -> SUBSET (Store \cup Doc)] /\ ops' = ops
      /\ stale' \in [Op -> BOOLEAN] /\ raced' \in BOOLEAN
  BY CommitType
<1>2. /\ bal' \in [Store -> Seq(Int)] /\ read' \in [Op -> [Store -> Seq(Int)]]
  <2>1. \A q \in Seq(Nat) : q \in Seq(Int)
    OBVIOUS
  <2>2. QED
    BY <1>1, <2>1
<1>3. ops' \in 0 .. MaxOps
  BY <1>1 DEF TypeOK
<1>4. QED
  BY <1>1, <1>2, <1>3 DEF TypeOK, Quantities, Job, Thing, Memo

\* The types of the numbers.
LEMMA Numbers ==
  ASSUME TypeOK
  PROVE  /\ moved \in [Store -> Int] /\ deducted \in [Store -> Nat] /\ sold \in [Store -> Nat]
         /\ short \in Int /\ added \in Nat /\ broken \in Nat /\ missing \in Nat
         /\ dropped \in Nat /\ request \in Request /\ dist \in Dist
         /\ unasked \in BOOLEAN /\ repeated \in BOOLEAN
         /\ dist.n \in Nat /\ InTransit \in Nat
         /\ \A w \in Op : /\ job[w].src \in Store /\ job[w].dst \in Store /\ job[w].n \in Nat
                          /\ heard[w].request \in Request
<1>1. MaxQty \in Nat
  BY StockAssumption
<1>2. \A w \in Op : job[w].src \in Store /\ job[w].dst \in Store /\ job[w].n \in Nat
  BY <1>1 DEF TypeOK
<1>3. dist.n \in Nat /\ InTransit \in Nat
  BY <1>1 DEF TypeOK, Dist, InTransit
<1>4. QED
  BY <1>2, <1>3 DEF TypeOK

\* A commit leaves the other jobs alone, and its own is over.
LEMMA CommitSensible ==
  ASSUME TypeOK, Quantities, \A v \in Op : Sensible(v),
         NEW w \in Op, NEW k, NEW W, Commit(w, k, W), unasked => unasked',
         \A s \in Store : sold'[s] = sold[s] \/ sold'[s] >= sold[s]
                            \/ (k = "restock" /\ s = job[w].src),
         sold' \in [Store -> Nat]
  PROVE  \A v \in Op : Sensible(v)'
<1> SUFFICES ASSUME NEW v \in Op PROVE Sensible(v)'
  OBVIOUS
<1>1. /\ job'[w].kind = "none" /\ \A u \in Op \ {w} : job'[u] = job[u]
      /\ job[w].kind = k
  BY LeaveType DEF Commit
<1>2. CASE v = w
  BY <1>1, <1>2 DEF Sensible
<1>3. CASE v # w
  <2>1. job'[v] = job[v]
    BY <1>1, <1>3
  <2>2. ASSUME job[v].kind = "restock"
        PROVE  job[v].n <= sold'[job[v].src]
    <3>1. PICK s, n : s = job[v].src /\ n = job[v].n
      OBVIOUS
    <3>2. s \in Store /\ n \in Nat /\ sold[s] \in Nat /\ (sold'[s] \in Nat)
      BY <3>1, Numbers
    <3>5. n <= sold[s]
      BY <2>2, <3>1 DEF Sensible
    <3>3. ~(k = "restock" /\ s = job[w].src)
      BY <1>1, <1>3, <2>2, <3>1 DEF Sensible
    <3>4. QED
      BY <3>1, <3>2, <3>3, <3>5
  <2>3. \A u \in Op : job'[u].kind = "restock" => job'[u] = job[u]
    BY <1>1
  <2>4. QED
    BY <2>1, <2>2, <2>3 DEF Sensible
<1>4. QED
  BY <1>2, <1>3

\* The accounts on either side.
LEMMA SumsMove ==
  ASSUME NEW u \in Int, NEW t \in Int, NEW s \in Int, NEW b \in Int, NEW m \in Int,
         NEW p \in Int, NEW a \in Int, NEW h \in Int, NEW x \in Int,
         NEW u1 \in Int, NEW t1 \in Int, NEW s1 \in Int, NEW b1 \in Int, NEW m1 \in Int,
         NEW p1 \in Int, NEW a1 \in Int, NEW h1 \in Int, NEW d \in Int, NEW e \in Int,
         u + t + s + b + m + p = x + a + h, u1 = u + d, s1 = s + e,
         d + e + (t1 - t) + (b1 - b) + (m1 - m) + (p1 - p) = (a1 - a) + (h1 - h)
  PROVE  u1 + t1 + s1 + b1 + m1 + p1 = x + a1 + h1
OBVIOUS

\* Four of its terms in pairs.
LEMMA Paired ==
  ASSUME NEW u \in Int, NEW v \in Int, NEW t \in Int, NEW r \in Int, NEW s \in Int,
         NEW b \in Int, NEW m \in Int, NEW p \in Int
  PROVE  u + v + t + r + s + b + m + p = (u + v) + t + (r + s) + b + m + p
OBVIOUS

\* What remains of the invariant, once the accounts are shown to agree.
Accounts == UnitsConserved /\ BalanceExplained

\* The rows of a store that gains d units, by movements or sales.
LEMMA OneStore ==
  ASSUME TypeOK, Quantities, BalanceExplained, ~raced,
         (TypeOK /\ Quantities)', NEW s \in Store, NEW d \in Int,
         \A t \in Store \ {s} : bal'[t] = bal[t] /\ moved'[t] = moved[t]
                                  /\ deducted'[t] = deducted[t],
         Len(bal'[s]) <= 1, Tally(bal'[s]) = Units(s) + d,
         moved'[s] - deducted'[s] = moved[s] - deducted[s] + d
  PROVE  /\ BalanceExplained'
         /\ Units(Warehouse)' + Units(Shop)' = Units(Warehouse) + Units(Shop) + d
<1>1. /\ \A t \in Store : Len(bal[t]) <= 1
      /\ \A t \in Store : Units(t) = (IF t = Warehouse THEN Supply ELSE 0)
                                       + moved[t] - deducted[t]
  BY DEF BalanceExplained
<1>2. \A t \in Store : /\ Units(t) \in Nat /\ moved[t] \in Int /\ deducted[t] \in Nat
                       /\ (moved'[t] \in Int) /\ (deducted'[t] \in Nat)
  BY UnitsAre DEF TypeOK
<1>3. /\ Units(s)' = Units(s) + d
      /\ \A t \in Store \ {s} : Units(t)' = Units(t)
  BY DEF Units
<1>4. Supply \in Nat /\ Warehouse # Shop /\ Store = {Warehouse, Shop}
  BY StockAssumption DEF Store
<1>5. ASSUME NEW t \in Store
      PROVE  /\ Len(bal'[t]) <= 1
             /\ Units(t)' = (IF t = Warehouse THEN Supply ELSE 0) + moved'[t] - deducted'[t]
  <2>1. CASE t = s
    BY SMTT(30), <1>1, <1>2, <1>3, <1>4, <2>1
  <2>2. CASE t # s
    BY <1>1, <1>3, <2>2
  <2>3. QED
    BY <2>1, <2>2
<1>6. Units(Warehouse)' + Units(Shop)' = Units(Warehouse) + Units(Shop) + d
  <2>1. CASE s = Warehouse
    BY <1>2, <1>3, <1>4, <2>1
  <2>2. CASE s = Shop
    BY <1>2, <1>3, <1>4, <2>2
  <2>3. QED
    BY <1>4, <2>1, <2>2
<1>7. QED
  BY <1>5, <1>6 DEF BalanceExplained

\* Units moved from one store to the other.
LEMMA TwoStores ==
  ASSUME TypeOK, Quantities, BalanceExplained, ~raced,
         (TypeOK /\ Quantities)', NEW s \in Store, NEW t \in Store, s # t, NEW d \in Int,
         Len(bal'[s]) <= 1, Tally(bal'[s]) = Units(s) - d,
         Len(bal'[t]) <= 1, Tally(bal'[t]) = Units(t) + d,
         deducted' = deducted, moved'[s] = moved[s] - d, moved'[t] = moved[t] + d
  PROVE  /\ BalanceExplained'
         /\ Units(Warehouse)' + Units(Shop)' = Units(Warehouse) + Units(Shop)
<1>1. /\ \A u \in Store : Units(u) = (IF u = Warehouse THEN Supply ELSE 0)
                                       + moved[u] - deducted[u]
  BY DEF BalanceExplained
<1>2. \A u \in Store : Units(u) \in Nat /\ moved[u] \in Int /\ deducted[u] \in Nat
  BY UnitsAre DEF TypeOK
<1>3. Units(s)' = Units(s) - d /\ Units(t)' = Units(t) + d
  BY DEF Units
<1>4. Supply \in Nat /\ Warehouse # Shop /\ Store = {Warehouse, Shop}
  BY StockAssumption DEF Store
<1>5. \A u \in Store : u = s \/ u = t
  BY <1>4
<1>6. /\ Units(s)' = (IF s = Warehouse THEN Supply ELSE 0) + moved'[s] - deducted'[s]
      /\ Units(t)' = (IF t = Warehouse THEN Supply ELSE 0) + moved'[t] - deducted'[t]
  <2>1. PICK x, y : /\ x = IF s = Warehouse THEN Supply ELSE 0
                    /\ y = IF t = Warehouse THEN Supply ELSE 0
    OBVIOUS
  <2>2. x \in Nat /\ y \in Nat
    BY <1>4, <2>1
  <2>3. /\ Units(s) = x + moved[s] - deducted[s] /\ Units(t) = y + moved[t] - deducted[t]
    BY <1>1, <2>1
  <2>4. Units(s)' = x + moved'[s] - deducted'[s]
    <3>1. PICK u, m, c : u = Units(s) /\ m = moved[s] /\ c = deducted[s]
      OBVIOUS
    <3>2. u \in Int /\ m \in Int /\ c \in Int /\ x \in Int /\ u = x + m - c
      BY <1>2, <2>2, <2>3, <3>1
    <3>3. u - d = x + (m - d) - c
      BY <3>2
    <3>4. Units(s)' = u - d /\ moved'[s] = m - d /\ deducted'[s] = c
      BY <1>3, <3>1
    <3>5. QED
      BY <3>3, <3>4
  <2>5. Units(t)' = y + moved'[t] - deducted'[t]
    <3>1. PICK u, m, c : u = Units(t) /\ m = moved[t] /\ c = deducted[t]
      OBVIOUS
    <3>2. u \in Int /\ m \in Int /\ c \in Int /\ y \in Int /\ u = y + m - c
      BY <1>2, <2>2, <2>3, <3>1
    <3>3. u + d = y + (m + d) - c
      BY <3>2
    <3>4. Units(t)' = u + d /\ moved'[t] = m + d /\ deducted'[t] = c
      BY <1>3, <3>1
    <3>5. QED
      BY <3>3, <3>4
  <2>6. QED
    BY <2>1, <2>4, <2>5
<1>7. Units(Warehouse)' + Units(Shop)' = Units(Warehouse) + Units(Shop)
  <2>1. CASE s = Warehouse /\ t = Shop
    BY <1>2, <1>3, <2>1
  <2>2. CASE s = Shop /\ t = Warehouse
    BY <1>2, <1>3, <2>2
  <2>3. QED
    BY <1>4, <2>1, <2>2
<1>8. QED
  BY <1>5, <1>6, <1>7 DEF BalanceExplained

\* A current row gains what is written on top of it.
LEMMA UpsertFresh ==
  ASSUME TypeOK, Quantities, NEW w \in Op, NEW s \in Store, NEW d \in Int,
         NEW q \in Nat, q = Held(w, s) + d, NEW b \in Upsert(w, s, q),
         read[w][s] = bal[s], Len(bal[s]) <= 1
  PROVE  Len(b) <= 1 /\ Tally(b) = Units(s) + d
<1>1. Len(b) = 1 /\ Tally(b) = q
  BY UpsertGives
<1>2. Held(w, s) = Units(s)
  BY UnitsAre
<1>3. QED
  BY <1>1, <1>2

\* Nothing is accounted for anew.
LEMMA QuietAccounts ==
  ASSUME UnitsConserved, BalanceExplained, raced => raced', unasked => unasked',
         UNCHANGED <<bal, moved, deducted, sold, short, added, dist, broken, missing,
                     dropped, repeated>>
  PROVE  Accounts'
<1>1. (\A s : Units(s)' = Units(s)) /\ InTransit' = InTransit
  BY DEF Units, InTransit
<1>2. QED
  BY <1>1 DEF Accounts, UnitsConserved, BalanceExplained

\* What is sold in the two stores together.
LEMMA SoldChanges ==
  ASSUME TypeOK, sold' \in [Store -> Nat], NEW s \in Store, NEW e \in Int,
         sold'[s] = sold[s] + e, \A t \in Store \ {s} : sold'[t] = sold[t]
  PROVE  sold'[Warehouse] + sold'[Shop] = sold[Warehouse] + sold[Shop] + e
<1>1. /\ sold[Warehouse] \in Nat /\ sold[Shop] \in Nat
      /\ Store = {Warehouse, Shop} /\ Warehouse # Shop
  BY StockAssumption, Numbers DEF Store
<1>2. CASE s = Warehouse
  BY <1>1, <1>2
<1>3. CASE s = Shop
  BY <1>1, <1>3
<1>4. QED
  BY <1>1, <1>2, <1>3

\* Units that change the accounts by as much on either side.
LEMMA Balanced ==
  ASSUME TypeOK, Quantities, UnitsConserved, ~raced, (TypeOK /\ Quantities)',
         NEW d \in Int, NEW e \in Int,
         Units(Warehouse)' + Units(Shop)' = Units(Warehouse) + Units(Shop) + d,
         sold'[Warehouse] + sold'[Shop] = sold[Warehouse] + sold[Shop] + e,
         ~repeated' =>
           /\ ~repeated
           /\ d + e + (InTransit' - InTransit) + (broken' - broken) + (missing' - missing)
                + (dropped' - dropped) = (added' - added) + (short' - short),
         ~unasked' => short' = 0
  PROVE  UnitsConserved'
<1>1. /\ Units(Warehouse) \in Nat /\ Units(Shop) \in Nat
      /\ (Units(Warehouse)' \in Nat) /\ (Units(Shop)' \in Nat)
  <2>1. Warehouse \in Store /\ Shop \in Store
    BY DEF Store
  <2>2. Units(Warehouse) \in Nat /\ Units(Shop) \in Nat
    BY <2>1, UnitsAre
  <2>3. /\ bal'[Warehouse] \in Seq(Nat) /\ bal'[Shop] \in Seq(Nat)
    BY <2>1 DEF Quantities
  <2>4. (Units(Warehouse)' \in Nat) /\ (Units(Shop)' \in Nat)
    BY <2>3, TallyIs DEF Units
  <2>5. QED
    BY <2>2, <2>4
<1>2. /\ sold[Warehouse] \in Nat /\ sold[Shop] \in Nat
      /\ sold'[Warehouse] \in Nat /\ sold'[Shop] \in Nat
  BY DEF TypeOK, Store
<1>3. InTransit \in Nat /\ (InTransit' \in Nat)
  BY StockAssumption DEF TypeOK, InTransit, Dist
<1>4. /\ broken \in Nat /\ missing \in Nat /\ dropped \in Nat /\ added \in Nat /\ short \in Int
      /\ (broken' \in Nat) /\ (missing' \in Nat) /\ (dropped' \in Nat) /\ (added' \in Nat)
      /\ (short' \in Int) /\ Supply \in Nat
  BY StockAssumption DEF TypeOK
<1>5. ~repeated =>
        Units(Warehouse) + Units(Shop) + InTransit + sold[Warehouse] + sold[Shop]
          + broken + missing + dropped = Supply + added + short
  BY DEF UnitsConserved
<1>6. ~repeated' =>
        Units(Warehouse)' + Units(Shop)' + InTransit' + sold'[Warehouse] + sold'[Shop]
          + broken' + missing' + dropped' = Supply + added' + short'
  <2> SUFFICES ASSUME ~repeated'
               PROVE  Units(Warehouse)' + Units(Shop)' + InTransit' + sold'[Warehouse]
                        + sold'[Shop] + broken' + missing' + dropped'
                        = Supply + added' + short'
    OBVIOUS
  <2>1. Units(Warehouse) + Units(Shop) + InTransit + sold[Warehouse] + sold[Shop]
          + broken + missing + dropped = Supply + added + short
    BY <1>5
  <2>2. d + e + (InTransit' - InTransit) + (broken' - broken) + (missing' - missing)
          + (dropped' - dropped) = (added' - added) + (short' - short)
    OBVIOUS
  <2>3. PICK u, t, s, b, m, p, a, h, x :
          /\ u = Units(Warehouse) + Units(Shop) /\ t = InTransit
          /\ s = sold[Warehouse] + sold[Shop] /\ b = broken /\ m = missing /\ p = dropped
          /\ a = added /\ h = short /\ x = Supply
    OBVIOUS
  <2>4. PICK u1, t1, s1, b1, m1, p1, a1, h1 :
          /\ u1 = Units(Warehouse)' + Units(Shop)' /\ t1 = InTransit'
          /\ s1 = sold'[Warehouse] + sold'[Shop] /\ b1 = broken' /\ m1 = missing'
          /\ p1 = dropped' /\ a1 = added' /\ h1 = short'
    OBVIOUS
  <2>5. /\ u \in Int /\ t \in Int /\ s \in Int /\ b \in Int /\ m \in Int /\ p \in Int
        /\ a \in Int /\ h \in Int /\ x \in Int
    BY <1>1, <1>2, <1>3, <1>4, <2>3
  <2>6. /\ u1 \in Int /\ t1 \in Int /\ s1 \in Int /\ b1 \in Int /\ m1 \in Int /\ p1 \in Int
        /\ a1 \in Int /\ h1 \in Int
    BY <1>1, <1>2, <1>3, <1>4, <2>4
  <2>7. u + t + s + b + m + p = x + a + h
    BY <1>1, <1>2, <1>3, <1>4, <2>1, <2>3, Paired
  <2>8. u1 = u + d /\ s1 = s + e
    BY <2>3, <2>4
  <2>9. d + e + (t1 - t) + (b1 - b) + (m1 - m) + (p1 - p) = (a1 - a) + (h1 - h)
    BY <2>2, <2>3, <2>4
  <2>10. u1 + t1 + s1 + b1 + m1 + p1 = x + a1 + h1
    BY <2>5, <2>6, <2>7, <2>8, <2>9, SumsMove
  <2>11. QED
    BY <1>1, <1>2, <1>3, <1>4, <2>3, <2>4, <2>10, Paired
<1>7. QED
  BY <1>6 DEF UnitsConserved

-----------------------------------------------------------------------------
(* Adjustments and transfers.                                              *)

\* An adjustment brings as many units to the store as it records.
LEMMA AdjustIInv ==
  ASSUME IInv, NEW w \in Op, Adjust(w) PROVE IInv'
<1>0. PICK s, n : s = job[w].src /\ n = job[w].n
  OBVIOUS
<1>1. /\ Commit(w, "adjust", {s}) /\ added' = added + n
      /\ moved' = [moved EXCEPT ![s] = @ + n]
      /\ UNCHANGED <<deducted, sold, short, request, dist, broken, missing, dropped,
                     unasked, repeated>>
  BY <1>0 DEF Adjust, Record, docVars, tallyVars
<1>2. PICK b \in Upsert(w, s, Held(w, s) + n) : bal' = [bal EXCEPT ![s] = b]
  BY <1>0 DEF Adjust
<1>3. /\ TypeOK /\ Quantities /\ s \in Store /\ n \in Nat /\ Held(w, s) \in Nat
      /\ job[w].kind = "adjust" /\ MustRead(w, s)
  BY <1>0, <1>1, HeldType, Numbers DEF IInv, Commit, MustRead, Reads
<1>4. b \in Seq(Nat) /\ (read[w][s] = bal[s] /\ Len(bal[s]) <= 1
                           => Len(b) = 1 /\ Tally(b) = Held(w, s) + n)
  BY <1>2, <1>3, UpsertGives
<1>5. bal' \in [Store -> Seq(Nat)] /\ moved' \in [Store -> Int] /\ added' \in Nat
  <2>1. bal' \in [Store -> Seq(Nat)]
    BY <1>2, <1>3, <1>4 DEF Quantities
  <2>2. moved' \in [Store -> Int] /\ added' \in Nat
    BY <1>1, <1>3, Numbers
  <2>3. QED
    BY <2>1, <2>2
<1>6. (TypeOK /\ Quantities)'
  BY <1>1, <1>3, <1>5, CommitTypes DEF TypeOK
<1>7. \A v \in Op : (Knows(v) /\ Checked(v))'
  <2>1. \A t \in Store \ {s} : bal'[t] = bal[t]
    BY <1>2, <1>3 DEF Quantities
  <2>2. QED
    BY <1>1, <1>3, <2>1, CommitKnows DEF IInv
<1>8. \A v \in Op : Sensible(v)'
  BY <1>1, <1>3, CommitSensible DEF IInv, TypeOK
<1>9. ASSUME ~raced' PROVE Accounts'
  <2>1. ~raced /\ read[w][s] = bal[s] /\ Len(bal[s]) <= 1 /\ Held(w, s) = Units(s)
    BY <1>1, <1>3, <1>9, CommitFresh DEF Current
  <2>2. Len(bal'[s]) <= 1 /\ Tally(bal'[s]) = Units(s) + n
    <3>1. bal'[s] = b
      BY <1>2, <1>3 DEF Quantities
    <3>2. n \in Int /\ Held(w, s) + n \in Nat
      BY <1>3
    <3>3. Len(b) <= 1 /\ Tally(b) = Units(s) + n
      BY <1>2, <1>3, <2>1, <3>2, UpsertFresh
    <3>4. QED
      BY <3>1, <3>3
  <2>3. /\ BalanceExplained'
        /\ Units(Warehouse)' + Units(Shop)' = Units(Warehouse) + Units(Shop) + n
    <3>1. /\ \A t \in Store \ {s} : bal'[t] = bal[t] /\ moved'[t] = moved[t]
                                      /\ deducted'[t] = deducted[t]
          /\ moved'[s] - deducted'[s] = moved[s] - deducted[s] + n
      BY <1>1, <1>2, <1>3 DEF Quantities, TypeOK
    <3>2. n \in Int
      BY <1>3
    <3>3. QED
      BY <1>3, <1>6, <2>1, <2>2, <3>1, <3>2, OneStore DEF IInv
  <2>4. UnitsConserved'
    <3>1. /\ InTransit' = InTransit /\ n \in Int /\ 0 \in Int
          /\ ~unasked' => short' = 0
          /\ sold'[Warehouse] + sold'[Shop] = sold[Warehouse] + sold[Shop] + 0
      BY <1>1, <1>3, <2>1 DEF InTransit, IInv, UnitsConserved, TypeOK, Store
    <3>2. n + 0 + (InTransit' - InTransit) + (broken' - broken) + (missing' - missing)
            + (dropped' - dropped) = (added' - added) + (short' - short)
      BY <1>1, <1>3, <3>1, StockAssumption DEF TypeOK, InTransit, Dist
    <3>3. QED
      BY <1>1, <1>3, <1>6, <2>1, <2>3, <3>1, <3>2, Balanced DEF IInv
  <2>5. QED
    BY <2>3, <2>4 DEF Accounts
<1>10. QED
  BY <1>6, <1>7, <1>8, <1>9 DEF IInv, Accounts, UnitsConserved, BalanceExplained


\* Units moved between two stores.
LEMMA MoveGives ==
  ASSUME TypeOK, Quantities, NEW w \in Op, NEW s \in Store, NEW t \in Store, s # t,
         NEW n \in Nat, Move(w, s, t, n)
  PROVE  /\ bal' \in [Store -> Seq(Nat)] /\ moved' \in [Store -> Int]
         /\ moved'[s] = moved[s] - n /\ moved'[t] = moved[t] + n
         /\ UNCHANGED <<deducted, sold, short, added, broken, missing, dropped, unasked,
                        repeated>>
         /\ (/\ read[w][s] = bal[s] /\ Len(bal[s]) <= 1
             /\ read[w][t] = bal[t] /\ Len(bal[t]) <= 1)
              => /\ Len(bal'[s]) <= 1 /\ Tally(bal'[s]) = Units(s) - n
                 /\ Len(bal'[t]) <= 1 /\ Tally(bal'[t]) = Units(t) + n
<1>1. PICK q, r, d : q = Held(w, s) - n /\ r = Held(w, t) + n /\ d = 0 - n
  OBVIOUS
<1>2. PICK b \in Upsert(w, s, q), c \in Upsert(w, t, r) :
        bal' = [bal EXCEPT ![s] = b, ![t] = c]
  BY <1>1 DEF Move
<1>3. /\ Covered(w, s, n) /\ moved' = [moved EXCEPT ![s] = @ - n, ![t] = @ + n]
      /\ UNCHANGED <<deducted, sold, short, added, broken, missing, dropped, unasked,
                     repeated>>
  BY DEF Move, tallyVars
<1>4. Held(w, s) \in Nat /\ Held(w, t) \in Nat /\ n <= Held(w, s)
  BY <1>3, HeldType DEF Covered, Held
<1>5. q \in Nat /\ r \in Nat /\ d \in Int /\ n \in Int
        /\ q = Held(w, s) + d /\ r = Held(w, t) + n
  BY <1>1, <1>4
<1>6. b \in Seq(Nat) /\ c \in Seq(Nat)
  BY <1>2, <1>5, UpsertGives
<1>7. bal' \in [Store -> Seq(Nat)] /\ bal'[s] = b /\ bal'[t] = c
  BY <1>2, <1>6 DEF Quantities
<1>8. moved' \in [Store -> Int] /\ moved'[s] = moved[s] - n /\ moved'[t] = moved[t] + n
  BY <1>3, <1>5, Numbers
<1>9. ASSUME read[w][s] = bal[s], Len(bal[s]) <= 1, read[w][t] = bal[t], Len(bal[t]) <= 1
      PROVE  /\ Len(b) <= 1 /\ Tally(b) = Units(s) - n
             /\ Len(c) <= 1 /\ Tally(c) = Units(t) + n
  <2>1. Len(b) <= 1 /\ Tally(b) = Units(s) + d
    BY <1>2, <1>5, <1>9, UpsertFresh
  <2>2. Len(c) <= 1 /\ Tally(c) = Units(t) + n
    BY <1>2, <1>5, <1>9, UpsertFresh
  <2>3. Units(s) \in Nat
    BY UnitsAre
  <2>4. QED
    BY <1>1, <2>1, <2>2, <2>3
<1>10. QED
  BY <1>3, <1>7, <1>8, <1>9

\* The accounts after such a move.
LEMMA MoveAccounts ==
  ASSUME IInv, NEW w \in Op, NEW k, NEW W, Commit(w, k, W), ~raced',
         NEW s \in Store, NEW t \in Store, s # t, NEW n \in Nat, Move(w, s, t, n),
         (TypeOK /\ Quantities)', dist' = dist, MustRead(w, s), MustRead(w, t)
  PROVE  Accounts'
<1>1. TypeOK /\ Quantities /\ UnitsConserved /\ BalanceExplained
  BY DEF IInv
<1>2. /\ ~raced /\ read[w][s] = bal[s] /\ Len(bal[s]) <= 1
      /\ read[w][t] = bal[t] /\ Len(bal[t]) <= 1
  BY CommitFresh DEF Current
<1>3. /\ Len(bal'[s]) <= 1 /\ Tally(bal'[s]) = Units(s) - n
      /\ Len(bal'[t]) <= 1 /\ Tally(bal'[t]) = Units(t) + n
      /\ moved'[s] = moved[s] - n /\ moved'[t] = moved[t] + n
      /\ UNCHANGED <<deducted, sold, short, added, broken, missing, dropped, unasked,
                     repeated>>
  BY <1>1, <1>2, MoveGives
<1>4. /\ BalanceExplained'
      /\ Units(Warehouse)' + Units(Shop)' = Units(Warehouse) + Units(Shop)
  <2>1. n \in Int
    OBVIOUS
  <2>2. QED
    BY <1>1, <1>2, <1>3, <2>1, TwoStores
<1>5. UnitsConserved'
  <2>1. /\ InTransit' = InTransit /\ 0 \in Int
        /\ ~unasked' => short' = 0
    BY <1>1, <1>2, <1>3 DEF InTransit, UnitsConserved
  <2>2. /\ InTransit \in Int /\ broken \in Int /\ missing \in Int /\ dropped \in Int
        /\ added \in Int /\ short \in Int /\ sold[Warehouse] \in Nat /\ sold[Shop] \in Nat
        /\ Units(Warehouse) \in Nat /\ Units(Shop) \in Nat
    BY <1>1, Numbers, UnitsAre DEF Store
  <2>3. 0 + 0 + (InTransit' - InTransit) + (broken' - broken) + (missing' - missing)
          + (dropped' - dropped) = (added' - added) + (short' - short)
    BY <1>3, <2>1, <2>2
  <2>4. /\ Units(Warehouse)' + Units(Shop)' = Units(Warehouse) + Units(Shop) + 0
        /\ sold'[Warehouse] + sold'[Shop] = sold[Warehouse] + sold[Shop] + 0
    BY <1>3, <1>4, <2>2
  <2>5. QED
    BY <1>1, <1>2, <1>3, <2>1, <2>3, <2>4, Balanced
<1>6. QED
  BY <1>4, <1>5 DEF Accounts

\* The accounts are all that remains once the rest is shown.
LEMMA CommitIInv ==
  ASSUME IInv, NEW w \in Op, NEW k, NEW W, Commit(w, k, W),
         (TypeOK /\ Quantities)', unasked => unasked',
         \A s \in Store : sold'[s] = sold[s] \/ sold'[s] >= sold[s]
                            \/ (k = "restock" /\ s = job[w].src),
         \A s \in Store \ W : bal'[s] = bal[s],
         "request" \in W \/ request' = request,
         "distribution" \in W \/ dist' = dist,
         ~raced' => Accounts'
  PROVE  IInv'
<1>1. TypeOK /\ Quantities /\ \A v \in Op : Knows(v) /\ Checked(v) /\ Sensible(v)
  BY DEF IInv
<1>2. \A v \in Op : (Knows(v) /\ Checked(v))'
  BY <1>1, CommitKnows
<1>3. sold' \in [Store -> Nat]
  BY DEF TypeOK
<1>4. \A v \in Op : Sensible(v)'
  BY <1>1, <1>3, CommitSensible
<1>5. (UnitsConserved /\ BalanceExplained)'
  BY DEF Accounts, UnitsConserved, BalanceExplained
<1>6. QED
  BY <1>2, <1>4, <1>5 DEF IInv

\* A transfer takes from one store what it brings to the other.
LEMMA TransferIInv ==
  ASSUME IInv, NEW w \in Op, Transfer(w) PROVE IInv'
<1>0. PICK s, t, n : s = job[w].src /\ t = job[w].dst /\ n = job[w].n
  OBVIOUS
<1>1. /\ Commit(w, "transfer", {s, t}) /\ Move(w, s, t, n)
      /\ request' = request /\ dist' = dist
  BY <1>0 DEF Transfer, docVars
<1>2. /\ TypeOK /\ Quantities /\ s \in Store /\ t \in Store /\ n \in Nat /\ s # t
      /\ MustRead(w, s) /\ MustRead(w, t)
  BY <1>0, <1>1, Numbers DEF IInv, Commit, Sensible, MustRead, Reads
<1>3. /\ bal' \in [Store -> Seq(Nat)] /\ moved' \in [Store -> Int]
      /\ UNCHANGED <<deducted, sold, short, added, broken, missing, dropped, unasked,
                     repeated>>
  BY <1>1, <1>2, MoveGives
<1>4. (TypeOK /\ Quantities)'
  BY <1>1, <1>2, <1>3, Numbers, CommitTypes
<1>5. \A u \in Store \ {s, t} : bal'[u] = bal[u]
  BY <1>2, StockAssumption DEF Store
<1>6. ~raced' => Accounts'
  BY <1>1, <1>2, <1>4, MoveAccounts
<1>7. QED
  BY <1>1, <1>3, <1>4, <1>5, <1>6, CommitIInv

-----------------------------------------------------------------------------
(* The transfer request.                                                   *)

\* A commit that writes no balance and no tally leaves the accounts alone.
LEMMA RequestIInv ==
  ASSUME IInv, NEW w \in Op, NEW k, Commit(w, k, {"request"}),
         UNCHANGED <<stockVars, tallyVars, dist>>, request' \in Request
  PROVE  IInv'
<1>1. TypeOK /\ Quantities /\ UnitsConserved /\ BalanceExplained
  BY DEF IInv
<1>2. UNCHANGED <<bal, moved, deducted, sold, short, added, dist, broken, missing,
                  dropped, unasked, repeated>>
  BY DEF stockVars, tallyVars
<1>3. bal' \in [Store -> Seq(Nat)]
  BY <1>1, <1>2 DEF Quantities
<1>4. (TypeOK /\ Quantities)'
  BY <1>1, <1>2, <1>3, Numbers, CommitTypes
<1>5. Accounts'
  BY <1>1, <1>2, QuietAccounts DEF Commit
<1>6. QED
  BY <1>2, <1>4, <1>5, CommitIInv

\* The request is created, approved or rejected.
LEMMA AskIInv ==
  ASSUME IInv, NEW w \in Op, Ask(w) \/ Approve(w) \/ Reject(w) PROVE IInv'
<1>1. MaxQty \in Nat /\ TypeOK /\ request \in Request /\ job[w].n \in 0 .. MaxQty
  BY StockAssumption DEF IInv, TypeOK
<1>2. CASE Ask(w)
  <2>1. request' \in Request
    BY <1>1, <1>2 DEF Ask, Request, RequestStatus
  <2>2. QED
    BY <1>2, <2>1, RequestIInv DEF Ask
<1>3. CASE Approve(w)
  <2>1. request' \in Request
    BY <1>1, <1>3 DEF Approve, Request, RequestStatus
  <2>2. QED
    BY <1>3, <2>1, RequestIInv DEF Approve
<1>4. CASE Reject(w)
  <2>1. request' \in Request
    BY <1>1, <1>4 DEF Reject, Request, RequestStatus
  <2>2. QED
    BY <1>4, <2>1, RequestIInv DEF Reject
<1>5. QED
  BY <1>2, <1>3, <1>4

\* What was approved goes from the warehouse to the shop.
LEMMA FulfilIInv ==
  ASSUME IInv, NEW w \in Op, Fulfil(w) PROVE IInv'
<1>0. PICK n : n = heard[w].request.approved
  OBVIOUS
<1>1. /\ Commit(w, "fulfil", {"request", Warehouse, Shop}) /\ Move(w, Warehouse, Shop, n)
      /\ request' = [request EXCEPT !.status = "fulfilled"] /\ dist' = dist
  BY <1>0 DEF Fulfil
<1>2. /\ TypeOK /\ Quantities /\ Warehouse \in Store /\ Shop \in Store
      /\ Store = {Warehouse, Shop} /\ Warehouse # Shop
      /\ MustRead(w, Warehouse) /\ MustRead(w, Shop)
  BY <1>1, StockAssumption DEF IInv, Commit, MustRead, Reads, Store
<1>3. n \in Nat /\ request' \in Request
  <2>1. heard[w].request \in Request /\ request \in Request /\ MaxQty \in Nat
    BY <1>2, Numbers, StockAssumption
  <2>2. QED
    BY <1>0, <1>1, <2>1 DEF Request, RequestStatus
<1>4. /\ bal' \in [Store -> Seq(Nat)] /\ moved' \in [Store -> Int]
      /\ UNCHANGED <<deducted, sold, short, added, broken, missing, dropped, unasked,
                     repeated>>
  BY <1>1, <1>2, <1>3, MoveGives
<1>5. (TypeOK /\ Quantities)'
  BY <1>1, <1>2, <1>3, <1>4, Numbers, CommitTypes
<1>6. \A u \in Store \ {"request", Warehouse, Shop} : bal'[u] = bal[u]
  BY <1>2
<1>7. ~raced' => Accounts'
  BY <1>1, <1>2, <1>3, <1>5, MoveAccounts
<1>8. QED
  BY <1>1, <1>4, <1>5, <1>6, <1>7, CommitIInv

-----------------------------------------------------------------------------
(* The distribution.                                                       *)

\* A movement of d units at one store.
LEMMA RowGives ==
  ASSUME TypeOK, Quantities, NEW w \in Op, NEW s \in Store, NEW d \in Int, NEW q \in Nat,
         q = Held(w, s) + d, NEW b \in Upsert(w, s, q),
         bal' = [bal EXCEPT ![s] = b], moved' = [moved EXCEPT ![s] = @ + d]
  PROVE  /\ bal' \in [Store -> Seq(Nat)] /\ moved' \in [Store -> Int]
         /\ \A t \in Store \ {s} : bal'[t] = bal[t] /\ moved'[t] = moved[t]
         /\ moved'[s] = moved[s] + d
         /\ read[w][s] = bal[s] /\ Len(bal[s]) <= 1
              => Len(bal'[s]) <= 1 /\ Tally(bal'[s]) = Units(s) + d
<1>1. b \in Seq(Nat)
  BY UpsertGives
<1>2. /\ bal' \in [Store -> Seq(Nat)] /\ bal'[s] = b
      /\ \A t \in Store \ {s} : bal'[t] = bal[t]
  BY <1>1 DEF Quantities
<1>3. /\ moved' \in [Store -> Int] /\ moved'[s] = moved[s] + d
      /\ \A t \in Store \ {s} : moved'[t] = moved[t]
  BY Numbers
<1>4. read[w][s] = bal[s] /\ Len(bal[s]) <= 1 => Len(b) <= 1 /\ Tally(b) = Units(s) + d
  BY UpsertFresh
<1>5. QED
  BY <1>2, <1>3, <1>4

\* The accounts after it: what the store gained is on the road or lost no more.
LEMMA RowAccounts ==
  ASSUME IInv, NEW w \in Op, NEW k, NEW W, Commit(w, k, W), ~raced',
         (TypeOK /\ Quantities)', NEW s \in Store, MustRead(w, s), NEW d \in Int,
         \A t \in Store \ {s} : bal'[t] = bal[t] /\ moved'[t] = moved[t],
         moved'[s] = moved[s] + d,
         read[w][s] = bal[s] /\ Len(bal[s]) <= 1
           => Len(bal'[s]) <= 1 /\ Tally(bal'[s]) = Units(s) + d,
         UNCHANGED <<deducted, sold, short, added, dropped, unasked>>,
         ~repeated' => /\ ~repeated
                       /\ d + (InTransit' - InTransit) + (broken' - broken)
                            + (missing' - missing) = 0
  PROVE  Accounts'
<1>1. TypeOK /\ Quantities /\ UnitsConserved /\ BalanceExplained
  BY DEF IInv
<1>2. ~raced /\ read[w][s] = bal[s] /\ Len(bal[s]) <= 1
  BY CommitFresh DEF Current
<1>3. Len(bal'[s]) <= 1 /\ Tally(bal'[s]) = Units(s) + d
  BY <1>2
<1>4. moved'[s] - deducted'[s] = moved[s] - deducted[s] + d
  <2>1. PICK m, c : m = moved[s] /\ c = deducted[s]
    OBVIOUS
  <2>2. m \in Int /\ c \in Int /\ moved'[s] = m + d /\ deducted'[s] = c
    BY <1>1, <2>1, Numbers
  <2>3. QED
    BY <2>1, <2>2
<1>5. /\ BalanceExplained'
      /\ Units(Warehouse)' + Units(Shop)' = Units(Warehouse) + Units(Shop) + d
  <2>1. \A t \in Store \ {s} : bal'[t] = bal[t] /\ moved'[t] = moved[t]
                                 /\ deducted'[t] = deducted[t]
    OBVIOUS
  <2>2. QED
    BY <1>1, <1>2, <1>3, <1>4, <2>1, OneStore
<1>6. UnitsConserved'
  <2>1. 0 \in Int /\ (~unasked' => short' = 0)
    BY <1>1, <1>2 DEF UnitsConserved
  <2>2. /\ InTransit \in Int /\ InTransit' \in Int /\ broken \in Int /\ broken' \in Int
        /\ missing \in Int /\ missing' \in Int /\ dropped \in Int
        /\ added \in Int /\ short \in Int /\ sold[Warehouse] \in Nat /\ sold[Shop] \in Nat
    <3>1. InTransit' \in Int /\ broken' \in Int /\ missing' \in Int
      BY StockAssumption DEF TypeOK, InTransit, Dist
    <3>2. QED
      BY <1>1, <3>1, Numbers DEF Store
  <2>3. ASSUME ~repeated'
        PROVE  /\ ~repeated
               /\ d + 0 + (InTransit' - InTransit) + (broken' - broken)
                    + (missing' - missing) + (dropped' - dropped)
                    = (added' - added) + (short' - short)
    <3>1. PICK i, j, b, c, m, n, p, a, h :
            /\ i = InTransit /\ j = InTransit' /\ b = broken /\ c = broken'
            /\ m = missing /\ n = missing' /\ p = dropped /\ a = added /\ h = short
      OBVIOUS
    <3>2. /\ i \in Int /\ j \in Int /\ b \in Int /\ c \in Int /\ m \in Int /\ n \in Int
          /\ p \in Int /\ a \in Int /\ h \in Int /\ d \in Int
      BY <2>2, <3>1
    <3>3. d + (j - i) + (c - b) + (n - m) = 0
      BY <2>3, <3>1
    <3>4. d + 0 + (j - i) + (c - b) + (n - m) + (p - p) = (a - a) + (h - h)
      BY <3>2, <3>3
    <3>5. dropped' = p /\ added' = a /\ short' = h
      BY <3>1
    <3>6. QED
      BY <2>3, <3>1, <3>4, <3>5
  <2>4. sold'[Warehouse] + sold'[Shop] = sold[Warehouse] + sold[Shop] + 0
    BY <2>2
  <2>5. QED
    BY <1>1, <1>2, <1>5, <2>1, <2>3, <2>4, Balanced
<1>7. QED
  BY <1>5, <1>6 DEF Accounts

\* What is dispatched leaves the warehouse.
LEMMA DispatchIInv ==
  ASSUME IInv, NEW w \in Op, Dispatch(w) PROVE IInv'
<1>0. PICK n, d, q : n = job[w].n /\ d = -n /\ q = Held(w, Warehouse) - n
  OBVIOUS
<1>1. /\ Commit(w, "dispatch", {"distribution", Warehouse}) /\ dist = NoDist
      /\ Covered(w, Warehouse, n) /\ dist' = [status |-> "in_transit", n |-> n]
      /\ moved' = [moved EXCEPT ![Warehouse] = @ + d]
      /\ UNCHANGED <<deducted, sold, short, added, request, broken, missing, dropped,
                     unasked, repeated>>
  BY <1>0 DEF Dispatch, Record, tallyVars
<1>2. PICK b \in Upsert(w, Warehouse, q) : bal' = [bal EXCEPT ![Warehouse] = b]
  BY <1>0 DEF Dispatch
<1>3. /\ TypeOK /\ Quantities /\ Warehouse \in Store /\ MustRead(w, Warehouse)
  BY <1>1 DEF IInv, Commit, MustRead, Reads, Store
<1>4. n \in Nat /\ Held(w, Warehouse) \in Nat /\ n <= Held(w, Warehouse) /\ n \in 0 .. MaxQty
  BY <1>0, <1>1, <1>3, HeldType, Numbers DEF Covered, Held, TypeOK
<1>5. d \in Int /\ q \in Nat /\ q = Held(w, Warehouse) + d
  BY <1>0, <1>4
<1>6. /\ bal' \in [Store -> Seq(Nat)] /\ moved' \in [Store -> Int]
      /\ \A t \in Store \ {Warehouse} : bal'[t] = bal[t] /\ moved'[t] = moved[t]
      /\ moved'[Warehouse] = moved[Warehouse] + d
      /\ read[w][Warehouse] = bal[Warehouse] /\ Len(bal[Warehouse]) <= 1
           => Len(bal'[Warehouse]) <= 1 /\ Tally(bal'[Warehouse]) = Units(Warehouse) + d
  BY <1>1, <1>2, <1>3, <1>5, RowGives
<1>7. dist' \in Dist
  BY <1>1, <1>4 DEF Dist, DistStatus
<1>8. (TypeOK /\ Quantities)'
  BY <1>1, <1>3, <1>6, <1>7, Numbers, CommitTypes
<1>9. d + (InTransit' - InTransit) + (broken' - broken) + (missing' - missing) = 0
  <2>1. InTransit = 0 /\ InTransit' = n
    BY <1>1 DEF InTransit, NoDist
  <2>2. broken \in Nat /\ missing \in Nat
    BY <1>3, Numbers
  <2>3. QED
    BY <1>0, <1>1, <1>4, <2>1, <2>2
<1>10. ~raced' => Accounts'
  BY <1>1, <1>3, <1>5, <1>6, <1>8, <1>9, RowAccounts
<1>11. QED
  BY <1>1, <1>6, <1>8, <1>10, CommitIInv

\* The tallies of a receipt, of which one that repeats no line exceeds nothing.
LEMMA LinesGive ==
  ASSUME TypeOK, NEW lines \in Lines
  PROVE  /\ Good(lines) \in Nat /\ Bad(lines) \in Nat /\ Len(lines) \in {1, 2}
         /\ Len(lines) # 2 => Good(lines) + Bad(lines) <= dist.n
<1> DEFINE G == [i \in DOMAIN lines |-> lines[i].good]
           B == [i \in DOMAIN lines |-> lines[i].bad]
<1>1. MaxQty \in Nat /\ dist.n \in Nat
  BY StockAssumption, Numbers
<1>2. \A l \in Line : l.good \in Nat /\ l.bad \in Nat /\ l.good + l.bad <= dist.n
  BY <1>1 DEF Line
<1>3. /\ DOMAIN lines = 1 .. Len(lines) /\ Len(lines) \in {1, 2}
      /\ \A i \in DOMAIN lines : lines[i] \in Line
  <2>1. CASE \E l \in Line : lines = <<l>>
    BY <2>1
  <2>2. CASE \E l, m \in Line : lines = <<l, m>>
    BY <2>2
  <2>3. QED
    BY <2>1, <2>2 DEF Lines
<1>4. \A i \in DOMAIN lines : lines[i].good \in Nat /\ lines[i].bad \in Nat
  BY <1>2, <1>3
<1>5. G \in Seq(Nat) /\ B \in Seq(Nat) /\ Len(G) = Len(lines) /\ Len(B) = Len(lines)
  BY <1>3, <1>4
<1>6. Good(lines) = Tally(G) /\ Bad(lines) = Tally(B)
  BY DEF Good, Bad
<1>7. Good(lines) \in Nat /\ Bad(lines) \in Nat
  BY <1>5, <1>6, TallyIs
<1>8. ASSUME Len(lines) # 2 PROVE Good(lines) + Bad(lines) <= dist.n
  <2>1. Len(lines) = 1 /\ 1 \in DOMAIN lines /\ lines[1] \in Line
    BY <1>3, <1>8
  <2>2. Good(lines) = G[1] /\ Bad(lines) = B[1]
    BY <1>5, <1>6, <2>1, TallyIs
  <2>3. G[1] = lines[1].good /\ B[1] = lines[1].bad
    BY <2>1
  <2>4. QED
    BY <1>2, <2>1, <2>2, <2>3
<1>9. QED
  BY <1>3, <1>7, <1>8

\* What was dispatched arrives, broken or not, or is missing.
LEMMA ReceiveIInv ==
  ASSUME IInv, NEW w \in Op, Receive(w) PROVE IInv'
<1>0. PICK lines \in Lines :
        /\ Commit(w, "receive", {"distribution", Shop})
        /\ heard[w].distribution.status = "in_transit"
        /\ \E b \in Upsert(w, Shop, Held(w, Shop) + Good(lines)) :
              bal' = [bal EXCEPT ![Shop] = b]
        /\ Record(Shop, Good(lines))
        /\ dist' = [dist EXCEPT !.status = "received"]
        /\ broken' = broken + Bad(lines)
        /\ missing' = missing + Larger(dist.n - Good(lines) - Bad(lines), 0)
        /\ repeated' = (repeated \/ Len(lines) = 2)
        /\ UNCHANGED <<deducted, sold, short, added, request, dropped, unasked>>
  BY DEF Receive
<1>1. PICK g, h, q : g = Good(lines) /\ h = Bad(lines) /\ q = Held(w, Shop) + g
  OBVIOUS
<1>2. PICK b \in Upsert(w, Shop, q) : bal' = [bal EXCEPT ![Shop] = b]
  BY <1>0, <1>1
<1>3. /\ TypeOK /\ Quantities /\ Shop \in Store /\ MustRead(w, Shop)
      /\ MustRead(w, "distribution")
  BY <1>0 DEF IInv, Commit, MustRead, Reads, Store
<1>4. /\ g \in Nat /\ h \in Nat /\ Len(lines) \in {1, 2}
      /\ Len(lines) # 2 => g + h <= dist.n
  BY <1>1, <1>3, LinesGive
<1>5. g \in Int /\ q \in Nat
  BY <1>1, <1>3, <1>4, HeldType
<1>6. moved' = [moved EXCEPT ![Shop] = @ + g]
  BY <1>0, <1>1 DEF Record
<1>7. /\ bal' \in [Store -> Seq(Nat)] /\ moved' \in [Store -> Int]
      /\ \A t \in Store \ {Shop} : bal'[t] = bal[t] /\ moved'[t] = moved[t]
      /\ moved'[Shop] = moved[Shop] + g
      /\ read[w][Shop] = bal[Shop] /\ Len(bal[Shop]) <= 1
           => Len(bal'[Shop]) <= 1 /\ Tally(bal'[Shop]) = Units(Shop) + g
  BY <1>1, <1>2, <1>3, <1>5, <1>6, RowGives
<1>8. /\ dist' \in Dist /\ broken' \in Nat /\ missing' \in Nat /\ repeated' \in BOOLEAN
  <2>1. dist \in Dist /\ dist.n \in Nat /\ broken \in Nat /\ missing \in Nat
    BY <1>3, Numbers
  <2>2. dist' \in Dist
    BY <1>0, <2>1 DEF Dist, DistStatus
  <2>3. Larger(dist.n - g - h, 0) \in Nat
    BY <1>4, <2>1 DEF Larger
  <2>4. broken' = broken + h /\ missing' = missing + Larger(dist.n - g - h, 0)
    BY <1>0, <1>1
  <2>5. broken' \in Nat /\ missing' \in Nat
    BY <1>4, <2>1, <2>3, <2>4
  <2>6. repeated' \in BOOLEAN
    BY <1>0, <1>3, Numbers
  <2>7. QED
    BY <2>2, <2>5, <2>6
<1>9. (TypeOK /\ Quantities)'
  BY <1>0, <1>3, <1>7, <1>8, Numbers, CommitTypes
<1>10. ASSUME ~raced', ~repeated'
       PROVE  /\ ~repeated
              /\ g + (InTransit' - InTransit) + (broken' - broken) + (missing' - missing) = 0
  <2>1. ~repeated /\ g + h <= dist.n
    BY <1>0, <1>4, <1>10
  <2>2. InTransit = dist.n
    <3>1. "distribution" \in Store \cup Doc
      BY DEF Doc
    <3>2. heard[w].distribution = dist
      BY <1>0, <1>3, <1>10, <3>1, CommitFresh DEF Current
    <3>3. QED
      BY <1>0, <3>2 DEF InTransit
  <2>3. InTransit' = 0
    <3>1. dist'.status = "received"
      BY <1>0, <1>3, Numbers DEF Dist
    <3>2. QED
      BY <3>1 DEF InTransit
  <2>4. PICK n, x, y : n = dist.n /\ x = broken /\ y = missing
    OBVIOUS
  <2>5. n \in Nat /\ x \in Nat /\ y \in Nat
    BY <1>3, <2>4, Numbers
  <2>6. Larger(n - g - h, 0) = n - g - h
    BY <1>4, <2>1, <2>4, <2>5 DEF Larger
  <2>7. broken' = x + h /\ missing' = y + (n - g - h)
    BY <1>0, <1>1, <2>4, <2>6
  <2>8. g + (0 - n) + ((x + h) - x) + ((y + (n - g - h)) - y) = 0
    BY <1>4, <2>5
  <2>9. QED
    BY <2>1, <2>2, <2>3, <2>4, <2>7, <2>8
<1>11. ~raced' => Accounts'
  BY <1>0, <1>3, <1>5, <1>7, <1>9, <1>10, RowAccounts
<1>12. QED
  BY <1>0, <1>7, <1>9, <1>11, CommitIInv

\* What was dispatched comes back.
LEMMA CancelIInv ==
  ASSUME IInv, NEW w \in Op, Cancel(w) PROVE IInv'
<1>0. PICK n, q : n = dist.n /\ q = Held(w, Warehouse) + n
  OBVIOUS
<1>1. /\ Commit(w, "cancel", {"distribution", Warehouse})
      /\ heard[w].distribution.status = "in_transit"
      /\ dist' = [dist EXCEPT !.status = "cancelled"]
      /\ moved' = [moved EXCEPT ![Warehouse] = @ + n]
      /\ UNCHANGED <<deducted, sold, short, added, request, broken, missing, dropped,
                     unasked, repeated>>
  BY <1>0 DEF Cancel, Record, tallyVars
<1>2. PICK b \in Upsert(w, Warehouse, q) : bal' = [bal EXCEPT ![Warehouse] = b]
  BY <1>0 DEF Cancel
<1>3. /\ TypeOK /\ Quantities /\ Warehouse \in Store /\ MustRead(w, Warehouse)
      /\ MustRead(w, "distribution")
  BY <1>1 DEF IInv, Commit, MustRead, Reads, Store
<1>4. n \in Nat /\ n \in Int /\ Held(w, Warehouse) \in Nat
  BY <1>0, <1>3, HeldType, Numbers
<1>5. q \in Nat
  BY <1>0, <1>4
<1>6. /\ bal' \in [Store -> Seq(Nat)] /\ moved' \in [Store -> Int]
      /\ \A t \in Store \ {Warehouse} : bal'[t] = bal[t] /\ moved'[t] = moved[t]
      /\ moved'[Warehouse] = moved[Warehouse] + n
      /\ read[w][Warehouse] = bal[Warehouse] /\ Len(bal[Warehouse]) <= 1
           => Len(bal'[Warehouse]) <= 1 /\ Tally(bal'[Warehouse]) = Units(Warehouse) + n
  BY ZenonT(60), <1>0, <1>1, <1>2, <1>3, <1>4, <1>5, RowGives
<1>7. dist' \in Dist /\ dist'.status = "cancelled"
  BY <1>1, <1>3, Numbers DEF Dist, DistStatus
<1>8. (TypeOK /\ Quantities)'
  BY <1>1, <1>3, <1>6, <1>7, Numbers, CommitTypes
<1>9. ASSUME ~raced'
      PROVE  n + (InTransit' - InTransit) + (broken' - broken) + (missing' - missing) = 0
  <2>1. "distribution" \in Store \cup Doc
    BY DEF Doc
  <2>2. heard[w].distribution = dist
    BY <1>1, <1>3, <1>9, <2>1, CommitFresh DEF Current
  <2>3. InTransit = n /\ InTransit' = 0
    BY <1>0, <1>1, <1>7, <2>2 DEF InTransit
  <2>4. broken \in Nat /\ missing \in Nat
    BY <1>3, Numbers
  <2>5. QED
    BY <1>1, <1>4, <2>3, <2>4
<1>10. ~raced' => Accounts'
  BY <1>1, <1>3, <1>4, <1>6, <1>8, <1>9, RowAccounts
<1>11. QED
  BY <1>1, <1>6, <1>8, <1>10, CommitIInv


-----------------------------------------------------------------------------
(* Sales.                                                                  *)

\* A sale takes its units, or whatever it found.
LEMMA TakenIs ==
  ASSUME TypeOK, Quantities, NEW w \in Op
  PROVE  /\ Taken(w) \in Nat /\ Taken(w) <= Held(w, job[w].src) /\ Taken(w) <= job[w].n
         /\ job[w].n <= Held(w, job[w].src) => Taken(w) = job[w].n
<1>1. PICK h, n : h = Held(w, job[w].src) /\ n = job[w].n
  OBVIOUS
<1>2. h \in Nat /\ n \in Nat
  BY <1>1, HeldType, Numbers
<1>3. Taken(w) = h - (IF h - n > 0 THEN h - n ELSE 0)
  BY <1>1 DEF Taken, Larger
<1>4. QED
  BY <1>1, <1>2, <1>3

\* The row that was read loses them; a store without a row gets an empty one.
LEMMA DeductedGives ==
  ASSUME TypeOK, Quantities, NEW w \in Op, NEW s \in Store, s = job[w].src, Deducted(w)
  PROVE  /\ bal' \in [Store -> Seq(Nat)] /\ \A t \in Store \ {s} : bal'[t] = bal[t]
         /\ read[w][s] = bal[s] /\ Len(bal[s]) <= 1
              => Len(bal'[s]) <= 1 /\ Tally(bal'[s]) = Units(s) - Taken(w)
<1>1. PICK h, n, q, x : /\ h = Held(w, s) /\ n = Taken(w) /\ q = h - n
                        /\ x = IF read[w][s] = <<>> THEN Append(bal[s], 0)
                               ELSE Overwrite(w, s, q)
  OBVIOUS
<1>2. h \in Nat /\ n \in Nat /\ n <= h /\ q \in Nat
  <2>1. h \in Nat /\ n \in Nat /\ n <= h
    BY <1>1, HeldType, TakenIs
  <2>2. QED
    BY <1>1, <2>1
<1>3. bal[s] \in Seq(Nat) /\ 0 \in Nat /\ Append(bal[s], 0) \in Seq(Nat)
  BY AppendProperties DEF Quantities
<1>4. x \in Seq(Nat)
  BY <1>1, <1>2, <1>3, OverwriteGives
<1>5. bal' = [bal EXCEPT ![s] = x]
  BY <1>1 DEF Deducted
<1>6. bal' \in [Store -> Seq(Nat)] /\ bal'[s] = x /\ \A t \in Store \ {s} : bal'[t] = bal[t]
  BY <1>4, <1>5 DEF Quantities
<1>7. ASSUME read[w][s] = bal[s], Len(bal[s]) <= 1
      PROVE  Len(x) <= 1 /\ Tally(x) = Units(s) - n
  <2>1. Units(s) = h
    BY <1>1, <1>7, UnitsAre
  <2>2. CASE bal[s] = <<>>
    <3>1. h = 0 /\ n = 0
      BY <1>1, <1>2, <1>7, <2>2 DEF Held
    <3>2. PICK one : one = <<0>>
      OBVIOUS
    <3>3. x = one /\ one \in Seq(Nat) /\ Len(one) = 1 /\ one[1] = 0
      BY <1>1, <1>7, <2>2, <3>2
    <3>4. Tally(one) = 0
      BY <3>3, TallyIs
    <3>5. QED
      BY <2>1, <3>1, <3>3, <3>4
  <2>3. CASE bal[s] # <<>>
    <3>1. PICK b : b = bal[s]
      OBVIOUS
    <3>2. Len(b) = 1
      BY <1>3, <1>7, <2>3, <3>1, OneRow
    <3>3. x = Overwrite(w, s, q)
      BY <1>1, <1>7, <2>3
    <3>4. Len(x) = 1 /\ Tally(x) = q
      BY <1>2, <1>7, <3>1, <3>2, <3>3, OverwriteGives
    <3>5. Len(x) <= 1
      BY <3>4
    <3>6. Units(s) - n = q
      BY <1>1, <2>1
    <3>7. QED
      BY <3>4, <3>5, <3>6
  <2>4. QED
    BY <2>2, <2>3
<1>8. QED
  BY <1>1, <1>6, <1>7

\* The accounts after a sale, a deduction or a return: the store gains d units
\* and its customers e.
LEMMA SaleAccounts ==
  ASSUME IInv, NEW w \in Op, NEW k, NEW W, Commit(w, k, W), ~raced',
         (TypeOK /\ Quantities)', NEW s \in Store, MustRead(w, s), NEW d \in Int, NEW e \in Int,
         \A t \in Store \ {s} : bal'[t] = bal[t] /\ moved'[t] = moved[t]
                                  /\ deducted'[t] = deducted[t] /\ sold'[t] = sold[t],
         read[w][s] = bal[s] /\ Len(bal[s]) <= 1
           => Len(bal'[s]) <= 1 /\ Tally(bal'[s]) = Units(s) + d,
         moved'[s] - deducted'[s] = moved[s] - deducted[s] + d,
         sold'[s] = sold[s] + e,
         UNCHANGED <<dist, broken, missing, added, repeated>>,
         d + e + (dropped' - dropped) = short' - short,
         ~unasked' => short' = 0
  PROVE  Accounts'
<1>1. TypeOK /\ Quantities /\ UnitsConserved /\ BalanceExplained
  BY DEF IInv
<1>2. ~raced /\ Len(bal'[s]) <= 1 /\ Tally(bal'[s]) = Units(s) + d
  BY CommitFresh DEF Current
<1>3. /\ BalanceExplained'
      /\ Units(Warehouse)' + Units(Shop)' = Units(Warehouse) + Units(Shop) + d
  <2>1. \A t \in Store \ {s} : bal'[t] = bal[t] /\ moved'[t] = moved[t]
                                 /\ deducted'[t] = deducted[t]
    OBVIOUS
  <2>2. QED
    BY <1>1, <1>2, <2>1, OneStore
<1>4. sold'[Warehouse] + sold'[Shop] = sold[Warehouse] + sold[Shop] + e
  <2>1. sold' \in [Store -> Nat] /\ \A t \in Store \ {s} : sold'[t] = sold[t]
    BY DEF TypeOK
  <2>2. QED
    BY <1>1, <2>1, SoldChanges
<1>5. ASSUME ~repeated'
      PROVE  /\ ~repeated
             /\ d + e + (InTransit' - InTransit) + (broken' - broken) + (missing' - missing)
                  + (dropped' - dropped) = (added' - added) + (short' - short)
  <2>1. PICK i, b, m, a, p, q, h, j :
          /\ i = InTransit /\ b = broken /\ m = missing /\ a = added
          /\ p = dropped /\ q = dropped' /\ h = short /\ j = short'
    OBVIOUS
  <2>2. /\ i \in Int /\ b \in Int /\ m \in Int /\ a \in Int /\ p \in Int /\ h \in Int
    BY <1>1, <2>1, Numbers
  <2>3. q \in Int /\ j \in Int
    BY <2>1 DEF TypeOK
  <2>4. d + e + (q - p) = j - h
    BY <2>1
  <2>5. d + e + (i - i) + (b - b) + (m - m) + (q - p) = (a - a) + (j - h)
    BY <2>2, <2>3, <2>4
  <2>6. InTransit' = i /\ broken' = b /\ missing' = m /\ added' = a /\ ~repeated
    BY <1>5, <2>1 DEF InTransit
  <2>7. QED
    BY <2>1, <2>5, <2>6
<1>6. UnitsConserved'
  BY <1>1, <1>2, <1>3, <1>4, <1>5, Balanced
<1>7. QED
  BY <1>3, <1>6 DEF Accounts

\* A sale that was checked finds every unit it sells.
LEMMA SellIInv ==
  ASSUME IInv, NEW w \in Op, Sell(w) PROVE IInv'
<1>0. PICK s, n, t, d, h : /\ s = job[w].src /\ n = job[w].n /\ t = Taken(w) /\ d = 0 - t
                           /\ h = short
  OBVIOUS
<1>1. /\ Commit(w, "sell", {s}) /\ Deducted(w)
      /\ deducted' = [deducted EXCEPT ![s] = @ + t]
      /\ sold' = [sold EXCEPT ![s] = @ + n] /\ short' = h + n - t
      /\ UNCHANGED <<moved, added, request, dist, broken, missing, dropped, unasked, repeated>>
  BY <1>0 DEF Sell, docVars, tallyVars
<1>2. TypeOK /\ Quantities /\ s \in Store /\ n \in Nat /\ MustRead(w, s)
  BY <1>0, <1>1, Numbers DEF IInv, Commit, MustRead, Reads
<1>3. t \in Nat /\ h \in Int /\ d \in Int /\ n \in Int /\ (n <= Held(w, s) => t = n)
  BY <1>0, <1>2, TakenIs, Numbers
<1>4. /\ bal' \in [Store -> Seq(Nat)] /\ \A u \in Store \ {s} : bal'[u] = bal[u]
      /\ read[w][s] = bal[s] /\ Len(bal[s]) <= 1
           => Len(bal'[s]) <= 1 /\ Tally(bal'[s]) = Units(s) - t
  BY <1>0, <1>1, <1>2, DeductedGives
<1>5. /\ deducted' \in [Store -> Nat] /\ deducted'[s] = deducted[s] + t
      /\ sold' \in [Store -> Nat] /\ sold'[s] = sold[s] + n /\ sold'[s] >= sold[s]
      /\ \A u \in Store \ {s} : deducted'[u] = deducted[u] /\ sold'[u] = sold[u]
  BY <1>1, <1>2, <1>3, Numbers
<1>6. short' \in Int
  BY <1>1, <1>3
<1>7. (TypeOK /\ Quantities)'
  BY <1>1, <1>2, <1>4, <1>5, <1>6, Numbers, CommitTypes
<1>8. ASSUME ~raced' PROVE Accounts'
  <2>1. read[w][s] = bal[s] /\ Len(bal[s]) <= 1
          => Len(bal'[s]) <= 1 /\ Tally(bal'[s]) = Units(s) + d
    BY <1>0, <1>2, <1>3, <1>4, UnitsAre
  <2>2. moved'[s] - deducted'[s] = moved[s] - deducted[s] + d
    <3>1. PICK m, c : m = moved[s] /\ c = deducted[s]
      OBVIOUS
    <3>2. m \in Int /\ c \in Int /\ moved'[s] = m /\ deducted'[s] = c + t
      BY <1>1, <1>2, <1>5, <3>1, Numbers
    <3>3. m - (c + t) = m - c + d
      BY <1>0, <1>3, <3>2
    <3>4. QED
      BY <3>1, <3>2, <3>3
  <2>3. d + n + (dropped' - dropped) = short' - short
    <3>1. PICK p : p = dropped
      OBVIOUS
    <3>2. p \in Int /\ dropped' = p
      BY <1>1, <1>2, <3>1, Numbers
    <3>3. d + n + (p - p) = (h + n - t) - h
      BY <1>0, <1>3, <3>2
    <3>4. QED
      BY <1>0, <1>1, <3>1, <3>2, <3>3
  <2>4. ~unasked' => short' = 0
    <3>1. ~raced /\ n <= Units(s) /\ Held(w, s) = Units(s)
      BY <1>0, <1>1, <1>2, <1>8, CommitFresh
    <3>2. t = n
      BY <1>3, <3>1
    <3>3. ~unasked => h = 0
      BY <1>0, <3>1 DEF IInv, UnitsConserved
    <3>4. QED
      BY <1>1, <1>3, <3>2, <3>3
  <2>5. \A u \in Store \ {s} : bal'[u] = bal[u] /\ moved'[u] = moved[u]
                                 /\ deducted'[u] = deducted[u] /\ sold'[u] = sold[u]
    BY <1>1, <1>4, <1>5
  <2>6. QED
    BY <1>1, <1>2, <1>3, <1>5, <1>7, <1>8, <2>1, <2>2, <2>3, <2>4, <2>5, SaleAccounts
<1>9. \A u \in Store : sold'[u] = sold[u] \/ sold'[u] >= sold[u]
  BY <1>5
<1>10. QED
  BY <1>1, <1>4, <1>7, <1>8, <1>9, CommitIInv

\* The deduction after a sale charges what the sale left short.
LEMMA DeductIInv ==
  ASSUME IInv, NEW w \in Op, Deduct(w) PROVE IInv'
<1>0. PICK s, t, d, h : s = job[w].src /\ t = Taken(w) /\ d = 0 - t /\ h = short
  OBVIOUS
<1>1. /\ Commit(w, "deduct", {s}) /\ Deducted(w)
      /\ deducted' = [deducted EXCEPT ![s] = @ + t] /\ short' = h - t
      /\ UNCHANGED <<moved, sold, added, request, dist, broken, missing, dropped, unasked,
                     repeated>>
  BY <1>0 DEF Deduct, docVars, tallyVars
<1>2. TypeOK /\ Quantities /\ s \in Store /\ MustRead(w, s) /\ unasked
  BY <1>0, <1>1, Numbers DEF IInv, Commit, Sensible, MustRead, Reads
<1>3. t \in Nat /\ h \in Int /\ d \in Int
  BY <1>0, <1>2, TakenIs, Numbers
<1>4. /\ bal' \in [Store -> Seq(Nat)] /\ \A u \in Store \ {s} : bal'[u] = bal[u]
      /\ read[w][s] = bal[s] /\ Len(bal[s]) <= 1
           => Len(bal'[s]) <= 1 /\ Tally(bal'[s]) = Units(s) - t
  BY <1>0, <1>1, <1>2, DeductedGives
<1>5. /\ deducted' \in [Store -> Nat] /\ deducted'[s] = deducted[s] + t
      /\ \A u \in Store \ {s} : deducted'[u] = deducted[u]
  BY <1>1, <1>2, <1>3, Numbers
<1>6. short' \in Int /\ sold[s] \in Nat /\ 0 \in Int
  BY <1>1, <1>2, <1>3, Numbers
<1>7. (TypeOK /\ Quantities)'
  BY <1>1, <1>2, <1>4, <1>5, <1>6, Numbers, CommitTypes
<1>8. ASSUME ~raced' PROVE Accounts'
  <2>1. read[w][s] = bal[s] /\ Len(bal[s]) <= 1
          => Len(bal'[s]) <= 1 /\ Tally(bal'[s]) = Units(s) + d
    BY <1>0, <1>2, <1>3, <1>4, UnitsAre
  <2>2. moved'[s] - deducted'[s] = moved[s] - deducted[s] + d
    <3>1. PICK m, c : m = moved[s] /\ c = deducted[s]
      OBVIOUS
    <3>2. m \in Int /\ c \in Int /\ moved'[s] = m /\ deducted'[s] = c + t
      BY <1>1, <1>2, <1>5, <3>1, Numbers
    <3>3. m - (c + t) = m - c + d
      BY <1>0, <1>3, <3>2
    <3>4. QED
      BY <3>1, <3>2, <3>3
  <2>3. d + 0 + (dropped' - dropped) = short' - short
    <3>1. PICK p : p = dropped
      OBVIOUS
    <3>2. p \in Int /\ dropped' = p
      BY <1>1, <1>2, <3>1, Numbers
    <3>3. d + 0 + (p - p) = (h - t) - h
      BY <1>0, <1>3, <3>2
    <3>4. QED
      BY <1>0, <1>1, <3>1, <3>2, <3>3
  <2>4. \A u \in Store \ {s} : bal'[u] = bal[u] /\ moved'[u] = moved[u]
                                 /\ deducted'[u] = deducted[u] /\ sold'[u] = sold[u]
    BY <1>1, <1>4, <1>5
  <2>5. sold'[s] = sold[s] + 0 /\ (~unasked' => short' = 0)
    BY <1>1, <1>2, <1>6
  <2>6. QED
    BY <1>1, <1>2, <1>3, <1>6, <1>7, <1>8, <2>1, <2>2, <2>3, <2>4, <2>5, SaleAccounts
<1>9. QED
  BY <1>1, <1>4, <1>7, <1>8, CommitIInv

\* What is brought back is in the store again, or dropped.
LEMMA RestockIInv ==
  ASSUME IInv, NEW w \in Op, Restock(w) PROVE IInv'
<1>0. PICK s, n, e, q : /\ s = job[w].src /\ n = job[w].n /\ e = 0 - n
                        /\ q = Held(w, s) + n
  OBVIOUS
<1>1. /\ Commit(w, "restock", {s})
      /\ sold' = [sold EXCEPT ![s] = @ - n]
      /\ UNCHANGED <<deducted, short, added, request, dist, broken, missing, unasked, repeated>>
  BY <1>0 DEF Restock, docVars
<1>2. \/ /\ read[w][s] # <<>> /\ bal' = [bal EXCEPT ![s] = Overwrite(w, s, q)]
         /\ moved' = [moved EXCEPT ![s] = @ + n] /\ dropped' = dropped
      \/ read[w][s] = <<>> /\ dropped' = dropped + n /\ bal' = bal /\ moved' = moved
  BY <1>0 DEF Restock, Record
<1>3. TypeOK /\ Quantities /\ s \in Store /\ n \in Nat /\ MustRead(w, s) /\ n <= sold[s]
  BY <1>0, <1>1, Numbers DEF IInv, Commit, Sensible, MustRead, Reads
<1>4. n \in Int /\ e \in Int /\ 0 \in Int /\ Held(w, s) \in Nat /\ q \in Nat
  BY <1>0, <1>3, HeldType
<1>5. /\ sold' \in [Store -> Nat] /\ sold'[s] = sold[s] + e
      /\ \A u \in Store \ {s} : sold'[u] = sold[u]
  <2>1. PICK x : x = sold[s]
    OBVIOUS
  <2>2. sold \in [Store -> Nat] /\ x \in Nat /\ x - n \in Nat /\ x - n = x + e
    BY <1>0, <1>3, <2>1, Numbers
  <2>3. sold' = [sold EXCEPT ![s] = x - n]
    BY <1>1, <2>1
  <2>4. QED
    BY <1>3, <2>1, <2>2, <2>3
<1>6. PICK d \in {0, n} :
        /\ bal' \in [Store -> Seq(Nat)] /\ moved' \in [Store -> Int] /\ dropped' \in Nat
        /\ \A u \in Store \ {s} : bal'[u] = bal[u] /\ moved'[u] = moved[u]
        /\ moved'[s] = moved[s] + d /\ dropped' = dropped + (n - d)
        /\ read[w][s] = bal[s] /\ Len(bal[s]) <= 1
             => Len(bal'[s]) <= 1 /\ Tally(bal'[s]) = Units(s) + d
  <2>1. /\ dropped \in Nat /\ moved \in [Store -> Int] /\ moved[s] \in Int
        /\ bal \in [Store -> Seq(Nat)] /\ Units(s) \in Nat
    BY <1>3, Numbers, UnitsAre DEF Quantities
  <2>2. CASE read[w][s] # <<>> /\ bal' = [bal EXCEPT ![s] = Overwrite(w, s, q)]
             /\ moved' = [moved EXCEPT ![s] = @ + n] /\ dropped' = dropped
    <3>1. PICK b, x : b = Overwrite(w, s, q) /\ x = bal[s]
      OBVIOUS
    <3>2. b \in Seq(Nat) /\ x \in Seq(Nat)
      BY <1>3, <1>4, <2>1, <3>1, OverwriteGives
    <3>3. bal' \in [Store -> Seq(Nat)] /\ bal'[s] = b /\ \A u \in Store \ {s} : bal'[u] = bal[u]
      BY <1>3, <2>1, <2>2, <3>1, <3>2
    <3>4. /\ moved' \in [Store -> Int] /\ moved'[s] = moved[s] + n
          /\ \A u \in Store \ {s} : moved'[u] = moved[u]
      BY <1>3, <1>4, <2>1, <2>2
    <3>5. ASSUME read[w][s] = x, Len(x) <= 1
          PROVE  Len(b) <= 1 /\ Tally(b) = Units(s) + n
      <4>1. Len(x) = 1
        BY <2>2, <3>2, <3>5, OneRow
      <4>2. Len(b) = 1 /\ Tally(b) = q
        BY <1>3, <1>4, <3>1, <3>5, <4>1, OverwriteGives
      <4>3. Units(s) = Held(w, s)
        BY <1>3, <3>1, <3>5, UnitsAre
      <4>4. QED
        BY <1>0, <4>2, <4>3
    <3>6. dropped' = dropped + (n - n) /\ dropped' \in Nat
      BY <1>4, <2>1, <2>2
    <3>7. QED
      BY <3>1, <3>3, <3>4, <3>5, <3>6
  <2>3. CASE read[w][s] = <<>> /\ dropped' = dropped + n /\ bal' = bal /\ moved' = moved
    <3>1. dropped' = dropped + (n - 0) /\ dropped' \in Nat /\ moved'[s] = moved[s] + 0
      BY <1>3, <2>1, <2>3
    <3>2. Tally(bal'[s]) = Units(s) + 0
      BY <2>1, <2>3 DEF Units
    <3>3. QED
      BY <2>1, <2>3, <3>1, <3>2
  <2>4. QED
    BY <1>2, <2>2, <2>3
<1>7. (TypeOK /\ Quantities)'
  BY <1>1, <1>3, <1>5, <1>6, Numbers, CommitTypes
<1>8. d \in Int
  BY <1>4
<1>9. ASSUME ~raced' PROVE Accounts'
  <2>1. moved'[s] - deducted'[s] = moved[s] - deducted[s] + d
    <3>1. PICK m, c : m = moved[s] /\ c = deducted[s]
      OBVIOUS
    <3>2. m \in Int /\ c \in Int /\ moved'[s] = m + d /\ deducted'[s] = c
      BY <1>1, <1>3, <1>6, <3>1, Numbers
    <3>3. (m + d) - c = m - c + d
      BY <1>8, <3>2
    <3>4. QED
      BY <3>1, <3>2, <3>3
  <2>2. d + e + (dropped' - dropped) = short' - short
    <3>1. PICK p, h : p = dropped /\ h = short
      OBVIOUS
    <3>2. p \in Int /\ h \in Int /\ dropped' = p + (n - d) /\ short' = h
      BY <1>1, <1>3, <1>6, <3>1, Numbers
    <3>3. d + e + ((p + (n - d)) - p) = h - h
      BY <1>0, <1>4, <1>8, <3>2
    <3>4. QED
      BY <3>1, <3>2, <3>3
  <2>3. ~unasked' => short' = 0
    BY <1>1, <1>9, CommitFresh DEF IInv, UnitsConserved
  <2>4. \A u \in Store \ {s} : bal'[u] = bal[u] /\ moved'[u] = moved[u]
                                 /\ deducted'[u] = deducted[u] /\ sold'[u] = sold[u]
    BY <1>1, <1>5, <1>6
  <2>5. QED
    BY <1>1, <1>3, <1>4, <1>5, <1>6, <1>7, <1>8, <1>9, <2>1, <2>2, <2>3, <2>4, SaleAccounts
<1>10. \A u \in Store : sold'[u] = sold[u] \/ u = s
  BY <1>5
<1>11. QED
  BY <1>0, <1>1, <1>6, <1>7, <1>9, <1>10, CommitIInv

-----------------------------------------------------------------------------
(* Operations that begin, and what they read.                              *)

\* The types when a session begins.
LEMMA BeginTypes ==
  ASSUME TypeOK, Quantities, NEW w \in Op, NEW k \in Kind, NEW s \in Store, NEW t \in Store,
         NEW n \in 0 .. MaxQty, NEW list \in Seq(Thing), Begin(w, k, s, t, n, list),
         sold' \in [Store -> Nat], short' \in Int, unasked' \in BOOLEAN
  PROVE  (TypeOK /\ Quantities)'
<1>1. /\ job' \in [Op -> Job] /\ todo' \in [Op -> Seq(Thing)] /\ ops' \in 0 .. MaxOps
      /\ UNCHANGED <<bal, moved, deducted, added, request, dist, broken, missing,
                     dropped, repeated, raced, read, heard, seen, stale>>
  BY BeginType
<1>2. QED
  BY <1>1 DEF TypeOK, Quantities, Job, Thing

\* The rest of the invariant, when its list covers what its kind must read.
LEMMA BeginIInv ==
  ASSUME IInv, NEW w \in Op, NEW k \in Kind, NEW s \in Store, NEW t \in Store,
         NEW n \in 0 .. MaxQty, NEW list \in Seq(Thing), Begin(w, k, s, t, n, list),
         \A x \in Store \cup Doc : Reads(k, s, t, x) => \E i \in DOMAIN list : list[i] = x,
         k = "sell" => \E i \in DOMAIN list : list[i] = "check",
         k = "transfer" => s # t, k = "deduct" => unasked', unasked => unasked',
         k = "restock" => /\ n <= sold[s]
                          /\ \A v \in Op : job[v].kind # "restock" \/ job[v].src # s,
         \A u \in Store : sold'[u] >= sold[u], sold' \in [Store -> Nat],
         (TypeOK /\ Quantities)', Accounts'
  PROVE  IInv'
<1>1. TypeOK /\ \A v \in Op : Knows(v) /\ Checked(v) /\ Sensible(v)
  BY DEF IInv
<1>2. \A v \in Op : (Knows(v) /\ Checked(v))'
  BY <1>1, BeginKnows
<1>3. /\ job'[w].kind = k /\ job'[w].src = s /\ job'[w].dst = t /\ job'[w].n = n
      /\ \A v \in Op \ {w} : job'[v] = job[v]
  BY <1>1 DEF Begin, TypeOK
<1>4. ASSUME NEW u \in Store, NEW m \in Nat, m <= sold[u] PROVE m <= sold'[u]
  <2>1. PICK x, y : x = sold[u] /\ y = sold'[u]
    OBVIOUS
  <2>2. x \in Nat /\ y \in Nat /\ y >= x /\ m <= x
    BY <1>1, <1>4, <2>1, Numbers
  <2>3. m <= y
    BY <2>2
  <2>4. QED
    BY <2>1, <2>3
<1>5. n \in Nat
  BY StockAssumption
<1>6. ASSUME NEW v \in Op PROVE Sensible(v)'
  <2>1. CASE v = w
    <3>1. k = "restock" => n <= sold'[s]
      BY <1>4, <1>5
    <3>2. QED
      BY <1>3, <2>1, <3>1 DEF Sensible
  <2>2. CASE v # w
    <3>1. job'[v] = job[v] /\ job[v].src \in Store /\ job[v].n \in Nat
      BY <1>1, <1>3, <2>2, Numbers
    <3>2. Sensible(v)
      BY <1>1
    <3>3. job[v].kind = "restock" => job[v].n <= sold'[job[v].src]
      BY <1>4, <3>1, <3>2 DEF Sensible
    <3>4. ASSUME job[v].kind = "restock", NEW u \in Op, job'[u].kind = "restock",
                 job'[u].src = job[v].src
          PROVE  u = v
      BY <1>3, <3>2, <3>4 DEF Sensible
    <3>5. QED
      BY <3>1, <3>2, <3>3, <3>4 DEF Sensible
  <2>3. QED
    BY <2>1, <2>2
<1>7. QED
  BY <1>2, <1>6 DEF IInv, Accounts

\* Any operation that begins with no more than that.
LEMMA QuietBeginIInv ==
  ASSUME IInv, NEW w \in Op, NEW k \in Kind, NEW s \in Store, NEW t \in Store,
         NEW n \in 0 .. MaxQty, NEW list \in Seq(Thing), Begin(w, k, s, t, n, list),
         \A x \in Store \cup Doc : Reads(k, s, t, x) => \E i \in DOMAIN list : list[i] = x,
         k = "sell" => \E i \in DOMAIN list : list[i] = "check",
         k = "transfer" => s # t, k # "deduct",
         k = "restock" => /\ n <= sold[s]
                          /\ \A v \in Op : job[v].kind # "restock" \/ job[v].src # s,
         UNCHANGED <<sold, short, unasked>>
  PROVE  IInv'
<1>1. TypeOK /\ Quantities /\ UnitsConserved /\ BalanceExplained
  BY DEF IInv
<1>2. sold' \in [Store -> Nat] /\ short' \in Int /\ unasked' \in BOOLEAN
  BY <1>1, Numbers
<1>3. (TypeOK /\ Quantities)'
  BY <1>1, <1>2, BeginTypes
<1>4. Accounts'
  BY <1>1, QuietAccounts DEF Begin, docVars
<1>5. \A u \in Store : sold'[u] >= sold[u]
  BY <1>2
<1>6. QED
  BY <1>2, <1>3, <1>4, <1>5, BeginIInv

\* Each kind has what it reads on its list.
LEMMA StartIInv ==
  ASSUME IInv, NEW w \in Op, Start(w) PROVE IInv'
<1>1. /\ UNCHANGED <<sold, short, unasked>>
      /\ Warehouse \in Store /\ Shop \in Store /\ Lot \subseteq 1 .. MaxQty
      /\ MaxQty \in Nat \ {0} /\ 1 .. MaxQty \subseteq 0 .. MaxQty /\ Qty = 1 .. MaxQty
  BY StockAssumption DEF Start, Store, Qty
<1>2. 1 \in 0 .. MaxQty
  BY <1>1
<1>3. CASE \E s \in Store, n \in Lot : Begin(w, "adjust", s, s, n, <<s>>)
  <2>1. PICK s \in Store, n \in Lot : Begin(w, "adjust", s, s, n, <<s>>)
    BY <1>3
  <2>2. PICK list, k : list = <<s>> /\ k = "adjust"
    OBVIOUS
  <2>3. /\ list \in Seq(Thing) /\ 1 \in DOMAIN list /\ list[1] = s /\ k \in Kind
    BY <2>2 DEF Thing, Kind
  <2>4. QED
    BY <1>1, <2>1, <2>2, <2>3, QuietBeginIInv DEF Reads
<1>4. CASE \E s, t \in Store, n \in Lot : s # t /\ Begin(w, "transfer", s, t, n, <<s, t>>)
  <2>1. PICK s \in Store, t \in Store, n \in Lot :
          s # t /\ Begin(w, "transfer", s, t, n, <<s, t>>)
    BY <1>4
  <2>2. PICK list, k : list = <<s, t>> /\ k = "transfer"
    OBVIOUS
  <2>3. /\ list \in Seq(Thing) /\ 1 \in DOMAIN list /\ 2 \in DOMAIN list
        /\ list[1] = s /\ list[2] = t /\ k \in Kind
    BY <2>2 DEF Thing, Kind
  <2>4. /\ \A x \in Store \cup Doc : Reads(k, s, t, x) => \E i \in DOMAIN list : list[i] = x
        /\ k = "sell" => \E i \in DOMAIN list : list[i] = "check"
        /\ k # "deduct" /\ k # "restock"
    BY <2>2, <2>3 DEF Reads
  <2>5. s # t /\ Begin(w, k, s, t, n, list) /\ n \in 0 .. MaxQty
    BY <1>1, <2>1, <2>2
  <2>6. QED
    BY <1>1, <2>3, <2>4, <2>5, QuietBeginIInv
<1>5. CASE \E n \in Qty : request = NoRequest /\ Begin(w, "ask", Warehouse, Shop, n, <<>>)
  <2>1. PICK n \in Qty : Begin(w, "ask", Warehouse, Shop, n, <<>>)
    BY <1>5
  <2>2. PICK list, k : list = <<>> /\ k = "ask"
    OBVIOUS
  <2>3. list \in Seq(Thing) /\ k \in Kind
    BY <2>2 DEF Kind
  <2>4. QED
    BY <1>1, <2>1, <2>2, <2>3, QuietBeginIInv DEF Reads
<1>6. CASE \E n \in Qty : Begin(w, "approve", Warehouse, Shop, n, <<"request", Warehouse>>)
  <2>1. PICK n \in Qty : Begin(w, "approve", Warehouse, Shop, n, <<"request", Warehouse>>)
    BY <1>6
  <2>2. PICK list, k : list = <<"request", Warehouse>> /\ k = "approve"
    OBVIOUS
  <2>3. /\ list \in Seq(Thing) /\ 1 \in DOMAIN list /\ 2 \in DOMAIN list
        /\ list[1] = "request" /\ list[2] = Warehouse /\ k \in Kind
    BY <1>1, <2>2 DEF Thing, Kind, Doc
  <2>4. /\ \A x \in Store \cup Doc : Reads(k, Warehouse, Shop, x) => \E i \in DOMAIN list : list[i] = x
        /\ k = "sell" => \E i \in DOMAIN list : list[i] = "check"
        /\ k # "deduct" /\ k # "restock" /\ k # "transfer"
    BY <2>2, <2>3 DEF Reads
  <2>5. Begin(w, k, Warehouse, Shop, n, list) /\ n \in 0 .. MaxQty
    BY <1>1, <2>1, <2>2
  <2>6. QED
    BY <1>1, <2>3, <2>4, <2>5, QuietBeginIInv
<1>7. CASE Begin(w, "reject", Warehouse, Shop, 1, <<"request">>)
  <2>2. PICK list, k : list = <<"request">> /\ k = "reject"
    OBVIOUS
  <2>3. /\ list \in Seq(Thing) /\ 1 \in DOMAIN list /\ list[1] = "request" /\ k \in Kind
    BY <2>2 DEF Thing, Kind, Doc
  <2>4. QED
    BY <1>1, <1>2, <1>7, <2>2, <2>3, QuietBeginIInv DEF Reads
<1>8. CASE Begin(w, "fulfil", Warehouse, Shop, 1, <<"request", Warehouse, Shop>>)
  <2>2. PICK list, k : list = <<"request", Warehouse, Shop>> /\ k = "fulfil"
    OBVIOUS
  <2>3. /\ list \in Seq(Thing) /\ 1 \in DOMAIN list /\ 2 \in DOMAIN list /\ 3 \in DOMAIN list
        /\ list[1] = "request" /\ list[2] = Warehouse /\ list[3] = Shop /\ k \in Kind
    BY <1>1, <2>2 DEF Thing, Kind, Doc
  <2>4. /\ \A x \in Store \cup Doc : Reads(k, Warehouse, Shop, x) => \E i \in DOMAIN list : list[i] = x
        /\ k = "sell" => \E i \in DOMAIN list : list[i] = "check"
        /\ k # "deduct" /\ k # "restock" /\ k # "transfer"
    BY <2>2, <2>3 DEF Reads
  <2>5. Begin(w, k, Warehouse, Shop, 1, list)
    BY <1>1, <1>2, <1>8, <2>2
  <2>6. QED
    BY <1>1, <1>2, <2>3, <2>4, <2>5, QuietBeginIInv
<1>9. CASE \E n \in Qty : dist = NoDist
             /\ Begin(w, "dispatch", Warehouse, Shop, n, <<Warehouse>>)
  <2>1. PICK n \in Qty : Begin(w, "dispatch", Warehouse, Shop, n, <<Warehouse>>)
    BY <1>9
  <2>2. PICK list, k : list = <<Warehouse>> /\ k = "dispatch"
    OBVIOUS
  <2>3. /\ list \in Seq(Thing) /\ 1 \in DOMAIN list /\ list[1] = Warehouse /\ k \in Kind
    BY <1>1, <2>2 DEF Thing, Kind
  <2>4. QED
    BY <1>1, <2>1, <2>2, <2>3, QuietBeginIInv DEF Reads
<1>10. CASE Begin(w, "receive", Warehouse, Shop, 1, <<"distribution", Shop>>)
  <2>2. PICK list, k : list = <<"distribution", Shop>> /\ k = "receive"
    OBVIOUS
  <2>3. /\ list \in Seq(Thing) /\ 1 \in DOMAIN list /\ 2 \in DOMAIN list
        /\ list[1] = "distribution" /\ list[2] = Shop /\ k \in Kind
    BY <1>1, <2>2 DEF Thing, Kind, Doc
  <2>4. /\ \A x \in Store \cup Doc : Reads(k, Warehouse, Shop, x) => \E i \in DOMAIN list : list[i] = x
        /\ k = "sell" => \E i \in DOMAIN list : list[i] = "check"
        /\ k # "deduct" /\ k # "restock" /\ k # "transfer"
    BY <2>2, <2>3 DEF Reads
  <2>5. Begin(w, k, Warehouse, Shop, 1, list)
    BY <1>1, <1>2, <1>10, <2>2
  <2>6. QED
    BY <1>1, <1>2, <2>3, <2>4, <2>5, QuietBeginIInv
<1>11. CASE Begin(w, "cancel", Warehouse, Shop, 1, <<"distribution", Warehouse>>)
  <2>2. PICK list, k : list = <<"distribution", Warehouse>> /\ k = "cancel"
    OBVIOUS
  <2>3. /\ list \in Seq(Thing) /\ 1 \in DOMAIN list /\ 2 \in DOMAIN list
        /\ list[1] = "distribution" /\ list[2] = Warehouse /\ k \in Kind
    BY <1>1, <2>2 DEF Thing, Kind, Doc
  <2>4. /\ \A x \in Store \cup Doc : Reads(k, Warehouse, Shop, x) => \E i \in DOMAIN list : list[i] = x
        /\ k = "sell" => \E i \in DOMAIN list : list[i] = "check"
        /\ k # "deduct" /\ k # "restock" /\ k # "transfer"
    BY <2>2, <2>3 DEF Reads
  <2>5. Begin(w, k, Warehouse, Shop, 1, list)
    BY <1>1, <1>2, <1>11, <2>2
  <2>6. QED
    BY <1>1, <1>2, <2>3, <2>4, <2>5, QuietBeginIInv
<1>12. CASE \E s \in Store, n \in Lot : Begin(w, "sell", s, s, n, <<"check", s>>)
  <2>1. PICK s \in Store, n \in Lot : Begin(w, "sell", s, s, n, <<"check", s>>)
    BY <1>12
  <2>2. PICK list, k : list = <<"check", s>> /\ k = "sell"
    OBVIOUS
  <2>3. /\ list \in Seq(Thing) /\ 1 \in DOMAIN list /\ 2 \in DOMAIN list
        /\ list[1] = "check" /\ list[2] = s /\ k \in Kind
    BY <2>2 DEF Thing, Kind
  <2>4. /\ \A x \in Store \cup Doc : Reads(k, s, s, x) => \E i \in DOMAIN list : list[i] = x
        /\ k = "sell" => \E i \in DOMAIN list : list[i] = "check"
        /\ k # "deduct" /\ k # "restock" /\ k # "transfer"
    BY <2>2, <2>3 DEF Reads
  <2>5. Begin(w, k, s, s, n, list) /\ n \in 0 .. MaxQty
    BY <1>1, <2>1, <2>2
  <2>6. QED
    BY <1>1, <2>3, <2>4, <2>5, QuietBeginIInv
<1>13. QED
  BY <1>3, <1>4, <1>5, <1>6, <1>7, <1>8, <1>9, <1>10, <1>11, <1>12 DEF Start

\* A sale that is not checked is short of all its units until the deduction.
LEMMA SellStoredIInv ==
  ASSUME IInv, NEW w \in Op, SellStored(w) PROVE IInv'
<1>1. PICK s \in Store, n \in Lot :
        /\ Begin(w, "deduct", s, s, n, <<s>>)
        /\ sold' = [sold EXCEPT ![s] = @ + n] /\ short' = short + n /\ unasked' = TRUE
  BY DEF SellStored
<1>2. /\ TypeOK /\ Quantities /\ UnitsConserved /\ BalanceExplained
      /\ n \in 0 .. MaxQty /\ n \in Nat /\ n \in Int /\ 0 \in Int
  BY StockAssumption DEF IInv
<1>3. PICK list, k : list = <<s>> /\ k = "deduct"
  OBVIOUS
<1>4. list \in Seq(Thing) /\ 1 \in DOMAIN list /\ list[1] = s /\ k \in Kind
  BY <1>3 DEF Thing, Kind
<1>5. /\ sold' \in [Store -> Nat] /\ sold'[s] = sold[s] + n
      /\ \A t \in Store \ {s} : sold'[t] = sold[t]
      /\ \A t \in Store : sold'[t] >= sold[t]
  BY <1>1, <1>2, Numbers
<1>6. short' \in Int /\ unasked' \in BOOLEAN
  BY <1>1, <1>2, Numbers
<1>7. Begin(w, k, s, s, n, list)
  BY <1>1, <1>3
<1>8. (TypeOK /\ Quantities)'
  BY <1>2, <1>4, <1>5, <1>6, <1>7, BeginTypes
<1>9. UNCHANGED <<bal, moved, deducted, added, dist, broken, missing, dropped, repeated, raced>>
  BY <1>1 DEF Begin, docVars
<1>10. /\ \A t \in Store : Units(t)' = Units(t)
       /\ InTransit' = InTransit
  BY <1>9 DEF Units, InTransit
<1>11. BalanceExplained'
  BY <1>2, <1>9, <1>10 DEF BalanceExplained
<1>12. UnitsConserved'
  <2>1. CASE raced
    BY <1>9, <2>1 DEF UnitsConserved
  <2>2. CASE ~raced
    <3>1. sold'[Warehouse] + sold'[Shop] = sold[Warehouse] + sold[Shop] + n
      BY <1>2, <1>5, SoldChanges
    <3>2. Units(Warehouse)' + Units(Shop)' = Units(Warehouse) + Units(Shop) + 0
      <4>1. Units(Warehouse) \in Nat /\ Units(Shop) \in Nat
        BY <1>2, UnitsAre DEF Store
      <4>2. QED
        BY <1>10, <4>1 DEF Store
    <3>3. ASSUME ~repeated'
          PROVE  /\ ~repeated
                 /\ 0 + n + (InTransit' - InTransit) + (broken' - broken)
                      + (missing' - missing) + (dropped' - dropped)
                      = (added' - added) + (short' - short)
      <4>1. PICK i, b, m, p, a, h : /\ i = InTransit /\ b = broken /\ m = missing
                                    /\ p = dropped /\ a = added /\ h = short
        OBVIOUS
      <4>2. /\ i \in Int /\ b \in Int /\ m \in Int /\ p \in Int /\ a \in Int /\ h \in Int
        BY <1>2, <4>1, Numbers
      <4>3. 0 + n + (i - i) + (b - b) + (m - m) + (p - p) = (a - a) + ((h + n) - h)
        BY <1>2, <4>2
      <4>4. /\ InTransit' = i /\ broken' = b /\ missing' = m /\ dropped' = p
            /\ added' = a /\ short' = h + n /\ ~repeated
        BY <1>1, <1>9, <1>10, <3>3, <4>1
      <4>5. QED
        BY <4>1, <4>3, <4>4
    <3>4. ~unasked' => short' = 0
      BY <1>1
    <3>5. QED
      BY <1>2, <1>8, <2>2, <3>1, <3>2, <3>3, <3>4, Balanced
  <2>3. QED
    BY <2>1, <2>2
<1>13. QED
  <2>1. Accounts'
    BY <1>11, <1>12 DEF Accounts
  <2>2. /\ \A x \in Store \cup Doc : Reads(k, s, s, x) => \E i \in DOMAIN list : list[i] = x
        /\ k # "sell" /\ k # "transfer" /\ k # "restock" /\ (unasked => unasked')
        /\ (k = "deduct" => unasked')
    BY <1>1, <1>3, <1>4 DEF Reads
  <2>3. QED
    BY <1>2, <1>4, <1>5, <1>7, <1>8, <2>1, <2>2, BeginIInv

\* Goods that come back were sold, and come back once.
LEMMA BringBackIInv ==
  ASSUME IInv, NEW w \in Op, BringBack(w) PROVE IInv'
<1>1. PICK s \in Store, n \in Lot :
        /\ n <= sold[s] /\ \A v \in Op : job[v].kind # "restock" \/ job[v].src # s
        /\ Begin(w, "restock", s, s, n, <<s>>) /\ UNCHANGED <<sold, short, unasked>>
  BY DEF BringBack
<1>2. n \in 0 .. MaxQty
  BY StockAssumption
<1>3. PICK list, k : list = <<s>> /\ k = "restock"
  OBVIOUS
<1>4. list \in Seq(Thing) /\ 1 \in DOMAIN list /\ list[1] = s /\ k \in Kind
  BY <1>3 DEF Thing, Kind
<1>5. Begin(w, k, s, s, n, list)
  BY <1>1, <1>3
<1>6. /\ \A x \in Store \cup Doc : Reads(k, s, s, x) => \E i \in DOMAIN list : list[i] = x
      /\ k # "sell" /\ k # "transfer" /\ k # "deduct"
  BY <1>3, <1>4 DEF Reads
<1>7. QED
  BY <1>1, <1>2, <1>4, <1>5, <1>6, QuietBeginIInv

\* A session that reads, with the types of what it holds afterwards.
LEMMA LookIInv ==
  ASSUME IInv, NEW w \in Op, NEW x, Look(w, x),
         read' \in [Op -> [Store -> Seq(Nat)]], heard' \in [Op -> Memo],
         seen' \in [Op -> SUBSET (Store \cup Doc)],
         \A v \in Op : seen[v] \subseteq seen'[v],
         \A v \in Op, y \in Store \cup Doc : Current(v, y) => Current(v, y)',
         x \in Store \cup Doc => x \in seen'[w] /\ Current(w, x)',
         x = "check" => job[w].src \in seen'[w] /\ job[w].n <= Units(job[w].src)
  PROVE  IInv'
<1>1. /\ TypeOK /\ Quantities /\ UnitsConserved /\ BalanceExplained
      /\ \A v \in Op : Knows(v) /\ Checked(v) /\ Sensible(v)
  BY DEF IInv
<1>2. /\ UNCHANGED <<bal, moved, deducted, sold, short, added, request, dist, broken, missing,
                     dropped, unasked, repeated, raced, job, stale, ops>>
  BY DEF Look, stockVars, docVars, tallyVars
<1>3. todo' \in [Op -> Seq(Thing)]
  BY <1>1, LookGives
<1>4. (TypeOK /\ Quantities)'
  <2>1. read' \in [Op -> [Store -> Seq(Int)]]
    <3>1. \A q \in Seq(Nat) : q \in Seq(Int)
      OBVIOUS
    <3>2. QED
      BY <3>1
  <2>2. QED
    BY <1>1, <1>2, <1>3, <2>1 DEF TypeOK, Quantities, Thing, Memo
<1>5. \A v \in Op : (Knows(v) /\ Checked(v))'
  <2>1. seen \in [Op -> SUBSET (Store \cup Doc)]
    BY <1>1 DEF TypeOK
  <2>2. QED
    BY <1>1, <2>1, LookKnows
<1>6. \A v \in Op : Sensible(v)'
  BY <1>1, <1>2 DEF Sensible
<1>7. Accounts'
  BY <1>1, <1>2, QuietAccounts
<1>8. QED
  BY <1>4, <1>5, <1>6, <1>7 DEF IInv, Accounts

\* Whatever is read is current, of a store when it has one row at most.
LEMMA LooksIInv ==
  ASSUME IInv, NEW w \in Op,
         \/ \E s \in Store : LookBalance(w, s)
         \/ LookRequest(w) \/ LookDistribution(w) \/ CheckStock(w)
  PROVE  IInv'
<1>1. TypeOK /\ Quantities
  BY DEF IInv
<1>2. /\ read \in [Op -> [Store -> Seq(Nat)]] /\ heard \in [Op -> Memo]
      /\ seen \in [Op -> SUBSET (Store \cup Doc)] /\ bal \in [Store -> Seq(Nat)]
      /\ request \in Request /\ dist \in Dist /\ job[w].src \in Store
  BY <1>1 DEF TypeOK, Quantities, Memo
<1>3. /\ "request" \in Doc /\ "distribution" \in Doc /\ "request" # "distribution"
      /\ "check" \notin Doc
      /\ "request" \notin Store /\ "distribution" \notin Store /\ "check" \notin Store
  BY StockAssumption DEF Doc, Store
<1>4. ASSUME NEW s \in Store, LookBalance(w, s) PROVE IInv'
  <2>1. /\ Look(w, s) /\ Len(bal[s]) <= 1 /\ heard' = heard
        /\ read' = [read EXCEPT ![w][s] = bal[s]]
        /\ seen' = [seen EXCEPT ![w] = @ \cup {s}]
        /\ bal' = bal /\ request' = request /\ dist' = dist
    BY <1>4 DEF LookBalance, Look, stockVars, docVars
  <2>2. /\ read' \in [Op -> [Store -> Seq(Nat)]] /\ read'[w][s] = bal[s]
        /\ \A v \in Op, t \in Store : v # w \/ t # s => read'[v][t] = read[v][t]
    BY <1>2, <2>1
  <2>3. /\ seen' \in [Op -> SUBSET (Store \cup Doc)] /\ s \in seen'[w]
        /\ \A v \in Op : seen[v] \subseteq seen'[v]
    BY <1>2, <2>1
  <2>4. Current(w, s)'
    BY <1>3, <2>1, <2>2 DEF Current
  <2>5. ASSUME NEW v \in Op, NEW y \in Store \cup Doc, Current(v, y) PROVE Current(v, y)'
    <3>1. CASE v = w /\ y = s
      BY <2>4, <3>1
    <3>2. CASE ~(v = w /\ y = s)
      BY <2>1, <2>2, <2>5, <3>2 DEF Current
    <3>3. QED
      BY <3>1, <3>2
  <2>6. QED
    BY <1>2, <1>3, <2>1, <2>2, <2>3, <2>4, <2>5, LookIInv
<1>5. CASE LookRequest(w)
  <2>1. /\ Look(w, "request") /\ read' = read
        /\ heard' = [heard EXCEPT ![w].request = request]
        /\ seen' = [seen EXCEPT ![w] = @ \cup {"request"}]
        /\ bal' = bal /\ request' = request /\ dist' = dist
    BY <1>5 DEF LookRequest, Look, stockVars, docVars
  <2>2. /\ heard' \in [Op -> Memo] /\ heard'[w].request = request
        /\ heard'[w].distribution = heard[w].distribution
        /\ \A v \in Op : v # w => heard'[v] = heard[v]
    BY <1>2, <2>1 DEF Memo
  <2>3. /\ seen' \in [Op -> SUBSET (Store \cup Doc)] /\ "request" \in seen'[w]
        /\ \A v \in Op : seen[v] \subseteq seen'[v]
    BY <1>2, <1>3, <2>1
  <2>4. Current(w, "request")'
    BY <1>3, <2>1, <2>2 DEF Current
  <2>5. ASSUME NEW v \in Op, NEW y \in Store \cup Doc, Current(v, y) PROVE Current(v, y)'
    <3>1. CASE v = w /\ y = "request"
      BY <2>4, <3>1
    <3>2. CASE ~(v = w /\ y = "request")
      BY <2>1, <2>2, <2>5, <3>2 DEF Current
    <3>3. QED
      BY <3>1, <3>2
  <2>6. QED
    BY <1>2, <1>3, <2>1, <2>2, <2>3, <2>4, <2>5, LookIInv
<1>6. CASE LookDistribution(w)
  <2>1. /\ Look(w, "distribution") /\ read' = read
        /\ heard' = [heard EXCEPT ![w].distribution = dist]
        /\ seen' = [seen EXCEPT ![w] = @ \cup {"distribution"}]
        /\ bal' = bal /\ request' = request /\ dist' = dist
    BY <1>6 DEF LookDistribution, Look, stockVars, docVars
  <2>2. /\ heard' \in [Op -> Memo] /\ heard'[w].distribution = dist
        /\ heard'[w].request = heard[w].request
        /\ \A v \in Op : v # w => heard'[v] = heard[v]
    BY <1>2, <2>1 DEF Memo
  <2>3. /\ seen' \in [Op -> SUBSET (Store \cup Doc)] /\ "distribution" \in seen'[w]
        /\ \A v \in Op : seen[v] \subseteq seen'[v]
    BY <1>2, <1>3, <2>1
  <2>4. Current(w, "distribution")'
    BY <1>3, <2>1, <2>2 DEF Current
  <2>5. ASSUME NEW v \in Op, NEW y \in Store \cup Doc, Current(v, y) PROVE Current(v, y)'
    <3>1. CASE v = w /\ y = "distribution"
      BY <2>4, <3>1
    <3>2. CASE ~(v = w /\ y = "distribution")
      BY <2>1, <2>2, <2>5, <3>2 DEF Current
    <3>3. QED
      BY <3>1, <3>2
  <2>6. QED
    BY <1>2, <1>3, <2>1, <2>2, <2>3, <2>4, <2>5, LookIInv
<1>7. CASE CheckStock(w)
  <2>1. /\ Look(w, "check") /\ read' = read /\ heard' = heard
        /\ job[w].n <= Units(job[w].src)
        /\ seen' = [seen EXCEPT ![w] = @ \cup {job[w].src}]
        /\ bal' = bal /\ request' = request /\ dist' = dist
    BY <1>7 DEF CheckStock, Look, stockVars, docVars
  <2>2. /\ seen' \in [Op -> SUBSET (Store \cup Doc)] /\ job[w].src \in seen'[w]
        /\ \A v \in Op : seen[v] \subseteq seen'[v]
    BY <1>2, <2>1
  <2>3. \A v \in Op, y \in Store \cup Doc : Current(v, y) => Current(v, y)'
    BY <2>1 DEF Current
  <2>4. QED
    BY <1>2, <1>3, <2>1, <2>2, <2>3, LookIInv
<1>8. QED
  BY <1>4, <1>5, <1>6, <1>7

\* A session that rolls back leaves everything but itself alone.
LEMMA AbortIInv ==
  ASSUME IInv, NEW w \in Op, Abort(w) PROVE IInv'
<1>1. /\ TypeOK /\ Quantities /\ UnitsConserved /\ BalanceExplained
      /\ \A v \in Op : Knows(v) /\ Checked(v) /\ Sensible(v)
  BY DEF IInv
<1>2. /\ Leave(w) /\ stale' = [stale EXCEPT ![w] = FALSE]
      /\ UNCHANGED <<bal, moved, deducted, sold, short, added, request, dist, broken, missing,
                     dropped, unasked, repeated, raced>>
  BY DEF Abort, stockVars, docVars, tallyVars
<1>3. /\ job' \in [Op -> Job] /\ todo' \in [Op -> Seq(Thing)]
      /\ read' \in [Op -> [Store -> Seq(Nat)]] /\ heard' \in [Op -> Memo]
      /\ seen' \in [Op -> SUBSET (Store \cup Doc)] /\ ops' = ops
      /\ job'[w].kind = "none"
      /\ \A v \in Op \ {w} : /\ job'[v] = job[v] /\ todo'[v] = todo[v] /\ read'[v] = read[v]
                             /\ heard'[v] = heard[v] /\ seen'[v] = seen[v]
  BY <1>1, <1>2, LeaveType
<1>4. stale' \in [Op -> BOOLEAN] /\ \A v \in Op \ {w} : stale'[v] = stale[v]
  BY <1>1, <1>2 DEF TypeOK
<1>5. (TypeOK /\ Quantities)'
  <2>1. read' \in [Op -> [Store -> Seq(Int)]]
    <3>1. \A q \in Seq(Nat) : q \in Seq(Int)
      OBVIOUS
    <3>2. QED
      BY <1>3, <3>1
  <2>2. QED
    BY <1>1, <1>2, <1>3, <1>4, <2>1 DEF TypeOK, Quantities, Thing, Memo, Job
<1>6. ASSUME NEW v \in Op PROVE (Knows(v) /\ Checked(v) /\ Sensible(v))'
  <2>1. CASE v = w
    BY <1>3, <2>1 DEF Knows, Checked, Sensible, MustRead, Reads
  <2>2. CASE v # w
    <3>1. /\ job'[v] = job[v] /\ todo'[v] = todo[v] /\ read'[v] = read[v]
          /\ heard'[v] = heard[v] /\ seen'[v] = seen[v] /\ stale'[v] = stale[v]
      BY <1>3, <1>4, <2>2
    <3>2. /\ \A x : MustRead(v, x)' <=> MustRead(v, x)
          /\ Waiting(v)' = Waiting(v)
          /\ \A x : Current(v, x)' <=> Current(v, x)
          /\ \A x : Units(x)' = Units(x)
      BY <1>2, <3>1 DEF MustRead, Reads, Waiting, Current, Units
    <3>3. Knows(v)'
      BY <1>1, <3>1, <3>2 DEF Knows
    <3>4. Checked(v)'
      BY <1>1, <3>1, <3>2 DEF Checked
    <3>5. Sensible(v)'
      BY ZenonT(60), <1>1, <1>2, <1>3, <3>1 DEF Sensible
    <3>6. QED
      BY <3>3, <3>4, <3>5
  <2>3. QED
    BY <2>1, <2>2
<1>7. Accounts'
  BY <1>1, <1>2, QuietAccounts
<1>8. QED
  BY <1>5, <1>6, <1>7 DEF IInv, Accounts

-----------------------------------------------------------------------------
(* The invariant.                                                          *)

\* At first the supply is in the warehouse and nobody is at work.
LEMMA InitIInv == Init => IInv
<1> SUFFICES ASSUME Init PROVE IInv
  OBVIOUS
<1>1. PICK b \in {<<>>, <<0>>} :
        bal = [s \in Store |-> IF s = Warehouse THEN <<Supply>> ELSE b]
  BY DEF Init
<1>2. PICK a : a = <<Supply>>
  OBVIOUS
<1>3. Supply \in Nat /\ a \in Seq(Nat) /\ Len(a) = 1 /\ a[1] = Supply
  BY <1>2, StockAssumption
<1>4. b \in Seq(Nat) /\ Len(b) <= 1 /\ Tally(b) = 0
  <2>1. CASE b = <<>>
    <3>1. b \in Seq(Nat) /\ Len(b) <= 1
      BY <2>1
    <3>2. QED
      BY <2>1, <3>1, TallyIs
  <2>2. CASE b = <<0>>
    <3>1. b \in Seq(Nat) /\ Len(b) = 1 /\ b[1] = 0
      BY <2>2
    <3>2. QED
      BY <3>1, TallyIs
  <2>3. QED
    BY <2>1, <2>2
<1>5. Tally(a) = Supply
  BY <1>3, TallyIs
<1>6. /\ bal \in [Store -> Seq(Nat)] /\ bal[Warehouse] = a /\ bal[Shop] = b
      /\ Warehouse \in Store /\ Shop \in Store /\ Warehouse # Shop
  BY <1>1, <1>2, <1>3, <1>4, StockAssumption DEF Store
<1>7. Idle \in Job /\ Idle.kind = "none"
  BY StockAssumption DEF Idle, Job, Kind, Store
<1>8. NoRequest \in Request /\ NoDist \in Dist
  BY StockAssumption DEF NoRequest, NoDist, Request, Dist, RequestStatus, DistStatus
<1>9. Deaf \in Memo /\ Blind \in [Store -> Seq(Nat)]
  BY <1>8 DEF Deaf, Memo, Blind
<1>10. /\ read \in [Op -> [Store -> Seq(Nat)]] /\ heard \in [Op -> Memo]
       /\ job \in [Op -> Job] /\ \A w \in Op : job[w].kind = "none"
  BY <1>7, <1>9 DEF Init
<1>11. /\ moved = [s \in Store |-> 0] /\ deducted = [s \in Store |-> 0]
       /\ sold = [s \in Store |-> 0] /\ short = 0 /\ added = 0
       /\ request = NoRequest /\ dist = NoDist
       /\ broken = 0 /\ missing = 0 /\ dropped = 0
       /\ unasked = FALSE /\ repeated = FALSE /\ raced = FALSE
       /\ seen = [w \in Op |-> {}] /\ stale = [w \in Op |-> FALSE] /\ ops = 0
  BY DEF Init
<1>12. TypeOK /\ Quantities
  <2>1. \A q \in Seq(Nat) : q \in Seq(Int)
    OBVIOUS
  <2>2. bal \in [Store -> Seq(Int)] /\ read \in [Op -> [Store -> Seq(Int)]]
    BY <1>6, <1>10, <2>1
  <2>3. todo \in [Op -> Seq(Thing)]
    BY DEF Init
  <2>4. ops \in 0 .. MaxOps
    BY <1>11, StockAssumption
  <2>5. /\ moved \in [Store -> Int] /\ deducted \in [Store -> Nat] /\ sold \in [Store -> Nat]
        /\ seen \in [Op -> SUBSET (Store \cup Doc)] /\ stale \in [Op -> BOOLEAN]
    BY <1>11
  <2>6. QED
    BY <1>6, <1>8, <1>10, <1>11, <2>2, <2>3, <2>4, <2>5
       DEF TypeOK, Quantities, Job, Thing, Memo
<1>13. \A w \in Op : Knows(w) /\ Checked(w) /\ Sensible(w)
  BY <1>10 DEF Knows, Checked, Sensible, MustRead, Reads
<1>14. Units(Warehouse) = Supply /\ Units(Shop) = 0
  BY <1>4, <1>5, <1>6 DEF Units
<1>15. UnitsConserved
  <2>1. InTransit = 0
    BY <1>11 DEF InTransit, NoDist
  <2>2. sold[Warehouse] = 0 /\ sold[Shop] = 0
    BY <1>6, <1>11
  <2>3. QED
    BY <1>3, <1>11, <1>14, <2>1, <2>2 DEF UnitsConserved
<1>16. BalanceExplained
  <2>1. moved[Warehouse] = 0 /\ moved[Shop] = 0 /\ deducted[Warehouse] = 0 /\ deducted[Shop] = 0
    BY <1>6, <1>11
  <2>2. Len(bal[Warehouse]) <= 1 /\ Len(bal[Shop]) <= 1
    <3>1. Len(a) <= 1
      BY <1>3
    <3>2. QED
      BY <1>4, <1>6, <3>1
  <2>3. QED
    BY <1>3, <1>6, <1>14, <2>1, <2>2 DEF BalanceExplained, Store
<1>17. QED
  BY <1>12, <1>13, <1>15, <1>16 DEF IInv

\* Every step keeps it.
LEMMA NextIInv == IInv /\ [Next]_vars => IInv'
<1> SUFFICES ASSUME IInv, [Next]_vars PROVE IInv'
  OBVIOUS
<1>1. CASE UNCHANGED vars
  <2>1. /\ UNCHANGED <<bal, moved, deducted, sold, short, added, request, dist>>
        /\ UNCHANGED <<broken, missing, dropped, unasked, repeated, raced>>
        /\ UNCHANGED <<job, todo, read, heard, seen, stale, ops>>
    BY <1>1 DEF vars
  <2>2. /\ TypeOK /\ Quantities /\ UnitsConserved /\ BalanceExplained
        /\ \A v \in Op : Knows(v) /\ Checked(v) /\ Sensible(v)
    BY DEF IInv
  <2>3. (TypeOK /\ Quantities)'
    BY <2>1, <2>2 DEF TypeOK, Quantities
  <2>4. \A v \in Op : (Knows(v) /\ Checked(v) /\ Sensible(v))'
    <3>1. /\ \A v, x : MustRead(v, x)' <=> MustRead(v, x)
          /\ \A v : Waiting(v)' = Waiting(v)
          /\ \A v, x : Current(v, x)' <=> Current(v, x)
          /\ \A x : Units(x)' = Units(x)
      BY <2>1 DEF MustRead, Reads, Waiting, Current, Units
    <3>2. QED
      BY <2>1, <2>2, <3>1 DEF Knows, Checked, Sensible
  <2>5. Accounts'
    BY <2>1, <2>2, QuietAccounts
  <2>6. QED
    BY <2>3, <2>4, <2>5 DEF IInv, Accounts
<1>2. ASSUME NEW w \in Op,
             \/ Start(w) \/ SellStored(w) \/ BringBack(w)
             \/ \E s \in Store : LookBalance(w, s)
             \/ LookRequest(w) \/ LookDistribution(w) \/ CheckStock(w)
             \/ Abort(w)
             \/ Adjust(w) \/ Transfer(w)
             \/ Ask(w) \/ Approve(w) \/ Reject(w) \/ Fulfil(w)
             \/ Dispatch(w) \/ Receive(w) \/ Cancel(w)
             \/ Sell(w) \/ Deduct(w) \/ Restock(w)
      PROVE  IInv'
  <2>1. CASE Start(w)
    BY <2>1, StartIInv
  <2>2. CASE SellStored(w)
    BY <2>2, SellStoredIInv
  <2>3. CASE BringBack(w)
    BY <2>3, BringBackIInv
  <2>4. CASE \/ \E s \in Store : LookBalance(w, s)
             \/ LookRequest(w) \/ LookDistribution(w) \/ CheckStock(w)
    BY <2>4, LooksIInv
  <2>5. CASE Abort(w)
    BY <2>5, AbortIInv
  <2>6. CASE Adjust(w)
    BY <2>6, AdjustIInv
  <2>7. CASE Transfer(w)
    BY <2>7, TransferIInv
  <2>8. CASE Ask(w) \/ Approve(w) \/ Reject(w)
    BY <2>8, AskIInv
  <2>9. CASE Fulfil(w)
    BY <2>9, FulfilIInv
  <2>10. CASE Dispatch(w)
    BY <2>10, DispatchIInv
  <2>11. CASE Receive(w)
    BY <2>11, ReceiveIInv
  <2>12. CASE Cancel(w)
    BY <2>12, CancelIInv
  <2>13. CASE Sell(w)
    BY <2>13, SellIInv
  <2>14. CASE Deduct(w)
    BY <2>14, DeductIInv
  <2>15. CASE Restock(w)
    BY <2>15, RestockIInv
  <2>16. QED
    BY <1>2, <2>1, <2>2, <2>3, <2>4, <2>5, <2>6, <2>7, <2>8, <2>9, <2>10, <2>11, <2>12, <2>13,
       <2>14, <2>15
<1>3. QED
  BY <1>1, <1>2 DEF Next

\* The sessions know what they read, and the accounts agree, in every state.
THEOREM InvariantHolds == Spec => []IInv
<1>1. QED
  BY InitIInv, NextIInv, PTL DEF Spec

\* Every variable keeps its type, for any number of sessions.
THEOREM TypeCorrect == Spec => []TypeOK
<1>1. IInv => TypeOK
  BY DEF IInv
<1>2. QED
  BY <1>1, InvariantHolds, PTL

\* No balance is ever below zero, raced or not: each plan is checked against
\* the quantity it then writes (inventory/service.py, the planners).
THEOREM NonNegativeHolds == Spec => []NonNegative
<1>1. IInv => NonNegative
  <2> SUFFICES ASSUME IInv, NEW s \in Store, NEW i \in DOMAIN bal[s] PROVE bal[s][i] >= 0
    BY DEF NonNegative
  <2>1. PICK q : q = bal[s]
    OBVIOUS
  <2>2. q \in Seq(Nat) /\ i \in DOMAIN q
    BY <2>1 DEF IInv, Quantities
  <2>3. q[i] \in Nat
    BY <2>2
  <2>4. q[i] >= 0
    BY <2>3
  <2>5. QED
    BY <2>1, <2>4
<1>2. QED
  BY <1>1, InvariantHolds, PTL

\* Unless two operations raced or a receipt repeated a line, units are neither
\* made nor lost, and a checked sale finds what it sells (bridge.py,
\* transfer_stock, the distributions, checkout_cart, void_sale).
THEOREM UnitsConservedHolds == Spec => []UnitsConserved
<1>1. IInv => UnitsConserved
  BY DEF IInv
<1>2. QED
  BY <1>1, InvariantHolds, PTL

\* Unless two operations raced, a store has one balance of the product, and
\* its movements and sales explain it (inventory/repository.py, bridge.py).
THEOREM BalanceExplainedHolds == Spec => []BalanceExplained
<1>1. IInv => BalanceExplained
  BY DEF IInv
<1>2. QED
  BY <1>1, InvariantHolds, PTL

-----------------------------------------------------------------------------
(* Inventory.                                                              *)

\* Units of sales under way whose stock is yet to be deducted.
Portion(w) == IF job[w].kind = "deduct" THEN job[w].n ELSE 0
Underway   == SumFunctionOnSet([w \in Op |-> Portion(w)], Op)

\* They are among those that no balance was charged for.
DeductsOwed == Underway <= short

\* It holds after a step of one session that leaves at least as much short.
LEMMA OwedStays ==
  ASSUME TypeOK, TypeOK', DeductsOwed, NEW w \in Op,
         \A v \in Op \ {w} : job'[v] = job[v],
         short' - Portion(w)' >= short - Portion(w)
  PROVE  DeductsOwed'
<1>1. IsFiniteSet(Op)
  BY StockAssumption
<1>2. \A v \in Op : Portion(v) \in Nat /\ Portion(v)' \in Nat
  <2>1. \A v \in Op : job[v].n \in 0 .. MaxQty /\ job'[v].n \in 0 .. MaxQty
    BY DEF TypeOK
  <2>2. 0 .. MaxQty \subseteq Nat
    BY StockAssumption
  <2>3. QED
    BY <2>1, <2>2 DEF Portion
<1>3. PICK f, g : f = [v \in Op |-> Portion(v)] /\ g = [v \in Op |-> Portion(v)']
  OBVIOUS
<1>4. /\ \A v \in Op : f[v] \in Int /\ g[v] \in Int
      /\ \A v \in Op \ {w} : g[v] = f[v]
      /\ f[w] = Portion(w) /\ g[w] = Portion(w)'
  BY <1>2, <1>3 DEF Portion
<1>5. SumFunctionOnSet(g, Op) = SumFunctionOnSet(f, Op) + g[w] - f[w]
  <2>1. \A v \in Op : f[v] \in Int /\ g[v] \in Int
    BY <1>4
  <2>2. \A v \in Op \ {w} : g[v] = f[v]
    BY <1>4
  <2>3. QED
    BY <1>1, <2>1, <2>2, SumChange
<1>6. SumFunctionOnSet(f, Op) \in Int
  BY <1>1, <1>4, SumType
<1>7. short \in Int /\ short' \in Int
  BY DEF TypeOK
<1>8. Underway = SumFunctionOnSet(f, Op) /\ Underway' = SumFunctionOnSet(g, Op)
  BY <1>3 DEF Underway
<1>9. QED
  BY <1>2, <1>4, <1>5, <1>6, <1>7, <1>8 DEF DeductsOwed

\* A session that is deducting was owed no less than it deducts.
LEMMA OwedCovers ==
  ASSUME TypeOK, DeductsOwed, NEW w \in Op, job[w].kind = "deduct"
  PROVE  job[w].n <= short
<1>1. IsFiniteSet(Op)
  BY StockAssumption
<1>2. \A v \in Op : Portion(v) \in Nat
  <2>1. \A v \in Op : job[v].n \in Nat
    BY Numbers
  <2>2. QED
    BY <2>1 DEF Portion
<1>3. PICK f : f = [v \in Op |-> Portion(v)]
  OBVIOUS
<1>4. SumFunctionOnSet(f, Op) \in Nat /\ f[w] <= SumFunctionOnSet(f, Op)
  BY <1>1, <1>2, <1>3, SumNat
<1>5. Underway = SumFunctionOnSet(f, Op) /\ f[w] = job[w].n /\ short \in Int /\ job[w].n \in Nat
  BY <1>3, Numbers DEF Underway, Portion
<1>6. QED
  BY <1>4, <1>5 DEF DeductsOwed

\* A session that ends or commits deducts no more than it was to.
LEMMA LeaveOwed ==
  ASSUME TypeOK, Quantities, TypeOK', DeductsOwed, NEW w \in Op, Leave(w),
         short' >= short \/ (job[w].kind = "deduct" /\ short' >= short - job[w].n)
  PROVE  DeductsOwed'
<1>1. job'[w].kind = "none" /\ \A v \in Op \ {w} : job'[v] = job[v]
  BY LeaveType
<1>2. short \in Int /\ short' \in Int /\ job[w].n \in Nat
  BY Numbers DEF TypeOK
<1>3. Portion(w)' = 0 /\ Portion(w) \in Nat
      /\ (job[w].kind = "deduct" => Portion(w) = job[w].n)
  BY <1>1, <1>2 DEF Portion
<1>4. short' - Portion(w)' >= short - Portion(w)
  BY <1>2, <1>3
<1>5. QED
  BY <1>1, <1>4, OwedStays

\* A session that begins deducts what it leaves short, or nothing.
LEMMA BeginOwed ==
  ASSUME TypeOK, TypeOK', DeductsOwed, NEW w \in Op, NEW k, NEW s, NEW t, NEW n, NEW list,
         Begin(w, k, s, t, n, list),
         k # "deduct" => short' = short, k = "deduct" => n \in Nat /\ short' = short + n
  PROVE  DeductsOwed'
<1>1. /\ job[w].kind = "none" /\ job'[w].kind = k /\ job'[w].n = n
      /\ \A v \in Op \ {w} : job'[v] = job[v]
  BY StockAssumption DEF Begin, TypeOK, Idle
<1>2. Portion(w) = 0 /\ Portion(w)' = IF k = "deduct" THEN n ELSE 0
  BY <1>1 DEF Portion
<1>3. short \in Int /\ short' \in Int
  BY DEF TypeOK
<1>4. short' - Portion(w)' >= short - Portion(w)
  <2>1. CASE k = "deduct"
    BY <1>2, <1>3, <2>1
  <2>2. CASE k # "deduct"
    BY <1>2, <1>3, <2>2
  <2>3. QED
    BY <2>1, <2>2
<1>5. QED
  BY <1>1, <1>4, OwedStays

\* At first nothing is deducted.
LEMMA InitOwed == Init => DeductsOwed
<1> SUFFICES ASSUME Init PROVE DeductsOwed
  OBVIOUS
<1>1. PICK f : f = [v \in Op |-> Portion(v)]
  OBVIOUS
<1>2. \A v \in Op : f[v] = 0
  BY <1>1 DEF Init, Idle, Portion
<1>3. SumFunctionOnSet(f, Op) = 0 /\ short = 0
  BY <1>2, SumZero, StockAssumption DEF Init
<1>4. QED
  BY <1>1, <1>3 DEF DeductsOwed, Underway

\* Every step keeps it.
LEMMA NextOwed == IInv /\ DeductsOwed /\ [Next]_vars => DeductsOwed'
<1> SUFFICES ASSUME IInv, DeductsOwed, [Next]_vars PROVE DeductsOwed'
  OBVIOUS
<1>1. TypeOK /\ Quantities /\ TypeOK'
  BY NextIInv DEF IInv
<1>2. short \in Int /\ short' \in Int
  BY <1>1 DEF TypeOK
<1>3. ASSUME job' = job, short' = short PROVE DeductsOwed'
  BY <1>3 DEF DeductsOwed, Underway, Portion
<1>4. ASSUME NEW w \in Op, NEW k, NEW W, Commit(w, k, W),
             short' >= short \/ (k = "deduct" /\ short' >= short - job[w].n)
      PROVE  DeductsOwed'
  BY <1>1, <1>4, LeaveOwed DEF Commit
<1>5. ASSUME NEW w \in Op, Start(w) PROVE DeductsOwed'
  <2>1. PICK k, s, t, n, list : k # "deduct" /\ Begin(w, k, s, t, n, list)
    BY <1>5 DEF Start
  <2>2. short' = short
    BY <1>5 DEF Start
  <2>3. QED
    BY <1>1, <2>1, <2>2, BeginOwed
<1>6. ASSUME NEW w \in Op, SellStored(w) PROVE DeductsOwed'
  <2>1. PICK s \in Store, n \in Lot : Begin(w, "deduct", s, s, n, <<s>>) /\ short' = short + n
    BY <1>6 DEF SellStored
  <2>2. n \in Nat
    BY StockAssumption
  <2>3. QED
    BY <1>1, <2>1, <2>2, BeginOwed
<1>7. ASSUME NEW w \in Op, BringBack(w) PROVE DeductsOwed'
  <2>1. PICK k, s, t, n, list : k # "deduct" /\ Begin(w, k, s, t, n, list)
    BY <1>7 DEF BringBack
  <2>2. short' = short
    BY <1>7 DEF BringBack
  <2>3. QED
    BY <1>1, <2>1, <2>2, BeginOwed
<1>8. ASSUME NEW w \in Op,
             \/ \E s \in Store : LookBalance(w, s)
             \/ LookRequest(w) \/ LookDistribution(w) \/ CheckStock(w)
      PROVE  DeductsOwed'
  BY <1>3, <1>8 DEF LookBalance, LookRequest, LookDistribution, CheckStock, Look, stockVars
<1>9. ASSUME NEW w \in Op, Abort(w) PROVE DeductsOwed'
  <2>1. Leave(w) /\ short' = short
    BY <1>9 DEF Abort, stockVars
  <2>2. QED
    BY <1>1, <1>2, <2>1, LeaveOwed
<1>10. ASSUME NEW w \in Op,
              \/ Adjust(w) \/ Transfer(w) \/ Ask(w) \/ Approve(w) \/ Reject(w) \/ Fulfil(w)
              \/ Dispatch(w) \/ Receive(w) \/ Cancel(w) \/ Restock(w)
       PROVE  DeductsOwed'
  <2>1. short' = short /\ \E k, W : Commit(w, k, W)
    BY <1>10 DEF Adjust, Transfer, Move, Ask, Approve, Reject, Fulfil, Dispatch, Receive, Cancel,
                 Restock, stockVars
  <2>2. QED
    BY <1>2, <1>4, <2>1
<1>11. ASSUME NEW w \in Op, Sell(w) \/ Deduct(w) PROVE DeductsOwed'
  <2>1. Taken(w) \in Nat /\ Taken(w) <= job[w].n /\ job[w].n \in Nat
    BY <1>1, TakenIs, Numbers
  <2>2. CASE Sell(w)
    <3>1. short' = short + job[w].n - Taken(w) /\ Commit(w, "sell", {job[w].src})
      BY <2>2 DEF Sell
    <3>2. short' >= short
      BY <1>2, <2>1, <3>1
    <3>3. QED
      BY <1>4, <3>1, <3>2
  <2>3. CASE Deduct(w)
    <3>1. short' = short - Taken(w) /\ Commit(w, "deduct", {job[w].src})
      BY <2>3 DEF Deduct
    <3>2. short' >= short - job[w].n
      BY <1>2, <2>1, <3>1
    <3>3. QED
      BY <1>4, <3>1, <3>2
  <2>4. QED
    BY <1>11, <2>2, <2>3
<1>12. CASE UNCHANGED vars
  BY <1>3, <1>12 DEF vars
<1>13. QED
  BY <1>5, <1>6, <1>7, <1>8, <1>9, <1>10, <1>11, <1>12 DEF Next

\* The units of every sale that is committed and whose stock is yet to be deducted
\* are among those that no balance was charged for (bridge.py, create_sale before
\* the deduction of a stored cart).
THEOREM DeductsOwedHolds == Spec => []DeductsOwed
<1>1. Spec => []IInv
  BY InvariantHolds
<1>2. QED
  BY <1>1, InitOwed, NextOwed, PTL DEF Spec

\* What Inventory sees of a commit that changes the rows of one store.
LEMMA PutSerial ==
  ASSUME NEW s \in Store, NEW d, \A t \in Store \ {s} : bal'[t] = bal[t],
         Tally(bal'[s]) = Units(s) + d, bal'[s] # <<>>
  PROVE  Serial!Put(s, d)
<1>1. Units(s)' = Units(s) + d /\ \A t \in Store \ {s} : Units(t)' = Units(t)
  BY DEF Units
<1>2. [t \in Store |-> Units(t)'] = [[t \in Store |-> Units(t)] EXCEPT ![s] = @ + d]
  BY <1>1
<1>3. {t \in Store : bal'[t] # <<>>} = {t \in Store : bal[t] # <<>>} \cup {s}
  OBVIOUS
<1>4. QED
  BY <1>2, <1>3 DEF Serial!Put

\* Rows that are written on top of a current reading.
LEMMA UpsertFills ==
  ASSUME Quantities, NEW w \in Op, NEW s \in Store, NEW q \in Nat, NEW b \in Upsert(w, s, q),
         read[w][s] = bal[s], Len(bal[s]) <= 1
  PROVE  b # <<>> /\ Tally(b) = q
<1>1. b \in Seq(Nat) /\ Len(b) = 1 /\ Tally(b) = q
  BY UpsertGives
<1>2. Len(b) # 0
  BY <1>1
<1>3. b # <<>>
  BY <1>1, <1>2, EmptySeq
<1>4. QED
  BY <1>1, <1>3

\* What a commit that does not race has read.
LEMMA Fresh ==
  ASSUME IInv, NEW w \in Op, NEW k, NEW W, Commit(w, k, W), ~raced', NEW s \in Store, MustRead(w, s)
  PROVE  /\ read[w][s] = bal[s] /\ Len(bal[s]) <= 1 /\ Held(w, s) = Units(s)
         /\ Units(s) \in Nat
<1>1. Current(w, s) /\ Held(w, s) = Units(s)
  BY CommitFresh
<1>2. QED
  BY <1>1, UnitsAre DEF Current, IInv

\* The stores and the units of a session are some of Inventory's.
LEMMA JobSerial ==
  ASSUME IInv, NEW w \in Op
  PROVE  /\ job[w].src \in Serial!Store /\ job[w].dst \in Serial!Store
         /\ job[w].n \in Serial!Amount
BY DEF IInv, TypeOK, Store, Serial!Store, Serial!Amount

\* An adjustment.
LEMMA AdjustSerial ==
  ASSUME IInv, NEW w \in Op, Adjust(w), ~raced'
  PROVE  \E s \in Serial!Store, n \in Serial!Amount : Serial!Adjust(s, n)
<1>0. PICK s, n, q : s = job[w].src /\ n = job[w].n /\ q = Held(w, s) + n
  OBVIOUS
<1>1. /\ Commit(w, "adjust", {s})
      /\ UNCHANGED <<sold, short, broken, missing, dropped, request, dist>>
  BY <1>0 DEF Adjust, docVars, tallyVars
<1>2. PICK b \in Upsert(w, s, q) : bal' = [bal EXCEPT ![s] = b]
  BY <1>0 DEF Adjust
<1>3. /\ TypeOK /\ Quantities /\ s \in Store /\ n \in Nat /\ MustRead(w, s)
  BY <1>0, <1>1, Numbers DEF IInv, Commit, MustRead, Reads
<1>4. read[w][s] = bal[s] /\ Len(bal[s]) <= 1 /\ Held(w, s) = Units(s) /\ Units(s) \in Nat
  BY <1>1, <1>3, Fresh
<1>5. q \in Nat /\ b # <<>> /\ Tally(b) = Units(s) + n
  BY <1>0, <1>2, <1>3, <1>4, UpsertFills
<1>6. bal'[s] = b /\ \A t \in Store \ {s} : bal'[t] = bal[t]
  BY <1>2, <1>3 DEF Quantities
<1>7. Serial!Put(s, n)
  BY <1>3, <1>5, <1>6, PutSerial
<1>8. Serial!Adjust(s, n)
  BY <1>1, <1>7 DEF Serial!Adjust, Serial!Put
<1>9. QED
  BY <1>0, <1>8, JobSerial

\* Units moved from one store to the other.
LEMMA CarrySerial ==
  ASSUME IInv, NEW w \in Op, NEW k, NEW W, Commit(w, k, W), ~raced',
         NEW s \in Store, NEW t \in Store, s # t, NEW n \in Nat, Move(w, s, t, n),
         MustRead(w, s), MustRead(w, t)
  PROVE  Serial!Carry(s, t, n)
<1>1. PICK q, r : q = Held(w, s) - n /\ r = Held(w, t) + n
  OBVIOUS
<1>2. PICK b \in Upsert(w, s, q), c \in Upsert(w, t, r) :
        bal' = [bal EXCEPT ![s] = b, ![t] = c]
  BY <1>1 DEF Move
<1>3. Covered(w, s, n) /\ UNCHANGED <<sold, short, broken, missing, dropped>>
  BY DEF Move, tallyVars
<1>4. /\ read[w][s] = bal[s] /\ Len(bal[s]) <= 1 /\ Held(w, s) = Units(s) /\ Units(s) \in Nat
      /\ read[w][t] = bal[t] /\ Len(bal[t]) <= 1 /\ Held(w, t) = Units(t) /\ Units(t) \in Nat
  BY Fresh
<1>5. bal[s] # <<>> /\ n <= Units(s)
  BY <1>3, <1>4 DEF Covered, Held
<1>6. q \in Nat /\ r \in Nat
  BY <1>1, <1>4, <1>5
<1>7. /\ b # <<>> /\ Tally(b) = Units(s) - n
      /\ c # <<>> /\ Tally(c) = Units(t) + n
  BY <1>1, <1>2, <1>4, <1>6, UpsertFills DEF IInv
<1>8. bal'[s] = b /\ bal'[t] = c /\ \A u \in Store \ {s, t} : bal'[u] = bal[u]
  BY <1>2 DEF IInv, Quantities
<1>9. /\ Units(s)' = Units(s) - n /\ Units(t)' = Units(t) + n
      /\ \A u \in Store \ {s, t} : Units(u)' = Units(u)
  BY <1>7, <1>8 DEF Units
<1>10. [u \in Store |-> Units(u)']
         = [[u \in Store |-> Units(u)] EXCEPT ![s] = @ - n, ![t] = @ + n]
  BY <1>9
<1>11. {u \in Store : bal'[u] # <<>>} = {u \in Store : bal[u] # <<>>} \cup {t}
  BY <1>5, <1>7, <1>8
<1>12. QED
  BY <1>3, <1>5, <1>10, <1>11 DEF Serial!Carry

\* A transfer, and the request when it is fulfilled.
LEMMA TransferSerial ==
  ASSUME IInv, NEW w \in Op, Transfer(w), ~raced'
  PROVE  \E s \in Serial!Store, t \in Serial!Store, n \in Serial!Amount :
           Serial!Transfer(s, t, n)
<1>0. PICK s, t, n : s = job[w].src /\ t = job[w].dst /\ n = job[w].n
  OBVIOUS
<1>1. Commit(w, "transfer", {s, t}) /\ Move(w, s, t, n) /\ UNCHANGED <<request, dist>>
  BY <1>0 DEF Transfer, docVars
<1>2. /\ s \in Store /\ t \in Store /\ n \in Nat /\ s # t
      /\ MustRead(w, s) /\ MustRead(w, t)
  BY <1>0, <1>1, Numbers DEF IInv, Commit, Sensible, MustRead, Reads
<1>3. Serial!Carry(s, t, n)
  BY <1>1, <1>2, CarrySerial
<1>4. Serial!Transfer(s, t, n)
  BY <1>1, <1>2, <1>3 DEF Serial!Transfer, Serial!Carry
<1>5. QED
  BY <1>0, <1>4, JobSerial

\* A session that read the request or the distribution still knows it.
LEMMA FreshDocs ==
  ASSUME IInv, NEW w \in Op, NEW k, NEW W, Commit(w, k, W), ~raced'
  PROVE  /\ k \in {"approve", "reject", "fulfil"} => heard[w].request = request
         /\ k \in {"receive", "cancel"} => heard[w].distribution = dist
<1>1. job[w].kind = k
  BY DEF Commit
<1>2. "request" \in Store \cup Doc /\ "distribution" \in Store \cup Doc
  BY DEF Doc
<1>3. ASSUME k \in {"approve", "reject", "fulfil"} PROVE heard[w].request = request
  <2>1. MustRead(w, "request")
    BY <1>1, <1>3 DEF MustRead, Reads
  <2>2. Current(w, "request")
    BY <1>2, <2>1, CommitFresh
  <2>3. QED
    BY <2>2 DEF Current
<1>4. ASSUME k \in {"receive", "cancel"} PROVE heard[w].distribution = dist
  <2>1. MustRead(w, "distribution")
    BY <1>1, <1>4 DEF MustRead, Reads
  <2>2. Current(w, "distribution")
    BY <1>2, <2>1, CommitFresh
  <2>3. QED
    BY <2>2 DEF Current
<1>5. QED
  BY <1>3, <1>4

\* Nothing that Inventory sees of the stock changes.
LEMMA SameSerial ==
  ASSUME bal' = bal
  PROVE  /\ [s \in Store |-> Units(s)'] = [s \in Store |-> Units(s)]
         /\ {s \in Store : bal'[s] # <<>>} = {s \in Store : bal[s] # <<>>}
<1>1. \A s : Units(s)' = Units(s)
  BY DEF Units
<1>2. QED
  BY <1>1

\* The request.
LEMMA RequestSerial ==
  ASSUME IInv, NEW w \in Op, Ask(w) \/ Approve(w) \/ Reject(w) \/ Fulfil(w), ~raced'
  PROVE  Serial!Ask(job[w].n) \/ Serial!Approve(job[w].n) \/ Serial!Reject \/ Serial!Fulfil
<1>1. Warehouse \in Store /\ Shop \in Store /\ Warehouse # Shop
  BY StockAssumption DEF Store
<1>2. CASE Ask(w)
  <2>1. /\ request = NoRequest
        /\ request' = [status |-> "pending", asked |-> job[w].n, approved |-> 0]
        /\ UNCHANGED <<bal, sold, short, broken, missing, dropped, dist>>
    BY <1>2 DEF Ask, stockVars, tallyVars
  <2>2. QED
    BY <2>1, SameSerial DEF Serial!Ask, NoRequest
<1>3. CASE Approve(w)
  <2>1. /\ Commit(w, "approve", {"request"})
        /\ heard[w].request.status = "pending" /\ job[w].n <= heard[w].request.asked
        /\ Covered(w, Warehouse, job[w].n)
        /\ request' = [request EXCEPT !.status = "approved", !.approved = job[w].n]
        /\ UNCHANGED <<bal, sold, short, broken, missing, dropped, dist>>
    BY <1>3 DEF Approve, stockVars, tallyVars
  <2>2. MustRead(w, Warehouse)
    BY <2>1 DEF Commit, MustRead, Reads
  <2>3. read[w][Warehouse] = bal[Warehouse] /\ Held(w, Warehouse) = Units(Warehouse)
    BY <1>1, <2>1, <2>2, Fresh
  <2>4. heard[w].request = request
    BY <2>1, FreshDocs
  <2>5. bal[Warehouse] # <<>> /\ job[w].n <= Units(Warehouse)
    BY <2>1, <2>3 DEF Covered, Held
  <2>6. QED
    BY <1>1, <2>1, <2>4, <2>5, SameSerial DEF Serial!Approve
<1>4. CASE Reject(w)
  <2>1. /\ Commit(w, "reject", {"request"}) /\ heard[w].request.status = "pending"
        /\ request' = [request EXCEPT !.status = "rejected"]
        /\ UNCHANGED <<bal, sold, short, broken, missing, dropped, dist>>
    BY <1>4 DEF Reject, stockVars, tallyVars
  <2>2. heard[w].request = request
    BY <2>1, FreshDocs
  <2>3. QED
    BY <2>1, <2>2, SameSerial DEF Serial!Reject
<1>5. CASE Fulfil(w)
  <2>1. /\ Commit(w, "fulfil", {"request", Warehouse, Shop})
        /\ heard[w].request.status = "approved"
        /\ Move(w, Warehouse, Shop, heard[w].request.approved)
    BY <1>5 DEF Fulfil, MayFulfil
  <2>2. request' = [request EXCEPT !.status = "fulfilled"] /\ dist' = dist
    BY <1>5 DEF Fulfil
  <2>3. heard[w].request = request
    BY <2>1, FreshDocs
  <2>4. PICK n \in Nat : n = request.approved
    BY StockAssumption DEF IInv, TypeOK, Request
  <2>5. MustRead(w, Warehouse) /\ MustRead(w, Shop)
    BY <2>1 DEF Commit, MustRead, Reads
  <2>6. Move(w, Warehouse, Shop, n)
    BY <2>1, <2>3, <2>4 DEF Move
  <2>7. Serial!Carry(Warehouse, Shop, n)
    BY <1>1, <2>1, <2>5, <2>6, CarrySerial
  <2>8. QED
    BY <2>1, <2>3, <2>4, <2>7, <2>2 DEF Serial!Fulfil, Serial!Carry
<1>6. QED
  BY <1>2, <1>3, <1>4, <1>5

\* What is dispatched has left the warehouse.
LEMMA DispatchSerial ==
  ASSUME IInv, NEW w \in Op, Dispatch(w), ~raced'
  PROVE  Serial!Dispatch(job[w].n)
<1>0. PICK n, d, q : n = job[w].n /\ d = -n /\ q = Held(w, Warehouse) - n
  OBVIOUS
<1>1. /\ Commit(w, "dispatch", {"distribution", Warehouse}) /\ dist = NoDist
      /\ Covered(w, Warehouse, n) /\ dist' = [status |-> "in_transit", n |-> n]
      /\ UNCHANGED <<sold, short, request, broken, missing, dropped>>
  BY <1>0 DEF Dispatch, tallyVars
<1>2. PICK b \in Upsert(w, Warehouse, q) : bal' = [bal EXCEPT ![Warehouse] = b]
  BY <1>0 DEF Dispatch
<1>3. /\ TypeOK /\ Quantities /\ Warehouse \in Store /\ MustRead(w, Warehouse) /\ n \in Nat
  BY <1>0, <1>1, Numbers DEF IInv, Commit, MustRead, Reads, Store
<1>4. /\ read[w][Warehouse] = bal[Warehouse] /\ Len(bal[Warehouse]) <= 1
      /\ Held(w, Warehouse) = Units(Warehouse) /\ Units(Warehouse) \in Nat
  BY <1>1, <1>3, Fresh
<1>5. bal[Warehouse] # <<>> /\ n <= Units(Warehouse)
  BY <1>1, <1>4 DEF Covered, Held
<1>6. q \in Nat /\ q = Units(Warehouse) + d
  BY <1>0, <1>3, <1>4, <1>5
<1>7. b # <<>> /\ Tally(b) = Units(Warehouse) + d
  BY <1>2, <1>3, <1>4, <1>6, UpsertFills
<1>8. bal'[Warehouse] = b /\ \A t \in Store \ {Warehouse} : bal'[t] = bal[t]
  BY <1>2, <1>3 DEF Quantities
<1>9. Serial!Put(Warehouse, d)
  BY <1>3, <1>7, <1>8, PutSerial
<1>10. QED
  BY <1>0, <1>1, <1>3, <1>5, <1>9 DEF Serial!Dispatch, Serial!Put, NoDist

\* What arrives in good order, and what does not.
LEMMA ReceiveSerial ==
  ASSUME IInv, NEW w \in Op, Receive(w), ~raced', ~repeated'
  PROVE  \E g \in Nat : g <= dist.n /\ Serial!Receive(g)
<1>0. PICK lines \in Lines :
        /\ Commit(w, "receive", {"distribution", Shop})
        /\ heard[w].distribution.status = "in_transit"
        /\ \E b \in Upsert(w, Shop, Held(w, Shop) + Good(lines)) :
              bal' = [bal EXCEPT ![Shop] = b]
        /\ dist' = [dist EXCEPT !.status = "received"]
        /\ broken' = broken + Bad(lines)
        /\ missing' = missing + Larger(dist.n - Good(lines) - Bad(lines), 0)
        /\ repeated' = (repeated \/ Len(lines) = 2)
        /\ UNCHANGED <<sold, short, request, dropped>>
  BY DEF Receive
<1>1. PICK g, h, q : g = Good(lines) /\ h = Bad(lines) /\ q = Held(w, Shop) + g
  OBVIOUS
<1>2. PICK b \in Upsert(w, Shop, q) : bal' = [bal EXCEPT ![Shop] = b]
  BY <1>0, <1>1
<1>3. /\ TypeOK /\ Quantities /\ Shop \in Store /\ MustRead(w, Shop)
  BY <1>0 DEF IInv, Commit, MustRead, Reads, Store
<1>4. g \in Nat /\ h \in Nat /\ g + h <= dist.n
  BY <1>0, <1>1, <1>3, LinesGive
<1>5. /\ read[w][Shop] = bal[Shop] /\ Len(bal[Shop]) <= 1
      /\ Held(w, Shop) = Units(Shop) /\ Units(Shop) \in Nat
  BY <1>0, <1>3, Fresh
<1>6. q \in Nat /\ q = Units(Shop) + g
  BY <1>1, <1>4, <1>5
<1>7. b # <<>> /\ Tally(b) = Units(Shop) + g
  BY <1>2, <1>3, <1>5, <1>6, UpsertFills
<1>8. bal'[Shop] = b /\ \A t \in Store \ {Shop} : bal'[t] = bal[t]
  BY <1>2, <1>3 DEF Quantities
<1>9. Serial!Put(Shop, g)
  BY <1>3, <1>7, <1>8, PutSerial
<1>10. heard[w].distribution = dist
  BY <1>0, FreshDocs
<1>11. g <= dist.n /\ (broken + missing + dropped)' = broken + missing + dropped + dist.n - g
  <2>1. PICK n, x, y, z : n = dist.n /\ x = broken /\ y = missing /\ z = dropped
    OBVIOUS
  <2>2. n \in Nat /\ x \in Nat /\ y \in Nat /\ z \in Nat
    BY <1>3, <2>1, Numbers
  <2>3. Larger(n - g - h, 0) = n - g - h
    BY <1>4, <2>1, <2>2 DEF Larger
  <2>4. broken' = x + h /\ missing' = y + (n - g - h) /\ dropped' = z
    BY <1>0, <1>1, <2>1, <2>3
  <2>5. (x + h) + (y + (n - g - h)) + z = x + y + z + n - g /\ g <= n
    BY <1>4, <2>1, <2>2
  <2>6. QED
    BY <2>1, <2>4, <2>5
<1>12. Serial!Receive(g)
  BY <1>0, <1>9, <1>10, <1>11 DEF Serial!Receive, Serial!Put
<1>13. QED
  BY <1>4, <1>11, <1>12

\* What was on the road is back in the warehouse.
LEMMA CancelSerial ==
  ASSUME IInv, NEW w \in Op, Cancel(w), ~raced'
  PROVE  Serial!Cancel
<1>0. PICK n, q : n = dist.n /\ q = Held(w, Warehouse) + n
  OBVIOUS
<1>1. /\ Commit(w, "cancel", {"distribution", Warehouse})
      /\ heard[w].distribution.status = "in_transit" /\ read[w][Warehouse] # <<>>
  BY <1>0 DEF Cancel
<1>2. PICK b \in Upsert(w, Warehouse, q) : bal' = [bal EXCEPT ![Warehouse] = b]
  BY <1>0 DEF Cancel
<1>3. /\ TypeOK /\ Quantities /\ Warehouse \in Store /\ MustRead(w, Warehouse) /\ n \in Nat
  BY <1>0, <1>1, Numbers DEF IInv, Commit, MustRead, Reads, Store
<1>4. /\ read[w][Warehouse] = bal[Warehouse] /\ Len(bal[Warehouse]) <= 1
      /\ Held(w, Warehouse) = Units(Warehouse) /\ Units(Warehouse) \in Nat
  BY <1>1, <1>3, Fresh
<1>5. q \in Nat /\ q = Units(Warehouse) + n
  BY <1>0, <1>3, <1>4
<1>6. b # <<>> /\ Tally(b) = Units(Warehouse) + n
  BY <1>2, <1>3, <1>4, <1>5, UpsertFills
<1>7. bal'[Warehouse] = b /\ \A t \in Store \ {Warehouse} : bal'[t] = bal[t]
  BY <1>2, <1>3 DEF Quantities
<1>8. Serial!Put(Warehouse, n)
  BY <1>3, <1>6, <1>7, PutSerial
<1>9. heard[w].distribution = dist
  BY <1>1, FreshDocs
<1>10. /\ dist' = [dist EXCEPT !.status = "cancelled"]
       /\ UNCHANGED <<sold, short, request, broken, missing, dropped>>
  BY DEF Cancel, tallyVars
<1>11. QED
  BY <1>0, <1>1, <1>3, <1>4, <1>8, <1>9, <1>10 DEF Serial!Cancel, Serial!Put

\* What a sale takes.
LEMMA DeductedSerial ==
  ASSUME IInv, NEW w \in Op, NEW k, NEW W, Commit(w, k, W), ~raced', NEW s \in Store,
         s = job[w].src, MustRead(w, s), Deducted(w), NEW d, d = -Taken(w)
  PROVE  Serial!Put(s, d) /\ Held(w, s) = Units(s) /\ Units(s) \in Nat
<1>1. TypeOK /\ Quantities
  BY DEF IInv
<1>2. /\ read[w][s] = bal[s] /\ Len(bal[s]) <= 1 /\ Held(w, s) = Units(s)
      /\ Units(s) \in Nat
  BY Fresh
<1>3. /\ bal' \in [Store -> Seq(Nat)] /\ \A t \in Store \ {s} : bal'[t] = bal[t]
      /\ Tally(bal'[s]) = Units(s) - Taken(w)
  BY <1>1, <1>2, DeductedGives
<1>4. Taken(w) \in Nat /\ Taken(w) <= Held(w, s)
  BY <1>1, TakenIs
<1>5. Tally(bal'[s]) = Units(s) + d
  BY <1>2, <1>3, <1>4
<1>6. bal'[s] # <<>>
  <2>1. PICK b, q : b = bal[s] /\ q = Held(w, s) - Taken(w)
    OBVIOUS
  <2>2. b \in Seq(Nat) /\ q \in Nat
    BY <1>1, <1>2, <1>4, <2>1 DEF Quantities
  <2>3. bal'[s] = IF b = <<>> THEN Append(b, 0) ELSE Overwrite(w, s, q)
    BY <1>1, <1>2, <2>1 DEF Deducted, Quantities
  <2>4. CASE b = <<>>
    BY <2>3, <2>4
  <2>5. CASE b # <<>>
    <3>1. Len(b) = 1
      BY <1>2, <2>1, <2>2, <2>5, OneRow
    <3>2. PICK c : c = Overwrite(w, s, q)
      OBVIOUS
    <3>3. c \in Seq(Nat) /\ Len(c) = 1
      BY <1>1, <1>2, <2>1, <2>2, <3>1, <3>2, OverwriteGives
    <3>4. Len(c) # 0
      BY <3>3
    <3>5. c # <<>>
      BY <3>3, <3>4, EmptySeq
    <3>6. QED
      BY <2>3, <2>5, <3>2, <3>5
  <2>6. QED
    BY <2>4, <2>5
<1>7. QED
  BY <1>2, <1>3, <1>5, <1>6, PutSerial

\* A sale that was checked finds its units.
LEMMA SellSerial ==
  ASSUME IInv, NEW w \in Op, Sell(w), ~raced'
  PROVE  \E s \in Serial!Store, n \in Serial!Amount : Serial!Sell(s, n)
<1>0. PICK s, n, d : s = job[w].src /\ n = job[w].n /\ d = -Taken(w)
  OBVIOUS
<1>1. /\ Commit(w, "sell", {s}) /\ Deducted(w)
      /\ sold' = [sold EXCEPT ![s] = @ + n] /\ short' = short + n - Taken(w)
      /\ UNCHANGED <<request, dist, broken, missing, dropped>>
  BY <1>0 DEF Sell, docVars, tallyVars
<1>2. TypeOK /\ Quantities /\ s \in Store /\ n \in Nat /\ short \in Int /\ MustRead(w, s)
  BY <1>0, <1>1, Numbers DEF IInv, Commit, MustRead, Reads
<1>3. Serial!Put(s, d) /\ Held(w, s) = Units(s) /\ Units(s) \in Nat
  BY <1>0, <1>1, <1>2, DeductedSerial
<1>4. n <= Units(s)
  BY <1>0, <1>1, CommitFresh
<1>5. Taken(w) = n
  BY <1>0, <1>2, <1>3, <1>4, TakenIs
<1>6. d = -n /\ short' = short
  BY <1>0, <1>1, <1>2, <1>5
<1>7. Serial!Sell(s, n)
  BY <1>1, <1>2, <1>3, <1>4, <1>6 DEF Serial!Sell, Serial!Put
<1>8. QED
  BY <1>0, <1>7, JobSerial

\* A deduction takes what was sold unchecked, or all there is.
LEMMA DeductSerial ==
  ASSUME IInv, DeductsOwed, NEW w \in Op, Deduct(w), ~raced'
  PROVE  \E s \in Serial!Store, n \in Serial!Amount : \E m \in 0 .. n : Serial!Deduct(s, n, m)
<1>0. PICK s, n, m, d, h : /\ s = job[w].src /\ n = job[w].n /\ m = Taken(w) /\ d = -m
                           /\ h = Held(w, s)
  OBVIOUS
<1>1. /\ Commit(w, "deduct", {s}) /\ Deducted(w) /\ short' = short - m
      /\ UNCHANGED <<sold, request, dist, broken, missing, dropped>>
  BY <1>0 DEF Deduct, docVars, tallyVars
<1>2. TypeOK /\ Quantities /\ s \in Store /\ n \in Nat /\ short \in Int /\ MustRead(w, s)
  BY <1>0, <1>1, Numbers DEF IInv, Commit, MustRead, Reads
<1>3. Serial!Put(s, d) /\ h = Units(s) /\ h \in Nat
  BY <1>0, <1>1, <1>2, DeductedSerial
<1>4. m \in Nat /\ m <= n /\ m <= h /\ (m = n \/ m = h)
  <2>1. m \in Nat /\ m <= n /\ m <= h /\ (n <= h => m = n)
    BY <1>0, <1>2, TakenIs
  <2>2. m = h - Larger(h - n, 0)
    BY <1>0 DEF Taken
  <2>3. ~(n <= h) => m = h
    BY <1>2, <1>3, <2>2 DEF Larger
  <2>4. QED
    BY <2>1, <2>3
<1>5. n <= short
  BY <1>0, <1>1, <1>2, OwedCovers DEF Commit
<1>6. Serial!Deduct(s, n, m)
  BY <1>0, <1>1, <1>2, <1>3, <1>4, <1>5 DEF Serial!Deduct, Serial!Put
<1>7. m \in 0 .. n
  BY <1>2, <1>4
<1>8. QED
  BY <1>0, <1>6, <1>7, JobSerial

\* What is brought back is on the shelf, or lost where there is none.
LEMMA RestockSerial ==
  ASSUME IInv, NEW w \in Op, Restock(w), ~raced'
  PROVE  \E s \in Serial!Store, n \in Serial!Amount : Serial!Restock(s, n)
<1>0. PICK s, n, q : s = job[w].src /\ n = job[w].n /\ q = Held(w, s) + n
  OBVIOUS
<1>1. /\ Commit(w, "restock", {s}) /\ sold' = [sold EXCEPT ![s] = @ - n]
      /\ UNCHANGED <<short, request, dist, broken, missing>>
  BY <1>0 DEF Restock, docVars
<1>2. \/ /\ read[w][s] # <<>> /\ bal' = [bal EXCEPT ![s] = Overwrite(w, s, q)]
         /\ dropped' = dropped
      \/ read[w][s] = <<>> /\ dropped' = dropped + n /\ bal' = bal
  BY <1>0 DEF Restock
<1>3. TypeOK /\ Quantities /\ s \in Store /\ n \in Nat /\ MustRead(w, s) /\ n <= sold[s]
  BY <1>0, <1>1, Numbers DEF IInv, Commit, Sensible, MustRead, Reads
<1>4. /\ read[w][s] = bal[s] /\ Len(bal[s]) <= 1 /\ Held(w, s) = Units(s)
      /\ Units(s) \in Nat
  BY <1>1, <1>3, Fresh
<1>5. q \in Nat /\ q = Units(s) + n
  BY <1>0, <1>3, <1>4
<1>6. Serial!Restock(s, n)
  <2>1. CASE read[w][s] # <<>> /\ bal' = [bal EXCEPT ![s] = Overwrite(w, s, q)]
               /\ dropped' = dropped
    <3>1. PICK b, c : b = bal[s] /\ c = Overwrite(w, s, q)
      OBVIOUS
    <3>2. b \in Seq(Nat) /\ Len(b) = 1
      BY <1>3, <1>4, <2>1, <3>1, OneRow DEF Quantities
    <3>3. c \in Seq(Nat) /\ Len(c) = 1 /\ Tally(c) = q
      BY <1>3, <1>4, <1>5, <3>1, <3>2, OverwriteGives
    <3>4. Len(c) # 0
      BY <3>3
    <3>5. c # <<>>
      BY <3>3, <3>4, EmptySeq
    <3>6. bal'[s] = c /\ \A t \in Store \ {s} : bal'[t] = bal[t]
      BY <1>3, <2>1, <3>1 DEF Quantities
    <3>7. Serial!Put(s, n)
      BY <1>3, <1>5, <3>3, <3>5, <3>6, PutSerial
    <3>8. s \in {t \in Store : bal[t] # <<>>}
      BY <1>3, <1>4, <2>1
    <3>9. QED
      BY <1>1, <1>3, <2>1, <3>7, <3>8 DEF Serial!Restock, Serial!Put
  <2>2. CASE read[w][s] = <<>> /\ dropped' = dropped + n /\ bal' = bal
    <3>1. s \notin {t \in Store : bal[t] # <<>>}
      BY <1>4, <2>2
    <3>2. (broken + missing + dropped)' = broken + missing + dropped + n
      <4>1. PICK x, y, z : x = broken /\ y = missing /\ z = dropped
        OBVIOUS
      <4>2. x \in Nat /\ y \in Nat /\ z \in Nat
        BY <1>3, <4>1, Numbers
      <4>3. x + y + (z + n) = x + y + z + n
        BY <1>3, <4>2
      <4>4. QED
        BY <1>1, <2>2, <4>1, <4>3
    <3>3. QED
      BY <1>1, <1>3, <2>2, <3>1, <3>2, SameSerial DEF Serial!Restock
  <2>3. QED
    BY <1>2, <2>1, <2>2
<1>7. QED
  BY <1>0, <1>6, JobSerial

\* A cart stored item by item sells before it deducts.
LEMMA SellStoredSerial ==
  ASSUME NEW w \in Op, SellStored(w)
  PROVE  \E s \in Store, n \in Lot : Serial!SellUnchecked(s, n)
<1>1. PICK s \in Store, n \in Lot :
        /\ Begin(w, "deduct", s, s, n, <<s>>)
        /\ sold' = [sold EXCEPT ![s] = @ + n] /\ short' = short + n
  BY DEF SellStored
<1>2. UNCHANGED <<bal, request, dist, broken, missing, dropped>>
  BY <1>1 DEF Begin, docVars
<1>3. Serial!SellUnchecked(s, n)
  BY <1>1, <1>2, SameSerial DEF Serial!SellUnchecked
<1>4. QED
  BY <1>3

\* A session that begins, reads or gives up does nothing that Inventory sees.
LEMMA QuietSerial ==
  ASSUME UNCHANGED <<bal, sold, short, request, dist, broken, missing, dropped, repeated, raced>>
  PROVE  UNCHANGED Serial!vars
BY SameSerial DEF Serial!vars

\* At first the stock is what Inventory begins with.
LEMMA InitSerial == Init => Serial!Init
<1> SUFFICES ASSUME Init PROVE Serial!Init
  OBVIOUS
<1>1. PICK b \in {<<>>, <<0>>} : bal = [s \in Store |-> IF s = Warehouse THEN <<Supply>> ELSE b]
  BY DEF Init
<1>2. Warehouse \in Store /\ Supply \in Nat /\ Store = {Warehouse, Shop} /\ Warehouse # Shop
  BY StockAssumption DEF Store
<1>3. Tally(<<Supply>>) = Supply /\ Tally(b) = 0
  <2>1. PICK x, y, z : x = <<Supply>> /\ y = <<>> /\ z = <<0>>
    OBVIOUS
  <2>2. /\ x \in Seq(Nat) /\ y \in Seq(Nat) /\ z \in Seq(Nat)
        /\ Len(x) = 1 /\ x[1] = Supply /\ Len(z) = 1 /\ z[1] = 0
    BY <1>2, <2>1
  <2>3. Tally(x) = Supply /\ Tally(y) = 0 /\ Tally(z) = 0
    BY <2>1, <2>2, TallyIs
  <2>4. QED
    BY <2>1, <2>3
<1>4. [s \in Store |-> Units(s)] = [s \in Store |-> IF s = Warehouse THEN Supply ELSE 0]
  BY <1>1, <1>3 DEF Units
<1>5. {s \in Store : bal[s] # <<>>} \in {{Warehouse}, Store}
  BY <1>1, <1>2
<1>6. /\ sold = [s \in Store |-> 0] /\ short = 0 /\ broken + missing + dropped = 0
      /\ request = [status |-> "none", asked |-> 0, approved |-> 0]
      /\ dist = [status |-> "none", n |-> 0] /\ ~(raced \/ repeated)
  BY DEF Init, NoRequest, NoDist
<1>7. QED
  BY <1>4, <1>5, <1>6 DEF Serial!Init, Serial!Store, Store

\* What was raced or repeated stays so.
LEMMA LooseStays ==
  ASSUME TypeOK, NEW w \in Op,
         (\E k, W : Commit(w, k, W)) \/ raced' = raced,
         repeated' = repeated \/ \E lines : repeated' = (repeated \/ Len(lines) = 2)
  PROVE  ~(raced \/ repeated)' => ~(raced \/ repeated)
BY DEF Commit, TypeOK

\* Every step is one of Inventory's, or nothing that it sees.
LEMMA NextSerial == IInv /\ DeductsOwed /\ [Next]_vars => [Serial!Next]_Serial!vars
<1> SUFFICES ASSUME IInv, DeductsOwed, [Next]_vars PROVE [Serial!Next]_Serial!vars
  OBVIOUS
<1>1. CASE raced' \/ repeated'
  BY <1>1 DEF Serial!Next
<1>2. CASE ~raced' /\ ~repeated'
  <2>1. TypeOK /\ MaxQty \in Nat
    BY StockAssumption DEF IInv
  <2>2. \A w \in Op : job[w].src \in Serial!Store /\ job[w].dst \in Serial!Store
                        /\ job[w].n \in Serial!Amount
    BY JobSerial
  <2>3. ASSUME Serial!Operate, ~(raced \/ repeated) PROVE Serial!Next
    BY <1>2, <2>3 DEF Serial!Next
  <2>4. ASSUME NEW w \in Op, Start(w) \/ BringBack(w) \/ Abort(w)
               \/ (\E s \in Store : LookBalance(w, s))
               \/ LookRequest(w) \/ LookDistribution(w) \/ CheckStock(w)
        PROVE  UNCHANGED Serial!vars
    <3>1. UNCHANGED <<bal, sold, short, request, dist, broken, missing, dropped, repeated, raced>>
      BY <2>4 DEF Start, BringBack, Begin, Abort, LookBalance, LookRequest, LookDistribution,
                  CheckStock, Look, stockVars, docVars, tallyVars
    <3>2. QED
      BY <3>1, QuietSerial
  <2>5. ASSUME NEW w \in Op, SellStored(w) PROVE Serial!Next
    <3>1. raced' = raced /\ repeated' = repeated
      BY <2>5 DEF SellStored, Begin
    <3>2. PICK s \in Store, n \in Lot : Serial!SellUnchecked(s, n)
      BY <2>5, SellStoredSerial
    <3>3. s \in Serial!Store /\ n \in Serial!Amount
      BY <2>1, StockAssumption DEF Store, Serial!Store, Serial!Amount
    <3>4. Serial!Operate
      BY <3>2, <3>3 DEF Serial!Operate
    <3>5. QED
      BY <1>2, <2>1, <2>3, <3>1, <3>4, LooseStays
  <2>6. ASSUME NEW w \in Op, Adjust(w) PROVE Serial!Operate
    BY <1>2, <2>6, AdjustSerial DEF Serial!Operate
  <2>7. ASSUME NEW w \in Op, Transfer(w) PROVE Serial!Operate
    BY <1>2, <2>7, TransferSerial DEF Serial!Operate
  <2>8. ASSUME NEW w \in Op, Ask(w) \/ Approve(w) \/ Reject(w) \/ Fulfil(w) PROVE Serial!Operate
    BY <1>2, <2>2, <2>8, RequestSerial DEF Serial!Operate
  <2>9. ASSUME NEW w \in Op, Dispatch(w) PROVE Serial!Operate
    BY <1>2, <2>2, <2>9, DispatchSerial DEF Serial!Operate
  <2>10. ASSUME NEW w \in Op, Receive(w) PROVE Serial!Operate
    <3>1. PICK g \in Nat : g <= dist.n /\ Serial!Receive(g)
      BY <1>2, <2>10, ReceiveSerial
    <3>2. dist.n \in 0 .. MaxQty
      BY <2>1 DEF TypeOK, Dist
    <3>3. g \in Serial!Amount
      BY <2>1, <3>1, <3>2 DEF Serial!Amount
    <3>4. QED
      BY <3>1, <3>3 DEF Serial!Operate
  <2>11. ASSUME NEW w \in Op, Cancel(w) PROVE Serial!Operate
    BY <1>2, <2>11, CancelSerial DEF Serial!Operate
  <2>12. ASSUME NEW w \in Op, Sell(w) PROVE Serial!Operate
    BY <1>2, <2>12, SellSerial DEF Serial!Operate
  <2>13. ASSUME NEW w \in Op, Deduct(w) PROVE Serial!Operate
    BY <1>2, <2>13, DeductSerial DEF Serial!Operate
  <2>14. ASSUME NEW w \in Op, Restock(w) PROVE Serial!Operate
    BY <1>2, <2>14, RestockSerial DEF Serial!Operate
  <2>15. ASSUME NEW w \in Op,
                \/ Adjust(w) \/ Transfer(w) \/ Ask(w) \/ Approve(w) \/ Reject(w) \/ Fulfil(w)
                \/ Dispatch(w) \/ Receive(w) \/ Cancel(w)
                \/ Sell(w) \/ Deduct(w) \/ Restock(w)
         PROVE  Serial!Next
    <3>1. \E k, W : Commit(w, k, W)
      BY <2>15 DEF Adjust, Transfer, Ask, Approve, Reject, Fulfil, Dispatch, Receive, Cancel,
                   Sell, Deduct, Restock
    <3>2. repeated' = repeated \/ \E lines : repeated' = (repeated \/ Len(lines) = 2)
      BY <2>15 DEF Adjust, Transfer, Move, Ask, Approve, Reject, Fulfil, Dispatch, Receive, Cancel,
                   Sell, Deduct, Restock, tallyVars
    <3>3. ~(raced \/ repeated)
      BY <1>2, <2>1, <3>1, <3>2, LooseStays
    <3>4. QED
      BY <2>3, <2>6, <2>7, <2>8, <2>9, <2>10, <2>11, <2>12, <2>13, <2>14, <2>15, <3>3
  <2>16. CASE UNCHANGED vars
    BY <2>16, QuietSerial DEF vars
  <2>17. QED
    BY <2>4, <2>5, <2>15, <2>16 DEF Next
<1>3. QED
  BY <1>1, <1>2

\* The sessions implement Inventory: unless two of them raced or a receipt repeated a
\* line, each commit does to the stock, the request and the distribution of that
\* moment what its operation would have done alone (bridge.py, adjust_stock to
\* checkout_cart).
THEOREM InventoryImplemented == Spec => ImplementsInventory
<1>1. Spec => []IInv /\ []DeductsOwed
  BY InvariantHolds, DeductsOwedHolds, PTL
<1>2. QED
  BY <1>1, InitSerial, NextSerial, PTL DEF Spec, ImplementsInventory, Serial!Spec

=============================================================================
