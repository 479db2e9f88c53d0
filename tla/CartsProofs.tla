----------------------------- MODULE CartsProofs -----------------------------
(***************************************************************************)
(* Proofs about Carts, for any number of operations, products, quantities  *)
(* and uses of the coupon.                                                 *)
(*                                                                         *)
(* The invariant is built in four layers, each proved with the help of the *)
(* ones before it: what an operation has left to do and what it has read   *)
(* (Shape), the accounts of the lines (Books), the sales (Sold) and the    *)
(* coupon (Counted).                                                       *)
(***************************************************************************)
EXTENDS Carts, SumTheorems, SequenceTheorems

\* The lists of steps that an operation can have to do, by their initials (G
\* for the log entry, V for the coupon's validation, N for its count).
TW      == <<"write">>
TLW     == <<"lines", "write">>
TCLW    == <<"cart", "lines", "write">>
TG      == <<"log">>
TWG     == <<"write", "log">>
TLWG    == <<"lines", "write", "log">>
TCLWG   == <<"cart", "lines", "write", "log">>
TCW     == <<"cart", "write">>
TNW     == <<"count", "write">>
TTNW    == <<"tally", "count", "write">>
TVTNW   == <<"coupon", "tally", "count", "write">>
TCVTNW  == <<"cart", "coupon", "tally", "count", "write">>
TF      == <<"finish">>
TBF     == <<"book", "finish">>
TDBF    == <<"deduct", "book", "finish">>
TSDBF   == <<"sale", "deduct", "book", "finish">>
TLSDBF  == <<"lines", "sale", "deduct", "book", "finish">>
TCLSDBF == <<"cart", "lines", "sale", "deduct", "book", "finish">>
TNS     == <<"count", "sale", "deduct", "book", "finish">>
TTNS    == <<"tally", "count", "sale", "deduct", "book", "finish">>
TVTNS   == <<"coupon", "tally", "count", "sale", "deduct", "book", "finish">>
TLVTNS  == <<"lines", "coupon", "tally", "count", "sale", "deduct", "book", "finish">>
TCLVTNS == <<"cart", "lines", "coupon", "tally", "count", "sale", "deduct", "book", "finish">>

\* What is left of an operation of each kind.
OnPlan(w) ==
  /\ job[w].kind = "none" => job[w] = Idle /\ todo[w] = <<>>
  /\ job[w].kind = "add" => todo[w] \in {TCLW, TLW, TW}
  /\ job[w].kind = "remove" => todo[w] \in {TLW, TW}
  /\ job[w].kind = "void" => todo[w] \in {TLWG, TWG, TG}
  /\ job[w].kind = "clear" => todo[w] \in {TCLWG, TLWG, TWG, TG}
  /\ job[w].kind = "sweep" => todo[w] \in {TCW, TW}
  /\ job[w].kind = "checkout" =>
       IF job[w].coupon THEN todo[w] \in {TCVTNW, TVTNW, TTNW, TNW, TW}
                        ELSE todo[w] \in {TCW, TW}
  /\ job[w].kind = "stored" =>
       \/ todo[w] \in {TSDBF, TDBF, TBF, TF}
       \/ IF job[w].coupon THEN todo[w] \in {TCLVTNS, TLVTNS, TVTNS, TTNS, TNS}
                           ELSE todo[w] \in {TCLSDBF, TLSDBF}
  /\ job[w].kind \in {"none", "add", "remove", "void", "clear", "sweep"} => ~job[w].coupon

\* What it asks for, and what it has read by then. Whoever adds, clears or
\* sweeps has seen an active cart; whoever removes or voids has seen its line.
Informed(w) ==
  /\ job[w].kind \in {"add", "checkout"} => job[w].product \in Product
  /\ job[w].kind = "add" => job[w].n \in Nat
  /\ job[w].kind = "checkout" => job[w].n \in Nat \ {0}
  /\ job[w].kind \in {"none", "add", "clear", "sweep"} => got[w].status = "active"
  /\ job[w].kind \in {"remove", "void"} /\ todo[w] \in {TW, TWG, TG}
       => job[w].line \in DOMAIN got[w].lines

\* What an operation can have read.
Lines  == UNION {[S -> Line] : S \in SUBSET (1 .. made)}
Memory == [status : Status, lines : Lines, used : Nat]

\* Lines, in the cart or as they were read, have units.
Positive(f) == \A i \in DOMAIN f : f[i].qty > 0

\* One line of product p at most.
Single(f, p) ==
  \A i, j \in DOMAIN f : f[i].product = p /\ f[j].product = p => i = j

Shape ==
  /\ TypeOK /\ got \in [Op -> Memory] /\ Positive(line)
  /\ \A w \in Op : OnPlan(w) /\ Informed(w) /\ Positive(got[w].lines)

\* Unless operations raced, a cart that was seen checked out still is.
Stays == ~raced => \A w \in Op : got[w].status = "checked_out" => status = "checked_out"

Books == LinesExplained /\ Stays

\* The sale that a stored cart's checkout has made, and how far it has come.
\* No two of them have made the same.
Selling(w) == todo[w] \in {TDBF, TBF, TF}
Mine(w) ==
  /\ Selling(w) <=> job[w].sale # 0
  /\ Selling(w) =>
       /\ job[w].sale \in DOMAIN sale
       /\ sale[job[w].sale].booked <=> todo[w] = TF
       /\ todo[w] \in {TBF, TF} => sale[job[w].sale].stock
  /\ \A v \in Op : job[v].sale = job[w].sale /\ job[w].sale # 0 => v = w

Sold == CheckedOutIsSold /\ \A w \in Op : Mine(w)

\* The sales that had the coupon, and the checkouts that have counted it and
\* have not sold yet.
WithCoupon == {i \in DOMAIN sale : sale[i].coupon}
Due == {w \in Op : job[w].coupon /\ todo[w] \in {TW, TSDBF}}

\* Unless two checkouts used the coupon at the same time, each checkout that
\* is about to count it saw a use left.
Counted == ~rushed =>
  /\ \A w \in Op : todo[w] \in {TTNW, TNW, TTNS, TNS} => Valid(got[w].used)
  /\ Uses > 0 => used <= Uses
  /\ Cardinality(WithCoupon) + Cardinality(Due) <= used

IInv == Shape /\ Books /\ Sold /\ Counted

-----------------------------------------------------------------------------
(* The lists.                                                              *)

\* The first step of each list, and what is left after it.
LEMMA ListsGive ==
  /\ TW \in Seq(Step) /\ TW # <<>> /\ Head(TW) = "write" /\ Tail(TW) = <<>>
  /\ TLW \in Seq(Step) /\ TLW # <<>> /\ Head(TLW) = "lines" /\ Tail(TLW) = TW
  /\ TCLW \in Seq(Step) /\ TCLW # <<>> /\ Head(TCLW) = "cart" /\ Tail(TCLW) = TLW
  /\ TG \in Seq(Step) /\ TG # <<>> /\ Head(TG) = "log" /\ Tail(TG) = <<>>
  /\ TWG \in Seq(Step) /\ TWG # <<>> /\ Head(TWG) = "write" /\ Tail(TWG) = TG
  /\ TLWG \in Seq(Step) /\ TLWG # <<>> /\ Head(TLWG) = "lines" /\ Tail(TLWG) = TWG
  /\ TCLWG \in Seq(Step) /\ TCLWG # <<>> /\ Head(TCLWG) = "cart" /\ Tail(TCLWG) = TLWG
  /\ TCW \in Seq(Step) /\ TCW # <<>> /\ Head(TCW) = "cart" /\ Tail(TCW) = TW
  /\ TNW \in Seq(Step) /\ TNW # <<>> /\ Head(TNW) = "count" /\ Tail(TNW) = TW
  /\ TTNW \in Seq(Step) /\ TTNW # <<>> /\ Head(TTNW) = "tally" /\ Tail(TTNW) = TNW
  /\ TVTNW \in Seq(Step) /\ TVTNW # <<>> /\ Head(TVTNW) = "coupon" /\ Tail(TVTNW) = TTNW
  /\ TCVTNW \in Seq(Step) /\ TCVTNW # <<>> /\ Head(TCVTNW) = "cart" /\ Tail(TCVTNW) = TVTNW
  /\ TF \in Seq(Step) /\ TF # <<>> /\ Head(TF) = "finish" /\ Tail(TF) = <<>>
  /\ TBF \in Seq(Step) /\ TBF # <<>> /\ Head(TBF) = "book" /\ Tail(TBF) = TF
  /\ TDBF \in Seq(Step) /\ TDBF # <<>> /\ Head(TDBF) = "deduct" /\ Tail(TDBF) = TBF
  /\ TSDBF \in Seq(Step) /\ TSDBF # <<>> /\ Head(TSDBF) = "sale" /\ Tail(TSDBF) = TDBF
  /\ TLSDBF \in Seq(Step) /\ TLSDBF # <<>> /\ Head(TLSDBF) = "lines" /\ Tail(TLSDBF) = TSDBF
  /\ TCLSDBF \in Seq(Step) /\ TCLSDBF # <<>> /\ Head(TCLSDBF) = "cart" /\ Tail(TCLSDBF) = TLSDBF
  /\ TNS \in Seq(Step) /\ TNS # <<>> /\ Head(TNS) = "count" /\ Tail(TNS) = TSDBF
  /\ TTNS \in Seq(Step) /\ TTNS # <<>> /\ Head(TTNS) = "tally" /\ Tail(TTNS) = TNS
  /\ TVTNS \in Seq(Step) /\ TVTNS # <<>> /\ Head(TVTNS) = "coupon" /\ Tail(TVTNS) = TTNS
  /\ TLVTNS \in Seq(Step) /\ TLVTNS # <<>> /\ Head(TLVTNS) = "lines" /\ Tail(TLVTNS) = TVTNS
  /\ TCLVTNS \in Seq(Step) /\ TCLVTNS # <<>> /\ Head(TCLVTNS) = "cart" /\ Tail(TCLVTNS) = TLVTNS
<1>1. TW \in Seq(Step) /\ TW # <<>> /\ Head(TW) = "write" /\ Tail(TW) = <<>>
  BY DEF TW, Step
<1>2. TLW \in Seq(Step) /\ TLW # <<>> /\ Head(TLW) = "lines" /\ Tail(TLW) = TW
  BY DEF TLW, TW, Step
<1>3. TCLW \in Seq(Step) /\ TCLW # <<>> /\ Head(TCLW) = "cart" /\ Tail(TCLW) = TLW
  BY DEF TCLW, TLW, Step
<1>4. TG \in Seq(Step) /\ TG # <<>> /\ Head(TG) = "log" /\ Tail(TG) = <<>>
  BY DEF TG, Step
<1>5. TWG \in Seq(Step) /\ TWG # <<>> /\ Head(TWG) = "write" /\ Tail(TWG) = TG
  BY DEF TWG, TG, Step
<1>6. TLWG \in Seq(Step) /\ TLWG # <<>> /\ Head(TLWG) = "lines" /\ Tail(TLWG) = TWG
  BY DEF TLWG, TWG, Step
<1>7. TCLWG \in Seq(Step) /\ TCLWG # <<>> /\ Head(TCLWG) = "cart" /\ Tail(TCLWG) = TLWG
  BY DEF TCLWG, TLWG, Step
<1>8. TCW \in Seq(Step) /\ TCW # <<>> /\ Head(TCW) = "cart" /\ Tail(TCW) = TW
  BY DEF TCW, TW, Step
<1>9. TNW \in Seq(Step) /\ TNW # <<>> /\ Head(TNW) = "count" /\ Tail(TNW) = TW
  BY DEF TNW, TW, Step
<1>10. TTNW \in Seq(Step) /\ TTNW # <<>> /\ Head(TTNW) = "tally" /\ Tail(TTNW) = TNW
  BY DEF TTNW, TNW, Step
<1>11. TVTNW \in Seq(Step) /\ TVTNW # <<>> /\ Head(TVTNW) = "coupon" /\ Tail(TVTNW) = TTNW
  BY DEF TVTNW, TTNW, Step
<1>12. TCVTNW \in Seq(Step) /\ TCVTNW # <<>> /\ Head(TCVTNW) = "cart" /\ Tail(TCVTNW) = TVTNW
  BY DEF TCVTNW, TVTNW, Step
<1>13. TF \in Seq(Step) /\ TF # <<>> /\ Head(TF) = "finish" /\ Tail(TF) = <<>>
  BY DEF TF, Step
<1>14. TBF \in Seq(Step) /\ TBF # <<>> /\ Head(TBF) = "book" /\ Tail(TBF) = TF
  BY DEF TBF, TF, Step
<1>15. TDBF \in Seq(Step) /\ TDBF # <<>> /\ Head(TDBF) = "deduct" /\ Tail(TDBF) = TBF
  BY DEF TDBF, TBF, Step
<1>16. TSDBF \in Seq(Step) /\ TSDBF # <<>> /\ Head(TSDBF) = "sale" /\ Tail(TSDBF) = TDBF
  BY DEF TSDBF, TDBF, Step
<1>17. TLSDBF \in Seq(Step) /\ TLSDBF # <<>> /\ Head(TLSDBF) = "lines" /\ Tail(TLSDBF) = TSDBF
  BY DEF TLSDBF, TSDBF, Step
<1>18. TCLSDBF \in Seq(Step) /\ TCLSDBF # <<>> /\ Head(TCLSDBF) = "cart" /\ Tail(TCLSDBF) = TLSDBF
  BY DEF TCLSDBF, TLSDBF, Step
<1>19. TNS \in Seq(Step) /\ TNS # <<>> /\ Head(TNS) = "count" /\ Tail(TNS) = TSDBF
  BY DEF TNS, TSDBF, Step
<1>20. TTNS \in Seq(Step) /\ TTNS # <<>> /\ Head(TTNS) = "tally" /\ Tail(TTNS) = TNS
  BY DEF TTNS, TNS, Step
<1>21. TVTNS \in Seq(Step) /\ TVTNS # <<>> /\ Head(TVTNS) = "coupon" /\ Tail(TVTNS) = TTNS
  BY DEF TVTNS, TTNS, Step
<1>22. TLVTNS \in Seq(Step) /\ TLVTNS # <<>> /\ Head(TLVTNS) = "lines" /\ Tail(TLVTNS) = TVTNS
  BY DEF TLVTNS, TVTNS, Step
<1>23. TCLVTNS \in Seq(Step) /\ TCLVTNS # <<>> /\ Head(TCLVTNS) = "cart" /\ Tail(TCLVTNS) = TLVTNS
  BY DEF TCLVTNS, TLVTNS, Step
<1>24. QED
  BY <1>1, <1>2, <1>3, <1>4, <1>5, <1>6, <1>7, <1>8, <1>9, <1>10, <1>11, <1>12, <1>13,
     <1>14, <1>15, <1>16, <1>17, <1>18, <1>19, <1>20, <1>21, <1>22, <1>23

\* The lists of a checkout, with and without a coupon.
LEMMA CheckoutLists ==
  ASSUME NEW c \in BOOLEAN
  PROVE  /\ CheckoutSteps(c) = IF c THEN TCVTNW ELSE TCW
         /\ StoredSteps(c) = IF c THEN TCLVTNS ELSE TCLSDBF
  BY DEF CheckoutSteps, StoredSteps, TCVTNW, TCW, TCLVTNS, TCLSDBF

\* What is left after a step that is not the last.
LEMMA Successors ==
  ASSUME NEW t, NEW u, u = Tail(t), Head(t) # "log", Head(t) # "finish", t # TW
  PROVE  /\ t \in {TCLW, TLW, TW} => u \in {TLW, TW}
         /\ t \in {TLW, TW} => u = TW
         /\ t \in {TLWG, TWG, TG} => u \in {TWG, TG}
         /\ t \in {TCLWG, TLWG, TWG, TG} => u \in {TLWG, TWG, TG}
         /\ t \in {TCW, TW} => u = TW
         /\ t \in {TCVTNW, TVTNW, TTNW, TNW, TW} => u \in {TVTNW, TTNW, TNW, TW}
         /\ t \in {TSDBF, TDBF, TBF, TF} => u \in {TDBF, TBF, TF}
         /\ t \in {TCLVTNS, TLVTNS, TVTNS, TTNS, TNS} => u \in {TLVTNS, TVTNS, TTNS, TNS, TSDBF}
         /\ t \in {TCLSDBF, TLSDBF} => u \in {TLSDBF, TSDBF}
  BY ZenonT(60), ListsGive

\* Where an operation is when it does a step.
LEMMA DoingGives ==
  ASSUME NEW w \in Op, OnPlan(w), job \in [Op -> Job], NEW x, Doing(w, x)
  PROVE  /\ job[w].kind \in {"add", "remove", "void", "clear", "sweep", "checkout", "stored"}
         /\ x = "cart" => todo[w] \in {TCLW, TCLWG, TCW, TCVTNW, TCLSDBF, TCLVTNS}
         /\ x = "lines" => todo[w] \in {TLW, TLWG, TLSDBF, TLVTNS}
         /\ x = "coupon" => todo[w] \in {TVTNW, TVTNS}
         /\ x = "tally" => todo[w] \in {TTNW, TTNS}
         /\ x = "count" => todo[w] \in {TNW, TNS}
         /\ x = "write" => todo[w] \in {TW, TWG}
         /\ x = "log" => todo[w] = TG
         /\ x = "sale" => todo[w] = TSDBF
         /\ x = "deduct" => todo[w] = TDBF
         /\ x = "book" => todo[w] = TBF
         /\ x = "finish" => todo[w] = TF
         /\ x = "cart" => job[w].kind \notin {"remove", "void"}
         /\ x = "lines" => job[w].kind \in {"add", "remove", "void", "clear", "stored"}
         /\ x \in {"coupon", "tally", "count"} => job[w].kind \in {"checkout", "stored"}
         /\ x \in {"coupon", "tally", "count"} => job[w].coupon
         /\ x \in {"sale", "deduct", "book", "finish"} => job[w].kind = "stored"
         /\ x = "log" => job[w].kind \in {"void", "clear"}
         /\ x = "write" /\ job[w].kind \in {"void", "clear"} => todo[w] = TWG
         /\ x = "write" /\ job[w].kind \notin {"void", "clear"} => todo[w] = TW
<1>1. job[w].kind \in Kind
  BY DEF Job
<1>2. job[w].kind # "none"
  BY DEF OnPlan, Doing
<1>3. todo[w] \in {TCLW, TLW, TW, TLWG, TWG, TG, TCLWG, TCW, TCVTNW, TVTNW, TTNW, TNW,
                   TSDBF, TDBF, TBF, TF, TCLVTNS, TLVTNS, TVTNS, TTNS, TNS, TCLSDBF, TLSDBF}
  BY <1>1, <1>2 DEF OnPlan, Kind
<1>4. Head(todo[w]) = x
  BY DEF Doing
<1>5. /\ job[w].kind \in {"add", "remove", "void", "clear", "sweep", "checkout", "stored"}
      /\ x = "cart" => todo[w] \in {TCLW, TCLWG, TCW, TCVTNW, TCLSDBF, TCLVTNS}
      /\ x = "lines" => todo[w] \in {TLW, TLWG, TLSDBF, TLVTNS}
      /\ x = "coupon" => todo[w] \in {TVTNW, TVTNS}
      /\ x = "tally" => todo[w] \in {TTNW, TTNS}
      /\ x = "count" => todo[w] \in {TNW, TNS}
      /\ x = "write" => todo[w] \in {TW, TWG}
      /\ x = "log" => todo[w] = TG
      /\ x = "sale" => todo[w] = TSDBF
      /\ x = "deduct" => todo[w] = TDBF
      /\ x = "book" => todo[w] = TBF
      /\ x = "finish" => todo[w] = TF
  BY <1>1, <1>2, <1>3, <1>4, ListsGive DEF Kind
<1>6. /\ x = "cart" => job[w].kind \notin {"remove", "void"}
      /\ x = "lines" => job[w].kind \in {"add", "remove", "void", "clear", "stored"}
  BY <1>4, <1>5, ListsGive DEF OnPlan
<1>7. /\ x \in {"coupon", "tally", "count"} => job[w].kind \in {"checkout", "stored"}
      /\ x \in {"coupon", "tally", "count"} => job[w].coupon
  BY <1>4, <1>5, ListsGive DEF OnPlan
<1>8. /\ x \in {"sale", "deduct", "book", "finish"} => job[w].kind = "stored"
      /\ x = "log" => job[w].kind \in {"void", "clear"}
  BY ZenonT(60), <1>4, <1>5, ListsGive DEF OnPlan
<1>9. /\ x = "write" /\ job[w].kind \in {"void", "clear"} => todo[w] = TWG
      /\ x = "write" /\ job[w].kind \notin {"void", "clear"} => todo[w] = TW
  BY <1>4, <1>5, ListsGive DEF OnPlan
<1>10. QED
  BY <1>5, <1>6, <1>7, <1>8, <1>9

\* What it has to do after a step that is not its last.
LEMMA NextPlan ==
  ASSUME NEW w \in Op, OnPlan(w), job \in [Op -> Job], todo \in [Op -> Seq(Step)],
         NEW x \in Step \ {"log", "finish"}, Doing(w, x), Advance(w), todo[w] # TW,
         job'[w].kind = job[w].kind, job'[w].coupon = job[w].coupon
  PROVE  /\ todo' \in [Op -> Seq(Step)] /\ todo'[w] = Tail(todo[w])
         /\ OnPlan(w)'
<1>1. Tail(todo[w]) \in Seq(Step)
  <2>1. todo[w] \in Seq(Step) /\ todo[w] # <<>>
    BY DEF Doing
  <2>2. QED
    BY <2>1, HeadTailProperties
<1>2. todo' \in [Op -> Seq(Step)] /\ todo'[w] = Tail(todo[w])
  BY <1>1 DEF Advance
<1>3. job[w].kind # "none" /\ Head(todo[w]) = x /\ job[w].kind \in Kind
  BY DoingGives DEF Doing, Job
<1>4. x # "log" /\ x # "finish"
  OBVIOUS
<1>5. job'[w].kind = job[w].kind /\ job'[w].coupon = job[w].coupon
  OBVIOUS
<1>6. OnPlan(w)'
  <2>1. PICK t, u : t = todo[w] /\ u = todo'[w]
    OBVIOUS
  <2>2. /\ t \in {TCLW, TLW, TW} => u \in {TLW, TW}
        /\ t \in {TLW, TW} => u = TW
        /\ t \in {TLWG, TWG, TG} => u \in {TWG, TG}
        /\ t \in {TCLWG, TLWG, TWG, TG} => u \in {TLWG, TWG, TG}
        /\ t \in {TCW, TW} => u = TW
        /\ t \in {TCVTNW, TVTNW, TTNW, TNW, TW} => u \in {TVTNW, TTNW, TNW, TW}
        /\ t \in {TSDBF, TDBF, TBF, TF} => u \in {TDBF, TBF, TF}
        /\ t \in {TCLVTNS, TLVTNS, TVTNS, TTNS, TNS} => u \in {TLVTNS, TVTNS, TTNS, TNS, TSDBF}
        /\ t \in {TCLSDBF, TLSDBF} => u \in {TLSDBF, TSDBF}
    BY SMTT(30), <1>2, <1>3, <1>4, <2>1, Successors
  <2>3. QED
    BY <1>3, <1>5, <2>1, <2>2 DEF OnPlan
<1>7. QED
  BY <1>2, <1>6

\* What there is can have been read, and still could when there is more.
LEMMA LinesGrow ==
  ASSUME made \in Nat, made' \in Nat, made' >= made
  PROVE  /\ \A f : AreLines(f) => DOMAIN f \subseteq 1 .. made' /\ f \in [DOMAIN f -> Line]
         /\ Memory \subseteq Memory'
<1>1. 1 .. made \subseteq 1 .. made'
  OBVIOUS
<1>2. \A f : AreLines(f) => DOMAIN f \subseteq 1 .. made' /\ f \in [DOMAIN f -> Line]
  BY <1>1 DEF AreLines
<1>3. Lines \subseteq Lines'
  <2>1. SUBSET (1 .. made) \subseteq SUBSET (1 .. made')
    BY <1>1
  <2>2. QED
    BY <2>1 DEF Lines
<1>4. Memory \subseteq Memory'
  BY <1>3 DEF Memory
<1>5. QED
  BY <1>2, <1>4

\* Rows are in Lines, and Lines are rows.
LEMMA LinesAre ==
  /\ \A f : AreLines(f) => f \in Lines
  /\ \A f \in Lines : AreLines(f)
<1>1. ASSUME NEW f, AreLines(f) PROVE f \in Lines
  <2>1. DOMAIN f \in SUBSET (1 .. made) /\ f \in [DOMAIN f -> Line]
    BY <1>1 DEF AreLines
  <2>2. QED
    BY <2>1 DEF Lines
<1>2. ASSUME NEW f \in Lines PROVE AreLines(f)
  <2>1. PICK S \in SUBSET (1 .. made) : f \in [S -> Line]
    BY DEF Lines
  <2>2. DOMAIN f = S
    BY <2>1
  <2>3. QED
    BY <2>1, <2>2 DEF AreLines
<1>3. QED
  BY <1>1, <1>2

\* The part of the rows that an operation depends on are rows.
LEMMA RestrictGives ==
  ASSUME NEW f, AreLines(f), NEW S
  PROVE  /\ AreLines(Restrict(f, DOMAIN f \cap S))
         /\ Positive(f) => Positive(Restrict(f, DOMAIN f \cap S))
<1> DEFINE g == Restrict(f, DOMAIN f \cap S)
<1>1. DOMAIN g = DOMAIN f \cap S /\ \A i \in DOMAIN g : g[i] = f[i]
  BY DEF Restrict
<1>2. g \in [DOMAIN g -> Line] /\ DOMAIN g \subseteq 1 .. made
  BY <1>1 DEF Restrict, AreLines
<1>3. AreLines(g)
  BY <1>2 DEF AreLines
<1>4. Positive(f) => Positive(g)
  BY <1>1 DEF Positive
<1>5. QED
  BY <1>3, <1>4

\* They are the rows of its product, its line, or all.
LEMMA RelevantGives ==
  ASSUME NEW w \in Op, NEW f, AreLines(f)
  PROVE  /\ AreLines(Relevant(w, f)) /\ (Positive(f) => Positive(Relevant(w, f)))
         /\ DOMAIN Relevant(w, f) \subseteq DOMAIN f
         /\ \A i \in DOMAIN Relevant(w, f) :
              /\ Relevant(w, f)[i] = f[i]
              /\ job[w].kind = "add" => f[i].product = job[w].product
              /\ job[w].kind \in {"remove", "void"} => i = job[w].line
         /\ \A i \in DOMAIN f :
              job[w].kind = "add" /\ f[i].product = job[w].product
                => i \in DOMAIN Relevant(w, f)
         /\ job[w].kind \in {"clear", "stored"} => Relevant(w, f) = f
<1> DEFINE S == {i \in DOMAIN f :
                   /\ job[w].kind = "add" => f[i].product = job[w].product
                   /\ job[w].kind \in {"remove", "void"} => i = job[w].line}
<1>1. Relevant(w, f) = Restrict(f, S) /\ S = DOMAIN f \cap S
  BY DEF Relevant
<1>2. AreLines(Relevant(w, f)) /\ (Positive(f) => Positive(Relevant(w, f)))
  <2> HIDE DEF S
  <2>1. QED
    BY <1>1, RestrictGives
<1>3. DOMAIN Relevant(w, f) = S /\ \A i \in S : Relevant(w, f)[i] = f[i]
  <2> HIDE DEF S
  <2>1. QED
    BY <1>1 DEF Restrict
<1>4. job[w].kind \in {"clear", "stored"} => Relevant(w, f) = f
  <2>1. job[w].kind \in {"clear", "stored"} => S = DOMAIN f
    OBVIOUS
  <2> HIDE DEF S
  <2>2. f = [i \in DOMAIN f |-> f[i]]
    BY DEF AreLines
  <2>3. QED
    BY <1>1, <2>1, <2>2 DEF Restrict
<1>5. QED
  BY <1>2, <1>3, <1>4

-----------------------------------------------------------------------------
(* The first layer: steps, readings and types.                             *)

\* An operation that ends.
LEMMA LeaveGives ==
  ASSUME Shape, NEW w \in Op, Leave(w)
  PROVE  /\ job' \in [Op -> Job] /\ todo' \in [Op -> Seq(Step)] /\ got' \in [Op -> Memory]
         /\ job'[w] = Idle /\ todo'[w] = <<>> /\ got'[w] = Blank
         /\ \A v \in Op \ {w} : job'[v] = job[v] /\ todo'[v] = todo[v] /\ got'[v] = got[v]
         /\ OnPlan(w)' /\ Informed(w)' /\ Positive(got'[w].lines)
<1>1. /\ job \in [Op -> Job] /\ todo \in [Op -> Seq(Step)] /\ got \in [Op -> Memory]
      /\ made \in Nat
  BY DEF Shape, TypeOK
<1>2. Idle \in Job /\ Idle.kind = "none" /\ Idle.coupon = FALSE
  BY DEF Idle, Job, Kind
<1>3. AreLines(Empty) /\ Positive(Empty) /\ Blank.lines = Empty /\ Blank.status = "active"
  BY DEF Empty, AreLines, Positive, Blank
<1>4. Blank \in Memory
  <2>1. Empty \in Lines
    BY <1>3, LinesAre
  <2>2. QED
    BY <2>1 DEF Blank, Memory, Status
<1>5. job' \in [Op -> Job] /\ job'[w] = Idle /\ \A v \in Op \ {w} : job'[v] = job[v]
  BY <1>1, <1>2 DEF Leave
<1>6. todo' \in [Op -> Seq(Step)] /\ todo'[w] = <<>> /\ \A v \in Op \ {w} : todo'[v] = todo[v]
  <2>1. PICK e : e = <<>>
    OBVIOUS
  <2>2. e \in Seq(Step) /\ todo' = [todo EXCEPT ![w] = e]
    BY <2>1 DEF Leave
  <2>3. QED
    BY <1>1, <2>1, <2>2
<1>7. got' \in [Op -> Memory] /\ got'[w] = Blank /\ \A v \in Op \ {w} : got'[v] = got[v]
  BY <1>1, <1>4 DEF Leave
<1>8. OnPlan(w)'
  BY <1>2, <1>5, <1>6 DEF OnPlan
<1>9. Informed(w)' /\ Positive(got'[w].lines)
  BY <1>2, <1>3, <1>5, <1>7 DEF Informed
<1>10. QED
  BY <1>5, <1>6, <1>7, <1>8, <1>9

\* The first layer after a step of one operation.
LEMMA ShapeNext ==
  ASSUME Shape, NEW w \in Op,
         job' \in [Op -> Job], todo' \in [Op -> Seq(Step)], got' \in [Op -> Memory],
         \A v \in Op \ {w} : job'[v] = job[v] /\ todo'[v] = todo[v] /\ got'[v] = got[v],
         made' \in Nat, made' >= made, AreLines(line)', Positive(line)', status' \in Status,
         entered' \in [Product -> Int], removed' \in [Product -> Int],
         voided' \in [Product -> Int], logged' \in [Product -> Int],
         unlogged' \in [Product -> Int], used' \in Nat, sale' \in Seq(Sale),
         raced' \in BOOLEAN, rushed' \in BOOLEAN, cut' \in BOOLEAN, ops' \in 0 .. MaxOps,
         OnPlan(w)', Informed(w)', Positive(got'[w].lines)
  PROVE  Shape'
<1>1. made \in Nat /\ \A v \in Op : OnPlan(v) /\ Informed(v) /\ Positive(got[v].lines)
  BY DEF Shape, TypeOK
<1>2. got' \in [Op -> Memory']
  BY <1>1, LinesGrow
<1>3. ASSUME NEW v \in Op
      PROVE  /\ OnPlan(v)' /\ Informed(v)' /\ Positive(got[v].lines)'
             /\ got'[v].status \in Status /\ got'[v].used \in Nat /\ AreLines(got[v].lines)'
  <2>1. got'[v] \in Memory
    OBVIOUS
  <2>2. got'[v].status \in Status /\ got'[v].used \in Nat /\ AreLines(got'[v].lines)
    BY <2>1, LinesAre DEF Memory
  <2>3. AreLines(got[v].lines)'
    BY <1>1, <2>2, LinesGrow DEF AreLines
  <2>4. CASE v = w
    BY <2>2, <2>3, <2>4 DEF Positive
  <2>5. CASE v # w
    <3>1. job'[v] = job[v] /\ todo'[v] = todo[v] /\ got'[v] = got[v]
      BY <2>5
    <3>2. OnPlan(v)' /\ Informed(v)' /\ Positive(got[v].lines)'
      BY <1>1, <3>1 DEF OnPlan, Informed, Positive
    <3>3. QED
      BY <2>2, <2>3, <3>2
  <2>6. QED
    BY <2>4, <2>5
<1>4. TypeOK'
  BY <1>3 DEF TypeOK
<1>5. QED
  BY <1>2, <1>3, <1>4 DEF Shape

-----------------------------------------------------------------------------
(* The units of the lines.                                                 *)

\* Rows are finitely many, and their units are integers.
LEMMA UnitsType ==
  ASSUME NEW m \in Nat, NEW f, DOMAIN f \subseteq 1 .. m, f \in [DOMAIN f -> Line]
  PROVE  /\ IsFiniteSet(DOMAIN f)
         /\ \A p \in Product : \A i \in DOMAIN f : Portion(f, p)[i] \in Int
         /\ \A p \in Product : UnitsIn(f, p) \in Int
         /\ Units(f) \in [Product -> Int]
<1>1. IsFiniteSet(DOMAIN f)
  <2>1. 1 \in Int /\ m \in Int
    OBVIOUS
  <2>2. IsFiniteSet(1 .. m)
    BY <2>1, FS_Interval
  <2>3. QED
    BY <2>2, FS_Subset
<1>2. ASSUME NEW p \in Product, NEW i \in DOMAIN f PROVE Portion(f, p)[i] \in Int
  BY DEF Portion, Line
<1>3. ASSUME NEW p \in Product PROVE UnitsIn(f, p) \in Int
  <2>1. PICK g : g = Portion(f, p)
    OBVIOUS
  <2>2. \A i \in DOMAIN f : g[i] \in Int
    BY <1>2, <2>1
  <2>3. SumFunctionOnSet(g, DOMAIN f) \in Int
    BY <1>1, <2>2, SumType
  <2>4. QED
    BY <2>1, <2>3 DEF UnitsIn
<1>4. QED
  BY <1>1, <1>2, <1>3 DEF Units

\* Sums and differences of such tallies.
LEMMA TallyTypes ==
  /\ None \in [Product -> Int]
  /\ \A a, b \in [Product -> Int] : Plus(a, b) \in [Product -> Int]
  /\ \A a, b \in [Product -> Int] : Minus(a, b) \in [Product -> Int]
  /\ \A p, n : n \in Int => Of(p, n) \in [Product -> Int]
<1>1. None \in [Product -> Int]
  BY DEF None
<1>2. \A a, b \in [Product -> Int] : Plus(a, b) \in [Product -> Int]
  BY DEF Plus
<1>3. \A a, b \in [Product -> Int] : Minus(a, b) \in [Product -> Int]
  BY DEF Minus
<1>4. \A p, n : n \in Int => Of(p, n) \in [Product -> Int]
  BY <1>1 DEF Of
<1>5. QED
  BY <1>1, <1>2, <1>3, <1>4

\* A new line brings its units.
LEMMA InsertGives ==
  ASSUME made \in Nat, AreLines(line), Positive(line), NEW p \in Product,
         NEW n \in Nat \ {0}, Insert(p, n)
  PROVE  /\ made' \in Nat /\ made' = made + 1 /\ made' >= made
         /\ AreLines(line)' /\ Positive(line)'
         /\ DOMAIN line' = DOMAIN line \cup {made + 1} /\ made + 1 \notin DOMAIN line
         /\ line'[made + 1].product = p /\ \A i \in DOMAIN line : line'[i] = line[i]
         /\ \A q \in Product : UnitsIn(line, q)' = UnitsIn(line, q) + Of(p, n)[q]
<1>1. PICK k : k = made + 1
  OBVIOUS
<1>2. k \in Nat /\ made' = k /\ k >= made /\ k \in 1 .. k
  BY <1>1 DEF Insert
<1>3. DOMAIN line \subseteq 1 .. made /\ line \in [DOMAIN line -> Line]
  BY DEF AreLines
<1>4. k \notin DOMAIN line /\ DOMAIN line \cup {k} \subseteq 1 .. k
  BY <1>1, <1>2, <1>3
<1>5. /\ DOMAIN line' = DOMAIN line \cup {k} /\ line'[k] = [product |-> p, qty |-> n]
      /\ \A i \in DOMAIN line : line'[i] = line[i]
      /\ line' = [i \in DOMAIN line \cup {k} |-> line'[i]]
  BY <1>1, <1>4 DEF Insert
<1>6. AreLines(line)'
  <2>1. [product |-> p, qty |-> n] \in Line
    BY DEF Line
  <2>2. line' \in [DOMAIN line' -> Line]
    BY <1>3, <1>5, <2>1
  <2>3. QED
    BY <1>2, <1>4, <1>5, <2>2 DEF AreLines
<1>7. Positive(line)'
  <2>1. line'[k].qty = n /\ n > 0
    BY <1>5
  <2>2. QED
    BY <1>5, <2>1 DEF Positive
<1>8. ASSUME NEW q \in Product PROVE UnitsIn(line, q)' = UnitsIn(line, q) + Of(p, n)[q]
  <2>1. PICK f, g, D, x : /\ f = Portion(line, q) /\ g = Portion(line', q) /\ D = DOMAIN line
                          /\ x = Of(p, n)[q]
    OBVIOUS
  <2>2. IsFiniteSet(D) /\ \A i \in D : f[i] \in Int
    BY <1>3, <2>1, UnitsType
  <2>3. \A i \in D : g[i] = f[i]
    BY <1>5, <2>1 DEF Portion
  <2>4. g[k] = x /\ x \in Int
    <3>1. g[k] = IF p = q THEN n ELSE 0
      BY <1>5, <2>1 DEF Portion
    <3>2. x = IF p = q THEN n ELSE 0
      BY <2>1 DEF Of, None
    <3>3. QED
      BY <3>1, <3>2
  <2>5. \A i \in D \cup {k} : g[i] \in Int
    BY <2>2, <2>3, <2>4
  <2>6. SumFunctionOnSet(g, D \cup {k}) = g[k] + SumFunctionOnSet(g, D)
    BY <1>4, <2>1, <2>2, <2>5, SumAdd
  <2>7. SumFunctionOnSet(g, D) = SumFunctionOnSet(f, D)
    BY <2>2, <2>3, SumSame
  <2>8. SumFunctionOnSet(f, D) \in Int
    BY <2>2, SumType
  <2>9. /\ UnitsIn(line, q)' = SumFunctionOnSet(g, D \cup {k})
        /\ UnitsIn(line, q) = SumFunctionOnSet(f, D)
    BY <1>5, <2>1 DEF UnitsIn
  <2>10. QED
    BY <2>1, <2>4, <2>6, <2>7, <2>8, <2>9
<1>9. QED
  BY <1>1, <1>2, <1>4, <1>5, <1>6, <1>7, <1>8

\* One row with another quantity.
LEMMA ChangeGives ==
  ASSUME made \in Nat, AreLines(line), Positive(line), NEW i \in DOMAIN line,
         NEW n \in Nat \ {0}, line' = [line EXCEPT ![i].qty = n], made' = made
  PROVE  /\ AreLines(line)' /\ Positive(line)' /\ DOMAIN line' = DOMAIN line
         /\ \A j \in DOMAIN line : line'[j].product = line[j].product
         /\ \A q \in Product :
              UnitsIn(line, q)' = UnitsIn(line, q) + Of(line[i].product, n - line[i].qty)[q]
<1>1. DOMAIN line \subseteq 1 .. made /\ line \in [DOMAIN line -> Line]
  BY DEF AreLines
<1>2. PICK p, h : p = line[i].product /\ h = line[i].qty
  OBVIOUS
<1>3. p \in Product /\ h \in Int
  BY <1>1, <1>2 DEF Line
<1>4. /\ DOMAIN line' = DOMAIN line /\ line'[i] = [line[i] EXCEPT !.qty = n]
      /\ \A j \in DOMAIN line : j # i => line'[j] = line[j]
      /\ line' = [j \in DOMAIN line |-> line'[j]]
  OBVIOUS
<1>5. line'[i] \in Line /\ line'[i].product = p /\ line'[i].qty = n
  BY <1>1, <1>2, <1>4 DEF Line
<1>6. AreLines(line)'
  <2>1. line' \in [DOMAIN line' -> Line]
    BY <1>1, <1>4, <1>5
  <2>2. QED
    BY <1>1, <1>4, <2>1 DEF AreLines
<1>7. Positive(line)'
  <2>1. n > 0
    OBVIOUS
  <2>2. QED
    BY <1>4, <1>5, <2>1 DEF Positive
<1>8. ASSUME NEW q \in Product
      PROVE  UnitsIn(line, q)' = UnitsIn(line, q) + Of(p, n - h)[q]
  <2>1. PICK f, g, D : f = Portion(line, q) /\ g = Portion(line', q) /\ D = DOMAIN line
    OBVIOUS
  <2>2. IsFiniteSet(D) /\ (\A j \in D : f[j] \in Int)
    BY <1>1, <2>1, UnitsType
  <2>3. \A j \in D \ {i} : g[j] = f[j]
    BY <1>4, <2>1 DEF Portion
  <2>4. (f[i] = IF p = q THEN h ELSE 0) /\ (g[i] = IF p = q THEN n ELSE 0)
    BY <1>2, <1>4, <1>5, <2>1 DEF Portion
  <2>5. i \in D /\ \A j \in D : f[j] \in Int /\ g[j] \in Int
    <3>1. i \in D /\ n \in Int
      BY <2>1
    <3>2. g[i] \in Int
      BY <2>4, <3>1
    <3>3. QED
      BY <2>2, <2>3, <3>1, <3>2
  <2>6. SumFunctionOnSet(g, D) = SumFunctionOnSet(f, D) + g[i] - f[i]
    BY <2>2, <2>3, <2>5, SumChange
  <2>7. SumFunctionOnSet(f, D) \in Int
    BY <2>2, SumType
  <2>8. Of(p, n - h)[q] = IF p = q THEN n - h ELSE 0
    BY DEF Of, None
  <2>9. /\ UnitsIn(line, q)' = SumFunctionOnSet(g, D)
        /\ UnitsIn(line, q) = SumFunctionOnSet(f, D)
    BY <1>4, <2>1 DEF UnitsIn
  <2>10. PICK a, b, x, y : /\ a = SumFunctionOnSet(g, D) /\ b = SumFunctionOnSet(f, D)
                           /\ x = g[i] /\ y = f[i]
    OBVIOUS
  <2>11. a = b + x - y /\ b \in Int /\ x \in Int /\ y \in Int
    BY <2>1, <2>5, <2>6, <2>7, <2>10
  <2>12. a = b + (IF p = q THEN n - h ELSE 0)
    BY <1>3, <2>4, <2>10, <2>11
  <2>13. QED
    BY <2>8, <2>9, <2>10, <2>12
<1>9. QED
  BY <1>2, <1>4, <1>5, <1>6, <1>7, <1>8

\* Rows that go take their units along; of one row, its own.
LEMMA DeleteGives ==
  ASSUME made \in Nat, AreLines(line), Positive(line), NEW S, Delete(S)
  PROVE  /\ AreLines(line)' /\ Positive(line)' /\ made' = made
         /\ DOMAIN line' \subseteq DOMAIN line
         /\ \A j \in DOMAIN line' : line'[j].product = line[j].product
         /\ S = DOMAIN line => \A q \in Product : UnitsIn(line, q)' = 0
         /\ \A i \in DOMAIN line : S = {i} => \A q \in Product :
              UnitsIn(line, q)' = UnitsIn(line, q) - Of(line[i].product, line[i].qty)[q]
<1>1. DOMAIN line \subseteq 1 .. made /\ line \in [DOMAIN line -> Line] /\ made' = made
  BY DEF AreLines, Delete
<1>2. PICK D : D = DOMAIN line
  OBVIOUS
<1>3. /\ DOMAIN line' = D \ S /\ line' = [j \in D \ S |-> line[j]]
      /\ \A j \in D \ S : line'[j] = line[j]
  BY <1>2 DEF Delete, Restrict
<1>4. AreLines(line)' /\ Positive(line)'
  <2>1. line' \in [DOMAIN line' -> Line] /\ DOMAIN line' \subseteq 1 .. made'
    BY <1>1, <1>2, <1>3
  <2>2. QED
    BY <1>2, <1>3, <2>1 DEF AreLines, Positive
<1>5. ASSUME S = D, NEW q \in Product PROVE UnitsIn(line, q)' = 0
  <2>1. DOMAIN line' = {}
    BY <1>3, <1>5
  <2>2. PICK g : g = Portion(line', q)
    OBVIOUS
  <2>3. UnitsIn(line, q)' = SumFunctionOnSet(g, {})
    BY <2>1, <2>2 DEF UnitsIn
  <2>4. QED
    BY <2>3, SumEmpty
<1>6. ASSUME NEW i \in D, S = {i}, NEW q \in Product
      PROVE  UnitsIn(line, q)' = UnitsIn(line, q) - Of(line[i].product, line[i].qty)[q]
  <2>1. PICK f, g, p, h : /\ f = Portion(line, q) /\ g = Portion(line', q)
                          /\ p = line[i].product /\ h = line[i].qty
    OBVIOUS
  <2>2. IsFiniteSet(D) /\ (\A j \in D : f[j] \in Int) /\ IsFiniteSet(D \ {i})
    <3>1. IsFiniteSet(D) /\ (\A j \in D : f[j] \in Int)
      BY <1>1, <1>2, <2>1, UnitsType
    <3>2. QED
      BY <3>1, FS_Subset
  <2>3. \A j \in D \ {i} : g[j] = f[j]
    BY <1>2, <1>3, <1>6, <2>1 DEF Portion
  <2>4. SumFunctionOnSet(g, D \ {i}) = SumFunctionOnSet(f, D \ {i})
    BY <2>2, <2>3, SumSame
  <2>5. SumFunctionOnSet(f, D) = f[i] + SumFunctionOnSet(f, D \ {i})
    BY <1>6, <2>2, SumRemove
  <2>6. SumFunctionOnSet(f, D \ {i}) \in Int
    BY <2>2, SumType
  <2>7. f[i] = IF p = q THEN h ELSE 0
    BY <1>2, <1>6, <2>1 DEF Portion
  <2>8. Of(p, h)[q] = IF p = q THEN h ELSE 0
    BY DEF Of, None
  <2>9. /\ UnitsIn(line, q)' = SumFunctionOnSet(g, D \ {i})
        /\ UnitsIn(line, q) = SumFunctionOnSet(f, D)
    BY <1>2, <1>3, <1>6, <2>1 DEF UnitsIn
  <2>10. PICK a, b, x : /\ a = SumFunctionOnSet(f, D) /\ b = SumFunctionOnSet(f, D \ {i})
                        /\ x = f[i]
    OBVIOUS
  <2>11. a = x + b /\ x \in Int /\ b \in Int
    BY <1>6, <2>2, <2>5, <2>6, <2>10
  <2>12. b = a - x
    BY <2>11
  <2>13. x = Of(p, h)[q]
    BY <2>7, <2>8, <2>10
  <2>14. QED
    BY <2>1, <2>4, <2>9, <2>10, <2>12, <2>13
<1>7. QED
  BY <1>1, <1>2, <1>3, <1>4, <1>5, <1>6

\* A line that is updated to a number of units above zero, as it is if nobody
\* has touched it since it was read.
LEMMA UpdateGives ==
  ASSUME Shape, NEW w \in Op, NEW i \in DOMAIN got[w].lines, NEW n \in Nat \ {0},
         Update(w, i, n)
  PROVE  /\ AreLines(line)' /\ Positive(line)' /\ made' = made /\ DOMAIN line' = DOMAIN line
         /\ \A j \in DOMAIN line : line'[j].product = line[j].product
         /\ i \in DOMAIN line /\ line[i] = got[w].lines[i] =>
              \A q \in Product :
                UnitsIn(line, q)' = UnitsIn(line, q) + Of(line[i].product, n - line[i].qty)[q]
<1>1. made \in Nat /\ AreLines(line) /\ Positive(line) /\ made' = made
  BY DEF Shape, TypeOK, Update
<1>2. CASE n = got[w].lines[i].qty
  <2>1. line' = line
    BY <1>2 DEF Update
  <2>2. AreLines(line)' /\ Positive(line)' /\ DOMAIN line' = DOMAIN line
    BY <1>1, <2>1 DEF AreLines, Positive
  <2>3. ASSUME i \in DOMAIN line, line[i] = got[w].lines[i], NEW q \in Product
        PROVE  UnitsIn(line, q)' = UnitsIn(line, q) + Of(line[i].product, n - line[i].qty)[q]
    <3>1. n - line[i].qty = 0
      BY <1>2, <2>3
    <3>2. PICK p, z : p = line[i].product /\ z = n - line[i].qty
      OBVIOUS
    <3>3. Of(p, z)[q] = 0
      BY <3>1, <3>2 DEF Of, None
    <3>4. UnitsIn(line, q)' = UnitsIn(line, q)
      BY <2>1 DEF UnitsIn, Portion
    <3>5. UnitsIn(line, q) \in Int
      BY <1>1, UnitsType DEF AreLines
    <3>6. QED
      BY <3>2, <3>3, <3>4, <3>5
  <2>4. QED
    BY <1>1, <2>1, <2>2, <2>3
<1>3. CASE n # got[w].lines[i].qty
  <2>1. i \in DOMAIN line /\ line' = [line EXCEPT ![i].qty = n]
    BY <1>3 DEF Update
  <2>2. QED
    BY <1>1, <2>1, ChangeGives
<1>4. QED
  BY <1>2, <1>3

\* An entry of the audit log is a tally.
LEMMA EntryType ==
  ASSUME Shape, NEW w \in Op
  PROVE  Entry(w) \in [Product -> Int]
<1>1. /\ made \in Nat /\ job \in [Op -> Job] /\ AreLines(got[w].lines)
  BY DEF Shape, TypeOK
<1>2. Units(got[w].lines) \in [Product -> Int]
  BY <1>1, UnitsType DEF AreLines
<1>3. job[w].n \in Int
  BY <1>1 DEF Job
<1>4. QED
  BY <1>2, <1>3, TallyTypes DEF Entry

\* An operation that goes on.
LEMMA AdvanceGives ==
  ASSUME Shape, NEW w \in Op, NEW x \in Step \ {"log", "finish"}, Doing(w, x), Advance(w),
         todo[w] # TW, job' \in [Op -> Job],
         job'[w].kind = job[w].kind, job'[w].coupon = job[w].coupon
  PROVE  /\ todo' \in [Op -> Seq(Step)] /\ todo'[w] = Tail(todo[w]) /\ OnPlan(w)'
         /\ \A v \in Op \ {w} : todo'[v] = todo[v]
<1>1. job \in [Op -> Job] /\ todo \in [Op -> Seq(Step)] /\ OnPlan(w)
  BY DEF Shape, TypeOK
<1>2. todo' \in [Op -> Seq(Step)] /\ todo'[w] = Tail(todo[w]) /\ OnPlan(w)'
  BY <1>1, NextPlan
<1>3. \A v \in Op \ {w} : todo'[v] = todo[v]
  BY <1>1 DEF Advance
<1>4. QED
  BY <1>2, <1>3

\* The first layer after a step that only reads, or touches nothing of it but
\* the sales, the coupon and what the operation remembers.
LEMMA QuietStep ==
  ASSUME Shape, NEW w \in Op, NEW x \in Step \ {"log", "finish", "write"}, Doing(w, x),
         Advance(w), job' \in [Op -> Job], got' \in [Op -> Memory],
         job'[w] = [job[w] EXCEPT !.sale = job'[w].sale],
         \A v \in Op \ {w} : job'[v] = job[v] /\ got'[v] = got[v],
         UNCHANGED <<status, lineVars, auditVars, cut, ops>>,
         used' \in Nat, sale' \in Seq(Sale), raced' \in BOOLEAN, rushed' \in BOOLEAN,
         Informed(w)', Positive(got'[w].lines)
  PROVE  Shape'
<1>1. job \in [Op -> Job] /\ OnPlan(w)
  BY DEF Shape, TypeOK
<1>2. todo[w] # TW
  BY ListsGive DEF Doing
<1>3. job[w] \in Job
  BY <1>1
<1>4. job'[w].kind = job[w].kind /\ job'[w].coupon = job[w].coupon
  BY <1>3 DEF Job
<1>5. x \in Step \ {"log", "finish"}
  OBVIOUS
<1>6. /\ todo' \in [Op -> Seq(Step)] /\ OnPlan(w)' /\ \A v \in Op \ {w} : todo'[v] = todo[v]
  BY <1>2, <1>4, <1>5, AdvanceGives
<1>7. /\ made' \in Nat /\ made' >= made /\ AreLines(line)' /\ Positive(line)' /\ status' \in Status
      /\ entered' \in [Product -> Int] /\ removed' \in [Product -> Int]
      /\ voided' \in [Product -> Int] /\ logged' \in [Product -> Int]
      /\ unlogged' \in [Product -> Int] /\ cut' \in BOOLEAN /\ ops' \in 0 .. MaxOps
  BY DEF Shape, TypeOK, lineVars, auditVars, AreLines, Positive
<1>8. QED
  BY <1>6, <1>7, ShapeNext

\* The first layer after the last step of an operation.
LEMMA LastStep ==
  ASSUME Shape, NEW w \in Op, Leave(w),
         made' \in Nat, made' >= made, AreLines(line)', Positive(line)', status' \in Status,
         entered' \in [Product -> Int], removed' \in [Product -> Int],
         voided' \in [Product -> Int], logged' \in [Product -> Int],
         unlogged' \in [Product -> Int], used' \in Nat, sale' \in Seq(Sale),
         raced' \in BOOLEAN, rushed' \in BOOLEAN, cut' \in BOOLEAN, ops' \in 0 .. MaxOps
  PROVE  Shape'
<1>1. /\ job' \in [Op -> Job] /\ todo' \in [Op -> Seq(Step)] /\ got' \in [Op -> Memory]
      /\ \A v \in Op \ {w} : job'[v] = job[v] /\ todo'[v] = todo[v] /\ got'[v] = got[v]
      /\ OnPlan(w)' /\ Informed(w)' /\ Positive(got'[w].lines)
  BY LeaveGives
<1>2. QED
  BY <1>1, ShapeNext

\* The first layer after the arrival of an operation.
LEMMA BeginShape ==
  ASSUME Shape, NEW w \in Op, NEW j \in Job, NEW list \in Seq(Step), Begin(w, j, list),
         OnPlan(w)', Informed(w)'
  PROVE  Shape'
<1>1. /\ job \in [Op -> Job] /\ todo \in [Op -> Seq(Step)] /\ got \in [Op -> Memory]
      /\ ops \in 0 .. MaxOps /\ MaxOps \in Nat /\ ops < MaxOps /\ ops' = ops + 1
  BY CartsAssumption DEF Shape, TypeOK, Begin
<1>2. job' \in [Op -> Job] /\ todo' \in [Op -> Seq(Step)] /\ got' \in [Op -> Memory]
  BY <1>1 DEF Begin
<1>3. \A v \in Op \ {w} : job'[v] = job[v] /\ todo'[v] = todo[v] /\ got'[v] = got[v]
  BY <1>1 DEF Begin
<1>4. ops' \in 0 .. MaxOps
  BY <1>1
<1>5. /\ made' \in Nat /\ made' >= made /\ AreLines(line)' /\ Positive(line)' /\ status' \in Status
      /\ entered' \in [Product -> Int] /\ removed' \in [Product -> Int]
      /\ voided' \in [Product -> Int] /\ logged' \in [Product -> Int]
      /\ unlogged' \in [Product -> Int] /\ cut' \in BOOLEAN
      /\ used' \in Nat /\ sale' \in Seq(Sale) /\ raced' \in BOOLEAN /\ rushed' \in BOOLEAN
  BY DEF Shape, TypeOK, lineVars, auditVars, AreLines, Positive, Begin
<1>6. Positive(got'[w].lines)
  <2>1. got' = got /\ Positive(got[w].lines)
    BY DEF Shape, Begin
  <2>2. QED
    BY <2>1
<1>7. QED
  BY <1>2, <1>3, <1>4, <1>5, <1>6, ShapeNext

\* An operation that arrives has seen nothing yet.
LEMMA StartShape ==
  ASSUME Shape, NEW w \in Op, Start(w)
  PROVE  Shape'
<1>1. /\ job \in [Op -> Job] /\ todo \in [Op -> Seq(Step)] /\ DOMAIN line \subseteq Nat
      /\ job[w] = Idle => got[w].status = "active"
  <2>1. Idle.kind = "none"
    BY DEF Idle
  <2>2. QED
    BY <2>1 DEF Shape, TypeOK, AreLines, Informed
<1>2. /\ Idle \in Job /\ Idle.coupon = FALSE
  BY DEF Idle, Job, Kind
<1>3. Qty \subseteq Nat \ {0} /\ VoidQty \subseteq Int
  BY CartsAssumption
<1>4. ASSUME NEW j \in Job, NEW list \in Seq(Step), Begin(w, j, list)
      PROVE  job'[w] = j /\ todo'[w] = list /\ got'[w].status = "active"
  BY <1>1, <1>4 DEF Begin
<1>5. ASSUME NEW p \in Product, NEW n \in Qty \cup {0},
             Begin(w, [Idle EXCEPT !.kind = "add", !.product = p, !.n = n],
                   <<"cart", "lines", "write">>)
      PROVE  Shape'
  <2>1. PICK j : j = [Idle EXCEPT !.kind = "add", !.product = p, !.n = n]
    OBVIOUS
  <2>2. n \in Nat /\ n \in Int
    BY <1>3
  <2>3. j \in Job /\ j.kind = "add" /\ j.product = p /\ j.n = n /\ j.coupon = FALSE
    BY <1>2, <2>1, <2>2 DEF Job, Kind
  <2>4. Begin(w, j, TCLW) /\ TCLW \in Seq(Step)
    BY <1>5, <2>1, ListsGive DEF TCLW
  <2>5. job'[w] = j /\ todo'[w] = TCLW /\ got'[w].status = "active"
    BY <1>4, <2>3, <2>4
  <2>6. OnPlan(w)' /\ Informed(w)'
    BY <2>2, <2>3, <2>5 DEF OnPlan, Informed
  <2>7. QED
    BY <2>3, <2>4, <2>6, BeginShape
<1>6. ASSUME NEW i \in DOMAIN line,
             Begin(w, [Idle EXCEPT !.kind = "remove", !.line = i], <<"lines", "write">>)
      PROVE  Shape'
  <2>1. PICK j : j = [Idle EXCEPT !.kind = "remove", !.line = i]
    OBVIOUS
  <2>2. j \in Job /\ j.kind = "remove" /\ j.coupon = FALSE
    BY <1>1, <1>2, <2>1 DEF Job, Kind
  <2>3. Begin(w, j, TLW) /\ TLW \in Seq(Step)
    BY <1>6, <2>1, ListsGive DEF TLW
  <2>4. job'[w] = j /\ todo'[w] = TLW
    BY <1>4, <2>2, <2>3
  <2>5. OnPlan(w)' /\ Informed(w)'
    BY ZenonT(60), <2>2, <2>4, ListsGive DEF OnPlan, Informed
  <2>6. QED
    BY <2>2, <2>3, <2>5, BeginShape
<1>7. ASSUME NEW i \in DOMAIN line, NEW n \in VoidQty,
             Begin(w, [Idle EXCEPT !.kind = "void", !.line = i, !.n = n],
                   <<"lines", "write", "log">>)
      PROVE  Shape'
  <2>1. PICK j : j = [Idle EXCEPT !.kind = "void", !.line = i, !.n = n]
    OBVIOUS
  <2>2. j \in Job /\ j.kind = "void" /\ j.coupon = FALSE
    BY <1>1, <1>2, <1>3, <2>1 DEF Job, Kind
  <2>3. Begin(w, j, TLWG) /\ TLWG \in Seq(Step)
    BY <1>7, <2>1, ListsGive DEF TLWG
  <2>4. job'[w] = j /\ todo'[w] = TLWG
    BY <1>4, <2>2, <2>3
  <2>5. OnPlan(w)' /\ Informed(w)'
    BY <2>2, <2>4, ListsGive DEF OnPlan, Informed
  <2>6. QED
    BY <2>2, <2>3, <2>5, BeginShape
<1>8. ASSUME Begin(w, [Idle EXCEPT !.kind = "clear"], <<"cart", "lines", "write", "log">>)
      PROVE  Shape'
  <2>1. PICK j : j = [Idle EXCEPT !.kind = "clear"]
    OBVIOUS
  <2>2. j \in Job /\ j.kind = "clear" /\ j.coupon = FALSE
    BY <1>2, <2>1 DEF Job, Kind
  <2>3. Begin(w, j, TCLWG) /\ TCLWG \in Seq(Step)
    BY <1>8, <2>1, ListsGive DEF TCLWG
  <2>4. job'[w] = j /\ todo'[w] = TCLWG /\ got'[w].status = "active"
    BY <1>4, <2>2, <2>3
  <2>5. OnPlan(w)' /\ Informed(w)'
    BY <2>2, <2>4 DEF OnPlan, Informed
  <2>6. QED
    BY <2>2, <2>3, <2>5, BeginShape
<1>9. ASSUME NEW p \in Product, NEW n \in Qty, NEW c \in BOOLEAN,
             Begin(w, [Idle EXCEPT !.kind = "checkout", !.product = p, !.n = n, !.coupon = c],
                   CheckoutSteps(c))
      PROVE  Shape'
  <2>1. PICK j : j = [Idle EXCEPT !.kind = "checkout", !.product = p, !.n = n, !.coupon = c]
    OBVIOUS
  <2>2. n \in Nat \ {0} /\ n \in Int
    BY <1>3
  <2>3. j \in Job /\ j.kind = "checkout" /\ j.product = p /\ j.n = n /\ j.coupon = c
    BY <1>2, <2>1, <2>2 DEF Job, Kind
  <2>4. PICK list : list = CheckoutSteps(c)
    OBVIOUS
  <2>5. (list = IF c THEN TCVTNW ELSE TCW) /\ list \in Seq(Step)
    BY <2>4, CheckoutLists, ListsGive
  <2>6. Begin(w, j, list)
    BY <1>9, <2>1, <2>4
  <2>7. job'[w] = j /\ todo'[w] = list
    BY <1>4, <2>3, <2>5, <2>6
  <2>8. OnPlan(w)' /\ Informed(w)'
    BY <2>2, <2>3, <2>5, <2>7 DEF OnPlan, Informed
  <2>9. QED
    BY <2>3, <2>5, <2>6, <2>8, BeginShape
<1>10. ASSUME NEW c \in BOOLEAN,
              Begin(w, [Idle EXCEPT !.kind = "stored", !.coupon = c], StoredSteps(c))
       PROVE  Shape'
  <2>1. PICK j : j = [Idle EXCEPT !.kind = "stored", !.coupon = c]
    OBVIOUS
  <2>2. j \in Job /\ j.kind = "stored" /\ j.coupon = c
    BY <1>2, <2>1 DEF Job, Kind
  <2>3. PICK list : list = StoredSteps(c)
    OBVIOUS
  <2>4. (list = IF c THEN TCLVTNS ELSE TCLSDBF) /\ list \in Seq(Step)
    BY <2>3, CheckoutLists, ListsGive
  <2>5. Begin(w, j, list)
    BY <1>10, <2>1, <2>3
  <2>6. job'[w] = j /\ todo'[w] = list
    BY <1>4, <2>2, <2>4, <2>5
  <2>7. OnPlan(w)' /\ Informed(w)'
    BY <2>2, <2>4, <2>6 DEF OnPlan, Informed
  <2>8. QED
    BY <2>2, <2>4, <2>5, <2>7, BeginShape
<1>11. ASSUME Begin(w, [Idle EXCEPT !.kind = "sweep"], <<"cart", "write">>)
       PROVE  Shape'
  <2>1. PICK j : j = [Idle EXCEPT !.kind = "sweep"]
    OBVIOUS
  <2>2. j \in Job /\ j.kind = "sweep" /\ j.coupon = FALSE
    BY <1>2, <2>1 DEF Job, Kind
  <2>3. Begin(w, j, TCW) /\ TCW \in Seq(Step)
    BY <1>11, <2>1, ListsGive DEF TCW
  <2>4. job'[w] = j /\ todo'[w] = TCW /\ got'[w].status = "active"
    BY <1>4, <2>2, <2>3
  <2>5. OnPlan(w)' /\ Informed(w)'
    BY <2>2, <2>4 DEF OnPlan, Informed
  <2>6. QED
    BY <2>2, <2>3, <2>5, BeginShape
<1>12. QED
  BY <1>5, <1>6, <1>7, <1>8, <1>9, <1>10, <1>11 DEF Start

\* The status that is read of a cart is the one it has.
LEMMA ReadCartShape ==
  ASSUME Shape, NEW w \in Op, ReadCart(w)
  PROVE  Shape'
<1>1. /\ job \in [Op -> Job] /\ got \in [Op -> Memory] /\ status \in Status
      /\ Positive(got[w].lines) /\ OnPlan(w) /\ Informed(w)
      /\ used \in Nat /\ sale \in Seq(Sale) /\ raced \in BOOLEAN /\ rushed \in BOOLEAN
  BY DEF Shape, TypeOK
<1>2. Doing(w, "cart") /\ Advance(w) /\ "cart" \in Step \ {"log", "finish", "write"}
  BY DEF ReadCart, Step
<1>3. UNCHANGED <<status, lineVars, auditVars, used, sale, raced, rushed, cut, job, ops>>
  BY DEF ReadCart
<1>4. /\ got' \in [Op -> Memory] /\ got'[w].lines = got[w].lines /\ got'[w].status = status
      /\ \A v \in Op \ {w} : got'[v] = got[v]
  <2>1. got[w] \in Memory
    BY <1>1
  <2>2. [got[w] EXCEPT !.status = status] \in Memory
    BY <1>1, <2>1 DEF Memory
  <2>3. got' = [got EXCEPT ![w] = [got[w] EXCEPT !.status = status]]
    BY <1>1 DEF ReadCart
  <2>4. got'[w] = [got[w] EXCEPT !.status = status]
    BY <1>1, <2>3
  <2>5. QED
    BY <1>1, <2>1, <2>2, <2>3, <2>4 DEF Memory
<1>5. job[w].kind \notin {"none", "remove", "void"}
  BY <1>1, <1>2, DoingGives
<1>6. Informed(w)'
  BY <1>1, <1>3, <1>4, <1>5 DEF Informed, ReadCart
<1>7. Positive(got'[w].lines)
  BY <1>1, <1>4
<1>8. job' = job /\ job'[w] = [job[w] EXCEPT !.sale = job'[w].sale]
  BY <1>1, <1>3 DEF Job
<1>9. QED
  BY <1>1, <1>2, <1>3, <1>4, <1>6, <1>7, <1>8, QuietStep

\* A removal and a void have the line they are about.
LEMMA ReadLinesShape ==
  ASSUME Shape, NEW w \in Op, ReadLines(w)
  PROVE  Shape'
<1>1. /\ job \in [Op -> Job] /\ got \in [Op -> Memory] /\ AreLines(line) /\ Positive(line)
      /\ OnPlan(w) /\ Informed(w)
      /\ used \in Nat /\ sale \in Seq(Sale) /\ raced \in BOOLEAN /\ rushed \in BOOLEAN
  BY DEF Shape, TypeOK
<1>2. Doing(w, "lines") /\ Advance(w) /\ "lines" \in Step \ {"log", "finish", "write"}
  BY DEF ReadLines, Step
<1>3. UNCHANGED <<status, lineVars, auditVars, used, sale, raced, rushed, cut, job, ops>>
  BY DEF ReadLines
<1>4. PICK r : r = Relevant(w, line)
  OBVIOUS
<1>5. AreLines(r) /\ Positive(r)
  BY <1>1, <1>4, RelevantGives
<1>6. /\ got' \in [Op -> Memory] /\ got'[w].lines = r /\ got'[w].status = got[w].status
      /\ \A v \in Op \ {w} : got'[v] = got[v]
  <2>1. got[w] \in Memory /\ r \in Lines
    BY <1>1, <1>5, LinesAre
  <2>2. [got[w] EXCEPT !.lines = r] \in Memory
    BY <2>1 DEF Memory
  <2>3. got' = [got EXCEPT ![w] = [got[w] EXCEPT !.lines = r]]
    BY <1>1, <1>4 DEF ReadLines
  <2>4. got'[w] = [got[w] EXCEPT !.lines = r]
    BY <1>1, <2>3
  <2>5. QED
    BY <1>1, <2>1, <2>2, <2>3, <2>4 DEF Memory
<1>7. job[w].kind \in {"remove", "void"} => job[w].line \in DOMAIN r
  <2>1. SUFFICES ASSUME job[w].kind \in {"remove", "void"} PROVE job[w].line \in DOMAIN r
    OBVIOUS
  <2>2. r # Empty
    BY <1>4, <2>1 DEF ReadLines
  <2>3. DOMAIN r # {}
    <3>1. r = [i \in DOMAIN r |-> r[i]]
      BY <1>5 DEF AreLines
    <3>2. QED
      BY <2>2, <3>1 DEF Empty
  <2>4. \A i \in DOMAIN r : i = job[w].line
    BY <1>1, <1>4, <2>1, RelevantGives
  <2>5. QED
    BY <2>3, <2>4
<1>8. Informed(w)'
  BY <1>1, <1>3, <1>6, <1>7 DEF Informed
<1>9. job' = job /\ job'[w] = [job[w] EXCEPT !.sale = job'[w].sale]
  BY <1>1, <1>3 DEF Job
<1>10. QED
  BY <1>1, <1>2, <1>3, <1>5, <1>6, <1>8, <1>9, QuietStep

\* The three steps about the coupon touch its count and its memory only.
LEMMA CouponShape ==
  ASSUME Shape, NEW w \in Op, ValidateCoupon(w) \/ TallyCoupon(w) \/ CountCoupon(w)
  PROVE  Shape'
<1>1. /\ job \in [Op -> Job] /\ got \in [Op -> Memory] /\ Positive(got[w].lines)
      /\ OnPlan(w) /\ Informed(w) /\ used \in Nat /\ sale \in Seq(Sale)
      /\ raced \in BOOLEAN /\ rushed \in BOOLEAN /\ got[w].used \in Nat
  BY DEF Shape, TypeOK
<1>2. PICK x \in {"coupon", "tally", "count"} : Doing(w, x)
  BY DEF ValidateCoupon, TallyCoupon, CountCoupon
<1>3. x \in Step \ {"log", "finish", "write"} /\ Advance(w)
  BY <1>2 DEF ValidateCoupon, TallyCoupon, CountCoupon, Step
<1>4. UNCHANGED <<status, lineVars, auditVars, sale, raced, cut, job, ops>>
  BY DEF ValidateCoupon, TallyCoupon, CountCoupon
<1>5. /\ got' \in [Op -> Memory] /\ got'[w].lines = got[w].lines
      /\ got'[w].status = got[w].status /\ \A v \in Op \ {w} : got'[v] = got[v]
  <2>1. got[w] \in Memory
    BY <1>1
  <2>2. [got[w] EXCEPT !.used = used] \in Memory
    BY <1>1, <2>1 DEF Memory
  <2>3. got' = got \/ got' = [got EXCEPT ![w] = [got[w] EXCEPT !.used = used]]
    BY <1>1 DEF ValidateCoupon, TallyCoupon, CountCoupon
  <2>4. CASE got' = got
    BY <1>1, <2>4
  <2>5. CASE got' = [got EXCEPT ![w] = [got[w] EXCEPT !.used = used]]
    <3>1. got'[w] = [got[w] EXCEPT !.used = used]
      BY <1>1, <2>5
    <3>2. QED
      BY <1>1, <2>1, <2>2, <2>5, <3>1 DEF Memory
  <2>6. QED
    BY <2>3, <2>4, <2>5
<1>6. used' \in Nat /\ rushed' \in BOOLEAN
  <2>1. used' = used \/ used' = got[w].used + 1
    BY DEF ValidateCoupon, TallyCoupon, CountCoupon
  <2>2. rushed' = rushed \/ rushed' = (rushed \/ got[w].used # used)
    BY DEF ValidateCoupon, TallyCoupon, CountCoupon
  <2>3. used' \in Nat
    BY <1>1, <2>1
  <2>4. rushed' \in BOOLEAN
    BY <1>1, <2>2
  <2>5. QED
    BY <2>3, <2>4
<1>7. job[w].kind \in {"checkout", "stored"}
  BY <1>1, <1>2, DoingGives
<1>8. Informed(w)'
  BY <1>1, <1>4, <1>7 DEF Informed
<1>9. Positive(got'[w].lines)
  BY <1>1, <1>5
<1>10. job' = job /\ job'[w] = [job[w] EXCEPT !.sale = job'[w].sale]
  BY <1>1, <1>4 DEF Job
<1>11. QED
  BY <1>1, <1>2, <1>3, <1>4, <1>5, <1>6, <1>8, <1>9, <1>10, QuietStep

-----------------------------------------------------------------------------
(* The writes of lines, and the accounts of their units.                   *)

\* What is added is what is entered, and a product's second line only comes
\* when the first was not seen.
LEMMA AddGives ==
  ASSUME Shape, NEW w \in Op, Add(w)
  PROVE  /\ made' \in Nat /\ made' >= made /\ AreLines(line)' /\ Positive(line)'
         /\ entered' \in [Product -> Int]
         /\ Relevant(w, line) = got[w].lines => \A q \in Product :
              /\ UnitsIn(line, q)' = UnitsIn(line, q) + (entered'[q] - entered[q])
              /\ Single(line, q) => Single(line, q)'
<1>1. /\ made \in Nat /\ AreLines(line) /\ Positive(line) /\ AreLines(got[w].lines)
      /\ Positive(got[w].lines) /\ job[w].product \in Product /\ job[w].n \in Nat
      /\ entered \in [Product -> Int] /\ job[w].kind = "add"
  BY DEF Shape, TypeOK, Informed, Add
<1>2. PICK p, n, f : p = job[w].product /\ n = job[w].n /\ f = got[w].lines
  OBVIOUS
<1>3. \A q \in Product : UnitsIn(line, q) \in Int
  BY <1>1, UnitsType DEF AreLines
<1>4. ASSUME NEW z \in Int, entered' = Plus(entered, Of(p, z))
      PROVE  entered' \in [Product -> Int] /\ \A q \in Product :
               entered'[q] - entered[q] = Of(p, z)[q] /\ Of(p, z)[q] \in Int
  <2>1. PICK o : o = Of(p, z)
    OBVIOUS
  <2>2. o \in [Product -> Int]
    BY <2>1, TallyTypes
  <2>3. entered' \in [Product -> Int]
    BY <1>1, <1>4, <2>1, <2>2, TallyTypes
  <2>4. ASSUME NEW q \in Product PROVE entered'[q] - entered[q] = o[q]
    <3>1. entered'[q] = entered[q] + o[q]
      BY <1>4, <2>1 DEF Plus
    <3>2. entered[q] \in Int /\ o[q] \in Int
      BY <1>1, <2>2
    <3>3. QED
      BY <3>1, <3>2
  <2>5. QED
    BY <2>1, <2>2, <2>3, <2>4
<1>5. CASE /\ Found(w) = {} /\ Insert(p, Topped(n, 0))
           /\ entered' = Plus(entered, Of(p, Topped(n, 0)))
  <2>1. PICK m : m = Topped(n, 0)
    OBVIOUS
  <2>2. m \in Nat \ {0} /\ m \in Int
    BY <1>1, <1>2, <2>1 DEF Topped
  <2>3. Insert(p, m) /\ p \in Product
    BY <1>1, <1>2, <1>5, <2>1
  <2>4. /\ made' \in Nat /\ made' >= made /\ AreLines(line)' /\ Positive(line)'
        /\ DOMAIN line' = DOMAIN line \cup {made + 1}
        /\ line'[made + 1].product = p /\ \A i \in DOMAIN line : line'[i] = line[i]
        /\ \A q \in Product : UnitsIn(line, q)' = UnitsIn(line, q) + Of(p, m)[q]
    BY <1>1, <2>2, <2>3, InsertGives
  <2>5. entered' \in [Product -> Int]
        /\ \A q \in Product : entered'[q] - entered[q] = Of(p, m)[q] /\ Of(p, m)[q] \in Int
    BY <1>4, <1>5, <2>1, <2>2
  <2>6. ASSUME Relevant(w, line) = f, NEW q \in Product, Single(line, q)
        PROVE  Single(line, q)'
    <3>1. \A i \in DOMAIN line : line[i].product # p
      BY <1>1, <1>2, <1>5, <2>6, RelevantGives DEF Found
    <3>2. QED
      BY <2>4, <2>6, <3>1 DEF Single
  <2>7. QED
    BY <1>2, <2>4, <2>5, <2>6
<1>6. ASSUME NEW i \in Found(w), Update(w, i, Topped(n, f[i].qty)),
             entered' = Plus(entered, Of(p, Topped(n, f[i].qty) - f[i].qty))
      PROVE  /\ made' \in Nat /\ made' >= made /\ AreLines(line)' /\ Positive(line)'
             /\ entered' \in [Product -> Int]
             /\ Relevant(w, line) = f => \A q \in Product :
                  /\ UnitsIn(line, q)' = UnitsIn(line, q) + (entered'[q] - entered[q])
                  /\ Single(line, q) => Single(line, q)'
  <2>1. PICK h, m : h = f[i].qty /\ m = Topped(n, f[i].qty)
    OBVIOUS
  <2>2. i \in DOMAIN got[w].lines /\ h \in Int /\ h > 0
    <3>1. i \in DOMAIN f /\ f[i] \in Line
      BY <1>1, <1>2, <1>6 DEF Found, AreLines
    <3>2. f[i].qty > 0
      BY <1>1, <1>2, <3>1 DEF Positive
    <3>3. QED
      BY <1>2, <2>1, <3>1, <3>2 DEF Line
  <2>3. m \in Nat \ {0} /\ m \in Int /\ m - h \in Int
    BY <1>1, <1>2, <2>1, <2>2 DEF Topped
  <2>4. Update(w, i, m)
    BY <1>6, <2>1
  <2>5. /\ AreLines(line)' /\ Positive(line)' /\ made' = made /\ DOMAIN line' = DOMAIN line
        /\ \A j \in DOMAIN line : line'[j].product = line[j].product
        /\ i \in DOMAIN line /\ line[i] = got[w].lines[i] =>
             \A q \in Product :
               UnitsIn(line, q)' = UnitsIn(line, q) + Of(line[i].product, m - line[i].qty)[q]
    BY <2>2, <2>3, <2>4, UpdateGives
  <2>6. entered' \in [Product -> Int]
        /\ \A q \in Product : entered'[q] - entered[q] = Of(p, m - h)[q]
    BY <1>4, <1>6, <2>1, <2>3
  <2>7. ASSUME Relevant(w, line) = f, NEW q \in Product
        PROVE  /\ UnitsIn(line, q)' = UnitsIn(line, q) + (entered'[q] - entered[q])
               /\ Single(line, q) => Single(line, q)'
    <3>1. i \in DOMAIN line /\ line[i] = got[w].lines[i] /\ line[i].product = p
      BY <1>1, <1>2, <2>2, <2>7, RelevantGives
    <3>2. line[i].qty = h
      BY <1>2, <2>1, <3>1
    <3>3. UnitsIn(line, q)' = UnitsIn(line, q) + Of(p, m - h)[q]
      BY <2>5, <3>1, <3>2
    <3>4. Single(line, q) => Single(line, q)'
      BY <2>5 DEF Single
    <3>5. QED
      BY <2>6, <3>3, <3>4
  <2>8. made' \in Nat /\ made' >= made
    BY <1>1, <2>5
  <2>9. QED
    BY <2>5, <2>6, <2>7, <2>8
<1>7. QED
  <2>1. \/ /\ Found(w) = {} /\ Insert(p, Topped(n, 0))
           /\ entered' = Plus(entered, Of(p, Topped(n, 0)))
        \/ \E i \in Found(w) :
             /\ Update(w, i, Topped(n, f[i].qty))
             /\ entered' = Plus(entered, Of(p, Topped(n, f[i].qty) - f[i].qty))
    BY <1>2 DEF Add
  <2>2. QED
    BY <1>2, <1>5, <1>6, <2>1

\* What a write takes from the lines, by a tally that grows by it.
LEMMA TakenGives ==
  ASSUME made \in Nat, made' \in Nat, AreLines(line), AreLines(line)',
         NEW t \in [Product -> Int], NEW u,
         u = Plus(t, Minus(Units(line), Units(line')))
  PROVE  /\ u \in [Product -> Int]
         /\ \A q \in Product : /\ UnitsIn(line, q) \in Int /\ UnitsIn(line, q)' \in Int
                               /\ u[q] = t[q] + (UnitsIn(line, q) - UnitsIn(line, q)')
<1>1. /\ Units(line) \in [Product -> Int] /\ Units(line') \in [Product -> Int]
      /\ \A q \in Product : UnitsIn(line, q) \in Int /\ UnitsIn(line', q) \in Int
  <2>1. DOMAIN line \subseteq 1 .. made /\ line \in [DOMAIN line -> Line]
    BY DEF AreLines
  <2>2. DOMAIN line' \subseteq 1 .. made' /\ line' \in [DOMAIN line' -> Line]
    BY DEF AreLines
  <2>3. Units(line) \in [Product -> Int] /\ \A q \in Product : UnitsIn(line, q) \in Int
    BY <2>1, UnitsType
  <2>4. PICK m \in Nat : m = made'
    OBVIOUS
  <2>4a. PICK g : g = line'
    OBVIOUS
  <2>5. DOMAIN g \subseteq 1 .. m /\ g \in [DOMAIN g -> Line]
    BY <2>2, <2>4, <2>4a
  <2>6. Units(g) \in [Product -> Int] /\ \A q \in Product : UnitsIn(g, q) \in Int
    BY <2>5, UnitsType
  <2>7. QED
    BY <2>3, <2>4a, <2>6
<1>2. u \in [Product -> Int]
  BY <1>1, TallyTypes
<1>3. ASSUME NEW q \in Product PROVE u[q] = t[q] + (UnitsIn(line, q) - UnitsIn(line', q))
  BY DEF Plus, Minus, Units
<1>4. \A q \in Product : UnitsIn(line, q)' = UnitsIn(line', q)
  BY DEF UnitsIn, Portion
<1>5. QED
  BY <1>1, <1>2, <1>3, <1>4

\* A removal is counted for what it takes.
LEMMA RemoveGives ==
  ASSUME Shape, NEW w \in Op, Remove(w)
  PROVE  /\ made' = made /\ AreLines(line)' /\ Positive(line)'
         /\ removed' \in [Product -> Int]
         /\ \A q \in Product :
              /\ UnitsIn(line, q)' = UnitsIn(line, q) - (removed'[q] - removed[q])
              /\ Single(line, q) => Single(line, q)'
<1>1. /\ made \in Nat /\ AreLines(line) /\ Positive(line) /\ removed \in [Product -> Int]
  BY DEF Shape, TypeOK
<1>2. Delete({job[w].line}) /\ removed' = Plus(removed, Minus(Units(line), Units(line')))
  BY DEF Remove
<1>3. /\ AreLines(line)' /\ Positive(line)' /\ made' = made /\ DOMAIN line' \subseteq DOMAIN line
      /\ \A j \in DOMAIN line' : line'[j].product = line[j].product
  BY <1>1, <1>2, DeleteGives
<1>4. /\ removed' \in [Product -> Int]
      /\ \A q \in Product : /\ UnitsIn(line, q) \in Int /\ UnitsIn(line, q)' \in Int
                            /\ removed'[q] = removed[q] + (UnitsIn(line, q) - UnitsIn(line, q)')
  BY <1>1, <1>2, <1>3, TakenGives
<1>5. ASSUME NEW q \in Product
      PROVE  /\ UnitsIn(line, q)' = UnitsIn(line, q) - (removed'[q] - removed[q])
             /\ Single(line, q) => Single(line, q)'
  <2>1. PICK a, b, c, d : /\ a = UnitsIn(line, q)' /\ b = UnitsIn(line, q)
                          /\ c = removed'[q] /\ d = removed[q]
    OBVIOUS
  <2>2. a \in Int /\ b \in Int /\ d \in Int /\ c = d + (b - a)
    BY <1>1, <1>4, <2>1
  <2>3. a = b - (c - d)
    BY <2>2
  <2>4. Single(line, q) => Single(line, q)'
    BY <1>3 DEF Single
  <2>5. QED
    BY <2>1, <2>3, <2>4
<1>6. QED
  BY <1>3, <1>4, <1>5

\* So is a void; and what its entry will say is what it took, if nobody touched
\* the line since it was read.
LEMMA VoidGives ==
  ASSUME Shape, NEW w \in Op, Void(w)
  PROVE  /\ made' = made /\ AreLines(line)' /\ Positive(line)'
         /\ voided' \in [Product -> Int]
         /\ job' \in [Op -> Job] /\ job'[w] = [job[w] EXCEPT !.n = job'[w].n]
         /\ \A v \in Op \ {w} : job'[v] = job[v]
         /\ \A q \in Product :
              /\ UnitsIn(line, q)' = UnitsIn(line, q) - (voided'[q] - voided[q])
              /\ Single(line, q) => Single(line, q)'
              /\ Relevant(w, line) = got[w].lines => voided'[q] - voided[q] = Entry(w)'[q]
<1>1. /\ made \in Nat /\ AreLines(line) /\ Positive(line) /\ AreLines(got[w].lines)
      /\ Positive(got[w].lines) /\ voided \in [Product -> Int] /\ job \in [Op -> Job]
      /\ OnPlan(w) /\ job[w].kind = "void" /\ Doing(w, "write")
  BY DEF Shape, TypeOK, Void
<1>2. job[w].line \in DOMAIN got[w].lines
  <2>1. todo[w] = TWG
    BY <1>1, DoingGives
  <2>2. QED
    BY <1>1, <2>1 DEF Shape, Informed
<1>3. PICK i, old, v : i = job[w].line /\ old = got[w].lines[i].qty /\ v = Smaller(job[w].n, old)
  OBVIOUS
<1>4. job[w].n \in Int /\ old \in Int /\ old > 0
  <2>1. got[w].lines[i] \in Line /\ job[w] \in Job
    BY <1>1, <1>2, <1>3 DEF AreLines
  <2>2. QED
    BY <1>1, <1>2, <1>3, <2>1 DEF Line, Job, Positive
<1>5. v \in Int /\ v <= old
  BY <1>3, <1>4 DEF Smaller
<1>6. /\ IF VoidWhole(v, old) THEN Delete({i}) ELSE Update(w, i, old - v)
      /\ voided' = Plus(voided, Minus(Units(line), Units(line')))
      /\ job' = [job EXCEPT ![w].n = v]
      /\ got' = got
  BY <1>3 DEF Void
<1>7. /\ job' \in [Op -> Job] /\ job'[w] = [job[w] EXCEPT !.n = v]
      /\ \A u \in Op \ {w} : job'[u] = job[u]
  <2>1. job[w] \in Job
    BY <1>1
  <2>2. [job[w] EXCEPT !.n = v] \in Job
    BY <1>5, <2>1 DEF Job
  <2>3. job' = [job EXCEPT ![w] = [job[w] EXCEPT !.n = v]]
    BY <1>1, <1>6
  <2>4. QED
    BY <1>1, <2>2, <2>3
<1>8. job'[w] = [job[w] EXCEPT !.n = job'[w].n] /\ job'[w].n = v /\ job'[w].line = i
      /\ job'[w].kind = "void"
  <2>1. job[w] \in Job
    BY <1>1
  <2>2. QED
    BY <1>1, <1>3, <1>7, <2>1 DEF Job
<1>9. /\ AreLines(line)' /\ Positive(line)' /\ made' = made
      /\ \A q \in Product : Single(line, q) => Single(line, q)'
      /\ i \in DOMAIN line /\ line[i] = got[w].lines[i] => \A q \in Product :
           UnitsIn(line, q)' = UnitsIn(line, q) + Of(line[i].product, 0 - v)[q]
  <2>1. CASE VoidWhole(v, old)
    <3>1. Delete({i}) /\ v = old
      BY <1>4, <1>5, <1>6, <2>1 DEF VoidWhole
    <3>2. /\ AreLines(line)' /\ Positive(line)' /\ made' = made
          /\ DOMAIN line' \subseteq DOMAIN line
          /\ \A j \in DOMAIN line' : line'[j].product = line[j].product
          /\ i \in DOMAIN line => \A q \in Product :
               UnitsIn(line, q)' = UnitsIn(line, q) - Of(line[i].product, line[i].qty)[q]
      BY <1>1, <3>1, DeleteGives
    <3>3. \A q \in Product : Single(line, q) => Single(line, q)'
      BY <3>2 DEF Single
    <3>4. ASSUME i \in DOMAIN line, line[i] = got[w].lines[i], NEW q \in Product
          PROVE  UnitsIn(line, q)' = UnitsIn(line, q) + Of(line[i].product, 0 - v)[q]
      <4>1. PICK p : p = line[i].product
        OBVIOUS
      <4>2. line[i].qty = v
        BY <1>3, <3>1, <3>4
      <4>3. UnitsIn(line, q)' = UnitsIn(line, q) - Of(p, v)[q]
        BY <3>2, <3>4, <4>1, <4>2
      <4>4. Of(p, v)[q] = (IF p = q THEN v ELSE 0) /\ Of(p, 0 - v)[q] = IF p = q THEN 0 - v ELSE 0
        BY DEF Of, None
      <4>5. UnitsIn(line, q) \in Int
        BY <1>1, UnitsType DEF AreLines
      <4>6. UnitsIn(line, q) - Of(p, v)[q] = UnitsIn(line, q) + Of(p, 0 - v)[q]
        BY <1>5, <4>4, <4>5
      <4>7. QED
        BY <4>1, <4>3, <4>6
    <3>5. QED
      BY <3>2, <3>3, <3>4
  <2>2. CASE ~VoidWhole(v, old)
    <3>1. PICK m : m = old - v
      OBVIOUS
    <3>2. m \in Nat \ {0} /\ Update(w, i, m)
      BY <1>4, <1>5, <1>6, <2>2, <3>1 DEF VoidWhole
    <3>3. i \in DOMAIN got[w].lines
      BY <1>2, <1>3
    <3>4. /\ AreLines(line)' /\ Positive(line)' /\ made' = made /\ DOMAIN line' = DOMAIN line
          /\ \A j \in DOMAIN line : line'[j].product = line[j].product
          /\ i \in DOMAIN line /\ line[i] = got[w].lines[i] =>
               \A q \in Product :
                 UnitsIn(line, q)' = UnitsIn(line, q) + Of(line[i].product, m - line[i].qty)[q]
      BY <3>2, <3>3, UpdateGives
    <3>5. line[i] = got[w].lines[i] => m - line[i].qty = 0 - v
      <4>1. m - old = 0 - v
        BY <1>4, <1>5, <3>1
      <4>2. line[i] = got[w].lines[i] => line[i].qty = old
        BY <1>3
      <4>3. QED
        BY <4>1, <4>2
    <3>6. \A q \in Product : Single(line, q) => Single(line, q)'
      BY <3>4 DEF Single
    <3>7. QED
      BY <3>4, <3>5, <3>6
  <2>3. QED
    BY <2>1, <2>2
<1>10. /\ voided' \in [Product -> Int]
       /\ \A q \in Product : /\ UnitsIn(line, q) \in Int /\ UnitsIn(line, q)' \in Int
                             /\ voided'[q] = voided[q] + (UnitsIn(line, q) - UnitsIn(line, q)')
  BY <1>1, <1>6, <1>9, TakenGives
<1>11. ASSUME NEW q \in Product
       PROVE  /\ UnitsIn(line, q)' = UnitsIn(line, q) - (voided'[q] - voided[q])
              /\ Relevant(w, line) = got[w].lines => voided'[q] - voided[q] = Entry(w)'[q]
  <2>1. PICK a, b, c, d : /\ a = UnitsIn(line, q)' /\ b = UnitsIn(line, q)
                          /\ c = voided'[q] /\ d = voided[q]
    OBVIOUS
  <2>2. a \in Int /\ b \in Int /\ d \in Int /\ c = d + (b - a)
    BY <1>1, <1>10, <2>1
  <2>3. a = b - (c - d)
    BY <2>2
  <2>4. ASSUME Relevant(w, line) = got[w].lines PROVE c - d = Entry(w)'[q]
    <3>1. i \in DOMAIN line /\ line[i] = got[w].lines[i]
      BY <1>1, <1>2, <1>3, <2>4, RelevantGives
    <3>2. PICK p : p = line[i].product
      OBVIOUS
    <3>3. a = b + Of(p, 0 - v)[q]
      BY <1>9, <2>1, <3>1, <3>2
    <3>4. Of(p, v)[q] = (IF p = q THEN v ELSE 0) /\ Of(p, 0 - v)[q] = IF p = q THEN 0 - v ELSE 0
      BY DEF Of, None
    <3>5. c - d = IF p = q THEN v ELSE 0
      BY <1>5, <2>2, <3>3, <3>4
    <3>6. Entry(w)'[q] = Of(p, v)[q]
      BY <1>6, <1>8, <3>1, <3>2 DEF Entry, Of, None
    <3>7. QED
      BY <3>4, <3>5, <3>6
  <2>5. QED
    BY <2>1, <2>3, <2>4
<1>12. QED
  BY <1>7, <1>8, <1>9, <1>10, <1>11

\* And so is a clearance.
LEMMA ClearGives ==
  ASSUME Shape, NEW w \in Op, Clear(w)
  PROVE  /\ made' = made /\ AreLines(line)' /\ Positive(line)'
         /\ voided' \in [Product -> Int]
         /\ \A q \in Product :
              /\ UnitsIn(line, q)' = UnitsIn(line, q) - (voided'[q] - voided[q])
              /\ Single(line, q) => Single(line, q)'
              /\ Relevant(w, line) = got[w].lines => voided'[q] - voided[q] = Entry(w)'[q]
<1>1. /\ made \in Nat /\ AreLines(line) /\ Positive(line) /\ voided \in [Product -> Int]
      /\ job[w].kind = "clear"
  BY DEF Shape, TypeOK, Clear
<1>2. /\ Delete(DOMAIN got[w].lines)
      /\ voided' = Plus(voided, Minus(Units(line), Units(line')))
      /\ job' = job /\ got' = got
  BY DEF Clear
<1>3. /\ AreLines(line)' /\ Positive(line)' /\ made' = made /\ DOMAIN line' \subseteq DOMAIN line
      /\ \A j \in DOMAIN line' : line'[j].product = line[j].product
      /\ DOMAIN got[w].lines = DOMAIN line => \A q \in Product : UnitsIn(line, q)' = 0
  BY <1>1, <1>2, DeleteGives
<1>4. /\ voided' \in [Product -> Int]
      /\ \A q \in Product : /\ UnitsIn(line, q) \in Int /\ UnitsIn(line, q)' \in Int
                            /\ voided'[q] = voided[q] + (UnitsIn(line, q) - UnitsIn(line, q)')
  BY <1>1, <1>2, <1>3, TakenGives
<1>5. ASSUME NEW q \in Product
      PROVE  /\ UnitsIn(line, q)' = UnitsIn(line, q) - (voided'[q] - voided[q])
             /\ Single(line, q) => Single(line, q)'
             /\ Relevant(w, line) = got[w].lines => voided'[q] - voided[q] = Entry(w)'[q]
  <2>1. PICK a, b, c, d : /\ a = UnitsIn(line, q)' /\ b = UnitsIn(line, q)
                          /\ c = voided'[q] /\ d = voided[q]
    OBVIOUS
  <2>2. a \in Int /\ b \in Int /\ d \in Int /\ c = d + (b - a)
    BY <1>1, <1>4, <2>1
  <2>3. a = b - (c - d)
    BY <2>2
  <2>4. ASSUME Relevant(w, line) = got[w].lines PROVE c - d = Entry(w)'[q]
    <3>1. got[w].lines = line
      BY <1>1, <2>4, RelevantGives
    <3>2. a = 0
      BY <1>3, <2>1, <3>1
    <3>3. c - d = b
      BY <2>2, <3>2
    <3>4. Entry(w)' = Units(line)
      BY <1>1, <1>2, <3>1 DEF Entry, Units, UnitsIn, Portion
    <3>5. QED
      BY <2>1, <3>3, <3>4 DEF Units
  <2>5. Single(line, q) => Single(line, q)'
    BY <1>3 DEF Single
  <2>6. QED
    BY <2>1, <2>3, <2>4, <2>5
<1>6. QED
  BY <1>3, <1>4, <1>5

-----------------------------------------------------------------------------
(* The first layer, of every step.                                         *)

\* What the first layer says of what most steps leave alone.
LEMMA ShapeTypes ==
  ASSUME Shape
  PROVE  /\ made \in Nat /\ made >= made /\ AreLines(line) /\ Positive(line) /\ status \in Status
         /\ entered \in [Product -> Int] /\ removed \in [Product -> Int]
         /\ voided \in [Product -> Int] /\ logged \in [Product -> Int]
         /\ unlogged \in [Product -> Int] /\ used \in Nat /\ sale \in Seq(Sale)
         /\ raced \in BOOLEAN /\ rushed \in BOOLEAN /\ cut \in BOOLEAN /\ ops \in 0 .. MaxOps
         /\ job \in [Op -> Job] /\ todo \in [Op -> Seq(Step)] /\ got \in [Op -> Memory]
         /\ \A w \in Op : OnPlan(w) /\ Informed(w) /\ Positive(got[w].lines)
  BY DEF Shape, TypeOK

\* Lines that are left alone.
LEMMA SameLines ==
  ASSUME Shape, UNCHANGED lineVars
  PROVE  /\ made' \in Nat /\ made' >= made /\ AreLines(line)' /\ Positive(line)'
         /\ entered' \in [Product -> Int] /\ removed' \in [Product -> Int]
         /\ voided' \in [Product -> Int]
  BY ShapeTypes DEF lineVars, AreLines, Positive

\* A race is noted or not.
LEMMA RaceType ==
  ASSUME Shape, NEW w \in Op, Race(w)
  PROVE  raced' \in BOOLEAN
  BY ShapeTypes DEF Race

\* An addition is an operation's last step.
LEMMA AddShape ==
  ASSUME Shape, NEW w \in Op, Add(w)
  PROVE  Shape'
<1>1. /\ made' \in Nat /\ made' >= made /\ AreLines(line)' /\ Positive(line)'
      /\ entered' \in [Product -> Int]
  BY AddGives
<1>2. UNCHANGED <<status, removed, voided, auditVars, used, sale, rushed, cut, ops>> /\ Leave(w)
  BY DEF Add
<1>3. raced' \in BOOLEAN
  BY RaceType DEF Add
<1>4. QED
  BY <1>1, <1>2, <1>3, ShapeTypes, LastStep DEF auditVars

\* So is a removal.
LEMMA RemoveShape ==
  ASSUME Shape, NEW w \in Op, Remove(w)
  PROVE  Shape'
<1>1. /\ made' = made /\ AreLines(line)' /\ Positive(line)' /\ removed' \in [Product -> Int]
  BY RemoveGives
<1>2. UNCHANGED <<status, entered, voided, auditVars, used, sale, rushed, cut, ops>> /\ Leave(w)
  BY DEF Remove
<1>3. raced' \in BOOLEAN
  BY RaceType DEF Remove
<1>4. made' \in Nat /\ made' >= made
  BY <1>1, ShapeTypes
<1>5. QED
  BY <1>1, <1>2, <1>3, <1>4, ShapeTypes, LastStep DEF auditVars

\* A void and a clearance have an entry to write.
LEMMA VoidShape ==
  ASSUME Shape, NEW w \in Op, Void(w) \/ Clear(w)
  PROVE  Shape'
<1>1. /\ job \in [Op -> Job] /\ got \in [Op -> Memory] /\ OnPlan(w) /\ Informed(w)
      /\ Positive(got[w].lines) /\ made \in Nat
  BY ShapeTypes
<1>2. /\ made' = made /\ AreLines(line)' /\ Positive(line)' /\ voided' \in [Product -> Int]
  BY VoidGives, ClearGives
<1>3. /\ Doing(w, "write") /\ Advance(w) /\ "write" \in Step \ {"log", "finish"}
      /\ job[w].kind \in {"void", "clear"} /\ got' = got
      /\ UNCHANGED <<status, entered, removed, auditVars, used, sale, rushed, cut, ops>>
  BY DEF Void, Clear, Step
<1>4. /\ job' \in [Op -> Job] /\ job'[w] = [job[w] EXCEPT !.n = job'[w].n]
      /\ \A v \in Op \ {w} : job'[v] = job[v]
  <2>1. CASE Void(w)
    BY <2>1, VoidGives
  <2>2. CASE Clear(w)
    <3>1. job' = job /\ job[w] \in Job
      BY <1>1, <2>2 DEF Clear
    <3>2. QED
      BY <1>1, <3>1 DEF Job
  <2>3. QED
    BY <2>1, <2>2
<1>5. job'[w].kind = job[w].kind /\ job'[w].coupon = job[w].coupon /\ job'[w].line = job[w].line
      /\ job'[w].product = job[w].product
  <2>1. job[w] \in Job
    BY <1>1
  <2>2. QED
    BY <1>4, <2>1 DEF Job
<1>6. todo[w] = TWG /\ todo[w] # TW
  <2>1. todo[w] = TWG
    BY <1>1, <1>3, DoingGives
  <2>2. QED
    BY <2>1, ListsGive
<1>7. /\ todo' \in [Op -> Seq(Step)] /\ OnPlan(w)' /\ \A v \in Op \ {w} : todo'[v] = todo[v]
  BY <1>3, <1>4, <1>5, <1>6, AdvanceGives
<1>8. Informed(w)'
  BY <1>1, <1>3, <1>5, <1>6 DEF Informed
<1>9. raced' \in BOOLEAN
  BY RaceType DEF Void, Clear
<1>10. /\ made' \in Nat /\ made' >= made /\ got' \in [Op -> Memory] /\ Positive(got'[w].lines)
       /\ \A v \in Op \ {w} : got'[v] = got[v]
  BY <1>1, <1>2, <1>3
<1>11. /\ status' \in Status /\ entered' \in [Product -> Int] /\ removed' \in [Product -> Int]
       /\ logged' \in [Product -> Int] /\ unlogged' \in [Product -> Int]
       /\ used' \in Nat /\ sale' \in Seq(Sale) /\ rushed' \in BOOLEAN /\ cut' \in BOOLEAN
       /\ ops' \in 0 .. MaxOps
  BY <1>3, ShapeTypes DEF auditVars
<1>12. QED
  BY <1>2, <1>4, <1>7, <1>8, <1>9, <1>10, <1>11, ShapeNext

\* An entry is the last step of a void and of a clearance.
LEMMA LogShape ==
  ASSUME Shape, NEW w \in Op, Log(w)
  PROVE  Shape'
<1>1. /\ Leave(w) /\ logged' = Plus(logged, Entry(w))
      /\ UNCHANGED <<status, lineVars, unlogged, used, sale, raced, rushed, cut, ops>>
  BY DEF Log
<1>2. logged' \in [Product -> Int]
  BY <1>1, ShapeTypes, EntryType, TallyTypes
<1>3. QED
  BY <1>1, <1>2, SameLines, ShapeTypes, LastStep

\* A death writes no entry.
LEMMA StopShape ==
  ASSUME Shape, NEW w \in Op, Stop(w)
  PROVE  Shape'
<1>1. /\ Leave(w) /\ UNCHANGED <<status, lineVars, logged, used, sale, raced, rushed, ops>>
      /\ unlogged' = IF Doing(w, "log") THEN Plus(unlogged, Entry(w)) ELSE unlogged
  BY DEF Stop
<1>2. unlogged' \in [Product -> Int]
  <2>1. Plus(unlogged, Entry(w)) \in [Product -> Int]
    BY ShapeTypes, EntryType, TallyTypes
  <2>2. QED
    BY <1>1, <2>1, ShapeTypes
<1>3. cut' \in BOOLEAN
  BY DEF Stop
<1>4. QED
  BY <1>1, <1>2, <1>3, SameLines, ShapeTypes, LastStep

\* A checkout brings its items.
LEMMA CheckoutShape ==
  ASSUME Shape, NEW w \in Op, Checkout(w)
  PROVE  Shape'
<1>1. /\ OnPlan(w) /\ Informed(w) /\ job \in [Op -> Job] /\ sale \in Seq(Sale) /\ made \in Nat
      /\ AreLines(line) /\ Positive(line) /\ status \in Status /\ entered \in [Product -> Int]
  BY ShapeTypes
<1>2. /\ Leave(w) /\ Insert(job[w].product, job[w].n) /\ job[w].kind = "checkout"
      /\ entered' = Plus(entered, Of(job[w].product, job[w].n))
      /\ UNCHANGED <<removed, voided, auditVars, used, raced, rushed, cut, ops>>
  BY DEF Checkout
<1>3. job[w].product \in Product /\ job[w].n \in Nat \ {0} /\ job[w].n \in Int
      /\ job[w].coupon \in BOOLEAN
  BY <1>1, <1>2 DEF Informed, Job
<1>4. /\ made' \in Nat /\ made' >= made /\ AreLines(line)' /\ Positive(line)'
  BY <1>1, <1>2, <1>3, InsertGives
<1>5. entered' \in [Product -> Int]
  BY <1>1, <1>2, <1>3, TallyTypes
<1>6. status' \in Status
  BY <1>1 DEF Checkout, Status
<1>7. sale' \in Seq(Sale)
  <2>1. PICK s : s = [stock |-> TRUE, booked |-> TRUE, coupon |-> job[w].coupon]
    OBVIOUS
  <2>2. s \in Sale
    BY <1>3, <2>1 DEF Sale
  <2>3. sale' = Append(sale, s)
    BY <2>1 DEF Checkout
  <2>4. QED
    BY <1>1, <2>2, <2>3, AppendProperties
<1>8. QED
  BY <1>2, <1>4, <1>5, <1>6, <1>7, ShapeTypes, LastStep DEF auditVars

\* The sale of a stored cart is made, deducted and booked; each remembers which.
LEMMA StoredShape ==
  ASSUME Shape, NEW w \in Op, SellStored(w) \/ DeductStored(w) \/ BookStored(w)
  PROVE  Shape'
<1>1. /\ job \in [Op -> Job] /\ got \in [Op -> Memory] /\ OnPlan(w) /\ Informed(w)
      /\ Positive(got[w].lines) /\ sale \in Seq(Sale) /\ used \in Nat /\ raced \in BOOLEAN
      /\ rushed \in BOOLEAN
  BY ShapeTypes
<1>2. PICK x \in {"sale", "deduct", "book"} : Doing(w, x)
  BY DEF SellStored, DeductStored, BookStored
<1>3. x \in Step \ {"log", "finish", "write"} /\ Advance(w)
  BY <1>2 DEF SellStored, DeductStored, BookStored, Step
<1>4. UNCHANGED <<status, lineVars, auditVars, used, rushed, cut, got, ops>>
  BY DEF SellStored, DeductStored, BookStored
<1>5. job[w] \in Job /\ job[w].kind = "stored"
  BY <1>1, <1>2, DoingGives
<1>6. /\ job' \in [Op -> Job] /\ job'[w] = [job[w] EXCEPT !.sale = job'[w].sale]
      /\ \A v \in Op \ {w} : job'[v] = job[v]
  <2>1. CASE SellStored(w)
    <3>1. PICK m : m = Len(sale) + 1
      OBVIOUS
    <3>2. m \in Nat
      <4>1. Len(sale) \in Nat
        BY <1>1, LenProperties
      <4>2. QED
        BY <3>1, <4>1
    <3>3. [job[w] EXCEPT !.sale = m] \in Job
      BY <1>5, <3>2 DEF Job
    <3>4. job' = [job EXCEPT ![w] = [job[w] EXCEPT !.sale = m]]
      BY <1>1, <2>1, <3>1 DEF SellStored
    <3>5. job'[w] = [job[w] EXCEPT !.sale = m]
      BY <1>1, <3>4
    <3>6. job'[w].sale = m
      BY <1>5, <3>5 DEF Job
    <3>7. QED
      BY <1>1, <3>3, <3>4, <3>5, <3>6
  <2>2. CASE DeductStored(w) \/ BookStored(w)
    <3>1. job' = job
      BY <2>2 DEF DeductStored, BookStored
    <3>2. QED
      BY <1>1, <1>5, <3>1 DEF Job
  <2>3. QED
    BY <2>1, <2>2
<1>7. sale' \in Seq(Sale)
  <2>1. CASE SellStored(w)
    <3>1. PICK s : s = [stock |-> FALSE, booked |-> FALSE, coupon |-> job[w].coupon]
      OBVIOUS
    <3>2. s \in Sale
      BY <1>5, <3>1 DEF Sale, Job
    <3>3. sale' = Append(sale, s)
      BY <2>1, <3>1 DEF SellStored
    <3>4. QED
      BY <1>1, <3>2, <3>3, AppendProperties
  <2>2. ASSUME NEW k, sale' = [sale EXCEPT ![k].stock = TRUE] \/ sale' = [sale EXCEPT ![k].booked = TRUE]
        PROVE  sale' \in Seq(Sale)
    <3>1. PICK n \in Nat : n = Len(sale)
      BY <1>1, LenProperties
    <3>2. sale \in [1 .. n -> Sale]
      BY <1>1, <3>1, ElementOfSeq, LenProperties
    <3>3. \A s \in Sale : [s EXCEPT !.stock = TRUE] \in Sale /\ [s EXCEPT !.booked = TRUE] \in Sale
      BY DEF Sale
    <3>4. sale' \in [1 .. n -> Sale]
      BY <2>2, <3>2, <3>3
    <3>5. QED
      BY <3>4, SeqDef
  <2>3. QED
    BY <2>1, <2>2 DEF DeductStored, BookStored
<1>8. raced' \in BOOLEAN
  <2>1. CASE SellStored(w)
    BY <2>1, RaceType DEF SellStored
  <2>2. CASE DeductStored(w) \/ BookStored(w)
    BY <1>1, <2>2 DEF DeductStored, BookStored
  <2>3. QED
    BY <2>1, <2>2
<1>9. job'[w].kind = "stored"
  BY <1>5, <1>6 DEF Job
<1>10. Informed(w)'
  BY <1>9 DEF Informed
<1>11. used' \in Nat /\ rushed' \in BOOLEAN /\ got' = got
  BY <1>1, <1>4
<1>12. /\ got' \in [Op -> Memory] /\ Positive(got'[w].lines)
       /\ \A v \in Op \ {w} : job'[v] = job[v] /\ got'[v] = got[v]
  BY <1>1, <1>6, <1>11
<1>13. UNCHANGED <<status, lineVars, auditVars, cut, ops>>
  BY <1>4
<1>14. QED
  BY <1>2, <1>3, <1>6, <1>7, <1>8, <1>10, <1>11, <1>12, <1>13, QuietStep

\* A stored cart's checkout and the sweep end with a status.
LEMMA CloseShape ==
  ASSUME Shape, NEW w \in Op, FinishStored(w) \/ Sweep(w)
  PROVE  Shape'
<1>1. /\ Leave(w) /\ UNCHANGED <<lineVars, auditVars, used, sale, rushed, cut, ops>>
      /\ status' \in {"checked_out", "expired"}
  BY DEF FinishStored, Sweep
<1>2. status' \in Status
  BY <1>1 DEF Status
<1>3. raced' \in BOOLEAN
  BY ShapeTypes DEF FinishStored, Sweep
<1>4. QED
  BY <1>1, <1>2, <1>3, SameLines, ShapeTypes, LastStep DEF auditVars

\* No step disturbs the first layer.
LEMMA ShapeStep ==
  ASSUME Shape, [Next]_vars
  PROVE  Shape'
<1>1. ASSUME NEW w \in Op, Start(w) PROVE Shape'
  BY <1>1, StartShape
<1>2. ASSUME NEW w \in Op, ReadCart(w) \/ ReadLines(w) PROVE Shape'
  BY <1>2, ReadCartShape, ReadLinesShape
<1>3. ASSUME NEW w \in Op, ValidateCoupon(w) \/ TallyCoupon(w) \/ CountCoupon(w) PROVE Shape'
  BY <1>3, CouponShape
<1>4. ASSUME NEW w \in Op, Add(w) \/ Remove(w) \/ Void(w) \/ Clear(w) \/ Log(w) PROVE Shape'
  BY <1>4, AddShape, RemoveShape, VoidShape, LogShape
<1>5. ASSUME NEW w \in Op, Checkout(w) PROVE Shape'
  BY <1>5, CheckoutShape
<1>6. ASSUME NEW w \in Op, SellStored(w) \/ DeductStored(w) \/ BookStored(w) PROVE Shape'
  BY <1>6, StoredShape
<1>7. ASSUME NEW w \in Op, FinishStored(w) \/ Sweep(w) PROVE Shape'
  BY <1>7, CloseShape
<1>8. ASSUME NEW w \in Op, Stop(w) PROVE Shape'
  BY <1>8, StopShape
<1>9. CASE UNCHANGED vars
  BY <1>9 DEF Shape, TypeOK, Memory, Lines, AreLines, Positive, OnPlan, Informed, vars
<1>10. QED
  BY <1>1, <1>2, <1>3, <1>4, <1>5, <1>6, <1>7, <1>8, <1>9 DEF Next

\* A cart starts empty, and every operation idle.
LEMMA ShapeInit ==
  ASSUME Init
  PROVE  Shape
<1>1. AreLines(Empty) /\ Positive(Empty) /\ Blank.lines = Empty /\ Blank.status = "active"
      /\ Blank.used = 0
  BY DEF Empty, AreLines, Positive, Blank
<1>2. Empty \in Lines
  BY <1>1, LinesAre
<1>3. Blank \in Memory
  BY <1>2 DEF Blank, Memory, Status
<1>4. Idle \in Job /\ Idle.kind = "none" /\ Idle.coupon = FALSE
  BY DEF Idle, Job, Kind
<1>5. job \in [Op -> Job] /\ todo \in [Op -> Seq(Step)] /\ got \in [Op -> Memory]
  <2>1. PICK e : e = <<>>
    OBVIOUS
  <2>2. e \in Seq(Step) /\ todo = [w \in Op |-> e]
    BY <2>1 DEF Init
  <2>3. QED
    BY <1>3, <1>4, <2>2 DEF Init
<1>6. \A w \in Op : OnPlan(w) /\ Informed(w) /\ Positive(got[w].lines)
  BY <1>1, <1>4 DEF Init, OnPlan, Informed
<1>7. sale \in Seq(Sale)
  BY DEF Init
<1>8. MaxOps \in Nat /\ ops \in 0 .. MaxOps
  BY CartsAssumption DEF Init
<1>9. TypeOK
  <2>1. \A w \in Op : got[w].status \in Status /\ got[w].used \in Nat /\ AreLines(got[w].lines)
    BY <1>1 DEF Init, Status
  <2>2. AreLines(line) /\ status \in Status /\ made \in Nat /\ used \in Nat
    BY <1>1 DEF Init, Status
  <2>3. /\ entered \in [Product -> Int] /\ removed \in [Product -> Int]
        /\ voided \in [Product -> Int] /\ logged \in [Product -> Int]
        /\ unlogged \in [Product -> Int]
    BY TallyTypes DEF Init
  <2>4. raced \in BOOLEAN /\ rushed \in BOOLEAN /\ cut \in BOOLEAN
    BY DEF Init
  <2>5. QED
    BY <1>5, <1>7, <1>8, <2>1, <2>2, <2>3, <2>4 DEF TypeOK
<1>10. QED
  BY <1>1, <1>5, <1>6, <1>9 DEF Init, Shape

-----------------------------------------------------------------------------
(* The second layer: the accounts of the lines.                            *)

\* One line at most, counted and not.
LEMMA SingleMeans ==
  ASSUME made \in Nat, AreLines(line), NEW p
  PROVE  Cardinality({i \in DOMAIN line : line[i].product = p}) <= 1 <=> Single(line, p)
<1>1. PICK S : S = {i \in DOMAIN line : line[i].product = p}
  OBVIOUS
<1>2. IsFiniteSet(S) /\ Cardinality(S) \in Nat
  <2>1. IsFiniteSet(DOMAIN line) /\ S \in SUBSET DOMAIN line
    BY <1>1, UnitsType DEF AreLines
  <2>2. IsFiniteSet(S)
    BY <2>1, FS_Subset
  <2>3. QED
    BY <2>2, FS_CardinalityType
<1>3. Single(line, p) <=> \A i, j \in S : i = j
  BY <1>1 DEF Single
<1>4. ASSUME Cardinality(S) <= 1 PROVE \A i, j \in S : i = j
  <2>1. Cardinality(S) = 0 \/ Cardinality(S) = 1
    BY <1>2, <1>4
  <2>2. S = {} \/ \E x : S = {x}
    BY <1>2, <2>1, FS_EmptySet, FS_Singleton
  <2>3. QED
    BY <2>2
<1>5. ASSUME \A i, j \in S : i = j PROVE Cardinality(S) <= 1
  <2>1. CASE S = {}
    <3>1. Cardinality(S) = 0
      BY <2>1, FS_EmptySet
    <3>2. QED
      BY <3>1
  <2>2. CASE S # {}
    <3>1. PICK x : x \in S
      BY <2>2
    <3>2. S = {x}
      BY <1>5, <3>1
    <3>3. Cardinality(S) = 1
      BY <1>2, <3>2, FS_Singleton
    <3>4. QED
      BY <3>3
  <2>3. QED
    BY <2>1, <2>2
<1>6. QED
  BY <1>1, <1>3, <1>4, <1>5

\* This holds in every state of the first layer.
LEMMA Singles == Shape => \A p \in Product :
  Cardinality({i \in DOMAIN line : line[i].product = p}) <= 1 <=> Single(line, p)
  BY SingleMeans DEF Shape, TypeOK

\* And after every step to one.
LEMMA SinglesNext == Shape' => (\A p \in Product :
  Cardinality({i \in DOMAIN line : line[i].product = p}) <= 1 <=> Single(line, p))'
  BY Singles, PTL

\* What an operation has voided and not yet entered in the log.
Owed(w, p) == IF Doing(w, "log") THEN Entry(w)[p] ELSE 0

\* Entries are tallies.
LEMMA Entries == Shape => \A v \in Op : Entry(v) \in [Product -> Int]
  BY EntryType

\* So they are after a step.
LEMMA EntriesNext == Shape' => (\A v \in Op : Entry(v) \in [Product -> Int])'
  BY Entries, PTL

\* Only the operation that steps changes what it owes.
LEMMA UnwrittenNext ==
  ASSUME Shape, Shape', NEW w \in Op, NEW p \in Product,
         \A v \in Op \ {w} : job'[v] = job[v] /\ todo'[v] = todo[v] /\ got'[v] = got[v]
  PROVE  /\ Unwritten(p) \in Int /\ Owed(w, p) \in Int /\ Owed(w, p)' \in Int
         /\ Unwritten(p)' = Unwritten(p) + Owed(w, p)' - Owed(w, p)
<1>1. PICK f, g : /\ f = [v \in Op |-> IF Doing(v, "log") THEN Entry(v)[p] ELSE 0]
                  /\ g = [v \in Op |-> IF Doing(v, "log")' THEN Entry(v)'[p] ELSE 0]
  OBVIOUS
<1>2. IsFiniteSet(Op)
  BY CartsAssumption
<1>3. \A v \in Op : Entry(v) \in [Product -> Int] /\ Entry(v)' \in [Product -> Int]
  <2>1. \A v \in Op : Entry(v) \in [Product -> Int]
    BY EntryType
  <2>2. \A v \in Op : Entry(v)' \in [Product -> Int]
    BY EntriesNext
  <2>3. QED
    BY <2>1, <2>2
<1>4. \A v \in Op : f[v] \in Int /\ g[v] \in Int
  BY <1>1, <1>3
<1>5. \A v \in Op \ {w} : g[v] = f[v]
  BY <1>1 DEF Doing, Entry, Units, UnitsIn, Portion
<1>6. SumFunctionOnSet(g, Op) = SumFunctionOnSet(f, Op) + g[w] - f[w]
  BY <1>2, <1>4, <1>5, SumChange
<1>7. SumFunctionOnSet(f, Op) \in Int
  BY <1>2, <1>4, SumType
<1>8. Unwritten(p) = SumFunctionOnSet(f, Op) /\ Unwritten(p)' = SumFunctionOnSet(g, Op)
  BY <1>1 DEF Unwritten
<1>9. f[w] = Owed(w, p) /\ g[w] = Owed(w, p)'
  BY <1>1 DEF Owed
<1>10. QED
  BY <1>4, <1>6, <1>7, <1>8, <1>9

\* The accounts after a step of one operation, which changes them alike on
\* both sides unless it raced.
LEMMA BooksNext ==
  ASSUME Shape, Shape', Books, NEW w \in Op,
         \A v \in Op \ {w} : job'[v] = job[v] /\ todo'[v] = todo[v] /\ got'[v] = got[v],
         ~raced' => /\ ~raced
                    /\ got'[w].status = "checked_out" => status' = "checked_out"
                    /\ status = "checked_out" => status' = "checked_out",
         ~raced' => \A p \in Product :
           /\ status' # "checked_out" /\ Single(line, p) => Single(line, p)'
           /\ UnitsIn(line, p)' = UnitsIn(line, p) + (entered'[p] - entered[p])
                - (removed'[p] - removed[p]) - (voided'[p] - voided[p])
           /\ voided'[p] - voided[p] = (logged'[p] - logged[p]) + (unlogged'[p] - unlogged[p])
                + (Owed(w, p)' - Owed(w, p))
  PROVE  Books'
<1>1. Stays'
  <2>1. SUFFICES ASSUME ~raced' PROVE \A v \in Op : got'[v].status = "checked_out" => status' = "checked_out"
    BY DEF Stays
  <2>2. \A v \in Op : got[v].status = "checked_out" => status = "checked_out"
    BY <2>1 DEF Books, Stays
  <2>3. QED
    BY <2>1, <2>2
<1>2. ASSUME ~raced', NEW p \in Product
      PROVE  /\ status' # "checked_out" =>
                  Cardinality({i \in DOMAIN line : line[i].product = p})' <= 1
             /\ UnitsIn(line, p)' = entered'[p] - removed'[p] - voided'[p]
             /\ voided'[p] = logged'[p] + unlogged'[p] + Unwritten(p)'
  <2>1. /\ status # "checked_out" =>
             Cardinality({i \in DOMAIN line : line[i].product = p}) <= 1
        /\ UnitsIn(line, p) = entered[p] - removed[p] - voided[p]
        /\ voided[p] = logged[p] + unlogged[p] + Unwritten(p)
    BY <1>2 DEF Books, LinesExplained
  <2>2. status' # "checked_out" => Cardinality({i \in DOMAIN line : line[i].product = p})' <= 1
    <3>1. SUFFICES ASSUME status' # "checked_out" PROVE Single(line, p)'
      BY SinglesNext
    <3>2. Single(line, p)
      BY <1>2, <2>1, <3>1, Singles
    <3>3. QED
      BY <1>2, <3>1, <3>2
  <2>3. /\ Unwritten(p) \in Int /\ Owed(w, p) \in Int /\ Owed(w, p)' \in Int
        /\ Unwritten(p)' = Unwritten(p) + Owed(w, p)' - Owed(w, p)
    BY UnwrittenNext
  <2>4. PICK e, e1, r, r1, d, d1, g, g1, u, u1, x, x1, o, o1, s, s1 :
               /\ e = entered[p] /\ e1 = entered'[p] /\ r = removed[p] /\ r1 = removed'[p]
               /\ d = voided[p] /\ d1 = voided'[p] /\ g = logged[p] /\ g1 = logged'[p]
               /\ u = unlogged[p] /\ u1 = unlogged'[p] /\ x = Unwritten(p) /\ x1 = Unwritten(p)'
               /\ o = Owed(w, p) /\ o1 = Owed(w, p)' /\ s = UnitsIn(line, p)
               /\ s1 = UnitsIn(line, p)'
    OBVIOUS
  <2>5. /\ e \in Int /\ e1 \in Int /\ r \in Int /\ r1 \in Int /\ d \in Int /\ d1 \in Int
        /\ g \in Int /\ g1 \in Int /\ u \in Int /\ u1 \in Int /\ x \in Int
        /\ o \in Int /\ o1 \in Int
    BY <2>3, <2>4 DEF Shape, TypeOK
  <2>6. /\ s = e - r - d /\ d = g + u + x /\ x1 = x + o1 - o
        /\ s1 = s + (e1 - e) - (r1 - r) - (d1 - d)
        /\ d1 - d = (g1 - g) + (u1 - u) + (o1 - o)
    BY <1>2, <2>1, <2>3, <2>4
  <2>7. s1 = e1 - r1 - d1
    BY <2>5, <2>6
  <2>8. d1 = g1 + u1 + x1
    <3>1. d1 = d + (g1 - g) + (u1 - u) + (o1 - o)
      BY <2>5, <2>6
    <3>2. QED
      BY <2>5, <2>6, <3>1
  <2>9. QED
    BY <2>2, <2>4, <2>7, <2>8
<1>3. LinesExplained'
  BY <1>2 DEF LinesExplained
<1>4. QED
  BY <1>1, <1>3 DEF Books

\* The accounts after a step that leaves the lines and the log alone.
LEMMA BooksKept ==
  ASSUME Shape, Shape', Books, NEW w \in Op,
         \A v \in Op \ {w} : job'[v] = job[v] /\ todo'[v] = todo[v] /\ got'[v] = got[v],
         UNCHANGED <<lineVars, auditVars>>, ~Doing(w, "log"), ~Doing(w, "log")',
         ~raced' => /\ ~raced
                    /\ got'[w].status = "checked_out" => status' = "checked_out"
                    /\ status = "checked_out" => status' = "checked_out"
  PROVE  Books'
<1>1. ASSUME NEW p \in Product
      PROVE  /\ Single(line, p) => Single(line, p)'
             /\ UnitsIn(line, p)' = UnitsIn(line, p) + (entered'[p] - entered[p])
                - (removed'[p] - removed[p]) - (voided'[p] - voided[p])
             /\ voided'[p] - voided[p] = (logged'[p] - logged[p]) + (unlogged'[p] - unlogged[p])
                + (Owed(w, p)' - Owed(w, p))
  <2>1. /\ line' = line /\ entered' = entered /\ removed' = removed /\ voided' = voided
        /\ logged' = logged /\ unlogged' = unlogged
    BY DEF lineVars, auditVars
  <2>2. Single(line, p) => Single(line, p)'
    BY <2>1 DEF Single
  <2>3. UnitsIn(line, p)' = UnitsIn(line, p)
    BY <2>1 DEF UnitsIn, Portion
  <2>4. Owed(w, p) = 0 /\ Owed(w, p)' = 0
    BY DEF Owed
  <2>5. /\ entered[p] \in Int /\ removed[p] \in Int /\ voided[p] \in Int
        /\ logged[p] \in Int /\ unlogged[p] \in Int
    BY DEF Shape, TypeOK
  <2>6. UnitsIn(line, p) \in Int
    BY UnitsType DEF Shape, TypeOK, AreLines
  <2>7. /\ entered[p] - entered[p] = 0 /\ removed[p] - removed[p] = 0
        /\ voided[p] - voided[p] = 0 /\ logged[p] - logged[p] = 0
        /\ unlogged[p] - unlogged[p] = 0
    BY <2>5
  <2>8. UnitsIn(line, p)' = UnitsIn(line, p) + 0 - 0 - 0
    BY <2>3, <2>6
  <2>9. QED
    BY <2>1, <2>2, <2>4, <2>7, <2>8
<1>2. QED
  BY <1>1, BooksNext

\* An operation that goes on to anything but its entry.
LEMMA GoesOn ==
  ASSUME Shape, NEW w \in Op, NEW x \in Step \ {"log", "finish", "write"}, Doing(w, x),
         Advance(w)
  PROVE  /\ ~Doing(w, "log") /\ ~Doing(w, "log")'
         /\ \A v \in Op \ {w} : todo'[v] = todo[v]
         /\ todo'[w] = Tail(todo[w])
<1>1. todo \in [Op -> Seq(Step)] /\ OnPlan(w) /\ job \in [Op -> Job]
  BY DEF Shape, TypeOK
<1>2. ~Doing(w, "log")
  BY DEF Doing
<1>3. todo'[w] = Tail(todo[w]) /\ \A v \in Op \ {w} : todo'[v] = todo[v]
  BY <1>1 DEF Advance
<1>4. x \in {"cart", "lines", "coupon", "tally", "count", "sale", "deduct", "book"}
  BY DEF Step
<1>5. todo[w] \in {TCLW, TCLWG, TCW, TCVTNW, TCLSDBF, TCLVTNS, TLW, TLWG, TLSDBF, TLVTNS,
                   TVTNW, TVTNS, TTNW, TTNS, TNW, TNS, TSDBF, TDBF, TBF}
  BY <1>1, <1>4, DoingGives
<1>6. Head(Tail(todo[w])) # "log"
  BY ZenonT(60), <1>5, ListsGive
<1>7. ~Doing(w, "log")'
  BY <1>3, <1>6 DEF Doing
<1>8. QED
  BY <1>2, <1>3, <1>7

\* The accounts when an operation arrives.
LEMMA StartBooks ==
  ASSUME Shape, Shape', Books, NEW w \in Op, Start(w)
  PROVE  Books'
<1>1. job \in [Op -> Job] /\ todo \in [Op -> Seq(Step)] /\ OnPlan(w)
  BY DEF Shape, TypeOK
<1>2. PICK j, list : Begin(w, j, list)
  BY DEF Start
<1>3. /\ \A v \in Op \ {w} : job'[v] = job[v] /\ todo'[v] = todo[v] /\ got'[v] = got[v]
      /\ UNCHANGED <<status, lineVars, auditVars, raced, got>> /\ job[w] = Idle
  BY <1>1, <1>2 DEF Begin
<1>4. ~Doing(w, "log")
  <2>1. Idle.kind = "none"
    BY DEF Idle
  <2>2. todo[w] = <<>>
    BY <1>1, <1>3, <2>1 DEF OnPlan
  <2>3. QED
    BY <2>2 DEF Doing
<1>5. ~Doing(w, "log")'
  <2>1. todo'[w] \in {TCLW, TLW, TLWG, TCLWG, TCVTNW, TCW, TCLVTNS, TCLSDBF}
    <3>1. \A l : Begin(w, job'[w], l) => todo'[w] = l
      BY <1>1 DEF Begin
    <3>2. PICK k \in {TCLW, TLW, TLWG, TCLWG, TCVTNW, TCW, TCLVTNS, TCLSDBF} : \E i : Begin(w, i, k)
      BY CheckoutLists DEF Start, TCLW, TLW, TLWG, TCLWG, TCW
    <3>3. todo'[w] = k
      BY <1>1, <3>2 DEF Begin
    <3>4. QED
      BY <3>3
  <2>2. Head(todo'[w]) # "log"
    BY <2>1, ListsGive
  <2>3. QED
    BY <2>2 DEF Doing
<1>6. ~raced' => /\ ~raced
                 /\ got'[w].status = "checked_out" => status' = "checked_out"
                 /\ status = "checked_out" => status' = "checked_out"
  BY <1>3 DEF Books, Stays
<1>7. UNCHANGED <<lineVars, auditVars>>
  BY <1>3
<1>8. QED
  BY <1>3, <1>4, <1>5, <1>6, <1>7, BooksKept

\* A reading changes no account, and sees the status there is.
LEMMA ReadBooks ==
  ASSUME Shape, Shape', Books, NEW w \in Op,
         ReadCart(w) \/ ReadLines(w) \/ ValidateCoupon(w) \/ TallyCoupon(w) \/ CountCoupon(w)
  PROVE  Books'
<1>1. got \in [Op -> Memory]
  BY DEF Shape
<1>2. PICK x \in {"cart", "lines", "coupon", "tally", "count"} : Doing(w, x)
  BY DEF ReadCart, ReadLines, ValidateCoupon, TallyCoupon, CountCoupon
<1>3. x \in Step \ {"log", "finish", "write"} /\ Advance(w)
  BY <1>2 DEF ReadCart, ReadLines, ValidateCoupon, TallyCoupon, CountCoupon, Step
<1>4. UNCHANGED <<status, lineVars, auditVars, raced, job>>
  BY DEF ReadCart, ReadLines, ValidateCoupon, TallyCoupon, CountCoupon
<1>5. /\ ~Doing(w, "log") /\ ~Doing(w, "log")' /\ \A v \in Op \ {w} : todo'[v] = todo[v]
  BY <1>2, <1>3, GoesOn
<1>6. /\ \A v \in Op \ {w} : got'[v] = got[v]
      /\ got'[w].status \in {got[w].status, status}
  <2>1. got[w] \in Memory
    BY <1>1
  <2>2. \/ got' = [got EXCEPT ![w].status = status]
        \/ got' = [got EXCEPT ![w].lines = Relevant(w, line)]
        \/ got' = [got EXCEPT ![w].used = used]
        \/ got' = got
    BY DEF ReadCart, ReadLines, ValidateCoupon, TallyCoupon, CountCoupon
  <2>3. QED
    BY <1>1, <2>1, <2>2 DEF Memory
<1>7. ~raced' => /\ ~raced
                 /\ got'[w].status = "checked_out" => status' = "checked_out"
                 /\ status = "checked_out" => status' = "checked_out"
  BY <1>4, <1>6 DEF Books, Stays
<1>8. UNCHANGED <<lineVars, auditVars>> /\ \A v \in Op \ {w} : job'[v] = job[v]
  BY <1>4
<1>9. QED
  BY <1>5, <1>6, <1>7, <1>8, BooksKept

\* Neither does the checkout of a stored cart.
LEMMA StoredBooks ==
  ASSUME Shape, Shape', Books, NEW w \in Op,
         SellStored(w) \/ DeductStored(w) \/ BookStored(w)
  PROVE  Books'
<1>1. job \in [Op -> Job]
  BY DEF Shape, TypeOK
<1>2. PICK x \in {"sale", "deduct", "book"} : Doing(w, x)
  BY DEF SellStored, DeductStored, BookStored
<1>3. x \in Step \ {"log", "finish", "write"} /\ Advance(w)
  BY <1>2 DEF SellStored, DeductStored, BookStored, Step
<1>4. UNCHANGED <<status, lineVars, auditVars, got>> /\ (raced => raced')
  <2>1. UNCHANGED <<status, lineVars, auditVars, got>>
    BY DEF SellStored, DeductStored, BookStored
  <2>2. raced => raced'
    BY Zenon DEF SellStored, DeductStored, BookStored, Race
  <2>3. QED
    BY <2>1, <2>2
<1>5. /\ ~Doing(w, "log") /\ ~Doing(w, "log")' /\ \A v \in Op \ {w} : todo'[v] = todo[v]
  BY <1>2, <1>3, GoesOn
<1>6. \A v \in Op \ {w} : job'[v] = job[v] /\ got'[v] = got[v]
  BY <1>1, <1>4 DEF SellStored, DeductStored, BookStored
<1>7. ~raced' => /\ ~raced
                 /\ got'[w].status = "checked_out" => status' = "checked_out"
                 /\ status = "checked_out" => status' = "checked_out"
  BY <1>4 DEF Books, Stays
<1>8. UNCHANGED <<lineVars, auditVars>>
  BY <1>4
<1>9. QED
  BY <1>5, <1>6, <1>7, <1>8, BooksKept

\* An operation that ends owes nothing and has seen nothing.
LEMMA Gone ==
  ASSUME Shape, NEW w \in Op, Leave(w)
  PROVE  /\ \A v \in Op \ {w} : job'[v] = job[v] /\ todo'[v] = todo[v] /\ got'[v] = got[v]
         /\ ~Doing(w, "log")' /\ got'[w].status # "checked_out"
         /\ \A p : Owed(w, p)' = 0
<1>1. /\ \A v \in Op \ {w} : job'[v] = job[v] /\ todo'[v] = todo[v] /\ got'[v] = got[v]
      /\ todo'[w] = <<>> /\ got'[w] = Blank
  BY LeaveGives
<1>2. ~Doing(w, "log")'
  BY <1>1 DEF Doing
<1>3. got'[w].status # "checked_out"
  BY <1>1 DEF Blank
<1>4. QED
  BY <1>1, <1>2, <1>3 DEF Owed

\* An operation that saw what it depends on unchanged.
LEMMA NotRaced ==
  ASSUME NEW w, Race(w), ~raced'
  PROVE  /\ ~raced /\ Relevant(w, line) = got[w].lines
         /\ job[w].kind \in {"add", "clear", "sweep"} => got[w].status = status
  BY Zenon DEF Race, Outdated

\* The accounts do not look at a cart that is closed, nor mind one that is.
LEMMA CloseBooks ==
  ASSUME Shape, Shape', Books, NEW w \in Op, FinishStored(w) \/ Sweep(w)
  PROVE  Books'
<1>1. Leave(w) /\ UNCHANGED <<lineVars, auditVars>>
  BY DEF FinishStored, Sweep
<1>2. ~Doing(w, "log")
  BY DEF FinishStored, Sweep, Doing
<1>3. ASSUME ~raced' PROVE ~raced /\ (status = "checked_out" => status' = "checked_out")
  <2>1. CASE FinishStored(w)
    BY <1>3, <2>1 DEF FinishStored
  <2>2. CASE Sweep(w)
    <3>1. ~raced /\ got[w].status = status
      BY <1>3, <2>2, Zenon DEF Sweep
    <3>2. got[w].status = "active"
      BY <2>2 DEF Sweep, Shape, Informed
    <3>3. QED
      BY <3>1, <3>2
  <2>3. QED
    BY <2>1, <2>2
<1>4. QED
  BY <1>1, <1>2, <1>3, Gone, BooksKept

\* The units of a product that an action does not touch, and its tallies.
LEMMA Tallies ==
  ASSUME Shape, NEW p \in Product
  PROVE  /\ entered[p] \in Int /\ removed[p] \in Int /\ voided[p] \in Int
         /\ logged[p] \in Int /\ unlogged[p] \in Int /\ UnitsIn(line, p) \in Int
         /\ line' = line => /\ UnitsIn(line, p)' = UnitsIn(line, p)
                            /\ Single(line, p) => Single(line, p)'
<1>1. line' = line => /\ UnitsIn(line, p)' = UnitsIn(line, p)
                      /\ Single(line, p) => Single(line, p)'
  BY DEF UnitsIn, Portion, Single
<1>2. UnitsIn(line, p) \in Int
  BY UnitsType DEF Shape, TypeOK, AreLines
<1>3. /\ entered[p] \in Int /\ removed[p] \in Int /\ voided[p] \in Int
      /\ logged[p] \in Int /\ unlogged[p] \in Int
  BY DEF Shape, TypeOK
<1>4. QED
  BY <1>1, <1>2, <1>3

\* What is owed is entered in the log, or lost with the operation.
LEMMA LogBooks ==
  ASSUME Shape, Shape', Books, NEW w \in Op, Log(w) \/ Stop(w)
  PROVE  Books'
<1>1. Leave(w) /\ UNCHANGED <<status, lineVars, raced>>
  BY DEF Log, Stop
<1>2. ASSUME NEW p \in Product
      PROVE  (logged'[p] - logged[p]) + (unlogged'[p] - unlogged[p]) = Owed(w, p)
             /\ Owed(w, p) \in Int
  <2>1. logged[p] \in Int /\ unlogged[p] \in Int
    BY Tallies
  <2>2. Entry(w)[p] \in Int
    BY Entries
  <2>3. CASE Log(w)
    <3>1. Owed(w, p) = Entry(w)[p]
      BY <2>3 DEF Log, Owed
    <3>2. logged'[p] = logged[p] + Entry(w)[p] /\ unlogged'[p] = unlogged[p]
      BY <2>3 DEF Log, Plus
    <3>3. PICK a, b, c : a = logged[p] /\ b = unlogged[p] /\ c = Entry(w)[p]
      OBVIOUS
    <3>4. a \in Int /\ b \in Int /\ c \in Int
      BY <2>1, <2>2, <3>3
    <3>5. ((a + c) - a) + (b - b) = c
      BY <3>4
    <3>6. QED
      BY <3>1, <3>2, <3>3, <3>4, <3>5
  <2>4. CASE Stop(w)
    <3>1. PICK a, b, c : a = logged[p] /\ b = unlogged[p] /\ c = Owed(w, p)
      OBVIOUS
    <3>2. unlogged'[p] = b + c /\ logged'[p] = a
      <4>1. CASE Doing(w, "log")
        BY <2>4, <3>1, <4>1 DEF Stop, Plus, Owed
      <4>2. CASE ~Doing(w, "log")
        <5>1. unlogged'[p] = b /\ c = 0 /\ logged'[p] = a
          BY <2>4, <3>1, <4>2 DEF Stop, Owed
        <5>2. QED
          BY <2>1, <3>1, <5>1
      <4>3. QED
        BY <4>1, <4>2
    <3>3. a \in Int /\ b \in Int /\ c \in Int
      BY <2>1, <2>2, <3>1 DEF Owed
    <3>4. (a - a) + ((b + c) - b) = c
      BY <3>3
    <3>5. QED
      BY <3>1, <3>2, <3>3, <3>4
  <2>5. QED
    BY <2>3, <2>4
<1>3. ASSUME NEW p \in Product
      PROVE  /\ Single(line, p) => Single(line, p)'
             /\ UnitsIn(line, p)' = UnitsIn(line, p) + (entered'[p] - entered[p])
                - (removed'[p] - removed[p]) - (voided'[p] - voided[p])
             /\ voided'[p] - voided[p] = (logged'[p] - logged[p]) + (unlogged'[p] - unlogged[p])
                + (Owed(w, p)' - Owed(w, p))
  <2>1. line' = line /\ entered' = entered /\ removed' = removed /\ voided' = voided
    BY <1>1 DEF lineVars
  <2>2. PICK e, r, d, s, o, z : /\ e = entered[p] /\ r = removed[p] /\ d = voided[p]
                                /\ s = UnitsIn(line, p) /\ o = Owed(w, p)
                                /\ z = (logged'[p] - logged[p]) + (unlogged'[p] - unlogged[p])
    OBVIOUS
  <2>3. e \in Int /\ r \in Int /\ d \in Int /\ s \in Int /\ o \in Int
    BY <1>2, <2>2, Tallies
  <2>4. s = s + (e - e) - (r - r) - (d - d) /\ d - d = o + (0 - o)
    BY <2>3
  <2>5. Owed(w, p)' = 0 /\ z = o
    BY <1>1, <1>2, <2>2, Gone
  <2>6. UnitsIn(line, p)' = s /\ (Single(line, p) => Single(line, p)')
    BY <2>1, <2>2, Tallies
  <2>7. QED
    BY <2>1, <2>2, <2>4, <2>5, <2>6
<1>4. QED
  BY <1>1, <1>3, Gone, BooksNext

\* A checkout enters its items, and closes the cart to further ones.
LEMMA CheckoutBooks ==
  ASSUME Shape, Shape', Books, NEW w \in Op, Checkout(w)
  PROVE  Books'
<1>1. /\ OnPlan(w) /\ Informed(w) /\ job \in [Op -> Job] /\ made \in Nat
      /\ AreLines(line) /\ Positive(line) /\ entered \in [Product -> Int]
  BY ShapeTypes
<1>2. /\ Leave(w) /\ Insert(job[w].product, job[w].n) /\ job[w].kind = "checkout"
      /\ entered' = Plus(entered, Of(job[w].product, job[w].n)) /\ Doing(w, "write")
      /\ UNCHANGED <<removed, voided, auditVars, raced>>
  BY DEF Checkout
<1>3. job[w].product \in Product /\ job[w].n \in Nat \ {0} /\ job[w].n \in Int
  BY <1>1, <1>2 DEF Informed
<1>4. ASSUME ~raced' PROVE ~raced /\ status' = "checked_out"
  <2>1. got[w].status = "checked_out" => status = "checked_out"
    BY <1>2, <1>4 DEF Books, Stays
  <2>2. QED
    BY <1>2, <1>4, <2>1 DEF Checkout
<1>5. ASSUME NEW p \in Product
      PROVE  /\ UnitsIn(line, p)' = UnitsIn(line, p) + (entered'[p] - entered[p])
                - (removed'[p] - removed[p]) - (voided'[p] - voided[p])
             /\ voided'[p] - voided[p] = (logged'[p] - logged[p]) + (unlogged'[p] - unlogged[p])
                + (Owed(w, p)' - Owed(w, p))
  <2>1. PICK e, r, d, g, u, s, x :
                /\ e = entered[p] /\ r = removed[p] /\ d = voided[p] /\ g = logged[p]
                /\ u = unlogged[p] /\ s = UnitsIn(line, p)
                /\ x = Of(job[w].product, job[w].n)[p]
    OBVIOUS
  <2>2. /\ e \in Int /\ r \in Int /\ d \in Int /\ g \in Int /\ u \in Int /\ s \in Int
    BY <2>1, Tallies
  <2>3. x \in Int
    <3>1. Of(job[w].product, job[w].n) \in [Product -> Int]
      BY <1>3, TallyTypes
    <3>2. QED
      BY <2>1, <3>1
  <2>4. UnitsIn(line, p)' = s + x
    BY <1>1, <1>2, <1>3, <2>1, InsertGives
  <2>5. entered'[p] = e + x
    BY <1>2, <2>1 DEF Plus
  <2>6. removed'[p] = r /\ voided'[p] = d /\ logged'[p] = g /\ unlogged'[p] = u
    BY <1>2, <2>1 DEF auditVars
  <2>7. Owed(w, p) = 0 /\ Owed(w, p)' = 0
    BY <1>2, Gone DEF Owed, Doing
  <2>8. s + x = s + ((e + x) - e) - (r - r) - (d - d) /\ d - d = (g - g) + (u - u) + (0 - 0)
    BY <2>2, <2>3
  <2>9. QED
    BY <2>1, <2>4, <2>5, <2>6, <2>7, <2>8
<1>6. ~raced' => /\ ~raced
                 /\ got'[w].status = "checked_out" => status' = "checked_out"
                 /\ status = "checked_out" => status' = "checked_out"
  BY <1>4
<1>7. QED
  BY <1>2, <1>4, <1>5, <1>6, Gone, BooksNext

\* Adding enters what the line gains, if its reading was not overtaken.
LEMMA AddBooks ==
  ASSUME Shape, Shape', Books, NEW w \in Op, Add(w)
  PROVE  Books'
<1>1. /\ Leave(w) /\ Race(w) /\ Doing(w, "write")
      /\ UNCHANGED <<status, removed, voided, auditVars>>
  BY DEF Add
<1>2. ASSUME ~raced', NEW p \in Product
      PROVE  /\ Single(line, p) => Single(line, p)'
             /\ UnitsIn(line, p)' = UnitsIn(line, p) + (entered'[p] - entered[p])
                - (removed'[p] - removed[p]) - (voided'[p] - voided[p])
             /\ voided'[p] - voided[p] = (logged'[p] - logged[p]) + (unlogged'[p] - unlogged[p])
                + (Owed(w, p)' - Owed(w, p))
  <2>1. PICK e, e1, r, d, g, u, s :
                /\ e = entered[p] /\ e1 = entered'[p] /\ r = removed[p] /\ d = voided[p]
                /\ g = logged[p] /\ u = unlogged[p] /\ s = UnitsIn(line, p)
    OBVIOUS
  <2>2. /\ e \in Int /\ r \in Int /\ d \in Int /\ g \in Int /\ u \in Int /\ s \in Int
    BY <2>1, Tallies
  <2>3. e1 \in Int
    BY <2>1, AddGives
  <2>4. Relevant(w, line) = got[w].lines
    BY <1>1, <1>2, NotRaced
  <2>5. UnitsIn(line, p)' = s + (e1 - e) /\ (Single(line, p) => Single(line, p)')
    BY <2>1, <2>4, AddGives
  <2>6. removed'[p] = r /\ voided'[p] = d /\ logged'[p] = g /\ unlogged'[p] = u
    BY <1>1, <2>1 DEF auditVars
  <2>7. Owed(w, p) = 0 /\ Owed(w, p)' = 0
    BY <1>1, Gone DEF Owed, Doing
  <2>8. s + (e1 - e) = s + (e1 - e) - (r - r) - (d - d) /\ d - d = (g - g) + (u - u) + (0 - 0)
    BY <2>2, <2>3
  <2>9. QED
    BY <2>1, <2>5, <2>6, <2>7, <2>8
<1>3. ~raced' => /\ ~raced
                 /\ got'[w].status = "checked_out" => status' = "checked_out"
                 /\ status = "checked_out" => status' = "checked_out"
  BY <1>1, NotRaced, Gone
<1>4. QED
  BY <1>1, <1>2, <1>3, Gone, BooksNext

\* A removal takes what it counts.
LEMMA RemoveBooks ==
  ASSUME Shape, Shape', Books, NEW w \in Op, Remove(w)
  PROVE  Books'
<1>1. /\ Leave(w) /\ Race(w) /\ Doing(w, "write")
      /\ UNCHANGED <<status, entered, voided, auditVars>>
  BY DEF Remove
<1>2. ASSUME NEW p \in Product
      PROVE  /\ Single(line, p) => Single(line, p)'
             /\ UnitsIn(line, p)' = UnitsIn(line, p) + (entered'[p] - entered[p])
                - (removed'[p] - removed[p]) - (voided'[p] - voided[p])
             /\ voided'[p] - voided[p] = (logged'[p] - logged[p]) + (unlogged'[p] - unlogged[p])
                + (Owed(w, p)' - Owed(w, p))
  <2>1. PICK e, r, r1, d, g, u, s :
                /\ e = entered[p] /\ r = removed[p] /\ r1 = removed'[p] /\ d = voided[p]
                /\ g = logged[p] /\ u = unlogged[p] /\ s = UnitsIn(line, p)
    OBVIOUS
  <2>2. /\ e \in Int /\ r \in Int /\ d \in Int /\ g \in Int /\ u \in Int /\ s \in Int
    BY <2>1, Tallies
  <2>3. r1 \in Int
    BY <2>1, RemoveGives
  <2>4. UnitsIn(line, p)' = s - (r1 - r) /\ (Single(line, p) => Single(line, p)')
    BY <2>1, RemoveGives
  <2>5. entered'[p] = e /\ voided'[p] = d /\ logged'[p] = g /\ unlogged'[p] = u
    BY <1>1, <2>1 DEF auditVars
  <2>6. Owed(w, p) = 0 /\ Owed(w, p)' = 0
    BY <1>1, Gone DEF Owed, Doing
  <2>7. s - (r1 - r) = s + (e - e) - (r1 - r) - (d - d) /\ d - d = (g - g) + (u - u) + (0 - 0)
    BY <2>2, <2>3
  <2>8. QED
    BY <2>1, <2>4, <2>5, <2>6, <2>7
<1>3. ~raced' => /\ ~raced
                 /\ got'[w].status = "checked_out" => status' = "checked_out"
                 /\ status = "checked_out" => status' = "checked_out"
  BY <1>1, NotRaced, Gone
<1>4. QED
  BY <1>1, <1>2, <1>3, Gone, BooksNext

\* A void and a clearance take what they count, and owe an entry for it.
LEMMA VoidBooks ==
  ASSUME Shape, Shape', Books, NEW w \in Op, Void(w) \/ Clear(w)
  PROVE  Books'
<1>1. /\ Advance(w) /\ Race(w) /\ Doing(w, "write") /\ job[w].kind \in {"void", "clear"}
      /\ UNCHANGED <<status, entered, removed, auditVars, got>>
      /\ job \in [Op -> Job] /\ todo \in [Op -> Seq(Step)] /\ OnPlan(w)
  BY ShapeTypes DEF Void, Clear
<1>2. Doing(w, "log")'
  <2>1. todo[w] = TWG
    BY <1>1, DoingGives
  <2>2. todo'[w] = TG
    BY <1>1, <2>1, ListsGive DEF Advance
  <2>3. QED
    BY <2>2, ListsGive DEF Doing
<1>3. \A v \in Op \ {w} : job'[v] = job[v] /\ todo'[v] = todo[v] /\ got'[v] = got[v]
  <2>1. \A v \in Op \ {w} : job'[v] = job[v]
    BY <1>1 DEF Void, Clear
  <2>2. QED
    BY <1>1, <2>1 DEF Advance
<1>4. ASSUME ~raced', NEW p \in Product
      PROVE  /\ Single(line, p) => Single(line, p)'
             /\ UnitsIn(line, p)' = UnitsIn(line, p) + (entered'[p] - entered[p])
                - (removed'[p] - removed[p]) - (voided'[p] - voided[p])
             /\ voided'[p] - voided[p] = (logged'[p] - logged[p]) + (unlogged'[p] - unlogged[p])
                + (Owed(w, p)' - Owed(w, p))
  <2>1. PICK e, r, d, d1, g, u, s, o :
                /\ e = entered[p] /\ r = removed[p] /\ d = voided[p] /\ d1 = voided'[p]
                /\ g = logged[p] /\ u = unlogged[p] /\ s = UnitsIn(line, p)
                /\ o = Owed(w, p)'
    OBVIOUS
  <2>2. /\ e \in Int /\ r \in Int /\ d \in Int /\ g \in Int /\ u \in Int /\ s \in Int
    BY <2>1, Tallies
  <2>3. d1 \in Int
    BY <2>1, VoidGives, ClearGives
  <2>4. Relevant(w, line) = got[w].lines
    BY <1>1, <1>4, NotRaced
  <2>5. UnitsIn(line, p)' = s - (d1 - d) /\ (Single(line, p) => Single(line, p)')
        /\ d1 - d = Entry(w)'[p]
    BY <2>1, <2>4, VoidGives, ClearGives
  <2>6. entered'[p] = e /\ removed'[p] = r /\ logged'[p] = g /\ unlogged'[p] = u
    BY <1>1, <2>1 DEF auditVars
  <2>7. Owed(w, p) = 0 /\ d1 - d = o
    BY <1>1, <1>2, <2>1, <2>5 DEF Owed, Doing
  <2>8. /\ s - (d1 - d) = s + (e - e) - (r - r) - (d1 - d)
        /\ d1 - d = (g - g) + (u - u) + (o - 0)
    BY <2>2, <2>3, <2>7
  <2>9. QED
    BY <2>1, <2>5, <2>6, <2>7, <2>8
<1>5. ~raced' => /\ ~raced
                 /\ got'[w].status = "checked_out" => status' = "checked_out"
                 /\ status = "checked_out" => status' = "checked_out"
  <2>1. SUFFICES ASSUME ~raced' PROVE ~raced /\ (got[w].status = "checked_out" => status = "checked_out")
    BY <1>1
  <2>2. ~raced
    BY <1>1, <2>1, NotRaced
  <2>3. QED
    BY <2>2 DEF Books, Stays
<1>6. QED
  BY <1>3, <1>4, <1>5, BooksNext

\* No step disturbs the second layer.
LEMMA BooksStep ==
  ASSUME Shape, Shape', Books, [Next]_vars
  PROVE  Books'
<1>1. ASSUME NEW w \in Op, Start(w) PROVE Books'
  BY <1>1, StartBooks
<1>2. ASSUME NEW w \in Op,
             ReadCart(w) \/ ReadLines(w) \/ ValidateCoupon(w) \/ TallyCoupon(w) \/ CountCoupon(w)
      PROVE  Books'
  BY <1>2, ReadBooks
<1>3. ASSUME NEW w \in Op, Add(w) \/ Remove(w) \/ Void(w) \/ Clear(w) PROVE Books'
  BY <1>3, AddBooks, RemoveBooks, VoidBooks
<1>4. ASSUME NEW w \in Op, Log(w) \/ Stop(w) PROVE Books'
  BY <1>4, LogBooks
<1>5. ASSUME NEW w \in Op, Checkout(w) PROVE Books'
  BY <1>5, CheckoutBooks
<1>6. ASSUME NEW w \in Op, SellStored(w) \/ DeductStored(w) \/ BookStored(w) PROVE Books'
  BY <1>6, StoredBooks
<1>7. ASSUME NEW w \in Op, FinishStored(w) \/ Sweep(w) PROVE Books'
  BY <1>7, CloseBooks
<1>8. CASE UNCHANGED vars
  BY <1>8 DEF Books, LinesExplained, Stays, UnitsIn, Portion, Unwritten, Doing, Entry, Units, vars
<1>9. QED
  BY <1>1, <1>2, <1>3, <1>4, <1>5, <1>6, <1>7, <1>8 DEF Next

\* An empty cart has no units, and nothing is owed.
LEMMA BooksInit ==
  ASSUME Init
  PROVE  Books
<1>1. Stays
  BY DEF Init, Stays, Blank
<1>2. ASSUME NEW p \in Product
      PROVE  /\ Cardinality({i \in DOMAIN line : line[i].product = p}) <= 1
             /\ UnitsIn(line, p) = entered[p] - removed[p] - voided[p]
             /\ voided[p] = logged[p] + unlogged[p] + Unwritten(p)
  <2>1. DOMAIN line = {} /\ {i \in DOMAIN line : line[i].product = p} = {}
    BY DEF Init, Empty
  <2>2. Cardinality({i \in DOMAIN line : line[i].product = p}) <= 1
    <3>1. Cardinality({}) = 0
      BY FS_EmptySet
    <3>2. QED
      BY <2>1, <3>1
  <2>3. UnitsIn(line, p) = 0
    <3>1. PICK f : f = Portion(line, p)
      OBVIOUS
    <3>2. UnitsIn(line, p) = SumFunctionOnSet(f, {})
      BY <2>1, <3>1 DEF UnitsIn
    <3>3. QED
      BY <3>2, SumEmpty
  <2>4. Unwritten(p) = 0
    <3>1. PICK f : f = [w \in Op |-> IF Doing(w, "log") THEN Entry(w)[p] ELSE 0]
      OBVIOUS
    <3>2. \A w \in Op : f[w] = 0
      BY <3>1 DEF Init, Doing
    <3>3. SumFunctionOnSet(f, Op) = 0
      BY <3>2, SumZero, CartsAssumption
    <3>4. QED
      BY <3>1, <3>3 DEF Unwritten
  <2>5. entered[p] = 0 /\ removed[p] = 0 /\ voided[p] = 0 /\ logged[p] = 0 /\ unlogged[p] = 0
    BY DEF Init, None
  <2>6. QED
    BY <2>2, <2>3, <2>4, <2>5
<1>3. QED
  BY <1>1, <1>2 DEF Books, LinesExplained

-----------------------------------------------------------------------------
(* The third layer: the sales.                                             *)

\* A sale of the cart is complete.
IsSold == \E i \in DOMAIN sale : Complete(sale[i])

\* In other words.
LEMMA SoldMeans ==
  /\ (\E s \in Range(sale) : Complete(s)) <=> IsSold
  /\ (\E s \in Range(sale') : Complete(s)) <=> IsSold'
  BY DEF Range, IsSold, Complete

\* The layer, in these words.
LEMMA SoldIs ==
  /\ Sold <=> /\ status = "checked_out" => IsSold
              /\ IsSold => status = "checked_out" \/ raced \/ cut \/ \E w \in Op : Doing(w, "finish")
              /\ \A w \in Op : Mine(w)
  /\ Sold' <=> /\ status' = "checked_out" => IsSold'
               /\ IsSold' => \/ status' = "checked_out" \/ raced' \/ cut'
                             \/ \E w \in Op : Doing(w, "finish")'
               /\ \A w \in Op : Mine(w)'
  BY SoldMeans, Zenon DEF Sold, CheckedOutIsSold

\* Each checkout keeps its sale when another one steps.
LEMMA MineNext ==
  ASSUME \A v \in Op : Mine(v), NEW w \in Op,
         \A v \in Op \ {w} : job'[v] = job[v] /\ todo'[v] = todo[v],
         DOMAIN sale \subseteq DOMAIN sale',
         \A i \in DOMAIN sale \ {job[w].sale} : sale'[i] = sale[i],
         job'[w].sale \in {0, job[w].sale} \/ job'[w].sale \notin DOMAIN sale,
         Selling(w)' <=> job'[w].sale # 0,
         Selling(w)' => /\ job'[w].sale \in DOMAIN sale'
                        /\ sale'[job'[w].sale].booked <=> todo'[w] = TF
                        /\ todo'[w] \in {TBF, TF} => sale'[job'[w].sale].stock
  PROVE  \A v \in Op : Mine(v)'
<1>1. ASSUME NEW v \in Op, v # w, job'[w].sale = job[v].sale, job[v].sale # 0 PROVE FALSE
  <2>1. job[v].sale \in DOMAIN sale
    BY <1>1 DEF Mine
  <2>2. job'[w].sale = job[w].sale
    BY <1>1, <2>1
  <2>3. QED
    BY ZenonT(60), <1>1, <2>2 DEF Mine
<1>2. ASSUME NEW v \in Op, v # w PROVE Mine(v)'
  <2>1. job'[v] = job[v] /\ todo'[v] = todo[v]
    BY <1>2
  <2>2. (Selling(v) <=> job[v].sale # 0) /\ (Selling(v)' <=> Selling(v))
    BY <2>1 DEF Mine, Selling
  <2>3. ASSUME Selling(v)
        PROVE  /\ job'[v].sale \in DOMAIN sale'
               /\ sale'[job'[v].sale].booked <=> todo'[v] = TF
               /\ todo'[v] \in {TBF, TF} => sale'[job'[v].sale].stock
    <3>1. job[v].sale \in DOMAIN sale /\ job[v].sale # 0
      BY <2>3 DEF Mine
    <3>2. job[v].sale # job[w].sale
      BY <1>2, <3>1 DEF Mine
    <3>3. sale'[job[v].sale] = sale[job[v].sale] /\ job[v].sale \in DOMAIN sale'
      BY <3>1, <3>2
    <3>4. QED
      BY <2>1, <2>3, <3>1, <3>3 DEF Mine
  <2>4. ASSUME NEW u \in Op, job'[u].sale = job'[v].sale, job'[v].sale # 0 PROVE u = v
    <3>1. CASE u = w
      BY <1>1, <1>2, <2>1, <2>4, <3>1
    <3>2. CASE u # w
      BY <2>1, <2>4, <3>2 DEF Mine
    <3>3. QED
      BY <3>1, <3>2
  <2>5. QED
    BY <2>1, <2>2, <2>3, <2>4 DEF Mine
<1>3. Mine(w)'
  <2>1. \A u \in Op : job'[u].sale = job'[w].sale /\ job'[w].sale # 0 => u = w
    BY <1>1
  <2>2. QED
    BY <2>1 DEF Mine
<1>4. QED
  BY <1>2, <1>3

\* An operation that has nothing to do with a sale leaves the sales alone.
LEMMA SoldKept ==
  ASSUME Sold, NEW w \in Op,
         \A v \in Op \ {w} : job'[v] = job[v] /\ todo'[v] = todo[v],
         sale' = sale, status' = status, raced => raced', cut => cut',
         ~Selling(w), ~Selling(w)', job'[w].sale \in {0, job[w].sale}, ~Doing(w, "finish")
  PROVE  Sold'
<1>1. /\ status = "checked_out" => IsSold
      /\ IsSold => status = "checked_out" \/ raced \/ cut \/ \E v \in Op : Doing(v, "finish")
      /\ \A v \in Op : Mine(v)
  BY SoldIs
<1>2. \A v \in Op : Mine(v)'
  <2>1. job[w].sale = 0 /\ job'[w].sale = 0
    BY <1>1 DEF Mine
  <2>2. QED
    BY <1>1, <2>1, MineNext
<1>3. IsSold' <=> IsSold
  BY DEF IsSold
<1>4. ASSUME NEW v \in Op, Doing(v, "finish") PROVE Doing(v, "finish")'
  <2>1. v # w
    BY <1>4
  <2>2. todo'[v] = todo[v]
    BY <2>1
  <2>3. QED
    BY <1>4, <2>2 DEF Doing
<1>5. IsSold => status = "checked_out" \/ raced' \/ cut' \/ \E v \in Op : Doing(v, "finish")'
  <2>1. (\E v \in Op : Doing(v, "finish")) => \E v \in Op : Doing(v, "finish")'
    BY <1>4
  <2>2. QED
    BY <1>1, <2>1, Zenon
<1>6. QED
  BY <1>1, <1>2, <1>3, <1>5, SoldIs

\* Whoever does such a step is not selling, nor about to.
LEMMA NotSelling ==
  ASSUME Shape, NEW w \in Op, NEW x \in Step \ {"sale", "deduct", "book", "finish"},
         Doing(w, x)
  PROVE  /\ ~Selling(w) /\ ~Doing(w, "finish")
         /\ Advance(w) => ~Selling(w)'
<1>1. todo \in [Op -> Seq(Step)] /\ OnPlan(w) /\ job \in [Op -> Job] /\ Head(todo[w]) = x
  BY DEF Shape, TypeOK, Doing
<1>2. ~Selling(w) /\ ~Doing(w, "finish")
  BY ZenonT(60), <1>1, ListsGive DEF Selling, Doing
<1>3. todo[w] \in {TCLW, TCLWG, TCW, TCVTNW, TCLSDBF, TCLVTNS, TLW, TLWG, TLSDBF, TLVTNS,
                   TVTNW, TVTNS, TTNW, TTNS, TNW, TNS, TW, TWG, TG}
  BY <1>1, DoingGives DEF Step
<1>4. Tail(todo[w]) \notin {TDBF, TBF, TF}
  <2>1. \/ Tail(todo[w]) = <<>>
        \/ Head(Tail(todo[w])) \in {"lines", "coupon", "tally", "count", "write", "log", "sale"}
    <3>1. CASE todo[w] \in {TCLW, TCLWG, TCW, TCVTNW, TCLSDBF, TCLVTNS}
      BY ZenonT(60), <3>1, ListsGive
    <3>2. CASE todo[w] \in {TLW, TLWG, TLSDBF, TLVTNS, TVTNW, TVTNS}
      BY ZenonT(60), <3>2, ListsGive
    <3>3. CASE todo[w] \in {TTNW, TTNS}
      BY <3>3, ListsGive
    <3>4. CASE todo[w] \in {TNW, TNS}
      BY ZenonT(60), <3>4, ListsGive
    <3>5. CASE todo[w] \in {TW, TG}
      BY <3>5, ListsGive
    <3>6. CASE todo[w] = TWG
      BY <3>6, ListsGive
    <3>7. QED
      BY <1>3, <3>1, <3>2, <3>3, <3>4, <3>5, <3>6
  <2>2. QED
    BY <2>1, ListsGive
<1>5. Advance(w) => todo'[w] = Tail(todo[w])
  BY <1>1 DEF Advance
<1>6. QED
  BY <1>2, <1>4, <1>5 DEF Selling

\* A finished operation has no sale.
LEMMA NoSale ==
  ASSUME Shape, NEW w \in Op, Leave(w)
  PROVE  /\ \A v \in Op \ {w} : job'[v] = job[v] /\ todo'[v] = todo[v]
         /\ ~Selling(w)' /\ job'[w].sale = 0 /\ ~Doing(w, "finish")'
<1>1. /\ \A v \in Op \ {w} : job'[v] = job[v] /\ todo'[v] = todo[v]
      /\ job'[w] = Idle /\ todo'[w] = <<>>
  BY LeaveGives
<1>2. ~Selling(w)' /\ ~Doing(w, "finish")'
  BY <1>1, ListsGive DEF Selling, Doing
<1>3. job'[w].sale = 0
  BY <1>1 DEF Idle
<1>4. QED
  BY <1>1, <1>2, <1>3

\* The sales when an operation arrives.
LEMMA StartSold ==
  ASSUME Shape, Sold, NEW w \in Op, Start(w)
  PROVE  Sold'
<1>1. job \in [Op -> Job] /\ todo \in [Op -> Seq(Step)] /\ OnPlan(w)
  BY DEF Shape, TypeOK
<1>2. PICK k \in {TCLW, TLW, TLWG, TCLWG, TCVTNW, TCW, TCLVTNS, TCLSDBF} : \E i : Begin(w, i, k)
  BY CheckoutLists DEF Start, TCLW, TLW, TLWG, TCLWG, TCW
<1>2a. PICK j : Begin(w, j, k)
  BY <1>2
<1>3. /\ \A v \in Op \ {w} : job'[v] = job[v] /\ todo'[v] = todo[v]
      /\ UNCHANGED <<sale, status, raced, cut>> /\ job[w] = Idle
      /\ job'[w] = j /\ todo'[w] = k
  BY <1>1, <1>2a DEF Begin
<1>4. ~Selling(w) /\ ~Doing(w, "finish")
  <2>1. Idle.kind = "none"
    BY DEF Idle
  <2>2. todo[w] = <<>>
    BY <1>1, <1>3, <2>1 DEF OnPlan
  <2>3. QED
    BY <2>2, ListsGive DEF Doing, Selling
<1>5. ~Selling(w)'
  <2>1. Head(k) \in {"cart", "lines"}
    BY ZenonT(60), ListsGive
  <2>2. k \notin {TDBF, TBF, TF}
    BY <2>1, ListsGive
  <2>3. QED
    BY <1>3, <2>2 DEF Selling
<1>6. job'[w].sale = 0
  <2>1. ASSUME NEW i, NEW l, Begin(w, i, l), i.sale = 0 PROVE job'[w].sale = 0
    BY <1>1, <2>1 DEF Begin
  <2>2. \A p, n : [Idle EXCEPT !.kind = "add", !.product = p, !.n = n].sale = 0
    BY DEF Idle
  <2>3. \A l, n : /\ [Idle EXCEPT !.kind = "remove", !.line = l].sale = 0
                  /\ [Idle EXCEPT !.kind = "void", !.line = l, !.n = n].sale = 0
    BY DEF Idle
  <2>4. \A p, n, c :
          [Idle EXCEPT !.kind = "checkout", !.product = p, !.n = n, !.coupon = c].sale = 0
    BY DEF Idle
  <2>5. /\ [Idle EXCEPT !.kind = "clear"].sale = 0 /\ [Idle EXCEPT !.kind = "sweep"].sale = 0
        /\ \A c : [Idle EXCEPT !.kind = "stored", !.coupon = c].sale = 0
    BY DEF Idle
  <2>6. ASSUME NEW p, NEW n, NEW l,
               Begin(w, [Idle EXCEPT !.kind = "add", !.product = p, !.n = n], l)
        PROVE  job'[w].sale = 0
    <3>1. PICK i : i = [Idle EXCEPT !.kind = "add", !.product = p, !.n = n]
      OBVIOUS
    <3>2. Begin(w, i, l) /\ i.sale = 0
      BY <2>2, <2>6, <3>1
    <3>3. QED
      BY <2>1, <3>2
  <2>7. ASSUME NEW i, NEW l, Begin(w, [Idle EXCEPT !.kind = "remove", !.line = i], l)
        PROVE  job'[w].sale = 0
    BY <2>1, <2>3, <2>7, Zenon
  <2>8. ASSUME NEW i, NEW n, NEW l,
               Begin(w, [Idle EXCEPT !.kind = "void", !.line = i, !.n = n], l)
        PROVE  job'[w].sale = 0
    BY <2>1, <2>3, <2>8, Zenon
  <2>9. ASSUME NEW p, NEW n, NEW c, NEW l,
               Begin(w, [Idle EXCEPT !.kind = "checkout", !.product = p, !.n = n, !.coupon = c], l)
        PROVE  job'[w].sale = 0
    <3>1. PICK i : i = [Idle EXCEPT !.kind = "checkout", !.product = p, !.n = n, !.coupon = c]
      OBVIOUS
    <3>2. Begin(w, i, l) /\ i.sale = 0
      BY <2>4, <2>9, <3>1
    <3>3. QED
      BY <2>1, <3>2
  <2>10. ASSUME NEW c, NEW l, Begin(w, [Idle EXCEPT !.kind = "stored", !.coupon = c], l)
         PROVE  job'[w].sale = 0
    BY <2>1, <2>5, <2>10, Zenon
  <2>11. ASSUME NEW l, \/ Begin(w, [Idle EXCEPT !.kind = "clear"], l)
                       \/ Begin(w, [Idle EXCEPT !.kind = "sweep"], l)
         PROVE  job'[w].sale = 0
    BY <2>1, <2>5, <2>11, Zenon
  <2>12. QED
    BY <2>6, <2>7, <2>8, <2>9, <2>10, <2>11, Zenon DEF Start
<1>7. QED
  BY <1>3, <1>4, <1>5, <1>6, SoldKept

\* Readings, the coupon, lines and entries have no part in it.
LEMMA AsideSold ==
  ASSUME Shape, Sold, NEW w \in Op,
         \/ ReadCart(w) \/ ReadLines(w) \/ ValidateCoupon(w) \/ TallyCoupon(w) \/ CountCoupon(w)
         \/ Add(w) \/ Remove(w) \/ Void(w) \/ Clear(w) \/ Log(w)
  PROVE  Sold'
<1>1. job \in [Op -> Job] /\ todo \in [Op -> Seq(Step)]
  BY DEF Shape, TypeOK
<1>2. PICK x \in {"cart", "lines", "coupon", "tally", "count", "write", "log"} : Doing(w, x)
  BY DEF ReadCart, ReadLines, ValidateCoupon, TallyCoupon, CountCoupon, Add, Remove, Void,
         Clear, Log
<1>3. x \in Step \ {"sale", "deduct", "book", "finish"}
  BY <1>2 DEF Step
<1>4. ~Selling(w) /\ ~Doing(w, "finish") /\ (Advance(w) => ~Selling(w)')
  BY <1>2, <1>3, NotSelling
<1>5. sale' = sale /\ status' = status /\ cut' = cut
  BY DEF ReadCart, ReadLines, ValidateCoupon, TallyCoupon, CountCoupon, Add, Remove, Void,
         Clear, Log
<1>6. raced => raced'
  BY Zenon DEF ReadCart, ReadLines, ValidateCoupon, TallyCoupon, CountCoupon, Add, Remove,
         Void, Clear, Log, Race
<1>7. CASE Leave(w)
  BY <1>4, <1>5, <1>6, <1>7, NoSale, SoldKept
<1>8. CASE Advance(w) /\ (job' = job \/ Void(w))
  <2>1. \A v \in Op \ {w} : job'[v] = job[v] /\ todo'[v] = todo[v]
    BY <1>1, <1>8 DEF Advance, Void
  <2>2. job'[w].sale = job[w].sale
    <3>1. job[w] \in Job
      BY <1>1
    <3>2. QED
      BY <1>1, <1>8, <3>1 DEF Void, Job
  <2>3. QED
    BY <1>4, <1>5, <1>6, <1>8, <2>1, <2>2, SoldKept
<1>9. QED
  BY <1>7, <1>8 DEF ReadCart, ReadLines, ValidateCoupon, TallyCoupon, CountCoupon, Add, Remove,
         Void, Clear, Log

\* A new sale.
LEMMA AppendGives ==
  ASSUME sale \in Seq(Sale), NEW s \in Sale, sale' = Append(sale, s), NEW m, m = Len(sale) + 1
  PROVE  /\ m \in Nat /\ m # 0 /\ m \notin DOMAIN sale /\ DOMAIN sale' = DOMAIN sale \cup {m}
         /\ sale'[m] = s /\ \A i \in DOMAIN sale : sale'[i] = sale[i]
<1>1. PICK n : n = Len(sale)
  OBVIOUS
<1>2. n \in Nat /\ DOMAIN sale = 1 .. n /\ m = n + 1
  BY <1>1, LenProperties
<1>3. /\ sale' \in Seq(Sale) /\ Len(sale') = m /\ sale'[m] = s
      /\ \A i \in 1 .. n : sale'[i] = sale[i]
  BY <1>1, <1>2, AppendProperties
<1>4. DOMAIN sale' = 1 .. m
  BY <1>3, LenProperties
<1>5. m \in Nat /\ m # 0 /\ m \notin 1 .. n /\ 1 .. m = 1 .. n \cup {m}
  BY <1>2
<1>6. QED
  BY <1>2, <1>3, <1>4, <1>5

\* A client's checkout makes a complete sale and closes the cart, unless it
\* took the cart for closed already.
LEMMA CheckoutSold ==
  ASSUME Shape, Books, Sold, NEW w \in Op, Checkout(w)
  PROVE  Sold'
<1>1. /\ sale \in Seq(Sale) /\ job \in [Op -> Job] /\ \A v \in Op : Mine(v)
  BY SoldIs DEF Shape, TypeOK
<1>2. Leave(w) /\ raced' = raced /\ Doing(w, "write")
  BY DEF Checkout
<1>3. PICK s, m : s = [stock |-> TRUE, booked |-> TRUE, coupon |-> job[w].coupon]
                  /\ m = Len(sale) + 1
  OBVIOUS
<1>4. s \in Sale /\ Complete(s)
  BY <1>1, <1>3 DEF Sale, Complete, Job
<1>5. sale' = Append(sale, s)
  BY <1>3 DEF Checkout
<1>6. /\ DOMAIN sale' = DOMAIN sale \cup {m} /\ sale'[m] = s
      /\ \A i \in DOMAIN sale : sale'[i] = sale[i]
  BY <1>1, <1>3, <1>4, <1>5, AppendGives
<1>7. /\ \A v \in Op \ {w} : job'[v] = job[v] /\ todo'[v] = todo[v]
      /\ ~Selling(w)' /\ job'[w].sale = 0
  BY <1>2, NoSale
<1>8. \A v \in Op : Mine(v)'
  BY <1>1, <1>6, <1>7, MineNext
<1>9. IsSold'
  BY <1>4, <1>6 DEF IsSold
<1>10. status' = "checked_out" \/ raced'
  <2>1. SUFFICES ASSUME ~raced PROVE status' = "checked_out"
    BY <1>2
  <2>2. got[w].status = "checked_out" => status = "checked_out"
    BY <2>1 DEF Books, Stays
  <2>3. QED
    BY <2>2 DEF Checkout
<1>11. QED
  BY <1>8, <1>9, <1>10, SoldIs

\* The sale of a stored cart is neither deducted nor booked at first.
LEMMA SellSold ==
  ASSUME Shape, Sold, NEW w \in Op, SellStored(w)
  PROVE  Sold'
<1>1. /\ sale \in Seq(Sale) /\ job \in [Op -> Job] /\ todo \in [Op -> Seq(Step)]
      /\ OnPlan(w) /\ \A v \in Op : Mine(v)
  BY SoldIs DEF Shape, TypeOK
<1>2. PICK s, m : s = [stock |-> FALSE, booked |-> FALSE, coupon |-> job[w].coupon]
                  /\ m = Len(sale) + 1
  OBVIOUS
<1>3. s \in Sale /\ ~Complete(s) /\ s.booked = FALSE
  BY <1>1, <1>2 DEF Sale, Complete, Job
<1>4. sale' = Append(sale, s) /\ status' = status /\ cut' = cut /\ Doing(w, "sale")
  BY <1>2 DEF SellStored
<1>5. /\ m \in Nat /\ m # 0 /\ m \notin DOMAIN sale /\ DOMAIN sale' = DOMAIN sale \cup {m}
      /\ sale'[m] = s /\ \A i \in DOMAIN sale : sale'[i] = sale[i]
  BY <1>1, <1>2, <1>3, <1>4, AppendGives
<1>6. todo[w] = TSDBF /\ todo'[w] = TDBF /\ \A v \in Op \ {w} : todo'[v] = todo[v]
  <2>1. todo[w] = TSDBF
    BY <1>1, <1>4, DoingGives
  <2>2. QED
    BY <1>1, <2>1, ListsGive DEF SellStored, Advance
<1>7. job'[w].sale = m /\ \A v \in Op \ {w} : job'[v] = job[v]
  <2>1. job' = [job EXCEPT ![w] = [job[w] EXCEPT !.sale = m]] /\ job[w] \in Job
    BY <1>1, <1>2 DEF SellStored
  <2>2. QED
    BY <1>1, <2>1 DEF Job
<1>8. \A v \in Op : Mine(v)'
  <2>1. Selling(w)' /\ todo'[w] \notin {TBF, TF}
    BY <1>6, ListsGive DEF Selling
  <2>2. QED
    BY <1>1, <1>3, <1>5, <1>6, <1>7, <2>1, MineNext
<1>9. IsSold' <=> IsSold
  BY <1>3, <1>5 DEF IsSold
<1>10. ASSUME NEW v \in Op, Doing(v, "finish") PROVE Doing(v, "finish")'
  <2>1. v # w
    BY <1>4, <1>10 DEF Doing
  <2>2. QED
    BY <1>6, <1>10, <2>1 DEF Doing
<1>11. raced => raced'
  BY Zenon DEF SellStored, Race
<1>12. IsSold => status = "checked_out" \/ raced' \/ cut' \/ \E v \in Op : Doing(v, "finish")'
  <2>1. (\E v \in Op : Doing(v, "finish")) => \E v \in Op : Doing(v, "finish")'
    BY <1>10
  <2>2. IsSold => status = "checked_out" \/ raced \/ cut \/ \E v \in Op : Doing(v, "finish")
    BY SoldIs
  <2>3. cut => cut'
    BY <1>4
  <2>4. QED
    BY <1>11, <2>1, <2>2, <2>3, Zenon
<1>13. QED
  BY <1>4, <1>8, <1>9, <1>12, SoldIs

\* One that is deducted is not booked yet.
LEMMA DeductSold ==
  ASSUME Shape, Sold, NEW w \in Op, DeductStored(w)
  PROVE  Sold'
<1>1. /\ sale \in Seq(Sale) /\ job \in [Op -> Job] /\ todo \in [Op -> Seq(Step)]
      /\ OnPlan(w) /\ \A v \in Op : Mine(v)
  BY SoldIs DEF Shape, TypeOK
<1>2. Doing(w, "deduct") /\ UNCHANGED <<status, raced, cut, job>>
  BY DEF DeductStored
<1>3. todo[w] = TDBF /\ todo'[w] = TBF /\ \A v \in Op \ {w} : todo'[v] = todo[v]
  <2>1. todo[w] = TDBF
    BY <1>1, <1>2, DoingGives
  <2>2. QED
    BY <1>1, <2>1, ListsGive DEF DeductStored, Advance
<1>4. PICK k : k = job[w].sale
  OBVIOUS
<1>5. k \in DOMAIN sale /\ k # 0 /\ ~sale[k].booked
  <2>1. TDBF # TF
    BY ListsGive
  <2>2. QED
    BY <1>1, <1>3, <1>4, <2>1 DEF Mine, Selling
<1>6. sale[k] \in Sale
  BY <1>1, <1>5, LenProperties, ElementOfSeq
<1>7. /\ DOMAIN sale' = DOMAIN sale /\ \A i \in DOMAIN sale \ {k} : sale'[i] = sale[i]
      /\ sale'[k].stock = TRUE /\ sale'[k].booked = sale[k].booked
  <2>1. sale' = [sale EXCEPT ![k] = [sale[k] EXCEPT !.stock = TRUE]]
    BY <1>4, <1>5 DEF DeductStored
  <2>2. sale'[k] = [sale[k] EXCEPT !.stock = TRUE]
    BY <1>5, <2>1
  <2>3. QED
    BY <1>6, <2>1, <2>2 DEF Sale
<1>8. \A v \in Op : Mine(v)'
  <2>1. Selling(w)' /\ todo'[w] # TF
    BY <1>3, ListsGive DEF Selling
  <2>2. QED
    BY <1>1, <1>2, <1>3, <1>4, <1>5, <1>7, <2>1, MineNext
<1>9. IsSold' <=> IsSold
  BY <1>5, <1>7 DEF IsSold, Complete
<1>10. ASSUME NEW v \in Op, Doing(v, "finish") PROVE Doing(v, "finish")'
  <2>1. v # w
    BY <1>2, <1>10 DEF Doing
  <2>2. QED
    BY <1>3, <1>10, <2>1 DEF Doing
<1>11. IsSold => status = "checked_out" \/ raced \/ cut \/ \E v \in Op : Doing(v, "finish")'
  <2>1. (\E v \in Op : Doing(v, "finish")) => \E v \in Op : Doing(v, "finish")'
    BY <1>10
  <2>2. QED
    BY <2>1, SoldIs, Zenon
<1>12. QED
  BY <1>2, <1>8, <1>9, <1>11, SoldIs

\* Once it is booked only the cart's closing is left.
LEMMA BookSold ==
  ASSUME Shape, Sold, NEW w \in Op, BookStored(w)
  PROVE  Sold'
<1>1. /\ sale \in Seq(Sale) /\ job \in [Op -> Job] /\ todo \in [Op -> Seq(Step)]
      /\ OnPlan(w) /\ \A v \in Op : Mine(v)
  BY SoldIs DEF Shape, TypeOK
<1>2. Doing(w, "book") /\ UNCHANGED <<status, raced, cut, job>>
  BY DEF BookStored
<1>3. todo[w] = TBF /\ todo'[w] = TF /\ \A v \in Op \ {w} : todo'[v] = todo[v]
  <2>1. todo[w] = TBF
    BY <1>1, <1>2, DoingGives
  <2>2. QED
    BY <1>1, <2>1, ListsGive DEF BookStored, Advance
<1>4. PICK k : k = job[w].sale
  OBVIOUS
<1>5. k \in DOMAIN sale /\ k # 0 /\ sale[k].stock
  BY <1>1, <1>3, <1>4 DEF Mine, Selling
<1>6. sale[k] \in Sale
  BY <1>1, <1>5, LenProperties, ElementOfSeq
<1>7. /\ DOMAIN sale' = DOMAIN sale /\ \A i \in DOMAIN sale \ {k} : sale'[i] = sale[i]
      /\ sale'[k].booked = TRUE /\ sale'[k].stock = sale[k].stock
  <2>1. sale' = [sale EXCEPT ![k] = [sale[k] EXCEPT !.booked = TRUE]]
    BY <1>4, <1>5 DEF BookStored
  <2>2. sale'[k] = [sale[k] EXCEPT !.booked = TRUE]
    BY <1>5, <2>1
  <2>3. QED
    BY <1>6, <2>1, <2>2 DEF Sale
<1>8. \A v \in Op : Mine(v)'
  <2>1. Selling(w)'
    BY <1>3 DEF Selling
  <2>2. job'[w].sale = k /\ sale'[k].booked /\ sale'[k].stock /\ k \in DOMAIN sale'
    BY <1>2, <1>4, <1>5, <1>7
  <2>3. \A v \in Op \ {w} : job'[v] = job[v] /\ todo'[v] = todo[v]
    BY <1>2, <1>3
  <2>4. QED
    BY <1>1, <1>3, <1>4, <1>5, <1>7, <2>1, <2>2, <2>3, MineNext
<1>9. IsSold'
  BY <1>5, <1>7 DEF IsSold, Complete
<1>10. Doing(w, "finish")'
  BY <1>3, ListsGive DEF Doing
<1>11. QED
  BY <1>8, <1>9, <1>10, SoldIs

\* The cart is closed after its sale is deducted and booked.
LEMMA FinishSold ==
  ASSUME Shape, Sold, NEW w \in Op, FinishStored(w)
  PROVE  Sold'
<1>1. /\ job \in [Op -> Job] /\ OnPlan(w) /\ \A v \in Op : Mine(v)
  BY SoldIs DEF Shape, TypeOK
<1>2. Doing(w, "finish") /\ Leave(w) /\ sale' = sale /\ status' = "checked_out"
  BY DEF FinishStored
<1>3. todo[w] = TF
  BY <1>1, <1>2, DoingGives
<1>4. IsSold'
  <2>1. Selling(w)
    BY <1>3 DEF Selling
  <2>2. job[w].sale \in DOMAIN sale /\ Complete(sale[job[w].sale])
    BY <1>1, <1>3, <2>1 DEF Mine, Complete
  <2>3. QED
    BY <1>2, <2>2 DEF IsSold
<1>5. \A v \in Op : Mine(v)'
  BY <1>1, <1>2, NoSale, MineNext
<1>6. QED
  BY <1>2, <1>4, <1>5, SoldIs

\* The sweep saw the cart active: unless it raced, no complete sale was closing.
LEMMA SweepSold ==
  ASSUME Shape, Sold, NEW w \in Op, Sweep(w)
  PROVE  Sold'
<1>1. Doing(w, "write") /\ Leave(w) /\ sale' = sale /\ status' = "expired" /\ cut' = cut
  BY DEF Sweep
<1>2. \A v \in Op : Mine(v)'
  BY <1>1, SoldIs, NoSale, MineNext
<1>3. ASSUME NEW v \in Op, Doing(v, "finish") PROVE Doing(v, "finish")'
  <2>1. v # w
    BY <1>1, <1>3 DEF Doing
  <2>2. todo'[v] = todo[v]
    BY <1>1, <2>1, NoSale
  <2>3. QED
    BY <1>3, <2>2 DEF Doing
<1>4. raced => raced'
  BY Zenon DEF Sweep
<1>5. status = "checked_out" => raced'
  <2>1. got[w].status = "active"
    BY DEF Sweep, Shape, Informed
  <2>2. got[w].status # status => raced'
    BY Zenon DEF Sweep
  <2>3. QED
    BY <2>1, <2>2
<1>6. IsSold => raced' \/ cut' \/ \E v \in Op : Doing(v, "finish")'
  <2>1. (\E v \in Op : Doing(v, "finish")) => \E v \in Op : Doing(v, "finish")'
    BY <1>3
  <2>2. IsSold => status = "checked_out" \/ raced \/ cut \/ \E v \in Op : Doing(v, "finish")
    BY SoldIs
  <2>3. cut => cut'
    BY <1>1
  <2>4. QED
    BY <1>4, <1>5, <2>1, <2>2, <2>3, Zenon
<1>7. IsSold' <=> IsSold
  BY <1>1 DEF IsSold
<1>8. QED
  BY <1>1, <1>2, <1>6, <1>7, SoldIs

\* A death after the sale leaves its cart open, and is noted.
LEMMA StopSold ==
  ASSUME Shape, Sold, NEW w \in Op, Stop(w)
  PROVE  Sold'
<1>1. Leave(w) /\ UNCHANGED <<status, sale, raced>>
  BY DEF Stop
<1>2. (cut => cut') /\ (job[w].sale # 0 => cut')
  BY Zenon DEF Stop
<1>3. \A v \in Op : Mine(v)'
  BY <1>1, SoldIs, NoSale, MineNext
<1>4. ASSUME NEW v \in Op, Doing(v, "finish") PROVE Doing(v, "finish")' \/ cut'
  <2>1. CASE v = w
    <3>1. todo[w] = TF
      BY <1>4, <2>1, ShapeTypes, DoingGives
    <3>2. job[w].sale # 0
      BY <3>1, SoldIs DEF Mine, Selling
    <3>3. QED
      BY <1>2, <3>2
  <2>2. CASE v # w
    <3>1. todo'[v] = todo[v]
      BY <1>1, <2>2, NoSale
    <3>2. QED
      BY <1>4, <3>1 DEF Doing
  <2>3. QED
    BY <2>1, <2>2
<1>5. IsSold => status = "checked_out" \/ raced \/ cut' \/ \E v \in Op : Doing(v, "finish")'
  <2>1. (\E v \in Op : Doing(v, "finish")) => cut' \/ \E v \in Op : Doing(v, "finish")'
    BY <1>4
  <2>2. QED
    BY <1>2, <2>1, SoldIs, Zenon
<1>6. IsSold' <=> IsSold
  BY <1>1 DEF IsSold
<1>7. QED
  BY <1>1, <1>3, <1>5, <1>6, SoldIs

\* No step disturbs the third layer.
LEMMA SoldStep ==
  ASSUME Shape, Books, Sold, [Next]_vars
  PROVE  Sold'
<1>1. ASSUME NEW w \in Op, Start(w) PROVE Sold'
  BY <1>1, StartSold
<1>2. ASSUME NEW w \in Op,
             \/ ReadCart(w) \/ ReadLines(w) \/ ValidateCoupon(w) \/ TallyCoupon(w)
             \/ CountCoupon(w) \/ Add(w) \/ Remove(w) \/ Void(w) \/ Clear(w) \/ Log(w)
      PROVE  Sold'
  BY <1>2, AsideSold
<1>3. ASSUME NEW w \in Op, Checkout(w) PROVE Sold'
  BY <1>3, CheckoutSold
<1>4. ASSUME NEW w \in Op, SellStored(w) \/ DeductStored(w) \/ BookStored(w) PROVE Sold'
  BY <1>4, SellSold, DeductSold, BookSold
<1>5. ASSUME NEW w \in Op, FinishStored(w) \/ Sweep(w) \/ Stop(w) PROVE Sold'
  BY <1>5, FinishSold, SweepSold, StopSold
<1>6. CASE UNCHANGED vars
  BY <1>6 DEF Sold, CheckedOutIsSold, Mine, Selling, Doing, vars
<1>7. QED
  BY <1>1, <1>2, <1>3, <1>4, <1>5, <1>6 DEF Next

\* At first nothing is sold.
LEMMA SoldInit ==
  ASSUME Init
  PROVE  Sold
<1>1. ~IsSold /\ status # "checked_out"
  <2>1. DOMAIN sale = {}
    BY DEF Init
  <2>2. QED
    BY <2>1 DEF IsSold, Init
<1>2. ASSUME NEW w \in Op PROVE Mine(w)
  <2>1. todo[w] = <<>> /\ job[w].sale = 0
    BY DEF Init, Idle
  <2>2. ~Selling(w)
    BY <2>1, ListsGive DEF Selling
  <2>3. QED
    BY <2>1, <2>2 DEF Mine
<1>3. QED
  BY <1>1, <1>2, SoldIs

-----------------------------------------------------------------------------
(* The fourth layer: the coupon.                                           *)

\* Both sets are finite.
LEMMA Finite == Shape =>
  /\ IsFiniteSet(WithCoupon) /\ Cardinality(WithCoupon) \in Nat
  /\ IsFiniteSet(Due) /\ Cardinality(Due) \in Nat
<1>1. SUFFICES ASSUME Shape
               PROVE  /\ IsFiniteSet(WithCoupon) /\ Cardinality(WithCoupon) \in Nat
                      /\ IsFiniteSet(Due) /\ Cardinality(Due) \in Nat
  OBVIOUS
<1>2. IsFiniteSet(WithCoupon)
  <2>1. PICK n : n = Len(sale)
    OBVIOUS
  <2>2. n \in Nat /\ DOMAIN sale = 1 .. n
    BY <1>1, <2>1, ShapeTypes, LenProperties
  <2>3. n \in Int /\ 1 \in Int
    BY <2>2
  <2>4. IsFiniteSet(1 .. n)
    BY <2>3, FS_Interval
  <2>5. WithCoupon \in SUBSET (1 .. n)
    BY <2>2 DEF WithCoupon
  <2>6. QED
    BY <2>4, <2>5, FS_Subset
<1>3. IsFiniteSet(Due)
  <2>1. Due \in SUBSET Op /\ IsFiniteSet(Op)
    BY CartsAssumption DEF Due
  <2>2. QED
    BY <2>1, FS_Subset
<1>4. QED
  BY <1>2, <1>3, FS_CardinalityType

\* Also after a step.
LEMMA FiniteNext == Shape' =>
  /\ Cardinality(WithCoupon)' \in Nat /\ Cardinality(Due)' \in Nat
<1>1. Shape' => (/\ IsFiniteSet(WithCoupon) /\ Cardinality(WithCoupon) \in Nat
                 /\ IsFiniteSet(Due) /\ Cardinality(Due) \in Nat)'
  BY Finite, PTL
<1>2. QED
  BY <1>1

\* Only the operation that steps comes into the second set or leaves it.
LEMMA DueNext ==
  ASSUME NEW w \in Op, \A v \in Op \ {w} : job'[v] = job[v] /\ todo'[v] = todo[v]
  PROVE  /\ w \in Due' => Due' = Due \cup {w}
         /\ w \notin Due' => Due' = Due \ {w}
<1>1. \A v \in Op \ {w} : v \in Due' <=> v \in Due
  BY DEF Due
<1>2. Due \subseteq Op /\ Due' \subseteq Op
  BY DEF Due
<1>3. QED
  BY <1>1, <1>2

\* The coupon after a step of one operation.
LEMMA CountedNext ==
  ASSUME Counted, NEW w \in Op,
         \A v \in Op \ {w} : todo'[v] = todo[v] /\ got'[v] = got[v],
         ~rushed' => /\ ~rushed
                     /\ todo'[w] \in {TTNW, TNW, TTNS, TNS} => Valid(got'[w].used)
                     /\ Uses > 0 => used' <= Uses
                     /\ Cardinality(WithCoupon)' + Cardinality(Due)' <= used'
  PROVE  Counted'
<1>1. ASSUME ~rushed', NEW v \in Op, todo'[v] \in {TTNW, TNW, TTNS, TNS}
      PROVE  Valid(got'[v].used)
  <2>1. CASE v = w
    BY <1>1, <2>1
  <2>2. CASE v # w
    <3>1. todo'[v] = todo[v] /\ got'[v] = got[v] /\ ~rushed
      BY <1>1, <2>2
    <3>2. QED
      BY <1>1, <3>1 DEF Counted
  <2>3. QED
    BY <2>1, <2>2
<1>2. ASSUME NEW v \in Op PROVE Valid(got[v].used)' <=> Valid(got'[v].used)
  BY DEF Valid
<1>3. QED
  BY <1>1, <1>2 DEF Counted

\* A step that sells nothing, counts nothing, and after which nothing is due.
LEMMA CountedKept ==
  ASSUME Shape, Shape', Counted, NEW w \in Op,
         \A v \in Op \ {w} : job'[v] = job[v] /\ todo'[v] = todo[v] /\ got'[v] = got[v],
         used' = used, WithCoupon' = WithCoupon, w \notin Due',
         ~rushed' => /\ ~rushed
                     /\ todo'[w] \in {TTNW, TNW, TTNS, TNS} => Valid(got'[w].used)
  PROVE  Counted'
<1>1. ASSUME ~rushed'
      PROVE  /\ Uses > 0 => used' <= Uses
             /\ Cardinality(WithCoupon)' + Cardinality(Due)' <= used'
  <2>1. /\ Uses > 0 => used <= Uses
        /\ Cardinality(WithCoupon) + Cardinality(Due) <= used
    BY <1>1 DEF Counted
  <2>2. Due' = Due \ {w}
    BY DueNext
  <2>3. Cardinality(Due \ {w}) <= Cardinality(Due)
    BY Finite, FS_Subset
  <2>4. PICK a, b, c : /\ a = Cardinality(WithCoupon) /\ b = Cardinality(Due)
                       /\ c = Cardinality(Due \ {w})
    OBVIOUS
  <2>5. a \in Nat /\ b \in Nat /\ c \in Nat /\ used \in Nat
    BY <2>2, <2>4, Finite, FiniteNext, ShapeTypes
  <2>6. a + c <= used
    BY <2>1, <2>3, <2>4, <2>5
  <2>7. Cardinality(WithCoupon)' = a /\ Cardinality(Due)' = c
    BY <2>2, <2>4
  <2>8. QED
    BY <2>1, <2>6, <2>7
<1>2. QED
  BY <1>1, CountedNext

\* Only readings lead to a tally, and only a count makes a sale due.
LEMMA Afterwards ==
  ASSUME Shape, NEW w \in Op, NEW x \in Step, Doing(w, x), Advance(w),
         job'[w].coupon = job[w].coupon
  PROVE  /\ x # "count" => w \notin Due'
         /\ x \notin {"coupon", "tally"} => todo'[w] \notin {TTNW, TNW, TTNS, TNS}
<1>1. todo \in [Op -> Seq(Step)] /\ OnPlan(w) /\ job \in [Op -> Job] /\ Head(todo[w]) = x
  BY DEF Shape, TypeOK, Doing
<1>2. todo'[w] = Tail(todo[w])
  BY <1>1 DEF Advance
<1>3. x \notin {"coupon", "tally"} => todo'[w] \notin {TTNW, TNW, TTNS, TNS}
  <2>1. SUFFICES ASSUME x \notin {"coupon", "tally"}
                 PROVE  Tail(todo[w]) \notin {TTNW, TNW, TTNS, TNS}
    BY <1>2
  <2>2. CASE x = "cart"
    <3>1. todo[w] \in {TCLW, TCLWG, TCW, TCVTNW, TCLSDBF, TCLVTNS}
      BY <1>1, <2>2, DoingGives
    <3>2. Head(Tail(todo[w])) \in {"lines", "write", "coupon"}
      BY ZenonT(60), <3>1, ListsGive
    <3>3. QED
      BY <3>2, ListsGive
  <2>3. CASE x = "lines"
    <3>1. todo[w] \in {TLW, TLWG, TLSDBF, TLVTNS}
      BY <1>1, <2>3, DoingGives
    <3>2. Head(Tail(todo[w])) \in {"write", "sale", "coupon"}
      BY ZenonT(60), <3>1, ListsGive
    <3>3. QED
      BY <3>2, ListsGive
  <2>4. CASE x = "count"
    <3>1. todo[w] \in {TNW, TNS}
      BY <1>1, <2>4, DoingGives
    <3>2. Head(Tail(todo[w])) \in {"write", "sale"}
      BY ZenonT(60), <3>1, ListsGive
    <3>3. QED
      BY <3>2, ListsGive
  <2>5. CASE x \in {"write", "log", "finish"}
    <3>1. todo[w] \in {TW, TWG, TG, TF}
      BY <1>1, <2>5, DoingGives
    <3>2. Tail(todo[w]) = <<>> \/ Head(Tail(todo[w])) = "log"
      BY ZenonT(60), <3>1, ListsGive
    <3>3. QED
      BY ZenonT(60), <3>2, ListsGive
  <2>6. CASE x \in {"sale", "deduct", "book"}
    <3>1. todo[w] \in {TSDBF, TDBF, TBF}
      BY <1>1, <2>6, DoingGives
    <3>2. Head(Tail(todo[w])) \in {"deduct", "book", "finish"}
      BY <3>1, ListsGive
    <3>3. QED
      BY <3>2, ListsGive
  <2>7. QED
    BY <2>1, <2>2, <2>3, <2>4, <2>5, <2>6 DEF Step
<1>4. ASSUME x # "count", job[w].coupon PROVE Tail(todo[w]) \notin {TW, TSDBF}
  <2>1. CASE x = "cart"
    <3>1. todo[w] \in {TCVTNW, TCLVTNS}
      <4>1. todo[w] \in {TCLW, TCLWG, TCW, TCVTNW, TCLSDBF, TCLVTNS}
            /\ job[w].kind \in {"checkout", "stored"}
        BY <1>1, <1>4, <2>1, DoingGives DEF OnPlan
      <4>2. CASE job[w].kind = "checkout"
        BY ZenonT(60), <1>1, <1>4, <2>1, <4>1, <4>2, ListsGive DEF OnPlan
      <4>3. CASE job[w].kind = "stored"
        BY ZenonT(60), <1>1, <1>4, <2>1, <4>1, <4>3, ListsGive DEF OnPlan
      <4>4. QED
        BY <4>1, <4>2, <4>3
    <3>2. Head(Tail(todo[w])) \in {"lines", "coupon"}
      BY <3>1, ListsGive
    <3>3. QED
      BY <3>2, ListsGive
  <2>2. CASE x = "lines"
    <3>1. todo[w] = TLVTNS
      <4>1. job[w].kind = "stored"
        BY <1>1, <1>4, <2>2, DoingGives DEF OnPlan
      <4>2. QED
        BY ZenonT(60), <1>1, <1>4, <2>2, <4>1, ListsGive DEF OnPlan
    <3>2. Head(Tail(todo[w])) = "coupon"
      BY <3>1, ListsGive
    <3>3. QED
      BY <3>2, ListsGive
  <2>3. CASE x \in {"coupon", "tally"}
    <3>1. todo[w] \in {TVTNW, TVTNS, TTNW, TTNS}
      BY <1>1, <2>3, DoingGives
    <3>2. Head(Tail(todo[w])) \in {"tally", "count"}
      BY ZenonT(60), <3>1, ListsGive
    <3>3. QED
      BY <3>2, ListsGive
  <2>4. CASE x \in {"write", "log", "finish"}
    <3>1. todo[w] \in {TW, TWG, TG, TF}
      BY <1>1, <2>4, DoingGives
    <3>2. Tail(todo[w]) = <<>> \/ Head(Tail(todo[w])) = "log"
      BY ZenonT(60), <3>1, ListsGive
    <3>3. QED
      BY <3>2, ListsGive
  <2>5. CASE x \in {"sale", "deduct", "book"}
    <3>1. todo[w] \in {TSDBF, TDBF, TBF}
      BY <1>1, <2>5, DoingGives
    <3>2. Head(Tail(todo[w])) \in {"deduct", "book", "finish"}
      BY <3>1, ListsGive
    <3>3. QED
      BY <3>2, ListsGive
  <2>6. QED
    BY <1>4, <2>1, <2>2, <2>3, <2>4, <2>5 DEF Step
<1>5. QED
  BY <1>2, <1>3, <1>4 DEF Due

\* A checkout that is not about to sell with the coupon is not due once it ends.
LEMMA NotDue ==
  ASSUME Shape, NEW w \in Op, Leave(w)
  PROVE  /\ \A v \in Op \ {w} : job'[v] = job[v] /\ todo'[v] = todo[v] /\ got'[v] = got[v]
         /\ w \notin Due' /\ todo'[w] \notin {TTNW, TNW, TTNS, TNS}
<1>1. /\ \A v \in Op \ {w} : job'[v] = job[v] /\ todo'[v] = todo[v] /\ got'[v] = got[v]
      /\ todo'[w] = <<>>
  BY LeaveGives
<1>2. todo'[w] \notin {TTNW, TNW, TTNS, TNS, TW, TSDBF}
  BY <1>1, ListsGive
<1>3. QED
  BY <1>1, <1>2 DEF Due

\* The coupon when an operation arrives.
LEMMA StartCounted ==
  ASSUME Shape, Shape', Counted, NEW w \in Op, Start(w)
  PROVE  Counted'
<1>1. job \in [Op -> Job] /\ todo \in [Op -> Seq(Step)]
  BY DEF Shape, TypeOK
<1>2. PICK k \in {TCLW, TLW, TLWG, TCLWG, TCVTNW, TCW, TCLVTNS, TCLSDBF} : \E i : Begin(w, i, k)
  BY CheckoutLists DEF Start, TCLW, TLW, TLWG, TCLWG, TCW
<1>2a. PICK j : Begin(w, j, k)
  BY <1>2
<1>3. /\ \A v \in Op \ {w} : job'[v] = job[v] /\ todo'[v] = todo[v] /\ got'[v] = got[v]
      /\ UNCHANGED <<used, sale, rushed>> /\ todo'[w] = k
  BY <1>1, <1>2a DEF Begin
<1>4. todo'[w] \notin {TTNW, TNW, TTNS, TNS, TW, TSDBF}
  <2>1. Head(k) \in {"cart", "lines"}
    BY ZenonT(60), ListsGive
  <2>2. QED
    BY <1>3, <2>1, ListsGive
<1>5. w \notin Due' /\ WithCoupon' = WithCoupon
  BY <1>3, <1>4 DEF Due, WithCoupon
<1>6. QED
  BY <1>3, <1>4, <1>5, CountedKept

\* A validation sees a use left, and a tally that is not rushed still does.
LEMMA ReadCounted ==
  ASSUME Shape, Shape', Counted, NEW w \in Op,
         ReadCart(w) \/ ReadLines(w) \/ ValidateCoupon(w) \/ TallyCoupon(w)
  PROVE  Counted'
<1>1. job \in [Op -> Job] /\ got \in [Op -> Memory] /\ todo \in [Op -> Seq(Step)] /\ OnPlan(w)
  BY ShapeTypes
<1>2. PICK x \in {"cart", "lines", "coupon", "tally"} : Doing(w, x)
      /\ (x \in {"cart", "lines"} \/ ValidateCoupon(w) \/ TallyCoupon(w))
  BY DEF ReadCart, ReadLines, ValidateCoupon, TallyCoupon
<1>3. x \in Step /\ Advance(w) /\ UNCHANGED <<used, sale, job>>
  BY <1>2 DEF ReadCart, ReadLines, ValidateCoupon, TallyCoupon, Step
<1>4. w \notin Due' /\ WithCoupon' = WithCoupon
  <2>1. x # "count" /\ job'[w].coupon = job[w].coupon
    BY <1>2, <1>3
  <2>2. w \notin Due'
    BY <1>2, <1>3, <2>1, Afterwards
  <2>3. QED
    BY <1>3, <2>2 DEF WithCoupon
<1>5. \A v \in Op \ {w} : job'[v] = job[v] /\ todo'[v] = todo[v] /\ got'[v] = got[v]
  <2>1. \A v \in Op \ {w} : got'[v] = got[v]
    BY <1>1 DEF ReadCart, ReadLines, ValidateCoupon, TallyCoupon
  <2>2. QED
    BY <1>1, <1>3, <2>1 DEF Advance
<1>6. rushed => rushed'
  BY Zenon DEF ReadCart, ReadLines, ValidateCoupon, TallyCoupon
<1>7. ASSUME ~rushed', todo'[w] \in {TTNW, TNW, TTNS, TNS} PROVE Valid(got'[w].used)
  <2>1. ~rushed
    BY <1>6, <1>7
  <2>2. x \in {"coupon", "tally"}
    BY <1>2, <1>3, <1>7, Afterwards
  <2>3. got' = [got EXCEPT ![w] = [got[w] EXCEPT !.used = used]] /\ got[w] \in Memory
    BY <1>1, <1>2, <2>2 DEF ValidateCoupon, TallyCoupon
  <2>4. got'[w].used = used
    BY <1>1, <2>3 DEF Memory
  <2>5. CASE ValidateCoupon(w)
    BY <2>4, <2>5 DEF ValidateCoupon
  <2>6. CASE TallyCoupon(w)
    <3>1. got[w].used = used
      BY <1>7, <2>6, Zenon DEF TallyCoupon
    <3>2. todo[w] \in {TTNW, TTNS}
      BY <1>1, <2>6, DoingGives DEF TallyCoupon
    <3>3. Valid(got[w].used)
      BY <2>1, <3>2 DEF Counted
    <3>4. QED
      BY <2>4, <3>1, <3>3
  <2>7. QED
    BY <1>2, <2>2, <2>5, <2>6
<1>8. used' = used
  BY <1>3
<1>9. QED
  BY <1>4, <1>5, <1>6, <1>7, <1>8, CountedKept

\* A count that is not rushed takes a use that is left, for a sale to come.
LEMMA CountCounted ==
  ASSUME Shape, Shape', Counted, NEW w \in Op, CountCoupon(w)
  PROVE  Counted'
<1>1. job \in [Op -> Job] /\ got \in [Op -> Memory] /\ todo \in [Op -> Seq(Step)] /\ OnPlan(w)
      /\ used \in Nat
  BY ShapeTypes
<1>2. Doing(w, "count") /\ Advance(w) /\ UNCHANGED <<sale, job, got>> /\ "count" \in Step
  BY DEF CountCoupon, Step
<1>3. todo[w] \in {TNW, TNS} /\ job[w].coupon
  BY <1>1, <1>2, DoingGives
<1>4. todo'[w] \notin {TTNW, TNW, TTNS, TNS}
  BY <1>2, Afterwards
<1>5. todo'[w] \in {TW, TSDBF}
  BY <1>1, <1>2, <1>3, ListsGive DEF Advance
<1>6. w \in Due' /\ w \notin Due
  <2>1. todo[w] \notin {TW, TSDBF}
    BY ZenonT(60), <1>3, ListsGive
  <2>2. QED
    BY <1>2, <1>3, <1>5, <2>1 DEF Due
<1>7. \A v \in Op \ {w} : job'[v] = job[v] /\ todo'[v] = todo[v] /\ got'[v] = got[v]
  BY <1>1, <1>2 DEF Advance
<1>8. ASSUME ~rushed'
      PROVE  /\ ~rushed
             /\ Uses > 0 => used' <= Uses
             /\ Cardinality(WithCoupon)' + Cardinality(Due)' <= used'
  <2>1. ~rushed /\ got[w].used = used
    BY <1>8, Zenon DEF CountCoupon
  <2>2. used' = used + 1
    BY <2>1 DEF CountCoupon
  <2>3. Valid(used) /\ Cardinality(WithCoupon) + Cardinality(Due) <= used
    BY <1>3, <2>1 DEF Counted
  <2>4. Uses > 0 => used' <= Uses
    BY <1>1, <2>2, <2>3, CartsAssumption DEF Valid
  <2>5. Due' = Due \cup {w}
    BY <1>6, <1>7, DueNext
  <2>6. Cardinality(Due \cup {w}) = Cardinality(Due) + 1
    BY <1>6, Finite, FS_AddElement
  <2>7. PICK a, b, c : /\ a = Cardinality(WithCoupon) /\ b = Cardinality(Due)
                       /\ c = Cardinality(Due \cup {w})
    OBVIOUS
  <2>8. a \in Nat /\ b \in Nat /\ c = b + 1 /\ a + b <= used
    BY <2>3, <2>6, <2>7, Finite
  <2>9. a + c <= used'
    BY <1>1, <2>2, <2>8
  <2>10. Cardinality(WithCoupon)' = a /\ Cardinality(Due)' = c
    BY <1>2, <2>5, <2>7 DEF WithCoupon
  <2>11. QED
    BY <2>1, <2>4, <2>9, <2>10
<1>9. QED
  BY <1>4, <1>7, <1>8, CountedNext

\* Lines, entries, statuses and deaths let go of the coupon at most.
LEMMA AsideCounted ==
  ASSUME Shape, Shape', Counted, NEW w \in Op,
         \/ Add(w) \/ Remove(w) \/ Void(w) \/ Clear(w) \/ Log(w)
         \/ FinishStored(w) \/ Sweep(w) \/ Stop(w)
  PROVE  Counted'
<1>1. job \in [Op -> Job] /\ todo \in [Op -> Seq(Step)] /\ OnPlan(w)
  BY ShapeTypes
<1>2. UNCHANGED <<used, sale, rushed>>
  BY DEF Add, Remove, Void, Clear, Log, FinishStored, Sweep, Stop
<1>3. WithCoupon' = WithCoupon
  BY <1>2 DEF WithCoupon
<1>4. CASE Leave(w)
  BY <1>2, <1>3, <1>4, NotDue, CountedKept
<1>5. CASE Void(w) \/ Clear(w)
  <2>1. Doing(w, "write") /\ Advance(w) /\ got' = got /\ "write" \in Step
    BY <1>5 DEF Void, Clear, Step
  <2>2. job'[w].coupon = job[w].coupon /\ \A v \in Op \ {w} : job'[v] = job[v]
    <3>1. job[w] \in Job
      BY <1>1
    <3>2. QED
      BY <1>1, <1>5, <3>1 DEF Void, Clear, Job
  <2>3. w \notin Due' /\ todo'[w] \notin {TTNW, TNW, TTNS, TNS}
    BY <2>1, <2>2, Afterwards
  <2>4. \A v \in Op \ {w} : job'[v] = job[v] /\ todo'[v] = todo[v] /\ got'[v] = got[v]
    BY <1>1, <2>1, <2>2 DEF Advance
  <2>5. QED
    BY <1>2, <1>3, <2>3, <2>4, CountedKept
<1>6. QED
  BY <1>4, <1>5 DEF Add, Remove, Void, Clear, Log, FinishStored, Sweep, Stop

\* Deducting and booking leave a sale's coupon as it is.
LEMMA BookCounted ==
  ASSUME Shape, Shape', Sold, Counted, NEW w \in Op, DeductStored(w) \/ BookStored(w)
  PROVE  Counted'
<1>1. /\ job \in [Op -> Job] /\ todo \in [Op -> Seq(Step)] /\ OnPlan(w) /\ sale \in Seq(Sale)
      /\ Mine(w)
  BY ShapeTypes, SoldIs
<1>2. PICK x \in {"deduct", "book"} : Doing(w, x)
  BY DEF DeductStored, BookStored
<1>3. x \in Step /\ Advance(w) /\ UNCHANGED <<used, rushed, job, got>>
  BY <1>2 DEF DeductStored, BookStored, Step
<1>4. PICK k : k = job[w].sale
  OBVIOUS
<1>5. k \in DOMAIN sale /\ sale[k] \in Sale
  <2>1. todo[w] \in {TDBF, TBF}
    BY <1>1, <1>2, DoingGives
  <2>2. k \in DOMAIN sale
    BY <1>1, <1>4, <2>1 DEF Mine, Selling
  <2>3. QED
    BY <1>1, <2>2, LenProperties, ElementOfSeq
<1>6. WithCoupon' = WithCoupon
  <2>1. \/ sale' = [sale EXCEPT ![k] = [sale[k] EXCEPT !.stock = TRUE]]
        \/ sale' = [sale EXCEPT ![k] = [sale[k] EXCEPT !.booked = TRUE]]
    BY <1>4, <1>5 DEF DeductStored, BookStored
  <2>2. DOMAIN sale' = DOMAIN sale /\ \A i \in DOMAIN sale : sale'[i].coupon = sale[i].coupon
    BY <1>5, <2>1 DEF Sale
  <2>3. QED
    BY <2>2 DEF WithCoupon
<1>7. w \notin Due' /\ todo'[w] \notin {TTNW, TNW, TTNS, TNS}
  BY <1>2, <1>3, Afterwards
<1>8. \A v \in Op \ {w} : job'[v] = job[v] /\ todo'[v] = todo[v] /\ got'[v] = got[v]
  BY <1>1, <1>3 DEF Advance
<1>9. QED
  BY <1>3, <1>6, <1>7, <1>8, CountedKept

\* A sale with the coupon was due.
LEMMA SellCounted ==
  ASSUME Shape, Shape', Counted, NEW w \in Op, Checkout(w) \/ SellStored(w)
  PROVE  Counted'
<1>1. /\ job \in [Op -> Job] /\ todo \in [Op -> Seq(Step)] /\ OnPlan(w) /\ sale \in Seq(Sale)
      /\ got \in [Op -> Memory] /\ used \in Nat
  BY ShapeTypes
<1>2. UNCHANGED <<used, rushed>>
  BY DEF Checkout, SellStored
<1>3. PICK s, m : /\ m = Len(sale) + 1 /\ sale' = Append(sale, s) /\ s.coupon = job[w].coupon
                  /\ s \in Sale
  <2>1. PICK s : /\ sale' = Append(sale, s)
                 /\ \/ s = [stock |-> TRUE, booked |-> TRUE, coupon |-> job[w].coupon]
                    \/ s = [stock |-> FALSE, booked |-> FALSE, coupon |-> job[w].coupon]
    BY DEF Checkout, SellStored
  <2>2. s.coupon = job[w].coupon /\ s \in Sale
    <3>1. PICK c \in BOOLEAN : c = job[w].coupon
      BY <1>1 DEF Job
    <3>2. /\ [stock |-> TRUE, booked |-> TRUE, coupon |-> c] \in Sale
          /\ [stock |-> FALSE, booked |-> FALSE, coupon |-> c] \in Sale
      BY DEF Sale
    <3>3. CASE s = [stock |-> TRUE, booked |-> TRUE, coupon |-> job[w].coupon]
      BY <3>1, <3>2, <3>3
    <3>4. CASE s = [stock |-> FALSE, booked |-> FALSE, coupon |-> job[w].coupon]
      BY <3>1, <3>2, <3>4
    <3>5. QED
      BY <2>1, <3>3, <3>4
  <2>3. QED
    BY <2>1, <2>2
<1>4. /\ m \notin DOMAIN sale /\ DOMAIN sale' = DOMAIN sale \cup {m}
      /\ sale'[m] = s /\ \A i \in DOMAIN sale : sale'[i] = sale[i]
  BY <1>1, <1>3, AppendGives
<1>5. /\ \A v \in Op \ {w} : job'[v] = job[v] /\ todo'[v] = todo[v] /\ got'[v] = got[v]
      /\ w \notin Due' /\ todo'[w] \notin {TTNW, TNW, TTNS, TNS}
  <2>1. CASE Checkout(w)
    BY <2>1, NotDue DEF Checkout
  <2>2. CASE SellStored(w)
    <3>1. Doing(w, "sale") /\ Advance(w) /\ got' = got /\ "sale" \in Step
          /\ job' = [job EXCEPT ![w].sale = Len(sale) + 1] /\ job[w] \in Job
      BY <1>1, <2>2 DEF SellStored, Step
    <3>2. job'[w].coupon = job[w].coupon /\ \A v \in Op \ {w} : job'[v] = job[v]
      BY <1>1, <3>1 DEF Job
    <3>3. w \notin Due' /\ todo'[w] \notin {TTNW, TNW, TTNS, TNS}
      BY <3>1, <3>2, Afterwards
    <3>4. QED
      BY <1>1, <3>1, <3>2, <3>3 DEF Advance
  <2>3. QED
    BY <2>1, <2>2
<1>6. CASE ~job[w].coupon
  <2>1. WithCoupon' = WithCoupon
    BY <1>3, <1>4, <1>6 DEF WithCoupon
  <2>2. QED
    BY <1>2, <1>5, <2>1, CountedKept
<1>7. CASE job[w].coupon
  <2>1. w \in Due
    <3>1. todo[w] \in {TW, TSDBF}
      BY <1>1, DoingGives DEF Checkout, SellStored
    <3>2. QED
      BY <1>7, <3>1 DEF Due
  <2>2. Due' = Due \ {w} /\ WithCoupon' = WithCoupon \cup {m} /\ m \notin WithCoupon
    <3>1. Due' = Due \ {w}
      BY <1>5, DueNext
    <3>2. WithCoupon' = WithCoupon \cup {m} /\ m \notin WithCoupon
      BY <1>3, <1>4, <1>7 DEF WithCoupon
    <3>3. QED
      BY <3>1, <3>2
  <2>3. ASSUME ~rushed'
        PROVE  /\ Uses > 0 => used' <= Uses
               /\ Cardinality(WithCoupon)' + Cardinality(Due)' <= used'
    <3>1. /\ Uses > 0 => used <= Uses
          /\ Cardinality(WithCoupon) + Cardinality(Due) <= used
      BY <1>2, <2>3 DEF Counted
    <3>2. /\ Cardinality(Due \ {w}) = Cardinality(Due) - 1
          /\ Cardinality(WithCoupon \cup {m}) = Cardinality(WithCoupon) + 1
      BY <2>1, <2>2, Finite, FS_AddElement, FS_RemoveElement
    <3>3. PICK a, b, c, d : /\ a = Cardinality(WithCoupon) /\ b = Cardinality(Due)
                            /\ c = Cardinality(WithCoupon \cup {m})
                            /\ d = Cardinality(Due \ {w})
      OBVIOUS
    <3>4. a \in Nat /\ b \in Nat /\ c = a + 1 /\ d = b - 1 /\ a + b <= used
      BY <3>1, <3>2, <3>3, Finite
    <3>5. c + d <= used
      BY <1>1, <3>4
    <3>6. Cardinality(WithCoupon)' = c /\ Cardinality(Due)' = d
      BY <2>2, <3>3
    <3>7. QED
      BY <1>2, <3>1, <3>5, <3>6
  <2>4. QED
    BY <1>2, <1>5, <2>3, CountedNext
<1>8. QED
  BY <1>6, <1>7

\* No step disturbs the fourth layer.
LEMMA CountedStep ==
  ASSUME Shape, Shape', Sold, Counted, [Next]_vars
  PROVE  Counted'
<1>1. ASSUME NEW w \in Op, Start(w) PROVE Counted'
  BY <1>1, StartCounted
<1>2. ASSUME NEW w \in Op, ReadCart(w) \/ ReadLines(w) \/ ValidateCoupon(w) \/ TallyCoupon(w)
      PROVE  Counted'
  BY <1>2, ReadCounted
<1>3. ASSUME NEW w \in Op, CountCoupon(w) PROVE Counted'
  BY <1>3, CountCounted
<1>4. ASSUME NEW w \in Op,
             \/ Add(w) \/ Remove(w) \/ Void(w) \/ Clear(w) \/ Log(w)
             \/ FinishStored(w) \/ Sweep(w) \/ Stop(w)
      PROVE  Counted'
  BY <1>4, AsideCounted
<1>5. ASSUME NEW w \in Op, Checkout(w) \/ SellStored(w) PROVE Counted'
  BY <1>5, SellCounted
<1>6. ASSUME NEW w \in Op, DeductStored(w) \/ BookStored(w) PROVE Counted'
  BY <1>6, BookCounted
<1>7. CASE UNCHANGED vars
  BY <1>7 DEF Counted, Valid, WithCoupon, Due, vars
<1>8. QED
  BY <1>1, <1>2, <1>3, <1>4, <1>5, <1>6, <1>7 DEF Next

\* At first the coupon is unused.
LEMMA CountedInit ==
  ASSUME Init
  PROVE  Counted
<1>1. WithCoupon = {} /\ Due = {}
  <2>1. \A w \in Op : todo[w] \notin {TW, TSDBF}
    BY ListsGive DEF Init
  <2>2. DOMAIN sale = {}
    BY DEF Init
  <2>3. QED
    BY <2>1, <2>2 DEF WithCoupon, Due
<1>2. \A w \in Op : todo[w] \notin {TTNW, TNW, TTNS, TNS}
  BY ListsGive DEF Init
<1>3. used = 0 /\ Cardinality({}) = 0 /\ Uses \in Nat
  BY FS_EmptySet, CartsAssumption DEF Init
<1>4. Cardinality(WithCoupon) + Cardinality(Due) <= used /\ (Uses > 0 => used <= Uses)
  BY <1>1, <1>3
<1>5. QED
  BY <1>2, <1>4 DEF Counted

-----------------------------------------------------------------------------
(* The theorems.                                                           *)

\* The four layers hold always, each by the ones before it.
THEOREM InvariantHolds == Spec => []IInv
<1>1. Init => IInv
  BY ShapeInit, BooksInit, SoldInit, CountedInit DEF IInv
<1>2. IInv /\ [Next]_vars => IInv'
  <2>1. SUFFICES ASSUME IInv, [Next]_vars PROVE IInv'
    OBVIOUS
  <2>2. Shape /\ Books /\ Sold /\ Counted
    BY <2>1 DEF IInv
  <2>3. Shape'
    BY <2>1, <2>2, ShapeStep
  <2>4. Books' /\ Sold' /\ Counted'
    BY <2>1, <2>2, <2>3, BooksStep, SoldStep, CountedStep
  <2>5. QED
    BY <2>3, <2>4 DEF IInv
<1>3. QED
  BY <1>1, <1>2, PTL DEF Spec

\* The cart, its lines, tallies, sales and operations keep their types.
THEOREM TypeCorrect == Spec => []TypeOK
<1>1. IInv => TypeOK
  BY DEF IInv, Shape
<1>2. QED
  BY <1>1, InvariantHolds, PTL

\* However add_to_cart, void_cart_item, clear_cart and the checkouts interleave, a
\* line that exists has units. Unless they raced, the lines are what was entered
\* less what was removed or voided, every voided unit is in the audit log, owed to
\* it or lost with a request that died, and an unsold cart has one line of a product.
THEOREM CartAccountedHolds == Spec => []CartAccounted
<1>1. IInv => CartAccounted
  BY DEF IInv, Books, Shape, Positive, CartAccounted
<1>2. QED
  BY <1>1, InvariantHolds, PTL

\* A cart is checked out once a sale of it is deducted and booked, and a complete
\* sale leaves it so, but for the noted exceptions (checkout_cart).
THEOREM CheckedOutIsSoldHolds == Spec => []CheckedOutIsSold
<1>1. IInv => CheckedOutIsSold
  BY DEF IInv, Sold
<1>2. QED
  BY <1>1, InvariantHolds, PTL

\* Unless two checkouts used the coupon at the same time, it is counted for each
\* sale that had it and never beyond its limit (validate_coupon,
\* increment_coupon_usage).
THEOREM CouponWithinLimitHolds == Spec => []CouponWithinLimit
<1>1. ASSUME IInv PROVE CouponWithinLimit
  <2>1. SUFFICES ASSUME ~rushed
                 PROVE  (Uses > 0 => used <= Uses) /\ Cardinality(WithCoupon) <= used
    BY DEF CouponWithinLimit, WithCoupon
  <2>2. /\ Uses > 0 => used <= Uses
        /\ Cardinality(WithCoupon) + Cardinality(Due) <= used
    BY <1>1, <2>1 DEF IInv, Counted
  <2>3. PICK a, b : a = Cardinality(WithCoupon) /\ b = Cardinality(Due)
    OBVIOUS
  <2>4. a \in Nat /\ b \in Nat /\ used \in Nat /\ a + b <= used
    BY <1>1, <2>2, <2>3, Finite, ShapeTypes DEF IInv
  <2>5. a <= used
    BY <2>4
  <2>6. QED
    BY <2>2, <2>3, <2>5
<1>2. IInv => CouponWithinLimit
  BY <1>1
<1>3. QED
  BY <1>2, InvariantHolds, PTL

=============================================================================
