---------------------------- MODULE PosSalesProofs ----------------------------
(***************************************************************************)
(* The point of sale, for any number of products, branches, sales and      *)
(* requests in flight, and baskets of any lines: where the units of a      *)
(* product went, what refunds of refunds bring back, and receipt numbers.  *)
(***************************************************************************)
EXTENDS PosSales, Sums, SequenceTheorems, TLAPS

SoldRows   == {x \in Rows : Sold(x)}
SalesOf(b) == {x \in Rows : Sold(x) /\ sale[x].branch = b}

-----------------------------------------------------------------------------
(***************************************************************************)
(* Units of a product in lines.                                            *)
(***************************************************************************)
QtyOf(lines)     == [l \in DOMAIN lines |-> lines[l].qty]
LinesOf(lines, p) == {l \in DOMAIN lines : lines[l].product = p}

LEMMA UnitsAreSums ==
  ASSUME NEW lines \in Seq(Line), NEW p
  PROVE  /\ Units(lines, p) = SumFunctionOnSet(QtyOf(lines), LinesOf(lines, p))
         /\ IsFiniteSet(LinesOf(lines, p))
         /\ \A l \in LinesOf(lines, p) : QtyOf(lines)[l] = lines[l].qty /\ lines[l].qty \in Int
         /\ Units(lines, p) \in Int
<1>1. Units(lines, p) = SumFunctionOnSet(QtyOf(lines), LinesOf(lines, p))
  BY DEF Units, QtyOf, LinesOf
<1>2. IsFiniteSet(DOMAIN lines)
  <2>1. DOMAIN lines = 1..Len(lines) /\ Len(lines) \in Nat
    BY LenProperties
  <2> QED BY <2>1, FS_Interval
<1>3. IsFiniteSet(LinesOf(lines, p))
  BY <1>2, FS_Subset DEF LinesOf
<1>4. \A l \in LinesOf(lines, p) : QtyOf(lines)[l] = lines[l].qty /\ lines[l].qty \in Int
  <2>1. \A l \in DOMAIN lines : lines[l] \in Line
    BY ElementOfSeq, LenProperties
  <2> QED BY <2>1 DEF LinesOf, QtyOf, Line
<1>5. SumFunctionOnSet(QtyOf(lines), LinesOf(lines, p)) \in Int
  BY <1>3, <1>4, SumIsInt
<1> QED BY <1>1, <1>3, <1>4, <1>5

LEMMA UnitsOfOthers ==
  ASSUME NEW lines \in Seq(Line), NEW p, p \notin ProductsIn(lines)
  PROVE  Units(lines, p) = 0
<1>1. LinesOf(lines, p) = {}
  BY DEF LinesOf, ProductsIn
<1> QED BY <1>1, UnitsAreSums, SumOfNone

(* Of lines that all sell, each sells a part; refunds are their opposite.  *)
Selling(lines)   == \A l \in DOMAIN lines : lines[l].qty >= 0
Returning(lines) == \A l \in DOMAIN lines : lines[l].qty <= 0

LEMMA UnitsSelling ==
  ASSUME NEW lines \in Seq(Line), NEW p, Selling(lines)
  PROVE  /\ Units(lines, p) >= 0
         /\ \A l \in LinesOf(lines, p) : lines[l].qty \in 0..Units(lines, p)
<1>1. /\ Units(lines, p) = SumFunctionOnSet(QtyOf(lines), LinesOf(lines, p))
      /\ IsFiniteSet(LinesOf(lines, p)) /\ Units(lines, p) \in Int
      /\ \A l \in LinesOf(lines, p) : QtyOf(lines)[l] = lines[l].qty /\ lines[l].qty \in Int
  BY UnitsAreSums
<1>2. \A l \in LinesOf(lines, p) : QtyOf(lines)[l] \in Nat
  BY <1>1 DEF Selling, LinesOf
<1>3. \A U \in SUBSET LinesOf(lines, p) : SumFunctionOnSet(QtyOf(lines), U) \in 0..Units(lines, p)
  BY <1>1, <1>2, SumOfPart
<1>4. Units(lines, p) >= 0
  BY <1>1, <1>3, SumOfNone
<1>5. ASSUME NEW l \in LinesOf(lines, p) PROVE lines[l].qty \in 0..Units(lines, p)
  <2>1. SumFunctionOnSet(QtyOf(lines), {l}) = lines[l].qty
    BY <1>1, SumOfOne
  <2>2. SumFunctionOnSet(QtyOf(lines), {l}) \in 0..Units(lines, p)
    BY <1>3
  <2> QED BY <2>1, <2>2
<1> QED BY <1>4, <1>5

LEMMA UnitsOfOpposite ==
  ASSUME NEW lines \in Seq(Line), NEW back \in Seq(Line), NEW p, DOMAIN back = DOMAIN lines,
         \A l \in DOMAIN lines : back[l].product = lines[l].product /\ back[l].qty = -lines[l].qty
  PROVE  Units(back, p) = -Units(lines, p)
<1>1. LinesOf(back, p) = LinesOf(lines, p)
  BY DEF LinesOf
<1>2. /\ Units(lines, p) = SumFunctionOnSet(QtyOf(lines), LinesOf(lines, p))
      /\ Units(back, p) = SumFunctionOnSet(QtyOf(back), LinesOf(back, p))
      /\ IsFiniteSet(LinesOf(lines, p))
      /\ \A l \in LinesOf(lines, p) : QtyOf(lines)[l] = lines[l].qty /\ lines[l].qty \in Int
  BY UnitsAreSums
<1>3. \A l \in LinesOf(lines, p) : QtyOf(back)[l] = -QtyOf(lines)[l]
  BY <1>2 DEF QtyOf, LinesOf
<1>4. SumFunctionOnSet(QtyOf(back), LinesOf(lines, p)) = -SumFunctionOnSet(QtyOf(lines), LinesOf(lines, p))
  BY <1>2, <1>3, SumOfOpposites
<1> QED BY <1>1, <1>2, <1>4

LEMMA UnitsReturning ==
  ASSUME NEW lines \in Seq(Line), NEW p, Returning(lines)
  PROVE  Units(lines, p) <= 0
<1> DEFINE back == [l \in DOMAIN lines |-> [lines[l] EXCEPT !.qty = -@]]
<1>1. /\ DOMAIN lines = 1..Len(lines) /\ Len(lines) \in Nat
      /\ \A l \in DOMAIN lines : lines[l] \in Line
  BY LenProperties, ElementOfSeq
<1>2. \A l \in DOMAIN lines :
        back[l] \in Line /\ back[l].product = lines[l].product /\ back[l].qty = -lines[l].qty
  BY <1>1 DEF Line
<1>3. back \in Seq(Line) /\ DOMAIN back = DOMAIN lines
  <2>1. back \in [1..Len(lines) -> Line]
    BY <1>1, <1>2
  <2> QED BY <1>1, <2>1, SeqDef
<1> HIDE DEF back
<1>4. Selling(back)
  BY <1>1, <1>2, <1>3 DEF Selling, Returning, Line
<1>5. Units(back, p) = -Units(lines, p) /\ Units(lines, p) \in Int
  BY <1>2, <1>3, UnitsOfOpposite, UnitsAreSums
<1> QED BY <1>3, <1>4, <1>5, UnitsSelling

LEMMA UnitsOfOneLine ==
  ASSUME NEW line \in Line, NEW p
  PROVE  /\ <<line>> \in Seq(Line) /\ DOMAIN <<line>> = {1} /\ <<line>>[1] = line
         /\ Units(<<line>>, p) = IF line.product = p THEN line.qty ELSE 0
<1> DEFINE one == <<line>>
<1>1. one \in Seq(Line) /\ DOMAIN one = {1} /\ one[1] = line
  OBVIOUS
<1> HIDE DEF one
<1>2. CASE line.product # p
  <2>1. p \notin ProductsIn(one)
    BY <1>1, <1>2 DEF ProductsIn
  <2>2. Units(one, p) = 0
    BY <1>1, <2>1, UnitsOfOthers
  <2> QED BY <1>1, <1>2, <2>2 DEF one
<1>3. CASE line.product = p
  <2>1. LinesOf(one, p) = {1}
    BY <1>1, <1>3 DEF LinesOf
  <2>2. /\ Units(one, p) = SumFunctionOnSet(QtyOf(one), LinesOf(one, p))
        /\ QtyOf(one)[1] = line.qty /\ line.qty \in Int
    BY <1>1, <2>1, UnitsAreSums
  <2>3. SumFunctionOnSet(QtyOf(one), {1}) = line.qty
    BY <2>2, SumOfOne
  <2> QED BY <1>1, <1>3, <2>1, <2>2, <2>3 DEF one
<1> QED BY <1>2, <1>3

(***************************************************************************)
(* What a refund, of the whole sale or of one line, puts on its row: lines *)
(* of the same products, the other way round, and at most as many units.   *)
(***************************************************************************)
LEMMA RefundedLines ==
  ASSUME NEW x, sale[x].lines \in Seq(Line), NEW l \in 0..Len(sale[x].lines)
  PROVE  /\ Refunded(x, l) \in Seq(Line)
         /\ ProductsIn(Refunded(x, l)) \subseteq ProductsIn(sale[x].lines)
         /\ Selling(sale[x].lines) => Returning(Refunded(x, l))
         /\ Returning(sale[x].lines) => Selling(Refunded(x, l))
         /\ \A p : Selling(sale[x].lines) => Units(Refunded(x, l), p) \in (-Units(sale[x].lines, p))..0
         /\ \A p : Returning(sale[x].lines) => Units(Refunded(x, l), p) \in 0..(-Units(sale[x].lines, p))
<1> DEFINE lines == sale[x].lines
           back(m) == [lines[m] EXCEPT !.qty = -@]
           all == [m \in DOMAIN lines |-> back(m)]
<1>1. /\ lines \in Seq(Line) /\ DOMAIN lines = 1..Len(lines) /\ Len(lines) \in Nat
      /\ \A m \in DOMAIN lines : lines[m] \in Line
  BY LenProperties, ElementOfSeq
<1> HIDE DEF lines
<1>2. ASSUME NEW m \in DOMAIN lines
      PROVE  back(m) \in Line /\ back(m).product = lines[m].product /\ back(m).qty = -lines[m].qty
  BY <1>1 DEF Line
<1>3. Refunded(x, l) = IF l = 0 THEN all ELSE <<back(l)>>
  BY DEF Refunded, lines
<1> HIDE DEF back
<1>4. all \in Seq(Line) /\ DOMAIN all = DOMAIN lines /\ \A m \in DOMAIN lines : all[m] = back(m)
  <2>1. all \in [1..Len(lines) -> Line]
    BY <1>1, <1>2
  <2> QED BY <1>1, <2>1, SeqDef
<1> HIDE DEF all
<1>5. \A p : Units(all, p) = -Units(lines, p) /\ Units(lines, p) \in Int
  BY <1>1, <1>2, <1>4, UnitsOfOpposite, UnitsAreSums
<1>6. \A p : Selling(lines) => Units(lines, p) >= 0
  BY <1>1, UnitsSelling
<1>7. \A p : Returning(lines) => Units(lines, p) <= 0
  BY <1>1, UnitsReturning
<1>8. CASE l = 0
  <2>1. Refunded(x, l) = all
    BY <1>3, <1>8
  <2>2. ProductsIn(all) \subseteq ProductsIn(lines)
    BY <1>2, <1>4 DEF ProductsIn
  <2>3. (Selling(lines) => Returning(all)) /\ (Returning(lines) => Selling(all))
    BY <1>1, <1>2, <1>4 DEF Selling, Returning, Line
  <2> QED BY <1>4, <1>5, <1>6, <1>7, <2>1, <2>2, <2>3 DEF lines
<1>9. CASE l # 0
  <2> PICK m \in DOMAIN lines : m = l
    BY <1>1, <1>9 DEF lines
  <2> DEFINE one == <<back(m)>>
  <2>1. Refunded(x, l) = one
    BY <1>3, <1>9
  <2>2. /\ one \in Seq(Line) /\ DOMAIN one = {1} /\ one[1] = back(m)
        /\ \A p : Units(one, p) = IF lines[m].product = p THEN -lines[m].qty ELSE 0
    BY <1>2, UnitsOfOneLine
  <2> HIDE DEF one
  <2>3. ProductsIn(one) \subseteq ProductsIn(lines)
    BY <1>2, <2>2 DEF ProductsIn
  <2>4. (Selling(lines) => Returning(one)) /\ (Returning(lines) => Selling(one))
    BY <1>1, <1>2, <2>2 DEF Selling, Returning, Line
  <2>5. ASSUME NEW p, Selling(lines) PROVE Units(one, p) \in (-Units(lines, p))..0
    <3>1. CASE lines[m].product # p
      BY <1>5, <1>6, <2>2, <2>5, <3>1
    <3>2. CASE lines[m].product = p
      <4>1. m \in LinesOf(lines, p)
        BY <3>2 DEF LinesOf
      <4>2. lines[m].qty \in 0..Units(lines, p)
        BY <1>1, <2>5, <4>1, UnitsSelling
      <4> QED BY <1>5, <2>2, <3>2, <4>2
    <3> QED BY <3>1, <3>2
  <2>6. ASSUME NEW p, Returning(lines) PROVE Units(one, p) \in 0..(-Units(lines, p))
    <3>1. CASE lines[m].product # p
      BY <1>5, <1>7, <2>2, <2>6, <3>1
    <3>2. CASE lines[m].product = p
      <4>1. Selling(all)
        BY <1>1, <1>2, <1>4, <2>6 DEF Selling, Returning, Line
      <4>2. m \in LinesOf(all, p)
        BY <1>2, <1>4, <3>2 DEF LinesOf
      <4>3. all[m].qty \in 0..Units(all, p)
        BY <1>4, <4>1, <4>2, UnitsSelling
      <4> QED BY <1>2, <1>4, <1>5, <2>2, <3>2, <4>3
    <3> QED BY <3>1, <3>2
  <2> QED BY <2>1, <2>2, <2>3, <2>4, <2>5, <2>6 DEF lines
<1> QED BY <1>8, <1>9

(***************************************************************************)
(* No sale or refund has a higher number than its branch has sales, and no *)
(* request in flight holds a higher one than the next.                     *)
(***************************************************************************)
NumberInv ==
  /\ DOMAIN sale = Rows
  /\ req \in [Slots -> {Idle} \cup Request]
  /\ IsFiniteSet(SoldRows)
  /\ \A x \in Rows : Sold(x) =>
       /\ sale[x].branch \in Branches /\ sale[x].seq \in Nat /\ sale[x].refunds \in Nat
       /\ sale[x].seq <= SalesCount(sale[x].branch)
  /\ \A s \in Slots : req[s].pc = "numbered" => req[s].seq <= SalesCount(req[s].branch) + 1

(* Counting is counting in finite sets. *)
LEMMA Counting ==
  ASSUME IsFiniteSet(SoldRows), NEW b
  PROVE  IsFiniteSet(SalesOf(b)) /\ SalesCount(b) = Cardinality(SalesOf(b)) /\ SalesCount(b) \in Nat
<1>1. SalesOf(b) \in SUBSET SoldRows
  BY DEF SalesOf, SoldRows
<1> QED BY <1>1, FS_Subset, FS_CardinalityType DEF SalesCount, SalesOf

(* The rows of sales after the step, and the count of branch b. *)
SoldAfter      == {x \in Rows : sale'[x] # NoSale}
SalesAfter(b) == Cardinality({x \in Rows : sale'[x] # NoSale /\ sale'[x].branch = b})

(* A row more makes the count of its branch one more.                      *)
LEMMA NewRow ==
  ASSUME DOMAIN sale = Rows, IsFiniteSet(SoldRows), NEW x \in Rows, ~Sold(x),
         NEW r, r # NoSale, sale' = [sale EXCEPT ![x] = r], NEW b
  PROVE  SalesAfter(b) = IF b = r.branch THEN SalesCount(b) + 1 ELSE SalesCount(b)
<1> DEFINE before == SalesOf(b)
           after  == {y \in Rows : sale'[y] # NoSale /\ sale'[y].branch = b}
<1>1. /\ IsFiniteSet(before) /\ SalesCount(b) = Cardinality(before)
      /\ SalesAfter(b) = Cardinality(after)
  BY Counting DEF SalesAfter
<1>2. sale'[x] = r /\ \A y \in Rows : y # x => sale'[y] = sale[y]
  OBVIOUS
<1>3. CASE b = r.branch
  <2>1. after = before \cup {x} /\ x \notin before
    BY <1>2, <1>3 DEF SalesOf, Sold
  <2> HIDE DEF before, after
  <2>2. Cardinality(before \cup {x}) = Cardinality(before) + 1
    BY <1>1, <2>1, FS_AddElement
  <2> QED BY <1>1, <1>3, <2>1, <2>2
<1>4. CASE b # r.branch
  <2>1. after = before
    BY <1>2, <1>4 DEF SalesOf, Sold
  <2> QED BY <1>1, <1>4, <2>1
<1> QED BY <1>3, <1>4

(* So a row whose number is at most the next one keeps the invariant.      *)
LEMMA NewRowStep ==
  ASSUME NumberInv, NEW x \in Rows, ~Sold(x), NEW r,
         r.branch \in Branches, r.seq \in Nat, r.refunds \in Nat,
         r.seq <= SalesCount(r.branch) + 1,
         sale' = [sale EXCEPT ![x] = r],
         req' \in [Slots -> {Idle} \cup Request],
         \A s \in Slots : req'[s] = req[s] \/ req'[s] = Idle
  PROVE  NumberInv'
<1>1. /\ r # NoSale /\ sale'[x] = r
      /\ \A y \in Rows : y # x => sale'[y] = sale[y]
  BY DEF NumberInv, NoSale
<1>2. \A b : SalesCount(b) \in Nat
  BY Counting DEF NumberInv
<1>3. ASSUME NEW b
      PROVE  /\ SalesAfter(b) = IF b = r.branch THEN SalesCount(b) + 1 ELSE SalesCount(b)
             /\ SalesCount(b) <= SalesAfter(b) /\ SalesAfter(b) \in Nat
  <2>1. DOMAIN sale = Rows
    BY DEF NumberInv
  <2>2. IsFiniteSet(SoldRows)
    BY DEF NumberInv
  <2>3. r # NoSale
    BY <1>1
  <2>4. SalesAfter(b) = IF b = r.branch THEN SalesCount(b) + 1 ELSE SalesCount(b)
    BY <2>1, <2>2, <2>3, NewRow, Zenon
  <2> QED BY <1>2, <2>4
<1>4. DOMAIN sale' = Rows /\ IsFiniteSet(SoldAfter)
  <2>1. SoldAfter = SoldRows \cup {x}
    BY <1>1 DEF SoldAfter, SoldRows, Sold
  <2> QED BY <2>1, FS_AddElement DEF NumberInv
<1>5. ASSUME NEW y \in Rows, sale'[y] # NoSale
      PROVE  /\ sale'[y].branch \in Branches /\ sale'[y].seq \in Nat /\ sale'[y].refunds \in Nat
             /\ sale'[y].seq <= SalesAfter(sale'[y].branch)
  <2>1. CASE y = x
    BY <1>1, <1>3, <2>1
  <2>2. CASE y # x
    <3>1. sale'[y] = sale[y] /\ Sold(y)
      BY <1>1, <1>5, <2>2 DEF Sold
    <3> PICK b \in Branches : b = sale[y].branch
      BY <3>1 DEF NumberInv
    <3>2. sale[y].seq \in Nat /\ sale[y].refunds \in Nat /\ sale[y].seq <= SalesCount(b)
      BY <3>1 DEF NumberInv
    <3>3. sale[y].seq <= SalesAfter(b)
      BY <1>2, <1>3, <3>2
    <3> QED BY <3>1, <3>2, <3>3
  <2> QED BY <2>1, <2>2
<1>6. ASSUME NEW s \in Slots, req'[s].pc = "numbered"
      PROVE  req'[s].seq <= SalesAfter(req'[s].branch) + 1
  <2>1. req'[s] = req[s] /\ req[s] \in Request
    BY <1>6 DEF NumberInv, Idle
  <2> PICK b \in Branches : b = req[s].branch
    BY <2>1 DEF Request
  <2>2. req[s].seq <= SalesCount(b) + 1 /\ req[s].seq \in Nat
    BY <1>6, <2>1 DEF NumberInv, Request
  <2>3. req[s].seq <= SalesAfter(b) + 1
    BY <1>2, <1>3, <2>2
  <2> QED BY <2>1, <2>3
<1> QED BY <1>1, <1>4, <1>5, <1>6 DEF NumberInv, SoldRows, SoldAfter, SalesAfter, SalesCount, Sold

(* What the requests in flight do, the rows of sales standing still.       *)
LEMMA RequestStep ==
  ASSUME NumberInv, sale' = sale, NEW s \in Slots, NEW r \in {Idle} \cup Request,
         req' = [req EXCEPT ![s] = r],
         r.pc = "numbered" => r.seq <= SalesCount(r.branch) + 1
  PROVE  NumberInv'
<1>1. req' \in [Slots -> {Idle} \cup Request]
  BY DEF NumberInv
<1>2. \A t \in Slots : req'[t] = r \/ req'[t] = req[t]
  BY DEF NumberInv
<1> QED BY <1>1, <1>2 DEF NumberInv, SoldRows, Sold, SalesCount

LEMMA NumberStep == NumberInv /\ [Next]_vars => NumberInv'
<1> SUFFICES ASSUME NumberInv, [Next]_vars PROVE NumberInv'
  OBVIOUS
<1>1. ASSUME UNCHANGED <<sale, req>> PROVE NumberInv'
  BY <1>1 DEF NumberInv, SoldRows, Sold, SalesCount
<1>2. CASE UNCHANGED vars
  BY <1>1, <1>2 DEF vars
<1>3. ASSUME NEW p \in Products,
             DeleteProduct(p) \/ \E n \in Counts : CreateProduct(p, n) \/ SetStock(p, n)
      PROVE  NumberInv'
  BY <1>1, <1>3 DEF DeleteProduct, CreateProduct, SetStock
<1>4. ASSUME NEW s \in Slots, NEW b \in Branches, NEW basket \in Baskets, CheckStock(s, b, basket)
      PROVE  NumberInv'
  <2> DEFINE r == [pc |-> "checked", branch |-> b, basket |-> basket, seq |-> 0]
  <2>1. r \in Request /\ r.pc # "numbered"
    BY DEF Request
  <2>2. req' = [req EXCEPT ![s] = r] /\ sale' = sale
    BY <1>4 DEF CheckStock
  <2> HIDE DEF r
  <2> QED BY <2>1, <2>2, RequestStep
<1>5. ASSUME NEW s \in Slots, GenerateReceiptNo(s) PROVE NumberInv'
  <2>1. req[s] \in Request
    BY <1>5 DEF GenerateReceiptNo, NumberInv, Idle
  <2> PICK old \in Request : old = req[s]
    BY <2>1
  <2> PICK n \in Nat : n = SalesCount(old.branch) + 1
    BY Counting DEF NumberInv
  <2> DEFINE r == [old EXCEPT !.pc = "numbered", !.seq = n]
  <2>2. r \in Request /\ r.seq = n /\ r.branch = old.branch
    BY DEF Request
  <2>3. req' = [req EXCEPT ![s] = r] /\ sale' = sale
    BY <1>5 DEF GenerateReceiptNo, NumberInv
  <2>4. r.seq <= SalesCount(r.branch) + 1
    BY <2>2
  <2> HIDE DEF r
  <2> QED BY <2>2, <2>3, <2>4, RequestStep
<1>6. ASSUME NEW s \in Slots, Fail(s) PROVE NumberInv'
  BY <1>6, RequestStep DEF Fail, Idle
<1>7. ASSUME NEW s \in Slots, NEW x \in Rows, CommitSale(s, x) PROVE NumberInv'
  <2>1. req[s] \in Request /\ req[s].seq <= SalesCount(req[s].branch) + 1
    BY <1>7 DEF CommitSale, NumberInv, Idle
  <2> PICK old \in Request : old = req[s]
    BY <2>1
  <2> DEFINE r == [branch |-> old.branch, seq |-> old.seq, refunds |-> 0, lines |-> old.basket]
  <2>2. /\ r.branch \in Branches /\ r.seq \in Nat /\ r.refunds \in Nat
        /\ r.seq <= SalesCount(r.branch) + 1
    BY <2>1 DEF Request
  <2>3. /\ ~Sold(x) /\ sale' = [sale EXCEPT ![x] = r]
        /\ req' = [req EXCEPT ![s] = Idle]
    BY <1>7 DEF CommitSale
  <2>4. /\ req' \in [Slots -> {Idle} \cup Request]
        /\ \A t \in Slots : req'[t] = req[t] \/ req'[t] = Idle
    BY <2>3 DEF NumberInv
  <2> HIDE DEF r
  <2> QED BY <2>2, <2>3, <2>4, NewRowStep
<1>8. ASSUME NEW x \in Rows, NEW y \in Rows, NEW l, RefundSale(x, y, l) PROVE NumberInv'
  <2>1. Sold(x) /\ ~Sold(y) /\ req' = req
    BY <1>8 DEF RefundSale
  <2>2. /\ sale[x].branch \in Branches /\ sale[x].seq \in Nat /\ sale[x].refunds + 1 \in Nat
        /\ sale[x].seq <= SalesCount(sale[x].branch)
    BY <2>1 DEF NumberInv
  <2> PICK b \in Branches, n \in Nat, k \in Nat :
        b = sale[x].branch /\ n = sale[x].seq /\ k = sale[x].refunds + 1
    BY <2>2
  <2>3. PICK lines : sale' = [sale EXCEPT ![y] = [branch |-> b, seq |-> n, refunds |-> k, lines |-> lines]]
    BY <1>8 DEF RefundSale
  <2> DEFINE r == [branch |-> b, seq |-> n, refunds |-> k, lines |-> lines]
  <2>4. SalesCount(b) \in Nat
    BY Counting DEF NumberInv
  <2>5. /\ r.branch \in Branches /\ r.seq \in Nat /\ r.refunds \in Nat
        /\ r.seq <= SalesCount(r.branch) + 1
    BY <2>2, <2>4
  <2>6. /\ sale' = [sale EXCEPT ![y] = r]
        /\ req' \in [Slots -> {Idle} \cup Request]
        /\ \A t \in Slots : req'[t] = req[t] \/ req'[t] = Idle
    BY <2>1, <2>3 DEF NumberInv
  <2> HIDE DEF r
  <2> QED BY <2>1, <2>5, <2>6, NewRowStep
<1> QED
  BY <1>2, <1>3, <1>4, <1>5, <1>6, <1>7, <1>8 DEF Next

(***************************************************************************)
(* Numbering never comes to a halt: however sales, refunds and deletions   *)
(* interleave, the number a sale counts for itself is free when it counts. *)
(***************************************************************************)
THEOREM NumberingGoesOn == Spec => []NextNumberFree
<1>1. Init => NumberInv
  <2> SUFFICES ASSUME Init PROVE NumberInv
    OBVIOUS
  <2>1. SoldRows = {}
    BY DEF Init, SoldRows, Sold
  <2> QED BY <2>1, FS_EmptySet DEF Init, NumberInv, Sold, Idle
<1>2. NumberInv => NextNumberFree
  <2> SUFFICES ASSUME NumberInv, NEW b \in Branches, NEW x \in Rows, Sold(x),
                      sale[x].branch = b, sale[x].seq = SalesCount(b) + 1
               PROVE  FALSE
    BY DEF NextNumberFree, Taken
  <2>1. SalesCount(b) \in Nat /\ sale[x].seq <= SalesCount(b)
    BY Counting DEF NumberInv
  <2> QED BY <2>1
<1> QED
  BY <1>1, <1>2, NumberStep, PTL DEF Spec

-----------------------------------------------------------------------------
(***************************************************************************)
(* Units of a product in rows of a table of sales.                         *)
(***************************************************************************)
UnitsIn(table, S, p) == SumFunctionOnSet([x \in S |-> Units(table[x].lines, p)], S)

LEMMA UnitsSoldAreIn == \A S, p : UnitsSold(S, p) = UnitsIn(sale, S, p)
BY DEF UnitsSold, SumFunction, UnitsIn

LEMMA UnitsInRows ==
  ASSUME NEW table, NEW S, IsFiniteSet(S), \A x \in S : table[x].lines \in Seq(Line), NEW p
  PROVE  /\ UnitsIn(table, S, p) \in Int
         /\ (\A x \in S : p \notin ProductsIn(table[x].lines)) => UnitsIn(table, S, p) = 0
<1> DEFINE f == [x \in S |-> Units(table[x].lines, p)]
<1>1. \A x \in S : f[x] \in Int
  BY UnitsAreSums
<1>2. (\A x \in S : p \notin ProductsIn(table[x].lines)) => \A x \in S : f[x] = 0
  BY UnitsOfOthers
<1>3. UnitsIn(table, S, p) = SumFunctionOnSet(f, S)
  BY DEF UnitsIn
<1> HIDE DEF f
<1>4. SumFunctionOnSet(f, S) \in Int
  BY <1>1, SumIsInt
<1>5. (\A x \in S : f[x] = 0) => SumFunctionOnSet(f, S) = -SumFunctionOnSet(f, S)
  <2> SUFFICES ASSUME \A x \in S : f[x] = 0
               PROVE  SumFunctionOnSet(f, S) = -SumFunctionOnSet(f, S)
    OBVIOUS
  <2>1. \A x \in S : f[x] \in Int /\ f[x] = -f[x]
    OBVIOUS
  <2> QED BY <2>1, SumOfOpposites
<1> QED BY <1>2, <1>3, <1>4, <1>5

(* A row more adds the units of its lines. *)
LEMMA UnitsInRowMore ==
  ASSUME NEW table, NEW S, IsFiniteSet(S), \A y \in S : table[y].lines \in Seq(Line),
         NEW new, \A y \in S : new[y] = table[y],
         NEW x, x \notin S, new[x].lines \in Seq(Line), NEW p
  PROVE  UnitsIn(new, S \cup {x}, p) = UnitsIn(table, S, p) + Units(new[x].lines, p)
<1> DEFINE f == [y \in S \cup {x} |-> Units(new[y].lines, p)]
           g == [y \in S |-> Units(table[y].lines, p)]
<1>1. /\ \A y \in S : f[y] \in Int /\ f[y] = g[y]
      /\ f[x] \in Int /\ f[x] = Units(new[x].lines, p)
  BY UnitsAreSums
<1>2. UnitsIn(new, S \cup {x}, p) = SumFunctionOnSet(f, S \cup {x}) /\ UnitsIn(table, S, p) = SumFunctionOnSet(g, S)
  BY DEF UnitsIn
<1> HIDE DEF f, g
<1>3. SumFunctionOnSet(f, S \cup {x}) = SumFunctionOnSet(f, S) + f[x]
  BY <1>1, SumTakesIn
<1>4. SumFunctionOnSet(f, S) = SumFunctionOnSet(g, S)
  BY <1>1, SumOfSame
<1> QED BY <1>1, <1>2, <1>3, <1>4

-----------------------------------------------------------------------------
(***************************************************************************)
(* What the accounts of stock rest on: the number of rows is finite, rows  *)
(* of sales sell, those of refunds take back, and in turn.                 *)
(***************************************************************************)
Signed ==
  \A x \in SoldRows : IF sale[x].refunds % 2 = 0 THEN Selling(sale[x].lines) ELSE Returning(sale[x].lines)

RowsInv == TypeOK /\ IsFiniteSet(SoldRows) /\ Signed

LEMMA RowsOfSales ==
  ASSUME RowsInv
  PROVE  /\ \A x \in SoldRows : x \in Rows /\ sale[x] \in Sale /\ Sold(x) /\ sale[x].lines \in Seq(Line)
         /\ \A x \in Rows \ SoldRows : sale[x] = NoSale
         /\ \A s \in Slots : req[s] # Idle => req[s] \in Request
BY DEF RowsInv, TypeOK, SoldRows, Sold, Sale

(* A basket is of lines that sell. *)
LEMMA BasketsSell ==
  ASSUME NEW basket \in Baskets
  PROVE  basket \in Seq(Line) /\ Selling(basket)
<1> DEFINE Bought == [product : Products, qty : Nat \ {0}]
<1>1. basket \in Seq(Bought)
  BY PosAssumption
<1>2. /\ DOMAIN basket = 1..Len(basket) /\ Len(basket) \in Nat
      /\ \A l \in DOMAIN basket : basket[l] \in Bought
  <2> HIDE DEF Bought
  <2> QED BY <1>1, LenProperties, ElementOfSeq
<1>3. basket \in Seq(Line)
  <2>1. basket \in [1..Len(basket) -> Line]
    <3>1. \A l \in DOMAIN basket : basket[l] \in Line
      BY <1>2 DEF Line
    <3>2. basket = [l \in 1..Len(basket) |-> basket[l]]
      BY <1>1, <1>2
    <3> QED BY <1>2, <3>1, <3>2
  <2> QED BY <1>2, <2>1, SeqDef
<1> QED BY <1>2, <1>3 DEF Selling

(***************************************************************************)
(* The two steps that write a row write one with lines of products there   *)
(* are, of the right sign, under a number that was free, and take its      *)
(* units from the stock.                                                   *)
(***************************************************************************)
WritesRow(y, r) ==
  /\ y \in Rows /\ ~Sold(y)
  /\ r \in Sale
  /\ ProductsIn(r.lines) \subseteq Catalogue
  /\ IF r.refunds % 2 = 0 THEN Selling(r.lines) ELSE Returning(r.lines)
  /\ ~Taken(r.branch, r.seq, r.refunds)
  /\ sale' = [sale EXCEPT ![y] = r]
  /\ stock' = [p \in Catalogue |-> stock[p] - Units(r.lines, p)]
  /\ received' = received

SaleOf(s) == [branch |-> req[s].branch, seq |-> req[s].seq, refunds |-> 0, lines |-> req[s].basket]

LEMMA CommitWrites ==
  ASSUME RowsInv, NEW s \in Slots, NEW x \in Rows, CommitSale(s, x)
  PROVE  /\ WritesRow(x, SaleOf(s))
         /\ req[s] \in Request /\ req' = [req EXCEPT ![s] = Idle]
<1>1. req[s] \in Request
  BY RowsOfSales DEF CommitSale, Idle
<1>2. req[s].branch \in Branches /\ req[s].seq \in Nat /\ req[s].basket \in Baskets
  BY <1>1 DEF Request
<1>3. req[s].basket \in Seq(Line) /\ Selling(req[s].basket)
  BY <1>2, BasketsSell
<1>4. SaleOf(s) \in Sale /\ SaleOf(s).refunds % 2 = 0
  BY <1>2, <1>3 DEF SaleOf, Sale
<1>5. WritesRow(x, SaleOf(s))
  BY <1>3, <1>4 DEF WritesRow, CommitSale, SaleOf
<1> QED BY <1>1, <1>5 DEF CommitSale

RefundOf(x, l) ==
  [branch |-> sale[x].branch, seq |-> sale[x].seq, refunds |-> sale[x].refunds + 1, lines |-> Refunded(x, l)]

LEMMA RefundWrites ==
  ASSUME RowsInv, NEW x \in Rows, NEW y \in Rows, NEW l \in 0..Len(sale[x].lines), RefundSale(x, y, l)
  PROVE  /\ WritesRow(y, RefundOf(x, l)) /\ x \in SoldRows /\ req' = req
         /\ sale[x].refunds % 2 = 0 =>
              \A p : Units(Refunded(x, l), p) \in (-Units(sale[x].lines, p))..0
         /\ sale[x].refunds % 2 # 0 =>
              \A p : Units(Refunded(x, l), p) \in 0..(-Units(sale[x].lines, p))
<1>1. x \in SoldRows
  BY DEF RefundSale, SoldRows
<1>2. sale[x] \in Sale /\ sale[x].lines \in Seq(Line) /\ ProductsIn(sale[x].lines) \subseteq Catalogue
  BY <1>1, RowsOfSales DEF RowsInv, TypeOK
<1>3. sale[x].branch \in Branches /\ sale[x].seq \in Nat /\ sale[x].refunds \in Nat
  BY <1>2 DEF Sale
<1>4. /\ Refunded(x, l) \in Seq(Line) /\ ProductsIn(Refunded(x, l)) \subseteq Catalogue
      /\ Selling(sale[x].lines) => Returning(Refunded(x, l))
      /\ Returning(sale[x].lines) => Selling(Refunded(x, l))
      /\ \A p : Selling(sale[x].lines) => Units(Refunded(x, l), p) \in (-Units(sale[x].lines, p))..0
      /\ \A p : Returning(sale[x].lines) => Units(Refunded(x, l), p) \in 0..(-Units(sale[x].lines, p))
  BY <1>2, RefundedLines
<1>5. IF sale[x].refunds % 2 = 0 THEN Selling(sale[x].lines) ELSE Returning(sale[x].lines)
  BY <1>1 DEF RowsInv, Signed
<1>6. (sale[x].refunds + 1) % 2 = 0 <=> sale[x].refunds % 2 # 0
  BY <1>3
<1>7. /\ RefundOf(x, l) \in Sale
      /\ IF RefundOf(x, l).refunds % 2 = 0 THEN Selling(RefundOf(x, l).lines)
                                          ELSE Returning(RefundOf(x, l).lines)
  BY <1>3, <1>4, <1>5, <1>6 DEF RefundOf, Sale
<1>8. WritesRow(y, RefundOf(x, l)) /\ req' = req
  BY <1>4, <1>7 DEF WritesRow, RefundSale, RefundOf
<1> QED BY <1>1, <1>4, <1>5, <1>8

LEMMA AfterWriting ==
  ASSUME RowsInv, NEW y, NEW r, WritesRow(y, r)
  PROVE  /\ SoldRows' = SoldRows \cup {y} /\ y \notin SoldRows
         /\ sale'[y] = r /\ \A x \in Rows : x # y => sale'[x] = sale[x]
         /\ DOMAIN stock' = Catalogue
         /\ \A p \in Catalogue : stock'[p] = stock[p] - Units(r.lines, p)
         /\ r.lines \in Seq(Line) /\ \A p : Units(r.lines, p) \in Int
<1>1. DOMAIN sale = Rows /\ r # NoSale /\ r.lines \in Seq(Line)
  BY DEF RowsInv, TypeOK, WritesRow, NoSale, Sale
<1>2. sale'[y] = r /\ \A x \in Rows : x # y => sale'[x] = sale[x]
  BY <1>1 DEF WritesRow
<1>3. SoldRows' = SoldRows \cup {y} /\ y \notin SoldRows
  BY <1>1, <1>2 DEF SoldRows, Sold, WritesRow
<1>4. \A p : Units(r.lines, p) \in Int
  BY <1>1, UnitsAreSums
<1> QED BY <1>1, <1>2, <1>3, <1>4 DEF WritesRow
LEMMA RowsStep == RowsInv /\ [Next]_vars => RowsInv'
<1> SUFFICES ASSUME RowsInv, [Next]_vars PROVE RowsInv'
  OBVIOUS
<1>1. ASSUME sale' = sale, Catalogue \subseteq Catalogue' \/ Catalogue' = Catalogue,
             TypeOK'
      PROVE  RowsInv'
  BY <1>1 DEF RowsInv, Signed, SoldRows, Sold
<1>2. CASE UNCHANGED vars
  BY <1>2 DEF vars, RowsInv, TypeOK, Signed, SoldRows, Sold, Catalogue
<1>3. ASSUME NEW p \in Products, NEW n \in Counts, CreateProduct(p, n) PROVE RowsInv'
  <2>1. TypeOK'
    BY <1>3, PosAssumption DEF CreateProduct, RowsInv, TypeOK, Catalogue, Sold
  <2> QED BY <1>3, <2>1 DEF CreateProduct, RowsInv, Signed, SoldRows, Sold
<1>4. ASSUME NEW p \in Products, NEW n \in Counts, SetStock(p, n) PROVE RowsInv'
  <2>1. TypeOK'
    <3>1. stock' \in [Catalogue -> Int] /\ received' \in [Products -> Int]
      BY <1>4, PosAssumption DEF SetStock, RowsInv, TypeOK, Catalogue
    <3>2. overtaken' \in BOOLEAN
      BY <1>4 DEF SetStock, TakenBehind, RowsInv, TypeOK
    <3> QED BY <1>4, <3>1, <3>2 DEF SetStock, RowsInv, TypeOK, Catalogue, Sold
  <2> QED BY <1>4, <2>1 DEF SetStock, RowsInv, Signed, SoldRows, Sold
<1>5. ASSUME NEW p \in Products, DeleteProduct(p) PROVE RowsInv'
  <2>1. TypeOK'
    <3>1. overtaken' \in BOOLEAN
      BY <1>5 DEF DeleteProduct, TakenBehind, RowsInv, TypeOK
    <3>2. stock' \in [Catalogue \ {p} -> Int] /\ sale' = sale /\ req' = req /\ received' = received
      BY <1>5 DEF DeleteProduct, RowsInv, TypeOK, Catalogue
    <3>3. \A x \in Rows : Sold(x) => ProductsIn(sale[x].lines) \subseteq Catalogue \ {p}
      BY <1>5 DEF DeleteProduct, RowsInv, TypeOK
    <3> QED BY <3>1, <3>2, <3>3 DEF RowsInv, TypeOK, Catalogue, Sold
  <2> QED BY <1>5, <2>1 DEF DeleteProduct, RowsInv, Signed, SoldRows, Sold
<1>6. ASSUME NEW s \in Slots, UNCHANGED <<stock, sale, received, overtaken>>,
             req' \in [Slots -> {Idle} \cup Request]
      PROVE  RowsInv'
  BY <1>6 DEF RowsInv, TypeOK, Signed, SoldRows, Sold, Catalogue
<1>7. ASSUME NEW s \in Slots, NEW b \in Branches, NEW basket \in Baskets, CheckStock(s, b, basket)
      PROVE  RowsInv'
  <2>1. [pc |-> "checked", branch |-> b, basket |-> basket, seq |-> 0] \in Request
    BY DEF Request
  <2>2. req' \in [Slots -> {Idle} \cup Request]
    BY <1>7, <2>1 DEF CheckStock, RowsInv, TypeOK
  <2> QED BY <1>6, <1>7, <2>2 DEF CheckStock
<1>8. ASSUME NEW s \in Slots, GenerateReceiptNo(s) PROVE RowsInv'
  <2>1. req[s] \in Request
    BY <1>8, RowsOfSales DEF GenerateReceiptNo, Idle
  <2>2. SalesCount(req[s].branch) + 1 \in Nat
    BY Counting DEF RowsInv
  <2>3. [req[s] EXCEPT !.pc = "numbered", !.seq = SalesCount(req[s].branch) + 1] \in Request
    BY <2>1, <2>2 DEF Request
  <2>4. req' = [req EXCEPT ![s] = [req[s] EXCEPT !.pc = "numbered", !.seq = SalesCount(req[s].branch) + 1]]
    BY <1>8 DEF GenerateReceiptNo, RowsInv, TypeOK
  <2>5. req' \in [Slots -> {Idle} \cup Request]
    BY <2>3, <2>4 DEF RowsInv, TypeOK
  <2> QED BY <1>6, <1>8, <2>5 DEF GenerateReceiptNo
<1>9. ASSUME NEW s \in Slots, Fail(s) PROVE RowsInv'
  <2>1. req' \in [Slots -> {Idle} \cup Request]
    BY <1>9 DEF Fail, RowsInv, TypeOK
  <2> QED BY <1>6, <1>9, <2>1 DEF Fail
<1>10. ASSUME NEW y, NEW r, WritesRow(y, r), req' \in [Slots -> {Idle} \cup Request],
              overtaken' \in BOOLEAN
       PROVE  RowsInv'
  <2>1. /\ SoldRows' = SoldRows \cup {y}
        /\ sale'[y] = r /\ \A x \in Rows : x # y => sale'[x] = sale[x]
        /\ stock' \in [Catalogue -> Int] /\ Catalogue' = Catalogue
        /\ r \in Sale /\ y \in Rows
    <3>1. \A p : Units(r.lines, p) \in Int
      BY <1>10, AfterWriting
    <3>2. stock' \in [Catalogue -> Int] /\ Catalogue' = Catalogue
      BY <1>10, <3>1 DEF WritesRow, RowsInv, TypeOK, Catalogue
    <3> QED BY <1>10, <3>2, AfterWriting DEF WritesRow
  <2>2. sale' \in [Rows -> {NoSale} \cup Sale]
    BY <1>10, <2>1 DEF WritesRow, RowsInv, TypeOK
  <2>3. \A x \in Rows : sale'[x] # NoSale => ProductsIn(sale'[x].lines) \subseteq Catalogue
    BY <1>10, <2>1 DEF WritesRow, RowsInv, TypeOK, Sold
  <2>4. TypeOK'
    BY <1>10, <2>1, <2>2, <2>3 DEF WritesRow, RowsInv, TypeOK, Sold, ProductsIn
  <2>5. IsFiniteSet(SoldRows')
    <3>1. IsFiniteSet(SoldRows \cup {y})
      BY FS_AddElement DEF RowsInv
    <3> QED BY <2>1, <3>1
  <2>6. Signed'
    <3>1. \A x \in SoldRows : sale'[x] = sale[x] \/ x = y
      BY <2>1, RowsOfSales
    <3>2. \A x \in SoldRows' : IF sale'[x].refunds % 2 = 0 THEN Selling(sale'[x].lines)
                                                           ELSE Returning(sale'[x].lines)
      BY <1>10, <2>1, <3>1 DEF WritesRow, RowsInv, Signed
    <3> QED BY <3>2 DEF Signed, Selling, Returning
  <2> QED BY <2>4, <2>5, <2>6 DEF RowsInv
<1>11. ASSUME NEW s \in Slots, NEW x \in Rows, CommitSale(s, x) PROVE RowsInv'
  <2>1. WritesRow(x, SaleOf(s)) /\ req' \in [Slots -> {Idle} \cup Request]
    BY <1>11, CommitWrites DEF RowsInv, TypeOK
  <2>2. overtaken' \in BOOLEAN
    BY <1>11 DEF CommitSale, TakenBehind, RowsInv, TypeOK
  <2> QED BY <1>10, <2>1, <2>2
<1>12. ASSUME NEW x \in Rows, NEW y \in Rows, NEW l \in 0..Len(sale[x].lines), RefundSale(x, y, l)
       PROVE  RowsInv'
  <2>1. WritesRow(y, RefundOf(x, l)) /\ req' \in [Slots -> {Idle} \cup Request]
    BY <1>12, RefundWrites DEF RowsInv, TypeOK
  <2>2. overtaken' \in BOOLEAN
    BY <1>12 DEF RefundSale, TakenBehind, RowsInv, TypeOK
  <2> QED BY <1>10, <2>1, <2>2
<1> QED
  BY <1>2, <1>3, <1>4, <1>5, <1>7, <1>8, <1>9, <1>11, <1>12 DEF Next

LEMMA RowsInit == Init => RowsInv
<1> SUFFICES ASSUME Init PROVE RowsInv
  OBVIOUS
<1>1. SoldRows = {}
  BY DEF Init, SoldRows, Sold
<1>2. TypeOK
  <2>1. Catalogue = {} /\ stock \in [Catalogue -> Int]
    BY DEF Init, Catalogue
  <2>2. \A x \in Rows : ~Sold(x)
    BY DEF Init, Sold
  <2>3. sale \in [Rows -> {NoSale} \cup Sale]
    BY DEF Init
  <2>4. req \in [Slots -> {Idle} \cup Request]
    BY DEF Init
  <2>5. received \in [Products -> Int]
    BY DEF Init
  <2>6. overtaken \in BOOLEAN
    BY DEF Init
  <2> QED BY <2>1, <2>2, <2>3, <2>4, <2>5, <2>6 DEF TypeOK
<1> QED BY <1>1, <1>2, FS_EmptySet DEF RowsInv, Signed
-----------------------------------------------------------------------------
(* What was sold of p, by the rows there are and by those after the step.  *)
LEMMA SoldInAll ==
  ASSUME RowsInv, NEW p
  PROVE  /\ UnitsSold({x \in Rows : Sold(x)}, p) = UnitsIn(sale, SoldRows, p)
         /\ UnitsIn(sale, SoldRows, p) \in Int
         /\ p \notin Catalogue => UnitsIn(sale, SoldRows, p) = 0
<1>1. SoldRows = {x \in Rows : Sold(x)}
  BY DEF SoldRows
<1>2. \A x \in SoldRows : sale[x].lines \in Seq(Line) /\ ProductsIn(sale[x].lines) \subseteq Catalogue
  BY RowsOfSales DEF RowsInv, TypeOK
<1>3. UnitsSold(SoldRows, p) = UnitsIn(sale, SoldRows, p)
  BY UnitsSoldAreIn
<1>4. /\ UnitsIn(sale, SoldRows, p) \in Int
      /\ (\A x \in SoldRows : p \notin ProductsIn(sale[x].lines)) => UnitsIn(sale, SoldRows, p) = 0
  BY <1>2, UnitsInRows DEF RowsInv
<1> QED BY <1>1, <1>2, <1>3, <1>4

Accounts == \A p \in Catalogue : stock[p] = received[p] - UnitsIn(sale, SoldRows, p)

LEMMA AccountsStep == RowsInv /\ RowsInv' /\ Accounts /\ [Next]_vars => Accounts'
<1> SUFFICES ASSUME RowsInv, RowsInv', Accounts, [Next]_vars PROVE Accounts'
  OBVIOUS
<1>1. sale' = sale => SoldRows' = SoldRows
  BY DEF SoldRows, Sold
<1>2. /\ stock \in [Catalogue -> Int] /\ received \in [Products -> Int]
      /\ \A p : UnitsIn(sale, SoldRows, p) \in Int
  BY SoldInAll DEF RowsInv, TypeOK
<1>3. ASSUME UNCHANGED <<stock, sale, received>> PROVE Accounts'
  BY <1>1, <1>3 DEF Accounts, Catalogue
<1>4. CASE UNCHANGED vars
  BY <1>3, <1>4 DEF vars
<1>5. ASSUME NEW p \in Products, NEW n \in Counts, CreateProduct(p, n) PROVE Accounts'
  <2>1. UnitsIn(sale, SoldRows, p) = 0
    BY <1>5, SoldInAll DEF CreateProduct
  <2>2. ASSUME NEW q \in Catalogue \cup {p}
        PROVE  stock'[q] = received'[q] - UnitsIn(sale, SoldRows, q)
    <3>1. CASE q = p
      BY <1>2, <1>5, <2>1, <3>1, PosAssumption DEF CreateProduct
    <3>2. CASE q # p
      BY <1>2, <1>5, <2>2, <3>2 DEF CreateProduct, Accounts
    <3> QED BY <3>1, <3>2
  <2>3. Catalogue' = Catalogue \cup {p} /\ sale' = sale
    BY <1>5 DEF CreateProduct, Catalogue
  <2> QED BY <1>1, <2>2, <2>3 DEF Accounts
<1>6. ASSUME NEW p \in Products, NEW n \in Counts, SetStock(p, n) PROVE Accounts'
  <2>1. /\ stock' = [stock EXCEPT ![p] = n] /\ p \in Catalogue /\ n \in Int
        /\ received' = [received EXCEPT ![p] = n + (received[p] - stock[p])]
        /\ Catalogue' = Catalogue /\ sale' = sale
    BY <1>2, <1>6, PosAssumption DEF SetStock, Catalogue
  <2>2. ASSUME NEW q \in Catalogue
        PROVE  stock'[q] = received'[q] - UnitsIn(sale, SoldRows, q)
    <3>1. stock[q] = received[q] - UnitsIn(sale, SoldRows, q) /\ stock[q] \in Int /\ received[q] \in Int
      BY <1>2 DEF Accounts, RowsInv, TypeOK
    <3>2. CASE q = p
      <4>1. stock'[q] = n /\ received'[q] = n + (received[q] - stock[q])
        BY <1>2, <2>1, <3>2
      <4> QED BY <1>2, <2>1, <3>1, <4>1
    <3>3. CASE q # p
      BY <1>2, <2>1, <3>1, <3>3
    <3> QED BY <3>2, <3>3
  <2> QED BY <1>1, <2>1, <2>2 DEF Accounts
<1>7. ASSUME NEW p \in Products, DeleteProduct(p) PROVE Accounts'
  <2>1. /\ Catalogue' = Catalogue \ {p} /\ sale' = sale /\ received' = received
        /\ \A q \in Catalogue \ {p} : stock'[q] = stock[q]
    BY <1>7 DEF DeleteProduct, Catalogue
  <2> QED BY <1>1, <2>1 DEF Accounts
<1>8. ASSUME NEW y, NEW r, WritesRow(y, r) PROVE Accounts'
  <2>1. /\ SoldRows' = SoldRows \cup {y} /\ y \notin SoldRows
        /\ sale'[y] = r /\ \A x \in Rows : x # y => sale'[x] = sale[x]
        /\ Catalogue' = Catalogue /\ received' = received
        /\ \A p \in Catalogue : stock'[p] = stock[p] - Units(r.lines, p)
        /\ r.lines \in Seq(Line) /\ \A p : Units(r.lines, p) \in Int
    BY <1>8, AfterWriting DEF WritesRow, Catalogue
  <2>2. \A x \in SoldRows : sale'[x] = sale[x] /\ sale[x].lines \in Seq(Line)
    BY <2>1, RowsOfSales
  <2>3. \A p : UnitsIn(sale', SoldRows \cup {y}, p) = UnitsIn(sale, SoldRows, p) + Units(r.lines, p)
    BY <2>1, <2>2, UnitsInRowMore DEF RowsInv
  <2>4. ASSUME NEW p \in Catalogue
        PROVE  stock'[p] = received'[p] - UnitsIn(sale', SoldRows', p)
    <3>1. stock[p] = received[p] - UnitsIn(sale, SoldRows, p) /\ received[p] \in Int
      BY <1>2 DEF Accounts, RowsInv, TypeOK
    <3>2. UnitsIn(sale', SoldRows', p) = UnitsIn(sale, SoldRows, p) + Units(r.lines, p)
      BY <2>1, <2>3
    <3> QED BY <1>2, <2>1, <3>1, <3>2
  <2> QED BY <2>1, <2>4 DEF Accounts
<1>9. ASSUME NEW s \in Slots, NEW x \in Rows, CommitSale(s, x) PROVE Accounts'
  BY <1>8, <1>9, CommitWrites
<1>10. ASSUME NEW x \in Rows, NEW y \in Rows, NEW l \in 0..Len(sale[x].lines), RefundSale(x, y, l)
       PROVE  Accounts'
  BY <1>8, <1>10, RefundWrites
<1>11. ASSUME NEW s \in Slots,
              GenerateReceiptNo(s) \/ Fail(s) \/ \E b \in Branches, basket \in Baskets : CheckStock(s, b, basket)
       PROVE  Accounts'
  BY <1>3, <1>11 DEF GenerateReceiptNo, Fail, CheckStock
<1> QED
  BY <1>4, <1>5, <1>6, <1>7, <1>9, <1>10, <1>11 DEF Next

(***************************************************************************)
(* No unit is lost or counted twice, whatever checks and writes interleave *)
(* and whatever is counted, refunded or deleted between them: the stock of *)
(* a product is what came in, less what the rows say was sold.             *)
(***************************************************************************)
THEOREM StockIsAccounted == Spec => []StockAccounted
<1>1. Init => RowsInv /\ Accounts
  BY RowsInit DEF Init, Accounts, Catalogue
<1>2. (RowsInv /\ Accounts) /\ [Next]_vars => (RowsInv /\ Accounts)'
  BY RowsStep, AccountsStep
<1>3. RowsInv /\ Accounts => StockAccounted
  BY SoldInAll DEF Accounts, StockAccounted
<1> QED
  BY <1>1, <1>2, <1>3, PTL DEF Spec

-----------------------------------------------------------------------------
(***************************************************************************)
(* As long as nothing was taken behind a check's back, there is no product *)
(* below zero, and enough for every request that has checked its basket.   *)
(***************************************************************************)
EnoughIn(st, basket) ==
  /\ ProductsIn(basket) \subseteq DOMAIN st
  /\ \A p \in ProductsIn(basket) : st[p] >= Units(basket, p)

CoveredBy(st, requests) ==
  /\ \A p \in DOMAIN st : st[p] >= 0
  /\ \A s \in Slots : requests[s] # Idle => EnoughIn(st, requests[s].basket)

Covered == overtaken \/ CoveredBy(stock, req)

(* What is checked is of products that sell. *)
LEMMA UnitsChecked ==
  ASSUME RowsInv, NEW s \in Slots, req[s] # Idle
  PROVE  /\ \A p : Units(req[s].basket, p) \in Int /\ Units(req[s].basket, p) >= 0
         /\ \A p : p \notin ProductsIn(req[s].basket) => Units(req[s].basket, p) = 0
<1>1. req[s] \in Request
  BY RowsOfSales
<1>2. req[s].basket \in Seq(Line) /\ Selling(req[s].basket)
  BY <1>1, BasketsSell DEF Request
<1> QED BY <1>2, UnitsAreSums, UnitsSelling, UnitsOfOthers

LEMMA CoveredStep == RowsInv /\ Covered /\ [Next]_vars => Covered'
<1> SUFFICES ASSUME RowsInv, Covered, [Next]_vars, ~overtaken' PROVE CoveredBy(stock', req')
  BY DEF Covered
<1>1. ~overtaken => CoveredBy(stock, req)
  BY DEF Covered
<1>2. stock \in [Catalogue -> Int] /\ DOMAIN req = Slots
  BY DEF RowsInv, TypeOK
<1>3. CASE UNCHANGED vars
  BY <1>1, <1>3 DEF vars
<1>4. ASSUME NEW p \in Products, NEW n \in Counts, CreateProduct(p, n) PROVE CoveredBy(stock', req')
  <2>1. /\ DOMAIN stock' = Catalogue \cup {p} /\ req' = req /\ ~overtaken /\ n >= 0
        /\ stock'[p] = n /\ p \notin Catalogue /\ \A q \in Catalogue : stock'[q] = stock[q]
    BY <1>4, PosAssumption DEF CreateProduct
  <2> QED BY <1>1, <2>1 DEF CoveredBy, EnoughIn, Catalogue
<1>5. ASSUME NEW p \in Products, NEW n \in Counts, SetStock(p, n) PROVE CoveredBy(stock', req')
  <2>1. /\ DOMAIN stock' = Catalogue /\ req' = req /\ n \in Nat /\ p \in Catalogue
        /\ stock'[p] = n /\ \A q \in Catalogue : q # p => stock'[q] = stock[q]
    BY <1>2, <1>5, PosAssumption DEF SetStock
  <2>2. ~overtaken /\ ~(n < stock[p] /\ Awaited(p, Slots))
    BY <1>5 DEF SetStock, TakenBehind
  <2>3. CoveredBy(stock, req) /\ stock[p] \in Int
    BY <1>1, <1>2, <2>1, <2>2
  <2>4. \A q \in Catalogue : stock'[q] >= 0
    BY <2>1, <2>3 DEF CoveredBy, Catalogue
  <2>5. ASSUME NEW s \in Slots, req[s] # Idle PROVE EnoughIn(stock', req[s].basket)
    <3>1. EnoughIn(stock, req[s].basket)
      BY <2>3, <2>5 DEF CoveredBy
    <3>2. CASE p \in ProductsIn(req[s].basket)
      <4>1. n >= stock[p] /\ stock[p] >= Units(req[s].basket, p)
        BY <2>1, <2>2, <2>3, <2>5, <3>1, <3>2 DEF Awaited, EnoughIn
      <4>2. stock'[p] >= Units(req[s].basket, p)
        BY <2>1, <2>3, <2>5, <4>1, UnitsChecked
      <4> QED BY <2>1, <3>1, <4>2 DEF EnoughIn, Catalogue
    <3>3. CASE p \notin ProductsIn(req[s].basket)
      BY <2>1, <3>1, <3>3 DEF EnoughIn, Catalogue
    <3> QED BY <3>2, <3>3
  <2> QED BY <2>1, <2>4, <2>5 DEF CoveredBy
<1>6. ASSUME NEW p \in Products, DeleteProduct(p) PROVE CoveredBy(stock', req')
  <2>1. /\ DOMAIN stock' = Catalogue \ {p} /\ req' = req
        /\ \A q \in Catalogue \ {p} : stock'[q] = stock[q]
    BY <1>6 DEF DeleteProduct
  <2>2. ~overtaken /\ ~Awaited(p, Slots)
    BY <1>6 DEF DeleteProduct, TakenBehind
  <2> QED BY <1>1, <2>1, <2>2 DEF CoveredBy, EnoughIn, Awaited, Catalogue
<1>7. ASSUME NEW s \in Slots, NEW b \in Branches, NEW basket \in Baskets, CheckStock(s, b, basket)
      PROVE  CoveredBy(stock', req')
  <2>1. /\ stock' = stock /\ ~overtaken /\ EnoughIn(stock, basket) /\ req'[s].basket = basket
        /\ \A t \in Slots : t # s => req'[t] = req[t]
    BY <1>2, <1>7 DEF CheckStock, Enough, EnoughIn, Catalogue
  <2> QED BY <1>1, <2>1 DEF CoveredBy
<1>8. ASSUME NEW s \in Slots, GenerateReceiptNo(s) PROVE CoveredBy(stock', req')
  <2>1. req[s] \in Request /\ req[s] # Idle
    BY <1>8, RowsOfSales DEF GenerateReceiptNo, Idle
  <2>2. /\ stock' = stock /\ ~overtaken /\ req'[s].basket = req[s].basket
        /\ \A t \in Slots : t # s => req'[t] = req[t]
    BY <1>2, <1>8, <2>1 DEF GenerateReceiptNo, Request
  <2> QED BY <1>1, <2>1, <2>2 DEF CoveredBy
<1>9. ASSUME NEW s \in Slots, Fail(s) PROVE CoveredBy(stock', req')
  BY <1>1, <1>2, <1>9 DEF Fail, CoveredBy
<1>10. ASSUME NEW s \in Slots, NEW x \in Rows, CommitSale(s, x) PROVE CoveredBy(stock', req')
  <2> DEFINE basket == req[s].basket
  <2>1. /\ req[s] # Idle /\ req'[s] = Idle /\ \A t \in Slots : t # s => req'[t] = req[t]
        /\ DOMAIN stock' = Catalogue /\ \A p \in Catalogue : stock'[p] = stock[p] - Units(basket, p)
    BY <1>2, <1>10 DEF CommitSale, Idle
  <2>2. ~overtaken /\ \A p \in ProductsIn(basket) : ~Awaited(p, Slots \ {s})
    BY <1>10 DEF CommitSale, TakenBehind
  <2>3. /\ \A p : Units(basket, p) \in Int
        /\ \A p : p \notin ProductsIn(basket) => Units(basket, p) = 0
        /\ EnoughIn(stock, basket) /\ CoveredBy(stock, req)
    BY <1>1, <2>1, <2>2, UnitsChecked DEF CoveredBy
  <2> HIDE DEF basket
  <2>4. \A p \in Catalogue : stock'[p] >= 0
    <3> SUFFICES ASSUME NEW p \in Catalogue PROVE stock'[p] >= 0
      OBVIOUS
    <3>1. stock[p] >= 0 /\ stock[p] \in Int /\ stock'[p] = stock[p] - Units(basket, p)
      BY <1>2, <2>1, <2>3 DEF CoveredBy, Catalogue
    <3>2. stock[p] >= Units(basket, p)
      BY <2>3, <3>1 DEF EnoughIn
    <3> QED BY <2>3, <3>1, <3>2
  <2>5. ASSUME NEW t \in Slots, req'[t] # Idle PROVE EnoughIn(stock', req'[t].basket)
    <3>1. t # s /\ req'[t] = req[t] /\ EnoughIn(stock, req[t].basket)
      BY <2>1, <2>3, <2>5 DEF CoveredBy
    <3>2. \A p \in ProductsIn(req[t].basket) : p \notin ProductsIn(basket) /\ stock'[p] = stock[p]
      <4> SUFFICES ASSUME NEW p \in ProductsIn(req[t].basket)
                   PROVE  p \notin ProductsIn(basket) /\ stock'[p] = stock[p]
        OBVIOUS
      <4>1. p \notin ProductsIn(basket) /\ p \in Catalogue
        BY <2>2, <2>5, <3>1 DEF Awaited, EnoughIn, Catalogue
      <4> QED BY <1>2, <2>1, <2>3, <4>1
    <3> QED BY <2>1, <3>1, <3>2 DEF EnoughIn, Catalogue
  <2> QED BY <2>1, <2>4, <2>5 DEF CoveredBy
<1>11. ASSUME NEW x \in Rows, NEW y \in Rows, NEW l \in 0..Len(sale[x].lines), RefundSale(x, y, l)
       PROVE  CoveredBy(stock', req')
  <2>1. /\ req' = req /\ DOMAIN stock' = Catalogue
        /\ \A p \in Catalogue : stock'[p] = stock[p] - Units(Refunded(x, l), p)
    BY <1>11 DEF RefundSale
  <2>2. ~overtaken /\ sale[x].refunds % 2 # 1
    BY <1>11 DEF RefundSale, TakenBehind
  <2>3. x \in SoldRows /\ sale[x].refunds \in Nat
    BY <1>11, RowsOfSales DEF RefundSale, SoldRows, Sale
  <2>4. \A p : Units(Refunded(x, l), p) \in (-Units(sale[x].lines, p))..0
    BY <1>11, <2>2, <2>3, RefundWrites
  <2>5. ASSUME NEW p \in Catalogue PROVE stock'[p] >= stock[p] /\ stock'[p] \in Int /\ stock[p] \in Int
    <3>1. Units(sale[x].lines, p) \in Int
      BY <2>3, RowsOfSales, UnitsAreSums
    <3> QED BY <1>2, <2>1, <2>4, <3>1
  <2>6. CoveredBy(stock, req)
    BY <1>1, <2>2
  <2>7. \A p \in Catalogue : stock'[p] >= 0
    BY <2>5, <2>6 DEF CoveredBy, Catalogue
  <2>8. ASSUME NEW s \in Slots, req[s] # Idle PROVE EnoughIn(stock', req[s].basket)
    <3>1. EnoughIn(stock, req[s].basket)
      BY <2>6, <2>8 DEF CoveredBy
    <3>2. ASSUME NEW p \in ProductsIn(req[s].basket) PROVE stock'[p] >= Units(req[s].basket, p)
      <4>1. p \in Catalogue /\ stock[p] >= Units(req[s].basket, p)
        BY <3>1 DEF EnoughIn, Catalogue
      <4>2. stock'[p] >= stock[p] /\ stock'[p] \in Int /\ stock[p] \in Int
        BY <2>5, <4>1
      <4>3. Units(req[s].basket, p) \in Int
        BY <2>8, UnitsChecked
      <4> QED BY <4>1, <4>2, <4>3
    <3> QED BY <2>1, <3>1, <3>2 DEF EnoughIn, Catalogue
  <2> QED BY <2>1, <2>7, <2>8 DEF CoveredBy
<1> QED
  BY <1>3, <1>4, <1>5, <1>6, <1>7, <1>8, <1>9, <1>10, <1>11 DEF Next

(***************************************************************************)
(* Stock is checked long before it is taken, and yet nothing is sold that  *)
(* is not there, unless another sale, a lower count or the refund of a     *)
(* refund took of it behind the check's back.                              *)
(***************************************************************************)
THEOREM StockStaysCovered == Spec => []StockNeverNegative
<1>1. Init => RowsInv /\ Covered
  <2> SUFFICES ASSUME Init PROVE Covered
    BY RowsInit
  <2>1. DOMAIN stock = {} /\ \A s \in Slots : req[s] = Idle
    BY DEF Init
  <2> QED BY <2>1 DEF Covered, CoveredBy
<1>2. (RowsInv /\ Covered) /\ [Next]_vars => (RowsInv /\ Covered)'
  BY RowsStep, CoveredStep
<1>3. RowsInv /\ Covered => StockNeverNegative
  BY DEF Covered, CoveredBy, StockNeverNegative, Catalogue
<1> QED
  BY <1>1, <1>2, <1>3, PTL DEF Spec
-----------------------------------------------------------------------------
(***************************************************************************)
(* The rows of one receipt number: the sale, its refund, the refund of     *)
(* that, and so on, one of each up to the last.                            *)
(***************************************************************************)
ChainOf(b, n) == {y \in SoldRows : sale[y].branch = b /\ sale[y].seq = n}
UnitsLeft(b, n, p) == UnitsIn(sale, ChainOf(b, n), p)

OneOfEach ==
  \A x, y \in SoldRows :
    /\ sale[x].branch = sale[y].branch /\ sale[x].seq = sale[y].seq
    /\ sale[x].refunds = sale[y].refunds
    => x = y

NoGap == \A b, n : \A k \in Nat : Taken(b, n, k) => \A i \in 0..k : Taken(b, n, i)

(***************************************************************************)
(* k refunds after a sale of `first' units, the last of them of `last', so *)
(* many can be left sold: at least what a refund can take back, at most    *)
(* what leaves room for it to be put back.                                 *)
(***************************************************************************)
MayBeLeft(k, last, first) == IF k % 2 = 0 THEN last..first ELSE 0..(first + last)

Balanced ==
  \A b, n : \A x \in ChainOf(b, n) : sale[x].refunds = 0 =>
    \E y \in ChainOf(b, n), k \in Nat :
      /\ sale[y].refunds = k /\ ~Taken(b, n, k + 1)
      /\ \A p : UnitsLeft(b, n, p) \in
                  MayBeLeft(k, Units(sale[y].lines, p), Units(sale[x].lines, p))

ChainInv == OneOfEach /\ NoGap /\ Balanced

LEMMA ChainsAreSold ==
  ASSUME RowsInv, NEW b, NEW n
  PROVE  /\ IsFiniteSet(ChainOf(b, n))
         /\ \A y \in ChainOf(b, n) : y \in SoldRows /\ sale[y].lines \in Seq(Line)
         /\ \A p : UnitsLeft(b, n, p) \in Int
<1>1. ChainOf(b, n) \in SUBSET SoldRows
  BY DEF ChainOf
<1>2. IsFiniteSet(ChainOf(b, n))
  BY <1>1, FS_Subset DEF RowsInv
<1>3. \A y \in ChainOf(b, n) : y \in SoldRows /\ sale[y].lines \in Seq(Line)
  BY <1>1, RowsOfSales
<1> QED BY <1>2, <1>3, UnitsInRows DEF UnitsLeft

(* The rows and numbers after a row was written. *)
LEMMA ChainsAfter ==
  ASSUME RowsInv, NEW y, NEW r, WritesRow(y, r), NEW b, NEW n
  PROVE  /\ \A k : Taken(b, n, k)' <=> Taken(b, n, k) \/ (b = r.branch /\ n = r.seq /\ k = r.refunds)
         /\ ChainOf(b, n)' = IF b = r.branch /\ n = r.seq THEN ChainOf(b, n) \cup {y} ELSE ChainOf(b, n)
         /\ y \notin ChainOf(b, n)
         /\ \A p : UnitsLeft(b, n, p)' =
                     UnitsLeft(b, n, p) + IF b = r.branch /\ n = r.seq THEN Units(r.lines, p) ELSE 0
<1>1. /\ SoldRows' = SoldRows \cup {y} /\ y \notin SoldRows /\ y \in Rows
      /\ sale'[y] = r /\ \A x \in Rows : x # y => sale'[x] = sale[x]
      /\ r.lines \in Seq(Line) /\ \A p : Units(r.lines, p) \in Int
  BY AfterWriting DEF WritesRow
<1>2. \A x \in SoldRows : x \in Rows /\ x # y /\ sale'[x] = sale[x]
  BY <1>1, RowsOfSales
<1>3. ASSUME NEW k
      PROVE  Taken(b, n, k)' <=> Taken(b, n, k) \/ (b = r.branch /\ n = r.seq /\ k = r.refunds)
  <2>1. Taken(b, n, k) <=> \E x \in SoldRows : sale[x].branch = b /\ sale[x].seq = n /\ sale[x].refunds = k
    BY DEF Taken, SoldRows
  <2>2. Taken(b, n, k)' <=> \E x \in SoldRows' : sale'[x].branch = b /\ sale'[x].seq = n /\ sale'[x].refunds = k
    BY DEF Taken, SoldRows
  <2> QED BY <1>1, <1>2, <2>1, <2>2
<1>4. ChainOf(b, n)' = IF b = r.branch /\ n = r.seq THEN ChainOf(b, n) \cup {y} ELSE ChainOf(b, n)
  BY <1>1, <1>2 DEF ChainOf
<1>5. y \notin ChainOf(b, n)
  BY <1>1 DEF ChainOf
<1>6. /\ IsFiniteSet(ChainOf(b, n))
      /\ \A x \in ChainOf(b, n) : x \in SoldRows /\ sale[x].lines \in Seq(Line) /\ sale'[x] = sale[x]
      /\ \A p : UnitsLeft(b, n, p) \in Int
  BY <1>2, ChainsAreSold
<1>7. ASSUME NEW p
      PROVE  UnitsLeft(b, n, p)' =
               UnitsLeft(b, n, p) + IF b = r.branch /\ n = r.seq THEN Units(r.lines, p) ELSE 0
  <2>1. UnitsLeft(b, n, p)' = UnitsIn(sale', ChainOf(b, n)', p)
    BY DEF UnitsLeft, UnitsIn, Units
  <2>2. CASE b = r.branch /\ n = r.seq
    <3>1. UnitsIn(sale', ChainOf(b, n) \cup {y}, p) = UnitsIn(sale, ChainOf(b, n), p) + Units(r.lines, p)
      BY <1>1, <1>5, <1>6, UnitsInRowMore
    <3> QED BY <1>4, <2>1, <2>2, <3>1 DEF UnitsLeft
  <2>3. CASE ~(b = r.branch /\ n = r.seq)
    <3>1. UnitsIn(sale', ChainOf(b, n), p) = UnitsIn(sale, ChainOf(b, n), p)
      BY <1>6 DEF UnitsIn
    <3>2. UnitsLeft(b, n, p)' = UnitsLeft(b, n, p)
      BY <1>4, <2>1, <2>3, <3>1 DEF UnitsLeft
    <3> QED BY <1>6, <2>3, <3>2
  <2> QED BY <2>2, <2>3
<1> QED BY <1>3, <1>4, <1>5, <1>7
LEMMA TakenIsInChain ==
  ASSUME NEW b, NEW n, NEW k
  PROVE  Taken(b, n, k) <=> \E x \in ChainOf(b, n) : sale[x].refunds = k
BY DEF Taken, ChainOf, SoldRows

(* A row written once its predecessor is there leaves one of each and no gap. *)
LEMMA ChainWriteStep ==
  ASSUME RowsInv, OneOfEach, NoGap, NEW y, NEW r, WritesRow(y, r),
         r.refunds # 0 => \E k \in Nat : r.refunds = k + 1 /\ Taken(r.branch, r.seq, k)
  PROVE  OneOfEach' /\ NoGap'
<1>1. /\ SoldRows' = SoldRows \cup {y} /\ y \notin SoldRows
      /\ sale'[y] = r /\ \A x \in SoldRows : sale'[x] = sale[x]
      /\ r.refunds \in Nat /\ ~Taken(r.branch, r.seq, r.refunds)
  BY AfterWriting, RowsOfSales DEF WritesRow, Sale
<1>2. OneOfEach'
  <2>1. \A x \in SoldRows : ~(/\ sale[x].branch = r.branch /\ sale[x].seq = r.seq
                              /\ sale[x].refunds = r.refunds)
    BY <1>1 DEF Taken, SoldRows
  <2> QED BY <1>1, <2>1 DEF OneOfEach
<1>3. ASSUME NEW b, NEW n, NEW k \in Nat, Taken(b, n, k)', NEW i \in 0..k
      PROVE  Taken(b, n, i)'
  <2>1. \A j : Taken(b, n, j)' <=> Taken(b, n, j) \/ (b = r.branch /\ n = r.seq /\ j = r.refunds)
    BY ChainsAfter
  <2>2. CASE Taken(b, n, k)
    BY <2>1, <2>2 DEF NoGap
  <2>3. CASE b = r.branch /\ n = r.seq /\ k = r.refunds
    <3>1. CASE i = k
      BY <2>1, <2>3, <3>1
    <3>2. CASE i # k
      <4> PICK j \in Nat : k = j + 1 /\ Taken(b, n, j)
        BY <2>3, <3>2
      <4>1. i \in 0..j
        BY <3>2
      <4> QED BY <2>1, <4>1 DEF NoGap
    <3> QED BY <3>1, <3>2
  <2> QED BY <1>3, <2>1, <2>2, <2>3
<1> QED BY <1>2, <1>3 DEF NoGap

LEMMA CommitKeepsChains ==
  ASSUME RowsInv, ChainInv, NEW s \in Slots, NEW x \in Rows, CommitSale(s, x)
  PROVE  ChainInv'
<1> DEFINE r == SaleOf(s)
<1>1. WritesRow(x, r)
  BY CommitWrites
<1> PICK br, seq : br = r.branch /\ seq = r.seq
  OBVIOUS
<1>2. r.refunds = 0 /\ ~Taken(br, seq, 0)
  BY <1>1 DEF SaleOf, WritesRow
<1>3. /\ sale'[x] = r /\ \A y \in SoldRows : sale'[y] = sale[y] /\ sale[y].refunds \in Nat
      /\ \A p : Units(r.lines, p) \in Int
  BY <1>1, AfterWriting, RowsOfSales DEF WritesRow, Sale
<1> HIDE DEF r
<1>4. OneOfEach' /\ NoGap'
  BY <1>1, <1>2, ChainWriteStep DEF ChainInv
<1>5. ChainOf(br, seq) = {} /\ \A k \in Nat : ~Taken(br, seq, k)
  <2>1. \A k \in Nat : ~Taken(br, seq, k)
    BY <1>2 DEF ChainInv, NoGap
  <2>2. \A y \in ChainOf(br, seq) : y \in SoldRows
    BY DEF ChainOf
  <2> QED BY <1>3, <2>1, <2>2, TakenIsInChain
<1>6. ASSUME NEW b, NEW n, NEW z \in ChainOf(b, n)', sale'[z].refunds = 0
      PROVE  \E y \in ChainOf(b, n)', k \in Nat :
               /\ sale'[y].refunds = k /\ ~Taken(b, n, k + 1)'
               /\ \A p : UnitsLeft(b, n, p)' \in
                           MayBeLeft(k, Units(sale'[y].lines, p), Units(sale'[z].lines, p))
  <2>1. /\ \A k : Taken(b, n, k)' <=> Taken(b, n, k) \/ (b = br /\ n = seq /\ k = 0)
        /\ ChainOf(b, n)' = IF b = br /\ n = seq THEN ChainOf(b, n) \cup {x} ELSE ChainOf(b, n)
        /\ \A p : UnitsLeft(b, n, p)' =
                    UnitsLeft(b, n, p) + IF b = br /\ n = seq THEN Units(r.lines, p) ELSE 0
        /\ \A p : UnitsLeft(b, n, p) \in Int
        /\ \A y \in ChainOf(b, n) : y \in SoldRows
    BY <1>1, <1>2, ChainsAfter, ChainsAreSold
  <2>2. CASE b = br /\ n = seq
    <3>1. ChainOf(b, n)' = {x} /\ z = x
      BY <1>5, <1>6, <2>1, <2>2
    <3>2. ~Taken(b, n, 0 + 1)'
      BY <1>5, <2>1, <2>2
    <3>3. \A p : UnitsLeft(b, n, p) = 0
      <4> SUFFICES ASSUME NEW p PROVE UnitsLeft(b, n, p) = 0
        OBVIOUS
      <4>1. ChainOf(b, n) = {}
        BY <1>5, <2>2
      <4> QED BY <4>1, ChainsAreSold, UnitsInRows DEF UnitsLeft
    <3>4. \A p : UnitsLeft(b, n, p)' \in MayBeLeft(0, Units(r.lines, p), Units(r.lines, p))
      BY <1>3, <2>1, <2>2, <3>3 DEF MayBeLeft
    <3> QED BY <1>2, <1>3, <3>1, <3>2, <3>4
  <2>3. CASE ~(b = br /\ n = seq)
    <3>1. /\ ChainOf(b, n)' = ChainOf(b, n) /\ \A k : Taken(b, n, k)' <=> Taken(b, n, k)
          /\ \A p : UnitsLeft(b, n, p)' = UnitsLeft(b, n, p)
      BY <2>1, <2>3
    <3>2. \A y \in ChainOf(b, n) : sale'[y] = sale[y]
      BY <1>3, <2>1
    <3>3. z \in ChainOf(b, n) /\ sale[z].refunds = 0
      BY <1>6, <3>1, <3>2
    <3>4. PICK y \in ChainOf(b, n), k \in Nat :
            /\ sale[y].refunds = k /\ ~Taken(b, n, k + 1)
            /\ \A p : UnitsLeft(b, n, p) \in MayBeLeft(k, Units(sale[y].lines, p), Units(sale[z].lines, p))
      BY <3>3 DEF ChainInv, Balanced
    <3> QED BY <3>1, <3>2, <3>3, <3>4
  <2> QED BY <2>2, <2>3
<1>7. Balanced'
  BY <1>6 DEF Balanced, Units
<1> QED BY <1>4, <1>7 DEF ChainInv
(***************************************************************************)
(* A refund of the last row takes back a part of it, which leaves what can *)
(* be taken back of the refund itself.                                     *)
(***************************************************************************)
LEMMA PartGoesBack ==
  ASSUME NEW k \in Nat, NEW last \in Int, NEW first \in Int, NEW left \in MayBeLeft(k, last, first),
         NEW back \in Int,
         IF k % 2 = 0 THEN back \in (-last)..0 ELSE back \in 0..(-last)
  PROVE  left + back \in MayBeLeft(k + 1, back, first)
<1>1. k % 2 = 0 => (k + 1) % 2 # 0
  OBVIOUS
<1>2. k % 2 # 0 => (k + 1) % 2 = 0
  OBVIOUS
<1>3. CASE k % 2 = 0
  BY <1>1, <1>3 DEF MayBeLeft
<1>4. CASE k % 2 # 0
  BY <1>2, <1>4 DEF MayBeLeft
<1> QED BY <1>3, <1>4

LEMMA RefundKeepsChains ==
  ASSUME RowsInv, ChainInv, NEW x \in Rows, NEW new \in Rows, NEW l \in 0..Len(sale[x].lines),
         RefundSale(x, new, l)
  PROVE  ChainInv'
<1> DEFINE r == RefundOf(x, l)
<1>1. /\ WritesRow(new, r) /\ x \in SoldRows
      /\ sale[x].refunds % 2 = 0 => \A p : Units(r.lines, p) \in (-Units(sale[x].lines, p))..0
      /\ sale[x].refunds % 2 # 0 => \A p : Units(r.lines, p) \in 0..(-Units(sale[x].lines, p))
  BY RefundWrites DEF RefundOf
<1> PICK br, seq : br = r.branch /\ seq = r.seq
  OBVIOUS
<1>2. sale[x].refunds \in Nat
  BY <1>1, RowsOfSales DEF Sale
<1> PICK m \in Nat : m = sale[x].refunds
  BY <1>2
<1>3. /\ r.refunds = m + 1 /\ ~Taken(br, seq, m + 1)
      /\ x \in ChainOf(br, seq)
  BY <1>1 DEF RefundOf, WritesRow, ChainOf
<1>4. /\ sale'[new] = r /\ \A y \in SoldRows : sale'[y] = sale[y] /\ sale[y].refunds \in Nat
      /\ \A p : Units(r.lines, p) \in Int
      /\ \A y \in SoldRows : \A p : Units(sale[y].lines, p) \in Int
  BY <1>1, AfterWriting, RowsOfSales, UnitsAreSums DEF WritesRow, Sale
<1> HIDE DEF r
<1>5. OneOfEach' /\ NoGap'
  <2>1. Taken(br, seq, m)
    BY <1>3, TakenIsInChain
  <2> QED BY <1>1, <1>3, <2>1, ChainWriteStep DEF ChainInv
<1>6. ASSUME NEW b, NEW n, NEW z \in ChainOf(b, n)', sale'[z].refunds = 0
      PROVE  \E y \in ChainOf(b, n)', k \in Nat :
               /\ sale'[y].refunds = k /\ ~Taken(b, n, k + 1)'
               /\ \A p : UnitsLeft(b, n, p)' \in
                           MayBeLeft(k, Units(sale'[y].lines, p), Units(sale'[z].lines, p))
  <2>1. /\ \A k : Taken(b, n, k)' <=> Taken(b, n, k) \/ (b = br /\ n = seq /\ k = m + 1)
        /\ ChainOf(b, n)' = IF b = br /\ n = seq THEN ChainOf(b, n) \cup {new} ELSE ChainOf(b, n)
        /\ \A p : UnitsLeft(b, n, p)' =
                    UnitsLeft(b, n, p) + IF b = br /\ n = seq THEN Units(r.lines, p) ELSE 0
        /\ \A p : UnitsLeft(b, n, p) \in Int
        /\ \A y \in ChainOf(b, n) : y \in SoldRows
    BY <1>1, <1>3, ChainsAfter, ChainsAreSold
  <2>2. \A y \in ChainOf(b, n) : sale'[y] = sale[y]
    BY <1>4, <2>1
  <2>3. z \in ChainOf(b, n) /\ sale[z].refunds = 0
    BY <1>3, <1>4, <1>6, <2>1, <2>2
  <2>4. PICK y \in ChainOf(b, n), k \in Nat :
          /\ sale[y].refunds = k /\ ~Taken(b, n, k + 1)
          /\ \A p : UnitsLeft(b, n, p) \in MayBeLeft(k, Units(sale[y].lines, p), Units(sale[z].lines, p))
    BY <2>3 DEF ChainInv, Balanced
  <2>5. CASE b = br /\ n = seq
    <3>1. y = x /\ k = m
      <4>1. Taken(b, n, k) /\ Taken(b, n, m)
        BY <1>3, <2>4, <2>5, TakenIsInChain
      <4>2. ~(k < m) /\ ~(m < k)
        <5>1. k < m => Taken(b, n, k + 1)
          BY <4>1 DEF ChainInv, NoGap
        <5>2. m < k => Taken(b, n, m + 1)
          BY <4>1 DEF ChainInv, NoGap
        <5> QED BY <1>3, <2>4, <2>5, <5>1, <5>2
      <4> QED BY <1>3, <2>1, <2>4, <2>5, <4>2 DEF ChainInv, OneOfEach, ChainOf
    <3>2. ~Taken(b, n, (m + 1) + 1)'
      <4>1. Taken(b, n, (m + 1) + 1) => Taken(b, n, m + 1)
        BY DEF ChainInv, NoGap
      <4> QED BY <1>3, <2>1, <2>5, <4>1
    <3>3. ASSUME NEW p
          PROVE  UnitsLeft(b, n, p)' \in MayBeLeft(m + 1, Units(r.lines, p), Units(sale[z].lines, p))
      <4>1. /\ UnitsLeft(b, n, p) \in MayBeLeft(m, Units(sale[x].lines, p), Units(sale[z].lines, p))
            /\ Units(r.lines, p) \in Int /\ Units(sale[x].lines, p) \in Int
            /\ Units(sale[z].lines, p) \in Int
        BY <1>1, <1>4, <2>1, <2>3, <2>4, <3>1
      <4>2. IF m % 2 = 0 THEN Units(r.lines, p) \in (-Units(sale[x].lines, p))..0
                         ELSE Units(r.lines, p) \in 0..(-Units(sale[x].lines, p))
        BY <1>1
      <4>3. UnitsLeft(b, n, p)' = UnitsLeft(b, n, p) + Units(r.lines, p)
        BY <2>1, <2>5
      <4> QED BY <4>1, <4>2, <4>3, PartGoesBack
    <3>4. new \in ChainOf(b, n)' /\ sale'[new].refunds = m + 1
      BY <1>3, <1>4, <2>1, <2>5
    <3> QED BY <1>4, <2>2, <2>3, <3>2, <3>3, <3>4
  <2>6. CASE ~(b = br /\ n = seq)
    <3>1. /\ ChainOf(b, n)' = ChainOf(b, n) /\ \A i : Taken(b, n, i)' <=> Taken(b, n, i)
          /\ \A p : UnitsLeft(b, n, p)' = UnitsLeft(b, n, p)
      BY <2>1, <2>6
    <3> QED BY <2>2, <2>3, <2>4, <3>1
  <2> QED BY <2>5, <2>6
<1>7. Balanced'
  BY <1>6 DEF Balanced, Units
<1> QED BY <1>5, <1>7 DEF ChainInv

LEMMA ChainStep == RowsInv /\ ChainInv /\ [Next]_vars => ChainInv'
<1> SUFFICES ASSUME RowsInv, ChainInv, [Next]_vars PROVE ChainInv'
  OBVIOUS
<1>1. ASSUME sale' = sale PROVE ChainInv'
  <2>1. SoldRows' = SoldRows
    BY <1>1 DEF SoldRows, Sold
  <2>2. \A b, n, k : Taken(b, n, k)' <=> Taken(b, n, k)
    BY <1>1 DEF Taken, Sold
  <2>3. \A b, n : ChainOf(b, n)' = ChainOf(b, n)
    BY <1>1, <2>1 DEF ChainOf
  <2>4. \A b, n, p : UnitsLeft(b, n, p)' = UnitsLeft(b, n, p)
    BY <1>1, <2>3 DEF UnitsLeft, UnitsIn, Units
  <2>5. OneOfEach' /\ NoGap'
    BY <1>1, <2>1, <2>2 DEF ChainInv, OneOfEach, NoGap
  <2>6. Balanced'
    BY <1>1, <2>2, <2>3, <2>4 DEF ChainInv, Balanced, Units
  <2> QED BY <2>5, <2>6 DEF ChainInv
<1>2. CASE UNCHANGED vars
  BY <1>1, <1>2 DEF vars
<1>3. ASSUME NEW p \in Products,
             DeleteProduct(p) \/ \E n \in Counts : CreateProduct(p, n) \/ SetStock(p, n)
      PROVE  ChainInv'
  BY <1>1, <1>3 DEF DeleteProduct, CreateProduct, SetStock
<1>4. ASSUME NEW s \in Slots,
             GenerateReceiptNo(s) \/ Fail(s) \/ \E b \in Branches, basket \in Baskets : CheckStock(s, b, basket)
      PROVE  ChainInv'
  BY <1>1, <1>4 DEF GenerateReceiptNo, Fail, CheckStock
<1> QED
  BY <1>2, <1>3, <1>4, CommitKeepsChains, RefundKeepsChains DEF Next

(***************************************************************************)
(* However often a sale, its refund and the refund of that are refunded,   *)
(* in part or in full, what is left sold is between nothing and the sale.  *)
(***************************************************************************)
THEOREM RefundsStayWithinSales == Spec => []ReturnedWithinSold
<1>1. Init => RowsInv /\ ChainInv
  <2> SUFFICES ASSUME Init PROVE ChainInv
    BY RowsInit
  <2>1. SoldRows = {}
    BY DEF Init, SoldRows, Sold
  <2> QED BY <2>1 DEF ChainInv, OneOfEach, NoGap, Balanced, ChainOf, Taken, SoldRows
<1>2. (RowsInv /\ ChainInv) /\ [Next]_vars => (RowsInv /\ ChainInv)'
  BY RowsStep, ChainStep
<1>3. RowsInv /\ ChainInv => ReturnedWithinSold
  <2> SUFFICES ASSUME RowsInv, ChainInv, NEW x \in Rows, Sold(x), sale[x].refunds = 0, NEW p \in Products
               PROVE  UnitsSold({y \in Rows : Sold(y) /\ sale[y].branch = sale[x].branch /\ sale[y].seq = sale[x].seq}, p)
                        \in 0..Units(sale[x].lines, p)
    BY DEF ReturnedWithinSold
  <2> PICK b, n : b = sale[x].branch /\ n = sale[x].seq
    OBVIOUS
  <2>1. {y \in Rows : Sold(y) /\ sale[y].branch = sale[x].branch /\ sale[y].seq = sale[x].seq} = ChainOf(b, n)
    BY DEF ChainOf, SoldRows
  <2>2. UnitsSold(ChainOf(b, n), p) = UnitsLeft(b, n, p)
    BY UnitsSoldAreIn DEF UnitsLeft
  <2>3. x \in ChainOf(b, n)
    BY DEF ChainOf, SoldRows
  <2>4. PICK y \in ChainOf(b, n), k \in Nat :
          /\ sale[y].refunds = k
          /\ UnitsLeft(b, n, p) \in MayBeLeft(k, Units(sale[y].lines, p), Units(sale[x].lines, p))
    BY <2>3 DEF ChainInv, Balanced
  <2>5. /\ y \in SoldRows /\ sale[y].lines \in Seq(Line) /\ sale[x].lines \in Seq(Line)
        /\ Units(sale[y].lines, p) \in Int /\ Units(sale[x].lines, p) \in Int /\ UnitsLeft(b, n, p) \in Int
    BY <2>3, ChainsAreSold, UnitsAreSums
  <2>6. IF k % 2 = 0 THEN Units(sale[y].lines, p) >= 0 ELSE Units(sale[y].lines, p) <= 0
    <3>1. IF k % 2 = 0 THEN Selling(sale[y].lines) ELSE Returning(sale[y].lines)
      BY <2>4, <2>5 DEF RowsInv, Signed
    <3> QED BY <2>5, <3>1, UnitsSelling, UnitsReturning
  <2>7. UnitsLeft(b, n, p) \in 0..Units(sale[x].lines, p)
    BY <2>4, <2>5, <2>6 DEF MayBeLeft
  <2> QED BY <2>1, <2>2, <2>7
<1> QED
  BY <1>1, <1>2, <1>3, PTL DEF Spec
=============================================================================
