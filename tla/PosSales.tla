------------------------------- MODULE PosSales -------------------------------
(***************************************************************************)
(* The point of sale: products with a stock, sales, and refunds, which are *)
(* sales with negative quantities.  createSale checks the stock, counts    *)
(* the branch's sales of the day for its receipt number, and writes, in    *)
(* one READ COMMITTED transaction; other requests commit between these.    *)
(* The module is about one day (receipt numbers start again at midnight;   *)
(* no sale is ever deleted) and about units: money, printing and the       *)
(* cached list of products are left out.                                   *)
(***************************************************************************)
EXTENDS Integers, Sequences, FiniteSets, Functions

CONSTANTS
  Products, Branches,
  Rows,           \* rows of table sales
  Slots,          \* createSale requests in flight at a time
  Baskets,        \* what customers buy: sequences of lines
  Counts,         \* what a manager enters as the stock of a product
  MaxReceived     \* bound: the stock is not set once this much came in

Line == [product : Products, qty : Int]

ASSUME PosAssumption ==
  /\ Baskets \subseteq Seq([product : Products, qty : Nat \ {0}])
  /\ Counts \subseteq Nat
  /\ MaxReceived \in Nat

VARIABLES
  stock,      \* stockQty of the products in the catalogue
  sale,       \* table sales, with the lines of each
  req,        \* the createSale requests in flight
  received,   \* what stock would be had nothing been sold or refunded
  overtaken   \* for the properties: has stock been taken behind a check's back?

vars == <<stock, sale, req, received, overtaken>>

NoSale == [refunds |-> -1]
Sale   == [branch : Branches, seq : Nat, refunds : Nat, lines : Seq(Line)]

Idle    == [pc |-> "idle"]
Request == [pc : {"checked", "numbered"}, branch : Branches, basket : Baskets, seq : Nat]

Catalogue == DOMAIN stock
Sold(x)   == sale[x] # NoSale
ProductsIn(lines) == {lines[l].product : l \in DOMAIN lines}

(* Every line of a sale refers to a product there is.                      *)
TypeOK ==
  /\ Catalogue \subseteq Products
  /\ stock \in [Catalogue -> Int]
  /\ sale \in [Rows -> {NoSale} \cup Sale]
  /\ \A x \in Rows : Sold(x) => ProductsIn(sale[x].lines) \subseteq Catalogue
  /\ req \in [Slots -> {Idle} \cup Request]
  /\ received \in [Products -> Int]
  /\ overtaken \in BOOLEAN

Init ==
  /\ stock = [p \in {} |-> 0]
  /\ sale = [x \in Rows |-> NoSale]
  /\ req = [s \in Slots |-> Idle]
  /\ received = [p \in Products |-> 0]
  /\ overtaken = FALSE

(* Some other sale has checked the stock of p and not yet taken it.        *)
Awaited(p, others) == \E s \in others : req[s] # Idle /\ p \in ProductsIn(req[s].basket)

TakenBehind(b) == overtaken' = (overtaken \/ b)

(* Units of a product in the lines of a sale, and in a set of sales.       *)
Units(lines, p) ==
  SumFunctionOnSet([l \in DOMAIN lines |-> lines[l].qty], {l \in DOMAIN lines : lines[l].product = p})

UnitsSold(S, p) == SumFunction([x \in S |-> Units(sale[x].lines, p)])

-----------------------------------------------------------------------------
(***************************************************************************)
(* createProduct, updateProduct with a stockQty, deleteProduct.            *)
(***************************************************************************)
CreateProduct(p, n) ==
  /\ p \notin Catalogue
  /\ received[p] < MaxReceived
  /\ stock' = [q \in Catalogue \cup {p} |-> IF q = p THEN n ELSE stock[q]]
  /\ received' = [received EXCEPT ![p] = n]
  /\ UNCHANGED <<sale, req, overtaken>>

SetStock(p, n) ==
  /\ p \in Catalogue
  /\ received[p] < MaxReceived
  /\ stock' = [stock EXCEPT ![p] = n]
  /\ received' = [received EXCEPT ![p] = n + (@ - stock[p])]
  /\ TakenBehind(n < stock[p] /\ Awaited(p, Slots))
  /\ UNCHANGED <<sale, req>>

(* Fault: lines of sales do not keep their product.                        *)
DeleteProductAnyway(p) ==
  /\ p \in Catalogue
  /\ stock' = [q \in Catalogue \ {p} |-> stock[q]]
  /\ TakenBehind(Awaited(p, Slots))
  /\ UNCHANGED <<sale, req, received>>

(* The foreign key of sale_items refuses it once the product was sold.     *)
DeleteProduct(p) ==
  /\ p \in Catalogue
  /\ \A x \in Rows : Sold(x) => p \notin ProductsIn(sale[x].lines)
  /\ stock' = [q \in Catalogue \ {p} |-> stock[q]]
  /\ TakenBehind(Awaited(p, Slots))
  /\ UNCHANGED <<sale, req, received>>

-----------------------------------------------------------------------------
(***************************************************************************)
(* createSale.  A basket it refuses ends the request with no effect.       *)
(***************************************************************************)
(* Fault: each line of the basket is checked by itself.                    *)
EnoughForEachLine(basket) ==
  /\ ProductsIn(basket) \subseteq Catalogue
  /\ \A l \in DOMAIN basket : stock[basket[l].product] >= basket[l].qty

Enough(basket) ==
  /\ ProductsIn(basket) \subseteq Catalogue
  /\ \A p \in ProductsIn(basket) : stock[p] >= Units(basket, p)

CheckStock(s, b, basket) ==
  /\ req[s] = Idle
  /\ Enough(basket)
  /\ req' = [req EXCEPT ![s] = [pc |-> "checked", branch |-> b, basket |-> basket, seq |-> 0]]
  /\ UNCHANGED <<stock, sale, received, overtaken>>

(* Fault: a sale that was refunded is not counted, nor is its refund.      *)
SalesCountStanding(b) ==
  Cardinality({x \in Rows : /\ Sold(x) /\ sale[x].branch = b /\ sale[x].refunds = 0
                            /\ ~\E y \in Rows : /\ Sold(y) /\ sale[y].branch = b
                                                /\ sale[y].seq = sale[x].seq /\ y # x})

(* Refunds are sales, and count.                                           *)
SalesCount(b) == Cardinality({x \in Rows : Sold(x) /\ sale[x].branch = b})

GenerateReceiptNo(s) ==
  /\ req[s].pc = "checked"
  /\ req' = [req EXCEPT ![s].pc = "numbered", ![s].seq = SalesCount(req[s].branch) + 1]
  /\ UNCHANGED <<stock, sale, received, overtaken>>

(* receiptNo is unique; a refund has that of its sale with -R behind.      *)
Taken(b, seq, refunds) ==
  \E x \in Rows : Sold(x) /\ sale[x].branch = b /\ sale[x].seq = seq /\ sale[x].refunds = refunds

CommitSale(s, x) ==
  LET r == req[s] IN
  /\ r.pc = "numbered"
  /\ ~Sold(x)
  /\ ~Taken(r.branch, r.seq, 0)
  /\ ProductsIn(r.basket) \subseteq Catalogue
  /\ sale' = [sale EXCEPT ![x] = [branch |-> r.branch, seq |-> r.seq, refunds |-> 0,
                                  lines |-> r.basket]]
  /\ stock' = [p \in Catalogue |-> stock[p] - Units(r.basket, p)]
  /\ req' = [req EXCEPT ![s] = Idle]
  /\ TakenBehind(\E p \in ProductsIn(r.basket) : Awaited(p, Slots \ {s}))
  /\ UNCHANGED received

(* A check refuses, the number is taken, a product is gone, the database   *)
(* fails: the transaction leaves nothing behind.                           *)
Fail(s) ==
  /\ req[s] # Idle
  /\ req' = [req EXCEPT ![s] = Idle]
  /\ UNCHANGED <<stock, sale, received, overtaken>>

-----------------------------------------------------------------------------
(***************************************************************************)
(* refundSale: the whole sale or one of its lines.  Rows of sales and      *)
(* their lines never change, so what it has read is still so when it       *)
(* writes, and the unique number decides between two of them.              *)
(***************************************************************************)
Refunded(x, l) ==
  LET back(m) == [sale[x].lines[m] EXCEPT !.qty = -@] IN
  IF l = 0 THEN [m \in DOMAIN sale[x].lines |-> back(m)] ELSE <<back(l)>>

(* Fault: one line is refunded, and the whole sale put back.               *)
RefundPutsAllBack(x, y, l) ==
  LET r == sale[x] IN
  /\ Sold(x) /\ ~Sold(y)
  /\ l \in 0..Len(r.lines)
  /\ ~Taken(r.branch, r.seq, r.refunds + 1)
  /\ sale' = [sale EXCEPT ![y] = [branch |-> r.branch, seq |-> r.seq,
                                  refunds |-> r.refunds + 1, lines |-> Refunded(x, l)]]
  /\ stock' = [p \in Catalogue |-> stock[p] + Units(r.lines, p)]
  /\ TakenBehind(r.refunds % 2 = 1)
  /\ UNCHANGED <<req, received>>

(* Fault: the number of a refund counts the refunds there were.            *)
RefundAgain(x, y, l) ==
  LET r == sale[x]
      earlier == {z \in Rows : Sold(z) /\ sale[z].branch = r.branch /\ sale[z].seq = r.seq}
  IN
  /\ Sold(x) /\ ~Sold(y)
  /\ l \in 0..Len(r.lines)
  /\ sale' = [sale EXCEPT ![y] = [branch |-> r.branch, seq |-> r.seq,
                                  refunds |-> Cardinality(earlier), lines |-> Refunded(x, l)]]
  /\ stock' = [p \in Catalogue |-> stock[p] - Units(Refunded(x, l), p)]
  /\ TakenBehind(r.refunds % 2 = 1)
  /\ UNCHANGED <<req, received>>

RefundSale(x, y, l) ==
  LET r == sale[x] IN
  /\ Sold(x) /\ ~Sold(y)
  /\ l \in 0..Len(r.lines)
  /\ ~Taken(r.branch, r.seq, r.refunds + 1)
  /\ sale' = [sale EXCEPT ![y] = [branch |-> r.branch, seq |-> r.seq,
                                  refunds |-> r.refunds + 1, lines |-> Refunded(x, l)]]
  /\ stock' = [p \in Catalogue |-> stock[p] - Units(Refunded(x, l), p)]
  /\ TakenBehind(r.refunds % 2 = 1)
  /\ UNCHANGED <<req, received>>

-----------------------------------------------------------------------------
Next ==
  \/ \E p \in Products : DeleteProduct(p) \/ \E n \in Counts : CreateProduct(p, n) \/ SetStock(p, n)
  \/ \E s \in Slots :
       \/ \E b \in Branches, basket \in Baskets : CheckStock(s, b, basket)
       \/ GenerateReceiptNo(s) \/ Fail(s)
       \/ \E x \in Rows : CommitSale(s, x)
  \/ \E x, y \in Rows : Sold(x) /\ \E l \in 0..Len(sale[x].lines) : RefundSale(x, y, l)

Spec == Init /\ [][Next]_vars
-----------------------------------------------------------------------------
(***************************************************************************)
(* Under every interleaving, with checks read long before the writes, no   *)
(* unit is lost or counted twice: the stock is what came in, less what the *)
(* rows of sales and refunds say was sold.                                 *)
(***************************************************************************)
StockAccounted ==
  \A p \in Catalogue : stock[p] = received[p] - UnitsSold({x \in Rows : Sold(x)}, p)

(***************************************************************************)
(* However sales and refunds interleave, the number the next sale counts   *)
(* for itself is free: numbering never comes to a halt.                    *)
(***************************************************************************)
NextNumberFree == \A b \in Branches : ~Taken(b, SalesCount(b) + 1, 0)

(***************************************************************************)
(* However often a sale, its refund and the refund of that are refunded,   *)
(* in part or in full, no more comes back than was sold and no more stays  *)
(* sold than was.                                                          *)
(***************************************************************************)
ReturnedWithinSold ==
  \A x \in Rows : Sold(x) /\ sale[x].refunds = 0 =>
    LET chain == {y \in Rows : Sold(y) /\ sale[y].branch = sale[x].branch /\ sale[y].seq = sale[x].seq}
    IN  \A p \in Products : UnitsSold(chain, p) \in 0..Units(sale[x].lines, p)

(***************************************************************************)
(* "Insufficient stock for ...": nothing is sold that is not there, unless *)
(* stock was taken after a sale in flight had checked it (by another sale, *)
(* or by a lower count) or a refund was itself refunded.  However many     *)
(* lines of a basket name one product: they are checked together.          *)
(***************************************************************************)
StockNeverNegative == overtaken \/ \A p \in Catalogue : stock[p] >= 0
=============================================================================
