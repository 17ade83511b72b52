------------------------------- MODULE Amounts -------------------------------
(***************************************************************************)
(* What a document or a sale comes to: math.service.ts and pos.math.ts in  *)
(* the API, calculateTotals and calculateSst on the screens.  Money is in  *)
(* cents.  The quantity of a line is in hundredths, so quantity times      *)
(* price is in hundredths of a cent.                                       *)
(***************************************************************************)
EXTENDS Integers, Sequences, Functions

(***************************************************************************)
(* Math.round of num/den cents.  The program computes in binary fractions  *)
(* of ringgit: what is half a cent on paper may come out just below it (6% *)
(* of 2.75 does), so either neighbour is possible there.                   *)
(***************************************************************************)
Rounded(num, den) ==
  LET up == (2 * num + den) \div (2 * den) IN
  IF (2 * num + den) % (2 * den) = 0 THEN {up - 1, up} ELSE {up}

(* All the sums of a number out of each of some sets.                      *)
SumsFrom(sets) ==
  LET Choices == {f \in [DOMAIN sets -> UNION Range(sets)] : \A i \in DOMAIN sets : f[i] \in sets[i]}
  IN  {SumFunction(f) : f \in Choices}

Gross(line) == line.qty * line.price

DiscountOf(lines) == SumFunction([i \in DOMAIN lines |-> lines[i].discount])
GrossOf(lines)    == SumFunction([i \in DOMAIN lines |-> Gross(lines[i])])

-----------------------------------------------------------------------------
(* MathService: each line is rounded, and then added.                      *)
AcceptsLine(line) == line.qty > 0 /\ \A gross \in Rounded(Gross(line), 100) : line.discount <= gross

Accepts(lines) == lines # <<>> /\ \A i \in DOMAIN lines : AcceptsLine(lines[i])

ItemsTotals(lines) == SumsFrom([i \in DOMAIN lines |-> Rounded(Gross(lines[i]), 100)])

ApiGrandTotals(lines) ==
  UNION {{taxable + sst : sst \in Rounded(6 * taxable, 100)} :
           taxable \in {t - DiscountOf(lines) : t \in ItemsTotals(lines)}}

-----------------------------------------------------------------------------
(***************************************************************************)
(* resolveItems of credit-notes.service.ts: an item of a credit note names *)
(* a line of the invoice and takes from it what it does not give itself,   *)
(* or names none (0) and gives everything.                                 *)
(***************************************************************************)
NotGiven == -1
Given(value, default) == IF value = NotGiven THEN default ELSE value

NoLine == [described |-> FALSE, qty |-> NotGiven, price |-> NotGiven, discount |-> 0]

(* Fault: a discount that is not given is none.                            *)
ResolvedWithoutDiscount(lines, item) ==
  LET line == IF item.line = 0 THEN NoLine ELSE lines[item.line] IN
  [described |-> item.described \/ line.described, qty |-> Given(item.qty, line.qty),
   price |-> Given(item.price, line.price), discount |-> Given(item.discount, 0)]

ResolvedItem(lines, item) ==
  LET line == IF item.line = 0 THEN NoLine ELSE lines[item.line] IN
  [described |-> item.described \/ line.described, qty |-> Given(item.qty, line.qty),
   price |-> Given(item.price, line.price), discount |-> Given(item.discount, line.discount)]

Resolves(lines, items) ==
  /\ items # <<>>
  /\ \A i \in DOMAIN items :
       /\ items[i].line \in {0} \cup DOMAIN lines
       /\ LET item == ResolvedItem(lines, items[i]) IN
          item.described /\ item.qty # NotGiven /\ item.price # NotGiven /\ item.discount >= 0

(* What a credit note over some items of an invoice's lines comes to: no   *)
(* total if the service refuses it.                                        *)
CreditGrandTotals(lines, items) ==
  IF ~Resolves(lines, items) THEN {}
  ELSE LET resolved == [i \in DOMAIN items |-> ResolvedItem(lines, items[i])] IN
       IF Accepts(resolved) THEN ApiGrandTotals(resolved) ELSE {}

-----------------------------------------------------------------------------
(* The screens: nothing is rounded before the tax.                         *)
TaxableOf(lines) ==
  LET net == GrossOf(lines) - 100 * DiscountOf(lines) IN IF net < 0 THEN 0 ELSE net

(* Fault: the discount comes off after the tax.                            *)
TaxedBeforeDiscount(lines) ==
  UNION {Rounded(GrossOf(lines) + 100 * (sst - DiscountOf(lines)), 100) :
           sst \in Rounded(6 * GrossOf(lines), 10000)}

WebGrandTotals(lines) ==
  UNION {Rounded(TaxableOf(lines) + 100 * sst, 100) : sst \in Rounded(6 * TaxableOf(lines), 10000)}

-----------------------------------------------------------------------------
(* calculateSst of pos.math.ts and of the till: on whole cents, and exact. *)
Sst(net) == (12 * net + 100) \div 200

Sale(subtotal, discount) ==
  LET net == subtotal - discount IN [net |-> net, total |-> net + Sst(net)]
=============================================================================
