---------------------------- MODULE InvoiceRules ----------------------------
(***************************************************************************)
(* The rules by which one request reads and rewrites one row of the        *)
(* invoices table: invoices.service.ts, credit-notes.service.ts and the    *)
(* status guards of their controllers.  Money is in cents.                 *)
(*                                                                         *)
(* A handler computes with the row it has READ some time ago and then      *)
(* updates only the columns it names, so a rule takes two rows: row, the   *)
(* one being written, and read, the one the handler has seen.              *)
(* InvoiceLedger passes the same row twice; BillingRequests does not.      *)
(***************************************************************************)
EXTENDS Integers

(***************************************************************************)
(* "NEW" is an id not handed out yet, "GONE" the id of a deleted row (ids  *)
(* are cuids and never come back); the others are the InvoiceStatus enum.  *)
(***************************************************************************)
InvoiceStatus == {"DRAFT", "SENT", "PARTIALLY_PAID", "PAID", "VOID"}
RowStatus     == InvoiceStatus \cup {"NEW", "GONE"}

(***************************************************************************)
(* items is the grand total the row's own line items add up to, tax        *)
(* included; grand, paid and due are grandTotal, paidTotal, balanceDue.    *)
(***************************************************************************)
InvoiceRow == [status : RowStatus, items : Nat, grand : Nat, paid : Nat, due : Nat]

NoRow   == [status |-> "NEW",  items |-> 0, grand |-> 0, paid |-> 0, due |-> 0]
GoneRow == [NoRow EXCEPT !.status = "GONE"]

Exists(row) == row.status \in InvoiceStatus

NonNegative(n) == IF n > 0 THEN n ELSE 0

-----------------------------------------------------------------------------
(***************************************************************************)
(* What the status guard of the controller lets through.                   *)
(***************************************************************************)
GuardStatuses ==
  [update |-> {"DRAFT"}, remove |-> {"DRAFT"}, send |-> {"DRAFT"},
   pay    |-> {"DRAFT", "SENT", "PARTIALLY_PAID"},
   void   |-> InvoiceStatus \ {"VOID"}]

(***************************************************************************)
(* The rows the handlers of invoices.service.ts write.                     *)
(***************************************************************************)
CreatedRow(total, status) ==
  [status |-> status, items |-> total, grand |-> total, paid |-> 0, due |-> total]

(* Fault: balanceDue left as it was.                                       *)
RepricedRowDueKept(row, read, total) == [row EXCEPT !.grand = total]

(***************************************************************************)
(* update: with items in the request the lines are replaced, without them  *)
(* the totals are recomputed from the lines the handler has read.  Either  *)
(* way grandTotal is overwritten: credit notes issued meanwhile are not    *)
(* subtracted again.                                                       *)
(***************************************************************************)
RepricedRow(row, read, total) ==
  [row EXCEPT !.grand = total, !.due = NonNegative(total - read.paid)]

ReplacedRow(row, read, total) == [RepricedRow(row, read, total) EXCEPT !.items = total]

SentRow(row)   == [row EXCEPT !.status = "SENT"]
VoidedRow(row) == [row EXCEPT !.status = "VOID"]

(***************************************************************************)
(* The test is newPaid - grandTotal > 0.01 in binary floating point: a     *)
(* payment one cent too high passes for some totals (50.01 - 50) and is    *)
(* refused for others (100.01 - 100), so at one cent both outcomes are     *)
(* possible and the refusal is the request's failure.                      *)
(***************************************************************************)
MayPay(read, amount) ==
  /\ read.status # "VOID"
  /\ read.paid + amount - read.grand <= 1

(* Fault: balanceDue without the Math.max(..., 0).                          *)
PaidRowUnclamped(row, read, amount) ==
  LET newPaid == read.paid + amount IN
  [row EXCEPT !.paid   = newPaid,
              !.due    = read.grand - newPaid,
              !.status = IF newPaid >= read.grand THEN "PAID" ELSE "PARTIALLY_PAID"]

PaidRow(row, read, amount) ==
  LET newPaid == read.paid + amount IN
  [row EXCEPT !.paid   = newPaid,
              !.due    = NonNegative(read.grand - newPaid),
              !.status = IF newPaid >= read.grand THEN "PAID" ELSE "PARTIALLY_PAID"]

-----------------------------------------------------------------------------
(***************************************************************************)
(* credit-notes.service.ts: a credit note lowers what is owed by its       *)
(* amount, voiding it raises it again (a negative adjustment).             *)
(***************************************************************************)
MayCredit(read, amount) == read.status # "VOID" /\ amount <= read.due

(* Faults: a void invoice recomputed like any other; a balance of zero     *)
(* still owed; any credited balance taken for a part payment.              *)
ResolveStatusOfVoid(read, newBalance) ==
  IF newBalance <= 0 THEN "PAID"
  ELSE IF read.paid > 0 THEN "PARTIALLY_PAID"
  ELSE IF read.status = "DRAFT" THEN "DRAFT" ELSE "SENT"

ResolveStatusAtZero(read, newBalance) ==
  IF read.status = "VOID" THEN "VOID"
  ELSE IF newBalance < 0 THEN "PAID"
  ELSE IF read.paid > 0 THEN "PARTIALLY_PAID"
  ELSE IF read.status = "DRAFT" THEN "DRAFT" ELSE "SENT"

ResolveStatusUnpaid(read, newBalance) ==
  IF read.status = "VOID" THEN "VOID"
  ELSE IF newBalance <= 0 THEN "PAID" ELSE "PARTIALLY_PAID"

ResolveInvoiceStatus(read, newBalance) ==
  IF read.status = "VOID" THEN "VOID"
  ELSE IF newBalance <= 0 THEN "PAID"
  ELSE IF read.paid > 0 THEN "PARTIALLY_PAID"
  ELSE IF read.status = "DRAFT" THEN "DRAFT" ELSE "SENT"

(* Faults: the credit booked as a payment; grandTotal not adjusted.        *)
AdjustedRowAsPayment(row, read, adjustment) ==
  [row EXCEPT !.paid   = NonNegative(read.paid + adjustment),
              !.due    = NonNegative(read.due - adjustment),
              !.status = ResolveInvoiceStatus(read, read.due - adjustment)]

AdjustedRowDueOnly(row, read, adjustment) ==
  [row EXCEPT !.due    = NonNegative(read.due - adjustment),
              !.status = ResolveInvoiceStatus(read, read.due - adjustment)]

AdjustedRow(row, read, adjustment) ==
  [row EXCEPT !.due    = NonNegative(read.due - adjustment),
              !.grand  = NonNegative(read.grand - adjustment),
              !.status = ResolveInvoiceStatus(read, read.due - adjustment)]
=============================================================================
