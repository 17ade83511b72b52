---------------------------- MODULE InvoiceLedger ----------------------------
(***************************************************************************)
(* What invoices, payments and credit notes promise one another: every     *)
(* request of invoices.service.ts and credit-notes.service.ts as a single  *)
(* step on the rows as they are.  BillingRequests is the same service as   *)
(* it runs, with each request's reads and its write apart; it implements   *)
(* this module as long as no two requests on one invoice overlap.          *)
(***************************************************************************)
EXTENDS InvoiceRules, Functions

CONSTANTS
  Invoices,   \* invoice ids
  Notes,      \* credit note ids
  Totals,     \* grand totals the line items of a document can add up to
  Payments,   \* amounts of a payment (the DTO asks for at least one cent)
  Credits     \* grand totals of a credit note; a line may be free

ASSUME TotalsAssumption   == Totals \subseteq Nat
ASSUME PaymentsAssumption == Payments \subseteq Nat \ {0}
ASSUME CreditsAssumption  == Credits \subseteq Nat

VARIABLES
  invoice,    \* the invoices table
  receipts,   \* per invoice, what its rows of invoice_payments add up to
  note        \* the credit_notes table

tables == <<invoice, receipts, note>>

NoteRow    == [status : {"ISSUED", "VOID"}, inv : Invoices, amount : Nat]
UnusedNote == [status |-> "NEW", amount |-> 0]

LedgerTypeOK ==
  /\ invoice \in [Invoices -> InvoiceRow]
  /\ receipts \in [Invoices -> Nat]
  /\ note \in [Notes -> {UnusedNote} \cup NoteRow]

LedgerInit ==
  /\ invoice = [i \in Invoices |-> NoRow]
  /\ receipts = [i \in Invoices |-> 0]
  /\ note = [n \in Notes |-> UnusedNote]

NotesOf(i) == {n \in Notes : note[n] # UnusedNote /\ note[n].inv = i}

-----------------------------------------------------------------------------
(* invoices.service.ts create, and the invoice an accepted quote becomes.  *)
CreateInvoice(i, total) ==
  /\ invoice[i].status = "NEW"
  /\ invoice' = [invoice EXCEPT ![i] = CreatedRow(total, "DRAFT")]
  /\ UNCHANGED <<receipts, note>>

AcceptQuote(i, total) ==
  /\ invoice[i].status = "NEW"
  /\ invoice' = [invoice EXCEPT ![i] = CreatedRow(total, "SENT")]
  /\ UNCHANGED <<receipts, note>>

EditInvoice(i) ==
  /\ invoice[i].status = "DRAFT"
  /\ invoice' = [invoice EXCEPT ![i] = RepricedRow(@, @, @.items)]
  /\ UNCHANGED <<receipts, note>>

ReplaceItems(i, total) ==
  /\ invoice[i].status = "DRAFT"
  /\ invoice' = [invoice EXCEPT ![i] = ReplacedRow(@, @, total)]
  /\ UNCHANGED <<receipts, note>>

(* Payments go with the invoice (cascade); a credit note of any status     *)
(* keeps it (the foreign key restricts).                                   *)
RemoveInvoice(i) ==
  /\ invoice[i].status = "DRAFT"
  /\ NotesOf(i) = {}
  /\ invoice' = [invoice EXCEPT ![i] = GoneRow]
  /\ receipts' = [receipts EXCEPT ![i] = 0]
  /\ UNCHANGED note

SendInvoice(i) ==
  /\ invoice[i].status = "DRAFT"
  /\ invoice' = [invoice EXCEPT ![i] = SentRow(@)]
  /\ UNCHANGED <<receipts, note>>

RecordPayment(i, amount) ==
  /\ invoice[i].status \in GuardStatuses.pay
  /\ MayPay(invoice[i], amount)
  /\ invoice' = [invoice EXCEPT ![i] = PaidRow(@, @, amount)]
  /\ receipts' = [receipts EXCEPT ![i] = @ + amount]
  /\ UNCHANGED note

VoidInvoice(i) ==
  /\ invoice[i].status \in GuardStatuses.void
  /\ invoice' = [invoice EXCEPT ![i] = VoidedRow(@)]
  /\ UNCHANGED <<receipts, note>>

IssueNote(n, i, amount) ==
  /\ note[n] = UnusedNote
  /\ Exists(invoice[i])
  /\ MayCredit(invoice[i], amount)
  /\ note' = [note EXCEPT ![n] = [status |-> "ISSUED", inv |-> i, amount |-> amount]]
  /\ invoice' = [invoice EXCEPT ![i] = AdjustedRow(@, @, amount)]
  /\ UNCHANGED receipts

VoidNote(n, i) ==
  /\ note[n].status = "ISSUED"
  /\ note[n].inv = i
  /\ note' = [note EXCEPT ![n].status = "VOID"]
  /\ invoice' = [invoice EXCEPT ![i] = AdjustedRow(@, @, -note[n].amount)]
  /\ UNCHANGED receipts

LedgerNext ==
  \E i \in Invoices :
    \/ \E total \in Totals :
         CreateInvoice(i, total) \/ AcceptQuote(i, total) \/ ReplaceItems(i, total)
    \/ EditInvoice(i) \/ RemoveInvoice(i) \/ SendInvoice(i) \/ VoidInvoice(i)
    \/ \E amount \in Payments : RecordPayment(i, amount)
    \/ \E n \in Notes : VoidNote(n, i) \/ \E amount \in Credits : IssueNote(n, i, amount)

LedgerSpec == LedgerInit /\ [][LedgerNext]_tables

-----------------------------------------------------------------------------
(***************************************************************************)
(* The three columns of an invoice agree.  What is due is what was billed  *)
(* less what was paid, or one cent more: a last payment may be one cent    *)
(* too high, balanceDue then stops at zero, and voiding a credit note      *)
(* later counts up from there.  Nothing is ever due beyond that cent, and  *)
(* without a payment the two are equal.                                    *)
(***************************************************************************)
LedgerBalanced ==
  \A i \in Invoices :
    LET row == invoice[i]
        owed == row.grand - row.paid
    IN  /\ row.due \in {owed, owed + 1}
        /\ row.paid = 0 => row.due = row.grand

(* paidTotal is a running copy of the payment rows: the two never differ.  *)
PaidIsReceived == \A i \in Invoices : invoice[i].paid = receipts[i]

(***************************************************************************)
(* The status column, which record-payment, credit-note creation and       *)
(* credit-note voiding each recompute in their own way, tells the truth    *)
(* about the money columns.                                                *)
(***************************************************************************)
StatusTellsLedger ==
  \A i \in Invoices :
    LET row == invoice[i] IN
    /\ row.paid > 0 => row.status \in {"PARTIALLY_PAID", "PAID", "VOID"}
    /\ row.status = "PARTIALLY_PAID" => row.paid > 0 /\ row.due > 0
    /\ row.status = "PAID" => row.due = 0

LedgerInv == LedgerTypeOK /\ LedgerBalanced /\ PaidIsReceived /\ StatusTellsLedger

(***************************************************************************)
(* What an issued invoice bills plus the credit notes in force on it never *)
(* changes: issuing a note moves an amount from one to the other, voiding  *)
(* it moves it back, and nothing else touches either.                      *)
(***************************************************************************)
Credited(i) ==
  SumFunctionOnSet([n \in Notes |-> note[n].amount], {n \in NotesOf(i) : note[n].status = "ISSUED"})

CreditsConserved ==
  [][\A i \in Invoices :
       invoice[i].status \in InvoiceStatus \ {"DRAFT"}
         => invoice[i].grand + Credited(i) = invoice'[i].grand + Credited(i)']_tables

(***************************************************************************)
(* The life of an invoice has one direction: a void invoice stays void,    *)
(* one that has left DRAFT never is DRAFT again (and so is never edited    *)
(* nor deleted), and one that has been paid for is never unpaid.           *)
(***************************************************************************)
NoWayBack ==
  [][\A i \in Invoices :
       /\ invoice[i].status = "VOID" => invoice'[i].status = "VOID"
       /\ invoice[i].status \in InvoiceStatus \ {"DRAFT"}
            => invoice'[i].status \in InvoiceStatus \ {"DRAFT"}
       /\ invoice'[i].paid >= invoice[i].paid]_tables
=============================================================================
