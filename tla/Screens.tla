------------------------------- MODULE Screens -------------------------------
(***************************************************************************)
(* The screens on which invoices, quotes, credit notes and sales are       *)
(* worked on: the three workspaces with their forms, the documents' own    *)
(* pages, and the till.  What they show comes from the data files (the API *)
(* has no /pos/invoices or /pos/quotes) and lives in the state of one page *)
(* component: whoever leaves the page loses it.  The rules are written out *)
(* again for each screen.                                                  *)
(*                                                                         *)
(* Documents of a page are not related: the model follows one, from the    *)
(* data or made with the form.  Amounts are in cents.                      *)
(***************************************************************************)
EXTENDS Amounts, FiniteSets, SequencesExt

CONSTANTS
  Lines,         \* lines somebody fills in
  MaxLines,      \* bound: lines of a form
  Payments,      \* amounts somebody enters
  MaxPayments,   \* bound: payments made on one page
  Subtotals, Discounts,   \* what is entered at the till
  MaxSales       \* bound: sales made on one page

Line == [described : BOOLEAN, qty : Nat, price : Nat, discount : Nat]

ASSUME ScreensAssumption ==
  /\ Lines \subseteq Line /\ Payments \subseteq Nat \ {0}
  /\ Subtotals \subseteq Nat /\ Discounts \subseteq Nat
  /\ MaxLines \in Nat /\ MaxPayments \in Nat /\ MaxSales \in Nat

VARIABLES
  page,   \* which page is open
  form,   \* the lines of the workspace's form
  doc,    \* the document followed
  till    \* what the till shows

screenVars == <<page, form, doc, till>>

Kinds == {"invoice", "quote", "creditNote"}
Views == {"workspace", "own"}
Away  == <<"none", "none">>
Till  == <<"till", "till">>

BlankLine == [described |-> FALSE, qty |-> 100, price |-> 0, discount |-> 0]
NewForm   == <<BlankLine>>

(* bills: invoices the page has made of a quote.                           *)
Document(status, lines, grand) ==
  [status |-> status, lines |-> lines, grand |-> grand, paid |-> 0, payments |-> 0,
   balance |-> grand, einvoice |-> "none", onSale |-> FALSE, linked |-> FALSE, bills |-> 0]

NoDocument == Document("none", <<>>, 0)

(* fallbackInvoices, fallbackQuotes, fallbackCreditNotes.                  *)
InvoiceData ==
  {[Document("SENT", <<>>, 33390) EXCEPT !.einvoice = "PENDING"],
   [Document("PARTIALLY_PAID", <<>>, 67840) EXCEPT
      !.paid = 30000, !.balance = 37840, !.einvoice = "SENT"],
   [Document("PAID", <<>>, 55120) EXCEPT
      !.paid = 55120, !.balance = 0, !.einvoice = "ACCEPTED", !.onSale = TRUE]}

QuoteData ==
  {Document("DRAFT", <<>>, 33390), Document("SENT", <<>>, 67840),
   [Document("ACCEPTED", <<>>, 55120) EXCEPT !.linked = TRUE]}

CreditNoteData == {Document("ISSUED", <<>>, 29680), Document("VOID", <<>>, 12720)}

Data(kind) ==
  CASE kind = "invoice" -> InvoiceData [] kind = "quote" -> QuoteData [] OTHER -> CreditNoteData

(* The two sales the till begins with; draft and link are 0 or a receipt.  *)
NewTill ==
  [orders |-> <<[receipt |-> 1, net |-> 4750, total |-> 5035],
                [receipt |-> 2, net |-> 12000, total |-> 12720]>>,
   sequence |-> 2, draft |-> 0, link |-> 0]

ScreenTypeOK ==
  /\ page \in {Away, Till} \cup Kinds \X Views
  /\ form \in Seq(Lines \cup {BlankLine})
  /\ DOMAIN doc = DOMAIN NoDocument
  /\ till.sequence \in Nat

ScreenInit == page = Away /\ form = NewForm /\ doc = NoDocument /\ till = NewTill

-----------------------------------------------------------------------------
OpenDocuments(kind, view) ==
  /\ page = Away /\ page' = <<kind, view>>
  /\ doc' \in Data(kind)
  /\ UNCHANGED <<form, till>>

OpenTill == page = Away /\ page' = Till /\ UNCHANGED <<form, doc, till>>

Leave == page # Away /\ page' = Away /\ form' = NewForm /\ doc' = NoDocument /\ till' = NewTill

On(kind)        == page[1] = kind
InWorkspace     == page[2] = "workspace"
OnOwnPage       == page[2] = "own"
Becomes(status) == doc' = [doc EXCEPT !.status = status]
Only(changes)   == changes /\ UNCHANGED <<page, form, till>>

-----------------------------------------------------------------------------
(***************************************************************************)
(* The forms of the workspaces.                                            *)
(***************************************************************************)
ChangeLine(i, line) ==
  /\ InWorkspace /\ i \in DOMAIN form
  /\ form' = [form EXCEPT ![i] = line]
  /\ UNCHANGED <<page, doc, till>>

AddLine ==
  /\ InWorkspace /\ Len(form) < MaxLines
  /\ form' = Append(form, BlankLine)
  /\ UNCHANGED <<page, doc, till>>

ValidLines ==
  FoldLeft(LAMBDA kept, line : IF line.described /\ line.qty > 0 THEN Append(kept, line) ELSE kept, <<>>, form)

(* Without a customer, or an invoice number, nothing happens: no step.     *)
Submit(kind, status, einvoice) ==
  /\ On(kind) /\ InWorkspace
  /\ ValidLines # <<>>
  /\ \E grand \in WebGrandTotals(ValidLines) :
       doc' = [Document(status, ValidLines, grand) EXCEPT !.einvoice = einvoice]
  /\ form' = NewForm
  /\ UNCHANGED <<page, till>>

SubmitInvoice    == Submit("invoice", "DRAFT", "PENDING")
SubmitQuote      == Submit("quote", "DRAFT", "none")
SubmitCreditNote == Submit("creditNote", "ISSUED", "none")

-----------------------------------------------------------------------------
(***************************************************************************)
(* Invoices.                                                               *)
(***************************************************************************)
SendInvoice == On("invoice") /\ doc.status = "DRAFT" /\ Only(Becomes("SENT"))

VoidInvoice == On("invoice") /\ doc.status # "VOID" /\ Only(Becomes("VOID"))

(* Fault: the payment is weighed against the balance it brings down.       *)
StatusPaidAgain(amount) == IF doc.balance = amount THEN "PAID" ELSE "PARTIALLY_PAID"

StatusPaid(amount) == IF doc.grand <= doc.paid + amount THEN "PAID" ELSE "PARTIALLY_PAID"

Paid(amount, status) ==
  doc' = [doc EXCEPT !.status = status, !.paid = @ + amount, !.payments = @ + 1,
                     !.balance = IF doc.grand < doc.paid + amount THEN 0
                                 ELSE doc.grand - doc.paid - amount]

CanPay == On("invoice") /\ doc.payments < MaxPayments

(* In the workspace a payment brings a void invoice back.                  *)
PayInWorkspace(amount) == CanPay /\ InWorkspace /\ Only(Paid(amount, StatusPaid(amount)))

(* Fault: the same on its own page.                                        *)
PayAndRevive(amount) == CanPay /\ OnOwnPage /\ Only(Paid(amount, StatusPaid(amount)))

PayOnOwnPage(amount) ==
  /\ CanPay /\ OnOwnPage
  /\ Only(Paid(amount, IF doc.status = "VOID" THEN "VOID" ELSE StatusPaid(amount)))

(* In the workspace even what was accepted counts as sent again.           *)
SubmitEinvoice ==
  /\ On("invoice")
  /\ Only(doc' = [doc EXCEPT !.einvoice =
                    IF OnOwnPage /\ @ = "ACCEPTED" THEN "ACCEPTED" ELSE "SENT"])

LinkPosSale == On("invoice") /\ Only(doc' = [doc EXCEPT !.onSale = ~@])

-----------------------------------------------------------------------------
(***************************************************************************)
(* Quotes and credit notes: the buttons that are not disabled.             *)
(***************************************************************************)
SendQuote ==
  /\ On("quote")
  /\ doc.status \in IF InWorkspace THEN {"DRAFT", "SENT"} ELSE {"DRAFT", "SENT", "EXPIRED"}
  /\ Only(Becomes("SENT"))

Accepted == doc' = [doc EXCEPT !.status = "ACCEPTED", !.linked = TRUE, !.bills = @ + 1]

AcceptQuote ==
  /\ On("quote") /\ doc.status \notin {"ACCEPTED", "CANCELLED"}
  /\ Only(Accepted)

ExpireQuote == On("quote") /\ OnOwnPage /\ doc.status = "SENT" /\ Only(Becomes("EXPIRED"))

CancelQuote ==
  /\ On("quote") /\ doc.status # "CANCELLED"
  /\ InWorkspace => doc.status # "ACCEPTED"
  /\ Only(Becomes("CANCELLED"))

VoidNote == On("creditNote") /\ doc.status # "VOID" /\ Only(Becomes("VOID"))

-----------------------------------------------------------------------------
(***************************************************************************)
(* The till.  A draft of an invoice takes the items of an order: one item  *)
(* over the net amount, if the order was made here.                        *)
(***************************************************************************)
DraftItem(order) == [described |-> TRUE, qty |-> 100, price |-> order.net, discount |-> 0]

Show(changes) == page = Till /\ changes /\ UNCHANGED <<page, form, doc>>

Sell(subtotal, discount) ==
  LET sale == Sale(subtotal, IF discount > subtotal THEN subtotal ELSE discount) IN
  /\ subtotal > 0 /\ Len(till.orders) < 2 + MaxSales
  /\ Show(till' = [till EXCEPT !.sequence = @ + 1,
                                !.orders = <<[receipt |-> till.sequence + 1, net |-> sale.net,
                                              total |-> sale.total]>> \o @])

ChooseOrder(i, what) ==
  /\ i \in DOMAIN till.orders
  /\ Show(till' = [till EXCEPT ![what] = till.orders[i].receipt])

(* Confirmed or cancelled, the panel closes.                               *)
ClosePanel(what) == till[what] # 0 /\ Show(till' = [till EXCEPT ![what] = 0])

-----------------------------------------------------------------------------
ScreenNext ==
  \/ \E kind \in Kinds, view \in Views : OpenDocuments(kind, view)
  \/ OpenTill \/ Leave \/ AddLine
  \/ SubmitInvoice \/ SubmitQuote \/ SubmitCreditNote
  \/ \E i \in 1..MaxLines, line \in Lines : ChangeLine(i, line)
  \/ SendInvoice \/ VoidInvoice \/ SubmitEinvoice \/ LinkPosSale
  \/ \E amount \in Payments : PayInWorkspace(amount) \/ PayOnOwnPage(amount)
  \/ SendQuote \/ AcceptQuote \/ ExpireQuote \/ CancelQuote \/ VoidNote
  \/ \E subtotal \in Subtotals, discount \in Discounts : Sell(subtotal, discount)
  \/ \E what \in {"draft", "link"} :
       ClosePanel(what) \/ \E i \in 1..(2 + MaxSales) : ChooseOrder(i, what)

ScreenSpec == ScreenInit /\ [][ScreenNext]_screenVars
-----------------------------------------------------------------------------
(***************************************************************************)
(* A document made with a form comes to what the API would make of the     *)
(* same lines, if it takes them: to the cent, up to the half cents of the  *)
(* tax, if all quantities are whole; otherwise up to a cent a line and one *)
(* for the tax, because the API rounds each line and the screen does not.  *)
(* And an invoice over the one item the draft of a sale made at the till   *)
(* has would come to what was paid for it.                                 *)
(***************************************************************************)
Near(x, y, cents) == x - y \in -cents..cents

FormNearApi ==
  /\ Accepts(doc.lines) =>
       \A grand \in ApiGrandTotals(doc.lines) :
         IF \A i \in DOMAIN doc.lines : doc.lines[i].qty % 100 = 0
         THEN Near(doc.grand, grand, Cardinality(ApiGrandTotals(doc.lines)) - 1)
         ELSE Near(doc.grand, grand, 1 + Len(doc.lines))
  /\ \A i \in 1..till.sequence - 2 :
       till.orders[i].total \in ApiGrandTotals(<<DraftItem(till.orders[i])>>)

(***************************************************************************)
(* Crediting an invoice with a credit note for each line comes to what the *)
(* invoice came to, but for half a cent for the tax of each document, and, *)
(* for a line that comes to half a cent, a cent and its tax; and two notes *)
(* over half of every quantity, each of which takes off the whole          *)
(* discounts unless told otherwise, never credit more than that and a cent *)
(* a line with its tax, and half a cent for the tax of each document.      *)
(***************************************************************************)
Item(i, qty) == [line |-> i, described |-> FALSE, qty |-> qty, price |-> NotGiven, discount |-> NotGiven]

ByLine(lines) == SumsFrom([i \in DOMAIN lines |-> CreditGrandTotals(lines, <<Item(i, NotGiven)>>)])
Halves(lines) == [i \in DOMAIN lines |-> Item(i, lines[i].qty \div 2)]

HalfCents(lines) == Cardinality({i \in DOMAIN lines : Cardinality(Rounded(Gross(lines[i]), 100)) = 2})

CreditedInParts ==
  Accepts(doc.lines) =>
    LET n == Len(doc.lines)
        h == HalfCents(doc.lines) IN
    \A grand \in ApiGrandTotals(doc.lines) :
      /\ ByLine(doc.lines) # {}
      /\ \A sum \in ByLine(doc.lines) : Near(100 * sum, 100 * grand, 50 * (n + 1) + 106 * h)
      /\ \A half \in CreditGrandTotals(doc.lines, Halves(doc.lines)) :
           200 * half <= 100 * grand + 106 * n + 150

(***************************************************************************)
(* On both screens of each, in whatever order the buttons are pressed: an  *)
(* invoice shown as paid is paid, one shown as partly paid is partly paid, *)
(* and one on which something was paid is not shown as a draft or merely   *)
(* as sent; a quote shown as accepted has an invoice, and only one.        *)
(***************************************************************************)
ShownIsSo ==
  /\ page[1] = "invoice" =>
       /\ doc.status = "PAID" => doc.balance = 0 /\ doc.paid >= doc.grand
       /\ doc.status = "PARTIALLY_PAID" => doc.paid \in 1..(doc.grand - 1)
       /\ doc.status \in {"DRAFT", "SENT"} => doc.paid = 0 /\ doc.balance = doc.grand
  /\ page[1] = "quote" =>
       doc.bills <= 1 /\ (doc.status = "ACCEPTED" => doc.linked)

(***************************************************************************)
(* On a document's own page what has ended stays so: a void invoice is not *)
(* revived by a payment, an accepted e-invoice is not sent again, and a    *)
(* cancelled quote is not sent, accepted or expired.  (In the workspace    *)
(* the first two fail.)                                                    *)
(***************************************************************************)
Ended == <<doc.status \in {"VOID", "CANCELLED"}, doc.einvoice = "ACCEPTED">>

OwnPageIsFinal ==
  [][OnOwnPage /\ page' = page =>
       \A i \in 1..2 : Ended[i] => Ended'[i]]_screenVars
=============================================================================
