----------------------------- MODULE BillingProofs -----------------------------
(***************************************************************************)
(* Proofs about invoices, payments and credit notes, for any sets of       *)
(* invoices, notes, amounts and requests in flight: what InvoiceLedger     *)
(* promises, what of BillingRequests survives every interleaving, and that *)
(* only requests which commit late break the promise.                      *)
(***************************************************************************)
EXTENDS BillingRequests, Sums, TLAPS

(***************************************************************************)
(* What is true of one row together with the money received for it, and    *)
(* what each rule of InvoiceRules preserves of it.                         *)
(***************************************************************************)
Sound(row, received) ==
  /\ row \in InvoiceRow
  /\ row.paid = received
  /\ row.due \in {row.grand - row.paid, row.grand - row.paid + 1}
  /\ row.paid = 0 => row.due = row.grand
  /\ row.paid > 0 => row.status \in {"PARTIALLY_PAID", "PAID", "VOID"}
  /\ row.status = "PARTIALLY_PAID" => row.paid > 0 /\ row.due > 0
  /\ row.status = "PAID" => row.due = 0

LEMMA SoundRows ==
  LedgerInv <=> /\ receipts \in [Invoices -> Nat]
                /\ note \in [Notes -> {UnusedNote} \cup NoteRow]
                /\ invoice \in [Invoices -> InvoiceRow]
                /\ \A i \in Invoices : Sound(invoice[i], receipts[i])
BY DEF LedgerInv, LedgerTypeOK, LedgerBalanced, PaidIsReceived, StatusTellsLedger, Sound

LEMMA CreatedSound ==
  ASSUME NEW total \in Nat, NEW status \in {"DRAFT", "SENT"}
  PROVE  Sound(CreatedRow(total, status), 0)
BY DEF Sound, CreatedRow, InvoiceRow, RowStatus, InvoiceStatus

(* Both forms of update, on a draft. *)
LEMMA UpdatedSound ==
  ASSUME NEW row \in InvoiceRow, NEW received \in Nat, NEW total \in Nat,
         Sound(row, received), row.status = "DRAFT"
  PROVE  /\ Sound(RepricedRow(row, row, total), received)
         /\ Sound(ReplacedRow(row, row, total), received)
<1> DEFINE r == RepricedRow(row, row, total)
<1>1. row.paid = 0 /\ NonNegative(total - row.paid) = total
  BY DEF Sound, NonNegative, InvoiceRow
<1>2. /\ r \in InvoiceRow
      /\ r.status = row.status /\ r.paid = row.paid /\ r.due = total /\ r.grand = total
  BY <1>1 DEF RepricedRow, InvoiceRow
<1>3. Sound(r, received)
  BY <1>1, <1>2 DEF Sound
<1>4. Sound(ReplacedRow(row, row, total), received)
  <2> DEFINE q == [r EXCEPT !.items = total]
  <2>1. /\ q \in InvoiceRow
        /\ q.status = r.status /\ q.paid = r.paid /\ q.due = r.due /\ q.grand = r.grand
    BY <1>2 DEF InvoiceRow
  <2>2. ReplacedRow(row, row, total) = q
    BY DEF ReplacedRow
  <2> QED BY <1>3, <2>1, <2>2 DEF Sound
<1> QED BY <1>3, <1>4

LEMMA SentSound ==
  ASSUME NEW row \in InvoiceRow, NEW received \in Nat,
         Sound(row, received), row.status = "DRAFT"
  PROVE  Sound(SentRow(row), received)
BY DEF Sound, SentRow, InvoiceRow, RowStatus, InvoiceStatus

LEMMA VoidedSound ==
  ASSUME NEW row \in InvoiceRow, NEW received \in Nat, Sound(row, received)
  PROVE  Sound(VoidedRow(row), received)
BY DEF Sound, VoidedRow, InvoiceRow, RowStatus, InvoiceStatus

LEMMA PaidSound ==
  ASSUME NEW row \in InvoiceRow, NEW received \in Nat, NEW amount \in Nat \ {0},
         Sound(row, received), MayPay(row, amount)
  PROVE  Sound(PaidRow(row, row, amount), received + amount)
<1> DEFINE r == PaidRow(row, row, amount)
           newPaid == row.paid + amount
           newDue  == NonNegative(row.grand - newPaid)
           newStatus == IF newPaid >= row.grand THEN "PAID" ELSE "PARTIALLY_PAID"
<1>1. /\ row.paid \in Nat /\ row.grand \in Nat
      /\ newPaid \in Nat \ {0} /\ newPaid - row.grand <= 1
  BY DEF MayPay, InvoiceRow
<1>2. newDue \in {row.grand - newPaid, row.grand - newPaid + 1} /\ newDue \in Nat
  BY <1>1 DEF NonNegative
<1>3. newStatus \in RowStatus
  BY DEF RowStatus, InvoiceStatus
<1>4. r = [row EXCEPT !.paid = newPaid, !.due = newDue, !.status = newStatus]
  BY DEF PaidRow
<1>5. /\ r \in InvoiceRow
      /\ r.status = newStatus /\ r.paid = newPaid /\ r.due = newDue /\ r.grand = row.grand
  <2> HIDE DEF r, newPaid, newDue, newStatus
  <2> QED BY <1>1, <1>2, <1>3, <1>4 DEF InvoiceRow
<1>6. newStatus = "PAID" => newDue = 0
  BY <1>1 DEF NonNegative
<1>7. newStatus = "PARTIALLY_PAID" => newDue > 0
  BY <1>1 DEF NonNegative
<1>8. newStatus \in {"PAID", "PARTIALLY_PAID"} /\ newPaid = received + amount
  BY DEF Sound
<1>9. Sound(r, received + amount)
  <2> HIDE DEF r, newPaid, newDue, newStatus
  <2> QED BY <1>1, <1>2, <1>5, <1>6, <1>7, <1>8 DEF Sound
<1> QED BY <1>9

(* A credit note of at most the balance, or the voiding of one. *)
LEMMA AdjustedSound ==
  ASSUME NEW row \in InvoiceRow, NEW received \in Nat, NEW adjustment \in Int,
         Sound(row, received), adjustment <= row.due
  PROVE  Sound(AdjustedRow(row, row, adjustment), received)
<1> DEFINE r == AdjustedRow(row, row, adjustment)
           newDue    == NonNegative(row.due - adjustment)
           newGrand  == NonNegative(row.grand - adjustment)
           newStatus == ResolveInvoiceStatus(row, row.due - adjustment)
<1>1. row.due \in Nat /\ row.grand \in Nat /\ row.paid \in Nat /\ row.paid = received
  BY DEF Sound, InvoiceRow
<1>2. newDue = row.due - adjustment /\ newDue \in Nat
  BY <1>1 DEF NonNegative
<1>3. newGrand = row.grand - adjustment /\ newGrand \in Nat
  <2>1. row.grand >= row.due
    BY <1>1 DEF Sound
  <2> QED BY <1>1, <2>1 DEF NonNegative
<1>4. /\ newStatus \in RowStatus
      /\ row.paid > 0 => newStatus \in {"PARTIALLY_PAID", "PAID", "VOID"}
      /\ newStatus = "PARTIALLY_PAID" => row.paid > 0 /\ newDue > 0
      /\ newStatus = "PAID" => newDue = 0
  BY <1>1, <1>2 DEF ResolveInvoiceStatus, RowStatus, InvoiceStatus
<1>5. r = [row EXCEPT !.due = newDue, !.grand = newGrand, !.status = newStatus]
  BY DEF AdjustedRow
<1>6. /\ r \in InvoiceRow
      /\ r.status = newStatus /\ r.paid = row.paid /\ r.due = newDue /\ r.grand = newGrand
  <2> HIDE DEF r, newDue, newGrand, newStatus
  <2> QED BY <1>2, <1>3, <1>4, <1>5 DEF InvoiceRow
<1>7. Sound(r, received)
  <2> HIDE DEF r, newDue, newGrand, newStatus
  <2>1. newDue \in {newGrand - row.paid, newGrand - row.paid + 1}
    BY <1>1, <1>2, <1>3 DEF Sound
  <2>2. row.paid = 0 => newDue = newGrand
    BY <1>1, <1>2, <1>3 DEF Sound
  <2> QED BY <1>1, <1>4, <1>6, <2>1, <2>2 DEF Sound
<1> QED BY <1>7
-----------------------------------------------------------------------------
(***************************************************************************)
(* A step on invoice i replaces its row and leaves the others alone: it is *)
(* enough that the new row is sound.                                       *)
(***************************************************************************)
LEMMA OneRow ==
  ASSUME LedgerInv, NEW i \in Invoices, NEW row, NEW received \in Nat,
         Sound(row, received),
         invoice' = [invoice EXCEPT ![i] = row],
         receipts' = [receipts EXCEPT ![i] = received],
         note' \in [Notes -> {UnusedNote} \cup NoteRow]
  PROVE  LedgerInv'
<1>1. /\ invoice \in [Invoices -> InvoiceRow] /\ receipts \in [Invoices -> Nat]
      /\ \A j \in Invoices : Sound(invoice[j], receipts[j])
  BY SoundRows
<1>2. row \in InvoiceRow
  BY DEF Sound
<1>3. receipts' \in [Invoices -> Nat] /\ invoice' \in [Invoices -> InvoiceRow]
  BY <1>1, <1>2
<1>4. ASSUME NEW j \in Invoices PROVE Sound(invoice'[j], receipts'[j])
  <2>1. CASE j = i
    BY <1>1, <2>1
  <2>2. CASE j # i
    BY <1>1, <2>2
  <2> QED BY <2>1, <2>2
<1> QED
  BY <1>3, <1>4 DEF LedgerInv, LedgerTypeOK, LedgerBalanced, PaidIsReceived, StatusTellsLedger, Sound

LEMMA SameReceipts ==
  ASSUME LedgerInv, NEW i \in Invoices
  PROVE  receipts = [receipts EXCEPT ![i] = receipts[i]] /\ receipts[i] \in Nat
BY DEF LedgerInv, LedgerTypeOK

LEMMA LedgerStep == LedgerInv /\ [LedgerNext]_tables => LedgerInv'
<1> SUFFICES ASSUME LedgerInv, [LedgerNext]_tables PROVE LedgerInv'
  OBVIOUS
<1> USE TotalsAssumption, PaymentsAssumption, CreditsAssumption
<1>0. CASE UNCHANGED tables
  BY <1>0 DEF tables, LedgerInv, LedgerTypeOK, LedgerBalanced, PaidIsReceived, StatusTellsLedger
<1>1. CASE LedgerNext
  <2> PICK i \in Invoices :
        \/ \E total \in Totals :
             CreateInvoice(i, total) \/ AcceptQuote(i, total) \/ ReplaceItems(i, total)
        \/ EditInvoice(i) \/ RemoveInvoice(i) \/ SendInvoice(i) \/ VoidInvoice(i)
        \/ \E amount \in Payments : RecordPayment(i, amount)
        \/ \E n \in Notes : VoidNote(n, i) \/ \E amount \in Credits : IssueNote(n, i, amount)
    BY <1>1 DEF LedgerNext
  <2>1. /\ Sound(invoice[i], receipts[i])
        /\ invoice[i] \in InvoiceRow /\ receipts[i] \in Nat
        /\ note \in [Notes -> {UnusedNote} \cup NoteRow]
    BY SoundRows
  <2>2. ASSUME NEW total \in Totals, CreateInvoice(i, total) PROVE LedgerInv'
    <3>1. receipts[i] = 0
      BY <2>1, <2>2 DEF CreateInvoice, Sound
    <3>2. Sound(CreatedRow(total, "DRAFT"), 0)
      BY CreatedSound
    <3> QED BY <2>1, <2>2, <3>1, <3>2, OneRow, SameReceipts DEF CreateInvoice
  <2>3. ASSUME NEW total \in Totals, AcceptQuote(i, total) PROVE LedgerInv'
    <3>1. receipts[i] = 0
      BY <2>1, <2>3 DEF AcceptQuote, Sound
    <3>2. Sound(CreatedRow(total, "SENT"), 0)
      BY CreatedSound
    <3> QED BY <2>1, <2>3, <3>1, <3>2, OneRow, SameReceipts DEF AcceptQuote
  <2>4. ASSUME NEW total \in Totals, ReplaceItems(i, total) PROVE LedgerInv'
    <3>1. Sound(ReplacedRow(invoice[i], invoice[i], total), receipts[i])
      BY <2>1, <2>4, UpdatedSound DEF ReplaceItems
    <3> QED BY <2>1, <2>4, <3>1, OneRow, SameReceipts DEF ReplaceItems
  <2>5. CASE EditInvoice(i)
    <3>1. Sound(RepricedRow(invoice[i], invoice[i], invoice[i].items), receipts[i])
      BY <2>1, <2>5, UpdatedSound DEF EditInvoice, InvoiceRow
    <3> QED BY <2>1, <2>5, <3>1, OneRow, SameReceipts DEF EditInvoice
  <2>6. CASE RemoveInvoice(i)
    <3>1. Sound(GoneRow, 0)
      BY DEF Sound, GoneRow, NoRow, InvoiceRow, RowStatus, InvoiceStatus
    <3> QED BY <2>1, <2>6, <3>1, OneRow DEF RemoveInvoice
  <2>7. CASE SendInvoice(i)
    <3>1. Sound(SentRow(invoice[i]), receipts[i])
      BY <2>1, <2>7, SentSound DEF SendInvoice
    <3> QED BY <2>1, <2>7, <3>1, OneRow, SameReceipts DEF SendInvoice
  <2>8. CASE VoidInvoice(i)
    <3>1. Sound(VoidedRow(invoice[i]), receipts[i])
      BY <2>1, VoidedSound
    <3> QED BY <2>1, <2>8, <3>1, OneRow, SameReceipts DEF VoidInvoice
  <2>9. ASSUME NEW amount \in Payments, RecordPayment(i, amount) PROVE LedgerInv'
    <3>0. amount \in Nat \ {0}
      OBVIOUS
    <3>1. Sound(PaidRow(invoice[i], invoice[i], amount), receipts[i] + amount)
      BY <2>1, <2>9, <3>0, PaidSound DEF RecordPayment
    <3>2. receipts[i] + amount \in Nat
      BY <2>1, <3>0
    <3> QED BY <2>1, <2>9, <3>1, <3>2, OneRow DEF RecordPayment
  <2>10. ASSUME NEW n \in Notes, VoidNote(n, i) PROVE LedgerInv'
    <3>1. note[n] \in NoteRow
      BY <2>1, <2>10 DEF VoidNote, UnusedNote
    <3>2. -note[n].amount \in Int /\ -note[n].amount <= invoice[i].due
      BY <2>1, <3>1 DEF NoteRow, InvoiceRow
    <3>3. Sound(AdjustedRow(invoice[i], invoice[i], -note[n].amount), receipts[i])
      BY <2>1, <3>2, AdjustedSound
    <3>4. note' \in [Notes -> {UnusedNote} \cup NoteRow]
      <4>1. [note[n] EXCEPT !.status = "VOID"] \in NoteRow
        BY <3>1 DEF NoteRow
      <4> QED BY <2>1, <2>10, <4>1 DEF VoidNote
    <3> QED BY <2>1, <2>10, <3>3, <3>4, OneRow, SameReceipts DEF VoidNote
  <2>11. ASSUME NEW n \in Notes, NEW amount \in Credits, IssueNote(n, i, amount)
         PROVE  LedgerInv'
    <3>1. Sound(AdjustedRow(invoice[i], invoice[i], amount), receipts[i])
      BY <2>1, <2>11, AdjustedSound DEF IssueNote, MayCredit
    <3>2. note' \in [Notes -> {UnusedNote} \cup NoteRow]
      BY <2>1, <2>11 DEF IssueNote, NoteRow
    <3> QED BY <2>1, <2>11, <3>1, <3>2, OneRow, SameReceipts DEF IssueNote
  <2> QED
    BY <2>2, <2>3, <2>4, <2>5, <2>6, <2>7, <2>8, <2>9, <2>10, <2>11
<1> QED
  BY <1>0, <1>1

LEMMA LedgerInitially == LedgerInit => LedgerInv
BY DEF LedgerInit, LedgerInv, LedgerTypeOK, LedgerBalanced, PaidIsReceived, StatusTellsLedger, NoRow,
       InvoiceRow, RowStatus, InvoiceStatus

LEMMA LedgerInvariant == LedgerSpec => []LedgerInv
BY LedgerInitially, LedgerStep, PTL DEF LedgerSpec

(***************************************************************************)
(* Whatever the amounts and however many invoices and credit notes: what   *)
(* is due is what is billed less what is paid, and what is paid is what    *)
(* was received.                                                           *)
(***************************************************************************)
THEOREM LedgerAgrees == LedgerSpec => [](LedgerBalanced /\ PaidIsReceived)
<1>1. LedgerInv => LedgerBalanced /\ PaidIsReceived
  BY DEF LedgerInv
<1> QED BY LedgerInvariant, <1>1, PTL

(***************************************************************************)
(* And the status an invoice shows is the one its columns call for.        *)
(***************************************************************************)
THEOREM StatusIsTrue == LedgerSpec => []StatusTellsLedger
<1>1. LedgerInv => StatusTellsLedger
  BY DEF LedgerInv
<1> QED BY LedgerInvariant, <1>1, PTL

-----------------------------------------------------------------------------
(* What NoWayBack says of one row and the row that replaces it.            *)
Onward(row, next) ==
  /\ row.status = "VOID" => next.status = "VOID"
  /\ row.status \in InvoiceStatus \ {"DRAFT"} => next.status \in InvoiceStatus \ {"DRAFT"}
  /\ next.paid >= row.paid

(***************************************************************************)
(* The rules lead onward.  Deletion resets paidTotal and edits demand a    *)
(* draft: that neither undoes a payment rests on StatusTellsLedger.        *)
(***************************************************************************)
LEMMA RulesLeadOnward ==
  ASSUME NEW row \in InvoiceRow, NEW n \in Nat, NEW k \in Int
  PROVE  /\ row.status = "DRAFT" => /\ Onward(row, RepricedRow(row, row, n))
                                    /\ Onward(row, ReplacedRow(row, row, n))
                                    /\ Onward(row, SentRow(row))
         /\ row.status = "DRAFT" /\ row.paid = 0 => Onward(row, GoneRow)
         /\ row.status = "NEW" /\ row.paid = 0 => /\ Onward(row, CreatedRow(n, "DRAFT"))
                                                  /\ Onward(row, CreatedRow(n, "SENT"))
         /\ row.status # "VOID" => Onward(row, PaidRow(row, row, n))
         /\ Onward(row, VoidedRow(row))
         /\ Onward(row, AdjustedRow(row, row, k))
<1> USE DEF Onward, InvoiceStatus
<1>1. row.paid \in Nat
  BY DEF InvoiceRow
<1>2. row.status = "DRAFT" => /\ Onward(row, RepricedRow(row, row, n))
                              /\ Onward(row, ReplacedRow(row, row, n))
                              /\ Onward(row, SentRow(row))
  BY <1>1 DEF RepricedRow, ReplacedRow, SentRow, InvoiceRow
<1>3. /\ row.status = "DRAFT" /\ row.paid = 0 => Onward(row, GoneRow)
      /\ row.status = "NEW" /\ row.paid = 0 => /\ Onward(row, CreatedRow(n, "DRAFT"))
                                               /\ Onward(row, CreatedRow(n, "SENT"))
  BY DEF GoneRow, NoRow, CreatedRow
<1>4. Onward(row, VoidedRow(row))
  BY <1>1 DEF VoidedRow, InvoiceRow
<1>5. row.status # "VOID" => Onward(row, PaidRow(row, row, n))
  <2>1. PaidRow(row, row, n).status \in {"PAID", "PARTIALLY_PAID"}
    BY DEF PaidRow, InvoiceRow
  <2>2. PaidRow(row, row, n).paid = row.paid + n
    BY DEF PaidRow, InvoiceRow
  <2> QED BY <1>1, <2>1, <2>2
<1>6. Onward(row, AdjustedRow(row, row, k))
  <2>1. AdjustedRow(row, row, k).status = ResolveInvoiceStatus(row, row.due - k)
    BY DEF AdjustedRow, InvoiceRow
  <2>2. AdjustedRow(row, row, k).paid = row.paid
    BY DEF AdjustedRow, InvoiceRow
  <2> QED BY <1>1, <2>1, <2>2 DEF ResolveInvoiceStatus
<1> QED BY <1>2, <1>3, <1>4, <1>5, <1>6

LEMMA OnwardStep ==
  ASSUME LedgerInv, [LedgerNext]_tables, NEW j \in Invoices
  PROVE  Onward(invoice[j], invoice'[j])
<1> USE TotalsAssumption, PaymentsAssumption, CreditsAssumption
<1>1. invoice[j] \in InvoiceRow /\ Sound(invoice[j], receipts[j])
  BY SoundRows
<1>2. invoice[j].paid \in Nat /\ (invoice[j].status \in {"NEW", "DRAFT"} => invoice[j].paid = 0)
  BY <1>1 DEF Sound, InvoiceRow
<1>3. CASE invoice'[j] = invoice[j]
  BY <1>2, <1>3 DEF Onward
<1>4. CASE invoice'[j] # invoice[j]
  <2>1. PICK i \in Invoices :
        \/ \E total \in Totals :
             CreateInvoice(i, total) \/ AcceptQuote(i, total) \/ ReplaceItems(i, total)
        \/ EditInvoice(i) \/ RemoveInvoice(i) \/ SendInvoice(i) \/ VoidInvoice(i)
        \/ \E amount \in Payments : RecordPayment(i, amount)
        \/ \E n \in Notes : VoidNote(n, i) \/ \E amount \in Credits : IssueNote(n, i, amount)
    BY <1>4 DEF LedgerNext, tables
  <2>2. invoice \in [Invoices -> InvoiceRow]
    BY SoundRows
  <2>3. i = j
    BY <1>4, <2>1, <2>2 DEF CreateInvoice, AcceptQuote, ReplaceItems, EditInvoice,
       RemoveInvoice, SendInvoice, VoidInvoice, RecordPayment, VoidNote, IssueNote
  <2>4. ASSUME NEW total \in Totals,
               CreateInvoice(j, total) \/ AcceptQuote(j, total) \/ ReplaceItems(j, total)
        PROVE  Onward(invoice[j], invoice'[j])
    <3>1. 0 \in Int /\ total \in Nat
      OBVIOUS
    <3> QED BY <1>1, <1>2, <2>2, <2>4, <3>1, RulesLeadOnward
            DEF CreateInvoice, AcceptQuote, ReplaceItems
  <2>5. CASE EditInvoice(j) \/ RemoveInvoice(j) \/ SendInvoice(j) \/ VoidInvoice(j)
    <3>1. 0 \in Int /\ invoice[j].items \in Nat
      BY <1>1 DEF InvoiceRow
    <3> QED BY <1>1, <1>2, <2>2, <2>5, <3>1, RulesLeadOnward
            DEF EditInvoice, RemoveInvoice, SendInvoice, VoidInvoice
  <2>6. ASSUME NEW amount \in Payments, RecordPayment(j, amount)
        PROVE  Onward(invoice[j], invoice'[j])
    <3>1. 0 \in Int /\ amount \in Nat
      OBVIOUS
    <3>2. invoice[j].status # "VOID" /\ invoice'[j] = PaidRow(invoice[j], invoice[j], amount)
      BY <2>2, <2>6 DEF RecordPayment, MayPay
    <3> QED BY <1>1, <3>1, <3>2, RulesLeadOnward
  <2>7. ASSUME NEW n \in Notes, VoidNote(n, j) PROVE Onward(invoice[j], invoice'[j])
    <3>1. note[n].amount \in Nat
      BY <2>7, SoundRows DEF VoidNote, UnusedNote, NoteRow
    <3>2. PICK k \in Int : k = -note[n].amount
      BY <3>1
    <3>3. invoice'[j] = AdjustedRow(invoice[j], invoice[j], k)
      BY <2>2, <2>7, <3>2 DEF VoidNote
    <3> QED BY <1>1, <3>3, RulesLeadOnward
  <2>8. ASSUME NEW n \in Notes, NEW amount \in Credits, IssueNote(n, j, amount)
        PROVE  Onward(invoice[j], invoice'[j])
    <3>1. amount \in Int
      OBVIOUS
    <3>2. invoice'[j] = AdjustedRow(invoice[j], invoice[j], amount)
      BY <2>2, <2>8 DEF IssueNote
    <3> QED BY <1>1, <3>1, <3>2, RulesLeadOnward
  <2> QED BY <2>1, <2>3, <2>4, <2>5, <2>6, <2>7, <2>8
<1> QED BY <1>3, <1>4

(***************************************************************************)
(* A void invoice stays void, an issued one never becomes a draft again,   *)
(* and no step takes back a payment.                                       *)
(***************************************************************************)
THEOREM LedgerNoWayBack == LedgerSpec => NoWayBack
<1> DEFINE A == \A i \in Invoices :
                  /\ invoice[i].status = "VOID" => invoice'[i].status = "VOID"
                  /\ invoice[i].status \in InvoiceStatus \ {"DRAFT"}
                       => invoice'[i].status \in InvoiceStatus \ {"DRAFT"}
                  /\ invoice'[i].paid >= invoice[i].paid
<1>1. LedgerInv /\ [LedgerNext]_tables => [A]_tables
  BY OnwardStep DEF Onward
<1>2. LedgerSpec => [][A]_tables
  <2> HIDE DEF A
  <2> QED BY LedgerInitially, LedgerStep, <1>1, PTL DEF LedgerSpec
<1> QED BY <1>2 DEF NoWayBack

-----------------------------------------------------------------------------
(***************************************************************************)
(* The credit notes in force on an invoice, what they add up to, and the   *)
(* same after a step.                                                      *)
(***************************************************************************)
InForce(i) == {n \in Notes : note[n] # UnusedNote /\ note[n].inv = i /\ note[n].status = "ISSUED"}
Worth      == [n \in Notes |-> note[n].amount]

InForceAfter(i) == {n \in Notes : note'[n] # UnusedNote /\ note'[n].inv = i /\ note'[n].status = "ISSUED"}
WorthAfter      == [n \in Notes |-> note'[n].amount]

(* Notes are issued one at a time: there never are infinitely many.        *)
ConservedInv == LedgerInv /\ IsFiniteSet({n \in Notes : note[n] # UnusedNote})

LEMMA CreditedIsWorth ==
  ASSUME ConservedInv, NEW i
  PROVE  /\ Credited(i) = SumFunctionOnSet(Worth, InForce(i))
         /\ Credited(i)' = SumFunctionOnSet(WorthAfter, InForceAfter(i))
         /\ IsFiniteSet(InForce(i)) /\ \A n \in Notes : Worth[n] \in Nat
         /\ Credited(i) \in Int
<1>1. InForce(i) = {n \in NotesOf(i) : note[n].status = "ISSUED"}
  BY DEF InForce, NotesOf
<1>2. InForceAfter(i) = {n \in NotesOf(i) : note[n].status = "ISSUED"}'
  BY DEF InForceAfter, NotesOf
<1>3. InForce(i) \subseteq {n \in Notes : note[n] # UnusedNote} /\ InForce(i) \subseteq Notes
  BY DEF InForce
<1>4. IsFiniteSet(InForce(i))
  BY <1>3, FS_Subset DEF ConservedInv
<1>5. \A n \in Notes : Worth[n] \in Nat
  BY DEF Worth, ConservedInv, LedgerInv, LedgerTypeOK, UnusedNote, NoteRow
<1>6. Credited(i) = SumFunctionOnSet(Worth, InForce(i))
  BY <1>1, Zenon DEF Credited, Worth
<1>7. Credited(i)' = SumFunctionOnSet(WorthAfter, InForceAfter(i))
  BY <1>2, Zenon DEF Credited, WorthAfter
<1>8. SumFunctionOnSet(Worth, InForce(i)) \in Int
  BY <1>3, <1>4, <1>5, SumIsInt
<1> QED BY <1>4, <1>5, <1>6, <1>7, <1>8

(* A step that touches no note in force on i, or of i.                     *)
LEMMA OtherNotes ==
  ASSUME ConservedInv, NEW i, InForceAfter(i) = InForce(i),
         \A n \in InForce(i) : note'[n].amount = note[n].amount
  PROVE  Credited(i)' = Credited(i)
<1>1. \A n \in InForce(i) : WorthAfter[n] = Worth[n]
  BY DEF WorthAfter, Worth, InForce
<1>2. IsFiniteSet(InForce(i))
  BY CreditedIsWorth
<1>3. SumFunctionOnSet(WorthAfter, InForce(i)) = SumFunctionOnSet(Worth, InForce(i))
  BY <1>1, <1>2, SumOfSame
<1> QED BY <1>3, CreditedIsWorth

(* Issuing a note adds its amount, voiding it takes it away.               *)
LEMMA NoteIssued ==
  ASSUME ConservedInv, NEW n \in Notes, NEW i \in Invoices, NEW amount \in Credits,
         IssueNote(n, i, amount), NEW j \in Invoices
  PROVE  Credited(j)' = IF j = i THEN Credited(j) + amount ELSE Credited(j)
<1>1. note[n] = UnusedNote /\ note' = [note EXCEPT ![n] = [status |-> "ISSUED", inv |-> i, amount |-> amount]]
  BY DEF IssueNote
<1>2. DOMAIN note = Notes
  BY DEF ConservedInv, LedgerInv, LedgerTypeOK
<1>3. /\ note'[n] = [status |-> "ISSUED", inv |-> i, amount |-> amount]
      /\ \A m \in Notes : m # n => note'[m] = note[m]
  BY <1>1, <1>2
<1>4. n \notin InForce(j)
  BY <1>1 DEF InForce
<1>5. note'[n] # UnusedNote /\ note'[n].inv = i /\ note'[n].status = "ISSUED" /\ note'[n].amount = amount
  BY <1>3 DEF UnusedNote
<1>6. CASE j # i
  <2>1. InForceAfter(j) = InForce(j)
    BY <1>3, <1>4, <1>5, <1>6 DEF InForceAfter, InForce
  <2>2. \A m \in InForce(j) : note'[m].amount = note[m].amount
    BY <1>3, <1>4 DEF InForce
  <2> QED BY <1>6, <2>1, <2>2, OtherNotes
<1>7. CASE j = i
  <2>1. InForceAfter(j) = InForce(j) \cup {n}
    BY <1>3, <1>5, <1>7 DEF InForceAfter, InForce
  <2>2. /\ \A m \in InForce(j) : WorthAfter[m] = Worth[m] /\ WorthAfter[m] \in Int
        /\ WorthAfter[n] = amount /\ amount \in Int
    <3>1. \A m \in Notes : Worth[m] \in Nat
      BY CreditedIsWorth
    <3>2. \A m \in InForce(j) : WorthAfter[m] = Worth[m] /\ m \in Notes
      BY <1>3, <1>4 DEF WorthAfter, Worth, InForce
    <3> QED BY <1>5, <3>1, <3>2, CreditsAssumption DEF WorthAfter
  <2>3. IsFiniteSet(InForce(j))
    BY CreditedIsWorth
  <2>4. SumFunctionOnSet(WorthAfter, InForce(j) \cup {n}) = SumFunctionOnSet(WorthAfter, InForce(j)) + WorthAfter[n]
    BY <1>4, <2>2, <2>3, SumTakesIn
  <2>5. SumFunctionOnSet(WorthAfter, InForce(j)) = SumFunctionOnSet(Worth, InForce(j))
    BY <2>2, <2>3, SumOfSame
  <2>6. Credited(j)' = SumFunctionOnSet(WorthAfter, InForce(j) \cup {n})
    BY <2>1, CreditedIsWorth, Zenon
  <2> QED BY <1>7, <2>2, <2>4, <2>5, <2>6, CreditedIsWorth
<1> QED BY <1>6, <1>7

LEMMA NoteVoided ==
  ASSUME ConservedInv, NEW n \in Notes, NEW i \in Invoices, VoidNote(n, i), NEW j \in Invoices
  PROVE  Credited(j)' = IF j = i THEN Credited(j) - note[n].amount ELSE Credited(j)
<1>1. /\ note[n].status = "ISSUED" /\ note[n].inv = i
      /\ note' = [note EXCEPT ![n] = [note[n] EXCEPT !.status = "VOID"]]
  BY DEF VoidNote, ConservedInv, LedgerInv, LedgerTypeOK
<1>2. note \in [Notes -> {UnusedNote} \cup NoteRow] /\ note[n] \in NoteRow
  BY <1>1 DEF ConservedInv, LedgerInv, LedgerTypeOK, UnusedNote
<1>3. /\ note'[n] = [note[n] EXCEPT !.status = "VOID"]
      /\ \A m \in Notes : m # n => note'[m] = note[m]
  BY <1>1, <1>2
<1>4. note'[n].status = "VOID"
  BY <1>2, <1>3 DEF NoteRow
<1>5. note[n] # UnusedNote
  BY <1>1 DEF UnusedNote
<1>6. InForceAfter(j) = InForce(j) \ {n}
  BY <1>3, <1>4 DEF InForceAfter, InForce
<1>7. \A m \in InForceAfter(j) : m # n /\ note'[m].amount = note[m].amount
  BY <1>3, <1>4 DEF InForceAfter
<1>8. CASE j # i
  <2>1. InForceAfter(j) = InForce(j)
    BY <1>1, <1>6, <1>8 DEF InForce
  <2> QED BY <1>7, <1>8, <2>1, OtherNotes
<1>9. CASE j = i
  <2>1. n \in InForce(j)
    BY <1>1, <1>5, <1>9 DEF InForce
  <2>2. IsFiniteSet(InForce(j)) /\ \A m \in InForce(j) : Worth[m] \in Int
    <3>1. IsFiniteSet(InForce(j)) /\ \A m \in Notes : Worth[m] \in Nat
      BY CreditedIsWorth
    <3> QED BY <3>1 DEF InForce
  <2>3. SumFunctionOnSet(Worth, InForce(j)) = Worth[n] + SumFunctionOnSet(Worth, InForce(j) \ {n})
    BY <2>1, <2>2, SumTakesOut
  <2>4. IsFiniteSet(InForceAfter(j)) /\ \A m \in InForceAfter(j) : WorthAfter[m] = Worth[m]
    <3>1. InForceAfter(j) \subseteq InForce(j)
      BY <1>6
    <3> QED BY <1>7, <2>2, <3>1, FS_Subset DEF WorthAfter, Worth, InForceAfter
  <2>5. SumFunctionOnSet(WorthAfter, InForceAfter(j)) = SumFunctionOnSet(Worth, InForceAfter(j))
    BY <2>4, SumOfSame
  <2>6. SumFunctionOnSet(Worth, InForceAfter(j)) = SumFunctionOnSet(Worth, InForce(j) \ {n})
    BY <1>6, Zenon
  <2>7. Worth[n] = note[n].amount /\ note[n].amount \in Nat
    BY <1>2 DEF Worth, NoteRow
  <2>8. SumFunctionOnSet(Worth, InForce(j) \ {n}) \in Int
    BY <2>2, FS_Subset, SumIsInt
  <2> QED BY <1>9, <2>3, <2>5, <2>6, <2>7, <2>8, CreditedIsWorth
<1> QED BY <1>8, <1>9

(* A credit note, or the voiding of one, in the column billed. *)
LEMMA AdjustedGrand ==
  ASSUME NEW row \in InvoiceRow, NEW received \in Nat, Sound(row, received), NEW k \in Int,
         k <= row.due
  PROVE  AdjustedRow(row, row, k).grand = row.grand - k
<1>1. row.grand \in Nat /\ row.due \in Nat /\ row.paid \in Nat /\ k <= row.grand
  BY DEF Sound, InvoiceRow
<1>2. NonNegative(row.grand - k) = row.grand - k
  BY <1>1 DEF NonNegative
<1> QED BY <1>2 DEF AdjustedRow, InvoiceRow

LEMMA ConservedStep ==
  ASSUME ConservedInv, [LedgerNext]_tables
  PROVE  IsFiniteSet({n \in Notes : note[n] # UnusedNote})'
<1> DEFINE before == {n \in Notes : note[n] # UnusedNote}
           after  == {n \in Notes : note'[n] # UnusedNote}
<1>1. IsFiniteSet(before) /\ DOMAIN note = Notes
  BY DEF ConservedInv, LedgerInv, LedgerTypeOK
<1>2. \E n : after \subseteq before \cup {n}
  <2>1. note' = note \/ \E n \in Notes : \E r : note' = [note EXCEPT ![n] = r]
    <3>1. ASSUME NEW n \in Notes, NEW i \in Invoices, VoidNote(n, i)
          PROVE  note' = [note EXCEPT ![n] = [note[n] EXCEPT !.status = "VOID"]]
      BY <1>1, <3>1 DEF VoidNote
    <3> QED BY <3>1 DEF LedgerNext, tables, CreateInvoice, AcceptQuote, ReplaceItems, EditInvoice,
         RemoveInvoice, SendInvoice, VoidInvoice, RecordPayment, IssueNote
  <2>2. CASE note' = note
    BY <2>2
  <2>3. ASSUME NEW n \in Notes, NEW r, note' = [note EXCEPT ![n] = r] PROVE after \subseteq before \cup {n}
    BY <1>1, <2>3
  <2> QED BY <2>1, <2>2, <2>3
<1> HIDE DEF before, after
<1>3. IsFiniteSet(after)
  BY <1>1, <1>2, FS_AddElement, FS_Subset
<1> QED BY <1>3 DEF after

LEMMA MovesNothing ==
  ASSUME ConservedInv, [LedgerNext]_tables, NEW j \in Invoices,
         invoice[j].status \in InvoiceStatus \ {"DRAFT"}
  PROVE  invoice[j].grand + Credited(j) = invoice'[j].grand + Credited(j)'
<1>1. /\ invoice[j] \in InvoiceRow /\ invoice[j].grand \in Nat /\ invoice[j].due \in Nat
      /\ receipts[j] \in Nat /\ Sound(invoice[j], receipts[j]) /\ DOMAIN invoice = Invoices
  BY SoundRows DEF ConservedInv, InvoiceRow
<1>2. Credited(j) \in Int
  BY CreditedIsWorth
<1>3. invoice[j].status \notin {"NEW", "DRAFT"}
  BY DEF InvoiceStatus
<1>4. ASSUME note' = note PROVE Credited(j)' = Credited(j)
  BY <1>4 DEF Credited, NotesOf
<1>5. CASE UNCHANGED tables
  BY <1>4, <1>5 DEF tables
<1>6. ASSUME NEW i \in Invoices,
             \/ \E total \in Totals :
                  CreateInvoice(i, total) \/ AcceptQuote(i, total) \/ ReplaceItems(i, total)
             \/ EditInvoice(i) \/ RemoveInvoice(i) \/ SendInvoice(i)
      PROVE  invoice[j].grand + Credited(j) = invoice'[j].grand + Credited(j)'
  <2>1. i # j /\ note' = note /\ invoice'[j] = invoice[j]
    BY <1>1, <1>3, <1>6 DEF CreateInvoice, AcceptQuote, ReplaceItems, EditInvoice, RemoveInvoice, SendInvoice
  <2> QED BY <1>4, <2>1
<1>7. ASSUME NEW i \in Invoices, VoidInvoice(i)
      PROVE  invoice[j].grand + Credited(j) = invoice'[j].grand + Credited(j)'
  <2>1. note' = note /\ invoice'[j] \in {invoice[j], VoidedRow(invoice[j])}
    BY <1>1, <1>7 DEF VoidInvoice
  <2>2. VoidedRow(invoice[j]).grand = invoice[j].grand
    BY <1>1 DEF VoidedRow, InvoiceRow
  <2> QED BY <1>4, <2>1, <2>2
<1>8. ASSUME NEW i \in Invoices, NEW amount \in Payments, RecordPayment(i, amount)
      PROVE  invoice[j].grand + Credited(j) = invoice'[j].grand + Credited(j)'
  <2>1. note' = note /\ invoice'[j] \in {invoice[j], PaidRow(invoice[j], invoice[j], amount)}
    BY <1>1, <1>8 DEF RecordPayment
  <2>2. PaidRow(invoice[j], invoice[j], amount).grand = invoice[j].grand
    BY <1>1 DEF PaidRow, InvoiceRow
  <2> QED BY <1>4, <2>1, <2>2
<1>9. ASSUME NEW i \in Invoices, NEW n \in Notes, NEW amount \in Credits, IssueNote(n, i, amount)
      PROVE  invoice[j].grand + Credited(j) = invoice'[j].grand + Credited(j)'
  <2>1. Credited(j)' = IF j = i THEN Credited(j) + amount ELSE Credited(j)
    BY <1>9, NoteIssued
  <2>2. amount \in Int /\ 0 \in Nat
    BY CreditsAssumption
  <2>3. CASE i # j
    BY <1>1, <1>9, <2>1, <2>3 DEF IssueNote
  <2>4. CASE i = j
    <3>1. invoice'[j] = AdjustedRow(invoice[j], invoice[j], amount) /\ amount <= invoice[j].due
      BY <1>1, <1>9, <2>4 DEF IssueNote, MayCredit
    <3>2. invoice'[j].grand = invoice[j].grand - amount
      BY <1>1, <2>2, <3>1, AdjustedGrand
    <3> QED BY <1>1, <1>2, <2>1, <2>2, <2>4, <3>2
  <2> QED BY <2>3, <2>4
<1>10. ASSUME NEW i \in Invoices, NEW n \in Notes, VoidNote(n, i)
       PROVE  invoice[j].grand + Credited(j) = invoice'[j].grand + Credited(j)'
  <2>1. Credited(j)' = IF j = i THEN Credited(j) - note[n].amount ELSE Credited(j)
    BY <1>10, NoteVoided
  <2>2. note[n].amount \in Nat
    BY <1>10 DEF ConservedInv, LedgerInv, LedgerTypeOK, UnusedNote, NoteRow
  <2> PICK k \in Int : k = -note[n].amount /\ k <= 0
    BY <2>2
  <2>3. CASE i # j
    BY <1>1, <1>10, <2>1, <2>3 DEF VoidNote
  <2>4. CASE i = j
    <3>1. invoice'[j] = AdjustedRow(invoice[j], invoice[j], k) /\ k <= invoice[j].due
      BY <1>1, <1>10, <2>4 DEF VoidNote
    <3>2. invoice'[j].grand = invoice[j].grand - k
      BY <1>1, <3>1, AdjustedGrand
    <3> QED BY <1>1, <1>2, <2>1, <2>2, <2>4, <3>2
  <2> QED BY <2>3, <2>4
<1> QED
  BY <1>5, <1>6, <1>7, <1>8, <1>9, <1>10 DEF LedgerNext

(***************************************************************************)
(* Credit notes move money between themselves and what an invoice bills,   *)
(* and nothing else moves either once the invoice is issued: for any       *)
(* number of notes, issued and voided in any order.                        *)
(***************************************************************************)
THEOREM CreditsAreConserved == LedgerSpec => CreditsConserved
<1> DEFINE A == \A i \in Invoices :
                  invoice[i].status \in InvoiceStatus \ {"DRAFT"}
                    => invoice[i].grand + Credited(i) = invoice'[i].grand + Credited(i)'
<1>1. LedgerInit => ConservedInv
  <2> SUFFICES ASSUME LedgerInit PROVE ConservedInv
    OBVIOUS
  <2>1. {n \in Notes : note[n] # UnusedNote} = {}
    BY DEF LedgerInit
  <2> QED BY <2>1, LedgerInitially, FS_EmptySet DEF ConservedInv
<1>2. ConservedInv /\ [LedgerNext]_tables => ConservedInv'
  BY LedgerStep, ConservedStep DEF ConservedInv
<1>3. ConservedInv /\ [LedgerNext]_tables => [A]_tables
  BY MovesNothing
<1>4. LedgerSpec => [][A]_tables
  <2> HIDE DEF A
  <2> QED BY <1>1, <1>2, <1>3, PTL DEF LedgerSpec
<1> QED BY <1>4 DEF CreditsConserved

-----------------------------------------------------------------------------

(* Every rule yields a row of the table. *)
LEMMA RulesGiveRows ==
  ASSUME NEW row \in InvoiceRow, NEW read \in InvoiceRow, NEW n \in Nat, NEW k \in Int
  PROVE  /\ CreatedRow(n, "DRAFT") \in InvoiceRow
         /\ CreatedRow(n, "SENT") \in InvoiceRow
         /\ RepricedRow(row, read, n) \in InvoiceRow
         /\ ReplacedRow(row, read, n) \in InvoiceRow
         /\ SentRow(row) \in InvoiceRow
         /\ VoidedRow(row) \in InvoiceRow
         /\ PaidRow(row, read, n) \in InvoiceRow
         /\ AdjustedRow(row, read, k) \in InvoiceRow
         /\ NoRow \in InvoiceRow
         /\ GoneRow \in InvoiceRow
<1> USE DEF RowStatus, InvoiceStatus
<1>1. \A m \in Int : NonNegative(m) \in Nat
  BY DEF NonNegative
<1>2. /\ read.grand \in Nat /\ read.paid \in Nat /\ read.due \in Nat
      /\ read.grand - (read.paid + n) \in Int /\ n - read.paid \in Int
      /\ read.due - k \in Int /\ read.grand - k \in Int /\ read.paid + n \in Nat
  BY DEF InvoiceRow
<1>3. RepricedRow(row, read, n) \in InvoiceRow
  BY <1>1, <1>2 DEF RepricedRow, InvoiceRow
<1>4. ReplacedRow(row, read, n) \in InvoiceRow
  BY <1>3 DEF ReplacedRow, InvoiceRow
<1>5. PaidRow(row, read, n) \in InvoiceRow
  BY <1>1, <1>2 DEF PaidRow, InvoiceRow
<1>6. ResolveInvoiceStatus(read, read.due - k) \in RowStatus
  BY DEF ResolveInvoiceStatus
<1>7. AdjustedRow(row, read, k) \in InvoiceRow
  BY <1>1, <1>2, <1>6 DEF AdjustedRow, InvoiceRow
<1> QED
  BY <1>3, <1>4, <1>5, <1>7 DEF CreatedRow, SentRow, VoidedRow, NoRow, GoneRow, InvoiceRow

(* The columns a rule leaves alone or writes, as far as the proofs below   *)
(* need them.                                                              *)
LEMMA RulesOnPaid ==
  ASSUME NEW row \in InvoiceRow, NEW read \in InvoiceRow, NEW n \in Nat, NEW k \in Int
  PROVE  /\ RepricedRow(row, read, n).paid = row.paid
         /\ ReplacedRow(row, read, n).paid = row.paid
         /\ SentRow(row).paid = row.paid
         /\ VoidedRow(row).paid = row.paid
         /\ PaidRow(row, read, n).paid = read.paid + n
         /\ AdjustedRow(row, read, k).paid = row.paid
         /\ RepricedRow(row, read, n).status = row.status
         /\ ReplacedRow(row, read, n).status = row.status
         /\ SentRow(row).status = "SENT"
         /\ VoidedRow(row).status = "VOID"
         /\ PaidRow(row, read, n).status \in {"PAID", "PARTIALLY_PAID"}
         /\ AdjustedRow(row, read, k).status = ResolveInvoiceStatus(read, read.due - k)
BY DEF RepricedRow, ReplacedRow, SentRow, VoidedRow, PaidRow, AdjustedRow, InvoiceRow

LEMMA UpdateRules ==
  ASSUME NEW row \in InvoiceRow, NEW read \in InvoiceRow, NEW n \in Nat
  PROVE  /\ RepricedRow(row, read, n) \in InvoiceRow
         /\ RepricedRow(row, read, n).paid = row.paid
         /\ RepricedRow(row, read, n).status = row.status
         /\ ReplacedRow(row, read, n) \in InvoiceRow
         /\ ReplacedRow(row, read, n).paid = row.paid
         /\ ReplacedRow(row, read, n).status = row.status
<1>1. 0 \in Int
  OBVIOUS
<1> QED BY <1>1, RulesGiveRows, RulesOnPaid
-----------------------------------------------------------------------------
(* A slot that is not idle holds a request. *)
LEMMA Busy ==
  ASSUME TypeOK, NEW s \in Slots, req[s].pc # "idle"
  PROVE  req[s] \in Request /\ req[s] # Idle
BY DEF TypeOK, LedgerTypeOK, Idle

(***************************************************************************)
(* The tables stand still and slot s goes on to hold r: enough that what r *)
(* has seen is past.                                                       *)
(***************************************************************************)
LEMMA RequestStep ==
  ASSUME OverlapInv, stale' \subseteq Slots, UNCHANGED tables, NEW s \in Slots, NEW r \in {Idle} \cup Request,
         req' = [req EXCEPT ![s] = r],
         r # Idle => /\ invoice[r.inv].status # "NEW"
                     /\ r.op = "pay" => r.amount > 0
                     /\ r.op = "uncredit" => r.note \in NotesOf(r.inv)
                     /\ r.pc = "read" => r.read.paid <= receipts[r.inv]
  PROVE  OverlapInv'
<1> USE DEF OverlapInv
<1>1. TypeOK'
  BY DEF TypeOK, LedgerTypeOK, tables
<1>2. PaidWithinReceipts' /\ StatusHasCause' /\ NoteHasInvoice'
  BY DEF PaidWithinReceipts, StatusHasCause, NoteHasInvoice, NotesOf, tables
<1>3. ASSUME NEW t \in Slots, req'[t] # Idle
      PROVE  /\ invoice[req'[t].inv].status # "NEW"
             /\ req'[t].op = "pay" => req'[t].amount > 0
             /\ req'[t].op = "uncredit" => req'[t].note \in NotesOf(req'[t].inv)
             /\ req'[t].pc = "read" /\ Exists(invoice[req'[t].inv])
                  => req'[t].read.paid <= receipts[req'[t].inv]
  <2>1. CASE t = s
    <3>1. req'[t] = r
      BY <2>1 DEF TypeOK, LedgerTypeOK
    <3> QED BY <1>3, <3>1
  <2>2. CASE t # s
    <3>1. req'[t] = req[t]
      BY <2>2 DEF TypeOK, LedgerTypeOK
    <3> QED BY <1>3, <3>1 DEF SeenIsPast
  <2> QED BY <2>1, <2>2
<1>4. SeenIsPast'
  BY <1>3 DEF SeenIsPast, tables, NotesOf
<1> QED BY <1>1, <1>2, <1>4

(* The notes of invoice j after the step. *)
NotesAfter(j) == {n \in Notes : note'[n] # UnusedNote /\ note'[n].inv = j}

(***************************************************************************)
(* Slot s writes row over the row of its invoice i, whose payments now add *)
(* up to got, and perhaps a note of i.                                     *)
(***************************************************************************)
LEMMA CommitStep ==
  ASSUME OverlapInv, stale' \subseteq Slots, NEW s \in Slots, NEW i \in Invoices, i = req[s].inv,
         NEW op, NEW row \in InvoiceRow, NEW got \in Nat,
         Commit(s, op, row),
         receipts' = [receipts EXCEPT ![i] = got],
         note' \in [Notes -> {UnusedNote} \cup NoteRow],
         \A n \in Notes :
           \/ note'[n] = note[n]
           \/ n \in NotesAfter(i) /\ (note[n] # UnusedNote => note[n].inv = i),
         row.paid <= got,
         row.status # "NEW",
         Exists(row) => receipts[i] <= got,
         row.status = "PARTIALLY_PAID" => got > 0,
         row.status = "PAID" => got > 0 \/ NotesAfter(i) # {},
         ~Exists(row) => NotesAfter(i) = {}
  PROVE  OverlapInv'
<1> USE DEF OverlapInv
<1>1. /\ invoice' = [invoice EXCEPT ![i] = row] /\ req' = [req EXCEPT ![s] = Idle]
      /\ invoice[i].status # "NEW" /\ Exists(invoice[i])
  BY DEF Commit, Exists, InvoiceStatus
<1>2. TypeOK'
  BY <1>1 DEF TypeOK, LedgerTypeOK
<1>3. /\ invoice'[i] = row /\ receipts'[i] = got
      /\ \A j \in Invoices : j # i => invoice'[j] = invoice[j] /\ receipts'[j] = receipts[j]
  BY <1>1 DEF TypeOK, LedgerTypeOK
<1>4. \A j \in Invoices : NotesOf(j) \subseteq NotesAfter(j)
  BY DEF NotesOf, NotesAfter
<1>5. PaidWithinReceipts'
  BY <1>3 DEF PaidWithinReceipts
<1>6. StatusHasCause'
  <2>1. ASSUME NEW j \in Invoices
        PROVE  /\ invoice'[j].status = "PARTIALLY_PAID" => receipts'[j] > 0
               /\ invoice'[j].status = "PAID" => receipts'[j] > 0 \/ NotesAfter(j) # {}
    BY <1>3, <1>4 DEF StatusHasCause
  <2> QED BY <2>1 DEF StatusHasCause, NotesOf, NotesAfter
<1>7. NoteHasInvoice'
  <2> SUFFICES ASSUME NEW n \in Notes, note'[n] # UnusedNote
               PROVE  Exists(invoice'[note'[n].inv])
    BY DEF NoteHasInvoice, Exists
  <2>1. note'[n].inv \in Invoices
    BY DEF NoteRow
  <2>2. CASE note'[n].inv = i
    <3>1. Exists(row)
      BY <2>2 DEF NotesAfter
    <3> QED BY <1>3, <2>2, <3>1
  <2>3. CASE note'[n].inv # i
    <3>1. note'[n] = note[n]
      BY <2>3 DEF NotesAfter
    <3> QED BY <1>3, <2>1, <2>3, <3>1 DEF NoteHasInvoice
  <2> QED BY <2>2, <2>3
<1>8. ASSUME NEW t \in Slots, req'[t] # Idle
      PROVE  /\ invoice'[req'[t].inv].status # "NEW"
             /\ req'[t].op = "pay" => req'[t].amount > 0
             /\ req'[t].op = "uncredit" => req'[t].note \in NotesAfter(req'[t].inv)
             /\ req'[t].pc = "read" /\ Exists(invoice'[req'[t].inv])
                  => req'[t].read.paid <= receipts'[req'[t].inv]
  <2>1. req'[t] = req[t]
    BY <1>1, <1>8 DEF TypeOK, LedgerTypeOK
  <2>2. req[t] \in Request
    BY <1>8, <2>1 DEF TypeOK, LedgerTypeOK
  <2> PICK j \in Invoices : j = req[t].inv
    BY <2>2 DEF Request
  <2>3. req[t].read.paid \in Nat /\ receipts[j] \in Nat
    BY <2>2 DEF Request, InvoiceRow, TypeOK, LedgerTypeOK
  <2>4. /\ invoice[j].status # "NEW"
        /\ req[t].op = "pay" => req[t].amount > 0
        /\ req[t].op = "uncredit" => req[t].note \in NotesAfter(j)
        /\ req[t].pc = "read" /\ Exists(invoice[j]) => req[t].read.paid <= receipts[j]
    BY <1>4, <1>8, <2>1 DEF SeenIsPast
  <2>5. invoice'[j].status # "NEW"
    BY <1>3, <2>4
  <2>6. req[t].pc = "read" /\ Exists(invoice'[j]) => req[t].read.paid <= receipts'[j]
    <3>1. CASE j = i
      BY <1>1, <1>3, <2>3, <2>4, <3>1
    <3>2. CASE j # i
      BY <1>3, <2>4, <3>2
    <3> QED BY <3>1, <3>2
  <2> QED BY <2>1, <2>4, <2>5, <2>6
<1>9. SeenIsPast'
  BY <1>8 DEF SeenIsPast, NotesOf, NotesAfter
<1> QED BY <1>2, <1>5, <1>6, <1>7, <1>9

(* The same for a commit that leaves the payments alone. *)
LEMMA NoPaymentStep ==
  ASSUME OverlapInv, stale' \subseteq Slots, NEW s \in Slots, NEW i \in Invoices, i = req[s].inv,
         NEW op, NEW row \in InvoiceRow, Commit(s, op, row), receipts' = receipts,
         note' \in [Notes -> {UnusedNote} \cup NoteRow],
         \A n \in Notes :
           \/ note'[n] = note[n]
           \/ n \in NotesAfter(i) /\ (note[n] # UnusedNote => note[n].inv = i),
         row.paid <= receipts[i],
         row.status \in InvoiceStatus,
         row.status = "PARTIALLY_PAID" => receipts[i] > 0,
         row.status = "PAID" => receipts[i] > 0 \/ NotesAfter(i) # {}
  PROVE  OverlapInv'
<1> DEFINE got == receipts[i]
<1>1. got \in Nat /\ receipts' = [receipts EXCEPT ![i] = got]
  BY DEF OverlapInv, TypeOK, LedgerTypeOK
<1>2. Exists(row) /\ row.status # "NEW" /\ receipts[i] <= got
  BY <1>1 DEF Exists, InvoiceStatus
<1>3. /\ row.paid <= got
      /\ row.status = "PARTIALLY_PAID" => got > 0
      /\ row.status = "PAID" => got > 0 \/ NotesAfter(i) # {}
  OBVIOUS
<1> HIDE DEF got
<1> QED BY <1>1, <1>2, <1>3, CommitStep
-----------------------------------------------------------------------------
(* A new invoice, by either way. *)
LEMMA CreateStep ==
  ASSUME OverlapInv, stale' \subseteq Slots, NEW i \in Invoices, NEW row \in InvoiceRow,
         invoice[i].status = "NEW", row.status \in {"DRAFT", "SENT"}, row.paid = 0,
         invoice' = [invoice EXCEPT ![i] = row], UNCHANGED <<receipts, note, req>>
  PROVE  OverlapInv'
<1> USE DEF OverlapInv
<1>1. /\ invoice'[i] = row
      /\ \A j \in Invoices : j # i => invoice'[j] = invoice[j]
      /\ receipts[i] \in Nat
  BY DEF TypeOK, LedgerTypeOK
<1>2. TypeOK'
  BY DEF TypeOK, LedgerTypeOK
<1>3. PaidWithinReceipts'
  BY <1>1 DEF PaidWithinReceipts
<1>4. StatusHasCause'
  BY <1>1 DEF StatusHasCause, NotesOf
<1>5. NoteHasInvoice'
  BY <1>1 DEF NoteHasInvoice, Exists, InvoiceStatus, TypeOK, LedgerTypeOK, NoteRow
<1>6. SeenIsPast'
  <2> SUFFICES ASSUME NEW t \in Slots, req[t] # Idle
               PROVE  /\ invoice'[req[t].inv].status # "NEW"
                      /\ req[t].op = "pay" => req[t].amount > 0
                      /\ req[t].op = "uncredit" => req[t].note \in NotesOf(req[t].inv)
                      /\ req[t].pc = "read" /\ Exists(invoice'[req[t].inv])
                           => req[t].read.paid <= receipts[req[t].inv]
    BY DEF SeenIsPast, NotesOf, Exists
  <2>1. req[t].inv \in Invoices /\ req[t].inv # i
    BY DEF TypeOK, LedgerTypeOK, Request, SeenIsPast
  <2> QED BY <1>1, <2>1 DEF SeenIsPast
<1> QED BY <1>2, <1>3, <1>4, <1>5, <1>6

(* The guard has let a request through. *)
LEMMA ArriveStep ==
  ASSUME OverlapInv, stale' \subseteq Slots, NEW s \in Slots, NEW op \in AllOps, NEW i \in Invoices,
         NEW n \in Notes \cup {NoNote}, NEW amount \in Nat, Arrive(s, op, i, n, amount),
         invoice[i].status # "NEW",
         op = "pay" => amount > 0,
         op = "uncredit" => n \in NotesOf(i)
  PROVE  OverlapInv'
<1> DEFINE r == [pc |-> "guarded", op |-> op, inv |-> i, note |-> n,
                 amount |-> amount, read |-> NoRow]
<1>1. r \in Request
  BY RulesGiveRows DEF Request, NoRow, InvoiceRow, RowStatus, InvoiceStatus
<1>2. req' = [req EXCEPT ![s] = r] /\ UNCHANGED tables
  BY DEF Arrive
<1> QED BY <1>1, <1>2, RequestStep DEF OverlapInv

LEMMA StaleStep == stale \subseteq Slots /\ [Next]_vars => stale' \subseteq Slots
<1> SUFFICES ASSUME stale \subseteq Slots, [Next]_vars PROVE stale' \subseteq Slots
  OBVIOUS
<1>1. ASSUME NEW s \in Slots,
             \/ CommitUpdate(s) \/ CommitRemove(s) \/ CommitSend(s)
             \/ CommitPay(s) \/ CommitVoid(s) \/ CommitUncredit(s)
             \/ \E n \in Notes : CommitCredit(s, n)
      PROVE  stale' \subseteq Slots
  <2>1. PICK op, row : Commit(s, op, row)
    BY <1>1 DEF CommitUpdate, CommitRemove, CommitSend, CommitPay, CommitVoid, CommitUncredit, CommitCredit
  <2> QED BY <2>1 DEF Commit, InFlight
<1>2. ASSUME NEW s \in Slots, Fail(s) PROVE stale' \subseteq Slots
  BY <1>2 DEF Fail
<1>3. ASSUME NEW s \in Slots,
             \/ ReadNote(s) \/ ReadInvoice(s)
             \/ \E i \in Invoices : ArriveAtCredit(s, i)
             \/ \E i \in Invoices, op \in InvoiceOps : ArriveAtInvoice(s, op, i)
             \/ \E n \in Notes : ArriveAtUncredit(s, n)
      PROVE  UNCHANGED stale
  BY <1>3 DEF ReadNote, ReadInvoice, ArriveAtCredit, ArriveAtInvoice, ArriveAtUncredit, Arrive
<1>4. ASSUME NEW i \in Invoices, NEW total \in Totals, NewInvoice(i, total) PROVE UNCHANGED stale
  BY <1>4 DEF NewInvoice
<1>5. CASE UNCHANGED vars
  BY <1>5 DEF vars
<1> QED BY <1>1, <1>2, <1>3, <1>4, <1>5 DEF Next

LEMMA OverlapStep == OverlapInv /\ [Next]_vars => OverlapInv'
<1> SUFFICES ASSUME OverlapInv, [Next]_vars PROVE OverlapInv'
  OBVIOUS
<1> USE TotalsAssumption, PaymentsAssumption, CreditsAssumption, RequestAssumption
<1> USE DEF OverlapInv
<1>0. stale' \subseteq Slots
  BY StaleStep DEF TypeOK
<1> USE <1>0
<1>1. CASE UNCHANGED vars
  BY <1>1 DEF vars, TypeOK, LedgerTypeOK, PaidWithinReceipts, StatusHasCause, NoteHasInvoice, SeenIsPast,
              NotesOf, Exists
<1>2. ASSUME NEW i \in Invoices, NEW total \in Totals, CreateInvoice(i, total), UNCHANGED req
      PROVE  OverlapInv'
  <2>1. CreatedRow(total, "DRAFT") \in InvoiceRow
    BY DEF CreatedRow, InvoiceRow, RowStatus, InvoiceStatus
  <2> QED BY <1>2, <2>1, CreateStep DEF CreateInvoice, CreatedRow
<1>3. ASSUME NEW i \in Invoices, NEW total \in Totals, AcceptQuote(i, total), UNCHANGED req
      PROVE  OverlapInv'
  <2>1. CreatedRow(total, "SENT") \in InvoiceRow
    BY DEF CreatedRow, InvoiceRow, RowStatus, InvoiceStatus
  <2> QED BY <1>3, <2>1, CreateStep DEF AcceptQuote, CreatedRow
<1>4. ASSUME NEW s \in Slots, NEW i \in Invoices, ArriveAtCredit(s, i) PROVE OverlapInv'
  <2> PICK amount \in Credits : Arrive(s, "credit", i, NoNote, amount)
    BY <1>4 DEF ArriveAtCredit
  <2>1. invoice[i].status # "NEW" /\ amount \in Nat /\ "credit" \in AllOps
    BY <1>4 DEF ArriveAtCredit, Exists, InvoiceStatus, AllOps
  <2> QED BY <2>1, ArriveStep
<1>5. ASSUME NEW s \in Slots, NEW i \in Invoices, NEW op \in InvoiceOps, ArriveAtInvoice(s, op, i)
      PROVE  OverlapInv'
  <2>1. op \in AllOps /\ op # "uncredit"
    BY DEF AllOps, InvoiceOps
  <2>2. invoice[i].status # "NEW"
    <3>1. GuardStatuses[IF op \in {"edit", "replace"} THEN "update" ELSE op] \subseteq InvoiceStatus
      BY DEF GuardStatuses, InvoiceStatus, InvoiceOps
    <3> QED BY <1>5, <3>1 DEF ArriveAtInvoice, InvoiceStatus
  <2>3. PICK amount \in Nat : /\ Arrive(s, op, i, NoNote, amount)
                              /\ op = "pay" => amount > 0
    <3>1. CASE op \in {"edit", "remove", "send", "void"}
      BY <1>5, <3>1 DEF ArriveAtInvoice
    <3>2. CASE op = "replace"
      BY <1>5, <3>2 DEF ArriveAtInvoice
    <3>3. CASE op = "pay"
      <4>1. PICK amount \in Payments : Arrive(s, op, i, NoNote, amount)
        BY <1>5, <3>3 DEF ArriveAtInvoice
      <4>2. amount \in Nat /\ amount > 0
        OBVIOUS
      <4> QED BY <4>1, <4>2
    <3> QED BY <3>1, <3>2, <3>3 DEF InvoiceOps
  <2> QED BY <2>1, <2>2, <2>3, ArriveStep
<1>6. ASSUME NEW s \in Slots, NEW n \in Notes, ArriveAtUncredit(s, n) PROVE OverlapInv'
  <2>1. note[n].status = "ISSUED" /\ Arrive(s, "uncredit", note[n].inv, n, 0)
    BY <1>6 DEF ArriveAtUncredit
  <2> PICK i \in Invoices : i = note[n].inv
    BY <2>1 DEF TypeOK, LedgerTypeOK, NoteRow, UnusedNote
  <2>2. n \in NotesOf(i) /\ invoice[i].status # "NEW"
    BY <2>1 DEF NotesOf, UnusedNote, NoteHasInvoice, Exists, InvoiceStatus
  <2> QED BY <2>1, <2>2, ArriveStep DEF AllOps
<1>7. ASSUME NEW s \in Slots, ReadNote(s) PROVE OverlapInv'
  <2> DEFINE r == [req[s] EXCEPT !.pc = "noted", !.amount = note[req[s].note].amount]
  <2>1. req[s] \in Request /\ req[s] # Idle
    BY <1>7, Busy DEF ReadNote
  <2>2. req[s].note \in NotesOf(req[s].inv) /\ invoice[req[s].inv].status # "NEW"
    BY <1>7, <2>1 DEF SeenIsPast, ReadNote
  <2>3. note[req[s].note].amount \in Nat
    BY <2>2 DEF NotesOf, TypeOK, LedgerTypeOK, NoteRow
  <2>4. /\ r \in Request /\ r.inv = req[s].inv /\ r.note = req[s].note /\ r.op = "uncredit"
        /\ r.pc = "noted"
    BY <1>7, <2>1, <2>3 DEF Request, ReadNote
  <2>5. req' = [req EXCEPT ![s] = r] /\ UNCHANGED tables
    BY <1>7 DEF ReadNote, TypeOK, LedgerTypeOK
  <2> HIDE DEF r
  <2> QED BY <2>2, <2>4, <2>5, RequestStep
<1>8. ASSUME NEW s \in Slots, ReadInvoice(s) PROVE OverlapInv'
  <2> DEFINE r == [req[s] EXCEPT !.pc = "read", !.read = invoice[req[s].inv]]
  <2>1. req[s] \in Request /\ req[s] # Idle
    BY <1>8, Busy DEF ReadInvoice
  <2>2. req[s].inv \in Invoices /\ invoice[req[s].inv] \in InvoiceRow
    BY <2>1 DEF Request, TypeOK, LedgerTypeOK
  <2>3. /\ r \in Request /\ r.inv = req[s].inv /\ r.note = req[s].note /\ r.op = req[s].op
        /\ r.amount = req[s].amount /\ r.read = invoice[req[s].inv]
    BY <2>1, <2>2 DEF Request
  <2>4. /\ invoice[req[s].inv].status # "NEW"
        /\ req[s].op = "pay" => req[s].amount > 0
        /\ req[s].op = "uncredit" => req[s].note \in NotesOf(req[s].inv)
        /\ invoice[req[s].inv].paid <= receipts[req[s].inv]
    BY <2>1, <2>2 DEF SeenIsPast, PaidWithinReceipts
  <2>5. req' = [req EXCEPT ![s] = r] /\ UNCHANGED tables
    BY <1>8 DEF ReadInvoice, TypeOK, LedgerTypeOK
  <2> HIDE DEF r
  <2> QED BY <2>3, <2>4, <2>5, RequestStep
<1>9. ASSUME NEW s \in Slots, Fail(s) PROVE OverlapInv'
  BY <1>9, RequestStep DEF Fail
<1>10. ASSUME NEW s \in Slots,
              \/ CommitUpdate(s) \/ CommitRemove(s) \/ CommitSend(s)
              \/ CommitPay(s) \/ CommitVoid(s) \/ CommitUncredit(s)
              \/ \E n \in Notes : CommitCredit(s, n)
       PROVE  OverlapInv'
  <2>1. req[s].pc = "read" /\ Exists(invoice[req[s].inv])
    BY <1>10 DEF Commit, CommitUpdate, CommitRemove, CommitSend, CommitPay, CommitVoid,
                 CommitUncredit, CommitCredit
  <2>2. req[s] \in Request /\ req[s] # Idle
    BY <2>1, Busy
  <2> PICK i \in Invoices : i = req[s].inv
    BY <2>2 DEF Request
  <2> DEFINE row  == invoice[i]
             read == req[s].read
             n    == req[s].amount
             got  == receipts[i]
  <2>3. /\ row \in InvoiceRow /\ read \in InvoiceRow /\ n \in Nat /\ got \in Nat
        /\ note \in [Notes -> {UnusedNote} \cup NoteRow]
    BY <2>2 DEF Request, TypeOK, LedgerTypeOK
  <2>4. /\ row.paid <= got /\ read.paid <= got
        /\ row.status \in InvoiceStatus
        /\ row.status = "PARTIALLY_PAID" => got > 0
        /\ row.status = "PAID" => got > 0 \/ NotesOf(i) # {}
        /\ read.paid \in Nat /\ row.paid \in Nat
    BY <2>1, <2>2, <2>3 DEF SeenIsPast, PaidWithinReceipts, StatusHasCause, Exists, InvoiceRow
  <2>5. note' = note => NotesAfter(i) = NotesOf(i)
    BY DEF NotesAfter, NotesOf
  <2>6. receipts = [receipts EXCEPT ![i] = got]
    BY DEF TypeOK, LedgerTypeOK
  <2>7. /\ read.due - n \in Int /\ read.due + n \in Int /\ -n \in Int
        /\ read.due - (-n) = read.due + n
    BY <2>3 DEF InvoiceRow
  <2> HIDE DEF row, read, n, got
  <2>8. CASE CommitUpdate(s)
    <3>1. read.items \in Nat
      BY <2>3 DEF InvoiceRow
    <3>2. note' = note /\ receipts' = receipts
      BY <2>8 DEF CommitUpdate
    <3>3. PICK op \in {"edit", "replace"}, new \in InvoiceRow :
            Commit(s, op, new) /\ new.paid = row.paid /\ new.status = row.status
      <4> DEFINE repriced == RepricedRow(row, read, read.items)
                 replaced == ReplacedRow(row, read, n)
      <4>1. /\ repriced \in InvoiceRow /\ repriced.paid = row.paid
            /\ repriced.status = row.status
        BY <2>3, <3>1, UpdateRules
      <4>2. /\ replaced \in InvoiceRow /\ replaced.paid = row.paid
            /\ replaced.status = row.status
        BY <2>3, UpdateRules
      <4>3. Commit(s, "edit", repriced) \/ Commit(s, "replace", replaced)
        BY <2>8 DEF CommitUpdate, row, read, n
      <4> HIDE DEF repriced, replaced
      <4>4. CASE Commit(s, "edit", repriced)
        BY <4>1, <4>4
      <4>5. CASE Commit(s, "replace", replaced)
        BY <4>2, <4>5
      <4> QED BY <4>3, <4>4, <4>5
    <3>4. /\ new.paid <= receipts[i] /\ new.status \in InvoiceStatus
          /\ new.status = "PARTIALLY_PAID" => receipts[i] > 0
          /\ new.status = "PAID" => receipts[i] > 0 \/ NotesAfter(i) # {}
      BY <2>4, <2>5, <3>2, <3>3 DEF got
    <3>5. /\ note' \in [Notes -> {UnusedNote} \cup NoteRow]
          /\ \A m \in Notes : note'[m] = note[m]
      BY <2>3, <3>2
    <3> QED BY <3>2, <3>3, <3>4, <3>5, NoPaymentStep
  <2>9. CASE CommitRemove(s)
    <3> DEFINE new  == GoneRow
               none == 0
    <3>1. /\ new \in InvoiceRow /\ ~Exists(new) /\ new.paid = none /\ new.status = "GONE"
          /\ none \in Nat
      BY DEF GoneRow, NoRow, InvoiceRow, RowStatus, InvoiceStatus, Exists
    <3>2. /\ Commit(s, "remove", new) /\ note' = note /\ NotesAfter(i) = {}
          /\ receipts' = [receipts EXCEPT ![i] = none]
      BY <2>5, <2>9 DEF CommitRemove
    <3>3. /\ note' \in [Notes -> {UnusedNote} \cup NoteRow]
          /\ \A m \in Notes : note'[m] = note[m]
      BY <2>3, <3>2
    <3> HIDE DEF new, none
    <3>4. new.paid <= none /\ new.status # "NEW" /\ new.status # "PAID"
          /\ new.status # "PARTIALLY_PAID"
      BY <3>1
    <3> QED BY <3>1, <3>2, <3>3, <3>4, CommitStep
  <2>10. CASE CommitSend(s)
    <3>1. SentRow(row) \in InvoiceRow /\ SentRow(row).paid = row.paid
          /\ SentRow(row).status = "SENT"
      BY <2>3, RulesGiveRows, RulesOnPaid
    <3> QED BY <2>3, <2>4, <2>6, <2>10, <3>1, CommitStep DEF CommitSend, Exists, InvoiceStatus, row, got
  <2>11. CASE CommitVoid(s)
    <3>1. VoidedRow(row) \in InvoiceRow /\ VoidedRow(row).paid = row.paid
          /\ VoidedRow(row).status = "VOID"
      BY <2>3, RulesGiveRows, RulesOnPaid
    <3> QED BY <2>3, <2>4, <2>6, <2>11, <3>1, CommitStep DEF CommitVoid, Exists, InvoiceStatus, row, got
  <2>12. CASE CommitPay(s)
    <3>1. /\ PaidRow(row, read, n) \in InvoiceRow /\ PaidRow(row, read, n).paid = read.paid + n
          /\ PaidRow(row, read, n).status \in {"PAID", "PARTIALLY_PAID"}
      BY <2>3, RulesGiveRows, RulesOnPaid
    <3>2. n > 0
      BY <2>2, <2>12 DEF SeenIsPast, CommitPay, Commit, n
    <3>3. /\ got + n \in Nat /\ got + n > 0 /\ got <= got + n /\ read.paid + n <= got + n
      BY <2>3, <2>4, <3>2
    <3>4. /\ Commit(s, "pay", PaidRow(row, read, n)) /\ note' = note
          /\ receipts' = [receipts EXCEPT ![i] = got + n]
      BY <2>12 DEF CommitPay, row, read, n, got
    <3>5. PaidRow(row, read, n).status # "NEW" /\ Exists(PaidRow(row, read, n))
      BY <3>1 DEF Exists, InvoiceStatus
    <3> QED BY <2>3, <3>1, <3>3, <3>4, <3>5, CommitStep DEF got
  <2>13. CASE CommitUncredit(s)
    <3> DEFINE new == AdjustedRow(row, read, -n)
    <3>1. /\ new \in InvoiceRow /\ new.paid = row.paid
          /\ new.status = ResolveInvoiceStatus(read, read.due - (-n))
      BY <2>3, <2>7, RulesGiveRows, RulesOnPaid
    <3>2. new.status \in InvoiceStatus /\ (new.status = "PARTIALLY_PAID" => read.paid > 0)
      BY <3>1 DEF ResolveInvoiceStatus, InvoiceStatus
    <3>3. req[s].note \in NotesOf(i)
      BY <2>2, <2>13 DEF SeenIsPast, CommitUncredit, Commit
    <3>4. note[req[s].note] \in NoteRow /\ note[req[s].note].inv = i /\ req[s].note \in Notes
      BY <2>3, <3>3 DEF NotesOf
    <3>5. note' = [note EXCEPT ![req[s].note].status = "VOID"]
      BY <2>13 DEF CommitUncredit
    <3>6. /\ note'[req[s].note] \in NoteRow /\ note'[req[s].note].inv = i
          /\ \A m \in Notes : m # req[s].note => note'[m] = note[m]
      BY <2>3, <3>4, <3>5 DEF NoteRow
    <3>7. /\ note' \in [Notes -> {UnusedNote} \cup NoteRow]
          /\ req[s].note \in NotesAfter(i)
      BY <2>3, <3>4, <3>5, <3>6 DEF NotesAfter, NoteRow, UnusedNote
    <3>8. Commit(s, "uncredit", new) /\ receipts' = receipts
      BY <2>13 DEF CommitUncredit, row, read, n
    <3> HIDE DEF new
    <3>9. new.paid <= receipts[i] /\ (new.status = "PARTIALLY_PAID" => receipts[i] > 0)
      BY <2>3, <2>4, <3>1, <3>2 DEF got
    <3>10. \A m \in Notes :
             \/ note'[m] = note[m]
             \/ m \in NotesAfter(i) /\ (note[m] # UnusedNote => note[m].inv = i)
      BY <3>4, <3>6, <3>7
    <3> QED BY <3>1, <3>2, <3>7, <3>8, <3>9, <3>10, NoPaymentStep
  <2>14. ASSUME NEW m \in Notes, CommitCredit(s, m) PROVE OverlapInv'
    <3> DEFINE new == AdjustedRow(row, read, n)
    <3>1. /\ new \in InvoiceRow /\ new.paid = row.paid
          /\ new.status = ResolveInvoiceStatus(read, read.due - n)
      BY <2>3, <2>7, RulesGiveRows, RulesOnPaid
    <3>2. new.status \in InvoiceStatus /\ (new.status = "PARTIALLY_PAID" => read.paid > 0)
      BY <3>1 DEF ResolveInvoiceStatus, InvoiceStatus
    <3>3. /\ note[m] = UnusedNote
          /\ note' = [note EXCEPT ![m] = [status |-> "ISSUED", inv |-> i, amount |-> n]]
      BY <2>14 DEF CommitCredit, n
    <3>4. /\ note' \in [Notes -> {UnusedNote} \cup NoteRow] /\ m \in NotesAfter(i)
          /\ \A k \in Notes : k # m => note'[k] = note[k]
      BY <2>3, <3>3 DEF NoteRow, NotesAfter, UnusedNote
    <3>5. Commit(s, "credit", new) /\ receipts' = receipts
      BY <2>14 DEF CommitCredit, row, read, n
    <3> HIDE DEF new
    <3>6. new.paid <= receipts[i] /\ (new.status = "PARTIALLY_PAID" => receipts[i] > 0)
      BY <2>3, <2>4, <3>1, <3>2 DEF got
    <3>7. \A k \in Notes :
            \/ note'[k] = note[k]
            \/ k \in NotesAfter(i) /\ (note[k] # UnusedNote => note[k].inv = i)
      BY <3>3, <3>4
    <3> QED BY <3>1, <3>2, <3>4, <3>5, <3>6, <3>7, NoPaymentStep
  <2> QED BY <1>10, <2>8, <2>9, <2>10, <2>11, <2>12, <2>13, <2>14
<1> QED
  BY <1>1, <1>2, <1>3, <1>4, <1>5, <1>6, <1>7, <1>8, <1>9, <1>10 DEF Next, NewInvoice

(* Nothing has happened yet. *)
LEMMA OverlapInit == Init => OverlapInv
<1> SUFFICES ASSUME Init PROVE OverlapInv
  OBVIOUS
<1>1. NoRow \in InvoiceRow /\ NoRow.status = "NEW" /\ NoRow.paid = 0
  BY DEF NoRow, InvoiceRow, RowStatus
<1> QED
  BY <1>1 DEF Init, LedgerInit, OverlapInv, TypeOK, LedgerTypeOK, PaidWithinReceipts, StatusHasCause, NoteHasInvoice,
              SeenIsPast

LEMMA OverlapInvariant == Spec => []OverlapInv
BY OverlapInit, OverlapStep, PTL DEF Spec

(***************************************************************************)
(* Whatever requests overlap and however many: no invoice claims more      *)
(* money than came in, although each payment writes a total it computed    *)
(* from a row that may have changed since.                                 *)
(***************************************************************************)
THEOREM NothingPaidFromNowhere == Spec => []PaidWithinReceipts
<1>1. OverlapInv => PaidWithinReceipts
  BY DEF OverlapInv
<1> QED BY OverlapInvariant, <1>1, PTL

(***************************************************************************)
(* No invoice is shown as paid, in part or in full, that nobody has paid   *)
(* or credited.                                                            *)
(***************************************************************************)
THEOREM PaidForAReason == Spec => []StatusHasCause
<1>1. OverlapInv => StatusHasCause
  BY DEF OverlapInv
<1> QED BY OverlapInvariant, <1>1, PTL

(***************************************************************************)
(* And no credit note loses its invoice, although a draft's deletion has   *)
(* checked it before the note was made.                                    *)
(***************************************************************************)
THEOREM NotesKeepInvoices == Spec => []NoteHasInvoice
<1>1. OverlapInv => NoteHasInvoice
  BY DEF OverlapInv
<1> QED BY OverlapInvariant, <1>1, PTL

-----------------------------------------------------------------------------
(***************************************************************************)
(* What request r has seen, against the row of its invoice and, if it      *)
(* voids one, that of its note: they agree until another commits there.    *)
(***************************************************************************)
Accords(r, row, nt) ==
  /\ Exists(row)
  /\ r.op = "replace" => r.amount \in Totals
  /\ r.op = "pay" => r.amount \in Payments /\ row.status \in GuardStatuses.pay
  /\ r.op = "credit" => r.amount \in Credits
  /\ r.op = "uncredit" => /\ r.note \in Notes /\ nt # UnusedNote /\ nt.inv = r.inv
                          /\ nt.status = "ISSUED"
                          /\ r.pc # "guarded" => r.amount = nt.amount
  /\ r.pc = "read" => r.read = row /\ ServiceAccepts(r, row)

TurnInv ==
  /\ OverlapInv
  /\ \A s \in Slots \ stale :
       req[s] # Idle => Accords(req[s], invoice[req[s].inv], note[req[s].note])

LEMMA TurnInvSeen == TurnInv => SeenIsPresent
BY DEF TurnInv, Accords, SeenIsPresent, NotesOf

(* Slot s goes on to hold r, which agrees unless s is stale.               *)
LEMMA TurnRequestStep ==
  ASSUME TurnInv, OverlapInv', UNCHANGED tables, NEW s \in Slots, NEW r \in {Idle} \cup Request,
         req' = [req EXCEPT ![s] = r], \A t \in Slots : t # s /\ t \notin stale' => t \notin stale,
         r # Idle /\ s \notin stale' => Accords(r, invoice[r.inv], note[r.note])
  PROVE  TurnInv'
<1>1. req'[s] = r /\ \A t \in Slots : t # s => req'[t] = req[t]
  BY DEF TurnInv, OverlapInv, TypeOK, LedgerTypeOK
<1>2. invoice' = invoice /\ note' = note
  BY DEF tables
<1>3. ASSUME NEW t \in Slots \ stale', req'[t] # Idle
      PROVE  Accords(req'[t], invoice[req'[t].inv], note[req'[t].note])
  <2>1. CASE t = s
    BY <1>1, <1>3, <2>1
  <2>2. CASE t # s
    BY <1>1, <1>3, <2>2 DEF TurnInv
  <2> QED BY <2>1, <2>2
<1> QED BY <1>2, <1>3 DEF TurnInv

(* Slot s is done: it has written the row of its invoice, perhaps a note   *)
(* of it, and nothing any other request has seen that is not stale now.    *)
LEMMA TurnCommitStep ==
  ASSUME TurnInv, OverlapInv', NEW s \in Slots, NEW op, NEW row, Commit(s, op, row),
         \A n \in Notes : note'[n] = note[n] \/ note[n] = UnusedNote \/ note[n].inv = req[s].inv
  PROVE  TurnInv'
<1> SUFFICES ASSUME NEW t \in Slots \ stale', req'[t] # Idle
             PROVE  Accords(req'[t], invoice'[req'[t].inv], note'[req'[t].note])
  BY DEF TurnInv
<1>1. /\ req[s] # Idle /\ req' = [req EXCEPT ![s] = Idle]
      /\ invoice' = [invoice EXCEPT ![req[s].inv] = row]
      /\ stale' = (stale \cup InFlight(req[s].inv)) \ {s}
  BY Busy DEF Commit, TurnInv, OverlapInv
<1>2. t # s /\ req'[t] = req[t]
  BY <1>1 DEF TurnInv, OverlapInv, TypeOK, LedgerTypeOK
<1>3. t \notin stale /\ req[t].inv \in Invoices /\ req[t].inv # req[s].inv
  BY <1>1, <1>2 DEF TurnInv, OverlapInv, TypeOK, LedgerTypeOK, Request, InFlight
<1>4. invoice'[req[t].inv] = invoice[req[t].inv]
  BY <1>1, <1>3 DEF TurnInv, OverlapInv, TypeOK, LedgerTypeOK
<1>5. Accords(req[t], invoice[req[t].inv], note[req[t].note])
  BY <1>2, <1>3 DEF TurnInv
<1>6. req[t].op = "uncredit" => note'[req[t].note] = note[req[t].note]
  BY <1>3, <1>5 DEF Accords
<1>7. Accords(req[t], invoice'[req[t].inv], note'[req[t].note])
  BY <1>4, <1>5, <1>6 DEF Accords
<1> QED BY <1>2, <1>7

(* A request the guard lets through has seen that.                         *)
LEMMA TurnArriveStep ==
  ASSUME TurnInv, OverlapInv', NEW s \in Slots, NEW op \in AllOps,
         NEW i \in Invoices, NEW n \in Notes \cup {NoNote}, NEW amount \in Nat,
         Arrive(s, op, i, n, amount), Exists(invoice[i]),
         op = "replace" => amount \in Totals,
         op = "pay" => amount \in Payments /\ invoice[i].status \in GuardStatuses.pay,
         op = "credit" => amount \in Credits,
         op = "uncredit" => n \in Notes /\ note[n].status = "ISSUED" /\ note[n].inv = i
  PROVE  TurnInv'
<1> DEFINE r == [pc |-> "guarded", op |-> op, inv |-> i, note |-> n,
                 amount |-> amount, read |-> NoRow]
<1>1. r \in Request
  BY RulesGiveRows DEF Request, NoRow, InvoiceRow, RowStatus, InvoiceStatus
<1>2. req' = [req EXCEPT ![s] = r] /\ UNCHANGED <<tables, stale>>
  BY DEF Arrive
<1>3. Accords(r, invoice[i], note[n])
  BY DEF Accords, UnusedNote
<1>4. r.inv = i /\ r.note = n
  OBVIOUS
<1> HIDE DEF r
<1> QED BY <1>1, <1>2, <1>3, <1>4, TurnRequestStep

LEMMA TurnStep == TurnInv /\ [Next]_vars => TurnInv'
<1> SUFFICES ASSUME TurnInv, [Next]_vars PROVE TurnInv'
  OBVIOUS
<1> USE TotalsAssumption, PaymentsAssumption, CreditsAssumption, RequestAssumption
<1>0. OverlapInv /\ OverlapInv'
  BY OverlapStep DEF TurnInv
<1>1. CASE UNCHANGED vars
  BY <1>0, <1>1 DEF vars, TurnInv
<1>2. ASSUME NEW i \in Invoices, NEW row, invoice[i].status = "NEW",
             invoice' = [invoice EXCEPT ![i] = row], UNCHANGED <<receipts, note, req, stale>>
      PROVE  TurnInv'
  <2> SUFFICES ASSUME NEW t \in Slots \ stale, req[t] # Idle
               PROVE  invoice'[req[t].inv] = invoice[req[t].inv]
    BY <1>0, <1>2 DEF TurnInv
  <2>1. req[t].inv \in Invoices /\ req[t].inv # i
    BY <1>0, <1>2 DEF TurnInv, OverlapInv, TypeOK, LedgerTypeOK, Request, Accords, Exists, InvoiceStatus
  <2> QED BY <1>0, <1>2, <2>1 DEF OverlapInv, TypeOK, LedgerTypeOK
<1>3. ASSUME NEW i \in Invoices, NEW total \in Totals, NewInvoice(i, total)
      PROVE  TurnInv'
  BY <1>2, <1>3 DEF NewInvoice, CreateInvoice, AcceptQuote
<1>4. ASSUME NEW s \in Slots, NEW i \in Invoices, ArriveAtCredit(s, i) PROVE TurnInv'
  <2> PICK amount \in Credits : Arrive(s, "credit", i, NoNote, amount)
    BY <1>4 DEF ArriveAtCredit
  <2>1. Exists(invoice[i]) /\ amount \in Nat /\ "credit" \in AllOps
    BY <1>4 DEF ArriveAtCredit, AllOps
  <2> QED BY <1>0, <2>1, TurnArriveStep
<1>5. ASSUME NEW s \in Slots, NEW i \in Invoices, NEW op \in InvoiceOps, ArriveAtInvoice(s, op, i)
      PROVE  TurnInv'
  <2>1. op \in AllOps /\ op # "uncredit" /\ op # "credit"
    BY DEF AllOps, InvoiceOps
  <2>2. /\ Exists(invoice[i])
        /\ op = "pay" => invoice[i].status \in GuardStatuses.pay
    <3>1. GuardStatuses[IF op \in {"edit", "replace"} THEN "update" ELSE op] \subseteq InvoiceStatus
      BY DEF GuardStatuses, InvoiceStatus, InvoiceOps
    <3>2. op = "pay" => GuardStatuses[IF op \in {"edit", "replace"} THEN "update" ELSE op] = GuardStatuses.pay
      OBVIOUS
    <3> QED BY <1>5, <3>1, <3>2 DEF ArriveAtInvoice, Exists
  <2>3. PICK amount \in Nat : /\ Arrive(s, op, i, NoNote, amount)
                              /\ op = "pay" => amount \in Payments
                              /\ op = "replace" => amount \in Totals
    BY <1>5 DEF ArriveAtInvoice, InvoiceOps
  <2> QED BY <1>0, <2>1, <2>2, <2>3, TurnArriveStep
<1>6. ASSUME NEW s \in Slots, NEW n \in Notes, ArriveAtUncredit(s, n) PROVE TurnInv'
  <2>1. note[n].status = "ISSUED" /\ Arrive(s, "uncredit", note[n].inv, n, 0)
    BY <1>6 DEF ArriveAtUncredit
  <2> PICK i \in Invoices : i = note[n].inv
    BY <1>0, <2>1 DEF OverlapInv, TypeOK, LedgerTypeOK, NoteRow, UnusedNote
  <2>2. Exists(invoice[i])
    BY <1>0, <2>1 DEF OverlapInv, NoteHasInvoice, UnusedNote
  <2> QED BY <1>0, <2>1, <2>2, TurnArriveStep DEF AllOps
<1>7. ASSUME NEW s \in Slots, ReadNote(s) PROVE TurnInv'
  <2> DEFINE r == [req[s] EXCEPT !.pc = "noted", !.amount = note[req[s].note].amount]
  <2>1. req[s] \in Request /\ req[s] # Idle
    BY <1>0, <1>7, Busy DEF OverlapInv, ReadNote
  <2>2. /\ req[s].op = "uncredit"
        /\ s \notin stale => Accords(req[s], invoice[req[s].inv], note[req[s].note])
    BY <1>7, <2>1 DEF TurnInv, ReadNote
  <2>3. note[req[s].note].amount \in Nat
    BY <1>0, <2>1, <2>2 DEF SeenIsPast, NotesOf, OverlapInv, TypeOK, LedgerTypeOK, NoteRow
  <2>4. /\ r \in Request /\ r.inv = req[s].inv /\ r.note = req[s].note /\ r.op = "uncredit"
        /\ r.pc = "noted" /\ r.amount = note[req[s].note].amount
    BY <2>1, <2>2, <2>3 DEF Request
  <2>5. req' = [req EXCEPT ![s] = r] /\ UNCHANGED <<tables, stale>>
    BY <1>0, <1>7 DEF ReadNote, OverlapInv, TypeOK, LedgerTypeOK
  <2> HIDE DEF r
  <2>6. s \notin stale => Accords(r, invoice[r.inv], note[r.note])
    BY <2>2, <2>4 DEF Accords
  <2> QED BY <1>0, <2>4, <2>5, <2>6, TurnRequestStep
<1>8. ASSUME NEW s \in Slots, ReadInvoice(s) PROVE TurnInv'
  <2> DEFINE r == [req[s] EXCEPT !.pc = "read", !.read = invoice[req[s].inv]]
  <2>1. req[s] \in Request /\ req[s] # Idle
    BY <1>0, <1>8, Busy DEF OverlapInv, ReadInvoice
  <2>2. s \notin stale => Accords(req[s], invoice[req[s].inv], note[req[s].note])
    BY <2>1 DEF TurnInv
  <2>3. invoice[req[s].inv] \in InvoiceRow
    BY <1>0, <2>1 DEF Request, OverlapInv, TypeOK, LedgerTypeOK
  <2>4. /\ r \in Request /\ r.inv = req[s].inv /\ r.note = req[s].note /\ r.op = req[s].op
        /\ r.amount = req[s].amount /\ r.read = invoice[req[s].inv] /\ r.pc = "read"
    BY <2>1, <2>3 DEF Request
  <2>5. /\ req' = [req EXCEPT ![s] = r] /\ UNCHANGED <<tables, stale>>
        /\ ServiceAccepts(req[s], invoice[req[s].inv])
        /\ req[s].op = "uncredit" => req[s].pc # "guarded"
    BY <1>0, <1>8 DEF ReadInvoice, OverlapInv, TypeOK, LedgerTypeOK
  <2> HIDE DEF r
  <2>6. ServiceAccepts(r, invoice[r.inv])
    BY <2>4, <2>5 DEF ServiceAccepts
  <2>7. s \notin stale => Accords(r, invoice[r.inv], note[r.note])
    BY <2>2, <2>4, <2>5, <2>6 DEF Accords
  <2> QED BY <1>0, <2>4, <2>5, <2>7, TurnRequestStep
<1>9. ASSUME NEW s \in Slots, Fail(s) PROVE TurnInv'
  BY <1>0, <1>9, TurnRequestStep DEF Fail
<1>10. ASSUME NEW s \in Slots, NEW op, NEW row, Commit(s, op, row),
              \A n \in Notes : note'[n] = note[n] \/ note[n] = UnusedNote \/ note[n].inv = req[s].inv
       PROVE  TurnInv'
  BY <1>0, <1>10, TurnCommitStep
<1>11. ASSUME NEW s \in Slots, CommitUpdate(s) \/ CommitRemove(s) \/ CommitSend(s)
                               \/ CommitPay(s) \/ CommitVoid(s)
       PROVE  TurnInv'
  BY <1>10, <1>11 DEF CommitUpdate, CommitRemove, CommitSend, CommitPay, CommitVoid
<1>12. ASSUME NEW s \in Slots, CommitUncredit(s) PROVE TurnInv'
  <2>1. req[s].note \in NotesOf(req[s].inv)
    BY <1>0, <1>12, Busy DEF CommitUncredit, Commit, OverlapInv, SeenIsPast
  <2>2. \A n \in Notes : n # req[s].note => note'[n] = note[n]
    BY <1>0, <1>12 DEF CommitUncredit, OverlapInv, TypeOK, LedgerTypeOK
  <2> QED BY <1>10, <1>12, <2>1, <2>2 DEF CommitUncredit, NotesOf
<1>13. ASSUME NEW s \in Slots, NEW n \in Notes, CommitCredit(s, n) PROVE TurnInv'
  <2>1. note[n] = UnusedNote /\ \A m \in Notes : m # n => note'[m] = note[m]
    BY <1>0, <1>13 DEF CommitCredit, OverlapInv, TypeOK, LedgerTypeOK
  <2> QED BY <1>10, <1>13, <2>1 DEF CommitCredit
<1> QED
  BY <1>1, <1>3, <1>4, <1>5, <1>6, <1>7, <1>8, <1>9, <1>11, <1>12, <1>13 DEF Next

(* The commit of one that is not stale is the ledger's step of that name:  *)
(* the row it has read is the row there is.                                *)
LEMMA TurnCommits ==
  ASSUME TurnInv, NEW s \in Slots \ stale,
         \/ CommitUpdate(s) \/ CommitRemove(s) \/ CommitSend(s)
         \/ CommitPay(s) \/ CommitVoid(s) \/ CommitUncredit(s)
         \/ \E n \in Notes : CommitCredit(s, n)
  PROVE  LedgerNext
<1> DEFINE r == req[s]
           row == invoice[r.inv]
<1>1. r.pc = "read" /\ Exists(row)
  BY DEF Commit, CommitUpdate, CommitRemove, CommitSend, CommitPay, CommitVoid,
         CommitUncredit, CommitCredit
<1>2. r \in Request /\ r # Idle
  BY <1>1, Busy DEF TurnInv, OverlapInv
<1> PICK i \in Invoices : i = r.inv
  BY <1>2 DEF Request
<1>3. Accords(r, row, note[r.note]) /\ r.read = row /\ ServiceAccepts(r, row)
  BY <1>1, <1>2 DEF TurnInv, Accords
<1>4. /\ invoice \in [Invoices -> InvoiceRow] /\ receipts \in [Invoices -> Nat]
      /\ note \in [Notes -> {UnusedNote} \cup NoteRow]
  BY DEF TurnInv, OverlapInv, TypeOK, LedgerTypeOK
<1>5. ASSUME NEW op, NEW new, Commit(s, op, new)
      PROVE  r.op = op /\ invoice' = [invoice EXCEPT ![i] = new]
  BY <1>5 DEF Commit
<1> HIDE DEF r, row
<1>6. CASE CommitUpdate(s)
  <2>1. PICK op \in {"edit", "replace"} :
          /\ r.op = op
          /\ op = "edit" => invoice' = [invoice EXCEPT ![i] = RepricedRow(row, row, row.items)]
          /\ op = "replace" => invoice' = [invoice EXCEPT ![i] = ReplacedRow(row, row, r.amount)]
    BY <1>3, <1>5, <1>6 DEF CommitUpdate, r, row
  <2>2. row = invoice[i] /\ row.status = "DRAFT" /\ UNCHANGED <<receipts, note>>
    BY <1>3, <1>6, <2>1 DEF CommitUpdate, ServiceAccepts, row
  <2>3. op = "edit" => EditInvoice(i)
    BY <1>4, <2>1, <2>2 DEF EditInvoice
  <2>4. op = "replace" => r.amount \in Totals /\ ReplaceItems(i, r.amount)
    BY <1>3, <1>4, <2>1, <2>2 DEF ReplaceItems, Accords
  <2> QED BY <2>3, <2>4 DEF LedgerNext
<1>7. CASE CommitRemove(s)
  <2>1. r.op = "remove" /\ invoice' = [invoice EXCEPT ![i] = GoneRow]
    BY <1>5, <1>7 DEF CommitRemove
  <2>2. RemoveInvoice(i)
    BY <1>3, <1>7, <2>1
    DEF CommitRemove, ServiceAccepts, RemoveInvoice, r, row
  <2> QED BY <2>2 DEF LedgerNext
<1>8. CASE CommitSend(s)
  <2>1. r.op = "send" /\ invoice' = [invoice EXCEPT ![i] = SentRow(row)]
    BY <1>5, <1>8 DEF CommitSend, r, row
  <2>2. SendInvoice(i)
    BY <1>3, <1>4, <1>8, <2>1 DEF CommitSend, ServiceAccepts, SendInvoice, row
  <2> QED BY <2>2 DEF LedgerNext
<1>9. CASE CommitPay(s)
  <2>1. r.op = "pay" /\ invoice' = [invoice EXCEPT ![i] = PaidRow(row, row, r.amount)]
    BY <1>3, <1>5, <1>9 DEF CommitPay, r, row
  <2>2. /\ r.amount \in Payments /\ row.status \in GuardStatuses.pay /\ MayPay(row, r.amount)
        /\ row = invoice[i]
    BY <1>3, <2>1 DEF Accords, ServiceAccepts, row
  <2>3. receipts' = [receipts EXCEPT ![i] = @ + r.amount] /\ note' = note
    BY <1>9 DEF CommitPay, r
  <2>4. RecordPayment(i, r.amount)
    BY <1>4, <2>1, <2>2, <2>3 DEF RecordPayment
  <2> QED BY <2>2, <2>4 DEF LedgerNext
<1>10. CASE CommitVoid(s)
  <2>1. r.op = "void" /\ invoice' = [invoice EXCEPT ![i] = VoidedRow(row)]
    BY <1>5, <1>10 DEF CommitVoid, r, row
  <2>2. row = invoice[i] /\ row.status \in GuardStatuses.void
    BY <1>1, <1>3, <2>1 DEF ServiceAccepts, GuardStatuses, Exists, row
  <2>3. VoidInvoice(i)
    BY <1>4, <1>10, <2>1, <2>2 DEF CommitVoid, VoidInvoice
  <2> QED BY <2>3 DEF LedgerNext
<1>11. CASE CommitUncredit(s)
  <2>1. r.op = "uncredit" /\ invoice' = [invoice EXCEPT ![i] = AdjustedRow(row, row, -r.amount)]
    BY <1>3, <1>5, <1>11 DEF CommitUncredit, r, row
  <2>2. /\ r.note \in Notes /\ note[r.note].inv = i /\ note[r.note].status = "ISSUED"
        /\ r.amount = note[r.note].amount /\ row = invoice[i]
    BY <1>1, <1>3, <2>1 DEF Accords, row
  <2>3. note' = [note EXCEPT ![r.note].status = "VOID"] /\ receipts' = receipts
    BY <1>11 DEF CommitUncredit, r
  <2>4. VoidNote(r.note, i)
    BY <1>4, <2>1, <2>2, <2>3 DEF VoidNote
  <2> QED BY <2>2, <2>4 DEF LedgerNext
<1>12. ASSUME NEW n \in Notes, CommitCredit(s, n) PROVE LedgerNext
  <2>1. r.op = "credit" /\ invoice' = [invoice EXCEPT ![i] = AdjustedRow(row, row, r.amount)]
    BY <1>3, <1>5, <1>12 DEF CommitCredit, r, row
  <2>2. r.amount \in Credits /\ MayCredit(row, r.amount) /\ row = invoice[i]
    BY <1>3, <2>1 DEF Accords, ServiceAccepts, row
  <2>3. /\ note[n] = UnusedNote /\ receipts' = receipts
        /\ note' = [note EXCEPT ![n] = [status |-> "ISSUED", inv |-> i, amount |-> r.amount]]
    BY <1>12 DEF CommitCredit, r
  <2>4. IssueNote(n, i, r.amount)
    BY <1>1, <1>4, <2>1, <2>2, <2>3 DEF IssueNote
  <2> QED BY <2>2, <2>4 DEF LedgerNext
<1> QED BY <1>6, <1>7, <1>8, <1>9, <1>10, <1>11, <1>12

(* That of a stale one writes what belongs to its invoice.                 *)
LEMMA StaleCommits ==
  ASSUME OverlapInv, NEW s \in Slots,
         \/ CommitUpdate(s) \/ CommitRemove(s) \/ CommitSend(s)
         \/ CommitPay(s) \/ CommitVoid(s) \/ CommitUncredit(s)
         \/ \E n \in Notes : CommitCredit(s, n)
  PROVE  WritesOnly(s)
<1>1. PICK op, row : Commit(s, op, row)
  BY DEF CommitUpdate, CommitRemove, CommitSend, CommitPay, CommitVoid, CommitUncredit, CommitCredit
<1>2. req[s] \in Request /\ req[s] # Idle
  BY <1>1, Busy DEF Commit, OverlapInv
<1> PICK i \in Invoices : i = req[s].inv
  BY <1>2 DEF Request
<1>3. \A j \in Invoices : j # i => invoice'[j] = invoice[j]
  BY <1>1 DEF Commit, OverlapInv, TypeOK, LedgerTypeOK
<1>4. \A j \in Invoices : j # i => receipts'[j] = receipts[j]
  <2>1. CASE CommitRemove(s) \/ CommitPay(s)
    BY <2>1 DEF CommitRemove, CommitPay, OverlapInv, TypeOK, LedgerTypeOK
  <2>2. CASE ~(CommitRemove(s) \/ CommitPay(s))
    BY <2>2 DEF CommitUpdate, CommitSend, CommitVoid, CommitUncredit, CommitCredit
  <2> QED BY <2>1, <2>2
<1>5. ASSUME NEW n \in Notes, note'[n] # note[n]
      PROVE  note'[n].inv = i /\ (note[n] # UnusedNote => note[n].inv = i)
  <2>1. CASE CommitUncredit(s)
    <3>1. req[s].note \in NotesOf(i)
      BY <1>2, <2>1 DEF CommitUncredit, Commit, OverlapInv, SeenIsPast
    <3>2. note' = [note EXCEPT ![req[s].note].status = "VOID"]
      BY <2>1 DEF CommitUncredit
    <3>3. n = req[s].note /\ note[n] \in NoteRow /\ note[n].inv = i
      BY <1>5, <3>1, <3>2 DEF NotesOf, OverlapInv, TypeOK, LedgerTypeOK
    <3> QED BY <3>2, <3>3 DEF NoteRow, OverlapInv, TypeOK, LedgerTypeOK
  <2>2. ASSUME NEW m \in Notes, CommitCredit(s, m)
        PROVE  note'[n].inv = i /\ (note[n] # UnusedNote => note[n].inv = i)
    BY <1>5, <2>2 DEF CommitCredit, OverlapInv, TypeOK, LedgerTypeOK
  <2>3. CASE ~CommitUncredit(s) /\ ~\E m \in Notes : CommitCredit(s, m)
    BY <1>5, <2>3 DEF CommitUpdate, CommitRemove, CommitSend, CommitPay, CommitVoid
  <2> QED BY <2>1, <2>2, <2>3
<1>6. req'[s] = Idle
  BY <1>1 DEF Commit, OverlapInv, TypeOK
<1> QED BY <1>3, <1>4, <1>5, <1>6 DEF WritesOnly

LEMMA TurnRefines ==
  TurnInv /\ [Next]_vars => [LedgerNext \/ \E s \in stale : WritesOnly(s)]_tables
<1> SUFFICES ASSUME TurnInv, [Next]_vars
             PROVE  LedgerNext \/ (\E s \in stale : WritesOnly(s)) \/ UNCHANGED tables
  OBVIOUS
<1>1. ASSUME NEW s \in Slots,
             \/ CommitUpdate(s) \/ CommitRemove(s) \/ CommitSend(s)
             \/ CommitPay(s) \/ CommitVoid(s) \/ CommitUncredit(s)
             \/ \E n \in Notes : CommitCredit(s, n)
      PROVE  LedgerNext \/ (\E t \in stale : WritesOnly(t))
  BY <1>1, TurnCommits, StaleCommits DEF TurnInv
<1>2. ASSUME NEW i \in Invoices, NEW total \in Totals, NewInvoice(i, total)
      PROVE  LedgerNext
  BY <1>2 DEF NewInvoice, LedgerNext
<1>3. ASSUME NEW s \in Slots,
             \/ ReadNote(s) \/ ReadInvoice(s) \/ Fail(s)
             \/ \E i \in Invoices : ArriveAtCredit(s, i)
             \/ \E i \in Invoices, op \in InvoiceOps : ArriveAtInvoice(s, op, i)
             \/ \E n \in Notes : ArriveAtUncredit(s, n)
      PROVE  UNCHANGED tables
  BY <1>3 DEF ReadNote, ReadInvoice, Fail, ArriveAtCredit, ArriveAtInvoice, ArriveAtUncredit, Arrive
<1>4. CASE UNCHANGED vars
  BY <1>4 DEF vars, tables
<1> QED
  BY <1>1, <1>2, <1>3, <1>4 DEF Next

(***************************************************************************)
(* Whatever requests overlap, on one invoice or on several, and wherever   *)
(* they fail: the service implements InvoiceLedger, but for commits of     *)
(* requests in whose time another one has written their invoice, and those *)
(* touch nothing but that invoice.                                         *)
(***************************************************************************)
THEOREM LedgerRefinement == Spec => ImplementsLedger
<1> DEFINE A == LedgerNext \/ \E s \in stale : WritesOnly(s)
<1>1. Init => TurnInv /\ LedgerInit
  BY OverlapInit DEF Init, LedgerInit, TurnInv
<1>2. TurnInv /\ [Next]_vars => TurnInv'
  BY TurnStep
<1>3. TurnInv /\ [Next]_vars => [A]_tables
  BY TurnRefines
<1>4. Spec => LedgerInit /\ [][A]_tables
  <2> HIDE DEF A
  <2> QED BY <1>1, <1>2, <1>3, PTL DEF Spec
<1> QED BY <1>4 DEF ImplementsLedger

(***************************************************************************)
(* Why: no request acts on what is no longer so, unless another one has    *)
(* written its invoice in the meantime.                                    *)
(***************************************************************************)
THEOREM SeenUntilWritten == Spec => []SeenIsPresent
<1>1. Init => TurnInv
  BY OverlapInit DEF Init, LedgerInit, TurnInv
<1>2. TurnInv /\ [Next]_vars => TurnInv'
  BY TurnStep
<1> QED
  BY <1>1, <1>2, TurnInvSeen, PTL DEF Spec
=============================================================================
