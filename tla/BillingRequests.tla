--------------------------- MODULE BillingRequests ---------------------------
(***************************************************************************)
(* The billing half of the API as it runs: HTTP requests on invoices and   *)
(* credit notes, each of which                                             *)
(*   - reads the row in the status guard of the controller,                *)
(*   - reads it again inside the service's transaction and checks it,      *)
(*   - writes columns computed from that second read, and commits.         *)
(* $transaction is called without an isolation level, so PostgreSQL runs   *)
(* it READ COMMITTED: between any two of these steps other requests may    *)
(* commit, and an UPDATE by id then overwrites what they wrote.  Row locks *)
(* are held from the first write to the commit, which makes these one step.*)
(* The tables, and the rules by which a row is rewritten, are the ledger's.*)
(***************************************************************************)
EXTENDS InvoiceLedger

CONSTANTS
  Slots,        \* requests the API process has in flight at a time
  NoNote,       \* the note of a request that has none
  Ops,          \* the operations the clients make use of
  MaxReceipts   \* bound: no new payment once an invoice has received this

InvoiceOps == {"edit", "replace", "remove", "send", "pay", "void"}
AllOps     == InvoiceOps \cup {"credit", "uncredit"}

ASSUME RequestAssumption == /\ NoNote \notin Notes
                            /\ Ops \subseteq AllOps
                            /\ MaxReceipts \in Nat

VARIABLES
  req,     \* what each request in flight has done and seen
  stale    \* slots in whose request's time another has written its invoice

vars == <<invoice, receipts, note, req, stale>>

Idle    == [pc |-> "idle"]
Request == [pc : {"guarded", "noted", "read"}, op : AllOps, inv : Invoices,
            note : Notes \cup {NoNote}, amount : Nat, read : InvoiceRow]

TypeOK == LedgerTypeOK /\ req \in [Slots -> {Idle} \cup Request] /\ stale \subseteq Slots

Init == LedgerInit /\ req = [s \in Slots |-> Idle] /\ stale = {}

-----------------------------------------------------------------------------
(***************************************************************************)
(* Creation reads nothing another request of this module changes; the      *)
(* number it counts for itself is the subject of DocumentNumbers.          *)
(***************************************************************************)
NewInvoice(i, total) ==
  /\ CreateInvoice(i, total) \/ AcceptQuote(i, total)
  /\ UNCHANGED <<req, stale>>

-----------------------------------------------------------------------------
(***************************************************************************)
(* A request arrives and the guard reads its row.  A row the guard refuses *)
(* or does not find ends the request with no effect: no step.              *)
(***************************************************************************)
InFlight(i) == {s \in Slots : req[s] # Idle /\ req[s].inv = i}

Arrive(s, op, i, n, amount) ==
  /\ op \in Ops
  /\ req[s] = Idle
  /\ req' = [req EXCEPT ![s] = [pc |-> "guarded", op |-> op, inv |-> i, note |-> n,
                                amount |-> amount, read |-> NoRow]]
  /\ UNCHANGED <<tables, stale>>

ArriveAtInvoice(s, op, i) ==
  /\ invoice[i].status \in GuardStatuses[IF op \in {"edit", "replace"} THEN "update" ELSE op]
  /\ \/ op \in {"edit", "remove", "send", "void"} /\ Arrive(s, op, i, NoNote, 0)
     \/ op = "replace" /\ \E total \in Totals : Arrive(s, op, i, NoNote, total)
     \/ /\ op = "pay"
        /\ receipts[i] < MaxReceipts
        /\ \E amount \in Payments : Arrive(s, op, i, NoNote, amount)

(* No guard looks at the invoice a credit note is issued on.               *)
ArriveAtCredit(s, i) ==
  /\ Exists(invoice[i])
  /\ \E amount \in Credits : Arrive(s, "credit", i, NoNote, amount)

ArriveAtUncredit(s, n) ==
  /\ note[n].status = "ISSUED"
  /\ Arrive(s, "uncredit", note[n].inv, n, 0)

-----------------------------------------------------------------------------
(***************************************************************************)
(* The reads inside the service.  Voiding a credit note selects the note   *)
(* and then, in a second statement, the invoice that belongs to it.        *)
(***************************************************************************)
ReadNote(s) ==
  /\ req[s].pc = "guarded"
  /\ req[s].op = "uncredit"
  /\ note[req[s].note].status = "ISSUED"
  /\ req' = [req EXCEPT ![s].pc = "noted", ![s].amount = note[req[s].note].amount]
  /\ UNCHANGED <<tables, stale>>

ServiceAccepts(r, row) ==
  /\ r.op \in {"edit", "replace", "remove", "send"} => row.status = "DRAFT"
  /\ r.op = "pay"    => MayPay(row, r.amount)
  /\ r.op = "void"   => row.status # "VOID"
  /\ r.op = "credit" => MayCredit(row, r.amount)

(* Fault: only the guard of the controller checks.                         *)
ReadInvoiceUnchecked(s) ==
  LET row == invoice[req[s].inv] IN
  /\ \/ req[s].pc = "guarded" /\ req[s].op # "uncredit"
     \/ req[s].pc = "noted"
  /\ Exists(row)
  /\ req' = [req EXCEPT ![s].pc = "read", ![s].read = row]
  /\ UNCHANGED <<tables, stale>>

ReadInvoice(s) ==
  LET row == invoice[req[s].inv] IN
  /\ \/ req[s].pc = "guarded" /\ req[s].op # "uncredit"
     \/ req[s].pc = "noted"
  /\ Exists(row)
  /\ ServiceAccepts(req[s], row)
  /\ req' = [req EXCEPT ![s].pc = "read", ![s].read = row]
  /\ UNCHANGED <<tables, stale>>

-----------------------------------------------------------------------------
(***************************************************************************)
(* The writes.  An UPDATE or a foreign key that no longer finds the row    *)
(* fails, and with it the request.                                         *)
(***************************************************************************)
Commit(s, op, row) ==
  /\ req[s].pc = "read"
  /\ req[s].op = op
  /\ Exists(invoice[req[s].inv])
  /\ invoice' = [invoice EXCEPT ![req[s].inv] = row]
  /\ req' = [req EXCEPT ![s] = Idle]
  /\ stale' = (stale \cup InFlight(req[s].inv)) \ {s}

CommitUpdate(s) ==
  LET r == req[s]
      row == invoice[r.inv]
  IN  /\ \/ Commit(s, "edit", RepricedRow(row, r.read, r.read.items))
         \/ Commit(s, "replace", ReplacedRow(row, r.read, r.amount))
      /\ UNCHANGED <<receipts, note>>

(* Faults: the foreign key of a credit note does not restrict the deletion *)
(* of its invoice; it cascades.                                            *)
CommitRemoveAnyway(s) ==
  /\ Commit(s, "remove", GoneRow)
  /\ receipts' = [receipts EXCEPT ![req[s].inv] = 0]
  /\ UNCHANGED note

CommitRemoveNotes(s) ==
  /\ Commit(s, "remove", GoneRow)
  /\ receipts' = [receipts EXCEPT ![req[s].inv] = 0]
  /\ note' = [n \in Notes |-> IF n \in NotesOf(req[s].inv) THEN UnusedNote ELSE note[n]]

(* Not a transaction: the DELETE takes the row whatever has become of it,  *)
(* payments included, unless a credit note refers to it.                   *)
CommitRemove(s) ==
  /\ Commit(s, "remove", GoneRow)
  /\ NotesOf(req[s].inv) = {}
  /\ receipts' = [receipts EXCEPT ![req[s].inv] = 0]
  /\ UNCHANGED note

CommitSend(s) ==
  /\ Commit(s, "send", SentRow(invoice[req[s].inv]))
  /\ UNCHANGED <<receipts, note>>

CommitPay(s) ==
  LET r == req[s] IN
  /\ Commit(s, "pay", PaidRow(invoice[r.inv], r.read, r.amount))
  /\ receipts' = [receipts EXCEPT ![r.inv] = @ + r.amount]
  /\ UNCHANGED note

CommitVoid(s) ==
  /\ Commit(s, "void", VoidedRow(invoice[req[s].inv]))
  /\ UNCHANGED <<receipts, note>>

CommitCredit(s, n) ==
  LET r == req[s] IN
  /\ note[n] = UnusedNote
  /\ Commit(s, "credit", AdjustedRow(invoice[r.inv], r.read, r.amount))
  /\ note' = [note EXCEPT ![n] = [status |-> "ISSUED", inv |-> r.inv, amount |-> r.amount]]
  /\ UNCHANGED receipts

(* Fault: the note is not marked void.                                     *)
CommitUncreditNoteKept(s) ==
  LET r == req[s] IN
  /\ Commit(s, "uncredit", AdjustedRow(invoice[r.inv], r.read, -r.amount))
  /\ UNCHANGED <<receipts, note>>

CommitUncredit(s) ==
  LET r == req[s] IN
  /\ Commit(s, "uncredit", AdjustedRow(invoice[r.inv], r.read, -r.amount))
  /\ note' = [note EXCEPT ![r.note].status = "VOID"]
  /\ UNCHANGED receipts

(***************************************************************************)
(* A request ends without effect at any point: a check of the service      *)
(* refuses it, a number is already taken, the database answers with an     *)
(* error, or the process dies and the transaction is rolled back.          *)
(***************************************************************************)
Fail(s) ==
  /\ req[s] # Idle
  /\ req' = [req EXCEPT ![s] = Idle]
  /\ stale' = stale \ {s}
  /\ UNCHANGED tables

Next ==
  \/ \E i \in Invoices, total \in Totals : NewInvoice(i, total)
  \/ \E s \in Slots :
       \/ \E i \in Invoices : ArriveAtCredit(s, i)
       \/ \E i \in Invoices, op \in InvoiceOps : ArriveAtInvoice(s, op, i)
       \/ \E n \in Notes : ArriveAtUncredit(s, n) \/ CommitCredit(s, n)
       \/ ReadNote(s) \/ ReadInvoice(s)
       \/ CommitUpdate(s) \/ CommitRemove(s) \/ CommitSend(s)
       \/ CommitPay(s) \/ CommitVoid(s) \/ CommitUncredit(s)
       \/ Fail(s)

Spec == Init /\ [][Next]_vars
-----------------------------------------------------------------------------
(***************************************************************************)
(* Whatever requests overlap and fail, the tables only change as           *)
(* InvoiceLedger promises, but for one thing: a request on whose invoice   *)
(* another one committed after it arrived may write what it likes there.   *)
(* It touches no other invoice, though, nor what belongs to one.  So to    *)
(* be in flight together is harmless as long as only one of them writes.   *)
(***************************************************************************)
WritesOnly(s) ==
  LET i == req[s].inv IN
  /\ req'[s] = Idle
  /\ \A j \in Invoices : invoice'[j] # invoice[j] \/ receipts'[j] # receipts[j] => j = i
  /\ \A n \in Notes : note'[n] # note[n] =>
       /\ note'[n].inv = i
       /\ note[n] # UnusedNote => note[n].inv = i

ImplementsLedger ==
  LedgerInit /\ [][LedgerNext \/ \E s \in stale : WritesOnly(s)]_tables

(***************************************************************************)
(* True under every interleaving: paidTotal may lose a payment to a        *)
(* concurrent one, but it never claims money that was not received.        *)
(***************************************************************************)
PaidWithinReceipts == \A i \in Invoices : invoice[i].paid <= receipts[i]

(***************************************************************************)
(* True under every interleaving: no invoice shows as partially paid       *)
(* unless a payment of it is on record, nor as paid unless a payment or a  *)
(* credit note is.                                                         *)
(***************************************************************************)
StatusHasCause ==
  \A i \in Invoices :
    /\ invoice[i].status = "PARTIALLY_PAID" => receipts[i] > 0
    /\ invoice[i].status = "PAID" => receipts[i] > 0 \/ NotesOf(i) # {}

(***************************************************************************)
(* True under every interleaving: no credit note outlives its invoice,     *)
(* although remove never looks for one and credit-note creation, between   *)
(* its read and its insert, does not hold the invoice.                     *)
(***************************************************************************)
NoteHasInvoice == \A n \in Notes : note[n] # UnusedNote => Exists(invoice[note[n].inv])

(***************************************************************************)
(* Why the three hold: a request in flight never takes an invoice for      *)
(* better paid than it is, and a note being voided still belongs to its    *)
(* invoice.                                                                *)
(***************************************************************************)
SeenIsPast ==
  \A s \in Slots : req[s] # Idle =>
    LET r == req[s] IN
    /\ invoice[r.inv].status # "NEW"
    /\ r.op = "pay" => r.amount > 0
    /\ r.op = "uncredit" => r.note \in NotesOf(r.inv)
    /\ r.pc = "read" /\ Exists(invoice[r.inv]) => r.read.paid <= receipts[r.inv]

OverlapInv == TypeOK /\ PaidWithinReceipts /\ StatusHasCause /\ NoteHasInvoice /\ SeenIsPast

(***************************************************************************)
(* Why the first holds: what a request has seen is still so when it writes *)
(* unless another one has written that invoice since.                      *)
(***************************************************************************)
SeenIsPresent ==
  \A s \in Slots \ stale : req[s] # Idle =>
    LET r == req[s]
        row == invoice[r.inv]
    IN  /\ Exists(row)
        /\ r.op = "replace" => r.amount \in Totals
        /\ r.op = "pay" => r.amount \in Payments /\ row.status \in GuardStatuses.pay
        /\ r.op = "credit" => r.amount \in Credits
        /\ r.op = "uncredit" => /\ r.note \in NotesOf(r.inv)
                                /\ note[r.note].status = "ISSUED"
                                /\ r.pc # "guarded" => r.amount = note[r.note].amount
        /\ r.pc = "read" => r.read = row /\ ServiceAccepts(r, row)
=============================================================================
