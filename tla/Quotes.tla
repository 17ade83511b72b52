------------------------------- MODULE Quotes -------------------------------
(***************************************************************************)
(* Quotes, the invoices they become and those made beside them, with the   *)
(* numbers both kinds of document count for themselves: quotes.service.ts  *)
(* behind its status guard, and as much of invoices.service.ts as makes,   *)
(* changes and deletes a row.  As in BillingRequests a request reads,      *)
(* checks and writes in separate statements of a READ COMMITTED            *)
(* transaction, and its UPDATE is by id.  Removal has no transaction.      *)
(***************************************************************************)
EXTENDS DocumentNumbers, FiniteSetsExt

CONSTANTS
  QuoteIds, InvoiceIds,   \* ids, never handed out twice
  NoQuote,                \* quoteId of an invoice that has none, or lost it
  Branches,
  Totals,                 \* what the lines of a new document add up to
  Revisions,              \* and those that replace them
  Slots,                  \* requests in flight at a time
  Ops,                    \* the operations the clients make use of
  LastDay                 \* bound: the days the model runs for

ASSUME QuotesAssumption ==
  /\ NoQuote \notin QuoteIds
  /\ Totals \subseteq Nat /\ Revisions \subseteq Nat
  /\ LastDay \in Nat
  /\ IsFiniteSet(QuoteIds) /\ IsFiniteSet(InvoiceIds)

VARIABLES
  quote, invoice,   \* the tables
  req,              \* what each request in flight has done and seen
  today,            \* the day in the branches' time zone
  ending,           \* it is the last millisecond of that day
  raced,            \* quotes on which two requests were in flight together
  behind            \* tables, branches and days of which a document is not counted

tables == <<quote, invoice>>
clock  == <<today, ending>>
vars   == <<tables, req, clock, raced, behind>>

QuoteStatus == {"DRAFT", "SENT", "ACCEPTED", "EXPIRED", "CANCELLED"}

(* total is what the lines add up to.                                      *)
QuoteRow == [status : QuoteStatus, branch : Branches, total : Nat,
             day : Nat, last : BOOLEAN, date : Nat, seq : Nat]
Unused   == [status |-> "new"]
Gone     == [status |-> "gone"]

(***************************************************************************)
(* The status of an invoice is BillingRequests'.  Here it is the one it    *)
(* was created with, SENT by acceptance and DRAFT by a request, since all  *)
(* that matters is what can be edited or deleted: that takes a handler     *)
(* that has read a draft, and nobody makes a draft of what he has not read *)
(* as one.  Credit notes rewrite grandTotal but no lines, so total stays.  *)
(***************************************************************************)
InvoiceRow == [status : {"DRAFT", "SENT"}, quote : QuoteIds \cup {NoQuote}, branch : Branches,
               total : Nat, day : Nat, last : BOOLEAN, date : Nat, seq : Nat]

Exists(q)  == InUse(quote[q])
Billed(i)  == InUse(invoice[i])

(* The invoices acceptance has made of q.                                  *)
BillsOf(q) == {i \in InvoiceIds : Billed(i) /\ invoice[i].quote = q /\ invoice[i].status = "SENT"}

Idle    == [pc |-> "idle"]
IdOps   == {"update", "remove", "send", "cancel", "expire", "accept"}
NewOps  == {"create", "invoice"}   \* POST /quotes, POST /invoices

(* quote is the one the request is on, quoteId what a new invoice carries. *)
Request == [pc : {"read", "dated", "numbered"}, op : IdOps \cup NewOps,
            quote : QuoteIds \cup {NoQuote}, quoteId : QuoteIds \cup {NoQuote},
            branch : Branches, total : Nat, date : Nat, seq : Nat]

TypeOK ==
  /\ quote \in [QuoteIds -> {Unused, Gone} \cup QuoteRow]
  /\ invoice \in [InvoiceIds -> {Unused, Gone} \cup InvoiceRow]
  /\ req \in [Slots -> {Idle} \cup Request]
  /\ today \in 0..LastDay /\ ending \in BOOLEAN
  /\ raced \subseteq QuoteIds
  /\ behind \subseteq {"quotes", "invoices"} \X Branches \X (0..LastDay)

Init ==
  /\ quote = [q \in QuoteIds |-> Unused]
  /\ invoice = [i \in InvoiceIds |-> Unused]
  /\ req = [s \in Slots |-> Idle]
  /\ today = 0 /\ ending = FALSE
  /\ raced = {}
  /\ behind = {}

-----------------------------------------------------------------------------
(* Fault: cancellation is for a quote in any status but that.              *)
AllowedOrAccepted(op) ==
  CASE op \in {"update", "remove", "send"} -> {"DRAFT"}
    [] op = "cancel" -> QuoteStatus \ {"CANCELLED"}
    [] OTHER -> {"DRAFT", "SENT"}

(* Fault: any quote may be edited.                                         *)
AllowedToEdit(op) ==
  CASE op \in {"remove", "send"} -> {"DRAFT"}
    [] op = "update" -> QuoteStatus
    [] OTHER -> {"DRAFT", "SENT"}

(* The statuses the controller asks for, and then the service.             *)
Allowed(op) ==
  IF op \in {"update", "remove", "send"} THEN {"DRAFT"} ELSE {"DRAFT", "SENT"}

(***************************************************************************)
(* QuoteStatusGuard reads the row and checks its status, and so does the   *)
(* service after it.  A status the second check lets through is one the    *)
(* first lets through as well, so the two reads are one step, the second.  *)
(* A row that is refused or not there ends the request: no step.           *)
(* Only update and accept make use of the rest of what the row says.       *)
(***************************************************************************)
ReadQuote(s, op, q) ==
  /\ req[s] = Idle
  /\ quote[q].status \in Allowed(op)
  /\ req' = [req EXCEPT ![s] =
       [pc |-> "read", op |-> op, quote |-> q, quoteId |-> NoQuote, branch |-> quote[q].branch,
        total |-> IF op \in {"update", "accept"} THEN quote[q].total ELSE 0,
        date |-> 0, seq |-> 0]]
  /\ raced' = IF \E r \in Slots : req[r] # Idle /\ req[r].quote = q THEN raced \cup {q} ELSE raced
  /\ UNCHANGED <<tables, clock, behind>>

(* A new quote, or invoice, has nothing to read before its number: nobody  *)
(* looks at the quote an invoice is to carry.                              *)
BeginCreation(s, op, b, total, q) ==
  /\ req[s] = Idle
  /\ op = "create" => q = NoQuote
  /\ req' = [req EXCEPT ![s] =
       [pc |-> "dated", op |-> op, quote |-> NoQuote, quoteId |-> q, branch |-> b,
        total |-> total, date |-> today, seq |-> 0]]
  /\ UNCHANGED <<tables, clock, raced, behind>>

-----------------------------------------------------------------------------
(***************************************************************************)
(* generateDocumentNumber: the branch is read and the clock after it, and  *)
(* then the documents of that day are counted.                             *)
(***************************************************************************)
ReadClock(s) ==
  /\ req[s].pc = "read"
  /\ req[s].op = "accept"
  /\ req' = [req EXCEPT ![s].pc = "dated", ![s].date = today]
  /\ UNCHANGED <<tables, clock, raced, behind>>

(* Fault: drafts of invoices do not count.                                 *)
NextSeqOfIssued(op, b, date) ==
  LET Issued == {i \in InvoiceIds : invoice[i].status # "DRAFT"}
  IN  1 + IF op = "create" THEN DayCount(quote, b, date)
                           ELSE DayCount([i \in Issued |-> invoice[i]], b, date)

NextSeq(op, b, date) ==
  1 + IF op = "create" THEN DayCount(quote, b, date) ELSE DayCount(invoice, b, date)

CountDocuments(s) ==
  LET r == req[s] IN
  /\ r.pc = "dated"
  /\ req' = [req EXCEPT ![s].pc = "numbered", ![s].seq = NextSeq(r.op, r.branch, r.date)]
  /\ UNCHANGED <<tables, clock, raced, behind>>

-----------------------------------------------------------------------------
(***************************************************************************)
(* The writes, up to the commit.  createdAt is the time of the INSERT.     *)
(***************************************************************************)
Done(s) == req' = [req EXCEPT ![s] = Idle]

(* What is created in the last millisecond of a day no count will include. *)
Uncounted(table, b) == IF ending THEN behind \cup {<<table, b, today>>} ELSE behind

CommitCreate(s, q) ==
  LET r == req[s] IN
  /\ r.pc = "numbered" /\ r.op = "create"
  /\ quote[q] = Unused
  /\ ~Taken(quote, r.branch, r.date, r.seq)
  /\ quote' = [quote EXCEPT ![q] =
       [status |-> "DRAFT", branch |-> r.branch, total |-> r.total,
        day |-> today, last |-> ending, date |-> r.date, seq |-> r.seq]]
  /\ behind' = Uncounted("quotes", r.branch)
  /\ Done(s)
  /\ UNCHANGED <<invoice, clock, raced>>

(* The total of the lines it brings, or of those it has read.              *)
CommitUpdate(s, total) ==
  LET r == req[s] IN
  /\ r.pc = "read" /\ r.op = "update"
  /\ Exists(r.quote)
  /\ total \in Revisions \cup {r.total}
  /\ quote' = [quote EXCEPT ![r.quote].total = total]
  /\ Done(s)
  /\ UNCHANGED <<invoice, clock, raced, behind>>

StatusAfter == [send |-> "SENT", cancel |-> "CANCELLED", expire |-> "EXPIRED"]

CommitStatus(s) ==
  LET r == req[s] IN
  /\ r.pc = "read" /\ r.op \in DOMAIN StatusAfter
  /\ Exists(r.quote)
  /\ quote' = [quote EXCEPT ![r.quote].status = StatusAfter[r.op]]
  /\ Done(s)
  /\ UNCHANGED <<invoice, clock, raced, behind>>

(* The foreign key of an invoice is set to null.                           *)
CommitRemove(s) ==
  LET r == req[s] IN
  /\ r.pc = "read" /\ r.op = "remove"
  /\ Exists(r.quote)
  /\ quote' = [quote EXCEPT ![r.quote] = Gone]
  /\ invoice' = [i \in InvoiceIds |-> IF Billed(i) /\ invoice[i].quote = r.quote
                                      THEN [invoice[i] EXCEPT !.quote = NoQuote]
                                      ELSE invoice[i]]
  /\ behind' = behind \cup {<<"quotes", quote[r.quote].branch, quote[r.quote].day>>}
  /\ Done(s)
  /\ UNCHANGED <<clock, raced>>

(* The invoice a request is about to insert.                               *)
NewInvoice(r, status, q) ==
  [status |-> status, quote |-> q, branch |-> r.branch, total |-> r.total,
   day |-> today, last |-> ending, date |-> r.date, seq |-> r.seq]

(* Fault: the status is committed whether or not the invoice is.           *)
CommitAcceptApart(s, i) ==
  LET r == req[s] IN
  /\ r.pc = "numbered" /\ r.op = "accept"
  /\ Exists(r.quote)
  /\ invoice[i] = Unused
  /\ invoice' = [invoice EXCEPT ![i] =
       IF Taken(invoice, r.branch, r.date, r.seq) THEN Unused ELSE NewInvoice(r, "SENT", r.quote)]
  /\ quote' = [quote EXCEPT ![r.quote].status = "ACCEPTED"]
  /\ behind' = Uncounted("invoices", r.branch)
  /\ Done(s)
  /\ UNCHANGED <<clock, raced>>

CommitAccept(s, i) ==
  LET r == req[s] IN
  /\ r.pc = "numbered" /\ r.op = "accept"
  /\ Exists(r.quote)
  /\ invoice[i] = Unused
  /\ ~Taken(invoice, r.branch, r.date, r.seq)
  /\ invoice' = [invoice EXCEPT ![i] = NewInvoice(r, "SENT", r.quote)]
  /\ quote' = [quote EXCEPT ![r.quote].status = "ACCEPTED"]
  /\ behind' = Uncounted("invoices", r.branch)
  /\ Done(s)
  /\ UNCHANGED <<clock, raced>>

(* POST /invoices: of its quote only the foreign key asks, and only        *)
(* whether there is one.                                                   *)
CommitInvoice(s, i) ==
  LET r == req[s] IN
  /\ r.pc = "numbered" /\ r.op = "invoice"
  /\ r.quoteId # NoQuote => Exists(r.quoteId)
  /\ invoice[i] = Unused
  /\ ~Taken(invoice, r.branch, r.date, r.seq)
  /\ invoice' = [invoice EXCEPT ![i] = NewInvoice(r, "DRAFT", r.quoteId)]
  /\ behind' = Uncounted("invoices", r.branch)
  /\ Done(s)
  /\ UNCHANGED <<quote, clock, raced>>

(***************************************************************************)
(* PATCH and DELETE of an invoice, at any time after a guard and the       *)
(* service have read a draft.  (A credit note may keep it from deletion.)  *)
(***************************************************************************)
EditInvoice(i, total) ==
  /\ invoice[i].status = "DRAFT"
  /\ invoice' = [invoice EXCEPT ![i].total = total]
  /\ UNCHANGED <<quote, req, clock, raced, behind>>

RemoveInvoice(i) ==
  /\ invoice[i].status = "DRAFT"
  /\ invoice' = [invoice EXCEPT ![i] = Gone]
  /\ behind' = behind \cup {<<"invoices", invoice[i].branch, invoice[i].day>>}
  /\ UNCHANGED <<quote, req, clock, raced>>

(* A check refuses (validateProducts among them), the number is taken, the *)
(* row is gone, the database fails: nothing is written.                    *)
Fail(s) ==
  /\ req[s] # Idle
  /\ Done(s)
  /\ UNCHANGED <<tables, clock, raced, behind>>

LastMillisecond ==
  /\ today < LastDay /\ ~ending
  /\ ending' = TRUE
  /\ UNCHANGED <<tables, req, today, raced, behind>>

Midnight ==
  /\ ending
  /\ today' = today + 1 /\ ending' = FALSE
  /\ UNCHANGED <<tables, req, raced, behind>>

-----------------------------------------------------------------------------
Next ==
  \/ \E s \in Slots :
       \/ \E op \in IdOps \cap Ops, q \in QuoteIds : ReadQuote(s, op, q)
       \/ \E op \in NewOps \cap Ops, b \in Branches, total \in Totals, q \in QuoteIds \cup {NoQuote} :
            BeginCreation(s, op, b, total, q)
       \/ ReadClock(s) \/ CountDocuments(s)
       \/ \E q \in QuoteIds : CommitCreate(s, q)
       \/ \E total \in Totals \cup Revisions : CommitUpdate(s, total)
       \/ CommitStatus(s) \/ CommitRemove(s)
       \/ \E i \in InvoiceIds : CommitAccept(s, i) \/ CommitInvoice(s, i)
       \/ Fail(s)
  \/ \E i \in InvoiceIds : RemoveInvoice(i) \/ \E total \in Revisions : EditInvoice(i, total)
  \/ LastMillisecond \/ Midnight

Spec == Init /\ [][Next]_vars
-----------------------------------------------------------------------------
(***************************************************************************)
(* Whatever requests overlap, nobody is told that a quote was accepted     *)
(* that no invoice was made of, since accept writes both or neither, and   *)
(* nobody deletes that invoice; and a quote that was accepted never is a   *)
(* draft again, which could be edited or removed.  (A draft of an invoice  *)
(* may name any quote, and may go; it does not count here.)                *)
(***************************************************************************)
AcceptedIsBilled ==
  \A q \in QuoteIds :
    /\ quote[q].status = "ACCEPTED" => BillsOf(q) # {}
    /\ BillsOf(q) # {} => quote[q].status # "DRAFT"

(***************************************************************************)
(* The numbers that the next quote and the next invoice of a branch count  *)
(* for themselves are free, also when midnight passes between counting and *)
(* creation, unless the day has a document that is not counted: one of     *)
(* that table was deleted, or created in the last millisecond.  (After a   *)
(* deletion creation may fail for the whole day.)                          *)
(***************************************************************************)
NextNumberFree ==
  \A b \in Branches :
    /\ <<"invoices", b, today>> \notin behind =>
         ~Taken(invoice, b, today, NextSeq("accept", b, today))
    /\ <<"quotes", b, today>> \notin behind =>
         ~Taken(quote, b, today, NextSeq("create", b, today))

(***************************************************************************)
(* As long as requests on it come one at a time, the invoice that          *)
(* acceptance makes of a quote is over what the quote says, and both stay  *)
(* as they are.                                                            *)
(***************************************************************************)
BilledAsQuoted ==
  \A q \in QuoteIds \ raced :
    \A i \in BillsOf(q) : invoice[i].total = quote[q].total

(***************************************************************************)
(* As long as requests on it come one at a time, a quote lives as          *)
(* QuoteLife says, whatever invoices are made and deleted beside it: ends  *)
(* are final, and acceptance makes exactly one invoice.                    *)
(***************************************************************************)
Life  == [q \in QuoteIds |-> IF q \in raced THEN "raced" ELSE quote[q].status]
Bills == [q \in QuoteIds |-> IF q \in raced THEN 0 ELSE Cardinality(BillsOf(q))]

Promise == INSTANCE QuoteLife WITH Quotes <- QuoteIds, life <- Life, bills <- Bills

ImplementsQuoteLife == Promise!Spec
=============================================================================
