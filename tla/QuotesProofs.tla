----------------------------- MODULE QuotesProofs -----------------------------
(***************************************************************************)
(* Quotes, for any number of them, of invoices, branches and requests in   *)
(* flight, and whatever invoices are made, edited and deleted beside those *)
(* of acceptances.                                                         *)
(***************************************************************************)
EXTENDS Quotes, FiniteSetTheorems, TLAPS

Active(s) == req[s] # Idle

ClockOK == today \in Nat /\ ending \in BOOLEAN

Typed ==
  /\ quote \in [QuoteIds -> {Unused, Gone} \cup QuoteRow]
  /\ invoice \in [InvoiceIds -> {Unused, Gone} \cup InvoiceRow]
  /\ req \in [Slots -> {Idle} \cup Request]
  /\ \A s \in Slots : Active(s) => (req[s].op \in NewOps <=> req[s].quote = NoQuote)

(***************************************************************************)
(* Of quotes raced or not: an accepted one has an invoice of acceptance,   *)
(* and one that has such has left its draft and still is there.            *)
(***************************************************************************)
BillsInv ==
  \A q \in QuoteIds :
    /\ quote[q].status = "ACCEPTED" => BillsOf(q) # {}
    /\ BillsOf(q) # {} => quote[q].status \notin {"new", "gone", "DRAFT"}

(***************************************************************************)
(* Of quotes not raced: one request at a time, which acts on what it has   *)
(* read; an acceptance's invoice only of an accepted quote, and over its   *)
(* total.                                                                  *)
(***************************************************************************)
Alone ==
  \A s, t \in Slots :
    Active(s) /\ Active(t) /\ s # t /\ req[s].quote = req[t].quote => req[s].quote \in raced \cup {NoQuote}

StillAsRead ==
  \A s \in Slots :
    Active(s) /\ req[s].quote \in QuoteIds \ raced =>
      /\ quote[req[s].quote].status \in Allowed(req[s].op)
      /\ req[s].op \in {"update", "accept"} => req[s].total = quote[req[s].quote].total

InTurn(q) == BillsOf(q) # {} => quote[q].status = "ACCEPTED"
AsQuoted(q) == \A i \in BillsOf(q) : invoice[i].total = quote[q].total

TurnInv == Alone /\ StillAsRead /\ \A q \in QuoteIds \ raced : InTurn(q) /\ AsQuoted(q)

QuoteInv == Typed /\ BillsInv /\ TurnInv

-----------------------------------------------------------------------------
LEMMA Rows ==
  ASSUME Typed
  PROVE  /\ \A q \in QuoteIds : quote[q].status \notin {"new", "gone"} => quote[q] \in QuoteRow
         /\ \A i \in InvoiceIds : Billed(i) => invoice[i] \in InvoiceRow
         /\ \A i \in InvoiceIds : invoice[i] \in {Unused, Gone} <=> ~Billed(i)
         /\ \A s \in Slots : Active(s) => req[s] \in Request
         /\ \A s \in Slots : req[s].pc # "idle" => Active(s)
         /\ \A s \in Slots : Active(s) /\ req[s].op \notin NewOps => req[s].quote \in QuoteIds
BY DEF Typed, Unused, Gone, Idle, Active, Billed, InUse, Request, InvoiceRow

LEMMA NotIdle == \A r \in Request : r # Idle
BY DEF Request, Idle

LEMMA NextSeqNat == ASSUME Typed, NEW op, NEW b, NEW d PROVE NextSeq(op, b, d) \in Nat
<1> DEFINE qs == {p \in Documents(quote) : quote[p].branch = b /\ quote[p].day = d /\ ~quote[p].last}
           is == {i \in Documents(invoice) : invoice[i].branch = b /\ invoice[i].day = d /\ ~invoice[i].last}
<1>1. qs \in SUBSET QuoteIds /\ is \in SUBSET InvoiceIds
  BY DEF Typed, Documents
<1>2. IsFiniteSet(qs) /\ IsFiniteSet(is)
  <2>1. IsFiniteSet(QuoteIds) /\ IsFiniteSet(InvoiceIds)
    BY QuotesAssumption
  <2> QED BY <1>1, <2>1, FS_Subset
<1>3. Cardinality(qs) \in Nat /\ Cardinality(is) \in Nat
  BY <1>2, FS_CardinalityType
<1>4. NextSeq(op, b, d) = 1 + IF op = "create" THEN Cardinality(qs) ELSE Cardinality(is)
  BY DEF NextSeq, DayCount
<1> HIDE DEF qs, is
<1> QED BY <1>3, <1>4

-----------------------------------------------------------------------------
(* What invoices acceptance has made is left alone.                        *)
BillsKept ==
  /\ invoice' \in [InvoiceIds -> {Unused, Gone} \cup InvoiceRow]
  /\ \A q \in QuoteIds : BillsOf(q)' = BillsOf(q)
  /\ \A q \in QuoteIds : \A i \in BillsOf(q) : invoice'[i].total = invoice[i].total

LEMMA InvoicesKept == ASSUME QuoteInv, UNCHANGED invoice PROVE BillsKept
BY DEF QuoteInv, Typed, BillsKept, BillsOf, Billed

(* A draft of an invoice comes, changes or goes.                           *)
LEMMA DraftKeepsBills ==
  ASSUME QuoteInv, NEW i \in InvoiceIds, invoice[i] = Unused \/ invoice[i].status = "DRAFT",
         NEW row \in {Gone} \cup InvoiceRow, row.status # "SENT",
         invoice' = [invoice EXCEPT ![i] = row]
  PROVE  BillsKept
<1>1. /\ invoice' \in [InvoiceIds -> {Unused, Gone} \cup InvoiceRow] /\ invoice'[i] = row
      /\ \A j \in InvoiceIds : j # i => invoice'[j] = invoice[j]
  BY DEF QuoteInv, Typed
<1>2. \A q \in QuoteIds : i \notin BillsOf(q) /\ i \notin BillsOf(q)'
  BY <1>1 DEF BillsOf, Unused
<1>3. ASSUME NEW q \in QuoteIds PROVE BillsOf(q)' = BillsOf(q)
  <2>1. \A j \in InvoiceIds : j \in BillsOf(q)' <=> j \in BillsOf(q)
    BY <1>1, <1>2 DEF BillsOf, Billed
  <2> QED BY <2>1 DEF BillsOf
<1>4. \A q \in QuoteIds : \A j \in BillsOf(q) : invoice'[j].total = invoice[j].total
  BY <1>1, <1>2 DEF BillsOf
<1> QED BY <1>1, <1>3, <1>4 DEF BillsKept

(***************************************************************************)
(* A request takes a step of its own: it ends, or goes on as what it was,  *)
(* or it has just read, and is alone on its quote unless that is raced.    *)
(***************************************************************************)
LEMMA RequestStep ==
  ASSUME QuoteInv, UNCHANGED quote, BillsKept, raced \subseteq raced',
         NEW s \in Slots, NEW r \in {Idle} \cup Request, req' = [req EXCEPT ![s] = r],
         r # Idle => (r.op \in NewOps <=> r.quote = NoQuote),
         \/ r = Idle
         \/ Active(s) /\ r.op = req[s].op /\ r.quote = req[s].quote /\ r.total = req[s].total
         \/ r.quote = NoQuote
         \/ /\ quote[r.quote].status \in Allowed(r.op)
            /\ r.op \in {"update", "accept"} => r.total = quote[r.quote].total
            /\ \A t \in Slots : Active(t) /\ req[t].quote = r.quote => r.quote \in raced'
  PROVE  QuoteInv'
<1>1. /\ req' \in [Slots -> {Idle} \cup Request] /\ req'[s] = r
      /\ \A t \in Slots : t # s => req'[t] = req[t]
  BY DEF QuoteInv, Typed
<1>2. Typed'
  BY <1>1 DEF QuoteInv, Typed, Active, BillsKept
<1>3. BillsInv'
  BY DEF QuoteInv, BillsInv, BillsKept
<1>4. Alone'
  <2> SUFFICES ASSUME NEW t \in Slots, t # s, req[t] # Idle, r # Idle, r.quote = req[t].quote
               PROVE  r.quote \in raced' \cup {NoQuote}
    BY <1>1 DEF Alone, Active, QuoteInv, TurnInv
  <2> QED BY DEF Alone, Active, QuoteInv, TurnInv
<1>5. StillAsRead'
  <2>1. ASSUME NEW t \in Slots, t # s, Active(t)', req'[t].quote \in QuoteIds \ raced'
        PROVE  /\ quote'[req'[t].quote].status \in Allowed(req'[t].op)
               /\ req'[t].op \in {"update", "accept"} => req'[t].total = quote'[req'[t].quote].total
    BY <1>1, <2>1 DEF StillAsRead, Active, QuoteInv, TurnInv
  <2>2. ASSUME r # Idle, r.quote \in QuoteIds \ raced'
        PROVE  /\ quote[r.quote].status \in Allowed(r.op)
               /\ r.op \in {"update", "accept"} => r.total = quote[r.quote].total
    BY <2>2, QuotesAssumption DEF StillAsRead, Active, QuoteInv, TurnInv
  <2> QED BY <1>1, <2>1, <2>2 DEF StillAsRead, Active
<1>6. \A q \in QuoteIds \ raced' : InTurn(q)' /\ AsQuoted(q)'
  <2> SUFFICES ASSUME NEW q \in QuoteIds \ raced' PROVE InTurn(q)' /\ AsQuoted(q)'
    OBVIOUS
  <2>1. InTurn(q) /\ AsQuoted(q)
    BY DEF QuoteInv, TurnInv
  <2> QED BY <2>1 DEF InTurn, AsQuoted, BillsKept
<1> QED BY <1>2, <1>3, <1>4, <1>5, <1>6 DEF QuoteInv, TurnInv

(***************************************************************************)
(* A request commits: it ends, and changes a quote nobody else is at work  *)
(* on, unless it is raced, and at most the invoices of that quote.         *)
(***************************************************************************)
LEMMA CommitStep ==
  ASSUME QuoteInv, UNCHANGED raced,
         NEW s \in Slots, Active(s), req' = [req EXCEPT ![s] = Idle],
         NEW q \in QuoteIds, req[s].quote = q \/ quote[q] = Unused,
         NEW row \in {Gone} \cup QuoteRow, quote' = [quote EXCEPT ![q] = row],
         invoice' \in [InvoiceIds -> {Unused, Gone} \cup InvoiceRow],
         \A i \in InvoiceIds : invoice'[i] = invoice[i] \/
           /\ ~Billed(i) \/ invoice[i].quote = q
           /\ ~Billed(i)' \/ invoice'[i].quote \in {q, NoQuote},
         row.status = "ACCEPTED" => BillsOf(q)' # {},
         BillsOf(q)' # {} => row.status \notin {"gone", "DRAFT"},
         q \notin raced =>
           /\ BillsOf(q)' # {} => row.status = "ACCEPTED"
           /\ \A i \in BillsOf(q)' : invoice'[i].total = row.total
  PROVE  QuoteInv'
<1>1. /\ req' \in [Slots -> {Idle} \cup Request] /\ req'[s] = Idle
      /\ \A t \in Slots : t # s => req'[t] = req[t]
      /\ quote' \in [QuoteIds -> {Unused, Gone} \cup QuoteRow] /\ quote'[q] = row
      /\ \A p \in QuoteIds : p # q => quote'[p] = quote[p]
  BY DEF QuoteInv, Typed
<1>2. Typed'
  BY <1>1 DEF QuoteInv, Typed, Active
<1>3. ASSUME NEW p \in QuoteIds, p # q
      PROVE  /\ BillsOf(p)' = BillsOf(p)
             /\ \A i \in BillsOf(p) : invoice'[i] = invoice[i]
  BY <1>3, QuotesAssumption DEF BillsOf, Billed
<1>4. row.status # "new"
  BY DEF Gone, QuoteRow, QuoteStatus
<1>5. BillsInv'
  <2> SUFFICES ASSUME NEW p \in QuoteIds
               PROVE  /\ quote'[p].status = "ACCEPTED" => BillsOf(p)' # {}
                      /\ BillsOf(p)' # {} => quote'[p].status \notin {"new", "gone", "DRAFT"}
    BY DEF BillsInv
  <2>1. CASE p = q
    BY <1>1, <1>4, <2>1
  <2>2. CASE p # q
    BY <1>1, <1>3, <2>2 DEF QuoteInv, BillsInv
  <2> QED BY <2>1, <2>2
<1>6. Alone'
  BY <1>1 DEF Alone, Active, QuoteInv, TurnInv
<1>7. ASSUME NEW t \in Slots, t # s, Active(t), req[t].quote = q PROVE q \in raced
  <2>1. CASE req[s].quote = q
    BY <1>7, <2>1, QuotesAssumption DEF QuoteInv, TurnInv, Alone
  <2>2. CASE quote[q] = Unused
    <3>1. quote[q].status = "new"
      BY <2>2 DEF Unused
    <3>2. quote[q].status \notin Allowed(req[t].op)
      BY <3>1 DEF Allowed
    <3> QED BY <1>7, <3>2 DEF QuoteInv, TurnInv, StillAsRead
  <2> QED BY <2>1, <2>2
<1>8. StillAsRead'
  <2> SUFFICES ASSUME NEW t \in Slots, Active(t)', req'[t].quote \in QuoteIds \ raced
               PROVE  /\ quote'[req'[t].quote].status \in Allowed(req'[t].op)
                      /\ req'[t].op \in {"update", "accept"} => req'[t].total = quote'[req'[t].quote].total
    BY DEF StillAsRead
  <2>1. t # s /\ req'[t] = req[t] /\ Active(t)
    BY <1>1 DEF Active
  <2>2. req[t].quote # q
    BY <1>7, <2>1
  <2>3. quote'[req[t].quote] = quote[req[t].quote]
    BY <1>1, <2>1, <2>2
  <2> QED BY <2>1, <2>3 DEF QuoteInv, TurnInv, StillAsRead
<1>9. ASSUME NEW p \in QuoteIds \ raced PROVE InTurn(p)' /\ AsQuoted(p)'
  <2>1. CASE p = q
    BY <1>1, <2>1 DEF InTurn, AsQuoted
  <2>2. CASE p # q
    <3>1. InTurn(p) /\ AsQuoted(p)
      BY DEF QuoteInv, TurnInv
    <3> QED BY <1>1, <1>3, <2>2, <3>1 DEF InTurn, AsQuoted
  <2> QED BY <2>1, <2>2
<1> QED BY <1>2, <1>5, <1>6, <1>8, <1>9 DEF QuoteInv, TurnInv

-----------------------------------------------------------------------------
(* What the steps look like to QuoteLife.                                  *)
LEMMA MoveRefines ==
  ASSUME UNCHANGED raced, NEW q \in QuoteIds, NEW from, NEW to, NEW n,
         q \notin raced =>
           /\ quote[q].status \in from /\ quote'[q].status = to
           /\ Cardinality(BillsOf(q)') = Cardinality(BillsOf(q)) + n,
         \A p \in QuoteIds : p # q => quote'[p].status = quote[p].status /\ BillsOf(p)' = BillsOf(p)
  PROVE  Promise!Move(q, from, to, n) \/ UNCHANGED <<Life, Bills>>
<1>1. CASE q \in raced
  <2>1. Life' = Life /\ Bills' = Bills
    BY <1>1 DEF Life, Bills
  <2> QED BY <2>1
<1>2. CASE q \notin raced
  <2>1. Life[q] \in from
    BY <1>2 DEF Life
  <2>2. Life' = [Life EXCEPT ![q] = to]
    BY <1>2 DEF Life
  <2>3. Bills' = [Bills EXCEPT ![q] = @ + n]
    BY <1>2 DEF Bills
  <2> QED BY <2>1, <2>2, <2>3 DEF Promise!Move
<1> QED BY <1>1, <1>2

LEMMA Stutters ==
  ASSUME UNCHANGED raced, BillsKept, \A p \in QuoteIds : quote'[p].status = quote[p].status
  PROVE  UNCHANGED <<Life, Bills>>
BY DEF Life, Bills, BillsKept

LEMMA RaceRefines ==
  ASSUME UNCHANGED <<quote, invoice>>, NEW q \in QuoteIds, raced' = raced \cup {q}
  PROVE  Promise!Race(q)
<1>1. Life' = [Life EXCEPT ![q] = "raced"]
  BY DEF Life
<1>2. Bills' = [Bills EXCEPT ![q] = 0]
  BY DEF Bills, BillsOf, Billed
<1> QED BY <1>1, <1>2 DEF Promise!Race

LEMMA NoBills ==
  ASSUME QuoteInv, NEW q \in QuoteIds \ raced, quote[q].status # "ACCEPTED"
  PROVE  BillsOf(q) = {} /\ Cardinality(BillsOf(q)) = 0
<1>1. BillsOf(q) = {}
  BY DEF QuoteInv, TurnInv, InTurn
<1> QED BY <1>1, FS_EmptySet

Refines == [Promise!Next]_<<Life, Bills>>

-----------------------------------------------------------------------------
LEMMA ReadStep ==
  ASSUME QuoteInv, NEW s \in Slots, NEW op \in IdOps, NEW q \in QuoteIds, ReadQuote(s, op, q)
  PROVE  QuoteInv' /\ Refines
<1> DEFINE r == [pc |-> "read", op |-> op, quote |-> q, quoteId |-> NoQuote, branch |-> quote[q].branch,
                 total |-> IF op \in {"update", "accept"} THEN quote[q].total ELSE 0,
                 date |-> 0, seq |-> 0]
           shared == \E t \in Slots : req[t] # Idle /\ req[t].quote = q
<1>1. /\ req' = [req EXCEPT ![s] = r] /\ UNCHANGED <<quote, invoice>>
      /\ quote[q].status \in Allowed(op)
      /\ raced' = IF shared THEN raced \cup {q} ELSE raced
  BY DEF ReadQuote, tables
<1>2. quote[q] \in QuoteRow
  <2>1. quote[q].status \notin {"new", "gone"}
    BY <1>1 DEF Allowed
  <2> QED BY <2>1, Rows DEF QuoteInv
<1>3. r \in Request
  BY <1>2 DEF Request, QuoteRow
<1>4. op \notin NewOps /\ q # NoQuote
  BY QuotesAssumption DEF IdOps, NewOps
<1>5. \A t \in Slots : Active(t) /\ req[t].quote = q => q \in raced'
  BY <1>1 DEF Active
<1>6. QuoteInv'
  <2>1. /\ r.op = op /\ r.quote = q /\ (op \in {"update", "accept"} => r.total = quote[q].total)
    OBVIOUS
  <2>2. raced \subseteq raced' /\ BillsKept
    BY <1>1, InvoicesKept
  <2> HIDE DEF r, shared
  <2> QED BY <1>1, <1>3, <1>4, <1>5, <2>1, <2>2, RequestStep
<1>7. ASSUME shared PROVE Refines
  <2>1. Promise!Race(q)
    BY <1>1, <1>7, RaceRefines
  <2> QED BY <2>1 DEF Refines, Promise!Next
<1>8. ASSUME ~shared PROVE Refines
  <2>1. UNCHANGED raced /\ BillsKept /\ \A p \in QuoteIds : quote'[p].status = quote[p].status
    BY <1>1, <1>8, InvoicesKept
  <2> QED BY <2>1, Stutters DEF Refines
<1> QED BY <1>6, <1>7, <1>8

LEMMA NumberingSteps ==
  ASSUME QuoteInv, NEW s \in Slots,
         \/ \E op \in NewOps, b \in Branches, total \in Totals, q \in QuoteIds \cup {NoQuote} :
              BeginCreation(s, op, b, total, q)
         \/ ReadClock(s) \/ CountDocuments(s) \/ Fail(s),
         ClockOK
  PROVE  QuoteInv' /\ Refines
<1>1. UNCHANGED <<quote, raced>> /\ BillsKept
  <2>1. UNCHANGED <<quote, invoice, raced>>
    BY DEF BeginCreation, ReadClock, CountDocuments, Fail, tables
  <2> QED BY <2>1, InvoicesKept
<1>2. Refines
  BY <1>1, Stutters DEF Refines
<1>3. ASSUME NEW op \in NewOps, NEW b \in Branches, NEW total \in Totals,
             NEW q \in QuoteIds \cup {NoQuote}, BeginCreation(s, op, b, total, q)
      PROVE  QuoteInv'
  <2> DEFINE r == [pc |-> "dated", op |-> op, quote |-> NoQuote, quoteId |-> q, branch |-> b,
                   total |-> total, date |-> today, seq |-> 0]
  <2>1. req' = [req EXCEPT ![s] = r]
    BY <1>3 DEF BeginCreation
  <2>2. r \in Request /\ r.op \in NewOps /\ r.quote = NoQuote
    BY QuotesAssumption DEF ClockOK, Request
  <2> HIDE DEF r
  <2> QED BY <1>1, <2>1, <2>2, RequestStep
<1>4. ASSUME ReadClock(s) \/ CountDocuments(s) PROVE QuoteInv'
  <2>1. Active(s) /\ req[s] \in Request
    BY <1>4, Rows DEF ReadClock, CountDocuments, QuoteInv
  <2>2. CASE ReadClock(s)
    <3> DEFINE r == [req[s] EXCEPT !.pc = "dated", !.date = today]
    <3>1. req' = [req EXCEPT ![s] = r]
      BY <2>2 DEF ReadClock, QuoteInv, Typed
    <3>2. r \in Request /\ r.op = req[s].op /\ r.quote = req[s].quote /\ r.total = req[s].total
      BY <2>1 DEF ClockOK, Request
    <3> HIDE DEF r
    <3> QED BY <1>1, <2>1, <3>1, <3>2, RequestStep DEF QuoteInv, Typed
  <2>3. CASE CountDocuments(s)
    <3> DEFINE n == NextSeq(req[s].op, req[s].branch, req[s].date)
               r == [req[s] EXCEPT !.pc = "numbered", !.seq = n]
    <3>1. req' = [req EXCEPT ![s] = r]
      BY <2>3 DEF CountDocuments, QuoteInv, Typed
    <3>2. n \in Nat
      BY NextSeqNat DEF QuoteInv
    <3> HIDE DEF n
    <3>3. r \in Request /\ r.op = req[s].op /\ r.quote = req[s].quote /\ r.total = req[s].total
      BY <2>1, <3>2 DEF Request
    <3> HIDE DEF r
    <3> QED BY <1>1, <2>1, <3>1, <3>3, RequestStep DEF QuoteInv, Typed
  <2> QED BY <1>4, <2>2, <2>3
<1>5. ASSUME Fail(s) PROVE QuoteInv'
  <2>1. req' = [req EXCEPT ![s] = Idle]
    BY <1>5 DEF Fail, Done
  <2> QED BY <1>1, <2>1, RequestStep
<1> QED BY <1>2, <1>3, <1>4, <1>5

-----------------------------------------------------------------------------
(* What every commit begins with.                                          *)
LEMMA Committing ==
  ASSUME QuoteInv, NEW s \in Slots, Active(s), NEW q, q = req[s].quote, Exists(q), req[s].op \notin NewOps
  PROVE  /\ q \in QuoteIds /\ quote[q] \in QuoteRow /\ req[s] \in Request
         /\ q \notin raced => /\ quote[q].status \in Allowed(req[s].op) /\ BillsOf(q) = {}
                              /\ req[s].op \in {"update", "accept"} => req[s].total = quote[q].total
<1>1. q \in QuoteIds /\ quote[q] \in QuoteRow /\ req[s] \in Request
  BY Rows DEF QuoteInv, Exists, InUse
<1>2. q \notin raced => /\ quote[q].status \in Allowed(req[s].op)
                        /\ req[s].op \in {"update", "accept"} => req[s].total = quote[q].total
  BY <1>1 DEF QuoteInv, TurnInv, StillAsRead
<1>3. Allowed(req[s].op) \subseteq {"DRAFT", "SENT"}
  BY DEF Allowed
<1>4. q \notin raced => BillsOf(q) = {}
  <2> SUFFICES ASSUME q \notin raced PROVE BillsOf(q) = {}
    OBVIOUS
  <2>1. quote[q].status # "ACCEPTED"
    BY <1>2, <1>3
  <2> QED BY <1>1, <2>1, NoBills
<1> QED BY <1>1, <1>2, <1>4

LEMMA CreateStep ==
  ASSUME QuoteInv, ClockOK, NEW s \in Slots, NEW q \in QuoteIds, CommitCreate(s, q)
  PROVE  QuoteInv' /\ Refines
<1> DEFINE row == [status |-> "DRAFT", branch |-> req[s].branch, total |-> req[s].total,
                   day |-> today, last |-> ending, date |-> req[s].date, seq |-> req[s].seq]
<1>1. /\ UNCHANGED <<invoice, raced>> /\ quote[q] = Unused
      /\ quote' = [quote EXCEPT ![q] = row] /\ req' = [req EXCEPT ![s] = Idle]
      /\ req[s].pc = "numbered"
  BY DEF CommitCreate, Done
<1>2. Active(s) /\ req[s] \in Request
  BY <1>1, Rows DEF QuoteInv
<1>3. row \in QuoteRow /\ row.status = "DRAFT"
  BY <1>2 DEF ClockOK, Request, QuoteRow, QuoteStatus
<1> HIDE DEF row
<1>4. quote[q].status = "new"
  BY <1>1 DEF Unused
<1>5. BillsOf(q) = {} /\ \A p \in QuoteIds : BillsOf(p)' = BillsOf(p)
  BY <1>1, <1>4 DEF QuoteInv, BillsInv, BillsOf, Billed
<1>6. QuoteInv'
  <2>1. invoice' \in [InvoiceIds -> {Unused, Gone} \cup InvoiceRow]
        /\ \A i \in InvoiceIds : invoice'[i] = invoice[i]
    BY <1>1 DEF QuoteInv, Typed
  <2>2. BillsOf(q)' = {}
    BY <1>5
  <2> QED BY <1>1, <1>2, <1>3, <2>1, <2>2, CommitStep
<1>7. Refines
  <2>1. quote'[q].status = "DRAFT" /\ \A p \in QuoteIds : p # q => quote'[p] = quote[p]
    BY <1>1, <1>3 DEF QuoteInv, Typed
  <2>2. Cardinality(BillsOf(q)') = Cardinality(BillsOf(q)) + 0
    BY <1>5, FS_EmptySet
  <2>3. Promise!Move(q, {"new"}, "DRAFT", 0) \/ UNCHANGED <<Life, Bills>>
    BY <1>1, <1>4, <1>5, <2>1, <2>2, MoveRefines
  <2> QED BY <2>3 DEF Refines, Promise!Next
<1> QED BY <1>6, <1>7

LEMMA UpdateStep ==
  ASSUME QuoteInv, NEW s \in Slots, NEW total \in Totals \cup Revisions, CommitUpdate(s, total)
  PROVE  QuoteInv' /\ Refines
<1> PICK q \in QuoteIds : q = req[s].quote
  BY Rows DEF CommitUpdate, QuoteInv, StatusAfter, NewOps
<1> DEFINE row == [quote[q] EXCEPT !.total = total]
<1>1. /\ UNCHANGED <<invoice, raced>> /\ req' = [req EXCEPT ![s] = Idle]
      /\ req[s].pc = "read" /\ req[s].op = "update" /\ Exists(q)
      /\ quote' = [quote EXCEPT ![q] = row]
  BY DEF CommitUpdate, Done, QuoteInv, Typed
<1>2. Active(s)
  BY <1>1, Rows DEF QuoteInv
<1>3. /\ q \in QuoteIds /\ quote[q] \in QuoteRow
      /\ q \notin raced => quote[q].status = "DRAFT" /\ BillsOf(q) = {}
  BY <1>1, <1>2, Committing DEF Allowed, NewOps
<1>4. row \in QuoteRow /\ row.status = quote[q].status
  BY <1>3, QuotesAssumption DEF QuoteRow
<1> HIDE DEF row
<1>5. \A p \in QuoteIds : BillsOf(p)' = BillsOf(p)
  BY <1>1 DEF BillsOf, Billed
<1>6. QuoteInv'
  <2>1. invoice' \in [InvoiceIds -> {Unused, Gone} \cup InvoiceRow]
        /\ \A i \in InvoiceIds : invoice'[i] = invoice[i]
    BY <1>1 DEF QuoteInv, Typed
  <2>2. /\ row.status = "ACCEPTED" => BillsOf(q)' # {}
        /\ BillsOf(q)' # {} => row.status \notin {"gone", "DRAFT"}
    BY <1>3, <1>4, <1>5 DEF QuoteInv, BillsInv
  <2>3. q \notin raced => BillsOf(q)' = {}
    BY <1>3, <1>5
  <2> QED BY <1>1, <1>2, <1>3, <1>4, <2>1, <2>2, <2>3, CommitStep
<1>7. Refines
  <2>1. \A p \in QuoteIds : quote'[p].status = quote[p].status
    BY <1>1, <1>3, <1>4 DEF QuoteInv, Typed
  <2> QED BY <1>1, <2>1, InvoicesKept, Stutters DEF Refines
<1> QED BY <1>6, <1>7

LEMMA StatusStep ==
  ASSUME QuoteInv, NEW s \in Slots, CommitStatus(s)
  PROVE  QuoteInv' /\ Refines
<1> PICK q \in QuoteIds : q = req[s].quote
  BY Rows DEF CommitStatus, QuoteInv, StatusAfter, NewOps
<1> DEFINE to  == StatusAfter[req[s].op]
           row == [quote[q] EXCEPT !.status = to]
<1>1. /\ UNCHANGED <<invoice, raced>> /\ req' = [req EXCEPT ![s] = Idle]
      /\ req[s].pc = "read" /\ req[s].op \in {"send", "cancel", "expire"} /\ Exists(q)
      /\ quote' = [quote EXCEPT ![q] = row]
  BY DEF CommitStatus, Done, QuoteInv, Typed, StatusAfter
<1>2. Active(s)
  BY <1>1, Rows DEF QuoteInv
<1>3. /\ q \in QuoteIds /\ quote[q] \in QuoteRow
      /\ q \notin raced => quote[q].status \in Allowed(req[s].op) /\ BillsOf(q) = {}
  BY <1>1, <1>2, Committing DEF NewOps
<1>4. \/ req[s].op = "send" /\ to = "SENT" /\ Allowed(req[s].op) = {"DRAFT"}
      \/ req[s].op = "cancel" /\ to = "CANCELLED" /\ Allowed(req[s].op) = Promise!Open
      \/ req[s].op = "expire" /\ to = "EXPIRED" /\ Allowed(req[s].op) = Promise!Open
  BY <1>1 DEF StatusAfter, Allowed, Promise!Open
<1> HIDE DEF to
<1>5. row \in QuoteRow /\ row.status = to
  BY <1>3, <1>4 DEF QuoteRow, QuoteStatus
<1> HIDE DEF row
<1>6. \A p \in QuoteIds : BillsOf(p)' = BillsOf(p)
  BY <1>1 DEF BillsOf, Billed
<1>7. QuoteInv'
  <2>1. invoice' \in [InvoiceIds -> {Unused, Gone} \cup InvoiceRow]
        /\ \A i \in InvoiceIds : invoice'[i] = invoice[i]
    BY <1>1 DEF QuoteInv, Typed
  <2>2. q \notin raced => BillsOf(q)' = {}
    BY <1>3, <1>6
  <2>3. row.status \notin {"ACCEPTED", "gone", "DRAFT"}
    BY <1>4, <1>5
  <2> QED BY <1>1, <1>2, <1>3, <1>5, <2>1, <2>2, <2>3, CommitStep
<1>8. Refines
  <2>1. quote'[q].status = to /\ \A p \in QuoteIds : p # q => quote'[p] = quote[p]
    BY <1>1, <1>3, <1>5 DEF QuoteInv, Typed
  <2>2. q \notin raced => Cardinality(BillsOf(q)') = Cardinality(BillsOf(q)) + 0
    BY <1>3, <1>6, FS_EmptySet
  <2>3. Promise!Move(q, Allowed(req[s].op), to, 0) \/ UNCHANGED <<Life, Bills>>
    BY <1>1, <1>3, <1>6, <2>1, <2>2, MoveRefines
  <2>4. \/ Promise!Move(q, {"DRAFT"}, "SENT", 0)
        \/ Promise!Move(q, Promise!Open, "CANCELLED", 0)
        \/ Promise!Move(q, Promise!Open, "EXPIRED", 0)
        \/ UNCHANGED <<Life, Bills>>
    BY <1>4, <2>3
  <2> QED BY <1>3, <2>4 DEF Refines, Promise!Next
<1> QED BY <1>7, <1>8

(* The invoices of a removed quote lose it, whoever they were made by.     *)
LEMMA RemoveStep ==
  ASSUME QuoteInv, NEW s \in Slots, CommitRemove(s)
  PROVE  QuoteInv' /\ Refines
<1> PICK q \in QuoteIds : q = req[s].quote
  BY Rows DEF CommitRemove, QuoteInv, StatusAfter, NewOps
<1>1. /\ UNCHANGED raced /\ req' = [req EXCEPT ![s] = Idle]
      /\ req[s].pc = "read" /\ req[s].op = "remove" /\ Exists(q)
      /\ quote' = [quote EXCEPT ![q] = Gone]
      /\ invoice' = [i \in InvoiceIds |-> IF Billed(i) /\ invoice[i].quote = q
                                         THEN [invoice[i] EXCEPT !.quote = NoQuote] ELSE invoice[i]]
  BY DEF CommitRemove, Done
<1>2. Active(s)
  BY <1>1, Rows DEF QuoteInv
<1>3. /\ q \in QuoteIds /\ quote[q] \in QuoteRow
      /\ q \notin raced => quote[q].status = "DRAFT" /\ BillsOf(q) = {}
  BY <1>1, <1>2, Committing DEF Allowed, NewOps
<1>4. ASSUME NEW i \in InvoiceIds
      PROVE  /\ invoice'[i] \in {Unused, Gone} \cup InvoiceRow
             /\ invoice'[i] = invoice[i] \/ (invoice[i].quote = q /\ invoice'[i].quote = NoQuote)
             /\ ~(Billed(i)' /\ invoice'[i].quote = q)
  <2>1. CASE Billed(i) /\ invoice[i].quote = q
    <3>1. invoice[i] \in InvoiceRow
      BY <2>1, Rows DEF QuoteInv
    <3>2. invoice'[i] = [invoice[i] EXCEPT !.quote = NoQuote]
      BY <1>1, <2>1
    <3>3. invoice'[i] \in InvoiceRow /\ invoice'[i].quote = NoQuote
      BY <3>1, <3>2 DEF InvoiceRow
    <3> QED BY <1>3, <2>1, <3>3, QuotesAssumption
  <2>2. CASE ~(Billed(i) /\ invoice[i].quote = q)
    <3>1. invoice'[i] = invoice[i]
      BY <1>1, <2>2
    <3> QED BY <2>2, <3>1 DEF QuoteInv, Typed, Billed
  <2> QED BY <2>1, <2>2
<1>5. BillsOf(q)' = {}
  BY <1>4 DEF BillsOf
<1>6. invoice' \in [InvoiceIds -> {Unused, Gone} \cup InvoiceRow]
  BY <1>1, <1>4
<1>7. QuoteInv'
  <2>1. Gone.status = "gone"
    BY DEF Gone
  <2>2. \A i \in InvoiceIds : invoice'[i] = invoice[i] \/
          /\ ~Billed(i) \/ invoice[i].quote = q
          /\ ~Billed(i)' \/ invoice'[i].quote \in {q, NoQuote}
    BY <1>4
  <2>3. \A i \in BillsOf(q)' : invoice'[i].total = Gone.total
    BY <1>5
  <2> QED BY <1>1, <1>2, <1>5, <1>6, <2>1, <2>2, <2>3, CommitStep
<1>8. Refines
  <2>1. quote'[q].status = "gone" /\ \A p \in QuoteIds : p # q => quote'[p] = quote[p]
    BY <1>1, <1>3 DEF QuoteInv, Typed, Gone
  <2>2. ASSUME NEW p \in QuoteIds, p # q PROVE BillsOf(p)' = BillsOf(p)
    <3>1. p # NoQuote
      BY QuotesAssumption
    <3>2. ASSUME NEW i \in InvoiceIds
          PROVE  i \in BillsOf(p)' <=> i \in BillsOf(p)
      BY <1>4, <2>2, <3>1 DEF BillsOf, Billed
    <3> QED BY <3>2 DEF BillsOf
  <2>3. q \notin raced => Cardinality(BillsOf(q)') = Cardinality(BillsOf(q)) + 0
    BY <1>3, <1>5, FS_EmptySet
  <2>4. Promise!Move(q, {"DRAFT"}, "gone", 0) \/ UNCHANGED <<Life, Bills>>
    BY <1>1, <1>3, <2>1, <2>2, <2>3, MoveRefines
  <2> QED BY <1>3, <2>4 DEF Refines, Promise!Next
<1> QED BY <1>7, <1>8

(* Acceptance writes the invoice and the status.                           *)
LEMMA AcceptStep ==
  ASSUME QuoteInv, ClockOK, NEW s \in Slots, NEW i \in InvoiceIds, CommitAccept(s, i)
  PROVE  QuoteInv' /\ Refines
<1> PICK q \in QuoteIds : q = req[s].quote
  BY Rows DEF CommitAccept, QuoteInv, StatusAfter, NewOps
<1> DEFINE row  == [quote[q] EXCEPT !.status = "ACCEPTED"]
           bill == NewInvoice(req[s], "SENT", q)
<1>1. /\ UNCHANGED raced /\ req' = [req EXCEPT ![s] = Idle]
      /\ req[s].pc = "numbered" /\ req[s].op = "accept" /\ Exists(q)
      /\ quote' = [quote EXCEPT ![q] = row]
      /\ invoice[i] = Unused /\ invoice' = [invoice EXCEPT ![i] = bill]
  BY DEF CommitAccept, Done, QuoteInv, Typed
<1>2. Active(s)
  BY <1>1, Rows DEF QuoteInv
<1>3. /\ q \in QuoteIds /\ quote[q] \in QuoteRow /\ req[s] \in Request
      /\ q \notin raced => /\ quote[q].status \in {"DRAFT", "SENT"} /\ BillsOf(q) = {}
                           /\ req[s].total = quote[q].total
  BY <1>1, <1>2, Committing DEF Allowed, NewOps
<1>4. /\ row \in QuoteRow /\ row.status = "ACCEPTED" /\ row.total = quote[q].total
      /\ bill \in InvoiceRow /\ bill.status = "SENT" /\ bill.quote = q /\ bill.total = req[s].total
  BY <1>3 DEF ClockOK, NewInvoice, QuoteRow, QuoteStatus, InvoiceRow, Request
<1> HIDE DEF row, bill
<1>5. /\ invoice' \in [InvoiceIds -> {Unused, Gone} \cup InvoiceRow] /\ invoice'[i] = bill
      /\ \A j \in InvoiceIds : j # i => invoice'[j] = invoice[j]
  BY <1>1, <1>4 DEF QuoteInv, Typed
<1>6. ~Billed(i) /\ Billed(i)'
  BY <1>1, <1>4, <1>5, Rows DEF QuoteInv, Billed, InUse
<1>7. BillsOf(q)' = BillsOf(q) \cup {i}
  BY <1>4, <1>5, <1>6 DEF BillsOf, Billed
<1>8. QuoteInv'
  <2>1. \A j \in InvoiceIds : invoice'[j] = invoice[j] \/
          /\ ~Billed(j) \/ invoice[j].quote = q
          /\ ~Billed(j)' \/ invoice'[j].quote \in {q, NoQuote}
    BY <1>4, <1>5, <1>6
  <2>2. q \notin raced => \A j \in BillsOf(q)' : invoice'[j].total = row.total
    BY <1>3, <1>4, <1>5, <1>7
  <2>3. BillsOf(q)' # {}
    BY <1>7
  <2> QED BY <1>1, <1>2, <1>3, <1>4, <1>5, <2>1, <2>2, <2>3, CommitStep
<1>9. Refines
  <2>1. quote'[q].status = "ACCEPTED" /\ \A p \in QuoteIds : p # q => quote'[p] = quote[p]
    BY <1>1, <1>3, <1>4 DEF QuoteInv, Typed
  <2>2. ASSUME NEW p \in QuoteIds, p # q PROVE BillsOf(p)' = BillsOf(p)
    BY <1>4, <1>5, <1>6, <2>2 DEF BillsOf, Billed
  <2>3. q \notin raced => Cardinality(BillsOf(q)') = Cardinality(BillsOf(q)) + 1
    <3>1. Cardinality({}) = 0 /\ Cardinality({i}) = 1
      BY FS_EmptySet, FS_Singleton
    <3>2. BillsOf(q) = {} => BillsOf(q)' = {i}
      BY <1>7
    <3> QED BY <1>3, <3>1, <3>2
  <2>4. q \notin raced => quote[q].status \in Promise!Open
    BY <1>3 DEF Promise!Open
  <2>5. Promise!Move(q, Promise!Open, "ACCEPTED", 1) \/ UNCHANGED <<Life, Bills>>
    BY <1>1, <1>3, <2>1, <2>2, <2>3, <2>4, MoveRefines
  <2> QED BY <1>3, <2>5 DEF Refines, Promise!Next
<1> QED BY <1>8, <1>9

-----------------------------------------------------------------------------
(* What leaves the quotes and the requests alone: drafts and the clock.    *)
LEMMA BesideStep ==
  ASSUME QuoteInv, UNCHANGED <<quote, req, raced>>, BillsKept
  PROVE  QuoteInv' /\ Refines
<1>1. Refines
  BY Stutters DEF Refines
<1>2. Typed' /\ BillsInv' /\ Alone' /\ StillAsRead'
  BY DEF QuoteInv, TurnInv, Typed, BillsInv, Alone, StillAsRead, Active, BillsKept
<1>3. ASSUME NEW q \in QuoteIds \ raced' PROVE InTurn(q)' /\ AsQuoted(q)'
  <2>1. InTurn(q) /\ AsQuoted(q)
    BY DEF QuoteInv, TurnInv
  <2> QED BY <2>1 DEF InTurn, AsQuoted, BillsKept
<1> QED BY <1>1, <1>2, <1>3 DEF QuoteInv, TurnInv

(* Somebody makes, edits or deletes a draft of an invoice.                 *)
LEMMA InvoiceStep ==
  ASSUME QuoteInv, ClockOK, NEW s \in Slots, NEW i \in InvoiceIds, CommitInvoice(s, i)
  PROVE  QuoteInv' /\ Refines
<1> DEFINE row == NewInvoice(req[s], "DRAFT", req[s].quoteId)
<1>1. /\ UNCHANGED <<quote, raced>> /\ req' = [req EXCEPT ![s] = Idle]
      /\ req[s].pc = "numbered" /\ invoice[i] = Unused
      /\ invoice' = [invoice EXCEPT ![i] = row]
  BY DEF CommitInvoice, Done
<1>2. row \in InvoiceRow /\ row.status # "SENT"
  <2>1. req[s] \in Request
    BY <1>1, Rows DEF QuoteInv
  <2> QED BY <2>1 DEF ClockOK, NewInvoice, InvoiceRow, Request
<1> HIDE DEF row
<1>3. BillsKept
  BY <1>1, <1>2, DraftKeepsBills
<1>4. QuoteInv'
  BY <1>1, <1>3, RequestStep
<1> QED BY <1>1, <1>3, <1>4, Stutters DEF Refines

LEMMA DraftStep ==
  ASSUME QuoteInv, NEW i \in InvoiceIds,
         RemoveInvoice(i) \/ \E total \in Revisions : EditInvoice(i, total)
  PROVE  QuoteInv' /\ Refines
<1>1. invoice[i] \in InvoiceRow /\ invoice[i].status = "DRAFT" /\ UNCHANGED <<quote, req, raced>>
  <2>1. invoice[i].status = "DRAFT" /\ UNCHANGED <<quote, req, raced>>
    BY DEF RemoveInvoice, EditInvoice
  <2> QED BY <2>1, Rows DEF QuoteInv, Billed, InUse
<1>2. \E row \in {Gone} \cup InvoiceRow : row.status # "SENT" /\ invoice' = [invoice EXCEPT ![i] = row]
  <2>1. CASE RemoveInvoice(i)
    BY <2>1 DEF RemoveInvoice, Gone
  <2>2. ASSUME NEW total \in Revisions, EditInvoice(i, total)
        PROVE  \E row \in InvoiceRow : row.status # "SENT" /\ invoice' = [invoice EXCEPT ![i] = row]
    <3> DEFINE row == [invoice[i] EXCEPT !.total = total]
    <3>1. row \in InvoiceRow /\ row.status = "DRAFT"
      BY <1>1, QuotesAssumption DEF InvoiceRow
    <3>2. invoice' = [invoice EXCEPT ![i] = row]
      BY <2>2 DEF EditInvoice
    <3> QED BY <3>1, <3>2
  <2> QED BY <2>1, <2>2
<1>3. BillsKept
  BY <1>1, <1>2, DraftKeepsBills
<1> QED BY <1>1, <1>3, BesideStep

LEMMA ClockStep == ClockOK /\ [Next]_vars => ClockOK'
<1> SUFFICES ASSUME ClockOK, [Next]_vars PROVE ClockOK'
  OBVIOUS
<1>1. CASE LastMillisecond \/ Midnight
  <2>1. today' \in Nat
    BY <1>1 DEF ClockOK, LastMillisecond, Midnight
  <2>2. ending' \in BOOLEAN
    BY <1>1, Zenon DEF LastMillisecond, Midnight
  <2> QED BY <2>1, <2>2 DEF ClockOK
<1>2. CASE ~(LastMillisecond \/ Midnight)
  <2>1. UNCHANGED clock
    BY <1>2, Zenon DEF Next, vars, ReadQuote, BeginCreation, ReadClock, CountDocuments, CommitCreate,
         CommitUpdate, CommitStatus, CommitRemove, CommitAccept, CommitInvoice, EditInvoice,
         RemoveInvoice, Fail
  <2> QED BY <2>1 DEF clock, ClockOK
<1> QED BY <1>1, <1>2

LEMMA QuoteStep == QuoteInv /\ ClockOK /\ [Next]_vars => QuoteInv' /\ ClockOK' /\ Refines
<1> SUFFICES ASSUME QuoteInv, ClockOK, [Next]_vars
             PROVE  QuoteInv' /\ ClockOK' /\ Refines
  OBVIOUS
<1>1. ClockOK'
  BY ClockStep
<1>2. ASSUME UNCHANGED <<quote, invoice, req, raced>> PROVE QuoteInv' /\ Refines
  BY <1>2, InvoicesKept, BesideStep
<1>3. CASE Next
  <2>1. ASSUME NEW s \in Slots, NEW op \in IdOps, NEW q \in QuoteIds, ReadQuote(s, op, q)
        PROVE  QuoteInv' /\ Refines
    BY <2>1, ReadStep
  <2>2. ASSUME NEW s \in Slots,
               \/ \E op \in NewOps, b \in Branches, total \in Totals, q \in QuoteIds \cup {NoQuote} :
                    BeginCreation(s, op, b, total, q)
               \/ ReadClock(s) \/ CountDocuments(s) \/ Fail(s)
        PROVE  QuoteInv' /\ Refines
    BY <2>2, NumberingSteps
  <2>3. ASSUME NEW s \in Slots, NEW q \in QuoteIds, CommitCreate(s, q) PROVE QuoteInv' /\ Refines
    BY <2>3, CreateStep
  <2>4. ASSUME NEW s \in Slots, NEW total \in Totals \cup Revisions, CommitUpdate(s, total)
        PROVE  QuoteInv' /\ Refines
    BY <2>4, UpdateStep
  <2>5. ASSUME NEW s \in Slots, CommitStatus(s) PROVE QuoteInv' /\ Refines
    BY <2>5, StatusStep
  <2>6. ASSUME NEW s \in Slots, CommitRemove(s) PROVE QuoteInv' /\ Refines
    BY <2>6, RemoveStep
  <2>7. ASSUME NEW s \in Slots, NEW i \in InvoiceIds, CommitAccept(s, i) \/ CommitInvoice(s, i)
        PROVE  QuoteInv' /\ Refines
    BY <2>7, AcceptStep, InvoiceStep
  <2>8. ASSUME NEW i \in InvoiceIds, RemoveInvoice(i) \/ \E total \in Revisions : EditInvoice(i, total)
        PROVE  QuoteInv' /\ Refines
    BY <2>8, DraftStep
  <2>9. CASE LastMillisecond \/ Midnight
    <3>1. UNCHANGED <<quote, invoice, req, raced>>
      <4>1. UNCHANGED <<tables, req, raced>>
        BY <2>9, Zenon DEF LastMillisecond, Midnight
      <4> QED BY <4>1 DEF tables
    <3>2. BillsKept
      BY <3>1, InvoicesKept
    <3> QED BY <1>1, <3>1, <3>2, BesideStep
  <2>10. ASSUME NEW s \in Slots,
                \/ \E op \in IdOps \cap Ops, q \in QuoteIds : ReadQuote(s, op, q)
                \/ \E op \in NewOps \cap Ops, b \in Branches, total \in Totals, q \in QuoteIds \cup {NoQuote} :
                     BeginCreation(s, op, b, total, q)
                \/ ReadClock(s) \/ CountDocuments(s)
                \/ \E q \in QuoteIds : CommitCreate(s, q)
                \/ \E total \in Totals \cup Revisions : CommitUpdate(s, total)
                \/ CommitStatus(s) \/ CommitRemove(s)
                \/ \E i \in InvoiceIds : CommitAccept(s, i) \/ CommitInvoice(s, i)
                \/ Fail(s)
         PROVE  QuoteInv' /\ Refines
    <3>1. CASE \E op \in IdOps \cap Ops, q \in QuoteIds : ReadQuote(s, op, q)
      BY <2>1, <3>1
    <3>2. CASE \E op \in NewOps \cap Ops, b \in Branches, total \in Totals, q \in QuoteIds \cup {NoQuote} :
                 BeginCreation(s, op, b, total, q)
      <4>1. \E op \in NewOps, b \in Branches, total \in Totals, q \in QuoteIds \cup {NoQuote} :
              BeginCreation(s, op, b, total, q)
        BY <3>2
      <4> QED BY <2>2, <4>1
    <3> QED BY <2>2, <2>3, <2>4, <2>5, <2>6, <2>7, <2>10, <3>1, <3>2
  <2> QED BY <1>1, <1>3, <2>8, <2>9, <2>10, Zenon DEF Next
<1> QED BY <1>1, <1>2, <1>3 DEF vars, tables

LEMMA QuoteInit == Init => QuoteInv /\ ClockOK /\ Promise!Init
<1> SUFFICES ASSUME Init PROVE QuoteInv /\ ClockOK /\ Promise!Init
  OBVIOUS
<1>1. /\ \A q \in QuoteIds : quote[q].status = "new"
      /\ \A i \in InvoiceIds : ~Billed(i)
      /\ \A s \in Slots : ~Active(s)
      /\ raced = {} /\ ClockOK
  BY DEF Init, ClockOK, Unused, Billed, InUse, Active
<1>2. \A q \in QuoteIds : BillsOf(q) = {}
  BY <1>1 DEF BillsOf
<1>3. Typed
  BY <1>1 DEF Init, Typed
<1>4. BillsInv /\ TurnInv
  BY <1>1, <1>2 DEF BillsInv, TurnInv, Alone, StillAsRead, InTurn, AsQuoted
<1>5. Promise!Init
  <2>1. Cardinality({}) = 0
    BY FS_EmptySet
  <2> QED BY <1>1, <1>2, <2>1 DEF Promise!Init, Life, Bills
<1> QED BY <1>1, <1>3, <1>4, <1>5 DEF QuoteInv

LEMMA QuotesInvariant == Spec => [](QuoteInv /\ ClockOK)
<1> DEFINE Inv == QuoteInv /\ ClockOK
<1>1. Init => Inv
  BY QuoteInit
<1>2. Inv /\ [Next]_vars => Inv'
  BY QuoteStep
<1> HIDE DEF Inv
<1>3. Spec => []Inv
  BY <1>1, <1>2, PTL DEF Spec
<1> QED BY <1>3 DEF Inv

(***************************************************************************)
(* Whatever requests overlap and whatever drafts of invoices come and go   *)
(* beside them, an accepted quote has the invoice that its acceptance      *)
(* made, and one that acceptance has made an invoice of is no draft.       *)
(***************************************************************************)
THEOREM AcceptanceBills == Spec => []AcceptedIsBilled
<1>1. QuoteInv /\ ClockOK => AcceptedIsBilled
  BY DEF QuoteInv, BillsInv, AcceptedIsBilled
<1> QED BY QuotesInvariant, <1>1, PTL

(***************************************************************************)
(* The invoice that acceptance makes of a quote is over what that says, as *)
(* long as requests on the quote come one at a time.                       *)
(***************************************************************************)
THEOREM BillsAsQuoted == Spec => []BilledAsQuoted
<1>1. QuoteInv /\ ClockOK => BilledAsQuoted
  BY DEF QuoteInv, BillsInv, TurnInv, AsQuoted, AcceptedIsBilled, BilledAsQuoted
<1> QED BY QuotesInvariant, <1>1, PTL

(***************************************************************************)
(* As long as requests on it come one at a time, a quote lives as          *)
(* QuoteLife says, whatever happens to the others and whatever other       *)
(* invoices name it.                                                       *)
(***************************************************************************)
THEOREM LifeRefinement == Spec => ImplementsQuoteLife
<1> DEFINE Inv == QuoteInv /\ ClockOK
<1>1. Init => Inv /\ Promise!Init
  BY QuoteInit
<1>2. Inv /\ [Next]_vars => Inv' /\ [Promise!Next]_<<Life, Bills>>
  BY QuoteStep DEF Refines
<1> HIDE DEF Inv
<1> QED BY <1>1, <1>2, PTL DEF Spec, ImplementsQuoteLife, Promise!Spec
-----------------------------------------------------------------------------
-----------------------------------------------------------------------------
(***************************************************************************)
(* Numbers of a day: no document of a table has a number beyond the next   *)
(* one its branch would count, but where a document is not counted (out).  *)
(* First, of any table t that becomes u.                                   *)
(***************************************************************************)
Counted(t, b, day) == {d \in Documents(t) : t[d].branch = b /\ t[d].day = day /\ ~t[d].last}

IsTable(t) ==
  /\ IsFiniteSet(DOMAIN t)
  /\ \A d \in Documents(t) : t[d].date \in Nat /\ t[d].seq \in Nat

RowFits(t, row, day, out) ==
  /\ row.date <= day
  /\ row.date = day /\ row.branch \notin out => row.seq <= DayCount(t, row.branch, day)

TableFits(t, day, out) == \A d \in Documents(t) : RowFits(t, t[d], day, out)

NoLess(t, u, day, out) == \A b : b \notin out => DayCount(t, b, day) <= DayCount(u, b, day)

SameNumber(d, e) ==
  /\ d.branch = e.branch /\ d.day = e.day /\ d.last = e.last
  /\ d.date = e.date /\ d.seq = e.seq

LEMMA CountedSet ==
  ASSUME NEW t, IsTable(t), NEW b, NEW day
  PROVE  /\ IsFiniteSet(Counted(t, b, day)) /\ DayCount(t, b, day) \in Nat
         /\ DayCount(t, b, day) = Cardinality(Counted(t, b, day))
<1>1. Counted(t, b, day) \in SUBSET DOMAIN t
  BY DEF Counted, Documents
<1>2. IsFiniteSet(Counted(t, b, day))
  BY <1>1, FS_Subset DEF IsTable
<1>3. DayCount(t, b, day) = Cardinality(Counted(t, b, day))
  BY DEF DayCount, Counted
<1> QED BY <1>2, <1>3, FS_CardinalityType

(* What is counted stays so, and new documents fit.                        *)
LEMMA TableGrows ==
  ASSUME NEW t, NEW u, NEW day, NEW out, NEW outNow,
         IsTable(t), IsTable(u), TableFits(t, day, out), out \subseteq outNow,
         \A b : b \notin outNow => Counted(t, b, day) \subseteq Counted(u, b, day),
         \A d \in Documents(u) :
           (d \in Documents(t) /\ SameNumber(t[d], u[d])) \/ RowFits(u, u[d], day, outNow)
  PROVE  TableFits(u, day, outNow) /\ NoLess(t, u, day, outNow)
<1>1. NoLess(t, u, day, outNow)
  <2> SUFFICES ASSUME NEW b, b \notin outNow PROVE DayCount(t, b, day) <= DayCount(u, b, day)
    BY DEF NoLess
  <2>1. /\ IsFiniteSet(Counted(u, b, day)) /\ Counted(t, b, day) \subseteq Counted(u, b, day)
    BY CountedSet
  <2>2. Cardinality(Counted(t, b, day)) <= Cardinality(Counted(u, b, day))
    BY <2>1, FS_Subset
  <2> QED BY <2>2, CountedSet
<1>2. ASSUME NEW d \in Documents(u) PROVE RowFits(u, u[d], day, outNow)
  <2>1. CASE d \in Documents(t) /\ SameNumber(t[d], u[d])
    <3>1. RowFits(t, t[d], day, out) /\ t[d].seq \in Nat
      BY <2>1 DEF TableFits, IsTable
    <3>2. PICK b : b = u[d].branch
      OBVIOUS
    <3>3. DayCount(t, b, day) \in Nat /\ DayCount(u, b, day) \in Nat
      BY CountedSet
    <3>4. b \notin outNow => DayCount(t, b, day) <= DayCount(u, b, day)
      BY <1>1 DEF NoLess
    <3> QED BY <2>1, <3>1, <3>2, <3>3, <3>4 DEF RowFits, SameNumber
  <2> QED BY <2>1
<1> QED BY <1>1, <1>2 DEF TableFits

LEMMA TableRewritten ==
  ASSUME NEW t, NEW u, NEW day, NEW out, NEW outNow,
         IsTable(t), TableFits(t, day, out), out \subseteq outNow,
         DOMAIN u = DOMAIN t,
         \A d \in DOMAIN t : /\ InUse(u[d]) <=> InUse(t[d])
                             /\ InUse(t[d]) => SameNumber(t[d], u[d])
  PROVE  IsTable(u) /\ TableFits(u, day, outNow) /\ NoLess(t, u, day, outNow)
<1>1. IsTable(u)
  BY DEF IsTable, Documents, SameNumber
<1>2. \A b : Counted(t, b, day) \subseteq Counted(u, b, day)
  BY DEF Counted, Documents, SameNumber
<1>3. \A d \in Documents(u) : d \in Documents(t) /\ SameNumber(t[d], u[d])
  BY DEF Documents
<1> QED BY <1>1, <1>2, <1>3, TableGrows

(* A new document takes the next number, or a lower one.                   *)
LEMMA TableAddedTo ==
  ASSUME NEW t, NEW u, NEW day, NEW out, NEW outNow,
         IsTable(t), TableFits(t, day, out), out \subseteq outNow,
         NEW d \in DOMAIN t, ~InUse(t[d]),
         NEW row, u = [t EXCEPT ![d] = row], InUse(row), row.date \in Nat, row.seq \in Nat,
         row.day = day, row.last => row.branch \in outNow, row.last \in BOOLEAN, row.date <= day,
         row.date = day /\ row.branch \notin outNow => row.seq <= 1 + DayCount(t, row.branch, day)
  PROVE  IsTable(u) /\ TableFits(u, day, outNow) /\ NoLess(t, u, day, outNow)
<1>1. DOMAIN u = DOMAIN t /\ u[d] = row /\ \A e \in DOMAIN t : e # d => u[e] = t[e]
  OBVIOUS
<1>2. IsTable(u)
  BY <1>1 DEF IsTable, Documents
<1>3. \A b : Counted(t, b, day) \subseteq Counted(u, b, day)
  BY <1>1 DEF Counted, Documents
<1>4. RowFits(u, u[d], day, outNow)
  <2>1. SUFFICES ASSUME row.date = day, row.branch \notin outNow
                 PROVE  row.seq <= DayCount(u, row.branch, day)
    BY <1>1 DEF RowFits
  <2>2. PICK b : b = row.branch
    OBVIOUS
  <2>3. Counted(u, b, day) = Counted(t, b, day) \cup {d} /\ d \notin Counted(t, b, day)
    BY <1>1, <2>1, <2>2 DEF Counted, Documents
  <2>4. IsFiniteSet(Counted(t, b, day))
    BY CountedSet
  <2>5. Cardinality(Counted(u, b, day)) = Cardinality(Counted(t, b, day)) + 1
    BY <2>3, <2>4, FS_AddElement
  <2>6. DayCount(t, b, day) \in Nat /\ DayCount(u, b, day) = DayCount(t, b, day) + 1
    BY <1>2, <2>5, CountedSet
  <2> QED BY <2>1, <2>2, <2>6
<1>5. \A e \in Documents(u) :
        (e \in Documents(t) /\ SameNumber(t[e], u[e])) \/ RowFits(u, u[e], day, outNow)
  BY <1>1, <1>4 DEF Documents, SameNumber
<1> QED BY <1>2, <1>3, <1>5, TableGrows

LEMMA TableTakenFrom ==
  ASSUME NEW t, NEW u, NEW day, NEW out, NEW outNow,
         IsTable(t), TableFits(t, day, out), out \subseteq outNow,
         NEW d \in DOMAIN t, u = [t EXCEPT ![d] = Gone], t[d].day = day => t[d].branch \in outNow
  PROVE  IsTable(u) /\ TableFits(u, day, outNow) /\ NoLess(t, u, day, outNow)
<1>1. /\ DOMAIN u = DOMAIN t /\ ~InUse(u[d]) /\ \A e \in DOMAIN t : e # d => u[e] = t[e]
  BY DEF InUse, Gone
<1>2. IsTable(u)
  BY <1>1 DEF IsTable, Documents
<1>3. \A b : b \notin outNow => Counted(t, b, day) \subseteq Counted(u, b, day)
  BY <1>1 DEF Counted, Documents
<1>4. \A e \in Documents(u) : e \in Documents(t) /\ SameNumber(t[e], u[e])
  BY <1>1 DEF Documents, SameNumber
<1> QED BY <1>2, <1>3, <1>4, TableGrows

-----------------------------------------------------------------------------
(* Branches of which today has a quote, an invoice that is not counted.    *)
QuotesOut   == {b \in Branches : <<"quotes", b, today>> \in behind}
InvoicesOut == {b \in Branches : <<"invoices", b, today>> \in behind}

RequestFits(r) ==
  r.pc \in {"dated", "numbered"} =>
    /\ r.date <= today
    /\ r.pc = "numbered" /\ r.date = today =>
         /\ r.op = "create" /\ r.branch \notin QuotesOut =>
              r.seq <= 1 + DayCount(quote, r.branch, today)
         /\ r.op # "create" /\ r.branch \notin InvoicesOut =>
              r.seq <= 1 + DayCount(invoice, r.branch, today)

NumberInv ==
  /\ TableFits(quote, today, QuotesOut)
  /\ TableFits(invoice, today, InvoicesOut)
  /\ \A s \in Slots : RequestFits(req[s])

LEMMA Tables == ASSUME Typed PROVE IsTable(quote) /\ IsTable(invoice)
<1>1. IsFiniteSet(QuoteIds) /\ IsFiniteSet(InvoiceIds)
  BY QuotesAssumption
<1>2. DOMAIN quote = QuoteIds /\ DOMAIN invoice = InvoiceIds
  BY DEF Typed
<1>3. /\ \A q \in Documents(quote) : quote[q] \in QuoteRow
      /\ \A i \in Documents(invoice) : invoice[i] \in InvoiceRow
  BY Rows, <1>2 DEF Documents, Billed, InUse
<1> QED BY <1>1, <1>2, <1>3 DEF IsTable, QuoteRow, InvoiceRow

(* Both tables go on as above: so do the requests.                         *)
LEMMA NumbersKept ==
  ASSUME Typed, Typed', NumberInv, ClockOK, UNCHANGED today,
         QuotesOut \subseteq QuotesOut', InvoicesOut \subseteq InvoicesOut',
         TableFits(quote', today, QuotesOut'), NoLess(quote, quote', today, QuotesOut'),
         TableFits(invoice', today, InvoicesOut'), NoLess(invoice, invoice', today, InvoicesOut'),
         \A s \in Slots : req'[s] = req[s] \/ req'[s].pc \in {"idle", "read"}
  PROVE  NumberInv'
<1>1. ASSUME NEW t \in Slots PROVE RequestFits(req[t])'
  <2>1. CASE req'[t].pc \notin {"dated", "numbered"}
    BY <2>1 DEF RequestFits
  <2>2. CASE req'[t].pc \in {"dated", "numbered"}
    <3>1. req'[t] = req[t] /\ req[t] \in Request /\ RequestFits(req[t])
      BY <2>2, Rows DEF NumberInv
    <3>2. PICK b : b = req[t].branch
      OBVIOUS
    <3>3. IsTable(quote') /\ IsTable(invoice')
      <4>1. IsFiniteSet(QuoteIds) /\ IsFiniteSet(InvoiceIds)
        BY QuotesAssumption
      <4>2. DOMAIN quote' = QuoteIds /\ DOMAIN invoice' = InvoiceIds
        BY DEF Typed
      <4>3. /\ \A q \in Documents(quote') : quote'[q] \in QuoteRow
            /\ \A i \in Documents(invoice') : invoice'[i] \in InvoiceRow
        BY <4>2 DEF Documents, InUse, Typed, Unused, Gone
      <4> QED BY <4>1, <4>2, <4>3 DEF IsTable, QuoteRow, InvoiceRow
    <3>4. /\ DayCount(quote, b, today) \in Nat /\ DayCount(quote', b, today) \in Nat
          /\ DayCount(invoice, b, today) \in Nat /\ DayCount(invoice', b, today) \in Nat
      BY <3>3, Tables, CountedSet
    <3>5. /\ b \notin QuotesOut' => DayCount(quote, b, today) <= DayCount(quote', b, today)
          /\ b \notin InvoicesOut' => DayCount(invoice, b, today) <= DayCount(invoice', b, today)
      BY DEF NoLess
    <3>6. req[t].seq \in Nat
      BY <3>1 DEF Request
    <3> QED BY <3>1, <3>2, <3>4, <3>5, <3>6 DEF RequestFits
  <2> QED BY <2>1, <2>2
<1>2. TableFits(quote, today, QuotesOut)' /\ TableFits(invoice, today, InvoicesOut)'
  OBVIOUS
<1> QED BY <1>1, <1>2 DEF NumberInv

LEMMA TableLeft ==
  ASSUME NEW t, NEW day, NEW out, NEW outNow,
         IsTable(t), TableFits(t, day, out), out \subseteq outNow
  PROVE  TableFits(t, day, outNow) /\ NoLess(t, t, day, outNow)
BY TableRewritten DEF SameNumber

(* A request goes on, and counts what there is; nothing is written.        *)
LEMMA CountingKeeps ==
  ASSUME Typed, NumberInv, ClockOK, UNCHANGED <<quote, invoice, today, behind>>,
         NEW s \in Slots, NEW r, req' = [req EXCEPT ![s] = r], RequestFits(r)
  PROVE  NumberInv'
<1>1. \A t \in Slots : RequestFits(req'[t])
  BY DEF Typed, NumberInv
<1> QED BY <1>1 DEF NumberInv, RequestFits, QuotesOut, InvoicesOut

LEMMA CountingSteps ==
  ASSUME Typed, NumberInv, ClockOK, NEW s \in Slots,
         \/ \E op \in IdOps, q \in QuoteIds : ReadQuote(s, op, q)
         \/ \E op \in NewOps, b \in Branches, total \in Totals, q \in QuoteIds \cup {NoQuote} :
              BeginCreation(s, op, b, total, q)
         \/ ReadClock(s) \/ CountDocuments(s) \/ Fail(s)
  PROVE  NumberInv'
<1>1. UNCHANGED <<quote, invoice, today, behind>>
  BY DEF ReadQuote, BeginCreation, ReadClock, CountDocuments, Fail, tables, clock
<1>2. ASSUME NEW op \in IdOps, NEW q \in QuoteIds, ReadQuote(s, op, q) PROVE NumberInv'
  <2> DEFINE r == [pc |-> "read", op |-> op, quote |-> q, quoteId |-> NoQuote, branch |-> quote[q].branch,
                   total |-> IF op \in {"update", "accept"} THEN quote[q].total ELSE 0,
                   date |-> 0, seq |-> 0]
  <2>1. req' = [req EXCEPT ![s] = r] /\ r.pc = "read"
    BY <1>2 DEF ReadQuote
  <2> HIDE DEF r
  <2>2. RequestFits(r)
    BY <2>1 DEF RequestFits
  <2> QED BY <1>1, <2>1, <2>2, CountingKeeps
<1>3. ASSUME NEW op \in NewOps, NEW b \in Branches, NEW total \in Totals,
             NEW q \in QuoteIds \cup {NoQuote}, BeginCreation(s, op, b, total, q)
      PROVE  NumberInv'
  <2> DEFINE r == [pc |-> "dated", op |-> op, quote |-> NoQuote, quoteId |-> q, branch |-> b,
                   total |-> total, date |-> today, seq |-> 0]
  <2>1. req' = [req EXCEPT ![s] = r] /\ r.pc = "dated" /\ r.date = today
    BY <1>3 DEF BeginCreation
  <2> HIDE DEF r
  <2>2. RequestFits(r)
    BY <2>1 DEF RequestFits, ClockOK
  <2> QED BY <1>1, <2>1, <2>2, CountingKeeps
<1>4. CASE ReadClock(s)
  <2> DEFINE r == [req[s] EXCEPT !.pc = "dated", !.date = today]
  <2>1. req' = [req EXCEPT ![s] = r] /\ req[s] \in Request
    BY <1>4, Rows DEF ReadClock, Typed
  <2>2. r.pc = "dated" /\ r.date = today
    BY <2>1 DEF Request
  <2> HIDE DEF r
  <2>3. RequestFits(r)
    BY <2>2 DEF RequestFits, ClockOK
  <2> QED BY <1>1, <2>1, <2>3, CountingKeeps
<1>5. CASE CountDocuments(s)
  <2> DEFINE n == NextSeq(req[s].op, req[s].branch, req[s].date)
             r == [req[s] EXCEPT !.pc = "numbered", !.seq = n]
  <2>1. req' = [req EXCEPT ![s] = r] /\ req[s] \in Request /\ req[s].pc = "dated" /\ RequestFits(req[s])
    BY <1>5, Rows DEF CountDocuments, Typed, NumberInv
  <2>2. /\ n \in Nat
        /\ n = 1 + IF req[s].op = "create" THEN DayCount(quote, req[s].branch, req[s].date)
                                           ELSE DayCount(invoice, req[s].branch, req[s].date)
    BY NextSeqNat DEF NextSeq
  <2> HIDE DEF n
  <2>3. /\ r.pc = "numbered" /\ r.op = req[s].op /\ r.branch = req[s].branch
        /\ r.date = req[s].date /\ r.seq = n
    BY <2>1 DEF Request
  <2> HIDE DEF r
  <2>4. RequestFits(r)
    BY <2>1, <2>2, <2>3 DEF RequestFits, ClockOK
  <2> QED BY <1>1, <2>1, <2>4, CountingKeeps
<1>6. CASE Fail(s)
  <2>1. req' = [req EXCEPT ![s] = Idle] /\ RequestFits(Idle)
    BY <1>6 DEF Fail, Done, RequestFits, Idle
  <2> QED BY <1>1, <2>1, CountingKeeps
<1> QED BY <1>2, <1>3, <1>4, <1>5, <1>6

(* Quotes are written over or taken out, and invoices lose theirs.         *)
LEMMA QuoteRewritten ==
  ASSUME Typed, NEW q \in QuoteIds, Exists(q), NEW row, UNCHANGED today,
         \/ \E total \in Nat : row = [quote[q] EXCEPT !.total = total]
         \/ \E to \in QuoteStatus : row = [quote[q] EXCEPT !.status = to],
         quote' = [quote EXCEPT ![q] = row]
  PROVE  /\ DOMAIN quote' = DOMAIN quote
         /\ \A p \in DOMAIN quote : /\ InUse(quote'[p]) <=> InUse(quote[p])
                                    /\ InUse(quote[p]) => SameNumber(quote[p], quote'[p])
<1>1. quote[q] \in QuoteRow
  BY Rows DEF Exists, InUse
<1>2. InUse(row) /\ SameNumber(quote[q], row)
  BY <1>1 DEF QuoteRow, QuoteStatus, InUse, SameNumber
<1>3. DOMAIN quote = QuoteIds /\ \A p \in QuoteIds : quote'[p] = IF p = q THEN row ELSE quote[p]
  BY DEF Typed
<1> QED BY <1>2, <1>3 DEF Exists, SameNumber

LEMMA UpdatingKeeps ==
  ASSUME Typed, Typed', NumberInv, ClockOK, NEW s \in Slots,
         CommitStatus(s) \/ \E total \in Totals \cup Revisions : CommitUpdate(s, total)
  PROVE  NumberInv'
<1> PICK q \in QuoteIds : q = req[s].quote
  BY Rows DEF CommitUpdate, CommitStatus, StatusAfter, NewOps
<1>1. /\ UNCHANGED <<invoice, today, behind>> /\ Exists(q)
      /\ \A t \in Slots : req'[t] = req[t] \/ req'[t].pc = "idle"
  <2>1. UNCHANGED <<invoice, clock, behind>> /\ Exists(q) /\ req' = [req EXCEPT ![s] = Idle]
    BY Zenon DEF CommitUpdate, CommitStatus, Done
  <2> QED BY <2>1 DEF clock, Typed, Idle
<1>2. \E row :
        /\ \/ \E total \in Nat : row = [quote[q] EXCEPT !.total = total]
           \/ \E to \in QuoteStatus : row = [quote[q] EXCEPT !.status = to]
        /\ quote' = [quote EXCEPT ![q] = row]
  <2>1. CASE CommitStatus(s)
    <3>1. StatusAfter[req[s].op] \in QuoteStatus
      BY <2>1 DEF CommitStatus, StatusAfter, QuoteStatus
    <3>2. quote' = [quote EXCEPT ![q] = [quote[q] EXCEPT !.status = StatusAfter[req[s].op]]]
      BY <2>1 DEF CommitStatus
    <3> QED BY <3>1, <3>2
  <2>2. ASSUME NEW total \in Totals \cup Revisions, CommitUpdate(s, total)
        PROVE  total \in Nat /\ quote' = [quote EXCEPT ![q] = [quote[q] EXCEPT !.total = total]]
    BY <2>2, QuotesAssumption DEF CommitUpdate
  <2> QED BY <2>1, <2>2
<1>3. /\ TableFits(quote', today, QuotesOut') /\ NoLess(quote, quote', today, QuotesOut')
      /\ QuotesOut \subseteq QuotesOut' /\ InvoicesOut \subseteq InvoicesOut'
  <2>1. QuotesOut \subseteq QuotesOut' /\ InvoicesOut \subseteq InvoicesOut'
    BY <1>1 DEF QuotesOut, InvoicesOut
  <2>2. /\ DOMAIN quote' = DOMAIN quote
        /\ \A p \in DOMAIN quote : /\ InUse(quote'[p]) <=> InUse(quote[p])
                                   /\ InUse(quote[p]) => SameNumber(quote[p], quote'[p])
    BY <1>1, <1>2, QuoteRewritten
  <2> QED BY <2>1, <2>2, Tables, TableRewritten DEF NumberInv
<1>4. TableFits(invoice', today, InvoicesOut') /\ NoLess(invoice, invoice', today, InvoicesOut')
  BY <1>1, <1>3, Tables, TableLeft DEF NumberInv
<1> QED BY <1>1, <1>3, <1>4, NumbersKept

LEMMA RemovingKeeps ==
  ASSUME Typed, Typed', NumberInv, ClockOK, NEW s \in Slots, CommitRemove(s)
  PROVE  NumberInv'
<1> PICK q \in QuoteIds : q = req[s].quote
  BY Rows DEF CommitRemove, NewOps
<1>1. /\ UNCHANGED today /\ Exists(q) /\ quote' = [quote EXCEPT ![q] = Gone]
      /\ behind' = behind \cup {<<"quotes", quote[q].branch, quote[q].day>>}
      /\ \A t \in Slots : req'[t] = req[t] \/ req'[t].pc = "idle"
  BY DEF CommitRemove, clock, Done, Typed, Idle
<1>2. quote[q] \in QuoteRow
  BY <1>1, Rows DEF Exists, InUse
<1>3. /\ QuotesOut \subseteq QuotesOut' /\ InvoicesOut \subseteq InvoicesOut'
      /\ quote[q].day = today => quote[q].branch \in QuotesOut'
  BY <1>1, <1>2 DEF QuotesOut, InvoicesOut, QuoteRow
<1>4. TableFits(quote', today, QuotesOut') /\ NoLess(quote, quote', today, QuotesOut')
  <2>1. q \in DOMAIN quote
    BY DEF Typed
  <2> QED BY <1>1, <1>3, <2>1, Tables, TableTakenFrom DEF NumberInv
<1>5. TableFits(invoice', today, InvoicesOut') /\ NoLess(invoice, invoice', today, InvoicesOut')
  <2>1. \A i \in InvoiceIds : Billed(i) => invoice[i] \in InvoiceRow
    BY Rows
  <2>2. DOMAIN invoice = InvoiceIds /\ DOMAIN invoice' = InvoiceIds
    BY DEF Typed
  <2>3. \A i \in InvoiceIds :
          \/ invoice'[i] = invoice[i]
          \/ invoice'[i] = [invoice[i] EXCEPT !.quote = NoQuote] /\ Billed(i)
    BY DEF CommitRemove
  <2>4. \A i \in DOMAIN invoice : /\ InUse(invoice'[i]) <=> InUse(invoice[i])
                                  /\ InUse(invoice[i]) => SameNumber(invoice[i], invoice'[i])
    BY <2>1, <2>2, <2>3 DEF InvoiceRow, SameNumber, Billed, InUse
  <2> QED BY <1>3, <2>2, <2>4, Tables, TableRewritten DEF NumberInv
<1> QED BY <1>1, <1>3, <1>4, <1>5, NumbersKept

(* A document is created: a quote, or an invoice with or without one.      *)
LEMMA CreatingKeeps ==
  ASSUME Typed, Typed', NumberInv, ClockOK, NEW s \in Slots, NEW q \in QuoteIds, CommitCreate(s, q)
  PROVE  NumberInv'
<1> DEFINE row == [status |-> "DRAFT", branch |-> req[s].branch, total |-> req[s].total,
                   day |-> today, last |-> ending, date |-> req[s].date, seq |-> req[s].seq]
<1>1. /\ UNCHANGED <<invoice, today>> /\ quote[q] = Unused /\ quote' = [quote EXCEPT ![q] = row]
      /\ behind' = IF ending THEN behind \cup {<<"quotes", req[s].branch, today>>} ELSE behind
      /\ req[s].pc = "numbered" /\ req[s].op = "create"
      /\ \A t \in Slots : req'[t] = req[t] \/ req'[t].pc = "idle"
  BY DEF CommitCreate, Uncounted, clock, Done, Typed, Idle
<1>2. req[s] \in Request /\ RequestFits(req[s])
  BY <1>1, Rows DEF NumberInv
<1>3. /\ InUse(row) /\ row.date \in Nat /\ row.seq \in Nat /\ row.branch \in Branches
      /\ row.day = today /\ row.last \in BOOLEAN /\ row.last = ending /\ row.date <= today
      /\ row.date = today /\ row.branch \notin QuotesOut => row.seq <= 1 + DayCount(quote, row.branch, today)
      /\ row.branch = req[s].branch
  BY <1>1, <1>2 DEF Request, RequestFits, InUse, ClockOK
<1> HIDE DEF row
<1>4. /\ QuotesOut \subseteq QuotesOut' /\ InvoicesOut \subseteq InvoicesOut'
      /\ row.last => row.branch \in QuotesOut'
  <2>1. behind \subseteq behind' /\ (ending => <<"quotes", row.branch, today>> \in behind')
    BY <1>1, <1>3
  <2> QED BY <1>1, <1>3, <2>1 DEF QuotesOut, InvoicesOut
<1>5. TableFits(quote', today, QuotesOut') /\ NoLess(quote, quote', today, QuotesOut')
  <2>1. q \in DOMAIN quote /\ ~InUse(quote[q])
    BY <1>1 DEF Typed, InUse, Unused
  <2>2. row.date = today /\ row.branch \notin QuotesOut' => row.seq <= 1 + DayCount(quote, row.branch, today)
    BY <1>3, <1>4
  <2> QED BY <1>1, <1>3, <1>4, <2>1, <2>2, Tables, TableAddedTo DEF NumberInv
<1>6. TableFits(invoice', today, InvoicesOut') /\ NoLess(invoice, invoice', today, InvoicesOut')
  BY <1>1, <1>4, Tables, TableLeft DEF NumberInv
<1> QED BY <1>1, <1>4, <1>5, <1>6, NumbersKept

LEMMA InvoicingKeeps ==
  ASSUME Typed, Typed', NumberInv, ClockOK, NEW s \in Slots, NEW i \in InvoiceIds,
         CommitAccept(s, i) \/ CommitInvoice(s, i)
  PROVE  NumberInv'
<1>1. PICK status \in {"SENT", "DRAFT"}, q \in QuoteIds \cup {NoQuote} :
        invoice' = [invoice EXCEPT ![i] = NewInvoice(req[s], status, q)]
  <2>1. req[s] \in Request
    BY Rows DEF CommitAccept, CommitInvoice
  <2>2. CASE CommitAccept(s, i)
    BY <2>1, <2>2 DEF CommitAccept, Request
  <2>3. CASE CommitInvoice(s, i)
    BY <2>1, <2>3 DEF CommitInvoice, Request
  <2> QED BY <2>2, <2>3
<1> DEFINE row == NewInvoice(req[s], status, q)
<1>2. /\ UNCHANGED today /\ invoice[i] = Unused /\ invoice' = [invoice EXCEPT ![i] = row]
      /\ behind' = IF ending THEN behind \cup {<<"invoices", req[s].branch, today>>} ELSE behind
      /\ req[s].pc = "numbered" /\ req[s].op # "create"
      /\ \A t \in Slots : req'[t] = req[t] \/ req'[t].pc = "idle"
  <2>1. /\ UNCHANGED clock /\ invoice[i] = Unused /\ req' = [req EXCEPT ![s] = Idle]
        /\ behind' = IF ending THEN behind \cup {<<"invoices", req[s].branch, today>>} ELSE behind
        /\ req[s].pc = "numbered" /\ req[s].op \in {"accept", "invoice"}
    BY DEF CommitAccept, CommitInvoice, Uncounted, Done
  <2> QED BY <1>1, <2>1 DEF clock, Typed, Idle
<1>3. req[s] \in Request /\ RequestFits(req[s])
  BY <1>2, Rows DEF NumberInv
<1>4. /\ InUse(row) /\ row.date \in Nat /\ row.seq \in Nat /\ row.branch \in Branches
      /\ row.day = today /\ row.last \in BOOLEAN /\ row.last = ending /\ row.date <= today
      /\ row.date = today /\ row.branch \notin InvoicesOut => row.seq <= 1 + DayCount(invoice, row.branch, today)
      /\ row.branch = req[s].branch
  BY <1>2, <1>3 DEF NewInvoice, Request, RequestFits, InUse, ClockOK
<1> HIDE DEF row
<1>5. /\ QuotesOut \subseteq QuotesOut' /\ InvoicesOut \subseteq InvoicesOut'
      /\ row.last => row.branch \in InvoicesOut'
  <2>1. behind \subseteq behind' /\ (ending => <<"invoices", row.branch, today>> \in behind')
    BY <1>2, <1>4
  <2> QED BY <1>2, <1>4, <2>1 DEF QuotesOut, InvoicesOut
<1>6. TableFits(invoice', today, InvoicesOut') /\ NoLess(invoice, invoice', today, InvoicesOut')
  <2>1. i \in DOMAIN invoice /\ ~InUse(invoice[i])
    BY <1>2 DEF Typed, InUse, Unused
  <2>2. row.date = today /\ row.branch \notin InvoicesOut' => row.seq <= 1 + DayCount(invoice, row.branch, today)
    BY <1>4, <1>5
  <2> QED BY <1>2, <1>4, <1>5, <2>1, <2>2, Tables, TableAddedTo DEF NumberInv
<1>7. TableFits(quote', today, QuotesOut') /\ NoLess(quote, quote', today, QuotesOut')
  <2>1. CASE CommitInvoice(s, i)
    <3>1. UNCHANGED quote
      BY <2>1 DEF CommitInvoice
    <3> QED BY <1>5, <3>1, Tables, TableLeft DEF NumberInv
  <2>2. CASE CommitAccept(s, i)
    <3> PICK p \in QuoteIds : p = req[s].quote
      BY <2>2, Rows DEF CommitAccept, NewOps
    <3>1. Exists(p) /\ quote' = [quote EXCEPT ![p] = [quote[p] EXCEPT !.status = "ACCEPTED"]]
      BY <2>2 DEF CommitAccept
    <3>2. "ACCEPTED" \in QuoteStatus
      BY DEF QuoteStatus
    <3>3. /\ DOMAIN quote' = DOMAIN quote
          /\ \A d \in DOMAIN quote : /\ InUse(quote'[d]) <=> InUse(quote[d])
                                     /\ InUse(quote[d]) => SameNumber(quote[d], quote'[d])
      BY <1>2, <3>1, <3>2, QuoteRewritten
    <3> QED BY <1>5, <3>3, Tables, TableRewritten DEF NumberInv
  <2> QED BY <2>1, <2>2
<1> QED BY <1>2, <1>5, <1>6, <1>7, NumbersKept

(* A draft of an invoice is edited or deleted.                             *)
LEMMA DraftsKeep ==
  ASSUME Typed, Typed', NumberInv, ClockOK, NEW i \in InvoiceIds,
         RemoveInvoice(i) \/ \E total \in Revisions : EditInvoice(i, total)
  PROVE  NumberInv'
<1>1. /\ UNCHANGED <<quote, req, clock>> /\ invoice[i].status = "DRAFT" /\ i \in DOMAIN invoice
  BY Zenon DEF RemoveInvoice, EditInvoice, Typed
<1>2. UNCHANGED today /\ invoice[i] \in InvoiceRow
  BY <1>1, Rows DEF clock, Billed, InUse
<1>3. CASE RemoveInvoice(i)
  <2>1. /\ invoice' = [invoice EXCEPT ![i] = Gone]
        /\ behind' = behind \cup {<<"invoices", invoice[i].branch, invoice[i].day>>}
    BY <1>3 DEF RemoveInvoice
  <2>2. /\ QuotesOut \subseteq QuotesOut' /\ InvoicesOut \subseteq InvoicesOut'
        /\ invoice[i].day = today => invoice[i].branch \in InvoicesOut'
    BY <1>2, <2>1 DEF QuotesOut, InvoicesOut, InvoiceRow
  <2>3. TableFits(invoice', today, InvoicesOut') /\ NoLess(invoice, invoice', today, InvoicesOut')
    BY <1>1, <2>1, <2>2, Tables, TableTakenFrom DEF NumberInv
  <2>4. TableFits(quote', today, QuotesOut') /\ NoLess(quote, quote', today, QuotesOut')
    BY <1>1, <2>2, Tables, TableLeft DEF NumberInv
  <2> QED BY <1>1, <1>2, <2>2, <2>3, <2>4, NumbersKept
<1>4. ASSUME NEW total \in Revisions, EditInvoice(i, total) PROVE NumberInv'
  <2> DEFINE row == [invoice[i] EXCEPT !.total = total]
  <2>1. invoice' = [invoice EXCEPT ![i] = row] /\ UNCHANGED behind
    BY <1>4 DEF EditInvoice
  <2>2. InUse(row) /\ SameNumber(invoice[i], row)
    BY <1>1, <1>2 DEF InvoiceRow, InUse, SameNumber
  <2> HIDE DEF row
  <2>3. QuotesOut \subseteq QuotesOut' /\ InvoicesOut \subseteq InvoicesOut'
    BY <1>2, <2>1 DEF QuotesOut, InvoicesOut
  <2>4. /\ DOMAIN invoice' = DOMAIN invoice
        /\ \A j \in DOMAIN invoice : /\ InUse(invoice'[j]) <=> InUse(invoice[j])
                                     /\ InUse(invoice[j]) => SameNumber(invoice[j], invoice'[j])
    <3>1. InUse(invoice[i])
      BY <1>1 DEF InUse
    <3>2. invoice'[i] = row /\ \A j \in DOMAIN invoice : j # i => invoice'[j] = invoice[j]
      BY <1>1, <2>1
    <3> QED BY <2>1, <2>2, <3>1, <3>2 DEF SameNumber
  <2>5. TableFits(invoice', today, InvoicesOut') /\ NoLess(invoice, invoice', today, InvoicesOut')
    BY <2>3, <2>4, Tables, TableRewritten DEF NumberInv
  <2>6. TableFits(quote', today, QuotesOut') /\ NoLess(quote, quote', today, QuotesOut')
    BY <1>1, <2>3, Tables, TableLeft DEF NumberInv
  <2> QED BY <1>1, <1>2, <2>3, <2>5, <2>6, NumbersKept
<1> QED BY <1>3, <1>4

(* At midnight every number is of an earlier day.                          *)
LEMMA MidnightKeeps ==
  ASSUME Typed, NumberInv, ClockOK, Midnight
  PROVE  NumberInv'
<1>1. UNCHANGED <<quote, invoice, req>> /\ today' = today + 1
  BY DEF Midnight, tables
<1>2. TableFits(quote, today', QuotesOut') /\ TableFits(invoice, today', InvoicesOut')
  <2>1. \A q \in Documents(quote) : quote[q].date <= today /\ quote[q].date \in Nat
    BY Tables DEF NumberInv, TableFits, RowFits, IsTable
  <2>2. \A i \in Documents(invoice) : invoice[i].date <= today /\ invoice[i].date \in Nat
    BY Tables DEF NumberInv, TableFits, RowFits, IsTable
  <2> QED BY <1>1, <2>1, <2>2 DEF ClockOK, TableFits, RowFits
<1>3. ASSUME NEW s \in Slots PROVE RequestFits(req[s])'
  <2>1. CASE req[s].pc \in {"dated", "numbered"}
    <3>1. req[s].date <= today /\ req[s].date \in Nat
      BY <2>1, Rows DEF NumberInv, RequestFits, Request
    <3> QED BY <1>1, <3>1 DEF ClockOK, RequestFits
  <2>2. CASE req[s].pc \notin {"dated", "numbered"}
    BY <1>1, <2>2 DEF RequestFits
  <2> QED BY <2>1, <2>2
<1> QED BY <1>1, <1>2, <1>3 DEF NumberInv

LEMMA NumberStep ==
  ASSUME QuoteInv, QuoteInv', NumberInv, ClockOK, [Next]_vars
  PROVE  NumberInv'
<1>1. Typed /\ Typed'
  BY DEF QuoteInv
<1>2. CASE UNCHANGED <<quote, invoice, req, today, behind>>
  BY <1>2 DEF NumberInv, RequestFits, QuotesOut, InvoicesOut
<1>3. CASE LastMillisecond
  <2>1. UNCHANGED <<tables, req, today, behind>>
    BY <1>3, Zenon DEF LastMillisecond
  <2> QED BY <1>2, <2>1 DEF tables
<1>4. CASE UNCHANGED vars
  BY <1>2, <1>4 DEF vars, tables, clock
<1>5. ASSUME NEW s \in Slots,
             \/ \E op \in IdOps \cap Ops, q \in QuoteIds : ReadQuote(s, op, q)
             \/ \E op \in NewOps \cap Ops, b \in Branches, total \in Totals, q \in QuoteIds \cup {NoQuote} :
                  BeginCreation(s, op, b, total, q)
             \/ ReadClock(s) \/ CountDocuments(s) \/ Fail(s)
      PROVE  NumberInv'
  <2>1. \/ \E op \in IdOps, q \in QuoteIds : ReadQuote(s, op, q)
        \/ \E op \in NewOps, b \in Branches, total \in Totals, q \in QuoteIds \cup {NoQuote} :
             BeginCreation(s, op, b, total, q)
        \/ ReadClock(s) \/ CountDocuments(s) \/ Fail(s)
    BY <1>5
  <2> QED BY <1>1, <2>1, CountingSteps
<1> QED
  BY <1>1, <1>3, <1>4, <1>5, UpdatingKeeps, RemovingKeeps, CreatingKeeps, InvoicingKeeps,
     DraftsKeep, MidnightKeeps, Zenon DEF Next

(***************************************************************************)
(* The numbers the next quote and the next invoice of a branch count for   *)
(* themselves are free, whatever is counted and created at once and        *)
(* whenever midnight passes, unless one of that day was deleted, or        *)
(* created in its last millisecond.                                        *)
(***************************************************************************)
THEOREM NumbersGoOn == Spec => []NextNumberFree
<1> DEFINE Inv == QuoteInv /\ ClockOK /\ NumberInv
<1>1. Init => Inv
  <2> SUFFICES ASSUME Init PROVE Inv
    OBVIOUS
  <2>1. Documents(quote) = {} /\ Documents(invoice) = {} /\ \A s \in Slots : req[s].pc = "idle"
    BY DEF Init, Documents, InUse, Unused, Idle
  <2> QED BY <2>1, QuoteInit DEF NumberInv, TableFits, RequestFits
<1>2. Inv /\ [Next]_vars => Inv'
  <2> SUFFICES ASSUME Inv, [Next]_vars PROVE Inv'
    OBVIOUS
  <2>1. QuoteInv' /\ ClockOK'
    BY QuoteStep
  <2> QED BY <2>1, NumberStep
<1>3. Inv => NextNumberFree
  <2>1. ASSUME NEW t, NEW out, IsTable(t), TableFits(t, today, out), NEW b, b \notin out
        PROVE  ~Taken(t, b, today, 1 + DayCount(t, b, today))
    <3>1. DayCount(t, b, today) \in Nat
      BY <2>1, CountedSet
    <3> QED BY <2>1, <3>1 DEF Taken, TableFits, RowFits, IsTable
  <2> SUFFICES ASSUME Inv, NEW b \in Branches
               PROVE  /\ <<"invoices", b, today>> \notin behind =>
                           ~Taken(invoice, b, today, NextSeq("accept", b, today))
                      /\ <<"quotes", b, today>> \notin behind =>
                           ~Taken(quote, b, today, NextSeq("create", b, today))
    BY DEF NextNumberFree
  <2>2. IsTable(quote) /\ IsTable(invoice)
    BY Tables DEF QuoteInv
  <2>3. /\ NextSeq("create", b, today) = 1 + DayCount(quote, b, today)
        /\ NextSeq("accept", b, today) = 1 + DayCount(invoice, b, today)
    BY DEF NextSeq
  <2> QED BY <2>1, <2>2, <2>3 DEF NumberInv, QuotesOut, InvoicesOut
<1> HIDE DEF Inv
<1> QED BY <1>1, <1>2, <1>3, PTL DEF Spec
=============================================================================
