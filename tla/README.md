# A verification of the WhatsApp Bot and POS SuperApp

TLA+ models of the application in this repository, the TLC runs that check them on small
instances, and TLAPS proofs that hold for every instance. Paths below are relative to the
repository, which the project's tables call `src/`.

1. [The system](#1-the-system): its parts, their state, what is hard about them
2. [The modules](#2-the-modules): what models what, and what is left
3. [Billing](#3-billing): invoices, payments and credit notes
4. [Quotes and document numbers](#4-quotes-and-document-numbers)
5. [E-invoices](#5-e-invoices): the worker's two queues
6. [Point of sale](#6-point-of-sale): stock, receipts and refunds
7. [Cached lists](#7-cached-lists): tickets and products in Redis
8. [Reminders](#8-reminders)
9. [Messages and the worker's other jobs](#9-messages-and-the-workers-other-jobs)
10. [The WhatsApp gateway](#10-the-whatsapp-gateway): sockets and the pace of sending
11. [Printing](#11-printing)
12. [Amounts and screens](#12-amounts-and-screens)
13. [What the models show of the code](#13-what-the-models-show-of-the-code)
14. [Not modelled](#14-not-modelled)
15. [Running it](#15-running-it)

## 1. The system

A shop's back office: an HTTP API over PostgreSQL (`apps/api`, NestJS and Prisma), a job worker
over BullMQ queues in Redis (`apps/worker`), a WhatsApp gateway (`apps/baileys`), a receipt print
server (`apps/print-server`) and a web front end (`apps/web`). `docker-compose.yml` runs one
container of each, restarted unless stopped, and a Redis that keeps its data on disk.

The API handles requests concurrently: a handler gives up the event loop at every database call, so
any two requests interleave statement by statement. Prisma's `$transaction` is called without an
isolation level, which on PostgreSQL is READ COMMITTED: a statement sees what was committed before
it began, an UPDATE waits for a row lock and then writes whatever its WHERE clause still finds. No
handler locks what it reads (`SELECT ... FOR UPDATE`) and no UPDATE names the state it expects; what
protects the data is the order of statements, unique indexes and foreign keys.

BullMQ runs a job once (one attempt is its default, and nobody sets another): a handler that throws
has failed for good. A job whose process died is found stalled and run again from the start, at most
`maxStalledCount` = 1 times. Each worker has one job of a queue at a time.

| component | state | operations | hard behaviour | what makes it correct |
|---|---|---|---|---|
| invoices `api/invoices` | rows of `invoices` with lines and payments | create, update, remove, send, recordPayment, void | each reads, checks and writes in separate statements; absolute writes | columns and status agree with each other and with the payments; life has one direction |
| credit notes `api/credit-notes` | `credit_notes`, and the columns of the invoice they adjust | create, void | adjusts a row other requests write; note and invoice read apart | amounts move between note and invoice and are conserved |
| quotes `api/quotes` | `quotes` with lines | create, update, remove, send, cancel, expire, accept | accept creates an invoice; acceptance races cancellation and itself | one invoice per accepted quote, over what it says |
| numbering `api/common/numbering` | none: counts the day's documents | generate a number | two counts at once; midnight; deletion makes the count fall behind | numbers are unique, and the next one can be used |
| arithmetic `api/common/math`, `pos.math` | none | totals, discounts, 6% tax | rounding order, half cents in binary fractions | API, till and screens agree; credits do not exceed the invoice |
| point of sale `api/pos` | products with stock, sales, refunds; product lists in the cache | product CRUD, createSale, refundSale, printSale | stock checked before it is decremented; receipt numbers by counting | stock = received - sold + refunded; refunds stay within sales |
| tickets `api/tickets` | tickets; list of open ones in the cache | create, update, transition, list | check, then update; a slow reader refills the cache with a list out of date | only permitted transitions; the list is right again within its 60 s |
| cache `api/common/cache` | Redis keys with a time to live | get, set, del | errors are swallowed | never worse than a miss, for longer than the time to live |
| authentication `api/auth` | users | bootstrap, login, refresh, TOTP set-up, enable, disable | count-then-create; verify-then-update | one first administrator |
| customers, files | rows; presigned URLs | CRUD, upserts | removal in three statements | nothing refers to a removed customer |
| chat `api/chat` | sessions and messages | recordMessage, sendMessage, ingestWebhook | a batch without a transaction; requests repeated | who is told "received" finds all of it; no gaps |
| e-invoice worker `worker` | submissions, delayed poll jobs; the provider's own state | submit, poll, schedule | crash between update and next poll; a provider that loses its memory; two limits | every submission ends, in one of three terminal states, once |
| reminders `worker` | jobs by queue and ticket, audit rows | hourly sweep, handler | a job id is remembered for a while after it ran | stages in order, each once, none left out |
| inbound chat, templates, media, PDF, backup `worker` | messages, interactions, objects | handlers | a handler that dies between two writes runs again | stored once per run; nothing lost but by a failure |
| WhatsApp sessions `baileys` | per session: socket, connection, paused flag | ensureSession, socket events, reconnect, send | two sockets for one session; an old socket's events | one socket, and the flags are about it |
| rate limit `baileys/tokenBucket` | Redis: tokens, refill time, minute counter | consume | expiry times of the three keys | bursts and minutes within limits; refusals end |
| print server | queue, devices | queued and direct prints | both at once; answers before the device is done | receipts do not mix; a reported failure leaves no paper |
| web front end | state of one page component | workspaces, own pages, till | the API's rules written out again per screen | screens show what is so, and come to what the API would |

Interactions: an accepted quote becomes an invoice (same transaction); a credit note rewrites its
invoice; every document asks for a number inside its own transaction; the worker reads invoices to
submit them and tickets to remind of them; inbound messages go from the gateway to the worker through
a queue; a sale's receipt is sent to the print server over HTTP; sales and product edits invalidate
the product lists in the cache.

The hazards found while reading, each at its line and with the properties that cover it, are in
`PROJECT.json`.

## 2. The modules

| module | models | composes with | proofs |
|---|---|---|---|
| `InvoiceRules` | how one request rewrites one row of `invoices` | | |
| `InvoiceLedger` | abstract: billing, each request one step | `InvoiceRules` | `BillingProofs` |
| `BillingRequests` | the same service as it runs | extends and implements `InvoiceLedger` | `BillingProofs` |
| `DocumentNumbers` | numbers by counting | | |
| `QuoteLife` | abstract: the life of a quote, and the invoice of its acceptance | | |
| `Quotes` | quotes, invoices and their numbers, as requests run | `DocumentNumbers`; implements `QuoteLife` | `QuotesProofs` |
| `EinvoiceFiling` | abstract: the life of a submission | | |
| `Einvoice` | both queues, the provider, crashes | implements `EinvoiceFiling` | `EinvoiceProofs` |
| `PosSales` | stock, sales, refunds, receipt numbers | | `PosSalesProofs` |
| `ListCaches` | lists of tickets and products in Redis | | `ScreensProofs` |
| `Reminders` | sweeps, jobs that are remembered, audit rows | | `MessagingProofs` |
| `WorkerJobs` | gateway to worker to database; other jobs; the webhook | | `JobsProofs` |
| `SendRate` | the token bucket | | |
| `WaGateway` | sockets, sessions and sending | `SendRate` | `MessagingProofs` |
| `Printing` | receipts on their way to paper | | `JobsProofs` |
| `Amounts` | arithmetic of API, till and screens | | `ScreensProofs` |
| `Screens` | workspaces, own pages, till | `Amounts` | `ScreensProofs` |
| `Sums` | nothing: lemmas about sums over sets and folds over sequences, which three of the proof modules use | | itself |

The order is that of importance: money first (3 to 6), then what is shared or repeated (7 to 9), then
the edges (10 to 12). Modules named `MC...` instantiate a module for TLC, with definitions a
configuration cannot hold and symmetry. Operators marked *Fault* are faulty versions of a definition
after them; each breaks a property, which shows that the property says something about that code.

Left for later: the set-up of the first administrator and the removal of customers (section 14), and
the e-invoice queue composed with billing (a deletion is all it sees of it now).

Every safety invariant and every action property that a run checks is also a theorem, and so are the
three refinements. What stays with TLC is liveness under fairness, which the prover does not reach:
`InvoiceSettles` and `SubmissionSettles` (section 5), `ListsSettle` (7), `LeftAloneIsReminded` (8),
`InboundIsStored` (9) and `RefusalsEnd` (10).

Sums and folds are defined by recursion over sets and sequences, and the library's induction theorems
cannot be instantiated, because the property to be shown is an operator. `Sums` goes around that: the
property is given as the set of the subsets that have it (`BySubsets`, from the fact that the subsets of
a finite set are well-founded), and the recursion as a function on all subsets that is unique and exists
(`SumsUpToAgree`, `SumUpToExists`; `FoldsUpToAgree`, `FoldUpToExists`). From there on a sum is what
changes by an element at a time (`SumTakesIn`, `SumTakesOut`), and two sums can be compared term by
term (`SumsAreWeighed`).

Modules that proofs are about declare no RECURSIVE operator, take their sets as CONSTANTS with named
assumptions, and have one action per operation. A module's `TypeOK` is its type invariant; it is
part of the inductive invariant of its proofs. Bounds (names with `Max` or `Last`) are guards of
what comes from outside: a crash, an error, a new request. The proofs hold for any natural numbers in
their place, crashes included.

## 3. Billing

### Modules

| module | models |
|---|---|
| `InvoiceRules` | how one request rewrites one row of `invoices`: status guards, checks, computed columns, as operators |
| `InvoiceLedger` | the abstract specification: every request a single step on the rows as they are |
| `BillingRequests` | the service as it runs: guard read, service read, write and commit as separate steps of several requests in flight; failures at any point |
| `MCBillingRequests` | instances of `BillingRequests` for TLC (symmetry) |
| `BillingProofs` | theorems about both |

**State.** `invoice[i]` is a row: status, `grand` (grandTotal), `paid` (paidTotal), `due`
(balanceDue), and `items`, the total its own lines add up to. `receipts[i]` is the sum of the rows of
`invoice_payments`, kept apart from `paid` because the code keeps them apart. `note[n]` is a credit
note. Money is in cents; line items and tax are one number, taken from `Totals`, because nothing
here depends on how it splits. `req[s]`, in `BillingRequests` only, is what the request in slot `s`
has done and seen: its phase (`guarded`, `noted`, `read`), operation, ids, amount and the row it read
in the service.

**Rules take two rows**, the row written and the row read. An UPDATE sets only the columns it names
(so `VoidedRow` keeps whatever `paid` has become), with values computed from what the handler read
(so `PaidRow` forgets payments committed since). `InvoiceLedger` passes one row twice.

**Steps of a request.** `ArriveAt...` is the controller's status guard, `ReadNote` and `ReadInvoice`
the reads and checks inside the service, `Commit...` the writes up to the commit. The writes are one
step because the first of them takes the row lock, held until the commit. A refused request has no
effect, so a refusal is a step that does not exist, or `Fail`, which also stands for database errors
(among them duplicate numbers, section 4), and for a crash of the process: a transaction in flight
is rolled back. `CommitRemove` has the foreign keys in it: payments cascade, a credit note of any
status restricts.

**The cent.** The overpayment check is `newPaid - grandTotal > 0.01` in binary floating point. At
exactly one cent the outcome depends on the amounts (`50.01 - 50` passes, `100.01 - 100` does not),
so both are possible; `balanceDue` is then clamped at zero. That is why `LedgerBalanced` says that
what is due is billed less paid, or one cent more.

### What the runs show

| run | question | result |
|---|---|---|
| `invoice_ledger` | do columns, status and credit notes agree when each request is one step? | yes: `LedgerBalanced`, `StatusTellsLedger`, `CreditsConserved` (billed + credited is constant once issued), `NoWayBack` |
| `billing_overlap` | does the service as it runs do the same? | yes, whatever overlaps and fails (`ImplementsLedger`, the identity on the tables), but for requests in whose time another one has written their invoice |
| | what is left then? | `paid` never exceeds what was received, a paid status has a payment or a note behind it, no note loses its invoice |

**Bounds.** `invoice_ledger`: one invoice (no step touches two), two notes, totals of 2 and 3,
payments of 1 to 3 (exact, partial, one cent too much, refused), credits of 0 to 2 (free, partial,
full). `billing_overlap`: two requests in flight on one invoice, two notes, payments below, of and above
the total; every hazard of the list is a pair of requests. With one invoice the part of
`ImplementsLedger` that says a late request touches no other one is empty: that part, and any number of
invoices, notes and requests, is in the proofs.
`MaxReceipts` stops new payments once an invoice has received that much (2): overlapping
requests could otherwise pay for ever. Ids of deleted invoices do not come back, as in the code.
Deadlock is not checked: with all ids used and nothing in flight the system rests.

**Fairness.** None: every property here is a safety property, and requests may fail or stay
unanswered at any point.

### What is proved

For any sets of invoices, notes, slots and amounts, assuming only that totals and credits are natural
numbers, payments positive ones, and `NoNote` not a note (the `ASSUME`s of the modules):

* `LedgerAgrees` and `StatusIsTrue`, about the ledger: `LedgerBalanced`, `PaidIsReceived`
  (what `paid` says is what the payments add up to) and `StatusTellsLedger`. The conjunction
  `LedgerInv` with the types is inductive: none of them is by itself (that voiding a note leaves the
  columns balanced needs the status, that editing a draft does needs `paid = 0`, which the status
  tells). The proof restates it for one row (`Sound`), shows for each rule that it keeps a row sound,
  and that a step replaces one row.
* `LedgerNoWayBack`: the action property `NoWayBack`, from the same invariant: deletion sets
  `paid` to zero, but only of a draft, and a draft has not been paid.
* `CreditsAreConserved`: the action property `CreditsConserved`. The sum of the notes in force changes by
  the one note that is issued or voided, and the rules move just that between `grand` and the note. It
  needs, besides `LedgerInv`, that the notes there are are finitely many.
* `NothingPaidFromNowhere`, `PaidForAReason`, `NotesKeepInvoices`, about the service:
  `PaidWithinReceipts`, `StatusHasCause` and `NoteHasInvoice` under every interleaving. The
  strengthening is `SeenIsPast`: a request in flight never takes its invoice for better paid than it
  is, and a note being voided still belongs to its invoice. `CommitStep` is the argument common to
  all writes.
* `LedgerRefinement` (and `SeenUntilWritten`, which it rests on): `ImplementsLedger`, under every
  interleaving. The variable `stale`, not in the code, has the requests in flight during which another one
  has written their invoice. The invariant `TurnInv` adds to the one above that what any other request has
  seen agrees with the tables (`SeenIsPresent`); its commit is then the ledger's step of the same name on
  the row as it is (`TurnCommits`). That of a stale one is a ledger's step or is not, but changes no other
  invoice, and no receipts or notes of one (`StaleCommits`). Any other step is a stutter. So as long as
  nobody commits late, the service has every property of the ledger, however many requests are in flight.

Left out: how totals come from line items (section 12), products and branches of lines, dates, notes
and other free columns, audit rows, currencies, PDF rendering. Authorisation (roles) only narrows who
may send a request.

## 4. Quotes and document numbers

`QuoteLife` is the abstract specification: a quote is open (draft or sent), leaves that state once,
and its acceptance makes exactly one invoice, there to stay. `Quotes` is `quotes.service.ts` as it
runs, and as much of `invoices.service.ts` as makes, changes and deletes invoices. `DocumentNumbers` is
`numbering.service.ts`: a number is the day and one more than the documents of the branch created on
that day, before its last millisecond.

**State.** `quote[q]` and `invoice[i]` are rows with branch, total, `day` and `last` (of createdAt: the
day, and whether in its last millisecond), and the number's `date` and `seq`; `req[s]` a request in
flight. `today` is the day in the branches' time zone, `ending` its last millisecond. Two variables are
not in the code: `raced` are the quotes on which two requests were in flight together, `behind` the
tables, branches and days of which a document is not counted.

**Steps.** `ReadQuote` is the status guard of the controller and the check of the service (a status
the second lets through the first does too, so they are one step, the second). Then, for a new
document or an acceptance, `ReadClock` and `CountDocuments`, since the day and the count are taken apart
and midnight may come between them and the INSERT, and the commits. A deletion is two statements without
a transaction; the foreign key of an invoice is set to null. `Fail` is any refusal or error.

**Invoices come in two ways.** Acceptance makes them `SENT`, of the quote's lines. `POST /invoices`
(`CommitInvoice`) makes a `DRAFT` over any lines, with whatever `quoteId` it is given, of which only the
foreign key asks that there is such a quote: a draft, an accepted or a cancelled one will do. `PATCH` and
`DELETE` change and remove drafts (`EditInvoice`, `RemoveInvoice`). So an invoice that names a quote says
nothing about it; what can be relied on is the invoice acceptance has made (`BillsOf`), because nothing
deletes or edits what was not created as a draft. The `status` of the model is the one of creation, which
tells the two apart; later statuses are `BillingRequests`'. Credit notes rewrite grandTotal and no lines,
so `total` is what the lines come to. Credit notes are numbered by the same function over a table of
their own, of which nothing is deleted.

| run | question | result |
|---|---|---|
| `quotes` | two requests in flight on one quote, invoices made, edited and deleted beside it, and a midnight | an accepted quote has the invoice of its acceptance, and what was accepted is no draft again (`AcceptedIsBilled`); if the requests on a quote come one at a time, that invoice is over what it says (`BilledAsQuoted`) and it lives as `QuoteLife` says (`ImplementsQuoteLife`); the next number of each kind of document is free, unless one of that kind and day was deleted or came in the last millisecond (`NextNumberFree`) |

**Bounds.** One quote, two requests in flight and two invoices (of two acceptances, or one beside), one
branch (numbers of different branches are independent), one total and one revision of it, for quotes and
for invoices, and one midnight with the millisecond before it. Of the two operations that end a quote for
nothing the run has cancellation; expiry (`Ops` names what clients make use of) differs in the status it
sets. The proofs are for all operations, and larger numbers of everything: several quotes of one day,
of which some are deleted, are theirs alone. No fairness, no deadlock check: ids run out.

**Proved** (`QuotesProofs`), for any sets, operations and number of days:

* `AcceptanceBills`, by `BillsInv`: an accepted quote has the invoice of its acceptance, and one that has
  such an invoice is there and no draft. Nobody can lose it by a deletion that had seen a draft: that
  deletion takes the quote along, and nothing turns a quote back into a draft; and deletions of invoices
  take drafts.
* `BillsAsQuoted` and `LifeRefinement`, by `TurnInv`: on a quote that was never raced a request in
  flight is alone (`Alone`), what it has read still stands (`StillAsRead`), only an accepted quote has
  such an invoice (`InTurn`), and over its own total (`AsQuoted`). Each commit is then a step of
  `QuoteLife`, invoices made beside are stutters, and a race is what the refinement mapping takes a quote
  out for.
* `NumbersGoOn`, by `NumberInv`: for both tables alike, no document has, and no request in flight will
  give, a number beyond the next of its day, unless that day is `behind`. Midnight empties the day's
  count and leaves nothing with today's date.

Left out: lines and customers (their total is kept), `validUntil`, PDF rendering. The status that
expires a quote is set by a request; no job does it.

## 5. E-invoices

| module | models |
|---|---|
| `EinvoiceFiling` | abstract: what `einvoice_submissions` says of a submission moves forward, three states are final, rows go with their invoice |
| `Einvoice` | `handleEinvoiceSubmit` and `handleEinvoiceStatusPoll` call by call, `scheduleEinvoicePoll`, the mock provider, BullMQ's treatment of failed and stalled jobs |
| `EinvoiceProofs` | theorems |

**State.** `row[x]` is the row of submission `x` (named by the identifier the provider gives it);
`remote[x]` is what the provider knows; `job[j]` is a job of either queue, with the point its handler
has reached (`pc`), what it has learnt (`answer`) and how often it was rerun; `present` are the
invoices not deleted; `late` the rows past `timeoutAt`; `used` counts what is bounded.

**Steps.** A handler's `pc` names what it has done: a submit is `loaded`, `submitted`, `created`; a
poll is `checked` or `overdue`, `answered`, `updated`; both end `returning`. Each database, provider
or queue call is one step. `Error` is a call that throws: the job is over. `Crash` is the process
dying or being stopped (`shutdown` does not wait for jobs): the provider's memory is gone, and jobs
that were running run again from the start, once. The delay before a poll is not modelled: a waiting
poll may start at any time, which includes any delay. Likewise a deadline may pass at any time a
submission is open.

**The provider** is `MockMyInvoisProvider` for every configured name, and it does not depend on
anything outside the worker. Nothing in this repository adds jobs to EINVOICE_SUBMIT yet; `Enqueue`
stands for whoever will.

| run | question | result |
|---|---|---|
| `einvoice` | with a restart and a failing call anywhere? | rows move forward only (`ImplementsFiling`), no row claims an acceptance (`AcceptedIsFiled`), without faults an acceptance is recorded (`AcceptanceIsRecorded`) and every submission ends (`SubmissionSettles`); a restart strands no invoice (`InvoicePursued`, `InvoiceSettles`) |

What does not hold, and is therefore stated with its condition: one failing call ends the chain of
polls and leaves a submission open for ever (`InvoiceSettles` excepts errors); after a restart the
first of two submissions of one invoice may stay open (the property is about the invoice); a restart
makes the provider forget an acceptance, so `AcceptanceIsRecorded` is about executions without one;
with EINVOICE_MAX_ATTEMPTS = 0 nothing ever polls (`MaxAttempts > 0`, and 2 in the run).

**Bounds.** One invoice, submitted once, with one restart and one error; two submissions, the second
being the one a rerun makes; job identities for all that can be in the queues at once. The mock
provider decides at the second poll, which `MaxAttempts` = 2 lets it reach and at which the limit is
reached too. `MaxCrashes` is one because a job is rerun once; the proofs have no bounds.

**Fairness.** Weak fairness of each job's `Step`: the worker's loop takes the next job and awaits
every call, and calls return or throw. It is weak because a job that is waiting for another to leave
its queue is not continuously enabled, and the one ahead finishes. Errors, crashes, deletions and
deadlines have none: they may never happen.

**Proved**, for any sets of invoices, submissions and jobs and any bounds: `EinvoiceSafety`
(`AcceptedIsFiled`, with `HandlersKnow`), `EinvoiceRefinement` (`ImplementsFiling`) and
`AcceptancesRecorded` (`AcceptanceIsRecorded`). The inductive invariant is `EinvoiceInv`. Its heart is
that each queue has one job in the worker at a time (`OneJobPerQueue`): a poll updates a row it read
two calls earlier, and nobody but a deletion has touched it since. A second worker replica would
break that, and with it the finality of terminal states. `AcceptanceIsRecorded` adds who holds an
answer that is not written yet (`OnRecord`, `Holds`).

`InvoicesArePursued` (`InvoicePursued`) needs `PursuitInv`: a job that has not done its work pursues its
invoice, and knows enough to hand it over: a submit that has created its row has it, a poll about to
schedule the next has attempts left, and no job was rerun more often than the process died. A submit
hands over to the first poll, a poll to the next, a deletion takes what waits along. Here is where one
failing call, or one crash more than the reruns, breaks the chain. The liveness properties are
model-checked only.

## 6. Point of sale

`PosSales` models products with a stock, `createSale` in its three phases (stock check, count for the
receipt number, writes and commit), `refundSale` of a sale or one of its lines, and the product
operations that touch stock. `stock[p]` is stockQty of the products there are, `sale[x]` a row of
`sales` with its lines, `req[s]` a sale being made. A receipt number is the pair of the sale's number
of the day and how many `-R` it ends in. Two variables are not in the code: `received` is what the
stock would be had nothing been sold or refunded, `overtaken` says that stock was taken after a sale
in flight had checked it, or that a refund was refunded. Refunds read rows that never change and rely
on the unique receipt number, so a refund is one step; so is every product operation.

| run | question | result |
|---|---|---|
| `pos_overlap` | with two sales in flight and anything between their statements | units are accounted for (`StockAccounted`); refunds, and refunds of refunds, stay within what was sold (`ReturnedWithinSold`); stock goes below zero only where requests overtook each other (`StockNeverNegative`); a next receipt number is always free (`NextNumberFree`) |

**Bounds.** Four rows (two sales and two refunds, or a sale, its refund and that refund's), two requests in
flight, two products and two branches, baskets of two lines, with the same product twice or two
products; stocks of one and three, one below and one above what two baskets need. `MaxReceived` ends
deliveries. The module is about one day: numbers start again at midnight. Deadlock is not checked:
rows run out. No fairness.

**Proved** (`PosSalesProofs`), for any number of everything, and baskets of any lines:

* `NumberingGoesOn` (`NextNumberFree`), by `NumberInv`: no sale or refund has a higher number than its
  branch has sales, and no request in flight a higher one than the next; refunds count as sales and rows
  are never deleted.
* `StockIsAccounted` (`StockAccounted`), by `RowsInv` and `Accounts`: the rows are finitely many and each
  is in turn one that sells or one that takes back; a commit or a refund adds one row to the sum of units
  and changes the stock by just its units, line by line or in one.
* `StockStaysCovered` (`StockNeverNegative`), by `Covered`: as long as nobody was overtaken, there is no
  stock below zero and enough for each basket that has been checked. That is about every request in
  flight and not only the one that commits, which is why two sales need `overtaken`.
* `RefundsStayWithinSales` (`ReturnedWithinSold`), by `ChainInv`: the rows of one receipt number are one
  of each number of refunds, without gap, and what is left sold is bounded by the last of them
  (`Balanced`): after a sale or a refunded refund between what a refund of the last can take back and the
  sale; after a refund at most so much that putting it back stays within the sale.

Money on a sale is in section 12, the product lists in section 7, `printSale` in section 11.

## 7. Cached lists

`ListCaches` composes `tickets.service.ts`, `pos.service.ts` and `RedisCacheService`: the list of open
tickets, that of all products and that of a branch's. A reader that misses selects the list
(`Select`) and caches it later (`Fill`); a writer commits (`CreateTicket`, `UpdateTicket`,
`MakeTransition`, the product operations, `SellOrRefund`) and deletes keys later (`Delete`). Of a row
only what decides its lists is kept; its `edition` stands for any other change. Since the cache
swallows errors, a fill or a deletion may fail (`FillFails`, `DeleteFails`), which also covers a process
that dies in between. `late`, not in the code, marks a list to which a change was committed after its
selection that will not delete it.

| run | question | result |
|---|---|---|
| `list_caches` | two writers and a reader at any of their statements, Redis failing at will | a stale list that nobody is about to delete was selected before a change and cached after it, or missed a failed deletion, or a sale in another branch (`StaleOnlyIfLate`); a closed ticket reopens only by PATCH or by a transition that had read it before (`ClosedUnlessLate`); once writes end the lists become right (`ListsSettle`) |

**Bounds.** One ticket, one product, two branches (a sale in the other one), one reader and two writers,
two writes (a change and one behind it); `Wanted` leaves out the list of the second branch, which is
like the first. **Fairness**: weak fairness of a request under way and of the expiry of a key, since
Redis measures the 60 seconds by itself. New requests have none.

**Proved** (`ScreensProofs`), for any number of tickets, products, branches, readers and writers:
`StaleListsAreLate` (`StaleOnlyIfLate`), by `ListsInv`: a reader that is not late holds the list as the
table has it (`SelectedUnlessLate`), so that a commit either makes it late or does not change its list,
unless the writer is going to delete the key; and `ClosedStaysClosed` (`ClosedUnlessLate`), an action
property, because a writer that has checked a transition goes where it may from what it has read
(`SeenAllows`). `ListsSettle` is model-checked.

The other columns of a ticket, its notes and its assignee change the edition and nothing else.

## 8. Reminders

`Reminders` is the worker's hourly sweep and `handleReminder`. `job[s][t]` is the job of queue `s` for
ticket `t`, because the job id is made of the two; `done[s]` and `givenUp[s]` are the completed and the
failed jobs the queue still remembers (`removeOnComplete` and `removeOnFail`, 500 each), which is how long
BullMQ ignores another job with the id. `told` counts the audit rows since the id was last forgotten,
`asked` and `failed` the stages a ticket had a job for, or would have had.

A sweep is a stage's query and then one `AddJob` per ticket found; tickets are touched, closed and
reopened meanwhile. A job is taken, writes its row and completes (`TakeJob`, `WriteAudit`, `Complete`).
`Crash` ends the sweep and leaves the jobs that were running stalled, before their row or after it. Found
stalled, a job is run again (`RunAgain`); found stalled a second time, it fails, and its id is remembered
with the failed ones (`GiveUp`).

| run | question | result |
|---|---|---|
| `reminders` | sweeps, jobs and touched tickets in any order, with two crashes and an error | the jobs of a ticket's stages are asked for in order (`StagesInOrder`); each writes its row once while it is remembered, twice if it was run again, however often the worker died (`OncePerStage`) |
| `reminders_progress` | the same with one crash and no error, to the end | a ticket left open gets to all stages (`LeftAloneIsReminded`) |

`StagesInOrder` is about the jobs, not their rows: each stage has a queue of its own, and of two jobs added
by one sweep, or waiting while the worker was down, either may write its row first.

**Bounds.** Two stages at 1 and 2 hours, two tickets, one remembered job of a kind (so that one ticket's
job drives the other's out, as the 501st does), two crashes, since a job fails at the second, one error,
touches in the first two hours, three hours for the invariants (sweeps may come at any time within one)
and four for progress. **Fairness**: weak, of the clock, of the sweep (cron fires and awaits what it
begins) and of each queue's handler. **Assumptions**: the hours of the stages are at least 1 and increase,
which the defaults of 1, 20 and 30 do; they are configurable and the code does not check them. A sweep
takes less than an hour.

**Proved** (`MessagingProofs`), for any tickets, stages, hours and retention, and any number of crashes and
errors: `StagesAskedInOrder`, by `OrderInv` (while a sweep is at a stage, the stage before has dealt with
every ticket found, for an hour in which the clock strikes at most once); `RemindedOnce`, by `OnceInv`
(where a job is, and whether it is run for the second time, tells how often it tried to write its row,
and an id is forgotten with its count). `LeftAloneIsReminded` is model-checked.

## 9. Messages and the worker's other jobs

`WorkerJobs`: the gateway puts what WhatsApp delivers into a queue (`Deliver`, `AddBulk`), the worker
stores it (`UpsertSession`, `StoreMessage`, `LogInteraction`, `Complete`); templates, thumbnails, PDFs and
the backup are jobs of the other queues (`EnsureBucket`, `PutObject`); the API's webhook stores the
messages of a request one after the other without a transaction (`RecordMessage`, `Answer`,
`PostFails`). `rows` and `crm` count the rows of a message in the two tables; `lost` is work whose
gateway died, whose handler threw, or that stalled once too often.

| run | question | result |
|---|---|---|
| `worker_jobs` | crashes of gateway and worker, an error, a batch posted twice | a message is stored at most once per run of its job, nothing is in the CRM that is not among the messages, a file is there once (`OnceForEachRun`); who is told a batch was received finds all of it and nobody leaves a gap (`StoredWithoutGap`); what was delivered is stored, or is in `lost` (`InboundIsStored`) |

**Bounds.** Two messages, a template, a file, a backup, and a batch of two posted by two requests, of
which at most three come in one behaviour (`MaxWork`: queues do not share anything but the session row);
two crashes, one more than the reruns allow, and one error. **Fairness**: weak, of `AddBulk` and of each
queue's handler, which the worker awaits; a request to the webhook may hang for ever.

**Proved** (`JobsProofs`), without bounds: `StoredOncePerRun`, by `JobsInv` (where a job is tells
whether this run of it has stored yet); `WebhookHasNoGap`, by `PostsInv` (a message of the batch has as
many rows as requests have reached it); `NothingIsForgotten`, by `KeptInv` (a job that is done has stored
what it is for): one that has ended has, or is in `lost`. That is the safety half of `InboundIsStored`, the
other half of which is liveness and model-checked.

Left out: the contents of messages and files. A thumbnail is named after its object without the
extension, so two objects that differ in nothing else share one: the model has one object per job.

## 10. The WhatsApp gateway

`SendRate` is the Lua script of `tokenBucket.ts`, one step in Redis: three keys, written together when a
token is given and not at all when it is refused. Time is in ticks, `Grain` of which earn a token;
tokens are counted in ticks, which keeps fractions. `watch` is an observer that starts counting at any
moment. `WaGateway` puts it to use: `session-manager.ts` for one session. `socket[k]` is what a socket
last said, `session` and `status` the entries of the two maps, `call[c]` where an HTTP request is,
`reconnects` how many reconnections are under way; `overlapped`, not in the code, says that two sockets
were being made at a time since the process began.

JavaScript runs to the next await, so `EnsureSession` (the check) and `Made` (the new socket takes the
entry) are apart; every socket the session ever had writes the same two entries (`Opens`, `Closes`,
`ClosesForGood`). `Restart` loses both maps and keeps Redis.

| run | question | result |
|---|---|---|
| `gateway` | two requests, a reconnection, a restart | without an overlap there is one live socket, the one in the map, and the state is its own (`OneSocketAtATime`); whoever counts sees at most a burst and one token per second, and the limit of a minute (`GivenWithinLimits`); while requests keep asking, messages keep going out (`RefusalsEnd`) |

**Bounds.** A capacity of 2 and 3 messages per minute of 5 ticks: the minute's limit bites before the
bucket's (3 < 2 + 5) and the keys expire at different times (4 and 5 ticks). Two callers and two sockets
make every overlap there is; one reconnection under way; one restart. Ages stop at `Later`, beyond
which nothing depends on them. **Fairness**: weak, of time and of the answers of Redis. Requests have none:
the property is about a client that keeps asking.

**Proved** (`MessagingProofs`), for any rate, capacity, limit and number of callers and sockets:
`SendsWithinLimits`, by `RateInv` (the tokens seen and those left are paid for by the burst and the time
since; while the minute of the observer lasts, the count in Redis is the longer one), and
`SocketsStayOne`, by `SocketInv`. `RefusalsEnd` is model-checked.

**Assumption.** Requests reach Redis in the order of their timestamps, which the caller takes.
Left out: QR codes, the pictures of a connection sent to browsers, the credentials on disk.

## 11. Printing

`Printing`: `printSale` has the print server print at once (`PrintSale`), other callers queue
(`EnqueuePrint`, `TakeJob`); both go through `dispatchToPrinter` (`Render`, `Close`, `Return`, `Fail`). The
ESC/POS library, external, collects what is printed and hands it to the device when it is closed, and
nobody waits for that: `handed` is what has not come out (`Flush`), and the device may lose its end
(`FlushBreaksOff`). A receipt has two parts, since the program waits for a picture between them.

| run | question | result |
|---|---|---|
| `printing` | direct prints and jobs on two devices, crashes, lost answers | no receipt begins or ends inside another (`ReceiptsApart`); what is reported as failed leaves no paper, and a print comes out once, and once more per rerun (`ErrorLeavesNoPaper`) |

**Bounds.** Three prints on two devices, two on one being what can mix; the print
server dies twice, once more than the reruns allow; one loss. Deadlock is not checked: the prints are used up. No fairness: nothing promises
that paper comes out, since success is answered before.

**Proved** (`JobsProofs`), for any number of prints, devices, deaths and losses: `ReceiptsStayApart`
(`ReceiptsApart`) and `ErrorsLeaveNoPaper` (`ErrorLeavesNoPaper`), by `PrintInv`: what is handed over is a
whole receipt and nothing else, so it comes out in one piece or as a beginning of one (`AsFarAsItIs`);
and whatever has not been closed in this run came out in earlier ones at most (`OncePerRun`), while who
may still be told of an error is in its first run, because only jobs of the queue are rerun.

The layout of a receipt is its two parts; the command-line tool posts to the same routes.

## 12. Amounts and screens

`Amounts` holds the arithmetic as operators: `MathService` (each line rounded, then added), the
resolution of credit-note items, the screens' (nothing rounded before the tax), and the till's. Money is
in cents, quantities in hundredths. The program computes in binary fractions of ringgit, so what is
half a cent on paper may come out just below: `Rounded` gives both neighbours there, and an operator of
totals gives a set. `Screens` is the state of one page component: the forms of the three workspaces, a
document followed on its workspace or its own page, and the till.

| run | question | result |
|---|---|---|
| `screens` | forms of up to two lines, buttons in any order | a form comes to what the API would make of it, to the half cents of the tax for whole quantities and a cent a line otherwise, and a till's sale to its invoice (`FormNearApi`); credit notes line by line, or over halves, add up to the invoice but for the rounding of each (`CreditedInParts`); what is shown as paid or accepted is so (`ShownIsSo`); on a document's own page ends are final (`OwnPageIsFinal`) |

**Bounds.** The lines of a form are chosen for their fractions: a tax of half a cent, a line of half a
cent, a quantity with a fraction, a discount above the gross amount, and no quantity; payments of one
cent, of what the data say is paid, and of what they say is due. `MaxPayments`, `MaxLines` and `MaxSales`
end what repeats. No fairness; deadlock is not checked.

**How far parts may be from the whole.** A note for each of n lines has a tax of its own, so the notes are
up to half a cent each, and half a cent for the invoice, away from it: with four lines that is two cents,
which a run with two lines does not show. A line that comes to half a cent on paper may be rounded down
in the invoice and up in its note, a cent and its tax. Two notes over half of every quantity may exceed
the invoice by a cent a line with its tax, and half a cent for the tax of each of the three documents.
`CreditedInParts` says just these bounds, in hundredths of a cent; a bound of fixed size, which holds in
the run, is wrong for more lines, as trying to prove it showed.

**Proved** (`ScreensProofs`), for forms of any number of lines, any amounts and any order of the buttons:

* `ScreensShowWhatIsSo` (`ShownIsSo`), by `ScreensInv`: a document shown comes of lines that were valid in
  a form, and to the total that form came to; the status of an invoice tells whether it is paid, partly
  or not at all; a quote with a bill is accepted or has been cancelled since; the orders made at the till
  come to what `calculateSaleTotals` says.
* `EndedStaysSoOnOwnPage` (`OwnPageIsFinal`), an action property, button by button.
* `FormsComeToWhatTheApiSays` (`FormNearApi`) and `CreditsInPartsAddUp` (`CreditedInParts`) follow from the
  invariant by arithmetic alone: what `Rounded` gives is within half a cent (`RoundedIsNear`), so each line
  is, so their sum is within half a cent a line (`ItemsAreNear`), by `Sums`; tax adds 6% and half a cent.
  That whole quantities leave only the half cents of the tax is `WholeTotalsAreNear`. `NotesAreNear` and
  `HalvesAreWithin` are the two halves of the second.

## 13. What the models show of the code

All runs pass: properties are stated with the conditions under which they hold. What those conditions
exclude the code does do, and a reader should know of it.

* **Overlapping requests.** A draft whose payment is being committed can be deleted, the payment with
  it; two payments that each fit can be committed together and exceed the total; a late payment revives
  a voided invoice; two requests void one note twice (`billing_overlap` keeps only weaker facts;
  `ImplementsLedger` says that only a request whose invoice was written meanwhile does such a thing). Two acceptances of one quote make two invoices, and an acceptance may
  follow a cancellation. Two sales can take the same last unit.
* **In turn.** Editing a credited draft forgets the note, and voiding it then adds its amount on top
  (`CreditsConserved` is about issued invoices). `accept` never looks at `validUntil`. After a quote, or a
  draft of an invoice, is deleted the day's count is behind the numbers given and every creation of that
  kind, acceptances among them, may fail until midnight. So it is, for one number, after a document of the
  day's last millisecond.
* **Invoices that name a quote.** `POST /invoices` takes any `quoteId`: a draft quote can be invoiced that
  way, an accepted one again, and over another total. `QuoteLife` is about the invoice acceptance makes.
* **Caches.** A product sold in a branch it does not belong to stays in its own branch's list as it was,
  up to 60 seconds.
* **Worker.** A failing call leaves a submission open for ever; a job that is rerun stores a message or an
  audit row a second time. Nobody in the repository adds jobs of templates, media, PDFs or e-invoices, and
  the API's `sendMessage` records a message that nothing sends.
* **Gateway.** After two overlapping sockets, one is left out of the map, and its close takes the other's
  entry and may pause the session.
* **Printing.** Success is answered before the device has the receipt, and a device is left open after a
  failure.
* **Screens.** In the workspace a payment revives a void invoice, and an accepted e-invoice is sent again;
  on their own pages neither happens. A quote's own page lets an expired quote be sent or accepted, which
  the API refuses, and cancels an accepted one. The forms clamp a negative taxable amount at zero where
  the API refuses the line. A credit item of half a line takes its whole discount unless told otherwise.

## 14. Not modelled

* **Authentication**: hashing, tokens, reCAPTCHA and TOTP are calls of libraries. What is left is the
  set-up of the first administrator, a count and an insert: two requests at once make two, and nothing
  follows from it. The TOTP routes read `user.id` where the strategy gives `userId`, so they always fail
  and there is no behaviour to model.
* **Customers**: single writes, and a removal in three statements without a transaction, whose failure
  leaves a customer without threads, and which can be repeated.
* **Files** (presigned URLs), **API plumbing** (guards, interceptors, error mapping), **shared packages**,
  **deployment**: no state of their own. The constraints of the schema appear where a module relies on
  them.
* **Web pages that only show data** (dashboards, tickets, chat, settings), translations, and components
  nobody uses.
* **Manual stock counts** that overwrite what sales have decremented since the counting: when a manager
  counted is outside the program; the write itself is `SetStock`.

## 15. Running it

In this directory: `tlc -workers 2 -config BillingOverlap.cfg MCBillingRequests.tla` checks a run (the
table of runs, with module and configuration, is in `PROJECT.json`), `tlapm BillingProofs.tla`
checks proofs. The runs take from a second to about two minutes. Operators named in `PROJECT.json` under
`mutants` (marked *Fault* in the modules) are faulty versions of a definition; put in its place, each
makes the run find its property violated.
