\* Two requests in flight on one quote, invoices made and deleted beside it, and a
\* midnight. (Expiry is cancellation under another name.)
SPECIFICATION Spec
CONSTANTS
  QuoteIds = {q1}
  InvoiceIds = {i1, i2}
  NoQuote = NoQuote
  Branches = {b1}
  Totals = {1}
  Revisions = {2}
  Slots = {s1, s2}
  Ops = {"create", "update", "remove", "send", "cancel", "accept", "invoice"}
  LastDay = 1
SYMMETRY IdsAndSlots
INVARIANTS NextNumberFree AcceptedIsBilled BilledAsQuoted
PROPERTY ImplementsQuoteLife
CHECK_DEADLOCK FALSE
