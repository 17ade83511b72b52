\* Two requests in flight on one invoice, in any interleaving.
SPECIFICATION Spec
CONSTANTS
  Invoices = {i1}
  Notes = {n1, n2}
  Totals = {2}
  Payments = {1, 2, 3}
  Credits = {0, 2}
  Slots = {s1, s2}
  NoNote = NoNote
  Ops = {"edit", "replace", "remove", "send", "pay", "void", "credit", "uncredit"}
  MaxReceipts = 2
SYMMETRY Alike
INVARIANTS PaidWithinReceipts StatusHasCause NoteHasInvoice
PROPERTY ImplementsLedger
CHECK_DEADLOCK FALSE
