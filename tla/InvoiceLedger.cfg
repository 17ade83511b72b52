\* Every request a single step, on one invoice with two credit notes.
SPECIFICATION LedgerSpec
CONSTANTS
  Invoices = {i1}
  Notes = {n1, n2}
  Totals = {2, 3}
  Payments = {1, 2, 3}
  Credits = {0, 1, 2}
INVARIANTS LedgerBalanced StatusTellsLedger
PROPERTIES CreditsConserved NoWayBack
CHECK_DEADLOCK FALSE
