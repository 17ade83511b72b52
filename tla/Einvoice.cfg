\* The worker dies and restarts, and a call may fail.
SPECIFICATION FairSpec
CONSTANTS
  Invoices = {i1}
  Subs = {x1, x2}
  Jobs = {j1, j2, j3, j4}
  NoSub = NoSub
  MaxAttempts = 2
  MaxStalls = 1
  MaxSubmits = 1
  MaxCrashes = 1
  MaxErrors = 1
INVARIANTS AcceptedIsFiled AcceptanceIsRecorded InvoicePursued
PROPERTIES ImplementsFiling InvoiceSettles SubmissionSettles
CHECK_DEADLOCK FALSE
