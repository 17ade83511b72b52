-------------------------- MODULE MCBillingRequests --------------------------
(* BillingRequests on small instances: slots, notes, invoices are alike.   *)
EXTENDS BillingRequests, TLC

Alike == Permutations(Slots) \cup Permutations(Notes) \cup Permutations(Invoices)
=============================================================================
