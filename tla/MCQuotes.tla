------------------------------- MODULE MCQuotes -------------------------------
(* Quotes on small instances: ids and requests are interchangeable.        *)
EXTENDS Quotes, TLC

IdsAndSlots == Permutations(QuoteIds) \cup Permutations(InvoiceIds) \cup Permutations(Slots)
=============================================================================
