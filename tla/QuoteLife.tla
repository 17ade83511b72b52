------------------------------ MODULE QuoteLife ------------------------------
(***************************************************************************)
(* What the quotes API promises of one quote when the requests on it come  *)
(* one after the other: a draft is sent or not, and ends in one of three   *)
(* ways, of which acceptance makes one invoice, there to stay.  Drafts of  *)
(* invoices that name the quote and were not made by it are not bills.     *)
(* Nothing is promised of a quote once two requests on it have been in     *)
(* flight together ("raced").                                              *)
(***************************************************************************)
EXTENDS Integers

CONSTANT Quotes

VARIABLES
  life,   \* where each quote is
  bills   \* how many invoices acceptance has made of it

Init == life = [q \in Quotes |-> "new"] /\ bills = [q \in Quotes |-> 0]

Move(q, from, to, billed) ==
  /\ life[q] \in from
  /\ life' = [life EXCEPT ![q] = to]
  /\ bills' = [bills EXCEPT ![q] = @ + billed]

Race(q) ==
  /\ life' = [life EXCEPT ![q] = "raced"]
  /\ bills' = [bills EXCEPT ![q] = 0]

Open == {"DRAFT", "SENT"}

Next == \E q \in Quotes :
  \/ Move(q, {"new"}, "DRAFT", 0)
  \/ Move(q, {"DRAFT"}, "SENT", 0)
  \/ Move(q, {"DRAFT"}, "gone", 0)
  \/ Move(q, Open, "CANCELLED", 0)
  \/ Move(q, Open, "EXPIRED", 0)
  \/ Move(q, Open, "ACCEPTED", 1)
  \/ Race(q)

Spec == Init /\ [][Next]_<<life, bills>>
=============================================================================
