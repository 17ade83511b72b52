---------------------------- MODULE EinvoiceFiling ----------------------------
(***************************************************************************)
(* What the worker promises of the submissions of invoices to the tax      *)
(* office's portal: a row records each, what the row says only moves       *)
(* forward, and ACCEPTED, REJECTED and FAILED are final.                   *)
(***************************************************************************)
CONSTANT Subs          \* the submissions there can be

VARIABLE status        \* what the database says of each

Open     == {"PENDING", "SENT"}
Terminal == {"ACCEPTED", "REJECTED", "FAILED"}

Init == status = [x \in Subs |-> "NONE"]

(* The provider has answered a submission: the row is created.             *)
Record(x) ==
  /\ status[x] = "NONE"
  /\ \E s \in Open \cup Terminal : status' = [status EXCEPT ![x] = s]

(* A poll, its limit or the deadline moves an open submission on.          *)
Advance(x) ==
  /\ status[x] \in Open
  /\ \E s \in Terminal \cup {"SENT"} : status' = [status EXCEPT ![x] = s]

(* Rows go with the invoice they belong to.                                *)
Delete(D) ==
  /\ \A x \in D : status[x] # "NONE"
  /\ status' = [x \in Subs |-> IF x \in D THEN "GONE" ELSE status[x]]

Next ==
  \/ \E x \in Subs : Record(x) \/ Advance(x)
  \/ \E D \in SUBSET Subs : Delete(D)

Spec == Init /\ [][Next]_status
=============================================================================
