------------------------------ MODULE MCPosSales ------------------------------
(* PosSales on small instances: rows and requests are interchangeable.     *)
EXTENDS PosSales, TLC

CONSTANTS tea, cup

TeaTwice  == << [product |-> tea, qty |-> 1], [product |-> tea, qty |-> 1] >>
TeaAndCup == << [product |-> tea, qty |-> 1], [product |-> cup, qty |-> 1] >>

Mixed == {TeaTwice, TeaAndCup}

RowsAndSlots == Permutations(Rows) \cup Permutations(Slots)
=============================================================================
