------------------------------ MODULE MCScreens ------------------------------
(* Screens with a few lines, the amounts of the data files, and a till.    *)
EXTENDS Screens

LineOf(qty, price, discount) ==
  [described |-> TRUE, qty |-> qty, price |-> price, discount |-> discount]

(* A tax of half a cent, a line of half a cent, one of a fraction, a       *)
(* discount above the gross amount, and no quantity.                       *)
SomeLines ==
  {LineOf(100, 275, 0), LineOf(50, 33, 0), LineOf(133, 5051, 1000), LineOf(100, 33, 275),
   LineOf(0, 275, 0)}
=============================================================================
