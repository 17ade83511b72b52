------------------------------ MODULE MCPrinting ------------------------------
(* Printing on small instances: jobs and devices are interchangeable.      *)
EXTENDS Printing

PrintsAndDevices == Permutations(Prints) \cup Permutations(Devices)
=============================================================================
