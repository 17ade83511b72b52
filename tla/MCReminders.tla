----------------------------- MODULE MCReminders -----------------------------
(* Reminders on a small instance.                                          *)
EXTENDS Reminders

TwoStages == <<1, 2>>

(* For the run without liveness: nothing tells one ticket from another.    *)
Alike == Permutations(Tickets)
=============================================================================
