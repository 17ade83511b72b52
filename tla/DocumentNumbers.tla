--------------------------- MODULE DocumentNumbers ---------------------------
(***************************************************************************)
(* numbering.service.ts: the number of a document is its branch's code,    *)
(* the day, and one more than the documents of that branch whose createdAt *)
(* falls on that day.  Nothing is stored but the documents themselves, and *)
(* the unique index on branch and number refuses what is taken.            *)
(*                                                                         *)
(* A table is a function from ids to rows; a row in use has the fields     *)
(* branch, day and last (of createdAt: the day, and whether in its last    *)
(* millisecond), date and seq (of the number).                             *)
(***************************************************************************)
EXTENDS Integers, FiniteSets

InUse(row) == row.status \notin {"new", "gone"}

Documents(table) == {d \in DOMAIN table : InUse(table[d])}

(* The range is from startOf('day') to before endOf('day'), which is the   *)
(* last millisecond: what is created in that is not counted.               *)
DayCount(table, branch, day) ==
  Cardinality({d \in Documents(table) :
    table[d].branch = branch /\ table[d].day = day /\ ~table[d].last})

Taken(table, branch, date, seq) ==
  \E d \in Documents(table) :
    table[d].branch = branch /\ table[d].date = date /\ table[d].seq = seq
=============================================================================
