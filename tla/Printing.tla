------------------------------- MODULE Printing -------------------------------
(***************************************************************************)
(* Receipts: printSale of pos.service.ts has the print server print at     *)
(* once, other callers put a job into its queue, and both ways lead        *)
(* through dispatchToPrinter.  The ESC/POS library (external) collects     *)
(* what is printed and hands it to the device in one piece when it is      *)
(* closed; nobody waits for that, and the device may lose the end of it.   *)
(* Each print opens the device for itself.                                 *)
(*                                                                         *)
(* A receipt has two parts, because the program waits for the picture of   *)
(* the QR code between them.  A print is known by its jobId.               *)
(***************************************************************************)
EXTENDS Integers, Sequences, FiniteSets, SequencesExt

CONSTANTS
  Prints,      \* jobIds
  Devices,
  NoDevice,
  MaxReruns,   \* BullMQ's maxStalledCount: reruns of a stalled job
  MaxDeaths,   \* bound: times the print server dies
  MaxLosses    \* bound: answers lost on the way, and receipts in the device

ASSUME PrintingAssumption ==
  /\ NoDevice \notin Devices
  /\ MaxReruns \in Nat /\ MaxDeaths \in Nat /\ MaxLosses \in Nat

VARIABLES
  print,    \* how far each print is, where it goes, and the parts collected for it
  answer,   \* what the one who wanted it was told
  handed,   \* what closed printers have handed to a device that is not out yet
  paper,    \* the parts that came out of each device
  deaths, losses

printVars == <<print, answer, handed, paper, deaths, losses>>

Part == {"body", "footer"}
Job  == [pc : {"new", "waiting", "opening", "rendering", "closed", "ended"},
         way : {"direct", "queue"}, device : Devices \cup {NoDevice},
         collected : Seq(Part), reruns : Nat]
NewJob == [pc |-> "new", way |-> "direct", device |-> NoDevice, collected |-> <<>>, reruns |-> 0]

PrintTypeOK ==
  /\ print \in [Prints -> Job]
  /\ answer \in [Prints -> {"none", "ok", "error", "lost"}]
  /\ handed \in [Prints -> Seq(Part)]
  /\ paper \in [Devices -> Seq(Prints \X Part)]
  /\ deaths \in 0..MaxDeaths /\ losses \in 0..MaxLosses

PrintInit ==
  /\ print = [p \in Prints |-> NewJob]
  /\ answer = [p \in Prints |-> "none"]
  /\ handed = [p \in Prints |-> <<>>]
  /\ paper = [d \in Devices |-> <<>>]
  /\ deaths = 0 /\ losses = 0

Stage(p, pc) == print' = [print EXCEPT ![p].pc = pc]
Tell(p, what) == answer' = [answer EXCEPT ![p] = IF @ = "none" THEN what ELSE @]

Underway(p) == print[p].pc \in {"opening", "rendering", "closed"}

-----------------------------------------------------------------------------
(***************************************************************************)
(* printSale reads the sale (which never changes) and asks the print       *)
(* server; without a device or a host it refuses: no step.                 *)
(***************************************************************************)
PrintSale(p, d) ==
  /\ print[p] = NewJob
  /\ print' = [print EXCEPT ![p] = [NewJob EXCEPT !.pc = "opening", !.device = d]]
  /\ UNCHANGED <<answer, handed, paper, deaths, losses>>

(* POST /print answers as soon as the job is in the queue.                 *)
EnqueuePrint(p, d) ==
  /\ print[p] = NewJob
  /\ print' = [print EXCEPT ![p] = [NewJob EXCEPT !.pc = "waiting", !.way = "queue", !.device = d]]
  /\ Tell(p, "ok")
  /\ UNCHANGED <<handed, paper, deaths, losses>>

(* The worker has one job at a time.                                       *)
TakeJob(p) ==
  /\ print[p].pc = "waiting"
  /\ \A q \in Prints : print[q].way = "queue" => ~Underway(q)
  /\ Stage(p, "opening")
  /\ UNCHANGED <<answer, handed, paper, deaths, losses>>

-----------------------------------------------------------------------------
(***************************************************************************)
(* dispatchToPrinter.                                                      *)
(***************************************************************************)
(* Fault: what is rendered goes to the device as it comes.                 *)
RenderUnbuffered(p) ==
  /\ print[p].pc = "opening"
  /\ Stage(p, "rendering")
  /\ paper' = [paper EXCEPT ![print[p].device] = Append(@, <<p, "body">>)]
  /\ UNCHANGED <<answer, handed, deaths, losses>>

Render(p) ==
  /\ print[p].pc = "opening"
  /\ print' = [print EXCEPT ![p].pc = "rendering", ![p].collected = <<"body">>]
  /\ UNCHANGED <<answer, handed, paper, deaths, losses>>

(* The picture is there: the rest is rendered, and the printer closed.     *)
Close(p) ==
  /\ print[p].pc = "rendering"
  /\ print' = [print EXCEPT ![p].pc = "closed", ![p].collected = <<>>]
  /\ handed' = [handed EXCEPT ![p] = Append(print[p].collected, "footer")]
  /\ UNCHANGED <<answer, paper, deaths, losses>>

(* The direct way answers ok; a job is completed.                          *)
Return(p) ==
  /\ print[p].pc = "closed"
  /\ Stage(p, "ended")
  /\ Tell(p, "ok")
  /\ UNCHANGED <<handed, paper, deaths, losses>>

(* Fault: the printer is closed in any case.                               *)
FailAndClose(p) ==
  /\ print[p].pc \in {"opening", "rendering"}
  /\ print' = [print EXCEPT ![p].pc = "ended", ![p].collected = <<>>]
  /\ handed' = [handed EXCEPT ![p] = print[p].collected]
  /\ Tell(p, "error")
  /\ UNCHANGED <<paper, deaths, losses>>

(* The device cannot be opened, or there is no picture.  The device is     *)
(* not closed; a job that has failed is not tried again.                   *)
Fail(p) ==
  /\ print[p].pc \in {"opening", "rendering"}
  /\ print' = [print EXCEPT ![p].pc = "ended", ![p].collected = <<>>]
  /\ Tell(p, "error")
  /\ UNCHANGED <<handed, paper, deaths, losses>>

-----------------------------------------------------------------------------
(***************************************************************************)
(* The device, and what goes wrong around the print server.                *)
(***************************************************************************)
ComesOut(p, parts) ==
  /\ paper' = [paper EXCEPT ![print[p].device] =
                 @ \o [i \in DOMAIN parts |-> <<p, parts[i]>>]]
  /\ handed' = [handed EXCEPT ![p] = <<>>]

Flush(p) ==
  /\ handed[p] # <<>>
  /\ ComesOut(p, handed[p])
  /\ UNCHANGED <<print, answer, deaths, losses>>

FlushBreaksOff(p) ==
  /\ handed[p] # <<>>
  /\ losses < MaxLosses /\ losses' = losses + 1
  /\ \E n \in 0..(Len(handed[p]) - 1) : ComesOut(p, SubSeq(handed[p], 1, n))
  /\ UNCHANGED <<print, answer, deaths>>

(* The API dies, or the connection to it; the print goes on.               *)
LoseAnswer(p) ==
  /\ print[p].way = "direct" /\ Underway(p) /\ answer[p] = "none"
  /\ losses < MaxLosses /\ losses' = losses + 1
  /\ Tell(p, "lost")
  /\ UNCHANGED <<print, handed, paper, deaths>>

(* What was on its way to a device is lost; a job under way has stalled    *)
(* and is run again, once or as often as BullMQ allows.                    *)
Crash ==
  /\ deaths < MaxDeaths /\ deaths' = deaths + 1
  /\ print' = [p \in Prints |->
       IF ~Underway(p) THEN print[p]
       ELSE IF print[p].way = "queue" /\ print[p].reruns < MaxReruns
       THEN [print[p] EXCEPT !.pc = "waiting", !.collected = <<>>, !.reruns = @ + 1]
       ELSE [print[p] EXCEPT !.pc = "ended", !.collected = <<>>]]
  /\ answer' = [p \in Prints |-> IF Underway(p) /\ answer[p] = "none" THEN "lost" ELSE answer[p]]
  /\ handed' = [p \in Prints |-> <<>>]
  /\ UNCHANGED <<paper, losses>>

-----------------------------------------------------------------------------
PrintNext ==
  \/ \E p \in Prints :
       \/ \E d \in Devices : PrintSale(p, d) \/ EnqueuePrint(p, d)
       \/ TakeJob(p) \/ Render(p) \/ Close(p) \/ Return(p) \/ Fail(p)
       \/ Flush(p) \/ FlushBreaksOff(p) \/ LoseAnswer(p)
  \/ Crash

PrintSpec == PrintInit /\ [][PrintNext]_printVars
-----------------------------------------------------------------------------
(***************************************************************************)
(* Direct prints and jobs meet on a device, and the device may break off:  *)
(* still no receipt begins inside another one, or ends in another's        *)
(* footer.                                                                 *)
(***************************************************************************)
ReceiptsApart ==
  \A d \in Devices : \A i \in DOMAIN paper[d] :
    paper[d][i][2] = "footer" => i > 1 /\ paper[d][i - 1] = <<paper[d][i][1], "body">>

(***************************************************************************)
(* Whoever is told that printing failed may print again and has no receipt *)
(* twice: nothing has come out, and nothing will.  Otherwise a print comes *)
(* out once, and once more for each rerun after a crash.                   *)
(***************************************************************************)
Bodies(p) == UNION {{d} \X {i \in DOMAIN paper[d] : paper[d][i] = <<p, "body">>} : d \in Devices}
Copies(p) == Cardinality(Bodies(p)) + (IF handed[p] # <<>> THEN 1 ELSE 0)

ErrorLeavesNoPaper ==
  \A p \in Prints :
    Copies(p) <= IF answer[p] = "error" THEN 0 ELSE 1 + print[p].reruns
=============================================================================
