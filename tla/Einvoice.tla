------------------------------- MODULE Einvoice -------------------------------
(***************************************************************************)
(* The worker's two e-invoice queues.  A job of EINVOICE_SUBMIT sends an   *)
(* invoice to the provider, records the answer in a row and schedules the  *)
(* first job of EINVOICE_STATUS_POLL; each poll asks the provider again,   *)
(* updates the row and schedules the next.  Provider, database and queue   *)
(* are called one after the other, so the process can die between any two. *)
(*                                                                         *)
(* One worker process runs (docker-compose.yml), with BullMQ's default of  *)
(* one job at a time per queue, one attempt per job (a handler that throws *)
(* is not run again) and one rerun of a job whose worker died (a stalled   *)
(* job).  The provider is MockMyInvoisProvider, whatever is configured: it *)
(* lives in the worker's memory.                                           *)
(***************************************************************************)
EXTENDS Naturals

CONSTANTS
  Invoices,      \* the invoices somebody submits
  Subs,          \* submissions, named by the identifier the provider gives
  Jobs,          \* identities of jobs; one that has ended is used again
  NoSub,         \* the submission of a job that has made none
  MaxAttempts,   \* EINVOICE_MAX_ATTEMPTS: polls of one submission
  MaxStalls,     \* BullMQ's maxStalledCount: reruns of a stalled job
  MaxSubmits, MaxCrashes, MaxErrors   \* bounds: how often each may happen

ASSUME EinvoiceAssumption ==
  /\ NoSub \notin Subs
  /\ MaxAttempts \in Nat /\ MaxStalls \in Nat
  /\ MaxSubmits \in Nat /\ MaxCrashes \in Nat /\ MaxErrors \in Nat

VARIABLES
  present,   \* the invoices that have not been deleted
  row,       \* table einvoice_submissions
  remote,    \* what the provider knows of each submission
  late,      \* the rows whose timeoutAt has passed
  job,       \* the jobs of both queues: waiting, or where the worker is in them
  used       \* how many submits, crashes and errors there have been

vars == <<present, row, remote, late, job, used>>

Open     == {"PENDING", "SENT"}
Terminal == {"ACCEPTED", "REJECTED", "FAILED"}

NoRow   == [status |-> "NONE"]
GoneRow == [status |-> "GONE"]
Row     == [status : Open \cup Terminal, inv : Invoices]

RemoteStates == {"unused", "received", "processing", "invalid",
                 "accepted", "rejected", "forgotten"}

Free      == [pc |-> "free"]
SubmitJob == [queue : {"submit"}, inv : Invoices, sub : Subs \cup {NoSub},
              pc : {"waiting", "loaded", "submitted", "created", "returning"},
              answer : Open \cup Terminal, stalls : Nat]
PollJob   == [queue : {"poll"}, sub : Subs, attempt : Nat,
              pc : {"waiting", "checked", "overdue", "answered", "updated", "returning"},
              answer : Open \cup Terminal, stalls : Nat]

TypeOK ==
  /\ present \subseteq Invoices
  /\ row \in [Subs -> {NoRow, GoneRow} \cup Row]
  /\ remote \in [Subs -> RemoteStates]
  /\ late \subseteq Subs
  /\ job \in [Jobs -> {Free} \cup SubmitJob \cup PollJob]
  /\ used \in [submits : Nat, crashes : Nat, errors : Nat]

Init ==
  /\ present = Invoices
  /\ row = [x \in Subs |-> NoRow]
  /\ remote = [x \in Subs |-> "unused"]
  /\ late = {}
  /\ job = [j \in Jobs |-> Free]
  /\ used = [submits |-> 0, crashes |-> 0, errors |-> 0]

Recorded(x)      == row[x].status \in Open \cup Terminal
Active(j)        == job[j].pc \notin {"free", "waiting"}
ActiveIn(queue)  == {j \in Jobs : Active(j) /\ job[j].queue = queue}
At(j, queue, pc) == job[j].pc = pc /\ job[j].queue = queue

Finish(j)   == job' = [job EXCEPT ![j] = Free]
Goto(j, pc) == job' = [job EXCEPT ![j].pc = pc]

-----------------------------------------------------------------------------
(***************************************************************************)
(* Around the worker: somebody enqueues an invoice (no code of this        *)
(* repository does yet), an invoice is deleted and its rows with it, the   *)
(* deadline of a row passes.                                               *)
(***************************************************************************)
Enqueue(j, i) ==
  /\ used.submits < MaxSubmits
  /\ i \in present
  /\ job[j] = Free
  /\ job' = [job EXCEPT ![j] = [queue |-> "submit", inv |-> i, sub |-> NoSub, pc |-> "waiting",
                                answer |-> "PENDING", stalls |-> 0]]
  /\ used' = [used EXCEPT !.submits = @ + 1]
  /\ UNCHANGED <<present, row, remote, late>>

RemoveInvoice(i) ==
  /\ i \in present
  /\ present' = present \ {i}
  /\ row' = [x \in Subs |-> IF Recorded(x) /\ row[x].inv = i THEN GoneRow ELSE row[x]]
  /\ UNCHANGED <<remote, late, job, used>>

DeadlinePasses(x) ==
  /\ row[x].status \in Open
  /\ x \notin late
  /\ late' = late \cup {x}
  /\ UNCHANGED <<present, row, remote, job, used>>

-----------------------------------------------------------------------------
(***************************************************************************)
(* handleEinvoiceSubmit                                                    *)
(***************************************************************************)
(* The worker takes a job and reads the invoice; without it, it throws.    *)
TakeSubmit(j) ==
  /\ At(j, "submit", "waiting")
  /\ ActiveIn("submit") = {}
  /\ IF job[j].inv \in present THEN Goto(j, "loaded") ELSE Finish(j)
  /\ UNCHANGED <<present, row, remote, late, used>>

(* The provider refuses an invoice at once if it bills nothing.            *)
AskSubmit(j, x) ==
  /\ At(j, "submit", "loaded")
  /\ remote[x] = "unused"
  /\ \/ /\ remote' = [remote EXCEPT ![x] = "received"]
        /\ job' = [job EXCEPT ![j].pc = "submitted", ![j].sub = x, ![j].answer = "PENDING"]
     \/ /\ remote' = [remote EXCEPT ![x] = "invalid"]
        /\ job' = [job EXCEPT ![j].pc = "submitted", ![j].sub = x, ![j].answer = "REJECTED"]
  /\ UNCHANGED <<present, row, late, used>>

(* The row needs its invoice: the foreign key refuses it otherwise.        *)
CreateRow(j) ==
  /\ At(j, "submit", "submitted")
  /\ job[j].inv \in present
  /\ row' = [row EXCEPT ![job[j].sub] = [status |-> job[j].answer, inv |-> job[j].inv]]
  /\ Goto(j, IF job[j].answer \in Open THEN "created" ELSE "returning")
  /\ UNCHANGED <<present, remote, late, used>>

CreateRowFails(j) ==
  /\ At(j, "submit", "submitted")
  /\ job[j].inv \notin present
  /\ Finish(j)
  /\ UNCHANGED <<present, row, remote, late, used>>

-----------------------------------------------------------------------------
(***************************************************************************)
(* scheduleEinvoicePoll: the delayed job it adds, unless the attempts are  *)
(* used up, which it does not tell anybody.                                *)
(***************************************************************************)
NextAttempt(j) == IF job[j].queue = "submit" THEN 0 ELSE job[j].attempt + 1

Schedule(j, k) ==
  /\ job[j].pc \in {"created", "updated"}
  /\ IF NextAttempt(j) >= MaxAttempts
     THEN Goto(j, "returning")
     ELSE /\ job[k] = Free
          /\ job' = [job EXCEPT
               ![j].pc = "returning",
               ![k] = [queue |-> "poll", sub |-> job[j].sub, attempt |-> NextAttempt(j),
                       pc |-> "waiting", answer |-> "PENDING", stalls |-> 0]]
  /\ UNCHANGED <<present, row, remote, late, used>>

(* The handler has returned: BullMQ marks the job completed.               *)
Return(j) ==
  /\ job[j].pc = "returning"
  /\ Finish(j)
  /\ UNCHANGED <<present, row, remote, late, used>>

-----------------------------------------------------------------------------
(***************************************************************************)
(* handleEinvoiceStatusPoll.  The delay of a job has passed at any time.   *)
(***************************************************************************)
(* Fault: a submission that has ended is polled again.                     *)
TakePollAnyway(j) ==
  /\ At(j, "poll", "waiting")
  /\ ActiveIn("poll") = {}
  /\ LET x == job[j].sub IN
     \/ ~Recorded(x) /\ Goto(j, "returning")
     \/ Recorded(x) /\ x \in late /\ Goto(j, "overdue")
     \/ Recorded(x) /\ x \notin late /\ Goto(j, "checked")
  /\ UNCHANGED <<present, row, remote, late, used>>

TakePoll(j) ==
  /\ At(j, "poll", "waiting")
  /\ ActiveIn("poll") = {}
  /\ LET x == job[j].sub IN
     \/ row[x].status \notin Open /\ Goto(j, "returning")
     \/ row[x].status \in Open /\ x \in late /\ Goto(j, "overdue")
     \/ row[x].status \in Open /\ x \notin late /\ Goto(j, "checked")
  /\ UNCHANGED <<present, row, remote, late, used>>

TimeOut(j) ==
  /\ At(j, "poll", "overdue")
  /\ Recorded(job[j].sub)
  /\ row' = [row EXCEPT ![job[j].sub].status = "FAILED"]
  /\ Goto(j, "returning")
  /\ UNCHANGED <<present, remote, late, used>>

(* What the provider answers, and what it then knows: it accepts at the    *)
(* second poll, and does not know what it has ended or lost.               *)
AnswerTo == [received |-> "SENT", processing |-> "ACCEPTED", invalid |-> "REJECTED",
             accepted |-> "FAILED", rejected |-> "FAILED", forgotten |-> "FAILED"]
AfterPoll == [received |-> "processing", processing |-> "accepted", invalid |-> "rejected",
              accepted |-> "accepted", rejected |-> "rejected", forgotten |-> "forgotten"]

AskStatus(j) ==
  /\ At(j, "poll", "checked")
  /\ LET x == job[j].sub IN
     /\ remote[x] # "unused"
     /\ remote' = [remote EXCEPT ![x] = AfterPoll[@]]
     /\ job' = [job EXCEPT ![j].pc = "answered", ![j].answer = AnswerTo[remote[x]]]
  /\ UNCHANGED <<present, row, late, used>>

(* Fault: the limit is noticed one poll late.                              *)
PersistedOffByOne(j) ==
  IF job[j].answer \in Open /\ job[j].attempt + 1 > MaxAttempts THEN "FAILED" ELSE job[j].answer

(* Fault: the last poll gives up whatever its answer.                      *)
PersistedGivingUp(j) ==
  IF job[j].attempt + 1 >= MaxAttempts THEN "FAILED" ELSE job[j].answer

(* Fault: giving up assumes the best.                                      *)
PersistedHopeful(j) ==
  IF job[j].answer \in Open THEN "ACCEPTED" ELSE job[j].answer

Persisted(j) ==
  IF job[j].answer \in Open /\ job[j].attempt + 1 >= MaxAttempts THEN "FAILED" ELSE job[j].answer

(* Fault: the update creates the row if it is gone.                        *)
UpdateRowUpsert(j) ==
  /\ At(j, "poll", "answered")
  /\ row' = [row EXCEPT ![job[j].sub].status = Persisted(j)]
  /\ Goto(j, IF Persisted(j) \in Open THEN "updated" ELSE "returning")
  /\ UNCHANGED <<present, remote, late, used>>

(* Fault: only a submission still PENDING is polled again.                 *)
UpdateRowPendingOnly(j) ==
  /\ At(j, "poll", "answered")
  /\ Recorded(job[j].sub)
  /\ row' = [row EXCEPT ![job[j].sub].status = Persisted(j)]
  /\ Goto(j, IF Persisted(j) = "PENDING" THEN "updated" ELSE "returning")
  /\ UNCHANGED <<present, remote, late, used>>

UpdateRow(j) ==
  /\ At(j, "poll", "answered")
  /\ Recorded(job[j].sub)
  /\ row' = [row EXCEPT ![job[j].sub].status = Persisted(j)]
  /\ Goto(j, IF Persisted(j) \in Open THEN "updated" ELSE "returning")
  /\ UNCHANGED <<present, remote, late, used>>

(* The row has been deleted meanwhile: the UPDATE throws.                  *)
UpdateFails(j) ==
  /\ At(j, "poll", "overdue") \/ At(j, "poll", "answered")
  /\ ~Recorded(job[j].sub)
  /\ Finish(j)
  /\ UNCHANGED <<present, row, remote, late, used>>

-----------------------------------------------------------------------------
(***************************************************************************)
(* Faults.  A call to database, provider or queue fails: the handler       *)
(* throws and the job has failed for good.  The process dies (or is        *)
(* stopped: shutdown does not wait for jobs) and is restarted: what its    *)
(* provider knew is gone, and the jobs it was in run again from the start, *)
(* once.                                                                   *)
(***************************************************************************)
Error(j) ==
  /\ used.errors < MaxErrors
  /\ Active(j)
  /\ Finish(j)
  /\ used' = [used EXCEPT !.errors = @ + 1]
  /\ UNCHANGED <<present, row, remote, late>>

(* Fault: a stalled job is not run again.                                  *)
RerunNever(r) == Free

Rerun(r) ==
  IF r.stalls >= MaxStalls THEN Free ELSE [r EXCEPT !.pc = "waiting", !.stalls = @ + 1]

Crash ==
  /\ used.crashes < MaxCrashes
  /\ remote' = [x \in Subs |->
                  IF remote[x] \in {"received", "processing", "invalid"}
                  THEN "forgotten" ELSE remote[x]]
  /\ job' = [j \in Jobs |-> IF Active(j) THEN Rerun(job[j]) ELSE job[j]]
  /\ used' = [used EXCEPT !.crashes = @ + 1]
  /\ UNCHANGED <<present, row, late>>

-----------------------------------------------------------------------------
Step(j) ==
  \/ TakeSubmit(j) \/ (\E x \in Subs : AskSubmit(j, x)) \/ CreateRow(j) \/ CreateRowFails(j)
  \/ \E k \in Jobs : Schedule(j, k)
  \/ Return(j)
  \/ TakePoll(j) \/ TimeOut(j) \/ AskStatus(j) \/ UpdateRow(j) \/ UpdateFails(j)

Next ==
  \/ \E j \in Jobs, i \in Invoices : Enqueue(j, i)
  \/ \E i \in Invoices : RemoveInvoice(i)
  \/ \E x \in Subs : DeadlinePasses(x)
  \/ \E j \in Jobs : Step(j) \/ Error(j)
  \/ Crash

(* The worker goes on with what is in its queues: a delay ends, a call     *)
(* returns.  Nothing makes faults, deletions or deadlines happen.          *)
Spec     == Init /\ [][Next]_vars
FairSpec == Spec /\ \A j \in Jobs : WF_vars(Step(j))
-----------------------------------------------------------------------------
(***************************************************************************)
(* However jobs are repeated, lost or cut off, what a row says moves       *)
(* forward only and its terminal states are final, although a handler      *)
(* updates a row it read two calls earlier.                                *)
(***************************************************************************)
Filing == INSTANCE EinvoiceFiling WITH status <- [x \in Subs |-> row[x].status]

ImplementsFiling == Filing!Spec

(***************************************************************************)
(* No row claims an acceptance the provider has not given.                 *)
(***************************************************************************)
AcceptedIsFiled ==
  \A x \in Subs : row[x].status = "ACCEPTED" => remote[x] = "accepted"

(***************************************************************************)
(* Why the two hold: each queue has one job in the worker at a time, so    *)
(* what a handler has learnt of a submission is still so, but for the      *)
(* deletion of its row, when it acts on it.                                *)
(***************************************************************************)
OneJobPerQueue ==
  \A j, k \in Jobs : Active(j) /\ Active(k) /\ job[j].queue = job[k].queue => j = k

Knows(r) ==
  /\ r.queue = "submit" /\ r.pc \in {"submitted", "created"} => r.sub \in Subs
  /\ r.queue = "submit" /\ r.pc = "submitted" =>
       /\ row[r.sub] = NoRow /\ remote[r.sub] # "unused"
       /\ r.answer \in {"PENDING", "REJECTED"}
  /\ r.queue = "poll" /\ r.pc \in {"checked", "overdue", "answered"} =>
       row[r.sub].status \in Open \cup {"GONE"}
  /\ r.queue = "poll" /\ r.pc = "answered" =>
       /\ r.answer # "PENDING"
       /\ r.answer = "ACCEPTED" => remote[r.sub] = "accepted"

HandlersKnow ==
  /\ OneJobPerQueue
  /\ \A x \in Subs : remote[x] = "unused" => row[x] = NoRow
  /\ \A j \in Jobs : Active(j) => Knows(job[j])

EinvoiceInv == TypeOK /\ HandlersKnow /\ AcceptedIsFiled

(***************************************************************************)
(* As long as no process died and no call failed, an acceptance is on      *)
(* record, or on its way from the handler that got the answer.             *)
(***************************************************************************)
AcceptanceIsRecorded ==
  used.crashes = 0 /\ used.errors = 0 =>
    \A x \in Subs : remote[x] = "accepted" =>
      \/ row[x].status \in {"ACCEPTED", "GONE"}
      \/ \E j \in Jobs : At(j, "poll", "answered") /\ job[j].sub = x /\ job[j].answer = "ACCEPTED"

(***************************************************************************)
(* Nobody waits for a submission nobody works on: while an invoice has an  *)
(* open submission, a job that will decide one of its submissions is in a  *)
(* queue.  Crashes alone (one per rerun BullMQ allows) do not break this,  *)
(* although the submission the crash interrupted may stay open for ever;   *)
(* one failing call does.                                                  *)
(***************************************************************************)
Settled(i) == \E x \in Subs : row[x].status \in Terminal /\ row[x].inv = i

InvoicePursued ==
  used.errors = 0 /\ used.crashes <= MaxStalls /\ MaxAttempts > 0 =>
    \A x \in Subs : row[x].status \in Open =>
      \/ Settled(row[x].inv)
      \/ \E j \in Jobs :
           \/ job[j].pc # "free" /\ job[j].queue = "submit" /\ job[j].inv = row[x].inv
           \/ /\ job[j].pc # "free" /\ job[j].queue = "poll"
              /\ row[job[j].sub].status \in Open /\ row[job[j].sub].inv = row[x].inv

(***************************************************************************)
(* An invoice in the queue ends up with a decided submission, unless it is *)
(* deleted or a call fails, even when the worker is restarted meanwhile.   *)
(***************************************************************************)
InvoiceSettles ==
  \A i \in Invoices :
    (\E j \in Jobs : job[j].pc # "free" /\ job[j].queue = "submit" /\ job[j].inv = i)
      ~> (i \notin present \/ Settled(i) \/ used.errors > 0)

(***************************************************************************)
(* As long as no process dies and no call fails, every submission ends:    *)
(* accepted, rejected, given up after MaxAttempts polls, or timed out.     *)
(***************************************************************************)
SubmissionSettles ==
  \A x \in Subs :
    row[x].status \in Open ~> row[x].status \notin Open \/ used.crashes > 0 \/ used.errors > 0
=============================================================================
