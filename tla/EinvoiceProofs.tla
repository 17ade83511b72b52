---------------------------- MODULE EinvoiceProofs ----------------------------
(***************************************************************************)
(* Proofs about Einvoice, for any number of invoices, submissions and jobs,*)
(* any limits and any number of crashes and errors: what a row says of a   *)
(* submission moves forward only, no row claims an acceptance the provider *)
(* has not given, and somebody works on whatever an invoice waits for.     *)
(***************************************************************************)
EXTENDS Einvoice, TLAPS

JobRecord == {Free} \cup SubmitJob \cup PollJob

(* What the fields of a job are, and that a job in the worker stays one.   *)
LEMMA JobFields ==
  ASSUME NEW r \in JobRecord
  PROVE  /\ r.pc # "free" /\ r.queue = "submit" => r \in SubmitJob
         /\ r.pc # "free" /\ r.queue = "poll" => r \in PollJob
         /\ r.pc # "free" => r.queue \in {"submit", "poll"} /\ r # Free
         /\ Free \in JobRecord /\ Free.pc = "free"
BY DEF JobRecord, Free, SubmitJob, PollJob

LEMMA JobAdvances ==
  ASSUME NEW r \in SubmitJob \cup PollJob, NEW pc,
         \/ r \in SubmitJob /\ pc \in {"waiting", "loaded", "submitted", "created", "returning"}
         \/ /\ r \in PollJob
            /\ pc \in {"waiting", "checked", "overdue", "answered", "updated", "returning"}
  PROVE  LET n == [r EXCEPT !.pc = pc] IN
         /\ n \in JobRecord
         /\ n.pc = pc /\ n.queue = r.queue /\ n.sub = r.sub /\ n.answer = r.answer
BY DEF JobRecord, SubmitJob, PollJob

(* A row's record and its status.                                          *)
LEMMA RowFields ==
  ASSUME NEW r \in {NoRow, GoneRow} \cup Row
  PROVE  /\ r.status \in {"NONE", "GONE"} \cup Open \cup Terminal
         /\ r.status = "NONE" <=> r = NoRow
         /\ r.status \in Open \cup Terminal <=> r \in Row
         /\ r.status = "GONE" <=> r = GoneRow
BY DEF NoRow, GoneRow, Row, Open, Terminal

(***************************************************************************)
(* A step of one job, or of its identity, that leaves the tables and the   *)
(* provider alone.                                                         *)
(***************************************************************************)
LEMMA LocalStep ==
  ASSUME EinvoiceInv, NEW j \in Jobs, NEW r \in JobRecord,
         job' = [job EXCEPT ![j] = r],
         UNCHANGED <<present, row, remote, late>>,
         used' \in [submits : Nat, crashes : Nat, errors : Nat],
         r.pc \notin {"free", "waiting"} =>
           /\ Knows(r)
           /\ (Active(j) /\ job[j].queue = r.queue) \/ ActiveIn(r.queue) = {}
  PROVE  EinvoiceInv'
<1>1. TypeOK'
  BY DEF EinvoiceInv, TypeOK, JobRecord
<1>2. /\ job'[j] = r
      /\ \A k \in Jobs : k # j => job'[k] = job[k]
  BY DEF EinvoiceInv, TypeOK
<1>3. \A k \in Jobs : Active(k)' /\ k # j => Active(k) /\ Knows(job[k])
  BY <1>2 DEF EinvoiceInv, HandlersKnow, Active
<1>4. OneJobPerQueue'
  <2> SUFFICES ASSUME NEW k \in Jobs, NEW l \in Jobs, Active(k)', Active(l)',
                      job'[k].queue = job'[l].queue, k # l
               PROVE  FALSE
    BY DEF OneJobPerQueue
  <2>1. CASE k # j /\ l # j
    BY <2>1, <1>2, <1>3 DEF EinvoiceInv, HandlersKnow, OneJobPerQueue
  <2>2. ASSUME NEW o \in Jobs, o # j, Active(o)', Active(j)', job'[o].queue = job'[j].queue
        PROVE  FALSE
    <3>1. Active(o) /\ job[o].queue = r.queue /\ r.pc \notin {"free", "waiting"}
      BY <2>2, <1>2, <1>3 DEF Active
    <3>2. o \in ActiveIn(r.queue)
      BY <3>1 DEF ActiveIn
    <3> QED
      BY <2>2, <3>1, <3>2 DEF EinvoiceInv, HandlersKnow, OneJobPerQueue
  <2> QED
    BY <2>1, <2>2
<1>5. \A k \in Jobs : Active(k)' => Knows(job[k])' \/ k = j
  BY <1>2, <1>3 DEF Knows
<1>6. Active(j)' => Knows(job[j])'
  BY <1>2 DEF Active, Knows
<1> QED
  BY <1>1, <1>4, <1>5, <1>6 DEF EinvoiceInv, HandlersKnow, AcceptedIsFiled

-----------------------------------------------------------------------------
(***************************************************************************)
(* The steps of a job that touch nothing but the job.                      *)
(***************************************************************************)
LocalAction(j) ==
  \/ TakeSubmit(j) \/ CreateRowFails(j) \/ Return(j) \/ TakePoll(j) \/ UpdateFails(j) \/ Error(j)

LEMMA LocalActions ==
  ASSUME EinvoiceInv, NEW j \in Jobs, LocalAction(j)
  PROVE  EinvoiceInv'
<1> USE DEF At
<1>1. /\ job[j] \in JobRecord /\ job \in [Jobs -> JobRecord]
      /\ used \in [submits : Nat, crashes : Nat, errors : Nat]
  BY DEF EinvoiceInv, TypeOK, JobRecord
<1>2. Free \in JobRecord /\ Free.pc = "free"
  BY <1>1, JobFields
<1>3. ASSUME Finish(j), UNCHANGED <<present, row, remote, late>>,
             used' \in [submits : Nat, crashes : Nat, errors : Nat]
      PROVE  EinvoiceInv'
  BY <1>2, <1>3, LocalStep DEF Finish
<1>4. CASE CreateRowFails(j) \/ Return(j) \/ UpdateFails(j)
  BY <1>1, <1>3, <1>4 DEF CreateRowFails, Return, UpdateFails
<1>5. CASE Error(j)
  <2>1. used' \in [submits : Nat, crashes : Nat, errors : Nat]
    BY <1>1, <1>5 DEF Error
  <2> QED
    BY <2>1, <1>3, <1>5 DEF Error
<1>6. CASE TakeSubmit(j)
  <2>1. CASE job[j].inv \notin present
    BY <2>1, <1>1, <1>3, <1>6 DEF TakeSubmit
  <2>2. CASE job[j].inv \in present
    <3> DEFINE n == [job[j] EXCEPT !.pc = "loaded"]
    <3>1. job[j] \in SubmitJob
      BY <1>1, <1>6, JobFields DEF TakeSubmit
    <3>2. n \in JobRecord /\ n.pc = "loaded" /\ n.queue = "submit"
      BY <3>1, <1>6, JobAdvances DEF TakeSubmit
    <3>3. job' = [job EXCEPT ![j] = n] /\ ActiveIn("submit") = {}
      BY <2>2, <1>6 DEF TakeSubmit, Goto
    <3>4. Knows(n)
      BY <3>2 DEF Knows
    <3> HIDE DEF n
    <3> QED
      BY <3>2, <3>3, <3>4, <1>1, <1>6, LocalStep DEF TakeSubmit
  <2> QED
    BY <2>1, <2>2
<1>7. CASE TakePoll(j)
  <2>1. job[j] \in PollJob
    BY <1>1, <1>7, JobFields DEF TakePoll
  <2>2. PICK pc \in {"returning", "overdue", "checked"} :
          /\ Goto(j, pc)
          /\ pc # "returning" => row[job[j].sub].status \in Open
    BY <1>7 DEF TakePoll
  <2> DEFINE n == [job[j] EXCEPT !.pc = pc]
  <2>3. job' = [job EXCEPT ![j] = n] /\ ActiveIn("poll") = {}
    BY <2>2, <1>7 DEF TakePoll, Goto
  <2>4. n \in JobRecord /\ n.pc = pc /\ n.queue = "poll" /\ n.sub = job[j].sub
    BY <2>1, <2>2, <1>7, JobAdvances DEF TakePoll
  <2> HIDE DEF n
  <2>5. Knows(n)
    BY <2>2, <2>4 DEF Knows
  <2> QED
    BY <2>3, <2>4, <2>5, <1>1, <1>7, LocalStep DEF TakePoll
<1> QED
  BY <1>4, <1>5, <1>6, <1>7 DEF LocalAction

(***************************************************************************)
(* A new job takes an identity that is free.                               *)
(***************************************************************************)
LEMMA EnqueueStep ==
  ASSUME EinvoiceInv, NEW j \in Jobs, NEW i \in Invoices, Enqueue(j, i)
  PROVE  EinvoiceInv'
<1> DEFINE n == [queue |-> "submit", inv |-> i, sub |-> NoSub, pc |-> "waiting",
                 answer |-> "PENDING", stalls |-> 0]
<1>1. n \in JobRecord /\ n.pc = "waiting"
  BY DEF JobRecord, SubmitJob, Open
<1>2. job' = [job EXCEPT ![j] = n]
  BY DEF Enqueue
<1>3. used' \in [submits : Nat, crashes : Nat, errors : Nat]
  BY DEF Enqueue, EinvoiceInv, TypeOK
<1> HIDE DEF n
<1> QED
  BY <1>1, <1>2, <1>3, LocalStep DEF Enqueue

LEMMA ScheduleStep ==
  ASSUME EinvoiceInv, NEW j \in Jobs, NEW k \in Jobs, Schedule(j, k)
  PROVE  EinvoiceInv'
<1> DEFINE n == [job[j] EXCEPT !.pc = "returning"]
           p == [queue |-> "poll", sub |-> job[j].sub, attempt |-> NextAttempt(j),
                 pc |-> "waiting", answer |-> "PENDING", stalls |-> 0]
<1>1. /\ job[j] \in JobRecord /\ job \in [Jobs -> JobRecord]
      /\ used \in [submits : Nat, crashes : Nat, errors : Nat]
  BY DEF EinvoiceInv, TypeOK, JobRecord
<1>2. /\ job[j].pc \in {"created", "updated"} /\ Active(j)
      /\ UNCHANGED <<present, row, remote, late, used>>
  BY DEF Schedule, Active
<1>3. \/ job[j] \in SubmitJob /\ job[j].pc = "created" /\ job[j].queue = "submit"
      \/ job[j] \in PollJob
  BY <1>1, <1>2 DEF JobRecord, SubmitJob, PollJob, Free
<1>4. /\ n \in JobRecord /\ n.pc = "returning" /\ n.queue = job[j].queue
      /\ n.sub = job[j].sub /\ n.answer = job[j].answer
  BY <1>3, JobAdvances
<1>5. p \in JobRecord
  <2>1. job[j].sub \in Subs
    BY <1>2, <1>3 DEF EinvoiceInv, HandlersKnow, Knows, PollJob
  <2>2. NextAttempt(j) \in Nat
    BY <1>3 DEF NextAttempt, PollJob, SubmitJob
  <2> QED
    BY <2>1, <2>2 DEF JobRecord, PollJob, Open
<1>6. Knows(n)
  BY <1>4 DEF Knows
<1>7. CASE job' = [job EXCEPT ![j] = n]
  <2> HIDE DEF n, p
  <2> QED
    BY <1>1, <1>2, <1>4, <1>6, <1>7, LocalStep
<1>8. CASE job[k] = Free /\ job' = [job EXCEPT ![j] = n, ![k] = p]
  <2> p.pc = "waiting"
    OBVIOUS
  <2> HIDE DEF n, p
  <2>1. k # j /\ ~Active(k)
    BY <1>2, <1>8 DEF Active, Free
  <2>2. /\ job'[j] = n /\ job'[k] = p
        /\ \A l \in Jobs : l # j /\ l # k => job'[l] = job[l]
        /\ job' \in [Jobs -> JobRecord]
    BY <1>1, <1>4, <1>5, <1>8, <2>1
  <2>3. TypeOK'
    BY <2>2, <1>2 DEF EinvoiceInv, TypeOK, JobRecord
  <2>4. \A l \in Jobs : Active(l)' => Active(l) /\ job'[l].queue = job[l].queue
    BY <2>2, <1>2, <1>4 DEF Active
  <2>5. OneJobPerQueue'
    BY <2>4 DEF EinvoiceInv, HandlersKnow, OneJobPerQueue
  <2>6. \A l \in Jobs : Active(l)' => Knows(job'[l])
    BY <2>2, <2>4, <1>6 DEF EinvoiceInv, HandlersKnow, Active
  <2>7. \A l \in Jobs : Active(l)' => Knows(job[l])'
    BY <2>6, <1>2 DEF Knows
  <2> QED
    BY <2>3, <2>5, <2>7, <1>2 DEF EinvoiceInv, HandlersKnow, AcceptedIsFiled
<1> QED
  BY <1>7, <1>8 DEF Schedule, Goto
-----------------------------------------------------------------------------
(***************************************************************************)
(* A step of a job in the worker leaves the others where they are, and     *)
(* those in the worker are jobs of the other queue.                        *)
(***************************************************************************)
LEMMA OneJobSteps ==
  ASSUME EinvoiceInv, NEW j \in Jobs, NEW r \in JobRecord,
         Active(j), r.pc \notin {"free", "waiting"}, r.queue = job[j].queue,
         job' = [job EXCEPT ![j] = r]
  PROVE  /\ OneJobPerQueue'
         /\ job' \in [Jobs -> JobRecord]
         /\ job'[j] = r
         /\ \A k \in Jobs : Active(k)' /\ k # j =>
              /\ job'[k] = job[k] /\ Active(k) /\ Knows(job[k])
              /\ job[k] \in JobRecord /\ job[k].queue # job[j].queue
<1>1. job \in [Jobs -> JobRecord]
  BY DEF EinvoiceInv, TypeOK, JobRecord
<1>2. /\ job'[j] = r /\ job' \in [Jobs -> JobRecord]
      /\ \A k \in Jobs : k # j => job'[k] = job[k]
  BY <1>1
<1>3. \A k \in Jobs : Active(k)' => Active(k) /\ job'[k].queue = job[k].queue
  BY <1>2 DEF Active
<1> QED
  BY <1>1, <1>2, <1>3 DEF EinvoiceInv, HandlersKnow, OneJobPerQueue

LEMMA AskSubmitStep ==
  ASSUME EinvoiceInv, NEW j \in Jobs, NEW x \in Subs, AskSubmit(j, x)
  PROVE  EinvoiceInv' /\ UNCHANGED row
<1>1. /\ At(j, "submit", "loaded") /\ Active(j) /\ remote[x] = "unused" /\ row[x] = NoRow
      /\ UNCHANGED <<present, row, late, used>>
  BY DEF AskSubmit, At, Active, EinvoiceInv, HandlersKnow
<1>2. job[j] \in SubmitJob
  BY <1>1, JobFields DEF At, EinvoiceInv, TypeOK, JobRecord
<1>3. PICK answer \in {"PENDING", "REJECTED"}, known \in {"received", "invalid"} :
        /\ remote' = [remote EXCEPT ![x] = known]
        /\ job' = [job EXCEPT ![j].pc = "submitted", ![j].sub = x, ![j].answer = answer]
  BY DEF AskSubmit
<1> DEFINE n == [job[j] EXCEPT !.pc = "submitted", !.sub = x, !.answer = answer]
<1>4. job' = [job EXCEPT ![j] = n]
  BY <1>3
<1>5. /\ n \in JobRecord /\ n.pc = "submitted" /\ n.queue = "submit"
      /\ n.sub = x /\ n.answer = answer
  BY <1>2 DEF SubmitJob, JobRecord, Open, Terminal
<1>6. job[j].queue = "submit"
  BY <1>1 DEF At
<1> HIDE DEF n
<1>7. /\ OneJobPerQueue' /\ job' \in [Jobs -> JobRecord] /\ job'[j] = n
      /\ \A k \in Jobs : Active(k)' /\ k # j =>
           /\ job'[k] = job[k] /\ Active(k) /\ Knows(job[k])
           /\ job[k] \in JobRecord /\ job[k].queue # "submit"
  BY <1>1, <1>4, <1>5, <1>6, OneJobSteps
<1>8. /\ remote' \in [Subs -> RemoteStates] /\ remote'[x] = known
      /\ \A y \in Subs : y # x => remote'[y] = remote[y]
  BY <1>3 DEF EinvoiceInv, TypeOK, RemoteStates
<1>9. TypeOK'
  BY <1>1, <1>7, <1>8 DEF EinvoiceInv, TypeOK, JobRecord
<1>10. \A k \in Jobs : Active(k)' /\ k # j => Knows(job[k])'
  <2> SUFFICES ASSUME NEW k \in Jobs, Active(k)', k # j PROVE Knows(job[k])'
    OBVIOUS
  <2>1. /\ job'[k] = job[k] /\ Knows(job[k]) /\ job[k].queue # "submit" /\ job[k].pc # "free"
        /\ job[k] \in PollJob
    BY <1>7, JobFields DEF Active
  <2>2. job[k].sub \in Subs
    BY <2>1 DEF PollJob
  <2> QED
    BY <2>1, <2>2, <1>1, <1>8 DEF Knows
<1>11. Knows(job[j])'
  BY <1>1, <1>5, <1>7, <1>8 DEF Knows
<1>12. HandlersKnow'
  BY <1>1, <1>7, <1>8, <1>10, <1>11 DEF EinvoiceInv, HandlersKnow
<1>13. AcceptedIsFiled'
  BY <1>1, <1>8 DEF EinvoiceInv, AcceptedIsFiled, NoRow
<1> QED
  BY <1>1, <1>9, <1>12, <1>13 DEF EinvoiceInv

(***************************************************************************)
(* What a step does to the rows, as EinvoiceFiling sees it.                *)
(***************************************************************************)
FilingStep == [Filing!Next]_[x \in Subs |-> row[x].status]

LEMMA RowUpdate ==
  ASSUME EinvoiceInv, NEW x \in Subs, NEW r \in Row, row' = [row EXCEPT ![x] = r],
         \/ row[x] = NoRow
         \/ row[x].status \in Open /\ r.status \in Terminal \cup {"SENT"}
  PROVE  /\ row' \in [Subs -> {NoRow, GoneRow} \cup Row]
         /\ row'[x] = r
         /\ \A y \in Subs : y # x => row'[y] = row[y]
         /\ FilingStep
<1>1. /\ row \in [Subs -> {NoRow, GoneRow} \cup Row]
      /\ row' \in [Subs -> {NoRow, GoneRow} \cup Row] /\ row'[x] = r
      /\ \A y \in Subs : y # x => row'[y] = row[y]
  BY DEF EinvoiceInv, TypeOK
<1> DEFINE st == [y \in Subs |-> row[y].status]
<1>2. st' = [st EXCEPT ![x] = r.status]
  BY <1>1
<1>3. /\ r.status \in Open \cup Terminal /\ st[x] = row[x].status
      /\ row[x] = NoRow => row[x].status = "NONE"
  BY RowFields DEF Row, NoRow
<1>4. CASE row[x] = NoRow
  <2>1. Filing!Record(x)
    BY <1>2, <1>3, <1>4 DEF Filing!Record, Filing!Open, Filing!Terminal, Open, Terminal
  <2> QED
    BY <1>1, <2>1 DEF FilingStep, Filing!Next
<1>5. CASE row[x].status \in Open /\ r.status \in Terminal \cup {"SENT"}
  <2>1. Filing!Advance(x)
    BY <1>2, <1>3, <1>5 DEF Filing!Advance, Filing!Open, Filing!Terminal, Open, Terminal
  <2> QED
    BY <1>1, <2>1 DEF FilingStep, Filing!Next
<1> QED
  BY <1>1, <1>4, <1>5

LEMMA CreateRowStep ==
  ASSUME EinvoiceInv, NEW j \in Jobs, CreateRow(j)
  PROVE  EinvoiceInv' /\ FilingStep
<1> DEFINE x == job[j].sub
           answer == job[j].answer
           r == [status |-> answer, inv |-> job[j].inv]
<1>1. /\ At(j, "submit", "submitted") /\ Active(j) /\ job[j].inv \in present
      /\ row' = [row EXCEPT ![x] = r]
      /\ UNCHANGED <<present, remote, late, used>>
  BY DEF CreateRow, At, Active
<1>2. job[j] \in SubmitJob
  BY <1>1, JobFields DEF At, EinvoiceInv, TypeOK, JobRecord
<1>3. /\ x \in Subs /\ row[x] = NoRow /\ remote[x] # "unused"
      /\ answer \in {"PENDING", "REJECTED"} /\ job[j].queue = "submit"
  BY <1>1 DEF EinvoiceInv, HandlersKnow, Knows, At
<1>4. r \in Row /\ r.status = answer
  BY <1>1, <1>2, <1>3 DEF Row, Open, Terminal, SubmitJob
<1>5. PICK pc \in {"created", "returning"} : Goto(j, pc)
  BY DEF CreateRow
<1> DEFINE n == [job[j] EXCEPT !.pc = pc]
<1>6. job' = [job EXCEPT ![j] = n]
  BY <1>5 DEF Goto
<1>7. n \in JobRecord /\ n.pc = pc /\ n.queue = "submit" /\ n.sub = x
  BY <1>2, <1>3, JobAdvances
<1> HIDE DEF n, r, answer, x
<1>b. n.pc \notin {"free", "waiting"} /\ n.queue = job[j].queue
  BY <1>3, <1>7
<1>8. /\ OneJobPerQueue' /\ job' \in [Jobs -> JobRecord] /\ job'[j] = n
      /\ \A k \in Jobs : Active(k)' /\ k # j =>
           /\ job'[k] = job[k] /\ Active(k) /\ Knows(job[k])
           /\ job[k] \in JobRecord /\ job[k].queue # "submit"
  <2>1. n \in JobRecord /\ Active(j) /\ job[j].queue = "submit"
    BY <1>1, <1>3, <1>7
  <2> QED
    BY <2>1, <1>b, <1>6, OneJobSteps
<1>9. /\ row' \in [Subs -> {NoRow, GoneRow} \cup Row] /\ row'[x] = r /\ FilingStep
      /\ \A y \in Subs : y # x => row'[y] = row[y]
  BY <1>1, <1>3, <1>4, RowUpdate
<1>10. TypeOK'
  BY <1>1, <1>8, <1>9 DEF EinvoiceInv, TypeOK, JobRecord
<1>11. \A k \in Jobs : Active(k)' /\ k # j => Knows(job[k])'
  <2> SUFFICES ASSUME NEW k \in Jobs, Active(k)', k # j PROVE Knows(job[k])'
    OBVIOUS
  <2>1. /\ job'[k] = job[k] /\ Knows(job[k]) /\ job[k].queue # "submit" /\ job[k] \in PollJob
    BY <1>8, JobFields DEF Active
  <2>2. job[k].sub \in Subs /\ job[k].queue = "poll"
    BY <2>1 DEF PollJob
  <2>3. row[x].status = "NONE"
    BY <1>3 DEF NoRow
  <2> QED
    BY <2>1, <2>2, <2>3, <1>1, <1>9 DEF Knows, Open
<1>12. Knows(job[j])'
  BY <1>3, <1>5, <1>7, <1>8 DEF Knows
<1>13. HandlersKnow'
  BY <1>1, <1>3, <1>8, <1>9, <1>11, <1>12 DEF EinvoiceInv, HandlersKnow
<1>14. AcceptedIsFiled'
  BY <1>1, <1>3, <1>4, <1>9 DEF EinvoiceInv, AcceptedIsFiled
<1> QED
  BY <1>9, <1>10, <1>13, <1>14 DEF EinvoiceInv

(***************************************************************************)
(* TimeOut and UpdateRow: a poll writes the status of an open row.         *)
(***************************************************************************)
LEMMA PollWrites ==
  ASSUME EinvoiceInv, NEW j \in Jobs, NEW s \in Terminal \cup {"SENT"},
         At(j, "poll", "overdue") \/ At(j, "poll", "answered"),
         Recorded(job[j].sub),
         row' = [row EXCEPT ![job[j].sub].status = s],
         NEW pc \in {"updated", "returning"}, Goto(j, pc),
         UNCHANGED <<present, remote, late, used>>,
         s = "ACCEPTED" => remote[job[j].sub] = "accepted"
  PROVE  EinvoiceInv' /\ FilingStep
<1> DEFINE x == job[j].sub
           r == [row[x] EXCEPT !.status = s]
           n == [job[j] EXCEPT !.pc = pc]
<1>1. /\ Active(j) /\ job[j].queue = "poll" /\ job[j].pc \in {"overdue", "answered"}
  BY DEF At, Active
<1>2. job[j] \in PollJob
  BY <1>1, JobFields DEF EinvoiceInv, TypeOK, JobRecord
<1>3. x \in Subs
  BY <1>2 DEF PollJob
<1>4. row[x] \in Row /\ row[x].status \in Open /\ row[x] # NoRow
  <2>1. row[x].status \in Open \cup {"GONE"} /\ row[x].status \in Open \cup Terminal
    BY <1>1 DEF EinvoiceInv, HandlersKnow, Knows, Recorded
  <2>2. row[x] \in {NoRow, GoneRow} \cup Row
    BY <1>3 DEF EinvoiceInv, TypeOK
  <2>3. row[x].status # "GONE"
    BY <2>1 DEF Open, Terminal
  <2>4. row[x] # NoRow
    BY <2>1 DEF Open, Terminal, NoRow
  <2> HIDE DEF x
  <2> QED
    BY <2>1, <2>2, <2>3, <2>4, RowFields
<1>5. r \in Row /\ r.status = s
  BY <1>4 DEF Row, Open, Terminal
<1>6. job' = [job EXCEPT ![j] = n] /\ row' = [row EXCEPT ![x] = r]
  BY DEF Goto
<1>7. n \in JobRecord /\ n.pc = pc /\ n.queue = "poll" /\ n.sub = x
  BY <1>1, <1>2, JobAdvances
<1>a. s = "ACCEPTED" => remote[x] = "accepted"
  OBVIOUS
<1> HIDE DEF n, r, x
<1>8. /\ OneJobPerQueue' /\ job' \in [Jobs -> JobRecord] /\ job'[j] = n
      /\ \A k \in Jobs : Active(k)' /\ k # j =>
           /\ job'[k] = job[k] /\ Active(k) /\ Knows(job[k])
           /\ job[k] \in JobRecord /\ job[k].queue # "poll"
  BY <1>1, <1>6, <1>7, OneJobSteps
<1>9. /\ row' \in [Subs -> {NoRow, GoneRow} \cup Row] /\ row'[x] = r /\ FilingStep
      /\ \A y \in Subs : y # x => row'[y] = row[y]
  BY <1>3, <1>4, <1>5, <1>6, RowUpdate
<1>10. TypeOK'
  BY <1>8, <1>9 DEF EinvoiceInv, TypeOK, JobRecord
<1>11. \A k \in Jobs : Active(k)' /\ k # j => Knows(job[k])'
  <2> SUFFICES ASSUME NEW k \in Jobs, Active(k)', k # j PROVE Knows(job[k])'
    OBVIOUS
  <2>1. /\ job'[k] = job[k] /\ Knows(job[k]) /\ job[k].queue # "poll" /\ job[k] \in SubmitJob
    BY <1>8, JobFields DEF Active
  <2> QED
    BY <2>1, <1>4, <1>9 DEF Knows
<1>12. Knows(job[j])'
  BY <1>7, <1>8 DEF Knows
<1>13. \A y \in Subs : remote[y] = "unused" => row[y] = NoRow
  BY DEF EinvoiceInv, HandlersKnow
<1>14. HandlersKnow'
  BY <1>3, <1>4, <1>8, <1>9, <1>11, <1>12, <1>13 DEF HandlersKnow
<1>15. AcceptedIsFiled'
  BY <1>a, <1>5, <1>9 DEF EinvoiceInv, AcceptedIsFiled
<1> QED
  BY <1>9, <1>10, <1>14, <1>15 DEF EinvoiceInv

LEMMA TimeOutStep ==
  ASSUME EinvoiceInv, NEW j \in Jobs, TimeOut(j)
  PROVE  EinvoiceInv' /\ FilingStep
<1>1. "FAILED" \in Terminal \cup {"SENT"}
  BY DEF Terminal
<1> QED
  BY <1>1, PollWrites DEF TimeOut

LEMMA UpdateRowStep ==
  ASSUME EinvoiceInv, NEW j \in Jobs, UpdateRow(j)
  PROVE  EinvoiceInv' /\ FilingStep
<1> DEFINE s == Persisted(j)
<1>1. At(j, "poll", "answered") /\ Recorded(job[j].sub) /\ UNCHANGED <<present, remote, late, used>>
  BY DEF UpdateRow
<1>2. job[j] \in PollJob
  BY <1>1, JobFields DEF At, EinvoiceInv, TypeOK, JobRecord
<1>3. /\ job[j].answer # "PENDING"
      /\ job[j].answer = "ACCEPTED" => remote[job[j].sub] = "accepted"
  BY <1>1 DEF EinvoiceInv, HandlersKnow, Knows, At, Active
<1>4. s \in Terminal \cup {"SENT"} /\ (s = "ACCEPTED" => remote[job[j].sub] = "accepted")
  BY <1>2, <1>3 DEF Persisted, PollJob, Open, Terminal
<1>5. PICK pc \in {"updated", "returning"} : Goto(j, pc)
  BY DEF UpdateRow
<1>6. row' = [row EXCEPT ![job[j].sub].status = s]
  BY DEF UpdateRow
<1> HIDE DEF s
<1> QED
  BY <1>1, <1>4, <1>5, <1>6, PollWrites

LEMMA AskStatusStep ==
  ASSUME EinvoiceInv, NEW j \in Jobs, AskStatus(j)
  PROVE  EinvoiceInv' /\ UNCHANGED row
<1> DEFINE x == job[j].sub
           answer == AnswerTo[remote[x]]
           n == [job[j] EXCEPT !.pc = "answered", !.answer = answer]
<1>1. /\ At(j, "poll", "checked") /\ Active(j) /\ remote[x] # "unused" /\ job[j].queue = "poll"
      /\ remote' = [remote EXCEPT ![x] = AfterPoll[remote[x]]]
      /\ job' = [job EXCEPT ![j] = n]
      /\ UNCHANGED <<present, row, late, used>>
  BY DEF AskStatus, At, Active
<1>2. job[j] \in PollJob
  BY <1>1, JobFields DEF At, EinvoiceInv, TypeOK, JobRecord
<1>3. x \in Subs /\ remote[x] \in RemoteStates \ {"unused"}
  BY <1>1, <1>2 DEF PollJob, EinvoiceInv, TypeOK
<1>4. row[x].status \in Open \cup {"GONE"}
  BY <1>1 DEF EinvoiceInv, HandlersKnow, Knows, At
<1>5. /\ AfterPoll[remote[x]] \in RemoteStates \ {"unused"}
      /\ remote[x] = "accepted" => AfterPoll[remote[x]] = "accepted"
      /\ answer \in {"SENT", "ACCEPTED", "REJECTED", "FAILED"}
      /\ answer = "ACCEPTED" => AfterPoll[remote[x]] = "accepted"
  BY <1>3 DEF AfterPoll, AnswerTo, RemoteStates
<1> HIDE DEF answer
<1>6. /\ n \in JobRecord /\ n.pc = "answered" /\ n.queue = "poll" /\ n.sub = x
      /\ n.answer = answer
  BY <1>1, <1>2, <1>5 DEF PollJob, JobRecord, Open, Terminal
<1> HIDE DEF n, x
<1>7. /\ OneJobPerQueue' /\ job' \in [Jobs -> JobRecord] /\ job'[j] = n
      /\ \A k \in Jobs : Active(k)' /\ k # j =>
           /\ job'[k] = job[k] /\ Active(k) /\ Knows(job[k])
           /\ job[k] \in JobRecord /\ job[k].queue # "poll"
  BY <1>1, <1>6, OneJobSteps
<1>8. /\ remote' \in [Subs -> RemoteStates] /\ remote'[x] = AfterPoll[remote[x]]
      /\ \A y \in Subs : y # x => remote'[y] = remote[y]
  BY <1>1, <1>3, <1>5 DEF EinvoiceInv, TypeOK
<1>9. TypeOK'
  BY <1>1, <1>7, <1>8 DEF EinvoiceInv, TypeOK, JobRecord
<1>10. \A k \in Jobs : Active(k)' /\ k # j => Knows(job[k])'
  <2> SUFFICES ASSUME NEW k \in Jobs, Active(k)', k # j PROVE Knows(job[k])'
    OBVIOUS
  <2>1. /\ job'[k] = job[k] /\ Knows(job[k]) /\ job[k].queue = "submit" /\ job[k] \in SubmitJob
    BY <1>7, JobFields DEF Active
  <2> QED
    BY <2>1, <1>1, <1>3, <1>5, <1>8 DEF Knows
<1>11. Knows(job[j])'
  BY <1>1, <1>4, <1>5, <1>6, <1>7, <1>8 DEF Knows
<1>12. HandlersKnow'
  BY <1>1, <1>3, <1>5, <1>7, <1>8, <1>10, <1>11 DEF EinvoiceInv, HandlersKnow
<1>13. AcceptedIsFiled'
  BY <1>1, <1>3, <1>5, <1>8 DEF EinvoiceInv, AcceptedIsFiled
<1> QED
  BY <1>1, <1>9, <1>12, <1>13 DEF EinvoiceInv

-----------------------------------------------------------------------------
(***************************************************************************)
(* Deletions and crashes.                                                  *)
(***************************************************************************)
LEMMA RemoveInvoiceStep ==
  ASSUME EinvoiceInv, NEW i \in Invoices, RemoveInvoice(i)
  PROVE  EinvoiceInv' /\ FilingStep
<1>a. PICK D \in SUBSET Subs : D = {x \in Subs : Recorded(x) /\ row[x].inv = i}
  OBVIOUS
<1>1. UNCHANGED <<remote, late, job, used>> /\ present' \subseteq Invoices
  BY DEF RemoveInvoice, EinvoiceInv, TypeOK
<1>2. row' = [x \in Subs |-> IF x \in D THEN GoneRow ELSE row[x]]
  BY <1>a DEF RemoveInvoice
<1>3. \A x \in D : row[x].status \in Open \cup Terminal /\ row[x] # NoRow /\ row[x].status # "NONE"
  BY <1>a DEF Recorded, Open, Terminal, NoRow
<1>4. TypeOK'
  BY <1>1, <1>2 DEF EinvoiceInv, TypeOK
<1>5. \A j \in Jobs : job[j] \in JobRecord
  BY DEF EinvoiceInv, TypeOK, JobRecord
<1>6. OneJobPerQueue'
  BY <1>1 DEF EinvoiceInv, HandlersKnow, OneJobPerQueue, Active
<1>7. \A j \in Jobs : Active(j)' => Knows(job[j])'
  <2> SUFFICES ASSUME NEW j \in Jobs, Active(j)' PROVE Knows(job[j])'
    OBVIOUS
  <2>1. Active(j) /\ Knows(job[j]) /\ job'[j] = job[j] /\ job[j].pc # "free"
    BY <1>1 DEF EinvoiceInv, HandlersKnow, Active
  <2>2. CASE job[j].queue = "submit"
    <3>1. job[j].pc = "submitted" => job[j].sub \in Subs /\ job[j].sub \notin D
      BY <2>1, <2>2, <1>3 DEF Knows
    <3> QED
      BY <2>1, <2>2, <3>1, <1>1, <1>2 DEF Knows
  <2>3. CASE job[j].queue = "poll"
    <3>1. job[j].sub \in Subs
      BY <2>1, <2>3, <1>5, JobFields DEF PollJob
    <3> QED
      BY <2>1, <2>3, <3>1, <1>1, <1>2 DEF Knows, GoneRow
  <2> QED
    BY <2>1, <2>2, <2>3, <1>5, JobFields
<1>8. HandlersKnow'
  BY <1>1, <1>2, <1>3, <1>6, <1>7 DEF EinvoiceInv, HandlersKnow
<1>9. AcceptedIsFiled'
  BY <1>1, <1>2 DEF EinvoiceInv, AcceptedIsFiled, GoneRow
<1>10. Filing!Delete(D)
  <2>1. \A x \in Subs : [y \in Subs |-> row[y].status][x] = row[x].status
    OBVIOUS
  <2>2. [x \in Subs |-> row'[x].status]
          = [x \in Subs |-> IF x \in D THEN "GONE" ELSE [y \in Subs |-> row[y].status][x]]
    BY <1>2 DEF GoneRow
  <2> QED
    BY <2>1, <2>2, <1>3 DEF Filing!Delete
<1>11. FilingStep
  BY <1>10 DEF FilingStep, Filing!Next
<1> QED
  BY <1>4, <1>8, <1>9, <1>11 DEF EinvoiceInv

LEMMA DeadlineStep ==
  ASSUME EinvoiceInv, NEW x \in Subs, DeadlinePasses(x)
  PROVE  EinvoiceInv'
<1>1. UNCHANGED <<present, row, remote, job, used>> /\ late' \subseteq Subs
  BY DEF DeadlinePasses, EinvoiceInv, TypeOK
<1>2. TypeOK' /\ AcceptedIsFiled'
  BY <1>1 DEF EinvoiceInv, TypeOK, AcceptedIsFiled
<1>3. HandlersKnow'
  BY <1>1 DEF EinvoiceInv, HandlersKnow, OneJobPerQueue, Active, Knows
<1> QED
  BY <1>2, <1>3 DEF EinvoiceInv

LEMMA RerunGivesJob ==
  /\ \A r \in SubmitJob : Rerun(r) = Free \/ (Rerun(r) \in SubmitJob /\ Rerun(r).pc = "waiting")
  /\ \A r \in PollJob : Rerun(r) = Free \/ (Rerun(r) \in PollJob /\ Rerun(r).pc = "waiting")
<1>1. \A r \in SubmitJob \cup PollJob : r.stalls + 1 \in Nat
  BY DEF SubmitJob, PollJob
<1>2. ASSUME NEW r \in SubmitJob, NEW m \in Nat
      PROVE  /\ [r EXCEPT !.pc = "waiting", !.stalls = m] \in SubmitJob
             /\ [r EXCEPT !.pc = "waiting", !.stalls = m].pc = "waiting"
  BY DEF SubmitJob
<1>3. ASSUME NEW r \in PollJob, NEW m \in Nat
      PROVE  /\ [r EXCEPT !.pc = "waiting", !.stalls = m] \in PollJob
             /\ [r EXCEPT !.pc = "waiting", !.stalls = m].pc = "waiting"
  BY DEF PollJob
<1> QED
  BY <1>1, <1>2, <1>3, Zenon DEF Rerun

LEMMA CrashStep ==
  ASSUME EinvoiceInv, Crash
  PROVE  EinvoiceInv' /\ UNCHANGED row
<1>1. /\ UNCHANGED <<present, row, late>>
      /\ used' \in [submits : Nat, crashes : Nat, errors : Nat]
  BY DEF Crash, EinvoiceInv, TypeOK
<1>2. \A r \in JobRecord : r.pc # "free" =>
        Rerun(r) \in JobRecord /\ Rerun(r).pc \in {"free", "waiting"}
  <2> SUFFICES ASSUME NEW r \in JobRecord, r.pc # "free"
               PROVE  Rerun(r) \in JobRecord /\ Rerun(r).pc \in {"free", "waiting"}
    OBVIOUS
  <2> QED
    BY RerunGivesJob DEF JobRecord, Free
<1>3. job \in [Jobs -> JobRecord]
  BY DEF EinvoiceInv, TypeOK, JobRecord
<1>4. job' \in [Jobs -> JobRecord] /\ \A j \in Jobs : ~Active(j)'
  BY <1>2, <1>3 DEF Crash, Active
<1>5. /\ remote' \in [Subs -> RemoteStates]
      /\ \A x \in Subs : /\ remote'[x] = "unused" => remote[x] = "unused"
                         /\ remote[x] = "accepted" => remote'[x] = "accepted"
  BY DEF Crash, EinvoiceInv, TypeOK, RemoteStates
<1>6. TypeOK'
  BY <1>1, <1>4, <1>5 DEF EinvoiceInv, TypeOK, JobRecord
<1>7. HandlersKnow'
  BY <1>1, <1>4, <1>5 DEF EinvoiceInv, HandlersKnow, OneJobPerQueue
<1>8. AcceptedIsFiled'
  BY <1>1, <1>5 DEF EinvoiceInv, AcceptedIsFiled
<1> QED
  BY <1>1, <1>6, <1>7, <1>8 DEF EinvoiceInv

-----------------------------------------------------------------------------
LEMMA InitHolds == Init => EinvoiceInv /\ Filing!Init
<1> SUFFICES ASSUME Init PROVE EinvoiceInv /\ Filing!Init
  OBVIOUS
<1>1. \A j \in Jobs : ~Active(j)
  BY DEF Init, Active, Free
<1>2. TypeOK
  BY DEF Init, TypeOK, RemoteStates
<1>3. HandlersKnow /\ AcceptedIsFiled
  BY <1>1 DEF Init, HandlersKnow, OneJobPerQueue, AcceptedIsFiled, NoRow
<1>4. Filing!Init
  BY DEF Init, Filing!Init, NoRow
<1> QED
  BY <1>2, <1>3, <1>4 DEF EinvoiceInv

LEMMA NextStep ==
  ASSUME EinvoiceInv, [Next]_vars
  PROVE  EinvoiceInv' /\ FilingStep
<1>1. ASSUME UNCHANGED row PROVE FilingStep
  BY <1>1 DEF FilingStep
<1>2. CASE UNCHANGED vars
  <2>1. TypeOK' /\ AcceptedIsFiled'
    BY <1>2 DEF vars, EinvoiceInv, TypeOK, AcceptedIsFiled
  <2>2. HandlersKnow'
    BY <1>2 DEF vars, EinvoiceInv, HandlersKnow, OneJobPerQueue, Active, Knows
  <2> QED
    BY <2>1, <2>2, <1>1, <1>2 DEF vars, EinvoiceInv
<1>3. ASSUME NEW j \in Jobs, NEW i \in Invoices, Enqueue(j, i) PROVE EinvoiceInv' /\ FilingStep
  BY <1>1, <1>3, EnqueueStep DEF Enqueue
<1>4. ASSUME NEW i \in Invoices, RemoveInvoice(i) PROVE EinvoiceInv' /\ FilingStep
  BY <1>4, RemoveInvoiceStep
<1>5. ASSUME NEW x \in Subs, DeadlinePasses(x) PROVE EinvoiceInv' /\ FilingStep
  BY <1>1, <1>5, DeadlineStep DEF DeadlinePasses
<1>6. ASSUME NEW j \in Jobs, LocalAction(j) PROVE EinvoiceInv' /\ FilingStep
  <2>1. UNCHANGED row
    BY <1>6 DEF LocalAction, TakeSubmit, CreateRowFails, Return, TakePoll, UpdateFails, Error
  <2> QED
    BY <2>1, <1>1, <1>6, LocalActions
<1>7. ASSUME NEW j \in Jobs, NEW k \in Jobs, Schedule(j, k) PROVE EinvoiceInv' /\ FilingStep
  BY <1>1, <1>7, ScheduleStep DEF Schedule
<1>8. ASSUME NEW j \in Jobs, NEW x \in Subs, AskSubmit(j, x) PROVE EinvoiceInv' /\ FilingStep
  BY <1>1, <1>8, AskSubmitStep
<1>9. ASSUME NEW j \in Jobs, CreateRow(j) \/ TimeOut(j) \/ UpdateRow(j)
      PROVE  EinvoiceInv' /\ FilingStep
  BY <1>9, CreateRowStep, TimeOutStep, UpdateRowStep
<1>10. ASSUME NEW j \in Jobs, AskStatus(j) PROVE EinvoiceInv' /\ FilingStep
  BY <1>1, <1>10, AskStatusStep
<1>11. CASE Crash
  BY <1>1, <1>11, CrashStep
<1> QED
  BY <1>2, <1>3, <1>4, <1>5, <1>6, <1>7, <1>8, <1>9, <1>10, <1>11
  DEF Next, Step, LocalAction

LEMMA EinvoiceInvariant == Spec => []EinvoiceInv
<1>1. EinvoiceInv /\ [Next]_vars => EinvoiceInv'
  BY NextStep
<1> QED
  BY <1>1, InitHolds, PTL DEF Spec

(***************************************************************************)
(* In every reachable state no row claims an acceptance the provider has   *)
(* not given, and what a handler has learnt still holds when it acts.      *)
(***************************************************************************)
THEOREM EinvoiceSafety == Spec => [](AcceptedIsFiled /\ HandlersKnow)
<1>1. EinvoiceInv => AcceptedIsFiled /\ HandlersKnow
  BY DEF EinvoiceInv
<1> QED
  BY <1>1, EinvoiceInvariant, PTL

(***************************************************************************)
(* The worker implements EinvoiceFiling: whatever crashes, errors, reruns  *)
(* and deletions do, a row's status moves forward only and is final once   *)
(* it is ACCEPTED, REJECTED or FAILED.                                     *)
(***************************************************************************)
THEOREM EinvoiceRefinement == Spec => ImplementsFiling
<1>1. EinvoiceInv /\ [Next]_vars => EinvoiceInv'
  BY NextStep
<1>2. EinvoiceInv /\ [Next]_vars => [Filing!Next]_[x \in Subs |-> row[x].status]
  BY NextStep DEF FilingStep
<1> QED
  BY <1>1, <1>2, InitHolds, PTL DEF Spec, ImplementsFiling, Filing!Spec

-----------------------------------------------------------------------------
(***************************************************************************)
(* An acceptance is on record, or the handler that was told of it has it.  *)
(***************************************************************************)
Holds(k, x) == At(k, "poll", "answered") /\ job[k].sub = x /\ job[k].answer = "ACCEPTED"

OnRecord(x) == row[x].status \in {"ACCEPTED", "GONE"} \/ \E k \in Jobs : Holds(k, x)

LEMMA RecordsStay ==
  ASSUME FilingStep, NEW x \in Subs, row[x].status \in {"ACCEPTED", "GONE"}
  PROVE  row'[x].status \in {"ACCEPTED", "GONE"}
<1> DEFINE s == [y \in Subs |-> row[y].status]
<1>1. s[x] = row[x].status /\ s'[x] = row'[x].status
  OBVIOUS
<1>2. Filing!Next \/ s' = s
  BY DEF FilingStep
<1>3. CASE s' = s
  BY <1>1, <1>3
<1>4. CASE Filing!Next
  <2>1. s[x] \notin {"NONE", "PENDING", "SENT"}
    BY <1>1
  <2> HIDE DEF s
  <2>2. ASSUME NEW y \in Subs, NEW v, s[y] \in {"NONE", "PENDING", "SENT"}, s' = [s EXCEPT ![y] = v]
        PROVE  s'[x] = s[x]
    BY <2>1, <2>2 DEF s
  <2>3. ASSUME NEW y \in Subs, Filing!Record(y) \/ Filing!Advance(y) PROVE s'[x] = s[x]
    BY <2>2, <2>3 DEF Filing!Record, Filing!Advance, Filing!Open, s
  <2>4. ASSUME NEW D \in SUBSET Subs, Filing!Delete(D) PROVE s'[x] \in {s[x], "GONE"}
    BY <2>4 DEF Filing!Delete, s
  <2> QED BY <1>1, <1>4, <2>3, <2>4 DEF Filing!Next
<1> QED BY <1>2, <1>3, <1>4

(* No step of anybody else takes the answer away, and no fault happens.    *)
LEMMA AnswerStays ==
  ASSUME EinvoiceInv, [Next]_vars, NEW k \in Jobs, NEW x \in Subs, Holds(k, x),
         used'.crashes = 0, used'.errors = 0
  PROVE  OnRecord(x)'
<1>1. /\ job[k] # Free /\ job[k].pc = "answered" /\ job[k].queue = "poll" /\ Active(k)
      /\ job[k].sub = x /\ job[k].answer = "ACCEPTED" /\ row[x].status \in Open \cup {"GONE"}
  BY DEF Holds, At, Free, Active, EinvoiceInv, HandlersKnow, Knows
<1>2. /\ job \in [Jobs -> JobRecord] /\ used \in [submits : Nat, crashes : Nat, errors : Nat]
      /\ row \in [Subs -> {NoRow, GoneRow} \cup Row]
  BY DEF EinvoiceInv, TypeOK, JobRecord
<1>3. ~Crash /\ \A j \in Jobs : ~Error(j)
  BY <1>2 DEF Crash, Error
<1>4. CASE job'[k] = job[k]
  BY <1>1, <1>4 DEF OnRecord, Holds, At
<1>5. CASE UpdateRow(k)
  <2>1. row' = [row EXCEPT ![x].status = "ACCEPTED"]
    BY <1>1, <1>5 DEF UpdateRow, Persisted, Open
  <2>2. row[x] \in Row
    BY <1>1, <1>2, <1>5, RowFields DEF UpdateRow, Recorded
  <2>3. row'[x].status = "ACCEPTED"
    BY <1>2, <2>1, <2>2 DEF Row
  <2> QED BY <2>3 DEF OnRecord
<1>6. CASE UpdateFails(k)
  BY <1>1, <1>6 DEF UpdateFails, Recorded, OnRecord
<1>7. ASSUME NEW j \in Jobs, Step(j), job'[k] # job[k] PROVE UpdateRow(k) \/ UpdateFails(k)
  <2>1. ASSUME NEW i \in Jobs, Schedule(j, i) PROVE FALSE
    BY <1>1, <1>2, <1>7, <2>1 DEF Schedule, Goto
  <2>2. j = k
    BY <1>2, <1>7, <2>1 DEF Step, TakeSubmit, AskSubmit, CreateRow, CreateRowFails, Return,
                            TakePoll, TimeOut, AskStatus, UpdateRow, UpdateFails, Goto, Finish
  <2> QED
    BY <1>1, <1>7, <2>1, <2>2 DEF Step, TakeSubmit, AskSubmit, CreateRow, CreateRowFails, Return,
                                  TakePoll, TimeOut, AskStatus, At
<1>8. ASSUME NEW j \in Jobs, NEW i \in Invoices, Enqueue(j, i) PROVE job'[k] = job[k]
  BY <1>1, <1>2, <1>8 DEF Enqueue
<1>9. CASE UNCHANGED job
  BY <1>4, <1>9
<1> QED
  BY <1>3, <1>4, <1>5, <1>6, <1>7, <1>8, <1>9 DEF Next, vars, RemoveInvoice, DeadlinePasses

(***************************************************************************)
(* As long as no process died and no call failed: what the provider has    *)
(* accepted is on record, unless its invoice was deleted, or the handler   *)
(* that was told is about to record it, however many submissions and polls *)
(* there are and whatever is deleted meanwhile.                            *)
(***************************************************************************)
THEOREM AcceptancesRecorded == Spec => []AcceptanceIsRecorded
<1> DEFINE Inv == EinvoiceInv /\ AcceptanceIsRecorded
<1>1. Init => Inv
  BY InitHolds DEF Init, AcceptanceIsRecorded
<1>2. ASSUME Inv, [Next]_vars PROVE Inv'
  <2>1. EinvoiceInv' /\ FilingStep
    BY <1>2, NextStep
  <2>2. ASSUME used'.crashes = 0, used'.errors = 0, NEW x \in Subs, remote'[x] = "accepted"
        PROVE  OnRecord(x)'
    <3>1. used \in [submits : Nat, crashes : Nat, errors : Nat]
          /\ remote \in [Subs -> RemoteStates] /\ job \in [Jobs -> JobRecord]
      BY <1>2 DEF EinvoiceInv, TypeOK, JobRecord
    <3>2. used.crashes = 0 /\ used.errors = 0 /\ ~Crash
      <4>1. ASSUME NEW j \in Jobs, Step(j) PROVE UNCHANGED used
        BY <4>1 DEF Step, TakeSubmit, AskSubmit, CreateRow, CreateRowFails, Schedule, Return,
                    TakePoll, TimeOut, AskStatus, UpdateRow, UpdateFails
      <4>2. ASSUME NEW j \in Jobs, Error(j) PROVE FALSE
        BY <2>2, <3>1, <4>2 DEF Error
      <4>3. ~Crash
        BY <2>2, <3>1 DEF Crash
      <4>4. ASSUME NEW j \in Jobs, NEW i \in Invoices, Enqueue(j, i)
            PROVE  used.crashes = 0 /\ used.errors = 0
        BY <2>2, <3>1, <4>4 DEF Enqueue
      <4> QED
        BY <1>2, <2>2, <4>1, <4>2, <4>3, <4>4 DEF Next, vars, RemoveInvoice, DeadlinePasses
    <3>3. CASE remote[x] = "accepted"
      <4>1. OnRecord(x)
        BY <1>2, <3>2, <3>3 DEF AcceptanceIsRecorded, OnRecord, Holds
      <4>2. CASE row[x].status \in {"ACCEPTED", "GONE"}
        BY <2>1, <4>2, RecordsStay DEF OnRecord
      <4>3. ASSUME NEW k \in Jobs, Holds(k, x) PROVE OnRecord(x)'
        BY <1>2, <2>2, <4>3, AnswerStays
      <4> QED BY <4>1, <4>2, <4>3 DEF OnRecord
    <3>4. CASE remote[x] # "accepted"
      <4>1. PICK j \in Jobs : AskStatus(j)
        <5>1. ASSUME NEW j \in Jobs, NEW y \in Subs, AskSubmit(j, y) PROVE FALSE
          BY <2>2, <3>1, <3>4, <5>1 DEF AskSubmit
        <5> QED
          BY <1>2, <2>2, <3>2, <3>4, <5>1 DEF Next, vars, Enqueue, RemoveInvoice, DeadlinePasses,
               Step, Error, TakeSubmit, CreateRow, CreateRowFails, Schedule, Return, TakePoll,
               TimeOut, UpdateRow, UpdateFails
      <4>2. /\ At(j, "poll", "checked") /\ remote[job[j].sub] # "unused"
            /\ remote' = [remote EXCEPT ![job[j].sub] = AfterPoll[@]]
            /\ job' = [job EXCEPT ![j].pc = "answered", ![j].answer = AnswerTo[remote[job[j].sub]]]
        BY <4>1 DEF AskStatus
      <4>3. job[j] \in PollJob /\ job[j].sub \in Subs
        BY <3>1, <4>2, JobFields DEF At, PollJob
      <4>4. job[j].sub = x /\ AfterPoll[remote[x]] = "accepted"
        BY <2>2, <3>1, <3>4, <4>2, <4>3
      <4>5. AnswerTo[remote[x]] = "ACCEPTED"
        BY <3>1, <3>4, <4>2, <4>4 DEF RemoteStates, AfterPoll, AnswerTo
      <4>6. job'[j] = [job[j] EXCEPT !.pc = "answered", !.answer = "ACCEPTED"]
        BY <3>1, <4>2, <4>4, <4>5
      <4>7. /\ job'[j].pc = "answered" /\ job'[j].answer = "ACCEPTED"
            /\ job'[j].queue = "poll" /\ job'[j].sub = x
        <5> PICK n \in PollJob : n = job[j]
          BY <4>3
        <5>1. n.queue = "poll" /\ n.sub = x
          BY <4>4 DEF PollJob
        <5>2. job'[j] = [n EXCEPT !.pc = "answered", !.answer = "ACCEPTED"]
          BY <4>6
        <5> QED BY <5>1, <5>2 DEF PollJob
      <4> QED BY <4>7 DEF OnRecord, Holds, At
    <3> QED BY <3>3, <3>4
  <2> QED BY <2>1, <2>2 DEF AcceptanceIsRecorded, OnRecord, Holds
<1>3. Inv => AcceptanceIsRecorded
  OBVIOUS
<1> HIDE DEF Inv
<1> QED BY <1>1, <1>2, <1>3, PTL DEF Spec

-----------------------------------------------------------------------------
(***************************************************************************)
(* An invoice waits while it has an open submission; a job that has not    *)
(* done its work pursues the invoice it submits, or that of the open       *)
(* submission it polls.                                                    *)
(***************************************************************************)
Waits(i) == \E x \in Subs : row[x].status \in Open /\ row[x].inv = i

Pursues(rows, r, i) ==
  /\ r.pc \notin {"free", "returning"}
  /\ \/ r.queue = "submit" /\ r.inv = i
     \/ r.queue = "poll" /\ rows[r.sub].status \in Open /\ rows[r.sub].inv = i

Pursued(i) == Settled(i) \/ \E j \in Jobs : Pursues(row, job[j], i)

Calm == used.errors = 0 /\ used.crashes <= MaxStalls /\ MaxAttempts > 0

(* What a job about to schedule a poll knows of its row and its attempts.  *)
AtItsRow(r) ==
  /\ r.queue = "submit" /\ r.pc = "created" /\ r.inv \in present =>
       Recorded(r.sub) /\ row[r.sub].inv = r.inv
  /\ r.queue = "poll" /\ r.pc = "updated" => r.attempt + 1 < MaxAttempts

PursuitInv ==
  /\ \A x \in Subs : Recorded(x) => row[x].inv \in present
  /\ \A j \in Jobs : job[j].pc # "free" => job[j].stalls <= used.crashes /\ AtItsRow(job[j])
  /\ Calm => \A i : Waits(i) => Pursued(i)

LEMMA JobsAndRows ==
  ASSUME EinvoiceInv
  PROVE  /\ job \in [Jobs -> JobRecord] /\ row \in [Subs -> {NoRow, GoneRow} \cup Row]
         /\ used \in [submits : Nat, crashes : Nat, errors : Nat]
         /\ \A x \in Subs : (Recorded(x) <=> row[x] \in Row)
                            /\ (row[x].status \in Open \cup Terminal <=> Recorded(x))
                            /\ row[x].status \notin Open \cap Terminal
         /\ \A r \in JobRecord : /\ r.queue = "poll" /\ r.pc # "free" => r \in PollJob
                                 /\ r.queue = "submit" /\ r.pc # "free" => r \in SubmitJob
<1>1. job \in [Jobs -> JobRecord] /\ row \in [Subs -> {NoRow, GoneRow} \cup Row]
  BY DEF EinvoiceInv, TypeOK, JobRecord
<1>2. used \in [submits : Nat, crashes : Nat, errors : Nat]
  BY DEF EinvoiceInv, TypeOK
<1>3. \A x \in Subs : (Recorded(x) <=> row[x] \in Row)
                      /\ (row[x].status \in Open \cup Terminal <=> Recorded(x))
                      /\ row[x].status \notin Open \cap Terminal
  <2> SUFFICES ASSUME NEW x \in Subs
               PROVE  /\ Recorded(x) <=> row[x] \in Row
                      /\ row[x].status \in Open \cup Terminal <=> Recorded(x)
                      /\ row[x].status \notin Open \cap Terminal
    OBVIOUS
  <2>1. row[x] \in {NoRow, GoneRow} \cup Row
    BY <1>1
  <2> QED BY <2>1, RowFields DEF Recorded, Open, Terminal
<1> QED BY <1>1, <1>2, <1>3, JobFields

(* A step of one job that leaves the rows alone and gives nothing up.      *)
LEMMA JobGoesOn ==
  ASSUME EinvoiceInv, PursuitInv, NEW j \in Jobs, NEW r \in JobRecord,
         job' = [job EXCEPT ![j] = r], UNCHANGED <<present, row>>,
         used'.crashes = used.crashes,
         r.pc # "free" => r.stalls <= used.crashes /\ AtItsRow(r),
         Calm' => Calm /\ \A i \in present : Pursues(row, job[j], i) => Pursues(row, r, i)
  PROVE  PursuitInv'
<1>1. job'[j] = r /\ \A k \in Jobs : k # j => job'[k] = job[k]
  BY JobsAndRows
<1>2. \A k \in Jobs : job'[k].pc # "free" => job'[k].stalls <= used.crashes /\ AtItsRow(job'[k])
  BY <1>1 DEF PursuitInv
<1>3. ASSUME Calm', NEW i, Waits(i)' PROVE Pursued(i)'
  <2>1. Calm /\ Waits(i)
    BY <1>3 DEF Waits
  <2>2. i \in present /\ Pursued(i)
    BY <2>1 DEF PursuitInv, Waits, Recorded
  <2>3. Settled(i) => Settled(i)'
    BY DEF Settled
  <2>4. ASSUME NEW k \in Jobs, Pursues(row, job[k], i) PROVE \E l \in Jobs : Pursues(row', job'[l], i)
    <3>1. Pursues(row, job'[k], i)
      BY <1>1, <1>3, <2>2, <2>4
    <3> QED BY <3>1
  <2> QED BY <2>2, <2>3, <2>4 DEF Pursued
<1>4. \A x \in Subs : Recorded(x)' => row'[x].inv \in present'
  BY DEF PursuitInv, Recorded
<1>5. \A k \in Jobs : job'[k].pc # "free" => job'[k].stalls <= used'.crashes /\ AtItsRow(job[k])'
  BY <1>2 DEF AtItsRow, Recorded
<1> QED BY <1>3, <1>4, <1>5 DEF PursuitInv

(* A step of one job that writes the row x. *)
LEMMA RowGoesOn ==
  ASSUME EinvoiceInv, PursuitInv, NEW j \in Jobs, NEW r \in JobRecord,
         job' = [job EXCEPT ![j] = r], UNCHANGED <<present, used>>,
         NEW x \in Subs, NEW q \in Row, row' = [row EXCEPT ![x] = q], q.inv \in present,
         row[x] # NoRow => row[x].status \in Open /\ row[x].inv = q.inv,
         r.pc # "free" => r.stalls <= used.crashes,
         r.queue = "submit" /\ r.pc = "created" => r.sub = x /\ r.inv = q.inv,
         r.queue = "poll" /\ r.pc = "updated" => r.attempt + 1 < MaxAttempts,
         \A i : Pursues(row, job[j], i) => q.inv = i,
         q.status \in Open => Pursues(row', r, q.inv)
  PROVE  PursuitInv'
<1>1. /\ job'[j] = r /\ \A k \in Jobs : k # j => job'[k] = job[k]
      /\ row'[x] = q /\ \A y \in Subs : y # x => row'[y] = row[y]
      /\ q.status \in Open \cup Terminal
      /\ row[x].status \notin Terminal
  <2>1. row[x].status \notin Terminal
    BY JobsAndRows DEF NoRow, Open, Terminal
  <2> QED BY <2>1, JobsAndRows DEF Row
<1>2. \A y \in Subs : Recorded(y)' => row'[y].inv \in present'
  BY <1>1 DEF PursuitInv, Recorded
<1>3. ASSUME NEW k \in Jobs, job'[k].pc # "free" PROVE job'[k].stalls <= used'.crashes /\ AtItsRow(job[k])'
  <2>1. CASE k = j
    BY <1>1, <1>3, <2>1 DEF AtItsRow, Recorded
  <2>2. CASE k # j
    <3>1. job'[k] = job[k] /\ job[k].stalls <= used.crashes /\ AtItsRow(job[k])
      BY <1>1, <1>3, <2>2 DEF PursuitInv
    <3>2. job[k].queue = "submit" /\ job[k].pc = "created" => job[k].sub \in Subs
      BY DEF EinvoiceInv, HandlersKnow, Active, Knows
    <3>3. Recorded(x) => row[x].inv = q.inv
      BY DEF Recorded, NoRow, Open, Terminal
    <3> QED BY <1>1, <3>1, <3>2, <3>3 DEF AtItsRow, Recorded
  <2> QED BY <2>1, <2>2
<1>4. ASSUME Calm', NEW i, Waits(i)' PROVE Pursued(i)'
  <2>1. CASE i = q.inv
    <3>1. CASE q.status \in Open
      BY <1>1, <2>1, <3>1 DEF Pursued
    <3>2. CASE q.status \in Terminal
      BY <1>1, <2>1, <3>2 DEF Pursued, Settled
    <3> QED BY <1>1, <3>1, <3>2
  <2>2. CASE i # q.inv
    <3>1. Waits(i) /\ Calm
      BY <1>1, <1>4, <2>2 DEF Waits, Calm
    <3>2. Settled(i) => Settled(i)'
      BY <1>1 DEF Settled
    <3>3. ASSUME NEW k \in Jobs, Pursues(row, job[k], i) PROVE Pursues(row', job'[k], i)
      <4>1. k # j /\ job'[k] = job[k]
        BY <1>1, <2>2, <3>3
      <4>2. CASE job[k].queue = "submit"
        BY <3>3, <4>1, <4>2 DEF Pursues
      <4>3. CASE job[k].queue = "poll" /\ job[k].queue # "submit"
        <5>1. job[k].sub \in Subs
          <6> job[k] \in PollJob
            BY <3>3, <4>3, JobsAndRows DEF Pursues
          <6> QED BY DEF PollJob
        <5>2. job[k].sub # x
          BY <2>2, <3>3, <4>3 DEF Pursues, NoRow, Open
        <5> QED BY <1>1, <3>3, <4>1, <4>3, <5>1, <5>2 DEF Pursues
      <4> QED BY <3>3, <4>2, <4>3 DEF Pursues
    <3> QED BY <3>1, <3>2, <3>3 DEF PursuitInv, Pursued
  <2> QED BY <2>1, <2>2
<1> QED BY <1>2, <1>3, <1>4 DEF PursuitInv
(* A job that gives up is one for an invoice or a row that is gone. *)
LEMMA JobGivesUp ==
  ASSUME EinvoiceInv, PursuitInv, NEW j \in Jobs, Finish(j), UNCHANGED <<present, row, used>>,
         \A i \in present : ~Pursues(row, job[j], i)
  PROVE  PursuitInv'
<1>1. Free \in JobRecord /\ Free.pc = "free" /\ job' = [job EXCEPT ![j] = Free]
  BY DEF JobRecord, Free, Finish
<1>2. Calm' => Calm
  BY DEF Calm
<1> QED BY <1>1, <1>2, JobGoesOn

(* A job that goes to a point where nothing is promised goes on. *)
LEMMA JobMoves ==
  ASSUME EinvoiceInv, PursuitInv, NEW j \in Jobs, job[j].pc # "free",
         NEW pc \in {"waiting", "loaded", "checked", "overdue", "returning"},
         job[j].queue = "submit" => pc \in {"waiting", "loaded", "returning"},
         job[j].queue = "poll" => pc # "loaded",
         Goto(j, pc), UNCHANGED <<present, row, used>>,
         pc = "returning" => \A i : ~Pursues(row, job[j], i)
  PROVE  PursuitInv'
<1> DEFINE r == [job[j] EXCEPT !.pc = pc]
<1>1. job[j] \in SubmitJob \/ job[j] \in PollJob
  BY JobsAndRows DEF JobRecord, Free
<1>2. /\ r \in JobRecord /\ r.pc = pc /\ r.queue = job[j].queue /\ r.sub = job[j].sub
      /\ r.stalls = job[j].stalls
      /\ r.queue = "submit" => r.inv = job[j].inv
  <2>1. CASE job[j] \in SubmitJob
    <3>1. job[j].queue = "submit"
      BY <2>1 DEF SubmitJob
    <3> QED BY <2>1, <3>1, JobAdvances DEF SubmitJob
  <2>2. CASE job[j] \in PollJob
    <3>1. job[j].queue = "poll"
      BY <2>2 DEF PollJob
    <3> QED BY <2>2, <3>1, JobAdvances DEF PollJob
  <2> QED BY <1>1, <2>1, <2>2
<1>3. job' = [job EXCEPT ![j] = r]
  BY DEF Goto
<1> HIDE DEF r
<1>4. r.stalls <= used.crashes /\ AtItsRow(r)
  BY <1>2 DEF PursuitInv, AtItsRow
<1>5. \A i : Pursues(row, job[j], i) => Pursues(row, r, i)
  BY <1>2 DEF Pursues
<1>6. Calm' => Calm
  BY DEF Calm
<1> QED BY <1>2, <1>3, <1>4, <1>5, <1>6, JobGoesOn

LEMMA SubmitPursues ==
  ASSUME EinvoiceInv, PursuitInv, NEW j \in Jobs,
         TakeSubmit(j) \/ (\E x \in Subs : AskSubmit(j, x)) \/ CreateRow(j) \/ CreateRowFails(j)
  PROVE  PursuitInv'
<1>1. /\ job[j] \in SubmitJob /\ job[j].queue = "submit" /\ job[j].pc # "free"
      /\ job[j].stalls <= used.crashes
  BY JobsAndRows DEF TakeSubmit, AskSubmit, CreateRow, CreateRowFails, At, PursuitInv
<1>2. CASE TakeSubmit(j) /\ job[j].inv \in present
  BY <1>1, <1>2, JobMoves DEF TakeSubmit
<1>3. CASE \/ TakeSubmit(j) /\ job[j].inv \notin present
           \/ CreateRowFails(j)
  <2>1. job[j].inv \notin present /\ Finish(j) /\ UNCHANGED <<present, row, used>>
    BY <1>3 DEF TakeSubmit, CreateRowFails
  <2>2. \A i \in present : ~Pursues(row, job[j], i)
    BY <1>1, <2>1 DEF Pursues
  <2> QED BY <2>1, <2>2, JobGivesUp
<1>4. ASSUME NEW x \in Subs, AskSubmit(j, x) PROVE PursuitInv'
  <2>1. PICK answer \in {"PENDING", "REJECTED"} :
          job' = [job EXCEPT ![j].pc = "submitted", ![j].sub = x, ![j].answer = answer]
    BY <1>4 DEF AskSubmit
  <2> DEFINE r == [job[j] EXCEPT !.pc = "submitted", !.sub = x, !.answer = answer]
  <2>2. /\ r \in JobRecord /\ r.pc = "submitted" /\ r.queue = "submit"
        /\ r.inv = job[j].inv /\ r.stalls = job[j].stalls
    BY <1>1 DEF SubmitJob, JobRecord, Open, Terminal
  <2>3. job' = [job EXCEPT ![j] = r] /\ UNCHANGED <<present, row, used>>
    BY <1>4, <2>1 DEF AskSubmit
  <2> HIDE DEF r
  <2>4. AtItsRow(r)
    BY <2>2 DEF AtItsRow
  <2>5. \A i : Pursues(row, job[j], i) => Pursues(row, r, i)
    BY <1>1, <2>2 DEF Pursues
  <2>6. Calm' => Calm
    BY <2>3 DEF Calm
  <2> QED BY <1>1, <2>2, <2>3, <2>4, <2>5, <2>6, JobGoesOn
<1>5. CASE CreateRow(j)
  <2> DEFINE x == job[j].sub
             q == [status |-> job[j].answer, inv |-> job[j].inv]
             pc == IF job[j].answer \in Open THEN "created" ELSE "returning"
             r == [job[j] EXCEPT !.pc = pc]
  <2>1. /\ At(j, "submit", "submitted") /\ job[j].inv \in present
        /\ row' = [row EXCEPT ![x] = q] /\ job' = [job EXCEPT ![j] = r]
        /\ UNCHANGED <<present, used>>
    BY <1>5 DEF CreateRow, Goto
  <2>2. x \in Subs /\ row[x] = NoRow
    BY <1>1, <2>1 DEF EinvoiceInv, HandlersKnow, Knows, At, Active
  <2>3. q \in Row /\ q.inv = job[j].inv /\ q.status = job[j].answer
    BY <1>1 DEF Row, SubmitJob
  <2>4. pc \in {"created", "returning"} /\ (q.status \in Open => pc = "created")
    BY <2>3
  <2>5. /\ r \in JobRecord /\ r.pc = pc /\ r.queue = "submit" /\ r.sub = x
        /\ r.inv = job[j].inv /\ r.stalls = job[j].stalls
    BY <1>1, <2>4, JobAdvances DEF SubmitJob
  <2> HIDE DEF r, q, pc, x
  <2>6. \A i : Pursues(row, job[j], i) => q.inv = i
    BY <1>1, <2>3 DEF Pursues
  <2>7. q.status \in Open => Pursues(row', r, q.inv)
    BY <2>3, <2>4, <2>5 DEF Pursues
  <2> QED BY <1>1, <2>1, <2>2, <2>3, <2>5, <2>6, <2>7, RowGoesOn
<1> QED BY <1>2, <1>3, <1>4, <1>5

LEMMA PollPursues ==
  ASSUME EinvoiceInv, PursuitInv, NEW j \in Jobs,
         TakePoll(j) \/ TimeOut(j) \/ AskStatus(j) \/ UpdateRow(j) \/ UpdateFails(j)
  PROVE  PursuitInv'
<1>1. /\ job[j] \in PollJob /\ job[j].queue = "poll" /\ job[j].pc # "free"
      /\ job[j].stalls <= used.crashes /\ job[j].sub \in Subs
  <2>1. job[j] \in PollJob /\ job[j].queue = "poll" /\ job[j].pc # "free"
    BY JobsAndRows DEF TakePoll, TimeOut, AskStatus, UpdateRow, UpdateFails, At
  <2> QED BY <2>1 DEF PursuitInv, PollJob
<1>2. CASE TakePoll(j)
  <2>1. PICK pc \in {"returning", "overdue", "checked"} :
          /\ Goto(j, pc)
          /\ pc = "returning" => row[job[j].sub].status \notin Open
    BY <1>2 DEF TakePoll
  <2>2. pc = "returning" => \A i : ~Pursues(row, job[j], i)
    BY <1>1, <2>1 DEF Pursues
  <2> QED BY <1>1, <1>2, <2>1, <2>2, JobMoves DEF TakePoll
<1>3. CASE AskStatus(j)
  <2> DEFINE answer == AnswerTo[remote[job[j].sub]]
             r == [job[j] EXCEPT !.pc = "answered", !.answer = answer]
  <2>1. remote[job[j].sub] \in RemoteStates \ {"unused"}
    BY <1>1, <1>3 DEF AskStatus, EinvoiceInv, TypeOK
  <2>2. answer \in Open \cup Terminal
    BY <2>1 DEF AnswerTo, RemoteStates, Open, Terminal
  <2>3. job' = [job EXCEPT ![j] = r] /\ UNCHANGED <<present, row, used>>
    BY <1>3 DEF AskStatus
  <2> HIDE DEF answer
  <2>4. /\ r \in JobRecord /\ r.pc = "answered" /\ r.queue = "poll" /\ r.sub = job[j].sub
        /\ r.stalls = job[j].stalls
    BY <1>1, <2>2 DEF PollJob, JobRecord
  <2> HIDE DEF r
  <2>5. AtItsRow(r)
    BY <2>4 DEF AtItsRow
  <2>6. \A i : Pursues(row, job[j], i) => Pursues(row, r, i)
    BY <1>1, <2>4 DEF Pursues
  <2>7. Calm' => Calm
    BY <2>3 DEF Calm
  <2> QED BY <1>1, <2>3, <2>4, <2>5, <2>6, <2>7, JobGoesOn
<1>4. CASE UpdateFails(j)
  <2>1. ~Recorded(job[j].sub) /\ Finish(j) /\ UNCHANGED <<present, row, used>>
    BY <1>4 DEF UpdateFails
  <2>2. \A i : ~Pursues(row, job[j], i)
    BY <1>1, <2>1 DEF Pursues, Recorded
  <2> QED BY <2>1, <2>2, JobGivesUp
<1>5. CASE TimeOut(j) \/ UpdateRow(j)
  <2> DEFINE x == job[j].sub
  <2>1. /\ At(j, "poll", "overdue") \/ At(j, "poll", "answered")
        /\ Recorded(x) /\ UNCHANGED <<present, used>>
    BY <1>5 DEF TimeOut, UpdateRow
  <2>2. x \in Subs /\ row[x] \in Row /\ row[x].status \in Open /\ row[x].inv \in present
    <3>1. row[x] \in Row
      BY <1>1, <2>1, JobsAndRows
    <3>2. row[x].status \in Open \cup {"GONE"}
      BY <2>1 DEF EinvoiceInv, HandlersKnow, Knows, At, Active
    <3> QED BY <1>1, <2>1, <3>1, <3>2 DEF Row, Open, Terminal, PursuitInv
  <2>3. PICK s \in Open \cup Terminal, pc \in {"updated", "returning"} :
          /\ row' = [row EXCEPT ![x].status = s] /\ Goto(j, pc)
          /\ s \in Open => pc = "updated"
          /\ pc = "updated" => job[j].attempt + 1 < MaxAttempts
    <3>1. CASE TimeOut(j)
      BY <3>1 DEF TimeOut, Open, Terminal
    <3>2. CASE UpdateRow(j)
      <4>1. Persisted(j) \in Open \cup Terminal
        BY <1>1 DEF Persisted, PollJob, Open, Terminal
      <4>2. Persisted(j) \in Open => job[j].attempt + 1 < MaxAttempts
        BY <1>1, EinvoiceAssumption DEF Persisted, PollJob, Open
      <4> QED BY <3>2, <4>1, <4>2 DEF UpdateRow
    <3> QED BY <1>5, <3>1, <3>2
  <2> DEFINE q == [row[x] EXCEPT !.status = s]
             r == [job[j] EXCEPT !.pc = pc]
  <2>4. q \in Row /\ q.inv = row[x].inv /\ q.status = s
    BY <2>2 DEF Row
  <2>5. /\ r \in JobRecord /\ r.pc = pc /\ r.queue = "poll" /\ r.sub = x
        /\ r.attempt = job[j].attempt /\ r.stalls = job[j].stalls
    BY <1>1, JobAdvances DEF PollJob
  <2>6. row' = [row EXCEPT ![x] = q] /\ job' = [job EXCEPT ![j] = r]
    BY <2>3 DEF Goto
  <2> HIDE DEF x, q, r
  <2>7. \A i : Pursues(row, job[j], i) => q.inv = i
    BY <1>1, <2>4 DEF Pursues, x
  <2>8. row'[x] = q
    BY <2>2, <2>6, JobsAndRows
  <2>9. q.status \in Open => Pursues(row', r, q.inv)
    BY <2>3, <2>4, <2>5, <2>8 DEF Pursues
  <2>10. /\ q.inv \in present /\ row[x].status \in Open /\ row[x].inv = q.inv
         /\ r.pc # "free" => r.stalls <= used.crashes
         /\ ~(r.queue = "submit" /\ r.pc = "created")
         /\ r.queue = "poll" /\ r.pc = "updated" => r.attempt + 1 < MaxAttempts
    BY <1>1, <2>2, <2>3, <2>4, <2>5
  <2> QED BY <2>1, <2>2, <2>4, <2>5, <2>6, <2>7, <2>9, <2>10, RowGoesOn
<1> QED BY <1>2, <1>3, <1>4, <1>5
LEMMA SchedulePursues ==
  ASSUME EinvoiceInv, PursuitInv, NEW j \in Jobs, NEW k \in Jobs, Schedule(j, k)
  PROVE  PursuitInv'
<1> DEFINE x == job[j].sub
           n == [job[j] EXCEPT !.pc = "returning"]
           p == [queue |-> "poll", sub |-> x, attempt |-> NextAttempt(j),
                 pc |-> "waiting", answer |-> "PENDING", stalls |-> 0]
<1>1. /\ job[j].pc \in {"created", "updated"} /\ Active(j) /\ UNCHANGED <<present, row, used>>
      /\ job[j].stalls <= used.crashes /\ AtItsRow(job[j])
  BY DEF Schedule, Active, PursuitInv
<1>2. \/ job[j] \in SubmitJob /\ job[j].pc = "created" /\ job[j].queue = "submit"
      \/ job[j] \in PollJob /\ job[j].pc = "updated" /\ job[j].queue = "poll"
  BY <1>1, JobsAndRows DEF JobRecord, SubmitJob, PollJob, Free
<1>3. x \in Subs
  BY <1>1, <1>2 DEF EinvoiceInv, HandlersKnow, Knows, PollJob
<1>4. n \in JobRecord /\ n.pc = "returning" /\ n.queue = job[j].queue /\ n.stalls = job[j].stalls
  BY <1>2, JobAdvances DEF SubmitJob, PollJob
<1>5. AtItsRow(n) /\ AtItsRow(p) /\ p.stalls = 0 /\ p.pc = "waiting"
  BY <1>4 DEF AtItsRow
<1>6. CASE NextAttempt(j) >= MaxAttempts /\ Goto(j, "returning")
  <2>1. ~Calm'
    <3>1. CASE job[j].queue = "submit"
      BY <1>6, <3>1, EinvoiceAssumption DEF NextAttempt, Calm
    <3>2. CASE job[j].queue = "poll"
      BY <1>1, <1>2, <1>6, <3>2, EinvoiceAssumption DEF NextAttempt, AtItsRow, PollJob
    <3> QED BY <1>2, <3>1, <3>2
  <2>2. job' = [job EXCEPT ![j] = n]
    BY <1>6 DEF Goto
  <2> HIDE DEF n
  <2> QED BY <1>1, <1>4, <1>5, <2>1, <2>2, JobGoesOn
<1>7. CASE job[k] = Free /\ job' = [job EXCEPT ![j] = n, ![k] = p]
  <2>1. \A i : row[x].status \in Open /\ row[x].inv = i => Pursues(row, p, i)
    BY DEF Pursues
  <2> HIDE DEF n, p
  <2>2. /\ k # j /\ job[k].pc = "free" /\ job'[j] = n /\ job'[k] = p
        /\ \A l \in Jobs : l # j /\ l # k => job'[l] = job[l]
    BY <1>1, <1>7, JobsAndRows DEF Active, Free
  <2>3. \A y \in Subs : Recorded(y)' => row'[y].inv \in present'
    BY <1>1 DEF PursuitInv, Recorded
  <2>4. ASSUME NEW l \in Jobs, job'[l].pc # "free"
        PROVE  job'[l].stalls <= used'.crashes /\ AtItsRow(job[l])'
    <3>1. 0 <= used.crashes
      BY JobsAndRows
    <3>2. job'[l].stalls <= used.crashes /\ AtItsRow(job'[l])
      BY <1>1, <1>4, <1>5, <2>2, <2>4, <3>1 DEF PursuitInv
    <3> QED BY <1>1, <3>2 DEF AtItsRow, Recorded
  <2>5. ASSUME Calm', NEW i, Waits(i)' PROVE Pursued(i)'
    <3>1. Calm /\ Waits(i)
      BY <1>1, <2>5 DEF Calm, Waits
    <3>2. i \in present /\ Pursued(i)
      BY <3>1 DEF PursuitInv, Waits, Recorded
    <3>3. Settled(i) => Settled(i)'
      BY <1>1 DEF Settled
    <3>4. ASSUME NEW l \in Jobs, Pursues(row, job[l], i), l # j PROVE Pursues(row', job'[l], i)
      BY <1>1, <2>2, <3>4 DEF Pursues
    <3>5. ASSUME Pursues(row, job[j], i) PROVE Settled(i) \/ Pursues(row', job'[k], i)
      <4>1. Recorded(x) /\ row[x].inv = i
        BY <1>1, <1>2, <3>2, <3>5 DEF Pursues, AtItsRow, Recorded
      <4>2. CASE row[x].status \in Open
        BY <1>1, <2>1, <2>2, <4>1, <4>2
      <4>3. CASE row[x].status \in Terminal
        BY <1>3, <4>1, <4>3 DEF Settled
      <4> QED BY <4>1, <4>2, <4>3 DEF Recorded
    <3> QED BY <3>2, <3>3, <3>4, <3>5 DEF Pursued
  <2> QED BY <2>3, <2>4, <2>5 DEF PursuitInv
<1> QED BY <1>6, <1>7 DEF Schedule, Goto

LEMMA ReturnPursues ==
  ASSUME EinvoiceInv, PursuitInv, NEW j \in Jobs, Return(j) \/ Error(j)
  PROVE  PursuitInv'
<1>1. /\ Free \in JobRecord /\ Free.pc = "free" /\ job' = [job EXCEPT ![j] = Free]
      /\ UNCHANGED <<present, row>> /\ used'.crashes = used.crashes
  <2>1. used'.crashes = used.crashes
    BY JobsAndRows DEF Return, Error
  <2> QED BY <2>1 DEF Return, Error, Finish, JobRecord, Free
<1>2. CASE Return(j)
  BY <1>1, <1>2, JobGivesUp DEF Return, Pursues
<1>3. CASE Error(j)
  <2>1. ~Calm'
    BY <1>3, JobsAndRows DEF Error, Calm
  <2> QED BY <1>1, <2>1, JobGoesOn
<1> QED BY <1>2, <1>3

LEMMA AroundPursues ==
  ASSUME EinvoiceInv, PursuitInv,
         \/ \E j \in Jobs, i \in Invoices : Enqueue(j, i)
         \/ \E i \in Invoices : RemoveInvoice(i)
         \/ \E x \in Subs : DeadlinePasses(x)
  PROVE  PursuitInv'
<1>1. ASSUME NEW j \in Jobs, NEW i \in Invoices, Enqueue(j, i) PROVE PursuitInv'
  <2> DEFINE r == [queue |-> "submit", inv |-> i, sub |-> NoSub, pc |-> "waiting",
                   answer |-> "PENDING", stalls |-> 0]
  <2>1. r \in JobRecord /\ r.stalls = 0 /\ r.pc = "waiting" /\ AtItsRow(r)
    BY DEF JobRecord, SubmitJob, Open, AtItsRow
  <2>2. /\ job' = [job EXCEPT ![j] = r] /\ UNCHANGED <<present, row>> /\ job[j] = Free
        /\ used'.crashes = used.crashes /\ used'.errors = used.errors /\ 0 <= used.crashes
    BY <1>1, JobsAndRows DEF Enqueue
  <2> HIDE DEF r
  <2>3. \A v : ~Pursues(row, job[j], v)
    BY <2>2 DEF Pursues, Free
  <2>4. Calm' => Calm
    BY <2>2 DEF Calm
  <2> QED BY <2>1, <2>2, <2>3, <2>4, JobGoesOn
<1>2. ASSUME NEW i \in Invoices, RemoveInvoice(i) PROVE PursuitInv'
  <2>1. /\ present' = present \ {i} /\ job' = job /\ used' = used
        /\ \A x \in Subs : row'[x] = IF Recorded(x) /\ row[x].inv = i THEN GoneRow ELSE row[x]
    BY <1>2 DEF RemoveInvoice
  <2>2. \A x \in Subs : Recorded(x)' => Recorded(x) /\ row'[x] = row[x] /\ row[x].inv # i
    BY <2>1 DEF Recorded, GoneRow, Open, Terminal
  <2>3. \A x \in Subs : Recorded(x)' => row'[x].inv \in present'
    BY <2>1, <2>2 DEF PursuitInv
  <2>4. ASSUME NEW k \in Jobs, job'[k].pc # "free"
        PROVE  job'[k].stalls <= used'.crashes /\ AtItsRow(job[k])'
    <3>1. job[k].stalls <= used.crashes /\ AtItsRow(job[k])
      BY <2>1, <2>4 DEF PursuitInv
    <3>2. ASSUME job[k].queue = "submit", job[k].pc = "created" PROVE job[k].sub \in Subs
      BY <3>2 DEF EinvoiceInv, HandlersKnow, Active, Knows
    <3> QED BY <2>1, <3>1, <3>2 DEF AtItsRow, Recorded
  <2>5. ASSUME Calm', NEW v, Waits(v)' PROVE Pursued(v)'
    <3>1. v # i /\ Waits(v) /\ Calm
      BY <2>1, <2>2, <2>5 DEF Waits, Calm, Recorded
    <3>2. \A x \in Subs : row[x].status \in Open \cup Terminal /\ row[x].inv = v => row'[x] = row[x]
      BY <2>1, <3>1
    <3>3. Settled(v) => Settled(v)'
      BY <3>2 DEF Settled
    <3>4. ASSUME NEW k \in Jobs, Pursues(row, job[k], v) PROVE Pursues(row', job'[k], v)
      <4>1. CASE job[k].queue = "submit"
        BY <2>1, <3>4, <4>1 DEF Pursues
      <4>2. CASE job[k].queue = "poll" /\ job[k].queue # "submit"
        <5>1. job[k].sub \in Subs
          <6>1. job[k] \in PollJob
            BY <3>4, <4>2, JobsAndRows DEF Pursues
          <6> QED BY <6>1 DEF PollJob
        <5> QED BY <2>1, <3>2, <3>4, <4>2, <5>1 DEF Pursues
      <4> QED BY <3>4, <4>1, <4>2 DEF Pursues
    <3> QED BY <3>1, <3>3, <3>4 DEF PursuitInv, Pursued
  <2> QED BY <2>3, <2>4, <2>5 DEF PursuitInv
<1>3. ASSUME UNCHANGED <<present, row, job, used>> PROVE PursuitInv'
  BY <1>3 DEF PursuitInv, Recorded, AtItsRow, Calm, Waits, Pursued, Settled, Pursues
<1> QED BY <1>1, <1>2, <1>3 DEF DeadlinePasses

(***************************************************************************)
(* A crash: a job has stalled no more often than the worker crashed, so    *)
(* every job the worker was in runs again.                                 *)
(***************************************************************************)
LEMMA CrashPursues ==
  ASSUME EinvoiceInv, PursuitInv, Crash
  PROVE  PursuitInv'
<1>1. /\ UNCHANGED <<present, row>> /\ used'.crashes = used.crashes + 1 /\ used'.errors = used.errors
      /\ used.crashes \in Nat
      /\ \A j \in Jobs : job'[j] = IF Active(j) THEN Rerun(job[j]) ELSE job[j]
  BY JobsAndRows DEF Crash
<1>2. ASSUME NEW j \in Jobs, Active(j)
      PROVE  \/ job'[j] = Free
             \/ /\ job'[j].pc = "waiting" /\ job'[j].queue = job[j].queue /\ job'[j].sub = job[j].sub
                /\ job[j].queue = "submit" => job'[j].inv = job[j].inv
                /\ job'[j].stalls = job[j].stalls + 1
  <2>1. job[j] \in SubmitJob \cup PollJob
    BY <1>2, JobsAndRows DEF Active, JobRecord, Free
  <2> PICK m : m = job[j].stalls + 1
    OBVIOUS
  <2>2. job'[j] = Free \/ job'[j] = [job[j] EXCEPT !.pc = "waiting", !.stalls = m]
    BY <1>1, <1>2 DEF Rerun
  <2>3. CASE job[j] \in SubmitJob
    BY <2>2, <2>3 DEF SubmitJob
  <2>4. CASE job[j] \in PollJob
    BY <2>2, <2>4 DEF PollJob
  <2> QED BY <2>1, <2>3, <2>4
<1>3. \A j \in Jobs : job[j].pc # "free" => job[j].stalls \in Nat /\ job[j].stalls <= used.crashes
  BY JobsAndRows DEF PursuitInv, JobRecord, SubmitJob, PollJob, Free
<1>4. \A x \in Subs : Recorded(x)' => row'[x].inv \in present'
  BY <1>1 DEF PursuitInv, Recorded
<1>5. ASSUME NEW j \in Jobs, job'[j].pc # "free"
      PROVE  job'[j].stalls <= used'.crashes /\ AtItsRow(job[j])'
  <2>1. CASE Active(j)
    <3>1. job'[j].pc = "waiting" /\ job'[j].stalls = job[j].stalls + 1
      BY <1>2, <1>5, <2>1 DEF Free
    <3>2. job[j].stalls \in Nat /\ job[j].stalls <= used.crashes
      BY <1>3, <2>1 DEF Active
    <3> QED BY <1>1, <3>1, <3>2 DEF AtItsRow
  <2>2. CASE ~Active(j)
    <3>1. job'[j] = job[j] /\ job[j].pc = "waiting"
      BY <1>1, <1>5, <2>2 DEF Active
    <3>2. job[j].stalls \in Nat /\ job[j].stalls <= used.crashes
      BY <1>3, <3>1
    <3> QED BY <1>1, <3>1, <3>2 DEF AtItsRow
  <2> QED BY <2>1, <2>2
<1>6. ASSUME Calm', NEW i, Waits(i)' PROVE Pursued(i)'
  <2>1. Calm /\ Waits(i) /\ used.crashes < MaxStalls
    BY <1>1, <1>6, EinvoiceAssumption DEF Calm, Waits
  <2>2. Pursued(i)
    BY <2>1 DEF PursuitInv
  <2>3. Settled(i) => Settled(i)'
    BY <1>1 DEF Settled
  <2>4. ASSUME NEW j \in Jobs, Pursues(row, job[j], i) PROVE Pursues(row', job'[j], i)
    <3>1. CASE ~Active(j)
      BY <1>1, <2>4, <3>1 DEF Pursues
    <3>2. CASE Active(j)
      <4>1. job[j].stalls \in Nat /\ job[j].stalls <= used.crashes
        BY <1>3, <3>2 DEF Active
      <4>2. job'[j] # Free
        <5>1. ~(job[j].stalls >= MaxStalls)
          BY <1>1, <2>1, <4>1, EinvoiceAssumption
        <5>2. job[j] \in SubmitJob \cup PollJob
          BY <3>2, JobsAndRows DEF Active, JobRecord, Free
        <5>3. job'[j] = [job[j] EXCEPT !.pc = "waiting", !.stalls = job[j].stalls + 1]
          BY <1>1, <3>2, <5>1 DEF Rerun
        <5>4. job'[j].pc = "waiting"
          BY <5>2, <5>3 DEF SubmitJob, PollJob
        <5> QED BY <5>4 DEF Free
      <4> QED BY <1>1, <1>2, <2>4, <3>2, <4>2 DEF Pursues
    <3> QED BY <3>1, <3>2
  <2> QED BY <2>2, <2>3, <2>4 DEF Pursued
<1> QED BY <1>4, <1>5, <1>6 DEF PursuitInv

(***************************************************************************)
(* Nobody waits for a submission nobody works on: as long as no call has   *)
(* failed and the worker has died at most as often as BullMQ runs a job    *)
(* again, an invoice with an open submission has a decided one, or a job   *)
(* in a queue that will decide one.                                        *)
(***************************************************************************)
THEOREM InvoicesArePursued == Spec => []InvoicePursued
<1> DEFINE Inv == EinvoiceInv /\ PursuitInv
<1>1. Init => Inv
  <2> SUFFICES ASSUME Init PROVE PursuitInv
    BY InitHolds
  <2>1. \A x \in Subs : ~Recorded(x) /\ row[x].status \notin Open
    BY DEF Init, Recorded, NoRow, Open, Terminal
  <2> QED BY <2>1 DEF Init, PursuitInv, Waits, Free
<1>2. ASSUME Inv, [Next]_vars PROVE Inv'
  <2>1. EinvoiceInv'
    BY <1>2, NextStep
  <2>2. CASE UNCHANGED vars
    <3>1. UNCHANGED <<present, row, job, used>>
      BY <2>2 DEF vars
    <3> QED BY <1>2, <2>1, <3>1 DEF PursuitInv, Recorded, AtItsRow, Calm, Waits, Pursued, Settled, Pursues
  <2>3. CASE Next
    BY <1>2, <2>1, <2>3, AroundPursues, SubmitPursues, PollPursues, SchedulePursues, ReturnPursues,
       CrashPursues DEF Next, Step
  <2> QED BY <1>2, <2>2, <2>3
<1>3. Inv => InvoicePursued
  <2> SUFFICES ASSUME Inv, Calm, NEW x \in Subs, row[x].status \in Open, ~Settled(row[x].inv)
               PROVE  \E j \in Jobs :
                        \/ job[j].pc # "free" /\ job[j].queue = "submit" /\ job[j].inv = row[x].inv
                        \/ /\ job[j].pc # "free" /\ job[j].queue = "poll"
                           /\ row[job[j].sub].status \in Open /\ row[job[j].sub].inv = row[x].inv
    BY DEF InvoicePursued, Calm
  <2>1. Pursued(row[x].inv)
    BY DEF PursuitInv, Waits
  <2> QED BY <2>1 DEF Pursued, Pursues
<1> HIDE DEF Inv
<1> QED BY <1>1, <1>2, <1>3, PTL DEF Spec
=============================================================================
