------------------------------ MODULE Reminders ------------------------------
(***************************************************************************)
(* The worker's reminders: an hourly sweep looks, stage by stage, for open *)
(* tickets nobody has touched for the hours of the stage and adds a job    *)
(* for each, under an id made of queue and ticket; handleReminder writes   *)
(* an audit row.  BullMQ ignores a job whose id it knows, and it knows the *)
(* last 500 it has completed and the last 500 it has failed.  It fails a   *)
(* job whose worker has died over it twice.  The ticket's other life is    *)
(* ListCaches'.                                                            *)
(***************************************************************************)
EXTENDS Integers, Sequences, FiniteSets, SequencesExt

CONSTANTS
  Tickets,
  Stages,       \* how many; R1, R2, R3 in the code
  Hours,        \* hours of each stage: 1, 20 and 30, unless configured otherwise
  Retained,     \* removeOnComplete, removeOnFail: how many jobs of each kind a queue remembers
  MaxCrashes,   \* bound: times the worker dies
  MaxErrors,    \* bound: jobs that are not added because of an error
  LastTouch,    \* bound: hour after which nobody touches a ticket
  LastHour      \* bound: the hours the model runs for

Stage == 1..Stages

ASSUME ReminderAssumption ==
  /\ Stages \in Nat \ {0} /\ Retained \in Nat
  /\ Hours \in [Stage -> Nat \ {0}]
  /\ \A s, r \in Stage : s < r => Hours[s] < Hours[r]
  /\ MaxCrashes \in Nat /\ MaxErrors \in Nat /\ LastTouch \in Nat /\ LastHour \in Nat

VARIABLES
  now,       \* the hour
  ticket,    \* open or not, and updatedAt
  sweep,     \* the sweep under way: its stage, and the tickets found and not yet added
  job,       \* the jobs of each queue, by ticket: the id is made of both
  done,      \* the completed jobs each queue remembers, oldest first
  givenUp,   \* the failed jobs it remembers, oldest first
  told,      \* audit rows a job tried to write since its id was last forgotten
  asked,     \* stages a ticket ever had a job for
  failed,    \* stages adding a job failed for: errors are only logged
  crashes

vars == <<now, ticket, sweep, job, done, givenUp, told, asked, failed, crashes>>

NoSweep == [stage |-> 0, found |-> {}, began |-> 0]
NoJob   == [pc |-> "none", reruns |-> 0]

JobRecord ==
  [pc : {"none", "waiting", "running", "written", "stalled", "done", "failed"}, reruns : 0..1]

TypeOK ==
  /\ now \in 0..LastHour
  /\ ticket \in [Tickets -> [open : BOOLEAN, updated : 0..LastHour]]
  /\ sweep \in [stage : 0..Stages, found : SUBSET Tickets, began : 0..LastHour]
  /\ job \in [Stage -> [Tickets -> JobRecord]]
  /\ done \in [Stage -> Seq(Tickets)] /\ givenUp \in [Stage -> Seq(Tickets)]
  /\ told \in [Stage -> [Tickets -> Nat]]
  /\ asked \subseteq Stage \X Tickets /\ failed \subseteq Stage \X Tickets
  /\ crashes \in 0..MaxCrashes

Init ==
  /\ now = 0
  /\ ticket = [t \in Tickets |-> [open |-> TRUE, updated |-> 0]]
  /\ sweep = NoSweep
  /\ job = [s \in Stage |-> [t \in Tickets |-> NoJob]]
  /\ done = [s \in Stage |-> <<>>] /\ givenUp = [s \in Stage |-> <<>>]
  /\ told = [s \in Stage |-> [t \in Tickets |-> 0]]
  /\ asked = {} /\ failed = {}
  /\ crashes = 0

-----------------------------------------------------------------------------
(***************************************************************************)
(* Around the worker.  A sweep is a few queries and takes much less than   *)
(* an hour: the clock strikes at most once while it runs.                  *)
(***************************************************************************)
HourStrikes ==
  /\ now < LastHour
  /\ sweep.stage # 0 => now = sweep.began
  /\ now' = now + 1
  /\ UNCHANGED <<ticket, sweep, job, done, givenUp, told, asked, failed, crashes>>

TouchTicket(t, open) ==
  /\ now <= LastTouch
  /\ ticket' = [ticket EXCEPT ![t] = [open |-> open, updated |-> now]]
  /\ UNCHANGED <<now, sweep, job, done, givenUp, told, asked, failed, crashes>>

-----------------------------------------------------------------------------
(***************************************************************************)
(* The sweep: scheduleReminders for one stage after the other.             *)
(***************************************************************************)
(* Fault: a ticket is looked for in the one hour of its stage.             *)
StaleThatHour(s) == {t \in Tickets : ticket[t].open /\ ticket[t].updated = now - Hours[s]}

Stale(s) == {t \in Tickets : ticket[t].open /\ ticket[t].updated <= now - Hours[s]}

StartSweep ==
  /\ sweep.stage = 0
  /\ sweep' = [stage |-> 1, found |-> Stale(1), began |-> now]
  /\ UNCHANGED <<now, ticket, job, done, givenUp, told, asked, failed, crashes>>

(* Fault: the sweep is over when its first stage is.                       *)
OnlyFirstStage ==
  /\ sweep.stage # 0 /\ sweep.found = {}
  /\ sweep' = NoSweep
  /\ UNCHANGED <<now, ticket, job, done, givenUp, told, asked, failed, crashes>>

NextStage ==
  /\ sweep.stage # 0 /\ sweep.found = {}
  /\ sweep' = IF sweep.stage < Stages
              THEN [sweep EXCEPT !.stage = @ + 1, !.found = Stale(sweep.stage + 1)] ELSE NoSweep
  /\ UNCHANGED <<now, ticket, job, done, givenUp, told, asked, failed, crashes>>

(* Fault: any job is added, as if it had no id.                            *)
AddEvery(t) ==
  LET s == sweep.stage IN
  /\ t \in sweep.found
  /\ sweep' = [sweep EXCEPT !.found = @ \ {t}]
  /\ job' = [job EXCEPT ![s][t] = [pc |-> "waiting", reruns |-> 0]]
  /\ asked' = asked \cup {<<s, t>>}
  /\ UNCHANGED <<now, ticket, done, givenUp, told, failed, crashes>>

AddJob(t) ==
  LET s == sweep.stage IN
  /\ t \in sweep.found
  /\ sweep' = [sweep EXCEPT !.found = @ \ {t}]
  /\ job' = IF job[s][t].pc = "none"
            THEN [job EXCEPT ![s][t] = [pc |-> "waiting", reruns |-> 0]] ELSE job
  /\ asked' = asked \cup {<<s, t>>}
  /\ UNCHANGED <<now, ticket, done, givenUp, told, failed, crashes>>

AddFails(t) ==
  /\ t \in sweep.found
  /\ Cardinality(failed) < MaxErrors
  /\ sweep' = [sweep EXCEPT !.found = @ \ {t}]
  /\ failed' = failed \cup {<<sweep.stage, t>>}
  /\ UNCHANGED <<now, ticket, job, done, givenUp, told, asked, crashes>>

-----------------------------------------------------------------------------
(***************************************************************************)
(* handleReminder: one job of a queue at a time.  If its INSERT fails, it  *)
(* goes on all the same: told counts attempts.                             *)
(***************************************************************************)
TakeJob(s, t) ==
  /\ job[s][t].pc = "waiting"
  /\ \A u \in Tickets : job[s][u].pc \notin {"running", "written"}
  /\ job' = [job EXCEPT ![s][t].pc = "running"]
  /\ UNCHANGED <<now, ticket, sweep, done, givenUp, told, asked, failed, crashes>>

WriteAudit(s, t) ==
  /\ job[s][t].pc = "running"
  /\ job' = [job EXCEPT ![s][t].pc = "written"]
  /\ told' = [told EXCEPT ![s][t] = @ + 1]
  /\ UNCHANGED <<now, ticket, sweep, done, givenUp, asked, failed, crashes>>

(* The oldest job of a list is forgotten, id and all, to remember t.       *)
Forgotten(list, t) == IF Len(list) < Retained THEN {} ELSE {Head(Append(list, t))}
Remember(list, t)  == IF Len(list) < Retained THEN Append(list, t) ELSE Tail(Append(list, t))

EndJob(s, t, list, as) ==
  /\ job' = [job EXCEPT ![s] = [u \in Tickets |->
       IF u \in Forgotten(list, t) THEN NoJob
       ELSE IF u = t THEN [pc |-> as, reruns |-> job[s][t].reruns] ELSE job[s][u]]]
  /\ told' = [told EXCEPT ![s] = [u \in Tickets |->
       IF u \in Forgotten(list, t) THEN 0 ELSE told[s][u]]]
  /\ UNCHANGED <<now, ticket, sweep, asked, failed, crashes>>

Complete(s, t) ==
  /\ job[s][t].pc = "written"
  /\ EndJob(s, t, done[s], "done")
  /\ done' = [done EXCEPT ![s] = Remember(@, t)]
  /\ UNCHANGED givenUp

(***************************************************************************)
(* The worker dies, and is started again: the sweep is over, and the jobs  *)
(* that were running are stalled until a queue finds them.                 *)
(***************************************************************************)
Crash ==
  /\ crashes < MaxCrashes
  /\ crashes' = crashes + 1
  /\ sweep' = NoSweep
  /\ job' = [s \in Stage |-> [t \in Tickets |->
       IF job[s][t].pc \in {"running", "written"}
       THEN [job[s][t] EXCEPT !.pc = "stalled"] ELSE job[s][t]]]
  /\ UNCHANGED <<now, ticket, done, givenUp, told, asked, failed>>

(* Found stalled for the first time, a job is run again.                   *)
RunAgain(s, t) ==
  /\ job[s][t] = [pc |-> "stalled", reruns |-> 0]
  /\ job' = [job EXCEPT ![s][t] = [pc |-> "waiting", reruns |-> 1]]
  /\ UNCHANGED <<now, ticket, sweep, done, givenUp, told, asked, failed, crashes>>

(* Found stalled once more, it fails, and is remembered with the failed.   *)
GiveUp(s, t) ==
  /\ job[s][t] = [pc |-> "stalled", reruns |-> 1]
  /\ EndJob(s, t, givenUp[s], "failed")
  /\ givenUp' = [givenUp EXCEPT ![s] = Remember(@, t)]
  /\ UNCHANGED done

-----------------------------------------------------------------------------
SweepStep == StartSweep \/ NextStage \/ \E t \in Tickets : AddJob(t) \/ AddFails(t)

Handle(s) ==
  \E t \in Tickets :
    TakeJob(s, t) \/ WriteAudit(s, t) \/ Complete(s, t) \/ RunAgain(s, t) \/ GiveUp(s, t)

Next ==
  \/ HourStrikes \/ Crash \/ SweepStep
  \/ \E t \in Tickets, open \in BOOLEAN : TouchTicket(t, open)
  \/ \E s \in Stage : Handle(s)

Spec == Init /\ [][Next]_vars

(***************************************************************************)
(* Time passes, cron fires, and the worker awaits what it has begun.       *)
(***************************************************************************)
FairSpec == Spec /\ WF_vars(HourStrikes) /\ WF_vars(SweepStep) /\ \A s \in Stage : WF_vars(Handle(s))
-----------------------------------------------------------------------------
(***************************************************************************)
(* However tickets are touched, closed and reopened while a sweep runs, no *)
(* ticket has the job of a stage added before that of the stage before,    *)
(* unless adding that one failed.  (Each stage has a queue of its own: of  *)
(* jobs added one after the other, any may write its row first.)           *)
(***************************************************************************)
StagesInOrder ==
  \A s \in Stage, t \in Tickets :
    s > 1 /\ <<s, t>> \in asked => <<s - 1, t>> \in asked \cup failed

(***************************************************************************)
(* A ticket swept over again and again is reminded once per stage, while   *)
(* its job is remembered, completed or failed, and at most once more       *)
(* however often the worker dies over it.                                  *)
(***************************************************************************)
OncePerStage == \A s \in Stage, t \in Tickets : told[s][t] <= 1 + job[s][t].reruns

(***************************************************************************)
(* A ticket that stays open gets to every stage in the end (not again, if  *)
(* it is touched and then left alone once more while its job is            *)
(* remembered).                                                            *)
(***************************************************************************)
LeftAloneIsReminded ==
  \A t \in Tickets : <>[](ticket[t].open) => <>(\A s \in Stage : <<s, t>> \in asked \cup failed)
=============================================================================
