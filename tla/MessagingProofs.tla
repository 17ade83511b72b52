--------------------------- MODULE MessagingProofs ----------------------------
(***************************************************************************)
(* What goes out to customers.  Reminders, for any number of tickets and   *)
(* stages, any hours, queues that remember any number of jobs, and however *)
(* often the worker dies; and the gateway, for any number of HTTP requests,  *)
(* sockets, reconnections and restarts, and any rate: how fast it sends,   *)
(* and that sockets made one after the other stay one.                     *)
(***************************************************************************)
EXTENDS Reminders, WaGateway, SequenceTheorems, TLAPS

-----------------------------------------------------------------------------
(***************************************************************************)
(* A ticket that has been left alone since the sweep began, for the hours  *)
(* of the stage the sweep is at, is among those it has found, or has been  *)
(* dealt with; and the stage before has dealt with all it finds now.       *)
(***************************************************************************)
Dealt(s, t) == <<s, t>> \in asked \cup failed

Typed ==
  /\ now \in Nat
  /\ ticket \in [Tickets -> [open : BOOLEAN, updated : Nat]]
  /\ sweep \in [stage : 0..Stages, found : SUBSET Tickets, began : Nat]

OrderInv ==
  /\ Typed
  /\ sweep.stage = 0 => sweep.found = {}
  /\ sweep.stage # 0 =>
       /\ now \in {sweep.began, sweep.began + 1}
       /\ \A t \in Tickets :
            ticket[t].open /\ ticket[t].updated <= sweep.began - Hours[sweep.stage]
              => t \in sweep.found \/ Dealt(sweep.stage, t)
       /\ sweep.stage > 1 => \A t \in sweep.found : Dealt(sweep.stage - 1, t)
  /\ StagesInOrder

LEMMA StagesAreNumbers == Stages \in Nat \ {0} /\ Stage = 1..Stages /\ Hours \in [Stage -> Nat \ {0}]
BY ReminderAssumption DEF Stage

(* Jobs are asked for or failed, and the sweep goes on with the others.    *)
LEMMA DealStep ==
  ASSUME OrderInv, UNCHANGED <<now, ticket>>, NEW t \in Tickets, t \in sweep.found,
         sweep' = [sweep EXCEPT !.found = @ \ {t}],
         \/ asked' = asked \cup {<<sweep.stage, t>>} /\ failed' = failed
         \/ failed' = failed \cup {<<sweep.stage, t>>} /\ asked' = asked
  PROVE  sweep.stage # 0 => OrderInv'
<1> SUFFICES ASSUME sweep.stage # 0 PROVE OrderInv'
  OBVIOUS
<1>1. /\ sweep' \in [stage : 0..Stages, found : SUBSET Tickets, began : Nat]
      /\ sweep'.stage = sweep.stage /\ sweep'.began = sweep.began /\ sweep'.found = sweep.found \ {t}
  BY DEF OrderInv, Typed
<1> PICK k \in Stage : k = sweep.stage
  BY StagesAreNumbers DEF OrderInv, Typed
<1>2. \A s, u : Dealt(s, u)' <=> Dealt(s, u) \/ (s = k /\ u = t)
  BY DEF Dealt
<1>3. StagesInOrder'
  <2> SUFFICES ASSUME NEW s \in Stage, NEW u \in Tickets, s > 1, <<s, u>> \in asked'
               PROVE  Dealt(s - 1, u)'
    BY DEF StagesInOrder, Dealt
  <2>1. CASE <<s, u>> \in asked
    BY <1>2, <2>1 DEF OrderInv, StagesInOrder, Dealt
  <2>2. CASE <<s, u>> \notin asked
    <3>1. s = k /\ u = t
      BY <2>2
    <3> QED BY <1>2, <3>1 DEF OrderInv
  <2> QED BY <2>1, <2>2
<1>4. /\ \A u \in Tickets :
            ticket[u].open /\ ticket[u].updated <= sweep.began - Hours[k] => u \in sweep'.found \/ Dealt(k, u)'
      /\ k > 1 => \A u \in sweep'.found : Dealt(k - 1, u)'
  BY <1>1, <1>2 DEF OrderInv
<1> QED BY <1>1, <1>3, <1>4 DEF OrderInv, Typed

(* A sweep that is over leaves nothing to be kept.                         *)
LEMMA OverStep ==
  ASSUME OrderInv, UNCHANGED <<now, ticket, asked, failed>>, sweep' = NoSweep
  PROVE  OrderInv'
<1>1. sweep' \in [stage : 0..Stages, found : SUBSET Tickets, began : Nat] /\ sweep'.stage = 0 /\ sweep'.found = {}
  BY StagesAreNumbers DEF NoSweep
<1> QED BY <1>1 DEF OrderInv, Typed, StagesInOrder

LEMMA OrderStep == OrderInv /\ [Next]_vars => OrderInv'
<1> SUFFICES ASSUME OrderInv, [Next]_vars PROVE OrderInv'
  OBVIOUS
<1>0. /\ now \in Nat /\ sweep.stage \in 0..Stages /\ sweep.began \in Nat
      /\ \A t \in Tickets : ticket[t].updated \in Nat
      /\ \A s \in Stage : Hours[s] \in Nat /\ Hours[s] > 0
  BY StagesAreNumbers DEF OrderInv, Typed
<1>1. ASSUME UNCHANGED <<now, ticket, sweep, asked, failed>> PROVE OrderInv'
  BY <1>1 DEF OrderInv, Typed, StagesInOrder, Dealt
<1>2. CASE HourStrikes
  <2>1. /\ now' = now + 1 /\ UNCHANGED <<ticket, sweep, asked, failed>>
        /\ sweep.stage # 0 => now = sweep.began
    BY <1>2 DEF HourStrikes
  <2> QED BY <1>0, <2>1 DEF OrderInv, Typed, StagesInOrder, Dealt
<1>3. CASE Crash
  BY <1>3, OverStep DEF Crash
<1>4. ASSUME NEW t \in Tickets, NEW open \in BOOLEAN, TouchTicket(t, open) PROVE OrderInv'
  <2>1. /\ UNCHANGED <<now, sweep, asked, failed>>
        /\ ticket' = [ticket EXCEPT ![t] = [open |-> open, updated |-> now]]
    BY <1>4 DEF TouchTicket
  <2>2. /\ ticket' \in [Tickets -> [open : BOOLEAN, updated : Nat]] /\ ticket'[t].updated = now
        /\ \A u \in Tickets : u # t => ticket'[u] = ticket[u]
    BY <1>0, <2>1 DEF OrderInv, Typed
  <2>3. ASSUME sweep.stage # 0, NEW u \in Tickets,
               ticket'[u].open, ticket'[u].updated <= sweep.began - Hours[sweep.stage]
        PROVE  u \in sweep.found \/ Dealt(sweep.stage, u)
    <3> PICK k \in Stage : k = sweep.stage
      BY <1>0, <2>3, StagesAreNumbers
    <3>1. sweep.began - Hours[k] < sweep.began /\ sweep.began <= now
      BY <1>0, <2>3 DEF OrderInv
    <3>2. u # t
      BY <1>0, <2>2, <2>3, <3>1
    <3> QED BY <2>2, <2>3, <3>2 DEF OrderInv
  <2> QED BY <2>1, <2>2, <2>3 DEF OrderInv, Typed, StagesInOrder, Dealt
<1>5. CASE StartSweep
  <2>1. /\ UNCHANGED <<now, ticket, asked, failed>>
        /\ sweep' = [stage |-> 1, found |-> Stale(1), began |-> now]
    BY <1>5 DEF StartSweep
  <2>2. Stale(1) \subseteq Tickets /\ sweep' \in [stage : 0..Stages, found : SUBSET Tickets, began : Nat]
    BY <1>0, <2>1, StagesAreNumbers DEF Stale
  <2>3. \A t \in Tickets : ticket[t].open /\ ticket[t].updated <= now - Hours[1] => t \in sweep'.found
    BY <2>1 DEF Stale
  <2> QED BY <1>0, <2>1, <2>2, <2>3 DEF OrderInv, Typed, StagesInOrder, Dealt
<1>6. CASE NextStage
  <2>1. /\ UNCHANGED <<now, ticket, asked, failed>> /\ sweep.stage # 0 /\ sweep.found = {}
        /\ sweep' = IF sweep.stage < Stages
                    THEN [sweep EXCEPT !.stage = @ + 1, !.found = Stale(sweep.stage + 1)] ELSE NoSweep
    BY <1>6 DEF NextStage
  <2>2. CASE ~(sweep.stage < Stages)
    BY <2>1, <2>2, OverStep
  <2>3. CASE sweep.stage < Stages
    <3> PICK k \in Stage : k = sweep.stage
      BY <1>0, <2>1, StagesAreNumbers
    <3>1. k + 1 \in Stage /\ Hours[k] < Hours[k + 1] /\ k \in Nat
      BY <2>3, StagesAreNumbers, ReminderAssumption
    <3>2. /\ sweep' \in [stage : 0..Stages, found : SUBSET Tickets, began : Nat]
          /\ sweep'.stage = k + 1 /\ sweep'.found = Stale(k + 1) /\ sweep'.began = sweep.began
      <4>1. Stale(k + 1) \subseteq Tickets
        BY DEF Stale
      <4>2. sweep' = [sweep EXCEPT !.stage = k + 1, !.found = Stale(k + 1)]
        BY <2>1, <2>3
      <4>3. k + 1 \in 0..Stages
        BY <3>1, StagesAreNumbers
      <4> QED BY <4>1, <4>2, <4>3 DEF OrderInv, Typed
    <3>3. now \in {sweep.began, sweep.began + 1}
      BY <2>1 DEF OrderInv
    <3>4. ASSUME NEW t \in Tickets, ticket[t].open, ticket[t].updated <= sweep.began - Hours[k + 1]
          PROVE  t \in sweep'.found
      BY <1>0, <3>1, <3>2, <3>3, <3>4 DEF Stale
    <3>5. ASSUME NEW t \in Stale(k + 1) PROVE Dealt(k, t)
      <4>1. t \in Tickets /\ ticket[t].open /\ ticket[t].updated <= now - Hours[k + 1]
        BY DEF Stale
      <4>2. ticket[t].updated <= sweep.began - Hours[k]
        BY <1>0, <3>1, <3>3, <4>1
      <4> QED BY <2>1, <4>1, <4>2 DEF OrderInv
    <3>6. sweep'.stage - 1 = k
      BY <3>1, <3>2
    <3> QED BY <2>1, <3>2, <3>3, <3>4, <3>5, <3>6 DEF OrderInv, Typed, StagesInOrder, Dealt
  <2> QED BY <2>2, <2>3
<1>7. ASSUME NEW t \in Tickets, AddJob(t) \/ AddFails(t) PROVE OrderInv'
  <2>1. CASE sweep.stage # 0
    BY <1>7, <2>1, DealStep DEF AddJob, AddFails
  <2>2. CASE sweep.stage = 0
    BY <1>7, <2>2 DEF AddJob, AddFails, OrderInv
  <2> QED BY <2>1, <2>2
<1>8. ASSUME NEW s \in Stage, Handle(s) PROVE OrderInv'
  BY <1>1, <1>8 DEF Handle, TakeJob, WriteAudit, Complete, RunAgain, GiveUp, EndJob
<1> QED BY <1>1, <1>2, <1>3, <1>4, <1>5, <1>6, <1>7, <1>8 DEF Next, SweepStep, vars

LEMMA OrderInit == Init => OrderInv
<1> SUFFICES ASSUME Init PROVE OrderInv
  OBVIOUS
<1>1. Typed /\ sweep.stage = 0 /\ sweep.found = {}
  BY StagesAreNumbers DEF Init, Typed, NoSweep
<1> QED BY <1>1 DEF Init, OrderInv, StagesInOrder

(***************************************************************************)
(* However tickets are touched, closed and reopened while a sweep runs,    *)
(* and wherever and however often a sweep breaks off, the jobs of the      *)
(* stages are asked for in their order.                                    *)
(***************************************************************************)
THEOREM StagesAskedInOrder == Spec => []StagesInOrder
<1>1. OrderInv => StagesInOrder
  BY DEF OrderInv
<1> QED BY <1>1, OrderInit, OrderStep, PTL DEF Spec

-----------------------------------------------------------------------------
(***************************************************************************)
(* How often a job has tried its audit row is known from where it is and   *)
(* whether it is run for the second time; what a queue forgets it forgets  *)
(* with its count.                                                         *)
(***************************************************************************)
Tally(j, n) ==
  /\ j.pc = "none" => n = 0
  /\ j.pc \in {"waiting", "running"} => n <= j.reruns
  /\ n <= 1 + j.reruns

OnceInv ==
  /\ job \in [Stage -> [Tickets -> JobRecord]]
  /\ told \in [Stage -> [Tickets -> Nat]]
  /\ \A s \in Stage, t \in Tickets : Tally(job[s][t], told[s][t])

(* One job is somewhere else, or counts one more.                          *)
LEMMA JobStep ==
  ASSUME OnceInv, NEW s \in Stage, NEW t \in Tickets, NEW j \in JobRecord, NEW n \in Nat,
         Tally(j, n),
         job' = [job EXCEPT ![s][t] = j], told' = [told EXCEPT ![s][t] = n]
  PROVE  OnceInv'
<1>1. /\ job' \in [Stage -> [Tickets -> JobRecord]] /\ told' \in [Stage -> [Tickets -> Nat]]
      /\ \A r \in Stage, u \in Tickets :
           \/ r = s /\ u = t /\ job'[r][u] = j /\ told'[r][u] = n
           \/ job'[r][u] = job[r][u] /\ told'[r][u] = told[r][u]
  BY DEF OnceInv
<1>2. \A r \in Stage, u \in Tickets : Tally(job'[r][u], told'[r][u])
  BY <1>1 DEF OnceInv
<1> QED BY <1>1, <1>2 DEF OnceInv

(* One job moves on, and counts what it counted.                           *)
LEMMA MoveStep ==
  ASSUME OnceInv, NEW s \in Stage, NEW t \in Tickets, NEW j \in JobRecord,
         Tally(j, told[s][t]), job' = [job EXCEPT ![s][t] = j], UNCHANGED told
  PROVE  OnceInv'
<1> PICK n \in Nat : n = told[s][t]
  BY DEF OnceInv
<1>1. told' = [told EXCEPT ![s][t] = n]
  BY DEF OnceInv
<1> QED BY <1>1, JobStep

(* A job ends, and the queue forgets whatever it likes.                    *)
LEMMA EndStep ==
  ASSUME OnceInv, NEW s \in Stage, NEW t \in Tickets, NEW list, NEW as \in {"done", "failed"},
         EndJob(s, t, list, as)
  PROVE  OnceInv'
<1> DEFINE j == [pc |-> as, reruns |-> job[s][t].reruns]
<1>1. j \in JobRecord /\ j.pc = as /\ j.reruns = job[s][t].reruns /\ job[s][t] \in JobRecord
  BY DEF OnceInv, JobRecord
<1>2. NoJob \in JobRecord /\ NoJob.pc = "none" /\ NoJob.reruns = 0
  BY DEF NoJob, JobRecord
<1>3. Tally(j, told[s][t])
  BY <1>1 DEF OnceInv, Tally
<1>4. Tally(NoJob, 0)
  BY <1>2 DEF Tally
<1>5. /\ job' = [job EXCEPT ![s] = [u \in Tickets |->
            IF u \in Forgotten(list, t) THEN NoJob ELSE IF u = t THEN j ELSE job[s][u]]]
      /\ told' = [told EXCEPT ![s] = [u \in Tickets |-> IF u \in Forgotten(list, t) THEN 0 ELSE told[s][u]]]
  BY DEF EndJob
<1> HIDE DEF j
<1>6. job' \in [Stage -> [Tickets -> JobRecord]] /\ told' \in [Stage -> [Tickets -> Nat]]
  BY <1>1, <1>2, <1>5 DEF OnceInv
<1>7. ASSUME NEW r \in Stage, NEW u \in Tickets PROVE Tally(job'[r][u], told'[r][u])
  <2>1. CASE r # s
    BY <1>5, <2>1 DEF OnceInv
  <2>2. CASE r = s
    <3>1. /\ job'[r][u] = IF u \in Forgotten(list, t) THEN NoJob ELSE IF u = t THEN j ELSE job[s][u]
          /\ told'[r][u] = IF u \in Forgotten(list, t) THEN 0 ELSE told[s][u]
      BY <1>5, <2>2 DEF OnceInv
    <3> QED BY <1>3, <1>4, <3>1 DEF OnceInv
  <2> QED BY <2>1, <2>2
<1> QED BY <1>6, <1>7 DEF OnceInv

LEMMA OnceStep == OrderInv /\ OnceInv /\ [Next]_vars => OnceInv'
<1> SUFFICES ASSUME OrderInv, OnceInv, [Next]_vars PROVE OnceInv'
  OBVIOUS
<1>0. \A s \in Stage, t \in Tickets :
        /\ job[s][t] \in JobRecord /\ job[s][t].reruns \in {0, 1} /\ told[s][t] \in Nat
        /\ Tally(job[s][t], told[s][t])
  BY DEF OnceInv, JobRecord
<1>1. ASSUME UNCHANGED <<job, told>> PROVE OnceInv'
  BY <1>1 DEF OnceInv
<1>2. ASSUME NEW t \in Tickets, AddJob(t) PROVE OnceInv'
  <2> PICK s \in Stage : s = sweep.stage
    BY <1>2, StagesAreNumbers DEF AddJob, OrderInv, Typed
  <2> DEFINE j == [pc |-> "waiting", reruns |-> 0]
  <2>1. /\ UNCHANGED told
        /\ job' = IF job[s][t].pc = "none" THEN [job EXCEPT ![s][t] = j] ELSE job
    BY <1>2 DEF AddJob
  <2>2. CASE job[s][t].pc = "none"
    <3>1. j \in JobRecord /\ Tally(j, told[s][t])
      BY <1>0, <2>2 DEF JobRecord, Tally
    <3>2. job' = [job EXCEPT ![s][t] = j]
      BY <2>1, <2>2
    <3> HIDE DEF j
    <3> QED BY <2>1, <3>1, <3>2, MoveStep
  <2>3. CASE job[s][t].pc # "none"
    BY <1>1, <2>1, <2>3
  <2> QED BY <2>2, <2>3
<1>3. ASSUME NEW s \in Stage, NEW t \in Tickets, TakeJob(s, t) PROVE OnceInv'
  <2> DEFINE j == [job[s][t] EXCEPT !.pc = "running"]
  <2>1. job[s][t].pc = "waiting" /\ UNCHANGED told /\ job' = [job EXCEPT ![s][t] = j]
    BY <1>3 DEF TakeJob, OnceInv
  <2>2. j \in JobRecord /\ j.reruns = job[s][t].reruns /\ j.pc = "running"
    BY <1>0 DEF JobRecord
  <2>3. Tally(j, told[s][t])
    BY <1>0, <2>1, <2>2 DEF Tally
  <2> HIDE DEF j
  <2> QED BY <2>1, <2>2, <2>3, MoveStep
<1>4. ASSUME NEW s \in Stage, NEW t \in Tickets, WriteAudit(s, t) PROVE OnceInv'
  <2> DEFINE j == [job[s][t] EXCEPT !.pc = "written"]
             n == told[s][t] + 1
  <2>1. /\ job[s][t].pc = "running"
        /\ job' = [job EXCEPT ![s][t] = j] /\ told' = [told EXCEPT ![s][t] = n]
    BY <1>4 DEF WriteAudit, OnceInv
  <2>2. j \in JobRecord /\ n \in Nat /\ j.reruns = job[s][t].reruns /\ j.pc = "written"
    BY <1>0 DEF JobRecord
  <2>3. Tally(j, n)
    BY <1>0, <2>1, <2>2 DEF Tally
  <2> HIDE DEF j, n
  <2> QED BY <2>1, <2>2, <2>3, JobStep
<1>5. ASSUME NEW s \in Stage, NEW t \in Tickets, RunAgain(s, t) PROVE OnceInv'
  <2> DEFINE j == [pc |-> "waiting", reruns |-> 1]
  <2>1. job[s][t].reruns = 0 /\ UNCHANGED told /\ job' = [job EXCEPT ![s][t] = j]
    BY <1>5 DEF RunAgain
  <2>2. j \in JobRecord /\ Tally(j, told[s][t])
    BY <1>0, <2>1 DEF JobRecord, Tally
  <2> HIDE DEF j
  <2> QED BY <2>1, <2>2, MoveStep
<1>6. CASE Crash
  <2>1. /\ UNCHANGED told
        /\ job' = [s \in Stage |-> [t \in Tickets |->
             IF job[s][t].pc \in {"running", "written"}
             THEN [job[s][t] EXCEPT !.pc = "stalled"] ELSE job[s][t]]]
    BY <1>6 DEF Crash
  <2>2. \A s \in Stage, t \in Tickets :
          LET j == [job[s][t] EXCEPT !.pc = "stalled"]
          IN  j \in JobRecord /\ j.pc = "stalled" /\ j.reruns = job[s][t].reruns
    BY <1>0 DEF JobRecord
  <2>3. \A s \in Stage, t \in Tickets :
          \/ job'[s][t] = job[s][t]
          \/ /\ job'[s][t] \in JobRecord /\ job'[s][t].pc = "stalled"
             /\ job'[s][t].reruns = job[s][t].reruns
    BY <2>1, <2>2
  <2>4. job' \in [Stage -> [Tickets -> JobRecord]]
    BY <1>0, <2>1, <2>2
  <2>5. \A s \in Stage, t \in Tickets : Tally(job'[s][t], told'[s][t])
    BY <1>0, <2>1, <2>3 DEF Tally
  <2> QED BY <2>1, <2>4, <2>5 DEF OnceInv
<1>7. ASSUME UNCHANGED vars \/ HourStrikes \/ StartSweep \/ NextStage \/ (\E t \in Tickets : AddFails(t))
               \/ \E t \in Tickets, open \in BOOLEAN : TouchTicket(t, open)
      PROVE  OnceInv'
  BY <1>1, <1>7 DEF vars, HourStrikes, StartSweep, NextStage, AddFails, TouchTicket
<1>8. ASSUME NEW s \in Stage, NEW t \in Tickets, Complete(s, t) \/ GiveUp(s, t) PROVE OnceInv'
  BY <1>8, EndStep DEF Complete, GiveUp
<1>9. ASSUME NEW s \in Stage, Handle(s) PROVE OnceInv'
  BY <1>3, <1>4, <1>5, <1>8, <1>9 DEF Handle
<1> QED BY <1>2, <1>6, <1>7, <1>9 DEF Next, SweepStep

(***************************************************************************)
(* As long as its job is remembered, a ticket that is swept over again and *)
(* again is reminded of a stage once, and once more if the worker died     *)
(* over it, however often it dies.                                         *)
(***************************************************************************)
THEOREM RemindedOnce == Spec => []OncePerStage
<1>1. Init => OrderInv /\ OnceInv
  <2> SUFFICES ASSUME Init PROVE OrderInv /\ OnceInv
    OBVIOUS
  <2>1. NoJob \in JobRecord /\ NoJob.pc = "none" /\ NoJob.reruns = 0
    BY DEF NoJob, JobRecord
  <2>2. Tally(NoJob, 0)
    BY <2>1 DEF Tally
  <2>3. OnceInv
    BY <2>1, <2>2 DEF Init, OnceInv
  <2> QED BY <2>3, OrderInit
<1>2. OnceInv => OncePerStage
  BY DEF OnceInv, OncePerStage, Tally
<1> QED BY <1>1, <1>2, OrderStep, OnceStep, PTL DEF Spec

-----------------------------------------------------------------------------
LEMMA Amounts == Cost \in Nat \ {0} /\ Full \in Nat /\ Keep = 2 * Full /\ Later \in Nat
                 /\ Cost <= Full /\ Keep <= Later /\ Minute <= Later /\ Minute \in Nat \ {0}
<1>1. /\ Grain \in Nat \ {0} /\ Capacity \in Nat \ {0} /\ Minute \in Nat \ {0}
  BY RateAssumption
<1>2. Capacity * Grain \in Nat /\ Grain <= Capacity * Grain
  BY <1>1
<1> QED BY <1>1, <1>2 DEF Cost, Full, Keep, Later

-----------------------------------------------------------------------------
(***************************************************************************)
(* Whoever counts has seen no more tokens than the burst and the time      *)
(* since have paid for, counting what the bucket holds now; and while the  *)
(* minute of the watch lasts, the count in Redis is the longer one.        *)
(***************************************************************************)
RateInv ==
  /\ RateTypeOK
  /\ watch.seen * Cost + TokensNow <= Full + watch.age
  /\ watch.age < Minute /\ watch.seen > 0 =>
       bucket.age <= watch.age /\ watch.seen <= bucket.count

LEMMA TokensInRange == RateTypeOK => TokensNow \in 0..Full /\ CountNow \in 0..PerMinute
<1>1. PerMinute \in Nat
  BY RateAssumption
<1> QED BY <1>1, Amounts DEF RateTypeOK, TokensNow, CountNow

LEMMA RateStep == RateInv /\ [RateNext]_rateVars => RateInv'
<1> SUFFICES ASSUME RateInv, [RateNext]_rateVars PROVE RateInv'
  OBVIOUS
<1>0. /\ bucket \in [tokens : 0..Full, count : 0..PerMinute, age : 0..Later]
      /\ watch \in [age : 0..Later, seen : Nat]
      /\ PerMinute \in Nat /\ TokensNow \in 0..Full /\ CountNow \in 0..PerMinute
  BY TokensInRange, RateAssumption DEF RateInv, RateTypeOK
<1>1. CASE UNCHANGED rateVars
  BY <1>1 DEF RateInv, RateTypeOK, TokensNow, rateVars
<1>2. CASE Take
  <2>1. bucket' = [tokens |-> TokensNow - Cost, count |-> CountNow + 1, age |-> 0]
    BY <1>2 DEF Take
  <2>2. TokensNow - Cost \in 0..Full /\ CountNow + 1 \in 0..PerMinute
    BY <1>0, <1>2, Amounts DEF Take, Granted
  <2>3. bucket' \in [tokens : 0..Full, count : 0..PerMinute, age : 0..Later]
    BY <2>1, <2>2, Amounts
  <2>4. TokensNow' = TokensNow - Cost
    BY <2>1, <2>2, Amounts DEF TokensNow
  <2>5. CASE watch = Unwatched
    <3>1. watch' = watch /\ watch.seen = 0 /\ watch.age = Later
      BY <1>2, <2>5 DEF Take, Unwatched
    <3>2. watch.seen * Cost = 0
      BY <3>1, Amounts
    <3> QED BY <1>0, <2>2, <2>3, <2>4, <3>1, <3>2, Amounts DEF RateInv, RateTypeOK
  <2>6. CASE watch # Unwatched
    <3>1. watch'.age = watch.age /\ watch'.seen = watch.seen + 1
          /\ watch' \in [age : 0..Later, seen : Nat]
      BY <1>0, <1>2, <2>6 DEF Take
    <3> DEFINE before == watch.seen * Cost
    <3>2. before \in Nat /\ watch'.seen * Cost = before + Cost
      BY <1>0, <3>1, Amounts
    <3>3. before + TokensNow <= Full + watch.age
      BY DEF RateInv
    <3> HIDE DEF before
    <3>4. watch'.seen * Cost + TokensNow' <= Full + watch'.age
      BY <1>0, <2>4, <3>1, <3>2, <3>3, Amounts
    <3>5. watch.age < Minute /\ watch.seen > 0 => CountNow = bucket.count /\ watch.seen <= bucket.count
      BY <1>0, Amounts DEF RateInv, CountNow
    <3>6. watch'.age < Minute => watch'.seen <= CountNow + 1
      BY <1>0, <3>1, <3>5, Amounts
    <3> QED BY <1>0, <2>1, <2>3, <3>1, <3>4, <3>6 DEF RateInv, RateTypeOK
  <2> QED BY <2>5, <2>6
<1>3. CASE Refuse
  BY <1>1, <1>3 DEF Refuse
<1>4. CASE Pass
  <2>1. bucket' \in [tokens : 0..Full, count : 0..PerMinute, age : 0..Later]
        /\ bucket'.tokens = bucket.tokens /\ bucket'.count = bucket.count
        /\ bucket'.age = Older(bucket.age) /\ bucket'.age <= bucket.age + 1
    BY <1>0, <1>4, Amounts DEF Pass, Older
  <2>2. TokensNow' \in 0..Full /\ TokensNow' <= TokensNow + 1
    BY <1>0, <2>1, Amounts DEF TokensNow, Older
  <2>3. CASE watch.age + 1 < Later
    <3>1. watch'.age = watch.age + 1 /\ watch'.seen = watch.seen
          /\ watch' \in [age : 0..Later, seen : Nat]
      BY <1>0, <1>4, <2>3, Amounts DEF Pass
    <3> DEFINE paid == watch.seen * Cost
    <3>2. paid \in Nat /\ watch'.seen * Cost = paid
      BY <1>0, <3>1, Amounts
    <3>3. paid + TokensNow <= Full + watch.age
      BY DEF RateInv
    <3> HIDE DEF paid
    <3>4. watch'.seen * Cost + TokensNow' <= Full + watch'.age
      BY <1>0, <2>2, <3>1, <3>2, <3>3, Amounts
    <3>5. watch'.age < Minute /\ watch'.seen > 0 => bucket'.age <= watch'.age /\ watch'.seen <= bucket'.count
      BY <1>0, <2>1, <3>1, Amounts DEF RateInv
    <3> QED BY <2>1, <3>1, <3>4, <3>5 DEF RateInv, RateTypeOK
  <2>4. CASE ~(watch.age + 1 < Later)
    <3>1. watch' = [age |-> Later, seen |-> 0]
      BY <1>4, <2>4 DEF Pass, Unwatched
    <3>2. watch'.seen * Cost = 0
      BY <3>1, Amounts
    <3>3. watch' \in [age : 0..Later, seen : Nat] /\ ~(watch'.seen > 0) /\ watch'.age = Later
      BY <3>1, Amounts
    <3>4. watch'.seen * Cost + TokensNow' <= Full + watch'.age
      BY <2>2, <3>2, <3>3, Amounts
    <3> QED BY <2>1, <3>3, <3>4 DEF RateInv, RateTypeOK
  <2> QED BY <2>3, <2>4
<1>5. CASE Watch
  <2>1. watch' = [age |-> 0, seen |-> 0] /\ bucket' = bucket
    BY <1>5 DEF Watch
  <2>2. watch'.seen * Cost = 0 /\ TokensNow' = TokensNow
    BY <2>1, Amounts DEF TokensNow
  <2> QED BY <1>0, <2>1, <2>2, Amounts DEF RateInv, RateTypeOK
<1> QED BY <1>1, <1>2, <1>3, <1>4, <1>5 DEF RateNext

(* Whatever the gateway does, the rate limit sees as one of its own steps. *)
LEMMA GatewaySteps == [WaNext]_waVars => [RateNext]_rateVars
BY DEF WaNext, waVars, RateNext, EnsureSession, Made, Consume, HandOver, Reconnected, Opens,
       ClosesForGood, Closes, MakingFails, Tick, BeginWatch, Restart

(***************************************************************************)
(* No watch ever sees more messages go than a burst and one for each       *)
(* second, nor more than maxPerMinute within a minute: however often       *)
(* sockets are lost and the process restarts, and whatever else is asked   *)
(* for.                                                                    *)
(***************************************************************************)
THEOREM SendsWithinLimits == WaSpec => []GivenWithinLimits
<1>1. WaInit => RateInv
  <2> SUFFICES ASSUME WaInit PROVE RateInv
    OBVIOUS
  <2>1. bucket = [tokens |-> Full, count |-> 0, age |-> Later] /\ watch = [age |-> Later, seen |-> 0]
    BY DEF WaInit, RateInit, Unwatched
  <2>2. watch.seen * Cost = 0 /\ TokensNow = Full /\ PerMinute \in Nat
    BY <2>1, Amounts, RateAssumption DEF TokensNow
  <2> QED BY <2>1, <2>2, Amounts DEF RateInv, RateTypeOK
<1>2. RateInv /\ [WaNext]_waVars => RateInv'
  BY RateStep, GatewaySteps
<1>3. RateInv => GivenWithinLimits
  <2> SUFFICES ASSUME RateInv PROVE GivenWithinLimits
    OBVIOUS
  <2>1. TokensNow \in Nat /\ watch.age \in Nat /\ watch.seen \in Nat
        /\ bucket.count \in 0..PerMinute /\ PerMinute \in Nat
    BY TokensInRange, RateAssumption DEF RateInv, RateTypeOK
  <2> DEFINE paid == watch.seen * Cost
  <2>2. paid \in Nat /\ paid + TokensNow <= Full + watch.age
    BY <2>1, Amounts DEF RateInv
  <2> HIDE DEF paid
  <2>3. paid <= Full + watch.age
    BY <2>1, <2>2, Amounts
  <2>4. watch.age < Minute => watch.seen <= PerMinute
    BY <2>1 DEF RateInv
  <2> QED BY <2>3, <2>4 DEF GivenWithinLimits, paid
<1> QED BY <1>1, <1>2, <1>3, PTL DEF WaSpec

-----------------------------------------------------------------------------
(***************************************************************************)
(* As long as no two sockets were being made together, at most one is, and *)
(* then there is none in the map and none alive.                           *)
(***************************************************************************)
MakersInv ==
  /\ socket \in [Sockets -> {"none", "connecting", "open", "close"}]
  /\ session \in Sockets \cup {NoSocket}
  /\ status \in [connection : {"none", "connecting", "open", "close"}, paused : BOOLEAN]
  /\ call \in [Callers -> [pc : {"idle", "making", "asking", "sending"}, op : {"connect", "send"}]]
  /\ reconnects \in Nat
  /\ ~overlapped =>
       /\ reconnects <= 1
       /\ reconnects = 1 => \A c \in Callers : call[c].pc # "making"
       /\ \A c, d \in Callers : call[c].pc = "making" /\ call[d].pc = "making" => c = d
       /\ Making => session = NoSocket

SocketInv == MakersInv /\ OneSocketAtATime

(* A socket that is made has the map to itself, and to its end.            *)
LEMMA MadeAlone ==
  ASSUME SocketInv, NEW k \in Sockets, MakeSocket(k), ~overlapped, Making
  PROVE  /\ Live' = {session'} \ {NoSocket}
         /\ session' # NoSocket
         /\ status'.connection = socket'[session'] /\ ~status'.paused
<1>1. Live = {}
  BY DEF SocketInv, MakersInv, OneSocketAtATime
<1>2. socket' = [socket EXCEPT ![k] = "connecting"]
      /\ socket \in [Sockets -> {"none", "connecting", "open", "close"}]
      /\ session' = k /\ k # NoSocket
  BY GatewayAssumption DEF MakeSocket, SocketInv, MakersInv
<1>3. Live' = {k} /\ socket'[k] = "connecting"
  BY <1>1, <1>2 DEF Live
<1> QED BY <1>2, <1>3 DEF MakeSocket

LEMMA MadeTyped ==
  ASSUME MakersInv, NEW k \in Sockets, MakeSocket(k)
  PROVE  /\ socket' \in [Sockets -> {"none", "connecting", "open", "close"}]
         /\ session' \in Sockets \cup {NoSocket}
         /\ status' \in [connection : {"none", "connecting", "open", "close"}, paused : BOOLEAN]
BY DEF MakersInv, MakeSocket

LEMMA SocketStep == SocketInv /\ [WaNext]_waVars => SocketInv'
<1> SUFFICES ASSUME SocketInv, [WaNext]_waVars PROVE SocketInv'
  OBVIOUS
<1> USE DEF SocketInv
<1>0. \A c \in Callers : call[c].pc \in {"idle", "making", "asking", "sending"}
  BY DEF MakersInv
<1>1. ASSUME UNCHANGED gatewayVars PROVE SocketInv'
  BY <1>1 DEF gatewayVars, MakersInv, OneSocketAtATime, Making, Live
<1>2. ASSUME NEW c \in Callers, NEW op \in {"connect", "send"}, EnsureSession(c, op) PROVE SocketInv'
  <2>1. UNCHANGED <<socket, session, status, reconnects>>
    BY <1>2 DEF EnsureSession
  <2>2. ~Making => reconnects = 0 /\ \A d \in Callers : call[d].pc # "making"
    BY DEF Making, MakersInv
  <2>3. CASE session # NoSocket
    <3>1. overlapped' = overlapped /\ call' = [call EXCEPT ![c] = [pc |-> "asking", op |-> op]]
      BY <1>2, <2>3 DEF EnsureSession
    <3>2. Making' => Making
      BY <2>1, <3>1 DEF MakersInv, Making
    <3> QED BY <2>1, <3>1, <3>2 DEF MakersInv, OneSocketAtATime, Live
  <2>4. CASE session = NoSocket
    <3>1. call' = [call EXCEPT ![c] = [pc |-> "making", op |-> op]] /\ overlapped' = (overlapped \/ Making)
      BY <1>2, <2>4 DEF EnsureSession
    <3>2. ~overlapped' => reconnects = 0 /\ \A d \in Callers : call[d].pc # "making"
      BY <2>2, <3>1, Zenon
    <3>3. call' \in [Callers -> [pc : {"idle", "making", "asking", "sending"}, op : {"connect", "send"}]]
          /\ \A d \in Callers : d # c => call'[d] = call[d]
      BY <3>1 DEF MakersInv
    <3>4. ~overlapped' => \A d, e \in Callers : call'[d].pc = "making" /\ call'[e].pc = "making" => d = e
      BY <3>2, <3>3
    <3>5. ~overlapped' => ~overlapped
      BY <3>1, Zenon
    <3>6. MakersInv'
      BY <2>1, <2>4, <3>2, <3>3, <3>4 DEF MakersInv
    <3> QED BY <2>1, <3>5, <3>6 DEF OneSocketAtATime, Live
  <2> QED BY <2>3, <2>4
<1>3. ASSUME NEW c \in Callers, NEW k \in Sockets, Made(c, k) PROVE SocketInv'
  <2>1. Making /\ MakeSocket(k) /\ UNCHANGED <<reconnects, overlapped>>
    BY <1>3 DEF Made, Making
  <2>2. call' \in [Callers -> [pc : {"idle", "making", "asking", "sending"}, op : {"connect", "send"}]]
        /\ call'[c].pc # "making" /\ \A d \in Callers : d # c => call'[d] = call[d]
    BY <1>3 DEF Made, MakersInv, IdleCall
  <2>3. ~overlapped => ~Making'
    BY <1>3, <2>1, <2>2 DEF Made, MakersInv, Making
  <2>4. MakersInv'
    BY <2>1, <2>2, <2>3, MadeTyped DEF MakersInv
  <2>5. OneSocketAtATime'
    BY <2>1, MadeAlone DEF OneSocketAtATime
  <2> QED BY <2>4, <2>5
<1>4. ASSUME NEW k \in Sockets, Reconnected(k) PROVE SocketInv'
  <2>1. Making /\ MakeSocket(k) /\ UNCHANGED <<call, overlapped>>
        /\ reconnects' = reconnects - 1 /\ reconnects > 0
    BY <1>4 DEF Reconnected, Making
  <2>2. reconnects' \in Nat
    BY <2>1 DEF MakersInv
  <2>3. ~overlapped => ~Making' /\ reconnects' = 0
    BY <2>1 DEF MakersInv, Making
  <2>4. MakersInv'
    BY <2>1, <2>2, <2>3, MadeTyped DEF MakersInv
  <2>5. OneSocketAtATime'
    BY <2>1, MadeAlone DEF OneSocketAtATime
  <2> QED BY <2>4, <2>5
<1>5. CASE MakingFails
  <2>1. UNCHANGED <<socket, session, status, overlapped>>
    BY <1>5 DEF MakingFails
  <2>2. ASSUME NEW c \in Callers, call' = [call EXCEPT ![c] = IdleCall], UNCHANGED reconnects
        PROVE  SocketInv'
    <3>1. Making' => Making
      BY <2>2 DEF MakersInv, Making, IdleCall
    <3> QED BY <2>1, <2>2, <3>1 DEF MakersInv, OneSocketAtATime, Live, IdleCall
  <2>3. CASE reconnects > 0 /\ reconnects' = reconnects - 1 /\ UNCHANGED call
    <3>1. reconnects' \in Nat /\ (Making' => Making)
      BY <2>3 DEF MakersInv, Making
    <3> QED BY <2>1, <2>3, <3>1 DEF MakersInv, OneSocketAtATime, Live
  <2> QED BY <1>5, <2>2, <2>3 DEF MakingFails
<1>6. ASSUME NEW k \in Sockets, Opens(k) PROVE SocketInv'
  <2>1. UNCHANGED <<session, call, reconnects, overlapped>> /\ k \in Live /\ k # NoSocket
        /\ socket' = [socket EXCEPT ![k] = "open"] /\ status' = [connection |-> "open", paused |-> FALSE]
    BY <1>6, GatewayAssumption DEF Opens, Live
  <2>2. Live' = Live /\ socket'[k] = "open" /\ (Making' <=> Making)
    BY <2>1 DEF Live, Making, MakersInv
  <2>3. ~overlapped => session = k
    BY <2>1 DEF OneSocketAtATime
  <2> QED BY <2>1, <2>2, <2>3 DEF MakersInv, OneSocketAtATime
<1>7. ASSUME NEW k \in Sockets, ClosesForGood(k) PROVE SocketInv'
  <2>1. UNCHANGED <<call, reconnects, overlapped>> /\ k \in Live /\ session' = NoSocket
        /\ socket' = [socket EXCEPT ![k] = "close"] /\ status' = [connection |-> "close", paused |-> TRUE]
    BY <1>7 DEF ClosesForGood
  <2>2. Live' = Live \ {k}
    BY <2>1 DEF Live, MakersInv
  <2>3. ~overlapped => Live' = {}
    BY <2>1, <2>2 DEF OneSocketAtATime
  <2> QED BY <2>1, <2>3 DEF MakersInv, OneSocketAtATime, Making, NoStatus
<1>8. ASSUME NEW k \in Sockets, Closes(k) PROVE SocketInv'
  <2>1. UNCHANGED call /\ reconnects' = reconnects + 1 /\ overlapped' = (overlapped \/ Making)
        /\ k \in Live /\ session' = NoSocket
        /\ socket' = [socket EXCEPT ![k] = "close"] /\ status' = [status EXCEPT !.connection = "close"]
    BY <1>8 DEF Closes
  <2>2. Live' = Live \ {k}
    BY <2>1 DEF Live, MakersInv
  <2>3. ~overlapped' => ~overlapped /\ ~Making
    BY <2>1, Zenon
  <2>4. ~Making => reconnects = 0 /\ \A c \in Callers : call[c].pc # "making"
    BY DEF Making, MakersInv
  <2>5. ~overlapped' => Live = {session} \ {NoSocket}
    BY <2>3 DEF OneSocketAtATime
  <2>6. ~overlapped' => Live' = {} /\ reconnects = 0 /\ \A c \in Callers : call[c].pc # "making"
    BY <2>1, <2>2, <2>3, <2>4, <2>5
  <2> QED BY <2>1, <2>6 DEF MakersInv, OneSocketAtATime, Making, NoStatus
<1>9. ASSUME NEW c \in Callers, Consume(c) \/ HandOver(c) PROVE SocketInv'
  <2>1. UNCHANGED <<socket, session, status, reconnects, overlapped>>
    BY <1>9 DEF Consume, HandOver
  <2>2. call' \in [Callers -> [pc : {"idle", "making", "asking", "sending"}, op : {"connect", "send"}]]
        /\ \A d \in Callers : call'[d].pc = "making" => call[d].pc = "making"
    BY <1>9 DEF Consume, HandOver, MakersInv, IdleCall
  <2>3. Making' => Making
    BY <2>1, <2>2 DEF Making
  <2> QED BY <2>1, <2>2, <2>3 DEF MakersInv, OneSocketAtATime, Live
<1>10. CASE Restart
  <2>1. /\ socket' = [k \in Sockets |-> "none"] /\ session' = NoSocket /\ status' = NoStatus
        /\ call' = [c \in Callers |-> IdleCall] /\ reconnects' = 0 /\ overlapped' = FALSE
    BY <1>10 DEF Restart, Booted
  <2>2. Live' = {} /\ ~Making'
    BY <2>1 DEF Live, Making, IdleCall
  <2>3. status' \in [connection : {"none", "connecting", "open", "close"}, paused : BOOLEAN]
    BY <2>1 DEF NoStatus
  <2>4. call' \in [Callers -> [pc : {"idle", "making", "asking", "sending"}, op : {"connect", "send"}]]
        /\ \A c \in Callers : call'[c].pc # "making"
    BY <2>1 DEF IdleCall
  <2>5. MakersInv'
    BY <2>1, <2>2, <2>3, <2>4 DEF MakersInv
  <2>6. OneSocketAtATime'
    BY <2>1, <2>2 DEF OneSocketAtATime, NoStatus
  <2> QED BY <2>5, <2>6
<1> QED BY <1>1, <1>2, <1>3, <1>4, <1>5, <1>6, <1>7, <1>8, <1>9, <1>10
        DEF WaNext, waVars, Tick, BeginWatch

(***************************************************************************)
(* As long as sockets are made one at a time there is one, the one in the  *)
(* map, and the state map tells how it is.                                 *)
(***************************************************************************)
THEOREM SocketsStayOne == WaSpec => []OneSocketAtATime
<1>1. WaInit => SocketInv
  <2> SUFFICES ASSUME WaInit PROVE SocketInv
    OBVIOUS
  <2>1. /\ socket = [k \in Sockets |-> "none"] /\ session = NoSocket /\ status = NoStatus
        /\ call = [c \in Callers |-> IdleCall] /\ reconnects = 0 /\ overlapped = FALSE
    BY DEF WaInit
  <2>2. Live = {} /\ ~Making
    BY <2>1 DEF Live, Making, IdleCall
  <2>3. status \in [connection : {"none", "connecting", "open", "close"}, paused : BOOLEAN]
    BY <2>1 DEF NoStatus
  <2>4. call \in [Callers -> [pc : {"idle", "making", "asking", "sending"}, op : {"connect", "send"}]]
        /\ \A c \in Callers : call[c].pc # "making"
    BY <2>1 DEF IdleCall
  <2>5. MakersInv
    BY <2>1, <2>2, <2>3, <2>4 DEF MakersInv
  <2>6. OneSocketAtATime
    BY <2>1, <2>2 DEF OneSocketAtATime, NoStatus
  <2> QED BY <2>5, <2>6 DEF SocketInv
<1> QED BY <1>1, SocketStep, PTL DEF WaSpec, SocketInv
=============================================================================
