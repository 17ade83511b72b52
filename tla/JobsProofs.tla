------------------------------ MODULE JobsProofs ------------------------------
(***************************************************************************)
(* What is done out of a queue.  The worker's jobs and the webhook, for    *)
(* any messages, batches, files and requests, and the receipts, for any    *)
(* number of prints and devices; with any number of deaths, errors and     *)
(* losses.                                                                 *)
(***************************************************************************)
EXTENDS WorkerJobs, Printing, FiniteSetTheorems, SequenceTheorems, TLAPS

-----------------------------------------------------------------------------
JobRecord ==
  [pc : {"none", "waiting", "session", "stored", "bucket", "done", "ended"}, reruns : Nat]

Typed ==
  /\ job \in [Work -> JobRecord]
  /\ rows \in [Chats \cup Posted -> Nat]
  /\ crm \in [Inbound -> Nat]
  /\ phone \subseteq Inbound /\ \A m \in phone : job[m].pc = "none"

(***************************************************************************)
(* Where a job is tells whether this run of it has stored its message yet, *)
(* and logged it.                                                          *)
(***************************************************************************)
Early == {"none", "waiting", "session"}

StoredBy(j, n) == IF j.pc \in Early THEN n <= j.reruns ELSE n <= 1 + j.reruns

Counted(w) ==
  /\ w \in Chats => StoredBy(job[w], rows[w])
  /\ w \in Inbound => IF job[w].pc = "stored" THEN crm[w] < rows[w] ELSE crm[w] <= rows[w]
  /\ w \in Files => \A o \in ObjectsOf(w) : o = <<w, 0>>
  /\ w \in Backups => \A o \in ObjectsOf(w) : \E k \in 0..job[w].reruns : o = <<w, k>>

JobsInv == Typed /\ \A w \in Work : Counted(w)

LEMMA Kinds ==
  /\ Inbound \subseteq Chats /\ Chats \subseteq Work /\ Files \subseteq Work /\ Backups \subseteq Work
  /\ \A w \in Chats : w \notin Files /\ w \notin Backups
  /\ \A w \in Files : w \notin Backups
  /\ \A m \in Posted : m \notin Chats
BY WorkerJobsAssumption DEF Chats, Work

(* A job may go from i to j without anything being stored.                 *)
MayGo(i, j) ==
  /\ j \in JobRecord /\ i.reruns <= j.reruns /\ j.pc # "stored"
  /\ j.pc \in Early => i.pc \in Early \/ i.reruns < j.reruns

LEMMA MovedCounted ==
  ASSUME JobsInv, NEW w \in Work, UNCHANGED <<rows, crm, objects>>,
         job'[w] = job[w] \/ MayGo(job[w], job'[w])
  PROVE  Counted(w)'
<1>1. /\ Counted(w) /\ job[w] \in JobRecord
      /\ (w \in Chats => rows[w] \in Nat) /\ (w \in Inbound => crm[w] \in Nat /\ w \in Chats)
  BY Kinds DEF JobsInv, Typed
<1>2. CASE job'[w] = job[w]
  BY <1>1, <1>2 DEF Counted, ObjectsOf
<1>3. CASE MayGo(job[w], job'[w])
  <2> DEFINE j == job'[w]
  <2>1. j \in JobRecord /\ job[w].reruns \in Nat /\ j.reruns \in Nat /\ job[w].reruns <= j.reruns
    BY <1>1, <1>3 DEF MayGo, JobRecord
  <2>2. ASSUME w \in Chats PROVE StoredBy(j, rows[w])
    <3>1. StoredBy(job[w], rows[w]) /\ rows[w] \in Nat
      BY <1>1, <2>2 DEF Counted
    <3> HIDE DEF j
    <3> QED BY <1>3, <2>1, <3>1 DEF MayGo, StoredBy, j
  <2>3. w \in Inbound => crm[w] <= rows[w]
    BY <1>1 DEF Counted
  <2>4. j.pc # "stored"
    BY <1>3 DEF MayGo
  <2>5. ObjectsOf(w)' = ObjectsOf(w) /\ 0..job[w].reruns \subseteq 0..j.reruns
    BY <2>1 DEF ObjectsOf
  <2>6. /\ w \in Files => \A o \in ObjectsOf(w) : o = <<w, 0>>
        /\ w \in Backups => \A o \in ObjectsOf(w) : \E k \in 0..job[w].reruns : o = <<w, k>>
    BY <1>1 DEF Counted
  <2>7. w \in Backups => \A o \in ObjectsOf(w) : \E k \in 0..j.reruns : o = <<w, k>>
    BY <2>5, <2>6
  <2> HIDE DEF j
  <2> QED BY <2>2, <2>3, <2>4, <2>5, <2>6, <2>7 DEF Counted, j
<1> QED BY <1>2, <1>3

(* One job goes.                                                           *)
LEMMA MoveStep ==
  ASSUME JobsInv, NEW w \in Work, NEW pc, Goto(w, pc), UNCHANGED <<rows, crm, objects, phone>>,
         w \notin phone, MayGo(job[w], [job[w] EXCEPT !.pc = pc])
  PROVE  JobsInv'
<1>1. /\ job'[w] = [job[w] EXCEPT !.pc = pc] /\ \A v \in Work : v # w => job'[v] = job[v]
      /\ job' \in [Work -> JobRecord]
  BY DEF JobsInv, Typed, Goto, MayGo
<1>2. Typed'
  BY <1>1, Kinds DEF JobsInv, Typed
<1>3. \A v \in Work : job'[v] = job[v] \/ MayGo(job[v], job'[v])
  BY <1>1
<1>4. \A v \in Work : Counted(v)'
  BY <1>3, MovedCounted
<1> QED BY <1>2, <1>4 DEF JobsInv

LEMMA MayGoOn ==
  ASSUME NEW i \in JobRecord, NEW pc \in {"waiting", "session", "bucket", "done", "ended"},
         pc \in Early => i.pc \in Early
  PROVE  MayGo(i, [i EXCEPT !.pc = pc])
BY DEF MayGo, JobRecord

LEMMA MayGoAgain ==
  ASSUME NEW i \in JobRecord PROVE MayGo(i, [pc |-> "waiting", reruns |-> i.reruns + 1])
BY DEF MayGo, JobRecord

(* A message is stored: the count its job's place promised, and one.       *)
LEMMA StoreStep == ASSUME JobsInv, NEW w \in Work, StoreMessage(w) PROVE JobsInv'
<1> DEFINE pc == IF w \in Inbound THEN "stored" ELSE "done"
<1>1. /\ w \in Chats /\ job[w].pc = "session" /\ UNCHANGED <<crm, objects, phone>>
      /\ rows' = [rows EXCEPT ![w] = @ + 1] /\ job' = [job EXCEPT ![w].pc = pc]
  BY DEF StoreMessage, Goto
<1>2. /\ job[w] \in JobRecord /\ rows[w] \in Nat /\ w \notin phone
  BY <1>1, Kinds DEF JobsInv, Typed
<1>3. /\ job' \in [Work -> JobRecord] /\ job'[w] = [job[w] EXCEPT !.pc = pc]
      /\ \A v \in Work : v # w => job'[v] = job[v]
  BY <1>1, <1>2 DEF JobsInv, Typed, JobRecord
<1>4. /\ rows' \in [Chats \cup Posted -> Nat] /\ rows'[w] = rows[w] + 1
      /\ \A v \in Chats : v # w => rows'[v] = rows[v]
  BY <1>1, <1>2 DEF JobsInv, Typed
<1>5. Typed'
  BY <1>1, <1>2, <1>3, <1>4, Kinds DEF JobsInv, Typed
<1>6. ASSUME NEW v \in Work, v # w PROVE Counted(v)'
  BY <1>1, <1>3, <1>4, <1>6, Kinds DEF JobsInv, Counted, ObjectsOf
<1>7. Counted(w)'
  <2>1. rows[w] <= job[w].reruns /\ (w \in Inbound => crm[w] <= rows[w] /\ crm[w] \in Nat)
    BY <1>1, <1>2 DEF JobsInv, Typed, Counted, StoredBy, Early
  <2>2. job'[w].reruns = job[w].reruns /\ job[w].reruns \in Nat
        /\ job'[w].pc = pc /\ pc \notin Early /\ (w \in Inbound <=> pc = "stored")
    BY <1>2, <1>3 DEF JobRecord, Early
  <2>3. StoredBy(job'[w], rows'[w])
    BY <1>2, <1>4, <2>1, <2>2 DEF StoredBy
  <2>4. w \in Inbound => crm'[w] < rows'[w]
    BY <1>1, <1>2, <1>4, <2>1
  <2> HIDE DEF pc
  <2> QED BY <1>1, <2>2, <2>3, <2>4, Kinds DEF Counted
<1> QED BY <1>5, <1>6, <1>7 DEF JobsInv

LEMMA LogStep == ASSUME JobsInv, NEW w \in Work, LogInteraction(w) PROVE JobsInv'
<1>1. /\ w \in Inbound /\ job[w].pc = "stored" /\ UNCHANGED <<rows, objects, phone>>
      /\ crm' \in {crm, [crm EXCEPT ![w] = @ + 1]} /\ job' = [job EXCEPT ![w].pc = "done"]
  BY DEF LogInteraction, Goto
<1>2. /\ job[w] \in JobRecord /\ rows[w] \in Nat /\ crm[w] \in Nat /\ w \notin phone /\ w \in Chats
  BY <1>1, Kinds DEF JobsInv, Typed
<1>3. /\ job' \in [Work -> JobRecord] /\ job'[w] = [job[w] EXCEPT !.pc = "done"]
      /\ \A v \in Work : v # w => job'[v] = job[v]
  BY <1>1, <1>2 DEF JobsInv, Typed, JobRecord
<1>4. /\ crm' \in [Inbound -> Nat] /\ crm'[w] <= crm[w] + 1
      /\ \A v \in Inbound : v # w => crm'[v] = crm[v]
  BY <1>1, <1>2 DEF JobsInv, Typed
<1>5. Typed'
  BY <1>1, <1>2, <1>3, <1>4 DEF JobsInv, Typed
<1>6. ASSUME NEW v \in Work, v # w PROVE Counted(v)'
  BY <1>1, <1>3, <1>4, <1>6 DEF JobsInv, Counted, ObjectsOf
<1>7. Counted(w)'
  <2>1. StoredBy(job[w], rows[w]) /\ crm[w] < rows[w]
    BY <1>1, <1>2 DEF JobsInv, Counted
  <2>2. job'[w].reruns = job[w].reruns /\ job[w].reruns \in Nat /\ job'[w].pc = "done"
    BY <1>2, <1>3 DEF JobRecord
  <2>3. StoredBy(job'[w], rows'[w])
    BY <1>1, <1>2, <2>1, <2>2 DEF StoredBy, Early
  <2>4. crm'[w] \in Nat /\ crm'[w] <= rows'[w]
    BY <1>1, <1>2, <1>4, <2>1
  <2> QED BY <1>2, <2>2, <2>3, <2>4, Kinds DEF Counted
<1> QED BY <1>5, <1>6, <1>7 DEF JobsInv

LEMMA PutStep == ASSUME JobsInv, NEW w \in Work, PutObject(w) PROVE JobsInv'
<1> DEFINE new == <<w, IF w \in Backups THEN job[w].reruns ELSE 0>>
<1>1. /\ job[w].pc = "bucket" /\ UNCHANGED <<rows, crm, phone>>
      /\ objects' = objects \cup {new} /\ job' = [job EXCEPT ![w].pc = "done"]
  BY DEF PutObject, Goto
<1>2. job[w] \in JobRecord /\ w \notin phone
  BY <1>1 DEF JobsInv, Typed
<1>3. /\ job' \in [Work -> JobRecord] /\ job'[w] = [job[w] EXCEPT !.pc = "done"]
      /\ \A v \in Work : v # w => job'[v] = job[v]
  BY <1>1, <1>2 DEF JobsInv, Typed, JobRecord
<1>4. Typed'
  BY <1>1, <1>2, <1>3 DEF JobsInv, Typed
<1>5. /\ ObjectsOf(w)' = ObjectsOf(w) \cup {new}
      /\ \A v \in Work : v # w => ObjectsOf(v)' = ObjectsOf(v)
  BY <1>1 DEF ObjectsOf
<1>6. ASSUME NEW v \in Work, v # w PROVE Counted(v)'
  BY <1>1, <1>3, <1>5, <1>6 DEF JobsInv, Counted
<1>7. Counted(w)'
  <2>1. job'[w].reruns = job[w].reruns /\ job[w].reruns \in Nat /\ job'[w].pc = "done"
    BY <1>2, <1>3 DEF JobRecord
  <2>2. w \in Chats => StoredBy(job'[w], rows'[w])
    BY <1>1, <2>1 DEF JobsInv, Counted, StoredBy, Early
  <2>3. w \in Inbound => crm'[w] <= rows'[w]
    BY <1>1 DEF JobsInv, Counted
  <2>4. w \in Files => \A o \in ObjectsOf(w)' : o = <<w, 0>>
    BY <1>5, Kinds DEF JobsInv, Counted
  <2>5. w \in Backups => \A o \in ObjectsOf(w)' : \E k \in 0..job[w].reruns : o = <<w, k>>
    <3>1. job[w].reruns \in 0..job[w].reruns
      BY <2>1
    <3> QED BY <1>5, <3>1 DEF JobsInv, Counted
  <2> QED BY <2>1, <2>2, <2>3, <2>4, <2>5 DEF Counted
<1> QED BY <1>4, <1>6, <1>7 DEF JobsInv

LEMMA WorkerDiesStep == ASSUME JobsInv, WorkerDies PROVE JobsInv'
<1>1. /\ UNCHANGED <<phone, rows, crm, objects>>
      /\ job' = [w \in Work |-> IF Active(w) THEN Rerun(w) ELSE job[w]]
  BY DEF WorkerDies
<1>2. ASSUME NEW w \in Work PROVE MayGo(job[w], Rerun(w))
  <2>1. job[w] \in JobRecord /\ MaxStalls \in Nat
    BY WorkerJobsAssumption DEF JobsInv, Typed
  <2>2. CASE job[w].reruns < MaxStalls
    <3>1. Rerun(w) = [pc |-> "waiting", reruns |-> job[w].reruns + 1]
      BY <2>2 DEF Rerun
    <3> QED BY <2>1, <3>1, MayGoAgain
  <2>3. CASE ~(job[w].reruns < MaxStalls)
    BY <2>1, <2>3, MayGoOn DEF Rerun, Early
  <2> QED BY <2>2, <2>3
<1>3. \A w \in Work : job'[w] = job[w] \/ MayGo(job[w], job'[w])
  BY <1>1, <1>2
<1>4. job' \in [Work -> JobRecord]
  BY <1>1, <1>2 DEF JobsInv, Typed, MayGo
<1>5. \A m \in phone : job'[m] = job[m]
  BY <1>1, Kinds DEF JobsInv, Typed, Active
<1>6. Typed'
  BY <1>1, <1>4, <1>5 DEF JobsInv, Typed
<1>7. \A w \in Work : Counted(w)'
  BY <1>1, <1>3, MovedCounted
<1> QED BY <1>6, <1>7 DEF JobsInv

LEMMA ArrivalSteps ==
  ASSUME JobsInv, AddBulk \/ GatewayDies \/ \E M \in SUBSET Inbound : Deliver(M)
  PROVE  JobsInv'
<1>1. UNCHANGED <<rows, crm, objects>>
  BY DEF AddBulk, GatewayDies, Deliver
<1>2. CASE AddBulk
  <2>1. phone' = {} /\ job' = [w \in Work |-> IF w \in phone THEN [job[w] EXCEPT !.pc = "waiting"] ELSE job[w]]
    BY <1>2 DEF AddBulk
  <2>2. ASSUME NEW w \in Work, w \in phone PROVE MayGo(job[w], [job[w] EXCEPT !.pc = "waiting"])
    <3>1. job[w] \in JobRecord /\ job[w].pc \in Early
      BY <2>2 DEF JobsInv, Typed, Early
    <3> QED BY <3>1, MayGoOn
  <2>3. \A w \in Work : job'[w] = job[w] \/ MayGo(job[w], job'[w])
    BY <2>1, <2>2
  <2>4. job' \in [Work -> JobRecord]
    BY <2>1, <2>2 DEF JobsInv, Typed, MayGo
  <2>5. \A w \in Work : Counted(w)'
    BY <1>1, <2>3, MovedCounted
  <2> QED BY <1>1, <2>1, <2>4, <2>5 DEF JobsInv, Typed
<1>3. CASE GatewayDies \/ \E M \in SUBSET Inbound : Deliver(M)
  <2>1. UNCHANGED job /\ phone' \subseteq Inbound /\ \A m \in phone' : job[m].pc = "none"
    BY <1>3 DEF GatewayDies, Deliver, Came, NoJob
  <2>2. \A w \in Work : Counted(w)'
    BY <1>1, <2>1, MovedCounted
  <2> QED BY <1>1, <2>1, <2>2 DEF JobsInv, Typed
<1> QED BY <1>2, <1>3

-----------------------------------------------------------------------------
(***************************************************************************)
(* A message of the batch has a row for each request that has got to it.   *)
(***************************************************************************)
PostRecord == [pc : {"new", "open", "ok", "error"}, stored : 0..Len(Batch)]

Reached(i) == {p \in Posts : post[p].stored >= i}

PostsInv ==
  /\ post \in [Posts -> PostRecord]
  /\ \A p \in Posts :
       /\ post[p].pc = "new" => post[p].stored = 0
       /\ post[p].pc = "ok" => post[p].stored = Len(Batch)
  /\ \A i \in DOMAIN Batch : rows[Batch[i]] = Cardinality(Reached(i))

LEMMA Batches ==
  /\ Len(Batch) \in Nat /\ DOMAIN Batch = 1..Len(Batch)
  /\ \A i \in DOMAIN Batch : Batch[i] \in Posted
BY WorkerJobsAssumption DEF Posted

(* A request gets to the next message, and nobody else anywhere.           *)
LEMMA RecordStep ==
  ASSUME Typed, PostsInv, NEW p \in Posts, RecordMessage(p)
  PROVE  PostsInv' /\ rows' \in [Chats \cup Posted -> Nat] /\ \A w \in Chats : rows'[w] = rows[w]
<1> PICK k \in DOMAIN Batch : k = post[p].stored + 1
  BY Batches DEF RecordMessage, PostsInv, PostRecord
<1>1. /\ post[p].pc = "open" /\ rows' = [rows EXCEPT ![Batch[k]] = @ + 1]
      /\ post' = [post EXCEPT ![p].stored = k]
  BY DEF RecordMessage, PostsInv
<1>2. k \in Nat /\ k <= Len(Batch) /\ post[p].stored < k /\ k - 1 = post[p].stored
  BY Batches DEF PostsInv, PostRecord
<1>3. /\ post' \in [Posts -> PostRecord] /\ post'[p].stored = k /\ post'[p].pc = "open"
      /\ \A q \in Posts : q # p => post'[q] = post[q]
  BY <1>1, <1>2 DEF PostsInv, PostRecord
<1>4. /\ rows' \in [Chats \cup Posted -> Nat] /\ rows'[Batch[k]] = rows[Batch[k]] + 1
      /\ \A m \in Chats \cup Posted : m # Batch[k] => rows'[m] = rows[m]
  BY <1>1, Batches DEF Typed
<1>5. \A w \in Chats : rows'[w] = rows[w]
  BY <1>4, Batches, Kinds
<1>6. ASSUME NEW i \in DOMAIN Batch PROVE rows'[Batch[i]] = Cardinality(Reached(i)')
  <2>1. rows[Batch[i]] = Cardinality(Reached(i)) /\ i \in Nat
    BY Batches DEF PostsInv
  <2>2. \A q \in Posts : post[q].stored \in Nat
    BY Batches DEF PostsInv, PostRecord
  <2>3. CASE i = k
    <3>1. Reached(i)' = Reached(i) \cup {p} /\ p \notin Reached(i)
      BY <1>2, <1>3, <2>2, <2>3 DEF Reached
    <3>2. Reached(i) \in SUBSET Posts /\ IsFiniteSet(Posts)
      BY WorkerJobsAssumption DEF Reached
    <3>3. IsFiniteSet(Reached(i))
      BY <3>2, FS_Subset
    <3>4. Cardinality(Reached(i) \cup {p}) = Cardinality(Reached(i)) + 1
      BY <3>1, <3>3, FS_AddElement
    <3> QED BY <1>4, <2>1, <2>3, <3>1, <3>4
  <2>4. CASE i # k
    <3>1. Batch[i] # Batch[k] /\ Batch[i] \in Posted
      BY <2>4, WorkerJobsAssumption, Batches
    <3>2. Reached(i)' = Reached(i)
      BY <1>2, <1>3, <2>1, <2>2, <2>4 DEF Reached
    <3> QED BY <1>4, <2>1, <3>1, <3>2
  <2> QED BY <2>3, <2>4
<1> QED BY <1>3, <1>4, <1>5, <1>6 DEF PostsInv

LEMMA PostSteps ==
  ASSUME JobsInv, PostsInv, NEW p \in Posts,
         IngestWebhook(p) \/ RecordMessage(p) \/ Answer(p) \/ PostFails(p)
  PROVE  JobsInv' /\ PostsInv'
<1>1. UNCHANGED <<phone, job, crm, objects>>
  BY DEF IngestWebhook, RecordMessage, Answer, PostFails
<1>2. PostsInv' /\ rows' \in [Chats \cup Posted -> Nat] /\ \A w \in Chats : rows'[w] = rows[w]
  <2>1. CASE RecordMessage(p)
    BY <2>1, RecordStep DEF JobsInv
  <2>2. CASE ~RecordMessage(p)
    <3>1. UNCHANGED rows /\ rows \in [Chats \cup Posted -> Nat]
      BY <2>2 DEF IngestWebhook, Answer, PostFails, JobsInv, Typed
    <3> PICK pc \in {"open", "ok", "error"} :
          post' = [post EXCEPT ![p].pc = pc] /\ (pc = "ok" => post[p].stored = Len(Batch))
      BY <2>2 DEF IngestWebhook, Answer, PostFails
    <3>2. /\ post' \in [Posts -> PostRecord] /\ post'[p].pc = pc
          /\ \A q \in Posts : post'[q].stored = post[q].stored
          /\ \A q \in Posts : q # p => post'[q] = post[q]
      BY DEF PostsInv, PostRecord
    <3>3. \A i \in DOMAIN Batch : Reached(i)' = Reached(i)
      BY <3>2 DEF Reached
    <3> QED BY <3>1, <3>2, <3>3 DEF PostsInv
  <2> QED BY <2>1, <2>2
<1>3. Typed'
  BY <1>1, <1>2 DEF JobsInv, Typed
<1>4. ASSUME NEW w \in Work PROVE Counted(w)'
  BY <1>1, <1>2, Kinds DEF JobsInv, Counted, ObjectsOf
<1> QED BY <1>2, <1>3, <1>4 DEF JobsInv

(* Jobs store other messages.                                              *)
LEMMA PostsStand ==
  ASSUME JobsInv, PostsInv, UNCHANGED post,
         UNCHANGED rows \/ \E w \in Work : StoreMessage(w)
  PROVE  PostsInv'
<1>1. \A i \in DOMAIN Batch : rows'[Batch[i]] = rows[Batch[i]]
  BY Batches, Kinds DEF StoreMessage, JobsInv, Typed
<1> QED BY <1>1 DEF PostsInv, Reached

-----------------------------------------------------------------------------
WorkerInv == JobsInv /\ PostsInv

LEMMA WorkerInit == Init => WorkerInv
<1> SUFFICES ASSUME Init PROVE WorkerInv
  OBVIOUS
<1>1. NoJob \in JobRecord /\ NoJob.pc = "none" /\ NoJob.reruns = 0
  BY DEF NoJob, JobRecord
<1>2. Typed
  BY <1>1 DEF Init, Typed
<1>3. \A w \in Work : Counted(w)
  BY <1>1, Kinds DEF Init, Counted, StoredBy, ObjectsOf
<1>4. NoPost \in PostRecord /\ NoPost.pc = "new" /\ NoPost.stored = 0
  BY Batches DEF NoPost, PostRecord
<1>5. ASSUME NEW i \in DOMAIN Batch PROVE rows[Batch[i]] = Cardinality(Reached(i))
  <2>1. rows[Batch[i]] = 0
    BY Batches DEF Init
  <2>2. Reached(i) = {}
    BY <1>4, Batches DEF Init, Reached
  <2> QED BY <2>1, <2>2, FS_EmptySet
<1> QED BY <1>2, <1>3, <1>4, <1>5 DEF Init, WorkerInv, JobsInv, PostsInv

LEMMA WorkerStep == WorkerInv /\ [Next]_vars => WorkerInv'
<1> SUFFICES ASSUME JobsInv, PostsInv, [Next]_vars PROVE JobsInv' /\ PostsInv'
  BY DEF WorkerInv
<1>1. CASE UNCHANGED vars
  <2>1. \A w \in Work : Counted(w)'
    BY <1>1, MovedCounted DEF vars
  <2> QED BY <1>1, <2>1, PostsStand DEF vars, JobsInv, Typed
<1>2. ASSUME NEW p \in Posts, IngestWebhook(p) \/ RecordMessage(p) \/ Answer(p) \/ PostFails(p)
      PROVE  JobsInv' /\ PostsInv'
  BY <1>2, PostSteps
<1>3. CASE AddBulk \/ GatewayDies \/ \E M \in SUBSET Inbound : Deliver(M)
  <2>1. UNCHANGED <<rows, post>>
    BY <1>3 DEF AddBulk, GatewayDies, Deliver
  <2> QED BY <1>3, <2>1, ArrivalSteps, PostsStand
<1>4. CASE WorkerDies
  <2>1. UNCHANGED <<rows, post>>
    BY <1>4 DEF WorkerDies
  <2> QED BY <1>4, <2>1, WorkerDiesStep, PostsStand
<1>5. ASSUME NEW w \in Work, StoreMessage(w) \/ LogInteraction(w) \/ PutObject(w)
      PROVE  JobsInv' /\ PostsInv'
  <2>1. UNCHANGED post /\ (UNCHANGED rows \/ StoreMessage(w))
    BY <1>5 DEF StoreMessage, LogInteraction, PutObject
  <2> QED BY <1>5, <2>1, StoreStep, LogStep, PutStep, PostsStand
<1>6. ASSUME NEW w \in Work, NEW pc \in {"waiting", "session", "bucket", "done", "ended"},
             Goto(w, pc), UNCHANGED <<phone, rows, crm, objects, post>>,
             w \notin phone, pc \in Early => job[w].pc \in Early
      PROVE  JobsInv' /\ PostsInv'
  <2>1. MayGo(job[w], [job[w] EXCEPT !.pc = pc])
    <3>1. job[w] \in JobRecord
      BY DEF JobsInv, Typed
    <3> QED BY <1>6, <3>1, MayGoOn
  <2>2. JobsInv'
    BY <1>6, <2>1, MoveStep
  <2>3. PostsInv'
    BY <1>6, PostsStand
  <2> QED BY <2>2, <2>3
<1>7. ASSUME NEW w \in Work \ Inbound, AddJob(w) PROVE JobsInv' /\ PostsInv'
  <2>1. /\ Goto(w, "waiting") /\ UNCHANGED <<phone, rows, crm, objects, post>>
        /\ w \notin phone /\ job[w].pc = "none"
    BY <1>7 DEF AddJob, Came, NoJob, JobsInv, Typed
  <2> QED BY <1>6, <2>1 DEF Early
<1>8. ASSUME NEW w \in Work, UpsertSession(w) \/ EnsureBucket(w) \/ Complete(w) \/ Throw(w)
      PROVE  JobsInv' /\ PostsInv'
  <2>1. /\ UNCHANGED <<phone, rows, crm, objects, post>> /\ job[w].pc # "none"
        /\ \/ Goto(w, "session") /\ job[w].pc = "waiting"
           \/ Goto(w, "bucket") \/ Goto(w, "ended")
    BY <1>8 DEF UpsertSession, EnsureBucket, Complete, Throw, Begins, Active
  <2>2. w \notin phone
    BY <2>1 DEF JobsInv, Typed
  <2> QED BY <1>6, <2>1, <2>2 DEF Early
<1>9. ASSUME NEW queue \in Queues, NEW w \in queue PROVE w \in Work
  BY <1>9, Kinds DEF Queues, Chats
<1>10. CASE \E queue \in Queues : Handle(queue)
  BY <1>5, <1>8, <1>9, <1>10 DEF Handle
<1> QED BY <1>1, <1>2, <1>3, <1>4, <1>7, <1>8, <1>10 DEF Next

-----------------------------------------------------------------------------
LEMMA WorkerInvariant == Spec => []WorkerInv
BY WorkerInit, WorkerStep, PTL DEF Spec

(* A set whose members are numbered 0 to n has at most n + 1 of them.      *)
LEMMA AtMost ==
  ASSUME NEW n \in Nat, NEW w, NEW T, \A o \in T : \E k \in 0..n : o = <<w, k>>
  PROVE  Cardinality(T) <= 1 + n
<1> DEFINE f == [k \in 0..n |-> <<w, k>>]
           R == {<<w, k>> : k \in 0..n}
<1>1. IsFiniteSet(0..n) /\ Cardinality(0..n) = n + 1
  BY FS_Interval
<1>2. f \in Surjection(0..n, R)
  BY DEF Surjection
<1> HIDE DEF f
<1>3. IsFiniteSet(R) /\ Cardinality(R) <= n + 1
  BY <1>1, <1>2, FS_Surjection
<1>4. T \in SUBSET R
  OBVIOUS
<1> HIDE DEF R
<1>5. IsFiniteSet(T) /\ Cardinality(T) <= Cardinality(R)
  BY <1>3, <1>4, FS_Subset
<1> QED BY <1>3, <1>5, FS_CardinalityType

(***************************************************************************)
(* A message is stored at most once for each run of the job that brought   *)
(* it, is logged no more often than it is stored, and there is one object  *)
(* of a file and at most one for each run of a backup.                     *)
(***************************************************************************)
THEOREM StoredOncePerRun == Spec => []OnceForEachRun
<1>1. ASSUME WorkerInv PROVE OnceForEachRun
  <2>1. ASSUME NEW w \in Work PROVE Counted(w) /\ job[w] \in JobRecord /\ job[w].reruns \in Nat
    BY <1>1 DEF WorkerInv, JobsInv, Typed, JobRecord
  <2>2. ASSUME NEW w \in Chats PROVE rows[w] <= 1 + job[w].reruns
    <3>1. StoredBy(job[w], rows[w]) /\ rows[w] \in Nat /\ job[w].reruns \in Nat
      BY <1>1, <2>1, Kinds DEF WorkerInv, JobsInv, Typed, Counted
    <3> QED BY <3>1 DEF StoredBy
  <2>3. ASSUME NEW m \in Inbound PROVE crm[m] <= rows[m]
    <3>1. m \in Work /\ crm[m] \in Nat /\ rows[m] \in Nat
      BY <1>1, Kinds DEF WorkerInv, JobsInv, Typed
    <3> QED BY <2>1, <3>1 DEF Counted
  <2>4. ASSUME NEW w \in Files PROVE Cardinality(ObjectsOf(w)) <= 1
    <3> PICK n \in Nat : n = 0
      OBVIOUS
    <3>1. \A o \in ObjectsOf(w) : \E k \in 0..n : o = <<w, k>>
      BY <2>1, Kinds DEF Counted
    <3>2. Cardinality(ObjectsOf(w)) <= 1 + n
      BY <3>1, AtMost
    <3> QED BY <3>2
  <2>5. ASSUME NEW w \in Backups PROVE Cardinality(ObjectsOf(w)) <= 1 + job[w].reruns
    <3>1. job[w].reruns \in Nat /\ \A o \in ObjectsOf(w) : \E k \in 0..job[w].reruns : o = <<w, k>>
      BY <2>1, Kinds DEF Counted
    <3> QED BY <3>1, AtMost
  <2> QED BY <2>2, <2>3, <2>4, <2>5 DEF OnceForEachRun
<1> QED BY <1>1, WorkerInvariant, PTL

(***************************************************************************)
(* Of a batch posted to the webhook, by however many requests, at least as *)
(* many rows of each message are there as callers were told so, at most as *)
(* many as have called, and no message is ahead of an earlier one.         *)
(***************************************************************************)
THEOREM WebhookHasNoGap == Spec => []StoredWithoutGap
<1>1. ASSUME WorkerInv PROVE StoredWithoutGap
  <2> DEFINE Callers(what) == {p \in Posts : post[p].pc \in what}
  <2>1. ASSUME NEW S \in SUBSET Posts, NEW T \in SUBSET S
        PROVE  IsFiniteSet(T) /\ Cardinality(T) <= Cardinality(S)
    <3>1. IsFiniteSet(S)
      BY FS_Subset, WorkerJobsAssumption
    <3> QED BY <3>1, FS_Subset
  <2>2. ASSUME NEW i \in DOMAIN Batch
        PROVE  /\ i \in 1..Len(Batch) /\ rows[Batch[i]] = Cardinality(Reached(i))
               /\ Reached(i) \in SUBSET Posts
    BY <1>1, Batches DEF WorkerInv, PostsInv, Reached
  <2>3. ASSUME NEW p \in Posts
        PROVE  /\ post[p].stored \in 0..Len(Batch) /\ post[p].pc \in {"new", "open", "ok", "error"}
               /\ post[p].pc = "new" => post[p].stored = 0
               /\ post[p].pc = "ok" => post[p].stored = Len(Batch)
    BY <1>1 DEF WorkerInv, PostsInv, PostRecord
  <2>4. ASSUME NEW i \in DOMAIN Batch PROVE Cardinality(Callers({"ok"})) <= rows[Batch[i]]
    <3>1. Callers({"ok"}) \in SUBSET Reached(i)
      BY <2>2, <2>3, Batches DEF Reached
    <3> QED BY <2>1, <2>2, <3>1
  <2>5. ASSUME NEW i \in DOMAIN Batch
        PROVE  rows[Batch[i]] <= Cardinality(Callers({"ok", "open", "error"}))
    <3>1. Reached(i) \in SUBSET Callers({"ok", "open", "error"})
      BY <2>2, <2>3, Batches DEF Reached
    <3>2. Callers({"ok", "open", "error"}) \in SUBSET Posts
      OBVIOUS
    <3> QED BY <2>1, <2>2, <3>1, <3>2
  <2>6. ASSUME NEW i \in DOMAIN Batch, NEW j \in DOMAIN Batch, i <= j
        PROVE  rows[Batch[j]] <= rows[Batch[i]]
    <3>1. Reached(j) \in SUBSET Reached(i)
      BY <2>2, <2>3, <2>6, Batches DEF Reached
    <3> QED BY <2>1, <2>2, <3>1
  <2> QED BY <2>4, <2>5, <2>6 DEF StoredWithoutGap
<1> QED BY <1>1, WorkerInvariant, PTL

-----------------------------------------------------------------------------
(***************************************************************************)
(* What a job is for is there once it is done: the message is among the    *)
(* messages, the file or the backup in its bucket.                         *)
(***************************************************************************)
Kept(w) == IF w \in Chats THEN rows[w] > 0 ELSE ObjectsOf(w) # {}

EndedIsKept == \A w \in Work : job[w].pc = "ended" => Kept(w) \/ w \in lost

(* Where the job is tells how far it has come with that.                   *)
KeptSoFar(w) ==
  /\ w \in Chats => job[w].pc # "bucket"
  /\ job[w].pc \in {"stored", "done"} => Kept(w)
  /\ job[w].pc = "ended" => Kept(w) \/ w \in lost

KeptInv == \A w \in Work : KeptSoFar(w)

(* Rows and objects are not removed, and what is lost stays so.            *)
LEMMA NothingRemoved ==
  ASSUME WorkerInv, [Next]_vars
  PROVE  /\ \A w \in Work : Kept(w) => Kept(w)'
         /\ lost \subseteq lost'
<1>1. lost \subseteq lost'
  BY DEF Next, vars, Deliver, AddBulk, AddJob, Handle, UpsertSession, StoreMessage, LogInteraction,
         EnsureBucket, PutObject, Complete, Throw, IngestWebhook, RecordMessage, Answer, PostFails,
         GatewayDies, WorkerDies
<1>2. objects \subseteq objects'
  BY DEF Next, vars, Deliver, AddBulk, AddJob, Handle, UpsertSession, StoreMessage, LogInteraction,
         EnsureBucket, PutObject, Complete, Throw, IngestWebhook, RecordMessage, Answer, PostFails,
         GatewayDies, WorkerDies
<1>3. ASSUME NEW w \in Chats PROVE rows'[w] >= rows[w]
  <2>1. rows \in [Chats \cup Posted -> Nat] /\ rows[w] \in Nat
    BY DEF WorkerInv, JobsInv, Typed
  <2>2. \/ rows' = rows
        \/ \E v \in Chats : rows' = [rows EXCEPT ![v] = @ + 1]
        \/ \E p \in Posts : RecordMessage(p)
    BY DEF Next, vars, Deliver, AddBulk, AddJob, Handle, UpsertSession, StoreMessage, LogInteraction,
           EnsureBucket, PutObject, Complete, Throw, IngestWebhook, Answer, PostFails,
           GatewayDies, WorkerDies
  <2>3. ASSUME NEW v \in Chats, rows' = [rows EXCEPT ![v] = @ + 1] PROVE rows'[w] >= rows[w]
    BY <2>1, <2>3
  <2>4. ASSUME NEW p \in Posts, RecordMessage(p) PROVE rows'[w] >= rows[w]
    <3>1. rows'[w] = rows[w]
      BY <2>4, RecordStep DEF WorkerInv, JobsInv
    <3> QED BY <2>1, <3>1
  <2> QED BY <2>1, <2>2, <2>3, <2>4
<1>4. ASSUME NEW w \in Work, Kept(w) PROVE Kept(w)'
  <2>1. CASE w \in Chats
    <3>1. rows[w] \in Nat /\ rows'[w] >= rows[w] /\ rows[w] > 0
      BY <1>3, <1>4, <2>1 DEF WorkerInv, JobsInv, Typed, Kept
    <3>2. rows'[w] \in Nat
      <4>1. WorkerInv'
        BY WorkerStep
      <4> QED BY <2>1, <4>1 DEF WorkerInv, JobsInv, Typed
    <3> QED BY <2>1, <3>1, <3>2 DEF Kept
  <2>2. CASE w \notin Chats
    BY <1>2, <1>4, <2>2 DEF Kept, ObjectsOf
  <2> QED BY <2>1, <2>2
<1> QED BY <1>1, <1>4

LEMMA KeptStep == WorkerInv /\ KeptInv /\ [Next]_vars => KeptInv'
<1> SUFFICES ASSUME WorkerInv, KeptInv, [Next]_vars PROVE KeptInv'
  OBVIOUS
<1>1. /\ \A w \in Work : Kept(w) => Kept(w)'
      /\ lost \subseteq lost'
      /\ job \in [Work -> JobRecord] /\ rows \in [Chats \cup Posted -> Nat]
  BY NothingRemoved DEF WorkerInv, JobsInv, Typed
<1>2. ASSUME NEW w \in Work, job'[w] = job[w] PROVE KeptSoFar(w)'
  BY <1>1, <1>2 DEF KeptInv, KeptSoFar
<1>3. ASSUME NEW w \in Work, job'[w].pc \in {"none", "waiting", "session"} PROVE KeptSoFar(w)'
  BY <1>3 DEF KeptSoFar
<1>4. ASSUME NEW w \in Work, NEW pc, Goto(w, pc), KeptSoFar(w)' PROVE KeptInv'
  <2>1. \A v \in Work : v # w => job'[v] = job[v]
    BY <1>1, <1>4 DEF Goto
  <2> QED BY <1>2, <1>4, <2>1 DEF KeptInv
<1>5. ASSUME NEW w \in Work, NEW pc, Goto(w, pc) PROVE job'[w].pc = pc
  BY <1>1, <1>5 DEF Goto, JobRecord
<1>6. ASSUME job' = job PROVE KeptInv'
  BY <1>2, <1>6 DEF KeptInv
<1>7. CASE AddBulk
  <2>1. job' = [w \in Work |-> IF w \in phone THEN [job[w] EXCEPT !.pc = "waiting"] ELSE job[w]]
    BY <1>7 DEF AddBulk
  <2>2. ASSUME NEW w \in Work PROVE job'[w] = job[w] \/ job'[w].pc = "waiting"
    BY <1>1, <2>1 DEF JobRecord
  <2> QED BY <1>2, <1>3, <2>2 DEF KeptInv
<1>8. CASE WorkerDies
  <2>1. ASSUME NEW w \in Work PROVE KeptSoFar(w)'
    <3>1. job'[w] = IF Active(w) THEN Rerun(w) ELSE job[w]
      BY <1>8 DEF WorkerDies
    <3>2. CASE Active(w) /\ job[w].reruns < MaxStalls
      BY <1>3, <3>1, <3>2 DEF Rerun
    <3>3. CASE Active(w) /\ ~(job[w].reruns < MaxStalls)
      <4>1. job[w].reruns >= MaxStalls
        <5>1. job[w].reruns \in Nat /\ MaxStalls \in Nat
          BY <1>1, WorkerJobsAssumption DEF JobRecord
        <5> QED BY <3>3, <5>1
      <4>2. w \in lost'
        BY <1>8, <3>3, <4>1 DEF WorkerDies
      <4>3. job'[w].pc = "ended"
        BY <1>1, <3>1, <3>3 DEF Rerun, JobRecord
      <4> QED BY <4>2, <4>3 DEF KeptSoFar
    <3> QED BY <1>2, <3>1, <3>2, <3>3
  <2> QED BY <2>1 DEF KeptInv
<1>9. ASSUME NEW w \in Work, StoreMessage(w) PROVE KeptInv'
  <2>1. PICK pc \in {"stored", "done"} : Goto(w, pc)
    BY <1>9 DEF StoreMessage
  <2>2. w \in Chats /\ rows' = [rows EXCEPT ![w] = @ + 1]
    BY <1>9 DEF StoreMessage
  <2>3. Kept(w)'
    BY <1>1, <2>2 DEF Kept
  <2>4. job'[w].pc = pc
    BY <1>5, <2>1
  <2> QED BY <1>4, <2>1, <2>3, <2>4 DEF KeptSoFar
<1>10. ASSUME NEW w \in Work, LogInteraction(w) PROVE KeptInv'
  <2>1. Goto(w, "done") /\ job[w].pc = "stored"
    BY <1>10 DEF LogInteraction
  <2>2. Kept(w)' /\ job'[w].pc = "done"
    BY <1>1, <1>5, <2>1 DEF KeptInv, KeptSoFar
  <2> QED BY <1>4, <2>1, <2>2 DEF KeptSoFar
<1>11. ASSUME NEW w \in Work, PutObject(w) PROVE KeptInv'
  <2>1. /\ Goto(w, "done") /\ job[w].pc = "bucket"
        /\ objects' = objects \cup {<<w, IF w \in Backups THEN job[w].reruns ELSE 0>>}
    BY <1>11 DEF PutObject
  <2>2. w \notin Chats
    BY <2>1 DEF KeptInv, KeptSoFar
  <2> DEFINE n == IF w \in Backups THEN job[w].reruns ELSE 0
             new == <<w, n>>
  <2> HIDE DEF n
  <2>3. new \in objects' /\ new[1] = w
    BY <2>1 DEF n
  <2>4. Kept(w)' /\ job'[w].pc = "done"
    BY <1>5, <2>1, <2>2, <2>3 DEF Kept, ObjectsOf
  <2> QED BY <1>4, <2>1, <2>4 DEF KeptSoFar
<1>12. ASSUME NEW w \in Work, UpsertSession(w) \/ AddJob(w) PROVE KeptInv'
  <2>1. PICK pc \in {"session", "waiting"} : Goto(w, pc)
    BY <1>12 DEF UpsertSession, AddJob
  <2>2. job'[w].pc = pc
    BY <1>5, <2>1
  <2> QED BY <1>3, <1>4, <2>1, <2>2
<1>13. ASSUME NEW w \in Work, EnsureBucket(w) PROVE KeptInv'
  <2>1. Goto(w, "bucket") /\ w \notin Chats
    BY <1>13, Kinds DEF EnsureBucket, Begins
  <2>2. job'[w].pc = "bucket"
    BY <1>5, <2>1
  <2> QED BY <1>4, <2>1, <2>2 DEF KeptSoFar
<1>14. ASSUME NEW w \in Work, Complete(w) PROVE KeptInv'
  <2>1. Goto(w, "ended") /\ job[w].pc = "done"
    BY <1>14 DEF Complete
  <2>2. Kept(w)' /\ job'[w].pc = "ended"
    BY <1>1, <1>5, <2>1 DEF KeptInv, KeptSoFar
  <2> QED BY <1>4, <2>1, <2>2 DEF KeptSoFar
<1>15. ASSUME NEW w \in Work, Throw(w) PROVE KeptInv'
  <2>1. Goto(w, "ended") /\ w \in lost'
    BY <1>15 DEF Throw
  <2>2. job'[w].pc = "ended"
    BY <1>5, <2>1
  <2> QED BY <1>4, <2>1, <2>2 DEF KeptSoFar
<1>16. ASSUME NEW queue \in Queues, NEW w \in queue PROVE w \in Work
  BY <1>16, Kinds DEF Queues, Chats
<1>17. CASE \E queue \in Queues : Handle(queue)
  BY <1>9, <1>10, <1>11, <1>12, <1>13, <1>14, <1>16, <1>17 DEF Handle
<1>18. \/ job' = job \/ AddBulk \/ WorkerDies \/ \E queue \in Queues : Handle(queue)
       \/ \E w \in Work : AddJob(w) \/ Throw(w)
  BY DEF Next, vars, Deliver, IngestWebhook, RecordMessage, Answer, PostFails, GatewayDies
<1> QED BY <1>6, <1>7, <1>8, <1>12, <1>15, <1>17, <1>18

(***************************************************************************)
(* What BullMQ has done with is not forgotten: however often the worker    *)
(* dies and handlers run again, a job that has ended has stored its        *)
(* message, its file or its backup, unless its handler threw or it stalled *)
(* once too often.                                                         *)
(***************************************************************************)
THEOREM NothingIsForgotten == Spec => []EndedIsKept
<1>1. Init => KeptInv
  BY DEF Init, NoJob, KeptInv, KeptSoFar
<1>2. KeptInv => EndedIsKept
  BY DEF KeptInv, KeptSoFar, EndedIsKept
<1> QED BY <1>1, <1>2, KeptStep, WorkerInvariant, PTL DEF Spec

-----------------------------------------------------------------------------
(***************************************************************************)
(* Receipts.  What has been handed to a device is a whole receipt; a job   *)
(* that has not closed its printer in this run has come out at most once   *)
(* for each run before; whoever may still be told of an error has run once.*)
(***************************************************************************)
Whole == <<"body", "footer">>

AsFarAsItIs ==
  \A p \in Prints :
    /\ print[p].pc = "new" => print[p] = NewJob /\ answer[p] = "none"
    /\ print[p].pc # "new" => print[p].device \in Devices
    /\ print[p].pc = "rendering" => print[p].collected = <<"body">>
    /\ handed[p] \in {<<>>, Whole}
    /\ handed[p] # <<>> => print[p].pc # "new"
    /\ print[p].way = "direct" => print[p].reruns = 0
    /\ print[p].way = "queue" => answer[p] \notin {"none", "error"}

OncePerRun ==
  \A p \in Prints :
    /\ IsFiniteSet(Bodies(p))
    /\ print[p].pc \in {"new", "waiting", "opening", "rendering"} => Copies(p) <= print[p].reruns
    /\ Copies(p) <= 1 + print[p].reruns
    /\ answer[p] = "error" => print[p].pc = "ended" /\ Copies(p) = 0

PrintInv == PrintTypeOK /\ AsFarAsItIs /\ ReceiptsApart /\ OncePerRun

LEMMA PartsAreParts == <<>> \in Seq(Part) /\ <<"body">> \in Seq(Part) /\ Whole \in Seq(Part)
BY DEF Part, Whole

LEMMA PartsOfWhole ==
  /\ Append(<<"body">>, "footer") = Whole /\ Len(Whole) = 2
  /\ SubSeq(Whole, 1, 0) = <<>> /\ SubSeq(Whole, 1, 1) = <<"body">>
<1>1. /\ Whole \in Seq(Part) /\ <<"body">> \in Seq(Part) /\ "footer" \in Part
      /\ Len(Whole) = 2 /\ Whole[1] = "body" /\ Whole[2] = "footer"
  BY PartsAreParts DEF Whole, Part
<1>2. Append(<<"body">>, "footer") = Whole
  <2> DEFINE a == Append(<<"body">>, "footer")
  <2>1. a \in Seq(Part) /\ Len(a) = 2 /\ a[1] = "body" /\ a[2] = "footer"
    BY <1>1
  <2>2. \A i \in 1..2 : a[i] = Whole[i]
    BY <1>1, <2>1
  <2> HIDE DEF a
  <2> QED BY <1>1, <2>1, <2>2, SeqEqual
<1>3. SubSeq(Whole, 1, 0) = <<>>
  BY SubSeqEmpty
<1>4. SubSeq(Whole, 1, 1) = <<"body">>
  <2> DEFINE b == SubSeq(Whole, 1, 1)
             t == <<"body">>
  <2>1. b \in Seq(Part) /\ Len(b) = 1 /\ b[1] = "body"
    BY <1>1
  <2>2. t \in Seq(Part) /\ Len(t) = 1 /\ t[1] = "body"
    BY <1>1
  <2> HIDE DEF b, t
  <2>3. \A i \in 1..Len(b) : b[i] = t[i]
    BY <2>1, <2>2
  <2>4. b = t
    BY <2>1, <2>2, <2>3, SeqEqual
  <2> QED BY <2>4 DEF b, t
<1> QED BY <1>1, <1>2, <1>3, <1>4

LEMMA PartsComeOut ==
  ASSUME PrintInv, NEW p \in Prints, NEW parts, parts \in {<<>>, <<"body">>, Whole},
         print[p].device \in Devices, ComesOut(p, parts)
  PROVE  /\ paper' \in [Devices -> Seq(Prints \X Part)]
         /\ ReceiptsApart'
         /\ \A q \in Prints \ {p} : Bodies(q)' = Bodies(q)
         /\ parts = <<>> => Bodies(p)' = Bodies(p)
         /\ \E x : Bodies(p)' \subseteq Bodies(p) \cup {x}
         /\ handed' = [handed EXCEPT ![p] = <<>>]
<1> DEFINE d == print[p].device
           new == [i \in DOMAIN parts |-> <<p, parts[i]>>]
           old == paper[d]
<1>1. d \in Devices /\ old \in Seq(Prints \X Part) /\ paper \in [Devices -> Seq(Prints \X Part)]
  BY DEF PrintInv, PrintTypeOK
<1>2. paper' = [paper EXCEPT ![d] = old \o new] /\ handed' = [handed EXCEPT ![p] = <<>>]
  BY DEF ComesOut
<1>3. /\ new \in Seq(Prints \X Part) /\ Len(new) \in 0..2
      /\ Len(new) = 0 <=> parts = <<>>
      /\ Len(new) >= 1 => new[1] = <<p, "body">>
      /\ Len(new) = 2 => new[2] = <<p, "footer">>
  <2>1. CASE parts = <<>>
    <3>1. new = <<>>
      BY <2>1
    <3> QED BY <2>1, <3>1
  <2>2. CASE parts = <<"body">>
    <3>1. new = << <<p, "body">> >>
      BY <2>2
    <3> QED BY <2>2, <3>1 DEF Part
  <2>3. CASE parts = Whole
    <3>1. new = << <<p, "body">>, <<p, "footer">> >>
      BY <2>3 DEF Whole
    <3> QED BY <2>3, <3>1 DEF Part, Whole
  <2> QED BY <2>1, <2>2, <2>3
<1> HIDE DEF new
<1>13. \A n \in 0..2 : \A j \in 1..n : j = 1 \/ j = 2
  OBVIOUS
<1>4. /\ old \o new \in Seq(Prints \X Part) /\ Len(old \o new) = Len(old) + Len(new)
      /\ \A i \in 1..Len(old) : (old \o new)[i] = old[i]
      /\ \A i \in 1..Len(new) : (old \o new)[Len(old) + i] = new[i]
  BY <1>1, <1>3
<1>5. paper'[d] = old \o new /\ \A e \in Devices \ {d} : paper'[e] = paper[e]
  BY <1>1, <1>2
<1>6. paper' \in [Devices -> Seq(Prints \X Part)]
  BY <1>1, <1>2, <1>4
<1> HIDE DEF old, d
<1>7. ReceiptsApart'
  <2> SUFFICES ASSUME NEW e \in Devices, NEW i \in DOMAIN paper'[e], paper'[e][i][2] = "footer"
               PROVE  i > 1 /\ paper'[e][i - 1] = <<paper'[e][i][1], "body">>
    BY DEF ReceiptsApart
  <2>0. \A f \in Devices : \A j \in DOMAIN paper[f] :
          paper[f][j][2] = "footer" => j > 1 /\ paper[f][j - 1] = <<paper[f][j][1], "body">>
    BY DEF PrintInv, ReceiptsApart
  <2>1. CASE e # d
    BY <1>5, <2>0, <2>1
  <2>2. CASE e = d
    <3>1. i \in 1..(Len(old) + Len(new)) /\ paper'[e] = old \o new /\ Len(old) \in Nat
      BY <1>1, <1>3, <1>4, <1>5, <2>2
    <3>2. CASE i <= Len(old)
      <4>1. paper'[e][i] = old[i] /\ i \in DOMAIN old /\ (i > 1 => paper'[e][i - 1] = old[i - 1])
        BY <1>1, <1>4, <3>1, <3>2
      <4>2. old[i][2] = "footer" => i > 1 /\ old[i - 1] = <<old[i][1], "body">>
        BY <1>1, <2>0, <4>1 DEF old
      <4> QED BY <4>1, <4>2
    <3>3. CASE i > Len(old)
      <4>1. PICK j \in 1..Len(new) : i = Len(old) + j
        <5>1. i - Len(old) \in 1..Len(new)
          BY <1>3, <3>1, <3>3
        <5> QED BY <3>1, <5>1
      <4>2. paper'[e][i] = new[j] /\ j \in {1, 2}
        BY <1>3, <1>4, <3>1, <4>1
      <4>3. j = 2 /\ Len(new) = 2
        BY <1>3, <4>1, <4>2
      <4>4. paper'[e][i - 1] = new[1] /\ i > 1
        BY <1>4, <3>1, <4>1, <4>3
      <4> QED BY <1>3, <4>2, <4>3, <4>4
    <3> QED BY <3>1, <3>2, <3>3
  <2> QED BY <2>1, <2>2
<1>8. ASSUME NEW q \in Prints, NEW x \in Devices \X Nat, ~(q = p /\ x = <<d, Len(old) + 1>> /\ parts # <<>>)
      PROVE  x \in Bodies(q)' <=> x \in Bodies(q)
  <2>1. x[1] \in Devices /\ x[2] \in Nat /\ x = <<x[1], x[2]>>
    OBVIOUS
  <2>2. (x \in Bodies(q)' <=> x[2] \in DOMAIN paper'[x[1]] /\ paper'[x[1]][x[2]] = <<q, "body">>)
        /\ (x \in Bodies(q) <=> x[2] \in DOMAIN paper[x[1]] /\ paper[x[1]][x[2]] = <<q, "body">>)
    BY DEF Bodies
  <2>3. CASE x[1] # d
    BY <1>5, <2>1, <2>2, <2>3
  <2>4. CASE x[1] = d
    <3>1. DOMAIN paper'[x[1]] = 1..(Len(old) + Len(new)) /\ DOMAIN paper[x[1]] = 1..Len(old) /\ Len(old) \in Nat
      BY <1>1, <1>3, <1>4, <1>5, <2>4 DEF old
    <3>2. CASE x[2] <= Len(old)
      <4>1. x[2] \in DOMAIN paper[x[1]] => paper'[x[1]][x[2]] = paper[x[1]][x[2]]
        BY <1>4, <1>5, <2>4, <3>1 DEF old
      <4> QED BY <1>3, <2>1, <2>2, <3>1, <3>2, <4>1
    <3>3. CASE x[2] > Len(old)
      <4>1. x \notin Bodies(q)
        BY <2>2, <3>1, <3>3
      <4>2. ASSUME x \in Bodies(q)' PROVE FALSE
        <5>1. x[2] - Len(old) \in 1..Len(new)
          BY <1>3, <2>2, <3>1, <3>3, <4>2
        <5>2. PICK j \in 1..Len(new) : x[2] = Len(old) + j
          BY <2>1, <3>1, <5>1
        <5>3. paper'[x[1]][x[2]] = new[j] /\ (j = 1 \/ j = 2)
          <6>0. j \in 1..Len(new) /\ Len(new) \in 0..2
            BY <1>3, <5>2
          <6>1. j = 1 \/ j = 2
            BY <1>13, <6>0
          <6>2. (old \o new)[x[2]] = new[j]
            BY <1>4, <5>2
          <6>3. paper'[x[1]] = old \o new
            BY <1>5, <2>4
          <6> QED BY <6>1, <6>2, <6>3
        <5>4. new[j] = <<q, "body">>
          BY <2>2, <4>2, <5>3
        <5>5. j = 1 /\ q = p
          BY <1>3, <5>2, <5>3, <5>4
        <5>6. x = <<d, Len(old) + 1>> /\ parts # <<>>
          BY <1>3, <2>1, <2>4, <5>2, <5>5
        <5> QED BY <1>8, <5>5, <5>6
      <4> QED BY <4>1, <4>2
    <3> QED BY <2>1, <3>1, <3>2, <3>3
  <2> QED BY <2>3, <2>4
<1>9. \A q \in Prints : Bodies(q) \subseteq Devices \X Nat /\ Bodies(q)' \subseteq Devices \X Nat
  BY <1>1, <1>6 DEF Bodies
<1>10. \A q \in Prints \ {p} : Bodies(q)' = Bodies(q)
  BY <1>8, <1>9, Zenon
<1>11. parts = <<>> => Bodies(p)' = Bodies(p)
  BY <1>8, <1>9, Zenon
<1>12. Bodies(p)' \subseteq Bodies(p) \cup {<<d, Len(old) + 1>>}
  BY <1>8, <1>9, Zenon
<1> QED BY <1>2, <1>6, <1>7, <1>10, <1>11, <1>12

LEMMA CopiesComeOut ==
  ASSUME PrintInv, NEW p \in Prints, NEW parts, parts \in {<<>>, <<"body">>, Whole},
         handed[p] # <<>>, ComesOut(p, parts)
  PROVE  \A q \in Prints : IsFiniteSet(Bodies(q)') /\ Copies(q)' <= Copies(q)
<1>1. print[p].device \in Devices
  BY DEF PrintInv, AsFarAsItIs
<1>2. /\ \A q \in Prints \ {p} : Bodies(q)' = Bodies(q)
      /\ \E x : Bodies(p)' \subseteq Bodies(p) \cup {x}
      /\ handed' = [handed EXCEPT ![p] = <<>>] /\ handed \in [Prints -> Seq(Part)]
  BY <1>1, PartsComeOut DEF PrintInv, PrintTypeOK
<1>3. \A q \in Prints : IsFiniteSet(Bodies(q)) /\ Cardinality(Bodies(q)) \in Nat
  BY FS_CardinalityType DEF PrintInv, OncePerRun
<1>4. PICK x : Bodies(p)' \subseteq Bodies(p) \cup {x}
  BY <1>2
<1>5. IsFiniteSet(Bodies(p) \cup {x}) /\ Cardinality(Bodies(p) \cup {x}) <= Cardinality(Bodies(p)) + 1
  <2>1. /\ IsFiniteSet(Bodies(p) \cup {x})
        /\ Cardinality(Bodies(p) \cup {x}) =
             IF x \in Bodies(p) THEN Cardinality(Bodies(p)) ELSE Cardinality(Bodies(p)) + 1
    BY <1>3, FS_AddElement
  <2> QED BY <1>3, <2>1
<1>6. IsFiniteSet(Bodies(p)') /\ Cardinality(Bodies(p)') <= Cardinality(Bodies(p)) + 1
      /\ Cardinality(Bodies(p)') \in Nat
  BY <1>3, <1>4, <1>5, FS_Subset, FS_CardinalityType
<1>7. Copies(p)' <= Copies(p)
  BY <1>2, <1>3, <1>6 DEF Copies
<1>8. \A q \in Prints \ {p} : IsFiniteSet(Bodies(q)') /\ Copies(q)' <= Copies(q)
  BY <1>2, <1>3 DEF Copies
<1> QED BY <1>6, <1>7, <1>8

LEMMA PrintStep == PrintInv /\ [PrintNext]_printVars => PrintInv'
<1> SUFFICES ASSUME PrintInv, [PrintNext]_printVars PROVE PrintInv'
  OBVIOUS
<1>0. /\ print \in [Prints -> Job]
      /\ answer \in [Prints -> {"none", "ok", "error", "lost"}]
      /\ handed \in [Prints -> Seq(Part)]
      /\ paper \in [Devices -> Seq(Prints \X Part)]
      /\ deaths \in 0..MaxDeaths /\ losses \in 0..MaxLosses
      /\ MaxDeaths \in Nat /\ MaxLosses \in Nat
  BY PrintingAssumption DEF PrintInv, PrintTypeOK
<1>0a. \A q \in Prints : IsFiniteSet(Bodies(q)) /\ Cardinality(Bodies(q)) \in Nat /\ Copies(q) \in Nat
  BY FS_CardinalityType DEF PrintInv, OncePerRun, Copies
<1>1. UNCHANGED paper => ReceiptsApart' /\ \A q \in Prints : Bodies(q)' = Bodies(q)
  BY DEF PrintInv, ReceiptsApart, Bodies
<1>2. UNCHANGED <<paper, handed>> => \A q \in Prints : IsFiniteSet(Bodies(q)') /\ Copies(q)' = Copies(q)
  BY <1>0a, <1>1 DEF Copies
<1>3. CASE UNCHANGED printVars
  <2>1. PrintTypeOK'
    BY <1>3 DEF printVars, PrintInv, PrintTypeOK
  <2>2. AsFarAsItIs'
    BY <1>3 DEF printVars, PrintInv, AsFarAsItIs
  <2>3. OncePerRun'
    BY <1>2, <1>3 DEF printVars, PrintInv, OncePerRun
  <2> QED BY <1>1, <1>3, <2>1, <2>2, <2>3 DEF printVars, PrintInv
<1>4. ASSUME NEW p \in Prints, UNCHANGED <<paper, handed, deaths>>, losses' \in 0..MaxLosses,
             NEW receipt \in Job, NEW said \in {"none", "ok", "error", "lost"},
             print' = [print EXCEPT ![p] = receipt], answer' = [answer EXCEPT ![p] = said],
             receipt.pc = "new" => receipt = NewJob /\ said = "none",
             print[p].pc # "new" => receipt.pc # "new",
             receipt.pc # "new" => receipt.device \in Devices,
             receipt.pc = "rendering" => receipt.collected = <<"body">>,
             receipt.way = "direct" => receipt.reruns = 0,
             receipt.way = "queue" => said \notin {"none", "error"},
             receipt.pc \in {"new", "waiting", "opening", "rendering"} => Copies(p) <= receipt.reruns,
             Copies(p) <= 1 + receipt.reruns,
             said = "error" => receipt.pc = "ended" /\ Copies(p) = 0
      PROVE  PrintInv'
  <2>1. print'[p] = receipt /\ answer'[p] = said
        /\ \A q \in Prints \ {p} : print'[q] = print[q] /\ answer'[q] = answer[q]
    BY <1>0, <1>4
  <2>2. PrintTypeOK'
    BY <1>0, <1>4 DEF PrintTypeOK
  <2>3. AsFarAsItIs'
    BY <1>4, <2>1 DEF PrintInv, AsFarAsItIs
  <2>4. OncePerRun'
    BY <1>2, <1>4, <2>1 DEF PrintInv, OncePerRun
  <2> QED BY <1>1, <1>4, <2>2, <2>3, <2>4 DEF PrintInv
<1>5. ASSUME NEW p \in Prints
      PROVE  /\ print[p] \in Job /\ answer[p] \in {"none", "ok", "error", "lost"} /\ Copies(p) \in Nat
             /\ print[p].pc = "new" => print[p] = NewJob /\ answer[p] = "none"
             /\ print[p].pc # "new" => print[p].device \in Devices
             /\ print[p].pc = "rendering" => print[p].collected = <<"body">>
             /\ handed[p] \in {<<>>, Whole} /\ (handed[p] # <<>> => print[p].pc # "new")
             /\ print[p].way = "direct" => print[p].reruns = 0
             /\ print[p].way = "queue" => answer[p] \notin {"none", "error"}
             /\ print[p].pc \in {"new", "waiting", "opening", "rendering"} => Copies(p) <= print[p].reruns
             /\ Copies(p) <= 1 + print[p].reruns
             /\ answer[p] = "error" => print[p].pc = "ended" /\ Copies(p) = 0
             /\ answer = [answer EXCEPT ![p] = answer[p]]
  <2>1. print[p] \in Job /\ answer[p] \in {"none", "ok", "error", "lost"} /\ Copies(p) \in Nat
        /\ answer = [answer EXCEPT ![p] = answer[p]]
    BY <1>0, <1>0a
  <2> QED BY <2>1 DEF PrintInv, AsFarAsItIs, OncePerRun
<1>6. NewJob \in Job /\ NewJob.pc = "new" /\ NewJob.way = "direct" /\ NewJob.reruns = 0
  BY PartsAreParts DEF NewJob, Job
<1>7. ASSUME NEW p \in Prints, NEW d \in Devices, PrintSale(p, d) PROVE PrintInv'
  <2> DEFINE receipt == [NewJob EXCEPT !.pc = "opening", !.device = d]
             said == answer[p]
  <2>1. print' = [print EXCEPT ![p] = receipt] /\ print[p] = NewJob
        /\ UNCHANGED <<answer, paper, handed, deaths, losses>>
    BY <1>7 DEF PrintSale
  <2>2. receipt \in Job /\ receipt.pc = "opening" /\ receipt.device = d /\ receipt.way = "direct" /\ receipt.reruns = 0
    BY PartsAreParts DEF NewJob, Job
  <2>3. answer' = [answer EXCEPT ![p] = said] /\ said = "none" /\ Copies(p) = 0
        /\ losses' \in 0..MaxLosses
    BY <1>0, <1>5, <1>6, <2>1
  <2> HIDE DEF receipt, said
  <2>4. Copies(p) <= receipt.reruns /\ Copies(p) <= 1 + receipt.reruns
    BY <2>2, <2>3
  <2> QED BY <1>4, <2>1, <2>2, <2>3, <2>4
<1>8. ASSUME NEW p \in Prints, NEW d \in Devices, EnqueuePrint(p, d) PROVE PrintInv'
  <2> DEFINE receipt == [NewJob EXCEPT !.pc = "waiting", !.way = "queue", !.device = d]
  <2>1. print' = [print EXCEPT ![p] = receipt] /\ print[p] = NewJob /\ Tell(p, "ok")
        /\ UNCHANGED <<paper, handed, deaths, losses>>
    BY <1>8 DEF EnqueuePrint
  <2>2. receipt \in Job /\ receipt.pc = "waiting" /\ receipt.device = d /\ receipt.way = "queue" /\ receipt.reruns = 0
    BY PartsAreParts DEF NewJob, Job
  <2>3. answer' = [answer EXCEPT ![p] = "ok"] /\ Copies(p) = 0
        /\ losses' \in 0..MaxLosses
    <3>1. answer[p] = "none" /\ Copies(p) = 0 /\ losses' \in 0..MaxLosses
      BY <1>0, <1>5, <1>6, <2>1
    <3> QED BY <2>1, <3>1 DEF Tell
  <2> HIDE DEF receipt
  <2>4. Copies(p) <= receipt.reruns /\ Copies(p) <= 1 + receipt.reruns
    BY <2>2, <2>3
  <2> QED BY <1>4, <2>1, <2>2, <2>3, <2>4
<1>9. ASSUME NEW p \in Prints, TakeJob(p) PROVE PrintInv'
  <2> DEFINE receipt == [print[p] EXCEPT !.pc = "opening"]
             said == answer[p]
  <2>1. print' = [print EXCEPT ![p] = receipt] /\ print[p].pc = "waiting"
        /\ UNCHANGED <<answer, paper, handed, deaths, losses>>
    BY <1>9 DEF TakeJob, Stage
  <2>2. /\ receipt \in Job /\ receipt.pc = "opening" /\ receipt.device = print[p].device
        /\ receipt.way = print[p].way /\ receipt.reruns = print[p].reruns
    BY <1>5 DEF Job
  <2>3. /\ answer' = [answer EXCEPT ![p] = said] /\ said \in {"none", "ok", "error", "lost"}
        /\ said # "error" /\ (print[p].way = "queue" => said # "none")
    BY <1>5, <2>1
  <2> HIDE DEF receipt, said
  <2> QED BY <1>0, <1>4, <1>5, <2>1, <2>2, <2>3
<1>10. ASSUME NEW p \in Prints, Render(p) PROVE PrintInv'
  <2> DEFINE receipt == [print[p] EXCEPT !.pc = "rendering", !.collected = <<"body">>]
             said == answer[p]
  <2>1. print' = [print EXCEPT ![p] = receipt] /\ print[p].pc = "opening"
        /\ UNCHANGED <<answer, paper, handed, deaths, losses>>
    BY <1>10 DEF Render
  <2>2. /\ receipt \in Job /\ receipt.pc = "rendering" /\ receipt.device = print[p].device
        /\ receipt.collected = <<"body">> /\ receipt.way = print[p].way /\ receipt.reruns = print[p].reruns
    BY <1>5, PartsAreParts DEF Job
  <2>3. /\ answer' = [answer EXCEPT ![p] = said] /\ said \in {"none", "ok", "error", "lost"}
        /\ said # "error" /\ (print[p].way = "queue" => said # "none")
    BY <1>5, <2>1
  <2> HIDE DEF receipt, said
  <2> QED BY <1>0, <1>4, <1>5, <2>1, <2>2, <2>3
<1>11. ASSUME NEW p \in Prints, Return(p) PROVE PrintInv'
  <2> DEFINE receipt == [print[p] EXCEPT !.pc = "ended"]
             said == IF answer[p] = "none" THEN "ok" ELSE answer[p]
  <2>1. print' = [print EXCEPT ![p] = receipt] /\ answer' = [answer EXCEPT ![p] = said]
        /\ print[p].pc = "closed" /\ UNCHANGED <<paper, handed, deaths, losses>>
    BY <1>11 DEF Return, Stage, Tell
  <2>2. /\ receipt \in Job /\ receipt.pc = "ended" /\ receipt.device = print[p].device
        /\ receipt.way = print[p].way /\ receipt.reruns = print[p].reruns
    BY <1>5 DEF Job
  <2>3. said \in {"none", "ok", "error", "lost"} /\ said # "error" /\ said # "none"
    BY <1>5, <2>1
  <2> HIDE DEF receipt, said
  <2> QED BY <1>0, <1>4, <1>5, <2>1, <2>2, <2>3
<1>12. ASSUME NEW p \in Prints, Fail(p) PROVE PrintInv'
  <2> DEFINE receipt == [print[p] EXCEPT !.pc = "ended", !.collected = <<>>]
             said == IF answer[p] = "none" THEN "error" ELSE answer[p]
  <2>1. print' = [print EXCEPT ![p] = receipt] /\ answer' = [answer EXCEPT ![p] = said]
        /\ print[p].pc \in {"opening", "rendering"} /\ UNCHANGED <<paper, handed, deaths, losses>>
    BY <1>12 DEF Fail, Tell
  <2>2. /\ receipt \in Job /\ receipt.pc = "ended" /\ receipt.device = print[p].device
        /\ receipt.way = print[p].way /\ receipt.reruns = print[p].reruns
    BY <1>5, PartsAreParts DEF Job
  <2>3. said \in {"none", "ok", "error", "lost"} /\ (print[p].way = "queue" => said \notin {"none", "error"})
    BY <1>5, <2>1
  <2>4. said = "error" => Copies(p) = 0
    <3>1. answer[p] # "error" /\ (said = "error" => answer[p] = "none")
      BY <1>5, <2>1
    <3>2. answer[p] = "none" => print[p].way = "direct"
      BY <1>5 DEF Job
    <3> QED BY <1>5, <2>1, <3>1, <3>2
  <2> HIDE DEF receipt, said
  <2> QED BY <1>0, <1>4, <1>5, <2>1, <2>2, <2>3, <2>4
<1>13. ASSUME NEW p \in Prints, LoseAnswer(p) PROVE PrintInv'
  <2>1. /\ print' = [print EXCEPT ![p] = print[p]] /\ answer' = [answer EXCEPT ![p] = "lost"]
        /\ UNCHANGED <<paper, handed, deaths>> /\ losses' \in 0..MaxLosses
    BY <1>0, <1>13 DEF LoseAnswer, Tell
  <2>2. print[p].way = "direct" /\ print[p].pc # "new"
    BY <1>5, <1>13 DEF LoseAnswer, Underway
  <2> QED BY <1>4, <1>5, <2>1, <2>2
<1>14. ASSUME NEW p \in Prints, Close(p) PROVE PrintInv'
  <2> DEFINE receipt == [print[p] EXCEPT !.pc = "closed", !.collected = <<>>]
  <2>1. /\ print' = [print EXCEPT ![p] = receipt] /\ print[p].pc = "rendering"
        /\ handed' = [handed EXCEPT ![p] = Append(print[p].collected, "footer")]
        /\ UNCHANGED <<answer, paper, deaths, losses>>
    BY <1>14 DEF Close
  <2>2. /\ receipt \in Job /\ receipt.pc = "closed" /\ receipt.device = print[p].device
        /\ receipt.way = print[p].way /\ receipt.reruns = print[p].reruns /\ print[p].reruns \in Nat
    BY <1>5, PartsAreParts DEF Job
  <2>3. handed' = [handed EXCEPT ![p] = Whole]
    <3>1. print[p].collected = <<"body">>
      BY <1>5, <2>1
    <3> QED BY <2>1, <3>1, PartsOfWhole
  <2> HIDE DEF receipt
  <2>4. print'[p] = receipt /\ handed'[p] = Whole /\ Whole \in Seq(Part)
        /\ \A q \in Prints \ {p} : print'[q] = print[q] /\ handed'[q] = handed[q]
    BY <1>0, <2>1, <2>3, PartsAreParts
  <2>5. PrintTypeOK'
    <3>1. print' \in [Prints -> Job]
      BY <1>0, <2>1, <2>2
    <3>2. handed' \in [Prints -> Seq(Part)]
      BY <1>0, <2>3, <2>4
    <3> QED BY <1>0, <2>1, <3>1, <3>2 DEF PrintTypeOK
  <2>6. AsFarAsItIs'
    <3>1. ASSUME NEW q \in Prints
          PROVE  /\ print'[q].pc = "new" => print'[q] = NewJob /\ answer'[q] = "none"
                 /\ print'[q].pc # "new" => print'[q].device \in Devices
                 /\ print'[q].pc = "rendering" => print'[q].collected = <<"body">>
                 /\ handed'[q] \in {<<>>, Whole}
                 /\ handed'[q] # <<>> => print'[q].pc # "new"
                 /\ print'[q].way = "direct" => print'[q].reruns = 0
                 /\ print'[q].way = "queue" => answer'[q] \notin {"none", "error"}
      BY <1>5, <2>1, <2>2, <2>4
    <3> QED BY <3>1 DEF AsFarAsItIs
  <2>7. \A q \in Prints : Bodies(q)' = Bodies(q)
    BY <1>1, <2>1
  <2>8. Copies(p)' <= Copies(p) + 1 /\ \A q \in Prints \ {p} : Copies(q)' = Copies(q)
    BY <1>0a, <2>4, <2>7 DEF Copies
  <2>9. Copies(p)' <= 1 + print[p].reruns /\ answer[p] # "error"
    <3>1. Copies(p)' \in Int
      BY <1>0a, <2>7 DEF Copies
    <3>2. Copies(p) <= print[p].reruns /\ answer[p] # "error" /\ Copies(p) \in Nat
      BY <1>5, <2>1
    <3> QED BY <2>2, <2>8, <3>1, <3>2
  <2>10. OncePerRun'
    <3>1. ASSUME NEW q \in Prints
          PROVE  /\ IsFiniteSet(Bodies(q)')
                 /\ print'[q].pc \in {"new", "waiting", "opening", "rendering"} => Copies(q)' <= print'[q].reruns
                 /\ Copies(q)' <= 1 + print'[q].reruns
                 /\ answer'[q] = "error" => print'[q].pc = "ended" /\ Copies(q)' = 0
      <4>1. CASE q = p
        BY <1>0a, <2>1, <2>2, <2>4, <2>7, <2>9, <4>1
      <4>2. CASE q # p
        BY <1>0a, <1>5, <2>1, <2>4, <2>7, <2>8, <4>2
      <4> QED BY <4>1, <4>2
    <3> QED BY <3>1 DEF OncePerRun
  <2> QED BY <1>1, <2>1, <2>5, <2>6, <2>10 DEF PrintInv
<1>15. ASSUME NEW p \in Prints, Flush(p) \/ FlushBreaksOff(p) PROVE PrintInv'
  <2>1. handed[p] = Whole /\ print[p].device \in Devices /\ handed[p] # <<>>
    BY <1>5, <1>15 DEF Flush, FlushBreaksOff
  <2>2. losses' \in 0..MaxLosses /\ UNCHANGED <<print, answer, deaths>>
    BY <1>0, <1>15 DEF Flush, FlushBreaksOff
  <2>3. PICK parts \in {<<>>, <<"body">>, Whole} : ComesOut(p, parts)
    <3>1. CASE Flush(p)
      BY <2>1, <3>1 DEF Flush
    <3>2. CASE FlushBreaksOff(p)
      <4>1. PICK n \in 0..(Len(Whole) - 1) : ComesOut(p, SubSeq(Whole, 1, n))
        BY <2>1, <3>2 DEF FlushBreaksOff
      <4>2. n = 0 \/ n = 1
        BY <4>1 DEF Whole
      <4> QED BY <4>1, <4>2, PartsOfWhole
    <3> QED BY <1>15, <3>1, <3>2
  <2>4. paper' \in [Devices -> Seq(Prints \X Part)] /\ ReceiptsApart'
        /\ handed' = [handed EXCEPT ![p] = <<>>]
    BY <2>1, <2>3, PartsComeOut
  <2>5. \A q \in Prints : IsFiniteSet(Bodies(q)') /\ Copies(q)' <= Copies(q) /\ Copies(q)' \in Nat
    <3>1. \A q \in Prints : IsFiniteSet(Bodies(q)') /\ Copies(q)' <= Copies(q)
      BY <2>1, <2>3, CopiesComeOut
    <3>2. \A q \in Prints : Cardinality(Bodies(q)') \in Nat
      BY <3>1, FS_CardinalityType
    <3> QED BY <3>1, <3>2 DEF Copies
  <2>6. PrintTypeOK'
    BY <1>0, <2>2, <2>4, PartsAreParts DEF PrintTypeOK
  <2>7. AsFarAsItIs'
    BY <1>0, <2>2, <2>4 DEF PrintInv, AsFarAsItIs
  <2>8. OncePerRun'
    <3>1. ASSUME NEW q \in Prints
          PROVE  /\ print[q].pc \in {"new", "waiting", "opening", "rendering"} => Copies(q)' <= print[q].reruns
                 /\ Copies(q)' <= 1 + print[q].reruns
                 /\ answer[q] = "error" => print[q].pc = "ended" /\ Copies(q)' = 0
      <4>1. print[q].reruns \in Nat /\ Copies(q) \in Nat /\ Copies(q)' \in Nat /\ Copies(q)' <= Copies(q)
        BY <1>5, <2>5 DEF Job
      <4> QED BY <1>5, <4>1
    <3> QED BY <2>2, <2>5, <3>1 DEF OncePerRun
  <2> QED BY <2>4, <2>6, <2>7, <2>8 DEF PrintInv
<1>16. CASE Crash
  <2>1. /\ deaths' \in 0..MaxDeaths /\ UNCHANGED <<paper, losses>>
        /\ handed' = [q \in Prints |-> <<>>]
    <3>1. handed' = [q \in Prints |-> <<>>] /\ UNCHANGED <<paper, losses>>
      BY <1>16 DEF Crash
    <3>2. deaths < MaxDeaths /\ deaths' = deaths + 1
      BY <1>16 DEF Crash
    <3>3. deaths' \in 0..MaxDeaths
      BY <1>0, <3>2
    <3> QED BY <3>1, <3>3
  <2>2. ASSUME NEW q \in Prints
        PROVE  /\ print'[q] \in Job /\ answer'[q] \in {"none", "ok", "error", "lost"}
               /\ print'[q].pc = "new" => print'[q] = NewJob /\ answer'[q] = "none"
               /\ print'[q].pc # "new" => print'[q].device \in Devices
               /\ print'[q].pc = "rendering" => print'[q].collected = <<"body">>
               /\ print'[q].way = "direct" => print'[q].reruns = 0
               /\ print'[q].way = "queue" => answer'[q] \notin {"none", "error"}
               /\ print'[q].pc \in {"new", "waiting", "opening", "rendering"} => Copies(q) <= print'[q].reruns
               /\ Copies(q) <= 1 + print'[q].reruns
               /\ answer'[q] = "error" => print'[q].pc = "ended" /\ Copies(q) = 0
    <3>1. print[q].reruns \in Nat /\ print[q].way \in {"direct", "queue"}
      BY <1>5 DEF Job
    <3>2. answer'[q] = IF Underway(q) /\ answer[q] = "none" THEN "lost" ELSE answer[q]
      BY <1>16 DEF Crash
    <3>3. CASE ~Underway(q)
      <4>1. print'[q] = print[q]
        BY <1>16, <3>3 DEF Crash
      <4> QED BY <1>5, <3>2, <3>3, <4>1 DEF Underway
    <3>4. CASE Underway(q) /\ print[q].way = "queue" /\ print[q].reruns < MaxReruns
      <4> DEFINE receipt == [print[q] EXCEPT !.pc = "waiting", !.collected = <<>>, !.reruns = @ + 1]
      <4>1. print'[q] = receipt
        BY <1>16, <3>4 DEF Crash
      <4>2. /\ receipt \in Job /\ receipt.pc = "waiting" /\ receipt.device = print[q].device
            /\ receipt.way = "queue" /\ receipt.reruns = print[q].reruns + 1
        <5>1. print[q] \in Job /\ print[q].reruns + 1 \in Nat
          BY <1>5, <3>1
        <5> QED BY <3>4, <5>1, PartsAreParts DEF Job
      <4>3. print[q].pc # "new" /\ answer[q] # "none" /\ answer[q] # "error"
        BY <1>5, <3>4 DEF Underway
      <4> HIDE DEF receipt
      <4> QED BY <1>5, <3>1, <3>2, <4>1, <4>2, <4>3
    <3>5. CASE Underway(q) /\ ~(print[q].way = "queue" /\ print[q].reruns < MaxReruns)
      <4> DEFINE receipt == [print[q] EXCEPT !.pc = "ended", !.collected = <<>>]
      <4>1. print'[q] = receipt
        BY <1>16, <3>5 DEF Crash
      <4>2. /\ receipt \in Job /\ receipt.pc = "ended" /\ receipt.device = print[q].device
            /\ receipt.way = print[q].way /\ receipt.reruns = print[q].reruns
        BY <1>5, PartsAreParts DEF Job
      <4>3. print[q].pc # "new" /\ answer[q] # "error" /\ answer'[q] # "error"
            /\ answer'[q] \in {"none", "ok", "error", "lost"} /\ answer'[q] # "none"
        BY <1>5, <3>2, <3>5 DEF Underway
      <4> HIDE DEF receipt
      <4> QED BY <1>5, <3>1, <4>1, <4>2, <4>3
    <3> QED BY <3>3, <3>4, <3>5
  <2>3. \A q \in Prints : Bodies(q)' = Bodies(q)
    BY <1>1, <2>1
  <2>4. \A q \in Prints : Copies(q)' <= Copies(q) /\ Copies(q)' \in Nat
    <3>1. \A q \in Prints : handed'[q] = <<>>
      BY <2>1
    <3> QED BY <1>0a, <2>3, <3>1 DEF Copies
  <2>5. PrintTypeOK'
    <3>0. handed' \in [Prints -> Seq(Part)]
      BY <2>1, PartsAreParts
    <3>1. print' \in [Prints -> Job] /\ answer' \in [Prints -> {"none", "ok", "error", "lost"}]
      BY <1>16, <2>2 DEF Crash
    <3> QED BY <1>0, <2>1, <3>0, <3>1 DEF PrintTypeOK
  <2>6. AsFarAsItIs'
    BY <2>1, <2>2 DEF AsFarAsItIs
  <2>7. OncePerRun'
    <3>1. ASSUME NEW q \in Prints
          PROVE  /\ IsFiniteSet(Bodies(q)')
                 /\ print'[q].pc \in {"new", "waiting", "opening", "rendering"} => Copies(q)' <= print'[q].reruns
                 /\ Copies(q)' <= 1 + print'[q].reruns
                 /\ answer'[q] = "error" => print'[q].pc = "ended" /\ Copies(q)' = 0
      <4>1. Copies(q) \in Nat /\ Copies(q)' \in Nat /\ Copies(q)' <= Copies(q) /\ IsFiniteSet(Bodies(q)')
        BY <1>0a, <2>3, <2>4
      <4>2. print'[q].reruns \in Nat
        BY <2>2 DEF Job
      <4> QED BY <2>2, <4>1, <4>2
    <3> QED BY <3>1 DEF OncePerRun
  <2> QED BY <1>1, <2>1, <2>5, <2>6, <2>7 DEF PrintInv
<1> QED
  BY <1>3, <1>7, <1>8, <1>9, <1>10, <1>11, <1>12, <1>13, <1>14, <1>15, <1>16 DEF PrintNext

LEMMA PrintAtFirst == PrintInit => PrintInv
<1> SUFFICES ASSUME PrintInit PROVE PrintInv
  OBVIOUS
<1>1. NewJob \in Job /\ NewJob.pc = "new" /\ NewJob.way = "direct" /\ NewJob.reruns = 0
  BY PartsAreParts DEF NewJob, Job
<1>2. PrintTypeOK
  <2>1. print \in [Prints -> Job]
    BY <1>1 DEF PrintInit
  <2>2. handed \in [Prints -> Seq(Part)] /\ paper \in [Devices -> Seq(Prints \X Part)]
    BY PartsAreParts DEF PrintInit
  <2> QED BY <2>1, <2>2, PrintingAssumption DEF PrintInit, PrintTypeOK
<1>3. AsFarAsItIs
  BY <1>1 DEF PrintInit, AsFarAsItIs
<1>4. ReceiptsApart
  BY DEF PrintInit, ReceiptsApart
<1>5. OncePerRun
  <2>1. \A p \in Prints : Bodies(p) = {} /\ handed[p] = <<>>
    BY DEF PrintInit, Bodies
  <2>2. \A p \in Prints : IsFiniteSet(Bodies(p)) /\ Copies(p) = 0
    BY <2>1, FS_EmptySet DEF Copies
  <2> QED BY <1>1, <2>2 DEF PrintInit, OncePerRun
<1> QED BY <1>2, <1>3, <1>4, <1>5 DEF PrintInv

(***************************************************************************)
(* For any number of prints, devices, deaths and losses no receipt begins *)
(* inside another one, or ends in another's footer.                        *)
(***************************************************************************)
THEOREM ReceiptsStayApart == PrintSpec => []ReceiptsApart
<1> QED BY PrintAtFirst, PrintStep, PTL DEF PrintSpec, PrintInv

(***************************************************************************)
(* And a print that was answered with an error has left nothing on paper,  *)
(* nor anything that is still to come out; another has come out at most    *)
(* once, and once more for each of its reruns.                             *)
(***************************************************************************)
THEOREM ErrorsLeaveNoPaper == PrintSpec => []ErrorLeavesNoPaper
<1>1. PrintInv => ErrorLeavesNoPaper
  BY FS_CardinalityType DEF PrintInv, OncePerRun, ErrorLeavesNoPaper, Copies
<1> QED BY <1>1, PrintAtFirst, PrintStep, PTL DEF PrintSpec
=============================================================================
