------------------------------ MODULE WorkerJobs ------------------------------
(***************************************************************************)
(* WhatsApp messages on their way into the database, and the worker's      *)
(* other short jobs.  The gateway puts what WhatsApp delivers into a queue *)
(* (messages.upsert); the worker stores it, and then logs it in the CRM.   *)
(* Jobs for templates, thumbnails, PDFs and the nightly backup go the same *)
(* way.  The API stores messages too, those posted to its webhook one      *)
(* after the other, with no transaction around them.                       *)
(*                                                                         *)
(* A worker has one job of a queue at a time; a job whose handler throws   *)
(* has failed for good, and one whose worker died runs again from the      *)
(* start.                                                                  *)
(***************************************************************************)
EXTENDS Integers, Sequences, FiniteSets

CONSTANTS
  Inbound,     \* messages WhatsApp delivers
  Templates,   \* jobs of SEND_TEMPLATE
  Files,       \* jobs of MEDIA_PROCESS and PDF_INVOICE: one object each
  Backups,     \* jobs of BACKUP_DAILY
  Batch,       \* the messages of a webhook request, a sequence
  Posts,       \* requests with this batch
  MaxStalls,   \* BullMQ's maxStalledCount: reruns of a stalled job
  MaxWork,     \* bound: messages, jobs and requests that come
  MaxCrashes, MaxErrors   \* bounds: how often each may happen

Chats == Inbound \cup Templates
Work  == Chats \cup Files \cup Backups

Posted == {Batch[i] : i \in DOMAIN Batch}

ASSUME WorkerJobsAssumption ==
  /\ Inbound \cap (Templates \cup Posted) = {} /\ Templates \cap Posted = {}
  /\ Chats \cap (Files \cup Backups) = {} /\ Files \cap Backups = {}
  /\ Batch \in Seq(Posted) /\ \A i, j \in DOMAIN Batch : Batch[i] = Batch[j] => i = j
  /\ IsFiniteSet(Posts)
  /\ MaxStalls \in Nat /\ MaxWork \in Nat /\ MaxCrashes \in Nat /\ MaxErrors \in Nat

VARIABLES
  phone,     \* messages the gateway has been handed and has not queued yet
  job,       \* where each piece of work is, and how often it was run again
  rows,      \* table wa_messages: rows of each message
  crm,       \* table crm_interactions: rows of each message
  objects,   \* the objects in the buckets
  session,   \* is there a row for the session the messages belong to?
  post,      \* how far each request to the webhook is
  lost,      \* work whose gateway died, whose handler threw, or that stalled too often
  crashes, errors

vars == <<phone, job, rows, crm, objects, session, post, lost, crashes, errors>>

Queues == {Inbound, Templates, Files, Backups}

NoJob  == [pc |-> "none", reruns |-> 0]
NoPost == [pc |-> "new", stored |-> 0]

TypeOK ==
  /\ phone \subseteq Inbound
  /\ job \in [Work -> [pc : {"none", "waiting", "session", "stored", "bucket", "done", "ended"},
                       reruns : Nat]]
  /\ rows \in [Chats \cup Posted -> Nat] /\ crm \in [Inbound -> Nat]
  /\ objects \subseteq Work \X Nat
  /\ session \in BOOLEAN
  /\ post \in [Posts -> [pc : {"new", "open", "ok", "error"}, stored : 0..Len(Batch)]]
  /\ lost \subseteq Work
  /\ crashes \in 0..MaxCrashes /\ errors \in 0..MaxErrors

Init ==
  /\ phone = {}
  /\ job = [w \in Work |-> NoJob]
  /\ rows = [m \in Chats \cup Posted |-> 0] /\ crm = [m \in Inbound |-> 0]
  /\ objects = {}
  /\ session = FALSE
  /\ post = [p \in Posts |-> NoPost]
  /\ lost = {}
  /\ crashes = 0 /\ errors = 0

Goto(w, pc) == job' = [job EXCEPT ![w].pc = pc]
Active(w)   == job[w].pc \in {"session", "stored", "bucket", "done"}

-----------------------------------------------------------------------------
(***************************************************************************)
(* Work comes: from WhatsApp through the gateway, or somebody adds a job.  *)
(***************************************************************************)
Came(w) == w \in phone \cup lost \/ job[w] # NoJob

MayCome(n) ==
  n + Cardinality({w \in Work : Came(w)}) + Cardinality({p \in Posts : post[p] # NoPost}) <= MaxWork

Deliver(M) ==
  /\ phone = {} /\ M # {}
  /\ \A m \in M : ~Came(m)
  /\ MayCome(Cardinality(M))
  /\ phone' = M
  /\ UNCHANGED <<job, rows, crm, objects, session, post, lost, crashes, errors>>

AddBulk ==
  /\ phone # {}
  /\ job' = [w \in Work |-> IF w \in phone THEN [job[w] EXCEPT !.pc = "waiting"] ELSE job[w]]
  /\ phone' = {}
  /\ UNCHANGED <<rows, crm, objects, session, post, lost, crashes, errors>>

AddJob(w) ==
  /\ ~Came(w) /\ MayCome(1)
  /\ Goto(w, "waiting")
  /\ UNCHANGED <<phone, rows, crm, objects, session, post, lost, crashes, errors>>

-----------------------------------------------------------------------------
(***************************************************************************)
(* The handlers: handleChatInbound and handleSendTemplate; handleMedia,    *)
(* handlePdfInvoice and handleBackup.                                      *)
(***************************************************************************)
Begins(w, queue) ==
  /\ w \in queue /\ job[w].pc = "waiting"
  /\ \A v \in queue : ~Active(v)

(* Fault: the CRM comes first.                                             *)
UpsertSessionAndLog(w) ==
  /\ Begins(w, Inbound) \/ Begins(w, Templates)
  /\ session' = TRUE
  /\ crm' = IF w \in Inbound THEN [crm EXCEPT ![w] = @ + 1] ELSE crm
  /\ Goto(w, "session")
  /\ UNCHANGED <<phone, rows, objects, post, lost, crashes, errors>>

UpsertSession(w) ==
  /\ Begins(w, Inbound) \/ Begins(w, Templates)
  /\ session' = TRUE
  /\ Goto(w, "session")
  /\ UNCHANGED <<phone, rows, crm, objects, post, lost, crashes, errors>>

StoreMessage(w) ==
  /\ w \in Chats /\ job[w].pc = "session" /\ session
  /\ rows' = [rows EXCEPT ![w] = @ + 1]
  /\ Goto(w, IF w \in Inbound THEN "stored" ELSE "done")
  /\ UNCHANGED <<phone, crm, objects, session, post, lost, crashes, errors>>

(* If this fails it is only logged.                                        *)
LogInteraction(w) ==
  /\ w \in Inbound /\ job[w].pc = "stored"
  /\ crm' \in {crm, [crm EXCEPT ![w] = @ + 1]}
  /\ Goto(w, "done")
  /\ UNCHANGED <<phone, rows, objects, session, post, lost, crashes, errors>>

EnsureBucket(w) ==
  /\ Begins(w, Files) \/ Begins(w, Backups)
  /\ Goto(w, "bucket")
  /\ UNCHANGED <<phone, rows, crm, objects, session, post, lost, crashes, errors>>

(* A thumbnail or PDF has the name of what it shows, and a rerun writes    *)
(* over it; a backup has the name of its moment.                           *)
PutObject(w) ==
  /\ job[w].pc = "bucket"
  /\ objects' = objects \cup {<<w, IF w \in Backups THEN job[w].reruns ELSE 0>>}
  /\ Goto(w, "done")
  /\ UNCHANGED <<phone, rows, crm, session, post, lost, crashes, errors>>

Complete(w) ==
  /\ job[w].pc = "done"
  /\ Goto(w, "ended")
  /\ UNCHANGED <<phone, rows, crm, objects, session, post, lost, crashes, errors>>

Throw(w) ==
  /\ Active(w) /\ job[w].pc # "done"
  /\ errors < MaxErrors /\ errors' = errors + 1
  /\ Goto(w, "ended")
  /\ lost' = lost \cup {w}
  /\ UNCHANGED <<phone, rows, crm, objects, session, post, crashes>>

-----------------------------------------------------------------------------
(***************************************************************************)
(* The API: ingestWebhook, and sendMessage, which is a batch of one that   *)
(* nothing sends.                                                          *)
(***************************************************************************)
IngestWebhook(p) ==
  /\ post[p] = NoPost /\ MayCome(1)
  /\ post' = [post EXCEPT ![p].pc = "open"]
  /\ UNCHANGED <<phone, job, rows, crm, objects, session, lost, crashes, errors>>

(* Fault: a message that fails is left out.                                *)
RecordOrSkip(p) ==
  /\ post[p].pc = "open" /\ post[p].stored < Len(Batch)
  /\ session' = TRUE
  /\ rows' \in {rows, [rows EXCEPT ![Batch[post[p].stored + 1]] = @ + 1]}
  /\ post' = [post EXCEPT ![p].stored = @ + 1]
  /\ UNCHANGED <<phone, job, crm, objects, lost, crashes, errors>>

RecordMessage(p) ==
  /\ post[p].pc = "open" /\ post[p].stored < Len(Batch)
  /\ session' = TRUE
  /\ rows' = [rows EXCEPT ![Batch[post[p].stored + 1]] = @ + 1]
  /\ post' = [post EXCEPT ![p].stored = @ + 1]
  /\ UNCHANGED <<phone, job, crm, objects, lost, crashes, errors>>

Answer(p) ==
  /\ post[p].pc = "open" /\ post[p].stored = Len(Batch)
  /\ post' = [post EXCEPT ![p].pc = "ok"]
  /\ UNCHANGED <<phone, job, rows, crm, objects, session, lost, crashes, errors>>

(* A statement fails, of the two for each message, or the API dies.        *)
PostFails(p) ==
  /\ post[p].pc = "open"
  /\ post' = [post EXCEPT ![p].pc = "error"]
  /\ session' \in {session, TRUE}
  /\ UNCHANGED <<phone, job, rows, crm, objects, lost, crashes, errors>>

-----------------------------------------------------------------------------
(***************************************************************************)
(* What dies.                                                              *)
(***************************************************************************)
GatewayDies ==
  /\ phone # {}
  /\ crashes < MaxCrashes /\ crashes' = crashes + 1
  /\ phone' = {}
  /\ lost' = lost \cup phone
  /\ UNCHANGED <<job, rows, crm, objects, session, post, errors>>

(* Fault: a job that has stalled is over.                                  *)
RerunNever(w) == [job[w] EXCEPT !.pc = "ended"]

Rerun(w) ==
  IF job[w].reruns < MaxStalls THEN [pc |-> "waiting", reruns |-> job[w].reruns + 1]
  ELSE [job[w] EXCEPT !.pc = "ended"]

WorkerDies ==
  /\ crashes < MaxCrashes /\ crashes' = crashes + 1
  /\ job' = [w \in Work |-> IF Active(w) THEN Rerun(w) ELSE job[w]]
  /\ lost' = lost \cup {w \in Work : Active(w) /\ job[w].reruns >= MaxStalls}
  /\ UNCHANGED <<phone, rows, crm, objects, session, post, errors>>

-----------------------------------------------------------------------------
Handle(queue) ==
  \E w \in queue :
    \/ UpsertSession(w) \/ StoreMessage(w) \/ LogInteraction(w)
    \/ EnsureBucket(w) \/ PutObject(w)
    \/ Complete(w)

Next ==
  \/ \E M \in SUBSET Inbound : Deliver(M)
  \/ AddBulk
  \/ \E w \in Work \ Inbound : AddJob(w)
  \/ \E queue \in Queues : Handle(queue)
  \/ \E w \in Work : Throw(w)
  \/ \E p \in Posts : IngestWebhook(p) \/ RecordMessage(p) \/ Answer(p) \/ PostFails(p)
  \/ GatewayDies \/ WorkerDies

(* The gateway goes on with what it was handed, and the worker with the    *)
(* jobs of each of its queues.                                             *)
Spec     == Init /\ [][Next]_vars
FairSpec == Spec /\ WF_vars(AddBulk) /\ \A queue \in Queues : WF_vars(Handle(queue))
-----------------------------------------------------------------------------
(***************************************************************************)
(* However often the worker dies and whichever statement fails: a message  *)
(* is stored at most once for each run of its job, nothing is in the CRM   *)
(* that is not among the messages, and a file is there once.               *)
(***************************************************************************)
ObjectsOf(w) == {o \in objects : o[1] = w}

OnceForEachRun ==
  /\ \A w \in Chats : rows[w] <= 1 + job[w].reruns
  /\ \A m \in Inbound : crm[m] <= rows[m]
  /\ \A w \in Files : Cardinality(ObjectsOf(w)) <= 1
  /\ \A w \in Backups : Cardinality(ObjectsOf(w)) <= 1 + job[w].reruns

(***************************************************************************)
(* A batch is posted again after a failure, or twice at once: whoever is   *)
(* told that it was received finds all of it, and whoever is not finds it  *)
(* up to some message, with no gap.                                        *)
(***************************************************************************)
StoredWithoutGap ==
  LET Told(what) == Cardinality({p \in Posts : post[p].pc \in what}) IN
  \A i, j \in DOMAIN Batch :
    /\ Told({"ok"}) <= rows[Batch[i]]
    /\ rows[Batch[i]] <= Told({"ok", "open", "error"})
    /\ i <= j => rows[Batch[j]] <= rows[Batch[i]]

(***************************************************************************)
(* A message WhatsApp has delivered ends up among the messages, unless the *)
(* gateway dies with it, the handler throws, or the worker dies under it   *)
(* more often than BullMQ allows.                                          *)
(***************************************************************************)
InboundIsStored ==
  \A m \in Inbound : m \in phone ~> rows[m] > 0 \/ m \in lost
=============================================================================
