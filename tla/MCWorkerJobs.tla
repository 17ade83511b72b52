----------------------------- MODULE MCWorkerJobs -----------------------------
(* WorkerJobs with a batch of two messages.                                *)
EXTENDS WorkerJobs

CONSTANTS m3, m4

TwoMessages == <<m3, m4>>
=============================================================================
