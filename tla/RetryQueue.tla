----------------------------- MODULE RetryQueue -----------------------------
(***************************************************************************)
(* The bounded in-memory queue of link jobs that met a locked file         *)
(* (retry_queue.rs), shared by the workers of one ingest process.          *)
(***************************************************************************)
EXTENDS Naturals, Sequences

CONSTANT QueueCapacity  \* QUEUE_CAPACITY, 4096 in the code

ASSUME CapacityIsNatural == QueueCapacity \in Nat

VARIABLE retryq

(* try_send: a full queue drops the job, and the caller goes on.           *)
EnqueueUnbounded(job) == retryq' = Append(retryq, job)
Enqueue(job) ==
    retryq' = IF Len(retryq) < QueueCapacity THEN Append(retryq, job) ELSE retryq
=============================================================================
