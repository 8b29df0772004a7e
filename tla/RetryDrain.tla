----------------------------- MODULE RetryDrain -----------------------------
(***************************************************************************)
(* The whole life of a deferred job: DeferRetryQueue under threads that    *)
(* enqueue and drain it at the same time (retry_queue.rs).  The queue is   *)
(* the one of RetryQueue; a drain pops it empty into two private vectors   *)
(* and then sends the jobs whose backoff still runs back one by one, so    *)
(* that between two of its steps jobs are in no queue at all.              *)
(***************************************************************************)
EXTENDS RetryQueue, FiniteSets

CONSTANTS
    Jobs,          \* link jobs that meet a locked file
    Drainers,      \* threads that call drain_ready and retry what it returns
    MaxAttempts    \* MAX_RETRY_ATTEMPTS, 3 in the code

ASSUME AttemptsArePositive == MaxAttempts \in Nat \ {0}
ASSUME FinitelyManyJobs == IsFiniteSet(Jobs)

VARIABLES
    dr,     \* each drainer: where it is, the jobs that are due, those to send back
    fate,   \* history: what became of each job
    tries   \* history: how often each job was retried

drainVars == <<retryq, dr, fate, tries>>

(* Time is kept in each job, as the units of 100 ms until its retry_after. *)
BackoffFor(attempt) == 2 ^ attempt
NewJob(j)           == [id |-> j, attempts |-> 0, wait |-> BackoffFor(0)]
JobRecords          == [id : Jobs, attempts : 0 .. MaxAttempts - 1, wait : Nat]
IsReady(job)        == job.wait = 0
Later(job)          == [job EXCEPT !.wait = IF @ = 0 THEN 0 ELSE @ - 1]
LaterAll(jobs)      == [i \in DOMAIN jobs |-> Later(jobs[i])]

Fates        == {"unseen", "deferred", "done", "lost", "exhausted"}
IdleDrainer  == [pc |-> "idle", ready |-> <<>>, requeue |-> <<>>]

Init ==
    /\ retryq = <<>>
    /\ dr = [d \in Drainers |-> IdleDrainer]
    /\ fate = [j \in Jobs |-> "unseen"]
    /\ tries = [j \in Jobs |-> 0]

-----------------------------------------------------------------------------
HasRoom == Len(retryq) < QueueCapacity

(* As a bug: a queue that gives up its last place.                         *)
TrySendEarly(job) ==
    IF Len(retryq) + 1 < QueueCapacity
    THEN Enqueue(job) /\ fate' = [fate EXCEPT ![job.id] = "deferred"]
    ELSE UNCHANGED retryq /\ fate' = [fate EXCEPT ![job.id] = "lost"]

(* try_send: the job is queued, or lost without any trace but a log line.  *)
TrySend(job) ==
    /\ Enqueue(job)
    /\ fate' = [fate EXCEPT ![job.id] = IF HasRoom THEN "deferred" ELSE "lost"]

(* A link or a swap met a locked file: RetryJob::new, enqueue.             *)
Submit(j) ==
    /\ fate[j] = "unseen"
    /\ TrySend(NewJob(j))
    /\ UNCHANGED <<dr, tries>>

(* A thread whose last batch is dealt with calls drain_ready.              *)
StartDrain(d) ==
    /\ dr[d].pc = "idle" /\ dr[d].ready = <<>>
    /\ dr' = [dr EXCEPT ![d].pc = "receive"]
    /\ UNCHANGED <<retryq, fate, tries>>

(* As a bug: the job is looked at and not taken.                           *)
ReceivePeek(d) ==
    /\ dr[d].pc = "receive" /\ retryq # <<>>
    /\ dr' = [dr EXCEPT ![d].ready = Append(@, Head(retryq))]
    /\ UNCHANGED <<retryq, fate, tries>>

(* try_recv, and the job goes to the vector its deadline calls for.        *)
Receive(d) ==
    /\ dr[d].pc = "receive" /\ retryq # <<>>
    /\ LET job == Head(retryq)
       IN  dr' = IF IsReady(job) THEN [dr EXCEPT ![d].ready = Append(@, job)]
                                 ELSE [dr EXCEPT ![d].requeue = Append(@, job)]
    /\ retryq' = Tail(retryq)
    /\ UNCHANGED <<fate, tries>>

(* try_recv finds the queue empty.                                         *)
ReceiveNone(d) ==
    /\ dr[d].pc = "receive" /\ retryq = <<>>
    /\ dr' = [dr EXCEPT ![d].pc = "requeue"]
    /\ UNCHANGED <<retryq, fate, tries>>

(* One job that is not due goes back, if there is still room.              *)
SendBack(d) ==
    /\ dr[d].pc = "requeue" /\ dr[d].requeue # <<>>
    /\ TrySend(Head(dr[d].requeue))
    /\ dr' = [dr EXCEPT ![d].requeue = Tail(@)]
    /\ UNCHANGED tries

(* As a bug: drain_ready waits for something to return.                    *)
ReturnSome(d) ==
    /\ dr[d].pc = "requeue" /\ dr[d].requeue = <<>>
    /\ dr' = [dr EXCEPT ![d].pc = IF dr[d].ready = <<>> THEN "receive" ELSE "idle"]
    /\ UNCHANGED <<retryq, fate, tries>>

(* drain_ready returns the jobs that are due.                              *)
ReturnReady(d) ==
    /\ dr[d].pc = "requeue" /\ dr[d].requeue = <<>>
    /\ dr' = [dr EXCEPT ![d].pc = "idle"]
    /\ UNCHANGED <<retryq, fate, tries>>

(* As a bug: an attempt counter that is compared too late.                 *)
NextAttemptLate(job) ==
    IF job.attempts + 1 > MaxAttempts THEN {}
    ELSE {[job EXCEPT !.attempts = @ + 1, !.wait = BackoffFor(job.attempts + 1)]}

(* The job of the next attempt, unless this one was the last.              *)
NextAttempt(job) ==
    IF job.attempts + 1 >= MaxAttempts THEN {}
    ELSE {[job EXCEPT !.attempts = @ + 1, !.wait = BackoffFor(job.attempts + 1)]}

(* The caller retries a job that is due.  The link is made; or the file is *)
(* still locked, and the job is enqueued once more or given up.            *)
Retried(d) ==
    /\ dr[d].pc = "idle" /\ dr[d].ready # <<>>
    /\ tries' = [tries EXCEPT ![Head(dr[d].ready).id] = @ + 1]
    /\ dr' = [dr EXCEPT ![d].ready = Tail(@)]

RetrySucceeds(d) ==
    /\ Retried(d)
    /\ fate' = [fate EXCEPT ![Head(dr[d].ready).id] = "done"]
    /\ UNCHANGED retryq

RetryFails(d) ==
    /\ Retried(d)
    /\ LET job == Head(dr[d].ready)
       IN  \/ \E next \in NextAttempt(job) : TrySend(next)
           \/ /\ NextAttempt(job) = {}
              /\ fate' = [fate EXCEPT ![job.id] = "exhausted"]
              /\ UNCHANGED retryq

(* 100 ms go by.                                                           *)
Waiting(jobs) == \E i \in DOMAIN jobs : jobs[i].wait > 0
TimePasses ==
    /\ Waiting(retryq) \/ \E d \in Drainers : Waiting(dr[d].requeue)
    /\ retryq' = LaterAll(retryq)
    /\ dr' = [d \in Drainers |-> [dr[d] EXCEPT !.requeue = LaterAll(@)]]
    /\ UNCHANGED <<fate, tries>>

Draining(d) == Receive(d) \/ ReceiveNone(d) \/ SendBack(d) \/ ReturnReady(d)
Retry(d)    == RetrySucceeds(d) \/ RetryFails(d)

Next ==
    \/ \E j \in Jobs : Submit(j)
    \/ \E d \in Drainers : StartDrain(d) \/ Draining(d) \/ Retry(d)
    \/ TimePasses

Spec == Init /\ [][Next]_drainVars

(* A thread inside drain_ready goes on.  That somebody calls it at all, or *)
(* retries what it returns, nothing in the code promises.                  *)
FairSpec == Spec /\ \A d \in Drainers : WF_drainVars(Draining(d))
-----------------------------------------------------------------------------
(* Every variable has the shape the code gives it; the channel is bounded. *)
TypeOK ==
    /\ retryq \in Seq(JobRecords) /\ Len(retryq) <= QueueCapacity
    /\ dr \in [Drainers -> [pc : {"idle", "receive", "requeue"},
                            ready : Seq(JobRecords), requeue : Seq(JobRecords)]]
    /\ fate \in [Jobs -> Fates]
    /\ tries \in [Jobs -> Nat]

(* Where a job is: positions in the queue and in the drainers' vectors.    *)
At(jobs, j) == {i \in DOMAIN jobs : jobs[i].id = j}
Places(j) ==
    ({"queue"} \X {"-"} \X At(retryq, j))
    \cup UNION {({"ready"} \X {d} \X At(dr[d].ready, j))
                \cup ({"requeue"} \X {d} \X At(dr[d].requeue, j)) : d \in Drainers}

(* A deferred job is in exactly one place and a settled one nowhere: no    *)
(* interleaving of drains and enqueues hands a job to two threads, or      *)
(* forgets one (drain_ready).                                              *)
Custody == \A j \in Jobs :
    /\ (fate[j] = "deferred") <=> (Places(j) # {})
    /\ \A p, q \in Places(j) : p = q

(* A job is lost only when more jobs are outstanding than the queue holds, *)
(* whatever part of them the drainers keep in their vectors (enqueue,      *)
(* drain_ready: "the queue is now full").                                  *)
Outstanding == {j \in Jobs : fate[j] = "deferred"}
LossNeedsOverflow ==
    [][\A j \in Jobs : fate[j] # "lost" /\ fate'[j] = "lost" =>
          Cardinality(Outstanding \cup {j}) > QueueCapacity]_drainVars

(* A job is retried at most MaxAttempts times, and is given up only after  *)
(* exactly so many failures (next_attempt and the module comment).         *)
RetriesAreBounded == \A j \in Jobs :
    /\ tries[j] <= MaxAttempts
    /\ fate[j] = "exhausted" => tries[j] = MaxAttempts

(* A drain ends, although other threads keep sending: what it has popped   *)
(* it holds until it has seen the queue empty (drain_ready).               *)
DrainReturns == \A d \in Drainers : dr[d].pc # "idle" ~> dr[d].pc = "idle"
=============================================================================
