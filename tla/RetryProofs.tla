----------------------------- MODULE RetryProofs -----------------------------
(***************************************************************************)
(* Where the jobs of RetryDrain are and how often they are retried, for    *)
(* every number of jobs and threads and every capacity.                    *)
(***************************************************************************)
EXTENDS RetryDrain, FiniteSetTheorems, SequenceTheorems, TLAPS

-----------------------------------------------------------------------------
(* A family of job vectors, one for each holder of jobs.                   *)
Jars(H)    == [H -> Seq(JobRecords)]
Has(S, j)  == \E h \in DOMAIN S : \E i \in DOMAIN S[h] : S[h][i].id = j
Sole(S)    == \A g, h \in DOMAIN S : \A i \in DOMAIN S[g], k \in DOMAIN S[h] :
                  S[g][i].id = S[h][k].id => g = h /\ i = k

LEMMA BackoffIsNatural == \A n \in Nat : BackoffFor(n) \in Nat
  <1> SUFFICES ASSUME NEW n \in Nat PROVE 2 ^ n \in Nat
    BY DEF BackoffFor
  <1>1. IsFiniteSet(1 .. n) /\ Cardinality(1 .. n) = n
    BY FS_Interval
  <1>2. IsFiniteSet(SUBSET (1 .. n)) /\ Cardinality(SUBSET (1 .. n)) = 2 ^ n
    BY <1>1, FS_SUBSET
  <1> QED BY <1>2, FS_CardinalityType

(* What a vector holds that gives up its first job ...                     *)
Taken(S, R, h) ==
    /\ \A j : Has(R, j) <=> Has(S, j) /\ j # Head(S[h]).id
    /\ \A g \in DOMAIN S : \A i \in DOMAIN R[g] : \E k \in DOMAIN S[g] : R[g][i] = S[g][k]

LEMMA TakeFirst ==
    ASSUME NEW H, NEW S \in Jars(H), Sole(S), NEW h \in H, S[h] # <<>>
    PROVE  /\ [S EXCEPT ![h] = Tail(S[h])] \in Jars(H)
           /\ Sole([S EXCEPT ![h] = Tail(S[h])])
           /\ Taken(S, [S EXCEPT ![h] = Tail(S[h])], h)
  <1> DEFINE T == [S EXCEPT ![h] = Tail(S[h])]
             n == Len(S[h])
  <1>1. /\ S[h] \in Seq(JobRecords) /\ n \in Nat \ {0} /\ DOMAIN S[h] = 1 .. n
        /\ Head(S[h]) = S[h][1]
    BY DEF Jars
  <1>2. /\ Tail(S[h]) \in Seq(JobRecords) /\ DOMAIN Tail(S[h]) = 1 .. n - 1
        /\ \A i \in 1 .. n - 1 : Tail(S[h])[i] = S[h][i + 1]
    BY <1>1, HeadTailProperties
  <1>3. /\ T \in Jars(H) /\ DOMAIN T = H /\ DOMAIN S = H
        /\ T[h] = Tail(S[h]) /\ \A g \in H \ {h} : T[g] = S[g]
    BY <1>2 DEF Jars
  <1> HIDE DEF T, n
  <1>4. Sole(T)
    <2> SUFFICES ASSUME NEW f \in H, NEW g \in H, NEW i \in DOMAIN T[f], NEW k \in DOMAIN T[g],
                        T[f][i].id = T[g][k].id
                 PROVE  f = g /\ i = k
      BY <1>3 DEF Sole
    <2>1. CASE f # h /\ g # h
      BY <1>3, <2>1 DEF Sole
    <2>2. CASE f = h /\ g # h
      <3>1. i + 1 \in DOMAIN S[h] /\ T[h][i] = S[h][i + 1]
        BY <1>1, <1>2, <1>3, <2>2
      <3> QED BY <1>3, <2>2, <3>1 DEF Sole
    <2>3. CASE f # h /\ g = h
      <3>1. k + 1 \in DOMAIN S[h] /\ T[h][k] = S[h][k + 1]
        BY <1>1, <1>2, <1>3, <2>3
      <3> QED BY <1>3, <2>3, <3>1 DEF Sole
    <2>4. CASE f = h /\ g = h
      <3>1. /\ i + 1 \in DOMAIN S[h] /\ T[h][i] = S[h][i + 1] /\ i \in Nat
            /\ k + 1 \in DOMAIN S[h] /\ T[h][k] = S[h][k + 1] /\ k \in Nat
        BY <1>1, <1>2, <1>3, <2>4
      <3>2. i + 1 = k + 1
        BY <1>3, <2>4, <3>1 DEF Sole
      <3> QED BY <2>4, <3>1, <3>2
    <2> QED BY <2>1, <2>2, <2>3, <2>4
  <1>5. \A g \in H : \A i \in DOMAIN T[g] : \E k \in DOMAIN S[g] : T[g][i] = S[g][k]
    <2> SUFFICES ASSUME NEW g \in H, NEW i \in DOMAIN T[g]
                 PROVE  \E k \in DOMAIN S[g] : T[g][i] = S[g][k]
      OBVIOUS
    <2>1. CASE g # h
      BY <1>3, <2>1
    <2>2. CASE g = h
      <3>1. i + 1 \in DOMAIN S[h] /\ T[h][i] = S[h][i + 1]
        BY <1>1, <1>2, <1>3, <2>2
      <3> QED BY <2>2, <3>1
    <2> QED BY <2>1, <2>2
  <1>6. ASSUME NEW j
        PROVE  Has(T, j) <=> Has(S, j) /\ j # Head(S[h]).id
    <2>1. ASSUME Has(T, j) PROVE Has(S, j) /\ j # Head(S[h]).id
      <3>1. PICK g \in H : \E i \in DOMAIN T[g] : T[g][i].id = j
        BY <1>3, <2>1 DEF Has
      <3>2. PICK i \in DOMAIN T[g] : T[g][i].id = j
        BY <3>1
      <3>3. PICK k \in DOMAIN S[g] : S[g][k].id = j
        BY <1>5, <3>2
      <3>4. CASE g # h
        <4>1. j # S[h][1].id
          BY <1>1, <1>3, <3>3, <3>4 DEF Sole
        <4> QED BY <1>1, <1>3, <3>3, <4>1 DEF Has
      <3>5. CASE g = h
        <4>1. i \in Nat \ {0} /\ i + 1 \in DOMAIN S[h] /\ S[h][i + 1].id = j
          BY <1>1, <1>2, <1>3, <3>2, <3>5
        <4>2. j # S[h][1].id
          BY <1>1, <1>3, <4>1 DEF Sole
        <4> QED BY <1>1, <1>3, <3>3, <4>2 DEF Has
      <3> QED BY <3>4, <3>5
    <2>2. ASSUME Has(S, j), j # Head(S[h]).id PROVE Has(T, j)
      <3>0. PICK g \in H : \E k \in DOMAIN S[g] : S[g][k].id = j
        BY <1>3, <2>2 DEF Has
      <3>1. PICK k \in DOMAIN S[g] : S[g][k].id = j
        BY <3>0
      <3>2. CASE g # h
        BY <1>3, <3>1, <3>2 DEF Has
      <3>3. CASE g = h
        <4>1. k \in 2 .. n
          BY <1>1, <2>2, <3>1, <3>3 DEF n
        <4>2. k - 1 \in DOMAIN T[h] /\ T[h][k - 1] = S[h][k]
          BY <1>1, <1>2, <1>3, <4>1
        <4> QED BY <1>3, <3>1, <3>3, <4>2 DEF Has
      <3> QED BY <3>2, <3>3
    <2> QED BY <2>1, <2>2
  <1>7. Taken(S, T, h)
    BY <1>3, <1>5, <1>6 DEF Taken
  <1> QED BY <1>3, <1>4, <1>7 DEF T

(* ... and one that takes a job nobody has, at its end.                    *)
Placed(S, R, job) ==
    /\ \A j : Has(R, j) <=> Has(S, j) \/ j = job.id
    /\ \A g \in DOMAIN S : \A i \in DOMAIN R[g] :
          R[g][i] = job \/ \E k \in DOMAIN S[g] : R[g][i] = S[g][k]

LEMMA PutLast ==
    ASSUME NEW H, NEW S \in Jars(H), Sole(S), NEW h \in H, NEW job \in JobRecords,
           ~Has(S, job.id)
    PROVE  /\ [S EXCEPT ![h] = Append(S[h], job)] \in Jars(H)
           /\ Sole([S EXCEPT ![h] = Append(S[h], job)])
           /\ Placed(S, [S EXCEPT ![h] = Append(S[h], job)], job)
  <1> DEFINE T == [S EXCEPT ![h] = Append(S[h], job)]
             n == Len(S[h])
  <1>1. S[h] \in Seq(JobRecords) /\ n \in Nat /\ DOMAIN S[h] = 1 .. n
    BY DEF Jars
  <1>2. /\ Append(S[h], job) \in Seq(JobRecords) /\ DOMAIN Append(S[h], job) = 1 .. n + 1
        /\ \A i \in 1 .. n : Append(S[h], job)[i] = S[h][i]
        /\ Append(S[h], job)[n + 1] = job
    BY <1>1, AppendProperties
  <1>3. /\ T \in Jars(H) /\ DOMAIN T = H /\ DOMAIN S = H
        /\ T[h] = Append(S[h], job) /\ \A g \in H \ {h} : T[g] = S[g]
    BY <1>2 DEF Jars
  <1> HIDE DEF T, n
  <1>4. \A g \in H : \A i \in DOMAIN T[g] :
            \/ g = h /\ i = n + 1 /\ T[g][i] = job
            \/ i \in DOMAIN S[g] /\ T[g][i] = S[g][i]
    BY <1>1, <1>2, <1>3
  <1>5. \A g \in H : \A i \in DOMAIN S[g] : S[g][i].id # job.id
    BY <1>3 DEF Has
  <1>6. Sole(T)
    <2> SUFFICES ASSUME NEW f \in H, NEW g \in H, NEW i \in DOMAIN T[f], NEW k \in DOMAIN T[g],
                        T[f][i].id = T[g][k].id
                 PROVE  f = g /\ i = k
      BY <1>3 DEF Sole
    <2> QED BY <1>3, <1>4, <1>5 DEF Sole
  <1>7. ASSUME NEW j
        PROVE  Has(T, j) <=> Has(S, j) \/ j = job.id
    <2>1. ASSUME Has(T, j) PROVE Has(S, j) \/ j = job.id
      BY <1>3, <1>4, <2>1 DEF Has
    <2>2. ASSUME Has(S, j) PROVE Has(T, j)
      <3>0. PICK g \in H : \E k \in DOMAIN S[g] : S[g][k].id = j
        BY <1>3, <2>2 DEF Has
      <3>1. PICK k \in DOMAIN S[g] : S[g][k].id = j
        BY <3>0
      <3>2. k \in DOMAIN T[g] /\ T[g][k] = S[g][k]
        BY <1>1, <1>2, <1>3
      <3> QED BY <1>3, <3>1, <3>2 DEF Has
    <2>3. Has(T, job.id)
      <3>1. n + 1 \in DOMAIN T[h] /\ T[h][n + 1] = job
        BY <1>1, <1>2, <1>3
      <3> QED BY <1>3, <3>1 DEF Has
    <2> QED BY <2>1, <2>2, <2>3
  <1>8. Placed(S, T, job)
    BY <1>3, <1>4, <1>7 DEF Placed
  <1> QED BY <1>3, <1>6, <1>8 DEF T

-----------------------------------------------------------------------------
(* The holders of jobs are the queue and the two vectors of each drainer.  *)
Queue      == <<"queue", "-">>
Ready(d)   == <<"ready", d>>
Requeue(d) == <<"requeue", d>>
Holders    == {Queue} \cup {Ready(d) : d \in Drainers} \cup {Requeue(d) : d \in Drainers}
HeldOf(q, D) == [h \in Holders |-> IF h[1] = "queue" THEN q
                                   ELSE IF h[1] = "ready" THEN D[h[2]].ready
                                   ELSE D[h[2]].requeue]
held       == HeldOf(retryq, dr)
DrainerStates == [pc : {"idle", "receive", "requeue"},
                  ready : Seq(JobRecords), requeue : Seq(JobRecords)]

LEMMA HoldersDiffer ==
    /\ Queue \in Holders
    /\ \A d \in Drainers : Ready(d) \in Holders /\ Requeue(d) \in Holders
    /\ \A h \in Holders : h = Queue \/ \E d \in Drainers : h = Ready(d) \/ h = Requeue(d)
    /\ \A d, e \in Drainers :
          /\ Queue # Ready(d) /\ Queue # Requeue(d) /\ Ready(d) # Requeue(e)
          /\ (Ready(d) = Ready(e) => d = e) /\ (Requeue(d) = Requeue(e) => d = e)
  BY DEF Holders, Queue, Ready, Requeue

LEMMA HeldValues ==
    ASSUME NEW q, NEW D
    PROVE  /\ DOMAIN HeldOf(q, D) = Holders
           /\ HeldOf(q, D)[Queue] = q
           /\ \A d \in Drainers : HeldOf(q, D)[Ready(d)] = D[d].ready
           /\ \A d \in Drainers : HeldOf(q, D)[Requeue(d)] = D[d].requeue
  <1>1. DOMAIN HeldOf(q, D) = Holders
    BY DEF HeldOf
  <1>2. HeldOf(q, D)[Queue] = q
    BY HoldersDiffer DEF HeldOf, Queue
  <1>3. \A d \in Drainers : HeldOf(q, D)[Ready(d)] = D[d].ready
    BY HoldersDiffer DEF HeldOf, Ready
  <1>4. \A d \in Drainers : HeldOf(q, D)[Requeue(d)] = D[d].requeue
    BY HoldersDiffer DEF HeldOf, Requeue
  <1> QED BY <1>1, <1>2, <1>3, <1>4

LEMMA HeldIsTyped ==
    ASSUME NEW q \in Seq(JobRecords), NEW D \in [Drainers -> DrainerStates]
    PROVE  HeldOf(q, D) \in Jars(Holders)
  <1>1. \A d \in Drainers : D[d].ready \in Seq(JobRecords) /\ D[d].requeue \in Seq(JobRecords)
    BY DEF DrainerStates
  <1>2. \A h \in Holders : HeldOf(q, D)[h] \in Seq(JobRecords)
    BY <1>1, HoldersDiffer, HeldValues
  <1> QED BY <1>2 DEF HeldOf, Jars

(* One vector is exchanged for another.                                    *)
Becomes(S, h, v, T) == T = [S EXCEPT ![h] = v]

LEMMA HeldAfterQueue ==
    ASSUME NEW q, NEW r, NEW D
    PROVE  HeldOf(r, D) = [HeldOf(q, D) EXCEPT ![Queue] = r]
  <1> DEFINE S == HeldOf(q, D)
             T == HeldOf(r, D)
  <1>1. DOMAIN S = Holders /\ DOMAIN T = Holders /\ T[Queue] = r
    BY HeldValues
  <1>2. \A h \in Holders \ {Queue} : T[h] = S[h]
    BY HoldersDiffer, HeldValues
  <1>3. S = [h \in Holders |-> S[h]] /\ T = [h \in Holders |-> T[h]]
    BY DEF HeldOf
  <1> HIDE DEF S, T
  <1>4. T = [S EXCEPT ![Queue] = r]
    BY <1>1, <1>2, <1>3
  <1> QED BY <1>4 DEF S, T

LEMMA HeldAfterReady ==
    ASSUME NEW q, NEW D, NEW E, NEW d \in Drainers, NEW v, E[d].ready = v,
           E[d].requeue = D[d].requeue, \A e \in Drainers \ {d} : E[e] = D[e]
    PROVE  Becomes(HeldOf(q, D), Ready(d), v, HeldOf(q, E))
  <1> DEFINE S == HeldOf(q, D)
             T == HeldOf(q, E)
  <1>2. DOMAIN S = Holders /\ DOMAIN T = Holders /\ T[Ready(d)] = v
    BY HeldValues
  <1>3. ASSUME NEW h \in Holders, h # Ready(d) PROVE T[h] = S[h]
    <2>1. CASE h = Queue
      BY <2>1, HeldValues
    <2>2. CASE \E e \in Drainers : h = Ready(e)
      BY <1>3, <2>2, HeldValues
    <2>3. CASE \E e \in Drainers : h = Requeue(e)
      BY <2>3, HeldValues
    <2> QED BY <2>1, <2>2, <2>3, HoldersDiffer
  <1>4. S = [h \in Holders |-> S[h]] /\ T = [h \in Holders |-> T[h]]
    BY DEF HeldOf
  <1> HIDE DEF S, T
  <1>5. T = [S EXCEPT ![Ready(d)] = v]
    BY <1>2, <1>3, <1>4
  <1> QED BY <1>5 DEF S, T, Becomes

LEMMA HeldAfterRequeue ==
    ASSUME NEW q, NEW D, NEW E, NEW d \in Drainers, NEW v, E[d].requeue = v,
           E[d].ready = D[d].ready, \A e \in Drainers \ {d} : E[e] = D[e]
    PROVE  Becomes(HeldOf(q, D), Requeue(d), v, HeldOf(q, E))
  <1> DEFINE S == HeldOf(q, D)
             T == HeldOf(q, E)
  <1>2. DOMAIN S = Holders /\ DOMAIN T = Holders /\ T[Requeue(d)] = v
    BY HeldValues
  <1>3. ASSUME NEW h \in Holders, h # Requeue(d) PROVE T[h] = S[h]
    <2>1. CASE h = Queue
      BY <2>1, HeldValues
    <2>2. CASE \E e \in Drainers : h = Ready(e)
      BY <2>2, HeldValues
    <2>3. CASE \E e \in Drainers : h = Requeue(e)
      BY <1>3, <2>3, HeldValues
    <2> QED BY <2>1, <2>2, <2>3, HoldersDiffer
  <1>4. S = [h \in Holders |-> S[h]] /\ T = [h \in Holders |-> T[h]]
    BY DEF HeldOf
  <1> HIDE DEF S, T
  <1>5. T = [S EXCEPT ![Requeue(d)] = v]
    BY <1>2, <1>3, <1>4
  <1> QED BY <1>5 DEF S, T, Becomes

LEMMA HeldAfterPc ==
    ASSUME NEW q, NEW D, NEW E,
           \A e \in Drainers : E[e].ready = D[e].ready /\ E[e].requeue = D[e].requeue
    PROVE  HeldOf(q, E) = HeldOf(q, D)
  <1>2. \A h \in Holders : HeldOf(q, E)[h] = HeldOf(q, D)[h]
    BY HoldersDiffer, HeldValues
  <1>3. /\ HeldOf(q, E) = [h \in Holders |-> HeldOf(q, E)[h]]
        /\ HeldOf(q, D) = [h \in Holders |-> HeldOf(q, D)[h]]
    BY DEF HeldOf
  <1> QED BY <1>2, <1>3

-----------------------------------------------------------------------------
(* The invariant, of the jobs S that are held, their fates F and the       *)
(* retries T: a job is held once if it is deferred and not at all if not,  *)
(* and carries the count of its retries.                                   *)
Counted(S, T) == \A h \in DOMAIN S : \A i \in DOMAIN S[h] :
                    S[h][i].attempts = T[S[h][i].id]
Rationed(F, T) == \A j \in Jobs :
    /\ T[j] <= MaxAttempts
    /\ F[j] = "unseen" => T[j] = 0
    /\ F[j] = "exhausted" => T[j] = MaxAttempts
Kept(S, F, T) ==
    /\ S \in Jars(Holders) /\ F \in [Jobs -> Fates] /\ T \in [Jobs -> Nat]
    /\ Sole(S) /\ Counted(S, T) /\ Rationed(F, T)
    /\ \A j \in Jobs : F[j] = "deferred" <=> Has(S, j)

(* A holder's first job is taken and settled, perhaps after a retry.       *)
LEMMA Settle ==
    ASSUME NEW S, NEW F, NEW T, Kept(S, F, T),
           NEW h \in Holders, S[h] # <<>>, NEW j \in Jobs, j = Head(S[h]).id,
           NEW x \in {"lost", "done", "exhausted"},
           NEW U \in [Jobs -> Nat], \A k \in Jobs \ {j} : U[k] = T[k],
           U[j] <= MaxAttempts, x = "exhausted" => U[j] = MaxAttempts
    PROVE  Kept([S EXCEPT ![h] = Tail(S[h])], [F EXCEPT ![j] = x], U)
  <1> DEFINE R == [S EXCEPT ![h] = Tail(S[h])]
             G == [F EXCEPT ![j] = x]
  <1>1. /\ S \in Jars(Holders) /\ F \in [Jobs -> Fates] /\ T \in [Jobs -> Nat]
        /\ Sole(S) /\ Counted(S, T) /\ Rationed(F, T)
        /\ \A k \in Jobs : F[k] = "deferred" <=> Has(S, k)
    BY DEF Kept
  <1>2. /\ R \in Jars(Holders) /\ Sole(R)
        /\ \A k : Has(R, k) <=> Has(S, k) /\ k # Head(S[h]).id
        /\ \A g \in Holders : \A i \in DOMAIN R[g] : \E k \in DOMAIN S[g] : R[g][i] = S[g][k]
    <2>1. R \in Jars(Holders) /\ Sole(R) /\ Taken(S, R, h)
      BY <1>1, TakeFirst
    <2>2. DOMAIN S = Holders
      BY <1>1 DEF Jars
    <2> QED BY <2>1, <2>2 DEF Taken
  <1>3. G \in [Jobs -> Fates] /\ G[j] = x /\ \A k \in Jobs \ {j} : G[k] = F[k]
    BY <1>1 DEF Fates
  <1> HIDE DEF R, G
  <1>4. Counted(R, U)
    <2> SUFFICES ASSUME NEW g \in Holders, NEW i \in DOMAIN R[g]
                 PROVE  R[g][i].attempts = U[R[g][i].id]
      BY <1>2 DEF Counted, Jars
    <2>1. PICK k \in DOMAIN S[g] : R[g][i] = S[g][k]
      BY <1>2
    <2>2. DOMAIN R = Holders /\ DOMAIN S = Holders
      BY <1>1, <1>2 DEF Jars
    <2>3. R[g][i].id # j
      <3>1. Has(R, R[g][i].id)
        BY <2>2 DEF Has
      <3> QED BY <1>2, <3>1
    <2>4. R[g][i].id \in Jobs
      <3>1. R[g] \in Seq(JobRecords)
        BY <1>2 DEF Jars
      <3>2. R[g][i] \in JobRecords
        BY <3>1
      <3> QED BY <3>2 DEF JobRecords
    <2>5. R[g][i].attempts = T[R[g][i].id]
      BY <1>1, <2>1, <2>2 DEF Counted
    <2> QED BY <2>3, <2>4, <2>5
  <1>5. Rationed(G, U)
    BY <1>1, <1>3 DEF Rationed
  <1>6. \A k \in Jobs : G[k] = "deferred" <=> Has(R, k)
    BY <1>1, <1>2, <1>3
  <1> QED BY <1>2, <1>3, <1>4, <1>5, <1>6 DEF Kept, R, G

(* A job that is not deferred is put into a vector with its count.         *)
LEMMA Put ==
    ASSUME NEW S, NEW F, NEW T, Kept(S, F, T),
           NEW h \in Holders, NEW job \in JobRecords,
           F[job.id] # "deferred", job.attempts = T[job.id]
    PROVE  Kept([S EXCEPT ![h] = Append(S[h], job)], [F EXCEPT ![job.id] = "deferred"], T)
  <1> DEFINE R == [S EXCEPT ![h] = Append(S[h], job)]
             G == [F EXCEPT ![job.id] = "deferred"]
  <1>0. job.id \in Jobs
    BY DEF JobRecords
  <1>1. /\ S \in Jars(Holders) /\ F \in [Jobs -> Fates] /\ T \in [Jobs -> Nat]
        /\ Sole(S) /\ Counted(S, T) /\ Rationed(F, T)
        /\ \A k \in Jobs : F[k] = "deferred" <=> Has(S, k)
    BY DEF Kept
  <1>2. /\ R \in Jars(Holders) /\ Sole(R)
        /\ \A k : Has(R, k) <=> Has(S, k) \/ k = job.id
        /\ \A g \in Holders : \A i \in DOMAIN R[g] :
              R[g][i] = job \/ \E k \in DOMAIN S[g] : R[g][i] = S[g][k]
    <2>1. R \in Jars(Holders) /\ Sole(R) /\ Placed(S, R, job)
      BY <1>0, <1>1, PutLast
    <2>2. DOMAIN S = Holders
      BY <1>1 DEF Jars
    <2> QED BY <2>1, <2>2 DEF Placed
  <1>3. G \in [Jobs -> Fates] /\ G[job.id] = "deferred"
        /\ \A k \in Jobs \ {job.id} : G[k] = F[k]
    BY <1>0, <1>1 DEF Fates
  <1> HIDE DEF R, G
  <1>4. Counted(R, T)
    <2>1. DOMAIN R = Holders /\ DOMAIN S = Holders
      BY <1>1, <1>2 DEF Jars
    <2> QED BY <1>1, <1>2, <2>1 DEF Counted
  <1>5. Rationed(G, T)
    BY <1>1, <1>3 DEF Rationed
  <1>6. \A k \in Jobs : G[k] = "deferred" <=> Has(R, k)
    BY <1>1, <1>2, <1>3
  <1> QED BY <1>1, <1>2, <1>3, <1>4, <1>5, <1>6 DEF Kept, R, G

(* Nothing depends on how long the jobs have to wait.                      *)
LEMMA Wait ==
    ASSUME NEW S, NEW F, NEW T, Kept(S, F, T), NEW R \in Jars(Holders),
           \A h \in Holders : DOMAIN R[h] = DOMAIN S[h],
           \A h \in Holders : \A i \in DOMAIN S[h] :
              R[h][i].id = S[h][i].id /\ R[h][i].attempts = S[h][i].attempts
    PROVE  Kept(R, F, T)
  <1>1. DOMAIN R = Holders /\ DOMAIN S = Holders
    BY DEF Kept, Jars
  <1>2. Sole(R) /\ Counted(R, T)
    BY <1>1 DEF Kept, Sole, Counted
  <1>3. \A j \in Jobs : Has(R, j) <=> Has(S, j)
    BY <1>1 DEF Has
  <1> QED BY <1>2, <1>3 DEF Kept

(* What is first in a vector is a deferred job with attempts left.         *)
LEMMA FirstJob ==
    ASSUME NEW S, NEW F, NEW T, Kept(S, F, T), NEW h \in Holders, S[h] # <<>>
    PROVE  /\ Head(S[h]) \in JobRecords /\ Head(S[h]).id \in Jobs
           /\ F[Head(S[h]).id] = "deferred"
           /\ T[Head(S[h]).id] = Head(S[h]).attempts
           /\ Head(S[h]).attempts \in Nat /\ Head(S[h]).attempts < MaxAttempts
  <1>1. S[h] \in Seq(JobRecords) /\ DOMAIN S = Holders
    BY DEF Kept, Jars
  <1>2. 1 \in DOMAIN S[h] /\ Head(S[h]) = S[h][1] /\ S[h][1] \in JobRecords
    BY <1>1
  <1>3. Has(S, S[h][1].id) /\ S[h][1].attempts = T[S[h][1].id]
    BY <1>1, <1>2 DEF Kept, Has, Counted
  <1>4. /\ S[h][1].id \in Jobs
        /\ S[h][1].attempts \in Nat /\ S[h][1].attempts < MaxAttempts
    BY <1>2, AttemptsArePositive DEF JobRecords
  <1> QED BY <1>2, <1>3, <1>4 DEF Kept

-----------------------------------------------------------------------------
(* The invariant of the specification and its steps.                       *)
RetryInv ==
    /\ retryq \in Seq(JobRecords) /\ Len(retryq) <= QueueCapacity
    /\ dr \in [Drainers -> DrainerStates]
    /\ Kept(held, fate, tries)

LEMMA RetryStart == Init => RetryInv
  <1> SUFFICES ASSUME Init PROVE RetryInv
    OBVIOUS
  <1>1. retryq \in Seq(JobRecords) /\ Len(retryq) <= QueueCapacity
    BY CapacityIsNatural DEF Init
  <1>2. dr \in [Drainers -> DrainerStates]
    BY DEF Init, IdleDrainer, DrainerStates
  <1>3. \A h \in Holders : held[h] = <<>>
    BY HoldersDiffer, HeldValues DEF Init, IdleDrainer, held
  <1>4. held \in Jars(Holders) /\ DOMAIN held = Holders
    BY <1>1, <1>2, HeldIsTyped, HeldValues DEF held
  <1>5. Sole(held) /\ Counted(held, tries) /\ \A j : ~Has(held, j)
    BY <1>3, <1>4 DEF Sole, Counted, Has
  <1>6. /\ fate \in [Jobs -> Fates] /\ tries \in [Jobs -> Nat]
        /\ Rationed(fate, tries)
    BY AttemptsArePositive DEF Init, Fates, Rationed
  <1>7. \A j \in Jobs : fate[j] # "deferred"
    BY DEF Init
  <1> QED BY <1>1, <1>2, <1>4, <1>5, <1>6, <1>7 DEF RetryInv, Kept

(* try_send, when the job is in nobody's hands and its fate F is open.     *)
LEMMA TrySendKeeps ==
    ASSUME retryq \in Seq(JobRecords), Len(retryq) <= QueueCapacity,
           NEW D, NEW F, NEW T, Kept(HeldOf(retryq, D), F, T), NEW job \in JobRecords,
           F[job.id] \in {"unseen", "lost"}, job.attempts = T[job.id],
           \A j \in Jobs \ {job.id} : F[j] = fate[j], fate \in [Jobs -> Fates], TrySend(job)
    PROVE  /\ retryq' \in Seq(JobRecords) /\ Len(retryq') <= QueueCapacity
           /\ Kept(HeldOf(retryq', D), fate', T)
  <1>0. job.id \in Jobs
    BY DEF JobRecords
  <1>1. F \in [Jobs -> Fates]
    BY DEF Kept
  <1>2. CASE HasRoom
    <2>1. retryq' = Append(retryq, job) /\ fate' = [fate EXCEPT ![job.id] = "deferred"]
      BY <1>2 DEF TrySend, Enqueue, HasRoom
    <2>2. retryq' \in Seq(JobRecords) /\ Len(retryq') = Len(retryq) + 1
      BY <2>1, AppendProperties
    <2>3. fate' = [F EXCEPT ![job.id] = "deferred"]
      BY <1>0, <1>1, <2>1
    <2>4. HeldOf(retryq', D) = [HeldOf(retryq, D) EXCEPT ![Queue] = Append(retryq, job)]
      BY <2>1, HeldAfterQueue
    <2>5. HeldOf(retryq, D)[Queue] = retryq /\ Queue \in Holders
      BY HeldValues, HoldersDiffer
    <2> DEFINE S == HeldOf(retryq, D)
    <2>6. Kept([S EXCEPT ![Queue] = Append(S[Queue], job)], [F EXCEPT ![job.id] = "deferred"], T)
      BY <2>5, Put
    <2> QED BY <1>2, <2>2, <2>3, <2>4, <2>5, <2>6, CapacityIsNatural DEF HasRoom
  <1>3. CASE ~HasRoom
    <2>1. retryq' = retryq /\ fate' = [fate EXCEPT ![job.id] = "lost"]
      BY <1>3 DEF TrySend, Enqueue, HasRoom
    <2>2. fate' = [F EXCEPT ![job.id] = "lost"]
      BY <1>0, <1>1, <2>1
    <2>3. /\ fate' \in [Jobs -> Fates] /\ fate'[job.id] = "lost"
          /\ \A j \in Jobs \ {job.id} : fate'[j] = F[j]
      BY <1>0, <1>1, <2>2 DEF Fates
    <2>4. Rationed(fate', T)
      BY <2>3 DEF Kept, Rationed
    <2>5. \A j \in Jobs : fate'[j] = "deferred" <=> Has(HeldOf(retryq, D), j)
      BY <2>3 DEF Kept
    <2> QED BY <2>1, <2>3, <2>4, <2>5 DEF Kept
  <1> QED BY <1>2, <1>3

LEMMA SubmitStep ==
    ASSUME RetryInv, NEW j \in Jobs, Submit(j)
    PROVE  RetryInv'
  <1> DEFINE job == NewJob(j)
  <1>1. tries[j] = 0 /\ fate \in [Jobs -> Fates]
    BY DEF RetryInv, Kept, Rationed, Submit
  <1>2. job \in JobRecords /\ job.id = j /\ job.attempts = 0
    BY BackoffIsNatural, AttemptsArePositive DEF NewJob, JobRecords
  <1>3. TrySend(job) /\ fate[j] = "unseen" /\ dr' = dr /\ tries' = tries
    BY DEF Submit
  <1> HIDE DEF job
  <1>4. /\ retryq' \in Seq(JobRecords) /\ Len(retryq') <= QueueCapacity
        /\ Kept(HeldOf(retryq', dr), fate', tries)
    BY <1>1, <1>2, <1>3, TrySendKeeps DEF RetryInv, held
  <1> QED BY <1>3, <1>4 DEF RetryInv, held

LEMMA PcSteps ==
    ASSUME RetryInv, NEW d \in Drainers, StartDrain(d) \/ ReceiveNone(d) \/ ReturnReady(d)
    PROVE  RetryInv'
  <1>1. PICK pc \in {"idle", "receive", "requeue"} : dr' = [dr EXCEPT ![d].pc = pc]
    BY DEF StartDrain, ReceiveNone, ReturnReady
  <1>2. UNCHANGED <<retryq, fate, tries>>
    BY DEF StartDrain, ReceiveNone, ReturnReady
  <1>3. dr' \in [Drainers -> DrainerStates]
    BY <1>1 DEF RetryInv, DrainerStates
  <1>4. held' = held
    <2>1. \A e \in Drainers : dr'[e].ready = dr[e].ready /\ dr'[e].requeue = dr[e].requeue
      BY <1>1 DEF RetryInv, DrainerStates
    <2> QED BY <1>2, <2>1, HeldAfterPc DEF held
  <1> QED BY <1>2, <1>3, <1>4 DEF RetryInv

(* A received job goes from the queue to one of the drainer's vectors.     *)
LEMMA ReceiveStep ==
    ASSUME RetryInv, NEW d \in Drainers, Receive(d)
    PROVE  RetryInv'
  <1> DEFINE job == Head(retryq)
             F   == [fate EXCEPT ![job.id] = "lost"]
             S   == HeldOf(Tail(retryq), dr)
  <1>1. /\ retryq \in Seq(JobRecords) /\ Len(retryq) <= QueueCapacity /\ retryq # <<>>
        /\ dr \in [Drainers -> DrainerStates] /\ Kept(held, fate, tries)
        /\ retryq' = Tail(retryq) /\ UNCHANGED <<fate, tries>>
    BY DEF RetryInv, Receive
  <1>2. held[Queue] = retryq /\ Queue \in Holders
    BY HeldValues, HoldersDiffer DEF held
  <1>3. /\ job \in JobRecords /\ job.id \in Jobs /\ fate[job.id] = "deferred"
        /\ tries[job.id] = job.attempts /\ job.attempts < MaxAttempts
        /\ tries \in [Jobs -> Nat] /\ fate \in [Jobs -> Fates]
    <2>1. tries \in [Jobs -> Nat] /\ fate \in [Jobs -> Fates]
      BY <1>1 DEF Kept
    <2>2. job = Head(held[Queue]) /\ held[Queue] # <<>>
      BY <1>1, <1>2
    <2> HIDE DEF job
    <2> QED BY <1>1, <1>2, <2>1, <2>2, FirstJob
  <1>4. tries[job.id] <= MaxAttempts
    BY <1>3, AttemptsArePositive
  <1>5. S = [held EXCEPT ![Queue] = Tail(held[Queue])]
    BY <1>2, HeldAfterQueue DEF held
  <1> HIDE DEF S
  <1>6. Kept(S, F, tries)
    <2>1. Kept([held EXCEPT ![Queue] = Tail(held[Queue])], F, tries)
      BY <1>1, <1>2, <1>3, <1>4, Settle
    <2> QED BY <1>5, <2>1
  <1>7. F[job.id] = "lost" /\ fate = [F EXCEPT ![job.id] = "deferred"]
    BY <1>3
  <1> HIDE DEF F
  <1>8. Tail(retryq) \in Seq(JobRecords) /\ Len(Tail(retryq)) <= QueueCapacity
    <2>1. Tail(retryq) \in Seq(JobRecords) /\ Len(Tail(retryq)) = Len(retryq) - 1
      BY <1>1, HeadTailProperties
    <2> QED BY <1>1, <2>1, CapacityIsNatural
  <1>9. dr[d] \in DrainerStates
    BY <1>1
  <1>10. CASE IsReady(job)
    <2> DEFINE v == Append(dr[d].ready, job)
    <2>1. dr' = [dr EXCEPT ![d].ready = v] /\ v \in Seq(JobRecords)
      BY <1>3, <1>9, <1>10, AppendProperties DEF Receive, DrainerStates
    <2>2. S[Ready(d)] = dr[d].ready /\ Ready(d) \in Holders
      BY HeldValues, HoldersDiffer DEF S
    <2>3. Kept([S EXCEPT ![Ready(d)] = Append(S[Ready(d)], job)],
               [F EXCEPT ![job.id] = "deferred"], tries)
      BY <1>3, <1>6, <1>7, <2>2, Put
    <2>4. HeldOf(Tail(retryq), dr') = [S EXCEPT ![Ready(d)] = v]
      <3>1. /\ dr'[d].ready = v /\ dr'[d].requeue = dr[d].requeue
            /\ \A e \in Drainers \ {d} : dr'[e] = dr[e]
        BY <1>1, <2>1 DEF DrainerStates
      <3> HIDE DEF v
      <3>2. Becomes(HeldOf(Tail(retryq), dr), Ready(d), v, HeldOf(Tail(retryq), dr'))
        BY <3>1, HeldAfterReady
      <3> QED BY <3>2 DEF S, Becomes
    <2>5. Kept(held', fate, tries)
      BY <1>1, <1>7, <2>1, <2>2, <2>3, <2>4 DEF held
    <2>6. dr' \in [Drainers -> DrainerStates]
      BY <1>1, <2>1 DEF DrainerStates
    <2> QED BY <1>1, <1>8, <2>5, <2>6 DEF RetryInv
  <1>11. CASE ~IsReady(job)
    <2> DEFINE v == Append(dr[d].requeue, job)
    <2>1. dr' = [dr EXCEPT ![d].requeue = v] /\ v \in Seq(JobRecords)
      BY <1>3, <1>9, <1>11, AppendProperties DEF Receive, DrainerStates
    <2>2. S[Requeue(d)] = dr[d].requeue /\ Requeue(d) \in Holders
      BY HeldValues, HoldersDiffer DEF S
    <2>3. Kept([S EXCEPT ![Requeue(d)] = Append(S[Requeue(d)], job)],
               [F EXCEPT ![job.id] = "deferred"], tries)
      BY <1>3, <1>6, <1>7, <2>2, Put
    <2>4. HeldOf(Tail(retryq), dr') = [S EXCEPT ![Requeue(d)] = v]
      <3>1. /\ dr'[d].requeue = v /\ dr'[d].ready = dr[d].ready
            /\ \A e \in Drainers \ {d} : dr'[e] = dr[e]
        BY <1>1, <2>1 DEF DrainerStates
      <3> HIDE DEF v
      <3>2. Becomes(HeldOf(Tail(retryq), dr), Requeue(d), v, HeldOf(Tail(retryq), dr'))
        BY <3>1, HeldAfterRequeue
      <3> QED BY <3>2 DEF S, Becomes
    <2>5. Kept(held', fate, tries)
      BY <1>1, <1>7, <2>1, <2>2, <2>3, <2>4 DEF held
    <2>6. dr' \in [Drainers -> DrainerStates]
      BY <1>1, <2>1 DEF DrainerStates
    <2> QED BY <1>1, <1>8, <2>5, <2>6 DEF RetryInv
  <1> QED BY <1>10, <1>11

(* A job that is not due leaves the drainer for the queue, or is lost.     *)
LEMMA SendBackStep ==
    ASSUME RetryInv, NEW d \in Drainers, SendBack(d)
    PROVE  RetryInv'
  <1> DEFINE jobs == dr[d].requeue
             job  == Head(jobs)
             F    == [fate EXCEPT ![job.id] = "lost"]
  <1>1. /\ retryq \in Seq(JobRecords) /\ Len(retryq) <= QueueCapacity
        /\ dr \in [Drainers -> DrainerStates] /\ Kept(held, fate, tries)
        /\ jobs # <<>> /\ TrySend(job) /\ UNCHANGED tries
        /\ dr' = [dr EXCEPT ![d].requeue = Tail(jobs)]
    BY DEF RetryInv, SendBack
  <1>2. held[Requeue(d)] = jobs /\ Requeue(d) \in Holders
    BY HeldValues, HoldersDiffer DEF held
  <1>3. /\ job \in JobRecords /\ job.id \in Jobs /\ fate[job.id] = "deferred"
        /\ tries[job.id] = job.attempts /\ job.attempts < MaxAttempts
        /\ tries \in [Jobs -> Nat] /\ fate \in [Jobs -> Fates]
    BY <1>1, <1>2, FirstJob DEF Kept
  <1>4. tries[job.id] <= MaxAttempts
    BY <1>3, AttemptsArePositive
  <1>5. jobs \in Seq(JobRecords)
    BY <1>1 DEF DrainerStates
  <1>6. Tail(jobs) \in Seq(JobRecords)
    BY <1>1, <1>5, HeadTailProperties
  <1> HIDE DEF jobs
  <1>7. HeldOf(retryq, dr') = [held EXCEPT ![Requeue(d)] = Tail(held[Requeue(d)])]
    <2>1. /\ dr'[d].requeue = Tail(jobs) /\ dr'[d].ready = dr[d].ready
          /\ \A e \in Drainers \ {d} : dr'[e] = dr[e]
      BY <1>1 DEF DrainerStates
    <2>2. Becomes(HeldOf(retryq, dr), Requeue(d), Tail(jobs), HeldOf(retryq, dr'))
      BY <2>1, HeldAfterRequeue
    <2> QED BY <1>2, <2>2 DEF held, Becomes
  <1>8. Kept(HeldOf(retryq, dr'), F, tries)
    <2>1. Kept([held EXCEPT ![Requeue(d)] = Tail(held[Requeue(d)])], F, tries)
      BY <1>1, <1>2, <1>3, <1>4, Settle
    <2> QED BY <1>7, <2>1
  <1>9. F[job.id] = "lost" /\ \A j \in Jobs \ {job.id} : F[j] = fate[j]
    BY <1>3
  <1> HIDE DEF F
  <1>10. /\ retryq' \in Seq(JobRecords) /\ Len(retryq') <= QueueCapacity
         /\ Kept(HeldOf(retryq', dr'), fate', tries)
    BY <1>1, <1>3, <1>8, <1>9, TrySendKeeps
  <1>11. dr' \in [Drainers -> DrainerStates]
    BY <1>1, <1>6 DEF DrainerStates
  <1> QED BY <1>1, <1>10, <1>11 DEF RetryInv, held

(* A retry settles the job, or hands it on with one attempt more.          *)
LEMMA RetryStep ==
    ASSUME RetryInv, NEW d \in Drainers, Retry(d)
    PROVE  RetryInv'
  <1> DEFINE jobs == dr[d].ready
             job  == Head(jobs)
             id   == job.id
  <1>1. /\ retryq \in Seq(JobRecords) /\ Len(retryq) <= QueueCapacity
        /\ dr \in [Drainers -> DrainerStates] /\ Kept(held, fate, tries)
        /\ jobs # <<>> /\ tries' = [tries EXCEPT ![id] = @ + 1]
        /\ dr' = [dr EXCEPT ![d].ready = Tail(jobs)]
    BY DEF RetryInv, Retry, RetrySucceeds, RetryFails, Retried
  <1>2. held[Ready(d)] = jobs /\ Ready(d) \in Holders
    BY HeldValues, HoldersDiffer DEF held
  <1>3. /\ job \in JobRecords /\ id \in Jobs /\ fate[id] = "deferred"
        /\ tries[id] = job.attempts /\ job.attempts < MaxAttempts /\ job.attempts \in Nat
        /\ tries \in [Jobs -> Nat] /\ fate \in [Jobs -> Fates]
    <2>1. held[Ready(d)] # <<>> /\ Head(held[Ready(d)]) = job
      BY <1>1, <1>2
    <2>2. /\ job \in JobRecords /\ id \in Jobs /\ fate[id] = "deferred"
          /\ tries[id] = job.attempts /\ job.attempts < MaxAttempts /\ job.attempts \in Nat
      BY <1>1, <1>2, <2>1, FirstJob
    <2> QED BY <1>1, <2>2 DEF Kept
  <1>4. /\ tries' \in [Jobs -> Nat] /\ \A j \in Jobs \ {id} : tries'[j] = tries[j]
        /\ tries'[id] = job.attempts + 1 /\ tries'[id] <= MaxAttempts
    BY <1>1, <1>3, AttemptsArePositive
  <1>5. jobs \in Seq(JobRecords)
    BY <1>1 DEF DrainerStates
  <1>6. Tail(jobs) \in Seq(JobRecords)
    BY <1>1, <1>5, HeadTailProperties
  <1>7. dr' \in [Drainers -> DrainerStates]
    BY <1>1, <1>6 DEF DrainerStates
  <1> HIDE DEF jobs
  <1>8. HeldOf(retryq, dr') = [held EXCEPT ![Ready(d)] = Tail(held[Ready(d)])]
    <2>1. /\ dr'[d].ready = Tail(jobs) /\ dr'[d].requeue = dr[d].requeue
          /\ \A e \in Drainers \ {d} : dr'[e] = dr[e]
      BY <1>1 DEF DrainerStates
    <2>2. Becomes(HeldOf(retryq, dr), Ready(d), Tail(jobs), HeldOf(retryq, dr'))
      BY <2>1, HeldAfterReady
    <2> QED BY <1>2, <2>2 DEF held, Becomes
  <1> DEFINE F(x) == [fate EXCEPT ![id] = x]
  <1>9. ASSUME NEW x \in {"lost", "done", "exhausted"},
               x = "exhausted" => tries'[id] = MaxAttempts
        PROVE  Kept(HeldOf(retryq, dr'), F(x), tries')
    <2>1. Kept([held EXCEPT ![Ready(d)] = Tail(held[Ready(d)])], F(x), tries')
      BY <1>1, <1>2, <1>3, <1>4, <1>9, Settle
    <2> QED BY <1>8, <2>1
  <1>10. CASE RetrySucceeds(d)
    <2>1. fate' = F("done") /\ retryq' = retryq
      BY <1>10 DEF RetrySucceeds, jobs
    <2> QED BY <1>1, <1>7, <1>9, <2>1 DEF RetryInv, held
  <1>11. CASE RetryFails(d) /\ NextAttempt(job) = {}
    <2>1. fate' = F("exhausted") /\ retryq' = retryq
      BY <1>11 DEF RetryFails, jobs
    <2>2. tries'[id] = MaxAttempts
      BY <1>3, <1>4, <1>11, AttemptsArePositive DEF NextAttempt
    <2> QED BY <1>1, <1>7, <1>9, <2>1, <2>2 DEF RetryInv, held
  <1>12. CASE RetryFails(d) /\ NextAttempt(job) # {}
    <2>1. PICK next \in NextAttempt(job) : TrySend(next)
      BY <1>12 DEF RetryFails, jobs
    <2>2. /\ job.attempts + 1 < MaxAttempts
          /\ next = [job EXCEPT !.attempts = @ + 1, !.wait = BackoffFor(job.attempts + 1)]
      BY <1>3, <1>12, AttemptsArePositive DEF NextAttempt
    <2>3. BackoffFor(job.attempts + 1) \in Nat
      BY <1>3, BackoffIsNatural
    <2>4. next \in JobRecords /\ next.id = id /\ next.attempts = tries'[id]
      <3>1. job \in [id : Jobs, attempts : 0 .. MaxAttempts - 1, wait : Nat]
        BY <1>3 DEF JobRecords
      <3>2. job.attempts + 1 \in 0 .. MaxAttempts - 1
        BY <1>3, <2>2, AttemptsArePositive
      <3>3. /\ next \in [id : Jobs, attempts : 0 .. MaxAttempts - 1, wait : Nat]
            /\ next.id = id /\ next.attempts = job.attempts + 1
        BY <2>2, <2>3, <3>1, <3>2
      <3> QED BY <1>4, <3>3 DEF JobRecords
    <2> DEFINE L == F("lost")
    <2>5. Kept(HeldOf(retryq, dr'), L, tries')
      BY <1>9
    <2>6. L[id] = "lost" /\ \A j \in Jobs \ {id} : L[j] = fate[j]
      BY <1>3
    <2> HIDE DEF L
    <2>7. /\ L[next.id] \in {"unseen", "lost"} /\ next.attempts = tries'[next.id]
          /\ \A j \in Jobs \ {next.id} : L[j] = fate[j]
      BY <2>4, <2>6
    <2>8. /\ retryq \in Seq(JobRecords) /\ Len(retryq) <= QueueCapacity
          /\ fate \in [Jobs -> Fates] /\ next \in JobRecords
      BY <1>1, <1>3, <2>4
    <2> HIDE DEF id, job
    <2>9. /\ retryq' \in Seq(JobRecords) /\ Len(retryq') <= QueueCapacity
          /\ Kept(HeldOf(retryq', dr'), fate', tries')
      BY <2>1, <2>5, <2>7, <2>8, TrySendKeeps
    <2> QED BY <1>7, <2>9 DEF RetryInv, held
  <1> QED BY <1>10, <1>11, <1>12 DEF Retry

LEMMA LaterJobs ==
    ASSUME NEW jobs \in Seq(JobRecords)
    PROVE  /\ LaterAll(jobs) \in Seq(JobRecords) /\ DOMAIN LaterAll(jobs) = DOMAIN jobs
           /\ Len(LaterAll(jobs)) = Len(jobs)
           /\ \A i \in DOMAIN jobs : /\ LaterAll(jobs)[i].id = jobs[i].id
                                     /\ LaterAll(jobs)[i].attempts = jobs[i].attempts
  <1>1. ASSUME NEW job \in JobRecords
        PROVE  /\ Later(job) \in JobRecords /\ Later(job).id = job.id
               /\ Later(job).attempts = job.attempts
    <2>1. job \in [id : Jobs, attempts : 0 .. MaxAttempts - 1, wait : Nat]
      BY DEF JobRecords
    <2>2. (IF job.wait = 0 THEN 0 ELSE job.wait - 1) \in Nat
      BY <2>1
    <2> QED BY <2>1, <2>2 DEF Later, JobRecords
  <1>2. DOMAIN jobs = 1 .. Len(jobs) /\ Len(jobs) \in Nat
    OBVIOUS
  <1>3. LaterAll(jobs) = [i \in 1 .. Len(jobs) |-> Later(jobs[i])]
    BY <1>2 DEF LaterAll
  <1>4. \A i \in 1 .. Len(jobs) : jobs[i] \in JobRecords
    BY <1>2
  <1>5. /\ LaterAll(jobs) \in Seq(JobRecords)
        /\ Len(LaterAll(jobs)) = Len(jobs)
    BY <1>1, <1>2, <1>3, <1>4
  <1>6. \A i \in DOMAIN jobs : LaterAll(jobs)[i] = Later(jobs[i])
    BY <1>2, <1>3
  <1> QED BY <1>1, <1>2, <1>3, <1>4, <1>5, <1>6

LEMMA TimeStep ==
    ASSUME RetryInv, TimePasses
    PROVE  RetryInv'
  <1>1. /\ retryq \in Seq(JobRecords) /\ Len(retryq) <= QueueCapacity
        /\ dr \in [Drainers -> DrainerStates] /\ Kept(held, fate, tries)
        /\ UNCHANGED <<fate, tries>> /\ retryq' = LaterAll(retryq)
        /\ dr' = [d \in Drainers |-> [dr[d] EXCEPT !.requeue = LaterAll(@)]]
    BY DEF RetryInv, TimePasses
  <1>2. ASSUME NEW d \in Drainers
        PROVE  /\ dr'[d] \in DrainerStates
               /\ dr'[d].ready = dr[d].ready /\ dr'[d].requeue = LaterAll(dr[d].requeue)
               /\ dr[d].requeue \in Seq(JobRecords)
    <2>1. dr[d] \in [pc : {"idle", "receive", "requeue"},
                     ready : Seq(JobRecords), requeue : Seq(JobRecords)]
      BY <1>1 DEF DrainerStates
    <2>2. LaterAll(dr[d].requeue) \in Seq(JobRecords)
      BY <2>1, LaterJobs
    <2>3. dr'[d] = [dr[d] EXCEPT !.requeue = LaterAll(dr[d].requeue)]
      BY <1>1
    <2> QED BY <2>1, <2>2, <2>3 DEF DrainerStates
  <1>3. /\ retryq' \in Seq(JobRecords) /\ Len(retryq') <= QueueCapacity
        /\ dr' \in [Drainers -> DrainerStates]
    BY <1>1, <1>2, LaterJobs
  <1>4. held' \in Jars(Holders)
    BY <1>3, HeldIsTyped DEF held
  <1>5. ASSUME NEW h \in Holders
        PROVE  /\ DOMAIN held'[h] = DOMAIN held[h]
               /\ \A i \in DOMAIN held[h] : /\ held'[h][i].id = held[h][i].id
                                            /\ held'[h][i].attempts = held[h][i].attempts
    <2>1. CASE h = Queue
      <3>1. held[h] = retryq /\ held'[h] = LaterAll(retryq)
        BY <1>1, <2>1, HeldValues DEF held
      <3> QED BY <1>1, <3>1, LaterJobs
    <2>2. CASE \E d \in Drainers : h = Ready(d)
      <3>1. held'[h] = held[h]
        BY <1>2, <2>2, HeldValues DEF held
      <3> QED BY <3>1
    <2>3. ASSUME NEW d \in Drainers, h = Requeue(d)
          PROVE  /\ DOMAIN held'[h] = DOMAIN held[h]
                 /\ \A i \in DOMAIN held[h] : /\ held'[h][i].id = held[h][i].id
                                              /\ held'[h][i].attempts = held[h][i].attempts
      <3>1. held[h] = dr[d].requeue /\ held'[h] = LaterAll(dr[d].requeue)
        BY <1>2, <2>3, HeldValues DEF held
      <3> QED BY <1>2, <3>1, LaterJobs
    <2> QED BY <2>1, <2>2, <2>3, HoldersDiffer
  <1>6. Kept(held', fate, tries)
    BY <1>1, <1>4, <1>5, Wait
  <1> QED BY <1>1, <1>3, <1>6 DEF RetryInv

LEMMA RetryKeepsInv ==
    ASSUME RetryInv, [Next]_drainVars
    PROVE  RetryInv'
  <1>1. CASE UNCHANGED drainVars
    BY <1>1 DEF drainVars, RetryInv, held
  <1>2. CASE Next
    BY <1>2, SubmitStep, PcSteps, ReceiveStep, SendBackStep, RetryStep, TimeStep
       DEF Next, Draining
  <1> QED BY <1>1, <1>2

(* The queue stays within its capacity and every variable within its type  *)
(* (new, enqueue).                                                         *)
THEOREM RetryTypes == Spec => []TypeOK
  <1>1. RetryInv => TypeOK
    BY DEF RetryInv, TypeOK, Kept, DrainerStates
  <1> QED BY RetryStart, RetryKeepsInv, <1>1, PTL DEF Spec

(* A job is in one pair of hands: the places of Custody are the holders'   *)
(* positions.                                                              *)
LEMMA PlacesAreHeld ==
    ASSUME NEW j, NEW p \in Places(j)
    PROVE  \E h \in Holders : \E i \in DOMAIN held[h] :
              held[h][i].id = j /\ p = <<h[1], h[2], i>>
  <1>1. CASE p \in {"queue"} \X {"-"} \X At(retryq, j)
    <2>1. PICK i \in DOMAIN retryq : retryq[i].id = j /\ p = <<"queue", "-", i>>
      BY <1>1 DEF At
    <2>2. held[Queue] = retryq /\ Queue \in Holders
      BY HeldValues, HoldersDiffer DEF held
    <2>3. Queue[1] = "queue" /\ Queue[2] = "-"
      BY DEF Queue
    <2> QED BY <2>1, <2>2, <2>3
  <1>2. ASSUME NEW d \in Drainers, p \in {"ready"} \X {d} \X At(dr[d].ready, j)
        PROVE  \E h \in Holders : \E i \in DOMAIN held[h] :
                  held[h][i].id = j /\ p = <<h[1], h[2], i>>
    <2>1. PICK i \in DOMAIN dr[d].ready : dr[d].ready[i].id = j /\ p = <<"ready", d, i>>
      BY <1>2 DEF At
    <2>2. held[Ready(d)] = dr[d].ready /\ Ready(d) \in Holders
      BY HeldValues, HoldersDiffer DEF held
    <2>3. Ready(d)[1] = "ready" /\ Ready(d)[2] = d
      BY DEF Ready
    <2> QED BY <2>1, <2>2, <2>3
  <1>3. ASSUME NEW d \in Drainers, p \in {"requeue"} \X {d} \X At(dr[d].requeue, j)
        PROVE  \E h \in Holders : \E i \in DOMAIN held[h] :
                  held[h][i].id = j /\ p = <<h[1], h[2], i>>
    <2>1. PICK i \in DOMAIN dr[d].requeue : dr[d].requeue[i].id = j /\ p = <<"requeue", d, i>>
      BY <1>3 DEF At
    <2>2. held[Requeue(d)] = dr[d].requeue /\ Requeue(d) \in Holders
      BY HeldValues, HoldersDiffer DEF held
    <2>3. Requeue(d)[1] = "requeue" /\ Requeue(d)[2] = d
      BY DEF Requeue
    <2> QED BY <2>1, <2>2, <2>3
  <1> QED BY <1>1, <1>2, <1>3 DEF Places

LEMMA HeldIsPlaced ==
    ASSUME NEW j, Has(held, j)
    PROVE  Places(j) # {}
  <1>1. PICK h \in Holders : \E i \in DOMAIN held[h] : held[h][i].id = j
    BY HeldValues DEF Has, held
  <1>2. PICK i \in DOMAIN held[h] : held[h][i].id = j
    BY <1>1
  <1>3. CASE h = Queue
    <2>1. i \in At(retryq, j)
      BY <1>2, <1>3, HeldValues DEF held, At
    <2>2. <<"queue", "-", i>> \in {"queue"} \X {"-"} \X At(retryq, j)
      BY <2>1
    <2> QED BY <2>2 DEF Places
  <1>4. ASSUME NEW d \in Drainers, h = Ready(d) PROVE Places(j) # {}
    <2>1. i \in At(dr[d].ready, j)
      BY <1>2, <1>4, HeldValues DEF held, At
    <2>2. <<"ready", d, i>> \in {"ready"} \X {d} \X At(dr[d].ready, j)
      BY <2>1
    <2> QED BY <2>2 DEF Places
  <1>5. ASSUME NEW d \in Drainers, h = Requeue(d) PROVE Places(j) # {}
    <2>1. i \in At(dr[d].requeue, j)
      BY <1>2, <1>5, HeldValues DEF held, At
    <2>2. <<"requeue", d, i>> \in {"requeue"} \X {d} \X At(dr[d].requeue, j)
      BY <2>1
    <2> QED BY <2>2 DEF Places
  <1> QED BY <1>3, <1>4, <1>5, HoldersDiffer

(* No interleaving of drains, enqueues and retries forgets a deferred job  *)
(* or hands it to two threads (drain_ready).                               *)
THEOREM JobsAreInCustody == Spec => []Custody
  <1>1. ASSUME RetryInv, NEW j \in Jobs
        PROVE  /\ (fate[j] = "deferred") <=> (Places(j) # {})
               /\ \A p, q \in Places(j) : p = q
    <2>1. Sole(held) /\ (fate[j] = "deferred" <=> Has(held, j)) /\ DOMAIN held = Holders
      BY <1>1 DEF RetryInv, Kept, Jars
    <2>2. Places(j) # {} => Has(held, j)
      <3>1. ASSUME NEW p \in Places(j) PROVE Has(held, j)
        BY <2>1, PlacesAreHeld DEF Has
      <3> QED BY <3>1
    <2>3. ASSUME NEW p \in Places(j), NEW q \in Places(j) PROVE p = q
      <3>1. PICK h \in Holders : \E i \in DOMAIN held[h] :
                held[h][i].id = j /\ p = <<h[1], h[2], i>>
        BY PlacesAreHeld
      <3>2. PICK g \in Holders : \E i \in DOMAIN held[g] :
                held[g][i].id = j /\ q = <<g[1], g[2], i>>
        BY PlacesAreHeld
      <3>3. PICK i \in DOMAIN held[h] : held[h][i].id = j /\ p = <<h[1], h[2], i>>
        BY <3>1
      <3>4. PICK k \in DOMAIN held[g] : held[g][k].id = j /\ q = <<g[1], g[2], k>>
        BY <3>2
      <3>5. h = g /\ i = k
        BY <2>1, <3>3, <3>4 DEF Sole
      <3> QED BY <3>3, <3>4, <3>5
    <2> QED BY <2>1, <2>2, <2>3, HeldIsPlaced
  <1>2. RetryInv => Custody
    BY <1>1 DEF Custody
  <1> QED BY RetryStart, RetryKeepsInv, <1>2, PTL DEF Spec

(* No job is retried more often than MAX_RETRY_ATTEMPTS, and none is given *)
(* up before (next_attempt).                                               *)
THEOREM AttemptsAreBounded == Spec => []RetriesAreBounded
  <1>1. RetryInv => RetriesAreBounded
    BY DEF RetryInv, Kept, Rationed, RetriesAreBounded
  <1> QED BY RetryStart, RetryKeepsInv, <1>1, PTL DEF Spec

(* A full queue holds as many deferred jobs as it has places, and besides  *)
(* them one that is not in it.                                             *)
LEMMA FullQueue ==
    ASSUME RetryInv, ~HasRoom, NEW j \in Jobs, \A i \in DOMAIN retryq : retryq[i].id # j
    PROVE  Cardinality(Outstanding \cup {j}) > QueueCapacity
  <1> DEFINE n == QueueCapacity
             Others == Outstanding \ {j}
             f == [i \in 1 .. n |-> retryq[i].id]
  <1>1. retryq \in Seq(JobRecords) /\ DOMAIN retryq = 1 .. n /\ n \in Nat
    BY CapacityIsNatural DEF RetryInv, HasRoom
  <1>2. held[Queue] = retryq /\ Queue \in DOMAIN held
    BY HeldValues, HoldersDiffer DEF held
  <1>3. ASSUME NEW i \in 1 .. n PROVE retryq[i].id \in Others
    <2>0. retryq[i] \in JobRecords /\ i \in DOMAIN retryq
      BY <1>1
    <2>1. retryq[i].id \in Jobs /\ retryq[i].id # j
      BY <2>0 DEF JobRecords
    <2>2. Has(held, retryq[i].id)
      BY <1>1, <1>2 DEF Has
    <2> QED BY <2>1, <2>2 DEF RetryInv, Kept, Outstanding
  <1>4. \A i, k \in 1 .. n : retryq[i].id = retryq[k].id => i = k
    <2>1. Sole(held)
      BY DEF RetryInv, Kept
    <2> QED BY <1>1, <1>2, <2>1 DEF Sole
  <1>5. f \in Injection(1 .. n, Others)
    <2>1. f \in [1 .. n -> Others]
      BY <1>3
    <2>2. IsInjective(f)
      BY <1>4 DEF IsInjective
    <2> QED BY <2>1, <2>2 DEF Injection
  <1>6. IsFiniteSet(Outstanding) /\ IsFiniteSet(Others)
    BY FinitelyManyJobs, FS_Subset DEF Outstanding
  <1>7. Cardinality(1 .. n) = n
    BY <1>1, FS_Interval
  <1> HIDE DEF Others, f
  <1>8. n <= Cardinality(Others) /\ Cardinality(Others) \in Nat
    BY <1>5, <1>6, <1>7, FS_Injection, FS_CardinalityType
  <1>9. j \notin Others /\ Outstanding \cup {j} = Others \cup {j}
    BY DEF Others
  <1>10. Cardinality(Others \cup {j}) = Cardinality(Others) + 1
    BY <1>6, <1>9, FS_AddElement
  <1>11. Cardinality(Others \cup {j}) > n
    BY <1>1, <1>8, <1>10
  <1> QED BY <1>9, <1>11

(* A job that is in another vector is not in the queue.                    *)
LEMMA ElsewhereThanQueue ==
    ASSUME RetryInv, NEW h \in Holders, h # Queue, held[h] # <<>>
    PROVE  \A i \in DOMAIN retryq : retryq[i].id # Head(held[h]).id
  <1>1. held[Queue] = retryq /\ Queue \in DOMAIN held /\ h \in DOMAIN held
    BY HeldValues, HoldersDiffer DEF held
  <1>2. held[h] \in Seq(JobRecords) /\ Sole(held)
    BY DEF RetryInv, Kept, Jars
  <1>3. 1 \in DOMAIN held[h] /\ Head(held[h]) = held[h][1]
    BY <1>2
  <1> QED BY <1>1, <1>2, <1>3 DEF Sole

(* A job is lost only if more are outstanding than the queue has places,   *)
(* wherever the drainers keep them (enqueue, drain_ready).                 *)
THEOREM LossesNeedOverflow == Spec => LossNeedsOverflow
  <1> DEFINE A == \A j \in Jobs : fate[j] # "lost" /\ fate'[j] = "lost" =>
                     Cardinality(Outstanding \cup {j}) > QueueCapacity
  <1>1. ASSUME RetryInv, [Next]_drainVars, NEW j \in Jobs, fate[j] # "lost", fate'[j] = "lost"
        PROVE  Cardinality(Outstanding \cup {j}) > QueueCapacity
    <2>1. fate \in [Jobs -> Fates]
      BY <1>1 DEF RetryInv, Kept
    <2>2. ASSUME NEW job \in JobRecords, TrySend(job) PROVE job.id = j /\ ~HasRoom
      BY <1>1, <2>1, <2>2 DEF TrySend
    <2>3. ASSUME NEW k \in Jobs, Submit(k) PROVE Cardinality(Outstanding \cup {j}) > QueueCapacity
      <3>1. NewJob(k) \in JobRecords /\ NewJob(k).id = k
        BY BackoffIsNatural, AttemptsArePositive DEF NewJob, JobRecords
      <3>2. j = k /\ ~HasRoom /\ fate[j] = "unseen"
        BY <2>2, <2>3, <3>1 DEF Submit
      <3>3. ~Has(held, j)
        BY <1>1, <3>2 DEF RetryInv, Kept
      <3>4. held[Queue] = retryq /\ Queue \in DOMAIN held
        BY HeldValues, HoldersDiffer DEF held
      <3> QED BY <1>1, <3>2, <3>3, <3>4, FullQueue DEF Has
    <2>4. ASSUME NEW d \in Drainers, SendBack(d)
          PROVE  Cardinality(Outstanding \cup {j}) > QueueCapacity
      <3>1. held[Requeue(d)] = dr[d].requeue /\ Requeue(d) \in Holders /\ Requeue(d) # Queue
        BY HeldValues, HoldersDiffer DEF held
      <3>2. dr[d].requeue # <<>> /\ TrySend(Head(dr[d].requeue))
        BY <2>4 DEF SendBack
      <3>3. Head(dr[d].requeue) \in JobRecords
        BY <1>1, <3>1, <3>2, FirstJob DEF RetryInv
      <3>4. Head(dr[d].requeue).id = j /\ ~HasRoom
        BY <2>2, <3>2, <3>3
      <3> QED BY <1>1, <3>1, <3>2, <3>4, FullQueue, ElsewhereThanQueue
    <2>5. ASSUME NEW d \in Drainers, Retry(d)
          PROVE  Cardinality(Outstanding \cup {j}) > QueueCapacity
      <3> DEFINE job == Head(dr[d].ready)
      <3>1. held[Ready(d)] = dr[d].ready /\ Ready(d) \in Holders /\ Ready(d) # Queue
        BY HeldValues, HoldersDiffer DEF held
      <3>2. dr[d].ready # <<>>
        BY <2>5 DEF Retry, RetrySucceeds, RetryFails, Retried
      <3>3. job \in JobRecords /\ job.attempts \in Nat
        BY <1>1, <3>1, <3>2, FirstJob DEF RetryInv
      <3>4. ~RetrySucceeds(d) /\ NextAttempt(job) # {}
        BY <1>1, <2>1, <2>5 DEF Retry, RetrySucceeds, RetryFails
      <3>5. PICK next \in NextAttempt(job) : TrySend(next)
        BY <2>5, <3>4 DEF Retry, RetryFails
      <3>6. fate' = [fate EXCEPT ![next.id] = IF HasRoom THEN "deferred" ELSE "lost"]
        BY <3>5 DEF TrySend
      <3>7. next.id = j /\ ~HasRoom
        BY <1>1, <2>1, <3>6
      <3>8. next.id = job.id
        BY <3>3, <3>5 DEF NextAttempt, JobRecords
      <3> QED BY <1>1, <3>1, <3>2, <3>7, <3>8, FullQueue, ElsewhereThanQueue
    <2>6. ~UNCHANGED fate
      BY <1>1
    <2>7. \/ \E k \in Jobs : Submit(k)
          \/ \E d \in Drainers : SendBack(d) \/ Retry(d)
      BY <1>1, <2>6 DEF Next, Draining, StartDrain, Receive, ReceiveNone, ReturnReady,
                        TimePasses, drainVars
    <2> QED BY <2>3, <2>4, <2>5, <2>7
  <1>2. ASSUME RetryInv, [Next]_drainVars PROVE A
    BY <1>1, <1>2
  <1> QED BY RetryStart, RetryKeepsInv, <1>2, PTL DEF Spec, LossNeedsOverflow
=============================================================================
