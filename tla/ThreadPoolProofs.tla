------------------------- MODULE ThreadPoolProofs -------------------------
(***************************************************************************)
(* Proofs about ThreadPool for any set of workers and any set of jobs.     *)
(***************************************************************************)
EXTENDS ThreadPool, SequenceTheorems, FiniteSetTheorems, TLAPS

USE WorkersAssumption, ListenerAssumption, JobsAssumption

\* Before init_pool runs, the empty queue satisfies the invariant.
LEMMA InitInv == Init => PoolInv
  <1> SUFFICES ASSUME Init PROVE PoolInv
    OBVIOUS
  <1>1. log = <<>> /\ Len(log) = 0 /\ log \in Seq(Jobs)
    BY DEF Init
  <1>2. Enqueued = {}
    BY <1>1 DEF Enqueued
  <1>3. TypeOK
    BY <1>1 DEF Init, TypeOK, WorkerPC, ListenerPC
  <1>4. LockOwnership
    BY DEF Init, LockOwnership
  <1>5. QueueShape
    BY <1>1 DEF Init, QueueShape
  <1>6. FreshJobs
    BY <1>1, <1>2 DEF Init, FreshJobs
  <1>7. HeldJobs
    BY DEF Init, HeldJobs, Busy
  <1>8. RunsOnce
    BY DEF Init, RunsOnce, Busy
  <1> QED
    BY <1>3, <1>4, <1>5, <1>6, <1>7, <1>8 DEF PoolInv

\* add_job_to_pool's enqueue_job keeps the list in shape and the job fresh.
LEMMA EnqueueInv == PoolInv /\ ListenerEnqueue => PoolInv'
  <1> SUFFICES ASSUME PoolInv, ListenerEnqueue PROVE PoolInv'
    OBVIOUS
  <1> USE DEF PoolInv
  <1> DEFINE n == Len(log)
  <1>1. /\ n \in Nat /\ log \in Seq(Jobs) /\ ljob \in Jobs /\ ljob \notin Enqueued
        /\ \A i \in 1 .. n : log[i] \in Jobs
    BY ElementOfSeq DEF ListenerEnqueue, FreshJobs, TypeOK
  <1>2. /\ log' = Append(log, ljob) /\ log' \in Seq(Jobs) /\ Len(log') = n + 1
        /\ \A i \in 1 .. n : log'[i] = log[i]
        /\ log'[n + 1] = ljob
    BY <1>1, AppendProperties DEF ListenerEnqueue
  <1>3. Enqueued' = Enqueued \cup {ljob}
    BY <1>1, <1>2 DEF Enqueued
  <1>4. /\ lpc = "enqueue" /\ lpc' = "signal" /\ tail' = ljob /\ size' = size + 1
        /\ taken' = taken /\ runs' = runs /\ pc' = pc /\ job' = job
        /\ mutex' = mutex /\ ljob' = ljob
    BY DEF ListenerEnqueue, enqueue_job
  <1>5. \A i \in 1 .. n : log[i] # ljob
    BY <1>1 DEF Enqueued
  <1>6. size \in Nat /\ taken \in Nat /\ taken + size = n
    BY DEF TypeOK, QueueShape
  <1>7. head = NULL <=> size = 0
    BY <1>1, <1>6 DEF QueueShape
  <1>8. /\ size = 0 => head' = ljob /\ next' = next
        /\ size # 0 => head' = head /\ next' = [next EXCEPT ![tail] = ljob]
    BY <1>7 DEF ListenerEnqueue, enqueue_job
  <1>9. size # 0 => tail = log[n] /\ tail \in Jobs /\ n \in 1 .. n
    BY <1>1, <1>6 DEF QueueShape
  <1>10. next' \in [Jobs -> Jobs \cup {NULL}] /\ head' \in Jobs \cup {NULL}
    <2>1. next \in [Jobs -> Jobs \cup {NULL}] /\ head \in Jobs \cup {NULL}
      BY DEF TypeOK
    <2> HIDE DEF PoolInv
    <2>2. CASE size = 0
      BY <2>1, <2>2, <1>1, <1>8
    <2>3. CASE size # 0
      BY <2>1, <2>3, <1>1, <1>8, <1>9
    <2> QED
      BY <2>2, <2>3
  <1>11. TypeOK'
    BY <1>1, <1>2, <1>4, <1>6, <1>10 DEF TypeOK, ListenerPC
  <1>12. LockOwnership'
    BY <1>4 DEF LockOwnership
  <1>13. QueueShape'
    <2>1. taken' + size' = Len(log')
      BY <1>2, <1>4, <1>6
    <2>2. head' = IF size' = 0 THEN NULL ELSE (log')[taken' + 1]
      <3>1. CASE size = 0
        BY <3>1, <1>2, <1>4, <1>6, <1>8
      <3>2. CASE size # 0
        <4>1. taken + 1 \in 1 .. n
          BY <3>2, <1>6
        <4> QED
          BY <4>1, <3>2, <1>2, <1>4, <1>6, <1>8 DEF QueueShape
      <3> QED
        BY <3>1, <3>2
    <2>3. size' # 0 => tail' = (log')[Len(log')]
      BY <1>2, <1>4
    <2>4. ASSUME NEW i \in taken' + 1 .. Len(log')
          PROVE (next')[(log')[i]] =
                  IF i = Len(log') THEN NULL ELSE (log')[i + 1]
      <3>1. next[ljob] = NULL
        BY <1>1 DEF FreshJobs
      <3>2. CASE i = n + 1
        <4>1. (next')[ljob] = NULL
          BY <3>1, <1>1, <1>5, <1>8, <1>9 DEF TypeOK
        <4> QED
          BY <4>1, <3>2, <1>2
      <3>3. CASE i # n + 1
        <4>1. i \in taken + 1 .. n /\ i \in 1 .. n /\ size # 0 /\ log[i] \in Jobs
          BY <3>3, <1>1, <1>2, <1>4, <1>6
        <4>2. next[log[i]] = IF i = n THEN NULL ELSE log[i + 1]
          BY <4>1 DEF QueueShape
        <4>3. CASE i = n
          <5>1. (next')[log[i]] = ljob
            BY <4>3, <4>1, <1>8, <1>9 DEF TypeOK
          <5> QED
            BY <5>1, <4>1, <4>3, <1>2
        <4>4. CASE i # n
          <5>1. log[i] # tail
            BY <4>1, <4>4, <1>9 DEF FreshJobs
          <5>2. (next')[log[i]] = next[log[i]]
            BY <5>1, <4>1, <1>8, <1>9 DEF TypeOK
          <5>3. i + 1 \in 1 .. n
            BY <4>1, <4>4, <1>6
          <5> QED
            BY <5>2, <5>3, <4>1, <4>2, <4>4, <1>2
        <4> QED
          BY <4>3, <4>4
      <3> QED
        BY <3>2, <3>3
    <2> QED
      BY <2>1, <2>2, <2>3, <2>4 DEF QueueShape
  <1>14. FreshJobs'
    <2>1. ~(lpc' \in {"lock", "enqueue"})
      BY <1>4
    <2>2. \A i, k \in 1 .. Len(log') : (log')[i] = (log')[k] => i = k
      <3> SUFFICES ASSUME NEW i \in 1 .. n + 1, NEW k \in 1 .. n + 1,
                          (log')[i] = (log')[k]
                   PROVE i = k
        BY <1>2
      <3>1. CASE i \in 1 .. n /\ k \in 1 .. n
        BY <3>1, <1>2 DEF FreshJobs
      <3>2. CASE i = n + 1 \/ k = n + 1
        BY <3>2, <1>1, <1>2, <1>5
      <3> QED
        BY <3>1, <3>2, <1>1
    <2>3. ASSUME NEW j \in Jobs \ Enqueued'
          PROVE (next')[j] = NULL /\ (runs')[j] = 0
      <3>1. j \in Jobs \ Enqueued
        BY <1>3
      <3>2. size # 0 => tail \in Enqueued
        BY <1>1, <1>9 DEF Enqueued
      <3> QED
        BY <3>1, <3>2, <1>4, <1>8, <1>9 DEF FreshJobs, TypeOK
    <2>4. \A i \in taken' + 1 .. Len(log') : (runs')[(log')[i]] = 0
      BY <1>1, <1>2, <1>4, <1>6 DEF FreshJobs
    <2> QED
      BY <2>1, <2>2, <2>3, <2>4 DEF FreshJobs
  <1>15. HeldJobs'
    <2> SUFFICES ASSUME NEW w \in Workers
                 PROVE /\ (pc')[w] = "take" => size' # 0
                       /\ Busy(w)' => \E k \in 1 .. taken' : (job')[w] = (log')[k]
                       /\ (pc')[w] \in {"unlock", "call"} => (runs')[(job')[w]] = 0
      BY DEF HeldJobs
    <2>1. (pc')[w] = "take" => size' # 0
      BY <1>4, <1>6
    <2>2. ASSUME Busy(w)' PROVE \E k \in 1 .. taken' : (job')[w] = (log')[k]
      <3>1. Busy(w)
        BY <2>2, <1>4 DEF Busy
      <3>2. PICK k \in 1 .. taken : job[w] = log[k]
        BY <3>1 DEF HeldJobs
      <3>3. k \in 1 .. n
        BY <1>6
      <3> QED
        BY <3>2, <3>3, <1>2, <1>4
    <2>3. (pc')[w] \in {"unlock", "call"} => (runs')[(job')[w]] = 0
      BY <1>4 DEF HeldJobs
    <2> QED
      BY <2>1, <2>2, <2>3
  <1>16. RunsOnce'
    BY <1>4 DEF RunsOnce, Busy
  <1> QED
    BY <1>11, <1>12, <1>13, <1>14, <1>15, <1>16

-----------------------------------------------------------------------------
(***************************************************************************)
(* The listener's other steps and the workers' steps on the lock and the   *)
(* condition variable leave the queue, the locals and the history alone.   *)
(***************************************************************************)
LEMMA ListenerInv ==
    PoolInv /\ ListenerNext => PoolInv'
  <1> SUFFICES ASSUME PoolInv, ListenerNext PROVE PoolInv'
    OBVIOUS
  <1>1. CASE ListenerEnqueue
    BY <1>1, EnqueueInv
  <1>2. CASE ~ListenerEnqueue
    <2>1. UNCHANGED <<head, tail, size, next, job, log, taken, runs>>
      BY <1>2 DEF ListenerNext, CreateFails, CreateWorker, AddJob, ListenerLock,
                  ListenerCallocFails, ListenerSignal, ListenerUnlock, queue, hist
    <2>2. Enqueued' = Enqueued
      BY <2>1 DEF Enqueued
    <2>3. QueueShape'
      BY <2>1 DEF PoolInv, QueueShape
    <2>4. /\ \A w \in Workers :
               /\ pc'[w] # pc[w] => pc'[w] \in {"lock", "woken"}
               /\ pc[w] \in {"check", "take", "unlock"} => pc'[w] = pc[w]
          /\ pc' \in [Workers -> WorkerPC]
      BY <1>2 DEF ListenerNext, CreateFails, CreateWorker, AddJob, ListenerLock,
                  ListenerCallocFails, ListenerSignal, ListenerUnlock, PoolInv,
                  TypeOK, WorkerPC, Waiting
    <2>5. lpc' \in ListenerPC /\ ljob' \in Jobs \cup {NULL}
      BY <1>2 DEF ListenerNext, CreateFails, CreateWorker, AddJob, ListenerLock,
                  ListenerCallocFails, ListenerSignal, ListenerUnlock, PoolInv,
                  TypeOK, ListenerPC
    <2>6. /\ mutex' \in Workers \cup {Listener, NULL}
          /\ \A w \in Workers : mutex' = w <=> mutex = w
          /\ lpc' \in {"enqueue", "signal", "unlock"} => mutex' = Listener
          /\ lpc' \in {"lock", "enqueue"} => ljob' \in Jobs \ Enqueued
      BY <1>2 DEF ListenerNext, CreateFails, CreateWorker, AddJob, ListenerLock,
                  ListenerCallocFails, ListenerSignal, ListenerUnlock, PoolInv,
                  TypeOK, LockOwnership, FreshJobs
    <2>7. TypeOK'
      BY <2>1, <2>4, <2>5, <2>6 DEF PoolInv, TypeOK
    <2>8. LockOwnership'
      BY <2>4, <2>6 DEF PoolInv, LockOwnership
    <2>9. FreshJobs'
      BY <2>1, <2>2, <2>6 DEF PoolInv, FreshJobs
    <2>10. \A w \in Workers : (Busy(w)' => Busy(w)) /\ (pc'[w] = "take" => pc[w] = "take")
      BY <2>4 DEF Busy
    <2>11. HeldJobs'
      BY <2>1, <2>4, <2>10 DEF PoolInv, HeldJobs
    <2>12. RunsOnce'
      BY <2>1, <2>10 DEF PoolInv, RunsOnce
    <2> QED
      BY <2>3, <2>7, <2>8, <2>9, <2>11, <2>12 DEF PoolInv
  <1> QED
    BY <1>1, <1>2

\* The steps of a worker that touch neither the queue nor a job.
LEMMA LockingInv ==
    ASSUME PoolInv, NEW w \in Workers,
           \/ WorkerLock(w) \/ WorkerCheck(w) \/ SpuriousWakeup(w)
           \/ WorkerReacquire(w) \/ WorkerUnlock(w) \/ WorkerReturn(w)
    PROVE  PoolInv'
  <1>1. UNCHANGED <<head, tail, size, next, job, lpc, ljob, log, taken, runs>>
    BY DEF WorkerLock, WorkerCheck, SpuriousWakeup, WorkerReacquire, WorkerUnlock,
           WorkerReturn, queue, hist
  <1>2. Enqueued' = Enqueued
    BY <1>1 DEF Enqueued
  <1>3. QueueShape' /\ FreshJobs'
    BY <1>1, <1>2 DEF PoolInv, QueueShape, FreshJobs
  <1>4. /\ pc' \in [Workers -> WorkerPC]
        /\ \A v \in Workers \ {w} : pc'[v] = pc[v]
        /\ pc'[w] \in {"unlock", "call"} => pc[w] \in {"unlock", "call"}
        /\ Busy(w)' => Busy(w)
        /\ pc'[w] = "take" => size # 0
        /\ mutex' \in Workers \cup {Listener, NULL}
    BY DEF WorkerLock, WorkerCheck, SpuriousWakeup, WorkerReacquire, WorkerUnlock,
           WorkerReturn, At, Goto, PoolInv, TypeOK, WorkerPC, Busy
  <1>5. TypeOK'
    BY <1>1, <1>4 DEF PoolInv, TypeOK
  <1>6. LockOwnership'
    BY <1>1 DEF WorkerLock, WorkerCheck, SpuriousWakeup, WorkerReacquire,
                WorkerUnlock, WorkerReturn, At, Goto, PoolInv, TypeOK, LockOwnership
  <1>7. \A v \in Workers : Busy(v)' => Busy(v)
    BY <1>4 DEF Busy
  <1>8. HeldJobs'
    BY <1>1, <1>4, <1>7 DEF PoolInv, HeldJobs
  <1>9. RunsOnce'
    BY <1>1, <1>7 DEF PoolInv, RunsOnce
  <1> QED
    BY <1>3, <1>5, <1>6, <1>8, <1>9 DEF PoolInv

\* dequeue_job hands the oldest job, which nobody has run or holds, to w.
LEMMA TakeInv ==
    ASSUME PoolInv, NEW w \in Workers, WorkerTake(w)
    PROVE  PoolInv'
  <1> USE DEF PoolInv
  <1> DEFINE n == Len(log)
  <1>1. /\ n \in Nat /\ log \in Seq(Jobs) /\ \A i \in 1 .. n : log[i] \in Jobs
        /\ size \in Nat /\ taken \in Nat /\ taken + size = n
    BY ElementOfSeq DEF TypeOK, QueueShape
  <1>2. pc[w] = "take" /\ size # 0
    BY DEF WorkerTake, At, HeldJobs
  <1>3. /\ job' = [job EXCEPT ![w] = head] /\ head' = next[head] /\ size' = size - 1
        /\ taken' = taken + 1 /\ pc' = [pc EXCEPT ![w] = "unlock"]
        /\ UNCHANGED <<tail, next, mutex, lpc, ljob, log, runs>>
    BY <1>2 DEF WorkerTake, dequeue_job, Goto
  <1>4. /\ taken + 1 \in 1 .. n /\ head = log[taken + 1] /\ head \in Jobs
        /\ taken + 1 \in taken + 1 .. n
    BY <1>1, <1>2 DEF QueueShape
  <1>5. Enqueued' = Enqueued
    BY <1>3 DEF Enqueued
  <1>6. TypeOK'
    BY <1>1, <1>2, <1>3, <1>4 DEF TypeOK, WorkerPC
  <1>7. LockOwnership'
    BY <1>2, <1>3 DEF LockOwnership, TypeOK
  <1>8. QueueShape'
    <2>1. next[log[taken + 1]] = IF taken + 1 = n THEN NULL ELSE log[taken + 2]
      BY <1>1, <1>4 DEF QueueShape
    <2>2. taken' + size' = Len(log')
      BY <1>1, <1>2, <1>3
    <2>3. head' = IF size' = 0 THEN NULL ELSE (log')[taken' + 1]
      BY <2>1, <1>1, <1>2, <1>3, <1>4
    <2>4. size' # 0 => tail' = (log')[Len(log')]
      BY <1>2, <1>3 DEF QueueShape
    <2>5. \A i \in taken' + 1 .. Len(log') :
             (next')[(log')[i]] = IF i = Len(log') THEN NULL ELSE (log')[i + 1]
      BY <1>1, <1>3 DEF QueueShape
    <2> QED
      BY <2>2, <2>3, <2>4, <2>5 DEF QueueShape
  <1>9. FreshJobs'
    BY <1>1, <1>3, <1>5 DEF FreshJobs
  <1>10. HeldJobs'
    <2> SUFFICES ASSUME NEW v \in Workers
                 PROVE /\ (pc')[v] = "take" => size' # 0
                       /\ Busy(v)' => \E k \in 1 .. taken' : (job')[v] = (log')[k]
                       /\ (pc')[v] \in {"unlock", "call"} => (runs')[(job')[v]] = 0
      BY DEF HeldJobs
    <2>1. CASE v = w
      <3>1. (job')[v] = log[taken + 1] /\ (pc')[v] = "unlock" /\ taken + 1 \in 1 .. taken'
        BY <2>1, <1>1, <1>3, <1>4 DEF TypeOK
      <3>2. runs[log[taken + 1]] = 0
        BY <1>4 DEF FreshJobs
      <3> QED
        BY <3>1, <3>2, <1>3
    <2>2. CASE v # w
      <3>1. (job')[v] = job[v] /\ (pc')[v] = pc[v]
        BY <2>2, <1>3 DEF TypeOK
      <3>2. pc[v] # "take"
        BY <2>2, <1>2 DEF LockOwnership
      <3>3. \A k \in 1 .. taken : k \in 1 .. taken'
        BY <1>1, <1>3
      <3> QED
        BY <3>1, <3>2, <3>3, <1>3 DEF HeldJobs, Busy
    <2> QED
      BY <2>1, <2>2
  <1>11. RunsOnce'
    <2>1. \A v \in Workers \ {w} : Busy(v)' => Busy(v) /\ (job')[v] = job[v] /\ job[v] # head
      <3> SUFFICES ASSUME NEW v \in Workers \ {w}, Busy(v)'
                   PROVE  Busy(v) /\ (job')[v] = job[v] /\ job[v] # head
        OBVIOUS
      <3>1. Busy(v) /\ (job')[v] = job[v]
        BY <1>3 DEF Busy, TypeOK
      <3>2. PICK k \in 1 .. taken : job[v] = log[k]
        BY <3>1 DEF HeldJobs
      <3>3. k \in 1 .. n /\ k # taken + 1
        BY <1>1
      <3> QED
        BY <3>1, <3>2, <3>3, <1>4 DEF FreshJobs
    <2>2. (job')[w] = head
      BY <1>3 DEF TypeOK
    <2> QED
      BY <2>1, <2>2, <1>3 DEF RunsOnce
  <1> QED
    BY <1>6, <1>7, <1>8, <1>9, <1>10, <1>11

\* The call of exec_func is the only run of the job that w holds.
LEMMA CallInv ==
    ASSUME PoolInv, NEW w \in Workers, WorkerCall(w)
    PROVE  PoolInv'
  <1> USE DEF PoolInv
  <1> DEFINE n == Len(log)
  <1>1. /\ n \in Nat /\ log \in Seq(Jobs) /\ \A i \in 1 .. n : log[i] \in Jobs
        /\ size \in Nat /\ taken \in Nat /\ taken + size = n
    BY ElementOfSeq DEF TypeOK, QueueShape
  <1>2. pc[w] = "call" /\ Busy(w) /\ runs[job[w]] = 0
    BY DEF WorkerCall, At, HeldJobs, Busy
  <1>3. PICK m \in 1 .. taken : job[w] = log[m]
    BY <1>2 DEF HeldJobs
  <1>4. m \in 1 .. n /\ job[w] \in Jobs /\ job[w] \in Enqueued
    BY <1>1, <1>3 DEF Enqueued
  <1>5. /\ pc' = [pc EXCEPT ![w] = "exec"] /\ runs' = [runs EXCEPT ![job[w]] = 1]
        /\ UNCHANGED <<head, tail, size, next, mutex, job, lpc, ljob, log, taken>>
    BY <1>2, <1>4 DEF WorkerCall, Goto, queue
  <1>6. Enqueued' = Enqueued
    BY <1>5 DEF Enqueued
  <1>7. TypeOK'
    BY <1>5 DEF TypeOK, WorkerPC
  <1>8. LockOwnership'
    BY <1>2, <1>5 DEF LockOwnership, TypeOK
  <1>9. QueueShape'
    BY <1>5 DEF QueueShape
  <1>10. \A i \in taken + 1 .. n : log[i] # job[w]
    BY <1>1, <1>3, <1>4 DEF FreshJobs
  <1>11. FreshJobs'
    BY <1>1, <1>4, <1>5, <1>6, <1>10 DEF FreshJobs, TypeOK
  <1>12. \A v \in Workers : Busy(v)' <=> Busy(v)
    BY <1>2, <1>5 DEF Busy, TypeOK
  <1>13. HeldJobs'
    <2> SUFFICES ASSUME NEW v \in Workers
                 PROVE /\ (pc')[v] = "take" => size' # 0
                       /\ Busy(v)' => \E k \in 1 .. taken' : (job')[v] = (log')[k]
                       /\ (pc')[v] \in {"unlock", "call"} => (runs')[(job')[v]] = 0
      BY DEF HeldJobs
    <2>1. CASE v = w
      BY <2>1, <1>5, <1>12 DEF HeldJobs, TypeOK
    <2>2. CASE v # w
      <3>1. (pc')[v] = pc[v]
        BY <2>2, <1>5 DEF TypeOK
      <3>2. Busy(v) => job[v] # job[w]
        BY <2>2, <1>2 DEF RunsOnce
      <3>3. pc[v] \in {"unlock", "call"} => (runs')[job[v]] = 0
        BY <3>2, <1>5 DEF HeldJobs, TypeOK, Busy
      <3> QED
        BY <3>1, <3>3, <1>5, <1>12 DEF HeldJobs
    <2> QED
      BY <2>1, <2>2
  <1>14. RunsOnce'
    BY <1>4, <1>5, <1>12 DEF RunsOnce, TypeOK
  <1> QED
    BY <1>7, <1>8, <1>9, <1>11, <1>13, <1>14

\* Every step of the listener and of the workers preserves PoolInv.
LEMMA NextInv == PoolInv /\ [Next]_vars => PoolInv'
  <1> SUFFICES ASSUME PoolInv, [Next]_vars PROVE PoolInv'
    OBVIOUS
  <1>1. CASE ListenerNext
    BY <1>1, ListenerInv
  <1>2. ASSUME NEW w \in Workers, WorkerNext(w) PROVE PoolInv'
    BY <1>2, LockingInv, TakeInv, CallInv DEF WorkerNext
  <1>3. CASE UNCHANGED vars
    BY <1>3 DEF vars, queue, hist, PoolInv, TypeOK, LockOwnership, QueueShape,
                FreshJobs, HeldJobs, RunsOnce, Busy, Enqueued
  <1> QED
    BY <1>1, <1>2, <1>3 DEF Next

(***************************************************************************)
(* For any number of workers and jobs, in every interleaving, with         *)
(* spurious wake-ups and a failing tc_calloc: the linked list is the queue *)
(* of the jobs not dequeued, and every job is run at most once.            *)
(***************************************************************************)
THEOREM PoolCorrect == Spec => []PoolInv
  <1>1. Init => PoolInv
    BY InitInv
  <1>2. PoolInv /\ [Next]_vars => PoolInv'
    BY NextInv
  <1> QED
    BY <1>1, <1>2, PTL DEF Spec

\* The queue's nodes, the threads' places and the histories keep their types.
THEOREM PoolTypes == Spec => []TypeOK
  <1>1. PoolInv => TypeOK
    BY DEF PoolInv
  <1> QED
    BY <1>1, PoolCorrect, PTL

\* front, rear, size and the links are those of the queue of the jobs that no
\* worker has dequeued, in the order of add_job_to_pool.
THEOREM QueueIsJobs == Spec => []QueueShape
  <1>1. PoolInv => QueueShape
    BY DEF PoolInv
  <1> QED
    BY <1>1, PoolCorrect, PTL

\* No job is run twice or by two workers.
THEOREM JobsRunOnce == Spec => []RunsOnce
  <1>1. PoolInv => RunsOnce
    BY DEF PoolInv
  <1> QED
    BY <1>1, PoolCorrect, PTL

-----------------------------------------------------------------------------
(***************************************************************************)
(* A step that keeps every contender, wakes nobody into sleep and does not *)
(* consume the pending signal keeps NoIdleSleeper.                         *)
(***************************************************************************)
LEMMA MoreContenders ==
    ASSUME PoolInv, NoIdleSleeper, size' = size, Contenders \subseteq Contenders',
           Waiting' \subseteq Waiting, lpc = "signal" => lpc' = "signal"
    PROVE  NoIdleSleeper'
  <1>1. IsFiniteSet(Contenders') /\ Contenders' \in SUBSET Workers
    BY FS_Subset DEF Contenders
  <1>2. Cardinality(Contenders) <= Cardinality(Contenders')
    BY <1>1, FS_Subset
  <1>3. Cardinality(Contenders) \in Nat /\ Cardinality(Contenders') \in Nat
    BY <1>1, FS_Subset, FS_CardinalityType
  <1> QED
    BY <1>2, <1>3 DEF NoIdleSleeper, PoolInv, TypeOK

\* The three steps that count: a job is queued, a sleeper is signalled, a
\* contender takes a job.
LEMMA EnqueueSleeper ==
    ASSUME PoolInv, NoIdleSleeper, ListenerEnqueue PROVE NoIdleSleeper'
  <1>1. Contenders' = Contenders /\ Waiting' = Waiting
    BY DEF ListenerEnqueue, Contenders, Waiting
  <1>2. lpc # "signal" /\ lpc' = "signal" /\ size' = size + 1 /\ size \in Nat
    BY DEF ListenerEnqueue, enqueue_job, PoolInv, TypeOK
  <1>3. Cardinality(Contenders) \in Nat
    BY FS_Subset, FS_CardinalityType DEF Contenders
  <1> QED
    BY <1>1, <1>2, <1>3 DEF NoIdleSleeper

\* pthread_cond_signal turns the pending signal into one more contender.
LEMMA SignalSleeper ==
    ASSUME PoolInv, NoIdleSleeper, ListenerSignal PROVE NoIdleSleeper'
  <1>1. lpc = "signal" /\ lpc' # "signal" /\ size' = size /\ size \in Nat
    BY DEF ListenerSignal, queue, PoolInv, TypeOK
  <1>2. CASE Waiting = {}
    <2>1. Waiting' = {}
      BY <1>2 DEF ListenerSignal, Waiting
    <2> QED
      BY <2>1 DEF NoIdleSleeper
  <1>3. CASE Waiting # {}
    <2>1. PICK w \in Waiting : pc' = [pc EXCEPT ![w] = "woken"]
      BY <1>3 DEF ListenerSignal
    <2>2. w \notin Contenders /\ Contenders' = Contenders \cup {w}
      BY <2>1 DEF Contenders, Waiting, PoolInv, TypeOK
    <2>3. IsFiniteSet(Contenders)
      BY FS_Subset DEF Contenders
    <2>4. Cardinality(Contenders') = Cardinality(Contenders) + 1
      BY <2>2, <2>3, FS_AddElement
    <2>5. Cardinality(Contenders) \in Nat
      BY <2>3, FS_CardinalityType
    <2> QED
      BY <1>1, <1>3, <2>4, <2>5 DEF NoIdleSleeper
  <1> QED
    BY <1>2, <1>3

\* dequeue_job uses up one contender and one job.
LEMMA TakeSleeper ==
    ASSUME PoolInv, NoIdleSleeper, NEW w \in Workers, WorkerTake(w)
    PROVE  NoIdleSleeper'
  <1>1. pc[w] = "take" /\ size # 0 /\ size \in Nat /\ mutex = w
    BY DEF WorkerTake, At, PoolInv, HeldJobs, TypeOK, LockOwnership
  <1>2. size' = size - 1 /\ lpc' = lpc /\ pc' = [pc EXCEPT ![w] = "unlock"]
    BY <1>1 DEF WorkerTake, dequeue_job, Goto
  <1>3. lpc # "signal"
    BY <1>1 DEF PoolInv, LockOwnership
  <1>4. w \in Contenders /\ Contenders' = Contenders \ {w} /\ Waiting' = Waiting
    BY <1>1, <1>2 DEF Contenders, Waiting, PoolInv, TypeOK
  <1>5. IsFiniteSet(Contenders)
    BY FS_Subset DEF Contenders
  <1>6. Cardinality(Contenders') = Cardinality(Contenders) - 1
    BY <1>4, <1>5, FS_RemoveElement
  <1>7. Cardinality(Contenders) \in Nat
    BY <1>5, FS_CardinalityType
  <1> QED
    BY <1>1, <1>2, <1>3, <1>4, <1>6, <1>7 DEF NoIdleSleeper

\* Every step keeps NoIdleSleeper; a worker goes to sleep only at size 0.
LEMMA NextSleeper ==
    ASSUME PoolInv, NoIdleSleeper, [Next]_vars PROVE NoIdleSleeper'
  <1>1. CASE ListenerNext
    <2>1. CASE ListenerEnqueue
      BY <2>1, EnqueueSleeper
    <2>2. CASE ListenerSignal
      BY <2>2, SignalSleeper
    <2>3. CASE ~ListenerEnqueue /\ ~ListenerSignal
      <3>1. size' = size /\ (lpc = "signal" => lpc' = "signal")
        BY <1>1, <2>3 DEF ListenerNext, CreateFails, CreateWorker, AddJob, ListenerLock,
                          ListenerCallocFails, ListenerUnlock, queue
      <3>2. Contenders \subseteq Contenders' /\ Waiting' \subseteq Waiting
        BY <1>1, <2>3 DEF ListenerNext, CreateFails, CreateWorker, AddJob, ListenerLock,
                          ListenerCallocFails, ListenerUnlock, Contenders, Waiting,
                          PoolInv, TypeOK
      <3> QED
        BY <3>1, <3>2, MoreContenders
    <2> QED
      BY <2>1, <2>2, <2>3
  <1>2. ASSUME NEW w \in Workers, WorkerNext(w) PROVE NoIdleSleeper'
    <2>1. CASE WorkerTake(w)
      BY <2>1, TakeSleeper
    <2>2. CASE WorkerCheck(w) /\ size = 0
      <3>1. size' = 0
        BY <2>2 DEF WorkerCheck, queue
      <3>2. Cardinality(Contenders') \in Nat
        BY FS_Subset, FS_CardinalityType DEF Contenders
      <3> QED
        BY <3>1, <3>2 DEF NoIdleSleeper
    <2>3. CASE ~WorkerTake(w) /\ ~(WorkerCheck(w) /\ size = 0)
      <3>1. size' = size /\ lpc' = lpc
        BY <1>2, <2>3 DEF WorkerNext, WorkerLock, WorkerCheck, SpuriousWakeup,
                          WorkerReacquire, WorkerUnlock, WorkerCall, WorkerReturn, queue
      <3>2. Contenders \subseteq Contenders' /\ Waiting' \subseteq Waiting
        BY <1>2, <2>3 DEF WorkerNext, WorkerLock, WorkerCheck, SpuriousWakeup,
                          WorkerReacquire, WorkerUnlock, WorkerCall, WorkerReturn, At,
                          Goto, Contenders, Waiting, PoolInv, TypeOK
      <3> QED
        BY <3>1, <3>2, MoreContenders
    <2> QED
      BY <2>1, <2>2, <2>3
  <1>3. CASE UNCHANGED vars
    BY <1>3 DEF vars, queue, NoIdleSleeper, Contenders, Waiting
  <1> QED
    BY <1>1, <1>2, <1>3 DEF Next

(***************************************************************************)
(* One pthread_cond_signal per job is enough for any number of workers:    *)
(* no job is left in the queue for busy workers while an idle one sleeps.  *)
(***************************************************************************)
THEOREM NoLostWakeup == Spec => []NoIdleSleeper
  <1>1. Init => NoIdleSleeper
    BY FS_EmptySet DEF Init, NoIdleSleeper, Waiting
  <1>2. PoolInv /\ NoIdleSleeper /\ [Next]_vars => NoIdleSleeper'
    BY NextSleeper
  <1> QED
    BY <1>1, <1>2, PoolCorrect, PTL DEF Spec

-----------------------------------------------------------------------------
\* enqueue_job, seen through the mapping, appends to the pending jobs.
LEMMA SubSeqAppend ==
    ASSUME NEW S, NEW s \in Seq(S), NEW e \in S, NEW k \in 0 .. Len(s)
    PROVE  SubSeq(Append(s, e), k + 1, Len(s) + 1) = Append(SubSeq(s, k + 1, Len(s)), e)
  <1> DEFINE n == Len(s)
             a == Append(s, e)
             l == SubSeq(a, k + 1, n + 1)
             p == SubSeq(s, k + 1, n)
             r == Append(p, e)
  <1>1. n \in Nat /\ k \in Nat /\ k <= n
    OBVIOUS
  <1>2. /\ a \in Seq(S) /\ Len(a) = n + 1 /\ \A i \in 1 .. n : a[i] = s[i]
        /\ a[n + 1] = e
    BY AppendProperties
  <1>3. \A i \in k + 1 .. n + 1 : a[i] \in S
    BY <1>1, <1>2, ElementOfSeq
  <1>4. l \in Seq(S) /\ Len(l) = n - k + 1 /\ \A i \in 1 .. n - k + 1 : l[i] = a[k + i]
    BY <1>1, <1>3, SubSeqProperties
  <1>5. \A i \in k + 1 .. n : s[i] \in S
    BY <1>1, ElementOfSeq
  <1>6. p \in Seq(S) /\ Len(p) = n - k /\ \A i \in 1 .. n - k : p[i] = s[k + i]
    BY <1>1, <1>5, SubSeqProperties
  <1>7. /\ r \in Seq(S) /\ Len(r) = n - k + 1 /\ \A i \in 1 .. n - k : r[i] = p[i]
        /\ r[n - k + 1] = e
    BY <1>6, AppendProperties
  <1>8. ASSUME NEW i \in 1 .. Len(l) PROVE l[i] = r[i]
    <2>1. CASE i = n - k + 1
      BY <2>1, <1>1, <1>2, <1>4, <1>7
    <2>2. CASE i # n - k + 1
      <3>1. i \in 1 .. n - k /\ k + i \in 1 .. n
        BY <2>2, <1>1, <1>4
      <3> QED
        BY <3>1, <1>1, <1>2, <1>4, <1>6, <1>7
    <2> QED
      BY <2>1, <2>2
  <1> HIDE DEF n, a, l, p, r
  <1>9. l = r
    BY <1>4, <1>7, <1>8, SeqEqual
  <1> QED
    BY <1>9 DEF n, a, l, p, r

\* Each step of the pool is a step of JobPool or leaves its state alone.
LEMMA NextRefines ==
    ASSUME PoolInv, [Next]_vars PROVE [Pool!Next]_(Pool!vars)
  <1>1. ASSUME ListenerEnqueue PROVE \E j \in Jobs : Pool!Submit(j)
    <2>1. ljob \in Jobs /\ log \in Seq(Jobs) /\ taken \in 0 .. Len(log) /\ Len(log) \in Nat
      BY <1>1 DEF ListenerEnqueue, PoolInv, FreshJobs, TypeOK, QueueShape
    <2>2. log' = Append(log, ljob) /\ Len(log') = Len(log) + 1 /\ taken' = taken
      BY <1>1, <2>1, AppendProperties DEF ListenerEnqueue
    <2>3. AbstractPending' = Append(AbstractPending, ljob)
      BY <2>1, <2>2, SubSeqAppend DEF AbstractPending
    <2>4. AbstractRunning' = AbstractRunning
      BY <1>1 DEF ListenerEnqueue, AbstractRunning, Busy
    <2> QED
      BY <2>1, <2>3, <2>4 DEF Pool!Submit
  <1>2. ASSUME NEW w \in Workers, WorkerTake(w) PROVE Pool!Start(w)
    <2>1. /\ log \in Seq(Jobs) /\ taken + 1 \in 1 .. Len(log) /\ Len(log) \in Nat
          /\ Len(log) \in taken + 1 .. Len(log) /\ head = log[taken + 1] /\ taken \in Nat
      BY <1>2 DEF WorkerTake, At, PoolInv, HeldJobs, TypeOK, QueueShape
    <2>2. /\ job' = [job EXCEPT ![w] = head] /\ pc' = [pc EXCEPT ![w] = "unlock"]
          /\ pc[w] = "take" /\ log' = log /\ taken' = taken + 1
      BY <1>2 DEF WorkerTake, At, Goto, dequeue_job, PoolInv, HeldJobs
    <2>3. /\ Head(AbstractPending) = log[taken + 1]
          /\ Tail(AbstractPending) = SubSeq(log, taken + 2, Len(log))
      BY <2>1, HeadTailOfSubSeq DEF AbstractPending
    <2>4. Len(AbstractPending) = Len(log) - taken
      <3>1. \A i \in taken + 1 .. Len(log) : log[i] \in Jobs
        BY <2>1, ElementOfSeq
      <3> QED
        BY <2>1, <3>1, SubSeqProperties DEF AbstractPending
    <2>5. AbstractPending # <<>>
      BY <2>1, <2>4
    <2>6. AbstractPending' = Tail(AbstractPending)
      <3>1. AbstractPending' = SubSeq(log, taken + 1 + 1, Len(log))
        BY <2>2 DEF AbstractPending
      <3>2. taken + 1 + 1 = taken + 2
        BY <2>1
      <3> QED
        BY <2>3, <3>1, <3>2
    <2>7. AbstractRunning[w] = NULL
      BY <2>2 DEF AbstractRunning, Busy
    <2>8. AbstractRunning' = [AbstractRunning EXCEPT ![w] = Head(AbstractPending)]
      <3>1. \A v \in Workers : AbstractRunning'[v] = IF v = w THEN head ELSE AbstractRunning[v]
        BY <2>2 DEF AbstractRunning, Busy, PoolInv, TypeOK
      <3> QED
        BY <2>1, <2>3, <3>1 DEF AbstractRunning
    <2> QED
      BY <2>5, <2>6, <2>7, <2>8 DEF Pool!Start
  <1>3. ASSUME NEW w \in Workers, WorkerReturn(w) PROVE Pool!Finish(w)
    <2>1. Busy(w) /\ pc' = [pc EXCEPT ![w] = "lock"] /\ UNCHANGED <<job, log, taken>>
      BY <1>3 DEF WorkerReturn, At, Goto, Busy, hist
    <2>2. job[w] # NULL
      <3>1. PICK k \in 1 .. taken : job[w] = log[k]
        BY <2>1 DEF PoolInv, HeldJobs
      <3>2. k \in 1 .. Len(log) /\ log \in Seq(Jobs)
        BY <3>1 DEF PoolInv, TypeOK, QueueShape
      <3> QED
        BY <3>1, <3>2, ElementOfSeq
    <2>3. AbstractPending' = AbstractPending
      BY <2>1 DEF AbstractPending
    <2>4. \A v \in Workers : AbstractRunning'[v] = IF v = w THEN NULL ELSE AbstractRunning[v]
      BY <2>1 DEF AbstractRunning, Busy, PoolInv, TypeOK
    <2>5. AbstractRunning' = [AbstractRunning EXCEPT ![w] = NULL]
      BY <2>4 DEF AbstractRunning
    <2> QED
      BY <2>1, <2>2, <2>3, <2>5 DEF Pool!Finish, AbstractRunning
  <1>4. ASSUME ListenerNext, ~ListenerEnqueue PROVE UNCHANGED Pool!vars
    <2>1. UNCHANGED <<job, log, taken>> /\ \A w \in Workers : Busy(w)' <=> Busy(w)
      BY <1>4 DEF ListenerNext, CreateFails, CreateWorker, AddJob, ListenerLock,
                  ListenerCallocFails, ListenerSignal, ListenerUnlock, hist, Busy,
                  Waiting, PoolInv, TypeOK
    <2> QED
      BY <2>1 DEF AbstractPending, AbstractRunning, Pool!vars
  <1>5. ASSUME NEW w \in Workers, WorkerNext(w), ~WorkerTake(w), ~WorkerReturn(w)
        PROVE UNCHANGED Pool!vars
    <2>1. WorkerCall(w) => job[w] # NULL
      <3> SUFFICES ASSUME WorkerCall(w) PROVE job[w] # NULL
        OBVIOUS
      <3>1. PICK k \in 1 .. taken : job[w] = log[k]
        BY DEF WorkerCall, At, Busy, PoolInv, HeldJobs
      <3>2. k \in 1 .. Len(log) /\ log \in Seq(Jobs)
        BY <3>1 DEF PoolInv, TypeOK, QueueShape
      <3> QED
        BY <3>1, <3>2, ElementOfSeq
    <2>2. UNCHANGED <<job, log, taken>> /\ \A v \in Workers : Busy(v)' <=> Busy(v)
      BY <1>5, <2>1 DEF WorkerNext, WorkerLock, WorkerCheck, SpuriousWakeup,
                        WorkerReacquire, WorkerUnlock, WorkerCall, At, Goto, hist, Busy,
                        PoolInv, TypeOK
    <2> QED
      BY <2>2 DEF AbstractPending, AbstractRunning, Pool!vars
  <1>6. ASSUME UNCHANGED vars PROVE UNCHANGED Pool!vars
    BY <1>6 DEF vars, hist, AbstractPending, AbstractRunning, Busy, Pool!vars
  <1> QED
    BY <1>1, <1>2, <1>3, <1>4, <1>5, <1>6 DEF Next, Pool!Next

(***************************************************************************)
(* The mutex, the condition variable and the linked list of thread_pool.c  *)
(* implement JobPool, for any number of workers and jobs.                  *)
(***************************************************************************)
THEOREM PoolRefines == Spec => ImplementsJobPool
  <1>1. Init => Pool!Init
    <2> SUFFICES ASSUME Init PROVE Pool!Init
      OBVIOUS
    <2>1. Len(log) = 0 /\ taken = 0
      BY DEF Init
    <2>2. AbstractPending = <<>>
      BY <2>1, SubSeqEmpty DEF AbstractPending
    <2>3. AbstractRunning = [w \in Workers |-> NULL]
      BY DEF Init, AbstractRunning, Busy
    <2> QED
      BY <2>2, <2>3 DEF Pool!Init
  <1>2. PoolInv /\ [Next]_vars => [Pool!Next]_(Pool!vars)
    BY NextRefines
  <1> QED
    BY <1>1, <1>2, PoolCorrect, PTL DEF Spec, ImplementsJobPool, Pool!Spec
=============================================================================
