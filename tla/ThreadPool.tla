---------------------------- MODULE ThreadPool ----------------------------
(***************************************************************************)
(* thread_pool.c: one listener thread hands jobs to NUM_OF_THREADS worker  *)
(* threads through Job_queue, a singly linked list with head, tail and     *)
(* size, guarded by _mutex_lock and the condition variable _cond_mutex.    *)
(*                                                                         *)
(* A step is what one thread does between two points where another thread  *)
(* can observe it: acquiring the mutex, each access to Job_queue, the      *)
(* atomic release-and-block of pthread_cond_wait, the wake-up, the signal, *)
(* the release, the call of exec_func and its return.                      *)
(*                                                                         *)
(* A job_t and the Job_Node made for it are allocated together, one per    *)
(* add_job_to_pool call, and never freed: both are named by the job.       *)
(***************************************************************************)
EXTENDS Naturals, Sequences, FiniteSets

CONSTANTS Workers,      \* the threads of the pool (NUM_OF_THREADS of them)
          Jobs,         \* the jobs the listener submits, each once
          Listener,     \* the thread that runs main
          NULL,         \* the null pointer, and "nobody" as mutex owner
          CallocFails   \* the jobs for which tc_calloc of the node returns NULL

ASSUME WorkersAssumption ==
    Workers # {} /\ IsFiniteSet(Workers) /\ Listener \notin Workers /\ NULL \notin Workers
ASSUME ListenerAssumption == Listener # NULL
ASSUME JobsAssumption == NULL \notin Jobs /\ CallocFails \subseteq Jobs

VARIABLES
    head, tail, size,  \* Job_queue->head, ->tail, ->size
    next,              \* next[j]: the next field of the node of job j
    mutex,             \* owner of _mutex_lock, or NULL
    pc,                \* pc[w]: where worker w is in activate_workers
    job,               \* job[w]: w's local variable job
    lpc,               \* where the listener is in init_pool or add_job_to_pool
    ljob,              \* the argument of the current add_job_to_pool call
    log,               \* history: the jobs enqueued, in order
    taken,             \* history: how many of them were dequeued
    runs               \* history: runs[j]: how often exec_func was called for j

queue == <<head, tail, size, next>>
hist == <<log, taken, runs>>
vars == <<queue, mutex, pc, job, lpc, ljob, hist>>

WorkerPC == {"none", "lock", "check", "wait", "woken", "take", "unlock", "call", "exec"}
ListenerPC == {"init", "ready", "lock", "enqueue", "signal", "unlock", "exit"}

Enqueued == {log[i] : i \in 1 .. Len(log)}
Waiting == {w \in Workers : pc[w] = "wait"}

-----------------------------------------------------------------------------
\* create_job_queue: an empty queue; no worker exists yet.
Init ==
    /\ head = NULL /\ tail = NULL /\ size = 0
    /\ next = [j \in Jobs |-> NULL]
    /\ mutex = NULL
    /\ pc = [w \in Workers |-> "none"]
    /\ job = [w \in Workers |-> NULL]
    /\ lpc = "init" /\ ljob = NULL
    /\ log = <<>> /\ taken = 0 /\ runs = [j \in Jobs |-> 0]

-----------------------------------------------------------------------------
\* init_pool: the loop over pthread_create.  A worker runs as soon as it is
\* created.  When creation fails init_pool returns 0 and main exits.
CreateWorker(w) ==
    /\ lpc = "init" /\ pc[w] = "none"
    /\ pc' = [pc EXCEPT ![w] = "lock"]
    /\ lpc' = IF \A v \in Workers \ {w} : pc[v] # "none" THEN "ready" ELSE "init"
    /\ UNCHANGED <<queue, mutex, job, ljob, hist>>

CreateFails ==
    /\ lpc = "init"
    /\ lpc' = "exit"
    /\ UNCHANGED <<queue, mutex, pc, job, ljob, hist>>

-----------------------------------------------------------------------------
\* add_job_to_pool, called by the listener with a freshly allocated job.
AddJob(j) ==
    /\ lpc = "ready" /\ j \notin Enqueued
    /\ ljob' = j /\ lpc' = "lock"
    /\ UNCHANGED <<queue, mutex, pc, job, hist>>

ListenerLock ==
    /\ lpc = "lock" /\ mutex = NULL
    /\ mutex' = Listener /\ lpc' = "enqueue"
    /\ UNCHANGED <<queue, pc, job, ljob, hist>>

\* Mutant of enqueue_job: the new node is linked but tail is not advanced.
EnqueueKeepsTail(j) ==
    /\ IF head = NULL
       THEN head' = j /\ tail' = j /\ UNCHANGED next
       ELSE next' = [next EXCEPT ![tail] = j] /\ UNCHANGED <<head, tail>>
    /\ size' = size + 1

\* Mutant of enqueue_job: the new node goes in front of the head.
EnqueueAtHead(j) ==
    /\ next' = [next EXCEPT ![j] = head]
    /\ head' = j
    /\ tail' = IF head = NULL THEN j ELSE tail
    /\ size' = size + 1

\* enqueue_job: link node j behind the tail.
enqueue_job(j) ==
    /\ IF head = NULL
       THEN head' = j /\ UNCHANGED next
       ELSE next' = [next EXCEPT ![tail] = j] /\ UNCHANGED head
    /\ tail' = j
    /\ size' = size + 1

ListenerEnqueue ==
    /\ lpc = "enqueue" /\ ljob \notin CallocFails
    /\ enqueue_job(ljob)
    /\ lpc' = "signal"
    /\ log' = Append(log, ljob)
    /\ UNCHANGED <<mutex, pc, job, ljob, taken, runs>>

\* tc_calloc returned NULL: the early return keeps _mutex_lock.
ListenerCallocFails ==
    /\ lpc = "enqueue" /\ ljob \in CallocFails
    /\ lpc' = "ready"
    /\ UNCHANGED <<queue, mutex, pc, job, ljob, hist>>

\* Mutant of ListenerSignal: signal only when the queue was empty before.
SignalFirstOnly ==
    /\ lpc = "signal"
    /\ IF Waiting = {} \/ size # 1
       THEN UNCHANGED pc
       ELSE \E w \in Waiting : pc' = [pc EXCEPT ![w] = "woken"]
    /\ lpc' = "unlock"
    /\ UNCHANGED <<queue, mutex, job, ljob, hist>>

\* pthread_cond_signal: wakes one waiter if there is one.
ListenerSignal ==
    /\ lpc = "signal"
    /\ IF Waiting = {}
       THEN UNCHANGED pc
       ELSE \E w \in Waiting : pc' = [pc EXCEPT ![w] = "woken"]
    /\ lpc' = "unlock"
    /\ UNCHANGED <<queue, mutex, job, ljob, hist>>

ListenerUnlock ==
    /\ lpc = "unlock"
    /\ mutex' = NULL /\ lpc' = "ready"
    /\ UNCHANGED <<queue, pc, job, ljob, hist>>

-----------------------------------------------------------------------------
\* activate_workers.  A worker takes no step once main has exited.
At(w, label) == pc[w] = label /\ lpc # "exit"
Goto(w, label) == pc' = [pc EXCEPT ![w] = label]

WorkerLock(w) ==
    /\ At(w, "lock") /\ mutex = NULL
    /\ mutex' = w /\ Goto(w, "check")
    /\ UNCHANGED <<queue, job, lpc, ljob, hist>>

\* while (Job_queue->size == 0) pthread_cond_wait(...)
WorkerCheck(w) ==
    /\ At(w, "check")
    /\ IF size = 0
       THEN mutex' = NULL /\ Goto(w, "wait")
       ELSE Goto(w, "take") /\ UNCHANGED mutex
    /\ UNCHANGED <<queue, job, lpc, ljob, hist>>

\* POSIX lets pthread_cond_wait return without a signal.
SpuriousWakeup(w) ==
    /\ At(w, "wait")
    /\ Goto(w, "woken")
    /\ UNCHANGED <<queue, mutex, job, lpc, ljob, hist>>

\* Mutant of WorkerReacquire: if instead of while, the queue is not tested again.
ReacquireNoRetest(w) ==
    /\ At(w, "woken") /\ mutex = NULL
    /\ mutex' = w /\ Goto(w, "take")
    /\ UNCHANGED <<queue, job, lpc, ljob, hist>>

\* pthread_cond_wait returns holding the mutex, back to the while test.
WorkerReacquire(w) ==
    /\ At(w, "woken") /\ mutex = NULL
    /\ mutex' = w /\ Goto(w, "check")
    /\ UNCHANGED <<queue, job, lpc, ljob, hist>>

\* Mutant of dequeue_job: the caller decrements size a second time.
DequeueDecrementsTwice(w) ==
    /\ job' = [job EXCEPT ![w] = head]
    /\ head' = next[head]
    /\ size' = size - 2
    /\ UNCHANGED <<tail, next>>

\* dequeue_job: unlink the head; tail is left as it is.
dequeue_job(w) ==
    /\ job' = [job EXCEPT ![w] = head]
    /\ head' = next[head]
    /\ size' = size - 1
    /\ UNCHANGED <<tail, next>>

\* if (Job_queue->size) job = dequeue_job(); otherwise job keeps its value.
WorkerTake(w) ==
    /\ At(w, "take")
    /\ IF size # 0
       THEN dequeue_job(w) /\ taken' = taken + 1
       ELSE UNCHANGED <<queue, job, taken>>
    /\ Goto(w, "unlock")
    /\ UNCHANGED <<mutex, lpc, ljob, log, runs>>

WorkerUnlock(w) ==
    /\ At(w, "unlock")
    /\ mutex' = NULL /\ Goto(w, "call")
    /\ UNCHANGED <<queue, job, lpc, ljob, hist>>

\* if (!job) continue;  job->exec_func(job->func_data)
WorkerCall(w) ==
    /\ At(w, "call")
    /\ IF job[w] = NULL
       THEN Goto(w, "lock") /\ UNCHANGED runs
       ELSE Goto(w, "exec") /\ runs' = [runs EXCEPT ![job[w]] = @ + 1]
    /\ UNCHANGED <<queue, mutex, job, lpc, ljob, log, taken>>

\* exec_func returned; job still holds the old pointer.
WorkerReturn(w) ==
    /\ At(w, "exec")
    /\ Goto(w, "lock")
    /\ UNCHANGED <<queue, mutex, job, lpc, ljob, hist>>

-----------------------------------------------------------------------------
ListenerNext ==
    \/ CreateFails
    \/ \E w \in Workers : CreateWorker(w)
    \/ \E j \in Jobs : AddJob(j)
    \/ ListenerLock
    \/ ListenerEnqueue
    \/ ListenerCallocFails
    \/ ListenerSignal
    \/ ListenerUnlock

WorkerNext(w) ==
    \/ WorkerLock(w)
    \/ WorkerCheck(w)
    \/ SpuriousWakeup(w)
    \/ WorkerReacquire(w)
    \/ WorkerTake(w)
    \/ WorkerUnlock(w)
    \/ WorkerCall(w)
    \/ WorkerReturn(w)

Next == ListenerNext \/ \E w \in Workers : WorkerNext(w)

Spec == Init /\ [][Next]_vars

(***************************************************************************)
(* A thread that can run keeps running (weak fairness); a thread that      *)
(* waits for the mutex gets it if it is released again and again (strong   *)
(* fairness).  Nothing is assumed of spurious wake-ups, of new jobs, or of *)
(* exec_func: thread_job waits for its client without a timeout, so that   *)
(* WorkerReturn may never happen.                                          *)
(***************************************************************************)
Fairness ==
    /\ WF_vars(\E w \in Workers : CreateWorker(w))
    /\ SF_vars(ListenerLock)
    /\ WF_vars(ListenerEnqueue)
    /\ WF_vars(ListenerCallocFails)
    /\ WF_vars(ListenerSignal)
    /\ WF_vars(ListenerUnlock)
    /\ \A w \in Workers :
        /\ SF_vars(WorkerLock(w))
        /\ SF_vars(WorkerReacquire(w))
        /\ WF_vars(WorkerCheck(w))
        /\ WF_vars(WorkerTake(w))
        /\ WF_vars(WorkerUnlock(w))
        /\ WF_vars(WorkerCall(w))

FairSpec == Spec /\ Fairness

-----------------------------------------------------------------------------
TypeOK ==
    /\ head \in Jobs \cup {NULL} /\ tail \in Jobs \cup {NULL} /\ size \in Nat
    /\ next \in [Jobs -> Jobs \cup {NULL}]
    /\ mutex \in Workers \cup {Listener, NULL}
    /\ pc \in [Workers -> WorkerPC]
    /\ job \in [Workers -> Jobs \cup {NULL}]
    /\ lpc \in ListenerPC /\ ljob \in Jobs \cup {NULL}
    /\ log \in Seq(Jobs) /\ taken \in Nat
    /\ runs \in [Jobs -> Nat]

(***************************************************************************)
(* The linked list is at every moment the queue of the jobs enqueued and   *)
(* not dequeued: size counts them, head starts the chain of next fields,   *)
(* the chain visits them in order and ends in NULL at tail.  This is what  *)
(* enqueue_job and dequeue_job rely on, although dequeue_job never resets  *)
(* tail.                                                                   *)
(***************************************************************************)
QueueShape ==
    /\ taken + size = Len(log)
    /\ head = IF size = 0 THEN NULL ELSE log[taken + 1]
    /\ size # 0 => tail = log[Len(log)]
    /\ \A i \in taken + 1 .. Len(log) :
           next[log[i]] = IF i = Len(log) THEN NULL ELSE log[i + 1]

\* Worker w is past dequeue_job and has not come back from exec_func.
Busy(w) == pc[w] \in {"unlock", "call", "exec"}

(***************************************************************************)
(* Every job is run by one worker, at most once: no job is handed to two   *)
(* workers, and the stale pointer a worker keeps in its local variable job *)
(* is never run again (thread_job closes a descriptor, so a second run     *)
(* would close somebody else's connection).                                *)
(***************************************************************************)
RunsOnce ==
    /\ \A j \in Jobs : runs[j] <= 1
    /\ \A v, w \in Workers : v # w /\ Busy(v) /\ Busy(w) => job[v] # job[w]

(***************************************************************************)
(* The inductive invariant: who owns the mutex, what is known of a job     *)
(* that is not enqueued yet, and what a worker between dequeue_job and the *)
(* return of exec_func holds.                                              *)
(***************************************************************************)
LockOwnership ==
    /\ \A w \in Workers : pc[w] \in {"check", "take", "unlock"} <=> mutex = w
    /\ lpc \in {"enqueue", "signal", "unlock"} => mutex = Listener

FreshJobs ==
    /\ lpc \in {"lock", "enqueue"} => ljob \in Jobs \ Enqueued
    /\ \A i, k \in 1 .. Len(log) : log[i] = log[k] => i = k
    /\ \A j \in Jobs \ Enqueued : next[j] = NULL /\ runs[j] = 0
    /\ \A i \in taken + 1 .. Len(log) : runs[log[i]] = 0

HeldJobs ==
    \A w \in Workers :
        /\ pc[w] = "take" => size # 0
        /\ Busy(w) => \E k \in 1 .. taken : job[w] = log[k]
        /\ pc[w] \in {"unlock", "call"} => runs[job[w]] = 0

PoolInv ==
    /\ TypeOK
    /\ LockOwnership
    /\ QueueShape
    /\ FreshJobs
    /\ HeldJobs
    /\ RunsOnce

\* Workers that will test the queue again before they sleep.
Contenders == {w \in Workers : pc[w] \in {"lock", "woken", "check", "take"}}

(***************************************************************************)
(* One pthread_cond_signal per job is enough: while some worker sleeps in  *)
(* pthread_cond_wait, at least as many other workers are on their way to   *)
(* the queue as there are jobs in it (the one about to be signalled        *)
(* counts).  So no job waits for a busy worker while an idle one sleeps.   *)
(***************************************************************************)
NoIdleSleeper ==
    Waiting # {} =>
        Cardinality(Contenders) + (IF lpc = "signal" THEN 1 ELSE 0) >= size

\* The listener has left add_job_to_pool with _mutex_lock.
MutexLost == mutex = Listener /\ lpc \in {"ready", "lock"}

\* Every worker is inside of exec_func.
AllBusy == \A w \in Workers : pc[w] = "exec"

(***************************************************************************)
(* Every job the listener enqueues is eventually run, whatever the         *)
(* interleaving of workers, spurious wake-ups and further jobs, unless the *)
(* allocation of a later job's node fails (the early return of             *)
(* add_job_to_pool at thread_pool.c:155 keeps the mutex), or from some     *)
(* moment on all workers at once are held by jobs that do not come back.   *)
(* As long as one worker comes back, the others may be held for ever.      *)
(***************************************************************************)
EveryJobRuns == \A j \in Jobs : (j \in Enqueued) ~> (runs[j] = 1 \/ MutexLost \/ []AllBusy)

\* The pool is the FIFO of jobs and the one-job-at-a-time workers of JobPool.
AbstractPending == SubSeq(log, taken + 1, Len(log))
AbstractRunning == [w \in Workers |-> IF Busy(w) THEN job[w] ELSE NULL]

Pool == INSTANCE JobPool WITH pending <- AbstractPending, running <- AbstractRunning

(***************************************************************************)
(* The mutex, the condition variable and the linked list implement         *)
(* JobPool: ListenerEnqueue is Submit, WorkerTake is Start, WorkerReturn   *)
(* is Finish, and every other step is invisible.                           *)
(***************************************************************************)
ImplementsJobPool == Pool!Spec

(***************************************************************************)
(* add_job_to_pool gives the mutex back: between two calls the listener    *)
(* does not own _mutex_lock.  Violated on the path where tc_calloc fails.  *)
(***************************************************************************)
MutexReturned == ~MutexLost
=============================================================================
