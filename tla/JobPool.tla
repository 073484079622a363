------------------------------ MODULE JobPool ------------------------------
(***************************************************************************)
(* What the thread pool of thread_pool.c promises the event loop: jobs are *)
(* started in the order in which add_job_to_pool was called, each by one   *)
(* idle worker, and a worker runs one job at a time.  ThreadPool is the    *)
(* implementation (mutex, condition variable, linked list) and is shown to *)
(* refine this module; Server composes this module with the event loop.    *)
(***************************************************************************)
EXTENDS Sequences

CONSTANTS Workers,  \* the threads created by init_pool
          Jobs,     \* the job_t values handed to add_job_to_pool
          NULL      \* a worker that runs nothing

VARIABLES pending,  \* jobs accepted and not started, oldest first
          running   \* running[w]: the job worker w is executing, or NULL

vars == <<pending, running>>

Init ==
    /\ pending = <<>>
    /\ running = [w \in Workers |-> NULL]

\* add_job_to_pool: the job becomes the youngest pending one.
Submit(j) ==
    /\ pending' = Append(pending, j)
    /\ UNCHANGED running

\* dequeue_job by an idle worker: it gets the oldest pending job.
Start(w) ==
    /\ pending # <<>>
    /\ running[w] = NULL
    /\ running' = [running EXCEPT ![w] = Head(pending)]
    /\ pending' = Tail(pending)

\* exec_func returned; the worker goes back to the queue.
Finish(w) ==
    /\ running[w] # NULL
    /\ running' = [running EXCEPT ![w] = NULL]
    /\ UNCHANGED pending

Next ==
    \/ \E j \in Jobs : Submit(j)
    \/ \E w \in Workers : Start(w) \/ Finish(w)

Spec == Init /\ [][Next]_vars
=============================================================================
