\* Two workers, three jobs that are enqueued and one that meets the failing
\* allocation: both workers can be busy, for ever or not, while a job waits.
SPECIFICATION FairSpec
CONSTANTS
    Workers = {w1, w2}
    Jobs = {j1, j2, j3, j4}
    Listener = listener
    NULL = null
    CallocFails = {j4}
INVARIANT TypeOK
INVARIANT QueueShape
INVARIANT RunsOnce
INVARIANT PoolInv
INVARIANT NoIdleSleeper
PROPERTY ImplementsJobPool
PROPERTY EveryJobRuns
\* main exits when pthread_create fails, and the failing allocation blocks all.
CHECK_DEADLOCK FALSE
