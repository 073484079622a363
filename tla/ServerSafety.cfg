\* Two workers and two descriptors for three clients, one of which may be killed.
SPECIFICATION Spec
CONSTANTS
    Workers = {w1, w2}
    c1 = c1
    c2 = c2
    c3 = c3
    Clients = {c1, c2, c3}
    OneWrite = {c2}
    Stalled = {}
    Requests = 1
    listenfd = 4
    LastFd = 6
    Query <- MCQuery
    Index <- MCIndex
    Empty = "empty"
    MaxAborts = 1
    NULL = null
SYMMETRY WorkerSymmetry
INVARIANT TypeOK
INVARIANT OneOwner
INVARIANT SelectSetValid
INVARIANT OwnReply
CHECK_DEADLOCK FALSE
