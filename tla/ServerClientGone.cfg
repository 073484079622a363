\* Two clients, one of which may be killed in mid-request.
SPECIFICATION FairSpec
CONSTANTS
    Workers = {w1, w2}
    c1 = c1
    c2 = c2
    c3 = c3
    Clients = {c1, c2}
    OneWrite = {c1}
    Stalled = {}
    Requests = 1
    listenfd = 4
    LastFd = 6
    Query <- MCQuery
    Index <- MCIndex
    Empty = "empty"
    MaxAborts = 1
    NULL = null
PROPERTY EveryRequestAnswered
CHECK_DEADLOCK FALSE
