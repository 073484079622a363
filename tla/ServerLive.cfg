\* Two clients with two requests each; c2 may stall for ever, nobody is killed.
SPECIFICATION FairSpec
CONSTANTS
    Workers = {w1, w2}
    c1 = c1
    c2 = c2
    c3 = c3
    Clients = {c1, c2}
    OneWrite = {c1}
    Stalled = {c2}
    Requests = 2
    listenfd = 4
    LastFd = 6
    Query <- MCQuery
    Index <- MCIndex
    Empty = "empty"
    MaxAborts = 0
    NULL = null
PROPERTY EveryRequestAnswered
CHECK_DEADLOCK FALSE
