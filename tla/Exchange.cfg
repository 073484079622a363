\* Two requests of either client over sockets that hold three bytes.
SPECIFICATION FairSpec
CONSTANTS
    BASE = 5
    FIELD = 2
    DYN_SIZE = 5
    BUFSIZE = 5
    MAX_SIZE = 3
    Words <- MCWords
    Found <- MCFound
    Lines <- MCLines
    SockBuf = 3
    Requests = 2
INVARIANT TypeOK
INVARIANT ReplyExact
INVARIANT NotFoundIsAbsent
INVARIANT NoPhantomRequest
INVARIANT BuffersHold
PROPERTY ExchangeEnds
CHECK_DEADLOCK FALSE
