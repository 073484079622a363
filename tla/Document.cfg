\* Every document of up to eight characters, read in pieces of up to five.
SPECIFICATION FairSpec
CONSTANTS
    max_len = 6
    MAX_WORD_LEN = 4
    MaxText = 8
INVARIANT TypeOK
INVARIANT OnlyLastWrong
INVARIANT LineNumbers
INVARIANT ShortLinesExact
INVARIANT CopiesFit
PROPERTY DocumentEnds
CHECK_DEADLOCK FALSE
