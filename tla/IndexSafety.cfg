\* Three words in a table of three slots, so that it grows and words run off its end.
SPECIFICATION Spec
CONSTANTS
    NULL = null
    Words = {wa, wb, wc}
    TableSize = 3
    LIST_SIZE = 2
    Hashes <- MCHashes
    MaxTokens = 5
    MaxDocs = 2
    MaxLines = 2
SYMMETRY WordSymmetry
INVARIANT TypeOK
INVARIANT ExactUntilGrowth
INVARIANT AnswersSound
CHECK_DEADLOCK FALSE
