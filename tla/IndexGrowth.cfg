\* The smallest table that grows.
SPECIFICATION Spec
CONSTANTS
    NULL = null
    Words = {wa, wb, wc}
    TableSize = 3
    LIST_SIZE = 2
    Hashes <- MCHashes
    MaxTokens = 5
    MaxDocs = 2
    MaxLines = 2
SYMMETRY WordSymmetry
INVARIANT IndexComplete
CHECK_DEADLOCK FALSE
