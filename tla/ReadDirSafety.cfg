\* Directories of up to ten entries, a file list that grows twice, a buffer of four.
SPECIFICATION Spec
CONSTANTS
    NULL = null
    DocSize = 2
    Batch = 4
    MaxDir = 10
INVARIANT TypeOK
INVARIANT SlotPerDocument
INVARIANT NamesUntilRefill
CHECK_DEADLOCK FALSE
