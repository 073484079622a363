SPECIFICATION Spec
CONSTANTS
  NULL = NULL
  PAGEHEAPSIZE = 3
  SYSPAGES = 4
  SPANPOOLSIZE = 1
  ChunkSpans = 4
  PAGEINBYTES = 2
  Requests = {3, 4, 7, 8, 11}
  MaxPages = 12
  MaxSpans = 8
CHECK_DEADLOCK FALSE
INVARIANTS
  TypeOK
  PagesPartitioned
  MapNamesOwner
  ShortByARest
