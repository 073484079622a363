SPECIFICATION Spec
CONSTANTS
  NULL = NULL
  t1 = t1
  t2 = t2
  Threads <- MCThreads
  Spans = {1, 2, 3, 4, 5, 6, 7, 8}
  NClasses = 1
  Doubling = {1}
  ObjsPerSpan <- MCObjsPerSpan
  MAXFETCHSIZE = 2
  MaxOps = 6
  MaxLarge = 1
SYMMETRY MCSymmetry
INVARIANT FreeObjectsFound
