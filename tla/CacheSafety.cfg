SPECIFICATION Spec
CONSTANTS
  NULL = NULL
  t1 = t1
  t2 = t2
  Threads <- MCThreads
  Spans = {1, 2, 3, 4, 5, 6, 7}
  NClasses = 2
  Doubling = {1}
  ObjsPerSpan <- MCObjsPerSpan
  MAXFETCHSIZE = 2
  MaxOps = 5
  MaxLarge = 1
SYMMETRY MCSymmetry
INVARIANTS
  TypeOK
  OneHolder
  RefcountExact
  RingsSound
  CacheBounded
PROPERTY ImplementsBlockStore
