SPECIFICATION MCSpec
CONSTANTS
  ra = ra  rb = rb  rc = rc
  Nil = Nil
  Collection = Collection
  Root = 0
  Idx = {1, 2, 3, 4, 5, 6}
  Candidates <- Lowest
  Keys <- KeysDeep
  PrefixArgs <- PrefixDeep
  Vals = {v1, v2}
  Ttls = {1}
  Volatile <- KeysDeep
  Counted <- NoKeys
  NoExpiracy = 9
  Deltas <- NoSteps
  MinInt <- Least
  MaxInt = 1
  MaxNow = 2
  ChildsSize = 2
  Commands <- WithTtl
INVARIANTS WellLinked Compressed
PROPERTY ImplementsMap
VIEW ShapeView
