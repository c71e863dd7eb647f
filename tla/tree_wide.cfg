SPECIFICATION MCSpec
CONSTANTS
  ra = ra  rb = rb  rc = rc
  Nil = Nil
  Collection = Collection
  Root = 0
  Idx = {1, 2, 3, 4, 5, 6}
  Candidates <- Lowest
  Keys <- KeysWide
  PrefixArgs <- PrefixWide
  Vals <- Numerals
  Ttls = {0}
  Volatile <- Leaf
  Counted <- Numbers
  NoExpiracy = 9
  Deltas <- Steps
  MinInt <- Least
  MaxInt = 1
  MaxNow = 1
  ChildsSize = 1
  Commands <- NoDelete
INVARIANTS TypeOK WellLinked RootUncompressed
PROPERTIES ImplementsMap EvictionSparesLiveKeys
VIEW EvictView
