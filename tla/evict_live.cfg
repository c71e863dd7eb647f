SPECIFICATION MCSpec
CONSTANTS
  ra = ra  rb = rb  rc = rc
  Nil = Nil
  Collection = Collection
  Root = 0
  Idx = {1, 2, 3, 4, 5, 6}
  Candidates <- Lowest
  Keys <- KeysChain
  PrefixArgs <- PrefixNone
  Vals = {v1}
  Ttls = {1}
  Volatile <- KeysChain
  Counted <- NoKeys
  NoExpiracy = 9
  Deltas <- NoSteps
  MinInt <- Least
  MaxInt = 1
  MaxNow = 2
  ChildsSize = 2
  Commands <- Evicting
PROPERTY EvictionSparesLiveKeys
VIEW FullView
