SPECIFICATION AsyncSpec
CONSTANTS
  ra = ra  rb = rb  rc = rc
  Nil = Nil
  Collection = Collection
  Root = 0
  Idx = {1, 2, 3, 4, 5, 6}
  Candidates <- Lowest
  Keys <- KeysFlat
  PrefixArgs <- PrefixAll
  Vals = {v1}
  Ttls = {1}
  NoExpiracy = 9
  Deltas <- NoSteps
  MinInt <- Least
  MaxInt = 0
  MaxNow = 2
  ChildsSize = 3
  Commands <- Expiring
  Workers = {w1}
  Budget = 1
  Scanners = {}
PROPERTY ChunksSpareEntries
VIEW AsyncView
