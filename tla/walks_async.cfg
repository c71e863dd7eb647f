SPECIFICATION WalksSpec
CONSTANTS
  ra = ra  rb = rb  rc = rc
  Nil = Nil
  Collection = Collection
  Root = 0
  Idx = {1, 2, 3, 4, 5}
  Candidates <- Lowest
  Keys <- KeysFork
  PrefixArgs <- PrefixDeep
  Vals = {v1}
  Ttls = {}
  NoExpiracy = 9
  Deltas <- NoSteps
  MinInt <- Least
  MaxInt = 0
  MaxNow = 0
  ChildsSize = 2
  Commands <- Walking
  Workers = {w1, w2}
  Budget = 1
  Scanners = {w1}
INVARIANTS SeveredApart
PROPERTIES ChunksSpareEntries UnlinkHidesPrefix UnlinkCounts KeysComplete KeysSound WalksEnd
VIEW LinksView
