SPECIFICATION Spec
CONSTANTS
  c1 = c1  c2 = c2  k1 = k1  v1 = v1  v2 = v2
  Clients = {c1, c2}
  Keys = {k1}
  Scripts <- MCScripts
  MaxFrames = 3
  Holder <- Places
  Addr <- MCAddr
  RcMod = 16
INVARIANTS RcExact IdleHoldsNothing RepliesInOrder PanicNeedsMalformed
PROPERTY EveryFrameAnswered
CHECK_DEADLOCK FALSE
