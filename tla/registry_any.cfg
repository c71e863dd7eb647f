SPECIFICATION RegistrySpec
CONSTANTS
  Clients = {c1, c2}
  Channels = {ch1, ch2}
  Nil = Nil
  Disciplined = FALSE
  SendMayFail = TRUE
  TaskMayFail = TRUE
  MaxMessages = 3
  MaxCommands = 3
  Data = {1, 2, 3, 4, 5, 6}
  Nothing = Nothing
  Sentinel = 2
  GenMod = 5
  Capacity = 1
  WrapGen = FALSE
INVARIANTS WriteHalfOwned NothingLostOrDoubled FreeListComplete SubIdsResolve
PROPERTY ImplementsPool
SYMMETRY Symmetry
VIEW RegistryView
CHECK_DEADLOCK FALSE
