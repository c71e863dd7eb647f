SPECIFICATION FairSpec
CONSTANTS
  Clients = {c1, c2}
  Channels = {ch1, ch2}
  Nil = Nil
  Disciplined = TRUE
  SendMayFail = FALSE
  TaskMayFail = TRUE
  MaxMessages = 2
  MaxCommands = 3
INVARIANTS RegistryConsistent NothingStranded CleanedUp
PROPERTIES EventuallyReceived FailureIsCleaned
CHECK_DEADLOCK FALSE
