SPECIFICATION Spec
CONSTANTS
  Clients = {c1, c2}
  Channels = {ch1}
  Nil = Nil
  Disciplined = TRUE
  SendMayFail = FALSE
  TaskMayFail = FALSE
  MaxMessages = 2
  MaxCommands = 3
INVARIANT MessagesInOrder
SYMMETRY Symmetry
CHECK_DEADLOCK FALSE
