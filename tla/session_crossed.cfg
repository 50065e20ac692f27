SPECIFICATION Spec
CONSTANTS
  c1 = c1
  c2 = c2
  NoClient = NoClient
  MAX_OPEN_FILES = 2
  PipeRoom = 2
  Clients <- TwoClients
  ClientCalls <- PlainCalls
  ClientsDie = FALSE
INVARIANT AnswersReachTheAsker
CHECK_DEADLOCK FALSE
