SPECIFICATION FairSpec
CONSTANTS
  c1 = c1
  c2 = c2
  NoClient = NoClient
  MAX_OPEN_FILES = 2
  PipeRoom = 2
  Clients <- OneClient
  ClientCalls <- AllCalls
  ClientsDie = TRUE
INVARIANT TypeOK
INVARIANT AnswersMatchCalls
PROPERTY CallsReturn
PROPERTY CarefulClientsKeepTheServer
CHECK_DEADLOCK FALSE
