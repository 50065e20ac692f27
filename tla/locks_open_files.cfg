SPECIFICATION FairSpec
CONSTANTS
  t1 = t1
  t2 = t2
  f = f
  g = g
  extra = extra
  NoThread = NoThread
  NoName = NoName
  Threads <- TwoThreads
  Names <- ThreeNames
  Calls <- OpenCalls
  INODE_TABLE_SIZE = 5
  DATA_BLOCKS = 2
  MAX_OPEN_FILES = 3
  MAX_DIR_ENTRIES = 2
PROPERTY OpensReturn
CHECK_DEADLOCK FALSE
