SPECIFICATION FairSpec
CONSTANTS
  t1 = t1
  t2 = t2
  f = f
  g = g
  extra = extra
  NoThread = NoThread
  NoName = NoName
  Threads <- TwoThreads
  Names <- TwoNames
  Calls <- AllCalls
  INODE_TABLE_SIZE = 4
  DATA_BLOCKS = 2
  MAX_OPEN_FILES = 2
  MAX_DIR_ENTRIES = 2
INVARIANT TypeOK
INVARIANT DirectoryMatches
INVARIANT FilesExclusive
INVARIANT NoBlockShared
PROPERTY CallsReturn
PROPERTY OnlyRacesDuplicateNames
CHECK_DEADLOCK FALSE
