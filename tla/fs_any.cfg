SPECIFICATION Spec
CONSTANTS
  INODE_TABLE_SIZE = 4
  DATA_BLOCKS = 2
  MAX_OPEN_FILES = 2
  BLOCK_SIZE = 2
  MAX_DIR_ENTRIES = 2
  SIZE_MOD = 1024
  MaxLen = 2
  OffsetBound = 2
  Data = {1, 2}
  UseAfterClose = TRUE
  TruncateOpen = TRUE
  f = f
  g = g
  long1 = long1
  long2 = long2
  NoName = NoName
  Names <- MCNames
  LongNames <- MCLongNames
  Prefix <- MCPrefix
  Paths <- ShortPaths
VIEW Tables
INVARIANT TypeOK
INVARIANT BlocksAccounted
INVARIANT DirectoryMatchesInodes
INVARIANT OpenFilesCounted
PROPERTY IsFileStore
CHECK_DEADLOCK FALSE
