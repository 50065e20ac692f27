SPECIFICATION Spec
CONSTANTS
  INODE_TABLE_SIZE = 3
  DATA_BLOCKS = 3
  MAX_OPEN_FILES = 2
  BLOCK_SIZE = 2
  MAX_DIR_ENTRIES = 2
  SIZE_MOD = 1024
  MaxLen = 2
  OffsetBound = 3
  Data = {1}
  UseAfterClose = FALSE
  TruncateOpen = FALSE
  f = f
  g = g
  long1 = long1
  long2 = long2
  NoName = NoName
  Names <- MCNames
  LongNames <- MCLongNames
  Prefix <- MCPrefix
  Paths <- DocumentedPaths
INVARIANT OffsetsWithinFiles
PROPERTY ReadStopsAtSize
