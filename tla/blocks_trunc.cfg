SPECIFICATION Spec
CONSTANTS
  INODE_TABLE_SIZE = 4
  DATA_BLOCKS = 6
  MAX_OPEN_FILES = 2
  BLOCK_SIZE = 2
  NDIRECT = 1
  MAX_DIR_ENTRIES = 2
  Data = {3}
  LargeWrites = FALSE
  f = f
  g = g
  extra = extra
  NoName = NoName
  Names <- ThreeNames
  Lens <- SomeLens
  Flags <- AllFlags
PROPERTY TruncEmpties
CHECK_DEADLOCK FALSE
