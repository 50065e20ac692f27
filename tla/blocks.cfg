SPECIFICATION Spec
CONSTANTS
  INODE_TABLE_SIZE = 4
  DATA_BLOCKS = 5
  MAX_OPEN_FILES = 2
  BLOCK_SIZE = 2
  NDIRECT = 1
  MAX_DIR_ENTRIES = 2
  Data = {6, 7}
  LargeWrites = FALSE
  f = f
  g = g
  extra = extra
  NoName = NoName
  Names <- ThreeNames
  Lens <- FewLens
  Flags <- NoTrunc
VIEW Tables
SYMMETRY NamesAlike
INVARIANT TypeOK
INVARIANT NoBlockShared
PROPERTY OneFileNeverHangs
PROPERTY CopyIsWhole
PROPERTY IsFileStore
CHECK_DEADLOCK FALSE
