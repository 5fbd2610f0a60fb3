CONSTANTS
  SS = 4
  SZ_DIR = 2
  MIN_FAT16 = 6
  MIN_FAT32 = 8
  CHUNK_SIZE = 5
  MaxReads = 4
  MaxMounts = 2
  Cards <- MCCards
  Spares <- MCSpares
  Paths <- MCPaths
  DirPaths <- MCDirPaths
  Lengths <- MCLengths
  Offsets <- MCOffsets
  BootPath <- MCBootPath
  Memory <- MCMemory
SPECIFICATION Spec
INVARIANTS
  FilesTrue
  BootTrue
