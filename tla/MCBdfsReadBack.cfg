SPECIFICATION Spec
CONSTANTS
  MaxFiles = 3
  DataSectors = 4
  SectorSize = 2
  ArgName = {"a", "b"}
  LongName = {}
  Buffer <- Buffers
  DefaultDirs <- NoDirs
INVARIANT
  ReadBack
