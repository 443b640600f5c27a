SPECIFICATION Spec
CONSTANTS
  MaxFiles = 4
  DataSectors = 1
  SectorSize = 1
  ArgName = {"vault", ".."}
  LongName = {}
  Buffer <- OneByte
  DefaultDirs <- TwoDirs
INVARIANTS
  UniqueNames
  CwdReachesRoot
PROPERTY ImplementsNamespace
