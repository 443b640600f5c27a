SPECIFICATION Spec
CONSTANTS
  MaxFiles = 3
  DataSectors = 4
  SectorSize = 2
  ArgName = {"a", "b", "long"}
  LongName = {"long"}
  Buffer <- Buffers
  DefaultDirs <- NoDirs
INVARIANTS
  TypeOK
  ExtentsDisjoint
  ExtentsInBounds
  ContentIntegrity
  ReloadIsCurrent
