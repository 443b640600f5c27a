SPECIFICATION CommandsSpec
CONSTANTS
  MaxFiles = 3
  DataSectors = 2
  SectorSize = 2
  ArgName = {"a", "p.bdx", "long", ".", "..", "other"}
  LongName = {"long"}
  Buffer <- AllBuffers
  DefaultDirs <- NoDirectories
  StackSize = 4
  PostfixSize = 14
  IntLimit = 128
  EnteredLines <- FileLines
  FreshLines <- FewLines
  EditBuffers <- Saves
  CellOf <- Cells
  BufferSize = 3
INVARIANTS
  CalcIsRight
  OverrunsNeedLength
PROPERTIES
  MessagesAreTrue
  WritesTheRest
  ShellKeepsToBdfs
