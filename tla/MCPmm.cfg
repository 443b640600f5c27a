SPECIFICATION PmmSpec
CONSTANTS
  BlockSize = 4
  BlocksPerByte = 2
  WordBits = 4
  UintLimit = 256
  KernelEnd = 15
  MemoryMaps <- AllMaps
INVARIANTS
  Accounting
  BitmapIsExact
  HeldIsUsableRam
