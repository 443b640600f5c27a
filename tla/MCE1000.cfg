SPECIFICATION E1000Spec
CONSTANTS
  Entries = 8
  Frames <- Ram
  PdFrame = 1
  PtFrame = 2
  FreeSets <- PmmStates
  StaleFrame = 0
  PageUnits = 16
  HEAP_START = 128
  HEAP_END = 230
  Bars <- CardBars
  MmioPages = 2
  RX_DESC_COUNT = 2
  TX_DESC_COUNT = 1
  DescUnits = 1
  MaxCards = 2
CHECK_DEADLOCK FALSE
INVARIANTS
  E1000TypeOK
  NoPageFault
  OneUsePerFrame
  CardsStayInformed
PROPERTY
  ImplementsAddressSpace
