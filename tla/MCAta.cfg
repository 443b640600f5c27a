SPECIFICATION AtaSpec
CONSTANTS
  Radix = 2
  HeadRadix = 2
  Words = 2
  Lbas = {2, 12, 18}
  Data = {"a", "b", "c"}
  Buffers <- TwoBuffers
INVARIANTS
  NotLeftHalfway
  SuccessIsTrue
PROPERTIES
  OnlyTheSectorAskedFor
  CallsReturn
