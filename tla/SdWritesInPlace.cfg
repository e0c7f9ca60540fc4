SPECIFICATION SdSpec
CONSTANTS
  Horizon = 4
  MaxLevel = 1
  SdBlocks = 2
  SdBlockSize = 1
  SdByte = 2
  SdWriteUs = 3
PROPERTY SdWritesInPlace
