SPECIFICATION CatalogSpec
CONSTANTS
  Horizon = 4
  MaxLevel = 1
  Size = 2
  Values = {0, 255}
  Erased = 255
  ProgramUs = 3
  EraseUs = 4
  ImuDepth = 2
  ImuWatermark = 1
  ImuSampleUs = 1
  RtcWrap = 3
  RtcSecondUs = 1
  SonicDelayUs = 1
  SonicWidths = {0, 2}
  PirHoldUs = 2
  SdBlocks = 2
  SdBlockSize = 1
  SdByte = 2
  SdWriteUs = 3
  ShtDurations = {1, 2}
  ShtResetUs = 1
  ShtLimits = {0, 1}
  ShtMax = 3
  QmpConversions = {1, 2}
  QmpStandbys = {1}
  TapeSteps <- Steps
  ChunkMax = 3
  ChunkCaps = {0, 1, 2}
  ChunkGapUs = 1
  ChunkMessages = 2
  IrPeriodUs = 1
  IrRepeats = {1, 2, 3}
  LoraMaxBytes = 2
  LoraByteUs = 1
  UwbAnchors = {0, 1}
  UwbBaseUs = 1
  UwbSlotUs = 1
  ModbusMax = 3
  ModbusRequest = 2
  ModbusGapUs = 2
  GpsPeriodUs = 1
  ModemUs = 2
INVARIANTS
  CatalogTypeOK
  DueIsOwed
  KeepsSchedule
  ImuTellsTheTruth
  MessagesWhole
  ShtReadOnce
PROPERTIES
  KeepsArray
  WriteEndsWhenDue
  EndsOnTime
  SdWritesWhole
  TapeKeepsPace
