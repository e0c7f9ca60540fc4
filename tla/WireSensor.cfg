SPECIFICATION WireSpec
CONSTANTS
  MeasureUs = 2
  Registers = {"id", "temp"}
  Values = {0}
  Horizon = 3
  MaxLevel = 2
  Buses = {0, 1}
  Addresses = {"A", "B"}
  WireSlots = 3
  SensorBus = 0
  SensorAddress = "A"
INVARIANTS WireTypeOK NeverAnothersRegister UndisturbedIsSupplied
PROPERTIES EndsWhenDue
