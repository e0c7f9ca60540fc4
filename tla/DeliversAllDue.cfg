SPECIFICATION GpsSpec
CONSTANTS
  Horizon = 5
  MaxLevel = 1
  GpsPeriodUs = 2
PROPERTY GpsDeliversAllDue
