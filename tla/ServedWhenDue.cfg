SPECIFICATION Spec
CONSTANTS
  TickUs = 3
  Slice = 2
  WakeSlots = 2
  Waits = {0, 1, 2, 4}
  Delays = {2, 4}
  Ahead = {0, 1, 2}
  MaxIsr = 1
  Horizon = 9
  MaxCount = 1
PROPERTIES ServedWhenDue
