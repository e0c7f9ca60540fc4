SPECIFICATION HostPartsSpec
CONSTANTS
  Loops = {0, 1, 2}
  MaxCount = 4
  Functions = {f, g}
  Slots = 3
  MaxRejected = 2
INVARIANTS TypeOK WindowSpansLoops ListenersTypeOK SteadyIsCalled
PROPERTIES ArmedCloses
