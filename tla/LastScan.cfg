SPECIFICATION Safety
CONSTANTS
  Samples = 3
  CounterLimit = 6
  Buffers <- FullScans
  MaxRows = 6
INVARIANT
  OneLinePerScan
