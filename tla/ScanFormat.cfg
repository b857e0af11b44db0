SPECIFICATION Spec
CONSTANTS
  Samples = 3
  CounterLimit = 6
  Buffers <- MCBuffers
  MaxRows = 8
INVARIANTS
  SamplesInPlace
  LinesInOrder
PROPERTY
  EveryScanWritten
