SPECIFICATION Spec
CONSTANTS
  Apids <- MCApids
  Entries <- MCEntries
  HKLength <- MCHKLength
  Garbage <- MCGarbage
  Items <- MCItems
  MaxPackets = 3
INVARIANTS
  HeadersAtPackets
  TurnAgreesWithDecoding
  WholeItemRead
  NothingReadBehindEnd
PROPERTY
  LoopEnds
