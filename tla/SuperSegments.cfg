SPECIFICATION Safety
CONSTANTS
  Apids <- MCApids
  Entries <- MCEntries
  HKLength <- MCHKLength
  Garbage <- MCGarbage
  Items <- SuperItems
  MaxPackets = 4
INVARIANT
  SuperHeadersAtPackets
