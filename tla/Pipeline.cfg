SPECIFICATION Spec
CONSTANTS
  Apids <- MCApids
  Entries <- MCEntries
  Instruments <- MCInstruments
  Inputs <- MCInputs
INVARIANTS
  RowsThenQueue
  FormatSeesWholeFiles
  JoinOnlyAfterLastItem
  ApidReferenceAlive
  RowsInInputOrder
PROPERTIES
  RunEnds
  ImplementsDelivery
