SPECIFICATION Safety
CONSTANTS
  Apids <- MCApids
  Entries <- MCEntries
  Instruments <- MCInstruments
  Inputs <- SmallInputs
INVARIANT
  FileNamedForInstrument
