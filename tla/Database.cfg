SPECIFICATION Spec
CONSTANTS
  Mnemonics <- MCMnemonics
  HeaderMnemonics <- MCHeaderMnemonics
  Apids <- MCApids
  Inputs <- MCInputs
INVARIANTS
  EveryWantedRowServed
  ServedInPacketOrder
  MissingMeansNoRow
  OnlyBadFilesEndIt
