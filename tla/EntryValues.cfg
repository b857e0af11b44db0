SPECIFICATION DecodingSpec
CONSTANT
  Decodings <- MCDecodings
INVARIANTS
  OwnBytesOnly
  FieldsOfPacket
  EntriesInside
  SaneEntriesDecoded
