------------------------------ MODULE EntryValues ------------------------------
(***************************************************************************)
(* How DataDecode turns the bytes of a packet into the values of its       *)
(* database entries: the loop of decodeData, and the one of getOMPSScience *)
(* over the housekeeping, with loadData and getNum.                        *)
(*                                                                         *)
(* loadData leaves bytes and their number in members of DataDecode, where  *)
(* getNum finds them: whatever an entry does not load is still there from  *)
(* an entry before.                                                        *)
(***************************************************************************)
EXTENDS BitFields, Selection

CONSTANT
  Decodings  (* loop, database entries, bytes, and the offset of the first *)

Byte == SUBSET Low(8)

\* A row of the database as DatabaseReader reads it, the mnemonic aside.
DatabaseEntry == [type : {"NILL", "SIGNED", "UNSIGNED", "FLOAT"}, byte : Nat,
                  bits : Seq(Nat), length : Nat]

\* getOffset; getOMPSScience does not call it, and m_offset is still 0.
Offsets(loop) == IF loop = "packet" THEN {6, 14, 20} ELSE {0}

ASSUME InputAssumption ==
  \A in \in Decodings :
    /\ in.loop \in {"packet", "science"}
    /\ in.entries \in Seq(DatabaseEntry)
    /\ in.buf \in Seq(Byte)
    /\ in.m_offset \in Offsets(in.loop)

\* DatabaseReader::getEntries has sorted the entries.
Sorted(entries) ==
  \A i, j \in DOMAIN entries :
    i < j => \/ entries[i].byte < entries[j].byte
             \/ /\ entries[i].byte = entries[j].byte
                /\ BitLower(entries[i].bits) <= BitLower(entries[j].bits)

ASSUME SortAssumption == \A in \in Decodings : Sorted(in.entries)

VARIABLES
  packet,           (* the member of Decodings                             *)
  entryIndex,       (* the entry to decode next                            *)
  loaded,           (* m_initialByte, m_byte1, m_byte2 and m_byte3         *)
  m_numBytes,       (* 1 to 4, or another value before the first entry     *)
  data,             (* the Numerics: mnemonic, value and tag               *)
  segmentLastByte,  (* where decodeData would go on in the next segment    *)
  step,             (* loop, done, or terminated by an exception           *)
  decoded           (* history: the entries that are in data               *)

decodingVars == <<packet, entryIndex, loaded, m_numBytes, data, segmentLastByte,
                  step, decoded>>

\* The mnemonic of an entry is its number; 0 is the empty string.
NoMnemonic == 0
Tags == {"U32", "I32", "F64", "NILL"}
Numeric == [mnem : Nat, value : SUBSET Low(32), tag : Tags]

DecodingTypeOK ==
  /\ packet.entries \in Seq(DatabaseEntry)
  /\ packet.buf \in Seq(Byte)
  /\ entryIndex \in 1 .. Len(packet.entries) + 1
  /\ loaded \in [0 .. 3 -> Byte]
  /\ m_numBytes \in 0 .. 4
  /\ data \in Seq(Numeric)
  /\ segmentLastByte \in 0 .. Len(packet.entries)
  /\ step \in {"loop", "done", "terminated"}
  /\ decoded \in Seq(DOMAIN packet.entries)

\* The constructor does not initialise m_numBytes.
DecodingInit ==
  /\ packet \in Decodings
  /\ entryIndex = 1
  /\ loaded = [j \in 0 .. 3 |-> {}]
  /\ m_numBytes \in 0 .. 4
  /\ data = <<>>
  /\ segmentLastByte = 0
  /\ step = "loop"
  /\ decoded = <<>>

-----------------------------------------------------------------------------
(***************************************************************************)
(* loadData.  An entry before the offset gets an index near 2^32, which is *)
(* out of bounds.                                                          *)
(***************************************************************************)
At(e) == e.byte - packet.m_offset
Inside(e, n) == At(e) >= 0 /\ At(e) + n <= Len(packet.buf)
ByteOf(e, j) == packet.buf[At(e) + j + 1]

NumBytes(e) ==
  CASE e.length > 24 -> 4
    [] e.length \in 17 .. 24 -> 3
    [] e.length \in 9 .. 16 -> 2
    [] e.length <= 8 -> 1

LoadsData(e) == Inside(e, NumBytes(e))

\* Wrong: the last of several bytes is not loaded.
LoadedButLast(e) ==
  [j \in 0 .. 3 |->
     IF Inside(e, 1) /\ (j = 0 \/ (j < NumBytes(e) - 1 /\ LoadsData(e)))
     THEN ByteOf(e, j) ELSE loaded[j]]

\* The first byte is assigned before the others are compared with the bounds.
Loaded(e) ==
  [j \in 0 .. 3 |->
     IF \/ j = 0 /\ Inside(e, 1)
        \/ j < NumBytes(e) /\ LoadsData(e)
     THEN ByteOf(e, j) ELSE loaded[j]]
LoadedNumBytes(e) == IF LoadsData(e) THEN NumBytes(e) ELSE m_numBytes

-----------------------------------------------------------------------------
(***************************************************************************)
(* getNum.                                                                 *)
(***************************************************************************)
IsWhole(e) == BitLower(e.bits) = 0 /\ BitUpper(e.bits) = 0
Width(e) == BitUpper(e.bits) - BitLower(e.bits) + 1

\* static_cast<int16_t>, widened again.
SignExtend16(v) == IF 15 \in v THEN v \cup 16 .. 31 ELSE v

DecodeOne(e, b) ==
  LET lower == BitLower(e.bits)
  IN  CASE IsWhole(e) -> b[0]
        [] ~IsWhole(e) /\ e.type = "SIGNED" ->
             Extract8Signed(b[0], lower, BitUpper(e.bits) + 1)
        [] OTHER -> Extract8(b[0], lower, Width(e))

DecodeTwo(e, b) ==
  LET result == MergeBytes16(b[0], b[1])
      value == IF IsWhole(e) THEN result
               ELSE Extract16(result, BitLower(e.bits), Width(e))
  IN  IF e.type = "SIGNED" THEN SignExtend16(value) ELSE value

DecodeThree(e, b) ==
  LET result == MergeBytes3(b[0], b[1], b[2])
  IN  IF IsWhole(e) THEN result ELSE Extract32(result, BitLower(e.bits), Width(e))

\* The switch of getNum: four bytes are decoded by decodeThree.  Without a
\* case for m_numBytes, num keeps what it was allocated with.
DecodeBytes(e, b, n) ==
  CASE n = 1 -> {DecodeOne(e, b)}
    [] n = 2 -> {DecodeTwo(e, b)}
    [] n \in {3, 4} -> {DecodeThree(e, b)}
    [] OTHER -> {{}, Low(32)}

IntegerTag(e) == IF e.type = "SIGNED" THEN "I32" ELSE "U32"

\* Wrong: the length is not looked at.
EightBytes(e) == 8

\* getFloat takes eight bytes for length 64, else four.  Its result, which
\* rounds, is left out.  Neither the mnemonic nor the tag is set.
FloatBytes(e) == IF e.length = 64 THEN 8 ELSE 4

Numerics(k) ==
  LET e == packet.entries[k]
  IN  IF e.type = "FLOAT"
      THEN [mnem : {NoMnemonic}, value : {{}}, tag : Tags]
      ELSE [mnem : {k}, tag : {IntegerTag(e)},
            value : DecodeBytes(e, Loaded(e), LoadedNumBytes(e))]

\* An exception leaves getNum: at is out of bounds, or there are no digits.
Throws(e) ==
  LET digits(width, len) == ~IsWhole(e) /\ NoDigits(width, BitLower(e.bits), len)
  IN  \/ e.type = "FLOAT" /\ ~Inside(e, FloatBytes(e))
      \/ /\ e.type # "FLOAT"
         /\ \/ /\ LoadedNumBytes(e) = 1
               /\ e.type = "SIGNED" /\ digits(8, BitUpper(e.bits) + 1)
            \/ LoadedNumBytes(e) = 2 /\ digits(16, Width(e))
            \/ LoadedNumBytes(e) \in {3, 4} /\ digits(32, Width(e))

-----------------------------------------------------------------------------
(***************************************************************************)
(* The loops.                                                              *)
(***************************************************************************)
Current == packet.entries[entryIndex]

Load ==
  /\ step = "loop"
  /\ entryIndex <= Len(packet.entries)
  /\ loaded' = Loaded(Current)
  /\ m_numBytes' = LoadedNumBytes(Current)

\* Wrong: the loop ends with the first entry that is out of bounds.
StopAtEntry ==
  /\ Load
  /\ packet.loop = "packet" /\ ~LoadsData(Current)
  /\ step' = "done"
  /\ UNCHANGED <<packet, entryIndex, data, segmentLastByte, decoded>>

\* decodeData passes over an entry that is out of bounds.
SkipEntry ==
  /\ Load
  /\ packet.loop = "packet" /\ ~LoadsData(Current)
  /\ entryIndex' = entryIndex + 1
  /\ UNCHANGED <<packet, data, segmentLastByte, step, decoded>>

\* getOMPSScience does not look at the result of loadData.
DecodeEntry ==
  /\ Load
  /\ packet.loop = "science" \/ LoadsData(Current)
  /\ ~Throws(Current)
  /\ \E num \in Numerics(entryIndex) : data' = Append(data, num)
  /\ decoded' = Append(decoded, entryIndex)
  /\ entryIndex' = entryIndex + 1
  /\ UNCHANGED <<packet, segmentLastByte, step>>

Terminate ==
  /\ Load
  /\ packet.loop = "science" \/ LoadsData(Current)
  /\ Throws(Current)
  /\ step' = "terminated"
  /\ UNCHANGED <<packet, entryIndex, data, segmentLastByte, decoded>>

\* Only decodeData keeps the index it got to.
LeaveLoop ==
  /\ step = "loop"
  /\ entryIndex > Len(packet.entries)
  /\ segmentLastByte' = IF packet.loop = "packet" THEN entryIndex - 1 ELSE 0
  /\ step' = "done"
  /\ UNCHANGED <<packet, entryIndex, loaded, m_numBytes, data, decoded>>

Done == step \in {"done", "terminated"} /\ UNCHANGED decodingVars

DecodingNext == SkipEntry \/ DecodeEntry \/ Terminate \/ LeaveLoop \/ Done

DecodingSpec == DecodingInit /\ [][DecodingNext]_decodingVars

-----------------------------------------------------------------------------
(***************************************************************************)
(* Properties.  The bits of the packet are counted through, the most       *)
(* significant bit of its first byte being bit 0.                          *)
(***************************************************************************)
BitAt(k) == (7 - (k % 8)) \in packet.buf[k \div 8 + 1]

\* The unsigned value of the bits from first to last.
Field(first, last) == {last - k : k \in {d \in first .. last : BitAt(d)}}

RangeOf(e) ==
  LET start == 8 * At(e)
  IN  CASE e.bits = <<>> -> Field(start, start + 8 * NumBytes(e) - 1)
        [] Len(e.bits) = 1 -> Field(start + e.bits[1], start + e.bits[1])
        [] Len(e.bits) = 2 -> Field(start + e.bits[1], start + e.bits[2])

InPacket == packet.loop = "packet"
DecodedEntry(n) == packet.entries[decoded[n]]

\* The bits of an entry lie inside the bytes that are loaded for it.
Sane(e) ==
  /\ Len(e.bits) <= 2
  /\ Len(e.bits) = 2 => e.bits[1] < e.bits[2]
  /\ \A n \in DOMAIN e.bits : e.bits[n] < 8 * NumBytes(e)

IsInteger(e) == e.type # "FLOAT"
Unsigned(e) == IsInteger(e) /\ e.type # "SIGNED"

\* The value of an integer entry that could be loaded depends on the bytes of
\* this entry alone, though the members it is decoded from still hold bytes of
\* other entries.  So an entry of getOMPSScience that could not be loaded and was
\* decoded from what was left there spoils itself only.
OwnBytesOnly ==
  \A n \in DOMAIN decoded :
    LET e == DecodedEntry(n)
        own == [j \in 0 .. 3 |-> IF j < NumBytes(e) THEN ByteOf(e, j) ELSE {}]
    IN  LoadsData(e) /\ IsInteger(e) =>
          data[n].value \in DecodeBytes(e, own, NumBytes(e))

\* Unsigned values of whole bytes, up to three of them, and fields that lie
\* in two bytes are what the packet holds at these bits.
FieldsOfPacket ==
  \A n \in DOMAIN decoded :
    LET e == DecodedEntry(n)
    IN  /\ InPacket /\ Unsigned(e) /\ Sane(e)
        /\ \/ e.bits = <<>> /\ NumBytes(e) <= 3
           \/ Len(e.bits) = 2 /\ NumBytes(e) = 2
        => data[n].value = RangeOf(e)

\* In data are, in their order, the entries that lie inside the packet, an entry
\* that is passed over taking no later one with it; of getOMPSScience all, so that
\* the pixels behind them are in the same columns of every row.
Decodable == {k \in DOMAIN packet.entries : InPacket => LoadsData(packet.entries[k])}

EntriesInside ==
  step = "done" => decoded = Kept([k \in DOMAIN packet.entries |-> k], Decodable)

\* The single bit 1 of several bytes has a width of 0 - 1 + 1 = 0 bits.
Digitless(e) == e.bits = <<1>> /\ NumBytes(e) > 1

\* With sane entries nothing throws in decodeData, unless it is a floating point
\* entry of 64 bits, of which only four bytes are compared with the bounds, or a
\* Digitless one, whose empty string of bits stoul refuses.
SaneEntriesDecoded ==
  InPacket
  /\ (\A k \in DOMAIN packet.entries :
        /\ Sane(packet.entries[k]) /\ ~Digitless(packet.entries[k])
        /\ ~IsInteger(packet.entries[k]) => packet.entries[k].length = 32)
  => step # "terminated"
=============================================================================
