------------------------------- MODULE Framing -------------------------------
(***************************************************************************)
(* How the Decom thread moves through the bytes of one item: the inner     *)
(* loop of Decom::init, HeaderDecode, and the loops of DataDecode.         *)
(*                                                                         *)
(* A packet of the input has a primary header of six bytes, a secondary    *)
(* header if its flag says so, and a data field; the length field of the   *)
(* primary header covers everything behind it.  The decoder finds the next *)
(* packet by lengths alone, so it stays on the packets only if each decode *)
(* reads exactly as many bytes as the header announced.                    *)
(*                                                                         *)
(* The stream is a cursor and the flag eof.  A read beyond the end takes   *)
(* what is there and sets eof; every later read then does nothing.         *)
(*                                                                         *)
(* packetLength has 32 bits and no sign.  An integer below zero stands for *)
(* the value that is 2^32 greater, some 4 GB: allocating such a vector     *)
(* succeeds, and the read runs to the end, or it throws and the process    *)
(* terminates.                                                             *)
(***************************************************************************)
EXTENDS Decoding

CONSTANTS
  HKLength,    (* bytes of housekeeping in an OMPS science packet          *)
  Garbage,     (* headers that bytes may form that are no header           *)
  Items        (* the items: instrument, packets, size in bytes            *)

(***************************************************************************)
(* start is the offset of a packet in its item, length what its length     *)
(* field says plus one, contCount the third byte of its data.              *)
(***************************************************************************)
Header == [APID : Nat, sequenceFlag : SequenceFlag, secondaryHeader : BOOLEAN,
           length : Nat \ {0}, contCount : Nat, start : Nat]

Item == [instrument : STRING, packets : Seq(Header), size : Nat]

EndOf(h) == h.start + 6 + h.length

ASSUME HKAssumption == HKLength \in Nat

ASSUME HeaderAssumption == Garbage # {} /\ Garbage \subseteq Header

\* The packets of an item follow each other; the last ones may be cut off.
ASSUME ItemAssumption ==
  /\ Items \subseteq Item
  /\ \A it \in Items : \A i \in DOMAIN it.packets :
       it.packets[i].start = IF i = 1 THEN 0 ELSE EndOf(it.packets[i - 1])
  /\ \A it \in Items : \A i \in DOMAIN it.packets :
       i = Len(it.packets) => it.size <= EndOf(it.packets[i])

VARIABLES
  item,             (* the item that is decoded                            *)
  cursor,           (* bytes of it that were read                          *)
  eof,              (* a read went beyond the end                          *)
  m_pHeader,        (* the primary header that was read last               *)
  contCount,        (* the byte decodeOMPS read                            *)
  segPacketCount,   (* groups of a super-segmented packet read so far      *)
  pc,               (* where the thread is                                 *)
  index             (* history: the packet with which this turn of the     *)
                    (* loop began, 0 if it began in between                *)

vars == <<item, cursor, eof, m_pHeader, contCount, segPacketCount, pc, index>>

(***************************************************************************)
(*   test     at the test of the inner loop of Decom::init                 *)
(*   decode   in Decom::decodeData                                         *)
(*   omps     in decodeOMPS behind the four bytes of the OMPS header       *)
(*   group    at the loop test for super-segmented packets                 *)
(*   segment  in a loop over segments, about to read the next one          *)
(*   while    at the test of such a loop                                   *)
(*   end      the inner loop is left                                       *)
(* terminated: an exception of the allocator escaped from the thread.      *)
(***************************************************************************)
PC == {"test", "decode", "omps", "group", "segment", "while", "end", "terminated"}

TypeOK ==
  /\ item \in Item
  /\ cursor \in 0 .. item.size
  /\ eof \in BOOLEAN
  /\ m_pHeader \in Header
  /\ contCount \in Nat
  /\ segPacketCount \in Nat
  /\ pc \in PC
  /\ index \in 0 .. Len(item.packets)

Init ==
  /\ item \in Items
  /\ cursor = 0
  /\ eof = FALSE
  /\ m_pHeader \in Garbage
  /\ contCount = 0
  /\ segPacketCount = 0
  /\ pc = "test"
  /\ index = 0

-----------------------------------------------------------------------------
(***************************************************************************)
(* Headers.                                                                *)
(***************************************************************************)
HeaderSize(h) ==
  6 + (IF h.secondaryHeader THEN IF h.sequenceFlag = "FIRST" THEN 10 ELSE 8
       ELSE 0)

\* Wrong: the two bytes that count the segments are forgotten.
PacketLengthWithoutCount(h) == h.length - (IF h.secondaryHeader THEN 8 ELSE 0)

\* packetLength as decodePrimary leaves it.
PacketLength(h) == h.length - (HeaderSize(h) - 6)

\* checkValidHeader.  packetSequence has 14 bits and always passes; a length
\* below zero stands for one that is too large.
ValidHeader(h) ==
  h.APID <= 1449 /\ PacketLength(h) >= 0 /\ PacketLength(h) <= 65535

PacketsAt(o) ==
  {i \in DOMAIN item.packets : item.packets[i].start = o /\ o + 6 <= item.size}

\* The header a read at the cursor yields.  If it is not one of the packets'
\* headers, it is made of other bytes or, beyond the end, of what was in the
\* local variables before.
HeadersHere ==
  IF PacketsAt(cursor) = {} THEN Garbage
  ELSE {item.packets[i] : i \in PacketsAt(cursor)}

-----------------------------------------------------------------------------
(***************************************************************************)
(* Reading.                                                                *)
(***************************************************************************)
Skip(n) ==
  /\ cursor' = Min({cursor + n, item.size})
  /\ eof' = (eof \/ cursor + n > item.size)

\* Read n bytes and then a vector of len bytes, and go on at label to.
ReadVector(n, len, to) ==
  \/ /\ len >= 0
     /\ Skip(n + len)
     /\ pc' = to
  \/ /\ len < 0
     /\ cursor' = item.size
     /\ eof' = TRUE
     /\ pc' = to
  \/ /\ len < 0
     /\ pc' = "terminated"
     /\ UNCHANGED <<cursor, eof>>

-----------------------------------------------------------------------------
(***************************************************************************)
(* The inner loop of Decom::init.                                          *)
(***************************************************************************)
AtEnd == eof \/ cursor >= item.size

\* Wrong: what cannot hold both headers is not read.
LeaveLoopEarly ==
  /\ pc = "test"
  /\ eof \/ cursor + 14 > item.size
  /\ pc' = "end"
  /\ UNCHANGED <<item, cursor, eof, m_pHeader, contCount, segPacketCount, index>>

LeaveLoop ==
  /\ pc = "test"
  /\ AtEnd
  /\ pc' = "end"
  /\ UNCHANGED <<item, cursor, eof, m_pHeader, contCount, segPacketCount, index>>

\* getHeadersAndEntries; an invalid header ends the loop.
GetHeader ==
  /\ pc = "test"
  /\ ~AtEnd
  /\ \E h \in HeadersHere :
       /\ m_pHeader' = h
       /\ Skip(HeaderSize(h))
       /\ pc' = IF ValidHeader(h) THEN "decode" ELSE "end"
  /\ index' = IF PacketsAt(cursor) = {} THEN 0 ELSE Min(PacketsAt(cursor))
  /\ UNCHANGED <<item, contCount, segPacketCount>>

-----------------------------------------------------------------------------
(***************************************************************************)
(* DataDecode.  What a decode reads does not depend on the entries.        *)
(***************************************************************************)
OMPS == item.instrument = "OMPS"

DecodeSingle ==
  /\ pc = "decode"
  /\ ~OMPS
  /\ m_pHeader.sequenceFlag # "FIRST"
  /\ ReadVector(0, PacketLength(m_pHeader), "test")
  /\ UNCHANGED <<item, m_pHeader, contCount, segPacketCount, index>>

DecodeFirstSegment ==
  /\ pc = "decode"
  /\ ~OMPS
  /\ m_pHeader.sequenceFlag = "FIRST"
  /\ ReadVector(0, PacketLength(m_pHeader), "segment")
  /\ UNCHANGED <<item, m_pHeader, contCount, segPacketCount, index>>

\* decodeOMPS reads versionNum, contCount and contFlag.  If they were not
\* all there, contCount may still be zero, as it was initialised.
ReadOMPSHeader ==
  /\ pc = "decode"
  /\ OMPS
  /\ Skip(4)
  /\ contCount' \in IF index # 0 /\ ~eof' THEN {m_pHeader.contCount}
                    ELSE {0} \cup {h.contCount : h \in Garbage}
  /\ pc' = "omps"
  /\ UNCHANGED <<item, m_pHeader, segPacketCount, index>>

\* What is left of packetLength behind the OMPS header.
OMPSLength == PacketLength(m_pHeader) - 4
IsOMPSScience == m_pHeader.APID \in ScienceAPIDs

DecodeOMPSSingle ==
  /\ pc = "omps"
  /\ ~IsOMPSScience
  /\ m_pHeader.sequenceFlag = "STANDALONE"
  /\ ReadVector(0, OMPSLength, "test")
  /\ contCount' = 0
  /\ UNCHANGED <<item, m_pHeader, segPacketCount, index>>

DecodeOMPSFirstSegment ==
  /\ pc = "omps"
  /\ ~IsOMPSScience
  /\ m_pHeader.sequenceFlag # "STANDALONE"
  /\ contCount = 0
  /\ ReadVector(0, OMPSLength, "segment")
  /\ UNCHANGED <<item, m_pHeader, contCount, segPacketCount, index>>

\* Wrong: the housekeeping is not taken off packetLength.
DecodeScienceWholeLength ==
  /\ pc = "omps"
  /\ IsOMPSScience
  /\ ReadVector(HKLength, OMPSLength, "segment")
  /\ contCount' = 0
  /\ UNCHANGED <<item, m_pHeader, segPacketCount, index>>

\* getOMPSScience up to its loop: housekeeping, then the rest of the packet.
DecodeScienceFirstSegment ==
  /\ pc = "omps"
  /\ IsOMPSScience
  /\ ReadVector(HKLength, OMPSLength - HKLength, "segment")
  /\ contCount' = 0
  /\ UNCHANGED <<item, m_pHeader, segPacketCount, index>>

\* The loop over super-segmented packets; the first turn follows the headers
\* and the OMPS header that were read already.
DecodeFirstGroup ==
  /\ pc = "omps"
  /\ ~IsOMPSScience
  /\ m_pHeader.sequenceFlag # "STANDALONE"
  /\ contCount # 0
  /\ IF eof THEN pc' = "test" /\ UNCHANGED <<cursor, eof>>
     ELSE ReadVector(0, OMPSLength, "segment")
  /\ segPacketCount' = 0
  /\ UNCHANGED <<item, m_pHeader, contCount, index>>

\* A later turn reads headers, the eight bytes of ompsHeader, and all of
\* packetLength.
DecodeNextGroup ==
  /\ pc = "group"
  /\ segPacketCount # contCount + 1
  /\ ~eof
  /\ \E h \in HeadersHere :
       /\ m_pHeader' = h
       /\ ReadVector(HeaderSize(h) + 8, PacketLength(h), "segment")
  /\ UNCHANGED <<item, contCount, segPacketCount, index>>

LeaveGroups ==
  /\ pc = "group"
  /\ segPacketCount = contCount + 1 \/ eof
  /\ pc' = "test"
  /\ contCount' = 0
  /\ segPacketCount' = 0
  /\ UNCHANGED <<item, cursor, eof, m_pHeader, index>>

\* The body of the loops over segments: headers and data, whatever
\* checkValidHeader says of the header.
ReadSegment ==
  /\ pc = "segment"
  /\ \E h \in HeadersHere :
       /\ m_pHeader' = h
       /\ ReadVector(HeaderSize(h), PacketLength(h), "while")
  /\ UNCHANGED <<item, contCount, segPacketCount, index>>

\* Wrong: the end of the buffer does not end the loop.
NextSegmentUntilLast ==
  /\ pc = "while"
  /\ m_pHeader.sequenceFlag # "LAST"
  /\ pc' = "segment"
  /\ UNCHANGED <<item, cursor, eof, m_pHeader, contCount, segPacketCount, index>>

NextSegment ==
  /\ pc = "while"
  /\ m_pHeader.sequenceFlag # "LAST" /\ ~eof
  /\ pc' = "segment"
  /\ UNCHANGED <<item, cursor, eof, m_pHeader, contCount, segPacketCount, index>>

\* Wrong: the loop ends with the first segment that is not a MIDDLE.
LeaveSegmentsAtOther ==
  /\ pc = "while"
  /\ m_pHeader.sequenceFlag # "MIDDLE" \/ eof
  /\ pc' = "test"
  /\ UNCHANGED <<item, cursor, eof, m_pHeader, contCount, segPacketCount, index>>

LeaveSegments ==
  /\ pc = "while"
  /\ m_pHeader.sequenceFlag = "LAST" \/ eof
  /\ IF contCount = 0
     THEN pc' = "test" /\ UNCHANGED segPacketCount
     ELSE pc' = "group" /\ segPacketCount' = segPacketCount + 1
  /\ UNCHANGED <<item, cursor, eof, m_pHeader, contCount, index>>

-----------------------------------------------------------------------------
Done == pc \in {"end", "terminated"} /\ UNCHANGED vars

DecomLoop == LeaveLoop \/ GetHeader
Decode == DecodeSingle \/ DecodeFirstSegment
DecodeOMPS ==
  \/ ReadOMPSHeader \/ DecodeOMPSSingle \/ DecodeOMPSFirstSegment
  \/ DecodeScienceFirstSegment
  \/ DecodeFirstGroup \/ DecodeNextGroup \/ LeaveGroups
Segments == ReadSegment \/ NextSegment \/ LeaveSegments

Next == DecomLoop \/ Decode \/ DecodeOMPS \/ Segments \/ Done

Safety == Init /\ [][Next]_vars

\* The thread runs.
Spec == Safety /\ WF_vars(Next)

-----------------------------------------------------------------------------
(***************************************************************************)
(* Properties.  The shape of the input they depend on:                     *)
(***************************************************************************)

\* Every header is valid, and every data field holds what its decoder takes
\* from it without looking whether it is there.
RoomFor(h, instrument) ==
  CASE instrument # "OMPS" -> 0
    [] instrument = "OMPS" /\ h.APID \in ScienceAPIDs -> 4 + HKLength
    [] OTHER -> 4

WellFormed(it) ==
  \A i \in DOMAIN it.packets :
    /\ ValidHeader(it.packets[i])
    /\ PacketLength(it.packets[i]) >= RoomFor(it.packets[i], it.instrument)

\* No continuation: nothing makes decodeOMPS look for super-segments.
NoSuperSegments(it) == \A i \in DOMAIN it.packets : it.packets[i].contCount = 0

Whole(it) ==
  it.size = IF it.packets = <<>> THEN 0 ELSE EndOf(it.packets[Len(it.packets)])

\* The packets with which turns of the loop begin: the first one, and each one
\* behind the end of the decode of another.
HasTurns(it, S) ==
  /\ 1 \in DOMAIN it.packets => 1 \in S
  /\ \A i \in S : LET next == DecodeEnd(it.packets, i, it.instrument) + 1
                IN  next \in DOMAIN it.packets => next \in S

TurnStarts(it) ==
  {i \in DOMAIN it.packets :
     \A S \in SUBSET DOMAIN it.packets : HasTurns(it, S) => i \in S}

\* Every turn that begins with a segmented packet finds a LAST behind it.
Closed(it) ==
  \A i \in TurnStarts(it) :
    IsSegmented(it.packets[i], it.instrument) =>
      LastsAfter(it.packets, i) # {}

ReadsHeader == {"test", "segment", "group"}
OnPacket == cursor = item.size \/ PacketsAt(cursor) # {}

\* In well-formed data every header is read where a packet begins, or behind
\* the last byte: the lengths subtracted for the secondary header, the OMPS
\* header and the housekeeping are those that were read.
HeadersAtPackets ==
  WellFormed(item) /\ NoSuperSegments(item) /\ Whole(item) =>
    (pc \in ReadsHeader => OnPacket)

\* A turn of the loop that began with packet i reads through to the packet
\* that Decoding names, on which Pipeline is built.
TurnAgreesWithDecoding ==
  WellFormed(item) /\ NoSuperSegments(item) /\ Whole(item) /\ pc = "test"
  /\ index # 0 =>
    cursor = EndOf(item.packets[DecodeEnd(item.packets, index, item.instrument)])

\* The loop is not left before the last byte of well-formed data.
WholeItemRead ==
  WellFormed(item) /\ NoSuperSegments(item) /\ Whole(item) /\ pc = "end" =>
    cursor = item.size

\* If moreover every turn that looks for a LAST finds one, no header is read
\* behind the last byte, so no vector is allocated with a length made of
\* garbage.
NothingReadBehindEnd ==
  WellFormed(item) /\ NoSuperSegments(item) /\ Whole(item) /\ Closed(item) =>
    ~eof /\ pc # "terminated"

\* Whatever the bytes are, the loop comes to an end.
LoopEnds == <>(pc \in {"end", "terminated"})

\* "Subtract four from length to account for versionNum, contCount, and
\* contFlag": what is read of the OMPS header is accounted for, so headers
\* are read at packets in super-segmented data too.
SuperHeadersAtPackets ==
  WellFormed(item) /\ Whole(item) => (pc \in ReadsHeader => OnPacket)
=============================================================================
