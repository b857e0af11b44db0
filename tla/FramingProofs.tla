---------------------------- MODULE FramingProofs ----------------------------
(***************************************************************************)
(* That the decoder stays on the packets, for items of any number of       *)
(* packets of any length, wherever they are cut off.                       *)
(***************************************************************************)
EXTENDS Framing, SequenceLemmas, TLAPS

Packets == item.packets
EndAt(k) == EndOf(Packets[k])

\* Well-formed data in an item that is whole: what the properties assume.
Regular == WellFormed(item) /\ NoSuperSegments(item) /\ Whole(item)

-----------------------------------------------------------------------------
(***************************************************************************)
(* Reading.                                                                *)
(***************************************************************************)
\* The types of the variables that say what is read.
LEMMA StreamTypes ==
  ASSUME TypeOK
  PROVE  /\ item.size \in Nat /\ cursor \in Nat /\ cursor <= item.size
         /\ eof \in BOOLEAN /\ item.packets \in Seq(Header)
BY DEF TypeOK, Item

\* What is subtracted from the length for the headers is what they take.
LEMMA LengthOfHeaders ==
  ASSUME NEW h \in Header
  PROVE  /\ HeaderSize(h) \in Nat /\ HeaderSize(h) >= 6
         /\ PacketLength(h) \in Int
         /\ h.start \in Nat /\ h.length \in Nat /\ h.length >= 1
         /\ h.start + HeaderSize(h) + PacketLength(h) = EndOf(h)
         /\ EndOf(h) = h.start + 6 + h.length /\ EndOf(h) \in Nat
<1>1. /\ h.start \in Nat /\ h.length \in Nat /\ h.length >= 1
      /\ h.secondaryHeader \in BOOLEAN
  BY DEF Header
<1>2. HeaderSize(h) \in {6, 14, 16}
  BY DEF HeaderSize
<1> QED
  BY <1>1, <1>2 DEF PacketLength, EndOf

\* A read takes what it wants, or what is there.
LEMMA SkipReads ==
  ASSUME TypeOK, NEW n \in Nat, Skip(n)
  PROVE  /\ cursor' \in 0 .. item.size /\ eof' \in BOOLEAN
         /\ cursor + n <= item.size => cursor' = cursor + n /\ eof' = eof
         /\ cursor + n > item.size => cursor' = item.size /\ eof' = TRUE
<1>1. item.size \in Nat /\ cursor \in Nat /\ cursor <= item.size /\ eof \in BOOLEAN
  BY StreamTypes
<1>2. Min({cursor + n, item.size}) = IF cursor + n <= item.size THEN cursor + n
                                     ELSE item.size
  BY <1>1, LeastOfTwo
<1>3. eof' \in BOOLEAN
  BY DEF Skip
<1>4. cursor + n <= item.size => eof' = eof
  BY <1>1 DEF Skip
<1>5. cursor + n > item.size => eof' = TRUE
  BY <1>1 DEF Skip
<1>6. cursor' = IF cursor + n <= item.size THEN cursor + n ELSE item.size
  BY <1>2 DEF Skip
<1> QED
  BY <1>1, <1>3, <1>4, <1>5, <1>6

\* So does the read of a vector, unless its length is below zero.
LEMMA VectorReads ==
  ASSUME TypeOK, NEW n \in Nat, NEW len \in Int, NEW to, to # "terminated",
         ReadVector(n, len, to)
  PROVE  /\ cursor' \in 0 .. item.size /\ eof' \in BOOLEAN
         /\ pc' = to \/ pc' = "terminated"
         /\ len >= 0 => pc' = to
         /\ len >= 0 /\ cursor + (n + len) <= item.size =>
              cursor' = cursor + (n + len) /\ eof' = eof
         /\ n > 0 /\ cursor = item.size /\ pc' = to =>
              cursor' = item.size /\ eof' = TRUE
<1>1. item.size \in Nat /\ cursor \in Nat /\ cursor <= item.size /\ eof \in BOOLEAN
  BY StreamTypes
<1>2. CASE len >= 0 /\ Skip(n + len) /\ pc' = to
  <2>1. n + len \in Nat
    BY <1>2
  <2>2. n > 0 /\ cursor = item.size => cursor + (n + len) > item.size
    BY <1>1, <1>2
  <2> QED
    BY <1>2, <2>1, <2>2, SkipReads
<1>3. CASE len < 0 /\ cursor' = item.size /\ eof' = TRUE /\ pc' = to
  <2>1. cursor' \in 0 .. item.size /\ eof' \in BOOLEAN /\ ~(len >= 0)
    BY <1>1, <1>3
  <2> QED
    BY <1>3, <2>1
<1>4. CASE len < 0 /\ pc' = "terminated" /\ UNCHANGED <<cursor, eof>>
  <2>1. cursor' \in 0 .. item.size /\ eof' \in BOOLEAN /\ ~(len >= 0) /\ pc' # to
    BY <1>1, <1>4
  <2> QED
    BY <1>4, <2>1
<1> QED
  BY <1>2, <1>3, <1>4 DEF ReadVector

\* Headers come from the packets or are garbage.
LEMMA HeadersAreHeaders ==
  ASSUME TypeOK
  PROVE  HeadersHere \subseteq Header
<1>1. \A i \in DOMAIN item.packets : item.packets[i] \in Header
  BY StreamTypes
<1>2. Garbage \subseteq Header
  BY HeaderAssumption
<1>3. PacketsAt(cursor) \subseteq DOMAIN item.packets
  BY DEF PacketsAt
<1> QED
  BY <1>1, <1>2, <1>3 DEF HeadersHere

\* Where a turn begins is a packet, or 0.
LEMMA IndexType ==
  ASSUME TypeOK
  PROVE  (IF PacketsAt(cursor) = {} THEN 0 ELSE Min(PacketsAt(cursor)))
           \in 0 .. Len(item.packets)
<1>1. DOMAIN item.packets = 1 .. Len(item.packets) /\ Len(item.packets) \in Nat
  BY StreamTypes
<1>2. PacketsAt(cursor) \subseteq 1 .. Len(item.packets)
  BY <1>1 DEF PacketsAt
<1>3. CASE PacketsAt(cursor) = {}
  BY <1>1, <1>3
<1>4. CASE PacketsAt(cursor) # {}
  <2>1. PacketsAt(cursor) \in SUBSET Nat
    BY <1>1, <1>2
  <2>2. Min(PacketsAt(cursor)) \in PacketsAt(cursor)
    BY <1>4, <2>1, LeastOfNaturals
  <2> QED
    BY <1>1, <1>2, <1>4, <2>2
<1> QED
  BY <1>3, <1>4

\* The label behind a vector is one of the thread's.
LEMMA VectorTypes ==
  ASSUME TypeOK, NEW n \in Nat, NEW len \in Int, NEW to \in PC \ {"terminated"},
         ReadVector(n, len, to),
         UNCHANGED <<item, index>>, m_pHeader' \in Header, contCount' \in Nat,
         segPacketCount' \in Nat
  PROVE  TypeOK'
<1>1. cursor' \in 0 .. item.size /\ eof' \in BOOLEAN /\ pc' \in {to, "terminated"}
  BY VectorReads
<1> QED
  BY <1>1 DEF TypeOK, PC

\* Every step keeps the types.
LEMMA StepTypeOK == ASSUME TypeOK, [Next]_vars PROVE TypeOK'
<1>1. /\ item \in Item /\ m_pHeader \in Header /\ contCount \in Nat
      /\ segPacketCount \in Nat /\ pc \in PC /\ index \in 0 .. Len(item.packets)
  BY DEF TypeOK
<1>2. m_pHeader \in Header /\ HKLength \in Nat /\ PacketLength(m_pHeader) \in Int
      /\ OMPSLength \in Int
  BY <1>1, HKAssumption, LengthOfHeaders DEF OMPSLength
<1>3. \A h \in HeadersHere : h \in Header /\ HeaderSize(h) \in Nat
                            /\ HeaderSize(h) + 8 \in Nat /\ PacketLength(h) \in Int
  BY HeadersAreHeaders, LengthOfHeaders
<1>4. CASE LeaveLoop \/ LeaveGroups \/ NextSegment \/ LeaveSegments \/ Done
  BY <1>1, <1>4 DEF LeaveLoop, LeaveGroups, NextSegment, LeaveSegments, Done,
                    TypeOK, PC, vars
<1>5. CASE GetHeader
  <2>1. PICK h \in HeadersHere :
          /\ m_pHeader' = h
          /\ Skip(HeaderSize(h))
          /\ pc' = IF ValidHeader(h) THEN "decode" ELSE "end"
    BY <1>5 DEF GetHeader
  <2>2. cursor' \in 0 .. item.size /\ eof' \in BOOLEAN
    BY <1>3, <2>1, SkipReads
  <2>3. index' \in 0 .. Len(item.packets)
    BY <1>5, IndexType DEF GetHeader
  <2> QED
    BY <1>1, <1>3, <1>5, <2>1, <2>2, <2>3 DEF GetHeader, TypeOK, PC
<1>6. CASE DecodeSingle \/ DecodeFirstSegment
  BY <1>1, <1>2, <1>6, VectorTypes DEF DecodeSingle, DecodeFirstSegment, PC
<1>7. CASE ReadOMPSHeader
  <2>1. cursor' \in 0 .. item.size /\ eof' \in BOOLEAN
    BY <1>7, SkipReads DEF ReadOMPSHeader
  <2>2. contCount' \in Nat
    <3>1. m_pHeader.contCount \in Nat /\ \A h \in Garbage : h.contCount \in Nat
      BY <1>1, HeaderAssumption DEF Header
    <3> QED
      BY <1>7, <3>1 DEF ReadOMPSHeader
  <2> QED
    BY <1>1, <1>7, <2>1, <2>2 DEF ReadOMPSHeader, TypeOK, PC
<1>8. CASE DecodeOMPSSingle
  BY <1>1, <1>2, <1>8, VectorTypes DEF DecodeOMPSSingle, PC
<1>9. CASE DecodeOMPSFirstSegment
  BY <1>1, <1>2, <1>9, VectorTypes DEF DecodeOMPSFirstSegment, PC
<1>10. CASE DecodeScienceFirstSegment
  <2>1. OMPSLength - HKLength \in Int
    BY <1>2
  <2> QED
    BY <1>1, <1>2, <1>10, <2>1, VectorTypes DEF DecodeScienceFirstSegment, PC
<1>11. CASE DecodeFirstGroup
  <2>1. CASE eof
    BY <1>1, <1>11, <2>1 DEF DecodeFirstGroup, TypeOK, PC
  <2>2. CASE ~eof
    <3>1. ReadVector(0, OMPSLength, "segment") /\ segPacketCount' = 0
          /\ UNCHANGED <<item, m_pHeader, contCount, index>>
      BY <1>11, <2>2 DEF DecodeFirstGroup
    <3> QED
      BY <1>1, <1>2, <3>1, VectorTypes DEF PC
  <2> QED
    BY <2>1, <2>2
<1>12. CASE DecodeNextGroup
  <2>1. PICK h \in HeadersHere :
          m_pHeader' = h /\ ReadVector(HeaderSize(h) + 8, PacketLength(h), "segment")
    BY <1>12 DEF DecodeNextGroup
  <2>2. /\ h \in Header /\ HeaderSize(h) + 8 \in Nat /\ PacketLength(h) \in Int
        /\ UNCHANGED <<item, contCount, segPacketCount, index>>
    BY <1>3, <1>12 DEF DecodeNextGroup
  <2>3. "segment" \in PC \ {"terminated"}
    BY DEF PC
  <2> QED
    BY <1>1, <2>1, <2>2, <2>3, VectorTypes
<1>13. CASE ReadSegment
  <2>1. PICK h \in HeadersHere :
          m_pHeader' = h /\ ReadVector(HeaderSize(h), PacketLength(h), "while")
    BY <1>13 DEF ReadSegment
  <2> QED
    BY <1>1, <1>3, <1>13, <2>1, VectorTypes DEF ReadSegment, PC
<1>14. CASE UNCHANGED vars
  BY <1>14 DEF vars, TypeOK
<1> QED
  BY <1>4, <1>5, <1>6, <1>7, <1>8, <1>9, <1>10, <1>11, <1>12, <1>13, <1>14
  DEF Next, DecomLoop, Decode, DecodeOMPS, Segments

-----------------------------------------------------------------------------
(***************************************************************************)
(* Where the packets are.                                                  *)
(***************************************************************************)
\* A packet ends where the next one begins, or before.
LEMMA Placement ==
  ASSUME NEW it \in Items, NEW i \in DOMAIN it.packets, NEW j \in DOMAIN it.packets,
         i < j
  PROVE  EndOf(it.packets[i]) <= it.packets[j].start
<1> DEFINE P == it.packets
           T == {d \in Nat : \A k \in DOMAIN P : k + 1 + d \in DOMAIN P =>
                               EndOf(P[k]) <= P[k + 1 + d].start}
<1>1. P \in Seq(Header) /\ DOMAIN P = 1 .. Len(P) /\ Len(P) \in Nat
  BY ItemAssumption DEF Item
<1>2. \A k \in DOMAIN P : k > 1 => P[k].start = EndOf(P[k - 1])
  BY <1>1, ItemAssumption
<1>3. \A k \in DOMAIN P : P[k].start \in Nat /\ EndOf(P[k]) \in Nat
                         /\ P[k].start <= EndOf(P[k])
  <2> SUFFICES ASSUME NEW k \in DOMAIN P
               PROVE  /\ P[k].start \in Nat /\ EndOf(P[k]) \in Nat
                      /\ P[k].start <= EndOf(P[k])
    OBVIOUS
  <2>1. P[k] \in Header
    BY <1>1
  <2> HIDE DEF P
  <2> QED
    BY <2>1, LengthOfHeaders
<1> HIDE DEF P
<1>4. 0 \in T
  <2>1. ASSUME NEW k \in DOMAIN P, k + 1 + 0 \in DOMAIN P
        PROVE  EndOf(P[k]) <= P[k + 1 + 0].start
    <3>1. k \in Nat /\ k + 1 + 0 > 1 /\ (k + 1 + 0) - 1 = k
      BY <1>1
    <3>2. P[k + 1 + 0].start = EndOf(P[k])
      BY <1>2, <2>1, <3>1
    <3> QED
      BY <1>3, <3>2
  <2> QED
    BY <2>1
<1>5. ASSUME NEW d \in T PROVE d + 1 \in T
  <2>1. d \in Nat
    OBVIOUS
  <2>2. ASSUME NEW k \in DOMAIN P, k + 1 + (d + 1) \in DOMAIN P
        PROVE  EndOf(P[k]) <= P[k + 1 + (d + 1)].start
    <3>1. k \in Nat /\ k + 1 + d \in DOMAIN P /\ k + 1 + (d + 1) > 1
          /\ (k + 1 + (d + 1)) - 1 = k + 1 + d
      BY <1>1, <2>1, <2>2
    <3>2. P[k + 1 + (d + 1)].start = EndOf(P[k + 1 + d])
      BY <1>2, <2>2, <3>1
    <3>3. EndOf(P[k]) <= P[k + 1 + d].start
      BY <3>1
    <3>4. /\ P[k + 1 + d].start <= EndOf(P[k + 1 + d])
          /\ P[k + 1 + d].start \in Nat /\ EndOf(P[k + 1 + d]) \in Nat
          /\ EndOf(P[k]) \in Nat
      BY <1>3, <3>1
    <3> HIDE DEF T
    <3> QED
      BY <3>2, <3>3, <3>4
  <2> QED
    BY <2>1, <2>2
<1>6. T = Nat
  <2> HIDE DEF T
  <2>1. T \in SUBSET Nat
    BY DEF T
  <2> QED
    BY <1>4, <1>5, <2>1, SetInduction
<1>7. i \in Nat /\ j \in Nat /\ j - i - 1 \in Nat /\ i + 1 + (j - i - 1) = j
  BY <1>1 DEF P
<1>8. j - i - 1 \in T
  <2> HIDE DEF T
  <2> QED
    BY <1>6, <1>7
<1> QED
  BY <1>7, <1>8 DEF P

\* A whole item ends with its last packet, and behind each other packet there
\* is the next one, which a read there finds.
LEMMA Landmarks ==
  ASSUME TypeOK, item \in Items, Whole(item), NEW k \in DOMAIN Packets
  PROVE  /\ Packets[k] \in Header /\ EndAt(k) <= item.size
         /\ k = Len(Packets) => EndAt(k) = item.size
         /\ k # Len(Packets) => k + 1 \in DOMAIN Packets
                                /\ Packets[k + 1].start = EndAt(k)
         /\ PacketsAt(Packets[k].start) = {k}
<1> DEFINE P == Packets
<1>1. P \in Seq(Header) /\ DOMAIN P = 1 .. Len(P) /\ Len(P) \in Nat
      /\ item.size \in Nat
  BY StreamTypes DEF Packets
<1>2. \A j \in DOMAIN P : P[j].start \in Nat /\ EndOf(P[j]) \in Nat
                         /\ P[j].start + 6 < EndOf(P[j])
  <2> SUFFICES ASSUME NEW j \in DOMAIN P
               PROVE  /\ P[j].start \in Nat /\ EndOf(P[j]) \in Nat
                      /\ P[j].start + 6 < EndOf(P[j])
    OBVIOUS
  <2>1. P[j] \in Header
    BY <1>1
  <2> HIDE DEF P
  <2> QED
    BY <2>1, LengthOfHeaders
<1>3. \A i, j \in DOMAIN P : i < j => EndOf(P[i]) <= P[j].start
  BY Placement DEF Packets
<1>4. item.size = EndOf(P[Len(P)]) /\ Len(P) \in DOMAIN P
  BY <1>1 DEF Whole, Packets
<1>5. k # Len(P) => k + 1 \in DOMAIN P /\ P[k + 1].start = EndOf(P[k])
  <2> SUFFICES ASSUME k # Len(P)
               PROVE  k + 1 \in DOMAIN P /\ P[k + 1].start = EndOf(P[k])
    OBVIOUS
  <2>1. k + 1 \in DOMAIN P /\ k + 1 # 1 /\ (k + 1) - 1 = k
    BY <1>1
  <2> QED
    BY <2>1, ItemAssumption DEF Packets
<1>6. EndOf(P[k]) <= item.size
  <2>1. CASE k = Len(P)
    BY <1>2, <1>4, <2>1
  <2>2. CASE k # Len(P)
    <3>1. k < Len(P)
      BY <1>1, <2>2
    <3>2. EndOf(P[k]) <= P[Len(P)].start
      BY <1>3, <1>4, <3>1
    <3> QED
      BY <1>2, <1>4, <3>2
  <2> QED
    BY <2>1, <2>2
<1>7. PacketsAt(P[k].start) = {k}
  <2>1. k \in PacketsAt(P[k].start)
    BY <1>1, <1>2, <1>6 DEF PacketsAt, Packets
  <2>2. ASSUME NEW j \in PacketsAt(P[k].start), j # k PROVE FALSE
    <3>1. j \in DOMAIN P /\ P[j].start = P[k].start
      BY <2>2 DEF PacketsAt, Packets
    <3>2. j < k \/ k < j
      BY <1>1, <2>2, <3>1
    <3>3. EndOf(P[j]) <= P[k].start \/ EndOf(P[k]) <= P[j].start
      BY <1>3, <3>1, <3>2
    <3> QED
      BY <1>2, <3>1, <3>3
  <2> QED
    BY <2>1, <2>2
<1> QED
  BY <1>1, <1>4, <1>5, <1>6, <1>7 DEF EndAt

\* A read at the beginning of a packet finds its header.
LEMMA AtPacket ==
  ASSUME TypeOK, item \in Items, Whole(item), NEW k \in DOMAIN Packets,
         cursor = Packets[k].start
  PROVE  /\ PacketsAt(cursor) # {} /\ Min(PacketsAt(cursor)) = k
         /\ HeadersHere = {Packets[k]}
<1>1. PacketsAt(cursor) = {k}
  BY Landmarks
<1>2. k \in Nat
  BY StreamTypes DEF Packets
<1>3. Min({k}) = k
  BY <1>2, LeastOfNaturals
<1> QED
  BY <1>1, <1>3 DEF HeadersHere, Packets

\* In a regular item the lengths are not negative, and a packet's data has
\* room for what is read of it before the rest is.
LEMMA RegularPacket ==
  ASSUME TypeOK, item \in Items, Regular, NEW k \in DOMAIN Packets
  PROVE  /\ Packets[k] \in Header /\ ValidHeader(Packets[k])
         /\ Packets[k].contCount = 0
         /\ PacketLength(Packets[k]) >= RoomFor(Packets[k], item.instrument)
         /\ PacketLength(Packets[k]) >= 0
         /\ PacketLength(Packets[k]) \in Int
         /\ HeaderSize(Packets[k]) \in Nat /\ HeaderSize(Packets[k]) >= 6
         /\ Packets[k].start \in Nat
         /\ Packets[k].start + HeaderSize(Packets[k]) + PacketLength(Packets[k])
              = EndAt(k)
         /\ EndAt(k) \in Nat /\ EndAt(k) <= item.size
<1>1. Packets[k] \in Header /\ EndAt(k) <= item.size
  BY Landmarks DEF Regular
<1>2. ValidHeader(Packets[k])
  BY Zenon DEF Regular, WellFormed, Packets
<1>3. /\ Packets[k].contCount = 0
      /\ PacketLength(Packets[k]) >= RoomFor(Packets[k], item.instrument)
  BY Zenon DEF Regular, WellFormed, NoSuperSegments, Packets
<1>4. PacketLength(Packets[k]) >= 0
  BY <1>2, SMT DEF ValidHeader
<1>5. /\ PacketLength(Packets[k]) \in Int
      /\ HeaderSize(Packets[k]) \in Nat /\ HeaderSize(Packets[k]) >= 6
      /\ Packets[k].start \in Nat
      /\ Packets[k].start + HeaderSize(Packets[k]) + PacketLength(Packets[k])
           = EndAt(k)
      /\ EndAt(k) \in Nat
  BY <1>1, LengthOfHeaders DEF EndAt
<1> QED
  BY <1>1, <1>2, <1>3, <1>4, <1>5, Zenon

-----------------------------------------------------------------------------
(***************************************************************************)
(* The invariant: in regular data the thread is always at a place that can *)
(* be told from the packets.  The properties of Framing speak of the test  *)
(* of the loop only; between two tests the loops over segments run.        *)
(***************************************************************************)
\* None of the packets behind i, up to k, is a LAST.
NoLastUpTo(i, k) == \A j \in i + 1 .. k : Packets[j].sequenceFlag # "LAST"

\* The first turn of the loop is ahead, or the last one has read through to
\* the packet where its decode ends.
AtTest ==
  \/ index = 0 /\ cursor = 0 /\ ~eof
  \/ \E k \in DOMAIN Packets :
       /\ index # 0
       /\ k = DecodeEnd(Packets, index, item.instrument)
       /\ cursor = EndAt(k)

\* The headers of packet i and n bytes more were read.
InPacket(n) ==
  /\ index # 0 /\ ~eof
  /\ m_pHeader = Packets[index]
  /\ cursor = Packets[index].start + HeaderSize(Packets[index]) + n

\* The decode that began with packet index goes on until a LAST.
InSegments == index # 0 /\ IsSegmented(Packets[index], item.instrument)

\* The packets up to k were read, and the decode goes on behind them.
AtSegment(k) ==
  /\ ~eof
  /\ cursor = EndAt(k)
  /\ NoLastUpTo(index, k)
AtSomeSegment == \E k \in index .. Len(Packets) : AtSegment(k)

\* Packet k was the segment that was read last; or there was none to read.
BehindSegment(k) ==
  /\ ~eof
  /\ m_pHeader = Packets[k]
  /\ cursor = EndAt(k)
  /\ NoLastUpTo(index, k - 1)
BehindSomeSegment == \E k \in index + 1 .. Len(Packets) : BehindSegment(k)
BehindAll ==
  /\ eof
  /\ cursor = EndAt(Len(Packets))
  /\ NoLastUpTo(index, Len(Packets))

OnTrack ==
  /\ contCount = 0
  /\ pc # "group"
  /\ eof => cursor = item.size
  /\ index # 0 => index \in TurnStarts(item)
  /\ pc = "test" => AtTest
  /\ pc = "decode" => InPacket(0)
  /\ pc = "omps" => InPacket(4) /\ OMPS
  /\ pc = "segment" => InSegments /\ AtSomeSegment
  /\ pc = "while" => InSegments /\ (BehindSomeSegment \/ BehindAll)
  /\ pc = "end" => cursor = item.size
  /\ Closed(item) => ~eof /\ pc # "terminated"

IInv == TypeOK /\ item \in Items /\ (Regular => OnTrack)

\* A turn may begin with the first packet, and with the one behind the end of
\* the decode of another turn.
LEMMA StartsOfTurns ==
  /\ 1 \in DOMAIN Packets => 1 \in TurnStarts(item)
  /\ \A i \in TurnStarts(item) :
       LET next == DecodeEnd(Packets, i, item.instrument) + 1
       IN  next \in DOMAIN Packets => next \in TurnStarts(item)
<1>1. ASSUME 1 \in DOMAIN Packets PROVE 1 \in TurnStarts(item)
  BY <1>1 DEF TurnStarts, HasTurns, Packets
<1>2. ASSUME NEW i \in TurnStarts(item),
             DecodeEnd(Packets, i, item.instrument) + 1 \in DOMAIN Packets
      PROVE  DecodeEnd(Packets, i, item.instrument) + 1 \in TurnStarts(item)
  BY <1>2 DEF TurnStarts, HasTurns, Packets
<1> QED
  BY <1>1, <1>2

\* Where the loops over segments stop that begin with packet i: at the first
\* LAST behind it, or with the last packet.
LEMMA SegmentEnds ==
  ASSUME TypeOK, NEW i \in DOMAIN Packets
  PROVE  /\ NoLastUpTo(i, Len(Packets)) =>
              LastsAfter(Packets, i) = {} /\ SegmentEnd(Packets, i) = Len(Packets)
         /\ \A k \in i + 1 .. Len(Packets) :
              NoLastUpTo(i, k - 1) /\ Packets[k].sequenceFlag = "LAST" =>
                SegmentEnd(Packets, i) = k
<1>1. DOMAIN Packets = 1 .. Len(Packets) /\ Len(Packets) \in Nat /\ i \in Nat
  BY StreamTypes DEF Packets
<1>2. ASSUME NoLastUpTo(i, Len(Packets))
      PROVE  LastsAfter(Packets, i) = {} /\ SegmentEnd(Packets, i) = Len(Packets)
  BY <1>2 DEF NoLastUpTo, LastsAfter, SegmentEnd
<1>3. ASSUME NEW k \in i + 1 .. Len(Packets), NoLastUpTo(i, k - 1),
             Packets[k].sequenceFlag = "LAST"
      PROVE  SegmentEnd(Packets, i) = k
  <2>1. k \in LastsAfter(Packets, i) /\ LastsAfter(Packets, i) \in SUBSET Nat
    BY <1>1, <1>3 DEF LastsAfter
  <2>2. /\ Min(LastsAfter(Packets, i)) \in LastsAfter(Packets, i)
        /\ Min(LastsAfter(Packets, i)) <= k
    BY <2>1, LeastOfNaturals
  <2>3. \A j \in LastsAfter(Packets, i) : j \in Nat /\ j >= i + 1 /\ ~(j < k)
    BY <1>1, <1>3 DEF LastsAfter, NoLastUpTo
  <2>4. Min(LastsAfter(Packets, i)) = k
    BY <1>1, <2>2, <2>3
  <2> QED
    BY <2>1, <2>4 DEF SegmentEnd
<1> QED
  BY <1>2, <1>3

\* A turn of the loop begins with a header of the item.
LEMMA GetHeaderOnTrack ==
  ASSUME IInv, Regular, GetHeader
  PROVE  OnTrack'
<1>1. TypeOK /\ item \in Items /\ OnTrack /\ Whole(item)
  BY DEF IInv, Regular
<1>2. /\ pc = "test" /\ ~eof /\ cursor < item.size
      /\ item.size \in Nat /\ cursor \in Nat
      /\ DOMAIN Packets = 1 .. Len(Packets) /\ Len(Packets) \in Nat
  BY <1>1, StreamTypes DEF GetHeader, AtEnd, Packets
<1>3. PICK k \in DOMAIN Packets : cursor = Packets[k].start /\ k \in TurnStarts(item)
  <2>1. CASE index = 0 /\ cursor = 0 /\ ~eof
    <3>1. Packets # <<>>
      BY <1>1, <1>2, <2>1 DEF Whole, Packets
    <3>2. 1 \in DOMAIN Packets
      BY <1>1, <1>2, <3>1, StreamTypes DEF Packets
    <3>3. Packets[1].start = 0
      BY <1>1, <3>2, ItemAssumption DEF Packets
    <3> QED
      BY <2>1, <3>2, <3>3, StartsOfTurns
  <2>2. CASE \E k \in DOMAIN Packets :
               /\ index # 0
               /\ k = DecodeEnd(Packets, index, item.instrument)
               /\ cursor = EndAt(k)
    <3>1. PICK k \in DOMAIN Packets :
            /\ index # 0
            /\ k = DecodeEnd(Packets, index, item.instrument)
            /\ cursor = EndAt(k)
      BY <2>2
    <3>2. k # Len(Packets)
      BY <1>1, <1>2, <3>1, Landmarks
    <3>3. k + 1 \in DOMAIN Packets /\ cursor = Packets[k + 1].start
      BY <1>1, <3>1, <3>2, Landmarks
    <3>4. index \in TurnStarts(item)
      BY <1>1, <3>1 DEF OnTrack
    <3> QED
      BY <3>1, <3>3, <3>4, StartsOfTurns
  <2> QED
    BY <1>1, <1>2, <2>1, <2>2 DEF OnTrack, AtTest
<1>4. HeadersHere = {Packets[k]} /\ index' = k
  BY <1>1, <1>3, AtPacket DEF GetHeader
<1>5. /\ m_pHeader' = Packets[k] /\ Skip(HeaderSize(Packets[k]))
      /\ pc' = "decode" /\ UNCHANGED <<item, contCount>>
  BY <1>1, <1>4, RegularPacket DEF GetHeader
<1>6. cursor + HeaderSize(Packets[k]) <= item.size
  BY <1>1, <1>2, <1>3, RegularPacket
<1>7. cursor' = Packets[k].start + HeaderSize(Packets[k]) /\ eof' = eof
  BY <1>1, <1>3, <1>5, <1>6, RegularPacket, SkipReads
<1>8. k # 0 /\ Packets[k].start + HeaderSize(Packets[k]) \in Nat
  BY <1>1, <1>2, RegularPacket
<1>9. InPacket(0)'
  BY <1>2, <1>4, <1>5, <1>7, <1>8 DEF InPacket, Packets
<1>10. index' \in TurnStarts(item')
  BY <1>3, <1>4, <1>5
<1> QED
  BY <1>1, <1>2, <1>5, <1>7, <1>9, <1>10 DEF OnTrack

\* A vector that is the rest of packet index: it is there, and is read.
LEMMA RestOfPacket ==
  ASSUME IInv, Regular, NEW m \in Nat, InPacket(m), index \in DOMAIN Packets,
         NEW n \in Nat, NEW len \in Nat, n + len = PacketLength(m_pHeader) - m,
         NEW to, to # "terminated", ReadVector(n, len, to)
  PROVE  cursor' = EndAt(index) /\ eof' = FALSE /\ pc' = to
<1>1. TypeOK /\ item \in Items /\ m_pHeader = Packets[index] /\ eof = FALSE
      /\ cursor = Packets[index].start + HeaderSize(Packets[index]) + m
  BY DEF IInv, InPacket
<1>2. /\ HeaderSize(Packets[index]) \in Nat
      /\ PacketLength(Packets[index]) \in Int
      /\ Packets[index].start \in Nat
      /\ Packets[index].start + HeaderSize(Packets[index])
           + PacketLength(Packets[index]) = EndAt(index)
      /\ EndAt(index) <= item.size /\ EndAt(index) \in Nat
  BY <1>1, RegularPacket
<1>3. cursor + (n + len) = EndAt(index) /\ len >= 0 /\ len \in Int
  BY <1>1, <1>2
<1> QED
  BY <1>1, <1>2, <1>3, VectorReads

\* The turn read one packet, where Decoding says that a decode reads one.
LEMMA SingleOnTrack ==
  ASSUME IInv, Regular, index \in DOMAIN Packets,
         ~IsSegmented(Packets[index], item.instrument),
         cursor' = EndAt(index), eof' = FALSE, pc' = "test",
         UNCHANGED <<item, index>>, contCount' = 0
  PROVE  OnTrack'
<1>1. DecodeEnd(Packets, index, item.instrument) = index
  BY DEF DecodeEnd
<1>2. index # 0
  BY StreamTypes DEF IInv, Packets
<1>3. AtTest'
  BY <1>1, <1>2 DEF AtTest, Packets, EndAt
<1>4. index' \in TurnStarts(item')
  BY <1>2 DEF IInv, OnTrack
<1> QED
  BY <1>3, <1>4 DEF OnTrack

\* It read the first of several packets, where Decoding says so.
LEMMA FirstOnTrack ==
  ASSUME IInv, Regular, index \in DOMAIN Packets,
         IsSegmented(Packets[index], item.instrument),
         cursor' = EndAt(index), eof' = FALSE, pc' = "segment",
         UNCHANGED <<item, index>>, contCount' = 0
  PROVE  OnTrack'
<1>1. index # 0 /\ index \in Nat /\ index \in index .. Len(Packets)
  BY StreamTypes DEF IInv, Packets
<1>2. NoLastUpTo(index, index)
  BY <1>1 DEF NoLastUpTo
<1>3. InSegments'
  BY <1>1 DEF InSegments, Packets
<1>4. AtSegment(index)'
  BY <1>2 DEF AtSegment, NoLastUpTo, Packets, EndAt
<1>5. AtSomeSegment'
  <2>1. index' \in index' .. Len(Packets')
    BY <1>1 DEF Packets
  <2> QED
    BY <1>4, <2>1 DEF AtSomeSegment, AtSegment, NoLastUpTo, Packets, EndAt
<1>6. index' \in TurnStarts(item')
  BY <1>1 DEF IInv, OnTrack
<1> QED
  BY <1>3, <1>5, <1>6 DEF OnTrack

\* decodeData and decodeOMPS, up to the loops over segments.
LEMMA DecodeOnTrack ==
  ASSUME IInv, Regular, Decode \/ DecodeOMPS
  PROVE  OnTrack'
<1>1. TypeOK /\ item \in Items /\ OnTrack /\ contCount = 0 /\ pc # "group"
      /\ HKLength \in Nat /\ index \in 0 .. Len(Packets)
      /\ DOMAIN Packets = 1 .. Len(Packets)
  BY StreamTypes, HKAssumption DEF IInv, OnTrack, TypeOK, Packets
<1>2. ASSUME pc \in {"decode", "omps"}
      PROVE  /\ index \in DOMAIN Packets /\ m_pHeader = Packets[index]
             /\ pc = "decode" => InPacket(0)
             /\ pc = "omps" => InPacket(4) /\ OMPS
  BY <1>1, <1>2 DEF OnTrack, InPacket
<1>3. ASSUME index \in DOMAIN Packets, m_pHeader = Packets[index]
      PROVE  /\ PacketLength(m_pHeader) \in Nat
             /\ PacketLength(m_pHeader) >= RoomFor(m_pHeader, item.instrument)
             /\ m_pHeader.contCount = 0
  BY <1>1, <1>3, RegularPacket
<1>4. CASE DecodeSingle
  <2>1. /\ pc = "decode" /\ ~OMPS /\ m_pHeader.sequenceFlag # "FIRST"
        /\ ReadVector(0, PacketLength(m_pHeader), "test")
        /\ UNCHANGED <<item, m_pHeader, contCount, index>>
    BY <1>4 DEF DecodeSingle
  <2>2. 0 + PacketLength(m_pHeader) = PacketLength(m_pHeader) - 0
    BY <1>2, <1>3, <2>1
  <2>3. cursor' = EndAt(index) /\ eof' = FALSE /\ pc' = "test"
    BY <1>2, <1>3, <2>1, <2>2, RestOfPacket
  <2>4. ~IsSegmented(Packets[index], item.instrument)
    BY <1>2, <2>1 DEF IsSegmented, OMPS
  <2> QED
    BY <1>1, <1>2, <2>1, <2>3, <2>4, SingleOnTrack
<1>5. CASE DecodeFirstSegment
  <2>1. /\ pc = "decode" /\ ~OMPS /\ m_pHeader.sequenceFlag = "FIRST"
        /\ ReadVector(0, PacketLength(m_pHeader), "segment")
        /\ UNCHANGED <<item, m_pHeader, contCount, index>>
    BY <1>5 DEF DecodeFirstSegment
  <2>2. 0 + PacketLength(m_pHeader) = PacketLength(m_pHeader) - 0
    BY <1>2, <1>3, <2>1
  <2>3. cursor' = EndAt(index) /\ eof' = FALSE /\ pc' = "segment"
    BY <1>2, <1>3, <2>1, <2>2, RestOfPacket
  <2>4. IsSegmented(Packets[index], item.instrument)
    BY <1>2, <2>1 DEF IsSegmented, OMPS
  <2> QED
    BY <1>1, <1>2, <2>1, <2>3, <2>4, FirstOnTrack
<1>6. ASSUME OMPS PROVE RoomFor(m_pHeader, item.instrument) =
                          IF IsOMPSScience THEN 4 + HKLength ELSE 4
  BY <1>6 DEF OMPS, RoomFor, IsOMPSScience
<1>7. CASE ReadOMPSHeader
  <2>1. /\ pc = "decode" /\ OMPS /\ Skip(4) /\ pc' = "omps"
        /\ contCount' \in IF index # 0 /\ ~eof' THEN {m_pHeader.contCount}
                          ELSE {0} \cup {h.contCount : h \in Garbage}
        /\ UNCHANGED <<item, m_pHeader, index>>
    BY <1>7 DEF ReadOMPSHeader
  <2>2. /\ index \in DOMAIN Packets /\ index # 0 /\ m_pHeader = Packets[index]
        /\ eof = FALSE
        /\ cursor = Packets[index].start + HeaderSize(Packets[index]) + 0
    BY <1>1, <1>2, <2>1 DEF InPacket
  <2>3. /\ PacketLength(Packets[index]) \in Nat /\ PacketLength(Packets[index]) >= 4
    BY <1>1, <1>3, <1>6, <2>1, <2>2
  <2>4. /\ cursor + 4 <= item.size
        /\ cursor + 4 = Packets[index].start + HeaderSize(Packets[index]) + 4
    BY <1>1, <2>2, <2>3, RegularPacket, StreamTypes
  <2>5. cursor' = cursor + 4 /\ eof' = FALSE
    BY <1>1, <2>1, <2>2, <2>4, SkipReads
  <2>6. contCount' = 0
    BY <1>3, <2>1, <2>2, <2>5
  <2>7. InPacket(4)' /\ OMPS'
    BY <2>1, <2>2, <2>4, <2>5 DEF InPacket, OMPS, Packets
  <2>8. index' \in TurnStarts(item')
    BY <1>1, <2>1, <2>2 DEF OnTrack
  <2> QED
    BY <2>1, <2>5, <2>6, <2>7, <2>8 DEF OnTrack
<1>8. ASSUME pc = "omps"
      PROVE  /\ index \in DOMAIN Packets /\ m_pHeader = Packets[index]
             /\ InPacket(4) /\ OMPS
             /\ OMPSLength = PacketLength(m_pHeader) - 4
             /\ OMPSLength \in Nat
             /\ IsOMPSScience => OMPSLength - HKLength \in Nat
  <2>1. index \in DOMAIN Packets /\ m_pHeader = Packets[index] /\ InPacket(4) /\ OMPS
    BY <1>2, <1>8
  <2>2. PacketLength(m_pHeader) \in Nat
        /\ PacketLength(m_pHeader) >= IF IsOMPSScience THEN 4 + HKLength ELSE 4
    BY <1>3, <1>6, <2>1
  <2> QED
    BY <1>1, <2>1, <2>2 DEF OMPSLength
<1>9. CASE DecodeOMPSSingle
  <2>1. /\ pc = "omps" /\ ~IsOMPSScience /\ m_pHeader.sequenceFlag = "STANDALONE"
        /\ ReadVector(0, OMPSLength, "test") /\ contCount' = 0
        /\ UNCHANGED <<item, m_pHeader, index>>
    BY <1>9 DEF DecodeOMPSSingle
  <2>2. 0 + OMPSLength = PacketLength(m_pHeader) - 4
    BY <1>8, <2>1
  <2>3. cursor' = EndAt(index) /\ eof' = FALSE /\ pc' = "test"
    BY <1>8, <2>1, <2>2, RestOfPacket
  <2>4. ~IsSegmented(Packets[index], item.instrument)
    BY <1>8, <2>1 DEF IsSegmented, OMPS, IsOMPSScience
  <2> QED
    BY <1>8, <2>1, <2>3, <2>4, SingleOnTrack
<1>10. CASE DecodeOMPSFirstSegment
  <2>1. /\ pc = "omps" /\ ~IsOMPSScience /\ m_pHeader.sequenceFlag # "STANDALONE"
        /\ ReadVector(0, OMPSLength, "segment") /\ contCount' = 0
        /\ UNCHANGED <<item, m_pHeader, index>>
    BY <1>1, <1>10 DEF DecodeOMPSFirstSegment
  <2>2. 0 + OMPSLength = PacketLength(m_pHeader) - 4
    BY <1>8, <2>1
  <2>3. cursor' = EndAt(index) /\ eof' = FALSE /\ pc' = "segment"
    BY <1>8, <2>1, <2>2, RestOfPacket
  <2>4. IsSegmented(Packets[index], item.instrument)
    BY <1>8, <2>1 DEF IsSegmented, OMPS
  <2> QED
    BY <1>8, <2>1, <2>3, <2>4, FirstOnTrack
<1>11. CASE DecodeScienceFirstSegment
  <2>1. /\ pc = "omps" /\ IsOMPSScience /\ contCount' = 0
        /\ ReadVector(HKLength, OMPSLength - HKLength, "segment")
        /\ UNCHANGED <<item, m_pHeader, index>>
    BY <1>11 DEF DecodeScienceFirstSegment
  <2>2. HKLength + (OMPSLength - HKLength) = PacketLength(m_pHeader) - 4
    BY <1>1, <1>8, <2>1
  <2>3. cursor' = EndAt(index) /\ eof' = FALSE /\ pc' = "segment"
    BY <1>1, <1>8, <2>1, <2>2, RestOfPacket
  <2>4. IsSegmented(Packets[index], item.instrument)
    BY <1>8, <2>1 DEF IsSegmented, OMPS, IsOMPSScience
  <2> QED
    BY <1>8, <2>1, <2>3, <2>4, FirstOnTrack
<1>12. ~(DecodeFirstGroup \/ DecodeNextGroup \/ LeaveGroups)
  BY <1>1 DEF DecodeFirstGroup, DecodeNextGroup, LeaveGroups
<1> QED
  BY <1>4, <1>5, <1>7, <1>9, <1>10, <1>11, <1>12 DEF Decode, DecodeOMPS

\* The loops over segments read the packets behind the first one, and stop
\* where Decoding says that they stop.
LEMMA SegmentsOnTrack ==
  ASSUME IInv, Regular, Segments
  PROVE  OnTrack'
<1>1. TypeOK /\ item \in Items /\ OnTrack /\ Whole(item)
      /\ contCount = 0 /\ index \in 0 .. Len(Packets)
      /\ DOMAIN Packets = 1 .. Len(Packets) /\ Len(Packets) \in Nat
  BY StreamTypes DEF IInv, Regular, OnTrack, TypeOK, Packets
<1>2. CASE ReadSegment
  <2>1. /\ pc = "segment" /\ InSegments
        /\ UNCHANGED <<item, contCount, index>>
    BY <1>1, <1>2 DEF ReadSegment, OnTrack
  <2>2. PICK k \in index .. Len(Packets) : AtSegment(k)
    BY <1>1, <2>1 DEF OnTrack, AtSomeSegment
  <2>3. PICK h \in HeadersHere :
          m_pHeader' = h /\ ReadVector(HeaderSize(h), PacketLength(h), "while")
    BY <1>2 DEF ReadSegment
  <2>4. /\ k \in DOMAIN Packets /\ index # 0 /\ index \in DOMAIN Packets
        /\ eof = FALSE /\ cursor = EndAt(k) /\ NoLastUpTo(index, k)
        /\ k \in Nat /\ index \in Nat /\ index <= k
    BY <1>1, <2>1, <2>2 DEF AtSegment, InSegments
  <2>5. InSegments'
    BY <2>1 DEF InSegments, Packets
  <2>6. CASE k # Len(Packets)
    <3>1. k + 1 \in DOMAIN Packets /\ Packets[k + 1].start = cursor
      BY <1>1, <2>4, <2>6, Landmarks
    <3>2. h = Packets[k + 1]
      BY <1>1, <2>3, <3>1, AtPacket
    <3>3. /\ HeaderSize(h) \in Nat /\ PacketLength(h) \in Int /\ PacketLength(h) >= 0
          /\ cursor + (HeaderSize(h) + PacketLength(h)) = EndAt(k + 1)
          /\ EndAt(k + 1) <= item.size /\ EndAt(k + 1) \in Nat
      <4>1. /\ HeaderSize(h) \in Nat /\ PacketLength(h) \in Int
            /\ PacketLength(h) >= 0 /\ h.start \in Nat /\ h.start = cursor
            /\ h.start + HeaderSize(h) + PacketLength(h) = EndAt(k + 1)
            /\ EndAt(k + 1) <= item.size /\ EndAt(k + 1) \in Nat
        BY <1>1, <3>1, <3>2, RegularPacket
      <4> QED
        BY <4>1
    <3>4. cursor' = EndAt(k + 1) /\ eof' = FALSE /\ pc' = "while"
      BY <1>1, <2>3, <2>4, <3>3, VectorReads
    <3>5. k + 1 \in index + 1 .. Len(Packets) /\ (k + 1) - 1 = k
      BY <1>1, <2>4, <3>1
    <3>6. BehindSegment(k + 1)'
      BY <2>1, <2>3, <2>4, <3>2, <3>4, <3>5
      DEF BehindSegment, NoLastUpTo, Packets, EndAt
    <3>7. BehindSomeSegment'
      BY <2>1, <3>5, <3>6 DEF BehindSomeSegment, BehindSegment, NoLastUpTo, Packets,
                              EndAt
    <3> QED
      BY <1>1, <2>1, <2>5, <3>4, <3>7 DEF OnTrack
  <2>7. CASE k = Len(Packets)
    <3>1. cursor = item.size /\ cursor = EndAt(Len(Packets))
          /\ NoLastUpTo(index, Len(Packets))
      BY <1>1, <2>4, <2>7, Landmarks
    <3>2. ~Closed(item)
      <4>1. LastsAfter(Packets, index) = {}
        BY <1>1, <2>4, <3>1, SegmentEnds
      <4>2. index \in TurnStarts(item)
        BY <1>1, <2>4 DEF OnTrack
      <4> QED
        BY <2>1, <4>1, <4>2 DEF Closed, InSegments, Packets
    <3>3. h \in Header /\ HeaderSize(h) \in Nat /\ HeaderSize(h) > 0
          /\ PacketLength(h) \in Int
      BY <1>1, HeadersAreHeaders, LengthOfHeaders
    <3>4. /\ pc' \in {"while", "terminated"}
          /\ pc' = "while" => cursor' = item.size /\ eof' = TRUE
      BY <1>1, <2>3, <3>1, <3>3, VectorReads
    <3>5. pc' = "while" => BehindAll'
      BY <2>1, <3>1, <3>4 DEF BehindAll, NoLastUpTo, Packets, EndAt
    <3>6. eof' => cursor' = item.size
      <4>1. CASE pc' = "while"
        BY <3>4, <4>1
      <4>2. CASE pc' = "terminated"
        BY <2>3, <2>4, <4>2 DEF ReadVector
      <4> QED
        BY <3>4, <4>1, <4>2
    <3> QED
      BY <1>1, <2>1, <2>5, <3>2, <3>4, <3>5, <3>6 DEF OnTrack
  <2> QED
    BY <2>6, <2>7
<1>3. ASSUME pc = "while"
      PROVE  /\ InSegments /\ index \in DOMAIN Packets
             /\ \/ \E k \in index + 1 .. Len(Packets) : BehindSegment(k)
                \/ BehindAll
  BY <1>1, <1>3 DEF OnTrack, InSegments, BehindSomeSegment
<1>4. CASE NextSegment
  <2>1. /\ pc = "while" /\ m_pHeader.sequenceFlag # "LAST" /\ ~eof
        /\ pc' = "segment"
        /\ UNCHANGED <<item, cursor, eof, m_pHeader, contCount, index>>
    BY <1>4 DEF NextSegment
  <2>2. PICK k \in index + 1 .. Len(Packets) : BehindSegment(k)
    BY <1>3, <2>1 DEF BehindAll
  <2>3. NoLastUpTo(index, k)
    <3>1. \A j \in index + 1 .. k : j \in index + 1 .. k - 1 \/ j = k
      BY <1>1, <2>2
    <3> QED
      BY <2>1, <2>2, <3>1 DEF BehindSegment, NoLastUpTo
  <2>4. k \in index .. Len(Packets) /\ AtSegment(k)
    BY <1>1, <2>1, <2>2, <2>3 DEF BehindSegment, AtSegment
  <2>5. AtSomeSegment'
    BY <2>1, <2>4 DEF AtSomeSegment, AtSegment, NoLastUpTo, Packets, EndAt
  <2>6. InSegments'
    BY <1>3, <2>1 DEF InSegments, Packets
  <2> QED
    BY <1>1, <2>1, <2>5, <2>6 DEF OnTrack
<1>5. CASE LeaveSegments
  <2>1. /\ pc = "while"
        /\ m_pHeader.sequenceFlag = "LAST" \/ eof
        /\ pc' = "test"
        /\ UNCHANGED <<item, cursor, eof, m_pHeader, contCount, index>>
    BY <1>1, <1>5 DEF LeaveSegments
  <2>2. DecodeEnd(Packets, index, item.instrument) = SegmentEnd(Packets, index)
        /\ index # 0
    BY <1>3, <2>1 DEF DecodeEnd, InSegments
  <2>3. ASSUME NEW k \in index + 1 .. Len(Packets), BehindSegment(k)
        PROVE  SegmentEnd(Packets, index) = k /\ cursor = EndAt(k)
    BY <1>1, <1>3, <2>1, <2>3, SegmentEnds DEF BehindSegment
  <2>4. ASSUME BehindAll
        PROVE  /\ SegmentEnd(Packets, index) = Len(Packets)
               /\ cursor = EndAt(Len(Packets))
    BY <1>1, <1>3, <2>1, <2>4, SegmentEnds DEF BehindAll
  <2>5. /\ SegmentEnd(Packets, index) \in DOMAIN Packets
        /\ cursor = EndAt(SegmentEnd(Packets, index))
    BY <1>1, <1>3, <2>1, <2>3, <2>4
  <2>6. AtTest'
    BY <2>1, <2>2, <2>5 DEF AtTest, Packets, EndAt
  <2> QED
    BY <1>1, <2>1, <2>6 DEF OnTrack
<1> QED
  BY <1>2, <1>4, <1>5 DEF Segments

\* The invariant holds throughout every run.
THEOREM Invariant == Safety => []IInv
<1>1. Init => IInv
  <2> SUFFICES ASSUME Init PROVE IInv
    OBVIOUS
  <2>1. TypeOK
    <3>1. item \in Item /\ m_pHeader \in Header
      BY ItemAssumption, HeaderAssumption DEF Init
    <3>2. 0 \in 0 .. item.size /\ 0 \in 0 .. Len(item.packets)
      BY <3>1 DEF Item
    <3> QED
      BY <3>1, <3>2 DEF Init, TypeOK, PC
  <2>2. OnTrack
    BY DEF Init, OnTrack, AtTest
  <2> QED
    BY <2>1, <2>2 DEF Init, IInv
<1>2. IInv /\ [Next]_vars => IInv'
  <2> SUFFICES ASSUME IInv, [Next]_vars PROVE IInv'
    OBVIOUS
  <2>1. TypeOK' /\ item' = item
    <3>1. item' = item
      BY DEF Next, vars, DecomLoop, Decode, DecodeOMPS, Segments, LeaveLoop,
         GetHeader, DecodeSingle, DecodeFirstSegment, ReadOMPSHeader,
         DecodeOMPSSingle, DecodeOMPSFirstSegment, DecodeScienceFirstSegment,
         DecodeFirstGroup, DecodeNextGroup, LeaveGroups, ReadSegment,
         NextSegment, LeaveSegments, Done
    <3> QED
      BY <3>1, StepTypeOK DEF IInv
  <2> SUFFICES ASSUME Regular PROVE OnTrack'
    BY <2>1 DEF IInv, Regular
  <2>2. CASE LeaveLoop
    <3>1. TypeOK /\ OnTrack /\ item.size \in Nat /\ cursor \in Nat
          /\ cursor <= item.size
      BY StreamTypes DEF IInv
    <3>2. cursor = item.size
      BY <2>2, <3>1 DEF LeaveLoop, AtEnd, OnTrack
    <3> QED
      BY <2>2, <3>1, <3>2 DEF LeaveLoop, OnTrack
  <2>3. CASE GetHeader
    BY <2>3, GetHeaderOnTrack
  <2>4. CASE Decode \/ DecodeOMPS
    BY <2>4, DecodeOnTrack
  <2>5. CASE Segments
    BY <2>5, SegmentsOnTrack
  <2>6. CASE Done \/ UNCHANGED vars
    <3>1. UNCHANGED <<item, cursor, eof, m_pHeader, contCount, pc, index>> /\ OnTrack
      BY <2>6 DEF Done, vars, IInv
    <3>2. AtTest => AtTest'
      BY <3>1 DEF AtTest, Packets, EndAt
    <3>3. /\ InPacket(0) => InPacket(0)'
          /\ InPacket(4) => InPacket(4)'
      BY <3>1 DEF InPacket, Packets
    <3>4. /\ OMPS => OMPS'
          /\ InSegments => InSegments'
      BY <3>1 DEF OMPS, InSegments, Packets
    <3>5. AtSomeSegment => AtSomeSegment'
      BY <3>1 DEF AtSomeSegment, AtSegment, NoLastUpTo, Packets, EndAt
    <3>6. BehindSomeSegment => BehindSomeSegment'
      BY <3>1 DEF BehindSomeSegment, BehindSegment, NoLastUpTo, Packets, EndAt
    <3>7. BehindAll => BehindAll'
      BY <3>1 DEF BehindAll, NoLastUpTo, Packets, EndAt
    <3>8. /\ contCount' = 0 /\ pc' # "group"
          /\ eof' => cursor' = item'.size
          /\ index' # 0 => index' \in TurnStarts(item')
          /\ pc' = "end" => cursor' = item'.size
          /\ Closed(item') => ~eof' /\ pc' # "terminated"
      BY <3>1 DEF OnTrack
    <3>9. /\ pc' = "test" => AtTest'
          /\ pc' = "decode" => InPacket(0)'
          /\ pc' = "omps" => InPacket(4)' /\ OMPS'
      BY <3>1, <3>2, <3>3, <3>4 DEF OnTrack
    <3>10. pc' = "segment" => InSegments' /\ AtSomeSegment'
      BY <3>1, <3>4, <3>5 DEF OnTrack
    <3>11. pc' = "while" => InSegments' /\ (BehindSomeSegment' \/ BehindAll')
      BY <3>1, <3>4, <3>6, <3>7 DEF OnTrack
    <3> QED
      BY <3>8, <3>9, <3>10, <3>11 DEF OnTrack
  <2> QED
    BY <2>2, <2>3, <2>4, <2>5, <2>6 DEF Next, DecomLoop
<1> QED
  BY <1>1, <1>2, PTL DEF Safety

\* The variables keep their types; the cursor never leaves the item.
THEOREM TypeCorrect == Safety => []TypeOK
BY Invariant, PTL DEF IInv

\* Whatever the lengths in well-formed data, the decoder reads each header
\* where a packet begins.
THEOREM StaysOnPackets == Safety => []HeadersAtPackets
<1>1. IInv => HeadersAtPackets
  <2> SUFFICES ASSUME IInv, Regular, pc \in ReadsHeader PROVE OnPacket
    BY DEF HeadersAtPackets, Regular
  <2>1. TypeOK /\ item \in Items /\ OnTrack /\ Whole(item)
        /\ DOMAIN Packets = 1 .. Len(Packets) /\ Len(Packets) \in Nat
        /\ index \in 0 .. Len(Packets)
    BY StreamTypes DEF IInv, Regular, TypeOK, Packets
  <2>2. ASSUME NEW k \in DOMAIN Packets, cursor = EndAt(k) PROVE OnPacket
    <3>1. CASE k = Len(Packets)
      BY <2>1, <2>2, <3>1, Landmarks DEF OnPacket
    <3>2. CASE k # Len(Packets)
      BY <2>1, <2>2, <3>2, Landmarks, AtPacket DEF OnPacket
    <3> QED
      BY <3>1, <3>2
  <2>3. ASSUME cursor = 0 PROVE OnPacket
    <3>1. CASE Packets = <<>>
      BY <2>1, <2>3, <3>1 DEF Whole, OnPacket, Packets
    <3>2. CASE Packets # <<>>
      <4>1. 1 \in DOMAIN Packets
        BY <2>1, <3>2, StreamTypes DEF Packets
      <4>2. Packets[1].start = 0
        BY <2>1, <4>1, ItemAssumption DEF Packets
      <4> QED
        BY <2>1, <2>3, <4>1, <4>2, AtPacket DEF OnPacket
    <3> QED
      BY <3>1, <3>2
  <2>4. pc = "test" \/ pc = "segment"
    BY <2>1 DEF ReadsHeader, OnTrack
  <2>5. CASE pc = "test"
    BY <2>1, <2>2, <2>3, <2>5 DEF OnTrack, AtTest
  <2>6. CASE pc = "segment"
    <3>1. PICK k \in index .. Len(Packets) : cursor = EndAt(k)
      BY <2>1, <2>6 DEF OnTrack, AtSomeSegment, AtSegment
    <3>2. k \in DOMAIN Packets
      BY <2>1, <2>6, <3>1 DEF OnTrack, InSegments
    <3> QED
      BY <2>2, <3>1, <3>2
  <2> QED
    BY <2>4, <2>5, <2>6
<1> QED
  BY <1>1, Invariant, PTL

\* What a turn of the loop reads is what Decoding, and with it Pipeline, says
\* that it reads.
THEOREM TurnsAgree == Safety => []TurnAgreesWithDecoding
<1>1. IInv => TurnAgreesWithDecoding
  <2> SUFFICES ASSUME IInv, Regular, pc = "test", index # 0
               PROVE  cursor = EndAt(DecodeEnd(Packets, index, item.instrument))
    BY DEF TurnAgreesWithDecoding, Regular, EndAt, Packets
  <2> QED
    BY DEF IInv, OnTrack, AtTest
<1> QED
  BY <1>1, Invariant, PTL

\* The loop reads all of well-formed data.
THEOREM NothingLeft == Safety => []WholeItemRead
<1>1. IInv => WholeItemRead
  BY DEF IInv, OnTrack, Regular, WholeItemRead
<1> QED
  BY <1>1, Invariant, PTL

\* If every turn of the loop that begins with a segmented packet has a LAST
\* behind it, nothing is read that is not there, in any of the loops.
THEOREM NothingBeyond == Safety => []NothingReadBehindEnd
<1>1. IInv => NothingReadBehindEnd
  BY DEF IInv, OnTrack, Regular, NothingReadBehindEnd
<1> QED
  BY <1>1, Invariant, PTL
=============================================================================
