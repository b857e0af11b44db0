------------------------------- MODULE Decoding -------------------------------
(***************************************************************************)
(* What the Decom thread makes of the packets of one byte vector: how far  *)
(* one decode reads, and which DataTypes::Packet it returns.  The grain is *)
(* the CCSDS packet; the bytes are the business of module Framing.         *)
(*                                                                         *)
(* A Packet is built by default initialisation, so its field ignored has   *)
(* no value until checkPackEntries sets it, and its apid none until        *)
(* getHeaderData does.  A field that is read without having been set may   *)
(* hold anything: the operators below return the set of the outcomes.      *)
(*                                                                         *)
(* Super-segmented OMPS packets (a continuation count other than zero)     *)
(* lose the packet boundaries and are left to module Framing.              *)
(***************************************************************************)
EXTENDS Integers, Sequences, FiniteSetsExt

CONSTANTS
  Apids,     (* the APIDs that occur                                       *)
  Entries    (* those with a database entry that is not filtered out       *)

ASSUME ApidAssumption == Apids \subseteq Nat /\ Entries \subseteq Apids

SequenceFlag == {"MIDDLE", "FIRST", "LAST", "STANDALONE"}

(***************************************************************************)
(* A packet in the input: its number in the input, the APID and sequence   *)
(* flag of its primary header, whether checkValidHeader accepts that       *)
(* header, and whether data follows the headers.                           *)
(***************************************************************************)
WirePacket == [id : Nat, APID : Apids, sequenceFlag : SequenceFlag,
               valid : BOOLEAN, hasData : BOOLEAN]

(***************************************************************************)
(* A DataTypes::Packet.  data names the packets of the input whose data    *)
(* fields were decoded into it; segments is history, the packets that the  *)
(* decode read.                                                            *)
(***************************************************************************)
Packet == [apid : Apids, ignored : BOOLEAN, data : Seq(WirePacket),
           segments : Seq(WirePacket)]

\* getEntries leaves in m_mapEntries the entries of this APID that are not
\* ignored; the caches m_mapEntries and m_missingAPIDs save only searching.
HasEntries(apid) == apid \in Entries

ScienceAPIDs == {560, 561, 592, 593, 608, 609, 616, 617}

-----------------------------------------------------------------------------
\* Where the loops "until LAST or the end of the buffer" stop that begin
\* with packet i.  They read the header of the next packet before they test,
\* and they do not look whether that header is valid or of the same APID.
LastsAfter(p, i) == {j \in i + 1 .. Len(p) : p[j].sequenceFlag = "LAST"}
SegmentEnd(p, i) ==
  IF LastsAfter(p, i) = {} THEN Len(p) ELSE Min(LastsAfter(p, i))

IsScience(w, instrument) == instrument = "OMPS" /\ w.APID \in ScienceAPIDs

\* decodeData and decodeOMPS choose the loop or a single packet.
IsSegmented(w, instrument) ==
  IF instrument = "OMPS"
  THEN w.APID \in ScienceAPIDs \/ w.sequenceFlag # "STANDALONE"
  ELSE w.sequenceFlag = "FIRST"

DecodeEnd(p, i, instrument) ==
  IF IsSegmented(p[i], instrument) THEN SegmentEnd(p, i) ELSE i

-----------------------------------------------------------------------------
\* The packets a function may return that sets apid and data and, with
\* ignored a set of Booleans, leaves ignored unset or sets it.
Outcomes(apid, ignored, data, segments) ==
  [apid : apid, ignored : ignored, data : {data}, segments : {segments}]

\* One packet.  Without entries for its APID it is ignored, unless it is a
\* header alone.
Standalone(w) ==
  CASE HasEntries(w.APID) ->
         Outcomes({w.APID}, BOOLEAN, <<w>>, <<w>>)
    [] ~HasEntries(w.APID) /\ w.hasData ->
         Outcomes(Apids, {TRUE}, <<>>, <<w>>)
    [] ~HasEntries(w.APID) /\ ~w.hasData ->
         Outcomes({w.APID}, BOOLEAN, <<>>, <<w>>)

\* Several packets.  The first one is decoded for every entry, after which
\* segmentLastByte is the number of entries: nothing is left to decode in
\* the others.  What decodeData found out about ignored is not passed on.
Segmented(s) ==
  Outcomes({Head(s).APID}, BOOLEAN,
           IF HasEntries(Head(s).APID) THEN <<Head(s)>> ELSE <<>>, s)

\* OMPS science.  Every packet contributes pixels.  Without entries the
\* header of the last packet read decides; if the buffer ended before a LAST
\* packet, that header was read past the end and holds anything.
Science(s) ==
  LET last == s[Len(s)]
      whole == Len(s) > 1 /\ last.sequenceFlag = "LAST"
  IN  CASE HasEntries(Head(s).APID) ->
             Outcomes({Head(s).APID}, BOOLEAN, s, s)
        [] ~HasEntries(Head(s).APID) /\ whole /\ last.hasData ->
             Outcomes({Head(s).APID}, {TRUE}, <<>>, s)
        [] ~HasEntries(Head(s).APID) /\ whole /\ ~last.hasData ->
             Outcomes({last.APID}, BOOLEAN, <<>>, s)
        [] OTHER ->
             Outcomes({Head(s).APID}, {TRUE}, <<>>, s)
             \cup Outcomes(Apids, BOOLEAN, <<>>, s)

\* Decom::decodeData at packet i of p.
Decoded(p, i, instrument) ==
  LET s == SubSeq(p, i, DecodeEnd(p, i, instrument))
  IN  CASE IsScience(p[i], instrument) -> Science(s)
        [] ~IsScience(p[i], instrument) /\ IsSegmented(p[i], instrument) ->
             Segmented(s)
        [] OTHER -> Standalone(p[i])
=============================================================================
