------------------------------ MODULE MCFraming ------------------------------
(***************************************************************************)
(* Instances of Framing for TLC: every item of up to MaxPackets packets    *)
(* from a set of packets that differ in flag, headers and length, whole    *)
(* and cut off inside its last packet.                                     *)
(***************************************************************************)
EXTENDS Framing

CONSTANT MaxPackets

MCApids == {1, 560}
MCEntries == {1}
MCHKLength == 143

H(apid, flag, secondary, length, count) ==
  [APID |-> apid, sequenceFlag |-> flag, secondaryHeader |-> secondary,
   length |-> length, contCount |-> count, start |-> 0]

MCGarbage == {H(1, "MIDDLE", FALSE, 2, 0), H(1, "LAST", TRUE, 1, 1),
              H(2047, "STANDALONE", FALSE, 65536, 0),
              H(560, "FIRST", TRUE, 12, 0)}

\* Packets of VIIRS: all flags, a header alone, no secondary header, and a
\* packet too short for its secondary header.
VIIRSPackets == {H(1, "STANDALONE", TRUE, 8, 0), H(1, "STANDALONE", FALSE, 1, 0),
                 H(1, "FIRST", TRUE, 11, 0), H(1, "MIDDLE", TRUE, 9, 0),
                 H(1, "LAST", TRUE, 10, 0), H(1, "STANDALONE", TRUE, 7, 0)}

\* Packets of OMPS: science, others, and one too short for the OMPS header.
OMPSPackets == {H(1, "STANDALONE", TRUE, 13, 0), H(1, "FIRST", TRUE, 14, 0),
                H(1, "MIDDLE", TRUE, 12, 0), H(1, "LAST", TRUE, 13, 0),
                H(560, "FIRST", TRUE, 157, 0), H(560, "LAST", TRUE, 160, 0),
                H(1, "STANDALONE", TRUE, 9, 0)}

SuperPackets == {H(1, "FIRST", TRUE, 24, 1), H(1, "LAST", TRUE, 13, 0)}

\* s with the offsets filled in.
Placed(s) ==
  LET offset[i \in 1 .. Len(s)] ==
        IF i = 1 THEN 0 ELSE offset[i - 1] + 6 + s[i - 1].length
  IN  [i \in 1 .. Len(s) |-> [s[i] EXCEPT !.start = offset[i]]]

UpTo(n, packets) == UNION {[1 .. k -> packets] : k \in 1 .. n}

\* Whole, without the last byte, and without the last byte of the primary
\* header of the last packet.
ItemsOf(instrument, seqs) ==
  UNION {LET p == Placed(s)
             last == p[Len(p)]
         IN  {[instrument |-> instrument, packets |-> p, size |-> n] :
                n \in {EndOf(last), EndOf(last) - 1, last.start + 5}} : s \in seqs}

MCItems == ItemsOf("VIIRS", UpTo(MaxPackets, VIIRSPackets))
           \cup ItemsOf("OMPS", UpTo(MaxPackets, OMPSPackets))
           \cup ItemsOf("OMPS", UpTo(MaxPackets, SuperPackets))

SuperItems == ItemsOf("OMPS", UpTo(MaxPackets, SuperPackets))
=============================================================================
