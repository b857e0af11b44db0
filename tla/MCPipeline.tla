------------------------------ MODULE MCPipeline ------------------------------
(***************************************************************************)
(* Instances of Pipeline for TLC: runs with up to three groups and up to   *)
(* four packets in a group.                                                *)
(***************************************************************************)
EXTENDS Pipeline, TLC

\* 1 is ordinary, 528 is ATMS science, 560 OMPS science; 2 and 561, OMPS
\* science too, have no entries.
MCApids == {1, 2, 528, 560, 561}
MCEntries == {1, 528, 560}

MCInstruments == {NoInstrument, "ATMS", "CERES", "CrIS", "OMPS", "VIIRS"}

W(id, apid, flag) ==
  [id |-> id, APID |-> apid, sequenceFlag |-> flag, valid |-> TRUE,
   hasData |-> TRUE]
Invalid(w) == [w EXCEPT !.valid = FALSE]
HeaderOnly(w) == [w EXCEPT !.hasData = FALSE]

G(instrument, packets) ==
  [instrument |-> instrument, selected |-> TRUE, zeroed |-> FALSE,
   packets |-> packets]
Unselected(g) == [g EXCEPT !.selected = FALSE]
Zeroed(g) == [g EXCEPT !.zeroed = TRUE]

Run(fmt, groups) == [format |-> fmt, groups |-> groups]

\* Two instruments, whose writers start while the next group is under way.
TwoInstruments ==
  Run("H5", << G("ATMS", <<W(1, 528, "STANDALONE"), W(2, 528, "STANDALONE")>>),
               Unselected(G("CERES", <<W(3, 1, "STANDALONE")>>)),
               G("VIIRS", <<W(4, 1, "STANDALONE"), W(5, 528, "STANDALONE")>>) >>)

\* A segmented packet with a packet of another APID inside, one without its
\* LAST packet, and an invalid header.
SegmentsMixed ==
  Run("H5", << G("VIIRS", << W(1, 1, "FIRST"), W(2, 528, "STANDALONE"),
                             Invalid(W(3, 1, "MIDDLE")), W(4, 1, "LAST") >>),
               G("VIIRS", << W(5, 1, "STANDALONE"), Invalid(W(6, 1, "STANDALONE")),
                             W(7, 1, "STANDALONE") >>),
               G("ATMS", << W(8, 1, "FIRST"), W(9, 1, "MIDDLE") >>) >>)

\* Packets without entries: single, header only and segmented.
Filtered ==
  Run("H5", << G("CrIS", << W(1, 2, "STANDALONE"),
                            HeaderOnly(W(2, 2, "STANDALONE")),
                            W(3, 1, "STANDALONE"), W(4, 1, "MIDDLE") >>),
               G("CrIS", << W(5, 2, "FIRST"), W(6, 2, "LAST") >>) >>)

\* OMPS science, other segmented OMPS packets, and single ones.
Ozone ==
  Run("H5", << G("OMPS", << W(1, 560, "FIRST"), W(2, 560, "MIDDLE"),
                            W(3, 560, "LAST"), W(4, 1, "STANDALONE") >>),
               G("OMPS", << W(5, 1, "MIDDLE"), W(6, 1, "LAST"),
                            W(7, 560, "STANDALONE") >>) >>)

\* PDS: a header file, a file that was not selected, and two data files.
F(packets) == G(NoInstrument, packets)

Level0 ==
  Run("PDS", << Zeroed(F(<< >>)),
                F(<< W(1, 528, "STANDALONE") >>),
                Unselected(F(<< W(2, 1, "STANDALONE") >>)),
                F(<< W(3, 1, "STANDALONE"), W(4, 528, "STANDALONE") >>) >>)

\* OMPS science without entries: whole, with a header alone at its end, and
\* cut off.
OzoneFiltered ==
  Run("H5", << G("OMPS", << W(1, 561, "FIRST"), W(2, 561, "LAST"),
                            W(3, 561, "FIRST"), HeaderOnly(W(4, 1, "LAST")),
                            W(5, 561, "FIRST") >>) >>)

\* A row without data in the file of APID 528: the cut-off OMPS packet has no
\* entries, and its unset apid may be 528.
ShortRow ==
  Run("H5", << G("ATMS", <<W(1, 528, "STANDALONE")>>),
               G("OMPS", <<W(2, 561, "FIRST")>>) >>)

Nothing == Run("PDS", << >>)

MCInputs == {TwoInstruments, SegmentsMixed, Filtered, Ozone, OzoneFiltered,
             ShortRow, Level0, Nothing}

\* The input for the run that looks for a disagreement.
SmallInputs == {TwoInstruments}
=============================================================================
