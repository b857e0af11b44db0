--------------------------------- MODULE MCGui ---------------------------------
(***************************************************************************)
(* Instances of Gui for TLC.                                               *)
(***************************************************************************)
EXTENDS Gui

F(name, sat, time, groups, damaged, wellFormed) ==
  [name |-> name, sat |-> sat, time |-> time, groups |-> groups,
   damaged |-> damaged, wellFormed |-> wellFormed]

MCGroups == {"ATMS", "VIIRS"}

\* HDF5 files of several satellites, two of them of the same time, and PDS files
\* with a header file.
Mixed == [h5 |-> {F("a", "j01", 2, <<"ATMS", "VIIRS">>, {}, TRUE),
                  F("b", "j09", 1, <<"VIIRS">>, {}, TRUE),
                  F("h", "npp", 1, <<>>, {}, TRUE)},
          pds |-> {F("c", "-", 0, <<"ATMS">>, {}, TRUE), F("d", "-", 0, <<>>, {}, TRUE)}]

\* One HDF5 file with a damaged group, no PDS file.
Damaged == [h5 |-> {F("e", "npp", 1, <<"ATMS">>, {"ATMS"}, TRUE)}, pds |-> {}]

\* A file with a name that cannot be taken apart; header files only.
Malformed == [h5 |-> {F("f", "j02", 1, <<"ATMS">>, {}, FALSE)},
              pds |-> {F("g", "-", 0, <<>>, {}, TRUE)}]

MCFolders == {Mixed, Damaged, Malformed}
=============================================================================
