------------------------------ MODULE MCDatabase ------------------------------
(***************************************************************************)
(* Instances of Database for TLC: up to three rows of the satellite's own  *)
(* database, and small files for the instruments.                          *)
(***************************************************************************)
EXTENDS Database

R(mnem, apid, byte, bits, length) ==
  [mnem |-> mnem, columns |-> 4, apid |-> apid, byte |-> byte, bits |-> bits,
   length |-> length]

Header == R("Mnemonic", NoNumber, NoNumber, <<>>, NoNumber)

MCMnemonics == {"Mnemonic", "A", "B", "C", "D", "E", "SPVNO", "bad"}
MCHeaderMnemonics == {"SPVNO"}
MCApids == {0, 1, 2, 3}

DataPool == {R("A", 1, 6, <<>>, 16), R("B", 1, 8, <<4, 6>>, 3), R("C", 1, 8, <<0>>, 1),
             R("D", 2, 7, <<>>, 8), R("E", NoNumber, NoNumber, <<>>, 8),
             R("SPVNO", 1, 0, <<0, 2>>, 3)}
BadPool == {[R("bad", 1, 6, <<>>, 8) EXCEPT !.columns = 2],
            R("bad", 1, 6, <<>>, NoNumber)}

Table(rows) == [exists |-> TRUE, rows |-> <<Header>> \o rows]
Missing == [exists |-> FALSE, rows |-> <<>>]
Empty == [exists |-> TRUE, rows |-> <<>>]

Lists(n) == UNION {{s \in [1 .. k -> DataPool] :
                    \A i, j \in 1 .. k : s[i] = s[j] => i = j} : k \in 0 .. n}

TypeFiles == {Table(s) : s \in Lists(3)} \cup {Table(<<r>>) : r \in BadPool}
             \cup {Missing}
AtmsFiles == {Table(<<>>), Table(<<R("A", 1, 5, <<>>, 8)>>), Empty}
OmpsFiles == {Table(<<R("E", 2, 7, <<>>, 8)>>), Missing}
CeresFiles == {Table(<<>>)}

MCInputs ==
  [files : {[type |-> t, atms |-> a, omps |-> o, ceres |-> c] :
              t \in TypeFiles, a \in AtmsFiles, o \in OmpsFiles, c \in CeresFiles},
   m_allAPIDs : BOOLEAN, m_APIDs : {{}, {1}, {0, 2}}]
=============================================================================
