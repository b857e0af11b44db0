----------------------------- MODULE MCEntryValues -----------------------------
(***************************************************************************)
(* Instances of EntryValues for TLC: every sorted list of up to two        *)
(* entries from a set that has each type and number of bytes, before,      *)
(* inside and across the end of a packet of five bytes.                    *)
(***************************************************************************)
EXTENDS EntryValues

E(type, byte, bits, length) ==
  [type |-> type, byte |-> byte, bits |-> bits, length |-> length]

Shapes == {[bits |-> <<>>, length |-> 8], [bits |-> <<4, 6>>, length |-> 3],
           [bits |-> <<1, 6>>, length |-> 6], [bits |-> <<1>>, length |-> 12],
           [bits |-> <<5>>, length |-> 1], [bits |-> <<12>>, length |-> 1],
           [bits |-> <<3, 12>>, length |-> 10], [bits |-> <<>>, length |-> 16],
           [bits |-> <<9, 3>>, length |-> 12], [bits |-> <<4, 3>>, length |-> 16],
           [bits |-> <<>>, length |-> 24], [bits |-> <<>>, length |-> 32]}

MCEntries ==
  {E(t, b, s.bits, s.length) : t \in {"UNSIGNED", "SIGNED"}, b \in {5, 6, 9},
                               s \in Shapes}
  \cup {E("FLOAT", b, <<>>, n) : b \in {5, 6, 7}, n \in {32, 64}}

Before(d, e) ==
  d.byte < e.byte \/ (d.byte = e.byte /\ BitLower(d.bits) <= BitLower(e.bits))

Lists == {<<e>> : e \in MCEntries}
         \cup {<<d, e>> : <<d, e>> \in {p \in MCEntries \X MCEntries :
                                          Before(p[1], p[2])}}

Packets == {<<{7, 6, 5, 4}, {0}, {7, 3, 2}, {1, 5}, {7, 0}>>}
Housekeeping == {p \o p : p \in Packets}

In(loop, entries, buf, offset) ==
  [loop |-> loop, entries |-> entries, buf |-> buf, m_offset |-> offset]

MCDecodings ==
  {In("packet", l, p, 6) : l \in Lists, p \in Packets}
  \cup {In("science", l, p, 0) : l \in Lists, p \in Housekeeping}
=============================================================================
