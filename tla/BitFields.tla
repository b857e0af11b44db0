------------------------------- MODULE BitFields -------------------------------
(***************************************************************************)
(* ByteManipulation, and the bit range DatabaseReader::getByteBit takes    *)
(* from the database.                                                      *)
(*                                                                         *)
(* An unsigned integer is the set of the weights of its bits: 5 is {0, 2}. *)
(* That holds for every width, and widths are what matters here.  A byte   *)
(* is a subset of 0 .. 7.                                                  *)
(*                                                                         *)
(* The parameters start and len are 32-bit and unsigned.  A len below zero *)
(* stands for the value that is 2^32 greater.                              *)
(***************************************************************************)
EXTENDS Integers, Sequences

Low(n) == 0 .. n - 1

ShiftLeft(v, n) == {w + n : w \in v}
ShiftRight(v, n) == {w - n : w \in {x \in v : x >= n}}

-----------------------------------------------------------------------------
(* Merging: the first byte is the most significant one. *)

\* Wrong: the bytes are swapped.
MergeSwapped(b0, b1) == ShiftLeft(b1, 8) \cup b0

MergeBytes16(b0, b1) == ShiftLeft(b0, 8) \cup b1

\* mergeBytes with num = 3.
MergeBytes3(b0, b1, b2) == ShiftLeft(MergeBytes16(b0, b1), 8) \cup b2

-----------------------------------------------------------------------------
(***************************************************************************)
(* Extracting.  But for extract8, the value is written as a string of      *)
(* width binary digits, most significant first, of which substr takes len  *)
(* from position start on, or what there is.                               *)
(***************************************************************************)
Substring(v, width, start, len) ==
  LET stop == IF len < 0 \/ start + len > width THEN width ELSE start + len
  IN  {stop - 1 - p : p \in {d \in start .. stop - 1 : width - 1 - d \in v}}

\* substr throws, or stoul does, which gets no digit.
NoDigits(width, start, len) == start >= width \/ len = 0

Extract8Signed(v, start, len) == Substring(v, 8, start, len)
Extract16(v, start, len) == Substring(v, 16, start, len)
Extract32(v, start, len) == Substring(v, 32, start, len)

\* extract8 counts from the least significant bit.  Its mask has len - start
\* bits, modulo 32: that is what the shift of the x86 makes of 1 << n for an n
\* that does not fit.
Extract8(v, start, len) == ShiftRight(v, start) \cap Low((len - start) % 32)

-----------------------------------------------------------------------------
(***************************************************************************)
(* The bits column of the database: empty, a single bit, or two numbers    *)
(* with a dash.  Both ends are 0 before.  For a single bit, the assignment *)
(* to i_bitUpper changes the local pointer; a number of two digits without *)
(* a dash is passed over.                                                  *)
(***************************************************************************)
BitLower(bits) ==
  IF bits = <<>> \/ (Len(bits) = 1 /\ bits[1] > 9) THEN 0 ELSE bits[1]
BitUpper(bits) == IF Len(bits) = 2 THEN bits[2] ELSE 0
=============================================================================
