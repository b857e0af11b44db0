------------------------------- MODULE Selection -------------------------------
(***************************************************************************)
(* The loops that go through a vector from its front and copy some of its  *)
(* elements.                                                               *)
(***************************************************************************)
EXTENDS Integers, Sequences

\* What has been copied when the first n elements of s were looked at.
KeptUpTo(s, I) ==
  LET upTo[n \in 0 .. Len(s)] ==
        IF n = 0 THEN <<>>
        ELSE IF n \in I THEN Append(upTo[n - 1], s[n]) ELSE upTo[n - 1]
  IN  upTo

\* The elements of s at the places in I, in their order.
Kept(s, I) == KeptUpTo(s, I)[Len(s)]
=============================================================================
