----------------------------- MODULE RowDelivery -----------------------------
(***************************************************************************)
(* What the user is promised, with no threads and no queues (section       *)
(* "Control Flow of Decom" of doxygen/control.dox): packets are accepted   *)
(* one by one, each becomes a row of the file of its APID in the order of  *)
(* acceptance, and completion is reported only when every accepted packet  *)
(* has been written.  The run may also be cut short by the formatting      *)
(* step, which likewise starts only when everything has been written.      *)
(***************************************************************************)
EXTENDS Naturals, Sequences

CONSTANT
  Keys       (* one file per key                                           *)

VARIABLES
  accepted,  (* per key, the rows accepted so far                          *)
  written,   (* per key, the rows of the file                              *)
  phase      (* open, sealed, reported or aborted                          *)

vars == <<accepted, written, phase>>

Init ==
  /\ accepted = [k \in Keys |-> <<>>]
  /\ written = [k \in Keys |-> <<>>]
  /\ phase = "open"

\* Some row r, whatever it is, is accepted for k: the new last element.
Accept(k) ==
  /\ phase = "open"
  /\ accepted'[k] # <<>>
  /\ LET r == accepted'[k][Len(accepted'[k])]
     IN  accepted' = [accepted EXCEPT ![k] = Append(@, r)]
  /\ UNCHANGED <<written, phase>>

Write(k) ==
  /\ Len(written[k]) < Len(accepted[k])
  /\ written' = [written EXCEPT
                   ![k] = Append(@, accepted[k][Len(written[k]) + 1])]
  /\ UNCHANGED <<accepted, phase>>

Seal ==
  /\ phase = "open"
  /\ phase' = "sealed"
  /\ UNCHANGED <<accepted, written>>

Conclude ==
  /\ phase = "sealed"
  /\ written = accepted
  /\ phase' \in {"reported", "aborted"}
  /\ UNCHANGED <<accepted, written>>

Next ==
  \/ \E k \in Keys : Accept(k) \/ Write(k)
  \/ Seal
  \/ Conclude

Fairness ==
  /\ \A k \in Keys : WF_vars(Write(k))
  /\ WF_vars(Seal)
  /\ WF_vars(Conclude)

Safety == Init /\ [][Next]_vars
Spec == Safety /\ Fairness
=============================================================================
