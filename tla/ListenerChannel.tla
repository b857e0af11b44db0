--------------------------- MODULE ListenerChannel ---------------------------
(***************************************************************************)
(* What a ThreadSafeListenerQueue promises to the threads that use it,     *)
(* with no mutex, no condition variable and no clock: a FIFO channel with  *)
(* one sending thread, which closes the channel after its last message,    *)
(* and listeners each of which is dismissed (listen returns 0) only when   *)
(* the channel is closed and empty.                                        *)
(*                                                                         *)
(* ListenerQueue, the class as it is written, implements this module, and  *)
(* Pipeline uses its queues the way this module says.                      *)
(***************************************************************************)
EXTENDS Channel

CONSTANTS
  Messages,   (* what can be sent                                          *)
  Listeners   (* the threads that call listen                              *)

VARIABLES
  chan,       (* the queue and its flag, a value of module Channel         *)
  sent,       (* history: every message pushed, in order                   *)
  received,   (* history: every message taken, in order                    *)
  dismissed   (* the listeners that were told there is nothing more        *)

vars == <<chan, sent, received, dismissed>>

Init ==
  /\ chan = NewChannel
  /\ sent = <<>>
  /\ received = <<>>
  /\ dismissed = {}

Send(m) ==
  /\ chan.m_active
  /\ chan' = Pushed(chan, m)
  /\ sent' = Append(sent, m)
  /\ UNCHANGED <<received, dismissed>>

Close ==
  /\ chan.m_active
  /\ chan' = SetInactive(chan)
  /\ UNCHANGED <<sent, received, dismissed>>

Receive(l) ==
  /\ l \notin dismissed
  /\ HasItem(chan)
  /\ received' = Append(received, Head(chan.q))
  /\ chan' = Popped(chan)
  /\ UNCHANGED <<sent, dismissed>>

Dismiss(l) ==
  /\ l \notin dismissed
  /\ Drained(chan)
  /\ dismissed' = dismissed \cup {l}
  /\ UNCHANGED <<chan, sent, received>>

Next ==
  \/ \E m \in Messages : Send(m)
  \/ Close
  \/ \E l \in Listeners : Receive(l) \/ Dismiss(l)

\* Some listener takes what is there, and every listener is dismissed from
\* a channel that stays closed and empty.
Fairness ==
  /\ WF_vars(\E l \in Listeners : Receive(l))
  /\ \A l \in Listeners : WF_vars(Dismiss(l))

Safety == Init /\ [][Next]_vars
Spec == Safety /\ Fairness
=============================================================================
