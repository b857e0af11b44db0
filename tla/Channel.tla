------------------------------- MODULE Channel -------------------------------
(***************************************************************************)
(* The value of a ThreadSafeListenerQueue (include/                        *)
(* ThreadSafeListenerQueue.hpp) between two critical sections: the         *)
(* std::queue q and the flag m_active.  One operator per operation of the  *)
(* class, on the value alone; who may call them and when is the business   *)
(* of the modules that use a channel.                                      *)
(***************************************************************************)
EXTENDS Sequences

\* A queue as its constructor leaves it.
NewChannel == [q |-> <<>>, m_active |-> TRUE]

\* push: the element goes to the back.
Pushed(ch, m) == [q |-> Append(ch.q, m), m_active |-> ch.m_active]

\* Several calls of push one after the other.
PushedAll(ch, s) == [q |-> ch.q \o s, m_active |-> ch.m_active]

\* The successful return of listen: the front element leaves.
HasItem(ch) == ch.q # <<>>
Popped(ch) == [q |-> Tail(ch.q), m_active |-> ch.m_active]

\* setInactive, and the condition under which listen returns 0.
SetInactive(ch) == [q |-> ch.q, m_active |-> FALSE]
Drained(ch) == ~ch.m_active /\ ch.q = <<>>
=============================================================================
