---------------------------- MODULE ListenerQueue ----------------------------
(***************************************************************************)
(* ThreadSafeListenerQueue<T> at the grain of its mutex and its condition  *)
(* variable: one thread that pushes and finally calls setInactive, and     *)
(* threads that call listen in a loop until it returns 0.                  *)
(*                                                                         *)
(* In the program both uses have one sender: the reader thread for         *)
(* h5Decode::m_queue and pdsDecode::m_queue, the Decom thread for each     *)
(* queue of ThreadPoolServer::m_queues; each queue has one listener.  The  *)
(* class does not depend on the number of listeners, neither does this     *)
(* module.                                                                 *)
(*                                                                         *)
(* There is no clock.  A timed wait may expire at any moment, and a wait   *)
(* may end spuriously at any moment.                                       *)
(***************************************************************************)
EXTENDS Naturals, Sequences

CONSTANTS
  Messages,    (* the values of type T                                     *)
  Listeners,   (* the threads that call listen                             *)
  Sender,      (* the thread that calls push and setInactive               *)
  Nobody,      (* holder of a free mutex                                   *)
  MaxPushes    (* bound on the number of pushes                            *)

ASSUME ThreadAssumption ==
  /\ Listeners # {}
  /\ Sender \notin Listeners
  /\ Nobody \notin Listeners \cup {Sender}

ASSUME BoundAssumption == MaxPushes \in Nat

VARIABLES
  q,          (* the std::queue                                            *)
  m_active,   (* cleared by setInactive                                    *)
  queueLock,  (* the thread that holds the mutex, or Nobody                *)
  pc,         (* where each listener is                                    *)
  spc,        (* where the sender is                                       *)
  pushed,     (* history: the messages pushed, in order                    *)
  popped      (* history: the messages popped, in order                    *)

vars == <<q, m_active, queueLock, pc, spc, pushed, popped>>

(***************************************************************************)
(* A listener is                                                           *)
(*   idle     outside of listen, busy with what it received                *)
(*   test     at the loop test, holding the mutex                          *)
(*   wait     blocked in wait_for, in the wait set of the condition        *)
(*            variable, without the mutex                                  *)
(*   woken    taken off the wait set by notify_one or spuriously           *)
(*   expired  taken off the wait set because the second is over            *)
(*   check    back from wait_for with cv_status::timeout, with the mutex   *)
(*   done     listen returned 0, the thread leaves its loop                *)
(* The sender is out of the queue, in push before or after the element is  *)
(* in, or has called setInactive, after which it never comes back.         *)
(***************************************************************************)
ListenerPC == {"idle", "test", "wait", "woken", "expired", "check", "done"}
SenderPC == {"out", "push", "notify", "closed"}

TypeOK ==
  /\ q \in Seq(Messages)
  /\ m_active \in BOOLEAN
  /\ queueLock \in Listeners \cup {Sender, Nobody}
  /\ pc \in [Listeners -> ListenerPC]
  /\ spc \in SenderPC
  /\ pushed \in Seq(Messages)
  /\ popped \in Seq(Messages)

Init ==
  /\ q = <<>>
  /\ m_active = TRUE
  /\ queueLock = Nobody
  /\ pc = [l \in Listeners |-> "idle"]
  /\ spc = "out"
  /\ pushed = <<>>
  /\ popped = <<>>

Goto(l, from, to) == pc[l] = from /\ pc' = [pc EXCEPT ![l] = to]

Lock(t) == queueLock = Nobody /\ queueLock' = t
Unlock == queueLock' = Nobody

-----------------------------------------------------------------------------
(***************************************************************************)
(* The sender.                                                             *)
(*                                                                         *)
(* Definitions marked "Wrong:" are variants with a bug, each ahead of the  *)
(* operation it would replace.  They are not part of the specification;    *)
(* PROJECT.json names the property that each of them breaks.               *)
(***************************************************************************)
PushLock ==
  /\ spc = "out"
  /\ Len(pushed) < MaxPushes
  /\ Lock(Sender)
  /\ spc' = "push"
  /\ UNCHANGED <<q, m_active, pc, pushed, popped>>

PushElement(m) ==
  /\ spc = "push"
  /\ q' = Append(q, m)
  /\ pushed' = Append(pushed, m)
  /\ spc' = "notify"
  /\ UNCHANGED <<m_active, queueLock, pc, popped>>

\* Wrong: push without notify_one.
PushSilently ==
  /\ spc = "notify"
  /\ spc' = "out"
  /\ Unlock
  /\ UNCHANGED <<q, m_active, pc, pushed, popped>>

\* notify_one takes one blocked listener off the wait set, if there is one;
\* then the lock_guard goes out of scope.
PushNotify ==
  /\ spc = "notify"
  /\ spc' = "out"
  /\ Unlock
  /\ \/ \E l \in Listeners : Goto(l, "wait", "woken")
     \/ /\ \A l \in Listeners : pc[l] # "wait"
        /\ UNCHANGED pc
  /\ UNCHANGED <<q, m_active, pushed, popped>>

\* setInactive: one assignment between lock and unlock, and no notification.
SetInactive ==
  /\ spc = "out"
  /\ queueLock = Nobody
  /\ m_active' = FALSE
  /\ spc' = "closed"
  /\ UNCHANGED <<q, queueLock, pc, pushed, popped>>

-----------------------------------------------------------------------------
(***************************************************************************)
(* A listener.                                                             *)
(***************************************************************************)
ListenLock(l) ==
  /\ Goto(l, "idle", "test")
  /\ Lock(l)
  /\ UNCHANGED <<q, m_active, spc, pushed, popped>>

\* Wrong: the element is copied and stays in the queue.
TakeWithoutPop(l) ==
  /\ q # <<>>
  /\ Goto(l, "test", "idle")
  /\ popped' = Append(popped, Head(q))
  /\ Unlock
  /\ UNCHANGED <<q, m_active, spc, pushed>>

\* The queue is not empty: take the front, return 1.
Take(l) ==
  /\ q # <<>>
  /\ Goto(l, "test", "idle")
  /\ popped' = Append(popped, Head(q))
  /\ q' = Tail(q)
  /\ Unlock
  /\ UNCHANGED <<m_active, spc, pushed>>

\* The queue is empty: release the mutex and block, in one step.
Block(l) ==
  /\ q = <<>>
  /\ Goto(l, "test", "wait")
  /\ Unlock
  /\ UNCHANGED <<q, m_active, spc, pushed, popped>>

\* Wrong: wait in place of wait_for.
ExpireNever(l) ==
  /\ FALSE
  /\ UNCHANGED vars

Expire(l) ==
  /\ Goto(l, "wait", "expired")
  /\ UNCHANGED <<q, m_active, queueLock, spc, pushed, popped>>

SpuriousWakeup(l) ==
  /\ Goto(l, "wait", "woken")
  /\ UNCHANGED <<q, m_active, queueLock, spc, pushed, popped>>

\* wait_for takes the mutex again before it returns.  It reports a timeout
\* whenever the deadline is over by then, also to a thread that was notified.
Relock(l) ==
  /\ \/ Goto(l, "expired", "check")
     \/ Goto(l, "woken", "check")
     \/ Goto(l, "woken", "test")
  /\ Lock(l)
  /\ UNCHANGED <<q, m_active, spc, pushed, popped>>

\* Wrong: the queue is not tested again.
ReturnZeroWhenInactive(l) ==
  /\ ~m_active
  /\ Goto(l, "check", "done")
  /\ Unlock
  /\ UNCHANGED <<q, m_active, spc, pushed, popped>>

\* Wrong: the flag is not tested.
ReturnZeroWhenEmpty(l) ==
  /\ q = <<>>
  /\ Goto(l, "check", "done")
  /\ Unlock
  /\ UNCHANGED <<q, m_active, spc, pushed, popped>>

\* After a timeout: listen returns 0 from a queue that is inactive and empty.
ReturnZero(l) ==
  /\ ~m_active /\ q = <<>>
  /\ Goto(l, "check", "done")
  /\ Unlock
  /\ UNCHANGED <<q, m_active, spc, pushed, popped>>

\* After a timeout: in every other case, back to the loop test.
TestAgain(l) ==
  /\ ~(~m_active /\ q = <<>>)
  /\ Goto(l, "check", "test")
  /\ UNCHANGED <<q, m_active, queueLock, spc, pushed, popped>>

-----------------------------------------------------------------------------
Send == PushLock \/ (\E m \in Messages : PushElement(m)) \/ PushNotify
ListenStep(l) ==
  \/ ListenLock(l) \/ Take(l) \/ Block(l) \/ Expire(l) \/ SpuriousWakeup(l)
  \/ Relock(l) \/ ReturnZero(l) \/ TestAgain(l)

\* The state in which every thread is through with the queue.
Terminated == spc = "closed" /\ \A l \in Listeners : pc[l] = "done"
Finished == Terminated /\ UNCHANGED vars

Next == Send \/ SetInactive \/ (\E l \in Listeners : ListenStep(l)) \/ Finished

(***************************************************************************)
(* A thread that holds the mutex goes on to release it.  A mutex that is   *)
(* free again and again is obtained in the end.  A wait that is started    *)
(* again and again runs into its timeout once, that is, spurious wakeups   *)
(* and notifications do not cut short every wait.  Nothing makes the       *)
(* sender push or close.                                                   *)
(***************************************************************************)
Fairness ==
  /\ WF_vars((\E m \in Messages : PushElement(m)) \/ PushNotify)
  /\ \A l \in Listeners :
       /\ WF_vars(Take(l) \/ Block(l) \/ ReturnZero(l) \/ TestAgain(l))
       /\ SF_vars(ListenLock(l))
       /\ SF_vars(Relock(l))
       /\ SF_vars(Expire(l))

Spec == Init /\ [][Next]_vars /\ Fairness

-----------------------------------------------------------------------------
(***************************************************************************)
(* Properties.                                                             *)
(***************************************************************************)

\* No message is lost, duplicated or reordered between push and listen:
\* what was pushed is what was taken followed by what is still queued.
Conservation == pushed = popped \o q

\* No wakeup is lost: listeners do not all sleep on a queue that holds a
\* message, except between the insertion and the notify_one of push.  With
\* this, delivery never has to wait for the one-second timeout.
NobodySleepsOnItems ==
  q # <<>> /\ spc # "notify" =>
    \E l \in Listeners : pc[l] \notin {"wait", "done"}

\* A listener that was told that there is nothing more was told the truth,
\* for good: the queue is inactive, empty, and the sender will not push.
DismissedOnlyWhenDrained ==
  \A l \in Listeners : pc[l] = "done" => ~m_active /\ q = <<>> /\ spc = "closed"

\* The parts of the class that touch q and m_active exclude each other: the
\* mutex is held exactly by the thread that is in such a part.
LockDiscipline ==
  /\ \A l \in Listeners : pc[l] \in {"test", "check"} <=> queueLock = l
  /\ spc \in {"push", "notify"} <=> queueLock = Sender

\* After setInactive every listener is told to stop, though setInactive
\* notifies nobody.
EveryListenerStops == ~m_active ~> \A l \in Listeners : pc[l] = "done"

(***************************************************************************)
(* The class implements the channel it stands for.                         *)
(***************************************************************************)
Abstract ==
  INSTANCE ListenerChannel WITH
    chan <- [q |-> q, m_active |-> m_active],
    sent <- pushed,
    received <- popped,
    dismissed <- {l \in Listeners : pc[l] = "done"}

ImplementsChannel == Abstract!Spec
=============================================================================
