------------------------------ MODULE MinGWQueue ------------------------------
(***************************************************************************)
(* ThreadSafeListenerQueue<T> as it is built on Windows, where the headers *)
(* mingwmutex.hpp and mingwcondition_variable.hpp stand in for the         *)
(* standard library: wait_for and notify_one at the grain of the counter   *)
(* mNumWaiters, the semaphore and the event they are made of.              *)
(*                                                                         *)
(* push and listen are those of ListenerQueue, with one listener, as every *)
(* queue of the program has.  What is one step there, to be taken off the  *)
(* wait set, takes both threads several steps here, of which only some are *)
(* under mMutex.                                                           *)
(*                                                                         *)
(* A critical section is a variable with its holder.  The field            *)
(* mOwnerThread of the mutex, set behind lock and cleared ahead of unlock, *)
(* has the same value whenever somebody looks at it and is left out.       *)
(***************************************************************************)
EXTENDS Integers, Sequences

CONSTANTS
  Messages,    (* the values of type T                                     *)
  Listener,    (* the thread that calls listen                             *)
  Sender,      (* the thread that calls push and setInactive               *)
  Nobody,      (* holder of a free critical section                        *)
  MaxPushes    (* bound on the number of pushes                            *)

ASSUME ThreadAssumption ==
  Sender # Listener /\ Nobody \notin {Listener, Sender}

ASSUME BoundAssumption == MaxPushes \in Nat

VARIABLES
  q, m_active, queueLock,   (* the members of the queue                    *)
  mMutex,         (* the holder of the mutex of the condition variable     *)
  mNumWaiters,    (* waits that were begun and not yet left                *)
  mSemaphore,     (* its count: permits released and not yet taken         *)
  mWakeEvent,     (* the auto-reset event a waiter sets when it leaves     *)
  targetWaiters,  (* local variable of notify_one                          *)
  ret,            (* local variable of wait_impl                           *)
  pc, spc,        (* where the listener and the sender are                 *)
  pushed, popped  (* history: the messages pushed and popped, in order     *)

messages == <<q, m_active, pushed, popped>>
condition == <<mMutex, mNumWaiters, mSemaphore, mWakeEvent>>
vars == <<messages, queueLock, condition, targetWaiters, ret, pc, spc>>

(***************************************************************************)
(* The listener is                                                         *)
(*   idle, test, check, done   as in ListenerQueue                         *)
(*   count    in wait_impl, about to count itself                          *)
(*   unlock   counted, about to release the mutex of the queue             *)
(*   blocked  from there to the end of WaitForSingleObject                 *)
(*   leave    back from it, about to decrement mNumWaiters                 *)
(*   signal   about to set the event                                       *)
(*   relock   about to take the mutex of the queue again                   *)
(* The sender is out, in push ahead of the insertion, or in notify_one: at *)
(* its lock, at the test for waiters, at the second look at mNumWaiters,   *)
(* at ReleaseSemaphore, at the loop test, or waiting for the event.        *)
(***************************************************************************)
ListenerPC == {"idle", "test", "count", "unlock", "blocked", "leave", "signal",
               "relock", "check", "done"}
NotifyPC == {"notify", "anybody", "target", "release", "loop", "await"}
SenderPC == {"out", "push", "closed"} \cup NotifyPC

TypeOK ==
  /\ q \in Seq(Messages) /\ pushed \in Seq(Messages) /\ popped \in Seq(Messages)
  /\ m_active \in BOOLEAN
  /\ queueLock \in {Listener, Sender, Nobody}
  /\ mMutex \in {Sender, Nobody}
  /\ mNumWaiters \in 0 .. 1
  /\ mSemaphore \in Nat
  /\ mWakeEvent \in BOOLEAN
  /\ targetWaiters \in -1 .. 0
  /\ ret \in {"object", "timeout"}
  /\ pc \in ListenerPC
  /\ spc \in SenderPC

Init ==
  /\ q = <<>> /\ pushed = <<>> /\ popped = <<>>
  /\ m_active = TRUE
  /\ queueLock = Nobody /\ mMutex = Nobody
  /\ mNumWaiters = 0 /\ mSemaphore = 0 /\ mWakeEvent = FALSE
  /\ targetWaiters = 0 /\ ret = "timeout"
  /\ pc = "idle" /\ spc = "out"

Goto(from, to) == pc = from /\ pc' = to
SenderGoto(from, to) == spc = from /\ spc' = to
Lock(t) == queueLock = Nobody /\ queueLock' = t
Unlock == queueLock' = Nobody

-----------------------------------------------------------------------------
(***************************************************************************)
(* push and setInactive.                                                   *)
(*                                                                         *)
(* Definitions marked "Wrong:" are variants with a bug that no             *)
(* specification uses.                                                     *)
(***************************************************************************)
PushLock ==
  /\ SenderGoto("out", "push")
  /\ Len(pushed) < MaxPushes
  /\ Lock(Sender)
  /\ UNCHANGED <<messages, condition, targetWaiters, ret, pc>>

PushElement(m) ==
  /\ SenderGoto("push", "notify")
  /\ q' = Append(q, m)
  /\ pushed' = Append(pushed, m)
  /\ UNCHANGED <<m_active, popped, queueLock, condition, targetWaiters, ret, pc>>

SetInactive ==
  /\ SenderGoto("out", "closed")
  /\ queueLock = Nobody
  /\ m_active' = FALSE
  /\ UNCHANGED <<q, pushed, popped, queueLock, condition, targetWaiters, ret, pc>>

-----------------------------------------------------------------------------
(***************************************************************************)
(* notify_one, called by push with the mutex of the queue locked.          *)
(***************************************************************************)
NotifyLock ==
  /\ SenderGoto("notify", "anybody")
  /\ mMutex = Nobody
  /\ mMutex' = Sender
  /\ UNCHANGED <<messages, queueLock, mNumWaiters, mSemaphore, mWakeEvent,
                 targetWaiters, ret, pc>>

\* Both lock_guards go out of scope: nobody but a holder of the mutex of the
\* queue asks for the other one, so that they are released in one step.
LeavePush ==
  /\ spc' = "out"
  /\ mMutex' = Nobody
  /\ Unlock
  /\ UNCHANGED <<messages, mNumWaiters, mSemaphore, mWakeEvent, targetWaiters, ret, pc>>

\* Wrong: a single waiter does not count.
NobodyElseWaits == spc = "anybody" /\ mNumWaiters <= 1 /\ LeavePush

NobodyWaits == spc = "anybody" /\ mNumWaiters = 0 /\ LeavePush

SomebodyWaits ==
  /\ SenderGoto("anybody", "target")
  /\ mNumWaiters # 0
  /\ UNCHANGED <<messages, queueLock, condition, targetWaiters, ret, pc>>

\* mNumWaiters is loaded a second time.
LoadTarget ==
  /\ SenderGoto("target", "release")
  /\ targetWaiters' = mNumWaiters - 1
  /\ UNCHANGED <<messages, queueLock, condition, ret, pc>>

ReleaseSemaphore ==
  /\ SenderGoto("release", "loop")
  /\ mSemaphore' = mSemaphore + 1
  /\ UNCHANGED <<messages, queueLock, mMutex, mNumWaiters, mWakeEvent, targetWaiters,
                 ret, pc>>

\* Wrong: notify_one does not wait until the waiter has left.
LeaveAtOnce == spc = "loop" /\ LeavePush

WaiterHasLeft == spc = "loop" /\ mNumWaiters <= targetWaiters /\ LeavePush

WaiterStillThere ==
  /\ SenderGoto("loop", "await")
  /\ mNumWaiters > targetWaiters
  /\ UNCHANGED <<messages, queueLock, condition, targetWaiters, ret, pc>>

\* The event resets itself when it ends a wait.
AwaitEvent ==
  /\ SenderGoto("await", "loop")
  /\ mWakeEvent
  /\ mWakeEvent' = FALSE
  /\ UNCHANGED <<messages, queueLock, mMutex, mNumWaiters, mSemaphore, targetWaiters,
                 ret, pc>>

\* Without the event, the loop test is repeated after a second.
AwaitTimeout ==
  /\ SenderGoto("await", "loop")
  /\ ~mWakeEvent
  /\ UNCHANGED <<messages, queueLock, condition, targetWaiters, ret, pc>>

-----------------------------------------------------------------------------
(***************************************************************************)
(* listen, but for wait_for.                                               *)
(***************************************************************************)
ListenLock ==
  /\ Goto("idle", "test")
  /\ Lock(Listener)
  /\ UNCHANGED <<messages, condition, targetWaiters, ret, spc>>

Take ==
  /\ q # <<>>
  /\ Goto("test", "idle")
  /\ popped' = Append(popped, Head(q))
  /\ q' = Tail(q)
  /\ Unlock
  /\ UNCHANGED <<m_active, pushed, condition, targetWaiters, ret, spc>>

CallWaitFor ==
  /\ q = <<>>
  /\ Goto("test", "count")
  /\ UNCHANGED <<messages, queueLock, condition, targetWaiters, ret, spc>>

ReturnZero ==
  /\ ~m_active /\ q = <<>>
  /\ Goto("check", "done")
  /\ Unlock
  /\ UNCHANGED <<messages, condition, targetWaiters, ret, spc>>

TestAgain ==
  /\ ~(~m_active /\ q = <<>>)
  /\ Goto("check", "test")
  /\ UNCHANGED <<messages, queueLock, condition, targetWaiters, ret, spc>>

-----------------------------------------------------------------------------
(***************************************************************************)
(* wait_impl.                                                              *)
(***************************************************************************)
\* Under mMutex: mMutex is locked and released within the step.
CountWaiter ==
  /\ Goto("count", "unlock")
  /\ mMutex = Nobody
  /\ mNumWaiters' = mNumWaiters + 1
  /\ UNCHANGED <<messages, queueLock, mMutex, mSemaphore, mWakeEvent, targetWaiters,
                 ret, spc>>

UnlockQueue ==
  /\ Goto("unlock", "blocked")
  /\ Unlock
  /\ UNCHANGED <<messages, condition, targetWaiters, ret, spc>>

\* WaitForSingleObject: a permit ends the wait at once, also one that was left
\* behind by an earlier notify_one; a timeout means that there was none.
TakePermit ==
  /\ Goto("blocked", "leave")
  /\ mSemaphore > 0
  /\ mSemaphore' = mSemaphore - 1
  /\ ret' = "object"
  /\ UNCHANGED <<messages, queueLock, mMutex, mNumWaiters, mWakeEvent, targetWaiters, spc>>

WaitTimeout ==
  /\ Goto("blocked", "leave")
  /\ mSemaphore = 0
  /\ ret' = "timeout"
  /\ UNCHANGED <<messages, queueLock, condition, targetWaiters, spc>>

\* Wrong: the waiter leaves when it has the mutex of the queue.
LeaveLocked ==
  /\ Goto("leave", "signal")
  /\ queueLock = Nobody
  /\ mNumWaiters' = mNumWaiters - 1
  /\ UNCHANGED <<messages, queueLock, mMutex, mSemaphore, mWakeEvent, targetWaiters,
                 ret, spc>>

\* Under no mutex.
LeaveWait ==
  /\ Goto("leave", "signal")
  /\ mNumWaiters' = mNumWaiters - 1
  /\ UNCHANGED <<messages, queueLock, mMutex, mSemaphore, mWakeEvent, targetWaiters,
                 ret, spc>>

SetWakeEvent ==
  /\ Goto("signal", "relock")
  /\ mWakeEvent' = TRUE
  /\ UNCHANGED <<messages, queueLock, mMutex, mNumWaiters, mSemaphore, targetWaiters,
                 ret, spc>>

\* Wrong: wait_for takes no notice of what wait_impl returns.
RelockQueueAlways ==
  /\ Goto("relock", "test")
  /\ Lock(Listener)
  /\ UNCHANGED <<messages, condition, targetWaiters, ret, spc>>

RelockQueue ==
  /\ Goto("relock", IF ret = "timeout" THEN "check" ELSE "test")
  /\ Lock(Listener)
  /\ UNCHANGED <<messages, condition, targetWaiters, ret, spc>>

-----------------------------------------------------------------------------
Notify ==
  \/ NotifyLock \/ NobodyWaits \/ SomebodyWaits \/ LoadTarget \/ ReleaseSemaphore
  \/ WaiterHasLeft \/ WaiterStillThere \/ AwaitEvent
WaitImpl ==
  \/ CountWaiter \/ UnlockQueue \/ TakePermit \/ WaitTimeout \/ LeaveWait \/ SetWakeEvent
Listen == Take \/ CallWaitFor \/ ReturnZero \/ TestAgain

Terminated == spc = "closed" /\ pc = "done"
Finished == Terminated /\ UNCHANGED vars

Next ==
  \/ PushLock \/ (\E m \in Messages : PushElement(m)) \/ SetInactive
  \/ Notify \/ AwaitTimeout
  \/ ListenLock \/ Listen \/ WaitImpl \/ RelockQueue
  \/ Finished

(***************************************************************************)
(* The threads go on.  A mutex that is free again and again is obtained in *)
(* the end.  Nothing makes the sender push or close, and nothing is        *)
(* assumed of AwaitTimeout: what is shown does not depend on its polling.  *)
(***************************************************************************)
Fairness ==
  /\ WF_vars((\E m \in Messages : PushElement(m)) \/ Notify)
  /\ WF_vars(Listen \/ WaitImpl)
  /\ SF_vars(ListenLock)
  /\ SF_vars(RelockQueue)

Spec == Init /\ [][Next]_vars /\ Fairness

-----------------------------------------------------------------------------
(***************************************************************************)
(* Properties.                                                             *)
(***************************************************************************)

(***************************************************************************)
(* The two headers keep what ListenerQueue takes from the standard: each   *)
(* step of them is one of its steps or none.  To be counted is not yet to  *)
(* wait, to have left WaitForSingleObject is to be woken or expired, and   *)
(* notify_one takes place when it returns.                                 *)
(***************************************************************************)
AbstractPC ==
  IF pc \in {"count", "unlock"} THEN "test"
  ELSE IF pc = "blocked" THEN "wait"
  ELSE IF pc \in {"leave", "signal", "relock"}
       THEN IF ret = "timeout" THEN "expired" ELSE "woken"
  ELSE pc
AbstractSPC == IF spc \in NotifyPC THEN "notify" ELSE spc

Standard ==
  INSTANCE ListenerQueue WITH
    Listeners <- {Listener},
    pc <- [l \in {Listener} |-> AbstractPC],
    spc <- AbstractSPC

ImplementsStandard == Standard!Init /\ [][Standard!Next]_(Standard!vars)

\* A listener whose wait ends by timeout leaves behind the permit that was
\* meant for it.  The next wait uses it up, and while there is one no wait
\* ends by timeout: so there are never more than two, and the limit of the
\* semaphore, at which ReleaseSemaphore would fail and notify_one wait for
\* ever, is out of reach however many messages are pushed.
PermitsDoNotPileUp == mSemaphore <= 2

\* notify_one, which holds both mutexes, returns as soon as the waiter has
\* left, without a second of polling, except when the listener leaves between
\* the two looks at mNumWaiters, so that there is no target to be reached.
NotifyReturns == spc = "release" /\ targetWaiters = 0 ~> spc = "out"

\* After setInactive, which notifies nobody, the listener stops: whatever
\* permits are left behind, it runs into its timeout.
ListenerStops == ~m_active ~> pc = "done"

(***************************************************************************)
(* "Function that blocks while queue is empty": it does not block when it  *)
(* is not, that is, every message is taken in the end.                     *)
(***************************************************************************)
EveryPushIsTaken ==
  \A n \in 1 .. MaxPushes : Len(pushed) >= n ~> Len(popped) >= n
=============================================================================
