--------------------------- MODULE MinGWQueueProofs ---------------------------
(***************************************************************************)
(* For every set of messages and every number of pushes, the MinGW headers *)
(* implement what ListenerQueue takes from the standard library, and the   *)
(* count of the semaphore stays below three.                               *)
(***************************************************************************)
EXTENDS MinGWQueue, TLAPS

\* Who holds the two mutexes is known from where the threads are.
Holders ==
  /\ queueLock = Listener <=> pc \in {"test", "count", "unlock", "check"}
  /\ queueLock = Sender <=> spc \in {"push"} \cup NotifyPC
  /\ mMutex = Sender <=> spc \in NotifyPC \ {"notify"}

\* mNumWaiters counts the listener from mNumWaiters++ to mNumWaiters--.
Counted == mNumWaiters = IF pc \in {"unlock", "blocked", "leave"} THEN 1 ELSE 0

\* How many permits there can be.  A second one is released only to a listener
\* that is blocked and takes one of them before notify_one returns: before it
\* is released, a listener that has left has left no permit behind.
Permits ==
  /\ mSemaphore <= IF spc \in {"loop", "await"} /\ pc = "blocked" THEN 2 ELSE 1
  /\ pc = "leave" /\ spc \notin {"loop", "await"} => mSemaphore = 0
  /\ spc \in {"target", "release"} =>
       \/ pc = "blocked"
       \/ pc \in {"leave", "signal", "relock"} /\ mSemaphore = 0

\* Between the loop test and the wait the mutex keeps the queue as it was found.
EmptyWhenCalled == pc \in {"count", "unlock"} => q = <<>>

IInv == TypeOK /\ Holders /\ Counted /\ Permits /\ EmptyWhenCalled

-----------------------------------------------------------------------------
\* The type of every field, and the inductive invariant of both results.
THEOREM Invariant == Spec => []IInv
<1> USE ThreadAssumption DEF ListenerPC, SenderPC, NotifyPC
<1>1. Init => IInv
  <2> SUFFICES ASSUME Init PROVE IInv
    OBVIOUS
  <2>1. TypeOK
    <3>1. <<>> \in Seq(Messages) /\ 0 \in 0 .. 1 /\ 0 \in -1 .. 0
      OBVIOUS
    <3> QED
      BY <3>1 DEF Init, TypeOK
  <2>2. Holders
    BY DEF Init, Holders
  <2>3. Counted /\ Permits /\ EmptyWhenCalled
    BY DEF Init, Counted, Permits, EmptyWhenCalled
  <2> QED
    BY <2>1, <2>2, <2>3 DEF IInv
<1>2. IInv /\ [Next]_vars => IInv'
  <2> SUFFICES ASSUME IInv, [Next]_vars PROVE IInv'
    OBVIOUS
  <2> USE DEF IInv, TypeOK, Holders, Counted, Permits, EmptyWhenCalled, Goto,
              SenderGoto, Lock, Unlock, messages, condition
  <2>1. CASE PushLock
    BY <2>1 DEF PushLock
  <2>2. ASSUME NEW m \in Messages, PushElement(m) PROVE IInv'
    BY <2>2 DEF PushElement
  <2>3. CASE SetInactive
    BY <2>3 DEF SetInactive
  <2>4. CASE Notify
    <3>1. CASE NotifyLock
      BY <3>1 DEF NotifyLock
    <3>2. CASE NobodyWaits \/ WaiterHasLeft
      BY <3>2 DEF NobodyWaits, WaiterHasLeft, LeavePush
    <3>3. CASE SomebodyWaits
      BY <3>3 DEF SomebodyWaits
    <3>4. CASE LoadTarget
      BY <3>4 DEF LoadTarget
    <3>5. CASE ReleaseSemaphore
      BY <3>5 DEF ReleaseSemaphore
    <3>6. CASE WaiterStillThere
      BY <3>6 DEF WaiterStillThere
    <3>7. CASE AwaitEvent
      BY <3>7 DEF AwaitEvent
    <3> QED
      BY <2>4, <3>1, <3>2, <3>3, <3>4, <3>5, <3>6, <3>7 DEF Notify
  <2>5. CASE AwaitTimeout
    BY <2>5 DEF AwaitTimeout
  <2>6. CASE ListenLock \/ RelockQueue
    BY <2>6 DEF ListenLock, RelockQueue
  <2>7. CASE Listen
    <3>1. CASE Take
      BY <3>1 DEF Take
    <3>2. CASE CallWaitFor \/ ReturnZero \/ TestAgain
      BY <3>2 DEF CallWaitFor, ReturnZero, TestAgain
    <3> QED
      BY <2>7, <3>1, <3>2 DEF Listen
  <2>8. CASE WaitImpl
    <3>1. CASE CountWaiter \/ UnlockQueue
      BY <3>1 DEF CountWaiter, UnlockQueue
    <3>2. CASE TakePermit
      BY <3>2 DEF TakePermit
    <3>3. CASE WaitTimeout
      BY <3>3 DEF WaitTimeout
    <3>4. CASE LeaveWait
      BY <3>4 DEF LeaveWait
    <3>5. CASE SetWakeEvent
      BY <3>5 DEF SetWakeEvent
    <3> QED
      BY <2>8, <3>1, <3>2, <3>3, <3>4, <3>5 DEF WaitImpl
  <2>9. CASE Finished \/ UNCHANGED vars
    BY <2>9 DEF Finished, vars
  <2> QED
    BY <2>1, <2>2, <2>3, <2>4, <2>5, <2>6, <2>7, <2>8, <2>9 DEF Next
<1> QED
  BY <1>1, <1>2, PTL DEF Spec

\* No number of pushes brings the semaphore near its limit.
THEOREM PermitsBounded == Spec => []PermitsDoNotPileUp
<1>1. IInv => PermitsDoNotPileUp
  BY DEF IInv, TypeOK, Permits, PermitsDoNotPileUp
<1> QED
  BY <1>1, Invariant, PTL

-----------------------------------------------------------------------------
\* The function that stands for the program counters of ListenerQueue has one
\* point: to move it is to move AbstractPC.
LEMMA MoveListener ==
  ASSUME NEW from, NEW to, AbstractPC = from, AbstractPC' = to
  PROVE  Standard!Goto(Listener, from, to)
BY DEF Standard!Goto

\* Every step of the two headers, and of the queue on top of them, is a step
\* of ListenerQueue or none: no wakeup is lost below the class either.
THEOREM ImplementsStandardLibrary == Spec => ImplementsStandard
<1> USE ThreadAssumption DEF ListenerPC, SenderPC, NotifyPC
<1>1. Init => Standard!Init
  BY DEF Init, Standard!Init, AbstractPC, AbstractSPC
<1>2. IInv /\ [Next]_vars => [Standard!Next]_(Standard!vars)
  <2> SUFFICES ASSUME IInv, [Next]_vars PROVE [Standard!Next]_(Standard!vars)
    OBVIOUS
  <2> USE DEF IInv, TypeOK, Goto, SenderGoto, messages, AbstractSPC
  <2>1. CASE PushLock
    <3>1. Standard!PushLock
      BY <2>1 DEF PushLock, Lock, Standard!PushLock, Standard!Lock, AbstractPC
    <3> QED
      BY <3>1 DEF Standard!Next, Standard!Send
  <2>2. ASSUME NEW m \in Messages, PushElement(m)
        PROVE  Standard!PushElement(m)
    BY <2>2 DEF PushElement, Standard!PushElement, AbstractPC
  <2>3. CASE SetInactive
    <3>1. Standard!SetInactive
      BY <2>3 DEF SetInactive, Standard!SetInactive, AbstractPC
    <3> QED
      BY <3>1 DEF Standard!Next
  <2>4. CASE NobodyWaits \/ WaiterHasLeft
    <3>1. mNumWaiters = 0
      BY <2>4 DEF NobodyWaits, WaiterHasLeft
    <3>2. AbstractPC # "wait" /\ UNCHANGED <<AbstractPC, q, m_active, pushed, popped>>
      BY <2>4, <3>1 DEF NobodyWaits, WaiterHasLeft, LeavePush, Counted, AbstractPC
    <3>3. AbstractSPC = "notify" /\ AbstractSPC' = "out" /\ queueLock' = Nobody
      BY <2>4 DEF NobodyWaits, WaiterHasLeft, LeavePush, Unlock
    <3>4. Standard!PushNotify
      BY <3>2, <3>3 DEF Standard!PushNotify, Standard!Unlock
    <3> QED
      BY <3>4 DEF Standard!Next, Standard!Send
  <2>5. CASE \/ NotifyLock \/ SomebodyWaits \/ LoadTarget \/ ReleaseSemaphore
             \/ WaiterStillThere \/ AwaitEvent \/ AwaitTimeout
    BY <2>5
    DEF NotifyLock, SomebodyWaits, LoadTarget, ReleaseSemaphore, WaiterStillThere,
        AwaitEvent, AwaitTimeout, AbstractPC, Standard!vars
  <2>6. CASE ListenLock
    <3>1. Standard!Goto(Listener, "idle", "test")
      BY <2>6, MoveListener DEF ListenLock, AbstractPC
    <3>2. Standard!ListenLock(Listener)
      BY <2>6, <3>1 DEF ListenLock, Lock, Standard!ListenLock, Standard!Lock
    <3> QED
      BY <3>2 DEF Standard!Next, Standard!ListenStep
  <2>7. CASE Take
    <3>1. Standard!Goto(Listener, "test", "idle")
      BY <2>7, MoveListener DEF Take, AbstractPC
    <3>2. Standard!Take(Listener)
      BY <2>7, <3>1 DEF Take, Unlock, Standard!Take, Standard!Unlock
    <3> QED
      BY <3>2 DEF Standard!Next, Standard!ListenStep
  <2>8. CASE ReturnZero
    <3>1. Standard!Goto(Listener, "check", "done")
      BY <2>8, MoveListener DEF ReturnZero, AbstractPC
    <3>2. Standard!ReturnZero(Listener)
      BY <2>8, <3>1 DEF ReturnZero, Unlock, Standard!ReturnZero, Standard!Unlock
    <3> QED
      BY <3>2 DEF Standard!Next, Standard!ListenStep
  <2>9. CASE TestAgain
    <3>1. Standard!Goto(Listener, "check", "test")
      BY <2>9, MoveListener DEF TestAgain, AbstractPC
    <3>2. Standard!TestAgain(Listener)
      BY <2>9, <3>1 DEF TestAgain, Standard!TestAgain
    <3> QED
      BY <3>2 DEF Standard!Next, Standard!ListenStep
  <2>10. CASE CallWaitFor \/ CountWaiter \/ LeaveWait \/ SetWakeEvent
    BY <2>10
    DEF CallWaitFor, CountWaiter, LeaveWait, SetWakeEvent, AbstractPC, Standard!vars
  <2>11. CASE UnlockQueue
    \* The queue was found empty by the listener, which has held its mutex since.
    <3>1. Standard!Goto(Listener, "test", "wait")
      BY <2>11, MoveListener DEF UnlockQueue, AbstractPC
    <3>2. q = <<>>
      BY <2>11 DEF UnlockQueue, EmptyWhenCalled
    <3>3. Standard!Block(Listener)
      BY <2>11, <3>1, <3>2 DEF UnlockQueue, Unlock, Standard!Block, Standard!Unlock
    <3> QED
      BY <3>3 DEF Standard!Next, Standard!ListenStep
  <2>12. CASE TakePermit
    <3>1. Standard!Goto(Listener, "wait", "woken")
      BY <2>12, MoveListener DEF TakePermit, AbstractPC
    <3>2. Standard!SpuriousWakeup(Listener)
      BY <2>12, <3>1 DEF TakePermit, Standard!SpuriousWakeup
    <3> QED
      BY <3>2 DEF Standard!Next, Standard!ListenStep
  <2>13. CASE WaitTimeout
    <3>1. Standard!Goto(Listener, "wait", "expired")
      BY <2>13, MoveListener DEF WaitTimeout, AbstractPC
    <3>2. Standard!Expire(Listener)
      BY <2>13, <3>1 DEF WaitTimeout, Standard!Expire
    <3> QED
      BY <3>2 DEF Standard!Next, Standard!ListenStep
  <2>14. CASE RelockQueue
    <3>1. \/ Standard!Goto(Listener, "expired", "check")
          \/ Standard!Goto(Listener, "woken", "test")
      BY <2>14, MoveListener DEF RelockQueue, AbstractPC
    <3>2. Standard!Relock(Listener)
      BY <2>14, <3>1 DEF RelockQueue, Lock, Standard!Relock, Standard!Lock
    <3> QED
      BY <3>2 DEF Standard!Next, Standard!ListenStep
  <2>15. CASE Finished \/ UNCHANGED vars
    BY <2>15 DEF Finished, vars, AbstractPC, Standard!vars
  <2> QED
    BY <2>1, <2>2, <2>3, <2>4, <2>5, <2>6, <2>7, <2>8, <2>9, <2>10, <2>11, <2>12,
       <2>13, <2>14, <2>15
    DEF Next, Notify, Listen, WaitImpl, Standard!Next, Standard!Send
<1> QED
  BY <1>1, <1>2, Invariant, PTL DEF Spec, ImplementsStandard
=============================================================================
