------------------------- MODULE ListenerQueueProofs -------------------------
(***************************************************************************)
(* The safety properties of ListenerQueue, for every set of messages and   *)
(* of listeners and every bound on the pushes, and that the queue          *)
(* implements the safety part of ListenerChannel.                          *)
(***************************************************************************)
EXTENDS ListenerQueue, SequenceLemmas, TLAPS

\* m_active is cleared by the sender, as the last thing it does.
FlagFollowsSender == ~m_active <=> spc = "closed"

\* The inductive invariant.  LockDiscipline stands by itself; a dismissed
\* listener needs FlagFollowsSender (nobody pushes after m_active was seen
\* cleared), and NobodySleepsOnItems needs that a listener that is dismissed
\* means a sender that is gone.
IInv ==
  /\ TypeOK
  /\ LockDiscipline
  /\ Conservation
  /\ FlagFollowsSender
  /\ DismissedOnlyWhenDrained
  /\ NobodySleepsOnItems

-----------------------------------------------------------------------------
\* Pushing behind what has left a queue of messages.
LEMMA AppendMessage ==
  ASSUME NEW s \in Seq(Messages), NEW t \in Seq(Messages), NEW e \in Messages
  PROVE  Append(s \o t, e) = s \o Append(t, e)
OBVIOUS

\* Each variable stays in its domain: the type of every operation of the
\* class.
THEOREM TypeCorrect == Spec => []TypeOK
<1>1. Init => TypeOK
  BY ThreadAssumption DEF Init, TypeOK, ListenerPC, SenderPC
<1>2. TypeOK /\ [Next]_vars => TypeOK'
  <2> SUFFICES ASSUME TypeOK, [Next]_vars PROVE TypeOK'
    OBVIOUS
  <2> USE DEF TypeOK, ListenerPC, SenderPC, Lock, Unlock, Goto
  <2>1. CASE Send
    <3>1. CASE PushLock
      BY <3>1 DEF PushLock
    <3>2. ASSUME NEW m \in Messages, PushElement(m) PROVE TypeOK'
      BY <3>2 DEF PushElement
    <3>3. CASE PushNotify
      BY <3>3 DEF PushNotify
    <3> QED
      BY <2>1, <3>1, <3>2, <3>3 DEF Send
  <2>2. CASE SetInactive
    BY <2>2 DEF SetInactive
  <2>3. ASSUME NEW l \in Listeners, ListenStep(l) PROVE TypeOK'
    <3>1. CASE ListenLock(l)
      BY <3>1 DEF ListenLock
    <3>2. CASE Take(l)
      BY <3>2 DEF Take
    <3>3. CASE Block(l)
      BY <3>3 DEF Block
    <3>4. CASE Expire(l) \/ SpuriousWakeup(l)
      BY <3>4 DEF Expire, SpuriousWakeup
    <3>5. CASE Relock(l)
      BY <3>5 DEF Relock
    <3>6. CASE ReturnZero(l)
      BY <3>6 DEF ReturnZero
    <3>7. CASE TestAgain(l)
      BY <3>7 DEF TestAgain
    <3> QED
      BY <2>3, <3>1, <3>2, <3>3, <3>4, <3>5, <3>6, <3>7 DEF ListenStep
  <2>4. CASE Finished
    BY <2>4 DEF Finished, vars
  <2>5. CASE UNCHANGED vars
    BY <2>5 DEF vars
  <2> QED
    BY <2>1, <2>2, <2>3, <2>4, <2>5 DEF Next
<1> QED
  BY <1>1, <1>2, PTL DEF Spec

-----------------------------------------------------------------------------
\* The five safety properties, as one inductive invariant.
THEOREM Invariant == Spec => []IInv
<1>1. Init => IInv
  <2> SUFFICES ASSUME Init PROVE IInv
    OBVIOUS
  <2>1. TypeOK
    BY ThreadAssumption DEF Init, TypeOK, ListenerPC, SenderPC
  <2>2. LockDiscipline /\ FlagFollowsSender
    BY ThreadAssumption DEF Init, LockDiscipline, FlagFollowsSender
  <2>3. Conservation /\ DismissedOnlyWhenDrained /\ NobodySleepsOnItems
    BY DEF Init, Conservation, DismissedOnlyWhenDrained, NobodySleepsOnItems
  <2> QED
    BY <2>1, <2>2, <2>3 DEF IInv
<1>2. IInv /\ TypeOK' /\ [Next]_vars => IInv'
  <2> SUFFICES ASSUME IInv, TypeOK', [Next]_vars PROVE IInv'
    OBVIOUS
  <2> USE DEF Lock, Unlock, Goto
  <2>1. LockDiscipline'
    <3> USE ThreadAssumption DEF IInv, TypeOK, LockDiscipline, SenderPC
    <3>1. CASE Send
      BY <3>1 DEF Send, PushLock, PushElement, PushNotify
    <3>2. CASE SetInactive
      BY <3>2 DEF SetInactive
    <3>3. ASSUME NEW l \in Listeners, ListenStep(l) PROVE LockDiscipline'
      <4>1. CASE ListenLock(l) \/ Relock(l)
        BY <4>1 DEF ListenLock, Relock
      <4>2. CASE Take(l) \/ Block(l) \/ ReturnZero(l)
        BY <4>2 DEF Take, Block, ReturnZero
      <4>3. CASE Expire(l) \/ SpuriousWakeup(l) \/ TestAgain(l)
        BY <4>3 DEF Expire, SpuriousWakeup, TestAgain
      <4> QED
        BY <3>3, <4>1, <4>2, <4>3 DEF ListenStep
    <3>4. CASE Finished \/ UNCHANGED vars
      BY <3>4 DEF Finished, vars
    <3> QED
      BY <3>1, <3>2, <3>3, <3>4 DEF Next
  <2>2. Conservation'
    <3>0. q \in Seq(Messages) /\ popped \in Seq(Messages) /\ pushed = popped \o q
      BY DEF IInv, TypeOK, Conservation
    <3>1. ASSUME NEW m \in Messages, PushElement(m) PROVE Conservation'
      <4>1. Append(popped \o q, m) = popped \o Append(q, m)
        BY <3>0, AppendMessage
      <4> QED
        BY <3>0, <3>1, <4>1 DEF PushElement, Conservation
    <3>2. ASSUME NEW l \in Listeners, Take(l) PROVE Conservation'
      <4>1. q # <<>>
        BY <3>2 DEF Take
      <4>2. popped \o q = Append(popped, Head(q)) \o Tail(q)
        BY <3>0, <4>1, MoveFront
      <4> QED
        BY <3>0, <3>2, <4>2 DEF Take, Conservation
    <3>3. CASE UNCHANGED <<q, pushed, popped>>
      BY <3>0, <3>3 DEF Conservation
    <3> QED
      BY <3>1, <3>2, <3>3
      DEF Next, Send, PushLock, PushNotify, SetInactive, ListenStep, ListenLock,
          Block, Expire, SpuriousWakeup, Relock, ReturnZero, TestAgain, Finished,
          vars
  <2>3. FlagFollowsSender'
    BY DEF IInv, FlagFollowsSender, Next, Send, PushLock, PushElement, PushNotify,
           SetInactive, ListenStep, ListenLock, Take, Block, Expire,
           SpuriousWakeup, Relock, ReturnZero, TestAgain, Finished, vars
  <2>4. DismissedOnlyWhenDrained'
    <3> USE DEF IInv, TypeOK, DismissedOnlyWhenDrained, FlagFollowsSender
    <3>1. CASE Send
      BY <3>1 DEF Send, PushLock, PushElement, PushNotify
    <3>2. CASE SetInactive
      BY <3>2 DEF SetInactive
    <3>3. ASSUME NEW l \in Listeners, ListenStep(l)
          PROVE  DismissedOnlyWhenDrained'
      <4>1. CASE Take(l)
        BY <4>1 DEF Take
      <4>2. CASE ReturnZero(l)
        BY <4>2 DEF ReturnZero
      <4>3. CASE Block(l) \/ ListenLock(l) \/ Relock(l)
        BY <4>3 DEF Block, ListenLock, Relock
      <4>4. CASE Expire(l) \/ SpuriousWakeup(l) \/ TestAgain(l)
        BY <4>4 DEF Expire, SpuriousWakeup, TestAgain
      <4> QED
        BY <3>3, <4>1, <4>2, <4>3, <4>4 DEF ListenStep
    <3>4. CASE Finished \/ UNCHANGED vars
      BY <3>4 DEF Finished, vars
    <3> QED
      BY <3>1, <3>2, <3>3, <3>4 DEF Next
  <2>5. NobodySleepsOnItems'
    <3> USE DEF IInv, TypeOK, NobodySleepsOnItems
    <3>1. CASE PushNotify
      \* If nobody was woken, nobody sleeps; and nobody has been dismissed.
      <4>1. \A l \in Listeners : pc[l] # "done"
        BY <3>1 DEF PushNotify, DismissedOnlyWhenDrained
      <4>2. \E l \in Listeners : pc'[l] \notin {"wait", "done"}
        BY <3>1, <4>1, ThreadAssumption DEF PushNotify
      <4> QED
        BY <4>2
    <3>2. CASE PushLock \/ (\E m \in Messages : PushElement(m)) \/ SetInactive
      BY <3>2 DEF PushLock, PushElement, SetInactive
    <3>3. ASSUME NEW l \in Listeners, ListenStep(l) PROVE NobodySleepsOnItems'
      <4>1. CASE Take(l)
        BY <4>1 DEF Take
      <4>2. CASE Block(l) \/ ReturnZero(l)
        BY <4>2 DEF Block, ReturnZero
      <4>3. CASE ListenLock(l) \/ Relock(l) \/ TestAgain(l)
        BY <4>3 DEF ListenLock, Relock, TestAgain
      <4>4. CASE Expire(l) \/ SpuriousWakeup(l)
        BY <4>4 DEF Expire, SpuriousWakeup
      <4> QED
        BY <3>3, <4>1, <4>2, <4>3, <4>4 DEF ListenStep
    <3>4. CASE Finished \/ UNCHANGED vars
      BY <3>4 DEF Finished, vars
    <3> QED
      BY <3>1, <3>2, <3>3, <3>4 DEF Next, Send
  <2> QED
    BY <2>1, <2>2, <2>3, <2>4, <2>5 DEF IInv
<1> QED
  BY <1>1, <1>2, TypeCorrect, PTL DEF Spec

\* The mutex protects q and m_active.
THEOREM MutualExclusion == Spec => []LockDiscipline
BY Invariant, PTL DEF IInv

\* push and listen lose, double and reorder nothing.
THEOREM NothingLost == Spec => []Conservation
BY Invariant, PTL DEF IInv

\* listen returns 0 only from a queue that stays empty.
THEOREM DismissalIsFinal == Spec => []DismissedOnlyWhenDrained
BY Invariant, PTL DEF IInv

\* No lost wakeup.
THEOREM NoLostWakeup == Spec => []NobodySleepsOnItems
BY Invariant, PTL DEF IInv

-----------------------------------------------------------------------------
\* Every step of the class is a step of the channel, or none at all.
THEOREM ImplementsChannelSafety == Spec => Abstract!Safety
<1> USE DEF Abstract!NewChannel, Abstract!Pushed, Abstract!Popped,
            Abstract!HasItem, Abstract!SetInactive, Abstract!Drained
<1>1. Init => Abstract!Init
  BY DEF Init, Abstract!Init
<1>2. IInv /\ [Next]_vars => [Abstract!Next]_(Abstract!vars)
  <2> SUFFICES ASSUME IInv, [Next]_vars PROVE [Abstract!Next]_(Abstract!vars)
    OBVIOUS
  <2> USE DEF IInv, TypeOK, Goto
  <2>1. ASSUME NEW m \in Messages, PushElement(m)
        PROVE  Abstract!Send(m)
    BY <2>1 DEF PushElement, Abstract!Send, FlagFollowsSender
  <2>2. CASE SetInactive
    <3>1. m_active = TRUE /\ m_active' = FALSE
      BY <2>2 DEF SetInactive, FlagFollowsSender
    <3>2. UNCHANGED <<q, pc, pushed, popped>>
      BY <2>2 DEF SetInactive
    <3>3. Abstract!Close
      BY <3>1, <3>2 DEF Abstract!Close
    <3> QED
      BY <3>3 DEF Abstract!Next
  <2>3. ASSUME NEW l \in Listeners, Take(l)
        PROVE  Abstract!Receive(l)
    BY <2>3 DEF Take, Abstract!Receive
  <2>4. ASSUME NEW l \in Listeners, ReturnZero(l)
        PROVE  Abstract!Dismiss(l)
    BY <2>4 DEF ReturnZero, Abstract!Dismiss
  <2>5. CASE PushLock \/ PushNotify
    BY <2>5 DEF PushLock, PushNotify, Abstract!vars
  <2>6. ASSUME NEW l \in Listeners,
               \/ ListenLock(l) \/ Block(l) \/ Expire(l)
               \/ SpuriousWakeup(l) \/ Relock(l) \/ TestAgain(l)
        PROVE  UNCHANGED Abstract!vars
    BY <2>6 DEF ListenLock, Block, Expire, SpuriousWakeup, Relock, TestAgain,
                Abstract!vars
  <2>7. CASE Finished \/ UNCHANGED vars
    BY <2>7 DEF Finished, vars, Abstract!vars
  <2> QED
    BY <2>1, <2>2, <2>3, <2>4, <2>5, <2>6, <2>7
    DEF Next, Send, ListenStep, Abstract!Next
<1> QED
  BY <1>1, <1>2, Invariant, PTL DEF Spec, Abstract!Safety
=============================================================================
