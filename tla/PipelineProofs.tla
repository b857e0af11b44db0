---------------------------- MODULE PipelineProofs ----------------------------
(***************************************************************************)
(* The safety properties of Pipeline, for every set of APIDs, every        *)
(* database and every input, and that a run implements the safety part of  *)
(* RowDelivery.                                                            *)
(***************************************************************************)
EXTENDS Pipeline, SequenceLemmas, TLAPS

-----------------------------------------------------------------------------
(***************************************************************************)
(* What one decode returns and how far it reads, for every byte vector.    *)
(***************************************************************************)
\* A decode that starts at packet i reads at least that packet and stops
\* inside the byte vector: the inner loop of Decom::init makes progress.
LEMMA DecodeEndInside ==
  ASSUME NEW p \in Seq(WirePacket), NEW i \in 1 .. Len(p), NEW instrument
  PROVE  DecodeEnd(p, i, instrument) \in i .. Len(p)
<1>1. SegmentEnd(p, i) \in i .. Len(p)
  <2>1. CASE LastsAfter(p, i) = {}
    BY <2>1 DEF SegmentEnd
  <2>2. CASE LastsAfter(p, i) # {}
    <3>1. LastsAfter(p, i) \subseteq i + 1 .. Len(p)
      BY DEF LastsAfter
    <3>2. Min(LastsAfter(p, i)) \in LastsAfter(p, i)
      BY <2>2, <3>1, LeastOfNaturals
    <3> QED
      BY <2>2, <3>1, <3>2 DEF SegmentEnd
  <2> QED
    BY <2>1, <2>2
<1> QED
  BY <1>1 DEF DecodeEnd

\* Whatever a decode finds unset in the Packet, it returns a Packet.
LEMMA DecodedPackets ==
  ASSUME NEW p \in Seq(WirePacket), NEW i \in 1 .. Len(p), NEW instrument
  PROVE  Decoded(p, i, instrument) \subseteq Packet
<1> DEFINE e == DecodeEnd(p, i, instrument)
           s == SubSeq(p, i, e)
<1>1. e \in i .. Len(p)
  BY DecodeEndInside
<1> HIDE DEF e
<1>2. s \in Seq(WirePacket) /\ Len(s) = e - i + 1 /\ Len(s) >= 1
  BY <1>1
<1>3. s[1] \in WirePacket /\ s[Len(s)] \in WirePacket /\ p[i] \in WirePacket
  <2> HIDE DEF s
  <2>1. p[i] \in WirePacket
    OBVIOUS
  <2>2. 1 \in 1 .. Len(s) /\ Len(s) \in 1 .. Len(s)
    BY <1>2
  <2> QED
    BY <1>2, <2>1, <2>2
<1>4. Head(s) = s[1]
  BY <1>2
<1> HIDE DEF s
<1>5. ASSUME NEW apids \in SUBSET Apids, NEW flags \in SUBSET BOOLEAN,
             NEW d \in Seq(WirePacket), NEW t \in Seq(WirePacket)
      PROVE  Outcomes(apids, flags, d, t) \subseteq Packet
  BY <1>5 DEF Outcomes, Packet
<1>6. ASSUME NEW w \in WirePacket PROVE Standalone(w) \subseteq Packet
  <2>1. w.APID \in Apids /\ w.hasData \in BOOLEAN
    BY DEF WirePacket
  <2>2. <<w>> \in Seq(WirePacket) /\ <<>> \in Seq(WirePacket)
    OBVIOUS
  <2> QED
    BY <1>5, <2>1, <2>2 DEF Standalone
<1>7. Segmented(s) \subseteq Packet
  <2>1. Head(s).APID \in Apids
    BY <1>3, <1>4 DEF WirePacket
  <2>2. <<Head(s)>> \in Seq(WirePacket) /\ <<>> \in Seq(WirePacket)
    BY <1>3, <1>4
  <2> QED
    BY <1>2, <1>5, <2>1, <2>2 DEF Segmented
<1>8. Science(s) \subseteq Packet
  <2>1. Head(s).APID \in Apids /\ s[Len(s)].APID \in Apids
    BY <1>3, <1>4 DEF WirePacket
  <2>2. <<>> \in Seq(WirePacket)
    OBVIOUS
  <2>3. /\ Outcomes({Head(s).APID}, BOOLEAN, s, s) \subseteq Packet
        /\ Outcomes({Head(s).APID}, {TRUE}, <<>>, s) \subseteq Packet
        /\ Outcomes({s[Len(s)].APID}, BOOLEAN, <<>>, s) \subseteq Packet
        /\ Outcomes(Apids, BOOLEAN, <<>>, s) \subseteq Packet
    BY <1>2, <1>5, <2>1, <2>2
  <2> QED
    BY <2>3 DEF Science
<1> QED
  BY <1>3, <1>6, <1>7, <1>8 DEF Decoded, s, e

-----------------------------------------------------------------------------
\* All variables in groups, opened up.
LEMMA VarsUnchanged ==
  ASSUME UNCHANGED vars
  PROVE  /\ UNCHANGED <<format, todo, readerPc, m_queue, decomPc, queueVal, pos>>
         /\ UNCHANGED <<pack, m_APIDs, m_queues, writer, outfile, inHand, rows>>
         /\ UNCHANGED <<accepted, spawnedFor>>
BY DEF vars, readerVars, decomVars, writerVars, history

-----------------------------------------------------------------------------
\* The item that stands for none is an item.
LEMMA NoItemIsItem == NoItem \in Item
<1>1. NoInstrument \in Instruments /\ <<>> \in Seq(WirePacket)
  BY InstrumentAssumption
<1> QED
  BY <1>1 DEF NoItem, Item

\* What main and the constructors leave has its types.
LEMMA InitTypeOK == Init => TypeOK
<1> SUFFICES ASSUME Init PROVE TypeOK
  OBVIOUS
<1>1. PICK input \in Inputs : format = input.format /\ todo = input.groups
  BY DEF Init
<1>2. format \in {"H5", "PDS"} /\ todo \in Seq(Group)
  BY <1>1, InputAssumption DEF Input
<1>3. queueVal \in Item /\ m_queue \in [q : Seq(Item), m_active : BOOLEAN]
  <2>1. m_queue = [q |-> <<>>, m_active |-> TRUE]
    BY DEF Init, NewChannel
  <2> QED
    BY <2>1, NoItemIsItem DEF Init
<1>4. m_queues \in [Apids -> [q : Seq(Packet), m_active : BOOLEAN]]
  BY DEF Init, NewChannel
<1>5. /\ writer \in [Apids -> WriterPC]
      /\ outfile \in [Apids -> Instruments \cup {NoFile}]
      /\ spawnedFor \in [Apids -> Instruments \cup {NoFile}]
  BY DEF Init, WriterPC
<1>6. /\ inHand \in [Apids -> Seq(Packet)]
      /\ rows \in [Apids -> Seq(Packet)]
      /\ accepted \in [Apids -> Seq(Packet)]
  BY DEF Init
<1> QED
  BY <1>2, <1>3, <1>4, <1>5, <1>6 DEF Init, TypeOK, DecomPC

\* ReadFile's thread keeps the types.
LEMMA ReaderTypeOK == TypeOK /\ ReaderStep => TypeOK'
<1> SUFFICES ASSUME TypeOK, ReaderStep PROVE TypeOK'
  OBVIOUS
<1> USE DEF readerVars, decomVars, writerVars, history
<1>1. ASSUME NEW item \in Item, NEW pushes, Read(item, pushes) PROVE TypeOK'
  <2>1. todo' \in Seq(Group)
    BY <1>1 DEF TypeOK, Read
  <2>2. m_queue' \in [q : Seq(Item), m_active : BOOLEAN]
    BY <1>1 DEF TypeOK, Read, Pushed
  <2> QED
    BY <1>1, <2>1, <2>2 DEF TypeOK, Read
<1>2. readerPc = "reading" /\ todo # <<>> =>
        /\ Head(todo).instrument \in Instruments
        /\ Head(todo).packets \in Seq(WirePacket)
  <2> SUFFICES ASSUME todo # <<>>
               PROVE  /\ Head(todo).instrument \in Instruments
                      /\ Head(todo).packets \in Seq(WirePacket)
    OBVIOUS
  <2>1. Head(todo) \in Group
    BY DEF TypeOK
  <2> QED
    BY <2>1 DEF Group
<1>3. CASE ReadH5Group
  BY <1>1, <1>2, <1>3 DEF ReadH5Group, Read, Item
<1>4. CASE ReadPDSFile
  BY <1>1, <1>2, <1>4, InstrumentAssumption DEF ReadPDSFile, Read, Item
<1>5. CASE CloseQueue
  BY <1>5 DEF CloseQueue, TypeOK, SetInactive
<1>6. CASE ReturnToEventLoop
  BY <1>6 DEF ReturnToEventLoop, TypeOK
<1> QED
  BY <1>3, <1>4, <1>5, <1>6 DEF ReaderStep

\* The thread of Decom::init keeps the types.
LEMMA DecomTypeOK == TypeOK /\ DecomStep => TypeOK'
<1> SUFFICES ASSUME TypeOK, DecomStep PROVE TypeOK'
  OBVIOUS
<1> USE DEF readerVars, writerVars, history, DecomPC
<1>1. CASE NewTurn
  BY <1>1, NoItemIsItem DEF NewTurn, TypeOK
<1>2. CASE TakeItem
  <2>1. Head(m_queue.q) \in Item
    BY <1>2 DEF TakeItem, TypeOK, HasItem
  <2>2. m_queue' \in [q : Seq(Item), m_active : BOOLEAN]
    BY <1>2 DEF TakeItem, TypeOK, HasItem, Popped
  <2> QED
    BY <1>2, <2>1, <2>2 DEF TakeItem, TypeOK
<1>3. CASE NothingMore \/ EndOfItem \/ DropIgnored \/ JoinWriters
  BY <1>3 DEF NothingMore, EndOfItem, DropIgnored, JoinWriters, TypeOK
<1>4. CASE DecodePacket
  <2> DEFINE p == queueVal.packets
  <2>1. p \in Seq(WirePacket) /\ pos \in 1 .. Len(p)
    BY <1>4 DEF DecodePacket, HeaderFound, TypeOK, Item
  <2>2. pack' \in Packet
    BY <1>4, <2>1, DecodedPackets DEF DecodePacket
  <2>3. pos' \in Nat \ {0}
    <3>1. DecodeEnd(p, pos, queueVal.instrument) \in pos .. Len(p)
      BY <2>1, DecodeEndInside
    <3> QED
      BY <1>4, <2>1, <3>1 DEF DecodePacket
  <2>4. m_APIDs' \subseteq Apids
    BY <1>4, <2>2 DEF DecodePacket, TypeOK, Packet
  <2> QED
    BY <1>4, <2>2, <2>3, <2>4 DEF DecodePacket, TypeOK
<1>5. CASE SpawnWriter
  <2>1. pack \in Packet /\ pack.apid \in Apids
    BY <1>5 DEF SpawnWriter, TypeOK, Packet
  <2>2. /\ writer' \in [Apids -> WriterPC]
        /\ m_queues' \in [Apids -> [q : Seq(Packet), m_active : BOOLEAN]]
        /\ spawnedFor' \in [Apids -> Instruments \cup {NoFile}]
    BY <1>5, <2>1 DEF SpawnWriter, TypeOK, WriterPC, NewChannel, Item
  <2> QED
    BY <1>5, <2>1, <2>2 DEF SpawnWriter, TypeOK
<1>6. CASE PushPacket
  <2>1. pack \in Packet /\ pack.apid \in Apids
    BY <1>6 DEF PushPacket, TypeOK, Packet
  <2>2. m_queues' \in [Apids -> [q : Seq(Packet), m_active : BOOLEAN]]
    BY <1>6, <2>1 DEF PushPacket, TypeOK, Pushed
  <2>3. accepted' \in [Apids -> Seq(Packet)]
    BY <1>6, <2>1 DEF PushPacket, TypeOK
  <2> QED
    BY <1>6, <2>1, <2>2, <2>3 DEF PushPacket, TypeOK
<1>7. ASSUME NEW a \in Apids, JoinSetInactive(a) PROVE TypeOK'
  <2>1. m_queues' \in [Apids -> [q : Seq(Packet), m_active : BOOLEAN]]
    BY <1>7 DEF JoinSetInactive, TypeOK, SetInactive
  <2> QED
    BY <1>7, <2>1 DEF JoinSetInactive, TypeOK, decomVars
<1>8. CASE SetFinished \/ ExitOnMissingFile \/ TerminateOnShortRow
  BY <1>8 DEF SetFinished, ExitOnMissingFile, TerminateOnShortRow, FormatStop,
              TypeOK
<1> QED
  BY <1>1, <1>2, <1>3, <1>4, <1>5, <1>6, <1>7, <1>8 DEF DecomStep

\* A writer of the ThreadPoolServer keeps the types.
LEMMA WriterTypeOK == ASSUME NEW a \in Apids PROVE TypeOK /\ WriterStep(a) => TypeOK'
<1> SUFFICES ASSUME TypeOK, WriterStep(a) PROVE TypeOK'
  OBVIOUS
<1> USE DEF readerVars, decomVars, history, WriterPC
<1>1. CASE OpenFile(a)
  BY <1>1 DEF OpenFile, TypeOK, Item
<1>2. CASE TakePacket(a)
  <2>1. Head(m_queues[a].q) \in Packet /\ Tail(m_queues[a].q) \in Seq(Packet)
    BY <1>2 DEF TakePacket, TypeOK, HasItem
  <2>2. m_queues' \in [Apids -> [q : Seq(Packet), m_active : BOOLEAN]]
    BY <1>2, <2>1 DEF TakePacket, TypeOK, Popped
  <2>3. inHand' \in [Apids -> Seq(Packet)] /\ writer' \in [Apids -> WriterPC]
    BY <1>2, <2>1 DEF TakePacket, TypeOK
  <2> QED
    BY <1>2, <2>2, <2>3 DEF TakePacket, TypeOK
<1>3. CASE WriteRow(a)
  BY <1>3 DEF WriteRow, TypeOK
<1>4. CASE CloseFile(a)
  BY <1>4 DEF CloseFile, TypeOK
<1> QED
  BY <1>1, <1>2, <1>3, <1>4 DEF WriterStep

\* Every variable of a run stays in its domain.  The point is DecodePacket:
\* whatever unset fields hold, exec gets a Packet and pos advances.
THEOREM TypeCorrect == Safety => []TypeOK
<1>1. TypeOK /\ [Next]_vars => TypeOK'
  <2> SUFFICES ASSUME TypeOK, [Next]_vars PROVE TypeOK'
    OBVIOUS
  <2>1. CASE UNCHANGED vars
    BY <2>1, VarsUnchanged DEF TypeOK
  <2>2. CASE Quiet
    BY <2>1, <2>2 DEF Quiet
  <2> QED
    BY <2>1, <2>2, ReaderTypeOK, DecomTypeOK, WriterTypeOK DEF Next
<1> QED
  BY <1>1, InitTypeOK, PTL DEF Safety

-----------------------------------------------------------------------------
(***************************************************************************)
(* The inductive invariant.  RowsThenQueue needs to know that nothing is   *)
(* in the hands of a writer that is not writing, and nothing in a queue    *)
(* that has no writer.  FormatSeesWholeFiles follows at the moment the     *)
(* last writer is joined, because a writer that is done left its queue     *)
(* empty, and remains true because nobody pushes to an inactive queue.     *)
(***************************************************************************)
Late == {"join", "format"} \cup Stopped

\* The flag of the reader's queue says whether the reader still reads.
QueueFollowsReader ==
  /\ readerPc = "reading" <=> m_queue.m_active
  /\ readerPc # "reading" => todo = <<>>

\* What is known of the queue and the hands of a writer from where it is.
WriterState(a) ==
  /\ ~m_queues[a].m_active => decomPc \in Late
  /\ writer[a] = "none" => m_queues[a].q = <<>>
  /\ writer[a] # "write" => inHand[a] = <<>>
  /\ writer[a] = "write" => Len(inHand[a]) = 1
  /\ writer[a] = "done" => m_queues[a].q = <<>> /\ ~m_queues[a].m_active
  /\ decomPc = "spawned" /\ pack.apid = a => writer[a] # "none"

IInv ==
  /\ TypeOK
  /\ QueueFollowsReader
  /\ JoinOnlyAfterLastItem
  /\ \A a \in Apids : WriterState(a)
  /\ ApidReferenceAlive
  /\ RowsThenQueue
  /\ FormatSeesWholeFiles

\* Before the threads start nothing is in hand, queued or written.
LEMMA InitIInv == Init => IInv
<1> SUFFICES ASSUME Init PROVE IInv
  OBVIOUS
<1>1. QueueFollowsReader /\ JoinOnlyAfterLastItem /\ FormatSeesWholeFiles
  BY DEF Init, QueueFollowsReader, JoinOnlyAfterLastItem, FormatSeesWholeFiles,
         Stopped, NewChannel
<1>2. \A a \in Apids : WriterState(a)
  BY DEF Init, WriterState, NewChannel
<1>3. ApidReferenceAlive /\ RowsThenQueue
  BY DEF Init, ApidReferenceAlive, RowsThenQueue, NewChannel
<1> QED
  BY <1>1, <1>2, <1>3, InitTypeOK DEF IInv

\* The reader touches its queue only.
LEMMA ReaderIInv == IInv /\ TypeOK' /\ ReaderStep => IInv'
<1> SUFFICES ASSUME IInv, TypeOK', ReaderStep PROVE IInv'
  OBVIOUS
<1> USE DEF decomVars, writerVars, history
<1>1. /\ UNCHANGED <<decomPc, queueVal, pos, pack, m_APIDs, m_queues>>
      /\ UNCHANGED <<writer, outfile, inHand, rows, accepted, spawnedFor>>
  BY DEF ReaderStep, ReadH5Group, ReadPDSFile, Read, CloseQueue,
         ReturnToEventLoop
<1>2. /\ \A a \in Apids : WriterState(a)'
      /\ ApidReferenceAlive' /\ RowsThenQueue' /\ FormatSeesWholeFiles'
  BY <1>1 DEF IInv, WriterState, ApidReferenceAlive, RowsThenQueue,
              FormatSeesWholeFiles, HasItem
<1>3. QueueFollowsReader' /\ JoinOnlyAfterLastItem'
  <2>1. ASSUME NEW item, NEW pushes, Read(item, pushes)
        PROVE  QueueFollowsReader' /\ JoinOnlyAfterLastItem'
    BY <2>1 DEF Read, IInv, QueueFollowsReader, JoinOnlyAfterLastItem, Pushed
  <2>2. CASE CloseQueue
    BY <2>2 DEF CloseQueue, IInv, QueueFollowsReader, JoinOnlyAfterLastItem,
                SetInactive
  <2>3. CASE ReturnToEventLoop
    BY <2>3 DEF ReturnToEventLoop, IInv, QueueFollowsReader,
                JoinOnlyAfterLastItem
  <2> QED
    BY <2>1, <2>2, <2>3 DEF ReaderStep, ReadH5Group, ReadPDSFile
<1> QED
  BY <1>2, <1>3 DEF IInv

\* Outside of exec and join, the Decom thread touches no writer's queue.
LEMMA DecomMovesIInv ==
  ASSUME IInv, TypeOK',
         \/ NewTurn \/ TakeItem \/ NothingMore \/ EndOfItem \/ DecodePacket
         \/ DropIgnored
  PROVE  IInv'
<1> USE DEF readerVars, writerVars, history
<1>1. /\ UNCHANGED <<m_queues, writer, outfile, inHand, rows, accepted>>
      /\ UNCHANGED <<format, todo, readerPc>>
      /\ decomPc \notin {"spawned", "format"} \cup Stopped
      /\ decomPc' \notin {"spawned", "format"} \cup Stopped
      /\ decomPc' \in Late <=> NothingMore
  BY DEF NewTurn, TakeItem, NothingMore, EndOfItem, DecodePacket, DropIgnored,
         Stopped, Late
<1>2. decomPc \notin Late
  BY DEF NewTurn, TakeItem, NothingMore, EndOfItem, DecodePacket, DropIgnored,
         Stopped, Late
<1>3. QueueFollowsReader'
  BY <1>1 DEF IInv, QueueFollowsReader, NewTurn, TakeItem, NothingMore,
              EndOfItem, DecodePacket, DropIgnored, Popped
<1>4. JoinOnlyAfterLastItem'
  <2>1. CASE NothingMore
    BY <2>1 DEF NothingMore, Drained, IInv, QueueFollowsReader,
                JoinOnlyAfterLastItem
  <2>2. CASE ~NothingMore
    BY <1>1, <2>2 DEF JoinOnlyAfterLastItem, Late
  <2> QED
    BY <2>1, <2>2
<1>5. \A a \in Apids : WriterState(a)'
  BY <1>1, <1>2 DEF IInv, WriterState
<1>6. ApidReferenceAlive'
  BY <1>1 DEF IInv, ApidReferenceAlive, HasItem
<1>7. RowsThenQueue' /\ FormatSeesWholeFiles'
  BY <1>1 DEF IInv, RowsThenQueue, FormatSeesWholeFiles
<1> QED
  BY <1>3, <1>4, <1>5, <1>6, <1>7 DEF IInv

\* Pushing behind what has left a queue of Packets.
LEMMA AppendPacket ==
  ASSUME NEW s \in Seq(Packet), NEW t \in Seq(Packet), NEW e \in Packet
  PROVE  Append(s \o t, e) = s \o Append(t, e)
OBVIOUS

\* A queue that was pushed to is not empty.
LEMMA AppendedNotEmpty ==
  ASSUME NEW t \in Seq(Packet), NEW e \in Packet
  PROVE  Append(t, e) # <<>>
<1>1. Len(Append(t, e)) = Len(t) + 1 /\ Len(t) \in Nat
  OBVIOUS
<1> QED
  BY <1>1

\* exec: a new queue is empty and so is what it replaces; the packet that is
\* pushed keeps the APID of its new writer alive; no queue is inactive yet.
LEMMA ExecIInv ==
  ASSUME IInv, TypeOK', SpawnWriter \/ PushPacket
  PROVE  IInv'
<1> USE DEF readerVars, writerVars, history
<1> DEFINE b == pack.apid
<1>1. pack \in Packet /\ b \in Apids
  BY DEF IInv, TypeOK, SpawnWriter, PushPacket, Packet
<1>2. /\ UNCHANGED <<format, todo, readerPc, m_queue, pack, outfile, inHand, rows>>
      /\ decomPc \notin Late /\ decomPc' \notin Late
  BY DEF SpawnWriter, PushPacket, Late, Stopped
<1>3. QueueFollowsReader' /\ JoinOnlyAfterLastItem' /\ FormatSeesWholeFiles'
  BY <1>2 DEF IInv, QueueFollowsReader, JoinOnlyAfterLastItem,
              FormatSeesWholeFiles, Late
<1>4. CASE SpawnWriter
  <2>1. /\ m_queues[b].q = <<>> /\ m_queues'[b] = NewChannel
        /\ \A a \in Apids \ {b} : m_queues'[a] = m_queues[a]
        /\ writer'[b] = "started" /\ writer[b] = "none"
        /\ \A a \in Apids \ {b} : writer'[a] = writer[a]
        /\ decomPc' = "spawned" /\ accepted' = accepted
    BY <1>1, <1>4 DEF SpawnWriter, IInv, TypeOK, WriterState
  <2>2. \A a \in Apids : WriterState(a)'
    BY <1>2, <2>1 DEF IInv, WriterState, NewChannel
  <2>3. ApidReferenceAlive'
    BY <1>2, <2>1, <1>4 DEF IInv, ApidReferenceAlive, HasItem, SpawnWriter
  <2>4. RowsThenQueue'
    <3>1. \A a \in Apids : m_queues'[a].q = m_queues[a].q
      BY <2>1 DEF NewChannel
    <3> QED
      BY <1>2, <2>1, <3>1 DEF IInv, RowsThenQueue
  <2> QED
    BY <1>3, <2>2, <2>3, <2>4 DEF IInv
<1>5. CASE PushPacket
  <2>1. /\ m_queues'[b] = Pushed(m_queues[b], pack)
        /\ accepted'[b] = Append(accepted[b], pack)
        /\ \A a \in Apids \ {b} : /\ m_queues'[a] = m_queues[a]
                                  /\ accepted'[a] = accepted[a]
        /\ writer[b] # "none" /\ writer' = writer
        /\ decomPc' = "decode"
    BY <1>1, <1>5 DEF PushPacket, IInv, TypeOK, WriterState
  <2>2. m_queues[b].q \in Seq(Packet) /\ m_queues[b].m_active \in BOOLEAN
    BY <1>1 DEF IInv, TypeOK
  <2>3. m_queues[b].m_active
    BY <1>1, <1>2 DEF IInv, WriterState
  <2>4. /\ m_queues'[b].q = Append(m_queues[b].q, pack)
        /\ m_queues'[b].m_active = m_queues[b].m_active
        /\ m_queues'[b].q # <<>>
    <3>1. /\ m_queues'[b].q = Append(m_queues[b].q, pack)
          /\ m_queues'[b].m_active = m_queues[b].m_active
      BY <2>1 DEF Pushed
    <3>2. Append(m_queues[b].q, pack) # <<>>
      BY <1>1, <2>2, AppendedNotEmpty
    <3> QED
      BY <3>1, <3>2
  <2>5. \A a \in Apids : WriterState(a)'
    BY <1>2, <2>1, <2>3, <2>4 DEF IInv, WriterState
  <2>6. ApidReferenceAlive'
    BY <1>2, <1>5, <2>1, <2>4
    DEF IInv, ApidReferenceAlive, HasItem, PushPacket
  <2>7. RowsThenQueue'
    <3>1. accepted'[b] = (rows[b] \o inHand[b]) \o m_queues'[b].q
      <4>1. rows[b] \o inHand[b] \in Seq(Packet)
        BY <1>1 DEF IInv, TypeOK
      <4>2. Append((rows[b] \o inHand[b]) \o m_queues[b].q, pack)
              = (rows[b] \o inHand[b]) \o Append(m_queues[b].q, pack)
        BY <1>1, <2>2, <4>1, AppendPacket
      <4>3. accepted[b] = (rows[b] \o inHand[b]) \o m_queues[b].q
        BY <1>1 DEF IInv, RowsThenQueue
      <4> QED
        BY <2>1, <2>4, <4>2, <4>3
    <3> QED
      BY <1>2, <2>1, <3>1 DEF IInv, RowsThenQueue
  <2> QED
    BY <1>3, <2>5, <2>6, <2>7 DEF IInv
<1> QED
  BY <1>4, <1>5

\* join and the formatting: the writers that are joined have nothing left.
LEMMA JoinIInv ==
  ASSUME IInv, TypeOK',
         \/ \E a \in Apids : JoinSetInactive(a)
         \/ JoinWriters \/ SetFinished \/ ExitOnMissingFile
         \/ TerminateOnShortRow
  PROVE  IInv'
<1> USE DEF readerVars, decomVars, writerVars, history
<1>1. /\ UNCHANGED <<format, todo, readerPc, m_queue, pack>>
      /\ UNCHANGED <<writer, outfile, inHand, rows, accepted>>
      /\ decomPc \in Late /\ decomPc' \in Late
      /\ decomPc # "spawned" /\ decomPc' # "spawned"
      /\ \A a \in Apids : m_queues'[a].q = m_queues[a].q
  <2>1. CASE \E a \in Apids : JoinSetInactive(a)
    BY <2>1 DEF JoinSetInactive, Late, Stopped, IInv, TypeOK, SetInactive
  <2>2. CASE JoinWriters
    BY <2>2 DEF JoinWriters, Late, Stopped
  <2>3. CASE SetFinished \/ ExitOnMissingFile \/ TerminateOnShortRow
    BY <2>3 DEF SetFinished, ExitOnMissingFile, TerminateOnShortRow, FormatStop,
                Late, Stopped
  <2> QED
    BY <2>1, <2>2, <2>3
<1>2. QueueFollowsReader' /\ JoinOnlyAfterLastItem'
  BY <1>1 DEF IInv, QueueFollowsReader, JoinOnlyAfterLastItem, Late
<1>3. \A a \in Apids :
        m_queues'[a].m_active => m_queues[a].m_active
  BY DEF JoinSetInactive, JoinWriters, SetFinished, ExitOnMissingFile,
         TerminateOnShortRow, FormatStop, SetInactive, IInv, TypeOK
<1>4. \A a \in Apids : WriterState(a)'
  BY <1>1, <1>3 DEF IInv, WriterState
<1>5. ApidReferenceAlive' /\ RowsThenQueue'
  BY <1>1 DEF IInv, ApidReferenceAlive, RowsThenQueue, HasItem
<1>6. FormatSeesWholeFiles'
  <2>1. CASE JoinWriters
    <3> SUFFICES ASSUME NEW a \in Apids
                 PROVE  /\ rows[a] = accepted[a]
                        /\ writer[a] \in {"none", "done"}
      BY <1>1 DEF FormatSeesWholeFiles
    <3>1. writer[a] \in {"none", "done"}
      BY <2>1 DEF JoinWriters
    <3>2. inHand[a] = <<>> /\ m_queues[a].q = <<>>
      BY <3>1 DEF IInv, WriterState
    <3>3. rows[a] \in Seq(Packet) /\ accepted[a] = (rows[a] \o <<>>) \o <<>>
      BY <3>2 DEF IInv, TypeOK, RowsThenQueue
    <3> QED
      BY <3>1, <3>3, ConcatEmptySeq
  <2>2. CASE \E a \in Apids : JoinSetInactive(a)
    BY <2>2 DEF JoinSetInactive, FormatSeesWholeFiles, Stopped
  <2>3. CASE SetFinished \/ ExitOnMissingFile \/ TerminateOnShortRow
    BY <1>1, <2>3 DEF SetFinished, ExitOnMissingFile, TerminateOnShortRow,
                      FormatStop, IInv, FormatSeesWholeFiles
  <2> QED
    BY <2>1, <2>2, <2>3
<1> QED
  BY <1>2, <1>4, <1>5, <1>6 DEF IInv

\* The front of a queue of Packets goes to the hands of its writer.
LEMMA PacketToHand ==
  ASSUME NEW s \in Seq(Packet), NEW t \in Seq(Packet), t # <<>>
  PROVE  (s \o <<>>) \o t = (s \o <<Head(t)>>) \o Tail(t)
BY MoveToHand

\* From there it goes to the file.
LEMMA PacketToFile ==
  ASSUME NEW s \in Seq(Packet), NEW h \in Seq(Packet), NEW t \in Seq(Packet)
  PROVE  (s \o h) \o t = ((s \o h) \o <<>>) \o t
BY MoveOutOfHand

\* A writer moves packets from its queue to its hands and on to its file.
LEMMA WriterIInv ==
  ASSUME NEW b \in Apids, IInv, TypeOK', WriterStep(b)
  PROVE  IInv'
<1> USE DEF readerVars, decomVars, history
<1>1. /\ UNCHANGED <<format, todo, readerPc, m_queue, decomPc, pack, accepted>>
      /\ \A a \in Apids \ {b} :
           /\ m_queues'[a] = m_queues[a] /\ writer'[a] = writer[a]
           /\ inHand'[a] = inHand[a] /\ rows'[a] = rows[a]
      /\ m_queues'[b].m_active = m_queues[b].m_active
  <2> USE DEF IInv, TypeOK
  <2>1. CASE OpenFile(b)
    BY <2>1 DEF OpenFile
  <2>2. CASE TakePacket(b)
    BY <2>2 DEF TakePacket, Popped
  <2>3. CASE WriteRow(b)
    BY <2>3 DEF WriteRow
  <2>4. CASE CloseFile(b)
    BY <2>4 DEF CloseFile
  <2> QED
    BY <2>1, <2>2, <2>3, <2>4 DEF WriterStep
<1>2. QueueFollowsReader' /\ JoinOnlyAfterLastItem'
  BY <1>1 DEF IInv, QueueFollowsReader, JoinOnlyAfterLastItem
<1>3. /\ m_queues[b].q \in Seq(Packet) /\ rows[b] \in Seq(Packet)
      /\ inHand[b] \in Seq(Packet)
      /\ accepted[b] = (rows[b] \o inHand[b]) \o m_queues[b].q
  BY DEF IInv, TypeOK, RowsThenQueue
\* What the step does to the queue, the hands and the file together, and
\* where the writer goes.
<1>4. /\ WriterState(b)'
      /\ writer'[b] # "started"
      /\ accepted[b] = (rows'[b] \o inHand'[b]) \o m_queues'[b].q
      /\ writer[b] \notin {"none", "done"}
      /\ writer'[b] = "done" => /\ rows'[b] = rows[b]
                                /\ m_queues[b].q = <<>> /\ inHand[b] = <<>>
  <2>1. CASE OpenFile(b)
    BY <1>1, <1>3, <2>1 DEF OpenFile, IInv, TypeOK, WriterState
  <2>2. CASE TakePacket(b)
    <3>1. /\ writer[b] = "listen" /\ writer'[b] = "write"
          /\ m_queues[b].q # <<>> /\ m_queues'[b].q = Tail(m_queues[b].q)
          /\ inHand'[b] = <<Head(m_queues[b].q)>> /\ rows'[b] = rows[b]
      BY <2>2 DEF TakePacket, HasItem, Popped, IInv, TypeOK
    <3>2. inHand[b] = <<>>
      BY <3>1 DEF IInv, WriterState
    <3>3. accepted[b] = (rows[b] \o <<Head(m_queues[b].q)>>) \o Tail(m_queues[b].q)
      BY <1>3, <3>1, <3>2, PacketToHand
    <3> QED
      BY <1>1, <3>1, <3>3 DEF IInv, WriterState
  <2>3. CASE WriteRow(b)
    <3>1. /\ writer[b] = "write" /\ writer'[b] = "listen"
          /\ m_queues'[b] = m_queues[b]
          /\ rows'[b] = rows[b] \o inHand[b] /\ inHand'[b] = <<>>
      BY <2>3 DEF WriteRow, IInv, TypeOK
    <3>2. accepted[b] = ((rows[b] \o inHand[b]) \o <<>>) \o m_queues[b].q
      BY <1>3, PacketToFile
    <3> QED
      BY <1>1, <3>1, <3>2 DEF IInv, WriterState
  <2>4. CASE CloseFile(b)
    <3>1. /\ writer[b] = "listen" /\ writer'[b] = "done"
          /\ m_queues' = m_queues /\ rows' = rows /\ inHand' = inHand
          /\ m_queues[b].q = <<>> /\ ~m_queues[b].m_active
      BY <2>4 DEF CloseFile, Drained, IInv, TypeOK
    <3> QED
      BY <1>1, <1>3, <3>1 DEF IInv, WriterState
  <2> QED
    BY <2>1, <2>2, <2>3, <2>4 DEF WriterStep
<1>5. \A a \in Apids : WriterState(a)'
  BY <1>1, <1>4 DEF IInv, WriterState
<1>6. ApidReferenceAlive'
  BY <1>1, <1>4 DEF IInv, ApidReferenceAlive, HasItem
<1>7. RowsThenQueue'
  BY <1>1, <1>4 DEF IInv, RowsThenQueue
\* After join no writer is left that could make a step.
<1>8. FormatSeesWholeFiles'
  BY <1>1, <1>4 DEF IInv, FormatSeesWholeFiles
<1> QED
  BY <1>2, <1>5, <1>6, <1>7, <1>8 DEF IInv

\* The invariant holds throughout every run.
THEOREM Invariant == Safety => []IInv
<1>1. IInv /\ TypeOK' /\ [Next]_vars => IInv'
  <2> SUFFICES ASSUME IInv, TypeOK', [Next]_vars PROVE IInv'
    OBVIOUS
  <2>1. CASE ReaderStep
    BY <2>1, ReaderIInv
  <2>2. CASE DecomStep
    BY <2>2, DecomMovesIInv, ExecIInv, JoinIInv DEF DecomStep
  <2>3. ASSUME NEW a \in Apids, WriterStep(a) PROVE IInv'
    BY <2>3, WriterIInv
  <2>4. CASE Quiet \/ UNCHANGED vars
    <3>1. UNCHANGED vars
      BY <2>4 DEF Quiet
    <3>2. \A a \in Apids : WriterState(a)'
      BY <3>1, VarsUnchanged DEF IInv, WriterState
    <3>3. /\ QueueFollowsReader' /\ JoinOnlyAfterLastItem' /\ RowsThenQueue'
          /\ ApidReferenceAlive' /\ FormatSeesWholeFiles'
      BY <3>1, VarsUnchanged
      DEF IInv, QueueFollowsReader, JoinOnlyAfterLastItem, RowsThenQueue,
          ApidReferenceAlive, FormatSeesWholeFiles, HasItem
    <3> QED
      BY <3>2, <3>3 DEF IInv
  <2> QED
    BY <2>1, <2>2, <2>3, <2>4 DEF Next
<1> QED
  BY <1>1, InitIInv, TypeCorrect, PTL DEF Safety

\* exec, the queue and the writer lose, double and reorder nothing.
THEOREM NothingLost == Safety => []RowsThenQueue
BY Invariant, PTL DEF IInv

\* Whatever is formatted or reported was written in full before.
THEOREM FilesAreWhole == Safety => []FormatSeesWholeFiles
BY Invariant, PTL DEF IInv

\* The Decom thread does not leave its loop early.
THEOREM LoopEndsAfterLastItem == Safety => []JoinOnlyAfterLastItem
BY Invariant, PTL DEF IInv

\* The reference to the APID that exec gives to a new thread does not dangle
\* before the thread has read it (unlike the one to the instrument).
THEOREM ReferenceAlive == Safety => []ApidReferenceAlive
BY Invariant, PTL DEF IInv

-----------------------------------------------------------------------------
\* Nobody pushes to a queue that was made inactive.
THEOREM ClosedIsClosed == Safety => NoPushAfterClose
<1> DEFINE Grows(s, t) == Len(t) > Len(s)
           NoPush == /\ Grows(m_queue.q, m_queue'.q) => m_queue.m_active
                     /\ \A a \in Apids : Grows(m_queues[a].q, m_queues'[a].q) =>
                                           m_queues[a].m_active
<1>1. IInv /\ [Next]_vars => [NoPush]_vars
  <2> SUFFICES ASSUME IInv, Next PROVE NoPush
    BY DEF NoPush
  <2> USE DEF readerVars, decomVars, writerVars, history
  <2>1. m_queue.q \in Seq(Item) /\ \A a \in Apids : m_queues[a].q \in Seq(Packet)
    BY DEF IInv, TypeOK
  <2>2. CASE ReaderStep
    BY <2>2 DEF ReaderStep, ReadH5Group, ReadPDSFile, Read, CloseQueue,
                ReturnToEventLoop, SetInactive, IInv, QueueFollowsReader
  <2>3. CASE DecomStep
    <3>1. CASE TakeItem
      BY <2>1, <3>1 DEF TakeItem, HasItem, Popped
    <3>2. CASE SpawnWriter
      <4>1. m_queues'[pack.apid].q = <<>> \/ pack.apid \notin Apids
        BY <3>2 DEF SpawnWriter, NewChannel, IInv, TypeOK
      <4>2. /\ m_queue' = m_queue
            /\ \A a \in Apids : a # pack.apid => m_queues'[a] = m_queues[a]
        BY <3>2 DEF SpawnWriter, IInv, TypeOK
      <4> QED
        BY <2>1, <4>1, <4>2
    <3>3. CASE PushPacket
      <4>1. decomPc \notin Late
        BY <3>3 DEF PushPacket, Late, Stopped
      <4>2. \A a \in Apids : m_queues[a].m_active
        BY <4>1 DEF IInv, WriterState
      <4>3. m_queue' = m_queue
        BY <3>3 DEF PushPacket
      <4> QED
        BY <4>2, <4>3
    <3>4. ASSUME NEW b \in Apids, JoinSetInactive(b) PROVE NoPush
      <4>1. m_queue' = m_queue /\ \A a \in Apids : m_queues'[a].q = m_queues[a].q
        BY <3>4 DEF JoinSetInactive, SetInactive, IInv, TypeOK
      <4> QED
        BY <2>1, <4>1
    <3>5. CASE UNCHANGED <<m_queue, m_queues>>
      BY <2>1, <3>5
    <3>6. CASE NewTurn \/ NothingMore \/ EndOfItem \/ DecodePacket \/ DropIgnored
      BY <3>5, <3>6 DEF NewTurn, NothingMore, EndOfItem, DecodePacket, DropIgnored
    <3>7. CASE JoinWriters \/ SetFinished \/ ExitOnMissingFile
                 \/ TerminateOnShortRow
      BY <3>5, <3>7 DEF JoinWriters, SetFinished, ExitOnMissingFile,
                        TerminateOnShortRow, FormatStop
    <3> QED
      BY <2>3, <3>1, <3>2, <3>3, <3>4, <3>6, <3>7 DEF DecomStep
  <2>4. ASSUME NEW b \in Apids, WriterStep(b) PROVE NoPush
    <3>1. CASE TakePacket(b)
      <4>1. /\ m_queue' = m_queue
            /\ m_queues[b].q # <<>> /\ m_queues'[b].q = Tail(m_queues[b].q)
            /\ \A a \in Apids : a # b => m_queues'[a] = m_queues[a]
        BY <3>1 DEF TakePacket, HasItem, Popped, IInv, TypeOK
      <4>2. ~Grows(m_queues[b].q, m_queues'[b].q)
        <5>1. ASSUME NEW s \in Seq(Packet), s # <<>> PROVE ~Grows(s, Tail(s))
          <6>1. Len(s) \in Nat /\ Len(Tail(s)) = Len(s) - 1
            BY <5>1
          <6> QED
            BY <6>1
        <5> HIDE DEF Grows
        <5> QED
          BY <2>1, <4>1, <5>1
      <4>3. ASSUME NEW a \in Apids PROVE ~Grows(m_queues[a].q, m_queues'[a].q)
        <5>1. Len(m_queues[a].q) \in Nat
          BY <2>1
        <5>2. CASE a = b
          BY <4>2, <5>2
        <5>3. CASE a # b
          BY <4>1, <5>1, <5>3
        <5> QED
          BY <5>2, <5>3
      <4>4. ~Grows(m_queue.q, m_queue'.q)
        BY <2>1, <4>1
      <4> QED
        BY <4>3, <4>4
    <3>2. CASE UNCHANGED <<m_queue, m_queues>>
      BY <2>1, <3>2
    <3> QED
      BY <2>4, <3>1, <3>2 DEF WriterStep, OpenFile, WriteRow, CloseFile
  <2>5. CASE Quiet
    BY <2>1, <2>5, VarsUnchanged DEF Quiet
  <2> QED
    BY <2>2, <2>3, <2>4, <2>5 DEF Next
<1> QED
  BY <1>1, Invariant, PTL DEF Safety, NoPushAfterClose

-----------------------------------------------------------------------------
(***************************************************************************)
(* Refinement.  exec accepts, WriteRow writes, the end of the loop seals,  *)
(* and the end of the formatting concludes; every other step changes       *)
(* nothing that the promise speaks of.                                     *)
(***************************************************************************)
\* What the promise speaks of, unchanged.
LEMMA DeliveryStutters ==
  ASSUME UNCHANGED <<accepted, rows>>,
         \/ decomPc' = decomPc
         \/ decomPc \notin Late /\ decomPc' \notin Late
         \/ decomPc = "join" /\ decomPc' = "format"
  PROVE  UNCHANGED Delivery!vars
BY DEF Delivery!vars, deliveryPhase, Late, Stopped

\* The new last element of a sequence of Packets.
LEMMA LastOfAppend ==
  ASSUME NEW s \in Seq(Packet), NEW e \in Packet
  PROVE  /\ Append(s, e) # <<>>
         /\ Append(s, e)[Len(Append(s, e))] = e
OBVIOUS

\* Handing a packet to the writer of its APID is accepting it.
LEMMA PushAccepts == ASSUME IInv, PushPacket PROVE Delivery!Accept(pack.apid)
<1> USE DEF writerVars
<1>1. pack \in Packet /\ pack.apid \in Apids
  BY DEF IInv, TypeOK, PushPacket, Packet
<1>2. /\ accepted' = [accepted EXCEPT ![pack.apid] = Append(@, pack)]
      /\ accepted \in [Apids -> Seq(Packet)]
  BY DEF PushPacket, IInv, TypeOK
<1>3. accepted'[pack.apid] = Append(accepted[pack.apid], pack)
  BY <1>1, <1>2
<1>4. /\ accepted'[pack.apid] # <<>>
      /\ accepted'[pack.apid][Len(accepted'[pack.apid])] = pack
  BY <1>1, <1>2, <1>3, LastOfAppend
<1>5. deliveryPhase = "open" /\ deliveryPhase' = "open" /\ rows' = rows
  BY DEF PushPacket, deliveryPhase
<1> QED
  BY <1>2, <1>4, <1>5 DEF Delivery!Accept

\* The row a writer writes is the next one that was accepted.
LEMMA WriteWrites ==
  ASSUME NEW a \in Apids, IInv, WriteRow(a) PROVE Delivery!Write(a)
<1> USE DEF decomVars, history
<1> DEFINE r == rows[a]
           h == inHand[a]
           t == m_queues[a].q
<1>1. /\ r \in Seq(Packet) /\ h \in Seq(Packet) /\ t \in Seq(Packet)
      /\ Len(h) = 1 /\ accepted[a] = (r \o h) \o t
  BY DEF IInv, TypeOK, WriterState, RowsThenQueue, WriteRow
<1>2. rows' = [rows EXCEPT ![a] = r \o h] /\ rows \in [Apids -> Seq(Packet)]
  BY DEF WriteRow, IInv, TypeOK
<1>3. UNCHANGED <<accepted, deliveryPhase>>
  BY DEF WriteRow, deliveryPhase
<1> HIDE DEF r, h, t
<1>4. /\ Len(accepted[a]) = Len(r) + 1 + Len(t)
      /\ accepted[a][Len(r) + 1] = h[1]
      /\ r \o h = Append(r, h[1])
  BY <1>1, SingleInHand
<1>5. Len(r) \in Nat /\ Len(t) \in Nat
  BY <1>1
<1>6. Len(r) < Len(accepted[a])
  BY <1>4, <1>5
<1> QED
  BY <1>2, <1>3, <1>4, <1>6 DEF Delivery!Write, r

\* Reporting the end, and either way the process ends early, concludes.
LEMMA EndConcludes ==
  ASSUME IInv, SetFinished \/ ExitOnMissingFile \/ TerminateOnShortRow
  PROVE  Delivery!Conclude
<1> USE DEF writerVars, history
<1>1. /\ decomPc = "format"
      /\ decomPc' \in Stopped
      /\ UNCHANGED <<accepted, rows>>
  BY DEF SetFinished, ExitOnMissingFile, TerminateOnShortRow, FormatStop, Stopped
<1>2. rows = accepted
  BY <1>1 DEF IInv, TypeOK, FormatSeesWholeFiles
<1>3. deliveryPhase = "sealed" /\ deliveryPhase' \in {"reported", "aborted"}
  BY <1>1 DEF deliveryPhase, Stopped
<1> QED
  BY <1>1, <1>2, <1>3 DEF Delivery!Conclude

\* What the files hold and what completion means: a run keeps the safety part
\* of the promise made to the user.
THEOREM ImplementsDeliverySafety == Safety => Delivery!Safety
<1>1. Init => Delivery!Init
  BY DEF Init, Delivery!Init, deliveryPhase
<1>2. IInv /\ [Next]_vars => [Delivery!Next]_(Delivery!vars)
  <2> SUFFICES ASSUME IInv, [Next]_vars PROVE [Delivery!Next]_(Delivery!vars)
    OBVIOUS
  <2> USE DEF readerVars, decomVars, writerVars, history
  <2>1. CASE PushPacket
    <3>1. pack.apid \in Apids
      BY <2>1 DEF PushPacket, IInv, TypeOK, Packet
    <3> QED
      BY <2>1, <3>1, PushAccepts DEF Delivery!Next
  <2>2. ASSUME NEW a \in Apids, WriteRow(a) PROVE Delivery!Next
    BY <2>2, WriteWrites DEF Delivery!Next
  <2>3. CASE NothingMore
    <3>1. /\ deliveryPhase = "open" /\ deliveryPhase' = "sealed"
          /\ UNCHANGED <<accepted, rows>>
      BY <2>3 DEF NothingMore, deliveryPhase
    <3> QED
      BY <3>1 DEF Delivery!Next, Delivery!Seal
  <2>4. CASE SetFinished \/ ExitOnMissingFile \/ TerminateOnShortRow
    BY <2>4, EndConcludes DEF Delivery!Next
  <2>5. CASE ReaderStep
    BY <2>5, DeliveryStutters DEF ReaderStep, ReadH5Group, ReadPDSFile, Read,
                                  CloseQueue, ReturnToEventLoop
  <2>6. CASE NewTurn \/ TakeItem \/ EndOfItem \/ DecodePacket \/ DropIgnored
               \/ SpawnWriter
    BY <2>6, DeliveryStutters DEF NewTurn, TakeItem, EndOfItem, DecodePacket,
                                  DropIgnored, SpawnWriter, Late, Stopped
  <2>7. CASE (\E a \in Apids : JoinSetInactive(a)) \/ JoinWriters
    BY <2>7, DeliveryStutters DEF JoinSetInactive, JoinWriters
  <2>8. ASSUME NEW a \in Apids, OpenFile(a) \/ TakePacket(a) \/ CloseFile(a)
        PROVE  UNCHANGED Delivery!vars
    BY <2>8, DeliveryStutters DEF OpenFile, TakePacket, CloseFile
  <2>9. CASE Quiet \/ UNCHANGED vars
    BY <2>9, VarsUnchanged, DeliveryStutters DEF Quiet
  <2> QED
    BY <2>1, <2>2, <2>3, <2>4, <2>5, <2>6, <2>7, <2>8, <2>9
    DEF Next, DecomStep, WriterStep
<1> QED
  BY <1>1, <1>2, Invariant, PTL DEF Safety, Delivery!Safety

-----------------------------------------------------------------------------
(***************************************************************************)
(* Order.  The packets of an input are numbered, and everything on its way *)
(* to the Decom thread keeps the order of the numbers: what queueVal still *)
(* holds, the queue behind it, the groups the reader has not come to.  So  *)
(* whatever was accepted is older than all of that.                        *)
(***************************************************************************)
\* The number of the first packet that was read for a row.
RowId(r) == Head(r.segments).id

\* All packets of these groups, or items, have numbers above n.
Above(n, gs) ==
  \A g \in DOMAIN gs : \A i \in DOMAIN gs[g].packets : n < gs[g].packets[i].id

Numbered(gs) ==
  \A g, h \in DOMAIN gs :
    \A i \in DOMAIN gs[g].packets, j \in DOMAIN gs[h].packets :
      g < h \/ (g = h /\ i < j) => gs[g].packets[i].id < gs[h].packets[j].id

Sorted(p) == \A i, j \in DOMAIN p : i < j => p[i].id < p[j].id

\* All packets of the groups gs are older than those of the groups hs.
Older(gs, hs) ==
  \A g \in DOMAIN gs : \A i \in DOMAIN gs[g].packets :
    Above(gs[g].packets[i].id, hs)

\* The Decom thread has not finished with queueVal.
InItem == decomPc \in {"decode", "exec", "spawned"}

AllToComeAbove(n) ==
  /\ Above(n, todo)
  /\ Above(n, m_queue.q)
  /\ InItem => \A i \in pos .. Len(queueVal.packets) : n < queueVal.packets[i].id

OrderToCome ==
  /\ Numbered(todo)
  /\ Numbered(m_queue.q)
  /\ Older(m_queue.q, todo)
  /\ Sorted(queueVal.packets)
  /\ InItem => \A i \in pos .. Len(queueVal.packets) :
                 /\ Above(queueVal.packets[i].id, m_queue.q)
                 /\ Above(queueVal.packets[i].id, todo)

OrderOfRows ==
  /\ \A a \in Apids : \A i, j \in DOMAIN accepted[a] :
       i < j => RowId(accepted[a][i]) < RowId(accepted[a][j])
  /\ \A a \in Apids : \A i \in DOMAIN accepted[a] :
       AllToComeAbove(RowId(accepted[a][i]))
  /\ decomPc \in {"exec", "spawned"} =>
       /\ AllToComeAbove(RowId(pack))
       /\ \A a \in Apids : \A i \in DOMAIN accepted[a] :
            RowId(accepted[a][i]) < RowId(pack)

\* Whatever a decode returns, the first packet it read is the one at i.
LEMMA DecodedFirst ==
  ASSUME NEW p \in Seq(WirePacket), NEW i \in 1 .. Len(p), NEW instrument,
         NEW r \in Decoded(p, i, instrument)
  PROVE  Head(r.segments) = p[i]
<1> DEFINE e == DecodeEnd(p, i, instrument)
           s == SubSeq(p, i, e)
<1>1. e \in i .. Len(p)
  BY DecodeEndInside
<1> HIDE DEF e
<1>2. Head(s) = p[i]
  BY <1>1
<1> HIDE DEF s
<1>3. ASSUME NEW apids, NEW flags, NEW d, NEW t,
             NEW x \in Outcomes(apids, flags, d, t)
      PROVE  x.segments = t
  BY DEF Outcomes
<1>4. CASE r \in Standalone(p[i])
  <2>1. r.segments = <<p[i]>>
    BY <1>3, <1>4 DEF Standalone
  <2> QED
    BY <2>1
<1>5. CASE r \in Segmented(s)
  BY <1>2, <1>3, <1>5 DEF Segmented
<1>6. CASE r \in Science(s)
  <2>1. r.segments = s
    BY <1>3, <1>6 DEF Science
  <2> QED
    BY <1>2, <2>1
<1> QED
  BY <1>4, <1>5, <1>6 DEF Decoded, s, e

\* The first group leaves.
LEMMA TailGroups ==
  ASSUME NEW S, NEW gs \in Seq(S), gs # <<>>
  PROVE  /\ \A n : Above(n, gs) =>
              /\ Above(n, Tail(gs))
              /\ \A i \in DOMAIN Head(gs).packets : n < Head(gs).packets[i].id
         /\ Numbered(gs) =>
              /\ Numbered(Tail(gs))
              /\ Sorted(Head(gs).packets)
              /\ \A i \in DOMAIN Head(gs).packets :
                   Above(Head(gs).packets[i].id, Tail(gs))
         /\ \A hs : Older(gs, hs) =>
              /\ Older(Tail(gs), hs)
              /\ \A i \in DOMAIN Head(gs).packets :
                   Above(Head(gs).packets[i].id, hs)
<1>1. /\ 1 \in DOMAIN gs /\ Head(gs) = gs[1]
      /\ \A g \in DOMAIN Tail(gs) :
           /\ g + 1 \in DOMAIN gs /\ Tail(gs)[g] = gs[g + 1]
           /\ g \in Nat /\ 1 < g + 1
  OBVIOUS
<1>2. \A g, h \in DOMAIN Tail(gs) : g < h => g + 1 < h + 1
  BY <1>1
<1>3. ASSUME NEW n, Above(n, gs)
      PROVE  /\ Above(n, Tail(gs))
             /\ \A i \in DOMAIN Head(gs).packets : n < Head(gs).packets[i].id
  BY <1>1, <1>3 DEF Above
<1>4. ASSUME Numbered(gs)
      PROVE  /\ Numbered(Tail(gs))
             /\ Sorted(Head(gs).packets)
             /\ \A i \in DOMAIN Head(gs).packets :
                  Above(Head(gs).packets[i].id, Tail(gs))
  <2>1. Numbered(Tail(gs))
    BY <1>1, <1>2, <1>4 DEF Numbered
  <2>2. Sorted(Head(gs).packets)
    BY <1>1, <1>4 DEF Numbered, Sorted
  <2>3. \A i \in DOMAIN Head(gs).packets : Above(Head(gs).packets[i].id, Tail(gs))
    BY <1>1, <1>4 DEF Numbered, Above
  <2> QED
    BY <2>1, <2>2, <2>3
<1>5. ASSUME NEW hs, Older(gs, hs)
      PROVE  /\ Older(Tail(gs), hs)
             /\ \A i \in DOMAIN Head(gs).packets :
                  Above(Head(gs).packets[i].id, hs)
  BY <1>1, <1>5 DEF Older
<1> QED
  BY <1>3, <1>4, <1>5

\* The first group of ts goes behind the items gs, as the item e.
LEMMA GroupMoves ==
  ASSUME NEW S, NEW gs \in Seq(S), NEW e \in S,
         NEW T, NEW ts \in Seq(T), ts # <<>>, e.packets = Head(ts).packets,
         Numbered(gs), Numbered(ts), Older(gs, ts)
  PROVE  /\ Numbered(Append(gs, e))
         /\ Older(Append(gs, e), Tail(ts))
         /\ \A n : Above(n, gs) /\ Above(n, ts) => Above(n, Append(gs, e))
<1> DEFINE as == Append(gs, e)
<1>1. \A g \in DOMAIN as :
        (g \in DOMAIN gs /\ as[g] = gs[g] /\ g < Len(gs) + 1)
        \/ (g = Len(gs) + 1 /\ as[g] = e)
  OBVIOUS
<1>2. 1 \in DOMAIN ts /\ Head(ts) = ts[1] /\ Len(gs) \in Nat /\ DOMAIN gs \subseteq Nat
  OBVIOUS
<1> HIDE DEF as
<1>3. \A g \in DOMAIN gs : \A i \in DOMAIN gs[g].packets :
        /\ Above(gs[g].packets[i].id, Tail(ts))
        /\ \A j \in DOMAIN e.packets : gs[g].packets[i].id < e.packets[j].id
  <2>1. \A n : Above(n, ts) =>
          /\ Above(n, Tail(ts))
          /\ \A j \in DOMAIN e.packets : n < e.packets[j].id
    BY TailGroups
  <2> QED
    BY <2>1 DEF Older
<1>4. /\ Sorted(e.packets)
      /\ \A i \in DOMAIN e.packets : Above(e.packets[i].id, Tail(ts))
  BY TailGroups
<1>5. Numbered(as)
  <2> SUFFICES ASSUME NEW g \in DOMAIN as, NEW h \in DOMAIN as,
                      NEW i \in DOMAIN as[g].packets,
                      NEW j \in DOMAIN as[h].packets,
                      g < h \/ (g = h /\ i < j)
               PROVE  as[g].packets[i].id < as[h].packets[j].id
    BY DEF Numbered
  <2>1. CASE g \in DOMAIN gs /\ as[g] = gs[g] /\ h \in DOMAIN gs /\ as[h] = gs[h]
    BY <2>1 DEF Numbered
  <2>2. CASE g \in DOMAIN gs /\ as[g] = gs[g] /\ h = Len(gs) + 1 /\ as[h] = e
    BY <1>3, <2>2
  <2>3. CASE g = Len(gs) + 1 /\ as[g] = e
    <3>1. ~(g < h)
      <4>1. CASE h \in DOMAIN gs /\ h < Len(gs) + 1
        <5>1. h \in Nat /\ g \in Nat
          BY <1>2, <2>3, <4>1
        <5> QED
          BY <2>3, <4>1, <5>1
      <4>2. CASE h = Len(gs) + 1
        BY <1>2, <2>3, <4>2
      <4> QED
        BY <1>1, <4>1, <4>2
    <3>2. g = h /\ i < j
      BY <3>1
    <3> QED
      BY <1>4, <2>3, <3>2 DEF Sorted
  <2> QED
    BY <1>1, <2>1, <2>2, <2>3
<1>6. Older(as, Tail(ts))
  BY <1>1, <1>3, <1>4 DEF Older
<1>7. ASSUME NEW n, Above(n, gs), Above(n, ts) PROVE Above(n, as)
  <2>1. \A g \in DOMAIN gs : \A i \in DOMAIN gs[g].packets : n < gs[g].packets[i].id
    BY <1>7 DEF Above
  <2>2. \A i \in DOMAIN e.packets : n < e.packets[i].id
    BY <1>7, TailGroups
  <2> QED
    BY <1>1, <2>1, <2>2 DEF Above
<1> QED
  BY <1>5, <1>6, <1>7 DEF as

\* Nothing is moved, and the Decom thread has not begun with another item.
LEMMA OrderStutters ==
  ASSUME OrderToCome, UNCHANGED <<todo, m_queue, queueVal, pos>>, InItem' => InItem
  PROVE  OrderToCome' /\ \A n : AllToComeAbove(n) => AllToComeAbove(n)'
BY DEF OrderToCome, AllToComeAbove, Above, Numbered, Older, Sorted

\* Every step keeps the order, and lets nothing come in below what is to come.
LEMMA ToComeKept ==
  ASSUME IInv, OrderToCome, [Next]_vars
  PROVE  OrderToCome' /\ \A n : AllToComeAbove(n) => AllToComeAbove(n)'
<1> USE DEF readerVars, decomVars, writerVars, history
<1>1. /\ todo \in Seq(Group) /\ m_queue \in [q : Seq(Item), m_active : BOOLEAN]
      /\ m_queue.q \in Seq(Item) /\ queueVal \in Item /\ pos \in Nat \ {0}
      /\ queueVal.packets \in Seq(WirePacket)
  BY DEF IInv, TypeOK, Item
<1>2. ASSUME NEW item \in Item, NEW pushes, Read(item, pushes),
             item.packets = Head(todo).packets
      PROVE  OrderToCome' /\ \A n : AllToComeAbove(n) => AllToComeAbove(n)'
  <2>1. /\ todo # <<>> /\ todo' = Tail(todo)
        /\ UNCHANGED <<decomPc, queueVal, pos>>
        /\ m_queue'.q = IF pushes THEN Append(m_queue.q, item) ELSE m_queue.q
    BY <1>1, <1>2 DEF Read, Pushed
  <2>2. /\ Numbered(todo) /\ Numbered(m_queue.q) /\ Older(m_queue.q, todo)
        /\ Sorted(queueVal.packets)
        /\ InItem => \A i \in pos .. Len(queueVal.packets) :
                       /\ Above(queueVal.packets[i].id, m_queue.q)
                       /\ Above(queueVal.packets[i].id, todo)
    BY DEF OrderToCome
  <2>3. /\ \A n : Above(n, todo) => Above(n, todo')
        /\ Numbered(todo')
    BY <1>1, <2>1, <2>2, TailGroups
  <2>4. /\ Numbered(m_queue'.q) /\ Older(m_queue'.q, todo')
        /\ \A n : Above(n, m_queue.q) /\ Above(n, todo) => Above(n, m_queue'.q)
    <3>1. CASE pushes
      BY <1>1, <1>2, <2>1, <2>2, <3>1, GroupMoves
    <3>2. CASE ~pushes
      BY <2>1, <2>2, <2>3, <3>2 DEF Older
    <3> QED
      BY <3>1, <3>2
  <2>5. OrderToCome'
    BY <2>1, <2>2, <2>3, <2>4 DEF OrderToCome, InItem, Sorted
  <2>6. \A n : AllToComeAbove(n) => AllToComeAbove(n)'
    BY <2>1, <2>3, <2>4 DEF AllToComeAbove, InItem
  <2> QED
    BY <2>5, <2>6
<1>3. CASE ReadH5Group
  <2>1. Head(todo) \in Group
    BY <1>1, <1>3 DEF ReadH5Group, Read
  <2>2. [instrument |-> Head(todo).instrument, packets |-> Head(todo).packets] \in Item
    BY <2>1 DEF Group, Item
  <2> QED
    BY <1>2, <1>3, <2>2 DEF ReadH5Group
<1>4. CASE ReadPDSFile
  <2>1. Head(todo) \in Group
    BY <1>1, <1>4 DEF ReadPDSFile, Read
  <2>2. [instrument |-> "ATMS", packets |-> Head(todo).packets] \in Item
    BY <2>1, InstrumentAssumption DEF Group, Item
  <2> QED
    BY <1>2, <1>4, <2>2 DEF ReadPDSFile
<1>5. CASE CloseQueue
  <2>1. UNCHANGED <<todo, decomPc, queueVal, pos>> /\ m_queue'.q = m_queue.q
    BY <1>1, <1>5 DEF CloseQueue, SetInactive
  <2>2. OrderToCome'
    BY <2>1 DEF OrderToCome, InItem, Above, Numbered, Older, Sorted
  <2>3. \A n : AllToComeAbove(n) => AllToComeAbove(n)'
    BY <2>1 DEF AllToComeAbove, InItem, Above
  <2> QED
    BY <2>2, <2>3
<1>6. CASE NewTurn
  <2>1. ~InItem' /\ UNCHANGED <<todo, m_queue>> /\ queueVal'.packets = <<>>
    BY <1>6 DEF NewTurn, InItem, NoItem
  <2>2. Sorted(queueVal'.packets)
    BY <2>1 DEF Sorted
  <2> QED
    BY <2>1, <2>2 DEF OrderToCome, AllToComeAbove, Sorted
<1>7. CASE TakeItem
  <2>1. /\ m_queue.q # <<>> /\ m_queue'.q = Tail(m_queue.q) /\ todo' = todo
        /\ queueVal' = Head(m_queue.q) /\ pos' = 1
    BY <1>1, <1>7 DEF TakeItem, HasItem, Popped
  <2>2. Head(m_queue.q) \in Item
    BY <1>1, <2>1
  <2>3. 1 .. Len(queueVal'.packets) = DOMAIN Head(m_queue.q).packets
    BY <2>1, <2>2 DEF Item
  <2>4. /\ Numbered(todo) /\ Numbered(m_queue.q) /\ Older(m_queue.q, todo)
    BY DEF OrderToCome
  <2>5. /\ Numbered(m_queue'.q) /\ Older(m_queue'.q, todo)
        /\ Sorted(queueVal'.packets)
        /\ \A i \in DOMAIN Head(m_queue.q).packets :
             /\ Above(Head(m_queue.q).packets[i].id, m_queue'.q)
             /\ Above(Head(m_queue.q).packets[i].id, todo)
    BY <1>1, <2>1, <2>4, TailGroups
  <2>6. \A n : Above(n, m_queue.q) =>
          /\ Above(n, m_queue'.q)
          /\ \A i \in DOMAIN Head(m_queue.q).packets : n < Head(m_queue.q).packets[i].id
    BY <1>1, <2>1, TailGroups
  <2>7. OrderToCome'
    BY <2>1, <2>3, <2>4, <2>5 DEF OrderToCome, Sorted
  <2>8. \A n : AllToComeAbove(n) => AllToComeAbove(n)'
    BY <2>1, <2>3, <2>6 DEF AllToComeAbove
  <2> QED
    BY <2>7, <2>8
<1>8. CASE DecodePacket
  <2>1. /\ UNCHANGED <<todo, m_queue, queueVal>> /\ InItem
        /\ pos \in 1 .. Len(queueVal.packets)
        /\ pos' = DecodeEnd(queueVal.packets, pos, queueVal.instrument) + 1
    BY <1>1, <1>8 DEF DecodePacket, HeaderFound, InItem
  <2>2. DecodeEnd(queueVal.packets, pos, queueVal.instrument)
          \in pos .. Len(queueVal.packets)
    BY <1>1, <2>1, DecodeEndInside
  <2>3. pos' .. Len(queueVal.packets) \subseteq pos .. Len(queueVal.packets)
    BY <1>1, <2>1, <2>2
  <2>4. OrderToCome'
    BY <2>1, <2>3 DEF OrderToCome, Above, Numbered, Older, Sorted
  <2>5. \A n : AllToComeAbove(n) => AllToComeAbove(n)'
    BY <2>1, <2>3 DEF AllToComeAbove, Above
  <2> QED
    BY <2>4, <2>5
<1>9. CASE NothingMore \/ EndOfItem \/ DropIgnored \/ SpawnWriter \/ PushPacket
  BY <1>9, OrderStutters DEF NothingMore, EndOfItem, DropIgnored, SpawnWriter,
                             PushPacket, InItem
<1>10. CASE (\E a \in Apids : JoinSetInactive(a)) \/ JoinWriters \/ SetFinished
              \/ ExitOnMissingFile \/ TerminateOnShortRow
  BY <1>10, OrderStutters DEF JoinSetInactive, JoinWriters, SetFinished,
       ExitOnMissingFile, TerminateOnShortRow, FormatStop, InItem
<1>11. CASE ReturnToEventLoop \/ \E a \in Apids : WriterStep(a)
  BY <1>11, OrderStutters DEF ReturnToEventLoop, WriterStep, OpenFile, TakePacket,
       WriteRow, CloseFile, InItem
<1>12. CASE Quiet \/ UNCHANGED vars
  BY <1>12, VarsUnchanged, OrderStutters DEF Quiet, InItem
<1> QED
  BY <1>3, <1>4, <1>5, <1>6, <1>7, <1>8, <1>9, <1>10, <1>11, <1>12
  DEF Next, ReaderStep, DecomStep

\* A run starts with the groups of an input and nothing else.
LEMMA InitOrder == Init => OrderToCome /\ OrderOfRows
<1> SUFFICES ASSUME Init PROVE OrderToCome /\ OrderOfRows
  OBVIOUS
<1>1. PICK input \in Inputs : todo = input.groups
  BY DEF Init
<1>2. Numbered(todo)
  BY <1>1, NumberAssumption DEF Numbered
<1>3. m_queue.q = <<>> /\ queueVal.packets = <<>> /\ decomPc = "top"
  BY DEF Init, NewChannel, NoItem
<1>4. OrderToCome
  BY <1>2, <1>3 DEF OrderToCome, Numbered, Older, Sorted, InItem
<1>5. \A a \in Apids : accepted[a] = <<>>
  BY DEF Init
<1>6. OrderOfRows
  BY <1>3, <1>5 DEF OrderOfRows
<1> QED
  BY <1>4, <1>6

\* A packet is decoded after all that was accepted and before all that is to
\* come, and accepted as the newest.
LEMMA OrderOfRowsKept ==
  ASSUME IInv, OrderToCome, OrderOfRows, [Next]_vars
  PROVE  OrderOfRows'
<1> USE DEF readerVars, decomVars, writerVars, history
<1>1. \A n : AllToComeAbove(n) =>
        /\ Above(n, todo')
        /\ Above(n, m_queue'.q)
        /\ InItem' => \A i \in pos' .. Len(queueVal'.packets) :
                       n < queueVal'.packets[i].id
  BY ToComeKept DEF AllToComeAbove
<1>2. CASE /\ UNCHANGED <<accepted, pack>>
           /\ decomPc' \in {"exec", "spawned"} => decomPc \in {"exec", "spawned"}
  <2>1. \A a \in Apids : \A i \in DOMAIN accepted[a] :
          AllToComeAbove(RowId(accepted[a][i]))'
    BY <1>1, <1>2 DEF OrderOfRows, AllToComeAbove
  <2>2. decomPc' \in {"exec", "spawned"} => AllToComeAbove(RowId(pack))'
    BY <1>1, <1>2 DEF OrderOfRows, AllToComeAbove
  <2> QED
    BY <1>2, <2>1, <2>2 DEF OrderOfRows
<1>3. CASE DecodePacket
  <2>1. /\ queueVal.packets \in Seq(WirePacket) /\ pos \in 1 .. Len(queueVal.packets)
        /\ DecodeEnd(queueVal.packets, pos, queueVal.instrument)
             \in pos .. Len(queueVal.packets)
        /\ pos' = DecodeEnd(queueVal.packets, pos, queueVal.instrument) + 1
        /\ UNCHANGED <<todo, m_queue, queueVal, accepted>> /\ InItem
    <3>1. /\ queueVal.packets \in Seq(WirePacket)
          /\ pos \in 1 .. Len(queueVal.packets)
      BY <1>3 DEF DecodePacket, HeaderFound, IInv, TypeOK, Item
    <3> QED
      BY <1>3, <3>1, DecodeEndInside DEF DecodePacket, InItem
  <2>2. RowId(pack') = queueVal.packets[pos].id
    BY <1>3, <2>1, DecodedFirst DEF DecodePacket, RowId
  <2>3. \A a \in Apids : \A i \in DOMAIN accepted[a] :
          RowId(accepted[a][i]) < RowId(pack')
    BY <2>1, <2>2 DEF OrderOfRows, AllToComeAbove
  <2>4. AllToComeAbove(RowId(pack))'
    <3>1. \A i \in pos' .. Len(queueVal.packets) :
            i \in DOMAIN queueVal.packets /\ pos < i
      BY <2>1
    <3>2. pos \in DOMAIN queueVal.packets
      BY <2>1
    <3>3. \A i \in pos' .. Len(queueVal.packets) : RowId(pack') < queueVal.packets[i].id
      BY <2>2, <3>1, <3>2 DEF OrderToCome, Sorted
    <3>4. Above(RowId(pack'), todo) /\ Above(RowId(pack'), m_queue.q)
      BY <2>1, <2>2 DEF OrderToCome
    <3> QED
      BY <2>1, <3>3, <3>4 DEF AllToComeAbove
  <2> QED
    <3>1. \A a \in Apids : \A i \in DOMAIN accepted[a] :
            AllToComeAbove(RowId(accepted[a][i]))'
      BY <1>1, <2>1 DEF OrderOfRows, AllToComeAbove
    <3> QED
      BY <2>1, <2>3, <2>4, <3>1 DEF OrderOfRows
<1>4. CASE PushPacket
  <2>1. /\ pack \in Packet /\ pack.apid \in Apids /\ pack' = pack
        /\ accepted \in [Apids -> Seq(Packet)]
        /\ accepted' = [accepted EXCEPT ![pack.apid] = Append(@, pack)]
        /\ decomPc \in {"exec", "spawned"} /\ decomPc' = "decode"
    BY <1>4 DEF PushPacket, IInv, TypeOK, Packet
  <2>2. ASSUME NEW a \in Apids, NEW i \in DOMAIN accepted'[a]
        PROVE  (i \in DOMAIN accepted[a] /\ accepted'[a][i] = accepted[a][i])
               \/ (a = pack.apid /\ i = Len(accepted[a]) + 1 /\ accepted'[a][i] = pack)
    <3>1. CASE a = pack.apid
      BY <2>1, <3>1
    <3>2. CASE a # pack.apid
      BY <2>1, <3>2
    <3> QED
      BY <3>1, <3>2
  <2>3. /\ AllToComeAbove(RowId(pack))
        /\ \A a \in Apids : \A i \in DOMAIN accepted[a] :
             RowId(accepted[a][i]) < RowId(pack)
    BY <2>1 DEF OrderOfRows
  <2>4. ASSUME NEW a \in Apids, NEW i \in DOMAIN accepted'[a],
               NEW j \in DOMAIN accepted'[a], i < j
        PROVE  RowId(accepted'[a][i]) < RowId(accepted'[a][j])
    <3>1. CASE j \in DOMAIN accepted[a] /\ accepted'[a][j] = accepted[a][j]
      <4>1. i \in DOMAIN accepted[a] /\ accepted'[a][i] = accepted[a][i]
        BY <2>1, <2>2, <2>4, <3>1
      <4> QED
        BY <2>4, <3>1, <4>1 DEF OrderOfRows
    <3>2. CASE j = Len(accepted[a]) + 1 /\ accepted'[a][j] = pack
      <4>1. i \in DOMAIN accepted[a] /\ accepted'[a][i] = accepted[a][i]
        BY <2>1, <2>2, <2>4, <3>2
      <4> QED
        BY <2>3, <3>2, <4>1
    <3> QED
      BY <2>2, <3>1, <3>2
  <2>5. ASSUME NEW a \in Apids, NEW i \in DOMAIN accepted'[a]
        PROVE  AllToComeAbove(RowId(accepted[a][i]))'
    <3>1. AllToComeAbove(RowId(accepted'[a][i]))
      BY <2>2, <2>3 DEF OrderOfRows
    <3> QED
      BY <1>1, <3>1 DEF AllToComeAbove
  <2> QED
    BY <2>1, <2>4, <2>5 DEF OrderOfRows
<1>5. CASE ReaderStep
  BY <1>2, <1>5 DEF ReaderStep, ReadH5Group, ReadPDSFile, Read, CloseQueue,
                    ReturnToEventLoop
<1>6. CASE NewTurn \/ TakeItem \/ NothingMore \/ EndOfItem \/ DropIgnored
           \/ SpawnWriter
  BY <1>2, <1>6 DEF NewTurn, TakeItem, NothingMore, EndOfItem, DropIgnored,
                    SpawnWriter
<1>7. CASE (\E a \in Apids : JoinSetInactive(a)) \/ JoinWriters \/ SetFinished
             \/ ExitOnMissingFile \/ TerminateOnShortRow
  BY <1>2, <1>7 DEF JoinSetInactive, JoinWriters, SetFinished, ExitOnMissingFile,
                    TerminateOnShortRow, FormatStop
<1>8. CASE \E a \in Apids : WriterStep(a)
  BY <1>2, <1>8 DEF WriterStep, OpenFile, TakePacket, WriteRow, CloseFile
<1>9. CASE Quiet \/ UNCHANGED vars
  BY <1>2, <1>9, VarsUnchanged DEF Quiet
<1> QED
  BY <1>3, <1>4, <1>5, <1>6, <1>7, <1>8, <1>9 DEF Next, DecomStep

\* The rows of a file are in the order of the input, whatever the threads do:
\* they are the first of the accepted packets, and those are in that order.
THEOREM RowsOrdered == Safety => []RowsInInputOrder
<1>1. IInv /\ OrderToCome /\ OrderOfRows /\ [Next]_vars => (OrderToCome /\ OrderOfRows)'
  BY ToComeKept, OrderOfRowsKept
<1>2. IInv /\ OrderOfRows => RowsInInputOrder
  <2> SUFFICES ASSUME IInv, OrderOfRows, NEW a \in Apids,
                      NEW i \in DOMAIN rows[a], NEW j \in DOMAIN rows[a], i < j
               PROVE  RowId(rows[a][i]) < RowId(rows[a][j])
    BY DEF RowsInInputOrder, RowId
  <2>1. /\ rows[a] \in Seq(Packet) /\ inHand[a] \in Seq(Packet)
        /\ m_queues[a].q \in Seq(Packet)
    BY DEF IInv, TypeOK
  <2>2. accepted[a] = (rows[a] \o inHand[a]) \o m_queues[a].q
    BY DEF IInv, RowsThenQueue
  <2>3. \A k \in DOMAIN rows[a] : k \in DOMAIN accepted[a] /\ accepted[a][k] = rows[a][k]
    <3>1. \A k \in DOMAIN rows[a] :
            /\ k \in DOMAIN ((rows[a] \o inHand[a]) \o m_queues[a].q)
            /\ ((rows[a] \o inHand[a]) \o m_queues[a].q)[k] = rows[a][k]
      <4> DEFINE s == rows[a]
                 h == inHand[a]
                 t == m_queues[a].q
      <4>1. s \in Seq(Packet) /\ h \in Seq(Packet) /\ t \in Seq(Packet)
        BY <2>1
      <4> HIDE DEF s, h, t
      <4>2. \A k \in DOMAIN s :
              k \in DOMAIN ((s \o h) \o t) /\ ((s \o h) \o t)[k] = s[k]
        BY <4>1, ConcatBegins
      <4> QED
        BY <4>2 DEF s, h, t
    <3> QED
      BY <2>2, <3>1, Zenon
  <2> QED
    BY <2>3 DEF OrderOfRows
<1> QED
  BY <1>1, <1>2, InitOrder, Invariant, PTL DEF Safety
=============================================================================
