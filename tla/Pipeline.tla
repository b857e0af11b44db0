------------------------------- MODULE Pipeline -------------------------------
(***************************************************************************)
(* A decom run: the reader (h5Decode::init or pdsDecode::init, on the GUI  *)
(* thread), the detached Decom thread (Decom::init) and one writer thread  *)
(* per APID (ThreadPoolServer::ThreadMain), connected by                   *)
(* ThreadSafeListenerQueues.  Each operation on a queue is one step, which *)
(* ListenerQueue justifies: the class implements ListenerChannel.          *)
(*                                                                         *)
(* ThreadMain gets the instrument string and the APID by std::ref.  The    *)
(* APID is inside the Packet that is on its way to the writer; the string  *)
(* is inside the local variable queueVal of Decom::init, which the next    *)
(* turn of the loop constructs anew and fills again.  A writer reads both  *)
(* when it starts to run, whenever that is.                                *)
(***************************************************************************)
EXTENDS Decoding, Channel

CONSTANTS
  Instruments,  (* the instruments that group names begin with             *)
  Inputs        (* the runs: file format and what is in the files          *)

\* The empty string: in a new queueVal, and for a group name without "-".
NoInstrument == "empty"

ASSUME InstrumentAssumption == {NoInstrument, "ATMS"} \subseteq Instruments

(***************************************************************************)
(* A group is a data group of an HDF5 file, or a whole PDS file: what one  *)
(* push hands over.  selected: the user ticked it; zeroed: its first byte  *)
(* is 0, which marks a PDS header file.                                    *)
(***************************************************************************)
Group == [instrument : Instruments, selected : BOOLEAN, zeroed : BOOLEAN,
          packets : Seq(WirePacket)]

Item == [instrument : Instruments, packets : Seq(WirePacket)]

Input == [format : {"H5", "PDS"}, groups : Seq(Group)]

ASSUME InputAssumption == Inputs \subseteq Input

\* The packets of an input are numbered in the order of the input.
ASSUME NumberAssumption ==
  \A input \in Inputs : \A g, h \in DOMAIN input.groups :
    \A i \in DOMAIN input.groups[g].packets, j \in DOMAIN input.groups[h].packets :
      g < h \/ (g = h /\ i < j) =>
        input.groups[g].packets[i].id < input.groups[h].packets[j].id

VARIABLES
  format,     (* which of the two readers runs                             *)
  todo,       (* the groups the reader has not come to                     *)
  readerPc,   (* reading, closed after setInactive, returned               *)
  m_queue,    (* from the reader to the Decom thread                       *)
  decomPc,    (* where the Decom thread is                                 *)
  queueVal,   (* the local variable of Decom::init                         *)
  pos,        (* the packet of queueVal.packets to decode next             *)
  pack,       (* the Packet that was decoded last                          *)
  m_APIDs,    (* the set that storeAPID fills                              *)
  m_queues,   (* per APID the queue to its writer                          *)
  writer,     (* per APID where its writer thread is                       *)
  outfile,    (* per APID the instrument in the name of its file           *)
  inHand,     (* per APID what its writer took and has not yet written     *)
  rows,       (* per APID the packets in its file                          *)
  accepted,   (* history: per APID the packets pushed to its queue         *)
  spawnedFor  (* history: per APID the instrument exec was called with     *)

readerVars == <<format, todo, readerPc>>
decomVars == <<decomPc, queueVal, pos, pack, m_APIDs>>
writerVars == <<writer, outfile, inHand, rows>>
history == <<accepted, spawnedFor>>
vars == <<readerVars, m_queue, decomVars, m_queues, writerVars, history>>

NoItem == [instrument |-> NoInstrument, packets |-> <<>>]
NoPacket == [apid |-> 0, ignored |-> TRUE, data |-> <<>>, segments |-> <<>>]
NoFile == "no file"

(***************************************************************************)
(* The Decom thread is                                                     *)
(*   top      about to construct queueVal                                  *)
(*   listen   in the listen that fills it                                  *)
(*   decode   at the test of the inner loop                                *)
(*   exec     in exec with pack                                            *)
(*   spawned  in exec, the queue and thread for pack created, pack not yet *)
(*            pushed                                                       *)
(*   join     in ThreadPoolServer::join                                    *)
(*   format   in formatInstruments                                         *)
(* and at its end it has called setFinished (finished), or formatATMS did  *)
(* not find its file and called exit (exited), or met a row without the    *)
(* columns it needs and let the exception escape (terminated).             *)
(***************************************************************************)
DecomPC == {"top", "listen", "decode", "exec", "spawned", "join", "format",
            "finished", "exited", "terminated"}
Stopped == {"finished", "exited", "terminated"}
WriterPC == {"none", "started", "listen", "write", "done"}

TypeOK ==
  /\ format \in {"H5", "PDS"}
  /\ todo \in Seq(Group)
  /\ readerPc \in {"reading", "closed", "returned"}
  /\ m_queue \in [q : Seq(Item), m_active : BOOLEAN]
  /\ decomPc \in DecomPC
  /\ queueVal \in Item
  /\ pos \in Nat \ {0}
  /\ pack \in Packet \cup {NoPacket}
  /\ decomPc \in {"exec", "spawned"} => pack \in Packet
  /\ m_APIDs \subseteq Apids
  /\ m_queues \in [Apids -> [q : Seq(Packet), m_active : BOOLEAN]]
  /\ writer \in [Apids -> WriterPC]
  /\ outfile \in [Apids -> Instruments \cup {NoFile}]
  /\ inHand \in [Apids -> Seq(Packet)]
  /\ rows \in [Apids -> Seq(Packet)]
  /\ accepted \in [Apids -> Seq(Packet)]
  /\ spawnedFor \in [Apids -> Instruments \cup {NoFile}]

Init ==
  /\ \E input \in Inputs : format = input.format /\ todo = input.groups
  /\ readerPc = "reading"
  /\ m_queue = NewChannel
  /\ decomPc = "top"
  /\ queueVal = NoItem
  /\ pos = 1
  /\ pack = NoPacket
  /\ m_APIDs = {}
  /\ m_queues = [a \in Apids |-> NewChannel]
  /\ writer = [a \in Apids |-> "none"]
  /\ outfile = [a \in Apids |-> NoFile]
  /\ inHand = [a \in Apids |-> <<>>]
  /\ rows = [a \in Apids |-> <<>>]
  /\ accepted = [a \in Apids |-> <<>>]
  /\ spawnedFor = [a \in Apids |-> NoFile]

-----------------------------------------------------------------------------
(***************************************************************************)
(* The reader.  It pushes what the user selected and closes the queue.     *)
(*                                                                         *)
(* Definitions marked "Wrong:" are variants with a bug, each ahead of the  *)
(* operation it would replace.  They are not part of the specification;    *)
(* PROJECT.json names the property that each of them breaks.               *)
(***************************************************************************)
PushesH5(g) == g.selected
PushesPDS(g) == ~g.zeroed /\ g.selected

Read(item, pushes) ==
  /\ readerPc = "reading"
  /\ todo # <<>>
  /\ todo' = Tail(todo)
  /\ m_queue' = IF pushes THEN Pushed(m_queue, item) ELSE m_queue
  /\ UNCHANGED <<format, readerPc, decomVars, m_queues, writerVars, history>>

ReadH5Group ==
  /\ format = "H5"
  /\ Read([instrument |-> Head(todo).instrument, packets |-> Head(todo).packets],
          PushesH5(Head(todo)))

\* Every PDS file counts as ATMS.
ReadPDSFile ==
  /\ format = "PDS"
  /\ Read([instrument |-> "ATMS", packets |-> Head(todo).packets],
          PushesPDS(Head(todo)))

CloseQueue ==
  /\ readerPc = "reading"
  /\ todo = <<>>
  /\ readerPc' = "closed"
  /\ m_queue' = SetInactive(m_queue)
  /\ UNCHANGED <<format, todo, decomVars, m_queues, writerVars, history>>

\* exit and an escaped exception take all threads with them.
Alive == decomPc \notin {"exited", "terminated"}

\* init returns to the event loop: the Decom thread was detached.
ReturnToEventLoop ==
  /\ readerPc = "closed"
  /\ Alive
  /\ readerPc' = "returned"
  /\ UNCHANGED <<format, todo, m_queue, decomVars, m_queues, writerVars, history>>

ReaderStep == ReadH5Group \/ ReadPDSFile \/ CloseQueue \/ ReturnToEventLoop

-----------------------------------------------------------------------------
(***************************************************************************)
(* The Decom thread.                                                       *)
(***************************************************************************)
NewTurn ==
  /\ decomPc = "top"
  /\ decomPc' = "listen"
  /\ queueVal' = NoItem
  /\ UNCHANGED <<readerVars, m_queue, pos, pack, m_APIDs, m_queues, writerVars,
                 history>>

TakeItem ==
  /\ decomPc = "listen"
  /\ HasItem(m_queue)
  /\ decomPc' = "decode"
  /\ queueVal' = Head(m_queue.q)
  /\ m_queue' = Popped(m_queue)
  /\ pos' = 1
  /\ UNCHANGED <<readerVars, pack, m_APIDs, m_queues, writerVars, history>>

\* Wrong: the loop ends whenever the queue is empty.
NothingAtTheMoment ==
  /\ decomPc = "listen"
  /\ m_queue.q = <<>>
  /\ decomPc' = "join"
  /\ UNCHANGED <<readerVars, m_queue, queueVal, pos, pack, m_APIDs, m_queues,
                 writerVars, history>>

\* listen returned 0.
NothingMore ==
  /\ decomPc = "listen"
  /\ Drained(m_queue)
  /\ decomPc' = "join"
  /\ UNCHANGED <<readerVars, m_queue, queueVal, pos, pack, m_APIDs, m_queues,
                 writerVars, history>>

\* There is another packet, and its header is valid.
HeaderFound == pos <= Len(queueVal.packets) /\ queueVal.packets[pos].valid

\* The end of the byte vector, or an invalid header: the rest is dropped.
EndOfItem ==
  /\ decomPc = "decode"
  /\ ~HeaderFound
  /\ decomPc' = "top"
  /\ UNCHANGED <<readerVars, m_queue, queueVal, pos, pack, m_APIDs, m_queues,
                 writerVars, history>>

DecodePacket ==
  /\ decomPc = "decode"
  /\ HeaderFound
  /\ pack' \in Decoded(queueVal.packets, pos, queueVal.instrument)
  /\ pos' = DecodeEnd(queueVal.packets, pos, queueVal.instrument) + 1
  /\ m_APIDs' = m_APIDs \cup {pack'.apid}
  /\ decomPc' = "exec"
  /\ UNCHANGED <<readerVars, m_queue, queueVal, m_queues, writerVars, history>>

DropIgnored ==
  /\ decomPc = "exec"
  /\ pack.ignored
  /\ decomPc' = "decode"
  /\ UNCHANGED <<readerVars, m_queue, queueVal, pos, pack, m_APIDs, m_queues,
                 writerVars, history>>

\* Wrong: a queue and a thread for every packet.
SpawnAlways ==
  /\ decomPc = "exec"
  /\ ~pack.ignored
  /\ decomPc' = "spawned"
  /\ writer' = [writer EXCEPT ![pack.apid] = "started"]
  /\ m_queues' = [m_queues EXCEPT ![pack.apid] = NewChannel]
  /\ spawnedFor' = [spawnedFor EXCEPT ![pack.apid] = queueVal.instrument]
  /\ UNCHANGED <<readerVars, m_queue, queueVal, pos, pack, m_APIDs, outfile,
                 inHand, rows, accepted>>

\* Wrong: the packet that makes the queue is not pushed to it.
SpawnWithoutPush ==
  /\ decomPc = "exec"
  /\ ~pack.ignored
  /\ writer[pack.apid] = "none"
  /\ decomPc' = "decode"
  /\ writer' = [writer EXCEPT ![pack.apid] = "started"]
  /\ m_queues' = [m_queues EXCEPT ![pack.apid] = NewChannel]
  /\ spawnedFor' = [spawnedFor EXCEPT ![pack.apid] = queueVal.instrument]
  /\ UNCHANGED <<readerVars, m_queue, queueVal, pos, pack, m_APIDs, outfile,
                 inHand, rows, accepted>>

\* A new APID: operator[] creates its queue, emplace_back its thread.
SpawnWriter ==
  /\ decomPc = "exec"
  /\ ~pack.ignored
  /\ writer[pack.apid] = "none"
  /\ decomPc' = "spawned"
  /\ writer' = [writer EXCEPT ![pack.apid] = "started"]
  /\ m_queues' = [m_queues EXCEPT ![pack.apid] = NewChannel]
  /\ spawnedFor' = [spawnedFor EXCEPT ![pack.apid] = queueVal.instrument]
  /\ UNCHANGED <<readerVars, m_queue, queueVal, pos, pack, m_APIDs, outfile,
                 inHand, rows, accepted>>

\* Wrong: the packet overtakes those in the queue.
PushPacketFirst ==
  /\ \/ decomPc = "exec" /\ ~pack.ignored /\ writer[pack.apid] # "none"
     \/ decomPc = "spawned"
  /\ decomPc' = "decode"
  /\ m_queues' = [m_queues EXCEPT ![pack.apid].q = <<pack>> \o @]
  /\ accepted' = [accepted EXCEPT ![pack.apid] = Append(@, pack)]
  /\ UNCHANGED <<readerVars, m_queue, queueVal, pos, pack, m_APIDs, writerVars,
                 spawnedFor>>

PushPacket ==
  /\ \/ decomPc = "exec" /\ ~pack.ignored /\ writer[pack.apid] # "none"
     \/ decomPc = "spawned"
  /\ decomPc' = "decode"
  /\ m_queues' = [m_queues EXCEPT ![pack.apid] = Pushed(@, pack)]
  /\ accepted' = [accepted EXCEPT ![pack.apid] = Append(@, pack)]
  /\ UNCHANGED <<readerVars, m_queue, queueVal, pos, pack, m_APIDs, writerVars,
                 spawnedFor>>

\* Wrong: join does not make the queues inactive.
JoinOnlyWaits(a) ==
  /\ decomPc = "join"
  /\ writer[a] # "none"
  /\ UNCHANGED vars

\* The first loop of join visits the queues one after the other.
JoinSetInactive(a) ==
  /\ decomPc = "join"
  /\ writer[a] # "none"
  /\ m_queues[a].m_active
  /\ m_queues' = [m_queues EXCEPT ![a] = SetInactive(@)]
  /\ UNCHANGED <<readerVars, m_queue, decomVars, writerVars, history>>

\* Wrong: join does not wait for the writers.
JoinNobody ==
  /\ decomPc = "join"
  /\ \A a \in Apids : writer[a] # "none" => ~m_queues[a].m_active
  /\ decomPc' = "format"
  /\ UNCHANGED <<readerVars, m_queue, queueVal, pos, pack, m_APIDs, m_queues,
                 writerVars, history>>

\* Its second loop waits for every writer.
JoinWriters ==
  /\ decomPc = "join"
  /\ \A a \in Apids : writer[a] \in {"none", "done"}
  /\ decomPc' = "format"
  /\ UNCHANGED <<readerVars, m_queue, queueVal, pos, pack, m_APIDs, m_queues,
                 writerVars, history>>

-----------------------------------------------------------------------------
(***************************************************************************)
(* formatInstruments and, for APID 528, formatATMS, which reads back the   *)
(* file output/ATMS_528.txt.                                               *)
(***************************************************************************)
NeedsFormat == 528 \in m_APIDs
FileFound == 528 \in Apids /\ outfile[528] = "ATMS"

\* A row of a Packet without data has not the columns formatATMS converts.
RowsComplete == \A i \in DOMAIN rows[528] : rows[528][i].data # <<>>

FormatStop(to) ==
  /\ decomPc = "format"
  /\ decomPc' = to
  /\ UNCHANGED <<readerVars, m_queue, queueVal, pos, pack, m_APIDs, m_queues,
                 writerVars, history>>

SetFinished == (NeedsFormat => FileFound /\ RowsComplete) /\ FormatStop("finished")
ExitOnMissingFile == NeedsFormat /\ ~FileFound /\ FormatStop("exited")
TerminateOnShortRow ==
  NeedsFormat /\ FileFound /\ ~RowsComplete /\ FormatStop("terminated")

DecomStep ==
  \/ NewTurn \/ TakeItem \/ NothingMore
  \/ EndOfItem \/ DecodePacket
  \/ DropIgnored \/ SpawnWriter \/ PushPacket
  \/ (\E a \in Apids : JoinSetInactive(a)) \/ JoinWriters
  \/ SetFinished \/ ExitOnMissingFile \/ TerminateOnShortRow

-----------------------------------------------------------------------------
(***************************************************************************)
(* The writer thread of APID a.                                            *)
(***************************************************************************)
\* The constructor of outfile reads the instrument through the reference.
OpenFile(a) ==
  /\ writer[a] = "started"
  /\ writer' = [writer EXCEPT ![a] = "listen"]
  /\ outfile' = [outfile EXCEPT ![a] = queueVal.instrument]
  /\ UNCHANGED <<readerVars, m_queue, decomVars, m_queues, inHand, rows, history>>

TakePacket(a) ==
  /\ writer[a] = "listen"
  /\ HasItem(m_queues[a])
  /\ writer' = [writer EXCEPT ![a] = "write"]
  /\ inHand' = [inHand EXCEPT ![a] = <<Head(m_queues[a].q)>>]
  /\ m_queues' = [m_queues EXCEPT ![a] = Popped(@)]
  /\ UNCHANGED <<readerVars, m_queue, decomVars, outfile, rows, history>>

WriteRow(a) ==
  /\ writer[a] = "write"
  /\ writer' = [writer EXCEPT ![a] = "listen"]
  /\ rows' = [rows EXCEPT ![a] = @ \o inHand[a]]
  /\ inHand' = [inHand EXCEPT ![a] = <<>>]
  /\ UNCHANGED <<readerVars, m_queue, decomVars, m_queues, outfile, history>>

CloseFile(a) ==
  /\ writer[a] = "listen"
  /\ Drained(m_queues[a])
  /\ writer' = [writer EXCEPT ![a] = "done"]
  /\ UNCHANGED <<readerVars, m_queue, decomVars, m_queues, outfile, inHand, rows,
                 history>>

WriterStep(a) == OpenFile(a) \/ TakePacket(a) \/ WriteRow(a) \/ CloseFile(a)

-----------------------------------------------------------------------------
\* The process has ended, or the run is over and the reader is back in the
\* event loop.
Quiet ==
  /\ ~Alive \/ (decomPc = "finished" /\ readerPc = "returned")
  /\ UNCHANGED vars

Next == ReaderStep \/ DecomStep \/ (\E a \in Apids : WriterStep(a)) \/ Quiet

\* Each thread that can go on does so in the end.
Fairness ==
  /\ WF_vars(ReaderStep)
  /\ WF_vars(DecomStep)
  /\ \A a \in Apids : WF_vars(WriterStep(a))

Safety == Init /\ [][Next]_vars
Spec == Safety /\ Fairness

-----------------------------------------------------------------------------
(***************************************************************************)
(* Properties.                                                             *)
(***************************************************************************)

\* Nothing is lost, duplicated or reordered between exec and the file: what
\* exec pushed for an APID is what its file holds, followed by what its
\* writer has in hand, followed by what waits in its queue.
RowsThenQueue ==
  \A a \in Apids : accepted[a] = rows[a] \o inHand[a] \o m_queues[a].q

\* Formatting starts, and completion is signalled, only when the writers have
\* written every accepted packet and closed their files.  (formatATMS reads
\* one of these files back.)
FormatSeesWholeFiles ==
  decomPc \in {"format"} \cup Stopped =>
    \A a \in Apids :
      rows[a] = accepted[a] /\ writer[a] \in {"none", "done"}

\* The Decom thread leaves its loop only after the last selected group: the
\* reader has closed the queue for good and everything it pushed was taken.
JoinOnlyAfterLastItem ==
  decomPc \in {"join", "format"} \cup Stopped =>
    readerPc # "reading" /\ todo = <<>> /\ m_queue.q = <<>>

\* The APID reference of a thread that has not opened its file yet is alive:
\* the Packet it points into is still held by exec, or waits in the queue
\* that only this thread empties.
ApidReferenceAlive ==
  \A a \in Apids : writer[a] = "started" =>
    \/ decomPc = "spawned" /\ pack.apid = a
    \/ HasItem(m_queues[a])

\* The rows of a file are in the order of the input, over all its groups.
RowsInInputOrder ==
  \A a \in Apids : \A i, j \in DOMAIN rows[a] :
    i < j => Head(rows[a][i].segments).id < Head(rows[a][j].segments).id

\* Nobody pushes to a queue that was made inactive, where a listener may
\* have been dismissed already: neither the reader nor exec.
NoPushAfterClose ==
  [][ /\ Len(m_queue'.q) > Len(m_queue.q) => m_queue.m_active
      /\ \A a \in Apids :
           Len(m_queues'[a].q) > Len(m_queues[a].q) => m_queues[a].m_active
    ]_vars

\* The Decom thread always comes to an end: it finishes, or it takes the
\* process with it.
RunEnds == <>(decomPc \in Stopped)

\* The run implements the promise made to the user.
deliveryPhase ==
  CASE decomPc \in {"join", "format"} -> "sealed"
    [] decomPc = "finished" -> "reported"
    [] decomPc \in {"exited", "terminated"} -> "aborted"
    [] OTHER -> "open"

Delivery == INSTANCE RowDelivery WITH Keys <- Apids, written <- rows,
                                      phase <- deliveryPhase

ImplementsDelivery == Delivery!Spec

-----------------------------------------------------------------------------
(***************************************************************************)
(* What comments and documentation say, and the code does not do.          *)
(***************************************************************************)

\* "instrument: Instrument string for output file naming purposes": the file
\* of an APID bears the instrument of the data it was created for.
FileNamedForInstrument ==
  \A a \in Apids : outfile[a] # NoFile => outfile[a] = spawnedFor[a]
=============================================================================
