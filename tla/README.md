# CXXDecomQt in TLA+

CXXDecomQt decommutates ("decoms") satellite telemetry. The user picks HDF5
files or PDS files, a database of telemetry points and a set of data groups; the
program decodes the CCSDS packets in them and writes one table of values per
APID. This directory models that program in TLA+, checks the models with TLC
and proves the main results with TLAPS.

File names below are relative to the repository root.

## 1. Inventory

| component | state | operations | interacts with |
|---|---|---|---|
| `ThreadSafeListenerQueue` (include) | `q`, `m_active`, mutex `queueLock`, condition variable `c` | `push`, `listen`, `setInactive`, `size` | every thread below |
| reader: `h5Decode::init`, `pdsDecode::init` | `m_queue`, list of files and selected groups | read a group or file, push it, `setInactive` | starts the Decom thread, pushes to it |
| `Decom` | `queueVal`, `m_Instrument`, `m_entries`, caches `m_mapEntries` and `m_missingAPIDs`, `m_APIDs` | `init` (thread), `getHeadersAndEntries`, `decodeData`, `storeAPID`, `formatInstruments` | listens to the reader, feeds `ThreadPoolServer`, reports to `BackEnd` |
| `HeaderDecode` | globals `sh_flag`, `seq_flag`, `isValid` | `decodeHeaders`, `checkValidHeader` | advances the byte stream |
| `DataDecode` | `m_pHeader`, `m_entries`, `m_offset`, `segmentLastByte`, the loaded bytes | `decodeData`, `decodeDataSegmented`, `decodeOMPS`, `getOMPSScience`, `getNum` | advances the byte stream, returns a `Packet` |
| `ByteManipulation` | none | extraction and merging of bits and bytes | `DataDecode`, `HeaderDecode` |
| `DatabaseReader` | the entries | `readDatabase`, `getEntries`, `bannedAPID` | `Decom` |
| `ThreadPoolServer` | `m_queues`, `m_threads` | `exec`, `join`, `ThreadMain` (one thread per APID) | one queue per writer thread |
| `InstrumentFormat` | `scans`, `outpacks` | `formatATMS`, `writeChans` | reads back the file of a writer |
| `BackEnd` and QML | parameters of the run, popups | file choice, `runDecom`, `setFinished`, `setProgress` | starts the reader, is told of the end |
| `CSVRow`, `ReadFile`, `getFiles`, `LogFile`, `ProgressBar` | none | file access and messages | all |
| `mingw*` headers (include) | `mNumWaiters`, `mSemaphore`, `mWakeEvent`, `mMutex`; `mOwnerThread` | `wait_for`, `notify_one`, `lock`, `unlock`, threads | stand in for the standard library on Windows, below every queue |
| `hdf_wrapper` (include) | handles | HDF5 | `h5Decode` |

Hard behaviours: three kinds of threads connected by queues with a timed wait
and a shutdown that notifies nobody; a condition variable
made by hand from a counter, a semaphore and an event; references handed from one
thread to another; a text and a queue that two threads touch without a lock; a process exit in the middle of the shutdown; packets that are framed
by lengths the decoder partly ignores; fields that are read without having been
set; per-scan state that outlives a scan.

What makes each part correct:

- the queue: no message and no wakeup is lost; a listener is dismissed only when
  nothing will come any more; every listener is dismissed in the end;
- the Windows headers: they do what the standard says of the condition variable,
  and `notify_one`, which holds two mutexes, returns;
- reader, Decom thread and writers: what was accepted for an APID ends up in its
  file, once and in the order of the input; formatting and completion come after
  that; every run ends; references handed to a thread are alive and mean what
  they meant when they were handed over;
- headers and packet lengths: every header is read where a packet begins;
- packets: the returned `Packet` stands for the packets that were read, and its
  fields were set before they decide anything;
- values: they come from the bytes and bits the database names;
- scans: one line per scan, with its samples in place;
- user interface: one run, on what is shown, with the database of the earliest file;
  every "Execute" is answered, and nothing is said of the end before it has come.

## 2. Modules

```
Channel ---------> ListenerChannel <=== ListenerQueue <=== MinGWQueue
   |                                        ^              <=== implements
   +------> Pipeline ===> RowDelivery       |              ---> is extended by
               ^                            |  each queue operation of Pipeline
Decoding ------+--> Framing                 +  is one step because of this
BitFields -----+--> EntryValues <--+
               |                  Selection ---> Gui  (extends Channel)
               +--> Database <-----+             ScanFormat
```

`Gui` and `Pipeline` are two views of one run: `Gui` has the GUI thread with its
events and takes the Decom thread as one that takes items, formats and reports;
`Pipeline` has all threads and begins where `Gui` begins a run. `Database` is
what happens between "Execute" and that beginning, and the look-ups that the
Decom thread makes during the run. What `Database` shows is what the others
assume: `HasEntries` of `Decoding` (an APID has entries or not, whatever was looked
up before; theorem `WantedRowsServed`) and the sorted lists of `EntryValues` (theorem
`ServedEntriesAreSorted`).

| module | code | state and actions |
|---|---|---|
| `Channel` | include/ThreadSafeListenerQueue.hpp | a queue with its flag as a value: `NewChannel`, `Pushed`, `Popped`, `SetInactive`, `HasItem`, `Drained` |
| `ListenerChannel` | (abstract) | a FIFO channel closed by its sender; a listener is dismissed only from a closed, empty channel |
| `ListenerQueue` | include/ThreadSafeListenerQueue.hpp | `q`, `m_active`, `queueLock` and the position of each thread; one action per acquisition of the mutex, insertion, notification, wait, timeout, spurious wakeup and return |
| `MinGWQueue` | include/mingwcondition_variable.hpp:64-155, include/mingwmutex.hpp:98-131 | the queue with `mMutex`, `mNumWaiters`, `mSemaphore`, `mWakeEvent` and the locals `ret` and `targetWaiters`; one action per step of `wait_impl` and `notify_one` that the other thread can see |
| `Decoding` | src/Decom.cpp:133-149, src/DataDecode.cpp | no state: how many packets one decode reads, and which `Packet`s it may return |
| `Pipeline` | src/h5Decode.cpp, src/pdsDecode.cpp, src/Decom.cpp, src/ThreadPoolServer.cpp, src/InstrumentFormat.cpp:114-148 | the reader, the Decom thread and one writer per APID; one action per operation on a queue or per turn of a loop |
| `RowDelivery` | (abstract) doxygen/control.dox | packets accepted and rows written per APID; a report only after all was written |
| `Framing` | src/Decom.cpp:36-43, src/HeaderDecode.cpp, src/DataDecode.cpp:131-318 | the cursor in the byte vector, `eof`, the last header; one action per read or loop test |
| `ScanFormat` | src/InstrumentFormat.cpp:36-109 | `i`, `k`, `scanCounter`, the array of samples, the lines written; one action per step of the two loops |
| `Selection` | src/Decom.cpp:74-84, and the loops of the same form in src/h5Decode.cpp and src/backend.cpp | no state: what is left of a vector when a loop from its front copied the elements at some places |
| `BitFields` | src/ByteManipulation.cpp, src/DatabaseReader.cpp:63-108 | no state: an integer is the set of the weights of its bits |
| `EntryValues` | src/DataDecode.cpp:21-160, 279-286, 327-449 | the loop over the entries with the bytes `loadData` left in members; one action per entry |
| `Database` | src/DatabaseReader.cpp, src/Decom.cpp:65-91, include/ReadFile.hpp:28-35 | `m_entries` with `m_firstRun`, file and row; `m_mapEntries` and `m_missingAPIDs`; one action per row, per file and per look-up |
| `Gui` | qml/main.qml, src/backend.cpp, file listing and `init` of src/h5Decode.cpp and src/pdsDecode.cpp, src/ProgressBar.cpp, the messages of src/Decom.cpp | popup and dialog that are open, widgets as shown, members of `BackEnd`, the reader and the Decom thread, `m_progress`; one action per click, per file read, per item and per message of either thread, and for the signal `finished` |

`MCPipeline`, `MCFraming`, `MCScanFormat`, `MCEntryValues`, `MCDatabase` and `MCGui` give the constants
values for TLC; `ListenerQueue` and `MinGWQueue` are checked directly. `ListenerQueueProofs`,
`MinGWQueueProofs`, `PipelineProofs`, `FramingProofs`, `GuiProofs`, `DatabaseProofs`
(about `Database` and `EntryValues`, whose state stands side by side in it) and
`ScanFormatProofs` hold the proofs, `SequenceLemmas` what several of them cite.

Definitions marked "Wrong:" are variants of the operation they precede, with a
bug somebody could have written. No specification uses them. `PROJECT.json`
("mutants") pairs each property with one of them: with the variant in place of
the operation TLC finds the property violated.

### Abstractions worth knowing

- **Queues in `Pipeline`.** push and listen are one step each. That is what
  `ListenerQueue` implementing `ListenerChannel` means; a listen that returns 0
  is the step `Drained`. Over the Windows headers it holds as long as `notify_one`
  returns: `MinGWQueue` implements `ListenerQueue` in every step, and run
  `notify_hang` shows the one way in which it gets stuck.
- **Windows primitives.** A critical section is its holder, a semaphore its count
  with no limit (`PermitsDoNotPileUp` shows that the real limit is out of reach), an
  auto-reset event a flag. `WaitForSingleObject` ends by timeout only when there is
  nothing to take, at any time.
- **Unset fields.** `DataTypes::Packet` is default-initialised. Where a path
  reads `ignored` or `apid` without having set it, `Decoding` returns the set of
  packets with every value, and `Pipeline` chooses. For `apid`, "every value"
  is every APID in `Apids`: the others would only add further files.
- **The instrument reference.** `ThreadMain` reads a `std::string` that the
  Decom thread may be assigning to. The model reads the old or the new value at
  once; what a torn read of the string would give is not modelled.
- **Garbage.** Where a header is read from bytes that are no header, `Framing`
  takes any member of the constant `Garbage`. That includes combinations that
  particular bytes would exclude, so what is shown holds for more behaviours
  than the program has. The properties about positions speak of well-formed
  items, in which no such header is read.
- **Negative lengths.** `packetLength` is unsigned. Where the subtraction wraps,
  `Framing` lets the allocation of some 4 GB succeed (and the read set `eof`) or
  fail (and the process terminate).
- **Integers as sets of bits.** `{0, 2}` is 5. Shifts and substrings are
  exact at 8, 16 and 32 bits. The shift by a negative count in `extract8` is
  undefined in C++; the model takes what x86 code does, the count modulo 32.
- **Rows and files by what they hold.** A row of the database is the record of its
  columns, with `NoNumber` for a text without digits; an HDF5 file has what its name
  says and the names of its groups. Splitting lines and names is left out, the
  exceptions it throws are in.
- **Qt.** A modal popup takes the clicks meant for what lies below it, a native
  dialog those for the whole window; a click on a check box or switch turns it; a list
  view builds the check boxes of lines anew that come back into sight; a signal
  emitted on another thread is delivered by the event loop of the receiver. `Gui`
  takes these from how qml/main.qml uses Qt.
- **The text of the popup.** `m_progress` is the message it shows: the bar and the
  percentage are left out, the number of items in the queue is in. `size` reads the
  queue without its mutex (ThreadSafeListenerQueue.hpp:67-70); while the reader may be
  pushing, `Gui` lets it find any number up to one too many.
- **Closing the window during a run** destroys `BackEnd` under the detached Decom
  thread. That is undefined in C++; in `Gui` the process exits or terminates.
- **Floating point values** round when converted (src/DataDecode.cpp:80, 88) and
  are left out; that and when `getFloat` throws is in.

## 3. Runs

All pass with deadlock checked: where a thread system stops it has an explicit
stuttering action (`Finished`, `Quiet`, `Done`) for exactly the states in which it
may stop.

| run | question | bounds |
|---|---|---|
| `listener_queue` | Can a message or wakeup be lost, a listener be dismissed too early or never? Does the class implement `ListenerChannel`? | two messages, two listeners, three pushes |
| `pipeline` | Are rows lost, doubled or reordered; is the file formatted or completion reported too early; does every run end; does it implement `RowDelivery`? | eight inputs with up to three groups of up to four packets, five APIDs |
| `framing` | Is every header read where a packet begins, does a turn of the loop read what `Decoding` says, does the loop end? | every item of up to three packets out of six (VIIRS) or seven (OMPS) kinds, and out of two super-segmented ones, each whole and cut at two places |
| `scan_format` | Does each scan have a line, in order; what does each place of a line hold? | every buffer of up to eight rows; three samples per scan, a counter that wraps at six |
| `mingw_queue` | Do the Windows headers keep what `ListenerQueue` takes from the standard; do permits pile up; does `notify_one` return; does the listener stop? | two messages, one listener, five pushes |
| `entry_values` | Do values come from their own bytes, does an entry out of bounds harm another, can a sensible database make the process throw? | every sorted list of up to two of 78 entries, two kinds of loop |
| `database` | Does each packet get exactly the wanted entries of its APID in order, whatever was looked up before; what can end the process? | up to three rows in the first file, one in the others; four APIDs |
| `gui` | Can a second or nested run begin, are lists changed while they are read, is what was ticked what is read, with which database, is the end shown too early or never, which text stays? | three folders, two groups, three names in `m_packetFiles` (`MaxTicks`) |
| `file_naming`, `super_segments`, `last_scan`, `notify_hang` | one disagreement each, see section 6 | small inputs that show it |

Why these bounds are enough:

- *listener_queue*. The class has one condition variable and one flag. With two
  listeners one can be awake while the other sleeps, or be notified in the place
  of the other; the program has one listener per queue. Three pushes give a
  listener something while another message is on its way and a third is queued.
  The safety properties are proved for all sizes.
- *mingw_queue*. A permit that was left behind is taken by the next wait or the one
  after it; five pushes let two timeouts leave permits behind, a third push meet them,
  and the queue be closed with one left. Bound on permits and refinement are proved for
  any number of pushes. The program has one listener per queue.
- *pipeline*. The inputs were chosen for the control flow: a second instrument
  while writers of the first start; a group the user did not select; an invalid
  header in the middle and one inside a segmented packet; a segmented packet
  without LAST; packets of another APID inside a segmented packet; APIDs without
  entries, single, header only, segmented and OMPS science; OMPS science
  whole and cut off; PDS with a header file; nothing at all; a row too
  short for `formatATMS`. Every value of every unset field is tried in all of
  them. The safety properties are proved for all inputs.
- *framing*. A decode that goes wrong does so at the boundary between one packet
  and the next; three packets let FIRST, MIDDLE and LAST occur with another
  packet in between or behind. The lengths include a header alone, packets too
  short for their secondary header or their OMPS header, and science packets
  whose housekeeping ends with the packet.
- *scan_format*. Three samples stand for 104 and six for 65536: eight rows are
  more than both, so scans that are too long, that wrap the counter, that are
  too short, and buffers without a flag all occur.
- *entry_values*. What one entry leaves behind can only reach the next one that
  does not replace it, so lists of two show every leftover. The entries
  begin in front of, inside and across the end of a packet of five bytes and have
  every number of bytes, every form of the bits column and every type.
- *database*. The first file holds every list of up to three of six rows (two
  APIDs, no APID, bit ranges, a header mnemonic) or an unreadable row, or is
  missing; the second is empty, has only its header, or a row that must be sorted in
  front; the third has a row that compares equal to one of the first, or is missing.
  A file that follows a full one, an empty one and one of a single row
  is all that `m_firstRun` can tell apart. Look-ups are not bounded.
- *gui*. `MaxTicks` is the only bound: a group can be ticked, scrolled away, ticked
  again and unticked while another is ticked, which is what it takes for a
  name to be in `m_packetFiles` twice. The folders have HDF5 files in and out of order
  of time, PDS files with a header file, header files only, no files of the kind, a
  damaged group and a name that cannot be taken apart; three HDF5 files of three
  satellites, so that the first file of the listing and the earliest one differ.

### Fairness

- `ListenerQueue`: a thread that holds the mutex goes on and releases it (weak).
  A mutex that is free again and again is obtained in the end (strong): mutexes
  of the platforms make no formal promise, but the other threads leave
  the mutex alone for long while they decode and write. A wait that is begun again
  and again times out once (strong on `Expire`): spurious wakeups do not cut
  short every one of infinitely many one-second waits. That is needed, because
  `setInactive` notifies nobody (ThreadSafeListenerQueue.hpp:77-81). Nothing is
  assumed that makes the sender push or close.
- `MinGWQueue`: as in `ListenerQueue`, but nothing is assumed of timeouts beyond that
  `WaitForSingleObject` returns: a wait without a permit ends by timeout, as that is
  the only thing left. `notify_one` is not assumed to poll: the second after which it
  looks again is not needed for what is shown.
- `Pipeline`: reader, Decom thread and each writer go on when they can (weak).
  The threads are threads of the operating system; what they wait for is
  a queue or `join`. `push` returns: true of the standard library, and on Windows but
  for `notify_hang`.
- `Framing`, `ScanFormat`: the thread runs.
- `Gui`: reader and Decom thread go on and events are delivered (weak). Nothing is
  assumed of the user, who may stop at any time. `Database` has no liveness
  property.

## 4. Properties

Each module that has variables has a type invariant `TypeOK` that says what the
variables stand for. The runs leave it to the proofs: it is proved for `ListenerQueue`,
`Pipeline` and `Framing` by itself, and as part of the invariants of `MinGWQueue`,
`ScanFormat` and `EntryValues`. So are `LockDiscipline` (the mutex is held by the thread that is in a critical
section) and `NoPushAfterClose`, on which the others rest.

Queue: `Conservation` (what was pushed is what was taken and what is queued, in
order), `NobodySleepsOnItems` (no lost wakeup), `DismissedOnlyWhenDrained`,
`EveryListenerStops`, `ImplementsChannel` (whose fairness says that
every push is answered by a listen).

Windows: `ImplementsStandard` (each step is one of `ListenerQueue` or none, so that the
safety of the queue carries over), `PermitsDoNotPileUp`, `NotifyReturns` (once it has a
target, `notify_one` returns without polling), `ListenerStops`.

Run: `RowsThenQueue` and `RowsInInputOrder` (nothing lost, doubled or reordered up
to the file), `JoinOnlyAfterLastItem`, `FormatSeesWholeFiles` (the order
of the shutdown), `ApidReferenceAlive` (the reference to the APID that
`exec` gives to a new thread outlives its use: until the thread has read it, the
packet it points into is in exec's hands or in the queue only this thread
empties), `RunEnds`, `ImplementsDelivery`.

Bytes: `HeadersAtPackets`, `TurnAgreesWithDecoding` (what `Pipeline` takes from
`Decoding` is what the bytes lead to), `WholeItemRead`, `NothingReadBehindEnd`
(and so nothing is allocated with a length nobody set), `LoopEnds` for any
bytes whatsoever. The first four speak of whole items of valid headers and long enough
data fields, without super-segments. `NothingReadBehindEnd` needs `Closed` besides: each
turn of the loop that begins with a segmented packet finds a LAST behind it. The
other packets of a decode, its LAST among them, begin no turn (`TurnStarts`), and nothing
is asked of them; items of OMPS and science packets from FIRST over MIDDLE to LAST are
among those the run covers. Without `Closed` the property is false: see the hazard at
src/DataDecode.cpp:182.

Scans: `SamplesInPlace` (what every place of every line holds: the row that belongs
there, the later one if the counter has wrapped, and behind a short scan what the line
before has there), `LinesInOrder`, `EveryScanWritten`.

Values: `OwnBytesOnly` (no byte of another entry, in either loop), `FieldsOfPacket`
(unsigned values of whole bytes, and bit ranges over two bytes, are the bits of the packet),
`EntriesInside` (an entry that lies outside takes no other with it, in either loop),
`SaneEntriesDecoded` (a database whose entries make sense makes
no exception escape, 64-bit floating point entries and the single bit 1 of several
bytes apart). `FieldsOfPacket` is limited to what does hold: bit ranges in
one and in three bytes and entries of four bytes do not get the
bits the database names, see section 6.

Database: `EveryWantedRowServed` (end to end: rows of four files, header rows,
selection, `m_skip`, sorting, caches), `ServedInPacketOrder`, `MissingMeansNoRow`,
`OnlyBadFilesEndIt` (no header row is taken for data).

User interface: `OneRunOnly` (`m_queue` is never made active again; that it need not be
depends on the popups alone), `ListsStayWhileReading` (`setProgress` processes events
inside the loops over `m_files` and `m_packetFiles`), `ReadsWhatWasTicked`,
`RunsAsShown`, `FinishedMeansDone`, `ExecuteIsAnswered` (the popup progress is a dead
end only when there is nothing to run), `LastTextIsOfTheEnd` (`m_progress` is assigned
by two threads), `DatabaseOfEarliestFile` (files of several satellites in one folder).

## 5. Proofs

Proved by TLAPS for every value of the constants under the ASSUMEs of the
modules. Every safety property of a passing run, invariant or action property, is
stated by a theorem.

- `ListenerQueueProofs`: `TypeCorrect`, `MutualExclusion`, `NothingLost`,
  `DismissalIsFinal`, `NoLostWakeup`, `ImplementsChannelSafety`. The inductive
  invariant `IInv` conjoins the safety properties and `FlagFollowsSender`: the
  flag is cleared exactly when the sender is through, which a listener that
  found the queue empty relies on. `DismissedOnlyWhenDrained` is not inductive
  without it, and needs `LockDiscipline`: nobody pushes between the test of the
  queue and the return of 0.
- `MinGWQueueProofs`: `PermitsBounded` and `ImplementsStandardLibrary`. `IInv` says who
  holds the mutexes, that `mNumWaiters` counts the listener while it is between its
  increment and its decrement (`Counted`), and how many permits there can be where
  (`Permits`): a second permit is released only to a listener that is blocked, and
  `notify_one` does not return before that listener has taken one. The refinement maps
  "counted, not yet waiting" to the test of the loop, and `notify_one` as a whole to
  the one step of its return.
- `PipelineProofs`: `TypeCorrect`, `NothingLost`, `FilesAreWhole`,
  `LoopEndsAfterLastItem`, `ReferenceAlive`, `ClosedIsClosed`, `RowsOrdered`,
  `ImplementsDeliverySafety`, and of the operators of `Decoding` that they return
  Packets and nonempty stretches of the input (`DecodeEndInside`), whatever the
  unset fields hold. `IInv` adds to the properties `QueueFollowsReader`
  (the reader's queue is active as long as it reads) and `WriterState` (per APID,
  how the state of the writer, what it has in hand and its queue go together: a
  writer is done only with an inactive, empty queue). The proof that a step
  preserves it goes action by action: reader, the moves of the Decom thread,
  exec, join and the end, writers. `RowsOrdered` carries the numbering of the packets
  through both queues: what was accepted is older than what the Decom thread still has
  of its item, that is older than what is queued, and that than what is
  still to be read (`OrderToCome`, `OrderOfRows`); `RowsThenQueue` takes the order from
  what was accepted to the file.
- `FramingProofs`: `TypeCorrect` for any bytes, and for well-formed items of any number of
  packets of any lengths `StaysOnPackets`, `TurnsAgree`, `NothingLeft` and
  `NothingBeyond`. `OnTrack` names, for every place of the loops, the packet the cursor is
  at: at the test it is the end of the packet `DecodeEnd` names (`AtTest`), in the loops
  over segments the end of some packet with no LAST between it and the one the
  turn began with (`AtSegment`, `BehindSegment`). That what is subtracted from a length is
  what was read is `LengthOfHeaders`, that the loops stop where `Decoding` says is
  `SegmentEnds`. `NothingBeyond` assumes `Closed` too; for it `OnTrack` says that the
  packet a turn began with is one of `TurnStarts`, and `StartsOfTurns` that the packet
  behind the end of its decode is another.
- `GuiProofs`: `EndIsNotShownEarly`, `TextIsOfTheEnd`, `DatabaseIsOfEarliest`,
  `ListsStay`, `RunsOnce`, `RunsUseWhatIsShown`, `TickedIsRead`. `IInv` has what the
  popups allow (`Popups`: before a run
  there is none of its popups), how reader, queue and Decom thread go together
  (`Threads`), that the end is shown after it was reported, and that from its last
  listen on the Decom thread is alone with `m_progress` (`Reports`), and that a listing
  comes with the type of an earliest file (`Listed`). `Shown` keeps the two sides of
  every setting together: a group may be in `m_packetFiles` any number of times, but it
  is there exactly if its last click ticked it, because taking it out takes
  out all of them (`TicksAgree`). `HInv` says between two files what was
  handed over: the chosen groups of the files gone through, once each
  (`ChosenUpTo`, `OnceInOrder`), whether they are in the queue or taken from it.
- `DatabaseProofs`, the database: `EndsOnBadFilesOnly`, from `HeaderFirst`: `m_firstRun`
  is set exactly while the header row of the file is still to come. `MissingHasNoRow`,
  from `EntriesAreRows`: at any moment the APIDs of `m_entries` are those of the rows of
  data behind the place of the loops (`Behind`), sorting moves entries only, and when
  Decom looks up all rows are behind (`AllRead`). `WantedRowsServed` needs more, as two
  rows may make equal entries: there is a bijection between the places of
  `m_entries` and the rows behind (`EntryPerRow`), which a row extends and
  sorting permutes. A look-up copies the entries at `PlacesOf`, and the bijection takes
  these to the wanted rows; so their numbers are equal. `ServedInPacketsOrder`:
  the copy keeps the order that sorting made (`KeptPlaces`).
- `DatabaseProofs`, the decoder of a packet: `ValuesFromOwnBytes`, `ValuesOfPacket`,
  `DecodesEntriesInside`, `SaneEntriesNeverThrow`, for every list of entries
  and all bytes. They are about `EntryValues`, whose assumption that the entries are sorted
  is `ServedEntriesAreSorted`, a theorem about `Database`. `DecoderInv`: what has been
  decoded is what the loop chose of the entries it has passed (`Chosen`), each from its
  own bytes. That is inductive because a load that succeeds
  replaces as many bytes as the entry is then decoded from. `ValuesOfPacket` adds the
  bits: those of two or three bytes in the number they are merged to (`TwoBytes`,
  `ThreeBytes`), and those of a substring of it (`FieldOfMerged`).
- `ScanFormatProofs`: `SamplesAreInPlace`, `LinesAreInOrder`, `NoScanIsSkipped`. `IInv`
  says where the loops are (`Places`, with `scanCounter` counting modulo its limit),
  that no row between has a flag (`ScanSeen`), that the arrays hold the rows seen so far and else what
  the last line shows (`Arrays`), and which scans have their line by then
  (`ScansSoFar`). `ModStep`, `MaxOf` and `MinOf` are its arithmetic, `ScanIsOver` that
  the scan the property speaks of is the stretch of rows the loops have seen.
- `SequenceLemmas`: least numbers, appending, taking and concatenating, and what the
  loops of `Selection` yield. `Kept` is a recursive function, and what it returns for
  every sequence needs an induction over its length. It is had from the
  well-ordering of the naturals (`LeastNatural`), stated for sets (`SetInduction`): the
  numbers at which the fact fails have no least member. `KeptPlaces` is the result:
  the places copied, in increasing order, each once.

Only model-checked are the liveness properties, and the fairness in the abstract
specifications that `ListenerQueue` and `Pipeline` implement: the refinement theorems
cover their safety part. Liveness under fairness is out of reach of the prover.

What the proofs found in the models, where the small instances had not shown it:

- an item without packets was called whole whatever bytes it had, and the properties of
  `Framing` spoke of it; `Whole` now asks that it has none;
- with two groups of one name in a file, the reader would hand over one twice;
  HDF5 does not have that, and `GuiAssumption` now says so;
- `SaneEntriesDecoded` was false of an entry with the single bit 1 and more than one
  byte, of which the run had none: it throws, see section 6 (`Digitless`).

## 6. Where the code and its documentation part

Each has a run that shows it (`PROJECT.json`, "findings"):

- `file_naming`: a writer reads the instrument through a reference into
  `queueVal` when it starts to run; by then the Decom thread may have rebuilt it.
- `super_segments`: the second group of a super-segmented OMPS packet is read
  eight bytes too far.
- `last_scan`: after the last scan each of its rows begins a line.
- `notify_hang`: `notify_one` looks twice at `mNumWaiters`; when the only waiter leaves
  by timeout in between, its target is -1 and `push` stays in it for ever, with the
  mutex of the queue held. The listener that is to take the message waits for that
  mutex, and the run never ends. The window is a few instructions, once per second
  of an idle queue.

Seen while modelling; the model does the same as the code, no run is kept for it:

- only the first segment of a segmented packet is decoded: the loop over the entries of
  the others begins where it ends (src/DataDecode.cpp:157 and 184), while the comment
  promises a "Single packet containing all segmented packets" (src/DataDecode.cpp:167);
- an entry of four bytes gets its first three: `getNum` calls `decodeThree`, nobody
  calls `decodeFour` (src/DataDecode.cpp:356 and 452);
- `decodeData` never sets `ignored`, and `exec` drops the packet when the unset
  field is not zero (src/DataDecode.cpp:135, src/ThreadPoolServer.cpp:80;
  tests/TestDecom.cpp:39 expects 0);
- `extract8` makes a mask of `len - start` bits, where the comment says "Number of
  bits to extract" (src/ByteManipulation.cpp:34 and 39): of the bits 1 to 6 of a byte two
  are left;
- an entry with the single bit 1 in two bytes or three has a width of 0 bits, as its upper
  bit stays 0: `extract16` and `extract32` are left with no digits, and `stoul` throws
  out of the Decom thread (src/DataDecode.cpp:420 and 447,
  src/ByteManipulation.cpp:50-66);
- without a group to choose, `runDecom` returns at once and leaves a popup without an
  exit button (src/backend.cpp:198); the same popup stays when the dialog about
  the end is dismissed without being accepted (qml/main.qml:221);
- a text that is no list of APIDs terminates the process, "All APIDs" or not
  (src/backend.cpp:224);
- a row of the database without a readable APID counts for APID 0
  (src/DatabaseReader.cpp:144);
- a check box that was scrolled out of sight comes back unticked, its group stays
  chosen (qml/main.qml:54-58);
- the satellite type is that of the earliest HDF5 file alone (src/h5Decode.cpp:54);
- a segmented packet without entries is written, single ones are dropped
  (src/DataDecode.cpp:178 and 486);
- the reader does not wait for the Decom thread (doxygen/control.dox:15 says so);
- without its file `formatATMS` calls `exit`, and nobody is told of the end of the
  run (include/ReadFile.hpp:28-35, doxygen/control.dox:31);
- the lines of a scan that is too short end with samples of an earlier scan
  (src/InstrumentFormat.cpp:44);
- an entry of a single bit keeps 0 as upper bit, a pointer is assigned in place of
  the value (src/DatabaseReader.cpp:105); a single bit above 9 is passed over;
- signed ranges in one byte are one bit too long, and are not sign-extended
  (src/DataDecode.cpp:391); 24-bit ranges are eight bits off, because the
  24 bits are extracted from 32 (src/DataDecode.cpp:447);
- the largest packet the length field allows is found invalid without a secondary
  header (src/HeaderDecode.cpp:170-180);
- entries of floating point type get neither mnemonic nor tag
  (src/DataDecode.cpp:330-333);
- `getOMPSScience` never sets `m_offset` and does not look at what `loadData`
  returns (src/DataDecode.cpp:283).

## 7. Not modelled

- What a torn `QString` is when both threads assign `m_progress` at once
  (src/backend.cpp:69); it is only displayed. The bar of `ProgressBar` and its message
  about a number out of bounds. `LogFile`, which appends to a file nobody reads.
- The layout of rows and lines, the conversion of columns to numbers, `CSVRow`
  beyond its exception, the type column of the database.
- Failures of the file system; the file `datesFile.dat`.
- `hdf_wrapper`: a third-party wrapper of the HDF5 C library (handles, reference
  counts, type conversions); the library is not in the repository. What the program
  sees of it, groups, datasets and exceptions, is in `Gui`.
- Of the MinGW headers, what no queue uses: `wait` without a timeout, `wait_until`,
  `notify_all`, the recursive and timed mutexes. The class `thread` is taken for what
  `std::thread` does. That a thread locks the mutex it holds, which `mOwnerThread` is
  there to find, does not occur in push and listen.
- Catch (include/catch), the test framework, which is the largest file of the
  repository; the start of `main`.

## 8. Plan

1. `Gui` shown to implement `RowDelivery`, or `Pipeline` and `Gui` shown to agree on
   the items, with one abstract run as their common specification.
2. Proofs about `BitFields` for what an extraction yields for every width, the wrong
   ones (section 6) included, so that what a database may rely on is stated for
   all of its columns.
3. The refinement theorems of `ListenerQueue` and `Pipeline` for the steps under which
   the fairness of the abstract specifications is owed.
