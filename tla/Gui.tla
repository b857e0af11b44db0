---------------------------------- MODULE Gui ----------------------------------
(***************************************************************************)
(* The user interface (qml/main.qml), BackEnd and what its slots call: the *)
(* choice of a folder and the listing of its files, the choices of APIDs   *)
(* and groups, and one run from "Execute" to "Exit".                       *)
(*                                                                         *)
(* Everything here is the GUI thread but for the Decom thread, which is    *)
(* taken from Pipeline as a whole: it takes items in order, formats and    *)
(* reports.  The GUI thread is inside runDecom while it reads, yet         *)
(* setProgress lets it process events: whatever the popups leave enabled   *)
(* can be clicked between two files.                                       *)
(***************************************************************************)
EXTENDS Channel, Naturals, FiniteSets, SequencesExt, Selection

CONSTANTS
  Folders,     (* what is in the folders the user may choose               *)
  NoFolder,    (* the empty name of a folder                               *)
  Groups,      (* the data groups, or the beginnings of names of PDS files *)
  MaxTicks     (* bound: the groups that m_packetFiles holds at most       *)

(***************************************************************************)
(* A file.  sat and time come from its name; a wellFormed one can be       *)
(* opened and its name be taken apart.  A damaged group has less data than *)
(* its header.  The groups of an HDF5 file are links in one of its groups, *)
(* and have names of their own.  A PDS file has one group, or none if it   *)
(* is a header file.                                                       *)
(***************************************************************************)
Files(folder) == folder.h5 \cup folder.pds
SCType == {"NPP", "J1", "J2", "J3", "J4"}

ASSUME GuiAssumption ==
  /\ MaxTicks \in Nat
  /\ NoFolder \notin Folders
  /\ \A folder \in Folders :
       /\ IsFiniteSet(folder.h5) /\ IsFiniteSet(folder.pds)
       /\ \A f \in Files(folder) :
            /\ f.time \in Nat
            /\ f.groups \in Seq(Groups) /\ IsInjective(f.groups)
            /\ f.damaged \subseteq Range(f.groups)
            /\ f.wellFormed \in BOOLEAN
       /\ \A f \in folder.pds : Len(f.groups) <= 1

VARIABLES
  process,         (* running, exited or terminated                        *)
  closing,         (* the window was closed while runDecom was on the stack *)
  popup,           (* the modal popup that is open                         *)
  dialog,          (* the native dialog that is open                       *)
  endianSwap,      (* the switch and the check box as they are shown       *)
  allAPIDsBox,
  ticked,          (* the check boxes of the groups as they are shown      *)
  exitButton,      (* whether it is visible                                *)
  m_folderName, m_format, m_files, m_ofiles, m_type,
  m_packetFiles, m_selectedAPIDs, m_allAPIDs, m_bigEndian,
  reader, next,    (* where h5Decode::init or pdsDecode::init is           *)
  m_queue,
  decom, decoded,  (* the Decom thread, and the items it has taken         *)
  finishedSignal,  (* the signal finished, from the Decom to the GUI thread *)
  m_progress,      (* the text that the popup progress shows               *)
  runs, usedFor,   (* history: the runs begun, and the last one's settings *)
  lastClick        (* history: whether the last click on a group ticked it *)

widgets == <<popup, dialog, endianSwap, allAPIDsBox, ticked, exitButton>>
listing == <<m_files, m_ofiles, m_type>>
settings == <<m_selectedAPIDs, m_allAPIDs, m_bigEndian>>
choice == <<m_folderName, m_format, listing, m_packetFiles, settings>>
threads == <<reader, next, m_queue, decom, decoded, finishedSignal, m_progress>>
history == <<runs, usedFor, lastClick>>
vars == <<process, closing, widgets, choice, threads, history>>

NoRun == [allAPIDs |-> FALSE, bigEndian |-> FALSE]
Texts == {"empty", "numbers", "other"}
AllFiles == UNION {Files(folder) : folder \in Folders}
Items == AllFiles \X Groups

\* A text of the popup: which message it is, and the number in it.
Text(message) == [message |-> message, number |-> 0]
ItemsLeft(n) == [message |-> "Items left in Queue", number |-> n]
Messages == {"", "Parsing", "Waiting for writer threads", "Items left in Queue", "Write ATMS"}

TypeOK ==
  /\ process \in {"running", "exited", "terminated"}
  /\ closing \in BOOLEAN
  /\ popup \in {"none", "apidSelect", "runSelectWindow", "progress"}
  /\ dialog \in {"none", "fileDialog", "finishedPopup"}
  /\ endianSwap \in [checked : BOOLEAN, visible : BOOLEAN]
  /\ allAPIDsBox \in BOOLEAN
  /\ ticked \in [Groups -> BOOLEAN]
  /\ exitButton \in BOOLEAN
  /\ m_folderName \in Folders \cup {NoFolder}
  /\ m_format \in {"none", "H5", "PDS"}
  /\ m_files \in Seq(AllFiles)
  /\ m_ofiles \subseteq Groups
  /\ m_type \in SCType
  /\ m_packetFiles \in Seq(Groups) /\ Len(m_packetFiles) <= MaxTicks
  /\ m_selectedAPIDs \in Texts
  /\ m_allAPIDs \in BOOLEAN
  /\ m_bigEndian \in BOOLEAN
  /\ reader \in {"idle", "reading", "closing", "returned"}
  /\ next \in 1 .. Len(m_files) + 1
  /\ m_queue \in [q : Seq(Items), m_active : BOOLEAN]
  /\ decom \in {"none", "listening", "decoding", "dismissed", "formatting", "finished"}
  /\ decoded \in Seq(Items)
  /\ finishedSignal \in {"none", "posted", "delivered"}
  /\ m_progress \in [message : Messages, number : Nat]
  /\ runs \in Nat
  /\ usedFor \in [allAPIDs : BOOLEAN, bigEndian : BOOLEAN]
  /\ lastClick \in [Groups -> BOOLEAN]

\* m_format stands for the flags m_H5 and m_PDS, of which at most one is set.
Init ==
  /\ process = "running" /\ closing = FALSE
  /\ popup = "none" /\ dialog = "none"
  /\ endianSwap = [checked |-> TRUE, visible |-> TRUE]
  /\ allAPIDsBox = FALSE
  /\ ticked = [g \in Groups |-> FALSE]
  /\ exitButton = FALSE
  /\ m_folderName = NoFolder /\ m_format = "none"
  /\ m_files = <<>> /\ m_ofiles = {} /\ m_type = "J1"
  /\ m_packetFiles = <<>>
  /\ m_selectedAPIDs = "empty" /\ m_allAPIDs = FALSE /\ m_bigEndian = TRUE
  /\ reader = "idle" /\ next = 1
  /\ m_queue = NewChannel
  /\ decom = "none" /\ decoded = <<>>
  /\ finishedSignal = "none" /\ m_progress = Text("")
  /\ runs = 0 /\ usedFor = NoRun
  /\ lastClick = [g \in Groups |-> FALSE]

-----------------------------------------------------------------------------
(***************************************************************************)
(* The main window.  A modal popup, and a native dialog above all, keeps   *)
(* clicks from what is below.                                              *)
(*                                                                         *)
(* Definitions marked "Wrong:" are variants with a bug that no             *)
(* specification uses.                                                     *)
(***************************************************************************)
Clickable(place) ==
  process = "running" /\ ~closing /\ dialog = "none" /\ popup = place

ToggleEndian ==
  /\ Clickable("none")
  /\ endianSwap.visible
  /\ endianSwap' = [endianSwap EXCEPT !.checked = ~@]
  /\ m_bigEndian' = ~m_bigEndian
  /\ UNCHANGED <<process, closing, popup, dialog, allAPIDsBox, ticked, exitButton,
                 m_folderName, m_format, listing, m_packetFiles, m_selectedAPIDs,
                 m_allAPIDs, threads, history>>

\* setH5 or setPDS, before the dialog has been answered.
SelectFolder(format) ==
  /\ Clickable("none")
  /\ m_format' = format
  /\ dialog' = "fileDialog"
  /\ UNCHANGED <<process, closing, popup, endianSwap, allAPIDsBox, ticked, exitButton,
                 m_folderName, listing, m_packetFiles, settings, threads, history>>

AnswerFileDialog ==
  /\ process = "running" /\ dialog = "fileDialog"
  /\ dialog' = "none"
  /\ m_folderName' \in Folders \cup {m_folderName}
  /\ UNCHANGED <<process, closing, popup, endianSwap, allAPIDsBox, ticked, exitButton,
                 m_format, listing, m_packetFiles, settings, threads, history>>

-----------------------------------------------------------------------------
(***************************************************************************)
(* "Run Decom": getFiles and the first popup.                              *)
(***************************************************************************)
IsH5 == m_format = "H5"
FilesInFolder == IF IsH5 THEN m_folderName.h5 ELSE m_folderName.pds
GroupNames == UNION {Range(f.groups) : f \in FilesInFolder}

\* filesInDirectory finds them in any order; sortFiles sorts HDF5 files only,
\* and those of the same time in any order.
Listings ==
  {s \in SetToSeqs(FilesInFolder) :
     IsH5 => \A i, j \in DOMAIN s : i < j => s[i].time <= s[j].time}

Satellites == [npp |-> "NPP", j01 |-> "J1", j02 |-> "J2", j03 |-> "J3"]
CheckType(file) == IF file.sat \in DOMAIN Satellites THEN Satellites[file.sat] ELSE "J4"

RunWithoutFolder ==
  /\ Clickable("none")
  /\ m_folderName = NoFolder
  /\ popup' = "apidSelect"
  /\ endianSwap' = [endianSwap EXCEPT !.visible = FALSE]
  /\ UNCHANGED <<process, closing, dialog, allAPIDsBox, ticked, exitButton, choice,
                 threads, history>>

\* Wrong: the type is taken before the files are sorted.
ListFilesTypeFirst ==
  /\ Clickable("none")
  /\ m_folderName # NoFolder
  /\ FilesInFolder # {}
  /\ IsH5 => \A f \in FilesInFolder : f.wellFormed
  /\ m_files' \in Listings
  /\ m_ofiles' = GroupNames
  /\ m_type' \in IF IsH5 THEN {CheckType(f) : f \in FilesInFolder} ELSE {m_type}
  /\ ticked' = [g \in Groups |-> FALSE]
  /\ popup' = "apidSelect"
  /\ endianSwap' = [endianSwap EXCEPT !.visible = FALSE]
  /\ UNCHANGED <<process, closing, dialog, allAPIDsBox, exitButton, m_folderName,
                 m_format, m_packetFiles, settings, threads, history>>

\* ofilesChanged makes the list view build its check boxes anew.
ListFiles ==
  /\ Clickable("none")
  /\ m_folderName # NoFolder
  /\ FilesInFolder # {}
  /\ IsH5 => \A f \in FilesInFolder : f.wellFormed
  /\ m_files' \in Listings
  /\ m_ofiles' = GroupNames
  /\ m_type' = IF IsH5 THEN CheckType(Head(m_files')) ELSE m_type
  /\ ticked' = [g \in Groups |-> FALSE]
  /\ popup' = "apidSelect"
  /\ endianSwap' = [endianSwap EXCEPT !.visible = FALSE]
  /\ UNCHANGED <<process, closing, dialog, allAPIDsBox, exitButton, m_folderName,
                 m_format, m_packetFiles, settings, threads, history>>

\* Without files getFileTypeNames calls exit; it lets the exceptions escape
\* that a file or a name makes it throw.
StopInGetFiles ==
  /\ Clickable("none")
  /\ m_folderName # NoFolder
  /\ \/ FilesInFolder = {} /\ process' = "exited"
     \/ /\ IsH5 /\ \E f \in FilesInFolder : ~f.wellFormed
        /\ process' = "terminated"
  /\ UNCHANGED <<closing, widgets, choice, threads, history>>

-----------------------------------------------------------------------------
(***************************************************************************)
(* The popups apidSelect and runSelectWindow.                              *)
(***************************************************************************)
\* Wrong: a click always sets the flag.
SetAllAPIDs ==
  /\ Clickable("apidSelect")
  /\ allAPIDsBox' = ~allAPIDsBox
  /\ m_allAPIDs' = TRUE
  /\ UNCHANGED <<process, closing, popup, dialog, endianSwap, ticked, exitButton,
                 m_folderName, m_format, listing, m_packetFiles, m_selectedAPIDs,
                 m_bigEndian, threads, history>>

ToggleAllAPIDs ==
  /\ Clickable("apidSelect")
  /\ allAPIDsBox' = ~allAPIDsBox
  /\ m_allAPIDs' = ~m_allAPIDs
  /\ UNCHANGED <<process, closing, popup, dialog, endianSwap, ticked, exitButton,
                 m_folderName, m_format, listing, m_packetFiles, m_selectedAPIDs,
                 m_bigEndian, threads, history>>

ExecuteAPIDs ==
  /\ Clickable("apidSelect")
  /\ m_selectedAPIDs' \in Texts
  /\ popup' = "runSelectWindow"
  /\ UNCHANGED <<process, closing, dialog, endianSwap, allAPIDsBox, ticked, exitButton,
                 m_folderName, m_format, listing, m_packetFiles, m_allAPIDs,
                 m_bigEndian, threads, history>>

AddPacketFile(g) == m_packetFiles' = Append(m_packetFiles, g)

\* Wrong: only the first of equal names is removed.
RemoveFirstPacketFile(g) == m_packetFiles' = ReplaceFirstSubSeq(<<>>, <<g>>, m_packetFiles)

\* remove and erase take out all equal names.
RemovePacketFile(g) ==
  m_packetFiles' = Kept(m_packetFiles, {i \in DOMAIN m_packetFiles : m_packetFiles[i] # g})

ClickGroup(g) ==
  /\ Clickable("runSelectWindow")
  /\ g \in m_ofiles
  /\ IF ticked[g] THEN RemovePacketFile(g)
     ELSE Len(m_packetFiles) < MaxTicks /\ AddPacketFile(g)
  /\ ticked' = [ticked EXCEPT ![g] = ~@]
  /\ lastClick' = [lastClick EXCEPT ![g] = ~ticked[g]]
  /\ UNCHANGED <<process, closing, popup, dialog, endianSwap, allAPIDsBox, exitButton,
                 m_folderName, m_format, listing, settings, threads, runs, usedFor>>

\* A list view destroys the check box of a line that is scrolled out of sight
\* and later builds it anew, not ticked.
ScrollAway(g) ==
  /\ Clickable("runSelectWindow")
  /\ ticked[g]
  /\ ticked' = [ticked EXCEPT ![g] = FALSE]
  /\ UNCHANGED <<process, closing, popup, dialog, endianSwap, allAPIDsBox, exitButton,
                 choice, threads, history>>

-----------------------------------------------------------------------------
(***************************************************************************)
(* "Execute": the popup progress, and runDecom.                            *)
(***************************************************************************)
\* Wrong: the popup with the groups is left open.
BeginRunBelowGroups ==
  /\ Clickable("runSelectWindow")
  /\ m_ofiles # {} /\ m_selectedAPIDs # "other"
  /\ reader' = "reading" /\ next' = 1
  /\ decom' = "listening"
  /\ runs' = runs + 1
  /\ usedFor' = [allAPIDs |-> m_allAPIDs, bigEndian |-> m_bigEndian]
  /\ UNCHANGED <<process, closing, widgets, choice, m_queue, decoded, finishedSignal,
                 m_progress, lastClick>>

\* The database was read, the Decom thread starts.
BeginRun ==
  /\ Clickable("runSelectWindow")
  /\ m_ofiles # {} /\ m_selectedAPIDs # "other"
  /\ popup' = "progress"
  /\ reader' = "reading" /\ next' = 1
  /\ decom' = "listening"
  /\ runs' = runs + 1
  /\ usedFor' = [allAPIDs |-> m_allAPIDs, bigEndian |-> m_bigEndian]
  /\ UNCHANGED <<process, closing, dialog, endianSwap, allAPIDsBox, ticked, exitButton,
                 choice, m_queue, decoded, finishedSignal, m_progress, lastClick>>

\* Wrong: runDecom returns also if no group is ticked.
NothingTicked ==
  /\ Clickable("runSelectWindow")
  /\ m_ofiles = {} \/ m_packetFiles = <<>>
  /\ popup' = "progress"
  /\ UNCHANGED <<process, closing, dialog, endianSwap, allAPIDsBox, ticked, exitButton,
                 choice, threads, history>>

\* Without groups runDecom returns at once.
NothingToRun ==
  /\ Clickable("runSelectWindow")
  /\ m_ofiles = {}
  /\ popup' = "progress"
  /\ UNCHANGED <<process, closing, dialog, endianSwap, allAPIDsBox, ticked, exitButton,
                 choice, threads, history>>

\* stoul throws for what is no number, "All APIDs" or not; the reading of the
\* database may end the process (module Database).
StopInRunDecom ==
  /\ Clickable("runSelectWindow")
  /\ m_ofiles # {}
  /\ \/ m_selectedAPIDs = "other" /\ process' = "terminated"
     \/ m_selectedAPIDs # "other" /\ process' \in {"exited", "terminated"}
  /\ UNCHANGED <<closing, widgets, choice, threads, history>>

-----------------------------------------------------------------------------
(***************************************************************************)
(* h5Decode::init and pdsDecode::init on the GUI thread.                   *)
(***************************************************************************)
Reading == process = "running" /\ reader = "reading"
IsSelected(g) == g \in Range(m_packetFiles)

SelectedItems(f) ==
  LET groups == Kept(f.groups, {i \in DOMAIN f.groups : IsSelected(f.groups[i])})
  IN  [i \in DOMAIN groups |-> <<f, groups[i]>>]

CanRead(f) == IsH5 => f.damaged \cap Range(m_packetFiles) = {}

\* ProgressBar::Progressed with the number of a file: it has a new text for the
\* first and the last, and for the others if there are fewer than 200.
Progressed ==
  m_progress' \in {Text("Parsing")} \cup
                  (IF next \in {1, Len(m_files)} THEN {} ELSE {m_progress})

ReadFile ==
  /\ Reading
  /\ next <= Len(m_files)
  /\ CanRead(m_files[next])
  /\ Progressed
  /\ m_queue' = PushedAll(m_queue, SelectedItems(m_files[next]))
  /\ next' = next + 1
  /\ UNCHANGED <<process, closing, widgets, choice, reader, decom, decoded,
                 finishedSignal, history>>

\* at throws for a dataset without its 52 bytes of header.
TerminateOnDataset ==
  /\ Reading
  /\ next <= Len(m_files)
  /\ ~CanRead(m_files[next])
  /\ Progressed
  /\ process' = "terminated"
  /\ UNCHANGED <<closing, widgets, choice, reader, next, m_queue, decom, decoded,
                 finishedSignal, history>>

\* The last text of the reader; setProgress processes events once more.
AnnounceWaiting ==
  /\ Reading
  /\ next > Len(m_files)
  /\ m_progress' = Text("Waiting for writer threads")
  /\ reader' = "closing"
  /\ UNCHANGED <<process, closing, widgets, choice, next, m_queue, decom, decoded,
                 finishedSignal, history>>

\* main returns when the event loop has ended.  It destroys BackEnd with the
\* queue; what the detached Decom thread does then is undefined.
Outcomes == {"exited"} \cup
            (IF decom \in {"none", "finished"} THEN {} ELSE {"terminated"})

\* init returns; if the window was closed meanwhile, so does main.
Return ==
  /\ reader' = "returned"
  /\ IF closing THEN process' \in Outcomes ELSE UNCHANGED process
  /\ UNCHANGED <<closing, widgets, choice, next, decom, decoded, history>>

Closing == process = "running" /\ reader = "closing"

\* Wrong: the reader reports the end of the run.
CloseQueueAndReport ==
  /\ Closing
  /\ m_queue' = SetInactive(m_queue)
  /\ finishedSignal' = "posted"
  /\ Return
  /\ UNCHANGED m_progress

\* Wrong: the text comes behind setInactive.
CloseQueueFirst ==
  \/ /\ Closing /\ m_queue.m_active
     /\ m_queue' = SetInactive(m_queue)
     /\ UNCHANGED <<process, closing, widgets, choice, reader, next, decom, decoded,
                    finishedSignal, m_progress, history>>
  \/ /\ Closing /\ ~m_queue.m_active
     /\ m_progress' = Text("Waiting for writer threads")
     /\ Return
     /\ UNCHANGED <<m_queue, finishedSignal>>

\* setInactive, and back in the event loop.
CloseQueue ==
  /\ Closing
  /\ m_queue' = SetInactive(m_queue)
  /\ Return
  /\ UNCHANGED <<finishedSignal, m_progress>>

ReaderStep == ReadFile \/ TerminateOnDataset \/ AnnounceWaiting \/ CloseQueue

-----------------------------------------------------------------------------
(***************************************************************************)
(* The Decom thread.                                                       *)
(***************************************************************************)
\* The two returns of listen.
ListenItem ==
  /\ process = "running" /\ decom = "listening"
  /\ HasItem(m_queue)
  /\ decoded' = Append(decoded, Head(m_queue.q))
  /\ m_queue' = Popped(m_queue)
  /\ decom' = "decoding"
  /\ UNCHANGED <<process, closing, widgets, choice, reader, next, finishedSignal,
                 m_progress, history>>

ListenEnd ==
  /\ process = "running" /\ decom = "listening"
  /\ Drained(m_queue)
  /\ decom' = "dismissed"
  /\ UNCHANGED <<process, closing, widgets, choice, reader, next, m_queue, decoded,
                 finishedSignal, m_progress, history>>

\* size does not lock the queue: what it finds amid a push need not be the number
\* of items before or behind it.
Sizes == IF reader = "reading" THEN 0 .. Len(m_queue.q) + 1 ELSE {Len(m_queue.q)}

\* The size of the queue, behind either return, and then the item is decoded
\* or the writers are joined.
ReportSize ==
  /\ process = "running" /\ decom \in {"decoding", "dismissed"}
  /\ m_progress' \in {ItemsLeft(n) : n \in Sizes}
  /\ decom' = IF decom = "decoding" THEN "listening" ELSE "formatting"
  /\ UNCHANGED <<process, closing, widgets, choice, reader, next, m_queue, decoded,
                 finishedSignal, history>>

\* formatATMS, if there is something to format, reports its rows.
ReportRows ==
  /\ process = "running" /\ decom = "formatting"
  /\ m_progress' = Text("Write ATMS")
  /\ UNCHANGED <<process, closing, widgets, choice, reader, next, m_queue, decom, decoded,
                 finishedSignal, history>>

\* The signal crosses threads: it is posted to the GUI thread.
SetFinished ==
  /\ process = "running" /\ decom = "formatting"
  /\ decom' = "finished"
  /\ finishedSignal' = "posted"
  /\ UNCHANGED <<process, closing, widgets, choice, reader, next, m_queue, decoded,
                 m_progress, history>>

\* formatATMS may end the process (module Pipeline).
StopInFormat ==
  /\ process = "running" /\ decom = "formatting"
  /\ process' \in {"exited", "terminated"}
  /\ UNCHANGED <<closing, widgets, choice, threads, history>>

DecomStep ==
  ListenItem \/ ListenEnd \/ ReportSize \/ ReportRows \/ SetFinished \/ StopInFormat

-----------------------------------------------------------------------------
(***************************************************************************)
(* The end: finishedPopup, the exit button, or the window is closed.       *)
(***************************************************************************)
OnFinished ==
  /\ process = "running" /\ ~closing /\ dialog = "none"
  /\ finishedSignal = "posted"
  /\ finishedSignal' = "delivered"
  /\ dialog' = "finishedPopup"
  /\ UNCHANGED <<process, closing, popup, endianSwap, allAPIDsBox, ticked, exitButton,
                 choice, reader, next, m_queue, decom, decoded, m_progress, history>>

\* Wrong: the main window is offered again.
CloseProgress ==
  /\ process = "running" /\ dialog = "finishedPopup"
  /\ dialog' = "none"
  /\ popup' = "none"
  /\ UNCHANGED <<process, closing, endianSwap, allAPIDsBox, ticked, exitButton, choice,
                 threads, history>>

\* onAccepted shows the exit button, a rejected dialog does not.
AnswerFinishedPopup ==
  /\ process = "running" /\ dialog = "finishedPopup"
  /\ dialog' = "none"
  /\ exitButton' \in {TRUE, exitButton}
  /\ UNCHANGED <<process, closing, popup, endianSwap, allAPIDsBox, ticked, choice,
                 threads, history>>

\* Qt.quit, and the closing of the only window: the event loop ends, but not
\* before runDecom has returned.
Quit ==
  /\ IF reader \in {"reading", "closing"} THEN closing' = TRUE /\ UNCHANGED process
     ELSE process' \in Outcomes /\ UNCHANGED closing
  /\ UNCHANGED <<widgets, choice, threads, history>>

ClickExit == Clickable("progress") /\ exitButton /\ Quit

\* A dialog blocks the window below it, a popup does not.
CloseWindow == process = "running" /\ ~closing /\ dialog = "none" /\ Quit

Ended == process # "running" /\ UNCHANGED vars

UserStep ==
  \/ ToggleEndian
  \/ (\E format \in {"H5", "PDS"} : SelectFolder(format)) \/ AnswerFileDialog
  \/ RunWithoutFolder \/ ListFiles \/ StopInGetFiles
  \/ ToggleAllAPIDs \/ ExecuteAPIDs
  \/ (\E g \in Groups : ClickGroup(g) \/ ScrollAway(g))
  \/ BeginRun \/ NothingToRun \/ StopInRunDecom
  \/ AnswerFinishedPopup \/ ClickExit \/ CloseWindow

Next == UserStep \/ ReaderStep \/ DecomStep \/ OnFinished \/ Ended

\* The threads go on and events are delivered.  Nothing is assumed of the user.
Fairness == WF_vars(ReaderStep) /\ WF_vars(DecomStep) /\ WF_vars(OnFinished)

Spec == Init /\ [][Next]_vars /\ Fairness

-----------------------------------------------------------------------------
(***************************************************************************)
(* Properties.                                                             *)
(***************************************************************************)

\* m_queue is a member of the decoder, is never made active again, and its
\* inactivity dismisses the listener: so there is one run in the life of the
\* process, on a new queue.  Nothing in BackEnd says so; the popups see to it,
\* though runDecom processes events.
OneRunOnly == [][runs' # runs => runs = 0 /\ m_queue = NewChannel]_vars

\* The reader iterates over m_files, and looks into m_packetFiles by reference,
\* while events are processed: no event may change them.
ListsStayWhileReading ==
  [][reader = "reading" => UNCHANGED <<m_files, m_packetFiles, m_format>>]_vars

\* What reaches the Decom thread is what the user ticked, by the last click on
\* each group, whatever was scrolled away and ticked again: every such group of
\* every file of the folder, once, and in the order of time for HDF5 files.
ReadsWhatWasTicked ==
  LET items == decoded \o m_queue.q
  IN  ~m_queue.m_active =>
        /\ Range(items) =
             {p \in FilesInFolder \X Groups : p[2] \in Range(p[1].groups) /\ lastClick[p[2]]}
        /\ \A i, j \in DOMAIN items :
             i < j => items[i] # items[j] /\ (IsH5 => items[i][1].time <= items[j][1].time)

\* Switch, check box and ticks and the fields of BackEnd are changed on two
\* sides, by toggling: a run uses what is shown when it begins, and every group
\* that is shown ticked is among its groups.
RunsAsShown ==
  runs > 0 =>
    /\ usedFor = [allAPIDs |-> allAPIDsBox, bigEndian |-> endianSwap.checked]
    /\ \A g \in Groups : ticked[g] => IsSelected(g)

\* The end of the run is shown, and the exit button offered, only when the
\* Decom thread is through: to leave by that button destroys nothing in use.
FinishedMeansDone ==
  dialog = "finishedPopup" \/ exitButton =>
    decom = "finished" /\ reader = "returned" /\ Drained(m_queue)

\* "Execute" with groups to choose from is answered by the dialog about the end,
\* or the process ends: the popup progress, which has no button until then, is a
\* dead end only when there was nothing to be run, or the dialog was rejected.
ExecuteIsAnswered ==
  popup = "progress" /\ m_ofiles # {} ~> finishedSignal = "delivered" \/ process # "running"

\* m_progress is assigned by both threads.  Whatever their order, the reader's
\* texts are gone at the end: the popup does not say "Waiting" or a number of
\* items when there is nothing to be waited for.
LastTextIsOfTheEnd ==
  finishedSignal # "none" => m_progress \in {ItemsLeft(0), Text("Write ATMS")}

\* A folder may hold files of several satellites: the run uses the database of
\* the earliest file, in whatever order the directory was read.  (Of files of
\* the same time, any may be the first.)
DatabaseOfEarliestFile ==
  runs > 0 /\ IsH5 =>
    \E f \in FilesInFolder :
      /\ m_type = CheckType(f)
      /\ \A g \in FilesInFolder : f.time <= g.time
=============================================================================
