------------------------------- MODULE GuiProofs -------------------------------
(***************************************************************************)
(* What the popups and the order of the signals guarantee, for all folders *)
(* and groups: one run in the life of the process, lists that stay as they *)
(* are under the reader, an end that is not shown too early, and the right *)
(* database.                                                               *)
(***************************************************************************)
EXTENDS Gui, SequenceLemmas, TLAPS

\* No popup is left for one that comes before it, and only the last one is open
\* during a run.
Popups ==
  /\ popup \in {"none", "apidSelect", "runSelectWindow"} => reader = "idle" /\ runs = 0
  /\ dialog = "fileDialog" => popup = "none"

\* The queue is new until the run begins, is closed by the reader only, and is
\* drained once listen has returned 0.
Threads ==
  /\ decom = "none" <=> reader = "idle"
  /\ reader = "idle" => m_queue = NewChannel
  /\ reader # "returned" => m_queue.m_active
  /\ decom \in {"dismissed", "formatting", "finished"} => Drained(m_queue)

\* Nothing is shown of the end before the Decom thread has reported it, and from
\* its last call of listen on it is alone with m_progress.
EndTexts == {ItemsLeft(0), Text("Write ATMS")}
Reports ==
  /\ finishedSignal # "none" => decom = "finished"
  /\ dialog = "finishedPopup" \/ exitButton => finishedSignal # "none"
  /\ decom \in {"formatting", "finished"} => m_progress \in EndTexts

\* A list of groups comes with the type of the earliest file, and nobody can
\* choose another folder or format then.
TypeOfEarliest ==
  \E f \in FilesInFolder :
    /\ m_type = CheckType(f)
    /\ \A g \in FilesInFolder : f.time <= g.time
Listed ==
  /\ m_folderName \in Folders \cup {NoFolder}
  /\ popup = "none" => m_ofiles = {}
  /\ runs > 0 => m_ofiles # {}
  /\ m_ofiles # {} /\ IsH5 => TypeOfEarliest

IInv == Popups /\ Threads /\ Reports /\ Listed

-----------------------------------------------------------------------------
\* A listing has every file of the folder: one that does not repeat itself and
\* is as long as the set is large leaves nothing out.
LEMMA ListingIsOnto ==
  ASSUME NEW S, IsFiniteSet(S), NEW s \in SetToSeqs(S), NEW e \in S
  PROVE  \E i \in 1 .. Cardinality(S) : s[i] = e
<1> DEFINE n == Cardinality(S)
<1>1. n \in Nat /\ s \in [1 .. n -> S] /\ \A i, j \in 1 .. n : i # j => s[i] # s[j]
  BY FS_CardinalityType DEF SetToSeqs
<1>2. IsFiniteSet(1 .. n) /\ Cardinality(1 .. n) = n
  BY <1>1, FS_Interval
<1>3. IsFiniteSet(S \ {e}) /\ Cardinality(S \ {e}) = n - 1
  BY FS_RemoveElement
<1> SUFFICES ASSUME \A i \in 1 .. n : s[i] # e PROVE FALSE
  OBVIOUS
<1>4. s \in [1 .. n -> S \ {e}]
  BY <1>1
<1>5. Cardinality(S \ {e}) < Cardinality(1 .. n)
  BY <1>1, <1>2, <1>3
<1>6. \E i, j \in 1 .. n : i # j /\ s[i] = s[j]
  <2> DEFINE D == 1 .. n
             T == S \ {e}
  <2>1. /\ IsFiniteSet(D) /\ IsFiniteSet(T) /\ Cardinality(T) < Cardinality(D)
        /\ s \in [D -> T]
    BY <1>2, <1>3, <1>4, <1>5
  <2> HIDE DEF D, T
  <2>2. \E i, j \in D : i # j /\ s[i] = s[j]
    BY <2>1, FS_PigeonHole
  <2> QED
    BY <2>2 DEF D
<1> QED
  BY <1>1, <1>6

\* The first of the sorted HDF5 files is one of the earliest.
LEMMA FirstIsEarliest ==
  ASSUME m_folderName \in Folders, FilesInFolder # {}, IsH5, NEW s \in Listings
  PROVE  /\ Head(s) \in FilesInFolder
         /\ \A g \in FilesInFolder : Head(s).time <= g.time
<1>1. /\ IsFiniteSet(FilesInFolder)
      /\ \A f \in FilesInFolder : f.time \in Nat
  BY GuiAssumption DEF FilesInFolder, Files
<1> DEFINE n == Cardinality(FilesInFolder)
<1>2. /\ s \in SetToSeqs(FilesInFolder)
      /\ \A i, j \in DOMAIN s : i < j => s[i].time <= s[j].time
  BY DEF Listings
<1>3. n \in Nat /\ s \in [1 .. n -> FilesInFolder]
  BY <1>1, <1>2, FS_CardinalityType DEF SetToSeqs
<1>4. n # 0
  BY <1>1, FS_EmptySet
<1>5. Head(s) = s[1] /\ 1 \in 1 .. n
  <2>1. s \in Seq(FilesInFolder) /\ s # <<>>
    BY <1>3, <1>4
  <2> QED
    BY <1>3, <1>4, <2>1
<1>6. ASSUME NEW g \in FilesInFolder PROVE s[1].time <= g.time
  <2>1. PICK i \in 1 .. n : s[i] = g
    BY <1>1, <1>2, ListingIsOnto
  <2>2. CASE i = 1
    BY <1>1, <2>1, <2>2
  <2>3. CASE i # 1
    <3>1. 1 < i /\ 1 \in DOMAIN s /\ i \in DOMAIN s
      BY <1>3, <1>5, <2>3
    <3> QED
      BY <1>2, <2>1, <3>1
  <2> QED
    BY <2>2, <2>3
<1> QED
  BY <1>3, <1>5, <1>6

-----------------------------------------------------------------------------
\* What an action leaves alone, opened up.
LEMMA StepLeavesListing ==
  ASSUME Listed, UNCHANGED <<m_folderName, m_format, listing, popup>>, runs' = runs
  PROVE  Listed'
BY DEF Listed, TypeOfEarliest, FilesInFolder, IsH5, listing

\* The strengthening that the theorems below rest on is inductive.
THEOREM Invariant == Spec => []IInv
<1> USE DEF widgets, listing, settings, choice, threads, history
<1>1. Init => IInv
  <2> SUFFICES ASSUME Init PROVE IInv
    OBVIOUS
  <2>1. m_queue.m_active
    BY DEF Init, NewChannel
  <2>2. Threads
    BY <2>1 DEF Init, Threads
  <2>3. Popups
    BY DEF Init, Popups
  <2>4. Reports
    BY DEF Init, Reports
  <2>5. Listed
    <3>1. m_ofiles = {} /\ runs = 0 /\ m_folderName = NoFolder
      BY DEF Init
    <3> QED
      BY <3>1 DEF Listed
  <2> QED
    BY <2>2, <2>3, <2>4, <2>5 DEF IInv
<1>2. IInv /\ [Next]_vars => IInv'
  <2> SUFFICES ASSUME IInv, [Next]_vars PROVE IInv'
    OBVIOUS
  <2> USE DEF IInv, Clickable
  <2>1. CASE ToggleEndian \/ ToggleAllAPIDs
    BY <2>1, StepLeavesListing
    DEF ToggleEndian, ToggleAllAPIDs, Popups, Threads, Reports
  <2>2. ASSUME NEW f \in {"H5", "PDS"}, SelectFolder(f) PROVE IInv'
    BY <2>2 DEF SelectFolder, Popups, Threads, Reports, Listed
  <2>3. CASE AnswerFileDialog
    BY <2>3 DEF AnswerFileDialog, Popups, Threads, Reports, Listed
  <2>4. CASE RunWithoutFolder
    BY <2>4 DEF RunWithoutFolder, Popups, Threads, Reports, Listed
  <2>5. CASE ListFiles
    <3>1. Popups' /\ Threads' /\ Reports'
      BY <2>5 DEF ListFiles, Popups, Threads, Reports
    <3>2. IsH5 => TypeOfEarliest'
      <4> SUFFICES ASSUME IsH5 PROVE TypeOfEarliest'
        OBVIOUS
      <4>1. m_files' \in Listings /\ m_type' = CheckType(Head(m_files'))
        BY <2>5 DEF ListFiles
      <4>2. /\ Head(m_files') \in FilesInFolder
            /\ \A g \in FilesInFolder : Head(m_files').time <= g.time
        BY <2>5, <4>1, FirstIsEarliest DEF ListFiles, Listed
      <4>3. FilesInFolder' = FilesInFolder
        BY <2>5 DEF ListFiles, FilesInFolder, IsH5
      <4> QED
        BY <4>1, <4>2, <4>3 DEF TypeOfEarliest, CheckType
    <3>3. Listed'
      BY <2>5, <3>2 DEF ListFiles, Listed, IsH5, Popups
    <3> QED
      BY <3>1, <3>3
  <2>6. CASE StopInGetFiles \/ StopInRunDecom \/ StopInFormat
    BY <2>6, StepLeavesListing
    DEF StopInGetFiles, StopInRunDecom, StopInFormat, Popups, Threads, Reports
  <2>7. CASE ExecuteAPIDs \/ NothingToRun
    BY <2>7
    DEF ExecuteAPIDs, NothingToRun, Popups, Threads, Reports, Listed, IsH5,
        TypeOfEarliest, FilesInFolder
  <2>8. ASSUME NEW g \in Groups, ClickGroup(g) \/ ScrollAway(g) PROVE IInv'
    BY <2>8, StepLeavesListing
    DEF ClickGroup, ScrollAway, Popups, Threads, Reports
  <2>9. CASE BeginRun
    BY <2>9
    DEF BeginRun, Popups, Threads, Reports, Listed, IsH5, TypeOfEarliest, FilesInFolder,
        NewChannel
  <2>10. CASE ReadFile \/ TerminateOnDataset \/ AnnounceWaiting
    <3>1. reader = "reading"
      BY <2>10 DEF ReadFile, TerminateOnDataset, AnnounceWaiting, Reading
    <3>2. decom \notin {"dismissed", "formatting", "finished"}
      BY <3>1 DEF Threads, Drained
    <3>3. m_queue'.m_active = m_queue.m_active
      <4>1. CASE ReadFile
        BY <4>1 DEF ReadFile, PushedAll
      <4>2. CASE TerminateOnDataset \/ AnnounceWaiting
        BY <4>2 DEF TerminateOnDataset, AnnounceWaiting
      <4> QED
        BY <2>10, <4>1, <4>2
    <3>4. Listed'
      BY <2>10, StepLeavesListing DEF ReadFile, TerminateOnDataset, AnnounceWaiting
    <3>5. reader' \in {"reading", "closing"} /\ decom' = decom
      BY <2>10, <3>1 DEF ReadFile, TerminateOnDataset, AnnounceWaiting
    <3>6. Threads'
      BY <3>1, <3>2, <3>3, <3>5 DEF Threads
    <3>7. Popups'
      BY <2>10, <3>1 DEF ReadFile, TerminateOnDataset, AnnounceWaiting, Popups
    <3>8. Reports'
      <4>1. UNCHANGED <<finishedSignal, dialog, exitButton, decom>>
        BY <2>10 DEF ReadFile, TerminateOnDataset, AnnounceWaiting
      <4> QED
        BY <3>2, <4>1 DEF Reports
    <3> QED
      BY <3>4, <3>6, <3>7, <3>8
  <2>11. CASE CloseQueue
    <3>1. reader = "closing" /\ reader' = "returned"
      BY <2>11 DEF CloseQueue, Closing, Return
    <3>2. decom \notin {"dismissed", "formatting", "finished"}
      BY <3>1 DEF Threads, Drained
    <3> QED
      BY <2>11, <3>1, <3>2, StepLeavesListing
      DEF CloseQueue, Return, Popups, Threads, Reports
  <2>12. CASE ListenItem \/ ListenEnd
    BY <2>12, StepLeavesListing
    DEF ListenItem, ListenEnd, Popped, HasItem, Popups, Threads, Reports
  <2>13. CASE ReportSize
    <3>1. decom = "dismissed" => Sizes = {0}
      BY DEF Threads, Drained, Sizes
    <3>2. decom = "dismissed" => m_progress' = ItemsLeft(0)
      BY <2>13, <3>1 DEF ReportSize
    <3>3. Popups' /\ Threads' /\ Listed'
      BY <2>13, StepLeavesListing DEF ReportSize, Popups, Threads, Drained
    <3>4. Reports'
      BY <2>13, <3>2 DEF ReportSize, Reports, EndTexts
    <3> QED
      BY <3>3, <3>4
  <2>14. CASE ReportRows \/ SetFinished
    <3>1. Listed' /\ Popups' /\ Threads'
      BY <2>14, StepLeavesListing DEF ReportRows, SetFinished, Popups, Threads, Drained
    <3>2. Reports'
      <4>1. UNCHANGED <<dialog, exitButton>> /\ decom = "formatting"
        BY <2>14 DEF ReportRows, SetFinished
      <4>2. finishedSignal' # "none" => decom' = "finished"
        BY <2>14 DEF ReportRows, SetFinished, Reports
      <4>3. m_progress' \in EndTexts
        BY <2>14, <4>1 DEF ReportRows, SetFinished, Reports, EndTexts
      <4>4. finishedSignal = "none"
        BY <4>1 DEF Reports
      <4> QED
        BY <4>1, <4>2, <4>3, <4>4 DEF Reports
    <3> QED
      BY <3>1, <3>2
  <2>15. CASE OnFinished \/ AnswerFinishedPopup
    BY <2>15, StepLeavesListing
    DEF OnFinished, AnswerFinishedPopup, Popups, Threads, Reports
  <2>16. CASE ClickExit \/ CloseWindow
    BY <2>16, StepLeavesListing
    DEF ClickExit, CloseWindow, Quit, Popups, Threads, Reports
  <2>17. CASE Ended \/ UNCHANGED vars
    BY <2>17, StepLeavesListing DEF Ended, vars, Popups, Threads, Reports
  <2> QED
    BY <2>1, <2>2, <2>3, <2>4, <2>5, <2>6, <2>7, <2>8, <2>9, <2>10, <2>11, <2>12,
       <2>13, <2>14, <2>15, <2>16, <2>17
    DEF Next, UserStep, ReaderStep, DecomStep
<1> QED
  BY <1>1, <1>2, PTL DEF Spec

-----------------------------------------------------------------------------
\* The exit button is offered, and the dialog shown, only when the Decom thread
\* is through and the queue is closed and empty.
THEOREM EndIsNotShownEarly == Spec => []FinishedMeansDone
<1>1. IInv => FinishedMeansDone
  <2> SUFFICES ASSUME IInv, dialog = "finishedPopup" \/ exitButton
               PROVE  decom = "finished" /\ reader = "returned" /\ Drained(m_queue)
    BY DEF FinishedMeansDone
  <2>1. decom = "finished" /\ Drained(m_queue)
    BY DEF IInv, Reports, Threads
  <2>2. reader = "returned"
    BY <2>1 DEF IInv, Threads, Drained
  <2> QED
    BY <2>1, <2>2
<1> QED
  BY <1>1, Invariant, PTL

\* The popup does not end with a text that is out of date.
THEOREM TextIsOfTheEnd == Spec => []LastTextIsOfTheEnd
<1>1. IInv => LastTextIsOfTheEnd
  BY DEF IInv, Reports, EndTexts, LastTextIsOfTheEnd
<1> QED
  BY <1>1, Invariant, PTL

\* The database is that of the earliest file, for every folder.
THEOREM DatabaseIsOfEarliest == Spec => []DatabaseOfEarliestFile
<1>1. IInv => DatabaseOfEarliestFile
  BY DEF IInv, Listed, TypeOfEarliest, DatabaseOfEarliestFile
<1> QED
  BY <1>1, Invariant, PTL

-----------------------------------------------------------------------------
\* What can happen while init is on the stack changes no list it iterates over.
LEMMA StepsWhileReading ==
  ASSUME IInv, Next, reader = "reading"
  PROVE  UNCHANGED <<m_files, m_packetFiles, m_format>>
<1> USE DEF listing, settings, choice, threads, history, widgets
<1>1. popup = "progress" \/ popup \notin {"none", "apidSelect", "runSelectWindow"}
  BY DEF IInv, Popups
<1>2. CASE UserStep
  BY <1>1, <1>2
  DEF UserStep, Clickable, ToggleEndian, SelectFolder, AnswerFileDialog, RunWithoutFolder,
      ListFiles, StopInGetFiles, ToggleAllAPIDs, ExecuteAPIDs, ClickGroup, ScrollAway,
      BeginRun, NothingToRun, StopInRunDecom, AnswerFinishedPopup, ClickExit,
      CloseWindow, Quit
<1>3. CASE ReaderStep
  BY <1>3 DEF ReaderStep, ReadFile, TerminateOnDataset, AnnounceWaiting, CloseQueue, Return
<1>4. CASE DecomStep
  BY <1>4
  DEF DecomStep, ListenItem, ListenEnd, ReportSize, ReportRows, SetFinished, StopInFormat
<1>5. CASE OnFinished \/ Ended
  BY <1>5 DEF OnFinished, Ended, vars
<1> QED
  BY <1>2, <1>3, <1>4, <1>5 DEF Next

\* No event that setProgress lets in changes a list under the reader.
THEOREM ListsStay == Spec => ListsStayWhileReading
<1>1. /\ IInv /\ [Next]_vars
      => [reader = "reading" => UNCHANGED <<m_files, m_packetFiles, m_format>>]_vars
  BY StepsWhileReading
<1> QED
  BY <1>1, Invariant, PTL DEF Spec, ListsStayWhileReading

\* A run begins at most once, with a queue that was never used.
LEMMA StepsOfRuns ==
  ASSUME IInv, Next, runs' # runs
  PROVE  runs = 0 /\ m_queue = NewChannel
<1> USE DEF history, threads
<1>1. CASE UserStep
  <2>1. BeginRun
    BY <1>1
    DEF UserStep, ToggleEndian, SelectFolder, AnswerFileDialog, RunWithoutFolder,
        ListFiles, StopInGetFiles, ToggleAllAPIDs, ExecuteAPIDs, ClickGroup, ScrollAway,
        NothingToRun, StopInRunDecom, AnswerFinishedPopup, ClickExit, CloseWindow, Quit
  <2> QED
    BY <2>1 DEF BeginRun, Clickable, IInv, Popups, Threads
<1>2. CASE ReaderStep
  BY <1>2 DEF ReaderStep, ReadFile, TerminateOnDataset, AnnounceWaiting, CloseQueue, Return
<1>3. CASE DecomStep
  BY <1>3
  DEF DecomStep, ListenItem, ListenEnd, ReportSize, ReportRows, SetFinished, StopInFormat
<1>4. CASE OnFinished \/ Ended
  BY <1>4 DEF OnFinished, Ended, vars
<1> QED
  BY <1>1, <1>2, <1>3, <1>4 DEF Next

\* The queue of the decoder serves one run, whatever the user does.
THEOREM RunsOnce == Spec => OneRunOnly
<1>1. /\ IInv /\ [Next]_vars
      => [runs' # runs => runs = 0 /\ m_queue = NewChannel]_vars
  BY StepsOfRuns
<1> QED
  BY <1>1, Invariant, PTL DEF Spec, OneRunOnly

-----------------------------------------------------------------------------
(***************************************************************************)
(* Runs use what is shown.  Each setting is kept twice, in a widget and in *)
(* BackEnd, and a group even three times: the check box forgets it when it *)
(* is scrolled away, but m_packetFiles holds, once or several times, what  *)
(* was ticked by the last click.                                           *)
(***************************************************************************)
ShownTypes ==
  /\ endianSwap \in [checked : BOOLEAN, visible : BOOLEAN]
  /\ allAPIDsBox \in BOOLEAN
  /\ m_packetFiles \in Seq(Groups)
  /\ ticked \in [Groups -> BOOLEAN]
  /\ lastClick \in [Groups -> BOOLEAN]
  /\ runs \in Nat

SwitchesAgree ==
  /\ m_bigEndian = endianSwap.checked
  /\ m_allAPIDs = allAPIDsBox
  /\ runs > 0 => usedFor = [allAPIDs |-> m_allAPIDs, bigEndian |-> m_bigEndian]

TicksAgree ==
  \A g \in Groups : (IsSelected(g) <=> lastClick[g]) /\ (ticked[g] => lastClick[g])

Shown == ShownTypes /\ SwitchesAgree /\ TicksAgree

\* What the loop copies is what is at the places it copies.
LEMMA KeptRange ==
  ASSUME NEW S, NEW s \in Seq(S), NEW I \in SUBSET (1 .. Len(s))
  PROVE  Range(Kept(s, I)) = {s[i] : i \in I}
<1> DEFINE k == Kept(s, I)
<1>1. k \in Seq(S)
  BY KeptPlaces
<1>2. PICK at \in [1 .. Len(k) -> I] :
        /\ \A i \in 1 .. Len(k) : k[i] = s[at[i]]
        /\ \A p \in I : \E i \in 1 .. Len(k) : at[i] = p
  BY KeptPlaces
<1> HIDE DEF k
<1>3. DOMAIN k = 1 .. Len(k)
  BY <1>1
<1>4. \A i \in 1 .. Len(k) : at[i] \in I /\ k[i] = s[at[i]]
  BY <1>2
<1>5. \A i \in 1 .. Len(k) : k[i] \in {s[j] : j \in I}
  BY <1>4, Zenon
<1>6. \A p \in I : s[p] \in {k[i] : i \in 1 .. Len(k)}
  <2> SUFFICES ASSUME NEW p \in I PROVE s[p] \in {k[i] : i \in 1 .. Len(k)}
    OBVIOUS
  <2>1. PICK i \in 1 .. Len(k) : at[i] = p
    BY <1>2
  <2>2. k[i] = s[p]
    BY <1>4, <2>1
  <2> QED
    BY <2>2, Zenon
<1>7. {k[i] : i \in 1 .. Len(k)} = {s[i] : i \in I}
  BY <1>5, <1>6, Zenon
<1> QED
  BY <1>3, <1>7, Zenon DEF Range, k

\* What is in one of two sequences is in their concatenation.
LEMMA RangeOfConcat ==
  ASSUME NEW S, NEW s \in Seq(S), NEW t \in Seq(S)
  PROVE  Range(s \o t) = Range(s) \cup Range(t)
<1>1. /\ s \o t \in Seq(S) /\ Len(s \o t) = Len(s) + Len(t)
      /\ Len(s) \in Nat /\ Len(t) \in Nat
      /\ \A i \in 1 .. Len(s) : (s \o t)[i] = s[i]
      /\ \A i \in 1 .. Len(t) : (s \o t)[Len(s) + i] = t[i]
  OBVIOUS
<1>2. /\ DOMAIN (s \o t) = 1 .. Len(s) + Len(t)
      /\ DOMAIN s = 1 .. Len(s) /\ DOMAIN t = 1 .. Len(t)
  BY <1>1
<1>3. ASSUME NEW i \in 1 .. Len(s) + Len(t)
      PROVE  (s \o t)[i] \in Range(s) \cup Range(t)
  <2>1. CASE i <= Len(s)
    <3>1. i \in 1 .. Len(s)
      BY <1>1, <2>1
    <3> QED
      BY <1>1, <1>2, <3>1 DEF Range
  <2>2. CASE ~(i <= Len(s))
    <3>1. i - Len(s) \in 1 .. Len(t) /\ Len(s) + (i - Len(s)) = i
      BY <1>1, <2>2
    <3>2. (s \o t)[i] = t[i - Len(s)]
      BY <1>1, <3>1
    <3> QED
      BY <1>2, <3>1, <3>2 DEF Range
  <2> QED
    BY <2>1, <2>2
<1>4. ASSUME NEW i \in 1 .. Len(s) PROVE s[i] \in Range(s \o t)
  <2>1. i \in 1 .. Len(s) + Len(t) /\ (s \o t)[i] = s[i]
    BY <1>1
  <2> QED
    BY <1>2, <2>1 DEF Range
<1>5. ASSUME NEW i \in 1 .. Len(t) PROVE t[i] \in Range(s \o t)
  <2>1. Len(s) + i \in 1 .. Len(s) + Len(t) /\ (s \o t)[Len(s) + i] = t[i]
    BY <1>1
  <2> QED
    BY <1>2, <2>1 DEF Range
<1> QED
  BY <1>2, <1>3, <1>4, <1>5 DEF Range

\* A list of groups gets one more, at its end.
LEMMA RangeOfAppend ==
  ASSUME NEW S, NEW s \in Seq(S), NEW e \in S
  PROVE  Range(Append(s, e)) = Range(s) \cup {e}
<1>1. <<e>> \in Seq(S) /\ Append(s, e) = s \o <<e>>
  BY AppendIsConcat
<1>2. PICK t : t = <<e>>
  OBVIOUS
<1>3. t \in Seq(S) /\ Append(s, e) = s \o t
  BY <1>1, <1>2, Zenon
<1>4. DOMAIN t = {1} /\ t[1] = e
  BY <1>2
<1>5. Range(t) = {e}
  <2>1. Range(t) = {t[i] : i \in {1}}
    BY <1>4, Zenon DEF Range
  <2> QED
    BY <1>4, <2>1
<1>6. Range(s \o t) = Range(s) \cup Range(t)
  BY <1>3, RangeOfConcat
<1> QED
  BY <1>3, <1>5, <1>6, Zenon

\* A click on a group adds it to m_packetFiles or takes all of it out.
LEMMA ClickShown ==
  ASSUME Shown, NEW g \in Groups, ClickGroup(g)
  PROVE  ShownTypes' /\ TicksAgree'
<1> USE DEF Shown, ShownTypes
<1> DEFINE I == {i \in DOMAIN m_packetFiles : m_packetFiles[i] # g}
<1>1. /\ ticked' = [ticked EXCEPT ![g] = ~@]
      /\ lastClick' = [lastClick EXCEPT ![g] = ~ticked[g]]
      /\ UNCHANGED <<endianSwap, allAPIDsBox, runs>>
      /\ IF ticked[g] THEN m_packetFiles' = Kept(m_packetFiles, I)
         ELSE m_packetFiles' = Append(m_packetFiles, g)
  BY DEF ClickGroup, RemovePacketFile, AddPacketFile
<1>2. I \in SUBSET (1 .. Len(m_packetFiles))
  OBVIOUS
<1>3. Range(m_packetFiles) = {m_packetFiles[i] : i \in DOMAIN m_packetFiles}
  BY DEF Range
<1>4. CASE ticked[g]
  <2>1. m_packetFiles' = Kept(m_packetFiles, I)
    BY <1>1, <1>4
  <2>2. {m_packetFiles[i] : i \in I} = Range(m_packetFiles) \ {g}
    BY <1>3
  <2> HIDE DEF I
  <2>3. m_packetFiles' \in Seq(Groups) /\ Range(m_packetFiles') = {m_packetFiles[i] : i \in I}
    BY <1>2, <2>1, KeptRange, KeptPlaces
  <2>4. \A h \in Groups : IsSelected(h)' <=> IsSelected(h) /\ h # g
    BY <2>2, <2>3 DEF IsSelected
  <2>5. /\ ticked' \in [Groups -> BOOLEAN] /\ lastClick' \in [Groups -> BOOLEAN]
        /\ ~ticked'[g] /\ ~lastClick'[g]
        /\ \A h \in Groups : h # g => ticked'[h] = ticked[h] /\ lastClick'[h] = lastClick[h]
    BY <1>1, <1>4
  <2> QED
    BY <1>1, <2>3, <2>4, <2>5 DEF TicksAgree
<1>5. CASE ~ticked[g]
  <2>1. m_packetFiles' = Append(m_packetFiles, g)
    BY <1>1, <1>5
  <2>2. m_packetFiles' \in Seq(Groups) /\ Range(m_packetFiles') = Range(m_packetFiles) \cup {g}
    BY <2>1, RangeOfAppend
  <2>3. \A h \in Groups : IsSelected(h)' <=> IsSelected(h) \/ h = g
    BY <2>2 DEF IsSelected
  <2>4. /\ ticked' \in [Groups -> BOOLEAN] /\ lastClick' \in [Groups -> BOOLEAN]
        /\ ticked'[g] /\ lastClick'[g]
        /\ \A h \in Groups : h # g => ticked'[h] = ticked[h] /\ lastClick'[h] = lastClick[h]
    BY <1>1, <1>5
  <2> QED
    BY <1>1, <2>2, <2>3, <2>4 DEF TicksAgree
<1> QED
  BY <1>4, <1>5

\* As long as nothing of it changes, it agrees.
LEMMA ShownStays ==
  ASSUME Shown,
         UNCHANGED <<endianSwap, allAPIDsBox, ticked, m_packetFiles, m_allAPIDs,
                     m_bigEndian, runs, usedFor, lastClick>>
  PROVE  Shown'
<1>1. \A g : IsSelected(g)' <=> IsSelected(g)
  BY DEF IsSelected
<1> QED
  BY <1>1 DEF Shown, ShownTypes, SwitchesAgree, TicksAgree

\* What the user does is done on both sides.
LEMMA ShownKept ==
  ASSUME IInv, Shown, Next
  PROVE  Shown'
<1> USE DEF widgets, listing, settings, choice, threads, history
<1>1. CASE ToggleEndian
  <2>1. /\ endianSwap' = [endianSwap EXCEPT !.checked = ~@] /\ m_bigEndian' = ~m_bigEndian
        /\ runs = 0 /\ UNCHANGED <<allAPIDsBox, ticked, m_packetFiles, m_allAPIDs, runs,
                                   usedFor, lastClick>>
    BY <1>1 DEF ToggleEndian, Clickable, IInv, Popups
  <2>2. /\ endianSwap' \in [checked : BOOLEAN, visible : BOOLEAN]
        /\ endianSwap'.checked = ~endianSwap.checked
    BY <2>1 DEF Shown, ShownTypes
  <2>3. \A g : IsSelected(g)' <=> IsSelected(g)
    BY <2>1 DEF IsSelected
  <2>4. m_bigEndian' = endianSwap'.checked
    BY <2>1, <2>2 DEF Shown, SwitchesAgree
  <2>5. ShownTypes' /\ TicksAgree'
    BY <2>1, <2>2, <2>3 DEF Shown, ShownTypes, TicksAgree
  <2>6. SwitchesAgree'
    BY <2>1, <2>4 DEF Shown, SwitchesAgree
  <2> QED
    BY <2>5, <2>6 DEF Shown
<1>2. CASE ToggleAllAPIDs
  <2>1. /\ allAPIDsBox' = ~allAPIDsBox /\ m_allAPIDs' = ~m_allAPIDs
        /\ runs = 0 /\ UNCHANGED <<endianSwap, ticked, m_packetFiles, m_bigEndian, runs,
                                   usedFor, lastClick>>
    BY <1>2 DEF ToggleAllAPIDs, Clickable, IInv, Popups
  <2>2. \A g : IsSelected(g)' <=> IsSelected(g)
    BY <2>1 DEF IsSelected
  <2>3. ShownTypes' /\ TicksAgree'
    BY <2>1, <2>2 DEF Shown, ShownTypes, TicksAgree
  <2>4. SwitchesAgree'
    BY <2>1 DEF Shown, SwitchesAgree
  <2> QED
    BY <2>3, <2>4 DEF Shown
<1>3. CASE RunWithoutFolder \/ ListFiles
  <2>1. /\ endianSwap' = [endianSwap EXCEPT !.visible = FALSE]
        /\ ticked' = ticked \/ ticked' = [g \in Groups |-> FALSE]
        /\ UNCHANGED <<allAPIDsBox, m_packetFiles, m_allAPIDs, m_bigEndian, runs,
                       usedFor, lastClick>>
    BY <1>3 DEF RunWithoutFolder, ListFiles
  <2>2. /\ endianSwap' \in [checked : BOOLEAN, visible : BOOLEAN]
        /\ endianSwap'.checked = endianSwap.checked
    BY <2>1 DEF Shown, ShownTypes
  <2>3. \A g : IsSelected(g)' <=> IsSelected(g)
    BY <2>1 DEF IsSelected
  <2>4. /\ ticked' \in [Groups -> BOOLEAN]
        /\ \A g \in Groups : ticked'[g] => ticked[g]
    BY <2>1 DEF Shown, ShownTypes
  <2>5. ShownTypes' /\ TicksAgree'
    BY <2>1, <2>2, <2>3, <2>4 DEF Shown, ShownTypes, TicksAgree
  <2>6. SwitchesAgree'
    BY <2>1, <2>2 DEF Shown, SwitchesAgree
  <2> QED
    BY <2>5, <2>6 DEF Shown
<1>4. ASSUME NEW g \in Groups, ClickGroup(g) PROVE Shown'
  <2>1. UNCHANGED <<endianSwap, allAPIDsBox, m_allAPIDs, m_bigEndian, runs, usedFor>>
    BY <1>4 DEF ClickGroup
  <2>2. SwitchesAgree'
    BY <2>1 DEF Shown, SwitchesAgree
  <2> QED
    BY <1>4, <2>2, ClickShown DEF Shown
<1>5. ASSUME NEW g \in Groups, ScrollAway(g) PROVE Shown'
  <2>1. /\ ticked' = [ticked EXCEPT ![g] = FALSE]
        /\ UNCHANGED <<endianSwap, allAPIDsBox, m_packetFiles, m_allAPIDs, m_bigEndian,
                       runs, usedFor, lastClick>>
    BY <1>5 DEF ScrollAway
  <2>2. /\ ticked' \in [Groups -> BOOLEAN]
        /\ \A h \in Groups : ticked'[h] => ticked[h]
    BY <2>1 DEF Shown, ShownTypes
  <2>3. \A h : IsSelected(h)' <=> IsSelected(h)
    BY <2>1 DEF IsSelected
  <2> QED
    BY <2>1, <2>2, <2>3 DEF Shown, ShownTypes, SwitchesAgree, TicksAgree
<1>6. CASE BeginRun
  <2>1. /\ runs' = runs + 1
        /\ usedFor' = [allAPIDs |-> m_allAPIDs, bigEndian |-> m_bigEndian]
        /\ UNCHANGED <<endianSwap, allAPIDsBox, ticked, m_packetFiles, m_allAPIDs,
                       m_bigEndian, lastClick>>
    BY <1>6 DEF BeginRun
  <2>2. \A g : IsSelected(g)' <=> IsSelected(g)
    BY <2>1 DEF IsSelected
  <2>3. runs' \in Nat
    BY <2>1 DEF Shown, ShownTypes
  <2>4. ShownTypes' /\ TicksAgree'
    BY <2>1, <2>2, <2>3 DEF Shown, ShownTypes, TicksAgree
  <2>5. SwitchesAgree'
    BY <2>1 DEF Shown, SwitchesAgree
  <2> QED
    BY <2>4, <2>5 DEF Shown
<1>7. CASE \/ (\E format \in {"H5", "PDS"} : SelectFolder(format))
           \/ AnswerFileDialog \/ StopInGetFiles \/ ExecuteAPIDs \/ NothingToRun
           \/ StopInRunDecom \/ AnswerFinishedPopup \/ ClickExit \/ CloseWindow
  BY <1>7, ShownStays
  DEF SelectFolder, AnswerFileDialog, StopInGetFiles, ExecuteAPIDs, NothingToRun,
      StopInRunDecom, AnswerFinishedPopup, ClickExit, CloseWindow, Quit
<1>8. CASE ReaderStep
  BY <1>8, ShownStays
  DEF ReaderStep, ReadFile, TerminateOnDataset, AnnounceWaiting, CloseQueue, Return
<1>9. CASE DecomStep
  BY <1>9, ShownStays
  DEF DecomStep, ListenItem, ListenEnd, ReportSize, ReportRows, SetFinished, StopInFormat
<1>10. CASE OnFinished \/ Ended
  BY <1>10, ShownStays DEF OnFinished, Ended, vars
<1> QED
  BY <1>1, <1>2, <1>3, <1>4, <1>5, <1>6, <1>7, <1>8, <1>9, <1>10 DEF Next, UserStep

\* It agrees throughout.
LEMMA ShownThroughout == Spec => [](IInv /\ Shown)
<1>1. Init => Shown
  <2> SUFFICES ASSUME Init PROVE Shown
    OBVIOUS
  <2>1. /\ endianSwap = [checked |-> TRUE, visible |-> TRUE] /\ allAPIDsBox = FALSE
        /\ m_bigEndian = TRUE /\ m_allAPIDs = FALSE /\ m_packetFiles = <<>> /\ runs = 0
        /\ ticked = [g \in Groups |-> FALSE] /\ lastClick = [g \in Groups |-> FALSE]
    BY DEF Init
  <2>2. \A g : ~IsSelected(g)
    <3>1. DOMAIN m_packetFiles = {}
      BY <2>1
    <3>2. Range(m_packetFiles) = {}
      BY <3>1, Zenon DEF Range
    <3> QED
      BY <3>2 DEF IsSelected
  <2>3. ShownTypes /\ SwitchesAgree
    <3>1. endianSwap \in [checked : BOOLEAN, visible : BOOLEAN] /\ endianSwap.checked
      BY <2>1
    <3>2. m_packetFiles \in Seq(Groups) /\ runs \in Nat /\ ~(runs > 0)
      BY <2>1
    <3>3. ticked \in [Groups -> BOOLEAN] /\ lastClick \in [Groups -> BOOLEAN]
      BY <2>1
    <3> QED
      BY <2>1, <3>1, <3>2, <3>3 DEF ShownTypes, SwitchesAgree
  <2>4. TicksAgree
    BY <2>1, <2>2 DEF TicksAgree
  <2> QED
    BY <2>3, <2>4 DEF Shown
<1>2. IInv /\ Shown /\ [Next]_vars => Shown'
  <2>1. Shown /\ UNCHANGED vars => Shown'
    BY ShownStays DEF vars, widgets, settings, choice, history
  <2> QED
    BY <2>1, ShownKept
<1> QED
  BY <1>1, <1>2, Invariant, PTL DEF Spec

\* A run uses the switch, the check box and the ticks as they are shown, however
\* often they were toggled, scrolled away and ticked again.
THEOREM RunsUseWhatIsShown == Spec => []RunsAsShown
<1>1. Shown => RunsAsShown
  BY DEF Shown, SwitchesAgree, TicksAgree, RunsAsShown
<1> QED
  BY <1>1, ShownThroughout, PTL

-----------------------------------------------------------------------------
(***************************************************************************)
(* The reader hands over what was ticked.  Between two files, what the     *)
(* Decom thread has taken and what is still in the queue are together the  *)
(* chosen groups of the files gone through, once each.                     *)
(***************************************************************************)
InFolder ==
  /\ reader # "idle" => m_ofiles # {}
  /\ m_ofiles # {} => m_folderName \in Folders /\ m_files \in Listings
  /\ reader # "idle" => next \in 1 .. Len(m_files) + 1
  /\ reader \in {"closing", "returned"} => next = Len(m_files) + 1

\* The chosen groups of the first n files.
ChosenUpTo(n) ==
  {p \in FilesInFolder \X Groups :
     (\E k \in 1 .. n : m_files[k] = p[1]) /\ p[2] \in Range(p[1].groups) /\ IsSelected(p[2])}

HandedOver == decoded \o m_queue.q

\* No item comes twice, and the times of HDF5 files do not go back.
OnceInOrder(items) ==
  \A i, j \in DOMAIN items :
    i < j => items[i] # items[j] /\ (IsH5 => items[i][1].time <= items[j][1].time)

Handing ==
  /\ decoded \in Seq(Items)
  /\ m_queue \in [q : Seq(Items), m_active : BOOLEAN]
  /\ reader = "idle" => decoded = <<>>
  /\ reader # "idle" => /\ Range(HandedOver) = ChosenUpTo(next - 1)
                        /\ OnceInOrder(HandedOver)

HInv == InFolder /\ Handing

\* What GuiAssumption says of a file of the folder.
LEMMA FileOfFolder ==
  ASSUME m_folderName \in Folders, NEW f \in FilesInFolder
  PROVE  f \in AllFiles /\ f.time \in Nat /\ f.groups \in Seq(Groups) /\ IsInjective(f.groups)
<1>1. f \in Files(m_folderName)
  BY DEF FilesInFolder, Files
<1> QED
  BY <1>1, GuiAssumption DEF AllFiles

\* A listing has every file of the folder once, HDF5 files in the order of time.
LEMMA ListingOfFolder ==
  ASSUME m_folderName \in Folders, m_files \in Listings
  PROVE  /\ m_files \in Seq(FilesInFolder) /\ Len(m_files) \in Nat
         /\ \A i, j \in 1 .. Len(m_files) : i # j => m_files[i] # m_files[j]
         /\ IsH5 => \A i, j \in 1 .. Len(m_files) : i < j => m_files[i].time <= m_files[j].time
         /\ \A f \in FilesInFolder : \E i \in 1 .. Len(m_files) : m_files[i] = f
<1> DEFINE n == Cardinality(FilesInFolder)
<1>1. IsFiniteSet(FilesInFolder)
  BY GuiAssumption DEF FilesInFolder
<1>2. m_files \in SetToSeqs(FilesInFolder)
  BY DEF Listings
<1>3. /\ n \in Nat /\ m_files \in [1 .. n -> FilesInFolder]
      /\ \A i, j \in 1 .. n : i # j => m_files[i] # m_files[j]
  BY <1>1, <1>2, FS_CardinalityType DEF SetToSeqs
<1>4. \A f \in FilesInFolder : \E i \in 1 .. n : m_files[i] = f
  BY <1>1, <1>2, ListingIsOnto
<1> HIDE DEF n
<1>5. m_files \in Seq(FilesInFolder) /\ Len(m_files) = n /\ DOMAIN m_files = 1 .. n
  BY <1>3
<1>6. IsH5 => \A i, j \in 1 .. n : i < j => m_files[i].time <= m_files[j].time
  BY <1>5 DEF Listings
<1> QED
  BY <1>3, <1>4, <1>5, <1>6

\* What is pushed of one file: its chosen groups, once each.
LEMMA ItemsOfFile ==
  ASSUME NEW f, f.groups \in Seq(Groups), IsInjective(f.groups)
  PROVE  /\ SelectedItems(f) \in Seq({f} \X Groups)
         /\ Range(SelectedItems(f)) =
              {p \in {f} \X Groups : p[2] \in Range(f.groups) /\ IsSelected(p[2])}
         /\ \A i, j \in DOMAIN SelectedItems(f) :
              i < j => SelectedItems(f)[i] # SelectedItems(f)[j]
<1> DEFINE s == f.groups
           I == {i \in DOMAIN s : IsSelected(s[i])}
           k == Kept(s, I)
           items == [i \in DOMAIN k |-> <<f, k[i]>>]
<1>1. SelectedItems(f) = items
  BY DEF SelectedItems
<1>2. /\ s \in Seq(Groups) /\ I \in SUBSET (1 .. Len(s)) /\ DOMAIN s = 1 .. Len(s)
      /\ \A i, j \in 1 .. Len(s) : s[i] = s[j] => i = j
  BY DEF IsInjective
<1>3. I = {i \in 1 .. Len(s) : IsSelected(s[i])}
  BY <1>2
<1> HIDE DEF I, s
<1>4. k \in Seq(Groups) /\ Range(k) = {s[i] : i \in I}
  BY <1>2, KeptPlaces, KeptRange
<1>5. PICK at \in [1 .. Len(k) -> I] :
        /\ \A i \in 1 .. Len(k) : k[i] = s[at[i]]
        /\ \A i, j \in 1 .. Len(k) : i < j => at[i] < at[j]
  BY <1>2, KeptPlaces
<1> HIDE DEF k
<1>6. DOMAIN k = 1 .. Len(k) /\ Len(k) \in Nat /\ \A i \in 1 .. Len(k) : k[i] \in Groups
  BY <1>4
<1>7. /\ DOMAIN items = 1 .. Len(k) /\ \A i \in 1 .. Len(k) : items[i] = <<f, k[i]>>
      /\ items \in [1 .. Len(k) -> {f} \X Groups]
  BY <1>6
<1> HIDE DEF items
<1>8. items \in Seq({f} \X Groups)
  BY <1>6, <1>7
<1>9. ASSUME NEW i \in 1 .. Len(k), NEW j \in 1 .. Len(k), i < j PROVE items[i] # items[j]
  <2>1. at[i] \in 1 .. Len(s) /\ at[j] \in 1 .. Len(s) /\ at[i] < at[j]
    BY <1>2, <1>5, <1>9
  <2>2. at[i] # at[j]
    BY <1>2, <2>1
  <2>3. k[i] # k[j]
    BY <1>2, <1>5, <2>1, <2>2
  <2> QED
    BY <1>7, <2>3
<1>10. \A g : g \in Range(k) <=> g \in Range(s) /\ IsSelected(g)
  <2>1. Range(s) = {s[i] : i \in 1 .. Len(s)}
    BY <1>2, Zenon DEF Range
  <2>2. \A g : g \in {s[i] : i \in I} <=> \E i \in 1 .. Len(s) : IsSelected(s[i]) /\ g = s[i]
    BY <1>3
  <2> QED
    BY <1>4, <2>1, <2>2
<1>11. Range(k) = {k[i] : i \in 1 .. Len(k)} /\ Range(items) = {items[i] : i \in 1 .. Len(k)}
  BY <1>6, <1>7, Zenon DEF Range
<1>12. ASSUME NEW p PROVE p \in Range(items) <=> \E g \in Range(k) : p = <<f, g>>
  <2>1. p \in Range(items) <=> \E i \in 1 .. Len(k) : p = items[i]
    BY <1>11
  <2>2. (\E g \in Range(k) : p = <<f, g>>) <=> \E i \in 1 .. Len(k) : p = <<f, k[i]>>
    BY <1>11
  <2> QED
    BY <1>7, <2>1, <2>2
<1>13. Range(items) = {p \in {f} \X Groups : p[2] \in Range(s) /\ IsSelected(p[2])}
  <2>1. Range(k) \subseteq Groups
    BY <1>6, <1>11
  <2>2. ASSUME NEW p \in Range(items)
        PROVE  p \in {f} \X Groups /\ p[2] \in Range(s) /\ IsSelected(p[2])
    <3>1. PICK g \in Range(k) : p = <<f, g>>
      BY <1>12
    <3>2. p[2] = g /\ g \in Groups
      BY <2>1, <3>1
    <3> QED
      BY <1>10, <3>1, <3>2
  <2>3. ASSUME NEW p \in {f} \X Groups, p[2] \in Range(s), IsSelected(p[2])
        PROVE  p \in Range(items)
    <3>1. p = <<f, p[2]>>
      OBVIOUS
    <3> QED
      BY <1>10, <1>12, <2>3, <3>1
  <2> QED
    BY <2>2, <2>3
<1> QED
  BY <1>1, <1>7, <1>8, <1>9, <1>13 DEF s

\* What was handed over stays what was chosen as long as the lists stay.
LEMMA ListsMean ==
  ASSUME UNCHANGED <<m_folderName, m_format, m_files, m_packetFiles>>
  PROVE  /\ FilesInFolder' = FilesInFolder /\ Listings' = Listings /\ (IsH5' <=> IsH5)
         /\ \A n : ChosenUpTo(n)' = ChosenUpTo(n)
<1>1. FilesInFolder' = FilesInFolder /\ (IsH5' <=> IsH5)
  BY DEF FilesInFolder, IsH5
<1>2. Listings' = Listings
  BY DEF Listings, FilesInFolder, IsH5
<1>3. \A n : ChosenUpTo(n)' = ChosenUpTo(n)
  BY <1>1 DEF ChosenUpTo, IsSelected
<1> QED
  BY <1>1, <1>2, <1>3

\* The reader is in a folder that was listed, at a file of that list.
LEMMA InFolderKept ==
  ASSUME IInv, InFolder, Next
  PROVE  InFolder'
<1> USE DEF widgets, listing, settings, choice, threads, history, Clickable
<1>1. CASE UNCHANGED <<reader, next, m_ofiles, m_folderName, m_format, m_files>>
  <2>1. Listings' = Listings
    BY <1>1 DEF Listings, FilesInFolder, IsH5
  <2> QED
    BY <1>1, <2>1 DEF InFolder
<1>2. CASE (\E format \in {"H5", "PDS"} : SelectFolder(format)) \/ AnswerFileDialog
  <2>1. popup = "none" /\ UNCHANGED <<m_ofiles, reader>>
    BY <1>2 DEF SelectFolder, AnswerFileDialog, IInv, Popups
  <2>2. m_ofiles = {} /\ reader = "idle"
    BY <2>1 DEF IInv, Popups, Listed
  <2> QED
    BY <2>1, <2>2 DEF InFolder
<1>3. CASE ListFiles
  <2>1. /\ m_folderName # NoFolder /\ m_files' \in Listings /\ popup = "none"
        /\ UNCHANGED <<m_folderName, m_format, reader>>
    BY <1>3 DEF ListFiles
  <2>2. reader = "idle" /\ m_folderName \in Folders
    BY <2>1 DEF IInv, Popups, Listed
  <2>3. Listings' = Listings
    BY <2>1 DEF Listings, FilesInFolder, IsH5
  <2> QED
    BY <2>1, <2>2, <2>3 DEF InFolder
<1>4. CASE BeginRun
  <2>1. /\ m_ofiles # {} /\ reader' = "reading" /\ next' = 1
        /\ UNCHANGED <<m_ofiles, m_folderName, m_format, m_files>>
    BY <1>4 DEF BeginRun
  <2>2. m_folderName \in Folders /\ m_files \in Listings
    BY <2>1 DEF InFolder
  <2>3. Len(m_files) \in Nat
    BY <2>2, ListingOfFolder
  <2>4. Listings' = Listings
    BY <2>1 DEF Listings, FilesInFolder, IsH5
  <2> QED
    BY <2>1, <2>2, <2>3, <2>4 DEF InFolder
<1>5. CASE ReadFile \/ AnnounceWaiting \/ CloseQueue
  <2>1. /\ reader \in {"reading", "closing"} /\ reader' # "idle"
        /\ UNCHANGED <<m_ofiles, m_folderName, m_format, m_files>>
    BY <1>5 DEF ReadFile, AnnounceWaiting, CloseQueue, Reading, Closing, Return
  <2>2. /\ m_ofiles # {} /\ m_folderName \in Folders /\ m_files \in Listings
        /\ next \in 1 .. Len(m_files) + 1
        /\ reader = "closing" => next = Len(m_files) + 1
    BY <2>1 DEF InFolder
  <2>3. Len(m_files) \in Nat
    BY <2>2, ListingOfFolder
  <2>4. /\ next' \in 1 .. Len(m_files) + 1
        /\ reader' \in {"closing", "returned"} => next' = Len(m_files) + 1
    <3>1. CASE ReadFile
      BY <2>2, <2>3, <3>1 DEF ReadFile, Reading
    <3>2. CASE AnnounceWaiting
      <4>1. next > Len(m_files) /\ next' = next
        BY <3>2 DEF AnnounceWaiting
      <4>2. next = Len(m_files) + 1
        BY <2>2, <2>3, <4>1
      <4> QED
        BY <2>2, <4>1, <4>2
    <3>3. CASE CloseQueue
      BY <2>2, <2>3, <3>3 DEF CloseQueue, Closing, Return
    <3> QED
      BY <1>5, <3>1, <3>2, <3>3
  <2>5. Listings' = Listings
    BY <2>1 DEF Listings, FilesInFolder, IsH5
  <2> QED
    BY <2>1, <2>2, <2>4, <2>5 DEF InFolder
<1>6. CASE \/ ToggleEndian \/ RunWithoutFolder \/ StopInGetFiles \/ ToggleAllAPIDs
           \/ ExecuteAPIDs \/ (\E g \in Groups : ClickGroup(g) \/ ScrollAway(g))
           \/ NothingToRun \/ StopInRunDecom \/ AnswerFinishedPopup \/ ClickExit
           \/ CloseWindow
  <2>1. UNCHANGED <<reader, next, m_ofiles, m_folderName, m_format, m_files>>
    BY <1>6
    DEF ToggleEndian, RunWithoutFolder, StopInGetFiles, ToggleAllAPIDs, ExecuteAPIDs,
        ClickGroup, ScrollAway, NothingToRun, StopInRunDecom, AnswerFinishedPopup,
        ClickExit, CloseWindow, Quit
  <2> QED
    BY <1>1, <2>1
<1>7. CASE TerminateOnDataset \/ DecomStep \/ OnFinished \/ Ended
  <2>1. UNCHANGED <<reader, next, m_ofiles, m_folderName, m_format, m_files>>
    BY <1>7
    DEF TerminateOnDataset, DecomStep, ListenItem, ListenEnd, ReportSize, ReportRows,
        SetFinished, StopInFormat, OnFinished, Ended, vars
  <2> QED
    BY <1>1, <2>1
<1> QED
  BY <1>2, <1>3, <1>4, <1>5, <1>6, <1>7 DEF Next, UserStep, ReaderStep

\* The next file adds its chosen groups behind those of the files before.
LEMMA ReadFileHands ==
  ASSUME HInv, ReadFile
  PROVE  Handing'
<1> DEFINE f == m_files[next]
           new == SelectedItems(f)
           S == FilesInFolder \X Groups
<1>1. /\ reader = "reading" /\ next <= Len(m_files)
      /\ m_queue' = PushedAll(m_queue, new) /\ next' = next + 1
      /\ UNCHANGED <<reader, decoded, m_folderName, m_format, m_files, m_packetFiles>>
  BY DEF ReadFile, Reading, choice, listing
<1>2. /\ m_folderName \in Folders /\ m_files \in Listings /\ next \in 1 .. Len(m_files) + 1
  BY <1>1 DEF HInv, InFolder
<1>3. /\ m_files \in Seq(FilesInFolder) /\ Len(m_files) \in Nat
      /\ \A i, j \in 1 .. Len(m_files) : i # j => m_files[i] # m_files[j]
      /\ IsH5 => \A i, j \in 1 .. Len(m_files) : i < j => m_files[i].time <= m_files[j].time
  BY <1>2, ListingOfFolder
<1>4. next \in 1 .. Len(m_files) /\ next \in Nat /\ f \in FilesInFolder
  BY <1>1, <1>2, <1>3
<1>5. /\ f \in AllFiles /\ f.time \in Nat /\ f.groups \in Seq(Groups) /\ IsInjective(f.groups)
  BY <1>2, <1>4, FileOfFolder
<1> HIDE DEF f
<1>6. /\ new \in Seq({f} \X Groups)
      /\ Range(new) = {p \in {f} \X Groups : p[2] \in Range(f.groups) /\ IsSelected(p[2])}
      /\ \A i, j \in DOMAIN new : i < j => new[i] # new[j]
  BY <1>5, ItemsOfFile
<1> HIDE DEF new
<1>7. /\ decoded \in Seq(Items) /\ m_queue \in [q : Seq(Items), m_active : BOOLEAN]
      /\ Range(HandedOver) = ChosenUpTo(next - 1) /\ OnceInOrder(HandedOver)
  BY <1>1 DEF HInv, Handing
<1>8. new \in Seq(Items)
  <2>1. {f} \X Groups \subseteq Items
    BY <1>5 DEF Items
  <2> QED
    BY <1>6, <2>1
<1>9. m_queue' \in [q : Seq(Items), m_active : BOOLEAN] /\ m_queue'.q = m_queue.q \o new
  BY <1>1, <1>7, <1>8 DEF PushedAll
<1>10. HandedOver \in Seq(Items) /\ HandedOver' = HandedOver \o new
  <2>1. m_queue.q \in Seq(Items)
    BY <1>7
  <2>2. (decoded \o m_queue.q) \o new = decoded \o (m_queue.q \o new)
    BY <1>7, <1>8, <2>1, ConcatAssociative
  <2>3. HandedOver' = decoded \o (m_queue.q \o new)
    BY <1>1, <1>9 DEF HandedOver
  <2>4. decoded \o m_queue.q \in Seq(Items)
    BY <1>7, <2>1
  <2> QED
    BY <2>2, <2>3, <2>4 DEF HandedOver
<1>11. Range(HandedOver \o new) = ChosenUpTo(next)
  <2>1. Range(HandedOver \o new) = ChosenUpTo(next - 1) \cup Range(new)
    BY <1>7, <1>8, <1>10, RangeOfConcat
  <2>2. ASSUME NEW p \in S
        PROVE  (\E k \in 1 .. next : m_files[k] = p[1]) <=>
                 (\E k \in 1 .. next - 1 : m_files[k] = p[1]) \/ p[1] = f
    <3>1. \A k \in 1 .. next : k \in 1 .. next - 1 \/ k = next
      BY <1>4
    <3>2. 1 .. next - 1 \subseteq 1 .. next /\ next \in 1 .. next
      BY <1>4
    <3> QED
      BY <3>1, <3>2 DEF f
  <2>3. Range(new) = {p \in S : p[1] = f /\ p[2] \in Range(p[1].groups) /\ IsSelected(p[2])}
    <3>1. ASSUME NEW p \in S, p[1] = f, p[2] \in Range(p[1].groups), IsSelected(p[2])
          PROVE  p \in Range(new)
      <4>1. p \in {f} \X Groups
        BY <3>1
      <4> QED
        BY <1>6, <3>1, <4>1
    <3>2. ASSUME NEW p \in Range(new)
          PROVE  p \in S /\ p[1] = f /\ p[2] \in Range(p[1].groups) /\ IsSelected(p[2])
      <4>1. p \in {f} \X Groups /\ p[2] \in Range(f.groups) /\ IsSelected(p[2])
        BY <1>6
      <4>2. p[1] = f /\ p \in S
        BY <1>4, <4>1
      <4> QED
        BY <4>1, <4>2
    <3> HIDE DEF S
    <3> QED
      BY <3>1, <3>2
  <2> HIDE DEF S
  <2>4. ChosenUpTo(next) = ChosenUpTo(next - 1) \cup Range(new)
    BY <2>2, <2>3 DEF ChosenUpTo, S
  <2> QED
    BY <2>1, <2>4
<1>12. OnceInOrder(HandedOver \o new)
  <2> DEFINE m == Len(HandedOver)
             h == HandedOver
             all == h \o new
  <2>1. /\ m \in Nat /\ Len(new) \in Nat /\ DOMAIN all = 1 .. m + Len(new)
        /\ DOMAIN h = 1 .. m /\ DOMAIN new = 1 .. Len(new)
        /\ \A i \in 1 .. m : all[i] = h[i]
        /\ \A i \in 1 .. Len(new) : all[m + i] = new[i]
    BY <1>8, <1>10
  <2>2. ASSUME NEW i \in 1 .. m
        PROVE  \E k \in 1 .. next - 1 : m_files[k] = h[i][1]
    <3>1. h[i] \in Range(h)
      BY <2>1 DEF Range
    <3> QED
      BY <1>7, <3>1 DEF ChosenUpTo
  <2>3. ASSUME NEW i \in 1 .. Len(new) PROVE new[i][1] = f
    BY <1>6, <2>1
  <2> HIDE DEF m, h, all
  <2> SUFFICES ASSUME NEW i \in DOMAIN all, NEW j \in DOMAIN all, i < j
               PROVE  all[i] # all[j] /\ (IsH5 => all[i][1].time <= all[j][1].time)
    BY DEF OnceInOrder, all, h
  <2>4. CASE j <= m
    <3>1. i \in 1 .. m /\ j \in 1 .. m
      BY <2>1, <2>4
    <3>2. h[i] # h[j] /\ (IsH5 => h[i][1].time <= h[j][1].time)
      BY <1>7, <2>1, <3>1 DEF OnceInOrder, h
    <3> QED
      BY <2>1, <3>1, <3>2
  <2>5. CASE i <= m /\ ~(j <= m)
    <3>1. i \in 1 .. m /\ j - m \in 1 .. Len(new) /\ m + (j - m) = j
      BY <2>1, <2>5
    <3>2. all[i] = h[i] /\ all[j] = new[j - m]
      BY <2>1, <3>1
    <3>3. all[j][1] = f
      BY <2>3, <3>1, <3>2
    <3>4. PICK k \in 1 .. next - 1 : m_files[k] = h[i][1]
      BY <2>2, <3>1
    <3>5. k \in 1 .. Len(m_files) /\ k < next
      BY <1>3, <1>4
    <3>6. m_files[k] # f /\ (IsH5 => m_files[k].time <= f.time)
      BY <1>3, <1>4, <3>5 DEF f
    <3> QED
      BY <3>2, <3>3, <3>4, <3>6
  <2>6. CASE ~(i <= m)
    <3>1. /\ i - m \in 1 .. Len(new) /\ m + (i - m) = i
          /\ j - m \in 1 .. Len(new) /\ m + (j - m) = j /\ i - m < j - m
      BY <2>1, <2>6
    <3>2. all[i] = new[i - m] /\ all[j] = new[j - m]
      BY <2>1, <3>1
    <3>3. new[i - m] # new[j - m]
      BY <1>6, <2>1, <3>1
    <3>4. all[i][1] = f /\ all[j][1] = f
      BY <2>3, <3>1, <3>2
    <3>5. f.time <= f.time
      BY <1>5
    <3> QED
      BY <3>2, <3>3, <3>4, <3>5
  <2> QED
    BY <2>4, <2>5, <2>6
<1>13. (IsH5' <=> IsH5) /\ \A n : ChosenUpTo(n)' = ChosenUpTo(n)
  BY <1>1, ListsMean
<1>14. PICK n : n = next
  OBVIOUS
<1>15. next' - 1 = n /\ ChosenUpTo(n) = ChosenUpTo(next)
  BY <1>1, <1>4, <1>14
<1>16. Range(HandedOver') = ChosenUpTo(n)'
  BY <1>10, <1>11, <1>13, <1>15
<1>17. OnceInOrder(HandedOver)'
  BY <1>10, <1>12, <1>13 DEF OnceInOrder
<1> QED
  BY <1>1, <1>7, <1>9, <1>15, <1>16, <1>17 DEF Handing

\* Nothing else makes items, loses or moves them but from the queue to the
\* Decom thread.
LEMMA HandingKept ==
  ASSUME IInv, HInv, Next
  PROVE  Handing'
<1> USE DEF widgets, listing, settings, choice, threads, history, Clickable
<1>1. CASE ReadFile
  BY <1>1, ReadFileHands
<1>2. CASE BeginRun
  <2>1. /\ reader = "idle" /\ next' = 1 /\ reader' = "reading"
        /\ UNCHANGED <<m_queue, decoded, m_folderName, m_format, m_files, m_packetFiles>>
    BY <1>2 DEF BeginRun, IInv, Popups
  <2>2. decoded = <<>> /\ m_queue = NewChannel
    BY <2>1 DEF HInv, Handing, IInv, Threads
  <2>3. m_queue'.q = <<>> /\ m_queue' = [q |-> <<>>, m_active |-> TRUE]
    BY <2>1, <2>2 DEF NewChannel
  <2>4. HandedOver' = <<>>
    BY <2>1, <2>2, <2>3 DEF HandedOver
  <2>5. ChosenUpTo(0) = {}
    <3>1. 1 .. 0 = {}
      OBVIOUS
    <3> QED
      BY <3>1, Zenon DEF ChosenUpTo
  <2>6. Range(HandedOver') = {} /\ OnceInOrder(HandedOver)'
    <3>1. DOMAIN HandedOver' = {}
      BY <2>4
    <3>2. Range(HandedOver') = {}
      BY <3>1, Zenon DEF Range
    <3> QED
      BY <3>1, <3>2 DEF OnceInOrder
  <2>7. next' - 1 = 0 /\ ChosenUpTo(0)' = {}
    BY <2>1, <2>5, ListsMean
  <2> QED
    BY <2>1, <2>6, <2>7 DEF HInv, Handing
<1>3. CASE ListenItem
  <2>1. /\ m_queue.q # <<>> /\ decoded' = Append(decoded, Head(m_queue.q))
        /\ m_queue' = [q |-> Tail(m_queue.q), m_active |-> m_queue.m_active]
        /\ decom = "listening"
        /\ UNCHANGED <<reader, next, m_folderName, m_format, m_files, m_packetFiles>>
    BY <1>3 DEF ListenItem, HasItem, Popped
  <2>2. /\ decoded \in Seq(Items) /\ m_queue.q \in Seq(Items) /\ m_queue.m_active \in BOOLEAN
        /\ reader # "idle"
    BY <2>1 DEF HInv, Handing, IInv, Threads
  <2>3. HandedOver' = HandedOver
    BY <2>1, <2>2, MoveFront DEF HandedOver
  <2>4. /\ decoded' \in Seq(Items)
        /\ m_queue' \in [q : Seq(Items), m_active : BOOLEAN]
    <3>1. Head(m_queue.q) \in Items /\ Tail(m_queue.q) \in Seq(Items)
      BY <2>1, <2>2
    <3> QED
      BY <2>1, <2>2, <3>1
  <2>5. OnceInOrder(HandedOver)'
    BY <2>1, <2>2, <2>3, ListsMean DEF HInv, Handing, OnceInOrder
  <2>6. Range(HandedOver') = ChosenUpTo(next - 1)'
    <3>1. PICK n : n = next - 1
      OBVIOUS
    <3>2. next' - 1 = n /\ ChosenUpTo(n)' = ChosenUpTo(n)
      BY <2>1, <3>1, ListsMean
    <3> QED
      BY <2>2, <2>3, <3>1, <3>2 DEF HInv, Handing
  <2> QED
    BY <2>1, <2>2, <2>4, <2>5, <2>6 DEF Handing
<1>4. CASE AnnounceWaiting \/ CloseQueue
  <2>1. /\ m_queue'.q = m_queue.q /\ m_queue' \in [q : Seq(Items), m_active : BOOLEAN]
        /\ reader # "idle" /\ reader' # "idle"
        /\ UNCHANGED <<decoded, next, m_folderName, m_format, m_files, m_packetFiles>>
    <3>1. m_queue \in [q : Seq(Items), m_active : BOOLEAN]
      BY DEF HInv, Handing
    <3>2. CASE AnnounceWaiting
      BY <3>1, <3>2 DEF AnnounceWaiting, Reading
    <3>3. CASE CloseQueue
      BY <3>1, <3>3 DEF CloseQueue, Closing, Return, SetInactive
    <3> QED
      BY <1>4, <3>2, <3>3
  <2>2. HandedOver' = HandedOver
    BY <2>1 DEF HandedOver
  <2>3. OnceInOrder(HandedOver)'
    BY <2>1, <2>2, ListsMean DEF HInv, Handing, OnceInOrder
  <2>4. Range(HandedOver') = ChosenUpTo(next - 1)'
    <3>1. PICK n : n = next - 1
      OBVIOUS
    <3>2. next' - 1 = n /\ ChosenUpTo(n)' = ChosenUpTo(n)
      BY <2>1, <3>1, ListsMean
    <3> QED
      BY <2>1, <2>2, <3>1, <3>2 DEF HInv, Handing
  <2> QED
    BY <2>1, <2>3, <2>4 DEF HInv, Handing
<1>5. CASE UNCHANGED <<decoded, m_queue, reader, next, m_folderName, m_format, m_files,
                       m_packetFiles>>
  BY <1>5
  DEF HInv, Handing, HandedOver, OnceInOrder, ChosenUpTo, FilesInFolder, IsH5, IsSelected
<1>6. CASE reader = "idle" /\ UNCHANGED <<decoded, m_queue, reader>>
  BY <1>6 DEF HInv, Handing
<1>7. CASE \/ (\E format \in {"H5", "PDS"} : SelectFolder(format)) \/ AnswerFileDialog
           \/ ListFiles \/ (\E g \in Groups : ClickGroup(g))
  BY <1>6, <1>7 DEF SelectFolder, AnswerFileDialog, ListFiles, ClickGroup, IInv, Popups
<1>8. CASE \/ ToggleEndian \/ RunWithoutFolder \/ StopInGetFiles \/ ToggleAllAPIDs
           \/ ExecuteAPIDs \/ (\E g \in Groups : ScrollAway(g))
           \/ NothingToRun \/ StopInRunDecom \/ AnswerFinishedPopup \/ ClickExit
           \/ CloseWindow
  BY <1>5, <1>8
  DEF ToggleEndian, RunWithoutFolder, StopInGetFiles, ToggleAllAPIDs, ExecuteAPIDs,
      ScrollAway, NothingToRun, StopInRunDecom, AnswerFinishedPopup, ClickExit,
      CloseWindow, Quit
<1>9. CASE \/ TerminateOnDataset \/ ListenEnd \/ ReportSize \/ ReportRows \/ SetFinished
           \/ StopInFormat \/ OnFinished \/ Ended
  BY <1>5, <1>9
  DEF TerminateOnDataset, ListenEnd, ReportSize, ReportRows, SetFinished, StopInFormat,
      OnFinished, Ended, vars
<1> QED
  BY <1>1, <1>2, <1>3, <1>4, <1>7, <1>8, <1>9
  DEF Next, UserStep, ReaderStep, DecomStep

\* It holds throughout.
LEMMA HandingThroughout == Spec => [](IInv /\ HInv)
<1>1. Init => HInv
  <2> SUFFICES ASSUME Init PROVE HInv
    OBVIOUS
  <2>1. /\ reader = "idle" /\ m_ofiles = {} /\ decoded = <<>>
        /\ m_queue = [q |-> <<>>, m_active |-> TRUE]
    BY DEF Init, NewChannel
  <2> QED
    BY <2>1 DEF HInv, InFolder, Handing
<1>2. IInv /\ HInv /\ UNCHANGED vars => HInv'
  <2> SUFFICES ASSUME HInv, UNCHANGED vars PROVE HInv'
    OBVIOUS
  <2>1. UNCHANGED <<decoded, m_queue, reader, next, m_ofiles, m_folderName, m_format,
                    m_files, m_packetFiles>>
    BY DEF vars, choice, threads, listing
  <2>2. InFolder'
    BY <2>1 DEF HInv, InFolder, Listings, FilesInFolder, IsH5
  <2>3. Handing'
    BY <2>1
    DEF HInv, Handing, HandedOver, OnceInOrder, ChosenUpTo, FilesInFolder, IsH5,
        IsSelected
  <2> QED
    BY <2>2, <2>3 DEF HInv
<1>3. IInv /\ HInv /\ [Next]_vars => HInv'
  BY <1>2, InFolderKept, HandingKept DEF HInv
<1> QED
  BY <1>1, <1>3, Invariant, PTL DEF Spec

\* When the queue is closed, the Decom thread has been or will be given what the
\* user ticked, by the last click on each group, in every file of the folder:
\* once each, in the order of time for HDF5 files, and nothing else.
THEOREM TickedIsRead == Spec => []ReadsWhatWasTicked
<1>1. IInv /\ Shown /\ HInv => ReadsWhatWasTicked
  <2> SUFFICES ASSUME IInv, Shown, HInv, ~m_queue.m_active
               PROVE  /\ Range(HandedOver) =
                           {p \in FilesInFolder \X Groups :
                              p[2] \in Range(p[1].groups) /\ lastClick[p[2]]}
                      /\ OnceInOrder(HandedOver)
    BY Zenon DEF ReadsWhatWasTicked, HandedOver, OnceInOrder
  <2>1. reader = "returned"
    BY DEF IInv, Threads
  <2>2. /\ next = Len(m_files) + 1 /\ m_folderName \in Folders /\ m_files \in Listings
        /\ Range(HandedOver) = ChosenUpTo(next - 1) /\ OnceInOrder(HandedOver)
    BY <2>1 DEF HInv, InFolder, Handing
  <2>3. /\ Len(m_files) \in Nat
        /\ \A f \in FilesInFolder : \E i \in 1 .. Len(m_files) : m_files[i] = f
    BY <2>2, ListingOfFolder
  <2>4. next - 1 = Len(m_files)
    BY <2>2, <2>3
  <2>5. ASSUME NEW p \in FilesInFolder \X Groups
        PROVE  /\ \E k \in 1 .. next - 1 : m_files[k] = p[1]
               /\ IsSelected(p[2]) <=> lastClick[p[2]]
    <3>1. p[1] \in FilesInFolder /\ p[2] \in Groups
      OBVIOUS
    <3>2. IsSelected(p[2]) <=> lastClick[p[2]]
      BY <3>1 DEF Shown, TicksAgree
    <3> QED
      BY <2>3, <2>4, <3>1, <3>2
  <2>6. ChosenUpTo(next - 1) = {p \in FilesInFolder \X Groups :
                                  p[2] \in Range(p[1].groups) /\ lastClick[p[2]]}
    BY <2>5, Zenon DEF ChosenUpTo
  <2> QED
    BY <2>2, <2>6
<1> QED
  BY <1>1, ShownThroughout, HandingThroughout, PTL
=============================================================================
