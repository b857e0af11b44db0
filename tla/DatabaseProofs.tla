----------------------------- MODULE DatabaseProofs -----------------------------
(***************************************************************************)
(* What ends the process while the database is read, which APIDs count as  *)
(* missing after that, and what the decoder of a packet is served, for all *)
(* files, all selections and all orders of the look-ups; in the last part, *)
(* what the decoder makes of the entries it is served.                     *)
(***************************************************************************)
EXTENDS Database, EntryValues, SequenceLemmas, TLAPS

\* m_firstRun stands for the header row of the file that is read: it is set when
\* a file is opened, however many rows, or none, the file before had.
HeaderFirst ==
  /\ pc = "open" => m_firstRun
  /\ pc = "rows" => (m_firstRun <=> row = 0)

Reading ==
  /\ input \in Input
  /\ pc \in {"open", "rows"} => file \in DOMAIN Names
  /\ row \in Nat
  /\ m_firstRun \in BOOLEAN

IInv == Reading /\ HeaderFirst /\ OnlyBadFilesEndIt

-----------------------------------------------------------------------------
\* There are four files.
LEMMA NamesAreFour == DOMAIN Names = 1 .. 4 /\ Len(Names) = 4
BY DEF Names

\* The rows of a file are a sequence of rows.
LEMMA RowsOfFile ==
  ASSUME input \in Input, NEW n \in DOMAIN Names
  PROVE  /\ input.files[Names[n]].rows \in Seq(Row)
         /\ input.files[Names[n]].exists \in BOOLEAN
<1>1. Names[n] \in {Names[k] : k \in DOMAIN Names}
  OBVIOUS
<1>2. input.files[Names[n]] \in File
  BY <1>1 DEF Input
<1> QED
  BY <1>2 DEF File

\* The loops over the files keep their place, and expect a header row where one is.
THEOREM Invariant == Spec => []IInv
<1>1. Init => IInv
  <2> SUFFICES ASSUME Init PROVE IInv
    OBVIOUS
  <2>1. input \in Input
    BY DatabaseAssumption DEF Init
  <2>2. pc = "open" /\ file = 1 /\ row = 0 /\ m_firstRun = TRUE
    BY DEF Init
  <2> QED
    BY <2>1, <2>2, NamesAreFour DEF IInv, Reading, HeaderFirst, OnlyBadFilesEndIt
<1>2. IInv /\ [Next]_vars => IInv'
  <2> SUFFICES ASSUME IInv, [Next]_vars PROVE IInv'
    OBVIOUS
  <2> USE DEF IInv, Reading, HeaderFirst
  <2>1. CASE OpenDatabase
    <3>1. /\ UNCHANGED <<input, file, m_firstRun>> /\ row' = 0 /\ m_firstRun
          /\ file \in DOMAIN Names
      BY <2>1 DEF OpenDatabase
    <3>2. CASE input.files[Names[file]].exists
      <4>1. pc' = "rows"
        BY <2>1, <3>2 DEF OpenDatabase
      <4> QED
        BY <3>1, <4>1 DEF OnlyBadFilesEndIt
    <3>3. CASE ~input.files[Names[file]].exists
      <4>1. pc' = "exited"
        BY <2>1, <3>3 DEF OpenDatabase
      <4> QED
        BY <3>1, <3>3, <4>1 DEF OnlyBadFilesEndIt
    <3> QED
      BY <3>2, <3>3
  <2>2. CASE SkipHeaderRow
    <3>1. /\ pc = "rows" /\ UNCHANGED <<input, pc, file>>
          /\ m_firstRun' = FALSE /\ row' = row + 1
      BY <2>2 DEF SkipHeaderRow
    <3>2. row' \in Nat /\ row' # 0
      BY <3>1
    <3> QED
      BY <3>1, <3>2 DEF OnlyBadFilesEndIt
  <2>3. CASE AddEntry
    BY <2>3 DEF AddEntry, OnlyBadFilesEndIt
  <2>4. CASE TerminateOnRow
    <3>1. /\ file \in DOMAIN Names /\ row \in Nat /\ row # 0 /\ row < Len(Rows)
          /\ ~Readable(Rows[row + 1])
          /\ pc' = "terminated" /\ UNCHANGED <<input, file, row, m_firstRun>>
      BY <2>4 DEF TerminateOnRow
    <3> DEFINE place == <<file, row + 1>>
    <3>2. Rows \in Seq(Row) /\ row + 1 \in 2 .. Len(Rows)
      BY <3>1, RowsOfFile DEF Rows
    <3>3. place \in DataRows /\ RowAt(place) = Rows[row + 1]
      BY <3>1, <3>2 DEF DataRows, RowAt, Rows
    <3>4. Rows[row + 1] \in Row
      BY <3>2
    <3>5. RowAt(place).columns < 4 \/ RowAt(place).length = NoNumber
      BY <3>1, <3>3, <3>4 DEF Readable, Row
    <3>6. DataRows' = DataRows /\ RowAt(place)' = RowAt(place)
      BY <3>1 DEF DataRows, RowAt
    <3>7. OnlyBadFilesEndIt'
      BY <3>1, <3>3, <3>5, <3>6 DEF OnlyBadFilesEndIt, RowAt
    <3> QED
      BY <3>1, <3>7
  <2>5. CASE CloseDatabase
    <3>1. file \in DOMAIN Names /\ pc \notin {"exited", "terminated"}
      BY <2>5 DEF CloseDatabase
    <3>2. /\ pc' = IF file = Len(Names) THEN "sort" ELSE "open"
          /\ file' = file + 1 /\ m_firstRun' = TRUE /\ UNCHANGED <<input, row>>
      BY <2>5 DEF CloseDatabase
    <3>3. pc' = "open" => file' \in DOMAIN Names
      BY <3>1, <3>2, NamesAreFour
    <3> QED
      BY <3>2, <3>3 DEF OnlyBadFilesEndIt
  <2>6. CASE SortEntries
    BY <2>6 DEF SortEntries, OnlyBadFilesEndIt
  <2>7. ASSUME NEW a \in Apids, LookUp(a) PROVE IInv'
    BY <2>7 DEF LookUp, OnlyBadFilesEndIt
  <2>8. CASE (\E a \in Apids : FindInCaches(a)) \/ Ended \/ UNCHANGED vars
    <3>1. UNCHANGED <<input, pc, file, row, m_firstRun>>
      BY <2>8 DEF FindInCaches, Ended, vars
    <3>2. OnlyBadFilesEndIt'
      BY <3>1 DEF OnlyBadFilesEndIt, DataRows, RowAt
    <3> QED
      BY <3>1, <3>2
  <2> QED
    BY <2>1, <2>2, <2>3, <2>4, <2>5, <2>6, <2>7, <2>8 DEF Next
<1> QED
  BY <1>1, <1>2, PTL DEF Spec

\* No process ends because of a header row, or of a file that is there.
THEOREM EndsOnBadFilesOnly == Spec => []OnlyBadFilesEndIt
<1>1. IInv => OnlyBadFilesEndIt
  BY DEF IInv
<1> QED
  BY <1>1, Invariant, PTL

-----------------------------------------------------------------------------
(***************************************************************************)
(* What counts as missing.  Which entries are ignored, and in what order   *)
(* they are, does not matter for that.                                     *)
(***************************************************************************)
\* The rows of data that have been read.
Behind(p) == p[1] < file \/ (p[1] = file /\ pc = "rows" /\ p[2] <= row)

EntriesAreRows ==
  pc \notin {"exited", "terminated"} =>
    \A a \in Apids : HasRow(a) <=> \E p \in RowsOf(a) : Behind(p)

Sequencing ==
  /\ m_entries \in Seq(Entry)
  /\ m_missingAPIDs \in Seq(Apids)

AllRead == pc \in {"sort", "decom"} => file = Len(Names) + 1

MInv == Sequencing /\ AllRead /\ EntriesAreRows /\ MissingMeansNoRow

\* The place of a row of data.
LEMMA Places ==
  ASSUME NEW a, NEW p \in RowsOf(a)
  PROVE  /\ p = <<p[1], p[2]>> /\ p[1] \in 1 .. 4
         /\ p[2] \in 2 .. Len(input.files[Names[p[1]]].rows)
         /\ NumberOrZero(input.files[Names[p[1]]].rows[p[2]].apid) = a
<1>1. PICK n \in DOMAIN Names : p \in {n} \X (2 .. Len(input.files[Names[n]].rows))
  BY DEF RowsOf, DataRows
<1> QED
  BY <1>1, NamesAreFour DEF RowsOf, RowAt

\* A row that can be read yields an entry.
LEMMA EntryOfType ==
  ASSUME NEW r \in Row, Readable(r)
  PROVE  EntryOf(r) \in Entry
<1>1. /\ r.mnem \in Mnemonics /\ r.apid \in Number /\ r.byte \in Number
      /\ r.bits \in Seq(Nat) /\ r.length \in Nat
  BY DEF Row, Readable, Number
<1>2. NumberOrZero(r.apid) \in Nat /\ NumberOrZero(r.byte) \in Nat
  BY <1>1 DEF NumberOrZero, Number
<1>3. BitLower(r.bits) \in Nat
  BY <1>1 DEF BitLower
<1>4. BitUpper(r.bits) \in Nat
  BY <1>1 DEF BitUpper
<1>5. (~Selected(NumberOrZero(r.apid)) \/ BannedAPID(r.mnem)) \in BOOLEAN
  BY Zenon DEF Selected
<1> QED
  BY <1>1, <1>2, <1>3, <1>4, <1>5 DEF EntryOf, Entry

\* As long as the caches stay, so does what they mean.
LEMMA CachesStay ==
  ASSUME MissingMeansNoRow, UNCHANGED <<input, caches>>
  PROVE  MissingMeansNoRow' /\ \A a : RowsOf(a)' = RowsOf(a)
<1>1. \A a : RowsOf(a)' = RowsOf(a)
  BY DEF RowsOf, DataRows, RowAt
<1>2. /\ \A a : IsMissing(a)' <=> IsMissing(a)
      /\ m_missingAPIDs' = m_missingAPIDs /\ asked' = asked
  BY DEF IsMissing, caches
<1>3. \A a \in Apids : IsMissing(a)' <=> a \in asked' /\ RowsOf(a)' = {}
  BY <1>1, <1>2 DEF MissingMeansNoRow
<1> QED
  BY <1>1, <1>2, <1>3 DEF MissingMeansNoRow

\* A file that is opened or closed and a header row leave all rows where they are.
LEMMA ReadingKeeps ==
  ASSUME IInv, MInv, OpenDatabase \/ SkipHeaderRow \/ CloseDatabase
  PROVE  MInv'
<1> USE DEF IInv, MInv
<1>1. UNCHANGED <<input, m_entries, caches>> /\ pc \in {"open", "rows"}
  BY DEF OpenDatabase, SkipHeaderRow, CloseDatabase
<1>2. Sequencing'
  BY <1>1 DEF Sequencing, caches
<1>3. AllRead'
  BY <1>1 DEF AllRead, OpenDatabase, SkipHeaderRow, CloseDatabase
<1>4. MissingMeansNoRow' /\ \A a : RowsOf(a)' = RowsOf(a)
  BY <1>1, CachesStay
<1>5. ASSUME NEW a \in Apids, NEW p \in RowsOf(a), pc' \notin {"exited", "terminated"}
      PROVE  Behind(p)' <=> Behind(p)
  <2>1. p[1] \in 1 .. 4 /\ p[2] \in 2 .. Len(input.files[Names[p[1]]].rows)
    BY Places
  <2>2. file \in 1 .. 4 /\ row \in Nat
    BY <1>1, NamesAreFour DEF Reading
  <2>3. CASE OpenDatabase
    BY <1>5, <2>1, <2>2, <2>3 DEF OpenDatabase, Behind
  <2>4. CASE SkipHeaderRow
    <3>1. row = 0 /\ row' = 1 /\ UNCHANGED <<pc, file>>
      BY <2>4 DEF SkipHeaderRow, HeaderFirst
    <3> QED
      BY <2>1, <2>2, <3>1 DEF Behind
  <2>5. CASE CloseDatabase
    <3>1. pc = "rows" /\ row = Len(Rows) /\ pc' # "rows" /\ file' = file + 1
      BY <2>5 DEF CloseDatabase
    <3>2. p[1] = file => p[2] <= row
      BY <2>1, <3>1 DEF Rows
    <3> QED
      BY <2>1, <2>2, <3>1, <3>2 DEF Behind
  <2> QED
    BY <2>3, <2>4, <2>5
<1>6. EntriesAreRows'
  <2>1. \A a : HasRow(a)' = HasRow(a)
    BY <1>1 DEF HasRow
  <2> QED
    BY <1>1, <1>4, <1>5, <2>1 DEF EntriesAreRows
<1> QED
  BY <1>2, <1>3, <1>4, <1>6

\* The row that is read is the one row of data that gets behind.
LEMMA AddEntryKeeps ==
  ASSUME IInv, MInv, AddEntry
  PROVE  MInv'
<1> USE DEF IInv, MInv
<1> DEFINE r == Rows[row + 1]
<1>1. /\ pc = "rows" /\ row < Len(Rows) /\ row # 0 /\ row' = row + 1
      /\ m_entries' = Append(m_entries, EntryOf(r))
      /\ UNCHANGED <<input, pc, file, m_firstRun, caches>>
  BY DEF AddEntry, HeaderFirst
<1>2. file \in 1 .. 4 /\ row \in Nat /\ Rows \in Seq(Row)
  BY <1>1, NamesAreFour, RowsOfFile DEF Reading, Rows
<1>3. r \in Row /\ row + 1 \in 2 .. Len(Rows)
  BY <1>1, <1>2
<1>4. Sequencing'
  <2>1. EntryOf(r) \in Entry
    BY <1>3, EntryOfType DEF AddEntry
  <2> HIDE DEF r
  <2> QED
    BY <1>1, <2>1 DEF Sequencing, caches
<1>5. AllRead' /\ MissingMeansNoRow' /\ \A a : RowsOf(a)' = RowsOf(a)
  BY <1>1, CachesStay DEF AllRead
<1>6. ASSUME NEW a \in Apids
      PROVE  HasRow(a)' <=> HasRow(a) \/ NumberOrZero(r.apid) = a
  <2>1. EntryOf(r).i_APID = NumberOrZero(r.apid)
    BY DEF EntryOf
  <2>2. /\ DOMAIN m_entries' = 1 .. Len(m_entries) + 1 /\ Len(m_entries) \in Nat
        /\ DOMAIN m_entries = 1 .. Len(m_entries)
        /\ m_entries'[Len(m_entries) + 1] = EntryOf(r)
        /\ \A i \in 1 .. Len(m_entries) : m_entries'[i] = m_entries[i]
    <3> HIDE DEF r
    <3> QED
      BY <1>1 DEF Sequencing
  <2>3. \A i \in 1 .. Len(m_entries) + 1 : i \in 1 .. Len(m_entries) \/ i = Len(m_entries) + 1
    BY <2>2
  <2>4. Len(m_entries) + 1 \in 1 .. Len(m_entries) + 1
    BY <2>2
  <2>5. 1 .. Len(m_entries) \subseteq 1 .. Len(m_entries) + 1
    BY <2>2
  <2> HIDE DEF r
  <2> QED
    BY <2>1, <2>2, <2>3, <2>4, <2>5 DEF HasRow
<1>7. ASSUME NEW a \in Apids
      PROVE  (\E p \in RowsOf(a) : Behind(p)') <=>
               (\E p \in RowsOf(a) : Behind(p)) \/ NumberOrZero(r.apid) = a
  <2>1. ASSUME NEW p \in RowsOf(a), Behind(p)', ~Behind(p)
        PROVE  NumberOrZero(r.apid) = a
    <3>1. p[1] \in 1 .. 4 /\ p[2] \in 2 .. Len(input.files[Names[p[1]]].rows)
          /\ NumberOrZero(input.files[Names[p[1]]].rows[p[2]].apid) = a
      BY Places
    <3>2. p[1] = file /\ p[2] = row + 1
      BY <1>1, <1>2, <2>1, <3>1 DEF Behind
    <3> QED
      BY <3>1, <3>2 DEF Rows
  <2>2. ASSUME NEW p \in RowsOf(a), Behind(p) PROVE Behind(p)'
    <3>1. p[1] \in 1 .. 4 /\ p[2] \in Nat
      BY Places
    <3> QED
      BY <1>1, <1>2, <2>2, <3>1 DEF Behind
  <2>3. ASSUME NumberOrZero(r.apid) = a PROVE \E p \in RowsOf(a) : Behind(p)'
    <3> DEFINE place == <<file, row + 1>>
    <3>1. place \in DataRows /\ RowAt(place) = r
      BY <1>2, <1>3, NamesAreFour DEF DataRows, RowAt, Rows
    <3>2. place \in RowsOf(a)
      BY <2>3, <3>1 DEF RowsOf
    <3>3. PICK p \in RowsOf(a) : p = place
      BY <3>2
    <3>4. Behind(p)'
      BY <1>1, <1>2, <3>3 DEF Behind
    <3> QED
      BY <3>4
  <2> QED
    BY <2>1, <2>2, <2>3
<1>8. EntriesAreRows'
  BY <1>1, <1>5, <1>6, <1>7 DEF EntriesAreRows
<1> QED
  BY <1>4, <1>5, <1>8

\* Sorting moves the entries and leaves them as they are.
LEMMA SortingKeeps ==
  ASSUME IInv, MInv, SortEntries
  PROVE  MInv'
<1> USE DEF IInv, MInv
<1>1. /\ pc = "sort" /\ pc' = "decom" /\ UNCHANGED <<input, file, row, caches>>
  BY DEF SortEntries
<1>2. PICK p \in Rearrangements(DOMAIN m_entries) :
        m_entries' = [i \in DOMAIN m_entries |-> m_entries[p[i]]]
  BY DEF SortEntries
<1>3. /\ p \in [DOMAIN m_entries -> DOMAIN m_entries]
      /\ \A j \in DOMAIN m_entries : \E i \in DOMAIN m_entries : p[i] = j
  BY <1>2 DEF Rearrangements
<1>4. DOMAIN m_entries = 1 .. Len(m_entries) /\ Len(m_entries) \in Nat
  BY DEF Sequencing
<1>5. Sequencing'
  <2>1. \A i \in 1 .. Len(m_entries) : m_entries'[i] \in Entry
    BY <1>2, <1>3, <1>4 DEF Sequencing
  <2>2. m_entries' \in [1 .. Len(m_entries) -> Entry]
    BY <1>2, <1>4, <2>1
  <2>3. m_entries' \in Seq(Entry)
    BY <1>4, <2>2
  <2> QED
    BY <1>1, <2>3 DEF Sequencing, caches
<1>6. AllRead' /\ MissingMeansNoRow' /\ \A a : RowsOf(a)' = RowsOf(a)
  BY <1>1, CachesStay DEF AllRead
<1>7. \A a : HasRow(a)' <=> HasRow(a)
  BY <1>2, <1>3 DEF HasRow
<1>8. \A q : Behind(q)' <=> Behind(q)
  BY <1>1 DEF Behind
<1> QED
  BY <1>1, <1>5, <1>6, <1>7, <1>8 DEF EntriesAreRows

\* By the time of the look-ups all rows have been read.
LEMMA LookUpKeeps ==
  ASSUME IInv, MInv, NEW a \in Apids, LookUp(a)
  PROVE  MInv'
<1> USE DEF IInv, MInv
<1>1. /\ pc = "decom" /\ ~IsMissing(a) /\ asked' = asked \cup {a}
      /\ m_missingAPIDs' = IF HasRow(a) THEN m_missingAPIDs ELSE Append(m_missingAPIDs, a)
      /\ UNCHANGED <<input, pc, file, row, m_firstRun, m_entries>>
  BY DEF LookUp
<1>2. \A b : RowsOf(b)' = RowsOf(b)
  BY <1>1 DEF RowsOf, DataRows, RowAt
<1>3. Sequencing' /\ AllRead'
  <2>1. m_missingAPIDs' \in Seq(Apids)
    <3>1. CASE HasRow(a)
      BY <1>1, <3>1 DEF Sequencing
    <3>2. CASE ~HasRow(a)
      BY <1>1, <3>2 DEF Sequencing
    <3> QED
      BY <3>1, <3>2
  <2> QED
    BY <1>1, <2>1 DEF Sequencing, AllRead
<1>4. EntriesAreRows'
  <2>1. \A b : HasRow(b)' <=> HasRow(b)
    BY <1>1 DEF HasRow
  <2>2. \A p : Behind(p)' <=> Behind(p)
    BY <1>1 DEF Behind
  <2> QED
    BY <1>1, <1>2, <2>1, <2>2 DEF EntriesAreRows
<1>5. HasRow(a) <=> RowsOf(a) # {}
  <2>1. \A p \in RowsOf(a) : Behind(p)
    <3> SUFFICES ASSUME NEW p \in RowsOf(a) PROVE Behind(p)
      OBVIOUS
    <3>1. p[1] \in 1 .. 4 /\ file = 5
      BY <1>1, Places, NamesAreFour DEF AllRead
    <3> QED
      BY <3>1 DEF Behind
  <2> QED
    BY <1>1, <2>1 DEF EntriesAreRows
<1>6. CASE HasRow(a)
  <2>1. \A b : IsMissing(b)' <=> IsMissing(b)
    BY <1>1, <1>6 DEF IsMissing
  <2>2. MissingMeansNoRow'
    BY <1>1, <1>2, <1>5, <1>6, <2>1 DEF MissingMeansNoRow
  <2> QED
    BY <1>3, <1>4, <2>2
<1>7. CASE ~HasRow(a)
  <2> DEFINE n == Len(m_missingAPIDs)
  <2>1. /\ n \in Nat /\ DOMAIN m_missingAPIDs = 1 .. n
        /\ DOMAIN m_missingAPIDs' = 1 .. n + 1
        /\ m_missingAPIDs'[n + 1] = a
        /\ \A i \in 1 .. n : m_missingAPIDs'[i] = m_missingAPIDs[i]
    BY <1>1, <1>7 DEF Sequencing
  <2> HIDE DEF n
  <2>2. \A i \in 1 .. n + 1 : i \in 1 .. n \/ i = n + 1
    BY <2>1
  <2>3. n + 1 \in 1 .. n + 1 /\ 1 .. n \subseteq 1 .. n + 1
    BY <2>1
  <2>4. \A b : IsMissing(b)' <=> IsMissing(b) \/ b = a
    BY <2>1, <2>2, <2>3 DEF IsMissing
  <2>5. \A i, j \in 1 .. n + 1 : i # j => m_missingAPIDs'[i] # m_missingAPIDs'[j]
    <3>1. \A i \in 1 .. n : m_missingAPIDs'[i] # a
      BY <1>1, <2>1 DEF IsMissing
    <3>2. \A i, j \in 1 .. n : i # j => m_missingAPIDs'[i] # m_missingAPIDs'[j]
      BY <2>1 DEF MissingMeansNoRow
    <3> QED
      BY <2>1, <2>2, <3>1, <3>2
  <2>6. MissingMeansNoRow'
    BY <1>1, <1>2, <1>5, <1>7, <2>1, <2>4, <2>5 DEF MissingMeansNoRow
  <2> QED
    BY <1>3, <1>4, <2>6
<1> QED
  BY <1>6, <1>7

\* What is said of the rows behind, and of what counts as missing, holds throughout.
LEMMA MissingInvariant == Spec => []MInv
<1>1. Init => MInv
  <2> SUFFICES ASSUME Init PROVE MInv
    OBVIOUS
  <2>1. /\ m_entries = <<>> /\ m_missingAPIDs = <<>> /\ asked = {}
        /\ pc = "open" /\ file = 1
    BY DEF Init
  <2>2. Sequencing /\ AllRead /\ MissingMeansNoRow
    BY <2>1 DEF Sequencing, AllRead, MissingMeansNoRow, IsMissing
  <2>3. EntriesAreRows
    <3>1. \A a : ~HasRow(a)
      BY <2>1 DEF HasRow
    <3>2. ASSUME NEW a, NEW p \in RowsOf(a) PROVE ~Behind(p)
      <4>1. p[1] \in 1 .. 4
        BY Places
      <4> QED
        BY <2>1, <4>1 DEF Behind
    <3> QED
      BY <3>1, <3>2 DEF EntriesAreRows
  <2> QED
    BY <2>2, <2>3 DEF MInv
<1>2. IInv /\ MInv /\ [Next]_vars => MInv'
  <2> SUFFICES ASSUME IInv, MInv, [Next]_vars PROVE MInv'
    OBVIOUS
  <2>1. CASE OpenDatabase \/ SkipHeaderRow \/ CloseDatabase
    BY <2>1, ReadingKeeps
  <2>2. CASE AddEntry
    BY <2>2, AddEntryKeeps
  <2>3. CASE SortEntries
    BY <2>3, SortingKeeps
  <2>4. ASSUME NEW a \in Apids, LookUp(a) PROVE MInv'
    BY <2>4, LookUpKeeps
  <2>5. CASE TerminateOnRow
    <3>1. pc' = "terminated" /\ UNCHANGED <<input, m_entries, caches>>
      BY <2>5 DEF TerminateOnRow
    <3>2. MissingMeansNoRow'
      BY <3>1, CachesStay DEF MInv
    <3>3. Sequencing'
      BY <3>1 DEF MInv, Sequencing, caches
    <3> QED
      BY <3>1, <3>2, <3>3 DEF MInv, AllRead, EntriesAreRows
  <2>6. CASE (\E a \in Apids : FindInCaches(a)) \/ Ended \/ UNCHANGED vars
    <3>1. UNCHANGED <<input, pc, file, row, m_firstRun, m_entries, caches>>
      BY <2>6 DEF FindInCaches, Ended, vars
    <3>2. MissingMeansNoRow' /\ \A a : RowsOf(a)' = RowsOf(a)
      BY <3>1, CachesStay DEF MInv
    <3>3. \A a, p : (HasRow(a)' <=> HasRow(a)) /\ (Behind(p)' <=> Behind(p))
      BY <3>1 DEF HasRow, Behind
    <3>4. Sequencing' /\ AllRead'
      BY <3>1 DEF MInv, Sequencing, AllRead, caches
    <3>5. EntriesAreRows'
      BY <3>1, <3>2, <3>3 DEF MInv, EntriesAreRows
    <3> QED
      BY <3>2, <3>4, <3>5 DEF MInv
  <2> QED
    BY <2>1, <2>2, <2>3, <2>4, <2>5, <2>6 DEF Next
<1> QED
  BY <1>1, <1>2, Invariant, PTL DEF Spec

\* "Couldn't find matching APID" is said of the APIDs without a row, once, in
\* whatever order APIDs are looked up, and of no APID whose rows are all ignored.
THEOREM MissingHasNoRow == Spec => []MissingMeansNoRow
<1>1. MInv => MissingMeansNoRow
  BY DEF MInv
<1> QED
  BY <1>1, MissingInvariant, PTL

-----------------------------------------------------------------------------
(***************************************************************************)
(* What the decoder is served.  Each entry stands for one row of data that *)
(* has been read, and each such row for one entry: b says which, through   *)
(* the files, the sorting and the look-ups.                                *)
(***************************************************************************)
RowsBehind == {p \in DataRows : Behind(p)}

EntryPerRow(b) ==
  /\ b \in [DOMAIN m_entries -> RowsBehind]
  /\ \A i, j \in DOMAIN m_entries : b[i] = b[j] => i = j
  /\ \A p \in RowsBehind : \E i \in DOMAIN m_entries : b[i] = p
  /\ \A i \in DOMAIN m_entries : m_entries[i] = EntryOf(RowAt(b[i]))

EntriesStandForRows == pc \notin {"exited", "terminated"} => \E b : EntryPerRow(b)

SortedForDecom == pc = "decom" => InOrder(m_entries)

\* A cache holds the unignored entries of its APID, or is still to be filled.
CachesFilled ==
  /\ m_mapEntries \in [Apids -> Seq(Entry)]
  /\ asked \subseteq Apids
  /\ asked # {} => pc = "decom"
  /\ \A a \in Apids : m_mapEntries[a] = IF a \in asked THEN Unignored(a) ELSE <<>>

SInv == EntriesStandForRows /\ SortedForDecom /\ CachesFilled

\* The place of a row of data.
LEMMA DataPlaces ==
  ASSUME NEW p \in DataRows
  PROVE  /\ p = <<p[1], p[2]>> /\ p[1] \in 1 .. 4
         /\ p[2] \in 2 .. Len(input.files[Names[p[1]]].rows)
<1>1. PICK n \in DOMAIN Names : p \in {n} \X (2 .. Len(input.files[Names[n]].rows))
  BY DEF DataRows
<1> QED
  BY <1>1, NamesAreFour

\* The files stay as they are, and so do their rows and what a row is read as.
LEMMA FilesStay ==
  ASSUME UNCHANGED input
  PROVE  /\ DataRows' = DataRows
         /\ \A p : EntryOf(RowAt(p))' = EntryOf(RowAt(p))
         /\ \A a : RowsOf(a)' = RowsOf(a)
<1>1. DataRows' = DataRows
  BY DEF DataRows
<1>2. \A p : EntryOf(RowAt(p))' = EntryOf(RowAt(p))
  BY DEF RowAt, EntryOf, Selected
<1>3. \A a : RowsOf(a)' = RowsOf(a)
  BY DEF RowsOf, DataRows, RowAt
<1> QED
  BY <1>1, <1>2, <1>3

\* The entries are copied in their order, from their places in m_entries.
LEMMA UnignoredPlaces ==
  ASSUME m_entries \in Seq(Entry), NEW a
  PROVE  /\ Unignored(a) \in Seq(Entry)
         /\ \E at \in [1 .. Len(Unignored(a)) -> PlacesOf(a)] :
              /\ \A i \in 1 .. Len(Unignored(a)) : Unignored(a)[i] = m_entries[at[i]]
              /\ \A i, j \in 1 .. Len(Unignored(a)) : i < j => at[i] < at[j]
              /\ \A p \in PlacesOf(a) : \E i \in 1 .. Len(Unignored(a)) : at[i] = p
<1> DEFINE I == PlacesOf(a)
<1>1. I \in SUBSET (1 .. Len(m_entries))
  BY DEF PlacesOf
<1> HIDE DEF I
<1>2. /\ Kept(m_entries, I) \in Seq(Entry)
      /\ \E at \in [1 .. Len(Kept(m_entries, I)) -> I] :
           /\ \A i \in 1 .. Len(Kept(m_entries, I)) : Kept(m_entries, I)[i] = m_entries[at[i]]
           /\ \A i, j \in 1 .. Len(Kept(m_entries, I)) : i < j => at[i] < at[j]
           /\ \A p \in I : \E i \in 1 .. Len(Kept(m_entries, I)) : at[i] = p
  BY <1>1, KeptPlaces
<1> QED
  BY <1>2 DEF Unignored, I

\* Before a look-up nothing is in the caches, and they do not change.
LEMMA CachesStayEmpty ==
  ASSUME CachesFilled, pc # "decom", UNCHANGED caches
  PROVE  CachesFilled'
<1>1. asked = {} /\ asked' = {} /\ m_mapEntries' = m_mapEntries
  BY DEF CachesFilled, caches
<1> QED
  BY <1>1 DEF CachesFilled

\* As long as neither the entries nor the rows behind change, no row is lost.
LEMMA EntryPerRowStays ==
  ASSUME EntriesStandForRows, pc \notin {"exited", "terminated"},
         UNCHANGED <<input, m_entries>>, RowsBehind' = RowsBehind
  PROVE  EntriesStandForRows'
<1>1. PICK b : EntryPerRow(b)
  BY DEF EntriesStandForRows
<1>2. \A p : EntryOf(RowAt(p))' = EntryOf(RowAt(p))
  BY FilesStay
<1>3. EntryPerRow(b)'
  BY <1>1, <1>2 DEF EntryPerRow
<1> QED
  BY <1>3 DEF EntriesStandForRows

\* A file that is opened or closed and a header row leave all rows where they are.
LEMMA ReadingServes ==
  ASSUME IInv, AllRead, SInv, OpenDatabase \/ SkipHeaderRow \/ CloseDatabase
  PROVE  SInv'
<1> USE DEF IInv, SInv
<1>1. UNCHANGED <<input, m_entries, caches>> /\ pc \in {"open", "rows"} /\ pc' # "decom"
  BY DEF OpenDatabase, SkipHeaderRow, CloseDatabase
<1>2. CachesFilled' /\ SortedForDecom'
  BY <1>1, CachesStayEmpty DEF SortedForDecom
<1>3. ASSUME NEW p \in DataRows, pc' \notin {"exited", "terminated"}
      PROVE  Behind(p)' <=> Behind(p)
  <2>1. p[1] \in 1 .. 4 /\ p[2] \in 2 .. Len(input.files[Names[p[1]]].rows)
    BY DataPlaces
  <2>2. file \in 1 .. 4 /\ row \in Nat
    BY <1>1, NamesAreFour DEF Reading
  <2>3. CASE OpenDatabase
    BY <1>3, <2>1, <2>2, <2>3 DEF OpenDatabase, Behind
  <2>4. CASE SkipHeaderRow
    <3>1. row = 0 /\ row' = 1 /\ UNCHANGED <<pc, file>>
      BY <2>4 DEF SkipHeaderRow, HeaderFirst
    <3> QED
      BY <2>1, <2>2, <3>1 DEF Behind
  <2>5. CASE CloseDatabase
    <3>1. pc = "rows" /\ row = Len(Rows) /\ pc' # "rows" /\ file' = file + 1
      BY <2>5 DEF CloseDatabase
    <3>2. p[1] = file => p[2] <= row
      BY <2>1, <3>1 DEF Rows
    <3> QED
      BY <2>1, <2>2, <3>1, <3>2 DEF Behind
  <2> QED
    BY <2>3, <2>4, <2>5
<1>4. CASE pc' \in {"exited", "terminated"}
  BY <1>2, <1>4 DEF EntriesStandForRows
<1>5. CASE pc' \notin {"exited", "terminated"}
  <2>1. RowsBehind' = RowsBehind
    BY <1>1, <1>3, <1>5, FilesStay DEF RowsBehind
  <2> QED
    BY <1>1, <1>2, <2>1, EntryPerRowStays
<1> QED
  BY <1>4, <1>5

\* The row that is read is the one row of data that gets behind, and gets the
\* new entry.
LEMMA AddEntryServes ==
  ASSUME IInv, Sequencing, SInv, AddEntry
  PROVE  SInv'
<1> USE DEF IInv, SInv
<1> DEFINE r == Rows[row + 1]
           place == <<file, row + 1>>
           n == Len(m_entries)
<1>1. /\ pc = "rows" /\ row < Len(Rows) /\ row # 0 /\ row' = row + 1
      /\ m_entries' = Append(m_entries, EntryOf(r))
      /\ UNCHANGED <<input, pc, file, m_firstRun, caches>>
  BY DEF AddEntry, HeaderFirst
<1>2. file \in 1 .. 4 /\ row \in Nat /\ Rows \in Seq(Row)
  BY <1>1, NamesAreFour, RowsOfFile DEF Reading, Rows
<1>3. row + 1 \in 2 .. Len(Rows)
  BY <1>1, <1>2
<1>4. CachesFilled' /\ SortedForDecom'
  BY <1>1, CachesStayEmpty DEF SortedForDecom
<1>5. place \in DataRows /\ RowAt(place) = r
  BY <1>2, <1>3, NamesAreFour DEF DataRows, RowAt, Rows
<1>6. RowsBehind' = RowsBehind \cup {place} /\ place \notin RowsBehind
  <2>1. ASSUME NEW p \in DataRows PROVE Behind(p)' <=> Behind(p) \/ p = place
    <3>1. /\ p = <<p[1], p[2]>> /\ p[1] \in 1 .. 4
          /\ p[2] \in 2 .. Len(input.files[Names[p[1]]].rows)
      BY DataPlaces
    <3>2. p[2] \in Nat
      BY <3>1
    <3>3. p = place <=> p[1] = file /\ p[2] = row + 1
      BY <3>1
    <3> HIDE DEF place
    <3> QED
      BY <1>1, <1>2, <3>1, <3>2, <3>3 DEF Behind
  <2>2. ~Behind(place)
    BY <1>1, <1>2 DEF Behind
  <2>3. DataRows' = DataRows
    BY <1>1, FilesStay
  <2> HIDE DEF place
  <2> QED
    BY <1>5, <2>1, <2>2, <2>3 DEF RowsBehind
<1>7. PICK b : EntryPerRow(b)
  BY <1>1 DEF EntriesStandForRows
<1> DEFINE c == [i \in 1 .. n + 1 |-> IF i = n + 1 THEN place ELSE b[i]]
<1> HIDE DEF place, r
<1>8. /\ DOMAIN m_entries' = 1 .. n + 1 /\ n \in Nat /\ DOMAIN m_entries = 1 .. n
      /\ m_entries'[n + 1] = EntryOf(r)
      /\ \A i \in 1 .. n : m_entries'[i] = m_entries[i]
  BY <1>1 DEF Sequencing
<1> HIDE DEF n
<1>9. \A i \in 1 .. n + 1 : (i \in 1 .. n /\ c[i] = b[i]) \/ (i = n + 1 /\ c[i] = place)
  BY <1>8
<1>10. \A i \in 1 .. n : i \in 1 .. n + 1 /\ c[i] = b[i]
  BY <1>8
<1>11. n + 1 \in 1 .. n + 1 /\ c[n + 1] = place
  BY <1>8
<1>12. /\ b \in [1 .. n -> RowsBehind]
       /\ \A i, j \in 1 .. n : b[i] = b[j] => i = j
       /\ \A p \in RowsBehind : \E i \in 1 .. n : b[i] = p
       /\ \A i \in 1 .. n : m_entries[i] = EntryOf(RowAt(b[i]))
  BY <1>7, <1>8 DEF EntryPerRow
<1>13. c \in [1 .. n + 1 -> RowsBehind \cup {place}]
  <2>1. \A i \in 1 .. n + 1 : c[i] \in RowsBehind \cup {place}
    BY <1>9, <1>12
  <2>2. c = [i \in 1 .. n + 1 |-> c[i]]
    OBVIOUS
  <2> HIDE DEF c
  <2> QED
    BY <2>1, <2>2
<1> HIDE DEF c
<1>14. \A i, j \in 1 .. n + 1 : c[i] = c[j] => i = j
  BY <1>6, <1>9, <1>12
<1>15. \A p \in RowsBehind \cup {place} : \E i \in 1 .. n + 1 : c[i] = p
  BY <1>10, <1>11, <1>12
<1>16. \A i \in 1 .. n + 1 : m_entries'[i] = EntryOf(RowAt(c[i]))
  BY <1>5, <1>8, <1>9, <1>12
<1>17. \A p : EntryOf(RowAt(p))' = EntryOf(RowAt(p))
  BY <1>1, FilesStay
<1>18. PICK d : d = c
  OBVIOUS
<1>19. EntryPerRow(d)'
  BY <1>6, <1>8, <1>13, <1>14, <1>15, <1>16, <1>17, <1>18 DEF EntryPerRow
<1> QED
  BY <1>4, <1>19 DEF EntriesStandForRows

\* Sorting loses no entry and doubles none.
LEMMA SortingServes ==
  ASSUME IInv, Sequencing, SInv, SortEntries
  PROVE  SInv'
<1> USE DEF IInv, SInv
<1> DEFINE D == DOMAIN m_entries
<1>1. /\ pc = "sort" /\ pc' = "decom" /\ UNCHANGED <<input, file, row, caches>>
      /\ InOrder(m_entries')
  BY DEF SortEntries
<1>2. PICK q \in Rearrangements(D) : m_entries' = [i \in D |-> m_entries[q[i]]]
  BY DEF SortEntries
<1>3. q \in [D -> D] /\ \A j \in D : \E i \in D : q[i] = j
  BY <1>2 DEF Rearrangements
<1>4. \A i, j \in D : q[i] = q[j] => i = j
  <2>1. IsFiniteSet(D)
    <3>1. D = 1 .. Len(m_entries) /\ Len(m_entries) \in Nat
      BY DEF Sequencing
    <3> HIDE DEF D
    <3> QED
      BY <3>1, FS_Interval
  <2> HIDE DEF D
  <2>2. q \in Surjection(D, D)
    BY <1>3 DEF Surjection
  <2>3. q \in Injection(D, D)
    BY <2>1, <2>2, FS_SurjSameCardinalityImpliesInj
  <2> QED
    BY <2>3 DEF Injection, IsInjective
<1>5. PICK b : EntryPerRow(b)
  BY <1>1 DEF EntriesStandForRows
<1>6. /\ b \in [D -> RowsBehind]
      /\ \A i, j \in D : b[i] = b[j] => i = j
      /\ \A p \in RowsBehind : \E i \in D : b[i] = p
      /\ \A i \in D : m_entries[i] = EntryOf(RowAt(b[i]))
  BY <1>5 DEF EntryPerRow
<1> DEFINE c == [i \in D |-> b[q[i]]]
<1>7. /\ DOMAIN m_entries' = D
      /\ \A i \in D : m_entries'[i] = m_entries[q[i]] /\ c[i] = b[q[i]]
  BY <1>2
<1> HIDE DEF D
<1>8. c \in [D -> RowsBehind]
  BY <1>3, <1>6
<1> HIDE DEF c
<1>9. \A i, j \in D : c[i] = c[j] => i = j
  BY <1>3, <1>4, <1>6, <1>7
<1>10. \A p \in RowsBehind : \E i \in D : c[i] = p
  BY <1>3, <1>6, <1>7
<1>11. \A i \in D : m_entries'[i] = EntryOf(RowAt(c[i]))
  BY <1>3, <1>6, <1>7
<1>12. RowsBehind' = RowsBehind
  BY <1>1, FilesStay DEF RowsBehind, Behind
<1>13. \A p : EntryOf(RowAt(p))' = EntryOf(RowAt(p))
  BY <1>1, FilesStay
<1>14. PICK d : d = c
  OBVIOUS
<1>15. EntryPerRow(d)'
  BY <1>7, <1>8, <1>9, <1>10, <1>11, <1>12, <1>13, <1>14 DEF EntryPerRow
<1>16. CachesFilled' /\ SortedForDecom'
  BY <1>1, CachesStayEmpty DEF SortedForDecom
<1> QED
  BY <1>15, <1>16 DEF EntriesStandForRows

\* A look-up fills the cache of its APID and no other.
LEMMA LookUpServes ==
  ASSUME Sequencing, SInv, NEW a \in Apids, LookUp(a)
  PROVE  SInv'
<1> USE DEF SInv
<1>1. /\ pc = "decom" /\ asked' = asked \cup {a}
      /\ m_mapEntries' = [m_mapEntries EXCEPT ![a] = Unignored(a)]
      /\ UNCHANGED <<input, pc, file, row, m_firstRun, m_entries>>
  BY DEF LookUp
<1>2. EntriesStandForRows'
  <2>1. RowsBehind' = RowsBehind
    BY <1>1, FilesStay DEF RowsBehind, Behind
  <2> QED
    BY <1>1, <2>1, EntryPerRowStays
<1>3. SortedForDecom'
  BY <1>1 DEF SortedForDecom
<1>4. \A b : Unignored(b)' = Unignored(b)
  BY <1>1 DEF Unignored, PlacesOf
<1>5. Unignored(a) \in Seq(Entry)
  BY UnignoredPlaces DEF Sequencing
<1>6. m_mapEntries \in [Apids -> Seq(Entry)] /\ asked \subseteq Apids
  BY DEF CachesFilled
<1>7. m_mapEntries' \in [Apids -> Seq(Entry)] /\ asked' \subseteq Apids
  BY <1>1, <1>5, <1>6
<1>8. ASSUME NEW b \in Apids
      PROVE  m_mapEntries'[b] = IF b \in asked' THEN Unignored(b) ELSE <<>>
  <2>1. m_mapEntries[b] = IF b \in asked THEN Unignored(b) ELSE <<>>
    BY DEF CachesFilled
  <2>2. m_mapEntries'[b] = IF b = a THEN Unignored(a) ELSE m_mapEntries[b]
    BY <1>1, <1>6
  <2>3. b \in asked' <=> b \in asked \/ b = a
    BY <1>1
  <2> QED
    BY <2>1, <2>2, <2>3
<1>9. CachesFilled'
  BY <1>1, <1>4, <1>7, <1>8 DEF CachesFilled
<1> QED
  BY <1>2, <1>3, <1>9

\* Everything the invariant says starts true and stays true.
LEMMA Serving == Spec => [](IInv /\ MInv /\ SInv)
<1>1. Init => SInv
  <2> SUFFICES ASSUME Init PROVE SInv
    OBVIOUS
  <2>1. /\ m_entries = <<>> /\ asked = {} /\ pc = "open" /\ file = 1
        /\ m_mapEntries = [a \in Apids |-> <<>>]
    BY DEF Init
  <2>2. CachesFilled /\ SortedForDecom
    BY <2>1 DEF CachesFilled, SortedForDecom
  <2>3. RowsBehind = {}
    <3>1. ASSUME NEW p \in DataRows PROVE ~Behind(p)
      <4>1. p[1] \in 1 .. 4
        BY DataPlaces
      <4> QED
        BY <2>1, <4>1 DEF Behind
    <3> QED
      BY <3>1 DEF RowsBehind
  <2>4. EntryPerRow(<<>>)
    BY <2>1, <2>3 DEF EntryPerRow
  <2> QED
    BY <2>2, <2>4 DEF SInv, EntriesStandForRows
<1>2. IInv /\ MInv /\ SInv /\ [Next]_vars => SInv'
  <2> SUFFICES ASSUME IInv, MInv, SInv, [Next]_vars PROVE SInv'
    OBVIOUS
  <2>0. Sequencing /\ AllRead
    BY DEF MInv
  <2>1. CASE OpenDatabase \/ SkipHeaderRow \/ CloseDatabase
    BY <2>0, <2>1, ReadingServes
  <2>2. CASE AddEntry
    BY <2>0, <2>2, AddEntryServes
  <2>3. CASE SortEntries
    BY <2>0, <2>3, SortingServes
  <2>4. ASSUME NEW a \in Apids, LookUp(a) PROVE SInv'
    BY <2>0, <2>4, LookUpServes
  <2>5. CASE TerminateOnRow
    <3>1. pc = "rows" /\ pc' = "terminated" /\ UNCHANGED caches
      BY <2>5 DEF TerminateOnRow
    <3>2. CachesFilled'
      BY <3>1, CachesStayEmpty DEF SInv
    <3> QED
      BY <3>1, <3>2 DEF SInv, EntriesStandForRows, SortedForDecom
  <2>6. CASE (\E a \in Apids : FindInCaches(a)) \/ Ended \/ UNCHANGED vars
    <3>1. UNCHANGED <<input, pc, file, row, m_firstRun, m_entries, m_mapEntries, asked>>
      BY <2>6 DEF FindInCaches, Ended, vars, caches
    <3>2. RowsBehind' = RowsBehind /\ \A p : EntryOf(RowAt(p))' = EntryOf(RowAt(p))
      BY <3>1, FilesStay DEF RowsBehind, Behind
    <3>3. \A b : EntryPerRow(b)' <=> EntryPerRow(b)
      BY <3>1, <3>2 DEF EntryPerRow
    <3>4. \A a : Unignored(a)' = Unignored(a)
      BY <3>1 DEF Unignored, PlacesOf
    <3>5. CachesFilled'
      BY <3>1, <3>4 DEF SInv, CachesFilled
    <3> QED
      BY <3>1, <3>3, <3>5 DEF SInv, EntriesStandForRows, SortedForDecom
  <2> QED
    BY <2>1, <2>2, <2>3, <2>4, <2>5, <2>6 DEF Next
<1> QED
  BY <1>1, <1>2, Invariant, MissingInvariant, PTL DEF Spec

\* By the time of the look-ups every row of data has an entry, which is looked
\* up exactly if the row is wanted.
LEMMA PlacesAreWanted ==
  ASSUME AllRead, EntriesStandForRows, pc = "decom", NEW a
  PROVE  \E b \in [DOMAIN m_entries -> DataRows] :
           /\ \A i, j \in DOMAIN m_entries : b[i] = b[j] => i = j
           /\ \A i \in DOMAIN m_entries : m_entries[i] = EntryOf(RowAt(b[i]))
           /\ \A i \in PlacesOf(a) : b[i] \in Wanted(a)
           /\ \A p \in Wanted(a) : \E i \in PlacesOf(a) : b[i] = p
<1>1. RowsBehind = DataRows
  <2>1. ASSUME NEW p \in DataRows PROVE Behind(p)
    <3>1. p[1] \in 1 .. 4 /\ file = 5
      BY DataPlaces, NamesAreFour DEF AllRead
    <3> QED
      BY <3>1 DEF Behind
  <2> QED
    BY <2>1 DEF RowsBehind
<1>2. PICK b : EntryPerRow(b)
  BY DEF EntriesStandForRows
<1>3. /\ b \in [DOMAIN m_entries -> DataRows]
      /\ \A i, j \in DOMAIN m_entries : b[i] = b[j] => i = j
      /\ \A p \in DataRows : \E i \in DOMAIN m_entries : b[i] = p
      /\ \A i \in DOMAIN m_entries : m_entries[i] = EntryOf(RowAt(b[i]))
  BY <1>1, <1>2 DEF EntryPerRow
<1>4. ASSUME NEW i \in DOMAIN m_entries
      PROVE  i \in PlacesOf(a) <=> b[i] \in Wanted(a)
  <2>1. /\ EntryOf(RowAt(b[i])).i_APID = NumberOrZero(RowAt(b[i]).apid)
        /\ EntryOf(RowAt(b[i])).ignored =
             (~Selected(NumberOrZero(RowAt(b[i]).apid)) \/ BannedAPID(RowAt(b[i]).mnem))
    BY DEF EntryOf
  <2>2. b[i] \in DataRows /\ m_entries[i] = EntryOf(RowAt(b[i]))
    BY <1>3
  <2>3. i \in PlacesOf(a) <=> m_entries[i].i_APID = a /\ ~m_entries[i].ignored
    BY DEF PlacesOf
  <2>4. b[i] \in Wanted(a) <=>
          /\ NumberOrZero(RowAt(b[i]).apid) = a
          /\ Selected(a)
          /\ ~BannedAPID(RowAt(b[i]).mnem)
    BY <2>2 DEF Wanted, RowsOf, Selected, BannedAPID
  <2> QED
    BY <2>1, <2>2, <2>3, <2>4
<1>5. PlacesOf(a) \subseteq DOMAIN m_entries /\ Wanted(a) \subseteq DataRows
  BY DEF PlacesOf, Wanted, RowsOf
<1>6. \A i \in PlacesOf(a) : b[i] \in Wanted(a)
  BY <1>4, <1>5
<1>7. \A p \in Wanted(a) : \E i \in PlacesOf(a) : b[i] = p
  BY <1>3, <1>4, <1>5
<1> QED
  BY <1>3, <1>6, <1>7

\* One entry for each wanted row: the header rows, the selection, m_skip, the
\* sorting and the caches neither lose nor double any.
LEMMA WantedAreServed == MInv /\ SInv => EveryWantedRowServed
<1> SUFFICES ASSUME MInv, SInv, NEW a \in asked
             PROVE  /\ Len(m_mapEntries[a]) = Cardinality(Wanted(a))
                    /\ {m_mapEntries[a][i] : i \in DOMAIN m_mapEntries[a]} =
                         {EntryOf(RowAt(p)) : p \in Wanted(a)}
  BY DEF EveryWantedRowServed
<1> DEFINE u == Unignored(a)
           n == Len(u)
<1>1. pc = "decom" /\ m_mapEntries[a] = u
  BY DEF SInv, CachesFilled
<1>2. m_entries \in Seq(Entry) /\ AllRead /\ EntriesStandForRows
  BY DEF MInv, SInv, Sequencing
<1>3. PICK at \in [1 .. n -> PlacesOf(a)] :
        /\ \A i \in 1 .. n : u[i] = m_entries[at[i]]
        /\ \A i, j \in 1 .. n : i < j => at[i] < at[j]
        /\ \A p \in PlacesOf(a) : \E i \in 1 .. n : at[i] = p
  BY <1>2, UnignoredPlaces
<1>4. PICK b \in [DOMAIN m_entries -> DataRows] :
        /\ \A i, j \in DOMAIN m_entries : b[i] = b[j] => i = j
        /\ \A i \in DOMAIN m_entries : m_entries[i] = EntryOf(RowAt(b[i]))
        /\ \A i \in PlacesOf(a) : b[i] \in Wanted(a)
        /\ \A p \in Wanted(a) : \E i \in PlacesOf(a) : b[i] = p
  BY <1>1, <1>2, PlacesAreWanted
<1>5. u \in Seq(Entry) /\ n \in Nat /\ DOMAIN u = 1 .. n
  <2>1. u \in Seq(Entry)
    BY <1>2, UnignoredPlaces
  <2> HIDE DEF u
  <2> QED
    BY <2>1
<1>6. PlacesOf(a) \subseteq DOMAIN m_entries /\ DOMAIN m_entries \subseteq Nat
  BY <1>2 DEF PlacesOf
<1> HIDE DEF u, n
<1> DEFINE c == [i \in 1 .. n |-> b[at[i]]]
<1>7. c \in [1 .. n -> Wanted(a)]
  BY <1>3, <1>4
<1>8. ASSUME NEW i \in 1 .. n, NEW j \in 1 .. n, c[i] = c[j] PROVE i = j
  <2>1. at[i] = at[j]
    BY <1>3, <1>4, <1>6, <1>8
  <2>2. at[i] \in Nat /\ at[j] \in Nat
    BY <1>3, <1>6
  <2>3. ~(i < j) /\ ~(j < i)
    BY <1>3, <2>1, <2>2
  <2> QED
    BY <1>5, <2>3
<1>9. ASSUME NEW p \in Wanted(a) PROVE \E i \in 1 .. n : c[i] = p
  <2>1. PICK k \in PlacesOf(a) : b[k] = p
    BY <1>4
  <2>2. PICK i \in 1 .. n : at[i] = k
    BY <1>3
  <2> QED
    BY <2>1, <2>2
<1>10. \A i \in 1 .. n : u[i] = EntryOf(RowAt(c[i]))
  BY <1>3, <1>4, <1>6
<1> HIDE DEF c
<1>11. n = Cardinality(Wanted(a))
  <2> DEFINE W == Wanted(a)
  <2>1. c \in [1 .. n -> W] /\ DOMAIN c = 1 .. n
    BY <1>7
  <2>2. c \in Injection(1 .. n, W)
    BY <1>8, <2>1 DEF Injection, IsInjective
  <2>3. c \in Surjection(1 .. n, W)
    BY <1>9, <2>1 DEF Surjection
  <2>4. ExistsBijection(1 .. n, W)
    BY <2>2, <2>3 DEF ExistsBijection, Bijection
  <2>5. IsFiniteSet(1 .. n) /\ Cardinality(1 .. n) = n
    <3>1. /\ IsFiniteSet(1 .. n)
          /\ Cardinality(1 .. n) = IF 1 > n THEN 0 ELSE n - 1 + 1
      BY <1>5, FS_Interval
    <3> QED
      BY <1>5, <3>1
  <2> HIDE DEF W
  <2>6. Cardinality(W) = Cardinality(1 .. n)
    BY <2>4, <2>5, FS_Bijection
  <2> QED
    BY <2>5, <2>6 DEF W
<1>12. {u[i] : i \in 1 .. n} = {EntryOf(RowAt(p)) : p \in Wanted(a)}
  BY <1>7, <1>9, <1>10
<1> QED
  BY <1>1, <1>5, <1>11, <1>12 DEF n

\* Whatever is looked up, in whatever order and however often, a decoder gets
\* one entry for each wanted row of the four files and no other.
THEOREM WantedRowsServed == Spec => []EveryWantedRowServed
BY Serving, WantedAreServed, PTL

\* What std::sort leaves between entries of one APID.
LEMMA ServedInOrder == MInv /\ SInv => ServedInPacketOrder
<1> SUFFICES ASSUME MInv, SInv, NEW a \in Apids,
                    NEW i \in DOMAIN m_mapEntries[a], NEW j \in DOMAIN m_mapEntries[a],
                    i < j
             PROVE  LET e == m_mapEntries[a][i]
                        f == m_mapEntries[a][j]
                    IN  e.byte < f.byte \/ (e.byte = f.byte /\ e.bitLower <= f.bitLower)
  BY DEF ServedInPacketOrder
<1> DEFINE u == Unignored(a)
<1>1. m_mapEntries[a] = u /\ a \in asked
  <2>1. m_mapEntries[a] # <<>>
    OBVIOUS
  <2> QED
    BY <2>1 DEF SInv, CachesFilled
<1>2. pc = "decom" /\ InOrder(m_entries)
  BY <1>1 DEF SInv, CachesFilled, SortedForDecom
<1>3. m_entries \in Seq(Entry)
  BY DEF MInv, Sequencing
<1>4. u \in Seq(Entry)
  BY <1>3, UnignoredPlaces
<1>5. PICK at \in [1 .. Len(u) -> PlacesOf(a)] :
        /\ \A k \in 1 .. Len(u) : u[k] = m_entries[at[k]]
        /\ \A k, l \in 1 .. Len(u) : k < l => at[k] < at[l]
  BY <1>3, UnignoredPlaces
<1> HIDE DEF u
<1>6. i \in 1 .. Len(u) /\ j \in 1 .. Len(u)
  BY <1>1, <1>4
<1> DEFINE e == m_entries[at[i]]
           f == m_entries[at[j]]
<1>7. /\ at[i] \in DOMAIN m_entries /\ at[j] \in DOMAIN m_entries
      /\ e.i_APID = a /\ f.i_APID = a
  BY <1>5, <1>6 DEF PlacesOf
<1>8. ~Before(f, e)
  BY <1>2, <1>5, <1>6, <1>7 DEF InOrder
<1>9. /\ e.byte \in Nat /\ f.byte \in Nat /\ e.bitLower \in Nat /\ f.bitLower \in Nat
  <2>1. e \in Entry /\ f \in Entry
    BY <1>3, <1>7
  <2> QED
    BY <2>1 DEF Entry
<1>10. u[i] = e /\ u[j] = f
  BY <1>5, <1>6
<1> HIDE DEF e, f
<1>11. e.byte < f.byte \/ (e.byte = f.byte /\ e.bitLower <= f.bitLower)
  BY <1>7, <1>8, <1>9 DEF Before
<1> QED
  BY <1>1, <1>10, <1>11

\* However the rows are spread over the files, a decoder gets the entries in the
\* order of its packet: the loop of the look-up keeps what the sorting made.
THEOREM ServedInPacketsOrder == Spec => []ServedInPacketOrder
BY Serving, ServedInOrder, PTL
-----------------------------------------------------------------------------
(***************************************************************************)
(* What the decoder of a packet makes of the entries it is served, for all *)
(* entries and bytes: the other state, of EntryValues.                     *)
(***************************************************************************)
\* A row of entries as they are served for a, with the text of their bits, of
\* which the database keeps the two ends.
Represents(es, a) ==
  /\ DOMAIN es = DOMAIN m_mapEntries[a]
  /\ \A i \in DOMAIN es :
       /\ es[i].byte = m_mapEntries[a][i].byte
       /\ BitLower(es[i].bits) = m_mapEntries[a][i].bitLower
       /\ BitUpper(es[i].bits) = m_mapEntries[a][i].bitUpper
       /\ es[i].length = m_mapEntries[a][i].length

\* What EntryValues assumes of the order of the entries, the database grants.
THEOREM ServedEntriesAreSorted ==
  Spec => [](\A a \in Apids : \A es : Represents(es, a) => Sorted(es))
<1>1. ASSUME ServedInPacketOrder
      PROVE  \A a \in Apids : \A es : Represents(es, a) => Sorted(es)
  <2> SUFFICES ASSUME NEW a \in Apids, NEW es, Represents(es, a),
                      NEW i \in DOMAIN es, NEW j \in DOMAIN es, i < j
               PROVE  \/ es[i].byte < es[j].byte
                      \/ /\ es[i].byte = es[j].byte
                         /\ BitLower(es[i].bits) <= BitLower(es[j].bits)
    BY DEF Sorted
  <2> QED
    BY <1>1 DEF ServedInPacketOrder, Represents
<1> QED
  BY <1>1, ServedInPacketsOrder, PTL

\* A packet that is decoded, one by one of its parts.
LEMMA PacketTypes ==
  ASSUME packet \in Decodings
  PROVE  /\ packet.loop \in {"packet", "science"}
         /\ packet.entries \in Seq(DatabaseEntry)
         /\ packet.buf \in Seq(Byte)
         /\ packet.m_offset \in Nat
BY InputAssumption DEF Offsets

\* The bounds of the bits of an entry.
LEMMA BitsOfEntry ==
  ASSUME NEW e \in DatabaseEntry
  PROVE  /\ BitLower(e.bits) \in Nat
         /\ BitUpper(e.bits) \in Nat
         /\ e.byte \in Nat /\ e.length \in Nat
         /\ NumBytes(e) \in 1 .. 4
<1>1. e.bits \in Seq(Nat) /\ e.byte \in Nat /\ e.length \in Nat
  BY DEF DatabaseEntry
<1>2. BitLower(e.bits) \in Nat /\ BitUpper(e.bits) \in Nat
  BY <1>1 DEF BitLower, BitUpper
<1>3. NumBytes(e) \in 1 .. 4
  <2>1. e.length > 24 \/ e.length \in 17 .. 24 \/ e.length \in 9 .. 16 \/ e.length <= 8
    <3>1. \A n \in Nat : n > 24 \/ n \in 17 .. 24 \/ n \in 9 .. 16 \/ n <= 8
      OBVIOUS
    <3> QED
      BY <1>1, <3>1
  <2>2. CASE e.length > 24
    BY <1>1, <2>2 DEF NumBytes
  <2>3. CASE e.length \in 17 .. 24
    BY <1>1, <2>3 DEF NumBytes
  <2>4. CASE e.length \in 9 .. 16
    BY <1>1, <2>4 DEF NumBytes
  <2>5. CASE e.length <= 8
    BY <1>1, <2>5 DEF NumBytes
  <2> QED
    BY <2>1, <2>2, <2>3, <2>4, <2>5
<1> QED
  BY <1>1, <1>2, <1>3

\* The bytes that are compared with the bounds are there.
LEMMA InsideBytes ==
  ASSUME packet \in Decodings,
         NEW e \in DatabaseEntry, NEW n \in Nat, Inside(e, n),
         NEW j \in Nat, j < n
  PROVE  ByteOf(e, j) \in Byte
<1>1. packet.buf \in Seq(Byte) /\ packet.m_offset \in Nat /\ e.byte \in Nat
  BY PacketTypes, BitsOfEntry
<1>2. At(e) \in Int
  BY <1>1 DEF At
<1>3. At(e) + j + 1 \in 1 .. Len(packet.buf)
  BY <1>1, <1>2 DEF Inside
<1> QED
  BY <1>1, <1>3 DEF ByteOf

\* loadData leaves bytes in the members.
LEMMA LoadedBytes ==
  ASSUME packet \in Decodings,
         loaded \in [0 .. 3 -> Byte], m_numBytes \in 0 .. 4,
         NEW e \in DatabaseEntry
  PROVE  /\ Loaded(e) \in [0 .. 3 -> Byte]
         /\ LoadedNumBytes(e) \in 0 .. 4
<1>1. ASSUME NEW j \in 0 .. 3
      PROVE  (IF \/ j = 0 /\ Inside(e, 1)
                 \/ j < NumBytes(e) /\ LoadsData(e)
              THEN ByteOf(e, j) ELSE loaded[j]) \in Byte
  <2>1. CASE j = 0 /\ Inside(e, 1)
    BY <2>1, InsideBytes
  <2>2. CASE j < NumBytes(e) /\ LoadsData(e)
    <3>1. NumBytes(e) \in Nat
      BY BitsOfEntry
    <3>2. ByteOf(e, j) \in Byte
      BY <2>2, <3>1, InsideBytes DEF LoadsData
    <3> QED
      BY <2>2, <3>2
  <2> QED
    BY <2>1, <2>2
<1>2. Loaded(e) \in [0 .. 3 -> Byte]
  BY <1>1 DEF Loaded
<1>3. LoadedNumBytes(e) \in 0 .. 4
  BY BitsOfEntry DEF LoadedNumBytes
<1> QED
  BY <1>2, <1>3

\* The digits of a substring are those of a number of that many bits.
LEMMA SubstringFits ==
  ASSUME NEW v, NEW width \in Nat, NEW start \in Nat, NEW len \in Int
  PROVE  Substring(v, width, start, len) \subseteq 0 .. width - 1
<1> DEFINE stop == IF len < 0 \/ start + len > width THEN width ELSE start + len
<1>1. stop \in Int /\ stop <= width
  OBVIOUS
<1> HIDE DEF stop
<1>2. \A p \in start .. stop - 1 : stop - 1 - p \in 0 .. width - 1
  BY <1>1
<1>3. Substring(v, width, start, len) =
        {stop - 1 - p : p \in {d \in start .. stop - 1 : width - 1 - d \in v}}
  BY DEF Substring, stop
<1> QED
  BY <1>2, <1>3

\* What getNum makes of bytes is a number of 32 bits.
LEMMA DecodedFits ==
  ASSUME NEW e \in DatabaseEntry, NEW b \in [0 .. 3 -> Byte], NEW n
  PROVE  DecodeBytes(e, b, n) \subseteq SUBSET Low(32)
<1> DEFINE lower == BitLower(e.bits)
           upper == BitUpper(e.bits)
<1>1. lower \in Nat /\ upper \in Nat /\ Width(e) \in Int
  BY BitsOfEntry DEF Width
<1> HIDE DEF lower, upper
<1>2. \A j \in 0 .. 3 : b[j] \subseteq 0 .. 7
  BY DEF Byte, Low
<1>3. Low(32) = 0 .. 31
  BY DEF Low
<1>4. DecodeOne(e, b) \subseteq 0 .. 31
  <2>1. Extract8Signed(b[0], lower, upper + 1) \subseteq 0 .. 7
    BY <1>1, SubstringFits DEF Extract8Signed
  <2>2. Extract8(b[0], lower, Width(e)) \subseteq 0 .. 7
    BY <1>1, <1>2 DEF Extract8, ShiftRight
  <2> QED
    BY <1>2, <2>1, <2>2 DEF DecodeOne, lower, upper
<1>5. DecodeTwo(e, b) \subseteq 0 .. 31
  <2> DEFINE result == MergeBytes16(b[0], b[1])
             value == IF IsWhole(e) THEN result
                      ELSE Extract16(result, lower, Width(e))
  <2>1. result \subseteq 0 .. 15
    <3>1. b[0] \subseteq 0 .. 7 /\ b[1] \subseteq 0 .. 7
      BY <1>2
    <3> QED
      BY <3>1 DEF MergeBytes16, ShiftLeft
  <2>2. Extract16(result, lower, Width(e)) \subseteq 0 .. 15
    BY <1>1, SubstringFits DEF Extract16
  <2>3. value \subseteq 0 .. 15
    BY <2>1, <2>2
  <2> HIDE DEF value
  <2>4. SignExtend16(value) \subseteq 0 .. 31
    BY <2>3 DEF SignExtend16
  <2>5. DecodeTwo(e, b) \in {SignExtend16(value), value}
    BY DEF DecodeTwo, value, lower
  <2>6. value \subseteq 0 .. 31
    BY <2>3
  <2> QED
    BY <2>4, <2>5, <2>6
<1>6. DecodeThree(e, b) \subseteq 0 .. 31
  <2> DEFINE result == MergeBytes3(b[0], b[1], b[2])
  <2>1. result \subseteq 0 .. 31
    <3>1. b[0] \subseteq 0 .. 7 /\ b[1] \subseteq 0 .. 7 /\ b[2] \subseteq 0 .. 7
      BY <1>2
    <3> QED
      BY <3>1 DEF MergeBytes3, MergeBytes16, ShiftLeft
  <2>2. Extract32(result, lower, Width(e)) \subseteq 0 .. 31
    BY <1>1, SubstringFits DEF Extract32
  <2> QED
    BY <2>1, <2>2 DEF DecodeThree, lower
<1> QED
  BY <1>3, <1>4, <1>5, <1>6 DEF DecodeBytes

\* getNum looks at as many bytes as it is told at most.
LEMMA DecodesWhatIsLoaded ==
  ASSUME NEW e, NEW b, NEW c, NEW n \in 1 .. 4,
         \A j \in 0 .. 3 : j < n => b[j] = c[j]
  PROVE  DecodeBytes(e, b, n) = DecodeBytes(e, c, n)
<1>1. b[0] = c[0]
  OBVIOUS
<1>2. CASE n = 1
  BY <1>1, <1>2 DEF DecodeBytes, DecodeOne
<1>3. CASE n = 2
  <2>1. b[1] = c[1]
    BY <1>3
  <2> QED
    BY <1>1, <1>3, <2>1 DEF DecodeBytes, DecodeTwo
<1>4. CASE n \in {3, 4}
  <2>1. b[1] = c[1] /\ b[2] = c[2]
    BY <1>4
  <2> QED
    BY <1>1, <1>4, <2>1 DEF DecodeBytes, DecodeThree
<1> QED
  BY <1>2, <1>3, <1>4

\* The bytes of an entry that lies inside the packet, as OwnBytesOnly has them.
OwnBytes(e) ==
  [j \in 0 .. 3 |-> IF j < NumBytes(e) THEN ByteOf(e, j) ELSE {}]

\* loadData leaves nothing of what was there that an entry would be decoded from,
\* if it could be loaded.
LEMMA LoadedIsDecoded ==
  ASSUME NEW e \in DatabaseEntry, LoadsData(e)
  PROVE  DecodeBytes(e, Loaded(e), LoadedNumBytes(e)) =
           DecodeBytes(e, OwnBytes(e), NumBytes(e))
<1>1. NumBytes(e) \in 1 .. 4
  BY BitsOfEntry
<1>2. LoadedNumBytes(e) = NumBytes(e)
  BY DEF LoadedNumBytes
<1>3. ASSUME NEW j \in 0 .. 3, j < NumBytes(e)
      PROVE  Loaded(e)[j] = OwnBytes(e)[j]
  BY <1>3 DEF Loaded, OwnBytes
<1> HIDE DEF OwnBytes
<1> QED
  BY <1>1, <1>2, <1>3, DecodesWhatIsLoaded

\* With a sane entry of integers that lies inside the packet nothing throws.
LEMMA SaneEntry ==
  ASSUME NEW e \in DatabaseEntry, LoadsData(e), Sane(e),
         ~Digitless(e), ~IsInteger(e) => e.length = 32
  PROVE  ~Throws(e)
<1> DEFINE lower == BitLower(e.bits)
           upper == BitUpper(e.bits)
<1>1. /\ lower \in Nat /\ upper \in Nat
      /\ e.byte \in Nat /\ e.length \in Nat /\ NumBytes(e) \in 1 .. 4
  BY BitsOfEntry
<1>2. LoadedNumBytes(e) = NumBytes(e)
  BY DEF LoadedNumBytes
<1>3. CASE e.type = "FLOAT"
  <2>1. e.length = 32
    BY <1>3 DEF IsInteger
  <2>2. NumBytes(e) = 4 /\ FloatBytes(e) = 4
    BY <2>1 DEF NumBytes, FloatBytes
  <2> QED
    BY <1>3, <2>2 DEF LoadsData, Throws
<1>4. CASE e.type # "FLOAT"
  <2>1. e.bits \in Seq(Nat)
    BY DEF DatabaseEntry
  <2>2. lower < 8 * NumBytes(e)
    BY <1>1, <2>1 DEF Sane, BitLower
  <2>3. ~IsWhole(e) /\ NumBytes(e) > 1 => Width(e) # 0
    <3>1. CASE Len(e.bits) = 2
      <4>1. lower = e.bits[1] /\ upper = e.bits[2] /\ e.bits[1] < e.bits[2]
        BY <2>1, <3>1 DEF Sane, BitLower, BitUpper
      <4> QED
        BY <1>1, <4>1 DEF Width
    <3>2. CASE Len(e.bits) = 1
      <4>1. upper = 0 /\ (lower = 0 \/ lower = e.bits[1])
        BY <2>1, <3>2 DEF BitLower, BitUpper
      <4>2. lower = 1 => e.bits = <<1>>
        BY <2>1, <3>2, <4>1
      <4> QED
        BY <1>1, <4>1, <4>2 DEF Digitless, IsWhole, Width
    <3>3. CASE e.bits = <<>>
      BY <3>3 DEF BitLower, BitUpper, IsWhole
    <3>4. Len(e.bits) = 0 \/ Len(e.bits) = 1 \/ Len(e.bits) = 2
      <4>1. \A n \in Nat : n <= 2 => n = 0 \/ n = 1 \/ n = 2
        OBVIOUS
      <4>2. Len(e.bits) \in Nat /\ Len(e.bits) <= 2
        BY <2>1 DEF Sane
      <4> QED
        BY <4>1, <4>2
    <3>5. Len(e.bits) = 0 => e.bits = <<>>
      BY <2>1
    <3> QED
      BY <3>1, <3>2, <3>3, <3>4, <3>5
  <2> QED
    BY <1>1, <1>2, <1>4, <2>2, <2>3 DEF Throws, NoDigits
<1> QED
  BY <1>3, <1>4

\* The places of the entries, as EntriesInside lists them.
EntryPlaces == [k \in DOMAIN packet.entries |-> k]

\* The inductive invariant.  EntriesInside speaks of the end; underway, decoded is
\* what the loop has chosen of the entries it has seen.
Chosen == decoded = KeptUpTo(EntryPlaces, Decodable)[entryIndex - 1]

DecoderInv ==
  /\ packet \in Decodings
  /\ DecodingTypeOK
  /\ Len(data) = Len(decoded)
  /\ \A n \in DOMAIN decoded :
       packet.loop = "packet" => LoadsData(DecodedEntry(n))
  /\ OwnBytesOnly
  /\ Chosen
  /\ step = "done" => entryIndex = Len(packet.entries) + 1
  /\ SaneEntriesDecoded

\* The places are a sequence.
LEMMA PlacesAreSequence ==
  ASSUME packet \in Decodings
  PROVE  /\ DOMAIN packet.entries = 1 .. Len(packet.entries)
         /\ Len(packet.entries) \in Nat
         /\ EntryPlaces \in Seq(Nat) /\ Len(EntryPlaces) = Len(packet.entries)
         /\ \A k \in 1 .. Len(packet.entries) : EntryPlaces[k] = k
<1>1. packet.entries \in Seq(DatabaseEntry)
  BY PacketTypes
<1>2. /\ DOMAIN packet.entries = 1 .. Len(packet.entries)
      /\ Len(packet.entries) \in Nat
  BY <1>1
<1>3. EntryPlaces \in [1 .. Len(packet.entries) -> Nat]
  BY <1>2 DEF EntryPlaces
<1>4. EntryPlaces \in Seq(Nat) /\ Len(EntryPlaces) = Len(packet.entries)
  BY <1>2, <1>3, SeqDef
<1> QED
  BY <1>2, <1>4 DEF EntryPlaces

\* Before the first entry nothing is chosen.
LEMMA StartsDecoding ==
  DecodingInit => DecoderInv
<1> SUFFICES ASSUME DecodingInit PROVE DecoderInv
  OBVIOUS
<1> USE DEF DecodingInit
<1>1. packet \in Decodings
  OBVIOUS
<1>2. packet.entries \in Seq(DatabaseEntry) /\ packet.buf \in Seq(Byte)
  BY <1>1, PacketTypes
<1>3. Len(packet.entries) \in Nat
  BY <1>2
<1>4. DecodingTypeOK
  <2>1. {} \in Byte
    BY DEF Byte
  <2>2. /\ entryIndex \in 1 .. Len(packet.entries) + 1
        /\ segmentLastByte \in 0 .. Len(packet.entries)
    BY <1>3
  <2>3. loaded \in [0 .. 3 -> Byte]
    BY <2>1
  <2>4. m_numBytes \in 0 .. 4
    OBVIOUS
  <2>5. data \in Seq(Numeric) /\ decoded \in Seq(DOMAIN packet.entries)
    OBVIOUS
  <2> QED
    BY <1>2, <2>2, <2>3, <2>4, <2>5 DEF DecodingTypeOK
<1>5. Chosen
  BY <1>1, PlacesAreSequence, KeptUpToTurns DEF Chosen
<1>6. Len(data) = Len(decoded) /\ DOMAIN decoded = {}
  OBVIOUS
<1> QED
  BY <1>1, <1>4, <1>5, <1>6
  DEF DecoderInv, OwnBytesOnly, SaneEntriesDecoded

\* Looking at an entry appends it to what is chosen, or leaves that alone.
LEMMA NextTurn ==
  ASSUME packet \in Decodings, Chosen,
         entryIndex \in 1 .. Len(packet.entries)
  PROVE  KeptUpTo(EntryPlaces, Decodable)[entryIndex] =
           IF entryIndex \in Decodable THEN Append(decoded, entryIndex) ELSE decoded
<1>1. /\ EntryPlaces \in Seq(Nat) /\ Len(EntryPlaces) = Len(packet.entries)
      /\ EntryPlaces[entryIndex] = entryIndex
  BY PlacesAreSequence
<1>2. \A n \in 1 .. Len(EntryPlaces) :
        KeptUpTo(EntryPlaces, Decodable)[n] =
          IF n \in Decodable
          THEN Append(KeptUpTo(EntryPlaces, Decodable)[n - 1], EntryPlaces[n])
          ELSE KeptUpTo(EntryPlaces, Decodable)[n - 1]
  BY <1>1, KeptUpToTurns
<1> QED
  BY <1>1, <1>2 DEF Chosen

\* A value decoded from the bytes of its own entry, if that could be loaded.
FromOwnBytes(k, value) ==
  LoadsData(packet.entries[k]) /\ IsInteger(packet.entries[k]) =>
    value \in DecodeBytes(packet.entries[k], OwnBytes(packet.entries[k]),
                                 NumBytes(packet.entries[k]))

\* OwnBytesOnly, value by value.
LEMMA OwnBytesEach ==
  OwnBytesOnly <=>
    \A n \in DOMAIN decoded : FromOwnBytes(decoded[n], data[n].value)
BY DEF OwnBytesOnly, DecodedEntry, FromOwnBytes, OwnBytes

\* What speaks of the packet alone stays as it is.
LEMMA SamePacket ==
  ASSUME packet' = packet
  PROVE  /\ EntryPlaces' = EntryPlaces
         /\ Decodable' = Decodable
         /\ \A e : LoadsData(e)' = LoadsData(e)
         /\ \A k, v : FromOwnBytes(k, v)' = FromOwnBytes(k, v)
<1> USE DEF At, Inside, ByteOf, LoadsData
<1>1. EntryPlaces' = EntryPlaces
  BY DEF EntryPlaces
<1>2. Decodable' = Decodable
  BY DEF Decodable, InPacket
<1>3. \A e : LoadsData(e)' = LoadsData(e)
  OBVIOUS
<1>4. \A k, v : FromOwnBytes(k, v)' = FromOwnBytes(k, v)
  BY DEF FromOwnBytes, OwnBytes
<1> QED
  BY <1>1, <1>2, <1>3, <1>4

\* What loadData leaves behind, whatever becomes of the entry.
LEMMA LoadTypes ==
  ASSUME DecoderInv, Load
  PROVE  /\ step = "loop"
         /\ entryIndex \in 1 .. Len(packet.entries)
         /\ packet.entries[entryIndex] \in DatabaseEntry
         /\ entryIndex \in DOMAIN packet.entries
         /\ loaded' \in [0 .. 3 -> Byte]
         /\ m_numBytes' \in 0 .. 4
<1> USE DEF DecoderInv, DecodingTypeOK
<1>1. step = "loop" /\ entryIndex \in 1 .. Len(packet.entries)
  BY DEF Load
<1>2. /\ packet.entries[entryIndex] \in DatabaseEntry
      /\ entryIndex \in DOMAIN packet.entries
  BY <1>1
<1>3. loaded' = Loaded(packet.entries[entryIndex])
  BY DEF Load, Current
<1>4. m_numBytes' = LoadedNumBytes(packet.entries[entryIndex])
  BY DEF Load, Current
<1> QED
  BY <1>1, <1>2, <1>3, <1>4, LoadedBytes

\* A sequence with one more element at its end.
LEMMA OneMore ==
  ASSUME NEW S, NEW s \in Seq(S), NEW x \in S
  PROVE  /\ Append(s, x) \in Seq(S) /\ Len(Append(s, x)) = Len(s) + 1
         /\ \A m \in 1 .. Len(s) : Append(s, x)[m] = s[m]
         /\ Append(s, x)[Len(s) + 1] = x
OBVIOUS

\* An entry whose value goes to the end of data.
LEMMA DecodeKeeps ==
  ASSUME DecoderInv, DecodeEntry
  PROVE  DecoderInv'
<1> DEFINE e == packet.entries[entryIndex]
<1> USE DEF DecoderInv, DecodingTypeOK
<1>0. Load
  BY DEF DecodeEntry
<1>1. /\ step = "loop" /\ entryIndex \in 1 .. Len(packet.entries)
      /\ e \in DatabaseEntry /\ entryIndex \in DOMAIN packet.entries
      /\ loaded' \in [0 .. 3 -> Byte] /\ m_numBytes' \in 0 .. 4
  BY <1>0, LoadTypes
<1>2. /\ packet' = packet /\ segmentLastByte' = segmentLastByte /\ step' = step
      /\ entryIndex' = entryIndex + 1 /\ decoded' = Append(decoded, entryIndex)
      /\ packet.loop = "science" \/ LoadsData(e)
  BY DEF DecodeEntry, Current
<1>3. PICK num \in Numerics(entryIndex) : data' = Append(data, num)
  BY DEF DecodeEntry
<1>4. num \in Numeric /\ FromOwnBytes(entryIndex, num.value)
  <2>1. CASE e.type = "FLOAT"
    <3>1. num \in [mnem : {NoMnemonic}, value : {{}}, tag : Tags]
      BY <1>3, <2>1 DEF Numerics
    <3>2. num \in Numeric
      BY <3>1 DEF Numeric, NoMnemonic, Low
    <3> QED
      BY <2>1, <3>2 DEF FromOwnBytes, IsInteger
  <2>2. CASE e.type # "FLOAT"
    <3> DEFINE b == Loaded(e)
               n == LoadedNumBytes(e)
    <3>1. num \in [mnem : {entryIndex}, tag : {IntegerTag(e)},
                   value : DecodeBytes(e, b, n)]
      BY <1>3, <2>2 DEF Numerics
    <3>2. b \in [0 .. 3 -> Byte]
      BY <1>1, LoadedBytes
    <3>3. DecodeBytes(e, b, n) \subseteq SUBSET Low(32)
      BY <1>1, <3>2, DecodedFits
    <3>4. IntegerTag(e) \in Tags
      BY DEF IntegerTag, Tags
    <3>5. LoadsData(e) =>
            DecodeBytes(e, b, n) =
              DecodeBytes(e, OwnBytes(e), NumBytes(e))
      BY <1>1, LoadedIsDecoded
    <3> HIDE DEF b, n, e
    <3>6. num \in Numeric
      BY <1>1, <3>1, <3>3, <3>4 DEF Numeric
    <3>7. FromOwnBytes(entryIndex, num.value)
      BY <3>1, <3>5 DEF FromOwnBytes, e
    <3> QED
      BY <3>6, <3>7
  <2> QED
    BY <2>1, <2>2
<1>5. /\ data' \in Seq(Numeric) /\ Len(data') = Len(data) + 1
      /\ decoded' \in Seq(DOMAIN packet.entries) /\ Len(decoded') = Len(decoded) + 1
      /\ \A m \in 1 .. Len(decoded) : decoded'[m] = decoded[m] /\ data'[m] = data[m]
      /\ decoded'[Len(decoded) + 1] = entryIndex /\ data'[Len(decoded) + 1] = num
  <2>1. /\ data \in Seq(Numeric) /\ decoded \in Seq(DOMAIN packet.entries)
        /\ Len(data) = Len(decoded) /\ num \in Numeric
        /\ entryIndex \in DOMAIN packet.entries
    BY <1>1, <1>4
  <2>2. /\ data' \in Seq(Numeric) /\ Len(data') = Len(data) + 1
        /\ \A m \in 1 .. Len(data) : data'[m] = data[m]
        /\ data'[Len(data) + 1] = num
    BY <1>3, <2>1, OneMore
  <2>3. /\ decoded' \in Seq(DOMAIN packet.entries) /\ Len(decoded') = Len(decoded) + 1
        /\ \A m \in 1 .. Len(decoded) : decoded'[m] = decoded[m]
        /\ decoded'[Len(decoded) + 1] = entryIndex
    BY <1>2, <2>1, OneMore
  <2> QED
    BY <2>1, <2>2, <2>3
<1>6. /\ DOMAIN decoded' = 1 .. Len(decoded) + 1
      /\ DOMAIN decoded = 1 .. Len(decoded) /\ Len(decoded) \in Nat
  BY <1>5
<1>7. DecodingTypeOK'
  <2>1. packet.entries' \in Seq(DatabaseEntry) /\ packet.buf' \in Seq(Byte)
    BY <1>2
  <2>2. entryIndex' \in 1 .. Len(packet.entries) + 1
    BY <1>1, <1>2
  <2>3. segmentLastByte' \in 0 .. Len(packet.entries)
        /\ step' \in {"loop", "done", "terminated"}
    BY <1>2
  <2> QED
    BY <1>1, <1>2, <1>5, <2>1, <2>2, <2>3, Zenon
<1>8. ASSUME NEW m \in DOMAIN decoded', packet.loop = "packet"
      PROVE  LoadsData(packet.entries[decoded'[m]])
  BY <1>2, <1>5, <1>6, <1>8 DEF DecodedEntry
<1>9. ASSUME NEW m \in DOMAIN decoded'
      PROVE  FromOwnBytes(decoded'[m], data'[m].value)
  <2>1. CASE m \in DOMAIN decoded
    <3>1. FromOwnBytes(decoded[m], data[m].value)
      BY <2>1, OwnBytesEach
    <3> QED
      BY <1>5, <1>6, <2>1, <3>1
  <2>2. CASE m = Len(decoded) + 1
    <3>1. decoded'[m] = entryIndex /\ data'[m] = num
      BY <1>5, <2>2
    <3> QED
      BY <1>4, <3>1
  <2> QED
    BY <1>6, <2>1, <2>2
<1>10. (\A m \in DOMAIN decoded :
          packet.loop = "packet" => LoadsData(DecodedEntry(m)))'
  BY <1>2, <1>8, SamePacket DEF DecodedEntry
<1>11. OwnBytesOnly'
  BY <1>2, <1>9, SamePacket
  DEF OwnBytesOnly, DecodedEntry, FromOwnBytes, OwnBytes, ByteOf,
      At
<1>12. Chosen'
  <2>1. entryIndex \in Decodable
    BY <1>1, <1>2 DEF Decodable, InPacket
  <2>2. KeptUpTo(EntryPlaces, Decodable)[entryIndex] = decoded'
    BY <1>1, <1>2, <2>1, NextTurn
  <2>3. entryIndex' - 1 = entryIndex
    BY <1>1, <1>2
  <2>4. EntryPlaces' = EntryPlaces /\ Decodable' = Decodable
    BY <1>2, SamePacket
  <2> QED
    BY <2>2, <2>3, <2>4 DEF Chosen
<1> QED
  BY <1>1, <1>2, <1>5, <1>7, <1>10, <1>11, <1>12 DEF SaneEntriesDecoded

\* Steps that decode nothing leave what was decoded as good as it was.
LEMMA NothingDecoded ==
  ASSUME DecoderInv, UNCHANGED <<packet, data, decoded>>
  PROVE  /\ (Len(data) = Len(decoded))'
         /\ (\A n \in DOMAIN decoded :
               packet.loop = "packet" => LoadsData(DecodedEntry(n)))'
         /\ OwnBytesOnly'
<1>1. (\A n \in DOMAIN decoded :
         packet.loop = "packet" => LoadsData(DecodedEntry(n)))'
  BY SamePacket DEF DecoderInv, DecodedEntry
<1>2. OwnBytesOnly'
  BY DEF DecoderInv, OwnBytesOnly, DecodedEntry, LoadsData,
         Inside, ByteOf, At
<1> QED
  BY <1>1, <1>2 DEF DecoderInv

\* The steps of the two loops.
LEMMA KeepsDecoding ==
  DecoderInv /\ [DecodingNext]_decodingVars => DecoderInv'
<1> SUFFICES ASSUME DecoderInv, [DecodingNext]_decodingVars PROVE DecoderInv'
  OBVIOUS
<1>0. /\ packet \in Decodings /\ DecodingTypeOK /\ Len(data) = Len(decoded) /\ Chosen
      /\ step = "done" => entryIndex = Len(packet.entries) + 1
      /\ SaneEntriesDecoded
  BY DEF DecoderInv
<1>1. CASE SkipEntry
  <2>1. /\ Load /\ UNCHANGED <<packet, data, segmentLastByte, step, decoded>>
        /\ packet.loop = "packet" /\ ~LoadsData(packet.entries[entryIndex])
        /\ entryIndex' = entryIndex + 1
    BY <1>1 DEF SkipEntry, Current
  <2>2. /\ step = "loop" /\ entryIndex \in 1 .. Len(packet.entries)
        /\ loaded' \in [0 .. 3 -> Byte] /\ m_numBytes' \in 0 .. 4
    BY <2>1, LoadTypes
  <2>3. DecodingTypeOK'
    BY <1>0, <2>1, <2>2 DEF DecodingTypeOK
  <2>4. Chosen'
    <3>1. entryIndex \notin Decodable
      BY <2>1 DEF Decodable, InPacket
    <3>2. KeptUpTo(EntryPlaces, Decodable)[entryIndex] = decoded
      BY <1>0, <2>2, <3>1, NextTurn
    <3>3. entryIndex' - 1 = entryIndex
      BY <2>1, <2>2
    <3>4. EntryPlaces' = EntryPlaces /\ Decodable' = Decodable
      BY <2>1, SamePacket
    <3> QED
      BY <2>1, <3>2, <3>3, <3>4 DEF Chosen
  <2>5. SaneEntriesDecoded'
    BY <2>1, <2>2 DEF SaneEntriesDecoded
  <2> QED
    BY <1>0, <2>1, <2>2, <2>3, <2>4, <2>5, NothingDecoded DEF DecoderInv
<1>2. CASE DecodeEntry
  BY <1>2, DecodeKeeps
<1>3. CASE Terminate
  <2> DEFINE e == packet.entries[entryIndex]
  <2>1. /\ Load
        /\ UNCHANGED <<packet, entryIndex, data, segmentLastByte, decoded>>
        /\ packet.loop = "science" \/ LoadsData(e)
        /\ Throws(e) /\ step' = "terminated"
    BY <1>3 DEF Terminate, Current
  <2>2. /\ e \in DatabaseEntry /\ entryIndex \in DOMAIN packet.entries
        /\ loaded' \in [0 .. 3 -> Byte] /\ m_numBytes' \in 0 .. 4
    BY <2>1, LoadTypes
  <2>3. DecodingTypeOK'
    BY <1>0, <2>1, <2>2 DEF DecodingTypeOK
  <2>4. Chosen'
    BY <1>0, <2>1, SamePacket DEF Chosen
  <2>5. SaneEntriesDecoded'
    <3>1. packet.loop = "packet" =>
            \/ ~Sane(e) \/ Digitless(e)
            \/ ~(~IsInteger(e) => e.length = 32)
      BY <2>1, <2>2, SaneEntry
    <3> QED
      BY <2>1, <2>2, <3>1 DEF SaneEntriesDecoded, InPacket
  <2> QED
    BY <1>0, <2>1, <2>3, <2>4, <2>5, NothingDecoded DEF DecoderInv
<1>4. CASE LeaveLoop
  <2>1. /\ step' = "done" /\ step = "loop" /\ entryIndex > Len(packet.entries)
        /\ UNCHANGED <<packet, entryIndex, loaded, m_numBytes, data, decoded>>
        /\ segmentLastByte' \in {entryIndex - 1, 0}
    BY <1>4 DEF LeaveLoop
  <2>2. entryIndex = Len(packet.entries) + 1 /\ Len(packet.entries) \in Nat
    BY <1>0, <2>1, PlacesAreSequence DEF DecodingTypeOK
  <2>3. DecodingTypeOK'
    BY <1>0, <2>1, <2>2 DEF DecodingTypeOK
  <2>4. Chosen'
    BY <1>0, <2>1, SamePacket DEF Chosen
  <2> QED
    BY <1>0, <2>1, <2>2, <2>3, <2>4, NothingDecoded
    DEF DecoderInv, SaneEntriesDecoded
<1>5. CASE Done \/ UNCHANGED decodingVars
  <2>1. UNCHANGED <<packet, entryIndex, loaded, m_numBytes, data, segmentLastByte,
                    step, decoded>>
    BY <1>5 DEF Done, decodingVars
  <2>2. DecodingTypeOK'
    BY <1>0, <2>1 DEF DecodingTypeOK
  <2>3. Chosen'
    BY <1>0, <2>1, SamePacket DEF Chosen
  <2>4. SaneEntriesDecoded'
    BY <1>0, <2>1 DEF SaneEntriesDecoded, InPacket
  <2> QED
    BY <1>0, <2>1, <2>2, <2>3, <2>4, NothingDecoded DEF DecoderInv
<1> QED
  BY <1>1, <1>2, <1>3, <1>4, <1>5 DEF DecodingNext

\* The invariant of the decoding.
THEOREM DecodingInvariant ==
  DecodingSpec => []DecoderInv
<1>1. DecodingInit => DecoderInv
  BY StartsDecoding
<1>2. DecoderInv /\ [DecodingNext]_decodingVars => DecoderInv'
  BY KeepsDecoding
<1> QED
  BY <1>1, <1>2, PTL DEF DecodingSpec

\* Counting bits through: bit r of byte j behind byte a.
LEMMA BitOfByte ==
  ASSUME NEW a \in Nat, NEW j \in Nat, NEW r \in 0 .. 7
  PROVE  /\ (8 * a + (8 * j + r)) % 8 = r
         /\ (8 * a + (8 * j + r)) \div 8 = a + j
OBVIOUS

\* The bits of the packet are those of its bytes, the most significant one first.
LEMMA BitInByte ==
  ASSUME packet \in Decodings,
         NEW e \in DatabaseEntry, At(e) >= 0, NEW j \in Nat, NEW r \in 0 .. 7
  PROVE  BitAt(8 * At(e) + (8 * j + r)) <=> 7 - r \in ByteOf(e, j)
<1>1. At(e) \in Nat
  BY PacketTypes, BitsOfEntry DEF At
<1>2. /\ (8 * At(e) + (8 * j + r)) % 8 = r
      /\ (8 * At(e) + (8 * j + r)) \div 8 = At(e) + j
  BY <1>1, BitOfByte
<1> QED
  BY <1>2 DEF BitAt, ByteOf

\* The bits of two bytes, and of three, in the number they make.
MadeOfTwo(m, b0, b1) ==
  /\ m \subseteq 0 .. 15
  /\ \A w \in 0 .. 7 : (w + 8 \in m <=> w \in b0) /\ (w \in m <=> w \in b1)

MadeOfThree(m, b0, b1, b2) ==
  /\ m \subseteq 0 .. 23
  /\ \A w \in 0 .. 7 :
       /\ w + 16 \in m <=> w \in b0
       /\ w + 8 \in m <=> w \in b1
       /\ w \in m <=> w \in b2

\* The first byte goes to the front.
LEMMA TwoBytes ==
  ASSUME NEW b0 \in SUBSET (0 .. 7), NEW b1 \in SUBSET (0 .. 7)
  PROVE  MadeOfTwo(MergeBytes16(b0, b1), b0, b1)
<1>1. MergeBytes16(b0, b1) = {w + 8 : w \in b0} \cup b1
  BY DEF MergeBytes16, ShiftLeft
<1>2. {w + 8 : w \in b0} \subseteq 8 .. 15
  OBVIOUS
<1>3. \A w \in 0 .. 7 : w + 8 \in {x + 8 : x \in b0} <=> w \in b0
  OBVIOUS
<1>4. \A w \in 0 .. 7 : w + 8 \notin 0 .. 7 /\ w \notin 8 .. 15
  OBVIOUS
<1>5. 8 .. 15 \subseteq 0 .. 15 /\ 0 .. 7 \subseteq 0 .. 15
  OBVIOUS
<1> QED
  BY <1>1, <1>2, <1>3, <1>4, <1>5 DEF MadeOfTwo

\* Of three bytes too.
LEMMA ThreeBytes ==
  ASSUME NEW b0 \in SUBSET (0 .. 7), NEW b1 \in SUBSET (0 .. 7),
         NEW b2 \in SUBSET (0 .. 7)
  PROVE  MadeOfThree(MergeBytes3(b0, b1, b2), b0, b1, b2)
<1> DEFINE m == MergeBytes16(b0, b1)
<1>1. MergeBytes3(b0, b1, b2) = {w + 8 : w \in m} \cup b2
  BY DEF MergeBytes3, ShiftLeft
<1>2. /\ m \subseteq 0 .. 15
      /\ \A w \in 0 .. 7 : (w + 8 \in m <=> w \in b0) /\ (w \in m <=> w \in b1)
  BY TwoBytes DEF MadeOfTwo
<1> HIDE DEF m
<1>3. {w + 8 : w \in m} \subseteq 8 .. 23
  BY <1>2
<1>4. \A x \in 0 .. 15 : x + 8 \in {w + 8 : w \in m} <=> x \in m
  BY <1>2
<1>5. \A w \in 0 .. 7 : /\ w + 8 \in 0 .. 15 /\ (w + 8) + 8 = w + 16 /\ w \in 0 .. 15
                        /\ w + 16 \notin 0 .. 7 /\ w + 8 \notin 0 .. 7 /\ w \notin 8 .. 23
  OBVIOUS
<1>6. \A w \in 0 .. 7 : /\ w + 16 \in {x + 8 : x \in m} <=> w \in b0
                        /\ w + 8 \in {x + 8 : x \in m} <=> w \in b1
  BY <1>2, <1>4, <1>5
<1>7. 8 .. 23 \subseteq 0 .. 23 /\ 0 .. 7 \subseteq 0 .. 23
  OBVIOUS
<1> QED
  BY <1>1, <1>3, <1>5, <1>6, <1>7 DEF MadeOfThree

\* The number the first n bytes of an entry make, most significant byte first.
Merged(e, n) ==
  CASE n = 1 -> ByteOf(e, 0)
    [] n = 2 -> MergeBytes16(ByteOf(e, 0), ByteOf(e, 1))
    [] n = 3 -> MergeBytes3(ByteOf(e, 0), ByteOf(e, 1),
                                   ByteOf(e, 2))

\* Its bits are those of the packet.
LEMMA BitsOfMerged ==
  ASSUME packet \in Decodings,
         NEW e \in DatabaseEntry, NEW n \in 1 .. 3, Inside(e, n)
  PROVE  /\ Merged(e, n) \subseteq 0 .. 8 * n - 1
         /\ \A d \in 0 .. 8 * n - 1 :
              BitAt(8 * At(e) + d) <=> 8 * n - 1 - d \in Merged(e, n)
<1> DEFINE b(j) == ByteOf(e, j)
           bit(d) == BitAt(8 * At(e) + d)
<1>1. At(e) >= 0 /\ At(e) \in Int
  BY PacketTypes, BitsOfEntry DEF Inside, At
<1>2. \A j \in 0 .. n - 1 : b(j) \subseteq 0 .. 7
  <2> SUFFICES ASSUME NEW j \in 0 .. n - 1 PROVE b(j) \subseteq 0 .. 7
    OBVIOUS
  <2>1. b(j) \in Byte
    BY InsideBytes
  <2> QED
    BY <2>1 DEF Byte, Low
<1>3. \A j \in Nat : \A r \in 0 .. 7 : bit(8 * j + r) <=> 7 - r \in b(j)
  BY <1>1, BitInByte
<1>4. \A r \in 0 .. 7 : /\ bit(r) <=> 7 - r \in b(0)
                        /\ bit(8 + r) <=> 7 - r \in b(1)
                        /\ bit(16 + r) <=> 7 - r \in b(2)
  <2> SUFFICES ASSUME NEW r \in 0 .. 7
               PROVE  /\ bit(r) <=> 7 - r \in b(0)
                      /\ bit(8 + r) <=> 7 - r \in b(1)
                      /\ bit(16 + r) <=> 7 - r \in b(2)
    OBVIOUS
  <2> HIDE DEF b, bit
  <2>1. 8 * 0 + r = r /\ 8 * 1 + r = 8 + r /\ 8 * 2 + r = 16 + r
    OBVIOUS
  <2>2. /\ bit(8 * 0 + r) <=> 7 - r \in b(0)
        /\ bit(8 * 1 + r) <=> 7 - r \in b(1)
        /\ bit(8 * 2 + r) <=> 7 - r \in b(2)
    BY <1>3
  <2> QED
    BY <2>1, <2>2
<1> HIDE DEF b, bit
<1>5. CASE n = 1
  <2>1. Merged(e, n) = b(0)
    BY <1>5 DEF Merged, b
  <2> QED
    BY <1>2, <1>4, <1>5, <2>1 DEF bit
<1>6. CASE n = 2
  <2>1. MadeOfTwo(Merged(e, n), b(0), b(1))
    <3>1. Merged(e, n) = MergeBytes16(b(0), b(1))
      BY <1>6 DEF Merged, b
    <3>2. b(0) \in SUBSET (0 .. 7) /\ b(1) \in SUBSET (0 .. 7)
      BY <1>2, <1>6
    <3> QED
      BY <3>1, <3>2, TwoBytes
  <2>2. ASSUME NEW d \in 0 .. 15 PROVE bit(d) <=> 15 - d \in Merged(e, n)
    <3>1. CASE d \in 0 .. 7
      <4> DEFINE r == d
      <4>1. r \in 0 .. 7 /\ 7 - r \in 0 .. 7 /\ d = r /\ 15 - d = (7 - r) + 8
        BY <3>1
      <4> HIDE DEF r
      <4>2. 15 - d \in Merged(e, n) <=> 7 - r \in b(0)
        BY <2>1, <4>1 DEF MadeOfTwo
      <4>3. bit(d) <=> 7 - r \in b(0)
        BY <1>4, <4>1
      <4> QED
        BY <4>2, <4>3
    <3>2. CASE d \in 8 .. 15
      <4> DEFINE r == d - 8
      <4>1. r \in 0 .. 7 /\ 7 - r \in 0 .. 7 /\ d = 8 + r /\ 15 - d = 7 - r
        BY <3>2
      <4> HIDE DEF r
      <4>2. 15 - d \in Merged(e, n) <=> 7 - r \in b(1)
        BY <2>1, <4>1 DEF MadeOfTwo
      <4>3. bit(d) <=> 7 - r \in b(1)
        BY <1>4, <4>1
      <4> QED
        BY <4>2, <4>3
    <3> QED
      BY <3>1, <3>2
  <2>3. 8 * n - 1 = 15
    BY <1>6
  <2> QED
    BY <2>1, <2>2, <2>3 DEF bit, MadeOfTwo
<1>7. CASE n = 3
  <2>1. MadeOfThree(Merged(e, n), b(0), b(1), b(2))
    <3>1. Merged(e, n) = MergeBytes3(b(0), b(1), b(2))
      BY <1>7 DEF Merged, b
    <3>2. /\ b(0) \in SUBSET (0 .. 7) /\ b(1) \in SUBSET (0 .. 7)
          /\ b(2) \in SUBSET (0 .. 7)
      BY <1>2, <1>7
    <3> QED
      BY <3>1, <3>2, ThreeBytes
  <2>2. ASSUME NEW d \in 0 .. 23 PROVE bit(d) <=> 23 - d \in Merged(e, n)
    <3>1. CASE d \in 0 .. 7
      <4> DEFINE r == d
      <4>1. r \in 0 .. 7 /\ 7 - r \in 0 .. 7 /\ d = r /\ 23 - d = (7 - r) + 16
        BY <3>1
      <4> HIDE DEF r
      <4>2. 23 - d \in Merged(e, n) <=> 7 - r \in b(0)
        BY <2>1, <4>1 DEF MadeOfThree
      <4>3. bit(d) <=> 7 - r \in b(0)
        BY <1>4, <4>1
      <4> QED
        BY <4>2, <4>3
    <3>2. CASE d \in 8 .. 15
      <4> DEFINE r == d - 8
      <4>1. r \in 0 .. 7 /\ 7 - r \in 0 .. 7 /\ d = 8 + r /\ 23 - d = (7 - r) + 8
        BY <3>2
      <4> HIDE DEF r
      <4>2. 23 - d \in Merged(e, n) <=> 7 - r \in b(1)
        BY <2>1, <4>1 DEF MadeOfThree
      <4>3. bit(d) <=> 7 - r \in b(1)
        BY <1>4, <4>1
      <4> QED
        BY <4>2, <4>3
    <3>3. CASE d \in 16 .. 23
      <4> DEFINE r == d - 16
      <4>1. r \in 0 .. 7 /\ 7 - r \in 0 .. 7 /\ d = 16 + r /\ 23 - d = 7 - r
        BY <3>3
      <4> HIDE DEF r
      <4>2. 23 - d \in Merged(e, n) <=> 7 - r \in b(2)
        BY <2>1, <4>1 DEF MadeOfThree
      <4>3. bit(d) <=> 7 - r \in b(2)
        BY <1>4, <4>1
      <4> QED
        BY <4>2, <4>3
    <3> QED
      BY <3>1, <3>2, <3>3
  <2>3. 8 * n - 1 = 23
    BY <1>7
  <2> QED
    BY <2>1, <2>2, <2>3 DEF bit, MadeOfThree
<1> QED
  BY <1>5, <1>6, <1>7

\* A field of the packet, in terms of the number its bytes make.
LEMMA FieldOfMerged ==
  ASSUME packet \in Decodings,
         NEW e \in DatabaseEntry, NEW n \in 1 .. 3, Inside(e, n),
         NEW lo \in 0 .. 8 * n - 1, NEW hi \in 0 .. 8 * n - 1
  PROVE  Field(8 * At(e) + lo, 8 * At(e) + hi) =
           {hi - d : d \in {x \in lo .. hi : 8 * n - 1 - x \in Merged(e, n)}}
<1> DEFINE s == 8 * At(e)
           F == {d \in s + lo .. s + hi : BitAt(d)}
           G == {x \in lo .. hi : 8 * n - 1 - x \in Merged(e, n)}
<1>1. s \in Int
  BY PacketTypes, BitsOfEntry DEF At
<1>2. \A d \in 0 .. 8 * n - 1 : BitAt(s + d) <=> 8 * n - 1 - d \in Merged(e, n)
  BY BitsOfMerged
<1> HIDE DEF s
<1>3. Field(s + lo, s + hi) = {(s + hi) - k : k \in F}
  BY DEF Field
<1>4. ASSUME NEW k \in F PROVE k - s \in G /\ (s + hi) - k = hi - (k - s)
  <2>1. k - s \in lo .. hi /\ k - s \in 0 .. 8 * n - 1 /\ k = s + (k - s)
    BY <1>1
  <2>2. 8 * n - 1 - (k - s) \in Merged(e, n)
    BY <1>2, <2>1
  <2> QED
    BY <1>1, <2>1, <2>2
<1>5. ASSUME NEW x \in G PROVE s + x \in F /\ (s + hi) - (s + x) = hi - x
  <2>1. s + x \in s + lo .. s + hi /\ x \in 0 .. 8 * n - 1
    BY <1>1
  <2> QED
    BY <1>1, <1>2, <2>1
<1> HIDE DEF F, G
<1>6. {(s + hi) - k : k \in F} = {hi - d : d \in G}
  BY <1>4, <1>5
<1> QED
  BY <1>3, <1>6 DEF G, s

\* What is decoded from the bytes of an entry, for those FieldsOfPacket speaks of.
LEMMA FieldDecoded ==
  ASSUME packet \in Decodings,
         NEW e \in DatabaseEntry, LoadsData(e), Unsigned(e),
         Sane(e),
         \/ e.bits = <<>> /\ NumBytes(e) <= 3
         \/ Len(e.bits) = 2 /\ NumBytes(e) = 2
  PROVE  DecodeBytes(e, OwnBytes(e), NumBytes(e)) = {RangeOf(e)}
<1> DEFINE n == NumBytes(e)
           s == 8 * At(e)
           m == Merged(e, n)
<1>1. n \in 1 .. 3 /\ Inside(e, n)
  BY BitsOfEntry DEF LoadsData
<1>2. e.bits \in Seq(Nat) /\ e.type # "SIGNED" /\ s \in Int
  BY PacketTypes, BitsOfEntry DEF DatabaseEntry, Unsigned, At
<1>3. \A j \in 0 .. 3 : j < n => OwnBytes(e)[j] = ByteOf(e, j)
  BY DEF OwnBytes
<1>4. \A first, last \in 0 .. 8 * n - 1 :
        Field(s + first, s + last) =
          {last - d : d \in {x \in first .. last : 8 * n - 1 - x \in m}}
  BY <1>1, FieldOfMerged
<1>5. m \subseteq 0 .. 8 * n - 1
  BY <1>1, BitsOfMerged
<1> HIDE DEF n, s, m
<1>6. CASE e.bits = <<>>
  <2>1. RangeOf(e) = Field(s, s + 8 * n - 1)
    BY <1>6 DEF RangeOf, n, s
  <2>2. Field(s, s + 8 * n - 1) = m
    <3>1. s + 0 = s /\ s + (8 * n - 1) = s + 8 * n - 1
      BY <1>1, <1>2
    <3>2. 0 \in 0 .. 8 * n - 1 /\ 8 * n - 1 \in 0 .. 8 * n - 1
      BY <1>1
    <3>3. Field(s + 0, s + (8 * n - 1)) =
            {8 * n - 1 - d : d \in {x \in 0 .. 8 * n - 1 : 8 * n - 1 - x \in m}}
      BY <1>4, <3>2
    <3>4. \A w \in 0 .. 8 * n - 1 :
            8 * n - 1 - w \in 0 .. 8 * n - 1 /\ 8 * n - 1 - (8 * n - 1 - w) = w
      BY <1>1
    <3>5. {8 * n - 1 - d : d \in {x \in 0 .. 8 * n - 1 : 8 * n - 1 - x \in m}} = m
      BY <1>5, <3>4
    <3> QED
      BY <3>1, <3>3, <3>5
  <2>3. IsWhole(e)
    BY <1>6 DEF IsWhole, BitLower, BitUpper
  <2>4. DecodeBytes(e, OwnBytes(e), n) = {m}
    <3>1. CASE n = 1
      BY <1>3, <2>3, <3>1 DEF DecodeBytes, DecodeOne, Merged, m
    <3>2. CASE n = 2
      BY <1>2, <1>3, <2>3, <3>2 DEF DecodeBytes, DecodeTwo, Merged, m
    <3>3. CASE n = 3
      BY <1>3, <2>3, <3>3 DEF DecodeBytes, DecodeThree, Merged, m
    <3> QED
      BY <1>1, <3>1, <3>2, <3>3
  <2> QED
    BY <2>1, <2>2, <2>4 DEF n
<1>7. CASE Len(e.bits) = 2 /\ n = 2
  <2> DEFINE lower == e.bits[1]
             upper == e.bits[2]
  <2>1. /\ lower \in 0 .. 15 /\ upper \in 0 .. 15 /\ lower < upper
        /\ BitLower(e.bits) = lower /\ BitUpper(e.bits) = upper
    <3>1. lower \in Nat /\ upper \in Nat
      BY <1>2, <1>7
    <3>2. lower < upper /\ lower < 16 /\ upper < 16
      BY <1>2, <1>7 DEF Sane, n
    <3>3. BitLower(e.bits) = lower /\ BitUpper(e.bits) = upper
      BY <1>2, <1>7 DEF BitLower, BitUpper
    <3> HIDE DEF lower, upper
    <3>4. \A x \in Nat : x < 16 => x \in 0 .. 15
      OBVIOUS
    <3>5. lower \in 0 .. 15 /\ upper \in 0 .. 15
      BY <3>1, <3>2, <3>4
    <3> QED
      BY <3>2, <3>3, <3>5
  <2>2. RangeOf(e) = Field(s + lower, s + upper)
    BY <1>2, <1>7 DEF RangeOf, s
  <2> HIDE DEF lower, upper
  <2>3. ~IsWhole(e) /\ Width(e) = upper - lower + 1
    BY <2>1 DEF IsWhole, Width
  <2>4. Extract16(m, lower, upper - lower + 1) =
          {upper - p : p \in {d \in lower .. upper : 15 - d \in m}}
    <3> DEFINE len == upper - lower + 1
               stop == IF len < 0 \/ lower + len > 16 THEN 16 ELSE lower + len
    <3>1. stop - 1 = upper
      <4>1. lower \in Nat /\ upper \in Nat /\ lower < upper /\ upper <= 15
        BY <2>1
      <4> QED
        BY <4>1
    <3>2. Extract16(m, lower, len) =
            {stop - 1 - p : p \in {d \in lower .. stop - 1 : 16 - 1 - d \in m}}
      BY Zenon DEF Extract16, Substring
    <3> HIDE DEF stop
    <3>3. Extract16(m, lower, len) =
            {upper - p : p \in {d \in lower .. upper : 16 - 1 - d \in m}}
      BY <3>1, <3>2
    <3>4. 16 - 1 = 15
      OBVIOUS
    <3> QED
      BY <3>3, <3>4
  <2>5. DecodeBytes(e, OwnBytes(e), n) =
          {Extract16(m, lower, upper - lower + 1)}
    <3>1. m = MergeBytes16(OwnBytes(e)[0], OwnBytes(e)[1])
      BY <1>3, <1>7 DEF Merged, m
    <3> QED
      BY <1>2, <1>7, <2>1, <2>3, <3>1 DEF DecodeBytes, DecodeTwo
  <2>6. Field(s + lower, s + upper) =
          {upper - d : d \in {x \in lower .. upper : 15 - x \in m}}
    <3>1. 8 * n - 1 = 15
      BY <1>7
    <3>2. lower \in 0 .. 8 * n - 1 /\ upper \in 0 .. 8 * n - 1
      BY <2>1, <3>1
    <3>3. Field(s + lower, s + upper) =
            {upper - d : d \in {x \in lower .. upper : 8 * n - 1 - x \in m}}
      BY <1>4, <3>2
    <3> QED
      BY <3>1, <3>3
  <2> QED
    BY <2>2, <2>4, <2>5, <2>6 DEF n
<1> QED
  BY <1>6, <1>7 DEF n

-----------------------------------------------------------------------------
\* An entry that could be loaded is decoded from its own bytes alone, whatever the
\* entries before it left in the members of DataDecode.
THEOREM ValuesFromOwnBytes ==
  DecodingSpec => []OwnBytesOnly
<1>1. DecoderInv => OwnBytesOnly
  BY DEF DecoderInv
<1> QED
  BY <1>1, DecodingInvariant, PTL

\* Whole bytes and ranges in two bytes hold what the packet holds there.
THEOREM ValuesOfPacket ==
  DecodingSpec => []FieldsOfPacket
<1>1. ASSUME DecoderInv PROVE FieldsOfPacket
  <2> SUFFICES ASSUME NEW k \in DOMAIN decoded,
                      InPacket, Unsigned(DecodedEntry(k)),
                      Sane(DecodedEntry(k)),
                      \/ /\ DecodedEntry(k).bits = <<>>
                         /\ NumBytes(DecodedEntry(k)) <= 3
                      \/ /\ Len(DecodedEntry(k).bits) = 2
                         /\ NumBytes(DecodedEntry(k)) = 2
               PROVE  data[k].value = RangeOf(DecodedEntry(k))
    BY DEF FieldsOfPacket
  <2> DEFINE e == DecodedEntry(k)
  <2>1. e \in DatabaseEntry /\ packet \in Decodings
    BY <1>1 DEF DecoderInv, DecodingTypeOK, DecodedEntry
  <2>2. LoadsData(e)
    BY <1>1 DEF DecoderInv, InPacket
  <2>3. data[k].value \in DecodeBytes(e, OwnBytes(e), NumBytes(e))
    <3>1. FromOwnBytes(decoded[k], data[k].value)
      BY <1>1, OwnBytesEach DEF DecoderInv
    <3> QED
      BY <2>2, <3>1 DEF FromOwnBytes, DecodedEntry, Unsigned
  <2> HIDE DEF e
  <2>4. DecodeBytes(e, OwnBytes(e), NumBytes(e)) = {RangeOf(e)}
    <3>1. /\ Unsigned(e) /\ Sane(e)
          /\ \/ e.bits = <<>> /\ NumBytes(e) <= 3
             \/ Len(e.bits) = 2 /\ NumBytes(e) = 2
      BY DEF e
    <3> QED
      BY <2>1, <2>2, <3>1, FieldDecoded
  <2> QED
    BY <2>3, <2>4 DEF e
<1> QED
  BY <1>1, DecodingInvariant, PTL

\* An entry that does not fit takes no other with it.
THEOREM DecodesEntriesInside ==
  DecodingSpec => []EntriesInside
<1>1. ASSUME DecoderInv PROVE EntriesInside
  <2> SUFFICES ASSUME step = "done"
               PROVE  decoded = Kept(EntryPlaces, Decodable)
    BY DEF EntriesInside, EntryPlaces
  <2>1. /\ Len(EntryPlaces) = Len(packet.entries) /\ Len(packet.entries) \in Nat
        /\ entryIndex - 1 = Len(packet.entries)
    BY <1>1, PlacesAreSequence DEF DecoderInv
  <2>2. decoded = Kept(EntryPlaces, Decodable)
    BY <1>1, <2>1 DEF DecoderInv, Chosen, Kept
  <2> QED
    BY <2>2
<1> QED
  BY <1>1, DecodingInvariant, PTL

\* Entries that make sense bring no decoder to an end.
THEOREM SaneEntriesNeverThrow ==
  DecodingSpec => []SaneEntriesDecoded
<1>1. DecoderInv => SaneEntriesDecoded
  BY DEF DecoderInv
<1> QED
  BY <1>1, DecodingInvariant, PTL
=============================================================================
