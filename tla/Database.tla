------------------------------- MODULE Database -------------------------------
(***************************************************************************)
(* The telemetry database: DatabaseReader::init reads four files of rows   *)
(* into entries on the GUI thread, getEntries sorts them, and              *)
(* Decom::getEntries looks up the entries of one APID after the other, in  *)
(* caches that it fills as it goes.                                        *)
(*                                                                         *)
(* A row is the record of its columns.  NoNumber stands for a text         *)
(* without digits.  The type column is only kept, and is left out.         *)
(***************************************************************************)
EXTENDS BitFields, FiniteSets, Selection

CONSTANTS
  Mnemonics,        (* the names of telemetry points                       *)
  HeaderMnemonics,  (* those that bannedAPID finds in m_skip               *)
  Apids,            (* what packets ask for                                *)
  Inputs            (* the files and the selection of APIDs                *)

NoNumber == -1
Number == Nat \cup {NoNumber}

Row == [mnem : Mnemonics, columns : Nat, apid : Number, byte : Number,
        bits : Seq(Nat), length : Number]

\* A file that cannot be opened has no lines at all: not even a header.
File == [exists : BOOLEAN, rows : Seq(Row)]

\* The database of the satellite type, then those of the instruments.
Names == <<"type", "atms", "omps", "ceres">>

Input == [files : [{Names[n] : n \in DOMAIN Names} -> File],
          m_allAPIDs : BOOLEAN, m_APIDs : SUBSET Nat]

ASSUME DatabaseAssumption ==
  /\ HeaderMnemonics \subseteq Mnemonics
  /\ Apids \subseteq Nat
  /\ Inputs \subseteq Input

Entry == [mnemonic : Mnemonics, i_APID : Nat, byte : Nat, bitLower : Nat,
          bitUpper : Nat, length : Nat, ignored : BOOLEAN]

VARIABLES
  input,          (* what is on the disk and what the user entered         *)
  pc,             (* open, rows, sort, decom; exited or terminated         *)
  file,           (* the index in Names of the file to read                *)
  row,            (* the rows of that file that were read                  *)
  m_firstRun,
  m_entries,
  m_mapEntries,   (* per APID the entries Decom has looked up              *)
  m_missingAPIDs,
  asked           (* history: the APIDs that were looked up                *)

caches == <<m_mapEntries, m_missingAPIDs, asked>>
vars == <<input, pc, file, row, m_firstRun, m_entries, caches>>

PC == {"open", "rows", "sort", "decom", "exited", "terminated"}

TypeOK ==
  /\ input \in Inputs
  /\ pc \in PC
  /\ file \in 1 .. Len(Names) + 1
  /\ row \in Nat
  /\ m_firstRun \in BOOLEAN
  /\ m_entries \in Seq(Entry)
  /\ m_mapEntries \in [Apids -> Seq(Entry)]
  /\ m_missingAPIDs \in Seq(Apids)
  /\ asked \subseteq Apids

Init ==
  /\ input \in Inputs
  /\ pc = "open"
  /\ file = 1
  /\ row = 0
  /\ m_firstRun = TRUE
  /\ m_entries = <<>>
  /\ m_mapEntries = [a \in Apids |-> <<>>]
  /\ m_missingAPIDs = <<>>
  /\ asked = {}

-----------------------------------------------------------------------------
(***************************************************************************)
(* readDatabase.  Definitions marked "Wrong:" are variants with a bug that *)
(* no specification uses.                                                  *)
(***************************************************************************)
Rows == input.files[Names[file]].rows

\* checkFile: without a file the process exits.
OpenDatabase ==
  /\ pc = "open"
  /\ file \in DOMAIN Names
  /\ pc' = IF input.files[Names[file]].exists THEN "rows" ELSE "exited"
  /\ row' = 0
  /\ UNCHANGED <<input, file, m_firstRun, m_entries, caches>>

SkipHeaderRow ==
  /\ pc = "rows"
  /\ row < Len(Rows)
  /\ m_firstRun
  /\ m_firstRun' = FALSE
  /\ row' = row + 1
  /\ UNCHANGED <<input, pc, file, m_entries, caches>>

\* at throws for a column that is not there, substr for an empty type column,
\* stoi for a length that is no number: nobody catches that.
Readable(r) == r.columns >= 4 /\ r.length # NoNumber

\* An APID or byte that is no number is logged and counts as 0.
NumberOrZero(n) == IF n = NoNumber THEN 0 ELSE n

Selected(apid) == input.m_allAPIDs \/ apid \in input.m_APIDs

BannedAPID(mnem) == mnem \in HeaderMnemonics

EntryOf(r) ==
  [mnemonic |-> r.mnem, i_APID |-> NumberOrZero(r.apid),
   byte |-> NumberOrZero(r.byte), bitLower |-> BitLower(r.bits),
   bitUpper |-> BitUpper(r.bits), length |-> r.length,
   ignored |-> ~Selected(NumberOrZero(r.apid)) \/ BannedAPID(r.mnem)]

AddEntry ==
  /\ pc = "rows"
  /\ row < Len(Rows)
  /\ ~m_firstRun
  /\ Readable(Rows[row + 1])
  /\ m_entries' = Append(m_entries, EntryOf(Rows[row + 1]))
  /\ row' = row + 1
  /\ UNCHANGED <<input, pc, file, m_firstRun, caches>>

TerminateOnRow ==
  /\ pc = "rows"
  /\ row < Len(Rows)
  /\ ~m_firstRun
  /\ ~Readable(Rows[row + 1])
  /\ pc' = "terminated"
  /\ UNCHANGED <<input, file, row, m_firstRun, m_entries, caches>>

\* Wrong: the next header row is not expected again.
CloseForGood ==
  /\ pc = "rows"
  /\ row = Len(Rows)
  /\ pc' = IF file = Len(Names) THEN "sort" ELSE "open"
  /\ file' = file + 1
  /\ UNCHANGED <<input, row, m_firstRun, m_entries, caches>>

CloseDatabase ==
  /\ pc = "rows"
  /\ row = Len(Rows)
  /\ pc' = IF file = Len(Names) THEN "sort" ELSE "open"
  /\ file' = file + 1
  /\ m_firstRun' = TRUE
  /\ UNCHANGED <<input, row, m_entries, caches>>

-----------------------------------------------------------------------------
(***************************************************************************)
(* DatabaseReader::getEntries.  std::sort may leave entries that compare   *)
(* equal in any order.                                                     *)
(***************************************************************************)
\* Wrong: the bits do not count.
BeforeByByte(a, b) ==
  \/ a.i_APID < b.i_APID
  \/ a.i_APID = b.i_APID /\ a.byte < b.byte

Before(a, b) ==
  \/ a.i_APID < b.i_APID
  \/ /\ a.i_APID = b.i_APID
     /\ a.byte < b.byte \/ (a.byte = b.byte /\ a.bitLower < b.bitLower)

Rearrangements(S) == {p \in [S -> S] : \A j \in S : \E i \in S : p[i] = j}

InOrder(entries) ==
  \A i, j \in DOMAIN entries : i < j => ~Before(entries[j], entries[i])

SortEntries ==
  /\ pc = "sort"
  /\ \E p \in Rearrangements(DOMAIN m_entries) :
       m_entries' = [i \in DOMAIN m_entries |-> m_entries[p[i]]]
  /\ InOrder(m_entries')
  /\ pc' = "decom"
  /\ UNCHANGED <<input, file, row, m_firstRun, caches>>

-----------------------------------------------------------------------------
(***************************************************************************)
(* Decom::getEntries, once per packet, with the APID of its header.        *)
(***************************************************************************)
HasRow(a) == \E i \in DOMAIN m_entries : m_entries[i].i_APID = a
PlacesOf(a) == {i \in DOMAIN m_entries :
                  m_entries[i].i_APID = a /\ ~m_entries[i].ignored}
Unignored(a) == Kept(m_entries, PlacesOf(a))

IsMissing(a) == \E i \in DOMAIN m_missingAPIDs : m_missingAPIDs[i] = a

\* Wrong: what was loaded before is not looked for.
LookUpAlways(a) ==
  /\ pc = "decom"
  /\ ~IsMissing(a)
  /\ m_mapEntries' = [m_mapEntries EXCEPT ![a] = @ \o Unignored(a)]
  /\ m_missingAPIDs' =
       IF HasRow(a) THEN m_missingAPIDs ELSE Append(m_missingAPIDs, a)
  /\ asked' = asked \cup {a}
  /\ UNCHANGED <<input, pc, file, row, m_firstRun, m_entries>>

\* Wrong: an APID whose entries are all ignored counts as missing.
LookUpUnignored(a) ==
  /\ pc = "decom"
  /\ ~IsMissing(a) /\ m_mapEntries[a] = <<>>
  /\ m_mapEntries' = [m_mapEntries EXCEPT ![a] = Unignored(a)]
  /\ m_missingAPIDs' = IF Unignored(a) # <<>> THEN m_missingAPIDs
                       ELSE Append(m_missingAPIDs, a)
  /\ asked' = asked \cup {a}
  /\ UNCHANGED <<input, pc, file, row, m_firstRun, m_entries>>

\* Nothing was loaded for the APID, which is not known to be missing.
LookUp(a) ==
  /\ pc = "decom"
  /\ ~IsMissing(a) /\ m_mapEntries[a] = <<>>
  /\ m_mapEntries' = [m_mapEntries EXCEPT ![a] = Unignored(a)]
  /\ m_missingAPIDs' =
       IF HasRow(a) THEN m_missingAPIDs ELSE Append(m_missingAPIDs, a)
  /\ asked' = asked \cup {a}
  /\ UNCHANGED <<input, pc, file, row, m_firstRun, m_entries>>

FindInCaches(a) ==
  /\ pc = "decom"
  /\ IsMissing(a) \/ m_mapEntries[a] # <<>>
  /\ UNCHANGED vars

\* The process has ended.
Ended == pc \in {"exited", "terminated"} /\ UNCHANGED vars

Next ==
  \/ OpenDatabase \/ SkipHeaderRow \/ AddEntry \/ TerminateOnRow
  \/ CloseDatabase \/ SortEntries
  \/ \E a \in Apids : LookUp(a) \/ FindInCaches(a)
  \/ Ended

Spec == Init /\ [][Next]_vars

-----------------------------------------------------------------------------
(***************************************************************************)
(* Properties.                                                             *)
(***************************************************************************)
DataRows == UNION {{n} \X (2 .. Len(input.files[Names[n]].rows)) : n \in DOMAIN Names}
RowAt(place) == input.files[Names[place[1]]].rows[place[2]]
RowsOf(a) == {p \in DataRows : NumberOrZero(RowAt(p).apid) = a}

\* What somebody who entered these APIDs, or ticked "All APIDs", wants of a.
Wanted(a) == {p \in RowsOf(a) : /\ input.m_allAPIDs \/ a \in input.m_APIDs
                                /\ RowAt(p).mnem \notin HeaderMnemonics}

\* Whatever was looked up before, and however often, the decoder of a packet
\* gets one entry for each wanted row of the four files and no other: the
\* header rows, the selection, m_skip and the caches all play together.
EveryWantedRowServed ==
  \A a \in asked :
    /\ Len(m_mapEntries[a]) = Cardinality(Wanted(a))
    /\ {m_mapEntries[a][i] : i \in DOMAIN m_mapEntries[a]} =
         {EntryOf(RowAt(p)) : p \in Wanted(a)}

\* The decoder gets them in the order of the packet, which its loop over the
\* bytes relies on, though the files, and so the rows, come in any order.
ServedInPacketOrder ==
  \A a \in Apids : \A i, j \in DOMAIN m_mapEntries[a] :
    LET e == m_mapEntries[a][i]
        f == m_mapEntries[a][j]
    IN  i < j => e.byte < f.byte \/ (e.byte = f.byte /\ e.bitLower <= f.bitLower)

\* "Couldn't find matching APID in database" is said once for an APID, and
\* only of APIDs without a row: not of those whose rows are all ignored.
MissingMeansNoRow ==
  /\ \A a \in Apids : IsMissing(a) <=> a \in asked /\ RowsOf(a) = {}
  /\ \A i, j \in DOMAIN m_missingAPIDs :
       i # j => m_missingAPIDs[i] # m_missingAPIDs[j]

\* The process ends while it reads only for want of a file, or because of a
\* row of data: never because of a header row, whatever the file before held.
OnlyBadFilesEndIt ==
  /\ pc = "exited" => \E n \in DOMAIN Names : ~input.files[Names[n]].exists
  /\ pc = "terminated" =>
       \E p \in DataRows : RowAt(p).columns < 4 \/ RowAt(p).length = NoNumber
=============================================================================
