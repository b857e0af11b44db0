------------------------------ MODULE ScanFormat ------------------------------
(***************************************************************************)
(* InstrumentFormat::writeChans: the rows of the ATMS science file are     *)
(* regrouped into scans, one line per scan in each of 22 channel files.    *)
(*                                                                         *)
(* A row is one scan position.  Its field sos_sync, other than zero, flags *)
(* the start of a scan.  Of the rest of a row, its scan angle and its 22   *)
(* counts, only the number of the row is kept; scans and the chans of the  *)
(* 22 outpacks are always assigned together, so one array stands for them, *)
(* and one sequence of lines for the 22 files.                             *)
(***************************************************************************)
EXTENDS Integers, Sequences, FiniteSetsExt

CONSTANTS
  Samples,        (* the size of scans and of chans; 104                   *)
  CounterLimit,   (* scanCounter wraps around there; 2^16                  *)
  Buffers         (* the inputs: per row, whether sos_sync is set          *)

ASSUME SizeAssumption ==
  /\ Samples \in Nat \ {0}
  /\ CounterLimit \in Nat
  /\ Samples < CounterLimit

ASSUME BufferAssumption == Buffers \subseteq Seq(BOOLEAN)

VARIABLES
  buf,           (* the rows, counted from 0 as in the code                *)
  i,             (* row at which the next line begins                      *)
  k,             (* row that is looked at                                  *)
  scanCounter,   (* position in the scan                                   *)
  scans,         (* per position the row whose sample is there             *)
  time,          (* row that the time of the line is taken from            *)
  lines,         (* what was written: time and samples of each line        *)
  pc             (* at the outer loop, the inner loop, the write, or done  *)

vars == <<buf, i, k, scanCounter, scans, time, lines, pc>>

bufSize == Len(buf)
SosSync(r) == buf[r + 1]

\* The arrays are filled with zeros, which are no row's sample.
NoRow == -1
Position == 0 .. Samples - 1
Line == [time : Nat, samples : [Position -> Nat \cup {NoRow}]]

TypeOK ==
  /\ buf \in Seq(BOOLEAN)
  /\ i \in 0 .. bufSize
  /\ k \in 0 .. bufSize
  /\ scanCounter \in 0 .. CounterLimit - 1
  /\ scans \in [Position -> Nat \cup {NoRow}]
  /\ time \in Nat
  /\ lines \in Seq(Line)
  /\ pc \in {"outer", "inner", "write", "done"}

Init ==
  /\ buf \in Buffers
  /\ i = 0
  /\ k = 0
  /\ scanCounter = 1
  /\ scans = [p \in Position |-> NoRow]
  /\ time = 0
  /\ lines = <<>>
  /\ pc = "outer"

-----------------------------------------------------------------------------
\* Wrong: scanCounter goes on from the last scan.
BeginLineWithoutReset ==
  /\ pc = "outer"
  /\ i < bufSize
  /\ time' = i
  /\ scans' = [scans EXCEPT ![0] = i]
  /\ i' = i + 1
  /\ k' = i + 1
  /\ pc' = "inner"
  /\ UNCHANGED <<buf, scanCounter, lines>>

\* Time and first sample come from row i; i goes on, so that the inner loop
\* does not stop at the flag of this row.
BeginLine ==
  /\ pc = "outer"
  /\ i < bufSize
  /\ time' = i
  /\ scans' = [scans EXCEPT ![0] = i]
  /\ i' = i + 1
  /\ k' = i + 1
  /\ scanCounter' = 1
  /\ pc' = "inner"
  /\ UNCHANGED <<buf, lines>>

\* A row of the same scan.  If it has no place, at throws and the catch
\* clause logs a gap.
TakeRow ==
  /\ pc = "inner"
  /\ k < bufSize /\ ~SosSync(k)
  /\ scans' = IF scanCounter \in Position
              THEN [scans EXCEPT ![scanCounter] = k] ELSE scans
  /\ scanCounter' = (scanCounter + 1) % CounterLimit
  /\ k' = k + 1
  /\ UNCHANGED <<buf, i, time, lines, pc>>

\* Wrong: the row with the flag is skipped.
StopBehindFlag ==
  /\ pc = "inner"
  /\ k < bufSize /\ SosSync(k)
  /\ i' = k + 1
  /\ pc' = "write"
  /\ UNCHANGED <<buf, k, scanCounter, scans, time, lines>>

\* Wrong: the next line begins one row too early.
StopBeforeFlag ==
  /\ pc = "inner"
  /\ k < bufSize /\ SosSync(k)
  /\ i' = k - 1
  /\ pc' = "write"
  /\ UNCHANGED <<buf, k, scanCounter, scans, time, lines>>

\* The flag of the next scan.
StopAtFlag ==
  /\ pc = "inner"
  /\ k < bufSize /\ SosSync(k)
  /\ i' = k
  /\ pc' = "write"
  /\ UNCHANGED <<buf, k, scanCounter, scans, time, lines>>

\* No row is left.  i still is the row behind the first of this scan.
StopAtEnd ==
  /\ pc = "inner"
  /\ k >= bufSize
  /\ pc' = "write"
  /\ UNCHANGED <<buf, i, k, scanCounter, scans, time, lines>>

\* The arrays keep what they hold.
WriteLine ==
  /\ pc = "write"
  /\ lines' = Append(lines, [time |-> time, samples |-> scans])
  /\ pc' = "outer"
  /\ UNCHANGED <<buf, i, k, scanCounter, scans, time>>

Finish ==
  /\ pc = "outer"
  /\ i >= bufSize
  /\ pc' = "done"
  /\ UNCHANGED <<buf, i, k, scanCounter, scans, time, lines>>

Done == pc = "done" /\ UNCHANGED vars

Next ==
  \/ BeginLine \/ TakeRow \/ StopAtFlag \/ StopAtEnd \/ WriteLine
  \/ Finish \/ Done

Safety == Init /\ [][Next]_vars

\* The Decom thread runs.
Spec == Safety /\ WF_vars(Next)

-----------------------------------------------------------------------------
(***************************************************************************)
(* Properties.                                                             *)
(***************************************************************************)

\* Where a scan begins: at its flag, and the first one at the first row.
ScanStarts == {r \in 0 .. bufSize - 1 : r = 0 \/ SosSync(r)}

\* The rows from r up to the next flag.
FlagsAfter(r) == {f \in r + 1 .. bufSize - 1 : SosSync(f)}
RowsFrom(r) ==
  (IF FlagsAfter(r) = {} THEN bufSize ELSE Min(FlagsAfter(r))) - r

\* The rows of the scan that begins with row r whose sample goes to place p: more
\* than one only when scanCounter has wrapped around.
RowsAt(r, p) == {r + j : j \in {n \in 0 .. RowsFrom(r) - 1 : n % CounterLimit = p}}

\* What a line holds at each position.  If its scan has a row for it, the sample
\* of that row: a scan that is too long for the places loses its end and nothing
\* else, and only one too long for the counter goes on at its start.  If it has
\* none, what the line before has there, and never a sample from behind the scan.
SamplesInPlace ==
  \A n \in DOMAIN lines : \A p \in Position :
    LET rows == RowsAt(lines[n].time, p)
    IN  lines[n].samples[p] = IF rows # {} THEN Max(rows)
                              ELSE IF n = 1 THEN NoRow ELSE lines[n - 1].samples[p]

\* The lines are in the order of the rows they begin with, no row begins two.
LinesInOrder ==
  \A m, n \in DOMAIN lines : m < n => lines[m].time < lines[n].time

\* Every scan has its line in the end: the loops get on, and skip no scan.
EveryScanWritten == <>(ScanStarts \subseteq {lines[n].time : n \in DOMAIN lines})

\* "Handles accumulating data from between scans and writing it to file.":
\* there is a line for a scan, and for nothing else.
OneLinePerScan == \A n \in DOMAIN lines : lines[n].time \in ScanStarts
=============================================================================
