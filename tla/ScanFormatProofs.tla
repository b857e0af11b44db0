---------------------------- MODULE ScanFormatProofs ----------------------------
(***************************************************************************)
(* What writeChans puts where, for every number of samples, every width of *)
(* scanCounter and every sequence of rows.                                 *)
(***************************************************************************)
EXTENDS ScanFormat, TLAPS

-----------------------------------------------------------------------------
(* Arithmetic. *)

\* A counter that wraps around counts modulo its limit.
LEMMA ModStep ==
  ASSUME NEW n \in Nat \ {0}, NEW a \in Nat
  PROVE  ((a % n) + 1) % n = (a + 1) % n
<1> DEFINE r == a % n
           d == a \div n
<1>1. r \in 0 .. n - 1 /\ d \in Int /\ a = n * d + r
  OBVIOUS
<1> HIDE DEF r, d
<1>2. CASE r + 1 < n
  <2>1. (a + 1) % n = r + 1
    BY <1>1, <1>2
  <2>2. (r + 1) % n = r + 1
    BY <1>1, <1>2
  <2> QED
    BY <2>1, <2>2 DEF r
<1>3. CASE r + 1 = n
  <2>1. a + 1 = n * (d + 1)
    BY <1>1, <1>3
  <2>2. (a + 1) % n = 0
    BY <1>1, <1>3, <2>1
  <2>3. (r + 1) % n = 0
    BY <1>1, <1>3
  <2> QED
    BY <2>2, <2>3 DEF r
<1> QED
  BY <1>1, <1>2, <1>3

\* The greatest and the smallest element of a set are its Max and Min.
LEMMA MaxOf ==
  ASSUME NEW S \in SUBSET Int, NEW m \in S, \A x \in S : x <= m
  PROVE  Max(S) = m
<1>1. \A y \in S : (\A x \in S : y >= x) => y = m
  OBVIOUS
<1> QED
  BY <1>1 DEF Max

\* The least element of a set of integers is its Min.
LEMMA MinOf ==
  ASSUME NEW S \in SUBSET Int, NEW m \in S, \A x \in S : m <= x
  PROVE  Min(S) = m
<1>1. \A y \in S : (\A x \in S : y <= x) => y = m
  OBVIOUS
<1> QED
  BY <1>1 DEF Min

-----------------------------------------------------------------------------
(***************************************************************************)
(* The inductive invariant.                                                *)
(***************************************************************************)
InScan == pc \in {"inner", "write"}

\* Where the loops are: i is the row behind the first one of the scan until the
\* flag of the next scan has been found, and k is behind what was looked at.
Places ==
  /\ InScan => time < i /\ time < k /\ time < bufSize
  /\ pc = "inner" => i = time + 1 /\ scanCounter = (k - time) % CounterLimit
  /\ pc = "write" => i \in {time + 1, k}

\* The rows that were looked at carry no flag; at the write the scan is over.
ScanSeen ==
  /\ InScan => \A f \in time + 1 .. k - 1 : ~SosSync(f)
  /\ pc = "write" => k = bufSize \/ SosSync(k)

\* The rows from r up to e that go to place p.
Within(r, e, p) == {r + j : j \in {n \in 0 .. e - r - 1 : n % CounterLimit = p}}

\* What the last line has at place p.
Before(p) == IF lines = <<>> THEN NoRow ELSE lines[Len(lines)].samples[p]

\* The arrays hold what the line is to show: so far of this scan, or of the last.
Arrays ==
  \A p \in Position :
    scans[p] = IF InScan /\ Within(time, k, p) # {} THEN Max(Within(time, k, p))
               ELSE Before(p)

\* Every line that was written begins before the one to come.
LinesBehind ==
  \A n \in DOMAIN lines : lines[n].time < IF InScan THEN time ELSE i

\* A scan that begins before where the loops are has its line, or is in work.
HasLine(r) == \E n \in DOMAIN lines : lines[n].time = r
ScansSoFar ==
  /\ \A r \in ScanStarts :
       /\ InScan /\ r < k => r = time \/ HasLine(r)
       /\ ~InScan /\ r < i => HasLine(r)
  /\ pc = "done" => i >= bufSize

IInv ==
  /\ TypeOK /\ Places /\ ScanSeen /\ Arrays
  /\ SamplesInPlace /\ LinesBehind /\ LinesInOrder /\ ScansSoFar

-----------------------------------------------------------------------------
\* What a step does to the rows that go to a place: the row with the number that
\* scanCounter stands for is added to its place.
LEMMA WithinOne ==
  ASSUME NEW r \in Nat, NEW p \in Position
  PROVE  Within(r, r + 1, p) = IF p = 0 THEN {r} ELSE {}
<1>1. \A n \in 0 .. (r + 1) - r - 1 : n = 0
  OBVIOUS
<1>2. 0 % CounterLimit = 0 /\ 0 \in 0 .. (r + 1) - r - 1
  BY SizeAssumption
<1> QED
  BY <1>1, <1>2 DEF Within

\* A row later on in the scan is added to the place scanCounter has for it.
LEMMA WithinNext ==
  ASSUME NEW r \in Nat, NEW e \in Nat, r < e, NEW p \in Position
  PROVE  /\ Within(r, e + 1, p) =
              Within(r, e, p) \cup (IF (e - r) % CounterLimit = p THEN {e} ELSE {})
         /\ \A x \in Within(r, e, p) : x \in Nat /\ x < e
<1>1. e - r \in Nat /\ 0 .. (e + 1) - r - 1 = (0 .. e - r - 1) \cup {e - r}
  OBVIOUS
<1>2. r + (e - r) = e
  OBVIOUS
<1>3. \A n \in 0 .. e - r - 1 : r + n \in Nat /\ r + n < e
  OBVIOUS
<1> QED
  BY <1>1, <1>2, <1>3 DEF Within

\* At the write the scan is complete: its rows are those that were looked at.
LEMMA ScanIsOver ==
  ASSUME TypeOK, Places, ScanSeen, pc = "write"
  PROVE  RowsFrom(time) = k - time
<1>1. time \in Nat /\ k \in 0 .. bufSize /\ time < k /\ bufSize \in Nat
  BY DEF TypeOK, Places, InScan, bufSize
<1>2. \A f \in time + 1 .. k - 1 : ~SosSync(f)
  BY DEF ScanSeen, InScan
<1>3. CASE k = bufSize
  <2>1. FlagsAfter(time) = {}
    BY <1>1, <1>2, <1>3 DEF FlagsAfter
  <2> QED
    BY <1>3, <2>1 DEF RowsFrom
<1>4. CASE k # bufSize
  <2>1. k \in FlagsAfter(time) /\ \A f \in FlagsAfter(time) : k <= f
    BY <1>1, <1>2, <1>4 DEF FlagsAfter, ScanSeen
  <2>2. FlagsAfter(time) \in SUBSET Int
    BY <1>1 DEF FlagsAfter
  <2>3. Min(FlagsAfter(time)) = k
    BY <2>1, <2>2, MinOf
  <2> QED
    BY <2>1, <2>3 DEF RowsFrom
<1> QED
  BY <1>3, <1>4

-----------------------------------------------------------------------------
(***************************************************************************)
(* The steps.                                                              *)
(***************************************************************************)
\* The steps that write no line leave the lines as they were.
LEMMA LinesStay ==
  ASSUME IInv, UNCHANGED <<buf, lines>>
  PROVE  /\ SamplesInPlace' /\ LinesInOrder'
         /\ \A p \in Position : Before(p)' = Before(p)
         /\ bufSize' = bufSize /\ ScanStarts' = ScanStarts
         /\ \A r : SosSync(r)' = SosSync(r) /\ HasLine(r)' = HasLine(r)
<1>1. buf' = buf /\ lines' = lines /\ SamplesInPlace /\ LinesInOrder
  BY DEF IInv
<1>2. bufSize' = bufSize /\ \A r : SosSync(r)' = SosSync(r)
  BY <1>1 DEF bufSize, SosSync
<1>3. \A r : HasLine(r)' = HasLine(r)
  BY <1>1 DEF HasLine
<1>4. ScanStarts' = ScanStarts
  BY <1>1, <1>2 DEF ScanStarts
<1>5. \A p \in Position : Before(p)' = Before(p)
  BY <1>1 DEF Before
<1>6. SamplesInPlace'
  <2>1. \A r, p : RowsAt(r, p)' = RowsAt(r, p)
    BY <1>1 DEF RowsAt, RowsFrom, FlagsAfter, bufSize, SosSync
  <2> HIDE DEF RowsAt
  <2> QED
    BY <1>1, <2>1 DEF SamplesInPlace
<1>7. LinesInOrder'
  BY <1>1 DEF LinesInOrder
<1> QED
  BY <1>2, <1>3, <1>4, <1>5, <1>6, <1>7

\* The row a line begins with is the first of its scan.
LEMMA BeginLineKeeps == IInv /\ BeginLine => IInv'
<1> SUFFICES ASSUME IInv, BeginLine PROVE IInv'
  OBVIOUS
<1> USE DEF IInv
<1>1. /\ pc = "outer" /\ pc' = "inner" /\ i < bufSize /\ i \in Nat /\ bufSize \in Nat
      /\ time' = i /\ i' = i + 1 /\ k' = i + 1 /\ scanCounter' = 1
      /\ scans' = [scans EXCEPT ![0] = i] /\ UNCHANGED <<buf, lines>>
  BY DEF BeginLine, TypeOK, bufSize
<1>2. 0 \in Position /\ 1 \in 0 .. CounterLimit - 1 /\ 1 % CounterLimit = 1
  BY SizeAssumption DEF Position
<1>3. TypeOK'
  BY <1>1, <1>2 DEF TypeOK, bufSize
<1>4. Places' /\ ScanSeen'
  <2>1. (i + 1) - i = 1 /\ bufSize' = bufSize
    BY <1>1 DEF bufSize
  <2> QED
    BY <1>1, <1>2, <2>1 DEF Places, ScanSeen, InScan
<1>5. Arrays'
  <2> SUFFICES ASSUME NEW p \in Position
               PROVE  scans'[p] = IF InScan' /\ Within(time', k', p) # {}
                                  THEN Max(Within(time', k', p)) ELSE Before(p)'
    BY DEF Arrays, Within
  <2>1. Within(time', k', p) = IF p = 0 THEN {i} ELSE {}
    BY <1>1, WithinOne
  <2>2. Max({i}) = i
    BY <1>1, MaxOf
  <2>3. scans[p] = Before(p) /\ Before(p)' = Before(p)
    BY <1>1, LinesStay DEF Arrays, InScan
  <2> QED
    BY <1>1, <1>2, <2>1, <2>2, <2>3 DEF TypeOK, InScan
<1>6. LinesBehind'
  BY <1>1 DEF LinesBehind, InScan
<1>7. ScansSoFar'
  <2>1. ASSUME NEW r \in ScanStarts, r < i + 1 PROVE r = i \/ HasLine(r)
    BY <1>1, <2>1 DEF ScansSoFar, InScan, ScanStarts
  <2> QED
    BY <1>1, <2>1, LinesStay DEF ScansSoFar, InScan
<1> QED
  BY <1>1, <1>3, <1>4, <1>5, <1>6, <1>7, LinesStay

\* A row without a flag goes to its place in the arrays, if it has one.
LEMMA TakeRowKeeps == IInv /\ TakeRow => IInv'
<1> SUFFICES ASSUME IInv, TakeRow PROVE IInv'
  OBVIOUS
<1> USE DEF IInv
<1>1. /\ pc = "inner" /\ pc' = "inner" /\ k < bufSize /\ ~SosSync(k)
      /\ scanCounter' = (scanCounter + 1) % CounterLimit /\ k' = k + 1
      /\ UNCHANGED <<buf, i, time, lines>>
  BY DEF TakeRow
<1>2. scans' = IF scanCounter \in Position THEN [scans EXCEPT ![scanCounter] = k] ELSE scans
  BY DEF TakeRow
<1>3. /\ k \in Nat /\ time \in Nat /\ bufSize \in Nat /\ time < k
      /\ scanCounter = (k - time) % CounterLimit /\ CounterLimit \in Nat \ {0}
  BY <1>1, SizeAssumption DEF TypeOK, Places, InScan, bufSize
<1>4. TypeOK'
  <2>1. k' \in 0 .. bufSize
    BY <1>1, <1>3
  <2>2. scanCounter' \in 0 .. CounterLimit - 1
    <3>1. scanCounter + 1 \in Nat
      BY DEF TypeOK
    <3> QED
      BY <1>1, <1>3, <3>1
  <2>3. scans' \in [Position -> Nat \cup {NoRow}]
    BY <1>2, <1>3 DEF TypeOK
  <2> QED
    BY <1>1, <2>1, <2>2, <2>3 DEF TypeOK, bufSize
<1>5. Places'
  <2>1. k - time \in Nat /\ CounterLimit \in Nat \ {0}
    BY <1>3
  <2>2. (((k - time) % CounterLimit) + 1) % CounterLimit = ((k - time) + 1) % CounterLimit
    BY <2>1, ModStep
  <2>3. scanCounter' = ((k - time) + 1) % CounterLimit
    BY <1>1, <1>3, <2>2
  <2>4. (k - time) + 1 = (k + 1) - time
    BY <1>3
  <2> QED
    BY <1>1, <1>3, <2>3, <2>4 DEF Places, InScan, bufSize
<1>6. ScanSeen'
  BY <1>1, <1>3 DEF ScanSeen, InScan, SosSync
<1>7. Arrays'
  <2> SUFFICES ASSUME NEW p \in Position
               PROVE  scans'[p] = IF InScan' /\ Within(time', k', p) # {}
                                  THEN Max(Within(time', k', p)) ELSE Before(p)'
    BY DEF Arrays, Within
  <2>1. /\ Within(time, k + 1, p) =
              Within(time, k, p) \cup (IF scanCounter = p THEN {k} ELSE {})
        /\ \A x \in Within(time, k, p) : x \in Nat /\ x < k
    BY <1>3, WithinNext
  <2>2. InScan /\ InScan' /\ Before(p)' = Before(p)
    BY <1>1, LinesStay DEF InScan
  <2>3. CASE scanCounter = p
    <3>1. scans'[p] = k
      BY <1>2, <2>3 DEF TypeOK
    <3>2. Within(time, k + 1, p) \in SUBSET Int /\ k \in Within(time, k + 1, p)
      BY <1>3, <2>1, <2>3
    <3>3. Max(Within(time, k + 1, p)) = k
      BY <1>3, <2>1, <2>3, <3>2, MaxOf
    <3> QED
      BY <1>1, <2>2, <3>1, <3>2, <3>3
  <2>4. CASE scanCounter # p
    <3>1. scans'[p] = scans[p]
      BY <1>2, <2>4 DEF TypeOK
    <3>2. Within(time, k + 1, p) = Within(time, k, p)
      BY <2>1, <2>4
    <3> QED
      BY <1>1, <2>2, <3>1, <3>2 DEF Arrays
  <2> QED
    BY <2>3, <2>4
<1>8. LinesBehind'
  BY <1>1 DEF LinesBehind, InScan
<1>9. ScansSoFar'
  <2>1. ASSUME NEW r \in ScanStarts, r < k + 1 PROVE r = time \/ HasLine(r)
    <3>1. r # k /\ r \in Nat
      BY <1>1, <1>3 DEF ScanStarts
    <3> QED
      BY <1>1, <1>3, <2>1, <3>1 DEF ScansSoFar, InScan
  <2> QED
    BY <1>1, <2>1, LinesStay DEF ScansSoFar, InScan
<1> QED
  BY <1>1, <1>4, <1>5, <1>6, <1>7, <1>8, <1>9, LinesStay

\* The two ways out of the inner loop differ in where the next line begins.
LEMMA StopKeeps == IInv /\ (StopAtFlag \/ StopAtEnd) => IInv'
<1> SUFFICES ASSUME IInv, StopAtFlag \/ StopAtEnd PROVE IInv'
  OBVIOUS
<1> USE DEF IInv
<1>1. /\ pc = "inner" /\ pc' = "write" /\ i = time + 1 /\ i' \in {time + 1, k}
      /\ k = bufSize \/ (k < bufSize /\ SosSync(k))
      /\ UNCHANGED <<buf, k, scanCounter, scans, time, lines>>
  <2>1. k \in 0 .. bufSize /\ i = time + 1 /\ bufSize \in Nat
    BY DEF TypeOK, Places, StopAtFlag, StopAtEnd, bufSize
  <2>2. CASE StopAtFlag
    BY <2>1, <2>2 DEF StopAtFlag
  <2>3. CASE StopAtEnd
    BY <2>1, <2>3 DEF StopAtEnd
  <2> QED
    BY <2>2, <2>3
<1>2. /\ InScan /\ InScan' /\ time \in Nat /\ k \in 0 .. bufSize /\ bufSize \in Nat
      /\ time < k /\ time < bufSize /\ bufSize' = bufSize
  BY <1>1 DEF TypeOK, Places, InScan, bufSize
<1>3. TypeOK'
  BY <1>1, <1>2 DEF TypeOK, bufSize
<1>4. Places' /\ ScanSeen'
  BY <1>1, <1>2 DEF Places, ScanSeen, InScan, SosSync
<1>5. Arrays'
  <2>1. \A p \in Position : Before(p)' = Before(p) /\ Within(time', k', p) = Within(time, k, p)
    BY <1>1, LinesStay
  <2> QED
    BY <1>1, <1>2, <2>1 DEF Arrays, Within
<1>6. LinesBehind'
  BY <1>1, <1>2 DEF LinesBehind
<1>7. ScansSoFar'
  BY <1>1, <1>2, LinesStay DEF ScansSoFar
<1> QED
  BY <1>1, <1>3, <1>4, <1>5, <1>6, <1>7, LinesStay

\* The line of a scan shows the arrays as they are.
LEMMA WriteLineKeeps == IInv /\ WriteLine => IInv'
<1> SUFFICES ASSUME IInv, WriteLine PROVE IInv'
  OBVIOUS
<1> USE DEF IInv
<1> DEFINE line == [time |-> time, samples |-> scans]
           last == Len(lines) + 1
<1>1. /\ pc = "write" /\ pc' = "outer" /\ lines' = Append(lines, line)
      /\ UNCHANGED <<buf, i, k, scanCounter, scans, time>>
  BY DEF WriteLine
<1>2. /\ InScan /\ ~InScan' /\ time \in Nat /\ k \in 0 .. bufSize /\ bufSize \in Nat
      /\ time < k /\ time < i /\ i \in {time + 1, k} /\ bufSize' = bufSize
      /\ lines \in Seq(Line) /\ line \in Line /\ Len(lines) \in Nat
  BY <1>1 DEF TypeOK, Places, InScan, bufSize, Line
<1>3. /\ lines' \in Seq(Line) /\ Len(lines') = last /\ lines' # <<>>
      /\ DOMAIN lines' = 1 .. last /\ DOMAIN lines = 1 .. last - 1
      /\ lines'[last] = line /\ \A n \in 1 .. last - 1 : lines'[n] = lines[n]
  <2> HIDE DEF line
  <2> QED
    BY <1>1, <1>2
<1>4. lines'[last].time = time /\ lines'[last].samples = scans
  BY <1>3
<1> HIDE DEF line
<1>5. last \in Nat \ {0}
  BY <1>2
<1>6. TypeOK'
  BY <1>1, <1>2, <1>3 DEF TypeOK, bufSize
<1>7. Places' /\ ScanSeen'
  BY <1>1, <1>2 DEF Places, ScanSeen
<1>8. Arrays'
  BY <1>1, <1>2, <1>3, <1>4 DEF Arrays, Before
<1>9. SamplesInPlace'
  <2>1. \A r, p : RowsAt(r, p)' = RowsAt(r, p)
    BY <1>1 DEF RowsAt, RowsFrom, FlagsAfter, bufSize, SosSync
  <2> SUFFICES ASSUME NEW n \in 1 .. last, NEW p \in Position
               PROVE  lines'[n].samples[p] =
                        IF RowsAt(lines'[n].time, p) # {} THEN Max(RowsAt(lines'[n].time, p))
                        ELSE IF n = 1 THEN NoRow ELSE lines'[n - 1].samples[p]
    BY <1>3, <2>1 DEF SamplesInPlace
  <2>2. CASE n < last
    <3>1. lines'[n] = lines[n] /\ n \in DOMAIN lines /\ (n # 1 => lines'[n - 1] = lines[n - 1])
      BY <1>3, <1>5, <2>2
    <3>2. lines[n].samples[p] =
            IF RowsAt(lines[n].time, p) # {} THEN Max(RowsAt(lines[n].time, p))
            ELSE IF n = 1 THEN NoRow ELSE lines[n - 1].samples[p]
      BY <3>1 DEF SamplesInPlace
    <3>3. CASE n = 1
      BY <3>1, <3>2, <3>3
    <3>4. CASE n # 1
      <4>1. lines'[n - 1] = lines[n - 1] /\ lines'[n] = lines[n]
        BY <3>1, <3>4
      <4> QED
        BY <3>2, <3>4, <4>1
    <3> QED
      BY <3>3, <3>4
  <2>3. CASE n = last
    <3>1. RowsAt(time, p) = Within(time, k, p)
      BY <1>1, ScanIsOver DEF RowsAt, Within
    <3>2. scans[p] = IF Within(time, k, p) # {} THEN Max(Within(time, k, p)) ELSE Before(p)
      BY <1>2 DEF Arrays
    <3>3. Before(p) = IF last = 1 THEN NoRow ELSE lines'[last - 1].samples[p]
      <4>1. CASE lines = <<>>
        BY <4>1 DEF Before
      <4>2. CASE lines # <<>>
        <5>1. last # 1 /\ last - 1 = Len(lines) /\ last - 1 \in 1 .. last - 1
          BY <1>2, <4>2
        <5> QED
          BY <1>3, <4>2, <5>1 DEF Before
      <4> QED
        BY <4>1, <4>2
    <3> QED
      BY <1>4, <2>3, <3>1, <3>2, <3>3
  <2> QED
    BY <1>5, <2>2, <2>3
<1>10. \A n \in 1 .. last - 1 : lines'[n].time < time
  BY <1>2, <1>3 DEF LinesBehind
<1>11. LinesBehind'
  <2>1. \A n \in 1 .. last : lines'[n].time < i
    <3>0. i \in Nat
      BY <1>2
    <3> SUFFICES ASSUME NEW n \in 1 .. last PROVE lines'[n].time < i
      OBVIOUS
    <3>1. CASE n = last
      BY <1>2, <1>4, <3>1
    <3>2. CASE n # last
      <4>1. n \in 1 .. last - 1 /\ lines'[n].time \in Nat /\ i \in Nat
        <5>1. n \in 1 .. last - 1
          BY <1>5, <3>2
        <5>2. lines'[n] = lines[n] /\ lines[n] \in Line
          BY <1>2, <1>3, <5>1
        <5> QED
          BY <3>0, <5>1, <5>2 DEF Line
      <4>2. lines'[n].time < time /\ time < i
        BY <1>2, <1>10, <4>1
      <4> QED
        BY <1>2, <4>1, <4>2
    <3> QED
      BY <3>1, <3>2
  <2> QED
    BY <1>1, <1>2, <1>3, <2>1 DEF LinesBehind
<1>12. LinesInOrder'
  <2> SUFFICES ASSUME NEW m \in 1 .. last, NEW n \in 1 .. last, m < n
               PROVE  lines'[m].time < lines'[n].time
    BY <1>3 DEF LinesInOrder
  <2>1. m \in 1 .. last - 1
    BY <1>5
  <2>2. CASE n = last
    BY <1>4, <1>10, <2>1, <2>2
  <2>3. CASE n # last
    <3>1. n \in 1 .. last - 1
      BY <1>5, <2>3
    <3> QED
      BY <1>3, <2>1, <3>1 DEF LinesInOrder
  <2> QED
    BY <2>2, <2>3
<1>13. ScansSoFar'
  <2>1. ScanStarts' = ScanStarts
    BY <1>1, <1>2 DEF ScanStarts, SosSync
  <2>2. ASSUME NEW r \in ScanStarts, r < i PROVE \E n \in 1 .. last : lines'[n].time = r
    <3>1. r \in Nat /\ r < k
      BY <1>2, <2>2 DEF ScanStarts
    <3>2. r = time \/ HasLine(r)
      BY <1>2, <3>1 DEF ScansSoFar
    <3>3. last \in 1 .. last
      BY <1>5
    <3>4. CASE r = time
      BY <1>4, <3>3, <3>4
    <3>5. CASE HasLine(r)
      <4>1. PICK n \in 1 .. last - 1 : lines[n].time = r
        BY <1>3, <3>5 DEF HasLine
      <4>2. n \in 1 .. last /\ lines'[n].time = r
        BY <1>3, <1>5, <4>1
      <4> QED
        BY <4>2
    <3> QED
      BY <3>2, <3>4, <3>5
  <2> QED
    BY <1>1, <1>2, <1>3, <2>1, <2>2 DEF ScansSoFar, HasLine
<1> QED
  BY <1>6, <1>7, <1>8, <1>9, <1>11, <1>12, <1>13

\* The end of the rows changes nothing that was written.
LEMMA FinishKeeps == IInv /\ Finish => IInv'
<1> SUFFICES ASSUME IInv, Finish PROVE IInv'
  OBVIOUS
<1> USE DEF IInv
<1>1. /\ pc = "outer" /\ pc' = "done" /\ i >= bufSize
      /\ UNCHANGED <<buf, i, k, scanCounter, scans, time, lines>>
  BY DEF Finish
<1>2. ~InScan /\ ~InScan'
  BY <1>1 DEF InScan
<1>3. TypeOK' /\ Places' /\ ScanSeen' /\ LinesBehind'
  BY <1>1, <1>2 DEF TypeOK, Places, ScanSeen, LinesBehind, bufSize
<1>4. Arrays' /\ ScansSoFar'
  BY <1>1, <1>2, LinesStay DEF Arrays, ScansSoFar
<1> QED
  BY <1>1, <1>3, <1>4, LinesStay

\* The invariant speaks of the variables only.
LEMMA StutterKeeps == IInv /\ UNCHANGED vars => IInv'
<1> SUFFICES ASSUME IInv, UNCHANGED vars PROVE IInv'
  OBVIOUS
<1> USE DEF IInv, vars
<1>1. InScan' = InScan
  BY DEF InScan
<1>2. TypeOK' /\ Places' /\ ScanSeen' /\ LinesBehind'
  BY <1>1 DEF TypeOK, Places, ScanSeen, LinesBehind, bufSize, SosSync, InScan
<1>3. \A p \in Position : Before(p)' = Before(p) /\ Within(time', k', p) = Within(time, k, p)
  BY LinesStay
<1>4. Arrays'
  BY <1>1, <1>3 DEF Arrays, Within
<1>5. ScansSoFar'
  BY <1>1, LinesStay DEF ScansSoFar
<1> QED
  BY <1>2, <1>4, <1>5, LinesStay

-----------------------------------------------------------------------------
(***************************************************************************)
(* The theorems.                                                           *)
(***************************************************************************)
\* The loops of writeChans keep IInv: where they are, which rows the arrays
\* hold, and which scans have their line by then.
THEOREM Invariant == Spec => []IInv
<1>1. Init => IInv
  <2> SUFFICES ASSUME Init PROVE IInv
    OBVIOUS
  <2>1. buf \in Seq(BOOLEAN) /\ bufSize \in Nat /\ lines = <<>> /\ pc = "outer"
        /\ i = 0 /\ k = 0 /\ scanCounter = 1 /\ time = 0 /\ ~InScan
    BY BufferAssumption DEF Init, bufSize, InScan
  <2>2. TypeOK
    BY <2>1, SizeAssumption DEF Init, TypeOK, Line
  <2>3. Arrays
    BY <2>1 DEF Init, Arrays, Before
  <2>4. /\ Places /\ ScanSeen /\ SamplesInPlace /\ LinesBehind /\ LinesInOrder
        /\ ScansSoFar
    BY <2>1 DEF Places, ScanSeen, SamplesInPlace, LinesBehind, LinesInOrder,
                ScansSoFar, ScanStarts
  <2> QED
    BY <2>2, <2>3, <2>4 DEF IInv
<1>2. IInv /\ [Next]_vars => IInv'
  BY BeginLineKeeps, TakeRowKeeps, StopKeeps, WriteLineKeeps, FinishKeeps,
     StutterKeeps DEF Next, Done
<1> QED
  BY <1>1, <1>2, PTL DEF Spec, Safety

\* Each sample of a line is that of the row that belongs there, or, behind a
\* short scan, what the line before shows.
THEOREM SamplesAreInPlace == Spec => []SamplesInPlace
<1>1. IInv => SamplesInPlace
  BY DEF IInv
<1> QED
  BY <1>1, Invariant, PTL

\* The lines come in the order of the rows, no row begins two of them.
THEOREM LinesAreInOrder == Spec => []LinesInOrder
<1>1. IInv => LinesInOrder
  BY DEF IInv
<1> QED
  BY <1>1, Invariant, PTL

\* When the loops have ended, no scan is without its line: the part of
\* EveryScanWritten that is not about getting there.
AllWritten == pc = "done" => ScanStarts \subseteq {lines[n].time : n \in DOMAIN lines}

\* No scan is skipped, however its neighbours look.
THEOREM NoScanIsSkipped == Spec => []AllWritten
<1>1. IInv => AllWritten
  <2> SUFFICES ASSUME IInv, pc = "done", NEW r \in ScanStarts
               PROVE  \E n \in DOMAIN lines : lines[n].time = r
    BY DEF AllWritten
  <2>1. ~InScan /\ i >= bufSize /\ i \in Nat /\ bufSize \in Nat
    BY DEF IInv, ScansSoFar, InScan, TypeOK, bufSize
  <2>2. r < i
    BY <2>1 DEF ScanStarts
  <2> QED
    BY <2>1, <2>2 DEF IInv, ScansSoFar, HasLine
<1> QED
  BY <1>1, Invariant, PTL
=============================================================================
