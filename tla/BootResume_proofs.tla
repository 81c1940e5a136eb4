--------------------------- MODULE BootResume_proofs ---------------------------
(***************************************************************************)
(* Proofs about BootResume, for any number of items, any limit and any     *)
(* bounds: a crash loop stops, and nothing but crashes parks an item.      *)
(***************************************************************************)
EXTENDS BootResume, TLAPS

\* The count of an item that still adds up.
Eff(l, i) ==
  IF l.entries[i].at = clock /\ l.entries[i].phase = phase[i] THEN l.entries[i].attempts ELSE 0

\* The last exit is, or may yet be, counted against the item.
Pending(i) == IF opened THEN crashed /\ i \notin seen ELSE intact /\ ~mem.clean

\* Every count is backed by a crash.
BackedAt(i) ==
  /\ file = "ok" => Eff(disk, i) <= blame[i]
  /\ file = "ok" /\ ~disk.clean /\ ~opened => Eff(disk, i) + 1 <= blame[i]
  /\ up => Eff(mem, i) <= blame[i]
  /\ up /\ Pending(i) => Eff(mem, i) + 1 <= blame[i]

Backed == \A i \in Item : BackedAt(i)

\* Parked is what the count says, and what is parked in memory is so in the file;
\* phases only advance.
ParkingAt(i) ==
  /\ ~mem.entries[i].parked => mem.entries[i].attempts <= Limit
  /\ ~disk.entries[i].parked => disk.entries[i].attempts <= Limit
  /\ mem.entries[i].parked => disk.entries[i].parked
  /\ mem.entries[i].phase <= phase[i] /\ disk.entries[i].phase <= phase[i]
  /\ mem.entries[i].at <= clock /\ disk.entries[i].at <= clock
  /\ i \in running /\ ~faulty => ~mem.entries[i].parked

Parking == \A i \in Item : ParkingAt(i)

\* The process's variables when nothing went wrong, and when nothing runs.
Process ==
  /\ ~up => ~opened /\ ~intact /\ ~asked /\ mem = EmptyLedger
  /\ ~opened => ~asked /\ running = {} /\ seen = {}
  /\ running \subseteq seen
  /\ intact => file = "ok"
  /\ up /\ file = "corrupt" => FALSE
  /\ file # "ok" => disk = EmptyLedger
  /\ up /\ ~faulty /\ file = "ok" => mem = disk
  /\ ~opened /\ ~intact => mem = EmptyLedger
  /\ up /\ ~faulty /\ ~opened => (intact <=> file = "ok")
  /\ opened /\ ~faulty => file = "ok"
  /\ opened /\ ~asked /\ ~faulty => ~mem.clean
  /\ asked => file = "ok" /\ disk.clean /\ mem.clean

\* The ledger l counts the item's loop, but for the life that has just ended.
Traced(l, i) ==
  /\ loop[i] <= Eff(l, i) + 1
  /\ l.entries[i].parked => l.entries[i].at = clock

\* A life that runs the item is counted; one that may run it will be.
LoopingAt(i) ==
  /\ loop[i] <= Limit + 1
  /\ ~up => file = "ok" /\ ~disk.clean /\ Traced(disk, i)
  /\ up /\ ~faulty /\ ~opened => intact /\ ~mem.clean /\ Traced(mem, i)
  /\ opened /\ ~faulty /\ ~asked =>
       /\ i \notin seen => crashed /\ Traced(mem, i)
       /\ i \in seen \ running => mem.entries[i].parked /\ Traced(mem, i)
       /\ i \in running => ~mem.entries[i].parked /\ loop[i] <= Eff(mem, i)

Looping == \A i \in Item : loop[i] > 0 => LoopingAt(i)

IInv == TypeOK /\ Process /\ Parking /\ Backed /\ Looping

-----------------------------------------------------------------------------
\* An absent entry, and a ledger of such entries.
LEMMA Nothing ==
  /\ Absent \in Entry /\ Absent.attempts = 0 /\ Absent.parked = FALSE /\ Absent.at = 0 /\ Absent.phase = 0
  /\ EmptyLedger \in Ledger /\ EmptyLedger.clean = FALSE
  /\ \A i \in Item : EmptyLedger.entries[i] = Absent
BY LimitAssumption DEF Absent, Entry, EmptyLedger, Ledger, Never, NoPhase

\* One entry of a ledger replaced.
LEMMA Put ==
  ASSUME NEW l \in Ledger, NEW i \in Item, NEW e \in Entry
  PROVE  LET r == [l EXCEPT !.entries[i] = e]
         IN  /\ r \in Ledger /\ r.clean = l.clean /\ r.entries[i] = e
             /\ \A j \in Item : j # i => r.entries[j] = l.entries[j]
BY DEF Ledger

\* The marker replaced.
LEMMA Mark ==
  ASSUME NEW l \in Ledger, NEW b \in BOOLEAN
  PROVE  LET r == [l EXCEPT !.clean = b]
         IN  r \in Ledger /\ r.clean = b /\ r.entries = l.entries
BY DEF Ledger

\* What an entry of a ledger is.
LEMMA Fields ==
  ASSUME NEW l \in Ledger, NEW i \in Item
  PROVE  /\ l.entries[i] \in Entry /\ l.clean \in BOOLEAN
         /\ l.entries[i].attempts \in Nat /\ l.entries[i].attempts <= Limit + 1
         /\ l.entries[i].parked \in BOOLEAN /\ l.entries[i].chance \in BOOLEAN
         /\ l.entries[i].at \in {0} \cup Time /\ l.entries[i].phase \in {0} \cup Phase
BY LimitAssumption DEF Ledger, Entry, Never, NoPhase

\* What an absent count is, in its types.
LEMMA Zero == 0 \in 0 .. Limit + 1 /\ TRUE \in BOOLEAN /\ FALSE \in BOOLEAN /\ Never \in {Never} \cup Time
BY LimitAssumption

\* An entry that is judged.
LEMMA JudgedEntry ==
  ASSUME NEW m \in Entry, m.parked = FALSE
  PROVE  /\ Judged(m) \in Entry /\ Judged(m).attempts = m.attempts /\ Judged(m).at = m.at
         /\ Judged(m).phase = m.phase /\ (Judged(m).parked <=> m.attempts > Limit)
         /\ Judged(m).parked \in BOOLEAN
<1>1. Judged(m) = [m EXCEPT !.parked = (m.attempts > Limit)]
  BY DEF Judged, Entry
<1>2. (m.attempts > Limit) \in BOOLEAN
  OBVIOUS
<1>3. QED BY <1>1, <1>2 DEF Entry

\* Counts are numbers.
LEMMA EffType ==
  ASSUME NEW l \in Ledger, NEW i \in Item
  PROVE  Eff(l, i) \in Nat /\ Eff(l, i) <= l.entries[i].attempts
BY Fields DEF Eff

\* It holds of a server that has never run.
LEMMA InitIInv == Init => IInv
<1> SUFFICES ASSUME Init PROVE IInv
  OBVIOUS
<1>1. TypeOK
  <2>1. clock \in Time /\ boots \in 0 .. MaxBoots /\ 1 \in Phase
    BY BoundAssumption DEF Init, Time, Phase
  <2>2. phase \in [Item -> Phase] /\ loop \in [Item -> Nat] /\ blame \in [Item -> Nat]
    BY <2>1 DEF Init
  <2>3. QED BY <2>1, <2>2, Nothing DEF Init, TypeOK
<1>2. Process
  BY DEF Init, Process
<1>3. Parking
  <2>1. \A i \in Item : mem.entries[i] = Absent /\ disk.entries[i] = Absent /\ phase[i] = 1 /\ clock = 1 /\ running = {}
    BY Nothing DEF Init
  <2>2. 0 <= Limit /\ 0 <= 1
    BY LimitAssumption
  <2>3. QED BY <2>1, <2>2, Nothing DEF Parking, ParkingAt
<1>4. Backed
  BY DEF Init, Backed, BackedAt
<1>5. Looping
  BY DEF Init, Looping, LoopingAt
<1>6. QED BY <1>1, <1>2, <1>3, <1>4, <1>5 DEF IInv

\* A process starts.
LEMMA StartIInv == IInv /\ Start => IInv'
<1> SUFFICES ASSUME IInv, Start PROVE IInv'
  OBVIOUS
<1> USE DEF Start
<1>1. TypeOK'
  <2>1. mem' \in Ledger /\ file' \in {"missing", "corrupt", "ok"} /\ boots' \in 0 .. MaxBoots
    BY Nothing, BoundAssumption DEF IInv, TypeOK
  <2>2. up' \in BOOLEAN /\ intact' \in BOOLEAN /\ faulty' \in BOOLEAN
    OBVIOUS
  <2>3. QED BY <2>1, <2>2 DEF IInv, TypeOK, historyVars
<1>2. Process'
  BY DEF IInv, TypeOK, Process, historyVars
<1>3. Parking'
  BY Nothing, LimitAssumption DEF IInv, TypeOK, Process, Parking, ParkingAt, Ledger, Entry
<1>4. Backed'
  <2>1. \A i \in Item : Eff(disk, i)' = Eff(disk, i) /\ (mem' = disk => Eff(mem, i)' = Eff(disk, i))
                        /\ (mem' = EmptyLedger => Eff(mem, i)' = 0)
    BY Nothing DEF Eff
  <2>2. \A i \in Item : blame[i] \in Nat
    BY DEF IInv, TypeOK
  <2>3. ~opened /\ opened' = FALSE
    BY DEF IInv, TypeOK, Process
  <2>4. QED BY <2>1, <2>2, <2>3, Nothing DEF IInv, Process, Backed, BackedAt, Pending, historyVars
<1>5. Looping'
  <2>1. \A i \in Item : mem' = disk => Traced(mem, i)' = Traced(disk, i)
    BY DEF Traced, Eff, historyVars
  <2>2. ~opened /\ opened' = FALSE /\ up' = TRUE /\ loop' = loop
    BY DEF IInv, TypeOK, Process, historyVars
  <2>3. QED BY <2>1, <2>2 DEF IInv, Process, Looping, LoopingAt
<1>6. QED BY <1>1, <1>2, <1>3, <1>4, <1>5 DEF IInv

\* A boot is opened.
LEMMA OpenBootIInv == IInv /\ OpenBoot => IInv'
<1> SUFFICES ASSUME IInv, OpenBoot PROVE IInv'
  OBVIOUS
<1> DEFINE r == OpenedLedger(mem)
<1>1. r \in Ledger /\ r.clean = FALSE /\ r.entries = mem.entries
  BY Mark DEF IInv, TypeOK, OpenedLedger
<1>2. /\ up /\ ~opened /\ opened' = TRUE /\ mem' = r
      /\ crashed' = (intact /\ ~mem.clean)
      /\ UNCHANGED <<up, intact, seen, running, boots, clock, phase, historyVars>>
  BY DEF OpenBoot, Saved, CrashSeen
<1>3. \/ disk' = r /\ file' = "ok" /\ faulty' = faulty
      \/ disk' = disk /\ file' = file /\ faulty' = TRUE
  BY DEF OpenBoot, Saved, NotSaved
<1> HIDE DEF r
<1>4. ~asked /\ running = {} /\ seen = {} /\ (intact => file = "ok") /\ file # "corrupt"
  BY <1>2 DEF IInv, Process
<1>5. \A i \in Item : /\ Eff(mem, i)' = Eff(mem, i)
                      /\ disk' = r => Eff(disk, i)' = Eff(mem, i)
                      /\ disk' = disk => Eff(disk, i)' = Eff(disk, i)
  BY <1>1, <1>2 DEF Eff
<1>6. TypeOK'
  <2>1. crashed' \in BOOLEAN /\ file' \in {"missing", "corrupt", "ok"} /\ faulty' \in BOOLEAN
    BY <1>1, <1>2, <1>3, Fields DEF IInv, TypeOK
  <2>2. QED BY <1>1, <1>2, <1>3, <2>1 DEF IInv, TypeOK, historyVars
<1>7. Process'
  BY <1>1, <1>2, <1>3, <1>4 DEF IInv, Process, historyVars
<1>8. Parking'
  BY <1>1, <1>2, <1>3 DEF IInv, Parking, ParkingAt
<1>9. Backed'
  BY <1>1, <1>2, <1>3, <1>4, <1>5 DEF IInv, Process, Backed, BackedAt, Pending, historyVars
<1>10. Looping'
  <2> SUFFICES ASSUME NEW i \in Item, loop'[i] > 0 PROVE LoopingAt(i)'
    BY DEF Looping
  <2>1. loop' = loop /\ asked' = asked /\ (Traced(mem, i)' <=> Traced(mem, i))
    BY <1>1, <1>2, <1>5 DEF Traced, historyVars
  <2>2. LoopingAt(i)
    BY <2>1 DEF IInv, Looping
  <2>3. QED BY <1>1, <1>2, <1>3, <1>4, <2>1, <2>2 DEF IInv, Process, LoopingAt
<1>11. QED BY <1>6, <1>7, <1>8, <1>9, <1>10 DEF IInv

\* The entry an admission starts from.
LEMMA HereFields ==
  ASSUME IInv, NEW i \in Item, ~Refused(i)
  PROVE  /\ Here(i) \in Entry /\ Here(i).parked = FALSE /\ Here(i).phase = phase[i]
         /\ Here(i).attempts \in Nat /\ Here(i).attempts <= Limit
         /\ Here(i).at = clock => Here(i).attempts = Eff(mem, i)
         /\ Here(i).at # clock => Eff(mem, i) = 0
         /\ Here(i).at <= clock
         /\ ~Due(i) /\ mem.entries[i].phase = phase[i] => Here(i) = mem.entries[i]
<1> DEFINE m == mem.entries[i]
<1>1. /\ m \in Entry /\ m.attempts \in Nat /\ m.attempts <= Limit + 1 /\ m.parked \in BOOLEAN
      /\ m.at \in {0} \cup Time /\ m.phase \in {0} \cup Phase /\ m.chance \in BOOLEAN
  BY Fields DEF IInv, TypeOK
<1>2. ~m.parked => m.attempts <= Limit
  BY DEF IInv, Parking, ParkingAt
<1>3. clock \in Time /\ clock \in Nat /\ clock # 0 /\ phase[i] \in Phase
  BY BoundAssumption DEF IInv, TypeOK, Time
<1>4. m.parked => Due(i)
  BY DEF Refused
<1>5. Limit \in Nat /\ 0 <= Limit
  BY LimitAssumption
<1>9. m.at <= clock
  BY DEF IInv, Parking, ParkingAt
<1>6. CASE Due(i)
  <2>1. Base(i) = [m EXCEPT !.attempts = 0, !.parked = FALSE, !.at = Never, !.chance = TRUE]
    BY <1>6 DEF Base
  <2>2. Base(i) \in Entry /\ Base(i).attempts = 0 /\ Base(i).parked = FALSE /\ Base(i).at = Never
    BY <1>1, <2>1, Zero DEF Entry
  <2>3. Here(i) = Base(i) \/ Here(i) = [Base(i) EXCEPT !.phase = phase[i], !.attempts = 0]
    BY DEF Here
  <2>4. Here(i) \in Entry
    BY <1>3, <2>2, <2>3, Zero DEF Entry
  <2>5. Here(i).attempts = 0 /\ Here(i).parked = FALSE /\ Here(i).at = Never
    BY <2>2, <2>3 DEF Entry
  <2>6. Here(i).phase = phase[i]
    BY <2>2 DEF Here, Entry
  <2>7. Eff(mem, i) = 0
    <3>1. clock > m.at
      BY <1>6 DEF Due
    <3>2. m.at \in Nat
      BY <1>1, BoundAssumption DEF Time
    <3>3. QED BY <3>1, <3>2, <1>3 DEF Eff
  <2>8. Here(i).at <= clock /\ Here(i).at # clock
    BY <2>5, <1>3 DEF Never
  <2>9. QED BY <2>4, <2>5, <2>6, <2>7, <2>8, <1>5, <1>6
<1>7. CASE ~Due(i)
  <2>1. Base(i) = m /\ m.parked = FALSE
    BY <1>1, <1>4, <1>7 DEF Base
  <2>2. CASE m.phase # phase[i]
    <3>1. Here(i) = [m EXCEPT !.phase = phase[i], !.attempts = 0]
      BY <2>1, <2>2 DEF Here
    <3>2. /\ Here(i) \in Entry /\ Here(i).attempts = 0 /\ Here(i).parked = FALSE /\ Here(i).phase = phase[i]
          /\ Here(i).at = m.at
      BY <2>1, <3>1, <1>1, <1>3, Zero DEF Entry
    <3>3. Eff(mem, i) = 0
      BY <2>2 DEF Eff
    <3>4. QED BY <3>2, <3>3, <2>2, <1>5, <1>9
  <2>3. CASE m.phase = phase[i]
    <3>1. Here(i) = m
      BY <2>1, <2>3 DEF Here
    <3>2. (m.at = clock => m.attempts = Eff(mem, i)) /\ (m.at # clock => Eff(mem, i) = 0)
      BY <2>3 DEF Eff
    <3>3. QED BY <3>1, <3>2, <2>1, <2>3, <1>1, <1>2, <1>9
  <2>4. QED BY <2>2, <2>3
<1>8. QED BY <1>6, <1>7

\* The entry of an item that is counted.
LEMMA CountedFields ==
  ASSUME IInv, NEW i \in Item, ~Refused(i)
  PROVE  /\ Counted(i) \in Entry /\ Counted(i).attempts = Eff(mem, i) + 1 /\ Counted(i).at = clock
         /\ Counted(i).parked = FALSE /\ Counted(i).phase = phase[i] /\ Eff(mem, i) \in Nat
<1> DEFINE h == Here(i)
           n == IF h.at = clock THEN h.attempts + 1 ELSE 1
<1>1. /\ h \in Entry /\ h.parked = FALSE /\ h.phase = phase[i]
      /\ h.attempts \in Nat /\ h.attempts <= Limit
      /\ h.at = clock => h.attempts = Eff(mem, i)
      /\ h.at # clock => Eff(mem, i) = 0
  BY HereFields
<1>2. clock \in {Never} \cup Time
  BY DEF IInv, TypeOK
<1>3. Counted(i) = [h EXCEPT !.attempts = n, !.at = clock]
  BY <1>1 DEF Counted, Entry
<1>4. n = Eff(mem, i) + 1 /\ n \in 0 .. Limit + 1 /\ Eff(mem, i) \in Nat
  BY <1>1, LimitAssumption
<1> HIDE DEF h, n
<1>5. Counted(i) \in Entry
  BY <1>1, <1>2, <1>3, <1>4 DEF Entry
<1>6. /\ Counted(i).attempts = n /\ Counted(i).at = clock
      /\ Counted(i).parked = h.parked /\ Counted(i).phase = h.phase
  BY <1>1, <1>3 DEF Entry
<1>7. QED BY <1>1, <1>4, <1>5, <1>6

\* The entry an admission records when it counts.
LEMMA JudgedCounted ==
  ASSUME IInv, NEW i \in Item, ~Refused(i)
  PROVE  /\ Judged(Counted(i)) \in Entry /\ Judged(Counted(i)).phase = phase[i]
         /\ Judged(Counted(i)).at = clock /\ Judged(Counted(i)).attempts = Eff(mem, i) + 1
         /\ Judged(Counted(i)).parked <=> Eff(mem, i) + 1 > Limit
<1>1. /\ Counted(i) \in Entry /\ Counted(i).attempts = Eff(mem, i) + 1 /\ Counted(i).at = clock
      /\ Counted(i).parked = FALSE /\ Counted(i).phase = phase[i]
  BY CountedFields
<1>2. /\ Judged(Counted(i)) \in Entry /\ Judged(Counted(i)).attempts = Counted(i).attempts
      /\ Judged(Counted(i)).at = Counted(i).at /\ Judged(Counted(i)).phase = Counted(i).phase
      /\ Judged(Counted(i)).parked <=> Counted(i).attempts > Limit
  BY <1>1, JudgedEntry
<1>3. QED BY <1>1, <1>2

\* The entry an admission records when it does not.
LEMMA JudgedHere ==
  ASSUME IInv, NEW i \in Item, ~Refused(i)
  PROVE  Judged(Here(i)) = Here(i)
<1>1. Here(i) \in Entry /\ Here(i).parked = FALSE
  BY HereFields
<1>2. Here(i).attempts \in Nat /\ Here(i).attempts <= Limit
  BY HereFields
<1>3. ~(Here(i).attempts > Limit)
  BY <1>2, LimitAssumption
<1>4. QED BY <1>1, <1>3 DEF Judged, Entry
-----------------------------------------------------------------------------
\* A parked item is refused.
LEMMA AdmitRefusedIInv == \A i \in Item : IInv /\ AdmitRefused(i) => IInv'
<1> SUFFICES ASSUME IInv, NEW i \in Item, AdmitRefused(i) PROVE IInv'
  OBVIOUS
<1>1. /\ opened /\ mem.entries[i].parked /\ seen' = seen \cup {i}
      /\ UNCHANGED <<file, disk, mem, up, intact, opened, crashed, running, boots, faulty, clock, phase, asked, loop, blame>>
  BY DEF AdmitRefused, Refused, ledgerVars, historyVars
<1>2. \A j \in Item : Eff(mem, j)' = Eff(mem, j) /\ Eff(disk, j)' = Eff(disk, j)
  BY <1>1 DEF Eff
<1>3. TypeOK'
  BY <1>1 DEF IInv, TypeOK
<1>4. Process'
  BY <1>1 DEF IInv, Process
<1>5. Parking'
  BY <1>1 DEF IInv, Parking, ParkingAt
<1>6. Backed'
  BY <1>1, <1>2 DEF IInv, Backed, BackedAt, Pending
<1>7. Looping'
  <2> SUFFICES ASSUME NEW j \in Item, loop'[j] > 0 PROVE LoopingAt(j)'
    BY DEF Looping
  <2>1. LoopingAt(j) /\ (Traced(mem, j)' <=> Traced(mem, j)) /\ (Traced(disk, j)' <=> Traced(disk, j))
    BY <1>1, <1>2 DEF IInv, Looping, Traced
  <2>2. j \in seen' <=> j \in seen \/ j = i
    BY <1>1
  <2>3. up /\ up' /\ loop'[j] <= Limit + 1
    BY <1>1, <2>1 DEF IInv, Process, LoopingAt
  <2>4. ASSUME ~faulty, ~asked
        PROVE  /\ j \notin seen' => crashed' /\ Traced(mem, j)'
               /\ j \in seen' \ running' => mem'.entries[j].parked /\ Traced(mem, j)'
               /\ j \in running' => ~mem'.entries[j].parked /\ loop'[j] <= Eff(mem, j)'
    BY <1>1, <1>2, <2>1, <2>2, <2>4 DEF LoopingAt
  <2>5. QED BY <1>1, <2>3, <2>4 DEF LoopingAt
<1>8. QED BY <1>3, <1>4, <1>5, <1>6, <1>7 DEF IInv

\* An item that ran a loop and was not admitted by this process is counted.
LEMMA Uncounted ==
  ASSUME IInv, NEW i \in Item, opened, ~Refused(i), ~Counts(i), loop[i] > 0, ~faulty, ~asked
  PROVE  i \in running
<1>1. LoopingAt(i)
  BY DEF IInv, Looping
<1>2. i \in seen
  BY <1>1 DEF LoopingAt, Counts
<1>3. SUFFICES ASSUME i \notin running PROVE FALSE
  OBVIOUS
<1>4. mem.entries[i].parked /\ mem.entries[i].at = clock
  BY <1>1, <1>2, <1>3 DEF LoopingAt, Traced
<1>5. clock > mem.entries[i].at
  BY <1>4 DEF Refused, Due
<1>6. QED BY <1>4, <1>5 DEF IInv, TypeOK, Time

\* An item is admitted with nothing to record.
LEMMA AdmitUnrecordedIInv == \A i \in Item : IInv /\ AdmitUnrecorded(i) => IInv'
<1> SUFFICES ASSUME IInv, NEW i \in Item, AdmitUnrecorded(i) PROVE IInv'
  OBVIOUS
<1>1. /\ opened /\ ~Refused(i) /\ ~Counts(i)
      /\ seen' = seen \cup {i} /\ running' = running \cup {i}
      /\ UNCHANGED <<file, disk, mem, up, intact, opened, crashed, boots, faulty, clock, phase, asked, loop, blame>>
  BY DEF AdmitUnrecorded, Unchanging, ledgerVars, historyVars
<1>2. \A j \in Item : Eff(mem, j)' = Eff(mem, j) /\ Eff(disk, j)' = Eff(disk, j)
  BY <1>1 DEF Eff
<1>9. mem.entries[i].parked = FALSE
  <2>1. mem.entries[i] = Absent \/ ~Due(i)
    BY DEF AdmitUnrecorded, Unchanging
  <2>2. mem.entries[i].parked \in BOOLEAN
    BY Fields DEF IInv, TypeOK
  <2>3. QED BY <1>1, <2>1, <2>2, Nothing DEF Refused
<1>3. TypeOK'
  BY <1>1 DEF IInv, TypeOK
<1>4. Process'
  BY <1>1 DEF IInv, Process
<1>5. Parking'
  BY <1>1, <1>9 DEF IInv, Parking, ParkingAt
<1>6. Backed'
  BY <1>1, <1>2 DEF IInv, Backed, BackedAt, Pending
<1>7. Looping'
  <2> SUFFICES ASSUME NEW j \in Item, loop'[j] > 0 PROVE LoopingAt(j)'
    BY DEF Looping
  <2>1. LoopingAt(j) /\ (Traced(mem, j)' <=> Traced(mem, j)) /\ (Traced(disk, j)' <=> Traced(disk, j))
    BY <1>1, <1>2 DEF IInv, Looping, Traced
  <2>2. ~faulty /\ ~asked /\ j = i => i \in running
    BY <1>1, Uncounted
  <2>3. i \in running => i \in seen
    BY DEF IInv, Process
  <2>4. up /\ up' /\ loop'[j] <= Limit + 1
    BY <1>1, <2>1 DEF IInv, Process, LoopingAt
  <2>5. ASSUME ~faulty, ~asked
        PROVE  /\ j \notin seen' => crashed' /\ Traced(mem, j)'
               /\ j \in seen' \ running' => mem'.entries[j].parked /\ Traced(mem, j)'
               /\ j \in running' => ~mem'.entries[j].parked /\ loop'[j] <= Eff(mem, j)'
    <3>1. CASE j = i
      <4>1. i \in running
        BY <2>2, <2>5, <3>1
      <4>2. loop[i] <= Eff(mem, i) /\ Eff(mem, i)' = Eff(mem, i)
        BY <1>1, <1>2, <2>1, <2>5, <3>1, <4>1 DEF LoopingAt
      <4>3. QED BY <1>1, <1>9, <3>1, <4>1, <4>2
    <3>2. CASE j # i
      <4>1. (j \in seen' <=> j \in seen) /\ (j \in running' <=> j \in running)
        BY <1>1, <3>2
      <4>2. QED BY <1>1, <1>2, <2>1, <2>5, <4>1 DEF LoopingAt
    <3>3. QED BY <3>1, <3>2
  <2>6. QED BY <1>1, <2>4, <2>5 DEF LoopingAt
<1>8. QED BY <1>3, <1>4, <1>5, <1>6, <1>7 DEF IInv
\* An admission is recorded.
LEMMA AdmitSavedIInv ==
  ASSUME IInv, NEW i \in Item, NEW e \in Entry, NEW r \in Ledger,
         opened, ~Refused(i), r.clean = mem.clean, r.entries[i] = e,
         \A j \in Item : j # i => r.entries[j] = mem.entries[j],
         e.phase = phase[i], e.at <= clock,
         Counts(i) => e.at = clock /\ e.attempts = Eff(mem, i) + 1 /\ (e.parked <=> Eff(mem, i) + 1 > Limit),
         ~Counts(i) => e.parked = FALSE /\ e.attempts <= Limit /\ (e.at = clock => e.attempts = Eff(mem, i))
                       /\ (e.at # clock => Eff(mem, i) = 0),
         mem' = r, disk' = r, file' = "ok", faulty' = faulty, seen' = seen \cup {i},
         running' = (IF e.parked THEN running ELSE running \cup {i}),
         UNCHANGED <<up, intact, opened, crashed, boots, clock, phase, asked, loop, blame>>
  PROVE  IInv'
<1>1. up /\ file' = "ok" /\ mem' = r /\ disk' = r /\ opened' = TRUE
  BY DEF IInv, TypeOK, Process
<1>2. Eff(mem, i) \in Nat /\ Eff(mem, i) <= blame[i] /\ (Counts(i) => Eff(mem, i) + 1 <= blame[i]) /\ blame[i] \in Nat
  BY <1>1, EffType DEF IInv, TypeOK, Backed, BackedAt, Pending, Counts
<1>3. Eff(mem, i)' = IF Counts(i) THEN Eff(mem, i) + 1 ELSE Eff(mem, i)
  <2>1. Eff(mem, i)' = IF e.at = clock THEN e.attempts ELSE 0
    BY DEF Eff
  <2>2. QED BY <2>1
<1>4. \A j \in Item : j # i => Eff(mem, j)' = Eff(mem, j)
  BY DEF Eff
<1>5. \A j \in Item : Eff(disk, j)' = Eff(mem, j)'
  BY DEF Eff
<1>6. e.parked \in BOOLEAN /\ e.attempts \in Nat
  BY LimitAssumption DEF Entry
<1>7. \A j \in Item : j # i => (j \in seen' <=> j \in seen) /\ (j \in running' <=> j \in running)
  OBVIOUS
<1>8. i \in running => i \in seen /\ ~Counts(i)
  BY DEF IInv, Process, Counts
<1>9. i \in running' <=> i \in running \/ ~e.parked
  OBVIOUS
<1>10. TypeOK'
  BY <1>1 DEF IInv, TypeOK
<1>11. Process'
  <2>1. running' \subseteq seen'
    BY DEF IInv, Process
  <2>2. QED BY <1>1, <2>1 DEF IInv, Process
<1>12. Parking'
  <2> SUFFICES ASSUME NEW j \in Item PROVE ParkingAt(j)'
    BY DEF Parking
  <2>1. CASE j # i
    BY <1>1, <1>7, <2>1 DEF IInv, Parking, ParkingAt
  <2>2. CASE j = i
    <3>1. ~e.parked => e.attempts <= Limit
      BY <1>2, LimitAssumption
    <3>2. i \in running' /\ ~faulty => ~e.parked
      BY <1>8, <1>9
    <3>3. phase[i] <= phase[i]
      BY DEF IInv, TypeOK, Phase
    <3>4. QED BY <1>1, <2>2, <3>1, <3>2, <3>3 DEF ParkingAt
  <2>3. QED BY <2>1, <2>2
<1>13. Backed'
  <2> SUFFICES ASSUME NEW j \in Item PROVE BackedAt(j)'
    BY DEF Backed
  <2>1. CASE j # i
    BY <1>1, <1>4, <1>5, <1>7, <2>1 DEF IInv, Backed, BackedAt, Pending
  <2>2. CASE j = i
    <3>1. Eff(mem, i)' <= blame'[i]
      BY <1>2, <1>3
    <3>2. ~Pending(i)'
      BY <1>1 DEF Pending
    <3>3. QED BY <1>1, <1>5, <2>2, <3>1, <3>2 DEF BackedAt
  <2>3. QED BY <2>1, <2>2
<1>14. Looping'
  <2> SUFFICES ASSUME NEW j \in Item, loop'[j] > 0 PROVE LoopingAt(j)'
    BY DEF Looping
  <2>1. LoopingAt(j)
    BY DEF IInv, Looping
  <2>2. loop'[j] <= Limit + 1
    BY <2>1 DEF LoopingAt
  <2>3. ASSUME ~faulty, ~asked
        PROVE  /\ j \notin seen' => crashed' /\ Traced(mem, j)'
               /\ j \in seen' \ running' => mem'.entries[j].parked /\ Traced(mem, j)'
               /\ j \in running' => ~mem'.entries[j].parked /\ loop'[j] <= Eff(mem, j)'
    <3>1. CASE j # i
      <4>1. Traced(mem, j)' <=> Traced(mem, j)
        BY <1>4, <3>1 DEF Traced
      <4>2. QED BY <1>1, <1>4, <1>7, <2>1, <2>3, <3>1, <4>1 DEF LoopingAt
    <3>2. CASE j = i /\ Counts(i)
      <4>1. i \notin seen /\ i \notin running /\ Traced(mem, i)
        BY <1>8, <2>1, <2>3, <3>2 DEF LoopingAt, Counts
      <4>2. loop[i] <= Eff(mem, i) + 1 /\ Eff(mem, i)' = Eff(mem, i) + 1 /\ loop[i] \in Nat
        BY <1>3, <3>2, <4>1 DEF Traced, IInv, TypeOK
      <4>3. loop'[i] <= Eff(mem, i)' /\ loop'[i] <= Eff(mem, i)' + 1
        BY <1>2, <4>2
      <4>4. Traced(mem, i)'
        BY <3>2, <4>3 DEF Traced
      <4>5. QED BY <1>9, <3>2, <4>1, <4>3, <4>4
    <3>3. CASE j = i /\ ~Counts(i)
      <4>1. i \in running
        BY <2>3, <3>3, Uncounted
      <4>2. loop[i] <= Eff(mem, i)
        BY <2>1, <2>3, <3>3, <4>1 DEF LoopingAt
      <4>3. loop'[i] <= Eff(mem, i)' /\ ~mem'.entries[i].parked
        BY <1>3, <3>3, <4>2
      <4>4. QED BY <3>3, <4>1, <4>3
    <3>4. QED BY <3>1, <3>2, <3>3
  <2>4. QED BY <1>1, <2>2, <2>3 DEF LoopingAt
<1>15. QED BY <1>10, <1>11, <1>12, <1>13, <1>14 DEF IInv

\* The entry an admission leaves.
LEMMA RecordedEntry ==
  ASSUME IInv, NEW i \in Item, ~Refused(i)
  PROVE  LET e == Judged(IF Counts(i) THEN Counted(i) ELSE Here(i))
         IN  /\ e \in Entry /\ e.phase = phase[i] /\ e.at <= clock
             /\ Counts(i) => e.at = clock /\ e.attempts = Eff(mem, i) + 1 /\ (e.parked <=> Eff(mem, i) + 1 > Limit)
             /\ ~Counts(i) => e.parked = FALSE /\ e.attempts <= Limit /\ (e.at = clock => e.attempts = Eff(mem, i))
                              /\ (e.at # clock => Eff(mem, i) = 0)
<1>1. CASE Counts(i)
  <2>1. clock <= clock
    BY DEF IInv, TypeOK, Time
  <2>2. QED BY <1>1, <2>1, JudgedCounted
<1>2. CASE ~Counts(i)
  BY <1>2, JudgedHere, HereFields
<1>3. QED BY <1>1, <1>2

\* An item is admitted, and counted if it must be.
LEMMA AdmitIInv == \A i \in Item : IInv /\ Admit(i) => IInv'
<1> SUFFICES ASSUME IInv, NEW i \in Item, Admit(i) PROVE IInv'
  OBVIOUS
<1> DEFINE e == Judged(IF Counts(i) THEN Counted(i) ELSE Here(i))
           r == Recorded(i)
<1>1. /\ opened /\ ~Refused(i) /\ seen' = seen \cup {i}
      /\ UNCHANGED <<up, intact, opened, crashed, boots, clock, phase, asked, loop, blame>>
  BY DEF Admit, historyVars
<1>2. e \in Entry
  BY <1>1, RecordedEntry
<1>3. r = [mem EXCEPT !.entries[i] = e]
  BY DEF Recorded
<1>4. /\ \/ mem' = r /\ disk' = r /\ file' = "ok" /\ faulty' = faulty
            /\ running' = IF r.entries[i].parked THEN running ELSE running \cup {i}
         \/ faulty' = TRUE /\ file' = file /\ disk' = disk /\ mem' = mem /\ running' = running \cup {i}
  BY DEF Admit, Saved, NotSaved
<1>5. /\ e.phase = phase[i] /\ e.at <= clock
      /\ Counts(i) => e.at = clock /\ e.attempts = Eff(mem, i) + 1 /\ (e.parked <=> Eff(mem, i) + 1 > Limit)
      /\ ~Counts(i) => e.parked = FALSE /\ e.attempts <= Limit /\ (e.at = clock => e.attempts = Eff(mem, i))
                       /\ (e.at # clock => Eff(mem, i) = 0)
  BY <1>1, RecordedEntry
<1> HIDE DEF e, r
<1>6. /\ r \in Ledger /\ r.clean = mem.clean /\ r.entries[i] = e
      /\ \A j \in Item : j # i => r.entries[j] = mem.entries[j]
  BY <1>2, <1>3, Put DEF IInv, TypeOK
<1>7. CASE mem' = r /\ disk' = r /\ file' = "ok" /\ faulty' = faulty
           /\ running' = IF r.entries[i].parked THEN running ELSE running \cup {i}
  BY <1>1, <1>2, <1>5, <1>6, <1>7, AdmitSavedIInv
<1>8. CASE faulty' = TRUE /\ file' = file /\ disk' = disk /\ mem' = mem /\ running' = running \cup {i}
  <2>1. \A j \in Item : Eff(mem, j)' = Eff(mem, j) /\ Eff(disk, j)' = Eff(disk, j)
    BY <1>1, <1>8 DEF Eff
  <2>2. TypeOK'
    BY <1>1, <1>8 DEF IInv, TypeOK
  <2>3. Process'
    BY <1>1, <1>8 DEF IInv, Process
  <2>4. Parking'
    BY <1>1, <1>8 DEF IInv, Parking, ParkingAt
  <2>5. Backed'
    BY <1>1, <1>8, <2>1 DEF IInv, Backed, BackedAt, Pending
  <2>6. Looping'
    BY <1>1, <1>8 DEF IInv, Process, Looping, LoopingAt
  <2>7. QED BY <2>2, <2>3, <2>4, <2>5, <2>6 DEF IInv
<1>9. QED BY <1>4, <1>7, <1>8

-----------------------------------------------------------------------------
\* What is left of a count.
LEMMA Last == \A n \in Nat : /\ AtMostLast(n) \in Nat /\ AtMostLast(n) <= n
                             /\ n >= 1 => AtMostLast(n) = 1
BY DEF AtMostLast

\* An item's work reaches its next phase.
LEMMA ProgressIInv == \A i \in Item : IInv /\ Progress(i) => IInv'
<1> SUFFICES ASSUME IInv, NEW i \in Item, Progress(i) PROVE IInv'
  OBVIOUS
<1>1. /\ up /\ i \in running /\ phase[i] < MaxPhase
      /\ phase' = [phase EXCEPT ![i] = @ + 1]
      /\ loop' = [loop EXCEPT ![i] = 0] /\ blame' = [blame EXCEPT ![i] = AtMostLast(@)]
      /\ UNCHANGED <<file, disk, mem, up, intact, opened, crashed, seen, running, boots, faulty, clock, asked>>
  BY DEF Progress, ledgerVars, processVars
<1>2. opened /\ i \in seen
  BY <1>1 DEF IInv, TypeOK, Process
<1>3. phase[i] \in Phase /\ phase[i] \in Nat /\ blame[i] \in Nat /\ AtMostLast(blame[i]) \in Nat
  BY Last DEF IInv, TypeOK, Phase
<1>4. /\ phase'[i] = phase[i] + 1 /\ loop'[i] = 0 /\ blame'[i] = AtMostLast(blame[i])
      /\ \A j \in Item : j # i => phase'[j] = phase[j] /\ loop'[j] = loop[j] /\ blame'[j] = blame[j]
  BY <1>1 DEF IInv, TypeOK
<1>5. /\ Eff(mem, i)' = 0 /\ Eff(disk, i)' = 0
      /\ \A j \in Item : j # i => Eff(mem, j)' = Eff(mem, j) /\ Eff(disk, j)' = Eff(disk, j)
  <2>1. mem.entries[i].phase <= phase[i] /\ disk.entries[i].phase <= phase[i]
    BY DEF IInv, Parking, ParkingAt
  <2>2. mem.entries[i].phase \in Nat /\ disk.entries[i].phase \in Nat
    BY Fields DEF IInv, TypeOK, Phase
  <2>3. mem.entries[i].phase # phase'[i] /\ disk.entries[i].phase # phase'[i]
    BY <1>3, <1>4, <2>1, <2>2
  <2>4. QED BY <1>1, <1>4, <2>3 DEF Eff
<1>6. TypeOK'
  <2>1. phase[i] + 1 \in Phase
    BY <1>1, <1>3, BoundAssumption DEF Phase
  <2>2. phase' \in [Item -> Phase] /\ loop' \in [Item -> Nat] /\ blame' \in [Item -> Nat]
    BY <1>1, <1>3, <2>1 DEF IInv, TypeOK
  <2>3. QED BY <1>1, <2>2 DEF IInv, TypeOK
<1>7. Process'
  BY <1>1 DEF IInv, Process
<1>8. Parking'
  <2> SUFFICES ASSUME NEW j \in Item PROVE ParkingAt(j)'
    BY DEF Parking
  <2>1. mem.entries[j].phase \in Nat /\ disk.entries[j].phase \in Nat /\ phase[j] \in Nat
    BY Fields DEF IInv, TypeOK, Phase
  <2>2. phase[j] <= phase'[j]
    BY <1>3, <1>4, <2>1
  <2>3. ParkingAt(j) /\ phase'[j] \in Nat
    BY <1>3, <1>4, <2>1 DEF IInv, Parking
  <2>4. mem'.entries[j].phase <= phase'[j] /\ disk'.entries[j].phase <= phase'[j]
    BY <1>1, <2>1, <2>2, <2>3 DEF ParkingAt
  <2>5. QED BY <1>1, <2>3, <2>4 DEF ParkingAt
<1>9. Backed'
  <2> SUFFICES ASSUME NEW j \in Item PROVE BackedAt(j)'
    BY DEF Backed
  <2>1. CASE j # i
    BY <1>1, <1>4, <1>5, <2>1 DEF IInv, Backed, BackedAt, Pending
  <2>2. CASE j = i
    BY <1>1, <1>2, <1>3, <1>4, <1>5, <2>2 DEF BackedAt, Pending
  <2>3. QED BY <2>1, <2>2
<1>10. Looping'
  <2> SUFFICES ASSUME NEW j \in Item, loop'[j] > 0 PROVE LoopingAt(j)'
    BY DEF Looping
  <2>1. j # i
    BY <1>4
  <2>2. LoopingAt(j) /\ (Traced(mem, j)' <=> Traced(mem, j)) /\ (Traced(disk, j)' <=> Traced(disk, j))
    BY <1>1, <1>4, <1>5, <2>1 DEF IInv, Looping, Traced
  <2>3. QED BY <1>1, <1>4, <1>5, <2>1, <2>2 DEF LoopingAt
<1>11. QED BY <1>6, <1>7, <1>8, <1>9, <1>10 DEF IInv
\* An entry starts over.
LEMMA ResetIInv ==
  ASSUME IInv, NEW i \in Item, NEW e \in Entry, up, mem.entries[i] # Absent, Reset(i, e),
         e.attempts = 0, e.parked = FALSE, e.at <= clock, e.phase <= phase[i],
         UNCHANGED <<up, intact, opened, crashed, seen, running, boots, clock, phase, asked>>
  PROVE  IInv'
<1> DEFINE r == [mem EXCEPT !.entries[i] = e]
<1>1. /\ mem' = r /\ loop' = [loop EXCEPT ![i] = 0]
      /\ \/ disk' = r /\ file' = "ok" /\ faulty' = faulty /\ blame' = [blame EXCEPT ![i] = AtMostLast(@)]
         \/ disk' = disk /\ file' = file /\ faulty' = TRUE /\ blame' = blame
  BY DEF Reset, Saved, NotSaved
<1>2. /\ r \in Ledger /\ r.clean = mem.clean /\ r.entries[i] = e
      /\ \A j \in Item : j # i => r.entries[j] = mem.entries[j]
  BY Put DEF IInv, TypeOK
<1> HIDE DEF r
<1>3. opened \/ (intact /\ file = "ok")
  BY Nothing DEF IInv, Process
<1>4. /\ loop'[i] = 0
      /\ \A j \in Item : j # i => loop'[j] = loop[j] /\ blame'[j] = blame[j]
      /\ blame'[i] = blame[i] \/ blame'[i] = AtMostLast(blame[i])
      /\ disk' = r => blame'[i] \in Nat
  BY <1>1, Last DEF IInv, TypeOK
<1>5. /\ Eff(mem, i)' = 0 /\ (disk' = r => Eff(disk, i)' = 0)
      /\ \A j \in Item : j # i => Eff(mem, j)' = Eff(mem, j)
      /\ \A j \in Item : j # i /\ disk' = r => Eff(disk, j)' = Eff(mem, j)
      /\ \A j \in Item : disk' = disk => Eff(disk, j)' = Eff(disk, j)
  BY <1>1, <1>2 DEF Eff
<1>6. TypeOK'
  <2>1. loop' \in [Item -> Nat] /\ blame' \in [Item -> Nat]
    BY <1>1, Last DEF IInv, TypeOK
  <2>2. disk' \in Ledger /\ file' \in {"missing", "corrupt", "ok"} /\ faulty' \in BOOLEAN /\ mem' \in Ledger
    BY <1>1, <1>2 DEF IInv, TypeOK
  <2>3. QED BY <2>1, <2>2 DEF IInv, TypeOK
<1>7. Process'
  BY <1>1, <1>2, <1>3 DEF IInv, Process
<1>8. Parking'
  <2> SUFFICES ASSUME NEW j \in Item PROVE ParkingAt(j)'
    BY DEF Parking
  <2>1. ParkingAt(j) /\ 0 <= Limit
    BY LimitAssumption DEF IInv, Parking
  <2>2. CASE j # i
    BY <1>1, <1>2, <2>1, <2>2 DEF ParkingAt
  <2>3. CASE j = i
    BY <1>1, <1>2, <2>1, <2>3 DEF ParkingAt
  <2>4. QED BY <2>2, <2>3
<1>9. Backed'
  <2> SUFFICES ASSUME NEW j \in Item PROVE BackedAt(j)'
    BY DEF Backed
  <2>1. BackedAt(j) /\ (Pending(j)' <=> Pending(j)) /\ blame[j] \in Nat /\ Eff(mem, j) \in Nat
    BY <1>1, <1>2, EffType DEF IInv, TypeOK, Backed, Pending
  <2>2. ~opened /\ ~mem.clean => Pending(j)
    BY <1>3 DEF Pending
  <2>3. CASE disk' = r /\ file' = "ok"
    <3>1. CASE j # i
      BY <1>1, <1>2, <1>4, <1>5, <2>1, <2>2, <2>3, <3>1 DEF BackedAt
    <3>2. CASE j = i
      <4>1. Pending(i) => blame[i] >= 1
        BY <2>1, <3>2 DEF BackedAt
      <4>2. /\ 0 <= blame'[i] /\ (Pending(i) => 1 <= blame'[i])
        BY <1>4, <2>1, <3>2, <4>1, Last
      <4>3. QED BY <1>1, <1>2, <1>4, <1>5, <2>1, <2>2, <2>3, <3>2, <4>2 DEF BackedAt
    <3>3. QED BY <3>1, <3>2
  <2>4. CASE disk' = disk /\ file' = file /\ blame' = blame
    <3>1. Eff(mem, j)' <= Eff(mem, j)
      BY <1>5, <2>1
    <3>2. Eff(mem, j)' \in Nat
      BY <1>5, <2>1
    <3>3. Eff(disk, j)' = Eff(disk, j)
      BY <1>5, <2>4
    <3>4. Eff(mem, j)' <= blame'[j] /\ (Pending(j) => Eff(mem, j)' + 1 <= blame'[j])
      BY <2>1, <2>4, <3>1, <3>2 DEF BackedAt
    <3>5. QED BY <2>1, <2>4, <3>3, <3>4 DEF BackedAt
  <2>5. QED BY <1>1, <2>3, <2>4
<1>10. Looping'
  <2> SUFFICES ASSUME NEW j \in Item, loop'[j] > 0 PROVE LoopingAt(j)'
    BY DEF Looping
  <2>1. j # i /\ loop'[j] = loop[j]
    BY <1>4
  <2>2. LoopingAt(j) /\ (Traced(mem, j)' <=> Traced(mem, j))
    BY <1>1, <1>2, <1>5, <2>1 DEF IInv, Looping, Traced
  <2>3. mem'.entries[j] = mem.entries[j] /\ mem'.clean = mem.clean /\ Eff(mem, j)' = Eff(mem, j)
    BY <1>1, <1>2, <1>5, <2>1
  <2>4. faulty' = faulty \/ faulty' = TRUE
    BY <1>1
  <2>5. QED BY <2>1, <2>2, <2>3, <2>4 DEF LoopingAt
<1>11. QED BY <1>6, <1>7, <1>8, <1>9, <1>10 DEF IInv

\* The item's own store is done with it.
LEMMA ForgetIInv == \A i \in Item : IInv /\ Forget(i) => IInv'
<1> SUFFICES ASSUME IInv, NEW i \in Item, Forget(i) PROVE IInv'
  OBVIOUS
<1>1. Absent.at <= clock /\ Absent.phase <= phase[i]
  BY Nothing DEF IInv, TypeOK, Time, Phase
<1>2. /\ up /\ mem.entries[i] # Absent /\ Reset(i, Absent)
      /\ UNCHANGED <<up, intact, opened, crashed, seen, running, boots, clock, phase, asked>>
  BY DEF Forget
<1>3. QED BY <1>1, <1>2, Nothing, ResetIInv

\* The person asks for another try.
LEMMA RetryIInv == \A i \in Item : IInv /\ Retry(i) => IInv'
<1> SUFFICES ASSUME IInv, NEW i \in Item, Retry(i) PROVE IInv'
  OBVIOUS
<1> DEFINE e == [mem.entries[i] EXCEPT !.attempts = 0, !.parked = FALSE, !.at = Never]
<1>1. mem.entries[i] \in Entry /\ mem.entries[i].phase <= phase[i] /\ 0 <= clock
  BY Fields DEF IInv, TypeOK, Parking, ParkingAt, Time
<1>2. e \in Entry /\ e.attempts = 0 /\ e.parked = FALSE /\ e.at = 0 /\ e.phase = mem.entries[i].phase
  BY <1>1, Zero DEF Entry, Never
<1>3. /\ up /\ mem.entries[i] # Absent /\ Reset(i, e)
      /\ UNCHANGED <<up, intact, opened, crashed, seen, running, boots, clock, phase, asked>>
  BY DEF Retry
<1> HIDE DEF e
<1>4. e.at <= clock /\ e.phase <= phase[i]
  BY <1>1, <1>2
<1>5. QED BY <1>2, <1>3, <1>4, ResetIInv
\* The ledger of a clean exit.
LEMMA CleanedFields ==
  ASSUME mem \in Ledger
  PROVE  /\ Cleaned \in Ledger /\ Cleaned.clean = TRUE
         /\ \A i \in Item : /\ i \in seen /\ ~mem.entries[i].parked =>
                                 /\ Cleaned.entries[i].attempts = 0 /\ Cleaned.entries[i].at = 0
                                 /\ Cleaned.entries[i].parked = mem.entries[i].parked
                                 /\ Cleaned.entries[i].phase = mem.entries[i].phase
                            /\ ~(i \in seen /\ ~mem.entries[i].parked) => Cleaned.entries[i] = mem.entries[i]
<1> DEFINE f == [i \in Item |-> IF i \in seen /\ ~mem.entries[i].parked
                                THEN [mem.entries[i] EXCEPT !.attempts = 0, !.at = Never] ELSE mem.entries[i]]
<1>1. \A i \in Item : mem.entries[i] \in Entry
  BY Fields
<1>2. f \in [Item -> Entry]
  <2> SUFFICES ASSUME NEW i \in Item PROVE f[i] \in Entry
    OBVIOUS
  <2>1. [mem.entries[i] EXCEPT !.attempts = 0, !.at = Never] \in Entry
    BY <1>1, Zero DEF Entry
  <2>2. QED BY <1>1, <2>1
<1>3. Cleaned = [mem EXCEPT !.clean = TRUE, !.entries = f]
  BY DEF Cleaned
<1>4. \A i \in Item : /\ i \in seen /\ ~mem.entries[i].parked =>
                           /\ f[i].attempts = 0 /\ f[i].at = 0
                           /\ f[i].parked = mem.entries[i].parked /\ f[i].phase = mem.entries[i].phase
                      /\ ~(i \in seen /\ ~mem.entries[i].parked) => f[i] = mem.entries[i]
  BY <1>1 DEF Entry, Never
<1> HIDE DEF f
<1>5. Cleaned \in Ledger /\ Cleaned.clean = TRUE /\ Cleaned.entries = f
  BY <1>2, <1>3 DEF Ledger
<1>6. QED BY <1>4, <1>5

\* A requested shutdown is noted.
LEMMA MarkCleanIInv == IInv /\ MarkClean => IInv'
<1> SUFFICES ASSUME IInv, MarkClean PROVE IInv'
  OBVIOUS
<1> DEFINE Cleared(i) == i \in seen /\ ~mem.entries[i].parked
<1>1. /\ up /\ opened /\ ~asked /\ mem' = Cleaned
      /\ UNCHANGED <<up, intact, opened, crashed, seen, running, boots, clock, phase, loop>>
      /\ \/ /\ disk' = Cleaned /\ file' = "ok" /\ faulty' = faulty /\ asked' = TRUE
            /\ blame' = [i \in Item |-> IF Cleared(i) THEN 0 ELSE blame[i]]
         \/ disk' = disk /\ file' = file /\ faulty' = TRUE /\ asked' = asked /\ blame' = blame
  BY DEF MarkClean, Saved, NotSaved
<1>2. /\ Cleaned \in Ledger /\ Cleaned.clean = TRUE
      /\ \A i \in Item : /\ Cleared(i) =>
                              /\ Cleaned.entries[i].attempts = 0 /\ Cleaned.entries[i].at = 0
                              /\ Cleaned.entries[i].parked = mem.entries[i].parked
                              /\ Cleaned.entries[i].phase = mem.entries[i].phase
                         /\ ~Cleared(i) => Cleaned.entries[i] = mem.entries[i]
  BY CleanedFields DEF IInv, TypeOK
<1>3. \A i \in Item : /\ Cleared(i) => Eff(mem, i)' = 0
                      /\ ~Cleared(i) => Eff(mem, i)' = Eff(mem, i)
                      /\ disk' = Cleaned => Eff(disk, i)' = Eff(mem, i)'
                      /\ disk' = disk => Eff(disk, i)' = Eff(disk, i)
  <2> SUFFICES ASSUME NEW i \in Item
               PROVE  /\ Cleared(i) => Eff(mem, i)' = 0
                      /\ ~Cleared(i) => Eff(mem, i)' = Eff(mem, i)
                      /\ disk' = Cleaned => Eff(disk, i)' = Eff(mem, i)'
                      /\ disk' = disk => Eff(disk, i)' = Eff(disk, i)
    OBVIOUS
  <2>1. Cleared(i) => Cleaned.entries[i].attempts = 0
    BY <1>2
  <2>2. ~Cleared(i) => Cleaned.entries[i] = mem.entries[i]
    BY <1>2
  <2> HIDE DEF Cleared
  <2>3. QED BY <1>1, <2>1, <2>2 DEF Eff
<1>4. TypeOK'
  <2>1. blame' \in [Item -> Nat]
    BY <1>1 DEF IInv, TypeOK
  <2>2. QED BY <1>1, <1>2, <2>1 DEF IInv, TypeOK
<1>5. Process'
  BY <1>1, <1>2 DEF IInv, Process
<1>6. Parking'
  <2> SUFFICES ASSUME NEW j \in Item PROVE ParkingAt(j)'
    BY DEF Parking
  <2>1. /\ Cleaned.entries[j].parked = mem.entries[j].parked
        /\ Cleaned.entries[j].phase = mem.entries[j].phase
        /\ Cleaned.entries[j].at = 0 \/ Cleaned.entries[j].at = mem.entries[j].at
        /\ Cleaned.entries[j].attempts = 0 \/ Cleaned.entries[j].attempts = mem.entries[j].attempts
    BY <1>2
  <2>2. ParkingAt(j) /\ 0 <= Limit /\ 0 <= clock
    BY LimitAssumption DEF IInv, TypeOK, Time, Parking
  <2>3. disk' = mem' \/ (disk' = disk /\ faulty' = TRUE)
    BY <1>1
  <2>4. QED BY <1>1, <2>1, <2>2, <2>3 DEF ParkingAt
<1>7. Backed'
  <2> SUFFICES ASSUME NEW j \in Item PROVE BackedAt(j)'
    BY DEF Backed
  <2>1. BackedAt(j) /\ blame[j] \in Nat /\ Eff(mem, j) \in Nat
    BY EffType DEF IInv, TypeOK, Backed
  <2>2. CASE disk' = Cleaned /\ blame' = [i \in Item |-> IF Cleared(i) THEN 0 ELSE blame[i]]
    <3>1. CASE Cleared(j)
      <4>1. blame'[j] = 0 /\ Eff(mem, j)' = 0 /\ Eff(disk, j)' = 0
        BY <1>3, <2>2, <3>1
      <4>2. ~Pending(j)'
        BY <1>1, <3>1 DEF Pending
      <4>3. QED BY <1>1, <4>1, <4>2 DEF BackedAt
    <3>2. CASE ~Cleared(j)
      <4>1. blame'[j] = blame[j] /\ Eff(mem, j)' = Eff(mem, j) /\ Eff(disk, j)' = Eff(mem, j)
        BY <1>3, <2>2, <3>2
      <4>2. Pending(j)' <=> Pending(j)
        BY <1>1 DEF Pending
      <4>3. QED BY <1>1, <2>1, <4>1, <4>2 DEF BackedAt
    <3>3. QED BY <3>1, <3>2
  <2>3. CASE disk' = disk /\ file' = file /\ blame' = blame
    <3>1. Eff(mem, j)' = 0 \/ Eff(mem, j)' = Eff(mem, j)
      BY <1>3
    <3>2. Eff(disk, j)' = Eff(disk, j) /\ (Pending(j)' <=> Pending(j))
      BY <1>1, <1>3, <2>3 DEF Pending
    <3>3. Eff(mem, j)' <= blame'[j] /\ (Pending(j) => Eff(mem, j)' + 1 <= blame'[j])
      BY <1>1, <2>1, <2>3, <3>1 DEF BackedAt
    <3>4. QED BY <1>1, <2>1, <2>3, <3>2, <3>3 DEF BackedAt
  <2>4. QED BY <1>1, <2>2, <2>3
<1>8. Looping'
  BY <1>1 DEF IInv, Looping, LoopingAt
<1>9. QED BY <1>4, <1>5, <1>6, <1>7, <1>8 DEF IInv

\* A process ends.
LEMMA ExitIInv == IInv /\ Exit => IInv'
<1> SUFFICES ASSUME IInv, Exit PROVE IInv'
  OBVIOUS
<1>1. /\ up /\ up' = FALSE /\ intact' = FALSE /\ opened' = FALSE /\ crashed' = FALSE /\ faulty' = FALSE
      /\ seen' = {} /\ running' = {} /\ mem' = EmptyLedger /\ asked' = FALSE
      /\ UNCHANGED <<file, disk, boots, clock, phase>>
      /\ loop' = [i \in Item |-> IF faulty \/ asked THEN 0
                                 ELSE IF i \in running THEN loop[i] + 1 ELSE loop[i]]
      /\ blame' = [i \in Item |-> IF opened /\ ~asked THEN blame[i] + 1 ELSE blame[i]]
  BY DEF Exit
<1>2. \A i \in Item : /\ Eff(mem, i)' = 0 /\ Eff(disk, i)' = Eff(disk, i)
                      /\ blame'[i] = IF opened /\ ~asked THEN blame[i] + 1 ELSE blame[i]
                      /\ blame[i] \in Nat /\ loop[i] \in Nat /\ Eff(disk, i) \in Nat
  BY <1>1, Nothing, EffType DEF Eff, IInv, TypeOK
<1>3. TypeOK'
  <2>1. loop' \in [Item -> Nat] /\ blame' \in [Item -> Nat]
    BY <1>1, <1>2
  <2>2. QED BY <1>1, <2>1, Nothing DEF IInv, TypeOK
<1>4. Process'
  BY <1>1 DEF IInv, Process
<1>5. Parking'
  <2> SUFFICES ASSUME NEW j \in Item PROVE ParkingAt(j)'
    BY DEF Parking
  <2>1. ParkingAt(j) /\ 0 <= Limit /\ 0 <= clock /\ 0 <= phase[j]
    BY LimitAssumption DEF IInv, TypeOK, Time, Phase, Parking
  <2>2. QED BY <1>1, <2>1, Nothing DEF ParkingAt
<1>6. Backed'
  <2> SUFFICES ASSUME NEW j \in Item PROVE BackedAt(j)'
    BY DEF Backed
  <2>1. BackedAt(j) /\ (asked => disk.clean)
    BY DEF IInv, Backed, Process
  <2>2. QED BY <1>1, <1>2, <2>1 DEF BackedAt
<1>7. Looping'
  <2> SUFFICES ASSUME NEW j \in Item, loop'[j] > 0 PROVE LoopingAt(j)'
    BY DEF Looping
  <2>1. ~faulty /\ ~asked /\ loop'[j] = (IF j \in running THEN loop[j] + 1 ELSE loop[j])
    BY <1>1
  <2>2. j \in running => opened /\ j \in seen
    BY DEF IInv, Process
  <2>3. loop[j] > 0 => LoopingAt(j)
    BY DEF IInv, Looping
  <2>4. opened => file = "ok" /\ ~mem.clean /\ mem = disk
    BY <1>1, <2>1 DEF IInv, Process
  <2>5. CASE j \in running
    <3>1. ~mem.entries[j].parked /\ mem.entries[j].attempts <= Limit
      BY <2>1, <2>5 DEF IInv, Parking, ParkingAt
    <3>2. Eff(mem, j) \in Nat /\ Eff(mem, j) <= Limit
      BY <3>1, EffType, Fields, LimitAssumption DEF IInv, TypeOK
    <3>3. loop[j] <= Eff(mem, j)
      <4>1. CASE loop[j] = 0
        BY <3>2, <4>1
      <4>2. CASE loop[j] > 0
        BY <2>1, <2>2, <2>3, <2>5, <4>2 DEF LoopingAt
      <4>3. QED BY <1>2, <4>1, <4>2
    <3>4. loop'[j] <= Eff(mem, j) + 1 /\ loop'[j] <= Limit + 1
      BY <1>2, <2>1, <2>5, <3>2, <3>3, LimitAssumption
    <3>5. Traced(disk, j)'
      <4>1. Eff(disk, j)' = Eff(mem, j) /\ ~disk'.entries[j].parked
        BY <1>1, <1>2, <2>2, <2>4, <2>5, <3>1
      <4>2. QED BY <3>4, <4>1 DEF Traced
    <3>6. QED BY <1>1, <2>2, <2>4, <2>5, <3>4, <3>5 DEF LoopingAt
  <2>6. CASE j \notin running
    <3>1. LoopingAt(j) /\ loop'[j] = loop[j]
      BY <2>1, <2>3, <2>6
    <3>2. Traced(mem, j) /\ file = "ok" /\ ~mem.clean /\ mem = disk
      <4>1. CASE opened
        BY <2>1, <2>4, <2>6, <3>1, <4>1 DEF LoopingAt
      <4>2. CASE ~opened
        BY <1>1, <2>1, <3>1, <4>2 DEF LoopingAt, IInv, Process
      <4>3. QED BY <4>1, <4>2
    <3>3. Traced(disk, j)' <=> Traced(disk, j)
      BY <1>1, <1>2, <3>1 DEF Traced
    <3>4. QED BY <1>1, <3>1, <3>2, <3>3 DEF LoopingAt
  <2>7. QED BY <2>5, <2>6
<1>8. QED BY <1>3, <1>4, <1>5, <1>6, <1>7 DEF IInv

\* Half an hour passes.
LEMMA TickIInv == IInv /\ Tick => IInv'
<1> SUFFICES ASSUME IInv, Tick PROVE IInv'
  OBVIOUS
<1>1. /\ clock < MaxTime /\ clock' = clock + 1
      /\ loop' = [i \in Item |-> 0] /\ blame' = [i \in Item |-> AtMostLast(blame[i])]
      /\ UNCHANGED <<file, disk, mem, up, intact, opened, crashed, seen, running, boots, faulty, phase, asked>>
  BY DEF Tick, ledgerVars, processVars
<1>2. clock \in Nat /\ clock' \in Nat /\ clock' \in Time /\ clock < clock'
  BY <1>1, BoundAssumption DEF IInv, TypeOK, Time
<1>3. \A i \in Item : /\ disk.entries[i].at <= clock /\ mem.entries[i].at <= clock
                      /\ disk.entries[i].at \in Nat /\ mem.entries[i].at \in Nat
  <2> SUFFICES ASSUME NEW i \in Item
               PROVE  /\ disk.entries[i].at <= clock /\ mem.entries[i].at <= clock
                      /\ disk.entries[i].at \in Nat /\ mem.entries[i].at \in Nat
    OBVIOUS
  <2>1. disk \in Ledger /\ mem \in Ledger /\ ParkingAt(i)
    BY DEF IInv, TypeOK, Parking
  <2>2. disk.entries[i].at \in {0} \cup Time /\ mem.entries[i].at \in {0} \cup Time
    BY <2>1, Fields
  <2>3. QED BY <2>1, <2>2 DEF ParkingAt, Time
<1>4. \A i \in Item : Eff(mem, i)' = 0 /\ Eff(disk, i)' = 0
  <2> SUFFICES ASSUME NEW i \in Item PROVE Eff(mem, i)' = 0 /\ Eff(disk, i)' = 0
    OBVIOUS
  <2>1. mem.entries[i].at # clock' /\ disk.entries[i].at # clock'
    BY <1>2, <1>3
  <2>2. QED BY <1>1, <2>1 DEF Eff
<1>5. TypeOK'
  <2>1. loop' \in [Item -> Nat] /\ blame' \in [Item -> Nat]
    BY <1>1, Last DEF IInv, TypeOK
  <2>2. QED BY <1>1, <1>2, <2>1 DEF IInv, TypeOK
<1>6. Process'
  BY <1>1 DEF IInv, Process
<1>7. Parking'
  <2> SUFFICES ASSUME NEW j \in Item PROVE ParkingAt(j)'
    BY DEF Parking
  <2>1. ParkingAt(j) /\ mem.entries[j].at <= clock' /\ disk.entries[j].at <= clock'
    BY <1>2, <1>3 DEF IInv, Parking
  <2>2. QED BY <1>1, <2>1 DEF ParkingAt
<1>8. Backed'
  <2> SUFFICES ASSUME NEW j \in Item PROVE BackedAt(j)'
    BY DEF Backed
  <2>1. BackedAt(j) /\ (Pending(j)' <=> Pending(j)) /\ blame[j] \in Nat
        /\ Eff(mem, j) \in Nat /\ Eff(disk, j) \in Nat
    BY <1>1, EffType DEF IInv, TypeOK, Backed, Pending
  <2>2. blame'[j] \in Nat /\ (blame[j] >= 1 => blame'[j] = 1)
    BY <1>1, <2>1, Last
  <2>3. QED BY <1>1, <1>4, <2>1, <2>2 DEF BackedAt
<1>9. Looping'
  BY <1>1 DEF Looping
<1>10. QED BY <1>5, <1>6, <1>7, <1>8, <1>9 DEF IInv

\* Every step keeps it.
LEMMA NextIInv == IInv /\ [Next]_vars => IInv'
<1> SUFFICES ASSUME IInv, [Next]_vars PROVE IInv'
  OBVIOUS
<1>1. CASE Next
  BY <1>1, StartIInv, OpenBootIInv, MarkCleanIInv, ExitIInv, TickIInv, AdmitRefusedIInv, AdmitUnrecordedIInv,
     AdmitIInv, ProgressIInv, ForgetIInv, RetryIInv DEF Next
<1>2. CASE UNCHANGED vars
  <2>1. UNCHANGED <<file, disk, mem, up, intact, opened, crashed, seen, running, boots, faulty, clock, phase, asked, loop, blame>>
    BY <1>2 DEF vars, ledgerVars, processVars, historyVars
  <2>2. \A i \in Item : Eff(mem, i)' = Eff(mem, i) /\ Eff(disk, i)' = Eff(disk, i)
    BY <2>1 DEF Eff
  <2>3. TypeOK' /\ Process' /\ Parking'
    BY <2>1 DEF IInv, TypeOK, Process, Parking, ParkingAt
  <2>4. Backed' /\ Looping'
    BY <2>1, <2>2 DEF IInv, Backed, BackedAt, Pending, Looping, LoopingAt, Traced
  <2>5. QED BY <2>3, <2>4 DEF IInv
<1>3. QED BY <1>1, <1>2

\* It is an invariant.
THEOREM Invariance == Spec => []IInv
BY InitIInv, NextIInv, PTL DEF Spec

\* Every reachable state is well typed.
THEOREM Typing == Spec => []TypeOK
<1>1. IInv => TypeOK
  BY DEF IInv
<1>2. QED BY <1>1, Invariance, PTL

\* An item that kills every process that resumes it stops being resumed.
THEOREM LoopsStop == Spec => []LoopStops
<1>1. IInv => LoopStops
  <2> SUFFICES ASSUME IInv, NEW i \in Item PROVE loop[i] <= Limit + 1
    BY DEF LoopStops
  <2>1. CASE loop[i] > 0
    BY <2>1 DEF IInv, Looping, LoopingAt
  <2>2. CASE loop[i] = 0
    BY <2>2, LimitAssumption
  <2>3. QED BY <2>1, <2>2 DEF IInv, TypeOK
<1>2. QED BY <1>1, Invariance, PTL

\* An entry that starts over parks nothing.
LEMMA ResetUnparked ==
  ASSUME mem \in Ledger, NEW i \in Item, NEW j \in Item, NEW e \in Entry, Reset(j, e), e.parked = FALSE,
         ~mem.entries[i].parked
  PROVE  disk' = disk \/ disk'.entries[i].parked = FALSE
<1> DEFINE r == [mem EXCEPT !.entries[j] = e]
<1>1. disk' = disk \/ disk' = r
  BY DEF Reset, Saved, NotSaved
<1>2. r \in Ledger /\ r.entries[j] = e /\ \A k \in Item : k # j => r.entries[k] = mem.entries[k]
  BY Put
<1> HIDE DEF r
<1>3. mem.entries[i].parked = FALSE
  BY Fields
<1>4. QED BY <1>1, <1>2, <1>3

\* Nothing but crashes parks an item.
THEOREM CrashesPark == Spec => OnlyCrashesPark
<1>1. IInv /\ [Next]_vars =>
        [\A i \in Item : ~disk.entries[i].parked /\ disk'.entries[i].parked => blame[i] > Limit]_vars
  <2> SUFFICES ASSUME IInv, Next, NEW i \in Item, ~disk.entries[i].parked, disk'.entries[i].parked
               PROVE  blame[i] > Limit
    BY DEF vars
  <2>1. ~mem.entries[i].parked
    BY DEF IInv, Parking, ParkingAt
  <2>2. mem \in Ledger /\ mem.entries[i].parked \in BOOLEAN
    BY Fields DEF IInv, TypeOK
  <2>3. CASE Start \/ Exit \/ Tick
    BY <2>3 DEF Start, Exit, Tick, ledgerVars
  <2>4. CASE OpenBoot
    <3>1. disk' = disk \/ disk' = OpenedLedger(mem)
      BY <2>4 DEF OpenBoot, Saved, NotSaved
    <3>2. OpenedLedger(mem).entries = mem.entries
      BY <2>2, Mark DEF OpenedLedger
    <3>3. QED BY <2>1, <3>1, <3>2
  <2>5. CASE MarkClean
    <3>1. disk' = disk \/ disk' = Cleaned
      BY <2>5 DEF MarkClean, Saved, NotSaved
    <3>2. Cleaned.entries[i].parked = mem.entries[i].parked
      BY <2>2, CleanedFields
    <3>3. QED BY <2>1, <3>1, <3>2
  <2>6. ASSUME NEW j \in Item, AdmitRefused(j) \/ AdmitUnrecorded(j) \/ Progress(j) PROVE FALSE
    BY <2>6 DEF AdmitRefused, AdmitUnrecorded, Progress, ledgerVars
  <2>7. ASSUME NEW j \in Item, Admit(j) PROVE blame[i] > Limit
    <3> DEFINE e == Judged(IF Counts(j) THEN Counted(j) ELSE Here(j))
    <3>1. ~Refused(j) /\ opened /\ (disk' = disk \/ disk' = Recorded(j))
      BY <2>7 DEF Admit, Saved, NotSaved
    <3>2. /\ e \in Entry
          /\ Counts(j) => (e.parked <=> Eff(mem, j) + 1 > Limit)
          /\ ~Counts(j) => e.parked = FALSE
      BY <3>1, RecordedEntry
    <3>3. Recorded(j) = [mem EXCEPT !.entries[j] = e]
      BY DEF Recorded
    <3> HIDE DEF e
    <3>4. Recorded(j).entries[j] = e /\ (i # j => Recorded(j).entries[i] = mem.entries[i])
      BY <2>2, <3>2, <3>3, Put
    <3>5. i = j /\ Counts(i) /\ Eff(mem, i) + 1 > Limit
      BY <2>1, <3>1, <3>2, <3>4
    <3>6. Eff(mem, i) + 1 <= blame[i]
      BY <3>1, <3>5 DEF IInv, TypeOK, Process, Backed, BackedAt, Pending, Counts
    <3>7. Eff(mem, i) \in Nat /\ blame[i] \in Nat
      BY EffType DEF IInv, TypeOK
    <3>8. QED BY <3>5, <3>6, <3>7, LimitAssumption
  <2>8. ASSUME NEW j \in Item, NEW e \in Entry, Reset(j, e), e.parked = FALSE PROVE FALSE
    <3>1. disk' = disk \/ disk'.entries[i].parked = FALSE
      BY <2>1, <2>2, <2>8, ResetUnparked
    <3>2. QED BY <3>1
  <2>9. ASSUME NEW j \in Item, Forget(j) PROVE FALSE
    BY <2>8, <2>9, Nothing DEF Forget
  <2>10. ASSUME NEW j \in Item, Retry(j) PROVE FALSE
    <3> DEFINE e == [mem.entries[j] EXCEPT !.attempts = 0, !.parked = FALSE, !.at = Never]
    <3>1. mem.entries[j] \in Entry
      BY <2>2, Fields
    <3>2. e \in Entry /\ e.parked = FALSE
      BY <3>1, Zero DEF Entry
    <3>3. Reset(j, e)
      BY <2>10 DEF Retry
    <3>4. QED BY <2>8, <3>2, <3>3
  <2>11. QED BY <2>3, <2>4, <2>5, <2>6, <2>7, <2>9, <2>10 DEF Next
<1>2. QED BY <1>1, Invariance, PTL DEF Spec, OnlyCrashesPark
\* An item that gets its second chance has had it.
LEMMA ChanceTaken ==
  ASSUME IInv, NEW i \in Item, Due(i)
  PROVE  Judged(IF Counts(i) THEN Counted(i) ELSE Here(i)).chance = TRUE
<1> DEFINE m == mem.entries[i]
           b == [m EXCEPT !.attempts = 0, !.parked = FALSE, !.at = Never, !.chance = TRUE]
<1>1. m \in Entry /\ phase[i] \in Phase /\ clock \in Time
  BY Fields DEF IInv, TypeOK
<1>2. b \in Entry /\ b.chance = TRUE
  BY <1>1, Zero DEF Entry
<1>3. Base(i) = b
  BY DEF Base
<1> HIDE DEF b, m
<1>4. ~Refused(i)
  BY DEF Refused
<1>5. Here(i) \in Entry /\ Here(i).chance = TRUE
  <2>1. Here(i) = b \/ Here(i) = [b EXCEPT !.phase = phase[i], !.attempts = 0]
    BY <1>3 DEF Here
  <2>2. QED BY <1>2, <1>4, <2>1, HereFields DEF Entry
<1>6. Counted(i) \in Entry /\ Counted(i).chance = TRUE
  <2>1. Counted(i) \in Entry
    BY <1>4, CountedFields
  <2>2. Counted(i).chance = Here(i).chance
    BY <1>5 DEF Counted, Entry
  <2>3. QED BY <1>5, <2>1, <2>2
<1>7. \A e \in Entry : Judged(e).chance = e.chance
  BY DEF Judged, Entry
<1>8. QED BY <1>5, <1>6, <1>7

\* A parked item stays parked.
THEOREM Stays == Spec => ParkedStays
<1> DEFINE A(i) == disk.entries[i].parked /\ ~disk'.entries[i].parked /\ ~faulty =>
                     \/ Retry(i) \/ Forget(i)
                     \/ i \in SecondChance /\ ~disk.entries[i].chance /\ disk'.entries[i].chance
                        /\ clock > disk.entries[i].at
<1>1. IInv /\ [Next]_vars => [\A i \in Item : A(i)]_vars
  <2> SUFFICES ASSUME IInv, Next, NEW i \in Item, disk.entries[i].parked, ~disk'.entries[i].parked, ~faulty
               PROVE  \/ Retry(i) \/ Forget(i)
                      \/ i \in SecondChance /\ ~disk.entries[i].chance /\ disk'.entries[i].chance
                         /\ clock > disk.entries[i].at
    BY DEF vars
  <2>1. file = "ok"
    BY Nothing DEF IInv, Process
  <2>2. up => mem = disk
    BY <2>1 DEF IInv, Process
  <2>3. mem \in Ledger
    BY DEF IInv, TypeOK
  <2>4. CASE Start \/ Exit \/ Tick
    BY <2>4 DEF Start, Exit, Tick, ledgerVars
  <2>5. CASE OpenBoot
    <3>1. up /\ (disk' = disk \/ disk' = OpenedLedger(mem))
      BY <2>5 DEF OpenBoot, Saved, NotSaved
    <3>2. OpenedLedger(mem).entries = mem.entries
      BY <2>3, Mark DEF OpenedLedger
    <3>3. QED BY <2>2, <3>1, <3>2
  <2>6. CASE MarkClean
    <3>1. up /\ (disk' = disk \/ disk' = Cleaned)
      BY <2>6 DEF MarkClean, Saved, NotSaved
    <3>2. Cleaned.entries[i].parked = mem.entries[i].parked
      BY <2>3, CleanedFields
    <3>3. QED BY <2>2, <3>1, <3>2
  <2>7. ASSUME NEW j \in Item, AdmitRefused(j) \/ AdmitUnrecorded(j) \/ Progress(j) PROVE FALSE
    BY <2>7 DEF AdmitRefused, AdmitUnrecorded, Progress, ledgerVars
  <2>8. ASSUME NEW j \in Item, Admit(j)
        PROVE  i \in SecondChance /\ ~disk.entries[i].chance /\ disk'.entries[i].chance
               /\ clock > disk.entries[i].at
    <3> DEFINE e == Judged(IF Counts(j) THEN Counted(j) ELSE Here(j))
    <3>1. ~Refused(j) /\ opened /\ (disk' = disk \/ disk' = Recorded(j))
      BY <2>8 DEF Admit, Saved, NotSaved
    <3>2. mem = disk
      BY <2>2, <3>1 DEF IInv, Process, TypeOK
    <3>3. e \in Entry
      BY <3>1, RecordedEntry
    <3>4. Recorded(j) = [mem EXCEPT !.entries[j] = e]
      BY DEF Recorded
    <3> HIDE DEF e
    <3>5. Recorded(j) \in Ledger /\ Recorded(j).entries[j] = e
          /\ \A k \in Item : k # j => Recorded(j).entries[k] = mem.entries[k]
      BY <2>3, <3>3, <3>4, Put
    <3>6. i = j /\ disk'.entries[i] = e
      BY <3>1, <3>2, <3>5
    <3>7. Due(i)
      BY <3>1, <3>2, <3>6 DEF Refused
    <3>8. e.chance = TRUE
      BY <3>6, <3>7, ChanceTaken DEF e
    <3>9. i \in SecondChance /\ ~disk.entries[i].chance /\ clock > disk.entries[i].at
      BY <3>2, <3>7 DEF Due
    <3>10. QED BY <3>6, <3>8, <3>9
  <2>9. ASSUME NEW j \in Item, NEW e \in Entry, Reset(j, e), up PROVE i = j
    <3> DEFINE r == [mem EXCEPT !.entries[j] = e]
    <3>1. disk' = disk \/ disk' = r
      BY <2>9 DEF Reset, Saved, NotSaved
    <3>2. r \in Ledger /\ \A k \in Item : k # j => r.entries[k] = mem.entries[k]
      BY <2>3, Put
    <3> HIDE DEF r
    <3>3. QED BY <2>2, <2>9, <3>1, <3>2
  <2>10. ASSUME NEW j \in Item, Forget(j) PROVE i = j
    BY <2>9, <2>10, Nothing DEF Forget
  <2>11. ASSUME NEW j \in Item, Retry(j) PROVE i = j
    <3> DEFINE e == [mem.entries[j] EXCEPT !.attempts = 0, !.parked = FALSE, !.at = Never]
    <3>1. mem.entries[j] \in Entry
      BY <2>3, Fields
    <3>2. e \in Entry
      BY <3>1, Zero DEF Entry
    <3>3. Reset(j, e) /\ up
      BY <2>11 DEF Retry
    <3>4. QED BY <2>9, <3>2, <3>3
  <2>12. QED BY <2>4, <2>5, <2>6, <2>7, <2>8, <2>10, <2>11 DEF Next
<1>2. QED BY <1>1, Invariance, PTL DEF Spec, ParkedStays
=============================================================================
