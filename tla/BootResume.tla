------------------------------ MODULE BootResume ------------------------------
(***************************************************************************)
(* Crash-loop parking (server/lib/boot-resume.ts).                         *)
(*                                                                         *)
(* Work that every boot resumes may itself be what kills the server.  A    *)
(* ledger counts, before it runs, each item a boot resumes after a crash;  *)
(* an item counted on more than Limit boots in a row is parked.  Anything  *)
(* that goes wrong with the ledger admits the item.                        *)
(*                                                                         *)
(* Time is counted in half hours, the length of both windows of the code:  *)
(* two events are at the same time or half an hour, or more, apart.        *)
(* parkedAt is the time of the count that parks, so `at` stands for both.  *)
(* The ledger is read on first use; nothing changes the file before, so it *)
(* is read at the start here.                                              *)
(***************************************************************************)
EXTENDS Naturals

CONSTANTS Item,
          SecondChance,  \* meeting finalizations: unparked once by themselves
          Limit,         \* RESTART_LIMIT
          MaxBoots,      \* bound: processes
          MaxTime,       \* bound: half hours
          MaxPhase       \* bound: phases of an item

ASSUME LimitAssumption == Limit \in Nat \ {0}
ASSUME ItemAssumption == SecondChance \subseteq Item
ASSUME BoundAssumption == MaxBoots \in Nat /\ MaxTime \in Nat \ {0} /\ MaxPhase \in Nat \ {0}

VARIABLES file,     \* "missing", "corrupt", or "ok": then it holds `disk`
          disk,     \* the ledger as last written
          mem,      \* the ledger of the running process
          up,
          intact,   \* this process read the ledger back
          opened, crashed,
          seen,     \* items counted, or seen parked, by this process
          running,  \* items this process resumed
          boots, clock,
          phase,    \* how far each item is, in its own store
          asked,    \* history: this process recorded that it was asked to stop
          faulty,   \* this process could not read the ledger, or a write failed
          loop,     \* history: lives in a row that ran the item and ended in a crash
          blame     \* history: crashes since the item's count last started over

ledgerVars == <<file, disk, mem>>
processVars == <<up, intact, opened, crashed, seen, running, boots, faulty>>
historyVars == <<asked, loop, blame>>
vars == <<ledgerVars, processVars, clock, phase, historyVars>>

Never == 0
Time == 1 .. MaxTime
Phase == 1 .. MaxPhase
NoPhase == 0

Entry == [attempts : 0 .. Limit + 1, parked : BOOLEAN, at : {Never} \cup Time,
          phase : {NoPhase} \cup Phase, chance : BOOLEAN]
Absent == [attempts |-> 0, parked |-> FALSE, at |-> Never, phase |-> NoPhase, chance |-> FALSE]

Ledger == [clean : BOOLEAN, entries : [Item -> Entry]]
EmptyLedger == [clean |-> FALSE, entries |-> [i \in Item |-> Absent]]

\* What a life before now leaves of a history: its last crash may still be counted.
AtMostLast(n) == IF n = 0 THEN 0 ELSE 1

Init ==
  /\ file \in {"missing", "corrupt"} /\ disk = EmptyLedger /\ mem = EmptyLedger
  /\ up = FALSE /\ intact = FALSE /\ opened = FALSE /\ crashed = FALSE /\ faulty = FALSE /\ asked = FALSE
  /\ seen = {} /\ running = {}
  /\ boots = 0 /\ clock = 1
  /\ phase = [i \in Item |-> 1]
  /\ loop = [i \in Item |-> 0] /\ blame = [i \in Item |-> 0]

-----------------------------------------------------------------------------
\* save: the write is durable before it returns, or it failed before its rename.

Saved(ledger) == mem' = ledger /\ disk' = ledger /\ file' = "ok" /\ UNCHANGED faulty
NotSaved == faulty' = TRUE /\ UNCHANGED <<file, disk>>

\* Slip: no ledger at all is taken for a crash.
CrashSeenAnyway(ledger) == ~ledger.clean

\* Only a ledger that was read back intact says that the last exit was a crash.
CrashSeen(ledger) == intact /\ ~ledger.clean

\* A corrupt file is set aside; one that cannot be read stays.
Start ==
  /\ ~up /\ boots < MaxBoots
  /\ up' = TRUE /\ boots' = boots + 1
  /\ \/ file = "ok" /\ mem' = disk /\ intact' = TRUE /\ faulty' = FALSE /\ UNCHANGED file
     \/ file = "missing" /\ mem' = EmptyLedger /\ intact' = FALSE /\ faulty' = FALSE /\ UNCHANGED file
     \/ file = "corrupt" /\ mem' = EmptyLedger /\ intact' = FALSE /\ faulty' = TRUE /\ file' = "missing"
     \/ file = "ok" /\ mem' = EmptyLedger /\ intact' = FALSE /\ faulty' = TRUE /\ UNCHANGED file
  /\ UNCHANGED <<disk, opened, crashed, seen, running, clock, phase, historyVars>>

\* Slip: the marker of the last clean exit stays.
OpenedKeepsMarker(ledger) == ledger

OpenedLedger(ledger) == [ledger EXCEPT !.clean = FALSE]

\* openBoot, before anything is resumed.
OpenBoot ==
  /\ up /\ ~opened
  /\ opened' = TRUE
  /\ crashed' = CrashSeen(mem)
  /\ \/ Saved(OpenedLedger(mem))
     \/ NotSaved /\ mem' = OpenedLedger(mem)
  /\ UNCHANGED <<up, intact, seen, running, boots, clock, phase, historyVars>>

-----------------------------------------------------------------------------
\* Admission of one item.

Due(i) ==
  LET e == mem.entries[i]
  IN  e.parked /\ i \in SecondChance /\ ~e.chance /\ clock > e.at

\* The second chance starts with a fresh count.
Base(i) ==
  IF Due(i) THEN [mem.entries[i] EXCEPT !.attempts = 0, !.parked = FALSE, !.at = Never, !.chance = TRUE]
  ELSE mem.entries[i]

\* A new phase is progress: the count starts over.
Here(i) ==
  IF Base(i).phase # phase[i] THEN [Base(i) EXCEPT !.phase = phase[i], !.attempts = 0] ELSE Base(i)

Counts(i) == crashed /\ i \notin seen

\* Only counts of crashed boots close to each other add up.
Counted(i) ==
  [Here(i) EXCEPT !.attempts = IF Here(i).at = clock THEN @ + 1 ELSE 1, !.at = clock]

\* Slip: one boot too late.
JudgedLate(e) == [e EXCEPT !.parked = @ \/ e.attempts > Limit + 1]

Judged(e) == [e EXCEPT !.parked = @ \/ e.attempts > Limit]

Refused(i) == mem.entries[i].parked /\ ~Due(i)

Recorded(i) == [mem EXCEPT !.entries[i] = Judged(IF Counts(i) THEN Counted(i) ELSE Here(i))]

\* Nothing to record: an item without an entry on a boot that counts nothing, or no change.
Unchanging(i) ==
  ~Counts(i) /\ (mem.entries[i] = Absent \/ (~Due(i) /\ mem.entries[i].phase = phase[i]))

AdmitRefused(i) ==
  /\ opened /\ Refused(i)
  /\ seen' = seen \cup {i}
  /\ UNCHANGED <<ledgerVars, up, intact, opened, crashed, running, boots, faulty, clock, phase, historyVars>>

AdmitUnrecorded(i) ==
  /\ opened /\ ~Refused(i) /\ Unchanging(i)
  /\ seen' = seen \cup {i} /\ running' = running \cup {i}
  /\ UNCHANGED <<ledgerVars, up, intact, opened, crashed, boots, faulty, clock, phase, historyVars>>

\* The count is durable before the item runs; a count that cannot be written is
\* taken back and the item runs.
Admit(i) ==
  /\ opened /\ ~Refused(i) /\ ~Unchanging(i)
  /\ seen' = seen \cup {i}
  /\ \/ /\ Saved(Recorded(i))
        /\ running' = IF Recorded(i).entries[i].parked THEN running ELSE running \cup {i}
     \/ /\ NotSaved /\ UNCHANGED mem
        /\ running' = running \cup {i}
  /\ UNCHANGED <<up, intact, opened, crashed, boots, clock, phase, historyVars>>

-----------------------------------------------------------------------------
\* Progress, the end of the item, Retry, and the exits.

\* The item's work reaches its next phase.
Progress(i) ==
  /\ up /\ i \in running /\ phase[i] < MaxPhase
  /\ phase' = [phase EXCEPT ![i] = @ + 1]
  /\ loop' = [loop EXCEPT ![i] = 0] /\ blame' = [blame EXCEPT ![i] = AtMostLast(@)]
  /\ UNCHANGED <<ledgerVars, processVars, clock, asked>>

\* The entry of an item starts over, and so do its histories if that is durable.
Reset(i, entry) ==
  /\ loop' = [loop EXCEPT ![i] = 0]
  /\ \/ Saved([mem EXCEPT !.entries[i] = entry]) /\ blame' = [blame EXCEPT ![i] = AtMostLast(@)]
     \/ NotSaved /\ mem' = [mem EXCEPT !.entries[i] = entry] /\ UNCHANGED blame

\* forget: the item's own store is done with it, or it started.
Forget(i) ==
  /\ up /\ mem.entries[i] # Absent
  /\ Reset(i, Absent)
  /\ UNCHANGED <<up, intact, opened, crashed, seen, running, boots, clock, phase, asked>>

\* retry: the person's, of a parked item, or a new generation of a prompt.
Retry(i) ==
  /\ up /\ mem.entries[i] # Absent
  /\ Reset(i, [mem.entries[i] EXCEPT !.attempts = 0, !.parked = FALSE, !.at = Never])
  /\ UNCHANGED <<up, intact, opened, crashed, seen, running, boots, clock, phase, asked>>

\* A clean exit is no crash loop: what this boot admitted starts over.
Cleaned ==
  [mem EXCEPT !.clean = TRUE,
     !.entries = [i \in Item |-> IF i \in seen /\ ~@[i].parked
                                 THEN [@[i] EXCEPT !.attempts = 0, !.at = Never] ELSE @[i]]]

\* markCleanShutdown, the first thing a requested shutdown does.
MarkClean ==
  /\ up /\ opened /\ ~asked
  /\ \/ /\ Saved(Cleaned) /\ asked' = TRUE
        /\ blame' = [i \in Item |-> IF i \in seen /\ ~mem.entries[i].parked THEN 0 ELSE blame[i]]
     \/ NotSaved /\ mem' = Cleaned /\ UNCHANGED <<asked, blame>>
  /\ UNCHANGED <<up, intact, opened, crashed, seen, running, boots, clock, phase, loop>>

\* The process ends: requested, or not.
Exit ==
  /\ up
  /\ up' = FALSE /\ intact' = FALSE /\ opened' = FALSE /\ crashed' = FALSE /\ faulty' = FALSE
  /\ seen' = {} /\ running' = {} /\ mem' = EmptyLedger /\ asked' = FALSE
  /\ loop' = [i \in Item |-> IF faulty \/ asked THEN 0
                             ELSE IF i \in running THEN loop[i] + 1 ELSE loop[i]]
  /\ blame' = [i \in Item |-> IF opened /\ ~asked THEN blame[i] + 1 ELSE blame[i]]
  /\ UNCHANGED <<file, disk, boots, clock, phase>>

\* Half an hour passes.
Tick ==
  /\ clock < MaxTime
  /\ clock' = clock + 1
  /\ loop' = [i \in Item |-> 0] /\ blame' = [i \in Item |-> AtMostLast(blame[i])]
  /\ UNCHANGED <<ledgerVars, processVars, phase, asked>>

-----------------------------------------------------------------------------
Next ==
  \/ Start \/ OpenBoot \/ MarkClean \/ Exit \/ Tick
  \/ \E i \in Item : \/ AdmitRefused(i) \/ AdmitUnrecorded(i) \/ Admit(i)
                     \/ Progress(i) \/ Forget(i) \/ Retry(i)

Spec == Init /\ [][Next]_vars

-----------------------------------------------------------------------------
(***************************************************************************)
(* Properties.                                                             *)
(***************************************************************************)

\* Every variable has its type: no count passes the limit by more than one, and
\* no clock or phase runs ahead.
TypeOK ==
  /\ file \in {"missing", "corrupt", "ok"} /\ disk \in Ledger /\ mem \in Ledger
  /\ up \in BOOLEAN /\ intact \in BOOLEAN /\ opened \in BOOLEAN /\ crashed \in BOOLEAN
  /\ faulty \in BOOLEAN /\ asked \in BOOLEAN
  /\ seen \subseteq Item /\ running \subseteq Item
  /\ boots \in 0 .. MaxBoots /\ clock \in Time /\ phase \in [Item -> Phase]
  /\ loop \in [Item -> Nat] /\ blame \in [Item -> Nat]

\* An item that kills every process that resumes it, within half an hour and with a
\* ledger that works, is resumed by at most Limit + 1 of them: the first may
\* follow a clean exit.
LoopStops == \A i \in Item : loop[i] <= Limit + 1

\* An item is parked only after more than Limit crashes since its count last
\* started over: no restart that was asked for, no missing or broken ledger and
\* no crash of another day parks it.
OnlyCrashesPark ==
  [][\A i \in Item :
       ~disk.entries[i].parked /\ disk'.entries[i].parked => blame[i] > Limit]_vars

\* A parked item stays parked over restarts and progress elsewhere, until the person's
\* Retry, its own store's end, or its one second chance: unless the ledger was lost.
ParkedStays ==
  [][\A i \in Item :
       disk.entries[i].parked /\ ~disk'.entries[i].parked /\ ~faulty =>
         \/ Retry(i) \/ Forget(i)
         \/ i \in SecondChance /\ ~disk.entries[i].chance /\ disk'.entries[i].chance
            /\ clock > disk.entries[i].at]_vars
=============================================================================
