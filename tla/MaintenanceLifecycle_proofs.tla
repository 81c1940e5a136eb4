---------------------- MODULE MaintenanceLifecycle_proofs ----------------------
(***************************************************************************)
(* Proofs about MaintenanceLifecycle: a committed operation keeps every    *)
(* later boot closed, ends only as it is authorized to, and the proof      *)
(* Control was shown stays true.                                           *)
(***************************************************************************)
EXTENDS MaintenanceLifecycle, TLAPS

\* What the process holds of the file: the same operation, at least as far adopted
\* on the disk as in memory; or nothing it was told is committed.
Agree ==
  up => \/ blocked
        \/ disk = Open
        \/ disk \in Gate /\ disk.lease \in refused
        \/ /\ disk \in Gate /\ gate \in Gate
           /\ gate.lease = disk.lease /\ gate.op = disk.op /\ gate.source = disk.source
           /\ gate.adopted = boots => disk.adopted = boots

\* Control holds the proof for a cross-boot operation.
Proven == proven # Open /\ proven.op.scope = "cross_boot"

\* Leases are handed out in order, and the proof is about the gate in memory.
Handed ==
  /\ refused \subseteq 1 .. leases
  /\ Proven => gate # Open /\ gate.lease = proven.lease /\ gate.op = proven.op /\ ordinary = {}
  /\ gate # Open => up
  /\ blocked => up
  /\ up => boots >= 1

IInv == TypeOK /\ Agree /\ Handed

\* The word of a gate, and of no gate.
LEMMA Words ==
  /\ Open.lease = 0 /\ Unreadable.lease = MaxLeases + 1
  /\ \A g \in Gate : g.lease \in Lease /\ g # Open /\ g # Unreadable /\ g.lease # 0
  /\ Open # Unreadable
  /\ \A l \in Lease : l \in Nat /\ l # 0 /\ l # MaxLeases + 1
<1>1. Open.lease = 0 /\ Unreadable.lease = MaxLeases + 1
  BY DEF Open, Unreadable
<1>2. \A l \in Lease : l \in Nat /\ l # 0 /\ l # MaxLeases + 1
  BY BoundAssumption DEF Lease
<1>3. \A g \in Gate : g.lease \in Lease
  BY DEF Gate
<1>4. MaxLeases + 1 # 0
  BY BoundAssumption
<1>5. QED BY <1>1, <1>2, <1>3, <1>4

\* It holds of a server that has never run.
LEMMA InitIInv == Init => IInv
<1> SUFFICES ASSUME Init PROVE IInv
  OBVIOUS
<1>1. TypeOK
  <2>1. boots \in 0 .. MaxBoots /\ leases \in 0 .. MaxLeases
    BY BoundAssumption DEF Init
  <2>2. disk \in {Open, Unreadable} \cup Gate /\ gate \in {Open} \cup Gate /\ proven \in {Open} \cup Gate
    BY DEF Init
  <2>3. /\ blocked \in BOOLEAN /\ up \in BOOLEAN /\ overdue \in BOOLEAN
        /\ generation \in [Boot -> Generation] /\ runtime \in {"off", "waiting", "due", "started"}
    BY DEF Init
  <2>4. ordinary \subseteq Work /\ continuing \subseteq Work /\ told \subseteq Lease /\ refused \subseteq Lease
    BY DEF Init
  <2>5. QED BY <2>1, <2>2, <2>3, <2>4 DEF TypeOK
<1>2. Agree
  BY DEF Init, Agree
<1>3. Handed
  BY DEF Init, Handed, Proven
<1>4. QED BY <1>1, <1>2, <1>3 DEF IInv

\* A new drain has a new lease.
LEMMA NewGateType ==
  ASSUME IInv, Serving, leases < MaxLeases, NEW o \in Operation
  PROVE  NewGate(o) \in Gate /\ leases + 1 \in Lease
BY BoundAssumption DEF IInv, TypeOK, Handed, NewGate, Gate, Lease, Boot, Serving

\* The gate is removed, or stays: release, cancel and expiry.
LEMMA RemovalIInv ==
  ASSUME IInv, up, gate # Open,
         UNCHANGED <<bootVars, workVars, leases, told, refused>>,
         \/ disk' = Open /\ gate' = Open /\ overdue' = FALSE /\ blocked' = blocked
         \/ disk' \in {disk, Open} /\ gate' = gate /\ overdue' = overdue /\ blocked' \in {blocked, TRUE},
         runtime' \in {runtime, "due"},
         proven' = Open \/ (proven' = proven /\ (gate' = gate \/ ~Proven))
  PROVE  IInv'
<1>1. TypeOK'
  BY DEF IInv, TypeOK, bootVars, workVars
<1>2. Agree'
  BY Words DEF IInv, TypeOK, Agree, bootVars
<1>3. Handed'
  BY DEF IInv, Handed, Proven, bootVars, workVars
<1>4. QED BY <1>1, <1>2, <1>3 DEF IInv

\* Every step keeps it: one case per action.
LEMMA NextIInv == IInv /\ [Next]_vars => IInv'
<1> SUFFICES ASSUME IInv, [Next]_vars PROVE IInv'
  OBVIOUS
<1>1. CASE UNCHANGED vars
  BY <1>1 DEF IInv, TypeOK, Agree, Handed, Proven, vars, gateVars, bootVars, workVars, controlVars
<1>2. CASE Start
  <2>1. TypeOK'
    BY <1>2, BoundAssumption, Words DEF Start, IInv, TypeOK, workVars, controlVars
  <2>2. Agree'
    <3>1. CASE disk = Unreadable
      BY <1>2, <3>1 DEF Start, Agree
    <3>2. CASE disk = Open
      BY <1>2, <3>2 DEF Start, Agree
    <3>3. CASE disk \in Gate
      <4>1. gate' = disk /\ disk' = disk
        BY <1>2, <3>3, Words DEF Start
      <4>2. QED BY <3>3, <4>1 DEF Agree
    <3>4. QED BY <3>1, <3>2, <3>3 DEF IInv, TypeOK
  <2>3. Handed'
    BY <1>2, BoundAssumption DEF Start, IInv, TypeOK, Handed, Proven, workVars, controlVars
  <2>4. QED BY <2>1, <2>2, <2>3 DEF IInv
<1>3. CASE Register \/ Deliver
  <2>1. UNCHANGED <<gateVars, bootVars, workVars, controlVars>>
    BY <1>3 DEF Register, Deliver
  <2>2. runtime' \in {"off", "waiting", "due", "started"}
    BY <1>3 DEF Register, Deliver
  <2>3. TypeOK'
    BY <2>1, <2>2 DEF IInv, TypeOK, gateVars, bootVars, workVars, controlVars
  <2>4. Agree' /\ Handed'
    BY <2>1 DEF IInv, Agree, Handed, Proven, gateVars, bootVars, workVars, controlVars
  <2>5. QED BY <2>3, <2>4 DEF IInv
<1>4. CASE Stop
  <2>1. TypeOK'
    BY <1>4 DEF Stop, IInv, TypeOK
  <2>2. Agree'
    BY <1>4 DEF Stop, Agree
  <2>3. Handed'
    BY <1>4 DEF Stop, IInv, Handed, Proven
  <2>4. QED BY <2>1, <2>2, <2>3 DEF IInv
<1>5. CASE Expire
  <2>1. ~Proven
    BY <1>5 DEF Expire, Expirable, IInv, Handed, Proven
  <2>2. up /\ gate # Open /\ UNCHANGED <<bootVars, workVars, leases, told, refused>> /\ proven' = proven
    BY <1>5 DEF Expire, Expirable, controlVars
  <2>3. \/ disk' = Open /\ gate' = Open /\ overdue' = FALSE /\ blocked' = blocked
        \/ disk' \in {disk, Open} /\ gate' = gate /\ overdue' = overdue /\ blocked' \in {blocked, TRUE}
    BY <1>5 DEF Expire, Removed, NotRemoved
  <2>4. runtime' \in {runtime, "due"}
    BY <1>5 DEF Expire, Notify
  <2>5. QED BY <2>1, <2>2, <2>3, <2>4, RemovalIInv
<1>6. CASE TimePasses
  <2>1. TypeOK'
    BY <1>6 DEF TimePasses, IInv, TypeOK, bootVars, workVars, controlVars
  <2>2. Agree' /\ Handed'
    BY <1>6 DEF TimePasses, IInv, Agree, Handed, Proven, bootVars, workVars, controlVars
  <2>3. QED BY <2>1, <2>2 DEF IInv
<1>7. ASSUME NEW w \in Work, Acquire(w) \/ AcquireDuringDrain(w) \/ ReleaseWork(w) PROVE IInv'
  <2>1. UNCHANGED <<gateVars, bootVars, runtime, controlVars>>
    BY <1>7 DEF Acquire, AcquireDuringDrain, ReleaseWork
  <2>2. ordinary' \subseteq Work /\ continuing' \subseteq Work
    BY <1>7 DEF Acquire, AcquireDuringDrain, ReleaseWork, IInv, TypeOK
  <2>3. gate # Open => ordinary' \subseteq ordinary
    BY <1>7 DEF Acquire, AcquireDuringDrain, ReleaseWork, Closed, workVars
  <2>4. TypeOK'
    BY <2>1, <2>2 DEF IInv, TypeOK, gateVars, bootVars, controlVars
  <2>5. Agree'
    BY <2>1 DEF IInv, Agree, gateVars, bootVars, controlVars
  <2>6. Handed'
    BY <2>1, <2>3 DEF IInv, Handed, Proven, gateVars, bootVars, controlVars
  <2>7. QED BY <2>4, <2>5, <2>6 DEF IInv
<1>8. ASSUME NEW o \in Operation, NEW b \in Boot, BeginDrain(o, b) PROVE IInv'
  <2>1. NewGate(o) \in Gate /\ leases + 1 \in Lease /\ up
    BY <1>8, NewGateType DEF BeginDrain, Serving
  <2>2. TypeOK'
    <3>1. /\ disk' \in {disk, NewGate(o)} /\ gate' \in {gate, NewGate(o)} /\ overdue' \in {overdue, FALSE}
          /\ told' \in {told, told \cup {leases + 1}} /\ refused' \in {refused, refused \cup {leases + 1}}
      BY <1>8 DEF BeginDrain, Persisted, NotPersisted
    <3>2. leases' \in 0 .. MaxLeases
      BY <1>8, BoundAssumption DEF BeginDrain, IInv, TypeOK
    <3>3. UNCHANGED <<blocked, bootVars, workVars, runtime, proven>>
      BY <1>8 DEF BeginDrain
    <3>4. QED BY <2>1, <3>1, <3>2, <3>3 DEF IInv, TypeOK, bootVars, workVars
  <2>3. Agree'
    <3>1. CASE Persisted(NewGate(o)) /\ gate' = NewGate(o)
      BY <1>8, <2>1, <3>1 DEF BeginDrain, Persisted, IInv, Agree, bootVars
    <3>2. CASE NotPersisted(NewGate(o)) /\ refused' = refused \cup {leases + 1}
      BY <1>8, <2>1, <3>2, Words DEF BeginDrain, NotPersisted, NewGate, IInv, TypeOK, Agree, bootVars
    <3>3. QED BY <1>8, <3>1, <3>2 DEF BeginDrain
  <2>4. Handed'
    BY <1>8, <2>1 DEF BeginDrain, IInv, TypeOK, Handed, Proven, bootVars, workVars
  <2>5. QED BY <2>2, <2>3, <2>4 DEF IInv
<1>9. ASSUME NEW l \in Lease, NEW b \in Boot, AdoptDrain(l, b) PROVE IInv'
  <2> DEFINE next == [gate EXCEPT !.adopted = boots]
  <2>1. /\ gate \in Gate /\ next \in Gate /\ up /\ boots \in Boot
        /\ next.lease = gate.lease /\ next.op = gate.op /\ next.source = gate.source
        /\ next.adopted = boots
    BY <1>9, BoundAssumption DEF AdoptDrain, Credentials, Serving, IInv, TypeOK, Handed, Gate, Boot
  <2>2. \/ disk' = next /\ gate' = next
        \/ disk' \in {disk, next} /\ gate' = gate
    BY <1>9 DEF AdoptDrain, Persisted, NotPersisted
  <2>3. TypeOK'
    BY <1>9, <2>1, <2>2 DEF AdoptDrain, IInv, TypeOK, bootVars, workVars, controlVars
  <2>4. Agree'
    BY <1>9, <2>1, <2>2 DEF AdoptDrain, IInv, TypeOK, Agree, bootVars, controlVars
  <2>5. Handed'
    BY <1>9, <2>1, <2>2, Words DEF AdoptDrain, IInv, Handed, Proven, bootVars, workVars, controlVars
  <2>6. QED BY <2>3, <2>4, <2>5 DEF IInv
<1>10. ASSUME NEW l \in Lease, NEW b \in Boot, ReleaseDrain(l, b) \/ CancelDrain(l, b) PROVE IInv'
  BY <1>10, RemovalIInv DEF ReleaseDrain, CancelDrain, Credentials, Serving, Removed, NotRemoved,
     Reopened, StaysClosed, Notify
<1>11. ASSUME NEW l \in Lease, RestartProof(l) PROVE IInv'
  <2>1. gate \in Gate /\ up /\ ordinary = {}
    BY <1>11 DEF RestartProof, Credentials, Serving, Idle, IInv, TypeOK
  <2>2. QED BY <1>11, <2>1 DEF RestartProof, IInv, TypeOK, Agree, Handed, Proven, gateVars, bootVars, workVars
<1>12. QED
  BY <1>1, <1>2, <1>3, <1>4, <1>5, <1>6, <1>7, <1>8, <1>9, <1>10, <1>11 DEF Next, Control

\* Every reachable state satisfies the inductive invariant.
THEOREM Invariance == Spec => []IInv
BY InitIInv, NextIInv, PTL DEF Spec

\* Every variable has its type.
THEOREM Typing == Spec => []TypeOK
BY Invariance, PTL DEF IInv

\* A boot with a committed gate, or with a gate file it cannot read, admits nothing.
THEOREM CommittedStaysClosed == Spec => []ClosedWhileCommitted
<1>1. IInv => ClosedWhileCommitted
  BY Words DEF IInv, TypeOK, Agree, ClosedWhileCommitted, Closed
<1>2. QED BY <1>1, Invariance, PTL

\* What Control was shown before it stops the server stays so until it acts.
THEOREM ProofStays == Spec => []ProofHolds
<1>1. IInv => ProofHolds
  BY DEF IInv, Handed, Proven, ProofHolds
<1>2. QED BY <1>1, Invariance, PTL

\* A committed cross-boot operation ends by its own boot's cancel or in an
\* authorized boot that adopted it on the disk.
THEOREM EndAuthorized == Spec => EndsAsAuthorized
<1> DEFINE Fair == disk \in Gate /\ disk.op.scope = "cross_boot" /\ disk.lease \notin refused
                   /\ disk'.lease # disk.lease
           Ended == up /\ (disk.source = boots \/ (disk.adopted = boots /\ generation[boots] \in disk.op.successors))
<1>1. IInv /\ [Next]_vars => (Fair => Ended)
  <2> SUFFICES ASSUME IInv, [Next]_vars, Fair PROVE Ended
    OBVIOUS
  <2>1. disk' # disk
    OBVIOUS
  <2>2. up /\ ~blocked =>
          /\ gate \in Gate /\ gate.lease = disk.lease /\ gate.op = disk.op /\ gate.source = disk.source
          /\ gate.adopted = boots => disk.adopted = boots
    BY Words DEF IInv, Agree
  <2>3. CASE Expire
    BY <2>2, <2>3 DEF Expire, Expirable
  <2>4. ASSUME NEW o \in Operation, NEW b \in Boot, BeginDrain(o, b) PROVE Ended
    BY <2>2, <2>4, Words DEF BeginDrain, Serving
  <2>5. ASSUME NEW l \in Lease, NEW b \in Boot, AdoptDrain(l, b) PROVE Ended
    <3>1. gate \in Gate /\ [gate EXCEPT !.adopted = boots].lease = disk.lease
      BY <2>2, <2>5 DEF AdoptDrain, Credentials, Serving, Gate
    <3>2. disk'.lease = disk.lease
      BY <2>5, <3>1 DEF AdoptDrain, Persisted, NotPersisted
    <3>3. QED BY <3>2
  <2>6. ASSUME NEW l \in Lease, NEW b \in Boot, ReleaseDrain(l, b) PROVE Ended
    BY <2>2, <2>6 DEF ReleaseDrain, Credentials, Serving, Releasable
  <2>7. ASSUME NEW l \in Lease, NEW b \in Boot, CancelDrain(l, b) PROVE Ended
    BY <2>2, <2>7 DEF CancelDrain, Credentials, Serving
  <2>8. QED
    BY <2>1, <2>3, <2>4, <2>5, <2>6, <2>7 DEF Next, Control, vars, gateVars, Start, Register, Deliver,
       Stop, TimePasses, Acquire, AcquireDuringDrain, ReleaseWork, RestartProof
<1>2. IInv /\ [Next]_vars => [Fair => Ended]_vars
  BY <1>1
<1>3. QED BY <1>2, Invariance, PTL DEF Spec, EndsAsAuthorized
=============================================================================
