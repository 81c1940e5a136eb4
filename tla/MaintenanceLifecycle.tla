------------------------- MODULE MaintenanceLifecycle -------------------------
(***************************************************************************)
(* The maintenance gate (server/lib/maintenance-lifecycle.ts).             *)
(*                                                                         *)
(* COS Control, a program on the same Mac, closes the server for a restart *)
(* or an update: it commits an operation to the gate file, waits for a     *)
(* proof that the server is idle, and stops it.  The next boots stay       *)
(* closed until one of an authorized generation adopts the operation and   *)
(* Control releases it.  A same-boot operation only holds admissions for a *)
(* while, in the boot that began it.                                       *)
(*                                                                         *)
(* Control is modelled by the requests it can make: it names the boot it   *)
(* believes it talks to, which may be an earlier one, and the leases it    *)
(* was told.  Boots are numbered (a bootId is a random UUID).              *)
(***************************************************************************)
EXTENDS Naturals

CONSTANTS Operation,    \* what Control may ask for: [scope, successors]
          Generation,   \* builds of the server
          Work,         \* pieces of work that may hold a lease
          MaxBoots,     \* bound: boots
          MaxLeases     \* bound: drains begun

ASSUME OperationAssumption ==
  \A o \in Operation : /\ o.scope \in {"same_boot", "cross_boot"}
                       /\ o.successors \subseteq Generation
                       /\ o.successors # {}

ASSUME BoundAssumption == MaxBoots \in Nat /\ MaxLeases \in Nat

VARIABLES disk,       \* the gate file: Open, Unreadable, or a gate
          gate,       \* the gate of the running process: Open or a gate
          blocked,    \* the process could not make sense of the file, or not remove it
          up,         \* a process runs
          boots,      \* boots so far; the last one is the running process
          generation, \* per boot, the build it ran
          overdue,    \* the gate's time is over (same-boot operations)
          ordinary,   \* work admitted only while open
          continuing, \* work that may go on during a drain
          runtime,    \* "off", "waiting" for the gate, "due" (microtask queued), "started"
          leases,     \* leases handed out
          told,       \* leases Control was told
          refused,    \* leases of drains Control was told had failed
          proven      \* the gate under which Control was shown safeToRestart, or Open

gateVars == <<disk, gate, blocked, overdue>>
bootVars == <<up, boots, generation>>
workVars == <<ordinary, continuing>>
controlVars == <<leases, told, refused, proven>>
vars == <<gateVars, bootVars, workVars, runtime, controlVars>>

Open == [lease |-> 0]
Unreadable == [lease |-> MaxLeases + 1]

Boot == 1 .. MaxBoots
Lease == 1 .. MaxLeases

Gate == [lease : Lease, op : Operation, source : Boot, adopted : Boot \cup {0}]

Closed == blocked \/ gate # Open

\* Slip: a same-boot gate is over in any boot but its own.
ExpirableElsewhere ==
  /\ up /\ gate # Open /\ overdue /\ ~blocked
  /\ gate.op.scope = "same_boot" /\ gate.source # boots

\* A same-boot gate is over in its own boot only.  Every entry point removes it
\* first (expireSameBootGateIfPermitted): the actions below wait for Expire.
Expirable ==
  /\ up /\ gate # Open /\ overdue /\ ~blocked
  /\ gate.op.scope = "same_boot" /\ gate.source = boots

Serving == up /\ ~Expirable

Init ==
  /\ disk \in {Open, Unreadable}
  /\ gate = Open /\ blocked = FALSE /\ overdue = FALSE
  /\ up = FALSE /\ boots = 0 /\ generation \in [Boot -> Generation]
  /\ ordinary = {} /\ continuing = {}
  /\ runtime = "off"
  /\ leases = 0 /\ told = {} /\ refused = {} /\ proven = Open

-----------------------------------------------------------------------------
\* The gate file.

\* persistGate: written and renamed, or failed before the rename or after it.
Persisted(g) == disk' = g
NotPersisted(g) == disk' \in {disk, g}

\* removeGate, likewise.
Removed == disk' = Open
NotRemoved == disk' \in {disk, Open}

\* Slip: a gate that is removed opens admissions without telling anyone.
NotifyNobody == UNCHANGED runtime

\* notifyAdmissionsOpen: the waiting runtime is told in a microtask.
Notify == runtime' = IF runtime = "waiting" THEN "due" ELSE runtime

\* The gate of a same-boot operation is over; if its file cannot be removed the
\* process stays closed.
Expire ==
  /\ Expirable
  /\ \/ Removed /\ gate' = Open /\ overdue' = FALSE /\ Notify /\ UNCHANGED blocked
     \/ NotRemoved /\ blocked' = TRUE /\ UNCHANGED <<gate, overdue, runtime>>
  /\ UNCHANGED <<bootVars, workVars, controlVars>>

\* Its 30 seconds to 15 minutes pass.
TimePasses ==
  /\ gate # Open /\ gate.op.scope = "same_boot" /\ ~overdue
  /\ overdue' = TRUE
  /\ UNCHANGED <<disk, gate, blocked, bootVars, workVars, runtime, controlVars>>

-----------------------------------------------------------------------------
\* The process.

\* Slip: a gate file that cannot be read is no gate.
StartOptimist ==
  /\ ~up /\ boots < MaxBoots
  /\ up' = TRUE /\ boots' = boots + 1
  /\ gate' = IF disk = Unreadable THEN Open ELSE disk
  /\ blocked' = FALSE
  /\ UNCHANGED <<disk, overdue, generation, workVars, runtime, controlVars>>

\* The constructor reads the gate file (loadGateSync).
Start ==
  /\ ~up /\ boots < MaxBoots
  /\ up' = TRUE /\ boots' = boots + 1
  /\ gate' = IF disk = Unreadable THEN Open ELSE disk
  /\ blocked' = (disk = Unreadable)
  /\ UNCHANGED <<disk, overdue, generation, workVars, runtime, controlVars>>

\* The listeners are bound: the runtime starts, or waits for the gate.
Register ==
  /\ Serving /\ runtime = "off"
  /\ runtime' = IF Closed THEN "waiting" ELSE "due"
  /\ UNCHANGED <<gateVars, bootVars, workVars, controlVars>>

\* deliverAdmissionsOpen: the gate may have closed again before the microtask.
Deliver ==
  /\ Serving /\ runtime = "due"
  /\ runtime' = IF Closed THEN "waiting" ELSE "started"
  /\ UNCHANGED <<gateVars, bootVars, workVars, controlVars>>

\* A crash, or Control's stop: what was being done is cut short.
Stop ==
  /\ up
  /\ up' = FALSE
  /\ gate' = Open /\ blocked' = FALSE /\ runtime' = "off"
  /\ ordinary' = {} /\ continuing' = {}
  /\ proven' = Open
  /\ UNCHANGED <<disk, overdue, boots, generation, leases, told, refused>>

\* acquire: admitted work needs an open gate; the rest of work admitted before
\* (allowDuringDrain) only a gate that could be read.
Acquire(w) ==
  /\ Serving /\ w \notin ordinary \cup continuing
  /\ ~Closed
  /\ ordinary' = ordinary \cup {w}
  /\ UNCHANGED <<gateVars, bootVars, continuing, runtime, controlVars>>

AcquireDuringDrain(w) ==
  /\ Serving /\ w \notin ordinary \cup continuing
  /\ ~blocked
  /\ continuing' = continuing \cup {w}
  /\ UNCHANGED <<gateVars, bootVars, ordinary, runtime, controlVars>>

ReleaseWork(w) ==
  /\ up /\ w \in ordinary \cup continuing
  /\ ordinary' = ordinary \ {w} /\ continuing' = continuing \ {w}
  /\ UNCHANGED <<gateVars, bootVars, runtime, controlVars>>

-----------------------------------------------------------------------------
\* Control's requests.  `b` is the boot a request names, `l` the lease.

\* Slip: the lease of the last drain is used again.
NewGateAgain(o) == [lease |-> leases, op |-> o, source |-> boots, adopted |-> 0]

NewGate(o) == [lease |-> leases + 1, op |-> o, source |-> boots, adopted |-> 0]

\* A same-boot operation names the running build as its only successor.
Sensible(o) == o.scope = "same_boot" => o.successors = {generation[boots]}

\* Admissions close once the gate file is committed; Control may not get the answer.
BeginDrain(o, b) ==
  /\ Serving /\ leases < MaxLeases
  /\ ~blocked /\ gate = Open
  /\ b = boots /\ Sensible(o)
  /\ leases' = leases + 1
  /\ \/ /\ Persisted(NewGate(o)) /\ gate' = NewGate(o) /\ overdue' = FALSE
        /\ told' \in {told, told \cup {leases + 1}} /\ UNCHANGED refused
     \/ /\ NotPersisted(NewGate(o)) /\ refused' = refused \cup {leases + 1}
        /\ UNCHANGED <<gate, overdue, told>>
  /\ UNCHANGED <<blocked, bootVars, workVars, runtime, proven>>

\* requireCredentials: Control proves it began the operation of this gate.
Credentials(l) == Serving /\ ~blocked /\ gate # Open /\ gate.lease = l /\ l \in told

\* A boot of an authorized build, not the one that began it, takes the operation over.
AdoptDrain(l, b) ==
  /\ Credentials(l)
  /\ gate.op.scope = "cross_boot"
  /\ b = boots /\ boots # gate.source
  /\ generation[boots] \in gate.op.successors
  /\ LET next == [gate EXCEPT !.adopted = boots]
     IN  \/ Persisted(next) /\ gate' = next
         \/ NotPersisted(next) /\ UNCHANGED gate
  /\ UNCHANGED <<blocked, overdue, bootVars, workVars, runtime, controlVars>>

Reopened == gate' = Open /\ overdue' = FALSE /\ Notify
StaysClosed == UNCHANGED <<gate, overdue, runtime>>

\* Slip: any later boot of an authorized build may release, adopted or not.
ReleasableUnadopted(g) ==
  /\ generation[boots] \in g.op.successors
  /\ g.op.scope = "same_boot" => g.source = boots

\* The release postcondition: same boot, or adopted by this very boot.
Releasable(g) ==
  /\ generation[boots] \in g.op.successors
  /\ IF g.op.scope = "same_boot" THEN g.source = boots ELSE g.adopted = boots

ReleaseDrain(l, b) ==
  /\ Credentials(l)
  /\ b = boots /\ Releasable(gate)
  /\ proven' = Open
  /\ \/ Removed /\ Reopened
     \/ NotRemoved /\ StaysClosed
  /\ UNCHANGED <<blocked, bootVars, workVars, leases, told, refused>>

\* Only the boot that began the operation may cancel it.
CancelDrain(l, b) ==
  /\ Credentials(l)
  /\ b = gate.source /\ boots = gate.source
  /\ proven' = Open
  /\ \/ Removed /\ Reopened
     \/ NotRemoved /\ StaysClosed
  /\ UNCHANGED <<blocked, bootVars, workVars, leases, told, refused>>

\* Slip: only the work a drain lets go on is counted.
IdleButOrdinary == continuing = {}

\* Nothing holds a lease.
Idle == ordinary = {} /\ continuing = {}

\* snapshot with credentials: the proof that the server may be stopped.
RestartProof(l) ==
  /\ Credentials(l)
  /\ gate.source = boots /\ Idle
  /\ proven' = gate
  /\ UNCHANGED <<gateVars, bootVars, workVars, runtime, leases, told, refused>>

-----------------------------------------------------------------------------
Control ==
  \E b \in Boot :
    \/ \E o \in Operation : BeginDrain(o, b)
    \/ \E l \in Lease : AdoptDrain(l, b) \/ ReleaseDrain(l, b) \/ CancelDrain(l, b)

Next ==
  \/ Start \/ Register \/ Deliver \/ Stop
  \/ Expire \/ TimePasses
  \/ \E w \in Work : Acquire(w) \/ AcquireDuringDrain(w) \/ ReleaseWork(w)
  \/ Control
  \/ \E l \in Lease : RestartProof(l)

Spec == Init /\ [][Next]_vars

\* The event loop delivers microtasks, time passes, and the status polls of
\* Control and of the phone reach the lazy expiry.
Fairness ==
  /\ WF_vars(Register) /\ WF_vars(Deliver) /\ WF_vars(Expire) /\ WF_vars(TimePasses)

FairSpec == Spec /\ Fairness

-----------------------------------------------------------------------------
(***************************************************************************)
(* Properties.                                                             *)
(***************************************************************************)

\* Every variable has its type: the gate of the process, and of the file if it can
\* be read, has a lease.
TypeOK ==
  /\ disk \in {Open, Unreadable} \cup Gate /\ gate \in {Open} \cup Gate
  /\ blocked \in BOOLEAN /\ up \in BOOLEAN /\ overdue \in BOOLEAN
  /\ boots \in 0 .. MaxBoots /\ generation \in [Boot -> Generation]
  /\ ordinary \subseteq Work /\ continuing \subseteq Work
  /\ runtime \in {"off", "waiting", "due", "started"}
  /\ leases \in 0 .. MaxLeases /\ told \subseteq Lease /\ refused \subseteq Lease
  /\ proven \in {Open} \cup Gate

\* Whenever a process runs with a gate on the disk, or with a file it cannot
\* read, it is closed: a committed operation outlives every crash.  (The one
\* exception: the commit failed after its rename, and Control was told so.)
ClosedWhileCommitted ==
  up /\ disk # Open /\ disk.lease \notin refused => Closed

\* A cross-boot operation that was committed ends only by its own boot's cancel,
\* or in a boot of an authorized build that adopted it, on the disk, before.
EndsAsAuthorized ==
  [][ /\ disk \in Gate /\ disk.op.scope = "cross_boot" /\ disk.lease \notin refused
      /\ disk'.lease # disk.lease
      => /\ up
         /\ \/ disk.source = boots
            \/ disk.adopted = boots /\ generation[boots] \in disk.op.successors]_vars

\* Once Control has the proof that a cross-boot operation may stop the server,
\* no new work is admitted, and none runs but what a drain lets go on, until
\* Control itself releases or cancels the operation.
ProofHolds ==
  proven # Open /\ proven.op.scope = "cross_boot" =>
    gate # Open /\ gate.lease = proven.lease /\ ordinary = {}

\* A runtime that waits is not forgotten when the gate opens.
RuntimeStarts ==
  (up /\ ~Closed) ~> (runtime = "started" \/ Closed \/ ~up)

\* A same-boot operation never outlasts its time in its own boot, unless its
\* file cannot be removed.
SameBootEnds ==
  (up /\ gate # Open /\ gate.op.scope = "same_boot" /\ gate.source = boots)
    ~> (gate = Open \/ blocked \/ ~up)
=============================================================================
