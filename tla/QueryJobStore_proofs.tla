------------------------- MODULE QueryJobStore_proofs -------------------------
(***************************************************************************)
(* Proofs about QueryJobStore: its safety invariants for every set of      *)
(* prompts, every number of jobs, waiting calls and boots.                 *)
(***************************************************************************)
EXTENDS QueryJobStore, TLAPS

-----------------------------------------------------------------------------
(***************************************************************************)
(* Lemmas about the reducer.                                               *)
(***************************************************************************)

\* A row applied to a job gives a job.
LEMMA ApplyType ==
  ASSUME NEW v \in View, NEW op \in Op
  PROVE  Apply(v, op) \in View
<1>1. CASE op.kind = "accepted"
  <2>1. AbsentJob \in View
    BY DEF AbsentJob, View, Status, Response, Cause
  <2>2. NewJob(op.req) \in View
    BY <2>1 DEF NewJob, View, Op, Status, Live
  <2>3. Apply(v, op) = IF v.status = "absent" THEN NewJob(op.req) ELSE v
    BY <1>1 DEF Apply, Moves, Terminal
  <2>4. QED BY <2>2, <2>3
<1>2. CASE op.kind # "accepted"
  BY <1>2 DEF Apply, View, Op, Status, Live, Terminal, Moves, OpKind
<1>3. QED BY <1>1, <1>2

\* A row moves a job along Allowed, or not at all.
LEMMA ApplyMoves ==
  ASSUME NEW v \in View, NEW op \in Op
  PROVE  \/ Apply(v, op).status = v.status
         \/ v.status = "absent" /\ Apply(v, op).status = "accepted"
         \/ Apply(v, op).status \in Allowed[v.status]
  BY DEF Apply, NewJob, AbsentJob, View, Op, Moves, Terminal

\* A job only moves forward.
LEMMA ApplyAdvances ==
  ASSUME NEW v \in View, NEW op \in Op
  PROVE  CanBecome(v.status, Apply(v, op).status)
  BY ApplyMoves DEF CanBecome, Allowed, View, Status, Live, Terminal

\* An existing job keeps its prompt and its checkpoint, a finished one its
\* status; only its first row creates a job.
LEMMA ApplyKeeps ==
  ASSUME NEW v \in View, NEW op \in Op
  PROVE  /\ v.status # "absent" => /\ Apply(v, op).status # "absent"
                                   /\ Apply(v, op).req = v.req
                                   /\ v.checkpoint => Apply(v, op).checkpoint
         /\ v.status \in Terminal => Apply(v, op).status = v.status
         /\ v.status = "absent" =>
              Apply(v, op) = IF op.kind = "accepted" THEN NewJob(op.req) ELSE v
<1>1. CASE op.kind = "accepted"
  BY <1>1 DEF Apply, Moves, Terminal
<1>2. CASE op.kind \in {"checkpoint", "acknowledged", "linkage"}
  BY <1>2 DEF Apply, Moves, Terminal, View, Live
<1>3. CASE op.kind \notin {"accepted", "checkpoint", "acknowledged", "linkage"}
  BY <1>3 DEF Apply, Moves, Terminal, View, Allowed, Live, Status
<1>4. QED BY <1>1, <1>2, <1>3

\* Forward of forward is forward.
LEMMA CanBecomeTransitive ==
  ASSUME NEW s \in Status, NEW t \in Status, NEW u \in Status,
         CanBecome(s, t), CanBecome(t, u)
  PROVE  CanBecome(s, u)
  BY DEF CanBecome, Status, Live, Terminal

-----------------------------------------------------------------------------
(***************************************************************************)
(* The inductive invariant.                                                *)
(***************************************************************************)

\* What the writer is asked for makes sense of the jobs the journal holds.
Sound(op) ==
  /\ op.kind # "none"
  /\ IF op.kind = "accepted" THEN op.req \in Request ELSE op.job \in Job
  /\ IF op.kind = "completed"
     THEN \/ op.response = "whole"
          \/ op.response = "checkpoint" /\ durable[op.job].checkpoint
     ELSE op.response = "none"
  /\ op.kind # "interrupted" => op.fence = FALSE /\ op.cause = "none"

SoundQueue == \A i \in 1 .. Len(queue) : Sound(queue[i])

SoundWriting == writing # NoOp => Sound(writing) /\ writing.job \in Job

\* Nothing is asked of a store that is not ready.
Quiet == health # "ready" => queue = <<>> /\ writing = NoOp

\* A row not yet on the disk was checked against the jobs the journal holds.
Checked ==
  ~flushed =>
    /\ writing.kind = "accepted" => /\ Fresh(durable, writing.job)
                                    /\ ~LineageBusy(durable, writing.req)
                                    /\ ~OutOfOrder(durable, writing.req)
    /\ writing.kind = "checkpoint" => durable[writing.job].status = "running"
    /\ writing.kind = "acknowledged" => durable[writing.job].status \in Terminal

\* Nothing is known of a job before its first row.
Unborn ==
  \A j \in Job : /\ ~Exists(durable, j) => durable[j] = AbsentJob
                 /\ ~Exists(memory, j) => memory[j] = AbsentJob

\* Jobs are numbered in the order of their first row, and each has its prompt.
Numbered ==
  \A i, j \in Job : Exists(durable, j) => /\ durable[j].req \in Request
                                          /\ i < j => Exists(durable, i)

IInv ==
  /\ TypeOK /\ Quiet /\ SoundQueue /\ SoundWriting /\ Checked /\ Unborn /\ Numbered
  /\ MemoryIsJournal /\ ShownIsDurable /\ LineageIsSerial

-----------------------------------------------------------------------------
(***************************************************************************)
(* The operations the callers queue.                                       *)
(***************************************************************************)

\* Nothing in flight is an operation of its own kind.
LEMMA NoOpType == NoOp \in Op /\ NoOp.kind = "none"
  BY DEF NoOp, Do, Op, OpKind, Response, Cause, Caller

\* A plain row about a job is sound.
LEMMA DoSound ==
  ASSUME NEW kind \in OpKind \ {"none", "accepted", "completed"}, NEW j \in Job
  PROVE  Do(kind, j) \in Op /\ Sound(Do(kind, j))
  BY DEF Sound, Do, Op, Response, Cause, Caller

\* So is an admission.
LEMMA AdmitSound ==
  ASSUME NEW r \in Request
  PROVE  Admit(r) \in Op /\ Sound(Admit(r))
  BY DEF Sound, Admit, Do, Op, OpKind, Response, Cause, Caller

\* So is a completion whose text the job has.
LEMMA CompleteSound ==
  ASSUME NEW j \in Job, NEW text \in {"whole", "checkpoint"},
         text = "checkpoint" => durable[j].checkpoint
  PROVE  Complete(j, text) \in Op /\ Sound(Complete(j, text))
<1>1. Complete(j, text) \in Op
  BY DEF Complete, Do, Op, OpKind, Moves, Terminal, Response, Cause, Caller
<1>2. /\ Complete(j, text).kind = "completed" /\ Complete(j, text).job = j
      /\ Complete(j, text).response = text
      /\ Complete(j, text).fence = FALSE /\ Complete(j, text).cause = "none"
  BY DEF Complete, Do
<1>3. QED BY <1>1, <1>2 DEF Sound

\* So is an interrupt.
LEMMA InterruptSound ==
  ASSUME NEW j \in Job, NEW f \in BOOLEAN, NEW why \in Cause
  PROVE  Interrupt(j, f, why) \in Op /\ Sound(Interrupt(j, f, why))
  BY DEF Sound, Interrupt, Do, Op, OpKind, Moves, Terminal, Response, Caller

\* What fail() and interrupt() queue is sound of the jobs memory holds.
LEMMA SnapshotOps ==
  ASSUME NEW j \in Job, NEW why \in Cause, memory[j] \in View,
         memory[j].checkpoint => durable[j].checkpoint
  PROVE  /\ FailOp(memory[j], j) \in Op /\ Sound(FailOp(memory[j], j))
         /\ InterruptOp(memory[j], j, why) \in Op /\ Sound(InterruptOp(memory[j], j, why))
<1>1. /\ Complete(j, "whole") \in Op /\ Sound(Complete(j, "whole"))
      /\ memory[j].checkpoint =>
           Complete(j, "checkpoint") \in Op /\ Sound(Complete(j, "checkpoint"))
  BY CompleteSound
<1>2. Do("failed", j) \in Op /\ Sound(Do("failed", j))
  BY DoSound DEF OpKind, Moves, Terminal
<1>3. Interrupt(j, memory[j].owned, why) \in Op /\ Sound(Interrupt(j, memory[j].owned, why))
  BY InterruptSound DEF View
<1>4. QED BY <1>1, <1>2, <1>3 DEF FailOp, InterruptOp

-----------------------------------------------------------------------------
(***************************************************************************)
(* The invariant is inductive.                                             *)
(***************************************************************************)

\* It holds of the journal nobody has written to.
LEMMA InitIInv == StoreInit => IInv
<1> SUFFICES ASSUME StoreInit PROVE IInv
  OBVIOUS
<1> USE DEF StoreInit
<1>1. AbsentJob \in View
  BY DEF AbsentJob, View, Status, Response, Cause
<1>2. TypeOK
  <2>1. durable \in [Job -> View] /\ memory \in [Job -> View]
    BY <1>1
  <2>2. shown \in [Job -> Status]
    BY DEF Status
  <2>3. queue \in Seq(Op) /\ writing \in Op
    BY NoOpType
  <2>4. flushed \in BOOLEAN /\ (flushed => writing # NoOp)
    OBVIOUS
  <2>5. todo \subseteq Job /\ mine \subseteq Job /\ requeued \subseteq Job /\ lapsed \subseteq Job
    OBVIOUS
  <2>6. QED BY <2>1, <2>2, <2>3, <2>4, <2>5 DEF TypeOK
<1>3. Quiet /\ SoundQueue /\ SoundWriting /\ MemoryIsJournal
  BY DEF Quiet, SoundQueue, SoundWriting, MemoryIsJournal
<1>4. Checked /\ Unborn /\ Numbered /\ LineageIsSerial
  BY NoOpType DEF Checked, Unborn, Numbered, LineageIsSerial, Exists, AbsentJob
<1>5. ShownIsDurable
  BY DEF ShownIsDurable, CanBecome, AbsentJob
<1>6. QED BY <1>2, <1>3, <1>4, <1>5 DEF IInv

\* A step that leaves the jobs and the row being written alone, and puts at most
\* one sound operation behind the waiting ones, keeps the invariant.
LEMMA EnqueueIInv ==
  ASSUME IInv, health = "ready",
         UNCHANGED <<durable, memory, health, writing, flushed, lapsed, boots, shown, owners>>,
         todo' \subseteq Job, mine' \subseteq Job, requeued' \subseteq Job,
         \/ UNCHANGED queue
         \/ \E op \in Op : Sound(op) /\ Enqueue(op)
  PROVE  IInv'
<1>1. TypeOK'
  BY DEF IInv, TypeOK, Enqueue
<1>2. SoundQueue'
  <2>1. ASSUME NEW op \in Op, Sound(op), queue' = Append(queue, op), NEW i \in 1 .. Len(queue')
        PROVE  Sound(queue[i])'
    <3>1. (i \in 1 .. Len(queue) /\ queue'[i] = queue[i]) \/ queue'[i] = op
      BY <2>1 DEF IInv, TypeOK
    <3>2. QED BY <2>1, <3>1 DEF IInv, SoundQueue, Sound
  <2>2. CASE UNCHANGED queue
    BY <2>2 DEF IInv, SoundQueue, Sound
  <2>3. QED BY <2>1, <2>2 DEF SoundQueue, Enqueue
<1>3. (Quiet /\ SoundWriting /\ Checked)'
  BY DEF IInv, Quiet, SoundWriting, Sound, Checked, Fresh, LineageBusy, OutOfOrder, SameClient, Exists
<1>4. (Unborn /\ Numbered /\ MemoryIsJournal /\ ShownIsDurable /\ LineageIsSerial)'
  BY DEF IInv, Unborn, Numbered, Exists, MemoryIsJournal, ShownIsDurable, CanBecome, LineageIsSerial
<1>5. QED BY <1>1, <1>2, <1>3, <1>4 DEF IInv

\* What memory shows of a job, the journal has: its type and its checkpoint.
LEMMA SnapshotIsSound ==
  ASSUME IInv, health = "ready", NEW j \in Job
  PROVE  memory[j] \in View /\ (memory[j].checkpoint => durable[j].checkpoint)
<1>1. memory[j] \in View /\ durable[j] \in View
  BY DEF IInv, TypeOK
<1>2. ASSUME flushed, writing.job = j PROVE memory[j].checkpoint => durable[j].checkpoint
  <2>1. durable[j] = Apply(memory[j], writing) /\ writing \in Op
    BY <1>2 DEF IInv, TypeOK, MemoryIsJournal
  <2>2. CASE Exists(memory, j)
    BY <1>1, <2>1, <2>2, ApplyKeeps DEF Exists
  <2>3. CASE ~Exists(memory, j)
    BY <2>3 DEF IInv, Unborn, AbsentJob
  <2>4. QED BY <2>2, <2>3
<1>3. ASSUME ~(flushed /\ writing.job = j) PROVE memory[j] = durable[j]
  BY <1>3 DEF IInv, TypeOK, MemoryIsJournal
<1>4. QED BY <1>1, <1>2, <1>3

\* No call harms it.
LEMMA CallsIInv == IInv /\ Calls => IInv'
<1> SUFFICES ASSUME IInv, Calls PROVE IInv'
  OBVIOUS
<1>1. ASSUME NEW op \in Op, Sound(op), Callable, Call(op) PROVE IInv'
  BY <1>1, EnqueueIInv DEF Callable, Call, IInv, TypeOK
<1>2. ASSUME NEW r \in Request, CallAdmit(r) PROVE IInv'
  BY <1>1, <1>2, AdmitSound DEF CallAdmit
<1>3. ASSUME NEW j \in Job, NEW kind \in {"starting", "running", "linkage", "checkpoint",
                                         "answer_ready", "canceled", "acknowledged"},
             Callable, Call(Do(kind, j))
      PROVE  IInv'
  <2>1. kind \in OpKind \ {"none", "accepted", "completed"}
    BY DEF OpKind, Moves, Terminal
  <2>2. Do(kind, j) \in Op /\ Sound(Do(kind, j))
    BY <2>1, DoSound
  <2>3. QED BY <1>1, <1>3, <2>2
<1>4. ASSUME NEW j \in Job,
             \/ CallMarkStarting(j) \/ CallMarkRunning(j) \/ CallUpdateLinkage(j)
             \/ CallCheckpoint(j) \/ CallMarkAnswerReady(j) \/ CallCancel(j)
             \/ CallAcknowledge(j)
      PROVE  IInv'
  BY <1>3, <1>4 DEF CallMarkStarting, CallMarkRunning, CallUpdateLinkage, CallCheckpoint,
                    CallMarkAnswerReady, CallCancel, CallAcknowledge
<1>5. ASSUME NEW j \in Job, CallComplete(j) PROVE IInv'
  BY <1>1, <1>5, CompleteSound DEF CallComplete
<1>6. ASSUME NEW j \in Job, CallFail(j) \/ CallInterrupt(j) PROVE IInv'
  <2>1. health = "ready"
    BY <1>6 DEF CallFail, CallInterrupt, Callable
  <2>2. \A why \in Cause : /\ FailOp(memory[j], j) \in Op /\ Sound(FailOp(memory[j], j))
                           /\ InterruptOp(memory[j], j, why) \in Op
                           /\ Sound(InterruptOp(memory[j], j, why))
    BY <2>1, SnapshotIsSound, SnapshotOps
  <2>3. QED BY <1>1, <1>6, <2>2 DEF CallFail, CallInterrupt, Cause
<1>7. ASSUME NEW j \in Job, CallInterruptParked(j) PROVE IInv'
  <2>1. /\ Interrupt(j, FALSE, "crash_loop_parked") \in Op
        /\ Sound(Interrupt(j, FALSE, "crash_loop_parked"))
    BY InterruptSound DEF Cause
  <2>2. QED BY <1>1, <1>7, <2>1 DEF CallInterruptParked
<1>8. QED BY <1>2, <1>4, <1>5, <1>6, <1>7 DEF Calls

\* Nor does the boot's classification.
LEMMA ClassifyIInv == IInv /\ Classify => IInv'
<1> SUFFICES ASSUME IInv, NEW j \in Job, BootRequeue(j) \/ BootComplete(j) \/ BootInterrupt(j)
             PROVE  IInv'
  BY DEF Classify
<1>1. health = "ready" /\ todo \subseteq Job /\ mine \subseteq Job /\ requeued \subseteq Job
  BY DEF BootRequeue, BootComplete, BootInterrupt, NextPrior, IInv, TypeOK
<1>2. CASE BootRequeue(j)
  BY <1>1, <1>2, EnqueueIInv DEF BootRequeue, NextPrior
<1>3. ASSUME NEW op \in Op, Sound(op)
      PROVE  [op EXCEPT !.by = "boot"] \in Op /\ Sound([op EXCEPT !.by = "boot"])
  BY <1>3 DEF Op, Caller, Sound
<1>4. CASE BootComplete(j)
  <2>1. Complete(j, "whole") \in Op /\ Sound(Complete(j, "whole"))
    BY CompleteSound
  <2>2. QED BY <1>1, <1>3, <1>4, <2>1, EnqueueIInv DEF BootComplete, NextPrior
<1>5. CASE BootInterrupt(j)
  <2>1. /\ InterruptOp(memory[j], j, "server_restarted") \in Op
        /\ Sound(InterruptOp(memory[j], j, "server_restarted"))
    BY <1>1, SnapshotIsSound, SnapshotOps DEF Cause
  <2>2. QED BY <1>1, <1>3, <1>5, <2>1, EnqueueIInv DEF BootInterrupt, NextPrior
<1>6. QED BY <1>2, <1>4, <1>5

\* The operations behind the head stay sound.
LEMMA TailIsSound ==
  ASSUME IInv, queue # <<>>, queue' = Tail(queue), UNCHANGED durable
  PROVE  SoundQueue' /\ queue' \in Seq(Op) /\ Head(queue) \in Op /\ Sound(Head(queue))
<1>1. queue \in Seq(Op)
  BY DEF IInv, TypeOK
<1>2. Head(queue) = queue[1] /\ 1 \in 1 .. Len(queue)
  BY <1>1
<1>3. queue' \in Seq(Op) /\ \A i \in 1 .. Len(queue') : queue'[i] = queue[i + 1] /\ i + 1 \in 1 .. Len(queue)
  BY <1>1
<1>4. QED BY <1>1, <1>2, <1>3 DEF IInv, SoundQueue, Sound

\* The writer takes the next operation, or refuses it.
LEMMA NextWriteIInv == IInv /\ (Refuse \/ StartWrite) => IInv'
<1>1. ASSUME IInv, Refuse PROVE IInv'
  <2> USE <1>1 DEF Refuse
  <2>1. SoundQueue' /\ queue' \in Seq(Op)
    BY TailIsSound
  <2>2. (TypeOK /\ Quiet /\ SoundWriting /\ Checked)'
    BY <2>1 DEF IInv, TypeOK, Quiet, SoundWriting, Sound, Checked, Fresh, LineageBusy,
                OutOfOrder, SameClient, Exists
  <2>3. (Unborn /\ Numbered /\ MemoryIsJournal /\ ShownIsDurable /\ LineageIsSerial)'
    BY DEF IInv, Unborn, Numbered, Exists, MemoryIsJournal, ShownIsDurable, CanBecome, LineageIsSerial
  <2>4. QED BY <2>1, <2>2, <2>3 DEF IInv
<1>2. ASSUME IInv, StartWrite PROVE IInv'
  <2> USE <1>2 DEF StartWrite
  <2> DEFINE op == Head(queue)
  <2>1. SoundQueue' /\ queue' \in Seq(Op) /\ op \in Op /\ Sound(op)
    BY TailIsSound
  <2>2. memory = durable /\ ~flushed
    BY DEF IInv, TypeOK, MemoryIsJournal
  <2>3. writing' \in Op /\ (Sound(writing) /\ writing.job \in Job)'
    <3>1. CASE op.kind = "accepted"
      BY <2>1, <3>1 DEF Op, Sound
    <3>2. CASE op.kind # "accepted"
      BY <2>1, <3>2 DEF Sound
    <3>3. QED BY <3>1, <3>2
  <2>4. Checked'
    <3>1. CASE op.kind = "accepted"
      BY <2>1, <2>2, <3>1 DEF Op, Accepted, Accepts, Checked, Fresh, LineageBusy, OutOfOrder,
                              SameClient, Exists, Moves, Terminal
    <3>2. CASE op.kind # "accepted"
      <4>1. writing' = op /\ ~(op.kind = "accepted")
        BY <3>2
      <4>2. op.kind = "checkpoint" => memory[op.job].status = "running"
        BY DEF Accepted, Accepts, Moves, Terminal
      <4>3. op.kind = "acknowledged" => memory[op.job].status \in Terminal
        BY DEF Accepted, Accepts, Moves, Terminal
      <4>4. QED BY <2>2, <4>1, <4>2, <4>3 DEF Checked
    <3>3. QED BY <3>1, <3>2
  <2>5. (TypeOK /\ Quiet /\ SoundWriting)'
    BY <2>1, <2>2, <2>3 DEF IInv, TypeOK, Quiet, SoundWriting
  <2>6. (Unborn /\ Numbered /\ MemoryIsJournal /\ ShownIsDurable /\ LineageIsSerial)'
    BY <2>2 DEF IInv, Unborn, Numbered, Exists, MemoryIsJournal, ShownIsDurable, CanBecome,
                LineageIsSerial
  <2>7. QED BY <2>1, <2>4, <2>5, <2>6 DEF IInv
<1>3. QED BY <1>1, <1>2

\* The row reaches the disk: the one step that changes the journal.
LEMMA FlushIInv == IInv /\ Flush => IInv'
<1> SUFFICES ASSUME IInv, Flush PROVE IInv'
  OBVIOUS
<1> DEFINE w == writing.job
           v == durable[w]
           u == Apply(v, writing)
<1>1. /\ w \in Job /\ writing \in Op /\ Sound(writing) /\ v \in View /\ u \in View
      /\ durable \in [Job -> View] /\ durable' = [durable EXCEPT ![w] = u]
      /\ UNCHANGED <<memory, health, queue, writing, shown>> /\ flushed' /\ ~flushed
  <2>1. w \in Job /\ writing \in Op /\ Sound(writing) /\ durable \in [Job -> View]
    BY DEF Flush, IInv, TypeOK, SoundWriting
  <2>2. v \in View /\ u \in View
    BY <2>1, ApplyType
  <2>3. QED BY <2>1, <2>2 DEF Flush
<1>2. memory = durable /\ health = "ready"
  BY <1>1 DEF Flush, IInv, Quiet, MemoryIsJournal
<1>3. ASSUME NEW j \in Job, durable[j].status # "absent"
      PROVE  /\ durable'[j].status # "absent" /\ durable'[j].req = durable[j].req
             /\ durable[j].checkpoint => durable'[j].checkpoint
             /\ durable[j].status \in Terminal => durable'[j].status = durable[j].status
  BY <1>1, <1>3, ApplyKeeps
<1>4. ASSUME NEW j \in Job, durable[j].status = "absent"
       PROVE  \/ durable'[j] = durable[j]
              \/ /\ j = w /\ writing.kind = "accepted" /\ Fresh(durable, j)
                 /\ durable'[j].status = "accepted"
                 /\ durable'[j].req = writing.req /\ durable'[j].req \in Request
  <2>1. CASE j = w /\ writing.kind = "accepted"
    <3>1. durable'[j] = NewJob(writing.req)
      BY <1>1, <1>4, <2>1, ApplyKeeps
    <3>2. NewJob(writing.req).req = writing.req /\ NewJob(writing.req).status = "accepted"
      BY DEF NewJob, AbsentJob
    <3>3. QED BY <1>1, <2>1, <3>1, <3>2 DEF IInv, Checked, Sound
  <2>2. CASE ~(j = w /\ writing.kind = "accepted")
    BY <1>1, <1>4, <2>2, ApplyKeeps
  <2>3. QED BY <2>1, <2>2
<1>5. TypeOK'
  BY <1>1 DEF Flush, IInv, TypeOK
<1>6. (SoundQueue /\ SoundWriting)'
  <2>1. ASSUME NEW op, Sound(op) PROVE Sound(op)'
    <3>1. CASE op.kind = "completed" /\ op.response = "checkpoint"
      <4>1. op.job \in Job /\ durable[op.job].checkpoint
        BY <2>1, <3>1 DEF Sound
      <4>2. durable[op.job].status # "absent"
        BY <4>1 DEF IInv, Unborn, AbsentJob, Exists
      <4>3. durable'[op.job].checkpoint
        BY <1>3, <4>1, <4>2
      <4>4. QED BY <2>1, <3>1, <4>3 DEF Sound
    <3>2. CASE ~(op.kind = "completed" /\ op.response = "checkpoint")
      BY <2>1, <3>2 DEF Sound
    <3>3. QED BY <3>1, <3>2
  <2>2. QED BY <1>1, <2>1 DEF IInv, SoundQueue, SoundWriting
<1>7. (Quiet /\ Checked)'
  BY <1>1, <1>2 DEF Quiet, Checked
<1>8. (Unborn /\ Numbered)'
  <2>1. Unborn'
    <3>1. ASSUME NEW j \in Job, durable'[j].status = "absent" PROVE durable'[j] = AbsentJob
      <4>1. durable[j].status = "absent"
        BY <1>3, <3>1
      <4>2. durable'[j] = durable[j]
        BY <1>4, <3>1, <4>1
      <4>3. QED BY <4>1, <4>2 DEF IInv, Unborn, Exists
    <3>2. QED BY <1>1, <1>2, <3>1 DEF IInv, Unborn, Exists
  <2>2. ASSUME NEW i \in Job, NEW j \in Job, durable'[j].status # "absent"
        PROVE  durable'[j].req \in Request /\ (i < j => durable'[i].status # "absent")
    <3>1. CASE durable[j].status # "absent"
      <4>1. durable[j].req \in Request /\ (i < j => durable[i].status # "absent")
        BY <3>1 DEF IInv, Numbered, Exists
      <4>2. QED BY <1>3, <3>1, <4>1
    <3>2. CASE durable[j].status = "absent"
      <4>1. Fresh(durable, j) /\ durable'[j].req \in Request
        BY <1>4, <2>2, <3>2
      <4>2. QED BY <1>3, <4>1 DEF Fresh, Exists
    <3>3. QED BY <3>1, <3>2
  <2>3. QED BY <2>1, <2>2 DEF Numbered, Exists
<1>9. MemoryIsJournal'
  BY <1>1, <1>2 DEF MemoryIsJournal
<1>10. ShownIsDurable'
  <2>1. ASSUME NEW j \in Job PROVE CanBecome(shown'[j], durable'[j].status)
    <3>1. CanBecome(shown[j], durable[j].status)
      BY DEF IInv, ShownIsDurable
    <3>2. CASE j = w
      <4>1. CanBecome(v.status, u.status)
        BY <1>1, ApplyAdvances
      <4>2. shown[j] \in Status /\ v.status \in Status /\ u.status \in Status
        BY <1>1 DEF IInv, TypeOK, View
      <4>3. QED BY <1>1, <3>1, <3>2, <4>1, <4>2, CanBecomeTransitive
    <3>3. CASE j # w
      BY <1>1, <3>1, <3>3
    <3>4. QED BY <3>2, <3>3
  <2>2. QED BY <2>1 DEF ShownIsDurable
<1>11. LineageIsSerial'
  <2>1. ASSUME NEW i \in Job, NEW j \in Job, i < j,
               durable'[i].status # "absent", durable'[j].status # "absent",
               durable'[i].req.client = durable'[j].req.client
        PROVE  durable'[i].req.gen < durable'[j].req.gen /\ durable'[i].status \in Terminal
    <3>1. durable[i].status # "absent"
      <4>1. CASE durable[j].status # "absent"
        BY <2>1, <4>1 DEF IInv, Numbered, Exists
      <4>2. CASE durable[j].status = "absent"
        BY <1>4, <2>1, <4>2 DEF Fresh, Exists
      <4>3. QED BY <4>1, <4>2
    <3>2. durable'[i].req = durable[i].req /\ durable[i].req \in Request
      BY <1>3, <3>1 DEF IInv, Numbered, Exists
    <3>3. CASE durable[j].status # "absent"
      <4>1. durable'[j].req = durable[j].req
        BY <1>3, <3>3
      <4>2. durable[i].req.gen < durable[j].req.gen /\ durable[i].status \in Terminal
        BY <2>1, <3>1, <3>2, <3>3, <4>1 DEF IInv, LineageIsSerial
      <4>3. QED BY <1>3, <3>1, <3>2, <4>1, <4>2
    <3>4. CASE durable[j].status = "absent"
      <4>1. /\ writing.kind = "accepted" /\ durable'[j].req = writing.req
            /\ writing.req \in Request
        BY <1>4, <2>1, <3>4
      <4>2. ~LineageBusy(durable, writing.req) /\ ~OutOfOrder(durable, writing.req)
        BY <1>1, <4>1 DEF IInv, Checked
      <4>3. SameClient(durable, i, writing.req)
        BY <2>1, <3>1, <3>2, <4>1 DEF SameClient, Exists
      <4>4. durable[i].status \in Terminal /\ ~(writing.req.gen <= durable[i].req.gen)
        BY <4>2, <4>3 DEF LineageBusy, OutOfOrder
      <4>5. durable[i].req.gen \in Nat /\ writing.req.gen \in Nat
        BY <3>2, <4>1, RequestAssumption
      <4>6. QED BY <1>3, <3>1, <3>2, <4>1, <4>4, <4>5
    <3>5. QED BY <3>3, <3>4
  <2>2. QED BY <2>1 DEF LineageIsSerial, Exists
<1>12. QED BY <1>5, <1>6, <1>7, <1>8, <1>9, <1>10, <1>11 DEF IInv

\* The append returns.
LEMMA WriteDoneIInv == IInv /\ WriteDone => IInv'
<1> SUFFICES ASSUME IInv, WriteDone PROVE IInv'
  OBVIOUS
<1> DEFINE w == writing.job
           u == Apply(memory[w], writing)
<1>1. /\ w \in Job /\ health = "ready"
      /\ memory \in [Job -> View] /\ durable \in [Job -> View] /\ shown \in [Job -> Status]
      /\ memory' = [memory EXCEPT ![w] = u] /\ durable = [memory EXCEPT ![w] = u]
      /\ shown' = [shown EXCEPT ![w] = u.status]
      /\ writing' = NoOp /\ ~flushed' /\ UNCHANGED <<durable, health, queue>>
  BY DEF WriteDone, IInv, TypeOK, Quiet, SoundWriting, MemoryIsJournal
<1>2. memory' = durable' /\ u = durable[w] /\ u \in View
  BY <1>1
<1>3. TypeOK'
  <2>1. shown' \in [Job -> Status] /\ memory' \in [Job -> View] /\ durable' \in [Job -> View]
    BY <1>1, <1>2 DEF View
  <2>2. owners' \subseteq Job /\ mine' \subseteq Job
    BY <1>1 DEF WriteDone, IInv, TypeOK
  <2>3. QED BY <1>1, <2>1, <2>2, NoOpType DEF WriteDone, IInv, TypeOK
<1>4. (Quiet /\ SoundQueue /\ SoundWriting /\ Checked)'
  BY <1>1, NoOpType DEF IInv, Quiet, SoundQueue, Sound, SoundWriting, Checked
<1>5. (Unborn /\ Numbered /\ MemoryIsJournal /\ LineageIsSerial)'
  BY <1>1, <1>2 DEF IInv, Unborn, Numbered, Exists, MemoryIsJournal, LineageIsSerial
<1>6. ShownIsDurable'
  BY <1>1, <1>2 DEF IInv, ShownIsDurable, CanBecome
<1>7. QED BY <1>3, <1>4, <1>5, <1>6 DEF IInv

\* It fails, or the process dies: what is on the disk stays.
LEMMA FailureIInv == IInv /\ (WriteFails \/ Crash) => IInv'
<1> SUFFICES ASSUME IInv, WriteFails \/ Crash PROVE IInv'
  OBVIOUS
<1>1. /\ queue' = <<>> /\ writing' = NoOp /\ flushed' = FALSE /\ health' # "ready"
      /\ health' \in {"down", "degraded"}
      /\ memory' = memory \/ memory' = [j \in Job |-> AbsentJob]
      /\ todo' \subseteq Job /\ mine' \subseteq Job /\ requeued' \subseteq Job
      /\ UNCHANGED <<durable, lapsed, boots, shown, owners>>
  BY DEF WriteFails, Crash, IInv, TypeOK
<1>2. AbsentJob \in View /\ AbsentJob.status = "absent"
  BY DEF AbsentJob, View, Status, Response, Cause
<1>3. TypeOK'
  <2>1. memory' \in [Job -> View]
    BY <1>1, <1>2 DEF IInv, TypeOK
  <2>2. queue' \in Seq(Op) /\ writing' \in Op
    BY <1>1, NoOpType
  <2>3. flushed' \in BOOLEAN /\ (flushed' => writing' # NoOp) /\ health' \in {"down", "ready", "degraded"}
    BY <1>1
  <2>4. todo' \subseteq Job /\ mine' \subseteq Job /\ requeued' \subseteq Job
    BY <1>1
  <2>5. /\ durable' \in [Job -> View] /\ shown' \in [Job -> Status] /\ owners' \subseteq Job
        /\ lapsed' \subseteq Job /\ boots' \in Nat
    BY <1>1 DEF IInv, TypeOK
  <2>6. QED BY <2>1, <2>2, <2>3, <2>4, <2>5 DEF TypeOK
<1>4. (Quiet /\ SoundQueue /\ SoundWriting /\ Checked /\ MemoryIsJournal)'
  BY <1>1, NoOpType DEF Quiet, SoundQueue, SoundWriting, Checked, MemoryIsJournal
<1>5. (Unborn /\ Numbered /\ ShownIsDurable /\ LineageIsSerial)'
  BY <1>1, <1>2 DEF IInv, Unborn, Numbered, Exists, ShownIsDurable, CanBecome, LineageIsSerial
<1>6. QED BY <1>3, <1>4, <1>5 DEF IInv

\* The boot reads back what is on the disk.
LEMMA BootIInv == IInv /\ Boot => IInv'
<1> SUFFICES ASSUME IInv, Boot PROVE IInv'
  OBVIOUS
<1>1. queue = <<>> /\ writing = NoOp /\ ~flushed
  BY DEF Boot, IInv, TypeOK, Quiet
<1>2. TypeOK'
  <2>1. shown' \in [Job -> Status]
    BY DEF Boot, IInv, TypeOK, View
  <2>2. QED BY <2>1 DEF Boot, IInv, TypeOK
<1>3. (Quiet /\ SoundQueue /\ SoundWriting /\ Checked)'
  BY <1>1, NoOpType DEF Boot, Quiet, SoundQueue, SoundWriting, Checked
<1>4. (Unborn /\ Numbered /\ MemoryIsJournal /\ ShownIsDurable /\ LineageIsSerial)'
  BY <1>1 DEF Boot, IInv, Unborn, Numbered, Exists, MemoryIsJournal, ShownIsDurable, CanBecome,
              LineageIsSerial
<1>5. QED BY <1>2, <1>3, <1>4 DEF IInv

\* A fence lapses: nothing else.
LEMMA FenceIInv == ASSUME NEW k \in Job PROVE IInv /\ FenceLapses(k) => IInv'
<1> SUFFICES ASSUME IInv, FenceLapses(k) PROVE IInv'
  OBVIOUS
<1> USE DEF FenceLapses
<1>1. (TypeOK /\ Quiet /\ SoundQueue /\ SoundWriting /\ Checked)'
  BY DEF IInv, TypeOK, Quiet, SoundQueue, Sound, SoundWriting, Checked, Fresh, LineageBusy,
         OutOfOrder, SameClient, Exists
<1>2. (Unborn /\ Numbered /\ MemoryIsJournal /\ ShownIsDurable /\ LineageIsSerial)'
  BY DEF IInv, Unborn, Numbered, Exists, MemoryIsJournal, ShownIsDurable, CanBecome, LineageIsSerial
<1>3. QED BY <1>1, <1>2 DEF IInv

\* Every state the store reaches, whatever callers, appends and crashes do,
\* satisfies the inductive invariant.
THEOREM Invariance == StoreSpec => []IInv
<1>1. StoreInit => IInv
  BY InitIInv
<1>2. IInv /\ [StoreNext]_storeVars => IInv'
  <2> SUFFICES ASSUME IInv, [StoreNext]_storeVars PROVE IInv'
    OBVIOUS
  <2>1. CASE Calls
    BY <2>1, CallsIInv
  <2>2. CASE Refuse \/ StartWrite
    BY <2>2, NextWriteIInv
  <2>3. CASE Flush
    BY <2>3, FlushIInv
  <2>4. CASE WriteDone
    BY <2>4, WriteDoneIInv
  <2>5. CASE WriteFails \/ Crash
    BY <2>5, FailureIInv
  <2>6. CASE Boot
    BY <2>6, BootIInv
  <2>7. CASE Classify
    BY <2>7, ClassifyIInv
  <2>8. CASE \E j \in Job : FenceLapses(j)
    BY <2>8, FenceIInv
  <2>9. CASE UNCHANGED storeVars
    BY <2>9 DEF storeVars, IInv, TypeOK, Quiet, SoundQueue, Sound, SoundWriting, Checked, Fresh,
                LineageBusy, OutOfOrder, SameClient, Exists, Unborn, Numbered, MemoryIsJournal,
                ShownIsDurable, CanBecome, LineageIsSerial
  <2>10. QED BY <2>1, <2>2, <2>3, <2>4, <2>5, <2>6, <2>7, <2>8, <2>9 DEF StoreNext, Writer
<1>3. QED BY <1>1, <1>2, PTL DEF StoreSpec

-----------------------------------------------------------------------------
(***************************************************************************)
(* What follows from it.                                                   *)
(***************************************************************************)

\* Every variable has its type, and a row is on its way to the disk only while
\* it is being written.
THEOREM Typing == StoreSpec => []TypeOK
  BY Invariance, PTL DEF IInv

\* A writable store's memory is its journal, but for the one row whose append has
\* not returned, however appends fail and the process dies.
THEOREM MemoryFollowsJournal == StoreSpec => []MemoryIsJournal
  BY Invariance, PTL DEF IInv

\* No reader is shown a status the journal does not hold or has not passed.
THEOREM NothingShownTooSoon == StoreSpec => []ShownIsDurable
  BY Invariance, PTL DEF IInv

\* Two generations of one client job never run at once, nor out of order.
THEOREM OneGenerationAtATime == StoreSpec => []LineageIsSerial
  BY Invariance, PTL DEF IInv

\* The steps that change what is on the disk, what readers and callers were told,
\* and the memory of a process.
LEMMA WhoChanges ==
  ASSUME [StoreNext]_storeVars
  PROVE  /\ durable' # durable => Flush
         /\ shown' # shown => WriteDone \/ Boot
         /\ owners' # owners => WriteDone
         /\ health' = "ready" => WriteDone \/ Boot \/ UNCHANGED <<health, memory>>
<1> USE DEF storeVars
<1>1. CASE Calls
  BY <1>1 DEF Calls, Call, CallAdmit, CallMarkStarting, CallMarkRunning, CallUpdateLinkage,
              CallCheckpoint, CallMarkAnswerReady, CallComplete, CallFail, CallCancel,
              CallInterrupt, CallInterruptParked, CallAcknowledge
<1>2. CASE Writer
  BY <1>2 DEF Writer, Refuse, StartWrite, Flush, WriteDone, WriteFails
<1>3. CASE Classify
  BY <1>3 DEF Classify, BootRequeue, BootComplete, BootInterrupt
<1>4. CASE Boot \/ Crash \/ \E j \in Job : FenceLapses(j)
  BY <1>4 DEF Boot, Crash, FenceLapses
<1>5. QED BY <1>1, <1>2, <1>3, <1>4 DEF StoreNext

\* A reader is shown the same or a later status.
LEMMA ShownAdvances ==
  ASSUME IInv, [StoreNext]_storeVars, NEW j \in Job
  PROVE  CanBecome(shown[j], shown'[j])
<1>1. CanBecome(shown[j], durable[j].status)
  BY DEF IInv, ShownIsDurable
<1>2. CASE WriteDone
  <2>1. /\ writing.job \in Job
        /\ durable = [memory EXCEPT ![writing.job] = Apply(memory[writing.job], writing)]
        /\ shown' = [shown EXCEPT ![writing.job] = Apply(memory[writing.job], writing).status]
    BY <1>2 DEF WriteDone, IInv, TypeOK, Quiet, SoundWriting, MemoryIsJournal
  <2>2. shown'[j] = shown[j] \/ shown'[j] = durable[j].status
    BY <2>1 DEF IInv, TypeOK
  <2>3. QED BY <1>1, <2>2 DEF CanBecome
<1>3. CASE Boot
  BY <1>1, <1>3 DEF Boot
<1>4. CASE shown' = shown
  BY <1>4 DEF CanBecome
<1>5. QED BY <1>2, <1>3, <1>4, WhoChanges

\* What readers are shown of a job moves forward only: a row that fails to reach
\* the disk was never shown, and one that did comes back at the next boot.
THEOREM SeenMovesForward == StoreSpec => SeenNeverGoesBack
<1>1. IInv /\ [StoreNext]_storeVars => [\A j \in Job : CanBecome(shown[j], shown'[j])]_storeVars
  BY ShownAdvances
<1>2. QED BY <1>1, Invariance, PTL DEF StoreSpec, SeenNeverGoesBack

\* Once the journal holds the answer the job can only be completed, and with that
\* answer unless a steer had left a checkpoint.
THEOREM AnswerStays == StoreSpec => AnswerIsKept
<1> DEFINE Kept(j) ==
      durable[j].status = "answer_ready" =>
        \/ durable'[j].status = "answer_ready"
        \/ /\ durable'[j].status = "completed"
           /\ ~durable[j].checkpoint => durable'[j].response = "whole"
<1>1. ASSUME IInv, [StoreNext]_storeVars, NEW j \in Job PROVE Kept(j)
  <2>1. CASE Flush /\ j = writing.job /\ durable[j].status = "answer_ready"
    <3>1. /\ durable[j] \in View /\ writing \in Op /\ Sound(writing)
          /\ durable'[j] = Apply(durable[j], writing)
      BY <1>1, <2>1 DEF Flush, IInv, TypeOK, SoundWriting
    <3>2. CASE writing.kind = "completed"
      <4>1. Apply(durable[j], writing) =
              [durable[j] EXCEPT !.status = writing.kind, !.response = writing.response,
                                 !.fence = writing.fence, !.cause = writing.cause]
        <5>1. writing.kind \in Moves /\ writing.kind \in Allowed[durable[j].status]
          BY <2>1, <3>2 DEF Moves, Terminal, Allowed
        <5>2. QED BY <3>2, <5>1 DEF Apply
      <4>2. /\ durable'[j].status = "completed"
            /\ durable'[j].response = writing.response
        BY <3>1, <3>2, <4>1 DEF View
      <4>3. ~durable[j].checkpoint => writing.response = "whole"
        BY <2>1, <3>1, <3>2 DEF Sound
      <4>4. QED BY <4>2, <4>3
    <3>3. CASE writing.kind # "completed"
      BY <2>1, <3>1, <3>3 DEF Apply, Allowed, Moves, Terminal, View
    <3>4. QED BY <3>2, <3>3
  <2>2. CASE Flush /\ j # writing.job
    BY <1>1, <2>2 DEF Flush, IInv, TypeOK
  <2>3. CASE durable' = durable
    BY <2>3
  <2>4. QED BY <1>1, <2>1, <2>2, <2>3, WhoChanges
<1>2. IInv /\ [StoreNext]_storeVars => [\A j \in Job : Kept(j)]_storeVars
  BY <1>1
<1>3. QED BY <1>2, Invariance, PTL DEF StoreSpec, AnswerIsKept

\* A live process shows what its memory holds, and a job whose run was told to
\* send the prompt has been shown running.
ShownFollows ==
  /\ health = "ready" => \A j \in Job : shown[j] = memory[j].status
  /\ \A j \in owners : CanBecome("running", shown[j])

\* Every reachable state keeps it.
LEMMA ShownFollowsInvariant == StoreSpec => []ShownFollows
<1>1. StoreInit => ShownFollows
  BY DEF StoreInit, ShownFollows
<1>2. ASSUME IInv, ShownFollows, [StoreNext]_storeVars PROVE ShownFollows'
  <2>1. CASE WriteDone
    <3> DEFINE w == writing.job
               u == Apply(memory[w], writing)
    <3>1. /\ w \in Job /\ memory \in [Job -> View] /\ shown \in [Job -> Status]
          /\ memory' = [memory EXCEPT ![w] = u] /\ shown' = [shown EXCEPT ![w] = u.status]
          /\ owners \subseteq Job
          /\ owners' = owners \/ (owners' = owners \cup {w} /\ u.status = "running")
          /\ health = "ready" /\ health' = health
      BY <1>2, <2>1 DEF WriteDone, IInv, TypeOK, Quiet, SoundWriting
    <3>2. \A j \in Job : shown'[j] = memory'[j].status
      BY <1>2, <3>1 DEF ShownFollows
    <3>3. ASSUME NEW j \in owners' PROVE CanBecome("running", shown'[j])
      <4>1. CASE j \in owners
        <5>1. CanBecome("running", shown[j]) /\ CanBecome(shown[j], shown'[j]) /\ j \in Job
          BY <1>2, <3>1, <4>1, ShownAdvances DEF ShownFollows
        <5>2. shown[j] \in Status /\ shown'[j] \in Status /\ "running" \in Status
          <6>1. shown' \in [Job -> Status]
            BY <1>2, <2>1, WriteDoneIInv DEF IInv, TypeOK
          <6>2. QED BY <3>1, <5>1, <6>1 DEF Status, Live
        <5>3. QED BY <5>1, <5>2, CanBecomeTransitive
      <4>2. CASE j \notin owners
        BY <3>1, <3>3, <4>2 DEF CanBecome
      <4>3. QED BY <4>1, <4>2
    <3>4. QED BY <3>2, <3>3 DEF ShownFollows
  <2>2. CASE Boot
    <3>1. \A j \in Job : shown'[j] = memory'[j].status
      BY <2>2 DEF Boot
    <3>2. ASSUME NEW j \in owners' PROVE CanBecome("running", shown'[j])
      <4>1. j \in Job /\ CanBecome("running", shown[j]) /\ CanBecome(shown[j], shown'[j])
        BY <1>2, <2>2, <3>2, ShownAdvances DEF Boot, IInv, TypeOK, ShownFollows
      <4>2. shown[j] \in Status /\ shown'[j] \in Status /\ "running" \in Status
        <5>1. shown' \in [Job -> Status] /\ shown \in [Job -> Status]
          BY <1>2, <2>2, BootIInv DEF IInv, TypeOK
        <5>2. QED BY <4>1, <5>1 DEF Status, Live
      <4>3. QED BY <4>1, <4>2, CanBecomeTransitive
    <3>3. QED BY <3>1, <3>2 DEF ShownFollows
  <2>3. CASE ~WriteDone /\ ~Boot
    <3>1. /\ shown' = shown /\ owners' = owners
          /\ health' = "ready" => health = "ready" /\ memory' = memory
      BY <1>2, <2>3, WhoChanges
    <3>2. QED BY <1>2, <3>1 DEF ShownFollows, CanBecome
  <2>4. QED BY <2>1, <2>2, <2>3
<1>3. QED BY <1>1, <1>2, Invariance, PTL DEF StoreSpec

\* A boot hands back only jobs nobody was shown started and whose run was never
\* told to send the prompt: starting them repeats nothing.
THEOREM RequeueRepeatsNothing == StoreSpec => RequeuedNeverStarted
<1> DEFINE Fine(j) == j \notin owners /\ shown[j] \in {"absent", "accepted"}
<1>1. ASSUME IInv, ShownFollows, [StoreNext]_storeVars, NEW j \in requeued' \ requeued
      PROVE  Fine(j)
  <2>1. \E i \in Job : BootRequeue(i)
    <3> USE <1>1 DEF storeVars
    <3>1. CASE Calls
      BY <3>1 DEF Calls, Call, CallAdmit, CallMarkStarting, CallMarkRunning, CallUpdateLinkage,
                  CallCheckpoint, CallMarkAnswerReady, CallComplete, CallFail, CallCancel,
                  CallInterrupt, CallInterruptParked, CallAcknowledge
    <3>2. CASE Writer
      BY <3>2 DEF Writer, Refuse, StartWrite, Flush, WriteDone, WriteFails
    <3>3. CASE Classify
      BY <3>3 DEF Classify, BootComplete, BootInterrupt
    <3>4. CASE Boot \/ Crash \/ \E i \in Job : FenceLapses(i)
      BY <3>4 DEF Boot, Crash, FenceLapses
    <3>5. QED BY <3>1, <3>2, <3>3, <3>4 DEF StoreNext
  <2>2. j \in Job /\ memory[j].status = "accepted" /\ health = "ready"
    BY <1>1, <2>1 DEF BootRequeue, NextPrior
  <2>3. shown[j] = "accepted"
    BY <1>1, <2>2 DEF ShownFollows
  <2>4. QED BY <1>1, <2>3 DEF ShownFollows, CanBecome, Terminal
<1>2. IInv /\ ShownFollows /\ [StoreNext]_storeVars =>
        [\A j \in requeued' \ requeued : Fine(j)]_storeVars
  BY <1>1
<1>3. QED BY <1>2, Invariance, ShownFollowsInvariant, PTL DEF StoreSpec, RequeuedNeverStarted

-----------------------------------------------------------------------------
(***************************************************************************)
(* The store implements its promise.                                       *)
(***************************************************************************)

\* The promise speaks of the same jobs, prompts and statuses.
LEMMA SameWords ==
  /\ Promise!Job = Job /\ Promise!Terminal = Terminal /\ Promise!Live = Live
  /\ Promise!Allowed = Allowed /\ Promise!Cause = Cause /\ Promise!Response = Response
  /\ Promise!AbsentJob = AbsentJob
  /\ \A r \in Request : Promise!NewJob(r) = NewJob(r)
  BY DEF Job, Promise!Job, Terminal, Promise!Terminal, Live, Promise!Live, Allowed, Promise!Allowed,
         Cause, Promise!Cause, Response, Promise!Response, AbsentJob, Promise!AbsentJob, NewJob, Promise!NewJob

\* An empty journal promises nothing yet.
LEMMA PromiseInitially == StoreInit => Promise!PromiseInit
  BY SameWords DEF StoreInit, Promise!PromiseInit

\* A transition of one job is a move of the promise.
LEMMA OneMove ==
  ASSUME NEW j \in Job, NEW t \in Allowed[durable[j].status], NEW text \in Response,
         NEW fenced \in BOOLEAN, NEW why \in Cause,
         Promise!Says(durable[j], t, text, fenced, why),
         durable' = [durable EXCEPT ![j] = [durable[j] EXCEPT !.status = t, !.response = text,
                                                          !.fence = fenced, !.cause = why]],
         UNCHANGED shown
  PROVE  Promise!Move(j)
<1>1. /\ t \in Promise!Allowed[durable[j].status] /\ text \in Promise!Response
      /\ why \in Promise!Cause
  BY SameWords
<1>2. \E t1 \in Promise!Allowed[durable[j].status], text1 \in Promise!Response,
          fenced1 \in BOOLEAN, why1 \in Promise!Cause :
        /\ Promise!Says(durable[j], t1, text1, fenced1, why1)
        /\ durable' = [durable EXCEPT ![j] = [durable[j] EXCEPT !.status = t1, !.response = text1,
                                                         !.fence = fenced1, !.cause = why1]]
  <2> USE <1>1
  <2> WITNESS t \in Promise!Allowed[durable[j].status], text \in Promise!Response,
              fenced \in BOOLEAN, why \in Promise!Cause
  <2> QED OBVIOUS
<1>3. QED BY <1>2, Zenon DEF Promise!Move

\* A row that reaches the disk is one step of its job, or changes nothing.
LEMMA FlushKeepsPromise ==
  ASSUME IInv, Flush
  PROVE  Promise!PromiseNext \/ UNCHANGED <<durable, shown>>
<1> DEFINE w == writing.job
           v == durable[w]
           u == Apply(v, writing)
<1>1. /\ w \in Job /\ writing \in Op /\ Sound(writing) /\ v \in View
      /\ durable \in [Job -> View] /\ durable' = [durable EXCEPT ![w] = u] /\ UNCHANGED shown
      /\ ~flushed
  BY DEF Flush, IInv, TypeOK, SoundWriting
<1>2. CASE u = v
  BY <1>1, <1>2
<1>3. CASE v.status = "absent" /\ u # v
  <2>1. /\ writing.kind = "accepted" /\ u = NewJob(writing.req) /\ writing.req \in Request
    BY <1>1, <1>3, ApplyKeeps DEF Sound
  <2>2. Promise!Fresh(durable, w)
    BY <1>1, <2>1, SameWords DEF IInv, Checked, Fresh, Exists, Promise!Fresh, Promise!Exists
  <2>3. ASSUME NEW i \in Job, Promise!SameClient(durable, i, writing.req)
        PROVE  durable[i].status \in Terminal /\ durable[i].req.gen < writing.req.gen
    <3>1. SameClient(durable, i, writing.req) /\ durable[i].status # "absent"
      BY <2>3 DEF SameClient, Exists, Promise!SameClient, Promise!Exists
    <3>2. durable[i].status \in Terminal /\ ~(writing.req.gen <= durable[i].req.gen)
      BY <1>1, <2>1, <3>1 DEF IInv, Checked, LineageBusy, OutOfOrder
    <3>3. durable[i].req.gen \in Nat /\ writing.req.gen \in Nat
      BY <2>1, <3>1, RequestAssumption DEF IInv, Numbered, Exists
    <3>4. QED BY <3>2, <3>3
  <2>4. Promise!Accept(w, writing.req)
    BY <1>1, <2>1, <2>2, <2>3, SameWords DEF Promise!Accept
  <2>5. QED BY <1>1, <2>1, <2>4, SameWords DEF Promise!PromiseNext
<1>4. CASE v.status # "absent" /\ u # v
  <2>1. CASE writing.kind \in {"linkage", "checkpoint", "acknowledged"}
    <3>1. Promise!Note(w)
      <4>1. CASE writing.kind = "linkage"
        <5>1. v.status \in Live /\ u = [v EXCEPT !.owned = TRUE]
          BY <1>4, <4>1 DEF Apply, Moves, Terminal
        <5>2. QED BY <1>1, <5>1, SameWords DEF Promise!Note
      <4>2. CASE writing.kind = "checkpoint"
        <5>1. v.status = "running" /\ u = [v EXCEPT !.checkpoint = TRUE]
          BY <1>1, <1>4, <4>2 DEF Apply, Moves, Terminal, IInv, Checked
        <5>2. QED BY <1>1, <5>1, SameWords DEF Promise!Note
      <4>3. CASE writing.kind = "acknowledged"
        <5>1. v.status \in Terminal /\ u = [v EXCEPT !.acked = TRUE]
          BY <1>1, <1>4, <4>3 DEF Apply, Moves, Terminal, IInv, Checked
        <5>2. QED BY <1>1, <5>1, SameWords DEF Promise!Note
      <4>4. QED BY <2>1, <4>1, <4>2, <4>3
    <3>2. QED BY <1>1, <3>1, SameWords DEF Promise!PromiseNext
  <2>2. CASE writing.kind \notin {"linkage", "checkpoint", "acknowledged"}
    <3>1. /\ writing.kind \in Allowed[v.status]
          /\ u = [v EXCEPT !.status = writing.kind, !.response = writing.response,
                           !.fence = writing.fence, !.cause = writing.cause]
      BY <1>4, <2>2 DEF Apply
    <3>2. writing.response \in Response /\ writing.fence \in BOOLEAN /\ writing.cause \in Cause
      BY <1>1 DEF Op
    <3>3. Promise!Says(v, writing.kind, writing.response, writing.fence, writing.cause)
      BY <1>1 DEF Sound, Promise!Says
    <3>4. Promise!Move(w)
      <4>1. /\ Promise!Says(durable[w], writing.kind, writing.response, writing.fence, writing.cause)
            /\ durable' = [durable EXCEPT ![w] = [durable[w] EXCEPT !.status = writing.kind,
                 !.response = writing.response, !.fence = writing.fence, !.cause = writing.cause]]
            /\ w \in Job /\ writing.kind \in Allowed[durable[w].status] /\ UNCHANGED shown
        BY <1>1, <3>1, <3>3
      <4>2. QED
        <5> HIDE DEF w, v, u
        <5> QED BY <3>2, <4>1, OneMove
    <3>5. QED BY <1>1, <3>4, SameWords DEF Promise!PromiseNext
  <2>3. QED BY <2>1, <2>2
<1>5. QED BY <1>2, <1>3, <1>4

\* What a write or a boot shows is what the journal holds.
LEMMA ShowKeepsPromise ==
  ASSUME IInv, WriteDone \/ Boot
  PROVE  Promise!PromiseNext
<1>1. CASE WriteDone
  <2>1. /\ writing.job \in Job /\ durable' = durable
        /\ shown' = [shown EXCEPT ![writing.job] = durable[writing.job].status]
    <3>1. /\ writing.job \in Job /\ memory \in [Job -> View]
          /\ durable = [memory EXCEPT ![writing.job] = Apply(memory[writing.job], writing)]
      BY <1>1 DEF WriteDone, IInv, TypeOK, Quiet, SoundWriting, MemoryIsJournal
    <3>2. QED BY <1>1, <3>1 DEF WriteDone
  <2>2. shown \in [Job -> Status]
    BY DEF IInv, TypeOK
  <2>3. Promise!See({writing.job})
    BY <2>1, <2>2, SameWords DEF Promise!See
  <2>4. QED BY <2>1, <2>3, SameWords DEF Promise!PromiseNext
<1>2. CASE Boot
  <2>1. Promise!See(Job)
    BY <1>2, SameWords DEF Boot, Promise!See
  <2>2. QED BY <2>1, SameWords DEF Promise!PromiseNext
<1>3. QED BY <1>1, <1>2

\* Whatever fails, the store keeps the promise of QueryJobPromise: every step of it
\* is a step the promise allows of the journal's jobs and of what readers saw.
THEOREM PromiseKept == StoreSpec => ImplementsPromise
<1>1. StoreInit => Promise!PromiseInit
  BY PromiseInitially
<1>2. IInv /\ [StoreNext]_storeVars => [Promise!PromiseNext]_(Promise!promiseVars)
  <2> SUFFICES ASSUME IInv, [StoreNext]_storeVars
               PROVE  Promise!PromiseNext \/ UNCHANGED <<durable, shown>>
    BY DEF Promise!promiseVars
  <2>1. CASE Flush
    BY <2>1, FlushKeepsPromise
  <2>2. CASE WriteDone \/ Boot
    BY <2>2, ShowKeepsPromise
  <2>3. CASE durable' = durable /\ shown' = shown
    BY <2>3
  <2>4. QED BY <2>1, <2>2, <2>3, WhoChanges
<1>3. QED BY <1>1, <1>2, Invariance, PTL DEF StoreSpec, ImplementsPromise, Promise!PromiseSpec

-----------------------------------------------------------------------------
(***************************************************************************)
(* An owner that a crash ended keeps its session.                          *)
(***************************************************************************)

\* The operations not answered yet.
InFlight == {queue[i] : i \in 1 .. Len(queue)} \cup {writing}

Booting == todo # {} \/ BootPending

\* A process has no run of its own before its boot is over, so nothing that makes
\* a job an owner passes the boot's rows.
BootFirst ==
  /\ health = "down" => mine = {}
  /\ health = "ready" /\ Booting =>
       mine = {} /\ \A op \in InFlight : op.kind \notin {"starting", "linkage"}

\* An interrupt for a restart is the boot's, and fences an owner.
RestartFences(op) ==
  op.cause = "server_restarted" => op.by = "boot" /\ (op.job \in owners => op.fence)

\* What the journal and memory say of an owner.
OwnersOwned == \A k \in owners : durable[k].owned /\ (health = "ready" => memory[k].owned)

\* A job that a restart interrupted stays so, fenced if it was an owner.
RestartFenced ==
  \A k \in Job : durable[k].cause = "server_restarted" =>
    durable[k].status = "interrupted" /\ (k \in owners => durable[k].fence)

\* The start being written saw no fence.
StartChecked ==
  ~flushed /\ writing.kind = "starting" =>
    ~Fenced(memory, lapsed, memory[writing.job].req.session)

FInv ==
  /\ BootFirst /\ OwnersOwned /\ RestartFenced /\ StartChecked
  /\ \A op \in InFlight : RestartFences(op)

\* A row leaves the ownership of a job and, once it is finished, how it ended; it
\* gives a cause only to a job it interrupts.
LEMMA ApplyKeepsEnd ==
  ASSUME NEW v \in View, NEW op \in Op, op.kind # "interrupted" => op.cause = "none"
  PROVE  /\ v.status # "absent" /\ v.owned => Apply(v, op).owned
         /\ v.status \in Terminal => /\ Apply(v, op).status = v.status
                                     /\ Apply(v, op).fence = v.fence
                                     /\ Apply(v, op).cause = v.cause
         /\ \/ Apply(v, op).cause = v.cause /\ Apply(v, op).fence = v.fence
                 /\ Apply(v, op).status = v.status
            \/ Apply(v, op).cause = "none"
            \/ /\ Apply(v, op).status = "interrupted"
               /\ Apply(v, op).cause = op.cause /\ Apply(v, op).fence = op.fence
         /\ op.kind = "linkage" /\ Apply(v, op).status = "running" => Apply(v, op).owned
<1>1. CASE op.kind = "accepted"
  <2>1. Apply(v, op) = IF v.status = "absent" THEN NewJob(op.req) ELSE v
    BY <1>1 DEF Apply, Moves, Terminal
  <2>2. CASE v.status = "absent"
    BY <1>1, <2>1, <2>2 DEF NewJob, AbsentJob, Terminal
  <2>3. CASE v.status # "absent"
    BY <1>1, <2>1, <2>3
  <2>4. QED BY <2>2, <2>3
<1>2. CASE op.kind \in {"checkpoint", "acknowledged"}
  <2>1. \/ Apply(v, op) = v \/ Apply(v, op) = [v EXCEPT !.checkpoint = TRUE]
        \/ Apply(v, op) = [v EXCEPT !.acked = TRUE]
    BY <1>2 DEF Apply, Moves, Terminal
  <2>2. QED BY <1>2, <2>1 DEF View
<1>3. CASE op.kind = "linkage"
  <2>1. Apply(v, op) = IF v.status \in Live THEN [v EXCEPT !.owned = TRUE] ELSE v
    BY <1>3 DEF Apply, Moves, Terminal
  <2>2. QED BY <1>3, <2>1 DEF View, Live
<1>4. CASE op.kind \in Moves /\ op.kind \in Allowed[v.status]
  <2>1. Apply(v, op) = [v EXCEPT !.status = op.kind, !.response = op.response,
                                 !.fence = op.fence, !.cause = op.cause]
    BY <1>4 DEF Apply, Moves, Terminal
  <2>2. v.status \notin Terminal
    BY <1>4 DEF Allowed, Terminal, View, Status, Live
  <2>3. QED BY <1>4, <2>1, <2>2 DEF View, Moves, Terminal
<1>5. CASE /\ op.kind \notin {"accepted", "checkpoint", "acknowledged", "linkage"}
           /\ ~(op.kind \in Moves /\ op.kind \in Allowed[v.status])
  BY <1>5 DEF Apply
<1>6. QED BY <1>1, <1>2, <1>3, <1>4, <1>5

\* An operation that may join the queue.
Joins(op) ==
  /\ op.by = "boot" => todo # {}
  /\ Booting => op.kind \notin {"starting", "linkage"}
  /\ RestartFences(op)

\* A step that only queues such an operation, and may strike jobs off the boot's
\* list, keeps the invariant.
LEMMA EnqueueFInv ==
  ASSUME IInv, FInv, health = "ready", todo' \subseteq todo,
         UNCHANGED <<durable, memory, health, writing, flushed, lapsed, owners, mine>>,
         UNCHANGED queue \/ \E op \in Op : Joins(op) /\ Enqueue(op)
  PROVE  FInv'
<1>1. PICK op : /\ InFlight' \subseteq InFlight \cup {op}
                /\ UNCHANGED queue \/ (op \in Op /\ Joins(op) /\ queue' = Append(queue, op))
                /\ op = writing \/ Joins(op)
  <2>1. CASE UNCHANGED queue
    BY <2>1 DEF InFlight
  <2>2. ASSUME NEW op \in Op, Joins(op), Enqueue(op)
        PROVE  InFlight' \subseteq InFlight \cup {op}
    <3>1. queue \in Seq(Op) /\ queue' = Append(queue, op)
      BY <2>2 DEF Enqueue, IInv, TypeOK
    <3>2. \A i \in 1 .. Len(queue') : queue'[i] = op \/ (i \in 1 .. Len(queue) /\ queue'[i] = queue[i])
      BY <3>1
    <3>3. QED BY <3>2 DEF InFlight
  <2>3. QED BY <2>1, <2>2 DEF Enqueue
<1>2. Booting' => Booting
  <2>1. CASE UNCHANGED queue
    BY <2>1 DEF Booting, BootPending
  <2>2. CASE Joins(op) /\ op \in Op /\ queue' = Append(queue, op)
    <3>1. \A i \in 1 .. Len(queue') : queue'[i] = op \/ (i \in 1 .. Len(queue) /\ queue'[i] = queue[i])
      BY <2>2 DEF IInv, TypeOK
    <3>2. BootPending' => BootPending \/ op.by = "boot"
      BY <3>1 DEF BootPending
    <3>3. QED BY <2>2, <3>2 DEF Booting, Joins
  <2>3. QED BY <1>1, <2>1, <2>2
<1>3. writing \in InFlight
  BY DEF InFlight
<1>4. BootFirst'
  BY <1>1, <1>2, <1>3 DEF FInv, BootFirst, Joins
<1>5. \A o \in InFlight' : RestartFences(o)'
  BY <1>1, <1>3 DEF FInv, RestartFences, Joins
<1>6. (OwnersOwned /\ RestartFenced /\ StartChecked)'
  BY DEF FInv, OwnersOwned, RestartFenced, StartChecked, Fenced
<1>7. QED BY <1>4, <1>5, <1>6 DEF FInv

\* The operations that end job j neither start it nor make it an owner; they carry
\* the cause they are given, and the fence of the job they were decided on.
Ends(op, j, why) ==
  /\ op.by = "caller" /\ op.kind \in {"completed", "failed", "interrupted"} /\ op.job = j
  /\ op.cause \in {"none", why}

LEMMA EndingOps ==
  ASSUME NEW j \in Job, NEW v, NEW why \in Cause
  PROVE  /\ Ends(Complete(j, "whole"), j, why) /\ Ends(Interrupt(j, FALSE, why), j, why)
         /\ Ends(FailOp(v, j), j, why) /\ Ends(InterruptOp(v, j, why), j, why)
         /\ InterruptOp(v, j, why).cause # "none" => InterruptOp(v, j, why).fence = v.owned
<1>1. ASSUME NEW text
      PROVE  Ends(Complete(j, text), j, why) /\ Complete(j, text).cause = "none"
  BY DEF Complete, Do, Ends
<1>2. Ends(Do("failed", j), j, why)
  BY DEF Do, Ends
<1>3. ASSUME NEW f
      PROVE  Ends(Interrupt(j, f, why), j, why) /\ Interrupt(j, f, why).fence = f
  BY DEF Interrupt, Do, Ends
<1>4. Ends(FailOp(v, j), j, why)
  BY <1>1, <1>2 DEF FailOp
<1>5. /\ Ends(InterruptOp(v, j, why), j, why)
      /\ InterruptOp(v, j, why).cause # "none" => InterruptOp(v, j, why).fence = v.owned
  BY <1>1, <1>3 DEF InterruptOp
<1>6. QED BY <1>1, <1>3, <1>4, <1>5

\* The calls and the boot's classification queue such operations.
LEMMA QueueingFInv ==
  ASSUME IInv, FInv, Calls \/ Classify
  PROVE  FInv'
<1>1. ASSUME NEW op \in Op, Callable, Call(op), op.by = "caller", op.cause # "server_restarted",
             op.kind \in {"starting", "linkage"} => ~Booting
      PROVE  FInv'
  BY <1>1, EnqueueFInv DEF Callable, Call, Joins, RestartFences
<1>2. ASSUME NEW r \in Request, CallAdmit(r) PROVE FInv'
  <2>1. Admit(r) \in Op
    BY AdmitSound
  <2>2. /\ Admit(r).by = "caller" /\ Admit(r).cause = "none" /\ Admit(r).kind = "accepted"
    BY DEF Admit, Do
  <2>3. QED BY <1>1, <1>2, <2>1, <2>2 DEF CallAdmit
<1>3. ASSUME NEW j \in Job, NEW kind \in {"starting", "running", "linkage", "checkpoint",
                                         "answer_ready", "canceled", "acknowledged"},
             Callable, Call(Do(kind, j)), kind \in {"starting", "linkage"} => ~Booting
      PROVE  FInv'
  <2>1. Do(kind, j) \in Op
    <3>1. kind \in OpKind \ {"none", "accepted", "completed"}
      BY DEF OpKind, Moves, Terminal
    <3>2. QED BY <3>1, DoSound
  <2>2. Do(kind, j).by = "caller" /\ Do(kind, j).cause = "none" /\ Do(kind, j).kind = kind
    BY DEF Do
  <2>3. QED BY <1>1, <1>3, <2>1, <2>2
<1>4. ASSUME NEW j \in Job, CallMarkStarting(j) \/ CallUpdateLinkage(j) PROVE FInv'
  <2>1. ~Booting
    BY <1>4 DEF CallMarkStarting, CallUpdateLinkage, Callable, Booted, Booting, FInv, BootFirst
  <2>2. QED BY <1>3, <1>4, <2>1 DEF CallMarkStarting, CallUpdateLinkage
<1>5. ASSUME NEW j \in Job,
             \/ CallMarkRunning(j) \/ CallCheckpoint(j) \/ CallMarkAnswerReady(j)
             \/ CallCancel(j) \/ CallAcknowledge(j)
      PROVE  FInv'
  BY <1>3, <1>5 DEF CallMarkRunning, CallCheckpoint, CallMarkAnswerReady, CallCancel,
                    CallAcknowledge
<1>6. ASSUME NEW j \in Job, NEW why \in Cause \ {"server_restarted"},
             NEW op \in {Complete(j, "whole"), FailOp(memory[j], j), InterruptOp(memory[j], j, why),
                         Interrupt(j, FALSE, why)},
             Callable, Call(op)
      PROVE  FInv'
  <2>1. op \in Op
    <3>1. memory[j] \in View /\ (memory[j].checkpoint => durable[j].checkpoint)
      BY <1>6, SnapshotIsSound DEF Callable
    <3>2. Complete(j, "whole") \in Op /\ Interrupt(j, FALSE, why) \in Op
      BY CompleteSound, InterruptSound
    <3>3. QED BY <3>1, <3>2, SnapshotOps
  <2>2. /\ op.by = "caller" /\ op.cause # "server_restarted"
        /\ op.kind \notin {"starting", "linkage"}
    <3>1. Ends(op, j, why)
      BY EndingOps, Zenon
    <3>2. QED BY <1>6, <3>1 DEF Ends
  <2>3. QED BY <1>1, <1>6, <2>1, <2>2
<1>7. ASSUME NEW j \in Job,
             CallComplete(j) \/ CallFail(j) \/ CallInterrupt(j) \/ CallInterruptParked(j)
      PROVE  FInv'
  <2>1. {"server_shutdown", "crash_loop_parked"} \subseteq Cause \ {"server_restarted"}
    BY DEF Cause
  <2>2. CASE CallComplete(j) \/ CallFail(j)
    BY <1>6, <2>1, <2>2 DEF CallComplete, CallFail
  <2>3. CASE CallInterrupt(j)
    BY <1>6, <2>1, <2>3 DEF CallInterrupt
  <2>4. CASE CallInterruptParked(j)
    BY <1>6, <2>1, <2>4 DEF CallInterruptParked
  <2>5. QED BY <1>7, <2>2, <2>3, <2>4
<1>8. CASE Calls
  BY <1>2, <1>4, <1>5, <1>7, <1>8 DEF Calls
<1>9. ASSUME NEW j \in Job, BootRequeue(j) \/ BootComplete(j) \/ BootInterrupt(j) PROVE FInv'
  <2>1. /\ health = "ready" /\ todo # {} /\ todo' \subseteq todo
        /\ UNCHANGED <<durable, memory, health, writing, flushed, lapsed, owners, mine>>
    BY <1>9 DEF BootRequeue, BootComplete, BootInterrupt, NextPrior
  <2>2. memory[j] \in View /\ (memory[j].checkpoint => durable[j].checkpoint)
    BY <2>1, SnapshotIsSound
  <2>3. ASSUME NEW op \in {Complete(j, "whole"), InterruptOp(memory[j], j, "server_restarted")},
               Enqueue([op EXCEPT !.by = "boot"])
        PROVE  FInv'
    <3>1. op \in Op
      BY <2>2, CompleteSound, SnapshotOps DEF Cause
    <3>2. [op EXCEPT !.by = "boot"] \in Op
      BY <3>1 DEF Op, Caller
    <3>3. /\ op.kind \notin {"starting", "linkage"} /\ op.job = j
          /\ op.cause = "server_restarted" => op.fence = memory[j].owned
      <4>1. "server_restarted" \in Cause
        BY DEF Cause
      <4>2. Ends(op, j, "server_restarted")
        BY <4>1, EndingOps, Zenon
      <4>3. /\ InterruptOp(memory[j], j, "server_restarted").cause = "server_restarted" =>
                  InterruptOp(memory[j], j, "server_restarted").fence = memory[j].owned
            /\ Complete(j, "whole").cause = "none"
        BY <4>1, EndingOps DEF Complete, Do
      <4>4. QED BY <2>3, <4>2, <4>3 DEF Ends
    <3>4. j \in owners => memory[j].owned
      BY <2>1 DEF FInv, OwnersOwned
    <3>5. Joins([op EXCEPT !.by = "boot"])
      BY <2>1, <3>1, <3>3, <3>4 DEF Joins, RestartFences, Op
    <3>6. QED BY <2>1, <2>3, <3>2, <3>5, EnqueueFInv
  <2>4. CASE UNCHANGED queue
    BY <2>1, <2>4, EnqueueFInv
  <2>5. QED BY <1>9, <2>3, <2>4 DEF BootRequeue, BootComplete, BootInterrupt
<1>10. QED BY <1>8, <1>9 DEF Classify

\* The writer takes an operation off the queue, or refuses it.
LEMMA NextWriteFInv ==
  ASSUME IInv, FInv, Refuse \/ StartWrite
  PROVE  FInv'
<1> DEFINE op == Head(queue)
<1>1. /\ queue \in Seq(Op) /\ queue # <<>> /\ queue' = Tail(queue) /\ op \in Op /\ op = queue[1]
      /\ 1 \in 1 .. Len(queue) /\ writing \in Op /\ ~flushed
      /\ UNCHANGED <<durable, memory, health, flushed, todo, mine, lapsed, owners>>
  BY DEF Refuse, StartWrite, IInv, TypeOK
<1>2. \A i \in 1 .. Len(queue') : queue'[i] = queue[i + 1] /\ i + 1 \in 1 .. Len(queue)
  BY <1>1
<1>3. \/ writing' = writing
      \/ writing' = op /\ Accepted(op)
      \/ \E j \in Job : writing' = [op EXCEPT !.job = j] /\ op.kind = "accepted"
  <2>1. CASE Refuse
    BY <2>1 DEF Refuse
  <2>2. CASE StartWrite /\ op.kind = "accepted"
    BY <2>2 DEF StartWrite
  <2>3. CASE StartWrite /\ op.kind # "accepted"
    BY <2>3 DEF StartWrite
  <2>4. QED BY <2>1, <2>2, <2>3
<1>4. /\ writing'.by \in {writing.by, op.by} /\ writing'.kind \in {writing.kind, op.kind}
      /\ writing' = writing \/ writing' = op \/ (writing'.cause = "none" /\ writing'.kind = "accepted")
  <2>1. op.kind = "accepted" => op.cause = "none"
    BY <1>1 DEF IInv, SoundQueue, Sound
  <2>2. QED BY <1>1, <1>3, <2>1 DEF Op
<1>5. \A o \in InFlight' : \/ o \in InFlight
                           \/ o.kind = "accepted" /\ o.cause = "none"
  <2>1. writing \in InFlight /\ op \in InFlight
    BY <1>1 DEF InFlight
  <2>2. QED BY <1>2, <1>4, <2>1 DEF InFlight
<1>6. Booting' => Booting
  BY <1>1, <1>2, <1>4 DEF Booting, BootPending
<1>7. BootFirst'
  BY <1>1, <1>5, <1>6 DEF FInv, BootFirst
<1>8. \A o \in InFlight' : RestartFences(o)'
  BY <1>1, <1>5 DEF FInv, RestartFences
<1>9. (OwnersOwned /\ RestartFenced)'
  BY <1>1 DEF FInv, OwnersOwned, RestartFenced
<1>10. StartChecked'
  <2>1. CASE writing' = writing
    BY <1>1, <2>1 DEF FInv, StartChecked, Fenced
  <2>2. CASE writing' = op /\ Accepted(op) /\ op.kind = "starting"
    <3>1. ~Fenced(memory, lapsed, memory[op.job].req.session)
      BY <2>2 DEF Accepted, Accepts
    <3>2. QED BY <1>1, <2>2, <3>1 DEF StartChecked, Fenced
  <2>3. CASE writing'.kind # "starting"
    BY <2>3 DEF StartChecked
  <2>4. QED BY <1>1, <1>3, <2>1, <2>2, <2>3 DEF Op
<1>11. QED BY <1>7, <1>8, <1>9, <1>10 DEF FInv

\* The row reaches the disk.
LEMMA FlushFInv ==
  ASSUME IInv, FInv, Flush
  PROVE  FInv'
<1> DEFINE w == writing.job
           u == Apply(durable[w], writing)
<1>1. /\ w \in Job /\ writing \in Op /\ durable \in [Job -> View] /\ flushed'
      /\ owners \subseteq Job /\ durable' = [durable EXCEPT ![w] = u]
      /\ writing.kind # "interrupted" => writing.cause = "none"
      /\ UNCHANGED <<memory, health, queue, writing, todo, mine, lapsed, owners>>
  BY DEF Flush, IInv, TypeOK, SoundWriting, Sound
<1>2. RestartFences(writing)
  BY DEF FInv, InFlight
<1>3. BootFirst' /\ StartChecked' /\ \A op \in InFlight' : RestartFences(op)'
  BY <1>1 DEF FInv, BootFirst, StartChecked, InFlight, Booting, BootPending, RestartFences
<1>4. ASSUME NEW k \in Job PROVE k \in owners => durable'[k].owned
  <2>1. k \in owners => durable[k].owned
    BY DEF FInv, OwnersOwned
  <2>2. k \in owners => durable[k].status # "absent"
    BY <2>1 DEF IInv, Unborn, AbsentJob, Exists
  <2>3. k = w => (durable[k].status # "absent" /\ durable[k].owned => u.owned)
    BY <1>1, ApplyKeepsEnd
  <2>4. QED BY <1>1, <2>1, <2>2, <2>3
<1>5. ASSUME NEW k \in Job, durable'[k].cause = "server_restarted"
      PROVE  durable'[k].status = "interrupted" /\ (k \in owners => durable'[k].fence)
  <2>1. CASE k # w
    BY <1>1, <1>5, <2>1 DEF FInv, RestartFenced
  <2>2. CASE k = w
    <3>1. \/ u.cause = durable[w].cause /\ u.fence = durable[w].fence /\ u.status = durable[w].status
          \/ u.cause = "none"
          \/ u.status = "interrupted" /\ u.cause = writing.cause /\ u.fence = writing.fence
      BY <1>1, ApplyKeepsEnd
    <3>2. durable'[k] = u
      BY <1>1, <2>2
    <3>3. QED BY <1>2, <1>5, <2>2, <3>1, <3>2 DEF FInv, RestartFenced, RestartFences
  <2>3. QED BY <2>1, <2>2
<1>6. (OwnersOwned /\ RestartFenced)'
  BY <1>1, <1>4, <1>5 DEF FInv, OwnersOwned, RestartFenced
<1>7. QED BY <1>3, <1>6 DEF FInv

\* The append returns: its caller may become an owner.
LEMMA WriteDoneFInv ==
  ASSUME IInv, FInv, WriteDone
  PROVE  FInv'
<1> DEFINE w == writing.job
           u == Apply(memory[w], writing)
<1>1. /\ w \in Job /\ health = "ready" /\ writing \in Op
      /\ memory \in [Job -> View] /\ durable \in [Job -> View]
      /\ memory' = [memory EXCEPT ![w] = u] /\ durable = [memory EXCEPT ![w] = u]
      /\ owners' = IF writing.kind = "linkage" /\ u.status = "running" THEN owners \cup {w} ELSE owners
      /\ mine' = IF writing.kind = "starting" THEN mine \cup {w} ELSE mine
      /\ writing' = NoOp /\ ~flushed' /\ UNCHANGED <<durable, health, queue, todo, lapsed>>
      /\ writing.kind # "interrupted" => writing.cause = "none"
  BY DEF WriteDone, IInv, TypeOK, Quiet, SoundWriting, Sound, MemoryIsJournal
<1>2. memory' = durable' /\ durable[w] = u
  BY <1>1
<1>3. /\ NoOp.kind = "none" /\ NoOp.cause = "none" /\ NoOp.by = "caller"
  BY DEF NoOp, Do
<1>4. InFlight' \subseteq InFlight \cup {NoOp}
  BY <1>1 DEF InFlight
<1>5. Booting' => Booting
  BY <1>1, <1>3 DEF Booting, BootPending
<1>6. writing \in InFlight
  BY DEF InFlight
<1>7. BootFirst'
  BY <1>1, <1>3, <1>4, <1>5, <1>6 DEF FInv, BootFirst
<1>8. \A op \in InFlight' : RestartFences(op)'
  <2>1. CASE Booting
    <3>1. owners' = owners
      BY <1>1, <1>6, <2>1 DEF FInv, BootFirst
    <3>2. QED BY <1>3, <1>4, <3>1 DEF FInv, RestartFences
  <2>2. CASE ~Booting
    <3>1. \A op \in InFlight : op.by # "boot"
      BY <2>2 DEF InFlight, Booting, BootPending
    <3>2. QED BY <1>3, <1>4, <3>1 DEF FInv, RestartFences
  <2>3. QED BY <2>1, <2>2
<1>9. OwnersOwned'
  <2>1. writing.kind = "linkage" /\ u.status = "running" => u.owned
    BY <1>1, ApplyKeepsEnd
  <2>2. QED BY <1>1, <1>2, <2>1 DEF FInv, OwnersOwned
<1>10. RestartFenced'
  BY <1>1, <1>2 DEF FInv, RestartFenced
<1>11. StartChecked'
  BY <1>1, <1>3 DEF StartChecked
<1>12. QED BY <1>7, <1>8, <1>9, <1>10, <1>11 DEF FInv

\* Every reachable state keeps it.
LEMMA FencingInvariant == StoreSpec => []FInv
<1>1. NoOp.kind = "none" /\ NoOp.cause = "none" /\ NoOp.by = "caller"
  BY DEF NoOp, Do
<1>2. StoreInit => FInv
  BY <1>1 DEF StoreInit, FInv, BootFirst, OwnersOwned, RestartFenced, StartChecked, InFlight,
              RestartFences, AbsentJob
<1>3. ASSUME IInv, FInv, [StoreNext]_storeVars PROVE FInv'
  <2>1. CASE Calls \/ Classify
    BY <1>3, <2>1, QueueingFInv
  <2>2. CASE Refuse \/ StartWrite
    BY <1>3, <2>2, NextWriteFInv
  <2>3. CASE Flush
    BY <1>3, <2>3, FlushFInv
  <2>4. CASE WriteDone
    BY <1>3, <2>4, WriteDoneFInv
  <2>5. CASE WriteFails \/ Crash
    <3>1. /\ queue' = <<>> /\ writing' = NoOp /\ health' # "ready"
          /\ UNCHANGED <<durable, lapsed, owners>>
          /\ health' = "down" => mine' = {}
      BY <2>5 DEF WriteFails, Crash
    <3>2. InFlight' = {NoOp}
      BY <3>1 DEF InFlight
    <3>3. QED BY <1>1, <1>3, <3>1, <3>2 DEF FInv, BootFirst, OwnersOwned, RestartFenced,
                                            StartChecked, RestartFences
  <2>6. CASE Boot
    <3>1. /\ queue' = <<>> /\ writing' = NoOp /\ memory' = durable /\ mine' = {}
          /\ UNCHANGED <<durable, lapsed, owners>>
      BY <1>3, <2>6 DEF Boot, IInv, Quiet, FInv, BootFirst
    <3>2. InFlight' = {NoOp}
      BY <3>1 DEF InFlight
    <3>3. QED BY <1>1, <1>3, <3>1, <3>2 DEF FInv, BootFirst, OwnersOwned, RestartFenced,
                                            StartChecked, RestartFences
  <2>7. ASSUME NEW j \in Job, FenceLapses(j) PROVE FInv'
    <3>1. /\ lapsed' = lapsed \cup {j}
          /\ UNCHANGED <<durable, memory, health, queue, writing, flushed, todo, mine, owners>>
      BY <2>7 DEF FenceLapses
    <3>2. StartChecked'
      BY <1>3, <3>1 DEF FInv, StartChecked, Fenced
    <3>3. QED BY <1>3, <3>1, <3>2 DEF FInv, BootFirst, OwnersOwned, RestartFenced, InFlight,
                                      Booting, BootPending, RestartFences
  <2>8. CASE UNCHANGED storeVars
    BY <1>3, <2>8 DEF storeVars, FInv, BootFirst, OwnersOwned, RestartFenced, InFlight, Booting,
                      BootPending, RestartFences, StartChecked, Fenced
  <2>9. QED BY <1>3, <2>1, <2>2, <2>3, <2>4, <2>5, <2>6, <2>7, <2>8 DEF StoreNext, Writer
<1>4. QED BY <1>2, <1>3, Invariance, PTL DEF StoreSpec

\* A job whose caller was told it may send the prompt, and that a restart then
\* interrupted, keeps every other job of its session from starting until its
\* orphan's 21 minutes are over.
THEOREM SessionStaysFenced == StoreSpec => CrashedOwnerKeepsSession
<1> DEFINE Kept(j, k) ==
      /\ durable[j].status = "accepted" /\ durable'[j].status = "starting"
      /\ k \in owners /\ durable[k].cause = "server_restarted"
      /\ durable[j].req.session = durable[k].req.session
      => k \in lapsed
<1>1. ASSUME IInv, FInv, [StoreNext]_storeVars, NEW j \in Job, NEW k \in Job,
             durable[j].status = "accepted", durable'[j].status = "starting",
             k \in owners, durable[k].cause = "server_restarted",
             durable[j].req.session = durable[k].req.session
      PROVE  k \in lapsed
  <2>1. Flush
    BY <1>1, WhoChanges
  <2>2. /\ j = writing.job /\ writing \in Op /\ ~flushed /\ durable[j] \in View
        /\ Apply(durable[j], writing).status = "starting"
    BY <1>1, <2>1 DEF Flush, IInv, TypeOK, SoundWriting
  <2>3. writing.kind = "starting"
    <3>1. CASE writing.kind = "accepted"
      BY <1>1, <2>2, <3>1 DEF Apply, Moves, Terminal
    <3>2. CASE writing.kind \in {"checkpoint", "acknowledged", "linkage"}
      BY <1>1, <2>2, <3>2 DEF Apply, View, Moves, Terminal
    <3>3. CASE writing.kind \notin {"accepted", "checkpoint", "acknowledged", "linkage"}
      <4>1. \/ Apply(durable[j], writing) = durable[j]
            \/ Apply(durable[j], writing).status = writing.kind
        BY <2>2, <3>3 DEF Apply, View
      <4>2. QED BY <1>1, <2>2, <4>1
    <3>4. QED BY <3>1, <3>2, <3>3
  <2>4. memory = durable
    BY <1>1, <2>1, <2>2 DEF Flush, IInv, Quiet, MemoryIsJournal
  <2>5. ~Fenced(durable, lapsed, durable[j].req.session)
    BY <1>1, <2>2, <2>3, <2>4 DEF FInv, StartChecked
  <2>6. durable[k].status = "interrupted" /\ durable[k].fence
    BY <1>1 DEF FInv, RestartFenced
  <2>7. QED BY <1>1, <2>5, <2>6 DEF Fenced
<1>2. IInv /\ FInv /\ [StoreNext]_storeVars => [\A j, k \in Job : Kept(j, k)]_storeVars
  BY <1>1
<1>3. QED BY <1>2, Invariance, FencingInvariant, PTL DEF StoreSpec, CrashedOwnerKeepsSession
=============================================================================
