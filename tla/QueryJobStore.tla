---------------------------- MODULE QueryJobStore ----------------------------
(***************************************************************************)
(* The durable query-job store (server/lib/query-job-store.ts).            *)
(*                                                                         *)
(* Every prompt the server accepts is a job in an append-only journal.  An *)
(* operation reads the job in memory, then queues one write; the writes    *)
(* run one at a time, each re-checking the job before it appends its row,  *)
(* and memory changes only after the append returned.  A failed append     *)
(* makes the store read-only until the next boot.  At boot the journal is  *)
(* folded again, and every job the last process left unfinished is         *)
(* requeued, completed or interrupted.                                     *)
(*                                                                         *)
(* The callers are arbitrary here: a phone may submit or cancel, and a run *)
(* may report, at any time and in any order.                               *)
(***************************************************************************)
EXTENDS Sequences, QueryJobWrites

CONSTANTS MaxCalls,     \* bound: operations waiting for the writer at once
          MaxBoots      \* bound: boots of the server process

ASSUME BoundAssumption == MaxCalls \in Nat /\ MaxBoots \in Nat

VARIABLES durable,   \* per job, what the rows on the disk say
          memory,    \* per job, what the running process holds
          health,    \* "down" (no process), "ready" or "degraded"
          queue,     \* operations waiting for the writer (appendTail)
          writing,   \* the operation whose row is being appended
          flushed,   \* that row has reached the disk
          todo,      \* prior-boot jobs the boot has not classified yet
          mine,      \* jobs this process started: only their runs report to it
          requeued,  \* never-started jobs the boot kept for the coordinator
          lapsed,    \* jobs whose 21-minute orphan fence is over
          boots,     \* boots so far
          shown,     \* per job, the last status any reader could see
          owners     \* jobs whose caller was told it may send the prompt

storeVars == <<durable, memory, health, queue, writing, flushed, todo,
               mine, requeued, lapsed, boots, shown, owners>>

-----------------------------------------------------------------------------
Enqueue(op) == queue' = Append(queue, op)

Finished(j) == memory[j].status \in Terminal

Accepted(op) == Accepts(memory, lapsed, op)

StoreInit ==
  /\ durable = [j \in Job |-> AbsentJob]
  /\ memory = durable
  /\ health = "down"
  /\ queue = <<>>
  /\ writing = NoOp
  /\ flushed = FALSE
  /\ todo = {}
  /\ mine = {}
  /\ requeued = {}
  /\ lapsed = {}
  /\ boots = 0
  /\ shown = [j \in Job |-> "absent"]
  /\ owners = {}

BootPending == writing.by = "boot" \/ \E i \in 1 .. Len(queue) : queue[i].by = "boot"

\* The promise init() returned is fulfilled: the boot has classified every job.
Booted == health = "ready" /\ todo = {} /\ ~BootPending

Callable == health = "ready" /\ Len(queue) < MaxCalls

\* A call only queues an operation; everything else waits for the writer.
Call(op) ==
  /\ Enqueue(op)
  /\ UNCHANGED <<durable, memory, health, writing, flushed, todo, mine, requeued,
                 lapsed, boots, shown, owners>>

CallAdmit(r) == Callable /\ Call(Admit(r))

\* markStarting awaits the whole boot classification, not just readiness.
CallMarkStarting(j) == Callable /\ Booted /\ Exists(memory, j) /\ Call(Do("starting", j))

\* The callbacks of a run, of the process that started it.
CallMarkRunning(j) == Callable /\ j \in mine /\ Call(Do("running", j))

CallUpdateLinkage(j) == Callable /\ j \in mine /\ Call(Do("linkage", j))

CallCheckpoint(j) == Callable /\ j \in mine /\ Call(Do("checkpoint", j))

CallMarkAnswerReady(j) == Callable /\ j \in mine /\ Call(Do("answer_ready", j))

CallComplete(j) == Callable /\ j \in mine /\ Call(Complete(j, "whole"))

\* Besides a run's error or deadline, a job whose session lock was refused.
CallFail(j) ==
  /\ Callable
  /\ j \in mine \/ memory[j].status = "accepted"
  /\ Call(FailOp(memory[j], j))

\* cancel() refuses a finished or an answered job, again on a snapshot.
CallCancel(j) ==
  /\ Callable
  /\ memory[j].status \in Live \ {"answer_ready"}
  /\ Call(Do("canceled", j))

\* A graceful shutdown interrupts the runs of this process.
CallInterrupt(j) ==
  Callable /\ j \in mine /\ ~Finished(j) /\ Call(InterruptOp(memory[j], j, "server_shutdown"))

\* A requeued job whose start crashed the server too often.
CallInterruptParked(j) ==
  Callable /\ j \in requeued /\ Call(Interrupt(j, FALSE, "crash_loop_parked"))

CallAcknowledge(j) ==
  Callable /\ Finished(j) /\ ~memory[j].acked /\ Call(Do("acknowledged", j))

-----------------------------------------------------------------------------
\* The writer: one operation at a time, in the order they were queued.

\* The head operation is refused (or answered without a write): the job has
\* moved since the call, or canStart() said no.
Refuse ==
  /\ writing = NoOp /\ queue # <<>>
  /\ \/ ~Accepted(Head(queue))
     \/ Head(queue).kind = "starting"
     \/ Head(queue).kind = "accepted" /\ \A j \in Job : ~Fresh(memory, j)  \* bound MaxJobs
  /\ queue' = Tail(queue)
  /\ UNCHANGED <<durable, memory, health, writing, flushed, todo, mine, requeued,
                 lapsed, boots, shown, owners>>

\* The head operation is accepted: its row is built and the append starts.
StartWrite ==
  /\ writing = NoOp /\ queue # <<>>
  /\ health = "ready"
  /\ Accepted(Head(queue))
  /\ IF Head(queue).kind = "accepted"
     THEN \E j \in Job : Fresh(memory, j) /\ writing' = [Head(queue) EXCEPT !.job = j]
     ELSE writing' = Head(queue)
  /\ queue' = Tail(queue)
  /\ UNCHANGED <<durable, memory, health, flushed, todo, mine, requeued, lapsed,
                 boots, shown, owners>>

\* The row is on the disk; the append has not returned yet.
Flush ==
  /\ writing # NoOp /\ ~flushed
  /\ flushed' = TRUE
  /\ durable' = [durable EXCEPT ![writing.job] = Apply(@, writing)]
  /\ UNCHANGED <<memory, health, queue, writing, todo, mine, requeued, lapsed, boots,
                 shown, owners>>

\* Slip: the flag of the append that returned is left set.
WriteDoneKeepsFlag ==
  /\ writing # NoOp /\ flushed
  /\ LET j == writing.job
         v == Apply(memory[j], writing)
     IN  /\ memory' = [memory EXCEPT ![j] = v]
         /\ shown' = [shown EXCEPT ![j] = v.status]
  /\ writing' = NoOp
  /\ UNCHANGED <<durable, health, queue, flushed, todo, mine, requeued, lapsed, boots, owners>>

\* The append returned: memory takes the row and the caller gets its answer.
WriteDone ==
  /\ writing # NoOp /\ flushed
  /\ LET j == writing.job
         v == Apply(memory[j], writing)
     IN  /\ memory' = [memory EXCEPT ![j] = v]
         /\ shown' = [shown EXCEPT ![j] = v.status]
         /\ owners' = IF writing.kind = "linkage" /\ v.status = "running"
                      THEN owners \cup {j} ELSE owners
         /\ mine' = IF writing.kind = "starting" THEN mine \cup {j} ELSE mine
  /\ writing' = NoOp
  /\ flushed' = FALSE
  /\ UNCHANGED <<durable, health, queue, todo, requeued, lapsed, boots>>

\* Slip: a failed append is reported to its caller and the store goes on.
WriteFailsOnce ==
  /\ writing # NoOp
  /\ writing' = NoOp
  /\ flushed' = FALSE
  /\ UNCHANGED <<durable, memory, health, queue, todo, mine, requeued, lapsed, boots, shown, owners>>

\* Slip: the event of a row is published before its append is known to be good.
WriteFailsPublished ==
  /\ writing # NoOp
  /\ health' = "degraded"
  /\ shown' = [shown EXCEPT ![writing.job] = Apply(memory[writing.job], writing).status]
  /\ writing' = NoOp
  /\ flushed' = FALSE
  /\ queue' = <<>>
  /\ UNCHANGED <<durable, memory, todo, mine, requeued, lapsed, boots, owners>>

\* The append failed, whether or not the row is on the disk: memory does not
\* take the row, the store is degraded until the next boot, and assertWritable()
\* refuses everything that waits.
WriteFails ==
  /\ writing # NoOp
  /\ health' = "degraded"
  /\ writing' = NoOp
  /\ flushed' = FALSE
  /\ queue' = <<>>
  /\ UNCHANGED <<durable, memory, todo, mine, requeued, lapsed, boots, shown, owners>>

-----------------------------------------------------------------------------
\* The process dies (the row being appended is on the disk or it is not).
Crash ==
  /\ health # "down"
  /\ boots < MaxBoots
  /\ health' = "down"
  /\ memory' = [j \in Job |-> AbsentJob]
  /\ queue' = <<>>
  /\ writing' = NoOp
  /\ flushed' = FALSE
  /\ todo' = {}
  /\ mine' = {}
  /\ requeued' = {}
  /\ UNCHANGED <<durable, lapsed, boots, shown, owners>>

\* initialize(), first half: every row is folded into memory, the store is
\* ready, and the unfinished jobs of the last process are listed.
Boot ==
  /\ health = "down"
  /\ boots' = boots + 1
  /\ memory' = durable
  /\ health' = "ready"
  /\ todo' = {j \in Job : durable[j].status \in Live}
  /\ shown' = [j \in Job |-> durable[j].status]
  /\ UNCHANGED <<durable, queue, writing, flushed, mine, requeued, lapsed, owners>>

\* initialize(), second half: the listed jobs one by one, in journal order.
NextPrior(j) ==
  /\ health = "ready" /\ ~BootPending
  /\ j \in todo /\ \A i \in todo : j <= i
  /\ todo' = todo \ {j}

\* Slip: a job whose start is in the journal is handed back too.
BootRequeueStarted(j) ==
  /\ NextPrior(j)
  /\ memory[j].status \in {"accepted", "starting", "running"}
  /\ requeued' = requeued \cup {j}
  /\ UNCHANGED <<durable, memory, health, queue, writing, flushed, mine, lapsed,
                 boots, shown, owners>>

\* A job that never started, admitted in the last hour, stays accepted.
BootRequeue(j) ==
  /\ NextPrior(j)
  /\ memory[j].status = "accepted"
  /\ requeued' = requeued \cup {j}
  /\ UNCHANGED <<durable, memory, health, queue, writing, flushed, mine, lapsed,
                 boots, shown, owners>>

\* The answer is durable: complete with it.
BootComplete(j) ==
  /\ NextPrior(j)
  /\ memory[j].status = "answer_ready"
  /\ Enqueue([Complete(j, "whole") EXCEPT !.by = "boot"])
  /\ UNCHANGED <<durable, memory, health, writing, flushed, mine, requeued, lapsed,
                 boots, shown, owners>>

\* Anything else (an accepted job that is too old included) is interrupted;
\* a job a caller finished meanwhile is left alone.
BootInterrupt(j) ==
  /\ NextPrior(j)
  /\ memory[j].status # "answer_ready"
  /\ IF Finished(j) THEN UNCHANGED queue
     ELSE Enqueue([InterruptOp(memory[j], j, "server_restarted") EXCEPT !.by = "boot"])
  /\ UNCHANGED <<durable, memory, health, writing, flushed, mine, requeued, lapsed,
                 boots, shown, owners>>

\* 21 minutes after the interrupt the fence of job j is over.
FenceLapses(j) ==
  /\ durable[j].fence /\ j \notin lapsed
  /\ lapsed' = lapsed \cup {j}
  /\ UNCHANGED <<durable, memory, health, queue, writing, flushed, todo,
                 mine, requeued, boots, shown, owners>>

-----------------------------------------------------------------------------
Calls ==
  \/ \E r \in Request : CallAdmit(r)
  \/ \E j \in Job :
       \/ CallMarkStarting(j) \/ CallMarkRunning(j) \/ CallUpdateLinkage(j)
       \/ CallCheckpoint(j) \/ CallMarkAnswerReady(j) \/ CallComplete(j)
       \/ CallFail(j) \/ CallCancel(j) \/ CallInterrupt(j)
       \/ CallInterruptParked(j) \/ CallAcknowledge(j)

Writer == Refuse \/ StartWrite \/ Flush \/ WriteDone \/ WriteFails

Classify == \E j \in Job : BootRequeue(j) \/ BootComplete(j) \/ BootInterrupt(j)

StoreNext ==
  \/ Calls \/ Writer
  \/ Boot \/ Classify \/ Crash
  \/ \E j \in Job : FenceLapses(j)

StoreSpec == StoreInit /\ [][StoreNext]_storeVars

-----------------------------------------------------------------------------
(***************************************************************************)
(* Properties.                                                             *)
(***************************************************************************)

\* Types, and where a row may be in flight.
TypeOK ==
  /\ durable \in [Job -> View] /\ memory \in [Job -> View]
  /\ health \in {"down", "ready", "degraded"}
  /\ queue \in Seq(Op) /\ writing \in Op
  /\ flushed \in BOOLEAN /\ (flushed => writing # NoOp)
  /\ todo \subseteq Job /\ mine \subseteq Job /\ requeued \subseteq Job /\ lapsed \subseteq Job
  /\ boots \in Nat
  /\ shown \in [Job -> Status] /\ owners \subseteq Job

\* While the store is writable, memory is what a boot would read back, but for
\* the one row whose append has not returned: a job a caller sees is never
\* ahead of the journal, and no write is decided on a job the journal has
\* already moved.  This is what "degraded until the next boot" is for.
MemoryIsJournal ==
  health = "ready" =>
    durable = IF flushed
              THEN [memory EXCEPT ![writing.job] = Apply(@, writing)]
              ELSE memory

\* Whatever status memory showed a reader, by a reply, an event or a read, the
\* journal holds it or a later one, across failed appends, crashes and boots.
ShownIsDurable == \A j \in Job : CanBecome(shown[j], durable[j].status)

\* No caller ever sees a job move back, whatever crashes lie between two reads.
SeenNeverGoesBack == [][\A j \in Job : CanBecome(shown[j], shown'[j])]_storeVars

\* The generations of one client job are admitted in order, one at a time: an
\* earlier one is finished, on the disk, before the next one exists, so two
\* simultaneous retries never run the same prompt twice.
LineageIsSerial ==
  \A i, j \in Job :
    /\ i < j
    /\ durable[i].status # "absent" /\ durable[j].status # "absent"
    /\ durable[i].req.client = durable[j].req.client
    => durable[i].req.gen < durable[j].req.gen /\ durable[i].status \in Terminal

\* Once the answer is durable, neither a cancel, an error, a shutdown nor a boot
\* ends the job otherwise than completed; and without a steer checkpoint the
\* answer it completes with is the whole one.
AnswerIsKept ==
  [][\A j \in Job : durable[j].status = "answer_ready" =>
       \/ durable'[j].status = "answer_ready"
       \/ /\ durable'[j].status = "completed"
          /\ ~durable[j].checkpoint => durable'[j].response = "whole"]_storeVars

\* A job that owned a provider process when a crash ended it is fenced: no job
\* of its session starts until the orphan's 21 minutes are over.
CrashedOwnerKeepsSession ==
  [][\A j, k \in Job :
       /\ durable[j].status = "accepted" /\ durable'[j].status = "starting"
       /\ k \in owners /\ durable[k].cause = "server_restarted"
       /\ durable[j].req.session = durable[k].req.session
       => k \in lapsed]_storeVars

\* A boot hands back only jobs no caller ever saw started and whose provider
\* was never given the prompt: running one repeats nothing.
RequeuedNeverStarted ==
  [][\A j \in requeued' \ requeued :
       j \notin owners /\ shown[j] \in {"absent", "accepted"}]_storeVars

\* The journal is the job, and what memory has shown is what a caller saw.
Promise == INSTANCE QueryJobPromise WITH job <- durable, seen <- shown

\* The store keeps QueryJobPromise, whatever append fails and whenever it dies.
ImplementsPromise == Promise!PromiseSpec
=============================================================================
