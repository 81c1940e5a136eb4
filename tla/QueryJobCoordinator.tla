------------------------- MODULE QueryJobCoordinator -------------------------
(***************************************************************************)
(* The query-job coordinator (server/lib/query-job-coordinator.ts), which  *)
(* owns every provider run: it admits a prompt, lines it up for its        *)
(* session's lock, starts it, journals what the run reports, and ends it   *)
(* on the run's own report, a deadline, a cancel, a shutdown, or a broken  *)
(* journal.  The bridge that drives the provider child                     *)
(* (server/lib/claude-bridge.ts) is modelled by the calls it makes and by  *)
(* what it does to the child.                                              *)
(*                                                                         *)
(* The store is used through what QueryJobStore shows of it: operations    *)
(* queue, each is checked and committed in one step, a commit may fail or  *)
(* be cut by a crash, and a boot classifies what was left in one step.     *)
(***************************************************************************)
EXTENDS Sequences, QueryJobWrites

CONSTANTS Steerable,    \* whether runs may be steered (COS_MESSAGES_STEER)
          MaxCalls,     \* bound: prompts and cancels waiting for the writer
          MaxBoots      \* bound: boots of the server process

ASSUME BoundAssumption ==
  Steerable \in BOOLEAN /\ MaxCalls \in Nat /\ MaxBoots \in Nat

Session == {r.session : r \in Request}

VARIABLES job,       \* the journal's jobs
          lapsed,    \* jobs whose orphan fence is over
          health,    \* "down", "ready" or "degraded"
          queue,     \* operations waiting for the store's writer
          boots,     \* boots so far
          draining,  \* a maintenance drain refuses new leases
          shutting,  \* "no", "draining" callbacks or "interrupting" runs
          toStop,    \* runs the shutdown has not interrupted yet
          lock,      \* per session, the jobs lined up for its run lock; the head holds it
          stage,     \* per job, where execute() is
          bridge,    \* per job, where its bridge is
          child,     \* per job, its provider child, which outlives the server
          tail,      \* per job, callback writes not answered yet (callbackTail)
          late,      \* per job, what its fired deadline still has to do
          ahead      \* per job, callbacks the deadline waits for

jobVars == <<job, lapsed, boots>>
hostVars == <<health, draining, shutting, toStop>>
runVars == <<lock, stage, bridge, child, tail, late, ahead>>
vars == <<job, lapsed, health, queue, boots, draining, shutting, toStop,
          lock, stage, bridge, child, tail, late, ahead>>

\* execute(): lined up for the lock or held, markStarting queued, its row
\* written, in the active map, or returned.
Stage == {"none", "waiting", "marking", "started", "active"}

\* The bridge: called, child spawned, prompt sent, answer in hand, answer
\* durable, about to report, reported; "off" once nothing it does matters.
Bridge == {"off", "called", "spawned", "working", "flushing", "answering", "post",
           "done", "error", "reported"}

Child == {"none", "idle", "prompted", "stopping", "gone"}

SessionOf(j) == job[j].req.session

Over(j) == job[j].status \in Terminal

-----------------------------------------------------------------------------
Init ==
  /\ job = [j \in Job |-> AbsentJob]
  /\ lapsed = {}
  /\ health = "down"
  /\ queue = <<>>
  /\ boots = 0
  /\ draining = FALSE
  /\ shutting = "no"
  /\ toStop = {}
  /\ lock = [s \in Session |-> <<>>]
  /\ stage = [j \in Job |-> "none"]
  /\ bridge = [j \in Job |-> "off"]
  /\ child = [j \in Job |-> "none"]
  /\ tail = [j \in Job |-> <<>>]
  /\ late = [j \in Job |-> "no"]
  /\ ahead = [j \in Job |-> 0]

By(who, op) == [op EXCEPT !.by = who]

Pending(who, j) == \E i \in 1 .. Len(queue) : queue[i].by = who /\ queue[i].job = j

\* The writer's verdict on the head operation, and the journal after it.
Verdict(op) == Accepts(job, lapsed, op) /\ (op.kind = "starting" => shutting = "no")

Written(op) ==
  IF op.kind # "accepted" /\ Verdict(op) THEN [job EXCEPT ![op.job] = Apply(@, op)] ELSE job

\* The jobs an admission may create: the next number, while the bound allows one.
Created(op) ==
  {j \in Job : op.kind = "accepted" /\ Accepts(job, lapsed, op) /\ Fresh(job, j)}

\* The journal when the append of the head operation was cut: with its row or not.
Cut(op) == {job, Written(op)} \cup {[job EXCEPT ![j] = NewJob(op.req)] : j \in Created(op)}

-----------------------------------------------------------------------------
\* What ending a run does to the run's state, used inside the actions below.

\* Slip: the lock is never released.
KeepLock(j) == UNCHANGED lock

\* The session lock passes on from job j, which holds it, to the next in line.
Unlock(j) == lock' = [lock EXCEPT ![SessionOf(j)] = Tail(@)]

\* finishActive / abandonActive: off the active map, lock and lease released.
Finish(j) == Unlock(j) /\ stage' = [stage EXCEPT ![j] = "none"]

\* The child is told to stop: without its prompt it just ends.
Stopped(c) == CASE c = "idle" -> "gone" [] c = "prompted" -> "stopping" [] OTHER -> c

\* The abort signal: a bridge with its answer in hand runs on, the rest stop.
Abort(j) ==
  /\ child' = [child EXCEPT ![j] = Stopped(@)]
  /\ bridge' = [bridge EXCEPT ![j] = IF @ \in {"called", "spawned", "working"} THEN "off" ELSE @]

FinishIf(cond, j) == IF cond THEN Finish(j) ELSE UNCHANGED <<lock, stage>>

-----------------------------------------------------------------------------
\* Admission.

\* submit(): one admission at a time, under a fresh maintenance lease.
Submit(r) ==
  /\ health = "ready" /\ shutting = "no" /\ ~draining
  /\ Len(queue) < MaxCalls /\ \A i \in 1 .. Len(queue) : queue[i].by # "submit"
  /\ queue' = Append(queue, By("submit", Admit(r)))
  /\ UNCHANGED <<jobVars, hostVars, runVars>>

\* The admission is answered; a new job is lined up for its session at once.
Admitted ==
  /\ health = "ready" /\ queue # <<>> /\ Head(queue).by = "submit"
  /\ LET r == Head(queue).req
     IN  \/ \E j \in Created(Head(queue)) :
              /\ job' = [job EXCEPT ![j] = NewJob(r)]
              /\ lock' = [lock EXCEPT ![r.session] = Append(@, j)]
              /\ stage' = [stage EXCEPT ![j] = "waiting"]
         \/ Created(Head(queue)) = {} /\ UNCHANGED <<job, lock, stage>>
  /\ queue' = Tail(queue)
  /\ UNCHANGED <<lapsed, boots, hostVars, bridge, child, tail, late, ahead>>

-----------------------------------------------------------------------------
\* The start (execute, startWhenClear).

\* Slip: a start does not wait for the lock's head.
InLine(j) == stage[j] = "waiting"

HoldsLock(j) == stage[j] = "waiting" /\ Head(lock[SessionOf(j)]) = j

\* A fresh lease is taken and markStarting is called.
MarkStarting(j) ==
  /\ health = "ready" /\ HoldsLock(j) /\ shutting = "no" /\ ~draining
  /\ queue' = Append(queue, By("start", Do("starting", j)))
  /\ stage' = [stage EXCEPT ![j] = "marking"]
  /\ UNCHANGED <<jobVars, hostVars, lock, bridge, child, tail, late, ahead>>

\* Slip: a fenced start is refused and not tried again.
StartAnsweredOnce ==
  /\ health = "ready" /\ queue # <<>> /\ Head(queue).by = "start"
  /\ LET op == Head(queue)
     IN  /\ job' = Written(op)
         /\ IF Verdict(op) THEN stage' = [stage EXCEPT ![op.job] = "started"] /\ UNCHANGED lock
            ELSE Finish(op.job)
  /\ queue' = Tail(queue)
  /\ UNCHANGED <<lapsed, boots, hostVars, bridge, child, tail, late, ahead>>

\* The answer: started; fenced, so held without its lease until the next try;
\* or not this process's to run any more (canceled, shutting down).
StartAnswered ==
  /\ health = "ready" /\ queue # <<>> /\ Head(queue).by = "start"
  /\ LET op == Head(queue)
         j == op.job
     IN  /\ job' = Written(op)
         /\ IF Verdict(op) THEN stage' = [stage EXCEPT ![j] = "started"] /\ UNCHANGED lock
            ELSE IF job[j].status = "accepted" /\ Fenced(job, lapsed, SessionOf(j))
            THEN stage' = [stage EXCEPT ![j] = "waiting"] /\ UNCHANGED lock
            ELSE Finish(j)
  /\ queue' = Tail(queue)
  /\ UNCHANGED <<lapsed, boots, hostVars, bridge, child, tail, late, ahead>>

\* A shutdown that began meanwhile gives the start up; else the runner is called.
Launch(j) ==
  /\ stage[j] = "started"
  /\ IF shutting # "no" THEN Finish(j) /\ UNCHANGED bridge
     ELSE /\ stage' = [stage EXCEPT ![j] = "active"]
          /\ bridge' = [bridge EXCEPT ![j] = "called"]
          /\ UNCHANGED lock
  /\ UNCHANGED <<jobVars, hostVars, queue, child, tail, late, ahead>>

\* A job still waiting when the shutdown begins stays accepted for the boot.
GiveUp(j) ==
  /\ HoldsLock(j) /\ shutting # "no"
  /\ Finish(j)
  /\ UNCHANGED <<jobVars, hostVars, queue, bridge, child, tail, late, ahead>>

-----------------------------------------------------------------------------
\* The run's callbacks, journaled one after the other (enqueueCallback).

TailOp(kind, j) == By("tail", Do(kind, j))

\* Callbacks join the tail; the first one of an empty tail goes to the store.
Report(j, kinds) ==
  /\ tail' = [tail EXCEPT ![j] = @ \o kinds]
  /\ queue' = IF tail[j] = <<>> THEN Append(queue, TailOp(Head(kinds), j)) ELSE queue

Runs(j, at) == stage[j] = "active" /\ health = "ready" /\ bridge[j] = at

BridgeAt(j, b) == bridge' = [bridge EXCEPT ![j] = b]

\* The child is spawned without its prompt: onStart, then onProviderProcess.
Spawn(j) ==
  /\ Runs(j, "called")
  /\ Report(j, <<"running", "linkage">>)
  /\ child' = [child EXCEPT ![j] = "idle"]
  /\ BridgeAt(j, "spawned")
  /\ UNCHANGED <<jobVars, hostVars, lock, stage, late, ahead>>

\* The child's result: what is left of the text is flushed before the answer.
ProviderAnswers(j) ==
  /\ Runs(j, "working") /\ child[j] = "prompted"
  /\ Report(j, <<"partial">>)
  /\ child' = [child EXCEPT ![j] = "gone"]
  /\ BridgeAt(j, "flushing")
  /\ UNCHANGED <<jobVars, hostVars, lock, stage, late, ahead>>

\* A first result that leaves a steer uncovered: the answer so far is kept.
ProviderCheckpoints(j) ==
  /\ Steerable
  /\ Runs(j, "working") /\ child[j] = "prompted"
  /\ ~job[j].checkpoint /\ \A i \in 1 .. Len(tail[j]) : tail[j][i] # "checkpoint"
  /\ Report(j, <<"checkpoint">>)
  /\ UNCHANGED <<jobVars, hostVars, lock, stage, bridge, child, late, ahead>>

\* The runner throws before a child exists, or the child fails.
RunFails(j) ==
  /\ Runs(j, "called") \/ Runs(j, "spawned") \/ Runs(j, "working")
  /\ child' = [child EXCEPT ![j] = IF @ = "none" THEN @ ELSE "gone"]
  /\ BridgeAt(j, "error")
  /\ UNCHANGED <<jobVars, hostVars, queue, lock, stage, tail, late, ahead>>

\* Post-processing of the durable answer (history, images) is over: onDone.
PostDone(j) ==
  /\ bridge[j] = "post"
  /\ BridgeAt(j, IF stage[j] = "active" THEN "done" ELSE "off")
  /\ UNCHANGED <<jobVars, hostVars, queue, lock, stage, child, tail, late, ahead>>

\* Slip: the prompt goes out once the callback returned, whatever it said.
ResumeAnyway(j, kind, owned) ==
  CASE kind = "linkage" /\ bridge[j] = "spawned" ->
         child' = [child EXCEPT ![j] = "prompted"] /\ BridgeAt(j, "working")
    [] kind = "partial" /\ bridge[j] = "flushing" -> UNCHANGED child /\ BridgeAt(j, "answering")
    [] kind = "answer_ready" /\ bridge[j] = "answering" -> UNCHANGED child /\ BridgeAt(j, "post")
    [] OTHER -> UNCHANGED <<child, bridge>>

\* What the bridge does once its callback is answered: it sends the prompt only
\* to a child the journal says it owns, and goes on with an answer only when
\* the journal holds it; a run that ended meanwhile owns nothing.
Resume(j, kind, owned) ==
  CASE kind = "linkage" /\ bridge[j] = "spawned" ->
         /\ child' = [child EXCEPT ![j] = IF owned THEN "prompted" ELSE Stopped(@)]
         /\ BridgeAt(j, IF owned THEN "working" ELSE "off")
    [] kind = "partial" /\ bridge[j] = "flushing" ->
         UNCHANGED child /\ BridgeAt(j, IF owned THEN "answering" ELSE "off")
    [] kind = "answer_ready" /\ bridge[j] = "answering" ->
         UNCHANGED child /\ BridgeAt(j, IF owned THEN "post" ELSE "off")
    [] OTHER -> UNCHANGED <<child, bridge>>

\* completeActive and failActive, as the deadline calls them: each waits for the
\* callbacks queued before it, then decides on the job v it reads.
DeadlineOp(v, j, how) ==
  By("deadline", IF how = "complete" THEN Complete(j, "whole") ELSE FailOp(v, j))

\* Slip: the count of awaited callbacks runs below zero.
OneLessAlways(n) == n - 1

\* One awaited callback less.
OneLess(n) == IF n = 0 THEN 0 ELSE n - 1

\* A callback is answered: the next one of the tail goes to the store, and a
\* deadline that waited for this one makes its call right after.
CallbackAnswered ==
  /\ health = "ready" /\ queue # <<>> /\ Head(queue).by = "tail"
  /\ LET op == Head(queue)
         j == op.job
         v == Written(op)[j]
         runs == stage[j] = "active"
         owned == Verdict(op) /\ runs /\ (op.kind = "linkage" => v.status = "running")
         flushed == op.kind = "partial" /\ owned /\ bridge[j] = "flushing"
         rest == Tail(tail[j]) \o IF flushed THEN <<"answer_ready">> ELSE <<>>
         due == late[j] \in {"complete", "fail"} /\ ahead[j] = 1
     IN  /\ job' = Written(op)
         /\ tail' = [tail EXCEPT ![j] = rest]
         /\ queue' = Tail(queue) \o (IF rest = <<>> THEN <<>> ELSE <<TailOp(Head(rest), j)>>)
                                 \o (IF due /\ runs /\ v.status \in Live
                                     THEN <<DeadlineOp(v, j, late[j])>> ELSE <<>>)
         /\ late' = IF due THEN [late EXCEPT ![j] = "reported"] ELSE late
         /\ ahead' = [ahead EXCEPT ![j] = OneLess(@)]
         /\ Resume(j, op.kind, owned)
         /\ FinishIf(runs /\ v.status \in Terminal, j)
  /\ UNCHANGED <<lapsed, boots, hostVars>>

-----------------------------------------------------------------------------
\* The end of a run.

\* onDone and onError: once its callbacks are answered, the run is completed or
\* failed, unless the job has ended meanwhile.
BridgeReports(j) ==
  /\ Runs(j, "done") \/ Runs(j, "error")
  /\ tail[j] = <<>>
  /\ IF Over(j) THEN UNCHANGED queue
     ELSE queue' = Append(queue, By("run", IF bridge[j] = "done" THEN Complete(j, "whole")
                                           ELSE FailOp(job[j], j)))
  /\ FinishIf(Over(j), j)
  /\ BridgeAt(j, "reported")
  /\ UNCHANGED <<jobVars, hostVars, child, tail, late, ahead>>

\* The deadline armed by onStart fires, once, long after the child got its
\* prompt; with callbacks still unanswered it makes its call after them.
DeadlineFires(j) ==
  /\ stage[j] = "active" /\ health = "ready"
  /\ job[j].status \in {"running", "answer_ready"}
  /\ late[j] = "no" /\ bridge[j] # "spawned"
  /\ LET how == IF job[j].status = "answer_ready" THEN "complete" ELSE "fail"
     IN  IF tail[j] = <<>>
         THEN /\ queue' = Append(queue, DeadlineOp(job[j], j, how))
              /\ late' = [late EXCEPT ![j] = "reported"]
              /\ UNCHANGED ahead
         ELSE /\ late' = [late EXCEPT ![j] = how]
              /\ ahead' = [ahead EXCEPT ![j] = Len(tail[j])]
              /\ UNCHANGED queue
  /\ UNCHANGED <<jobVars, hostVars, lock, stage, bridge, child, tail>>

\* The store answered: a terminal job leaves the active map.  The deadline
\* aborts its run whatever the answer was.
EndAnswered ==
  /\ health = "ready" /\ queue # <<>> /\ Head(queue).by \in {"run", "deadline"}
  /\ LET op == Head(queue)
         j == op.job
     IN  /\ job' = Written(op)
         /\ FinishIf(stage[j] = "active" /\ Written(op)[j].status \in Terminal, j)
         /\ IF op.by = "deadline" THEN Abort(j) ELSE UNCHANGED <<child, bridge>>
  /\ queue' = Tail(queue)
  /\ UNCHANGED <<lapsed, boots, hostVars, tail, late, ahead>>

\* cancel(): refused on a finished or answered job, on the job as it is now.
Cancel(j) ==
  /\ health = "ready" /\ Len(queue) < MaxCalls /\ ~Pending("user", j)
  /\ job[j].status \in Live \ {"answer_ready"}
  /\ queue' = Append(queue, By("user", Do("canceled", j)))
  /\ UNCHANGED <<jobVars, hostVars, runVars>>

\* A canceled run is aborted and finished; a canceled job that waits finds out
\* when it tries to start.
CancelAnswered ==
  /\ health = "ready" /\ queue # <<>> /\ Head(queue).by = "user"
  /\ LET op == Head(queue)
         j == op.job
     IN  /\ job' = Written(op)
         /\ IF Verdict(op) /\ stage[j] = "active" THEN Finish(j) /\ Abort(j)
            ELSE UNCHANGED <<lock, stage, child, bridge>>
  /\ queue' = Tail(queue)
  /\ UNCHANGED <<lapsed, boots, hostVars, tail, late, ahead>>

-----------------------------------------------------------------------------
\* Graceful shutdown.

ShutdownBegins ==
  /\ health # "down" /\ shutting = "no"
  /\ boots < MaxBoots
  /\ shutting' = "draining"
  /\ UNCHANGED <<jobVars, health, draining, toStop, queue, runVars>>

\* Admissions in flight are answered; callbacks get a bounded time, no more.
ShutdownInterrupts ==
  /\ shutting = "draining"
  /\ \A i \in 1 .. Len(queue) : queue[i].by # "submit"
  /\ shutting' = "interrupting"
  /\ toStop' = {j \in Job : stage[j] = "active"}
  /\ UNCHANGED <<jobVars, health, draining, queue, runVars>>

\* One run after the other; interrupt() decides on the job as it reads it.
InterruptRun(j) ==
  /\ shutting = "interrupting" /\ health = "ready"
  /\ j \in toStop /\ \A i \in toStop : j <= i
  /\ ~Pending("shutdown", j)
  /\ IF Over(j)
     THEN /\ FinishIf(stage[j] = "active", j)
          /\ Abort(j)
          /\ toStop' = toStop \ {j}
          /\ UNCHANGED queue
     ELSE /\ queue' = Append(queue, By("shutdown", InterruptOp(job[j], j, "server_shutdown")))
          /\ UNCHANGED <<lock, stage, child, bridge, toStop>>
  /\ UNCHANGED <<jobVars, health, draining, shutting, tail, late, ahead>>

InterruptAnswered ==
  /\ health = "ready" /\ queue # <<>> /\ Head(queue).by = "shutdown"
  /\ LET op == Head(queue)
         j == op.job
     IN  /\ job' = Written(op)
         /\ toStop' = toStop \ {j}
         /\ IF Written(op)[j].status \in Terminal
            THEN FinishIf(stage[j] = "active", j) /\ Abort(j)
            ELSE UNCHANGED <<lock, stage, child, bridge>>
  /\ queue' = Tail(queue)
  /\ UNCHANGED <<lapsed, boots, health, draining, shutting, tail, late, ahead>>

-----------------------------------------------------------------------------
\* A broken journal, a crash, a boot.

\* An append fails, its row on the disk or not: nothing is written any more.
JournalBreaks ==
  /\ health = "ready" /\ queue # <<>>
  /\ health' = "degraded"
  /\ job' \in Cut(Head(queue))
  /\ queue' = <<>>
  /\ tail' = [j \in Job |-> <<>>]
  /\ UNCHANGED <<lapsed, boots, draining, shutting, toStop, lock, stage, bridge,
                 child, late, ahead>>

\* Each run finds out at its next write, and each start once it has the lock and
\* its lease, and is abandoned.
Abandon(j) ==
  /\ health = "degraded" /\ stage[j] # "none"
  /\ stage[j] = "waiting" => HoldsLock(j) /\ ~draining
  /\ Finish(j)
  /\ Abort(j)
  /\ toStop' = toStop \ {j}
  /\ UNCHANGED <<jobVars, health, draining, shutting, queue, tail, late, ahead>>

\* The process ends.  A child that has its prompt lives on without it.
Exit ==
  /\ health' = "down"
  /\ queue' = <<>>
  /\ draining' = FALSE /\ shutting' = "no" /\ toStop' = {}
  /\ lock' = [s \in Session |-> <<>>]
  /\ stage' = [j \in Job |-> "none"]
  /\ bridge' = [j \in Job |-> "off"]
  /\ child' = [j \in Job |-> IF child[j] = "idle" THEN "gone" ELSE child[j]]
  /\ tail' = [j \in Job |-> <<>>]
  /\ late' = [j \in Job |-> "no"]
  /\ ahead' = [j \in Job |-> 0]
  /\ UNCHANGED <<lapsed, boots>>

Crash ==
  /\ health # "down" /\ boots < MaxBoots
  /\ IF queue = <<>> THEN UNCHANGED job ELSE job' \in Cut(Head(queue))
  /\ Exit

ShutdownEnds ==
  /\ health # "down"
  /\ shutting = "interrupting" /\ toStop = {}
  /\ UNCHANGED job
  /\ Exit

\* What the boot makes of a job the last process left unfinished: one admitted
\* in the last hour and never started is kept, and started again.
Classified(j, kept) ==
  LET op == InterruptOp(job[j], j, "server_restarted")
  IN  CASE job[j].status \notin Live \/ j \in kept -> job[j]
        [] job[j].status = "answer_ready" -> Apply(job[j], Complete(j, "whole"))
        [] OTHER -> Apply(job[j], op)

\* The jobs of S in line, in the order of their first rows.
InOrder(line, S) ==
  /\ {line[i] : i \in DOMAIN line} = S
  /\ \A i, k \in DOMAIN line : i < k => line[i] < line[k]

Lines == UNION {[1 .. n -> Job] : n \in 0 .. MaxJobs}

\* The boot classifies every job and lines the kept ones up in journal order.
Boot ==
  /\ health = "down"
  /\ boots' = boots + 1
  /\ health' = "ready"
  /\ \E kept \in SUBSET {j \in Job : job[j].status = "accepted"} :
       /\ job' = [j \in Job |-> Classified(j, kept)]
       /\ lock' \in [Session -> Lines]
       /\ \A s \in Session : InOrder(lock'[s], {j \in kept : SessionOf(j) = s})
       /\ stage' = [j \in Job |-> IF j \in kept THEN "waiting" ELSE "none"]
  /\ UNCHANGED <<lapsed, queue, draining, shutting, toStop, bridge, child, tail, late, ahead>>

-----------------------------------------------------------------------------
\* The surroundings.

\* Update Server asks the maintenance gate to drain, and may give up.
Drain(on) ==
  /\ health = "ready" /\ shutting = "no" /\ draining = ~on
  /\ draining' = on
  /\ UNCHANGED <<jobVars, health, shutting, toStop, queue, runVars>>

\* A stopping child closes; a child whose server died comes to its own end.
ChildEnds(j) ==
  /\ child[j] = "stopping" \/ (child[j] = "prompted" /\ stage[j] # "active")
  /\ child' = [child EXCEPT ![j] = "gone"]
  /\ UNCHANGED <<jobVars, hostVars, queue, lock, stage, bridge, tail, late, ahead>>

\* The fence is over by the clock, 21 minutes after the interrupt, whatever the
\* child does.
FenceLapses(j) ==
  /\ job[j].fence /\ j \notin lapsed
  /\ lapsed' = lapsed \cup {j}
  /\ UNCHANGED <<job, boots, hostVars, queue, runVars>>

-----------------------------------------------------------------------------
Writer == \/ Admitted \/ StartAnswered \/ CallbackAnswered \/ EndAnswered
          \/ CancelAnswered \/ InterruptAnswered

Step(j) ==
  \/ MarkStarting(j) \/ Launch(j) \/ GiveUp(j)
  \/ Spawn(j) \/ ProviderAnswers(j) \/ ProviderCheckpoints(j) \/ RunFails(j) \/ PostDone(j)
  \/ BridgeReports(j) \/ DeadlineFires(j)
  \/ Cancel(j) \/ InterruptRun(j) \/ Abandon(j) \/ ChildEnds(j) \/ FenceLapses(j)

Next ==
  \/ \E r \in Request : Submit(r)
  \/ \E j \in Job : Step(j)
  \/ Writer \/ JournalBreaks
  \/ ShutdownBegins \/ ShutdownInterrupts \/ ShutdownEnds \/ Crash \/ Boot
  \/ \E on \in BOOLEAN : Drain(on)

Spec == Init /\ [][Next]_vars

\* The event loop runs what is queued and fires the deadlines; fences lapse by
\* the clock; Update Server gives up or restarts the process; a dead or
\* shut-down server is started again.  No child need ever end.
StepsFairly(j) ==
  /\ WF_vars(Launch(j)) /\ WF_vars(GiveUp(j)) /\ WF_vars(Spawn(j)) /\ WF_vars(PostDone(j))
  /\ WF_vars(BridgeReports(j)) /\ WF_vars(DeadlineFires(j))
  /\ WF_vars(InterruptRun(j)) /\ WF_vars(Abandon(j))
  /\ WF_vars(FenceLapses(j))
  /\ SF_vars(MarkStarting(j))

Fairness ==
  /\ WF_vars(Writer) /\ WF_vars(Boot)
  /\ WF_vars(ShutdownInterrupts) /\ WF_vars(ShutdownEnds)
  /\ WF_vars(Drain(FALSE))
  /\ \A j \in Job : StepsFairly(j)

FairSpec == Spec /\ Fairness

-----------------------------------------------------------------------------
(***************************************************************************)
(* Properties.                                                             *)
(***************************************************************************)

\* Every variable has its type: the deadline never waits for fewer callbacks than
\* none.
TypeOK ==
  /\ job \in [Job -> View] /\ lapsed \subseteq Job /\ boots \in Nat
  /\ health \in {"down", "ready", "degraded"} /\ draining \in BOOLEAN
  /\ shutting \in {"no", "draining", "interrupting"} /\ toStop \subseteq Job
  /\ queue \in Seq(Op)
  /\ lock \in [Session -> Seq(Job)] /\ stage \in [Job -> Stage]
  /\ bridge \in [Job -> Bridge] /\ child \in [Job -> Child]
  /\ tail \in [Job -> Seq({"running", "linkage", "partial", "checkpoint", "answer_ready"})]
  /\ late \in [Job -> {"no", "complete", "fail", "reported"}] /\ ahead \in [Job -> Nat]

SameSession(i, j) ==
  i # j /\ Exists(job, i) /\ Exists(job, j) /\ SessionOf(i) = SessionOf(j)

\* The child has the prompt and was not told to stop.
Works(j) == child[j] = "prompted"

\* The jobs whose session nothing keeps free for a child that still works, the
\* server that could stop it being gone:
\*   - canceled or failed: the row was durable before the child was told to stop,
\*     and the journal broke or the server died in between;
\*   - completed from a checkpoint: so too, or by a boot, which stamps no fence
\*     although the run was cut off;
\*   - interrupted by a shutdown which read the job before its ownership row;
\*   - interrupted and fenced, but the fence is over by the clock.
LeftUnfenced(j) ==
  \/ job[j].status \in {"canceled", "failed"}
  \/ job[j].status = "completed" /\ job[j].response = "checkpoint"
  \/ job[j].status = "interrupted" /\ job[j].cause = "server_shutdown" /\ ~job[j].fence
  \/ j \in lapsed

\* No two runs ever work on one session, unless one of them ended in a way that
\* leaves its session unfenced (LeftUnfenced lists them all): the lock keeps live
\* runs apart, and every other run that a shutdown, a broken journal, a crash or
\* a boot cuts off is fenced, also for the next process and the one after it.
OneRunPerSession ==
  \A i, j \in Job :
    SameSession(i, j) /\ Works(i) /\ Works(j) => LeftUnfenced(i) \/ LeftUnfenced(j)

\* A prompt reaches a child only while the journal says its job is running and
\* owned, and its run has not been ended.
PromptOnlyWhileOwned ==
  [][\A j \in Job : child[j] # "prompted" /\ child'[j] = "prompted"
       => job'[j].status = "running" /\ job'[j].owned /\ stage'[j] = "active"]_vars

\* Within a session, prompts start in the order they were admitted, also when a
\* restart lines them up again.
StartsInOrder ==
  [][\A i, j \in Job :
       /\ job[j].status = "accepted" /\ job'[j].status = "starting"
       /\ i < j /\ SameSession(i, j)
       => job[i].status # "accepted"]_vars

\* No admitted job is forgotten: while the server runs with a good journal, an
\* unfinished job is waiting in its session's line or is being run.
NoJobForgotten ==
  health = "ready" /\ shutting = "no" =>
    \A j \in Job :
      /\ job[j].status = "accepted" => /\ stage[j] \in {"waiting", "marking"}
                                       /\ \E i \in 1 .. Len(lock[SessionOf(j)]) : lock[SessionOf(j)][i] = j
      /\ job[j].status \in {"starting", "running", "answer_ready"} =>
           stage[j] \in {"started", "active"}

\* Every admitted prompt comes to an end, through holds, restarts and deadlines,
\* unless its journal broke.
AdmittedEnds ==
  \A j \in Job : job[j].status \in Live ~> (Over(j) \/ health = "degraded")
=============================================================================
