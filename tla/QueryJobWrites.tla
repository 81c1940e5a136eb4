---------------------------- MODULE QueryJobWrites ----------------------------
(***************************************************************************)
(* The writes of the durable query-job store                               *)
(* (server/lib/query-job-store.ts): what each operation asks the journal   *)
(* to append, and what the serialized writer checks, on the jobs it holds  *)
(* then, before it appends.                                                *)
(***************************************************************************)
EXTENDS Naturals, QueryJobReducer

CONSTANT MaxJobs      \* bound: jobs ever admitted

ASSUME RequestAssumption ==
  /\ NoRequest \notin Request
  /\ \A r \in Request : r.gen \in Nat

ASSUME MaxJobsAssumption == MaxJobs \in Nat

\* A jobId is a random UUID; jobs are numbered in the order of their first row.
Job == 1 .. MaxJobs

OpKind == {"none", "accepted", "partial", "checkpoint", "acknowledged", "linkage"} \cup Moves

\* Who waits for the answer: a caller of the store, the boot itself, or (in
\* QueryJobCoordinator) the part of a run that made the call.
Caller == {"caller", "boot", "submit", "start", "tail", "run", "deadline", "user", "shutdown"}

Op == [kind : OpKind, job : Job \cup {0}, req : Request \cup {NoRequest},
       response : Response, fence : BOOLEAN, cause : Cause, by : Caller]

Do(kind, j) == [kind |-> kind, job |-> j, req |-> NoRequest, response |-> "none",
                fence |-> FALSE, cause |-> "none", by |-> "caller"]

NoOp == Do("none", 0)

Admit(r) == [Do("accepted", 0) EXCEPT !.req = r]

Complete(j, text) == [Do("completed", j) EXCEPT !.response = text]

Interrupt(j, fenced, why) ==
  [Do("interrupted", j) EXCEPT !.fence = fenced, !.cause = why]

\* Slip: an interrupted job is never fenced.
InterruptOpUnfenced(v, j, why) ==
  IF v.checkpoint THEN Complete(j, "checkpoint")
  ELSE IF v.status = "answer_ready" THEN Complete(j, "whole")
  ELSE Interrupt(j, FALSE, why)

\* fail() and interrupt() decide on a snapshot v of job j, read before their
\* write is queued: a checkpoint or a durable answer completes the job, and an
\* interrupt stamps the orphan fence from the ownership v shows.
FailOp(v, j) ==
  IF v.checkpoint /\ v.status \notin Terminal THEN Complete(j, "checkpoint")
  ELSE IF v.status = "answer_ready" THEN Complete(j, "whole")
  ELSE Do("failed", j)

InterruptOp(v, j, why) ==
  IF v.checkpoint THEN Complete(j, "checkpoint")
  ELSE IF v.status = "answer_ready" THEN Complete(j, "whole")
  ELSE Interrupt(j, v.owned, why)

-----------------------------------------------------------------------------
\* What admit() checks of a request.

Exists(jobs, j) == jobs[j].status # "absent"

SameClient(jobs, j, r) == Exists(jobs, j) /\ jobs[j].req.client = r.client

Duplicate(jobs, r) == \E j \in Job : SameClient(jobs, j, r) /\ jobs[j].req.gen = r.gen

\* Slip: only a running generation keeps the next one out.
LineageRunning(jobs, r) == \E j \in Job : SameClient(jobs, j, r) /\ jobs[j].status = "running"

LineageBusy(jobs, r) == \E j \in Job : SameClient(jobs, j, r) /\ jobs[j].status \notin Terminal

OutOfOrder(jobs, r) == \E j \in Job : SameClient(jobs, j, r) /\ r.gen <= jobs[j].req.gen

\* A new job takes the next number; it exists only while the bound allows one.
Fresh(jobs, j) == ~Exists(jobs, j) /\ \A i \in Job : i < j => Exists(jobs, i)

\* Slip: the fence counts once it is over.
FencedTooLate(jobs, lapsed, s) ==
  \E k \in lapsed : jobs[k].status = "interrupted" /\ jobs[k].fence /\ jobs[k].req.session = s

\* sessionFenceUntil: an interrupted owner of session s may still be running.
\* `lapsed` are the jobs whose 21-minute fence is over.
Fenced(jobs, lapsed, s) ==
  \E k \in Job : /\ jobs[k].status = "interrupted"
                 /\ jobs[k].fence
                 /\ k \notin lapsed
                 /\ jobs[k].req.session = s

\* Whether the writer appends the row of op to the jobs it holds.
Accepts(jobs, lapsed, op) ==
  CASE op.kind = "accepted" ->
         ~Duplicate(jobs, op.req) /\ ~LineageBusy(jobs, op.req) /\ ~OutOfOrder(jobs, op.req)
    [] op.kind = "starting" ->
         jobs[op.job].status = "accepted" /\ ~Fenced(jobs, lapsed, jobs[op.job].req.session)
    [] op.kind \in {"partial", "linkage"} -> jobs[op.job].status \in Live
    [] op.kind = "checkpoint" -> jobs[op.job].status = "running"
    [] op.kind = "acknowledged" -> jobs[op.job].status \in Terminal /\ ~jobs[op.job].acked
    [] op.kind = "interrupted" /\ op.cause = "crash_loop_parked" -> jobs[op.job].status = "accepted"
    [] OTHER -> op.kind \in Allowed[jobs[op.job].status]
=============================================================================
