---------------------- MODULE QueryJobCoordinator_proofs ----------------------
(***************************************************************************)
(* Proofs about QueryJobCoordinator: its safety properties for every set   *)
(* of prompts, every number of jobs, waiting calls and boots, with and     *)
(* without steering.                                                       *)
(***************************************************************************)
EXTENDS QueryJobCoordinator, TLAPS

-----------------------------------------------------------------------------
(***************************************************************************)
(* Lemmas about the reducer and the writer.                                *)
(***************************************************************************)

\* A job without a row, and one with its first row, are jobs.
LEMMA NewJobType ==
  /\ AbsentJob \in View
  /\ \A r \in Request : NewJob(r) \in View
<1>1. AbsentJob \in View
  BY DEF AbsentJob, View, Status, Response, Cause
<1>2. QED BY <1>1 DEF NewJob, View, Status, Live

\* What one row does to a job: it keeps its prompt; a finished job keeps its end; only
\* a first row creates one; and the status moves along Allowed to the row's kind,
\* or not at all.
LEMMA ApplyEffect ==
  ASSUME NEW v \in View, NEW op \in Op, op.kind # "accepted"
  PROVE  /\ Apply(v, op) \in View
         /\ Apply(v, op).req = v.req
         /\ v.status = "absent" => Apply(v, op) = v
         /\ v.owned => Apply(v, op).owned
         /\ \/ /\ op.kind \in Moves /\ op.kind \in Allowed[v.status]
               /\ Apply(v, op).status = op.kind
               /\ Apply(v, op).fence = op.fence /\ Apply(v, op).cause = op.cause
               /\ Apply(v, op).checkpoint = v.checkpoint /\ Apply(v, op).owned = v.owned
               /\ Apply(v, op).response = op.response
            \/ /\ ~(op.kind \in Moves /\ op.kind \in Allowed[v.status])
               /\ Apply(v, op).status = v.status
               /\ Apply(v, op).fence = v.fence /\ Apply(v, op).cause = v.cause
               /\ v.status \in Terminal => Apply(v, op).owned = v.owned
               /\ Apply(v, op).checkpoint => v.checkpoint \/ op.kind = "checkpoint"
               /\ op.kind = "linkage" /\ v.status \in Live => Apply(v, op).owned
<1>1. CASE op.kind = "checkpoint"
  <2>1. Apply(v, op) = IF v.status # "absent" THEN [v EXCEPT !.checkpoint = TRUE] ELSE v
    BY <1>1 DEF Apply, Moves, Terminal
  <2>2. QED BY <1>1, <2>1 DEF View, Moves, Terminal
<1>2. CASE op.kind = "acknowledged"
  <2>1. Apply(v, op) = IF v.status # "absent" THEN [v EXCEPT !.acked = TRUE] ELSE v
    BY <1>2 DEF Apply, Moves, Terminal
  <2>2. QED BY <1>2, <2>1 DEF View, Moves, Terminal
<1>3. CASE op.kind = "linkage"
  <2>1. Apply(v, op) = IF v.status \in Live THEN [v EXCEPT !.owned = TRUE] ELSE v
    BY <1>3 DEF Apply, Moves, Terminal
  <2>2. QED BY <1>3, <2>1 DEF View, Moves, Terminal, Live
<1>4. CASE op.kind \in Moves /\ op.kind \in Allowed[v.status]
  <2>1. Apply(v, op) = [v EXCEPT !.status = op.kind, !.response = op.response,
                                 !.fence = op.fence, !.cause = op.cause]
    BY <1>4 DEF Apply, Moves, Terminal
  <2>2. v.status # "absent" /\ op.kind \in Status
    BY <1>4 DEF Allowed, Moves, Terminal, Status, Live
  <2>3. QED BY <1>4, <2>1, <2>2 DEF View, Op
<1>5. CASE /\ op.kind \notin {"checkpoint", "acknowledged", "linkage"}
           /\ ~(op.kind \in Moves /\ op.kind \in Allowed[v.status])
  <2>1. Apply(v, op) = v
    BY <1>5 DEF Apply
  <2>2. QED BY <1>5, <2>1
<1>6. QED BY <1>1, <1>2, <1>3, <1>4, <1>5

\* A finished job is finished for good, and no row starts one that is not accepted.
LEMMA AllowedFacts ==
  ASSUME NEW s \in Status
  PROVE  /\ s \in Terminal => Allowed[s] = {}
         /\ "accepted" \notin Allowed[s] /\ "absent" \notin Allowed[s]
         /\ "starting" \in Allowed[s] => s = "accepted"
         /\ \A t \in {"running", "answer_ready", "completed"} : t \in Allowed[s] => s # "accepted"
         /\ s = "running" => Allowed[s] \subseteq {"answer_ready"} \cup Terminal
         /\ s = "answer_ready" => Allowed[s] = {"completed"}
  BY DEF Allowed, Status, Live, Terminal

-----------------------------------------------------------------------------
(***************************************************************************)
(* The inductive invariant of the start: the queue, the lines, the stages. *)
(***************************************************************************)

TailKind == {"running", "linkage", "partial", "checkpoint", "answer_ready"}

\* An operation is of a kind its caller makes, and only an interrupt stamps a fence.
Fits(op) ==
  /\ op.fence => op.kind = "interrupted"
  /\ \/ op.by = "submit" /\ op.kind = "accepted" /\ op.req \in Request /\ op.cause = "none"
     \/ /\ op.job \in Job
        /\ \/ op.by = "start" /\ op.kind = "starting" /\ op.cause = "none"
           \/ op.by = "tail" /\ op.kind \in TailKind /\ op.cause = "none"
           \/ op.by \in {"run", "deadline"} /\ op.kind \in {"completed", "failed"} /\ op.cause = "none"
           \/ op.by = "user" /\ op.kind = "canceled" /\ op.cause = "none"
           \/ op.by = "shutdown" /\ op.kind = "completed" /\ op.cause = "none"
           \/ op.by = "shutdown" /\ op.kind = "interrupted" /\ op.cause = "server_shutdown"

\* The job's start is still under way, its callback still on the tail, its run still
\* on or the job finished.
Pledge(op) ==
  /\ op.by = "start" => stage[op.job] = "marking"
  /\ op.by = "tail" => tail[op.job] # <<>>
  /\ op.by \in {"tail", "run", "deadline", "shutdown"} => stage[op.job] = "active" \/ Over(op.job)

\* Two starts, or two callbacks, of one job.
Alike(op1, op2) ==
  op1.by \in {"start", "tail"} /\ op2.by = op1.by /\ op2.job = op1.job

\* Operations that fit their callers; of a job's start, and of its callbacks, at most
\* one waits for the writer.
Sane(q) ==
  /\ \A i \in 1 .. Len(q) : Fits(q[i])
  /\ \A i, k \in 1 .. Len(q) : Alike(q[i], q[k]) => i = k

Ops(q) == {q[i] : i \in 1 .. Len(q)}

Pledged == \A op \in Ops(queue) : Pledge(op)

\* A store that is not ready writes nothing; a process that is gone runs nothing.
Quiet ==
  /\ health # "ready" => queue = <<>>
  /\ health = "down" => /\ lock = [s \in Session |-> <<>>] /\ stage = [j \in Job |-> "none"]
                        /\ bridge = [j \in Job |-> "off"]

\* Jobs are numbered in the order of their first rows, and each has its prompt.
Numbered ==
  \A i, j \in Job : Exists(job, j) => job[j].req \in Request /\ (i < j => Exists(job, i))

\* Jobs line up in the order they were admitted.
Ordered ==
  \A s \in Session : \A a, b \in 1 .. Len(lock[s]) : a < b => lock[s][a] < lock[s][b]

\* Who is in a line belongs there.
Members ==
  \A s \in Session : \A a \in 1 .. Len(lock[s]) :
    Exists(job, lock[s][a]) /\ SessionOf(lock[s][a]) = s /\ stage[lock[s][a]] # "none"

\* A job that execute() has not returned for is in its session's line.
InItsLine ==
  \A j \in Job : stage[j] # "none" =>
    /\ Exists(job, j)
    /\ \E a \in 1 .. Len(lock[SessionOf(j)]) : lock[SessionOf(j)][a] = j

AheadOfAll(j) == Len(lock[SessionOf(j)]) > 0 /\ lock[SessionOf(j)][1] = j

\* From the call of markStarting on, it holds the lock.
AtHead == \A j \in Job : stage[j] \in {"marking", "started", "active"} => AheadOfAll(j)

\* How far execute() got, the journal got.
StageFits ==
  \A j \in Job :
    /\ health = "ready" /\ stage[j] \in {"waiting", "marking"} => job[j].status = "accepted" \/ Over(j)
    /\ stage[j] = "started" => job[j].status = "starting" \/ Over(j)
    /\ stage[j] = "active" => job[j].status \notin {"absent", "accepted"}

\* The shutdown interrupts runs.
Stopping == \A j \in toStop : stage[j] = "active" \/ Over(j)

Line == Ordered /\ Members /\ InItsLine /\ AtHead

IInv ==
  /\ TypeOK /\ Sane(queue) /\ Pledged /\ Quiet /\ Numbered /\ Line /\ StageFits /\ Stopping

-----------------------------------------------------------------------------
(***************************************************************************)
(* What a step does to the jobs.                                           *)
(***************************************************************************)

\* A row the writer takes for a job it moves.
LEMMA AcceptedMove ==
  ASSUME NEW op \in Op, Fits(op), job \in [Job -> View], Verdict(op), op.kind \in Moves
  PROVE  op.job \in Job /\ op.kind \in Allowed[job[op.job].status]
<1>1. op.job \in Job /\ op.cause # "crash_loop_parked"
  BY DEF Fits, Moves, Terminal
<1>2. CASE op.kind = "starting"
  BY <1>1, <1>2 DEF Verdict, Accepts, Allowed
<1>3. CASE op.kind # "starting"
  BY <1>1, <1>3 DEF Verdict, Accepts, Moves, Terminal
<1>4. QED BY <1>1, <1>2, <1>3

\* What the journal says of a job after the row of op.
LEMMA WrittenEffect ==
  ASSUME NEW op \in Op, Fits(op), job \in [Job -> View], NEW k \in Job
  PROVE  /\ Written(op) \in [Job -> View]
         /\ Written(op)[k].req = job[k].req
         /\ job[k].status = "absent" => Written(op)[k].status = "absent"
         /\ Over(k) => Written(op)[k].status = job[k].status
         /\ \/ Written(op)[k].status = job[k].status
            \/ /\ k = op.job /\ Verdict(op) /\ op.kind \in Moves
               /\ op.kind \in Allowed[job[k].status] /\ Written(op)[k].status = op.kind
         /\ Verdict(op) /\ op.kind \in Moves => Written(op)[op.job].status = op.kind
<1>1. CASE op.kind = "accepted" \/ ~Verdict(op)
  BY <1>1 DEF Written, Moves, Terminal
<1>2. CASE op.kind # "accepted" /\ Verdict(op)
  <2>1. /\ op.job \in Job /\ Written(op) = [job EXCEPT ![op.job] = Apply(job[op.job], op)]
        /\ job[op.job] \in View /\ job[op.job].status \in Status
    BY <1>2 DEF Fits, Written, View
  <2>2. Apply(job[op.job], op) \in View
    BY <1>2, <2>1, ApplyEffect
  <2>3. op.kind \in Moves => op.kind \in Allowed[job[op.job].status]
    BY <1>2, AcceptedMove
  <2>4. CASE k = op.job
    <3>1. Written(op)[k] = Apply(job[k], op)
      BY <2>1, <2>4
    <3>2. job[k].status \in Terminal => Allowed[job[k].status] = {}
      BY <2>1, <2>4, AllowedFacts
    <3>3. /\ Apply(job[k], op).req = job[k].req
          /\ job[k].status = "absent" => Apply(job[k], op) = job[k]
          /\ \/ /\ op.kind \in Moves /\ op.kind \in Allowed[job[k].status]
                /\ Apply(job[k], op).status = op.kind
             \/ /\ ~(op.kind \in Moves /\ op.kind \in Allowed[job[k].status])
                /\ Apply(job[k], op).status = job[k].status
      BY <1>2, <2>1, <2>4, ApplyEffect
    <3>4. QED BY <1>2, <2>1, <2>2, <2>3, <2>4, <3>1, <3>2, <3>3 DEF Over
  <2>5. CASE k # op.job
    <3>1. Written(op)[k] = job[k] /\ Written(op)[op.job] = Apply(job[op.job], op)
      BY <2>1, <2>5
    <3>2. op.kind \in Moves => Apply(job[op.job], op).status = op.kind
      BY <1>2, <2>1, <2>3, ApplyEffect
    <3>3. QED BY <2>1, <2>2, <3>1, <3>2
  <2>6. QED BY <2>4, <2>5
<1>3. QED BY <1>1, <1>2

\* An existing job stays, with its prompt, and a finished one stays finished.
Onward ==
  /\ job' \in [Job -> View]
  /\ \A k \in Job : /\ Exists(job, k) => Exists(job', k) /\ job'[k].req = job[k].req
                    /\ Over(k) => Over(k)'

\* A step that leaves the journal alone is one.
LEMMA OnwardStays ==
  ASSUME TypeOK, UNCHANGED job PROVE Onward /\ (Numbered => Numbered')
  BY DEF TypeOK, Onward, Exists, Over, Numbered

\* So is the row of the head operation.
LEMMA OnwardWritten ==
  ASSUME TypeOK, Numbered, NEW op \in Op, Fits(op), job' = Written(op)
  PROVE  Onward /\ Numbered'
<1>1. job \in [Job -> View]
  BY DEF TypeOK
<1>2. \A k \in Job : /\ job' \in [Job -> View] /\ job'[k].req = job[k].req
                     /\ job[k].status = "absent" => job'[k].status = "absent"
                     /\ Over(k) => job'[k].status = job[k].status
                     /\ \/ job'[k].status = job[k].status
                        \/ job'[k].status = op.kind /\ op.kind \in Allowed[job[k].status]
  BY <1>1, WrittenEffect
<1>3. \A k \in Job : job[k].status = "absent" <=> job'[k].status = "absent"
  <2>1. \A k \in Job : job[k].status \in Status
    BY <1>1 DEF View
  <2>2. QED BY <1>2, <2>1, AllowedFacts
<1>4. Onward
  <2>1. CASE Job = {}
    BY <2>1, <1>1 DEF Onward, Written
  <2>2. CASE Job # {}
    BY <1>2, <1>3, <2>2 DEF Onward, Exists, Over
  <2>3. QED BY <2>1, <2>2
<1>5. Numbered'
  BY <1>2, <1>3 DEF Numbered, Exists
<1>6. QED BY <1>4, <1>5

\* And a first row.
LEMMA OnwardCreated ==
  ASSUME TypeOK, Numbered, NEW r \in Request, NEW j \in Job, Fresh(job, j),
         job' = [job EXCEPT ![j] = NewJob(r)]
  PROVE  Onward /\ Numbered' /\ Exists(job', j) /\ job'[j].req = r /\ job'[j].status = "accepted"
<1>1. job \in [Job -> View] /\ NewJob(r) \in View
  BY NewJobType DEF TypeOK
<1>2. NewJob(r).status = "accepted" /\ NewJob(r).req = r
  BY DEF NewJob, AbsentJob
<1>3. /\ job' \in [Job -> View] /\ job'[j] = NewJob(r)
      /\ \A k \in Job \ {j} : job'[k] = job[k]
  BY <1>1
<1>4. ~Exists(job, j) /\ ~Over(j) /\ \A i \in Job : i < j => Exists(job, i)
  BY DEF Fresh, Exists, Over, Terminal
<1>5. Onward
  BY <1>2, <1>3, <1>4 DEF Onward, Exists, Over
<1>6. ASSUME NEW i \in Job, NEW k \in Job, Exists(job', k)
      PROVE  job'[k].req \in Request /\ (i < k => Exists(job', i))
  <2>1. CASE k = j
    BY <1>2, <1>3, <1>4, <2>1 DEF Exists
  <2>2. CASE k # j
    <3>1. Exists(job, k)
      BY <1>3, <1>6, <2>2 DEF Exists
    <3>2. job[k].req \in Request /\ (i < k => Exists(job, i))
      BY <3>1 DEF Numbered
    <3>3. QED BY <1>3, <1>5, <2>2, <3>2 DEF Onward
  <2>3. QED BY <2>1, <2>2
<1>7. Numbered'
  BY <1>6 DEF Numbered, Exists
<1>8. QED BY <1>2, <1>3, <1>5, <1>7 DEF Exists

\* And whatever is left of an append that was cut.
LEMMA OnwardCut ==
  ASSUME TypeOK, Numbered, NEW op \in Op, Fits(op), job' \in Cut(op)
  PROVE  Onward /\ Numbered'
<1>1. CASE job' = job
  BY <1>1, OnwardStays
<1>2. CASE job' = Written(op)
  BY <1>2, OnwardWritten
<1>3. ASSUME NEW j \in Created(op), job' = [job EXCEPT ![j] = NewJob(op.req)]
      PROVE  Onward /\ Numbered'
  <2>1. j \in Job /\ Fresh(job, j) /\ op.req \in Request
    BY DEF Created, Fits, TailKind
  <2>2. QED BY <1>3, <2>1, OnwardCreated
<1>4. QED BY <1>1, <1>2, <1>3 DEF Cut

-----------------------------------------------------------------------------
(***************************************************************************)
(* What a step does to the lines.                                          *)
(***************************************************************************)

\* The stages of a start that needs the lock.
Holding == {"marking", "started", "active"}

\* A job in a line has a session, and a line of it.
LEMMA LineOf ==
  ASSUME TypeOK, Numbered, InItsLine, NEW j \in Job, stage[j] # "none"
  PROVE  /\ Exists(job, j) /\ SessionOf(j) \in Session
         /\ lock[SessionOf(j)] \in Seq(Job)
         /\ \E a \in 1 .. Len(lock[SessionOf(j)]) : lock[SessionOf(j)][a] = j
         /\ Len(lock[SessionOf(j)]) > 0
<1>1. Exists(job, j) /\ \E a \in 1 .. Len(lock[SessionOf(j)]) : lock[SessionOf(j)][a] = j
  BY DEF InItsLine
<1>2. SessionOf(j) \in Session
  BY <1>1 DEF Numbered, SessionOf, Session
<1>3. lock[SessionOf(j)] \in Seq(Job)
  BY <1>2 DEF TypeOK
<1>4. Len(lock[SessionOf(j)]) > 0
  BY <1>1, <1>3
<1>5. QED BY <1>1, <1>2, <1>3, <1>4

\* So the holder of a lock is the first in its line.
LEMMA HolderIsFirst ==
  ASSUME TypeOK, Numbered, InItsLine, NEW j \in Job, HoldsLock(j)
  PROVE  AheadOfAll(j)
<1>1. stage[j] # "none"
  BY DEF HoldsLock
<1>2. lock[SessionOf(j)] \in Seq(Job) /\ Len(lock[SessionOf(j)]) > 0
  BY <1>1, LineOf
<1>3. QED BY <1>2 DEF HoldsLock, AheadOfAll

\* Of two jobs of a session, only one is ahead.
LEMMA OneAhead ==
  ASSUME NEW i \in Job, NEW j \in Job, SessionOf(i) = SessionOf(j), AheadOfAll(i), AheadOfAll(j)
  PROVE  i = j
  BY DEF AheadOfAll

\* Nobody joins or leaves a line: only who is ahead may get the lock.
LEMMA LineStays ==
  ASSUME TypeOK, Line, Onward, UNCHANGED lock,
         \A j \in Job : stage'[j] = "none" <=> stage[j] = "none",
         \A j \in Job : stage'[j] \in Holding => stage[j] \in Holding \/ AheadOfAll(j)
  PROVE  Line'
<1>1. \A j \in Job : stage[j] # "none" => Exists(job', j) /\ SessionOf(j)' = SessionOf(j)
  BY DEF Line, InItsLine, Onward, SessionOf
<1>2. \A s \in Session : \A a \in 1 .. Len(lock[s]) : lock[s][a] \in Job
  BY DEF TypeOK
<1>3. Ordered'
  BY DEF Line, Ordered
<1>4. Members'
  BY <1>1, <1>2 DEF Line, Members, Exists
<1>5. InItsLine'
  BY <1>1 DEF Line, InItsLine, Exists
<1>6. AtHead'
  <2>1. ASSUME NEW j \in Job, stage'[j] \in Holding PROVE AheadOfAll(j)'
    <3>1. AheadOfAll(j)
      BY <2>1 DEF Line, AtHead, Holding
    <3>2. stage[j] # "none"
      BY <2>1 DEF Holding
    <3>3. QED BY <1>1, <3>1, <3>2 DEF AheadOfAll
  <2>2. QED BY <2>1 DEF AtHead, Holding
<1>7. QED BY <1>3, <1>4, <1>5, <1>6 DEF Line

\* The lock passes from the first job of a line to the second.
LEMMA LinePasses ==
  ASSUME TypeOK, Numbered, Line, Onward,
         NEW j \in Job, stage[j] # "none", AheadOfAll(j), Finish(j)
  PROVE  Line' /\ lock' \in [Session -> Seq(Job)] /\ stage' \in [Job -> Stage] /\ stage'[j] = "none"
<1> DEFINE s == SessionOf(j)
           old == lock[s]
<1>1. /\ s \in Session /\ old \in Seq(Job) /\ Len(old) > 0 /\ old[1] = j
      /\ lock \in [Session -> Seq(Job)] /\ stage \in [Job -> Stage]
      /\ lock' = [lock EXCEPT ![s] = Tail(old)] /\ stage' = [stage EXCEPT ![j] = "none"]
  BY LineOf DEF TypeOK, Line, AheadOfAll, Finish, Unlock
<1>2. /\ Tail(old) \in Seq(Job) /\ Len(Tail(old)) = Len(old) - 1
      /\ \A a \in 1 .. Len(Tail(old)) : Tail(old)[a] = old[a + 1] /\ a + 1 \in 1 .. Len(old)
      /\ \A a \in 1 .. Len(old) : a # 1 => a - 1 \in 1 .. Len(Tail(old)) /\ Tail(old)[a - 1] = old[a]
  BY <1>1
<1>3. /\ lock' \in [Session -> Seq(Job)] /\ stage' \in [Job -> Stage] /\ stage'[j] = "none"
      /\ lock'[s] = Tail(old) /\ \A t \in Session \ {s} : lock'[t] = lock[t]
      /\ \A i \in Job \ {j} : stage'[i] = stage[i]
  BY <1>1, <1>2 DEF Stage
<1>4. \A i \in Job : stage[i] # "none" => /\ Exists(job', i) /\ SessionOf(i)' = SessionOf(i)
                                          /\ SessionOf(i) \in Session
  <2>1. \A i \in Job : stage[i] # "none" => Exists(job, i) /\ SessionOf(i) \in Session
    BY LineOf DEF Line
  <2>2. QED BY <2>1 DEF Onward, SessionOf
<1>5. \A a \in 1 .. Len(Tail(old)) : Tail(old)[a] # j
  <2>1. ASSUME NEW a \in 1 .. Len(Tail(old)) PROVE Tail(old)[a] # j
    <3>1. 1 \in 1 .. Len(old) /\ a + 1 \in 1 .. Len(old) /\ 1 < a + 1
      BY <1>1, <1>2
    <3>2. old[1] < old[a + 1]
      BY <1>1, <3>1 DEF Line, Ordered
    <3>3. j < Tail(old)[a] /\ j \in Nat
      BY <1>1, <1>2, <3>2 DEF Job
    <3>4. QED BY <3>3
  <2>2. QED BY <2>1
<1>6. Ordered'
  <2>1. ASSUME NEW t \in Session, NEW a \in 1 .. Len(lock'[t]), NEW b \in 1 .. Len(lock'[t]), a < b
        PROVE  lock'[t][a] < lock'[t][b]
    <3>1. CASE t = s
      <4>1. /\ Tail(old)[a] = old[a + 1] /\ Tail(old)[b] = old[b + 1] /\ a + 1 < b + 1
            /\ a + 1 \in 1 .. Len(old) /\ b + 1 \in 1 .. Len(old)
        BY <1>2, <1>3, <2>1, <3>1
      <4>2. old[a + 1] < old[b + 1]
        BY <1>1, <4>1 DEF Line, Ordered
      <4>3. QED BY <1>3, <3>1, <4>1, <4>2
    <3>2. CASE t # s
      BY <1>3, <2>1, <3>2 DEF Line, Ordered
    <3>3. QED BY <3>1, <3>2
  <2>2. QED BY <2>1 DEF Ordered
<1>7. Members'
  <2>1. ASSUME NEW t \in Session, NEW a \in 1 .. Len(lock'[t])
        PROVE  /\ Exists(job', lock'[t][a]) /\ job'[lock'[t][a]].req.session = t
               /\ stage'[lock'[t][a]] # "none"
    <3>1. PICK b \in 1 .. Len(lock[t]) : lock'[t][a] = lock[t][b] /\ lock[t][b] \in Job
      <4>1. CASE t = s
        BY <1>1, <1>2, <1>3, <2>1, <4>1
      <4>2. CASE t # s
        BY <1>1, <1>3, <2>1, <4>2
      <4>3. QED BY <4>1, <4>2
    <3>2. SessionOf(lock[t][b]) = t /\ stage[lock[t][b]] # "none"
      BY DEF Line, Members
    <3>3. lock[t][b] # j
      <4>1. CASE t = s
        BY <1>3, <1>5, <2>1, <3>1, <4>1
      <4>2. CASE t # s
        BY <3>2, <4>2
      <4>3. QED BY <4>1, <4>2
    <3>4. QED BY <1>3, <1>4, <3>1, <3>2, <3>3 DEF SessionOf
  <2>2. QED BY <2>1 DEF Members, SessionOf
<1>8. InItsLine'
  <2>1. ASSUME NEW i \in Job, stage'[i] # "none"
        PROVE  \E a \in 1 .. Len(lock'[SessionOf(i)]) : lock'[SessionOf(i)][a] = i
    <3>1. i # j /\ stage[i] # "none"
      BY <1>3, <2>1
    <3>2. PICK a \in 1 .. Len(lock[SessionOf(i)]) : lock[SessionOf(i)][a] = i
      BY <3>1 DEF Line, InItsLine
    <3>3. CASE SessionOf(i) = s
      <4>1. a # 1
        BY <1>1, <3>1, <3>2, <3>3
      <4>2. a - 1 \in 1 .. Len(lock'[s]) /\ lock'[s][a - 1] = i
        BY <1>2, <1>3, <3>2, <3>3, <4>1
      <4>3. QED BY <3>3, <4>2
    <3>4. CASE SessionOf(i) # s
      BY <1>3, <1>4, <3>1, <3>2, <3>4
    <3>5. QED BY <3>3, <3>4
  <2>2. ASSUME NEW i \in Job, stage'[i] # "none" PROVE Exists(job', i) /\ SessionOf(i)' = SessionOf(i)
    BY <1>3, <1>4, <2>2
  <2>3. QED BY <2>1, <2>2 DEF InItsLine
<1>9. AtHead'
  <2>1. ASSUME NEW i \in Job, stage'[i] \in Holding PROVE AheadOfAll(i)'
    <3>1. i # j /\ stage[i] \in Holding /\ stage[i] # "none" /\ AheadOfAll(i)
      BY <1>3, <2>1 DEF Holding, Line, AtHead
    <3>2. SessionOf(i) # s
      BY <3>1, OneAhead
    <3>3. QED BY <1>3, <1>4, <3>1, <3>2 DEF AheadOfAll
  <2>2. QED BY <2>1 DEF AtHead, Holding
<1>10. QED BY <1>3, <1>6, <1>7, <1>8, <1>9 DEF Line

\* A new job joins the end of its line.
LEMMA LineGrows ==
  ASSUME TypeOK, Numbered, Line, Onward, NEW r \in Request, NEW j \in Job, Fresh(job, j),
         Exists(job', j), job'[j].req = r,
         lock' = [lock EXCEPT ![r.session] = Append(@, j)],
         stage' = [stage EXCEPT ![j] = "waiting"]
  PROVE  Line' /\ lock' \in [Session -> Seq(Job)] /\ stage' \in [Job -> Stage]
<1> DEFINE s == r.session
           old == lock[s]
<1>1. /\ s \in Session /\ old \in Seq(Job)
      /\ lock \in [Session -> Seq(Job)] /\ stage \in [Job -> Stage]
  BY DEF TypeOK, Session
<1>2. /\ Append(old, j) \in Seq(Job) /\ Len(Append(old, j)) = Len(old) + 1
      /\ Append(old, j)[Len(old) + 1] = j
      /\ \A a \in 1 .. Len(old) : Append(old, j)[a] = old[a] /\ a \in 1 .. Len(Append(old, j))
      /\ \A a \in 1 .. Len(Append(old, j)) : a \in 1 .. Len(old) \/ a = Len(old) + 1
      /\ Len(old) + 1 \in 1 .. Len(Append(old, j)) /\ Len(old) \in Nat
  BY <1>1
<1>3. /\ lock' \in [Session -> Seq(Job)] /\ stage' \in [Job -> Stage] /\ stage'[j] = "waiting"
      /\ lock'[s] = Append(old, j) /\ \A t \in Session \ {s} : lock'[t] = lock[t]
      /\ \A i \in Job \ {j} : stage'[i] = stage[i]
  BY <1>1, <1>2 DEF Stage
<1>4. ~Exists(job, j) /\ stage[j] = "none"
  BY DEF Fresh, Line, InItsLine
<1>5. \A i \in Job : stage[i] # "none" => /\ Exists(job', i) /\ SessionOf(i)' = SessionOf(i)
                                          /\ SessionOf(i) \in Session /\ i # j
  <2>1. \A i \in Job : stage[i] # "none" => Exists(job, i) /\ SessionOf(i) \in Session
    BY LineOf DEF Line
  <2>2. QED BY <1>4, <2>1 DEF Onward, SessionOf
<1>6. SessionOf(j)' = s
  BY DEF SessionOf
<1>7. Ordered'
  <2>1. ASSUME NEW t \in Session, NEW a \in 1 .. Len(lock'[t]), NEW b \in 1 .. Len(lock'[t]), a < b
        PROVE  lock'[t][a] < lock'[t][b]
    <3>1. CASE t = s /\ b = Len(old) + 1
      <4>1. a \in 1 .. Len(old) /\ lock'[t][a] = old[a] /\ lock'[t][b] = j
        BY <1>2, <1>3, <2>1, <3>1
      <4>2. Exists(job, old[a]) /\ old[a] \in Job
        BY <1>1, <4>1 DEF Line, Members
      <4>3. ~(j < old[a]) /\ old[a] # j
        BY <1>4, <4>2 DEF Numbered
      <4>4. QED BY <4>1, <4>2, <4>3 DEF Job
    <3>2. CASE t = s /\ b # Len(old) + 1
      <4>1. /\ a \in 1 .. Len(old) /\ b \in 1 .. Len(old)
            /\ lock'[t][a] = old[a] /\ lock'[t][b] = old[b]
        BY <1>2, <1>3, <2>1, <3>2
      <4>2. QED BY <1>1, <2>1, <4>1 DEF Line, Ordered
    <3>3. CASE t # s
      BY <1>3, <2>1, <3>3 DEF Line, Ordered
    <3>4. QED BY <3>1, <3>2, <3>3
  <2>2. QED BY <2>1 DEF Ordered
<1>8. Members'
  <2>1. ASSUME NEW t \in Session, NEW a \in 1 .. Len(lock'[t])
        PROVE  /\ Exists(job', lock'[t][a]) /\ job'[lock'[t][a]].req.session = t
               /\ stage'[lock'[t][a]] # "none"
    <3>1. CASE t = s /\ a = Len(old) + 1
      BY <1>2, <1>3, <3>1
    <3>2. CASE ~(t = s /\ a = Len(old) + 1)
      <4>1. /\ a \in 1 .. Len(lock[t]) /\ lock'[t][a] = lock[t][a] /\ lock[t][a] \in Job
        <5>1. CASE t = s
          BY <1>1, <1>2, <1>3, <2>1, <3>2, <5>1
        <5>2. CASE t # s
          BY <1>1, <1>3, <2>1, <5>2
        <5>3. QED BY <5>1, <5>2
      <4>2. SessionOf(lock[t][a]) = t /\ stage[lock[t][a]] # "none"
        BY <4>1 DEF Line, Members
      <4>3. QED BY <1>3, <1>5, <4>1, <4>2 DEF SessionOf
    <3>3. QED BY <3>1, <3>2
  <2>2. QED BY <2>1 DEF Members, SessionOf
<1>9. InItsLine'
  <2>1. ASSUME NEW i \in Job, stage'[i] # "none"
        PROVE  /\ Exists(job', i)
               /\ \E a \in 1 .. Len(lock'[SessionOf(i)']) : lock'[SessionOf(i)'][a] = i
    <3>1. CASE i = j
      BY <1>2, <1>3, <1>6, <3>1
    <3>2. CASE i # j
      <4>1. stage[i] # "none"
        BY <1>3, <2>1, <3>2
      <4>2. PICK a \in 1 .. Len(lock[SessionOf(i)]) : lock[SessionOf(i)][a] = i
        BY <4>1 DEF Line, InItsLine
      <4>3. a \in 1 .. Len(lock'[SessionOf(i)]) /\ lock'[SessionOf(i)][a] = i
        BY <1>2, <1>3, <1>5, <4>1, <4>2
      <4>4. QED BY <1>5, <4>1, <4>3
    <3>3. QED BY <3>1, <3>2
  <2>2. QED BY <2>1 DEF InItsLine
<1>10. AtHead'
  <2>1. ASSUME NEW i \in Job, stage'[i] \in Holding PROVE AheadOfAll(i)'
    <3>1. i # j /\ stage[i] \in Holding /\ stage[i] # "none" /\ AheadOfAll(i)
      BY <1>3, <2>1 DEF Holding, Line, AtHead
    <3>2. SessionOf(i)' = SessionOf(i) /\ SessionOf(i) \in Session
      BY <1>5, <3>1
    <3>3. Len(lock'[SessionOf(i)]) > 0 /\ lock'[SessionOf(i)][1] = lock[SessionOf(i)][1]
      BY <1>1, <1>2, <1>3, <3>1, <3>2 DEF AheadOfAll
    <3>4. QED BY <3>1, <3>2, <3>3 DEF AheadOfAll
  <2>2. QED BY <2>1 DEF AtHead, Holding
<1>11. QED BY <1>3, <1>7, <1>8, <1>9, <1>10 DEF Line

-----------------------------------------------------------------------------
(***************************************************************************)
(* What a step does to the queue.                                          *)
(***************************************************************************)

\* The head leaves: what is behind it is as it was, and not like it.
LEMMA SaneTail ==
  ASSUME NEW q \in Seq(Op), q # <<>>, Sane(q)
  PROVE  /\ Head(q) \in Op /\ Fits(Head(q)) /\ Head(q) \in Ops(q)
         /\ Tail(q) \in Seq(Op) /\ Sane(Tail(q)) /\ Ops(Tail(q)) \subseteq Ops(q)
         /\ \A op \in Ops(Tail(q)) : ~Alike(Head(q), op)
<1>1. /\ Head(q) = q[1] /\ 1 \in 1 .. Len(q) /\ Tail(q) \in Seq(Op) /\ Head(q) \in Op
      /\ \A i \in 1 .. Len(Tail(q)) : /\ Tail(q)[i] = q[i + 1] /\ i + 1 \in 1 .. Len(q)
                                      /\ i + 1 # 1
  OBVIOUS
<1>2. Fits(Head(q)) /\ Head(q) \in Ops(q) /\ Ops(Tail(q)) \subseteq Ops(q)
  BY <1>1 DEF Sane, Ops
<1>3. Sane(Tail(q))
  <2>1. \A i \in 1 .. Len(Tail(q)) : Fits(Tail(q)[i])
    BY <1>1 DEF Sane
  <2>2. ASSUME NEW i \in 1 .. Len(Tail(q)), NEW k \in 1 .. Len(Tail(q)),
               Alike(Tail(q)[i], Tail(q)[k])
        PROVE  i = k
    <3>1. i + 1 = k + 1
      BY <1>1, <2>2 DEF Sane
    <3>2. QED BY <3>1
  <2>3. QED BY <2>1, <2>2 DEF Sane
<1>4. ASSUME NEW i \in 1 .. Len(Tail(q)) PROVE ~Alike(Head(q), Tail(q)[i])
  BY <1>1 DEF Sane
<1>5. QED BY <1>1, <1>2, <1>3, <1>4 DEF Ops

\* A new operation joins.
LEMMA SaneAppend ==
  ASSUME NEW q \in Seq(Op), Sane(q), NEW op \in Op, Fits(op), \A o \in Ops(q) : ~Alike(op, o)
  PROVE  /\ Append(q, op) \in Seq(Op) /\ Sane(Append(q, op))
         /\ Ops(Append(q, op)) = Ops(q) \cup {op}
<1> DEFINE r == Append(q, op)
<1>1. /\ r \in Seq(Op) /\ Len(r) = Len(q) + 1 /\ r[Len(q) + 1] = op /\ Len(q) \in Nat
      /\ \A i \in 1 .. Len(q) : r[i] = q[i] /\ i \in 1 .. Len(r)
      /\ \A i \in 1 .. Len(r) : i \in 1 .. Len(q) \/ i = Len(q) + 1
      /\ Len(q) + 1 \in 1 .. Len(r)
  OBVIOUS
<1> HIDE DEF r
<1>2. Ops(r) = Ops(q) \cup {op}
  BY <1>1 DEF Ops
<1>3. \A o \in Ops(q) : ~Alike(o, op)
  BY DEF Alike
<1>4. Sane(r)
  BY <1>1, <1>3 DEF Sane, Ops
<1>5. QED BY <1>1, <1>2, <1>4 DEF r

\* A concatenation of at most one operation is an append.
LEMMA ConcatOne ==
  ASSUME NEW q \in Seq(Op), NEW op \in Op
  PROVE  q \o <<>> = q /\ q \o <<op>> = Append(q, op)
  OBVIOUS

\* Runs end only for finished jobs; otherwise stages stay.
StagesEnd ==
  \A j \in Job : \/ stage'[j] = stage[j]
                 \/ stage[j] = "active" /\ stage'[j] = "none" /\ Over(j)'

\* So what the waiting operations rely on stays.
LEMMA PledgesStay ==
  ASSUME Onward, Pledged, NEW q \in Seq(Op), Ops(q) \subseteq Ops(queue), Sane(q),
         \A j \in Job : \/ stage'[j] = stage[j]
                        \/ stage[j] = "active" /\ Over(j)'
                        \/ stage[j] \notin {"active", "marking"}
                        \/ stage[j] = "marking" /\ ~\E op \in Ops(q) : op.by = "start" /\ op.job = j,
         \A j \in Job : \/ tail'[j] # <<>> \/ tail[j] = <<>>
                        \/ ~\E op \in Ops(q) : op.by = "tail" /\ op.job = j
  PROVE  \A op \in Ops(q) : Pledge(op)'
<1> SUFFICES ASSUME NEW op \in Ops(q) PROVE Pledge(op)'
  OBVIOUS
<1>1. Fits(op) /\ Pledge(op)
  BY DEF Ops, Sane, Pledged
<1>2. CASE op.by = "submit"
  BY <1>2 DEF Pledge
<1>3. CASE op.by # "submit"
  <2>1. op.job \in Job
    BY <1>1, <1>3 DEF Fits
  <2>2. Over(op.job) => Over(op.job)'
    BY <2>1 DEF Onward
  <2>3. op.by = "tail" => tail'[op.job] # <<>>
    BY <1>1, <2>1 DEF Pledge
  <2>4. op.by = "start" => stage'[op.job] = "marking"
    BY <1>1, <2>1 DEF Pledge
  <2>5. stage[op.job] = "active" => stage'[op.job] = "active" \/ Over(op.job)'
    BY <2>1
  <2>6. QED BY <1>1, <2>2, <2>3, <2>4, <2>5 DEF Pledge
<1>4. QED BY <1>2, <1>3

\* And so does what the shutdown's list relies on.
LEMMA StoppingStays ==
  ASSUME TypeOK, Onward, Stopping, toStop' \subseteq toStop,
         \A j \in toStop' : stage'[j] = stage[j] \/ Over(j)' \/ stage[j] # "active"
  PROVE  Stopping'
<1>1. \A j \in toStop' : j \in Job /\ (stage[j] = "active" \/ Over(j)) /\ (Over(j) => Over(j)')
  BY DEF TypeOK, Stopping, Onward
<1>2. QED BY <1>1 DEF Stopping

-----------------------------------------------------------------------------
(***************************************************************************)
(* What a row does to a job, given how far its run got.                    *)
(***************************************************************************)

\* A status that changes is a finished job's, a run's, or the admission's.
RowFits ==
  \A j \in Job : \/ job'[j].status = job[j].status
                 \/ Over(j)'
                 \/ stage[j] = "active" /\ job'[j].status \notin {"absent", "accepted"}

\* The rows that are neither an admission nor a start keep to that.
LEMMA RowsFit ==
  ASSUME job \in [Job -> View], NEW op \in Op, Fits(op), Pledge(op), op.by # "start",
         job' = Written(op)
  PROVE  RowFits
<1> SUFFICES ASSUME NEW j \in Job, job'[j].status # job[j].status, ~Over(j)'
             PROVE  stage[j] = "active" /\ job'[j].status \notin {"absent", "accepted"}
  BY DEF RowFits
<1>1. /\ j = op.job /\ op.kind \in Moves /\ op.kind \in Allowed[job[j].status]
      /\ job'[j].status = op.kind /\ ~Over(j)
  BY WrittenEffect DEF Over
<1>2. job[j].status \in Status
  BY DEF View
<1>3. op.kind \notin {"absent", "accepted"}
  BY <1>1, <1>2, AllowedFacts
<1>4. op.by \in {"tail", "run", "deadline", "shutdown"}
  BY <1>1 DEF Fits, Moves, Terminal, Over
<1>5. QED BY <1>1, <1>3, <1>4 DEF Pledge

\* So how far the runs got still fits.
LEMMA StagesFit ==
  ASSUME StageFits, Onward, RowFits, health' = health,
         \A j \in Job : stage'[j] \in {stage[j], "none"}
  PROVE  StageFits'
<1> SUFFICES ASSUME NEW j \in Job
             PROVE  /\ health' = "ready" /\ stage'[j] \in {"waiting", "marking"} =>
                         job'[j].status = "accepted" \/ Over(j)'
                    /\ stage'[j] = "started" => job'[j].status = "starting" \/ Over(j)'
                    /\ stage'[j] = "active" => job'[j].status \notin {"absent", "accepted"}
  BY DEF StageFits
<1>1. Over(j) => Over(j)'
  BY DEF Onward
<1>2. \/ job'[j].status = job[j].status \/ Over(j)'
      \/ stage[j] = "active" /\ job'[j].status \notin {"absent", "accepted"}
  BY DEF RowFits
<1>3. Over(j)' => job'[j].status \notin {"absent", "accepted"}
  BY DEF Over, Terminal
<1>4. stage'[j] = "none" \/ stage'[j] = stage[j]
  OBVIOUS
<1>5. CASE stage'[j] = "none"
  BY <1>5
<1>6. CASE stage'[j] = stage[j]
  BY <1>1, <1>2, <1>3, <1>6 DEF StageFits
<1>7. QED BY <1>4, <1>5, <1>6

-----------------------------------------------------------------------------
(***************************************************************************)
(* The invariant is inductive: the steps of a running server.              *)
(***************************************************************************)

\* A step at which no start moves, and a run may end that is over.
LEMMA RunsGoOn ==
  ASSUME IInv, Onward, RowFits, health' = health, toStop' \subseteq toStop,
         \/ UNCHANGED <<lock, stage>>
         \/ \E j \in Job : stage[j] = "active" /\ Over(j)' /\ Finish(j)
  PROVE  /\ StagesEnd /\ (Line /\ StageFits /\ Stopping)'
         /\ lock' \in [Session -> Seq(Job)] /\ stage' \in [Job -> Stage]
<1>1. CASE UNCHANGED <<lock, stage>>
  <2>1. StagesEnd /\ lock' \in [Session -> Seq(Job)] /\ stage' \in [Job -> Stage]
    BY <1>1 DEF StagesEnd, IInv, TypeOK
  <2>2. Line'
    BY <1>1, LineStays DEF IInv
  <2>3. StageFits' /\ Stopping'
    BY <1>1, StagesFit, StoppingStays DEF IInv
  <2>4. QED BY <2>1, <2>2, <2>3
<1>2. ASSUME NEW j \in Job, stage[j] = "active", Over(j)', Finish(j)
      PROVE  /\ StagesEnd /\ (Line /\ StageFits /\ Stopping)'
             /\ lock' \in [Session -> Seq(Job)] /\ stage' \in [Job -> Stage]
  <2>1. AheadOfAll(j) /\ stage[j] # "none"
    BY <1>2 DEF IInv, Line, AtHead
  <2>2. /\ Line' /\ lock' \in [Session -> Seq(Job)] /\ stage' \in [Job -> Stage]
    BY <1>2, <2>1, LinePasses DEF IInv
  <2>3. /\ stage' = [stage EXCEPT ![j] = "none"] /\ stage \in [Job -> Stage]
    BY <1>2 DEF Finish, IInv, TypeOK
  <2>4. StagesEnd /\ \A i \in Job : stage'[i] \in {stage[i], "none"}
    BY <1>2, <2>3 DEF StagesEnd
  <2>5. toStop \subseteq Job
    BY DEF IInv, TypeOK
  <2>6. StageFits' /\ Stopping'
    BY <2>4, <2>5, StagesFit, StoppingStays DEF IInv, StagesEnd
  <2>7. QED BY <2>2, <2>4, <2>6
<1>3. QED BY <1>1, <1>2

\* The answer to an operation of a run, a deadline, a user or the shutdown.
LEMMA Answered ==
  ASSUME IInv, health = "ready", queue # <<>>, Head(queue).by \notin {"submit", "start"},
         job' = Written(Head(queue)), health' = health, toStop' \subseteq toStop,
         \/ UNCHANGED <<lock, stage>>
         \/ \E j \in Job : stage[j] = "active" /\ Over(j)' /\ Finish(j)
  PROVE  /\ Onward /\ StagesEnd /\ Head(queue).job \in Job
         /\ Fits(Head(queue)) /\ Pledge(Head(queue)) /\ Head(queue) \in Op
         /\ (Numbered /\ Line /\ StageFits /\ Stopping)'
         /\ lock' \in [Session -> Seq(Job)] /\ stage' \in [Job -> Stage]
         /\ Tail(queue) \in Seq(Op) /\ Sane(Tail(queue)) /\ Ops(Tail(queue)) \subseteq Ops(queue)
         /\ \A op \in Ops(Tail(queue)) : ~Alike(Head(queue), op)
<1>1. queue \in Seq(Op) /\ job \in [Job -> View] /\ TypeOK /\ Numbered
  BY DEF IInv, TypeOK
<1>2. /\ Head(queue) \in Op /\ Fits(Head(queue)) /\ Head(queue) \in Ops(queue)
      /\ Tail(queue) \in Seq(Op) /\ Sane(Tail(queue)) /\ Ops(Tail(queue)) \subseteq Ops(queue)
      /\ \A op \in Ops(Tail(queue)) : ~Alike(Head(queue), op)
  BY <1>1, SaneTail DEF IInv
<1>3. Pledge(Head(queue)) /\ Head(queue).job \in Job
  BY <1>2 DEF IInv, Pledged, Fits
<1>4. Onward /\ Numbered'
  BY <1>1, <1>2, OnwardWritten
<1>5. RowFits
  BY <1>1, <1>2, <1>3, RowsFit
<1>6. QED BY <1>2, <1>3, <1>4, <1>5, RunsGoOn

\* The abort leaves every child and bridge somewhere.
LEMMA AbortType ==
  ASSUME TypeOK, NEW j \in Job, Abort(j) \/ UNCHANGED <<child, bridge>>
  PROVE  child' \in [Job -> Child] /\ bridge' \in [Job -> Bridge]
<1>1. child \in [Job -> Child] /\ bridge \in [Job -> Bridge]
  BY DEF TypeOK
<1>2. \A c \in Child : Stopped(c) \in Child
  BY DEF Stopped, Child
<1>3. QED BY <1>1, <1>2 DEF Abort, Bridge

\* The same, for the two that end a run and take nothing but the head off the queue.
LEMMA EndIInv ==
  ASSUME IInv, EndAnswered \/ CancelAnswered \/ InterruptAnswered
  PROVE  IInv'
<1> DEFINE op == Head(queue)
           j == op.job
<1>1. /\ health = "ready" /\ queue # <<>> /\ op.by \notin {"submit", "start"}
      /\ job' = Written(op) /\ queue' = Tail(queue)
      /\ toStop' \in {toStop, toStop \ {j}}
      /\ UNCHANGED <<lapsed, boots, health, draining, shutting, tail, late, ahead>>
  BY DEF EndAnswered, CancelAnswered, InterruptAnswered, hostVars
<1>2. queue \in Seq(Op) /\ job \in [Job -> View]
  BY DEF IInv, TypeOK
<1>3. op \in Op /\ Fits(op) /\ j \in Job
  BY <1>1, <1>2, SaneTail DEF IInv, Fits
<1>4. \/ UNCHANGED <<lock, stage>>
      \/ stage[j] = "active" /\ job'[j].status \in Terminal /\ Finish(j)
  <2>1. CASE EndAnswered
    BY <1>1, <2>1 DEF EndAnswered, FinishIf
  <2>2. CASE CancelAnswered
    <3>1. op.kind = "canceled"
      BY <1>3, <2>2 DEF CancelAnswered, Fits
    <3>2. Verdict(op) => Written(op)[j].status = "canceled"
      BY <1>2, <1>3, <3>1, WrittenEffect DEF Moves, Terminal
    <3>3. QED BY <1>1, <2>2, <3>2 DEF CancelAnswered, Terminal
  <2>3. CASE InterruptAnswered
    BY <1>1, <2>3 DEF InterruptAnswered, FinishIf
  <2>4. QED BY <2>1, <2>2, <2>3
<1>5. Abort(j) \/ UNCHANGED <<child, bridge>>
  BY DEF EndAnswered, CancelAnswered, InterruptAnswered
<1>6. /\ Onward /\ StagesEnd /\ (Numbered /\ Line /\ StageFits /\ Stopping)'
      /\ lock' \in [Session -> Seq(Job)] /\ stage' \in [Job -> Stage]
      /\ Tail(queue) \in Seq(Op) /\ Sane(Tail(queue)) /\ Ops(Tail(queue)) \subseteq Ops(queue)
  <2>1. \/ UNCHANGED <<lock, stage>>
        \/ \E i \in Job : stage[i] = "active" /\ Over(i)' /\ Finish(i)
    BY <1>3, <1>4 DEF Over
  <2>2. QED BY <1>1, <2>1, Answered
<1>7. TypeOK'
  <2>1. child' \in [Job -> Child] /\ bridge' \in [Job -> Bridge]
    BY <1>3, <1>5, AbortType DEF IInv
  <2>2. job' \in [Job -> View]
    BY <1>6 DEF Onward
  <2>3. QED BY <1>1, <1>6, <2>1, <2>2 DEF IInv, TypeOK
<1>8. Pledged'
  <2>1. \A o \in Ops(Tail(queue)) : Pledge(o)'
    BY <1>1, <1>6, PledgesStay DEF IInv, StagesEnd
  <2>2. QED BY <1>1, <2>1 DEF Pledged
<1>9. Quiet' /\ Sane(queue')
  BY <1>1, <1>6 DEF Quiet
<1>10. QED BY <1>6, <1>7, <1>8, <1>9 DEF IInv

\* The operations a run makes.  Plain rows first.
LEMMA PlainOps ==
  ASSUME NEW j \in Job, NEW who \in Caller, NEW kind \in OpKind
  PROVE  /\ By(who, Do(kind, j)) \in Op
         /\ By(who, Do(kind, j)).kind = kind /\ By(who, Do(kind, j)).job = j
         /\ By(who, Do(kind, j)).by = who /\ By(who, Do(kind, j)).cause = "none"
         /\ ~By(who, Do(kind, j)).fence
  BY DEF By, Do, Op, Response, Cause

\* Then the rows that end it.
LEMMA EndingOps ==
  ASSUME NEW j \in Job, NEW v \in View, NEW who \in {"run", "deadline"}
  PROVE  /\ By(who, Complete(j, "whole")) \in Op /\ Fits(By(who, Complete(j, "whole")))
         /\ By(who, Complete(j, "whole")).by = who /\ By(who, Complete(j, "whole")).job = j
         /\ By(who, FailOp(v, j)) \in Op /\ Fits(By(who, FailOp(v, j)))
         /\ By(who, FailOp(v, j)).by = who /\ By(who, FailOp(v, j)).job = j
<1>1. who \in Caller /\ {"completed", "failed"} \subseteq OpKind
  BY DEF Caller, OpKind, Moves, Terminal
<1>2. ASSUME NEW text \in {"whole", "checkpoint"}
      PROVE  /\ By(who, Complete(j, text)) \in Op /\ Fits(By(who, Complete(j, text)))
             /\ By(who, Complete(j, text)).by = who /\ By(who, Complete(j, text)).job = j
  <2>1. /\ By(who, Complete(j, text)) \in Op
        /\ By(who, Complete(j, text)).by = who /\ By(who, Complete(j, text)).job = j
        /\ By(who, Complete(j, text)).kind = "completed"
        /\ By(who, Complete(j, text)).cause = "none" /\ By(who, Complete(j, text)).fence = FALSE
    BY <1>1 DEF By, Complete, Do, Op, Response, Cause
  <2>2. QED BY <2>1 DEF Fits
<1>3. /\ By(who, Do("failed", j)) \in Op /\ Fits(By(who, Do("failed", j)))
      /\ By(who, Do("failed", j)).by = who /\ By(who, Do("failed", j)).job = j
  BY <1>1, PlainOps DEF Fits
<1>4. QED BY <1>2, <1>3 DEF FailOp

\* And the shutdown's.
LEMMA ShutdownOps ==
  ASSUME NEW j \in Job, NEW v \in View, NEW op, op = By("shutdown", InterruptOp(v, j, "server_shutdown"))
  PROVE  op \in Op /\ Fits(op) /\ op.by = "shutdown" /\ op.job = j
<1>1. ASSUME NEW text \in {"whole", "checkpoint"}, op = By("shutdown", Complete(j, text))
      PROVE  op \in Op /\ Fits(op) /\ op.by = "shutdown" /\ op.job = j
  <2>1. /\ op \in Op /\ op.by = "shutdown" /\ op.job = j /\ op.kind = "completed" /\ op.cause = "none"
        /\ op.fence = FALSE
    BY <1>1 DEF By, Complete, Do, Op, OpKind, Moves, Terminal, Response, Cause, Caller
  <2>2. QED BY <2>1 DEF Fits
<1>2. ASSUME op = By("shutdown", Interrupt(j, v.owned, "server_shutdown"))
      PROVE  op \in Op /\ Fits(op) /\ op.by = "shutdown" /\ op.job = j
  <2>1. /\ op \in Op /\ op.by = "shutdown" /\ op.job = j /\ op.kind = "interrupted"
        /\ op.cause = "server_shutdown"
    BY <1>2 DEF By, Interrupt, Do, Op, OpKind, Moves, Terminal, Response, Cause, Caller, View
  <2>2. QED BY <2>1 DEF Fits
<1>3. QED BY <1>1, <1>2 DEF InterruptOp

\* A callback row.
LEMMA TailOps ==
  ASSUME NEW j \in Job, NEW kind \in TailKind
  PROVE  /\ TailOp(kind, j) \in Op /\ Fits(TailOp(kind, j))
         /\ TailOp(kind, j).by = "tail" /\ TailOp(kind, j).job = j
<1>1. kind \in OpKind /\ "tail" \in Caller
  BY DEF TailKind, OpKind, Moves, Caller
<1>2. QED BY <1>1, PlainOps DEF TailOp, Fits

\* What the bridge does with an answer.
LEMMA ResumeEffect ==
  ASSUME NEW j \in Job, NEW kind, NEW owned \in BOOLEAN, Resume(j, kind, owned)
  PROVE  \/ UNCHANGED <<child, bridge>>
         \/ /\ kind = "linkage" /\ owned /\ bridge[j] = "spawned"
            /\ child' = [child EXCEPT ![j] = "prompted"] /\ bridge' = [bridge EXCEPT ![j] = "working"]
         \/ /\ child' = [child EXCEPT ![j] = Stopped(child[j])]
            /\ bridge' = [bridge EXCEPT ![j] = "off"]
         \/ /\ UNCHANGED child /\ bridge[j] \in {"flushing", "answering"}
            /\ \E b \in {"answering", "post", "off"} : bridge' = [bridge EXCEPT ![j] = b]
<1>1. CASE kind = "linkage" /\ bridge[j] = "spawned"
  BY <1>1 DEF Resume, BridgeAt
<1>2. CASE kind = "partial" /\ bridge[j] = "flushing"
  BY <1>2 DEF Resume, BridgeAt
<1>3. CASE kind = "answer_ready" /\ bridge[j] = "answering"
  BY <1>3 DEF Resume, BridgeAt
<1>4. CASE /\ ~(kind = "linkage" /\ bridge[j] = "spawned")
           /\ ~(kind = "partial" /\ bridge[j] = "flushing")
           /\ ~(kind = "answer_ready" /\ bridge[j] = "answering")
  BY <1>4 DEF Resume
<1>5. QED BY <1>1, <1>2, <1>3, <1>4

\* It leaves every child and bridge somewhere.
LEMMA ResumeType ==
  ASSUME TypeOK, NEW j \in Job, NEW kind, NEW owned \in BOOLEAN, Resume(j, kind, owned)
  PROVE  child' \in [Job -> Child] /\ bridge' \in [Job -> Bridge]
<1>1. child \in [Job -> Child] /\ bridge \in [Job -> Bridge]
  BY DEF TypeOK
<1>2. Stopped(child[j]) \in Child
  BY <1>1 DEF Stopped, Child
<1>3. \/ UNCHANGED <<child, bridge>>
      \/ \E c \in Child : \E b \in Bridge :
           child' = [child EXCEPT ![j] = c] /\ bridge' = [bridge EXCEPT ![j] = b]
      \/ UNCHANGED child /\ \E b \in Bridge : bridge' = [bridge EXCEPT ![j] = b]
  <2>1. "prompted" \in Child /\ {"working", "off", "answering", "post"} \subseteq Bridge
    BY DEF Child, Bridge
  <2>2. QED BY <1>2, <2>1, ResumeEffect
<1>4. QED BY <1>1, <1>3

\* A callback is answered.
LEMMA CallbackIInv ==
  ASSUME IInv, CallbackAnswered
  PROVE  IInv'
<1> DEFINE op == Head(queue)
           j == op.job
           v == Written(op)[j]
           runs == stage[j] = "active"
           owned == Verdict(op) /\ runs /\ (op.kind = "linkage" => v.status = "running")
           flushed == op.kind = "partial" /\ owned /\ bridge[j] = "flushing"
           rest == Tail(tail[j]) \o IF flushed THEN <<"answer_ready">> ELSE <<>>
           due == late[j] \in {"complete", "fail"} /\ ahead[j] = 1
           q1 == Tail(queue) \o (IF rest = <<>> THEN <<>> ELSE <<TailOp(Head(rest), j)>>)
           call == due /\ runs /\ v.status \in Live
<1>1. /\ health = "ready" /\ queue # <<>> /\ op.by = "tail"
      /\ job' = Written(op)
      /\ tail' = [tail EXCEPT ![j] = rest]
      /\ queue' = q1 \o (IF call THEN <<DeadlineOp(v, j, late[j])>> ELSE <<>>)
      /\ late' = IF due THEN [late EXCEPT ![j] = "reported"] ELSE late
      /\ ahead' = [ahead EXCEPT ![j] = OneLess(@)]
      /\ Resume(j, op.kind, owned)
      /\ FinishIf(runs /\ v.status \in Terminal, j)
      /\ UNCHANGED <<lapsed, boots, health, draining, shutting, toStop>>
  BY DEF CallbackAnswered, hostVars
<1> HIDE DEF call, due, q1
<1>2. queue \in Seq(Op) /\ job \in [Job -> View]
  BY DEF IInv, TypeOK
<1>3. op \in Op /\ Fits(op) /\ j \in Job
  BY <1>1, <1>2, SaneTail DEF IInv, Fits
<1>4. /\ Onward /\ StagesEnd /\ (Numbered /\ Line /\ StageFits /\ Stopping)'
      /\ lock' \in [Session -> Seq(Job)] /\ stage' \in [Job -> Stage]
      /\ Tail(queue) \in Seq(Op) /\ Sane(Tail(queue)) /\ Ops(Tail(queue)) \subseteq Ops(queue)
      /\ Pledge(op) /\ \A o \in Ops(Tail(queue)) : ~Alike(op, o)
  <2>1. \/ UNCHANGED <<lock, stage>>
        \/ \E i \in Job : stage[i] = "active" /\ Over(i)' /\ Finish(i)
    BY <1>1, <1>3 DEF FinishIf, Over
  <2>2. QED BY <1>1, <1>3, <2>1, Answered
<1>5. tail[j] \in Seq(TailKind) /\ tail[j] # <<>> /\ rest \in Seq(TailKind)
  <2>1. tail[j] \in Seq(TailKind) /\ tail[j] # <<>>
    BY <1>1, <1>3, <1>4 DEF Pledge, IInv, TypeOK, TailKind
  <2>2. <<"answer_ready">> \in Seq(TailKind) /\ <<>> \in Seq(TailKind)
    BY DEF TailKind
  <2>3. Tail(tail[j]) \in Seq(TailKind)
    BY <2>1
  <2>4. QED BY <2>2, <2>3
<1>6. tail' \in [Job -> Seq(TailKind)] /\ tail'[j] = rest
  BY <1>1, <1>3, <1>5 DEF IInv, TypeOK, TailKind
<1> HIDE DEF rest, flushed, owned
<1>7. /\ q1 \in Seq(Op) /\ Sane(q1) /\ \A o \in Ops(q1) : Pledge(o)'
  <2>1. \A o \in Ops(Tail(queue)) : Pledge(o)'
    <3>1. \A i \in Job : i # j => tail'[i] = tail[i]
      BY <1>1 DEF IInv, TypeOK
    <3>2. ~\E o \in Ops(Tail(queue)) : o.by = "tail" /\ o.job = j
      BY <1>1, <1>4 DEF Alike
    <3>3. \A i \in Job : \/ tail'[i] # <<>> \/ tail[i] = <<>>
                         \/ ~\E o \in Ops(Tail(queue)) : o.by = "tail" /\ o.job = i
      BY <3>1, <3>2
    <3>4. QED BY <1>4, <3>3, PledgesStay DEF IInv, StagesEnd
  <2>2. CASE rest = <<>>
    BY <1>4, <2>1, <2>2 DEF q1
  <2>3. CASE rest # <<>>
    <3>1. Head(rest) \in TailKind
      BY <1>5, <2>3
    <3>2. PICK o \in Op : /\ o = TailOp(Head(rest), j) /\ Fits(o) /\ o.by = "tail" /\ o.job = j
      BY <1>3, <3>1, TailOps
    <3>3. q1 = Append(Tail(queue), o)
      BY <1>4, <2>3, <3>2, ConcatOne DEF q1
    <3>4. \A x \in Ops(Tail(queue)) : ~Alike(o, x)
      BY <1>1, <1>4, <3>2 DEF Alike
    <3>5. Pledge(o)'
      <4>1. stage'[j] = "active" \/ job'[j].status \in Terminal
        BY <1>1, <1>3, <1>4 DEF Pledge, Onward, StagesEnd, Over
      <4>2. tail'[o.job] # <<>> /\ (stage'[o.job] = "active" \/ job'[o.job].status \in Terminal)
        BY <1>6, <2>3, <3>2, <4>1
      <4>3. QED BY <3>2, <4>2 DEF Pledge, Over
    <3>6. QED
      <4> DEFINE kept == Tail(queue)
      <4>1. /\ kept \in Seq(Op) /\ Sane(kept) /\ \A x \in Ops(kept) : Pledge(x)'
            /\ \A x \in Ops(kept) : ~Alike(o, x)
            /\ q1 = Append(kept, o)
        BY <1>4, <2>1, <3>3, <3>4
      <4> HIDE DEF kept
      <4>2. /\ Append(kept, o) \in Seq(Op) /\ Sane(Append(kept, o))
            /\ Ops(Append(kept, o)) = Ops(kept) \cup {o}
        BY <3>2, <4>1, SaneAppend
      <4>3. QED BY <3>5, <4>1, <4>2
  <2>4. QED BY <2>2, <2>3
<1>8. queue' \in Seq(Op) /\ Sane(queue') /\ \A o \in Ops(queue') : Pledge(o)'
  <2>1. CASE ~call
    BY <1>1, <1>7, <2>1, ConcatOne
  <2>2. CASE call
    <3>1. v \in View
      BY <1>1, <1>3, <1>4 DEF Onward
    <3>2. PICK o \in Op : /\ o = DeadlineOp(v, j, late[j]) /\ Fits(o)
                          /\ o.by = "deadline" /\ o.job = j
      BY <1>3, <3>1, EndingOps DEF DeadlineOp
    <3>3. queue' = Append(q1, o)
      BY <1>1, <1>7, <2>2, <3>2, ConcatOne
    <3>4. Pledge(o)'
      <4>1. stage'[j] = "active"
        BY <1>1, <1>3, <2>2 DEF call, FinishIf, Live, Terminal, IInv, TypeOK
      <4>2. QED BY <3>2, <4>1 DEF Pledge
    <3>5. \A old \in Ops(q1) : ~Alike(o, old)
      BY <1>7, <3>2 DEF Alike
    <3>6. QED
      <4>1. /\ Append(q1, o) \in Seq(Op) /\ Sane(Append(q1, o))
            /\ Ops(Append(q1, o)) = Ops(q1) \cup {o}
        BY <1>7, <3>2, <3>5, SaneAppend
      <4>2. QED BY <1>7, <3>3, <3>4, <4>1
  <2>3. QED BY <2>1, <2>2
<1>9. TypeOK'
  <2>1. child' \in [Job -> Child] /\ bridge' \in [Job -> Bridge]
    <3>1. owned \in BOOLEAN
      BY DEF owned, Verdict
    <3>2. j \in Job /\ TypeOK /\ Resume(j, op.kind, owned)
      BY <1>1, <1>3 DEF IInv
    <3>3. QED BY <3>1, <3>2, ResumeType
  <2>2. late' \in [Job -> {"no", "complete", "fail", "reported"}] /\ ahead' \in [Job -> Nat]
    <3>1. /\ late \in [Job -> {"no", "complete", "fail", "reported"}] /\ ahead \in [Job -> Nat]
          /\ ahead[j] \in Nat
      BY <1>3 DEF IInv, TypeOK
    <3>2. late' \in [Job -> {"no", "complete", "fail", "reported"}]
      BY <1>1, <1>3, <3>1
    <3>3. OneLess(ahead[j]) \in Nat
      BY <3>1 DEF OneLess
    <3>4. QED BY <1>1, <1>3, <3>1, <3>2, <3>3
  <2>3. job' \in [Job -> View]
    BY <1>4 DEF Onward
  <2>4. QED BY <1>1, <1>4, <1>6, <1>8, <2>1, <2>2, <2>3 DEF IInv, TypeOK, TailKind
<1>10. Quiet' /\ Pledged'
  BY <1>1, <1>8 DEF Quiet, Pledged
<1>11. QED BY <1>4, <1>8, <1>9, <1>10 DEF IInv

\* The queue stays, or an operation joins it.
LEMMA QueueGrows ==
  ASSUME IInv, UNCHANGED <<job, stage>>, \A i \in Job : tail'[i] # <<>> \/ tail[i] = <<>>,
         \/ UNCHANGED queue
         \/ \E op \in Op : /\ Fits(op) /\ queue' = Append(queue, op) /\ Pledge(op)'
                           /\ \A o \in Ops(queue) : ~Alike(op, o)
  PROVE  queue' \in Seq(Op) /\ Sane(queue') /\ Pledged'
<1>1. queue \in Seq(Op) /\ Sane(queue) /\ Pledged /\ Onward
  BY OnwardStays DEF IInv, TypeOK
<1>2. \A o \in Ops(queue) : Pledge(o)'
  BY <1>1, PledgesStay
<1>3. CASE UNCHANGED queue
  BY <1>1, <1>2, <1>3 DEF Pledged
<1>4. ASSUME NEW op \in Op, Fits(op), queue' = Append(queue, op), Pledge(op)',
             \A o \in Ops(queue) : ~Alike(op, o)
      PROVE  queue' \in Seq(Op) /\ Sane(queue') /\ Pledged'
  <2>1. queue' \in Seq(Op) /\ Sane(queue') /\ Ops(queue') = Ops(queue) \cup {op}
    BY <1>1, <1>4, SaneAppend
  <2>2. QED BY <1>2, <1>4, <2>1 DEF Pledged
<1>5. QED BY <1>3, <1>4

\* What a step does that leaves the journal, the lines and the stages alone.
LEMMA StillIInv ==
  ASSUME IInv, TypeOK', UNCHANGED <<job, lock, stage, health>>, Sane(queue'), Pledged', Stopping',
         health # "ready" => queue' = <<>>, health = "down" => UNCHANGED bridge
  PROVE  IInv'
<1>1. Onward /\ Numbered' /\ RowFits
  BY OnwardStays DEF IInv, RowFits
<1>2. Line'
  BY <1>1, LineStays DEF IInv
<1>3. StageFits'
  BY <1>1, StagesFit DEF IInv
<1>4. Quiet'
  BY DEF IInv, Quiet
<1>5. QED BY <1>1, <1>2, <1>3, <1>4 DEF IInv

\* So does one that adds at most an operation to the queue.
LEMMA CallIInv ==
  ASSUME IInv, TypeOK', UNCHANGED <<job, lock, stage, health>>, toStop' \subseteq toStop,
         health = "ready" \/ UNCHANGED queue, health = "down" => UNCHANGED bridge,
         \A i \in Job : tail'[i] # <<>> \/ tail[i] = <<>>,
         \/ UNCHANGED queue
         \/ \E op \in Op : /\ Fits(op) /\ queue' = Append(queue, op) /\ Pledge(op)'
                           /\ \A o \in Ops(queue) : ~Alike(op, o)
  PROVE  IInv'
<1>1. Sane(queue') /\ Pledged'
  BY QueueGrows
<1>2. Stopping'
  BY OnwardStays, StoppingStays DEF IInv
<1>3. health # "ready" => queue' = <<>>
  BY DEF IInv, Quiet
<1>4. QED BY <1>1, <1>2, <1>3, StillIInv

\* Calls that are not a run's.
LEMMA SubmitIInv ==
  ASSUME IInv, NEW r \in Request, Submit(r)
  PROVE  IInv'
<1>1. PICK op \in Op : op = By("submit", Admit(r)) /\ Fits(op) /\ op.by = "submit"
  <2>1. By("submit", Admit(r)) \in Op
    BY DEF By, Admit, Do, Op, OpKind, Caller, Response, Cause
  <2>2. /\ By("submit", Admit(r)).by = "submit" /\ By("submit", Admit(r)).kind = "accepted"
        /\ By("submit", Admit(r)).req = r /\ By("submit", Admit(r)).cause = "none"
        /\ By("submit", Admit(r)).fence = FALSE
    BY DEF By, Admit, Do
  <2>3. QED BY <2>1, <2>2 DEF Fits
<1>2. /\ queue' = Append(queue, op) /\ health = "ready"
      /\ UNCHANGED <<job, lapsed, boots, health, draining, shutting, toStop, lock, stage, bridge,
                     child, tail, late, ahead>>
  BY <1>1 DEF Submit, jobVars, hostVars, runVars
<1>3. Pledge(op)' /\ \A o \in Ops(queue) : ~Alike(op, o)
  BY <1>1 DEF Pledge, Alike
<1>4. TypeOK'
  <2>1. queue' \in Seq(Op)
    BY <1>2 DEF IInv, TypeOK
  <2>2. QED BY <1>2, <2>1 DEF IInv, TypeOK
<1>5. QED BY <1>1, <1>2, <1>3, <1>4, CallIInv

\* A cancel only adds its row.
LEMMA CancelIInv ==
  ASSUME IInv, NEW j \in Job, Cancel(j)
  PROVE  IInv'
<1>1. PICK op \in Op : op = By("user", Do("canceled", j)) /\ Fits(op) /\ op.by = "user"
  <2>1. "user" \in Caller /\ "canceled" \in OpKind
    BY DEF Caller, OpKind, Moves, Terminal
  <2>2. QED BY <2>1, PlainOps DEF Fits
<1>2. /\ queue' = Append(queue, op) /\ health = "ready"
      /\ UNCHANGED <<job, lapsed, boots, health, draining, shutting, toStop, lock, stage, bridge,
                     child, tail, late, ahead>>
  BY <1>1 DEF Cancel, jobVars, hostVars, runVars
<1>3. Pledge(op)' /\ \A o \in Ops(queue) : ~Alike(op, o)
  BY <1>1 DEF Pledge, Alike
<1>4. TypeOK'
  <2>1. queue' \in Seq(Op)
    BY <1>2 DEF IInv, TypeOK
  <2>2. QED BY <1>2, <2>1 DEF IInv, TypeOK
<1>5. QED BY <1>1, <1>2, <1>3, <1>4, CallIInv

\* Callbacks of a run join its tail; the first of an empty one goes to the store.
LEMMA ReportEffect ==
  ASSUME IInv, NEW j \in Job, stage[j] = "active", UNCHANGED <<job, stage>>,
         NEW kinds \in Seq(TailKind), kinds # <<>>, Report(j, kinds)
  PROVE  /\ tail' \in [Job -> Seq(TailKind)] /\ queue' \in Seq(Op)
         /\ \A i \in Job : tail'[i] # <<>> \/ tail[i] = <<>>
         /\ \/ UNCHANGED queue
            \/ \E op \in Op : /\ Fits(op) /\ queue' = Append(queue, op) /\ Pledge(op)'
                              /\ \A o \in Ops(queue) : ~Alike(op, o)
<1>1. /\ tail \in [Job -> Seq(TailKind)] /\ tail[j] \in Seq(TailKind) /\ queue \in Seq(Op)
      /\ tail' = [tail EXCEPT ![j] = tail[j] \o kinds]
      /\ queue' = IF tail[j] = <<>> THEN Append(queue, TailOp(Head(kinds), j)) ELSE queue
  BY DEF IInv, TypeOK, TailKind, Report
<1>2. tail[j] \o kinds \in Seq(TailKind) /\ tail[j] \o kinds # <<>> /\ Head(kinds) \in TailKind
  BY <1>1
<1>3. /\ tail' \in [Job -> Seq(TailKind)] /\ tail'[j] # <<>>
      /\ \A i \in Job : tail'[i] # <<>> \/ tail[i] = <<>>
  BY <1>1, <1>2
<1>4. CASE tail[j] # <<>>
  BY <1>1, <1>3, <1>4
<1>5. CASE tail[j] = <<>>
  <2>1. PICK op \in Op : /\ op = TailOp(Head(kinds), j) /\ Fits(op) /\ op.by = "tail" /\ op.job = j
    BY <1>2, TailOps
  <2>2. queue' = Append(queue, op)
    BY <1>1, <1>5, <2>1
  <2>3. Pledge(op)'
    BY <1>3, <2>1 DEF Pledge
  <2>4. \A o \in Ops(queue) : ~Alike(op, o)
    BY <1>5, <2>1 DEF IInv, Pledged, Pledge, Alike
  <2>5. queue' \in Seq(Op)
    BY <1>1, <2>2
  <2>6. QED BY <1>3, <2>1, <2>2, <2>3, <2>4, <2>5
<1>6. QED BY <1>4, <1>5

\* The run's own steps.
LEMMA RunIInv ==
  ASSUME IInv, NEW j \in Job, \/ Spawn(j) \/ ProviderAnswers(j) \/ ProviderCheckpoints(j)
                              \/ RunFails(j) \/ PostDone(j)
  PROVE  IInv'
<1>1. /\ child \in [Job -> Child] /\ bridge \in [Job -> Bridge]
      /\ tail \in [Job -> Seq(TailKind)] /\ queue \in Seq(Op) /\ stage[j] \in Stage
  BY DEF IInv, TypeOK, TailKind
<1>2. /\ UNCHANGED <<job, lapsed, boots, health, draining, shutting, toStop, lock, stage, late, ahead>>
      /\ health = "ready" \/ (UNCHANGED queue /\ bridge[j] = "post")
  BY DEF Spawn, ProviderAnswers, ProviderCheckpoints, RunFails, PostDone, Runs, jobVars, hostVars
<1>3. health = "down" => UNCHANGED bridge
  BY <1>1, <1>2 DEF IInv, Quiet
<1>4. /\ child' \in [Job -> Child] /\ bridge' \in [Job -> Bridge]
  <2>1. \/ UNCHANGED bridge
        \/ \E b \in {"spawned", "flushing", "error", "done", "off"} : bridge' = [bridge EXCEPT ![j] = b]
    BY DEF Spawn, ProviderAnswers, ProviderCheckpoints, RunFails, PostDone, BridgeAt
  <2>2. \/ UNCHANGED child
        \/ \E c \in {"idle", "gone", "none"} : child' = [child EXCEPT ![j] = c]
    BY DEF Spawn, ProviderAnswers, ProviderCheckpoints, RunFails, PostDone
  <2>3. child' \in [Job -> Child]
    BY <1>1, <2>2 DEF Child
  <2>4. bridge' \in [Job -> Bridge]
    BY <1>1, <2>1 DEF Bridge
  <2>5. QED BY <2>3, <2>4
<1>5. /\ tail' \in [Job -> Seq(TailKind)] /\ queue' \in Seq(Op)
      /\ \A i \in Job : tail'[i] # <<>> \/ tail[i] = <<>>
      /\ \/ UNCHANGED queue
         \/ \E op \in Op : /\ Fits(op) /\ queue' = Append(queue, op) /\ Pledge(op)'
                           /\ \A o \in Ops(queue) : ~Alike(op, o)
  <2>1. CASE RunFails(j) \/ PostDone(j)
    BY <1>1, <2>1 DEF RunFails, PostDone
  <2>2. CASE Spawn(j) \/ ProviderAnswers(j) \/ ProviderCheckpoints(j)
    <3>1. stage[j] = "active"
      BY <2>2 DEF Spawn, ProviderAnswers, ProviderCheckpoints, Runs
    <3>2. PICK kinds \in {<<"running", "linkage">>, <<"partial">>, <<"checkpoint">>} : Report(j, kinds)
      BY <2>2 DEF Spawn, ProviderAnswers, ProviderCheckpoints
    <3>3. kinds \in Seq(TailKind) /\ kinds # <<>>
      <4>1. {"running", "linkage", "partial", "checkpoint"} \subseteq TailKind
        BY DEF TailKind
      <4>2. /\ <<"running", "linkage">> \in Seq(TailKind) /\ <<"partial">> \in Seq(TailKind)
            /\ <<"checkpoint">> \in Seq(TailKind)
        BY <4>1
      <4>3. <<"running", "linkage">> # <<>> /\ <<"partial">> # <<>> /\ <<"checkpoint">> # <<>>
        OBVIOUS
      <4>4. QED BY <4>2, <4>3
    <3>4. QED BY <1>2, <3>1, <3>2, <3>3, ReportEffect
  <2>3. QED BY <2>1, <2>2
<1>6. TypeOK'
  BY <1>2, <1>4, <1>5 DEF IInv, TypeOK, TailKind
<1>7. QED BY <1>2, <1>3, <1>5, <1>6, CallIInv

\* The deadline fires.
LEMMA DeadlineIInv ==
  ASSUME IInv, NEW j \in Job, DeadlineFires(j)
  PROVE  IInv'
<1>1. /\ stage[j] = "active" /\ health = "ready"
      /\ UNCHANGED <<job, lapsed, boots, health, draining, shutting, toStop, lock, stage, bridge, child, tail>>
  BY DEF DeadlineFires, jobVars, hostVars
<1>2. PICK how \in {"complete", "fail"} :
        \/ /\ queue' = Append(queue, DeadlineOp(job[j], j, how))
           /\ late' = [late EXCEPT ![j] = "reported"] /\ UNCHANGED ahead
        \/ /\ late' = [late EXCEPT ![j] = how]
           /\ ahead' = [ahead EXCEPT ![j] = Len(tail[j])] /\ UNCHANGED queue
  BY DEF DeadlineFires
<1>3. PICK op \in Op : op = DeadlineOp(job[j], j, how) /\ Fits(op) /\ op.by = "deadline" /\ op.job = j
  <2>1. job[j] \in View
    BY DEF IInv, TypeOK
  <2>2. QED BY <2>1, EndingOps DEF DeadlineOp
<1>4. Pledge(op)' /\ \A o \in Ops(queue) : ~Alike(op, o)
  BY <1>1, <1>3 DEF Pledge, Alike
<1>5. UNCHANGED queue \/ queue' = Append(queue, op)
  BY <1>2, <1>3
<1>6. TypeOK'
  <2>1. queue \in Seq(Op) /\ late \in [Job -> {"no", "complete", "fail", "reported"}] /\ ahead \in [Job -> Nat]
    BY DEF IInv, TypeOK
  <2>2. queue' \in Seq(Op)
    <3>1. op \in Op
      OBVIOUS
    <3>2. Append(queue, op) \in Seq(Op)
      BY <2>1, <3>1
    <3>3. QED BY <1>5, <2>1, <3>2
  <2>3. Len(tail[j]) \in Nat
    BY DEF IInv, TypeOK
  <2>4. late' \in [Job -> {"no", "complete", "fail", "reported"}] /\ ahead' \in [Job -> Nat]
    BY <1>2, <2>1, <2>3
  <2>5. QED BY <1>1, <2>2, <2>4 DEF IInv, TypeOK
<1>7. QED BY <1>1, <1>3, <1>4, <1>5, <1>6, CallIInv

\* The surroundings, and the shutdown's first steps.
LEMMA AroundIInv ==
  ASSUME IInv, \/ UNCHANGED vars \/ ShutdownBegins \/ ShutdownInterrupts
               \/ \E on \in BOOLEAN : Drain(on)
               \/ \E j \in Job : ChildEnds(j) \/ FenceLapses(j)
  PROVE  IInv'
<1>1. /\ UNCHANGED <<job, boots, health, queue, lock, stage, bridge, tail, late, ahead>>
      /\ lapsed' \subseteq lapsed \cup Job /\ draining' \in {draining} \cup BOOLEAN
      /\ shutting' \in {shutting, "draining", "interrupting"}
      /\ toStop' = toStop \/ toStop' = {j \in Job : stage[j] = "active"}
      /\ UNCHANGED child \/ \E j \in Job : child' = [child EXCEPT ![j] = "gone"]
  BY DEF vars, jobVars, hostVars, runVars, ShutdownBegins, ShutdownInterrupts, Drain, ChildEnds, FenceLapses
<1>2. TypeOK'
  <2>1. child' \in [Job -> Child]
    BY <1>1 DEF IInv, TypeOK, Child
  <2>2. QED BY <1>1, <2>1 DEF IInv, TypeOK
<1>3. CASE toStop' = toStop
  BY <1>1, <1>2, <1>3, CallIInv
<1>4. CASE toStop' = {j \in Job : stage[j] = "active"}
  <2>1. Sane(queue') /\ Pledged'
    BY <1>1, QueueGrows DEF IInv
  <2>2. Stopping'
    BY <1>1, <1>4 DEF Stopping
  <2>3. health # "ready" => queue' = <<>>
    BY <1>1 DEF IInv, Quiet
  <2>4. QED BY <1>1, <1>2, <2>1, <2>2, <2>3, StillIInv
<1>5. QED BY <1>1, <1>3, <1>4

-----------------------------------------------------------------------------
(***************************************************************************)
(* The invariant is inductive: starts, and runs that leave their line.     *)
(***************************************************************************)

\* One job's stage moves.
LEMMA StageMoves ==
  ASSUME StageFits, Onward, health' = health, NEW j \in Job,
         \A k \in Job \ {j} : stage'[k] = stage[k] /\ job'[k].status = job[k].status,
         health = "ready" /\ stage'[j] \in {"waiting", "marking"} =>
           job'[j].status = "accepted" \/ job'[j].status \in Terminal,
         stage'[j] = "started" => job'[j].status = "starting" \/ job'[j].status \in Terminal,
         stage'[j] = "active" => job'[j].status \notin {"absent", "accepted"}
  PROVE  StageFits'
<1> SUFFICES ASSUME NEW k \in Job
             PROVE  /\ health' = "ready" /\ stage'[k] \in {"waiting", "marking"} =>
                         job'[k].status = "accepted" \/ job'[k].status \in Terminal
                    /\ stage'[k] = "started" => job'[k].status = "starting" \/ job'[k].status \in Terminal
                    /\ stage'[k] = "active" => job'[k].status \notin {"absent", "accepted"}
  BY DEF StageFits, Over
<1>1. CASE k = j
  BY <1>1
<1>2. CASE k # j
  BY <1>2 DEF StageFits, Over
<1>3. QED BY <1>1, <1>2

\* A run that is over, or a start that is given up, or a run of a broken journal,
\* leaves the head of its line.
LEMMA LeavesIInv ==
  ASSUME IInv, NEW j \in Job, stage[j] # "none", AheadOfAll(j), Finish(j),
         UNCHANGED <<job, lapsed, boots, health, queue, draining, shutting, tail, late, ahead>>,
         toStop' \subseteq toStop, stage[j] # "active" \/ Over(j) \/ j \notin toStop',
         stage[j] \notin {"active", "marking"} \/ (stage[j] = "active" /\ Over(j)) \/ queue = <<>>,
         bridge' \in [Job -> Bridge], child' \in [Job -> Child]
  PROVE  IInv'
<1>1. Onward /\ Numbered'
  BY OnwardStays DEF IInv
<1>2. Line' /\ lock' \in [Session -> Seq(Job)] /\ stage' \in [Job -> Stage] /\ stage'[j] = "none"
  BY <1>1, LinePasses DEF IInv
<1>3. \A i \in Job \ {j} : stage'[i] = stage[i]
  BY DEF Finish, IInv, TypeOK
<1>4. StageFits'
  BY <1>1, <1>2, <1>3, StageMoves DEF IInv
<1>5. Over(j) => Over(j)'
  BY DEF Over
<1>6. Stopping'
  <2>1. toStop \subseteq Job
    BY DEF IInv, TypeOK
  <2>2. \A i \in toStop' : stage'[i] = stage[i] \/ Over(i)' \/ stage[i] # "active"
    BY <1>3, <1>5, <2>1
  <2>3. QED BY <1>1, <2>2, StoppingStays DEF IInv
<1>7. Pledged'
  <2>1. CASE queue = <<>>
    BY <2>1 DEF Pledged, Ops
  <2>2. CASE queue # <<>>
    <3>1. stage[j] \notin {"active", "marking"} \/ (stage[j] = "active" /\ Over(j)')
      BY <1>5, <2>2
    <3>2. \A i \in Job : \/ stage'[i] = stage[i]
                         \/ stage[i] = "active" /\ Over(i)'
                         \/ stage[i] \notin {"active", "marking"}
      <4>1. ASSUME NEW i \in Job, i # j PROVE stage'[i] = stage[i]
        BY <1>3, <4>1
      <4>2. QED BY <3>1, <4>1
    <3>3. queue \in Seq(Op) /\ Sane(queue) /\ Pledged
      BY DEF IInv, TypeOK
    <3>4. \A o \in Ops(queue) : Pledge(o)'
      BY <1>1, <3>2, <3>3, PledgesStay
    <3>5. QED BY <3>4 DEF Pledged
  <2>3. QED BY <2>1, <2>2
<1>8. Quiet'
  <2>1. health # "down"
    BY DEF IInv, Quiet
  <2>2. QED BY <2>1 DEF IInv, Quiet
<1>9. TypeOK'
  BY <1>2 DEF IInv, TypeOK
<1>10. QED BY <1>1, <1>2, <1>4, <1>6, <1>7, <1>8, <1>9 DEF IInv

\* The bridge reports.
LEMMA BridgeReportsIInv ==
  ASSUME IInv, NEW j \in Job, BridgeReports(j)
  PROVE  IInv'
<1>1. /\ stage[j] = "active" /\ health = "ready"
      /\ bridge' = [bridge EXCEPT ![j] = "reported"]
      /\ UNCHANGED <<job, lapsed, boots, health, draining, shutting, toStop, child, tail, late, ahead>>
  BY DEF BridgeReports, Runs, BridgeAt, jobVars, hostVars
<1>2. bridge' \in [Job -> Bridge] /\ child' \in [Job -> Child]
  BY <1>1 DEF IInv, TypeOK, Bridge
<1>3. CASE Over(j)
  <2>1. Finish(j) /\ UNCHANGED queue /\ AheadOfAll(j)
    BY <1>1, <1>3 DEF BridgeReports, FinishIf, IInv, Line, AtHead
  <2>2. QED BY <1>1, <1>2, <1>3, <2>1, LeavesIInv
<1>4. CASE ~Over(j)
  <2>1. PICK op \in Op : /\ queue' = Append(queue, op) /\ Fits(op) /\ op.by = "run" /\ op.job = j
    <3>1. job[j] \in View
      BY DEF IInv, TypeOK
    <3>2. \/ queue' = Append(queue, By("run", Complete(j, "whole")))
          \/ queue' = Append(queue, By("run", FailOp(job[j], j)))
      BY <1>4 DEF BridgeReports
    <3>3. QED BY <3>1, <3>2, EndingOps
  <2>2. UNCHANGED <<lock, stage>>
    BY <1>4 DEF BridgeReports, FinishIf
  <2>3. Pledge(op)' /\ \A o \in Ops(queue) : ~Alike(op, o)
    BY <1>1, <2>1, <2>2 DEF Pledge, Alike
  <2>4. TypeOK'
    <3>1. queue' \in Seq(Op)
      BY <2>1 DEF IInv, TypeOK
    <3>2. QED BY <1>1, <1>2, <2>2, <3>1 DEF IInv, TypeOK
  <2>5. QED BY <1>1, <2>1, <2>2, <2>3, <2>4, CallIInv
<1>5. QED BY <1>3, <1>4

\* The shutdown interrupts a run.
LEMMA InterruptIInv ==
  ASSUME IInv, NEW j \in Job, InterruptRun(j)
  PROVE  IInv'
<1>1. /\ health = "ready" /\ j \in toStop
      /\ UNCHANGED <<job, lapsed, boots, health, draining, shutting, tail, late, ahead>>
  BY DEF InterruptRun, jobVars
<1>2. bridge' \in [Job -> Bridge] /\ child' \in [Job -> Child]
  BY AbortType DEF InterruptRun, IInv
<1>3. CASE Over(j) /\ stage[j] = "active"
  <2>1. Finish(j) /\ UNCHANGED queue /\ toStop' = toStop \ {j} /\ AheadOfAll(j)
    BY <1>3 DEF InterruptRun, FinishIf, IInv, Line, AtHead
  <2>2. QED BY <1>1, <1>2, <1>3, <2>1, LeavesIInv
<1>4. CASE Over(j) /\ stage[j] # "active"
  <2>1. UNCHANGED <<queue, lock, stage>> /\ toStop' \subseteq toStop
    BY <1>4 DEF InterruptRun, FinishIf
  <2>2. TypeOK'
    BY <1>1, <1>2, <2>1 DEF IInv, TypeOK
  <2>3. QED BY <1>1, <2>1, <2>2, CallIInv
<1>5. CASE ~Over(j)
  <2>1. PICK op \in Op : /\ queue' = Append(queue, op) /\ Fits(op) /\ op.by = "shutdown" /\ op.job = j
    <3>1. job[j] \in View
      BY DEF IInv, TypeOK
    <3>2. queue' = Append(queue, By("shutdown", InterruptOp(job[j], j, "server_shutdown")))
      BY <1>5 DEF InterruptRun
    <3>3. QED BY <3>1, <3>2, ShutdownOps
  <2>2. UNCHANGED <<lock, stage, child, bridge, toStop>>
    BY <1>5 DEF InterruptRun
  <2>3. stage[j] = "active"
    BY <1>1, <1>5 DEF IInv, Stopping
  <2>4. Pledge(op)' /\ \A o \in Ops(queue) : ~Alike(op, o)
    BY <2>1, <2>2, <2>3 DEF Pledge, Alike
  <2>5. TypeOK'
    <3>1. queue' \in Seq(Op)
      BY <2>1 DEF IInv, TypeOK
    <3>2. QED BY <1>1, <1>2, <2>2, <3>1 DEF IInv, TypeOK
  <2>6. QED BY <1>1, <2>1, <2>2, <2>4, <2>5, CallIInv
<1>6. QED BY <1>3, <1>4, <1>5

\* A start takes its lease.
LEMMA MarkStartingIInv ==
  ASSUME IInv, NEW j \in Job, MarkStarting(j)
  PROVE  IInv'
<1>1. /\ health = "ready" /\ stage[j] = "waiting" /\ HoldsLock(j)
      /\ queue' = Append(queue, By("start", Do("starting", j)))
      /\ stage' = [stage EXCEPT ![j] = "marking"]
      /\ UNCHANGED <<job, lapsed, boots, health, draining, shutting, toStop, lock, bridge,
                     child, tail, late, ahead>>
  BY DEF MarkStarting, HoldsLock, jobVars, hostVars
<1>2. PICK op \in Op : /\ op = By("start", Do("starting", j)) /\ Fits(op)
                       /\ op.by = "start" /\ op.job = j
  <2>1. "start" \in Caller /\ "starting" \in OpKind
    BY DEF Caller, OpKind, Moves
  <2>2. QED BY <2>1, PlainOps DEF Fits
<1>3. stage \in [Job -> Stage] /\ queue \in Seq(Op) /\ Sane(queue) /\ Pledged
  BY DEF IInv, TypeOK
<1>4. stage' \in [Job -> Stage] /\ stage'[j] = "marking" /\ \A i \in Job \ {j} : stage'[i] = stage[i]
  BY <1>1, <1>3 DEF Stage
<1>5. Onward /\ Numbered'
  BY <1>1, OnwardStays DEF IInv
<1>6. Line'
  <2>1. AheadOfAll(j)
    BY <1>1, HolderIsFirst DEF IInv, Line
  <2>2. \A i \in Job : stage'[i] = "none" <=> stage[i] = "none"
    BY <1>1, <1>4
  <2>3. \A i \in Job : stage'[i] \in Holding => stage[i] \in Holding \/ AheadOfAll(i)
    BY <1>4, <2>1
  <2>4. QED BY <1>1, <1>5, <2>2, <2>3, LineStays DEF IInv
<1>7. StageFits'
  <2>1. job'[j].status = "accepted" \/ job'[j].status \in Terminal
    BY <1>1 DEF IInv, StageFits, Over
  <2>2. QED BY <1>1, <1>4, <1>5, <2>1, StageMoves DEF IInv
<1>8. Stopping'
  <2>1. \A i \in toStop' : stage'[i] = stage[i] \/ stage[i] # "active"
    BY <1>1, <1>4 DEF IInv, TypeOK
  <2>2. QED BY <1>1, <1>5, <2>1, StoppingStays DEF IInv
<1>9. queue' \in Seq(Op) /\ Sane(queue') /\ Pledged'
  <2>1. \A i \in Job : stage'[i] = stage[i] \/ stage[i] \notin {"active", "marking"}
    BY <1>1, <1>4
  <2>2. \A i \in Job : tail'[i] # <<>> \/ tail[i] = <<>>
    BY <1>1
  <2>3. \A o \in Ops(queue) : Pledge(o)'
    BY <1>3, <1>5, <2>1, <2>2, PledgesStay
  <2>4. \A o \in Ops(queue) : ~Alike(op, o)
    BY <1>1, <1>2, <1>3 DEF Pledged, Pledge, Alike
  <2>5. Pledge(op)'
    BY <1>2, <1>4 DEF Pledge
  <2>6. queue' \in Seq(Op) /\ Sane(queue') /\ Ops(queue') = Ops(queue) \cup {op}
    BY <1>1, <1>2, <1>3, <2>4, SaneAppend
  <2>7. QED BY <2>3, <2>5, <2>6 DEF Pledged
<1>10. TypeOK'
  BY <1>1, <1>4, <1>9 DEF IInv, TypeOK
<1>11. Quiet'
  BY <1>1 DEF Quiet
<1>12. QED BY <1>5, <1>6, <1>7, <1>8, <1>9, <1>10, <1>11 DEF IInv

\* The start is answered.
LEMMA StartAnsweredIInv ==
  ASSUME IInv, StartAnswered
  PROVE  IInv'
<1> DEFINE op == Head(queue)
           j == op.job
<1>1. /\ health = "ready" /\ queue # <<>> /\ op.by = "start"
      /\ job' = Written(op) /\ queue' = Tail(queue)
      /\ \/ Verdict(op) /\ stage' = [stage EXCEPT ![j] = "started"] /\ UNCHANGED lock
         \/ /\ ~Verdict(op) /\ job[j].status = "accepted"
            /\ stage' = [stage EXCEPT ![j] = "waiting"] /\ UNCHANGED lock
         \/ ~Verdict(op) /\ Finish(j)
      /\ UNCHANGED <<lapsed, boots, health, draining, shutting, toStop, bridge,
                     child, tail, late, ahead>>
  BY DEF StartAnswered, hostVars
<1>2. /\ queue \in Seq(Op) /\ job \in [Job -> View] /\ stage \in [Job -> Stage]
      /\ lock \in [Session -> Seq(Job)] /\ TypeOK /\ Numbered /\ Line
  BY DEF IInv, TypeOK
<1>3. /\ op \in Op /\ Fits(op) /\ op \in Ops(queue)
      /\ Tail(queue) \in Seq(Op) /\ Sane(Tail(queue)) /\ Ops(Tail(queue)) \subseteq Ops(queue)
      /\ \A o \in Ops(Tail(queue)) : ~Alike(op, o)
  BY <1>1, <1>2, SaneTail DEF IInv
<1>4. j \in Job /\ op.kind = "starting" /\ stage[j] = "marking" /\ AheadOfAll(j)
  BY <1>1, <1>3 DEF Fits, IInv, Pledged, Pledge, Line, AtHead
<1>5. Onward /\ Numbered'
  BY <1>1, <1>2, <1>3, OnwardWritten
<1>6. Verdict(op) => job'[j].status = "starting"
  BY <1>1, <1>2, <1>3, <1>4, WrittenEffect DEF Moves
<1>7. ~Verdict(op) => job' = job
  BY <1>1 DEF Written
<1>8. /\ Line' /\ lock' \in [Session -> Seq(Job)] /\ stage' \in [Job -> Stage]
      /\ stage'[j] \in {"started", "waiting", "none"}
      /\ stage'[j] = "started" => job'[j].status = "starting"
      /\ stage'[j] = "waiting" => job'[j].status = "accepted"
      /\ \A i \in Job \ {j} : stage'[i] = stage[i]
  <2>1. CASE Finish(j)
    <3>1. Line' /\ lock' \in [Session -> Seq(Job)] /\ stage' \in [Job -> Stage] /\ stage'[j] = "none"
      BY <1>2, <1>4, <1>5, <2>1, LinePasses
    <3>2. QED BY <1>2, <2>1, <3>1 DEF Finish
  <2>2. ASSUME UNCHANGED lock, NEW at \in {"started", "waiting"}, stage' = [stage EXCEPT ![j] = at]
        PROVE  Line' /\ lock' \in [Session -> Seq(Job)] /\ stage' \in [Job -> Stage]
               /\ stage'[j] = at /\ \A i \in Job \ {j} : stage'[i] = stage[i]
    <3>1. stage' \in [Job -> Stage] /\ stage'[j] = at /\ \A i \in Job \ {j} : stage'[i] = stage[i]
      BY <1>2, <1>4, <2>2 DEF Stage
    <3>2. \A i \in Job : stage'[i] = "none" <=> stage[i] = "none"
      BY <1>4, <3>1
    <3>3. \A i \in Job : stage'[i] \in Holding => stage[i] \in Holding \/ AheadOfAll(i)
      BY <1>4, <3>1
    <3>4. Line'
      BY <1>2, <1>5, <2>2, <3>2, <3>3, LineStays
    <3>5. QED BY <1>2, <2>2, <3>1, <3>4
  <2>3. QED BY <1>1, <1>6, <1>7, <2>1, <2>2
<1>9. StageFits'
  <2>1. \A i \in Job \ {j} : job'[i].status = job[i].status
    BY <1>1, <1>2, <1>3, WrittenEffect
  <2>2. StageFits /\ health' = health
    BY <1>1 DEF IInv
  <2>3. QED BY <1>4, <1>5, <1>8, <2>1, <2>2, StageMoves
<1>10. Stopping'
  <2>1. \A i \in toStop' : stage'[i] = stage[i] \/ stage[i] # "active"
    BY <1>1, <1>4, <1>8 DEF IInv, TypeOK
  <2>2. QED BY <1>1, <1>2, <1>5, <2>1, StoppingStays DEF IInv
<1>11. Pledged'
  <2>1. ~\E o \in Ops(Tail(queue)) : o.by = "start" /\ o.job = j
    BY <1>1, <1>3 DEF Alike
  <2>2. \A i \in Job : \/ stage'[i] = stage[i]
                       \/ stage[i] = "marking" /\ ~\E o \in Ops(Tail(queue)) : o.by = "start" /\ o.job = i
    BY <1>4, <1>8, <2>1
  <2>3. \A i \in Job : tail'[i] # <<>> \/ tail[i] = <<>>
    BY <1>1
  <2>4. \A o \in Ops(Tail(queue)) : Pledge(o)'
    BY <1>3, <1>5, <2>2, <2>3, PledgesStay DEF IInv
  <2>5. QED BY <1>1, <2>4 DEF Pledged
<1>12. TypeOK'
  <2>1. job' \in [Job -> View]
    BY <1>5 DEF Onward
  <2>2. QED BY <1>1, <1>3, <1>8, <2>1 DEF IInv, TypeOK
<1>13. Quiet' /\ Sane(queue')
  BY <1>1, <1>3 DEF Quiet
<1>14. QED BY <1>5, <1>8, <1>9, <1>10, <1>11, <1>12, <1>13 DEF IInv

\* The runner is called, or the shutdown came first.
LEMMA LaunchIInv ==
  ASSUME IInv, NEW j \in Job, Launch(j)
  PROVE  IInv'
<1>1. /\ stage[j] = "started" /\ stage \in [Job -> Stage] /\ bridge \in [Job -> Bridge]
      /\ UNCHANGED <<job, lapsed, boots, health, draining, shutting, toStop, queue,
                     child, tail, late, ahead>>
  BY DEF Launch, IInv, TypeOK, jobVars, hostVars
<1>2. CASE shutting # "no"
  <2>1. Finish(j) /\ UNCHANGED bridge /\ AheadOfAll(j)
    BY <1>1, <1>2 DEF Launch, IInv, Line, AtHead
  <2>2. child' \in [Job -> Child]
    BY <1>1 DEF IInv, TypeOK
  <2>3. QED BY <1>1, <2>1, <2>2, LeavesIInv
<1>3. CASE shutting = "no"
  <2>1. /\ stage' = [stage EXCEPT ![j] = "active"] /\ bridge' = [bridge EXCEPT ![j] = "called"]
        /\ UNCHANGED lock
    BY <1>3 DEF Launch
  <2>2. /\ stage' \in [Job -> Stage] /\ stage'[j] = "active" /\ bridge' \in [Job -> Bridge]
        /\ \A i \in Job \ {j} : stage'[i] = stage[i]
    BY <1>1, <2>1 DEF Stage, Bridge
  <2>3. Onward /\ Numbered'
    BY <1>1, OnwardStays DEF IInv
  <2>4. Line'
    <3>1. \A i \in Job : stage'[i] = "none" <=> stage[i] = "none"
      BY <1>1, <2>2
    <3>2. \A i \in Job : stage'[i] \in Holding => stage[i] \in Holding
      BY <1>1, <2>2 DEF Holding
    <3>3. QED BY <2>1, <2>3, <3>1, <3>2, LineStays DEF IInv
  <2>5. StageFits'
    <3>1. job'[j].status \notin {"absent", "accepted"}
      BY <1>1 DEF IInv, StageFits, Over, Terminal
    <3>2. QED BY <1>1, <2>2, <2>3, <3>1, StageMoves DEF IInv
  <2>6. Stopping'
    <3>1. \A i \in toStop' : stage'[i] = stage[i] \/ stage[i] # "active"
      BY <1>1, <2>2 DEF IInv, TypeOK
    <3>2. QED BY <1>1, <2>3, <3>1, StoppingStays DEF IInv
  <2>7. Pledged'
    <3>1. \A i \in Job : stage'[i] = stage[i] \/ stage[i] \notin {"active", "marking"}
      BY <1>1, <2>2
    <3>2. queue \in Seq(Op) /\ Sane(queue) /\ Pledged
      BY DEF IInv, TypeOK
    <3>3. \A i \in Job : tail'[i] # <<>> \/ tail[i] = <<>>
      BY <1>1
    <3>4. \A o \in Ops(queue) : Pledge(o)'
      BY <2>3, <3>1, <3>2, <3>3, PledgesStay
    <3>5. QED BY <1>1, <3>4 DEF Pledged
  <2>8. TypeOK'
    BY <1>1, <2>1, <2>2 DEF IInv, TypeOK
  <2>9. Quiet' /\ Sane(queue')
    <3>1. health # "down"
      BY <1>1 DEF IInv, Quiet
    <3>2. QED BY <1>1, <3>1 DEF IInv, Quiet
  <2>10. QED BY <2>3, <2>4, <2>5, <2>6, <2>7, <2>8, <2>9 DEF IInv
<1>4. QED BY <1>2, <1>3

\* A start is given up for the boot, or a broken journal's run is abandoned.
LEMMA GivenUpIInv ==
  ASSUME IInv, NEW j \in Job, GiveUp(j) \/ Abandon(j)
  PROVE  IInv'
<1>1. CASE GiveUp(j)
  <2>1. AheadOfAll(j) /\ stage[j] = "waiting"
    BY <1>1, HolderIsFirst DEF GiveUp, HoldsLock, IInv, Line
  <2>2. bridge' \in [Job -> Bridge] /\ child' \in [Job -> Child]
    BY <1>1 DEF GiveUp, IInv, TypeOK
  <2>3. QED BY <1>1, <2>1, <2>2, LeavesIInv DEF GiveUp, jobVars, hostVars
<1>2. CASE Abandon(j)
  <2>1. AheadOfAll(j) /\ stage[j] # "none"
    <3>1. CASE stage[j] = "waiting"
      BY <1>2, <3>1, HolderIsFirst DEF Abandon, IInv, Line
    <3>2. CASE stage[j] # "waiting"
      BY <1>2, <3>2 DEF Abandon, IInv, Line, AtHead, TypeOK, Stage
    <3>3. QED BY <3>1, <3>2
  <2>2. bridge' \in [Job -> Bridge] /\ child' \in [Job -> Child]
    BY <1>2, AbortType DEF Abandon, IInv
  <2>3. queue = <<>>
    BY <1>2 DEF Abandon, IInv, Quiet
  <2>4. QED BY <1>2, <2>1, <2>2, <2>3, LeavesIInv DEF Abandon, jobVars
<1>3. QED BY <1>1, <1>2

\* An admission is answered.
LEMMA AdmittedIInv ==
  ASSUME IInv, Admitted
  PROVE  IInv'
<1> DEFINE op == Head(queue)
           r == op.req
<1>1. /\ health = "ready" /\ queue # <<>> /\ op.by = "submit" /\ queue' = Tail(queue)
      /\ \/ UNCHANGED <<job, lock, stage>>
         \/ \E j \in Created(op) : /\ job' = [job EXCEPT ![j] = NewJob(r)]
                                   /\ lock' = [lock EXCEPT ![r.session] = Append(@, j)]
                                   /\ stage' = [stage EXCEPT ![j] = "waiting"]
      /\ UNCHANGED <<lapsed, boots, health, draining, shutting, toStop, bridge,
                     child, tail, late, ahead>>
  BY DEF Admitted, hostVars
<1>2. /\ queue \in Seq(Op) /\ job \in [Job -> View] /\ stage \in [Job -> Stage]
      /\ lock \in [Session -> Seq(Job)] /\ TypeOK /\ Numbered /\ Line
  BY DEF IInv, TypeOK
<1>3. /\ op \in Op /\ Fits(op)
      /\ Tail(queue) \in Seq(Op) /\ Sane(Tail(queue)) /\ Ops(Tail(queue)) \subseteq Ops(queue)
  BY <1>1, <1>2, SaneTail DEF IInv
<1>4. r \in Request
  BY <1>1, <1>3 DEF Fits
<1>5. CASE UNCHANGED <<job, lock, stage>>
  <2>1. Onward /\ Numbered' /\ RowFits
    BY <1>2, <1>5, OnwardStays DEF RowFits
  <2>2. (Line /\ StageFits /\ Stopping)' /\ lock' \in [Session -> Seq(Job)] /\ stage' \in [Job -> Stage]
    BY <1>1, <1>5, <2>1, RunsGoOn
  <2>3. Pledged'
    <3>1. \A o \in Ops(Tail(queue)) : Pledge(o)'
      BY <1>1, <1>3, <1>5, <2>1, PledgesStay DEF IInv
    <3>2. QED BY <1>1, <3>1 DEF Pledged
  <2>4. TypeOK'
    BY <1>1, <1>3, <1>5 DEF IInv, TypeOK
  <2>5. Quiet' /\ Sane(queue')
    BY <1>1, <1>3 DEF Quiet
  <2>6. QED BY <2>1, <2>2, <2>3, <2>4, <2>5 DEF IInv
<1>6. ASSUME NEW j \in Created(op), job' = [job EXCEPT ![j] = NewJob(r)],
             lock' = [lock EXCEPT ![r.session] = Append(@, j)],
             stage' = [stage EXCEPT ![j] = "waiting"]
      PROVE  IInv'
  <2>1. j \in Job /\ Fresh(job, j)
    BY DEF Created
  <2>2. Onward /\ Numbered' /\ Exists(job', j) /\ job'[j].req = r /\ job'[j].status = "accepted"
    BY <1>2, <1>4, <1>6, <2>1, OnwardCreated
  <2>3. Line' /\ lock' \in [Session -> Seq(Job)] /\ stage' \in [Job -> Stage]
    BY <1>2, <1>4, <1>6, <2>1, <2>2, LineGrows
  <2>4. /\ stage[j] = "none" /\ stage'[j] = "waiting"
        /\ \A i \in Job \ {j} : stage'[i] = stage[i] /\ job'[i] = job[i]
    BY <1>2, <1>6, <2>1 DEF Line, InItsLine, Fresh
  <2>5. StageFits'
    BY <1>1, <2>1, <2>2, <2>4, StageMoves DEF IInv
  <2>6. Stopping'
    <3>1. \A i \in toStop' : stage'[i] = stage[i] \/ stage[i] # "active"
      BY <1>1, <2>4 DEF IInv, TypeOK
    <3>2. QED BY <1>1, <1>2, <2>2, <3>1, StoppingStays DEF IInv
  <2>7. Pledged'
    <3>1. \A i \in Job : stage'[i] = stage[i] \/ stage[i] \notin {"active", "marking"}
      BY <2>4
    <3>2. \A i \in Job : tail'[i] # <<>> \/ tail[i] = <<>>
      BY <1>1
    <3>3. \A o \in Ops(Tail(queue)) : Pledge(o)'
      BY <1>3, <2>2, <3>1, <3>2, PledgesStay DEF IInv
    <3>4. QED BY <1>1, <3>3 DEF Pledged
  <2>8. TypeOK'
    <3>1. job' \in [Job -> View]
      BY <2>2 DEF Onward
    <3>2. QED BY <1>1, <1>3, <2>3, <3>1 DEF IInv, TypeOK
  <2>9. Quiet' /\ Sane(queue')
    BY <1>1, <1>3 DEF Quiet
  <2>10. QED BY <2>2, <2>3, <2>5, <2>6, <2>7, <2>8, <2>9 DEF IInv
<1>7. QED BY <1>1, <1>5, <1>6

-----------------------------------------------------------------------------
(***************************************************************************)
(* The invariant is inductive: a broken journal, a crash, a boot.          *)
(***************************************************************************)

\* Whatever is left of a cut append fits how far the runs got.
LEMMA CutFits ==
  ASSUME IInv, queue # <<>>, job' \in Cut(Head(queue))
  PROVE  /\ Onward /\ Numbered'
         /\ \A j \in Job : /\ stage[j] = "started" => job'[j].status = "starting" \/ job'[j].status \in Terminal
                           /\ stage[j] = "active" => job'[j].status \notin {"absent", "accepted"}
<1> DEFINE op == Head(queue)
<1>1. /\ queue \in Seq(Op) /\ job \in [Job -> View] /\ TypeOK /\ Numbered
      /\ op \in Op /\ Fits(op) /\ Pledge(op)
  <2>1. queue \in Seq(Op) /\ job \in [Job -> View] /\ TypeOK /\ Numbered
    BY DEF IInv, TypeOK
  <2>2. QED BY <2>1, SaneTail DEF IInv, Pledged
<1>2. Onward /\ Numbered'
  BY <1>1, OnwardCut
<1>3. \A j \in Job : /\ stage[j] = "started" => job[j].status = "starting" \/ Over(j)
                     /\ stage[j] = "active" => job[j].status \notin {"absent", "accepted"}
                     /\ Over(j) => job'[j].status \in Terminal
  <2>1. \A j \in Job : Over(j) => job'[j].status \in Terminal
    BY <1>2 DEF Onward, Over
  <2>2. QED BY <2>1 DEF IInv, StageFits
<1>4. CASE job' = job
  BY <1>2, <1>3, <1>4 DEF Over
<1>5. CASE job' = Written(op)
  <2>1. SUFFICES ASSUME NEW j \in Job, stage[j] \in {"started", "active"}
                 PROVE  /\ stage[j] = "started" => job'[j].status = "starting" \/ job'[j].status \in Terminal
                        /\ stage[j] = "active" => job'[j].status \notin {"absent", "accepted"}
    BY <1>2
  <2>2. CASE job'[j].status = job[j].status
    BY <1>3, <2>2 DEF Over
  <2>3. CASE job'[j].status # job[j].status
    <3>1. /\ j = op.job /\ op.kind \in Moves /\ op.kind \in Allowed[job[j].status]
          /\ job'[j].status = op.kind
      BY <1>1, <1>5, <2>3, WrittenEffect
    <3>2. job'[j].status \notin {"absent", "accepted"}
      BY <1>1, <3>1, AllowedFacts DEF View
    <3>3. op.by \in {"start", "tail", "run", "deadline", "user", "shutdown"}
      BY <1>1, <3>1 DEF Fits, Moves, Terminal
    <3>4. stage[j] = "started" => op.by = "user" \/ Over(j)
      BY <1>1, <3>1, <3>3 DEF Pledge
    <3>5. op.by = "user" => job'[j].status = "canceled"
      BY <1>1, <3>1 DEF Fits
    <3>6. QED BY <1>3, <3>2, <3>4, <3>5 DEF Terminal
  <2>4. QED BY <2>2, <2>3
<1>6. ASSUME NEW i \in Created(op), job' = [job EXCEPT ![i] = NewJob(op.req)]
      PROVE  \A j \in Job : /\ stage[j] = "started" => job'[j].status = "starting" \/ job'[j].status \in Terminal
                            /\ stage[j] = "active" => job'[j].status \notin {"absent", "accepted"}
  <2>1. i \in Job /\ ~Exists(job, i)
    BY DEF Created, Fresh
  <2>2. stage[i] = "none"
    BY <2>1 DEF IInv, Line, InItsLine
  <2>3. \A j \in Job \ {i} : job'[j] = job[j]
    BY <1>1, <1>6
  <2>4. QED BY <1>3, <2>2, <2>3 DEF Over
<1>7. QED BY <1>2, <1>4, <1>5, <1>6 DEF Cut

\* A journal that breaks leaves no queue, and at most one row more or less.
LEMMA JournalBreaksIInv ==
  ASSUME IInv, JournalBreaks
  PROVE  IInv'
<1>1. /\ health' = "degraded" /\ queue # <<>> /\ job' \in Cut(Head(queue)) /\ queue' = <<>>
      /\ tail' = [j \in Job |-> <<>>]
      /\ UNCHANGED <<lapsed, boots, draining, shutting, toStop, lock, stage, bridge, child, late, ahead>>
  BY DEF JournalBreaks
<1>2. /\ Onward /\ Numbered'
      /\ \A j \in Job : /\ stage[j] = "started" => job'[j].status = "starting" \/ job'[j].status \in Terminal
                        /\ stage[j] = "active" => job'[j].status \notin {"absent", "accepted"}
  BY <1>1, CutFits
<1>3. Line'
  BY <1>1, <1>2, LineStays DEF IInv
<1>4. StageFits'
  BY <1>1, <1>2 DEF StageFits, Over
<1>5. Stopping'
  BY <1>1, <1>2, StoppingStays DEF IInv
<1>6. Sane(queue') /\ Pledged' /\ Quiet'
  BY <1>1 DEF Sane, Pledged, Ops, Quiet
<1>7. TypeOK'
  <2>1. job' \in [Job -> View]
    BY <1>2 DEF Onward
  <2>2. tail' \in [Job -> Seq(TailKind)] /\ queue' \in Seq(Op)
    BY <1>1
  <2>3. QED BY <1>1, <2>1, <2>2 DEF IInv, TypeOK, TailKind
<1>8. QED BY <1>2, <1>3, <1>4, <1>5, <1>6, <1>7 DEF IInv

\* A process that exits, or is killed, leaves no lines, stages or bridges.
LEMMA ExitIInv ==
  ASSUME IInv, Crash \/ ShutdownEnds
  PROVE  IInv'
<1>1. /\ health' = "down" /\ queue' = <<>> /\ draining' = FALSE /\ shutting' = "no" /\ toStop' = {}
      /\ lock' = [s \in Session |-> <<>>] /\ stage' = [j \in Job |-> "none"]
      /\ bridge' = [j \in Job |-> "off"] /\ tail' = [j \in Job |-> <<>>]
      /\ child' = [j \in Job |-> IF child[j] = "idle" THEN "gone" ELSE child[j]]
      /\ late' = [j \in Job |-> "no"] /\ ahead' = [j \in Job |-> 0]
      /\ UNCHANGED <<lapsed, boots>>
  BY DEF Crash, ShutdownEnds, Exit
<1>2. Onward /\ Numbered'
  <2>1. UNCHANGED job \/ (queue # <<>> /\ job' \in Cut(Head(queue)))
    BY DEF Crash, ShutdownEnds
  <2>2. QED BY <2>1, OnwardStays, CutFits DEF IInv
<1>3. Line'
  BY <1>1 DEF Line, Ordered, Members, InItsLine, AtHead
<1>4. StageFits' /\ Stopping' /\ Quiet'
  BY <1>1 DEF StageFits, Stopping, Quiet
<1>5. Sane(queue') /\ Pledged'
  BY <1>1 DEF Sane, Pledged, Ops
<1>6. TypeOK'
  <2>1. job' \in [Job -> View]
    BY <1>2 DEF Onward
  <2>2. tail' \in [Job -> Seq(TailKind)] /\ queue' \in Seq(Op) /\ lock' \in [Session -> Seq(Job)]
    BY <1>1
  <2>3. child' \in [Job -> Child] /\ stage' \in [Job -> Stage] /\ bridge' \in [Job -> Bridge]
    BY <1>1 DEF IInv, TypeOK, Child, Stage, Bridge
  <2>4. QED BY <1>1, <2>1, <2>2, <2>3 DEF IInv, TypeOK, TailKind
<1>7. QED BY <1>2, <1>3, <1>4, <1>5, <1>6 DEF IInv

\* The rows a boot writes.
LEMMA BootOps ==
  ASSUME NEW j \in Job, NEW v \in View
  PROVE  /\ \A text \in {"whole", "checkpoint"} :
              /\ Complete(j, text) \in Op /\ Complete(j, text).kind = "completed"
              /\ Complete(j, text).fence = FALSE /\ Complete(j, text).cause = "none"
         /\ Interrupt(j, v.owned, "server_restarted") \in Op
         /\ Interrupt(j, v.owned, "server_restarted").kind = "interrupted"
         /\ Interrupt(j, v.owned, "server_restarted").fence = v.owned
         /\ Interrupt(j, v.owned, "server_restarted").cause = "server_restarted"
  BY DEF Complete, Interrupt, Do, Op, OpKind, Moves, Terminal, Response, Cause, Caller, View

\* Completing a job.
LEMMA CompletedEffect ==
  ASSUME NEW v \in View, NEW j \in Job, NEW text \in {"whole", "checkpoint"}
  PROVE  /\ Apply(v, Complete(j, text)) \in View /\ Apply(v, Complete(j, text)).req = v.req
         /\ "completed" \in Allowed[v.status] =>
              /\ Apply(v, Complete(j, text)).status = "completed"
              /\ ~Apply(v, Complete(j, text)).fence /\ Apply(v, Complete(j, text)).cause = "none"
              /\ Apply(v, Complete(j, text)).checkpoint = v.checkpoint
              /\ Apply(v, Complete(j, text)).response = text
         /\ "completed" \notin Allowed[v.status] =>
              /\ Apply(v, Complete(j, text)).status = v.status
              /\ Apply(v, Complete(j, text)).fence = v.fence
              /\ Apply(v, Complete(j, text)).cause = v.cause
<1>1. PICK op \in Op : /\ op = Complete(j, text) /\ op.kind = "completed" /\ op.fence = FALSE
                       /\ op.cause = "none" /\ op.response = text
  <2>1. Complete(j, text).response = text
    BY DEF Complete, Do
  <2>2. QED BY <2>1, BootOps
<1>2. op.kind # "accepted" /\ op.kind \in Moves
  BY <1>1 DEF Moves, Terminal
<1>3. /\ Apply(v, op) \in View /\ Apply(v, op).req = v.req
      /\ \/ /\ op.kind \in Allowed[v.status] /\ Apply(v, op).status = op.kind
            /\ Apply(v, op).fence = op.fence /\ Apply(v, op).cause = op.cause
            /\ Apply(v, op).checkpoint = v.checkpoint /\ Apply(v, op).response = op.response
         \/ /\ op.kind \notin Allowed[v.status] /\ Apply(v, op).status = v.status
            /\ Apply(v, op).fence = v.fence /\ Apply(v, op).cause = v.cause
  BY <1>2, ApplyEffect
<1>4. QED BY <1>1, <1>3

\* Interrupting one.
LEMMA InterruptedEffect ==
  ASSUME NEW v \in View, NEW j \in Job, "interrupted" \in Allowed[v.status],
         NEW w, w = Apply(v, Interrupt(j, v.owned, "server_restarted"))
  PROVE  /\ w \in View /\ w.req = v.req /\ w.status = "interrupted"
         /\ w.fence = v.owned /\ w.cause = "server_restarted" /\ w.checkpoint = v.checkpoint
<1>1. PICK op \in Op : /\ op = Interrupt(j, v.owned, "server_restarted") /\ op.kind = "interrupted"
                       /\ op.fence = v.owned /\ op.cause = "server_restarted"
  BY BootOps
<1>2. op.kind # "accepted" /\ op.kind \in Moves
  BY <1>1 DEF Moves, Terminal
<1>3. /\ Apply(v, op) \in View /\ Apply(v, op).req = v.req
      /\ Apply(v, op).status = op.kind
      /\ Apply(v, op).fence = op.fence /\ Apply(v, op).cause = op.cause
      /\ Apply(v, op).checkpoint = v.checkpoint
  BY <1>1, <1>2, ApplyEffect
<1>4. QED BY <1>1, <1>3

\* What the boot makes of a job.  An unfinished one that is not kept ends, with its
\* fence if the last process owned a child for it.
LEMMA Classification ==
  ASSUME job \in [Job -> View], NEW j \in Job,
         NEW kept \in SUBSET {k \in Job : job[k].status = "accepted"}
  PROVE  /\ Classified(j, kept) \in View /\ Classified(j, kept).req = job[j].req
         /\ job[j].status \notin Live \/ j \in kept => Classified(j, kept) = job[j]
         /\ job[j].status \in Live /\ j \notin kept =>
              \/ /\ Classified(j, kept).status = "completed"
                 /\ ~Classified(j, kept).fence /\ Classified(j, kept).cause = "none"
                 /\ Classified(j, kept).checkpoint => job[j].checkpoint
                 /\ job[j].status # "answer_ready" => Classified(j, kept).response = "checkpoint"
              \/ /\ job[j].status # "answer_ready" /\ Classified(j, kept).status = "interrupted"
                 /\ Classified(j, kept).fence = job[j].owned
                 /\ Classified(j, kept).cause = "server_restarted"
                 /\ Classified(j, kept).checkpoint => job[j].checkpoint
              \/ /\ job[j].checkpoint /\ job[j].status = "accepted"
                 /\ Classified(j, kept).status = "accepted"
                 /\ Classified(j, kept).fence = job[j].fence /\ Classified(j, kept).cause = job[j].cause
<1> DEFINE v == job[j]
           w == Classified(j, kept)
<1>1. v \in View /\ v.status \in Status
  BY DEF View
<1>2. CASE v.status \notin Live \/ j \in kept
  <2>1. w = v
    <3>1. v.status # "answer_ready"
      BY <1>2 DEF Live
    <3>2. QED BY <1>2, <3>1 DEF Classified
  <2>2. QED BY <1>1, <1>2, <2>1
<1>3. CASE v.status = "answer_ready" /\ j \notin kept
  <2>1. w = Apply(v, Complete(j, "whole"))
    BY <1>3 DEF Classified, Live
  <2>2. "completed" \in Allowed[v.status]
    BY <1>3 DEF Allowed
  <2>3. /\ w \in View /\ w.req = v.req /\ w.status = "completed"
        /\ ~w.fence /\ w.cause = "none" /\ w.checkpoint = v.checkpoint
    BY <1>1, <2>1, <2>2, CompletedEffect
  <2>4. QED BY <1>3, <2>3 DEF Live
<1>4. CASE v.status \in {"accepted", "starting", "running"} /\ j \notin kept
  <2>1. w = Apply(v, InterruptOp(v, j, "server_restarted"))
    BY <1>4 DEF Classified, Live
  <2>2. CASE v.checkpoint
    <3>1. w = Apply(v, Complete(j, "checkpoint"))
      BY <2>1, <2>2 DEF InterruptOp
    <3>2. CASE v.status = "accepted"
      <4>1. "completed" \notin Allowed[v.status]
        BY <3>2 DEF Allowed
      <4>2. /\ w \in View /\ w.req = v.req /\ w.status = v.status
            /\ w.fence = v.fence /\ w.cause = v.cause
        BY <1>1, <3>1, <4>1, CompletedEffect
      <4>3. QED BY <1>4, <2>2, <3>2, <4>2 DEF Live
    <3>3. CASE v.status # "accepted"
      <4>1. "completed" \in Allowed[v.status]
        BY <1>4, <3>3 DEF Allowed, Terminal
      <4>2. /\ w \in View /\ w.req = v.req /\ w.status = "completed"
            /\ ~w.fence /\ w.cause = "none" /\ w.checkpoint = v.checkpoint
            /\ w.response = "checkpoint"
        BY <1>1, <3>1, <4>1, CompletedEffect
      <4>3. QED BY <1>4, <4>2 DEF Live
    <3>4. QED BY <3>2, <3>3
  <2>3. CASE ~v.checkpoint
    <3>1. w = Apply(v, Interrupt(j, v.owned, "server_restarted"))
      BY <1>4, <2>1, <2>3 DEF InterruptOp
    <3>2. "interrupted" \in Allowed[v.status]
      BY <1>4 DEF Allowed, Terminal
    <3>3. /\ w \in View /\ w.req = v.req /\ w.status = "interrupted"
          /\ w.fence = v.owned /\ w.cause = "server_restarted" /\ w.checkpoint = v.checkpoint
      BY <1>1, <3>1, <3>2, InterruptedEffect
    <3>4. QED BY <1>4, <3>3 DEF Live
  <2>4. QED BY <2>2, <2>3
<1>5. QED BY <1>2, <1>3, <1>4 DEF Live

\* A boot lines up what never started, in the order of its first rows.
LEMMA BootIInv ==
  ASSUME IInv, Boot
  PROVE  IInv'
<1>1. PICK kept \in SUBSET {j \in Job : job[j].status = "accepted"} :
        /\ job' = [j \in Job |-> Classified(j, kept)]
        /\ lock' \in [Session -> Lines]
        /\ \A s \in Session : InOrder(lock'[s], {j \in kept : SessionOf(j) = s})
        /\ stage' = [j \in Job |-> IF j \in kept THEN "waiting" ELSE "none"]
  BY DEF Boot
<1>2. /\ health' = "ready" /\ boots' = boots + 1 /\ queue = <<>> /\ queue' = <<>>
      /\ stage = [j \in Job |-> "none"]
      /\ UNCHANGED <<lapsed, draining, shutting, toStop, bridge, child, tail, late, ahead>>
  BY DEF Boot, IInv, Quiet
<1>3. job \in [Job -> View]
  BY DEF IInv, TypeOK
<1>4. \A j \in Job : /\ job'[j] \in View /\ job'[j].req = job[j].req
                     /\ job[j].status \notin Live \/ j \in kept => job'[j] = job[j]
                     /\ job[j].status \in Live => job'[j].status # "absent"
  BY <1>1, <1>3, Classification
<1>5. Onward
  BY <1>1, <1>4 DEF Onward, Exists, Over, Live, Terminal
<1>6. \A j \in Job : Exists(job', j) => Exists(job, j)
  BY <1>4 DEF Exists, Live
<1>7. Numbered'
  BY <1>4, <1>5, <1>6 DEF IInv, Numbered, Onward
<1>8. \A s \in Session : /\ lock'[s] \in Seq(Job) /\ DOMAIN lock'[s] = 1 .. Len(lock'[s])
  <2>1. \A s \in Session : lock'[s] \in Lines
    BY <1>1
  <2>2. QED BY <2>1, MaxJobsAssumption DEF Lines
<1>9. Ordered'
  BY <1>1, <1>8 DEF Ordered, InOrder
<1>10. \A s \in Session : {lock'[s][a] : a \in 1 .. Len(lock'[s])} = {j \in kept : SessionOf(j) = s}
  BY <1>1, <1>8 DEF InOrder
<1>11. \A j \in kept : /\ j \in Job /\ job[j].status = "accepted" /\ job'[j] = job[j] /\ Exists(job', j)
                       /\ SessionOf(j)' = SessionOf(j) /\ SessionOf(j) \in Session
                       /\ stage'[j] = "waiting"
  <2>1. \A j \in kept : /\ j \in Job /\ job[j].status = "accepted" /\ job'[j] = job[j]
                        /\ Exists(job, j) /\ Exists(job', j) /\ stage'[j] = "waiting"
    BY <1>1, <1>4 DEF Exists
  <2>2. \A j \in Job : Exists(job, j) => SessionOf(j) \in Session
    BY DEF IInv, Numbered, SessionOf, Session
  <2>3. QED BY <2>1, <2>2 DEF SessionOf
<1>12. Members'
  <2>1. ASSUME NEW s \in Session, NEW a \in 1 .. Len(lock'[s])
        PROVE  /\ Exists(job', lock'[s][a]) /\ SessionOf(lock[s][a])' = s
               /\ stage'[lock'[s][a]] # "none"
    <3>1. lock'[s][a] \in {j \in kept : SessionOf(j) = s}
      BY <1>10, <2>1
    <3>2. QED BY <1>11, <3>1 DEF SessionOf
  <2>2. QED BY <2>1 DEF Members
<1>13. InItsLine'
  <2>1. ASSUME NEW j \in Job, stage'[j] # "none"
        PROVE  /\ Exists(job', j)
               /\ \E a \in 1 .. Len(lock[SessionOf(j)])' : lock[SessionOf(j)]'[a] = j
    <3>1. j \in kept
      BY <1>1, <2>1
    <3>2. j \in {lock'[SessionOf(j)][a] : a \in 1 .. Len(lock'[SessionOf(j)])}
      BY <1>10, <1>11, <3>1
    <3>3. QED BY <1>11, <3>1, <3>2
  <2>2. QED BY <2>1 DEF InItsLine
<1>14. AtHead' /\ StageFits'
  <2>1. \A j \in Job : stage'[j] # "none" => stage'[j] = "waiting" /\ job'[j].status = "accepted"
    BY <1>1, <1>11
  <2>2. QED BY <2>1 DEF AtHead, StageFits
<1>15. Stopping'
  <2>1. \A j \in toStop' : stage[j] # "active"
    BY <1>2 DEF IInv, TypeOK
  <2>2. QED BY <1>2, <1>5, <2>1, StoppingStays DEF IInv
<1>16. TypeOK'
  <2>1. job' \in [Job -> View] /\ lock' \in [Session -> Seq(Job)]
    BY <1>1, <1>5, <1>8 DEF Onward
  <2>2. stage' \in [Job -> Stage] /\ boots' \in Nat /\ queue' \in Seq(Op)
    BY <1>1, <1>2 DEF Stage, IInv, TypeOK
  <2>3. QED BY <1>2, <2>1, <2>2 DEF IInv, TypeOK
<1>17. Sane(queue') /\ Pledged' /\ Quiet'
  BY <1>2 DEF Sane, Pledged, Ops, Quiet
<1>18. QED BY <1>7, <1>9, <1>12, <1>13, <1>14, <1>15, <1>16, <1>17 DEF IInv, Line

-----------------------------------------------------------------------------
\* The start holds the invariant.
LEMMA InitIInv == Init => IInv
<1> SUFFICES ASSUME Init PROVE IInv
  OBVIOUS
<1>1. TypeOK
  <2>1. job \in [Job -> View]
    BY NewJobType DEF Init
  <2>2. /\ stage \in [Job -> Stage] /\ bridge \in [Job -> Bridge] /\ child \in [Job -> Child]
    BY DEF Init, Stage, Bridge, Child
  <2>3. /\ tail \in [Job -> Seq(TailKind)] /\ queue \in Seq(Op) /\ lock \in [Session -> Seq(Job)]
    BY DEF Init
  <2>4. /\ late \in [Job -> {"no", "complete", "fail", "reported"}] /\ ahead \in [Job -> Nat]
    BY DEF Init
  <2>5. QED BY <2>1, <2>2, <2>3, <2>4 DEF Init, TypeOK, TailKind
<1>2. Sane(queue) /\ Pledged /\ Quiet
  BY DEF Init, Sane, Pledged, Ops, Quiet
<1>3. Numbered
  BY DEF Init, Numbered, Exists, AbsentJob
<1>4. Line
  BY DEF Init, Line, Ordered, Members, InItsLine, AtHead
<1>5. StageFits /\ Stopping
  BY DEF Init, StageFits, Stopping
<1>6. QED BY <1>1, <1>2, <1>3, <1>4, <1>5 DEF IInv

\* Every step keeps it.
LEMMA NextIInv ==
  ASSUME IInv, [Next]_vars
  PROVE  IInv'
<1>1. CASE UNCHANGED vars
  BY <1>1, AroundIInv
<1>2. ASSUME NEW r \in Request, Submit(r) PROVE IInv'
  BY <1>2, SubmitIInv
<1>3. ASSUME NEW j \in Job, Step(j) PROVE IInv'
  BY <1>3, MarkStartingIInv, LaunchIInv, GivenUpIInv, RunIInv, BridgeReportsIInv, DeadlineIInv,
     CancelIInv, InterruptIInv, AroundIInv DEF Step
<1>4. CASE Writer
  BY <1>4, AdmittedIInv, StartAnsweredIInv, CallbackIInv, EndIInv DEF Writer
<1>5. CASE JournalBreaks
  BY <1>5, JournalBreaksIInv
<1>6. CASE ShutdownBegins \/ ShutdownInterrupts \/ \E on \in BOOLEAN : Drain(on)
  BY <1>6, AroundIInv
<1>7. CASE ShutdownEnds \/ Crash \/ Boot
  BY <1>7, ExitIInv, BootIInv
<1>8. QED BY <1>1, <1>2, <1>3, <1>4, <1>5, <1>6, <1>7 DEF Next

\* The inductive invariant is an invariant.
THEOREM Invariance == Spec => []IInv
  BY InitIInv, NextIInv, PTL DEF Spec

\* Every variable keeps its type: no deadline waits for a negative number of
\* callbacks, no line holds anything but jobs, no row makes a job malformed.
THEOREM Typing == Spec => []TypeOK
<1>1. IInv => TypeOK
  BY DEF IInv
<1>2. QED BY <1>1, Invariance, PTL

-----------------------------------------------------------------------------
(***************************************************************************)
(* What any step may do to a job, a run and a child.                       *)
(***************************************************************************)

\* The journal changes by the head operation, whole or cut, or at a boot.
LEMMA JobSteps ==
  ASSUME IInv, [Next]_vars
  PROVE  \/ UNCHANGED job
         \/ health = "ready" /\ queue # <<>> /\ job' \in Cut(Head(queue))
         \/ Boot
<1>1. CASE Admitted
  BY <1>1 DEF Admitted, Cut
<1>2. CASE \/ StartAnswered \/ CallbackAnswered \/ EndAnswered \/ CancelAnswered \/ InterruptAnswered
  BY <1>2 DEF StartAnswered, CallbackAnswered, EndAnswered, CancelAnswered, InterruptAnswered, Cut
<1>3. CASE JournalBreaks \/ Crash
  BY <1>3 DEF JournalBreaks, Crash, IInv, Quiet
<1>4. ASSUME NEW j \in Job, Step(j) PROVE UNCHANGED job
  <2>1. CASE \/ MarkStarting(j) \/ Launch(j) \/ GiveUp(j) \/ Spawn(j) \/ ProviderAnswers(j)
             \/ ProviderCheckpoints(j) \/ RunFails(j) \/ PostDone(j)
    BY <2>1 DEF MarkStarting, Launch, GiveUp, Spawn, ProviderAnswers, ProviderCheckpoints, RunFails,
                PostDone, jobVars
  <2>2. CASE \/ BridgeReports(j) \/ DeadlineFires(j) \/ Cancel(j) \/ InterruptRun(j) \/ Abandon(j)
             \/ ChildEnds(j) \/ FenceLapses(j)
    BY <2>2 DEF BridgeReports, DeadlineFires, Cancel, InterruptRun, Abandon, ChildEnds, FenceLapses, jobVars
  <2>3. QED BY <1>4, <2>1, <2>2 DEF Step
<1>5. CASE \/ UNCHANGED vars \/ \E r \in Request : Submit(r)
           \/ ShutdownBegins \/ ShutdownInterrupts \/ ShutdownEnds \/ \E on \in BOOLEAN : Drain(on)
  BY <1>5 DEF vars, Submit, ShutdownBegins, ShutdownInterrupts, ShutdownEnds, Drain, jobVars
<1>6. QED BY <1>1, <1>2, <1>3, <1>4, <1>5 DEF Next, Writer

\* What the head operation does to a job.
LEMMA HeadEffect ==
  ASSUME IInv, queue # <<>>, job' \in Cut(Head(queue)), NEW j \in Job
  PROVE  /\ Over(j) => /\ job'[j].status = job[j].status /\ job'[j].cause = job[j].cause
                       /\ job'[j].fence = job[j].fence
         /\ Exists(job, j) /\ job[j].owned => job'[j].owned
         /\ job'[j].fence => job[j].fence \/ job'[j].status = "interrupted"
         /\ job'[j].cause = "server_restarted" => job[j].cause = "server_restarted"
         /\ \/ job'[j].status = job[j].status
            \/ job'[j].status \in Allowed[job[j].status]
            \/ ~Exists(job, j) /\ job'[j].status = "accepted" /\ ~job'[j].checkpoint
         /\ job'[j].checkpoint => job[j].checkpoint \/ job'[j].status = "running"
         /\ job[j].status = "accepted" /\ job'[j].status = "starting" =>
              Verdict(Head(queue)) /\ Head(queue).by = "start" /\ Head(queue).job = j
         /\ job'[j].status \notin {job[j].status, "accepted"} =>
              /\ Head(queue) \in Ops(queue) /\ Fits(Head(queue)) /\ Head(queue).job = j
              /\ job' = Written(Head(queue)) /\ Head(queue).kind = job'[j].status
              /\ job'[j].response = Head(queue).response /\ job'[j].cause = Head(queue).cause
<1> DEFINE op == Head(queue)
<1>1. /\ queue \in Seq(Op) /\ job \in [Job -> View] /\ op \in Op /\ Fits(op) /\ op \in Ops(queue)
      /\ job[j] \in View /\ job[j].status \in Status
  <2>1. queue \in Seq(Op) /\ job \in [Job -> View]
    BY DEF IInv, TypeOK
  <2>2. QED BY <2>1, SaneTail DEF IInv, View
<1>2. CASE job'[j] = job[j]
  BY <1>2
<1>3. CASE job' = Written(op) /\ job'[j] # job[j]
  <2>1. op.kind # "accepted" /\ Verdict(op) /\ j = op.job /\ job'[j] = Apply(job[j], op)
    BY <1>1, <1>3 DEF Written
  <2>2. op.cause # "server_restarted" /\ (op.fence => op.kind = "interrupted")
    BY <1>1 DEF Fits
  <2>3. op.kind = "starting" => op.by = "start"
    BY <1>1 DEF Fits, TailKind
  <2>4. Accepts(job, lapsed, op)
    BY <2>1 DEF Verdict
  <2>5. op.kind = "checkpoint" => job[j].status = "running"
    BY <2>1, <2>4 DEF Accepts
  <2>6. job[j].status \in Terminal => Allowed[job[j].status] = {}
    BY <1>1, AllowedFacts
  <2>7. /\ job[j].owned => job'[j].owned
        /\ \/ /\ op.kind \in Moves /\ op.kind \in Allowed[job[j].status]
              /\ job'[j].status = op.kind
              /\ job'[j].fence = op.fence /\ job'[j].cause = op.cause
              /\ job'[j].checkpoint = job[j].checkpoint /\ job'[j].response = op.response
           \/ /\ job'[j].status = job[j].status
              /\ job'[j].fence = job[j].fence /\ job'[j].cause = job[j].cause
              /\ job'[j].checkpoint => job[j].checkpoint \/ op.kind = "checkpoint"
    BY <1>1, <2>1, ApplyEffect
  <2>8. CASE op.kind \in Moves /\ op.kind \in Allowed[job[j].status] /\ job'[j].status = op.kind
    <3>1. /\ ~Over(j) /\ job'[j].fence = op.fence /\ job'[j].cause = op.cause
          /\ job'[j].checkpoint = job[j].checkpoint /\ job'[j].response = op.response
      <4>1. op.kind # job[j].status
        BY <1>1, <2>8 DEF Allowed, Status, Live, Terminal
      <4>2. QED BY <2>6, <2>7, <2>8, <4>1 DEF Over
    <3>2. QED BY <1>1, <1>3, <2>1, <2>2, <2>3, <2>7, <2>8, <3>1
  <2>9. CASE /\ job'[j].status = job[j].status
             /\ job'[j].fence = job[j].fence /\ job'[j].cause = job[j].cause
             /\ job'[j].checkpoint => job[j].checkpoint \/ op.kind = "checkpoint"
    BY <2>5, <2>7, <2>9
  <2>10. QED BY <2>7, <2>8, <2>9
<1>4. ASSUME NEW i \in Created(op), job' = [job EXCEPT ![i] = NewJob(op.req)], job'[j] # job[j]
      PROVE  /\ ~Over(j) /\ ~Exists(job, j) /\ job'[j].status = "accepted" /\ ~job'[j].checkpoint
             /\ ~job'[j].fence /\ job'[j].cause = "none"
  <2>1. i = j /\ ~Exists(job, j) /\ job'[j] = NewJob(op.req)
    BY <1>1, <1>4 DEF Created, Fresh
  <2>2. QED BY <2>1 DEF NewJob, AbsentJob, Exists, Over, Terminal
<1>5. QED BY <1>2, <1>3, <1>4 DEF Cut, Exists

\* A run is under way only once its start was accepted.
LEMMA StageSteps ==
  ASSUME IInv, [Next]_vars, NEW j \in Job, stage'[j] \in {"started", "active"}
  PROVE  \/ stage[j] \in {"started", "active"}
         \/ /\ Head(queue).job = j /\ Head(queue).kind = "starting" /\ queue # <<>>
            /\ Verdict(Head(queue)) /\ job' = Written(Head(queue))
<1>1. stage \in [Job -> Stage] /\ stage'[j] # "none" /\ stage'[j] # "waiting" /\ stage'[j] # "marking"
  BY DEF IInv, TypeOK
<1>2. CASE UNCHANGED stage
  BY <1>2
<1>3. ASSUME NEW i \in Job, Finish(i) PROVE stage[j] \in {"started", "active"}
  BY <1>1, <1>3 DEF Finish
<1>4. CASE Admitted
  BY <1>1, <1>4 DEF Admitted, Created
<1>5. CASE StartAnswered
  <2>1. queue \in Seq(Op)
    BY DEF IInv, TypeOK
  <2>2. Fits(Head(queue)) /\ Head(queue).kind = "starting" /\ Head(queue).job \in Job /\ queue # <<>>
    BY <1>5, <2>1, SaneTail DEF StartAnswered, IInv, Fits
  <2>3. CASE Verdict(Head(queue))
    BY <1>1, <1>5, <2>2, <2>3 DEF StartAnswered
  <2>4. CASE ~Verdict(Head(queue))
    BY <1>1, <1>3, <1>5, <2>2, <2>4 DEF StartAnswered
  <2>5. QED BY <2>3, <2>4
<1>6. CASE \/ CallbackAnswered \/ EndAnswered \/ CancelAnswered \/ InterruptAnswered
  <2>1. Head(queue).job \in Job
    <3>1. queue # <<>> /\ queue \in Seq(Op) /\ Head(queue).by \notin {"submit", "start"}
      BY <1>6 DEF CallbackAnswered, EndAnswered, CancelAnswered, InterruptAnswered, IInv, TypeOK
    <3>2. QED BY <3>1, SaneTail DEF IInv, Fits
  <2>2. UNCHANGED stage \/ Finish(Head(queue).job)
    BY <1>6 DEF CallbackAnswered, EndAnswered, CancelAnswered, InterruptAnswered, FinishIf
  <2>3. QED BY <1>2, <1>3, <2>1, <2>2
<1>7. ASSUME NEW i \in Job, Step(i) PROVE stage[j] \in {"started", "active"}
  <2>1. CASE MarkStarting(i)
    BY <1>1, <2>1 DEF MarkStarting
  <2>2. CASE Launch(i)
    BY <1>1, <1>3, <2>2 DEF Launch
  <2>3. CASE GiveUp(i) \/ Abandon(i) \/ BridgeReports(i) \/ InterruptRun(i)
    <3>1. UNCHANGED stage \/ Finish(i)
      BY <2>3 DEF GiveUp, Abandon, BridgeReports, InterruptRun, FinishIf
    <3>2. QED BY <1>2, <1>3, <3>1
  <2>4. CASE \/ Spawn(i) \/ ProviderAnswers(i) \/ ProviderCheckpoints(i) \/ RunFails(i) \/ PostDone(i)
             \/ DeadlineFires(i) \/ Cancel(i) \/ ChildEnds(i) \/ FenceLapses(i)
    BY <2>4 DEF Spawn, ProviderAnswers, ProviderCheckpoints, RunFails, PostDone, DeadlineFires, Cancel,
                ChildEnds, FenceLapses, runVars
  <2>5. QED BY <1>7, <2>1, <2>2, <2>3, <2>4 DEF Step
<1>8. CASE Crash \/ ShutdownEnds \/ Boot
  BY <1>1, <1>8 DEF Crash, ShutdownEnds, Exit, Boot
<1>9. CASE \/ UNCHANGED vars \/ JournalBreaks \/ \E r \in Request : Submit(r)
           \/ ShutdownBegins \/ ShutdownInterrupts \/ \E on \in BOOLEAN : Drain(on)
  BY <1>9 DEF vars, Submit, JournalBreaks, ShutdownBegins, ShutdownInterrupts, Drain, runVars
<1>10. QED BY <1>4, <1>5, <1>6, <1>7, <1>8, <1>9 DEF Next, Writer

\* A child has its prompt already, or gets it with the answer to its linkage, which
\* the journal took while the job was running.
LEMMA ChildSteps ==
  ASSUME IInv, [Next]_vars, NEW j \in Job, child'[j] = "prompted"
  PROVE  \/ child[j] = "prompted"
         \/ /\ health = "ready" /\ health' = "ready" /\ UNCHANGED <<lapsed, stage>>
            /\ queue # <<>> /\ job' \in Cut(Head(queue))
            /\ \A i \in Job \ {j} : child'[i] = child[i]
            /\ job'[j].status = "running" /\ job'[j].owned
            /\ stage[j] = "active" /\ stage'[j] = "active"
            /\ bridge[j] = "spawned" /\ bridge'[j] = "working"
<1>1. child \in [Job -> Child]
  BY DEF IInv, TypeOK
<1>2. CASE UNCHANGED child
  BY <1>2
<1>3. ASSUME NEW i \in Job, NEW c, child' = [child EXCEPT ![i] = c],
             c # "prompted" \/ c = child[i]
      PROVE  child[j] = "prompted"
  BY <1>1, <1>3
<1>4. \A c \in Child : Stopped(c) # "prompted"
  BY DEF Stopped, Child
<1>5. ASSUME NEW i \in Job, Abort(i) PROVE child[j] = "prompted"
  <2>1. child' = [child EXCEPT ![i] = Stopped(child[i])] /\ Stopped(child[i]) # "prompted"
    BY <1>1, <1>4, <1>5 DEF Abort
  <2>2. QED BY <1>3, <2>1
<1>6. CASE CallbackAnswered
  <2> DEFINE op == Head(queue)
             v == Written(op)[op.job]
             owned == /\ Verdict(op) /\ stage[op.job] = "active"
                      /\ op.kind = "linkage" => v.status = "running"
  <2>1. /\ health = "ready" /\ health' = "ready" /\ queue # <<>> /\ op.by = "tail" /\ UNCHANGED lapsed
        /\ job' = Written(op) /\ Resume(op.job, op.kind, owned)
        /\ FinishIf(stage[op.job] = "active" /\ v.status \in Terminal, op.job)
    BY <1>6 DEF CallbackAnswered, hostVars
  <2>2. /\ queue \in Seq(Op) /\ job \in [Job -> View] /\ op \in Op /\ Fits(op) /\ op.job \in Job
    <3>1. queue \in Seq(Op) /\ job \in [Job -> View]
      BY DEF IInv, TypeOK
    <3>2. op \in Op /\ Fits(op)
      BY <2>1, <3>1, SaneTail DEF IInv
    <3>3. QED BY <2>1, <3>1, <3>2 DEF Fits
  <2>3. owned \in BOOLEAN
    BY DEF Verdict
  <2>4. \/ UNCHANGED child
        \/ /\ op.kind = "linkage" /\ owned /\ bridge[op.job] = "spawned"
           /\ child' = [child EXCEPT ![op.job] = "prompted"]
           /\ bridge' = [bridge EXCEPT ![op.job] = "working"]
        \/ child' = [child EXCEPT ![op.job] = Stopped(child[op.job])]
    BY <2>1, <2>2, <2>3, ResumeEffect
  <2>5. CASE /\ op.kind = "linkage" /\ owned /\ bridge[op.job] = "spawned"
             /\ child' = [child EXCEPT ![op.job] = "prompted"]
             /\ bridge' = [bridge EXCEPT ![op.job] = "working"]
    <3>1. CASE j # op.job
      BY <1>1, <2>5, <3>1
    <3>2. CASE j = op.job
      <4>1. /\ job'[j].status = "running" /\ stage[j] = "active" /\ Verdict(op)
            /\ UNCHANGED <<lock, stage>>
        BY <2>1, <2>5, <3>2 DEF FinishIf, Terminal
      <4>2. job' \in Cut(op)
        BY <2>1 DEF Cut
      <4>3. job'[j] = Apply(job[j], op) /\ job[j] \in View
        BY <2>1, <2>2, <2>5, <3>2, <4>1 DEF Written
      <4>4. job[j].status \in Live
        BY <2>5, <3>2, <4>1 DEF Verdict, Accepts
      <4>5. job'[j].owned
        BY <2>2, <2>5, <4>3, <4>4, ApplyEffect DEF Moves, Terminal
      <4>6. \A i \in Job \ {j} : child'[i] = child[i]
        BY <1>1, <2>5, <3>2
      <4>7. bridge'[j] = "working"
        BY <2>5, <3>2 DEF IInv, TypeOK
      <4>8. QED BY <2>1, <2>5, <3>2, <4>1, <4>2, <4>5, <4>6, <4>7
    <3>3. QED BY <3>1, <3>2
  <2>6. QED BY <1>2, <1>3, <1>4, <1>1, <2>2, <2>4, <2>5
<1>7. CASE \/ EndAnswered \/ CancelAnswered \/ InterruptAnswered
  <2>1. Head(queue).job \in Job
    <3>1. queue # <<>> /\ queue \in Seq(Op) /\ Head(queue).by \notin {"submit", "start"}
      BY <1>7 DEF EndAnswered, CancelAnswered, InterruptAnswered, IInv, TypeOK
    <3>2. QED BY <3>1, SaneTail DEF IInv, Fits
  <2>2. UNCHANGED child \/ Abort(Head(queue).job)
    BY <1>7 DEF EndAnswered, CancelAnswered, InterruptAnswered
  <2>3. QED BY <1>2, <1>5, <2>1, <2>2
<1>8. ASSUME NEW i \in Job, Step(i) PROVE child[j] = "prompted"
  <2>1. CASE Spawn(i) \/ ProviderAnswers(i) \/ RunFails(i) \/ ChildEnds(i)
    <3>1. PICK c : child' = [child EXCEPT ![i] = c] /\ c \in {"idle", "gone", "none"}
      BY <2>1 DEF Spawn, ProviderAnswers, RunFails, ChildEnds
    <3>2. QED BY <1>3, <3>1
  <2>2. CASE InterruptRun(i) \/ Abandon(i)
    <3>1. UNCHANGED child \/ Abort(i)
      BY <2>2 DEF InterruptRun, Abandon
    <3>2. QED BY <1>2, <1>5, <3>1
  <2>3. CASE \/ MarkStarting(i) \/ Launch(i) \/ GiveUp(i) \/ ProviderCheckpoints(i) \/ PostDone(i)
             \/ BridgeReports(i) \/ DeadlineFires(i) \/ Cancel(i) \/ FenceLapses(i)
    BY <2>3 DEF MarkStarting, Launch, GiveUp, ProviderCheckpoints, PostDone, BridgeReports,
                DeadlineFires, Cancel, FenceLapses, runVars
  <2>4. QED BY <1>8, <2>1, <2>2, <2>3 DEF Step
<1>9. CASE Crash \/ ShutdownEnds
  BY <1>1, <1>9 DEF Crash, ShutdownEnds, Exit
<1>10. CASE \/ UNCHANGED vars \/ JournalBreaks \/ Boot \/ Admitted \/ StartAnswered
            \/ ShutdownBegins \/ ShutdownInterrupts
            \/ \E on \in BOOLEAN : Drain(on)
            \/ \E r \in Request : Submit(r)
  BY <1>10 DEF vars, JournalBreaks, Boot, Admitted, StartAnswered, ShutdownBegins, ShutdownInterrupts,
               Drain, Submit, runVars
<1>11. QED BY <1>6, <1>7, <1>8, <1>9, <1>10 DEF Next, Writer

-----------------------------------------------------------------------------
(***************************************************************************)
(* A prompt reaches a child only while its job is running and owned.       *)
(***************************************************************************)

\* The bridge sends a prompt to a child only once the journal says that its job is
\* running and owns it, and only while its run has not been ended.
THEOREM PromptsAreOwned == Spec => PromptOnlyWhileOwned
<1>1. ASSUME IInv, [Next]_vars
      PROVE  \A j \in Job : child[j] # "prompted" /\ child'[j] = "prompted"
               => job'[j].status = "running" /\ job'[j].owned /\ stage'[j] = "active"
  BY <1>1, ChildSteps
<1>2. QED BY <1>1, Invariance, PTL DEF Spec, PromptOnlyWhileOwned

-----------------------------------------------------------------------------
(***************************************************************************)
(* No admitted job is forgotten.                                           *)
(***************************************************************************)

\* Only a run that was started has a checkpoint, so a boot never completes a job
\* that was not.
Checkpointed ==
  \A j \in Job : job[j].checkpoint => job[j].status \notin {"absent", "accepted", "starting"}

\* A callback's checkpoint comes after its run was started.
LEMMA NextCheckpointed ==
  ASSUME IInv, Checkpointed, [Next]_vars
  PROVE  Checkpointed'
<1>1. ASSUME NEW j \in Job, job'[j].checkpoint
      PROVE  job'[j].status \notin {"absent", "accepted", "starting"}
  <2>1. job[j].status \in Status /\ job \in [Job -> View]
    BY DEF IInv, TypeOK, View
  <2>2. CASE UNCHANGED job
    BY <1>1, <2>2 DEF Checkpointed
  <2>3. CASE queue # <<>> /\ job' \in Cut(Head(queue))
    <3>1. /\ \/ job'[j].status = job[j].status
             \/ job'[j].status \in Allowed[job[j].status]
             \/ ~Exists(job, j) /\ job'[j].status = "accepted" /\ ~job'[j].checkpoint
          /\ job[j].checkpoint \/ job'[j].status = "running"
      BY <1>1, <2>3, HeadEffect
    <3>2. CASE job'[j].status = "running"
      BY <3>2
    <3>3. CASE job[j].checkpoint
      <4>1. job[j].status \notin {"absent", "accepted", "starting"}
        BY <3>3 DEF Checkpointed
      <4>2. \A t \in Allowed[job[j].status] : t \notin {"absent", "accepted", "starting"}
        BY <2>1, <4>1, AllowedFacts
      <4>3. QED BY <1>1, <3>1, <4>1, <4>2
    <3>4. QED BY <3>1, <3>2, <3>3
  <2>4. CASE Boot
    <3>1. PICK kept \in SUBSET {i \in Job : job[i].status = "accepted"} :
            job' = [i \in Job |-> Classified(i, kept)]
      BY <2>4 DEF Boot
    <3>2. CASE job'[j] = job[j]
      BY <1>1, <3>2 DEF Checkpointed
    <3>3. CASE job'[j] # job[j]
      <4>1. job'[j] = Classified(j, kept) /\ job[j].status \in Live /\ j \notin kept
        BY <2>1, <3>1, <3>3, Classification
      <4>2. job'[j].status \in {"completed", "interrupted"} \/ (job[j].checkpoint /\ job[j].status = "accepted")
        BY <2>1, <4>1, Classification
      <4>3. QED BY <4>2 DEF Checkpointed
    <3>4. QED BY <3>2, <3>3
  <2>5. QED BY <2>2, <2>3, <2>4, JobSteps
<1>2. QED BY <1>1 DEF Checkpointed

\* An unfinished job is waiting, or under way.
Attended(j) ==
  /\ job[j].status = "accepted" => stage[j] \in {"waiting", "marking"}
  /\ job[j].status \in {"starting", "running", "answer_ready"} => stage[j] \in {"started", "active"}

Kept == health = "ready" /\ shutting = "no" => \A j \in Job : Attended(j)

\* Who is waiting or under way is in its line.
LEMMA KeptInLine == IInv /\ Kept => NoJobForgotten
<1> SUFFICES ASSUME IInv, Kept, health = "ready", shutting = "no", NEW j \in Job,
                    job[j].status = "accepted"
             PROVE  \E i \in 1 .. Len(lock[SessionOf(j)]) : lock[SessionOf(j)][i] = j
  BY DEF Kept, Attended, NoJobForgotten
<1>1. stage[j] # "none"
  BY DEF Kept, Attended
<1>2. QED BY <1>1 DEF IInv, Line, InItsLine

\* An answer to a run ends it only when its job is finished.
LEMMA RunAnswers ==
  ASSUME IInv, CallbackAnswered \/ EndAnswered \/ CancelAnswered \/ InterruptAnswered
  PROVE  StagesEnd /\ RowFits
<1> DEFINE op == Head(queue)
           j == op.job
<1>1. /\ health = "ready" /\ queue # <<>> /\ op.by \notin {"submit", "start"}
      /\ job' = Written(op) /\ health' = health /\ toStop' \subseteq toStop
  BY DEF CallbackAnswered, EndAnswered, CancelAnswered, InterruptAnswered, hostVars
<1>2. queue \in Seq(Op) /\ job \in [Job -> View]
  BY DEF IInv, TypeOK
<1>3. op \in Op /\ Fits(op) /\ j \in Job /\ op \in Ops(queue)
  BY <1>1, <1>2, SaneTail DEF IInv, Fits
<1>4. \/ UNCHANGED <<lock, stage>>
      \/ stage[j] = "active" /\ job'[j].status \in Terminal /\ Finish(j)
  <2>1. CASE CallbackAnswered \/ EndAnswered
    BY <1>1, <2>1 DEF CallbackAnswered, EndAnswered, FinishIf
  <2>2. CASE CancelAnswered
    <3>1. op.kind = "canceled"
      BY <1>3, <2>2 DEF CancelAnswered, Fits
    <3>2. Verdict(op) => Written(op)[j].status = "canceled"
      BY <1>2, <1>3, <3>1, WrittenEffect DEF Moves, Terminal
    <3>3. QED BY <1>1, <2>2, <3>2 DEF CancelAnswered, Terminal
  <2>3. CASE InterruptAnswered
    BY <1>1, <2>3 DEF InterruptAnswered, FinishIf
  <2>4. QED BY <2>1, <2>2, <2>3
<1>5. \/ UNCHANGED <<lock, stage>>
      \/ \E i \in Job : stage[i] = "active" /\ Over(i)' /\ Finish(i)
  BY <1>3, <1>4 DEF Over
<1>6. StagesEnd
  BY <1>1, <1>5, Answered
<1>7. RowFits
  BY <1>1, <1>2, <1>3, RowsFit DEF IInv, Pledged
<1>8. QED BY <1>6, <1>7

\* Every step leaves each unfinished job to somebody.
LEMMA NextKept ==
  ASSUME IInv, Checkpointed, Kept, [Next]_vars
  PROVE  Kept'
<1> SUFFICES ASSUME health' = "ready", shutting' = "no", NEW j \in Job
             PROVE  /\ job'[j].status = "accepted" => stage'[j] \in {"waiting", "marking"}
                    /\ job'[j].status \in {"starting", "running", "answer_ready"} =>
                         stage'[j] \in {"started", "active"}
  BY DEF Kept, Attended
<1>1. CASE Boot
  <2>1. PICK kept \in SUBSET {i \in Job : job[i].status = "accepted"} :
          /\ job' = [i \in Job |-> Classified(i, kept)]
          /\ stage' = [i \in Job |-> IF i \in kept THEN "waiting" ELSE "none"]
    BY <1>1 DEF Boot
  <2>2. job'[j] = Classified(j, kept) /\ job \in [Job -> View]
    BY <2>1 DEF IInv, TypeOK
  <2>3. CASE j \in kept
    <3>1. job'[j] = job[j] /\ job[j].status = "accepted" /\ stage'[j] = "waiting"
      BY <2>1, <2>2, <2>3, Classification
    <3>2. QED BY <3>1
  <2>4. CASE j \notin kept
    <3>1. CASE job[j].status \in Live
      <4>1. job'[j].status \in {"completed", "interrupted"} \/ (job[j].checkpoint /\ job[j].status = "accepted")
        BY <2>2, <2>4, <3>1, Classification
      <4>2. QED BY <4>1 DEF Checkpointed
    <3>2. CASE job[j].status \notin Live
      <4>1. job'[j] = job[j]
        BY <2>2, <3>2, Classification
      <4>2. QED BY <3>2, <4>1 DEF Live
    <3>3. QED BY <3>1, <3>2
  <2>5. QED BY <2>3, <2>4
<1>2. ASSUME health = "ready", shutting = "no", NEW i \in Job, Over(i), job'[i] = job[i],
             \A k \in Job \ {i} : stage'[k] = stage[k] /\ job'[k] = job[k]
      PROVE  /\ job'[j].status = "accepted" => stage'[j] \in {"waiting", "marking"}
             /\ job'[j].status \in {"starting", "running", "answer_ready"} =>
                  stage'[j] \in {"started", "active"}
  BY <1>2 DEF Kept, Attended, Over, Terminal
<1>3. CASE health = "ready" /\ shutting = "no" /\ UNCHANGED <<job, stage>>
  BY <1>3 DEF Kept, Attended
<1>4. CASE Admitted
  <2>1. health = "ready" /\ shutting = "no"
    BY <1>4 DEF Admitted, hostVars
  <2>2. ASSUME NEW i \in Created(Head(queue)),
               job' = [job EXCEPT ![i] = NewJob(Head(queue).req)],
               stage' = [stage EXCEPT ![i] = "waiting"]
        PROVE  /\ job'[j].status = "accepted" => stage'[j] \in {"waiting", "marking"}
               /\ job'[j].status \in {"starting", "running", "answer_ready"} =>
                    stage'[j] \in {"started", "active"}
    <3>1. job \in [Job -> View] /\ stage \in [Job -> Stage]
      BY DEF IInv, TypeOK
    <3>2. CASE j = i
      BY <2>2, <3>1, <3>2 DEF NewJob, AbsentJob
    <3>3. CASE j # i
      BY <2>1, <2>2, <3>1, <3>3 DEF Kept, Attended
    <3>4. QED BY <3>2, <3>3
  <2>3. QED BY <1>3, <1>4, <2>1, <2>2 DEF Admitted
<1>5. CASE StartAnswered
  <2> DEFINE op == Head(queue)
             i == op.job
  <2>1. /\ health = "ready" /\ queue # <<>> /\ op.by = "start" /\ shutting = "no"
        /\ job' = Written(op)
    BY <1>5 DEF StartAnswered, hostVars
  <2>2. /\ queue \in Seq(Op) /\ job \in [Job -> View] /\ stage \in [Job -> Stage]
    BY DEF IInv, TypeOK
  <2>3. /\ op \in Op /\ Fits(op) /\ op.kind = "starting" /\ i \in Job /\ stage[i] = "marking"
    <3>1. op \in Op /\ Fits(op) /\ op \in Ops(queue)
      BY <2>1, <2>2, SaneTail DEF IInv
    <3>2. QED BY <2>1, <3>1 DEF Fits, IInv, Pledged, Pledge
  <2>4. CASE Verdict(op)
    <3>1. job'[i].status = "starting" /\ \A k \in Job \ {i} : job'[k] = job[k]
      BY <2>1, <2>2, <2>3, <2>4, WrittenEffect DEF Written, Moves
    <3>2. stage' = [stage EXCEPT ![i] = "started"]
      BY <1>5, <2>4 DEF StartAnswered
    <3>3. CASE j = i
      BY <2>2, <3>1, <3>2, <3>3
    <3>4. CASE j # i
      BY <2>1, <2>2, <3>1, <3>2, <3>4 DEF Kept, Attended
    <3>5. QED BY <3>3, <3>4
  <2>5. CASE ~Verdict(op)
    <3>1. job' = job
      BY <2>1, <2>5 DEF Written
    <3>2. job[i].status # "accepted" \/ Fenced(job, lapsed, SessionOf(i))
      BY <2>1, <2>3, <2>5 DEF Verdict, Accepts, SessionOf
    <3>3. job[i].status = "accepted" \/ Over(i)
      BY <2>1, <2>3 DEF IInv, StageFits
    <3>4. \/ job[i].status = "accepted" /\ stage' = [stage EXCEPT ![i] = "waiting"]
          \/ Over(i) /\ stage' = [stage EXCEPT ![i] = "none"]
      BY <1>5, <2>5, <3>2, <3>3 DEF StartAnswered, Finish
    <3>5. CASE j = i
      BY <2>2, <3>1, <3>4, <3>5 DEF Over, Terminal
    <3>6. CASE j # i
      BY <2>1, <2>2, <3>1, <3>4, <3>6 DEF Kept, Attended
    <3>7. QED BY <3>5, <3>6
  <2>6. QED BY <2>4, <2>5
<1>6. CASE CallbackAnswered \/ EndAnswered \/ CancelAnswered \/ InterruptAnswered
  <2>1. health = "ready" /\ shutting = "no"
    BY <1>6 DEF CallbackAnswered, EndAnswered, CancelAnswered, InterruptAnswered, hostVars
  <2>2. /\ \/ stage'[j] = stage[j]
           \/ stage[j] = "active" /\ stage'[j] = "none" /\ job'[j].status \in Terminal
        /\ \/ job'[j].status = job[j].status
           \/ job'[j].status \in Terminal
           \/ stage[j] = "active" /\ job'[j].status \notin {"absent", "accepted"}
    BY <1>6, RunAnswers DEF StagesEnd, RowFits, Over
  <2>3. QED BY <2>1, <2>2 DEF Kept, Attended, Terminal
<1>7. ASSUME NEW i \in Job, Step(i)
      PROVE  /\ job'[j].status = "accepted" => stage'[j] \in {"waiting", "marking"}
             /\ job'[j].status \in {"starting", "running", "answer_ready"} =>
                  stage'[j] \in {"started", "active"}
  <2>1. stage \in [Job -> Stage] /\ job \in [Job -> View]
    BY DEF IInv, TypeOK
  <2>2. CASE MarkStarting(i)
    BY <2>1, <2>2 DEF MarkStarting, HoldsLock, jobVars, hostVars, Kept, Attended
  <2>3. CASE Launch(i)
    BY <2>1, <2>3 DEF Launch, jobVars, hostVars, Kept, Attended
  <2>4. CASE GiveUp(i) \/ Abandon(i) \/ InterruptRun(i)
    BY <2>4 DEF GiveUp, Abandon, InterruptRun, hostVars
  <2>5. CASE BridgeReports(i)
    <3>1. health = "ready" /\ shutting = "no" /\ UNCHANGED job
      BY <2>5 DEF BridgeReports, Runs, jobVars, hostVars
    <3>2. CASE Over(i)
      <4>1. \A k \in Job \ {i} : stage'[k] = stage[k]
        BY <2>1, <2>5, <3>2 DEF BridgeReports, FinishIf, Finish
      <4>2. QED BY <1>2, <3>1, <3>2, <4>1
    <3>3. CASE ~Over(i)
      BY <1>3, <2>5, <3>1, <3>3 DEF BridgeReports, FinishIf
    <3>4. QED BY <3>2, <3>3
  <2>6. CASE \/ Spawn(i) \/ ProviderAnswers(i) \/ ProviderCheckpoints(i) \/ RunFails(i) \/ PostDone(i)
             \/ DeadlineFires(i) \/ Cancel(i) \/ ChildEnds(i) \/ FenceLapses(i)
    BY <1>3, <2>6 DEF Spawn, ProviderAnswers, ProviderCheckpoints, RunFails, PostDone, DeadlineFires,
                Cancel, ChildEnds, FenceLapses, jobVars, hostVars, runVars
  <2>7. QED BY <1>7, <2>2, <2>3, <2>4, <2>5, <2>6 DEF Step
<1>8. CASE \/ ShutdownBegins \/ ShutdownInterrupts \/ ShutdownEnds \/ Crash \/ JournalBreaks
  BY <1>8 DEF ShutdownBegins, ShutdownInterrupts, ShutdownEnds, Crash, Exit, JournalBreaks
<1>9. CASE \/ UNCHANGED vars \/ (\E r \in Request : Submit(r)) \/ (\E on \in BOOLEAN : Drain(on))
  BY <1>3, <1>9 DEF vars, Submit, Drain, jobVars, hostVars, runVars
<1>10. QED BY <1>1, <1>4, <1>5, <1>6, <1>7, <1>8, <1>9 DEF Next, Writer

\* An unfinished job is always attended to while the server runs with a good journal.
LEMMA Keeping == Spec => [](IInv /\ Checkpointed /\ Kept)
<1>1. Init => IInv /\ Checkpointed /\ Kept
  <2>1. Init => Checkpointed
    BY DEF Init, Checkpointed, AbsentJob
  <2>2. Init => Kept
    BY DEF Init, Kept
  <2>3. QED BY <2>1, <2>2, InitIInv
<1>2. (IInv /\ Checkpointed /\ Kept) /\ [Next]_vars => (IInv /\ Checkpointed /\ Kept)'
  BY NextIInv, NextCheckpointed, NextKept
<1>3. QED BY <1>1, <1>2, PTL DEF Spec

\* No admitted job is forgotten: while the server runs with a good journal, an
\* unfinished job is in its session's line or being run, whatever crashed, was
\* canceled, timed out or was refused a start before.
THEOREM NothingForgotten == Spec => []NoJobForgotten
  BY Keeping, KeptInLine, PTL

-----------------------------------------------------------------------------
(***************************************************************************)
(* Prompts of a session start in the order they were admitted.             *)
(***************************************************************************)

\* When the head operation starts a job, no earlier job of its session still waits:
\* it would be in the line, ahead of the holder of the lock.
LEMMA StartIsNext ==
  ASSUME IInv, Kept, health = "ready", queue # <<>>, job' \in Cut(Head(queue)),
         NEW i \in Job, NEW j \in Job, job[j].status = "accepted", job'[j].status = "starting",
         i < j, SameSession(i, j)
  PROVE  job[i].status # "accepted"
<1> SUFFICES ASSUME job[i].status = "accepted" PROVE FALSE
  OBVIOUS
<1> DEFINE op == Head(queue)
           s == SessionOf(j)
<1>1. Verdict(op) /\ op.by = "start" /\ op.job = j
  BY HeadEffect
<1>2. op \in Ops(queue) /\ op.kind = "starting"
  <2>1. queue \in Seq(Op)
    BY DEF IInv, TypeOK
  <2>2. op \in Ops(queue) /\ Fits(op)
    BY <2>1, SaneTail DEF IInv
  <2>3. QED BY <1>1, <2>2 DEF Fits
<1>3. shutting = "no"
  BY <1>1, <1>2 DEF Verdict
<1>4. stage[j] = "marking" /\ AheadOfAll(j)
  BY <1>1, <1>2 DEF IInv, Pledged, Pledge, Line, AtHead
<1>5. stage[i] # "none"
  BY <1>3 DEF Kept, Attended
<1>6. s \in Session /\ SessionOf(i) = s /\ lock[s] \in Seq(Job)
  BY <1>4, LineOf DEF IInv, Line, SameSession
<1>7. PICK a \in 1 .. Len(lock[s]) : lock[s][a] = i
  BY <1>5, <1>6 DEF IInv, Line, InItsLine
<1>8. lock[s][1] = j /\ 1 \in 1 .. Len(lock[s]) /\ a # 1 /\ i # j
  BY <1>4, <1>6, <1>7 DEF AheadOfAll, SameSession
<1>9. 1 < a
  BY <1>8
<1>10. j < i
  BY <1>6, <1>7, <1>8, <1>9 DEF IInv, Line, Ordered
<1>11. QED BY <1>10 DEF Job

\* Within a session, prompts start in the order they were admitted, also when a
\* restart lines them up again, a fence holds one back, or the append of a start
\* is cut.
THEOREM Ordering == Spec => StartsInOrder
<1>1. ASSUME IInv, Kept, [Next]_vars
      PROVE  \A i, j \in Job :
               /\ job[j].status = "accepted" /\ job'[j].status = "starting"
               /\ i < j /\ SameSession(i, j)
               => job[i].status # "accepted"
  <2>1. CASE UNCHANGED job
    BY <2>1
  <2>2. CASE health = "ready" /\ queue # <<>> /\ job' \in Cut(Head(queue))
    BY <1>1, <2>2, StartIsNext
  <2>3. CASE Boot
    <3>1. PICK kept \in SUBSET {i \in Job : job[i].status = "accepted"} :
            job' = [i \in Job |-> Classified(i, kept)]
      BY <2>3 DEF Boot
    <3>2. ASSUME NEW j \in Job, job[j].status = "accepted" PROVE job'[j].status # "starting"
      <4>1. job \in [Job -> View] /\ job'[j] = Classified(j, kept) /\ job[j].status \in Live
        BY <1>1, <3>1, <3>2 DEF IInv, TypeOK, Live
      <4>2. QED BY <3>2, <4>1, Classification
    <3>3. QED BY <3>2
  <2>4. QED BY <1>1, <2>1, <2>2, <2>3, JobSteps
<1>2. QED BY <1>1, Keeping, PTL DEF Spec, StartsInOrder

-----------------------------------------------------------------------------
(***************************************************************************)
(* The journal takes only steps the store promises (QueryJobPromise).      *)
(***************************************************************************)

\* What a job v may say once a row has moved it to status t, as the promise has it.
Says(v, t, text, fenced, why) ==
  /\ IF t = "completed"
     THEN \/ text = "whole"
          \/ text = "checkpoint" /\ v.checkpoint
     ELSE text = "none"
  /\ t # "interrupted" => fenced = FALSE /\ why = "none"

\* The row of op says of its job what it may.
Right(jobs, op) ==
  op.kind # "accepted" => Says(jobs[op.job], op.kind, op.response, op.fence, op.cause)

\* Whatever waits for the writer does, though it was decided on an earlier journal.
Truthful == \A op \in Ops(queue) : Right(job, op)

\* One allowed step takes job v to w.
Moved(v, w) ==
  \E t \in Allowed[v.status], text \in Response, fenced \in BOOLEAN, why \in Cause :
    /\ Says(v, t, text, fenced, why)
    /\ w = [v EXCEPT !.status = t, !.response = text, !.fence = fenced, !.cause = why]

\* Job j stays as it is, is created, notes its ownership or a checkpoint, or takes
\* one allowed step: what Accept, Note and Move of the promise do to it.
Promised(j) ==
  \/ job'[j] = job[j]
  \/ \E r \in Request :
       /\ Fresh(job, j)
       /\ \A i \in Job : SameClient(job, i, r) => Over(i) /\ job[i].req.gen < r.gen
       /\ job'[j] = NewJob(r)
  \/ job[j].status \in Live /\ job'[j] = [job[j] EXCEPT !.owned = TRUE]
  \/ job[j].status = "running" /\ job'[j] = [job[j] EXCEPT !.checkpoint = TRUE]
  \/ Moved(job[j], job'[j])

JournalAsPromised == [][\A j \in Job : Promised(j)]_vars

\* A row that says what it may moves its job as promised.
LEMMA RowAsPromised ==
  ASSUME NEW v \in View, NEW op \in Op, op.kind \in Moves, op.kind \in Allowed[v.status],
         Says(v, op.kind, op.response, op.fence, op.cause)
  PROVE  Moved(v, Apply(v, op))
<1>1. Apply(v, op) = [v EXCEPT !.status = op.kind, !.response = op.response,
                               !.fence = op.fence, !.cause = op.cause]
  BY DEF Apply, Moves, Terminal
<1>2. op.response \in Response /\ op.fence \in BOOLEAN /\ op.cause \in Cause
  BY DEF Op
<1>3. ASSUME NEW t \in Allowed[v.status], NEW text \in Response, NEW fenced \in BOOLEAN,
             NEW why \in Cause, NEW w, Says(v, t, text, fenced, why),
             w = [v EXCEPT !.status = t, !.response = text, !.fence = fenced, !.cause = why]
      PROVE  Moved(v, w)
  BY <1>3 DEF Moved
<1>4. QED BY <1>1, <1>2, <1>3

\* The head operation writes as promised, its append whole or cut.
LEMMA HeadAsPromised ==
  ASSUME IInv, Truthful, queue # <<>>, job' \in Cut(Head(queue)), NEW j \in Job
  PROVE  Promised(j)
<1> DEFINE op == Head(queue)
           v == job[j]
<1>1. /\ op \in Op /\ Fits(op) /\ op \in Ops(queue) /\ job \in [Job -> View]
      /\ v \in View /\ v.status \in Status
  <2>1. queue \in Seq(Op) /\ job \in [Job -> View]
    BY DEF IInv, TypeOK
  <2>2. QED BY <2>1, SaneTail DEF IInv, View
<1>2. CASE job'[j] = job[j]
  BY <1>2 DEF Promised
<1>3. CASE job' = Written(op) /\ job'[j] # job[j]
  <2>1. op.kind # "accepted" /\ Accepts(job, lapsed, op) /\ j = op.job /\ job'[j] = Apply(v, op)
    BY <1>1, <1>3 DEF Written, Verdict
  <2>2. Says(v, op.kind, op.response, op.fence, op.cause)
    BY <1>1, <2>1 DEF Truthful, Right
  <2>3. CASE op.kind = "checkpoint"
    <3>1. v.status = "running"
      BY <2>1, <2>3 DEF Accepts
    <3>2. Apply(v, op) = [v EXCEPT !.checkpoint = TRUE]
      BY <2>3, <3>1 DEF Apply, Moves, Terminal
    <3>3. QED BY <2>1, <3>1, <3>2 DEF Promised
  <2>4. CASE op.kind = "linkage"
    <3>1. v.status \in Live
      BY <2>1, <2>4 DEF Accepts
    <3>2. Apply(v, op) = [v EXCEPT !.owned = TRUE]
      BY <2>4, <3>1 DEF Apply, Moves, Terminal
    <3>3. QED BY <2>1, <3>1, <3>2 DEF Promised
  <2>5. CASE op.kind \in Moves
    <3>1. op.kind \in Allowed[v.status]
      <4>1. Verdict(op)
        BY <1>1, <1>3 DEF Written
      <4>2. QED BY <1>1, <2>1, <2>5, <4>1, AcceptedMove
    <3>2. Moved(v, Apply(v, op))
      BY <1>1, <2>2, <2>5, <3>1, RowAsPromised
    <3>3. QED BY <2>1, <3>2 DEF Promised
  <2>6. CASE op.kind \notin {"checkpoint", "linkage"} \cup Moves
    <3>1. op.kind = "partial"
      BY <1>1, <2>1, <2>6 DEF Fits, TailKind, Moves, Terminal
    <3>2. Apply(v, op) = v
      BY <3>1 DEF Apply, Moves, Terminal
    <3>3. QED BY <1>3, <2>1, <3>2
  <2>7. QED BY <2>3, <2>4, <2>5, <2>6
<1>4. ASSUME NEW k \in Created(op), job' = [job EXCEPT ![k] = NewJob(op.req)], job'[j] # job[j]
      PROVE  Promised(j)
  <2>1. /\ k = j /\ Fresh(job, j) /\ job'[j] = NewJob(op.req)
        /\ op.kind = "accepted" /\ Accepts(job, lapsed, op) /\ op.req \in Request
    BY <1>1, <1>4 DEF Created, Fits, TailKind
  <2>2. ~Duplicate(job, op.req) /\ ~LineageBusy(job, op.req) /\ ~OutOfOrder(job, op.req)
    BY <2>1 DEF Accepts
  <2>3. ASSUME NEW i \in Job, SameClient(job, i, op.req)
        PROVE  Over(i) /\ job[i].req.gen < op.req.gen
    <3>1. Over(i) /\ ~(op.req.gen <= job[i].req.gen)
      BY <2>2, <2>3 DEF LineageBusy, OutOfOrder, Over
    <3>2. job[i].req \in Request
      BY <2>3 DEF SameClient, IInv, Numbered
    <3>3. op.req.gen \in Nat /\ job[i].req.gen \in Nat
      BY <2>1, <3>2, RequestAssumption
    <3>4. QED BY <3>1, <3>3
  <2>4. QED BY <2>1, <2>3 DEF Promised
<1>5. QED BY <1>2, <1>3, <1>4 DEF Cut

\* So does a boot: a run it ends says why, and one with a checkpoint was under way.
LEMMA BootAsPromised ==
  ASSUME IInv, Checkpointed, Boot, NEW j \in Job
  PROVE  Promised(j)
<1> DEFINE v == job[j]
<1>1. v \in View /\ job \in [Job -> View]
  BY DEF IInv, TypeOK
<1>2. PICK kept \in SUBSET {i \in Job : job[i].status = "accepted"} :
        job' = [i \in Job |-> Classified(i, kept)]
  BY DEF Boot
<1>3. CASE v.status \notin Live \/ j \in kept
  BY <1>1, <1>2, <1>3, Classification DEF Promised
<1>4. CASE v.status \in Live /\ j \notin kept
  <2>1. PICK row : /\ job'[j] = Apply(v, row) /\ row \in Op
                   /\ row.kind \in Moves /\ row.kind \in Allowed[v.status]
                   /\ Says(v, row.kind, row.response, row.fence, row.cause)
    <3>1. CASE v.status = "answer_ready"
      <4>1. job'[j] = Apply(v, Complete(j, "whole"))
        BY <1>2, <1>4, <3>1 DEF Classified
      <4>2. Complete(j, "whole") \in Op
        BY <1>1, BootOps
      <4>3. /\ Complete(j, "whole").kind = "completed" /\ Complete(j, "whole").response = "whole"
            /\ Complete(j, "whole").fence = FALSE /\ Complete(j, "whole").cause = "none"
        BY DEF Complete, Do
      <4>4. QED BY <3>1, <4>1, <4>2, <4>3 DEF Says, Moves, Terminal, Allowed
    <3>2. CASE v.status # "answer_ready" /\ v.checkpoint
      <4>1. job'[j] = Apply(v, Complete(j, "checkpoint"))
        BY <1>2, <1>4, <3>2 DEF Classified, InterruptOp
      <4>2. Complete(j, "checkpoint") \in Op
        BY <1>1, BootOps
      <4>3. /\ Complete(j, "checkpoint").kind = "completed"
            /\ Complete(j, "checkpoint").response = "checkpoint"
            /\ Complete(j, "checkpoint").fence = FALSE /\ Complete(j, "checkpoint").cause = "none"
        BY DEF Complete, Do
      <4>4. v.status = "running"
        BY <1>4, <3>2 DEF Checkpointed, Live
      <4>5. QED BY <3>2, <4>1, <4>2, <4>3, <4>4 DEF Says, Moves, Terminal, Allowed
    <3>3. CASE v.status # "answer_ready" /\ ~v.checkpoint
      <4>1. job'[j] = Apply(v, Interrupt(j, v.owned, "server_restarted"))
        BY <1>2, <1>4, <3>3 DEF Classified, InterruptOp
      <4>2. Interrupt(j, v.owned, "server_restarted") \in Op
        BY <1>1, BootOps
      <4>3. /\ Interrupt(j, v.owned, "server_restarted").kind = "interrupted"
            /\ Interrupt(j, v.owned, "server_restarted").response = "none"
        BY DEF Interrupt, Do
      <4>4. "interrupted" \in Allowed[v.status]
        BY <1>4, <3>3 DEF Live, Allowed, Terminal
      <4>5. QED BY <4>1, <4>2, <4>3, <4>4 DEF Says, Moves, Terminal
    <3>4. QED BY <3>1, <3>2, <3>3
  <2>2. Moved(v, job'[j])
    BY <1>1, <2>1, RowAsPromised
  <2>3. QED BY <2>2 DEF Promised
<1>5. QED BY <1>3, <1>4

\* Every step, so far as its rows say what they may.
LEMMA NextAsPromised ==
  ASSUME IInv, Checkpointed, Truthful, [Next]_vars, NEW j \in Job
  PROVE  Promised(j)
<1>1. CASE UNCHANGED job
  BY <1>1 DEF Promised
<1>2. QED BY <1>1, JobSteps, HeadAsPromised, BootAsPromised

\* A checkpoint is never taken back.
LEMMA CheckpointStays ==
  ASSUME IInv, Checkpointed, NEW j \in Job, Promised(j), job[j].checkpoint
  PROVE  job'[j].checkpoint
<1>1. job[j] \in View /\ ~Fresh(job, j)
  BY DEF IInv, TypeOK, Checkpointed, Fresh, Exists
<1>2. CASE Moved(job[j], job'[j])
  BY <1>1, <1>2 DEF Moved, View
<1>3. QED BY <1>1, <1>2 DEF Promised, View

\* Whether the row of op says that the job's whole answer is there.
Answers(op) == op.kind = "answer_ready" \/ (op.kind = "completed" /\ op.response = "whole")

AnswerOn(t) == \E i \in 1 .. Len(t) : t[i] = "answer_ready"

\* In this step job j has its whole answer from the journal, from a deadline that
\* found it there, or from a bridge that is done.
HasAnswer(j) ==
  \/ "answer_ready" \in {job[j].status, job'[j].status}
  \/ late[j] = "complete"
  \/ stage[j] = "active" /\ bridge[j] = "done"

\* A call that says so has it from there, or is the next of the callbacks.
Sourced(op) ==
  Answers(op) => HasAnswer(op.job) \/ (op.kind = "answer_ready" /\ AnswerOn(tail'[op.job]))

New(op) == Right(job', op) /\ Sourced(op)

\* A call made of the store says what it may, for the journal it was decided on.
LEMMA CallsAreNew ==
  ASSUME NEW j \in Job, NEW who
  PROVE  /\ \A r \in Request : New(By(who, Admit(r)))
         /\ \A kind \in OpKind \ {"completed", "answer_ready"} : New(By(who, Do(kind, j)))
         /\ AnswerOn(tail'[j]) => New(By(who, Do("answer_ready", j)))
         /\ HasAnswer(j) => New(By(who, Complete(j, "whole")))
         /\ New(By(who, FailOp(job'[j], j)))
         /\ \A why : New(By(who, InterruptOp(job'[j], j, why)))
<1>1. ASSUME NEW r \in Request PROVE New(By(who, Admit(r)))
  BY DEF New, Right, Sourced, Answers, By, Admit, Do
<1>2. ASSUME NEW kind \in OpKind \ {"completed", "answer_ready"} PROVE New(By(who, Do(kind, j)))
  BY DEF New, Right, Says, Sourced, Answers, By, Do
<1>3. ASSUME AnswerOn(tail'[j]) PROVE New(By(who, Do("answer_ready", j)))
  BY <1>3 DEF New, Right, Says, Sourced, Answers, By, Do
<1>4. ASSUME HasAnswer(j) PROVE New(By(who, Complete(j, "whole")))
  BY <1>4 DEF New, Right, Says, Sourced, Answers, By, Complete, Do
<1>5. job'[j].checkpoint => New(By(who, Complete(j, "checkpoint")))
  BY DEF New, Right, Says, Sourced, Answers, By, Complete, Do
<1>6. New(By(who, FailOp(job'[j], j)))
  BY <1>2, <1>4, <1>5 DEF HasAnswer, FailOp, OpKind, Moves, Terminal
<1>7. ASSUME NEW why PROVE New(By(who, InterruptOp(job'[j], j, why)))
  <2>1. New(By(who, Interrupt(j, job'[j].owned, why)))
    BY DEF New, Right, Says, Sourced, Answers, By, Interrupt, Do
  <2>2. QED BY <1>4, <1>5, <2>1 DEF HasAnswer, InterruptOp
<1>8. QED BY <1>1, <1>2, <1>3, <1>4, <1>6, <1>7

\* An operation more.
LEMMA OneMore ==
  ASSUME NEW q \in Seq(Op), NEW op \in Op
  PROVE  /\ Append(q, op) \in Seq(Op) /\ Ops(Append(q, op)) = Ops(q) \cup {op}
         /\ Ops(<<>>) = {}
<1> DEFINE r == Append(q, op)
<1>1. /\ r \in Seq(Op) /\ Len(r) = Len(q) + 1 /\ r[Len(q) + 1] = op /\ Len(q) \in Nat
      /\ \A i \in 1 .. Len(q) : r[i] = q[i] /\ i \in 1 .. Len(r)
      /\ \A i \in 1 .. Len(r) : i \in 1 .. Len(q) \/ i = Len(q) + 1
      /\ Len(q) + 1 \in 1 .. Len(r)
  OBVIOUS
<1> HIDE DEF r
<1>2. Ops(r) = Ops(q) \cup {op}
  BY <1>1 DEF Ops
<1>3. Ops(<<>>) = {}
  BY DEF Ops
<1>4. QED BY <1>1, <1>2, <1>3 DEF r

\* A step leaves the waiting operations as they are, takes the head away, gives them
\* all up, or adds operations that say what they may.
LEMMA Decided ==
  ASSUME IInv, [Next]_vars
  PROVE  \A op \in Ops(queue') : op \in Ops(queue) \/ New(op)
<1>1. queue \in Seq(Op) /\ job \in [Job -> View] /\ tail \in [Job -> Seq(TailKind)]
  BY DEF IInv, TypeOK, TailKind
<1>2. CASE UNCHANGED queue
  BY <1>2
<1>3. CASE queue' = <<>>
  BY <1>1, <1>3 DEF Ops
<1>4. CASE queue # <<>> /\ queue' = Tail(queue)
  BY <1>1, <1>4, SaneTail DEF IInv
<1>5. ASSUME NEW op \in Op, queue' = Append(queue, op), New(op)
      PROVE  \A o \in Ops(queue') : o \in Ops(queue) \/ New(o)
  BY <1>1, <1>5, OneMore
<1>6. ASSUME NEW r \in Request, Submit(r) PROVE \E op \in Op : queue' = Append(queue, op) /\ New(op)
  <2>1. By("submit", Admit(r)) \in Op
    BY DEF By, Admit, Do, Op, OpKind, Response, Cause, Caller
  <2>2. New(By("submit", Admit(r)))
    BY DEF New, Right, Sourced, Answers, By, Admit, Do
  <2>3. QED BY <1>6, <2>1, <2>2 DEF Submit
<1>7. ASSUME NEW j \in Job, Step(j)
      PROVE  \/ UNCHANGED queue
             \/ \E op \in Op : queue' = Append(queue, op) /\ New(op)
  <2>1. CASE \/ Launch(j) \/ GiveUp(j) \/ RunFails(j) \/ PostDone(j) \/ Abandon(j) \/ ChildEnds(j) \/ FenceLapses(j)
    BY <2>1 DEF Launch, GiveUp, RunFails, PostDone, Abandon, ChildEnds, FenceLapses
  <2>2. CASE MarkStarting(j)
    <3>1. By("start", Do("starting", j)) \in Op /\ New(By("start", Do("starting", j)))
      <4>1. "start" \in Caller /\ "starting" \in OpKind \ {"completed", "answer_ready"}
        BY DEF Caller, OpKind, Moves
      <4>2. QED BY <4>1, PlainOps, CallsAreNew
    <3>2. QED BY <2>2, <3>1 DEF MarkStarting
  <2>3. CASE Spawn(j) \/ ProviderAnswers(j) \/ ProviderCheckpoints(j)
    <3>1. PICK kinds \in {<<"running", "linkage">>, <<"partial">>, <<"checkpoint">>} : Report(j, kinds)
      BY <2>3 DEF Spawn, ProviderAnswers, ProviderCheckpoints
    <3>2. Head(kinds) \in {"running", "partial", "checkpoint"}
      OBVIOUS
    <3>3. TailOp(Head(kinds), j) \in Op /\ New(TailOp(Head(kinds), j))
      <4>1. Head(kinds) \in TailKind /\ Head(kinds) \in OpKind \ {"completed", "answer_ready"}
        BY <3>2 DEF TailKind, OpKind, Moves
      <4>2. QED BY <4>1, TailOps, CallsAreNew DEF TailOp
    <3>4. QED BY <3>1, <3>3 DEF Report
  <2>4. CASE BridgeReports(j)
    <3>1. UNCHANGED job /\ job[j] \in View
      BY <1>1, <2>4 DEF BridgeReports, jobVars
    <3>2. /\ By("run", Complete(j, "whole")) \in Op
          /\ bridge[j] = "done" => New(By("run", Complete(j, "whole")))
          /\ By("run", FailOp(job[j], j)) \in Op /\ New(By("run", FailOp(job[j], j)))
      <4>1. stage[j] = "active"
        BY <2>4 DEF BridgeReports, Runs
      <4>2. QED BY <3>1, <4>1, EndingOps, CallsAreNew DEF HasAnswer
    <3>3. QED BY <2>4, <3>2 DEF BridgeReports
  <2>5. CASE DeadlineFires(j)
    <3>1. UNCHANGED job /\ job[j] \in View
      BY <1>1, <2>5 DEF DeadlineFires, jobVars
    <3>2. /\ By("deadline", Complete(j, "whole")) \in Op
          /\ job[j].status = "answer_ready" => New(By("deadline", Complete(j, "whole")))
          /\ By("deadline", FailOp(job[j], j)) \in Op /\ New(By("deadline", FailOp(job[j], j)))
      BY <3>1, EndingOps, CallsAreNew DEF HasAnswer
    <3>3. \A how : /\ DeadlineOp(job[j], j, how) \in Op
                   /\ (how = "complete" => job[j].status = "answer_ready")
                        => New(DeadlineOp(job[j], j, how))
      BY <3>2 DEF DeadlineOp
    <3>4. \/ UNCHANGED queue
          \/ \E how \in {"complete", "fail"} :
               /\ queue' = Append(queue, DeadlineOp(job[j], j, how))
               /\ how = "complete" => job[j].status = "answer_ready"
      BY <2>5 DEF DeadlineFires
    <3>5. QED BY <3>3, <3>4
  <2>6. CASE Cancel(j)
    <3>1. By("user", Do("canceled", j)) \in Op /\ New(By("user", Do("canceled", j)))
      <4>1. "user" \in Caller /\ "canceled" \in OpKind \ {"completed", "answer_ready"}
        BY DEF Caller, OpKind, Moves, Terminal
      <4>2. QED BY <4>1, PlainOps, CallsAreNew
    <3>2. QED BY <2>6, <3>1 DEF Cancel
  <2>7. CASE InterruptRun(j)
    <3>1. UNCHANGED job /\ job[j] \in View
      BY <1>1, <2>7 DEF InterruptRun, jobVars
    <3>2. PICK op \in Op : op = By("shutdown", InterruptOp(job[j], j, "server_shutdown"))
      BY <3>1, ShutdownOps
    <3>3. New(op)
      BY <3>1, <3>2, CallsAreNew
    <3>4. QED BY <2>7, <3>2, <3>3 DEF InterruptRun
  <2>8. QED BY <1>7, <2>1, <2>2, <2>3, <2>4, <2>5, <2>6, <2>7 DEF Step
<1>8. CASE CallbackAnswered
  <2> DEFINE op == Head(queue)
             j == op.job
             v == Written(op)[j]
  <2>1. /\ op \in Op /\ Fits(op) /\ op.by = "tail" /\ j \in Job
        /\ Tail(queue) \in Seq(Op) /\ Ops(Tail(queue)) \subseteq Ops(queue)
        /\ Pledge(op) /\ job' = Written(op)
    <3>1. queue # <<>> /\ op.by = "tail" /\ job' = Written(op)
      BY <1>8 DEF CallbackAnswered
    <3>2. op \in Op /\ Fits(op) /\ Tail(queue) \in Seq(Op) /\ Ops(Tail(queue)) \subseteq Ops(queue) /\ Pledge(op)
      BY <1>1, <3>1, SaneTail DEF IInv, Pledged
    <3>3. QED BY <3>1, <3>2 DEF Fits
  <2>2. PICK rest \in Seq(TailKind), due \in BOOLEAN :
          /\ queue' = (Tail(queue) \o (IF rest = <<>> THEN <<>> ELSE <<TailOp(Head(rest), j)>>))
                      \o (IF due THEN <<DeadlineOp(v, j, late[j])>> ELSE <<>>)
          /\ tail'[j] = rest
    <3> DEFINE owned == Verdict(op) /\ stage[j] = "active" /\ (op.kind = "linkage" => v.status = "running")
               flushed == op.kind = "partial" /\ owned /\ bridge[j] = "flushing"
               left == Tail(tail[j]) \o IF flushed THEN <<"answer_ready">> ELSE <<>>
               call == late[j] \in {"complete", "fail"} /\ ahead[j] = 1 /\ stage[j] = "active" /\ v.status \in Live
    <3>1. left \in Seq(TailKind)
      <4>1. tail[j] \in Seq(TailKind) /\ tail[j] # <<>>
        BY <1>1, <2>1 DEF Pledge
      <4>2. <<"answer_ready">> \in Seq(TailKind) /\ <<>> \in Seq(TailKind)
        BY DEF TailKind
      <4>3. Tail(tail[j]) \in Seq(TailKind)
        BY <4>1
      <4>4. QED BY <4>2, <4>3
    <3>2. queue' = (Tail(queue) \o (IF left = <<>> THEN <<>> ELSE <<TailOp(Head(left), j)>>))
                   \o (IF call THEN <<DeadlineOp(v, j, late[j])>> ELSE <<>>)
      BY <1>8, Zenon DEF CallbackAnswered
    <3>3. call \in BOOLEAN
      OBVIOUS
    <3>4. tail' = [tail EXCEPT ![j] = left]
      BY <1>8, Zenon DEF CallbackAnswered
    <3> HIDE DEF left, call
    <3>5. tail'[j] = left
      BY <1>1, <2>1, <3>4
    <3>6. QED BY <3>1, <3>2, <3>3, <3>5
  <2>3. v \in View /\ v = job'[j]
    BY <1>1, <2>1, WrittenEffect
  <2>4. rest # <<>> => TailOp(Head(rest), j) \in Op /\ New(TailOp(Head(rest), j))
    <3>1. rest # <<>> => Head(rest) \in TailKind /\ (Head(rest) = "answer_ready" => AnswerOn(tail'[j]))
      BY <2>2 DEF AnswerOn
    <3>2. TailKind \subseteq (OpKind \ {"completed", "answer_ready"}) \cup {"answer_ready"}
      BY DEF TailKind, OpKind, Moves
    <3>3. ASSUME NEW kind \in TailKind, kind = "answer_ready" => AnswerOn(tail'[j])
          PROVE  New(TailOp(kind, j))
      <4>1. CASE kind = "answer_ready"
        BY <2>1, <3>3, <4>1, CallsAreNew DEF TailOp
      <4>2. CASE kind # "answer_ready"
        BY <2>1, <3>2, <4>2, CallsAreNew DEF TailOp
      <4>3. QED BY <4>1, <4>2
    <3>4. QED BY <2>1, <3>1, <3>3, TailOps
  <2>5. DeadlineOp(v, j, late[j]) \in Op /\ New(DeadlineOp(v, j, late[j]))
    <3>1. /\ By("deadline", Complete(j, "whole")) \in Op
          /\ late[j] = "complete" => New(By("deadline", Complete(j, "whole")))
          /\ By("deadline", FailOp(v, j)) \in Op /\ New(By("deadline", FailOp(v, j)))
      BY <2>1, <2>3, EndingOps, CallsAreNew DEF HasAnswer
    <3>2. QED BY <3>1 DEF DeadlineOp
  <2>6. PICK next, end :
          /\ next \in Op \/ rest = <<>>
          /\ rest # <<>> => New(next)
          /\ end \in Op /\ New(end)
          /\ queue' = (Tail(queue) \o (IF rest = <<>> THEN <<>> ELSE <<next>>))
                      \o (IF due THEN <<end>> ELSE <<>>)
    BY <2>2, <2>4, <2>5
  <2> HIDE DEF v, j
  <2> DEFINE q1 == Tail(queue) \o (IF rest = <<>> THEN <<>> ELSE <<next>>)
  <2>7. q1 \in Seq(Op) /\ \A o \in Ops(q1) : o \in Ops(queue) \/ New(o)
    <3>1. CASE rest = <<>>
      BY <2>1, <2>6, <3>1, ConcatOne
    <3>2. CASE rest # <<>>
      <4>1. next \in Op /\ New(next) /\ q1 = Append(Tail(queue), next)
        BY <2>1, <2>6, <3>2, ConcatOne
      <4>2. q1 \in Seq(Op) /\ Ops(q1) = Ops(Tail(queue)) \cup {next}
        BY <2>1, <4>1, OneMore
      <4>3. QED BY <2>1, <4>1, <4>2
    <3>3. QED BY <3>1, <3>2
  <2>8. queue' = q1 \/ queue' = Append(q1, end)
    BY <2>6, <2>7, ConcatOne
  <2> HIDE DEF q1
  <2>9. Ops(queue') \subseteq Ops(q1) \cup {end}
    BY <2>6, <2>7, <2>8, OneMore
  <2>10. QED BY <2>6, <2>7, <2>9
<1>9. CASE Admitted \/ StartAnswered \/ EndAnswered \/ CancelAnswered \/ InterruptAnswered
  BY <1>4, <1>9 DEF Admitted, StartAnswered, EndAnswered, CancelAnswered, InterruptAnswered
<1>10. CASE JournalBreaks \/ Crash \/ ShutdownEnds
  BY <1>3, <1>10 DEF JournalBreaks, Crash, ShutdownEnds, Exit
<1>11. CASE \/ UNCHANGED vars \/ Boot \/ ShutdownBegins \/ ShutdownInterrupts
            \/ \E on \in BOOLEAN : Drain(on)
  BY <1>2, <1>11 DEF vars, Boot, ShutdownBegins, ShutdownInterrupts, Drain
<1>12. CASE \E j \in Job : Step(j)
  BY <1>2, <1>5, <1>7, <1>12
<1>13. CASE \E r \in Request : Submit(r)
  BY <1>5, <1>6, <1>13
<1>14. QED BY <1>8, <1>9, <1>10, <1>11, <1>12, <1>13 DEF Next, Writer

\* What waits keeps saying what it may, whatever is written before it.
LEMMA NextTruthful ==
  ASSUME IInv, IInv', Checkpointed, Truthful, [Next]_vars
  PROVE  Truthful'
<1> SUFFICES ASSUME NEW op \in Ops(queue)', Right(job, op), op.kind # "accepted"
             PROVE  Says(job'[op.job], op.kind, op.response, op.fence, op.cause)
  BY Decided DEF Truthful, New, Right, Ops
<1>1. op.job \in Job
  BY DEF IInv, Sane, Fits, Ops
<1>2. job[op.job].checkpoint => job'[op.job].checkpoint
  BY <1>1, NextAsPromised, CheckpointStays
<1>3. QED BY <1>2 DEF Right, Says

\* However runs, deadlines, cancels, shutdowns, broken journals, crashes and boots
\* race, no step of the coordinator does to a job what the store does not promise: a
\* prompt is a job once, after its earlier generations; a job moves forward only;
\* and it is completed with its whole answer, or with a checkpoint the journal has.
THEOREM JournalKeepsPromise == Spec => JournalAsPromised
<1>1. Init => IInv /\ Checkpointed /\ Truthful
  <2>1. Init => Checkpointed /\ Truthful
    BY DEF Init, Checkpointed, Truthful, Ops, AbsentJob
  <2>2. QED BY <2>1, InitIInv
<1>2. IInv /\ Checkpointed /\ Truthful /\ [Next]_vars => (IInv /\ Checkpointed /\ Truthful)'
  BY NextIInv, NextCheckpointed, NextTruthful
<1>3. IInv /\ Checkpointed /\ Truthful /\ [Next]_vars => [\A j \in Job : Promised(j)]_vars
  BY NextAsPromised
<1>4. QED BY <1>1, <1>2, <1>3, PTL DEF Spec, JournalAsPromised
-----------------------------------------------------------------------------
(***************************************************************************)
(* No two runs work on one session.                                        *)
(***************************************************************************)

\* Only an interrupted job is fenced, and no fence lapses before its job ended.
Fencing ==
  \A j \in Job : /\ job[j].fence => job[j].status = "interrupted"
                 /\ j \in lapsed => Over(j)

\* A child that works is its server's run, or a dead server's, owned in the journal.
Owning ==
  \A j \in Job : Works(j) /\ ~Over(j) =>
    /\ health # "down" => stage[j] = "active"
    /\ job[j].owned /\ job[j].status \in {"running", "answer_ready"}

\* A job whose child may still get its prompt, or works on it.
Early(j) ==
  \/ job[j].status \in {"absent", "accepted"}
  \/ stage[j] \in {"waiting", "marking", "started"}
  \/ bridge[j] \in {"called", "spawned", "working"}
  \/ Works(j)

\* The whole answer of a job is in the journal, or a call for its row is made.
InHand(j) ==
  \/ job[j].status = "answer_ready"
  \/ job[j].status = "completed" /\ job[j].response = "whole"
  \/ late[j] = "complete"
  \/ AnswerOn(tail[j])
  \/ \E op \in Ops(queue) : op.job = j /\ Answers(op)

\* A child that works has not answered: a completed job whose child still works was
\* completed from a checkpoint.
Unanswered ==
  \A j \in Job : /\ Early(j) => ~InHand(j)
                 /\ bridge[j] \in {"flushing", "answering", "post", "done"} => ~Works(j)

\* One that outlived its run is fenced, and its session is not run by another, but
\* for the ends that leave it unfenced.
Outliving ==
  \A j \in Job : Works(j) /\ Over(j) /\ ~LeftUnfenced(j) =>
    /\ job[j].fence
    /\ \A i \in Job : SameSession(i, j) => stage[i] \notin {"started", "active"}

CInv ==
  /\ Checkpointed /\ Truthful
  /\ Fencing /\ Owning /\ Unanswered /\ Outliving /\ OneRunPerSession

\* A fence lapses once only, and only one that was stamped.
LEMMA LapseSteps ==
  ASSUME [Next]_vars
  PROVE  /\ lapsed \subseteq lapsed'
         /\ \A j \in lapsed' : j \in lapsed \/ (j \in Job /\ UNCHANGED job /\ job[j].fence)
<1>1. CASE UNCHANGED lapsed
  BY <1>1
<1>2. CASE \E i \in Job : FenceLapses(i)
  BY <1>2 DEF FenceLapses
<1>3. ASSUME NEW i \in Job, Step(i), ~FenceLapses(i) PROVE UNCHANGED lapsed
  <2>1. CASE \/ MarkStarting(i) \/ Launch(i) \/ GiveUp(i) \/ Spawn(i) \/ ProviderAnswers(i)
             \/ ProviderCheckpoints(i) \/ RunFails(i) \/ PostDone(i)
    BY <2>1 DEF MarkStarting, Launch, GiveUp, Spawn, ProviderAnswers, ProviderCheckpoints, RunFails,
                PostDone, jobVars
  <2>2. CASE \/ BridgeReports(i) \/ DeadlineFires(i) \/ Cancel(i) \/ InterruptRun(i) \/ Abandon(i)
             \/ ChildEnds(i)
    BY <2>2 DEF BridgeReports, DeadlineFires, Cancel, InterruptRun, Abandon, ChildEnds, jobVars
  <2>3. QED BY <1>3, <2>1, <2>2 DEF Step
<1>4. CASE Writer
  BY <1>4, <1>1 DEF Writer, Admitted, StartAnswered, CallbackAnswered, EndAnswered, CancelAnswered,
                    InterruptAnswered
<1>5. CASE \/ UNCHANGED vars \/ (\E r \in Request : Submit(r)) \/ (\E on \in BOOLEAN : Drain(on))
           \/ ShutdownBegins \/ ShutdownInterrupts \/ ShutdownEnds \/ Crash \/ Boot \/ JournalBreaks
  BY <1>5, <1>1 DEF vars, Submit, Drain, ShutdownBegins, ShutdownInterrupts, ShutdownEnds, Crash, Exit,
                    Boot, JournalBreaks, jobVars
<1>6. QED BY <1>1, <1>2, <1>3, <1>4, <1>5 DEF Next

\* A finished job stays as it is.
LEMMA OverStays ==
  ASSUME IInv, Checkpointed, Truthful, [Next]_vars
  PROVE  Onward /\ \A j \in Job : Over(j) => job'[j] = job[j]
<1>1. job \in [Job -> View]
  BY DEF IInv, TypeOK
<1>2. Onward
  <2>1. CASE UNCHANGED job
    BY <2>1, OnwardStays DEF IInv
  <2>2. CASE queue # <<>> /\ job' \in Cut(Head(queue))
    BY <2>2, CutFits
  <2>3. CASE Boot
    <3>1. PICK kept \in SUBSET {i \in Job : job[i].status = "accepted"} :
            job' = [i \in Job |-> Classified(i, kept)]
      BY <2>3 DEF Boot
    <3>2. \A j \in Job : /\ job'[j] \in View /\ job'[j].req = job[j].req
                         /\ job[j].status \notin Live => job'[j] = job[j]
                         /\ job[j].status \in Live => job'[j].status # "absent"
      BY <1>1, <3>1, Classification
    <3>3. QED BY <3>1, <3>2 DEF Onward, Exists, Over, Live, Terminal
  <2>4. QED BY <2>1, <2>2, <2>3, JobSteps
<1>3. ASSUME NEW j \in Job, Over(j) PROVE job'[j] = job[j]
  <2>1. /\ Exists(job, j) /\ job[j].status \notin Live /\ job[j].status # "running"
        /\ Allowed[job[j].status] = {}
    BY <1>1, <1>3, AllowedFacts DEF Over, Exists, Live, Terminal, View
  <2>2. Promised(j) /\ ~Moved(job[j], job'[j])
    BY <2>1, NextAsPromised DEF Moved
  <2>3. QED BY <2>1, <2>2 DEF Promised, Fresh
<1>4. QED BY <1>2, <1>3

\* A server is only started by a boot.
LEMMA DownStays ==
  ASSUME IInv, [Next]_vars, health = "down", health' # "down"
  PROVE  Boot
<1>1. CASE UNCHANGED health
  BY <1>1
<1>2. ASSUME NEW i \in Job, Step(i) PROVE FALSE
  <2>1. UNCHANGED health
    <3>1. CASE \/ MarkStarting(i) \/ Launch(i) \/ GiveUp(i) \/ Spawn(i) \/ ProviderAnswers(i)
               \/ ProviderCheckpoints(i) \/ RunFails(i) \/ PostDone(i)
      BY <3>1 DEF MarkStarting, Launch, GiveUp, Spawn, ProviderAnswers, ProviderCheckpoints, RunFails,
                  PostDone, hostVars
    <3>2. CASE \/ BridgeReports(i) \/ DeadlineFires(i) \/ Cancel(i) \/ InterruptRun(i) \/ Abandon(i)
               \/ ChildEnds(i) \/ FenceLapses(i)
      BY <3>2 DEF BridgeReports, DeadlineFires, Cancel, InterruptRun, Abandon, ChildEnds, FenceLapses,
                  hostVars
    <3>3. QED BY <1>2, <3>1, <3>2 DEF Step
  <2>2. QED BY <2>1
<1>3. CASE Writer \/ JournalBreaks
  BY <1>3 DEF Writer, Admitted, StartAnswered, CallbackAnswered, EndAnswered, CancelAnswered,
              InterruptAnswered, JournalBreaks
<1>4. CASE \/ UNCHANGED vars \/ (\E r \in Request : Submit(r)) \/ (\E on \in BOOLEAN : Drain(on))
           \/ ShutdownBegins \/ ShutdownInterrupts \/ ShutdownEnds \/ Crash
  BY <1>4 DEF vars, Submit, Drain, ShutdownBegins, ShutdownInterrupts, ShutdownEnds, Crash, Exit, hostVars
<1>5. QED BY <1>2, <1>3, <1>4 DEF Next

\* A run whose child goes on working ends only with its job, or with its server.
LEMMA RunEnds ==
  ASSUME IInv, [Next]_vars, NEW j \in Job, stage[j] = "active", child'[j] = "prompted", health' # "down"
  PROVE  stage'[j] = "active" \/ job'[j].status \in Terminal
<1>1. stage \in [Job -> Stage] /\ child \in [Job -> Child]
  BY DEF IInv, TypeOK
<1>2. ASSUME NEW i \in Job, i # j, NEW at, stage' = [stage EXCEPT ![i] = at] PROVE stage'[j] = "active"
  BY <1>1, <1>2
<1>3. CASE UNCHANGED stage
  BY <1>3
<1>4. ASSUME NEW i \in Job, Finish(i), i # j PROVE stage'[j] = "active"
  BY <1>2, <1>4 DEF Finish
<1>5. CASE Admitted
  <2>1. ASSUME NEW i \in Created(Head(queue)), stage' = [stage EXCEPT ![i] = "waiting"]
        PROVE  stage'[j] = "active"
    <3>1. i \in Job /\ stage[i] = "none"
      BY DEF Created, Fresh, IInv, Line, InItsLine
    <3>2. QED BY <1>2, <2>1, <3>1
  <2>2. QED BY <1>3, <1>5, <2>1 DEF Admitted
<1>6. CASE StartAnswered
  <2>1. Head(queue).job \in Job /\ stage[Head(queue).job] = "marking"
    <3>1. queue \in Seq(Op) /\ queue # <<>> /\ Head(queue).by = "start"
      BY <1>6 DEF StartAnswered, IInv, TypeOK
    <3>2. Fits(Head(queue)) /\ Head(queue) \in Ops(queue)
      BY <3>1, SaneTail DEF IInv
    <3>3. QED BY <3>1, <3>2 DEF Fits, IInv, Pledged, Pledge
  <2>2. \/ Finish(Head(queue).job)
        \/ \E at \in {"started", "waiting"} : stage' = [stage EXCEPT ![Head(queue).job] = at]
    BY <1>6 DEF StartAnswered
  <2>3. QED BY <1>2, <1>4, <2>1, <2>2
<1>7. CASE CallbackAnswered \/ EndAnswered \/ CancelAnswered \/ InterruptAnswered
  BY <1>7, RunAnswers DEF StagesEnd, Over
<1>8. ASSUME NEW i \in Job, Step(i) PROVE stage'[j] = "active" \/ job'[j].status \in Terminal
  <2>1. CASE MarkStarting(i) \/ Launch(i) \/ GiveUp(i)
    BY <1>2, <1>4, <2>1 DEF MarkStarting, HoldsLock, Launch, GiveUp
  <2>2. CASE Abandon(i)
    <3>1. Finish(i) /\ child' = [child EXCEPT ![i] = Stopped(child[i])]
      BY <2>2 DEF Abandon, Abort
    <3>2. Stopped(child[i]) # "prompted"
      BY <1>1 DEF Stopped, Child
    <3>3. i # j
      BY <1>1, <3>1, <3>2
    <3>4. QED BY <1>4, <3>1, <3>3
  <2>3. CASE BridgeReports(i) \/ InterruptRun(i)
    <3>1. UNCHANGED stage \/ (Finish(i) /\ Over(i) /\ UNCHANGED job)
      BY <2>3 DEF BridgeReports, InterruptRun, FinishIf, jobVars
    <3>2. QED BY <1>3, <1>4, <3>1 DEF Over
  <2>4. CASE \/ Spawn(i) \/ ProviderAnswers(i) \/ ProviderCheckpoints(i) \/ RunFails(i) \/ PostDone(i)
             \/ DeadlineFires(i) \/ Cancel(i) \/ ChildEnds(i) \/ FenceLapses(i)
    BY <2>4 DEF Spawn, ProviderAnswers, ProviderCheckpoints, RunFails, PostDone, DeadlineFires, Cancel,
                ChildEnds, FenceLapses, runVars
  <2>5. QED BY <1>8, <2>1, <2>2, <2>3, <2>4 DEF Step
<1>9. CASE Crash \/ ShutdownEnds \/ Boot
  BY <1>9 DEF Crash, ShutdownEnds, Exit, Boot, IInv, Quiet
<1>10. CASE \/ UNCHANGED vars \/ JournalBreaks \/ ShutdownBegins \/ ShutdownInterrupts
            \/ (\E r \in Request : Submit(r)) \/ (\E on \in BOOLEAN : Drain(on))
  BY <1>10 DEF vars, Submit, JournalBreaks, ShutdownBegins, ShutdownInterrupts, Drain, runVars
<1>11. QED BY <1>5, <1>6, <1>7, <1>8, <1>9, <1>10 DEF Next, Writer

\* Only an interrupt fences, and no row follows one.
LEMMA NextFencing ==
  ASSUME IInv, Checkpointed, Truthful, Fencing, [Next]_vars
  PROVE  Fencing'
<1> SUFFICES ASSUME NEW j \in Job
             PROVE  /\ job'[j].fence => job'[j].status = "interrupted"
                    /\ j \in lapsed' => job'[j].status \in Terminal
  BY DEF Fencing, Over
<1>1. /\ job[j].fence => job[j].status = "interrupted"
      /\ j \in lapsed => Over(j)
      /\ job[j].status = "interrupted" => Over(j)
  BY DEF Fencing, Over, Terminal
<1>2. Over(j) => job'[j] = job[j]
  BY OverStays
<1>3. j \in lapsed' => job'[j].status \in Terminal
  BY <1>1, <1>2, LapseSteps DEF Over
<1>4. CASE UNCHANGED job
  BY <1>1, <1>3, <1>4
<1>5. CASE queue # <<>> /\ job' \in Cut(Head(queue))
  <2>1. job'[j].fence => job[j].fence \/ job'[j].status = "interrupted"
    BY <1>5, HeadEffect
  <2>2. QED BY <1>1, <1>2, <1>3, <2>1
<1>6. CASE Boot
  <2>1. PICK kept \in SUBSET {i \in Job : job[i].status = "accepted"} :
          job' = [i \in Job |-> Classified(i, kept)]
    BY <1>6 DEF Boot
  <2>2. job'[j] = Classified(j, kept) /\ job \in [Job -> View]
    BY <2>1 DEF IInv, TypeOK
  <2>3. CASE job[j].status \notin Live \/ j \in kept
    <3>1. job'[j] = job[j]
      BY <2>2, <2>3, Classification
    <3>2. QED BY <1>1, <1>3, <3>1
  <2>4. CASE job[j].status \in Live /\ j \notin kept
    <3>1. \/ ~job'[j].fence
          \/ job'[j].status = "interrupted"
          \/ job[j].status = "accepted" /\ job'[j].fence = job[j].fence
      BY <2>2, <2>4, Classification
    <3>2. QED BY <1>1, <1>3, <3>1
  <2>5. QED BY <2>3, <2>4
<1>7. QED BY <1>4, <1>5, <1>6, JobSteps

\* A child gets its prompt owned, and works for its run until that ends.
LEMMA NextOwning ==
  ASSUME IInv, Checkpointed, Truthful, Owning, [Next]_vars
  PROVE  Owning'
<1> SUFFICES ASSUME NEW j \in Job, child'[j] = "prompted", job'[j].status \notin Terminal
             PROVE  /\ health' # "down" => stage'[j] = "active"
                    /\ job'[j].owned /\ job'[j].status \in {"running", "answer_ready"}
  BY DEF Owning, Works, Over
<1>1. CASE child[j] # "prompted"
  BY <1>1, ChildSteps
<1>2. CASE child[j] = "prompted"
  <2>1. ~Over(j)
    BY OverStays DEF Over
  <2>2. /\ health # "down" => stage[j] = "active"
        /\ job[j].owned /\ job[j].status \in {"running", "answer_ready"}
    BY <1>2, <2>1 DEF Owning, Works
  <2>3. ~Boot /\ job'[j].owned /\ job'[j].status \in {"running", "answer_ready"}
    <3>1. job \in [Job -> View]
      BY DEF IInv, TypeOK
    <3>2. ~Boot
      <4>1. SUFFICES ASSUME Boot PROVE FALSE
        OBVIOUS
      <4>2. PICK kept \in SUBSET {i \in Job : job[i].status = "accepted"} :
              job' = [i \in Job |-> Classified(i, kept)]
        BY <4>1 DEF Boot
      <4>3. job[j].status \in Live /\ j \notin kept /\ job'[j] = Classified(j, kept)
        BY <2>2, <4>2 DEF Live
      <4>4. job'[j].status \in {"completed", "interrupted"}
        BY <2>2, <3>1, <4>3, Classification
      <4>5. QED BY <4>4 DEF Terminal
    <3>3. CASE UNCHANGED job
      BY <2>2, <3>2, <3>3
    <3>4. CASE queue # <<>> /\ job' \in Cut(Head(queue))
      <4>1. /\ Exists(job, j) /\ job[j].owned => job'[j].owned
            /\ \/ job'[j].status = job[j].status
               \/ job'[j].status \in Allowed[job[j].status]
               \/ ~Exists(job, j)
        BY <3>4, HeadEffect
      <4>2. Exists(job, j)
        BY <2>2 DEF Exists
      <4>3. job[j].status = "running" => Allowed[job[j].status] \subseteq {"answer_ready"} \cup Terminal
        BY AllowedFacts DEF Status, Live
      <4>4. job[j].status = "answer_ready" => Allowed[job[j].status] \subseteq Terminal
        BY AllowedFacts DEF Status, Live, Terminal
      <4>5. QED BY <2>2, <3>2, <4>1, <4>2, <4>3, <4>4
    <3>5. QED BY <3>2, <3>3, <3>4, JobSteps
  <2>4. ASSUME health' # "down" PROVE stage'[j] = "active"
    <3>1. health # "down"
      BY <2>3, <2>4, DownStays
    <3>2. QED BY <2>2, <2>4, <3>1, RunEnds
  <2>5. QED BY <2>3, <2>4
<1>3. QED BY <1>1, <1>2

\* A start begins where an admission, or the boot, lines its job up.
LEMMA StageBack ==
  ASSUME IInv, [Next]_vars, NEW j \in Job, stage'[j] \in {"waiting", "marking", "started"}
  PROVE  stage[j] \in {"waiting", "marking", "started"} \/ job[j].status \in {"absent", "accepted"}
<1>1. stage \in [Job -> Stage] /\ queue \in Seq(Op)
  BY DEF IInv, TypeOK
<1>2. CASE UNCHANGED stage
  BY <1>2
<1>3. ASSUME NEW i \in Job, Finish(i) PROVE stage'[j] = stage[j]
  BY <1>1, <1>3 DEF Finish
<1>4. CASE Admitted
  <2>1. ASSUME NEW i \in Created(Head(queue)), stage' = [stage EXCEPT ![i] = "waiting"]
        PROVE  stage'[j] = stage[j] \/ job[j].status = "absent"
    BY <1>1, <2>1 DEF Created, Fresh, Exists
  <2>2. QED BY <1>4, <2>1 DEF Admitted
<1>5. CASE StartAnswered
  <2>1. Head(queue).job \in Job /\ stage[Head(queue).job] = "marking"
    <3>1. queue # <<>> /\ Head(queue).by = "start"
      BY <1>5 DEF StartAnswered
    <3>2. Fits(Head(queue)) /\ Head(queue) \in Ops(queue)
      BY <1>1, <3>1, SaneTail DEF IInv
    <3>3. QED BY <3>1, <3>2 DEF Fits, IInv, Pledged, Pledge
  <2>2. \/ Finish(Head(queue).job)
        \/ \E at \in {"started", "waiting"} : stage' = [stage EXCEPT ![Head(queue).job] = at]
    BY <1>5 DEF StartAnswered
  <2>3. QED BY <1>1, <1>3, <2>1, <2>2
<1>6. CASE \/ CallbackAnswered \/ EndAnswered \/ CancelAnswered \/ InterruptAnswered
  <2>1. Head(queue).job \in Job
    <3>1. queue # <<>> /\ Head(queue).by \notin {"submit", "start"}
      BY <1>6 DEF CallbackAnswered, EndAnswered, CancelAnswered, InterruptAnswered
    <3>2. QED BY <1>1, <3>1, SaneTail DEF IInv, Fits
  <2>2. UNCHANGED stage \/ Finish(Head(queue).job)
    BY <1>6 DEF CallbackAnswered, EndAnswered, CancelAnswered, InterruptAnswered, FinishIf
  <2>3. QED BY <1>2, <1>3, <2>1, <2>2
<1>7. ASSUME NEW i \in Job, Step(i) PROVE stage[j] \in {"waiting", "marking", "started"}
  <2>1. CASE MarkStarting(i)
    BY <1>1, <2>1 DEF MarkStarting, HoldsLock
  <2>2. CASE Launch(i)
    BY <1>1, <1>3, <2>2 DEF Launch
  <2>3. CASE GiveUp(i) \/ Abandon(i) \/ BridgeReports(i) \/ InterruptRun(i)
    <3>1. UNCHANGED stage \/ Finish(i)
      BY <2>3 DEF GiveUp, Abandon, BridgeReports, InterruptRun, FinishIf
    <3>2. QED BY <1>2, <1>3, <3>1
  <2>4. CASE \/ Spawn(i) \/ ProviderAnswers(i) \/ ProviderCheckpoints(i) \/ RunFails(i) \/ PostDone(i)
             \/ DeadlineFires(i) \/ Cancel(i) \/ ChildEnds(i) \/ FenceLapses(i)
    BY <2>4 DEF Spawn, ProviderAnswers, ProviderCheckpoints, RunFails, PostDone, DeadlineFires, Cancel,
                ChildEnds, FenceLapses, runVars
  <2>5. QED BY <1>7, <2>1, <2>2, <2>3, <2>4 DEF Step
<1>8. CASE Boot
  <2>1. PICK kept \in SUBSET {i \in Job : job[i].status = "accepted"} :
          stage' = [i \in Job |-> IF i \in kept THEN "waiting" ELSE "none"]
    BY <1>8 DEF Boot
  <2>2. QED BY <2>1
<1>9. CASE Crash \/ ShutdownEnds
  BY <1>9 DEF Crash, ShutdownEnds, Exit
<1>10. CASE \/ UNCHANGED vars \/ JournalBreaks \/ \E r \in Request : Submit(r)
            \/ ShutdownBegins \/ ShutdownInterrupts \/ \E on \in BOOLEAN : Drain(on)
  BY <1>10 DEF vars, Submit, JournalBreaks, ShutdownBegins, ShutdownInterrupts, Drain, runVars
<1>11. QED BY <1>4, <1>5, <1>6, <1>7, <1>8, <1>9, <1>10 DEF Next, Writer

\* A bridge begins with a started run, and has its answer once the child is gone.
LEMMA BridgeSteps ==
  ASSUME IInv, [Next]_vars, NEW j \in Job
  PROVE  /\ bridge'[j] \in {"called", "spawned", "working"}
              => bridge[j] \in {"called", "spawned", "working"} \/ stage[j] = "started"
         /\ bridge'[j] \in {"flushing", "answering", "post", "done"}
              => bridge[j] \in {"flushing", "answering", "post", "done"} \/ child'[j] = "gone"
<1>1. bridge \in [Job -> Bridge] /\ child \in [Job -> Child] /\ queue \in Seq(Op)
  BY DEF IInv, TypeOK
<1> DEFINE Goal == /\ bridge'[j] \in {"called", "spawned", "working"}
                        => bridge[j] \in {"called", "spawned", "working"} \/ stage[j] = "started"
                   /\ bridge'[j] \in {"flushing", "answering", "post", "done"}
                        => bridge[j] \in {"flushing", "answering", "post", "done"} \/ child'[j] = "gone"
<1>2. CASE UNCHANGED bridge
  BY <1>2
<1>3. ASSUME NEW i \in Job, NEW b, bridge' = [bridge EXCEPT ![i] = b],
             \/ b \in {bridge[i], "off", "error", "reported"}
             \/ b = "called" /\ stage[i] = "started"
             \/ b \in {"spawned", "working"} /\ bridge[i] \in {"called", "spawned"}
             \/ b = "flushing" /\ child'[i] = "gone"
             \/ b \in {"answering", "post", "done"} /\ bridge[i] \in {"flushing", "answering", "post"}
      PROVE  Goal
  BY <1>1, <1>3
<1>4. ASSUME NEW i \in Job, Abort(i) PROVE Goal
  <2>1. PICK b : bridge' = [bridge EXCEPT ![i] = b] /\ b \in {bridge[i], "off"}
    BY <1>4 DEF Abort
  <2>2. QED BY <1>3, <2>1
<1>5. CASE CallbackAnswered
  <2> DEFINE op == Head(queue)
             owned == /\ Verdict(op) /\ stage[op.job] = "active"
                      /\ op.kind = "linkage" => Written(op)[op.job].status = "running"
  <2>1. queue # <<>> /\ op.by = "tail" /\ Resume(op.job, op.kind, owned)
    BY <1>5 DEF CallbackAnswered
  <2>2. op.job \in Job
    BY <1>1, <2>1, SaneTail DEF IInv, Fits
  <2>3. owned \in BOOLEAN
    BY DEF Verdict
  <2> HIDE DEF owned
  <2>4. \/ UNCHANGED bridge
        \/ bridge[op.job] = "spawned" /\ bridge' = [bridge EXCEPT ![op.job] = "working"]
        \/ bridge' = [bridge EXCEPT ![op.job] = "off"]
        \/ /\ bridge[op.job] \in {"flushing", "answering"}
           /\ \E b \in {"answering", "post", "off"} : bridge' = [bridge EXCEPT ![op.job] = b]
    BY <2>1, <2>2, <2>3, ResumeEffect
  <2>5. QED BY <1>2, <1>3, <2>2, <2>4
<1>6. CASE \/ EndAnswered \/ CancelAnswered \/ InterruptAnswered
  <2>1. Head(queue).job \in Job
    <3>1. queue # <<>> /\ Head(queue).by \notin {"submit", "start"}
      BY <1>6 DEF EndAnswered, CancelAnswered, InterruptAnswered
    <3>2. QED BY <1>1, <3>1, SaneTail DEF IInv, Fits
  <2>2. UNCHANGED bridge \/ Abort(Head(queue).job)
    BY <1>6 DEF EndAnswered, CancelAnswered, InterruptAnswered
  <2>3. QED BY <1>2, <1>4, <2>1, <2>2
<1>7. ASSUME NEW i \in Job, Step(i) PROVE Goal
  <2>1. CASE Launch(i)
    BY <1>2, <1>3, <2>1 DEF Launch
  <2>2. CASE Spawn(i)
    BY <1>3, <2>2 DEF Spawn, Runs, BridgeAt
  <2>3. CASE ProviderAnswers(i)
    <3>1. bridge' = [bridge EXCEPT ![i] = "flushing"] /\ child' = [child EXCEPT ![i] = "gone"]
      BY <2>3 DEF ProviderAnswers, BridgeAt
    <3>2. child'[i] = "gone"
      BY <1>1, <3>1
    <3>3. QED BY <1>3, <3>1, <3>2
  <2>4. CASE RunFails(i) \/ BridgeReports(i)
    BY <1>3, <2>4 DEF RunFails, BridgeReports, BridgeAt
  <2>5. CASE PostDone(i)
    <3>1. PICK b \in {"done", "off"} : bridge' = [bridge EXCEPT ![i] = b] /\ bridge[i] = "post"
      BY <2>5 DEF PostDone, BridgeAt
    <3>2. QED BY <1>3, <3>1
  <2>6. CASE InterruptRun(i) \/ Abandon(i)
    <3>1. UNCHANGED bridge \/ Abort(i)
      BY <2>6 DEF InterruptRun, Abandon
    <3>2. QED BY <1>2, <1>4, <3>1
  <2>7. CASE \/ MarkStarting(i) \/ GiveUp(i) \/ ProviderCheckpoints(i) \/ DeadlineFires(i)
             \/ Cancel(i) \/ ChildEnds(i) \/ FenceLapses(i)
    BY <1>2, <2>7 DEF MarkStarting, GiveUp, ProviderCheckpoints, DeadlineFires, Cancel, ChildEnds,
                      FenceLapses, runVars
  <2>8. QED BY <1>7, <2>1, <2>2, <2>3, <2>4, <2>5, <2>6, <2>7 DEF Step
<1>8. CASE Crash \/ ShutdownEnds
  BY <1>8 DEF Crash, ShutdownEnds, Exit
<1>9. CASE \/ UNCHANGED vars \/ JournalBreaks \/ Boot \/ Admitted \/ StartAnswered
           \/ ShutdownBegins \/ ShutdownInterrupts
           \/ \E on \in BOOLEAN : Drain(on)
           \/ \E r \in Request : Submit(r)
  BY <1>2, <1>9 DEF vars, JournalBreaks, Boot, Admitted, StartAnswered, ShutdownBegins,
                    ShutdownInterrupts, Drain, Submit, runVars
<1>10. QED BY <1>5, <1>6, <1>7, <1>8, <1>9 DEF Next, Writer

\* No step makes a job early again.
LEMMA EarlyBack ==
  ASSUME IInv, Checkpointed, Truthful, [Next]_vars, NEW j \in Job, Early(j)'
  PROVE  Early(j)
<1>1. CASE job'[j].status \in {"absent", "accepted"}
  <2>1. job[j] \in View /\ job[j].status \in Status
    BY DEF IInv, TypeOK, View
  <2>2. Promised(j)
    BY NextAsPromised
  <2>3. CASE Moved(job[j], job'[j])
    <3>1. job'[j].status \in Allowed[job[j].status]
      BY <2>1, <2>3 DEF Moved, View
    <3>2. QED BY <1>1, <2>1, <3>1, AllowedFacts
  <2>4. CASE ~Moved(job[j], job'[j])
    <3>1. job'[j].status = job[j].status \/ Fresh(job, j)
      BY <2>1, <2>2, <2>4 DEF Promised, View
    <3>2. QED BY <1>1, <3>1 DEF Early, Fresh, Exists
  <2>5. QED BY <2>3, <2>4
<1>2. CASE stage'[j] \in {"waiting", "marking", "started"}
  BY <1>2, StageBack DEF Early
<1>3. CASE bridge'[j] \in {"called", "spawned", "working"}
  BY <1>3, BridgeSteps DEF Early
<1>4. CASE child'[j] = "prompted"
  BY <1>4, ChildSteps DEF Early, Works
<1>5. QED BY <1>1, <1>2, <1>3, <1>4 DEF Early, Works

\* The journal gets an answer from a call, and keeps it.
LEMMA StatusBack ==
  ASSUME IInv, Checkpointed, Truthful, [Next]_vars, NEW j \in Job,
         \/ job'[j].status = "answer_ready"
         \/ job'[j].status = "completed" /\ job'[j].response = "whole"
  PROVE  InHand(j)
<1>1. job \in [Job -> View] /\ job[j] \in View /\ job[j].status \in Status
  BY DEF IInv, TypeOK, View
<1>2. CASE job'[j].status = job[j].status
  <2>1. job[j].status = "completed" => job'[j] = job[j]
    BY OverStays DEF Over, Terminal
  <2>2. QED BY <1>2, <2>1 DEF InHand
<1>3. CASE job'[j].status # job[j].status /\ queue # <<>> /\ job' \in Cut(Head(queue))
  <2>1. /\ Head(queue) \in Ops(queue) /\ Head(queue).job = j
        /\ Head(queue).kind = job'[j].status /\ Head(queue).response = job'[j].response
    BY <1>3, HeadEffect
  <2>2. QED BY <2>1 DEF InHand, Answers
<1>4. CASE job'[j].status # job[j].status /\ Boot
  <2>1. PICK kept \in SUBSET {i \in Job : job[i].status = "accepted"} :
          job' = [i \in Job |-> Classified(i, kept)]
    BY <1>4 DEF Boot
  <2>2. job'[j] = Classified(j, kept)
    BY <2>1
  <2>3. job[j].status \in Live /\ j \notin kept
    BY <1>1, <1>4, <2>2, Classification
  <2>4. job[j].status = "answer_ready"
    BY <1>1, <2>2, <2>3, Classification
  <2>5. QED BY <2>4 DEF InHand
<1>5. QED BY <1>2, <1>3, <1>4, JobSteps

\* The answer joins the callbacks once the text is flushed.
LEMMA TailBack ==
  ASSUME IInv, [Next]_vars, NEW j \in Job, AnswerOn(tail'[j])
  PROVE  AnswerOn(tail[j]) \/ (stage[j] = "active" /\ bridge[j] = "flushing")
<1>1. tail \in [Job -> Seq(TailKind)] /\ queue \in Seq(Op)
  BY DEF IInv, TypeOK, TailKind
<1>2. CASE UNCHANGED tail
  BY <1>2
<1>3. CASE tail' = [i \in Job |-> <<>>]
  BY <1>3 DEF AnswerOn
<1>4. ASSUME NEW s \in Seq(TailKind), NEW t \in Seq(TailKind), AnswerOn(s \o t), ~AnswerOn(t)
      PROVE  AnswerOn(s)
  <2>1. PICK i \in 1 .. Len(s \o t) : (s \o t)[i] = "answer_ready"
    BY <1>4 DEF AnswerOn
  <2>2. /\ Len(s \o t) = Len(s) + Len(t)
        /\ i \in 1 .. Len(s) => (s \o t)[i] = s[i]
        /\ i \notin 1 .. Len(s) => i - Len(s) \in 1 .. Len(t) /\ (s \o t)[i] = t[i - Len(s)]
    BY <2>1
  <2>3. QED BY <1>4, <2>1, <2>2 DEF AnswerOn
<1>5. ASSUME NEW i \in Job, \/ Report(i, <<"running", "linkage">>) \/ Report(i, <<"partial">>)
                            \/ Report(i, <<"checkpoint">>)
      PROVE  AnswerOn(tail[j])
  <2>1. PICK t \in {<<"running", "linkage">>, <<"partial">>, <<"checkpoint">>} :
          tail' = [tail EXCEPT ![i] = tail[i] \o t]
    BY <1>5 DEF Report
  <2>2. t \in Seq(TailKind) /\ ~AnswerOn(t)
    <3>1. ASSUME NEW x \in TailKind, NEW y \in TailKind, x # "answer_ready", y # "answer_ready"
          PROVE  /\ <<x>> \in Seq(TailKind) /\ ~AnswerOn(<<x>>)
                 /\ <<x, y>> \in Seq(TailKind) /\ ~AnswerOn(<<x, y>>)
      <4>1. Len(<<x>>) = 1 /\ <<x>>[1] = x
        OBVIOUS
      <4>2. Len(<<x, y>>) = 2 /\ <<x, y>>[1] = x /\ <<x, y>>[2] = y
        OBVIOUS
      <4>3. \A k \in 1 .. 2 : k = 1 \/ k = 2
        OBVIOUS
      <4>4. <<x>> \in Seq(TailKind) /\ <<x, y>> \in Seq(TailKind)
        OBVIOUS
      <4>5. QED BY <3>1, <4>1, <4>2, <4>3, <4>4 DEF AnswerOn
    <3>2. /\ "running" \in TailKind /\ "linkage" \in TailKind
          /\ "partial" \in TailKind /\ "checkpoint" \in TailKind
      BY DEF TailKind
    <3>3. QED BY <2>1, <3>1, <3>2
  <2>3. CASE i = j
    <3>1. tail'[j] = tail[j] \o t /\ tail[j] \in Seq(TailKind)
      BY <1>1, <2>1, <2>3
    <3>2. QED BY <1>4, <2>2, <3>1
  <2>4. CASE i # j
    BY <1>1, <2>1, <2>4
  <2>5. QED BY <2>3, <2>4
<1>6. CASE CallbackAnswered
  <2> DEFINE op == Head(queue)
             i == op.job
             owned == /\ Verdict(op) /\ stage[i] = "active"
                      /\ op.kind = "linkage" => Written(op)[i].status = "running"
             flushed == op.kind = "partial" /\ owned /\ bridge[i] = "flushing"
             more == IF flushed THEN <<"answer_ready">> ELSE <<>>
  <2>1. queue # <<>> /\ op.by = "tail" /\ tail' = [tail EXCEPT ![i] = Tail(tail[i]) \o more]
    BY <1>6, Zenon DEF CallbackAnswered
  <2>2. i \in Job /\ tail[i] # <<>>
    <3>1. Fits(op) /\ Pledge(op)
      BY <1>1, <2>1, SaneTail DEF IInv, Pledged
    <3>2. QED BY <2>1, <3>1 DEF Fits, Pledge
  <2>3. CASE i = j /\ ~flushed
    <3>1. tail[j] \in Seq(TailKind) /\ tail[j] # <<>> /\ more = <<>> /\ tail'[j] = Tail(tail[j]) \o <<>>
      BY <1>1, <2>1, <2>2, <2>3
    <3>2. tail'[j] = Tail(tail[j])
      BY <3>1
    <3>3. PICK k \in 1 .. Len(Tail(tail[j])) : Tail(tail[j])[k] = "answer_ready"
      BY <3>2 DEF AnswerOn
    <3>4. k + 1 \in 1 .. Len(tail[j]) /\ tail[j][k + 1] = "answer_ready"
      BY <3>1, <3>3
    <3>5. QED BY <3>4 DEF AnswerOn
  <2>4. CASE i = j /\ flushed
    BY <2>4
  <2>5. CASE i # j
    BY <1>1, <2>1, <2>2, <2>5
  <2>6. QED BY <2>3, <2>4, <2>5
<1>7. ASSUME NEW i \in Job, Step(i) PROVE AnswerOn(tail[j])
  <2>1. CASE Spawn(i) \/ ProviderAnswers(i) \/ ProviderCheckpoints(i)
    BY <1>5, <2>1 DEF Spawn, ProviderAnswers, ProviderCheckpoints
  <2>2. CASE ~(Spawn(i) \/ ProviderAnswers(i) \/ ProviderCheckpoints(i))
    BY <1>2, <1>7, <2>2
       DEF Step, MarkStarting, Launch, GiveUp, RunFails, PostDone, BridgeReports, DeadlineFires, Cancel,
           InterruptRun, Abandon, ChildEnds, FenceLapses, runVars
  <2>3. QED BY <2>1, <2>2
<1>8. CASE JournalBreaks \/ Crash \/ ShutdownEnds
  BY <1>3, <1>8 DEF JournalBreaks, Crash, ShutdownEnds, Exit
<1>9. CASE \/ UNCHANGED vars \/ Boot \/ Admitted \/ StartAnswered \/ EndAnswered \/ CancelAnswered
           \/ InterruptAnswered \/ ShutdownBegins \/ ShutdownInterrupts
           \/ \E on \in BOOLEAN : Drain(on)
           \/ \E r \in Request : Submit(r)
  BY <1>2, <1>9 DEF vars, Boot, Admitted, StartAnswered, EndAnswered, CancelAnswered, InterruptAnswered,
                    ShutdownBegins, ShutdownInterrupts, Drain, Submit, runVars
<1>10. QED BY <1>6, <1>7, <1>8, <1>9 DEF Next, Writer

\* A deadline completes a job only if it finds the answer in the journal.
LEMMA LateBack ==
  ASSUME IInv, [Next]_vars, NEW j \in Job, late'[j] = "complete"
  PROVE  late[j] = "complete" \/ job[j].status = "answer_ready"
<1>1. late \in [Job -> {"no", "complete", "fail", "reported"}]
  BY DEF IInv, TypeOK
<1>2. CASE UNCHANGED late
  BY <1>2
<1>3. CASE CallbackAnswered
  <2>1. \/ UNCHANGED late
        \/ late' = [late EXCEPT ![Head(queue).job] = "reported"]
    BY <1>3 DEF CallbackAnswered
  <2>2. QED BY <1>1, <2>1
<1>4. ASSUME NEW i \in Job, DeadlineFires(i) PROVE late[j] = "complete" \/ job[j].status = "answer_ready"
  <2>1. \/ late' = [late EXCEPT ![i] = "reported"]
        \/ late' = [late EXCEPT ![i] = IF job[i].status = "answer_ready" THEN "complete" ELSE "fail"]
    BY <1>4 DEF DeadlineFires
  <2>2. QED BY <1>1, <2>1
<1>5. ASSUME NEW i \in Job, Step(i), ~DeadlineFires(i) PROVE UNCHANGED late
  <2>1. CASE \/ MarkStarting(i) \/ Launch(i) \/ GiveUp(i) \/ Spawn(i) \/ ProviderAnswers(i)
             \/ ProviderCheckpoints(i) \/ RunFails(i) \/ PostDone(i)
    BY <2>1 DEF MarkStarting, Launch, GiveUp, Spawn, ProviderAnswers, ProviderCheckpoints, RunFails, PostDone
  <2>2. CASE \/ BridgeReports(i) \/ Cancel(i) \/ InterruptRun(i) \/ Abandon(i) \/ ChildEnds(i)
             \/ FenceLapses(i)
    BY <2>2 DEF BridgeReports, Cancel, InterruptRun, Abandon, ChildEnds, FenceLapses, runVars
  <2>3. QED BY <1>5, <2>1, <2>2 DEF Step
<1>6. CASE Crash \/ ShutdownEnds
  BY <1>6 DEF Crash, ShutdownEnds, Exit
<1>7. CASE \/ UNCHANGED vars \/ Boot \/ Admitted \/ StartAnswered \/ EndAnswered \/ CancelAnswered
           \/ InterruptAnswered \/ JournalBreaks \/ ShutdownBegins \/ ShutdownInterrupts
           \/ \E on \in BOOLEAN : Drain(on)
           \/ \E r \in Request : Submit(r)
  BY <1>2, <1>7 DEF vars, Boot, Admitted, StartAnswered, EndAnswered, CancelAnswered, InterruptAnswered,
                    JournalBreaks, ShutdownBegins, ShutdownInterrupts, Drain, Submit, runVars
<1>8. QED BY <1>2, <1>3, <1>4, <1>5, <1>6, <1>7 DEF Next, Writer

\* An answer comes from a run whose child is gone.
LEMMA NextUnanswered ==
  ASSUME IInv, Checkpointed, Truthful, Unanswered, [Next]_vars
  PROVE  Unanswered'
<1>1. ASSUME NEW j \in Job, InHand(j)'
      PROVE  InHand(j) \/ (stage[j] = "active" /\ bridge[j] \in {"flushing", "done"})
  <2>1. CASE \/ job'[j].status = "answer_ready"
             \/ job'[j].status = "completed" /\ job'[j].response = "whole"
    BY <2>1, StatusBack
  <2>2. CASE late'[j] = "complete"
    BY <2>2, LateBack DEF InHand
  <2>3. CASE AnswerOn(tail'[j])
    BY <2>3, TailBack DEF InHand
  <2>4. ASSUME NEW op \in Ops(queue'), op.job = j, Answers(op)
        PROVE  InHand(j) \/ (stage[j] = "active" /\ bridge[j] \in {"flushing", "done"})
    <3>1. CASE op \in Ops(queue)
      BY <2>4, <3>1 DEF InHand
    <3>2. CASE New(op)
      <4>1. HasAnswer(j) \/ AnswerOn(tail'[j])
        BY <2>4, <3>2 DEF New, Sourced
      <4>2. QED BY <2>1, <2>3, <4>1 DEF HasAnswer, InHand
    <3>3. QED BY <3>1, <3>2, Decided
  <2>5. QED BY <1>1, <2>1, <2>2, <2>3, <2>4 DEF InHand, Answers, Ops, AnswerOn
<1>2. ASSUME NEW j \in Job, Early(j)', InHand(j)' PROVE FALSE
  <2>1. Early(j) /\ ~InHand(j)
    BY <1>2, EarlyBack DEF Unanswered
  <2>2. stage[j] = "active" /\ bridge[j] \in {"flushing", "done"}
    BY <1>1, <1>2, <2>1
  <2>3. job[j].status \notin {"absent", "accepted"}
    BY <2>2 DEF IInv, StageFits
  <2>4. ~Works(j)
    BY <2>2 DEF Unanswered
  <2>5. QED BY <2>1, <2>2, <2>3, <2>4 DEF Early
<1>3. ASSUME NEW j \in Job, bridge'[j] \in {"flushing", "answering", "post", "done"},
             child'[j] = "prompted"
      PROVE  FALSE
  <2>1. bridge[j] \in {"flushing", "answering", "post", "done"}
    BY <1>3, BridgeSteps
  <2>2. child[j] = "prompted"
    BY <1>3, ChildSteps
  <2>3. QED BY <2>1, <2>2 DEF Unanswered, Works
<1>4. QED BY <1>2, <1>3 DEF Unanswered, Works

\* A child that works although its job ended got the prompt before, and its job ended
\* as one that is left unfenced or with a fence.
LEMMA NextOutliving ==
  ASSUME IInv, Checkpointed, Truthful, Fencing, Owning, Unanswered', Outliving, [Next]_vars
  PROVE  Outliving'
<1> SUFFICES ASSUME NEW j \in Job, child'[j] = "prompted", Over(j)', ~LeftUnfenced(j)'
             PROVE  /\ job'[j].fence
                    /\ \A i \in Job : i # j /\ Exists(job', i)
                         /\ job'[i].req.session = job'[j].req.session => stage'[i] \notin {"started", "active"}
  BY DEF Outliving, Works, SameSession, SessionOf
<1>1. /\ job \in [Job -> View] /\ job[j].status \in Status /\ child[j] = "prompted"
      /\ j \notin lapsed /\ j \notin lapsed'
  <2>1. child[j] = "prompted"
    BY ChildSteps DEF Over, Terminal
  <2>2. j \notin lapsed'
    BY DEF LeftUnfenced
  <2>3. QED BY <2>1, <2>2, LapseSteps DEF IInv, TypeOK, View
<1>2. Onward
  BY OverStays
<1>3. CASE Over(j)
  <2>1. job'[j] = job[j]
    BY <1>3, OverStays
  <2>2. ~LeftUnfenced(j)
    BY <1>1, <2>1 DEF LeftUnfenced
  <2>3. /\ job[j].fence /\ job[j].status = "interrupted" /\ Exists(job, j)
        /\ \A i \in Job : SameSession(i, j) => stage[i] \notin {"started", "active"}
    BY <1>1, <1>3, <2>2 DEF Outliving, Works, Fencing, Exists
  <2>4. ASSUME NEW i \in Job, i # j, job'[i].req.session = job'[j].req.session,
               stage'[i] \in {"started", "active"}
        PROVE  FALSE
    <3>1. CASE stage[i] \in {"started", "active"}
      <4>1. Exists(job, i)
        BY <3>1 DEF IInv, Line, InItsLine
      <4>2. SameSession(i, j)
        BY <1>2, <2>3, <2>4, <4>1 DEF SameSession, SessionOf, Onward
      <4>3. QED BY <2>3, <3>1, <4>2
    <3>2. CASE Head(queue).job = i /\ Head(queue).kind = "starting" /\ Verdict(Head(queue))
      <4>1. job[i].status = "accepted" /\ ~Fenced(job, lapsed, job[i].req.session)
        BY <3>2 DEF Verdict, Accepts
      <4>2. job[i].req.session = job[j].req.session
        BY <1>2, <2>3, <2>4, <4>1 DEF Onward, Exists
      <4>3. QED BY <1>1, <2>3, <4>1, <4>2 DEF Fenced
    <3>3. QED BY <2>4, <3>1, <3>2, StageSteps
  <2>5. QED BY <2>1, <2>3, <2>4
<1>4. CASE ~Over(j)
  <2>1. /\ health # "down" => stage[j] = "active"
        /\ job[j].owned /\ job[j].status \in {"running", "answer_ready"}
    BY <1>1, <1>4 DEF Owning, Works
  <2>2. job'[j].status = "interrupted" /\ ~(job'[j].cause = "server_shutdown" /\ ~job'[j].fence)
    <3>1. job'[j].status = "completed" => job'[j].response = "checkpoint"
      <4>1. job'[j].response \in {"whole", "checkpoint"} \/ job'[j].status # "completed"
        <5>1. Promised(j) /\ job[j] \in View /\ ~Fresh(job, j)
          BY <1>1, <2>1, NextAsPromised DEF Fresh, Exists
        <5>2. Moved(job[j], job'[j]) \/ job'[j].status = job[j].status
          BY <5>1 DEF Promised, View
        <5>3. QED BY <2>1, <5>1, <5>2 DEF Moved, Says, View
      <4>2. ~InHand(j)'
        BY DEF Unanswered, Early, Works
      <4>3. QED BY <4>1, <4>2 DEF InHand
    <3>2. job'[j].status \in Terminal
      BY DEF Over
    <3>3. QED BY <3>1, <3>2 DEF LeftUnfenced, Terminal
  <2>3. CASE Boot
    <3>1. PICK kept \in SUBSET {i \in Job : job[i].status = "accepted"} :
            /\ job' = [i \in Job |-> Classified(i, kept)]
            /\ stage' = [i \in Job |-> IF i \in kept THEN "waiting" ELSE "none"]
      BY <2>3 DEF Boot
    <3>2. \A i \in Job : stage'[i] \notin {"started", "active"}
      BY <3>1
    <3>3. job[j].status \in Live /\ j \notin kept /\ job'[j] = Classified(j, kept)
      BY <2>1, <3>1 DEF Live
    <3>4. Classified(j, kept).status = "interrupted" => Classified(j, kept).fence = job[j].owned
      BY <1>1, <2>1, <3>3, Classification
    <3>5. QED BY <2>1, <2>2, <3>2, <3>3, <3>4
  <2>4. CASE health = "ready" /\ queue # <<>> /\ job' \in Cut(Head(queue))
    <3>1. job'[j].status # job[j].status /\ job'[j].status # "accepted"
      BY <2>1, <2>2
    <3>2. /\ Fits(Head(queue)) /\ Head(queue).job = j /\ Head(queue).kind = "interrupted"
          /\ job'[j].cause = Head(queue).cause
      BY <2>2, <2>4, <3>1, HeadEffect
    <3>3. job'[j].cause = "server_shutdown"
      BY <3>2 DEF Fits, TailKind
    <3>4. AheadOfAll(j)
      BY <2>1, <2>4 DEF IInv, Line, AtHead
    <3>5. ASSUME NEW i \in Job, i # j, job'[i].req.session = job'[j].req.session,
                 stage'[i] \in {"started", "active"}
          PROVE  FALSE
      <4>1. stage[i] \in {"started", "active"}
        BY <3>2, <3>5, StageSteps
      <4>2. Exists(job, i) /\ Exists(job, j) /\ AheadOfAll(i)
        BY <2>1, <4>1 DEF IInv, Line, InItsLine, AtHead, Exists
      <4>3. SessionOf(i) = SessionOf(j)
        BY <1>2, <3>5, <4>2 DEF Onward, SessionOf
      <4>4. QED BY <3>4, <3>5, <4>2, <4>3, OneAhead
    <3>6. job'[j].fence
      <4>1. job'[j].fence \in BOOLEAN
        BY <1>2 DEF Onward, View
      <4>2. QED BY <2>2, <3>3, <4>1
    <3>7. QED BY <3>5, <3>6
  <2>5. QED BY <2>2, <2>3, <2>4, <2>1, JobSteps
<1>5. QED BY <1>3, <1>4

\* A job that works and is not left unfenced is under way in this process, or fenced.
LEMMA OnePrompt ==
  ASSUME IInv, Owning, Outliving, health = "ready",
         NEW i \in Job, NEW j \in Job, SameSession(i, j), Works(i), ~LeftUnfenced(i), stage[j] = "active"
  PROVE  FALSE
<1>1. CASE Over(i)
  BY <1>1 DEF Outliving, SameSession
<1>2. CASE ~Over(i)
  <2>1. stage[i] = "active"
    BY <1>2 DEF Owning
  <2>2. AheadOfAll(i) /\ AheadOfAll(j)
    BY <2>1 DEF IInv, Line, AtHead
  <2>3. QED BY <2>2, OneAhead DEF SameSession
<1>3. QED BY <1>1, <1>2

\* The lock and the fence keep two runs of a session apart over every step.
LEMMA NextOneRun ==
  ASSUME IInv, Checkpointed, Truthful, Fencing, Owning, Outliving, OneRunPerSession, [Next]_vars
  PROVE  OneRunPerSession'
<1> SUFFICES ASSUME NEW i \in Job, NEW j \in Job, i # j, Exists(job', i), Exists(job', j),
                    job'[i].req.session = job'[j].req.session,
                    child'[i] = "prompted", child'[j] = "prompted",
                    ~LeftUnfenced(i)', ~LeftUnfenced(j)'
             PROVE  FALSE
  BY DEF OneRunPerSession, SameSession, SessionOf, Works
<1>1. Onward
  BY OverStays
<1>2. \A k \in {i, j} : ~LeftUnfenced(k)
  <2>1. ASSUME NEW k \in {i, j} PROVE ~LeftUnfenced(k)
    <3>1. k \in Job /\ k \notin lapsed /\ ~LeftUnfenced(k)'
      BY LapseSteps DEF LeftUnfenced
    <3>2. Over(k) => job'[k] = job[k]
      BY OverStays
    <3>3. QED BY <3>1, <3>2 DEF LeftUnfenced, Over, Terminal
  <2>2. QED BY <2>1
<1>3. \A k \in {i, j} : Exists(job, k)
  <2>1. ASSUME NEW k \in {i, j} PROVE Exists(job, k)
    <3>1. CASE child[k] = "prompted"
      BY <3>1 DEF Owning, Works, Over, Terminal, Exists
    <3>2. CASE child[k] # "prompted"
      <4>1. stage[k] = "active"
        BY <3>2, ChildSteps
      <4>2. QED BY <4>1 DEF IInv, Line, InItsLine
    <3>3. QED BY <3>1, <3>2
  <2>2. QED BY <2>1
<1>4. SameSession(i, j) /\ SameSession(j, i)
  BY <1>1, <1>3 DEF SameSession, SessionOf, Onward
<1>5. CASE child[i] = "prompted" /\ child[j] = "prompted"
  BY <1>2, <1>4, <1>5 DEF OneRunPerSession, Works
<1>6. ASSUME NEW k \in {i, j}, NEW l \in {i, j}, k # l, child[k] # "prompted" PROVE FALSE
  <2>1. /\ health = "ready" /\ stage[k] = "active"
        /\ \A m \in Job \ {k} : child'[m] = child[m]
    BY <1>6, ChildSteps
  <2>2. Works(l) /\ SameSession(l, k)
    BY <1>4, <1>6, <2>1 DEF Works
  <2>3. QED BY <1>2, <2>1, <2>2, OnePrompt
<1>7. QED BY <1>5, <1>6

\* No two runs ever work on one session unless one of them ended in a way that leaves
\* its session unfenced: canceled or failed with nobody left to stop its child,
\* completed from a checkpoint, cut off by a shutdown that did not yet see its
\* ownership, or with its fence over by the clock.
THEOREM OneAtATime == Spec => []OneRunPerSession
<1>1. Init => IInv /\ CInv
  <2>1. ASSUME Init PROVE CInv
    <3>1. Checkpointed /\ Truthful /\ Fencing /\ Owning /\ Outliving /\ OneRunPerSession
      BY <2>1 DEF Init, Checkpointed, Truthful, Ops, Fencing, Owning, Outliving, OneRunPerSession, Works,
                  AbsentJob
    <3>2. Unanswered
      BY <2>1 DEF Init, Unanswered, Early, InHand, AnswerOn, Ops, Works, AbsentJob
    <3>3. QED BY <3>1, <3>2 DEF CInv
  <2>2. QED BY <2>1, InitIInv
<1>2. (IInv /\ CInv) /\ [Next]_vars => (IInv /\ CInv)'
  BY NextIInv, NextCheckpointed, NextTruthful, NextFencing, NextOwning, NextUnanswered, NextOutliving,
     NextOneRun DEF CInv
<1>3. IInv /\ CInv => OneRunPerSession
  BY DEF CInv
<1>4. QED BY <1>1, <1>2, <1>3, PTL DEF Spec
=============================================================================
