---------------------------- MODULE QueryJobPromise ----------------------------
(***************************************************************************)
(* What the durable query-job store promises its callers, without a        *)
(* journal, a writer, a failed append, a crash or a boot: a prompt is one  *)
(* job that moves forward only, prompts of one client job are taken one at *)
(* a time, a durable answer is the answer, and whoever looks sees the job  *)
(* at a state it has durably reached.                                      *)
(***************************************************************************)
EXTENDS QueryJobWrites

VARIABLES job,    \* per job, the job
          seen    \* per job, the last status a caller saw

promiseVars == <<job, seen>>

PromiseInit ==
  /\ job = [j \in Job |-> AbsentJob]
  /\ seen = [j \in Job |-> "absent"]

\* A prompt becomes a job once every earlier generation of it is finished.
Accept(j, r) ==
  /\ Fresh(job, j)
  /\ \A i \in Job : SameClient(job, i, r) => /\ job[i].status \in Terminal
                                             /\ job[i].req.gen < r.gen
  /\ job' = [job EXCEPT ![j] = NewJob(r)]
  /\ UNCHANGED seen

\* What a job v may say once it is in status t: a completed job its whole answer,
\* or the checkpoint it has; an interrupted one why, and whether it is fenced.
Says(v, t, text, fenced, why) ==
  /\ IF t = "completed"
     THEN \/ text = "whole"
          \/ text = "checkpoint" /\ v.checkpoint
     ELSE text = "none"
  /\ t # "interrupted" => fenced = FALSE /\ why = "none"

\* The job takes one allowed step.
Move(j) ==
  /\ \E t \in Allowed[job[j].status], text \in Response, fenced \in BOOLEAN, why \in Cause :
       /\ Says(job[j], t, text, fenced, why)
       /\ job' = [job EXCEPT ![j] = [@ EXCEPT !.status = t, !.response = text,
                                            !.fence = fenced, !.cause = why]]
  /\ UNCHANGED seen

\* Provider ownership is noted on an unfinished job, a checkpoint on a running
\* one, the phone's receipt on a finished one.
Note(j) ==
  /\ \/ job[j].status \in Live /\ job' = [job EXCEPT ![j].owned = TRUE]
     \/ job[j].status = "running" /\ job' = [job EXCEPT ![j].checkpoint = TRUE]
     \/ job[j].status \in Terminal /\ job' = [job EXCEPT ![j].acked = TRUE]
  /\ UNCHANGED seen

\* Some jobs are looked at: after a boot, all of them.
See(S) ==
  /\ seen' = [j \in Job |-> IF j \in S THEN job[j].status ELSE seen[j]]
  /\ UNCHANGED job

PromiseNext ==
  \/ \E j \in Job : (\E r \in Request : Accept(j, r)) \/ Move(j) \/ Note(j)
  \/ \E S \in SUBSET Job : See(S)

PromiseSpec == PromiseInit /\ [][PromiseNext]_promiseVars
=============================================================================
