--------------------------- MODULE QueryJobReducer ---------------------------
(***************************************************************************)
(* The record reducer of the durable query-job journal                     *)
(* (server/lib/query-job-store.ts): the statuses of a job, the transitions *)
(* the journal accepts, and what one journal row does to a job.  The       *)
(* server folds the same reducer over the rows at boot and over each new   *)
(* row as it is written, so "what the journal says" is the state reached   *)
(* by applying, in order, every row that is on the disk.                   *)
(***************************************************************************)

CONSTANTS Request,      \* the prompts a phone may submit (records, see QueryJobStore)
          NoRequest     \* the request of a job that does not exist

\* The eight statuses of a job, and "absent" for a job no row has created.
Live == {"accepted", "starting", "running", "answer_ready"}
Terminal == {"completed", "failed", "canceled", "interrupted"}
Status == {"absent"} \cup Live \cup Terminal

\* ALLOWED_TRANSITIONS.
Allowed == [
  absent       |-> {},
  accepted     |-> {"starting", "failed", "canceled", "interrupted"},
  starting     |-> {"running", "answer_ready"} \cup Terminal,
  running      |-> {"answer_ready"} \cup Terminal,
  answer_ready |-> {"completed"},
  completed    |-> {}, failed |-> {}, canceled |-> {}, interrupted |-> {}]

\* Whether a job in status s may later be in status t (the closure of Allowed).
CanBecome(s, t) ==
  \/ t = s
  \/ s = "absent"
  \/ s = "accepted" /\ t \in Status \ {"absent"}
  \/ s \in {"starting", "running"} /\ t \in Terminal \cup {"answer_ready"}
  \/ s = "starting" /\ t = "running"
  \/ s = "answer_ready" /\ t = "completed"

\* The text of a completed job: the whole answer, or the earlier checkpoint of
\* a steered run.
Response == {"none", "checkpoint", "whole"}

\* Why an interrupted job was interrupted.
Cause == {"none", "server_restarted", "server_shutdown", "crash_loop_parked"}

\* What the server holds of one job.
View == [status     : Status,
         req        : Request \cup {NoRequest},
         owned      : BOOLEAN,   \* providerOwnershipConfirmedAt is set
         checkpoint : BOOLEAN,   \* a steer checkpoint row was applied
         response   : Response,
         fence      : BOOLEAN,   \* orphanFenceUntil is set
         cause      : Cause,
         acked      : BOOLEAN]

AbsentJob == [status |-> "absent", req |-> NoRequest, owned |-> FALSE,
              checkpoint |-> FALSE, response |-> "none", fence |-> FALSE,
              cause |-> "none", acked |-> FALSE]

NewJob(r) == [AbsentJob EXCEPT !.status = "accepted", !.req = r]

\* The rows that move a job to another status.
Moves == {"starting", "running", "answer_ready"} \cup Terminal

(***************************************************************************)
(* One row applied to one job.  A row the reducer does not accept leaves   *)
(* the job as it is: a second creation, anything but an acknowledgement or *)
(* a steer row on a finished job, a transition outside Allowed.            *)
(***************************************************************************)
Apply(v, row) ==
  CASE row.kind = "accepted" ->
         IF v.status = "absent" THEN NewJob(row.req) ELSE v
    [] row.kind = "checkpoint" /\ v.status # "absent" ->
         [v EXCEPT !.checkpoint = TRUE]
    [] row.kind = "acknowledged" /\ v.status # "absent" ->
         [v EXCEPT !.acked = TRUE]
    [] row.kind = "linkage" /\ v.status \in Live ->
         [v EXCEPT !.owned = TRUE]
    [] row.kind \in Moves /\ row.kind \in Allowed[v.status] ->
         [v EXCEPT !.status = row.kind, !.response = row.response,
                   !.fence = row.fence, !.cause = row.cause]
    [] OTHER -> v
=============================================================================
