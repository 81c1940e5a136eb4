--------------------------- MODULE ThreadTurnQueue ---------------------------
(***************************************************************************)
(* The turns parked for one Claude thread, and what delivers them:         *)
(*   - the queue rows and their routes (park, resend, delete) and the      *)
(*     drain that delivers a row, with its restart reconcile               *)
(*     (routes/thread-turn-queue.ts, lib/thread-turn-queue.ts);            *)
(*   - the loopback delivery, which attaches, posts the turn and may time  *)
(*     out while the turn goes on (lib/thread-turn-queue-deliver.ts);      *)
(*   - the turn route: replay, receipts, claim, pin with an attempt        *)
(*     record, the live hop, the spawned child, and the close              *)
(*     (routes/agent-session-bindings.ts);                                 *)
(*   - the lease of the thread, its pin, the turn ledger and the attempt   *)
(*     journal (lib/agent-session-binding-registry.ts).                    *)
(* The phone may send the same keys straight to the turn route, the person *)
(* may cancel, and the process may die between any two steps.              *)
(*                                                                         *)
(* Switches are at their defaults: reconcile, resend and the pin reap on,  *)
(* steer off.  A tick is six hours: the queue's ordinary time to live is   *)
(* one tick (age >= 1), the one under a fence is FenceTTL ticks.           *)
(***************************************************************************)
EXTENDS Integers

CONSTANTS
  Key,          \* client turn ids
  NoKey,        \* no client turn id
  Legacy,       \* keys an older build, which kept no attempts, may have left
  MaxAttempts,  \* failed deliveries before a row is given up
  FenceTTL,     \* ticks a row held by a fence may live
  MaxBoots,     \* bound: the processes there are
  DirectSends   \* TRUE: the phone also sends these keys itself

ASSUME KeyAssumption == NoKey \notin Key /\ Legacy \subseteq Key
ASSUME BoundsAssumption ==
  /\ MaxAttempts \in Nat \ {0}
  /\ FenceTTL \in Nat \ {0}
  /\ MaxBoots \in Nat \ {0}
  /\ DirectSends \in BOOLEAN

VARIABLES
  boot,     \* the running process
  rows,     \* the queue file: key -> row
  attempt,  \* the attempt journal: key -> the last hand-off begun for it
  ledger,   \* the turn ledger: key -> the recorded end of the turn
  lease,    \* the binding that holds the thread
  fence,    \* the thread is fenced, until a person releases it
  route,    \* the turn the claim admits, in flight
  drain,    \* the drain and its loopback delivery
  sent,     \* history: hops that put, or may have put, the words in the session
  inherited \* history: keys of the rows an older build left in delivery

vars == <<boot, rows, attempt, ledger, lease, fence, route, drain, sent, inherited>>

Boots == 1 .. MaxBoots

Live == {"waiting", "delivering"}
Settled == {"delivered", "cancelled", "expired", "refused"}

Row == [status: {"none"} \cup Live \cup Settled, attempts: 0 .. MaxAttempts,
        boot: 0 .. MaxBoots, unknown: BOOLEAN, resentAs: Key \cup {NoKey},
        age: 0 .. FenceTTL]
Attempt == [exit: {"none", "pending", "sent", "not_sent", "unknown"},
            boot: 0 .. MaxBoots]
Lease == [by: {"none", "queue", "phone"}, fresh: BOOLEAN, pin: Key \cup {NoKey}]
Answers == {"ok", "cancelled", "replayed_unknown", "retryable", "failed"}
Route == [key: Key \cup {NoKey}, by: {"none", "queue", "phone"},
          stage: {"none", "head", "live", "spawn", "closing"},
          cancelled: BOOLEAN,
          exit: {"none", "sent", "not_sent", "unknown"},
          answer: {"none"} \cup Answers]
Drain == [at: {"idle", "attaching", "posting", "waiting", "answered"},
          key: Key \cup {NoKey}, answer: {"none"} \cup Answers]

NoRow == [status |-> "none", attempts |-> 0, boot |-> 0, unknown |-> FALSE,
          resentAs |-> NoKey, age |-> 0]
Parked == [NoRow EXCEPT !.status = "waiting"]
NoAttempt == [exit |-> "none", boot |-> 0]
NoLease == [by |-> "none", fresh |-> FALSE, pin |-> NoKey]
NoRoute == [key |-> NoKey, by |-> "none", stage |-> "none",
            cancelled |-> FALSE, exit |-> "none", answer |-> "none"]
Idle == [at |-> "idle", key |-> NoKey, answer |-> "none"]

\* A row an older process was delivering: it carries no boot, and nothing says
\* whether its words left.
Stranger == [Parked EXCEPT !.status = "delivering", !.attempts = 1]

Init ==
  /\ boot = 1
  /\ rows \in {r \in [Key -> {NoRow, Stranger}] :
                 \A k \in Key : r[k] = Stranger => k \in Legacy}
  /\ attempt = [k \in Key |-> NoAttempt]
  /\ ledger = [k \in Key |-> "none"]
  /\ lease = NoLease
  /\ fence = FALSE
  /\ route = NoRoute
  /\ drain = Idle
  /\ inherited = {k \in Key : rows[k] = Stranger}
  /\ sent \in {s \in [Key -> {0, 1}] : \A k \in Key : s[k] = 1 => k \in inherited}

-----------------------------------------------------------------------------
(***************************************************************************)
(* The gate: what occupancy answers for the thread.                        *)
(***************************************************************************)

\* A pinned binding always refuses an attach, an idle one for 90 seconds.
\* This: holderBlocksAttach.
Blocked == lease.pin # NoKey \/ lease.fresh

\* Someone may be working in the thread at any time; then the lease is asked,
\* then the fence.
GateReasons ==
  {"working", IF Blocked THEN "busy" ELSE IF fence THEN "fenced" ELSE "free"}

\* A row outlives the ordinary clock only while the gate names the fence.
Overdue(k, reason) ==
  rows[k].age >= (IF reason = "fenced" THEN FenceTTL ELSE 1)

-----------------------------------------------------------------------------
(***************************************************************************)
(* The routes of the queue.                                                *)
(***************************************************************************)

\* A settled row keeps its outcome; its clocks and counts are read no more.
Ended(status, unknown) == [NoRow EXCEPT !.status = status, !.unknown = unknown]

\* POST a turn for a thread that is not free: a key the queue holds is refused.
Park(k) ==
  /\ rows[k].status = "none"
  /\ rows' = [rows EXCEPT ![k] = Parked]
  /\ UNCHANGED <<boot, attempt, ledger, lease, fence, route, drain, sent, inherited>>

\* The client mints a new key for "send again".
Unused(k) ==
  rows[k].status = "none" /\ attempt[k] = NoAttempt /\ ledger[k] = "none"
  /\ sent[k] = 0 /\ route.key # k

\* Send again: once per row, and a row of unknown outcome only with the
\* person's acknowledgement, which the request carries.
Resend(k, c) ==
  /\ rows[k].status \in {"refused", "expired"}
  /\ rows[k].resentAs = NoKey
  /\ Unused(c)
  /\ rows' = [rows EXCEPT ![k].resentAs = c, ![c] = Parked]
  /\ UNCHANGED <<boot, attempt, ledger, lease, fence, route, drain, sent, inherited>>

\* Slip: any row not in delivery is taken back, a settled one too.
DeletableWhenSettled(k) == rows[k].status \notin {"none", "delivering"}

\* Only a waiting row can be taken back.
Deletable(k) == rows[k].status = "waiting"

Delete(k) ==
  /\ Deletable(k)
  /\ rows' = [rows EXCEPT ![k] = Ended("cancelled", FALSE)]
  /\ UNCHANGED <<boot, attempt, ledger, lease, fence, route, drain, sent, inherited>>

\* A settled row is dropped after half an hour, one of unknown outcome after six.
Prune(k) ==
  /\ rows[k].status \in Settled
  /\ rows' = [rows EXCEPT ![k] = NoRow]
  /\ UNCHANGED <<boot, attempt, ledger, lease, fence, route, drain, sent, inherited>>

-----------------------------------------------------------------------------
(***************************************************************************)
(* The drain: one pass at a time.  A pass first settles the rows a dead    *)
(* process was delivering, then judges the waiting ones.                   *)
(***************************************************************************)

\* Slip: only the rows that carry a boot are looked at.
StrandedStamped(k) ==
  rows[k].status = "delivering" /\ rows[k].boot \notin {0, boot}

\* A row another process, or an older build, was delivering.
Stranded(k) == rows[k].status = "delivering" /\ rows[k].boot # boot

\* Slip: an attempt whose exit nobody knows counts as one that sent nothing.
UnprovenIfUnknown(k) ==
  IF rows[k].boot # 0 /\ ledger[k] # "ambiguous"
     /\ attempt[k].exit \in {"none", "not_sent", "unknown"}
    THEN "not_delivered" ELSE "unknown"

\* What the attempt journal proves of a row, when neither ledger nor
\* transcript shows the words.  A row without a stamp proves nothing.
Unproven(k) ==
  IF rows[k].boot # 0 /\ ledger[k] # "ambiguous"
     /\ attempt[k].exit \in {"none", "not_sent"}
    THEN "not_delivered" ELSE "unknown"

\* The verdicts on a stranded row.  Words that reached the session may, or
\* may not yet, show in its transcript.
Verdicts(k) ==
  IF ledger[k] = "completed" \/ attempt[k].exit = "sent" THEN {"delivered"}
  ELSE {Unproven(k)} \cup (IF sent[k] > 0 THEN {"delivered"} ELSE {})

\* A row proved unsent waits again, its attempt spent.
Reconciled(row, verdict) ==
  IF verdict = "delivered" THEN Ended("delivered", FALSE)
  ELSE IF verdict = "not_delivered" THEN [row EXCEPT !.status = "waiting", !.boot = 0]
  ELSE Ended("refused", TRUE)

\* Claude's evidence is read without a pause, so no request comes between the
\* verdict and the row.
Reconcile(k) ==
  /\ drain.at = "idle"
  /\ Stranded(k)
  /\ \E verdict \in Verdicts(k) :
       rows' = [rows EXCEPT ![k] = Reconciled(rows[k], verdict)]
  /\ UNCHANGED <<boot, attempt, ledger, lease, fence, route, drain, sent, inherited>>

\* The pass is at a waiting row.
Judging(k) ==
  /\ drain.at = "idle"
  /\ rows[k].status = "waiting"
  /\ \A j \in Key : ~Stranded(j)

\* Out of time, or out of tries.
DrainRetires(k) ==
  /\ Judging(k)
  /\ \E reason \in GateReasons :
       \/ /\ Overdue(k, reason)
          /\ rows' = [rows EXCEPT ![k] = Ended("expired", FALSE)]
       \/ /\ ~Overdue(k, reason)
          /\ rows[k].attempts >= MaxAttempts
          /\ rows' = [rows EXCEPT ![k] = Ended("refused", FALSE)]
  /\ UNCHANGED <<boot, attempt, ledger, lease, fence, route, drain, sent, inherited>>

\* Six hours pass.  A sweep runs every few seconds and its calls have a deadline,
\* so by then no row is in delivery, and one that some reason of the gate makes
\* overdue has been retired.
Tick ==
  /\ drain.at = "idle"
  /\ \E k \in Key : rows[k].status \in Live
  /\ \A k \in Key : rows[k].status \in Live =>
       /\ rows[k].status = "waiting"
       /\ \E reason \in GateReasons : ~Overdue(k, reason)
  /\ rows' = [k \in Key |->
       IF rows[k].status \in Live
         THEN [rows[k] EXCEPT !.age = @ + 1] ELSE rows[k]]
  /\ UNCHANGED <<boot, attempt, ledger, lease, fence, route, drain, sent, inherited>>

\* Slip: the attempt is counted only once the delivery failed.
HandedOverUncounted(row) == [row EXCEPT !.status = "delivering", !.boot = boot]

\* The attempt and the boot that makes it are on disk before the call.
HandedOver(row) ==
  [row EXCEPT !.status = "delivering", !.attempts = @ + 1, !.boot = boot]

\* The thread is free and quiet.
DrainStarts(k) ==
  /\ Judging(k)
  /\ "free" \in GateReasons
  /\ ~Overdue(k, "free")
  /\ rows[k].attempts < MaxAttempts
  /\ rows' = [rows EXCEPT ![k] = HandedOver(rows[k])]
  /\ drain' = [at |-> "attaching", key |-> k, answer |-> "none"]
  /\ UNCHANGED <<boot, attempt, ledger, lease, fence, route, sent, inherited>>

Answered(answer) == [drain EXCEPT !.at = "answered", !.answer = answer]

\* The thread is leased anew; a lease left idle for 90 seconds gives way.
Granted(by) ==
  /\ ~Blocked /\ ~fence
  /\ lease' = [by |-> by, fresh |-> TRUE, pin |-> NoKey]

\* The attach is refused for a reason that passes, or for another one, or its
\* answer does not come in 15 seconds.
DrainAttachFails ==
  /\ drain.at = "attaching"
  /\ \/ \E answer \in {"retryable", "failed"} : drain' = Answered(answer) /\ UNCHANGED lease
     \/ drain' = Answered("failed") /\ Granted("queue")
  /\ UNCHANGED <<boot, rows, attempt, ledger, fence, route, sent, inherited>>

DrainAttaches ==
  /\ drain.at = "attaching"
  /\ Granted("queue")
  /\ drain' = [drain EXCEPT !.at = "posting"]
  /\ UNCHANGED <<boot, rows, attempt, ledger, fence, route, sent, inherited>>

\* The row after the delivery answered.
Outcome(row, answer) ==
  CASE answer = "ok" -> Ended("delivered", FALSE)
    [] answer = "cancelled" -> Ended("cancelled", FALSE)
    [] answer = "replayed_unknown" -> Ended("refused", TRUE)
    [] answer = "retryable" ->
         [row EXCEPT !.status = "waiting", !.boot = 0, !.attempts = @ - 1]
    [] OTHER ->
         IF row.attempts >= MaxAttempts THEN Ended("refused", FALSE)
         ELSE [row EXCEPT !.status = "waiting", !.boot = 0]

DrainSettles ==
  /\ drain.at = "answered"
  /\ rows' = [rows EXCEPT ![drain.key] = Outcome(rows[drain.key], drain.answer)]
  /\ drain' = Idle
  /\ UNCHANGED <<boot, attempt, ledger, lease, fence, route, sent, inherited>>

-----------------------------------------------------------------------------
(***************************************************************************)
(* The turn route.                                                         *)
(***************************************************************************)

\* A recorded end is answered again.
Replay(end) ==
  CASE end = "completed" -> "ok"
    [] end = "ambiguous" -> "replayed_unknown"
    [] end = "cancelled" -> "cancelled"
    [] OTHER -> "retryable"

\* Slip: an attempt a dead process left open is no receipt.
ReceiptsOfClosed(k) ==
  IF rows[k].status = "delivered" \/ attempt[k].exit = "sent" THEN {"ok"}
  ELSE IF rows[k].status = "refused" /\ rows[k].unknown THEN {"replayed_unknown"}
  ELSE IF attempt[k].exit = "unknown" THEN {"replayed_unknown"}
  ELSE {}

\* What stands in for a lost ledger record: a settled row, or an attempt that
\* went out, or that may have, as one a dead process left open.
Receipts(k) ==
  IF rows[k].status = "delivered" \/ attempt[k].exit = "sent" THEN {"ok"}
  ELSE IF rows[k].status = "refused" /\ rows[k].unknown THEN {"replayed_unknown"}
  ELSE IF \/ attempt[k].exit = "unknown"
          \/ attempt[k].exit = "pending" /\ attempt[k].boot # boot
    THEN {"replayed_unknown"} \cup (IF sent[k] > 0 THEN {"ok"} ELSE {})
  ELSE {}

\* Everything up to the claim, without a pause; "enter" takes the claim.
EntryAnswers(k, by) ==
  IF ledger[k] # "none" THEN {Replay(ledger[k])}
  ELSE IF Receipts(k) # {} THEN Receipts(k)
  ELSE IF lease.by # by THEN {"retryable"}
  ELSE IF fence THEN {"failed"}
  ELSE IF route # NoRoute THEN {"retryable"}
  ELSE {"enter", "retryable"}

Entered(k, by) == [NoRoute EXCEPT !.key = k, !.by = by, !.stage = "head"]

DrainPosts ==
  /\ drain.at = "posting"
  /\ \E answer \in EntryAnswers(drain.key, "queue") :
       IF answer = "enter"
         THEN /\ route' = Entered(drain.key, "queue")
              /\ drain' = [drain EXCEPT !.at = "waiting"]
         ELSE drain' = Answered(answer) /\ UNCHANGED route
  /\ UNCHANGED <<boot, rows, attempt, ledger, lease, fence, sent, inherited>>

PhoneAttaches ==
  /\ DirectSends
  /\ Granted("phone")
  /\ UNCHANGED <<boot, rows, attempt, ledger, fence, route, drain, sent, inherited>>

PhoneSends(k) ==
  /\ DirectSends
  /\ "enter" \in EntryAnswers(k, "phone")
  /\ route' = Entered(k, "phone")
  /\ UNCHANGED <<boot, rows, attempt, ledger, lease, fence, drain, sent, inherited>>

\* The drain hears the route's answer unless its 15 seconds are over.
Reply(answer) ==
  IF route.by = "queue" /\ drain.at = "waiting"
    THEN drain' = Answered(answer) ELSE UNCHANGED drain

DeliverTimesOut ==
  /\ drain.at = "waiting"
  /\ drain' = Answered("failed")
  /\ UNCHANGED <<boot, rows, attempt, ledger, lease, fence, route, sent, inherited>>

\* The head cannot be read, has changed, or the pin is refused.
HeadRefused ==
  /\ route.stage = "head"
  /\ Reply("retryable")
  /\ route' = NoRoute
  /\ UNCHANGED <<boot, rows, attempt, ledger, lease, fence, sent, inherited>>

Closing(exit, answer) ==
  [route EXCEPT !.stage = "closing", !.exit = exit, !.answer = answer]

Begun(k) == [exit |-> "pending", boot |-> boot]

\* The pin and the attempt record are one commit, before any hop.  A turn
\* cancelled by then goes no further.
Pin ==
  /\ route.stage = "head"
  /\ lease' = [lease EXCEPT !.pin = route.key, !.fresh = TRUE]
  /\ attempt' = [attempt EXCEPT ![route.key] = Begun(route.key)]
  /\ route' = IF route.cancelled THEN Closing("not_sent", "cancelled")
              ELSE [route EXCEPT !.stage = "live"]
  /\ UNCHANGED <<boot, rows, ledger, fence, drain, sent, inherited>>

Sends == sent' = [sent EXCEPT ![route.key] = @ + 1]
Records(end) == ledger' = [ledger EXCEPT ![route.key] = end]

\* The live hop put the words in the open session.
LiveDelivers ==
  /\ route.stage = "live"
  /\ Sends
  /\ Records("completed")
  /\ route' = Closing("sent", "ok")
  /\ UNCHANGED <<boot, rows, attempt, lease, fence, drain, inherited>>

\* A frame went out and nothing shows it arrived: no record in the ledger, and
\* the drain is told to wait, unless the person cancelled meanwhile.
UnverifiedAnswer == IF route.cancelled THEN "cancelled" ELSE "retryable"

LiveUnverified ==
  /\ route.stage = "live"
  /\ Sends
  /\ route' = Closing("unknown", UnverifiedAnswer)
  /\ UNCHANGED <<boot, rows, attempt, ledger, lease, fence, drain, inherited>>

\* Nothing reached a session: the turn is accepted with a 202 and a child is
\* spawned, unless the person cancelled meanwhile.
LiveMisses ==
  /\ route.stage = "live"
  /\ IF route.cancelled
       THEN route' = Closing("not_sent", "cancelled") /\ UNCHANGED drain
       ELSE route' = [route EXCEPT !.stage = "spawn"] /\ Reply("ok")
  /\ UNCHANGED <<boot, rows, attempt, ledger, lease, fence, sent, inherited>>

SpawnDelivers ==
  /\ route.stage = "spawn"
  /\ Sends
  /\ Records("completed")
  /\ route' = Closing("sent", "ok")
  /\ UNCHANGED <<boot, rows, attempt, lease, fence, drain, inherited>>

\* The child never opened the session.
SpawnNeverOpens ==
  /\ route.stage = "spawn"
  /\ Records("refused")
  /\ route' = Closing("not_sent", "retryable")
  /\ UNCHANGED <<boot, rows, attempt, lease, fence, drain, sent, inherited>>

\* Nobody can tell: the thread is fenced.
SpawnAmbiguous ==
  /\ route.stage = "spawn"
  /\ Sends
  /\ Records("ambiguous")
  /\ fence' = TRUE
  /\ route' = Closing("unknown", "failed")
  /\ UNCHANGED <<boot, rows, attempt, lease, drain, inherited>>

\* The child was stopped as the person asked, whatever it had done by then.
SpawnCancelled ==
  /\ route.stage = "spawn" /\ route.cancelled
  /\ Sends
  /\ Records("cancelled")
  /\ route' = Closing("unknown", "cancelled")
  /\ UNCHANGED <<boot, rows, attempt, lease, fence, drain, inherited>>

\* The exit of the attempt and the release of the pin are one commit.
Close ==
  /\ route.stage = "closing"
  /\ attempt' = [attempt EXCEPT ![route.key].exit = route.exit]
  /\ lease' = [lease EXCEPT !.pin = NoKey, !.fresh = TRUE]
  /\ route' = NoRoute
  /\ Reply(route.answer)
  /\ UNCHANGED <<boot, rows, ledger, fence, sent, inherited>>

\* The person stops the run; a live hop on its way is only marked.
Cancel ==
  /\ route.stage \in {"head", "live", "spawn"}
  /\ route' = [route EXCEPT !.cancelled = TRUE]
  /\ UNCHANGED <<boot, rows, attempt, ledger, lease, fence, drain, sent, inherited>>

-----------------------------------------------------------------------------
(***************************************************************************)
(* The lease's clock, the fence, and a restart.                            *)
(***************************************************************************)

\* Ninety idle seconds: far longer than a turn's way to its pin.
LeaseAges ==
  /\ lease.fresh /\ route = NoRoute
  /\ lease' = [lease EXCEPT !.fresh = FALSE]
  /\ UNCHANGED <<boot, rows, attempt, ledger, fence, route, drain, sent, inherited>>

\* A pin a dead process left is dropped after its window.  Its turn is
\* recorded as ambiguous, and an attempt left open as unknown.
OrphanPinReleased ==
  /\ lease.pin # NoKey /\ route = NoRoute
  /\ lease' = [lease EXCEPT !.pin = NoKey, !.fresh = FALSE]
  /\ ledger' = [ledger EXCEPT ![lease.pin] = IF @ = "none" THEN "ambiguous" ELSE @]
  /\ attempt' = [attempt EXCEPT ![lease.pin].exit =
                   IF @ = "pending" THEN "unknown" ELSE @]
  /\ UNCHANGED <<boot, rows, fence, route, drain, sent, inherited>>

FenceReleased ==
  /\ fence
  /\ fence' = FALSE
  /\ UNCHANGED <<boot, rows, attempt, ledger, lease, route, drain, sent, inherited>>

\* The process dies and another one starts.  A hop under way may have put the
\* words in; the fence survives only when it is kept on disk.
Crash ==
  /\ boot < MaxBoots
  /\ boot' = boot + 1
  /\ \/ UNCHANGED sent
     \/ route.stage \in {"live", "spawn"} /\ Sends
  /\ fence' \in {fence, FALSE}
  /\ route' = NoRoute
  /\ drain' = Idle
  /\ UNCHANGED <<rows, attempt, ledger, lease, inherited>>

-----------------------------------------------------------------------------
Next ==
  \/ \E k \in Key : \/ Park(k) \/ Delete(k) \/ Prune(k)
                    \/ Reconcile(k) \/ DrainRetires(k) \/ DrainStarts(k)
                    \/ PhoneSends(k)
                    \/ \E c \in Key : Resend(k, c)
  \/ Tick \/ DrainAttachFails \/ DrainAttaches \/ DrainPosts \/ DrainSettles
  \/ PhoneAttaches \/ DeliverTimesOut \/ HeadRefused \/ Pin
  \/ LiveDelivers \/ LiveUnverified \/ LiveMisses
  \/ SpawnDelivers \/ SpawnNeverOpens \/ SpawnAmbiguous \/ SpawnCancelled
  \/ Close \/ Cancel \/ LeaseAges \/ OrphanPinReleased \/ FenceReleased \/ Crash

\* A row that is retired whatever the gate answers.
SureToRetire(k) ==
  /\ \A reason \in GateReasons : Overdue(k, reason) \/ rows[k].attempts >= MaxAttempts
  /\ DrainRetires(k)

\* A sweep runs every few seconds and judges every row in turn; the loopback
\* calls have a deadline; time passes.  Nothing is asked of the phone, the
\* session, the child or the person, nor of what the gate sees.
Fairness ==
  /\ \A k \in Key : SF_vars(SureToRetire(k)) /\ SF_vars(Reconcile(k))
  /\ WF_vars(DrainAttachFails \/ DrainAttaches)
  /\ WF_vars(DrainPosts)
  /\ WF_vars(DeliverTimesOut)
  /\ WF_vars(DrainSettles)
  /\ SF_vars(Tick)

Spec == Init /\ [][Next]_vars /\ Fairness

-----------------------------------------------------------------------------
(***************************************************************************)
(* Properties.                                                             *)
(***************************************************************************)

\* Every variable has its type: no count of attempts falls below zero or passes
\* the ceiling, and no live row outlives the longer clock.
TypeOK ==
  /\ boot \in Boots
  /\ rows \in [Key -> Row]
  /\ attempt \in [Key -> Attempt]
  /\ ledger \in [Key -> {"none", "completed", "ambiguous", "refused", "cancelled"}]
  /\ lease \in Lease
  /\ fence \in BOOLEAN
  /\ route \in Route
  /\ drain \in Drain
  /\ sent \in [Key -> Nat]
  /\ inherited \in SUBSET Key

\* A key's words are put in the session at most once, whatever times out, dies
\* or is sent again meanwhile by the drain or the phone: the replay, the
\* receipts, the claim and the attempt record, together.
WordsSentOnce == \A k \in Key \ inherited : sent[k] <= 1

\* After a restart, a row goes back to wait only if its words did not leave and
\* are not leaving now; one an older build left never does.
RequeuedWasUnsent ==
  [][\A k \in Key :
       Stranded(k) /\ rows'[k].status = "waiting"
         => /\ rows[k].boot # 0
            /\ k \notin inherited => sent[k] = 0
            /\ ~(route.key = k /\ route.stage \in {"live", "spawn"})]_vars

\* A settled row keeps its outcome until it is dropped, and becomes at most one
\* copy: no late answer of the delivery rewrites what the person was told.
SettledStays ==
  [][\A k \in Key :
       rows[k].status \in Settled /\ rows'[k].status # "none"
         => /\ rows'[k].status = rows[k].status
            /\ rows'[k].unknown = rows[k].unknown
            /\ rows'[k].resentAs # rows[k].resentAs => rows[k].resentAs = NoKey]_vars

\* Every parked turn is settled in the end, and none stays in delivery for good.
EveryTurnSettles ==
  \A k \in Key : rows[k].status \in Live ~> rows[k].status \notin Live

\* lib/thread-turn-queue.ts:176-178, "Not sent: the thread stayed busy too long.",
\* "Cancelled before it was sent.": a row that ends without having been delivered,
\* and without the mark that this is unknown, left nothing in the session.
NotSentIsTrue ==
  \A k \in Key \ inherited :
    rows[k].status \in {"cancelled", "expired", "refused"} /\ ~rows[k].unknown
      => sent[k] = 0
=============================================================================
