-------------------------- MODULE PermissionBroker --------------------------
(***************************************************************************)
(* The permission broker (server/lib/permission-broker.ts and              *)
(* server/routes/permission-broker.ts).                                    *)
(*                                                                         *)
(* Claude Code runs a hook before it shows a permission dialog or a        *)
(* question, and waits for it.  The broker may hold the hook's request     *)
(* open, so that the glasses or the phone can answer it, and must give the *)
(* request back to the Mac's own dialog (a reply of nothing) whenever that *)
(* is no longer right.  One session, whose approvals are calls of one      *)
(* tool; no two requests are the same call.                                *)
(***************************************************************************)
EXTENDS Integers, FiniteSets, Sequences

CONSTANTS Request,     \* the permission requests of the session
          Mixes,       \* what the requests may be, together: [kind, held, wait] each
          Client,      \* ids clients give their answers (clientAnswerId)
          Choice,      \* what a client may choose
          LegacyWait,  \* how long a hook without a stamp waits
          LongWait,    \* how long a stamped hook waits
          Margin,      \* the broker answers this much before the hook gives up
          Base,        \* how long a request is held for a client that is there
          Away,        \* how long it is held while the user is away, 0 for off
          Late,        \* how late a timer may run
          Keep,        \* how long a settled item is kept,
          MacKeep,     \* while the Mac waits on it,
          MacKeepMax,  \* and while the session's row waits on it too
          MaxPending,  \* items held at once
          MaxSettled,  \* settled items kept
          MaxTime,     \* bound: time
          MaxEvents,   \* bound: hook events on their way
          MaxRestarts  \* bound: restarts of the server

ASSUME TimeAssumption ==
  /\ LegacyWait \in Nat /\ LongWait \in Nat /\ LegacyWait <= LongWait
  /\ Margin \in Nat /\ Late \in Nat /\ Late < Margin /\ Margin < LegacyWait
  /\ Base \in Nat \ {0} /\ Base <= LegacyWait - Margin /\ Away \in Nat
  /\ Keep \in Nat /\ MacKeep \in Nat /\ MacKeepMax \in Nat /\ MacKeep <= MacKeepMax

ASSUME BoundAssumption ==
  /\ MaxTime \in Nat \ {0} /\ MaxEvents \in Nat /\ MaxRestarts \in Nat
  /\ MaxPending \in Nat /\ MaxSettled \in Nat

Shape == [kind : {"question", "approval"}, held : BOOLEAN, wait : {LegacyWait, LongWait}]

ASSUME ShapeAssumption ==
  Mixes \subseteq [Request -> Shape]

ASSUME NameAssumption == /\ "nothing" \notin Choice /\ "none" \notin Choice
                         /\ "back" \notin Choice /\ "cancel" \notin Choice

VARIABLES shape,    \* per request, what it is
          item,     \* per request, where the broker is with it
          sock,     \* per request, the hook still listens
          reply,    \* per request, what was written to the hook
          mac,      \* per request, the session: "idle", "waiting" for a decision, "over"
          poll,     \* a poll awaits its read of the desk
          streak,   \* failed desk reads in a row, up to one
          horizon,  \* waitingForgottenBefore
          events,   \* hook events in the spool
          now, restarts,
          told,     \* history: per request, what clients were told in a 200 by this process
          handed    \* history: when the broker gave it to the Mac, which still waits

sessionVars == <<shape, mac, events>>
worldVars == <<now, restarts>>
histVars == <<told, handed>>
vars == <<shape, item, sock, reply, mac, poll, streak, horizon, events, now, restarts,
          told, handed>>

Time == 0 .. MaxTime
Never == -1
NoClient == "none"

ASSUME ClientAssumption == NoClient \notin Client

MacDialog == {"handed_to_desk", "expired", "no_client", "drained"}
Unanswered == MacDialog \cup {"hook_gone", "retracted"}
Settlement == Unanswered \cup {"answered"}

NoItem == [state |-> "none", start |-> 0, deadline |-> 0, away |-> FALSE, visible |-> FALSE,
           at |-> 0, macWait |-> FALSE, by |-> NoClient, back |-> NoClient, missed |-> 0]

\* (missed is history: the failed desk reads in a row that left it held.)

\* What is left of an item that is not kept.
Closed(state) == [NoItem EXCEPT !.state = state]

Item == [state : {"none", "reading", "pending", "gone"} \cup Settlement,
         start : Time, deadline : Int, away : BOOLEAN, visible : BOOLEAN,
         at : Time, macWait : BOOLEAN, by : Client \cup {NoClient}, back : Client \cup {NoClient},
         missed : 0 .. 2]

\* An event is about the calls of some requests (none for the end of a turn), and
\* is older than the requests it is not up to.
Event == [what : {"ran", "denied", "turn"}, about : SUBSET Request, upto : SUBSET Request]

Init ==
  /\ shape \in Mixes
  /\ item = [r \in Request |-> NoItem]
  /\ sock = [r \in Request |-> FALSE]
  /\ reply = [r \in Request |-> "none"]
  /\ mac = [r \in Request |-> "idle"]
  /\ poll = FALSE /\ streak = 0 /\ horizon = 0
  /\ events = <<>> /\ now = 1 /\ restarts = 0
  /\ told = [r \in Request |-> {}] /\ handed = [r \in Request |-> Never]

Least(a, b) == IF a <= b THEN a ELSE b
Most(a, b) == IF a >= b THEN a ELSE b

-----------------------------------------------------------------------------
(* How long a request may be held *)

BaseMax == LegacyWait - Margin

\* The hook's own wait less the margin; the settings file may not be readable
\* (0), and an older hook stamps nothing.
Ceiling(installed, wait) ==
  IF installed = 0 THEN IF wait = LegacyWait THEN BaseMax ELSE Most(0, wait - Margin)
                   ELSE Most(0, Least(installed, wait) - Margin)

HoldFor(installed, wait, away) ==
  Least(IF away THEN Most(Base, Away) ELSE Base, Ceiling(installed, wait))

Held(r) == shape[r].held

\* What the polls of late say of the clients, at any moment: "legacy" polls or
\* polls that can "hold" within the live window, the wearer "recent".
Polls == SUBSET {"legacy", "hold", "recent"}

Live(polls) == "legacy" \in polls \/ {"hold", "recent"} \subseteq polls

MayHoldAway(r, polls, installed) ==
  /\ Away > 0
  /\ Ceiling(installed, shape[r].wait) > BaseMax
  /\ Held(r) \/ "recent" \in polls

Answerer(r, polls, away) ==
  /\ Held(r) => polls # {}
  /\ Live(polls) \/ (Held(r) /\ "hold" \in polls) \/ away

\* The holds r may get: what the settings file says of the hook, and what the
\* polls say of the clients, is read as it arrives.
Holds(r) ==
  {[away |-> MayHoldAway(r, read[1], read[2]),
    length |-> HoldFor(read[2], shape[r].wait, MayHoldAway(r, read[1], read[2]))] :
     read \in {p \in Polls \X {0, LegacyWait, LongWait} :
                 Answerer(r, p[1], MayHoldAway(r, p[1], p[2]))}}

-----------------------------------------------------------------------------
(* What is kept of items *)

InState(i, S) == {r \in Request : i[r].state \in S}
Pending(i) == InState(i, {"pending"})

\* The retention of r is over, surely or if the session's row no longer waits.
Stale(i, r, late) ==
  now - i[r].at > (IF ~i[r].macWait THEN Keep ELSE IF late THEN MacKeepMax ELSE MacKeep)

\* Over the cap, the oldest that no longer wait go.
OverCap(i, settled) ==
  IF Cardinality(settled) <= MaxSettled THEN {{}}
  ELSE {S \in SUBSET settled :
          /\ Cardinality(S) = Cardinality(settled) - MaxSettled
          /\ \A f \in S, k \in settled \ S :
               \/ ~i[f].macWait /\ i[k].macWait
               \/ i[f].macWait = i[k].macWait /\ i[f].at <= i[k].at}

\* What a prune may forget of the settled items: the stale ones, then those over
\* the cap.
Prunable(i, settled) ==
  LET sure == {r \in settled : Stale(i, r, TRUE)}
      maybe == {r \in settled \ sure : Stale(i, r, FALSE)}
  IN UNION {LET old == sure \cup S IN {old \cup F : F \in OverCap(i, settled \ old)} :
              S \in SUBSET maybe}

Forget(i, F) ==
  [r \in Request |-> IF r \in F THEN Closed("gone") ELSE i[r]]

\* Slip: the horizon stays.
LostSilently(i, F) == {}

\* The times of items forgotten while the Mac waited on them.
Lost(i, F) == {i[r].at : r \in {f \in F : i[f].macWait}}

\* prune(), when the items are i.
Keeps(i) ==
  \E F \in Prunable(i, InState(i, Settlement)) :
    LET lost == {horizon} \cup Lost(i, F)
    IN /\ item' = Forget(i, F)
       /\ \E latest \in lost : (\A t \in lost : t <= latest) /\ horizon' = latest

\* The items become i, which is a prune too if the requests S were settled.
Becomes(i, S) == IF S = {} THEN item' = i /\ UNCHANGED horizon ELSE Keeps(i)

\* A settled item is kept for its codes.
Code(state) == [Closed(state) EXCEPT !.at = now]

\* Slip: what the hook left behind waits at the Mac too.
SettledUnwritten(S, how) ==
  [r \in Request |->
     IF r \in S THEN [Code(how) EXCEPT !.macWait = how \in MacDialog] ELSE item[r]]

\* settle() of every request of S: the hook gets nothing, unless it is gone.
Settled(S, how) ==
  [r \in Request |->
     IF r \in S THEN [Code(how) EXCEPT !.macWait = sock[r] /\ how \in MacDialog] ELSE item[r]]

\* What is written to the hooks of S that still listen; a reply ends the request.
Writes(S, what) ==
  /\ reply' = [r \in Request |-> IF r \in S /\ sock[r] THEN what ELSE reply[r]]
  /\ sock' = [r \in Request |-> sock[r] /\ r \notin S]

ShownAtMac(S, how) ==
  handed' = [r \in Request |-> IF r \in S /\ sock[r] /\ how \in MacDialog THEN now ELSE handed[r]]

\* stopPolling, when nothing is held any more.
Streak(i, s) == IF Pending(i) = {} THEN 0 ELSE s

Settle(S, how) ==
  /\ Becomes(Settled(S, how), S)
  /\ IF how = "hook_gone" THEN UNCHANGED <<sock, reply, handed>>
     ELSE Writes(S, "nothing") /\ ShownAtMac(S, how)
  /\ streak' = Streak(Settled(S, how), streak)

-----------------------------------------------------------------------------
(* The hook *)

\* The session asks, and the hook, started a while ago, posts its request.
Asks(r) ==
  /\ item[r].state = "none"
  /\ mac' = [mac EXCEPT ![r] = "waiting"]
  /\ UNCHANGED <<shape, poll, streak, horizon, worldVars, events, histVars>>

\* requestedAt: the hook's stamp of its start, or now for a stamp that is missing or
\* ahead of the clock.
Starts == {t \in {now - 1, now} : t >= 0}

\* A request outside the gates gets nothing, at once.  Those left to chance here
\* are the switches, a drain, the tool and the payload.
Refuse(r) ==
  /\ Asks(r)
  /\ item' = [item EXCEPT ![r] = Closed("gone")]
  /\ reply' = [reply EXCEPT ![r] = "nothing"]
  /\ UNCHANGED sock

\* Slip: the deadline counts from when the server read the request.
AdmitFromNow(r) ==
  /\ Asks(r)
  /\ Cardinality(Pending(item)) < MaxPending
  /\ \E hold \in Holds(r), start \in Starts :
       /\ hold.length > 0
       /\ item' = [item EXCEPT ![r].state = "reading", ![r].start = start,
                               ![r].away = hold.away, ![r].deadline = now + hold.length]
  /\ sock' = [sock EXCEPT ![r] = TRUE]
  /\ UNCHANGED reply

\* The gates up to the desk read; the deadline counts from requestedAt.
Admit(r) ==
  /\ Asks(r)
  /\ Cardinality(Pending(item)) < MaxPending
  /\ \E hold \in Holds(r), start \in Starts :
       /\ start + hold.length > now
       /\ item' = [item EXCEPT ![r].state = "reading", ![r].start = start,
                               ![r].away = hold.away, ![r].deadline = start + hold.length]
  /\ sock' = [sock EXCEPT ![r] = TRUE]
  /\ UNCHANGED reply

\* The desk is in use or cannot be read, or a gate closed during the read.
FastPath(r) ==
  /\ item[r].state = "reading"
  /\ item' = [item EXCEPT ![r] = Closed("gone")]
  /\ Writes({r}, "nothing")
  /\ UNCHANGED <<sessionVars, poll, streak, horizon, worldVars, histVars>>

\* What reading how long the desk has been idle may say, against the threshold.
Reads == {"active", "idle", "unreadable"}

\* After the desk read: the gates that may have moved, and park().  A hook that
\* left during the read is not held.
Park(r) ==
  /\ item[r].state = "reading"
  /\ Cardinality(Pending(item)) < MaxPending
  /\ \E read \in Reads :
       /\ Held(r) \/ read = "idle"
       /\ item' = [item EXCEPT ![r] =
            IF sock[r] THEN [@ EXCEPT !.state = "pending", !.visible = ~Held(r) \/ read = "idle"]
                       ELSE Closed("gone")]
  /\ UNCHANGED <<sessionVars, sock, reply, poll, streak, horizon, worldVars, histVars>>

\* The hook is stopped, or its own wait is over.
HookLeaves(r) ==
  /\ sock[r]
  /\ sock' = [sock EXCEPT ![r] = FALSE]
  /\ UNCHANGED <<sessionVars, item, reply, poll, streak, horizon, worldVars, histVars>>

HookClosed(r) ==
  /\ item[r].state = "pending" /\ ~sock[r]
  /\ Settle({r}, "hook_gone")
  /\ UNCHANGED <<sessionVars, poll, worldVars, told>>

Overdue(r) == item[r].state = "pending" /\ now >= item[r].deadline

Expire(r) ==
  /\ Overdue(r)
  /\ Settle({r}, "expired")
  /\ UNCHANGED <<sessionVars, poll, worldVars, told>>

-----------------------------------------------------------------------------
(* Clients *)

\* GET session-questions: the list settles what is overdue, and prunes.
Questions ==
  /\ LET late == {r \in Request : Overdue(r)}
     IN /\ Keeps(Settled(late, "expired"))
        /\ Writes(late, "nothing") /\ ShownAtMac(late, "expired")
        /\ streak' = Streak(Settled(late, "expired"), streak)
  /\ UNCHANGED <<sessionVars, poll, worldVars, told>>

Tells(r, got) == told' = [told EXCEPT ![r] = @ \cup {got}]

\* The item as an answer leaves it.
Recorded(r, c) ==
  [item EXCEPT ![r] = [Code("answered") EXCEPT !.by = c]]

\* Slip: the answer is accepted without asking whether the hook still listens.
AcceptBlindly(r, c, choice) ==
  /\ Keeps(Recorded(r, c))
  /\ Writes({r}, choice)
  /\ streak' = Streak(Recorded(r, c), streak)
  /\ Tells(r, choice)
  /\ UNCHANGED handed

Accept(r, c, choice) ==
  /\ sock[r]
  /\ Keeps(Recorded(r, c))
  /\ Writes({r}, choice)
  /\ streak' = Streak(Recorded(r, c), streak)
  /\ Tells(r, choice)
  /\ UNCHANGED handed

\* A click that comes too late, for the deadline or for the hook.
TooLate(r) ==
  /\ \/ Overdue(r) /\ Settle({r}, "expired")
     \/ ~Overdue(r) /\ ~sock[r] /\ Settle({r}, "hook_gone")
  /\ UNCHANGED told

AnswerPending(r, c, choice) ==
  /\ item[r].state = "pending"
  /\ TooLate(r) \/ (~Overdue(r) /\ Accept(r, c, choice))
  /\ UNCHANGED <<sessionVars, poll, worldVars>>

\* Leave for the Mac.
HandBack(r, c) ==
  /\ item[r].state = "pending"
  /\ LET backed == [Settled({r}, "handed_to_desk") EXCEPT ![r].back = c]
     IN \/ TooLate(r)
        \/ /\ ~Overdue(r) /\ sock[r]
           /\ Keeps(backed)
           /\ Writes({r}, "nothing") /\ ShownAtMac({r}, "handed_to_desk")
           /\ streak' = Streak(backed, streak)
           /\ Tells(r, "nothing")
  /\ UNCHANGED <<sessionVars, poll, worldVars>>

\* A retry of what already won.
Replay(r, c, back) ==
  /\ \/ ~back /\ item[r].state = "answered" /\ item[r].by = c /\ Tells(r, reply[r])
     \/ back /\ item[r].state = "handed_to_desk" /\ item[r].back = c /\ Tells(r, "nothing")
  /\ UNCHANGED <<sessionVars, item, sock, reply, poll, streak, horizon, worldVars, handed>>

\* A run canceled from a client: what is held for its session is denied.
CancelSession ==
  LET held == Pending(item)
      denied == {r \in held : sock[r]}
      after == [r \in Request |->
                  IF r \in denied THEN Code("answered")
                  ELSE Settled(held, "hook_gone")[r]]
  IN /\ held # {}
     /\ Keeps(after)
     /\ Writes(held, "cancel")
     /\ streak' = 0
     /\ UNCHANGED <<sessionVars, poll, worldVars, histVars>>

-----------------------------------------------------------------------------
(* The desk poll *)

\* tick() during a drain.
Drained ==
  /\ Pending(item) # {}
  /\ Settle(Pending(item), "drained")
  /\ UNCHANGED <<sessionVars, poll, worldVars, told>>

\* What a client going quiet hands back.
Quiet(r, polls) == ~Held(r) /\ (~item[r].away \/ "recent" \notin polls)

\* tick(), up to its desk read, while no drain is under way.
PollStarts ==
  LET held == Pending(item)
  IN /\ held # {}
     /\ \E quiet \in {{r \in held : ~Live(polls) /\ Quiet(r, polls)} : polls \in Polls} :
          LET watched == {r \in held \ quiet : ~Held(r) \/ ~item[r].visible}
          IN /\ Settle(quiet, "no_client")
             /\ poll' = (poll \/ watched # {})
     /\ UNCHANGED <<sessionVars, worldVars, told>>

HandsBack(s) ==
  LET back == {r \in Pending(item) : ~Held(r)}
  IN /\ Becomes(Settled(back, "handed_to_desk"), back)
     /\ Writes(back, "nothing") /\ ShownAtMac(back, "handed_to_desk")
     /\ streak' = Streak(Settled(back, "handed_to_desk"), s)

\* Hidden questions show once the desk is idle, and stay shown.
Reveals ==
  /\ item' = [r \in Request |-> IF item[r].state = "pending" /\ Held(r) /\ now < item[r].deadline
                                THEN [item[r] EXCEPT !.visible = TRUE]
                                ELSE [item[r] EXCEPT !.missed = 0]]
  /\ streak' = 0
  /\ UNCHANGED <<sock, reply, handed, horizon>>

Unread(s) ==
  /\ item' = [r \in Request |-> IF item[r].state = "pending" /\ ~Held(r)
                                THEN [item[r] EXCEPT !.missed = Least(2, @ + 1)] ELSE item[r]]
  /\ streak' = s
  /\ UNCHANGED <<sock, reply, handed, horizon>>

\* Slip: failed reads are not counted across polls.
PollResumesForgiving ==
  /\ poll
  /\ poll' = FALSE
  /\ \E read \in Reads :
       \/ read = "active" /\ HandsBack(0)
       \/ read = "idle" /\ Reveals
       \/ read = "unreadable" /\ Unread(0)
  /\ UNCHANGED <<sessionVars, worldVars, told>>

\* tick(), after its desk read: the desk is back, read idle, or not read.
PollResumes ==
  /\ poll
  /\ poll' = FALSE
  /\ \E read \in Reads :
       \/ read = "active" /\ HandsBack(0)
       \/ read = "idle" /\ Reveals
       \/ read = "unreadable" /\ streak = 0 /\ Unread(1)
       \/ read = "unreadable" /\ streak = 1 /\ HandsBack(1)
  /\ UNCHANGED <<sessionVars, worldVars, told>>

-----------------------------------------------------------------------------
(* The session, and its events in the spool *)

Started == {r \in Request : item[r].state # "none"}

Spools(what, about) ==
  /\ Len(events) < MaxEvents
  /\ events' = Append(events, [what |-> what, about |-> about, upto |-> Started])

\* The Mac's own dialog is up: the hook has nothing to say, or (Desktop shows
\* a question at once) the hook is still waiting.
DialogUp(r) ==
  /\ mac[r] = "waiting"
  /\ reply[r] \in {"none", "nothing"}
  /\ ~sock[r] \/ Held(r)

Over(S) ==
  /\ mac' = [r \in Request |-> IF r \in S /\ mac[r] = "waiting" THEN "over" ELSE mac[r]]
  /\ handed' = [r \in Request |-> IF r \in S THEN Never ELSE handed[r]]

\* The dialog is answered, here or from elsewhere; or a reply of the broker is
\* applied.
Decided(r, what) ==
  /\ mac[r] = "waiting"
  /\ what = "denied" => shape[r].kind = "approval"
  /\ DialogUp(r) \/ reply[r] \in Choice \cup {"cancel"}
  /\ Spools(what, {r})
  /\ Over({r})
  /\ sock' = [sock EXCEPT ![r] = FALSE]
  /\ UNCHANGED <<shape, item, reply, poll, streak, horizon, worldVars, told>>

TurnEnds ==
  /\ \E r \in Request : mac[r] = "waiting"
  /\ Spools("turn", {})
  /\ Over(Request)
  /\ UNCHANGED <<shape, item, sock, reply, poll, streak, horizon, worldVars, told>>

\* The session's process is gone and its row reads ended (sessionRowEnded).
SessionEnds ==
  /\ \E r \in Request : mac[r] = "waiting" \/ item[r].state = "pending" \/ item[r].macWait
  /\ Over(Request)
  /\ sock' = [r \in Request |-> FALSE]
  /\ LET held == {r \in Pending(item) : Held(r)}
         after == [r \in Request |->
                     IF r \in held THEN Code("retracted")
                                   ELSE [item[r] EXCEPT !.macWait = FALSE]]
     IN Becomes(after, held) /\ streak' = Streak(after, streak)
  /\ UNCHANGED <<shape, events, reply, poll, worldVars, told>>

\* sessionMovedPast(): e shows that the session went on without the broker.
\* An older hook's question is closed by any question, and a pending approval
\* by a denial of its tool.
MovedPast(r, e, strict) ==
  \/ e.what = "turn"
  \/ r \in e.about
  \/ \E q \in e.about :
       \/ shape[r].kind = "question" /\ ~Held(r) /\ shape[q].kind = "question"
       \/ /\ shape[r].kind = "approval" /\ ~strict
          /\ e.what = "denied" /\ shape[q].kind = "approval"

\* One event of the spool, which an event older than the request is not about.
Observe ==
  /\ events # <<>>
  /\ events' = Tail(events)
  /\ LET e == Head(events)
         cleared == {r \in e.upto : item[r].macWait /\ MovedPast(r, e, TRUE)}
         past == {r \in e.upto : item[r].state = "pending" /\ MovedPast(r, e, FALSE)}
         after == [r \in Request |-> IF r \in cleared THEN [item[r] EXCEPT !.macWait = FALSE]
                                                      ELSE Settled(past, "retracted")[r]]
     IN /\ Becomes(after, past)
        /\ Writes(past, "nothing")
        /\ streak' = Streak(after, streak)
  /\ UNCHANGED <<shape, mac, poll, worldVars, histVars>>

\* The hook could not write its event, or the spool dropped it.
EventLost ==
  /\ events # <<>>
  /\ events' = Tail(events)
  /\ UNCHANGED <<shape, item, sock, reply, mac, poll, streak, horizon, worldVars, histVars>>

-----------------------------------------------------------------------------
(* Time and restarts *)

\* Desk reads are short, and timers run at most Late behind.
Tick ==
  /\ now < MaxTime
  /\ ~poll /\ InState(item, {"reading"}) = {}
  /\ \A r \in Pending(item) : now < item[r].deadline + Late
  /\ now' = now + 1
  /\ UNCHANGED <<sessionVars, item, sock, reply, poll, streak, horizon, restarts, histVars>>

\* The process stops, after stop() or without, and another starts.
Restart(graceful) ==
  /\ restarts < MaxRestarts
  /\ restarts' = restarts + 1
  /\ reply' = [r \in Request |->
       IF graceful /\ r \in Pending(item) /\ sock[r] THEN "nothing" ELSE reply[r]]
  /\ IF graceful THEN ShownAtMac(Pending(item), "drained") ELSE UNCHANGED handed
  /\ item' = [r \in Request |->
       IF item[r].state = "none" THEN item[r] ELSE Closed("gone")]
  /\ sock' = [r \in Request |-> FALSE]
  /\ poll' = FALSE /\ streak' = 0 /\ horizon' = now
  /\ told' = [r \in Request |-> {}]
  /\ UNCHANGED <<sessionVars, now>>

Next ==
  \/ \E r \in Request :
       \/ Refuse(r) \/ Admit(r) \/ FastPath(r) \/ Park(r) \/ HookLeaves(r) \/ HookClosed(r)
       \/ Expire(r)
       \/ \E c \in Client : \/ \E choice \in Choice : AnswerPending(r, c, choice)
                            \/ HandBack(r, c)
                            \/ \E back \in BOOLEAN : Replay(r, c, back)
       \/ \E what \in {"ran", "denied"} : Decided(r, what)
  \/ Questions \/ CancelSession
  \/ Drained \/ PollStarts \/ PollResumes
  \/ TurnEnds \/ SessionEnds \/ Observe \/ EventLost
  \/ Tick
  \/ \E graceful \in BOOLEAN : Restart(graceful)

Spec == Init /\ [][Next]_vars

-----------------------------------------------------------------------------
(* Properties *)

\* Every variable has its type, and what waits at the Mac was given back to it.
TypeOK ==
  /\ shape \in Mixes
  /\ item \in [Request -> Item]
  /\ sock \in [Request -> BOOLEAN]
  /\ reply \in [Request -> Choice \cup {"none", "nothing", "cancel"}]
  /\ mac \in [Request -> {"idle", "waiting", "over"}]
  /\ \A r \in Request : item[r].macWait => item[r].state \in MacDialog /\ reply[r] = "nothing"
  /\ poll \in BOOLEAN /\ streak \in 0 .. 1 /\ horizon \in Time
  /\ events \in Seq(Event)
  /\ now \in Time /\ restarts \in 0 .. MaxRestarts
  /\ told \in [Request -> SUBSET (Choice \cup {"nothing", "none", "cancel"})]
  /\ handed \in [Request -> Time \cup {Never}]

\* A client is told that it answered, or handed back, only what the hook was
\* given: two answers cannot both win, and none is written to a hook that left.
ToldIsTrue == \A r \in Request : \A got \in told[r] : reply[r] = got

\* Nothing is held until the hook itself gives up, its wait counted from its own
\* stamp.  Without a stamp the code can know no better than that the hook started
\* when its request was read, and the property says no more than that.
NeverPastTheHook ==
  \A r \in Pending(item) : now < item[r].start + shape[r].wait

\* What the questions route promises of a request handed to the Mac after the
\* horizon: if it no longer says that the Mac waits, the session moved past it.
\* (Questions of older hooks carry nothing to tell them apart.)
MissingMeansMovedPast ==
  \A r \in Request :
    /\ shape[r].kind = "approval" \/ Held(r)
    /\ handed[r] > horizon
    /\ ~item[r].macWait
    => mac[r] = "over"

\* Nobody waits for a desk that cannot be read: no approval outlives two failed
\* reads in a row, whatever else is parked or settled between them.
BackAtTheDesk == \A r \in Request : item[r].missed <= 1
=============================================================================
