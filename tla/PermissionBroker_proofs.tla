----------------------- MODULE PermissionBroker_proofs -----------------------
(***************************************************************************)
(* What PermissionBroker promises, for any number of requests, clients and *)
(* choices, and any lengths of time that meet TimeAssumption.              *)
(*                                                                         *)
(* The invariant says of each request, where the broker is with it, what   *)
(* the hook may still get, and what the session may still be waiting for.  *)
(***************************************************************************)
EXTENDS PermissionBroker, TLAPS

\* A hook that listens got nothing yet, and no client was told anything.
HookInv ==
  \A r \in Request :
    /\ sock[r] => reply[r] = "none" /\ told[r] = {}
    /\ item[r].state \in {"answered", "handed_to_desk"} => ~sock[r]
    /\ item[r].state = "none" => ~sock[r] /\ reply[r] = "none" /\ told[r] = {}
    /\ item[r].state = "handed_to_desk" /\ item[r].back \in Client => reply[r] = "nothing"
    /\ \A got \in told[r] : reply[r] = got

\* A deadline leaves the hook its margin, and timers are at most Late behind.
TimeInv ==
  \A r \in Request :
    /\ item[r].state \in {"reading", "pending"} =>
         item[r].deadline <= item[r].start + shape[r].wait - Margin
    /\ item[r].state = "reading" => now < item[r].deadline
    /\ item[r].state = "pending" => now <= item[r].deadline + Late

\* What a failed read left held is counted.
DeskInv ==
  \A r \in Request : item[r].missed # 0 =>
    item[r].state = "pending" /\ ~Held(r) /\ item[r].missed = 1 /\ streak = 1

\* What the Mac waits on is kept, or is behind the horizon.
MacInv ==
  /\ horizon <= now
  /\ \A r \in Request :
       /\ item[r].state \in {"none", "reading", "pending"} => handed[r] = Never
       /\ item[r].state = "none" <=> mac[r] = "idle"
       /\ handed[r] <= now /\ item[r].at <= now
       /\ handed[r] # Never /\ (shape[r].kind = "approval" \/ Held(r)) =>
            \/ mac[r] = "over" \/ handed[r] <= horizon
            \/ item[r].macWait /\ item[r].at = handed[r]

\* An event says that its dialog, or the turn it ends, is over.
EventInv ==
  \A k \in 1 .. Len(events) :
    LET e == events[k]
    IN /\ \A r \in e.about : mac[r] = "over"
       /\ e.what = "turn" => \A r \in e.upto : mac[r] = "over"

IInv == TypeOK /\ HookInv /\ TimeInv /\ DeskInv /\ MacInv /\ EventInv

-----------------------------------------------------------------------------
(* Items *)

LEMMA NoItemIsItem ==
  /\ NoItem \in Item
  /\ ~NoItem.macWait /\ NoItem.at = 0 /\ NoItem.missed = 0 /\ NoItem.back = NoClient
<1>1. 0 \in Time BY BoundAssumption DEF Time
<1>2. NoItem \in Item BY <1>1 DEF NoItem, Item
<1>3. ~NoItem.macWait BY DEF NoItem
<1>4. NoItem.at = 0 /\ NoItem.missed = 0 /\ NoItem.back = NoClient BY DEF NoItem
<1> QED BY <1>2, <1>3, <1>4

LEMMA ClosedItem ==
  ASSUME NEW state \in {"gone"} \cup Settlement
  PROVE  /\ Closed(state) \in Item
         /\ Closed(state).state = state /\ ~Closed(state).macWait /\ Closed(state).at = 0
         /\ Closed(state).missed = 0 /\ Closed(state).back = NoClient
<1>1. Closed(state) \in Item BY NoItemIsItem DEF Closed, Item
<1>2. Closed(state).state = state BY NoItemIsItem DEF Closed, Item
<1>3. Closed(state).macWait = NoItem.macWait BY NoItemIsItem DEF Closed, Item
<1>4. /\ Closed(state).at = NoItem.at /\ Closed(state).missed = NoItem.missed
      /\ Closed(state).back = NoItem.back
  BY NoItemIsItem DEF Closed, Item
<1> QED BY <1>1, <1>2, <1>3, <1>4, NoItemIsItem

\* An item, changed in a field or two.
LEMMA ChangedItem ==
  ASSUME NEW i \in Item, NEW waits \in BOOLEAN, NEW c \in Client \cup {NoClient}
  PROVE  /\ [i EXCEPT !.macWait = waits] \in Item
         /\ [i EXCEPT !.by = c] \in Item /\ [i EXCEPT !.back = c] \in Item
<1> QED BY DEF Item

LEMMA CodeItem ==
  ASSUME TypeOK, NEW state \in Settlement
  PROVE  /\ Code(state) \in Item
         /\ Code(state).state = state /\ Code(state).at = now /\ Code(state).missed = 0
         /\ ~Code(state).macWait /\ Code(state).back = NoClient
<1>1. now \in Time BY DEF TypeOK
<1>2. Code(state) \in Item BY <1>1, ClosedItem DEF Code, Item
<1>3. Code(state).macWait = Closed(state).macWait BY ClosedItem DEF Code, Item
<1>4. Code(state).state = state /\ Code(state).at = now /\ Code(state).missed = 0
  BY ClosedItem DEF Code, Item
<1>5. Code(state).back = NoClient BY ClosedItem DEF Code, Item
<1> QED BY <1>2, <1>3, <1>4, <1>5, ClosedItem

\* What settle() leaves of the items.
LEMMA SettledItems ==
  ASSUME TypeOK, NEW S \in SUBSET Request, NEW how \in Unanswered
  PROVE  LET i == Settled(S, how)
         IN /\ i \in [Request -> Item]
            /\ \A r \in S : /\ i[r].state = how /\ i[r].at = now /\ i[r].missed = 0
                            /\ i[r].macWait = (sock[r] /\ how \in MacDialog)
                            /\ i[r].back = NoClient
            /\ \A r \in Request \ S : i[r] = item[r]
<1>1. how \in Settlement BY DEF Settlement
<1> DEFINE code(r) == [Code(how) EXCEPT !.macWait = sock[r] /\ how \in MacDialog]
<1>3. ASSUME NEW r \in Request
      PROVE  /\ code(r) \in Item /\ code(r).state = how /\ code(r).at = now
             /\ code(r).missed = 0
             /\ code(r).macWait = (sock[r] /\ how \in MacDialog) /\ code(r).back = NoClient
  <2> DEFINE waits == sock[r] /\ how \in MacDialog
  <2>1. waits \in BOOLEAN OBVIOUS
  <2> HIDE DEF waits
  <2>2. LET i == [Code(how) EXCEPT !.macWait = waits]
        IN /\ i.state = how /\ i.at = now /\ i.missed = 0
           /\ i.macWait = waits /\ i.back = NoClient
    BY <1>1, <2>1, CodeItem DEF Item
  <2>3. [Code(how) EXCEPT !.macWait = waits] \in Item
    BY <1>1, <2>1, CodeItem DEF Item
  <2> QED BY <2>2, <2>3 DEF waits
<1>2. Settled(S, how) = [r \in Request |-> IF r \in S THEN code(r) ELSE item[r]]
  BY DEF Settled
<1> HIDE DEF code
<1> QED BY <1>2, <1>3 DEF TypeOK

\* What a prune may do to the item of r, and to the horizon.
Kept(i, r) ==
  \/ item'[r] = i[r]
  \/ /\ i[r].state \in Settlement /\ item'[r] = Closed("gone")
     /\ i[r].macWait => i[r].at <= horizon'

LEMMA PrunableSettled ==
  ASSUME NEW i, NEW settled, NEW F \in Prunable(i, settled)
  PROVE  F \subseteq settled
<1> DEFINE sure == {r \in settled : Stale(i, r, TRUE)}
           maybe == {r \in settled \ sure : Stale(i, r, FALSE)}
<1>1. PICK S \in SUBSET maybe : LET old == sure \cup S
                               IN F \in {old \cup G : G \in OverCap(i, settled \ old)}
  BY DEF Prunable
<1>2. PICK G \in OverCap(i, settled \ (sure \cup S)) : F = (sure \cup S) \cup G BY <1>1
<1>3. G \subseteq settled BY <1>2 DEF OverCap
<1>4. sure \subseteq settled /\ S \subseteq settled OBVIOUS
<1> QED BY <1>2, <1>3, <1>4

LEMMA KeepsItems ==
  ASSUME TypeOK, NEW i \in [Request -> Item], NEW S, Keeps(i) \/ Becomes(i, S)
  PROVE  /\ item' \in [Request -> Item]
         /\ horizon' \in Time /\ horizon <= horizon'
         /\ horizon' \in {horizon} \cup {i[r].at : r \in Request}
         /\ \A r \in Request : Kept(i, r)
<1>1. CASE item' = i /\ UNCHANGED horizon BY <1>1 DEF Kept, TypeOK, Time
<1>2. CASE Keeps(i)
  <2>1. PICK F \in SUBSET InState(i, Settlement) :
          LET lost == {horizon} \cup Lost(i, F)
          IN /\ item' = Forget(i, F)
             /\ \E latest \in lost : (\A t \in lost : t <= latest) /\ horizon' = latest
    BY <1>2, PrunableSettled DEF Keeps
  <2>2. \A r \in Request : i[r].at \in Time BY DEF Item
  <2>3. F \subseteq Request /\ \A r \in F : i[r].state \in Settlement BY DEF InState
  <2>4. /\ horizon' \in {horizon} \cup {i[r].at : r \in Request}
        /\ horizon <= horizon'
        /\ \A r \in F : i[r].macWait => i[r].at <= horizon'
    BY <2>1, <2>3 DEF Lost
  <2>5. horizon' \in Time BY <2>2, <2>4 DEF TypeOK
  <2>6. item' \in [Request -> Item] BY <2>1, ClosedItem DEF Forget
  <2>7. \A r \in Request : Kept(i, r) BY <2>1, <2>3, <2>4 DEF Forget, Kept
  <2> QED BY <2>4, <2>5, <2>6, <2>7
<1> QED BY <1>1, <1>2 DEF Becomes

-----------------------------------------------------------------------------
(* Steps that settle *)

\* What a step may do to the request r, whose item it leaves as i.
Resolved(i, r) ==
  /\ item[r].state = "pending" /\ i.state \in Settlement /\ i.at = now /\ i.missed = 0
  /\ i.back \in Client /\ i.state = "handed_to_desk" => reply'[r] = "nothing"
  /\ i.macWait => i.state \in MacDialog /\ reply'[r] = "nothing"
  /\ i.state \in {"answered", "handed_to_desk"} => ~sock'[r]
  /\ reply'[r] # reply[r] => sock[r]
  /\ sock'[r] => sock[r] /\ reply'[r] = reply[r] /\ told'[r] = told[r]
  /\ told'[r] = told[r] \/ (sock[r] /\ told'[r] = told[r] \cup {reply'[r]})
  /\ handed'[r] = handed[r] \/ (handed'[r] = now /\ i.macWait)

Untouched(i, r) ==
  /\ \/ i = item[r]
     \/ /\ i = [item[r] EXCEPT !.macWait = FALSE]
        /\ mac[r] = "over" \/ (shape[r].kind = "question" /\ ~Held(r))
  /\ reply'[r] = reply[r] /\ sock'[r] = sock[r] /\ told'[r] = told[r]
  /\ handed'[r] = handed[r]

\* Any step that settles some requests, lets the Mac's wait for others end, and
\* prunes, keeps the invariant.
LEMMA ResolutionKeeps ==
  ASSUME IInv, NEW i \in [Request -> Item], NEW S, Keeps(i) \/ Becomes(i, S),
         \A r \in Request : Resolved(i[r], r) \/ Untouched(i[r], r),
         UNCHANGED <<shape, mac, now, restarts>>,
         reply' \in [Request -> Choice \cup {"none", "nothing", "cancel"}],
         sock' \in [Request -> BOOLEAN],
         told' \in [Request -> SUBSET (Choice \cup {"nothing", "none", "cancel"})],
         handed' \in [Request -> Time \cup {Never}],
         poll' \in BOOLEAN, streak' \in 0 .. 1,
         \A r \in Request : i[r].missed # 0 => streak' = 1,
         events' \in Seq(Event), EventInv'
  PROVE  IInv'
<1> USE DEF IInv
<1>1. /\ item' \in [Request -> Item]
      /\ horizon' \in Time /\ horizon <= horizon'
      /\ horizon' \in {horizon} \cup {i[r].at : r \in Request}
      /\ \A r \in Request : Kept(i, r)
  BY KeepsItems
<1>2. /\ Closed("gone").state = "gone" /\ ~Closed("gone").macWait
      /\ Closed("gone").missed = 0 /\ Closed("gone").at = 0
  BY ClosedItem
<1>3. \A r \in Request : Untouched(i[r], r) =>
        /\ i[r].state = item[r].state /\ i[r].at = item[r].at /\ i[r].back = item[r].back
        /\ i[r].missed = item[r].missed /\ i[r].start = item[r].start
        /\ i[r].deadline = item[r].deadline /\ (i[r].macWait => item[r].macWait)
  BY DEF Untouched, TypeOK, Item
<1>4. now \in Int /\ \A r \in Request : item[r].at \in Int /\ i[r].at \in Int
  BY DEF TypeOK, Time, Item
<1>5. TypeOK'
  <2>1. ASSUME NEW r \in Request, item'[r].macWait
        PROVE  item'[r].state \in MacDialog /\ reply'[r] = "nothing"
    BY <1>1, <1>2, <1>3, <2>1 DEF TypeOK, Kept, Resolved, Untouched
  <2> QED BY <1>1, <2>1 DEF TypeOK
<1>6. HookInv'
  BY <1>1, <1>2, <1>3 DEF HookInv, Kept, Resolved, Untouched, Settlement, Unanswered, MacDialog
<1>7. TimeInv'
  BY <1>1, <1>2, <1>3 DEF TimeInv, Kept, Resolved, Settlement, Unanswered, MacDialog
<1>8. DeskInv'
  <2>1. ASSUME NEW r \in Request, item'[r].missed # 0
        PROVE  item'[r] = i[r] /\ Untouched(i[r], r)
    BY <1>1, <1>2, <2>1 DEF Kept, Resolved
  <2> QED BY <1>3, <2>1 DEF DeskInv, Held
<1>9. MacInv'
  <2>1. \A r \in Request : i[r].at <= now BY <1>3, <1>4 DEF MacInv, Resolved
  <2>2. horizon' <= now' BY <1>1, <2>1 DEF MacInv
  <2>3. ASSUME NEW r \in Request
        PROVE  /\ item'[r].state \in {"none", "reading", "pending"} => handed'[r] = Never
               /\ item'[r].state = "none" <=> mac'[r] = "idle"
    <3>0. item'[r].state = i[r].state \/ (i[r].state \in Settlement /\ item'[r].state = "gone")
      BY <1>1, <1>2 DEF Kept
    <3>1. CASE Untouched(i[r], r)
      <4>1. i[r].state = item[r].state /\ handed'[r] = handed[r]
        BY <1>3, <3>1 DEF Untouched
      <4> QED BY <3>0, <4>1 DEF MacInv, Settlement, Unanswered, MacDialog
    <3>2. CASE Resolved(i[r], r)
      BY <3>0, <3>2 DEF MacInv, Resolved, Settlement, Unanswered, MacDialog
    <3> QED BY <3>1, <3>2
  <2>4. ASSUME NEW r \in Request PROVE handed'[r] <= now' /\ item'[r].at <= now'
    <3>1. 0 <= now BY DEF TypeOK, Time
    <3>2. item'[r].at <= now' BY <1>1, <1>2, <2>1, <3>1 DEF Kept
    <3>3. handed'[r] = handed[r] \/ handed'[r] = now BY DEF Resolved, Untouched
    <3> QED BY <1>4, <3>2, <3>3 DEF MacInv
  <2>5. ASSUME NEW r \in Request, handed'[r] # Never,
               shape'[r].kind = "approval" \/ Held(r)'
        PROVE  \/ mac'[r] = "over" \/ handed'[r] <= horizon'
               \/ item'[r].macWait /\ item'[r].at = handed'[r]
    <3>1. \/ mac[r] = "over" \/ handed'[r] <= horizon'
          \/ i[r].macWait /\ i[r].at = handed'[r]
      <4>1. CASE Resolved(i[r], r)
        <5>1. handed[r] = Never BY <4>1 DEF Resolved, MacInv
        <5> QED BY <2>5, <4>1, <5>1 DEF Resolved
      <4>2. CASE Untouched(i[r], r)
        <5>1. handed'[r] = handed[r] BY <4>2 DEF Untouched
        <5>2. \/ mac[r] = "over" \/ handed[r] <= horizon
              \/ item[r].macWait /\ item[r].at = handed[r]
          BY <2>5, <5>1 DEF MacInv, Held
        <5>3. handed[r] <= horizon => handed[r] <= horizon'
          <6>1. handed[r] \in Int BY DEF TypeOK, Time, Never
          <6>2. horizon \in Int /\ horizon' \in Int BY <1>1 DEF TypeOK, Time
          <6> QED BY <1>1, <6>1, <6>2
        <5>4. CASE i[r] = item[r] BY <5>1, <5>2, <5>3, <5>4
        <5>5. CASE i[r] # item[r]
          <6>1. mac[r] = "over" \/ (shape[r].kind = "question" /\ ~Held(r))
            BY <4>2, <5>5 DEF Untouched
          <6>2. shape[r].kind = "approval" \/ Held(r) BY <2>5 DEF Held
          <6> QED BY <6>1, <6>2
        <5> QED BY <5>4, <5>5
      <4> QED BY <4>1, <4>2
    <3> QED BY <1>1, <3>1 DEF Kept
  <2> QED BY <2>2, <2>3, <2>4, <2>5 DEF MacInv
<1> QED BY <1>5, <1>6, <1>7, <1>8, <1>9

-----------------------------------------------------------------------------
(* What the parts of a settling step do *)

LEMMA WritesEffect ==
  ASSUME TypeOK, NEW S \in SUBSET Request, NEW what \in Choice \cup {"nothing", "cancel"},
         Writes(S, what)
  PROVE  /\ reply' \in [Request -> Choice \cup {"none", "nothing", "cancel"}]
         /\ sock' \in [Request -> BOOLEAN]
         /\ \A r \in S : ~sock'[r] /\ reply'[r] = (IF sock[r] THEN what ELSE reply[r])
         /\ \A r \in Request \ S : sock'[r] = sock[r] /\ reply'[r] = reply[r]
<1>1. sock' = [r \in Request |-> sock[r] /\ r \notin S] BY DEF Writes
<1>2. sock' \in [Request -> BOOLEAN] BY <1>1
<1>3. reply' = [r \in Request |-> IF r \in S /\ sock[r] THEN what ELSE reply[r]] BY DEF Writes
<1>4. reply' \in [Request -> Choice \cup {"none", "nothing", "cancel"}] BY <1>3 DEF TypeOK
<1>5. \A r \in S : ~sock'[r] /\ reply'[r] = (IF sock[r] THEN what ELSE reply[r])
  BY <1>1, <1>3
<1>6. \A r \in Request \ S : sock'[r] = sock[r] BY <1>1 DEF TypeOK
<1>7. \A r \in Request \ S : reply'[r] = reply[r] BY <1>3
<1> QED BY <1>2, <1>4, <1>5, <1>6, <1>7

LEMMA ShownEffect ==
  ASSUME TypeOK, NEW S \in SUBSET Request, NEW how, ShownAtMac(S, how)
  PROVE  /\ handed' \in [Request -> Time \cup {Never}]
         /\ \A r \in S : handed'[r] = handed[r] \/
                         (handed'[r] = now /\ sock[r] /\ how \in MacDialog)
         /\ \A r \in Request \ S : handed'[r] = handed[r]
<1> QED BY DEF ShownAtMac, TypeOK

LEMMA StreakKept ==
  ASSUME IInv, NEW i \in [Request -> Item], streak' = Streak(i, streak),
         \A r \in Request : i[r].missed # 0 =>
           i[r].missed = item[r].missed /\ i[r].state = item[r].state
  PROVE  /\ streak' \in 0 .. 1
         /\ \A r \in Request : i[r].missed # 0 => streak' = 1
<1>1. streak' \in {0, streak} BY DEF Streak
<1>2. ASSUME NEW r \in Request, i[r].missed # 0 PROVE streak' = 1
  <2>1. i[r].state = "pending" /\ streak = 1 BY <1>2 DEF IInv, DeskInv
  <2>2. r \in Pending(i) BY <2>1 DEF Pending, InState
  <2> QED BY <2>1, <2>2 DEF Streak
<1> QED BY <1>1, <1>2 DEF IInv, TypeOK

LEMMA PendingIs ==
  /\ Pending(item) \subseteq Request
  /\ \A r \in Pending(item) : item[r].state = "pending"
<1> QED BY DEF Pending, InState

\* What settles S with nothing for the hooks leaves each request resolved or as it was.
LEMMA SettledResolved ==
  ASSUME IInv, NEW S \in SUBSET Pending(item), NEW how \in Unanswered,
         \/ Writes(S, "nothing") /\ ShownAtMac(S, how)
         \/ how \notin MacDialog /\ UNCHANGED <<sock, reply, handed>>,
         UNCHANGED told
  PROVE  /\ Settled(S, how) \in [Request -> Item]
         /\ \A r \in Request : Settled(S, how)[r].missed # 0 => Settled(S, how)[r] = item[r]
         /\ \A r \in Request : \/ Resolved(Settled(S, how)[r], r)
                               \/ Untouched(Settled(S, how)[r], r)
         /\ reply' \in [Request -> Choice \cup {"none", "nothing", "cancel"}]
         /\ sock' \in [Request -> BOOLEAN]
         /\ told' \in [Request -> SUBSET (Choice \cup {"nothing", "none", "cancel"})]
         /\ handed' \in [Request -> Time \cup {Never}]
<1> DEFINE i == Settled(S, how)
<1>0. TypeOK /\ HookInv BY DEF IInv
<1>1. S \subseteq Request /\ \A r \in S : item[r].state = "pending" BY PendingIs
<1>2. /\ i \in [Request -> Item]
      /\ \A r \in S : /\ i[r].state = how /\ i[r].at = now /\ i[r].missed = 0
                      /\ i[r].macWait = (sock[r] /\ how \in MacDialog)
                      /\ i[r].back = NoClient
      /\ \A r \in Request \ S : i[r] = item[r]
  BY <1>0, <1>1, SettledItems
<1> HIDE DEF i
<1>3. /\ reply' \in [Request -> Choice \cup {"none", "nothing", "cancel"}]
      /\ sock' \in [Request -> BOOLEAN]
      /\ handed' \in [Request -> Time \cup {Never}]
      /\ \A r \in S :
           \/ /\ ~sock'[r] /\ reply'[r] = (IF sock[r] THEN "nothing" ELSE reply[r])
              /\ handed'[r] = handed[r] \/ (handed'[r] = now /\ sock[r] /\ how \in MacDialog)
           \/ /\ sock'[r] = sock[r] /\ reply'[r] = reply[r] /\ handed'[r] = handed[r]
              /\ how \notin MacDialog
      /\ \A r \in Request \ S :
           sock'[r] = sock[r] /\ reply'[r] = reply[r] /\ handed'[r] = handed[r]
  <2>1. CASE Writes(S, "nothing") /\ ShownAtMac(S, how)
    <3>1. /\ reply' \in [Request -> Choice \cup {"none", "nothing", "cancel"}]
          /\ sock' \in [Request -> BOOLEAN]
          /\ \A r \in S : ~sock'[r] /\ reply'[r] = (IF sock[r] THEN "nothing" ELSE reply[r])
          /\ \A r \in Request \ S : sock'[r] = sock[r] /\ reply'[r] = reply[r]
      BY <1>0, <1>1, <2>1, WritesEffect
    <3>2. /\ handed' \in [Request -> Time \cup {Never}]
          /\ \A r \in S : handed'[r] = handed[r] \/
                          (handed'[r] = now /\ sock[r] /\ how \in MacDialog)
          /\ \A r \in Request \ S : handed'[r] = handed[r]
      BY <1>0, <1>1, <2>1, ShownEffect
    <3> QED BY <3>1, <3>2
  <2>2. CASE how \notin MacDialog /\ UNCHANGED <<sock, reply, handed>>
    BY <1>0, <1>1, <2>2 DEF TypeOK
  <2> QED BY <2>1, <2>2
<1>4. ASSUME NEW r \in S PROVE Resolved(i[r], r)
  <2>1. i[r].state \in Settlement BY <1>2 DEF Settlement
  <2>2. i[r].back \notin Client BY <1>2, ClientAssumption
  <2>3. i[r].macWait => i[r].state \in MacDialog /\ reply'[r] = "nothing" BY <1>2, <1>3
  <2>4. /\ reply'[r] # reply[r] => sock[r]
        /\ sock'[r] => sock[r] /\ reply'[r] = reply[r] /\ told'[r] = told[r]
        /\ told'[r] = told[r]
    BY <1>3
  <2>5. handed'[r] = handed[r] \/ (handed'[r] = now /\ i[r].macWait) BY <1>2, <1>3
  <2>6. i[r].state \in {"answered", "handed_to_desk"} => ~sock'[r]
    BY <1>2, <1>3 DEF Unanswered, MacDialog
  <2> QED BY <1>1, <1>2, <2>1, <2>2, <2>3, <2>4, <2>5, <2>6 DEF Resolved
<1>5. ASSUME NEW r \in Request \ S PROVE Untouched(i[r], r)
  BY <1>2, <1>3 DEF Untouched
<1>6. \A r \in Request : i[r].missed # 0 => i[r] = item[r] BY <1>2
<1>7. told' \in [Request -> SUBSET (Choice \cup {"nothing", "none", "cancel"})]
  BY <1>0 DEF TypeOK
<1> QED BY <1>2, <1>3, <1>4, <1>5, <1>6, <1>7 DEF i

LEMMA SettleKeeps ==
  ASSUME IInv, NEW S \in SUBSET Pending(item), NEW how \in Unanswered, Settle(S, how),
         UNCHANGED <<shape, mac, events, now, restarts, told>>, poll' \in BOOLEAN
  PROVE  IInv'
<1> DEFINE i == Settled(S, how)
<1>1. \/ Writes(S, "nothing") /\ ShownAtMac(S, how)
      \/ how \notin MacDialog /\ UNCHANGED <<sock, reply, handed>>
  BY DEF Settle, MacDialog
<1>2. Becomes(i, S) /\ streak' = Streak(i, streak) BY DEF Settle
<1>3. /\ i \in [Request -> Item]
      /\ \A r \in Request : i[r].missed # 0 => i[r] = item[r]
      /\ \A r \in Request : Resolved(i[r], r) \/ Untouched(i[r], r)
      /\ reply' \in [Request -> Choice \cup {"none", "nothing", "cancel"}]
      /\ sock' \in [Request -> BOOLEAN]
      /\ told' \in [Request -> SUBSET (Choice \cup {"nothing", "none", "cancel"})]
      /\ handed' \in [Request -> Time \cup {Never}]
  BY <1>1, SettledResolved
<1> HIDE DEF i
<1>4. streak' \in 0 .. 1 /\ \A r \in Request : i[r].missed # 0 => streak' = 1
  BY <1>2, <1>3, StreakKept
<1>5. events' \in Seq(Event) /\ EventInv' BY DEF IInv, TypeOK, EventInv
<1>6. UNCHANGED <<shape, mac, now, restarts>> OBVIOUS
<1> QED BY <1>2, <1>3, <1>4, <1>5, <1>6, ResolutionKeeps

-----------------------------------------------------------------------------
(* The steps that settle *)

LEMMA OverduePending ==
  ASSUME NEW r \in Request, item[r].state = "pending"
  PROVE  {r} \in SUBSET Pending(item)
<1> QED BY DEF Pending, InState

LEMMA HookClosedKeeps == ASSUME IInv, NEW r \in Request, HookClosed(r) PROVE IInv'
<1>1. {r} \in SUBSET Pending(item) BY OverduePending DEF HookClosed
<1>2. "hook_gone" \in Unanswered BY DEF Unanswered
<1>3. poll' \in BOOLEAN BY DEF HookClosed, IInv, TypeOK
<1>4. UNCHANGED <<shape, mac, events, now, restarts, told>>
  BY DEF HookClosed, sessionVars, worldVars
<1> QED BY <1>1, <1>2, <1>3, <1>4, SettleKeeps DEF HookClosed

LEMMA ExpireKeeps == ASSUME IInv, NEW r \in Request, Expire(r) PROVE IInv'
<1>1. {r} \in SUBSET Pending(item) BY OverduePending DEF Expire, Overdue
<1>2. "expired" \in Unanswered BY DEF Unanswered, MacDialog
<1>3. poll' \in BOOLEAN BY DEF Expire, IInv, TypeOK
<1>4. UNCHANGED <<shape, mac, events, now, restarts, told>>
  BY DEF Expire, sessionVars, worldVars
<1> QED BY <1>1, <1>2, <1>3, <1>4, SettleKeeps DEF Expire

LEMMA DrainedKeeps == ASSUME IInv, Drained PROVE IInv'
<1>1. "drained" \in Unanswered BY DEF Unanswered, MacDialog
<1>2. poll' \in BOOLEAN BY DEF Drained, IInv, TypeOK
<1>3. UNCHANGED <<shape, mac, events, now, restarts, told>>
  BY DEF Drained, sessionVars, worldVars
<1> QED BY <1>1, <1>2, <1>3, SettleKeeps DEF Drained

LEMMA PollStartsKeeps == ASSUME IInv, PollStarts PROVE IInv'
<1>1. PICK quiet \in SUBSET Pending(item) :
        /\ Settle(quiet, "no_client")
        /\ poll' = (poll \/ {r \in Pending(item) \ quiet : ~Held(r) \/ ~item[r].visible} # {})
  BY DEF PollStarts
<1>2. "no_client" \in Unanswered BY DEF Unanswered, MacDialog
<1>3. poll' \in BOOLEAN BY <1>1
<1>4. UNCHANGED <<shape, mac, events, now, restarts, told>>
  BY DEF PollStarts, sessionVars, worldVars
<1> QED BY <1>1, <1>2, <1>3, <1>4, SettleKeeps

LEMMA TooLateKeeps ==
  ASSUME IInv, NEW r \in Request, item[r].state = "pending", TooLate(r),
         UNCHANGED <<sessionVars, poll, worldVars>>
  PROVE  IInv'
<1>1. {r} \in SUBSET Pending(item) BY OverduePending
<1>2. "hook_gone" \in Unanswered /\ "expired" \in Unanswered BY DEF Unanswered, MacDialog
<1>3. poll' \in BOOLEAN BY DEF IInv, TypeOK
<1>4. UNCHANGED <<shape, mac, events, now, restarts, told>>
  BY DEF TooLate, sessionVars, worldVars
<1>5. Settle({r}, "expired") \/ Settle({r}, "hook_gone") BY DEF TooLate
<1> QED BY <1>1, <1>2, <1>3, <1>4, <1>5, SettleKeeps

LEMMA QuestionsKeeps == ASSUME IInv, Questions PROVE IInv'
<1> DEFINE late == {r \in Request : Overdue(r)}
           i == Settled(late, "expired")
<1>1. late \in SUBSET Pending(item) BY DEF Overdue, Pending, InState
<1>2. "expired" \in Unanswered BY DEF Unanswered, MacDialog
<1>3. /\ Keeps(i) /\ Writes(late, "nothing") /\ ShownAtMac(late, "expired")
      /\ streak' = Streak(i, streak) /\ UNCHANGED told
  BY DEF Questions
<1> HIDE DEF late
<1>4. /\ i \in [Request -> Item]
      /\ \A r \in Request : i[r].missed # 0 => i[r] = item[r]
      /\ \A r \in Request : Resolved(i[r], r) \/ Untouched(i[r], r)
      /\ reply' \in [Request -> Choice \cup {"none", "nothing", "cancel"}]
      /\ sock' \in [Request -> BOOLEAN]
      /\ told' \in [Request -> SUBSET (Choice \cup {"nothing", "none", "cancel"})]
      /\ handed' \in [Request -> Time \cup {Never}]
  BY <1>1, <1>2, <1>3, SettledResolved
<1> HIDE DEF i
<1>5. streak' \in 0 .. 1 /\ \A r \in Request : i[r].missed # 0 => streak' = 1
  BY <1>3, <1>4, StreakKept
<1>6. events' \in Seq(Event) /\ EventInv' /\ poll' \in BOOLEAN
  BY DEF IInv, TypeOK, EventInv, Questions, sessionVars
<1>7. UNCHANGED <<shape, mac, now, restarts>> BY DEF Questions, sessionVars, worldVars
<1> QED BY <1>3, <1>4, <1>5, <1>6, <1>7, ResolutionKeeps

\* An answer that is accepted.
LEMMA AcceptKeeps ==
  ASSUME IInv, NEW r \in Request, NEW c \in Client, NEW choice \in Choice,
         item[r].state = "pending", Accept(r, c, choice),
         UNCHANGED <<sessionVars, poll, worldVars>>
  PROVE  IInv'
<1> DEFINE i == Recorded(r, c)
           code == [Code("answered") EXCEPT !.by = c]
<1>0. TypeOK BY DEF IInv
<1>1. "answered" \in Settlement BY DEF Settlement
<1>2. /\ code \in Item /\ code.state = "answered" /\ code.at = now /\ code.missed = 0
      /\ ~code.macWait
  <2>1. code \in Item BY <1>0, <1>1, CodeItem DEF Item
  <2>2. code.state = "answered" /\ code.at = now /\ code.missed = 0
    BY <1>0, <1>1, CodeItem DEF Item
  <2>3. code.macWait = Code("answered").macWait BY <1>0, <1>1, CodeItem DEF Item
  <2> QED BY <2>1, <2>2, <2>3, <1>0, <1>1, CodeItem
<1>3. i = [item EXCEPT ![r] = code] BY DEF Recorded
<1> HIDE DEF code, i
<1>4. /\ i \in [Request -> Item] /\ i[r] = code
      /\ \A q \in Request \ {r} : i[q] = item[q]
  BY <1>0, <1>2, <1>3 DEF TypeOK
<1>5. /\ Keeps(i) /\ Writes({r}, choice) /\ streak' = Streak(i, streak)
      /\ sock[r] /\ UNCHANGED handed /\ told' = [told EXCEPT ![r] = @ \cup {choice}]
  BY DEF Accept, Tells, i
<1>6. /\ reply' \in [Request -> Choice \cup {"none", "nothing", "cancel"}]
      /\ sock' \in [Request -> BOOLEAN]
      /\ ~sock'[r] /\ reply'[r] = choice
      /\ \A q \in Request \ {r} : sock'[q] = sock[q] /\ reply'[q] = reply[q]
  BY <1>0, <1>5, WritesEffect
<1>7. /\ told' \in [Request -> SUBSET (Choice \cup {"nothing", "none", "cancel"})]
      /\ told'[r] = told[r] \cup {choice}
      /\ \A q \in Request \ {r} : told'[q] = told[q]
  BY <1>0, <1>5 DEF TypeOK
<1>8. Resolved(i[r], r) BY <1>1, <1>2, <1>4, <1>5, <1>6, <1>7 DEF Resolved
<1>9. \A q \in Request \ {r} : Untouched(i[q], q) BY <1>4, <1>5, <1>6, <1>7 DEF Untouched
<1>10. streak' \in 0 .. 1 /\ \A q \in Request : i[q].missed # 0 => streak' = 1
  BY <1>2, <1>4, <1>5, StreakKept
<1>11. /\ events' \in Seq(Event) /\ EventInv' /\ poll' \in BOOLEAN
       /\ handed' \in [Request -> Time \cup {Never}]
  BY <1>5 DEF IInv, TypeOK, EventInv, sessionVars
<1>12. UNCHANGED <<shape, mac, now, restarts>> BY DEF sessionVars, worldVars
<1>13. \A q \in Request : Resolved(i[q], q) \/ Untouched(i[q], q) BY <1>8, <1>9
<1> QED BY <1>4, <1>5, <1>6, <1>7, <1>10, <1>11, <1>12, <1>13, ResolutionKeeps

LEMMA AnswerPendingKeeps ==
  ASSUME IInv, NEW r \in Request, NEW c \in Client, NEW choice \in Choice,
         AnswerPending(r, c, choice)
  PROVE  IInv'
<1> QED BY AcceptKeeps, TooLateKeeps DEF AnswerPending

LEMMA HandBackKeeps ==
  ASSUME IInv, NEW r \in Request, NEW c \in Client, HandBack(r, c) PROVE IInv'
<1> DEFINE plain == Settled({r}, "handed_to_desk")
           i == [plain EXCEPT ![r].back = c]
<1>0. TypeOK BY DEF IInv
<1>1. item[r].state = "pending" /\ UNCHANGED <<sessionVars, poll, worldVars>> BY DEF HandBack
<1>2. CASE TooLate(r) BY <1>1, <1>2, TooLateKeeps
<1>3. CASE ~TooLate(r)
  <2>1. /\ sock[r] /\ Keeps(i) /\ streak' = Streak(i, streak)
        /\ Writes({r}, "nothing") /\ ShownAtMac({r}, "handed_to_desk")
        /\ told' = [told EXCEPT ![r] = @ \cup {"nothing"}]
    BY <1>3 DEF HandBack, Tells
  <2>2. "handed_to_desk" \in Unanswered /\ "handed_to_desk" \in MacDialog
        /\ "handed_to_desk" \in Settlement
    BY DEF Unanswered, MacDialog, Settlement
  <2>3. /\ plain \in [Request -> Item]
        /\ plain[r].state = "handed_to_desk" /\ plain[r].at = now /\ plain[r].missed = 0
        /\ plain[r].macWait
        /\ \A q \in Request \ {r} : plain[q] = item[q]
    <3> DEFINE S == {r}
    <3>1. /\ S \in SUBSET Request /\ r \in S /\ Request \ {r} = Request \ S
          /\ plain = Settled(S, "handed_to_desk")
      OBVIOUS
    <3> HIDE DEF S, plain
    <3>2. /\ plain \in [Request -> Item]
          /\ \A q \in S : /\ plain[q].state = "handed_to_desk" /\ plain[q].at = now
                          /\ plain[q].missed = 0
                          /\ plain[q].macWait = (sock[q] /\ "handed_to_desk" \in MacDialog)
          /\ \A q \in Request \ S : plain[q] = item[q]
      BY <1>0, <2>2, <3>1, SettledItems
    <3>3. plain[r].macWait BY <2>1, <2>2, <3>1, <3>2
    <3> QED BY <3>1, <3>2, <3>3
  <2> HIDE DEF plain
  <2>4. /\ i \in [Request -> Item]
        /\ i[r].state = "handed_to_desk" /\ i[r].at = now /\ i[r].missed = 0
        /\ \A q \in Request \ {r} : i[q] = item[q]
    BY <2>3 DEF Item
  <2>5. i[r].macWait = plain[r].macWait BY <2>3 DEF Item
  <2> HIDE DEF i
  <2>6. /\ reply' \in [Request -> Choice \cup {"none", "nothing", "cancel"}]
        /\ sock' \in [Request -> BOOLEAN]
        /\ ~sock'[r] /\ reply'[r] = "nothing"
        /\ \A q \in Request \ {r} : sock'[q] = sock[q] /\ reply'[q] = reply[q]
    <3>1. {r} \in SUBSET Request OBVIOUS
    <3>2. /\ reply' \in [Request -> Choice \cup {"none", "nothing", "cancel"}]
          /\ sock' \in [Request -> BOOLEAN]
          /\ \A q \in {r} : ~sock'[q] /\ reply'[q] = (IF sock[q] THEN "nothing" ELSE reply[q])
          /\ \A q \in Request \ {r} : sock'[q] = sock[q] /\ reply'[q] = reply[q]
      BY <1>0, <2>1, <3>1, WritesEffect
    <3> QED BY <2>1, <3>2
  <2>7. /\ told' \in [Request -> SUBSET (Choice \cup {"nothing", "none", "cancel"})]
        /\ told'[r] = told[r] \cup {"nothing"}
        /\ \A q \in Request \ {r} : told'[q] = told[q]
    BY <1>0, <2>1 DEF TypeOK
  <2>8. /\ handed' \in [Request -> Time \cup {Never}]
        /\ handed'[r] = handed[r] \/ handed'[r] = now
        /\ \A q \in Request \ {r} : handed'[q] = handed[q]
    BY <1>0, <2>1, ShownEffect
  <2>9. Resolved(i[r], r)
    BY <1>1, <2>1, <2>2, <2>3, <2>4, <2>5, <2>6, <2>7, <2>8 DEF Resolved
  <2>10. \A q \in Request \ {r} : Untouched(i[q], q) BY <2>4, <2>6, <2>7, <2>8 DEF Untouched
  <2>11. streak' \in 0 .. 1 /\ \A q \in Request : i[q].missed # 0 => streak' = 1
    BY <2>1, <2>4, StreakKept
  <2>12. events' \in Seq(Event) /\ EventInv' /\ poll' \in BOOLEAN
    BY <1>1 DEF IInv, TypeOK, EventInv, sessionVars
  <2>13. UNCHANGED <<shape, mac, now, restarts>> BY <1>1 DEF sessionVars, worldVars
  <2>14. \A q \in Request : Resolved(i[q], q) \/ Untouched(i[q], q) BY <2>9, <2>10
  <2> QED BY <2>1, <2>4, <2>6, <2>7, <2>8, <2>11, <2>12, <2>13, <2>14, ResolutionKeeps
<1> QED BY <1>2, <1>3

LEMMA CancelSessionKeeps == ASSUME IInv, CancelSession PROVE IInv'
<1> DEFINE held == Pending(item)
           denied == {r \in held : sock[r]}
           settled == Settled(held, "hook_gone")
           i == [r \in Request |-> IF r \in denied THEN Code("answered") ELSE settled[r]]
<1>0. TypeOK BY DEF IInv
<1>1. /\ Keeps(i) /\ Writes(held, "cancel") /\ streak' = 0
      /\ UNCHANGED <<sessionVars, poll, worldVars, histVars>>
  BY DEF CancelSession
<1>2. held \in SUBSET Request /\ \A r \in held : item[r].state = "pending" BY PendingIs
<1>3. /\ settled \in [Request -> Item]
      /\ \A r \in held : /\ settled[r].state = "hook_gone" /\ settled[r].at = now
                         /\ settled[r].missed = 0
                         /\ settled[r].macWait = (sock[r] /\ "hook_gone" \in MacDialog)
      /\ \A r \in Request \ held : settled[r] = item[r]
  <2>1. "hook_gone" \in Unanswered BY DEF Unanswered
  <2> QED BY <1>0, <1>2, <2>1, SettledItems
<1>4. /\ Code("answered") \in Item /\ Code("answered").state = "answered"
      /\ Code("answered").at = now /\ Code("answered").missed = 0
      /\ ~Code("answered").macWait
  <2>1. "answered" \in Settlement BY DEF Settlement
  <2> QED BY <1>0, <2>1, CodeItem
<1> HIDE DEF settled
<1>5. /\ i \in [Request -> Item]
      /\ \A r \in held : /\ i[r].state \in {"answered", "hook_gone"} /\ i[r].at = now
                         /\ i[r].missed = 0 /\ ~i[r].macWait
      /\ \A r \in Request \ held : i[r] = item[r]
  <2>1. "hook_gone" \notin MacDialog BY DEF MacDialog
  <2>2. \A r \in held : ~settled[r].macWait BY <1>3, <2>1
  <2> QED BY <1>2, <1>3, <1>4, <2>2
<1> HIDE DEF i
<1>6. /\ reply' \in [Request -> Choice \cup {"none", "nothing", "cancel"}]
      /\ sock' \in [Request -> BOOLEAN]
      /\ \A r \in held : ~sock'[r] /\ reply'[r] = (IF sock[r] THEN "cancel" ELSE reply[r])
      /\ \A r \in Request \ held : sock'[r] = sock[r] /\ reply'[r] = reply[r]
  BY <1>0, <1>1, <1>2, WritesEffect
<1>7. /\ UNCHANGED <<told, handed, shape, mac, events, poll, now, restarts>>
  BY <1>1 DEF histVars, sessionVars, worldVars
<1>8. \A r \in held : Resolved(i[r], r)
  BY <1>2, <1>5, <1>6, <1>7 DEF Resolved, Settlement, Unanswered
<1>9. \A r \in Request \ held : Untouched(i[r], r) BY <1>5, <1>6, <1>7 DEF Untouched
<1>10. \A r \in Request : Resolved(i[r], r) \/ Untouched(i[r], r) BY <1>8, <1>9
<1>11. \A r \in Request : i[r].missed = 0
  BY <1>2, <1>5, PendingIs DEF IInv, DeskInv, Pending, InState
<1>12. /\ told' \in [Request -> SUBSET (Choice \cup {"nothing", "none", "cancel"})]
       /\ handed' \in [Request -> Time \cup {Never}] /\ poll' \in BOOLEAN
       /\ events' \in Seq(Event) /\ EventInv'
  BY <1>7 DEF IInv, TypeOK, EventInv
<1>13. streak' \in 0 .. 1 /\ \A r \in Request : i[r].missed # 0 => streak' = 1
  BY <1>1, <1>11
<1>14. UNCHANGED <<shape, mac, now, restarts>> BY <1>7
<1> QED BY <1>1, <1>5, <1>6, <1>10, <1>12, <1>13, <1>14, ResolutionKeeps

-----------------------------------------------------------------------------
(* The desk poll *)

LEMMA HandsBackKeeps ==
  ASSUME IInv, NEW s \in 0 .. 1, HandsBack(s), poll' \in BOOLEAN,
         UNCHANGED <<sessionVars, worldVars, told>>
  PROVE  IInv'
<1> DEFINE back == {r \in Pending(item) : ~Held(r)}
           i == Settled(back, "handed_to_desk")
<1>0. TypeOK BY DEF IInv
<1>1. /\ Becomes(i, back) /\ streak' = Streak(i, s)
      /\ Writes(back, "nothing") /\ ShownAtMac(back, "handed_to_desk")
  BY DEF HandsBack
<1>2. "handed_to_desk" \in Unanswered BY DEF Unanswered, MacDialog
<1>3. back \in SUBSET Pending(item) OBVIOUS
<1>4. \A r \in Request \ back : item[r].missed = 0
  BY DEF IInv, DeskInv, Pending, InState
<1> HIDE DEF back
<1>5. /\ i \in [Request -> Item]
      /\ \A r \in Request : i[r].missed # 0 => i[r] = item[r]
      /\ \A r \in Request : Resolved(i[r], r) \/ Untouched(i[r], r)
      /\ reply' \in [Request -> Choice \cup {"none", "nothing", "cancel"}]
      /\ sock' \in [Request -> BOOLEAN]
      /\ told' \in [Request -> SUBSET (Choice \cup {"nothing", "none", "cancel"})]
      /\ handed' \in [Request -> Time \cup {Never}]
  BY <1>1, <1>2, <1>3, SettledResolved
<1>6. \A r \in back : i[r].missed = 0
  <2>1. back \in SUBSET Request BY <1>3, PendingIs
  <2> QED BY <1>0, <1>2, <2>1, SettledItems
<1> HIDE DEF i
<1>7. \A r \in Request : i[r].missed = 0 BY <1>4, <1>5, <1>6
<1>8. streak' \in 0 .. 1 BY <1>1 DEF Streak
<1>9. events' \in Seq(Event) /\ EventInv' BY DEF IInv, TypeOK, EventInv, sessionVars
<1>10. UNCHANGED <<shape, mac, now, restarts>> BY DEF sessionVars, worldVars
<1> QED BY <1>1, <1>5, <1>7, <1>8, <1>9, <1>10, ResolutionKeeps

\* A step that changes nothing of the items but what they show and how many reads
\* failed, and no other variable of the broker but the poll and its streak.
LEMMA ReadKeeps ==
  ASSUME IInv, item' \in [Request -> Item],
         \A r \in Request :
           /\ item'[r].state = item[r].state /\ item'[r].start = item[r].start
           /\ item'[r].deadline = item[r].deadline /\ item'[r].at = item[r].at
           /\ item'[r].macWait = item[r].macWait /\ item'[r].back = item[r].back
           /\ item'[r].missed # 0 =>
                item[r].state = "pending" /\ ~Held(r) /\ item'[r].missed = 1 /\ streak' = 1,
         poll' \in BOOLEAN, streak' \in 0 .. 1,
         UNCHANGED <<shape, sock, reply, mac, horizon, events, now, restarts, told, handed>>
  PROVE  IInv'
<1> USE DEF IInv
<1>1. TypeOK' BY DEF TypeOK
<1>2. HookInv' BY DEF HookInv
<1>3. TimeInv' BY DEF TimeInv
<1>4. DeskInv' BY DEF DeskInv, Held
<1>5. MacInv' BY DEF MacInv, Held
<1>6. EventInv' BY DEF EventInv
<1> QED BY <1>1, <1>2, <1>3, <1>4, <1>5, <1>6

LEMMA WaitUnchanged ==
  ASSUME NEW i \in Item, NEW n
  PROVE  /\ [i EXCEPT !.visible = TRUE].macWait = i.macWait
         /\ [i EXCEPT !.missed = n].macWait = i.macWait
<1> QED BY DEF Item

LEMMA ReadItem ==
  ASSUME NEW i \in Item, NEW n \in 0 .. 2
  PROVE  [i EXCEPT !.visible = TRUE] \in Item /\ [i EXCEPT !.missed = n] \in Item
<1> QED BY DEF Item

LEMMA PollResumesKeeps == ASSUME IInv, PollResumes PROVE IInv'
<1>0. TypeOK /\ DeskInv BY DEF IInv
<1>1. /\ poll' \in BOOLEAN /\ UNCHANGED <<sessionVars, worldVars, told>> BY DEF PollResumes
<1>2. CASE HandsBack(0) \/ HandsBack(1) BY <1>1, <1>2, HandsBackKeeps
<1>3. CASE Reveals
  <2>1. item' \in [Request -> Item]
    <3>1. 0 \in 0 .. 2 /\ \A r \in Request : item[r] \in Item BY <1>0 DEF TypeOK
    <3>2. \A r \in Request :
            [item[r] EXCEPT !.visible = TRUE] \in Item /\ [item[r] EXCEPT !.missed = 0] \in Item
      BY <3>1, ReadItem
    <3> QED BY <1>3, <3>2 DEF Reveals
  <2>2. ASSUME NEW r \in Request
        PROVE  /\ item'[r].state = item[r].state /\ item'[r].start = item[r].start
               /\ item'[r].deadline = item[r].deadline /\ item'[r].at = item[r].at
               /\ item'[r].back = item[r].back
               /\ item'[r].missed # 0 => item'[r].missed = item[r].missed /\ Held(r)
    BY <1>0, <1>3 DEF Reveals, TypeOK, Item
  <2>3. ASSUME NEW r \in Request PROVE item'[r].macWait = item[r].macWait
    <3>1. item[r] \in Item BY <1>0 DEF TypeOK
    <3>2. \/ item'[r] = [item[r] EXCEPT !.visible = TRUE]
          \/ item'[r] = [item[r] EXCEPT !.missed = 0]
      BY <1>3 DEF Reveals
    <3> QED BY <3>1, <3>2, WaitUnchanged
  <2>4. \A r \in Request : item'[r].missed = 0 BY <1>0, <2>2 DEF DeskInv
  <2>5. streak' = 0 BY <1>3 DEF Reveals
  <2>6. UNCHANGED <<shape, sock, reply, mac, horizon, events, now, restarts, told, handed>>
    BY <1>1, <1>3 DEF Reveals, sessionVars, worldVars
  <2> QED BY <1>1, <2>1, <2>2, <2>3, <2>4, <2>5, <2>6, ReadKeeps
<1>4. CASE streak = 0 /\ Unread(1)
  <2>1. \A r \in Request : item[r].missed = 0 BY <1>0, <1>4 DEF DeskInv
  <2>2. item' \in [Request -> Item]
    <3>1. \A r \in Request : item[r] \in Item BY <1>0 DEF TypeOK
    <3>2. \A r \in Request : Least(2, item[r].missed + 1) \in 0 .. 2 BY <2>1 DEF Least
    <3>3. \A r \in Request : [item[r] EXCEPT !.missed = Least(2, item[r].missed + 1)] \in Item
      BY <3>1, <3>2, ReadItem
    <3> QED BY <1>4, <3>1, <3>3 DEF Unread
  <2>3. ASSUME NEW r \in Request
        PROVE  /\ item'[r].state = item[r].state /\ item'[r].start = item[r].start
               /\ item'[r].deadline = item[r].deadline /\ item'[r].at = item[r].at
               /\ item'[r].back = item[r].back
               /\ item'[r].missed # 0 =>
                    item[r].state = "pending" /\ ~Held(r) /\ item'[r].missed = 1
    BY <1>0, <1>4, <2>1 DEF Unread, TypeOK, Item, Least
  <2>4. ASSUME NEW r \in Request PROVE item'[r].macWait = item[r].macWait
    <3>1. item[r] \in Item BY <1>0 DEF TypeOK
    <3>2. \/ item'[r] = item[r]
          \/ item'[r] = [item[r] EXCEPT !.missed = Least(2, item[r].missed + 1)]
      BY <1>4 DEF Unread
    <3> QED BY <3>1, <3>2, WaitUnchanged
  <2>5. streak' = 1 BY <1>4 DEF Unread
  <2>6. UNCHANGED <<shape, sock, reply, mac, horizon, events, now, restarts, told, handed>>
    BY <1>1, <1>4 DEF Unread, sessionVars, worldVars
  <2> QED BY <1>1, <2>2, <2>3, <2>4, <2>5, <2>6, ReadKeeps
<1> QED BY <1>2, <1>3, <1>4 DEF PollResumes

-----------------------------------------------------------------------------
(* Events, and the end of what they are about *)

LEMMA EventTail ==
  ASSUME IInv, events # <<>>, events' = Tail(events), UNCHANGED mac
  PROVE  events' \in Seq(Event) /\ EventInv'
<1>1. events \in Seq(Event) BY DEF IInv, TypeOK
<1>2. events' \in Seq(Event) /\ Len(events') = Len(events) - 1 BY <1>1
<1>3. ASSUME NEW k \in 1 .. Len(events')
      PROVE  k + 1 \in 1 .. Len(events) /\ events'[k] = events[k + 1]
  BY <1>1, <1>2
<1> QED BY <1>2, <1>3 DEF IInv, EventInv

LEMMA OverEffect ==
  ASSUME TypeOK, NEW S \in SUBSET Request, Over(S)
  PROVE  /\ mac' \in [Request -> {"idle", "waiting", "over"}]
         /\ handed' \in [Request -> Time \cup {Never}]
         /\ \A r \in Request : /\ mac[r] = "over" => mac'[r] = "over"
                               /\ mac[r] = "idle" <=> mac'[r] = "idle"
                               /\ r \in S /\ mac[r] # "idle" => mac'[r] = "over"
                               /\ handed'[r] = (IF r \in S THEN Never ELSE handed[r])
<1> QED BY DEF Over, TypeOK

\* An item the Mac no longer waits on.
LEMMA ClearedItem ==
  ASSUME NEW i \in Item
  PROVE  LET j == [i EXCEPT !.macWait = FALSE]
         IN /\ j \in Item /\ ~j.macWait /\ j.state = i.state /\ j.at = i.at
            /\ j.missed = i.missed /\ j.start = i.start
            /\ j.deadline = i.deadline /\ j.back = i.back
<1>1. FALSE \in BOOLEAN OBVIOUS
<1>2. [i EXCEPT !.macWait = FALSE] \in Item BY <1>1 DEF Item
<1>3. ~[i EXCEPT !.macWait = FALSE].macWait BY DEF Item
<1>4. LET j == [i EXCEPT !.macWait = FALSE]
      IN /\ j.state = i.state /\ j.at = i.at /\ j.missed = i.missed /\ j.start = i.start
         /\ j.deadline = i.deadline /\ j.back = i.back
  BY DEF Item
<1> QED BY <1>2, <1>3, <1>4

LEMMA ObserveKeeps == ASSUME IInv, Observe PROVE IInv'
<1> DEFINE e == Head(events)
           cleared == {r \in e.upto : item[r].macWait /\ MovedPast(r, e, TRUE)}
           past == {r \in e.upto : item[r].state = "pending" /\ MovedPast(r, e, FALSE)}
           settled == Settled(past, "retracted")
           i == [r \in Request |-> IF r \in cleared THEN [item[r] EXCEPT !.macWait = FALSE]
                                                   ELSE settled[r]]
<1>0. TypeOK /\ EventInv /\ DeskInv BY DEF IInv
<1>1. /\ events # <<>> /\ events' = Tail(events)
      /\ Becomes(i, past) /\ Writes(past, "nothing") /\ streak' = Streak(i, streak)
      /\ UNCHANGED <<shape, mac, poll, now, restarts, told, handed>>
  BY DEF Observe, worldVars, histVars
<1>2. e \in Event /\ e = events[1] /\ 1 \in 1 .. Len(events) BY <1>0, <1>1 DEF TypeOK
<1>3. e.upto \subseteq Request BY <1>2 DEF Event
<1>4. /\ past \in SUBSET Request /\ \A r \in past : item[r].state = "pending"
      /\ cleared \in SUBSET Request /\ \A r \in cleared : item[r].macWait
  BY <1>3
<1>5. \A r \in cleared : mac[r] = "over" \/ (shape[r].kind = "question" /\ ~Held(r))
  BY <1>0, <1>2 DEF MovedPast, EventInv
<1> HIDE DEF e, cleared, past
<1>6. /\ settled \in [Request -> Item]
      /\ \A r \in past : /\ settled[r].state = "retracted" /\ settled[r].at = now
                         /\ settled[r].missed = 0
                         /\ settled[r].macWait = (sock[r] /\ "retracted" \in MacDialog)
      /\ \A r \in Request \ past : settled[r] = item[r]
  <2>1. "retracted" \in Unanswered BY DEF Unanswered
  <2> QED BY <1>0, <1>4, <2>1, SettledItems
<1> HIDE DEF settled
<1>7. \A r \in past : r \notin cleared BY <1>0, <1>4 DEF TypeOK, MacDialog
<1>8. \A r \in Request :
        LET j == [item[r] EXCEPT !.macWait = FALSE]
        IN j \in Item /\ j.missed = item[r].missed /\ j.state = item[r].state
  <2>1. \A r \in Request : item[r] \in Item BY <1>0 DEF TypeOK
  <2> QED BY <2>1, ClearedItem
<1>9. /\ i \in [Request -> Item]
      /\ \A r \in past : i[r] = settled[r]
      /\ \A r \in cleared : i[r] = [item[r] EXCEPT !.macWait = FALSE]
      /\ \A r \in (Request \ past) \ cleared : i[r] = item[r]
  BY <1>4, <1>6, <1>7, <1>8
<1> HIDE DEF i
<1>10. /\ reply' \in [Request -> Choice \cup {"none", "nothing", "cancel"}]
       /\ sock' \in [Request -> BOOLEAN]
       /\ \A r \in past : ~sock'[r] /\ reply'[r] = (IF sock[r] THEN "nothing" ELSE reply[r])
       /\ \A r \in Request \ past : sock'[r] = sock[r] /\ reply'[r] = reply[r]
  BY <1>0, <1>1, <1>4, WritesEffect
<1>11. ASSUME NEW r \in past PROVE Resolved(i[r], r)
  <2>1. "retracted" \notin MacDialog /\ "retracted" \in Settlement
    BY DEF MacDialog, Settlement, Unanswered
  <2>2. ~i[r].macWait BY <1>6, <1>9, <2>1
  <2>3. /\ i[r].state = "retracted" /\ i[r].at = now /\ i[r].missed = 0 BY <1>6, <1>9
  <2> QED BY <1>1, <1>4, <1>10, <2>1, <2>2, <2>3 DEF Resolved
<1>12. \A r \in Request \ past : Untouched(i[r], r)
  BY <1>1, <1>5, <1>9, <1>10 DEF Untouched
<1>13. \A r \in Request : Resolved(i[r], r) \/ Untouched(i[r], r) BY <1>11, <1>12
<1>14. ASSUME NEW r \in Request, i[r].missed # 0
       PROVE  i[r].missed = item[r].missed /\ i[r].state = item[r].state
  <2>1. r \notin past BY <1>6, <1>9, <1>14
  <2> QED BY <1>8, <1>9, <2>1
<1>15. streak' \in 0 .. 1 /\ \A r \in Request : i[r].missed # 0 => streak' = 1
  BY <1>1, <1>9, <1>14, StreakKept
<1>16. events' \in Seq(Event) /\ EventInv' BY <1>1, EventTail
<1>17. /\ told' \in [Request -> SUBSET (Choice \cup {"nothing", "none", "cancel"})]
       /\ handed' \in [Request -> Time \cup {Never}] /\ poll' \in BOOLEAN
  BY <1>0, <1>1 DEF TypeOK
<1>18. UNCHANGED <<shape, mac, now, restarts>> BY <1>1
<1> QED BY <1>1, <1>9, <1>10, <1>13, <1>15, <1>16, <1>17, <1>18, ResolutionKeeps

LEMMA SessionEndsKeeps == ASSUME IInv, SessionEnds PROVE IInv'
<1> DEFINE held == {r \in Pending(item) : Held(r)}
           i == [r \in Request |-> IF r \in held THEN Code("retracted")
                                                ELSE [item[r] EXCEPT !.macWait = FALSE]]
<1>0. TypeOK /\ HookInv /\ TimeInv /\ DeskInv /\ MacInv /\ EventInv BY DEF IInv
<1>1. /\ Over(Request) /\ Becomes(i, held) /\ streak' = Streak(i, streak)
      /\ sock' = [r \in Request |-> FALSE]
      /\ UNCHANGED <<shape, events, reply, poll, now, restarts, told>>
  BY DEF SessionEnds, worldVars
<1>2. held \in SUBSET Request BY PendingIs
<1>3. /\ Code("retracted") \in Item /\ Code("retracted").state = "retracted"
      /\ Code("retracted").at = now /\ Code("retracted").missed = 0
      /\ ~Code("retracted").macWait
  <2>1. "retracted" \in Settlement BY DEF Settlement, Unanswered
  <2> QED BY <1>0, <2>1, CodeItem
<1>4. \A r \in Request :
        LET j == [item[r] EXCEPT !.macWait = FALSE]
        IN /\ j \in Item /\ j.state = item[r].state /\ j.at = item[r].at
           /\ j.missed = item[r].missed /\ j.start = item[r].start
           /\ j.deadline = item[r].deadline /\ j.back = item[r].back
  <2>1. \A r \in Request : item[r] \in Item BY <1>0 DEF TypeOK
  <2> QED BY <2>1, ClearedItem
<1>5. \A r \in Request : ~[item[r] EXCEPT !.macWait = FALSE].macWait
  <2>1. \A r \in Request : item[r] \in Item BY <1>0 DEF TypeOK
  <2> QED BY <2>1, ClearedItem
<1>6. \A r \in Request :
        /\ ~i[r].macWait
        /\ \/ /\ i[r].state = "retracted" /\ i[r].at = now /\ i[r].missed = 0
              /\ item[r].state = "pending"
           \/ /\ i[r].state = item[r].state /\ i[r].at = item[r].at
              /\ i[r].missed = item[r].missed /\ i[r].start = item[r].start
              /\ i[r].deadline = item[r].deadline /\ i[r].back = item[r].back
  BY <1>3, <1>4, <1>5, PendingIs
<1>7. i \in [Request -> Item] BY <1>3, <1>4
<1> HIDE DEF i, held
<1>8. /\ item' \in [Request -> Item]
      /\ horizon' \in Time /\ horizon <= horizon'
      /\ horizon' \in {horizon} \cup {i[r].at : r \in Request}
      /\ \A r \in Request : Kept(i, r)
  BY <1>0, <1>1, <1>7, KeepsItems
<1>9. /\ Closed("gone").state = "gone" /\ ~Closed("gone").macWait
      /\ Closed("gone").missed = 0 /\ Closed("gone").at = 0
  BY ClosedItem
<1>10. /\ mac' \in [Request -> {"idle", "waiting", "over"}]
       /\ handed' \in [Request -> Time \cup {Never}]
       /\ \A r \in Request : /\ mac[r] = "over" => mac'[r] = "over"
                             /\ mac[r] = "idle" <=> mac'[r] = "idle"
                             /\ handed'[r] = Never
  <2>1. Request \in SUBSET Request OBVIOUS
  <2> QED BY <1>0, <1>1, <2>1, OverEffect
<1>11. streak' \in 0 .. 1 /\ \A r \in Request : i[r].missed # 0 => streak' = 1
  BY <1>1, <1>6, <1>7, StreakKept
<1>12. \A r \in Request : ~item'[r].macWait BY <1>6, <1>8, <1>9 DEF Kept
<1>13. sock' \in [Request -> BOOLEAN] /\ \A r \in Request : ~sock'[r] BY <1>1
<1>14. TypeOK' BY <1>0, <1>1, <1>8, <1>10, <1>11, <1>12, <1>13 DEF TypeOK
<1>15. HookInv' BY <1>0, <1>1, <1>6, <1>8, <1>9, <1>13 DEF HookInv, Kept
<1>16. TimeInv' BY <1>0, <1>1, <1>6, <1>8, <1>9 DEF TimeInv, Kept
<1>17. DeskInv'
  <2>1. ASSUME NEW r \in Request, item'[r].missed # 0 PROVE item'[r] = i[r]
    BY <1>8, <1>9, <2>1 DEF Kept
  <2> QED BY <1>0, <1>1, <1>6, <1>11, <2>1 DEF DeskInv, Held
<1>18. MacInv'
  <2>1. /\ now \in Int /\ 0 <= now /\ horizon \in Int
        /\ \A r \in Request : item[r].at \in Int /\ i[r].at \in Int
    BY <1>0, <1>7 DEF TypeOK, Time, Item
  <2>2. \A r \in Request : i[r].at <= now BY <1>0, <1>6, <2>1 DEF MacInv
  <2>3. horizon' <= now BY <1>0, <1>8, <2>2 DEF MacInv
  <2>4. \A r \in Request : item'[r].at <= now BY <1>8, <1>9, <2>1, <2>2 DEF Kept
  <2>5. \A r \in Request : item'[r].state = "none" <=> mac'[r] = "idle"
    <3>1. \A r \in Request : item'[r].state = "none" <=> item[r].state = "none"
      BY <1>6, <1>8, <1>9 DEF Kept, Settlement, Unanswered, MacDialog
    <3> QED BY <1>0, <1>10, <3>1 DEF MacInv
  <2>6. Never <= now BY <2>1 DEF Never
  <2> QED BY <1>1, <1>10, <2>3, <2>4, <2>5, <2>6 DEF MacInv
<1>19. EventInv'
  <2>1. \A k \in 1 .. Len(events) : events[k].about \subseteq Request /\ events[k].upto \subseteq Request
    <3>1. \A k \in 1 .. Len(events) : events[k] \in Event BY <1>0 DEF TypeOK
    <3> QED BY <3>1 DEF Event
  <2> QED BY <1>0, <1>1, <1>10, <2>1 DEF EventInv
<1> QED BY <1>14, <1>15, <1>16, <1>17, <1>18, <1>19 DEF IInv

LEMMA EventAppended ==
  ASSUME IInv, NEW e \in Event, events' = Append(events, e),
         \A r \in Request : mac[r] = "over" => mac'[r] = "over",
         \A r \in e.about : mac'[r] = "over",
         e.what = "turn" => \A r \in e.upto : mac'[r] = "over"
  PROVE  events' \in Seq(Event) /\ EventInv'
<1>1. events \in Seq(Event) BY DEF IInv, TypeOK
<1>2. /\ events' \in Seq(Event) /\ Len(events') = Len(events) + 1
      /\ events'[Len(events) + 1] = e
  BY <1>1
<1>3. \A k \in 1 .. Len(events) : events'[k] = events[k] BY <1>1
<1>4. ASSUME NEW k \in 1 .. Len(events)
      PROVE  events[k].about \subseteq Request /\ events[k].upto \subseteq Request
  <2>1. events[k] \in Event BY <1>1
  <2> QED BY <2>1 DEF Event
<1>5. ASSUME NEW k \in 1 .. Len(events')
      PROVE  /\ \A r \in events'[k].about : mac'[r] = "over"
             /\ events'[k].what = "turn" => \A r \in events'[k].upto : mac'[r] = "over"
  <2>1. CASE k = Len(events) + 1 BY <1>2, <2>1
  <2>2. CASE k # Len(events) + 1
    <3>1. k \in 1 .. Len(events) BY <1>1, <1>2, <2>2
    <3>2. events'[k] = events[k] BY <1>3, <3>1
    <3>3. /\ \A r \in events[k].about : mac[r] = "over"
          /\ events[k].what = "turn" => \A r \in events[k].upto : mac[r] = "over"
      BY <3>1 DEF IInv, EventInv
    <3> QED BY <1>4, <3>1, <3>2, <3>3
  <2> QED BY <2>1, <2>2
<1> QED BY <1>2, <1>5 DEF EventInv

LEMMA NoneIdle ==
  ASSUME IInv, NEW S, S = Started
  PROVE  S \subseteq Request /\ \A r \in S : mac[r] # "idle"
<1> QED BY DEF Started, IInv, MacInv

\* The session goes on over the requests S.
LEMMA OverKeeps ==
  ASSUME IInv, NEW S \in SUBSET Request, Over(S),
         UNCHANGED <<shape, item, reply, poll, streak, horizon, now, restarts, told>>,
         sock' \in [Request -> BOOLEAN], \A r \in Request : sock'[r] => sock[r],
         events' \in Seq(Event), EventInv'
  PROVE  IInv'
<1>0. TypeOK /\ HookInv /\ TimeInv /\ DeskInv /\ MacInv BY DEF IInv
<1>1. /\ mac' \in [Request -> {"idle", "waiting", "over"}]
      /\ handed' \in [Request -> Time \cup {Never}]
      /\ \A r \in Request : /\ mac[r] = "over" => mac'[r] = "over"
                            /\ mac[r] = "idle" <=> mac'[r] = "idle"
                            /\ handed'[r] = (IF r \in S THEN Never ELSE handed[r])
  BY <1>0, OverEffect
<1>2. TypeOK' BY <1>0, <1>1 DEF TypeOK
<1>3. HookInv' BY <1>0 DEF HookInv
<1>4. TimeInv' BY <1>0 DEF TimeInv
<1>5. DeskInv' BY <1>0 DEF DeskInv, Held
<1>6. MacInv'
  <2>1. Never <= now BY <1>0 DEF TypeOK, Time, Never
  <2> QED BY <1>0, <1>1, <2>1 DEF MacInv, Held
<1> QED BY <1>2, <1>3, <1>4, <1>5, <1>6 DEF IInv

LEMMA DecidedKeeps ==
  ASSUME IInv, NEW r \in Request, NEW what \in {"ran", "denied"}, Decided(r, what)
  PROVE  IInv'
<1> DEFINE e == [what |-> what, about |-> {r}, upto |-> Started]
<1>0. TypeOK BY DEF IInv
<1>1. /\ Over({r}) /\ mac[r] = "waiting" /\ events' = Append(events, e)
      /\ sock' = [sock EXCEPT ![r] = FALSE]
      /\ UNCHANGED <<shape, item, reply, poll, streak, horizon, now, restarts, told>>
  BY DEF Decided, Spools, worldVars
<1>2. sock' \in [Request -> BOOLEAN] /\ \A q \in Request : sock'[q] => sock[q]
  BY <1>0, <1>1 DEF TypeOK
<1>3. \A q \in Request : mac[q] = "over" => mac'[q] = "over" BY <1>0, <1>1, OverEffect
<1>4. mac'[r] = "over"
  <2>1. {r} \in SUBSET Request OBVIOUS
  <2> QED BY <1>1 DEF Over
<1>5. e \in Event
  <2>1. Started \subseteq Request BY NoneIdle
  <2> QED BY <2>1 DEF Event
<1>6. e.about = {r} /\ e.what # "turn" OBVIOUS
<1> HIDE DEF e
<1>7. events' \in Seq(Event) /\ EventInv' BY <1>1, <1>3, <1>4, <1>5, <1>6, EventAppended
<1>8. {r} \in SUBSET Request OBVIOUS
<1> QED BY <1>1, <1>2, <1>7, <1>8, OverKeeps

LEMMA TurnEndsKeeps == ASSUME IInv, TurnEnds PROVE IInv'
<1> DEFINE e == [what |-> "turn", about |-> {}, upto |-> Started]
<1>0. TypeOK BY DEF IInv
<1>1. /\ Over(Request) /\ events' = Append(events, e)
      /\ UNCHANGED <<shape, item, sock, reply, poll, streak, horizon, now, restarts, told>>
  BY DEF TurnEnds, Spools, worldVars
<1>2. sock' \in [Request -> BOOLEAN] /\ \A q \in Request : sock'[q] => sock[q]
  BY <1>0, <1>1 DEF TypeOK
<1>3. Request \in SUBSET Request OBVIOUS
<1>4. \A q \in Request : /\ mac[q] = "over" => mac'[q] = "over"
                         /\ mac[q] # "idle" => mac'[q] = "over"
  BY <1>0, <1>1, <1>3, OverEffect
<1>5. Started \subseteq Request /\ \A q \in Started : mac[q] # "idle" BY NoneIdle
<1>6. e \in Event
  <2>1. {} \in SUBSET Request /\ Started \in SUBSET Request BY <1>5
  <2> QED BY <2>1 DEF Event
<1>8. e.about = {} /\ e.upto = Started OBVIOUS
<1> HIDE DEF e
<1>7. events' \in Seq(Event) /\ EventInv'
  <2>1. \A q \in e.about : mac'[q] = "over" BY <1>8
  <2>2. \A q \in e.upto : mac'[q] = "over" BY <1>4, <1>5, <1>8
  <2>3. \A q \in Request : mac[q] = "over" => mac'[q] = "over" BY <1>4
  <2> QED BY <1>1, <1>6, <2>1, <2>2, <2>3, EventAppended
<1> QED BY <1>1, <1>2, <1>3, <1>7, OverKeeps

LEMMA EventLostKeeps == ASSUME IInv, EventLost PROVE IInv'
<1>1. /\ events # <<>> /\ events' = Tail(events)
      /\ UNCHANGED <<shape, item, sock, reply, mac, poll, streak, horizon, now, restarts,
                     told, handed>>
  BY DEF EventLost, worldVars, histVars
<1>2. events' \in Seq(Event) /\ EventInv' BY <1>1, EventTail
<1>3. TypeOK' BY <1>1, <1>2 DEF IInv, TypeOK
<1>4. HookInv' BY <1>1 DEF IInv, HookInv
<1>5. TimeInv' BY <1>1 DEF IInv, TimeInv
<1>6. DeskInv' BY <1>1 DEF IInv, DeskInv, Held
<1>7. MacInv' BY <1>1 DEF IInv, MacInv, Held
<1> QED BY <1>2, <1>3, <1>4, <1>5, <1>6, <1>7 DEF IInv

-----------------------------------------------------------------------------
(* The hook's steps *)

\* A step of one request, before it is settled, that only the hook may feel.
LEMMA HookStepKeeps ==
  ASSUME IInv, NEW r \in Request, NEW i \in Item, NEW s \in BOOLEAN,
         NEW what \in Choice \cup {"none", "nothing", "cancel"},
         item' = [item EXCEPT ![r] = i], sock' = [sock EXCEPT ![r] = s],
         reply' = [reply EXCEPT ![r] = what],
         mac' \in [Request -> {"idle", "waiting", "over"}],
         mac' = mac \/ (item[r].state = "none" /\ mac' = [mac EXCEPT ![r] = "waiting"]),
         UNCHANGED <<shape, poll, streak, horizon, events, now, restarts, told, handed>>,
         what # reply[r] => told[r] = {},
         s => what = "none" /\ told[r] = {},
         i.state \in {"reading", "pending", "gone"},
         mac'[r] # "idle",
         i.state \in {"reading", "pending"} =>
           /\ handed[r] = Never /\ i.deadline <= i.start + shape[r].wait - Margin
           /\ now <= i.deadline + Late /\ (i.state = "reading" => now < i.deadline),
         i.macWait => i = item[r] /\ what = reply[r],
         i.missed # 0 => i = item[r],
         i # item[r] => item[r].state \in {"none", "reading"} /\ i.at \in {0, item[r].at}
  PROVE  IInv'
<1>0. TypeOK /\ HookInv /\ TimeInv /\ DeskInv /\ MacInv /\ EventInv BY DEF IInv
<1>1. /\ item' \in [Request -> Item] /\ item'[r] = i
      /\ \A q \in Request \ {r} : item'[q] = item[q]
  BY <1>0 DEF TypeOK
<1>2. /\ sock' \in [Request -> BOOLEAN] /\ sock'[r] = s
      /\ \A q \in Request \ {r} : sock'[q] = sock[q]
  BY <1>0 DEF TypeOK
<1>3. /\ reply' \in [Request -> Choice \cup {"none", "nothing", "cancel"}] /\ reply'[r] = what
      /\ \A q \in Request \ {r} : reply'[q] = reply[q]
  BY <1>0 DEF TypeOK
<1>4. /\ \A q \in Request \ {r} : mac'[q] = mac[q]
      /\ mac'[r] = mac[r] \/ mac[r] = "idle"
  BY <1>0 DEF TypeOK, MacInv
<1>5. TypeOK'
  <2>1. \A q \in Request : item'[q].macWait => item'[q].state \in MacDialog /\ reply'[q] = "nothing"
    BY <1>0, <1>1, <1>3 DEF TypeOK
  <2> QED BY <1>0, <1>1, <1>2, <1>3, <2>1 DEF TypeOK
<1>6. HookInv' BY <1>0, <1>1, <1>2, <1>3 DEF HookInv
<1>7. TimeInv' BY <1>0, <1>1 DEF TimeInv
<1>8. DeskInv' BY <1>0, <1>1 DEF DeskInv, Held
<1>9. MacInv'
  <2>1. 0 <= now BY <1>0 DEF TypeOK, Time
  <2>2. ASSUME NEW q \in Request \ {r}
        PROVE  /\ item'[q] = item[q] /\ mac'[q] = mac[q]
    BY <1>1, <1>4
  <2>3. CASE i = item[r]
    <3>1. item'[r] = item[r] BY <1>1, <2>3
    <3>2. \A q \in Request : item'[q] = item[q] BY <2>2, <3>1
    <3>3. mac'[r] = mac[r] \/ handed[r] = Never BY <1>0, <1>4 DEF MacInv
    <3>4. \A q \in Request : mac'[q] = mac[q] \/ handed[q] = Never BY <2>2, <3>3
    <3>5. \A q \in Request : item[q].state = "none" <=> mac'[q] = "idle"
      BY <1>0, <1>1, <2>2, <2>3 DEF MacInv
    <3> QED BY <1>0, <3>2, <3>4, <3>5 DEF MacInv, Held
  <2>4. CASE i # item[r]
    <3>1. handed[r] = Never BY <1>0, <2>4 DEF MacInv
    <3>2. ASSUME NEW q \in Request
          PROVE  /\ item'[q].state \in {"none", "reading", "pending"} => handed[q] = Never
                 /\ item'[q].state = "none" <=> mac'[q] = "idle"
      BY <1>0, <1>1, <2>2, <3>1 DEF MacInv
    <3>3. \A q \in Request : item'[q].at <= now BY <1>0, <1>1, <2>1, <2>4 DEF MacInv
    <3> QED BY <1>0, <2>2, <3>1, <3>2, <3>3 DEF MacInv, Held
  <2> QED BY <2>3, <2>4
<1>10. EventInv'
  <2>1. \A q \in Request : mac[q] = "over" => mac'[q] = "over" BY <1>4
  <2>2. \A k \in 1 .. Len(events) :
          events[k].about \subseteq Request /\ events[k].upto \subseteq Request
    <3>1. \A k \in 1 .. Len(events) : events[k] \in Event BY <1>0 DEF TypeOK
    <3> QED BY <3>1 DEF Event
  <2> QED BY <1>0, <2>1, <2>2 DEF EventInv
<1> QED BY <1>5, <1>6, <1>7, <1>8, <1>9, <1>10 DEF IInv

\* How long a hold may be.
LEMMA HoldsBound ==
  ASSUME TypeOK, NEW r \in Request, NEW hold \in Holds(r)
  PROVE  /\ hold.away \in BOOLEAN /\ hold.length \in Int
         /\ hold.length <= shape[r].wait - Margin
<1>1. shape[r].wait \in {LegacyWait, LongWait}
  <2>1. shape \in [Request -> Shape] BY ShapeAssumption DEF TypeOK
  <2> QED BY <2>1 DEF Shape
<1>2. ASSUME NEW installed \in {0, LegacyWait, LongWait}
      PROVE  /\ Ceiling(installed, shape[r].wait) \in Int
             /\ Ceiling(installed, shape[r].wait) <= shape[r].wait - Margin
  BY <1>1, TimeAssumption DEF Ceiling, BaseMax, Most, Least
<1>3. ASSUME NEW installed \in {0, LegacyWait, LongWait}, NEW away \in BOOLEAN
      PROVE  /\ HoldFor(installed, shape[r].wait, away) \in Int
             /\ HoldFor(installed, shape[r].wait, away) <= shape[r].wait - Margin
  <2> DEFINE most == IF away THEN Most(Base, Away) ELSE Base
  <2>1. most \in Int BY TimeAssumption DEF Most
  <2> HIDE DEF most
  <2>2. Least(most, Ceiling(installed, shape[r].wait)) \in Int
        /\ Least(most, Ceiling(installed, shape[r].wait)) <= shape[r].wait - Margin
    <3>1. shape[r].wait - Margin \in Int BY <1>1, TimeAssumption
    <3> QED BY <1>2, <2>1, <3>1 DEF Least
  <2> QED BY <2>2 DEF HoldFor, most
<1>4. PICK read \in Polls \X {0, LegacyWait, LongWait} :
        hold = [away |-> MayHoldAway(r, read[1], read[2]),
                length |-> HoldFor(read[2], shape[r].wait, MayHoldAway(r, read[1], read[2]))]
  BY DEF Holds
<1> DEFINE away == MayHoldAway(r, read[1], read[2])
<1>5. away \in BOOLEAN BY DEF MayHoldAway
<1>6. read[2] \in {0, LegacyWait, LongWait} OBVIOUS
<1>7. hold = [away |-> away, length |-> HoldFor(read[2], shape[r].wait, away)] BY <1>4
<1> HIDE DEF away
<1>8. hold.away = away /\ hold.length = HoldFor(read[2], shape[r].wait, away) BY <1>7
<1> QED BY <1>3, <1>5, <1>6, <1>8

LEMMA AdmitKeeps == ASSUME IInv, NEW r \in Request, Admit(r) PROVE IInv'
<1>0. TypeOK /\ HookInv /\ DeskInv /\ MacInv BY DEF IInv
<1>1. PICK hold \in Holds(r), start \in Starts :
        /\ start + hold.length > now
        /\ item' = [item EXCEPT ![r].state = "reading", ![r].start = start,
                                ![r].away = hold.away, ![r].deadline = start + hold.length]
  BY DEF Admit
<1>2. /\ item[r].state = "none" /\ mac' = [mac EXCEPT ![r] = "waiting"]
      /\ sock' = [sock EXCEPT ![r] = TRUE] /\ UNCHANGED reply
      /\ UNCHANGED <<shape, poll, streak, horizon, events, now, restarts, told, handed>>
  BY DEF Admit, Asks, worldVars, histVars
<1>3. /\ hold.away \in BOOLEAN /\ hold.length \in Int
      /\ hold.length <= shape[r].wait - Margin
  BY <1>0, HoldsBound
<1>4. start \in Time /\ start \in Int /\ now \in Int
  BY <1>0, BoundAssumption DEF Starts, TypeOK, Time
<1>5. item[r] \in Item BY <1>0 DEF TypeOK
<1> DEFINE i == [item[r] EXCEPT !.state = "reading", !.start = start,
                                !.away = hold.away, !.deadline = start + hold.length]
<1>6. i \in Item
  <2>1. start + hold.length \in Int BY <1>3, <1>4
  <2> QED BY <1>3, <1>4, <1>5, <2>1 DEF Item
<1>7. /\ i.state = "reading" /\ i.start = start /\ i.deadline = start + hold.length
      /\ i.at = item[r].at /\ i.missed = item[r].missed
  BY <1>5 DEF Item
<1>8. i.macWait = item[r].macWait BY <1>5 DEF Item
<1>9. item' = [item EXCEPT ![r] = i] BY <1>1
<1> HIDE DEF i
<1>10. ~item[r].macWait /\ item[r].missed = 0 /\ reply[r] = "none" /\ told[r] = {}
       /\ handed[r] = Never
  BY <1>0, <1>2 DEF TypeOK, MacDialog, DeskInv, HookInv, MacInv
<1>11. reply' = [reply EXCEPT ![r] = "none"] BY <1>0, <1>2, <1>10 DEF TypeOK
<1>12. mac' \in [Request -> {"idle", "waiting", "over"}] /\ mac'[r] = "waiting"
  BY <1>0, <1>2 DEF TypeOK
<1>13. i.deadline <= i.start + shape[r].wait - Margin /\ now < i.deadline
       /\ now <= i.deadline + Late
  <2>1. shape[r].wait - Margin \in Int /\ shape[r].wait \in Int
    <3>1. shape \in [Request -> Shape] BY <1>0, ShapeAssumption DEF TypeOK
    <3> QED BY <3>1, TimeAssumption DEF Shape
  <2> QED BY <1>1, <1>3, <1>4, <1>7, <2>1, TimeAssumption
<1>14. /\ i.state # "none" /\ i.state # "handed_to_desk" /\ ~i.macWait /\ i.missed = 0
       /\ i.state \in {"reading", "pending", "gone"} /\ i.at \in {0, item[r].at}
  BY <1>7, <1>8, <1>10
<1> QED BY <1>2, <1>6, <1>9, <1>10, <1>11, <1>12, <1>13, <1>14, HookStepKeeps

\* What is closed without having been held.
LEMMA GoneKeeps ==
  ASSUME IInv, NEW r \in Request, NEW s \in BOOLEAN,
         NEW what \in Choice \cup {"none", "nothing", "cancel"},
         item[r].state \in {"none", "reading"},
         item' = [item EXCEPT ![r] = Closed("gone")], sock' = [sock EXCEPT ![r] = s],
         reply' = [reply EXCEPT ![r] = what],
         mac' \in [Request -> {"idle", "waiting", "over"}], mac'[r] # "idle",
         mac' = mac \/ (item[r].state = "none" /\ mac' = [mac EXCEPT ![r] = "waiting"]),
         UNCHANGED <<shape, poll, streak, horizon, events, now, restarts, told, handed>>,
         what # reply[r] => told[r] = {}, ~s
  PROVE  IInv'
<1>1. /\ Closed("gone") \in Item
      /\ Closed("gone").state = "gone" /\ ~Closed("gone").macWait /\ Closed("gone").at = 0
      /\ Closed("gone").missed = 0
  BY ClosedItem
<1> QED BY <1>1, HookStepKeeps

LEMMA RefuseKeeps == ASSUME IInv, NEW r \in Request, Refuse(r) PROVE IInv'
<1>1. /\ item[r].state = "none" /\ mac' = [mac EXCEPT ![r] = "waiting"]
      /\ item' = [item EXCEPT ![r] = Closed("gone")] /\ UNCHANGED sock
      /\ reply' = [reply EXCEPT ![r] = "nothing"]
      /\ UNCHANGED <<shape, poll, streak, horizon, events, now, restarts, told, handed>>
  BY DEF Refuse, Asks, worldVars, histVars
<1>2. ~sock[r] /\ told[r] = {} BY <1>1 DEF IInv, HookInv
<1>3. sock' = [sock EXCEPT ![r] = FALSE] BY <1>1, <1>2 DEF IInv, TypeOK
<1>4. mac' \in [Request -> {"idle", "waiting", "over"}] /\ mac'[r] # "idle"
  BY <1>1 DEF IInv, TypeOK
<1> QED BY <1>1, <1>2, <1>3, <1>4, GoneKeeps

LEMMA FastPathKeeps == ASSUME IInv, NEW r \in Request, FastPath(r) PROVE IInv'
<1>0. TypeOK /\ HookInv /\ MacInv BY DEF IInv
<1>1. /\ item[r].state = "reading" /\ item' = [item EXCEPT ![r] = Closed("gone")]
      /\ Writes({r}, "nothing")
      /\ UNCHANGED <<shape, mac, poll, streak, horizon, events, now, restarts, told, handed>>
  BY DEF FastPath, sessionVars, worldVars, histVars
<1> DEFINE what == IF sock[r] THEN "nothing" ELSE reply[r]
<1>2. reply' = [reply EXCEPT ![r] = what] /\ what \in Choice \cup {"none", "nothing", "cancel"}
  BY <1>0, <1>1 DEF Writes, TypeOK
<1>3. sock' = [sock EXCEPT ![r] = FALSE] BY <1>0, <1>1 DEF Writes, TypeOK
<1>4. what # reply[r] => told[r] = {} BY <1>0 DEF HookInv
<1>5. mac' \in [Request -> {"idle", "waiting", "over"}] /\ mac'[r] # "idle"
  BY <1>0, <1>1 DEF TypeOK, MacInv
<1> HIDE DEF what
<1> QED BY <1>1, <1>2, <1>3, <1>4, <1>5, GoneKeeps

LEMMA ParkKeeps == ASSUME IInv, NEW r \in Request, Park(r) PROVE IInv'
<1>0. TypeOK /\ HookInv /\ TimeInv /\ DeskInv /\ MacInv BY DEF IInv
<1>1. /\ item[r].state = "reading"
      /\ UNCHANGED <<shape, sock, reply, mac, poll, streak, horizon, events, now, restarts,
                     told, handed>>
  BY DEF Park, sessionVars, worldVars, histVars
<1>2. /\ reply' = [reply EXCEPT ![r] = reply[r]] /\ sock' = [sock EXCEPT ![r] = sock[r]]
      /\ sock[r] \in BOOLEAN /\ reply[r] \in Choice \cup {"none", "nothing", "cancel"}
      /\ mac' \in [Request -> {"idle", "waiting", "over"}] /\ mac' = mac /\ mac'[r] # "idle"
  BY <1>0, <1>1 DEF TypeOK, MacInv
<1>3. CASE sock[r]
  <2>1. PICK read \in Reads :
          item' = [item EXCEPT ![r] =
                     [item[r] EXCEPT !.state = "pending", !.visible = ~Held(r) \/ read = "idle"]]
    BY <1>3 DEF Park
  <2> DEFINE visible == ~Held(r) \/ read = "idle"
             i == [item[r] EXCEPT !.state = "pending", !.visible = visible]
  <2>2. visible \in BOOLEAN OBVIOUS
  <2>3. item' = [item EXCEPT ![r] = i] BY <2>1
  <2> HIDE DEF visible
  <2>4. item[r] \in Item BY <1>0 DEF TypeOK
  <2>5. i \in Item BY <2>2, <2>4 DEF Item
  <2>6. /\ i.state = "pending" /\ i.deadline = item[r].deadline /\ i.start = item[r].start
        /\ i.at = item[r].at /\ i.missed = item[r].missed
    BY <2>4 DEF Item
  <2>7. i.macWait = item[r].macWait BY <2>4 DEF Item
  <2> HIDE DEF i
  <2>8. /\ ~item[r].macWait /\ item[r].missed = 0 /\ handed[r] = Never
        /\ reply[r] = "none" /\ told[r] = {}
    BY <1>0, <1>1, <1>3 DEF TypeOK, MacDialog, DeskInv, MacInv, HookInv
  <2>9. i.deadline <= i.start + shape[r].wait - Margin BY <1>0, <1>1, <2>6 DEF TimeInv
  <2>10. now <= i.deadline + Late
    <3>1. now < item[r].deadline BY <1>0, <1>1 DEF TimeInv
    <3>2. now \in Int /\ item[r].deadline \in Int BY <1>0, <2>4 DEF TypeOK, Time, Item
    <3> QED BY <2>6, <3>1, <3>2, TimeAssumption
  <2>11. /\ i.state \in {"reading", "pending", "gone"} /\ i.state # "none"
         /\ i.state # "handed_to_desk" /\ i.state # "reading"
         /\ ~i.macWait /\ i.missed = 0 /\ i.at \in {0, item[r].at}
    BY <2>6, <2>7, <2>8
  <2> DEFINE s == sock[r]
             what == reply[r]
  <2>12. /\ s \in BOOLEAN /\ what \in Choice \cup {"none", "nothing", "cancel"}
         /\ sock' = [sock EXCEPT ![r] = s] /\ reply' = [reply EXCEPT ![r] = what]
         /\ what = reply[r] /\ what = "none" /\ told[r] = {}
    BY <1>2, <2>8
  <2> HIDE DEF s, what
  <2> QED BY <1>1, <1>2, <2>3, <2>5, <2>8, <2>9, <2>10, <2>11, <2>12, HookStepKeeps
<1>4. CASE ~sock[r]
  <2>1. item' = [item EXCEPT ![r] = Closed("gone")] BY <1>4 DEF Park
  <2> QED BY <1>1, <1>2, <1>4, <2>1, GoneKeeps
<1> QED BY <1>3, <1>4

LEMMA HookLeavesKeeps == ASSUME IInv, NEW r \in Request, HookLeaves(r) PROVE IInv'
<1>1. /\ sock' = [sock EXCEPT ![r] = FALSE]
      /\ UNCHANGED <<shape, item, reply, mac, poll, streak, horizon, events, now, restarts,
                     told, handed>>
  BY DEF HookLeaves, sessionVars, worldVars, histVars
<1>2. TypeOK' BY <1>1 DEF IInv, TypeOK
<1>3. HookInv' BY <1>1 DEF IInv, HookInv, TypeOK
<1>4. TimeInv' BY <1>1 DEF IInv, TimeInv
<1>5. DeskInv' BY <1>1 DEF IInv, DeskInv, Held
<1>6. MacInv' BY <1>1 DEF IInv, MacInv, Held
<1>7. EventInv' BY <1>1 DEF IInv, EventInv
<1> QED BY <1>2, <1>3, <1>4, <1>5, <1>6, <1>7 DEF IInv

LEMMA ReplayKeeps ==
  ASSUME IInv, NEW r \in Request, NEW c \in Client, NEW back \in BOOLEAN, Replay(r, c, back)
  PROVE  IInv'
<1>0. TypeOK /\ HookInv BY DEF IInv
<1>1. /\ told' = [told EXCEPT ![r] = @ \cup {reply[r]}]
      /\ item[r].state \in {"answered", "handed_to_desk"}
      /\ UNCHANGED <<shape, item, sock, reply, mac, poll, streak, horizon, events, now,
                     restarts, handed>>
  BY <1>0 DEF Replay, Tells, HookInv, sessionVars, worldVars
<1>2. TypeOK' BY <1>0, <1>1 DEF TypeOK
<1>3. HookInv'
  <2>1. \A q \in Request \ {r} : told'[q] = told[q] BY <1>0, <1>1 DEF TypeOK
  <2>2. told'[r] = told[r] \cup {reply[r]} BY <1>0, <1>1 DEF TypeOK
  <2> QED BY <1>0, <1>1, <2>1, <2>2 DEF HookInv
<1>4. TimeInv' BY <1>1 DEF IInv, TimeInv
<1>5. DeskInv' BY <1>1 DEF IInv, DeskInv, Held
<1>6. MacInv' BY <1>1 DEF IInv, MacInv, Held
<1>7. EventInv' BY <1>1 DEF IInv, EventInv
<1> QED BY <1>2, <1>3, <1>4, <1>5, <1>6, <1>7 DEF IInv

-----------------------------------------------------------------------------
(* Time and restarts *)

LEMMA TickKeeps == ASSUME IInv, Tick PROVE IInv'
<1>0. TypeOK /\ TimeInv /\ MacInv BY DEF IInv
<1>1. /\ now < MaxTime /\ now' = now + 1
      /\ \A r \in Request : item[r].state # "reading"
      /\ \A r \in Request : item[r].state = "pending" => now < item[r].deadline + Late
      /\ UNCHANGED <<shape, item, sock, reply, mac, poll, streak, horizon, events, restarts,
                     told, handed>>
  BY DEF Tick, InState, Pending, sessionVars, histVars
<1>2. now \in Int /\ 0 <= now /\ now' \in Time
  BY <1>0, <1>1, BoundAssumption DEF TypeOK, Time
<1>3. TypeOK' BY <1>0, <1>1, <1>2 DEF TypeOK
<1>4. HookInv' BY <1>1 DEF IInv, HookInv
<1>5. TimeInv'
  <2>1. \A r \in Request : item[r].deadline \in Int BY <1>0 DEF TypeOK, Item
  <2> QED BY <1>0, <1>1, <1>2, <2>1, TimeAssumption DEF TimeInv
<1>6. DeskInv' BY <1>1 DEF IInv, DeskInv, Held
<1>7. MacInv'
  <2>1. horizon \in Int /\ \A r \in Request : handed[r] \in Int /\ item[r].at \in Int
    BY <1>0 DEF TypeOK, Time, Never, Item
  <2>2. horizon <= now' BY <1>0, <1>1, <1>2, <2>1 DEF MacInv
  <2>3. \A r \in Request : handed[r] <= now' /\ item[r].at <= now'
    BY <1>0, <1>1, <1>2, <2>1 DEF MacInv
  <2> QED BY <1>0, <1>1, <2>2, <2>3 DEF MacInv, Held
<1>8. EventInv' BY <1>1 DEF IInv, EventInv
<1> QED BY <1>3, <1>4, <1>5, <1>6, <1>7, <1>8 DEF IInv

LEMMA RestartKeeps == ASSUME IInv, NEW graceful \in BOOLEAN, Restart(graceful) PROVE IInv'
<1>0. TypeOK /\ HookInv /\ TimeInv /\ DeskInv /\ MacInv BY DEF IInv
<1>1. /\ restarts < MaxRestarts /\ restarts' = restarts + 1
      /\ reply' = [r \in Request |->
           IF graceful /\ r \in Pending(item) /\ sock[r] THEN "nothing" ELSE reply[r]]
      /\ item' = [r \in Request |->
           IF item[r].state = "none" THEN item[r] ELSE Closed("gone")]
      /\ sock' = [r \in Request |-> FALSE]
      /\ poll' = FALSE /\ streak' = 0 /\ horizon' = now
      /\ told' = [r \in Request |-> {}]
      /\ UNCHANGED <<shape, mac, events, now>>
  BY DEF Restart, sessionVars
<1>2. /\ handed' \in [Request -> Time \cup {Never}]
      /\ \A r \in Request : handed'[r] = handed[r] \/ (handed'[r] = now /\ item[r].state = "pending")
  <2>1. CASE graceful
    <3>1. ShownAtMac(Pending(item), "drained") BY <2>1 DEF Restart
    <3>2. Pending(item) \in SUBSET Request BY PendingIs
    <3>3. /\ handed' \in [Request -> Time \cup {Never}]
          /\ \A r \in Pending(item) : handed'[r] = handed[r] \/ handed'[r] = now
          /\ \A r \in Request \ Pending(item) : handed'[r] = handed[r]
      BY <1>0, <3>1, <3>2, ShownEffect
    <3> QED BY <3>3, PendingIs
  <2>2. CASE ~graceful BY <1>0, <2>2 DEF Restart, TypeOK
  <2> QED BY <2>1, <2>2
<1>3. /\ Closed("gone") \in Item
      /\ Closed("gone").state = "gone" /\ ~Closed("gone").macWait /\ Closed("gone").at = 0
      /\ Closed("gone").missed = 0
  BY ClosedItem
<1>4. /\ item' \in [Request -> Item]
      /\ \A r \in Request :
           \/ item[r].state = "none" /\ item'[r] = item[r]
           \/ item[r].state # "none" /\ item'[r] = Closed("gone")
  BY <1>0, <1>1, <1>3 DEF TypeOK
<1>5. \A r \in Request : ~item'[r].macWait BY <1>0, <1>3, <1>4 DEF TypeOK, MacDialog
<1>6. /\ reply' \in [Request -> Choice \cup {"none", "nothing", "cancel"}]
      /\ \A r \in Request : item[r].state = "none" => reply'[r] = reply[r]
  BY <1>0, <1>1 DEF TypeOK, HookInv
<1>7. /\ told' \in [Request -> SUBSET (Choice \cup {"nothing", "none", "cancel"})]
      /\ sock' \in [Request -> BOOLEAN]
      /\ \A r \in Request : told'[r] = {} /\ ~sock'[r]
  BY <1>1
<1>8. restarts' \in 0 .. MaxRestarts
  <2>1. restarts \in 0 .. MaxRestarts BY <1>0 DEF TypeOK
  <2>2. restarts < MaxRestarts /\ restarts' = restarts + 1 BY <1>1
  <2> QED BY <2>1, <2>2, BoundAssumption
<1>9. TypeOK'
  <2>1. poll' \in BOOLEAN /\ streak' \in 0 .. 1
    <3>1. poll' = FALSE BY <1>1
    <3>2. streak' = 0 BY <1>1
    <3>3. FALSE \in BOOLEAN /\ 0 \in 0 .. 1 OBVIOUS
    <3> QED BY <3>1, <3>2, <3>3
  <2>2. /\ shape' \in Mixes /\ mac' \in [Request -> {"idle", "waiting", "over"}]
        /\ events' \in Seq(Event) /\ now' \in Time /\ horizon' \in Time
    BY <1>0, <1>1 DEF TypeOK
  <2> QED BY <1>2, <1>4, <1>5, <1>6, <1>7, <1>8, <2>1, <2>2 DEF TypeOK
<1>10. HookInv' BY <1>0, <1>3, <1>4, <1>6, <1>7 DEF HookInv
<1>11. TimeInv' BY <1>3, <1>4 DEF TimeInv
<1>12. DeskInv' BY <1>0, <1>3, <1>4 DEF DeskInv
<1>13. MacInv'
  <2>1. now \in Int /\ 0 <= now BY <1>0 DEF TypeOK, Time
  <2>2. \A r \in Request : handed'[r] <= now /\ item'[r].at <= now
    BY <1>0, <1>2, <1>3, <1>4, <2>1 DEF MacInv
  <2>3. \A r \in Request :
          item'[r].state \in {"none", "reading", "pending"} => handed'[r] = Never
    BY <1>0, <1>2, <1>3, <1>4 DEF MacInv
  <2>4. \A r \in Request : item'[r].state = "none" <=> mac'[r] = "idle"
    BY <1>0, <1>1, <1>3, <1>4 DEF MacInv
  <2> QED BY <1>1, <2>1, <2>2, <2>3, <2>4 DEF MacInv
<1>14. EventInv' BY <1>1 DEF IInv, EventInv
<1> QED BY <1>9, <1>10, <1>11, <1>12, <1>13, <1>14 DEF IInv

-----------------------------------------------------------------------------
(* The theorems *)

LEMMA InitOk == Init => IInv
<1> SUFFICES ASSUME Init PROVE IInv OBVIOUS
<1>1. /\ NoItem \in Item /\ NoItem.state = "none" /\ ~NoItem.macWait
      /\ NoItem.at = 0 /\ NoItem.missed = 0
  BY NoItemIsItem DEF NoItem
<1>2. \A r \in Request : item[r] = NoItem /\ item \in [Request -> Item] BY <1>1 DEF Init
<1>3. TypeOK
  <2>1. 0 \in Time /\ 1 \in Time /\ 0 \in 0 .. MaxRestarts BY BoundAssumption DEF Time
  <2>2. item \in [Request -> Item] BY <1>1 DEF Init
  <2>3. <<>> \in Seq(Event) OBVIOUS
  <2>4. \A r \in Request : ~item[r].macWait BY <1>1, <1>2
  <2>5. /\ shape \in Mixes /\ sock \in [Request -> BOOLEAN]
        /\ reply \in [Request -> Choice \cup {"none", "nothing", "cancel"}]
        /\ mac \in [Request -> {"idle", "waiting", "over"}]
        /\ poll \in BOOLEAN /\ streak \in 0 .. 1
    <3>1. shape \in Mixes BY DEF Init
    <3>2. sock \in [Request -> BOOLEAN]
      <4>1. sock = [r \in Request |-> FALSE] BY DEF Init
      <4> QED BY <4>1
    <3>3. reply \in [Request -> Choice \cup {"none", "nothing", "cancel"}]
      <4>1. reply = [r \in Request |-> "none"] BY DEF Init
      <4> QED BY <4>1
    <3>4. mac \in [Request -> {"idle", "waiting", "over"}]
      <4>1. mac = [r \in Request |-> "idle"] BY DEF Init
      <4> QED BY <4>1
    <3>5. poll = FALSE /\ streak = 0 BY DEF Init
    <3>6. FALSE \in BOOLEAN /\ 0 \in 0 .. 1 OBVIOUS
    <3> QED BY <3>1, <3>2, <3>3, <3>4, <3>5, <3>6
  <2>6. /\ told \in [Request -> SUBSET (Choice \cup {"nothing", "none", "cancel"})]
        /\ handed \in [Request -> Time \cup {Never}]
    BY DEF Init
  <2>7. events \in Seq(Event) /\ now \in Time /\ horizon \in Time /\ restarts \in 0 .. MaxRestarts
    BY <2>1, <2>3 DEF Init
  <2> QED BY <2>2, <2>4, <2>5, <2>6, <2>7 DEF TypeOK
<1>4. HookInv BY <1>1, <1>2 DEF Init, HookInv
<1>5. TimeInv BY <1>1, <1>2 DEF TimeInv
<1>6. DeskInv BY <1>1, <1>2 DEF DeskInv
<1>7. MacInv BY <1>1, <1>2 DEF Init, MacInv, Never
<1>8. EventInv BY DEF Init, EventInv
<1> QED BY <1>3, <1>4, <1>5, <1>6, <1>7, <1>8 DEF IInv

LEMMA NextKeeps == IInv /\ [Next]_vars => IInv'
<1> SUFFICES ASSUME IInv, [Next]_vars PROVE IInv' OBVIOUS
<1>1. CASE UNCHANGED vars
  <2>1. UNCHANGED <<shape, item, sock, reply, mac, poll, streak, horizon, events, now, restarts,
                   told, handed>>
    BY <1>1 DEF vars
  <2>2. TypeOK' BY <2>1 DEF IInv, TypeOK
  <2>3. HookInv' BY <2>1 DEF IInv, HookInv
  <2>4. TimeInv' BY <2>1 DEF IInv, TimeInv
  <2>5. DeskInv' BY <2>1 DEF IInv, DeskInv, Held
  <2>6. MacInv' BY <2>1 DEF IInv, MacInv, Held
  <2>7. EventInv' BY <2>1 DEF IInv, EventInv
  <2> QED BY <2>2, <2>3, <2>4, <2>5, <2>6, <2>7 DEF IInv
<1>2. ASSUME NEW r \in Request, Refuse(r) PROVE IInv' BY <1>2, RefuseKeeps
<1>3. ASSUME NEW r \in Request, Admit(r) PROVE IInv' BY <1>3, AdmitKeeps
<1>4. ASSUME NEW r \in Request, FastPath(r) PROVE IInv' BY <1>4, FastPathKeeps
<1>5. ASSUME NEW r \in Request, Park(r) PROVE IInv' BY <1>5, ParkKeeps
<1>6. ASSUME NEW r \in Request, HookLeaves(r) PROVE IInv' BY <1>6, HookLeavesKeeps
<1>7. ASSUME NEW r \in Request, HookClosed(r) PROVE IInv' BY <1>7, HookClosedKeeps
<1>8. ASSUME NEW r \in Request, Expire(r) PROVE IInv' BY <1>8, ExpireKeeps
<1>9. ASSUME NEW r \in Request, NEW c \in Client, NEW choice \in Choice,
             AnswerPending(r, c, choice)
      PROVE  IInv'
  BY <1>9, AnswerPendingKeeps
<1>10. ASSUME NEW r \in Request, NEW c \in Client, HandBack(r, c) PROVE IInv'
  BY <1>10, HandBackKeeps
<1>11. ASSUME NEW r \in Request, NEW c \in Client, NEW back \in BOOLEAN, Replay(r, c, back)
       PROVE  IInv'
  BY <1>11, ReplayKeeps
<1>12. ASSUME NEW r \in Request, NEW what \in {"ran", "denied"}, Decided(r, what) PROVE IInv'
  BY <1>12, DecidedKeeps
<1>13. CASE Questions BY <1>13, QuestionsKeeps
<1>14. CASE CancelSession BY <1>14, CancelSessionKeeps
<1>15. CASE Drained BY <1>15, DrainedKeeps
<1>16. CASE PollStarts BY <1>16, PollStartsKeeps
<1>17. CASE PollResumes BY <1>17, PollResumesKeeps
<1>18. CASE TurnEnds BY <1>18, TurnEndsKeeps
<1>19. CASE SessionEnds BY <1>19, SessionEndsKeeps
<1>20. CASE Observe BY <1>20, ObserveKeeps
<1>21. CASE EventLost BY <1>21, EventLostKeeps
<1>22. CASE Tick BY <1>22, TickKeeps
<1>23. ASSUME NEW graceful \in BOOLEAN, Restart(graceful) PROVE IInv' BY <1>23, RestartKeeps
<1> QED
  BY <1>1, <1>2, <1>3, <1>4, <1>5, <1>6, <1>7, <1>8, <1>9, <1>10, <1>11, <1>12, <1>13, <1>14,
     <1>15, <1>16, <1>17, <1>18, <1>19, <1>20, <1>21, <1>22, <1>23 DEF Next

\* The invariant of the broker holds in every state.
THEOREM Invariance == Spec => []IInv
<1>1. Init => IInv BY InitOk
<1>2. IInv /\ [Next]_vars => IInv' BY NextKeeps
<1> QED BY <1>1, <1>2, PTL DEF Spec

\* Every variable keeps its type, and what waits at the Mac was given back to it
\* (park, settle, answer and the poll of permission-broker.ts).
THEOREM Typing == Spec => []TypeOK
<1>1. IInv => TypeOK BY DEF IInv
<1> QED BY <1>1, Invariance, PTL

\* A 200 tells a client what the hook was given: of two answers, a hand-back, a
\* cancel and a deadline one wins, and a retry is told of the same (answer, handBack
\* and settledReply).
THEOREM AnswersAreTrue == Spec => []ToldIsTrue
<1>1. IInv => ToldIsTrue BY DEF IInv, HookInv, ToldIsTrue
<1> QED BY <1>1, Invariance, PTL

\* No request is held until its hook gives up, whatever the settings file said when
\* it was read, and however late the hook's post and the timers are (holdCeilingS
\* and admit).
THEOREM HooksOutlastHolds == Spec => []NeverPastTheHook
<1>1. IInv => NeverPastTheHook
  <2> SUFFICES ASSUME IInv, NEW r \in Pending(item) PROVE now < item[r].start + shape[r].wait
    BY DEF NeverPastTheHook
  <2>1. r \in Request /\ item[r].state = "pending" BY PendingIs
  <2>2. /\ item[r].deadline <= item[r].start + shape[r].wait - Margin
        /\ now <= item[r].deadline + Late
    BY <2>1 DEF IInv, TimeInv
  <2>3. item[r].deadline \in Int /\ item[r].start \in Int /\ now \in Int
    BY <2>1 DEF IInv, TypeOK, Time, Item
  <2>4. shape[r].wait \in Int
    <3>1. shape \in [Request -> Shape] BY ShapeAssumption DEF IInv, TypeOK
    <3> QED BY <2>1, <3>1, TimeAssumption DEF Shape
  <2> QED BY <2>2, <2>3, <2>4, TimeAssumption
<1> QED BY <1>1, Invariance, PTL

\* A request that was handed to the Mac after the horizon, and is no longer listed as
\* waiting there, has been decided: no prune, restart or event about another dialog
\* makes its absence lie (forget, observeHookEvent and sessionRowEnded).
THEOREM AbsenceMeansOver == Spec => []MissingMeansMovedPast
<1>1. IInv => MissingMeansMovedPast
  <2> SUFFICES ASSUME IInv, NEW r \in Request, shape[r].kind = "approval" \/ Held(r),
                      handed[r] > horizon, ~item[r].macWait
               PROVE  mac[r] = "over"
    BY DEF MissingMeansMovedPast
  <2>1. horizon \in Int /\ 0 <= horizon /\ handed[r] \in Int
    BY DEF IInv, TypeOK, Time, Never
  <2>2. handed[r] # Never /\ ~(handed[r] <= horizon) BY <2>1 DEF Never
  <2> QED BY <2>2 DEF IInv, MacInv
<1> QED BY <1>1, Invariance, PTL

\* Nobody waits for a desk that cannot be read: the second failed read in a row hands
\* every held approval back, whatever was parked or settled in between (tick).
THEOREM DeskIsGivenUp == Spec => []BackAtTheDesk
<1>1. IInv => BackAtTheDesk BY DEF IInv, DeskInv, BackAtTheDesk, TypeOK, Item
<1> QED BY <1>1, Invariance, PTL

=============================================================================
