------------------------ MODULE ThreadTurnQueue_proofs ------------------------
(***************************************************************************)
(* Proofs about ThreadTurnQueue, for any keys, any ceiling, any life of a  *)
(* row and any number of restarts.  The inductive invariant:               *)
(*   TypeOK   the types;                                                   *)
(*   InHand   the row the drain delivers is this process's;                *)
(*   Shape    a route in flight has a key, and a closing one an end;       *)
(*   Open     an attempt of this process is open exactly while a route     *)
(*            past its pin holds its key;                                  *)
(*   Proven   words that left are on the attempt journal, and a route that *)
(*            may still send them has not sent them yet.                   *)
(***************************************************************************)
EXTENDS ThreadTurnQueue, TLAPS

InHand ==
  drain.at # "idle" =>
    /\ drain.key \in Key
    /\ rows[drain.key].status = "delivering"
    /\ rows[drain.key].boot = boot
    /\ rows[drain.key].attempts > 0
    /\ drain.at = "answered" => drain.answer \in Answers

Shape ==
  /\ route.stage # "none" => route.key \in Key
  /\ route.stage = "none" => route.key = NoKey
  /\ route.stage = "closing" => route.exit # "none" /\ route.answer # "none"

\* The route is past its pin, and holds k.
Pinned(k) == route.key = k /\ route.stage \in {"live", "spawn", "closing"}

Open ==
  \A k \in Key :
    /\ attempt[k].boot <= boot
    /\ attempt[k].exit = "pending" /\ attempt[k].boot = boot => Pinned(k)
    /\ Pinned(k) => attempt[k].exit = "pending" /\ attempt[k].boot = boot

ProvenAt(k) ==
  /\ sent[k] <= 1
  /\ sent[k] # 0 => attempt[k].exit \in {"pending", "sent", "unknown"}
  /\ route.key = k /\ route.stage \in {"head", "live", "spawn"} => sent[k] = 0
  /\ route.key = k /\ route.stage = "closing" /\ route.exit = "not_sent" => sent[k] = 0

Proven == \A k \in Key \ inherited : ProvenAt(k)

IInv == TypeOK /\ InHand /\ Shape /\ Open /\ Proven

-----------------------------------------------------------------------------
\* Every range starts at zero.
LEMMA Zeros == 0 \in 0 .. MaxAttempts /\ 0 \in 0 .. MaxBoots /\ 0 \in 0 .. FenceTTL
BY BoundsAssumption

\* The values the actions write have their types.
LEMMA Shapes ==
  /\ NoRow \in Row /\ Parked \in Row /\ Stranger \in Row
  /\ NoAttempt \in Attempt /\ NoLease \in Lease
  /\ NoRoute \in Route /\ Idle \in Drain
  /\ \A s \in Settled, u \in BOOLEAN :
       /\ Ended(s, u) \in Row
       /\ Ended(s, u).status = s /\ Ended(s, u).unknown = u /\ Ended(s, u).resentAs = NoKey
<1>1. NoRow \in Row
  BY BoundsAssumption DEF NoRow, Row, Live, Settled
<1>2. Parked \in Row /\ Stranger \in Row
  <2>1. Parked \in Row
    BY <1>1 DEF Parked, Row, Live
  <2>2. 1 \in 0 .. MaxAttempts
    BY BoundsAssumption
  <2>3. Stranger \in Row
    BY <2>1, <2>2 DEF Stranger, Row, Live
  <2>4. QED BY <2>1, <2>3
<1>3. NoAttempt \in Attempt /\ NoLease \in Lease
  BY BoundsAssumption DEF NoAttempt, Attempt, NoLease, Lease
<1>4. NoRoute \in Route /\ Idle \in Drain
  BY DEF NoRoute, Route, Idle, Drain
<1>5. ASSUME NEW s \in Settled, NEW u \in BOOLEAN
      PROVE  /\ Ended(s, u) \in Row
             /\ Ended(s, u).status = s /\ Ended(s, u).unknown = u /\ Ended(s, u).resentAs = NoKey
  BY <1>1 DEF Ended, NoRow, Row, Settled
<1>6. QED BY <1>1, <1>2, <1>3, <1>4, <1>5

\* It holds of a thread with nothing parked, or with what an older build left.
LEMMA InitIInv == Init => IInv
<1> SUFFICES ASSUME Init PROVE IInv
  OBVIOUS
<1>1. rows \in [Key -> Row] /\ sent \in [Key -> Nat]
  BY Shapes DEF Init
<1>2. TypeOK
  <2>1. boot \in Boots
    BY BoundsAssumption DEF Init, Boots
  <2>2. /\ attempt \in [Key -> Attempt]
        /\ ledger \in [Key -> {"none", "completed", "ambiguous", "refused", "cancelled"}]
    BY Shapes DEF Init
  <2>3. lease \in Lease /\ fence \in BOOLEAN /\ route \in Route /\ drain \in Drain
    BY Shapes DEF Init
  <2>4. inherited \in SUBSET Key
    BY DEF Init
  <2>5. QED BY <1>1, <2>1, <2>2, <2>3, <2>4 DEF TypeOK
<1>3. InHand
  BY DEF Init, InHand, Idle
<1>4. Shape
  BY DEF Init, Shape, NoRoute
<1>5. Open
  <2> SUFFICES ASSUME NEW k \in Key
               PROVE  /\ attempt[k].boot <= boot
                      /\ attempt[k].exit # "pending"
                      /\ ~Pinned(k)
    BY DEF Open
  <2>1. attempt[k].boot = 0 /\ attempt[k].exit = "none" /\ boot = 1
    BY DEF Init, NoAttempt
  <2>2. QED BY <2>1 DEF Init, Pinned, NoRoute
<1>6. Proven
  <2> SUFFICES ASSUME NEW k \in Key \ inherited PROVE ProvenAt(k)
    BY DEF Proven
  <2>1. sent[k] = 0
    <3>1. sent[k] \in {0, 1}
      BY DEF Init
    <3>2. sent[k] = 1 => k \in inherited
      BY DEF Init
    <3>3. QED BY <3>1, <3>2
  <2>2. QED BY <2>1 DEF ProvenAt
<1>7. QED BY <1>2, <1>3, <1>4, <1>5, <1>6 DEF IInv

\* What does not touch the boot, the journal, the route or the history.
LEMMA Frame ==
  ASSUME IInv, UNCHANGED <<boot, attempt, route, sent, inherited>>
  PROVE  Shape' /\ Open' /\ Proven'
BY DEF IInv, Shape, Open, Pinned, Proven, ProvenAt

\* A step of the queue's routes, or of the drain's judgement, outside a delivery.
LEMMA RowsOnly ==
  ASSUME IInv, UNCHANGED <<boot, attempt, ledger, lease, fence, route, drain, sent, inherited>>,
         rows' \in [Key -> Row],
         drain.at # "idle" => rows'[drain.key] = rows[drain.key]
  PROVE  IInv'
<1>1. TypeOK'
  BY DEF IInv, TypeOK, Boots
<1>2. InHand'
  BY DEF IInv, InHand
<1>3. QED BY <1>1, <1>2, Frame DEF IInv

\* A step of the drain and its delivery.
LEMMA DrainOnly ==
  ASSUME IInv, UNCHANGED <<boot, attempt, ledger, fence, route, sent, inherited>>,
         rows' \in [Key -> Row], lease' \in Lease, drain' \in Drain, InHand'
  PROVE  IInv'
<1>1. TypeOK'
  BY DEF IInv, TypeOK, Boots
<1>2. QED BY <1>1, Frame DEF IInv

\* One row is written anew, and the drain does not hold it.
LEMMA OneRow ==
  ASSUME IInv, UNCHANGED <<boot, attempt, ledger, lease, fence, route, drain, sent, inherited>>,
         NEW k \in Key, NEW r \in Row, rows' = [rows EXCEPT ![k] = r],
         \/ rows[k].status # "delivering"
         \/ drain.at = "idle"
  PROVE  IInv'
<1>1. rows' \in [Key -> Row]
  BY DEF IInv, TypeOK
<1>2. ASSUME drain.at # "idle" PROVE rows'[drain.key] = rows[drain.key]
  BY <1>2 DEF IInv, InHand, TypeOK
<1>3. QED BY <1>1, <1>2, RowsOnly

-----------------------------------------------------------------------------
(***************************************************************************)
(* The queue's routes and the drain's judgement.                           *)
(***************************************************************************)

\* A row is parked.
LEMMA ParkIInv == ASSUME IInv, NEW k \in Key, Park(k) PROVE IInv'
BY OneRow, Shapes DEF Park

\* A row is sent again under a new key.
LEMMA ResendIInv == ASSUME IInv, NEW k \in Key, NEW c \in Key, Resend(k, c) PROVE IInv'
<1>1. rows \in [Key -> Row]
  BY DEF IInv, TypeOK
<1>2. [rows[k] EXCEPT !.resentAs = c] \in Row
  <2>1. rows[k] \in Row
    BY <1>1
  <2>2. QED BY <2>1 DEF Row
<1>3. rows' = [rows EXCEPT ![k] = [rows[k] EXCEPT !.resentAs = c], ![c] = Parked]
  BY <1>1 DEF Resend
<1>4. rows' \in [Key -> Row]
  BY <1>1, <1>2, <1>3, Shapes
<1>5. ASSUME drain.at # "idle" PROVE rows'[drain.key] = rows[drain.key]
  BY <1>1, <1>3, <1>5 DEF IInv, InHand, Resend, Unused
<1>6. QED BY <1>4, <1>5, RowsOnly DEF Resend

\* A waiting row is taken back.
LEMMA DeleteIInv == ASSUME IInv, NEW k \in Key, Delete(k) PROVE IInv'
<1>1. Ended("cancelled", FALSE) \in Row
  BY Shapes DEF Settled
<1>2. QED BY <1>1, OneRow DEF Delete, Deletable

\* A settled row is dropped.
LEMMA PruneIInv == ASSUME IInv, NEW k \in Key, Prune(k) PROVE IInv'
BY Shapes, OneRow DEF Prune, Settled

\* A row a dead process was delivering is settled, or waits again.
LEMMA ReconcileIInv == ASSUME IInv, NEW k \in Key, Reconcile(k) PROVE IInv'
<1> PICK verdict \in Verdicts(k) : rows' = [rows EXCEPT ![k] = Reconciled(rows[k], verdict)]
  BY DEF Reconcile
<1>1. rows[k] \in Row
  BY DEF IInv, TypeOK
<1>2. [rows[k] EXCEPT !.status = "waiting", !.boot = 0] \in Row
  BY <1>1, Zeros DEF Row, Live
<1>3. Ended("delivered", FALSE) \in Row /\ Ended("refused", TRUE) \in Row
  BY Shapes DEF Settled
<1>4. Reconciled(rows[k], verdict) \in Row
  BY <1>2, <1>3 DEF Reconciled
<1>5. QED BY <1>4, OneRow DEF Reconcile

\* A row is out of time, or out of tries.
LEMMA RetiresIInv == ASSUME IInv, NEW k \in Key, DrainRetires(k) PROVE IInv'
<1>1. Ended("expired", FALSE) \in Row /\ Ended("refused", FALSE) \in Row
  BY Shapes DEF Settled
<1>2. \/ rows' = [rows EXCEPT ![k] = Ended("expired", FALSE)]
      \/ rows' = [rows EXCEPT ![k] = Ended("refused", FALSE)]
  BY DEF DrainRetires
<1>3. QED BY <1>1, <1>2, OneRow DEF DrainRetires, Judging

\* A live row some reason still keeps has not reached the longer clock.
LEMMA TickIInv == ASSUME IInv, Tick PROVE IInv'
<1>1. ASSUME NEW k \in Key, rows[k].status \in Live
      PROVE  [rows[k] EXCEPT !.age = @ + 1] \in Row
  <2>1. rows[k] \in Row
    BY DEF IInv, TypeOK
  <2>2. PICK reason \in GateReasons : ~Overdue(k, reason)
    BY <1>1 DEF Tick
  <2>3. rows[k].age \in 0 .. FenceTTL
    BY <2>1 DEF Row
  <2>4. rows[k].age + 1 \in 0 .. FenceTTL
    <3>1. CASE reason = "fenced"
      BY <3>1, <2>2, <2>3, BoundsAssumption DEF Overdue
    <3>2. CASE reason # "fenced"
      BY <3>2, <2>2, <2>3, BoundsAssumption DEF Overdue
    <3>3. QED BY <3>1, <3>2
  <2>5. QED BY <2>1, <2>4 DEF Row
<1>2. ASSUME NEW k \in Key
      PROVE  (IF rows[k].status \in Live THEN [rows[k] EXCEPT !.age = @ + 1] ELSE rows[k]) \in Row
  <2>1. rows[k] \in Row
    BY DEF IInv, TypeOK
  <2>2. QED BY <2>1, <1>1
<1>3. rows' \in [Key -> Row]
  BY <1>2 DEF Tick
<1>4. QED BY <1>3, RowsOnly DEF Tick

-----------------------------------------------------------------------------
(***************************************************************************)
(* The drain's delivery.                                                   *)
(***************************************************************************)

\* The row is handed over, its attempt counted.
LEMMA StartsIInv == ASSUME IInv, NEW k \in Key, DrainStarts(k) PROVE IInv'
<1>1. rows[k] \in Row /\ rows \in [Key -> Row] /\ boot \in Boots
  BY DEF IInv, TypeOK
<1>2. /\ HandedOver(rows[k]) \in Row
      /\ HandedOver(rows[k]).status = "delivering"
      /\ HandedOver(rows[k]).boot = boot
      /\ HandedOver(rows[k]).attempts > 0
  <2>1. /\ rows[k].attempts \in 0 .. MaxAttempts
        /\ rows[k].attempts + 1 \in 0 .. MaxAttempts
        /\ rows[k].attempts + 1 > 0
        /\ boot \in 0 .. MaxBoots
    BY <1>1, BoundsAssumption DEF Row, DrainStarts, Boots
  <2>2. QED BY <1>1, <2>1 DEF HandedOver, Row, Live
<1>3. rows' = [rows EXCEPT ![k] = HandedOver(rows[k])]
  BY DEF DrainStarts
<1>4. drain' = [at |-> "attaching", key |-> k, answer |-> "none"]
  BY DEF DrainStarts
<1>5. drain' \in Drain /\ drain'.key = k /\ drain'.at = "attaching"
  BY <1>4 DEF Drain
<1>6. rows' \in [Key -> Row] /\ rows'[k] = HandedOver(rows[k])
  BY <1>1, <1>2, <1>3
<1>7. InHand'
  BY <1>2, <1>5, <1>6 DEF InHand, DrainStarts
<1>8. lease' \in Lease
  BY DEF IInv, TypeOK, DrainStarts
<1>9. QED BY <1>5, <1>6, <1>7, <1>8, DrainOnly DEF DrainStarts

\* The delivery has its answer.
LEMMA AnsweredInHand ==
  ASSUME IInv, NEW a \in Answers, drain.at # "idle",
         drain' = Answered(a), UNCHANGED <<boot, rows>>
  PROVE  drain' \in Drain /\ InHand'
<1>1. drain \in Drain
  BY DEF IInv, TypeOK
<1>2. /\ drain'.at = "answered" /\ drain'.answer = a /\ drain'.key = drain.key
      /\ drain' \in Drain
  BY <1>1 DEF Answered, Drain
<1>3. QED BY <1>2 DEF IInv, InHand

\* A lease has its type.
LEMMA GrantedType ==
  ASSUME NEW by \in {"queue", "phone"}, Granted(by) PROVE lease' \in Lease
BY DEF Granted, Lease

\* The attach fails, or its answer is late.
LEMMA AttachFailsIInv == ASSUME IInv, DrainAttachFails PROVE IInv'
<1>1. PICK a \in Answers : drain' = Answered(a)
  BY DEF DrainAttachFails, Answers
<1>2. drain' \in Drain /\ InHand'
  BY <1>1, AnsweredInHand DEF DrainAttachFails
<1>3. lease' \in Lease
  <2>1. CASE UNCHANGED lease
    BY <2>1 DEF IInv, TypeOK
  <2>2. CASE Granted("queue")
    BY <2>2, GrantedType
  <2>3. QED BY <2>1, <2>2 DEF DrainAttachFails
<1>4. rows' \in [Key -> Row]
  BY DEF IInv, TypeOK, DrainAttachFails
<1>5. QED BY <1>2, <1>3, <1>4, DrainOnly DEF DrainAttachFails

\* The drain moves on with the same row.
LEMMA MovesOn ==
  ASSUME IInv, NEW at \in {"posting", "waiting"}, drain.at # "idle",
         drain' = [drain EXCEPT !.at = at], UNCHANGED <<boot, rows>>
  PROVE  drain' \in Drain /\ InHand'
<1>1. drain \in Drain
  BY DEF IInv, TypeOK
<1>2. /\ drain'.at = at /\ drain'.key = drain.key
      /\ drain' \in Drain
  BY <1>1 DEF Drain
<1>3. QED BY <1>2 DEF IInv, InHand

\* The thread is leased to the drain.
LEMMA AttachesIInv == ASSUME IInv, DrainAttaches PROVE IInv'
<1>1. drain' \in Drain /\ InHand'
  BY MovesOn DEF DrainAttaches
<1>2. lease' \in Lease
  BY GrantedType DEF DrainAttaches
<1>3. rows' \in [Key -> Row]
  BY DEF IInv, TypeOK, DrainAttaches
<1>4. QED BY <1>1, <1>2, <1>3, DrainOnly DEF DrainAttaches

\* The delivery's deadline passes.
LEMMA TimesOutIInv == ASSUME IInv, DeliverTimesOut PROVE IInv'
<1>1. drain' \in Drain /\ InHand'
  BY AnsweredInHand DEF DeliverTimesOut, Answers
<1>2. rows' \in [Key -> Row] /\ lease' \in Lease
  BY DEF IInv, TypeOK, DeliverTimesOut
<1>3. QED BY <1>1, <1>2, DrainOnly DEF DeliverTimesOut

\* What a delivery leaves of its row.
LEMMA OutcomeType ==
  ASSUME NEW row \in Row, row.attempts > 0, NEW a \in Answers
  PROVE  Outcome(row, a) \in Row
<1>1. /\ Ended("delivered", FALSE) \in Row /\ Ended("cancelled", FALSE) \in Row
      /\ Ended("refused", TRUE) \in Row /\ Ended("refused", FALSE) \in Row
  BY Shapes DEF Settled
<1>2. row.attempts \in 0 .. MaxAttempts /\ row.attempts - 1 \in 0 .. MaxAttempts
  BY BoundsAssumption DEF Row
<1>3. [row EXCEPT !.status = "waiting", !.boot = 0, !.attempts = @ - 1] \in Row
  BY <1>2, Zeros DEF Row, Live
<1>4. [row EXCEPT !.status = "waiting", !.boot = 0] \in Row
  BY Zeros DEF Row, Live
<1>5. QED BY <1>1, <1>3, <1>4 DEF Outcome, Answers

\* The row is settled, or waits again.
LEMMA SettlesIInv == ASSUME IInv, DrainSettles PROVE IInv'
<1>1. /\ rows \in [Key -> Row] /\ drain.key \in Key /\ rows[drain.key].attempts > 0
      /\ drain.answer \in Answers
  BY DEF IInv, TypeOK, InHand, DrainSettles
<1>2. Outcome(rows[drain.key], drain.answer) \in Row
  BY <1>1, OutcomeType
<1>3. rows' \in [Key -> Row]
  BY <1>1, <1>2 DEF DrainSettles
<1>4. drain' \in Drain /\ InHand'
  BY Shapes DEF DrainSettles, InHand, Idle
<1>5. lease' \in Lease
  BY DEF IInv, TypeOK, DrainSettles
<1>6. QED BY <1>3, <1>4, <1>5, DrainOnly DEF DrainSettles

-----------------------------------------------------------------------------
(***************************************************************************)
(* The turn route.                                                         *)
(***************************************************************************)

\* The parts of the invariant, put together again.
LEMMA Together ==
  ASSUME IInv, boot' = boot, rows' = rows, attempt' \in [Key -> Attempt],
         ledger' \in [Key -> {"none", "completed", "ambiguous", "refused", "cancelled"}],
         lease' \in Lease, fence' \in BOOLEAN, route' \in Route, drain' \in Drain,
         sent' \in [Key -> Nat], inherited' = inherited, InHand', Shape', Open', Proven'
  PROVE  IInv'
<1>1. TypeOK'
  BY DEF IInv, TypeOK, Boots
<1>2. QED BY <1>1 DEF IInv

\* The drain hears the answer, or does not.
LEMMA ReplyInHand ==
  ASSUME IInv, NEW a \in Answers, Reply(a), UNCHANGED <<boot, rows>>
  PROVE  drain' \in Drain /\ InHand'
<1>1. CASE drain' = Answered(a) /\ drain.at = "waiting"
  BY <1>1, AnsweredInHand
<1>2. CASE UNCHANGED drain
  BY <1>2 DEF IInv, InHand, TypeOK
<1>3. QED BY <1>1, <1>2 DEF Reply

\* The drain is left alone.
LEMMA SameDrain ==
  ASSUME IInv, UNCHANGED <<boot, rows, drain>>
  PROVE  drain' \in Drain /\ InHand'
BY DEF IInv, InHand, TypeOK

\* Who may enter: no other turn is in flight, and, for a key of this build, no
\* hop has put its words in.
LEMMA EnterFacts ==
  ASSUME IInv, NEW k \in Key, NEW by, "enter" \in EntryAnswers(k, by)
  PROVE  route = NoRoute /\ (k \notin inherited => sent[k] = 0)
<1>1. Replay(ledger[k]) # "enter"
  BY DEF Replay
<1>2. \A a \in Receipts(k) : a # "enter"
  BY DEF Receipts
<1>3. Receipts(k) = {} /\ route = NoRoute
  BY <1>1, <1>2 DEF EntryAnswers
<1>4. ~Pinned(k)
  BY <1>3 DEF Pinned, NoRoute
<1>5. attempt[k].exit \notin {"sent", "unknown"}
  BY <1>3 DEF Receipts
<1>6. attempt[k].exit # "pending"
  BY <1>3, <1>4 DEF IInv, Open, Receipts
<1>7. ASSUME k \notin inherited PROVE sent[k] = 0
  BY <1>5, <1>6, <1>7 DEF IInv, Proven, ProvenAt
<1>8. QED BY <1>3, <1>7

\* The claim is taken.
LEMMA Enters ==
  ASSUME IInv, NEW k \in Key, NEW by \in {"queue", "phone"}, "enter" \in EntryAnswers(k, by),
         route' = Entered(k, by), UNCHANGED <<boot, attempt, sent, inherited>>
  PROVE  route' \in Route /\ Shape' /\ Open' /\ Proven'
<1>1. route = NoRoute /\ (k \notin inherited => sent[k] = 0)
  BY EnterFacts
<1>2. /\ route' \in Route /\ route'.key = k /\ route'.stage = "head"
  BY Shapes DEF Entered, NoRoute, Route
<1>3. Shape'
  BY <1>2 DEF Shape
<1>4. \A j \in Key : ~Pinned(j) /\ ~Pinned(j)'
  BY <1>1, <1>2 DEF Pinned, NoRoute
<1>5. Open'
  <2> SUFFICES ASSUME NEW j \in Key
               PROVE  /\ attempt'[j].boot <= boot'
                      /\ ~(attempt'[j].exit = "pending" /\ attempt'[j].boot = boot')
    BY <1>4 DEF Open
  <2> QED BY <1>4 DEF IInv, Open
<1>6. Proven'
  <2> SUFFICES ASSUME NEW j \in Key \ inherited PROVE ProvenAt(j)'
    BY DEF Proven
  <2>1. ProvenAt(j)
    BY DEF IInv, Proven
  <2>2. QED BY <1>1, <1>2, <2>1 DEF ProvenAt
<1>7. QED BY <1>2, <1>3, <1>5, <1>6

\* The drain's turn reaches the route.
LEMMA PostsIInv == ASSUME IInv, DrainPosts PROVE IInv'
<1>1. drain.key \in Key /\ drain.at = "posting"
  BY DEF IInv, InHand, DrainPosts
<1>2. /\ ledger' \in [Key -> {"none", "completed", "ambiguous", "refused", "cancelled"}]
      /\ rows' \in [Key -> Row] /\ attempt' \in [Key -> Attempt] /\ lease' \in Lease
      /\ fence' \in BOOLEAN /\ sent' \in [Key -> Nat]
  BY DEF IInv, TypeOK, DrainPosts
<1> PICK answer \in EntryAnswers(drain.key, "queue") :
       IF answer = "enter"
         THEN /\ route' = Entered(drain.key, "queue")
              /\ drain' = [drain EXCEPT !.at = "waiting"]
         ELSE drain' = Answered(answer) /\ UNCHANGED route
  BY DEF DrainPosts
<1>3. CASE answer = "enter"
  <2>1. route' \in Route /\ Shape' /\ Open' /\ Proven'
    BY <1>1, <1>3, Enters DEF DrainPosts
  <2>2. drain' \in Drain /\ InHand'
    BY <1>1, <1>3, MovesOn DEF DrainPosts
  <2>3. QED BY <1>2, <2>1, <2>2, Together DEF DrainPosts
<1>4. CASE answer # "enter"
  <2>1. answer \in Answers
    <3>1. Replay(ledger[drain.key]) \in Answers
      BY DEF Replay, Answers
    <3>2. Receipts(drain.key) \subseteq Answers
      BY DEF Receipts, Answers
    <3>3. {"retryable", "failed"} \subseteq Answers
      BY DEF Answers
    <3>4. QED BY <1>4, <3>1, <3>2, <3>3 DEF EntryAnswers
  <2>2. drain' \in Drain /\ InHand'
    BY <1>1, <1>4, <2>1, AnsweredInHand DEF DrainPosts
  <2>3. QED BY <1>2, <1>4, <2>2, DrainOnly DEF DrainPosts
<1>5. QED BY <1>3, <1>4

\* The phone leases the thread.
LEMMA PhoneAttachesIInv == ASSUME IInv, PhoneAttaches PROVE IInv'
<1>1. lease' \in Lease
  BY GrantedType DEF PhoneAttaches
<1>2. drain' \in Drain /\ InHand'
  BY SameDrain DEF PhoneAttaches
<1>3. rows' \in [Key -> Row]
  BY DEF IInv, TypeOK, PhoneAttaches
<1>4. QED BY <1>1, <1>2, <1>3, DrainOnly DEF PhoneAttaches

\* The phone's turn reaches the route.
LEMMA PhoneSendsIInv == ASSUME IInv, NEW k \in Key, PhoneSends(k) PROVE IInv'
<1>1. route' \in Route /\ Shape' /\ Open' /\ Proven'
  BY Enters DEF PhoneSends
<1>2. drain' \in Drain /\ InHand'
  BY SameDrain DEF PhoneSends
<1>3. QED BY <1>1, <1>2, Together DEF PhoneSends, IInv, TypeOK

\* A route with no pin goes.
LEMMA HeadRefusedIInv == ASSUME IInv, HeadRefused PROVE IInv'
<1>1. drain' \in Drain /\ InHand'
  BY ReplyInHand DEF HeadRefused, Answers
<1>2. route' = NoRoute /\ route.stage = "head"
  BY DEF HeadRefused
<1>3. route' \in Route /\ Shape'
  BY <1>2, Shapes DEF Shape, NoRoute
<1>4. \A j \in Key : ~Pinned(j) /\ ~Pinned(j)'
  BY <1>2 DEF Pinned, NoRoute
<1>5. Open'
  <2> SUFFICES ASSUME NEW j \in Key
               PROVE  /\ attempt'[j].boot <= boot'
                      /\ ~(attempt'[j].exit = "pending" /\ attempt'[j].boot = boot')
    BY <1>4 DEF Open
  <2> QED BY <1>4 DEF IInv, Open, HeadRefused
<1>6. Proven'
  <2> SUFFICES ASSUME NEW j \in Key \ inherited PROVE ProvenAt(j)'
    BY DEF Proven, HeadRefused
  <2>1. ProvenAt(j)
    BY DEF IInv, Proven
  <2>2. QED BY <1>2, <2>1 DEF ProvenAt, HeadRefused, NoRoute
<1>7. QED BY <1>1, <1>3, <1>5, <1>6, Together DEF HeadRefused, IInv, TypeOK

\* The attempt is on the journal before the hop.
LEMMA PinIInv == ASSUME IInv, Pin PROVE IInv'
<1> DEFINE k == route.key
<1>1. k \in Key /\ route \in Route /\ route.stage = "head" /\ boot \in Boots
  BY DEF IInv, TypeOK, Shape, Pin
<1>2. Begun(k) \in Attempt /\ Begun(k).exit = "pending" /\ Begun(k).boot = boot
  BY <1>1, BoundsAssumption DEF Begun, Attempt, Boots
<1>3. /\ attempt \in [Key -> Attempt] /\ attempt' = [attempt EXCEPT ![k] = Begun(k)]
  BY DEF IInv, TypeOK, Pin
<1>4. /\ attempt' \in [Key -> Attempt] /\ attempt'[k] = Begun(k)
      /\ \A j \in Key : j # k => attempt'[j] = attempt[j]
  BY <1>1, <1>2, <1>3
<1>5. lease' \in Lease
  <2>1. lease \in Lease /\ lease' = [lease EXCEPT !.pin = k, !.fresh = TRUE]
    BY DEF IInv, TypeOK, Pin
  <2>2. QED BY <1>1, <2>1 DEF Lease
<1>6. /\ route' \in Route /\ route'.key = k /\ route'.stage \in {"live", "closing"}
      /\ route'.stage = "closing" => route'.exit = "not_sent" /\ route'.answer = "cancelled"
  <2>1. CASE route' = Closing("not_sent", "cancelled")
    BY <1>1, <2>1 DEF Closing, Route, Answers
  <2>2. CASE route' = [route EXCEPT !.stage = "live"]
    BY <1>1, <2>2 DEF Route
  <2>3. QED BY <2>1, <2>2 DEF Pin
<1>7. Shape'
  BY <1>1, <1>6 DEF Shape
<1>8. boot' = boot /\ sent' = sent
  BY DEF Pin
<1> HIDE DEF k
<1>9. Open'
  <2> SUFFICES ASSUME NEW j \in Key
               PROVE  /\ attempt'[j].boot <= boot'
                      /\ attempt'[j].exit = "pending" /\ attempt'[j].boot = boot' => Pinned(j)'
                      /\ Pinned(j)' => attempt'[j].exit = "pending" /\ attempt'[j].boot = boot'
    BY DEF Open
  <2>1. CASE j = k
    <3>1. Pinned(j)'
      BY <1>6, <2>1 DEF Pinned
    <3>2. attempt'[j].exit = "pending" /\ attempt'[j].boot = boot'
      BY <1>2, <1>4, <1>8, <2>1
    <3>3. boot' <= boot'
      BY <1>1, <1>8, BoundsAssumption DEF Boots
    <3>4. QED BY <3>1, <3>2, <3>3
  <2>2. CASE j # k
    <3>1. ~Pinned(j) /\ ~Pinned(j)'
      BY <1>1, <1>6, <2>2 DEF Pinned, k
    <3>2. attempt'[j] = attempt[j]
      BY <1>4, <2>2
    <3>3. QED BY <1>8, <3>1, <3>2 DEF IInv, Open
  <2>3. QED BY <2>1, <2>2
<1>10. Proven'
  <2> SUFFICES ASSUME NEW j \in Key \ inherited PROVE ProvenAt(j)'
    BY DEF Proven, Pin
  <2>1. ProvenAt(j)
    BY DEF IInv, Proven
  <2>2. CASE j = k
    <3>1. sent[j] = 0
      BY <1>1, <2>1, <2>2 DEF ProvenAt, k
    <3>2. QED BY <1>8, <3>1 DEF ProvenAt
  <2>3. CASE j # k
    <3>1. route'.key # j /\ attempt'[j] = attempt[j]
      BY <1>4, <1>6, <2>3
    <3>2. QED BY <1>8, <2>1, <3>1 DEF ProvenAt
  <2>4. QED BY <2>2, <2>3
<1>11. drain' \in Drain /\ InHand'
  BY SameDrain DEF Pin
<1>12. QED BY <1>4, <1>5, <1>6, <1>7, <1>9, <1>10, <1>11, Together DEF Pin, IInv, TypeOK

\* A hop ends: the words are in, or may be, or provably are not.
LEMMA HopEnds ==
  ASSUME IInv, route.stage \in {"live", "spawn"}, UNCHANGED <<boot, attempt, inherited>>,
         NEW e \in {"sent", "not_sent", "unknown"}, NEW a \in Answers,
         route' = Closing(e, a),
         \/ Sends /\ e # "not_sent"
         \/ UNCHANGED sent
  PROVE  route' \in Route /\ sent' \in [Key -> Nat] /\ Shape' /\ Open' /\ Proven'
<1> DEFINE k == route.key
<1>1. k \in Key /\ route \in Route /\ sent \in [Key -> Nat]
  BY DEF IInv, TypeOK, Shape
<1>2. /\ route' \in Route /\ route'.key = k /\ route'.stage = "closing"
      /\ route'.exit = e /\ route'.answer = a
  BY <1>1 DEF Closing, Route
<1>3. /\ sent' \in [Key -> Nat]
      /\ sent'[k] \in {sent[k], sent[k] + 1}
      /\ e = "not_sent" => sent'[k] = sent[k]
      /\ \A j \in Key : j # k => sent'[j] = sent[j]
  BY <1>1 DEF Sends
<1>4. Shape'
  BY <1>1, <1>2 DEF Shape, Answers
<1> HIDE DEF k
<1>5. Pinned(k) /\ \A j \in Key : Pinned(j) <=> Pinned(j)'
  BY <1>2 DEF Pinned, k
<1>6. Open'
  BY <1>5 DEF IInv, Open
<1>7. Proven'
  <2> SUFFICES ASSUME NEW j \in Key \ inherited PROVE ProvenAt(j)'
    BY DEF Proven
  <2>1. ProvenAt(j)
    BY DEF IInv, Proven
  <2>2. CASE j = k
    <3>1. sent[j] = 0
      BY <2>1, <2>2 DEF ProvenAt, k
    <3>2. sent'[j] <= 1 /\ (e = "not_sent" => sent'[j] = 0)
      BY <1>3, <2>2, <3>1
    <3>3. attempt'[j].exit = "pending"
      BY <1>5, <2>2 DEF IInv, Open
    <3>4. QED BY <1>2, <3>2, <3>3 DEF ProvenAt
  <2>3. CASE j # k
    BY <1>2, <1>3, <2>1, <2>3 DEF ProvenAt
  <2>4. QED BY <2>2, <2>3
<1>8. QED BY <1>2, <1>3, <1>4, <1>6, <1>7

\* The ledger takes a record.
LEMMA RecordsType ==
  ASSUME IInv, NEW end \in {"completed", "ambiguous", "refused", "cancelled"}, Records(end)
  PROVE  ledger' \in [Key -> {"none", "completed", "ambiguous", "refused", "cancelled"}]
BY DEF IInv, TypeOK, Records

\* The live hop, and the child, end.
LEMMA EndsIInv ==
  ASSUME IInv,
         \/ LiveDelivers \/ LiveUnverified
         \/ SpawnDelivers \/ SpawnNeverOpens \/ SpawnAmbiguous \/ SpawnCancelled
  PROVE  IInv'
<1>1. /\ rows' = rows /\ boot' = boot /\ attempt' = attempt /\ lease' = lease /\ drain' = drain
      /\ inherited' = inherited
      /\ fence' \in BOOLEAN /\ attempt' \in [Key -> Attempt] /\ lease' \in Lease
  BY DEF IInv, TypeOK, LiveDelivers, LiveUnverified, SpawnDelivers, SpawnNeverOpens,
         SpawnAmbiguous, SpawnCancelled
<1>2. ledger' \in [Key -> {"none", "completed", "ambiguous", "refused", "cancelled"}]
  <2>1. CASE ledger' = ledger
    BY <2>1 DEF IInv, TypeOK
  <2>2. CASE \E end \in {"completed", "ambiguous", "refused", "cancelled"} : Records(end)
    BY <2>2, RecordsType
  <2>3. QED BY <2>1, <2>2 DEF LiveDelivers, LiveUnverified, SpawnDelivers, SpawnNeverOpens,
                              SpawnAmbiguous, SpawnCancelled
<1>3. PICK e \in {"sent", "not_sent", "unknown"}, a \in Answers :
        /\ route' = Closing(e, a)
        /\ \/ Sends /\ e # "not_sent"
           \/ UNCHANGED sent
  <2>1. UnverifiedAnswer \in Answers
    BY DEF UnverifiedAnswer, Answers
  <2>2. QED BY <2>1 DEF LiveDelivers, LiveUnverified, SpawnDelivers, SpawnNeverOpens,
                        SpawnAmbiguous, SpawnCancelled, Answers
<1>4. route.stage \in {"live", "spawn"}
  BY DEF LiveDelivers, LiveUnverified, SpawnDelivers, SpawnNeverOpens, SpawnAmbiguous, SpawnCancelled
<1>5. route' \in Route /\ sent' \in [Key -> Nat] /\ Shape' /\ Open' /\ Proven'
  BY <1>1, <1>3, <1>4, HopEnds
<1>6. drain' \in Drain /\ InHand'
  BY <1>1, SameDrain
<1>7. QED BY <1>1, <1>2, <1>5, <1>6, Together

\* Nothing reached a session: the turn ends, or a child is spawned.
LEMMA MissesIInv == ASSUME IInv, LiveMisses PROVE IInv'
<1>1. /\ rows' = rows /\ boot' = boot /\ attempt' = attempt /\ inherited' = inherited
      /\ fence' \in BOOLEAN /\ attempt' \in [Key -> Attempt] /\ lease' \in Lease
      /\ ledger' \in [Key -> {"none", "completed", "ambiguous", "refused", "cancelled"}]
  BY DEF IInv, TypeOK, LiveMisses
<1>2. CASE route' = Closing("not_sent", "cancelled") /\ UNCHANGED drain
  <2>1. route' \in Route /\ sent' \in [Key -> Nat] /\ Shape' /\ Open' /\ Proven'
    BY <1>2, HopEnds DEF LiveMisses, Answers
  <2>2. drain' \in Drain /\ InHand'
    BY <1>1, <1>2, SameDrain
  <2>3. QED BY <1>1, <2>1, <2>2, Together
<1>3. CASE route' = [route EXCEPT !.stage = "spawn"] /\ Reply("ok")
  <2>1. route \in Route /\ route.stage = "live" /\ route.key \in Key
    BY DEF IInv, TypeOK, Shape, LiveMisses
  <2>2. route' \in Route /\ route'.key = route.key /\ route'.stage = "spawn"
    BY <1>3, <2>1 DEF Route
  <2>3. Shape'
    BY <2>1, <2>2 DEF Shape
  <2>4. \A j \in Key : Pinned(j) <=> Pinned(j)'
    BY <2>1, <2>2 DEF Pinned
  <2>5. Open'
    BY <1>1, <2>4 DEF IInv, Open
  <2>6. Proven'
    <3> SUFFICES ASSUME NEW j \in Key \ inherited PROVE ProvenAt(j)'
      BY DEF Proven, LiveMisses
    <3>1. ProvenAt(j)
      BY DEF IInv, Proven
    <3>2. QED BY <1>1, <2>1, <2>2, <3>1 DEF ProvenAt, LiveMisses
  <2>7. drain' \in Drain /\ InHand'
    BY <1>1, <1>3, ReplyInHand DEF Answers
  <2>8. sent' \in [Key -> Nat]
    BY <1>3 DEF IInv, TypeOK, LiveMisses
  <2>9. QED BY <1>1, <2>2, <2>3, <2>5, <2>6, <2>7, <2>8, Together
<1>4. QED BY <1>2, <1>3 DEF LiveMisses

\* The attempt gets its exit, and the pin goes.
LEMMA CloseIInv == ASSUME IInv, Close PROVE IInv'
<1> DEFINE k == route.key
           a == [attempt[k] EXCEPT !.exit = route.exit]
<1>1. /\ k \in Key /\ route \in Route /\ route.stage = "closing"
      /\ route.exit \in {"sent", "not_sent", "unknown"} /\ route.answer \in Answers
  BY DEF IInv, TypeOK, Shape, Close, Route
<1>2. attempt \in [Key -> Attempt] /\ attempt' = [attempt EXCEPT ![k] = a]
  BY DEF IInv, TypeOK, Close
<1>3. a \in Attempt /\ a.exit = route.exit /\ a.boot = attempt[k].boot
  <2>1. attempt[k] \in Attempt
    BY <1>1, <1>2
  <2>2. QED BY <1>1, <2>1 DEF Attempt
<1>4. /\ attempt' \in [Key -> Attempt] /\ attempt'[k] = a
      /\ \A j \in Key : j # k => attempt'[j] = attempt[j]
  BY <1>1, <1>2, <1>3
<1>5. lease' \in Lease
  <2>1. lease \in Lease /\ lease' = [lease EXCEPT !.pin = NoKey, !.fresh = TRUE]
    BY DEF IInv, TypeOK, Close
  <2>2. QED BY <2>1 DEF Lease
<1>6. route' = NoRoute /\ boot' = boot /\ sent' = sent /\ rows' = rows
  BY DEF Close
<1>7. route' \in Route /\ Shape' /\ \A j \in Key : ~Pinned(j)'
  BY <1>6, Shapes DEF Shape, Pinned, NoRoute
<1>8. drain' \in Drain /\ InHand'
  BY <1>1, <1>6, ReplyInHand DEF Close
<1> HIDE DEF a, k
<1>9. Open'
  <2> SUFFICES ASSUME NEW j \in Key
               PROVE  /\ attempt'[j].boot <= boot'
                      /\ ~(attempt'[j].exit = "pending" /\ attempt'[j].boot = boot')
    BY <1>7 DEF Open
  <2>1. CASE j = k
    BY <1>1, <1>3, <1>4, <1>6, <2>1 DEF IInv, Open
  <2>2. CASE j # k
    <3>1. ~Pinned(j) /\ attempt'[j] = attempt[j]
      BY <1>4, <2>2 DEF Pinned, k
    <3>2. QED BY <1>6, <3>1 DEF IInv, Open
  <2>3. QED BY <2>1, <2>2
<1>10. Proven'
  <2> SUFFICES ASSUME NEW j \in Key \ inherited PROVE ProvenAt(j)'
    BY DEF Proven, Close
  <2>1. ProvenAt(j)
    BY DEF IInv, Proven
  <2>2. sent'[j] # 0 => attempt'[j].exit \in {"pending", "sent", "unknown"}
    <3>1. CASE j = k
      BY <1>1, <1>3, <1>4, <1>6, <2>1, <3>1 DEF ProvenAt, k
    <3>2. CASE j # k
      BY <1>4, <1>6, <2>1, <3>2 DEF ProvenAt
    <3>3. QED BY <3>1, <3>2
  <2>3. QED BY <1>6, <2>1, <2>2 DEF ProvenAt, NoRoute
<1>11. QED BY <1>4, <1>5, <1>6, <1>7, <1>8, <1>9, <1>10, Together DEF Close, IInv, TypeOK

\* A cancel marks the route.
LEMMA CancelIInv == ASSUME IInv, Cancel PROVE IInv'
<1>1. route \in Route /\ boot' = boot /\ attempt' = attempt /\ sent' = sent /\ inherited' = inherited
  BY DEF IInv, TypeOK, Cancel
<1>2. /\ route' \in Route /\ route'.key = route.key /\ route'.stage = route.stage
      /\ route'.exit = route.exit /\ route'.answer = route.answer
  BY <1>1 DEF Cancel, Route
<1>3. Shape'
  BY <1>2 DEF IInv, Shape
<1>4. Open'
  BY <1>1, <1>2 DEF IInv, Open, Pinned
<1>5. Proven'
  BY <1>1, <1>2 DEF IInv, Proven, ProvenAt
<1>6. drain' \in Drain /\ InHand'
  BY SameDrain DEF Cancel
<1>7. QED BY <1>2, <1>3, <1>4, <1>5, <1>6, Together DEF Cancel, IInv, TypeOK

\* The idle lease grows old.
LEMMA LeaseAgesIInv == ASSUME IInv, LeaseAges PROVE IInv'
<1>1. lease \in Lease /\ lease' = [lease EXCEPT !.fresh = FALSE]
  BY DEF IInv, TypeOK, LeaseAges
<1>2. lease' \in Lease
  BY <1>1 DEF Lease
<1>3. drain' \in Drain /\ InHand'
  BY SameDrain DEF LeaseAges
<1>4. rows' \in [Key -> Row]
  BY DEF IInv, TypeOK, LeaseAges
<1>5. QED BY <1>2, <1>3, <1>4, DrainOnly DEF LeaseAges

\* An open attempt of a dead process becomes unknown.
LEMMA OrphanIInv == ASSUME IInv, OrphanPinReleased PROVE IInv'
<1> DEFINE k == lease.pin
           a == [attempt[k] EXCEPT !.exit = IF @ = "pending" THEN "unknown" ELSE @]
<1>1. k \in Key /\ route = NoRoute /\ lease \in Lease
  BY DEF IInv, TypeOK, OrphanPinReleased, Lease
<1>2. attempt \in [Key -> Attempt] /\ attempt' = [attempt EXCEPT ![k] = a]
  BY DEF IInv, TypeOK, OrphanPinReleased
<1>3. /\ a \in Attempt /\ a.boot = attempt[k].boot /\ a.exit # "pending"
      /\ attempt[k].exit = "pending" => a.exit = "unknown"
      /\ attempt[k].exit # "pending" => a.exit = attempt[k].exit
  <2>1. attempt[k] \in Attempt
    BY <1>1, <1>2
  <2>2. QED BY <2>1 DEF Attempt
<1>4. /\ attempt' \in [Key -> Attempt] /\ attempt'[k] = a
      /\ \A j \in Key : j # k => attempt'[j] = attempt[j]
  BY <1>1, <1>2, <1>3
<1>5. lease' \in Lease
  <2>1. lease' = [lease EXCEPT !.pin = NoKey, !.fresh = FALSE]
    BY DEF OrphanPinReleased
  <2>2. QED BY <1>1, <2>1 DEF Lease
<1>6. ledger' \in [Key -> {"none", "completed", "ambiguous", "refused", "cancelled"}]
  BY <1>1 DEF IInv, TypeOK, OrphanPinReleased
<1>7. route' = route /\ boot' = boot /\ sent' = sent
  BY DEF OrphanPinReleased
<1>8. \A j \in Key : ~Pinned(j) /\ ~Pinned(j)'
  BY <1>1, <1>7 DEF Pinned, NoRoute
<1> HIDE DEF a, k
<1>9. Open'
  <2> SUFFICES ASSUME NEW j \in Key
               PROVE  /\ attempt'[j].boot <= boot'
                      /\ ~(attempt'[j].exit = "pending" /\ attempt'[j].boot = boot')
    BY <1>8 DEF Open
  <2>1. CASE j = k
    BY <1>3, <1>4, <1>7, <2>1 DEF IInv, Open
  <2>2. CASE j # k
    BY <1>4, <1>7, <1>8, <2>2 DEF IInv, Open
  <2>3. QED BY <2>1, <2>2
<1>10. Proven'
  <2> SUFFICES ASSUME NEW j \in Key \ inherited PROVE ProvenAt(j)'
    BY DEF Proven, OrphanPinReleased
  <2>1. ProvenAt(j)
    BY DEF IInv, Proven
  <2>2. attempt[j].exit \in {"pending", "sent", "unknown"}
          => attempt'[j].exit \in {"pending", "sent", "unknown"}
    BY <1>3, <1>4
  <2>3. QED BY <1>7, <2>1, <2>2 DEF ProvenAt
<1>11. Shape'
  BY <1>7 DEF IInv, Shape
<1>12. drain' \in Drain /\ InHand'
  BY SameDrain DEF OrphanPinReleased
<1>13. QED BY <1>4, <1>5, <1>6, <1>7, <1>9, <1>10, <1>11, <1>12, Together
           DEF OrphanPinReleased, IInv, TypeOK

\* A person releases the fence.
LEMMA ReleasedIInv == ASSUME IInv, FenceReleased PROVE IInv'
<1>1. Shape' /\ Open' /\ Proven'
  BY Frame DEF FenceReleased
<1>2. drain' \in Drain /\ InHand'
  BY SameDrain DEF FenceReleased
<1>3. QED BY <1>1, <1>2, Together DEF FenceReleased, IInv, TypeOK

\* The next process has begun no attempt; the words a hop may have put in are
\* those of an attempt left open.
LEMMA CrashIInv == ASSUME IInv, Crash PROVE IInv'
<1>1. /\ boot \in Boots /\ boot' = boot + 1 /\ boot' \in Boots
      /\ route' = NoRoute /\ drain' = Idle /\ attempt' = attempt
  BY BoundsAssumption DEF IInv, TypeOK, Crash, Boots
<1>2. /\ sent' \in [Key -> Nat]
      /\ \A j \in Key : sent'[j] = sent[j]
           \/ (j = route.key /\ route.stage \in {"live", "spawn"} /\ sent'[j] = sent[j] + 1)
  <2>1. sent \in [Key -> Nat] /\ (route.stage # "none" => route.key \in Key)
    BY DEF IInv, TypeOK, Shape
  <2>2. QED BY <2>1 DEF Crash, Sends
<1>3. TypeOK'
  BY <1>1, <1>2, Shapes DEF IInv, TypeOK, Crash, Boots
<1>4. InHand'
  BY <1>1 DEF InHand, Idle
<1>5. Shape' /\ \A j \in Key : ~Pinned(j)'
  BY <1>1 DEF Shape, Pinned, NoRoute
<1>6. Open'
  <2> SUFFICES ASSUME NEW j \in Key
               PROVE  attempt'[j].boot <= boot' /\ attempt'[j].boot # boot'
    BY <1>5 DEF Open
  <2>1. attempt[j].boot \in Nat /\ attempt[j].boot <= boot /\ boot \in Nat
    BY BoundsAssumption DEF IInv, TypeOK, Open, Attempt, Boots
  <2>2. QED BY <1>1, <2>1
<1>7. Proven'
  <2> SUFFICES ASSUME NEW j \in Key \ inherited PROVE ProvenAt(j)'
    BY DEF Proven, Crash
  <2>1. ProvenAt(j)
    BY DEF IInv, Proven
  <2>2. CASE sent'[j] = sent[j]
    BY <1>1, <2>1, <2>2 DEF ProvenAt, NoRoute
  <2>3. CASE j = route.key /\ route.stage \in {"live", "spawn"} /\ sent'[j] = sent[j] + 1
    <3>1. sent[j] = 0
      BY <2>1, <2>3 DEF ProvenAt
    <3>2. attempt[j].exit = "pending"
      BY <2>3 DEF IInv, Open, Pinned
    <3>3. QED BY <1>1, <2>3, <3>1, <3>2 DEF ProvenAt, NoRoute
  <2>4. QED BY <1>2, <2>2, <2>3
<1>8. QED BY <1>3, <1>4, <1>5, <1>6, <1>7 DEF IInv

-----------------------------------------------------------------------------
\* No step leaves the invariant.
THEOREM StepIInv == IInv /\ [Next]_vars => IInv'
<1> SUFFICES ASSUME IInv, [Next]_vars PROVE IInv'
  OBVIOUS
<1>1. ASSUME NEW k \in Key,
             \/ Park(k) \/ Delete(k) \/ Prune(k)
             \/ Reconcile(k) \/ DrainRetires(k) \/ DrainStarts(k) \/ PhoneSends(k)
             \/ \E c \in Key : Resend(k, c)
      PROVE  IInv'
  BY <1>1, ParkIInv, DeleteIInv, PruneIInv, ReconcileIInv, RetiresIInv, StartsIInv,
     PhoneSendsIInv, ResendIInv
<1>2. CASE Tick
  BY <1>2, TickIInv
<1>3. CASE DrainAttachFails \/ DrainAttaches \/ DrainPosts \/ DrainSettles \/ DeliverTimesOut
  BY <1>3, AttachFailsIInv, AttachesIInv, PostsIInv, SettlesIInv, TimesOutIInv
<1>4. CASE PhoneAttaches \/ HeadRefused \/ Pin \/ LiveMisses \/ Close \/ Cancel
  BY <1>4, PhoneAttachesIInv, HeadRefusedIInv, PinIInv, MissesIInv, CloseIInv, CancelIInv
<1>5. CASE \/ LiveDelivers \/ LiveUnverified
           \/ SpawnDelivers \/ SpawnNeverOpens \/ SpawnAmbiguous \/ SpawnCancelled
  BY <1>5, EndsIInv
<1>6. CASE LeaseAges \/ OrphanPinReleased \/ FenceReleased \/ Crash
  BY <1>6, LeaseAgesIInv, OrphanIInv, ReleasedIInv, CrashIInv
<1>7. CASE UNCHANGED vars
  <2>1. drain' \in Drain /\ InHand'
    BY <1>7, SameDrain DEF vars
  <2>2. QED BY <1>7, <2>1, DrainOnly DEF vars, IInv, TypeOK
<1>8. QED BY <1>1, <1>2, <1>3, <1>4, <1>5, <1>6, <1>7 DEF Next

\* The invariant holds in every reachable state.
THEOREM Invariance == Spec => []IInv
<1>1. QED BY InitIInv, StepIInv, PTL DEF Spec

\* Every reachable state is well typed.
THEOREM Typing == Spec => []TypeOK
<1>1. IInv => TypeOK
  BY DEF IInv
<1>2. QED BY <1>1, Invariance, PTL

\* No key of this build puts its words in the session twice.
THEOREM Once == Spec => []WordsSentOnce
<1>1. IInv => WordsSentOnce
  BY DEF IInv, Proven, ProvenAt, WordsSentOnce
<1>2. QED BY <1>1, Invariance, PTL

-----------------------------------------------------------------------------
\* Who may write a row that is neither waiting nor absent.
LEMMA Writers ==
  ASSUME IInv, [Next]_vars, NEW k \in Key, rows[k].status \notin {"none", "waiting"}
  PROVE  \/ rows'[k] = rows[k]
         \/ rows'[k] = NoRow
         \/ /\ rows[k].resentAs = NoKey
            /\ \E c \in Key : rows'[k] = [rows[k] EXCEPT !.resentAs = c]
         \/ Reconcile(k)
         \/ drain.at = "answered" /\ drain.key = k
<1> rows \in [Key -> Row]
  BY DEF IInv, TypeOK
<1>1. ASSUME NEW j \in Key, Park(j) \/ Delete(j) \/ DrainRetires(j) \/ DrainStarts(j)
      PROVE  rows'[k] = rows[k]
  <2>1. rows[j].status \in {"none", "waiting"}
    BY <1>1 DEF Park, Delete, Deletable, DrainRetires, DrainStarts, Judging
  <2>2. j # k
    BY <2>1
  <2>3. QED BY <1>1, <2>2 DEF Park, Delete, DrainRetires, DrainStarts
<1>2. ASSUME NEW j \in Key, Prune(j)
      PROVE  rows'[k] \in {rows[k], NoRow}
  BY <1>2 DEF Prune
<1>3. ASSUME NEW j \in Key, Reconcile(j), j # k
      PROVE  rows'[k] = rows[k]
  BY <1>3 DEF Reconcile
<1>4. ASSUME NEW j \in Key, NEW c \in Key, Resend(j, c)
      PROVE  \/ rows'[k] = rows[k]
             \/ /\ rows[k].resentAs = NoKey
                /\ rows'[k] = [rows[k] EXCEPT !.resentAs = c]
  <2>1. c # k
    BY <1>4 DEF Resend, Unused
  <2>2. rows' = [rows EXCEPT ![j] = [rows[j] EXCEPT !.resentAs = c], ![c] = Parked]
    BY <1>4 DEF Resend
  <2>3. CASE j = k
    BY <1>4, <2>1, <2>2, <2>3 DEF Resend
  <2>4. CASE j # k
    BY <2>1, <2>2, <2>4
  <2>5. QED BY <2>3, <2>4
<1>5. ASSUME Tick PROVE rows'[k] = rows[k]
  BY <1>5 DEF Tick, Live
<1>6. ASSUME DrainSettles, drain.key # k PROVE rows'[k] = rows[k]
  BY <1>6 DEF DrainSettles
<1>7. ASSUME \/ UNCHANGED vars
             \/ \E j \in Key : PhoneSends(j)
             \/ DrainAttachFails \/ DrainAttaches \/ DrainPosts \/ PhoneAttaches
             \/ DeliverTimesOut \/ HeadRefused \/ Pin \/ LiveDelivers \/ LiveUnverified
             \/ LiveMisses \/ SpawnDelivers \/ SpawnNeverOpens \/ SpawnAmbiguous
             \/ SpawnCancelled \/ Close \/ Cancel \/ LeaseAges \/ OrphanPinReleased
             \/ FenceReleased \/ Crash
      PROVE  rows' = rows
  BY <1>7 DEF vars, PhoneSends, DrainAttachFails, DrainAttaches, DrainPosts, PhoneAttaches,
       DeliverTimesOut, HeadRefused, Pin, LiveDelivers, LiveUnverified, LiveMisses, SpawnDelivers,
       SpawnNeverOpens, SpawnAmbiguous, SpawnCancelled, Close, Cancel, LeaseAges,
       OrphanPinReleased, FenceReleased, Crash
<1>8. CASE DrainSettles
  BY <1>6, <1>8 DEF DrainSettles
<1>9. CASE \E j \in Key : Park(j) \/ Delete(j) \/ DrainRetires(j) \/ DrainStarts(j)
  BY <1>1, <1>9
<1>10. CASE \E j \in Key : Prune(j) \/ Reconcile(j) \/ \E c \in Key : Resend(j, c)
  BY <1>2, <1>3, <1>4, <1>10
<1>11. QED BY <1>5, <1>7, <1>8, <1>9, <1>10 DEF Next

\* A settled row keeps its outcome.
THEOREM Stays == Spec => SettledStays
<1>1. ASSUME IInv, [Next]_vars, NEW k \in Key,
             rows[k].status \in Settled, rows'[k].status # "none"
      PROVE  /\ rows'[k].status = rows[k].status
             /\ rows'[k].unknown <=> rows[k].unknown
             /\ rows'[k].resentAs # rows[k].resentAs => rows[k].resentAs = NoKey
  <2>1. rows[k].status \notin {"none", "waiting", "delivering"}
    BY <1>1 DEF Settled
  <2>2. ~Reconcile(k) /\ ~(drain.at = "answered" /\ drain.key = k)
    BY <1>1, <2>1 DEF Reconcile, Stranded, IInv, InHand
  <2>3. rows'[k] # NoRow
    BY <1>1 DEF NoRow
  <2>4. rows[k] \in Row
    BY <1>1 DEF IInv, TypeOK
  <2>5. CASE rows'[k] = rows[k]
    BY <2>5
  <2>6. CASE rows[k].resentAs = NoKey /\ \E c \in Key : rows'[k] = [rows[k] EXCEPT !.resentAs = c]
    BY <2>4, <2>6 DEF Row
  <2>7. QED BY <1>1, <2>1, <2>2, <2>3, <2>5, <2>6, Writers
<1>2. IInv /\ [Next]_vars =>
        [\A k \in Key :
           rows[k].status \in Settled /\ rows'[k].status # "none"
             => /\ rows'[k].status = rows[k].status
                /\ rows'[k].unknown = rows[k].unknown
                /\ rows'[k].resentAs # rows[k].resentAs => rows[k].resentAs = NoKey]_vars
  <2> SUFFICES ASSUME IInv, [Next]_vars, NEW k \in Key,
                      rows[k].status \in Settled, rows'[k].status # "none"
               PROVE  /\ rows'[k].status = rows[k].status
                      /\ rows'[k].unknown = rows[k].unknown
                      /\ rows'[k].resentAs # rows[k].resentAs => rows[k].resentAs = NoKey
    OBVIOUS
  <2>1. rows[k].unknown \in BOOLEAN /\ rows'[k].unknown \in BOOLEAN
    <3>1. rows[k] \in Row
      BY DEF IInv, TypeOK
    <3>2. rows'[k] \in Row
      BY StepIInv DEF IInv, TypeOK
    <3>3. QED BY <3>1, <3>2 DEF Row
  <2>2. QED BY <1>1, <2>1
<1>3. QED BY <1>2, Invariance, PTL DEF Spec, SettledStays

\* A row put back to wait after a restart was not sent.
THEOREM Requeued == Spec => RequeuedWasUnsent
<1>1. ASSUME IInv, [Next]_vars, NEW k \in Key, Stranded(k), rows'[k].status = "waiting"
      PROVE  /\ rows[k].boot # 0
             /\ k \notin inherited => sent[k] = 0
             /\ ~(route.key = k /\ route.stage \in {"live", "spawn"})
  <2>1. rows[k].status = "delivering" /\ rows[k].boot # boot /\ rows[k] \in Row
    BY <1>1 DEF Stranded, IInv, TypeOK
  <2>2. ~(drain.at = "answered" /\ drain.key = k)
    BY <1>1, <2>1 DEF IInv, InHand
  <2>3. ASSUME NEW c \in Key PROVE rows'[k] # [rows[k] EXCEPT !.resentAs = c]
    BY <1>1, <2>1 DEF Row
  <2>4. rows'[k] # NoRow /\ rows'[k] # rows[k]
    BY <1>1, <2>1 DEF NoRow
  <2>5. Reconcile(k)
    BY <1>1, <2>1, <2>2, <2>3, <2>4, Writers
  <2>6. PICK verdict \in Verdicts(k) : rows' = [rows EXCEPT ![k] = Reconciled(rows[k], verdict)]
    BY <2>5 DEF Reconcile
  <2>7. rows'[k] = Reconciled(rows[k], verdict)
    BY <1>1, <2>6 DEF IInv, TypeOK
  <2>8. verdict = "not_delivered"
    BY <1>1, <2>7 DEF Reconciled, Ended, NoRow
  <2>9. rows[k].boot # 0 /\ attempt[k].exit \in {"none", "not_sent"}
    BY <2>6, <2>8 DEF Verdicts, Unproven
  <2>10. ~(route.key = k /\ route.stage \in {"live", "spawn"})
    BY <1>1, <2>9 DEF IInv, Open, Pinned
  <2>11. ASSUME k \notin inherited PROVE sent[k] = 0
    BY <1>1, <2>9, <2>11 DEF IInv, Proven, ProvenAt
  <2>12. QED BY <2>9, <2>10, <2>11
<1>2. IInv /\ [Next]_vars =>
        [\A k \in Key :
           Stranded(k) /\ rows'[k].status = "waiting"
             => /\ rows[k].boot # 0
                /\ k \notin inherited => sent[k] = 0
                /\ ~(route.key = k /\ route.stage \in {"live", "spawn"})]_vars
  BY <1>1
<1>3. QED BY <1>2, Invariance, PTL DEF Spec, RequeuedWasUnsent
===============================================================================
