-------------------------- MODULE MediaStore_proofs --------------------------
(***************************************************************************)
(* What MediaStore promises of its media, for any number of media, queue   *)
(* items, failed saves and boots.                                          *)
(*                                                                         *)
(* The invariant adds one thing to the properties: the index, too, says    *)
(* who holds a reservation that was saved when it was confirmed, because   *)
(* it is all that the next boot has.                                       *)
(***************************************************************************)
EXTENDS MediaStore, TLAPS

\* A reservation in the index has its queue item.
DiskTyped == \A a \in Asset : disk[a].life = "reserved" => disk[a].owner \in Owner

\* A reservation that was saved when it was confirmed stands in the index.
HeldOnDisk ==
  ~lost => \A h \in holds : h.saved => Serves(disk[h.asset], h.by)

IInv == TypeOK /\ DiskTyped /\ LiveHasBytes /\ AssociateWins /\ ReservationKept /\ HeldOnDisk

-----------------------------------------------------------------------------
(* Saves and records *)

\* A save leaves the index as it was or as it is to be.
LEMMA SaveEffect ==
  ASSUME NEW recs \in [Asset -> Record], NEW ok \in BOOLEAN, TypeOK, Save(recs, ok)
  PROVE  disk' \in {disk, recs} /\ file' \in BOOLEAN /\ fails' \in 0 .. MaxFails
<1>1. CASE ok BY <1>1 DEF Save, TypeOK
<1>2. CASE ~ok
  <2>1. fails' \in 0 .. MaxFails BY <1>2, FaultAssumption DEF Save, Fails, TypeOK
  <2>2. \/ UNCHANGED <<disk, file>>
        \/ disk' = recs /\ file' = TRUE
    BY <1>2 DEF Save
  <2> QED BY <2>1, <2>2 DEF TypeOK
<1> QED BY <1>1, <1>2

LEMMA UpdateEffect ==
  ASSUME NEW recs \in [Asset -> Record], NEW ok \in BOOLEAN, TypeOK, Update(recs, ok)
  PROVE  /\ rec' = recs /\ disk' \in {disk, recs}
         /\ file' \in BOOLEAN /\ fails' \in 0 .. MaxFails
<1>1. CASE recs = rec BY <1>1 DEF Update, TypeOK
<1>2. CASE recs # rec BY <1>2, SaveEffect DEF Update
<1> QED BY <1>1, <1>2

LEMMA AsRecord ==
  ASSUME NEW life \in {"none"} \cup Live \cup Tombstone
  PROVE  /\ As(life) \in Record /\ [As(life) EXCEPT !.gone = TRUE] \in Record
         /\ As(life).life = life /\ ~As(life).gone /\ As(life).owner = NoOwner
         /\ [As(life) EXCEPT !.gone = TRUE].life = life
<1> QED BY DEF As, Record

LEMMA ReservedRecord ==
  ASSUME NEW r \in Record, NEW q \in Owner
  PROVE  [r EXCEPT !.life = "reserved", !.owner = q] \in Record
<1> QED BY DEF Record, Live

LEMMA OwnedRecord ==
  ASSUME NEW r \in Record
  PROVE  [r EXCEPT !.life = "associated", !.old = FALSE, !.owner = NoOwner] \in Record
<1> QED BY DEF Record, Live

\* A call on the records keeps the invariant if it changes only what is known,
\* takes nothing from a message, removes the bytes of what it buries alone, and
\* promises no more than it has saved.
LEMMA CallKeeps ==
  ASSUME IInv, NEW recs \in [Asset -> Record],
         rec' = recs, disk' \in {disk, recs}, file' \in BOOLEAN, fails' \in 0 .. MaxFails,
         dir' \in [Asset -> {"none", "bytes", "intent"}],
         UNCHANGED <<pub, tidy, boots, lost>>,
         told' \in [Asset -> BOOLEAN], holds' \in SUBSET Hold,
         \A a \in Asset :
           /\ dir'[a] = dir[a] \/ (dir'[a] = "none" /\ recs[a].life \in Tombstone)
           /\ (recs[a] = rec[a] /\ dir'[a] = dir[a]) \/ rec[a].life # "none"
           /\ rec[a].life = "associated" => recs[a].life = "associated" /\ dir'[a] = dir[a]
           /\ recs[a].life \in Live => rec[a].life \in Live /\ (rec[a].gone => recs[a].gone)
           /\ recs[a].life = "reserved" => recs[a].owner \in Owner,
         \A h \in holds' : ~lost =>
           /\ Serves(recs[h.asset], h.by)
           /\ h \in holds \/ (h.saved => Serves(disk'[h.asset], h.by))
  PROVE  IInv'
<1> USE DEF IInv
<1>1. TypeOK'
  <2>1. \A a \in Asset : pub'[a] # "no" => rec'[a].life = "none" /\ dir'[a] # "none"
    BY DEF TypeOK, Live, Tombstone
  <2> QED BY <2>1 DEF TypeOK
<1>2. DiskTyped' BY DEF DiskTyped
<1>3. LiveHasBytes' BY DEF LiveHasBytes, Live, Tombstone
<1>4. AssociateWins' BY DEF AssociateWins, LiveHasBytes, Live, Tombstone
<1>5. ReservationKept' BY DEF ReservationKept
<1>6. HeldOnDisk' BY DEF ReservationKept, HeldOnDisk
<1> QED BY <1>1, <1>2, <1>3, <1>4, <1>5, <1>6

-----------------------------------------------------------------------------
(* The lifecycle calls *)

\* Records of which some are changed, and files of which some are removed.
LEMMA ChangedRecords ==
  ASSUME TypeOK, NEW S \in SUBSET Asset, NEW f, \A a \in S : f[a] \in Record
  PROVE  /\ Changed(S, f) \in [Asset -> Record]
         /\ \A a \in S : Changed(S, f)[a] = f[a]
         /\ \A a \in Asset \ S : Changed(S, f)[a] = rec[a]
<1> QED BY DEF Changed, TypeOK

LEMMA BuriedRecords ==
  ASSUME TypeOK, NEW S \in SUBSET Asset, NEW life \in Tombstone
  PROVE  /\ Buried(S, life) \in [Asset -> Record]
         /\ \A a \in S : Buried(S, life)[a].life = life
         /\ \A a \in Asset \ S : Buried(S, life)[a] = rec[a]
<1> DEFINE f == [a \in S |-> [As(life) EXCEPT !.gone = TRUE]]
<1>1. \A a \in S : f[a] \in Record /\ f[a].life = life BY AsRecord
<1>2. Buried(S, life) = Changed(S, f) BY DEF Buried
<1> HIDE DEF f
<1>3. /\ Changed(S, f) \in [Asset -> Record]
      /\ \A a \in S : Changed(S, f)[a] = f[a]
      /\ \A a \in Asset \ S : Changed(S, f)[a] = rec[a]
  BY <1>1, ChangedRecords
<1> QED BY <1>1, <1>2, <1>3

\* What buries what is neither unknown nor a message's keeps the invariant.
LEMMA BuryKeeps ==
  ASSUME IInv, NEW S \in SUBSET Asset, NEW life \in Tombstone, NEW ok \in BOOLEAN,
         \A a \in S : rec[a].life \notin {"none", "associated"},
         Update(Buried(S, life), ok), Removes(S),
         holds' \in SUBSET holds, \A h \in holds' : ~lost => h.asset \notin S,
         UNCHANGED <<pub, tidy, boots, lost, told>>
  PROVE  IInv'
<1> DEFINE recs == Buried(S, life)
<1>1. TypeOK BY DEF IInv
<1>2. /\ recs \in [Asset -> Record]
      /\ \A a \in S : recs[a].life = life
      /\ \A a \in Asset \ S : recs[a] = rec[a]
  BY <1>1, BuriedRecords
<1>3. /\ rec' = recs /\ disk' \in {disk, recs}
      /\ file' \in BOOLEAN /\ fails' \in 0 .. MaxFails
  BY <1>1, <1>2, UpdateEffect
<1> HIDE DEF recs
<1>4. /\ dir' \in [Asset -> {"none", "bytes", "intent"}]
      /\ told' \in [Asset -> BOOLEAN] /\ holds' \in SUBSET Hold
      /\ \A a \in S : dir'[a] = "none"
      /\ \A a \in Asset \ S : dir'[a] = dir[a]
  BY <1>1 DEF Removes, TypeOK
<1>5. \A a \in Asset :
        /\ dir'[a] = dir[a] \/ (dir'[a] = "none" /\ recs[a].life \in Tombstone)
        /\ (recs[a] = rec[a] /\ dir'[a] = dir[a]) \/ rec[a].life # "none"
        /\ rec[a].life = "associated" => recs[a].life = "associated" /\ dir'[a] = dir[a]
        /\ recs[a].life \in Live => rec[a].life \in Live /\ (rec[a].gone => recs[a].gone)
        /\ recs[a].life = "reserved" => recs[a].owner \in Owner
  <2> TAKE a \in Asset
  <2>1. CASE a \in S BY <2>1, <1>2, <1>4 DEF Live, Tombstone
  <2>2. CASE a \notin S
    <3>1. recs[a] = rec[a] /\ dir'[a] = dir[a] BY <2>2, <1>2, <1>4
    <3>2. rec[a].life = "reserved" => rec[a].owner \in Owner BY <1>1 DEF TypeOK
    <3> QED BY <3>1, <3>2
  <2> QED BY <2>1, <2>2
<1>6. \A h \in holds' : ~lost => Serves(recs[h.asset], h.by) /\ h \in holds
  BY <1>1, <1>2 DEF IInv, ReservationKept, TypeOK, Hold
<1> QED BY <1>2, <1>3, <1>4, <1>5, <1>6, CallKeeps

LEMMA ReleaseKeeps ==
  ASSUME IInv, NEW S \in SUBSET Asset, NEW q \in Owner \cup {NoOwner}, NEW ok \in BOOLEAN,
         Release(S, q, ok)
  PROVE  IInv'
<1> DEFINE mine == {a \in S : \/ rec[a].life = "staged"
                              \/ rec[a].life = "reserved" /\ rec[a].owner = q}
<1>1. /\ Update(Buried(mine, "expired"), ok) /\ Removes(mine)
      /\ holds' = holds \ {h \in holds : h.asset \in S /\ h.by = q}
      /\ UNCHANGED <<pub, tidy, boots, lost, told>>
  BY DEF Release, Frees
<1>2. \A h \in holds' : ~lost => h.asset \notin mine
  BY <1>1 DEF IInv, ReservationKept, Serves
<1>3. holds' \in SUBSET holds BY <1>1
<1> QED BY <1>1, <1>2, <1>3, BuryKeeps DEF Tombstone

\* What is deleted as unassociated is no longer held, and what is only staged never was.
LEMMA DeletesKeeps ==
  ASSUME IInv, NEW a \in Asset, NEW ok \in BOOLEAN,
         DeleteUnassociated(a, ok) \/ DeleteExactlyStaged(a, ok)
  PROVE  IInv'
<1>1. /\ Update(Buried({a}, "deleted"), ok) /\ Removes({a})
      /\ UNCHANGED <<pub, tidy, boots, lost, told>>
      /\ rec[a].life \notin {"none", "associated"}
  BY DEF DeleteUnassociated, DeleteExactlyStaged, Deletes
<1>2. holds' \in SUBSET holds /\ \A h \in holds' : ~lost => h.asset \notin {a}
  BY DEF DeleteUnassociated, DeleteExactlyStaged, Frees, HoldsOn, IInv, ReservationKept, Serves
<1> QED BY <1>1, <1>2, BuryKeeps DEF Tombstone

LEMMA CollectKeeps ==
  ASSUME IInv, NEW ok \in BOOLEAN, Collect(ok)
  PROVE  IInv'
<1> DEFINE late == {a \in Asset : rec[a].life \in {"staged", "reserved"} /\ rec[a].old}
           pruned == {a \in Asset : rec[a].life \in Tombstone /\ rec[a].old}
           recs == [a \in Asset |-> IF a \in pruned THEN Unknown ELSE Buried(late, "expired")[a]]
<1>1. TypeOK BY DEF IInv
<1>2. /\ Buried(late, "expired") \in [Asset -> Record]
      /\ \A a \in late : Buried(late, "expired")[a].life = "expired"
      /\ \A a \in Asset \ late : Buried(late, "expired")[a] = rec[a]
  BY <1>1, BuriedRecords DEF Tombstone
<1>3. Unknown \in Record /\ Unknown.life = "none" BY AsRecord DEF Unknown
<1>4. recs \in [Asset -> Record] BY <1>2, <1>3
<1>5. /\ Update(recs, ok) /\ Removes(late) /\ UNCHANGED <<pub, tidy, boots, lost, told>>
      /\ holds' = holds \ {h \in holds : rec[h.asset].old}
  BY DEF Collect, Frees
<1>6. /\ rec' = recs /\ disk' \in {disk, recs}
      /\ file' \in BOOLEAN /\ fails' \in 0 .. MaxFails
  BY <1>1, <1>4, <1>5, UpdateEffect
<1>7. /\ dir' \in [Asset -> {"none", "bytes", "intent"}]
      /\ told' \in [Asset -> BOOLEAN] /\ holds' \in SUBSET Hold
      /\ \A a \in late : dir'[a] = "none"
      /\ \A a \in Asset \ late : dir'[a] = dir[a]
  BY <1>1, <1>5 DEF Removes, TypeOK
<1>8. \A a \in Asset :
        \/ a \in late /\ recs[a].life = "expired" /\ rec[a].life \in {"staged", "reserved"}
        \/ a \notin late /\ recs[a].life = "none" /\ rec[a].life \in Tombstone
        \/ a \notin late /\ recs[a] = rec[a]
  BY <1>2, <1>3 DEF Tombstone
<1>11. \A a \in late \cup pruned : rec[a].old OBVIOUS
<1>12. \A a \in Asset \ (late \cup pruned) : recs[a] = rec[a] BY <1>2
<1> HIDE DEF late, pruned, recs
<1>9. \A a \in Asset :
        /\ dir'[a] = dir[a] \/ (dir'[a] = "none" /\ recs[a].life \in Tombstone)
        /\ (recs[a] = rec[a] /\ dir'[a] = dir[a]) \/ rec[a].life # "none"
        /\ rec[a].life = "associated" => recs[a].life = "associated" /\ dir'[a] = dir[a]
        /\ recs[a].life \in Live => rec[a].life \in Live /\ (rec[a].gone => recs[a].gone)
        /\ recs[a].life = "reserved" => recs[a].owner \in Owner
  <2> TAKE a \in Asset
  <2>1. CASE a \in late BY <2>1, <1>7, <1>8 DEF Live, Tombstone
  <2>2. CASE a \notin late
    <3>1. dir'[a] = dir[a] BY <2>2, <1>7
    <3>2. rec[a].life = "reserved" => rec[a].owner \in Owner BY <1>1 DEF TypeOK
    <3>3. \/ recs[a].life = "none" /\ rec[a].life \in Tombstone
          \/ recs[a] = rec[a]
      BY <2>2, <1>8
    <3> QED BY <3>1, <3>2, <3>3 DEF Live, Tombstone
  <2> QED BY <2>1, <2>2
<1>10. \A h \in holds' : ~lost => Serves(recs[h.asset], h.by) /\ h \in holds
  <2> SUFFICES ASSUME ~lost, NEW h \in holds' PROVE Serves(recs[h.asset], h.by) /\ h \in holds
    OBVIOUS
  <2>1. h \in holds /\ h.asset \in Asset /\ ~rec[h.asset].old BY <1>1, <1>5 DEF TypeOK, Hold
  <2>2. recs[h.asset] = rec[h.asset] BY <2>1, <1>11, <1>12
  <2> QED BY <2>1, <2>2 DEF IInv, ReservationKept
<1> QED BY <1>4, <1>5, <1>6, <1>7, <1>9, <1>10, CallKeeps

LEMMA ReserveKeeps ==
  ASSUME IInv, NEW S \in SUBSET Asset, NEW q \in Owner, NEW ok \in BOOLEAN,
         Reserve(S, q, ok)
  PROVE  IInv'
<1> DEFINE fresh == {a \in S : rec[a].life = "staged"}
           f == [a \in fresh |-> [rec[a] EXCEPT !.life = "reserved", !.owner = q]]
           recs == Changed(fresh, f)
<1>1. TypeOK BY DEF IInv
<1>2. \A a \in fresh : /\ f[a] \in Record /\ f[a].life = "reserved" /\ f[a].owner = q
                       /\ f[a].gone = rec[a].gone
  <2> TAKE a \in fresh
  <2>1. rec[a] \in Record BY <1>1 DEF TypeOK
  <2>2. [rec[a] EXCEPT !.life = "reserved", !.owner = q] \in Record BY <2>1, ReservedRecord
  <2> QED BY <2>1, <2>2 DEF Record
<1>3. fresh \in SUBSET Asset OBVIOUS
<1>4. /\ Update(recs, ok) /\ \A a \in S : Reservable(a, q)
      /\ holds' = holds \cup {[asset |-> a, by |-> q, saved |-> rec' # rec \/ Serves(disk[a], q)] :
                               a \in {b \in S : ok /\ rec'[b].life = "reserved"}}
      /\ UNCHANGED <<dir, pub, tidy, boots, lost, told>>
  BY DEF Reserve
<1>5. \A a \in Asset : a \in fresh <=> a \in S /\ rec[a].life = "staged" OBVIOUS
<1> HIDE DEF fresh, f
<1>6. /\ recs \in [Asset -> Record]
      /\ \A a \in fresh : recs[a] = f[a]
      /\ \A a \in Asset \ fresh : recs[a] = rec[a]
  BY <1>1, <1>2, <1>3, ChangedRecords
<1> HIDE DEF recs
<1>7. /\ rec' = recs /\ disk' \in {disk, recs}
      /\ file' \in BOOLEAN /\ fails' \in 0 .. MaxFails
  BY <1>1, <1>4, <1>6, UpdateEffect
<1>8. /\ dir' \in [Asset -> {"none", "bytes", "intent"}]
      /\ told' \in [Asset -> BOOLEAN] /\ holds' \in SUBSET Hold
  <2>1. \A a \in S : [asset |-> a, by |-> q, saved |-> rec' # rec \/ Serves(disk[a], q)] \in Hold
    <3> SUFFICES ASSUME NEW a \in S, NEW b \in BOOLEAN PROVE [asset |-> a, by |-> q, saved |-> b] \in Hold
      BY DEF Serves
    <3> QED BY DEF Hold
  <2>2. holds \in SUBSET Hold BY <1>1 DEF TypeOK
  <2>3. holds' \in SUBSET Hold BY <2>1, <2>2, <1>4
  <2> QED BY <1>1, <1>4, <2>3 DEF TypeOK
<1>9. \A a \in Asset :
        /\ dir'[a] = dir[a] \/ (dir'[a] = "none" /\ recs[a].life \in Tombstone)
        /\ (recs[a] = rec[a] /\ dir'[a] = dir[a]) \/ rec[a].life # "none"
        /\ rec[a].life = "associated" => recs[a].life = "associated" /\ dir'[a] = dir[a]
        /\ recs[a].life \in Live => rec[a].life \in Live /\ (rec[a].gone => recs[a].gone)
        /\ recs[a].life = "reserved" => recs[a].owner \in Owner
  <2> TAKE a \in Asset
  <2>1. CASE a \in fresh BY <2>1, <1>2, <1>4, <1>5, <1>6 DEF Live, Tombstone
  <2>2. CASE a \notin fresh
    <3>1. rec[a].life = "reserved" => rec[a].owner \in Owner BY <1>1 DEF TypeOK
    <3> QED BY <2>2, <3>1, <1>4, <1>6
  <2> QED BY <2>1, <2>2
<1>10. \A h \in holds' : ~lost =>
         /\ Serves(recs[h.asset], h.by)
         /\ h \in holds \/ (h.saved => Serves(disk'[h.asset], h.by))
  <2> SUFFICES ASSUME ~lost, NEW h \in holds'
               PROVE  /\ Serves(recs[h.asset], h.by)
                      /\ h \in holds \/ (h.saved => Serves(disk'[h.asset], h.by))
    OBVIOUS
  <2>1. CASE h \in holds
    <3>1. Serves(rec[h.asset], h.by) /\ h.asset \in Asset
      BY <1>1, <2>1 DEF IInv, ReservationKept, TypeOK, Hold
    <3>2. recs[h.asset] = rec[h.asset] BY <3>1, <1>5, <1>6 DEF Serves
    <3> QED BY <2>1, <3>1, <3>2
  <2>2. CASE h \notin holds
    <3>1. PICK a \in S : /\ ok /\ rec'[a].life = "reserved"
                         /\ h = [asset |-> a, by |-> q, saved |-> rec' # rec \/ Serves(disk[a], q)]
      BY <2>2, <1>4
    <3>2. recs[a].owner = q
      <4>1. CASE a \in fresh BY <4>1, <1>2, <1>6
      <4>2. CASE a \notin fresh
        <5>1. recs[a] = rec[a] /\ rec[a].life = "reserved" BY <4>2, <3>1, <1>6, <1>7
        <5> QED BY <5>1, <1>4 DEF Reservable
      <4> QED BY <4>1, <4>2
    <3>3. Serves(recs[a], q) BY <3>1, <3>2, <1>7 DEF Serves
    <3>4. h.asset = a /\ h.by = q /\ h.saved = (rec' # rec \/ Serves(disk[a], q)) BY <3>1
    <3>5. rec' # rec => disk' = recs BY <3>1, <1>4, <1>7 DEF Update, Save
    <3>6. rec' = rec => disk' = disk BY <1>4, <1>7 DEF Update
    <3> QED BY <3>3, <3>4, <3>5, <3>6
  <2> QED BY <2>1, <2>2
<1> QED BY <1>4, <1>6, <1>7, <1>8, <1>9, <1>10, CallKeeps

\* Giving live media to a message keeps the invariant, saved or not.
LEMMA OwnKeeps ==
  ASSUME IInv, NEW S \in SUBSET Asset, \A a \in S : rec[a].life \in Live,
         rec' = Owned(S), disk' \in {disk, Owned(S)}, file' \in BOOLEAN, fails' \in 0 .. MaxFails,
         told' \in [Asset -> BOOLEAN], UNCHANGED <<dir, pub, tidy, boots, lost, holds>>
  PROVE  Owned(S) \in [Asset -> Record] /\ IInv'
<1> DEFINE f == [a \in S |-> [rec[a] EXCEPT !.life = "associated", !.old = FALSE, !.owner = NoOwner]]
           recs == Owned(S)
<1>1. TypeOK BY DEF IInv
<1>2. \A a \in S : f[a] \in Record /\ f[a].life = "associated" /\ f[a].gone = rec[a].gone
  <2> TAKE a \in S
  <2>1. rec[a] \in Record BY <1>1 DEF TypeOK
  <2>2. [rec[a] EXCEPT !.life = "associated", !.old = FALSE, !.owner = NoOwner] \in Record
    BY <2>1, OwnedRecord
  <2> QED BY <2>1, <2>2 DEF Record
<1>3. recs = Changed(S, f) BY DEF Owned
<1> HIDE DEF f, recs
<1>4. /\ recs \in [Asset -> Record]
      /\ \A a \in S : recs[a] = f[a]
      /\ \A a \in Asset \ S : recs[a] = rec[a]
  <2>1. \A a \in S : f[a] \in Record BY <1>2
  <2>2. /\ Changed(S, f) \in [Asset -> Record]
        /\ \A a \in S : Changed(S, f)[a] = f[a]
        /\ \A a \in Asset \ S : Changed(S, f)[a] = rec[a]
    BY <1>1, <2>1, ChangedRecords
  <2> QED BY <1>3, <2>2
<1>5. dir' \in [Asset -> {"none", "bytes", "intent"}] /\ holds' \in SUBSET Hold
  BY <1>1 DEF TypeOK
<1>6. \A a \in Asset :
        /\ dir'[a] = dir[a] \/ (dir'[a] = "none" /\ recs[a].life \in Tombstone)
        /\ (recs[a] = rec[a] /\ dir'[a] = dir[a]) \/ rec[a].life # "none"
        /\ rec[a].life = "associated" => recs[a].life = "associated" /\ dir'[a] = dir[a]
        /\ recs[a].life \in Live => rec[a].life \in Live /\ (rec[a].gone => recs[a].gone)
        /\ recs[a].life = "reserved" => recs[a].owner \in Owner
  <2> TAKE a \in Asset
  <2>1. CASE a \in S BY <2>1, <1>2, <1>4 DEF Live
  <2>2. CASE a \notin S
    <3>1. rec[a].life = "reserved" => rec[a].owner \in Owner BY <1>1 DEF TypeOK
    <3> QED BY <2>2, <3>1, <1>4
  <2> QED BY <2>1, <2>2
<1>7. \A h \in holds' : ~lost => Serves(recs[h.asset], h.by) /\ h \in holds
  BY <1>1, <1>2, <1>4 DEF IInv, ReservationKept, TypeOK, Hold, Serves
<1>8. rec' = recs /\ disk' \in {disk, recs} BY DEF recs
<1>9. IInv' BY <1>4, <1>5, <1>6, <1>7, <1>8, CallKeeps
<1> QED BY <1>4, <1>9 DEF recs

LEMMA AssociateKeeps ==
  ASSUME IInv, NEW S \in SUBSET Asset, NEW ok \in BOOLEAN, Associate(S, ok)
  PROVE  IInv'
<1> DEFINE bad == {a \in S : rec[a].life \notin Live}
<1>1. TypeOK BY DEF IInv
<1>2. CASE bad = {}
  <2>1. \A a \in S : rec[a].life \in Live BY <1>2
  <2>2. /\ Update(Owned(S), ok)
        /\ told' = [a \in Asset |-> told[a] \/ (ok /\ a \in S)]
        /\ UNCHANGED <<dir, pub, tidy, boots, lost, holds>>
    BY <1>2 DEF Associate
  <2>3. Owned(S) \in [Asset -> Record]
    <3>1. \A a \in S : [rec[a] EXCEPT !.life = "associated", !.old = FALSE, !.owner = NoOwner] \in Record
      BY <1>1, OwnedRecord DEF TypeOK
    <3> QED BY <3>1, <1>1 DEF Owned, Changed, TypeOK
  <2>4. /\ rec' = Owned(S) /\ disk' \in {disk, Owned(S)}
        /\ file' \in BOOLEAN /\ fails' \in 0 .. MaxFails
    BY <1>1, <2>2, <2>3, UpdateEffect
  <2>5. told' \in [Asset -> BOOLEAN] BY <1>1, <2>2 DEF TypeOK
  <2> QED BY <2>1, <2>2, <2>4, <2>5, OwnKeeps
<1>3. CASE bad # {}
  <2>1. /\ \E T \in SUBSET (S \ bad) : rec' = Owned(T)
        /\ UNCHANGED <<disk, file, fails, told>> /\ UNCHANGED <<dir, pub, tidy, boots, lost, holds>>
    BY <1>3 DEF Associate
  <2>2. PICK T \in SUBSET (S \ bad) : rec' = Owned(T) BY <2>1
  <2>3. \A a \in T : rec[a].life \in Live OBVIOUS
  <2> QED BY <1>1, <2>1, <2>2, <2>3, OwnKeeps DEF TypeOK
<1> QED BY <1>2, <1>3

-----------------------------------------------------------------------------
(* Publication, time and boots *)

LEMMA PublicationKeeps ==
  ASSUME IInv, NEW a \in Asset, Move(a) \/ Intend(a)
  PROVE  IInv'
<1> USE DEF IInv
<1>1. /\ rec[a].life = "none"
      /\ UNCHANGED <<rec, disk, file, tidy, boots, lost, holds, told>>
  BY DEF Move, Intend, TypeOK, indexVars, faultVars, histVars
<1>2. fails' \in 0 .. MaxFails
  BY FaultAssumption DEF Move, Intend, Fails, TypeOK, faultVars
<1>3. /\ dir' \in [Asset -> {"none", "bytes", "intent"}]
      /\ pub' \in [Asset -> {"no", "moved", "intended"}]
      /\ \A b \in Asset : dir[b] # "none" => dir'[b] # "none"
      /\ \A b \in Asset : b # a => pub'[b] = pub[b]
      /\ dir'[a] # "none"
  BY DEF Move, Intend, TypeOK
<1>4. TypeOK'
  <2>1. \A b \in Asset : /\ pub'[b] # "no" => rec'[b].life = "none" /\ dir'[b] # "none"
                         /\ rec'[b].life = "reserved" => rec'[b].owner \in Owner
    BY <1>1, <1>3 DEF TypeOK
  <2> QED BY <1>1, <1>2, <1>3, <2>1 DEF TypeOK
<1>5. LiveHasBytes' BY <1>1, <1>3 DEF LiveHasBytes
<1>6. AssociateWins' BY <1>1, <1>3 DEF AssociateWins
<1>7. DiskTyped' /\ ReservationKept' /\ HeldOnDisk'
  BY <1>1 DEF DiskTyped, ReservationKept, HeldOnDisk
<1> QED BY <1>4, <1>5, <1>6, <1>7

LEMMA PublishKeeps ==
  ASSUME IInv, NEW a \in Asset, NEW ok \in BOOLEAN, Publish(a, ok)
  PROVE  IInv'
<1> DEFINE recs == [rec EXCEPT ![a] = As("staged")]
<1> USE DEF IInv
<1>1. As("staged") \in Record /\ As("staged").life = "staged" /\ ~As("staged").gone
  BY AsRecord DEF Live
<1>2. recs \in [Asset -> Record] /\ recs[a].life = "staged" /\ \A b \in Asset \ {a} : recs[b] = rec[b]
  BY <1>1 DEF TypeOK
<1>3. /\ pub[a] # "no" /\ pub' = [pub EXCEPT ![a] = "no"]
      /\ rec' = recs /\ Save(recs, ok)
      /\ UNCHANGED <<tidy, boots, lost, holds, told>>
  BY DEF Publish, histVars
<1> HIDE DEF recs
<1>4. disk' \in {disk, recs} /\ file' \in BOOLEAN /\ fails' \in 0 .. MaxFails
  BY <1>2, <1>3, SaveEffect
<1>5. rec[a].life = "none" /\ dir[a] # "none" BY <1>3 DEF TypeOK
<1>6. /\ dir' \in [Asset -> {"none", "bytes", "intent"}]
      /\ \A b \in Asset : dir[b] # "none" => dir'[b] # "none"
  BY DEF Publish, TypeOK
<1>7. TypeOK'
  <2>1. \A b \in Asset : /\ pub'[b] # "no" => rec'[b].life = "none" /\ dir'[b] # "none"
                         /\ rec'[b].life = "reserved" => rec'[b].owner \in Owner
    BY <1>2, <1>3, <1>6 DEF TypeOK
  <2>2. pub' \in [Asset -> {"no", "moved", "intended"}] BY <1>3 DEF TypeOK
  <2>3. rec' \in [Asset -> Record] /\ disk' \in [Asset -> Record] BY <1>2, <1>3, <1>4 DEF TypeOK
  <2> QED BY <1>3, <1>4, <1>6, <2>1, <2>2, <2>3 DEF TypeOK
<1>8. DiskTyped' BY <1>2, <1>3, <1>4, <1>7 DEF DiskTyped, TypeOK
<1>9. LiveHasBytes'
  <2> SUFFICES ASSUME NEW b \in Asset, rec'[b].life \in Live, ~rec'[b].gone
               PROVE  dir'[b] # "none"
    BY DEF LiveHasBytes
  <2>1. CASE b = a BY <2>1, <1>5, <1>6
  <2>2. CASE b # a BY <2>2, <1>2, <1>3, <1>6 DEF LiveHasBytes
  <2> QED BY <2>1, <2>2
<1>10. AssociateWins'
  <2> SUFFICES ASSUME ~lost, NEW b \in Asset, disk'[b].life = "associated"
               PROVE  rec'[b].life = "associated" /\ (disk'[b].gone \/ dir'[b] # "none")
    BY <1>3 DEF AssociateWins
  <2>1. b # a
    BY <1>2, <1>4, <1>5 DEF AssociateWins
  <2>2. rec[b].life = "associated" /\ rec'[b] = rec[b]
    BY <2>1, <1>2, <1>3, <1>4 DEF AssociateWins
  <2>3. CASE disk' = disk BY <2>2, <2>3, <1>6 DEF AssociateWins
  <2>4. CASE disk' = recs BY <2>1, <2>2, <2>4, <1>2, <1>6 DEF LiveHasBytes, Live
  <2> QED BY <2>2, <2>3, <2>4, <1>4
<1>11. ReservationKept' /\ HeldOnDisk'
  <2> SUFFICES ASSUME ~lost, NEW h \in holds
               PROVE  /\ Serves(rec'[h.asset], h.by)
                      /\ h.saved => Serves(disk'[h.asset], h.by)
    BY <1>3 DEF ReservationKept, HeldOnDisk
  <2>1. Serves(rec[h.asset], h.by) /\ h.asset \in Asset BY DEF ReservationKept, TypeOK, Hold
  <2>2. recs[h.asset] = rec[h.asset] BY <2>1, <1>2, <1>5 DEF Serves
  <2> QED BY <2>1, <2>2, <1>3, <1>4 DEF HeldOnDisk
<1> QED BY <1>7, <1>8, <1>9, <1>10, <1>11

LEMMA AgedRecords ==
  ASSUME NEW f \in [Asset -> Record], NEW a \in Asset,
         NEW g, g = f \/ g = [f EXCEPT ![a].old = TRUE]
  PROVE  /\ g \in [Asset -> Record]
         /\ \A b \in Asset : g[b].life = f[b].life /\ g[b].owner = f[b].owner /\ g[b].gone = f[b].gone
<1>1. CASE g = f BY <1>1
<1>2. CASE g = [f EXCEPT ![a].old = TRUE]
  <2>0. f[a] \in Record OBVIOUS
  <2>1. [f[a] EXCEPT !.old = TRUE] \in Record BY <2>0 DEF Record
  <2>2. /\ [f[a] EXCEPT !.old = TRUE].life = f[a].life /\ [f[a] EXCEPT !.old = TRUE].owner = f[a].owner
        /\ [f[a] EXCEPT !.old = TRUE].gone = f[a].gone
    BY DEF Record
  <2>3. g = [f EXCEPT ![a] = [f[a] EXCEPT !.old = TRUE]] BY <1>2
  <2> QED BY <2>1, <2>2, <2>3
<1> QED BY <1>1, <1>2

\* Time changes the age of a record, and nothing else.
LEMMA AgeKeeps ==
  ASSUME IInv, NEW a \in Asset, Age(a)
  PROVE  IInv'
<1> USE DEF IInv
<1>1. /\ rec' = rec \/ rec' = [rec EXCEPT ![a].old = TRUE]
      /\ disk' = disk \/ disk' = [disk EXCEPT ![a].old = TRUE]
      /\ UNCHANGED <<file, dir, pub, tidy, fails, boots, lost, holds, told>>
  BY DEF Age, faultVars, histVars
<1>3. /\ rec' \in [Asset -> Record]
      /\ \A b \in Asset : rec'[b].life = rec[b].life /\ rec'[b].owner = rec[b].owner /\ rec'[b].gone = rec[b].gone
  <2>1. rec \in [Asset -> Record] BY DEF TypeOK
  <2> QED BY <2>1, <1>1, AgedRecords
<1>4. /\ disk' \in [Asset -> Record]
      /\ \A b \in Asset : disk'[b].life = disk[b].life /\ disk'[b].owner = disk[b].owner /\ disk'[b].gone = disk[b].gone
  <2>1. disk \in [Asset -> Record] BY DEF TypeOK
  <2> QED BY <2>1, <1>1, AgedRecords
<1>5. TypeOK' BY <1>1, <1>3, <1>4 DEF TypeOK
<1>6. DiskTyped' BY <1>4 DEF DiskTyped
<1>7. LiveHasBytes' BY <1>1, <1>3 DEF LiveHasBytes
<1>8. AssociateWins' BY <1>1, <1>3, <1>4 DEF AssociateWins
<1>9. ReservationKept' /\ HeldOnDisk'
  <2>1. ASSUME NEW h \in holds
        PROVE  /\ Serves(rec[h.asset], h.by) => Serves(rec'[h.asset], h.by)
               /\ Serves(disk[h.asset], h.by) => Serves(disk'[h.asset], h.by)
    <3>1. h.asset \in Asset BY DEF TypeOK, Hold
    <3>2. rec'[h.asset].life = rec[h.asset].life /\ rec'[h.asset].owner = rec[h.asset].owner
      BY <3>1, <1>3
    <3>3. disk'[h.asset].life = disk[h.asset].life /\ disk'[h.asset].owner = disk[h.asset].owner
      BY <3>1, <1>4
    <3> QED BY <3>2, <3>3 DEF Serves
  <2>2. holds' = holds /\ lost' = lost BY <1>1
  <2> QED BY <2>1, <2>2 DEF ReservationKept, HeldOnDisk
<1> QED BY <1>5, <1>6, <1>7, <1>8, <1>9

\* Whatever a boot finds, it offers nothing that is not there; and unless it
\* could not read the index, it takes back nothing that the index promised.
LEMMA BootKeeps ==
  ASSUME IInv, NEW reading \in Readings, NEW ok \in BOOLEAN, Boot(reading, ok)
  PROVE  IInv'
<1> DEFINE known == [a \in Asset |-> IF a \in reading.kept THEN disk[a] ELSE Unknown]
           clean == MayTidy(reading)
           recs == Reconciled(known, clean)
           left == [a \in Asset |->
                      IF clean /\ known[a].life = "none" /\ dir[a] = "bytes" THEN "none" ELSE dir[a]]
           saves == recs # known
<1> USE DEF IInv
<1>1. Unknown \in Record /\ Unknown.life = "none" BY AsRecord DEF Unknown
<1>2. As("staged") \in Record /\ As("staged").life = "staged" BY AsRecord DEF Live
<1>3. known \in [Asset -> Record] BY <1>1 DEF TypeOK
<1>4. \A a \in Asset : known[a].life = "reserved" => known[a].owner \in Owner
  BY <1>1 DEF DiskTyped
<1>5. reading.how = "sound" => known = disk
  <2>1. reading.how = "sound" => reading.kept = Asset BY DEF Readings
  <2> QED BY <2>1 DEF TypeOK
<1>6. clean \in BOOLEAN BY DEF MayTidy
<1>7. /\ rec' = recs /\ tidy' = clean
      /\ IF saves THEN Save(recs, ok)
         ELSE /\ ok /\ UNCHANGED fails
              /\ IF reading.how = "corrupt" THEN disk' = NoRecords /\ file' = FALSE
                                            ELSE UNCHANGED <<disk, file>>
      /\ dir' = [a \in Asset |->
                   IF saves /\ ok /\ a \in Video /\ recs[a].life # "none" /\ left[a] = "intent"
                   THEN "bytes" ELSE left[a]]
      /\ pub' = [a \in Asset |-> "no"]
      /\ lost' = (lost \/ reading.how # "sound")
      /\ boots < MaxBoots /\ boots' = boots + 1
      /\ holds' = holds \ {h \in holds : ~h.saved /\ ~Serves(disk[h.asset], h.by)}
      /\ UNCHANGED told
  BY DEF Boot, Frees
<1>8. ASSUME NEW a \in Asset
      PROVE  recs[a] = IF clean /\ known[a].life = "none" /\ dir[a] = "intent" THEN As("staged")
                       ELSE IF known[a].life \in Live /\ dir[a] = "none" THEN [known[a] EXCEPT !.gone = TRUE]
                       ELSE known[a]
  BY DEF Reconciled
<1>9. recs = [a \in Asset |-> recs[a]] BY DEF Reconciled
<1>10. ASSUME NEW a \in Asset
       PROVE  left[a] = IF clean /\ known[a].life = "none" /\ dir[a] = "bytes" THEN "none" ELSE dir[a]
  OBVIOUS
<1> HIDE DEF known, clean, recs, left, saves
<1>11. ASSUME NEW a \in Asset
       PROVE  /\ recs[a] \in Record
              /\ recs[a].life = "reserved" => recs[a].owner \in Owner
              /\ known[a].life \notin {"none"} => recs[a].life = known[a].life /\ recs[a].owner = known[a].owner
              /\ known[a].life = "none" => recs[a].life \in {"none", "staged"}
              /\ dir'[a] # "none" <=> left[a] # "none"
              /\ left[a] = dir[a] \/ (known[a].life = "none" /\ dir[a] = "bytes")
              /\ recs[a].life \in Live /\ ~recs[a].gone => left[a] # "none"
              /\ dir'[a] \in {"none", "bytes", "intent"}
  <2>0. known[a] \in Record /\ dir[a] \in {"none", "bytes", "intent"} BY <1>3 DEF TypeOK
  <2>1. dir'[a] = IF saves /\ ok /\ a \in Video /\ recs[a].life # "none" /\ left[a] = "intent"
                  THEN "bytes" ELSE left[a]
    BY <1>7
  <2>2. CASE clean /\ known[a].life = "none" /\ dir[a] = "intent"
    <3>1. recs[a] = As("staged") /\ left[a] = dir[a] BY <2>2, <1>8, <1>10
    <3> QED BY <2>0, <2>1, <2>2, <3>1, <1>2
  <2>3. CASE known[a].life \in Live /\ dir[a] = "none"
    <3>1. recs[a] = [known[a] EXCEPT !.gone = TRUE] /\ left[a] = dir[a] BY <2>3, <1>8, <1>10 DEF Live
    <3>2. /\ recs[a] \in Record /\ recs[a].gone
          /\ recs[a].life = known[a].life /\ recs[a].owner = known[a].owner
      BY <2>0, <3>1 DEF Record
    <3> QED BY <2>0, <2>1, <2>3, <3>1, <3>2, <1>4 DEF Live
  <2>4. CASE /\ ~(clean /\ known[a].life = "none" /\ dir[a] = "intent")
             /\ ~(known[a].life \in Live /\ dir[a] = "none")
    <3>1. recs[a] = known[a] BY <2>4, <1>8
    <3> QED BY <2>0, <2>1, <2>4, <3>1, <1>4, <1>10 DEF Live
  <2> QED BY <2>2, <2>3, <2>4
<1>12. recs \in [Asset -> Record] BY <1>9, <1>11
<1>13. NoRecords \in [Asset -> Record] /\ \A a \in Asset : NoRecords[a].life = "none"
  BY <1>1 DEF NoRecords
<1>14. /\ disk' \in {disk, recs, NoRecords} /\ file' \in BOOLEAN /\ fails' \in 0 .. MaxFails
       /\ reading.how = "sound" => disk' \in {disk, recs}
  <2>1. CASE saves BY <2>1, <1>7, <1>12, SaveEffect
  <2>2. CASE ~saves BY <2>2, <1>7 DEF TypeOK
  <2> QED BY <2>1, <2>2
<1>15. TypeOK'
  <2>1. /\ rec' \in [Asset -> Record] /\ disk' \in [Asset -> Record]
    BY <1>7, <1>12, <1>13, <1>14 DEF TypeOK
  <2>2. dir' \in [Asset -> {"none", "bytes", "intent"}]
    <3>1. dir' = [a \in Asset |-> dir'[a]] BY <1>7
    <3> QED BY <3>1, <1>11
  <2>3. /\ pub' \in [Asset -> {"no", "moved", "intended"}]
        /\ \A a \in Asset : pub'[a] = "no"
    BY <1>7
  <2>4. boots' \in 0 .. MaxBoots
    <3>1. boots \in 0 .. MaxBoots /\ boots < MaxBoots /\ boots' = boots + 1 BY <1>7 DEF TypeOK
    <3> QED BY <3>1, FaultAssumption
  <2>5. tidy' \in BOOLEAN /\ lost' \in BOOLEAN BY <1>6, <1>7 DEF TypeOK
  <2>6. \A a \in Asset : rec'[a].life = "reserved" => rec'[a].owner \in Owner BY <1>7, <1>11
  <2> QED BY <1>7, <1>14, <2>1, <2>2, <2>3, <2>4, <2>5, <2>6 DEF TypeOK
<1>16. DiskTyped' BY <1>11, <1>13, <1>14 DEF DiskTyped
<1>17. LiveHasBytes' BY <1>7, <1>11 DEF LiveHasBytes
<1>18. AssociateWins'
  <2> SUFFICES ASSUME ~lost', NEW a \in Asset, disk'[a].life = "associated"
               PROVE  rec'[a].life = "associated" /\ (disk'[a].gone \/ dir'[a] # "none")
    BY DEF AssociateWins
  <2>1. ~lost /\ known = disk /\ disk' \in {disk, recs} BY <1>5, <1>7, <1>14 DEF TypeOK
  <2>2. disk[a].life = "associated"
    BY <2>1, <1>11
  <2>3. rec'[a].life = "associated" BY <2>1, <2>2, <1>7, <1>11
  <2>4. left[a] = dir[a] BY <2>1, <2>2, <1>11
  <2>5. CASE disk' = disk
    <3>1. disk[a].gone \/ dir[a] # "none" BY <2>1, <2>2 DEF AssociateWins
    <3>2. dir[a] # "none" => dir'[a] # "none" BY <2>4, <1>11
    <3> QED BY <2>3, <2>5, <3>1, <3>2
  <2>6. CASE disk' = recs BY <2>3, <2>6, <1>7, <1>11 DEF Live
  <2> QED BY <2>1, <2>3, <2>5, <2>6
<1>19. ReservationKept' /\ HeldOnDisk'
  <2> SUFFICES ASSUME ~lost', NEW h \in holds'
               PROVE  Serves(rec'[h.asset], h.by) /\ Serves(disk'[h.asset], h.by)
    BY DEF ReservationKept, HeldOnDisk
  <2>1. ~lost /\ known = disk /\ disk' \in {disk, recs} BY <1>5, <1>7, <1>14 DEF TypeOK
  <2>2. h \in holds /\ (h.saved \/ Serves(disk[h.asset], h.by)) BY <1>7
  <2>3. Serves(disk[h.asset], h.by) /\ h.asset \in Asset BY <2>1, <2>2 DEF HeldOnDisk, TypeOK, Hold
  <2>4. Serves(recs[h.asset], h.by) BY <2>1, <2>3, <1>11 DEF Serves
  <2> QED BY <2>1, <2>3, <2>4, <1>7
<1> QED BY <1>15, <1>16, <1>17, <1>18, <1>19

-----------------------------------------------------------------------------
(* Invariance *)

LEMMA InitHolds == Init => IInv
<1> SUFFICES ASSUME Init PROVE IInv OBVIOUS
<1>1. Unknown \in Record /\ Unknown.life = "none" BY AsRecord DEF Unknown
<1>2. /\ rec = NoRecords /\ disk = NoRecords /\ holds = {}
      /\ NoRecords \in [Asset -> Record] /\ \A a \in Asset : NoRecords[a].life = "none"
  BY <1>1 DEF Init, InitWith, NoRecords
<1>3. TypeOK
  <2>1. fails \in 0 .. MaxFails /\ boots \in 0 .. MaxBoots
    BY FaultAssumption DEF Init, InitWith
  <2>2. /\ dir \in [Asset -> {"none", "bytes", "intent"}] /\ pub \in [Asset -> {"no", "moved", "intended"}]
        /\ \A a \in Asset : pub[a] = "no"
        /\ told \in [Asset -> BOOLEAN] /\ holds \in SUBSET Hold
        /\ file \in BOOLEAN /\ tidy \in BOOLEAN /\ lost \in BOOLEAN
    BY DEF Init, InitWith
  <2> QED BY <1>2, <2>1, <2>2 DEF TypeOK
<1> QED BY <1>2, <1>3 DEF IInv, DiskTyped, LiveHasBytes, AssociateWins, ReservationKept, HeldOnDisk, Live

LEMMA StepKeeps == IInv /\ [Next]_vars => IInv'
<1> SUFFICES ASSUME IInv, [Next]_vars PROVE IInv' OBVIOUS
<1>1. CASE \E a \in Asset : Move(a) \/ Intend(a) \/ Age(a)
  BY <1>1, PublicationKeeps, AgeKeeps
<1>2. CASE \E ok \in BOOLEAN, a \in Asset :
             Publish(a, ok) \/ DeleteUnassociated(a, ok) \/ DeleteExactlyStaged(a, ok)
  BY <1>2, PublishKeeps, DeletesKeeps
<1>3. CASE \E ok \in BOOLEAN, S \in SUBSET Asset \ {{}} :
             \/ \E q \in Owner : Reserve(S, q, ok)
             \/ \E q \in Owner \cup {NoOwner} : Release(S, q, ok)
             \/ Associate(S, ok)
  BY <1>3, ReserveKeeps, ReleaseKeeps, AssociateKeeps
<1>4. CASE \E ok \in BOOLEAN : Collect(ok) BY <1>4, CollectKeeps
<1>5. CASE \E ok \in BOOLEAN, reading \in Readings : Boot(reading, ok) BY <1>5, BootKeeps
<1>6. CASE UNCHANGED vars
  BY <1>6 DEF vars, IInv, TypeOK, DiskTyped, LiveHasBytes, AssociateWins, ReservationKept, HeldOnDisk
<1> QED BY <1>1, <1>2, <1>3, <1>4, <1>5, <1>6 DEF Next

\* Every reachable state of the media store satisfies the inductive invariant.
THEOREM Invariance == Spec => []IInv
<1> QED BY InitHolds, StepKeeps, PTL DEF Spec

\* The variables have their types, and a publication in flight has its directory.
THEOREM Typing == Spec => []TypeOK
<1>1. IInv => TypeOK BY DEF IInv
<1> QED BY <1>1, Invariance, PTL

\* No live record is offered without its bytes, whatever a boot could read.
THEOREM OfferedIsThere == Spec => []LiveHasBytes
<1>1. IInv => LiveHasBytes BY DEF IInv
<1> QED BY <1>1, Invariance, PTL

\* What the index gives to a message is never taken back.
THEOREM MessagesKeep == Spec => []AssociateWins
<1>1. IInv => AssociateWins BY DEF IInv
<1> QED BY <1>1, Invariance, PTL

\* A confirmed reservation stands, for its queue item or for a message, until the
\* item releases it, someone deletes the unassociated media, or its time is over;
\* a boot ends only what was confirmed without being saved, after a failed save.
THEOREM ReservationsKeep == Spec => []ReservationKept
<1>1. IInv => ReservationKept BY DEF IInv
<1> QED BY <1>1, Invariance, PTL

-----------------------------------------------------------------------------
(* A store whose tombstones outlast their users *)

\* What is left of an asset anywhere.
Traces(a) == rec[a].life # "none" \/ dir[a] # "none" \/ disk[a].life # "none"

\* While the index is read whole and no tombstone grows old, what is known is
\* never forgotten: memory knows what the index does, and the index what memory
\* does unless a write failed.
Lasting ==
  ~lost => \A a \in Asset :
    /\ rec[a].life \in Tombstone => ~rec[a].old
    /\ disk[a].life \in Tombstone => ~disk[a].old /\ rec[a].life \in Tombstone
    /\ disk[a].life # "none" => rec[a].life # "none"
    /\ fails = 0 => (rec[a].life # "none" => disk[a].life # "none")

NothingNew == \A a \in Asset : Traces(a)' => Traces(a)

NothingGone ==
  ~lost => \A a \in Asset : /\ rec[a].life # "none" => rec'[a].life # "none"
                            /\ disk[a].life # "none" => disk'[a].life # "none"

\* What others than the publisher do: calls, and the time of what is not settled.
Call ==
  \/ \E ok \in BOOLEAN, S \in SUBSET Asset :
       \/ \E q \in Owner : Reserve(S, q, ok) \/ Release(S, q, ok)
       \/ Associate(S, ok)
  \/ \E ok \in BOOLEAN, a \in Asset : DeleteUnassociated(a, ok) \/ DeleteExactlyStaged(a, ok)
  \/ \E ok \in BOOLEAN : Collect(ok)
  \/ \E a \in Asset : rec[a].life \in {"staged", "reserved"} /\ Age(a)

\* Failed writes only add up, and one that does not fail has saved.
LEMMA SaveCounts ==
  ASSUME NEW recs, NEW ok \in BOOLEAN, fails \in Nat, Save(recs, ok)
  PROVE  fails' \in {fails, fails + 1} /\ (fails' = fails => disk' = recs)
<1>1. CASE ok BY <1>1 DEF Save
<1>2. CASE ~ok BY <1>2 DEF Save, Fails
<1> QED BY <1>1, <1>2

LEMMA UpdateCounts ==
  ASSUME NEW recs, NEW ok \in BOOLEAN, fails \in Nat, Update(recs, ok)
  PROVE  fails' \in {fails, fails + 1}
<1>1. CASE recs = rec BY <1>1 DEF Update
<1>2. CASE recs # rec BY <1>2, SaveCounts DEF Update
<1> QED BY <1>1, <1>2

\* A call that forgets nothing and makes no old tombstone leaves the store lasting.
LEMMA UpdateLasts ==
  ASSUME Lasting, NEW recs, rec' = recs, disk' \in {disk, recs}, lost' = lost,
         fails \in Nat, fails' \in {fails, fails + 1},
         \A a \in Asset : dir'[a] \in {dir[a], "none"},
         \A a \in Asset : recs[a].life # "none" => rec[a].life # "none",
         ~lost => \A a \in Asset :
           /\ rec[a].life # "none" => recs[a].life # "none"
           /\ rec[a].life \in Tombstone => recs[a].life \in Tombstone
           /\ recs[a].life \in Tombstone => ~recs[a].old
  PROVE  Lasting' /\ NothingNew /\ NothingGone
<1>1. fails' = 0 => fails = 0 OBVIOUS
<1>2. Lasting'
  <2> SUFFICES ASSUME ~lost, NEW a \in Asset
               PROVE  /\ rec'[a].life \in Tombstone => ~rec'[a].old
                      /\ disk'[a].life \in Tombstone => ~disk'[a].old /\ rec'[a].life \in Tombstone
                      /\ disk'[a].life # "none" => rec'[a].life # "none"
                      /\ fails' = 0 => (rec'[a].life # "none" => disk'[a].life # "none")
    BY DEF Lasting
  <2>1. CASE disk' = disk BY <2>1, <1>1 DEF Lasting
  <2>2. CASE disk' = recs BY <2>2
  <2> QED BY <2>1, <2>2
<1>3. NothingNew
  <2> SUFFICES ASSUME NEW a \in Asset, Traces(a)' PROVE Traces(a) BY DEF NothingNew
  <2>1. CASE disk' = disk BY <2>1 DEF Traces
  <2>2. CASE disk' = recs BY <2>2 DEF Traces
  <2> QED BY <2>1, <2>2
<1>4. NothingGone
  <2>1. CASE disk' = disk BY <2>1 DEF NothingGone
  <2>2. CASE disk' = recs BY <2>2 DEF NothingGone, Lasting
  <2> QED BY <2>1, <2>2
<1> QED BY <1>2, <1>3, <1>4

\* What a call changes: the records of S, into ones that are known and no old tombstones.
LEMMA ChangesLast ==
  ASSUME TypeOK, Lasting, NEW S \in SUBSET Asset, NEW recs,
         rec' = recs, disk' \in {disk, recs}, lost' = lost, fails' \in {fails, fails + 1},
         \A a \in Asset : dir'[a] \in {dir[a], "none"},
         \A a \in Asset \ S : recs[a] = rec[a],
         \A a \in S : /\ rec[a].life # "none" /\ recs[a].life # "none"
                      /\ rec[a].life \in Tombstone => recs[a].life \in Tombstone
                      /\ recs[a].life \in Tombstone => ~recs[a].old
  PROVE  Lasting' /\ NothingNew /\ NothingGone
<1>1. fails \in Nat BY FaultAssumption DEF TypeOK
<1>2. \A a \in Asset : recs[a].life # "none" => rec[a].life # "none" OBVIOUS
<1>3. ~lost => \A a \in Asset :
         /\ rec[a].life # "none" => recs[a].life # "none"
         /\ rec[a].life \in Tombstone => recs[a].life \in Tombstone
         /\ recs[a].life \in Tombstone => ~recs[a].old
  <2> SUFFICES ASSUME ~lost, NEW a \in Asset
               PROVE  /\ rec[a].life # "none" => recs[a].life # "none"
                      /\ rec[a].life \in Tombstone => recs[a].life \in Tombstone
                      /\ recs[a].life \in Tombstone => ~recs[a].old
    OBVIOUS
  <2>1. CASE a \in S BY <2>1
  <2>2. CASE a \notin S BY <2>2 DEF Lasting
  <2> QED BY <2>1, <2>2
<1> QED BY <1>1, <1>2, <1>3, UpdateLasts

LEMMA BuryLasts ==
  ASSUME TypeOK, Lasting, NEW S \in SUBSET Asset, NEW life \in Tombstone, NEW ok \in BOOLEAN,
         \A a \in S : rec[a].life # "none",
         Update(Buried(S, life), ok), Removes(S), lost' = lost
  PROVE  Lasting' /\ NothingNew /\ NothingGone
<1> DEFINE recs == Buried(S, life)
<1>1. /\ recs \in [Asset -> Record]
      /\ \A a \in S : recs[a].life = life
      /\ \A a \in Asset \ S : recs[a] = rec[a]
  BY BuriedRecords
<1>2. \A a \in S : ~recs[a].old BY DEF Buried, Changed, As
<1>3. fails \in Nat BY FaultAssumption DEF TypeOK
<1>4. rec' = recs /\ disk' \in {disk, recs} BY <1>1, UpdateEffect
<1>5. fails' \in {fails, fails + 1} BY <1>3, UpdateCounts
<1>6. \A a \in Asset : dir'[a] \in {dir[a], "none"} BY DEF Removes
<1>7. life # "none" BY DEF Tombstone
<1> HIDE DEF recs
<1>8. \A a \in S : /\ rec[a].life # "none" /\ recs[a].life # "none"
                   /\ rec[a].life \in Tombstone => recs[a].life \in Tombstone
                   /\ recs[a].life \in Tombstone => ~recs[a].old
  BY <1>1, <1>2, <1>7
<1> QED BY <1>1, <1>4, <1>5, <1>6, <1>8, ChangesLast

LEMMA ReleaseLasts ==
  ASSUME TypeOK, Lasting, NEW S \in SUBSET Asset, NEW q, NEW ok \in BOOLEAN, Release(S, q, ok)
  PROVE  Lasting' /\ NothingNew /\ NothingGone
<1> DEFINE mine == {a \in S : \/ rec[a].life = "staged"
                              \/ rec[a].life = "reserved" /\ rec[a].owner = q}
<1>1. Update(Buried(mine, "expired"), ok) /\ Removes(mine) /\ lost' = lost BY DEF Release
<1>2. mine \in SUBSET Asset /\ \A a \in mine : rec[a].life # "none" OBVIOUS
<1>3. "expired" \in Tombstone BY DEF Tombstone
<1> HIDE DEF mine
<1> QED BY <1>1, <1>2, <1>3, BuryLasts

LEMMA DeletesLast ==
  ASSUME TypeOK, Lasting, NEW a \in Asset, NEW ok \in BOOLEAN,
         DeleteUnassociated(a, ok) \/ DeleteExactlyStaged(a, ok)
  PROVE  Lasting' /\ NothingNew /\ NothingGone
<1>1. /\ rec[a].life # "none" /\ Update(Buried({a}, "deleted"), ok) /\ Removes({a})
      /\ lost' = lost
  BY DEF DeleteUnassociated, DeleteExactlyStaged, Deletes
<1>2. "deleted" \in Tombstone BY DEF Tombstone
<1> QED BY <1>1, <1>2, BuryLasts

LEMMA ReserveLasts ==
  ASSUME TypeOK, Lasting, NEW S \in SUBSET Asset, NEW q \in Owner, NEW ok \in BOOLEAN,
         Reserve(S, q, ok)
  PROVE  Lasting' /\ NothingNew /\ NothingGone
<1> DEFINE fresh == {a \in S : rec[a].life = "staged"}
           f == [a \in fresh |-> [rec[a] EXCEPT !.life = "reserved", !.owner = q]]
           recs == Changed(fresh, f)
<1>1. \A a \in fresh : f[a] \in Record /\ f[a].life = "reserved"
  <2> SUFFICES ASSUME NEW a \in fresh PROVE f[a] \in Record /\ f[a].life = "reserved" OBVIOUS
  <2>1. rec[a] \in Record BY DEF TypeOK
  <2>2. f[a] = [rec[a] EXCEPT !.life = "reserved", !.owner = q] OBVIOUS
  <2>3. f[a] \in Record BY <2>1, <2>2, ReservedRecord
  <2>4. f[a].life = "reserved" BY <2>1, <2>2 DEF Record
  <2> QED BY <2>3, <2>4
<1>2. Update(recs, ok) /\ dir' = dir /\ lost' = lost BY DEF Reserve
<1>3. fresh \in SUBSET Asset /\ \A a \in fresh : rec[a].life = "staged" OBVIOUS
<1> HIDE DEF fresh, f
<1>4. /\ recs \in [Asset -> Record]
      /\ \A a \in fresh : recs[a] = f[a]
      /\ \A a \in Asset \ fresh : recs[a] = rec[a]
  BY <1>1, <1>3, ChangedRecords
<1> HIDE DEF recs
<1>5. rec' = recs /\ disk' \in {disk, recs} BY <1>2, <1>4, UpdateEffect
<1>6. fails' \in {fails, fails + 1} BY <1>2, UpdateCounts, FaultAssumption DEF TypeOK
<1>7. \A a \in fresh : /\ rec[a].life # "none" /\ recs[a].life # "none"
                       /\ rec[a].life \notin Tombstone /\ recs[a].life \notin Tombstone
  BY <1>1, <1>3, <1>4 DEF Tombstone
<1> QED BY <1>2, <1>3, <1>4, <1>5, <1>6, <1>7, ChangesLast

LEMMA OwnedRecords ==
  ASSUME TypeOK, NEW S \in SUBSET Asset
  PROVE  /\ Owned(S) \in [Asset -> Record]
         /\ \A a \in S : Owned(S)[a].life = "associated"
         /\ \A a \in Asset \ S : Owned(S)[a] = rec[a]
<1> DEFINE f == [a \in S |-> [rec[a] EXCEPT !.life = "associated", !.old = FALSE, !.owner = NoOwner]]
<1>1. \A a \in S : f[a] \in Record /\ f[a].life = "associated"
  <2> SUFFICES ASSUME NEW a \in S PROVE f[a] \in Record /\ f[a].life = "associated" OBVIOUS
  <2>1. rec[a] \in Record BY DEF TypeOK
  <2>2. f[a] = [rec[a] EXCEPT !.life = "associated", !.old = FALSE, !.owner = NoOwner] OBVIOUS
  <2>3. f[a] \in Record BY <2>1, <2>2, OwnedRecord
  <2>4. f[a].life = "associated" BY <2>1, <2>2 DEF Record
  <2> QED BY <2>3, <2>4
<1>2. Owned(S) = Changed(S, f) BY DEF Owned
<1> HIDE DEF f
<1>3. /\ Changed(S, f) \in [Asset -> Record]
      /\ \A a \in S : Changed(S, f)[a] = f[a]
      /\ \A a \in Asset \ S : Changed(S, f)[a] = rec[a]
  BY <1>1, ChangedRecords
<1> QED BY <1>1, <1>2, <1>3

LEMMA AssociateLasts ==
  ASSUME TypeOK, Lasting, NEW S \in SUBSET Asset, NEW ok \in BOOLEAN, Associate(S, ok)
  PROVE  Lasting' /\ NothingNew /\ NothingGone
<1> DEFINE bad == {a \in S : rec[a].life \notin Live}
<1>1. dir' = dir /\ lost' = lost BY DEF Associate
<1>2. fails \in Nat BY FaultAssumption DEF TypeOK
<1>3. PICK T \in SUBSET S : /\ \A a \in T : rec[a].life \in Live
                            /\ rec' = Owned(T) /\ disk' \in {disk, Owned(T)}
                            /\ fails' \in {fails, fails + 1}
  <2>1. CASE bad = {}
    <3>1. Update(Owned(S), ok) BY <2>1 DEF Associate
    <3>2. rec' = Owned(S) /\ disk' \in {disk, Owned(S)} BY <3>1, OwnedRecords, UpdateEffect
    <3>3. fails' \in {fails, fails + 1} BY <3>1, <1>2, UpdateCounts
    <3> QED BY <2>1, <3>2, <3>3
  <2>2. CASE bad # {}
    <3>1. PICK T \in SUBSET (S \ bad) : rec' = Owned(T) /\ UNCHANGED <<disk, fails>>
      BY <2>2 DEF Associate
    <3> QED BY <3>1, <1>2
  <2> QED BY <2>1, <2>2
<1> DEFINE recs == Owned(T)
<1>4. /\ recs \in [Asset -> Record]
      /\ \A a \in T : recs[a].life = "associated"
      /\ \A a \in Asset \ T : recs[a] = rec[a]
  BY OwnedRecords
<1>5. rec' = recs /\ disk' \in {disk, recs} BY <1>3
<1> HIDE DEF recs
<1>6. \A a \in T : /\ rec[a].life # "none" /\ recs[a].life # "none"
                   /\ rec[a].life \notin Tombstone /\ recs[a].life \notin Tombstone
  BY <1>3, <1>4 DEF Tombstone, Live
<1> QED BY <1>1, <1>3, <1>4, <1>5, <1>6, ChangesLast

\* Without old tombstones, the collector only buries what is late.
LEMMA CollectLasts ==
  ASSUME TypeOK, Lasting, NEW ok \in BOOLEAN, Collect(ok)
  PROVE  Lasting' /\ NothingNew /\ NothingGone
<1> DEFINE late == {a \in Asset : rec[a].life \in {"staged", "reserved"} /\ rec[a].old}
           pruned == {a \in Asset : rec[a].life \in Tombstone /\ rec[a].old}
           recs == [a \in Asset |-> IF a \in pruned THEN Unknown ELSE Buried(late, "expired")[a]]
<1>1. Update(recs, ok) /\ Removes(late) /\ lost' = lost BY DEF Collect
<1>2. /\ Buried(late, "expired") \in [Asset -> Record]
      /\ \A a \in late : Buried(late, "expired")[a].life = "expired"
      /\ \A a \in Asset \ late : Buried(late, "expired")[a] = rec[a]
  BY BuriedRecords DEF Tombstone
<1>3. \A a \in late : ~Buried(late, "expired")[a].old BY DEF Buried, Changed, As
<1>4. Unknown \in Record /\ Unknown.life = "none" BY AsRecord DEF Unknown
<1>5. recs \in [Asset -> Record] BY <1>2, <1>4
<1>6. fails \in Nat BY FaultAssumption DEF TypeOK
<1>7. rec' = recs /\ disk' \in {disk, recs} BY <1>1, <1>5, UpdateEffect
<1>8. fails' \in {fails, fails + 1} BY <1>1, <1>6, UpdateCounts
<1>9. \A a \in Asset : dir'[a] \in {dir[a], "none"} BY <1>1 DEF Removes
<1>10. \A a \in Asset : recs[a].life # "none" => rec[a].life # "none"
  BY <1>2, <1>4
<1>11. ~lost => \A a \in Asset : /\ rec[a].life # "none" => recs[a].life # "none"
                                 /\ rec[a].life \in Tombstone => recs[a].life \in Tombstone
                                 /\ recs[a].life \in Tombstone => ~recs[a].old
  <2> SUFFICES ASSUME ~lost, NEW a \in Asset
               PROVE  /\ rec[a].life # "none" => recs[a].life # "none"
                      /\ rec[a].life \in Tombstone => recs[a].life \in Tombstone
                      /\ recs[a].life \in Tombstone => ~recs[a].old
    OBVIOUS
  <2>1. a \notin pruned BY DEF Lasting
  <2>2. recs[a] = Buried(late, "expired")[a] BY <2>1
  <2>3. CASE a \in late BY <2>2, <2>3, <1>2, <1>3 DEF Tombstone
  <2>4. CASE a \notin late BY <2>2, <2>4, <1>2 DEF Lasting
  <2> QED BY <2>3, <2>4
<1> HIDE DEF recs
<1> QED BY <1>1, <1>6, <1>7, <1>8, <1>9, <1>10, <1>11, UpdateLasts

\* Time passes for what is not settled, and for what was saved of it.
LEMMA AgeLasts ==
  ASSUME TypeOK, Lasting, NEW a \in Asset, rec[a].life \in {"staged", "reserved"}, Age(a)
  PROVE  Lasting' /\ NothingNew /\ NothingGone
<1>1. /\ rec' = rec \/ rec' = [rec EXCEPT ![a].old = TRUE]
      /\ disk' = disk \/ disk' = [disk EXCEPT ![a].old = TRUE]
      /\ UNCHANGED <<dir, fails, lost>>
  BY DEF Age, faultVars, histVars
<1>2. /\ rec' \in [Asset -> Record]
      /\ \A b \in Asset : rec'[b].life = rec[b].life
  <2>1. rec \in [Asset -> Record] BY DEF TypeOK
  <2> QED BY <2>1, <1>1, AgedRecords
<1>3. /\ disk' \in [Asset -> Record]
      /\ \A b \in Asset : disk'[b].life = disk[b].life
  <2>1. disk \in [Asset -> Record] BY DEF TypeOK
  <2> QED BY <2>1, <1>1, AgedRecords
<1>4. \A b \in Asset \ {a} : rec'[b] = rec[b] /\ disk'[b] = disk[b]
  BY <1>1 DEF TypeOK
<1>5. Lasting'
  <2> SUFFICES ASSUME ~lost, NEW b \in Asset
               PROVE  /\ rec'[b].life \in Tombstone => ~rec'[b].old
                      /\ disk'[b].life \in Tombstone => ~disk'[b].old /\ rec'[b].life \in Tombstone
                      /\ disk'[b].life # "none" => rec'[b].life # "none"
                      /\ fails' = 0 => (rec'[b].life # "none" => disk'[b].life # "none")
    BY <1>1 DEF Lasting
  <2>1. CASE b = a
    <3>1. rec[a].life \notin Tombstone BY DEF Tombstone
    <3>2. disk[a].life \notin Tombstone BY <3>1 DEF Lasting
    <3> QED BY <2>1, <3>1, <3>2, <1>1, <1>2, <1>3 DEF Lasting
  <2>2. CASE b # a BY <2>2, <1>1, <1>4 DEF Lasting
  <2> QED BY <2>1, <2>2
<1>6. NothingNew BY <1>1, <1>2, <1>3 DEF NothingNew, Traces
<1>7. NothingGone BY <1>2, <1>3 DEF NothingGone
<1> QED BY <1>5, <1>6, <1>7

LEMMA CallLasts ==
  ASSUME TypeOK, Lasting, Call
  PROVE  Lasting' /\ NothingNew /\ NothingGone /\ lost' = lost
<1>1. lost' = lost
  BY DEF Call, Reserve, Release, Associate, DeleteUnassociated, DeleteExactlyStaged, Deletes, Collect, Age,
         histVars
<1>2. CASE \E ok \in BOOLEAN, S \in SUBSET Asset :
             \/ \E q \in Owner : Reserve(S, q, ok) \/ Release(S, q, ok)
             \/ Associate(S, ok)
  BY <1>1, <1>2, ReserveLasts, ReleaseLasts, AssociateLasts
<1>3. CASE \E ok \in BOOLEAN, a \in Asset : DeleteUnassociated(a, ok) \/ DeleteExactlyStaged(a, ok)
  BY <1>1, <1>3, DeletesLast
<1>4. CASE \E ok \in BOOLEAN : Collect(ok) BY <1>1, <1>4, CollectLasts
<1>5. CASE \E a \in Asset : rec[a].life \in {"staged", "reserved"} /\ Age(a) BY <1>1, <1>5, AgeLasts
<1> QED BY <1>2, <1>3, <1>4, <1>5 DEF Call

\* A publication leaves traces of its own asset alone, and ends with its record.
LEMMA MoveLasts ==
  ASSUME TypeOK, Lasting, NEW a \in Asset, Move(a) \/ Intend(a)
  PROVE  /\ Lasting' /\ NothingGone /\ UNCHANGED <<rec, disk, lost>>
         /\ \A b \in Asset \ {a} : Traces(b)' => Traces(b)
<1>1. UNCHANGED <<rec, disk, lost>> BY DEF Move, Intend, indexVars, histVars
<1>2. \A b \in Asset \ {a} : dir'[b] = dir[b] BY DEF Move, Intend, TypeOK
<1>3. fails' = 0 => fails = 0
  <2>1. fails \in Nat BY FaultAssumption DEF TypeOK
  <2> QED BY <2>1 DEF Move, Intend, Fails, faultVars
<1>4. Lasting' BY <1>1, <1>3 DEF Lasting
<1>5. NothingGone BY <1>1 DEF NothingGone
<1>6. \A b \in Asset \ {a} : Traces(b)' => Traces(b) BY <1>1, <1>2 DEF Traces
<1> QED BY <1>1, <1>4, <1>5, <1>6

LEMMA PublishLasts ==
  ASSUME TypeOK, Lasting, NEW a \in Asset, NEW ok \in BOOLEAN, Publish(a, ok)
  PROVE  /\ Lasting' /\ NothingGone /\ lost' = lost /\ rec'[a].life = "staged"
         /\ \A b \in Asset \ {a} : Traces(b)' => Traces(b)
<1> DEFINE recs == [rec EXCEPT ![a] = As("staged")]
<1>1. As("staged") \in Record /\ As("staged").life = "staged" BY AsRecord DEF Live
<1>2. recs \in [Asset -> Record] /\ recs[a].life = "staged" /\ \A b \in Asset \ {a} : recs[b] = rec[b]
  BY <1>1 DEF TypeOK
<1>3. pub[a] # "no" /\ rec' = recs /\ Save(recs, ok) /\ lost' = lost
  BY DEF Publish, histVars
<1>4. \A b \in Asset \ {a} : dir'[b] = dir[b]
  <2>1. dir' = dir \/ dir' = [dir EXCEPT ![a] = "bytes"] BY DEF Publish
  <2> QED BY <2>1 DEF TypeOK
<1>5. rec[a].life = "none" BY <1>3 DEF TypeOK
<1>6. fails \in Nat BY FaultAssumption DEF TypeOK
<1> HIDE DEF recs
<1>7. disk' \in {disk, recs} BY <1>2, <1>3, SaveEffect
<1>8. fails' \in {fails, fails + 1} /\ (fails' = fails => disk' = recs)
  BY <1>3, <1>6, SaveCounts
<1>9. Lasting'
  <2> SUFFICES ASSUME ~lost, NEW b \in Asset
               PROVE  /\ rec'[b].life \in Tombstone => ~rec'[b].old
                      /\ disk'[b].life \in Tombstone => ~disk'[b].old /\ rec'[b].life \in Tombstone
                      /\ disk'[b].life # "none" => rec'[b].life # "none"
                      /\ fails' = 0 => (rec'[b].life # "none" => disk'[b].life # "none")
    BY <1>3 DEF Lasting
  <2>1. fails' = 0 => disk' = recs BY <1>6, <1>8
  <2>2. CASE b = a
    <3>1. rec'[a].life = "staged" /\ "staged" \notin Tombstone BY <1>2, <1>3 DEF Tombstone
    <3>2. disk[a].life \notin Tombstone BY <1>5 DEF Lasting, Tombstone
    <3>3. disk'[a].life \notin Tombstone BY <1>2, <1>7, <3>1, <3>2
    <3> QED BY <2>1, <2>2, <3>1, <3>3, <1>3
  <2>3. CASE b # a
    <3>1. rec'[b] = rec[b] BY <2>3, <1>2, <1>3
    <3>2. CASE disk' = disk
      <4>1. fails' = 0 => fails = 0 BY <1>6, <1>8
      <4> QED BY <3>1, <3>2, <4>1 DEF Lasting
    <3>3. CASE disk' = recs BY <3>1, <3>3, <1>3 DEF Lasting
    <3> QED BY <3>2, <3>3, <1>7
  <2> QED BY <2>2, <2>3
<1>10. NothingGone
  <2> SUFFICES ASSUME ~lost, NEW b \in Asset
               PROVE  /\ rec[b].life # "none" => rec'[b].life # "none"
                      /\ disk[b].life # "none" => disk'[b].life # "none"
    BY DEF NothingGone
  <2>1. rec[b].life # "none" => rec'[b].life # "none" BY <1>2, <1>3, <1>5
  <2>2. disk[b].life # "none" => rec[b].life # "none" BY DEF Lasting
  <2> QED BY <2>1, <2>2, <1>3, <1>7
<1>11. \A b \in Asset \ {a} : Traces(b)' => Traces(b)
  <2> SUFFICES ASSUME NEW b \in Asset \ {a}, Traces(b)' PROVE Traces(b) OBVIOUS
  <2>1. rec'[b] = rec[b] /\ dir'[b] = dir[b] BY <1>2, <1>3, <1>4
  <2>2. disk'[b] \in {disk[b], rec[b]} BY <1>2, <1>7
  <2> QED BY <2>1, <2>2 DEF Traces
<1> QED BY <1>2, <1>3, <1>9, <1>10, <1>11

\* A boot makes up nothing, and knows what the index does if it could read it.
LEMMA BootLasts ==
  ASSUME TypeOK, Lasting, NEW reading \in Readings, NEW ok \in BOOLEAN, Boot(reading, ok)
  PROVE  /\ Lasting' /\ NothingNew /\ (lost => lost')
         /\ ~lost' => \A a \in Asset : disk[a].life # "none" =>
                        rec'[a].life # "none" /\ disk'[a].life # "none"
<1> DEFINE known == [a \in Asset |-> IF a \in reading.kept THEN disk[a] ELSE Unknown]
           clean == MayTidy(reading)
           recs == Reconciled(known, clean)
           left == [a \in Asset |->
                      IF clean /\ known[a].life = "none" /\ dir[a] = "bytes" THEN "none" ELSE dir[a]]
           saves == recs # known
<1>1. Unknown \in Record /\ Unknown.life = "none" BY AsRecord DEF Unknown
<1>2. As("staged") \in Record /\ As("staged").life = "staged" BY AsRecord DEF Live
<1>3. known \in [Asset -> Record] BY <1>1 DEF TypeOK
<1>4. /\ rec' = recs
      /\ IF saves THEN Save(recs, ok)
         ELSE /\ ok /\ UNCHANGED fails
              /\ IF reading.how = "corrupt" THEN disk' = NoRecords /\ file' = FALSE
                                            ELSE UNCHANGED <<disk, file>>
      /\ dir' = [a \in Asset |->
                   IF saves /\ ok /\ a \in Video /\ recs[a].life # "none" /\ left[a] = "intent"
                   THEN "bytes" ELSE left[a]]
      /\ lost' = (lost \/ reading.how # "sound")
  BY DEF Boot
<1>5. \A a \in Asset : /\ recs[a] \in Record
                       /\ known[a].life # "none" => recs[a].life = known[a].life /\ recs[a].old = known[a].old
                       /\ recs[a].life # "none" => known[a].life # "none" \/ dir[a] = "intent"
                       /\ recs[a].life \in Tombstone => recs[a] = known[a]
  <2> SUFFICES ASSUME NEW a \in Asset
               PROVE  /\ recs[a] \in Record
                      /\ known[a].life # "none" => recs[a].life = known[a].life /\ recs[a].old = known[a].old
                      /\ recs[a].life # "none" => known[a].life # "none" \/ dir[a] = "intent"
                      /\ recs[a].life \in Tombstone => recs[a] = known[a]
    OBVIOUS
  <2>1. known[a] \in Record BY <1>3
  <2> HIDE DEF known, clean
  <2>2. recs[a] = IF clean /\ known[a].life = "none" /\ dir[a] = "intent" THEN As("staged")
                  ELSE IF known[a].life \in Live /\ dir[a] = "none" THEN [known[a] EXCEPT !.gone = TRUE]
                  ELSE known[a]
    BY DEF Reconciled
  <2>3. CASE clean /\ known[a].life = "none" /\ dir[a] = "intent"
    BY <2>2, <2>3, <1>2 DEF Tombstone
  <2>4. CASE ~(clean /\ known[a].life = "none" /\ dir[a] = "intent") /\ known[a].life \in Live /\ dir[a] = "none"
    <3>1. recs[a] = [known[a] EXCEPT !.gone = TRUE] BY <2>2, <2>4
    <3>2. recs[a] \in Record /\ recs[a].life = known[a].life /\ recs[a].old = known[a].old
      BY <2>1, <3>1 DEF Record
    <3> QED BY <3>2, <2>4 DEF Live, Tombstone
  <2>5. CASE ~(clean /\ known[a].life = "none" /\ dir[a] = "intent") /\ ~(known[a].life \in Live /\ dir[a] = "none")
    BY <2>1, <2>2, <2>5
  <2> QED BY <2>3, <2>4, <2>5
<1>6. recs \in [Asset -> Record] BY <1>5 DEF Reconciled
<1>7. \A a \in Asset : known[a].life # "none" => known[a] = disk[a] BY <1>1
<1>8. ~lost' => known = disk /\ ~lost /\ (saves \/ UNCHANGED disk)
  <2> SUFFICES ASSUME ~lost' PROVE known = disk /\ ~lost /\ (saves \/ UNCHANGED disk) OBVIOUS
  <2>1. reading.how = "sound" /\ ~lost BY <1>4
  <2>2. reading.kept = Asset BY <2>1 DEF Readings
  <2>3. known = disk BY <2>2 DEF TypeOK
  <2> QED BY <2>1, <2>3, <1>4
<1>9. \A a \in Asset : dir'[a] # "none" => dir[a] # "none" BY <1>4
<1>10. fails \in Nat BY FaultAssumption DEF TypeOK
<1> HIDE DEF known, clean, recs, left
<1>11. saves => disk' \in {disk, recs} /\ fails' \in {fails, fails + 1} /\ (fails' = fails => disk' = recs)
  BY <1>4, <1>6, <1>10, SaveEffect, SaveCounts
<1>12. \A a \in Asset : disk'[a].life # "none" => disk'[a] \in {disk[a], recs[a]}
  <2>1. CASE saves BY <2>1, <1>11
  <2>2. CASE ~saves
    <3>1. disk' = disk \/ disk' = NoRecords BY <2>2, <1>4
    <3>2. \A a \in Asset : NoRecords[a].life = "none" BY <1>1 DEF NoRecords
    <3> QED BY <3>1, <3>2
  <2> QED BY <2>1, <2>2
<1>13. Lasting'
  <2> SUFFICES ASSUME ~lost', NEW a \in Asset
               PROVE  /\ rec'[a].life \in Tombstone => ~rec'[a].old
                      /\ disk'[a].life \in Tombstone => ~disk'[a].old /\ rec'[a].life \in Tombstone
                      /\ disk'[a].life # "none" => rec'[a].life # "none"
                      /\ fails' = 0 => (rec'[a].life # "none" => disk'[a].life # "none")
    BY DEF Lasting
  <2>1. known = disk /\ ~lost BY <1>8
  <2>2. /\ recs[a].life \in Tombstone => ~recs[a].old
        /\ disk[a].life \in Tombstone => ~disk[a].old /\ recs[a].life \in Tombstone
        /\ disk[a].life # "none" => recs[a].life # "none"
    BY <1>5, <2>1 DEF Lasting, Tombstone
  <2>3. CASE saves
    <3>1. disk'[a] \in {disk[a], recs[a]} BY <2>3, <1>11
    <3>2. fails' = 0 => disk' = recs BY <2>3, <1>10, <1>11
    <3> QED BY <1>4, <2>2, <3>1, <3>2
  <2>4. CASE ~saves
    <3>1. disk' = disk /\ recs = disk BY <2>4, <2>1, <1>8
    <3> QED BY <1>4, <2>2, <3>1
  <2> QED BY <2>3, <2>4
<1>14. NothingNew
  <2> SUFFICES ASSUME NEW a \in Asset, Traces(a)' PROVE Traces(a) BY DEF NothingNew
  <2>1. recs[a].life # "none" => Traces(a) BY <1>5, <1>7 DEF Traces
  <2> QED BY <2>1, <1>4, <1>9, <1>12 DEF Traces
<1>15. ~lost' => \A a \in Asset : disk[a].life # "none" =>
                   rec'[a].life # "none" /\ disk'[a].life # "none"
  <2> SUFFICES ASSUME ~lost', NEW a \in Asset, disk[a].life # "none"
               PROVE  rec'[a].life # "none" /\ disk'[a].life # "none"
    OBVIOUS
  <2>1. known = disk BY <1>8
  <2>2. recs[a].life # "none" BY <2>1, <1>5
  <2>3. disk' = disk \/ disk' = recs BY <1>8, <1>11
  <2> QED BY <1>4, <2>2, <2>3
<1> QED BY <1>4, <1>13, <1>14, <1>15

\* Failed writes only add up.
LEMMA FailuresAddUp ==
  ASSUME TypeOK, Next
  PROVE  fails' \in {fails, fails + 1}
<1>1. fails \in Nat BY FaultAssumption DEF TypeOK
<1>2. CASE \E a \in Asset : Move(a) \/ Intend(a) \/ Age(a)
  BY <1>2 DEF Move, Intend, Age, Fails, faultVars
<1>3. ASSUME NEW ok \in BOOLEAN, NEW a \in Asset,
             Publish(a, ok) \/ DeleteUnassociated(a, ok) \/ DeleteExactlyStaged(a, ok)
      PROVE  fails' \in {fails, fails + 1}
  BY <1>1, <1>3, SaveCounts, UpdateCounts DEF Publish, DeleteUnassociated, DeleteExactlyStaged, Deletes
<1>4. ASSUME NEW ok \in BOOLEAN, NEW S \in SUBSET Asset, Associate(S, ok)
      PROVE  fails' \in {fails, fails + 1}
  <2>1. CASE {a \in S : rec[a].life \notin Live} = {}
    <3>1. Update(Owned(S), ok) BY <1>4, <2>1 DEF Associate
    <3> QED BY <3>1, <1>1, UpdateCounts
  <2>2. CASE {a \in S : rec[a].life \notin Live} # {} BY <1>4, <2>2 DEF Associate
  <2> QED BY <2>1, <2>2
<1>5. ASSUME NEW ok \in BOOLEAN, NEW S \in SUBSET Asset, NEW q,
             Reserve(S, q, ok) \/ Release(S, q, ok) \/ Collect(ok)
      PROVE  fails' \in {fails, fails + 1}
  BY <1>1, <1>5, UpdateCounts DEF Reserve, Release, Collect
<1>6. ASSUME NEW ok \in BOOLEAN, NEW reading \in Readings, Boot(reading, ok)
      PROVE  fails' \in {fails, fails + 1}
  BY <1>1, <1>6, SaveCounts DEF Boot
<1> QED BY <1>2, <1>3, <1>4, <1>5, <1>6 DEF Next
=============================================================================
