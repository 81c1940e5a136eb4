----------------------------- MODULE MediaStore -----------------------------
(***************************************************************************)
(* The media store (server/lib/media-store.ts): photos and videos a phone  *)
(* uploads, which a queued prompt reserves, a message owns once it is      *)
(* answered, and the collector removes if neither happens.                 *)
(*                                                                         *)
(* The bytes of an asset are a directory of their own; what the store      *)
(* knows of it is a record in memory, and in index.json as it was last     *)
(* saved.  A save may fail, the process may stop between any two steps,    *)
(* and the next boot may be unable to read the index.                      *)
(***************************************************************************)
EXTENDS Integers, FiniteSets

CONSTANTS Asset,     \* media ids
          Video,     \* those that resumable uploads publish
          Owner,     \* queue items (clientQueueItemId)
          NoOwner,
          MaxFails,  \* bound: failed writes
          MaxBoots   \* bound: boots

ASSUME AssetAssumption == Video \subseteq Asset /\ NoOwner \notin Owner

ASSUME FaultAssumption == MaxFails \in Nat /\ MaxBoots \in Nat

VARIABLES rec,    \* records
          disk,   \* index.json: the records as last saved
          file,   \* index.json exists
          dir,    \* per asset, its directory: "none", its "bytes", and an "intent" beside
          pub,    \* per asset, its publication: "no", "moved", "intended"
          tidy,   \* allowOrphanCleanup
          fails, boots,
          lost,   \* history: a boot could not read the index
          holds,  \* history: the reservations that were confirmed, and have not ended since
          told    \* history: per asset, a caller was told that a message owns it

indexVars == <<rec, disk, file>>
faultVars == <<fails, boots>>
histVars == <<lost, holds, told>>
vars == <<rec, disk, file, dir, pub, tidy, fails, boots, lost, holds, told>>

Live == {"staged", "reserved", "associated"}
Tombstone == {"expired", "deleted"}

\* owner: of a reservation.  old: the time its lifecycle allows is over.
\* gone: contentRemoved.
Record == [life : {"none"} \cup Live \cup Tombstone, owner : Owner \cup {NoOwner},
           old : BOOLEAN, gone : BOOLEAN]

\* saved: the index held the reservation when it was confirmed.  It does not when
\* a save failed and a repeated reserve() found nothing to change.
Hold == [asset : Asset, by : Owner, saved : BOOLEAN]

As(life) == [life |-> life, owner |-> NoOwner, old |-> FALSE, gone |-> FALSE]
Unknown == As("none")
NoRecords == [a \in Asset |-> Unknown]

InitWith(assets) ==
  /\ rec = assets /\ disk = assets
  /\ file = FALSE
  /\ dir = [a \in Asset |-> "none"]
  /\ pub = [a \in Asset |-> "no"]
  /\ tidy = TRUE
  /\ fails = 0 /\ boots = 0
  /\ lost = FALSE
  /\ holds = {}
  /\ told = [a \in Asset |-> FALSE]

Init == InitWith(NoRecords)

Fails == fails < MaxFails /\ fails' = fails + 1

\* saveIndex(): a save that fails may have replaced the file.
Save(recs, ok) ==
  IF ok THEN disk' = recs /\ file' = TRUE /\ UNCHANGED fails
  ELSE Fails /\ \/ UNCHANGED <<disk, file>>
                \/ disk' = recs /\ file' = TRUE

\* The records become recs, which is saved unless nothing changed.
Update(recs, ok) ==
  /\ rec' = recs
  /\ IF recs = rec THEN ok /\ UNCHANGED <<disk, file, fails>> ELSE Save(recs, ok)

\* rec with the records of S as f has them.
Changed(S, f) == [a \in Asset |-> IF a \in S THEN f[a] ELSE rec[a]]

\* removeAssetFiles, and the record as a tombstone.
Buried(S, life) == Changed(S, [a \in S |-> [As(life) EXCEPT !.gone = TRUE]])
Removes(S) == dir' = [a \in Asset |-> IF a \in S THEN "none" ELSE dir[a]]

\* Queue item q may still use the asset of record r: it is reserved for q, or a
\* message has it.
Serves(r, q) == r.life = "associated" \/ (r.life = "reserved" /\ r.owner = q)

Frees(H) == holds' = holds \ H
HoldsOn(a) == {h \in holds : h.asset = a}

-----------------------------------------------------------------------------
(* Publication *)

\* Slip: an id that is known already is published again.
MoveAgain(a) ==
  /\ pub[a] = "no" /\ dir[a] = "none"
  /\ dir' = [dir EXCEPT ![a] = "bytes"]
  /\ pub' = [pub EXCEPT ![a] = "moved"]
  /\ UNCHANGED <<indexVars, tidy, faultVars, histVars>>

\* The staged directory is renamed into assets/.  The name of a video may be
\* taken by what an earlier attempt left.
Move(a) ==
  /\ rec[a].life = "none" /\ pub[a] = "no" /\ dir[a] = "none"
  /\ dir' = [dir EXCEPT ![a] = "bytes"]
  /\ pub' = [pub EXCEPT ![a] = "moved"]
  /\ UNCHANGED <<indexVars, tidy, faultVars, histVars>>

\* publication-intent.json.  A failed write leaves the directory to the next boot.
Intend(a) ==
  /\ a \in Video /\ pub[a] = "moved"
  /\ \/ /\ dir' = [dir EXCEPT ![a] = "intent"]
        /\ pub' = [pub EXCEPT ![a] = "intended"]
        /\ UNCHANGED fails
     \/ Fails /\ pub' = [pub EXCEPT ![a] = "no"] /\ UNCHANGED dir
  /\ UNCHANGED <<indexVars, tidy, boots, histVars>>

\* The record is published; the intent goes once it is saved, if it can be removed.
Publish(a, ok) ==
  /\ pub[a] = IF a \in Video THEN "intended" ELSE "moved"
  /\ pub' = [pub EXCEPT ![a] = "no"]
  /\ LET recs == [rec EXCEPT ![a] = As("staged")] IN rec' = recs /\ Save(recs, ok)
  /\ IF ok THEN dir' \in {dir, [dir EXCEPT ![a] = "bytes"]} ELSE UNCHANGED dir
  /\ UNCHANGED <<tidy, boots, histVars>>

-----------------------------------------------------------------------------
(* Lifecycle *)

Reservable(a, q) ==
  \/ rec[a].life = "associated"
  \/ rec[a].life = "staged" /\ ~rec[a].old
  \/ rec[a].life = "reserved" /\ ~rec[a].old /\ rec[a].owner = q

\* reserve(): all or nothing; an associated asset stays so.  Repeated after a save
\* that failed, it finds nothing to change, saves nothing, and is confirmed.
Reserve(S, q, ok) ==
  /\ \A a \in S : Reservable(a, q)
  /\ LET fresh == {a \in S : rec[a].life = "staged"}
     IN Update(Changed(fresh, [a \in fresh |-> [rec[a] EXCEPT !.life = "reserved", !.owner = q]]), ok)
  /\ LET kept == {a \in S : ok /\ rec'[a].life = "reserved"}
     IN holds' = holds \cup {[asset |-> a, by |-> q, saved |-> rec' # rec \/ Serves(disk[a], q)] : a \in kept}
  /\ UNCHANGED <<dir, pub, tidy, boots, lost, told>>

Owned(S) == Changed(S, [a \in S |-> [rec[a] EXCEPT !.life = "associated", !.old = FALSE, !.owner = NoOwner]])

\* associate(): ids are taken in order, and one that cannot be ends the call,
\* with those before it changed in memory and nothing saved.
Associate(S, ok) ==
  /\ LET bad == {a \in S : rec[a].life \notin Live}
     IN IF bad = {}
        THEN /\ Update(Owned(S), ok)
             /\ told' = [a \in Asset |-> told[a] \/ (ok /\ a \in S)]
        ELSE /\ ~ok
             /\ \E T \in SUBSET (S \ bad) : rec' = Owned(T)
             /\ UNCHANGED <<disk, file, fails, told>>
  /\ UNCHANGED <<dir, pub, tidy, boots, lost, holds>>

\* Slip: a release that comes late takes what a message owns.
ReleaseLate(S, q, ok) ==
  LET mine == {a \in S : \/ rec[a].life \in {"staged", "associated"}
                         \/ rec[a].life = "reserved" /\ rec[a].owner = q}
  IN /\ mine # {}
     /\ Update(Buried(mine, "expired"), ok) /\ Removes(mine)
     /\ Frees({h \in holds : h.asset \in S /\ h.by = q})
     /\ UNCHANGED <<pub, tidy, boots, lost, told>>

\* release(): only what no other queue item holds, and no message owns.
Release(S, q, ok) ==
  LET mine == {a \in S : \/ rec[a].life = "staged"
                         \/ rec[a].life = "reserved" /\ rec[a].owner = q}
  IN /\ mine # {}
     /\ Update(Buried(mine, "expired"), ok) /\ Removes(mine)
     /\ Frees({h \in holds : h.asset \in S /\ h.by = q})
     /\ UNCHANGED <<pub, tidy, boots, lost, told>>

Deletes(a, ok) ==
  /\ Update(Buried({a}, "deleted"), ok) /\ Removes({a})
  /\ UNCHANGED <<pub, tidy, boots, lost, told>>

\* DELETE /media/:id: whoever asks, unless a message has the asset.
DeleteUnassociated(a, ok) ==
  /\ rec[a].life \in {"staged", "reserved", "expired"}
  /\ Deletes(a, ok) /\ Frees(HoldsOn(a))

\* Slip: a cancelled upload's video is deleted though a queue item reserved it.
DeleteNotAssociated(a, ok) ==
  rec[a].life \in {"staged", "reserved"} /\ Deletes(a, ok) /\ UNCHANGED holds

\* A cancelled upload's video, which no queue item may have reserved.
DeleteExactlyStaged(a, ok) ==
  rec[a].life = "staged" /\ Deletes(a, ok) /\ UNCHANGED holds

\* runGC(): what is staged or reserved too long, and tombstones kept long enough.
Collect(ok) ==
  LET late == {a \in Asset : rec[a].life \in {"staged", "reserved"} /\ rec[a].old}
      pruned == {a \in Asset : rec[a].life \in Tombstone /\ rec[a].old}
  IN /\ late \cup pruned # {}
     /\ Update([a \in Asset |-> IF a \in pruned THEN Unknown ELSE Buried(late, "expired")[a]], ok)
     /\ Removes(late) /\ Frees({h \in holds : rec[h.asset].old})
     /\ UNCHANGED <<pub, tidy, boots, lost, told>>

\* The time of a lifecycle passes, for a record and for what was saved of it.
Age(a) ==
  /\ LET May(r) == r.life \notin {"none", "associated"} /\ ~r.old
     IN \/ May(rec[a]) /\ disk[a] = rec[a]
           /\ rec' = [rec EXCEPT ![a].old = TRUE] /\ disk' = [disk EXCEPT ![a].old = TRUE]
        \/ May(rec[a]) /\ disk[a] # rec[a] /\ rec' = [rec EXCEPT ![a].old = TRUE] /\ UNCHANGED disk
        \/ May(disk[a]) /\ disk[a] # rec[a] /\ disk' = [disk EXCEPT ![a].old = TRUE] /\ UNCHANGED rec
  /\ UNCHANGED <<file, dir, pub, tidy, faultVars, histVars>>

-----------------------------------------------------------------------------
(* Boots *)

\* What a boot reads of the index: all of it, some of it (the file is set aside),
\* or nothing of a file that stays.
Readings == [how : {"sound"}, kept : {Asset}] \cup [how : {"corrupt"}, kept : SUBSET Asset]
              \cup [how : {"unreadable"}, kept : {{}}]

\* loadIndex(): an index that is missing is no reason to remove what is there.
MayTidy(reading) ==
  reading.how = "sound" /\ (file \/ \A a \in Asset : dir[a] = "none")

\* Slip: content that is missing is not noticed.
ReconciledBlindly(known, clean) ==
  [a \in Asset |-> IF clean /\ known[a].life = "none" /\ dir[a] = "intent" THEN As("staged") ELSE known[a]]

\* reconcile(): publications whose intent survived are finished, and content
\* that is missing is marked.
Reconciled(known, clean) ==
  [a \in Asset |->
     IF clean /\ known[a].life = "none" /\ dir[a] = "intent" THEN As("staged")
     ELSE IF known[a].life \in Live /\ dir[a] = "none" THEN [known[a] EXCEPT !.gone = TRUE]
     ELSE known[a]]

\* The process stops, and the next one boots.
Boot(reading, ok) ==
  /\ boots < MaxBoots /\ boots' = boots + 1
  /\ reading.how # "sound" => file
  /\ LET known == [a \in Asset |-> IF a \in reading.kept THEN disk[a] ELSE Unknown]
         clean == MayTidy(reading)
         recs == Reconciled(known, clean)
         left == [a \in Asset |->
                    IF clean /\ known[a].life = "none" /\ dir[a] = "bytes" THEN "none" ELSE dir[a]]
         saves == recs # known
     IN /\ rec' = recs
        /\ tidy' = clean
        /\ IF saves THEN Save(recs, ok)
           ELSE /\ ok /\ UNCHANGED fails
                /\ IF reading.how = "corrupt" THEN disk' = NoRecords /\ file' = FALSE
                                              ELSE UNCHANGED <<disk, file>>
        /\ dir' = [a \in Asset |->
                     IF saves /\ ok /\ a \in Video /\ recs[a].life # "none" /\ left[a] = "intent"
                     THEN "bytes" ELSE left[a]]
  /\ pub' = [a \in Asset |-> "no"]
  /\ lost' = (lost \/ reading.how # "sound")
  /\ Frees({h \in holds : ~h.saved /\ ~Serves(disk[h.asset], h.by)})
  /\ UNCHANGED told

Next ==
  \/ \E a \in Asset : Move(a) \/ Intend(a) \/ Age(a)
  \/ \E ok \in BOOLEAN :
       \/ \E a \in Asset : Publish(a, ok) \/ DeleteUnassociated(a, ok) \/ DeleteExactlyStaged(a, ok)
       \/ \E S \in SUBSET Asset \ {{}} :
            \/ \E q \in Owner : Reserve(S, q, ok)
            \/ \E q \in Owner \cup {NoOwner} : Release(S, q, ok)
            \/ Associate(S, ok)
       \/ Collect(ok)
       \/ \E reading \in Readings : Boot(reading, ok)

Spec == Init /\ [][Next]_vars

-----------------------------------------------------------------------------
(* Properties *)

\* Every variable has its type; a publication in flight has its directory and no
\* record, and a reservation has its queue item.
TypeOK ==
  /\ rec \in [Asset -> Record] /\ disk \in [Asset -> Record]
  /\ file \in BOOLEAN /\ tidy \in BOOLEAN
  /\ dir \in [Asset -> {"none", "bytes", "intent"}]
  /\ pub \in [Asset -> {"no", "moved", "intended"}]
  /\ fails \in 0 .. MaxFails /\ boots \in 0 .. MaxBoots
  /\ lost \in BOOLEAN
  /\ holds \in SUBSET Hold
  /\ told \in [Asset -> BOOLEAN]
  /\ \A a \in Asset : /\ pub[a] # "no" => rec[a].life = "none" /\ dir[a] # "none"
                      /\ rec[a].life = "reserved" => rec[a].owner \in Owner

\* What the store offers is there: the bytes of a live record are on disk unless
\* it says that they were removed, also after boots that read less than was saved.
LiveHasBytes ==
  \A a \in Asset : rec[a].life \in Live /\ ~rec[a].gone => dir[a] # "none"

\* Associate wins: once the index says that a message owns an asset, no release,
\* delete, collection or boot takes it back.
AssociateWins ==
  ~lost => \A a \in Asset : disk[a].life = "associated" =>
             rec[a].life = "associated" /\ (disk[a].gone \/ dir[a] # "none")

\* A confirmed reservation stands, for its queue item or for a message that took
\* the media, over other items' calls, late releases, canceled uploads, failed
\* saves and boots.  What ends it is its item's release, a delete of unassociated
\* media by whoever asks, and its time being over; and a boot may end one that
\* was confirmed again after a failed save and is not in the index.
ReservationKept ==
  ~lost => \A h \in holds : Serves(rec[h.asset], h.by)

\* "a second attempt repairs a transient index-write failure": who is told that a
\* message owns an asset finds that in the index.
AssociationIsSaved ==
  ~lost => \A a \in Asset : told[a] => disk[a].life = "associated"
=============================================================================
