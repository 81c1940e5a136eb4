-------------------------- MODULE VideoUpload_proofs -------------------------
(***************************************************************************)
(* What an upload promises, for any number of chunks, media ids, queue     *)
(* items, failed writes and boots.                                         *)
(*                                                                         *)
(* The media store is the one that MediaStore_proofs is about, all of its  *)
(* assets videos: its invariant holds here too, over the upload's steps.   *)
(* The promises of the upload need four more facts: how the manifest in    *)
(* memory and the one on disk differ (Apace, Named), that the store has    *)
(* traces of no other id than the manifest's (OnlyOurs), that what was     *)
(* made stays known (Lasting, Made), and what a boot will make of a        *)
(* manifest that says less than a client was told (Pledge).                *)
(***************************************************************************)
EXTENDS VideoUpload, TLAPS

Store == INSTANCE MediaStore_proofs WITH Video <- Asset

\* A canceled attempt to finalize is not due, so that nothing sweeps it.
Settled ==
  /\ saved.state = "published" => saved.receipt # NoAsset
  /\ fin # "idle" /\ up.state = "cancelled" => ~up.due

\* Both manifests begin and end together, and begin with no media.
Apace ==
  /\ up.state = "none" <=> saved.state = "none"
  /\ up.state = "swept" <=> saved.state = "swept"
  /\ saved.state = "none" => saved.media = NoAsset

\* The disk names the media that memory names, or none yet; while the upload is
\* finalized it does.
Named ==
  /\ saved.media \in {NoAsset, up.media}
  /\ fin # "idle" => saved.media = up.media /\ saved.state \in {"finalizing", "cancelled"}

\* The store has traces of the media that the disk names, and of no other.
OnlyOurs ==
  saved.state # "swept" => \A a \in Asset : Store!Traces(a) => a = saved.media

\* What was made for the upload is known to the store.
Made == ~lost /\ fin = "made" => rec[up.media].life # "none"

Ended == {"published", "cancelled", "swept"}

\* When a video is published in memory, the disk says so, or has an attempt to
\* finalize and the media that the next boot finds for it.
Pledge ==
  ~lost /\ fails <= 1 /\ ("published" \in said \/ up.state = "published") =>
    /\ up.state \in Ended
    /\ \/ saved.state \in Ended
       \/ saved.state = "finalizing" /\ \E a \in Asset : disk[a].life # "none"

Kept == Store!IInv /\ Store!Lasting

Mine == TypeOK /\ Settled /\ Apace /\ Named /\ DraftIsWhole /\ CancelledStays

Joint == OnlyOurs /\ Made /\ Pledge

IInv == Kept /\ Mine /\ Joint

-----------------------------------------------------------------------------
(* The store and the upload apart *)

\* The store of the upload is the store of MediaStore_proofs.
LEMMA SameStore ==
  /\ Media!Init = Store!Init /\ Media!Next = Store!Next /\ Media!TypeOK = Store!TypeOK
  /\ Media!Readings = Store!Readings /\ Media!TypeOK' = Store!TypeOK'
<1>1. Media!Init = Store!Init
  BY DEF Media!Init, Store!Init, Media!InitWith, Store!InitWith, Media!NoRecords, Store!NoRecords,
         Media!Unknown, Store!Unknown, Media!As, Store!As
<1>2. Media!TypeOK = Store!TypeOK /\ Media!TypeOK' = Store!TypeOK'
  BY DEF Media!TypeOK, Store!TypeOK, Media!Record, Store!Record, Media!Hold, Store!Hold, Media!Live, Store!Live,
         Media!Tombstone, Store!Tombstone
<1>3. Media!Readings = Store!Readings BY DEF Media!Readings, Store!Readings
<1>4. Media!Next = Store!Next
  BY DEF Media!Next, Store!Next, Media!Move, Store!Move, Media!Intend, Store!Intend, Media!Age, Store!Age,
         Media!Publish, Store!Publish, Media!DeleteUnassociated, Store!DeleteUnassociated,
         Media!DeleteExactlyStaged, Store!DeleteExactlyStaged, Media!Deletes, Store!Deletes,
         Media!Reserve, Store!Reserve, Media!Reservable, Store!Reservable, Media!Release, Store!Release,
         Media!Associate, Store!Associate, Media!Owned, Store!Owned, Media!Collect, Store!Collect,
         Media!Boot, Store!Boot, Media!Readings, Store!Readings, Media!MayTidy, Store!MayTidy,
         Media!Reconciled, Store!Reconciled, Media!Save, Store!Save, Media!Update, Store!Update,
         Media!Fails, Store!Fails, Media!Changed, Store!Changed, Media!Buried, Store!Buried,
         Media!Removes, Store!Removes, Media!Frees, Store!Frees, Media!HoldsOn, Store!HoldsOn,
         Media!Serves, Store!Serves, Media!As, Store!As,
         Media!Unknown, Store!Unknown, Media!NoRecords, Store!NoRecords,
         Media!Live, Store!Live, Media!Tombstone, Store!Tombstone,
         Media!indexVars, Store!indexVars, Media!faultVars, Store!faultVars,
         Media!histVars, Store!histVars
<1> QED BY <1>1, <1>2, <1>3, <1>4

LEMMA StoreAssumptions == Store!AssetAssumption /\ Store!FaultAssumption
<1> QED BY MediaAssumption DEF Store!AssetAssumption, Store!FaultAssumption

\* A step of the store keeps its invariant.
LEMMA StoreStep ==
  ASSUME Store!IInv, Media!Next
  PROVE  Store!IInv' /\ Media!TypeOK'
<1>1. Store!Next BY SameStore
<1>2. Store!IInv' BY <1>1, StoreAssumptions, Store!StepKeeps
<1>3. Store!TypeOK' BY <1>2 DEF Store!IInv
<1> QED BY <1>2, <1>3, SameStore

\* A step of the upload alone leaves the store as it is, but for the failed writes.
LEMMA StoreStill ==
  ASSUME Kept, UNCHANGED <<mediaVars, boots>>, fails' \in {fails, fails + 1}, fails' <= MaxFails
  PROVE  Kept' /\ Media!TypeOK' /\ fails \in Nat /\ fails' \in Nat
<1>1. /\ rec' = rec /\ disk' = disk /\ file' = file /\ dir' = dir /\ pub' = pub /\ tidy' = tidy
      /\ lost' = lost /\ holds' = holds /\ told' = told /\ boots' = boots
  BY DEF mediaVars
<1>2. fails \in 0 .. MaxFails BY DEF Kept, Store!IInv, Store!TypeOK
<1>3. fails' \in 0 .. MaxFails /\ fails \in Nat /\ fails' \in Nat /\ (fails' = 0 => fails = 0)
  BY <1>2, MediaAssumption
<1>4. Store!TypeOK' BY <1>1, <1>3 DEF Kept, Store!IInv, Store!TypeOK
<1>5. Store!DiskTyped' BY <1>1 DEF Kept, Store!IInv, Store!DiskTyped
<1>6. Store!LiveHasBytes' /\ Store!AssociateWins' /\ Store!ReservationKept' /\ Store!HeldOnDisk'
  BY <1>1 DEF Kept, Store!IInv, Store!LiveHasBytes, Store!AssociateWins, Store!ReservationKept,
              Store!HeldOnDisk
<1>7. Store!Lasting' BY <1>1, <1>3 DEF Kept, Store!Lasting
<1> QED BY <1>3, <1>4, <1>5, <1>6, <1>7, SameStore DEF Kept, Store!IInv

\* What a save leaves on disk, and how its failure counts.
LEMMA SaveOutcome ==
  ASSUME Kept, saved \in Manifest, NEW m \in Manifest, NEW ok \in BOOLEAN, Save(m, ok)
  PROVE  /\ saved' \in {saved, m} /\ saved' \in Manifest
         /\ ok => saved' = m
         /\ fails' \in {fails, fails + 1} /\ fails' <= MaxFails
<1>1. fails \in 0 .. MaxFails BY DEF Kept, Store!IInv, Store!TypeOK
<1>2. CASE ok BY <1>1, <1>2, MediaAssumption DEF Save
<1>3. CASE ~ok BY <1>1, <1>3, MediaAssumption DEF Save, Media!Fails
<1> QED BY <1>2, <1>3

\* The manifests that the calls make.
LEMMA Manifests ==
  ASSUME NEW m \in Manifest, NEW a \in Asset, NEW c \in Chunk
  PROVE  /\ Blank("receiving") \in Manifest /\ Blank("swept") \in Manifest /\ Blank("none") \in Manifest
         /\ [m EXCEPT !.parts = @ \cup {c}] \in Manifest
         /\ [m EXCEPT !.state = "finalizing", !.media = a] \in Manifest
         /\ [m EXCEPT !.state = "failed"] \in Manifest /\ [m EXCEPT !.state = "receiving"] \in Manifest
         /\ [m EXCEPT !.ack = TRUE, !.due = FALSE] \in Manifest
         /\ [m EXCEPT !.due = TRUE] \in Manifest
         /\ Published(m, a) \in Manifest /\ Cancelled(m) \in Manifest
<1>1. /\ Blank("receiving") \in Manifest /\ Blank("swept") \in Manifest /\ Blank("none") \in Manifest
  BY DEF Manifest, States, Blank
<1>2. /\ [m EXCEPT !.parts = @ \cup {c}] \in Manifest
      /\ [m EXCEPT !.state = "finalizing", !.media = a] \in Manifest
      /\ [m EXCEPT !.state = "failed"] \in Manifest /\ [m EXCEPT !.state = "receiving"] \in Manifest
  BY DEF Manifest, States
<1>3. /\ [m EXCEPT !.ack = TRUE, !.due = FALSE] \in Manifest
      /\ [m EXCEPT !.due = TRUE] \in Manifest
  BY DEF Manifest
<1>4. Published(m, a) \in Manifest /\ Cancelled(m) \in Manifest
  BY DEF Manifest, States, Published, Cancelled
<1> QED BY <1>1, <1>2, <1>3, <1>4

\* The store has no traces of another id after a step that changes neither its
\* traces nor the id on disk, unless it gives the disk its first.
LEMMA OursStays ==
  ASSUME OnlyOurs, UNCHANGED <<rec, dir, disk>>,
         saved'.state # "swept" => saved.state # "swept" /\ saved.media \in {NoAsset, saved'.media}
  PROVE  OnlyOurs'
<1> SUFFICES ASSUME saved'.state # "swept", NEW a \in Asset, Store!Traces(a)'
             PROVE  a = saved'.media
  BY DEF OnlyOurs
<1>1. Store!Traces(a) BY DEF Store!Traces
<1>2. a = saved.media BY <1>1 DEF OnlyOurs
<1> QED BY <1>2, ChunkAssumption

\* What is promised stays so while neither manifest leaves an end, nor the disk its attempt.
LEMMA PledgeStays ==
  ASSUME Pledge, UNCHANGED <<disk, lost>>, fails \in Nat, fails' \in {fails, fails + 1},
         "published" \in said' \/ up'.state = "published" => "published" \in said \/ up.state = "published",
         up.state \in Ended => up'.state \in Ended /\ saved'.state \in {saved.state} \cup Ended
  PROVE  Pledge'
<1>1. fails' <= 1 => fails <= 1 OBVIOUS
<1> QED BY <1>1 DEF Pledge

-----------------------------------------------------------------------------
(* The steps of the upload *)

\* All but the promises: a step of the upload alone keeps the invariant if it
\* keeps what is the upload's.
LEMMA UploadKeeps ==
  ASSUME IInv, Mine', UNCHANGED <<mediaVars, boots>>, fails' \in {fails, fails + 1}, fails' <= MaxFails,
         saved'.state # "swept" => saved.state # "swept" /\ saved.media \in {NoAsset, saved'.media},
         fin' = "made" => fin = "made" /\ up'.media = up.media,
         "published" \in said' \/ up'.state = "published" => "published" \in said \/ up.state = "published",
         up.state \in Ended => up'.state \in Ended /\ saved'.state \in {saved.state} \cup Ended
  PROVE  IInv'
<1>1. Kept' /\ fails \in Nat BY StoreStill DEF IInv
<1>2. UNCHANGED <<rec, dir, disk, lost>> BY DEF mediaVars
<1>3. OnlyOurs' BY <1>2, OursStays DEF IInv, Joint
<1>4. Made' BY <1>2 DEF IInv, Joint, Made
<1>5. Pledge' BY <1>1, <1>2, PledgeStays DEF IInv, Joint
<1> QED BY <1>1, <1>3, <1>4, <1>5 DEF IInv, Joint

\* init().
LEMMA StartKeeps == ASSUME IInv, Start PROVE IInv'
<1>1. /\ up.state = "none" /\ up' = Blank("receiving") /\ saved' = Blank("receiving")
      /\ UNCHANGED <<chunks, fin, cancel, said, mediaVars, fails, boots>>
  BY DEF Start
<1>2. Blank("receiving") \in Manifest /\ Blank("receiving").state = "receiving"
      /\ Blank("receiving").parts = {} /\ Blank("receiving").media = NoAsset
  BY DEF Blank, Manifest, States
<1>3. fails' \in {fails, fails + 1} /\ fails' <= MaxFails
  BY <1>1, MediaAssumption DEF IInv, Kept, Store!IInv, Store!TypeOK
<1>4. Media!TypeOK' BY <1>1, <1>3, StoreStill DEF IInv
<1>5. fin = "idle" /\ saved.state = "none" /\ saved.media = NoAsset
  BY <1>1 DEF IInv, Mine, TypeOK, Apace
<1>6. TypeOK' BY <1>1, <1>2, <1>4, <1>5 DEF IInv, Mine, TypeOK
<1>7. Settled' /\ Apace' /\ Named' BY <1>1, <1>2, <1>5 DEF Settled, Apace, Named
<1>8. DraftIsWhole' BY <1>1, <1>2 DEF DraftIsWhole
<1>9. CancelledStays' BY <1>1 DEF IInv, Mine, CancelledStays
<1>10. Mine' BY <1>6, <1>7, <1>8, <1>9 DEF Mine
<1> QED BY <1>1, <1>2, <1>3, <1>5, <1>10, UploadKeeps DEF Ended

\* A chunk file is there before a manifest counts it.
LEMMA PutKeeps ==
  ASSUME IInv, NEW c \in Chunk, NEW torn \in BOOLEAN, NEW ok \in BOOLEAN, Put(c, torn, ok)
  PROVE  IInv'
<1> DEFINE m == [up EXCEPT !.parts = @ \cup {c}]
<1>1. /\ up.state = "receiving" /\ chunks' = chunks \cup {c}
      /\ UNCHANGED <<fin, cancel, said, mediaVars, boots>>
  BY DEF Put
<1>2. up \in Manifest /\ saved \in Manifest BY DEF IInv, Mine, TypeOK
<1>3. /\ m \in Manifest /\ m.state = up.state /\ m.parts = up.parts \cup {c} /\ m.media = up.media
      /\ m.receipt = up.receipt /\ m.due = up.due
  BY <1>2 DEF Manifest
<1> HIDE DEF m
<1>4. /\ up' \in {up, m} /\ saved' \in {saved, m} /\ (saved' = m => up' = m \/ saved = m)
      /\ fails' \in {fails, fails + 1} /\ fails' <= MaxFails
  <2>1. CASE torn
    <3>1. up' = up /\ saved' = saved /\ fails < MaxFails /\ fails' = fails + 1
      BY <2>1 DEF Put, Media!Fails
    <3> QED BY <3>1, MediaAssumption DEF IInv, Kept, Store!IInv, Store!TypeOK
  <2>2. CASE ~torn
    <3>1. up' = m /\ Save(m, ok) BY <2>2 DEF Put, Becomes, m
    <3> QED BY <1>2, <1>3, <3>1, SaveOutcome DEF IInv
  <2> QED BY <2>1, <2>2
<1>5. Media!TypeOK' BY <1>1, <1>4, StoreStill DEF IInv
<1>6. fin = "idle" /\ saved.state \notin {"none", "swept"} BY <1>1 DEF IInv, Mine, TypeOK, Apace
<1>7. TypeOK'
  <2>1. chunks' \subseteq Chunk BY <1>1 DEF IInv, Mine, TypeOK
  <2> QED BY <2>1, <1>1, <1>2, <1>3, <1>4, <1>5, <1>6 DEF IInv, Mine, TypeOK
<1>8. Settled' /\ Apace' /\ Named'
  BY <1>1, <1>3, <1>4, <1>6 DEF IInv, Mine, Settled, Apace, Named
<1>9. DraftIsWhole'
  <2>1. up.parts \subseteq chunks BY <1>1 DEF IInv, Mine, DraftIsWhole
  <2>2. m.parts \subseteq chunks' /\ up.parts \subseteq chunks' BY <1>1, <1>3, <2>1
  <2>3. saved'.state \in {"receiving", "finalizing", "failed"} => saved'.parts \subseteq chunks'
    BY <1>1, <1>4, <2>2 DEF IInv, Mine, DraftIsWhole
  <2> QED BY <1>4, <2>2, <2>3 DEF DraftIsWhole
<1>10. CancelledStays' BY <1>1 DEF IInv, Mine, CancelledStays
<1>11. Mine' BY <1>7, <1>8, <1>9, <1>10 DEF Mine
<1>12. saved'.state # "swept" => saved.state # "swept" /\ saved.media \in {NoAsset, saved'.media}
  BY <1>3, <1>4, <1>6 DEF IInv, Mine, Named
<1> QED BY <1>1, <1>3, <1>4, <1>6, <1>11, <1>12, UploadKeeps DEF Ended

\* The disk may name the media only now; nothing was made before it does.
LEMMA ClaimKeeps ==
  ASSUME IInv, NEW a \in Asset, NEW ok \in BOOLEAN, Claim(a, ok)
  PROVE  IInv'
<1> DEFINE m == [up EXCEPT !.state = "finalizing", !.media = a]
<1>1. /\ fin = "idle" /\ up.state \in {"receiving", "finalizing", "failed"}
      /\ up.media \in {a, NoAsset} /\ up' = m /\ Save(m, ok)
      /\ fin' = IF ok THEN "claimed" ELSE "idle"
      /\ UNCHANGED <<chunks, cancel, said, mediaVars, boots>>
  BY DEF Claim, Becomes
<1>2. up \in Manifest /\ saved \in Manifest BY DEF IInv, Mine, TypeOK
<1>3. /\ m \in Manifest /\ m.state = "finalizing" /\ m.parts = up.parts /\ m.media = a
      /\ m.receipt = up.receipt /\ m.due = up.due
  BY <1>2 DEF Manifest, States
<1> HIDE DEF m
<1>4. /\ saved' \in {saved, m} /\ (ok => saved' = m)
      /\ fails' \in {fails, fails + 1} /\ fails' <= MaxFails
  BY <1>1, <1>2, <1>3, SaveOutcome DEF IInv
<1>5. Media!TypeOK' BY <1>1, <1>4, StoreStill DEF IInv
<1>6. saved.state \notin {"none", "swept"} BY <1>1 DEF IInv, Mine, Apace
<1>7. saved.media \in {NoAsset, a} BY <1>1 DEF IInv, Mine, Named
<1>8. TypeOK'
  <2>1. m.media # NoAsset BY <1>3, ChunkAssumption
  <2> QED BY <2>1, <1>1, <1>2, <1>3, <1>4, <1>5 DEF IInv, Mine, TypeOK
<1>9. Settled' /\ Apace' /\ Named'
  BY <1>1, <1>3, <1>4, <1>6, <1>7 DEF IInv, Mine, Settled, Apace, Named
<1>10. DraftIsWhole' BY <1>1, <1>3, <1>4 DEF IInv, Mine, DraftIsWhole
<1>11. CancelledStays' BY <1>1 DEF IInv, Mine, CancelledStays
<1>12. Mine' BY <1>8, <1>9, <1>10, <1>11 DEF Mine
<1>13. fin' # "made" BY <1>1
<1> QED BY <1>1, <1>3, <1>4, <1>6, <1>7, <1>12, <1>13, UploadKeeps DEF Ended

\* Steps that change neither manifest.
LEMMA StillKeeps ==
  ASSUME IInv, UNCHANGED <<up, saved, chunks, mediaVars, fails, boots>>,
         fin' = fin \/ (fin # "idle" /\ fin' \in {"idle", "ingesting", "broken"}),
         cancel' \in {"no", "ending"} \cup Asset,
         said' = said \/ (up.state = "published" /\ said' = said \cup {"published"})
  PROVE  IInv'
<1>1. fails' \in {fails, fails + 1} /\ fails' <= MaxFails
  BY MediaAssumption DEF IInv, Kept, Store!IInv, Store!TypeOK
<1>2. Media!TypeOK' BY <1>1, StoreStill DEF IInv
<1>3. TypeOK' BY <1>2 DEF IInv, Mine, TypeOK
<1>4. Settled' /\ Apace' /\ Named' BY DEF IInv, Mine, Settled, Apace, Named
<1>5. DraftIsWhole' BY DEF IInv, Mine, DraftIsWhole
<1>6. CancelledStays' BY DEF IInv, Mine, CancelledStays
<1>7. Mine' BY <1>3, <1>4, <1>5, <1>6 DEF Mine
<1>8. saved.media \in {NoAsset, saved'.media} OBVIOUS
<1>9. fin' = "made" => fin = "made" /\ up'.media = up.media OBVIOUS
<1>10. saved'.state # "swept" => saved.state # "swept" OBVIOUS
<1>11. up.state \in Ended => up'.state \in Ended /\ saved'.state \in {saved.state} \cup Ended OBVIOUS
<1>12. "published" \in said' \/ up'.state = "published" => "published" \in said \/ up.state = "published"
  OBVIOUS
<1> QED BY <1>1, <1>7, <1>8, <1>9, <1>10, <1>11, <1>12, UploadKeeps

\* The steps that change neither manifest.
LEMMA RepeatKeeps == ASSUME IInv, Repeat PROVE IInv'
<1>1. cancel \in {"no", "ending"} \cup Asset BY DEF IInv, Mine, TypeOK
<1> QED BY <1>1, StillKeeps DEF Repeat

LEMMA AssembleKeeps == ASSUME IInv, Assemble PROVE IInv'
<1>1. cancel \in {"no", "ending"} \cup Asset BY DEF IInv, Mine, TypeOK
<1> QED BY <1>1, StillKeeps DEF Assemble

LEMMA CancelKeeps == ASSUME IInv, Cancel PROVE IInv'
<1>1. up.receipt # NoAsset => up.receipt \in Asset BY DEF IInv, Mine, TypeOK, Manifest
<1> QED BY <1>1, StillKeeps DEF Cancel

\* A failed attempt leaves a draft.
LEMMA GiveUpKeeps == ASSUME IInv, NEW ok \in BOOLEAN, GiveUp(ok) PROVE IInv'
<1>1. /\ fin = "broken" /\ fin' = "idle"
      /\ UNCHANGED <<chunks, cancel, said, mediaVars, boots>>
  BY DEF GiveUp
<1>2. CASE up.state \in {"published", "cancelled"}
  <2>1. UNCHANGED <<up, saved, fails>> BY <1>2 DEF GiveUp
  <2>2. cancel \in {"no", "ending"} \cup Asset BY DEF IInv, Mine, TypeOK
  <2> QED BY <1>1, <2>1, <2>2, StillKeeps
<1>3. CASE up.state \notin {"published", "cancelled"}
  <2> DEFINE m == [up EXCEPT !.state = "failed"]
  <2>1. up' = m /\ Save(m, ok) BY <1>3 DEF GiveUp, Becomes
  <2>2. up \in Manifest /\ saved \in Manifest /\ up.state = "finalizing"
    BY <1>1, <1>3 DEF IInv, Mine, TypeOK
  <2>3. /\ m \in Manifest /\ m.state = "failed" /\ m.parts = up.parts /\ m.media = up.media
        /\ m.receipt = up.receipt /\ m.due = up.due
    BY <2>2 DEF Manifest, States
  <2> HIDE DEF m
  <2>4. /\ saved' \in {saved, m} /\ fails' \in {fails, fails + 1} /\ fails' <= MaxFails
    BY <2>1, <2>2, <2>3, SaveOutcome DEF IInv
  <2>5. Media!TypeOK' BY <1>1, <2>4, StoreStill DEF IInv
  <2>6. saved.state \in {"finalizing", "cancelled"} /\ saved.media = up.media
    BY <1>1 DEF IInv, Mine, Named
  <2>7. TypeOK' BY <1>1, <2>1, <2>2, <2>3, <2>4, <2>5 DEF IInv, Mine, TypeOK
  <2>8. Settled' /\ Apace' /\ Named'
    BY <1>1, <2>1, <2>3, <2>4, <2>6 DEF IInv, Mine, Settled, Apace, Named
  <2>9. DraftIsWhole' BY <1>1, <2>1, <2>2, <2>3, <2>4 DEF IInv, Mine, DraftIsWhole
  <2>10. CancelledStays' BY <1>1, <2>2 DEF IInv, Mine, CancelledStays
  <2>11. Mine' BY <2>7, <2>8, <2>9, <2>10 DEF Mine
  <2> QED BY <1>1, <2>1, <2>2, <2>3, <2>4, <2>6, <2>11, UploadKeeps DEF Ended
<1> QED BY <1>2, <1>3

\* The chunks go when the disk says that the upload is over.
LEMMA AcknowledgeKeeps == ASSUME IInv, NEW ok \in BOOLEAN, Acknowledge(ok) PROVE IInv'
<1> DEFINE m == [up EXCEPT !.ack = TRUE, !.due = FALSE]
<1>1. /\ up.state = "published" /\ up' = m /\ Save(m, ok)
      /\ chunks' = IF ok THEN {} ELSE chunks
      /\ UNCHANGED <<fin, cancel, said, mediaVars, boots>>
  BY DEF Acknowledge, Becomes
<1>2. up \in Manifest /\ saved \in Manifest /\ fin = "idle" BY <1>1 DEF IInv, Mine, TypeOK
<1>3. /\ m \in Manifest /\ m.state = "published" /\ m.parts = up.parts /\ m.media = up.media
      /\ m.receipt = up.receipt
  BY <1>1, <1>2 DEF Manifest
<1> HIDE DEF m
<1>4. /\ saved' \in {saved, m} /\ (ok => saved' = m)
      /\ fails' \in {fails, fails + 1} /\ fails' <= MaxFails
  BY <1>1, <1>2, <1>3, SaveOutcome DEF IInv
<1>5. Media!TypeOK' BY <1>1, <1>4, StoreStill DEF IInv
<1>6. saved.state \notin {"none", "swept"} /\ saved.media \in {NoAsset, up.media}
  BY <1>1 DEF IInv, Mine, Apace, Named
<1>7. TypeOK' BY <1>1, <1>2, <1>3, <1>4, <1>5 DEF IInv, Mine, TypeOK
<1>8. Settled' /\ Apace' /\ Named'
  BY <1>1, <1>2, <1>3, <1>4, <1>6 DEF IInv, Mine, TypeOK, Settled, Apace, Named
<1>9. DraftIsWhole' BY <1>1, <1>3, <1>4 DEF IInv, Mine, DraftIsWhole
<1>10. CancelledStays' BY <1>1 DEF IInv, Mine, CancelledStays
<1>11. Mine' BY <1>7, <1>8, <1>9, <1>10 DEF Mine
<1> QED BY <1>1, <1>2, <1>3, <1>4, <1>6, <1>11, UploadKeeps DEF Ended

\* A cancel is final once the disk says so.
LEMMA CancelEndsKeeps == ASSUME IInv, NEW ok \in BOOLEAN, CancelEnds(ok) PROVE IInv'
<1>1. /\ cancel' = "no"
      /\ UNCHANGED <<fin, mediaVars, boots>>
  BY DEF CancelEnds
<1>2. CASE ~Known
  <2>1. UNCHANGED <<up, saved, chunks, said, fails>> BY <1>2 DEF CancelEnds
  <2> QED BY <1>1, <2>1, StillKeeps
<1>3. CASE Known
  <2> DEFINE m == Cancelled(up)
  <2>1. /\ up' = m /\ Save(m, ok) /\ chunks' = IF ok THEN {} ELSE chunks
        /\ said' = IF ok THEN said \cup {"cancelled"} ELSE said
    BY <1>3 DEF CancelEnds, Becomes
  <2>2. up \in Manifest /\ saved \in Manifest BY DEF IInv, Mine, TypeOK
  <2>3. /\ m \in Manifest /\ m.state = "cancelled" /\ m.media = up.media /\ ~m.due
    BY <2>2 DEF Manifest, States, Cancelled
  <2> HIDE DEF m
  <2>4. /\ saved' \in {saved, m} /\ (ok => saved' = m)
        /\ fails' \in {fails, fails + 1} /\ fails' <= MaxFails
    BY <2>1, <2>2, <2>3, SaveOutcome DEF IInv
  <2>5. Media!TypeOK' BY <1>1, <2>4, StoreStill DEF IInv
  <2>6. saved.state \notin {"none", "swept"} /\ saved.media \in {NoAsset, up.media}
    BY <1>3 DEF IInv, Mine, Apace, Named, Known
  <2>7. TypeOK' BY <1>1, <2>1, <2>2, <2>3, <2>4, <2>5 DEF IInv, Mine, TypeOK
  <2>8. Settled' /\ Apace' /\ Named'
    BY <1>1, <2>1, <2>3, <2>4, <2>6 DEF IInv, Mine, Settled, Apace, Named
  <2>9. DraftIsWhole' BY <1>1, <2>1, <2>3, <2>4 DEF IInv, Mine, DraftIsWhole
  <2>10. CancelledStays'
    <3>1. CASE ok BY <2>1, <2>3, <2>4, <3>1 DEF CancelledStays
    <3>2. CASE ~ok BY <2>1, <2>3, <2>4, <3>2 DEF IInv, Mine, CancelledStays
    <3> QED BY <3>1, <3>2
  <2>11. Mine' BY <2>7, <2>8, <2>9, <2>10 DEF Mine
  <2>12. fin' = "made" => fin = "made" /\ up'.media = up.media BY <1>1, <2>1, <2>3
  <2>13. "published" \in said' \/ up'.state = "published" => "published" \in said \/ up.state = "published"
    BY <2>1, <2>3
  <2> QED BY <1>1, <2>1, <2>3, <2>4, <2>6, <2>11, <2>12, <2>13, UploadKeeps DEF Ended
<1> QED BY <1>2, <1>3

\* Time passes for a manifest, and for what was saved of it.
LEMMA ExpiresKeeps == ASSUME IInv, Expires PROVE IInv'
<1>1. /\ Known /\ (up.state \in {"published", "cancelled"} => fin = "idle")
      /\ UNCHANGED <<chunks, fin, cancel, said, mediaVars, fails, boots>>
  BY DEF Expires
<1>2. up \in Manifest /\ saved \in Manifest BY DEF IInv, Mine, TypeOK
<1>3. /\ up' \in Manifest /\ saved' \in Manifest
      /\ up'.state = up.state /\ up'.parts = up.parts /\ up'.media = up.media /\ up'.receipt = up.receipt
      /\ saved'.state = saved.state /\ saved'.parts = saved.parts /\ saved'.media = saved.media
      /\ saved'.receipt = saved.receipt
  <2>1. CASE /\ up' = [up EXCEPT !.due = TRUE]
             /\ saved' = IF saved = up THEN up' ELSE saved
    BY <1>2, <2>1 DEF Manifest
  <2>2. CASE saved' = [saved EXCEPT !.due = TRUE] /\ up' = up
    BY <1>2, <2>2 DEF Manifest
  <2> QED BY <2>1, <2>2 DEF Expires
<1>4. fails' \in {fails, fails + 1} /\ fails' <= MaxFails
  BY <1>1, MediaAssumption DEF IInv, Kept, Store!IInv, Store!TypeOK
<1>5. Media!TypeOK' BY <1>1, <1>4, StoreStill DEF IInv
<1>6. TypeOK' BY <1>1, <1>3, <1>5 DEF IInv, Mine, TypeOK
<1>7. Settled' /\ Apace' /\ Named' BY <1>1, <1>3 DEF IInv, Mine, Settled, Apace, Named
<1>8. DraftIsWhole' BY <1>1, <1>3 DEF IInv, Mine, DraftIsWhole
<1>9. CancelledStays' BY <1>1, <1>3 DEF IInv, Mine, CancelledStays
<1>10. Mine' BY <1>6, <1>7, <1>8, <1>9 DEF Mine
<1> QED BY <1>1, <1>3, <1>4, <1>10, UploadKeeps

\* Nothing that is being finalized is swept.
LEMMA SweepKeeps == ASSUME IInv, Sweep PROVE IInv'
<1>1. /\ up.due /\ up.state \in {"receiving", "failed", "cancelled", "published"}
      /\ up' = Blank("swept") /\ saved' = Blank("swept") /\ chunks' = {}
      /\ UNCHANGED <<fin, cancel, said, mediaVars, fails, boots>>
  BY DEF Sweep, Sweepable
<1>2. Blank("swept") \in Manifest /\ Blank("swept").state = "swept" /\ Blank("swept").media = NoAsset
  BY DEF Blank, Manifest, States
<1>3. fin = "idle" BY <1>1 DEF IInv, Mine, TypeOK, Settled
<1>4. fails' \in {fails, fails + 1} /\ fails' <= MaxFails
  BY <1>1, MediaAssumption DEF IInv, Kept, Store!IInv, Store!TypeOK
<1>5. Media!TypeOK' BY <1>1, <1>4, StoreStill DEF IInv
<1>6. TypeOK' BY <1>1, <1>2, <1>3, <1>5 DEF IInv, Mine, TypeOK
<1>7. Settled' /\ Apace' /\ Named' BY <1>1, <1>2, <1>3 DEF Settled, Apace, Named
<1>8. DraftIsWhole' /\ CancelledStays' BY <1>1, <1>2 DEF DraftIsWhole, CancelledStays
<1>9. Mine' BY <1>6, <1>7, <1>8 DEF Mine
<1> QED BY <1>1, <1>2, <1>3, <1>4, <1>9, UploadKeeps DEF Ended

\* A receipt that could not be saved is found again: no write had failed before,
\* so the store's index has the media.
LEMMA CommitKeeps ==
  ASSUME IInv, NEW a \in Asset, NEW ok \in BOOLEAN, Commit(a, ok)
  PROVE  IInv'
<1>1. /\ fin' = "idle" /\ fin # "idle" /\ Known
      /\ UNCHANGED <<chunks, cancel, mediaVars, boots>>
  BY DEF Commit
<1>2. CASE up.state = "cancelled"
  <2>1. UNCHANGED <<up, saved, said, fails>> BY <1>2 DEF Commit
  <2>2. cancel \in {"no", "ending"} \cup Asset BY DEF IInv, Mine, TypeOK
  <2> QED BY <1>1, <2>1, <2>2, StillKeeps
<1>3. CASE up.state # "cancelled"
  <2> DEFINE m == Published(up, a)
  <2>1. /\ up' = m /\ Save(m, ok) /\ said' = IF ok THEN said \cup {"published"} ELSE said
    BY <1>3 DEF Commit, Becomes
  <2>2. up \in Manifest /\ saved \in Manifest /\ up.state = "finalizing"
    BY <1>1, <1>3 DEF IInv, Mine, TypeOK
  <2>3. /\ m \in Manifest /\ m.state = "published" /\ m.media = up.media /\ m.receipt = a
    BY <2>2 DEF Manifest, States, Published
  <2> HIDE DEF m
  <2>4. /\ saved' \in {saved, m} /\ (ok => saved' = m)
        /\ fails' \in {fails, fails + 1} /\ fails' <= MaxFails
    BY <2>1, <2>2, <2>3, SaveOutcome DEF IInv
  <2>5. Kept' /\ Media!TypeOK' /\ fails \in Nat BY <1>1, <2>4, StoreStill DEF IInv
  <2>6. saved.state \in {"finalizing", "cancelled"} /\ saved.media = up.media
    BY <1>1 DEF IInv, Mine, Named
  <2>7. TypeOK'
    <3>1. said' \subseteq {"published", "cancelled"} BY <2>1 DEF IInv, Mine, TypeOK
    <3> QED BY <3>1, <1>1, <2>1, <2>2, <2>3, <2>4, <2>5, ChunkAssumption DEF IInv, Mine, TypeOK
  <2>8. Settled' /\ Apace' /\ Named'
    BY <1>1, <2>1, <2>3, <2>4, <2>6, ChunkAssumption DEF Settled, Apace, Named
  <2>9. DraftIsWhole' BY <1>1, <2>1, <2>3, <2>4 DEF IInv, Mine, DraftIsWhole
  <2>10. CancelledStays'
    <3>1. "cancelled" \notin said BY <2>2 DEF IInv, Mine, CancelledStays
    <3> QED BY <2>1, <3>1 DEF CancelledStays
  <2>11. Mine' BY <2>7, <2>8, <2>9, <2>10 DEF Mine
  <2>12. UNCHANGED <<rec, dir, disk, lost>> BY <1>1 DEF mediaVars
  <2>13. OnlyOurs' BY <2>3, <2>4, <2>6, <2>12, OursStays DEF IInv, Joint
  <2>14. Made' BY <1>1 DEF Made
  <2>15. ~lost => rec[a].life # "none"
    BY DEF Commit, Found, IInv, Joint, Made
  <2>16. Pledge'
    <3> SUFFICES ASSUME ~lost, fails' <= 1
                 PROVE  \/ saved'.state \in Ended
                        \/ saved'.state = "finalizing" /\ \E b \in Asset : disk[b].life # "none"
      BY <2>1, <2>3, <2>12 DEF Pledge, Ended
    <3>1. CASE ok BY <3>1, <2>3, <2>4 DEF Ended
    <3>2. CASE ~ok
      <4>1. fails = 0 BY <2>1, <2>5, <3>2 DEF Save, Media!Fails
      <4>2. disk[a].life # "none" BY <2>15, <4>1 DEF IInv, Kept, Store!Lasting
      <4> QED BY <2>3, <2>4, <2>6, <4>2 DEF Ended
    <3> QED BY <3>1, <3>2
  <2> QED BY <2>5, <2>11, <2>13, <2>14, <2>16 DEF IInv, Joint
<1> QED BY <1>2, <1>3

-----------------------------------------------------------------------------
(* The steps of the store *)

\* The store's actions are those of MediaStore_proofs.
LEMMA SameCalls ==
  ASSUME NEW a, NEW S, NEW q, NEW ok
  PROVE  /\ Media!Reserve(S, q, ok) = Store!Reserve(S, q, ok)
         /\ Media!Release(S, q, ok) = Store!Release(S, q, ok)
         /\ Media!Associate(S, ok) = Store!Associate(S, ok)
         /\ Media!DeleteUnassociated(a, ok) = Store!DeleteUnassociated(a, ok)
         /\ Media!DeleteExactlyStaged(a, ok) = Store!DeleteExactlyStaged(a, ok)
         /\ Media!Collect(ok) = Store!Collect(ok)
         /\ Media!Age(a) = Store!Age(a)
<1> USE DEF Media!Save, Store!Save, Media!Update, Store!Update, Media!Fails, Store!Fails,
            Media!Changed, Store!Changed, Media!Buried, Store!Buried, Media!Removes, Store!Removes,
            Media!Frees, Store!Frees, Media!HoldsOn, Store!HoldsOn,
            Media!Serves, Store!Serves, Media!As, Store!As, Media!Unknown, Store!Unknown,
            Media!Live, Store!Live, Media!Tombstone, Store!Tombstone, Media!faultVars, Store!faultVars,
            Media!histVars, Store!histVars
<1>1. Media!Reserve(S, q, ok) = Store!Reserve(S, q, ok)
  BY DEF Media!Reserve, Store!Reserve, Media!Reservable, Store!Reservable
<1>2. Media!Release(S, q, ok) = Store!Release(S, q, ok) BY DEF Media!Release, Store!Release
<1>3. Media!Associate(S, ok) = Store!Associate(S, ok)
  BY DEF Media!Associate, Store!Associate, Media!Owned, Store!Owned
<1>4. Media!DeleteUnassociated(a, ok) = Store!DeleteUnassociated(a, ok)
  BY DEF Media!DeleteUnassociated, Store!DeleteUnassociated, Media!Deletes, Store!Deletes
<1>5. Media!DeleteExactlyStaged(a, ok) = Store!DeleteExactlyStaged(a, ok)
  BY DEF Media!DeleteExactlyStaged, Store!DeleteExactlyStaged, Media!Deletes, Store!Deletes
<1>6. Media!Collect(ok) = Store!Collect(ok) BY DEF Media!Collect, Store!Collect
<1>7. Media!Age(a) = Store!Age(a) BY DEF Media!Age, Store!Age
<1> QED BY <1>1, <1>2, <1>3, <1>4, <1>5, <1>6, <1>7

LEMMA SamePublication ==
  ASSUME NEW a, NEW reading, NEW ok
  PROVE  /\ Media!Move(a) = Store!Move(a) /\ Media!Intend(a) = Store!Intend(a)
         /\ Media!Publish(a, ok) = Store!Publish(a, ok)
         /\ Media!Boot(reading, ok) = Store!Boot(reading, ok)
<1> USE DEF Media!Save, Store!Save, Media!Fails, Store!Fails, Media!As, Store!As,
            Media!Unknown, Store!Unknown, Media!NoRecords, Store!NoRecords, Media!Live, Store!Live,
            Media!indexVars, Store!indexVars, Media!faultVars, Store!faultVars, Media!histVars, Store!histVars
<1>1. Media!Move(a) = Store!Move(a) BY DEF Media!Move, Store!Move
<1>2. Media!Intend(a) = Store!Intend(a) BY DEF Media!Intend, Store!Intend
<1>3. Media!Publish(a, ok) = Store!Publish(a, ok) BY DEF Media!Publish, Store!Publish
<1>4. Media!Boot(reading, ok) = Store!Boot(reading, ok)
  BY DEF Media!Boot, Store!Boot, Media!MayTidy, Store!MayTidy, Media!Reconciled, Store!Reconciled,
         Media!Frees, Store!Frees, Media!Serves, Store!Serves
<1> QED BY <1>1, <1>2, <1>3, <1>4

\* A step of the store keeps the upload's promises if it leaves no traces but of
\* what is finalized, and forgets nothing.
LEMMA StoreKeeps ==
  ASSUME IInv, Media!Next, UNCHANGED <<up, saved, chunks, said, lost>>,
         Store!Lasting', Store!NothingGone,
         \A a \in Asset : Store!Traces(a)' => Store!Traces(a) \/ (a = up.media /\ fin # "idle"),
         cancel' \in {"no", "ending"} \cup Asset,
         fin' \in {"idle", "claimed", "ingesting", "made", "broken"},
         fin' # "idle" => fin # "idle",
         fin' = "made" => fin = "made" \/ rec'[up.media].life # "none"
  PROVE  IInv'
<1>1. Store!IInv' /\ Media!TypeOK' BY StoreStep DEF IInv, Kept
<1>2. Kept' BY <1>1 DEF Kept
<1>3. TypeOK' BY <1>1 DEF IInv, Mine, TypeOK
<1>4. Settled' /\ Apace' /\ Named' BY DEF IInv, Mine, Settled, Apace, Named
<1>5. DraftIsWhole' /\ CancelledStays' BY DEF IInv, Mine, DraftIsWhole, CancelledStays
<1>6. OnlyOurs'
  <2> SUFFICES ASSUME saved'.state # "swept", NEW a \in Asset, Store!Traces(a)'
               PROVE  a = saved'.media
    BY DEF OnlyOurs
  <2>1. CASE Store!Traces(a) BY <2>1 DEF IInv, Joint, OnlyOurs
  <2>2. CASE a = up.media /\ fin # "idle" BY <2>2 DEF IInv, Mine, Named
  <2> QED BY <2>1, <2>2
<1>7. fin = "made" => up.media \in Asset BY DEF IInv, Mine, TypeOK, Manifest
<1>8. Made'
  <2> SUFFICES ASSUME ~lost, fin' = "made" PROVE rec'[up.media].life # "none" BY DEF Made
  <2>1. CASE fin = "made"
    <3>1. rec[up.media].life # "none" BY <2>1 DEF IInv, Joint, Made
    <3> QED BY <3>1, <2>1, <1>7 DEF Store!NothingGone
  <2>2. CASE fin # "made" BY <2>2
  <2> QED BY <2>1, <2>2
<1>9. Pledge'
  <2>1. Store!TypeOK /\ Store!Next BY SameStore DEF IInv, Kept, Store!IInv
  <2>2. fails' \in {fails, fails + 1} BY <2>1, StoreAssumptions, Store!FailuresAddUp
  <2>3. fails \in Nat BY <2>1, MediaAssumption DEF Store!TypeOK
  <2>4. fails' <= 1 => fails <= 1 BY <2>2, <2>3
  <2>5. ~lost => \A a \in Asset : disk[a].life # "none" => disk'[a].life # "none"
    BY DEF Store!NothingGone
  <2> QED BY <2>4, <2>5 DEF IInv, Joint, Pledge
<1> QED BY <1>2, <1>3, <1>4, <1>5, <1>6, <1>8, <1>9 DEF IInv, Mine, Joint

\* Whatever others do to the store.
LEMMA CallKeeps ==
  ASSUME IInv, Store!Call, Media!Next, UNCHANGED <<up, saved, chunks, said>>,
         cancel' \in {"no", "ending"} \cup Asset,
         fin' \in {"idle", fin}
  PROVE  IInv'
<1>1. Store!TypeOK /\ Store!Lasting BY DEF IInv, Kept, Store!IInv
<1>2. Store!Lasting' /\ Store!NothingNew /\ Store!NothingGone /\ lost' = lost
  BY <1>1, StoreAssumptions, Store!CallLasts
<1>3. fin \in {"idle", "claimed", "ingesting", "made", "broken"} BY DEF IInv, Mine, TypeOK
<1> QED BY <1>2, <1>3, StoreKeeps DEF Store!NothingNew

\* The other users of the store.
LEMMA OthersKeep == ASSUME IInv, Others PROVE IInv'
<1>1. UNCHANGED uploadVars BY DEF Others
<1>2. CASE \E ok \in BOOLEAN, S \in SUBSET Asset \ {{}} :
             \/ \E q \in Owner : Media!Reserve(S, q, ok) \/ Media!Release(S, q, ok)
             \/ Media!Associate(S, ok)
  <2>1. Media!Next BY <1>2 DEF Media!Next
  <2>2. Store!Call
    <3>1. PICK ok \in BOOLEAN, S \in SUBSET Asset \ {{}} :
            \/ \E q \in Owner : Media!Reserve(S, q, ok) \/ Media!Release(S, q, ok)
            \/ Media!Associate(S, ok)
      BY <1>2
    <3>2. ASSUME NEW q \in Owner, Media!Reserve(S, q, ok) \/ Media!Release(S, q, ok)
          PROVE  Store!Reserve(S, q, ok) \/ Store!Release(S, q, ok)
      BY <3>2, SameCalls
    <3>3. Media!Associate(S, ok) => Store!Associate(S, ok) BY SameCalls
    <3> QED BY <3>1, <3>2, <3>3 DEF Store!Call
  <2> QED BY <2>1, <2>2, <1>1, CallKeeps DEF uploadVars, IInv, Mine, TypeOK
<1>3. CASE \E ok \in BOOLEAN, a \in Asset : Media!DeleteUnassociated(a, ok)
  <2>1. Media!Next BY <1>3 DEF Media!Next
  <2>2. Store!Call BY <1>3, SameCalls DEF Store!Call
  <2> QED BY <2>1, <2>2, <1>1, CallKeeps DEF uploadVars, IInv, Mine, TypeOK
<1>4. CASE \E ok \in BOOLEAN : Media!Collect(ok)
  <2>1. Media!Next BY <1>4 DEF Media!Next
  <2>2. Store!Call BY <1>4, SameCalls DEF Store!Call
  <2> QED BY <2>1, <2>2, <1>1, CallKeeps DEF uploadVars, IInv, Mine, TypeOK
<1>5. CASE \E a \in Asset : rec[a].life \in {"staged", "reserved"} /\ Media!Age(a)
  <2>1. Media!Next BY <1>5 DEF Media!Next
  <2>2. Store!Call BY <1>5, SameCalls DEF Store!Call
  <2> QED BY <2>1, <2>2, <1>1, CallKeeps DEF uploadVars, IInv, Mine, TypeOK
<1> QED BY <1>2, <1>3, <1>4, <1>5 DEF Others

\* A delete of what the upload published, by a cancel.
LEMMA DeletesKeep ==
  ASSUME IInv, NEW a \in Asset, NEW ok \in BOOLEAN, Media!DeleteExactlyStaged(a, ok),
         UNCHANGED <<up, saved, chunks, said>>, cancel' \in {"no", "ending"} \cup Asset,
         fin' \in {"idle", fin}
  PROVE  IInv'
<1>1. Media!Next BY DEF Media!Next
<1>2. Store!Call BY SameCalls DEF Store!Call
<1> QED BY <1>1, <1>2, CallKeeps

\* What was made after a cancel is taken back, or was taken.
LEMMA UndoKeeps == ASSUME IInv, NEW ok \in BOOLEAN, Undo(ok) PROVE IInv'
<1>1. /\ fin = "made" /\ fin' = "idle"
      /\ UNCHANGED <<up, saved, chunks, cancel, said>>
  BY DEF Undo
<1>2. up.media \in Asset /\ cancel \in {"no", "ending"} \cup Asset
  BY <1>1 DEF IInv, Mine, TypeOK, Manifest
<1>3. CASE Media!DeleteExactlyStaged(up.media, ok) BY <1>1, <1>2, <1>3, DeletesKeep
<1>4. CASE UNCHANGED <<mediaVars, fails, boots>> BY <1>1, <1>2, <1>4, StillKeeps
<1> QED BY <1>3, <1>4 DEF Undo

LEMMA CancelDeletesKeeps == ASSUME IInv, NEW ok \in BOOLEAN, CancelDeletes(ok) PROVE IInv'
<1>1. cancel \in Asset /\ UNCHANGED <<up, saved, chunks, fin, said>> /\ cancel' \in {"no", "ending"}
  BY DEF CancelDeletes
<1>2. CASE Media!DeleteExactlyStaged(cancel, ok) BY <1>1, <1>2, DeletesKeep
<1>3. CASE UNCHANGED <<mediaVars, fails, boots>> BY <1>1, <1>3, StillKeeps
<1> QED BY <1>2, <1>3 DEF CancelDeletes

\* The media store takes in what the disk names.
LEMMA IngestKeeps == ASSUME IInv, Ingest PROVE IInv'
<1>1. fin = "ingesting" /\ UNCHANGED <<up, saved, chunks, cancel, said>> BY DEF Ingest
<1>2. up.media \in Asset /\ cancel \in {"no", "ending"} \cup Asset
  BY <1>1 DEF IInv, Mine, TypeOK, Manifest
<1>3. Store!TypeOK /\ Store!Lasting BY DEF IInv, Kept, Store!IInv
<1>4. CASE (Media!Move(up.media) \/ Media!Intend(up.media)) /\ fin' \in {fin, "broken"}
  <2>1. Media!Next BY <1>2, <1>4 DEF Media!Next
  <2>2. Store!Move(up.media) \/ Store!Intend(up.media) BY <1>4, SamePublication
  <2>3. /\ Store!Lasting' /\ Store!NothingGone /\ lost' = lost
        /\ \A b \in Asset \ {up.media} : Store!Traces(b)' => Store!Traces(b)
    BY <2>2, <1>2, <1>3, StoreAssumptions, Store!MoveLasts
  <2> QED BY <1>1, <1>2, <1>4, <2>1, <2>3, StoreKeeps
<1>5. CASE \E ok \in BOOLEAN : Media!Publish(up.media, ok) /\ fin' = IF ok THEN "made" ELSE "broken"
  <2>1. PICK ok \in BOOLEAN : Media!Publish(up.media, ok) /\ fin' = IF ok THEN "made" ELSE "broken"
    BY <1>5
  <2>2. Media!Next BY <1>2, <2>1 DEF Media!Next
  <2>3. Store!Publish(up.media, ok) BY <2>1, SamePublication
  <2>4. /\ Store!Lasting' /\ Store!NothingGone /\ lost' = lost /\ rec'[up.media].life = "staged"
        /\ \A b \in Asset \ {up.media} : Store!Traces(b)' => Store!Traces(b)
    BY <2>3, <1>2, <1>3, StoreAssumptions, Store!PublishLasts
  <2> QED BY <1>1, <1>2, <2>1, <2>2, <2>4, StoreKeeps
<1>6. CASE fin' = "broken" /\ UNCHANGED <<mediaVars, fails, boots>>
  BY <1>1, <1>2, <1>6, StillKeeps
<1> QED BY <1>1, <1>4, <1>5, <1>6 DEF Ingest

-----------------------------------------------------------------------------
(* Boots *)

\* What a boot makes of a manifest.
LEMMA ReconciledOutcome ==
  ASSUME saved \in Manifest, Settled, NEW recs, NEW m \in Reconciled(saved, recs)
  PROVE  /\ m \in Manifest /\ m.parts = saved.parts /\ m.media = saved.media
         /\ \/ m = saved
            \/ m.state = "receiving" /\ saved.state = "finalizing"
            \/ m.state = "published" /\ m.receipt \in Asset /\ saved.state \in {"finalizing", "failed"}
         /\ saved.state = "finalizing" /\ Found(recs) # {} => m.state = "published"
<1>1. CASE saved.state \in {"finalizing", "failed"} /\ Found(recs) # {}
  <2>1. PICK a \in Asset : m = Published(saved, a) BY <1>1 DEF Reconciled, Found
  <2> QED BY <1>1, <2>1 DEF Published, Manifest, States
<1>2. CASE saved.state = "finalizing" /\ Found(recs) = {}
  <2>1. m = [saved EXCEPT !.state = "receiving"] BY <1>2 DEF Reconciled
  <2> QED BY <1>2, <2>1 DEF Manifest, States
<1>3. CASE saved.state = "failed" /\ Found(recs) = {} BY <1>3 DEF Reconciled
<1>4. CASE saved.state \notin {"finalizing", "failed"}
  <2>1. ~(saved.state = "published" /\ saved.receipt = NoAsset) BY DEF Settled
  <2>2. m = saved BY <1>4, <2>1 DEF Reconciled
  <2> QED BY <1>4, <2>2
<1> QED BY <1>1, <1>2, <1>3, <1>4

\* A boot of both.
LEMMA BootKeeps == ASSUME IInv, Boot PROVE IInv'
<1>1. PICK reading \in Media!Readings, ok \in BOOLEAN : Media!Boot(reading, ok) BY DEF Boot
<1>2. PICK m \in Reconciled(saved, rec') :
        /\ up' = IF Sweepable(m) THEN Blank("swept") ELSE m
        /\ chunks' = IF Sweepable(m) THEN {} ELSE chunks
  BY DEF Boot
<1>3. saved' = up' /\ fin' = "idle" /\ cancel' = "no" /\ said' = said BY DEF Boot
<1>4. /\ up \in Manifest /\ saved \in Manifest /\ chunks \subseteq Chunk
      /\ said \subseteq {"published", "cancelled"}
  BY DEF IInv, Mine, TypeOK
<1>5. /\ m \in Manifest /\ m.parts = saved.parts /\ m.media = saved.media
      /\ \/ m = saved
         \/ m.state = "receiving" /\ saved.state = "finalizing"
         \/ m.state = "published" /\ m.receipt \in Asset /\ saved.state \in {"finalizing", "failed"}
      /\ saved.state = "finalizing" /\ Found(rec') # {} => m.state = "published"
  BY <1>4, ReconciledOutcome DEF IInv, Mine
<1>6. Media!Next BY <1>1 DEF Media!Next
<1>7. Store!IInv' /\ Media!TypeOK' BY <1>6, StoreStep DEF IInv, Kept
<1>8. /\ Store!Lasting' /\ Store!NothingNew /\ (lost => lost')
      /\ ~lost' => \A a \in Asset : disk[a].life # "none" =>
                     rec'[a].life # "none" /\ disk'[a].life # "none"
  <2>1. reading \in Store!Readings BY SameStore
  <2>2. Store!Boot(reading, ok) BY <1>1, SamePublication
  <2>3. Store!TypeOK /\ Store!Lasting BY DEF IInv, Kept, Store!IInv
  <2> QED BY <2>1, <2>2, <2>3, StoreAssumptions, Store!BootLasts
<1>9. fails' <= 1 => fails <= 1
  <2>1. Store!TypeOK /\ Store!Next BY <1>6, SameStore DEF IInv, Kept, Store!IInv
  <2>2. fails' \in {fails, fails + 1} BY <2>1, StoreAssumptions, Store!FailuresAddUp
  <2>3. fails \in Nat BY <2>1, MediaAssumption DEF Store!TypeOK
  <2> QED BY <2>2, <2>3
<1>10. /\ Blank("swept") \in Manifest /\ Blank("swept").state = "swept" /\ Blank("swept").media = NoAsset
  BY DEF Blank, Manifest, States
<1>11. \/ up' = Blank("swept") /\ chunks' = {}
       \/ up' = m /\ chunks' = chunks
  <2>1. CASE Sweepable(m) BY <1>2, <2>1
  <2>2. CASE ~Sweepable(m) BY <1>2, <2>2
  <2> QED BY <2>1, <2>2
<1>12. m.state = "published" => m.receipt # NoAsset
  BY <1>5, ChunkAssumption DEF IInv, Mine, Settled
<1>13. TypeOK'
  <2>1. up' \in Manifest /\ chunks' \subseteq Chunk BY <1>4, <1>5, <1>10, <1>11
  <2>2. up'.state = "published" => up'.receipt # NoAsset BY <1>10, <1>11, <1>12
  <2> QED BY <2>1, <2>2, <1>3, <1>4, <1>7 DEF TypeOK
<1>14. Settled' BY <1>3, <1>10, <1>11, <1>12 DEF Settled
<1>15. Apace' /\ Named'
  <2>1. m.state = "none" => m.media = NoAsset BY <1>5 DEF IInv, Mine, Apace
  <2> QED BY <2>1, <1>3, <1>10, <1>11 DEF Apace, Named
<1>16. DraftIsWhole'
  <2>1. m.state \in {"receiving", "finalizing", "failed"} => m.parts \subseteq chunks
    BY <1>5 DEF IInv, Mine, DraftIsWhole
  <2> QED BY <2>1, <1>3, <1>10, <1>11 DEF DraftIsWhole
<1>17. CancelledStays'
  <2>1. "cancelled" \in said => m = saved /\ saved.state \in {"cancelled", "swept"}
    BY <1>5 DEF IInv, Mine, CancelledStays
  <2> QED BY <2>1, <1>3, <1>10, <1>11 DEF CancelledStays
<1>18. OnlyOurs'
  <2> SUFFICES ASSUME saved'.state # "swept", NEW a \in Asset, Store!Traces(a)'
               PROVE  a = saved'.media
    BY DEF OnlyOurs
  <2>1. up' = m /\ m.state # "swept" BY <1>3, <1>10, <1>11
  <2>2. saved.state # "swept" BY <2>1, <1>5
  <2>3. Store!Traces(a) BY <1>8 DEF Store!NothingNew
  <2> QED BY <2>1, <2>2, <2>3, <1>3, <1>5 DEF IInv, Joint, OnlyOurs
<1>19. Made' BY <1>3 DEF Made
<1>20. Pledge'
  <2> SUFFICES ASSUME ~lost', fails' <= 1, "published" \in said' \/ up'.state = "published"
               PROVE  up'.state \in Ended /\ saved'.state \in Ended
    BY DEF Pledge
  <2>1. CASE up'.state = "published" BY <2>1, <1>3 DEF Ended
  <2>2. CASE "published" \in said
    <3>1. \/ saved.state \in Ended
          \/ saved.state = "finalizing" /\ \E a \in Asset : disk[a].life # "none"
      BY <2>2, <1>8, <1>9 DEF IInv, Joint, Pledge
    <3>2. CASE saved.state \in Ended BY <3>2, <1>3, <1>5, <1>10, <1>11 DEF Ended
    <3>3. CASE saved.state = "finalizing" /\ \E a \in Asset : disk[a].life # "none"
      <4>1. Found(rec') # {} BY <3>3, <1>8 DEF Found
      <4>2. m.state = "published" BY <3>3, <4>1, <1>5
      <4> QED BY <4>2, <1>3, <1>10, <1>11 DEF Ended
    <3> QED BY <3>1, <3>2, <3>3
  <2> QED BY <2>1, <2>2, <1>3
<1> QED BY <1>7, <1>8, <1>13, <1>14, <1>15, <1>16, <1>17, <1>18, <1>19, <1>20
        DEF IInv, Kept, Mine, Joint

-----------------------------------------------------------------------------
(* Theorems *)

LEMMA InitHolds == Init => IInv
<1> SUFFICES ASSUME Init PROVE IInv OBVIOUS
<1>1. /\ up = Blank("none") /\ saved = Blank("none") /\ chunks = {}
      /\ fin = "idle" /\ cancel = "no" /\ said = {} /\ Media!Init
  BY DEF Init
<1>2. /\ Blank("none") \in Manifest /\ Blank("none").state = "none" /\ Blank("none").media = NoAsset
  BY DEF Blank, Manifest, States
<1>3. Store!Init BY <1>1, SameStore
<1>4. Store!IInv BY <1>3, StoreAssumptions, Store!InitHolds
<1>5. Media!TypeOK BY <1>4, SameStore DEF Store!IInv
<1>6. \A a \in Asset : rec[a].life = "none" /\ disk[a].life = "none" /\ dir[a] = "none"
  BY <1>3 DEF Store!Init, Store!InitWith, Store!NoRecords, Store!Unknown, Store!As
<1>7. Store!Lasting BY <1>6 DEF Store!Lasting, Store!Tombstone
<1>8. TypeOK BY <1>1, <1>2, <1>5 DEF TypeOK
<1>9. Settled /\ Apace /\ Named BY <1>1, <1>2 DEF Settled, Apace, Named
<1>10. DraftIsWhole /\ CancelledStays BY <1>1, <1>2 DEF DraftIsWhole, CancelledStays
<1>11. OnlyOurs BY <1>6 DEF OnlyOurs, Store!Traces
<1>12. Made /\ Pledge BY <1>1, <1>2 DEF Made, Pledge
<1> QED BY <1>4, <1>7, <1>8, <1>9, <1>10, <1>11, <1>12 DEF IInv, Kept, Mine, Joint

LEMMA StepKeeps == IInv /\ [Next]_vars => IInv'
<1> SUFFICES ASSUME IInv, [Next]_vars PROVE IInv' OBVIOUS
<1>1. CASE Start \/ Repeat \/ Assemble \/ Ingest \/ Cancel \/ Expires \/ Sweep \/ Others \/ Boot
  BY <1>1, StartKeeps, RepeatKeeps, AssembleKeeps, IngestKeeps, CancelKeeps, ExpiresKeeps, SweepKeeps,
     OthersKeep, BootKeeps
<1>2. CASE \E ok \in BOOLEAN :
             \/ \E c \in Chunk, torn \in BOOLEAN : Put(c, torn, ok)
             \/ \E a \in Asset : Claim(a, ok) \/ Commit(a, ok)
             \/ Undo(ok) \/ GiveUp(ok) \/ Acknowledge(ok) \/ CancelDeletes(ok) \/ CancelEnds(ok)
  BY <1>2, PutKeeps, ClaimKeeps, CommitKeeps, UndoKeeps, GiveUpKeeps, AcknowledgeKeeps,
     CancelDeletesKeeps, CancelEndsKeeps
<1>3. CASE UNCHANGED vars
  <2>1. cancel \in {"no", "ending"} \cup Asset BY DEF IInv, Mine, TypeOK
  <2> QED BY <1>3, <2>1, StillKeeps DEF vars, uploadVars
<1> QED BY <1>1, <1>2, <1>3 DEF Next

\* The inductive invariant, for any chunks, media, queue items, failures and boots.
THEOREM Invariance == Spec => []IInv
<1> QED BY InitHolds, StepKeeps, PTL DEF Spec

\* The variables have their types; a finalize under way has its id, and what is
\* published its receipt.
THEOREM Typing == Spec => []TypeOK
<1>1. IInv => TypeOK BY DEF IInv, Mine
<1> QED BY <1>1, Invariance, PTL

\* finalize() never finds a chunk missing that a manifest counts.
THEOREM DraftsAreWhole == Spec => []DraftIsWhole
<1>1. IInv => DraftIsWhole BY DEF IInv, Mine
<1> QED BY <1>1, Invariance, PTL

\* All that was made for an upload is found under the id its manifest names.
THEOREM NothingStray == Spec => []NoStrayMedia
<1>1. IInv => NoStrayMedia BY DEF IInv, Joint, OnlyOurs, NoStrayMedia, Store!Traces
<1> QED BY <1>1, Invariance, PTL

\* What a client was told is published is not asked for again, whichever one
\* write failed.
THEOREM PublishedStays == Spec => []PublishedIsKept
<1>1. IInv => PublishedIsKept BY DEF IInv, Joint, Pledge, Ended, PublishedIsKept
<1> QED BY <1>1, Invariance, PTL

\* A canceled upload stays canceled, until it is swept.
THEOREM CancelIsFinal == Spec => []CancelledStays
<1>1. IInv => CancelledStays BY DEF IInv, Mine
<1> QED BY <1>1, Invariance, PTL

\* Under the upload's steps, too, the store offers nothing without its bytes,
\* takes nothing back from a message, and keeps confirmed reservations.
THEOREM StoreStandsUnderUploads ==
  Spec => [](Media!LiveHasBytes /\ Media!AssociateWins /\ Media!ReservationKept)
<1>1. IInv => Store!LiveHasBytes /\ Store!AssociateWins /\ Store!ReservationKept
  BY DEF IInv, Kept, Store!IInv
<1>2. /\ Store!LiveHasBytes = Media!LiveHasBytes /\ Store!AssociateWins = Media!AssociateWins
      /\ Store!ReservationKept = Media!ReservationKept
  BY DEF Store!LiveHasBytes, Media!LiveHasBytes, Store!AssociateWins, Media!AssociateWins,
         Store!ReservationKept, Media!ReservationKept, Store!Live, Media!Live,
         Store!Serves, Media!Serves
<1>3. IInv => Media!LiveHasBytes /\ Media!AssociateWins /\ Media!ReservationKept BY <1>1, <1>2
<1> QED BY <1>3, Invariance, PTL
=============================================================================
