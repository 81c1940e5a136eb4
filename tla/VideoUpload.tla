---------------------------- MODULE VideoUpload -----------------------------
(***************************************************************************)
(* One resumable video upload (server/lib/video-upload-v2.ts), with the    *)
(* media store it publishes to.                                            *)
(*                                                                         *)
(* A manifest in memory, its copy on disk, and one file per chunk.  The    *)
(* calls of an upload are serialized by a lock; only a cancel that deletes *)
(* a published video waits while it holds it.  finalize() lets the lock go *)
(* while the media store takes the video in, and takes it again to commit  *)
(* the receipt.  Saves fail, and the process stops at any point.           *)
(***************************************************************************)
EXTENDS Integers, FiniteSets

CONSTANTS Chunk,                \* chunk indices
          Asset, Owner, NoOwner, \* as in MediaStore: ids that may be drawn, queue items
          NoAsset, MaxFails, MaxBoots

ASSUME ChunkAssumption == Chunk # {} /\ NoAsset \notin Asset

\* Of the media store.
ASSUME MediaAssumption == NoOwner \notin Owner /\ MaxFails \in Nat /\ MaxBoots \in Nat

VARIABLES up,      \* the manifest in memory
          saved,   \* manifest.json
          chunks,  \* chunk files
          fin,     \* finalizeOnce: "idle", "claimed", "ingesting", "made", "broken"
          cancel,  \* cancel() holds the lock: "no", the id it deletes, "ending"
          said,    \* history: what a client was told in a 200: "published", "cancelled"
          rec, disk, file, dir, pub, tidy, fails, boots, lost, holds, told

Media == INSTANCE MediaStore WITH Video <- Asset

mediaVars == <<rec, disk, file, dir, pub, tidy, lost, holds, told>>
uploadVars == <<up, saved, chunks, fin, cancel, said>>
vars == <<uploadVars, mediaVars, fails, boots>>

States == {"none", "receiving", "finalizing", "published", "cancelled", "failed", "swept"}

\* due: expiresAtMs has passed.  receipt: the id of its attachment.
Manifest == [state : States, parts : SUBSET Chunk, media : Asset \cup {NoAsset},
             receipt : Asset \cup {NoAsset}, ack : BOOLEAN, due : BOOLEAN]

Blank(state) == [state |-> state, parts |-> {}, media |-> NoAsset, receipt |-> NoAsset,
                 ack |-> FALSE, due |-> FALSE]

Init ==
  /\ up = Blank("none") /\ saved = Blank("none") /\ chunks = {}
  /\ fin = "idle" /\ cancel = "no" /\ said = {}
  /\ Media!Init

Known == up.state \notin {"none", "swept"}
Unlocked == cancel = "no"

\* save() of manifest m, whose outcome the caller learns.
Save(m, ok) ==
  IF ok THEN saved' = m /\ UNCHANGED fails
        ELSE Media!Fails /\ saved' \in {saved, m}

Becomes(m, ok) == up' = m /\ Save(m, ok)

-----------------------------------------------------------------------------
(* Receiving *)

\* init(): the manifest is in memory only once it is saved.
Start ==
  /\ up.state = "none"
  /\ up' = Blank("receiving") /\ saved' = up'
  /\ UNCHANGED <<chunks, fin, cancel, said, mediaVars, fails, boots>>

\* putPart(): the chunk file is written and must not exist, then the manifest
\* names it.  torn: the write fails, or the process stops, before the manifest does.
Put(c, torn, ok) ==
  /\ Unlocked /\ up.state = "receiving"
  /\ c \notin up.parts /\ c \notin chunks
  /\ chunks' = chunks \cup {c}
  /\ IF torn THEN ~ok /\ Media!Fails /\ UNCHANGED <<up, saved>>
             ELSE Becomes([up EXCEPT !.parts = @ \cup {c}], ok)
  /\ UNCHANGED <<fin, cancel, said, mediaVars, boots>>

-----------------------------------------------------------------------------
(* Finalizing *)

\* Slip: every attempt draws an id of its own.
ClaimAnew(a, ok) ==
  /\ Unlocked /\ fin = "idle"
  /\ up.state \in {"receiving", "finalizing", "failed"}
  /\ up.parts = Chunk
  /\ Becomes([up EXCEPT !.state = "finalizing", !.media = a], ok)
  /\ fin' = IF ok THEN "claimed" ELSE "idle"
  /\ UNCHANGED <<chunks, cancel, said, mediaVars, boots>>

\* finalizeOnce() under the lock: the manifest names the media before it is made.
Claim(a, ok) ==
  /\ Unlocked /\ fin = "idle"
  /\ up.state \in {"receiving", "finalizing", "failed"}
  /\ up.parts = Chunk
  /\ up.media \in {a, NoAsset}
  /\ Becomes([up EXCEPT !.state = "finalizing", !.media = a], ok)
  /\ fin' = IF ok THEN "claimed" ELSE "idle"
  /\ UNCHANGED <<chunks, cancel, said, mediaVars, boots>>

\* A finalize of what is published answers at once.
Repeat ==
  /\ Unlocked /\ fin = "idle" /\ up.state = "published" /\ up.receipt # NoAsset
  /\ said' = said \cup {"published"}
  /\ UNCHANGED <<up, saved, chunks, fin, cancel, mediaVars, fails, boots>>

\* findByVideoUploadId(): whatever became of the record.
Found(recs) == {a \in Asset : recs[a].life # "none"}

Published(m, a) ==
  [m EXCEPT !.state = "published", !.receipt = a, !.ack = FALSE, !.due = FALSE]

\* commitReceipt(), of the record found or made.
Commit(a, ok) ==
  /\ Unlocked /\ Known
  /\ \/ fin = "claimed" /\ a \in Found(rec)
     \/ fin = "made" /\ a = up.media
  /\ fin' = "idle"
  /\ IF up.state = "cancelled" THEN ok /\ UNCHANGED <<up, saved, said, fails>>
     ELSE /\ Becomes(Published(up, a), ok)
          /\ said' = IF ok THEN said \cup {"published"} ELSE said
  /\ UNCHANGED <<chunks, cancel, mediaVars, boots>>

\* assembleOriginal(): the chunks are read back.
Assemble ==
  /\ fin = "claimed" /\ Found(rec) = {}
  /\ fin' = IF up.parts = Chunk /\ Chunk \subseteq chunks THEN "ingesting" ELSE "broken"
  /\ UNCHANGED <<up, saved, chunks, cancel, said, mediaVars, fails, boots>>

\* The media store takes it in, step by step, and may refuse it.
Ingest ==
  /\ fin = "ingesting"
  /\ \/ Media!Move(up.media) /\ UNCHANGED fin
     \/ Media!Intend(up.media) /\ fin' = IF pub'[up.media] = "no" THEN "broken" ELSE fin
     \/ \E ok \in BOOLEAN : Media!Publish(up.media, ok) /\ fin' = IF ok THEN "made" ELSE "broken"
     \/ pub[up.media] = "no" /\ fin' = "broken" /\ UNCHANGED <<mediaVars, fails, boots>>
  /\ UNCHANGED <<up, saved, chunks, cancel, said>>

\* Canceled while it was taken in: what was made goes.
Undo(ok) ==
  /\ fin = "made" /\ up.state = "cancelled"
  /\ \/ Media!DeleteExactlyStaged(up.media, ok)
     \/ rec[up.media].life # "staged" /\ ok /\ UNCHANGED <<mediaVars, fails, boots>>
  /\ fin' = "idle"
  /\ UNCHANGED <<up, saved, chunks, cancel, said>>

\* finalizeOnce() fails: the draft stays, for another attempt.
GiveUp(ok) ==
  /\ Unlocked /\ fin = "broken" /\ fin' = "idle"
  /\ IF up.state \in {"published", "cancelled"} THEN ok /\ UNCHANGED <<up, saved, fails>>
     ELSE Becomes([up EXCEPT !.state = "failed"], ok)
  /\ UNCHANGED <<chunks, cancel, said, mediaVars, boots>>

-----------------------------------------------------------------------------
(* Acknowledging, cancelling, expiring *)

Acknowledge(ok) ==
  /\ Unlocked /\ up.state = "published" /\ up.receipt # NoAsset
  /\ Becomes([up EXCEPT !.ack = TRUE, !.due = FALSE], ok)
  /\ chunks' = IF ok THEN {} ELSE chunks
  /\ UNCHANGED <<fin, cancel, said, mediaVars, boots>>

\* cancel(), which clearStrandedReceiving() calls too: a published video is
\* deleted first, unless a queue item or a message has it.
Cancel ==
  /\ Unlocked /\ Known
  /\ cancel' = IF up.state = "published" /\ up.receipt # NoAsset THEN up.receipt ELSE "ending"
  /\ UNCHANGED <<up, saved, chunks, fin, said, mediaVars, fails, boots>>

CancelDeletes(ok) ==
  /\ cancel \in Asset
  /\ \/ /\ Media!DeleteExactlyStaged(cancel, ok)
        /\ cancel' = IF ok THEN "ending" ELSE "no"
     \/ /\ rec[cancel].life # "staged"
        /\ ok /\ cancel' = "ending" /\ UNCHANGED <<mediaVars, fails, boots>>
  /\ UNCHANGED <<up, saved, chunks, fin, said>>

Cancelled(m) == [m EXCEPT !.state = "cancelled", !.due = FALSE]

\* Slip: the chunks go before the manifest says why.
CancelEndsEarly(ok) ==
  /\ cancel = "ending" /\ cancel' = "no"
  /\ IF ~Known THEN ok /\ UNCHANGED <<up, saved, chunks, said, fails>>
     ELSE /\ Becomes(Cancelled(up), ok)
          /\ chunks' = {}
          /\ said' = IF ok THEN said \cup {"cancelled"} ELSE said
  /\ UNCHANGED <<fin, mediaVars, boots>>

\* The manifest is saved as canceled, and then the chunks go; one that expired
\* meanwhile has no directory to be saved to.
CancelEnds(ok) ==
  /\ cancel = "ending" /\ cancel' = "no"
  /\ IF ~Known THEN ok /\ UNCHANGED <<up, saved, chunks, said, fails>>
     ELSE /\ Becomes(Cancelled(up), ok)
          /\ chunks' = IF ok THEN {} ELSE chunks
          /\ said' = IF ok THEN said \cup {"cancelled"} ELSE said
  /\ UNCHANGED <<fin, mediaVars, boots>>

\* An attempt to finalize does not outlast the day a terminal manifest is kept.
Expires ==
  /\ Known /\ (up.state \in {"published", "cancelled"} => fin = "idle")
  /\ \/ ~up.due /\ up' = [up EXCEPT !.due = TRUE]
        /\ saved' = IF saved = up THEN up' ELSE saved
     \/ ~saved.due /\ saved # up /\ saved' = [saved EXCEPT !.due = TRUE] /\ UNCHANGED up
  /\ UNCHANGED <<chunks, fin, cancel, said, mediaVars, fails, boots>>

\* Slip: a finalize that takes long is swept from under itself.
SweepableAny(m) == m.due /\ m.state \notin {"none", "swept"}

Sweepable(m) == m.due /\ m.state \in {"receiving", "failed", "cancelled", "published"}

\* sweepExpired(), by status(), init() or a boot.
Sweep ==
  /\ Sweepable(up)
  /\ up' = Blank("swept") /\ saved' = Blank("swept") /\ chunks' = {}
  /\ UNCHANGED <<fin, cancel, said, mediaVars, fails, boots>>

-----------------------------------------------------------------------------
(* The media's other users, and boots *)

\* A queue item, a message, a delete, the collector.  A tombstone is kept
\* longer than any upload.
Others ==
  /\ \/ \E ok \in BOOLEAN, S \in SUBSET Asset \ {{}} :
          \/ \E q \in Owner : Media!Reserve(S, q, ok) \/ Media!Release(S, q, ok)
          \/ Media!Associate(S, ok)
     \/ \E ok \in BOOLEAN, a \in Asset : Media!DeleteUnassociated(a, ok)
     \/ \E ok \in BOOLEAN : Media!Collect(ok)
     \/ \E a \in Asset : rec[a].life \in {"staged", "reserved"} /\ Media!Age(a)
  /\ UNCHANGED uploadVars

\* Slip: a boot does not look for what was published.
ReconciledForgetful(m, recs) ==
  IF m.state = "finalizing" THEN {[m EXCEPT !.state = "receiving"]} ELSE {m}

\* Slip: a boot takes any media of the upload for its outcome.
ReconciledGreedily(m, recs) ==
  IF m.state \notin {"none", "swept"} /\ Found(recs) # {}
  THEN {Published(m, a) : a \in Found(recs)}
  ELSE IF m.state = "finalizing" THEN {[m EXCEPT !.state = "receiving"]} ELSE {m}

\* reconcilePublished(): a finalize that was cut off is published if its media
\* was, and else may be tried again.
Reconciled(m, recs) ==
  IF \/ m.state \in {"finalizing", "failed"}
     \/ m.state = "published" /\ m.receipt = NoAsset
  THEN IF Found(recs) # {} THEN {Published(m, a) : a \in Found(recs)}
       ELSE IF m.state = "finalizing" THEN {[m EXCEPT !.state = "receiving"]} ELSE {m}
  ELSE {m}

\* A boot that cannot save what it reconciled has no registry, and tries again.
Boot ==
  /\ \E reading \in Media!Readings, ok \in BOOLEAN : Media!Boot(reading, ok)
  /\ \E m \in Reconciled(saved, rec') :
       /\ up' = IF Sweepable(m) THEN Blank("swept") ELSE m
       /\ chunks' = IF Sweepable(m) THEN {} ELSE chunks
  /\ saved' = up'
  /\ fin' = "idle" /\ cancel' = "no"
  /\ UNCHANGED said

Next ==
  \/ Start \/ Repeat \/ Assemble \/ Ingest \/ Cancel \/ Expires \/ Sweep \/ Others \/ Boot
  \/ \E ok \in BOOLEAN :
       \/ \E c \in Chunk, torn \in BOOLEAN : Put(c, torn, ok)
       \/ \E a \in Asset : Claim(a, ok) \/ Commit(a, ok)
       \/ Undo(ok) \/ GiveUp(ok) \/ Acknowledge(ok) \/ CancelDeletes(ok) \/ CancelEnds(ok)

Spec == Init /\ [][Next]_vars

-----------------------------------------------------------------------------
(* Properties *)

\* Every variable has its type; a finalize under way has its id, and only a
\* published upload has a receipt.
TypeOK ==
  /\ up \in Manifest /\ saved \in Manifest /\ chunks \subseteq Chunk
  /\ fin \in {"idle", "claimed", "ingesting", "made", "broken"}
  /\ cancel \in {"no", "ending"} \cup Asset /\ said \subseteq {"published", "cancelled"}
  /\ fin # "idle" => up.media # NoAsset /\ up.state \in {"finalizing", "cancelled"}
  /\ up.state = "published" => up.receipt # NoAsset
  /\ Media!TypeOK

\* A draft that may be assembled is whole: whenever a manifest, in memory or on
\* disk, says that it may be finalized or received into, its chunks are there.
DraftIsWhole ==
  \A m \in {up, saved} :
    m.state \in {"receiving", "finalizing", "failed"} => m.parts \subseteq chunks

\* Whatever was made for the upload, finished or not, has the id that the
\* manifest on disk names, so that a retry or a boot finds it.
NoStrayMedia ==
  saved.state \notin {"none", "swept"} =>
    \A a \in Asset : rec[a].life # "none" \/ dir[a] # "none" => a = saved.media

\* A client that was told its video is published is never asked for it again,
\* by any boot and whichever one write failed.  (Both stores may fail to save
\* what memory has, and a repeated finalize answers from memory.)
PublishedIsKept ==
  ~lost /\ fails <= 1 /\ "published" \in said => up.state \in {"published", "cancelled", "swept"}

\* A canceled upload is not published after all, not even by a boot that finds
\* what a cut-off finalize had made.
CancelledStays ==
  "cancelled" \in said => {up.state, saved.state} \subseteq {"cancelled", "swept"}
=============================================================================
