# Formal models of the cos-glasses server

TLA+ models of the server in this repository: a TypeScript process on the
user's Mac that takes prompts from a phone and a pair of glasses, runs them
through provider command-line tools (Claude, Codex, Cursor, Ollama), and keeps
what it promised in files, so that a crash, an update or a lost connection
neither loses a prompt nor runs it twice.

The models follow `src/`. Every definition that stands for code is listed in
`PROJECT.json` ("map") with the lines it stands for. TLC checks small
instances; TLAPS proves the main properties for every value of the constants.
An operator marked "Slip" in a module is never used by it: it is a plausible
mistake in the definition that follows it, and `PROJECT.json` ("mutants") says
which property TLC finds violated when the mistake is made.

## 1. Inventory

The core of the server is the life of a prompt:

| part | state it keeps | operations | talks to |
|---|---|---|---|
| query-job store (`lib/query-job-store.ts`) | an append-only journal per day, the jobs folded from it, a serialized writer (`appendTail`), a health flag | admit, markStarting, markRunning, updateLinkage, partial/activity/trail/steer rows, markAnswerReady, complete, fail, cancel, interrupt, acknowledge, subscribe/replay, boot classification | disk; called by the coordinator and the routes |
| query-job coordinator (`lib/query-job-coordinator.ts`) | active runs, start holds, callback tails, deadlines, shutdown flag | submit, execute, callbacks, cancel, steer, shutdown, boot requeue | store, run lock, maintenance leases, bridges |
| run lock (`lib/model-router.ts`) | per session, a promise tail | acquire, release | coordinator |
| bridges (`lib/*-bridge.ts`) | one child process per run | spawn, prompt, stream, finalize, abort | coordinator callbacks; the child |
| maintenance lifecycle (`lib/maintenance-lifecycle.ts`) | a drain gate file, work leases | acquire, begin/adopt/release/cancel drain | every admission; COS Control, the updater |
| boot resume (`lib/boot-resume.ts`) | a ledger of start attempts | open a boot, admit, mark clean, forget, retry | coordinator and meeting jobs at boot |
| thread turn queue (`routes/thread-turn-queue.ts`, `lib/thread-turn-queue*.ts`) | a file of rows per thread | park, resend, delete, drain, reconcile after a restart | occupancy gate; the turn route, over a loopback call |
| turn route and binding registry (`routes/agent-session-bindings.ts`, `lib/agent-session-binding-registry.ts`) | leases of threads, pins, a turn ledger, an attempt journal, fences | attach, turn, cancel, release a fence | the live session or a spawned child |
| permission broker (`lib/permission-broker.ts`, `routes/permission-broker.ts`) | in memory only: items pending and settled, timers, the desk poll, the horizon of what it forgot | admit and park a hook's request, answer, hand back, cancel a session, list, prune, observe hook events, tick | Claude Code's hook (a request held open), phone and glasses, the Mac's own dialog, the desk idle probe |
| media store (`lib/media-store.ts`, `routes/media.ts`) | an index in memory and on disk, one directory per asset, intents of publications, staging and quarantine | publish, reserve, associate, release, delete, collect, reconcile at boot | uploads, the phone's queue items, messages, runs' output images |
| resumable video uploads (`lib/video-upload-v2.ts`) | a manifest in memory and on disk, chunk files, a lock per upload | init, put a part, finalize, acknowledge, cancel, sweep, reconcile at boot | phone; the media store |

Around it are the stores and schedulers listed in `PROJECT.json`
("components"): session halt, hook streams, spoken answers, key lanes, tasks,
schedulers, meetings, live cues, transcription, voices, dictation, archive,
pairing. They are not modelled; section 7 says why.

What is hard here, and what no unit test reaches easily:

* the store decides on a snapshot, queues a write, and another write commits in
  between; only the writer's second check keeps this safe;
* an append, or a rename, can fail with its bytes on the disk;
* a provider child outlives the server that spawned it, so a restart must not
  give its session away;
* a run can be ended by its own report, a deadline, a cancel, a shutdown, a
  broken journal or a crash, and any two of them can race;
* a prompt must be sent only after its ownership is durable, and never twice;
  a turn's words must go into a thread once, whoever times out or retries;
* what resumes work after a crash must not be what crashes the server again;
* a decision about a held permission request has four sources (a click, a desk
  read, a deadline, the hook itself), and whoever asks later must be told what
  the hook was told; silence about a request must mean that it is over;
* a file is renamed into place, then a record of it is made in memory, then the
  record is saved, each of which may be the last that happens; the next boot may
  read less than was saved;
* everything must still come to an end: holds, locks, gates, queued rows and
  requeues must not wait for each other.

`PROJECT.json` lists these as hazards at the line where each bites, with the
properties that cover them.

## 2. Plan

Done, in this order:

1. the job store and its promise (checked and proved);
2. the coordinator, the run lock, the Claude bridge and its child (checked and
   proved);
3. the maintenance gate across boots and the boot-resume ledger (checked and
   proved);
4. the thread turn queue with the turn route, leases and the attempt journal
   (checked and proved);
5. the permission broker with its hook, its clients, the desk and the session
   (checked and proved);
6. the media store, and the resumable video upload that publishes to it (checked
   and proved).

Left:

7. replay and subscription of a job's rows, eviction and rehydration of finished
   jobs; steering (`lib/claude-steer.ts`);
8. the binding registry by itself (epochs, supersession, detach, retention,
   failed commits) with an abstract lease that it implements, so that
   `ThreadTurnQueue` rests on the lease only;
9. session cancel and halt; the hook spool; meeting stop intents and
    finalization jobs, the schedulers and the task dispatcher, the speech cache,
    the relay's metering; each with its safety invariant proved.

Modules are written to be proved about: parameters are constants with named
assumptions, one action per operation, invariants are conjunctions of named
parts, and no operator is RECURSIVE.

## 3. The modules

| module | stands for |
|---|---|
| `QueryJobReducer` | the record reducer of the journal: statuses, allowed transitions, what one row does to a job |
| `QueryJobWrites` | what each operation asks the writer to append, and what the writer checks before it does |
| `QueryJobPromise` | abstract: what the store promises its callers |
| `QueryJobStore` | the store: calls, the serialized writer, failed appends, crash, boot |
| `QueryJobCoordinator` | the coordinator, run lock, bridge, child and their races, on a store whose commits are one step |
| `MaintenanceLifecycle` | the gate file over boots and builds, work leases, COS Control's requests |
| `BootResume` | the crash-loop ledger over boots |
| `ThreadTurnQueue` | the queue of one Claude thread, its drain, the turn route, lease, pin, attempt journal, fence |
| `PermissionBroker` | the broker of one session's permission requests, with the hook, the clients, the desk and the Mac's dialogs |
| `MediaStore` | the media store's index, directories and publication, over failed saves and boots |
| `VideoUpload` | one resumable upload and, by INSTANCE, the media store it publishes to |
| `MC*` | the instances the runs check |
| `*_proofs` | the theorems |

### The job store

`durable` is what the rows on the disk say and `memory` what the process holds,
both per job, both through the same `Apply`. An operation (`CallX`) only queues
an `Op`; the decision of `fail` and `interrupt`, which the code takes on a
snapshot before it queues, is in the `Op` (`FailOp`, `InterruptOp`). `Refuse`
and `StartWrite` are the writer's second check, `Flush` the moment the row is
on the disk, `WriteDone` the return of the append, `WriteFails` an append that
throws, before or after `Flush`, and makes the store read-only. `Crash` may
come anywhere. `Boot` folds the journal; `BootRequeue`, `BootComplete` and
`BootInterrupt` classify what the last process left. `shown` (what a reader has
seen) and `owners` (who was told to send a prompt) are histories. The callers
are arbitrary, so what is checked does not depend on the coordinator.

Left out: text, activity and trail rows, steer rows other than the checkpoint
(they change nothing the properties tell apart), the split into daily
partitions and retention, projection of a job for the phone, `record_too_large`,
and eviction of finished jobs with their rehydration (715-737, 902-915,
1769-1776).

### The coordinator

It uses the same `Op`s, reducer and checks, but a commit is one step (`Writer`),
may be refused, may break the journal (`JournalBreaks`) or be cut by a crash, and
`Boot` classifies in one step. `QueryJobStore` shows that a reader cannot tell
the difference. `stage` is where `execute()` is, `bridge` where the bridge is,
`child` the provider's process, which outlives the server; `tail` is the chain
of callback writes (`callbackTail`), `late` and `ahead` what a fired deadline
still has to do and the callbacks it waits for; `lock` is, per session, the line
of jobs for its run lock: the head holds it, `Unlock` passes it on, and nobody
else leaves the line while the process lives. `Created` is the job an admission
makes, and `Cut` what the journal may hold after an append that failed or was cut:
its row or not. A boot lines up what it requeues in the order of the first rows
(`InOrder`), whatever the line was before.

A child whose server died works on for as long as it likes. What then keeps its
session free is the orphan fence, and the fence lapses by the clock
(`FenceLapses`), whether the child has ended or not. `OneRunPerSession` is
therefore stated with the ends that leave a session unfenced, all of them in
`LeftUnfenced`: a canceled or failed run with nobody left to stop its child; one
completed from a checkpoint, as a boot does without a fence; one interrupted by a
shutdown that read the job before its ownership row; one whose fence is over. For
every other run the property holds over shutdowns, broken journals, crashes and
boots. Section 5 lists the first three among what was seen while modelling.

Left out: steering except for its checkpoint, the boot-resume gate in front of
a requeue (`BootResume` has it), the text of partials. While the coordinator
waits for a lock its admission lease is released and a start takes a new one
(491-523), so a drain can close in between: `Drain` models this.

### The maintenance gate

`disk` is the gate file, `gate` and `blocked` what the process made of it.
Writes (`Persisted` and `NotPersisted`, `Removed` and `NotRemoved`) may fail
before or after the rename. COS Control is modelled by its requests with the
leases it was told, also towards a boot that is gone. The lazy expiry of a
same-boot gate stands at the start of every entry point of the code; here the
entry points wait for `Expire` (`Serving`). Deferred start-up is registered,
notified and delivered by a microtask.

A same-boot gate that a crash orphaned stays closed on purpose (a test pins it).
A lost answer to a drain leaves a gate whose lease Control does not know; that
is its caller's to resolve.

### The boot-resume ledger

Time is counted in half hours, the length of both windows of the code, so that
events are either together or a window apart. `Start` reads the ledger,
`OpenBoot` takes and clears the marker of a clean exit (in the code the first
`admit` does this, so `Admit` waits for it), `Admit` counts an item before it
runs, parks it above the limit, gives a meeting its one second chance. Failed
writes, and a missing or corrupt file, admit. `loop` and `blame` are histories
of crashes that the properties compare the ledger with.

Left out: the pruning of entries (seven days, 500), the environment switch, and
the resumers a Retry calls.

### The thread turn queue

One Claude thread, the switches at their defaults. A tick is six hours: the
ordinary time to live is one tick, the one under a fence is `FenceTTL` ticks.
`rows`, `attempt`, `ledger` and `lease` are on disk; `route`, `drain` and (if its
write failed) `fence` die with the process. The drain delivers by an attach and a
turn over loopback; either call may time out (15 s) while the route goes on.
The route is replay, receipts and claim in one step (there is no await between
them), then the head read, the commit of pin and attempt, the live hop, the 202
with the spawned child, and the close, with a cancel at any of them. `sent`
counts the hops that put, or may have put, the words in the session; a
transcript can show the words only if it is positive. `Legacy` keys may start as
rows an older build left in delivery, without a boot or a journal; `inherited` is
the history of which did. Nothing in such a row says whether its words left, so
what is promised of a key's words is promised of the keys not inherited. Time at which
the server is down is not counted. A sweep runs every 20 seconds, so a row that
every reason of the gate makes overdue is retired before the next tick.

Left out: steering, edits of a row's text (PATCH), the Codex and Cursor hops and
Codex's awaited evidence, the order and number of rows (at most eight wait), the
hold of two minutes after a cancel, the retention of attempts and of ledger
rows, failed registry commits, a keyed thread's refusal after the 202, and a
throw inside the live transport, after which the code goes on to spawn
(`routes/agent-session-bindings.ts`:3191-3199).

### The permission broker

Per request, `item` is where the broker is with it (`reading` the desk before it
is parked, `pending`, or settled in one of the ways of `settle()`), `sock`
whether the hook still listens, `reply` what was written to it, `mac` whether the
session still waits for a decision. A request is of a `shape`: an approval or a
question, of an older hook or a present one (`held` is `ask-hold`), stamped with
its own wait or not. `Holds` gives the length of a hold from what the settings
file and the polls of the clients say as the request arrives. `start` is the code's
`requestedAt`: the hook's stamp of its start or, for a stamp that is missing or
ahead of the clock, when the server read the request; `NeverPastTheHook` counts
the hook's wait from there, as nothing better is known. Settling any item
prunes, so `Keeps` (the retention, the cap, the horizon) is part of every action
that settles. The desk poll reads the desk across an await: `PollStarts` and
`PollResumes` are two steps, and everything else may come between. Hook events
go through a spool in order and may be lost or late (`Observe`, `EventLost`).
`handed` is a history: when a request was given to the Mac, until the session
decided it. `told` is what clients were answered in a 200 by this process.

Two of its properties are about absence. `MissingMeansMovedPast` is the promise
of the questions route: a request handed to the Mac after the horizon, and no
longer listed as waiting there, was decided. `BackAtTheDesk` is a bounded form of
"nobody waits for ever at a desk that cannot be read": the second failed read in
a row hands every approval back. (`missed` counts, per item, failed reads that
left it held; the code keeps one streak for all of them.)

Left to chance: the switches, a drain, the tools and payloads the gates look at,
what the clients' polls say at any moment. Left out: requests that are the same
call, events of subagents' turns, the signals the broker writes to the session's
row, the cards and their redaction. The times are not to scale (a hook waits
two or three units), only their order is; a read of the desk is shorter than the
poll's period, as in the code's defaults.

### The media store and the video upload

In `MediaStore`, `rec` is the index in memory, `disk` the index file, `dir` an
asset's directory and `file` whether its publication intent is there. `pub` is how
far a publication has come: the move into `assets/` (`Move`), the intent
(`Intend`), the record and its save (`Publish`); each may be the last step of the
process. A save may fail before or after the rename. The calls of the code are
serialized by its lock and are one action each, with `Save` in it. `Boot` reads
the index, its backup, parts of it, or nothing (`Readings`), and then reconciles
records with directories in one step. `lost` is a history: some boot read less
than was saved, which is when the promises end. `told` is which media messages
were told are theirs, and `holds` the reservations confirmed to queue items, each
with whether the index had it then: a `reserve()` repeated after a failed save
finds nothing to change, saves nothing and is confirmed all the same. A hold ends
with its item's `release()`, with a delete of unassociated media by whoever asks,
or with its time (the collector); and a boot may end one that the index never had.
Nothing else ends one, and an association does not: other items' reservations and
releases, a canceled upload's delete, failed saves and boots leave the media to
its queue item or to the message that took it.

`VideoUpload` has the manifest in memory and on disk, the chunk files, and where
`finalizeOnce()` is: the lock is let go while the media store takes the video in,
step by step, through `Media == INSTANCE MediaStore`. `Others` are all other users
of the media store, and a boot of the one is a boot of the other. Three of its
four properties relate both: what a client was told to be published stays so, a
canceled upload is not published after all, and whatever was made for an upload
has the id its manifest names.

Left out: several targets of one association, content with a time to live of its
own (traffic frames, generated visuals), compression and the lens variants, a
directory that cannot be removed, phone frames, several uploads and their quotas
(quota and disk refusals change nothing). A failed save in the upload's boot means
that there is no registry until the next try, so `Boot` is one that succeeded.

## 4. The runs

Deadlock is not checked in any run: the bounds (boots, ticks, calls) stop the
system in the end.

| run | shows | instance |
|---|---|---|
| `store` | memory and journal agree; nobody is shown what is not durable; generations are serial; nobody sees a job move back; a durable answer is kept; a session whose owner died with the server is fenced; a boot hands back only what never started; the store implements its promise | a prompt and its Retry, which may come in either order or twice; 2 jobs, 1 call besides the writer's, 2 boots |
| `runs` | one run per session over crash and boot, but for the ends that leave it unfenced; no admitted job is forgotten; a prompt is sent only while its job is running and owned; prompts start in order | two prompts of one conversation, 2 boots, steerable |
| `runs_end` | under fairness every admitted prompt ends, unless the journal broke, even if no child does | the same, not steerable |
| `maintenance` | a committed operation closes every boot until it is ended by who may; the proof of idleness stays true; start-up waits for the open gate and is not forgotten; a same-boot hold ends | an update and a hold, two builds, 3 boots, 2 leases, 2 pieces of work |
| `boot_resume` | a crash loop stops; only crashes park; a parked item stays parked | a meeting and a prompt, limit 1, 4 boots, 2 half hours, 2 phases |
| `turn_queue` | the words of a key go in at most once; a settled row keeps its outcome | two keys (one may be sent again as the other), sent by the queue and by the phone, 2 attempts, a crash |
| `turn_queue_settles` | a stranded row goes back to wait only if unsent; every parked turn settles | one key, of this build or left in delivery by an older one, 3 processes |
| `turn_queue_not_sent` | a finding | one process, no direct sends |
| `broker` | clients are told what the hook got; nothing is held past its hook's wait; absence means decided; two failed reads of the desk give it back | two mixes of two requests: an approval of an older hook with one of a present hook, and two questions, one held and one not; one client, one choice besides leaving it for the Mac and a cancel; the server restarts under the questions only |
| `media` | what is offered is there; a message keeps its media, and a confirmed reservation stands, also one confirmed by a retry | a photo and a video, 2 queue items, 1 failed save, 2 boots |
| `media_saved` | a finding | the same |
| `video` | a draft is whole; no stray media; published is kept; canceled stays canceled | 2 chunks, 2 ids that may be drawn, 1 queue item, 2 failed writes, 2 boots |

Why these bounds are enough to be interesting: two jobs are the fewest that can
meet in a session or a lineage; one waiting call besides the one being written
is a decision made on a snapshot that another write outdates; the second boot
classifies what the first left, and a third (maintenance, queue) meets what the
second did with it. A boot-resume limit of 1 with 4 boots lets a loop pass the
limit, be parked, and be given its second chance in a later half hour; the
proofs take the limit as a parameter. Two attempts are one retry and the
ceiling. In `turn_queue` the two keys are interchangeable and the symmetry of
the instance is used; the run has no liveness property. In `broker` a time of two
units takes a request past its base hold and its hook's wait, and one restart and
one event in the spool are enough to meet an item of before; the run bounds where
a restart may come (constraint `Restarts`) only to keep its size, and the theorems
have no such bound. Two assets are one that a boot forgets beside one that it
keeps, two queue items are one that has a reservation and one that wants it;
the second failed write of `video` is one in each store. Media items and ids are
interchangeable where the instance says so.

Fairness. `runs_end`: the event loop runs what is queued (weak fairness of the
writer and of each step of a run) and fires deadlines; no child need ever end;
fences lapse by the clock; the updater lifts its drain; a dead server is started again. The
start of a job is strongly fair, because a drain or a fence may come and go
while the code polls. `maintenance`: microtasks are delivered, time passes, and
status polls reach the lazy expiry. `turn_queue_settles`: the sweep judges every
row again and again (strong fairness of the reconcile and of a retirement that
holds whatever the gate answers), loopback calls have a deadline, time passes;
nothing is asked of the phone, the session, the child, the person or the gate.
The other runs assume none.

## 5. Findings

Each is a statement the repository makes, violated in a run; `PROJECT.json`
("findings") has the quotes.

* `turn_queue_not_sent`: a delivery that timed out, or was not verified, puts the
  row back to wait with no mark of it, and a cancel, the time to live or the
  ceiling then reports it as not sent.
* `media_saved`: `associate()` changes the record before it saves the index. When
  the save fails, a second attempt finds nothing to change, saves nothing and
  answers ok, although its caller repeats it to repair exactly that; the media is
  the message's until the next boot, and the collector's after it.

Seen while modelling, and not made into runs.

The prompt's life: a canceled or timed-out row is durable before the child is told
to stop, and only interrupted jobs are fenced, so that a crash between the two
lets the next boot start another run of the session (query-job-store.ts:1603-1605,
query-job-coordinator.ts:856); once a steered run's whole answer is durable, an
error or a shutdown completes it with the earlier checkpoint
(query-job-store.ts:1505); `interrupt()` takes its fence from a snapshot that an
ownership row already queued outdates, so that a shutdown can leave an owned job
interrupted without a fence (1606); `finishActive` passes the run lock on when the
terminal row is durable, while the stopped child may still be closing
(query-job-coordinator.ts:1060, against model-router.ts:40-43); a job with a
checkpoint is completed at boot without a fence though its child may live
(696-699; the tests pin this); a fence is over 21 minutes after the interrupt,
though no server enforces a deadline on the child it stands for (79, 1606-1609);
a bridge that never spawns has no deadline.

The gate and the queue: a drain refused because its gate could not be written may
have left the file in place, and the next boot is closed by a lease nobody has
(maintenance-lifecycle.ts:600-606, 303-306); a turn that a fence kept for more than
six hours expires the moment the fence is released, or the thread reads busy
(thread-turn-queue.ts:340, 274-276); after the 202 a row counts as delivered
although its child may never open the session (against
thread-turn-queue-deliver.ts:22-25); a row's text can be edited after a hand-off
that timed out; nothing kicks the drain when a fence is released (the next sweep
comes within 20 seconds).

The broker: an approval retracted because another call of its tool was denied
shows its dialog at the Mac, and is not reported as waiting there
(permission-broker.ts:1592-1594, 1319-1324, against 108-113; a retraction is
therefore no hand-over in the model); a desk read in flight while the last held
item settles leaves a streak of one failed read to the next item (1635-1641).

Media: a chunk file whose manifest was not written makes every later attempt at
that chunk fail, since it must not exist (video-upload-v2.ts:556, against lines
3-5 of it); `associate` may throw midway with earlier ids already changed in
memory; `reserve` repeated after a failed save is confirmed with nothing saved, as
`associate` is, and the next boot takes the reservation back (1143-1157); after a boot that cannot read the index the next save overwrites it, and
the boot after that takes the directories of what it lost for orphans
(media-store.ts:385-402); when the intent cannot be written after the rename,
retries fail until a boot; a receipt is kept for 24 hours and unreserved media for
four; a failed save while finalize claims the draft leaves it `finalizing` in
memory until the client tries again (against 57-59); two failed saves and a
repeated finalize can tell a client of a publication that a crash then undoes,
which is why `PublishedIsKept` allows one.

## 6. Proofs

TLAPS checks these for all values of the constants, from the named assumptions
in the modules: bounds are naturals (positive where a limit of zero makes no
sense), `NoRequest` is no request and `NoKey` no key, `NoClient` no client,
`NoAsset` no asset, `NoOwner` no queue item, the names of replies are no choices, generations are naturals,
an operation has a scope and at least one successor. `TimeAssumption` of the
broker is what the code's defaults satisfy: timers are late by less than the
margin, and the margin is less than the shortest wait of a hook.

* `QueryJobStore_proofs`. The inductive invariant `IInv` adds to the checked
  invariants that what is queued makes sense of the journal (`SoundQueue`,
  `SoundWriting`), that a row not yet on the disk is still acceptable to it
  (`Checked`: the writer is serial, so what it checked cannot change before the
  flush), that nothing is queued while the store is down (`Quiet`), and that jobs
  without a row are blank and numbered in order (`Unborn`, `Numbered`). From it
  come the invariants, `SeenNeverGoesBack`, `AnswerIsKept`,
  `RequeuedNeverStarted`, and the refinement `ImplementsPromise`: each step is a
  step of `QueryJobPromise` or a stutter.
* `MaintenanceLifecycle_proofs`. `Agree` says what the process knows of the file:
  the same operation, adopted in memory only if it is on the disk, or none that
  anybody was told is committed. `ClosedWhileCommitted`, `EndsAsAuthorized` and
  `ProofHolds` follow.
* `BootResume_proofs`. `Backed` ties every count, in the file and in memory, to
  crashes that happened, with one more for an exit not yet counted; `Looping` ties
  the lives of a loop to the count. `LoopStops`, `OnlyCrashesPark` and
  `ParkedStays` follow.
* `ThreadTurnQueue_proofs`. `Open` says an attempt of this process is open exactly
  while a route past its pin holds its key; `Proven`, that words that left are on
  the attempt journal and that a route that may still send them has not.
  `WordsSentOnce` and `RequeuedWasUnsent` follow, with `InHand` (the row being
  delivered is this process's, so no reconcile touches it) `SettledStays`.

* `PermissionBroker_proofs`. The inductive invariant has six parts. `HookInv`: what
  clients were told is what the hook got, and a hook that was answered has been
  left. `TimeInv`: a deadline leaves the margin to the hook's wait. `DeskInv`: an
  item's missed reads are behind the one streak. `MacInv`: a request handed to the
  Mac that was not decided is listed as waiting there, or its time is at or before
  the horizon. `EventInv`: an event is about the requests it says, and those were
  decided. With `TypeOK` these give the four properties. The lemmas about `Keeps`
  (a prune forgets only settled items, and moves the horizon past what it forgets)
  carry most of the steps.
* `MediaStore_proofs`. To the four invariants it adds `HeldOnDisk`: while nothing was
  lost, a reservation that the index had when it was confirmed is in the index file
  still, as its own or as a message's, without which a boot could undo it; and `DiskTyped`, that a reservation in that file names a queue item.
* `QueryJobStore_proofs` also proves `CrashedOwnerKeepsSession`, from an invariant of
  its own (`FInv`): nothing that makes a job an owner passes the boot's rows, whose
  interrupts fence every owner; the journal and memory say of each owner that it is
  one; and the start that is being written saw no fence, which no row that commits
  before it can raise, since the writer is serial.
* `QueryJobCoordinator_proofs`. `IInv` has a part per mechanism. `Sane` and `Pledged`
  tie each row that waits for the writer to the part of a run that waits for it: a
  start to a job that is marking, a callback to a tail that is not empty, an end to
  a run that is on or over; without them an answer could find the run in any stage.
  `Line` is the lock's discipline: a line is in the order of admission, its members
  have not returned from `execute()`, who has not returned is in line, and whoever
  is marking or further is at its head. `Quiet`, `Numbered`, `StageFits` and
  `Stopping` are what its steps need besides. `TypeOK`, `StartsInOrder` and
  `PromptOnlyWhileOwned` follow from it. `NoJobForgotten` needs two more:
  `Checkpointed` (no checkpoint before a start, or a boot would complete a job that
  never ran) and `Kept` (every unfinished job is attended to). `OneRunPerSession` is
  inductive only with `CInv`: a child that works belongs to a run of this process or
  to an owned job (`Owning`); if that job is over, and not in one of the ways of
  `LeftUnfenced`, it is fenced, and no other job of its session is past the fence
  (`Fencing`, `Outliving`). That an answered run is none of these needs
  `Unanswered`: whose child still works has no whole answer, in the journal, in a
  callback or in a row that waits for the writer, so that a completed job whose
  child works was completed from a checkpoint.
  `JournalKeepsPromise` ties the coordinator to the store's abstract specification:
  each of its steps does to each job nothing, or what `Accept`, `Note` or `Move` of
  `QueryJobPromise` does (a boot does so to many jobs at once, so that the step as a
  whole is several of the promise's). It rests on `Truthful`: an ending that waits
  for the writer was decided on an earlier journal, and what it says of the job
  still holds when it is written, since a checkpoint is never taken back. This
  theorem is not the property of a run.
* `VideoUpload_proofs` rests on the media store's proofs by INSTANCE: its invariant
  holds under the upload's steps as well, so that what `MediaStore_proofs` shows of
  media is also shown of media that an upload publishes (`StoreStandsUnderUploads`).
  To that it adds four facts. `Apace` and `Named`: the two manifests begin and end
  together, and differ in the media they name only before a claim is saved.
  `OnlyOurs`: the store has traces of no id but the one on disk, in its records, its
  index or its directories, from which `NoStrayMedia` follows. `Lasting`: while the
  index is read whole and no tombstone grows old, memory knows what the index does,
  and the index what memory does until a write fails. `Pledge`: a video published
  in memory is published on disk, or the disk has an attempt to finalize and the
  index the media the next boot finds for it. A receipt whose save fails falls under
  the latter because no other write failed before it: this is the `fails <= 1` of
  `PublishedIsKept`, and where it is used.

Every safety property of every passing run is proved for all values of the
constants. Only model-checked are the liveness properties (`AdmittedEnds`,
`RuntimeStarts`, `SameBootEnds`, `EveryTurnSettles`), which are beyond this prover,
and the two findings, which are counterexamples.

## 7. Not modelled

The models cover the parts above, a few per cent of the repository's lines. The
larger part of the rest is of kinds that gain little here: parsing of provider
transcripts, numeric matching of voices and audio, text around model calls,
search and ranking, installers and probes, HTTP validation and formatting, scripts
that test the repository, vendored programs. What remains has protocols of its own and is
in the plan: session halt, the hook spool, replay of a job's rows, the other
bridges, meetings' stop intents and finalization jobs, schedulers, tasks, key
lanes, spoken answers, pairing. `PROJECT.json` ("components") gives the reason for
each.
