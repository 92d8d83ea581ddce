# golf-coach: a verification project

TLA+ modules of golf-coach, the TLC runs that check them, and proofs for the TLA+ proof
system. Paths below are relative to the repository; the Python package is
`src/golf_coach/`, the Rust workspace is `crates/`.

Contents: [inventory](#inventory), [modules](#modules-and-the-code), [runs](#runs),
[bounds](#bounds-and-why-they-are-enough), [fairness](#fairness), [proofs](#proofs),
[disagreements](#where-the-code-and-the-text-part), [left out](#what-is-not-modelled),
[plan](#plan).

## Inventory

The program has a server that receives video clips and launch-monitor photos from phones
and analyses them, a live-session path in Rust (microphone trigger, clip cutting, a pool of
pose processes), readers that put a golfer's swings together, a conversation with a
language model about a swing, and a large body of measurement code that all of them call.

### 1. Swing bundle store — `storage/bundle_store.py`, `storage/manifest.py`

- State: a directory per session (a day) and per swing, holding one file per role
  (face-on, down-the-line, shot screen) and `manifest.json`, which names them by digest and
  carries the golfer, the club and a mishit verdict.
- Operations: `assign_from_path` (pair, deduplicate or open a swing), `_place`,
  `attribute_unlabeled`, `set_player`, `set_club`, `set_mishit`, `delete_swing`.
- Called by the upload routes and read by the worker and the pipeline. A lock covers each
  operation.
- Hard: which swing a late, repeated or racing upload belongs to; a crash between the
  unlink, the move and the manifest write; ids that are used again after a delete.
- Correct when: one shot's file is in one swing, a file filed stays until a person moves
  it, and a named file is on disk.

### 2. Upload and cursors — `api/app.py`, `storage/session_meta.py`

- State: `session.json` of the day (golfer and club cursors), the uploads in flight.
- Operations: the upload route, the two cursor routes, the tag routes, delete.
- Hard: the upload reads the session and the cursors, awaits the body, and files it after;
  cursors and the date may have moved. Aborts, retries.
- Correct when: stamps are written once, and no swing is filed without a club.

### 3. Analysis worker, pipeline, sidecar — `api/worker.py`, `api/pipeline.py`, `api/state.py`

- State: `analysis.state.json` and `analysis.json` per swing, keypoints caches, the asyncio
  queue, the consumer task, the run in a thread.
- Operations: `submit`, `_consume`, `_run`, `_resubmit_if_changed`, `_recover`, `start`,
  `stop`, `analyze_swing_dir`, `record_state`.
- Interaction: routes call `submit`; the pipeline thread reads manifests and clips and
  writes the sidecar beside the event loop; `delete` looks at the sidecar.
- Hard: files that land, are replaced or are deleted during a run; two writers of a
  sidecar over one temporary name, either of which may fail; a crash anywhere; a stop with
  work queued; recovery.
- Correct when: what says queued or running has somebody to end it (as long as the
  saves that say so do not fail), what says done is current, the sidecar agrees with the result beside it, and no directory is deleted under
  a run.

### 4. Pose pool — `crates/pose/src/pool.rs`

- State: the waiting queue, the closed flag and the children's handles under one lock; per
  driver thread a child process and a job; the result channel.
- Operations: `submit`, `pop`, `attempt`, `publish`, `retire`, `shutdown`.
- Hard: shutdown against a driver that is starting a child; lost wakeups; a retry that must
  not read a late answer; children that hang.
- Correct when: each accepted job is reported or handed back exactly once, a failed worker
  is never used again, and no child outlives the pool.

### 5. Pose worker and its protocol — `crates/pose/src/worker.rs`, `protocol.rs`, `pose/worker.py`

- State: the interpreters not tried yet, the child process, its two pipes, the job in flight.
- Operations: `Worker::spawn` (find an interpreter, shake hands), `Worker::run` (write a
  job, wait for `accepted` and then for `done` or `failed`, a deadline each), `Handle::reap`;
  in the child `_startup`, `_resolve_job`, `_run_job`, `main`.
- Interaction: the pool's drivers call it, and the pool's shutdown holds the same handle.
- Hard: late replies, lines that are not replies, a child that dies or hangs at any step,
  a clip that is deleted while it is posed.
- Correct when: what `run` returns is what the child said of that job, nobody is left
  posing for nobody, and every call returns.

### 6. Live trigger, clip cutter, ring — `crates/trigger/src/stream.rs`, `clip.rs`, `ring.rs`

- State: the detector's hold, silence and deafness; the open clip and the guard; the ring.
- Operations: `OnlineDetector::push`, `Cutter::push`, `Cutter::finish`, `Ring::extend`,
  `Ring::copy`.
- Hard: a strike is named some time after it was heard; merging under a ceiling; reaching
  back; a bounded ring. All of it depends on block boundaries.
- Correct when: one shot is one trigger, clips are measurable and do not share a swing, and
  footage is still in the ring when it is asked for.

### 7. Swing timing — `analysis/phases.py`, `analysis/alignment.py`, `api/pipeline.py`, `analysis/engine.py`

- State: none that lasts; an analysis goes from two clips through candidates, a choice in
  each view, segments, anchors, an alignment and a frame schedule.
- Operations: `_rising_runs`, `candidate_downswings`, `select_swing`,
  `select_matching_swing`, `_auto_windows`, `segment_phases`, `anchors_from_phases`,
  `with_measured_impact`, `align_swings`, `pair_frames`.
- Hard: four readers of one clip that must mean the same descent; each view is chosen
  against the other; anchors are moved after they were validated; one rate per clip, each
  rounded to frames.
- Correct when: the readers agree, no swing is lost to the order of the choices, the warp
  never divides by zero or runs backwards, and nothing depends on which clip is named first.

### 8. Career — `storage/corpus.py`, `contracts/career.py`, `analysis/baseline.py`, `stats.py`, `dispersion.py`, `comparison.py`, `club_profile.py`, `storage/flight_inputs.py`, `storage/bag_store.py`

- State: the artifacts on disk, read afresh by each reader, and the bag of each golfer.
- Operations: `read_corpus`, `count_metrics`, `pooled_samples`, `build_baseline`, `refuse`,
  `dispersion_for`, `comparison_for`, `build_bag_profile`, `read_flight_inputs`; `set_entry`,
  `remove_entry`, `restore_entry`.
- Hard: the same clip or photo filed twice, results that are stale, mishits flagged against
  the others, floors per claim; clubs that are replaced, removed and put back.
- Correct when: each artifact counts once for every reader, a withheld number says why, and
  no swing is told as another club's.

### 9. Asking about a swing — `api/app.py`, `feedback/conversation.py`, `storage/transcript_store.py`, `scripts/ask_swing.py`

- State: a transcript per conversation and its temporary file; the asks in flight.
- Operations: seed or resume, the model's rounds, `save_transcript`.
- Hard: threads and another process on one transcript without a lock; failures inside a
  turn; a restart with another model.
- Correct when: a stored transcript is whole turns of one model, and an answer given stays.

### 10. Everything else

Shot store and screen import (`launch_monitor/screen/`), golfer store and club catalogue,
the Rust command-line verbs that write beside the server (`crates/core/src/session.rs`,
`rerecord.rs`), the Rust ports of storage and analysis, batch scripts, capture (device
listing only), measuring and scoring, ball flight, feedback rules, the coach and the MCP
tools, screen reading, contracts, formatting, the conformance vectors. See
[left out](#what-is-not-modelled).

## Modules and the code

| module | stands for | extends |
|---|---|---|
| `BundleStore` | the store's operations, one definition each | |
| `Ingest` | upload, cursor and tag routes; `IngestSpec` is the server with analysis disabled | `BundleStore` |
| `Ingest_proofs` | theorems, and the lemmas about the store the server's use too | `Ingest` |
| `AnalysisWorker` | worker, pipeline and sidecar, open to the store's writes | `BundleStore` |
| `UploadServer` | the process: routes, worker, thread, start, stop, crash | `Ingest`, `AnalysisWorker` |
| `UploadServer_proofs` | theorems: types, the ledger of sidecars and jobs, and what a finished analysis is worth | `UploadServer`, `Ingest_proofs` |
| `PoseService` | what a pool promises its owner, without threads or children | |
| `PosePool` | the pool, its drivers and their children; implements `PoseService` | |
| `PosePool_proofs` | theorems, the refinement among them | `PosePool` |
| `PoseWorker` | one driver, one child and the pipes between them | |
| `PoseWorker_proofs` | theorems | `PoseWorker` |
| `LiveTrigger` | detector, cutter and ring on one thread | |
| `LiveTrigger_proofs` | theorems | `LiveTrigger` |
| `SwingPhases` | a clip's descents, its segments, the choice of the swing: operators | |
| `SwingAlignment` | anchors, the alignment, the warp and the schedule: operators | `SwingPhases` |
| `SwingTiming` | the analysis that uses both, from filming to rendering | `SwingAlignment` |
| `SwingTiming_proofs` | theorems | `SwingTiming` |
| `Career` | the library under every edit, and `read_corpus` as an operator | |
| `Bag` | one golfer's bag and its shelf | |
| `Readings` | what is said about a career; composes the library and the bag | `Career`, `INSTANCE Bag` |
| `Readings_proofs` | theorems about all three | `Readings` |
| `Conversation` | the askers, the transcripts and their temporary files | |
| `Conversation_proofs` | theorems | `Conversation` |
| `MC...` | constants and symmetry for TLC | |

A definition marked `MUTANT` is what the definition below it would be with a plausible bug;
no specification uses one. Each property has one that must break it. Every module with a state
has a type invariant (`TypeOK` or the like) as the description of it, and it is proved; what
the state of `SwingTiming` holds is said by `Picks` and `Ordered` in its proofs.

**Ingest and server.** A manifest is a record, or `None` where there is none (or none that
parses). A file is a pair of role and digest; the store never looks inside. A route has no
`await` between its first and last write, so it is one action, except the upload:
`UploadStart` reads the cursors and the date, `UploadFinish` files the body, and everything
else may run in between. `UploadLands` is `UploadFinish` with the `submit` the route makes
when the bundle is complete. `clock` counts manifest writes and is what `updated_at` is
stamped with: two writes never share a stamp, as two wall-clock instants to the microsecond do
not. `consumer` distinguishes *parked* (waits on the queue), *awaiting* (its run is in the
thread) and *looping* (between two awaits: no route runs, `LoopIsFree`). The pipeline is a
step for each thing it shares: the manifest is loaded once, each view is read (from its
cache, the disk, or not at all), `analysis.json` is written, the sidecar is written; it may
raise at any of them. `gone` is the set of roles whose named file could not be found, which
is what the score depends on. `Dies` loses queue, thread and uploads and keeps files;
`ServerDiesLanding` dies inside a placement.

A save of the sidecar (`save_state`) is a write to one temporary name and a rename, and both
the event loop and the thread make them. Any of the loop's may raise (`SaveRaises`): in
`submit`, which then puts no job; in `_run`, before the run (`TakeRaises`) and after it
failed (`ResumeRaised`), where the net under the consumer drops the job and leaves the sidecar
as it is; and in `_recover`, where the start fails with it (`StartRaises`). `lost` is the set
of swings for which the last such save raised; it is a history, that no action reads. The
loop does nothing else while it saves, so only the thread's own save, in `record_state`, can
be in the middle of another of the same swing. There the two are taken apart by which rename
comes first. In `ThreadRenamesFirst` the thread publishes what the file holds by then (its
own text, the loop's, or a torn or empty one, which reads as `None`) and the loop's rename
finds nothing. In `LoopRenamesFirst` it is the thread's that will find nothing, and before it
fails, the thread may still write into the file the loop has published (`lay`, `PipelineLay`,
then `beaten`). A failing save of the thread's is `PipelineRaise`.

**Pool.** What happens under the pool's lock is one action; the driver's position says
between which two it is. The owner of a pool submits and shuts down from one thread
(`Pool` is not `Sync`, `shutdown` takes `&mut self`), so no submit runs beside a shutdown. A
deadline is a disjunct of `Run`: any wait for a reply may end with a timeout. A wait may
also wake for no reason (`Spurious`). `spent` is a history bit of a child that records a
failed job. The refinement of `PoseService` maps the channel to what was reported, the list
`shutdown` returns to what was handed back, and every other accepted job, wherever it is, to
what is held; the room of the service is the queue and one job for each driver.

**Worker.** The driver's steps are `Worker::spawn` and `Worker::run` cut at each wait for a
line; the child's are those of `pose/worker.py` cut at each line it writes and at each time
it touches the clip (opened for the check, posed, read again for the digest). `out` is the
stdout pipe, the reader thread and the channel in one queue, since each keeps the order. The
interpreters on a machine are any list of seven kinds. A reply says which job it is about;
`said` remembers for each job what the child wrote of it, so `OutcomeIsItsOwn` can compare.
`PosePool` uses the worker as three steps, spawn, write and reply, and assumes of it what
`PoseWorker` shows: a call ends, an error leaves no child, and an answer is about its job.

**Trigger.** Time is in hops of the analysis. The verdict of a hop (`Over`, `Under`,
`NoFloor`) is free, as whatever a microphone and the rolling floor can give, subject to the
history that `judge` asks for. A block is any number of hops up to `MaxBlock`. The caller is
the one of `clip.rs`'s tests: extend the ring, push the detector, push the cutter, extract.

**Swing timing.** `SwingPhases` and `SwingAlignment` are the pure functions. A clip is the
sequence of the tracked wrist's smoothed positions, each seen or lost; y grows downwards.
Floating point is replaced by exact fractions: a duration is a count of frames and a rate, a
tau is a pair of integers, a comparison is multiplied out, and `Round` is Python's, to the
even one on a half. A clip's descents are a set: the code's list has them in the order of
their first frames, in which the scan ends them, so its first and last are `Earliest` and
`Latest`. `SwingTiming` is the order in which an analysis calls them. The
face-on clip is filmed frame by frame, and in every state of `Film` the descents, segments
and instants of that clip are looked at (`OneReading`). The descents of the other clip are
any that `OneReading` shows a clip to have (`Fields`); likewise the instants that are
anchored and aligned are any in order in a clip of `Longest + 1` frames, with any strikes
heard. A step forgets what no later step reads, which keeps the runs small and hides nothing: each stage
starts from every input it could be given.

**Career.** `Career` is the library with the edits the store and the pipeline make to it,
one step each; `UploadServer` is where those edits are taken apart. `Corpus` is
`read_corpus`: what is unattributed, another golfer's, without a face-on clip, a duplicate,
not analysed, stale, outdated, and what counts; the mishits; and every measurement as a
fact about an artifact, the clip or the photo it was read off. Five metrics stand for the
classes the code treats apart. `Readings` pools, refuses and judges over it; statistics are
exact, with squares compared in place of roots. `Bag` is a slot to a club, and a shelf of
stints.

**Conversation.** `save_transcript` is three steps, because an open file follows its inode:
the temporary name is emptied, written, and renamed, and another writer of the same name may
be anywhere between. The model's answer is a number of tool rounds, or a failure.

## Runs

| run | instance | properties |
|---|---|---|
| `ingest_files` | two phones, two contents, two roles, two ids, repairs to id 1 | `NoTwinSwings`, `BundledFilesStay`, `NamedFilesStayOnDisk`: pairing, dedupe and placement under retries, races, aborts, deletes and crashes |
| `ingest_cursors` | two phones, two golfers, two clubs, two days | `StampsAreWriteOnce`, `EverySwingHasAClub`: what is read before an await and used after it |
| `server` | one swing of two roles, two contents, repairs, forced runs, saves that raise or cross, one crash | `PendingIsOwned`, `DoneIsCurrent`, `NothingGone`, `SidecarTellsTheAnalysis`, `NoDeleteUnderARun` |
| `server_days` | two days, a swing of one role each, two contents, a repair, a forced run, saves that raise or cross, one crash | `PendingEnds`, `StopEnds` under fairness, when a swing waits behind yesterday's or behind its own former run, and recovery sees only today's |
| `pose_pool` | two drivers, two jobs, a queue of one, two attempts | `EachJobOnce`, `NoSpentWorker`, `ShutdownKillsFirst`; `KeepsItsPromise`, the refinement; `CallsEnd` under fairness |
| `pose_protocol` | any two interpreters of seven kinds, two jobs, four kinds of clip | `OutcomeIsItsOwn`, `NoOrphanWork`; `EveryCallReturns` under fairness of the driver alone |
| `live_trigger` | 28 hops, two loudnesses, blocks of up to two hops | `StrikesApart`, `NeverReachesBack`, `FootageIsThere`, `ApartIsMeasurable`, `SharedOnlyAtTheSeam` |
| `swing_timing` | every filmed clip of up to five frames over four positions; two descents in the other; anchors in clips of seven frames; rates of 10, 20 or none | `OneReading`, `NothingIsLost`, `WarpInOrder`, `EitherOrder`, `TopsMeet`, `HonestSpeed` |
| `career` | three directories in two sessions, two clips, three photos, one club of two makes, edits of every kind | `CountsAreSamples`, `EveryRefusalHasItsReason`, `TwoReadersAgree`, `NoCaveatOneClub`, `ReuploadsCountOnce`, `NothingIsForgotten` |
| `conversation` | two threads and a script, two conversations, two models, three questions | `NoHalfTurn`, `OneModel`, `AnswersAreKept` |
| `third_file`, `stale_counted` | | the two [disagreements](#where-the-code-and-the-text-part) with a run of their own |

What the less obvious properties say:

- `PendingIsOwned`: a swing of today's that says queued or running is in the queue or is the
  worker's run, unless the loop's last save of its sidecar raised. A swing that is pending
  without a job is refused by `submit` and by `delete` alike, until a restart or a run asked
  for by hand. That this is so of a swing in `lost` is a weakness of the code, described
  [below](#where-the-code-and-the-text-part); the property says that there is no other way.
  Crossing saves where the thread's is the one that fails, failing runs, restarts and every
  order of the rest are within it, and so is the start after a save that raised.
- `DoneIsCurrent`: a complete bundle nobody is working on has failed, or its result was
  computed from the files its manifest names now; again but for `lost`.
- `SidecarTellsTheAnalysis` makes no exception: whichever saves raise or cross, a sidecar
  that says done is that of the analysis beside it.
- `NothingGone`: a result that counts as current was computed from all of them. A clip that
  is replaced while a run reads, and put back, leaves inputs that match; the comparison of
  `updated_at` is what catches it. Stated for behaviours without a crash: a crash inside a
  repair's placement loses a named file, the upload of the same content is then
  deduplicated, and the result computed without it stays current.
- `NoTwinSwings`, `BundledFilesStay`: exceptions are named in the property, and each is an
  explicit request of a person.
- `ShutdownKillsFirst`: when shutdown joins, no driver is left in a job with a child that
  lives. This is the race that `Shared` has one lock for.
- `CallsEnd`: an accepted job is reported or handed back, and a shutdown ends. A lost
  wakeup, a missing deadline or a child that is not on the list would each show here.
- `KeepsItsPromise`: what the owner sees is `PoseService`, where a job is held, then reported
  once or handed back once, and nothing is handed back after the shutdown has said what is.
- `NoOrphanWork`: the child poses only for a driver that waits for that very job; and a
  search for an interpreter leaves none of those it turned down.
- `ApartIsMeasurable`: strikes `MinLead + MinTrail` apart each have the lead they need, and
  the trail unless the clip is at its ceiling, however many strikes were merged before.
- `SharedOnlyAtTheSeam`: how far the code falls short of "no strike is ever cut into two
  clips": only strikes heard in the last `Hold` hops of a clip.
- `OneReading`: the listing, the choice, the segments and the anchors of a clip mean the same
  descent; the top read off the middle of the clipped transition is off by no more than half
  of what was clipped.
- `NothingIsLost`: each view that could be picked alone is picked, with whatever reference
  the other view gives and with the second look at the face-on view.
- `WarpInOrder`: motion start, top, impact and the last frame are in order after every move
  of an anchor, so no rate is zero or negative, though `model_copy` runs no validator.
- `TopsMeet`: tops that were moved are as far back from impact in both clips to less than a
  frame, and with both strikes heard only the late one was moved, by what is reported.
- `HonestSpeed`: between two frames of the video neither of which is held at an end of its
  clip, no panel plays more than a tenth too fast or slow, to a frame of rounding.
- `CountsAreSamples`: `count_metrics` and `pooled_samples` walk the swings separately; the
  count shown is the number of samples used, for the career and each narrowing of it.
- `TwoReadersAgree`: the swing whose sample stands for a photo in a baseline is the one the
  flight model takes loft and hand from, provided every swing with that photo counts.
- `NoCaveatOneClub`: a club's numbers that come with no word about the bag were all hit
  with the club that is in it now.
- `AnswersAreKept`: for conversations no two askers held at once. `crossed` is the history
  of those that were; for them only `NoHalfTurn` and `OneModel` remain.

## Bounds, and why they are enough

- `MaxWrites` (manifest writes): 3 or 4, and 2 in `server_days`. Three writes make a bundle
  of two roles and replace one of its files; the fourth puts it back, which `NothingGone`
  needs. With one role a write makes a complete bundle, so two are two swings, one of each
  day, or a swing and its replacement while it runs.
- `MaxId`, `MaxDay`: 1 or 2; `server_days` has an id a day, so the swing ahead in the queue
  is yesterday's. Swings interact by the queue and by dedupe, which are pairwise;
  the worker treats a past day as past, however long.
- `Roles`: two of the three. The code treats the roles alike except the face-on view, without
  which nothing is scored, and the photo, which is cached in another store; both are there.
- `MaxQueue` bounds only the forced runs asked for by hand, `MaxCrashes` the deaths; a second
  crash begins from files a first one could have left.
- Pool: two drivers make every race between two threads; with a queue of one and two jobs a
  job waits while the other is driven, is refused at the bound, or is handed back.
- Worker: two interpreters are one that is passed over and one after it; two jobs are one
  whose late reply the other could meet. The alphabet of lines is complete.
- Trigger: hold, refractory, rolls and ceiling are small numbers in the order of the real
  ones (`Hold < Refractory`, `Refractory + Hold < Post`, `Post < MinLead + MinTrail`);
  `MaxClip = 13` against `Pre + Post = 12` makes the ceiling bind on two merged strikes, and
  `Capacity = MaxClip + Lag + MaxBlock` leaves the ring no hop to spare, where the code has a
  second. 28 hops hold three complete clips.
- Swing timing: the lengths of the code (6 frames at least, a transition of 3 on either
  side) are scaled to 4 and 1, so clips of five frames lie on both sides of each. Four
  positions make a high, a low and a middle one, and a sideways move that only the speed
  sees. Rates of 10 and 20 differ by more than every tolerance; shares and tolerances are
  the code's own. Anchors in clips of seven frames reach the ends of the clip on either side
  of each instant.
- Career: two clips and three photos (a short shot, a long one, one that needs review) in
  three directories make every duplicate, and two sessions; beyond the two initial arrivals
  three edits follow one another. Floors are scaled to 2 and 3 samples, 1 and 2 sessions, so
  that each is missed and met. One club suffices as clubs meet nowhere; its two makes are
  what the bag tells apart.
- Conversation: three questions are a first one, one that continues it, and one that races;
  one round of tools shows what an unfinished turn would leave.
- Symmetry is used for safety only.
- Deadlock is checked for the pool and the trigger, whose end is a step of its own. The
  bounds stop the others (nothing may be written after `MaxWrites`, asked after `MaxAsks`,
  filmed after `MaxFilmed`), and a worker has an end, a search that failed, that is no step;
  `PendingEnds`, `StopEnds` and `EveryCallReturns` say what must not get stuck there.

## Fairness

Server: weak fairness of the consumer (the event loop runs what is ready), of the pipeline's
steps (a thread or a subprocess ends or raises), of the end of a stop, and of starting a
server that is down, which need not succeed the first time but does in the end. A save that
raises is nothing anybody owes, and nothing excludes it. Uploads, edits, stops and crashes are owed by nobody. A file system or
a subprocess that blocks for ever is excluded by this, as it is by the code, which awaits the
thread without a deadline.

Pool: weak fairness of each driver and of shutdown. A driver's wait for a reply can always end
with its deadline, so this asks nothing of a child: it need not answer, nor exit. That
`Worker::spawn` ends is its handshake timeout, and `EveryCallReturns` of the next.

Worker: weak fairness of the driver's thread, whose every wait has a deadline. The child owes
nothing, and `Run` is the caller's choice.

The other specifications are safety only: a clip is cut when a block arrives, an analysis
computes, a golfer edits when they like.

## Proofs

Each theorem is for every value of the constants, from the named assumptions of the modules
alone. Where it states a property of a run, the run found nothing on small instances first.

**Store and routes**, from `StoreConstants` and `IngestConstants`, for any number of phones,
days, swings, contents, golfers and clubs. `Ingest_proofs` proves all that the runs of `Ingest`
check:

- `TagsStay` (`StampsAreWriteOnce`), `FilesStay` (`BundledFilesStay`), `OneShotOneSwing`
  (`NoTwinSwings`) and `NamedFilesStay` (`NamedFilesStayOnDisk`) are about steps, and need of
  the state its types only. They rest on two lemmas about `assign_from_path`: an upload that
  names no swing is filed where its role is missing (`SlotLacksRole`; a new swing is new
  because its id is above the greatest of the session, `NextSwingIsNew`), and nowhere while
  somebody in the session holds its content (`NobodyHolds`); and on `StepOfASwing`: whatever
  happens, a swing is left alone, tagged, deleted, or gets the one file that lands.
- `SwingsHaveClubs` (`EverySwingHasAClub`) is not inductive: a swing's club comes with its
  upload, and the day's cursor was read when that began. `Clubbed` adds `ClubIsSet`: the day of
  an upload in flight has its cursor set, since a cursor is moved and never taken away.

**Server.** `UploadServer_proofs` proves `TypeCorrect` from those assumptions,
`WorkerConstants` and `ServerConstants`: every operation has a lemma, a
conjunct per variable, and the theorem is one step for each action. What makes it more than
bookkeeping is that `None` is told apart from every record, that a slot which is not a swing
is never written (`SlotType`, with `Oldest` and `Newest` shown to choose a member), and that
the run, the thread and the consumer go together (`TypedRun`).

It then proves, for any number of days, ids, phones, roles, contents, jobs and
crashes:

- `RunsAreMarked`: a run's swing says running, or the run is about to record its end
  (`RunIsMarked`, a lemma more than a promise, and so in no run);
- `PendingSwingsAreOwned`: `PendingIsOwned`;
- `RunsKeepTheirDirectory`: `NoDeleteUnderARun`, from `RunIsMarked` and from the lemma that
  only `Delete` removes a manifest.

`PendingIsOwned` is not inductive. Its strengthening is `Ledger`:

- a job whose swing has no manifest is dropped, so what is pending must have one
  (`PendingIsBundled`);
- a run that returned gives up its job, so its swing is settled, or queued again
  (`ReturnedIsSettled`);
- recovery is for today, and today moves on, so nothing may be filed ahead of it
  (`NothingAhead`);
- and a run's swing stays marked until its end is recorded (`RunIsMarked`).

The proof has a lemma for each kind of step, and `QueuedAppend` and `QueuedTail` for the
queue. A save that raises puts its swing into `lost` and is a lemma of its own wherever the
code makes one (`TakeRaisesLedger`, `StartRaisesLedger`, and a case of `SubmitAdds` and
`ResumeLedger`). For two that cross, `BesideAdds` says what the two renames leave: either the
loop's raised and the swing is in `lost`, or the job was put. Who is in `lost` leaves it only
by a save of the loop's that is carried out, with which a job comes or the pending ends.

The second part of `UploadServer_proofs` proves what that ledger is kept for:

- `SidecarsTellTheAnalysis` (`SidecarTellsTheAnalysis`). `analysis.json` and the sidecar are
  written in two steps, so `Told` says where the run is between them: before its write it has
  nothing to show, and after it the analysis is what it is about to record. Only the pipeline
  writes an analysis, only what it recorded says done, whoever publishes it
  (`OnlyRunsSayDone`, `BesideDone`), and a delete takes both. A run that was beaten to its
  rename still works in a swing whose sidecar need not be pending, so what is said of a run's
  analysis ends with its record (`WhileWorking`).
- `DoneStaysCurrent` (`DoneIsCurrent`). `Current` is built on stamps. As long as the manifest
  carries the stamp the job noted when it was taken (`Untouched`), its roles are those the run
  reads (`RunIsOfNow`): every write of a manifest stamps it later than any before
  (`StampsPast`, and the lemmas `LandWrites` and `EditWrites` of the store). So a run that
  returned either left its swing current or will see that it did not, and queues it again
  (`ReturnedIsCurrent`). What no run did, a route did, and `LandingLeaves` and `RouteLeaves`
  say that a route leaves a bundle as it was or queues it; that is why a consumer must be
  there while the server is up (`Listening`). A start queues all of today's that are not
  current.
- `CurrentMissedNothing` (`NothingGone`). `AllFound` says that short of a crash what a manifest
  names is on disk (`NamedOnDisk`), so a run whose swing was not written to misses nothing
  (`NothingMissed`); one that missed something was written to, and is about to be redone
  (`GoneIsRedone`), or it is to fail (`Failing`), or the save that would have said so raised. A replaced clip that is put back has the old inputs and a new stamp, which
  is what the proof turns on. That roles are replaced and never taken back (`RolesOnlyGrow`)
  makes the bundle complete when the sidecar's inputs are.

**Pose pool**, from `PoolConstants`, for any number of drivers, jobs and attempts:

- `TypeCorrect`. `TypeOK` is not kept by the steps alone: a driver reports
  the job it holds and shutdown lists the child of a published handle, so each must be there.
  `Held` says what a driver has where it is, which is also what the `expect` in `attempt`
  relies on.
- `FreshWorkerForARetry` (`NoSpentWorker`) and `ShutdownLeavesNoChild`
  (`ShutdownKillsFirst`). Both are about where a child may be while its driver is somewhere
  else. The invariant `Safe` adds to the types: a child whose handle is not published is
  about to be, or is being let go (`Published`); one that a job failed on is on its way out
  (`OnItsWayOut`); once the pool is closed each published child is on shutdown's list, and
  after the kills is gone (`Known`); and the flag is up exactly while shutdown runs or has
  run. The last is where the one lock enters: `Publish` looks at the flag in the step in which
  it publishes.
- `NoJobIsLostOrDoubled` (`EachJobOnce`), by counting: lemmas say what
  appending to a queue, taking its head, and a driver's taking or giving up a job do to the
  number of places a job is in; and `PoolKeepsItsPromise`, the refinement: `Spec` implies
  `PoseService`'s specification under the mapping of `Promised`. `Submit` is `Accept` (there
  is room: what is in hand is in the queue or with a driver), `Report` is `Deliver`, `Close`
  is `HandBack`, `Join` is `Closed` (nothing is in hand: nothing waits after the close, and a
  driver that has ended has no job), and every other step is not seen.

**Swing timing**, from `TimingConstants`, `PhaseConstants` and `AlignmentConstants` (that
`None` is none of the values it stands beside). `SwingTiming_proofs` proves all six
invariants of the run, for clips of any length, any wrist, any rates, any strikes. Two small
invariants carry them. `Ordered`: what is anchored is anchored in order and is of its view,
and what is rendered is an alignment of two such views. `Picks`: the film is a sequence of
frames, and a picked view keeps the descents of one clip while it may be picked again.

- `WarpsAreInOrder` (`WarpInOrder`). Segmenting leaves a top before an impact; a strike is
  taken only behind the top and inside the clip; and a top or motion start that is moved later
  stays behind nothing it must precede, because a rounded duration is never negative and the
  first frame of the clip bounds it below.
- `AlignmentsAreOfEitherOrder` (`EitherOrder`). One lemma for each decision of `align_swings`
  that it is the same of the clips exchanged. It needs that exactly one of the views is
  face-on, which is why `Ordered` follows each view from where it was anchored.
- `MovedTopsMeet` (`TopsMeet`) and `SpeedsAreHonest` (`HonestSpeed`) are arithmetic. `Round`
  is no further from a quotient than a half (`RoundNear`), so a top that is held to the other
  clip's duration is off by half a frame, or by less than one when it is held one frame before
  its impact (`SpansMeet`). The frame shown beside each of the lead's is the rounding of a
  line, or of two that meet at the top; each has a slope within a tenth of the clips' own
  (`SoftSpeeds`, `RigidIsHonest`), so a stretch across the top has too (`WarpIsHonest`).
- `PicksLoseNothing` (`NothingIsLost`). What a rule admits with a reference it admits without
  one too, so a field with something plausible has something matched, and the descents have
  a nearest and a latest because they are numbers below a bound (`LeastNumber`,
  `GreatestNumber`).
- `EveryReadingIsOne` (`OneReading`). `Sound` says of the scan when n frames are met that the
  runs it has ended are whole and apart and that the one it is in begins behind them all.
  `ScanIsSound` is the induction over the frames, on the recursive function of `Scan`
  (`ScansExist`, `ScanIsTheLast`). It is done through least numbers (`OneAfterAnother`),
  as the library's induction theorem takes an operator, which no installed prover can
  instantiate. The largest rise is that of some run (`LargestRise`), so the swing that is
  segmented is in the first listing, and in any looser one.

**Pose worker**, from `WorkerConstants`, for any number of jobs and interpreters.
`PoseWorker_proofs` proves `NoReplyCrossesOver` (`OutcomeIsItsOwn`) and `NobodyWorksForNobody`
(`NoOrphanWork`). Neither is inductive; the invariant says what is in the pipes. All that is on
its way to a driver that waits is about its job, in the order it was said, but for one stray
line that ends the wait (`Heard`); what a child says of a job is one of a few things
(`Saying`); and while nobody waits, nothing is on its way and the child is between jobs
(`WhileIdle`, `WhileSearching`). That the code reads one reply for one line, and kills a child
it stops listening to, is what keeps it.

**Trigger**, from `TriggerConstants`, for sessions, blocks, clips and loudness of any size.
`LiveTrigger_proofs` proves the five promises of the runs: `StrikesAreApart`
(`StrikesApart`), `ReachesBackOverNone` (`NeverReachesBack`), `FootageThere`
(`FootageIsThere`), `SharedAtTheSeam` (`SharedOnlyAtTheSeam`) and `ApartMeasurable`
(`ApartIsMeasurable`). The invariant has a part for each half and one for the distance between
them. The detector holds a burst for `Hold` at most, and has silenced every strike it named
(`DetectorInv`). What was cut, is open and is waiting is in one order, each a refractory
after the other (`ClipsInv`, `OpenInv`). And the cutter is a block and a hold behind the
detector at most (`LagInv`), from which the size of the ring suffices. The assumptions are the
relations the constants of the code have and its tests assert: a hold is shorter than the
refractory, that than the tail, the measurable lead and trail fit in the lead and tail, and
the ring holds a longest clip, the audio's lag and a block (`SpansFit`). That a measurable
trail is positive is one of them: the code's is 2.4 s.

**Conversation**, from `ConversationConstants`, for any number of askers, conversations,
models and rounds. `Conversation_proofs` proves `TurnsAreWhole` (`NoHalfTurn`), `OneModelWrote`
(`OneModel`) and `AnswersStay` (`AnswersAreKept`), by two arguments. Every transcript anybody
holds or has written, in place, in a temporary file or in memory, is whole turns of the model
it names (`SoundInv`); appending a turn keeps that, which is a lemma about where each message
of it lands (`TurnAt`). And while a conversation was never asked two things at once, the one
ask that holds it has all the answers told so far and is the only writer of its two files
(`AloneInv`).

**Career, bag and readings**, from `CareerConstants` and `ReadingConstants`, for any
directories, golfers, clubs, clips, photos and number of edits. `Readings_proofs` proves the
six properties of the run. A corpus is read afresh, so the invariant `IInv` is small: types,
that each swing arrived at an edit that was made (`Aged`), and that what is on a bag's shelf
was retired by now and before its slot was filled again (`InTurn`). The second and the third
are nothing the code states or validates; they come of the clock.

- `CountedAsSampled` (`CountsAreSamples`) and `ReadersAgree` (`TwoReadersAgree`). `Before` is a
  total order of the swings on disk (`OneIsBefore`), in which any of them have one first
  (`FirstIsOne`, `FirstIsTheOnlyOne`). So taking each artifact's first swing pairs artifacts
  with samples (`SamplesAreArtifacts`), for the facts of the corpus and of any part of them
  (`FactsAre`, `NarrowingsAre`); and two readers that take the first of the same swings take
  the same one.
- `ReuploadsAreNotCounted` (`ReuploadsCountOnce`): a swing only comes to be by arriving
  (`SwingsArrive`), later than every other (`Aged`), so it is the first of nothing that had a
  first, and changes the order of no others.
- `OneClubWithoutCaveat` (`NoCaveatOneClub`) is where `InTurn` is needed: a swing behind the
  caveat's line was hit after the present club was declared, so after every stint on the
  shelf had ended. `SlotIsFilled` and `ClubIsShelved` are the two ways a bag changes.
- `NothingIsEverForgotten` (`NothingIsForgotten`), by what each of these does to shelf and slot.
- `RefusalsAreExplained` (`EveryRefusalHasItsReason`) needs no invariant: it is that
  `dispersion_for`'s guards and the refusals it carries are of the same claims.

**Only model-checked:**

- all liveness (`PendingEnds`, `StopEnds`, `CallsEnd`, `EveryCallReturns`), since temporal
  properties under fairness are out of the prover's reach;
- what `Readings` computes of the samples, the moments behind a finding or a standing: they
  are sums over a set by a fold, and no property of a run is about their value. A proof would
  need an induction whose theorem takes an operator, which the prover cannot instantiate.

## Where the code and the text part

With a run:

- `third_file`: a file that completes a bundle while a partial run is in flight is refused
  by `submit` (`api/worker.py:129`); if that run fails, the complete bundle is not analysed
  until asked for, though "the third file landing is what starts the analysis"
  (`api/app.py:688`).
- `stale_counted`: `submit` writes the new inputs into the sidecar when it queues a run, and
  `read_corpus` tells a stale analysis by those inputs alone. From then on, and for good when
  the run fails, the analysis of the replaced clip counts as current, contrary to what
  `contracts/career.py:121` says of `STALE`.

Seen while modelling, without a run:

- Dedupe compares with what the manifests hold now (`storage/bundle_store.py:150`). After a
  repair has replaced a file, a late retry of the old one opens a swing of its own, though "a
  retried or double-tapped upload never creates a phantom swing" (`:6`).
- `stop` puts its sentinel behind the queue (`api/worker.py:101`), so all of it is run first;
  "queued swings are dropped" (`:94`).
- A strike heard in the last 50 ms of a clip is named after the clip was closed
  (`crates/trigger/src/clip.rs:248`); it opens a clip of its own and its footage is in both,
  where the module says no strike is ever cut into two clips (`:43`). `SharedOnlyAtTheSeam`
  says this is the only way.
- `save_transcript` "is atomic" (`storage/transcript_store.py:14`), but its temporary name is
  the conversation's: of two saves at once one may publish a torn file, or lose its answer.
  Two asks at once that save one after the other lose one too: the later save holds a
  transcript read before the earlier (`api/app.py:1416`).
- The schedule of `pair_frames` is "clamped to … what both clips actually cover"
  (`analysis/alignment.py:884`, `contracts/alignment.py:298`), which it is by the warp. In the
  rigid mode the follower is placed by its own rate, and only `_clamp_index` keeps it in its
  clip: a panel can be held on its last frame while the other moves.
- The middle of the transition is said to be the detected top on all but degenerate clips
  (`analysis/alignment.py:238`). A motion start collapsed near the top, or a downswing shorter
  than the transition's half, clips the window on one side in a clip of any length.
- A lone candidate need not be the descent `segment_phases` would pick (`analysis/phases.py:651`):
  strikes may have narrowed the field to it.
- `select_matching_swing` does not return `None` "exactly where" `select_swing` does
  (`api/pipeline.py:739`), only nowhere else: a field of two with none plausible is vouched for
  by the reference alone. What follows from it, that a fallback would be unreachable, holds
  (`NothingIsLost`).
- A forced submit during a run is overwritten by the run's own "done", so a swing can be
  deleted with a run of it queued, though `docs/ARCHITECTURE.md` says such a delete is refused.
  The worker then drops the job, which is harmless.
- Recovery looks at the current session (`api/worker.py:246`). A swing left queued or running
  over midnight by a process that died keeps saying so and can be neither submitted nor deleted.
- An upload begun before the day's first golfer is chosen, and filed after, is anonymous:
  `attribute_unlabeled` had run already.
- `save_state` is said to "write atomically" (`api/state.py:107`), but its temporary name is
  the swing's (`:110`), and it is called from the event loop and from the thread. A run asked
  for by hand while the thread records the one before may cross with it. If the thread renames
  first, it may publish the loop's "queued"; the loop's rename then raises before `put_nowait`
  (`api/worker.py:133`, `:143`), and the swing is pending with no job: it cannot be deleted, and
  is not submitted again until the server restarts or somebody asks for a run by hand. If the
  loop renames first, the thread's text may land in the published file, so that it is torn for
  a while; its rename raises, the run that succeeded is recorded as failed
  over the job that waits, and if the swing is deleted meanwhile its directory is made again
  with nothing but a sidecar in it. `PendingIsOwned` and `SidecarTellsTheAnalysis` say what
  holds in spite of this.
- The net under the consumer (`api/worker.py:159`) keeps it alive when a save raises in
  `_run`, but the job is gone and the sidecar still says queued or running: the swing is left
  as above until a restart. One that raises in `_recover` keeps the server from starting.
- A swing's id is used again after the last one is deleted; a conversation about the deleted
  swing is then resumed about the new one.
- One photo on two swings: a verdict on either directory decides for its swing alone, while
  the other still contributes the photo's carry. With the photo counted once in the career and
  once in each club, the clubs' sessions may add up to more than the career's.
- `get_or_create` of the golfer store takes a record it cannot read for a new golfer, and
  writes over it.
- `read_corpus` reads `analysis.json` before the sidecar: a run that ends in between is told
  as the old analysis with the new inputs.
- A clip that vanishes between posing and hashing ends the pose child without a reply
  (`pose/worker.py:411`); the pool retries, and reports the failure of the second.
- The warm-up of the detector takes twice `WARMUP_S`: the history must fill, and each hop
  without a floor starts the deafness again.
- A driver in `Worker::spawn` is not on shutdown's list; its join may take the handshake
  timeout rather than about a second.

## What is not modelled

In modelled parts: a temporary file of `save_state` left behind by a crash or a failure
(the next save empties it); two saves of the loop's on two event loops, which the server does
not have; a keypoints cache torn by a crash; files that do not parse, except the bag's and the transcript's; caches
invalidated by a change of estimator or detector; audio and the video carried forward with
it; notes and times shown to people; `AttributeUnlabeled` stamps all it changes with one
time; partial upload files; a pool that fails while being built; deadlines as numbers; the
frequency domain of the trigger; the window cut around a chosen swing; floating point, which
is exact fractions in `SwingPhases`, `SwingAlignment` and `Readings`; session drift, the
reading of bias and scatter as a pattern, percentiles.

Parts left out:

- Measuring, scoring and ball flight (`analysis/measure.py`, `checkpoints/`, `pivot.py`,
  `flight*.py`, `spin_solve.py`, `benchmarks/`): floating-point functions of one swing,
  without state or order; what they compute is a matter of numbers, not of behaviours.
- The Rust ports of storage, contracts and analysis (`crates/storage`, `crates/contracts`,
  `crates/analysis`): the same functions as the Python they were ported from, line for line
  where it matters here; the modules are mapped to the Python.
- The Rust command-line verbs (`crates/core`): they read artifacts and print reports, except
  those of `session.rs`, which write manifests beside the server. See the plan.
- Batch scripts: other processes that write the same artifacts as the pipeline. They would
  break `SidecarTellsTheAnalysis`; nothing in them claims otherwise.
- Conformance scripts and vectors (`scripts/conformance*.py`): a test generator.
- Shot store, golfer store, club catalogue: one small document per key, written whole by
  one handler; what the pipeline and the corpus see of them is in their modules.
- Screen reading (`launch_monitor/`, `crates/screen`): OCR and text matching of one photo.
- Feedback rules, the coach and the MCP tools: wording, a remote model, and readers. What
  the tools read is `Readings`.
- Capture: a device listing; there is no capture loop yet.

## Plan

Built so far, in order of weight: store, ingest, worker and server with their proofs; the
pool, its abstract service and the refinement, with theirs; the trigger; the worker protocol;
career and bag; asking; swing timing. Next:

1. `SessionVerbs`: the Rust verbs that rewrite manifests (`crates/core/src/session.rs`) and
   the batch scripts, as a second process on the server's files. It extends `UploadServer`,
   and the properties it would put to the test are `StampsAreWriteOnce` and
   `SidecarTellsTheAnalysis`.
2. `ShotStore`: a parse kept under the digest of its photo, with the importer's correction.
3. Proofs: every safety property of the runs is a theorem. A new module's own properties come
   with theirs; `SessionVerbs` would first need the ledger's lemmas restated for writes that
   no route makes.
