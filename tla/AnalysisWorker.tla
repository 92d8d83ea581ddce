--------------------------- MODULE AnalysisWorker ---------------------------
(***************************************************************************)
(* The background worker that joins ingestion to analysis, the pipeline it *)
(* runs in a thread, and the state sidecar both write.                     *)
(* Source: api/worker.py, api/pipeline.py, api/state.py.                   *)
(*                                                                         *)
(* The worker's own steps run on the event loop, one action each.  The     *)
(* pipeline runs in another thread, so it is a step per file it reads or   *)
(* writes.  Loop and thread save the sidecar over one temporary name: a    *)
(* save may fail, and two of them may cross.  Which swings there are is    *)
(* the bundle store's; the module is open to its writes.                   *)
(***************************************************************************)
EXTENDS BundleStore, Sequences

CONSTANT
  RoleOrder   \* the roles as the pipeline reads them, face-on first

VARIABLES
  state,      \* swing -> analysis.state.json; None if absent or unreadable
  lost,       \* the swings for which the loop's last save of the sidecar raised
  analysis,   \* swing -> analysis.json, or None
  cache,      \* swing -> role -> the content its keypoints were computed from
  shots,      \* the photos the shot store has read
  queue,      \* the asyncio queue; None is the shutdown sentinel
  consumer,   \* where the consumer task is
  job,        \* the run the consumer awaits, or None
  pipe        \* the pipeline run in progress in the thread, or None

workerVars == <<state, lost, analysis, cache, shots, queue, consumer, job, pipe>>

FaceOn == RoleOrder[1]

Inputs == [Roles -> Digests \cup {None}]
Job == [swing : Swings, force : BOOLEAN]
Run == [swing : Swings, seen : 0..MaxWrites, inputs : Inputs]
Sidecar ==
  [status : {"queued", "running", "done", "failed"}, inputs : Inputs, gone : SUBSET Roles]
Artifact == [inputs : Inputs, gone : SUBSET Roles]
Pipeline ==
  [pc : {"load", "read", "write", "record", "lay", "beaten", "returned", "raised"}, swing : Swings,
   inputs : Inputs, next : 1..Len(RoleOrder) + 1, gone : SUBSET Roles, ok : BOOLEAN]

ASSUME WorkerConstants ==
  /\ RoleOrder \in Seq(Roles) /\ Len(RoleOrder) > 0
  /\ \A r \in Roles : \E i \in 1..Len(RoleOrder) : RoleOrder[i] = r
  /\ FaceOn # ShotScreen
  /\ None \notin Job \cup Run \cup Sidecar \cup Artifact \cup Pipeline

WorkerTypeOK ==
  /\ state \in [Swings -> Sidecar \cup {None}]
  /\ lost \subseteq Swings
  /\ analysis \in [Swings -> Artifact \cup {None}]
  /\ cache \in [Swings -> Inputs]
  /\ shots \subseteq Digests
  /\ queue \in Seq(Job \cup {None})
  /\ consumer \in {"none", "parked", "looping", "awaiting"}
  /\ job \in Run \cup {None}
  /\ pipe \in Pipeline \cup {None}

Nothing == [r \in Roles |-> None]

WorkerInit ==
  /\ state = [s \in Swings |-> None]
  /\ lost = {}
  /\ analysis = [s \in Swings |-> None]
  /\ cache = [s \in Swings |-> Nothing]
  /\ shots = {}
  /\ queue = <<>>
  /\ consumer = "none"
  /\ job = None
  /\ pipe = None

-----------------------------------------------------------------------------
(* api/state.py: what the sidecar says. *)

Status(s) == IF state[s] = None THEN "none" ELSE state[s].status
Pending(s) == Status(s) \in {"queued", "running"}
MatchesInputs(s, m) == state[s].inputs = m.roles

UpToDate(s, m) == Status(s) = "done" /\ MatchesInputs(s, m)

Text(status, inputs, gone) == [status |-> status, inputs |-> inputs, gone |-> gone]

\* save_state with no other writer about.
SaveState(s, status, inputs, gone) ==
  state' = [state EXCEPT ![s] = Text(status, inputs, gone)]

\* The loop's saves: one that is carried out, and one that raises.
Saves(s, status, inputs) == SaveState(s, status, inputs, {}) /\ lost' = lost \ {s}
SaveRaises(s) == UNCHANGED state /\ lost' = lost \cup {s}

\* A directory is there as long as anything is in it.
DirExists(s) ==
  \/ manifest[s] # None \/ files[s] # {}
  \/ state[s] # None \/ analysis[s] # None \/ cache[s] # Nothing

-----------------------------------------------------------------------------
(* submit *)

Refused(s, force, m) ==
  \/ consumer = "none"
  \/ m = None
  \/ ~force /\ (UpToDate(s, m) \/ Pending(s))

\* MUTANT: the state says queued, but no job is.
SubmitOnPaper(s, force, m) ==
  /\ UNCHANGED queue
  /\ \/ Refused(s, force, m) /\ UNCHANGED <<state, lost>>
     \/ ~Refused(s, force, m) /\ Saves(s, "queued", m.roles)

Put(s, force) == queue' = Append(queue, [swing |-> s, force |-> force])

\* m is the manifest submit loads: the one the calling route has just saved.
\* The job is put after the save, so a save that raises leaves none.
Submit(s, force, m) ==
  \/ Refused(s, force, m) /\ UNCHANGED <<state, lost, queue>>
  \/ ~Refused(s, force, m) /\ Saves(s, "queued", m.roles) /\ Put(s, force)
  \/ ~Refused(s, force, m) /\ SaveRaises(s) /\ UNCHANGED queue

-----------------------------------------------------------------------------
(* The pipeline: analyze_swing_dir. *)

At(pc) == pipe # None /\ pipe.pc = pc

Begun(s) ==
  [pc |-> "load", swing |-> s, inputs |-> Nothing, next |-> 1, gone |-> {}, ok |-> FALSE]

\* The manifest is read once; without one the run ends and no state is written.
PipelineLoad ==
  /\ At("load")
  /\ pipe' = IF manifest[pipe.swing] = None THEN [pipe EXCEPT !.pc = "returned"]
             ELSE [pipe EXCEPT !.pc = "read", !.inputs = manifest[pipe.swing].roles]
  /\ UNCHANGED <<state, lost, analysis, cache, shots, queue, consumer, job>>

\* Results derived from a file are kept under its content (keypoints_for,
\* _shot_for), so a file already read is not needed again.
Cached(s, r, digest) ==
  IF r = ShotScreen THEN digest \in shots ELSE cache[s][r] = digest

OnDisk(s, r, digest) == <<r, digest>> \in files[s]

\* Past the role just read; without a usable face-on view there is nothing to score.
Past(usable, gone) ==
  IF pipe.next = 1 /\ ~usable THEN [pipe EXCEPT !.pc = "record", !.gone = gone]
  ELSE [pipe EXCEPT !.pc = IF pipe.next = Len(RoleOrder) THEN "write" ELSE "read",
                    !.next = @ + 1, !.gone = gone]

PipelineRead ==
  /\ At("read")
  /\ LET s == pipe.swing
         r == RoleOrder[pipe.next]
         digest == pipe.inputs[r]
     IN \/ /\ digest = None \/ (~Cached(s, r, digest) /\ ~OnDisk(s, r, digest))
           /\ pipe' = Past(FALSE, IF digest = None THEN pipe.gone ELSE pipe.gone \cup {r})
           /\ UNCHANGED <<cache, shots>>
        \/ /\ digest # None /\ Cached(s, r, digest)
           /\ pipe' = Past(TRUE, pipe.gone)
           /\ UNCHANGED <<cache, shots>>
        \/ /\ digest # None /\ ~Cached(s, r, digest) /\ OnDisk(s, r, digest)
           /\ \/ /\ pipe' = Past(TRUE, pipe.gone)
                 /\ IF r = ShotScreen
                      THEN shots' = shots \cup {digest} /\ UNCHANGED cache
                      ELSE cache' = [cache EXCEPT ![s][r] = digest] /\ UNCHANGED shots
              \/ pipe' = Past(FALSE, pipe.gone) /\ UNCHANGED <<cache, shots>>
  /\ UNCHANGED <<state, lost, analysis, queue, consumer, job>>

\* analysis.json; the directory is not made again if it is gone by now.
PipelineWrite ==
  /\ At("write")
  /\ IF DirExists(pipe.swing)
       THEN /\ analysis' = [analysis EXCEPT ![pipe.swing] =
                 [inputs |-> pipe.inputs, gone |-> pipe.gone]]
            /\ pipe' = [pipe EXCEPT !.pc = "record", !.ok = TRUE]
       ELSE pipe' = [pipe EXCEPT !.pc = "raised"] /\ UNCHANGED analysis
  /\ UNCHANGED <<state, lost, cache, shots, queue, consumer, job>>

\* MUTANT: the inputs recorded are those the directory holds by now.
PipelineRecordLate ==
  /\ At("record")
  /\ LET now == IF manifest[pipe.swing] = None THEN pipe.inputs ELSE manifest[pipe.swing].roles
     IN SaveState(pipe.swing, IF pipe.ok THEN "done" ELSE "failed", now, pipe.gone)
  /\ pipe' = [pipe EXCEPT !.pc = "returned"]
  /\ UNCHANGED <<lost, analysis, cache, shots, queue, consumer, job>>

\* record_state: the terminal state, with the inputs the run loaded.
PipelineRecord ==
  /\ At("record")
  /\ SaveState(pipe.swing, IF pipe.ok THEN "done" ELSE "failed", pipe.inputs, pipe.gone)
  /\ pipe' = [pipe EXCEPT !.pc = "returned"]
  /\ UNCHANGED <<lost, analysis, cache, shots, queue, consumer, job>>

\* Anything unexpected: a decoder, an OCR engine, the file system.
PipelineRaise ==
  /\ pipe # None /\ pipe.pc \in {"load", "read", "write", "record", "lay"}
  /\ pipe' = [pipe EXCEPT !.pc = "raised", !.ok = FALSE]
  /\ UNCHANGED <<state, lost, analysis, cache, shots, queue, consumer, job>>

-----------------------------------------------------------------------------
(* A save of the loop's and record_state's save of the same swing, crossing *)
(* on the one temporary name: opening it empties it, both write from its    *)
(* first byte, the first rename publishes whatever it then holds, and the   *)
(* second rename raises.                                                    *)

RunText == Text(IF pipe.ok THEN "done" ELSE "failed", pipe.inputs, pipe.gone)

Published(s, texts) == \E text \in texts : state' = [state EXCEPT ![s] = text]

\* The thread's rename comes first: submit raises before it has put its job.
ThreadRenamesFirst(s, m) ==
  /\ pipe.pc \in {"record", "lay", "beaten"}
  /\ Published(s, {Text("queued", m.roles, {}), None}
                    \cup IF pipe.pc = "record" THEN {RunText} ELSE {})
  /\ pipe' = [pipe EXCEPT !.pc = "returned"]
  /\ lost' = lost \cup {s}
  /\ UNCHANGED queue

\* The loop's rename comes first, with the thread's text still to be laid into
\* the file it now is, or laid already: the thread's rename is to raise.
LoopRenamesFirst(s, force, m) ==
  /\ pipe.pc = "record"
  /\ \/ /\ Published(s, {Text("queued", m.roles, {}), None})
        /\ pipe' = [pipe EXCEPT !.pc = "lay"]
     \/ /\ Published(s, {Text("queued", m.roles, {}), RunText, None})
        /\ pipe' = [pipe EXCEPT !.pc = "beaten"]
  /\ lost' = lost \ {s}
  /\ Put(s, force)

\* The file the thread is still to write into is replaced, or removed.
Outrun(s) ==
  IF pipe # None /\ pipe.swing = s /\ pipe.pc = "lay" THEN [pipe EXCEPT !.pc = "beaten"] ELSE pipe

\* submit, called by a route: on the loop, while a thread may be recording.
SubmitBesideRun(s, force, m) ==
  \/ Submit(s, force, m) /\ pipe' = IF queue' = queue THEN pipe ELSE Outrun(s)
  \/ /\ ~Refused(s, force, m) /\ pipe # None /\ pipe.swing = s
     /\ ThreadRenamesFirst(s, m) \/ LoopRenamesFirst(s, force, m)

\* Written over a longer text it leaves a torn one, over an empty file its own.
PipelineLay ==
  /\ At("lay")
  /\ Published(pipe.swing, {RunText} \cup IF state[pipe.swing] = None THEN {} ELSE {None})
  /\ pipe' = [pipe EXCEPT !.pc = "beaten"]
  /\ UNCHANGED <<lost, analysis, cache, shots, queue, consumer, job>>

\* The rename finds no temporary file, and the run raises.
PipelineBeaten ==
  /\ At("beaten")
  /\ pipe' = [pipe EXCEPT !.pc = "raised", !.ok = FALSE]
  /\ UNCHANGED <<state, lost, analysis, cache, shots, queue, consumer, job>>

PipelineStep ==
  PipelineLoad \/ PipelineRead \/ PipelineWrite \/ PipelineRecord \/ PipelineLay \/ PipelineBeaten

-----------------------------------------------------------------------------
(* The consumer: _consume and _run.  It is parked on the queue's get, or    *)
(* awaits the thread of its run, or is looping: between a run's end and its *)
(* next await it has the event loop to itself, and no route runs.           *)

LoopIsFree == consumer # "looping"

AtQueue == consumer \in {"parked", "looping"} /\ queue # <<>>

NothingToDo(j) ==
  \/ manifest[j.swing] = None
  \/ manifest[j.swing] # None /\ ~j.force /\ UpToDate(j.swing, manifest[j.swing])

\* The job at the head is dropped: the swing is gone, or its result is current.
Drop ==
  /\ AtQueue /\ Head(queue) # None /\ NothingToDo(Head(queue))
  /\ queue' = Tail(queue)
  /\ consumer' = "looping"
  /\ UNCHANGED <<state, lost, analysis, cache, shots, job, pipe>>

\* The job at the head is run: what the manifest says now is noted, the sidecar
\* says running, and the pipeline is started in a thread.
Take ==
  /\ AtQueue /\ Head(queue) # None /\ ~NothingToDo(Head(queue))
  /\ LET s == Head(queue).swing IN
       /\ job' = [swing |-> s, seen |-> manifest[s].updated, inputs |-> manifest[s].roles]
       /\ pipe' = Begun(s)
       /\ Saves(s, "running", manifest[s].roles)
  /\ queue' = Tail(queue)
  /\ consumer' = "awaiting"
  /\ UNCHANGED <<analysis, cache, shots>>

\* That save raises: the net under the consumer drops the job, and that is all.
TakeRaises ==
  /\ AtQueue /\ Head(queue) # None /\ ~NothingToDo(Head(queue))
  /\ SaveRaises(Head(queue).swing)
  /\ queue' = Tail(queue)
  /\ consumer' = "looping"
  /\ UNCHANGED <<analysis, cache, shots, job, pipe>>

\* The sentinel: the consumer task returns.
TakeSentinel ==
  /\ AtQueue /\ Head(queue) = None
  /\ queue' = Tail(queue)
  /\ consumer' = "none"
  /\ UNCHANGED <<state, lost, analysis, cache, shots, job, pipe>>

Park ==
  /\ consumer = "looping" /\ queue = <<>>
  /\ consumer' = "parked"
  /\ UNCHANGED <<state, lost, analysis, cache, shots, queue, job, pipe>>

RunEnds ==
  /\ consumer = "awaiting"
  /\ consumer' = "looping"
  /\ job' = None
  /\ pipe' = None

\* MUTANT: the manifest is not looked at again when the run is over.
ResumeReturnedBlind ==
  /\ At("returned")
  /\ RunEnds
  /\ UNCHANGED <<state, lost, analysis, cache, shots, queue>>

\* The pipeline returned: a role that landed meanwhile is not in its result.
ResumeReturned ==
  /\ At("returned")
  /\ LET s == job.swing
         latest == manifest[s]
     IN IF pipe.ok /\ latest # None /\ latest.updated # job.seen /\ Complete(latest)
          THEN Submit(s, TRUE, latest)
          ELSE UNCHANGED <<state, lost, queue>>
  /\ RunEnds
  /\ UNCHANGED <<analysis, cache, shots>>

\* It raised: the worker records the failure, with the inputs it started from,
\* unless that save raises too.
ResumeRaised ==
  /\ At("raised")
  /\ Saves(job.swing, "failed", job.inputs) \/ SaveRaises(job.swing)
  /\ RunEnds
  /\ UNCHANGED <<analysis, cache, shots, queue>>

Consume == Drop \/ Take \/ TakeRaises \/ TakeSentinel \/ Park \/ ResumeReturned \/ ResumeRaised

-----------------------------------------------------------------------------
(* start, stop, and the process's end. *)

\* MUTANT: only what was queued is picked up again.
OrphanedQueuedOnly(s) == Status(s) = "queued"

Orphaned(s) == Pending(s)

Overdue(s) ==
  Complete(manifest[s]) /\ (state[s] = None \/ (Status(s) = "done" /\ ~MatchesInputs(s, manifest[s])))

Recovered ==
  {s \in Swings : s[1] = today /\ manifest[s] # None /\ (Orphaned(s) \/ Overdue(s))}

\* The saves of _recover, as far as the ids before id.
SavesBefore(id) ==
  state' = [s \in Swings |-> IF s \in Recovered /\ s[2] < id
                              THEN Text("queued", manifest[s].roles, {}) ELSE state[s]]

\* _recover: today's session, oldest swing first.
Start ==
  /\ consumer = "none"
  /\ consumer' = "parked"
  /\ \E order \in [1..Cardinality(Recovered) -> Recovered] :
       /\ \A i, j \in DOMAIN order : i < j => order[i][2] < order[j][2]
       /\ queue' = [i \in DOMAIN order |-> [swing |-> order[i], force |-> Orphaned(order[i])]]
  /\ SavesBefore(MaxId + 1)
  /\ lost' = lost \ Recovered
  /\ UNCHANGED <<analysis, cache, shots, job, pipe>>

\* One of its saves raises, and start with it: the process never serves.
StartRaises ==
  /\ consumer = "none"
  /\ \E s \in Recovered :
       /\ SavesBefore(s[2])
       /\ lost' = (lost \ {t \in Recovered : t[2] < s[2]}) \cup {s}
  /\ UNCHANGED <<analysis, cache, shots, queue, consumer, job, pipe>>

\* MUTANT: the consumer is waited for, but nothing tells it to stop.
StopUntold == UNCHANGED <<state, lost, analysis, cache, shots, queue, consumer, job, pipe>>

\* stop: the sentinel joins the end of the queue.
Stop ==
  /\ queue' = Append(queue, None)
  /\ UNCHANGED <<state, lost, analysis, cache, shots, consumer, job, pipe>>

\* The process is gone, and with it the queue and the thread; files stay.
ProcessGone ==
  /\ queue' = <<>>
  /\ consumer' = "none"
  /\ job' = None
  /\ pipe' = None
  /\ UNCHANGED <<state, lost, analysis, cache, shots>>

\* rmtree takes everything derived from the swing with it.
ForgetSwing(s) ==
  /\ state' = [state EXCEPT ![s] = None]
  /\ analysis' = [analysis EXCEPT ![s] = None]
  /\ cache' = [cache EXCEPT ![s] = Nothing]
  /\ lost' = lost \ {s}
  /\ pipe' = Outrun(s)
  /\ UNCHANGED <<shots, queue, consumer, job>>
=============================================================================
