---------------------------- MODULE UploadServer ----------------------------
(***************************************************************************)
(* The whole server: the ingest routes, the bundle store they write, and   *)
(* the analysis worker, in one process that is stopped, killed and started *)
(* again.  Source: api/app.py (create_app).                                *)
(*                                                                         *)
(* A route is one action of the event loop: it places a file and submits   *)
(* the swing without an await in between.  The pipeline's steps interleave *)
(* with everything.                                                        *)
(***************************************************************************)
EXTENDS Ingest, AnalysisWorker

CONSTANTS
  MaxQueue,    \* BOUND: jobs waiting when a run is asked for by hand
  MaxCrashes   \* BOUND: times the process is killed

VARIABLES
  server,      \* "down", "up", or "stopping": the lifespan of the app
  crashes

vars == <<ingestVars, workerVars, server, crashes>>

ASSUME ServerConstants == MaxQueue \in Nat /\ MaxCrashes \in Nat

TypeOK ==
  /\ IngestTypeOK
  /\ WorkerTypeOK
  /\ server \in {"down", "up", "stopping"}
  /\ crashes \in 0..MaxCrashes

Init ==
  /\ IngestInit
  /\ WorkerInit
  /\ server = "down"
  /\ crashes = 0

-----------------------------------------------------------------------------
(* The routes. *)

Serving == server = "up" /\ LoopIsFree /\ UNCHANGED <<server, crashes>>

\* Routes that write the store and its cursors only.
UploadBegins(p, r, digest, target) ==
  Serving /\ UploadStart(p, r, digest, target) /\ UNCHANGED workerVars

UploadFails(p) == Serving /\ UploadAbort(p) /\ UNCHANGED workerVars

EditCursorsOrTags ==
  /\ Serving
  /\ \/ \E player \in Players : SetCurrentGolfer(player)
     \/ \E club \in Clubs : SetClubCursor(club)
     \/ \E s \in Swings, player \in Players : SetSwingGolfer(s, player)
     \/ \E s \in Swings, club \in Clubs : SetSwingClub(s, club)
     \/ \E s \in Swings, verdict \in Verdicts \cup {None} : SetSwingMishit(s, verdict)
  /\ UNCHANGED workerVars

\* The file lands, and if that made (or left) the bundle complete it is
\* submitted: the third file landing is what starts the analysis.
UploadLands(p) ==
  /\ Serving
  /\ UploadFinish(p)
  /\ LET u == uploads[p]
         s == Slot(u.day, u.role, u.digest, u.target)
         m == manifest'[s]
     IN IF Complete(m) THEN SubmitBesideRun(s, FALSE, m) ELSE UNCHANGED <<state, lost, queue, pipe>>
  /\ UNCHANGED <<analysis, cache, shots, consumer, job>>

\* POST .../analyze, "Analyze anyway".
AnalyzeSwing(s) ==
  /\ Serving
  /\ Len(queue) < MaxQueue
  /\ manifest[s] # None
  /\ FaceOn \notin MissingRoles(manifest[s])
  /\ SubmitBesideRun(s, TRUE, manifest[s])
  /\ UNCHANGED <<ingestVars, analysis, cache, shots, consumer, job>>

\* MUTANT: only a run that has started holds the swing.
DeleteUnlessRunning(s) ==
  /\ Serving
  /\ Status(s) # "running"
  /\ DirExists(s)
  /\ DeleteSwing(s)
  /\ ForgetSwing(s)
  /\ UNCHANGED <<meta, uploads>>

\* DELETE, refused while the sidecar says queued or running.
Delete(s) ==
  /\ Serving
  /\ ~Pending(s)
  /\ DirExists(s)
  /\ DeleteSwing(s)
  /\ ForgetSwing(s)
  /\ UNCHANGED <<meta, uploads>>

-----------------------------------------------------------------------------
(* The process. *)

ServerStarts ==
  /\ server = "down"
  /\ server' = "up"
  /\ Start
  /\ UNCHANGED <<ingestVars, crashes>>

\* A start that raises ends the process; whoever started it does so again.
ServerStartRaises ==
  /\ server = "down"
  /\ StartRaises
  /\ UNCHANGED <<ingestVars, server, crashes>>

\* Asked to stop, the server first answers the requests it has.
ServerStops ==
  /\ server = "up" /\ LoopIsFree
  /\ \A p \in Phones : uploads[p] = None
  /\ server' = "stopping"
  /\ Stop
  /\ UNCHANGED <<ingestVars, crashes>>

ServerStopped ==
  /\ server = "stopping"
  /\ consumer = "none"
  /\ server' = "down"
  /\ ProcessGone
  /\ UNCHANGED <<ingestVars, crashes>>

Dies ==
  /\ server # "down"
  /\ crashes < MaxCrashes
  /\ server' = "down"
  /\ crashes' = crashes + 1
  /\ ProcessGone

ServerDies == Dies /\ CrashBetween

ServerDiesLanding(p) == Dies /\ server = "up" /\ LoopIsFree /\ CrashDuring(p)

WorkerSteps ==
  /\ Consume \/ PipelineStep \/ PipelineRaise
  /\ UNCHANGED <<ingestVars, server, crashes>>

DayGoesBy == DayPasses /\ UNCHANGED <<workerVars, server, crashes>>

Next ==
  \/ \E p \in Phones, r \in Roles, digest \in Digests, target \in Targets :
       UploadBegins(p, r, digest, target)
  \/ \E p \in Phones : UploadFails(p) \/ UploadLands(p) \/ ServerDiesLanding(p)
  \/ EditCursorsOrTags
  \/ \E s \in Swings : AnalyzeSwing(s) \/ Delete(s)
  \/ ServerStarts \/ ServerStartRaises \/ ServerStops \/ ServerStopped \/ ServerDies
  \/ WorkerSteps
  \/ DayGoesBy

Spec == Init /\ [][Next]_vars

\* The loop runs what is ready, a thread or a subprocess finishes or raises, a
\* server that is down is started again.  People owe nothing.
Fairness ==
  /\ WF_vars(Consume /\ UNCHANGED <<ingestVars, server, crashes>>)
  /\ WF_vars(PipelineStep /\ UNCHANGED <<ingestVars, server, crashes>>)
  /\ WF_vars(ServerStopped)
  /\ WF_vars(ServerStarts)

FairSpec == Spec /\ Fairness

-----------------------------------------------------------------------------
(* Safety. *)

Queued(s) == \E i \in 1..Len(queue) : queue[i] # None /\ queue[i].swing = s
Owned(s) == Queued(s) \/ (job # None /\ job.swing = s)

\* While the server is up, a swing of today's that says queued or running has a
\* job that will end it, or the loop's last save of its sidecar raised: no request, no
\* crash and restart, no failing run, and no crossing of saves in which the thread's is
\* the one that fails leaves a sidecar that can neither be deleted nor submitted again
\* (submit, _run, _recover).  A save of the loop's that raises does leave one, until the
\* server starts again or somebody asks for the run by hand.
PendingIsOwned ==
  server # "down" =>
    \A s \in Swings : s[1] = today /\ Pending(s) => Owned(s) \/ s \in lost

\* The other way: until the pipeline's record of its run is being written, the
\* sidecar says queued or running, which is what delete_swing looks at.
Working == pipe # None /\ pipe.pc \in {"load", "read", "write", "record"}

RunIsMarked == Working => Pending(pipe.swing)

\* No delete takes a directory from under the worker's run.
NoDeleteUnderARun ==
  [][\A s \in Swings :
       Working /\ pipe.swing = s /\ manifest[s] # None => manifest'[s] # None
    ]_vars

\* A complete bundle that was analyzed successfully is current, or a run that
\* makes it so is on its way: a file landing before, during or after a run is
\* never silently left out (submit, _resubmit_if_changed, _recover), save for a
\* sidecar save that raised.
DoneIsCurrent ==
  server = "up" =>
    \A s \in Swings \ lost :
      s[1] = today /\ manifest[s] # None /\ Complete(manifest[s]) /\ ~Owned(s) =>
        Status(s) = "failed" \/ UpToDate(s, manifest[s])

\* As long as no crash took a named file and no sidecar save raised, a result that
\* counts as current was computed from every file it names: a clip replaced and put
\* back during a run that could not find it does not hide behind matching inputs (the
\* updated_at comparison of _resubmit_if_changed).
NothingGone ==
  server = "up" /\ crashes = 0 =>
    \A s \in Swings \ lost :
      manifest[s] # None /\ Complete(manifest[s]) /\ UpToDate(s, manifest[s]) /\ ~Owned(s) =>
        analysis[s].gone = {}

\* A sidecar that says done is a copy of the analysis.json beside it: the same
\* inputs, and the same score, which stands or falls with the files the run found.
\* No crash between the two writes, no failure, no crossing of two sidecar saves and
\* no second run parts them (record_state, and the 66.67 beside a 94.92 its comment
\* tells of).
SidecarTellsTheAnalysis ==
  \A s \in Swings :
    Status(s) = "done" =>
      /\ analysis[s] # None
      /\ analysis[s].inputs = state[s].inputs /\ analysis[s].gone = state[s].gone

-----------------------------------------------------------------------------
(* Liveness. *)

\* Whatever is queued is taken up and brought to an end, unless a save of its
\* sidecar raises.
PendingEnds ==
  \A s \in Swings :
    (s[1] = today /\ Pending(s)) ~> (s[1] # today \/ ~Pending(s) \/ s \in lost)

\* A server asked to stop does stop, however much is queued.
StopEnds == (server = "stopping") ~> (server = "down")

-----------------------------------------------------------------------------
(* What docs and comments say, and the code does not do. *)

\* What storage/corpus.py takes a swing's stored analysis for: no sidecar, or one
\* that names the inputs the manifest names.  It does not look at the status.
Counts(s) == analysis[s] # None /\ (state[s] = None \/ MatchesInputs(s, manifest[s]))

\* contracts/career.py, STALE: "Analyzed, but a clip has been re-uploaded since;
\* the stored numbers describe bytes that are no longer on disk" is left out.
CountedIsCurrent ==
  \A s \in Swings :
    manifest[s] # None /\ Counts(s) => analysis[s].inputs = manifest[s].roles

\* app.upload: "the third file landing is what starts the analysis".
CompleteBundleIsAnalyzed ==
  server = "up" =>
    \A s \in Swings \ lost :
      s[1] = today /\ manifest[s] # None /\ Complete(manifest[s]) /\ ~Owned(s) =>
        state[s] # None /\ MatchesInputs(s, manifest[s])
=============================================================================
