------------------------- MODULE UploadServer_proofs -------------------------
(***************************************************************************)
(* The server, proved for every value of the constants, in two parts.      *)
(*                                                                         *)
(* Type correctness and the ledger between its sidecars and the worker's   *)
(* jobs: a run's swing is marked, so that no delete takes its directory    *)
(* away, and what is marked pending is owned by a job.                     *)
(*                                                                         *)
(* TypeOK is not inductive as it stands: what a run records is well typed  *)
(* only because the pipeline runs exactly while the consumer awaits it, in *)
(* the swing of its job, and reads no role past the last (Handshake).      *)
(*                                                                         *)
(* PendingIsOwned is not inductive either.  A job is dropped from the      *)
(* queue when its swing's manifest is gone, so what is pending must have   *)
(* one (PendingIsBundled); a run that returned gives its job up, so its    *)
(* swing must have been settled or queued again (ReturnedIsSettled); and   *)
(* the date moves on, so nothing may be pending in a session ahead of it   *)
(* (NothingAhead).  A save of the loop's that raises is remembered in lost *)
(* and exempts its swing; one that crosses the thread's is a step of its   *)
(* own (BesideType, BesideAdds, BesideDone), after which the thread either *)
(* has returned or is to fail.                                             *)
(*                                                                         *)
(* What a finished analysis is worth: a sidecar that says done is a copy   *)
(* of the analysis beside it; a complete bundle nobody is working on has   *)
(* failed or is current; and, short of a crash, what is current missed no  *)
(* file.  Each rests on the ledger and on an invariant of its own, because *)
(* the pipeline reads, writes and records in three steps and the manifests *)
(* are rewritten in between.  Told says what analysis and run know of each *)
(* other before and after the write; Current, what a manifest's stamp says *)
(* of a run that began when it was read; AllFound, that what a run missed  *)
(* shows in that stamp.                                                    *)
(***************************************************************************)
EXTENDS UploadServer, Ingest_proofs, SequenceTheorems

Handshake ==
  /\ (consumer = "awaiting") <=> (job # None)
  /\ (job = None) <=> (pipe = None)
  /\ pipe # None =>
       /\ pipe.swing = job.swing
       /\ pipe.pc \in {"load", "read"} => pipe.next \in 1..Len(RoleOrder)

TypedRun == TypeOK /\ Handshake

-----------------------------------------------------------------------------
(* The worker and the pipeline. *)

\* The server's edits are those of the ingest routes.
LEMMA EditsAreIngests == EditCursorsOrTags => Edits
BY DEF EditCursorsOrTags, Edits, Serving

LEMMA EditsStay == EditCursorsOrTags => UNCHANGED <<files, today, uploads>>
<1>1. ASSUME NEW player, SetCurrentGolfer(player)
      PROVE  UNCHANGED <<files, today, uploads>>
  <2>1. AttributeUnlabeled(today, player) /\ UNCHANGED uploads
    BY <1>1 DEF SetCurrentGolfer
  <2>2. UNCHANGED <<files, today>>
    BY <2>1, Zenon DEF AttributeUnlabeled
  <2> QED
    BY <2>1, <2>2
<1>2. ASSUME NEW club, SetClubCursor(club)
      PROVE  UNCHANGED <<files, today, uploads>>
  BY <1>2 DEF SetClubCursor
<1>3. ASSUME NEW s, NEW player, SetSwingGolfer(s, player)
      PROVE  UNCHANGED <<files, today, uploads>>
  BY <1>3 DEF SetSwingGolfer, SetPlayer, Rewrite
<1>4. ASSUME NEW s, NEW club, SetSwingClub(s, club)
      PROVE  UNCHANGED <<files, today, uploads>>
  BY <1>4 DEF SetSwingClub, SetClub, Rewrite
<1>5. ASSUME NEW s, NEW verdict, SetSwingMishit(s, verdict)
      PROVE  UNCHANGED <<files, today, uploads>>
  BY <1>5 DEF SetSwingMishit, SetMishit, Rewrite
<1> QED
  BY <1>1, <1>2, <1>3, <1>4, <1>5 DEF EditCursorsOrTags

LEMMA SaveStateType ==
  ASSUME state \in [Swings -> Sidecar \cup {None}], NEW s \in Swings,
         NEW status \in {"queued", "running", "done", "failed"}, NEW inputs \in Inputs,
         NEW gone \in SUBSET Roles, SaveState(s, status, inputs, gone)
  PROVE  state' \in [Swings -> Sidecar \cup {None}]
<1>1. Text(status, inputs, gone) \in Sidecar
  BY DEF Text, Sidecar
<1> QED
  BY <1>1 DEF SaveState

LEMMA SubmitType ==
  ASSUME WorkerTypeOK, NEW s \in Swings, NEW force \in BOOLEAN,
         NEW m \in Manifest \cup {None}, Submit(s, force, m)
  PROVE  /\ state' \in [Swings -> Sidecar \cup {None}] /\ lost' \subseteq Swings
         /\ queue' \in Seq(Job \cup {None})
<1>1. CASE Refused(s, force, m)
  BY <1>1 DEF Submit, WorkerTypeOK
<1>2. CASE ~Refused(s, force, m) /\ Saves(s, "queued", m.roles) /\ Put(s, force)
  <2>1. m \in Manifest /\ m.roles \in Inputs
    BY <1>2 DEF Refused, Manifest, Inputs
  <2>2. [swing |-> s, force |-> force] \in Job
    BY DEF Job
  <2>3. state' \in [Swings -> Sidecar \cup {None}]
    BY <1>2, <2>1, SaveStateType DEF Saves, WorkerTypeOK
  <2> QED
    BY <1>2, <2>2, <2>3 DEF Saves, Put, WorkerTypeOK
<1>3. CASE SaveRaises(s) /\ UNCHANGED queue
  BY <1>3 DEF SaveRaises, WorkerTypeOK
<1> QED
  BY <1>1, <1>2, <1>3 DEF Submit

\* What a route does to a run that is recording: its rename and the run's cross.
BesideRun(s) ==
  /\ pipe # None /\ pipe.swing = s /\ pipe.pc \in {"record", "lay", "beaten"}
  /\ pipe' \in Pipeline /\ pipe'.pc \in {"lay", "beaten", "returned"}
  /\ pipe'.swing = s /\ pipe'.inputs = pipe.inputs /\ pipe'.gone = pipe.gone
  /\ pipe'.ok = pipe.ok
  /\ pipe'.pc = "lay" => pipe.pc = "record"
  /\ pipe'.pc = "returned" => s \in lost'

LEMMA PcMoves ==
  ASSUME pipe \in Pipeline, pipe # None, pipe.pc \in {"record", "lay", "beaten"},
         NEW pc \in {"lay", "beaten", "returned"}, pipe' = [pipe EXCEPT !.pc = pc],
         pc = "lay" => pipe.pc = "record", pc = "returned" => pipe.swing \in lost'
  PROVE  BesideRun(pipe.swing)
BY DEF BesideRun, Pipeline

LEMMA OutrunMoves ==
  ASSUME WorkerTypeOK, NEW s \in Swings, pipe' = Outrun(s)
  PROVE  UNCHANGED pipe \/ (BesideRun(s) /\ pipe'.pc = "beaten")
<1>1. CASE pipe # None /\ pipe.swing = s /\ pipe.pc = "lay"
  <2>1. pipe' = [pipe EXCEPT !.pc = "beaten"] /\ pipe \in Pipeline
    BY <1>1 DEF Outrun, WorkerTypeOK
  <2> QED
    BY <1>1, <2>1, PcMoves DEF Pipeline
<1> QED
  BY <1>1 DEF Outrun

LEMMA PublishedType ==
  ASSUME state \in [Swings -> Sidecar \cup {None}], NEW s \in Swings,
         NEW texts \in SUBSET (Sidecar \cup {None}), Published(s, texts)
  PROVE  state' \in [Swings -> Sidecar \cup {None}]
BY DEF Published

LEMMA TextTypes ==
  ASSUME NEW inputs \in Inputs
  PROVE  Text("queued", inputs, {}) \in Sidecar
BY DEF Text, Sidecar

LEMMA RunTextType ==
  ASSUME pipe \in Pipeline
  PROVE  RunText \in Sidecar
BY DEF RunText, Text, Pipeline, Sidecar

LEMMA BesideType ==
  ASSUME WorkerTypeOK, NEW s \in Swings, NEW force \in BOOLEAN,
         NEW m \in Manifest \cup {None}, SubmitBesideRun(s, force, m)
  PROVE  /\ state' \in [Swings -> Sidecar \cup {None}] /\ lost' \subseteq Swings
         /\ queue' \in Seq(Job \cup {None})
         /\ UNCHANGED pipe \/ BesideRun(s)
<1>1. CASE Submit(s, force, m) /\ pipe' = IF queue' = queue THEN pipe ELSE Outrun(s)
  BY <1>1, SubmitType, OutrunMoves
<1>2. CASE /\ ~Refused(s, force, m) /\ pipe # None /\ pipe.swing = s
           /\ ThreadRenamesFirst(s, m) \/ LoopRenamesFirst(s, force, m)
  <2>1. m \in Manifest /\ m.roles \in Inputs
    BY <1>2 DEF Refused, Manifest, Inputs
  <2>2. Text("queued", m.roles, {}) \in Sidecar
    BY <2>1, TextTypes
  <2>3. pipe \in Pipeline /\ RunText \in Sidecar
    BY <1>2, RunTextType DEF WorkerTypeOK
  <2>4. state' \in [Swings -> Sidecar \cup {None}]
    <3>1. \E texts \in SUBSET (Sidecar \cup {None}) : Published(s, texts)
      BY <1>2, <2>2, <2>3 DEF ThreadRenamesFirst, LoopRenamesFirst
    <3> QED
      BY <3>1, PublishedType DEF WorkerTypeOK
  <2>5. lost' \subseteq Swings
    BY <1>2 DEF ThreadRenamesFirst, LoopRenamesFirst, WorkerTypeOK
  <2>6. queue' \in Seq(Job \cup {None})
    <3>1. [swing |-> s, force |-> force] \in Job
      BY DEF Job
    <3> QED
      BY <1>2, <3>1 DEF ThreadRenamesFirst, LoopRenamesFirst, Put, WorkerTypeOK
  <2>7. BesideRun(s)
    BY <1>2, <2>3, PcMoves DEF ThreadRenamesFirst, LoopRenamesFirst
  <2> QED
    BY <2>4, <2>5, <2>6, <2>7
<1> QED
  BY <1>1, <1>2 DEF SubmitBesideRun

\* The run is still the job's, and still the consumer's to wait for.
LEMMA BesideHandshake ==
  ASSUME Handshake, NEW s, UNCHANGED pipe \/ BesideRun(s), UNCHANGED <<consumer, job>>
  PROVE  Handshake'
<1>1. BesideRun(s) => pipe' # None
  BY WorkerConstants DEF BesideRun
<1> QED
  BY <1>1 DEF BesideRun, Handshake

LEMMA BegunType ==
  ASSUME NEW s \in Swings
  PROVE  /\ Begun(s) \in Pipeline /\ Begun(s).pc = "load" /\ Begun(s).swing = s
         /\ Begun(s).next \in 1..Len(RoleOrder)
<1>1. 1 \in 1..Len(RoleOrder) + 1 /\ 1 \in 1..Len(RoleOrder)
  BY WorkerConstants, LenProperties
<1>2. Nothing \in Inputs
  BY DEF Nothing, Inputs
<1> QED
  BY <1>1, <1>2 DEF Begun, Pipeline

LEMMA PastType ==
  ASSUME pipe \in Pipeline, pipe.next \in 1..Len(RoleOrder),
         NEW usable \in BOOLEAN, NEW gone \in SUBSET Roles
  PROVE  /\ Past(usable, gone) \in Pipeline
         /\ Past(usable, gone).swing = pipe.swing
         /\ Past(usable, gone).pc \in {"load", "read"} =>
              Past(usable, gone).next \in 1..Len(RoleOrder)
<1>1. Len(RoleOrder) \in Nat
  BY WorkerConstants, LenProperties
<1>2. CASE pipe.next = 1 /\ ~usable
  BY <1>2 DEF Past, Pipeline
<1>3. CASE ~(pipe.next = 1 /\ ~usable)
  <2>1. pipe.next + 1 \in 1..Len(RoleOrder) + 1
    BY <1>1
  <2>2. pipe.next # Len(RoleOrder) => pipe.next + 1 \in 1..Len(RoleOrder)
    BY <1>1
  <2> QED
    BY <1>3, <2>1, <2>2 DEF Past, Pipeline
<1> QED
  BY <1>2, <1>3

\* The part of a step of the pipeline that says where the pipeline is now.
PipeMoves ==
  /\ pipe # None
  /\ pipe' \in Pipeline /\ pipe'.swing = pipe.swing
  /\ pipe'.pc \in {"load", "read"} => pipe'.next \in 1..Len(RoleOrder)
  /\ UNCHANGED <<queue, consumer, job>>

LEMMA PipelineType ==
  ASSUME StoreTypeOK, WorkerTypeOK, Handshake,
         PipelineStep \/ PipelineRaise
  PROVE  WorkerTypeOK' /\ PipeMoves
<1>0. pipe # None /\ pipe \in Pipeline
  BY DEF PipelineStep, PipelineLoad, PipelineRead, PipelineWrite, PipelineRecord, PipelineLay,
         PipelineBeaten, PipelineRaise, At, WorkerTypeOK
<1>a. /\ pipe.swing \in Swings /\ pipe.inputs \in Inputs /\ pipe.gone \in SUBSET Roles
      /\ pipe.ok \in BOOLEAN
  BY <1>0 DEF Pipeline
<1>1. CASE PipelineLoad
  <2>1. manifest[pipe.swing] # None => manifest[pipe.swing].roles \in Inputs
    BY <1>a DEF StoreTypeOK, Manifest, Inputs
  <2>2. pipe.next \in 1..Len(RoleOrder) /\ pipe.pc = "load"
    BY <1>0, <1>1 DEF PipelineLoad, At, Handshake
  <2> QED
    BY <1>0, <1>1, <2>1, <2>2 DEF PipelineLoad, PipeMoves, WorkerTypeOK, Pipeline
<1>2. CASE PipelineRead
  <2> DEFINE s == pipe.swing
             r == RoleOrder[pipe.next]
             digest == pipe.inputs[r]
  <2>1. pipe.next \in 1..Len(RoleOrder)
    BY <1>2 DEF PipelineRead, At, Handshake
  <2>2. r \in Roles /\ digest \in Digests \cup {None}
    BY <1>a, <2>1, WorkerConstants, ElementOfSeq DEF Inputs
  <2>3. \E usable \in BOOLEAN, gone \in SUBSET Roles : pipe' = Past(usable, gone)
    BY <1>2, <1>a, <2>2 DEF PipelineRead
  <2>4. /\ pipe' \in Pipeline /\ pipe'.swing = pipe.swing
        /\ pipe'.pc \in {"load", "read"} => pipe'.next \in 1..Len(RoleOrder)
    BY <1>0, <2>1, <2>3, PastType
  <2>5. cache' \in [Swings -> Inputs] /\ shots' \subseteq Digests
    <3>1. \/ UNCHANGED <<cache, shots>>
          \/ digest # None /\ shots' = shots \cup {digest} /\ UNCHANGED cache
          \/ digest # None /\ cache' = [cache EXCEPT ![s][r] = digest] /\ UNCHANGED shots
      BY <1>2 DEF PipelineRead
    <3>2. CASE digest # None /\ cache' = [cache EXCEPT ![s][r] = digest] /\ UNCHANGED shots
      <4>1. [cache[s] EXCEPT ![r] = digest] \in Inputs
        BY <1>a, <2>2 DEF WorkerTypeOK, Inputs
      <4> QED
        BY <1>a, <3>2, <4>1 DEF WorkerTypeOK
    <3> QED
      BY <2>2, <3>1, <3>2 DEF WorkerTypeOK
  <2>6. UNCHANGED <<state, lost, analysis, queue, consumer, job>>
    BY <1>2 DEF PipelineRead
  <2> QED
    BY <1>0, <2>4, <2>5, <2>6 DEF PipeMoves, WorkerTypeOK
<1>3. CASE PipelineWrite
  <2>1. [inputs |-> pipe.inputs, gone |-> pipe.gone] \in Artifact
    BY <1>a DEF Artifact
  <2>2. analysis' \in [Swings -> Artifact \cup {None}]
    BY <1>3, <2>1 DEF PipelineWrite, WorkerTypeOK
  <2>3. pipe' \in Pipeline /\ pipe'.swing = pipe.swing /\ pipe'.pc \notin {"load", "read"}
    BY <1>0, <1>3 DEF PipelineWrite, Pipeline
  <2>4. UNCHANGED <<state, lost, cache, shots, queue, consumer, job>>
    BY <1>3 DEF PipelineWrite
  <2> QED
    BY <1>0, <2>2, <2>3, <2>4 DEF PipeMoves, WorkerTypeOK
<1>4. CASE PipelineRecord
  <2>1. state' \in [Swings -> Sidecar \cup {None}]
    BY <1>4, <1>a, SaveStateType DEF PipelineRecord, WorkerTypeOK
  <2>2. pipe' \in Pipeline /\ pipe'.swing = pipe.swing /\ pipe'.pc \notin {"load", "read"}
    BY <1>0, <1>4 DEF PipelineRecord, Pipeline
  <2>3. UNCHANGED <<lost, analysis, cache, shots, queue, consumer, job>>
    BY <1>4 DEF PipelineRecord
  <2> QED
    BY <1>0, <2>1, <2>2, <2>3 DEF PipeMoves, WorkerTypeOK
<1>5. CASE PipelineRaise \/ PipelineBeaten
  <2>1. pipe' \in Pipeline /\ pipe'.swing = pipe.swing /\ pipe'.pc \notin {"load", "read"}
    BY <1>0, <1>5 DEF PipelineRaise, PipelineBeaten, Pipeline
  <2>2. UNCHANGED <<state, lost, analysis, cache, shots, queue, consumer, job>>
    BY <1>5 DEF PipelineRaise, PipelineBeaten
  <2> QED
    BY <1>0, <2>1, <2>2 DEF PipeMoves, WorkerTypeOK
<1>6. CASE PipelineLay
  <2>1. state' \in [Swings -> Sidecar \cup {None}]
    BY <1>0, <1>6, <1>a, RunTextType DEF PipelineLay, Published, WorkerTypeOK
  <2>2. pipe' \in Pipeline /\ pipe'.swing = pipe.swing /\ pipe'.pc \notin {"load", "read"}
    BY <1>0, <1>6 DEF PipelineLay, Pipeline
  <2>3. UNCHANGED <<lost, analysis, cache, shots, queue, consumer, job>>
    BY <1>6 DEF PipelineLay
  <2> QED
    BY <1>0, <2>1, <2>2, <2>3 DEF PipeMoves, WorkerTypeOK
<1> QED
  BY <1>1, <1>2, <1>3, <1>4, <1>5, <1>6 DEF PipelineStep

LEMMA QueueHead ==
  ASSUME WorkerTypeOK, AtQueue
  PROVE  Head(queue) \in Job \cup {None} /\ Tail(queue) \in Seq(Job \cup {None})
BY HeadTailProperties DEF WorkerTypeOK, AtQueue

LEMMA TakeType ==
  ASSUME StoreTypeOK, WorkerTypeOK, Handshake, Take
  PROVE  WorkerTypeOK' /\ Handshake'
<1> DEFINE s == Head(queue).swing
<1>1. AtQueue /\ Head(queue) # None /\ ~NothingToDo(Head(queue))
  BY DEF Take
<1>2. s \in Swings
  BY <1>1, QueueHead DEF Job
<1>3. manifest[s] \in Manifest
  BY <1>1, <1>2 DEF NothingToDo, StoreTypeOK
<1>4. manifest[s].roles \in Inputs /\ manifest[s].updated \in 0..MaxWrites
  BY <1>3 DEF Manifest, Inputs
<1>5. /\ job' = [swing |-> s, seen |-> manifest[s].updated, inputs |-> manifest[s].roles]
      /\ pipe' = Begun(s)
      /\ Saves(s, "running", manifest[s].roles)
      /\ queue' = Tail(queue) /\ consumer' = "awaiting"
      /\ UNCHANGED <<analysis, cache, shots>>
  BY DEF Take
<1> HIDE DEF s
<1>6. job' \in Run /\ job'.swing = s
  BY <1>2, <1>4, <1>5 DEF Run
<1>7. pipe' \in Pipeline /\ pipe'.swing = s /\ pipe'.next \in 1..Len(RoleOrder)
  BY <1>2, <1>5, BegunType
<1>8. state' \in [Swings -> Sidecar \cup {None}] /\ lost' \subseteq Swings
  BY <1>2, <1>4, <1>5, SaveStateType DEF Saves, WorkerTypeOK
<1>9. queue' \in Seq(Job \cup {None})
  BY <1>1, <1>5, QueueHead
<1>10. WorkerTypeOK'
  BY <1>5, <1>6, <1>7, <1>8, <1>9 DEF WorkerTypeOK
<1>11. job' # None /\ pipe' # None
  BY <1>6, <1>7, WorkerConstants
<1> QED
  BY <1>5, <1>6, <1>7, <1>10, <1>11 DEF Handshake

LEMMA ResumeType ==
  ASSUME StoreTypeOK, WorkerTypeOK, Handshake, ResumeReturned \/ ResumeRaised
  PROVE  WorkerTypeOK' /\ Handshake'
<1>1. /\ consumer' = "looping" /\ job' = None /\ pipe' = None
      /\ UNCHANGED <<analysis, cache, shots>>
      /\ job \in Run
  BY DEF ResumeReturned, ResumeRaised, RunEnds, Handshake, WorkerTypeOK
<1>2. job.swing \in Swings /\ job.inputs \in Inputs
  BY <1>1 DEF Run
<1>3. /\ state' \in [Swings -> Sidecar \cup {None}] /\ lost' \subseteq Swings
      /\ queue' \in Seq(Job \cup {None})
  <2>1. CASE ResumeReturned
    <3>1. \/ Submit(job.swing, TRUE, manifest[job.swing])
          \/ UNCHANGED <<state, lost, queue>>
      BY <2>1 DEF ResumeReturned
    <3>2. manifest[job.swing] \in Manifest \cup {None}
      BY <1>2 DEF StoreTypeOK
    <3> QED
      BY <1>2, <3>1, <3>2, SubmitType DEF WorkerTypeOK
  <2>2. CASE ResumeRaised
    BY <1>2, <2>2, SaveStateType DEF ResumeRaised, Saves, SaveRaises, WorkerTypeOK
  <2> QED
    BY <2>1, <2>2
<1>4. WorkerTypeOK'
  BY <1>1, <1>3 DEF WorkerTypeOK
<1> QED
  BY <1>1, <1>4 DEF Handshake

LEMMA ConsumeType ==
  ASSUME StoreTypeOK, WorkerTypeOK, Handshake, Consume
  PROVE  WorkerTypeOK' /\ Handshake'
<1>1. CASE Drop
  BY <1>1, QueueHead DEF Drop, AtQueue, WorkerTypeOK, Handshake
<1>2. CASE TakeSentinel
  BY <1>2, QueueHead DEF TakeSentinel, AtQueue, WorkerTypeOK, Handshake
<1>3. CASE Park
  BY <1>3 DEF Park, WorkerTypeOK, Handshake
<1>4. CASE TakeRaises
  <2>1. Head(queue).swing \in Swings
    BY <1>4, QueueHead DEF TakeRaises, Job
  <2> QED
    BY <1>4, <2>1, QueueHead DEF TakeRaises, SaveRaises, AtQueue, WorkerTypeOK, Handshake
<1> QED
  BY <1>1, <1>2, <1>3, <1>4, TakeType, ResumeType DEF Consume

LEMMA SwingsFinite == IsFiniteSet(Swings)
<1>1. IsFiniteSet(Days) /\ IsFiniteSet(Ids)
  BY FS_Interval, StoreConstants DEF Days, Ids
<1> QED
  BY <1>1, FS_Product DEF Swings

LEMMA RecoveredText ==
  ASSUME StoreTypeOK, NEW s \in Recovered
  PROVE  s \in Swings /\ Text("queued", manifest[s].roles, {}) \in Sidecar
<1>1. s \in Swings /\ manifest[s].roles \in Inputs
  BY DEF Recovered, StoreTypeOK, Manifest, Inputs
<1> QED
  BY <1>1, TextTypes

LEMMA StartType ==
  ASSUME StoreTypeOK, WorkerTypeOK, Handshake, Start
  PROVE  WorkerTypeOK' /\ Handshake'
<1>1. Recovered \subseteq Swings /\ Cardinality(Recovered) \in Nat
  BY SwingsFinite, FS_Subset, FS_CardinalityType DEF Recovered
<1>2. PICK order \in [1..Cardinality(Recovered) -> Recovered] :
        queue' = [i \in DOMAIN order |-> [swing |-> order[i], force |-> Orphaned(order[i])]]
  BY DEF Start
<1>3. \A i \in DOMAIN order : [swing |-> order[i], force |-> Orphaned(order[i])] \in Job
  BY <1>1, <1>2 DEF Job, Orphaned, Pending
<1>4. queue' \in [1..Cardinality(Recovered) -> Job \cup {None}]
  BY <1>2, <1>3
<1>5. queue' \in Seq(Job \cup {None})
  BY <1>1, <1>4, SeqDef
<1>6. state' \in [Swings -> Sidecar \cup {None}] /\ lost' \subseteq Swings
  BY RecoveredText DEF Start, SavesBefore, WorkerTypeOK
<1>7. /\ consumer = "none" /\ consumer' = "parked"
      /\ UNCHANGED <<analysis, cache, shots, job, pipe>>
  BY DEF Start
<1> QED
  BY <1>5, <1>6, <1>7 DEF WorkerTypeOK, Handshake

LEMMA StartRaisesType ==
  ASSUME StoreTypeOK, WorkerTypeOK, Handshake, StartRaises
  PROVE  WorkerTypeOK' /\ Handshake'
<1>1. state' \in [Swings -> Sidecar \cup {None}] /\ lost' \subseteq Swings
  BY RecoveredText DEF StartRaises, SavesBefore, WorkerTypeOK
<1>2. UNCHANGED <<analysis, cache, shots, queue, consumer, job, pipe>>
  BY DEF StartRaises
<1> QED
  BY <1>1, <1>2 DEF WorkerTypeOK, Handshake

LEMMA ProcessGoneType ==
  ASSUME WorkerTypeOK, ProcessGone
  PROVE  WorkerTypeOK' /\ Handshake'
<1>1. <<>> \in Seq(Job \cup {None})
  BY EmptySeq
<1> QED
  BY <1>1 DEF ProcessGone, WorkerTypeOK, Handshake

-----------------------------------------------------------------------------
(* The server. *)

LEMMA TypedInit == Init => TypedRun
<1> SUFFICES ASSUME Init PROVE TypedRun
  OBVIOUS
<1>1. StoreTypeOK
  BY StoreConstants DEF Init, IngestInit, StoreInit, StoreTypeOK, Days
<1>2. IngestTypeOK
  BY <1>1 DEF Init, IngestInit, IngestTypeOK, Cursors
<1>3. Nothing \in Inputs /\ <<>> \in Seq(Job \cup {None})
  BY EmptySeq DEF Nothing, Inputs
<1>4. WorkerTypeOK /\ Handshake
  BY <1>3 DEF Init, WorkerInit, WorkerTypeOK, Handshake
<1>5. server \in {"down", "up", "stopping"} /\ crashes \in 0..MaxCrashes
  BY ServerConstants DEF Init
<1> QED
  BY <1>2, <1>4, <1>5 DEF TypedRun, TypeOK

LEMMA UploadLandsType ==
  ASSUME TypedRun, NEW p \in Phones, UploadLands(p)
  PROVE  TypedRun'
<1> DEFINE u == uploads[p]
           s == Slot(u.day, u.role, u.digest, u.target)
<1>1. IngestTypeOK' /\ UNCHANGED <<server, crashes>>
  BY UploadFinishType DEF UploadLands, Serving, TypedRun, TypeOK
<1>2. UNCHANGED <<analysis, cache, shots, consumer, job>>
  BY DEF UploadLands
<1>3. /\ state' \in [Swings -> Sidecar \cup {None}] /\ lost' \subseteq Swings
      /\ queue' \in Seq(Job \cup {None}) /\ (UNCHANGED pipe \/ BesideRun(s))
  <2>1. CASE UNCHANGED <<state, lost, queue, pipe>>
    BY <2>1 DEF TypedRun, TypeOK, WorkerTypeOK
  <2>2. CASE SubmitBesideRun(s, FALSE, manifest'[s])
    <3>1. s \in Swings
      BY SlotType DEF UploadLands, UploadFinish, Land
    <3>2. manifest'[s] \in Manifest \cup {None}
      BY <1>1, <3>1 DEF IngestTypeOK, StoreTypeOK
    <3> QED
      BY <2>2, <3>1, <3>2, BesideType DEF TypedRun, TypeOK
  <2> QED
    BY <2>1, <2>2 DEF UploadLands
<1>4. WorkerTypeOK' /\ Handshake'
  BY <1>2, <1>3, BesideHandshake DEF TypedRun, TypeOK, WorkerTypeOK, BesideRun
<1> QED
  BY <1>1, <1>4 DEF TypedRun, TypeOK

LEMMA RoutesType ==
  ASSUME TypedRun,
         \/ \E p \in Phones, r \in Roles, digest \in Digests, target \in Targets :
              UploadBegins(p, r, digest, target)
         \/ \E p \in Phones : UploadFails(p)
         \/ EditCursorsOrTags
         \/ DayGoesBy
  PROVE  TypedRun'
<1>0. IngestTypeOK /\ StoreTypeOK
  BY DEF TypedRun, TypeOK, IngestTypeOK
<1>1. UNCHANGED <<workerVars, server, crashes>>
  BY DEF UploadBegins, UploadFails, EditCursorsOrTags, DayGoesBy, Serving
<1>2. WorkerTypeOK' /\ Handshake'
  BY <1>1 DEF workerVars, TypedRun, TypeOK, WorkerTypeOK, Handshake
<1>3. IngestTypeOK'
  <2>1. CASE DayGoesBy
    BY <1>0, <2>1, MidnightType DEF DayGoesBy, DayPasses, IngestTypeOK
  <2> QED
    BY <1>0, <2>1, UploadStartType, UploadAbortType, EditType, EditsAreIngests DEF UploadBegins, UploadFails
<1> QED
  BY <1>1, <1>2, <1>3 DEF TypedRun, TypeOK

LEMMA AnalyzeType ==
  ASSUME TypedRun, NEW s \in Swings, AnalyzeSwing(s)
  PROVE  TypedRun'
<1>1. IngestTypeOK'
  BY DEF AnalyzeSwing, ingestVars, TypedRun, TypeOK, IngestTypeOK, StoreTypeOK
<1>2. manifest[s] \in Manifest \cup {None}
  BY DEF TypedRun, TypeOK, IngestTypeOK, StoreTypeOK
<1>3. /\ state' \in [Swings -> Sidecar \cup {None}] /\ lost' \subseteq Swings
      /\ queue' \in Seq(Job \cup {None}) /\ (UNCHANGED pipe \/ BesideRun(s))
  BY <1>2, BesideType DEF AnalyzeSwing, TypedRun, TypeOK
<1>4. UNCHANGED <<analysis, cache, shots, consumer, job, server, crashes>>
  BY DEF AnalyzeSwing, Serving
<1>5. WorkerTypeOK' /\ Handshake'
  BY <1>3, <1>4, BesideHandshake DEF TypedRun, TypeOK, WorkerTypeOK, BesideRun
<1> QED
  BY <1>1, <1>4, <1>5 DEF TypedRun, TypeOK

LEMMA DeleteType ==
  ASSUME TypedRun, NEW s \in Swings, Delete(s)
  PROVE  TypedRun'
<1>1. StoreTypeOK /\ IngestTypeOK /\ WorkerTypeOK
  BY DEF TypedRun, TypeOK, IngestTypeOK
<1>2. IngestTypeOK'
  BY <1>1, DeleteSwingType DEF Delete, IngestTypeOK
<1>3. UNCHANGED <<shots, queue, consumer, job, server, crashes>>
  BY DEF Delete, ForgetSwing, Serving
<1>4. Nothing \in Inputs
  BY DEF Nothing, Inputs
<1>5. /\ state' \in [Swings -> Sidecar \cup {None}]
      /\ analysis' \in [Swings -> Artifact \cup {None}]
      /\ cache' \in [Swings -> Inputs] /\ lost' \subseteq Swings
      /\ UNCHANGED pipe \/ BesideRun(s)
  BY <1>1, <1>4, OutrunMoves DEF Delete, ForgetSwing, WorkerTypeOK
<1>6. WorkerTypeOK' /\ Handshake'
  BY <1>1, <1>3, <1>5, BesideHandshake DEF WorkerTypeOK, TypedRun, BesideRun
<1> QED
  BY <1>2, <1>3, <1>6 DEF TypedRun, TypeOK

LEMMA LifespanType ==
  ASSUME TypedRun, ServerStarts \/ ServerStartRaises \/ ServerStops \/ ServerStopped
  PROVE  TypedRun'
<1>1. UNCHANGED <<ingestVars, crashes>> /\ server' \in {"down", "up", "stopping"}
  BY DEF ServerStarts, ServerStartRaises, ServerStops, ServerStopped, TypedRun, TypeOK
<1>2. IngestTypeOK' /\ crashes' \in 0..MaxCrashes
  BY <1>1 DEF ingestVars, TypedRun, TypeOK, IngestTypeOK, StoreTypeOK
<1>3. StoreTypeOK /\ WorkerTypeOK /\ Handshake
  BY DEF TypedRun, TypeOK, IngestTypeOK
<1>4. WorkerTypeOK' /\ Handshake'
  <2>1. CASE ServerStops
    BY <1>3, <2>1 DEF ServerStops, Stop, WorkerTypeOK, Handshake
  <2> QED
    BY <1>3, <2>1, StartType, StartRaisesType, ProcessGoneType DEF ServerStarts, ServerStartRaises,
       ServerStopped
<1> QED
  BY <1>1, <1>2, <1>4 DEF TypedRun, TypeOK

LEMMA DeathType ==
  ASSUME TypedRun, ServerDies \/ \E p \in Phones : ServerDiesLanding(p)
  PROVE  TypedRun'
<1>1. Dies /\ IngestTypeOK /\ WorkerTypeOK
  BY DEF ServerDies, ServerDiesLanding, TypedRun, TypeOK
<1>2. IngestTypeOK'
  BY <1>1, CrashBetweenType, CrashDuringType DEF ServerDies, ServerDiesLanding
<1>3. server' \in {"down", "up", "stopping"} /\ crashes' \in 0..MaxCrashes
  BY <1>1, ServerConstants DEF Dies, TypedRun, TypeOK
<1> QED
  BY <1>1, <1>2, <1>3, ProcessGoneType DEF Dies, TypedRun, TypeOK

LEMMA WorkerStepsType ==
  ASSUME TypedRun, WorkerSteps
  PROVE  TypedRun'
<1>1. UNCHANGED <<ingestVars, server, crashes>>
  BY DEF WorkerSteps
<1>2. IngestTypeOK'
  BY <1>1 DEF ingestVars, TypedRun, TypeOK, IngestTypeOK, StoreTypeOK
<1>3. StoreTypeOK /\ WorkerTypeOK /\ Handshake
  BY DEF TypedRun, TypeOK, IngestTypeOK
<1>4. CASE Consume
  BY <1>1, <1>2, <1>3, <1>4, ConsumeType DEF TypedRun, TypeOK
<1>5. CASE PipelineStep \/ PipelineRaise
  <2>1. WorkerTypeOK' /\ PipeMoves
    BY <1>3, <1>5, PipelineType
  <2>2. pipe' # None
    BY <2>1, WorkerConstants DEF PipeMoves
  <2>3. Handshake'
    BY <1>3, <2>1, <2>2 DEF PipeMoves, Handshake
  <2> QED
    BY <1>1, <1>2, <2>1, <2>3 DEF TypedRun, TypeOK
<1> QED
  BY <1>4, <1>5 DEF WorkerSteps

LEMMA TypedStutter ==
  ASSUME TypedRun, UNCHANGED vars
  PROVE  TypedRun'
BY DEF TypedRun, TypeOK, IngestTypeOK, StoreTypeOK, WorkerTypeOK, Handshake,
       vars, ingestVars, workerVars

LEMMA TypedNext == TypedRun /\ [Next]_vars => TypedRun'
<1> SUFFICES ASSUME TypedRun, [Next]_vars PROVE TypedRun'
  OBVIOUS
<1>1. CASE UNCHANGED vars
  BY <1>1, TypedStutter
<1>2. CASE Next
  BY <1>2, RoutesType, UploadLandsType, AnalyzeType, DeleteType, LifespanType, DeathType,
     WorkerStepsType DEF Next
<1> QED
  BY <1>1, <1>2

\* Every variable of the server keeps its type, in every behaviour and for every
\* value of the constants: no manifest, sidecar, queue entry or run is ever a
\* half-built one (create_app, and all that it calls).
THEOREM TypeCorrect == Spec => []TypeOK
<1>1. TypedRun => TypeOK
  BY DEF TypedRun
<1> QED
  BY <1>1, TypedInit, TypedNext, PTL DEF Spec

-----------------------------------------------------------------------------
(* The ledger. *)

PendingIsBundled == \A s \in Swings : Pending(s) => manifest[s] # None

NothingAhead ==
  /\ \A s \in Swings : manifest[s] # None => s[1] <= today
  /\ \A p \in Phones : uploads[p] # None => uploads[p].day <= today

ReturnedIsSettled ==
  At("returned") /\ Pending(pipe.swing) => Queued(pipe.swing) \/ pipe.swing \in lost

Ledger ==
  /\ TypedRun
  /\ RunIsMarked /\ PendingIsBundled /\ NothingAhead /\ ReturnedIsSettled /\ PendingIsOwned

-----------------------------------------------------------------------------
(* The queue. *)

LEMMA QueuedAppend ==
  ASSUME queue \in Seq(Job \cup {None}), NEW e \in Job \cup {None}, queue' = Append(queue, e)
  PROVE  /\ \A s : Queued(s) => Queued(s)'
         /\ e # None => Queued(e.swing)'
<1>1. Len(queue') = Len(queue) + 1 /\ Len(queue) \in Nat
  BY LenProperties
<1>2. \A i \in 1..Len(queue) : i \in 1..Len(queue') /\ queue'[i] = queue[i]
  BY <1>1
<1>3. queue'[Len(queue')] = e /\ Len(queue') \in 1..Len(queue')
  BY <1>1
<1> QED
  BY <1>2, <1>3 DEF Queued

LEMMA QueuedTail ==
  ASSUME queue \in Seq(Job \cup {None}), queue # <<>>, queue' = Tail(queue)
  PROVE  \A s : Queued(s) => Queued(s)' \/ (Head(queue) # None /\ Head(queue).swing = s)
<1> SUFFICES ASSUME NEW s, Queued(s), ~(Head(queue) # None /\ Head(queue).swing = s)
             PROVE  Queued(s)'
  OBVIOUS
<1>1. PICK i \in 1..Len(queue) : queue[i] # None /\ queue[i].swing = s
  BY DEF Queued
<1>2. i # 1
  BY <1>1
<1>3. Len(queue) \in Nat /\ Len(Tail(queue)) = Len(queue) - 1
      /\ \A k \in 1..Len(Tail(queue)) : Tail(queue)[k] = queue[k + 1]
  BY LenProperties, HeadTailProperties
<1>4. i - 1 \in 1..Len(queue') /\ queue'[i - 1] = queue[i]
  BY <1>2, <1>3
<1> QED
  BY <1>1, <1>4 DEF Queued

\* submit only adds: a job to the queue, and the mark of the swing it is for.
LEMMA SubmitAdds ==
  ASSUME WorkerTypeOK, NEW s \in Swings, NEW force \in BOOLEAN,
         NEW m \in Manifest \cup {None}, Submit(s, force, m)
  PROVE  /\ \A t \in Swings : Queued(t) => Queued(t)'
         /\ \A t \in Swings : t \in lost => t \in lost' \/ Queued(t)'
         /\ \A t \in Swings : Pending(t) => Pending(t)'
         /\ \A t \in Swings : Pending(t)' => Pending(t) \/ (t = s /\ m # None /\ Queued(t)')
<1>1. CASE Refused(s, force, m)
  BY <1>1 DEF Submit, Queued, Pending, Status
<1>2. CASE ~Refused(s, force, m) /\ Saves(s, "queued", m.roles) /\ Put(s, force)
  <2>1. /\ SaveState(s, "queued", m.roles, {}) /\ m # None /\ lost' = lost \ {s}
        /\ queue' = Append(queue, [swing |-> s, force |-> force])
    BY <1>2 DEF Refused, Saves, Put
  <2>2. [swing |-> s, force |-> force] \in Job
    BY DEF Job
  <2>3. /\ \A t \in Swings : Queued(t) => Queued(t)'
        /\ Queued(s)'
    BY <2>1, <2>2, QueuedAppend, WorkerConstants DEF WorkerTypeOK
  <2>4. Text("queued", m.roles, {}) \in Sidecar
    BY <1>2, TextTypes DEF Refused, Manifest, Inputs
  <2>5. /\ Pending(s)'
        /\ \A t \in Swings : t # s => state'[t] = state[t]
    BY <2>1, <2>4, WorkerConstants DEF SaveState, Text, WorkerTypeOK, Pending, Status
  <2> QED
    BY <2>1, <2>3, <2>5 DEF Pending, Status
<1>3. CASE SaveRaises(s) /\ UNCHANGED queue
  BY <1>3 DEF SaveRaises, Queued, Pending, Status
<1> QED
  BY <1>1, <1>2, <1>3 DEF Submit

LEMMA PutAdds ==
  ASSUME WorkerTypeOK, NEW s \in Swings, NEW force \in BOOLEAN, Put(s, force)
  PROVE  Queued(s)' /\ \A t \in Swings : Queued(t) => Queued(t)'
<1>1. [swing |-> s, force |-> force] \in Job
  BY DEF Job
<1> QED
  BY <1>1, QueuedAppend, WorkerConstants DEF Put, WorkerTypeOK

\* So does one that crosses with the record of a run of its swing, but for the mark:
\* what it leaves pending has a job, or has lost the save that should have told of it.
LEMMA BesideAdds ==
  ASSUME WorkerTypeOK, NEW s \in Swings, NEW force \in BOOLEAN,
         NEW m \in Manifest \cup {None}, SubmitBesideRun(s, force, m)
  PROVE  /\ \A t \in Swings : Queued(t) => Queued(t)'
         /\ \A t \in Swings : t \in lost => t \in lost' \/ Queued(t)'
         /\ UNCHANGED pipe => \A t \in Swings : Pending(t) => Pending(t)'
         /\ \A t \in Swings :
              Pending(t)' => Pending(t) \/ (t = s /\ m # None /\ (Queued(t)' \/ t \in lost'))
         /\ UNCHANGED pipe \/ BesideRun(s)
<1>1. UNCHANGED pipe \/ BesideRun(s)
  BY BesideType
<1>2. CASE Submit(s, force, m)
  BY <1>1, <1>2, SubmitAdds
<1>3. CASE /\ ~Refused(s, force, m) /\ pipe # None /\ pipe.swing = s
           /\ ThreadRenamesFirst(s, m) \/ LoopRenamesFirst(s, force, m)
  <2>1. pipe \in Pipeline /\ m # None
    BY <1>3 DEF WorkerTypeOK, Refused
  <2>2. pipe' # pipe
    BY <1>3, <2>1 DEF ThreadRenamesFirst, LoopRenamesFirst, Pipeline
  <2>3. \A t \in Swings : t # s => state'[t] = state[t]
    BY <1>3 DEF ThreadRenamesFirst, LoopRenamesFirst, Published, WorkerTypeOK
  <2>4. CASE ThreadRenamesFirst(s, m)
    BY <1>1, <2>1, <2>2, <2>3, <2>4 DEF ThreadRenamesFirst, Queued, Pending, Status
  <2>5. CASE LoopRenamesFirst(s, force, m)
    <3>1. /\ lost' = lost \ {s}
          /\ Queued(s)' /\ \A t \in Swings : Queued(t) => Queued(t)'
      BY <2>5, PutAdds DEF LoopRenamesFirst
    <3> QED
      BY <1>1, <2>1, <2>2, <2>3, <3>1 DEF Pending, Status
  <2> QED
    BY <1>3, <2>4, <2>5
<1> QED
  BY <1>2, <1>3 DEF SubmitBesideRun

\* A sidecar that is written says what is written, and no other changes.
LEMMA SaveStateSays ==
  ASSUME state \in [Swings -> Sidecar \cup {None}], NEW s \in Swings,
         NEW status \in {"queued", "running", "done", "failed"}, NEW inputs \in Inputs,
         NEW gone \in SUBSET Roles, SaveState(s, status, inputs, gone)
  PROVE  /\ Pending(s)' <=> status \in {"queued", "running"}
         /\ \A t \in Swings \ {s} : Pending(t)' <=> Pending(t)
<1>1. Text(status, inputs, gone) \in Sidecar /\ Text(status, inputs, gone).status = status
  BY DEF Text, Sidecar
<1> QED
  BY <1>1, WorkerConstants DEF SaveState, Pending, Status

-----------------------------------------------------------------------------
(* The routes. *)

LEMMA UploadLandsLedger ==
  ASSUME Ledger, NEW p \in Phones, UploadLands(p)
  PROVE  Ledger'
<1> DEFINE u == uploads[p]
           s == Slot(u.day, u.role, u.digest, u.target)
<1>1. TypedRun'
  BY UploadLandsType DEF Ledger
<1>2. StoreTypeOK /\ IngestTypeOK /\ WorkerTypeOK
  BY DEF Ledger, TypedRun, TypeOK, IngestTypeOK
<1>3. /\ Assign(u.day, u.role, u.digest, u.target, u.player, u.club)
      /\ u # None /\ uploads' = [uploads EXCEPT ![p] = None]
      /\ UNCHANGED <<consumer, job, server>>
      /\ SubmitBesideRun(s, FALSE, manifest'[s]) \/ UNCHANGED <<state, lost, queue, pipe>>
  BY DEF UploadLands, UploadFinish, Land, Serving
<1>4. /\ \A t \in Swings : manifest[t] # None => manifest'[t] # None
      /\ \A t \in Swings : manifest'[t] # None => manifest[t] # None \/ t[1] = u.day
      /\ today' = today
  BY <1>2, <1>3, UploadType, AssignAdds
<1>5. s \in Swings /\ manifest'[s] \in Manifest \cup {None}
  BY <1>1, <1>3, SlotType DEF TypedRun, TypeOK, IngestTypeOK, StoreTypeOK
<1> HIDE DEF s
<1>6. /\ \A t \in Swings : Queued(t) => Queued(t)'
      /\ \A t \in Swings : t \in lost => t \in lost' \/ Queued(t)'
      /\ UNCHANGED pipe => \A t \in Swings : Pending(t) => Pending(t)'
      /\ \A t \in Swings :
           Pending(t)' => Pending(t) \/ (manifest'[t] # None /\ (Queued(t)' \/ t \in lost'))
      /\ UNCHANGED pipe \/ BesideRun(s)
  <2>1. CASE UNCHANGED <<state, lost, queue, pipe>>
    BY <2>1 DEF Queued, Pending, Status
  <2> QED
    BY <1>2, <1>3, <1>5, <2>1, BesideAdds
<1>7. PendingIsBundled'
  BY <1>4, <1>6 DEF Ledger, PendingIsBundled
<1>8. NothingAhead'
  <2>1. u.day <= today
    BY <1>3 DEF Ledger, NothingAhead
  <2>2. \A t \in Swings : manifest'[t] # None => t[1] <= today'
    BY <1>4, <2>1 DEF Ledger, NothingAhead
  <2>3. \A q \in Phones : uploads'[q] # None => uploads'[q].day <= today'
    BY <1>2, <1>3, <1>4 DEF Ledger, NothingAhead, IngestTypeOK
  <2> QED
    BY <2>2, <2>3 DEF NothingAhead
<1>9. pipe # None => pipe.swing \in Swings
  BY <1>2 DEF WorkerTypeOK, Pipeline
<1>10. RunIsMarked'
  BY <1>3, <1>6, <1>9 DEF Ledger, RunIsMarked, Working, BesideRun
<1>11. ReturnedIsSettled'
  BY <1>3, <1>6, <1>9 DEF Ledger, ReturnedIsSettled, At, BesideRun
<1>12. PendingIsOwned'
  BY <1>3, <1>4, <1>6 DEF Ledger, PendingIsOwned, Owned
<1> QED
  BY <1>1, <1>7, <1>8, <1>10, <1>11, <1>12 DEF Ledger

\* A route that leaves the worker alone, and the set of swings as it is.
LEMMA QuietLedger ==
  ASSUME Ledger, TypedRun', UNCHANGED <<workerVars, server, today>>,
         \A t \in Swings : manifest'[t] # None <=> manifest[t] # None,
         \A p \in Phones : uploads'[p] # None => uploads'[p].day <= today
  PROVE  Ledger'
<1>1. /\ \A t : Queued(t)' <=> Queued(t)
      /\ \A t : Pending(t)' <=> Pending(t)
      /\ Working' <=> Working
      /\ At("returned")' <=> At("returned")
  BY DEF workerVars, Queued, Pending, Status, Working, At
<1>2. UNCHANGED <<lost, pipe, job, server, today>>
  BY DEF workerVars
<1>3. PendingIsBundled' /\ NothingAhead'
  BY <1>1, <1>2 DEF Ledger, PendingIsBundled, NothingAhead
<1>4. RunIsMarked' /\ ReturnedIsSettled'
  BY <1>1, <1>2 DEF Ledger, RunIsMarked, ReturnedIsSettled
<1>5. PendingIsOwned'
  BY <1>1, <1>2 DEF Ledger, PendingIsOwned, Owned
<1> QED
  BY <1>3, <1>4, <1>5 DEF Ledger

LEMMA QuietRoutesLedger ==
  ASSUME Ledger,
         \/ \E p \in Phones, r \in Roles, digest \in Digests, target \in Targets :
              UploadBegins(p, r, digest, target)
         \/ \E p \in Phones : UploadFails(p)
         \/ EditCursorsOrTags
  PROVE  Ledger'
<1>0. TypedRun /\ StoreTypeOK /\ IngestTypeOK
  BY DEF Ledger, TypedRun, TypeOK, IngestTypeOK
<1>1. TypedRun' /\ UNCHANGED <<workerVars, server>>
  BY <1>0, RoutesType DEF UploadBegins, UploadFails, EditCursorsOrTags, Serving
<1>2. CASE EditCursorsOrTags
  <2>1. UNCHANGED <<uploads, today>>
    BY <1>2, EditsStay
  <2>2. \A p \in Phones : uploads'[p] # None => uploads'[p].day <= today
    BY <2>1 DEF Ledger, NothingAhead
  <2> QED
    BY <1>0, <1>1, <1>2, <2>1, <2>2, EditsAreIngests, EditKeepsSwings, QuietLedger
<1>3. ASSUME NEW p \in Phones, UploadFails(p)
      PROVE  Ledger'
  <2>1. UNCHANGED <<manifest, today>> /\ uploads' = [uploads EXCEPT ![p] = None]
    BY <1>3 DEF UploadFails, UploadAbort
  <2>2. \A q \in Phones : uploads'[q] # None => uploads'[q].day <= today
    BY <1>0, <2>1 DEF Ledger, NothingAhead, IngestTypeOK
  <2> QED
    BY <1>1, <2>1, <2>2, QuietLedger
<1>4. ASSUME NEW p \in Phones, NEW r \in Roles, NEW digest \in Digests, NEW target \in Targets,
             UploadBegins(p, r, digest, target)
      PROVE  Ledger'
  <2>1. /\ UNCHANGED <<manifest, today>>
        /\ \E u : u.day = today /\ uploads' = [uploads EXCEPT ![p] = u]
    BY <1>4 DEF UploadBegins, UploadStart
  <2>2. today <= today
    BY <1>0, StoreConstants DEF StoreTypeOK, Days
  <2>3. \A q \in Phones : uploads'[q] # None => uploads'[q].day <= today
    BY <1>0, <2>1, <2>2 DEF Ledger, NothingAhead, IngestTypeOK
  <2> QED
    BY <1>1, <2>1, <2>3, QuietLedger
<1> QED
  BY <1>2, <1>3, <1>4

\* The date moves on: what is pending is yesterday's by then.
LEMMA DayLedger ==
  ASSUME Ledger, DayGoesBy
  PROVE  Ledger'
<1>1. TypedRun' /\ UNCHANGED <<workerVars, server, manifest, uploads>> /\ today' = today + 1
  BY RoutesType DEF Ledger, DayGoesBy, DayPasses, Midnight
<1>2. /\ \A t : Queued(t)' <=> Queued(t)
      /\ \A t : Pending(t)' <=> Pending(t)
      /\ Working' <=> Working
      /\ At("returned")' <=> At("returned")
      /\ UNCHANGED <<lost, pipe, job>>
  BY <1>1 DEF workerVars, Queued, Pending, Status, Working, At
<1>3. PendingIsBundled' /\ RunIsMarked' /\ ReturnedIsSettled'
  BY <1>1, <1>2 DEF Ledger, PendingIsBundled, RunIsMarked, ReturnedIsSettled
<1>4. today \in Nat /\ \A t \in Swings : t[1] \in Nat
  BY StoreConstants DEF Ledger, TypedRun, TypeOK, IngestTypeOK, StoreTypeOK, Days, Swings
<1>5. \A p \in Phones : uploads[p] # None => uploads[p].day \in Nat
  BY UploadType, StoreConstants DEF Ledger, TypedRun, TypeOK, Days
<1>6. NothingAhead'
  BY <1>1, <1>4, <1>5 DEF Ledger, NothingAhead
<1>7. \A t \in Swings : Pending(t) => t[1] # today'
  BY <1>1, <1>4 DEF Ledger, NothingAhead, PendingIsBundled
<1>8. PendingIsOwned'
  BY <1>2, <1>7 DEF PendingIsOwned
<1> QED
  BY <1>1, <1>3, <1>6, <1>8 DEF Ledger

LEMMA AnalyzeLedger ==
  ASSUME Ledger, NEW s \in Swings, AnalyzeSwing(s)
  PROVE  Ledger'
<1>1. TypedRun' /\ WorkerTypeOK /\ manifest[s] \in Manifest \cup {None}
  BY AnalyzeType DEF Ledger, TypedRun, TypeOK, IngestTypeOK, StoreTypeOK
<1>2. /\ SubmitBesideRun(s, TRUE, manifest[s])
      /\ UNCHANGED <<manifest, today, uploads, consumer, job, server>>
  BY DEF AnalyzeSwing, Serving, ingestVars
<1>3. /\ \A t \in Swings : Queued(t) => Queued(t)'
      /\ \A t \in Swings : t \in lost => t \in lost' \/ Queued(t)'
      /\ UNCHANGED pipe => \A t \in Swings : Pending(t) => Pending(t)'
      /\ \A t \in Swings :
           Pending(t)' => Pending(t) \/ (manifest[t] # None /\ (Queued(t)' \/ t \in lost'))
      /\ UNCHANGED pipe \/ BesideRun(s)
  BY <1>1, <1>2, BesideAdds
<1>4. pipe # None => pipe.swing \in Swings
  BY <1>1 DEF WorkerTypeOK, Pipeline
<1>5. PendingIsBundled' /\ NothingAhead'
  BY <1>2, <1>3 DEF Ledger, PendingIsBundled, NothingAhead
<1>6. RunIsMarked' /\ ReturnedIsSettled'
  BY <1>2, <1>3, <1>4 DEF Ledger, RunIsMarked, ReturnedIsSettled, Working, At, BesideRun
<1>7. PendingIsOwned'
  BY <1>2, <1>3 DEF Ledger, PendingIsOwned, Owned
<1> QED
  BY <1>1, <1>5, <1>6, <1>7 DEF Ledger

LEMMA DeleteLedger ==
  ASSUME Ledger, NEW s \in Swings, Delete(s)
  PROVE  Ledger'
<1>1. TypedRun'
  BY DeleteType DEF Ledger
<1>2. /\ ~Pending(s)
      /\ manifest' = [manifest EXCEPT ![s] = None] /\ state' = [state EXCEPT ![s] = None]
      /\ lost' = lost \ {s} /\ pipe' = Outrun(s)
      /\ UNCHANGED <<today, uploads, queue, consumer, job, server>>
  BY DEF Delete, DeleteSwing, ForgetSwing, Serving
<1>3. /\ manifest \in [Swings -> Manifest \cup {None}]
      /\ state \in [Swings -> Sidecar \cup {None}]
      /\ pipe # None => pipe.swing \in Swings
  BY DEF Ledger, TypedRun, TypeOK, IngestTypeOK, StoreTypeOK, WorkerTypeOK, Pipeline
<1>a. UNCHANGED pipe \/ (BesideRun(s) /\ pipe'.pc = "beaten")
  BY <1>2, OutrunMoves DEF Ledger, TypedRun, TypeOK
<1>4. /\ \A t \in Swings : Pending(t)' <=> Pending(t)
      /\ \A t \in Swings : Queued(t)' <=> Queued(t)
      /\ \A t \in Swings : manifest'[t] = IF t = s THEN None ELSE manifest[t]
  BY <1>2, <1>3 DEF Pending, Status, Queued
<1>5. PendingIsBundled' /\ NothingAhead'
  BY <1>2, <1>4 DEF Ledger, PendingIsBundled, NothingAhead
<1>6. RunIsMarked' /\ ReturnedIsSettled'
  BY <1>2, <1>3, <1>4, <1>a DEF Ledger, RunIsMarked, ReturnedIsSettled, Working, At
<1>7. PendingIsOwned'
  BY <1>2, <1>4 DEF Ledger, PendingIsOwned, Owned
<1> QED
  BY <1>1, <1>5, <1>6, <1>7 DEF Ledger

-----------------------------------------------------------------------------
(* The process. *)

\* With the process gone there is no job and no run, and nobody to owe one to.
LEMMA GoneLedger ==
  ASSUME Ledger, TypedRun', ProcessGone, server' = "down", UNCHANGED <<manifest, today>>,
         \A p \in Phones : uploads'[p] # None => uploads'[p].day <= today
  PROVE  Ledger'
<1>1. \A t : Pending(t)' <=> Pending(t)
  BY DEF ProcessGone, Pending, Status
<1>2. PendingIsBundled' /\ NothingAhead'
  BY <1>1 DEF Ledger, PendingIsBundled, NothingAhead
<1>3. RunIsMarked' /\ ReturnedIsSettled' /\ PendingIsOwned'
  BY DEF ProcessGone, RunIsMarked, Working, ReturnedIsSettled, At, PendingIsOwned
<1> QED
  BY <1>2, <1>3 DEF Ledger

LEMMA DeathLedger ==
  ASSUME Ledger, ServerDies \/ (\E p \in Phones : ServerDiesLanding(p)) \/ ServerStopped
  PROVE  Ledger'
<1>1. TypedRun'
  BY DeathType, LifespanType DEF Ledger
<1>2. ProcessGone /\ server' = "down" /\ UNCHANGED <<manifest, today>>
  BY DEF ServerDies, ServerDiesLanding, ServerStopped, Dies, CrashBetween, CrashDuring,
     AssignCutShort, PlaceCutShort, ingestVars
<1>3. uploads' = uploads \/ uploads' = [p \in Phones |-> None]
  BY DEF ServerDies, ServerDiesLanding, ServerStopped, CrashBetween, CrashDuring, ingestVars
<1>4. \A p \in Phones : uploads'[p] # None => uploads'[p].day <= today
  BY <1>3 DEF Ledger, NothingAhead
<1> QED
  BY <1>1, <1>2, <1>4, GoneLedger

\* The queue a start builds has every swing it found: one that lists them in
\* the order of their ids, with none twice, leaves none out.
LEMMA RecoveredAreQueued ==
  ASSUME StoreTypeOK, Start
  PROVE  \A t \in Recovered : Queued(t)'
<1> DEFINE n == Cardinality(Recovered)
<1>1. IsFiniteSet(Recovered) /\ n \in Nat /\ Recovered \subseteq Swings
  BY SwingsFinite, FS_Subset, FS_CardinalityType DEF Recovered
<1>2. IsFiniteSet(1..n) /\ Cardinality(1..n) = n
  BY <1>1, FS_Interval
<1> HIDE DEF n
<1>3. PICK order \in [1..n -> Recovered] :
        /\ \A i, j \in 1..n : i < j => order[i][2] < order[j][2]
        /\ queue' = [i \in 1..n |-> [swing |-> order[i], force |-> Orphaned(order[i])]]
  BY DEF Start, n
<1>4. \A i \in 1..n : order[i][2] \in Nat
  BY <1>1, <1>3, StoreConstants DEF Swings, Ids
<1>5. ASSUME NEW i \in 1..n, NEW j \in 1..n, order[i] = order[j]
      PROVE  i = j
  BY <1>1, <1>3, <1>4, <1>5
<1>6. order \in Injection(1..n, Recovered)
  BY <1>3, <1>5 DEF Injection, IsInjective
<1>7. order \in Surjection(1..n, Recovered)
  BY <1>1, <1>2, <1>6, FS_Injection DEF n
<1>8. Len(queue') = n
  BY <1>1, <1>3
<1>9. \A i \in 1..n : queue'[i] \in Job /\ queue'[i].swing = order[i]
  BY <1>1, <1>3 DEF Job, Orphaned, Pending
<1>10. \A t \in Recovered : \E i \in 1..Len(queue') : queue'[i] # None /\ queue'[i].swing = t
  BY <1>7, <1>8, <1>9, WorkerConstants DEF Surjection
<1> QED
  BY <1>10 DEF Queued

\* Recovery queues every swing of the day that the last process left pending.
LEMMA StartLedger ==
  ASSUME Ledger, ServerStarts
  PROVE  Ledger'
<1>1. TypedRun' /\ StoreTypeOK /\ WorkerTypeOK /\ Handshake
  BY LifespanType DEF Ledger, TypedRun, TypeOK, IngestTypeOK
<1>2. Start /\ UNCHANGED ingestVars
  BY DEF ServerStarts
<1>3. consumer = "none" /\ job = None /\ pipe = None /\ pipe' = None
  BY <1>1, <1>2 DEF Start, Handshake
<1>4. /\ UNCHANGED <<manifest, today, uploads>>
      /\ \A t \in Swings \ Recovered : state'[t] = state[t]
  BY <1>2 DEF Start, SavesBefore, ingestVars
<1>5. \A t \in Swings : Pending(t)' => Pending(t) \/ t \in Recovered
  BY <1>4 DEF Pending, Status
<1>6. PendingIsBundled' /\ NothingAhead'
  BY <1>4, <1>5 DEF Ledger, PendingIsBundled, NothingAhead, Recovered
<1>7. RunIsMarked' /\ ReturnedIsSettled'
  BY <1>3 DEF RunIsMarked, Working, ReturnedIsSettled, At
<1>8. PendingIsOwned'
  <2>1. \A t \in Swings : t[1] = today /\ Pending(t)' => t \in Recovered
    BY <1>5 DEF Ledger, PendingIsBundled, Recovered, Orphaned
  <2>2. \A t \in Recovered : Queued(t)'
    BY <1>1, <1>2, RecoveredAreQueued
  <2> QED
    BY <1>4, <2>1, <2>2 DEF PendingIsOwned, Owned
<1> QED
  BY <1>1, <1>6, <1>7, <1>8 DEF Ledger

\* One that raises has no run, and nobody to owe it to: the server is still down.
LEMMA StartRaisesLedger ==
  ASSUME Ledger, ServerStartRaises
  PROVE  Ledger'
<1>1. TypedRun' /\ Handshake
  BY LifespanType DEF Ledger, TypedRun
<1>2. /\ StartRaises /\ server' = "down" /\ pipe = None /\ pipe' = None
      /\ UNCHANGED <<manifest, today, uploads>>
  BY <1>1 DEF ServerStartRaises, StartRaises, Handshake, ingestVars
<1>3. \A t \in Swings : Pending(t)' => Pending(t) \/ t \in Recovered
  BY <1>2 DEF StartRaises, SavesBefore, Pending, Status
<1>4. PendingIsBundled' /\ NothingAhead'
  BY <1>2, <1>3 DEF Ledger, PendingIsBundled, NothingAhead, Recovered
<1>5. RunIsMarked' /\ ReturnedIsSettled' /\ PendingIsOwned'
  BY <1>2 DEF RunIsMarked, Working, ReturnedIsSettled, At, PendingIsOwned
<1> QED
  BY <1>1, <1>4, <1>5 DEF Ledger

LEMMA StopsLedger ==
  ASSUME Ledger, ServerStops
  PROVE  Ledger'
<1>1. TypedRun' /\ WorkerTypeOK
  BY LifespanType DEF Ledger, TypedRun, TypeOK
<1>2. /\ queue' = Append(queue, None) /\ server = "up"
      /\ UNCHANGED <<manifest, today, uploads, state, lost, consumer, job, pipe>>
  BY DEF ServerStops, Stop, ingestVars
<1>3. /\ \A t : Queued(t) => Queued(t)'
      /\ \A t : Pending(t)' <=> Pending(t)
  BY <1>1, <1>2, QueuedAppend DEF WorkerTypeOK, Pending, Status
<1>4. PendingIsBundled' /\ NothingAhead'
  BY <1>2, <1>3 DEF Ledger, PendingIsBundled, NothingAhead
<1>5. RunIsMarked' /\ ReturnedIsSettled'
  BY <1>2, <1>3 DEF Ledger, RunIsMarked, ReturnedIsSettled, Working, At
<1>6. PendingIsOwned'
  BY <1>2, <1>3 DEF Ledger, PendingIsOwned, Owned
<1> QED
  BY <1>1, <1>4, <1>5, <1>6 DEF Ledger

-----------------------------------------------------------------------------
(* The worker. *)

LEMMA PipelineLedger ==
  ASSUME Ledger, WorkerSteps, PipelineStep \/ PipelineRaise
  PROVE  Ledger'
<1>1. TypedRun' /\ TypedRun /\ StoreTypeOK /\ WorkerTypeOK /\ Handshake
  BY WorkerStepsType DEF Ledger, TypedRun, TypeOK, IngestTypeOK
<1>2. PipeMoves /\ UNCHANGED <<manifest, today, uploads, server>>
  BY <1>1, PipelineType DEF WorkerSteps, ingestVars
<1>3. pipe # None /\ pipe' # None /\ pipe.swing \in Swings /\ pipe.inputs \in Inputs
      /\ pipe.gone \in SUBSET Roles /\ pipe \in Pipeline /\ pipe' \in Pipeline
  BY <1>1, <1>2, WorkerConstants DEF PipeMoves, WorkerTypeOK, Pipeline
<1>4. (\A t : Queued(t)' <=> Queued(t)) /\ UNCHANGED lost
  BY <1>2 DEF PipeMoves, Queued, PipelineStep, PipelineLoad, PipelineRead, PipelineWrite,
     PipelineRecord, PipelineLay, PipelineBeaten, PipelineRaise
<1>5. \/ UNCHANGED state /\ pipe'.pc # "returned" /\ (Working' => Working)
      \/ UNCHANGED state /\ pipe'.pc = "returned" /\ Working /\ manifest[pipe.swing] = None
      \/ /\ pipe'.pc \in {"beaten", "returned"} /\ ~Pending(pipe.swing)'
         /\ \A t \in Swings \ {pipe.swing} : Pending(t)' <=> Pending(t)
  <2>1. CASE PipelineRecord
    <3>1. pipe'.pc = "returned"
      BY <1>3, <2>1 DEF PipelineRecord, Pipeline
    <3>2. /\ ~Pending(pipe.swing)'
          /\ \A t \in Swings \ {pipe.swing} : Pending(t)' <=> Pending(t)
      BY <1>1, <1>3, <2>1, SaveStateSays DEF PipelineRecord, WorkerTypeOK
    <3> QED
      BY <3>1, <3>2
  <2>2. CASE PipelineLay
    <3>1. pipe'.pc = "beaten"
      BY <1>3, <2>2 DEF PipelineLay, Pipeline
    <3>2. PICK text \in {RunText, None} : state' = [state EXCEPT ![pipe.swing] = text]
      BY <2>2 DEF PipelineLay, Published
    <3>3. text = None \/ text.status \in {"done", "failed"}
      BY DEF RunText, Text
    <3>4. ~Pending(pipe.swing)'
      BY <1>1, <1>2, <1>3, <3>2, <3>3 DEF PipeMoves, WorkerTypeOK, Pending, Status
    <3>5. \A t \in Swings \ {pipe.swing} : Pending(t)' <=> Pending(t)
      BY <1>1, <3>2 DEF WorkerTypeOK, Pending, Status
    <3> QED
      BY <3>1, <3>4, <3>5
  <2>3. CASE PipelineLoad
    <3>1. manifest[pipe.swing] # None => pipe'.pc # "returned"
      BY <1>3, <2>3 DEF PipelineLoad, Pipeline
    <3> QED
      BY <1>3, <2>3, <3>1 DEF PipelineLoad, At, Working
  <2>4. CASE PipelineRead
    <3>1. \E usable, gone : pipe' = Past(usable, gone)
      BY <2>4 DEF PipelineRead
    <3>2. pipe'.pc # "returned"
      BY <1>3, <3>1 DEF Past, Pipeline
    <3> QED
      BY <1>3, <2>4, <3>2 DEF PipelineRead, At, Working
  <2>5. CASE PipelineWrite
    <3>1. pipe'.pc # "returned"
      BY <1>3, <2>5 DEF PipelineWrite, Pipeline
    <3> QED
      BY <1>3, <2>5, <3>1 DEF PipelineWrite, At, Working
  <2>6. CASE PipelineRaise \/ PipelineBeaten
    <3>1. pipe'.pc = "raised"
      BY <1>3, <2>6 DEF PipelineRaise, PipelineBeaten, Pipeline
    <3> QED
      BY <2>6, <3>1 DEF PipelineRaise, PipelineBeaten, Working
  <2> QED
    BY <2>1, <2>2, <2>3, <2>4, <2>5, <2>6 DEF PipelineStep
<1>6. \A t \in Swings : Pending(t)' => Pending(t)
  <2>1. CASE UNCHANGED state
    BY <2>1 DEF Pending, Status
  <2> QED
    BY <1>2, <1>3, <1>5, <2>1 DEF PipeMoves
<1>7. Working => Pending(pipe.swing) /\ manifest[pipe.swing] # None
  BY <1>3 DEF Ledger, RunIsMarked, PendingIsBundled
<1>8. PendingIsBundled' /\ NothingAhead'
  BY <1>2, <1>6 DEF Ledger, PendingIsBundled, NothingAhead
<1>9. RunIsMarked' /\ ReturnedIsSettled'
  <2>1. CASE UNCHANGED state /\ pipe'.pc # "returned" /\ (Working' => Working)
    <3>1. Pending(pipe.swing)' <=> Pending(pipe.swing)
      BY <1>2, <2>1 DEF PipeMoves, Pending, Status
    <3> QED
      BY <1>2, <1>7, <2>1, <3>1 DEF PipeMoves, RunIsMarked, ReturnedIsSettled, At
  <2>2. CASE pipe'.pc \in {"beaten", "returned"} /\ ~Pending(pipe.swing)'
    BY <1>2, <2>2 DEF PipeMoves, RunIsMarked, ReturnedIsSettled, Working, At
  <2> QED
    BY <1>5, <1>7, <2>1, <2>2
<1>10. PendingIsOwned'
  BY <1>2, <1>4, <1>6 DEF Ledger, PendingIsOwned, Owned, PipeMoves
<1> QED
  BY <1>1, <1>8, <1>9, <1>10 DEF Ledger

LEMMA DropLedger ==
  ASSUME Ledger, WorkerSteps, Drop \/ TakeSentinel \/ Park
  PROVE  Ledger'
<1>1. TypedRun' /\ WorkerTypeOK /\ Handshake
  BY WorkerStepsType DEF Ledger, TypedRun, TypeOK
<1>2. /\ UNCHANGED <<manifest, today, uploads, server, state, lost, job, pipe>>
      /\ consumer # "awaiting"
  BY DEF WorkerSteps, ingestVars, Drop, TakeSentinel, Park, AtQueue
<1>3. \A t \in Swings : Pending(t)' <=> Pending(t)
  BY <1>2 DEF Pending, Status
<1>4. job = None /\ pipe = None
  BY <1>1, <1>2 DEF Handshake
<1>5. \A t \in Swings : Queued(t) /\ Pending(t) => Queued(t)'
  <2>1. CASE Park
    BY <2>1 DEF Park, Queued
  <2>2. CASE TakeSentinel
    BY <1>1, <2>2, QueuedTail DEF TakeSentinel, AtQueue, WorkerTypeOK
  <2>3. CASE Drop
    <3>1. NothingToDo(Head(queue)) /\ Head(queue) # None /\ queue # <<>> /\ queue' = Tail(queue)
      BY <2>3 DEF Drop, AtQueue
    <3>2. \A t \in Swings : t = Head(queue).swing => ~Pending(t)
      BY <3>1 DEF Ledger, PendingIsBundled, NothingToDo, UpToDate, Pending
    <3> QED
      BY <1>1, <3>1, <3>2, QueuedTail DEF WorkerTypeOK
  <2> QED
    BY <2>1, <2>2, <2>3
<1>6. PendingIsBundled' /\ NothingAhead'
  BY <1>2, <1>3 DEF Ledger, PendingIsBundled, NothingAhead
<1>7. RunIsMarked' /\ ReturnedIsSettled'
  BY <1>2, <1>4 DEF RunIsMarked, Working, ReturnedIsSettled, At
<1>8. PendingIsOwned'
  BY <1>2, <1>3, <1>4, <1>5 DEF Ledger, PendingIsOwned, Owned
<1> QED
  BY <1>1, <1>6, <1>7, <1>8 DEF Ledger

LEMMA TakeLedger ==
  ASSUME Ledger, WorkerSteps, Take
  PROVE  Ledger'
<1>1. TypedRun' /\ StoreTypeOK /\ WorkerTypeOK /\ Handshake
  BY WorkerStepsType DEF Ledger, TypedRun, TypeOK, IngestTypeOK
<1>a. PICK s \in Swings : s = Head(queue).swing
  BY <1>1, QueueHead DEF Take, Job
<1>2. /\ AtQueue /\ Head(queue) # None /\ queue # <<>> /\ queue' = Tail(queue)
      /\ manifest[s] # None
      /\ job' = [swing |-> s, seen |-> manifest[s].updated, inputs |-> manifest[s].roles]
      /\ pipe' = Begun(s)
      /\ SaveState(s, "running", manifest[s].roles, {}) /\ lost' = lost \ {s}
      /\ UNCHANGED <<manifest, today, uploads, server>>
  BY <1>a DEF Take, Saves, AtQueue, NothingToDo, WorkerSteps, ingestVars
<1>3. s \in Swings /\ manifest[s].roles \in Inputs
  BY <1>1, <1>2 DEF StoreTypeOK, Manifest, Inputs
<1>4. job = None
  BY <1>1, <1>2 DEF AtQueue, Handshake
<1>5. Pending(s)' /\ \A t \in Swings \ {s} : Pending(t)' <=> Pending(t)
  BY <1>1, <1>2, <1>3, SaveStateSays DEF WorkerTypeOK
<1>6. \A t \in Swings \ {s} : Queued(t) => Queued(t)'
  BY <1>1, <1>2, <1>a, QueuedTail DEF WorkerTypeOK
<1>7. job' # None /\ job'.swing = s /\ pipe'.swing = s /\ pipe'.pc = "load"
  <2>1. consumer' = "awaiting"
    BY DEF Take
  <2>2. job' # None
    BY <1>1, <2>1 DEF TypedRun, Handshake
  <2>3. job'.swing = s
    BY <1>2
  <2>4. pipe'.swing = s /\ pipe'.pc = "load"
    BY <1>2 DEF Begun
  <2> QED
    BY <2>2, <2>3, <2>4
<1>8. PendingIsBundled' /\ NothingAhead'
  BY <1>2, <1>5 DEF Ledger, PendingIsBundled, NothingAhead
<1>9. RunIsMarked' /\ ReturnedIsSettled'
  BY <1>5, <1>7 DEF RunIsMarked, ReturnedIsSettled, At
<1>10. PendingIsOwned'
  BY <1>2, <1>4, <1>5, <1>6, <1>7 DEF Ledger, PendingIsOwned, Owned
<1> QED
  BY <1>1, <1>8, <1>9, <1>10 DEF Ledger

\* The net under the consumer: what it drops has lost its save.
LEMMA TakeRaisesLedger ==
  ASSUME Ledger, WorkerSteps, TakeRaises
  PROVE  Ledger'
<1>1. TypedRun' /\ WorkerTypeOK /\ Handshake
  BY WorkerStepsType DEF Ledger, TypedRun, TypeOK
<1>2. /\ UNCHANGED <<manifest, today, uploads, server, state, job, pipe>>
      /\ Head(queue) # None /\ queue # <<>> /\ queue' = Tail(queue) /\ consumer # "awaiting"
      /\ lost' = lost \cup {Head(queue).swing}
  BY DEF WorkerSteps, ingestVars, TakeRaises, SaveRaises, AtQueue
<1>3. /\ \A t \in Swings : Pending(t)' <=> Pending(t)
      /\ \A t \in Swings : Queued(t) => Queued(t)' \/ t \in lost'
  BY <1>1, <1>2, QueuedTail DEF Pending, Status, WorkerTypeOK
<1>4. job = None /\ pipe = None
  BY <1>1, <1>2 DEF Handshake
<1>5. PendingIsBundled' /\ NothingAhead'
  BY <1>2, <1>3 DEF Ledger, PendingIsBundled, NothingAhead
<1>6. RunIsMarked' /\ ReturnedIsSettled'
  BY <1>2, <1>4 DEF RunIsMarked, Working, ReturnedIsSettled, At
<1>7. PendingIsOwned'
  BY <1>2, <1>3, <1>4 DEF Ledger, PendingIsOwned, Owned
<1> QED
  BY <1>1, <1>5, <1>6, <1>7 DEF Ledger

\* A run gives its job up only with its swing settled, queued again, or with its save
\* lost.
LEMMA ResumeLedger ==
  ASSUME Ledger, WorkerSteps, ResumeReturned \/ ResumeRaised
  PROVE  Ledger'
<1>1. TypedRun' /\ StoreTypeOK /\ WorkerTypeOK /\ Handshake
  BY WorkerStepsType DEF Ledger, TypedRun, TypeOK, IngestTypeOK
<1>2. /\ consumer = "awaiting" /\ job' = None /\ pipe' = None
      /\ UNCHANGED <<manifest, today, uploads, server>>
  BY DEF ResumeReturned, ResumeRaised, RunEnds, WorkerSteps, ingestVars
<1>3. job # None /\ pipe # None /\ pipe.swing = job.swing /\ job \in Run
  BY <1>1, <1>2 DEF Handshake, WorkerTypeOK
<1>a. PICK s \in Swings : s = job.swing
  BY <1>3 DEF Run
<1>4. s \in Swings /\ job.inputs \in Inputs /\ manifest[s] \in Manifest \cup {None}
  BY <1>1, <1>3 DEF Run, StoreTypeOK
<1>5. /\ \A t \in Swings : Queued(t) => Queued(t)'
      /\ \A t \in Swings : t \in lost => t \in lost' \/ Queued(t)' \/ ~Pending(t)'
      /\ \A t \in Swings : Pending(t)' => Pending(t) \/ (manifest[t] # None /\ Queued(t)')
      /\ Pending(s)' => Queued(s)' \/ s \in lost'
  <2>1. CASE ResumeRaised
    <3>1. UNCHANGED queue /\ (Saves(s, "failed", job.inputs) \/ SaveRaises(s))
      BY <1>a, <2>1 DEF ResumeRaised
    <3>2. CASE Saves(s, "failed", job.inputs)
      <4>1. ~Pending(s)' /\ \A t \in Swings \ {s} : Pending(t)' <=> Pending(t)
        BY <1>1, <1>4, <3>2, SaveStateSays DEF Saves, WorkerTypeOK
      <4> QED
        BY <3>1, <3>2, <4>1 DEF Saves, Queued
    <3>3. CASE SaveRaises(s)
      BY <3>1, <3>3 DEF SaveRaises, Queued, Pending, Status
    <3> QED
      BY <3>1, <3>2, <3>3
  <2>2. CASE ResumeReturned
    <3>1. At("returned") /\ (Submit(s, TRUE, manifest[s]) \/ UNCHANGED <<state, lost, queue>>)
      BY <1>a, <2>2 DEF ResumeReturned
    <3>2. Pending(s) => Queued(s) \/ s \in lost
      BY <1>3, <1>a, <3>1 DEF Ledger, ReturnedIsSettled
    <3>3. CASE UNCHANGED <<state, lost, queue>>
      BY <3>2, <3>3 DEF Queued, Pending, Status
    <3>4. CASE Submit(s, TRUE, manifest[s])
      BY <1>1, <1>4, <3>2, <3>4, SubmitAdds
    <3> QED
      BY <3>1, <3>3, <3>4
  <2> QED
    BY <2>1, <2>2
<1>6. PendingIsBundled' /\ NothingAhead'
  BY <1>2, <1>5 DEF Ledger, PendingIsBundled, NothingAhead
<1>7. RunIsMarked' /\ ReturnedIsSettled'
  BY <1>2 DEF RunIsMarked, Working, ReturnedIsSettled, At
<1>8. PendingIsOwned'
  BY <1>2, <1>a, <1>5 DEF Ledger, PendingIsOwned, Owned
<1> QED
  BY <1>1, <1>6, <1>7, <1>8 DEF Ledger

-----------------------------------------------------------------------------
(* The theorems. *)

LEMMA LedgerInit == Init => Ledger
<1> SUFFICES ASSUME Init PROVE Ledger
  OBVIOUS
<1>1. /\ TypedRun /\ pipe = None /\ server = "down"
      /\ \A p \in Phones : uploads[p] = None
      /\ \A s \in Swings : state[s] = None /\ manifest[s] = None
  BY TypedInit DEF Init, IngestInit, StoreInit, WorkerInit
<1>2. \A s \in Swings : ~Pending(s)
  BY <1>1 DEF Pending, Status
<1> QED
  BY <1>1, <1>2 DEF Ledger, RunIsMarked, Working, PendingIsBundled, NothingAhead,
     ReturnedIsSettled, At, PendingIsOwned

LEMMA LedgerNext == Ledger /\ [Next]_vars => Ledger'
<1> SUFFICES ASSUME Ledger, [Next]_vars PROVE Ledger'
  OBVIOUS
<1>1. CASE UNCHANGED vars
  <2>1. TypedRun'
    BY <1>1, TypedStutter DEF Ledger
  <2>2. \A t \in Swings : manifest'[t] # None <=> manifest[t] # None
    BY <1>1 DEF vars, ingestVars
  <2>3. UNCHANGED <<workerVars, server, today, uploads>>
    BY <1>1 DEF vars, ingestVars
  <2>4. \A p \in Phones : uploads'[p] # None => uploads'[p].day <= today
    BY <2>3 DEF Ledger, NothingAhead
  <2> QED
    BY <2>1, <2>2, <2>3, <2>4, QuietLedger
<1>2. CASE WorkerSteps
  BY <1>2, PipelineLedger, DropLedger, TakeLedger, TakeRaisesLedger,
     ResumeLedger DEF WorkerSteps, Consume
<1>3. CASE Next
  BY <1>2, <1>3, QuietRoutesLedger, UploadLandsLedger, DayLedger, AnalyzeLedger, DeleteLedger,
     StartLedger, StartRaisesLedger, StopsLedger, DeathLedger DEF Next
<1> QED
  BY <1>1, <1>3

\* While the pipeline has work to do in a swing's directory, the sidecar that
\* delete_swing looks at says queued or running.
THEOREM RunsAreMarked == Spec => []RunIsMarked
<1>1. Ledger => RunIsMarked
  BY DEF Ledger
<1> QED
  BY <1>1, LedgerInit, LedgerNext, PTL DEF Spec

\* While the server is up, a swing of the day that says queued or running has a
\* job, waiting or running, that will end it, or the loop's last save of its
\* sidecar raised: in submit after the rename it crossed with, or under the net of
\* _consume, which drops the job and leaves the sidecar as it is.
THEOREM PendingSwingsAreOwned == Spec => []PendingIsOwned
<1>1. Ledger => PendingIsOwned
  BY DEF Ledger
<1> QED
  BY <1>1, LedgerInit, LedgerNext, PTL DEF Spec

\* Everything but a delete keeps every manifest there is.
LEMMA OnlyDeleteRemoves ==
  ASSUME TypeOK, Next, NEW s \in Swings, manifest[s] # None, manifest'[s] = None
  PROVE  Delete(s)
<1>1. StoreTypeOK /\ IngestTypeOK
  BY DEF TypeOK, IngestTypeOK
<1>2. ASSUME NEW p \in Phones, UploadLands(p)
      PROVE  manifest'[s] # None
  <2>1. uploads[p] # None /\ Land(uploads[p])
    BY <1>2 DEF UploadLands, UploadFinish
  <2>2. /\ uploads[p].role \in Roles /\ uploads[p].digest \in Digests
        /\ uploads[p].player \in Players \cup {None} /\ uploads[p].club \in Clubs \cup {None}
    BY <1>1, <2>1, UploadType
  <2> QED
    BY <1>1, <2>1, <2>2, AssignAdds DEF Land
<1>3. ASSUME EditCursorsOrTags
      PROVE  manifest'[s] # None
  BY <1>1, <1>3, EditsAreIngests, EditKeepsSwings
<1>4. ASSUME NEW t \in Swings, Delete(t)
      PROVE  t = s
  BY <1>1, <1>4 DEF Delete, DeleteSwing, StoreTypeOK
<1>5. ASSUME UNCHANGED manifest
      PROVE  FALSE
  BY <1>5
<1>6. ASSUME NEW p \in Phones, UploadFails(p) \/ ServerDiesLanding(p)
      PROVE  UNCHANGED manifest
  BY <1>6 DEF UploadFails, UploadAbort, ServerDiesLanding, CrashDuring, AssignCutShort, PlaceCutShort
<1>7. ASSUME NEW p \in Phones, NEW r \in Roles, NEW digest \in Digests, NEW target \in Targets,
             UploadBegins(p, r, digest, target)
      PROVE  UNCHANGED manifest
  BY <1>7 DEF UploadBegins, UploadStart
<1>8. ASSUME ServerStarts \/ ServerStartRaises \/ ServerStops \/ ServerStopped \/ ServerDies \/ WorkerSteps \/ DayGoesBy
      PROVE  UNCHANGED manifest
  BY <1>8 DEF ServerStarts, ServerStartRaises, ServerStops, ServerStopped, ServerDies, CrashBetween, WorkerSteps,
     DayGoesBy, DayPasses, Midnight, ingestVars
<1>9. ASSUME NEW t \in Swings, AnalyzeSwing(t)
      PROVE  UNCHANGED manifest
  BY <1>9 DEF AnalyzeSwing, ingestVars
<1> QED
  BY <1>2, <1>3, <1>4, <1>5, <1>6, <1>7, <1>8, <1>9 DEF Next

\* No delete takes a directory from under the worker's run: delete_swing looks at
\* the sidecar alone, and while the run is working the sidecar says so.
THEOREM RunsKeepTheirDirectory == Spec => NoDeleteUnderARun
<1> DEFINE Kept == \A s \in Swings :
             Working /\ pipe.swing = s /\ manifest[s] # None => manifest'[s] # None
<1>1. Ledger /\ [Next]_vars => [Kept]_vars
  <2> SUFFICES ASSUME Ledger, Next, NEW s \in Swings, Working, pipe.swing = s,
                      manifest[s] # None, manifest'[s] = None
               PROVE  FALSE
    OBVIOUS
  <2>1. TypeOK /\ Pending(s)
    BY DEF Ledger, TypedRun, RunIsMarked
  <2>2. Delete(s)
    BY <2>1, OnlyDeleteRemoves
  <2> QED
    BY <2>1, <2>2 DEF Delete
<1> QED
  BY <1>1, LedgerInit, LedgerNext, PTL DEF Spec, NoDeleteUnderARun

-----------------------------------------------------------------------------
(* What a step does to each of the store, the sidecars and the run. *)

\* What a step that is neither a landing, nor an edit, nor a delete does to the
\* store: nothing.
LEMMA StoreStays ==
  ASSUME Next, ~EditCursorsOrTags, \A p \in Phones : ~UploadLands(p),
         \A s \in Swings : ~Delete(s)
  PROVE  UNCHANGED <<manifest, clock>>
<1>1. ASSUME NEW p \in Phones, UploadFails(p) \/ ServerDiesLanding(p)
      PROVE  UNCHANGED <<manifest, clock>>
  BY <1>1 DEF UploadFails, UploadAbort, ServerDiesLanding, CrashDuring, AssignCutShort, PlaceCutShort
<1>2. ASSUME NEW p \in Phones, NEW r \in Roles, NEW digest \in Digests, NEW target \in Targets,
             UploadBegins(p, r, digest, target)
      PROVE  UNCHANGED <<manifest, clock>>
  BY <1>2 DEF UploadBegins, UploadStart
<1>3. ASSUME ServerStarts \/ ServerStartRaises \/ ServerStops \/ ServerStopped \/ ServerDies \/ WorkerSteps \/ DayGoesBy
      PROVE  UNCHANGED <<manifest, clock>>
  BY <1>3 DEF ServerStarts, ServerStartRaises, ServerStops, ServerStopped, ServerDies, CrashBetween, WorkerSteps,
     DayGoesBy, DayPasses, Midnight, ingestVars
<1>4. ASSUME NEW t \in Swings, AnalyzeSwing(t)
      PROVE  UNCHANGED <<manifest, clock>>
  BY <1>4 DEF AnalyzeSwing, ingestVars
<1> QED
  BY <1>1, <1>2, <1>3, <1>4 DEF Next

LEMMA StoreMoves ==
  ASSUME TypedRun, Next
  PROVE  /\ clock' \in {clock, clock + 1}
         /\ \A t \in Swings :
              manifest'[t] = manifest[t] \/ Written(t) \/ (Delete(t) /\ manifest'[t] = None)
<1>1. StoreTypeOK /\ IngestTypeOK
  BY DEF TypedRun, TypeOK, IngestTypeOK
<1>2. ASSUME NEW p \in Phones, UploadLands(p)
      PROVE  /\ clock' \in {clock, clock + 1}
             /\ \A t \in Swings : manifest'[t] = manifest[t] \/ Written(t)
  <2>1. uploads[p] # None /\ Land(uploads[p])
    BY <1>2 DEF UploadLands, UploadFinish
  <2>2. /\ uploads[p].role \in Roles /\ uploads[p].digest \in Digests
        /\ uploads[p].player \in Players \cup {None} /\ uploads[p].club \in Clubs \cup {None}
    BY <1>1, <2>1, UploadType
  <2> QED
    BY <1>1, <2>1, <2>2, LandWrites DEF Land
<1>3. ASSUME NEW s \in Swings, Delete(s)
      PROVE  /\ clock' \in {clock, clock + 1}
             /\ \A t \in Swings : manifest'[t] = manifest[t] \/ (t = s /\ manifest'[t] = None)
  BY <1>1, <1>3 DEF Delete, DeleteSwing, StoreTypeOK
<1>4. CASE EditCursorsOrTags
  BY <1>1, <1>4, EditsAreIngests, EditWrites DEF Retagged
<1> QED
  BY <1>2, <1>3, <1>4, StoreStays

\* Only a run's own text says done: its record, or a rename that crossed with it.
RunSaysDone(t) ==
  /\ pipe # None /\ pipe.pc \in {"record", "lay"} /\ pipe.swing = t /\ pipe.ok
  /\ state'[t] = RunText
  /\ \/ WorkerSteps /\ PipelineRecord
     \/ t \in lost'
     \/ pipe' # None /\ pipe'.pc = "beaten" /\ pipe'.swing = t

DoneStays(t) == state'[t] = state[t] /\ (t \in lost => t \in lost')

LEMMA SubmitDone ==
  ASSUME WorkerTypeOK, NEW s \in Swings, NEW force, NEW m, Submit(s, force, m),
         NEW t \in Swings, Status(t)' = "done"
  PROVE  DoneStays(t)
<1>1. CASE Saves(s, "queued", m.roles)
  BY <1>1 DEF Saves, SaveState, Text, Status, WorkerTypeOK, DoneStays
<1>2. CASE SaveRaises(s)
  BY <1>2 DEF SaveRaises, DoneStays
<1> QED
  BY <1>1, <1>2 DEF Submit, DoneStays

LEMMA BesideDone ==
  ASSUME WorkerTypeOK, NEW s \in Swings, NEW force \in BOOLEAN,
         NEW m \in Manifest \cup {None}, SubmitBesideRun(s, force, m),
         NEW t \in Swings, Status(t)' = "done"
  PROVE  DoneStays(t) \/ RunSaysDone(t)
<1>1. CASE Submit(s, force, m)
  BY <1>1, SubmitDone
<1>2. CASE /\ ~Refused(s, force, m) /\ pipe # None /\ pipe.swing = s
           /\ ThreadRenamesFirst(s, m) \/ LoopRenamesFirst(s, force, m)
  <2>1. UNCHANGED pipe \/ BesideRun(s)
    BY BesideType
  <2>2. PICK text \in {Text("queued", m.roles, {}), None, RunText} :
          state' = [state EXCEPT ![s] = text]
    BY <1>2 DEF ThreadRenamesFirst, LoopRenamesFirst, Published
  <2>3. CASE t # s
    BY <1>2, <2>2, <2>3 DEF ThreadRenamesFirst, LoopRenamesFirst, DoneStays, WorkerTypeOK
  <2>4. CASE t = s
    <3>1. state'[t] = text
      BY <2>2, <2>4 DEF WorkerTypeOK
    <3>2. text = RunText /\ text # None /\ text.status = "done"
      BY <3>1 DEF Status, Text
    <3>3. pipe.ok
      BY <3>2 DEF RunText, Text
    <3>4. text # Text("queued", m.roles, {})
      BY <3>2 DEF Text
    <3>5. CASE ThreadRenamesFirst(s, m)
      <4>1. pipe.pc = "record"
        <5>1. CASE pipe.pc # "record"
          <6>1. \E x \in {Text("queued", m.roles, {}), None} : state' = [state EXCEPT ![s] = x]
            BY <3>5, <5>1 DEF ThreadRenamesFirst, Published
          <6>2. state'[s] \in {Text("queued", m.roles, {}), None}
            BY <6>1 DEF WorkerTypeOK
          <6> QED
            BY <2>4, <3>1, <3>2, <3>4, <6>2
        <5> QED
          BY <5>1
      <4> QED
        BY <1>2, <2>4, <3>1, <3>2, <3>3, <3>5, <4>1 DEF ThreadRenamesFirst, RunSaysDone
    <3>6. CASE LoopRenamesFirst(s, force, m)
      <4>1. pipe' # None /\ pipe'.swing = s /\ pipe.pc = "record" /\ pipe \in Pipeline
        BY <1>2, <2>1, <3>6, WorkerConstants DEF LoopRenamesFirst, BesideRun, WorkerTypeOK
      <4>2. pipe'.pc = "beaten"
        <5>1. CASE Published(s, {Text("queued", m.roles, {}), None})
          <6>1. state'[s] \in {Text("queued", m.roles, {}), None}
            BY <5>1 DEF Published, WorkerTypeOK
          <6> QED
            BY <2>4, <3>1, <3>2, <3>4, <6>1
        <5>2. CASE pipe' = [pipe EXCEPT !.pc = "beaten"]
          BY <4>1, <5>2 DEF Pipeline
        <5> QED
          BY <3>6, <5>1, <5>2 DEF LoopRenamesFirst
      <4> QED
        BY <1>2, <2>4, <3>1, <3>2, <3>3, <4>1, <4>2 DEF RunSaysDone
    <3> QED
      BY <1>2, <3>5, <3>6
  <2> QED
    BY <2>3, <2>4
<1> QED
  BY <1>1, <1>2 DEF SubmitBesideRun

LEMMA StartSays ==
  ASSUME Start, NEW t \in Swings
  PROVE  /\ t \in Recovered => state'[t] = Text("queued", manifest[t].roles, {})
         /\ t \notin Recovered => state'[t] = state[t] /\ (t \in lost' <=> t \in lost)
<1>1. t[2] \in Nat /\ t[2] < MaxId + 1
  BY StoreConstants DEF Swings, Ids
<1> QED
  BY <1>1 DEF Start, SavesBefore

LEMMA OnlyRunsSayDone ==
  ASSUME TypedRun, Next, NEW t \in Swings, Status(t)' = "done"
  PROVE  DoneStays(t) \/ RunSaysDone(t)
<1>1. StoreTypeOK /\ WorkerTypeOK /\ IngestTypeOK /\ Handshake /\ TypedRun'
  BY TypedNext DEF TypedRun, TypeOK, IngestTypeOK
<1>2. ASSUME NEW s \in Swings, NEW status \in {"queued", "running", "failed"}, NEW inputs,
             Saves(s, status, inputs) \/ SaveRaises(s)
      PROVE  DoneStays(t)
  BY <1>1, <1>2 DEF Saves, SaveRaises, SaveState, Text, Status, WorkerTypeOK, DoneStays
<1>3. ASSUME UNCHANGED <<state, lost>>
      PROVE  DoneStays(t)
  BY <1>3 DEF DoneStays
<1>4. ASSUME NEW p \in Phones, UploadLands(p)
      PROVE  DoneStays(t) \/ RunSaysDone(t)
  <2>1. Land(uploads[p])
    BY <1>4 DEF UploadLands, UploadFinish
  <2>2. PICK s \in Swings :
          s = Slot(uploads[p].day, uploads[p].role, uploads[p].digest, uploads[p].target)
    BY <2>1, SlotType DEF Land
  <2>3. manifest'[s] \in Manifest \cup {None}
    BY <1>1 DEF TypedRun, TypeOK, IngestTypeOK, StoreTypeOK
  <2>4. SubmitBesideRun(s, FALSE, manifest'[s]) \/ UNCHANGED <<state, lost>>
    BY <1>4, <2>2 DEF UploadLands
  <2> QED
    BY <1>1, <1>3, <2>3, <2>4, BesideDone
<1>5. ASSUME NEW s \in Swings, AnalyzeSwing(s)
      PROVE  DoneStays(t) \/ RunSaysDone(t)
  <2>1. manifest[s] \in Manifest \cup {None} /\ SubmitBesideRun(s, TRUE, manifest[s])
    BY <1>1, <1>5 DEF AnalyzeSwing, StoreTypeOK
  <2> QED
    BY <1>1, <2>1, BesideDone
<1>6. ASSUME NEW s \in Swings, Delete(s)
      PROVE  DoneStays(t)
  BY <1>1, <1>6 DEF Delete, ForgetSwing, Status, WorkerTypeOK, DoneStays
<1>7. CASE ServerStarts
  <2>1. Start
    BY <1>7 DEF ServerStarts
  <2>2. t \notin Recovered
    <3>1. t \in Recovered => state'[t] = Text("queued", manifest[t].roles, {})
      BY <2>1, StartSays
    <3> QED
      BY <3>1 DEF Text, Status
  <2> QED
    BY <2>1, <2>2, StartSays DEF DoneStays
<1>8. CASE ServerStartRaises
  BY <1>8 DEF ServerStartRaises, StartRaises, SavesBefore, Text, Status, DoneStays
<1>9. CASE (Take \/ TakeRaises) /\ WorkerSteps
  <2>1. Head(queue).swing \in Swings
    BY <1>1, <1>9, QueueHead DEF Take, TakeRaises, Job
  <2> QED
    BY <1>2, <1>9, <2>1 DEF Take, TakeRaises
<1>10. CASE ResumeReturned \/ ResumeRaised
  <2>1. job \in Run
    BY <1>1, <1>10 DEF ResumeReturned, ResumeRaised, RunEnds, Handshake, WorkerTypeOK
  <2>2. job.swing \in Swings
    BY <2>1 DEF Run
  <2>3. CASE ResumeReturned
    <3>1. UNCHANGED <<state, lost>> \/ Submit(job.swing, TRUE, manifest[job.swing])
      BY <2>3 DEF ResumeReturned
    <3> QED
      BY <1>1, <1>3, <2>2, <3>1, SubmitDone
  <2>4. CASE ResumeRaised
    BY <1>2, <2>2, <2>4 DEF ResumeRaised
  <2> QED
    BY <1>10, <2>3, <2>4
<1>11. CASE WorkerSteps /\ (PipelineRecord \/ PipelineLay)
  <2>1. pipe # None /\ pipe \in Pipeline /\ pipe.swing \in Swings /\ UNCHANGED lost
    BY <1>1, <1>11 DEF PipelineRecord, PipelineLay, At, WorkerTypeOK, Pipeline
  <2>2. PICK text \in {RunText, None} : state' = [state EXCEPT ![pipe.swing] = text]
    BY <1>11 DEF PipelineRecord, PipelineLay, Published, SaveState, RunText
  <2>3. CASE t # pipe.swing
    BY <1>1, <2>1, <2>2, <2>3 DEF WorkerTypeOK, DoneStays
  <2>4. CASE t = pipe.swing
    <3>1. state'[t] = text
      BY <1>1, <2>2, <2>4 DEF WorkerTypeOK
    <3>2. state'[t] = RunText /\ pipe.ok
      BY <3>1 DEF Status, RunText, Text
    <3>3. CASE PipelineRecord
      BY <1>11, <2>1, <2>4, <3>2, <3>3 DEF PipelineRecord, At, RunSaysDone
    <3>4. CASE PipelineLay
      <4>1. pipe'.pc = "beaten" /\ pipe'.swing = t
        BY <2>1, <2>4, <3>4 DEF PipelineLay, Pipeline
      <4>2. pipe' # None
        BY <1>1, PipelineType, <3>4, WorkerConstants DEF PipeMoves, PipelineStep
      <4> QED
        BY <2>1, <2>4, <3>2, <3>4, <4>1, <4>2 DEF PipelineLay, At, RunSaysDone
    <3> QED
      BY <1>11, <3>3, <3>4
  <2> QED
    BY <2>3, <2>4
<1>12. CASE WorkerSteps
  <2>1. CASE UNCHANGED <<state, lost>>
    BY <1>3, <2>1
  <2>2. CASE Take \/ TakeRaises \/ ResumeReturned \/ ResumeRaised \/ PipelineRecord \/ PipelineLay
    BY <1>9, <1>10, <1>11, <1>12, <2>2
  <2> QED
    BY <1>12, <2>1, <2>2 DEF WorkerSteps, Consume, PipelineStep, PipelineLoad, PipelineRead,
       PipelineWrite, PipelineBeaten, PipelineRaise, Drop, TakeSentinel, Park
<1>13. CASE ServerStops \/ ServerStopped \/ ServerDies \/ (\E p \in Phones : ServerDiesLanding(p))
  BY <1>3, <1>13 DEF ServerStops, Stop, ServerStopped, ServerDies, ServerDiesLanding, Dies, ProcessGone
<1>14. CASE \/ EditCursorsOrTags \/ DayGoesBy \/ (\E p \in Phones : UploadFails(p))
            \/ \E p \in Phones, r \in Roles, digest \in Digests, target \in Targets :
                 UploadBegins(p, r, digest, target)
  BY <1>3, <1>14 DEF EditCursorsOrTags, DayGoesBy, UploadFails, UploadBegins, workerVars
<1> QED
  BY <1>4, <1>5, <1>6, <1>7, <1>8, <1>12, <1>13, <1>14 DEF Next

\* The run in the thread: it is let be, begun, given up, crossed with by a route, or
\* makes a step of its own.
LEMMA RunMoves ==
  ASSUME TypedRun, Next
  PROVE  \/ UNCHANGED <<job, pipe>>
         \/ WorkerSteps /\ Take
         \/ job' = None /\ pipe' = None
         \/ WorkerSteps /\ (PipelineStep \/ PipelineRaise) /\ UNCHANGED job
         \/ UNCHANGED job /\ \E s \in Swings : BesideRun(s)
<1>0. WorkerTypeOK /\ StoreTypeOK /\ TypedRun'
  BY TypedNext DEF TypedRun, TypeOK, IngestTypeOK
<1>1. CASE WorkerSteps
  BY <1>1 DEF WorkerSteps, Consume, Drop, TakeRaises, TakeSentinel, Park, ResumeReturned,
     ResumeRaised, RunEnds, PipelineStep, PipelineLoad, PipelineRead, PipelineWrite,
     PipelineRecord, PipelineLay, PipelineBeaten, PipelineRaise
<1>2. CASE ServerStarts \/ ServerStartRaises \/ ServerStops \/ ServerStopped \/ ServerDies
           \/ (\E p \in Phones : ServerDiesLanding(p))
  BY <1>2 DEF ServerStarts, Start, ServerStartRaises, StartRaises, ServerStops, Stop, ServerStopped,
     ServerDies, ServerDiesLanding, Dies, ProcessGone
<1>3. CASE \/ EditCursorsOrTags \/ DayGoesBy \/ (\E p \in Phones : UploadFails(p))
           \/ \E p \in Phones, r \in Roles, digest \in Digests, target \in Targets :
                UploadBegins(p, r, digest, target)
  BY <1>3 DEF EditCursorsOrTags, DayGoesBy, UploadFails, UploadBegins, workerVars
<1>4. ASSUME NEW p \in Phones, UploadLands(p)
      PROVE  UNCHANGED job /\ (UNCHANGED pipe \/ \E s \in Swings : BesideRun(s))
  <2>1. Land(uploads[p])
    BY <1>4 DEF UploadLands, UploadFinish
  <2>2. PICK s \in Swings :
          s = Slot(uploads[p].day, uploads[p].role, uploads[p].digest, uploads[p].target)
    BY <2>1, SlotType DEF Land
  <2>3. manifest'[s] \in Manifest \cup {None}
    BY <1>0 DEF TypedRun, TypeOK, IngestTypeOK, StoreTypeOK
  <2>4. UNCHANGED job /\ (SubmitBesideRun(s, FALSE, manifest'[s]) \/ UNCHANGED pipe)
    BY <1>4, <2>2 DEF UploadLands
  <2> QED
    BY <1>0, <2>3, <2>4, BesideType
<1>5. ASSUME NEW s \in Swings, AnalyzeSwing(s)
      PROVE  UNCHANGED job /\ (UNCHANGED pipe \/ BesideRun(s))
  BY <1>0, <1>5, BesideType DEF AnalyzeSwing, StoreTypeOK
<1>6. ASSUME NEW s \in Swings, Delete(s)
      PROVE  UNCHANGED job /\ (UNCHANGED pipe \/ BesideRun(s))
  BY <1>0, <1>6, OutrunMoves DEF Delete, ForgetSwing
<1> QED
  BY <1>1, <1>2, <1>3, <1>4, <1>5, <1>6 DEF Next

-----------------------------------------------------------------------------
(* The sidecar and the analysis. *)

\* analysis.json is written last of what the run computes, and before the sidecar.
BeforeTheWrite == pipe # None /\ pipe.pc \in {"load", "read", "write"} => ~pipe.ok

AfterTheWrite ==
  (At("record") \/ At("lay")) /\ pipe.ok =>
    analysis[pipe.swing] = [inputs |-> pipe.inputs, gone |-> pipe.gone]

Told == Ledger /\ BeforeTheWrite /\ AfterTheWrite /\ SidecarTellsTheAnalysis

LEMMA OnlyWriteAnalyzes ==
  ASSUME TypedRun, Next, ~(WorkerSteps /\ PipelineWrite), NEW t \in Swings
  PROVE  analysis'[t] = analysis[t] \/ (Delete(t) /\ state'[t] = None)
<1>1. WorkerTypeOK
  BY DEF TypedRun, TypeOK
<1>2. ASSUME NEW s \in Swings, Delete(s)
      PROVE  analysis'[t] = analysis[t] \/ (Delete(t) /\ state'[t] = None)
  BY <1>1, <1>2 DEF Delete, ForgetSwing, WorkerTypeOK
<1>3. CASE WorkerSteps
  BY <1>3 DEF WorkerSteps, Consume, Drop, Take, TakeRaises, TakeSentinel, Park, ResumeReturned, ResumeRaised,
     PipelineStep, PipelineLoad, PipelineRead, PipelineRecord, PipelineLay,
     PipelineBeaten, PipelineRaise
<1>4. CASE ServerStarts \/ ServerStartRaises \/ ServerStops \/ ServerStopped \/ ServerDies
           \/ (\E p \in Phones : ServerDiesLanding(p))
  BY <1>4 DEF ServerStarts, Start, ServerStartRaises, StartRaises, ServerStops, Stop, ServerStopped,
     ServerDies, ServerDiesLanding, Dies, ProcessGone
<1>5. CASE \/ EditCursorsOrTags \/ DayGoesBy \/ (\E p \in Phones : UploadFails(p))
           \/ \E p \in Phones, r \in Roles, digest \in Digests, target \in Targets :
                UploadBegins(p, r, digest, target)
  BY <1>5 DEF EditCursorsOrTags, DayGoesBy, UploadFails, UploadBegins, workerVars
<1>6. CASE (\E p \in Phones : UploadLands(p)) \/ (\E s \in Swings : AnalyzeSwing(s))
  BY <1>6 DEF UploadLands, AnalyzeSwing
<1> QED
  BY <1>2, <1>3, <1>4, <1>5, <1>6 DEF Next

\* Nothing is written into a run's directory but by the run.
LEMMA WhileWorking ==
  ASSUME Ledger, Working
  PROVE  /\ pipe \in Pipeline /\ pipe.swing \in Swings /\ pipe.inputs \in Inputs
         /\ pipe.gone \in SUBSET Roles /\ pipe.ok \in BOOLEAN
         /\ job # None /\ job \in Run /\ job.swing = pipe.swing
         /\ Pending(pipe.swing) /\ manifest[pipe.swing] # None /\ ~Delete(pipe.swing)
<1>1. pipe \in Pipeline
  BY DEF Ledger, TypedRun, TypeOK, WorkerTypeOK, Working
<1>2. pipe.swing \in Swings
  BY <1>1 DEF Pipeline
<1>3. job # None /\ job \in Run /\ job.swing = pipe.swing
  BY DEF Ledger, TypedRun, TypeOK, WorkerTypeOK, Handshake, Working
<1>4. Pending(pipe.swing) /\ manifest[pipe.swing] # None
  BY <1>2 DEF Ledger, RunIsMarked, PendingIsBundled
<1> QED
  BY <1>1, <1>2, <1>3, <1>4 DEF Pipeline, Delete

LEMMA RunTold ==
  ASSUME Told, Next
  PROVE  BeforeTheWrite' /\ AfterTheWrite'
<1>0. TypedRun /\ Ledger
  BY DEF Told, Ledger
<1>1. CASE UNCHANGED <<job, pipe>>
  <2>1. BeforeTheWrite'
    BY <1>1 DEF Told, BeforeTheWrite
  <2>2. ASSUME At("record") \/ At("lay"), pipe.ok
        PROVE  analysis'[pipe.swing] = analysis[pipe.swing]
    <3>1. pipe \in Pipeline /\ pipe.swing \in Swings /\ pipe # None
      BY <1>0, <2>2 DEF At, TypedRun, TypeOK, WorkerTypeOK, Pipeline
    <3>2. ~PipelineWrite
      BY <1>1, <2>2 DEF PipelineWrite, At
    <3>3. CASE At("record")
      BY <1>0, <3>2, <3>3, WhileWorking, OnlyWriteAnalyzes DEF At, Working
    <3>4. CASE At("lay")
      <4>1. ~Delete(pipe.swing)
        BY <1>1, <3>1, <3>4 DEF Delete, ForgetSwing, Outrun, At, Pipeline
      <4> QED
        BY <1>0, <3>1, <3>2, <4>1, OnlyWriteAnalyzes
    <3> QED
      BY <2>2, <3>3, <3>4
  <2> QED
    BY <1>1, <2>1, <2>2 DEF Told, AfterTheWrite, At
<1>2. CASE Take
  <2>1. \E s : pipe' = Begun(s)
    BY <1>2 DEF Take
  <2>2. pipe'.pc = "load" /\ ~pipe'.ok
    BY <2>1 DEF Begun
  <2> QED
    BY <2>2 DEF BeforeTheWrite, AfterTheWrite, At
<1>3. CASE job' = None /\ pipe' = None
  BY <1>3 DEF BeforeTheWrite, AfterTheWrite, At
<1>4. CASE WorkerSteps /\ (PipelineStep \/ PipelineRaise)
  <2>1. pipe # None
    BY <1>4 DEF PipelineStep, PipelineLoad, PipelineRead, PipelineWrite, PipelineRecord,
       PipelineLay, PipelineBeaten, PipelineRaise, At
  <2>2. /\ pipe \in Pipeline /\ pipe.swing \in Swings /\ pipe.inputs \in Inputs
        /\ pipe.gone \in SUBSET Roles
    BY <1>0, <2>1 DEF TypedRun, TypeOK, WorkerTypeOK, Pipeline
  <2>3. CASE PipelineLoad
    <3>1. ~pipe.ok
      BY <2>1, <2>3 DEF Told, BeforeTheWrite, PipelineLoad, At
    <3>2. ~pipe'.ok
      BY <2>2, <2>3, <3>1 DEF PipelineLoad, Pipeline
    <3> QED
      BY <3>2 DEF BeforeTheWrite, AfterTheWrite
  <2>4. CASE PipelineRead
    <3>1. ~pipe.ok
      BY <2>1, <2>4 DEF Told, BeforeTheWrite, PipelineRead, At
    <3>2. \E usable, gone : pipe' = Past(usable, gone)
      BY <2>4 DEF PipelineRead
    <3>3. ~pipe'.ok
      BY <2>2, <3>1, <3>2 DEF Past, Pipeline
    <3> QED
      BY <3>3 DEF BeforeTheWrite, AfterTheWrite
  <2>5. CASE PipelineWrite
    <3>1. CASE DirExists(pipe.swing)
      <4>1. pipe' = [pipe EXCEPT !.pc = "record", !.ok = TRUE]
            /\ analysis' = [analysis EXCEPT ![pipe.swing] = [inputs |-> pipe.inputs, gone |-> pipe.gone]]
        BY <2>5, <3>1 DEF PipelineWrite
      <4>2. /\ pipe'.pc = "record" /\ pipe'.swing = pipe.swing
            /\ pipe'.inputs = pipe.inputs /\ pipe'.gone = pipe.gone
        BY <2>2, <4>1 DEF Pipeline
      <4>3. analysis'[pipe.swing] = [inputs |-> pipe.inputs, gone |-> pipe.gone]
        BY <1>0, <2>2, <4>1 DEF TypedRun, TypeOK, WorkerTypeOK
      <4> QED
        BY <4>2, <4>3 DEF BeforeTheWrite, AfterTheWrite
    <3>2. CASE ~DirExists(pipe.swing)
      <4>1. pipe'.pc = "raised"
        BY <2>2, <2>5, <3>2 DEF PipelineWrite, Pipeline
      <4> QED
        BY <4>1 DEF BeforeTheWrite, AfterTheWrite, At
    <3> QED
      BY <3>1, <3>2
  <2>6. CASE PipelineRecord \/ PipelineLay \/ PipelineBeaten \/ PipelineRaise
    <3>1. pipe'.pc \in {"returned", "raised", "beaten"}
      BY <2>2, <2>6 DEF PipelineRecord, PipelineLay, PipelineBeaten, PipelineRaise, Pipeline
    <3> QED
      BY <3>1 DEF BeforeTheWrite, AfterTheWrite, At
  <2> QED
    BY <1>4, <2>3, <2>4, <2>5, <2>6 DEF PipelineStep
<1>5. ASSUME NEW s \in Swings, BesideRun(s)
      PROVE  BeforeTheWrite' /\ AfterTheWrite'
  <2>1. BeforeTheWrite'
    BY <1>5 DEF BesideRun, BeforeTheWrite
  <2>2. ASSUME pipe'.pc = "lay", pipe'.ok
        PROVE  analysis'[s] = [inputs |-> pipe'.inputs, gone |-> pipe'.gone]
    <3>1. At("record") /\ Working /\ pipe.ok /\ pipe.swing = s
      BY <1>5, <2>2 DEF BesideRun, At, Working
    <3>2. analysis'[s] = analysis[s]
      BY <1>0, <3>1, WhileWorking, OnlyWriteAnalyzes DEF PipelineWrite, At
    <3> QED
      BY <1>5, <3>1, <3>2 DEF Told, AfterTheWrite, BesideRun
  <2> QED
    BY <1>5, <2>1, <2>2 DEF BesideRun, AfterTheWrite, At
<1> QED
  BY <1>0, <1>1, <1>2, <1>3, <1>4, <1>5, RunMoves

LEMMA SidecarsTold ==
  ASSUME Told, Next
  PROVE  SidecarTellsTheAnalysis'
<1>0. TypedRun /\ Ledger /\ WorkerTypeOK
  BY DEF Told, Ledger, TypedRun, TypeOK
<1> SUFFICES ASSUME NEW t \in Swings, Status(t)' = "done"
             PROVE  /\ analysis'[t] # None
                    /\ analysis'[t].inputs = state'[t].inputs /\ analysis'[t].gone = state'[t].gone
  BY DEF SidecarTellsTheAnalysis
<1> DEFINE Copied == analysis'[t] # None
             /\ analysis'[t].inputs = state'[t].inputs /\ analysis'[t].gone = state'[t].gone
<1>1. ASSUME state'[t] = state[t], analysis'[t] = analysis[t]
      PROVE  Copied
  BY <1>1 DEF Told, SidecarTellsTheAnalysis, Status
<1>2. CASE RunSaysDone(t)
  <2>1. /\ pipe # None /\ pipe.swing = t /\ pipe.ok /\ pipe \in Pipeline
        /\ state'[t] = RunText /\ (At("record") \/ At("lay"))
    BY <1>0, <1>2 DEF RunSaysDone, At, WorkerTypeOK
  <2>2. analysis[t] = [inputs |-> pipe.inputs, gone |-> pipe.gone]
    BY <2>1 DEF Told, AfterTheWrite
  <2>3. analysis[t] \in Artifact
    BY <2>1, <2>2 DEF Artifact, Pipeline
  <2>4. state'[t] # None
    BY DEF Status
  <2>5. analysis'[t] = analysis[t]
    BY <1>0, <2>1, <2>4, OnlyWriteAnalyzes DEF PipelineWrite, At
  <2> QED
    BY <2>1, <2>2, <2>3, <2>5, WorkerConstants DEF RunText, Text
<1>3. CASE WorkerSteps /\ PipelineWrite
  <2>1. Working
    BY <1>3 DEF PipelineWrite, At, Working
  <2>2. Pending(pipe.swing) /\ UNCHANGED state
    BY <1>0, <1>3, <2>1, WhileWorking DEF PipelineWrite
  <2>3. t # pipe.swing
    BY <2>2 DEF Pending, Status
  <2>4. \/ UNCHANGED analysis
        \/ \E a : analysis' = [analysis EXCEPT ![pipe.swing] = a]
    BY <1>3 DEF PipelineWrite
  <2>5. analysis'[t] = analysis[t]
    BY <1>0, <2>3, <2>4 DEF WorkerTypeOK
  <2> QED
    BY <1>1, <2>2, <2>5
<1>4. CASE DoneStays(t) /\ ~(WorkerSteps /\ PipelineWrite)
  <2>1. state'[t] = state[t]
    BY <1>4 DEF DoneStays
  <2>2. analysis'[t] = analysis[t] \/ state'[t] = None
    BY <1>0, <1>4, OnlyWriteAnalyzes
  <2>3. state'[t] # None
    BY DEF Status
  <2> QED
    BY <1>1, <2>1, <2>2, <2>3
<1> QED
  BY <1>0, <1>2, <1>3, <1>4, OnlyRunsSayDone

LEMMA ToldInit == Init => Told
<1> SUFFICES ASSUME Init PROVE Told
  OBVIOUS
<1>1. pipe = None /\ \A s \in Swings : state[s] = None
  BY DEF Init, WorkerInit
<1> QED
  BY <1>1, LedgerInit DEF Told, BeforeTheWrite, AfterTheWrite, At, SidecarTellsTheAnalysis, Status

LEMMA ToldNext == Told /\ [Next]_vars => Told'
<1> SUFFICES ASSUME Told, [Next]_vars PROVE Told'
  OBVIOUS
<1>1. Ledger'
  BY LedgerNext DEF Told
<1>2. CASE Next
  BY <1>1, <1>2, RunTold, SidecarsTold DEF Told
<1>3. CASE UNCHANGED vars
  <2>1. UNCHANGED <<state, analysis, pipe>>
    BY <1>3 DEF vars, workerVars
  <2> QED
    BY <1>1, <2>1 DEF Told, BeforeTheWrite, AfterTheWrite, At, SidecarTellsTheAnalysis, Status
<1> QED
  BY <1>2, <1>3

\* A sidecar that says done is a copy of the analysis.json beside it: no crash
\* between the two writes, no failure, delete, crossing of two saves or second run
\* parts them.
THEOREM SidecarsTellTheAnalysis == Spec => []SidecarTellsTheAnalysis
<1>1. Told => SidecarTellsTheAnalysis
  BY DEF Told
<1> QED
  BY <1>1, ToldInit, ToldNext, PTL DEF Spec

-----------------------------------------------------------------------------
(* What is done is current. *)

\* The manifest still carries the stamp the run's job noted when it was taken.
Untouched ==
  job # None /\ manifest[job.swing] # None /\ manifest[job.swing].updated = job.seen

StampsPast ==
  /\ \A s \in Swings : manifest[s] # None => manifest[s].updated <= clock
  /\ job # None => job.seen <= clock

\* As long as it does, it names what the run reads.
RunIsOfNow ==
  Untouched =>
    /\ manifest[job.swing].roles = job.inputs
    /\ pipe.pc \in {"read", "write", "record"} => pipe.inputs = job.inputs

\* A run that returned left its swing current, or will be told that it did not, or the
\* loop has lost a save of its sidecar.
Settled(s) ==
  manifest[s] # None /\ Complete(manifest[s]) /\ ~Queued(s) /\ s \notin lost =>
    Status(s) = "failed" \/ UpToDate(s, manifest[s]) \/ (pipe.ok /\ ~Untouched)

ReturnedIsCurrent == At("returned") => Settled(pipe.swing)

Listening == server = "up" => consumer # "none" /\ \A i \in 1..Len(queue) : queue[i] # None

Current ==
  /\ Ledger
  /\ StampsPast /\ RunIsOfNow /\ ReturnedIsCurrent /\ Listening /\ DoneIsCurrent

LEMMA StampType ==
  ASSUME TypedRun
  PROVE  /\ clock \in Nat
         /\ \A s \in Swings : manifest[s] # None =>
              manifest[s] \in Manifest /\ manifest[s].updated \in Nat /\ manifest[s].roles \in Inputs
         /\ job # None =>
              job \in Run /\ job.seen \in Nat /\ job.swing \in Swings /\ job.inputs \in Inputs
<1>1. 0..MaxWrites \subseteq Nat
  BY StoreConstants
<1>2. StoreTypeOK /\ WorkerTypeOK
  BY DEF TypedRun, TypeOK, IngestTypeOK
<1> QED
  BY <1>1, <1>2 DEF StoreTypeOK, WorkerTypeOK, Manifest, Run, Inputs

\* A manifest that was written since is never taken for the one a run began with.
LEMMA UntouchedWasUntouched ==
  ASSUME TypedRun, StampsPast, Next, UNCHANGED job, Untouched'
  PROVE  Untouched /\ manifest'[job.swing] = manifest[job.swing]
<1>1. /\ job # None /\ job.swing \in Swings /\ job.seen \in Nat /\ clock \in Nat
      /\ manifest'[job.swing] # None /\ manifest'[job.swing].updated = job.seen
      /\ job.seen <= clock
  BY StampType DEF Untouched, StampsPast
<1>2. ~Written(job.swing)
  <2>1. job.seen # clock + 1
    BY <1>1
  <2> QED
    BY <1>1, <2>1 DEF Written
<1>3. manifest'[job.swing] = manifest[job.swing]
  BY <1>1, <1>2, StoreMoves
<1> QED
  BY <1>1, <1>3 DEF Untouched

LEMMA StampsCurrent ==
  ASSUME TypedRun, StampsPast, Next
  PROVE  StampsPast'
<1>1. clock \in Nat /\ clock' \in {clock, clock + 1}
  BY StampType, StoreMoves
<1>2. ASSUME NEW t \in Swings, manifest'[t] # None
      PROVE  manifest'[t].updated <= clock'
  <2>1. CASE manifest'[t] = manifest[t]
    <3>1. manifest[t].updated \in Nat /\ manifest[t].updated <= clock
      BY <1>2, <2>1, StampType DEF StampsPast
    <3> QED
      BY <1>1, <2>1, <3>1
  <2>2. CASE Written(t)
    BY <1>1, <2>2 DEF Written
  <2> QED
    BY <1>2, <2>1, <2>2, StoreMoves
<1>3. job' # None => job'.seen <= clock'
  <2>1. CASE UNCHANGED job
    <3>1. job # None => job.seen \in Nat /\ job.seen <= clock
      BY StampType DEF StampsPast
    <3> QED
      BY <1>1, <2>1, <3>1
  <2>2. CASE Take
    <3>1. AtQueue /\ Head(queue) # None /\ ~NothingToDo(Head(queue))
      BY <2>2 DEF Take
    <3>2. PICK s \in Swings : s = Head(queue).swing
      BY <3>1, QueueHead DEF Job, TypedRun, TypeOK
    <3>3. manifest[s] # None
      BY <3>1, <3>2 DEF NothingToDo
    <3>4. manifest[s].updated \in Nat /\ manifest[s].updated <= clock
      BY <3>3, StampType DEF StampsPast
    <3>5. job'.seen = manifest[s].updated
      BY <2>2, <3>2 DEF Take
    <3> QED
      BY <1>1, <3>4, <3>5
  <2> QED
    BY <2>1, <2>2, RunMoves
<1> QED
  BY <1>2, <1>3 DEF StampsPast

LEMMA RunCurrent ==
  ASSUME Current, Next
  PROVE  RunIsOfNow'
<1> SUFFICES ASSUME Untouched'
             PROVE  /\ manifest'[job'.swing].roles = job'.inputs
                    /\ pipe'.pc \in {"read", "write", "record"} => pipe'.inputs = job'.inputs
  BY DEF RunIsOfNow
<1>0. TypedRun /\ Ledger /\ StampsPast
  BY DEF Current, Ledger
<1>1. CASE WorkerSteps /\ Take
  <2>1. \E s : /\ job' = [swing |-> s, seen |-> manifest[s].updated, inputs |-> manifest[s].roles]
               /\ pipe' = Begun(s)
    BY <1>1 DEF Take
  <2>2. UNCHANGED manifest
    BY <1>1 DEF WorkerSteps, ingestVars
  <2> QED
    BY <2>1, <2>2 DEF Begun
<1>2. ASSUME UNCHANGED job
      PROVE  Untouched /\ manifest'[job.swing] = manifest[job.swing]
             /\ manifest'[job'.swing].roles = job'.inputs
  BY <1>0, <1>2, UntouchedWasUntouched DEF Current, RunIsOfNow
<1>3. CASE UNCHANGED <<job, pipe>>
  BY <1>2, <1>3 DEF Current, RunIsOfNow
<1>4. CASE WorkerSteps /\ (PipelineStep \/ PipelineRaise) /\ UNCHANGED job
  <2>1. pipe # None
    BY <1>4 DEF PipelineStep, PipelineLoad, PipelineRead, PipelineWrite, PipelineRecord,
       PipelineLay, PipelineBeaten, PipelineRaise, At
  <2>2. /\ pipe \in Pipeline /\ pipe.swing \in Swings /\ job.swing = pipe.swing
        /\ manifest[pipe.swing] # None
    BY <1>0, <1>2, <1>4, <2>1 DEF TypedRun, TypeOK, WorkerTypeOK, Handshake, Pipeline, Untouched
  <2>3. Untouched /\ manifest[job.swing].roles = job.inputs
        /\ (pipe.pc \in {"read", "write", "record"} => pipe.inputs = job.inputs)
    BY <1>2, <1>4 DEF Current, RunIsOfNow
  <2>4. CASE PipelineLoad
    <3>1. pipe'.inputs = manifest[pipe.swing].roles
      BY <2>2, <2>4 DEF PipelineLoad, Pipeline
    <3> QED
      BY <1>2, <1>4, <2>2, <2>3, <3>1
  <2>5. CASE PipelineRead
    <3>1. \E usable, gone : pipe' = Past(usable, gone)
      BY <2>5 DEF PipelineRead
    <3>2. pipe'.inputs = pipe.inputs /\ pipe.pc = "read"
      BY <2>2, <2>5, <3>1 DEF Past, Pipeline, PipelineRead, At
    <3> QED
      BY <1>2, <1>4, <2>3, <3>2
  <2>6. CASE PipelineWrite \/ PipelineRecord
    <3>1. pipe'.inputs = pipe.inputs /\ pipe.pc \in {"write", "record"}
      BY <2>2, <2>6 DEF PipelineWrite, PipelineRecord, Pipeline, At
    <3> QED
      BY <1>2, <1>4, <2>3, <3>1
  <2>7. CASE PipelineRaise \/ PipelineLay \/ PipelineBeaten
    <3>1. pipe'.pc \in {"raised", "beaten"}
      BY <2>2, <2>7 DEF PipelineRaise, PipelineLay, PipelineBeaten, Pipeline
    <3> QED
      BY <1>2, <1>4, <3>1
  <2> QED
    BY <1>4, <2>4, <2>5, <2>6, <2>7 DEF PipelineStep
<1>5. CASE job' = None
  BY <1>5 DEF Untouched
<1>6. ASSUME UNCHANGED job, NEW s \in Swings, BesideRun(s)
      PROVE  /\ manifest'[job'.swing].roles = job'.inputs
             /\ pipe'.pc \in {"read", "write", "record"} => pipe'.inputs = job'.inputs
  BY <1>2, <1>6 DEF BesideRun
<1> QED
  BY <1>0, <1>1, <1>3, <1>4, <1>5, <1>6, RunMoves

LEMMA ListeningCurrent ==
  ASSUME TypedRun, Listening, Next
  PROVE  Listening'
<1> SUFFICES ASSUME server' = "up"
             PROVE  consumer' # "none" /\ \A i \in 1..Len(queue') : queue'[i] # None
  BY DEF Listening
<1>0. WorkerTypeOK /\ StoreTypeOK /\ queue \in Seq(Job \cup {None})
  BY DEF TypedRun, TypeOK, IngestTypeOK, WorkerTypeOK
<1> DEFINE Good == consumer' # "none" /\ \A i \in 1..Len(queue') : queue'[i] # None
<1>1. ASSUME server = "up", consumer' # "none", UNCHANGED queue
      PROVE  Good
  BY <1>1 DEF Listening
<1>2. ASSUME server = "up", NEW s \in Swings, NEW force \in BOOLEAN, NEW m, UNCHANGED consumer,
             Submit(s, force, m) \/ SubmitBesideRun(s, force, m)
      PROVE  Good
  <2>1. CASE UNCHANGED queue
    BY <1>2, <2>1 DEF Listening
  <2>2. CASE queue' = Append(queue, [swing |-> s, force |-> force])
    <3>1. [swing |-> s, force |-> force] \in Job
      BY DEF Job
    <3>2. [swing |-> s, force |-> force] # None
      BY <3>1, WorkerConstants
    <3>3. \A i \in 1..Len(queue') : queue'[i] # None
      BY <1>0, <1>2, <2>2, <3>1, <3>2 DEF Listening
    <3> QED
      BY <1>2, <3>3 DEF Listening
  <2> QED
    BY <1>2, <2>1, <2>2 DEF Submit, SubmitBesideRun, ThreadRenamesFirst, LoopRenamesFirst, Put
<1>3. CASE ServerStarts
  <2>1. Start
    BY <1>3 DEF ServerStarts
  <2>2. /\ \A i \in 1..Len(queue') : queue'[i] # None
        /\ consumer' = "parked"
    <3>1. Recovered \subseteq Swings /\ Cardinality(Recovered) \in Nat
      BY SwingsFinite, FS_Subset, FS_CardinalityType DEF Recovered
    <3>2. PICK order \in [1..Cardinality(Recovered) -> Recovered] :
            queue' = [i \in 1..Cardinality(Recovered) |->
                        [swing |-> order[i], force |-> Orphaned(order[i])]]
      BY <2>1 DEF Start
    <3>3. \A i \in 1..Cardinality(Recovered) :
            [swing |-> order[i], force |-> Orphaned(order[i])] \in Job
      BY <3>1, <3>2 DEF Job, Orphaned, Pending
    <3>4. Len(queue') = Cardinality(Recovered)
      BY <3>1, <3>2
    <3> QED
      BY <2>1, <3>2, <3>3, <3>4, WorkerConstants DEF Start
  <2> QED
    BY <2>2
<1>4. CASE WorkerSteps
  <2>1. server = "up"
    BY <1>4 DEF WorkerSteps
  <2>2. CASE PipelineStep \/ PipelineRaise \/ Park \/ ResumeRaised
    BY <1>1, <2>1, <2>2 DEF PipelineStep, PipelineLoad, PipelineRead, PipelineWrite,
       PipelineRecord, PipelineLay, PipelineBeaten, PipelineRaise, Park, ResumeRaised, RunEnds,
       Listening
  <2>3. CASE Drop \/ Take \/ TakeRaises \/ TakeSentinel
    <3>1. queue # <<>> /\ queue' = Tail(queue)
      BY <2>3 DEF Drop, Take, TakeRaises, TakeSentinel, AtQueue
    <3>2. \A i \in 1..Len(queue) : queue[i] # None
      BY <2>1 DEF Listening
    <3>3. Head(queue) # None /\ \A i \in 1..Len(queue') : queue'[i] # None
      BY <1>0, <3>1, <3>2, HeadTailProperties, LenProperties
    <3> QED
      BY <2>3, <3>3 DEF Drop, Take, TakeRaises, TakeSentinel
  <2>4. CASE ResumeReturned
    <3>1. consumer' = "looping" /\ consumer = "awaiting" /\ job.swing \in Swings
      BY <2>4 DEF ResumeReturned, RunEnds, TypedRun, TypeOK, WorkerTypeOK, Handshake, Run
    <3>2. CASE UNCHANGED queue
      BY <1>1, <2>1, <3>1, <3>2
    <3>3. CASE Submit(job.swing, TRUE, manifest[job.swing])
      <4>1. CASE queue' = Append(queue, [swing |-> job.swing, force |-> TRUE])
        <5>1. [swing |-> job.swing, force |-> TRUE] \in Job
          BY <3>1 DEF Job
        <5>2. [swing |-> job.swing, force |-> TRUE] # None
          BY <5>1, WorkerConstants
        <5> QED
          BY <1>0, <2>1, <3>1, <4>1, <5>1, <5>2 DEF Listening
      <4> QED
        BY <3>2, <3>3, <4>1 DEF Submit, Put
    <3> QED
      BY <2>4, <3>2, <3>3 DEF ResumeReturned
  <2> QED
    BY <1>4, <2>2, <2>3, <2>4 DEF WorkerSteps, Consume
<1>5. ASSUME NEW p \in Phones, UploadLands(p)
      PROVE  Good
  <2>1. Land(uploads[p]) /\ server = "up" /\ UNCHANGED consumer
    BY <1>5 DEF UploadLands, UploadFinish, Serving
  <2>2. PICK s \in Swings : s = Slot(uploads[p].day, uploads[p].role, uploads[p].digest, uploads[p].target)
    BY <2>1, SlotType DEF Land
  <2>3. SubmitBesideRun(s, FALSE, manifest'[s]) \/ UNCHANGED queue
    BY <1>5, <2>2 DEF UploadLands
  <2> QED
    BY <1>1, <1>2, <2>1, <2>3 DEF Listening
<1>6. ASSUME NEW s \in Swings, AnalyzeSwing(s)
      PROVE  Good
  BY <1>2, <1>6 DEF AnalyzeSwing, Serving
<1>7. CASE \/ EditCursorsOrTags \/ DayGoesBy \/ (\E p \in Phones : UploadFails(p))
           \/ \E p \in Phones, r \in Roles, digest \in Digests, target \in Targets :
                UploadBegins(p, r, digest, target)
  BY <1>1, <1>7 DEF EditCursorsOrTags, DayGoesBy, UploadFails, UploadBegins, workerVars, Serving, Listening
<1>8. CASE \E s \in Swings : Delete(s)
  BY <1>1, <1>8 DEF Delete, ForgetSwing, Serving, Listening
<1> HIDE DEF Good
<1>9. CASE ServerStartRaises \/ ServerStops \/ ServerStopped \/ ServerDies \/ (\E p \in Phones : ServerDiesLanding(p))
  BY <1>9 DEF ServerStartRaises, ServerStops, ServerStopped, ServerDies, ServerDiesLanding, Dies
<1>10. Good
  BY <1>3, <1>4, <1>5, <1>6, <1>7, <1>8, <1>9 DEF Next, Good
<1> QED
  BY <1>10 DEF Good

LEMMA SubmitTouchesOne ==
  ASSUME WorkerTypeOK, NEW s \in Swings, NEW force \in BOOLEAN, NEW m,
         Submit(s, force, m) \/ SubmitBesideRun(s, force, m)
  PROVE  /\ \A t \in Swings : t # s => state'[t] = state[t] /\ (t \in lost' <=> t \in lost)
         /\ ~Refused(s, force, m) => Queued(s)' \/ s \in lost'
         /\ Refused(s, force, m) => UNCHANGED <<state, lost, queue>>
<1>1. CASE Refused(s, force, m)
  BY <1>1 DEF Submit, SubmitBesideRun
<1>2. CASE ~Refused(s, force, m)
  <2>1. \A t \in Swings : t # s => state'[t] = state[t] /\ (t \in lost' <=> t \in lost)
    BY <1>2 DEF Submit, SubmitBesideRun, ThreadRenamesFirst, LoopRenamesFirst, Published,
       Saves, SaveState, SaveRaises, WorkerTypeOK
  <2>2. Put(s, force) \/ s \in lost'
    BY <1>2 DEF Submit, SubmitBesideRun, ThreadRenamesFirst, LoopRenamesFirst, SaveRaises
  <2> QED
    BY <1>2, <2>1, <2>2, PutAdds
<1> QED
  BY <1>1, <1>2

\* What a route leaves of a swing that is complete, that nobody waits for, and that
\* is not pending, once it is done: the swing as it was, or a current one.
LeftAlone(s) ==
  /\ state'[s] = state[s] /\ ~Queued(s) /\ s \notin lost
  /\ manifest[s] # None /\ manifest'[s].roles = manifest[s].roles

LEMMA LandingLeaves ==
  ASSUME TypedRun, consumer # "none", NEW p \in Phones, UploadLands(p), NEW s \in Swings,
         manifest'[s] # None, Complete(manifest'[s]), ~Queued(s)', ~Pending(s)', s \notin lost'
  PROVE  LeftAlone(s) \/ UpToDate(s, manifest[s])'
<1>1. StoreTypeOK /\ WorkerTypeOK /\ IngestTypeOK
  BY DEF TypedRun, TypeOK, IngestTypeOK
<1>2. uploads[p] # None /\ Land(uploads[p])
  BY DEF UploadLands, UploadFinish
<1>3. /\ uploads[p].role \in Roles /\ uploads[p].digest \in Digests
      /\ uploads[p].player \in Players \cup {None} /\ uploads[p].club \in Clubs \cup {None}
  BY <1>1, <1>2, UploadType
<1>4. PICK t \in Swings : t = Slot(uploads[p].day, uploads[p].role, uploads[p].digest, uploads[p].target)
  BY <1>2, SlotType DEF Land
<1>5. \A q \in Swings : manifest'[q] = manifest[q] \/ q = t
  <2> DEFINE u == uploads[p]
  <2>1. Assign(u.day, u.role, u.digest, u.target, u.player, u.club)
    BY <1>2 DEF Land
  <2>2. t = Slot(u.day, u.role, u.digest, u.target)
    BY <1>4
  <2> HIDE DEF u
  <2>3. /\ u.role \in Roles /\ u.digest \in Digests
        /\ u.player \in Players \cup {None} /\ u.club \in Clubs \cup {None}
    BY <1>3 DEF u
  <2>4. \A q \in Swings : manifest'[q] = manifest[q]
                           \/ (q = Slot(u.day, u.role, u.digest, u.target) /\ Written(q))
    BY <1>1, <2>1, <2>3, LandWrites
  <2> QED
    BY <2>2, <2>4
<1>6. IF Complete(manifest'[t]) THEN SubmitBesideRun(t, FALSE, manifest'[t])
      ELSE UNCHANGED <<state, lost, queue>>
  BY <1>4 DEF UploadLands
<1>7. manifest'[t] \in Manifest \cup {None}
  BY <1>1, UploadFinishType DEF UploadLands, IngestTypeOK, StoreTypeOK
<1>8. (Queued(s) => Queued(s)') /\ (s \in lost => s \in lost' \/ Queued(s)')
  BY <1>1, <1>6, <1>7, BesideAdds DEF Queued
<1>9. CASE s = t
  <2>1. SubmitBesideRun(t, FALSE, manifest'[t])
    BY <1>6, <1>9
  <2>2. CASE ~Refused(t, FALSE, manifest'[t])
    BY <1>1, <1>9, <2>1, <2>2, SubmitTouchesOne
  <2>3. CASE Refused(t, FALSE, manifest'[t])
    <3>1. UNCHANGED state
      BY <1>1, <2>1, <2>3, SubmitTouchesOne
    <3>2. UpToDate(t, manifest'[t]) \/ Pending(t)
      BY <1>9, <2>3 DEF Refused
    <3> QED
      BY <1>9, <3>1, <3>2 DEF UpToDate, Pending, Status, MatchesInputs
  <2> QED
    BY <2>2, <2>3
<1>10. CASE s # t
  <2>1. state'[s] = state[s]
    BY <1>1, <1>6, <1>10, SubmitTouchesOne
  <2> QED
    BY <1>5, <1>8, <1>10, <2>1 DEF LeftAlone
<1> QED
  BY <1>9, <1>10

GoesDown == ServerStopped \/ ServerDies \/ \E p \in Phones : ServerDiesLanding(p)

LEMMA RouteLeaves ==
  ASSUME Ledger, Next, ~WorkerSteps, ~ServerStarts, ~ServerStartRaises, ~GoesDown, consumer # "none",
         NEW s \in Swings, manifest'[s] # None, Complete(manifest'[s]), ~Queued(s)', ~Pending(s)',
         s \notin lost'
  PROVE  LeftAlone(s) \/ UpToDate(s, manifest[s])'
<1>0. TypedRun /\ StoreTypeOK /\ WorkerTypeOK
  BY DEF Ledger, TypedRun, TypeOK, IngestTypeOK
<1>1. ASSUME UNCHANGED <<state, lost, queue>>, manifest'[s] = manifest[s] \/ Retagged(s)
      PROVE  LeftAlone(s)
  BY <1>1 DEF LeftAlone, Queued, Retagged
<1>2. CASE EditCursorsOrTags
  <2>1. UNCHANGED <<state, lost, queue>>
    BY <1>2 DEF EditCursorsOrTags, workerVars
  <2> QED
    BY <1>0, <1>1, <1>2, <2>1, EditsAreIngests, EditWrites
<1>3. ASSUME NEW t \in Swings, AnalyzeSwing(t)
      PROVE  LeftAlone(s)
  <2>1. SubmitBesideRun(t, TRUE, manifest[t]) /\ UNCHANGED manifest /\ manifest[t] \in Manifest \cup {None}
    BY <1>0, <1>3 DEF AnalyzeSwing, ingestVars, StoreTypeOK
  <2>2. ~Queued(s) /\ s \notin lost
    BY <1>0, <2>1, BesideAdds
  <2>3. state'[s] = state[s]
    <3>1. CASE s = t
      <4>1. Refused(t, TRUE, manifest[t])
        BY <1>0, <2>1, <3>1, SubmitTouchesOne
      <4> QED
        BY <1>0, <2>1, <4>1, SubmitTouchesOne
    <3>2. CASE s # t
      BY <1>0, <2>1, <3>2, SubmitTouchesOne
    <3> QED
      BY <3>1, <3>2
  <2> QED
    BY <2>1, <2>2, <2>3 DEF LeftAlone
<1>4. ASSUME NEW t \in Swings, Delete(t)
      PROVE  LeftAlone(s)
  <2>1. /\ manifest' = [manifest EXCEPT ![t] = None] /\ state' = [state EXCEPT ![t] = None]
        /\ lost' = lost \ {t} /\ UNCHANGED queue
    BY <1>4 DEF Delete, DeleteSwing, ForgetSwing
  <2>2. s # t
    BY <1>0, <2>1 DEF StoreTypeOK
  <2>3. manifest'[s] = manifest[s] /\ state'[s] = state[s]
    BY <1>0, <2>1, <2>2 DEF StoreTypeOK, WorkerTypeOK
  <2> QED
    BY <2>1, <2>2, <2>3 DEF LeftAlone, Queued
<1>5. CASE ServerStops
  <2>1. queue' = Append(queue, None) /\ UNCHANGED <<state, lost, manifest>>
    BY <1>5 DEF ServerStops, Stop, ingestVars
  <2>2. Queued(s) => Queued(s)'
    BY <1>0, <2>1, QueuedAppend DEF WorkerTypeOK
  <2> QED
    BY <2>1, <2>2 DEF LeftAlone
<1>6. ASSUME NEW p \in Phones, UploadFails(p)
      PROVE  LeftAlone(s)
  <2>1. UNCHANGED <<state, lost, queue, manifest>>
    BY <1>6 DEF UploadFails, UploadAbort, workerVars
  <2> QED
    BY <1>1, <2>1
<1>7. ASSUME NEW p \in Phones, NEW r \in Roles, NEW digest \in Digests, NEW target \in Targets,
             UploadBegins(p, r, digest, target)
      PROVE  LeftAlone(s)
  <2>1. UNCHANGED <<state, lost, queue, manifest>>
    BY <1>7 DEF UploadBegins, UploadStart, workerVars
  <2> QED
    BY <1>1, <2>1
<1>8. CASE DayGoesBy
  <2>1. UNCHANGED <<state, lost, queue, manifest>>
    BY <1>8 DEF DayGoesBy, DayPasses, Midnight, workerVars
  <2> QED
    BY <1>1, <2>1
<1>9. ASSUME NEW p \in Phones, UploadLands(p)
      PROVE  LeftAlone(s) \/ UpToDate(s, manifest[s])'
  BY <1>0, <1>9, LandingLeaves
<1> QED
  BY <1>2, <1>3, <1>4, <1>5, <1>6, <1>7, <1>8, <1>9 DEF Next, GoesDown

LEMMA ReturnedCurrent ==
  ASSUME Current, Ledger', RunIsOfNow', Next
  PROVE  ReturnedIsCurrent'
<1>0. TypedRun /\ Ledger /\ StampsPast /\ WorkerTypeOK
  BY DEF Current, Ledger, TypedRun, TypeOK
<1> SUFFICES ASSUME At("returned")' PROVE Settled(pipe.swing)'
  BY DEF ReturnedIsCurrent
<1>1. /\ pipe' # None /\ pipe'.pc = "returned" /\ pipe' \in Pipeline /\ pipe'.swing \in Swings
      /\ job' # None /\ job'.swing = pipe'.swing
  BY DEF At, Ledger, TypedRun, TypeOK, WorkerTypeOK, Handshake, Pipeline
<1>2. CASE UNCHANGED <<job, pipe>>
  <2>1. PICK s \in Swings : s = pipe.swing
    BY <1>1, <1>2
  <2>2. At("returned") /\ Settled(s) /\ job # None /\ job.swing = s
    BY <1>1, <1>2, <2>1 DEF At, Current, ReturnedIsCurrent
  <2>3. consumer = "awaiting"
    BY <1>0, <2>2 DEF TypedRun, Handshake
  <2>4. SUFFICES ASSUME manifest'[s] # None, Complete(manifest'[s]), ~Queued(s)', s \notin lost'
                 PROVE  Status(s)' = "failed" \/ UpToDate(s, manifest[s])' \/ (pipe.ok /\ ~Untouched')
    BY <1>2, <2>1 DEF Settled
  <2>5. ~Pending(s)'
    BY <1>2, <2>1, <2>4 DEF Ledger, ReturnedIsSettled, At
  <2>6. LeftAlone(s) \/ UpToDate(s, manifest[s])'
    <3>1. ~WorkerSteps
      BY <1>2, <2>2, <2>3, <1>1 DEF WorkerSteps, Consume, Drop, Take, TakeRaises, TakeSentinel,
         Park, AtQueue, ResumeReturned, ResumeRaised, RunEnds, PipelineStep, PipelineLoad, PipelineRead,
         PipelineWrite, PipelineRecord, PipelineLay, PipelineBeaten, PipelineRaise, At
    <3>2. ~ServerStarts /\ ~ServerStartRaises
      BY <2>3 DEF ServerStarts, Start, ServerStartRaises, StartRaises
    <3>3. ~GoesDown
      BY <1>1 DEF GoesDown, ServerStopped, ServerDies, ServerDiesLanding, Dies, ProcessGone
    <3> QED
      BY <1>0, <2>3, <2>4, <2>5, <3>1, <3>2, <3>3, RouteLeaves
  <2>7. CASE LeftAlone(s)
    <3>1. Complete(manifest[s]) /\ manifest[s] # None /\ ~Queued(s) /\ s \notin lost
      BY <2>4, <2>7 DEF LeftAlone, Complete, MissingRoles
    <3>2. Status(s) = "failed" \/ UpToDate(s, manifest[s]) \/ (pipe.ok /\ ~Untouched)
      BY <2>2, <3>1 DEF Settled
    <3>3. Untouched' => Untouched
      BY <1>0, <1>2, UntouchedWasUntouched
    <3> QED
      BY <2>7, <3>2, <3>3 DEF LeftAlone, UpToDate, Status, MatchesInputs
  <2> QED
    BY <2>6, <2>7
<1>3. CASE WorkerSteps /\ Take
  <2>1. pipe'.pc = "load"
    BY <1>3 DEF Take, Begun
  <2> QED
    BY <1>1, <2>1
<1>4. CASE WorkerSteps /\ (PipelineStep \/ PipelineRaise) /\ UNCHANGED job
  <2>0. pipe \in Pipeline /\ pipe # None
    BY <1>0, <1>4 DEF PipelineStep, PipelineLoad, PipelineRead, PipelineWrite, PipelineRecord,
       PipelineLay, PipelineBeaten, PipelineRaise, At, WorkerTypeOK
  <2>a. ~PipelineLay /\ ~PipelineBeaten /\ ~PipelineRaise
    BY <1>1, <2>0 DEF PipelineLay, PipelineBeaten, PipelineRaise, Pipeline
  <2>1. Working
    BY <1>4, <2>a DEF PipelineStep, PipelineLoad, PipelineRead, PipelineWrite, PipelineRecord,
       At, Working
  <2>2. /\ pipe \in Pipeline /\ pipe.swing \in Swings /\ pipe.inputs \in Inputs
        /\ pipe.gone \in SUBSET Roles /\ job.swing = pipe.swing /\ pipe.ok \in BOOLEAN
        /\ manifest[pipe.swing] # None
    BY <1>0, <2>1, WhileWorking
  <2>3. PipelineRecord
    <3>1. CASE PipelineLoad
      BY <1>1, <2>2, <3>1 DEF PipelineLoad, Pipeline
    <3>2. CASE PipelineRead
      <4>1. \E usable, gone : pipe' = Past(usable, gone)
        BY <3>2 DEF PipelineRead
      <4> QED
        BY <1>1, <2>2, <4>1 DEF Past, Pipeline
    <3>3. CASE PipelineWrite
      BY <1>1, <2>2, <3>3 DEF PipelineWrite, Pipeline
    <3> QED
      BY <1>4, <2>a, <3>1, <3>2, <3>3 DEF PipelineStep
  <2>4. PICK s \in Swings : s = pipe.swing
    BY <2>2
  <2>5. /\ state'[s] = [status |-> IF pipe.ok THEN "done" ELSE "failed",
                        inputs |-> pipe.inputs, gone |-> pipe.gone]
        /\ state'[s] # None /\ UNCHANGED manifest
    <3>1. state'[s] = [status |-> IF pipe.ok THEN "done" ELSE "failed",
                        inputs |-> pipe.inputs, gone |-> pipe.gone]
      BY <1>0, <2>3, <2>4 DEF PipelineRecord, SaveState, Text, WorkerTypeOK
    <3>2. [status |-> IF pipe.ok THEN "done" ELSE "failed",
           inputs |-> pipe.inputs, gone |-> pipe.gone] \in Sidecar
      BY <2>2 DEF Sidecar
    <3> QED
      BY <1>4, <3>1, <3>2, WorkerConstants DEF WorkerSteps, ingestVars
  <2>6. pipe'.swing = s /\ pipe'.ok = pipe.ok /\ pipe.pc = "record"
    BY <2>2, <2>3, <2>4 DEF PipelineRecord, Pipeline, At
  <2>7. CASE ~pipe.ok
    BY <2>5, <2>6, <2>7 DEF Settled, Status
  <2>8. CASE pipe.ok /\ Untouched
    <3>1. manifest[s].roles = pipe.inputs
      BY <2>2, <2>4, <2>6, <2>8 DEF Current, RunIsOfNow
    <3> QED
      BY <2>5, <2>6, <2>8, <3>1 DEF Settled, Status, UpToDate, MatchesInputs
  <2>9. CASE pipe.ok /\ ~Untouched
    <3>1. ~Untouched'
      BY <1>4, <2>5, <2>9 DEF Untouched
    <3> QED
      BY <2>6, <2>9, <3>1 DEF Settled
  <2> QED
    BY <2>7, <2>8, <2>9
<1>5. ASSUME NEW s \in Swings, BesideRun(s)
      PROVE  Settled(pipe.swing)'
  BY <1>1, <1>5 DEF BesideRun, Settled
<1> QED
  BY <1>0, <1>1, <1>2, <1>3, <1>4, <1>5, RunMoves

LEMMA WorkerKeepsDone ==
  ASSUME Current, WorkerSteps, server = "up", NEW s \in Swings,
         manifest[s] # None, Complete(manifest[s]), ~Owned(s)',
         s[1] = today, s \notin lost'
  PROVE  Status(s)' = "failed" \/ UpToDate(s, manifest[s])'
<1>0. TypedRun /\ Ledger /\ WorkerTypeOK /\ StoreTypeOK /\ Handshake
  BY DEF Current, Ledger, TypedRun, TypeOK, IngestTypeOK
<1>1. UNCHANGED manifest
  BY DEF WorkerSteps, ingestVars
<1>2. ~Queued(s)' /\ ~(job' # None /\ job'.swing = s)
  BY DEF Owned
<1>3. ASSUME state'[s] = state[s], Status(s) = "failed" \/ UpToDate(s, manifest[s])
      PROVE  Status(s)' = "failed" \/ UpToDate(s, manifest[s])'
  BY <1>1, <1>3 DEF UpToDate, Status, MatchesInputs
<1>4. ASSUME ~Owned(s), s \notin lost
      PROVE  Status(s) = "failed" \/ UpToDate(s, manifest[s])
  BY <1>4 DEF Current, DoneIsCurrent
<1>5. CASE PipelineStep \/ PipelineRaise
  <2>1. PipeMoves
    BY <1>0, <1>5, PipelineType
  <2>2. job # None /\ job.swing = pipe.swing /\ pipe.swing # s /\ UNCHANGED <<queue, job, lost>>
    BY <1>0, <1>2, <1>5, <2>1 DEF PipeMoves, Handshake, PipelineStep, PipelineLoad, PipelineRead,
       PipelineWrite, PipelineRecord, PipelineLay, PipelineBeaten, PipelineRaise
  <2>3. state'[s] = state[s]
    BY <1>0, <1>5, <2>2 DEF PipelineStep, PipelineLoad, PipelineRead, PipelineWrite,
       PipelineRecord, PipelineLay, PipelineBeaten, PipelineRaise, Published, SaveState, WorkerTypeOK
  <2>4. ~Owned(s) /\ s \notin lost
    BY <1>2, <2>2 DEF Owned, Queued
  <2> QED
    BY <1>3, <1>4, <2>3, <2>4
<1>6. CASE Park
  BY <1>2, <1>3, <1>4, <1>6 DEF Park, Owned, Queued
<1>7. CASE TakeSentinel
  <2>1. queue # <<>> /\ Head(queue) = None
    BY <1>7 DEF TakeSentinel, AtQueue
  <2>2. \A i \in 1..Len(queue) : queue[i] # None
    BY DEF Current, Listening
  <2> QED
    BY <1>0, <2>1, <2>2, LenProperties, HeadTailProperties DEF WorkerTypeOK
<1>8. CASE Drop
  <2>1. /\ queue # <<>> /\ queue' = Tail(queue) /\ Head(queue) # None
        /\ NothingToDo(Head(queue)) /\ UNCHANGED <<state, lost, job>>
    BY <1>8 DEF Drop, AtQueue
  <2>2. CASE Head(queue).swing = s
    <3>1. UpToDate(s, manifest[s])
      BY <2>1, <2>2 DEF NothingToDo
    <3> QED
      BY <1>3, <2>1, <3>1
  <2>3. CASE Head(queue).swing # s
    <3>1. ~Queued(s)
      BY <1>0, <1>2, <2>1, <2>3, QueuedTail DEF WorkerTypeOK
    <3>2. ~Owned(s)
      BY <1>2, <2>1, <3>1 DEF Owned
    <3> QED
      BY <1>3, <1>4, <2>1, <3>2
  <2> QED
    BY <2>2, <2>3
<1>9. CASE Take
  <2>1. PICK t \in Swings : t = Head(queue).swing
    BY <1>0, <1>9, QueueHead DEF Take, Job
  <2>2. /\ queue # <<>> /\ queue' = Tail(queue) /\ AtQueue
        /\ job' = [swing |-> t, seen |-> manifest[t].updated, inputs |-> manifest[t].roles]
        /\ SaveState(t, "running", manifest[t].roles, {}) /\ lost' = lost \ {t}
    BY <1>9, <2>1 DEF Take, Saves, AtQueue
  <2>3. job = None /\ job' # None /\ t # s
    <3>1. job = None
      BY <1>0, <2>2 DEF AtQueue, Handshake
    <3>2. job' # None
      BY <1>0, <1>9, TakeType DEF Take, Handshake
    <3> QED
      BY <1>2, <2>2, <3>1, <3>2
  <2>4. ~Queued(s)
    BY <1>0, <1>2, <2>1, <2>2, <2>3, QueuedTail DEF WorkerTypeOK
  <2>5. ~Owned(s)
    BY <2>3, <2>4 DEF Owned
  <2>6. state'[s] = state[s]
    BY <1>0, <2>2, <2>3 DEF SaveState, WorkerTypeOK
  <2> QED
    BY <1>3, <1>4, <2>2, <2>3, <2>5, <2>6
<1>10. CASE ResumeReturned \/ ResumeRaised
  <2>1. consumer = "awaiting" /\ job' = None
    BY <1>10 DEF ResumeReturned, ResumeRaised, RunEnds
  <2>2. job # None /\ job \in Run /\ pipe # None /\ pipe.swing = job.swing
    BY <1>0, <2>1 DEF Handshake, WorkerTypeOK
  <2>3. PICK t \in Swings : t = job.swing
    BY <2>2 DEF Run
  <2>4. manifest[t] \in Manifest \cup {None} /\ job.inputs \in Inputs
    BY <1>0, <2>2 DEF StoreTypeOK, Run
  <2>5. CASE ResumeRaised
    <3>1. UNCHANGED queue /\ (Saves(t, "failed", job.inputs) \/ SaveRaises(t))
      BY <2>3, <2>5 DEF ResumeRaised
    <3>2. CASE s = t
      <4>0. Saves(t, "failed", job.inputs)
        BY <3>1, <3>2 DEF SaveRaises
      <4>1. state'[s] = [status |-> "failed", inputs |-> job.inputs, gone |-> {}]
        BY <1>0, <3>2, <4>0 DEF Saves, SaveState, Text, WorkerTypeOK
      <4>2. [status |-> "failed", inputs |-> job.inputs, gone |-> {}] \in Sidecar
        BY <2>4 DEF Sidecar
      <4>3. state'[s] \in Sidecar
        BY <4>1, <4>2
      <4>4. state'[s] # None
        BY <4>3, WorkerConstants
      <4>5. state'[s].status = "failed"
        BY <4>1
      <4> QED
        BY <4>4, <4>5 DEF Status
    <3>3. CASE s # t
      <4>1. state'[s] = state[s] /\ s \notin lost
        BY <1>0, <3>1, <3>3 DEF Saves, SaveRaises, SaveState, WorkerTypeOK
      <4>2. ~Owned(s)
        BY <1>2, <2>3, <3>1, <3>3 DEF Owned, Queued
      <4> QED
        BY <1>3, <1>4, <4>1, <4>2
    <3> QED
      BY <3>2, <3>3
  <2>6. CASE ResumeReturned
    <3>1. At("returned")
          /\ IF pipe.ok /\ manifest[t] # None /\ manifest[t].updated # job.seen /\ Complete(manifest[t])
               THEN Submit(t, TRUE, manifest[t])
               ELSE UNCHANGED <<state, lost, queue>>
      BY <2>3, <2>6 DEF ResumeReturned
    <3>2. CASE UNCHANGED <<state, lost, queue>>
      <4>1. ~Queued(s)
        BY <1>2, <3>2 DEF Queued
      <4>2. CASE s = t
        <5>1. Settled(s)
          BY <2>2, <2>3, <3>1, <4>2 DEF Current, ReturnedIsCurrent
        <5>2. CASE pipe.ok /\ ~Untouched
          <6>1. Submit(s, TRUE, manifest[s])
            BY <2>2, <2>3, <3>1, <4>2, <5>2 DEF Untouched
          <6>2. ~Refused(s, TRUE, manifest[s])
            BY <2>1 DEF Refused
          <6> QED
            BY <1>0, <1>2, <6>1, <6>2, SubmitTouchesOne
        <5>3. CASE Status(s) = "failed" \/ UpToDate(s, manifest[s])
          BY <1>3, <3>2, <5>3
        <5> QED
          BY <3>2, <4>1, <5>1, <5>2, <5>3 DEF Settled
      <4>3. CASE s # t
        BY <1>3, <1>4, <2>3, <3>2, <4>1, <4>3 DEF Owned
      <4> QED
        BY <4>2, <4>3
    <3>3. CASE Submit(t, TRUE, manifest[t]) /\ manifest[t] # None
      <4>1. ~Refused(t, TRUE, manifest[t])
        BY <2>1, <3>3 DEF Refused
      <4>2. /\ Queued(t)' \/ t \in lost'
            /\ Queued(s) => Queued(s)'
            /\ s # t => state'[s] = state[s] /\ (s \in lost' <=> s \in lost)
        BY <1>0, <2>4, <3>3, <4>1, SubmitTouchesOne, SubmitAdds
      <4>3. s # t /\ ~Owned(s) /\ s \notin lost
        BY <1>2, <2>3, <4>2 DEF Owned
      <4> QED
        BY <1>3, <1>4, <4>2, <4>3
    <3> QED
      BY <3>1, <3>2, <3>3
  <2> QED
    BY <1>10, <2>5, <2>6
<1>11. CASE TakeRaises
  <2>1. PICK t \in Swings : t = Head(queue).swing
    BY <1>0, <1>11, QueueHead DEF TakeRaises, Job
  <2>2. /\ queue # <<>> /\ queue' = Tail(queue) /\ UNCHANGED <<state, job>>
        /\ lost' = lost \cup {t}
    BY <1>11, <2>1 DEF TakeRaises, SaveRaises, AtQueue
  <2>3. ~Queued(s) /\ s \notin lost
    BY <1>0, <1>2, <2>1, <2>2, QueuedTail DEF WorkerTypeOK
  <2>4. ~Owned(s)
    BY <1>2, <2>2, <2>3 DEF Owned
  <2> QED
    BY <1>3, <1>4, <2>2, <2>3, <2>4
<1> QED
  BY <1>5, <1>6, <1>7, <1>8, <1>9, <1>10, <1>11 DEF WorkerSteps, Consume

\* Neither a route nor midnight ends a run, and a server that is up stays up or is
\* told to stop.
LEMMA RoutesStay ==
  ASSUME Next, ~WorkerSteps, ~ServerStarts, ~ServerStartRaises, ~GoesDown
  PROVE  UNCHANGED job /\ (UNCHANGED server \/ ServerStops)
<1>1. CASE EditCursorsOrTags
  BY <1>1 DEF EditCursorsOrTags, Serving, workerVars
<1>2. CASE DayGoesBy
  BY <1>2 DEF DayGoesBy, workerVars
<1>3. ASSUME NEW p \in Phones, UploadFails(p) \/ UploadLands(p)
      PROVE  UNCHANGED <<job, server>>
  BY <1>3 DEF UploadFails, UploadLands, Serving, workerVars
<1>4. ASSUME NEW p \in Phones, NEW r \in Roles, NEW digest \in Digests, NEW target \in Targets,
             UploadBegins(p, r, digest, target)
      PROVE  UNCHANGED <<job, server>>
  BY <1>4 DEF UploadBegins, Serving, workerVars
<1>5. ASSUME NEW s \in Swings, AnalyzeSwing(s) \/ Delete(s)
      PROVE  UNCHANGED <<job, server>>
  BY <1>5 DEF AnalyzeSwing, Delete, ForgetSwing, Serving
<1>6. CASE ServerStops
  BY <1>6 DEF ServerStops, Stop
<1> QED
  BY <1>1, <1>2, <1>3, <1>4, <1>5, <1>6 DEF Next, GoesDown

LEMMA OnlyTimePasses ==
  ASSUME TypedRun, Next, ~DayGoesBy
  PROVE  UNCHANGED today
<1>1. CASE EditCursorsOrTags
  BY <1>1, EditsStay
<1>2. ASSUME NEW p \in Phones, UploadLands(p)
      PROVE  UNCHANGED today
  <2>1. uploads[p] # None /\ Land(uploads[p])
    BY <1>2 DEF UploadLands, UploadFinish
  <2> QED
    BY <2>1 DEF Land, Assign, Place, storeVars
<1>3. ASSUME NEW p \in Phones, UploadFails(p) \/ ServerDiesLanding(p)
      PROVE  UNCHANGED today
  BY <1>3 DEF UploadFails, UploadAbort, ServerDiesLanding, CrashDuring, AssignCutShort, PlaceCutShort
<1>4. ASSUME NEW p \in Phones, NEW r \in Roles, NEW digest \in Digests, NEW target \in Targets,
             UploadBegins(p, r, digest, target)
      PROVE  UNCHANGED today
  BY <1>4 DEF UploadBegins, UploadStart
<1>5. ASSUME NEW s \in Swings, AnalyzeSwing(s) \/ Delete(s)
      PROVE  UNCHANGED today
  BY <1>5 DEF AnalyzeSwing, Delete, DeleteSwing, ingestVars
<1>6. CASE ServerStarts \/ ServerStartRaises \/ ServerStops \/ ServerStopped \/ ServerDies \/ WorkerSteps
  BY <1>6 DEF ServerStarts, ServerStartRaises, ServerStops, ServerStopped, ServerDies, CrashBetween,
     WorkerSteps, ingestVars
<1> QED
  BY <1>1, <1>2, <1>3, <1>4, <1>5, <1>6 DEF Next

LEMMA DoneCurrent ==
  ASSUME Current, Ledger', Next
  PROVE  DoneIsCurrent'
<1>0. TypedRun /\ Ledger /\ StampsPast /\ WorkerTypeOK /\ StoreTypeOK
  BY DEF Current, Ledger, TypedRun, TypeOK, IngestTypeOK
<1> SUFFICES ASSUME server' = "up", NEW s \in Swings, s \notin lost', s[1] = today', manifest'[s] # None,
                    Complete(manifest'[s]), ~Owned(s)'
             PROVE  Status(s)' = "failed" \/ UpToDate(s, manifest[s])'
  BY DEF DoneIsCurrent
<1>1. CASE ServerStarts
  <2>1. Start /\ UNCHANGED <<manifest, today>>
    BY <1>1 DEF ServerStarts, ingestVars
  <2>2. s \notin Recovered
    BY <1>0, <2>1, RecoveredAreQueued DEF Owned
  <2>3. state'[s] = state[s]
    BY <2>1, <2>2, StartSays
  <2>4. ~Orphaned(s) /\ ~Overdue(s)
    BY <2>1, <2>2 DEF Recovered
  <2>5. state[s] # None => state[s] \in Sidecar
    BY <1>0 DEF WorkerTypeOK
  <2>6. Status(s) = "failed" \/ UpToDate(s, manifest[s])
    BY <2>1, <2>4, <2>5 DEF Orphaned, Overdue, Pending, Status, UpToDate, Sidecar
  <2> QED
    BY <2>1, <2>3, <2>6 DEF Status, UpToDate, MatchesInputs
<1>2. CASE WorkerSteps
  <2>1. server = "up" /\ UNCHANGED <<manifest, today>>
    BY <1>2 DEF WorkerSteps, ingestVars
  <2> QED
    BY <1>2, <2>1, WorkerKeepsDone
<1>3. CASE ~ServerStarts /\ ~ServerStartRaises /\ ~WorkerSteps
  <2>1. server = "up" /\ ~GoesDown /\ UNCHANGED job
    <3>1. ~ServerStops /\ ~GoesDown
      BY DEF GoesDown, ServerStops, ServerStopped, ServerDies, ServerDiesLanding, Dies
    <3> QED
      BY <1>3, <3>1, RoutesStay
  <2>2. consumer # "none"
    BY <2>1 DEF Current, Listening
  <2>3. today' = today
    <3>1. CASE DayGoesBy
      <4>1. today' = today + 1 /\ manifest'[s] = manifest[s] /\ today \in Nat
        BY <1>0, <3>1, StoreConstants DEF DayGoesBy, DayPasses, Midnight, StoreTypeOK, Days
      <4>2. s[1] <= today
        BY <4>1 DEF Ledger, Current, NothingAhead
      <4> QED
        BY <4>1, <4>2
    <3>2. CASE ~DayGoesBy
      BY <1>0, <1>3, <2>1, <3>2, OnlyTimePasses DEF GoesDown
    <3> QED
      BY <3>1, <3>2
  <2>4. ~Pending(s)' /\ ~Queued(s)'
    BY DEF Ledger, PendingIsOwned, Owned
  <2>5. LeftAlone(s) \/ UpToDate(s, manifest[s])'
    BY <1>0, <1>3, <2>1, <2>2, <2>4, RouteLeaves
  <2>6. CASE LeftAlone(s)
    <3>1. Complete(manifest[s]) /\ manifest[s] # None /\ ~Owned(s) /\ s \notin lost
      BY <2>1, <2>6 DEF LeftAlone, Complete, MissingRoles, Owned
    <3>2. Status(s) = "failed" \/ UpToDate(s, manifest[s])
      BY <2>1, <2>3, <3>1 DEF Current, DoneIsCurrent
    <3> QED
      BY <2>6, <3>2 DEF LeftAlone, UpToDate, Status, MatchesInputs
  <2> QED
    BY <2>5, <2>6
<1>4. CASE ServerStartRaises
  BY <1>4 DEF ServerStartRaises
<1> QED
  BY <1>1, <1>2, <1>3, <1>4

LEMMA CurrentInit == Init => Current
<1> SUFFICES ASSUME Init PROVE Current
  OBVIOUS
<1>1. pipe = None /\ job = None /\ server = "down" /\ \A s \in Swings : manifest[s] = None
  BY DEF Init, WorkerInit, IngestInit, StoreInit
<1> QED
  BY <1>1, LedgerInit DEF Current, StampsPast, RunIsOfNow, Untouched, ReturnedIsCurrent, At,
     Listening, DoneIsCurrent

LEMMA CurrentNext == Current /\ [Next]_vars => Current'
<1> SUFFICES ASSUME Current, [Next]_vars PROVE Current'
  OBVIOUS
<1>0. Ledger' /\ TypedRun
  BY LedgerNext DEF Current, Ledger
<1>1. CASE Next
  <2>1. StampsPast' /\ Listening'
    BY <1>0, <1>1, StampsCurrent, ListeningCurrent DEF Current
  <2>2. RunIsOfNow'
    BY <1>1, RunCurrent
  <2>3. ReturnedIsCurrent' /\ DoneIsCurrent'
    BY <1>0, <1>1, <2>2, ReturnedCurrent, DoneCurrent
  <2> QED
    BY <1>0, <2>1, <2>2, <2>3 DEF Current
<1>2. CASE UNCHANGED vars
  <2>1. UNCHANGED <<manifest, clock, state, lost, queue, consumer, job, pipe, server, today>>
    BY <1>2 DEF vars, ingestVars, workerVars
  <2>2. StampsPast' /\ RunIsOfNow' /\ Listening'
    BY <2>1 DEF Current, StampsPast, RunIsOfNow, Untouched, Listening
  <2>3. ReturnedIsCurrent'
    BY <2>1 DEF Current, ReturnedIsCurrent, At, Settled, Queued, Status, UpToDate, MatchesInputs, Untouched
  <2>4. DoneIsCurrent'
    BY <2>1 DEF Current, DoneIsCurrent, Owned, Queued, Status, UpToDate, MatchesInputs
  <2> QED
    BY <1>0, <2>2, <2>3, <2>4 DEF Current
<1> QED
  BY <1>1, <1>2

\* A complete bundle that was analyzed successfully is current, or a run that makes
\* it so is on its way, whenever a file lands: before a run, during one or after it,
\* and however often the server is killed and started in between, save where the
\* loop's last save of the swing's sidecar raised.
THEOREM DoneStaysCurrent == Spec => []DoneIsCurrent
<1>1. Current => DoneIsCurrent
  BY DEF Current
<1> QED
  BY <1>1, CurrentInit, CurrentNext, PTL DEF Spec

-----------------------------------------------------------------------------
(* What counts as current was computed from everything it names. *)

\* Short of a crash, what a manifest names is there.
NamedOnDisk ==
  crashes = 0 =>
    \A s \in Swings : manifest[s] # None =>
      \A r \in Roles : manifest[s].roles[r] # None => <<r, manifest[s].roles[r]>> \in files[s]

\* A run whose swing nobody wrote to finds all of it.
NothingMissed == crashes = 0 /\ Working /\ Untouched => pipe.gone = {}

\* What a run read of a manifest, and what a sidecar says it read, is a part of what
\* the manifest has come to name: a role is replaced, never taken back.
Underway == Working \/ At("lay")

RolesOnlyGrow ==
  /\ Underway =>
       /\ manifest[pipe.swing] # None
       /\ \A r \in Roles : pipe.inputs[r] # None => manifest[pipe.swing].roles[r] # None
  /\ \A s \in Swings : Status(s) = "done" =>
       /\ manifest[s] # None
       /\ \A r \in Roles : state[s].inputs[r] # None => manifest[s].roles[r] # None

\* A result that missed something is one the worker is about to have redone, or, its
\* save having crossed with a route's, is about to call failed.
Failing(s) == pipe # None /\ pipe.pc \in {"beaten", "raised"} /\ pipe.swing = s

GoneIsRedone ==
  crashes = 0 =>
    \A s \in Swings \ lost :
      Status(s) = "done" /\ state[s].gone # {} /\ (\A r \in Roles : state[s].inputs[r] # None) =>
        \/ At("returned") /\ pipe.swing = s /\ pipe.ok /\ ~Untouched
        \/ Failing(s)

AllFound == Current /\ Told /\ NamedOnDisk /\ NothingMissed /\ RolesOnlyGrow /\ GoneIsRedone

LEMMA NoCrashBefore ==
  ASSUME TypedRun, Next, crashes' = 0
  PROVE  crashes = 0 /\ ~Dies
<1>1. crashes \in Nat
  BY ServerConstants DEF TypedRun, TypeOK
<1>2. ~Dies
  BY <1>1 DEF Dies
<1>3. ASSUME EditCursorsOrTags
      PROVE  UNCHANGED crashes
  BY <1>3 DEF EditCursorsOrTags, Serving
<1>4. ASSUME DayGoesBy \/ WorkerSteps \/ ServerStarts \/ ServerStartRaises \/ ServerStops \/ ServerStopped
      PROVE  UNCHANGED crashes
  BY <1>4 DEF DayGoesBy, WorkerSteps, ServerStarts, ServerStartRaises, ServerStops, ServerStopped
<1>5. ASSUME NEW p \in Phones, UploadFails(p) \/ UploadLands(p)
      PROVE  UNCHANGED crashes
  BY <1>5 DEF UploadFails, UploadLands, Serving
<1>6. ASSUME NEW p \in Phones, NEW r \in Roles, NEW digest \in Digests, NEW target \in Targets,
             UploadBegins(p, r, digest, target)
      PROVE  UNCHANGED crashes
  BY <1>6 DEF UploadBegins, Serving
<1>7. ASSUME NEW s \in Swings, AnalyzeSwing(s) \/ Delete(s)
      PROVE  UNCHANGED crashes
  BY <1>7 DEF AnalyzeSwing, Delete, Serving
<1> QED
  BY <1>2, <1>3, <1>4, <1>5, <1>6, <1>7 DEF Next, ServerDies, ServerDiesLanding

LEMMA NamedFound ==
  ASSUME TypedRun, NamedOnDisk, Next
  PROVE  NamedOnDisk'
<1>0. StoreTypeOK /\ IngestTypeOK
  BY DEF TypedRun, TypeOK, IngestTypeOK
<1> SUFFICES ASSUME crashes' = 0, NEW t \in Swings, manifest'[t] # None,
                    NEW q \in Roles, manifest'[t].roles[q] # None
             PROVE  <<q, manifest'[t].roles[q]>> \in files'[t]
  BY DEF NamedOnDisk
<1>1. crashes = 0 /\ ~Dies
  BY NoCrashBefore
<1>2. manifest[t] # None /\ manifest[t].roles[q] # None => <<q, manifest[t].roles[q]>> \in files[t]
  BY <1>1 DEF NamedOnDisk
<1>3. ASSUME UNCHANGED files, manifest'[t] = manifest[t] \/ Retagged(t)
      PROVE  <<q, manifest'[t].roles[q]>> \in files'[t]
  BY <1>2, <1>3 DEF Retagged
<1>4. ASSUME NEW p \in Phones, UploadLands(p)
      PROVE  <<q, manifest'[t].roles[q]>> \in files'[t]
  <2> DEFINE u == uploads[p]
  <2>1. u # None /\ Assign(u.day, u.role, u.digest, u.target, u.player, u.club)
    BY <1>4 DEF UploadLands, UploadFinish, Land
  <2>2. /\ u.role \in Roles /\ u.digest \in Digests
        /\ u.player \in Players \cup {None} /\ u.club \in Clubs \cup {None}
    BY <1>0, <2>1, UploadType
  <2> HIDE DEF u
  <2> QED
    BY <1>0, <1>2, <2>1, <2>2, LandNamed
<1>5. ASSUME NEW s \in Swings, Delete(s)
      PROVE  <<q, manifest'[t].roles[q]>> \in files'[t]
  <2>1. /\ manifest' = [manifest EXCEPT ![s] = None]
        /\ files' = [files EXCEPT ![s] = {}]
    BY <1>5 DEF Delete, DeleteSwing
  <2>2. t # s
    BY <1>0, <2>1 DEF StoreTypeOK
  <2>3. manifest'[t] = manifest[t] /\ files'[t] = files[t]
    BY <1>0, <2>1, <2>2 DEF StoreTypeOK
  <2> QED
    BY <1>2, <2>3
<1>6. CASE EditCursorsOrTags
  <2>1. UNCHANGED files
    BY <1>6, EditsStay
  <2> QED
    BY <1>0, <1>3, <1>6, <2>1, EditsAreIngests, EditWrites
<1>7. CASE /\ ~EditCursorsOrTags
           /\ \A p \in Phones : ~UploadLands(p)
           /\ \A s \in Swings : ~Delete(s)
  <2>1. UNCHANGED manifest
    BY <1>7, StoreStays
  <2>2. UNCHANGED files
    <3>1. ASSUME NEW p \in Phones, UploadFails(p)
          PROVE  UNCHANGED files
      BY <3>1 DEF UploadFails, UploadAbort
    <3>2. ASSUME NEW p \in Phones, NEW r \in Roles, NEW digest \in Digests, NEW target \in Targets,
                 UploadBegins(p, r, digest, target)
          PROVE  UNCHANGED files
      BY <3>2 DEF UploadBegins, UploadStart
    <3>3. CASE ServerStarts \/ ServerStartRaises \/ ServerStops \/ ServerStopped \/ WorkerSteps \/ DayGoesBy
      BY <3>3 DEF ServerStarts, ServerStartRaises, ServerStops, ServerStopped, WorkerSteps,
         DayGoesBy, DayPasses, Midnight, ingestVars
    <3>4. ASSUME NEW s \in Swings, AnalyzeSwing(s)
          PROVE  UNCHANGED files
      BY <3>4 DEF AnalyzeSwing, ingestVars
    <3> QED
      BY <1>1, <1>7, <3>1, <3>2, <3>3, <3>4 DEF Next, ServerDies, ServerDiesLanding
  <2> QED
    BY <1>3, <2>1, <2>2
<1> QED
  BY <1>4, <1>5, <1>6, <1>7

LEMMA ReadFinds ==
  ASSUME TypedRun, Ledger, RunIsOfNow, NamedOnDisk, PipelineRead, crashes = 0, Untouched
  PROVE  \E usable : pipe' = Past(usable, pipe.gone)
<1>1. Working
  BY DEF PipelineRead, At, Working
<1>2. /\ pipe \in Pipeline /\ pipe.swing \in Swings /\ job.swing = pipe.swing
      /\ pipe.pc = "read" /\ pipe # None /\ manifest[pipe.swing] # None
  BY <1>1, WhileWorking DEF PipelineRead, At
<1>3. RoleOrder[pipe.next] \in Roles
  <2>1. pipe.next \in 1..Len(RoleOrder)
    BY <1>2 DEF TypedRun, Handshake
  <2> QED
    BY <2>1, WorkerConstants
<1>4. PICK r \in Roles : r = RoleOrder[pipe.next]
  BY <1>3
<1>5. pipe.inputs = manifest[pipe.swing].roles
  BY <1>2 DEF RunIsOfNow
<1>6. pipe.inputs[r] # None => OnDisk(pipe.swing, r, pipe.inputs[r])
  BY <1>2, <1>5 DEF NamedOnDisk, OnDisk
<1> QED
  BY <1>4, <1>6 DEF PipelineRead

LEMMA PastKeeps ==
  ASSUME pipe \in Pipeline, NEW usable, NEW gone
  PROVE  /\ Past(usable, gone).gone = gone /\ Past(usable, gone).inputs = pipe.inputs
         /\ Past(usable, gone).swing = pipe.swing
BY DEF Past, Pipeline

LEMMA MissedNothing ==
  ASSUME AllFound, Next
  PROVE  NothingMissed'
<1>0. TypedRun /\ Ledger /\ StampsPast /\ RunIsOfNow /\ NamedOnDisk
  BY DEF AllFound, Current, Ledger
<1> SUFFICES ASSUME crashes' = 0, Working', Untouched'
             PROVE  pipe'.gone = {}
  BY DEF NothingMissed
<1>1. crashes = 0
  BY <1>0, NoCrashBefore
<1>2. CASE UNCHANGED <<job, pipe>>
  <2>1. Untouched /\ Working
    BY <1>0, <1>2, UntouchedWasUntouched DEF Working
  <2> QED
    BY <1>1, <1>2, <2>1 DEF AllFound, NothingMissed
<1>3. CASE Take
  <2>1. \E s : pipe' = Begun(s)
    BY <1>3 DEF Take
  <2> QED
    BY <2>1 DEF Begun
<1>4. CASE pipe' = None
  BY <1>4 DEF Working
<1>5. CASE WorkerSteps /\ (PipelineStep \/ PipelineRaise) /\ UNCHANGED job
  <2>0. ~PipelineLay /\ ~PipelineBeaten /\ ~PipelineRaise
    BY <1>0 DEF PipelineLay, PipelineBeaten, PipelineRaise, At, Working, TypedRun, TypeOK,
       WorkerTypeOK, Pipeline
  <2>1. Working
    BY <1>5, <2>0 DEF PipelineStep, PipelineLoad, PipelineRead, PipelineWrite, PipelineRecord,
       At, Working
  <2>2. pipe \in Pipeline /\ Untouched
    BY <1>0, <1>5, <2>1, WhileWorking, UntouchedWasUntouched
  <2>3. pipe.gone = {}
    BY <1>1, <2>1, <2>2 DEF AllFound, NothingMissed
  <2>4. CASE PipelineRead
    BY <1>0, <1>1, <2>2, <2>3, <2>4, ReadFinds, PastKeeps
  <2>5. CASE PipelineLoad \/ PipelineWrite \/ PipelineRecord
    <3>1. pipe'.gone = pipe.gone
      <4>1. CASE PipelineLoad
        BY <2>2, <4>1 DEF PipelineLoad, Pipeline
      <4>2. CASE PipelineWrite
        BY <2>2, <4>2 DEF PipelineWrite, Pipeline
      <4>3. CASE PipelineRecord
        BY <2>2, <4>3 DEF PipelineRecord, Pipeline
      <4> QED
        BY <2>5, <4>1, <4>2, <4>3
    <3> QED
      BY <2>3, <3>1
  <2> QED
    BY <1>5, <2>0, <2>4, <2>5 DEF PipelineStep
<1>6. CASE \E s \in Swings : BesideRun(s)
  BY <1>6 DEF BesideRun, Working
<1> QED
  BY <1>0, <1>2, <1>3, <1>4, <1>5, <1>6, RunMoves

LEMMA UnderwayKept ==
  ASSUME Ledger, RolesOnlyGrow, Next, Underway,
         UNCHANGED pipe \/ (Working /\ \E s : BesideRun(s))
  PROVE  /\ manifest'[pipe'.swing] # None
         /\ \A r \in Roles : pipe'.inputs[r] # None => manifest'[pipe'.swing].roles[r] # None
<1>0. TypedRun /\ pipe \in Pipeline /\ pipe # None
  BY DEF Ledger, TypedRun, TypeOK, WorkerTypeOK, Underway, Working, At
<1>1. PICK s \in Swings : s = pipe.swing
  BY <1>0 DEF Pipeline
<1>2. /\ manifest[s] # None
      /\ \A r \in Roles : pipe.inputs[r] # None => manifest[s].roles[r] # None
  BY <1>1 DEF RolesOnlyGrow
<1>3. ~Delete(s)
  <2>1. CASE Working
    BY <1>1, <2>1, WhileWorking
  <2>2. CASE At("lay") /\ UNCHANGED pipe
    BY <1>0, <1>1, <2>2 DEF Delete, ForgetSwing, Outrun, At, Pipeline
  <2> QED
    BY <2>1, <2>2 DEF Underway
<1>4. manifest'[s] = manifest[s] \/ Written(s)
  BY <1>0, <1>3, StoreMoves
<1>5. pipe'.swing = s /\ pipe'.inputs = pipe.inputs
  BY <1>1 DEF BesideRun
<1> QED
  BY <1>2, <1>4, <1>5 DEF Written

LEMMA RolesGrow ==
  ASSUME Ledger, RolesOnlyGrow, Next
  PROVE  RolesOnlyGrow'
<1>0. TypedRun /\ WorkerTypeOK /\ TypedRun'
  BY TypedNext DEF Ledger, TypedRun, TypeOK
<1>1. ASSUME Underway'
      PROVE  /\ manifest'[pipe'.swing] # None
             /\ \A r \in Roles : pipe'.inputs[r] # None => manifest'[pipe'.swing].roles[r] # None
  <2>1. CASE UNCHANGED <<job, pipe>>
    BY <1>1, <2>1, UnderwayKept DEF Underway, Working, At
  <2>2. CASE WorkerSteps /\ Take
    <3>1. PICK s : s = Head(queue).swing
      OBVIOUS
    <3>2. pipe' = Begun(s) /\ manifest[s] # None /\ UNCHANGED manifest
      BY <2>2, <3>1 DEF Take, NothingToDo, WorkerSteps, ingestVars
    <3>3. pipe'.swing = s /\ \A r \in Roles : pipe'.inputs[r] = None
      BY <3>2 DEF Begun, Nothing
    <3> QED
      BY <3>2, <3>3
  <2>3. CASE pipe' = None
    BY <1>1, <2>3 DEF Underway, Working, At
  <2>4. CASE WorkerSteps /\ (PipelineStep \/ PipelineRaise)
    <3>1. pipe # None /\ pipe \in Pipeline /\ UNCHANGED manifest
      BY <1>0, <2>4 DEF PipelineStep, PipelineLoad, PipelineRead, PipelineWrite, PipelineRecord,
         PipelineLay, PipelineBeaten, PipelineRaise, At, WorkerSteps, ingestVars, WorkerTypeOK
    <3>2. ~PipelineLay /\ ~PipelineBeaten /\ ~PipelineRaise /\ ~PipelineRecord
      BY <1>1, <3>1 DEF PipelineLay, PipelineBeaten, PipelineRaise, PipelineRecord, Underway, Working,
         At, Pipeline
    <3>3. Working
      BY <2>4, <3>2 DEF PipelineStep, PipelineLoad, PipelineRead, PipelineWrite, At, Working
    <3>4. manifest[pipe.swing] # None
      BY <3>3, WhileWorking
    <3>5. CASE PipelineLoad
      <4>1. pipe'.inputs = manifest[pipe.swing].roles /\ pipe'.swing = pipe.swing
        BY <3>1, <3>4, <3>5 DEF PipelineLoad, Pipeline
      <4> QED
        BY <3>1, <3>4, <4>1
    <3>6. CASE PipelineRead \/ PipelineWrite
      <4>1. pipe'.inputs = pipe.inputs /\ pipe'.swing = pipe.swing
        <5>1. CASE PipelineRead
          <6>1. \E usable, gone : pipe' = Past(usable, gone)
            BY <5>1 DEF PipelineRead
          <6> QED
            BY <3>1, <6>1, PastKeeps
        <5>2. CASE PipelineWrite
          BY <3>1, <5>2 DEF PipelineWrite, Pipeline
        <5> QED
          BY <3>6, <5>1, <5>2
      <4> QED
        BY <3>1, <3>3, <4>1 DEF RolesOnlyGrow, Underway
    <3> QED
      BY <2>4, <3>2, <3>5, <3>6 DEF PipelineStep
  <2>5. CASE \E s \in Swings : BesideRun(s)
    <3>1. Working
      BY <1>1, <2>5 DEF BesideRun, Underway, Working, At
    <3> QED
      BY <2>5, <3>1, UnderwayKept DEF Underway
  <2> QED
    BY <1>0, <2>1, <2>2, <2>3, <2>4, <2>5, RunMoves
<1>2. ASSUME NEW t \in Swings, Status(t)' = "done"
      PROVE  /\ manifest'[t] # None
             /\ \A r \in Roles : state'[t].inputs[r] # None => manifest'[t].roles[r] # None
  <2>1. ~Delete(t)
    BY <1>0, <1>2 DEF Delete, ForgetSwing, Status, WorkerTypeOK
  <2>2. manifest[t] # None => manifest'[t] = manifest[t] \/ Written(t)
    BY <1>0, <2>1, StoreMoves
  <2>3. /\ manifest[t] # None
        /\ \A r \in Roles : state'[t].inputs[r] # None => manifest[t].roles[r] # None
    <3>1. CASE DoneStays(t)
      BY <1>2, <3>1 DEF RolesOnlyGrow, Status, DoneStays
    <3>2. CASE RunSaysDone(t)
      <4>1. Underway /\ pipe.swing = t /\ state'[t].inputs = pipe.inputs
        BY <3>2 DEF RunSaysDone, Underway, Working, At, RunText, Text
      <4> QED
        BY <4>1 DEF RolesOnlyGrow
    <3> QED
      BY <1>0, <1>2, <3>1, <3>2, OnlyRunsSayDone
  <2> QED
    BY <2>2, <2>3 DEF Written
<1> QED
  BY <1>1, <1>2 DEF RolesOnlyGrow

LEMMA ResumeRedoes ==
  ASSUME AllFound, ResumeReturned, NEW t \in Swings,
         At("returned"), pipe.swing = t, pipe.ok, ~Untouched,
         manifest[t] # None, Complete(manifest[t])
  PROVE  Status(t)' = "queued" \/ t \in lost'
<1>0. TypedRun /\ WorkerTypeOK /\ StoreTypeOK
  BY DEF AllFound, Current, Ledger, TypedRun, TypeOK, IngestTypeOK
<1>1. consumer = "awaiting" /\ job # None /\ job.swing = t
  BY <1>0 DEF ResumeReturned, RunEnds, TypedRun, Handshake
<1>2. Submit(t, TRUE, manifest[t])
  BY <1>1 DEF ResumeReturned, Untouched
<1>3. Saves(t, "queued", manifest[t].roles) \/ SaveRaises(t)
  BY <1>1, <1>2 DEF Submit, Refused
<1>4. CASE SaveRaises(t)
  BY <1>4 DEF SaveRaises
<1>5. CASE Saves(t, "queued", manifest[t].roles)
  <2>1. Text("queued", manifest[t].roles, {}) \in Sidecar
    BY <1>0, TextTypes DEF StoreTypeOK, Manifest, Inputs
  <2>2. state'[t] = Text("queued", manifest[t].roles, {})
    BY <1>0, <1>5 DEF Saves, SaveState, WorkerTypeOK
  <2>3. state'[t] # None
    BY <2>1, <2>2, WorkerConstants
  <2> QED
    BY <2>2, <2>3 DEF Text, Status
<1> QED
  BY <1>3, <1>4, <1>5

LEMMA ResumeFails ==
  ASSUME AllFound, ResumeRaised, NEW t \in Swings, pipe # None, pipe.swing = t
  PROVE  Status(t)' # "done" \/ t \in lost'
<1>0. WorkerTypeOK /\ job.swing = t
  BY DEF AllFound, Current, Ledger, TypedRun, TypeOK, Handshake
<1>1. Saves(t, "failed", job.inputs) \/ SaveRaises(t)
  BY <1>0 DEF ResumeRaised
<1> QED
  BY <1>0, <1>1 DEF Saves, SaveRaises, SaveState, Text, Status, WorkerTypeOK

\* A run that is over is given up by the consumer alone.
LEMMA GivenUp ==
  ASSUME AllFound, Next, ~Dies, pipe # None, pipe.pc \in {"returned", "beaten", "raised"},
         job' = None
  PROVE  ResumeReturned \/ ResumeRaised
<1>1. consumer = "awaiting" /\ job # None
  BY DEF AllFound, Current, Ledger, TypedRun, Handshake
<1>2. ~ServerStarts /\ ~ServerStartRaises /\ ~GoesDown
  BY <1>1 DEF ServerStarts, Start, ServerStartRaises, StartRaises, GoesDown, ServerStopped, ServerDies,
     ServerDiesLanding
<1>3. WorkerSteps
  BY <1>1, <1>2, RoutesStay
<1>4. ~PipelineStep /\ ~PipelineRaise
  BY <1>1 DEF PipelineStep, PipelineLoad, PipelineRead, PipelineWrite, PipelineRecord,
     PipelineLay, PipelineBeaten, PipelineRaise
<1> QED
  BY <1>1, <1>3, <1>4 DEF WorkerSteps, Consume, Drop, Take, TakeRaises, TakeSentinel, Park, AtQueue

LEMMA GoneRedone ==
  ASSUME AllFound, Next
  PROVE  GoneIsRedone'
<1>0. TypedRun /\ Ledger /\ StampsPast /\ WorkerTypeOK /\ Handshake
  BY DEF AllFound, Current, Ledger, TypedRun, TypeOK
<1> SUFFICES ASSUME crashes' = 0, NEW t \in Swings, t \notin lost', Status(t)' = "done",
                    state'[t].gone # {}, \A r \in Roles : state'[t].inputs[r] # None
             PROVE  \/ At("returned")' /\ pipe'.swing = t /\ pipe'.ok /\ ~Untouched'
                    \/ Failing(t)'
  BY DEF GoneIsRedone
<1>1. crashes = 0 /\ ~Dies
  BY <1>0, NoCrashBefore
<1>2. CASE DoneStays(t)
  <2>1. \/ At("returned") /\ pipe.swing = t /\ pipe.ok /\ ~Untouched
        \/ Failing(t)
    BY <1>1, <1>2 DEF AllFound, GoneIsRedone, Status, DoneStays
  <2>2. consumer = "awaiting" /\ job # None /\ pipe # None /\ pipe \in Pipeline /\ pipe.swing = t
        /\ pipe.pc \in {"returned", "beaten", "raised"}
    BY <1>0, <2>1 DEF Handshake, At, Failing, WorkerTypeOK
  <2>3. CASE UNCHANGED <<job, pipe>>
    <3>1. ~Untouched => ~Untouched'
      BY <1>0, <2>3, UntouchedWasUntouched
    <3> QED
      BY <2>1, <2>3, <3>1 DEF At, Failing
  <2>4. CASE Take
    BY <2>2, <2>4 DEF Take, AtQueue
  <2>5. CASE PipelineStep \/ PipelineRaise
    <3>1. PipelineBeaten
      BY <2>2, <2>5 DEF PipelineStep, PipelineLoad, PipelineRead, PipelineWrite, PipelineRecord,
         PipelineLay, PipelineRaise, At
    <3>2. pipe'.pc = "raised" /\ pipe'.swing = t
      BY <2>2, <3>1 DEF PipelineBeaten, Pipeline
    <3>3. pipe' # None
      BY <1>0, <2>5, PipelineType, WorkerConstants DEF PipeMoves, TypedRun, TypeOK, IngestTypeOK
    <3> QED
      BY <3>2, <3>3 DEF Failing
  <2>6. CASE job' = None
    <3>1. ResumeReturned \/ ResumeRaised
      BY <1>1, <2>2, <2>6, GivenUp
    <3>2. CASE ResumeRaised
      BY <2>2, <3>2, ResumeFails
    <3>3. CASE ResumeReturned
      <4>1. At("returned") /\ pipe.ok /\ ~Untouched
        BY <2>1, <3>3 DEF ResumeReturned, At, Failing
      <4>2. manifest[t] # None /\ Complete(manifest[t])
        BY <1>2 DEF AllFound, RolesOnlyGrow, Status, Complete, MissingRoles, DoneStays
      <4> QED
        BY <2>2, <3>3, <4>1, <4>2, ResumeRedoes
    <3> QED
      BY <3>1, <3>2, <3>3
  <2>7. CASE \E s \in Swings : BesideRun(s)
    <3>1. pipe' # None /\ pipe'.pc = "beaten" /\ pipe'.swing = t
      BY <2>2, <2>7, WorkerConstants DEF BesideRun
    <3> QED
      BY <3>1 DEF Failing
  <2> QED
    BY <1>0, <2>3, <2>4, <2>5, <2>6, <2>7, RunMoves
<1>3. CASE RunSaysDone(t) /\ WorkerSteps /\ PipelineRecord
  <2>1. Working /\ UNCHANGED <<manifest, job>> /\ pipe # None /\ pipe \in Pipeline
    BY <1>0, <1>3 DEF PipelineRecord, At, Working, WorkerSteps, ingestVars, WorkerTypeOK
  <2>2. pipe.ok /\ pipe.gone # {} /\ pipe.swing = t
    BY <1>3 DEF RunSaysDone, RunText, Text
  <2>3. ~Untouched
    BY <1>1, <2>1, <2>2 DEF AllFound, NothingMissed
  <2>4. ~Untouched'
    BY <2>1, <2>3 DEF Untouched
  <2>5. pipe' = [pipe EXCEPT !.pc = "returned"]
    BY <1>3 DEF PipelineRecord
  <2>6. pipe'.pc = "returned" /\ pipe'.swing = t /\ pipe'.ok
    BY <2>1, <2>2, <2>5 DEF Pipeline
  <2>7. pipe' # None
    BY <1>0, <1>3, PipelineType, WorkerConstants DEF PipeMoves, PipelineStep, TypedRun, TypeOK, IngestTypeOK
  <2> QED
    BY <2>4, <2>6, <2>7 DEF At
<1>4. CASE RunSaysDone(t) /\ ~(WorkerSteps /\ PipelineRecord)
  BY <1>4 DEF RunSaysDone, Failing
<1> QED
  BY <1>0, <1>2, <1>3, <1>4, OnlyRunsSayDone

LEMMA AllFoundInit == Init => AllFound
<1> SUFFICES ASSUME Init PROVE AllFound
  OBVIOUS
<1>1. pipe = None /\ \A s \in Swings : state[s] = None /\ manifest[s] = None
  BY DEF Init, WorkerInit, IngestInit, StoreInit
<1> QED
  BY <1>1, CurrentInit, ToldInit DEF AllFound, NamedOnDisk, NothingMissed, Working, RolesOnlyGrow,
     Underway, At, GoneIsRedone, Status

LEMMA AllFoundNext == AllFound /\ [Next]_vars => AllFound'
<1> SUFFICES ASSUME AllFound, [Next]_vars PROVE AllFound'
  OBVIOUS
<1>1. Current' /\ Told' /\ TypedRun /\ Ledger
  BY CurrentNext, ToldNext DEF AllFound, Current, Ledger
<1>2. CASE Next
  <2>1. NamedOnDisk'
    BY <1>1, <1>2, NamedFound DEF AllFound
  <2>2. NothingMissed' /\ GoneIsRedone'
    BY <1>2, MissedNothing, GoneRedone
  <2>3. RolesOnlyGrow'
    BY <1>1, <1>2, RolesGrow DEF AllFound
  <2> QED
    BY <1>1, <2>1, <2>2, <2>3 DEF AllFound
<1>3. CASE UNCHANGED vars
  <2>1. UNCHANGED <<manifest, files, state, lost, job, pipe, crashes>>
    BY <1>3 DEF vars, ingestVars, workerVars
  <2> QED
    BY <1>1, <2>1 DEF AllFound, NamedOnDisk, NothingMissed, Working, Untouched, RolesOnlyGrow,
       Underway, GoneIsRedone, Failing, Status, At
<1> QED
  BY <1>2, <1>3

\* As long as nothing crashed and no sidecar save raised, a result that counts as
\* current was computed from every file it names: a clip replaced and put back during
\* a run that missed it is told apart by its stamp, and the run is made again.
THEOREM CurrentMissedNothing == Spec => []NothingGone
<1>1. AllFound => NothingGone
  <2> SUFFICES ASSUME AllFound, crashes = 0, NEW s \in Swings \ lost, manifest[s] # None,
                      Complete(manifest[s]), UpToDate(s, manifest[s]), ~Owned(s),
                      analysis[s].gone # {}
               PROVE  FALSE
    BY DEF NothingGone
  <2>1. Handshake
    BY DEF AllFound, Current, Ledger, TypedRun
  <2>2. Status(s) = "done" /\ state[s].gone # {}
    BY DEF UpToDate, AllFound, Told, SidecarTellsTheAnalysis
  <2>3. \A r \in Roles : state[s].inputs[r] # None
    BY DEF UpToDate, MatchesInputs, Complete, MissingRoles
  <2>4. pipe # None /\ pipe.swing = s
    BY <2>2, <2>3 DEF AllFound, GoneIsRedone, At, Failing
  <2> QED
    BY <2>1, <2>4 DEF Handshake, Owned
<1> QED
  BY <1>1, AllFoundInit, AllFoundNext, PTL DEF Spec
=============================================================================
