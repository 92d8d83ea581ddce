------------------------------- MODULE Ingest -------------------------------
(***************************************************************************)
(* The upload server's ingest half: phones streaming files into the bundle *)
(* store, the session's golfer and club cursors, and the repair routes.    *)
(* Source: api/app.py and storage/session_meta.py.                         *)
(*                                                                         *)
(* A route is one action, except the upload: it reads the cursors, then    *)
(* awaits the request's body, then places the file, and every other route  *)
(* may run in between.  As a specification of its own this module is the   *)
(* server with the analysis worker disabled (settings.analysis_enabled).   *)
(***************************************************************************)
EXTENDS BundleStore

CONSTANTS
  Phones,      \* uploads that may be in flight at once
  Targets      \* values of the upload's ?swing_id=, with None for "not given"

VARIABLES
  meta,        \* day -> session.json: the golfer and club cursors
  uploads      \* phone -> the upload it is streaming, or None

ingestVars == <<manifest, files, clock, today, meta, uploads>>

Cursors == [player : Players \cup {None}, club : Clubs \cup {None}]

Upload ==
  [day : Days, role : Roles, digest : Digests, target : Targets,
   player : Players \cup {None}, club : Clubs]

ASSUME IngestConstants ==
  /\ Targets \subseteq Ids \cup {None}
  /\ None \notin Upload

IngestTypeOK ==
  /\ StoreTypeOK
  /\ meta \in [Days -> Cursors]
  /\ uploads \in [Phones -> Upload \cup {None}]

IngestInit ==
  /\ StoreInit
  /\ meta = [d \in Days |-> [player |-> None, club |-> None]]
  /\ uploads = [p \in Phones |-> None]

-----------------------------------------------------------------------------
(* POST /api/uploads. *)

\* The session and both cursors are read before a byte is streamed; without a
\* club the route refuses.
UploadStart(p, r, digest, target) ==
  /\ uploads[p] = None
  /\ meta[today].club # None
  /\ uploads' = [uploads EXCEPT ![p] =
       [day |-> today, role |-> r, digest |-> digest, target |-> target,
        player |-> meta[today].player, club |-> meta[today].club]]
  /\ UNCHANGED <<manifest, files, clock, today, meta>>

\* The client goes away, or the file is too large: the .part file is dropped.
UploadAbort(p) ==
  /\ uploads[p] # None
  /\ uploads' = [uploads EXCEPT ![p] = None]
  /\ UNCHANGED <<manifest, files, clock, today, meta>>

\* MUTANT: the session is asked for again once the body has arrived.
LandToday(u) == Assign(today, u.role, u.digest, u.target, u.player, u.club)

\* The body has arrived: the file goes into a swing of the session read first.
Land(u) == Assign(u.day, u.role, u.digest, u.target, u.player, u.club)

UploadFinish(p) ==
  /\ uploads[p] # None
  /\ Land(uploads[p])
  /\ uploads' = [uploads EXCEPT ![p] = None]
  /\ UNCHANGED meta

-----------------------------------------------------------------------------
(* The cursors and the repairs. *)

\* Load, change the cursors that are named (not None), save.
UpdateCursor(d, player, club) ==
  meta' = [meta EXCEPT ![d] =
    [player |-> IF player = None THEN @.player ELSE player,
     club |-> IF club = None THEN @.club ELSE club]]

SetCurrentGolfer(player) ==
  /\ UpdateCursor(today, player, None)
  /\ AttributeUnlabeled(today, player)
  /\ UNCHANGED uploads

SetClubCursor(club) ==
  /\ UpdateCursor(today, None, club)
  /\ UNCHANGED <<manifest, files, clock, today, uploads>>

SetSwingGolfer(s, player) == SetPlayer(s, player) /\ UNCHANGED <<meta, uploads>>

SetSwingClub(s, club) == SetClub(s, club) /\ UNCHANGED <<meta, uploads>>

SetSwingMishit(s, verdict) ==
  /\ manifest[s] # None
  /\ ShotScreen \in Roles \ MissingRoles(manifest[s])
  /\ SetMishit(s, verdict)
  /\ UNCHANGED <<meta, uploads>>

\* DELETE with no analysis on record: 404 when there is no such directory.
DeleteUnanalyzed(s) ==
  /\ manifest[s] # None \/ files[s] # {}
  /\ DeleteSwing(s)
  /\ UNCHANGED <<meta, uploads>>

DayPasses == Midnight /\ UNCHANGED <<meta, uploads>>

-----------------------------------------------------------------------------
(* The process dies: what was streaming is gone, and so is the rest of the *)
(* operation the loop was in.                                              *)

CrashBetween ==
  /\ uploads' = [p \in Phones |-> None]
  /\ UNCHANGED <<manifest, files, clock, today, meta>>

CrashDuring(p) ==
  /\ uploads[p] # None
  /\ LET u == uploads[p] IN
       AssignCutShort(u.day, u.role, u.digest, u.target, u.player, u.club)
  /\ uploads' = [q \in Phones |-> None]
  /\ UNCHANGED meta

IngestNext ==
  \/ \E p \in Phones, r \in Roles, digest \in Digests, target \in Targets :
       UploadStart(p, r, digest, target)
  \/ \E p \in Phones : UploadAbort(p) \/ UploadFinish(p) \/ CrashDuring(p)
  \/ \E player \in Players : SetCurrentGolfer(player)
  \/ \E club \in Clubs : SetClubCursor(club)
  \/ \E s \in Swings, player \in Players : SetSwingGolfer(s, player)
  \/ \E s \in Swings, club \in Clubs : SetSwingClub(s, club)
  \/ \E s \in Swings, verdict \in Verdicts \cup {None} : SetSwingMishit(s, verdict)
  \/ \E s \in Swings : DeleteUnanalyzed(s)
  \/ DayPasses
  \/ CrashBetween

IngestSpec == IngestInit /\ [][IngestNext]_ingestVars

-----------------------------------------------------------------------------
(* Safety. *)

Repairing(p) == uploads[p] # None /\ uploads[p].target # None

\* One shot's file is in one swing: two swings of a session come to hold the
\* same content in the same role only by an explicit ?swing_id= upload, however
\* many phones retry, race or double-tap (assign_from_path's dedupe).
Twins(s, t) ==
  /\ s # t /\ s[1] = t[1] /\ manifest[s] # None /\ manifest[t] # None
  /\ \E r \in Roles : manifest[s].roles[r] # None
                      /\ manifest[s].roles[r] = manifest[t].roles[r]

NoTwinSwings ==
  [][\A s, t \in Swings :
       Twins(s, t)' => Twins(s, t) \/ \E p \in Phones : Repairing(p) /\ UploadFinish(p)
    ]_ingestVars

\* A file already in a swing stays there until a human replaces it (?swing_id=)
\* or deletes the swing: no automatic upload pairs over it (the role rule of
\* assign_from_path).
BundledFilesStay ==
  [][\A s \in Swings, r \in Roles :
       manifest[s] # None /\ manifest[s].roles[r] # None =>
         \/ manifest'[s] # None /\ manifest'[s].roles[r] = manifest[s].roles[r]
         \/ \E p \in Phones : Repairing(p) /\ UploadFinish(p)
         \/ DeleteUnanalyzed(s)
    ]_ingestVars

\* No automatic upload and no crash inside one loses a file that a manifest
\* names; only a repair cut short between its unlink and its save can (_place).
FilesOf(s) ==
  IF manifest[s] = None THEN {}
  ELSE {<<r, manifest[s].roles[r]>> : r \in Roles \ MissingRoles(manifest[s])}

NamedFilesStayOnDisk ==
  [][(\A s \in Swings : FilesOf(s) \subseteq files[s]) =>
       \/ \A s \in Swings : (FilesOf(s) \subseteq files[s])'
       \/ \E p \in Phones : Repairing(p) /\ CrashDuring(p)
    ]_ingestVars

\* A golfer or a club once on a swing changes only by the repair route for that
\* swing, or with the swing deleted: switching a cursor, or an upload that read
\* an older one, never re-attributes it (write-once stamping).
StampsAreWriteOnce ==
  [][\A s \in Swings :
       manifest[s] # None /\ manifest'[s] # None =>
         /\ \/ manifest[s].player \in {None, manifest'[s].player}
            \/ SetSwingGolfer(s, manifest'[s].player)
         /\ \/ manifest[s].club \in {None, manifest'[s].club}
            \/ SetSwingClub(s, manifest'[s].club)
    ]_ingestVars

\* Every swing on record is tagged with a club and belongs to a session whose
\* cursor had been set, also when its upload spanned midnight: the club is
\* required at the boundary, and the session is the one the cursor was read of.
EverySwingHasAClub ==
  \A s \in Swings : manifest[s] # None => manifest[s].club # None /\ meta[s[1]].club # None
=============================================================================
