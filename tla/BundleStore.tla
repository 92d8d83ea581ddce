---------------------------- MODULE BundleStore ----------------------------
(***************************************************************************)
(* The swing bundle store: sessions (one per day) of swings, each swing a  *)
(* directory holding one file per role and a manifest that names them.     *)
(* Source: storage/bundle_store.py and storage/manifest.py.                *)
(*                                                                         *)
(* Every operation of the class runs under its lock, on the event loop and *)
(* without an await, so each is one action here.  The operations are left  *)
(* open (no Next): Ingest and UploadServer call them from the routes.      *)
(***************************************************************************)
EXTENDS Naturals, FiniteSetsExt

CONSTANTS
  MaxDay,     \* days are 1..MaxDay; a session is a day
  MaxId,      \* BOUND: swing ids of a session are 1..MaxId
  Roles,      \* EXPECTED_ROLES
  ShotScreen, \* the role of the launch monitor's photo
  Digests,    \* contents a phone can send
  Players,
  Clubs,
  Verdicts,   \* a golfer's verdict on a mishit
  MaxWrites,  \* BOUND: manifest writes in a behaviour
  None

VARIABLES
  manifest,   \* swing -> its manifest, None where there is no readable one
  files,      \* swing -> the <<role, digest>> files of its directory
  clock,      \* manifest writes so far; stands for the wall clock
  today       \* the server-side date, current_session_id()

storeVars == <<manifest, files, clock, today>>

Days   == 1..MaxDay
Ids    == 1..MaxId
Swings == Days \X Ids

Manifest ==
  [roles : [Roles -> Digests \cup {None}], player : Players \cup {None},
   club : Clubs \cup {None}, mishit : Verdicts \cup {None}, updated : 0..MaxWrites]

ASSUME StoreConstants ==
  /\ MaxDay \in Nat \ {0} /\ MaxId \in Nat \ {0} /\ MaxWrites \in Nat
  /\ None \notin Digests \cup Players \cup Clubs \cup Verdicts \cup Ids
  /\ None \notin Manifest

StoreTypeOK ==
  /\ manifest \in [Swings -> Manifest \cup {None}]
  /\ files \in [Swings -> SUBSET (Roles \X Digests)]
  /\ clock \in 0..MaxWrites
  /\ today \in Days

StoreInit ==
  /\ manifest = [s \in Swings |-> None]
  /\ files = [s \in Swings |-> {}]
  /\ clock = 0
  /\ today = 1

-----------------------------------------------------------------------------
(* Reading a manifest and a session. *)

MissingRoles(m) == {r \in Roles : m.roles[r] = None}
Complete(m) == MissingRoles(m) = {}

Session(d) == {s \in Swings : s[1] = d /\ manifest[s] # None}

Oldest(S) == CHOOSE s \in S : \A t \in S : s[2] <= t[2]
Newest(S) == CHOOSE s \in S : \A t \in S : t[2] <= s[2]

NewManifest(player, club) ==
  [roles |-> [r \in Roles |-> None], player |-> player, club |-> club,
   mishit |-> None, updated |-> clock]

NextSwing(d) == <<d, 1 + Max({0} \cup {s[2] : s \in Session(d)})>>

-----------------------------------------------------------------------------
(* Placing a file. *)

Stamped(old, new) == IF old = None THEN new ELSE old

\* MUTANT: the newest upload's cursor wins over the name already on the swing.
LandedOverwriting(m, r, digest, player, club) ==
  [m EXCEPT !.roles[r] = digest, !.player = player, !.club = club,
            !.updated = clock + 1]

Landed(m, r, digest, player, club) ==
  [m EXCEPT !.roles[r] = digest,
            !.player = Stamped(@, player),
            !.club = Stamped(@, club),
            !.updated = clock + 1]

\* The directory after the old file of the role is unlinked, then after the
\* uploaded one is moved in.
Unlinked(s, m, r) == files[s] \ {<<r, m.roles[r]>>}

\* MUTANT: the old file is unlinked after the new one is moved in.
ReplacedThenUnlinked(s, m, r, digest) == (files[s] \cup {<<r, digest>>}) \ {<<r, m.roles[r]>>}

Replaced(s, m, r, digest) == Unlinked(s, m, r) \cup {<<r, digest>>}

Place(s, m, r, digest, player, club) ==
  /\ s \in Swings
  /\ clock < MaxWrites
  /\ manifest' = [manifest EXCEPT ![s] = Landed(m, r, digest, player, club)]
  /\ files' = [files EXCEPT ![s] = Replaced(s, m, r, digest)]
  /\ clock' = clock + 1
  /\ UNCHANGED today

\* The process dies inside _place, before the manifest is saved: the old file
\* may be gone and the new one may be there, but no manifest says so.
PlaceCutShort(s, m, r, digest) ==
  /\ s \in Swings
  /\ \/ files' = [files EXCEPT ![s] = Unlinked(s, m, r)]
     \/ files' = [files EXCEPT ![s] = Replaced(s, m, r, digest)]
  /\ UNCHANGED <<manifest, clock, today>>

-----------------------------------------------------------------------------
(* assign_from_path: which swing a file goes to. *)

\* MUTANT: content is never compared, so that a retry is a new shot.
HoldersNone(d, r, digest) == {}

Holders(d, r, digest) == {s \in Session(d) : manifest[s].roles[r] = digest}

\* MUTANT: the newest swing takes the file, whether or not it has the role.
LackingOrNot(d, r) == Session(d)

Lacking(d, r) == {s \in Session(d) : manifest[s].roles[r] = None}

Deduped(d, r, digest, target) == target = None /\ Holders(d, r, digest) # {}

Slot(d, r, digest, target) ==
  IF target # None THEN <<d, target>>
  ELSE IF Holders(d, r, digest) # {} THEN Oldest(Holders(d, r, digest))
  ELSE IF Lacking(d, r) # {} THEN Newest(Lacking(d, r))
  ELSE NextSwing(d)

ManifestOr(s, player, club) ==
  IF s \in Swings /\ manifest[s] # None THEN manifest[s] ELSE NewManifest(player, club)

Assign(d, r, digest, target, player, club) ==
  LET s == Slot(d, r, digest, target) IN
  IF Deduped(d, r, digest, target)
    THEN UNCHANGED storeVars
    ELSE Place(s, ManifestOr(s, player, club), r, digest, player, club)

\* The same call, cut short by the death of the process.
AssignCutShort(d, r, digest, target, player, club) ==
  LET s == Slot(d, r, digest, target) IN
  /\ ~Deduped(d, r, digest, target)
  /\ PlaceCutShort(s, ManifestOr(s, player, club), r, digest)

-----------------------------------------------------------------------------
(* The other writes of the store. *)

AttributeUnlabeled(d, player) ==
  /\ clock < MaxWrites
  /\ manifest' = [s \in Swings |->
       IF s \in Session(d) /\ manifest[s].player = None
         THEN [manifest[s] EXCEPT !.player = player, !.updated = clock + 1]
         ELSE manifest[s]]
  /\ clock' = clock + 1
  /\ UNCHANGED <<files, today>>

Rewrite(s, m) ==
  /\ manifest[s] # None
  /\ clock < MaxWrites
  /\ manifest' = [manifest EXCEPT ![s] = m]
  /\ clock' = clock + 1
  /\ UNCHANGED <<files, today>>

SetPlayer(s, player) ==
  Rewrite(s, [manifest[s] EXCEPT !.player = player, !.updated = clock + 1])

SetClub(s, club) ==
  Rewrite(s, [manifest[s] EXCEPT !.club = club, !.updated = clock + 1])

SetMishit(s, verdict) ==
  Rewrite(s, [manifest[s] EXCEPT !.mishit = verdict, !.updated = clock + 1])

\* rmtree of the swing's directory, whatever is in it.
DeleteSwing(s) ==
  /\ manifest' = [manifest EXCEPT ![s] = None]
  /\ files' = [files EXCEPT ![s] = {}]
  /\ UNCHANGED <<clock, today>>

\* The server-side date moves on.
Midnight ==
  /\ today < MaxDay
  /\ today' = today + 1
  /\ UNCHANGED <<manifest, files, clock>>
=============================================================================
