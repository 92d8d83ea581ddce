---------------------------- MODULE Ingest_proofs ----------------------------
(***************************************************************************)
(* The bundle store and the ingest routes, for any number of phones, days, *)
(* swings, contents, golfers and clubs.                                    *)
(*                                                                         *)
(* What the store promises it promises of single steps, and the one fact   *)
(* they all rest on is where assign_from_path puts a file: into a swing of *)
(* the session that lacks the role (SlotLacksRole), unless the upload says *)
(* which swing it repairs.  That every swing has a club needs the uploads  *)
(* in flight as well (ClubIsSet): what a route read before its body came   *)
(* is what the swing gets.                                                 *)
(***************************************************************************)
EXTENDS Ingest, FiniteSetTheorems, TLAPS

-----------------------------------------------------------------------------
(* Types. *)

LEMMA LandedType ==
  ASSUME clock \in 0..MaxWrites, clock < MaxWrites, NEW m \in Manifest,
         NEW r \in Roles, NEW digest \in Digests,
         NEW player \in Players \cup {None}, NEW club \in Clubs \cup {None}
  PROVE  Landed(m, r, digest, player, club) \in Manifest
<1>1. clock + 1 \in 0..MaxWrites
  BY StoreConstants
<1>2. [m.roles EXCEPT ![r] = digest] \in [Roles -> Digests \cup {None}]
  BY DEF Manifest
<1> QED
  BY <1>1, <1>2 DEF Landed, Stamped, Manifest

LEMMA PlaceType ==
  ASSUME StoreTypeOK, NEW s, NEW m \in Manifest, NEW r \in Roles, NEW digest \in Digests,
         NEW player \in Players \cup {None}, NEW club \in Clubs \cup {None},
         Place(s, m, r, digest, player, club)
  PROVE  StoreTypeOK'
<1>1. s \in Swings /\ clock < MaxWrites
  BY DEF Place
<1>2. Landed(m, r, digest, player, club) \in Manifest
  BY <1>1, LandedType DEF StoreTypeOK
<1>3. manifest' \in [Swings -> Manifest \cup {None}]
  BY <1>1, <1>2 DEF Place, StoreTypeOK
<1>4. Replaced(s, m, r, digest) \in SUBSET (Roles \X Digests)
  BY <1>1 DEF Replaced, Unlinked, StoreTypeOK
<1>5. files' \in [Swings -> SUBSET (Roles \X Digests)]
  BY <1>1, <1>4 DEF Place, StoreTypeOK
<1>6. clock' \in 0..MaxWrites /\ today' \in Days
  BY <1>1, StoreConstants DEF Place, StoreTypeOK
<1> QED
  BY <1>3, <1>5, <1>6 DEF StoreTypeOK

LEMMA ManifestOrType ==
  ASSUME StoreTypeOK, NEW s,
         NEW player \in Players \cup {None}, NEW club \in Clubs \cup {None}
  PROVE  ManifestOr(s, player, club) \in Manifest
<1>1. NewManifest(player, club) \in Manifest
  BY DEF NewManifest, Manifest, StoreTypeOK
<1> QED
  BY <1>1 DEF ManifestOr, StoreTypeOK

\* A set of numbers has a least one.
LEMMA LeastNumber ==
  ASSUME NEW T \in SUBSET Nat, T # {}
  PROVE  \E n \in T : \A k \in T : n <= k
<1> DEFINE R == {ss \in Nat \X Nat : ss[1] < ss[2]}
<1>1. IsWellFoundedOn(R, Nat)
  BY NatLessThanWellFounded DEF OpToRel
<1>2. \A k, n \in Nat : k < n => <<k, n>> \in R
  BY DEF R
<1> HIDE DEF R
<1>3. PICK n \in T : \A k \in T : ~(<<k, n>> \in R)
  BY <1>1, WFMin
<1>4. \A k \in T : k \in Nat /\ n \in Nat /\ ~(k < n)
  BY <1>2, <1>3
<1>5. \A k \in T : n <= k
  BY <1>4
<1> QED
  BY <1>3, <1>5

\* The oldest and the newest swing of a set are of the set.
LEMMA OldestIsOne ==
  ASSUME NEW S \in SUBSET Swings, S # {}
  PROVE  Oldest(S) \in S
<1>1. \A s \in S : s[2] \in Nat
  BY StoreConstants DEF Swings, Ids
<1> DEFINE T == {s[2] : s \in S}
<1>2. \E n \in T : \A k \in T : n <= k
  <2>1. T \in SUBSET Nat /\ T # {}
    BY <1>1
  <2> HIDE DEF T
  <2> QED
    BY <2>1, LeastNumber
<1>3. \E s \in S : \A t \in S : s[2] <= t[2]
  BY <1>2
<1> QED
  BY <1>3 DEF Oldest

LEMMA NewestIsOne ==
  ASSUME NEW S \in SUBSET Swings, S # {}
  PROVE  Newest(S) \in S
<1>1. \A s \in S : s[2] \in Nat /\ MaxId \in Nat /\ MaxId - s[2] \in Nat
  BY StoreConstants DEF Swings, Ids
<1> DEFINE T == {MaxId - s[2] : s \in S}
<1>2. \E n \in T : \A k \in T : n <= k
  <2>1. T \in SUBSET Nat /\ T # {}
    BY <1>1
  <2> HIDE DEF T
  <2> QED
    BY <2>1, LeastNumber
<1>3. PICK s \in S : \A t \in S : MaxId - s[2] <= MaxId - t[2]
  BY <1>2
<1>4. \A t \in S : t[2] <= s[2]
  BY <1>1, <1>3
<1> QED
  BY <1>4 DEF Newest

\* A file goes to a swing of the store, whether it is placed there or was there.
LEMMA SlotType ==
  ASSUME NEW d, NEW r, NEW digest, NEW target, NEW player, NEW club,
         Assign(d, r, digest, target, player, club)
  PROVE  Slot(d, r, digest, target) \in Swings
<1>1. CASE Deduped(d, r, digest, target)
  <2>1. Holders(d, r, digest) \subseteq Swings
    BY DEF Holders, Session
  <2> QED
    BY <1>1, <2>1, OldestIsOne DEF Deduped, Slot
<1>2. CASE ~Deduped(d, r, digest, target)
  BY <1>2 DEF Assign, Place
<1> QED
  BY <1>1, <1>2

LEMMA AssignType ==
  ASSUME StoreTypeOK, NEW d, NEW r \in Roles, NEW digest \in Digests, NEW target,
         NEW player \in Players \cup {None}, NEW club \in Clubs \cup {None},
         Assign(d, r, digest, target, player, club)
  PROVE  StoreTypeOK'
<1>1. CASE Deduped(d, r, digest, target)
  BY <1>1 DEF Assign, storeVars, StoreTypeOK
<1>2. CASE ~Deduped(d, r, digest, target)
  <2> DEFINE s == Slot(d, r, digest, target)
  <2>1. Place(s, ManifestOr(s, player, club), r, digest, player, club)
    BY <1>2 DEF Assign
  <2>2. ManifestOr(s, player, club) \in Manifest
    BY ManifestOrType
  <2> QED
    BY <2>1, <2>2, PlaceType
<1> QED
  BY <1>1, <1>2

LEMMA AssignCutShortType ==
  ASSUME StoreTypeOK, NEW d, NEW r \in Roles, NEW digest \in Digests, NEW target,
         NEW player, NEW club,
         AssignCutShort(d, r, digest, target, player, club)
  PROVE  StoreTypeOK'
<1> DEFINE s == Slot(d, r, digest, target)
           m == ManifestOr(s, player, club)
<1>1. PlaceCutShort(s, m, r, digest)
  BY DEF AssignCutShort
<1> HIDE DEF s, m
<1>2. Unlinked(s, m, r) \subseteq files[s] /\ s \in Swings
  BY <1>1 DEF PlaceCutShort, Unlinked
<1>3. files' \in [Swings -> SUBSET (Roles \X Digests)]
  BY <1>1, <1>2 DEF PlaceCutShort, Replaced, StoreTypeOK
<1> QED
  BY <1>1, <1>3 DEF PlaceCutShort, StoreTypeOK

LEMMA RewriteType ==
  ASSUME StoreTypeOK, NEW s \in Swings, NEW m \in Manifest, Rewrite(s, m)
  PROVE  StoreTypeOK'
<1>1. clock' \in 0..MaxWrites
  BY StoreConstants DEF Rewrite, StoreTypeOK
<1> QED
  BY <1>1 DEF Rewrite, StoreTypeOK

\* The tags a human may put on a swing keep its manifest a manifest.
LEMMA TagType ==
  ASSUME StoreTypeOK, NEW s \in Swings, clock < MaxWrites, manifest[s] # None
  PROVE  /\ \A player \in Players :
              [manifest[s] EXCEPT !.player = player, !.updated = clock + 1] \in Manifest
         /\ \A club \in Clubs :
              [manifest[s] EXCEPT !.club = club, !.updated = clock + 1] \in Manifest
         /\ \A verdict \in Verdicts \cup {None} :
              [manifest[s] EXCEPT !.mishit = verdict, !.updated = clock + 1] \in Manifest
<1>1. clock + 1 \in 0..MaxWrites /\ manifest[s] \in Manifest
  BY StoreConstants DEF StoreTypeOK
<1> QED
  BY <1>1 DEF Manifest

LEMMA AttributeType ==
  ASSUME StoreTypeOK, NEW d, NEW player \in Players, AttributeUnlabeled(d, player)
  PROVE  StoreTypeOK'
<1>1. clock < MaxWrites
  BY DEF AttributeUnlabeled
<1>2. \A s \in Session(d) :
        [manifest[s] EXCEPT !.player = player, !.updated = clock + 1] \in Manifest
  BY <1>1, TagType DEF Session
<1>3. manifest' \in [Swings -> Manifest \cup {None}]
  BY <1>2 DEF AttributeUnlabeled, StoreTypeOK
<1>4. clock' = clock + 1 /\ UNCHANGED <<files, today>>
  BY DEF AttributeUnlabeled
<1>5. clock' \in 0..MaxWrites
  BY <1>1, <1>4, StoreConstants DEF StoreTypeOK
<1> QED
  BY <1>3, <1>4, <1>5 DEF StoreTypeOK

LEMMA DeleteSwingType ==
  ASSUME StoreTypeOK, NEW s, DeleteSwing(s)
  PROVE  StoreTypeOK'
BY DEF DeleteSwing, StoreTypeOK

LEMMA MidnightType ==
  ASSUME StoreTypeOK, Midnight
  PROVE  StoreTypeOK'
<1>1. today' \in Days
  BY StoreConstants DEF Midnight, StoreTypeOK, Days
<1> QED
  BY <1>1 DEF Midnight, StoreTypeOK

LEMMA UploadType ==
  ASSUME IngestTypeOK, NEW p \in Phones, uploads[p] # None
  PROVE  /\ uploads[p].day \in Days /\ uploads[p].role \in Roles
         /\ uploads[p].digest \in Digests
         /\ uploads[p].player \in Players \cup {None}
         /\ uploads[p].club \in Clubs \cup {None}
BY DEF IngestTypeOK, Upload

LEMMA UploadStartType ==
  ASSUME IngestTypeOK, NEW p \in Phones, NEW r \in Roles, NEW digest \in Digests,
         NEW target \in Targets, UploadStart(p, r, digest, target)
  PROVE  IngestTypeOK'
<1>1. StoreTypeOK' /\ meta' = meta
  BY DEF UploadStart, IngestTypeOK, StoreTypeOK
<1>2. meta[today] \in Cursors /\ today \in Days
  BY DEF IngestTypeOK, StoreTypeOK
<1>3. [day |-> today, role |-> r, digest |-> digest, target |-> target,
       player |-> meta[today].player, club |-> meta[today].club] \in Upload
  BY <1>2 DEF UploadStart, Upload, Cursors
<1>4. uploads' \in [Phones -> Upload \cup {None}]
  BY <1>3 DEF UploadStart, IngestTypeOK
<1> QED
  BY <1>1, <1>4 DEF IngestTypeOK

LEMMA UploadAbortType ==
  ASSUME IngestTypeOK, NEW p \in Phones, UploadAbort(p)
  PROVE  IngestTypeOK'
BY DEF UploadAbort, IngestTypeOK, StoreTypeOK

LEMMA UploadFinishType ==
  ASSUME IngestTypeOK, NEW p \in Phones, UploadFinish(p)
  PROVE  IngestTypeOK'
<1>1. StoreTypeOK
  BY DEF IngestTypeOK
<1>2. StoreTypeOK'
  BY <1>1, UploadType, AssignType DEF UploadFinish, Land
<1> QED
  BY <1>2 DEF UploadFinish, IngestTypeOK

LEMMA CrashDuringType ==
  ASSUME IngestTypeOK, NEW p \in Phones, CrashDuring(p)
  PROVE  IngestTypeOK'
<1>1. StoreTypeOK
  BY DEF IngestTypeOK
<1>2. StoreTypeOK'
  BY <1>1, UploadType, AssignCutShortType DEF CrashDuring
<1> QED
  BY <1>2 DEF CrashDuring, IngestTypeOK

LEMMA CrashBetweenType ==
  ASSUME IngestTypeOK, CrashBetween
  PROVE  IngestTypeOK'
BY DEF CrashBetween, IngestTypeOK, StoreTypeOK

LEMMA CursorType ==
  ASSUME meta \in [Days -> Cursors], NEW d, NEW player \in Players \cup {None},
         NEW club \in Clubs \cup {None}, UpdateCursor(d, player, club)
  PROVE  meta' \in [Days -> Cursors]
BY DEF UpdateCursor, Cursors

\* The routes that touch cursors and tags, and nothing else.
Edits ==
  \/ \E player \in Players : SetCurrentGolfer(player)
  \/ \E club \in Clubs : SetClubCursor(club)
  \/ \E s \in Swings, player \in Players : SetSwingGolfer(s, player)
  \/ \E s \in Swings, club \in Clubs : SetSwingClub(s, club)
  \/ \E s \in Swings, verdict \in Verdicts \cup {None} : SetSwingMishit(s, verdict)

LEMMA EditType ==
  ASSUME IngestTypeOK, Edits
  PROVE  IngestTypeOK'
<1>0. StoreTypeOK /\ meta \in [Days -> Cursors] /\ uploads \in [Phones -> Upload \cup {None}]
  BY DEF IngestTypeOK
<1>1. ASSUME NEW player \in Players, SetCurrentGolfer(player)
      PROVE  IngestTypeOK'
  BY <1>0, <1>1, AttributeType, CursorType DEF SetCurrentGolfer, IngestTypeOK
<1>2. ASSUME NEW club \in Clubs, SetClubCursor(club)
      PROVE  IngestTypeOK'
  BY <1>0, <1>2, CursorType DEF SetClubCursor, IngestTypeOK, StoreTypeOK
<1>3. ASSUME NEW s \in Swings, NEW player \in Players, SetSwingGolfer(s, player)
      PROVE  IngestTypeOK'
  BY <1>0, <1>3, TagType, RewriteType DEF SetSwingGolfer, SetPlayer, Rewrite, IngestTypeOK
<1>4. ASSUME NEW s \in Swings, NEW club \in Clubs, SetSwingClub(s, club)
      PROVE  IngestTypeOK'
  BY <1>0, <1>4, TagType, RewriteType DEF SetSwingClub, SetClub, Rewrite, IngestTypeOK
<1>5. ASSUME NEW s \in Swings, NEW verdict \in Verdicts \cup {None}, SetSwingMishit(s, verdict)
      PROVE  IngestTypeOK'
  BY <1>0, <1>5, TagType, RewriteType DEF SetSwingMishit, SetMishit, Rewrite, IngestTypeOK
<1> QED
  BY <1>1, <1>2, <1>3, <1>4, <1>5 DEF Edits

LEMMA IngestTypeInit == IngestInit => IngestTypeOK
<1> SUFFICES ASSUME IngestInit PROVE IngestTypeOK
  OBVIOUS
<1>1. StoreTypeOK
  BY StoreConstants DEF IngestInit, StoreInit, StoreTypeOK, Days
<1> QED
  BY <1>1 DEF IngestInit, IngestTypeOK, Cursors

LEMMA IngestTypeNext == IngestTypeOK /\ [IngestNext]_ingestVars => IngestTypeOK'
<1> SUFFICES ASSUME IngestTypeOK, [IngestNext]_ingestVars PROVE IngestTypeOK'
  OBVIOUS
<1>0. StoreTypeOK
  BY DEF IngestTypeOK
<1>1. CASE Edits
  BY <1>1, EditType
<1>2. ASSUME NEW s \in Swings, DeleteUnanalyzed(s)
      PROVE  IngestTypeOK'
  BY <1>0, <1>2, DeleteSwingType DEF DeleteUnanalyzed, IngestTypeOK
<1>3. CASE DayPasses
  BY <1>0, <1>3, MidnightType DEF DayPasses, IngestTypeOK
<1>4. CASE UNCHANGED ingestVars
  BY <1>4 DEF ingestVars, IngestTypeOK, StoreTypeOK
<1> QED
  BY <1>1, <1>2, <1>3, <1>4, UploadStartType, UploadAbortType, UploadFinishType, CrashDuringType,
     CrashBetweenType DEF IngestNext, Edits

-----------------------------------------------------------------------------
(* Where a file goes, and what a step does to the manifests. *)

\* The greatest of some swing ids.
LEMMA MaxIsGreatest ==
  ASSUME NEW T \in SUBSET (0..MaxId), T # {}
  PROVE  Max(T) \in T /\ \A k \in T : k <= Max(T)
<1> DEFINE R == {MaxId - k : k \in T}
<1>1. MaxId \in Nat /\ T \subseteq Nat /\ \A k \in T : MaxId - k \in Nat
  BY StoreConstants
<1>2. R \in SUBSET Nat /\ R # {}
  BY <1>1
<1>3. \E n \in R : \A k \in R : n <= k
  <2> HIDE DEF R
  <2> QED
    BY <1>2, LeastNumber
<1>4. PICK m \in T : \A k \in T : MaxId - m <= MaxId - k
  BY <1>3
<1>5. \A k \in T : m >= k
  BY <1>1, <1>4
<1>6. Max(T) \in T /\ \A k \in T : Max(T) >= k
  BY <1>5 DEF Max
<1> QED
  BY <1>1, <1>6

LEMMA SlotInSession ==
  ASSUME NEW d, NEW r, NEW digest, NEW target
  PROVE  Slot(d, r, digest, target)[1] = d
<1>1. Lacking(d, r) \subseteq Swings /\ Holders(d, r, digest) \subseteq Swings
  BY DEF Lacking, Holders, Session
<1>2. Lacking(d, r) # {} => Newest(Lacking(d, r)) \in Lacking(d, r)
  BY <1>1, NewestIsOne
<1>3. Holders(d, r, digest) # {} => Oldest(Holders(d, r, digest)) \in Holders(d, r, digest)
  BY <1>1, OldestIsOne
<1> QED
  BY <1>2, <1>3 DEF Slot, NextSwing, Lacking, Holders, Session

LEMMA NextSwingIsNew ==
  ASSUME StoreTypeOK, NEW d, NextSwing(d) \in Swings
  PROVE  manifest[NextSwing(d)] = None
<1> SUFFICES ASSUME manifest[NextSwing(d)] # None PROVE FALSE
  OBVIOUS
<1> DEFINE T == {0} \cup {s[2] : s \in Session(d)}
<1>1. T \in SUBSET (0..MaxId) /\ T # {}
  BY StoreConstants DEF Session, Swings, Ids
<1>2. NextSwing(d) = <<d, 1 + Max(T)>>
  BY DEF NextSwing
<1>3. NextSwing(d) \in Session(d)
  BY <1>2 DEF Session
<1>4. NextSwing(d)[2] \in T
  BY <1>3
<1>7. T \in SUBSET Nat
  BY <1>1, StoreConstants
<1> HIDE DEF T
<1>8. NextSwing(d)[2] = 1 + Max(T)
  BY <1>2
<1>5. Max(T) \in T /\ 1 + Max(T) <= Max(T)
  BY <1>1, <1>4, <1>8, MaxIsGreatest
<1>6. Max(T) \in Nat
  BY <1>5, <1>7
<1> QED
  BY <1>5, <1>6

\* An upload that names no swing goes where its role is missing.
LEMMA SlotLacksRole ==
  ASSUME StoreTypeOK, NEW d, NEW r, NEW digest,
         Slot(d, r, digest, None) \in Swings, ~Deduped(d, r, digest, None),
         manifest[Slot(d, r, digest, None)] # None
  PROVE  manifest[Slot(d, r, digest, None)].roles[r] = None
<1>1. Holders(d, r, digest) = {}
  BY DEF Deduped
<1>2. CASE Lacking(d, r) # {}
  <2>1. Slot(d, r, digest, None) = Newest(Lacking(d, r)) /\ Lacking(d, r) \subseteq Swings
    BY <1>1, <1>2 DEF Slot, Lacking, Session
  <2>2. Slot(d, r, digest, None) \in Lacking(d, r)
    BY <1>2, <2>1, NewestIsOne
  <2> QED
    BY <2>2 DEF Lacking
<1>3. CASE Lacking(d, r) = {}
  <2>1. Slot(d, r, digest, None) = NextSwing(d)
    BY <1>1, <1>3 DEF Slot
  <2> QED
    BY <2>1, NextSwingIsNew
<1> QED
  BY <1>2, <1>3

\* It goes nowhere while somebody in the session has its content.
LEMMA NobodyHolds ==
  ASSUME NEW d, NEW r, NEW digest, ~Deduped(d, r, digest, None), NEW t \in Session(d)
  PROVE  manifest[t].roles[r] # digest
BY DEF Deduped, Holders

\* A file that is placed is placed in one swing; what that swing had is kept, but
\* for the role.
LEMMA LandSays ==
  ASSUME StoreTypeOK, NEW d, NEW r \in Roles, NEW digest \in Digests, NEW target,
         NEW player \in Players \cup {None}, NEW club \in Clubs \cup {None},
         Assign(d, r, digest, target, player, club), ~Deduped(d, r, digest, target),
         NEW s, s = Slot(d, r, digest, target),
         NEW m, m = ManifestOr(s, player, club)
  PROVE  /\ s \in Swings /\ m \in Manifest /\ manifest'[s] \in Manifest /\ manifest'[s] # None
         /\ manifest'[s].roles = [m.roles EXCEPT ![r] = digest]
         /\ manifest'[s].player = Stamped(m.player, player)
         /\ manifest'[s].club = Stamped(m.club, club)
         /\ manifest'[s].updated = clock + 1 /\ clock' = clock + 1
         /\ files'[s] = Replaced(s, m, r, digest)
         /\ \A t \in Swings : t # s => manifest'[t] = manifest[t] /\ files'[t] = files[t]
         /\ today' = today
<1> DEFINE landed == Landed(m, r, digest, player, club)
<1>1. Place(s, m, r, digest, player, club)
  BY DEF Assign
<1>2. m \in Manifest /\ s \in Swings /\ clock < MaxWrites
  BY <1>1, ManifestOrType DEF Place
<1>3. landed \in Manifest
  BY <1>2, LandedType DEF StoreTypeOK
<1>4. landed # None
  BY <1>3, StoreConstants
<1>5. /\ landed.roles = [m.roles EXCEPT ![r] = digest]
      /\ landed.player = Stamped(m.player, player)
      /\ landed.club = Stamped(m.club, club)
      /\ landed.updated = clock + 1
  BY <1>2 DEF Landed, Manifest
<1> HIDE DEF landed
<1>6. /\ manifest' = [manifest EXCEPT ![s] = landed] /\ clock' = clock + 1 /\ today' = today
      /\ files' = [files EXCEPT ![s] = Replaced(s, m, r, digest)]
  BY <1>1 DEF Place, landed
<1>7. manifest'[s] = landed /\ files'[s] = Replaced(s, m, r, digest)
  BY <1>2, <1>6 DEF StoreTypeOK
<1>8. \A t \in Swings : t # s => manifest'[t] = manifest[t] /\ files'[t] = files[t]
  BY <1>6 DEF StoreTypeOK
<1> QED
  BY <1>2, <1>3, <1>4, <1>5, <1>6, <1>7, <1>8

\* A write of a swing's manifest: it is stamped later than the clock said, and no
\* role that was there is gone.
Written(t) ==
  /\ manifest'[t] # None /\ manifest'[t].updated = clock + 1 /\ clock' = clock + 1
  /\ manifest[t] # None =>
       \A r \in Roles : manifest[t].roles[r] # None => manifest'[t].roles[r] # None

Retagged(t) == manifest[t] # None /\ Written(t) /\ manifest'[t].roles = manifest[t].roles

LEMMA LandWrites ==
  ASSUME StoreTypeOK, NEW d, NEW r \in Roles, NEW digest \in Digests, NEW target,
         NEW player \in Players \cup {None}, NEW club \in Clubs \cup {None},
         Assign(d, r, digest, target, player, club)
  PROVE  /\ clock' \in {clock, clock + 1} /\ today' = today
         /\ \A t \in Swings :
              manifest'[t] = manifest[t] \/ (t = Slot(d, r, digest, target) /\ Written(t))
<1>1. CASE Deduped(d, r, digest, target)
  BY <1>1 DEF Assign, storeVars
<1>2. CASE ~Deduped(d, r, digest, target)
  <2> PICK s : s = Slot(d, r, digest, target)
    OBVIOUS
  <2> PICK m : m = ManifestOr(s, player, club)
    OBVIOUS
  <2>1. /\ s \in Swings /\ m \in Manifest /\ manifest'[s] \in Manifest /\ manifest'[s] # None
        /\ manifest'[s].roles = [m.roles EXCEPT ![r] = digest]
        /\ manifest'[s].updated = clock + 1 /\ clock' = clock + 1
        /\ files'[s] = Replaced(s, m, r, digest)
        /\ \A t \in Swings : t # s => manifest'[t] = manifest[t] /\ files'[t] = files[t]
        /\ today' = today
    BY <1>2, LandSays
  <2>2. manifest[s] # None => m = manifest[s]
    BY <2>1 DEF ManifestOr
  <2>3. m.roles \in [Roles -> Digests \cup {None}] /\ digest # None
    BY <2>1, StoreConstants DEF Manifest
  <2>4. Written(s)
    BY <2>1, <2>2, <2>3 DEF Written
  <2> QED
    BY <2>1, <2>4
<1> QED
  BY <1>1, <1>2

\* A file that comes in makes or keeps a manifest, in its own session.
LEMMA AssignAdds ==
  ASSUME StoreTypeOK, NEW d, NEW r \in Roles, NEW digest \in Digests, NEW target,
         NEW player \in Players \cup {None}, NEW club \in Clubs \cup {None},
         Assign(d, r, digest, target, player, club)
  PROVE  /\ \A t \in Swings : manifest[t] # None => manifest'[t] # None
         /\ \A t \in Swings : manifest'[t] # None => manifest[t] # None \/ t[1] = d
         /\ today' = today
<1>1. /\ today' = today
      /\ \A t \in Swings :
           manifest'[t] = manifest[t] \/ (t = Slot(d, r, digest, target) /\ Written(t))
  BY LandWrites
<1>2. Slot(d, r, digest, target)[1] = d
  BY SlotInSession
<1> QED
  BY <1>1, <1>2 DEF Written

LEMMA EditWrites ==
  ASSUME StoreTypeOK, Edits
  PROVE  /\ clock' \in {clock, clock + 1}
         /\ \A t \in Swings : manifest'[t] = manifest[t] \/ Retagged(t)
<1> DEFINE Good == /\ clock' \in {clock, clock + 1}
                   /\ \A t \in Swings : manifest'[t] = manifest[t] \/ Retagged(t)
<1>1. ASSUME NEW s \in Swings, NEW m \in Manifest, Rewrite(s, m),
             m.updated = clock + 1, m.roles = manifest[s].roles
      PROVE  Good
  BY <1>1, StoreConstants DEF Rewrite, StoreTypeOK, Retagged, Written
<1>2. ASSUME NEW s \in Swings, manifest[s] # None
      PROVE  /\ \A player : [manifest[s] EXCEPT !.player = player, !.updated = clock + 1].updated = clock + 1
             /\ \A player : [manifest[s] EXCEPT !.player = player, !.updated = clock + 1].roles = manifest[s].roles
             /\ \A club : [manifest[s] EXCEPT !.club = club, !.updated = clock + 1].updated = clock + 1
             /\ \A club : [manifest[s] EXCEPT !.club = club, !.updated = clock + 1].roles = manifest[s].roles
             /\ \A v : [manifest[s] EXCEPT !.mishit = v, !.updated = clock + 1].updated = clock + 1
             /\ \A v : [manifest[s] EXCEPT !.mishit = v, !.updated = clock + 1].roles = manifest[s].roles
  <2>1. manifest[s] \in Manifest
    BY <1>2 DEF StoreTypeOK
  <2> QED
    BY <2>1 DEF Manifest
<1>3. ASSUME NEW player \in Players, SetCurrentGolfer(player)
      PROVE  Good
  <2>1. AttributeUnlabeled(today, player)
    BY <1>3 DEF SetCurrentGolfer
  <2>2. \A s \in Session(today) :
          [manifest[s] EXCEPT !.player = player, !.updated = clock + 1] \in Manifest
    BY <2>1, TagType DEF Session, AttributeUnlabeled
  <2>3. ASSUME NEW t \in Swings
        PROVE  manifest'[t] = manifest[t] \/ Retagged(t)
    <3>1. CASE t \in Session(today) /\ manifest[t].player = None
      <4>1. manifest'[t] = [manifest[t] EXCEPT !.player = player, !.updated = clock + 1]
            /\ clock' = clock + 1 /\ manifest[t] # None
        BY <2>1, <3>1 DEF AttributeUnlabeled, Session
      <4>2. manifest'[t] # None
        BY <2>2, <3>1, <4>1, StoreConstants
      <4> QED
        BY <1>2, <4>1, <4>2 DEF Retagged, Written
    <3>2. CASE ~(t \in Session(today) /\ manifest[t].player = None)
      BY <2>1, <3>2 DEF AttributeUnlabeled
    <3> QED
      BY <3>1, <3>2
  <2> QED
    BY <2>1, <2>3 DEF AttributeUnlabeled
<1>4. ASSUME NEW club \in Clubs, SetClubCursor(club)
      PROVE  Good
  BY <1>4 DEF SetClubCursor
<1>5. ASSUME NEW s \in Swings, NEW player \in Players, SetSwingGolfer(s, player)
      PROVE  Good
  BY <1>1, <1>2, <1>5, TagType DEF SetSwingGolfer, SetPlayer, Rewrite
<1>6. ASSUME NEW s \in Swings, NEW club \in Clubs, SetSwingClub(s, club)
      PROVE  Good
  BY <1>1, <1>2, <1>6, TagType DEF SetSwingClub, SetClub, Rewrite
<1>7. ASSUME NEW s \in Swings, NEW verdict \in Verdicts \cup {None}, SetSwingMishit(s, verdict)
      PROVE  Good
  BY <1>1, <1>2, <1>7, TagType DEF SetSwingMishit, SetMishit, Rewrite
<1> HIDE DEF Good
<1>8. Good
  BY <1>3, <1>4, <1>5, <1>6, <1>7 DEF Edits
<1> QED
  BY <1>8 DEF Good

\* Whatever a human writes into a manifest, it stays one.
LEMMA EditKeepsSwings ==
  ASSUME StoreTypeOK, Edits
  PROVE  \A t \in Swings : manifest'[t] # None <=> manifest[t] # None
BY EditWrites DEF Retagged, Written

LEMMA LandNamed ==
  ASSUME StoreTypeOK, NEW d, NEW r \in Roles, NEW digest \in Digests, NEW target,
         NEW player \in Players \cup {None}, NEW club \in Clubs \cup {None},
         Assign(d, r, digest, target, player, club),
         NEW t \in Swings, manifest'[t] # None, NEW q \in Roles, manifest'[t].roles[q] # None,
         manifest[t] # None /\ manifest[t].roles[q] # None => <<q, manifest[t].roles[q]>> \in files[t]
  PROVE  <<q, manifest'[t].roles[q]>> \in files'[t]
<1>1. CASE Deduped(d, r, digest, target)
  BY <1>1 DEF Assign, storeVars
<1>2. CASE ~Deduped(d, r, digest, target)
  <2> PICK s : s = Slot(d, r, digest, target)
    OBVIOUS
  <2> PICK m : m = ManifestOr(s, player, club)
    OBVIOUS
  <2>1. /\ s \in Swings /\ m \in Manifest
        /\ manifest'[s].roles = [m.roles EXCEPT ![r] = digest]
        /\ files'[s] = Replaced(s, m, r, digest)
        /\ \A x \in Swings : x # s => manifest'[x] = manifest[x] /\ files'[x] = files[x]
    BY <1>2, LandSays
  <2>2. m.roles \in [Roles -> Digests \cup {None}]
    BY <2>1 DEF Manifest
  <2>3. manifest[s] # None => m = manifest[s]
    BY <2>1 DEF ManifestOr
  <2>4. manifest[s] = None => \A k \in Roles : m.roles[k] = None
    BY DEF ManifestOr, NewManifest
  <2>5. <<r, digest>> \in files'[s] /\ \A x \in files[s] : x # <<r, m.roles[r]>> => x \in files'[s]
    BY <2>1 DEF Replaced, Unlinked
  <2>6. CASE t # s
    BY <2>1, <2>6
  <2>7. CASE t = s
    <3>1. CASE q = r
      BY <2>1, <2>2, <2>5, <2>7, <3>1
    <3>2. CASE q # r
      <4>1. manifest'[s].roles[q] = m.roles[q]
        BY <2>1, <2>2, <3>2
      <4>2. manifest[s] # None /\ m = manifest[s]
        BY <2>3, <2>4, <2>7, <4>1
      <4>3. <<q, m.roles[q]>> \in files[s] /\ <<q, m.roles[q]>> # <<r, m.roles[r]>>
        BY <2>7, <3>2, <4>1, <4>2
      <4> QED
        BY <2>5, <2>7, <4>1, <4>3
    <3> QED
      BY <3>1, <3>2
  <2> QED
    BY <2>6, <2>7
<1> QED
  BY <1>1, <1>2

-----------------------------------------------------------------------------
(* What a step may do to one swing. *)

\* A landing that placed its file, in this swing.
LandsIn(p, s) ==
  /\ UploadFinish(p)
  /\ LET u == uploads[p] IN
       /\ ~Deduped(u.day, u.role, u.digest, u.target)
       /\ s = Slot(u.day, u.role, u.digest, u.target)

\* A human tagged this swing: its files are as they were, and a tag that was there
\* changed only by the repair route for it.
Tagged(s) ==
  /\ manifest[s] # None /\ manifest'[s] # None
  /\ manifest'[s].roles = manifest[s].roles
  /\ manifest[s].player \in {None, manifest'[s].player} \/ SetSwingGolfer(s, manifest'[s].player)
  /\ \/ manifest'[s].club = manifest[s].club
     \/ manifest'[s].club # None /\ SetSwingClub(s, manifest'[s].club)

LEMMA RewriteSays ==
  ASSUME StoreTypeOK, NEW s \in Swings, NEW m, m # None, Rewrite(s, m)
  PROVE  /\ manifest[s] \in Manifest /\ manifest'[s] = m /\ manifest'[s] # None
         /\ \A t \in Swings : t # s => manifest'[t] = manifest[t]
         /\ files' = files
BY DEF Rewrite, StoreTypeOK

LEMMA AttributeTags ==
  ASSUME StoreTypeOK, NEW d, NEW player \in Players, AttributeUnlabeled(d, player),
         NEW t \in Swings
  PROVE  manifest'[t] = manifest[t] \/ Tagged(t)
<1>1. CASE t \in Session(d) /\ manifest[t].player = None
  <2>1. manifest[t] # None /\ manifest[t] \in Manifest /\ clock < MaxWrites
    BY <1>1 DEF Session, StoreTypeOK, AttributeUnlabeled
  <2>2. manifest'[t] = [manifest[t] EXCEPT !.player = player, !.updated = clock + 1]
    BY <1>1 DEF AttributeUnlabeled
  <2>3. manifest'[t] # None
    BY <2>1, <2>2, TagType, StoreConstants
  <2>4. manifest'[t].roles = manifest[t].roles /\ manifest'[t].club = manifest[t].club
    BY <2>1, <2>2 DEF Manifest
  <2> QED
    BY <1>1, <2>1, <2>3, <2>4 DEF Tagged
<1>2. CASE ~(t \in Session(d) /\ manifest[t].player = None)
  BY <1>2 DEF AttributeUnlabeled
<1> QED
  BY <1>1, <1>2

LEMMA SetPlayerTags ==
  ASSUME StoreTypeOK, NEW s \in Swings, NEW player \in Players, SetSwingGolfer(s, player),
         NEW t \in Swings
  PROVE  manifest'[t] = manifest[t] \/ Tagged(t)
<1> PICK m : m = [manifest[s] EXCEPT !.player = player, !.updated = clock + 1]
  OBVIOUS
<1>1. Rewrite(s, m)
  BY DEF SetSwingGolfer, SetPlayer
<1>2. m \in Manifest /\ m # None
  BY <1>1, TagType, StoreConstants DEF Rewrite
<1>3. /\ manifest[s] # None /\ manifest[s] \in Manifest /\ manifest'[s] = m
      /\ t # s => manifest'[t] = manifest[t]
  BY <1>1, <1>2, RewriteSays DEF Rewrite
<1>4. m.roles = manifest[s].roles /\ m.club = manifest[s].club /\ m.player = player
  BY <1>3 DEF Manifest
<1>5. SetSwingGolfer(s, manifest'[s].player)
  <2>1. manifest'[s].player = player
    BY <1>3, <1>4
  <2> QED
    BY <2>1 DEF SetSwingGolfer, SetPlayer
<1> QED
  BY <1>2, <1>3, <1>4, <1>5 DEF Tagged

LEMMA SetClubTags ==
  ASSUME StoreTypeOK, NEW s \in Swings, NEW club \in Clubs, SetSwingClub(s, club),
         NEW t \in Swings
  PROVE  manifest'[t] = manifest[t] \/ Tagged(t)
<1> PICK m : m = [manifest[s] EXCEPT !.club = club, !.updated = clock + 1]
  OBVIOUS
<1>1. Rewrite(s, m)
  BY DEF SetSwingClub, SetClub
<1>2. m \in Manifest /\ m # None
  BY <1>1, TagType, StoreConstants DEF Rewrite
<1>3. /\ manifest[s] # None /\ manifest[s] \in Manifest /\ manifest'[s] = m
      /\ t # s => manifest'[t] = manifest[t]
  BY <1>1, <1>2, RewriteSays DEF Rewrite
<1>4. m.roles = manifest[s].roles /\ m.player = manifest[s].player /\ m.club = club
  BY <1>3 DEF Manifest
<1>5. SetSwingClub(s, manifest'[s].club)
  <2>1. manifest'[s].club = club
    BY <1>3, <1>4
  <2> QED
    BY <2>1 DEF SetSwingClub, SetClub
<1>6. club # None
  BY StoreConstants
<1> QED
  BY <1>2, <1>3, <1>4, <1>5, <1>6 DEF Tagged

LEMMA SetMishitTags ==
  ASSUME StoreTypeOK, NEW s \in Swings, NEW verdict \in Verdicts \cup {None},
         SetSwingMishit(s, verdict), NEW t \in Swings
  PROVE  manifest'[t] = manifest[t] \/ Tagged(t)
<1> PICK m : m = [manifest[s] EXCEPT !.mishit = verdict, !.updated = clock + 1]
  OBVIOUS
<1>1. Rewrite(s, m)
  BY DEF SetSwingMishit, SetMishit
<1>5. manifest[s] \in Manifest /\ clock + 1 \in 0..MaxWrites
  BY <1>1, StoreConstants DEF Rewrite, StoreTypeOK
<1>6. m \in Manifest
  BY <1>5 DEF Manifest
<1>2. m \in Manifest /\ m # None
  BY <1>6, StoreConstants
<1>3. /\ manifest[s] # None /\ manifest[s] \in Manifest /\ manifest'[s] = m
      /\ t # s => manifest'[t] = manifest[t]
  BY <1>1, <1>2, RewriteSays DEF Rewrite
<1>4. m.roles = manifest[s].roles /\ m.player = manifest[s].player /\ m.club = manifest[s].club
  BY <1>3 DEF Manifest
<1> QED
  BY <1>2, <1>3, <1>4 DEF Tagged

LEMMA EditTags ==
  ASSUME StoreTypeOK, Edits
  PROVE  /\ files' = files /\ uploads' = uploads
         /\ \A t \in Swings : manifest'[t] = manifest[t] \/ Tagged(t)
<1>1. ASSUME NEW t \in Swings
      PROVE  manifest'[t] = manifest[t] \/ Tagged(t)
  <2>1. ASSUME NEW player \in Players, SetCurrentGolfer(player)
        PROVE  manifest'[t] = manifest[t] \/ Tagged(t)
    BY <2>1, AttributeTags DEF SetCurrentGolfer
  <2>2. ASSUME NEW club \in Clubs, SetClubCursor(club)
        PROVE  manifest'[t] = manifest[t]
    BY <2>2 DEF SetClubCursor
  <2> QED
    BY <2>1, <2>2, SetPlayerTags, SetClubTags, SetMishitTags DEF Edits
<1>2. files' = files /\ uploads' = uploads
  BY DEF Edits, SetCurrentGolfer, SetClubCursor, SetSwingGolfer, SetSwingClub, SetSwingMishit,
     AttributeUnlabeled, SetPlayer, SetClub, SetMishit, Rewrite
<1> QED
  BY <1>1, <1>2

\* A swing is left alone, tagged, deleted, or gets a file.
LEMMA StepOfASwing ==
  ASSUME IngestTypeOK, [IngestNext]_ingestVars, NEW s \in Swings
  PROVE  \/ manifest'[s] = manifest[s]
         \/ Tagged(s)
         \/ manifest'[s] = None /\ DeleteUnanalyzed(s)
         \/ \E p \in Phones : LandsIn(p, s)
<1>0. StoreTypeOK
  BY DEF IngestTypeOK
<1>1. ASSUME NEW p \in Phones, UploadFinish(p), ~LandsIn(p, s)
      PROVE  manifest'[s] = manifest[s]
  <2>1. uploads[p] # None /\ Land(uploads[p])
    BY <1>1 DEF UploadFinish
  <2> PICK u : u = uploads[p]
    OBVIOUS
  <2>2. Assign(u.day, u.role, u.digest, u.target, u.player, u.club)
    BY <2>1 DEF Land
  <2>3. CASE Deduped(u.day, u.role, u.digest, u.target)
    BY <2>2, <2>3 DEF Assign, storeVars
  <2>4. CASE s # Slot(u.day, u.role, u.digest, u.target)
    BY <1>0, <2>2, <2>4 DEF Assign, storeVars, Place, StoreTypeOK
  <2> QED
    BY <1>1, <2>3, <2>4 DEF LandsIn
<1>2. ASSUME NEW t \in Swings, DeleteUnanalyzed(t)
      PROVE  IF t = s THEN manifest'[s] = None ELSE manifest'[s] = manifest[s]
  BY <1>0, <1>2 DEF DeleteUnanalyzed, DeleteSwing, StoreTypeOK
<1>3. CASE Edits
  BY <1>0, <1>3, EditTags
<1>4. ASSUME NEW p \in Phones, UploadAbort(p) \/ CrashDuring(p)
      PROVE  manifest'[s] = manifest[s]
  BY <1>4 DEF UploadAbort, CrashDuring, AssignCutShort, PlaceCutShort
<1>5. ASSUME NEW p \in Phones, NEW r \in Roles, NEW digest \in Digests, NEW target \in Targets,
             UploadStart(p, r, digest, target)
      PROVE  manifest'[s] = manifest[s]
  BY <1>5 DEF UploadStart
<1>6. CASE DayPasses \/ CrashBetween \/ UNCHANGED ingestVars
  BY <1>6 DEF DayPasses, Midnight, CrashBetween, ingestVars
<1> QED
  BY <1>1, <1>2, <1>3, <1>4, <1>5, <1>6 DEF IngestNext, Edits

LEMMA LandsInSays ==
  ASSUME IngestTypeOK, NEW p \in Phones, NEW s, LandsIn(p, s),
         NEW u, u = uploads[p], NEW m, m = ManifestOr(s, u.player, u.club)
  PROVE  /\ u \in Upload /\ s \in Swings /\ s[1] = u.day
         /\ m \in Manifest /\ manifest'[s] # None
         /\ manifest'[s].roles = [m.roles EXCEPT ![u.role] = u.digest]
         /\ manifest'[s].player = Stamped(m.player, u.player)
         /\ manifest'[s].club = Stamped(m.club, u.club)
         /\ \A t \in Swings : t # s => manifest'[t] = manifest[t] /\ files'[t] = files[t]
         /\ u.target = None =>
              /\ m.roles[u.role] = None
              /\ \A t \in Session(u.day) : manifest[t].roles[u.role] # u.digest
<1>1. StoreTypeOK /\ u \in Upload
  BY DEF IngestTypeOK, LandsIn, UploadFinish
<1>2. /\ u.role \in Roles /\ u.digest \in Digests
      /\ u.player \in Players \cup {None} /\ u.club \in Clubs \cup {None}
  BY <1>1 DEF Upload
<1>3. /\ Assign(u.day, u.role, u.digest, u.target, u.player, u.club)
      /\ ~Deduped(u.day, u.role, u.digest, u.target)
      /\ s = Slot(u.day, u.role, u.digest, u.target)
  BY DEF LandsIn, UploadFinish, Land
<1>4. s[1] = u.day
  BY <1>3, SlotInSession
<1>5. /\ s \in Swings /\ m \in Manifest /\ manifest'[s] \in Manifest /\ manifest'[s] # None
      /\ manifest'[s].roles = [m.roles EXCEPT ![u.role] = u.digest]
      /\ manifest'[s].player = Stamped(m.player, u.player)
      /\ manifest'[s].club = Stamped(m.club, u.club)
      /\ manifest'[s].updated = clock + 1 /\ clock' = clock + 1
      /\ files'[s] = Replaced(s, m, u.role, u.digest)
      /\ \A t \in Swings : t # s => manifest'[t] = manifest[t] /\ files'[t] = files[t]
      /\ today' = today
  BY <1>1, <1>2, <1>3, LandSays
<1>6. ASSUME u.target = None
      PROVE  /\ m.roles[u.role] = None
             /\ \A t \in Session(u.day) : manifest[t].roles[u.role] # u.digest
  <2>1. s = Slot(u.day, u.role, u.digest, None) /\ ~Deduped(u.day, u.role, u.digest, None)
    BY <1>3, <1>6
  <2>2. manifest[s] # None => manifest[s].roles[u.role] = None
    BY <1>1, <1>5, <2>1, SlotLacksRole
  <2>3. \A t \in Session(u.day) : manifest[t].roles[u.role] # u.digest
    BY <2>1, NobodyHolds
  <2> QED
    BY <1>2, <1>5, <2>2, <2>3 DEF ManifestOr, NewManifest
<1> QED
  BY <1>1, <1>4, <1>5, <1>6

-----------------------------------------------------------------------------
(* Every swing has a club. *)

\* A day with an upload in flight has its club cursor set: the route looked.
ClubIsSet == \A p \in Phones : uploads[p] # None => meta[uploads[p].day].club # None

Clubbed == IngestTypeOK /\ EverySwingHasAClub /\ ClubIsSet

\* A cursor once set is moved, never taken away.
LEMMA CursorStays ==
  ASSUME IngestTypeOK, [IngestNext]_ingestVars, NEW d \in Days, meta[d].club # None
  PROVE  meta'[d].club # None
<1>0. meta \in [Days -> Cursors]
  BY DEF IngestTypeOK
<1>1. ASSUME NEW x, NEW player, NEW club, UpdateCursor(x, player, club)
      PROVE  meta'[d].club # None
  <2>1. CASE x = d
    BY <1>0, <1>1, <2>1 DEF UpdateCursor
  <2>2. CASE x # d
    BY <1>0, <1>1, <2>2 DEF UpdateCursor
  <2> QED
    BY <2>1, <2>2
<1>2. CASE Edits
  <2>1. ASSUME NEW player \in Players, SetCurrentGolfer(player)
        PROVE  meta'[d].club # None
    BY <1>1, <2>1 DEF SetCurrentGolfer
  <2>2. ASSUME NEW club \in Clubs, SetClubCursor(club)
        PROVE  meta'[d].club # None
    BY <1>1, <2>2 DEF SetClubCursor
  <2> QED
    BY <1>2, <2>1, <2>2 DEF Edits, SetSwingGolfer, SetSwingClub, SetSwingMishit
<1>3. ASSUME ~Edits
      PROVE  meta' = meta
  BY <1>3 DEF IngestNext, Edits, UploadStart, UploadAbort, UploadFinish, CrashDuring, CrashBetween,
     DeleteUnanalyzed, DayPasses, ingestVars
<1> QED
  BY <1>2, <1>3

\* An upload that is there after a step was there before it, or has just read a
\* cursor that is set.
LEMMA UploadsAreOld ==
  ASSUME IngestTypeOK, [IngestNext]_ingestVars, NEW p \in Phones, uploads'[p] # None
  PROVE  \/ uploads'[p] = uploads[p]
         \/ uploads'[p].day = today /\ meta[today].club # None
<1>0. uploads \in [Phones -> Upload \cup {None}] /\ StoreTypeOK
  BY DEF IngestTypeOK
<1>1. ASSUME NEW x \in Phones, NEW r \in Roles, NEW digest \in Digests, NEW target \in Targets,
             UploadStart(x, r, digest, target)
      PROVE  \/ uploads'[p] = uploads[p]
             \/ uploads'[p].day = today /\ meta[today].club # None
  <2>1. CASE x = p
    BY <1>0, <1>1, <2>1 DEF UploadStart
  <2>2. CASE x # p
    BY <1>0, <1>1, <2>2 DEF UploadStart
  <2> QED
    BY <2>1, <2>2
<1>2. ASSUME NEW x \in Phones, UploadAbort(x) \/ UploadFinish(x) \/ CrashDuring(x)
      PROVE  uploads'[p] = uploads[p]
  BY <1>0, <1>2 DEF UploadAbort, UploadFinish, CrashDuring
<1>3. CASE Edits
  BY <1>0, <1>3, EditTags
<1>4. ASSUME NEW s \in Swings, DeleteUnanalyzed(s)
      PROVE  uploads'[p] = uploads[p]
  BY <1>4 DEF DeleteUnanalyzed
<1>5. CASE DayPasses \/ CrashBetween \/ UNCHANGED ingestVars
  BY <1>5 DEF DayPasses, CrashBetween, ingestVars
<1> QED
  BY <1>1, <1>2, <1>3, <1>4, <1>5 DEF IngestNext, Edits

LEMMA ClubbedInit == IngestInit => Clubbed
BY IngestTypeInit DEF IngestInit, StoreInit, Clubbed, EverySwingHasAClub, ClubIsSet

LEMMA ClubbedNext == Clubbed /\ [IngestNext]_ingestVars => Clubbed'
<1> SUFFICES ASSUME Clubbed, [IngestNext]_ingestVars PROVE Clubbed'
  OBVIOUS
<1>1. IngestTypeOK /\ IngestTypeOK' /\ StoreTypeOK
  BY IngestTypeNext DEF Clubbed, IngestTypeOK
<1>2. \A d \in Days : meta[d].club # None => meta'[d].club # None
  BY <1>1, CursorStays
<1>3. ClubIsSet'
  <2> SUFFICES ASSUME NEW p \in Phones, uploads'[p] # None
               PROVE  meta'[uploads'[p].day].club # None
    BY DEF ClubIsSet
  <2>1. CASE uploads'[p] = uploads[p]
    <3>1. uploads[p].day \in Days
      BY <1>1, <2>1, UploadType
    <3> QED
      BY <1>2, <2>1, <3>1 DEF Clubbed, ClubIsSet
  <2>2. CASE uploads'[p].day = today /\ meta[today].club # None
    BY <1>1, <1>2, <2>2 DEF StoreTypeOK
  <2> QED
    BY <1>1, <2>1, <2>2, UploadsAreOld
<1>4. ASSUME NEW s \in Swings, manifest'[s] # None
      PROVE  manifest'[s].club # None /\ meta'[s[1]].club # None
  <2>0. s[1] \in Days
    BY DEF Swings
  <2>1. CASE manifest'[s] = manifest[s]
    BY <1>2, <1>4, <2>0, <2>1 DEF Clubbed, EverySwingHasAClub
  <2>2. CASE Tagged(s)
    BY <1>2, <2>0, <2>2 DEF Clubbed, EverySwingHasAClub, Tagged
  <2>3. ASSUME NEW p \in Phones, LandsIn(p, s)
        PROVE  manifest'[s].club # None /\ meta'[s[1]].club # None
    <3> PICK u : u = uploads[p]
      OBVIOUS
    <3> PICK m : m = ManifestOr(s, u.player, u.club)
      OBVIOUS
    <3>1. /\ u \in Upload /\ s \in Swings /\ s[1] = u.day
          /\ m \in Manifest /\ manifest'[s] # None
          /\ manifest'[s].roles = [m.roles EXCEPT ![u.role] = u.digest]
          /\ manifest'[s].player = Stamped(m.player, u.player)
          /\ manifest'[s].club = Stamped(m.club, u.club)
      BY <1>1, <2>3, LandsInSays
    <3>2. u.club # None
      BY <3>1, StoreConstants DEF Upload
    <3>3. u # None
      BY <2>3 DEF LandsIn, UploadFinish
    <3>4. meta[u.day].club # None
      BY <3>3 DEF Clubbed, ClubIsSet
    <3> QED
      BY <1>2, <2>0, <3>1, <3>2, <3>4 DEF Stamped
  <2> QED
    BY <1>1, <1>4, <2>1, <2>2, <2>3, StepOfASwing
<1> QED
  BY <1>1, <1>3, <1>4 DEF Clubbed, EverySwingHasAClub

\* Every swing on record is tagged with a club and is of a session whose cursor had
\* been set, also when its upload spanned midnight.
THEOREM SwingsHaveClubs == IngestSpec => []EverySwingHasAClub
<1>1. Clubbed => EverySwingHasAClub
  BY DEF Clubbed
<1> QED
  BY <1>1, ClubbedInit, ClubbedNext, PTL DEF IngestSpec

\* The store and the routes keep their types.
THEOREM IngestTypeCorrect == IngestSpec => []IngestTypeOK
BY IngestTypeInit, IngestTypeNext, PTL DEF IngestSpec

-----------------------------------------------------------------------------
(* What no step of the routes may do. *)

\* A golfer or a club once on a swing changes only by the repair route for that swing,
\* or with the swing deleted (write-once stamping).
THEOREM TagsStay == IngestSpec => StampsAreWriteOnce
<1> DEFINE Kept(s) ==
      manifest[s] # None /\ manifest'[s] # None =>
        /\ \/ manifest[s].player \in {None, manifest'[s].player}
           \/ SetSwingGolfer(s, manifest'[s].player)
        /\ \/ manifest[s].club \in {None, manifest'[s].club}
           \/ SetSwingClub(s, manifest'[s].club)
<1>1. IngestTypeOK /\ [IngestNext]_ingestVars => [\A s \in Swings : Kept(s)]_ingestVars
  <2> SUFFICES ASSUME IngestTypeOK, [IngestNext]_ingestVars, NEW s \in Swings,
                      manifest[s] # None, manifest'[s] # None
               PROVE  /\ \/ manifest[s].player \in {None, manifest'[s].player}
                         \/ SetSwingGolfer(s, manifest'[s].player)
                      /\ \/ manifest[s].club \in {None, manifest'[s].club}
                         \/ SetSwingClub(s, manifest'[s].club)
    OBVIOUS
  <2>1. CASE manifest'[s] = manifest[s]
    BY <2>1
  <2>2. CASE Tagged(s)
    BY <2>2 DEF Tagged
  <2>3. ASSUME NEW p \in Phones, LandsIn(p, s)
        PROVE  /\ manifest[s].player \in {None, manifest'[s].player}
               /\ manifest[s].club \in {None, manifest'[s].club}
    <3> PICK u : u = uploads[p]
      OBVIOUS
    <3> PICK m : m = ManifestOr(s, u.player, u.club)
      OBVIOUS
    <3>1. /\ u \in Upload /\ s \in Swings /\ s[1] = u.day
          /\ m \in Manifest /\ manifest'[s] # None
          /\ manifest'[s].roles = [m.roles EXCEPT ![u.role] = u.digest]
          /\ manifest'[s].player = Stamped(m.player, u.player)
          /\ manifest'[s].club = Stamped(m.club, u.club)
      BY <2>3, LandsInSays
    <3>2. m = manifest[s]
      BY DEF ManifestOr
    <3> QED
      BY <3>1, <3>2 DEF Stamped
  <2> QED
    BY <2>1, <2>2, <2>3, StepOfASwing
<1> QED
  BY <1>1, IngestTypeInit, IngestTypeNext, PTL DEF IngestSpec, StampsAreWriteOnce

\* A file already in a swing stays there until a human replaces it or deletes the
\* swing: no automatic upload pairs over it.
THEOREM FilesStay == IngestSpec => BundledFilesStay
<1> DEFINE Kept(s, r) ==
      manifest[s] # None /\ manifest[s].roles[r] # None =>
        \/ manifest'[s] # None /\ manifest'[s].roles[r] = manifest[s].roles[r]
        \/ \E p \in Phones : Repairing(p) /\ UploadFinish(p)
        \/ DeleteUnanalyzed(s)
<1>1. IngestTypeOK /\ [IngestNext]_ingestVars
        => [\A s \in Swings, r \in Roles : Kept(s, r)]_ingestVars
  <2> SUFFICES ASSUME IngestTypeOK, [IngestNext]_ingestVars, NEW s \in Swings, NEW r \in Roles,
                      manifest[s] # None, manifest[s].roles[r] # None,
                      ~\E p \in Phones : Repairing(p) /\ UploadFinish(p)
               PROVE  \/ manifest'[s] # None /\ manifest'[s].roles[r] = manifest[s].roles[r]
                      \/ DeleteUnanalyzed(s)
    OBVIOUS
  <2>1. ASSUME NEW p \in Phones, LandsIn(p, s)
        PROVE  manifest'[s] # None /\ manifest'[s].roles[r] = manifest[s].roles[r]
    <3> PICK u : u = uploads[p]
      OBVIOUS
    <3> PICK m : m = ManifestOr(s, u.player, u.club)
      OBVIOUS
    <3>1. UploadFinish(p) /\ u # None
      BY <2>1 DEF LandsIn, UploadFinish
    <3>2. u.target = None
      BY <3>1 DEF Repairing
    <3>3. /\ m \in Manifest /\ manifest'[s] # None
          /\ manifest'[s].roles = [m.roles EXCEPT ![u.role] = u.digest]
          /\ m.roles[u.role] = None
      BY <2>1, <3>2, LandsInSays
    <3>4. m = manifest[s]
      BY DEF ManifestOr
    <3> QED
      BY <3>3, <3>4 DEF Manifest
  <2> QED
    BY <2>1, StepOfASwing DEF Tagged
<1> QED
  BY <1>1, IngestTypeInit, IngestTypeNext, PTL DEF IngestSpec, BundledFilesStay

\* Of two swings that come to hold one content in one role, neither got its file from
\* an upload that names no swing.
LEMMA NoTwinLands ==
  ASSUME IngestTypeOK, NEW s \in Swings, NEW t \in Swings, Twins(s, t)', NEW p \in Phones,
         LandsIn(p, s), ~Repairing(p)
  PROVE  Twins(s, t)
<1> PICK u : u = uploads[p]
  OBVIOUS
<1> PICK m : m = ManifestOr(s, u.player, u.club)
  OBVIOUS
<1>1. u.target = None
  BY DEF LandsIn, UploadFinish, Repairing
<1>2. /\ u \in Upload /\ s[1] = u.day
      /\ m \in Manifest /\ manifest'[s] # None
      /\ manifest'[s].roles = [m.roles EXCEPT ![u.role] = u.digest]
      /\ \A x \in Swings : x # s => manifest'[x] = manifest[x] /\ files'[x] = files[x]
      /\ \A x \in Session(u.day) : manifest[x].roles[u.role] # u.digest
  BY <1>1, LandsInSays
<1>3. s # t /\ s[1] = t[1] /\ manifest'[t] = manifest[t] /\ manifest[t] # None
  BY <1>2 DEF Twins
<1>4. PICK q \in Roles : manifest'[s].roles[q] # None /\ manifest'[s].roles[q] = manifest[t].roles[q]
  BY <1>3 DEF Twins
<1>5. t \in Session(u.day) /\ u.role \in Roles
  BY <1>2, <1>3 DEF Session, Upload
<1>6. q # u.role
  BY <1>2, <1>4, <1>5 DEF Manifest
<1>7. m.roles[q] # None /\ m.roles[q] = manifest[t].roles[q]
  BY <1>2, <1>4, <1>6 DEF Manifest
<1>8. manifest[s] # None /\ m = manifest[s]
  BY <1>7 DEF ManifestOr, NewManifest
<1> QED
  BY <1>3, <1>7, <1>8 DEF Twins

\* One shot's file is in one swing: two swings of a session come to hold the same
\* content in the same role only by an upload that says which swing it repairs.
THEOREM OneShotOneSwing == IngestSpec => NoTwinSwings
<1> DEFINE Kept(s, t) ==
      Twins(s, t)' => Twins(s, t) \/ \E p \in Phones : Repairing(p) /\ UploadFinish(p)
<1>1. IngestTypeOK /\ [IngestNext]_ingestVars
        => [\A s, t \in Swings : Kept(s, t)]_ingestVars
  <2> SUFFICES ASSUME IngestTypeOK, [IngestNext]_ingestVars, NEW s \in Swings, NEW t \in Swings,
                      Twins(s, t)', ~\E p \in Phones : Repairing(p) /\ UploadFinish(p)
               PROVE  Twins(s, t)
    OBVIOUS
  <2>1. ASSUME NEW p \in Phones, LandsIn(p, s)
        PROVE  Twins(s, t)
    BY <2>1, NoTwinLands DEF LandsIn
  <2>2. ASSUME NEW p \in Phones, LandsIn(p, t)
        PROVE  Twins(s, t)
    <3>1. Twins(t, s)'
      BY DEF Twins
    <3>2. Twins(t, s)
      BY <2>2, <3>1, NoTwinLands DEF LandsIn
    <3> QED
      BY <3>2 DEF Twins
  <2>3. CASE ~\E p \in Phones : LandsIn(p, s) \/ LandsIn(p, t)
    <3>1. manifest'[s] # None /\ manifest'[t] # None
      BY DEF Twins
    <3>2. manifest[s] # None /\ manifest'[s].roles = manifest[s].roles
      BY <2>3, <3>1, StepOfASwing DEF Tagged
    <3>3. manifest[t] # None /\ manifest'[t].roles = manifest[t].roles
      BY <2>3, <3>1, StepOfASwing DEF Tagged
    <3> QED
      BY <3>2, <3>3 DEF Twins
  <2> QED
    BY <2>1, <2>2, <2>3
<1> QED
  BY <1>1, IngestTypeInit, IngestTypeNext, PTL DEF IngestSpec, NoTwinSwings

\* A file the manifest names and the directory has, role by role.
LEMMA FilesOfRoles ==
  ASSUME NEW s
  PROVE  FilesOf(s) \subseteq files[s] <=>
           \A q \in Roles : manifest[s] # None /\ manifest[s].roles[q] # None =>
                              <<q, manifest[s].roles[q]>> \in files[s]
BY DEF FilesOf, MissingRoles

\* A crash inside an automatic upload takes away no file a manifest names: the role
\* had none.
LEMMA CrashNamed ==
  ASSUME IngestTypeOK, NEW p \in Phones, CrashDuring(p), ~Repairing(p),
         NEW t \in Swings, NEW q \in Roles, manifest[t] # None, manifest[t].roles[q] # None,
         <<q, manifest[t].roles[q]>> \in files[t]
  PROVE  <<q, manifest[t].roles[q]>> \in files'[t]
<1> PICK u : u = uploads[p]
  OBVIOUS
<1> PICK s : s = Slot(u.day, u.role, u.digest, None)
  OBVIOUS
<1> PICK m : m = ManifestOr(s, u.player, u.club)
  OBVIOUS
<1>1. u.target = None /\ u # None
  BY DEF CrashDuring, Repairing
<1>2. StoreTypeOK /\ u.role \in Roles /\ u.digest \in Digests
  BY <1>1, UploadType DEF IngestTypeOK
<1>3. AssignCutShort(u.day, u.role, u.digest, None, u.player, u.club)
  BY <1>1 DEF CrashDuring
<1>4. ~Deduped(u.day, u.role, u.digest, None) /\ PlaceCutShort(s, m, u.role, u.digest)
  BY <1>3 DEF AssignCutShort
<1>5. s \in Swings
  BY <1>4 DEF PlaceCutShort
<1>6. m.roles[u.role] = None
  <2>1. manifest[s] # None => manifest[s].roles[u.role] = None
    BY <1>2, <1>4, <1>5, SlotLacksRole
  <2> QED
    BY <1>2, <1>5, <2>1 DEF ManifestOr, NewManifest
<1>7. <<q, manifest[t].roles[q]>> # <<u.role, m.roles[u.role]>>
  BY <1>6
<1>8. CASE t = s
  <2>1. files'[s] = Unlinked(s, m, u.role) \/ files'[s] = Replaced(s, m, u.role, u.digest)
    BY <1>2, <1>4, <1>5 DEF PlaceCutShort, StoreTypeOK
  <2> QED
    BY <1>7, <1>8, <2>1 DEF Replaced, Unlinked
<1>9. CASE t # s
  BY <1>2, <1>4, <1>9 DEF PlaceCutShort, StoreTypeOK
<1> QED
  BY <1>8, <1>9

\* No automatic upload and no crash inside one loses a file that a manifest names;
\* only a repair cut short between its unlink and its save can.
THEOREM NamedFilesStay == IngestSpec => NamedFilesStayOnDisk
<1> DEFINE Kept ==
      (\A s \in Swings : FilesOf(s) \subseteq files[s]) =>
        \/ \A s \in Swings : (FilesOf(s) \subseteq files[s])'
        \/ \E p \in Phones : Repairing(p) /\ CrashDuring(p)
<1>1. IngestTypeOK /\ [IngestNext]_ingestVars => [Kept]_ingestVars
  <2> SUFFICES ASSUME IngestTypeOK, [IngestNext]_ingestVars,
                      \A s \in Swings : FilesOf(s) \subseteq files[s],
                      ~\E p \in Phones : Repairing(p) /\ CrashDuring(p), NEW t \in Swings
               PROVE  (FilesOf(t) \subseteq files[t])'
    OBVIOUS
  <2>0. StoreTypeOK
    BY DEF IngestTypeOK
  <2>1. \A q \in Roles : manifest[t] # None /\ manifest[t].roles[q] # None =>
                           <<q, manifest[t].roles[q]>> \in files[t]
    BY FilesOfRoles
  <2> SUFFICES ASSUME NEW q \in Roles, manifest'[t] # None, manifest'[t].roles[q] # None
               PROVE  <<q, manifest'[t].roles[q]>> \in files'[t]
    BY DEF FilesOf, MissingRoles
  <2>2. ASSUME NEW p \in Phones, UploadFinish(p)
        PROVE  <<q, manifest'[t].roles[q]>> \in files'[t]
    <3> PICK u : u = uploads[p]
      OBVIOUS
    <3>1. u # None /\ Assign(u.day, u.role, u.digest, u.target, u.player, u.club)
      BY <2>2 DEF UploadFinish, Land
    <3>2. /\ u.role \in Roles /\ u.digest \in Digests
          /\ u.player \in Players \cup {None} /\ u.club \in Clubs \cup {None}
      BY <3>1, UploadType
    <3> QED
      BY <2>0, <2>1, <3>1, <3>2, LandNamed
  <2>3. ASSUME NEW p \in Phones, CrashDuring(p)
        PROVE  <<q, manifest'[t].roles[q]>> \in files'[t]
    <3>1. manifest' = manifest
      BY <2>3 DEF CrashDuring, AssignCutShort, PlaceCutShort
    <3>2. manifest[t] # None /\ manifest[t].roles[q] # None
      BY <3>1
    <3>3. <<q, manifest[t].roles[q]>> \in files[t]
      BY <2>1, <3>2
    <3>4. <<q, manifest[t].roles[q]>> \in files'[t]
      BY <2>3, <3>2, <3>3, CrashNamed
    <3> QED
      BY <3>1, <3>4
  <2>4. CASE Edits
    <3>1. files' = files /\ (manifest'[t] = manifest[t] \/ Tagged(t))
      BY <2>0, <2>4, EditTags
    <3> QED
      BY <2>1, <3>1 DEF Tagged
  <2>5. ASSUME NEW s \in Swings, DeleteUnanalyzed(s)
        PROVE  <<q, manifest'[t].roles[q]>> \in files'[t]
    <3>1. t # s /\ manifest'[t] = manifest[t] /\ files'[t] = files[t]
      BY <2>0, <2>5 DEF DeleteUnanalyzed, DeleteSwing, StoreTypeOK
    <3> QED
      BY <2>1, <3>1
  <2>6. ASSUME manifest' = manifest, files' = files
        PROVE  <<q, manifest'[t].roles[q]>> \in files'[t]
    BY <2>1, <2>6
  <2>7. ASSUME NEW p \in Phones, NEW r \in Roles, NEW digest \in Digests, NEW target \in Targets,
               UploadStart(p, r, digest, target)
        PROVE  manifest' = manifest /\ files' = files
    BY <2>7 DEF UploadStart
  <2>8. ASSUME NEW p \in Phones, UploadAbort(p)
        PROVE  manifest' = manifest /\ files' = files
    BY <2>8 DEF UploadAbort
  <2>9. ASSUME DayPasses \/ CrashBetween \/ UNCHANGED ingestVars
        PROVE  manifest' = manifest /\ files' = files
    BY <2>9 DEF DayPasses, Midnight, CrashBetween, ingestVars
  <2> QED
    BY <2>2, <2>3, <2>4, <2>5, <2>6, <2>7, <2>8, <2>9 DEF IngestNext, Edits
<1> QED
  BY <1>1, IngestTypeInit, IngestTypeNext, PTL DEF IngestSpec, NamedFilesStayOnDisk
=============================================================================
