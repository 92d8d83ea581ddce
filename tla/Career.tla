------------------------------- MODULE Career -------------------------------
(***************************************************************************)
(* A golfer's career: every swing of one player across the sessions on     *)
(* disk, read afresh by whoever asks (the MCP tools, the web routes, the   *)
(* scripts).  Nothing is stored but the artifacts of the swings, so the    *)
(* state is those artifacts under every edit that moves them, and the      *)
(* corpus is an operator of the state.                                     *)
(* Source: storage/corpus.py, contracts/career.py, contracts/mishit.py;    *)
(* the edits are those of storage/bundle_store.py and of the pipeline, one *)
(* step each (BundleStore and AnalysisWorker take them apart).             *)
(***************************************************************************)
EXTENDS Integers, Sequences, FiniteSets, SequencesExt

CONSTANTS
  Swings,        \* directories <<session, number>>
  Players,       \* golfers
  Me,            \* the one whose career is read
  Clubs,
  Clips,         \* contents of a face-on clip
  Photos,        \* contents of a shot photo
  Carry,         \* photo -> the carry read from it, None when there is none
  Doubtful,      \* photos whose parse needs review
  MinCleanShots, \* MISHIT_MIN_CLEAN_SHOTS
  AtFirst,       \* BOUND: the swings on disk at first, in the order they arrived
  Arrivals,      \* BOUND: the files and cursors a swing may arrive with
  MaxEdits,      \* BOUND: edits of the library
  None

VARIABLES
  manifest, \* swing -> its manifest.json or None
  result,   \* swing -> its analysis.json or None: the inputs and the engine it came from
  sidecar,  \* swing -> the inputs its analysis.state.json names, or None
  engine,   \* ANALYSIS_VERSION as installed
  clock     \* edits so far

libraryVars == <<manifest, result, sidecar, engine, clock>>

Inputs == [face : Clips \cup {None}, photo : Photos \cup {None}]

Manifest == [player : Players \cup {None}, club : Clubs \cup {None},
             face : Clips \cup {None}, photo : Photos \cup {None},
             verdict : {None, "confirmed", "cleared"}, at : 1..MaxEdits]

\* A swing that arrives: an upload, which may be analyzed, or one on disk at first.
Arrival ==
  [player : Players \cup {None}, club : Clubs \cup {None},
   face : Clips \cup {None}, photo : Photos \cup {None}, runs : BOOLEAN]

OnDiskAtFirst ==
  [player : Players \cup {None}, club : Clubs \cup {None},
   face : Clips \cup {None}, photo : Photos \cup {None}, dir : Swings]

ASSUME CareerConstants ==
  /\ Swings \subseteq Nat \X Nat /\ IsFiniteSet(Swings)
  /\ Me \in Players
  /\ Doubtful \subseteq Photos
  /\ MinCleanShots \in Nat \ {0}
  /\ MaxEdits \in Nat /\ MaxEdits >= 2
  /\ Arrivals \subseteq Arrival
  /\ \A q \in AtFirst : q \in Seq(OnDiskAtFirst) /\ Len(q) <= 2
  /\ None \notin Nat \cup Swings \cup Players \cup Clips \cup Photos \cup Inputs \cup Manifest

LibraryTypeOK ==
  /\ manifest \in [Swings -> Manifest \cup {None}]
  /\ result \in [Swings -> [inputs : Inputs, version : 1..engine] \cup {None}]
  /\ sidecar \in [Swings -> Inputs \cup {None}]
  /\ engine \in {1, 2} /\ clock \in 0..MaxEdits

InputsOf(m) == [face |-> m.face, photo |-> m.photo]

\* What an upload makes of what arrives.
Arrived(a, t) ==
  [player |-> a.player, club |-> a.club, face |-> a.face, photo |-> a.photo,
   verdict |-> None, at |-> t]

\* A library of some age: what arrived was analyzed.
LibraryInit ==
  /\ engine = 1 /\ clock = 2
  /\ \E q \in AtFirst :
       LET where == {q[i].dir : i \in DOMAIN q}
           nth(s) == CHOOSE i \in DOMAIN q : q[i].dir = s
       IN /\ manifest = [s \in Swings |-> IF s \in where THEN Arrived(q[nth(s)], nth(s)) ELSE None]
          /\ sidecar = [s \in Swings |-> IF s \in where THEN InputsOf(manifest[s]) ELSE None]
          /\ result = [s \in Swings |-> IF s \in where
                                         THEN [inputs |-> sidecar[s], version |-> engine] ELSE None]

-----------------------------------------------------------------------------
(* The edits. *)

Edit == clock < MaxEdits /\ clock' = clock + 1

\* A run over the files of m: none without a readable face-on clip, and then
\* what an earlier run left stays.
Run(s, m, ends) ==
  /\ sidecar' = [sidecar EXCEPT ![s] = InputsOf(m)]
  /\ result' = IF ends THEN [result EXCEPT ![s] = [inputs |-> InputsOf(m), version |-> engine]]
                       ELSE result

\* A swing arrives: its files, what the cursors say, and the run they trigger.
Arrive(s) ==
  /\ Edit /\ manifest[s] = None
  /\ \E a \in Arrivals :
       LET m == Arrived(a, clock')
       IN /\ manifest' = [manifest EXCEPT ![s] = m]
          /\ IF a.runs THEN Run(s, m, TRUE) ELSE UNCHANGED <<result, sidecar>>
  /\ UNCHANGED engine

\* A clip or a photo is replaced, or added.  The run this asks for may fail, and
\* until it ends its sidecar already names the new files.
Replace(s) ==
  /\ Edit /\ manifest[s] # None
  /\ \E m \in {[manifest[s] EXCEPT !.face = c] : c \in Clips \ {manifest[s].face}}
             \cup {[manifest[s] EXCEPT !.photo = p] : p \in Photos \ {manifest[s].photo}} :
       /\ manifest' = [manifest EXCEPT ![s] = m]
       /\ \/ \E ends \in BOOLEAN : (ends => m.face # None) /\ Run(s, m, ends)
          \/ UNCHANGED <<result, sidecar>>
  /\ UNCHANGED engine

Analyze(s) ==
  /\ Edit /\ manifest[s] # None /\ manifest[s].face # None
  /\ Run(s, manifest[s], TRUE)
  /\ UNCHANGED <<manifest, engine>>

Tag(s) ==
  /\ Edit /\ manifest[s] # None
  /\ \/ \E p \in Players : manifest' = [manifest EXCEPT ![s].player = p]
     \/ \E c \in Clubs : manifest' = [manifest EXCEPT ![s].club = c]
     \/ \E v \in {None, "confirmed", "cleared"} : manifest' = [manifest EXCEPT ![s].verdict = v]
  /\ UNCHANGED <<result, sidecar, engine>>

Delete(s) ==
  /\ Edit /\ manifest[s] # None
  /\ manifest' = [manifest EXCEPT ![s] = None]
  /\ result' = [result EXCEPT ![s] = None]
  /\ sidecar' = [sidecar EXCEPT ![s] = None]
  /\ UNCHANGED engine

Upgrade == Edit /\ engine = 1 /\ engine' = 2 /\ UNCHANGED <<manifest, result, sidecar>>

LibraryNext == (\E s \in Swings : Arrive(s) \/ Replace(s) \/ Analyze(s) \/ Tag(s) \/ Delete(s)) \/ Upgrade

-----------------------------------------------------------------------------
(* read_corpus *)

OnDisk == {s \in Swings : manifest[s] # None}

\* _arrival, and the order of the swings: when, then where.
Before(s, t) ==
  LET a == <<manifest[s].at, s[1], s[2]>>
      b == <<manifest[t].at, t[1], t[2]>>
  IN \E i \in 1..3 : a[i] < b[i] /\ \A j \in 1..(i - 1) : a[j] = b[j]

First(S) == CHOOSE s \in S : \A t \in S \ {s} : Before(s, t)

Unattributed == {s \in OnDisk : manifest[s].player = None}
OtherGolfers == {s \in OnDisk : manifest[s].player \notin {None, Me}}
Mine == {s \in OnDisk : manifest[s].player = Me}
NoFaceOn == {s \in Mine : manifest[s].face = None}

Group(s) == {t \in Mine : manifest[t].face = manifest[s].face}

\* MUTANT: the last directory speaks for the clip.
KeptLast == {s \in Mine \ NoFaceOn : \A t \in Group(s) \ {s} : Before(t, s)}

\* One swing is one face-on clip; the directory that had it first speaks for it.
Kept == {s \in Mine \ NoFaceOn : s = First(Group(s))}

Duplicate == Mine \ (NoFaceOn \cup Kept)

NotAnalyzed == {s \in Kept : result[s] = None}
Stale == {s \in Kept : result[s] # None /\ sidecar[s] # None /\ sidecar[s] # InputsOf(manifest[s])}
Outdated == {s \in Kept : result[s] # None /\ result[s].version < engine}

\* counts_toward_metrics
Counted == Kept \ (NotAnalyzed \cup Stale \cup Outdated)

Excluded == Unattributed \cup NoFaceOn \cup Duplicate \cup NotAnalyzed \cup Stale \cup Outdated

\* What the stored analysis says of the shot it was made with.
Read(s) == result[s].inputs.photo
NeedsReview(s) == Read(s) \in Doubtful
CarryOf(s) == IF Read(s) = None THEN None ELSE Carry[Read(s)]

-----------------------------------------------------------------------------
(* The mishit rule. *)

\* The shots of a club that can be compared, of the swings that count.
Comparable(c, counted) ==
  {s \in counted : /\ manifest[s].club = c
                   /\ manifest[s].photo # None /\ ~NeedsReview(s) /\ CarryOf(s) # None}

\* Their carries in order, one for each photo: that of the first swing with it.
Carries(S) ==
  LET firsts == {s \in S : s = First({t \in S : manifest[t].photo = manifest[s].photo})}
  IN SetToSortSeq(firsts, LAMBDA s, t : CarryOf(s) < CarryOf(t))

\* Twice the median, so that it stays whole.
TwiceMedian(q) == CarryOf(q[(Len(q) + 1) \div 2]) + CarryOf(q[Len(q) \div 2 + 1])

\* carry < MISHIT_CARRY_FRACTION * median, a half; no floor from few shots.
UnderFloor(s, q) == Len(q) >= MinCleanShots /\ 4 * CarryOf(s) < TwiceMedian(q)

\* _flag_auto_mishits
AutoMishits(counted) ==
  UNION {LET S == Comparable(c, counted)
             q == Carries(S)
         IN {s \in S : UnderFloor(s, q)} : c \in Clubs}

\* The golfer's verdict wins, either way.
IsMishit(s, auto) ==
  \/ manifest[s].verdict = "confirmed"
  \/ manifest[s].verdict = None /\ s \in auto

-----------------------------------------------------------------------------
(* What a swing contributes. *)

\* sway and tempo: from the face-on view; turn: from the other view; apex and
\* carry: from the launch monitor, the second a distance.
Metrics == {"sway", "tempo", "turn", "apex", "carry"}

Measured(s, m) ==
  CASE m = "apex" -> Read(s) # None
    [] m = "carry" -> CarryOf(s) # None
    [] OTHER -> TRUE

\* MUTANT: the numbers of a shot are the swing's own, as if a photo were shown once.
ArtifactKeyBySwing(s, m, mishit) ==
  CASE m = "turn" -> None
    [] m \in {"sway", "tempo"} -> manifest[s].face
    [] OTHER -> IF NeedsReview(s) \/ manifest[s].photo = None \/ (m = "carry" /\ mishit)
                  THEN None ELSE s

\* The file a measurement is a fact about, None when it is not to be pooled.
ArtifactKey(s, m, mishit) ==
  CASE m = "turn" -> None
    [] m \in {"sway", "tempo"} -> manifest[s].face
    [] OTHER -> IF NeedsReview(s) \/ manifest[s].photo = None \/ (m = "carry" /\ mishit)
                  THEN None ELSE manifest[s].photo

\* read_corpus: the distinct swings, those that count, the ones flagged, and
\* every measurement that is a fact about an artifact.
Corpus ==
  LET counted == Counted
      auto == AutoMishits(counted)
      fact(s, m) == [of |-> s, metric |-> m, key |-> ArtifactKey(s, m, IsMishit(s, auto))]
      measured == UNION {{fact(s, m) : m \in {x \in Metrics : Measured(s, x)}} : s \in counted}
  IN [swings |-> Kept, counted |-> counted, auto |-> auto,
      facts |-> {f \in measured : f.key # None}]

\* narrowed_to: the flags stay those of the whole career.
Narrowed(C, S) ==
  [C EXCEPT !.swings = @ \cap S, !.counted = @ \cap S, !.facts = {f \in @ : f.of \in S}]

OfClub(C, c) == Narrowed(C, {s \in C.swings : manifest[s].club = c})
OfSession(C, d) == Narrowed(C, {s \in C.swings : s[1] = d})
Since(C, t) == Narrowed(C, {s \in C.swings : manifest[s].at >= t})

Facts(m, C) == {f \in C.facts : f.metric = m}

\* count_metrics: the distinct artifacts.
Count(m, C) == Cardinality({f.key : f \in Facts(m, C)})
=============================================================================
