----------------------------- MODULE LiveTrigger -----------------------------
(***************************************************************************)
(* The live trigger and the clip cutter behind it: a detector that names a *)
(* strike some time after it was heard, a cutter that opens, extends and   *)
(* closes clips around strikes, and the ring the footage is copied out of. *)
(* Source: crates/trigger/src/stream.rs, clip.rs and ring.rs, called the   *)
(* way the tests of clip.rs call them: extend, push, push, extract.        *)
(*                                                                         *)
(* Time is counted in hops of the detector.  One thread does all of it; a  *)
(* block is any number of hops, which is what the caller may choose.  What *)
(* the microphone gives is a verdict per hop (judge).                      *)
(***************************************************************************)
EXTENDS Naturals, Sequences

CONSTANTS
  Hold,       \* peak_hold_hops
  Refractory, \* refractory_hops
  Warmup,     \* warmup_hops
  Loudness,   \* the z values over the bar that are told apart
  Pre, Post, MinTrail, MinLead, MaxClip,  \* the spans of clip.rs, in hops
  Lag,        \* samples delivered but not yet analyzed, in hops: the window
  Capacity,   \* ring_capacity_samples, in hops
  MaxBlock,   \* BOUND: hops in a block
  MaxHops,    \* BOUND: hops in the stream
  None

\* As the constants of clip.rs are derived: a clip has room for a lead and a trail,
\* and the slack of the ring covers a window and a block.
SpansFit ==
  /\ MinLead <= Pre /\ MinTrail <= Post /\ Pre + Post <= MaxClip
  /\ MaxClip + Lag + MaxBlock <= Capacity

Hops == 0..MaxHops
Peak == [hop : Hops, z : Loudness]
Clip == [start : Nat, end : Nat, triggers : Seq(Hops)]
Reported == [start : Nat, end : Nat, triggers : Seq(Hops), footage : BOOLEAN, complete : BOOLEAN]

ASSUME TriggerConstants ==
  /\ Hold \in Nat \ {0} /\ Refractory \in Nat /\ Warmup \in Nat
  /\ Loudness \subseteq Nat
  /\ None \notin Nat /\ None \notin Peak /\ None \notin Clip
  /\ Pre \in Nat /\ Post \in Nat /\ MinTrail \in Nat \ {0} /\ MinLead \in Nat /\ MaxClip \in Nat
  /\ Lag \in Nat /\ MaxBlock \in Nat \ {0} /\ MaxHops \in Nat /\ Capacity \in Nat
  /\ Hold < Refractory /\ Refractory < Post
  /\ SpansFit

VARIABLES
  \* OnlineDetector
  frames,       \* analysis frames so far; position() is as many hops
  holding,      \* the loudest hop since the bar was crossed, or None
  silentUntil,
  deafUntil,
  \* Cutter
  open,         \* the open clip, or None
  guard,        \* the last strike of a clip that was closed, or None
  \* Ring
  ring,         \* what was delivered, and the oldest that is still held
  \* the caller's loop
  at,           \* "detect", "cut" or "over"
  block,        \* hops of the current block so far
  fired,        \* the triggers of the current block the cutter has not seen
  clips         \* the clips reported, in order

detector == <<frames, holding, silentUntil, deafUntil>>
cutter == <<open, guard, clips>>
vars == <<detector, cutter, ring, at, block, fired>>

TypeOK ==
  /\ frames \in Hops
  /\ holding \in Peak \cup {None}
  /\ holding # None => frames <= holding.hop + Hold
  /\ silentUntil \in Nat /\ deafUntil \in Nat
  /\ open \in Clip \cup {None}
  /\ guard \in Hops \cup {None}
  /\ ring \in [position : Nat, first : Nat]
  /\ at \in {"detect", "cut", "over"}
  /\ block \in 0..MaxBlock
  /\ fired \in Seq(Hops)
  /\ clips \in Seq(Reported)

Init ==
  /\ frames = 0 /\ holding = None /\ silentUntil = 0 /\ deafUntil = Warmup
  /\ open = None /\ guard = None
  /\ ring = [position |-> 0, first |-> 0]
  /\ at = "detect" /\ block = 0 /\ fired = <<>> /\ clips = <<>>

-----------------------------------------------------------------------------
(* OnlineDetector.push: one frame at a time, until the block is used up.   *)

Least(a, b) == IF a <= b THEN a ELSE b
Most(a, b) == IF a >= b THEN a ELSE b

Frame ==
  /\ at = "detect" /\ block < MaxBlock /\ frames < MaxHops
  /\ frames' = frames + 1
  /\ block' = block + 1
  /\ UNCHANGED <<cutter, ring, at>>

\* The first frame has none before it to be compared with.
FirstFrame == frames = 0 /\ Frame /\ UNCHANGED <<holding, silentUntil, deafUntil, fired>>

\* judge: below this much history there is no floor.
HasHistory == frames >= 1 + Most(Warmup, 2)

\* hold: the loudest hop of the burst so far.
Held(z) ==
  IF holding = None \/ z > holding.z THEN [hop |-> frames, z |-> z] ELSE holding

\* MUTANT: the detector is not silenced after a trigger.
ReleaseLoud(peak) ==
  IF peak # None /\ frames >= peak.hop + Hold
    THEN /\ holding' = None
         /\ fired' = Append(fired, peak.hop)
         /\ UNCHANGED silentUntil
    ELSE holding' = peak /\ UNCHANGED <<silentUntil, fired>>

\* release: once the hold after the peak is over, the peak is the trigger, and
\* the silence runs from it.
Release(peak) ==
  IF peak # None /\ frames >= peak.hop + Hold
    THEN /\ holding' = None
         /\ fired' = Append(fired, peak.hop)
         /\ silentUntil' = peak.hop + Refractory
    ELSE holding' = peak /\ UNCHANGED <<silentUntil, fired>>

\* observe, for the three verdicts.
NoFloor ==
  /\ frames > 0 /\ Frame
  /\ deafUntil' = frames + Warmup
  /\ Release(None)

\* A quiet hop too is one on which the window of a burst may close.
Under ==
  /\ HasHistory /\ Frame
  /\ Release(holding)
  /\ UNCHANGED deafUntil

Over(z) ==
  /\ HasHistory /\ Frame
  /\ Release(IF frames >= deafUntil /\ frames >= silentUntil THEN Held(z) ELSE holding)
  /\ UNCHANGED deafUntil

\* The block is used up.  The ring had taken it in before the detector did.
BlockEnds ==
  /\ at = "detect" /\ block > 0
  /\ at' = "cut" /\ block' = 0
  /\ LET position == frames + Lag IN
       ring' = [position |-> position,
                first |-> IF position > Capacity THEN position - Capacity ELSE 0]
  /\ UNCHANGED <<detector, cutter, fired>>

-----------------------------------------------------------------------------
(* Cutter.push, a trigger at a time, and then the position.                *)

Last(clip) == clip.triggers[Len(clip.triggers)]

\* Ring.copy of the span: None once any of it is gone, or has not arrived.
Report(clip, complete) ==
  [start |-> clip.start, end |-> clip.end, triggers |-> clip.triggers, complete |-> complete,
   footage |-> ring.first <= clip.start /\ clip.end <= ring.position]

\* MUTANT: a clip keeps its whole lead, whatever was cut before it.
BeginUnguarded(t, before) ==
  [start |-> IF t > Pre THEN t - Pre ELSE 0, end |-> t + Post, triggers |-> <<t>>]

\* MUTANT: the floor is the end of the strike before, not of its trail.
BeginAfterPost(t, before) ==
  [start |-> Least(t, Most(IF t > Pre THEN t - Pre ELSE 0,
                           IF before = None THEN 0 ELSE before + Post)),
   end |-> t + Post, triggers |-> <<t>>]

\* start: never back over the trail of the strike before.
Begin(t, before) ==
  [start |-> Least(t, Most(IF t > Pre THEN t - Pre ELSE 0,
                           IF before = None THEN 0 ELSE before + MinTrail)),
   end |-> t + Post, triggers |-> <<t>>]

\* MUTANT: nothing stops a chain of strikes.
ExtendedForever(clip, t) ==
  [clip EXCEPT !.end = Most(@, t + Post), !.triggers = Append(@, t)]

Extended(clip, t) ==
  [clip EXCEPT !.end = Least(Most(@, t + Post), clip.start + MaxClip), !.triggers = Append(@, t)]

\* MUTANT: every trigger is a clip of its own.
CutApart ==
  /\ at = "cut" /\ fired # <<>>
  /\ LET t == Head(fired) IN
       \/ /\ open # None
          /\ open' = Begin(t, Last(open))
          /\ guard' = Last(open)
          /\ clips' = Append(clips, Report(open, TRUE))
       \/ open = None /\ open' = Begin(t, guard) /\ UNCHANGED <<guard, clips>>
  /\ fired' = Tail(fired)
  /\ UNCHANGED <<detector, ring, at, block>>

\* Into the open clip; or the open clip is closed, and one is opened; or one is.
CutTrigger ==
  /\ at = "cut" /\ fired # <<>>
  /\ LET t == Head(fired) IN
       \/ /\ open # None /\ t < open.end
          /\ open' = Extended(open, t)
          /\ UNCHANGED <<guard, clips>>
       \/ /\ open # None /\ t >= open.end
          /\ open' = Begin(t, Last(open))
          /\ guard' = Last(open)
          /\ clips' = Append(clips, Report(open, TRUE))
       \/ open = None /\ open' = Begin(t, guard) /\ UNCHANGED <<guard, clips>>
  /\ fired' = Tail(fired)
  /\ UNCHANGED <<detector, ring, at, block>>

\* The stream has been analyzed up to the end of the open clip: it is complete.
CutPosition ==
  /\ at = "cut" /\ fired = <<>>
  /\ at' = "detect"
  /\ IF open # None /\ frames >= open.end
       THEN /\ clips' = Append(clips, Report(open, TRUE))
            /\ guard' = Last(open)
            /\ open' = None
       ELSE UNCHANGED cutter
  /\ UNCHANGED <<detector, ring, block, fired>>

\* finish: the open clip, truncated to what there is.
Finish ==
  /\ at = "detect" /\ block = 0
  /\ at' = "over"
  /\ IF open # None
       THEN /\ clips' = Append(clips, Report(
                 [open EXCEPT !.end = Least(@, Most(ring.position, open.start))], FALSE))
            /\ guard' = Last(open)
            /\ open' = None
       ELSE UNCHANGED cutter
  /\ UNCHANGED <<detector, ring, block, fired>>

Ended == at = "over" /\ UNCHANGED vars

Next ==
  \/ FirstFrame \/ NoFloor \/ Under \/ (\E z \in Loudness : Over(z))
  \/ BlockEnds \/ CutTrigger \/ CutPosition \/ Finish
  \/ Ended

Spec == Init /\ [][Next]_vars

-----------------------------------------------------------------------------
(* What is promised of triggers and clips.                                 *)

AllClips == IF open = None THEN clips ELSE Append(clips, Report(open, FALSE))

Strikes(clip) == {clip.triggers[i] : i \in 1..Len(clip.triggers)}

AllStrikes ==
  (UNION {Strikes(AllClips[i]) : i \in 1..Len(AllClips)}) \cup {fired[i] : i \in 1..Len(fired)}

\* One shot is one trigger: the club, the mat and the screen are swallowed, also
\* when the peak named is long after the bar was crossed (REFRACTORY_S).
StrikesApart == \A s, t \in AllStrikes : s < t => t - s >= Refractory

\* A clip never reaches back over a strike of a clip before it (Cutter.guard).
NeverReachesBack ==
  \A i, k \in 1..Len(AllClips) :
    i < k => \A s \in Strikes(AllClips[i]) : s < AllClips[k].start

\* Whenever a clip is reported its footage can still be copied out of the ring,
\* also at the end of a chain of merged strikes and of a block (BUFFER_S).
FootageIsThere == \A i \in 1..Len(clips) : clips[i].footage

\* Two strikes MinLead + MinTrail apart are both measurable, however many were
\* merged into the clip before: each has its lead, and its trail unless its clip
\* is at the ceiling (Clip::is_measurable, and the table of the module's doc).
Roomy(i) ==
  LET t == clips[i].triggers[1]
  IN IF i = 1 THEN t >= MinLead ELSE t >= Last(clips[i - 1]) + MinLead + MinTrail

ApartIsMeasurable ==
  \A i \in 1..Len(clips) :
    clips[i].complete =>
      /\ Roomy(i) => clips[i].triggers[1] - clips[i].start >= MinLead
      /\ clips[i].end - clips[i].start < MaxClip => clips[i].end - Last(clips[i]) >= MinTrail

\* The footage of a strike is in two clips only when it was heard in the last Hold
\* hops of the first, so that it was named after that clip had been reported.
SharedOnlyAtTheSeam ==
  \A i, k \in 1..Len(AllClips) :
    i < k => \A t \in Strikes(AllClips[k]) : t + Hold >= AllClips[i].end

=============================================================================
