----------------------------- MODULE SwingPhases -----------------------------
(* The swing in one clip (analysis/phases.py): where the hands come down, which of  *)
(* those descents is the swing, and the six segments around it.                     *)
(*                                                                                  *)
(* A clip is the sequence of the tracked wrist's smoothed positions; y grows        *)
(* downwards, as in the image.  Frames are numbered from 0, as the code's are, so   *)
(* frame i is clip[i + 1].  A descent is the frame where it begins and the one where  *)
(* it ends; the code lists a clip's as they come, which is the order of their first  *)
(* frames, and here they are a set.  A share is in percent, a duration a pair of     *)
(* frames and frames per second; floating point is exact here.                       *)
EXTENDS Integers, Sequences, FiniteSets, SequencesExt

CONSTANTS
  None,
  MinFrames,          \* below this there is no swing to segment
  DrawdownTolerance,  \* of the rise so far, in percent
  DrawdownFloor,      \* of the clip's range, in thousandths
  MajorRise,          \* of the largest rise, in percent: a candidate of segment_phases
  CandidateMinRise,   \* and of a selection rule
  StallMin,           \* frames; a quarter of the downswing otherwise
  TransitionHalf,     \* frames on either side of the top
  ImpactHalf          \* frames after impact

ASSUME PhaseConstants ==
  /\ {MinFrames, StallMin} \subseteq Nat \ {0}
  /\ {TransitionHalf, ImpactHalf} \subseteq Nat
  /\ {DrawdownTolerance, MajorRise, CandidateMinRise} \subseteq 1..100
  /\ DrawdownFloor \in 1..1000
  /\ CandidateMinRise <= MajorRise
  /\ None \notin Nat \cup [top : Nat, impact : Nat]

Larger(a, b) == IF a >= b THEN a ELSE b
Smaller(a, b) == IF a <= b THEN a ELSE b
Distance(a, b) == IF a >= b THEN a - b ELSE b - a

\* Python's round of n / d, d positive: to the nearest, a half to the even one.
Round(n, d) ==
  LET q == n \div d
      twice == 2 * (n % d)
  IN IF twice > d \/ (twice = d /\ q % 2 = 1) THEN q + 1 ELSE q

\* FrameKeypoints, what is read of it: where the wrist is and whether it was seen.
Frame == [x : Nat, y : Nat, seen : BOOLEAN]

Frames(clip) == 0..(Len(clip) - 1)

\* _wrist_confident
Confident(clip, i) == clip[i + 1].seen

\* _lead_wrist_xy: the last confident position, and the first one whatever it is.
Held(clip, i) ==
  clip[Max({0} \cup {j \in 1..i : Confident(clip, j)}) + 1]

Y(clip, i) == Held(clip, i).y

\* The floor under a drawdown, in thousandths: of the range the tracked wrist covers.
Floor(clip) ==
  LET tracked == {Y(clip, i) : i \in {j \in Frames(clip) : Confident(clip, j)}}
  IN IF tracked = {} THEN 0 ELSE DrawdownFloor * (Max(tracked) - Min(tracked))

\* Whether the run from start to peak is over, y having come back to frame i.
GivesBack(clip, start, peak, i) ==
  LET rise == Y(clip, peak) - Y(clip, start)
      drop == 1000 * (Y(clip, peak) - Y(clip, i))
  IN rise > 0 /\ drop > Larger(10 * DrawdownTolerance * rise, Floor(clip))

\* A scan that begins anew at a frame, with the runs that have ended.
Anew(ended, i) == [found |-> ended, start |-> i, peak |-> i]

\* MUTANT: the frames where the wrist was lost take part.
MetHeld(clip, s, f) ==
  IF s.start = None THEN Anew(s.found, f)
  ELSE IF Y(clip, f) >= Y(clip, s.peak) THEN [s EXCEPT !.peak = f]
  ELSE IF GivesBack(clip, s.start, s.peak, f)
    THEN Anew(s.found \cup {[top |-> s.start, impact |-> s.peak]}, f)
  ELSE IF Y(clip, f) < Y(clip, s.start) THEN Anew(s.found, f) ELSE s

\* _rising_runs, the body of the loop: frame f is met.
Met(clip, s, f) ==
  IF ~Confident(clip, f) THEN s
  ELSE IF s.start = None THEN Anew(s.found, f)
  ELSE IF Y(clip, f) >= Y(clip, s.peak) THEN [s EXCEPT !.peak = f]
  ELSE IF GivesBack(clip, s.start, s.peak, f)
    THEN Anew(s.found \cup {[top |-> s.start, impact |-> s.peak]}, f)
  ELSE IF Y(clip, f) < Y(clip, s.start) THEN Anew(s.found, f) ELSE s

\* _rising_runs, the loop: the runs that have ended, and the one that has not.
Scan(clip) ==
  LET scan[i \in 0..Len(clip)] ==
        IF i = 0 THEN Anew({}, None) ELSE Met(clip, scan[i - 1], i - 1)
  IN scan[Len(clip)]

Ended(clip, s) ==
  IF s.start = None \/ Y(clip, s.peak) <= Y(clip, s.start) THEN s.found
  ELSE s.found \cup {[top |-> s.start, impact |-> s.peak]}

\* _rising_runs: with the last run, when it rose at all.
Runs(clip) == Ended(clip, Scan(clip))

Rise(clip, run) == Y(clip, run.impact) - Y(clip, run.top)

\* The runs that rise by this share of the largest.
AtLeast(clip, runs, share) ==
  LET largest == Max({Rise(clip, run) : run \in runs})
  IN {run \in runs : 100 * Rise(clip, run) >= share * largest}

\* Of descents that are apart, the first and the last.
Earliest(runs) == CHOOSE run \in runs : \A other \in runs : run.top <= other.top
Latest(runs) == CHOOSE run \in runs : \A other \in runs : other.top <= run.top

\* The highest hands of the clip, and the lowest after them.
Extremes(clip) ==
  LET top == Min({i \in Frames(clip) : \A j \in Frames(clip) : Y(clip, i) <= Y(clip, j)})
      after == top..(Len(clip) - 1)
  IN [top |-> top, impact |-> Min({i \in after : \A j \in after : Y(clip, i) >= Y(clip, j)})]

\* _top_and_impact: the earliest major descent; the extremes when there is none.
SwingAmong(clip, runs) ==
  IF runs = {} THEN Extremes(clip) ELSE Earliest(AtLeast(clip, runs, MajorRise))

TopAndImpact(clip) == SwingAmong(clip, Runs(clip))

\* candidate_downswings
Candidates(clip, share) ==
  IF Len(clip) < MinFrames THEN {} ELSE AtLeast(clip, Runs(clip), share)

\* _wrist_speed, squared.
Speed(clip, i) ==
  IF i = 0 THEN 0
  ELSE LET p == Held(clip, i - 1)  q == Held(clip, i)
       IN (q.x - p.x) * (q.x - p.x) + (q.y - p.y) * (q.y - p.y)

\* _motion_start: the end of the last stretch before the top in which the wrist moves
\* slower than a twentieth of its peak; an estimate when there is none.
MotionStart(clip, top, impact) ==
  LET peak == Max({0} \cup {Speed(clip, i) : i \in 1..top})
      downswing == Larger(impact - top, 1)
      stall == Larger(StallMin, Round(downswing, 4))
      Quiet(i) == 400 * Speed(clip, i) < peak
      stalls == {i \in 0..(top + 1 - stall) : \A j \in i..(i + stall - 1) : Quiet(j)}
  IN IF peak = 0 THEN [at |-> 0, found |-> TRUE]
     ELSE IF stalls # {} THEN [at |-> Smaller(Max(stalls) + stall, top), found |-> TRUE]
     ELSE [at |-> Larger(0, top - Round(7 * downswing, 2)), found |-> FALSE]

\* segment_phases: the seven boundaries of the six segments, each held behind the one
\* before.
Segments(clip, swing, motion) ==
  LET transition == Larger(motion.at, swing.top - TransitionHalf)
      down == Larger(transition, Smaller(swing.impact, swing.top + TransitionHalf))
      impact == Larger(swing.impact, down)
      follow == Larger(impact, Smaller(Len(clip) - 1, impact + ImpactHalf))
  IN [at |-> <<0, motion.at, transition, down, impact, follow, Len(clip) - 1>>,
      found |-> motion.found]

Boundaries(clip) ==
  LET Around(swing) == Segments(clip, swing, MotionStart(clip, swing.top, swing.impact))
  IN Around(TopAndImpact(clip))

\* anchors_from_phases, as far as one clip's numbers go: the top is the middle of the
\* transition.  None when there is no downswing to divide by.
Instants(clip) ==
  LET Named(b, top) ==
        IF b.at[5] <= top THEN None
        ELSE [motion |-> b.at[2], top |-> top, impact |-> b.at[5], found |-> b.found]
      Read(b) == Named(b, (b.at[3] + b.at[4]) \div 2)
  IN IF Len(clip) < MinFrames THEN None ELSE Read(Boundaries(clip))

-----------------------------------------------------------------------------
(* Which descent is the swing.  fps is the clip's, None when it was never recorded. *)

Lasts(swing) == swing.impact - swing.top

\* POSSIBLE_DOWNSWING_S, from 0.12 to 0.80 seconds
Possible(swing, fps) == 12 * fps <= 100 * Lasts(swing) /\ 100 * Lasts(swing) <= 80 * fps

\* How far a descent's duration is from the reference, in units of both clips' rates.
Apart(swing, fps, reference) ==
  Distance(Lasts(swing) * reference.fps, reference.frames * fps)

\* _MATCH_TOLERANCE_S, 0.12 seconds
VouchedFor(swing, fps, reference) ==
  100 * Apart(swing, fps, reference) <= 12 * fps * reference.fps

\* _struck: the descents that end at a transient; 0.20 seconds
Struck(candidates, strikes, fps) ==
  LET tolerance == Larger(1, Round(fps, 5))
  IN {swing \in candidates : \E s \in strikes : Distance(swing.impact, s) <= tolerance}

\* The field a rule chooses from: what was struck, or all of them.
Field(candidates, strikes, fps) ==
  LET struck == Struck(candidates, strikes, fps)
  IN IF struck # {} THEN struck ELSE candidates

\* _lone_candidate_choice
Lone(field) == IF Cardinality(field) = 1 THEN CHOOSE swing \in field : TRUE ELSE None

\* select_swing: the last descent that could be a swing.
SelectSwing(candidates, strikes, fps) ==
  IF fps = None THEN None
  ELSE LET field == Field(candidates, strikes, fps)
           plausible == {swing \in field : Possible(swing, fps)}
       IN IF plausible = {} THEN Lone(field) ELSE Latest(plausible)

\* MUTANT: the reference alone admits; what could be a swing does not.
SelectMatchingSwingVouchedOnly(candidates, strikes, fps, reference) ==
  IF fps = None THEN None
  ELSE LET field == Field(candidates, strikes, fps)
           matched == {swing \in field : VouchedFor(swing, fps, reference)}
           Off(swing) == Apart(swing, fps, reference)
           nearest == {swing \in matched : \A other \in matched : Off(swing) <= Off(other)}
       IN IF matched = {} THEN Lone(field) ELSE Latest(nearest)

\* select_matching_swing: the one nearest the other view's, the later of two as near.
SelectMatchingSwing(candidates, strikes, fps, reference) ==
  IF fps = None THEN None
  ELSE LET field == Field(candidates, strikes, fps)
           matched == {swing \in field :
                         Possible(swing, fps) \/ VouchedFor(swing, fps, reference)}
           Off(swing) == Apart(swing, fps, reference)
           nearest == {swing \in matched : \A other \in matched : Off(swing) <= Off(other)}
       IN IF matched = {} THEN Lone(field) ELSE Latest(nearest)

\* _pick_swing: alone, or against what the other view measured.
PickSwing(candidates, strikes, fps, reference) ==
  IF reference = None THEN SelectSwing(candidates, strikes, fps)
  ELSE SelectMatchingSwing(candidates, strikes, fps, reference)

\* _downswing_seconds: what a view's choice is to the other.
AsReference(choice, fps) ==
  IF choice = None \/ fps = None THEN None ELSE [frames |-> Lasts(choice), fps |-> fps]

=============================================================================
