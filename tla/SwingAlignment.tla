--------------------------- MODULE SwingAlignment ---------------------------
(* Two clips of one swing on one axis (analysis/alignment.py).                      *)
(*                                                                                  *)
(* Anchors are a pair: what each clip says of the instants of its swing.  The axis  *)
(* is tau, 0 at motion start, 1 at the top, 2 at impact; a tau, like every quantity *)
(* that need not be whole, is a pair of integers n / d with d positive.             *)
EXTENDS SwingPhases

Clips == {"a", "b"}

ASSUME AlignmentConstants == None \notin Clips

Other(v) == IF v = "a" THEN "b" ELSE "a"

\* SwingAnchors: the instants of one clip, whether its motion start was found and its
\* impact heard, and what its metadata recorded.
Anchors(instants, heard, faceOn, count, fps) ==
  [motion |-> instants.motion, top |-> instants.top, impact |-> instants.impact,
   found |-> instants.found, heard |-> heard, faceOn |-> faceOn, count |-> count, fps |-> fps]

Downswing(s) == s.impact - s.top
Backswing(s) == s.top - s.motion

\* The last frame a clip is known to have.
LastFrame(s) == IF s.count = None THEN s.impact ELSE s.count - 1

\* _relative_gap(m, n) > percent
Gap(m, n, percent) == 100 * Distance(m, n) > percent * Larger(m, n)

\* MUTANT: a strike before the top is taken too.
StrikesNearAnywhere(s, strikes) ==
  {f \in strikes : /\ s.fps # None /\ Distance(f, s.impact) <= Round(s.fps, 5)
                   /\ s.count = None \/ f <= LastFrame(s)}

\* The strikes within 0.20 s of the impact that leave a swing.
StrikesNear(s, strikes) ==
  {f \in strikes : /\ s.fps # None /\ Distance(f, s.impact) <= Round(s.fps, 5)
                   /\ f > s.top
                   /\ s.count = None \/ f <= LastFrame(s)}

\* with_measured_impact: the earliest of them.
WithMeasuredImpact(s, strikes) ==
  IF StrikesNear(s, strikes) = {} THEN s
  ELSE [s EXCEPT !.impact = Min(StrikesNear(s, strikes)), !.heard = TRUE]

BothTimed(A) == A["a"].fps # None /\ A["b"].fps # None

\* This many frames of clip r, in frames of clip v; each at its own rate.
InFramesOf(A, v, r, frames) == Round(frames * A[v].fps, A[r].fps)

\* align_swings, what the soft anchor needs: both clips found it, each backswing is at
\* least as long as its downswing, and the two agree as tempo ratios and in seconds.
MotionStartHolds(A) ==
  /\ \A v \in Clips : A[v].found /\ Backswing(A[v]) > 0 /\ Backswing(A[v]) >= Downswing(A[v])
  /\ ~Gap(Backswing(A["a"]) * Downswing(A["b"]), Backswing(A["b"]) * Downswing(A["a"]), 35)
  /\ BothTimed(A) =>
       1000 * Distance(Backswing(A["a"]) * A["b"].fps, Backswing(A["b"]) * A["a"].fps)
         <= 167 * A["a"].fps * A["b"].fps

\* _estimated_motion_start: a backswing is three and a half downswings.
Estimated(top, downswing) == Larger(0, top - Round(7 * downswing, 2))

\* The view a shared duration is taken from: the face-on one.
Scored(A) == IF A["a"].faceOn \/ ~A["b"].faceOn THEN "a" ELSE "b"

\* MUTANT: the first clip's duration is the shared one.
SharedMotionStartsFirst(A) ==
  [v \in Clips |->
     IF ~BothTimed(A) THEN Estimated(A[v].top, Downswing(A[v]))
     ELSE Larger(0, A[v].top - Round(7 * Downswing(A["a"]) * A[v].fps, 2 * A["a"].fps))]

\* _shared_motion_starts
SharedMotionStarts(A) ==
  [v \in Clips |->
     IF ~BothTimed(A) THEN Estimated(A[v].top, Downswing(A[v]))
     ELSE LET r == Scored(A)
          IN Larger(0, A[v].top - Round(7 * Downswing(A[r]) * A[v].fps, 2 * A[r].fps))]

\* The two views measure downswings more than 30 percent apart.
TopsDisagree(A) ==
  /\ BothTimed(A)
  /\ Gap(Downswing(A["a"]) * A["b"].fps, Downswing(A["b"]) * A["a"].fps, 30)

\* _arbitrate_tops: when both heard the strike, the shorter downswing has the late top.
LateView(A) ==
  IF ~(\A v \in Clips : A[v].heard) \/ ~TopsDisagree(A) THEN None
  ELSE IF Downswing(A["a"]) * A["b"].fps < Downswing(A["b"]) * A["a"].fps THEN "a" ELSE "b"

\* _top_at: the frame of v that far back from impact, one frame back at least.
TopAt(A, v, r) ==
  Smaller(A[v].impact - 1, Larger(0, A[v].impact - InFramesOf(A, v, r, Downswing(A[r]))))

\* How late the late view's top is, in its own frames; None when nothing can say.
LateBy(A, v) ==
  IF LateView(A) # v THEN None
  ELSE LET frames == A[v].top - TopAt(A, v, Other(v)) IN IF frames > 0 THEN frames ELSE None

\* MUTANT: the face-on view's duration is the shared one, strike or no strike.
TopsFromFaceOn(A) == Scored(A)

\* _shared_tops: whose duration both clips are held to.
TopsFrom(A) ==
  IF LateView(A) # None THEN Other(LateView(A))
  ELSE IF A["b"].faceOn /\ ~A["a"].faceOn THEN "b" ELSE "a"

\* _shared_tops: none when the tops agree, or when one would lie before its clip.
SharedTops(A) ==
  LET r == TopsFrom(A)
      Fits(v) == A[v].impact - InFramesOf(A, v, r, Downswing(A[r])) > 0
  IN [v \in Clips |->
        IF TopsDisagree(A) /\ \A w \in Clips : Fits(w) THEN TopAt(A, v, r) ELSE None]

\* AlignmentQuality
Quality(A, tops) ==
  IF \A v \in Clips : A[v].heard THEN "synchronized"
  ELSE IF tops["a"] # None THEN "impact_only"
  ELSE IF MotionStartHolds(A) THEN "full" ELSE "top_impact"

\* align_swings: for each clip what its warp is pinned to, and what was found of its top.
AlignSwings(A) ==
  LET tops == SharedTops(A)
      Motion(v) == IF tops[v] # None THEN Estimated(tops[v], A[v].impact - tops[v])
                   ELSE IF MotionStartHolds(A) THEN A[v].motion
                   ELSE SharedMotionStarts(A)[v]
  IN [quality |-> Quality(A, tops),
      clip |-> [v \in Clips |->
                  [anchors |-> A[v], motion |-> Motion(v), warpTop |-> tops[v],
                   top |-> IF tops[v] = None THEN A[v].top ELSE tops[v],
                   lateBy |-> LateBy(A, v)]]]

-----------------------------------------------------------------------------
(* The warp, on fractions. *)

Leq(p, q) == p[1] * q[2] <= q[1] * p[2]
MaxOf(p, q) == IF Leq(p, q) THEN q ELSE p
MinOf(p, q) == IF Leq(p, q) THEN p ELSE q

\* _segment_rates: frames to a unit of tau, after the top and before it.
After(c) == c.anchors.impact - c.top
Before(c) == IF c.top > c.motion THEN c.top - c.motion ELSE After(c)

\* tau_of_frame
TauOf(c, frame) ==
  LET rate == IF frame >= c.top THEN After(c) ELSE Before(c)
  IN <<rate + frame - c.top, rate>>

\* frame_of_tau
FrameOf(c, tau) ==
  LET rate == IF tau[1] >= tau[2] THEN After(c) ELSE Before(c)
  IN <<c.top * tau[2] + (tau[1] - tau[2]) * rate, tau[2]>>

\* _overlap: the taus both clips have footage of.
Overlap(w) ==
  [low |-> MaxOf(TauOf(w.clip["a"], 0), TauOf(w.clip["b"], 0)),
   high |-> MinOf(TauOf(w.clip["a"], LastFrame(w.clip["a"].anchors)),
                  TauOf(w.clip["b"], LastFrame(w.clip["b"].anchors)))]

\* DEFAULT_TAU_RANGE
Shown == [low |-> <<-2, 5>>, high |-> <<3, 1>>]

\* warp_speeds: the follower's, on either side of the top; none without both rates.
Speeds(w, lead) ==
  LET c == w.clip[lead]  d == w.clip[Other(lead)]
      Speed2(rateC, rateD) == <<rateD * c.anchors.fps, rateC * d.anchors.fps>>
  IN IF c.anchors.fps = None \/ d.anchors.fps = None THEN {}
     ELSE {Speed2(Before(c), Before(d)), Speed2(After(c), After(d))}

\* MUTANT: what was found of the downswing is all that is looked at.
RigidAfterTheTop(w, lead) ==
  LET c == w.clip[lead]  d == w.clip[Other(lead)]
  IN c.anchors.fps # None /\ d.anchors.fps # None
       /\ Gap(After(d) * c.anchors.fps, After(c) * d.anchors.fps, 10)

\* pair_frames: the warp would play the follower more than a tenth too fast or slow.
Rigid(w, lead) == \E s \in Speeds(w, lead) : Gap(s[1], s[2], 10)

\* Where the follower is at this frame of the lead: by the warp, or at its own rate
\* from impact.
Follows(w, lead, step) ==
  LET c == w.clip[lead]  d == w.clip[Other(lead)]
  IN IF Rigid(w, lead)
     THEN <<d.anchors.impact * c.anchors.fps + (step - c.anchors.impact) * d.anchors.fps,
            c.anchors.fps>>
     ELSE FrameOf(d, TauOf(c, step))

\* pair_frames: the lead's frames, of what both clips cover and the video is to show.
Steps(w, lead, counts) ==
  LET c == w.clip[lead]
      low == FrameOf(c, MaxOf(Overlap(w).low, Shown.low))
      high == FrameOf(c, MinOf(Overlap(w).high, Shown.high))
      first == Larger(0, low[1] \div low[2])
      last == Smaller(counts[lead] - 1, high[1] \div high[2])
  IN IF last <= first THEN {} ELSE first..last

\* _clamp_index
ClampIndex(frame, count) == Larger(0, Smaller(count - 1, Round(frame[1], frame[2])))

\* pair_frames: the frame of the follower shown with each of the lead's.
PairFrames(w, lead, counts) ==
  [step \in Steps(w, lead, counts) |->
     ClampIndex(Follows(w, lead, step), counts[Other(lead)])]

=============================================================================
