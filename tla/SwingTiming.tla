----------------------------- MODULE SwingTiming -----------------------------
(* How an analysis finds the swing in a bundle's two clips and puts them side by    *)
(* side (api/pipeline.py, analysis/engine.py): the face-on clip is filmed, frame by *)
(* frame; a swing is picked in each view, each against the other (_auto_windows);   *)
(* each view's instants are read off its window and pinned to the strike it heard;  *)
(* the two are aligned, and the alignment is what the video is rendered from.       *)
(*                                                                                  *)
(* A step forgets what no later step reads.  The descents of the down-the-line clip *)
(* and the instants found in a window are any a clip can have: OneReading says of   *)
(* filmed clips what those are.                                                     *)
EXTENDS SwingAlignment

CONSTANTS
  Given,       \* the choice of a window given by hand: nothing is picked
  Positions,   \* where the wrist can be: a set of <<x, y>>
  Rates,       \* frames per second a clip may have recorded, None among them
  MaxFilmed,   \* frames of the clip that is filmed
  MaxDescents, \* of the other clip
  Longest      \* the last frame of the clips that are aligned

ASSUME TimingConstants ==
  /\ Positions \subseteq Nat \X Nat
  /\ Rates \ {None} \subseteq Nat \ {0}
  /\ {MaxFilmed, MaxDescents, Longest} \subseteq Nat \ {0}

VARIABLES
  stage,    \* "film", "pick", "anchor", "align" or "render"
  clip,     \* the face-on clip, smoothed
  view,     \* of each view: its descents, its strikes, its rate, its choice
  anchors,  \* of each view, once it is segmented
  aligned   \* what the alignment came to
vars == <<stage, clip, view, anchors, aligned>>

Nothing == [v \in Clips |-> None]

Init ==
  /\ stage = "film" /\ clip = <<>>
  /\ view = Nothing /\ anchors = Nothing /\ aligned = None

Film(p, seen) ==
  /\ stage = "film" /\ Len(clip) < MaxFilmed
  /\ clip' = Append(clip, [x |-> p[1], y |-> p[2], seen |-> seen])
  /\ UNCHANGED <<stage, view, anchors, aligned>>

\* The transients heard in a clip: none, or one of its frames.
Transients == {{}} \cup {{f} : f \in 0..MaxFilmed}

\* What is kept of a picked view: its field while it may be picked again, its choice,
\* and what it would have been alone.
Picked(field, strikes, fps, choice) ==
  [field |-> IF choice = None THEN field ELSE {},
   strikes |-> IF choice = None THEN strikes ELSE {},
   fps |-> fps, choice |-> choice, alone |-> SelectSwing(field, strikes, fps)]

\* _auto_windows: face-on is picked first, alone, unless its window was given.
PickFaceOn(strikes, fps) ==
  /\ stage = "film" /\ clip # <<>>
  /\ LET field == Candidates(clip, CandidateMinRise)
     IN \E choice \in {Given, PickSwing(field, strikes, fps, None)} :
          view' = [view EXCEPT !["a"] = Picked(field, strikes, fps, choice)]
  /\ stage' = "pick" /\ clip' = <<>>
  /\ UNCHANGED <<anchors, aligned>>

\* None begins before another that began earlier has ended (_rising_runs).
Disjoint(runs) ==
  \A run, other \in runs : run = other \/ run.impact < other.top \/ other.impact < run.top

Descents ==
  {run \in [top : 0..MaxFilmed - 1, impact : 0..MaxFilmed - 1] : run.top < run.impact}

Fields == {runs \in SUBSET Descents : Cardinality(runs) <= MaxDescents /\ Disjoint(runs)}

Reference(v) ==
  IF v.choice = Given THEN None ELSE AsReference(v.choice, v.fps)

\* Face-on is picked once more, against what down-the-line measured, when it had found
\* nothing alone.
Rescued(a, b) ==
  IF a.choice # None \/ Reference(b) = None THEN a.choice
  ELSE PickSwing(a.field, a.strikes, a.fps, Reference(b))

\* Then down-the-line, against what face-on measured, unless its window was given.
PickDownTheLine(field, strikes, fps) ==
  /\ stage = "pick" /\ view["b"] = None
  /\ LET a == view["a"]
     IN \E choice \in {Given, PickSwing(field, strikes, fps, Reference(a))} :
          LET b == Picked(field, strikes, fps, choice)
          IN view' = [a |-> [a EXCEPT !.choice = Rescued(a, b), !.field = {}, !.strikes = {}],
                      b |-> [b EXCEPT !.field = {}, !.strikes = {}]]
  /\ UNCHANGED <<stage, clip, anchors, aligned>>

\* analyze_swing_bundle takes the windows over; a view may be segmented in any of them.
Segmenting ==
  /\ stage = "pick" /\ view["b"] # None
  /\ stage' = "anchor" /\ view' = Nothing
  /\ UNCHANGED <<clip, anchors, aligned>>

\* anchors_from_phases on any clip up to Longest, with what its metadata says.
Segmented(faceOn) ==
  {Anchors(i, FALSE, faceOn, IF fps = None THEN None ELSE Longest + 1, fps) :
     i \in {n \in [motion : 0..Longest, top : 0..Longest, impact : 0..Longest, found : BOOLEAN] :
              n.motion <= n.top /\ n.top < n.impact}, fps \in Rates}

\* _anchored_on_strike
Anchored(faceOn) ==
  {WithMeasuredImpact(s, strikes) :
     s \in Segmented(faceOn), strikes \in {{}} \cup {{f, g} : f, g \in 0..Longest + 1}}

FaceOnAnchors == Anchored(TRUE)

\* The down-the-line view's; one estimated motion start is as good as two.
DownTheLineAnchors == {s \in Anchored(FALSE) : s.found}

\* A view that cannot be segmented ends the alignment; None stands for it.
AnchorFaceOn(s) ==
  /\ stage = "anchor"
  /\ anchors' = [anchors EXCEPT !["a"] = s]
  /\ stage' = "align"
  /\ UNCHANGED <<clip, view, aligned>>

\* The second view's anchors, and the alignment of the two.
Align(s) ==
  /\ stage = "align" /\ anchors["a"] # None
  /\ aligned' = AlignSwings([anchors EXCEPT !["b"] = s])
  /\ stage' = "render" /\ anchors' = Nothing
  /\ UNCHANGED <<clip, view>>

Next ==
  \/ \E p \in Positions, seen \in BOOLEAN : Film(p, seen)
  \/ \E strikes \in Transients, fps \in Rates :
       PickFaceOn(strikes, fps) \/ \E field \in Fields : PickDownTheLine(field, strikes, fps)
  \/ Segmenting
  \/ \E s \in FaceOnAnchors \cup {None} : AnchorFaceOn(s)
  \/ \E s \in DownTheLineAnchors : Align(s)

Spec == Init /\ [][Next]_vars

-----------------------------------------------------------------------------
(* Properties *)

\* The descents of a clip are disjoint, and each begins at its highest hands and ends at
\* its lowest, lost frames apart.
DescentsApart(runs) ==
  LET Seen(run) == {f \in run.top..run.impact : Confident(clip, f)}
      Whole(run) == /\ {run.top, run.impact} \subseteq Seen(run)
                    /\ \A f \in Seen(run) : /\ Y(clip, run.top) <= Y(clip, f)
                                           /\ Y(clip, f) <= Y(clip, run.impact)
  IN Disjoint(runs) /\ \A run \in runs : Whole(run)

\* Every reader of a clip names the same swing.  The descents are apart, as Fields takes
\* them to be; the six segments are in order and cover the clip; the first descent of
\* the listing is the one that was segmented (candidate_downswings), and the only one
\* of a looser listing is that one too; the impact the warp is pinned to, read off the
\* boundaries, is the detected one; and the top, read off the middle of the transition,
\* is no further from the detected one than half of what the transition can be clipped
\* by.
OneReading ==
  LET Agree(b, swing, instants, major, minor) ==
        /\ b[1] = 0 /\ b[7] = Len(clip) - 1 /\ \A i \in 1..6 : b[i] <= b[i + 1]
        /\ \A only \in minor : minor = {only} => only = swing
        /\ major # {} => swing = Earliest(major)
        /\ major # {} /\ instants # None =>
             /\ instants.impact = swing.impact
             /\ 2 * Distance(instants.top, swing.top) <= TransitionHalf + 1
  IN /\ stage = "film" /\ clip # <<>> => DescentsApart(Runs(clip))
     /\ stage = "film" /\ Len(clip) >= MinFrames =>
          Agree(Boundaries(clip).at, TopAndImpact(clip), Instants(clip),
                Candidates(clip, MajorRise), Candidates(clip, CandidateMinRise))

\* A view that can be picked alone is picked, whatever the other view says and
\* whichever was first: there is nothing for a fallback to catch (_pick_swing).
NothingIsLost ==
  \A v \in Clips : view[v] # None /\ view[v].choice # Given =>
    (view[v].alone # None => view[v].choice # None)

\* What the warp divides by never vanishes: motion start, top and impact are in order
\* and in the clip, after the strike has moved the impact (model_copy runs no
\* validator) and after the tops and the motion starts have been moved.
WarpInOrder ==
  stage = "render" => \A v \in Clips :
    LET c == aligned.clip[v]
    IN /\ c.anchors.motion <= c.anchors.top /\ c.anchors.top < c.anchors.impact
       /\ 0 <= c.motion /\ c.motion <= c.top /\ c.top < c.anchors.impact
       /\ c.anchors.impact <= LastFrame(c.anchors)

\* The alignment is the same whichever clip is named first.
EitherOrder ==
  stage = "render" =>
    LET turned == AlignSwings([v \in Clips |-> aligned.clip[Other(v)].anchors])
    IN /\ turned.quality = aligned.quality
       /\ \A v \in Clips : turned.clip[v] = aligned.clip[Other(v)]

\* Tops that had to be moved meet: each is as far back from its impact in real time,
\* to less than a frame of its clip; with both strikes heard only the late top moves,
\* by what is reported of it (ClipAlignment.top_late_by).
TopsMeet ==
  stage = "render" /\ aligned.clip["a"].warpTop # None =>
    LET A == [v \in Clips |-> aligned.clip[v].anchors]
        Span(v) == A[v].impact - aligned.clip[v].warpTop
    IN /\ Distance(Span("a") * A["b"].fps, Span("b") * A["a"].fps) < Larger(A["a"].fps, A["b"].fps)
       /\ A["a"].heard /\ A["b"].heard =>
            \E v \in Clips :
              /\ aligned.clip[v].warpTop = A[v].top
              /\ A[Other(v)].top - aligned.clip[Other(v)].warpTop \in
                   {aligned.clip[Other(v)].lateBy, 0}

Lengths == [v \in Clips |-> Longest + 1]

\* No panel is played more than a tenth too fast or too slow, over any stretch of the
\* video in which it is not held at an end of its clip, to a frame of rounding
\* (_MAX_WARP_SPEED_ERROR).
HonestSpeed ==
  stage = "render" => \A lead \in Clips :
    LET shown == PairFrames(aligned, lead, Lengths)
        lfps == aligned.clip[lead].anchors.fps
        ffps == aligned.clip[Other(lead)].anchors.fps
        Free(i) == shown[i] \notin {0, Longest}
    IN lfps # None /\ ffps # None =>
         \A i, k \in DOMAIN shown : i < k /\ Free(i) /\ Free(k) =>
           LET moved == (shown[k] - shown[i]) * lfps
               native == (k - i) * ffps
           IN 9 * native - 10 * lfps <= 10 * moved /\ 9 * moved <= 10 * native + 9 * lfps

=============================================================================
