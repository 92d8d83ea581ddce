------------------------- MODULE SwingTiming_proofs -------------------------
(***************************************************************************)
(* What an analysis makes of a bundle's two clips, for clips of every      *)
(* length and rate, whatever was seen and heard in them.                   *)
(*                                                                         *)
(* Alignment.  Segmenting leaves a top before an impact, a strike is taken *)
(* only behind the top and inside the clip, and whatever moves a top or a  *)
(* motion start afterwards is bounded by the instant behind it and by the  *)
(* clip's first frame, because rounding keeps signs: the warp never        *)
(* divides by zero.  Each decision of it is the same when the clips are    *)
(* exchanged, one of them being the face-on one.  A moved top is a rounded *)
(* one, so two of them are apart by less than a frame of the slower clip;  *)
(* and the frame shown beside each frame of the lead is the rounding of a  *)
(* line, or of two that meet at the top, each less than a tenth too steep. *)
(*                                                                         *)
(* Picking.  A rule picks wherever a stricter one would have: the descents *)
(* it may pick from are a finite set of pairs of numbers, which has its    *)
(* earliest, its latest and its nearest.                                   *)
(*                                                                         *)
(* Reading.  By induction on the frames met, the scan of a clip holds runs *)
(* that are whole and apart, and one more that begins behind them all.     *)
(***************************************************************************)
EXTENDS SwingTiming, NaturalsInduction, WellFoundedInduction, FiniteSetTheorems, TLAPS


SwingAnchors ==
  [motion : Nat, top : Nat, impact : Nat, found : BOOLEAN, heard : BOOLEAN, faceOn : BOOLEAN,
   count : Nat \cup {None}, fps : {None} \cup (Nat \ {0})]

\* The instants of a view in the order the warp needs.
InOrder(s) ==
  /\ s \in SwingAnchors
  /\ s.motion <= s.top /\ s.top < s.impact /\ s.impact <= LastFrame(s)

-----------------------------------------------------------------------------
(* Arithmetic. *)

\* Numbers multiply to numbers.
LEMMA ProductIsNat ==
  ASSUME NEW m \in Nat, NEW n \in Nat
  PROVE  m * n \in Nat
  OBVIOUS

\* Python's round of a quotient that is not negative is not negative.
LEMMA RoundIsNat ==
  ASSUME NEW n \in Nat, NEW d \in Nat \ {0}
  PROVE  Round(n, d) \in Nat
<1>1. n \div d \in Nat
  OBVIOUS
<1> QED
  BY <1>1 DEF Round

\* What is taken off a top, and held in the clip, is in the clip and not behind the top.
LEMMA HeldInTheClip ==
  ASSUME NEW top \in Nat, NEW frames \in Nat
  PROVE  /\ Larger(0, top - frames) \in Nat
         /\ Larger(0, top - frames) <= top
  BY DEF Larger

\* The lesser of two frames is one of them.
LEMMA LeastOfTwo ==
  ASSUME NEW f \in Int, NEW g \in Int, NEW S \in SUBSET {f, g}, S # {}
  PROVE  Min(S) \in S
<1>1. S = {f} \/ S = {g} \/ S = {f, g}
  OBVIOUS
<1>2. f =< g \/ g =< f
  OBVIOUS
<1>3. \E x \in S : \A y \in S : x =< y
  <2>1. CASE S = {f}
    BY <2>1
  <2>2. CASE S = {g}
    BY <2>2
  <2>3. CASE S = {f, g} /\ f =< g
    BY <2>3
  <2>4. CASE S = {f, g} /\ g =< f
    BY <2>4
  <2> QED
    BY <1>1, <1>2, <2>1, <2>2, <2>3, <2>4
<1> QED
  BY <1>3 DEF Min

-----------------------------------------------------------------------------
(* The anchors of a view. *)

\* A clip that is segmented has its instants in order.
LEMMA SegmentedInOrder ==
  ASSUME NEW faceOn \in BOOLEAN, NEW s \in Segmented(faceOn)
  PROVE  InOrder(s)
<1>1. PICK i \in [motion : 0..Longest, top : 0..Longest, impact : 0..Longest, found : BOOLEAN],
           fps \in Rates :
        /\ i.motion <= i.top /\ i.top < i.impact
        /\ s = Anchors(i, FALSE, faceOn, IF fps = None THEN None ELSE Longest + 1, fps)
  BY DEF Segmented, Anchors
<1>2. Longest \in Nat /\ (fps = None \/ fps \in Nat \ {0})
  BY TimingConstants
<1>3. /\ i.motion \in Nat /\ i.top \in Nat /\ i.impact \in Nat /\ i.found \in BOOLEAN
      /\ i.motion <= i.top /\ i.top < i.impact /\ i.impact <= Longest
  BY <1>1, <1>2
<1>4. s \in SwingAnchors
  BY <1>1, <1>2, <1>3 DEF Anchors, SwingAnchors
<1>5. /\ s.motion = i.motion /\ s.top = i.top /\ s.impact = i.impact
      /\ s.count = IF fps = None THEN None ELSE Longest + 1
  BY <1>1 DEF Anchors
<1>6. s.impact <= LastFrame(s)
  <2>1. CASE s.count = None
    BY <2>1, <1>3, <1>5 DEF LastFrame
  <2>2. CASE s.count # None
    <3>1. s.count = Longest + 1
      BY <2>2, <1>5
    <3> QED
      BY <2>2, <3>1, <1>2, <1>3, <1>5 DEF LastFrame
  <2> QED
    BY <2>1, <2>2
<1> QED
  BY <1>3, <1>4, <1>5, <1>6 DEF InOrder

\* A strike moves the impact only behind the top and inside the clip.
LEMMA StrikeKeepsOrder ==
  ASSUME NEW s, InOrder(s), NEW f \in Nat, NEW g \in Nat, NEW strikes \in SUBSET {f, g}
  PROVE  InOrder(WithMeasuredImpact(s, strikes))
<1> DEFINE near == StrikesNear(s, strikes)
           moved == [s EXCEPT !.impact = Min(near), !.heard = TRUE]
<1>1. CASE near = {}
  BY <1>1 DEF WithMeasuredImpact
<1>2. CASE near # {}
  <2>1. near \in SUBSET {f, g}
    BY DEF StrikesNear
  <2>2. PICK h \in near : h = Min(near)
    <3>1. f \in Int /\ g \in Int
      OBVIOUS
    <3>2. Min(near) \in near
      BY ONLY <1>2, <2>1, <3>1, LeastOfTwo
    <3> QED
      BY <3>2
  <2>3. h \in Nat /\ h > s.top /\ (s.count = None \/ h <= LastFrame(s))
    BY <2>2 DEF StrikesNear
  <2>4. moved \in SwingAnchors
    BY <2>2, <2>3 DEF InOrder, SwingAnchors
  <2>5. moved.motion = s.motion /\ moved.top = s.top /\ moved.impact = h /\ moved.count = s.count
    BY <2>2 DEF InOrder, SwingAnchors
  <2>6. moved.impact <= LastFrame(moved)
    BY <2>3, <2>5 DEF LastFrame
  <2>7. InOrder(moved)
    BY <2>3, <2>4, <2>5, <2>6 DEF InOrder, SwingAnchors
  <2> QED
    BY <1>2, <2>7 DEF WithMeasuredImpact
<1> QED
  BY <1>1, <1>2

\* Either way, the anchors of a view have their instants in order.
LEMMA AnchoredInOrder ==
  ASSUME NEW faceOn \in BOOLEAN, NEW s \in Anchored(faceOn)
  PROVE  InOrder(s)
<1>1. PICK t \in Segmented(faceOn), strikes \in {{}} \cup {{f, g} : f, g \in 0..Longest + 1} :
        s = WithMeasuredImpact(t, strikes)
  BY DEF Anchored
<1>2. PICK f \in Nat, g \in Nat : strikes \in SUBSET {f, g}
  BY TimingConstants
<1>3. InOrder(t)
  BY <1>1, SegmentedInOrder
<1>4. InOrder(WithMeasuredImpact(t, strikes))
  BY <1>1, <1>2, <1>3, StrikeKeepsOrder
<1> QED
  BY <1>1, <1>4

-----------------------------------------------------------------------------
(* The alignment of two. *)

Both(A) == A \in [Clips -> SwingAnchors] /\ \A v \in Clips : InOrder(A[v])

\* A moved top is in the clip and before its impact.
LEMMA SharedTopsBeforeImpact ==
  ASSUME NEW A, Both(A), NEW v \in Clips
  PROVE  SharedTops(A)[v] = None \/ (SharedTops(A)[v] \in Nat /\ SharedTops(A)[v] < A[v].impact)
<1> DEFINE r == TopsFrom(A)
<1>1. A[v] \in SwingAnchors /\ InOrder(A[v])
  BY DEF Both
<1>2. A[v].impact \in Nat /\ A[v].impact > 0
  BY <1>1 DEF InOrder, SwingAnchors
<1>3. SharedTops(A)[v] = None \/ (TopsDisagree(A) /\ SharedTops(A)[v] = TopAt(A, v, r))
  BY DEF SharedTops
<1>4. ASSUME TopsDisagree(A) PROVE InFramesOf(A, v, r, Downswing(A[r])) \in Nat
  <2>1. r \in Clips
    BY DEF TopsFrom, Other, Clips
  <2>2. A[r] \in SwingAnchors /\ InOrder(A[r])
    BY <2>1 DEF Both
  <2>3. A[v].fps \in Nat \ {0} /\ A[r].fps \in Nat \ {0}
    BY <1>1, <1>4, <2>1, <2>2 DEF TopsDisagree, BothTimed, SwingAnchors, Clips
  <2>4. Downswing(A[r]) \in Nat
    BY <2>2 DEF Downswing, InOrder, SwingAnchors
  <2>5. Downswing(A[r]) * A[v].fps \in Nat
    BY <2>3, <2>4, ProductIsNat
  <2> QED
    BY <2>3, <2>5, RoundIsNat DEF InFramesOf
<1>5. ASSUME TopsDisagree(A) PROVE TopAt(A, v, r) \in Nat /\ TopAt(A, v, r) < A[v].impact
  BY <1>2, <1>4, <1>5 DEF TopAt, Smaller, Larger
<1> QED
  BY <1>3, <1>5

\* An estimated motion start is in the clip and not behind the top.
LEMMA EstimatedBeforeTop ==
  ASSUME NEW top \in Nat, NEW downswing \in Nat
  PROVE  Estimated(top, downswing) \in Nat /\ Estimated(top, downswing) <= top
<1>1. Round(7 * downswing, 2) \in Nat
  BY RoundIsNat
<1> QED
  BY <1>1, HeldInTheClip DEF Estimated

\* A shared motion start is not behind its clip's top.
LEMMA SharedMotionStartsBeforeTop ==
  ASSUME NEW A, Both(A), NEW v \in Clips
  PROVE  SharedMotionStarts(A)[v] \in Nat /\ SharedMotionStarts(A)[v] <= A[v].top
<1> DEFINE r == Scored(A)
<1>1. A[v] \in SwingAnchors /\ InOrder(A[v])
  BY DEF Both
<1>2. A[v].top \in Nat /\ Downswing(A[v]) \in Nat
  BY <1>1 DEF Downswing, InOrder, SwingAnchors
<1>3. CASE ~BothTimed(A)
  <2>1. SharedMotionStarts(A)[v] = Estimated(A[v].top, Downswing(A[v]))
    BY <1>3 DEF SharedMotionStarts
  <2> QED
    BY <1>2, <2>1, EstimatedBeforeTop
<1>4. CASE BothTimed(A)
  <2>1. r \in Clips
    BY DEF Scored, Clips
  <2>2. A[r] \in SwingAnchors /\ InOrder(A[r])
    BY <2>1 DEF Both
  <2>3. A[v].fps \in Nat \ {0} /\ A[r].fps \in Nat \ {0}
    BY <1>1, <1>4, <2>1, <2>2 DEF BothTimed, SwingAnchors, Clips
  <2>4. 7 * Downswing(A[r]) \in Nat
    BY <2>2 DEF Downswing, InOrder, SwingAnchors
  <2>5. 7 * Downswing(A[r]) * A[v].fps \in Nat
    BY <2>3, <2>4, ProductIsNat
  <2>6. 2 * A[r].fps \in Nat \ {0}
    BY <2>3
  <2>7. Round(7 * Downswing(A[r]) * A[v].fps, 2 * A[r].fps) \in Nat
    BY <2>5, <2>6, RoundIsNat
  <2>8. SharedMotionStarts(A)[v]
          = Larger(0, A[v].top - Round(7 * Downswing(A[r]) * A[v].fps, 2 * A[r].fps))
    BY <1>4 DEF SharedMotionStarts
  <2> QED
    BY <1>2, <2>7, <2>8, HeldInTheClip
<1> QED
  BY <1>3, <1>4

\* What the warp of a clip is pinned to.
Pinned(c) ==
  /\ InOrder(c.anchors)
  /\ c.motion \in Nat /\ c.top \in Nat
  /\ c.motion <= c.top /\ c.top < c.anchors.impact

\* So an alignment pins each clip to instants in order.
LEMMA AlignedIsPinned ==
  ASSUME NEW A, Both(A), NEW v \in Clips
  PROVE  Pinned(AlignSwings(A).clip[v])
<1> DEFINE c == AlignSwings(A).clip[v]
           moved == SharedTops(A)[v]
<1>1. A[v] \in SwingAnchors /\ InOrder(A[v])
  BY DEF Both
<1>2. c.anchors = A[v]
  BY DEF AlignSwings
<1>3. c.top = IF moved = None THEN A[v].top ELSE moved
  BY DEF AlignSwings
<1>4. c.motion = IF moved # None THEN Estimated(moved, A[v].impact - moved)
                 ELSE IF MotionStartHolds(A) THEN A[v].motion ELSE SharedMotionStarts(A)[v]
  BY DEF AlignSwings
<1>5. /\ A[v].motion \in Nat /\ A[v].top \in Nat /\ A[v].impact \in Nat
      /\ A[v].motion <= A[v].top /\ A[v].top < A[v].impact
  BY <1>1 DEF InOrder, SwingAnchors
<1>6. CASE moved = None
  BY <1>1, <1>2, <1>3, <1>4, <1>5, <1>6, SharedMotionStartsBeforeTop DEF Pinned
<1>7. CASE moved # None
  <2>1. moved \in Nat /\ moved < A[v].impact
    BY <1>7, SharedTopsBeforeImpact
  <2>2. A[v].impact - moved \in Nat
    BY <1>5, <2>1
  <2>3. Estimated(moved, A[v].impact - moved) \in Nat /\ Estimated(moved, A[v].impact - moved) <= moved
    BY <2>1, <2>2, EstimatedBeforeTop
  <2> QED
    BY <1>1, <1>2, <1>3, <1>4, <1>7, <2>1, <2>3 DEF Pinned
<1> QED
  BY <1>6, <1>7

-----------------------------------------------------------------------------
(* Rounding. *)

\* Python's round of a quotient is no further from it than a half.
LEMMA RoundNear ==
  ASSUME NEW n \in Int, NEW d \in Nat \ {0}
  PROVE  /\ Round(n, d) \in Int
         /\ 2 * (Round(n, d) * d - n) <= d /\ 2 * (n - Round(n, d) * d) <= d
<1>1. PICK q, r : q = n \div d /\ r = n % d
  OBVIOUS
<1>2. q \in Int /\ r \in 0..d - 1 /\ n = q * d + r
  BY <1>1
<1>3. (q + 1) * d = q * d + d /\ q * d \in Int
  BY <1>2
<1>4. \/ Round(n, d) = q /\ 2 * r <= d
      \/ Round(n, d) = q + 1 /\ 2 * r >= d
  BY <1>1, <1>2 DEF Round
<1>5. CASE Round(n, d) = q /\ 2 * r <= d
  <2>1. q * d - n = -r
    BY <1>2, <1>3
  <2> QED
    BY <1>2, <1>3, <1>5, <2>1
<1>6. CASE Round(n, d) = q + 1 /\ 2 * r >= d
  <2>1. (q + 1) * d - n = d - r
    BY <1>2, <1>3
  <2> QED
    BY <1>2, <1>3, <1>6, <2>1
<1> QED
  BY <1>4, <1>5, <1>6

\* What is already whole rounds to itself.
LEMMA RoundOfAWhole ==
  ASSUME NEW q \in Int, NEW d \in Nat \ {0}
  PROVE  Round(q * d, d) = q
<1>1. PICK k : k = Round(q * d, d)
  OBVIOUS
<1>2. q * d \in Int
  OBVIOUS
<1>3. k \in Int /\ 2 * (k * d - q * d) <= d /\ 2 * (q * d - k * d) <= d
  BY <1>1, <1>2, RoundNear
<1>4. CASE k >= q + 1
  <2>1. (k - q) * d >= d /\ (k - q) * d = k * d - q * d
    BY <1>3, <1>4
  <2> QED
    BY <1>3, <2>1
<1>5. CASE k <= q - 1
  <2>1. (q - k) * d >= d /\ (q - k) * d = q * d - k * d
    BY <1>3, <1>5
  <2> QED
    BY <1>3, <2>1
<1> QED
  BY <1>1, <1>3, <1>4, <1>5

\* What was multiplied through is divided through.
LEMMA Cancel ==
  ASSUME NEW q \in Nat \ {0}, NEW m \in Int, NEW n \in Int, q * m <= q * n
  PROVE  m <= n
<1> SUFFICES ASSUME m >= n + 1 PROVE FALSE
  OBVIOUS
<1>1. q * (m - n) >= q
  OBVIOUS
<1>2. q * (m - n) = q * m - q * n
  OBVIOUS
<1> QED
  BY <1>1, <1>2

-----------------------------------------------------------------------------
(* The clips exchanged. *)

\* One view of each kind.
Viewed(A) == Both(A) /\ A["a"].faceOn /\ ~A["b"].faceOn

Turned(A) == [v \in Clips |-> A[Other(v)]]

\* Other is an exchange.
LEMMA TheOtherIsAClip ==
  ASSUME NEW v \in Clips
  PROVE  Other(v) \in Clips /\ Other(v) # v /\ Other(Other(v)) = v
BY DEF Clips, Other

\* Exchanged anchors are anchors.
LEMMA TurnedIsRead ==
  ASSUME NEW A, NEW v \in Clips
  PROVE  Turned(A)[v] = A[Other(v)] /\ Turned(A)[Other(v)] = A[v]
BY TheOtherIsAClip DEF Turned

\* What the alignment divides by, and what it multiplies, are numbers.
LEMMA TimedRates ==
  ASSUME NEW A, Both(A), BothTimed(A), NEW v \in Clips
  PROVE  A[v].fps \in Nat \ {0}
<1>1. A[v] \in SwingAnchors /\ (v = "a" \/ v = "b")
  BY DEF Both, Clips
<1> QED
  BY <1>1 DEF BothTimed, SwingAnchors

\* What the alignment compares are positive downswings.
LEMMA DownswingIsPositive ==
  ASSUME NEW A, Both(A), NEW v \in Clips
  PROVE  /\ Downswing(A[v]) \in Nat \ {0} /\ Backswing(A[v]) \in Nat
         /\ A[v].impact \in Nat /\ A[v].top \in Nat /\ A[v].impact - A[v].top = Downswing(A[v])
<1>1. InOrder(A[v])
  BY DEF Both
<1> QED
  BY <1>1 DEF InOrder, SwingAnchors, Downswing, Backswing

\* Whether both clips are timed does not depend on their order,
LEMMA TurnedTimed ==
  ASSUME NEW A
  PROVE  BothTimed(Turned(A)) <=> BothTimed(A)
<1>1. Turned(A)["a"] = A["b"] /\ Turned(A)["b"] = A["a"]
  BY DEF Turned, Clips, Other
<1> QED
  BY <1>1 DEF BothTimed

\* nor does a gap,
LEMMA GapEitherWay ==
  ASSUME NEW m \in Nat, NEW n \in Nat, NEW percent
  PROVE  Gap(m, n, percent) <=> Gap(n, m, percent)
<1>1. Distance(m, n) = Distance(n, m) /\ Larger(m, n) = Larger(n, m)
  BY DEF Distance, Larger
<1> QED
  BY <1>1 DEF Gap

\* nor whether the tops disagree,
LEMMA TurnedDisagree ==
  ASSUME NEW A, Both(A)
  PROVE  TopsDisagree(Turned(A)) <=> TopsDisagree(A)
<1> DEFINE m == Downswing(A["a"]) * A["b"].fps
           n == Downswing(A["b"]) * A["a"].fps
<1>1. Turned(A)["a"] = A["b"] /\ Turned(A)["b"] = A["a"]
  BY DEF Turned, Clips, Other
<1>2. CASE BothTimed(A)
  <2>1. A["a"].fps \in Nat /\ A["b"].fps \in Nat
    BY <1>2, TimedRates DEF Clips
  <2>2. Downswing(A["a"]) \in Nat /\ Downswing(A["b"]) \in Nat
    BY DownswingIsPositive DEF Clips
  <2>3. m \in Nat /\ n \in Nat
    BY <2>1, <2>2, ProductIsNat
  <2>4. Gap(n, m, 30) <=> Gap(m, n, 30)
    BY <2>3, GapEitherWay
  <2> QED
    BY <1>1, <2>4, TurnedTimed DEF TopsDisagree
<1>3. CASE ~BothTimed(A)
  BY <1>3, TurnedTimed DEF TopsDisagree
<1> QED
  BY <1>2, <1>3

\* nor whether the motion starts hold,
LEMMA TurnedHolds ==
  ASSUME NEW A, Both(A)
  PROVE  MotionStartHolds(Turned(A)) <=> MotionStartHolds(A)
<1> DEFINE m == Backswing(A["a"]) * Downswing(A["b"])
           n == Backswing(A["b"]) * Downswing(A["a"])
           x == Backswing(A["a"]) * A["b"].fps
           y == Backswing(A["b"]) * A["a"].fps
           Long(s) == s.found /\ Backswing(s) > 0 /\ Backswing(s) >= Downswing(s)
<1>1. Turned(A)["a"] = A["b"] /\ Turned(A)["b"] = A["a"]
  BY DEF Turned, Clips, Other
<1>2. /\ Downswing(A["a"]) \in Nat /\ Downswing(A["b"]) \in Nat
      /\ Backswing(A["a"]) \in Nat /\ Backswing(A["b"]) \in Nat
  BY DownswingIsPositive DEF Clips
<1>3. Gap(n, m, 35) <=> Gap(m, n, 35)
  <2>1. m \in Nat /\ n \in Nat
    BY <1>2, ProductIsNat
  <2> QED
    BY <2>1, GapEitherWay
<1>4. ASSUME BothTimed(A)
      PROVE  /\ Distance(x, y) = Distance(y, x)
             /\ 167 * A["a"].fps * A["b"].fps = 167 * A["b"].fps * A["a"].fps
  <2>1. A["a"].fps \in Nat /\ A["b"].fps \in Nat
    BY <1>4, TimedRates DEF Clips
  <2>2. x \in Nat /\ y \in Nat
    BY <1>2, <2>1, ProductIsNat
  <2>3. Distance(x, y) = Distance(y, x)
    BY <2>2 DEF Distance
  <2> QED
    BY <2>1, <2>3
<1>5. /\ MotionStartHolds(A) <=>
           /\ Long(A["a"]) /\ Long(A["b"]) /\ ~Gap(m, n, 35)
           /\ BothTimed(A) => 1000 * Distance(x, y) <= 167 * A["a"].fps * A["b"].fps
  BY DEF MotionStartHolds, Clips
<1>6. /\ MotionStartHolds(Turned(A)) <=>
           /\ Long(A["a"]) /\ Long(A["b"]) /\ ~Gap(n, m, 35)
           /\ BothTimed(A) => 1000 * Distance(y, x) <= 167 * A["b"].fps * A["a"].fps
  BY <1>1, TurnedTimed DEF MotionStartHolds, Clips
<1> QED
  BY <1>3, <1>4, <1>5, <1>6

\* Tops that disagree are not as far back as each other.
LEMMA DisagreeingDownswingsDiffer ==
  ASSUME NEW A, Both(A), TopsDisagree(A)
  PROVE  /\ Downswing(A["a"]) * A["b"].fps \in Nat /\ Downswing(A["b"]) * A["a"].fps \in Nat
         /\ Downswing(A["a"]) * A["b"].fps # Downswing(A["b"]) * A["a"].fps
<1>1. A["a"].fps \in Nat \ {0} /\ A["b"].fps \in Nat \ {0}
  BY TimedRates DEF Clips, TopsDisagree
<1>2. Downswing(A["a"]) \in Nat /\ Downswing(A["b"]) \in Nat
  BY DownswingIsPositive DEF Clips
<1>3. PICK m \in Nat, n \in Nat : m = Downswing(A["a"]) * A["b"].fps /\ n = Downswing(A["b"]) * A["a"].fps
  BY <1>1, <1>2, ProductIsNat
<1>4. Gap(m, n, 30)
  BY <1>3 DEF TopsDisagree
<1>5. m # n
  BY <1>4 DEF Gap, Distance, Larger
<1> QED
  BY <1>3, <1>5

\* nor which view is the late one.
LEMMA TurnedLate ==
  ASSUME NEW A, Both(A), None \notin Clips
  PROVE  LateView(Turned(A)) = IF LateView(A) = None THEN None ELSE Other(LateView(A))
<1>1. Turned(A)["a"] = A["b"] /\ Turned(A)["b"] = A["a"]
  BY DEF Turned, Clips, Other
<1>2. (\A v \in Clips : Turned(A)[v].heard) <=> (\A v \in Clips : A[v].heard)
  BY <1>1 DEF Clips
<1>3. CASE ~(\A v \in Clips : A[v].heard) \/ ~TopsDisagree(A)
  BY <1>2, <1>3, TurnedDisagree DEF LateView
<1>4. CASE (\A v \in Clips : A[v].heard) /\ TopsDisagree(A)
  <2>1. PICK m \in Nat, n \in Nat :
          m = Downswing(A["a"]) * A["b"].fps /\ n = Downswing(A["b"]) * A["a"].fps /\ m # n
    BY <1>4, DisagreeingDownswingsDiffer
  <2>2. LateView(A) = IF m < n THEN "a" ELSE "b"
    BY <1>4, <2>1 DEF LateView
  <2>3. LateView(Turned(A)) = IF n < m THEN "a" ELSE "b"
    BY <1>1, <1>2, <1>4, <2>1, TurnedDisagree DEF LateView
  <2>4. m < n <=> ~(n < m)
    BY <2>1
  <2> QED
    BY <2>2, <2>3, <2>4 DEF Other, Clips
<1> QED
  BY <1>3, <1>4

\* The late view, if any, is one of the two.
LEMMA LateIsAClip ==
  ASSUME NEW A
  PROVE  LateView(A) \in Clips \cup {None} /\ TopsFrom(A) \in Clips
BY DEF LateView, TopsFrom, Clips, Other

\* Both tops come from one clip's duration, the same one either way,
LEMMA TurnedSource ==
  ASSUME NEW A, Viewed(A)
  PROVE  /\ TopsFrom(Turned(A)) = Other(TopsFrom(A))
         /\ Scored(A) = "a" /\ Scored(Turned(A)) = "b"
<1>1. Turned(A)["a"] = A["b"] /\ Turned(A)["b"] = A["a"]
  BY DEF Turned, Clips, Other
<1>2. Scored(A) = "a" /\ Scored(Turned(A)) = "b"
  BY <1>1 DEF Scored, Viewed
<1>3. CASE LateView(A) = None
  <2>1. LateView(Turned(A)) = None
    BY <1>3, TurnedLate, AlignmentConstants, PhaseConstants DEF Viewed
  <2> QED
    BY <1>1, <1>2, <1>3, <2>1 DEF TopsFrom, Other, Viewed
<1>4. CASE LateView(A) # None
  <2>1. LateView(Turned(A)) = Other(LateView(A)) /\ LateView(A) \in Clips
    BY <1>4, TurnedLate, LateIsAClip, AlignmentConstants, PhaseConstants DEF Viewed
  <2>2. LateView(Turned(A)) # None
    BY <2>1, TheOtherIsAClip, AlignmentConstants, PhaseConstants
  <2> QED
    BY <1>2, <1>4, <2>1, <2>2 DEF TopsFrom
<1> QED
  BY <1>2, <1>3, <1>4

\* so each is moved to the same frame,
LEMMA TurnedFrames ==
  ASSUME NEW A, NEW v \in Clips, NEW r \in Clips
  PROVE  /\ InFramesOf(Turned(A), v, Other(r), Downswing(Turned(A)[Other(r)]))
              = InFramesOf(A, Other(v), r, Downswing(A[r]))
         /\ TopAt(Turned(A), v, Other(r)) = TopAt(A, Other(v), r)
<1>1. Turned(A)[v] = A[Other(v)] /\ Turned(A)[Other(r)] = A[r]
  BY TurnedIsRead
<1> QED
  BY <1>1 DEF InFramesOf, TopAt

\* or neither is.
LEMMA TurnedTops ==
  ASSUME NEW A, Viewed(A), NEW v \in Clips
  PROVE  SharedTops(Turned(A))[v] = SharedTops(A)[Other(v)]
<1> DEFINE r == TopsFrom(A)
           Fits(B, w) == B[w].impact - InFramesOf(B, w, TopsFrom(B), Downswing(B[TopsFrom(B)])) > 0
<1>1. r \in Clips /\ TopsFrom(Turned(A)) = Other(r)
  BY LateIsAClip, TurnedSource
<1>2. ASSUME NEW w \in Clips PROVE Fits(Turned(A), w) <=> Fits(A, Other(w))
  BY <1>1, TurnedFrames, TurnedIsRead
<1>3. (\A w \in Clips : Fits(Turned(A), w)) <=> (\A w \in Clips : Fits(A, w))
  BY <1>2, TheOtherIsAClip
<1>4. TopAt(Turned(A), v, TopsFrom(Turned(A))) = TopAt(A, Other(v), r)
  BY <1>1, TurnedFrames
<1>5. TopsDisagree(Turned(A)) <=> TopsDisagree(A)
  BY TurnedDisagree DEF Viewed
<1>6. SharedTops(Turned(A))[v] =
        IF TopsDisagree(Turned(A)) /\ \A w \in Clips : Fits(Turned(A), w)
        THEN TopAt(Turned(A), v, TopsFrom(Turned(A))) ELSE None
  BY DEF SharedTops
<1>7. SharedTops(A)[Other(v)] =
        IF TopsDisagree(A) /\ \A w \in Clips : Fits(A, w) THEN TopAt(A, Other(v), r) ELSE None
  BY TheOtherIsAClip DEF SharedTops
<1> QED
  BY <1>3, <1>4, <1>5, <1>6, <1>7

\* The shared motion starts come from the face-on view, first or not.
LEMMA TurnedMotionStarts ==
  ASSUME NEW A, Viewed(A), NEW v \in Clips
  PROVE  SharedMotionStarts(Turned(A))[v] = SharedMotionStarts(A)[Other(v)]
<1>1. /\ Turned(A)[v] = A[Other(v)] /\ Turned(A)["b"] = A["a"] /\ Other(v) \in Clips
  BY TurnedIsRead, TheOtherIsAClip DEF Turned, Clips, Other
<1>2. BothTimed(Turned(A)) <=> BothTimed(A)
  BY TurnedTimed
<1>3. Scored(A) = "a" /\ Scored(Turned(A)) = "b"
  BY TurnedSource
<1> QED
  BY <1>1, <1>2, <1>3 DEF SharedMotionStarts

\* A top is reported late by as much.
LEMMA TurnedLateBy ==
  ASSUME NEW A, Viewed(A), NEW v \in Clips
  PROVE  LateBy(Turned(A), v) = LateBy(A, Other(v))
<1>1. Turned(A)[v] = A[Other(v)] /\ Other(v) \in Clips /\ Other(Other(v)) = v
  BY TurnedIsRead, TheOtherIsAClip
<1>2. TopAt(Turned(A), v, Other(v)) = TopAt(A, Other(v), v)
  BY TurnedFrames
<1>3. LateView(Turned(A)) = v <=> LateView(A) = Other(v)
  <2>1. CASE LateView(A) = None
    BY <1>1, <2>1, TurnedLate, AlignmentConstants, PhaseConstants DEF Viewed
  <2>2. CASE LateView(A) # None
    <3>1. LateView(Turned(A)) = Other(LateView(A)) /\ LateView(A) \in Clips
      BY <2>2, TurnedLate, LateIsAClip, AlignmentConstants, PhaseConstants DEF Viewed
    <3> QED
      BY <1>1, <3>1, TheOtherIsAClip
  <2> QED
    BY <2>1, <2>2
<1> QED
  BY <1>1, <1>2, <1>3 DEF LateBy

\* The frame a top is moved to is in the clip and before its impact.
LEMMA TopAtBeforeImpact ==
  ASSUME NEW A, Both(A), TopsDisagree(A), NEW v \in Clips, NEW r \in Clips
  PROVE  /\ InFramesOf(A, v, r, Downswing(A[r])) \in Nat
         /\ TopAt(A, v, r) \in Nat /\ TopAt(A, v, r) < A[v].impact
<1>1. A[v].fps \in Nat \ {0} /\ A[r].fps \in Nat \ {0}
  BY TimedRates DEF TopsDisagree
<1>2. Downswing(A[r]) \in Nat /\ A[v].impact \in Nat /\ A[v].impact > 0
  BY DownswingIsPositive
<1>3. Downswing(A[r]) * A[v].fps \in Nat
  BY <1>1, <1>2, ProductIsNat
<1>4. InFramesOf(A, v, r, Downswing(A[r])) \in Nat
  BY <1>1, <1>3, RoundIsNat DEF InFramesOf
<1> QED
  BY <1>2, <1>4 DEF TopAt, Smaller, Larger

\* Both tops are moved, or neither is.
LEMMA TopsMoveTogether ==
  ASSUME NEW A, Both(A), NEW v \in Clips, NEW w \in Clips, SharedTops(A)[v] # None
  PROVE  /\ TopsDisagree(A) /\ SharedTops(A)[v] = TopAt(A, v, TopsFrom(A))
         /\ \A x \in Clips :
              A[x].impact - InFramesOf(A, x, TopsFrom(A), Downswing(A[TopsFrom(A)])) > 0
         /\ SharedTops(A)[w] = TopAt(A, w, TopsFrom(A)) /\ SharedTops(A)[w] # None
<1>1. /\ TopsDisagree(A) /\ SharedTops(A)[v] = TopAt(A, v, TopsFrom(A))
      /\ \A x \in Clips :
           A[x].impact - InFramesOf(A, x, TopsFrom(A), Downswing(A[TopsFrom(A)])) > 0
      /\ SharedTops(A)[w] = TopAt(A, w, TopsFrom(A))
  BY DEF SharedTops
<1>2. TopAt(A, w, TopsFrom(A)) # None
  BY <1>1, LateIsAClip, TopAtBeforeImpact, AlignmentConstants, PhaseConstants
<1> QED
  BY <1>1, <1>2

\* The quality is the same,
LEMMA TurnedQuality ==
  ASSUME NEW A, Viewed(A)
  PROVE  Quality(Turned(A), SharedTops(Turned(A))) = Quality(A, SharedTops(A))
<1>1. Turned(A)["a"] = A["b"] /\ Turned(A)["b"] = A["a"] /\ Both(A)
  BY DEF Turned, Clips, Other, Viewed
<1>2. (\A v \in Clips : Turned(A)[v].heard) <=> (\A v \in Clips : A[v].heard)
  BY <1>1 DEF Clips
<1>3. SharedTops(Turned(A))["a"] = SharedTops(A)["b"]
  BY TurnedTops DEF Clips, Other
<1>4. SharedTops(A)["b"] # None <=> SharedTops(A)["a"] # None
  BY <1>1, TopsMoveTogether DEF Clips
<1>5. MotionStartHolds(Turned(A)) <=> MotionStartHolds(A)
  BY <1>1, TurnedHolds
<1> QED
  BY <1>2, <1>3, <1>4, <1>5 DEF Quality

\* and what each clip is pinned to.
LEMMA TurnedClip ==
  ASSUME NEW A, Viewed(A), NEW v \in Clips
  PROVE  AlignSwings(Turned(A)).clip[v] = AlignSwings(A).clip[Other(v)]
<1> DEFINE Clip(B, w) ==
             [anchors |-> B[w],
              motion |-> IF SharedTops(B)[w] # None
                         THEN Estimated(SharedTops(B)[w], B[w].impact - SharedTops(B)[w])
                         ELSE IF MotionStartHolds(B) THEN B[w].motion
                         ELSE SharedMotionStarts(B)[w],
              warpTop |-> SharedTops(B)[w],
              top |-> IF SharedTops(B)[w] = None THEN B[w].top ELSE SharedTops(B)[w],
              lateBy |-> LateBy(B, w)]
<1>1. ASSUME NEW B, NEW w \in Clips PROVE AlignSwings(B).clip[w] = Clip(B, w)
  BY DEF AlignSwings
<1>2. Turned(A)[v] = A[Other(v)] /\ Other(v) \in Clips
  BY TurnedIsRead, TheOtherIsAClip
<1>3. /\ SharedTops(Turned(A))[v] = SharedTops(A)[Other(v)]
      /\ SharedMotionStarts(Turned(A))[v] = SharedMotionStarts(A)[Other(v)]
      /\ LateBy(Turned(A), v) = LateBy(A, Other(v))
      /\ MotionStartHolds(Turned(A)) <=> MotionStartHolds(A)
  BY TurnedTops, TurnedMotionStarts, TurnedLateBy, TurnedHolds DEF Viewed
<1>4. Clip(Turned(A), v) = Clip(A, Other(v))
  BY <1>2, <1>3
<1> QED
  BY <1>1, <1>2, <1>4

\* What is rendered is an alignment of two views.
Rendered == \E A : Viewed(A) /\ aligned = AlignSwings(A)

\* So it is of what is rendered.
LEMMA RenderedEitherWay ==
  ASSUME stage = "render" => Rendered
  PROVE  EitherOrder
<1> SUFFICES ASSUME stage = "render"
             PROVE  LET turned == AlignSwings([v \in Clips |-> aligned.clip[Other(v)].anchors])
                    IN /\ turned.quality = aligned.quality
                       /\ \A v \in Clips : turned.clip[v] = aligned.clip[Other(v)]
  BY DEF EitherOrder
<1>1. PICK A : Viewed(A) /\ aligned = AlignSwings(A)
  BY DEF Rendered
<1>2. ASSUME NEW v \in Clips PROVE aligned.clip[Other(v)].anchors = A[Other(v)]
  BY <1>1, TheOtherIsAClip DEF AlignSwings
<1>3. [v \in Clips |-> aligned.clip[Other(v)].anchors] = Turned(A)
  BY <1>2 DEF Turned
<1>4. AlignSwings(Turned(A)).quality = aligned.quality
  <2>1. AlignSwings(A).quality = Quality(A, SharedTops(A))
    BY DEF AlignSwings
  <2>2. AlignSwings(Turned(A)).quality = Quality(Turned(A), SharedTops(Turned(A)))
    BY DEF AlignSwings
  <2> QED
    BY <1>1, <2>1, <2>2, TurnedQuality
<1>5. \A v \in Clips : AlignSwings(Turned(A)).clip[v] = aligned.clip[Other(v)]
  BY <1>1, TurnedClip
<1> QED
  BY <1>3, <1>4, <1>5

-----------------------------------------------------------------------------
(* Tops that were moved. *)

\* How far before impact a clip's moved top is.
Span(A, v) == A[v].impact - TopAt(A, v, TopsFrom(A))

\* The clip the duration is taken from is held to its own downswing, the other to the
\* same duration in its own frames, or to a single frame.
LEMMA SpansMeet ==
  ASSUME NEW A, Both(A), NEW r \in Clips, r = TopsFrom(A), SharedTops(A)["a"] # None,
         NEW v \in Clips, v = Other(r)
  PROVE  /\ Span(A, r) = Downswing(A[r])
         /\ Span(A, v) \in Nat \ {0} /\ Downswing(A[r]) * A[v].fps \in Nat
         /\ Distance(Span(A, v) * A[r].fps, Downswing(A[r]) * A[v].fps) < A[r].fps
         /\ \/ 2 * (Downswing(A[r]) * A[v].fps) <= A[r].fps
            \/ 2 * (Downswing(A[r]) * A[v].fps - Span(A, v) * A[r].fps) <= A[r].fps
<1>0. /\ TopsDisagree(A)
      /\ \A x \in Clips : A[x].impact - InFramesOf(A, x, r, Downswing(A[r])) > 0
  BY TopsMoveTogether DEF Clips
<1>1. PICK f, g, D, F : /\ f = A[r].fps /\ g = A[v].fps /\ D = Downswing(A[r])
                        /\ F = InFramesOf(A, v, r, D)
  OBVIOUS
<1>2. f \in Nat \ {0} /\ g \in Nat \ {0} /\ D \in Nat \ {0}
  BY <1>0, <1>1, TimedRates, DownswingIsPositive DEF TopsDisagree
<1>3. D * g \in Nat
  BY <1>2, ProductIsNat
<1>4. Span(A, r) = D
  <2>1. InFramesOf(A, r, r, D) = D
    BY <1>1, <1>2, RoundOfAWhole DEF InFramesOf
  <2>2. A[r].impact \in Nat /\ A[r].impact - D > 0
    BY <1>0, <1>1, <2>1, DownswingIsPositive
  <2>3. TopAt(A, r, r) = Smaller(A[r].impact - 1, Larger(0, A[r].impact - D))
    BY <1>1, <2>1 DEF TopAt
  <2>4. TopAt(A, r, r) = A[r].impact - D
    BY <1>2, <2>2, <2>3 DEF Smaller, Larger
  <2> QED
    BY <1>2, <2>2, <2>4 DEF Span
<1>5. F \in Nat /\ 2 * (F * f - D * g) <= f /\ 2 * (D * g - F * f) <= f
  <2>1. F = Round(D * g, f)
    BY <1>1 DEF InFramesOf
  <2> QED
    BY <1>2, <1>3, <2>1, RoundNear, RoundIsNat
<1>6. Span(A, v) = IF F = 0 THEN 1 ELSE F
  <2>1. A[v].impact \in Nat /\ A[v].impact - F > 0
    BY <1>0, <1>1, DownswingIsPositive
  <2>2. TopAt(A, v, r) = Smaller(A[v].impact - 1, Larger(0, A[v].impact - F))
    BY <1>1 DEF TopAt
  <2>3. TopAt(A, v, r) = IF F = 0 THEN A[v].impact - 1 ELSE A[v].impact - F
    BY <1>5, <2>1, <2>2 DEF Smaller, Larger
  <2> QED
    BY <1>5, <2>1, <2>3 DEF Span
<1>7. D * g >= 1
  BY <1>2
<1>8. CASE F = 0
  <2>1. Span(A, v) = 1 /\ F * f = 0
    BY <1>2, <1>6, <1>8
  <2>2. 2 * (D * g) <= f
    BY <1>2, <1>3, <1>5, <2>1
  <2>3. Distance(1 * f, D * g) < f
    BY <1>2, <1>3, <1>7, <2>2 DEF Distance
  <2> QED
    BY <1>1, <1>3, <1>4, <2>1, <2>2, <2>3
<1>9. CASE F # 0
  <2>1. Span(A, v) = F /\ F \in Nat \ {0} /\ F * f \in Nat
    BY <1>2, <1>5, <1>6, <1>9
  <2>2. Distance(F * f, D * g) < f
    BY <1>2, <1>3, <1>5, <2>1 DEF Distance
  <2> QED
    BY <1>1, <1>3, <1>4, <1>5, <2>1, <2>2
<1> QED
  BY <1>8, <1>9

\* With both strikes heard the top that comes late is moved back, or stays.
LEMMA LateTopMovesBack ==
  ASSUME NEW A, Both(A), SharedTops(A)["a"] # None, NEW v \in Clips, LateView(A) = v
  PROVE  Other(v) = TopsFrom(A) /\ Span(A, v) >= Downswing(A[v])
<1> DEFINE r == Other(v)
<1>1. r \in Clips /\ v = Other(r) /\ v # None
  BY TheOtherIsAClip, AlignmentConstants, PhaseConstants
<1>2. r = TopsFrom(A)
  BY <1>1 DEF TopsFrom
<1>3. /\ Span(A, v) \in Nat \ {0}
      /\ \/ 2 * (Downswing(A[r]) * A[v].fps) <= A[r].fps
         \/ 2 * (Downswing(A[r]) * A[v].fps - Span(A, v) * A[r].fps) <= A[r].fps
  BY <1>1, <1>2, SpansMeet
<1>4. TopsDisagree(A)
  BY TopsMoveTogether DEF Clips
<1>5. PICK f, g, D, E, S : /\ f = A[r].fps /\ g = A[v].fps /\ D = Downswing(A[r])
                           /\ E = Downswing(A[v]) /\ S = Span(A, v)
  OBVIOUS
<1>6. f \in Nat \ {0} /\ g \in Nat \ {0} /\ D \in Nat \ {0} /\ E \in Nat \ {0}
  BY <1>1, <1>4, <1>5, TimedRates, DownswingIsPositive DEF TopsDisagree
<1>7. E * f < D * g
  <2>1. PICK m \in Nat, n \in Nat :
          m = Downswing(A["a"]) * A["b"].fps /\ n = Downswing(A["b"]) * A["a"].fps /\ m # n
    BY <1>4, DisagreeingDownswingsDiffer
  <2>2. LateView(A) = IF m < n THEN "a" ELSE "b"
    BY <1>1, <2>1 DEF LateView
  <2>3. (v = "a" /\ r = "b" /\ m < n) \/ (v = "b" /\ r = "a" /\ n < m)
    BY <2>1, <2>2 DEF Other
  <2> QED
    BY <1>5, <2>1, <2>3
<1>8. S >= E
  <2>1. CASE 2 * (D * g) <= f
    <3>1. E * f >= f /\ D * g \in Nat
      BY <1>6
    <3> QED
      BY <1>6, <1>7, <2>1, <3>1
  <2>2. CASE 2 * (D * g - S * f) <= f
    <3> SUFFICES ASSUME S <= E - 1 PROVE FALSE
      BY <1>3, <1>5, <1>6
    <3>1. S \in Nat /\ (E - S) * f >= f /\ (E - S) * f = E * f - S * f
      BY <1>3, <1>5, <1>6
    <3>2. D * g \in Nat /\ E * f \in Nat /\ S * f \in Nat
      BY <1>6, <3>1, ProductIsNat
    <3> QED
      BY <1>6, <1>7, <2>2, <3>1, <3>2
  <2> QED
    BY <1>3, <1>5, <2>1, <2>2
<1> QED
  BY <1>2, <1>5, <1>8

\* Both facts of the tops of what is rendered.
LEMMA RenderedTopsMeet ==
  ASSUME stage = "render" => Rendered
  PROVE  TopsMeet
<1> SUFFICES ASSUME stage = "render", aligned.clip["a"].warpTop # None
             PROVE  LET A == [v \in Clips |-> aligned.clip[v].anchors]
                        S(v) == A[v].impact - aligned.clip[v].warpTop
                    IN /\ Distance(S("a") * A["b"].fps, S("b") * A["a"].fps)
                            < Larger(A["a"].fps, A["b"].fps)
                       /\ A["a"].heard /\ A["b"].heard =>
                            \E v \in Clips :
                              /\ aligned.clip[v].warpTop = A[v].top
                              /\ A[Other(v)].top - aligned.clip[Other(v)].warpTop \in
                                   {aligned.clip[Other(v)].lateBy, 0}
  BY DEF TopsMeet
<1>1. PICK A : Viewed(A) /\ aligned = AlignSwings(A)
  BY DEF Rendered
<1>2. /\ Both(A) /\ A \in [Clips -> SwingAnchors]
      /\ \A v \in Clips : /\ aligned.clip[v].anchors = A[v]
                          /\ aligned.clip[v].warpTop = SharedTops(A)[v]
                          /\ aligned.clip[v].lateBy = LateBy(A, v)
  BY <1>1 DEF AlignSwings, Viewed, Both
<1>3. [v \in Clips |-> aligned.clip[v].anchors] = A
  BY <1>2
<1>4. SharedTops(A)["a"] # None
  BY <1>2 DEF Clips
<1>5. \A v \in Clips : SharedTops(A)[v] = TopAt(A, v, TopsFrom(A))
  BY <1>2, <1>4, TopsMoveTogether DEF Clips
<1>6. TopsDisagree(A)
  BY <1>2, <1>4, TopsMoveTogether DEF Clips
<1>7. Distance(Span(A, "a") * A["b"].fps, Span(A, "b") * A["a"].fps)
        < Larger(A["a"].fps, A["b"].fps)
  <2>1. /\ A["a"].fps \in Nat /\ A["b"].fps \in Nat
        /\ Downswing(A["a"]) \in Nat /\ Downswing(A["b"]) \in Nat
    BY <1>2, <1>6, TimedRates, DownswingIsPositive DEF TopsDisagree, Clips
  <2>2. CASE TopsFrom(A) = "a"
    <3>1. /\ Span(A, "a") = Downswing(A["a"]) /\ Span(A, "b") \in Nat
          /\ Distance(Span(A, "b") * A["a"].fps, Downswing(A["a"]) * A["b"].fps) < A["a"].fps
      BY <1>2, <1>4, <2>2, SpansMeet DEF Clips, Other
    <3>2. PICK m \in Nat, n \in Nat :
            m = Span(A, "b") * A["a"].fps /\ n = Downswing(A["a"]) * A["b"].fps
      BY <2>1, <3>1, ProductIsNat
    <3>3. Distance(n, m) = Distance(m, n) /\ Distance(m, n) \in Nat
      BY DEF Distance
    <3> QED
      BY <2>1, <3>1, <3>2, <3>3 DEF Larger
  <2>3. CASE TopsFrom(A) = "b"
    <3>1. /\ Span(A, "b") = Downswing(A["b"]) /\ Span(A, "a") \in Nat
          /\ Distance(Span(A, "a") * A["b"].fps, Downswing(A["b"]) * A["a"].fps) < A["b"].fps
      BY <1>2, <1>4, <2>3, SpansMeet DEF Clips, Other
    <3>2. PICK m \in Nat, n \in Nat :
            m = Span(A, "a") * A["b"].fps /\ n = Downswing(A["b"]) * A["a"].fps
      BY <2>1, <3>1, ProductIsNat
    <3>3. Distance(m, n) \in Nat
      BY DEF Distance
    <3> QED
      BY <2>1, <3>1, <3>2, <3>3 DEF Larger
  <2> QED
    BY <2>2, <2>3, LateIsAClip DEF Clips
<1>8. ASSUME A["a"].heard, A["b"].heard
      PROVE  \E v \in Clips :
               /\ SharedTops(A)[v] = A[v].top
               /\ A[Other(v)].top - SharedTops(A)[Other(v)] \in {LateBy(A, Other(v)), 0}
  <2>1. PICK w \in Clips : w = LateView(A)
    BY <1>6, <1>8 DEF LateView, Clips
  <2>2. Other(w) = TopsFrom(A) /\ Span(A, w) >= Downswing(A[w])
    BY <1>2, <1>4, <2>1, LateTopMovesBack
  <2>3. Other(w) \in Clips /\ Other(Other(w)) = w
    BY TheOtherIsAClip
  <2>4. SharedTops(A)[Other(w)] = A[Other(w)].top
    <3>1. Span(A, Other(w)) = Downswing(A[Other(w)])
      BY <1>2, <1>4, <2>2, <2>3, SpansMeet
    <3>2. /\ A[Other(w)].impact \in Nat /\ A[Other(w)].top \in Nat
          /\ TopAt(A, Other(w), TopsFrom(A)) \in Nat
      BY <1>2, <1>6, <2>3, DownswingIsPositive, TopAtBeforeImpact, LateIsAClip
    <3> QED
      BY <1>5, <2>3, <3>1, <3>2 DEF Span, Downswing
  <2>5. A[w].top - SharedTops(A)[w] \in {LateBy(A, w), 0}
    <3>1. /\ A[w].impact \in Nat /\ A[w].top \in Nat /\ TopAt(A, w, TopsFrom(A)) \in Nat
      BY <1>2, <1>6, DownswingIsPositive, TopAtBeforeImpact, LateIsAClip
    <3>2. A[w].top - TopAt(A, w, TopsFrom(A)) >= 0
      BY <2>2, <3>1 DEF Span, Downswing
    <3>3. LateBy(A, w) = IF A[w].top - TopAt(A, w, TopsFrom(A)) > 0
                         THEN A[w].top - TopAt(A, w, TopsFrom(A)) ELSE None
      BY <2>1, <2>2 DEF LateBy
    <3> QED
      BY <1>5, <3>1, <3>2, <3>3
  <2> QED
    BY <2>3, <2>4, <2>5
<1>9. \A v \in Clips : Span(A, v) = A[v].impact - SharedTops(A)[v]
  BY <1>5 DEF Span
<1>10. "a" \in Clips /\ "b" \in Clips
  BY DEF Clips
<1> QED
  BY <1>2, <1>3, <1>7, <1>8, <1>9, <1>10, TheOtherIsAClip

-----------------------------------------------------------------------------
(* The frames that are shown. *)

Fraction(p) == \E n \in Int, d \in Nat \ {0} : p = <<n, d>>

\* The warp divides by positive numbers of frames,
LEMMA RatesArePositive ==
  ASSUME NEW c, Pinned(c)
  PROVE  After(c) \in Nat \ {0} /\ Before(c) \in Nat \ {0}
BY DEF Pinned, InOrder, SwingAnchors, After, Before

\* so taus are fractions,
LEMMA TauIsAFraction ==
  ASSUME NEW c, Pinned(c), NEW frame \in Int
  PROVE  Fraction(TauOf(c, frame))
<1>1. After(c) \in Nat \ {0} /\ Before(c) \in Nat \ {0} /\ c.top \in Nat
  BY RatesArePositive DEF Pinned
<1>2. PICK rate \in Nat \ {0} : TauOf(c, frame) = <<rate + frame - c.top, rate>>
  BY <1>1 DEF TauOf
<1>3. rate + frame - c.top \in Int
  BY <1>1
<1> QED
  BY <1>2, <1>3 DEF Fraction

\* and so are frames.
LEMMA FrameIsAFraction ==
  ASSUME NEW c, Pinned(c), NEW tau, Fraction(tau)
  PROVE  Fraction(FrameOf(c, tau))
<1>1. After(c) \in Nat \ {0} /\ Before(c) \in Nat \ {0} /\ c.top \in Nat
  BY RatesArePositive DEF Pinned
<1>2. PICK n \in Int, d \in Nat \ {0} : tau = <<n, d>>
  BY DEF Fraction
<1>3. PICK rate \in Nat \ {0} : FrameOf(c, tau) = <<c.top * d + (n - d) * rate, d>>
  BY <1>1, <1>2 DEF FrameOf
<1>4. c.top * d + (n - d) * rate \in Int
  BY <1>1
<1> QED
  BY <1>2, <1>3, <1>4 DEF Fraction

\* The lead's frames are numbers.
LEMMA StepsAreFrames ==
  ASSUME NEW w, \A v \in Clips : Pinned(w.clip[v]), NEW lead \in Clips,
         NEW step \in Steps(w, lead, Lengths)
  PROVE  step \in Int
<1> DEFINE c == w.clip[lead]
           low == FrameOf(c, MaxOf(Overlap(w).low, Shown.low))
           high == FrameOf(c, MinOf(Overlap(w).high, Shown.high))
           first == Larger(0, low[1] \div low[2])
           last == Smaller(Lengths[lead] - 1, high[1] \div high[2])
<1>1. "a" \in Clips /\ "b" \in Clips
  BY DEF Clips
<1>2. ASSUME NEW v \in Clips
      PROVE  /\ Fraction(TauOf(w.clip[v], 0))
             /\ Fraction(TauOf(w.clip[v], LastFrame(w.clip[v].anchors)))
  <2>1. LastFrame(w.clip[v].anchors) \in Int
    BY DEF Pinned, InOrder, SwingAnchors, LastFrame
  <2> QED
    BY <2>1, TauIsAFraction
<1>3. Fraction(Shown.low) /\ Fraction(Shown.high)
  BY DEF Fraction, Shown
<1>4. ASSUME NEW p, NEW q, Fraction(p), Fraction(q)
      PROVE  Fraction(MaxOf(p, q)) /\ Fraction(MinOf(p, q))
  BY <1>4 DEF MaxOf, MinOf
<1>5. Fraction(Overlap(w).low) /\ Fraction(Overlap(w).high)
  BY <1>1, <1>2, <1>4 DEF Overlap
<1>6. Fraction(low) /\ Fraction(high)
  BY <1>3, <1>4, <1>5, FrameIsAFraction
<1>7. low[1] \div low[2] \in Int /\ high[1] \div high[2] \in Int
  <2>1. ASSUME NEW p, Fraction(p) PROVE p[1] \div p[2] \in Int
    BY <2>1 DEF Fraction
  <2> QED
    BY <1>6, <2>1
<1>8. Lengths[lead] = Longest + 1 /\ Longest \in Nat
  BY TimingConstants DEF Lengths
<1>9. first \in Int /\ last \in Int
  BY <1>7, <1>8 DEF Larger, Smaller
<1>10. step \in IF last <= first THEN {} ELSE first..last
  BY DEF Steps
<1> HIDE DEF first, last
<1> QED
  BY <1>9, <1>10

\* A frame that is not held at an end of its clip is the rounded one.
LEMMA FreeIsRounded ==
  ASSUME NEW n \in Int, NEW d \in Nat \ {0},
         ClampIndex(<<n, d>>, Longest + 1) \notin {0, Longest}
  PROVE  /\ ClampIndex(<<n, d>>, Longest + 1) \in Int
         /\ 2 * (ClampIndex(<<n, d>>, Longest + 1) * d - n) <= d
         /\ 2 * (n - ClampIndex(<<n, d>>, Longest + 1) * d) <= d
<1>1. PICK k : k = Round(n, d)
  OBVIOUS
<1>2. k \in Int /\ 2 * (k * d - n) <= d /\ 2 * (n - k * d) <= d
  BY <1>1, RoundNear
<1>3. ClampIndex(<<n, d>>, Longest + 1) = Larger(0, Smaller(Longest, k))
  BY <1>1, TimingConstants DEF ClampIndex
<1>4. ClampIndex(<<n, d>>, Longest + 1) = k
  BY <1>2, <1>3, TimingConstants DEF Larger, Smaller
<1> QED
  BY <1>2, <1>4

\* n frames of the lead and m of the follower, e half frames of rounding between them,
\* at rates within a tenth of the clips' own.
LEMMA Stretch ==
  ASSUME NEW q \in Nat \ {0}, NEW r \in Nat \ {0}, NEW f \in Nat \ {0}, NEW g \in Nat \ {0},
         NEW m \in Int, NEW n \in Nat, NEW e \in Nat,
         9 * (q * g) <= 10 * (r * f), 9 * (r * f) <= 10 * (q * g),
         2 * (m * q - n * r) <= e * q, 2 * (n * r - m * q) <= e * q
  PROVE  /\ 18 * (n * g) - 10 * (e * f) <= 20 * (m * f)
         /\ 18 * (m * f) <= 20 * (n * g) + 9 * (e * f)
<1>1. /\ m * f \in Int /\ n * g \in Int /\ e * f \in Int /\ q * g \in Int /\ r * f \in Int
      /\ m * q \in Int /\ n * r \in Int /\ e * q \in Int
  OBVIOUS
<1>2. 2 * (q * (m * f)) - 2 * (n * (r * f)) <= q * (e * f)
  <2>1. f * (2 * (m * q - n * r)) <= f * (e * q)
    BY <1>1
  <2>2. f * (2 * (m * q - n * r)) = 2 * (q * (m * f)) - 2 * (n * (r * f))
    OBVIOUS
  <2>3. f * (e * q) = q * (e * f)
    OBVIOUS
  <2> QED
    BY <2>1, <2>2, <2>3
<1>3. 2 * (n * (r * f)) - 2 * (q * (m * f)) <= q * (e * f)
  <2>1. f * (2 * (n * r - m * q)) <= f * (e * q)
    BY <1>1
  <2>2. f * (2 * (n * r - m * q)) = 2 * (n * (r * f)) - 2 * (q * (m * f))
    OBVIOUS
  <2>3. f * (e * q) = q * (e * f)
    OBVIOUS
  <2> QED
    BY <2>1, <2>2, <2>3
<1>4. 9 * (q * (n * g)) <= 10 * (n * (r * f)) /\ 9 * (n * (r * f)) <= 10 * (q * (n * g))
  <2>1. n * (9 * (q * g)) <= n * (10 * (r * f)) /\ n * (9 * (r * f)) <= n * (10 * (q * g))
    BY <1>1
  <2>2. /\ n * (9 * (q * g)) = 9 * (q * (n * g)) /\ n * (10 * (r * f)) = 10 * (n * (r * f))
        /\ n * (9 * (r * f)) = 9 * (n * (r * f)) /\ n * (10 * (q * g)) = 10 * (q * (n * g))
    OBVIOUS
  <2> QED
    BY <2>1, <2>2
<1>5. PICK M \in Int, N \in Int, E \in Int, R \in Int :
        M = q * (m * f) /\ N = q * (n * g) /\ E = q * (e * f) /\ R = n * (r * f)
  BY <1>1
<1>6. 18 * N - 10 * E <= 20 * M /\ 18 * M <= 20 * N + 9 * E
  BY <1>2, <1>3, <1>4, <1>5
<1>7. PICK x \in Int, y \in Int, z \in Int : x = m * f /\ y = n * g /\ z = e * f
  BY <1>1
<1>8. /\ q * (18 * y - 10 * z) = 18 * N - 10 * E /\ q * (20 * x) = 20 * M
      /\ q * (18 * x) = 18 * M /\ q * (20 * y + 9 * z) = 20 * N + 9 * E
  BY <1>5, <1>7
<1>9. 18 * y - 10 * z <= 20 * x /\ 18 * x <= 20 * y + 9 * z
  BY <1>6, <1>8, Cancel
<1> QED
  BY <1>7, <1>9

\* The warp plays the follower at a rate of its own on each side of the top.
LEMMA WarpedFrame ==
  ASSUME NEW c, Pinned(c), NEW d, Pinned(d), NEW step \in Int
  PROVE  FrameOf(d, TauOf(c, step)) =
           IF step >= c.top THEN <<d.top * After(c) + (step - c.top) * After(d), After(c)>>
           ELSE <<d.top * Before(c) + (step - c.top) * Before(d), Before(c)>>
<1>1. /\ After(c) \in Nat \ {0} /\ Before(c) \in Nat \ {0} /\ c.top \in Nat
      /\ After(d) \in Nat \ {0} /\ Before(d) \in Nat \ {0} /\ d.top \in Nat
  BY RatesArePositive DEF Pinned
<1>2. CASE step >= c.top
  <2>1. TauOf(c, step) = <<After(c) + step - c.top, After(c)>>
    BY <1>2 DEF TauOf
  <2>2. /\ After(c) + step - c.top >= After(c)
        /\ (After(c) + step - c.top) - After(c) = step - c.top
    BY <1>1, <1>2
  <2> QED
    BY <1>2, <2>1, <2>2 DEF FrameOf
<1>3. CASE ~(step >= c.top)
  <2>1. TauOf(c, step) = <<Before(c) + step - c.top, Before(c)>>
    BY <1>3 DEF TauOf
  <2>2. /\ ~(Before(c) + step - c.top >= Before(c))
        /\ (Before(c) + step - c.top) - Before(c) = step - c.top
    BY <1>1, <1>3
  <2> QED
    BY <1>3, <2>1, <2>2 DEF FrameOf
<1> QED
  BY <1>2, <1>3

\* Speeds that are not a tenth apart.
LEMMA NoGapOfATenth ==
  ASSUME NEW m \in Nat, NEW n \in Nat, ~Gap(m, n, 10)
  PROVE  9 * n <= 10 * m /\ 9 * m <= 10 * n
BY DEF Gap, Distance, Larger

\* The warp is kept only when both its speeds are within a tenth.
LEMMA SoftSpeeds ==
  ASSUME NEW w, \A v \in Clips : Pinned(w.clip[v]), NEW lead \in Clips, NEW c, NEW d,
         c = w.clip[lead], d = w.clip[Other(lead)],
         c.anchors.fps # None, d.anchors.fps # None, ~Rigid(w, lead)
  PROVE  /\ 9 * (After(c) * d.anchors.fps) <= 10 * (After(d) * c.anchors.fps)
         /\ 9 * (After(d) * c.anchors.fps) <= 10 * (After(c) * d.anchors.fps)
         /\ 9 * (Before(c) * d.anchors.fps) <= 10 * (Before(d) * c.anchors.fps)
         /\ 9 * (Before(d) * c.anchors.fps) <= 10 * (Before(c) * d.anchors.fps)
<1>1. Pinned(c) /\ Pinned(d)
  BY TheOtherIsAClip
<1>2. c.anchors.fps \in Nat /\ d.anchors.fps \in Nat
  BY <1>1 DEF Pinned, InOrder, SwingAnchors
<1>3. /\ After(c) \in Nat /\ Before(c) \in Nat /\ After(d) \in Nat /\ Before(d) \in Nat
  BY <1>1, RatesArePositive
<1>4. /\ After(c) * d.anchors.fps \in Nat /\ After(d) * c.anchors.fps \in Nat
      /\ Before(c) * d.anchors.fps \in Nat /\ Before(d) * c.anchors.fps \in Nat
  BY <1>2, <1>3, ProductIsNat
<1>5. Speeds(w, lead) = {<<Before(d) * c.anchors.fps, Before(c) * d.anchors.fps>>,
                         <<After(d) * c.anchors.fps, After(c) * d.anchors.fps>>}
  BY DEF Speeds
<1>6. /\ ~Gap(Before(d) * c.anchors.fps, Before(c) * d.anchors.fps, 10)
      /\ ~Gap(After(d) * c.anchors.fps, After(c) * d.anchors.fps, 10)
  BY <1>5 DEF Rigid
<1> QED
  BY <1>4, <1>6, NoGapOfATenth

\* m is one of the frames nearest n / d.
Rounded(m, n, d) == 2 * (m * d - n) <= d /\ 2 * (n - m * d) <= d

\* What HonestSpeed says of two frames.
Honest(moved, native, lfps) ==
  9 * native - 10 * lfps <= 10 * moved /\ 9 * moved <= 10 * native + 9 * lfps

\* Aligned on the strike alone, the clips are played at their own rates.
LEMMA RigidIsHonest ==
  ASSUME NEW f \in Nat \ {0}, NEW g \in Nat \ {0}, NEW z \in Int, NEW t \in Int,
         NEW i \in Int, NEW k \in Int, i < k, NEW m \in Int, NEW n \in Int,
         Rounded(m, z * f + (i - t) * g, f), Rounded(n, z * f + (k - t) * g, f)
  PROVE  Honest((n - m) * f, (k - i) * g, f)
<1>1. /\ z * f \in Int /\ m * f \in Int /\ n * f \in Int
      /\ (i - t) * g \in Int /\ (k - t) * g \in Int
  OBVIOUS
<1>2. (n - m) * f = n * f - m * f /\ (k - i) * g = (k - t) * g - (i - t) * g
  OBVIOUS
<1>3. (k - i) * g >= 0
  OBVIOUS
<1> QED
  BY <1>1, <1>2, <1>3 DEF Honest, Rounded

\* The warp, between two frames: both behind the top, both before it, or one on each side.
LEMMA WarpIsHonest ==
  ASSUME NEW f \in Nat \ {0}, NEW g \in Nat \ {0}, NEW t \in Nat, NEW s \in Nat,
         NEW q \in Nat \ {0}, NEW r \in Nat \ {0}, NEW p \in Nat \ {0}, NEW o \in Nat \ {0},
         9 * (q * g) <= 10 * (r * f), 9 * (r * f) <= 10 * (q * g),
         9 * (p * g) <= 10 * (o * f), 9 * (o * f) <= 10 * (p * g),
         NEW i \in Int, NEW k \in Int, i < k, NEW m \in Int, NEW n \in Int,
         IF i >= t THEN Rounded(m, s * q + (i - t) * r, q) ELSE Rounded(m, s * p + (i - t) * o, p),
         IF k >= t THEN Rounded(n, s * q + (k - t) * r, q) ELSE Rounded(n, s * p + (k - t) * o, p)
  PROVE  Honest((n - m) * f, (k - i) * g, f)
<1> DEFINE native == (k - i) * g
           moved == (n - m) * f
<1>2. ASSUME i >= t PROVE 18 * native - 20 * f <= 20 * moved /\ 18 * moved <= 20 * native + 18 * f
  <2>1. /\ 2 * ((n - m) * q - (k - i) * r) <= 2 * q
        /\ 2 * ((k - i) * r - (n - m) * q) <= 2 * q
    <3>1. /\ 2 * (m * q - (s * q + (i - t) * r)) <= q
          /\ 2 * ((s * q + (i - t) * r) - m * q) <= q
          /\ 2 * (n * q - (s * q + (k - t) * r)) <= q
          /\ 2 * ((s * q + (k - t) * r) - n * q) <= q
      BY <1>2 DEF Rounded
    <3>2. /\ m * q \in Int /\ n * q \in Int /\ s * q \in Int
          /\ (i - t) * r \in Int /\ (k - t) * r \in Int
      OBVIOUS
    <3>3. (n - m) * q = n * q - m * q /\ (k - i) * r = (k - t) * r - (i - t) * r
      OBVIOUS
    <3> QED
      BY <3>1, <3>2, <3>3
  <2>2. n - m \in Int /\ k - i \in Nat
    OBVIOUS
  <2>3. 18 * native - 10 * (2 * f) <= 20 * moved /\ 18 * moved <= 20 * native + 9 * (2 * f)
    BY <2>1, <2>2, Stretch
  <2>4. native \in Int /\ moved \in Int
    OBVIOUS
  <2> HIDE DEF native, moved
  <2> QED
    BY <2>3, <2>4
<1>3. ASSUME ~(k >= t) PROVE 18 * native - 20 * f <= 20 * moved /\ 18 * moved <= 20 * native + 18 * f
  <2>1. /\ 2 * ((n - m) * p - (k - i) * o) <= 2 * p
        /\ 2 * ((k - i) * o - (n - m) * p) <= 2 * p
    <3>1. /\ 2 * (m * p - (s * p + (i - t) * o)) <= p
          /\ 2 * ((s * p + (i - t) * o) - m * p) <= p
          /\ 2 * (n * p - (s * p + (k - t) * o)) <= p
          /\ 2 * ((s * p + (k - t) * o) - n * p) <= p
      BY <1>3 DEF Rounded
    <3>2. /\ m * p \in Int /\ n * p \in Int /\ s * p \in Int
          /\ (i - t) * o \in Int /\ (k - t) * o \in Int
      OBVIOUS
    <3>3. (n - m) * p = n * p - m * p /\ (k - i) * o = (k - t) * o - (i - t) * o
      OBVIOUS
    <3> QED
      BY <3>1, <3>2, <3>3
  <2>2. n - m \in Int /\ k - i \in Nat
    OBVIOUS
  <2>3. 18 * native - 10 * (2 * f) <= 20 * moved /\ 18 * moved <= 20 * native + 9 * (2 * f)
    BY <2>1, <2>2, Stretch
  <2>4. native \in Int /\ moved \in Int
    OBVIOUS
  <2> HIDE DEF native, moved
  <2> QED
    BY <2>3, <2>4
<1>4. ASSUME ~(i >= t), k >= t PROVE 18 * native - 20 * f <= 20 * moved /\ 18 * moved <= 20 * native + 18 * f
  <2>1. /\ 2 * ((n - s) * q - (k - t) * r) <= 1 * q
        /\ 2 * ((k - t) * r - (n - s) * q) <= 1 * q
    <3>1. /\ 2 * (n * q - (s * q + (k - t) * r)) <= q
          /\ 2 * ((s * q + (k - t) * r) - n * q) <= q
      BY <1>4 DEF Rounded
    <3>2. n * q \in Int /\ s * q \in Int /\ (k - t) * r \in Int /\ (n - s) * q = n * q - s * q
      OBVIOUS
    <3> QED
      BY <3>1, <3>2
  <2>2. /\ 2 * ((s - m) * p - (t - i) * o) <= 1 * p
        /\ 2 * ((t - i) * o - (s - m) * p) <= 1 * p
    <3>1. /\ 2 * (m * p - (s * p + (i - t) * o)) <= p
          /\ 2 * ((s * p + (i - t) * o) - m * p) <= p
      BY <1>4 DEF Rounded
    <3>2. /\ m * p \in Int /\ s * p \in Int /\ (i - t) * o \in Int
          /\ (s - m) * p = s * p - m * p /\ (t - i) * o = -((i - t) * o)
      OBVIOUS
    <3> QED
      BY <3>1, <3>2
  <2>3. n - s \in Int /\ k - t \in Nat /\ s - m \in Int /\ t - i \in Nat
    BY <1>4
  <2>4. /\ 18 * ((k - t) * g) - 10 * (1 * f) <= 20 * ((n - s) * f)
        /\ 18 * ((n - s) * f) <= 20 * ((k - t) * g) + 9 * (1 * f)
    BY <2>1, <2>3, Stretch
  <2>5. /\ 18 * ((t - i) * g) - 10 * (1 * f) <= 20 * ((s - m) * f)
        /\ 18 * ((s - m) * f) <= 20 * ((t - i) * g) + 9 * (1 * f)
    BY <2>2, <2>3, Stretch
  <2>6. /\ native = (k - t) * g + (t - i) * g /\ moved = (n - s) * f + (s - m) * f
        /\ (k - t) * g \in Int /\ (t - i) * g \in Int /\ (n - s) * f \in Int /\ (s - m) * f \in Int
    OBVIOUS
  <2> HIDE DEF native, moved
  <2> QED
    BY <2>4, <2>5, <2>6
<1>5. 18 * native - 20 * f <= 20 * moved /\ 18 * moved <= 20 * native + 18 * f
  <2>1. i >= t => k >= t
    OBVIOUS
  <2> HIDE DEF native, moved
  <2> QED
    BY <1>2, <1>3, <1>4, <2>1
<1>6. native \in Int /\ moved \in Int
  OBVIOUS
<1> HIDE DEF native, moved
<1>7. Honest(moved, native, f)
  BY <1>5, <1>6 DEF Honest
<1> QED
  BY <1>7 DEF native, moved

\* A frame of the follower that is not held at an end is the one nearest to where the
\* warp, or its clip's own rate, puts it.
LEMMA ShownIsRounded ==
  ASSUME NEW w, \A v \in Clips : Pinned(w.clip[v]), NEW lead \in Clips, NEW c, NEW d,
         c = w.clip[lead], d = w.clip[Other(lead)],
         c.anchors.fps # None, d.anchors.fps # None,
         NEW step \in Int, NEW m, m = ClampIndex(Follows(w, lead, step), Longest + 1),
         m \notin {0, Longest}
  PROVE  /\ m \in Int
         /\ Rigid(w, lead) =>
              Rounded(m, d.anchors.impact * c.anchors.fps + (step - c.anchors.impact) * d.anchors.fps,
                      c.anchors.fps)
         /\ ~Rigid(w, lead) =>
              IF step >= c.top
              THEN Rounded(m, d.top * After(c) + (step - c.top) * After(d), After(c))
              ELSE Rounded(m, d.top * Before(c) + (step - c.top) * Before(d), Before(c))
<1>1. Pinned(c) /\ Pinned(d)
  BY TheOtherIsAClip
<1>2. /\ c.anchors.fps \in Nat \ {0} /\ d.anchors.fps \in Nat \ {0}
      /\ c.anchors.impact \in Nat /\ d.anchors.impact \in Nat /\ c.top \in Nat /\ d.top \in Nat
  BY <1>1 DEF Pinned, InOrder, SwingAnchors
<1>3. /\ After(c) \in Nat \ {0} /\ Before(c) \in Nat \ {0}
      /\ After(d) \in Nat \ {0} /\ Before(d) \in Nat \ {0}
  BY <1>1, RatesArePositive
<1>4. ASSUME NEW n \in Int, NEW q \in Nat \ {0}, Follows(w, lead, step) = <<n, q>>
      PROVE  m \in Int /\ Rounded(m, n, q)
  BY <1>4, FreeIsRounded DEF Rounded
<1>5. CASE Rigid(w, lead)
  <2>1. Follows(w, lead, step) =
          <<d.anchors.impact * c.anchors.fps + (step - c.anchors.impact) * d.anchors.fps,
            c.anchors.fps>>
    BY <1>5 DEF Follows
  <2>2. d.anchors.impact * c.anchors.fps + (step - c.anchors.impact) * d.anchors.fps \in Int
    BY <1>2
  <2> QED
    BY <1>2, <1>4, <1>5, <2>1, <2>2
<1>6. CASE ~Rigid(w, lead) /\ step >= c.top
  <2>1. Follows(w, lead, step) = <<d.top * After(c) + (step - c.top) * After(d), After(c)>>
    BY <1>1, <1>6, WarpedFrame DEF Follows
  <2>2. d.top * After(c) + (step - c.top) * After(d) \in Int
    BY <1>2, <1>3
  <2> QED
    BY <1>3, <1>4, <1>6, <2>1, <2>2
<1>7. CASE ~Rigid(w, lead) /\ ~(step >= c.top)
  <2>1. Follows(w, lead, step) = <<d.top * Before(c) + (step - c.top) * Before(d), Before(c)>>
    BY <1>1, <1>7, WarpedFrame DEF Follows
  <2>2. d.top * Before(c) + (step - c.top) * Before(d) \in Int
    BY <1>2, <1>3
  <2> QED
    BY <1>3, <1>4, <1>7, <2>1, <2>2
<1> QED
  BY <1>5, <1>6, <1>7

\* Two frames of the follower, each rounded, are as far apart as HonestSpeed allows.
LEMMA PairedIsHonest ==
  ASSUME NEW w, \A v \in Clips : Pinned(w.clip[v]), NEW lead \in Clips, NEW c, NEW d,
         c = w.clip[lead], d = w.clip[Other(lead)],
         c.anchors.fps # None, d.anchors.fps # None,
         NEW i \in Int, NEW k \in Int, i < k, NEW m, NEW n,
         m = ClampIndex(Follows(w, lead, i), Longest + 1), m \notin {0, Longest},
         n = ClampIndex(Follows(w, lead, k), Longest + 1), n \notin {0, Longest}
  PROVE  Honest((n - m) * c.anchors.fps, (k - i) * d.anchors.fps, c.anchors.fps)
<1>1. Pinned(c) /\ Pinned(d)
  BY TheOtherIsAClip
<1>2. /\ c.anchors.fps \in Nat \ {0} /\ d.anchors.fps \in Nat \ {0}
      /\ c.anchors.impact \in Nat /\ d.anchors.impact \in Nat /\ c.top \in Nat /\ d.top \in Nat
  BY <1>1 DEF Pinned, InOrder, SwingAnchors
<1>3. /\ After(c) \in Nat \ {0} /\ Before(c) \in Nat \ {0}
      /\ After(d) \in Nat \ {0} /\ Before(d) \in Nat \ {0}
  BY <1>1, RatesArePositive
<1>4. /\ m \in Int
      /\ Rigid(w, lead) =>
           Rounded(m, d.anchors.impact * c.anchors.fps + (i - c.anchors.impact) * d.anchors.fps,
                   c.anchors.fps)
      /\ ~Rigid(w, lead) =>
           IF i >= c.top
           THEN Rounded(m, d.top * After(c) + (i - c.top) * After(d), After(c))
           ELSE Rounded(m, d.top * Before(c) + (i - c.top) * Before(d), Before(c))
  BY ShownIsRounded
<1>5. /\ n \in Int
      /\ Rigid(w, lead) =>
           Rounded(n, d.anchors.impact * c.anchors.fps + (k - c.anchors.impact) * d.anchors.fps,
                   c.anchors.fps)
      /\ ~Rigid(w, lead) =>
           IF k >= c.top
           THEN Rounded(n, d.top * After(c) + (k - c.top) * After(d), After(c))
           ELSE Rounded(n, d.top * Before(c) + (k - c.top) * Before(d), Before(c))
  BY ShownIsRounded
<1>6. CASE Rigid(w, lead)
  <2>1. /\ d.anchors.impact \in Int /\ c.anchors.impact \in Int
    BY <1>2
  <2> QED
    BY <1>2, <1>4, <1>5, <1>6, <2>1, RigidIsHonest
<1>7. CASE ~Rigid(w, lead)
  <2>1. /\ 9 * (After(c) * d.anchors.fps) <= 10 * (After(d) * c.anchors.fps)
        /\ 9 * (After(d) * c.anchors.fps) <= 10 * (After(c) * d.anchors.fps)
        /\ 9 * (Before(c) * d.anchors.fps) <= 10 * (Before(d) * c.anchors.fps)
        /\ 9 * (Before(d) * c.anchors.fps) <= 10 * (Before(c) * d.anchors.fps)
    BY <1>7, SoftSpeeds
  <2>2. PICK f \in Nat \ {0}, g \in Nat \ {0}, t \in Nat, s \in Nat :
          f = c.anchors.fps /\ g = d.anchors.fps /\ t = c.top /\ s = d.top
    BY <1>2
  <2>3. PICK q \in Nat \ {0}, r \in Nat \ {0}, p \in Nat \ {0}, o \in Nat \ {0} :
          q = After(c) /\ r = After(d) /\ p = Before(c) /\ o = Before(d)
    BY <1>3
  <2>4. /\ 9 * (q * g) <= 10 * (r * f) /\ 9 * (r * f) <= 10 * (q * g)
        /\ 9 * (p * g) <= 10 * (o * f) /\ 9 * (o * f) <= 10 * (p * g)
    BY <2>1, <2>2, <2>3
  <2>5. /\ m \in Int /\ n \in Int
        /\ IF i >= t THEN Rounded(m, s * q + (i - t) * r, q)
                     ELSE Rounded(m, s * p + (i - t) * o, p)
        /\ IF k >= t THEN Rounded(n, s * q + (k - t) * r, q)
                     ELSE Rounded(n, s * p + (k - t) * o, p)
    BY <1>4, <1>5, <1>7, <2>2, <2>3
  <2>6. Honest((n - m) * f, (k - i) * g, f)
    BY ONLY i \in Int, k \in Int, i < k, <2>4, <2>5, WarpIsHonest
  <2> QED
    BY <2>2, <2>6
<1> QED
  BY <1>6, <1>7

\* HonestSpeed, of clips pinned to instants in order.
LEMMA PinnedIsHonest ==
  ASSUME stage = "render" => \A v \in Clips : Pinned(aligned.clip[v])
  PROVE  HonestSpeed
<1> SUFFICES ASSUME stage = "render", NEW lead \in Clips
             PROVE  LET shown == PairFrames(aligned, lead, Lengths)
                        lfps == aligned.clip[lead].anchors.fps
                        ffps == aligned.clip[Other(lead)].anchors.fps
                        Free(i) == shown[i] \notin {0, Longest}
                    IN lfps # None /\ ffps # None =>
                         \A i, k \in DOMAIN shown : i < k /\ Free(i) /\ Free(k) =>
                           Honest((shown[k] - shown[i]) * lfps, (k - i) * ffps, lfps)
  BY DEF HonestSpeed, Honest
<1> DEFINE shown == PairFrames(aligned, lead, Lengths)
           c == aligned.clip[lead]
           d == aligned.clip[Other(lead)]
<1>1. \A v \in Clips : Pinned(aligned.clip[v])
  OBVIOUS
<1>2. /\ DOMAIN shown = Steps(aligned, lead, Lengths)
      /\ \A i \in DOMAIN shown : /\ shown[i] = ClampIndex(Follows(aligned, lead, i), Longest + 1)
                                 /\ i \in Int
  BY <1>1, StepsAreFrames, TheOtherIsAClip DEF PairFrames, Lengths
<1> SUFFICES ASSUME c.anchors.fps # None, d.anchors.fps # None,
                    NEW i \in DOMAIN shown, NEW k \in DOMAIN shown, i < k,
                    shown[i] \notin {0, Longest}, shown[k] \notin {0, Longest}
             PROVE  Honest((shown[k] - shown[i]) * c.anchors.fps, (k - i) * d.anchors.fps,
                           c.anchors.fps)
  OBVIOUS
<1>3. PICK m, n, x, y : m = shown[i] /\ n = shown[k] /\ x = c /\ y = d
  OBVIOUS
<1>4. Honest((n - m) * x.anchors.fps, (k - i) * y.anchors.fps, x.anchors.fps)
  <2> HIDE DEF shown
  <2> QED
    BY <1>1, <1>2, <1>3, PairedIsHonest
<1> QED
  BY <1>3, <1>4

-----------------------------------------------------------------------------
(* Least and greatest numbers. *)

\* A set of numbers has a least one,
LEMMA LeastNumber ==
  ASSUME NEW T \in SUBSET Nat, T # {}
  PROVE  \E n \in T : \A k \in T : n <= k
<1> DEFINE R == {ss \in Nat \X Nat : ss[1] < ss[2]}
<1>1. IsWellFoundedOn(R, Nat)
  BY NatLessThanWellFounded DEF OpToRel
<1>2. \A k, n \in Nat : k < n => <<k, n>> \in R
  BY DEF R
<1> HIDE DEF R
<1>3. PICK n \in T : \A k \in T : ~(<<k, n>> \in R)
  BY <1>1, WFMin
<1>4. \A k \in T : k \in Nat /\ n \in Nat /\ ~(k < n)
  BY <1>2, <1>3
<1>5. \A k \in T : n <= k
  BY <1>4
<1> QED
  BY <1>3, <1>5

\* and, below a bound, a greatest.
LEMMA GreatestNumber ==
  ASSUME NEW T \in SUBSET Nat, T # {}, NEW bound \in Nat, \A n \in T : n <= bound
  PROVE  \E n \in T : \A k \in T : n >= k
<1> DEFINE U == {m \in Nat : bound - m \in T}
<1>1. U \in SUBSET Nat
  OBVIOUS
<1>2. ASSUME NEW n \in T PROVE bound - n \in U
  <2>1. n \in Nat /\ n <= bound
    OBVIOUS
  <2>2. bound - n \in Nat /\ bound - (bound - n) = n
    BY <2>1
  <2> QED
    BY <2>2
<1> HIDE DEF U
<1>3. PICK m \in U : \A k \in U : m <= k
  BY <1>1, <1>2, LeastNumber
<1>4. m \in Nat /\ bound - m \in T
  BY <1>3 DEF U
<1>5. ASSUME NEW k \in T PROVE bound - m >= k
  <2>1. m <= bound - k /\ k \in Nat
    BY <1>2, <1>3
  <2> QED
    BY <1>4, <2>1
<1> QED
  BY <1>4, <1>5

\* Min is one of its set,
LEMMA MinIsOne ==
  ASSUME NEW T \in SUBSET Nat, T # {}
  PROVE  Min(T) \in T /\ \A k \in T : Min(T) <= k
BY LeastNumber DEF Min

\* and Max, below a bound.
LEMMA MaxIsOne ==
  ASSUME NEW T \in SUBSET Nat, T # {}, NEW bound \in Nat, \A n \in T : n <= bound
  PROVE  Max(T) \in T /\ \A k \in T : Max(T) >= k
BY GreatestNumber DEF Max

\* What holds of 0, and of each number after one it holds of, holds of them all.
LEMMA OneAfterAnother ==
  ASSUME NEW last \in Nat, NEW T, 0 \in T, \A i \in 0..last - 1 : i \in T => i + 1 \in T
  PROVE  \A i \in 0..last : i \in T
<1> DEFINE U == (0..last) \ T
<1> SUFFICES ASSUME U # {} PROVE FALSE
  OBVIOUS
<1>1. U \in SUBSET Nat
  OBVIOUS
<1> HIDE DEF U
<1>2. PICK n \in U : \A k \in U : n <= k
  BY <1>1, LeastNumber
<1> USE DEF U
<1>3. n # 0 /\ n \in 1..last
  BY <1>2
<1>4. n - 1 \in 0..last - 1 /\ n - 1 \notin U
  BY <1>2, <1>3
<1>5. n - 1 \in T
  BY <1>4
<1>6. (n - 1) + 1 \in T
  BY <1>4, <1>5
<1> QED
  BY <1>2, <1>3, <1>6

-----------------------------------------------------------------------------
(* The clip. *)

\* The position held at a frame is a frame's, and numbers can be read off it.
LEMMA HeldIsAFrame ==
  ASSUME NEW film \in Seq(Frame), NEW i \in Frames(film)
  PROVE  Y(film, i) \in Nat /\ Confident(film, i) \in BOOLEAN
<1> DEFINE K == {0} \cup {j \in 1..i : Confident(film, j)}
<1>1. i \in Nat /\ i < Len(film) /\ Len(film) \in Nat
  BY DEF Frames
<1>2. K \in SUBSET Nat /\ K # {} /\ \A k \in K : k <= i
  BY <1>1
<1> HIDE DEF K
<1>3. Max(K) \in K
  BY <1>1, <1>2, MaxIsOne
<1>4. PICK m \in K : m = Max(K)
  BY <1>3
<1>5. m + 1 \in 1..Len(film) /\ i + 1 \in 1..Len(film)
  BY <1>1, <1>2
<1>6. film[m + 1] \in Frame /\ film[i + 1] \in Frame
  BY <1>5
<1>7. Y(film, i) = film[m + 1].y
  BY <1>4 DEF Y, Held, K
<1> QED
  BY <1>6, <1>7 DEF Frame, Confident

-----------------------------------------------------------------------------
(* The scan. *)

IsScan(film, last, scan) ==
  scan = [i \in 0..last |-> IF i = 0 THEN Anew({}, None) ELSE Met(film, scan[i - 1], i - 1)]

\* The function that Scan names exists for a clip of any length,
LEMMA ScansExist ==
  ASSUME NEW film, NEW last \in Nat
  PROVE  \E scan : IsScan(film, last, scan)
<1> DEFINE T == {n \in 0..last : \E scan : IsScan(film, n, scan)}
<1>1. 0 \in T
  <2> DEFINE scan == [i \in 0..0 |-> Anew({}, None)]
  <2>1. IsScan(film, 0, scan)
    BY DEF IsScan
  <2> QED
    BY <2>1
<1>2. ASSUME NEW n \in 0..last - 1, n \in T PROVE n + 1 \in T
  <2>1. PICK scan : IsScan(film, n, scan)
    BY <1>2
  <2> DEFINE more == [i \in 0..n + 1 |-> IF i = n + 1 THEN Met(film, scan[n], n) ELSE scan[i]]
             again == [i \in 0..n + 1 |-> IF i = 0 THEN Anew({}, None)
                                          ELSE Met(film, more[i - 1], i - 1)]
  <2>2. ASSUME NEW i \in 0..n + 1 PROVE more[i] = again[i]
    <3>1. CASE i = n + 1
      <4>1. n + 1 # 0 /\ (n + 1) - 1 = n /\ n \in 0..n + 1 /\ n # n + 1
        OBVIOUS
      <4>2. more[n] = scan[n] /\ more[n + 1] = Met(film, scan[n], n)
        BY <4>1
      <4>3. again[n + 1] = Met(film, more[n], n)
        BY <4>1
      <4> QED
        BY <3>1, <4>2, <4>3
    <3>2. CASE i # n + 1
      <4>1. i \in 0..n
        BY <3>2
      <4>2. more[i] = scan[i]
        BY <3>2
      <4>3. scan[i] = IF i = 0 THEN Anew({}, None) ELSE Met(film, scan[i - 1], i - 1)
        BY <2>1, <4>1 DEF IsScan
      <4>4. i # 0 => i - 1 \in 0..n + 1 /\ i - 1 # n + 1
        BY <4>1
      <4>5. i # 0 => more[i - 1] = scan[i - 1]
        BY <4>4
      <4>6. again[i] = IF i = 0 THEN Anew({}, None) ELSE Met(film, more[i - 1], i - 1)
        OBVIOUS
      <4> QED
        BY <4>2, <4>3, <4>5, <4>6
    <3> QED
      BY <3>1, <3>2
  <2>3. more = again
    BY <2>2
  <2>4. IsScan(film, n + 1, more)
    BY <2>3 DEF IsScan
  <2>5. n + 1 \in 0..last
    OBVIOUS
  <2> QED
    BY <2>4, <2>5
<1> HIDE DEF T
<1>3. last \in T
  BY <1>1, <1>2, OneAfterAnother
<1> QED
  BY <1>3 DEF T

\* so Scan is its last value.
LEMMA ScanIsTheLast ==
  ASSUME NEW film, Len(film) \in Nat
  PROVE  \E scan : IsScan(film, Len(film), scan) /\ Scan(film) = scan[Len(film)]
<1>1. Scan(film) = (CHOOSE scan : IsScan(film, Len(film), scan))[Len(film)]
  BY DEF Scan, IsScan
<1>2. IsScan(film, Len(film), CHOOSE scan : IsScan(film, Len(film), scan))
  BY ScansExist
<1> QED
  BY <1>1, <1>2

-----------------------------------------------------------------------------
(* The descents of a clip. *)

Downswings == [top : Nat, impact : Nat]

\* From a frame to another the hands are at their highest at the first of the two and at
\* their lowest at the second, and both were seen.
Descends(film, from, to) ==
  /\ from \in Nat /\ to \in Frames(film) /\ from <= to
  /\ Confident(film, from) /\ Confident(film, to)

Between(film, from, to, last) ==
  \A f \in from..last : Confident(film, f) =>
    Y(film, from) <= Y(film, f) /\ Y(film, f) <= Y(film, to)

\* A run that has ended.
WholeRun(film, run) ==
  Descends(film, run.top, run.impact) /\ Between(film, run.top, run.impact, run.impact)

\* What the scan holds when n frames are met: runs that are whole and apart, and one more
\* that begins after them all.
Sound(film, s, n) ==
  /\ s \in [found : SUBSET Downswings, start : Nat \cup {None}, peak : Nat \cup {None}]
  /\ \A run \in s.found : WholeRun(film, run) /\ run.impact < n
  /\ Disjoint(s.found)
  /\ s.start # None =>
       /\ Descends(film, s.start, s.peak) /\ s.peak < n
       /\ Between(film, s.start, s.peak, n - 1)
       /\ \A run \in s.found : run.impact < s.start

\* A scan that begins anew keeps what has ended.
LEMMA AnewIsSound ==
  ASSUME NEW film \in Seq(Frame), NEW f \in Frames(film), Confident(film, f),
         NEW ended \in SUBSET Downswings, Disjoint(ended),
         \A run \in ended : WholeRun(film, run) /\ run.impact < f
  PROVE  Sound(film, Anew(ended, f), f + 1)
<1>1. f \in Nat
  BY DEF Frames
<1>2. PICK s : s = Anew(ended, f)
  OBVIOUS
<1>3. s.found = ended /\ s.start = f /\ s.peak = f
  BY <1>2 DEF Anew
<1>4. s \in [found : SUBSET Downswings, start : Nat \cup {None}, peak : Nat \cup {None}]
  BY <1>1, <1>2 DEF Anew
<1>5. Descends(film, f, f)
  BY <1>1 DEF Descends
<1>6. Between(film, f, f, f)
  BY <1>1, HeldIsAFrame DEF Between
<1>7. \A run \in ended : run.impact < f + 1
  BY <1>1 DEF Downswings
<1>8. (f + 1) - 1 = f /\ f < f + 1
  BY <1>1
<1> QED
  BY <1>2, <1>3, <1>4, <1>5, <1>6, <1>7, <1>8 DEF Sound

\* Lost frames take no part.
LEMMA LostIsSound ==
  ASSUME NEW film \in Seq(Frame), NEW f \in Frames(film), ~Confident(film, f),
         NEW s, Sound(film, s, f)
  PROVE  Sound(film, s, f + 1)
<1>1. f \in Nat /\ (f + 1) - 1 = f
  BY DEF Frames
<1>2. \A run \in s.found : run.impact < f + 1
  BY <1>1 DEF Sound, Downswings
<1>3. ASSUME s.start # None
      PROVE  /\ s.peak < f + 1 /\ Between(film, s.start, s.peak, f)
  <2>1. s.start \in Nat /\ s.peak \in Nat /\ s.peak < f /\ Between(film, s.start, s.peak, f - 1)
    BY <1>3 DEF Sound, Descends, Frames
  <2>2. \A g \in s.start..f : g = f \/ g \in s.start..f - 1
    BY <1>1, <2>1
  <2> QED
    BY <1>1, <2>1, <2>2 DEF Between
<1> QED
  BY <1>1, <1>2, <1>3 DEF Sound

\* The run goes on: its peak moves to f or stays where it is.
LEMMA OnIsSound ==
  ASSUME NEW film \in Seq(Frame), NEW f \in Frames(film), Confident(film, f),
         NEW s, Sound(film, s, f), s.start # None, NEW peak \in {s.peak, f},
         Y(film, s.start) <= Y(film, f), Y(film, f) <= Y(film, peak),
         Y(film, s.peak) <= Y(film, peak)
  PROVE  Sound(film, [s EXCEPT !.peak = peak], f + 1)
<1>1. f \in Nat /\ (f + 1) - 1 = f
  BY DEF Frames
<1>2. /\ s.start \in Nat /\ s.peak \in Nat /\ s.peak < f /\ s.start <= s.peak
      /\ s.peak \in Frames(film) /\ s.start \in Frames(film)
      /\ Between(film, s.start, s.peak, f - 1) /\ Confident(film, s.start) /\ Confident(film, s.peak)
  BY <1>1 DEF Sound, Descends, Frames
<1>3. PICK t : t = [s EXCEPT !.peak = peak]
  OBVIOUS
<1>4. /\ t \in [found : SUBSET Downswings, start : Nat \cup {None}, peak : Nat \cup {None}]
      /\ t.found = s.found /\ t.start = s.start /\ t.peak = peak
  BY <1>1, <1>2, <1>3 DEF Sound
<1>5. Descends(film, s.start, peak) /\ peak < f + 1
  BY <1>1, <1>2 DEF Descends
<1>6. Between(film, s.start, peak, f)
  <2> SUFFICES ASSUME NEW g \in s.start..f, Confident(film, g)
               PROVE  Y(film, s.start) <= Y(film, g) /\ Y(film, g) <= Y(film, peak)
    BY DEF Between
  <2>1. CASE g = f
    BY <2>1
  <2>2. CASE g # f
    <3>1. g \in s.start..f - 1 /\ g \in Frames(film)
      BY <1>1, <1>2, <2>2 DEF Frames
    <3>2. Y(film, s.start) <= Y(film, g) /\ Y(film, g) <= Y(film, s.peak)
      BY <1>2, <3>1 DEF Between
    <3>3. /\ Y(film, g) \in Nat /\ Y(film, s.peak) \in Nat /\ Y(film, peak) \in Nat
      BY <1>2, <3>1, HeldIsAFrame
    <3> QED
      BY <3>2, <3>3
  <2> QED
    BY <2>1, <2>2
<1>7. \A run \in s.found : run.impact < f + 1
  BY <1>1 DEF Sound, Downswings
<1> QED
  BY <1>1, <1>3, <1>4, <1>5, <1>6, <1>7 DEF Sound

\* The run that a drawdown ends is apart from those that have ended.
LEMMA EndedIsApart ==
  ASSUME NEW film \in Seq(Frame), NEW n, NEW s, Sound(film, s, n), s.start # None, n \in Nat
  PROVE  LET ended == s.found \cup {[top |-> s.start, impact |-> s.peak]}
         IN /\ ended \in SUBSET Downswings /\ Disjoint(ended)
            /\ \A run \in ended : WholeRun(film, run) /\ run.impact < n
<1> DEFINE one == [top |-> s.start, impact |-> s.peak]
           ended == s.found \cup {one}
<1>1. /\ s.start \in Nat /\ s.peak \in Nat /\ s.peak < n /\ s.start <= s.peak
      /\ Between(film, s.start, s.peak, n - 1) /\ Descends(film, s.start, s.peak)
      /\ s.found \in SUBSET Downswings /\ Disjoint(s.found)
      /\ \A run \in s.found : WholeRun(film, run) /\ run.impact < n /\ run.impact < s.start
  BY DEF Sound, Descends, Frames
<1>2. one \in Downswings /\ one.top = s.start /\ one.impact = s.peak
  BY <1>1 DEF Downswings
<1>3. Between(film, s.start, s.peak, s.peak)
  <2>1. s.start..s.peak \subseteq s.start..n - 1
    BY <1>1
  <2> QED
    BY <1>1, <2>1 DEF Between
<1>4. WholeRun(film, one) /\ one.impact < n
  BY <1>1, <1>2, <1>3 DEF WholeRun
<1>5. Disjoint(ended)
  BY <1>1, <1>2 DEF Disjoint
<1> QED
  BY <1>1, <1>2, <1>4, <1>5

\* Meeting any frame keeps the scan sound.
LEMMA MetIsSound ==
  ASSUME NEW film \in Seq(Frame), NEW f \in Frames(film), NEW s, Sound(film, s, f)
  PROVE  Sound(film, Met(film, s, f), f + 1)
<1>1. f \in Nat /\ Y(film, f) \in Nat
  BY HeldIsAFrame DEF Frames
<1>2. /\ s.found \in SUBSET Downswings /\ Disjoint(s.found)
      /\ \A run \in s.found : WholeRun(film, run) /\ run.impact < f
  BY DEF Sound
<1>3. CASE ~Confident(film, f)
  BY <1>3, LostIsSound DEF Met
<1>4. CASE Confident(film, f) /\ s.start = None
  <2>1. Met(film, s, f) = Anew(s.found, f)
    BY <1>4 DEF Met
  <2> QED
    BY <1>2, <1>4, <2>1, AnewIsSound
<1>5. CASE Confident(film, f) /\ s.start # None
  <2>1. /\ s.start \in Frames(film) /\ s.peak \in Frames(film)
        /\ s.peak \in s.start..f - 1 /\ Confident(film, s.peak)
        /\ Between(film, s.start, s.peak, f - 1)
    BY <1>1, <1>5 DEF Sound, Descends, Frames
  <2>2. /\ Y(film, s.start) \in Nat /\ Y(film, s.peak) \in Nat
        /\ Y(film, s.start) <= Y(film, s.peak)
    BY <2>1, HeldIsAFrame DEF Between
  <2>3. CASE Y(film, f) >= Y(film, s.peak)
    <3>1. Met(film, s, f) = [s EXCEPT !.peak = f]
      BY <1>5, <2>3 DEF Met
    <3>2. Y(film, s.start) <= Y(film, f) /\ Y(film, f) <= Y(film, f) /\ Y(film, s.peak) <= Y(film, f)
      BY <1>1, <2>2, <2>3
    <3> QED
      BY <1>5, <3>1, <3>2, OnIsSound
  <2>4. CASE ~(Y(film, f) >= Y(film, s.peak)) /\ GivesBack(film, s.start, s.peak, f)
    <3>1. Met(film, s, f) = Anew(s.found \cup {[top |-> s.start, impact |-> s.peak]}, f)
      BY <1>5, <2>4 DEF Met
    <3>2. PICK ended : ended = s.found \cup {[top |-> s.start, impact |-> s.peak]}
      OBVIOUS
    <3>3. /\ ended \in SUBSET Downswings /\ Disjoint(ended)
          /\ \A run \in ended : WholeRun(film, run) /\ run.impact < f
      BY <1>1, <1>5, <3>2, EndedIsApart
    <3> QED
      BY <1>5, <3>1, <3>2, <3>3, AnewIsSound
  <2>5. CASE /\ ~(Y(film, f) >= Y(film, s.peak)) /\ ~GivesBack(film, s.start, s.peak, f)
             /\ Y(film, f) < Y(film, s.start)
    <3>1. Met(film, s, f) = Anew(s.found, f)
      BY <1>5, <2>5 DEF Met
    <3> QED
      BY <1>2, <1>5, <3>1, AnewIsSound
  <2>6. CASE /\ ~(Y(film, f) >= Y(film, s.peak)) /\ ~GivesBack(film, s.start, s.peak, f)
             /\ ~(Y(film, f) < Y(film, s.start))
    <3>1. Met(film, s, f) = s
      BY <1>5, <2>6 DEF Met
    <3>2. s = [s EXCEPT !.peak = s.peak]
      BY DEF Sound
    <3>3. Sound(film, [s EXCEPT !.peak = s.peak], f + 1)
      <4>1. /\ Y(film, s.start) <= Y(film, f) /\ Y(film, f) <= Y(film, s.peak)
            /\ Y(film, s.peak) <= Y(film, s.peak)
        BY <1>1, <2>2, <2>6
      <4>2. s.peak \in {s.peak, f}
        OBVIOUS
      <4> QED
        BY <1>5, <4>1, <4>2, OnIsSound
    <3> QED
      BY <3>1, <3>2, <3>3
  <2> QED
    BY <2>3, <2>4, <2>5, <2>6
<1> QED
  BY <1>3, <1>4, <1>5

\* So it is sound at the end of the clip.
LEMMA ScanIsSound ==
  ASSUME NEW film \in Seq(Frame)
  PROVE  Sound(film, Scan(film), Len(film))
<1>1. Len(film) \in Nat
  OBVIOUS
<1>2. PICK scan : IsScan(film, Len(film), scan) /\ Scan(film) = scan[Len(film)]
  BY <1>1, ScanIsTheLast
<1> DEFINE T == {i \in 0..Len(film) : Sound(film, scan[i], i)}
<1>3. 0 \in T
  <2>1. scan[0] = Anew({}, None)
    BY <1>1, <1>2 DEF IsScan
  <2>2. Sound(film, Anew({}, None), 0)
    BY DEF Sound, Anew, Disjoint
  <2> QED
    BY <1>1, <2>1, <2>2
<1>4. ASSUME NEW i \in 0..Len(film) - 1, i \in T PROVE i + 1 \in T
  <2>1. i + 1 \in 0..Len(film) /\ i + 1 # 0 /\ (i + 1) - 1 = i /\ i \in Frames(film)
    BY <1>1 DEF Frames
  <2>2. scan[i + 1] = Met(film, scan[i], i)
    BY <1>2, <2>1 DEF IsScan
  <2>3. Sound(film, scan[i], i)
    BY <1>4
  <2> QED
    BY <2>1, <2>2, <2>3, MetIsSound
<1> HIDE DEF T
<1>5. PICK last \in Nat : last = Len(film)
  BY <1>1
<1>6. \A i \in 0..last - 1 : i \in T => i + 1 \in T
  BY <1>4, <1>5
<1>7. \A i \in 0..last : i \in T
  BY ONLY <1>3, <1>6, OneAfterAnother
<1> QED
  BY <1>2, <1>5, <1>7 DEF T

\* The descents of a clip are apart and whole.
LEMMA RunsAreWhole ==
  ASSUME NEW film \in Seq(Frame)
  PROVE  /\ Runs(film) \in SUBSET Downswings /\ Disjoint(Runs(film))
         /\ \A run \in Runs(film) : WholeRun(film, run) /\ run.impact < Len(film)
<1>1. PICK s : s = Scan(film)
  OBVIOUS
<1>2. Sound(film, s, Len(film)) /\ Len(film) \in Nat
  BY <1>1, ScanIsSound
<1>3. Runs(film) = s.found \/ (s.start # None /\ Runs(film) = s.found \cup {[top |-> s.start, impact |-> s.peak]})
  BY <1>1 DEF Runs, Ended
<1>4. CASE Runs(film) = s.found
  BY <1>2, <1>4 DEF Sound
<1>5. CASE s.start # None /\ Runs(film) = s.found \cup {[top |-> s.start, impact |-> s.peak]}
  BY <1>2, <1>5, EndedIsApart
<1> QED
  BY <1>3, <1>4, <1>5

-----------------------------------------------------------------------------
(* What a rule picks. *)

\* Descents have an earliest,
LEMMA EarliestIsOne ==
  ASSUME NEW runs \in SUBSET Downswings, runs # {}
  PROVE  Earliest(runs) \in runs
<1> DEFINE tops == {n \in Nat : \E run \in runs : run.top = n}
<1>1. \A run \in runs : run.top \in tops
  BY DEF Downswings
<1>2. tops \in SUBSET Nat /\ tops # {}
  BY <1>1
<1>3. PICK n \in tops : \A k \in tops : n <= k
  <2> HIDE DEF tops
  <2> QED
    BY <1>2, LeastNumber
<1>4. \E run \in runs : \A other \in runs : run.top <= other.top
  BY <1>1, <1>3
<1> QED
  BY <1>4 DEF Earliest

\* and, begun before a bound, a latest.
LEMMA LatestIsOne ==
  ASSUME NEW runs \in SUBSET Downswings, runs # {}, NEW bound \in Nat,
         \A run \in runs : run.top <= bound
  PROVE  Latest(runs) \in runs
<1> DEFINE tops == {n \in Nat : \E run \in runs : run.top = n}
<1>1. \A run \in runs : run.top \in tops
  BY DEF Downswings
<1>2. tops \in SUBSET Nat /\ tops # {} /\ \A n \in tops : n <= bound
  BY <1>1
<1>3. PICK n \in tops : \A k \in tops : n >= k
  <2> HIDE DEF tops
  <2> QED
    BY <1>2, GreatestNumber
<1>4. \E run \in runs : \A other \in runs : other.top <= run.top
  BY <1>1, <1>3
<1> QED
  BY <1>4 DEF Latest

\* The descents of one clip, found before its frame bound.
OfOneClip(runs, bound) ==
  runs \in SUBSET Downswings /\ bound \in Nat /\ \A run \in runs : run.top <= bound

\* A lone candidate is one of the field.
LEMMA LoneIsOne ==
  ASSUME NEW runs
  PROVE  Lone(runs) \in runs \cup {None}
<1>1. Cardinality(runs) = 1 => runs # {}
  BY FS_EmptySet
<1> QED
  BY <1>1 DEF Lone

\* Nothing is struck that was not a candidate.
LEMMA FieldIsOfThem ==
  ASSUME NEW runs, NEW strikes, NEW fps
  PROVE  Field(runs, strikes, fps) \subseteq runs
BY DEF Field, Struck

\* A view picked alone: one of its descents, if any.
LEMMA SelectedIsOne ==
  ASSUME NEW runs, NEW bound, OfOneClip(runs, bound), NEW strikes, NEW fps
  PROVE  SelectSwing(runs, strikes, fps) \in runs \cup {None}
<1> DEFINE field == Field(runs, strikes, fps)
           plausible == {swing \in field : Possible(swing, fps)}
<1>1. field \subseteq runs
  BY FieldIsOfThem
<1>2. Lone(field) \in field \cup {None}
  BY LoneIsOne
<1>3. plausible # {} => Latest(plausible) \in plausible
  <2>1. plausible \in SUBSET Downswings /\ bound \in Nat /\ \A run \in plausible : run.top <= bound
    BY <1>1 DEF OfOneClip
  <2> HIDE DEF plausible
  <2> QED
    BY <2>1, LatestIsOne
<1>4. SelectSwing(runs, strikes, fps) =
        IF fps = None THEN None
        ELSE IF plausible = {} THEN Lone(field) ELSE Latest(plausible)
  BY DEF SelectSwing
<1> QED
  BY <1>1, <1>2, <1>3, <1>4

References == [frames : Int, fps : Nat]

\* Against the other view too one of the descents is picked, and one is wherever one is
\* alone.
LEMMA MatchedIsOne ==
  ASSUME NEW runs, NEW bound, OfOneClip(runs, bound), NEW strikes,
         NEW fps \in (Nat \ {0}) \cup {None}, NEW reference \in References
  PROVE  /\ SelectMatchingSwing(runs, strikes, fps, reference) \in runs \cup {None}
         /\ SelectSwing(runs, strikes, fps) # None =>
              SelectMatchingSwing(runs, strikes, fps, reference) # None
<1> DEFINE field == Field(runs, strikes, fps)
           plausible == {swing \in field : Possible(swing, fps)}
           matched == {swing \in field : Possible(swing, fps) \/ VouchedFor(swing, fps, reference)}
           Off(swing) == Apart(swing, fps, reference)
           nearest == {swing \in matched : \A other \in matched : Off(swing) <= Off(other)}
<1>1. SelectSwing(runs, strikes, fps) =
        IF fps = None THEN None ELSE IF plausible = {} THEN Lone(field) ELSE Latest(plausible)
  BY DEF SelectSwing
<1>2. SelectMatchingSwing(runs, strikes, fps, reference) =
        IF fps = None THEN None ELSE IF matched = {} THEN Lone(field) ELSE Latest(nearest)
  BY DEF SelectMatchingSwing
<1>3. CASE fps = None
  BY <1>1, <1>2, <1>3
<1>4. CASE fps # None /\ matched = {}
  <2>1. plausible = {}
    BY <1>4
  <2>2. Lone(field) \in field \cup {None} /\ field \subseteq runs
    BY LoneIsOne, FieldIsOfThem
  <2> QED
    BY <1>1, <1>2, <1>4, <2>1, <2>2
<1>5. CASE fps # None /\ matched # {}
  <2>1. matched \subseteq runs
    BY FieldIsOfThem
  <2>2. ASSUME NEW swing \in Downswings PROVE Off(swing) \in Nat
    <3>1. Lasts(swing) \in Int /\ fps \in Nat /\ reference.fps \in Nat /\ reference.frames \in Int
      BY <1>5 DEF Lasts, Downswings, References
    <3>2. Lasts(swing) * reference.fps \in Int /\ reference.frames * fps \in Int
      BY <3>1
    <3> QED
      BY <3>2 DEF Apart, Distance
  <2> DEFINE offs == {n \in Nat : \E swing \in matched : Off(swing) = n}
  <2> HIDE DEF Off, matched
  <2>3. \A swing \in matched : Off(swing) \in offs
    BY <2>1, <2>2 DEF OfOneClip
  <2>4. PICK n \in offs : \A k \in offs : n <= k
    <3>1. offs \in SUBSET Nat /\ offs # {}
      BY <1>5, <2>3
    <3> HIDE DEF offs
    <3> QED
      BY <3>1, LeastNumber
  <2>5. nearest # {}
    BY <2>3, <2>4
  <2>6. nearest \subseteq runs
    BY <2>1
  <2>7. /\ nearest \in SUBSET Downswings /\ \A run \in nearest : run.top <= bound
        /\ bound \in Nat
    BY <2>6 DEF OfOneClip
  <2> HIDE DEF nearest
  <2>8. Latest(nearest) \in nearest
    BY <2>5, <2>7, LatestIsOne
  <2>9. None \notin Downswings
    BY PhaseConstants DEF Downswings
  <2> QED
    BY <1>2, <1>5, <2>6, <2>7, <2>8, <2>9
<1> QED
  BY <1>3, <1>4, <1>5

\* _pick_swing, either way.
LEMMA PickedIsOne ==
  ASSUME NEW runs, NEW bound, OfOneClip(runs, bound), NEW strikes,
         NEW fps \in (Nat \ {0}) \cup {None}, NEW reference \in References \cup {None}
  PROVE  /\ PickSwing(runs, strikes, fps, reference) \in Downswings \cup {None}
         /\ SelectSwing(runs, strikes, fps) # None =>
              PickSwing(runs, strikes, fps, reference) # None
<1>1. runs \in SUBSET Downswings
  BY DEF OfOneClip
<1>2. CASE reference = None
  BY <1>1, <1>2, SelectedIsOne DEF PickSwing
<1>3. CASE reference # None
  BY <1>1, <1>3, MatchedIsOne DEF PickSwing
<1> QED
  BY <1>2, <1>3

\* A clip's candidates are descents of it.
LEMMA CandidatesAreRuns ==
  ASSUME NEW film \in Seq(Frame), NEW share
  PROVE  /\ Candidates(film, share) \subseteq Runs(film)
         /\ OfOneClip(Candidates(film, share), Len(film))
<1>1. Candidates(film, share) \subseteq Runs(film)
  BY DEF Candidates, AtLeast
<1>2. /\ Runs(film) \in SUBSET Downswings /\ Len(film) \in Nat
      /\ \A run \in Runs(film) : WholeRun(film, run) /\ run.impact < Len(film)
  BY RunsAreWhole
<1>3. \A run \in Runs(film) : run.top <= Len(film)
  BY <1>2 DEF WholeRun, Descends, Downswings
<1> QED
  BY <1>1, <1>2, <1>3 DEF OfOneClip

\* A given field's descents are descents.
LEMMA FieldsAreDescents ==
  ASSUME NEW runs \in Fields
  PROVE  OfOneClip(runs, MaxFilmed)
<1>1. MaxFilmed \in Nat
  BY TimingConstants
<1>2. runs \in SUBSET Descents
  BY DEF Fields
<1> QED
  BY <1>1, <1>2 DEF Descents, OfOneClip, Downswings

-----------------------------------------------------------------------------
(* The picking. *)

\* A view that was picked: what it would have been alone is not lost.
Kept(p) == p.choice # Given /\ p.alone # None => p.choice # None

PickedView(p) ==
  /\ \E field, strikes, fps, choice, alone :
       p = [field |-> field, strikes |-> strikes, fps |-> fps, choice |-> choice, alone |-> alone]
  /\ p.fps \in {None} \cup (Nat \ {0})
  /\ p.choice \in Downswings \cup {None, Given}
  /\ \E bound : OfOneClip(p.field, bound)
  /\ Kept(p)

Picks ==
  /\ clip \in Seq(Frame)
  /\ stage # "pick" => view = Nothing
  /\ stage = "pick" => PickedView(view["a"]) /\ (view["b"] = None \/ PickedView(view["b"]))

\* What a picked view keeps is what NothingIsLost asks.
LEMMA PicksKeep ==
  ASSUME Picks
  PROVE  NothingIsLost
<1> SUFFICES ASSUME NEW v \in Clips, view[v] # None, view[v].choice # Given, view[v].alone # None
             PROVE  view[v].choice # None
  BY DEF NothingIsLost
<1>1. stage = "pick"
  BY DEF Picks, Nothing
<1>2. v = "a" \/ v = "b"
  BY DEF Clips
<1> QED
  BY <1>1, <1>2 DEF Picks, PickedView, Kept

\* What a view measures for the other is a duration.
LEMMA ReferenceIsTyped ==
  ASSUME NEW p, PickedView(p)
  PROVE  Reference(p) \in References \cup {None}
<1>1. CASE p.choice = Given \/ p.choice = None \/ p.fps = None
  BY <1>1 DEF Reference, AsReference
<1>2. CASE p.choice # Given /\ p.choice # None /\ p.fps # None
  <2>1. p.fps \in Nat /\ p.choice \in Downswings
    BY <1>2 DEF PickedView
  <2>2. Lasts(p.choice) \in Int
    BY <2>1 DEF Lasts, Downswings
  <2>3. Reference(p) = [frames |-> Lasts(p.choice), fps |-> p.fps]
    BY <1>2 DEF Reference, AsReference
  <2> QED
    BY <2>1, <2>2, <2>3 DEF References
<1> QED
  BY <1>1, <1>2

\* A view that is picked from descents of a clip.
LEMMA PickedIsTyped ==
  ASSUME NEW runs, NEW bound, OfOneClip(runs, bound), NEW strikes,
         NEW fps \in (Nat \ {0}) \cup {None}, NEW reference \in References \cup {None},
         NEW choice \in {Given, PickSwing(runs, strikes, fps, reference)}
  PROVE  PickedView(Picked(runs, strikes, fps, choice))
<1>1. PICK p : p = Picked(runs, strikes, fps, choice)
  OBVIOUS
<1>2. /\ p.field = IF choice = None THEN runs ELSE {}
      /\ p.fps = fps /\ p.choice = choice /\ p.alone = SelectSwing(runs, strikes, fps)
      /\ \E ff, ss, rr, cc, aa :
           p = [field |-> ff, strikes |-> ss, fps |-> rr, choice |-> cc, alone |-> aa]
  BY <1>1 DEF Picked
<1>3. /\ PickSwing(runs, strikes, fps, reference) \in Downswings \cup {None}
      /\ SelectSwing(runs, strikes, fps) # None =>
           PickSwing(runs, strikes, fps, reference) # None
  BY PickedIsOne
<1>4. OfOneClip(p.field, bound)
  BY <1>2 DEF OfOneClip
<1>5. Kept(p)
  BY <1>2, <1>3 DEF Kept
<1> QED
  BY <1>1, <1>2, <1>3, <1>4, <1>5 DEF PickedView

\* What is kept of a view loses nothing by what it forgets.
LEMMA ForgottenIsTyped ==
  ASSUME NEW p, PickedView(p), NEW choice \in Downswings \cup {None, Given},
         choice # Given /\ p.alone # None => choice # None
  PROVE  PickedView([p EXCEPT !.choice = choice, !.field = {}, !.strikes = {}])
<1>1. PICK f, s, r, c, n :
        p = [field |-> f, strikes |-> s, fps |-> r, choice |-> c, alone |-> n]
  BY DEF PickedView
<1>2. PICK q : q = [p EXCEPT !.choice = choice, !.field = {}, !.strikes = {}]
  OBVIOUS
<1>3. q = [field |-> {}, strikes |-> {}, fps |-> r, choice |-> choice, alone |-> n]
  BY <1>1, <1>2
<1>4. /\ q.field = {} /\ q.choice = choice /\ q.fps = p.fps /\ q.alone = p.alone
      /\ \E ff, ss, rr, cc, aa :
           q = [field |-> ff, strikes |-> ss, fps |-> rr, choice |-> cc, alone |-> aa]
  BY <1>1, <1>3
<1>5. \E bound : OfOneClip(q.field, bound)
  <2>1. OfOneClip({}, 0)
    BY DEF OfOneClip
  <2> QED
    BY <1>4, <2>1
<1>6. q.fps \in {None} \cup (Nat \ {0}) /\ q.choice \in Downswings \cup {None, Given}
  BY <1>4 DEF PickedView
<1>7. Kept(q)
  BY <1>4 DEF Kept
<1>8. PickedView(q)
  BY <1>4, <1>5, <1>6, <1>7 DEF PickedView
<1> QED
  BY <1>2, <1>8

\* The first pick, face-on, alone.
LEMMA FaceOnIsKept ==
  ASSUME Picks, NEW strikes, NEW fps \in Rates, PickFaceOn(strikes, fps)
  PROVE  Picks'
<1>1. PICK field, choice :
        /\ choice \in {Given, PickSwing(field, strikes, fps, None)}
        /\ field = Candidates(clip, CandidateMinRise)
        /\ view' = [view EXCEPT !["a"] = Picked(field, strikes, fps, choice)]
  BY DEF PickFaceOn
<1>2. stage = "film" /\ stage' = "pick" /\ clip' = <<>> /\ clip \in Seq(Frame) /\ view = Nothing
  BY DEF PickFaceOn, Picks
<1>3. OfOneClip(field, Len(clip))
  BY <1>1, <1>2, CandidatesAreRuns
<1>4. fps \in (Nat \ {0}) \cup {None} /\ None \in References \cup {None}
  BY TimingConstants
<1>5. PickedView(Picked(field, strikes, fps, choice))
  BY <1>1, <1>3, <1>4, PickedIsTyped
<1>6. view'["a"] = Picked(field, strikes, fps, choice) /\ view'["b"] = None
  BY <1>1, <1>2 DEF Nothing, Clips
<1>7. <<>> \in Seq(Frame)
  OBVIOUS
<1> QED
  BY <1>2, <1>5, <1>6, <1>7 DEF Picks

\* The second pick, and face-on's once more.
LEMMA DownTheLineIsKept ==
  ASSUME Picks, NEW field \in Fields, NEW strikes, NEW fps \in Rates,
         PickDownTheLine(field, strikes, fps)
  PROVE  Picks'
<1>0. PICK choice \in {Given, PickSwing(field, strikes, fps, Reference(view["a"]))} :
        view' = [a |-> [view["a"] EXCEPT !.choice = Rescued(view["a"], Picked(field, strikes, fps, choice)),
                                         !.field = {}, !.strikes = {}],
                 b |-> [Picked(field, strikes, fps, choice) EXCEPT !.field = {}, !.strikes = {}]]
  BY DEF PickDownTheLine
<1>1. PICK a, b, t :
        /\ a = view["a"] /\ b = Picked(field, strikes, fps, choice) /\ t = Rescued(a, b)
        /\ choice \in {Given, PickSwing(field, strikes, fps, Reference(a))}
        /\ view'["a"] = [a EXCEPT !.choice = t, !.field = {}, !.strikes = {}]
        /\ view'["b"] = [b EXCEPT !.field = {}, !.strikes = {}]
  BY <1>0
<1>2. stage = "pick" /\ stage' = "pick" /\ clip' = clip /\ PickedView(a) /\ clip \in Seq(Frame)
  BY <1>1 DEF PickDownTheLine, Picks
<1>3. fps \in (Nat \ {0}) \cup {None} /\ OfOneClip(field, MaxFilmed)
  BY TimingConstants, FieldsAreDescents
<1>4. PickedView(b)
  BY <1>1, <1>2, <1>3, ReferenceIsTyped, PickedIsTyped
<1>5. /\ Rescued(a, b) \in Downswings \cup {None, Given}
      /\ Rescued(a, b) # Given /\ a.alone # None => Rescued(a, b) # None
  <2>1. CASE a.choice # None \/ Reference(b) = None
    BY <1>2, <2>1 DEF Rescued, PickedView, Kept
  <2>2. CASE a.choice = None /\ Reference(b) # None
    <3>1. Rescued(a, b) = PickSwing(a.field, a.strikes, a.fps, Reference(b))
      BY <2>2 DEF Rescued
    <3>2. PICK bound : OfOneClip(a.field, bound)
      BY <1>2 DEF PickedView
    <3>3. a.fps \in (Nat \ {0}) \cup {None}
      BY <1>2 DEF PickedView
    <3>4. Reference(b) \in References \cup {None}
      BY <1>4, ReferenceIsTyped
    <3>5. /\ PickSwing(a.field, a.strikes, a.fps, Reference(b)) \in Downswings \cup {None}
          /\ SelectSwing(a.field, a.strikes, a.fps) # None =>
               PickSwing(a.field, a.strikes, a.fps, Reference(b)) # None
      BY <3>2, <3>3, <3>4, PickedIsOne
    <3>6. Rescued(a, b) \in Downswings \cup {None}
      BY <3>1, <3>5
    <3>7. Given # None => a.alone = None
      BY <1>2, <2>2 DEF PickedView, Kept
    <3> QED
      BY <3>6, <3>7
  <2> QED
    BY <2>1, <2>2
<1>6. PickedView(view'["a"])
  <2>1. /\ t \in Downswings \cup {None, Given}
        /\ t # Given /\ a.alone # None => t # None
    BY <1>1, <1>5
  <2>2. PickedView([a EXCEPT !.choice = t, !.field = {}, !.strikes = {}])
    BY <1>2, <2>1, ForgottenIsTyped
  <2> QED
    BY <1>1, <2>2
<1>7. PickedView(view'["b"])
  <2>1. PICK f, s, r, c, n :
          b = [field |-> f, strikes |-> s, fps |-> r, choice |-> c, alone |-> n]
    BY <1>4 DEF PickedView
  <2>2. [b EXCEPT !.choice = b.choice, !.field = {}, !.strikes = {}]
          = [b EXCEPT !.field = {}, !.strikes = {}]
    BY <2>1
  <2>3. b.choice \in Downswings \cup {None, Given}
        /\ (b.choice # Given /\ b.alone # None => b.choice # None)
    BY <1>4 DEF PickedView, Kept
  <2>4. PickedView([b EXCEPT !.choice = b.choice, !.field = {}, !.strikes = {}])
    BY <1>4, <2>3, ForgottenIsTyped
  <2> QED
    BY <1>1, <2>2, <2>4
<1> QED
  BY <1>2, <1>6, <1>7 DEF Picks

-----------------------------------------------------------------------------
(* The segments. *)

\* The hands of a clip have a lowest frame in any stretch of it.
LEMMA HandsAreBounded ==
  ASSUME NEW film \in Seq(Frame), Len(film) # 0
  PROVE  \E bound \in Nat : \A i \in Frames(film) : Y(film, i) <= bound
<1>1. PICK last \in Nat : last = Len(film) - 1 /\ Frames(film) = 0..last
  BY DEF Frames
<1>2. \A i \in 0..last : Y(film, i) \in Nat
  BY <1>1, HeldIsAFrame
<1> DEFINE T == {k \in 0..last : \E bound \in Nat : \A i \in 0..k : Y(film, i) <= bound}
<1>3. 0 \in T
  <2>1. \A i \in 0..0 : Y(film, i) <= Y(film, 0)
    BY <1>2
  <2> QED
    BY <1>2, <2>1
<1>4. ASSUME NEW k \in 0..last - 1, k \in T PROVE k + 1 \in T
  <2>1. PICK bound \in Nat : \A i \in 0..k : Y(film, i) <= bound
    BY <1>4
  <2>2. k + 1 \in 0..last
    OBVIOUS
  <2>3. PICK more \in Nat : more = bound + Y(film, k + 1)
    BY <1>2, <2>2
  <2>4. ASSUME NEW i \in 0..k + 1 PROVE Y(film, i) <= more
    <3>1. i = k + 1 \/ i \in 0..k
      OBVIOUS
    <3>2. Y(film, i) \in Nat /\ Y(film, k + 1) \in Nat
      BY <1>2, <2>2
    <3> QED
      BY <2>1, <2>3, <3>1, <3>2
  <2> QED
    BY <2>2, <2>4
<1> HIDE DEF T
<1>5. \A k \in 0..last : k \in T
  BY <1>3, <1>4, OneAfterAnother
<1>6. last \in T
  BY <1>5
<1> QED
  BY <1>1, <1>6 DEF T

\* So they have a highest one too, and each is met at a frame.
LEMMA StretchHasExtremes ==
  ASSUME NEW film \in Seq(Frame), NEW stretch \in SUBSET Frames(film), stretch # {}
  PROVE  /\ \E i \in stretch : \A j \in stretch : Y(film, i) <= Y(film, j)
         /\ \E i \in stretch : \A j \in stretch : Y(film, i) >= Y(film, j)
<1>1. \A i \in stretch : Y(film, i) \in Nat
  BY HeldIsAFrame
<1>2. PICK bound \in Nat : \A i \in Frames(film) : Y(film, i) <= bound
  <2>1. Len(film) \in Nat
    OBVIOUS
  <2>2. PICK i \in stretch : i \in 0..Len(film) - 1
    BY DEF Frames
  <2>3. Len(film) # 0
    BY <2>1, <2>2
  <2> QED
    BY <2>3, HandsAreBounded
<1> DEFINE ys == {n \in Nat : \E i \in stretch : Y(film, i) = n}
<1>3. \A i \in stretch : Y(film, i) \in ys
  BY <1>1
<1>4. ys \in SUBSET Nat /\ ys # {} /\ \A n \in ys : n <= bound
  BY <1>2, <1>3
<1>5. /\ \E n \in ys : \A k \in ys : n <= k
      /\ \E n \in ys : \A k \in ys : n >= k
  <2> HIDE DEF ys
  <2> QED
    BY <1>4, LeastNumber, GreatestNumber
<1>6. \A n \in ys : \E i \in stretch : Y(film, i) = n
  OBVIOUS
<1> HIDE DEF ys
<1> QED
  BY <1>3, <1>5, <1>6

\* Where no descent is found, the swing is between the clip's extremes.
LEMMA ExtremesAreInTheClip ==
  ASSUME NEW film \in Seq(Frame), Len(film) # 0
  PROVE  /\ Extremes(film).top \in Nat /\ Extremes(film).impact \in Nat
         /\ Extremes(film).top <= Extremes(film).impact /\ Extremes(film).impact <= Len(film) - 1
<1> DEFINE tops == {i \in Frames(film) : \A j \in Frames(film) : Y(film, i) <= Y(film, j)}
<1>1. PICK last \in Nat : last = Len(film) - 1 /\ Frames(film) = 0..last
  BY DEF Frames
<1>2. tops \in SUBSET Nat /\ tops # {}
  <2>1. PICK stretch : stretch = Frames(film)
    OBVIOUS
  <2>2. 0 \in 0..last
    OBVIOUS
  <2>3. stretch \in SUBSET Frames(film) /\ stretch # {}
    BY <1>1, <2>1, <2>2
  <2>4. \E i \in stretch : \A j \in stretch : Y(film, i) <= Y(film, j)
    BY <2>3, StretchHasExtremes
  <2>5. tops # {}
    BY <2>1, <2>4
  <2>6. tops \in SUBSET Nat
    BY <1>1
  <2> QED
    BY <2>5, <2>6
<1>3. PICK top \in tops : top = Min(tops)
  <2> HIDE DEF tops
  <2> QED
    BY <1>2, MinIsOne
<1> DEFINE ends == {i \in top..last : \A j \in top..last : Y(film, i) >= Y(film, j)}
<1>4. top \in 0..last
  BY <1>1, <1>3
<1>5. ends \in SUBSET Nat /\ ends # {}
  <2>1. PICK stretch : stretch = top..last
    OBVIOUS
  <2>2. stretch \in SUBSET Frames(film) /\ stretch # {}
    <3>1. top \in Nat /\ top..last \subseteq 0..last /\ last \in top..last
      BY <1>4
    <3>2. last \in stretch /\ stretch \subseteq 0..last
      BY <2>1, <3>1
    <3> QED
      BY <1>1, <3>2
  <2>3. \E i \in stretch : \A j \in stretch : Y(film, i) >= Y(film, j)
    BY <2>2, StretchHasExtremes
  <2> QED
    BY <1>4, <2>1, <2>3
<1>6. PICK impact \in ends : impact = Min(ends)
  <2> HIDE DEF ends
  <2> QED
    BY <1>5, MinIsOne
<1>7. Extremes(film).top = top /\ Extremes(film).impact = impact
  BY <1>1, <1>3, <1>6 DEF Extremes
<1>8. impact \in top..last
  BY <1>6
<1> HIDE DEF ends, tops
<1> QED
  BY <1>1, <1>4, <1>7, <1>8

\* A whole run rises, and one of a clip's rises most.
LEMMA LargestRise ==
  ASSUME NEW film \in Seq(Frame), Runs(film) # {}
  PROVE  \E run \in Runs(film) : /\ Rise(film, run) \in Nat
                                 /\ Rise(film, run) = Max({Rise(film, other) : other \in Runs(film)})
<1> DEFINE R == {Rise(film, run) : run \in Runs(film)}
<1>1. /\ Runs(film) \in SUBSET Downswings
      /\ \A run \in Runs(film) : WholeRun(film, run) /\ run.impact < Len(film)
  BY RunsAreWhole
<1>2. Len(film) # 0 /\ Len(film) \in Nat
  BY <1>1 DEF Downswings
<1>3. PICK bound \in Nat : \A i \in Frames(film) : Y(film, i) <= bound
  BY <1>2, HandsAreBounded
<1>4. ASSUME NEW run \in Runs(film)
      PROVE  Rise(film, run) \in Nat /\ Rise(film, run) <= bound
  <2>1. /\ run.top \in Frames(film) /\ run.impact \in Frames(film)
        /\ run.impact \in run.top..run.impact /\ Confident(film, run.impact)
        /\ Between(film, run.top, run.impact, run.impact)
    BY <1>1 DEF WholeRun, Descends, Frames
  <2>2. Y(film, run.top) \in Nat /\ Y(film, run.impact) \in Nat /\ Y(film, run.impact) <= bound
    BY <1>3, <2>1, HeldIsAFrame
  <2>3. Y(film, run.top) <= Y(film, run.impact)
    BY <2>1 DEF Between
  <2> QED
    BY <2>2, <2>3 DEF Rise
<1>5. R \in SUBSET Nat /\ R # {} /\ \A n \in R : n <= bound
  BY <1>4
<1>6. Max(R) \in R
  <2> HIDE DEF R
  <2> QED
    BY <1>5, MaxIsOne
<1> QED
  BY <1>4, <1>6

\* So some run is in every listing, and a looser listing holds a stricter one.
LEMMA SomeRiseEnough ==
  ASSUME NEW film \in Seq(Frame), Runs(film) # {}, NEW share \in 1..100
  PROVE  AtLeast(film, Runs(film), share) # {}
<1>1. PICK run \in Runs(film), n \in Nat :
        n = Rise(film, run) /\ n = Max({Rise(film, other) : other \in Runs(film)})
  BY LargestRise
<1>2. 100 * n >= share * n
  OBVIOUS
<1>3. run \in AtLeast(film, Runs(film), share)
  BY <1>1, <1>2 DEF AtLeast
<1> QED
  BY <1>3

\* A looser listing holds all of a stricter one.
LEMMA LooserListsMore ==
  ASSUME NEW film \in Seq(Frame), Runs(film) # {}
  PROVE  AtLeast(film, Runs(film), MajorRise) \subseteq AtLeast(film, Runs(film), CandidateMinRise)
<1>1. PICK n \in Nat : n = Max({Rise(film, other) : other \in Runs(film)})
  BY LargestRise
<1>2. /\ MajorRise \in Nat /\ CandidateMinRise \in Nat /\ CandidateMinRise <= MajorRise
  <2>1. MajorRise \in 1..100 /\ CandidateMinRise \in 1..100
    BY PhaseConstants
  <2>2. CandidateMinRise <= MajorRise
    BY PhaseConstants
  <2>3. \A share \in 1..100 : share \in Nat
    OBVIOUS
  <2> QED
    BY <2>1, <2>2, <2>3
<1>3. MajorRise * n >= CandidateMinRise * n /\ MajorRise * n \in Int /\ CandidateMinRise * n \in Int
  <2>1. ASSUME NEW c \in Nat, NEW m \in Nat, c <= m
        PROVE  m * n >= c * n /\ m * n \in Int /\ c * n \in Int
    <3>1. PICK more \in Nat : m = c + more
      <4>1. m - c \in Nat /\ m = c + (m - c)
        BY <2>1
      <4> QED
        BY <4>1
    <3>2. PICK cn \in Nat, extra \in Nat : cn = c * n /\ extra = more * n /\ m * n = cn + extra
      <4>1. c * n \in Nat /\ more * n \in Nat /\ (c + more) * n = c * n + more * n
        OBVIOUS
      <4> QED
        BY <3>1, <4>1
    <3>3. cn + extra >= cn
      OBVIOUS
    <3> QED
      BY <3>2, <3>3
  <2> QED
    BY <1>2, <2>1
<1>4. ASSUME NEW run \in Runs(film), 100 * Rise(film, run) >= MajorRise * n
      PROVE  100 * Rise(film, run) >= CandidateMinRise * n
  <2>1. Rise(film, run) \in Int
    <3>1. WholeRun(film, run)
      BY RunsAreWhole
    <3>2. run.top \in Frames(film) /\ run.impact \in Frames(film)
      BY <3>1 DEF WholeRun, Descends, Frames
    <3> QED
      BY <3>2, HeldIsAFrame DEF Rise
  <2> QED
    BY <1>3, <1>4, <2>1
<1> QED
  BY <1>1, <1>4 DEF AtLeast

\* The swing that is segmented is in its clip, and of the first listing if there is one.
LEMMA SwingIsInTheClip ==
  ASSUME NEW film \in Seq(Frame), Len(film) # 0
  PROVE  /\ TopAndImpact(film).top \in Nat /\ TopAndImpact(film).impact \in Nat
         /\ TopAndImpact(film).top <= TopAndImpact(film).impact
         /\ TopAndImpact(film).impact <= Len(film) - 1
         /\ Runs(film) # {} =>
              /\ TopAndImpact(film) = Earliest(AtLeast(film, Runs(film), MajorRise))
              /\ TopAndImpact(film) \in AtLeast(film, Runs(film), MajorRise)
<1>1. CASE Runs(film) = {}
  <2>1. TopAndImpact(film) = Extremes(film)
    BY <1>1 DEF TopAndImpact, SwingAmong
  <2> QED
    BY <1>1, <2>1, ExtremesAreInTheClip
<1>2. CASE Runs(film) # {}
  <2>1. TopAndImpact(film) = Earliest(AtLeast(film, Runs(film), MajorRise))
    BY <1>2 DEF TopAndImpact, SwingAmong
  <2>2. PICK runs : runs = AtLeast(film, Runs(film), MajorRise)
    OBVIOUS
  <2>3. runs # {} /\ runs \subseteq Runs(film)
    <3>1. MajorRise \in 1..100
      BY PhaseConstants
    <3>2. AtLeast(film, Runs(film), MajorRise) # {}
      BY <1>2, <3>1, SomeRiseEnough
    <3>3. AtLeast(film, Runs(film), MajorRise) \subseteq Runs(film)
      BY DEF AtLeast
    <3> QED
      BY <2>2, <3>2, <3>3
  <2>4. runs \in SUBSET Downswings
    BY <2>3, RunsAreWhole
  <2>5. Earliest(runs) \in runs
    BY <2>3, <2>4, EarliestIsOne
  <2>6. PICK run \in Runs(film) : run = TopAndImpact(film)
    BY <2>1, <2>2, <2>3, <2>5
  <2>7. WholeRun(film, run) /\ run.impact < Len(film) /\ Len(film) \in Nat
    BY RunsAreWhole
  <2>8. /\ run.top \in Nat /\ run.impact \in Nat /\ run.top <= run.impact
        /\ run.impact <= Len(film) - 1
    BY <2>7 DEF WholeRun, Descends, Frames
  <2> QED
    BY <2>1, <2>2, <2>5, <2>6, <2>8
<1> QED
  BY <1>1, <1>2

\* The motion start, found or estimated, is in the clip and not behind the top.
LEMMA MotionStartsBeforeTop ==
  ASSUME NEW film, NEW top \in Nat, NEW impact \in Nat
  PROVE  /\ MotionStart(film, top, impact).at \in Nat
         /\ MotionStart(film, top, impact).at <= top
<1>1. PICK peak, downswing, stall :
        /\ peak = Max({0} \cup {Speed(film, i) : i \in 1..top})
        /\ downswing = Larger(impact - top, 1)
        /\ stall = Larger(StallMin, Round(downswing, 4))
  OBVIOUS
<1> DEFINE Quiet(i) == 400 * Speed(film, i) < peak
           stalls == {i \in 0..(top + 1 - stall) : \A j \in i..(i + stall - 1) : Quiet(j)}
<1>2. downswing \in Nat
  BY <1>1 DEF Larger
<1>3. stall \in Nat
  <2>1. Round(downswing, 4) \in Nat /\ StallMin \in Nat
    BY <1>2, RoundIsNat, PhaseConstants
  <2> QED
    BY <1>1, <2>1 DEF Larger
<1>4. MotionStart(film, top, impact).at =
        IF peak = 0 THEN 0
        ELSE IF stalls # {} THEN Smaller(Max(stalls) + stall, top)
        ELSE Larger(0, top - Round(7 * downswing, 2))
  BY <1>1 DEF MotionStart
<1>5. ASSUME stalls # {}
      PROVE  Smaller(Max(stalls) + stall, top) \in Nat /\ Smaller(Max(stalls) + stall, top) <= top
  <2>1. stalls \in SUBSET Nat /\ \A i \in stalls : i <= top + 1
    BY <1>3
  <2>2. top + 1 \in Nat
    OBVIOUS
  <2>3. Max(stalls) \in Nat
    <3> HIDE DEF stalls
    <3> QED
      BY <1>5, <2>1, <2>2, MaxIsOne
  <2> HIDE DEF stalls
  <2> QED
    BY <1>3, <2>3 DEF Smaller
<1>6. /\ Larger(0, top - Round(7 * downswing, 2)) \in Nat
      /\ Larger(0, top - Round(7 * downswing, 2)) <= top
  <2>1. Round(7 * downswing, 2) \in Nat
    BY <1>2, RoundIsNat
  <2> QED
    BY <2>1, HeldInTheClip
<1> HIDE DEF stalls
<1> QED
  BY <1>4, <1>5, <1>6

\* The boundaries of the segments around a swing that is in the clip.
LEMMA SegmentsInOrder ==
  ASSUME NEW film \in Seq(Frame), NEW swing, NEW motion,
         swing.top \in Nat, swing.impact \in Nat, swing.top <= swing.impact,
         swing.impact <= Len(film) - 1, motion.at \in Nat, motion.at <= swing.top
  PROVE  LET b == Segments(film, swing, motion).at
         IN /\ b[1] = 0 /\ b[7] = Len(film) - 1 /\ \A i \in 1..6 : b[i] <= b[i + 1]
            /\ b[5] = swing.impact
            /\ b[3] \in Nat /\ swing.top - TransitionHalf <= b[3] /\ b[3] <= swing.top
            /\ b[4] \in Nat /\ swing.top <= b[4] /\ b[4] <= swing.top + TransitionHalf
<1>1. PICK t, m, n, half, more :
        /\ t = swing.top /\ m = swing.impact /\ n = Len(film) - 1
        /\ half = TransitionHalf /\ more = ImpactHalf
  OBVIOUS
<1>2. t \in Nat /\ m \in Nat /\ n \in Nat /\ half \in Nat /\ more \in Nat /\ t <= m /\ m <= n
  BY <1>1, PhaseConstants
<1>3. PICK transition, down, impact, follow :
        /\ transition = Larger(motion.at, t - half)
        /\ down = Larger(transition, Smaller(m, t + half))
        /\ impact = Larger(m, down)
        /\ follow = Larger(impact, Smaller(n, impact + more))
  OBVIOUS
<1>4. transition \in Nat /\ t - half <= transition /\ transition <= t /\ motion.at <= transition
  BY <1>1, <1>2, <1>3 DEF Larger
<1>5. /\ down \in Nat /\ t <= down /\ down <= t + half /\ down <= m /\ transition <= down
  BY <1>2, <1>3, <1>4 DEF Larger, Smaller
<1>6. impact = m
  BY <1>2, <1>3, <1>5 DEF Larger
<1>7. follow \in Nat /\ m <= follow /\ follow <= n
  BY <1>2, <1>3, <1>6 DEF Larger, Smaller
<1>8. PICK b : b = <<0, motion.at, transition, down, impact, follow, n>>
  OBVIOUS
<1>9. /\ b[1] = 0 /\ b[2] = motion.at /\ b[3] = transition /\ b[4] = down
      /\ b[5] = m /\ b[6] = follow /\ b[7] = n
  BY <1>6, <1>8
<1>10. ASSUME NEW i \in 1..6 PROVE b[i] <= b[i + 1]
  <2>1. i = 1 \/ i = 2 \/ i = 3 \/ i = 4 \/ i = 5 \/ i = 6
    OBVIOUS
  <2>2. b[1] <= b[2] /\ b[2] <= b[3] /\ b[3] <= b[4] /\ b[4] <= b[5] /\ b[5] <= b[6] /\ b[6] <= b[7]
    BY <1>4, <1>5, <1>7, <1>9
  <2> QED
    BY <2>1, <2>2
<1>11. Segments(film, swing, motion).at = b
  BY <1>1, <1>3, <1>8 DEF Segments
<1> QED
  BY <1>1, <1>4, <1>5, <1>9, <1>10, <1>11

\* All of OneReading, of a clip that is a sequence of frames.
LEMMA ReadersAgree ==
  ASSUME clip \in Seq(Frame)
  PROVE  OneReading
<1>1. ASSUME stage = "film", clip # <<>> PROVE DescentsApart(Runs(clip))
  <2>1. \A run \in Runs(clip) : WholeRun(clip, run)
    BY RunsAreWhole
  <2>2. Disjoint(Runs(clip))
    BY RunsAreWhole
  <2>3. ASSUME NEW run \in Runs(clip)
        PROVE  LET Seen == {f \in run.top..run.impact : Confident(clip, f)}
               IN /\ {run.top, run.impact} \subseteq Seen
                  /\ \A f \in Seen : Y(clip, run.top) <= Y(clip, f) /\ Y(clip, f) <= Y(clip, run.impact)
    BY <2>1 DEF WholeRun, Descends, Between, Frames
  <2> QED
    BY <2>2, <2>3 DEF DescentsApart
<1>2. ASSUME Len(clip) >= MinFrames
      PROVE  LET b == Boundaries(clip).at
                 swing == TopAndImpact(clip)
                 instants == Instants(clip)
                 major == Candidates(clip, MajorRise)
                 minor == Candidates(clip, CandidateMinRise)
             IN /\ b[1] = 0 /\ b[7] = Len(clip) - 1 /\ \A i \in 1..6 : b[i] <= b[i + 1]
                /\ \A only \in minor : minor = {only} => only = swing
                /\ major # {} => swing = Earliest(major)
                /\ instants # None =>
                     /\ instants.impact = swing.impact
                     /\ 2 * Distance(instants.top, swing.top) <= TransitionHalf + 1
  <2>1. Len(clip) \in Nat /\ Len(clip) # 0 /\ ~(Len(clip) < MinFrames)
    BY <1>2, PhaseConstants
  <2>2. PICK swing : swing = TopAndImpact(clip)
    OBVIOUS
  <2>3. /\ swing.top \in Nat /\ swing.impact \in Nat /\ swing.top <= swing.impact
        /\ swing.impact <= Len(clip) - 1
        /\ Runs(clip) # {} =>
             /\ swing = Earliest(AtLeast(clip, Runs(clip), MajorRise))
             /\ swing \in AtLeast(clip, Runs(clip), MajorRise)
    BY <2>1, <2>2, SwingIsInTheClip
  <2>4. PICK motion : motion = MotionStart(clip, swing.top, swing.impact)
    OBVIOUS
  <2>5. motion.at \in Nat /\ motion.at <= swing.top
    BY <2>3, <2>4, MotionStartsBeforeTop
  <2>6. PICK s, b : s = Segments(clip, swing, motion) /\ b = s.at
    OBVIOUS
  <2>7. /\ b[1] = 0 /\ b[7] = Len(clip) - 1 /\ \A i \in 1..6 : b[i] <= b[i + 1]
        /\ b[5] = swing.impact
        /\ b[3] \in Nat /\ swing.top - TransitionHalf <= b[3] /\ b[3] <= swing.top
        /\ b[4] \in Nat /\ swing.top <= b[4] /\ b[4] <= swing.top + TransitionHalf
    BY <2>3, <2>5, <2>6, SegmentsInOrder
  <2>8. Boundaries(clip) = s
    BY <2>2, <2>4, <2>6 DEF Boundaries
  <2>9. /\ \A only \in Candidates(clip, CandidateMinRise) :
             Candidates(clip, CandidateMinRise) = {only} => only = swing
        /\ Candidates(clip, MajorRise) # {} => swing = Earliest(Candidates(clip, MajorRise))
    <3>1. \A share : Candidates(clip, share) = AtLeast(clip, Runs(clip), share)
      BY <2>1 DEF Candidates
    <3>2. \A share : Candidates(clip, share) # {} => Runs(clip) # {}
      BY <3>1 DEF AtLeast
    <3>3. Runs(clip) # {} => swing \in Candidates(clip, CandidateMinRise)
      BY <2>3, <3>1, LooserListsMore
    <3> QED
      BY <2>3, <3>1, <3>2, <3>3
  <2>10. ASSUME Instants(clip) # None
         PROVE  /\ Instants(clip).impact = swing.impact
                /\ 2 * Distance(Instants(clip).top, swing.top) <= TransitionHalf + 1
    <3>1. PICK top : top = (b[3] + b[4]) \div 2
      OBVIOUS
    <3>2. Instants(clip) = [motion |-> b[2], top |-> top, impact |-> b[5], found |-> s.found]
      BY <2>1, <2>6, <2>8, <2>10, <3>1 DEF Instants
    <3>3. Instants(clip).top = top /\ Instants(clip).impact = b[5]
      BY <3>2
    <3>4. TransitionHalf \in Nat
      BY PhaseConstants
    <3>5. PICK x \in Nat, y \in Nat : x = b[3] /\ y = b[4]
      BY <2>7
    <3>6. top \in Nat /\ (2 * top = x + y \/ 2 * top = x + y - 1)
      <4>1. PICK z \in Nat : z = x + y
        OBVIOUS
      <4>2. top = z \div 2
        BY <3>1, <3>5, <4>1
      <4>3. top \in Nat /\ (2 * top = z \/ 2 * top = z - 1)
        BY <4>2
      <4> QED
        BY <4>1, <4>3
    <3>7. 2 * Distance(top, swing.top) <= TransitionHalf + 1
      <4>1. PICK t \in Nat, h \in Nat, m \in Nat : t = swing.top /\ h = TransitionHalf /\ m = top
        BY <2>3, <3>4, <3>6
      <4>2. t - h <= x /\ x <= t /\ t <= y /\ y <= t + h
        BY <2>7, <3>5, <4>1
      <4>3. 2 * m = x + y \/ 2 * m = x + y - 1
        BY <3>6, <4>1
      <4>4. 2 * (m - t) <= h + 1 /\ 2 * (t - m) <= h + 1
        BY <4>2, <4>3
      <4>5. 2 * Distance(m, t) <= h + 1
        BY <4>4 DEF Distance
      <4> QED
        BY <4>1, <4>5
    <3> QED
      BY <2>7, <3>3, <3>7
  <2> QED
    BY <2>2, <2>6, <2>7, <2>8, <2>9, <2>10
<1> QED
  BY <1>1, <1>2 DEF OneReading

-----------------------------------------------------------------------------
(* The analysis. *)

\* A clip's anchors are its view's, strike or no strike.
LEMMA AnchoredIsOfItsView ==
  ASSUME NEW faceOn \in BOOLEAN, NEW s \in Anchored(faceOn)
  PROVE  s.faceOn = faceOn
<1>1. PICK t \in Segmented(faceOn), strikes \in {{}} \cup {{f, g} : f, g \in 0..Longest + 1} :
        s = WithMeasuredImpact(t, strikes)
  BY DEF Anchored
<1>2. t \in SwingAnchors
  BY SegmentedInOrder DEF InOrder
<1>3. t.faceOn = faceOn
  BY DEF Segmented, Anchors
<1>4. ASSUME NEW impact PROVE [t EXCEPT !.impact = impact, !.heard = TRUE].faceOn = t.faceOn
  BY <1>2 DEF SwingAnchors
<1> QED
  BY <1>1, <1>3, <1>4 DEF WithMeasuredImpact

\* What is aligned follows the anchors from the step that finds them.
Ordered ==
  /\ anchors \in [Clips -> FaceOnAnchors \cup {None}]
  /\ stage = "render" => Rendered

\* A rendered alignment is one of two views, each with its instants in order.
LEMMA AlignOrders ==
  ASSUME Ordered, NEW s \in DownTheLineAnchors, Align(s)
  PROVE  Ordered'
<1> DEFINE A == [anchors EXCEPT !["b"] = s]
<1>1. anchors' \in [Clips -> FaceOnAnchors \cup {None}]
  BY DEF Align, Nothing
<1>2. anchors["a"] \in FaceOnAnchors
  BY DEF Ordered, Align, Clips
<1>3. InOrder(anchors["a"]) /\ anchors["a"].faceOn
  BY <1>2, AnchoredInOrder, AnchoredIsOfItsView DEF FaceOnAnchors
<1>4. InOrder(s) /\ ~s.faceOn
  BY AnchoredInOrder, AnchoredIsOfItsView DEF DownTheLineAnchors
<1>5. A["a"] = anchors["a"] /\ A["b"] = s
  BY DEF Ordered, Clips
<1>6. Both(A)
  BY <1>3, <1>4 DEF Both, InOrder, Clips, Ordered
<1>7. Viewed(A)
  BY <1>3, <1>4, <1>5, <1>6 DEF Viewed
<1>8. aligned' = AlignSwings(A)
  BY DEF Align
<1>9. Rendered'
  BY <1>7, <1>8 DEF Rendered
<1> QED
  BY <1>1, <1>9 DEF Ordered

\* Every state is Ordered.
LEMMA AlwaysOrdered == Spec => []Ordered
<1>1. Init => Ordered
  BY DEF Init, Ordered, Nothing
<1>2. Ordered /\ [Next]_vars => Ordered'
  <2> SUFFICES ASSUME Ordered, [Next]_vars PROVE Ordered'
    OBVIOUS
  <2>1. ASSUME NEW p \in Positions, NEW seen \in BOOLEAN, Film(p, seen) PROVE Ordered'
    BY <2>1 DEF Film, Ordered
  <2>2. ASSUME NEW strikes, NEW fps, PickFaceOn(strikes, fps) PROVE Ordered'
    BY <2>2 DEF PickFaceOn, Ordered
  <2>3. ASSUME NEW field, NEW strikes, NEW fps, PickDownTheLine(field, strikes, fps) PROVE Ordered'
    BY <2>3 DEF PickDownTheLine, Ordered
  <2>4. CASE Segmenting
    BY <2>4 DEF Segmenting, Ordered
  <2>5. ASSUME NEW s \in FaceOnAnchors \cup {None}, AnchorFaceOn(s) PROVE Ordered'
    BY <2>5 DEF AnchorFaceOn, Ordered, Clips
  <2>6. ASSUME NEW s \in DownTheLineAnchors, Align(s) PROVE Ordered'
    BY <2>6, AlignOrders
  <2>7. CASE UNCHANGED vars
    BY <2>7 DEF vars, Ordered, Rendered
  <2> QED
    BY <2>1, <2>2, <2>3, <2>4, <2>5, <2>6, <2>7 DEF Next
<1> QED
  BY <1>1, <1>2, PTL DEF Spec

\* A frame of film is a frame.
LEMMA FilmIsOfFrames ==
  ASSUME Picks, NEW p \in Positions, NEW seen \in BOOLEAN, Film(p, seen)
  PROVE  Picks'
<1>1. p[1] \in Nat /\ p[2] \in Nat
  BY TimingConstants
<1>2. [x |-> p[1], y |-> p[2], seen |-> seen] \in Frame
  BY <1>1 DEF Frame
<1>3. clip' \in Seq(Frame)
  BY <1>2 DEF Film, Picks
<1> QED
  BY <1>3 DEF Film, Picks

\* Every state's clip and picked views are as Picks says.
LEMMA AlwaysPicks == Spec => []Picks
<1>1. Init => Picks
  BY DEF Init, Picks
<1>2. Picks /\ [Next]_vars => Picks'
  <2> SUFFICES ASSUME Picks, [Next]_vars PROVE Picks'
    OBVIOUS
  <2>1. ASSUME NEW p \in Positions, NEW seen \in BOOLEAN, Film(p, seen) PROVE Picks'
    BY <2>1, FilmIsOfFrames
  <2>2. ASSUME NEW strikes, NEW fps \in Rates, PickFaceOn(strikes, fps) PROVE Picks'
    BY <2>2, FaceOnIsKept
  <2>3. ASSUME NEW field \in Fields, NEW strikes, NEW fps \in Rates,
               PickDownTheLine(field, strikes, fps)
        PROVE  Picks'
    BY <2>3, DownTheLineIsKept
  <2>4. CASE Segmenting
    BY <2>4 DEF Segmenting, Picks
  <2>5. ASSUME NEW s, AnchorFaceOn(s) PROVE Picks'
    BY <2>5 DEF AnchorFaceOn, Picks
  <2>6. ASSUME NEW s, Align(s) PROVE Picks'
    BY <2>6 DEF Align, Picks
  <2>7. CASE UNCHANGED vars
    BY <2>7 DEF vars, Picks, PickedView, Kept
  <2> QED
    BY <2>1, <2>2, <2>3, <2>4, <2>5, <2>6, <2>7 DEF Next
<1> QED
  BY <1>1, <1>2, PTL DEF Spec

\* In what is rendered each clip's warp is pinned to instants that are in order.
LEMMA RenderedIsPinned ==
  ASSUME Ordered
  PROVE  stage = "render" => \A v \in Clips : Pinned(aligned.clip[v])
<1> SUFFICES ASSUME stage = "render", NEW v \in Clips PROVE Pinned(aligned.clip[v])
  OBVIOUS
<1>1. PICK A : Viewed(A) /\ aligned = AlignSwings(A)
  BY DEF Ordered, Rendered
<1> QED
  BY <1>1, AlignedIsPinned DEF Viewed

\* And those are what the warp divides by.
LEMMA PinnedIsInOrder ==
  ASSUME Ordered
  PROVE  WarpInOrder
<1> SUFFICES ASSUME stage = "render", NEW v \in Clips
             PROVE  LET c == aligned.clip[v]
                    IN /\ c.anchors.motion <= c.anchors.top /\ c.anchors.top < c.anchors.impact
                       /\ 0 <= c.motion /\ c.motion <= c.top /\ c.top < c.anchors.impact
                       /\ c.anchors.impact <= LastFrame(c.anchors)
  BY DEF WarpInOrder
<1>1. Pinned(aligned.clip[v])
  BY RenderedIsPinned
<1> QED
  BY <1>1 DEF Pinned, InOrder

\* Spec => []WarpInOrder: for clips of any length, any rates and any strikes, the warp's
\* instants are in order and in the clip once all anchors have been moved.
THEOREM WarpsAreInOrder == Spec => []WarpInOrder
<1>1. Ordered => WarpInOrder
  BY PinnedIsInOrder
<1> QED
  BY <1>1, AlwaysOrdered, PTL

\* Spec => []EitherOrder: align_swings comes to the same whichever clip it is given first.
THEOREM AlignmentsAreOfEitherOrder == Spec => []EitherOrder
<1>1. Ordered => EitherOrder
  BY RenderedEitherWay DEF Ordered
<1> QED
  BY <1>1, AlwaysOrdered, PTL

\* Spec => []TopsMeet: tops that _shared_tops moved are as far back in real time, to less
\* than a frame, and with both strikes heard only the late one moved, by what is reported.
THEOREM MovedTopsMeet == Spec => []TopsMeet
<1>1. Ordered => TopsMeet
  BY RenderedTopsMeet DEF Ordered
<1> QED
  BY <1>1, AlwaysOrdered, PTL

\* Spec => []HonestSpeed: at any two recorded rates, in any pairing of the frames of two
\* clips, no panel is played more than a tenth too fast or too slow (pair_frames).
THEOREM SpeedsAreHonest == Spec => []HonestSpeed
<1>1. Ordered => HonestSpeed
  BY RenderedIsPinned, PinnedIsHonest
<1> QED
  BY <1>1, AlwaysOrdered, PTL

\* Spec => []NothingIsLost: whatever the other view measured and in whichever order the two
\* are picked, _pick_swing finds a swing in a view wherever it would have found one alone.
THEOREM PicksLoseNothing == Spec => []NothingIsLost
<1>1. Picks => NothingIsLost
  BY PicksKeep
<1> QED
  BY <1>1, AlwaysPicks, PTL

\* Spec => []OneReading: of any film whatever, the descents, the boundaries of the segments,
\* the listings and the instants of the warp say the same of its swing.
THEOREM EveryReadingIsOne == Spec => []OneReading
<1>1. Picks => OneReading
  BY ReadersAgree DEF Picks
<1> QED
  BY <1>1, AlwaysPicks, PTL
=============================================================================
