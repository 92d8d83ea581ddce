------------------------- MODULE LiveTrigger_proofs -------------------------
(***************************************************************************)
(* What the live trigger promises, for every span, block size, loudness    *)
(* and length of the stream.  The argument is about one order: strikes are *)
(* named in the order they were heard, a silence apart, each exactly a     *)
(* hold after it; the cutter keeps that order from clip to clip, and is    *)
(* never further behind the detector than one block.                       *)
(***************************************************************************)
EXTENDS LiveTrigger, SequenceTheorems, TLAPS

First(clip) == clip.triggers[1]

\* Strikes one after the other, a silence apart.
Sorted(strikes) ==
  \A i, k \in 1..Len(strikes) : i < k => strikes[i] + Refractory <= strikes[k]

\* A clip around its strikes, no longer than a clip may be.
Cut(clip) ==
  /\ clip.triggers # <<>> /\ Sorted(clip.triggers)
  /\ clip.start <= First(clip) /\ Last(clip) < clip.end
  /\ clip.end <= clip.start + MaxClip

\* It has the whole trail of its last strike, unless it is at the ceiling.
Trailed(clip) == clip.end = clip.start + MaxClip \/ Last(clip) + Post <= clip.end

\* It starts where start put it, given the strike before it.
Begun(clip, before) == clip.start = Begin(First(clip), before).start

Before(q, i) == IF i = 1 THEN None ELSE Last(q[i - 1])

\* A clip, and a strike named later: apart, and heard in the last hold of the clip
\* at the earliest.
Precedes(clip, t) == Last(clip) + Refractory <= t /\ clip.end <= t + Hold

\* Clips in the order of their strikes.
InOrder(q) ==
  \A i \in 1..Len(q) :
    /\ Cut(q[i]) /\ Begun(q[i], Before(q, i))
    /\ \A k \in 1..Len(q) : i < k => Precedes(q[i], First(q[k]))

\* What was reported: in order, with its footage, and complete when it says so.
Ordered(q) ==
  /\ InOrder(q)
  /\ \A i \in 1..Len(q) : q[i].footage /\ (q[i].complete => Trailed(q[i]))

\* The detector: a burst is louder than the bar only after the silence, and its
\* window is open; every strike that was named is past its hold, and silenced.
Named(t) == t + Refractory <= silentUntil /\ t + Hold < frames

DetectorInv ==
  /\ holding # None => /\ silentUntil <= holding.hop
                       /\ holding.hop < frames /\ frames <= holding.hop + Hold
  /\ \A f \in 1..Len(fired) : Named(fired[f])
  /\ open # None => Named(Last(open))
  /\ \A i \in 1..Len(clips) : Named(Last(clips[i]))

\* The cutter: what was reported, what is open and what is waiting are in one order.
ClipsInv ==
  /\ Ordered(clips)
  /\ \A i \in 1..Len(clips) :
       /\ at # "over" => clips[i].end <= frames
       /\ \A f \in 1..Len(fired) : Precedes(clips[i], fired[f])
  /\ guard = IF clips = <<>> THEN None ELSE Last(clips[Len(clips)])

OpenInv ==
  open # None =>
    /\ Cut(open) /\ Trailed(open) /\ Begun(open, guard)
    /\ \A i \in 1..Len(clips) : Precedes(clips[i], First(open))
    /\ \A f \in 1..Len(fired) : Last(open) + Refractory <= fired[f]

\* How far behind the detector they are: a block, at most.
LagInv ==
  /\ Sorted(fired)
  /\ at = "detect" =>
       /\ open # None => frames < open.end + block
       /\ \A f \in 1..Len(fired) : frames <= fired[f] + Hold + block
       /\ block = 0 => fired = <<>>
  /\ at = "cut" =>
       /\ open # None => frames <= open.start + MaxClip + MaxBlock
       /\ \A f \in 1..Len(fired) : frames <= fired[f] + Hold + MaxBlock
       /\ block = 0
  /\ at = "over" => open = None /\ fired = <<>>
  /\ at = "cut" \/ (at = "detect" /\ block = 0 /\ frames > 0) =>
       /\ ring.position = frames + Lag
       /\ ring.first <= IF ring.position > Capacity THEN ring.position - Capacity ELSE 0

Inv == TypeOK /\ DetectorInv /\ ClipsInv /\ OpenInv /\ LagInv
-----------------------------------------------------------------------------
(* Spans and sequences. *)

LEMMA SpansAreNumbers ==
  /\ Hold \in Nat \ {0} /\ Refractory \in Nat /\ Pre \in Nat /\ Post \in Nat
  /\ MinTrail \in Nat \ {0} /\ MinLead \in Nat /\ MaxClip \in Nat
  /\ Lag \in Nat /\ MaxBlock \in Nat \ {0} /\ Capacity \in Nat /\ MaxHops \in Nat
  /\ Hold < Refractory /\ Refractory < Post /\ MinLead <= Pre /\ MinTrail <= Post
  /\ Pre + Post <= MaxClip /\ MaxClip + Lag + MaxBlock <= Capacity
  /\ None \notin Nat
  BY TriggerConstants DEF SpansFit

LEMMA Bounds ==
  ASSUME NEW a \in Int, NEW b \in Int
  PROVE  /\ Least(a, b) \in {a, b} /\ Least(a, b) <= a /\ Least(a, b) <= b
         /\ Most(a, b) \in {a, b} /\ Most(a, b) >= a /\ Most(a, b) >= b
  BY DEF Least, Most

\* None is neither a strike, a burst nor a clip.
LEMMA NoneIsNothing == None \notin Peak /\ None \notin Clip
  BY TriggerConstants

LEMMA Appended ==
  ASSUME NEW S, NEW q \in Seq(S), NEW x \in S
  PROVE  /\ Append(q, x) \in Seq(S) /\ Append(q, x) # <<>>
         /\ Len(q) \in Nat /\ Len(Append(q, x)) = Len(q) + 1
         /\ \A i \in 1..Len(q) : Append(q, x)[i] = q[i] /\ q[i] \in S
         /\ Append(q, x)[Len(q) + 1] = x
  OBVIOUS

LEMMA TailOf ==
  ASSUME NEW S, NEW q \in Seq(S), q # <<>>
  PROVE  /\ Tail(q) \in Seq(S) /\ Len(q) \in Nat \ {0} /\ Len(Tail(q)) = Len(q) - 1
         /\ Head(q) = q[1] /\ Head(q) \in S
         /\ \A i \in 1..Len(Tail(q)) : Tail(q)[i] = q[i + 1] /\ i + 1 \in 1..Len(q)
  OBVIOUS

LEMMA SortedAppended ==
  ASSUME NEW q \in Seq(Nat), NEW t \in Nat, Sorted(q), q # <<>>, q[Len(q)] + Refractory <= t
  PROVE  Sorted(Append(q, t))
<1>1. \A i \in 1..Len(q) : q[i] <= q[Len(q)]
  BY SpansAreNumbers DEF Sorted
<1>2. \A i \in 1..Len(q) : q[i] + Refractory <= t
  BY <1>1, SpansAreNumbers
<1>3. ASSUME NEW i \in 1..Len(Append(q, t)), NEW k \in 1..Len(Append(q, t)), i < k
      PROVE  Append(q, t)[i] + Refractory <= Append(q, t)[k]
  <2>1. i \in 1..Len(q) /\ Append(q, t)[i] = q[i]
    BY <1>3
  <2>2. CASE k \in 1..Len(q)
    BY <1>3, <2>1, <2>2 DEF Sorted
  <2>3. CASE k = Len(q) + 1
    BY <1>2, <2>1, <2>3
  <2> QED
    BY <2>2, <2>3
<1> QED
  BY <1>3 DEF Sorted

LEMMA SortedTail ==
  ASSUME NEW q \in Seq(Nat), q # <<>>, Sorted(q)
  PROVE  Sorted(Tail(q)) /\ \A f \in 1..Len(Tail(q)) : Head(q) + Refractory <= Tail(q)[f]
  BY TailOf DEF Sorted

\* A clip that is cut has a first and a last strike, in this order.
LEMMA StrikesOfAClip ==
  ASSUME NEW clip \in Clip \cup Reported, Cut(clip)
  PROVE  /\ clip.start \in Nat /\ clip.end \in Nat /\ clip.triggers \in Seq(Nat)
         /\ Len(clip.triggers) \in Nat \ {0}
         /\ First(clip) \in Nat /\ Last(clip) \in Nat /\ First(clip) <= Last(clip)
         /\ \A i \in 1..Len(clip.triggers) :
              clip.triggers[i] \in Nat /\ First(clip) <= clip.triggers[i]
                                       /\ clip.triggers[i] <= Last(clip)
<1>1. /\ clip.start \in Nat /\ clip.end \in Nat /\ clip.triggers \in Seq(Hops)
      /\ clip.triggers # <<>>
  BY DEF Clip, Reported, Cut
<1>2. /\ clip.triggers \in Seq(Nat) /\ Len(clip.triggers) \in Nat \ {0}
      /\ \A i \in 1..Len(clip.triggers) : clip.triggers[i] \in Nat
  BY <1>1, SpansAreNumbers DEF Hops
<1>3. \A i, k \in 1..Len(clip.triggers) : i < k => clip.triggers[i] <= clip.triggers[k]
  BY <1>2, SpansAreNumbers DEF Cut, Sorted
<1>4. ASSUME NEW i \in 1..Len(clip.triggers)
      PROVE  clip.triggers[1] <= clip.triggers[i] /\ clip.triggers[i] <= clip.triggers[Len(clip.triggers)]
  BY <1>2, <1>3
<1> QED
  BY <1>1, <1>2, <1>4 DEF First, Last

-----------------------------------------------------------------------------
(* The cutter's clips. *)

\* A clip that is begun at a strike holds it, reaches no further back than the
\* lead, and has the whole of its trail.
LEMMA BegunWell ==
  ASSUME NEW t \in Hops, NEW before \in Nat \cup {None}
  PROVE  LET clip == Begin(t, before)
         IN /\ clip \in Clip /\ clip # None /\ Cut(clip) /\ Trailed(clip) /\ Begun(clip, before)
            /\ First(clip) = t /\ Last(clip) = t
            /\ t <= clip.start + Pre /\ clip.end = t + Post
            /\ Strikes(clip) = {t}
<1> DEFINE clip == Begin(t, before)
           lead == IF t > Pre THEN t - Pre ELSE 0
           floor == IF before = None THEN 0 ELSE before + MinTrail
<1>1. t \in Nat /\ lead \in Nat /\ floor \in Nat /\ t <= lead + Pre /\ lead <= t
  BY SpansAreNumbers DEF Hops
<1>2. clip = [start |-> Least(t, Most(lead, floor)), end |-> t + Post, triggers |-> <<t>>]
  BY DEF Begin
<1>3. /\ clip.start = Least(t, Most(lead, floor)) /\ clip.end = t + Post
      /\ clip.triggers = <<t>> /\ Len(clip.triggers) = 1 /\ clip.triggers[1] = t
  BY <1>2
<1>4. clip.start \in Nat /\ clip.start <= t /\ t <= clip.start + Pre
  <2> HIDE DEF lead, floor, clip
  <2>1. Most(lead, floor) \in Nat /\ lead <= Most(lead, floor)
    BY <1>1 DEF Most
  <2>2. /\ Least(t, Most(lead, floor)) \in {t, Most(lead, floor)}
        /\ Least(t, Most(lead, floor)) <= t
    BY <1>1, <2>1, Bounds
  <2> QED
    BY <1>1, <1>3, <2>1, <2>2, SpansAreNumbers
<1>5. clip \in Clip
  BY <1>1, <1>2, <1>3, <1>4, SpansAreNumbers DEF Clip
<1>6. First(clip) = t /\ Last(clip) = t
  BY <1>3 DEF First, Last
<1>7. Cut(clip)
  <2>1. Sorted(clip.triggers) /\ clip.triggers # <<>>
    BY <1>3 DEF Sorted
  <2>2. Last(clip) < clip.end /\ clip.end <= clip.start + MaxClip
    BY <1>1, <1>3, <1>4, <1>6, SpansAreNumbers
  <2> QED
    BY <2>1, <2>2, <1>4, <1>6 DEF Cut
<1>8. Trailed(clip) /\ Begun(clip, before)
  BY <1>1, <1>3, <1>6, SpansAreNumbers DEF Trailed, Begun
<1>9. Strikes(clip) = {t}
  BY <1>3 DEF Strikes
<1> QED
  BY <1>3, <1>4, <1>5, <1>6, <1>7, <1>8, <1>9, NoneIsNothing

\* A clip a strike is merged into stays where it began, and ends with that strike.
LEMMA ExtendedWell ==
  ASSUME NEW clip \in Clip, NEW t \in Hops, NEW before, Cut(clip), Begun(clip, before),
         t < clip.end, Last(clip) + Refractory <= t
  PROVE  LET longer == Extended(clip, t)
         IN /\ longer \in Clip /\ longer # None /\ Cut(longer) /\ Trailed(longer)
            /\ Begun(longer, before)
            /\ longer.start = clip.start /\ First(longer) = First(clip) /\ Last(longer) = t
<1> DEFINE longer == Extended(clip, t)
           end == Least(Most(clip.end, t + Post), clip.start + MaxClip)
<1>1. /\ clip.start \in Nat /\ clip.end \in Nat /\ clip.triggers \in Seq(Nat)
      /\ Len(clip.triggers) \in Nat \ {0} /\ First(clip) \in Nat /\ Last(clip) \in Nat
      /\ First(clip) <= Last(clip)
  BY StrikesOfAClip
<1>2. t \in Nat
  BY SpansAreNumbers DEF Hops
<1>3. clip.triggers \in Seq(Hops) /\ Append(clip.triggers, t) \in Seq(Hops)
  BY DEF Clip
<1>4. end \in Nat /\ end <= clip.start + MaxClip /\ t < end
      /\ (end = clip.start + MaxClip \/ t + Post <= end)
  <2> DEFINE later == Most(clip.end, t + Post)
             ceiling == clip.start + MaxClip
  <2>1. clip.end <= ceiling /\ ceiling \in Nat /\ t < clip.end /\ t + Post \in Nat
    <3>1. clip.end <= clip.start + MaxClip
      BY DEF Cut
    <3>2. clip.start + MaxClip \in Nat /\ t + Post \in Nat
      BY ONLY <1>1, <1>2, SpansAreNumbers
    <3> QED
      BY <3>1, <3>2
  <2>2. later \in Nat /\ clip.end <= later /\ t + Post <= later
    BY ONLY <1>1, <2>1 DEF Most
  <2> HIDE DEF later, ceiling
  <2>3. Least(later, ceiling) \in {later, ceiling} /\ Least(later, ceiling) <= ceiling
    BY <2>1, <2>2, Bounds
  <2>4. t < ceiling /\ t < later
    BY ONLY <1>1, <1>2, <2>1, <2>2
  <2> QED
    BY ONLY <2>1, <2>2, <2>3, <2>4, <1>1, <1>2 DEF later, ceiling
<1>5. /\ longer.start = clip.start /\ longer.end = end
      /\ longer.triggers = Append(clip.triggers, t) /\ longer \in Clip
  <2> DEFINE strikes == Append(clip.triggers, t)
  <2>1. longer = [clip EXCEPT !.end = end, !.triggers = strikes]
    BY DEF Extended
  <2>2. end \in Nat /\ strikes \in Seq(Hops)
    BY <1>3, <1>4
  <2> HIDE DEF longer, end, strikes
  <2>3. /\ longer \in Clip
        /\ longer.start = clip.start /\ longer.end = end /\ longer.triggers = strikes
    BY <2>1, <2>2 DEF Clip
  <2> QED
    BY <2>3 DEF strikes
<1>7. /\ longer.triggers[1] = clip.triggers[1] /\ Len(longer.triggers) = Len(clip.triggers) + 1
      /\ longer.triggers[Len(longer.triggers)] = t /\ longer.triggers # <<>>
  BY <1>1, <1>2, <1>5, Appended
<1>8. First(longer) = First(clip) /\ Last(longer) = t
  BY <1>7 DEF First, Last
<1>10. Sorted(longer.triggers)
  <2>1. clip.triggers # <<>> /\ Sorted(clip.triggers)
    BY DEF Cut
  <2> QED
    BY <2>1, <1>1, <1>2, <1>5, SortedAppended DEF Last
<1>11. Cut(longer) /\ Trailed(longer) /\ Begun(longer, before)
  BY <1>1, <1>2, <1>5, <1>4, <1>7, <1>8, <1>10 DEF Cut, Trailed, Begun
<1> QED
  BY <1>5, <1>8, <1>11, NoneIsNothing

\* What is reported of a clip is the clip, and whether the ring still had it.
LEMMA ReportOf ==
  ASSUME NEW clip \in Clip, NEW complete \in BOOLEAN, Cut(clip)
  PROVE  LET r == Report(clip, complete)
         IN /\ r \in Reported /\ Cut(r)
            /\ r.start = clip.start /\ r.end = clip.end
            /\ First(r) = First(clip) /\ Last(r) = Last(clip)
            /\ r.complete = complete
            /\ ring.first <= clip.start /\ clip.end <= ring.position => r.footage
            /\ Trailed(clip) => Trailed(r)
            /\ \A before : Begun(clip, before) => Begun(r, before)
<1> DEFINE r == Report(clip, complete)
<1>1. /\ r.start = clip.start /\ r.end = clip.end /\ r.triggers = clip.triggers
      /\ r.complete = complete
      /\ ring.first <= clip.start /\ clip.end <= ring.position => r.footage
  BY DEF Report
<1>2. r \in Reported
  BY DEF Report, Reported, Clip
<1> HIDE DEF r
<1>3. First(r) = First(clip) /\ Last(r) = Last(clip)
  BY <1>1 DEF First, Last
<1>4. Cut(r) /\ (Trailed(clip) => Trailed(r)) /\ \A before : Begun(clip, before) => Begun(r, before)
  BY <1>1, <1>3 DEF Cut, Trailed, Begun
<1> QED
  BY <1>1, <1>2, <1>3, <1>4 DEF r

\* A clip begun where the open one was is the next in the order of the clips.
LEMMA NextInOrder ==
  ASSUME TypeOK, ClipsInv, OpenInv, open # None, NEW r \in Reported,
         Cut(r), Begun(r, guard), First(r) = First(open),
         NEW q, q = Append(clips, r)
  PROVE  InOrder(q)
<1> DEFINE n == Len(clips)
<1>1. /\ q \in Seq(Reported) /\ q # <<>> /\ n \in Nat /\ Len(q) = n + 1 /\ q[n + 1] = r
      /\ \A i \in 1..n : q[i] = clips[i]
  BY Appended DEF TypeOK
<1>2. ASSUME NEW i \in 1..Len(q)
      PROVE  Cut(q[i]) /\ Begun(q[i], Before(q, i))
  <2>1. CASE i \in 1..n
    <3>1. Cut(clips[i]) /\ Begun(clips[i], Before(clips, i))
      BY <2>1 DEF ClipsInv, Ordered, InOrder
    <3>2. Before(clips, i) = Before(q, i)
      BY <2>1, <1>1 DEF Before
    <3> QED
      BY <3>1, <3>2, <2>1, <1>1
  <2>2. CASE i = n + 1
    <3>1. guard = Before(q, i)
      <4>1. CASE n = 0
        BY <4>1, <2>2 DEF ClipsInv, Before, TypeOK
      <4>2. CASE n # 0
        <5>1. clips # <<>> /\ q[i - 1] = clips[n] /\ i # 1
          BY <4>2, <2>2, <1>1
        <5> QED
          BY <5>1 DEF ClipsInv, Before
      <4> QED
        BY <4>1, <4>2
    <3> QED
      BY <3>1, <2>2, <1>1
  <2> QED
    BY <2>1, <2>2, <1>1
<1>3. ASSUME NEW i \in 1..Len(q), NEW k \in 1..Len(q), i < k
      PROVE  Precedes(q[i], First(q[k]))
  <2>1. i \in 1..n /\ q[i] = clips[i]
    BY <1>1, <1>3
  <2>2. CASE k \in 1..n
    BY <1>1, <1>3, <2>1, <2>2 DEF ClipsInv, Ordered, InOrder
  <2>3. CASE k = n + 1
    <3>1. Precedes(clips[i], First(open))
      BY <2>1 DEF OpenInv
    <3> QED
      BY <3>1, <2>1, <2>3, <1>1
  <2> QED
    BY <2>2, <2>3, <1>1
<1> QED
  BY <1>1, <1>2, <1>3 DEF InOrder

\* The clip that is closed is the next of those reported.
LEMMA ClipAdded ==
  ASSUME TypeOK, ClipsInv, OpenInv, open # None, NEW r \in Reported,
         Cut(r), Begun(r, guard), r.footage, r.complete = FALSE \/ Trailed(r),
         First(r) = First(open), NEW q, q = Append(clips, r)
  PROVE  Ordered(q)
<1>0. InOrder(q)
  BY NextInOrder
<1>1. /\ Len(clips) \in Nat /\ Len(q) = Len(clips) + 1 /\ q[Len(q)] = r
      /\ \A i \in 1..Len(clips) : q[i] = clips[i]
  BY Appended DEF TypeOK
<1>2. \A i \in 1..Len(clips) : clips[i].footage /\ (clips[i].complete => Trailed(clips[i]))
  BY DEF ClipsInv, Ordered
<1>3. \A i \in 1..Len(q) : i \in 1..Len(clips) \/ i = Len(q)
  BY <1>1
<1> QED
  BY <1>0, <1>1, <1>2, <1>3 DEF Ordered

LEMMA Typed ==
  ASSUME TypeOK
  PROVE  /\ frames \in Nat /\ block \in Nat /\ silentUntil \in Nat
         /\ ring.position \in Nat /\ ring.first \in Nat
         /\ fired \in Seq(Nat) /\ \A f \in 1..Len(fired) : fired[f] \in Hops /\ fired[f] \in Nat
         /\ \A i \in 1..Len(clips) : clips[i] \in Reported /\ clips[i].end \in Nat
         /\ open # None => open \in Clip /\ open.start \in Nat /\ open.end \in Nat
<1>1. \A i \in 1..Len(clips) : clips[i] \in Reported
  BY DEF TypeOK
<1>2. \A i \in 1..Len(clips) : clips[i].end \in Nat
  BY <1>1 DEF Reported
<1>3. Hops \subseteq Nat
  BY SpansAreNumbers DEF Hops
<1>4. \A f \in 1..Len(fired) : fired[f] \in Hops
  BY DEF TypeOK
<1>5. fired \in Seq(Nat)
  <2>1. fired \in Seq(Hops)
    BY DEF TypeOK
  <2> QED
    BY <2>1, SpansAreNumbers DEF Hops
<1>6. open # None => open \in Clip /\ open.start \in Nat /\ open.end \in Nat
  BY DEF TypeOK, Clip
<1>7. frames \in Nat /\ block \in Nat /\ silentUntil \in Nat
  BY <1>3, SpansAreNumbers DEF TypeOK
<1>8. ring.position \in Nat /\ ring.first \in Nat
  BY DEF TypeOK
<1> QED
  BY <1>1, <1>2, <1>3, <1>4, <1>5, <1>6, <1>7, <1>8

-----------------------------------------------------------------------------
(* The detector. *)

\* A strike is named when its hold is over, in the order of the strikes.
LEMMA NamedInOrder ==
  ASSUME TypeOK, DetectorInv, LagInv, NEW t \in Hops,
         silentUntil <= t, frames = t + Hold, block \in Nat, at = "detect"
  PROVE  LET q == Append(fired, t)
         IN /\ q \in Seq(Hops) /\ Sorted(q)
            /\ \A f \in 1..Len(q) :
                 /\ q[f] = t \/ (f \in 1..Len(fired) /\ q[f] = fired[f])
                 /\ q[f] + Refractory <= t + Refractory /\ q[f] + Hold < frames + 1
                 /\ frames + 1 <= q[f] + Hold + (block + 1)
<1> DEFINE q == Append(fired, t)
           n == Len(fired)
<1>1. /\ t \in Nat /\ frames \in Nat /\ silentUntil \in Nat /\ fired \in Seq(Hops)
      /\ fired \in Seq(Nat)
  BY SpansAreNumbers DEF TypeOK, Hops
<1>2. /\ q \in Seq(Hops) /\ n \in Nat /\ Len(q) = n + 1 /\ q[n + 1] = t
      /\ \A f \in 1..n : q[f] = fired[f] /\ fired[f] \in Nat
  BY <1>1, Appended
<1> HIDE DEF q
<1>3. \A f \in 1..n : /\ fired[f] + Refractory <= t /\ fired[f] + Hold < frames
                      /\ frames <= fired[f] + Hold + block
  BY <1>1, <1>2, SpansAreNumbers DEF DetectorInv, LagInv, Named
<1>4. Sorted(q)
  <2>1. ASSUME NEW i \in 1..Len(q), NEW k \in 1..Len(q), i < k
        PROVE  q[i] + Refractory <= q[k]
    <3>1. i \in 1..n /\ q[i] = fired[i]
      BY <1>2, <2>1
    <3>2. CASE k \in 1..n
      BY <1>2, <2>1, <3>1, <3>2 DEF LagInv, Sorted
    <3>3. CASE k = n + 1
      BY <1>2, <1>3, <3>1, <3>3
    <3> QED
      BY <3>2, <3>3, <1>2
  <2> QED
    BY <2>1 DEF Sorted
<1>5. ASSUME NEW f \in 1..Len(q)
      PROVE  /\ q[f] = t \/ (f \in 1..Len(fired) /\ q[f] = fired[f])
             /\ q[f] + Refractory <= t + Refractory /\ q[f] + Hold < frames + 1
             /\ frames + 1 <= q[f] + Hold + (block + 1)
  <2>1. CASE f \in 1..n
    <3>1. /\ q[f] = fired[f] /\ fired[f] \in Nat /\ fired[f] + Refractory <= t
          /\ fired[f] + Hold < frames /\ frames <= fired[f] + Hold + block
      BY <2>1, <1>2, <1>3
    <3>2. Hold \in Nat /\ Refractory \in Nat
      BY SpansAreNumbers
    <3>3. /\ q[f] + Refractory <= t + Refractory /\ q[f] + Hold < frames + 1
          /\ frames + 1 <= q[f] + Hold + (block + 1)
      <4>1. t \in Nat /\ frames \in Nat /\ block \in Nat
        BY <1>1
      <4> QED
        BY ONLY <3>1, <3>2, <4>1
    <3> QED
      BY <2>1, <3>1, <3>3
  <2>2. CASE f = n + 1
    BY <2>2, <1>1, <1>2, SpansAreNumbers
  <2> QED
    BY <2>1, <2>2, <1>2
<1> QED
  BY <1>2, <1>4, <1>5 DEF q

\* What was named is a hop, and was named.
LEMMA NamedHops ==
  ASSUME TypeOK, DetectorInv, ClipsInv, OpenInv
  PROVE  /\ \A f \in 1..Len(fired) : fired[f] \in Nat /\ Named(fired[f])
         /\ open # None => Last(open) \in Nat /\ Named(Last(open))
         /\ \A i \in 1..Len(clips) : /\ clips[i] \in Reported /\ clips[i].end \in Nat
                                     /\ Cut(clips[i])
                                     /\ Last(clips[i]) \in Nat /\ Named(Last(clips[i]))
<1>1. \A f \in 1..Len(fired) : fired[f] \in Nat /\ Named(fired[f])
  BY Typed DEF DetectorInv
<1>2. open # None => Last(open) \in Nat /\ Named(Last(open))
  BY Typed, StrikesOfAClip DEF OpenInv, DetectorInv
<1>3. \A i \in 1..Len(clips) : clips[i] \in Reported /\ clips[i].end \in Nat /\ Cut(clips[i])
  BY Typed DEF ClipsInv, Ordered, InOrder
<1>4. \A i \in 1..Len(clips) : Last(clips[i]) \in Nat /\ Named(Last(clips[i]))
  BY <1>3, StrikesOfAClip DEF DetectorInv
<1> QED
  BY <1>1, <1>2, <1>3, <1>4

\* A frame, whatever it is judged: the burst it leaves open began after the
\* silence and its window is open, and a burst whose window is over is a strike.
LEMMA FrameKept ==
  ASSUME Inv, Frame, NEW peak \in Peak \cup {None}, Release(peak), deafUntil' \in Nat,
         peak # None => /\ silentUntil <= peak.hop /\ peak.hop <= frames
                        /\ frames <= peak.hop + Hold
  PROVE  Inv'
<1>1. /\ TypeOK /\ DetectorInv /\ ClipsInv /\ OpenInv /\ LagInv
  BY DEF Inv
<1>2. /\ at = "detect" /\ at' = "detect" /\ frames' = frames + 1 /\ block' = block + 1
      /\ open' = open /\ guard' = guard /\ clips' = clips /\ ring' = ring
      /\ frames \in Nat /\ block \in Nat /\ frames' \in Hops /\ block' \in 0..MaxBlock
      /\ silentUntil \in Nat
  BY <1>1, SpansAreNumbers DEF Frame, cutter, TypeOK, Hops
<1>3. CASE peak # None /\ frames >= peak.hop + Hold
  <2> DEFINE t == peak.hop
  <2>1. /\ t \in Hops /\ t \in Nat /\ silentUntil <= t /\ frames = t + Hold
    BY <1>2, <1>3, SpansAreNumbers DEF Peak, Hops
  <2>2. /\ holding' = None /\ fired' = Append(fired, t) /\ silentUntil' = t + Refractory
    BY <1>3 DEF Release
  <2> HIDE DEF t
  <2>3. /\ fired' \in Seq(Hops) /\ Sorted(fired')
        /\ \A f \in 1..Len(fired') :
             /\ fired'[f] = t \/ (f \in 1..Len(fired) /\ fired'[f] = fired[f])
             /\ fired'[f] + Refractory <= t + Refractory /\ fired'[f] + Hold < frames + 1
             /\ frames + 1 <= fired'[f] + Hold + (block + 1)
    BY <1>1, <1>2, <2>1, <2>2, NamedInOrder
  <2>4. TypeOK'
    BY <1>1, <1>2, <2>1, <2>2, <2>3, SpansAreNumbers DEF TypeOK
  <2>5. DetectorInv'
    <3>1. \A f \in 1..Len(fired') : Named(fired[f])'
      BY <1>2, <2>2, <2>3 DEF Named
    <3>2. \A s \in Nat : Named(s) => Named(s)'
      BY <1>2, <2>1, <2>2, SpansAreNumbers DEF Named
    <3>3. open' # None => Named(Last(open))'
      BY <1>1, NamedHops, <3>2, <1>2 DEF Named, Last
    <3>4. \A i \in 1..Len(clips) : Named(Last(clips[i]))'
      BY <1>1, NamedHops, <3>2, <1>2 DEF Named, Last
    <3> QED
      BY <3>1, <3>3, <3>4, <1>2, <2>2 DEF DetectorInv
  <2>6. ClipsInv'
    <3>1. ASSUME NEW i \in 1..Len(clips), NEW f \in 1..Len(fired')
          PROVE  Precedes(clips[i], fired'[f])
      <4>1. /\ clips[i] \in Reported /\ Cut(clips[i])
            /\ clips[i].end <= frames
            /\ Named(Last(clips[i]))
        BY <1>1, <1>2, NamedHops DEF ClipsInv, Ordered, InOrder
      <4>2. Last(clips[i]) \in Nat /\ clips[i].end \in Nat
        BY <1>1, NamedHops
      <4>3. CASE fired'[f] = t
        BY <4>1, <4>2, <4>3, <1>2, <2>1, SpansAreNumbers DEF Named, Precedes
      <4>4. CASE f \in 1..Len(fired) /\ fired'[f] = fired[f]
        BY <1>1, <4>4 DEF ClipsInv, Ordered, InOrder
      <4> QED
        BY <2>3, <4>3, <4>4
    <3>2. \A i \in 1..Len(clips) : clips[i].end \in Nat /\ clips[i].end <= frames
      BY <1>1, <1>2, Typed DEF ClipsInv, Ordered, InOrder
    <3>3. \A i \in 1..Len(clips) : clips[i].end <= frames'
      BY <3>2, <1>2
    <3> QED
      BY <1>1, <1>2, <3>1, <3>3
      DEF ClipsInv, Ordered, InOrder, Precedes, Before, Begun, Cut, Trailed, Last, First
  <2>7. OpenInv'
    <3>1. ASSUME open # None, NEW f \in 1..Len(fired')
          PROVE  Last(open) + Refractory <= fired'[f]
      <4>1. Last(open) \in Nat /\ Named(Last(open))
        BY <1>1, <3>1, StrikesOfAClip DEF TypeOK, OpenInv, DetectorInv
      <4>2. CASE fired'[f] = t
        BY <4>1, <4>2, <1>2, <2>1, SpansAreNumbers DEF Named
      <4>3. CASE f \in 1..Len(fired) /\ fired'[f] = fired[f]
        BY <1>1, <3>1, <4>3 DEF OpenInv
      <4> QED
        BY <2>3, <4>2, <4>3
    <3> QED
      BY <1>1, <1>2, <3>1 DEF OpenInv, Precedes, Begun, Cut, Trailed, Last, First
  <2>8. LagInv'
    <3>1. open' # None => frames' < open'.end + block'
      BY <1>1, <1>2 DEF LagInv, TypeOK, Clip
    <3>2. \A f \in 1..Len(fired') : frames' <= fired'[f] + Hold + block'
      BY <2>3, <1>2
    <3> QED
      BY <1>2, <2>3, <3>1, <3>2 DEF LagInv
  <2> QED
    BY <2>4, <2>5, <2>6, <2>7, <2>8 DEF Inv
<1>4. CASE ~(peak # None /\ frames >= peak.hop + Hold)
  <2>1. holding' = peak /\ silentUntil' = silentUntil /\ fired' = fired
    BY <1>4 DEF Release
  <2>2. peak # None => /\ peak.hop \in Nat /\ silentUntil' <= peak.hop
                       /\ peak.hop < frames' /\ frames' <= peak.hop + Hold
    BY <1>2, <1>4, <2>1, SpansAreNumbers DEF Peak, Hops
  <2>3. TypeOK'
    BY <1>1, <1>2, <2>1, <2>2 DEF TypeOK
  <2>4. DetectorInv'
    <3>1. \A t \in Nat : Named(t) => Named(t)'
      BY <1>2, <2>1, SpansAreNumbers DEF Named
    <3>2. open' # None => Named(Last(open))'
      BY <1>1, NamedHops, <3>1, <1>2 DEF Named, Last
    <3>3. \A i \in 1..Len(clips) : Named(Last(clips[i]))'
      BY <1>1, NamedHops, <3>1, <1>2 DEF Named, Last
    <3>4. \A f \in 1..Len(fired) : Named(fired[f])'
      BY <1>1, NamedHops, <3>1, <2>1 DEF Named
    <3> QED
      BY <3>2, <3>3, <3>4, <1>2, <2>1, <2>2 DEF DetectorInv
  <2>5. ClipsInv'
    <3>1. \A i \in 1..Len(clips) : clips[i].end \in Nat /\ clips[i].end <= frames
      BY <1>1, <1>2, Typed DEF ClipsInv, Ordered, InOrder
    <3>2. \A i \in 1..Len(clips) : clips[i].end <= frames'
      BY <3>1, <1>2
    <3> QED
      BY <1>1, <1>2, <2>1, <3>2
      DEF ClipsInv, Ordered, InOrder, Precedes, Before, Begun, Cut, Trailed, Last, First
  <2>6. OpenInv'
    BY <1>1, <1>2, <2>1 DEF OpenInv, Precedes, Begun, Cut, Trailed, Last, First
  <2>7. LagInv'
    <3>1. open' # None => frames' < open'.end + block'
      BY <1>1, <1>2 DEF LagInv, TypeOK, Clip
    <3>2. \A f \in 1..Len(fired) : fired[f] \in Nat /\ frames <= fired[f] + Hold + block
      BY <1>1, <1>2, Typed DEF LagInv
    <3>3. \A f \in 1..Len(fired') : frames' <= fired'[f] + Hold + block'
      BY <3>2, <1>2, <2>1, SpansAreNumbers
    <3>4. Sorted(fired')
      BY <1>1, <2>1 DEF LagInv
    <3> QED
      BY <1>2, <3>1, <3>3, <3>4 DEF LagInv
  <2> QED
    BY <2>3, <2>4, <2>5, <2>6, <2>7 DEF Inv
<1> QED
  BY <1>3, <1>4

LEMMA DetectorKept ==
  ASSUME Inv, FirstFrame \/ NoFloor \/ Under \/ (\E z \in Loudness : Over(z))
  PROVE  Inv'
<1>1. /\ TypeOK /\ DetectorInv /\ LagInv
      /\ frames \in Nat /\ silentUntil \in Nat /\ deafUntil \in Nat
  BY Typed DEF Inv, TypeOK
<1>2. holding \in Peak \cup {None}
  BY <1>1 DEF TypeOK
<1>3. holding # None => /\ silentUntil <= holding.hop /\ holding.hop <= frames
                        /\ frames <= holding.hop + Hold /\ holding.hop \in Nat
  BY <1>1, <1>2, SpansAreNumbers DEF DetectorInv, Peak, Hops
<1>4. CASE FirstFrame
  <2>1. Frame /\ deafUntil' \in Nat /\ frames = 0
    BY <1>1, <1>4 DEF FirstFrame
  <2>2. holding = None
    BY <1>1, <2>1, <1>2, SpansAreNumbers DEF DetectorInv, Peak, Hops
  <2>3. Release(holding)
    BY <1>4, <2>2 DEF FirstFrame, Release
  <2> QED
    BY <1>2, <2>1, <2>2, <2>3, FrameKept
<1>5. CASE NoFloor
  <2>1. Frame /\ Release(None) /\ deafUntil' \in Nat
    BY <1>1, <1>5, TriggerConstants DEF NoFloor
  <2> QED
    BY <2>1, FrameKept
<1>6. CASE Under
  <2>1. Frame /\ Release(holding) /\ deafUntil' \in Nat
    BY <1>1, <1>6 DEF Under
  <2> QED
    BY <1>2, <1>3, <2>1, FrameKept
<1>7. ASSUME NEW z \in Loudness, Over(z)
      PROVE  Inv'
  <2>1. Frame /\ deafUntil' \in Nat
    BY <1>1, <1>7 DEF Over
  <2>2. CASE frames >= deafUntil /\ frames >= silentUntil /\ Held(z) # holding
    <3>1. Held(z) = [hop |-> frames, z |-> z]
      BY <2>2 DEF Held
    <3>2. Held(z) \in Peak /\ Held(z).hop = frames
      BY <1>1, <3>1 DEF Peak, TypeOK
    <3>3. Release(Held(z))
      BY <1>7, <2>2 DEF Over
    <3>4. silentUntil <= Held(z).hop /\ Held(z).hop <= frames /\ frames <= Held(z).hop + Hold
      BY <1>1, <2>2, <3>2, SpansAreNumbers
    <3> QED
      BY <2>1, <3>2, <3>3, <3>4, FrameKept
  <2>3. CASE ~(frames >= deafUntil /\ frames >= silentUntil /\ Held(z) # holding)
    <3>1. Release(holding)
      BY <1>7, <2>3 DEF Over
    <3> QED
      BY <1>2, <1>3, <2>1, <3>1, FrameKept
  <2> QED
    BY <2>2, <2>3
<1> QED
  BY <1>4, <1>5, <1>6, <1>7

\* At the end of a block the cutter is a block behind, at most.
LEMMA BlockKept == Inv /\ BlockEnds => Inv'
<1> SUFFICES ASSUME Inv, BlockEnds PROVE Inv'
  OBVIOUS
<1>1. /\ TypeOK /\ DetectorInv /\ ClipsInv /\ OpenInv /\ LagInv
  BY DEF Inv
<1>2. /\ at = "detect" /\ at' = "cut" /\ block' = 0 /\ block \in 0..MaxBlock
      /\ frames' = frames /\ holding' = holding /\ silentUntil' = silentUntil
      /\ deafUntil' = deafUntil /\ open' = open /\ guard' = guard /\ clips' = clips
      /\ fired' = fired /\ frames \in Nat
  BY <1>1, Typed DEF BlockEnds, detector, cutter, TypeOK
<1>3. /\ ring' \in [position : Nat, first : Nat]
      /\ ring'.position = frames + Lag
      /\ ring'.first = IF ring'.position > Capacity THEN ring'.position - Capacity ELSE 0
  BY <1>2, SpansAreNumbers DEF BlockEnds
<1>4. TypeOK'
  BY <1>1, <1>2, <1>3, SpansAreNumbers DEF TypeOK
<1>5. DetectorInv' /\ ClipsInv' /\ OpenInv'
  BY <1>1, <1>2
  DEF DetectorInv, ClipsInv, Ordered, InOrder, OpenInv, Named, Precedes, Before, Begun, Cut, Trailed, Last, First
<1>6. LagInv'
  <2>1. open # None => frames <= open.start + MaxClip + MaxBlock
    <3>1. open # None => /\ open.start \in Nat /\ open.end \in Nat
                         /\ open.end <= open.start + MaxClip /\ frames < open.end + block
      BY <1>1, <1>2, Typed DEF OpenInv, Cut, LagInv
    <3> QED
      BY <3>1, <1>2, SpansAreNumbers
  <2>2. \A f \in 1..Len(fired) : frames <= fired[f] + Hold + MaxBlock
    <3>1. \A f \in 1..Len(fired) : fired[f] \in Nat /\ frames <= fired[f] + Hold + block
      BY <1>1, <1>2, Typed DEF LagInv
    <3> QED
      BY <3>1, <1>2, SpansAreNumbers
  <2> QED
    BY <1>1, <1>2, <1>3, <2>1, <2>2 DEF LagInv
<1> QED
  BY <1>4, <1>5, <1>6 DEF Inv

-----------------------------------------------------------------------------
(* The cutter. *)

\* Between two blocks the ring still has the whole of the open clip.
LEMMA Covered ==
  ASSUME Inv, open # None, at = "cut" \/ (at = "detect" /\ block = 0)
  PROVE  /\ ring.position = frames + Lag /\ ring.first <= open.start
         /\ open.start <= Last(open) /\ Last(open) + Hold < frames
<1>1. /\ TypeOK /\ DetectorInv /\ OpenInv /\ LagInv
  BY DEF Inv
<1>2. /\ frames \in Nat /\ open.start \in Nat /\ open.end \in Nat
      /\ ring.position \in Nat /\ ring.first \in Nat
  BY <1>1, Typed
<1>3. /\ Cut(open) /\ Last(open) \in Nat /\ First(open) \in Nat /\ First(open) <= Last(open)
      /\ Last(open) + Hold < frames /\ open.start <= First(open)
      /\ open.end <= open.start + MaxClip
  <2>1. Cut(open) /\ Named(Last(open)) /\ open \in Clip
    BY <1>1, Typed DEF OpenInv, DetectorInv
  <2> QED
    BY <2>1, StrikesOfAClip DEF Named, Cut
<1>4. open.start <= Last(open) /\ frames > 0
  BY <1>2, <1>3, SpansAreNumbers
<1>5. /\ ring.position = frames + Lag
      /\ ring.first <= IF ring.position > Capacity THEN ring.position - Capacity ELSE 0
  BY <1>1, <1>4 DEF LagInv
<1>6. frames <= open.start + MaxClip + MaxBlock
  <2>1. at = "cut" => frames <= open.start + MaxClip + MaxBlock
    BY <1>1 DEF LagInv
  <2>2. at = "detect" /\ block = 0 => frames < open.end + 0
    BY <1>1 DEF LagInv
  <2> QED
    BY <2>1, <2>2, <1>2, <1>3, SpansAreNumbers
<1>7. ring.first <= open.start
  BY <1>2, <1>5, <1>6, SpansAreNumbers
<1> QED
  BY <1>3, <1>4, <1>5, <1>7

\* What the next trigger of the block is, for the clips and for those after it.
LEMMA NextStrike ==
  ASSUME Inv, at = "cut", fired # <<>>, NEW rest, rest = Tail(fired)
  PROVE  LET t == Head(fired)
         IN /\ t \in Hops /\ t \in Nat /\ Named(t) /\ frames <= t + Hold + MaxBlock
            /\ \A i \in 1..Len(clips) : Precedes(clips[i], t)
            /\ open # None => Last(open) \in Nat /\ Last(open) + Refractory <= t
            /\ rest \in Seq(Hops) /\ Sorted(rest)
            /\ \A f \in 1..Len(rest) :
                 /\ rest[f] \in Nat /\ t + Refractory <= rest[f] /\ Named(rest[f])
                 /\ frames <= rest[f] + Hold + MaxBlock
                 /\ \A i \in 1..Len(clips) : Precedes(clips[i], rest[f])
                 /\ open # None => Last(open) + Refractory <= rest[f]
<1> DEFINE t == Head(fired)
<1>1. /\ TypeOK /\ DetectorInv /\ ClipsInv /\ OpenInv /\ LagInv
  BY DEF Inv
<1>2. fired \in Seq(Hops) /\ fired \in Seq(Nat) /\ Sorted(fired)
  BY <1>1, Typed DEF TypeOK, LagInv
<1>3. /\ 1 \in 1..Len(fired) /\ t = fired[1] /\ rest \in Seq(Hops)
      /\ \A f \in 1..Len(rest) : rest[f] = fired[f + 1] /\ f + 1 \in 1..Len(fired)
  BY <1>2, TailOf
<1>4. Sorted(rest) /\ \A f \in 1..Len(rest) : t + Refractory <= rest[f]
  BY <1>2, SortedTail
<1> HIDE DEF t
<1>5. ASSUME NEW f \in 1..Len(fired)
      PROVE  /\ fired[f] \in Hops /\ fired[f] \in Nat /\ Named(fired[f])
             /\ frames <= fired[f] + Hold + MaxBlock
             /\ \A i \in 1..Len(clips) : Precedes(clips[i], fired[f])
             /\ open # None => Last(open) + Refractory <= fired[f]
  BY <1>1, Typed, NamedHops DEF ClipsInv, Ordered, InOrder, OpenInv, LagInv
<1>6. open # None => Last(open) \in Nat
  BY <1>1, NamedHops
<1> QED
  BY <1>3, <1>4, <1>5, <1>6 DEF t

\* A strike inside the open clip extends it.
LEMMA ExtendKept ==
  ASSUME Inv, CutTrigger, open # None, Head(fired) < open.end,
         open' = Extended(open, Head(fired)), guard' = guard, clips' = clips
  PROVE  Inv'
<1> DEFINE t == Head(fired)
<1>1. /\ TypeOK /\ DetectorInv /\ ClipsInv /\ OpenInv /\ LagInv
  BY DEF Inv
<1>2. /\ at = "cut" /\ at' = "cut" /\ block' = block /\ ring' = ring
      /\ frames' = frames /\ holding' = holding /\ silentUntil' = silentUntil
      /\ deafUntil' = deafUntil /\ fired # <<>> /\ fired' = Tail(fired)
  BY DEF CutTrigger, detector
<1>3. /\ t \in Hops /\ t \in Nat /\ Named(t)
      /\ Last(open) \in Nat /\ Last(open) + Refractory <= t
      /\ fired' \in Seq(Hops) /\ Sorted(fired')
      /\ \A f \in 1..Len(fired') :
           /\ t + Refractory <= fired'[f] /\ Named(fired'[f])
           /\ frames <= fired'[f] + Hold + MaxBlock
           /\ \A i \in 1..Len(clips) : Precedes(clips[i], fired'[f])
  BY <1>2, NextStrike
<1>4. /\ open' \in Clip /\ open' # None /\ Cut(open') /\ Trailed(open') /\ Begun(open', guard)
      /\ open'.start = open.start /\ First(open') = First(open) /\ Last(open') = t
  <2>1. open \in Clip /\ Cut(open) /\ Begun(open, guard)
    BY <1>1 DEF TypeOK, OpenInv
  <2> QED
    BY <2>1, <1>3, ExtendedWell
<1> HIDE DEF t
<1>5. TypeOK'
  BY <1>1, <1>2, <1>3, <1>4 DEF TypeOK
<1>6. DetectorInv'
  <2>1. Named(Last(open))'
    BY <1>2, <1>3, <1>4 DEF Named, Last
  <2>2. \A f \in 1..Len(fired') : Named(fired[f])'
    BY <1>2, <1>3 DEF Named
  <2> QED
    BY <1>1, <1>2, <2>1, <2>2 DEF DetectorInv, Named, Last
<1>7. ClipsInv'
  BY <1>1, <1>2, <1>3 DEF ClipsInv, Ordered, InOrder, Precedes, Before, Begun, Cut, Trailed, Last, First
<1>8. OpenInv'
  <2>1. \A i \in 1..Len(clips) : Precedes(clips[i], First(open'))
    BY <1>1, <1>4 DEF OpenInv
  <2> QED
    BY <1>3, <1>4, <2>1 DEF OpenInv, Precedes, Begun, Cut, Trailed, Last, First
<1>9. LagInv'
  BY <1>1, <1>2, <1>3, <1>4 DEF LagInv
<1> QED
  BY <1>5, <1>6, <1>7, <1>8, <1>9 DEF Inv


\* A clip is begun at a strike that comes after all the clips reported by then.
LEMMA BeginKept ==
  ASSUME Inv, CutTrigger, guard' \in Hops \cup {None},
         open' = Begin(Head(fired), guard'),
         clips' \in Seq(Reported),
         guard' = IF clips' = <<>> THEN None ELSE Last(clips'[Len(clips')]),
         Ordered(clips'),
         \A i \in 1..Len(clips') :
           /\ clips'[i].end <= frames
           /\ Named(Last(clips'[i])) /\ Precedes(clips'[i], Head(fired))
  PROVE  Inv'
<1> DEFINE t == Head(fired)
<1>1. /\ TypeOK /\ DetectorInv /\ ClipsInv /\ OpenInv /\ LagInv
  BY DEF Inv
<1>2. /\ at = "cut" /\ at' = "cut" /\ block' = block /\ ring' = ring
      /\ frames' = frames /\ holding' = holding /\ silentUntil' = silentUntil
      /\ deafUntil' = deafUntil /\ fired # <<>> /\ fired' = Tail(fired)
      /\ frames \in Nat
  BY <1>1, Typed DEF CutTrigger, detector
<1>3. /\ t \in Hops /\ t \in Nat /\ Named(t) /\ frames <= t + Hold + MaxBlock
      /\ fired' \in Seq(Hops) /\ Sorted(fired')
      /\ \A f \in 1..Len(fired') :
           /\ fired'[f] \in Nat /\ t + Refractory <= fired'[f] /\ Named(fired'[f])
           /\ frames <= fired'[f] + Hold + MaxBlock
  BY <1>2, NextStrike
<1>4. /\ open' \in Clip /\ open' # None /\ Cut(open') /\ Trailed(open') /\ Begun(open', guard')
      /\ First(open') = t /\ Last(open') = t /\ t <= open'.start + Pre
  <2>1. guard' \in Nat \cup {None}
    BY SpansAreNumbers DEF Hops
  <2> QED
    BY <2>1, <1>3, BegunWell
<1> HIDE DEF t
<1>5. TypeOK'
  BY <1>1, <1>2, <1>3, <1>4 DEF TypeOK
<1>6. DetectorInv'
  <2>1. Named(Last(open))'
    BY <1>2, <1>3, <1>4 DEF Named, Last
  <2>2. \A f \in 1..Len(fired') : Named(fired[f])'
    BY <1>2, <1>3 DEF Named
  <2>3. \A i \in 1..Len(clips') : Named(Last(clips[i]))'
    BY <1>2 DEF Named, Last
  <2> QED
    BY <1>1, <1>2, <2>1, <2>2, <2>3 DEF DetectorInv
<1>7. \A i \in 1..Len(clips') : /\ clips'[i] \in Reported /\ Last(clips'[i]) \in Nat
                                /\ clips'[i].end \in Nat
  <2>1. \A i \in 1..Len(clips') : clips'[i] \in Reported /\ Cut(clips'[i])
    BY DEF Ordered, InOrder
  <2> QED
    BY <2>1, StrikesOfAClip
<1>8. ClipsInv'
  <2>1. ASSUME NEW i \in 1..Len(clips'), NEW f \in 1..Len(fired')
        PROVE  Precedes(clips'[i], fired'[f])
    <3>1. Precedes(clips'[i], t)
      BY DEF t
    <3> QED
      BY <1>3, <1>7, <3>1, SpansAreNumbers DEF Precedes
  <2>2. Ordered(clips)'
    BY DEF Ordered, InOrder, Precedes, Before, Begun, Cut, Trailed, Last, First
  <2>3. \A i \in 1..Len(clips') : clips'[i].end <= frames'
    BY <1>2
  <2> QED
    BY <2>1, <2>2, <2>3 DEF ClipsInv, Precedes, Last
<1>9. OpenInv'
  <2>1. \A i \in 1..Len(clips') : Precedes(clips'[i], First(open'))
    BY <1>4 DEF t
  <2> QED
    BY <1>3, <1>4, <2>1 DEF OpenInv, Precedes, Begun, Cut, Trailed, Last, First
<1>10. LagInv'
  <2>1. open'.start \in Nat
    BY <1>4 DEF Clip
  <2>2. frames <= open'.start + MaxClip + MaxBlock
    <3>1. Pre + Hold <= MaxClip
      BY SpansAreNumbers
    <3> QED
      BY ONLY <1>2, <1>3, <1>4, <2>1, <3>1, SpansAreNumbers
  <2> QED
    BY <1>1, <1>2, <1>3, <2>2 DEF LagInv
<1> QED
  BY <1>5, <1>6, <1>8, <1>9, <1>10 DEF Inv

LEMMA CutKept == Inv /\ CutTrigger => Inv'
<1> SUFFICES ASSUME Inv, CutTrigger PROVE Inv'
  OBVIOUS
<1> DEFINE t == Head(fired)
<1>1. /\ TypeOK /\ DetectorInv /\ ClipsInv /\ OpenInv /\ LagInv
      /\ at = "cut" /\ fired # <<>> /\ frames \in Nat
  BY Typed DEF Inv, CutTrigger
<1>2. /\ t \in Nat /\ Named(t) /\ \A i \in 1..Len(clips) : Precedes(clips[i], t)
      /\ open # None => Last(open) \in Nat /\ Last(open) + Refractory <= t
  BY <1>1, NextStrike
<1>3. CASE open # None /\ t < open.end /\ open' = Extended(open, t) /\ UNCHANGED <<guard, clips>>
  BY <1>3, ExtendKept
<1>4. CASE /\ open # None /\ t >= open.end /\ open' = Begin(t, Last(open))
           /\ guard' = Last(open) /\ clips' = Append(clips, Report(open, TRUE))
  <2> DEFINE r == Report(open, TRUE)
  <2>1. /\ open \in Clip /\ open.end \in Nat /\ Cut(open) /\ Trailed(open) /\ Begun(open, guard)
        /\ Last(open) \in Hops
    <3>1. open \in Clip /\ open.end \in Nat /\ Cut(open) /\ Trailed(open) /\ Begun(open, guard)
      BY <1>1, <1>4, Typed DEF OpenInv
    <3>2. open.triggers \in Seq(Hops) /\ Len(open.triggers) \in Nat \ {0}
      BY <3>1, StrikesOfAClip DEF Clip
    <3> QED
      BY <3>1, <3>2 DEF Last
  <2>2. t < frames /\ open.end <= frames
    BY <1>1, <1>2, <1>4, <2>1, SpansAreNumbers DEF Named
  <2>3. ring.first <= open.start /\ open.end <= ring.position
    <3>1. ring.first <= open.start /\ ring.position = frames + Lag
      BY <1>1, <1>4, Covered
    <3> QED
      BY <1>1, <2>1, <2>2, <3>1, SpansAreNumbers
  <2>4. /\ r \in Reported /\ Cut(r) /\ Begun(r, guard) /\ r.footage /\ Trailed(r)
        /\ First(r) = First(open) /\ Last(r) = Last(open) /\ r.end = open.end
    BY <2>1, <2>3, ReportOf
  <2> HIDE DEF r
  <2>5. /\ clips' \in Seq(Reported) /\ clips' # <<>> /\ Len(clips) \in Nat
        /\ Len(clips') = Len(clips) + 1 /\ clips'[Len(clips')] = r
        /\ \A i \in 1..Len(clips) : clips'[i] = clips[i]
        /\ Ordered(clips')
    <3>1. clips' = Append(clips, r)
      BY <1>4 DEF r
    <3>2. r \in Reported
      BY <2>4
    <3>3. /\ Cut(r) /\ Begun(r, guard) /\ r.footage
          /\ (r.complete = FALSE \/ Trailed(r)) /\ First(r) = First(open)
          /\ open # None /\ TypeOK /\ ClipsInv /\ OpenInv
      BY <1>1, <1>4, <2>4
    <3>4. Ordered(clips')
      BY ONLY <3>1, <3>2, <3>3, ClipAdded
    <3>5. clips \in Seq(Reported)
      BY <1>1 DEF TypeOK
    <3> QED
      BY <3>1, <3>2, <3>4, <3>5, Appended
  <2>6. r.end <= frames /\ Named(Last(r)) /\ Precedes(r, t)
    <3>1. Named(Last(open))
      BY <1>1, <1>4 DEF DetectorInv
    <3> QED
      BY <1>2, <1>4, <2>1, <2>2, <2>4, <3>1, SpansAreNumbers DEF Precedes
  <2>7. \A i \in 1..Len(clips) :
          clips[i].end <= frames /\ Named(Last(clips[i])) /\ Precedes(clips[i], t)
    BY <1>1, <1>2 DEF ClipsInv, Ordered, InOrder, DetectorInv
  <2>8. \A i \in 1..Len(clips') :
          clips'[i].end <= frames /\ Named(Last(clips'[i])) /\ Precedes(clips'[i], t)
    <3>1. \A i \in 1..Len(clips') : i \in 1..Len(clips) \/ i = Len(clips')
      BY <2>5
    <3> QED
      BY <2>5, <2>6, <2>7, <3>1
  <2>9. guard' = Last(clips'[Len(clips')]) /\ guard' \in Hops /\ open' = Begin(t, guard')
    BY <1>4, <2>1, <2>4, <2>5
  <2> QED
    BY <2>5, <2>8, <2>9, BeginKept
<1>5. CASE open = None /\ open' = Begin(t, guard) /\ UNCHANGED <<guard, clips>>
  <2>1. /\ clips' \in Seq(Reported) /\ guard' \in Hops \cup {None}
    BY <1>1, <1>5 DEF TypeOK
  <2>2. guard' = IF clips' = <<>> THEN None ELSE Last(clips'[Len(clips')])
    BY <1>1, <1>5 DEF ClipsInv, Ordered, InOrder
  <2>3. \A i \in 1..Len(clips) :
          /\ clips[i].end <= frames
          /\ Named(Last(clips[i])) /\ Precedes(clips[i], t)
    BY <1>1, <1>2 DEF ClipsInv, DetectorInv
  <2>4. Ordered(clips')
    BY <1>1, <1>5 DEF ClipsInv
  <2> QED
    BY <1>5, <2>1, <2>2, <2>3, <2>4, BeginKept
<1> QED
  BY <1>3, <1>4, <1>5 DEF CutTrigger

\* The open clip is closed with the block behind it, or with the stream: nothing is
\* open or waiting then.
LEMMA CloseKept ==
  ASSUME Inv, open # None, fired = <<>>, at = "cut" \/ (at = "detect" /\ block = 0),
         NEW r \in Reported, Cut(r), Begun(r, guard), r.footage, r.complete = FALSE \/ Trailed(r),
         First(r) = First(open), Last(r) = Last(open),
         at' # "over" => r.end <= frames,
         clips' = Append(clips, r), guard' = Last(open), open' = None,
         UNCHANGED <<detector, ring, block, fired>>,
         at' \in {"detect", "over"}, block = 0
  PROVE  Inv'
<1>1. /\ TypeOK /\ DetectorInv /\ ClipsInv /\ OpenInv /\ LagInv
  BY DEF Inv
<1>2. /\ frames' = frames /\ holding' = holding /\ silentUntil' = silentUntil
      /\ deafUntil' = deafUntil /\ ring' = ring /\ block' = 0 /\ fired' = <<>> /\ frames \in Nat
  BY <1>1, Typed DEF detector
<1>3. /\ clips' \in Seq(Reported) /\ clips' # <<>> /\ Len(clips) \in Nat
      /\ Len(clips') = Len(clips) + 1 /\ clips'[Len(clips')] = r
      /\ \A i \in 1..Len(clips) : clips'[i] = clips[i]
      /\ Ordered(clips')
  <2>1. r \in Reported
    OBVIOUS
  <2>2. /\ clips' = Append(clips, r)
        /\ Cut(r) /\ Begun(r, guard) /\ r.footage
        /\ (r.complete = FALSE \/ Trailed(r)) /\ First(r) = First(open)
        /\ open # None /\ TypeOK /\ ClipsInv /\ OpenInv
    BY <1>1
  <2>3. Ordered(clips')
    BY ONLY <2>1, <2>2, ClipAdded
  <2>4. clips \in Seq(Reported)
    BY <1>1 DEF TypeOK
  <2> QED
    BY <2>1, <2>2, <2>3, <2>4, Appended
<1>4. Last(open) \in Hops /\ Named(Last(open))
  <2>1. open \in Clip /\ Cut(open)
    BY <1>1, Typed DEF OpenInv
  <2>2. open.triggers \in Seq(Hops) /\ Len(open.triggers) \in Nat \ {0}
    BY <2>1, StrikesOfAClip DEF Clip
  <2> QED
    BY <1>1, <2>2 DEF DetectorInv, Last
<1>5. TypeOK'
  BY <1>1, <1>2, <1>3, <1>4 DEF TypeOK
<1>6. DetectorInv'
  <2>1. ASSUME NEW i \in 1..Len(clips')
        PROVE  Named(Last(clips'[i]))
    <3>1. CASE i \in 1..Len(clips)
      BY <1>1, <1>3, <3>1 DEF DetectorInv
    <3>2. CASE i = Len(clips')
      BY <1>3, <1>4, <3>2
    <3> QED
      BY <1>3, <3>1, <3>2
  <2> QED
    BY <1>1, <1>2, <2>1 DEF DetectorInv, Named, Last
<1>7. ClipsInv'
  <2>1. ASSUME NEW i \in 1..Len(clips'), at' # "over"
        PROVE  clips'[i].end <= frames
    <3>1. CASE i \in 1..Len(clips)
      <4>1. at # "over" /\ clips'[i] = clips[i]
        BY <1>3, <3>1
      <4> QED
        BY <1>1, <3>1, <4>1 DEF ClipsInv
    <3>2. CASE i = Len(clips')
      BY <1>3, <2>1, <3>2
    <3> QED
      BY <1>3, <3>1, <3>2
  <2>2. Ordered(clips)'
    BY <1>3 DEF Ordered, InOrder, Precedes, Before, Begun, Cut, Trailed, Last, First
  <2>3. guard' = Last(clips'[Len(clips')])
    BY <1>3
  <2> QED
    BY <1>2, <1>3, <2>1, <2>2, <2>3 DEF ClipsInv, Last
<1>8. OpenInv'
  BY DEF OpenInv
<1>9. LagInv'
  BY <1>1, <1>2 DEF LagInv
<1> QED
  BY <1>5, <1>6, <1>7, <1>8, <1>9 DEF Inv

\* Nothing is open: the block, or the stream, is done with.
LEMMA NoneToClose ==
  ASSUME Inv, fired = <<>>, block = 0,
         UNCHANGED <<detector, cutter, ring, block, fired>>,
         \/ at = "cut" /\ at' = "detect" /\ (open # None => frames < open.end)
         \/ at = "detect" /\ at' = "over" /\ open = None
  PROVE  Inv'
<1>1. /\ TypeOK /\ DetectorInv /\ ClipsInv /\ OpenInv /\ LagInv
  BY DEF Inv
<1>2. /\ frames' = frames /\ holding' = holding /\ silentUntil' = silentUntil
      /\ deafUntil' = deafUntil /\ open' = open /\ guard' = guard /\ clips' = clips
      /\ ring' = ring /\ block' = 0 /\ fired' = <<>> /\ frames \in Nat
  BY <1>1, Typed DEF detector, cutter
<1>3. TypeOK'
  BY <1>1, <1>2 DEF TypeOK
<1>4. DetectorInv' /\ ClipsInv' /\ OpenInv'
  BY <1>1, <1>2 DEF DetectorInv, ClipsInv, Ordered, InOrder, OpenInv, Named, Precedes, Before, Begun,
                    Cut, Trailed, Last, First
<1>5. LagInv'
  <2>1. open # None => frames < open.end + 0
    <3>1. open # None => open.end \in Nat
      BY <1>1, Typed
    <3>2. at = "cut" => (open # None => frames < open.end)
      OBVIOUS
    <3>3. at = "detect" => (open # None => frames < open.end + 0)
      BY <1>1 DEF LagInv
    <3> QED
      BY <1>2, <3>1, <3>2, <3>3
  <2> QED
    BY <1>1, <1>2, <2>1 DEF LagInv
<1> QED
  BY <1>3, <1>4, <1>5 DEF Inv

LEMMA PositionKept == Inv /\ CutPosition => Inv'
<1> SUFFICES ASSUME Inv, CutPosition PROVE Inv'
  OBVIOUS
<1>1. /\ TypeOK /\ OpenInv /\ LagInv /\ at = "cut" /\ fired = <<>> /\ block = 0 /\ at' = "detect"
      /\ UNCHANGED <<detector, ring, block, fired>> /\ frames \in Nat
  BY Typed DEF Inv, CutPosition, LagInv
<1>2. CASE open # None /\ frames >= open.end
  <2> DEFINE r == Report(open, TRUE)
  <2>1. /\ open \in Clip /\ open.end \in Nat /\ Cut(open) /\ Trailed(open) /\ Begun(open, guard)
    BY <1>1, <1>2, Typed DEF OpenInv
  <2>2. ring.first <= open.start /\ open.end <= ring.position
    <3>1. ring.first <= open.start /\ ring.position = frames + Lag
      BY <1>1, <1>2, Covered
    <3> QED
      BY <1>1, <1>2, <2>1, <3>1, SpansAreNumbers
  <2>3. /\ r \in Reported /\ Cut(r) /\ Begun(r, guard) /\ r.footage /\ Trailed(r)
        /\ First(r) = First(open) /\ Last(r) = Last(open) /\ r.end = open.end
    BY <2>1, <2>2, ReportOf
  <2>4. clips' = Append(clips, r) /\ guard' = Last(open) /\ open' = None
    BY <1>2 DEF CutPosition
  <2> HIDE DEF r
  <2>5. r.end <= frames
    BY <1>1, <1>2, <2>1, <2>3
  <2> QED
    BY <1>1, <1>2, <2>3, <2>4, <2>5, CloseKept
<1>3. CASE ~(open # None /\ frames >= open.end)
  <2>1. UNCHANGED cutter
    BY <1>3 DEF CutPosition
  <2>2. open # None => frames < open.end
    <3>1. open # None => open.end \in Nat
      BY <1>1, Typed
    <3> QED
      BY <1>1, <1>3, <3>1
  <2> QED
    BY <1>1, <2>1, <2>2, NoneToClose
<1> QED
  BY <1>2, <1>3

LEMMA FinishKept == Inv /\ Finish => Inv'
<1> SUFFICES ASSUME Inv, Finish PROVE Inv'
  OBVIOUS
<1>1. /\ TypeOK /\ OpenInv /\ LagInv /\ at = "detect" /\ fired = <<>> /\ block = 0 /\ at' = "over"
      /\ UNCHANGED <<detector, ring, block, fired>>
      /\ frames \in Nat /\ ring.position \in Nat
  BY Typed DEF Inv, Finish, LagInv
<1>2. CASE open # None
  <2> DEFINE end == Least(open.end, Most(ring.position, open.start))
             clip == [open EXCEPT !.end = end]
             r == Report(clip, FALSE)
  <2>1. /\ open \in Clip /\ open.end \in Nat /\ open.start \in Nat
        /\ Cut(open) /\ Begun(open, guard) /\ Last(open) \in Nat /\ First(open) <= Last(open)
    <3>1. open \in Clip /\ open.end \in Nat /\ open.start \in Nat /\ Cut(open) /\ Begun(open, guard)
      BY <1>1, <1>2, Typed DEF OpenInv
    <3> QED
      BY <3>1, StrikesOfAClip
  <2>2. /\ ring.first <= open.start /\ open.start <= ring.position /\ Last(open) < ring.position
    <3>1. /\ ring.first <= open.start /\ ring.position = frames + Lag
          /\ open.start <= Last(open) /\ Last(open) + Hold < frames
      BY <1>1, <1>2, Covered
    <3> QED
      BY <1>1, <2>1, <3>1, SpansAreNumbers
  <2>3. /\ end \in Nat /\ end <= open.end /\ end <= ring.position /\ Last(open) < end
    BY <1>1, <2>1, <2>2 DEF Least, Most, Cut
  <2> HIDE DEF end
  <2>4. clip \in Clip /\ clip.start = open.start /\ clip.end = end /\ clip.triggers = open.triggers
    BY <2>1, <2>3 DEF Clip
  <2> HIDE DEF clip
  <2>5. First(clip) = First(open) /\ Last(clip) = Last(open)
    BY <2>4 DEF First, Last
  <2>6. Cut(clip) /\ Begun(clip, guard)
    BY <2>1, <2>3, <2>4, <2>5, SpansAreNumbers DEF Cut, Begun
  <2>7. /\ r \in Reported /\ Cut(r) /\ Begun(r, guard) /\ r.footage /\ r.complete = FALSE
        /\ First(r) = First(open) /\ Last(r) = Last(open)
    BY <2>2, <2>3, <2>4, <2>5, <2>6, ReportOf
  <2>8. clips' = Append(clips, r) /\ guard' = Last(open) /\ open' = None
    BY <1>2 DEF Finish, clip, end
  <2> HIDE DEF r
  <2> QED
    BY <1>1, <1>2, <2>7, <2>8, CloseKept
<1>3. CASE open = None
  <2>1. UNCHANGED cutter
    BY <1>3 DEF Finish
  <2> QED
    BY <1>1, <1>3, <2>1, NoneToClose
<1> QED
  BY <1>2, <1>3

-----------------------------------------------------------------------------
(* The invariant. *)

LEMMA InvInit == Init => Inv
<1> SUFFICES ASSUME Init PROVE Inv
  OBVIOUS
<1>1. TypeOK
  BY SpansAreNumbers, TriggerConstants DEF Init, TypeOK, Hops
<1>2. DetectorInv /\ ClipsInv /\ OpenInv
  BY DEF Init, DetectorInv, ClipsInv, Ordered, InOrder, OpenInv
<1>3. LagInv
  BY DEF Init, LagInv, Sorted
<1> QED
  BY <1>1, <1>2, <1>3 DEF Inv

LEMMA InvNext == Inv /\ [Next]_vars => Inv'
<1> SUFFICES ASSUME Inv, [Next]_vars PROVE Inv'
  OBVIOUS
<1>1. CASE FirstFrame \/ NoFloor \/ Under \/ (\E z \in Loudness : Over(z))
  BY <1>1, DetectorKept
<1>2. CASE BlockEnds
  BY <1>2, BlockKept
<1>3. CASE CutTrigger
  BY <1>3, CutKept
<1>4. CASE CutPosition
  BY <1>4, PositionKept
<1>5. CASE Finish
  BY <1>5, FinishKept
<1>6. CASE UNCHANGED vars
  <2>1. /\ TypeOK /\ DetectorInv /\ ClipsInv /\ OpenInv /\ LagInv
    BY DEF Inv
  <2>2. /\ frames' = frames /\ holding' = holding /\ silentUntil' = silentUntil
        /\ deafUntil' = deafUntil /\ open' = open /\ guard' = guard /\ clips' = clips
        /\ ring' = ring /\ at' = at /\ block' = block /\ fired' = fired
    BY <1>6 DEF vars, detector, cutter
  <2>3. TypeOK'
    BY <2>1, <2>2 DEF TypeOK
  <2>4. DetectorInv' /\ ClipsInv' /\ OpenInv'
    BY <2>1, <2>2 DEF DetectorInv, ClipsInv, Ordered, InOrder, OpenInv, Named, Precedes, Before, Begun,
                      Cut, Trailed, Last, First
  <2>5. LagInv'
    BY <2>1, <2>2 DEF LagInv
  <2> QED
    BY <2>3, <2>4, <2>5 DEF Inv
<1> QED
  BY <1>1, <1>2, <1>3, <1>4, <1>5, <1>6 DEF Next, Ended

\* Whatever is heard, in blocks of any size: no burst is held over its time, the
\* strikes named and the clips cut come in order and apart, and the ring holds what
\* the open clip and the held burst may still ask for.
THEOREM Invariant == Spec => []Inv
  BY InvInit, InvNext, PTL DEF Spec

\* The state of the detector, of the cutter and of the ring has its type throughout:
\* a burst is never held longer than peak_hold_hops.
THEOREM TypeCorrect == Spec => []TypeOK
<1>1. Inv => TypeOK
  BY DEF Inv
<1> QED
  BY <1>1, Invariant, PTL

\* Between two blocks, and at the end, all the footage of a reported clip was in the
\* ring when it was copied, whatever the block size up to MaxBlock.
THEOREM FootageThere == Spec => []FootageIsThere
<1>1. Inv => FootageIsThere
  BY DEF Inv, ClipsInv, Ordered, InOrder, FootageIsThere
<1> QED
  BY <1>1, Invariant, PTL

-----------------------------------------------------------------------------
(* What is promised of the strikes and the clips, the open one among them. *)

LEMMA AllInOrder ==
  ASSUME Inv
  PROVE  /\ AllClips \in Seq(Reported) /\ InOrder(AllClips)
         /\ \A i \in 1..Len(AllClips) : /\ AllClips[i] \in Reported
                                        /\ \A f \in 1..Len(fired) :
                                             Last(AllClips[i]) + Refractory <= fired[f]
<1>1. /\ TypeOK /\ ClipsInv /\ OpenInv /\ clips \in Seq(Reported)
  BY DEF Inv, TypeOK
<1>2. ASSUME NEW i \in 1..Len(clips), NEW f \in 1..Len(fired)
      PROVE  Last(clips[i]) + Refractory <= fired[f]
  BY <1>1 DEF ClipsInv, Precedes
<1>3. CASE open = None
  <2>1. AllClips = clips
    BY <1>3 DEF AllClips
  <2> QED
    BY <1>1, <1>2, <2>1 DEF ClipsInv, Ordered
<1>4. CASE open # None
  <2> DEFINE r == Report(open, FALSE)
  <2>1. open \in Clip /\ Cut(open) /\ Begun(open, guard)
    BY <1>1, <1>4, Typed DEF OpenInv
  <2>2. r \in Reported
    BY <2>1, ReportOf
  <2>3. Cut(r) /\ Begun(r, guard) /\ First(r) = First(open) /\ Last(r) = Last(open)
    BY <2>1, ReportOf
  <2>4. AllClips = Append(clips, r)
    BY <1>4 DEF AllClips
  <2> HIDE DEF r
  <2>5. InOrder(AllClips)
    BY <1>1, <1>4, <2>2, <2>3, <2>4, NextInOrder
  <2>6. /\ AllClips \in Seq(Reported) /\ Len(clips) \in Nat
        /\ Len(AllClips) = Len(clips) + 1 /\ AllClips[Len(clips) + 1] = r
        /\ \A i \in 1..Len(clips) : AllClips[i] = clips[i]
    BY <1>1, <2>2, <2>4, Appended
  <2>7. ASSUME NEW i \in 1..Len(AllClips), NEW f \in 1..Len(fired)
        PROVE  Last(AllClips[i]) + Refractory <= fired[f]
    <3>1. CASE i \in 1..Len(clips)
      BY <1>2, <2>6, <3>1
    <3>2. CASE i = Len(clips) + 1
      BY <1>1, <1>4, <2>3, <2>6, <3>2 DEF OpenInv
    <3> QED
      BY <2>6, <3>1, <3>2
  <2> QED
    BY <2>5, <2>6, <2>7
<1> QED
  BY <1>3, <1>4

\* A strike of a clip is between its first and its last.
LEMMA StrikeOf ==
  ASSUME Inv, NEW i \in 1..Len(AllClips), NEW s \in Strikes(AllClips[i])
  PROVE  /\ AllClips[i] \in Reported /\ Cut(AllClips[i]) /\ Begun(AllClips[i], Before(AllClips, i))
         /\ AllClips[i].start \in Nat /\ AllClips[i].end \in Nat /\ s \in Nat
         /\ First(AllClips[i]) \in Nat /\ Last(AllClips[i]) \in Nat
         /\ First(AllClips[i]) <= s /\ s <= Last(AllClips[i])
         /\ First(AllClips[i]) <= Last(AllClips[i])
<1> DEFINE clip == AllClips[i]
<1>1. clip \in Reported /\ Cut(clip) /\ Begun(clip, Before(AllClips, i))
  BY AllInOrder DEF InOrder
<1>2. PICK j \in 1..Len(clip.triggers) : s = clip.triggers[j]
  BY DEF Strikes
<1> HIDE DEF clip
<1>3. /\ clip.start \in Nat /\ clip.end \in Nat /\ s \in Nat
      /\ First(clip) \in Nat /\ Last(clip) \in Nat /\ First(clip) <= s /\ s <= Last(clip)
      /\ First(clip) <= Last(clip)
  BY <1>1, <1>2, StrikesOfAClip
<1> QED
  BY <1>1, <1>3 DEF clip

\* The strikes of one clip, of a clip and a later one, of a clip and those waiting,
\* and of those waiting: the earlier a silence before the later.
LEMMA StrikesInOrder ==
  ASSUME Inv, NEW s \in AllStrikes, NEW t \in AllStrikes
  PROVE  s \in Nat /\ t \in Nat /\ (s = t \/ s + Refractory <= t \/ t + Refractory <= s)
<1> DEFINE q == AllClips
           Waiting == {fired[f] : f \in 1..Len(fired)}
           Apart(x, y) == x \in Nat /\ y \in Nat /\ (x = y \/ x + Refractory <= y \/ y + Refractory <= x)
<1>1. /\ TypeOK /\ LagInv /\ Sorted(fired) /\ Len(q) \in Nat
  BY AllInOrder DEF Inv, LagInv
<1>2. ASSUME NEW i \in 1..Len(q), NEW x \in Strikes(q[i]), NEW y \in Strikes(q[i])
      PROVE  Apart(x, y)
  <2>1. PICK j \in 1..Len(q[i].triggers) : x = q[i].triggers[j]
    BY DEF Strikes
  <2>2. PICK k \in 1..Len(q[i].triggers) : y = q[i].triggers[k]
    BY DEF Strikes
  <2>3. Sorted(q[i].triggers) /\ x \in Nat /\ y \in Nat
    BY StrikeOf DEF Cut
  <2>4. j < k \/ k < j \/ j = k
    OBVIOUS
  <2> QED
    BY <2>1, <2>2, <2>3, <2>4 DEF Sorted
<1>3. ASSUME NEW i \in 1..Len(q), NEW k \in 1..Len(q), i < k,
             NEW x \in Strikes(q[i]), NEW y \in Strikes(q[k])
      PROVE  x \in Nat /\ y \in Nat /\ x + Refractory <= y
  <2>1. Last(q[i]) + Refractory <= First(q[k])
    BY <1>3, AllInOrder DEF InOrder, Precedes
  <2>2. x \in Nat /\ x <= Last(q[i]) /\ Last(q[i]) \in Nat
    BY StrikeOf
  <2>3. y \in Nat /\ First(q[k]) <= y /\ First(q[k]) \in Nat
    BY StrikeOf
  <2> QED
    BY ONLY <2>1, <2>2, <2>3, SpansAreNumbers
<1>4. ASSUME NEW i \in 1..Len(q), NEW x \in Strikes(q[i]), NEW y \in Waiting
      PROVE  x \in Nat /\ y \in Nat /\ x + Refractory <= y
  <2>1. PICK f \in 1..Len(fired) : y = fired[f]
    OBVIOUS
  <2>2. y \in Nat /\ Last(q[i]) + Refractory <= y
    BY <1>1, <2>1, AllInOrder, Typed
  <2>3. x \in Nat /\ x <= Last(q[i]) /\ Last(q[i]) \in Nat
    BY StrikeOf
  <2> QED
    BY ONLY <2>2, <2>3, SpansAreNumbers
<1>5. ASSUME NEW x \in Waiting, NEW y \in Waiting
      PROVE  Apart(x, y)
  <2>1. PICK j \in 1..Len(fired) : x = fired[j]
    OBVIOUS
  <2>2. PICK k \in 1..Len(fired) : y = fired[k]
    OBVIOUS
  <2>3. x \in Nat /\ y \in Nat
    BY <1>1, <2>1, <2>2, Typed
  <2>4. j < k \/ k < j \/ j = k
    OBVIOUS
  <2> QED
    BY <1>1, <2>1, <2>2, <2>3, <2>4 DEF Sorted
<1>6. \A x \in AllStrikes : x \in Waiting \/ \E i \in 1..Len(q) : x \in Strikes(q[i])
  BY DEF AllStrikes
<1>7. CASE s \in Waiting /\ t \in Waiting
  BY <1>5, <1>7
<1>8. CASE s \in Waiting /\ \E i \in 1..Len(q) : t \in Strikes(q[i])
  BY <1>4, <1>8
<1>9. CASE t \in Waiting /\ \E i \in 1..Len(q) : s \in Strikes(q[i])
  BY <1>4, <1>9
<1>10. ASSUME NEW i \in 1..Len(q), NEW k \in 1..Len(q), s \in Strikes(q[i]), t \in Strikes(q[k])
       PROVE  Apart(s, t)
  <2>1. i < k \/ k < i \/ i = k
    BY <1>1
  <2>2. CASE i < k
    BY <1>3, <1>10, <2>2
  <2>3. CASE k < i
    BY <1>3, <1>10, <2>3
  <2>4. CASE i = k
    BY <1>2, <1>10, <2>4
  <2> QED
    BY <2>1, <2>2, <2>3, <2>4
<1> QED
  BY <1>6, <1>7, <1>8, <1>9, <1>10

\* One shot is one trigger, however the blocks fall: two strikes that were named are
\* never closer than the refractory span.
THEOREM StrikesAreApart == Spec => []StrikesApart
<1>1. Inv => StrikesApart
  <2> SUFFICES ASSUME Inv, NEW s \in AllStrikes, NEW t \in AllStrikes, s < t
               PROVE  t - s >= Refractory
    BY DEF StrikesApart
  <2>1. s \in Nat /\ t \in Nat /\ (s = t \/ s + Refractory <= t \/ t + Refractory <= s)
    BY StrikesInOrder
  <2> QED
    BY <2>1, SpansAreNumbers
<1> QED
  BY <1>1, Invariant, PTL

\* A clip never reaches back over a strike of a clip before it, the open one and the
\* one it was closed for included.
THEOREM ReachesBackOverNone == Spec => []NeverReachesBack
<1>1. Inv => NeverReachesBack
  <2> DEFINE q == AllClips
  <2> SUFFICES ASSUME Inv, NEW i \in 1..Len(q), NEW k \in 1..Len(q), i < k,
                      NEW s \in Strikes(q[i])
               PROVE  s < q[k].start
    BY DEF NeverReachesBack
  <2> DEFINE before == Last(q[k - 1])
  <2>1. /\ Len(q) \in Nat /\ k - 1 \in 1..Len(q) /\ k # 1 /\ InOrder(q)
        /\ q[k - 1] \in Reported /\ q[k] \in Reported
    BY AllInOrder
  <2>2. /\ before \in Nat /\ First(q[k - 1]) \in Nat /\ First(q[k - 1]) <= before
        /\ First(q[k]) \in Nat
    <3>1. Cut(q[k - 1]) /\ Cut(q[k])
      BY <2>1 DEF InOrder
    <3> QED
      BY <2>1, <3>1, StrikesOfAClip
  <2>3. s \in Nat /\ s <= Last(q[i]) /\ Last(q[i]) \in Nat
    BY StrikeOf
  <2>4. s <= before
    <3>1. CASE i = k - 1
      BY <2>3, <3>1
    <3>2. CASE i < k - 1
      <4>1. Last(q[i]) + Refractory <= First(q[k - 1])
        BY <2>1, <3>2 DEF InOrder, Precedes
      <4> QED
        BY <2>2, <2>3, <4>1, SpansAreNumbers
    <3> QED
      BY <3>1, <3>2
  <2>5. before + Refractory <= First(q[k])
    BY <2>1 DEF InOrder, Precedes
  <2>6. q[k].start = Begin(First(q[k]), before).start
    <3>1. Begun(q[k], Before(q, k)) /\ Before(q, k) = before
      BY <2>1 DEF InOrder, Before
    <3> QED
      BY <3>1 DEF Begun
  <2>7. q[k].start = Least(First(q[k]), Most(IF First(q[k]) > Pre THEN First(q[k]) - Pre ELSE 0,
                                             before + MinTrail))
    <3>1. before # None
      BY <2>2, SpansAreNumbers
    <3> QED
      BY <2>6, <3>1 DEF Begin
  <2> HIDE DEF before, q
  <2> DEFINE t == First(q[k])
             lead == IF t > Pre THEN t - Pre ELSE 0
  <2>8. t \in Nat /\ lead \in Nat /\ before < t /\ before < before + MinTrail
    BY <2>2, <2>5, SpansAreNumbers
  <2>9. before < q[k].start
    <3> HIDE DEF t, lead
    <3>1. q[k].start = Least(t, Most(lead, before + MinTrail))
      BY <2>7 DEF t, lead
    <3> QED
      BY <2>2, <2>8, <3>1, SpansAreNumbers DEF Least, Most
  <2>10. q[k].start \in Nat
    BY <2>1 DEF Reported
  <2> QED
    BY <2>2, <2>3, <2>4, <2>9, <2>10
<1> QED
  BY <1>1, Invariant, PTL

\* The footage of a strike is in two clips only at the seam: the second was heard in
\* the last hold of the first, or after its end.
THEOREM SharedAtTheSeam == Spec => []SharedOnlyAtTheSeam
<1>1. Inv => SharedOnlyAtTheSeam
  <2> SUFFICES ASSUME Inv, NEW i \in 1..Len(AllClips), NEW k \in 1..Len(AllClips), i < k,
                      NEW t \in Strikes(AllClips[k])
               PROVE  t + Hold >= AllClips[i].end
    BY DEF SharedOnlyAtTheSeam
  <2>1. /\ AllClips[i].end <= First(AllClips[k]) + Hold /\ AllClips[i].end \in Nat
    BY AllInOrder DEF InOrder, Precedes, Reported
  <2>2. t \in Nat /\ First(AllClips[k]) \in Nat /\ First(AllClips[k]) <= t
    BY StrikeOf
  <2> QED
    BY <2>1, <2>2, SpansAreNumbers
<1> QED
  BY <1>1, Invariant, PTL

\* Two strikes a lead and a trail apart are both measurable: whatever was merged, the
\* later has its lead, and the last of a complete clip its trail.
THEOREM ApartMeasurable == Spec => []ApartIsMeasurable
<1>1. Inv => ApartIsMeasurable
  <2> SUFFICES ASSUME Inv, NEW i \in 1..Len(clips), clips[i].complete
               PROVE  /\ Roomy(i) => First(clips[i]) - clips[i].start >= MinLead
                      /\ clips[i].end - clips[i].start < MaxClip
                           => clips[i].end - Last(clips[i]) >= MinTrail
    BY DEF ApartIsMeasurable, First
  <2> DEFINE t == First(clips[i])
             lead == IF t > Pre THEN t - Pre ELSE 0
  <2>1. /\ TypeOK /\ Ordered(clips) /\ Len(clips) \in Nat
    BY DEF Inv, ClipsInv, TypeOK
  <2>2. /\ clips[i] \in Reported /\ Cut(clips[i]) /\ Begun(clips[i], Before(clips, i))
        /\ Trailed(clips[i])
    BY <2>1, Typed DEF Ordered, InOrder
  <2>3. /\ clips[i].start \in Nat /\ clips[i].end \in Nat /\ t \in Nat /\ Last(clips[i]) \in Nat
    BY <2>2, StrikesOfAClip
  <2>4. clips[i].end - clips[i].start < MaxClip => clips[i].end - Last(clips[i]) >= MinTrail
    BY <2>2, <2>3, SpansAreNumbers DEF Trailed
  <2>5. ASSUME Roomy(i) PROVE t - clips[i].start >= MinLead
    <3>1. clips[i].start = Begin(t, Before(clips, i)).start
      BY <2>2 DEF Begun
    <3>2. lead \in Nat /\ lead <= t /\ (t >= MinLead => t - lead >= MinLead)
      BY <2>3, SpansAreNumbers
    <3>3. CASE i = 1
      <4>1. t >= MinLead
        BY <2>5, <3>3 DEF Roomy, First
      <4>2. clips[i].start = Least(t, Most(lead, 0))
        BY <3>1, <3>3 DEF Before, Begin
      <4> HIDE DEF t, lead
      <4>3. clips[i].start <= lead
        BY <2>3, <3>2, <4>2 DEF Least, Most
      <4> QED
        BY <2>3, <3>2, <4>1, <4>3, SpansAreNumbers
    <3>4. CASE i # 1
      <4> DEFINE before == Last(clips[i - 1])
      <4>1. before \in Nat
        <5>1. i - 1 \in 1..Len(clips)
          BY <2>1, <3>4
        <5> QED
          BY <2>1, <5>1, Typed, StrikesOfAClip DEF Ordered, InOrder
      <4>2. t >= before + MinLead + MinTrail
        BY <2>5, <3>4 DEF Roomy, First
      <4>3. before # None
        BY <4>1, SpansAreNumbers
      <4>4. Before(clips, i) = before
        BY <3>4 DEF Before
      <4>5. clips[i].start = Least(t, Most(lead, before + MinTrail))
        BY <3>1, <4>3, <4>4 DEF Begin
      <4> HIDE DEF t, lead, before
      <4>6. clips[i].start <= lead \/ clips[i].start <= before + MinTrail
        BY <2>3, <3>2, <4>1, <4>5, SpansAreNumbers DEF Least, Most
      <4>7. t >= MinLead /\ t - lead >= MinLead
        BY ONLY <2>3, <3>2, <4>1, <4>2, SpansAreNumbers
      <4>8. CASE clips[i].start <= lead
        BY <2>3, <3>2, <4>7, <4>8, SpansAreNumbers
      <4>9. CASE clips[i].start <= before + MinTrail
        BY <2>3, <4>1, <4>2, <4>9, SpansAreNumbers
      <4> QED
        BY <4>6, <4>8, <4>9
    <3> QED
      BY <3>3, <3>4
  <2> QED
    BY <2>4, <2>5
<1> QED
  BY <1>1, Invariant, PTL
=============================================================================
