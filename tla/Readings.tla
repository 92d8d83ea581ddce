------------------------------ MODULE Readings ------------------------------
(***************************************************************************)
(* What is said about a career: the baseline with the claims it may make,  *)
(* bias and scatter against a target, the place among tour players, the    *)
(* profile of each club under the bag as declared, and the swing a shot    *)
(* photo belongs to.  All of it is read from the library and the bag.      *)
(* Source: analysis/baseline.py, analysis/stats.py, analysis/dispersion.py,*)
(* analysis/comparison.py, analysis/club_profile.py and                    *)
(* storage/flight_inputs.py, with the contracts they fill.                 *)
(*                                                                         *)
(* Statistics are exact: with n values of sum S and sum of squares Q the   *)
(* mean is S/n and the variance (nQ - S^2)/n(n-1), and every comparison of *)
(* an interval's end with a bound is one of squares, in hundredths.        *)
(***************************************************************************)
EXTENDS Career, FiniteSetsExt

CONSTANTS
  Unreadable, Specs,
  BagAtFirst, \* BOUND: the bags on disk at first
  Unlofted,   \* the specs that declare no loft
  Value,      \* metric -> artifact -> the value read from it
  MinimumN,   \* metric -> claim -> minimum_n
  MinimumSessions, \* claim -> minimum_sessions
  Declared,   \* metric -> [target, tolerance] or None (METRIC_TARGETS)
  Population, \* metric -> [p10, p90] or None (load_distribution)
  Blocked     \* TOUR_COMPARISON_BLOCKED

VARIABLE bag

B == INSTANCE Bag WITH Slots <- Clubs, MaxTime <- MaxEdits, time <- clock, AtFirst <- BagAtFirst

vars == <<libraryVars, bag>>

Claims == {"center", "spread", "trend"}

\* A bag on disk at first is one the store wrote, of clubs declared and retired by then.
ASSUME ReadingConstants ==
  /\ \A b \in BagAtFirst \ {None, Unreadable} :
       /\ B!WellFormed(b)
       /\ \A i \in DOMAIN b.shelf : b.shelf[i].retired <= 2
       /\ \A i \in DOMAIN b.shelf, c \in Clubs :
            b.shelf[i].slot = c /\ b.entries[c] # None => b.shelf[i].retired <= b.entries[c].recorded
  /\ None \notin B!Entry
  /\ \A m \in Metrics : MinimumN[m]["center"] >= 2 /\ MinimumN[m]["spread"] >= 2
  /\ \A m \in Metrics : Declared[m] # None => Declared[m].tolerance >= 0

TypeOK == LibraryTypeOK /\ B!BagTypeOK

Init == LibraryInit /\ B!BagInit

LibraryEdit == LibraryNext /\ UNCHANGED bag
BagEdit == B!BagNext /\ UNCHANGED <<manifest, result, sidecar, engine>>

Next == LibraryEdit \/ BagEdit

Spec == Init /\ [][Next]_vars

-----------------------------------------------------------------------------
(* The baseline. *)

\* pooled_samples: swing by swing in order, an artifact's first sample only.
Samples(m, C) ==
  LET F == Facts(m, C)
  IN {s \in {f.of : f \in F} :
        LET key == (CHOOSE f \in F : f.of = s).key
        IN \A f \in F : f.key = key /\ f.of # s => Before(s, f.of)}

N(m, C) == Cardinality(Samples(m, C))
SessionsOf(m, C) == {s[1] : s \in Samples(m, C)}

\* refuse
Refuse(m, claim, n, sessions) == n < MinimumN[m][claim] \/ sessions < MinimumSessions[claim]

Ready(m, C) ==
  {claim \in Claims : ~Refuse(m, claim, N(m, C), Cardinality(SessionsOf(m, C)))}

Withheld(m, C) == Claims \ Ready(m, C)

-----------------------------------------------------------------------------
(* stats.py *)

\* The squares of _T_CRITICAL_95 and the values of _CHI2_UPPER_95, in hundredths.
TSquared == <<16144, 1852, 1013, 771, 661>>
Chi2Upper == <<502, 738, 935, 1114, 1283>>

\* The value as the analysis read it, from the inputs it was made with.
ValueOf(s, m) ==
  IF m \in {"sway", "tempo"} THEN Value[m][result[s].inputs.face] ELSE Value[m][Read(s)]

Moments(m, C) ==
  LET K == Samples(m, C)
  IN [n |-> Cardinality(K),
      sum |-> MapThenSumSet(LAMBDA s : ValueOf(s, m), K),
      squares |-> MapThenSumSet(LAMBDA s : ValueOf(s, m) * ValueOf(s, m), K)]

\* n times the sum of the squared deviations.
Spread(x) == x.n * x.squares - x.sum * x.sum

\* The interval of the mean lies wholly above a bound, or wholly below it.
Half(x) == TSquared[x.n - 1] * Spread(x)
Beyond(x, distance) == distance > 0 /\ 100 * distance * distance * (x.n - 1) > Half(x)
MeanAbove(x, bound) == Beyond(x, x.sum - x.n * bound)
MeanBelow(x, bound) == Beyond(x, x.n * bound - x.sum)

\* The interval of the mean ends inside the band, on this side of it.
Within(x, distance) == distance >= 0 /\ 100 * distance * distance * (x.n - 1) >= Half(x)

\* The lower end of the standard deviation's interval is over the tolerance.
SpreadAbove(x, tolerance) ==
  100 * Spread(x) > x.n * tolerance * tolerance * Chi2Upper[x.n - 1]

-----------------------------------------------------------------------------
(* Bias and scatter. *)

Finding(established) == IF established THEN "established" ELSE "not_established"

Bias(m, C) ==
  LET d == Declared[m]
      x == Moments(m, C)
  IN IF d = None \/ d.target = None \/ "center" \notin Ready(m, C) THEN "withheld"
     ELSE Finding(MeanAbove(x, d.target + d.tolerance) \/ MeanBelow(x, d.target - d.tolerance))

Scatter(m, C) ==
  LET d == Declared[m]
  IN IF d = None \/ "spread" \notin Ready(m, C) THEN "withheld"
     ELSE Finding(SpreadAbove(Moments(m, C), d.tolerance))

\* MUTANT: the refusals are matched to each other's findings.
CarriedRefusalsCrossed(m, C) ==
  {claim \in Withheld(m, C) : /\ claim = "center" => Scatter(m, C) = "withheld"
                              /\ claim = "spread" => Bias(m, C) = "withheld"
                              /\ claim # "trend"}

\* _carry_refusals: of the baseline's refusals, those that withheld a finding.
CarriedRefusals(m, C) ==
  {claim \in Withheld(m, C) : \/ claim = "center" /\ Bias(m, C) = "withheld"
                              \/ claim = "spread" /\ Scatter(m, C) = "withheld"}

\* What dispersion_for says cannot be had at all.
NoReading(m) == Declared[m] = None \/ Declared[m].target = None

-----------------------------------------------------------------------------
(* The standing. *)

NoPopulation(m) == m \in Blocked \/ Population[m] = None

\* comparison_for, _place
Standing(m, C) ==
  LET x == Moments(m, C)
      p == Population[m]
  IN IF NoPopulation(m) \/ "center" \notin Ready(m, C) THEN "withheld"
     ELSE IF Within(x, x.sum - x.n * p.p10) /\ Within(x, x.n * p.p90 - x.sum) THEN "inside"
     ELSE IF MeanBelow(x, p.p10) \/ MeanAbove(x, p.p90) THEN "outside" ELSE "straddles"

-----------------------------------------------------------------------------
(* The clubs. *)

InBag(c) == B!HasBag /\ bag.entries[c] # None

\* _bag_changed_caveats: the swings from before the club was in the bag.
Predating(C, c) ==
  IF InBag(c) THEN {s \in OfClub(C, c).swings : manifest[s].at < bag.entries[c].recorded} ELSE {}

-----------------------------------------------------------------------------
(* The swing of a shot photo (_swings_by_shot_photo, read_flight_inputs). *)

\* MUTANT: the last arrival speaks for the photo.
AttachedLast(p) ==
  LET S == {s \in OnDisk : manifest[s].photo = p}
  IN IF S = {} THEN None ELSE CHOOSE s \in S : \A t \in S \ {s} : Before(t, s)

\* Whoever's they are, the first arrival speaks for the photo.
Attached(p) ==
  LET S == {s \in OnDisk : manifest[s].photo = p}
  IN IF S = {} THEN None ELSE First(S)

\* _resolve_loft; the bag is that of the swing's golfer.
LoftGap(p) ==
  LET s == Attached(p)
      c == IF s = None THEN None ELSE manifest[s].club
  IN IF s = None THEN "no_swing"
     ELSE IF c = None THEN "no_club_tag"
     ELSE IF manifest[s].player # Me \/ ~InBag(c) THEN "no_bag_entry"
     ELSE IF bag.entries[c].spec \in Unlofted THEN "no_declared_loft" ELSE "none"

-----------------------------------------------------------------------------
(* Properties *)

Narrowings(C) ==
  {C} \cup {OfClub(C, c) : c \in Clubs} \cup {OfSession(C, s[1]) : s \in Swings}
      \cup {Since(C, t) : t \in 1..MaxEdits}

\* The count a reader is shown for a metric is the number of samples behind its
\* baseline, for the career and for every narrowing of it, though two walks over
\* the swings compute them (count_metrics and pooled_samples); and no photo and
\* no clip is two samples.
CountsAreSamples ==
  LET whole == Corpus IN
  \A m \in Metrics, C \in Narrowings(whole) :
    LET S == Samples(m, C)
    IN /\ Count(m, C) = Cardinality(S)
       /\ \A s, t \in S : s # t => /\ manifest[s].face # manifest[t].face
                                  /\ (m \in {"apex", "carry"} => manifest[s].photo # manifest[t].photo)

\* Sending a swing's clip again, to another directory or another session and
\* with any photo beside it, moves no count of the golfer's.
ReuploadsCountOnce ==
  [][(\E s \in Swings :
        /\ manifest[s] = None /\ manifest'[s] # None
        /\ \E t \in Mine \ NoFaceOn : manifest'[s].player = Me /\ manifest'[s].face = manifest[t].face)
     => Kept' = Kept /\ Counted' = Counted]_vars

\* Whatever is withheld comes with why: a bias, a scatter or a standing that is
\* not given has the refusal that names what is missing, or there is no target,
\* tolerance or population to hold it against.  No refusal is carried for what
\* was given.
EveryRefusalHasItsReason ==
  LET whole == Corpus IN
  \A m \in Metrics, C \in {whole} \cup {OfClub(whole, c) : c \in Clubs} :
    N(m, C) > 0 =>
      LET bias == Bias(m, C)
          scatter == Scatter(m, C)
          refusals == CarriedRefusals(m, C)
      IN /\ bias = "withheld" => NoReading(m) \/ "center" \in refusals
         /\ scatter = "withheld" => Declared[m] = None \/ "spread" \in refusals
         /\ bias # "withheld" => "center" \notin refusals
         /\ scatter # "withheld" => "spread" \notin refusals
         /\ Standing(m, C) = "withheld" => NoPopulation(m) \/ "center" \in Withheld(m, C)

\* Two readers of the same directories name the same swing for a shot: the one
\* whose sample a baseline holds, and the one whose loft and hand the flight is
\* worked out with, as long as every swing that shows the photo counts with it.
TwoReadersAgree ==
  LET C == Corpus IN
  \A s \in Samples("apex", C) :
    LET p == manifest[s].photo
        holders == {t \in OnDisk : manifest[t].photo = p}
    IN /\ LoftGap(p) # "no_swing"
       /\ holders \subseteq {f.of : f \in Facts("apex", C)} => Attached(p) = s

\* A club's numbers with no word about the bag were all hit with the club that is
\* in it, however it was replaced, taken out and put back: no swing behind them
\* falls in the time of another (the bag-changed caveat).
NoCaveatOneClub ==
  LET C == Corpus IN
  \A c \in Clubs :
    InBag(c) /\ Predating(C, c) = {} =>
      \A s \in OfClub(C, c).swings, e \in B!Stints(c) :
        B!Covers(e, manifest[s].at) => e = bag.entries[c]

\* See Bag.
NothingIsForgotten == B!NothingIsForgotten
=============================================================================
