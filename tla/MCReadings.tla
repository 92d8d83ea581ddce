----------------------------- MODULE MCReadings -----------------------------
(* Readings for TLC: three directories in two sessions; the floors are scaled down, *)
(* and a shot is short of half the median of two.                                   *)
EXTENDS Readings, TLC

CONSTANTS clip1, clip2, short, long, blurred, iron, new, old

TwoSessions == {<<1, 1>>, <<1, 2>>, <<2, 1>>}

\* The golfer's swings with all there is, and one of each that lacks something.
Usual == {[player |-> Me, club |-> iron, face |-> f, photo |-> p, runs |-> TRUE] :
            f \in {clip1, clip2}, p \in {None, short, long}}
Odd == LET one == [player |-> Me, club |-> iron, face |-> clip1, photo |-> short, runs |-> TRUE]
       IN {[one EXCEPT !.player = None], [one EXCEPT !.club = None], [one EXCEPT !.runs = FALSE],
           [one EXCEPT !.photo = blurred], [one EXCEPT !.face = None, !.runs = FALSE]}
UsualAndOdd == Usual \cup Odd

\* Nothing, or two swings of the first session that can be held against each other.
Beginnings ==
  {<<>>,
   <<[player |-> Me, club |-> iron, face |-> clip1, photo |-> short, dir |-> <<1, 1>>],
     [player |-> Me, club |-> iron, face |-> clip2, photo |-> long, dir |-> <<1, 2>>]>>}

\* No bag, one that cannot be read, or one with a club in it.
Bags2 ==
  {None, Unreadable,
   [entries |-> (iron :> [slot |-> iron, spec |-> new, recorded |-> 1, retired |-> None]),
    shelf |-> <<>>]}

Carries2 == (short :> 60) @@ (long :> 200) @@ (blurred :> None)

Values ==
  [sway |-> (clip1 :> 0) @@ (clip2 :> 9), tempo |-> (clip1 :> 30) @@ (clip2 :> 32),
   apex |-> (short :> 10) @@ (long :> 30) @@ (blurred :> 20),
   carry |-> Carries2]

Floors == [m \in Metrics |-> [center |-> 2, spread |-> IF m = "sway" THEN 3 ELSE 2, trend |-> 3]]
SessionFloors == [center |-> 1, spread |-> 1, trend |-> 2]

Targets ==
  [sway |-> [target |-> 0, tolerance |-> 1], tempo |-> [target |-> None, tolerance |-> 1],
   turn |-> None, apex |-> None, carry |-> None]

Bands == [m \in Metrics |-> IF m = "tempo" THEN [p10 |-> 10, p90 |-> 50] ELSE None]
=============================================================================
