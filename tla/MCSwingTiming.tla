--------------------------- MODULE MCSwingTiming ---------------------------
(* SwingTiming for TLC: the wrist rises and falls, and moves sideways at the       *)
(* bottom; the lengths are scaled to clips of a few frames.                        *)
EXTENDS SwingTiming

FourPositions == {<<0, 0>>, <<0, 1>>, <<0, 3>>, <<1, 3>>}
=============================================================================
