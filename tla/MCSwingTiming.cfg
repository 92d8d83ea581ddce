SPECIFICATION Spec
CONSTANTS
  None = None
  Given = Given
  MinFrames = 4
  DrawdownTolerance = 25
  DrawdownFloor = 400
  MajorRise = 80
  CandidateMinRise = 45
  StallMin = 2
  TransitionHalf = 1
  ImpactHalf = 1
  Positions <- FourPositions
  Rates = {None, 10, 20}
  MaxFilmed = 5
  MaxDescents = 2
  Longest = 6
INVARIANTS OneReading NothingIsLost WarpInOrder EitherOrder TopsMeet HonestSpeed
CHECK_DEADLOCK FALSE
