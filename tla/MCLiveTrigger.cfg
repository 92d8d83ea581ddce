SPECIFICATION Spec
CONSTANTS
  Hold = 2
  Refractory = 4
  Warmup = 1
  Loudness = {1, 2}
  Pre = 5
  Post = 7
  MinTrail = 3
  MinLead = 5
  MaxClip = 13
  Lag = 1
  Capacity = 16
  MaxBlock = 2
  MaxHops = 28
  None = None
INVARIANTS
  StrikesApart
  NeverReachesBack
  FootageIsThere
  ApartIsMeasurable
  SharedOnlyAtTheSeam
