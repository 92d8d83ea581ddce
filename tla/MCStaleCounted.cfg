SPECIFICATION Spec
CONSTANTS
  None = None
  face_on = face_on
  shot_screen = shot_screen
  MaxDay = 1
  MaxId = 1
  Roles = {face_on, shot_screen}
  RoleOrder <- BothRoles
  ShotScreen = shot_screen
  Digests = {a, b}
  Players = {}
  Clubs = {iron}
  Verdicts = {}
  MaxWrites = 4
  Phones = {p1}
  Targets = {None, 1}
  MaxQueue = 1
  MaxCrashes = 0
INVARIANT CountedIsCurrent
SYMMETRY Symmetry
CHECK_DEADLOCK FALSE
