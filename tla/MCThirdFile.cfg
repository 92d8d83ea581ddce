SPECIFICATION Spec
CONSTANTS
  None = None
  face_on = face_on
  shot_screen = shot_screen
  MaxDay = 1
  MaxId = 1
  Roles = {face_on, shot_screen}
  RoleOrder <- BothRoles
  ShotScreen = shot_screen
  Digests = {a}
  Players = {}
  Clubs = {iron}
  Verdicts = {}
  MaxWrites = 3
  Phones = {p1}
  Targets = {None}
  MaxQueue = 1
  MaxCrashes = 0
INVARIANTS CompleteBundleIsAnalyzed
CHECK_DEADLOCK FALSE
