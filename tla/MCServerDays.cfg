SPECIFICATION FairSpec
CONSTANTS
  None = None
  face_on = face_on
  shot_screen = shot_screen
  MaxDay = 2
  MaxId = 1
  Roles = {face_on}
  RoleOrder <- OneRole
  ShotScreen = shot_screen
  Digests = {a, b}
  Players = {}
  Clubs = {iron}
  Verdicts = {}
  MaxWrites = 2
  Phones = {p1}
  Targets = {1}
  MaxQueue = 1
  MaxCrashes = 1
PROPERTIES PendingEnds StopEnds
CHECK_DEADLOCK FALSE
