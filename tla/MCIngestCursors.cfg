SPECIFICATION IngestSpec
CONSTANTS
  None = None
  MaxDay = 2
  MaxId = 1
  Roles = {face_on, shot_screen}
  ShotScreen = shot_screen
  Digests = {a}
  Players = {ann, bob}
  Clubs = {iron, wedge}
  Verdicts = {confirmed}
  MaxWrites = 3
  Phones = {p1, p2}
  Targets = {None}
INVARIANTS EverySwingHasAClub
PROPERTIES StampsAreWriteOnce
CHECK_DEADLOCK FALSE
SYMMETRY CursorSymmetry
