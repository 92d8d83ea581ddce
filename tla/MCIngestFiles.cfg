SPECIFICATION IngestSpec
CONSTANTS
  None = None
  MaxDay = 1
  MaxId = 2
  Roles = {face_on, shot_screen}
  ShotScreen = shot_screen
  Digests = {a, b}
  Players = {}
  Clubs = {iron}
  Verdicts = {}
  MaxWrites = 3
  Phones = {p1, p2}
  Targets = {None, 1}
PROPERTIES NoTwinSwings BundledFilesStay NamedFilesStayOnDisk
CHECK_DEADLOCK FALSE
SYMMETRY FileSymmetry
