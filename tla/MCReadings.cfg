SPECIFICATION Spec
CONSTANTS
  None = None
  Unreadable = Unreadable
  clip1 = clip1
  clip2 = clip2
  short = short
  long = long
  blurred = blurred
  iron = iron
  new = new
  old = old
  BagAtFirst <- Bags2
  Swings <- TwoSessions
  Players = {me, you}
  Me = me
  Clubs = {iron}
  Clips = {clip1, clip2}
  Photos = {short, long, blurred}
  Carry <- Carries2
  Doubtful = {blurred}
  MinCleanShots = 2
  Arrivals <- UsualAndOdd
  MaxEdits = 5
  AtFirst <- Beginnings
  Specs = {new, old}
  Unlofted = {old}
  Value <- Values
  MinimumN <- Floors
  MinimumSessions <- SessionFloors
  Declared <- Targets
  Population <- Bands
  Blocked = {}
INVARIANTS CountsAreSamples EveryRefusalHasItsReason TwoReadersAgree NoCaveatOneClub
PROPERTIES ReuploadsCountOnce NothingIsForgotten
CHECK_DEADLOCK FALSE
