SPECIFICATION Spec
CONSTANTS
  Threads = {t1, t2}
  Scripts = {cli}
  Convs = {c1, c2}
  Models = {m1, m2}
  MaxAsks = 3
  MaxRounds = 1
  MaxTakes = 1
  None = None
  Torn = Torn
INVARIANTS NoHalfTurn OneModel AnswersAreKept
CHECK_DEADLOCK FALSE
SYMMETRY Symmetry
