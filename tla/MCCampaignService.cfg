SPECIFICATION Spec
CONSTANTS
  Requests = {r1, r2, r3}
  Users = {u1, u2}
  c1 = c1
  c2 = c2
  Ids <- MCIds
  n1 = n1
  n2 = n2
  Names <- MCNames
  StatusTexts <- MCStatusTexts
  Traffic <- RacingTraffic
  MaxBroken = 1
  Blank = blank
  Null = null
  NoRow = noRow
SYMMETRY Symmetry
INVARIANTS TypeOK Ownership LastWriterWins AnswerIsHonest AuditIsTruthful AuditIsComplete
PROPERTIES AuditOnlyGrows ImplementsStore
CHECK_DEADLOCK FALSE
