SPECIFICATION GatewaySpec
CONSTANTS
  Requests = {r1, r2}
  u1 = u1
  Users = {u1}
  c1 = c1
  c2 = c2
  Ids <- MCIds
  n1 = n1
  n2 = n2
  Names <- MCNames
  StatusTexts <- MCStatusTexts
  Traffic <- OneOfEachCourse
  MaxBroken = 2
  PoolSize = 1
  Blank = blank
  Null = null
  NoRow = noRow
INVARIANTS GatewayTypeOK StopAnswersEverybody StopKeepsTheTrail
PROPERTIES HandlersReturn StopEnds
CHECK_DEADLOCK FALSE
