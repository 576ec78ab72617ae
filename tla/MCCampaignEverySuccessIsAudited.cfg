SPECIFICATION Spec
CONSTANTS
  Requests = {r1, r2}
  Users = {u1, u2}
  c1 = c1
  c2 = c2
  Ids <- MCIds
  n1 = n1
  n2 = n2
  Names <- MCNames
  StatusTexts <- MCStatusTexts
  Traffic <- Representative
  MaxBroken = 2
  Blank = blank
  Null = null
  NoRow = noRow
INVARIANT EverySuccessIsAudited
CHECK_DEADLOCK FALSE
