SPECIFICATION Spec
CONSTANTS
  Callers = {g1, g2}
  Messages = {m1, m2, m3}
  campaign = campaign
  validate = validate
  CloseOrder <- MCCloseOrder
  Capacity <- MCCapacity
  Nil = nil
  NoQueue = noQueue
SYMMETRY Symmetry
INVARIANT PeekDoesNotConsume
CHECK_DEADLOCK FALSE
