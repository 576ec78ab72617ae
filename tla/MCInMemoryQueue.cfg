SPECIFICATION Spec
CONSTANTS
  Callers = {g1, g2, g3}
  Messages = {m1, m2, m3}
  campaign = campaign
  validate = validate
  CloseOrder <- MCCloseOrder
  Capacity <- MCCapacity
  Nil = nil
  NoQueue = noQueue
SYMMETRY Symmetry
INVARIANTS TypeOK NobodySleepsInVain FifoUnlessPeeked CounterLags PanicsOnlyAfterClose
PROPERTIES ImplementsPool
CHECK_DEADLOCK FALSE
