SPECIFICATION FairSpec
CONSTANTS
  Producers = {p1, p2}
  w1 = w1
  w2 = w2
  Workers <- MCWorkers
  search = search
  profile = profile
  Queues <- MCQueues
  Consumes <- MCConsumes
  Messages = {m1, m2}
  Threads = 3
  Nobody = nobody
  None = none
INVARIANTS TypeOK Fifo TotalLags LateMovesAreBounded
PROPERTIES ImplementsPool ProgressUnlessStuck
CHECK_DEADLOCK FALSE
