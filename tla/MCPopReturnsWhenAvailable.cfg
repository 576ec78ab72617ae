SPECIFICATION FairSpec
CONSTANTS
  Producers = {p1}
  w1 = w1
  w2 = w2
  Workers <- MCWorkers
  search = search
  profile = profile
  Queues <- MCQueues
  Consumes <- MCConsumes
  Messages = {m1, m2}
  Threads = 3
  Nobody = nobody
  None = none
PROPERTY PopReturnsWhenAvailable
CHECK_DEADLOCK FALSE
