CONSTANTS
  Pools = {p1}
  Jobs = {j1, j2}
  Files = {f1}
  Workers = {w1}
  Owner = Owner
  WorkerLimit <- MCWorkerLimit
  Capacity <- MCCapacity
  ThreadFails = FALSE
  None = None
  Small = None
  QueueSize = 2
SPECIFICATION FairSpec
PROPERTIES JobsEnd ClosesEnd
