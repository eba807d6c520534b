CONSTANTS
  Pools = {p1, p2}
  Jobs = {j1, j2}
  Files = {}
  Workers = {w1, w2}
  Owner = Owner
  WorkerLimit <- MCWorkerLimit
  Capacity <- MCCapacity
  ThreadFails = TRUE
  None = None
  Small = p1
  QueueSize = 2
SYMMETRY Symmetry
SPECIFICATION Spec
INVARIANTS CountsExact FullyUsed
