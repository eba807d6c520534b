CONSTANTS
  Pools = {p1}
  Jobs = {j1, j2}
  Files = {f1, f2}
  Workers = {w1, w2}
  Owner = Owner
  WorkerLimit <- MCWorkerLimit
  Capacity <- MCCapacity
  ThreadFails = FALSE
  None = None
  Small = None
  QueueSize = 2
SYMMETRY Symmetry
SPECIFICATION Spec
INVARIANTS PoolTypeOK WorkerSafe NoLostCompletion HandlesExact
