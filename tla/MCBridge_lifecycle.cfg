SPECIFICATION Spec
CONSTANTS
  Hosts = {h1, h2}
  Notifier = Notifier
  None = None
  Insts = {i1, i2}
  Ops = {o1, o2, o3}
  Resps = {}
  Chunks = {}
  MaxOps = 3
  MaxInstances = 2
  IdMax = 6
  Capacity = 2
  ResponseLimit = 1
  Budget = 4
  Total = 4
  OpCost = 1
  InputCost = 1
  RespCost = 1
  HeaderCost = 1
  ChunkCost = 1
  BodyLen = 1
  Calls = {"create", "close", "release", "operation_release"}
  CallbackCalls = {"create", "release"}
  Faults = {"boot", "thread"}
  CreateBudget = 2
SYMMETRY Symmetry
INVARIANTS Drained NoThreadAtRest WakeFdOpen
CHECK_DEADLOCK FALSE
