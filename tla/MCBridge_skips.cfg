SPECIFICATION Spec
CONSTANTS
  Hosts = {h1}
  Notifier = Notifier
  None = None
  Insts = {i1}
  Ops = {o1, o2, o3, o4, o5}
  Resps = {r1}
  Chunks = {c1}
  MaxOps = 5
  MaxInstances = 2
  IdMax = 8
  Capacity = 1
  ResponseLimit = 1
  Budget = 8
  Total = 8
  OpCost = 1
  InputCost = 1
  RespCost = 1
  HeaderCost = 1
  ChunkCost = 2
  BodyLen = 1
  Calls = {"create", "close", "submit", "read", "response_release", "chunk_release", "release"}
  CallbackCalls = {"read"}
  Faults = {}
  CreateBudget = 1
INVARIANTS WholeBody
CHECK_DEADLOCK FALSE
