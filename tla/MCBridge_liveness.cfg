SPECIFICATION FairSpec
CONSTANTS
  Hosts = {h1}
  Notifier = Notifier
  None = None
  Insts = {i1}
  Ops = {o1, o2, o3}
  Resps = {r1}
  Chunks = {c1}
  MaxOps = 3
  MaxInstances = 1
  IdMax = 6
  Capacity = 2
  ResponseLimit = 1
  Budget = 8
  Total = 9
  OpCost = 1
  InputCost = 1
  RespCost = 1
  HeaderCost = 1
  ChunkCost = 2
  BodyLen = 1
  Calls = {"create", "start", "close", "submit", "read", "response_release", "chunk_release", "cancel", "release", "sync", "stop"}
  CallbackCalls = {}
  Faults = {"alloc", "thread", "boot"}
  CreateBudget = 2
INVARIANT RefsExact
PROPERTIES Answered CallsReturn RuntimeEnds
CHECK_DEADLOCK FALSE
