SPECIFICATION Spec
CONSTANTS
  Hosts = {h1}
  Notifier = Notifier
  None = None
  Insts = {i1}
  Ops = {o1, o2, o3, o4}
  Resps = {r1}
  Chunks = {c1}
  MaxOps = 5
  MaxInstances = 2
  IdMax = 7
  Capacity = 2
  ResponseLimit = 1
  Budget = 9
  Total = 9
  OpCost = 1
  InputCost = 1
  RespCost = 1
  HeaderCost = 1
  ChunkCost = 1
  BodyLen = 2
  Calls = {"create", "close", "submit", "read", "response_release", "chunk_release", "release"}
  CallbackCalls = {"read"}
  Faults = {"alloc", "loop"}
  CreateBudget = 1
INVARIANTS TypeOK RefsExact ChargesExact OpsExact PipelineExact OneRead NoLostWakeup
PROPERTIES Contract
CHECK_DEADLOCK FALSE
