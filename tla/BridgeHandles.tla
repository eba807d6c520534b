---------------------------- MODULE BridgeHandles ----------------------------
(***************************************************************************)
(* The handles of the C ABI (c_abi/runtime/bridge.c): instances,           *)
(* operations, responses and chunks, their reference counts and the bytes  *)
(* they are charged for. `m` is the C heap: a record of the four kinds of  *)
(* slot and retained_bytes. A slot whose refs are 0 is free memory and may *)
(* be allocated again. Sizes are small abstract costs.                     *)
(***************************************************************************)
EXTENDS Naturals, Sequences, FiniteSets

CONSTANTS
  Hosts,        \* host threads
  Notifier,     \* the notifier thread, as a caller of the API
  Insts, Ops, Resps, Chunks,   \* memory slots of each kind of handle
  None,
  MaxOps,       \* 256: operations admitted when an instance is created
  MaxInstances, \* 1024: instances admitted
  IdMax,        \* INT_MAX: where next_id stops
  Capacity,     \* hs_instance.capacity
  ResponseLimit,\* hs_instance.response_limit
  Budget,       \* hs_instance.budget, once hs_bridge_limits has set it
  Total,        \* 67108864: the bound of retained_bytes, and a new budget
  OpCost, InputCost, RespCost, HeaderCost, ChunkCost,
  BodyLen,      \* chunks in a response body
  Calls,        \* API entry points the host threads of this instance use
  CallbackCalls,\* and those its callbacks use
  Faults,       \* failures explored: "alloc", "thread", "boot", "loop"
  CreateBudget  \* bound on create_async calls in a behaviour

Callers == Hosts \cup {Notifier}
Handles == Insts \cup Ops \cup Resps \cup Chunks

ASSUME BridgeAssumption ==
  /\ Notifier \notin Hosts
  /\ None \notin Handles
  /\ Insts \cap Ops = {} /\ Insts \cap Resps = {} /\ Insts \cap Chunks = {}
  /\ Ops \cap Resps = {} /\ Ops \cap Chunks = {} /\ Resps \cap Chunks = {}
  /\ {MaxOps, MaxInstances, IdMax, Capacity, ResponseLimit, Budget, Total,
      OpCost, InputCost, RespCost, HeaderCost, ChunkCost, BodyLen,
      CreateBudget} \subseteq Nat
  /\ IdMax >= 2
  /\ IsFiniteSet(Handles)   \* memory is finite

Business == {"create", "start", "submit", "read"}   \* kinds 1..4
\* Kinds 5 and 6 are "close", kind 7 is "drop".
Kinds == Business \cup {"close", "drop"}
\* Where an operation is; "none" is free memory.
TaskStages == {"spawned", "running", "discard", "reading", "stopping", "draining"}
DoneStages == {"notice", "callback", "returned"}
Stages == {"none", "queued"} \cup TaskStages \cup DoneStages

NoInst == [refs |-> 0, server |-> FALSE, closing |-> FALSE, closed |-> FALSE,
           active |-> 0, notifications |-> 0, responses |-> 0, charged |-> 0,
           up |-> FALSE]
NoOp == [refs |-> 0, kind |-> "drop", stage |-> "none", cancelled |-> FALSE,
         cancelling |-> FALSE, inst |-> None, resp |-> None, charge |-> 0,
         ok |-> FALSE, event |-> None]
NoResp == [refs |-> 0, inst |-> None, reading |-> FALSE, released |-> FALSE,
           chunks |-> 0, charge |-> 0, listed |-> FALSE, shut |-> FALSE,
           pos |-> 0, sent |-> 0]
NoChunk == [inst |-> None, resp |-> None]

Slot(S) == CHOOSE x \in S : TRUE

Fits(m, i, budget, n) ==
  /\ m.inst[i].charged + n <= budget
  /\ m.retained + n <= Total
charge(m, i, n) ==
  [m EXCEPT !.inst[i].charged = @ + n, !.retained = @ + n]
uncharge(m, i, n) ==
  [m EXCEPT !.inst[i].charged = @ - n, !.retained = @ - n]

instance_drop(m, i) ==
  IF m.inst[i].refs = 1
  THEN [m EXCEPT !.inst[i] = NoInst]
  ELSE [m EXCEPT !.inst[i].refs = @ - 1]

\* Mutant: the last release forgets the metadata charge.
response_drop_keeps_charge(m, r) ==
  LET i == m.resp[r].inst
  IN  IF m.resp[r].refs = 1
      THEN instance_drop([m EXCEPT !.inst[i].responses = @ - 1, !.resp[r] = NoResp], i)
      ELSE [m EXCEPT !.resp[r].refs = @ - 1]

response_drop(m, r) ==
  LET i == m.resp[r].inst
  IN  IF m.resp[r].refs = 1
      THEN instance_drop([uncharge(m, i, m.resp[r].charge) EXCEPT
                            !.inst[i].responses = @ - 1, !.resp[r] = NoResp], i)
      ELSE [m EXCEPT !.resp[r].refs = @ - 1]

\* Mutant: a read keeps its response alive.
op_drop_keeps_response(m, o) ==
  LET i == m.op[o].inst
  IN  IF m.op[o].refs = 1
      THEN [instance_drop(uncharge(m, i, m.op[o].charge), i) EXCEPT !.op[o] = NoOp]
      ELSE [m EXCEPT !.op[o].refs = @ - 1]

op_drop(m, o) ==
  LET i  == m.op[o].inst
      r  == m.op[o].resp
      m1 == uncharge(m, i, m.op[o].charge)
      m2 == IF r = None THEN m1 ELSE response_drop(m1, r)
  IN  IF m.op[o].refs = 1
      THEN [instance_drop(m2, i) EXCEPT !.op[o] = NoOp]
      ELSE [m EXCEPT !.op[o].refs = @ - 1]

\* new_op charges the record of a business operation only.
RecordCost(kind) == IF kind \in Business THEN OpCost ELSE 0
\* Mutant: the pending notification is not counted.
new_op_uncounted(m, kind, i, r, o, input) ==
  LET cost == RecordCost(kind) + input
  IN  [charge(m, i, cost) EXCEPT
        !.op[o] = [NoOp EXCEPT !.refs = IF kind = "drop" THEN 1 ELSE 2,
                               !.kind = kind, !.stage = "queued", !.inst = i,
                               !.resp = r, !.charge = cost],
        !.inst[i].refs = @ + 1, !.inst[i].active = @ + 1]

new_op(m, kind, i, r, o, input) ==
  LET cost == RecordCost(kind) + input
  IN  [charge(m, i, cost) EXCEPT
        !.op[o] = [NoOp EXCEPT !.refs = IF kind = "drop" THEN 1 ELSE 2,
                               !.kind = kind, !.stage = "queued", !.inst = i,
                               !.resp = r, !.charge = cost],
        !.inst[i].refs = @ + 1,
        !.inst[i].active = @ + 1,
        !.inst[i].notifications = @ + 1]

\* An operation that was never queued: as if it had been called back and released.
\* Mutant: it keeps its charge.
abandon_charged(m, o) ==
  LET i == m.op[o].inst
  IN  [instance_drop(m, i) EXCEPT !.inst[i].active = @ - 1, !.inst[i].notifications = @ - 1,
                                  !.op[o] = NoOp]
abandon(m, o) ==
  LET i == m.op[o].inst
  IN  op_drop([m EXCEPT !.inst[i].active = @ - 1, !.inst[i].notifications = @ - 1,
                        !.op[o].refs = 1], o)

\* hs_bridge_response: the new response is the event of its operation.
NewResp(i, n) == [NoResp EXCEPT !.refs = 1, !.inst = i, !.charge = n, !.listed = TRUE]
WithResp(k) == [k EXCEPT !.responses = @ + 1, !.refs = @ + 1]
response_made(m, i, r, n, o) ==
  [charge(m, i, n) EXCEPT !.resp[r] = NewResp(i, n), !.inst[i] = WithResp(@), !.op[o].event = r]
\* hs_bridge_chunk: the new chunk is the event of its read.
WithChunk(k) == [k EXCEPT !.refs = @ + 1, !.chunks = @ + 1, !.sent = @ + 1]
chunk_made(m, i, r, c, o) ==
  [charge(m, i, ChunkCost) EXCEPT !.chunk[c] = [inst |-> i, resp |-> r], !.inst[i].refs = @ + 1,
                                  !.resp[r] = WithChunk(@), !.op[o].event = c]

Cancelled(m, o) ==
  \/ m.op[o].cancelled
  \/ m.op[o].kind \in Business /\ m.inst[m.op[o].inst].closing
  \/ m.op[o].kind = "read" /\ m.resp[m.op[o].resp].released

\* A close, and a create that failed, end the instance.
Retires(m, o, ok) ==
  m.op[o].kind = "close" \/ (m.op[o].kind \in {"create", "start"} /\ ~ok)

\* Mutants: a read stays in flight; an ended instance keeps its reference; a failed
\* operation stays active.
ReadEnded_never(m, o) == m
Retired_leaks(m, o, ok) ==
  IF Retires(m, o, ok)
  THEN [m EXCEPT !.inst[m.op[o].inst].closing = TRUE, !.inst[m.op[o].inst].closed = TRUE]
  ELSE m
Noticed_stays_active(m, o, ok) ==
  [m EXCEPT !.op[o].stage = "notice", !.op[o].ok = ok, !.op[o].cancelled = FALSE,
            !.op[o].cancelling = FALSE,
            !.inst[m.op[o].inst].active = IF ok THEN @ - 1 ELSE @]

\* owner_main retires the instances still live. Mutant: the list keeps its references.
Abandoned_leaks(m, S) ==
  [m EXCEPT !.inst = [i \in Insts |->
     IF i \in S THEN [m.inst[i] EXCEPT !.closing = TRUE, !.closed = TRUE] ELSE m.inst[i]]]
Abandoned(m, S) ==
  [m EXCEPT !.inst = [i \in Insts |->
     CASE i \notin S -> m.inst[i]
       [] i \in S /\ m.inst[i].refs = 1 -> NoInst
       [] OTHER -> [m.inst[i] EXCEPT !.refs = @ - 1, !.closing = TRUE, !.closed = TRUE]]]

\* The parts of hs_bridge_complete's effect on the handles: the operation goes to
\* the notices (nothing reads its cancellation flags again; they are cleared), an
\* event that failed gives back its response, a creation that succeeded gives the
\* host a reference, a read ends, an instance ends.
Noticed(m, o, ok) ==
  [m EXCEPT !.op[o].stage = "notice", !.op[o].ok = ok, !.op[o].cancelled = FALSE,
            !.op[o].cancelling = FALSE, !.inst[m.op[o].inst].active = @ - 1]
Withdrawn(m, o, ok) ==
  IF ~ok /\ m.op[o].event \in Resps
  THEN [response_drop(m, m.op[o].event) EXCEPT !.op[o].event = None] ELSE m
Granted(m, o, ok) ==
  IF m.op[o].kind \in {"create", "start"} /\ ok
  THEN [m EXCEPT !.inst[m.op[o].inst].refs = @ + 1, !.op[o].event = m.op[o].inst] ELSE m
ReadEnded(m, o) ==
  IF m.op[o].kind = "read" THEN [m EXCEPT !.resp[m.op[o].resp].reading = FALSE] ELSE m
Retired(m, o, ok) ==
  LET i == m.op[o].inst
  IN  IF Retires(m, o, ok)
      THEN instance_drop([m EXCEPT !.inst[i].closing = TRUE, !.inst[i].closed = TRUE], i)
      ELSE m

Completed(m, o, ok) ==
  Retired(ReadEnded(Granted(Withdrawn(Noticed(m, o, ok), o, ok), o, ok), o), o, ok)
==============================================================================
