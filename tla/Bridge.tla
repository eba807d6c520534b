------------------------------- MODULE Bridge -------------------------------
(***************************************************************************)
(* The C ABI bridge: c_abi/runtime/bridge.c (queues, handles, the two      *)
(* library threads) and c_abi/runtime/runtime.mbt (the tasks the owner     *)
(* thread runs).                                                           *)
(*                                                                         *)
(* Every host thread, the notifier (inside a callback) and the owner reach *)
(* the C-owned state under one mutex; an action is one critical section,   *)
(* except where two adjacent ones of the same thread commute with every    *)
(* other thread (said at the action). A wait on the condition variable     *)
(* `changed` puts the thread in `waiting`; only a BROADCAST takes it out,  *)
(* so a missing broadcast shows as a thread that never resumes. The same   *)
(* holds for `parked` and the MoonBit condition variable of the tasks.     *)
(***************************************************************************)
EXTENDS BridgeHandles

VARIABLES
  mem,          \* inst, op, resp, chunk slots and retained_bytes
  live,         \* live_instances
  instances,    \* the counter kept beside it
  activeOps,    \* active_ops
  nextId,       \* next_id
  commands,     \* host -> owner queue
  notices,      \* owner -> notifier queue
  state,        \* 0 none, 1 starting, 2 attached, 3 stopping, 4 notifier done, 5 joining
  ownerDone, ownerStarted,
  wakeFd,       \* wake_fd is set
  wakePending,  \* wake_pending
  pipe,         \* the wake pipe: "none" (closed), "empty", "byte"
  waiting,      \* threads blocked on `changed`
  owner,        \* where the owner thread is
  parked,       \* tasks blocked on the MoonBit `changed`
  notifier,     \* where the notifier thread is
  noteOp,       \* the operation whose callback it runs
  call,         \* the blocking call each host thread is in
  owned,        \* handles the host must still release
  created       \* create_async calls so far (bounds the model only)

counters == <<live, instances, activeOps>>
heap     == <<mem, counters, nextId>>
queues   == <<commands, notices>>
threads  == <<state, ownerDone, ownerStarted>>
wake     == <<wakePending, pipe>>
waker    == <<wakeFd, wake>>
loopVars == <<owner, parked>>
noteVars == <<notifier, noteOp>>
hostVars == <<call, owned, created>>
vars == <<heap, queues, threads, waker, waiting, loopVars, noteVars, hostVars>>

FreeInsts  == {i \in Insts : mem.inst[i].refs = 0}
FreeOps    == {o \in Ops : mem.op[o].refs = 0}
FreeResps  == {r \in Resps : mem.resp[r].refs = 0}
FreeChunks == {c \in Chunks : mem.chunk[c] = NoChunk}

-----------------------------------------------------------------------------
(* Waking                                                                   *)

Broadcast == waiting' = {}

\* A byte is written only while a descriptor is set and none is pending; a
\* write to a closed pipe fails and leaves wake_pending as it was.
wake_owner ==
  IF wakePending \/ ~wakeFd \/ pipe = "none"
  THEN UNCHANGED wake
  ELSE pipe' = "byte" /\ wakePending' = TRUE

enqueue(o) == commands' = Append(commands, o) /\ wake_owner /\ Broadcast

Idle == [at |-> "idle", on |-> None]
Return(t) == call' = IF t \in Hosts THEN [call EXCEPT ![t] = Idle] ELSE call
\* A thread that may enter the API: an idle host, or the notifier inside a callback.
CanCall(t, entry) ==
  \/ t \in Hosts /\ call[t] = Idle /\ entry \in Calls
  \/ t = Notifier /\ entry \in CallbackCalls
     /\ notifier = "callback" /\ mem.op[noteOp].kind # "drop"

-----------------------------------------------------------------------------
(* Creating an instance, and the runtime with it                            *)

\* start_runtime from state st: nothing to do, or both threads started.
RuntimeRuns(st) ==
  \/ /\ st \in {1, 2}
     /\ state' = st
     /\ UNCHANGED <<ownerDone, ownerStarted, owner, notifier>>
  \/ /\ st = 0
     /\ state' = 1 /\ ownerDone' = FALSE /\ ownerStarted' = TRUE
     /\ owner' = "boot" /\ notifier' = "loop"

\* start_runtime fails: the notifier could not be started, or (the notifier
\* runs and will shut itself down) the owner could not.
RuntimeFails(st, wt) ==
  /\ st = 0 /\ "thread" \in Faults
  /\ ownerStarted' = FALSE /\ nextId' = 1
  /\ UNCHANGED owner
  /\ \/ state' = 0 /\ ownerDone' = FALSE /\ waiting' = wt /\ notifier' = "none"
     \/ state' = 3 /\ ownerDone' = TRUE /\ Broadcast /\ notifier' = "loop"

\* create_async after its admission check, on a thread that sees state st and
\* wait set wt. Failed allocations and charges still use up ids.
CreateBody(t, kind, st, wt) ==
  LET id0 == IF st = 0 THEN 1 ELSE nextId
      i == Slot(FreeInsts)
      o == Slot(FreeOps)
      room == /\ FreeInsts # {} /\ FreeOps # {}
              /\ mem.retained + OpCost + InputCost <= Total
  IN /\ Return(t)
     /\ UNCHANGED <<wakeFd, parked, noteOp, notices>>
     /\ \/ RuntimeFails(st, wt) /\ UNCHANGED <<mem, counters, commands, wake, owned>>
        \/ /\ RuntimeRuns(st)
           /\ id0 >= IdMax - 1
           /\ nextId' = id0 /\ waiting' = wt
           /\ UNCHANGED <<mem, counters, commands, wake, owned>>
        \/ /\ RuntimeRuns(st)
           /\ id0 < IdMax - 1
           /\ ~room \/ "alloc" \in Faults
           /\ nextId' \in {id0, id0 + 1, id0 + 2}
           /\ wake_owner /\ waiting' = wt
           /\ UNCHANGED <<mem, counters, commands, owned>>
        \/ /\ RuntimeRuns(st)
           /\ id0 < IdMax - 1 /\ room
           /\ mem' = new_op([mem EXCEPT !.inst[i].refs = 1,
                                        !.inst[i].server = (kind = "start")],
                            kind, i, None, o, InputCost)
           /\ nextId' = id0 + 2
           /\ live' = live \cup {i} /\ instances' = instances + 1
           /\ activeOps' = activeOps + 1
           /\ owned' = owned \cup {o}
           /\ enqueue(o)

\* reap_runtime, waiting in create_async: the thread joins the notifier once
\* state is 4 and otherwise waits. The admission check is not made again.
ReapStep(h, st) ==
  /\ \/ st = 4 /\ state' = 5 /\ call' = [call EXCEPT ![h].at = "join"] /\ UNCHANGED waiting
     \/ st \in {3, 5} /\ waiting' = waiting \cup {h} /\ UNCHANGED <<state, call>>
  /\ UNCHANGED <<heap, queues, ownerDone, ownerStarted, waker, loopVars, noteVars, owned,
                 created>>

CreateAdmitted == activeOps < MaxOps /\ instances < MaxInstances

create_async(t, kind) ==
  /\ CanCall(t, kind) /\ created < CreateBudget /\ created' = created + 1
  /\ CreateAdmitted
  /\ state < 3
  /\ CreateBody(t, kind, state, waiting)

\* A notifier that finds the runtime stopping is refused; a host reaps first.
create_async_reaps(h, kind) ==
  /\ h \in Hosts /\ CanCall(h, kind)
  /\ created < CreateBudget /\ created' = created + 1
  /\ CreateAdmitted
  /\ state >= 3
  /\ call' = [call EXCEPT ![h] = [at |-> "reap", on |-> kind]]
  /\ UNCHANGED <<heap, queues, threads, waker, waiting, loopVars, noteVars, owned>>

CreateResumes(h) ==
  /\ call[h].at = "reap" /\ h \notin waiting
  /\ \/ ReapStep(h, state)
     \/ state < 3 /\ CreateBody(h, call[h].on, state, waiting) /\ UNCHANGED created

\* hs_thread_join returns when the notifier has left its function; the lock is
\* taken again, state becomes 0 and create_async goes on in that section.
CreateJoins(h) ==
  /\ call[h].at = "join" /\ notifier = "exit"
  /\ CreateBody(h, call[h].on, 0, {}) /\ UNCHANGED created

-----------------------------------------------------------------------------
(* The other entry points                                                   *)

\* A new operation of an existing instance, accepted and queued.
Accept(t, kind, i, r, input, m) ==
  LET o == Slot(FreeOps)
  IN /\ FreeOps # {} /\ nextId # IdMax
     /\ kind \in Business => Fits(m, i, Budget, OpCost + input)
     /\ mem' = new_op(m, kind, i, r, o, input)
     /\ nextId' = nextId + 1
     /\ activeOps' = activeOps + 1
     /\ owned' = owned \cup {o}
     /\ enqueue(o)
     /\ UNCHANGED <<live, instances, notices, threads, wakeFd, loopVars, noteVars, call, created>>

close_async(t, i) ==
  /\ CanCall(t, "close") /\ i \in owned \cap Insts
  /\ ~mem.inst[i].closing
  /\ Accept(t, "close", i, None, 0, [mem EXCEPT !.inst[i].closing = TRUE])

Submittable(i) ==
  /\ i \in owned \cap Insts /\ ~mem.inst[i].server /\ ~mem.inst[i].closing
  /\ mem.inst[i].active < Capacity
hs_submit_async(t, i) ==
  /\ CanCall(t, "submit") /\ Submittable(i)
  /\ Accept(t, "submit", i, None, InputCost, mem)

\* new_op succeeded and the copy of the request did not: abandon undoes all but the id.
hs_submit_abandons(t, i) ==
  LET o == Slot(FreeOps)
  IN /\ CanCall(t, "submit") /\ Submittable(i)
     /\ FreeOps # {} /\ nextId # IdMax /\ Fits(mem, i, Budget, OpCost)
     /\ "alloc" \in Faults \/ ~Fits(mem, i, Budget, OpCost + InputCost)
     /\ nextId' = nextId + 1
     /\ mem' = abandon(new_op(mem, "submit", i, None, o, 0), o)
     /\ UNCHANGED <<counters, queues, threads, waker, waiting, loopVars, noteVars, hostVars>>

hs_response_read_async(t, r) ==
  LET i == mem.resp[r].inst
  IN /\ CanCall(t, "read") /\ r \in owned \cap Resps
     /\ ~mem.resp[r].released /\ ~mem.inst[i].closing
     /\ ~mem.resp[r].reading
     /\ mem.inst[i].active < Capacity
     /\ Accept(t, "read", i, r, 0, [mem EXCEPT !.resp[r].refs = @ + 1,
                                               !.resp[r].reading = TRUE])

\* With no memory or id left for the internal operation the body stays open
\* until its instance closes.
hs_response_release(t, r) ==
  LET i == mem.resp[r].inst
      o == Slot(FreeOps)
      m == [mem EXCEPT !.resp[r].released = TRUE]
  IN /\ CanCall(t, "response_release") /\ r \in owned \cap Resps
     /\ owned' = owned \ {r}
     /\ \/ /\ ~mem.inst[i].closing /\ FreeOps # {} /\ nextId # IdMax
           /\ mem' = response_drop(new_op([m EXCEPT !.resp[r].refs = @ + 1], "drop", i, r, o, 0), r)
           /\ nextId' = nextId + 1 /\ activeOps' = activeOps + 1
           /\ enqueue(o)
        \/ /\ \/ mem.inst[i].closing \/ FreeOps = {} \/ nextId = IdMax
              \/ "alloc" \in Faults
           /\ mem' = response_drop(m, r)
           /\ UNCHANGED <<nextId, activeOps, commands, wake, waiting>>
     /\ UNCHANGED <<live, instances, notices, threads, wakeFd, loopVars, noteVars, call, created>>

\* Mutant: the owner is not woken.
hs_chunk_release_silently(t, c) ==
  LET i == mem.chunk[c].inst
      r == mem.chunk[c].resp
      m == [uncharge(mem, i, ChunkCost) EXCEPT !.resp[r].chunks = @ - 1,
                                               !.chunk[c] = NoChunk]
  IN /\ CanCall(t, "chunk_release") /\ c \in owned \cap Chunks
     /\ mem' = instance_drop(response_drop(m, r), i)
     /\ owned' = owned \ {c}
     /\ UNCHANGED <<counters, nextId, queues, threads, waker, waiting, loopVars, noteVars, call,
                    created>>

hs_chunk_release(t, c) ==
  LET i == mem.chunk[c].inst
      r == mem.chunk[c].resp
      m == [uncharge(mem, i, ChunkCost) EXCEPT !.resp[r].chunks = @ - 1,
                                               !.chunk[c] = NoChunk]
  IN /\ CanCall(t, "chunk_release") /\ c \in owned \cap Chunks
     /\ mem' = instance_drop(response_drop(m, r), i)
     /\ owned' = owned \ {c}
     /\ wake_owner
     /\ UNCHANGED <<counters, nextId, queues, threads, wakeFd, waiting, loopVars, noteVars,
                    call, created>>

hs_operation_cancel(t, o) ==
  /\ CanCall(t, "cancel") /\ o \in owned \cap Ops
  /\ mem.op[o].stage \notin DoneStages /\ mem.op[o].kind \in Business
  /\ mem' = [mem EXCEPT !.op[o].cancelled = TRUE]
  /\ wake_owner
  /\ UNCHANGED <<counters, nextId, queues, threads, wakeFd, waiting, loopVars, noteVars,
                 hostVars>>

\* hs_engine_release, hs_server_release and hs_operation_release: at once, or
\* (a host thread, an instance that is closing or closed) through the barrier.
drop(m, x) == IF x \in Insts THEN instance_drop(m, x) ELSE op_drop(m, x)
InstOf(x) == IF x \in Insts THEN x ELSE mem.op[x].inst
Barred(t, x) ==
  /\ t \in Hosts
  /\ IF x \in Insts THEN mem.inst[x].closing ELSE mem.inst[mem.op[x].inst].closed

release(t, x) ==
  /\ CanCall(t, IF x \in Insts THEN "release" ELSE "operation_release")
  /\ x \in owned \cap (Insts \cup Ops) /\ \A h \in Hosts : call[h] # [at |-> "stop", on |-> x]
  /\ owned' = owned \ {x}
  /\ \/ Barred(t, x) /\ call' = [call EXCEPT ![t] = [at |-> "barrier", on |-> x]]
        /\ UNCHANGED mem
     \/ ~Barred(t, x) /\ mem' = drop(mem, x) /\ UNCHANGED call
  /\ UNCHANGED <<counters, nextId, queues, threads, waker, waiting, loopVars, noteVars, created>>

\* release_barrier: the instance is closed, its notifications have returned and,
\* when it was the last one, the runtime is gone. The first two stay true once
\* true, so testing the three together is testing them one after the other.
Quiet(i) == mem.inst[i].closed /\ mem.inst[i].notifications = 0
\* Mutant: the notifier is taken to be gone once it says so.
release_barrier_unjoined(h) ==
  LET x == call[h].on
      i == InstOf(x)
  IN /\ call[h].at = "barrier" /\ h \notin waiting
     /\ \/ /\ Quiet(i) /\ (instances # 0 \/ state = 0)
           /\ mem' = drop(mem, x) /\ Return(h)
           /\ UNCHANGED <<state, waiting>>
        \/ /\ Quiet(i) /\ instances = 0 /\ state = 4
           /\ state' = 0 /\ mem' = drop(mem, x) /\ Return(h)
           /\ UNCHANGED waiting
        \/ /\ ~Quiet(i) \/ (instances = 0 /\ state \notin {0, 4})
           /\ waiting' = waiting \cup {h}
           /\ UNCHANGED <<mem, state, call>>
     /\ UNCHANGED <<counters, nextId, queues, ownerDone, ownerStarted, waker, loopVars,
                    noteVars, owned, created>>

release_barrier(h) ==
  LET x == call[h].on
      i == InstOf(x)
  IN /\ call[h].at = "barrier" /\ h \notin waiting
     /\ \/ /\ Quiet(i) /\ (instances # 0 \/ state = 0)
           /\ mem' = drop(mem, x) /\ Return(h)
           /\ UNCHANGED <<state, waiting>>
        \/ /\ Quiet(i) /\ instances = 0 /\ state = 4
           /\ state' = 5 /\ call' = [call EXCEPT ![h].at = "barrier_join"]
           /\ UNCHANGED <<mem, waiting>>
        \/ /\ ~Quiet(i) \/ (instances = 0 /\ state \notin {0, 4})
           /\ waiting' = waiting \cup {h}
           /\ UNCHANGED <<mem, state, call>>
     /\ UNCHANGED <<counters, nextId, queues, ownerDone, ownerStarted, waker, loopVars,
                    noteVars, owned, created>>

barrier_joins(h) ==
  /\ call[h].at = "barrier_join" /\ notifier = "exit"
  /\ notifier' = "none" /\ state' = 0 /\ Broadcast
  /\ mem' = drop(mem, call[h].on) /\ Return(h)
  /\ UNCHANGED <<counters, nextId, queues, ownerDone, ownerStarted, waker, loopVars, noteOp,
                 owned, created>>

\* hs_server_start and hs_server_stop are the asynchronous call and a wait of the same thread
\* for its callback; hs_server_destroy is hs_server_stop and release. A host that has made the
\* asynchronous call enters the wait here, at once or later.
sync_waits(h, o) ==
  /\ h \in Hosts /\ CanCall(h, "sync") /\ o \in owned \cap Ops
  /\ mem.op[o].kind \in {"start", "close"} /\ mem.inst[mem.op[o].inst].server
  /\ owned' = owned \ {o} /\ call' = [call EXCEPT ![h] = [at |-> "sync", on |-> o]]
  /\ UNCHANGED <<heap, queues, threads, waker, waiting, loopVars, noteVars, created>>

\* `while (!s.done) WAIT`, then hs_operation_release.
sync_resumes(h) ==
  LET o == call[h].on
      done == mem.op[o].stage \in {"callback", "returned"}
  IN /\ call[h].at = "sync" /\ h \notin waiting
     /\ \/ done /\ Barred(h, o) /\ call' = [call EXCEPT ![h].at = "barrier"]
           /\ UNCHANGED <<mem, waiting>>
        \/ done /\ ~Barred(h, o) /\ mem' = drop(mem, o) /\ Return(h) /\ UNCHANGED waiting
        \/ ~done /\ waiting' = waiting \cup {h} /\ UNCHANGED <<mem, call>>
     /\ UNCHANGED <<counters, nextId, queues, threads, waker, loopVars, noteVars, owned, created>>

\* hs_server_stop of a server that somebody else is closing, also when it learns so from
\* hs_server_stop_async: it has no operation and waits for `closed`.
stop_waits(h, i) ==
  /\ h \in Hosts /\ CanCall(h, "stop") /\ i \in owned \cap Insts
  /\ mem.inst[i].server /\ mem.inst[i].closing
  /\ call' = [call EXCEPT ![h] = [at |-> "stop", on |-> i]]
  /\ UNCHANGED <<heap, queues, threads, waker, waiting, loopVars, noteVars, owned, created>>

stop_resumes(h) ==
  /\ call[h].at = "stop" /\ h \notin waiting
  /\ \/ mem.inst[call[h].on].closed /\ Return(h) /\ UNCHANGED waiting
     \/ ~mem.inst[call[h].on].closed /\ waiting' = waiting \cup {h} /\ UNCHANGED call
  /\ UNCHANGED <<heap, queues, threads, waker, loopVars, noteVars, owned, created>>

-----------------------------------------------------------------------------
(* The notifier thread                                                      *)

\* The handle a successful event gives the host.
Given(o) == IF mem.op[o].event = None THEN {} ELSE {mem.op[o].event}

notify_waits ==
  /\ notifier = "loop" /\ Notifier \notin waiting
  /\ notices = <<>> /\ ~ownerDone
  /\ waiting' = waiting \cup {Notifier}
  /\ UNCHANGED <<heap, queues, threads, waker, loopVars, noteVars, hostVars>>

\* Take the next notice and run its callback without the lock. sync_callback takes it again, to
\* wake the thread that waits; nobody sees the state in between.
notify_calls ==
  LET o == Head(notices)
  IN /\ notifier = "loop" /\ Notifier \notin waiting
     /\ notices # <<>>
     /\ notices' = Tail(notices)
     /\ notifier' = "callback" /\ noteOp' = o
     /\ mem' = [mem EXCEPT !.op[o].stage = "callback", !.op[o].event = None]
     /\ owned' = owned \cup Given(o)
     /\ IF \E h \in Hosts : call[h] = [at |-> "sync", on |-> o] THEN Broadcast ELSE UNCHANGED waiting
     /\ UNCHANGED <<counters, nextId, commands, threads, waker, loopVars, call, created>>

\* Mutant: the owner is not woken.
notify_returns_asleep ==
  LET i == mem.op[noteOp].inst
  IN /\ notifier = "callback"
     /\ mem' = op_drop([mem EXCEPT !.inst[i].notifications = @ - 1,
                                   !.op[noteOp].stage = "returned"], noteOp)
     /\ activeOps' = activeOps - 1
     /\ notifier' = "loop" /\ noteOp' = None
     /\ Broadcast
     /\ UNCHANGED <<live, instances, nextId, queues, threads, waker, loopVars, hostVars>>

notify_returns ==
  LET i == mem.op[noteOp].inst
  IN /\ notifier = "callback"
     /\ mem' = op_drop([mem EXCEPT !.inst[i].notifications = @ - 1,
                                   !.op[noteOp].stage = "returned"], noteOp)
     /\ activeOps' = activeOps - 1
     /\ notifier' = "loop" /\ noteOp' = None
     /\ Broadcast /\ wake_owner
     /\ UNCHANGED <<live, instances, nextId, queues, threads, wakeFd, loopVars, hostVars>>

notify_leaves ==
  /\ notifier = "loop" /\ Notifier \notin waiting
  /\ notices = <<>> /\ ownerDone
  /\ notifier' = "join"
  /\ UNCHANGED <<heap, queues, threads, waker, waiting, loopVars, noteOp, hostVars>>

\* Mutant: nobody is told.
notify_joins_silently ==
  /\ notifier = "join"
  /\ ownerStarted => owner = "exit"
  /\ notifier' = "leaving" /\ owner' = "none"
  /\ state' = 4 /\ UNCHANGED waiting
  /\ UNCHANGED <<heap, queues, ownerDone, ownerStarted, waker, parked, noteOp, hostVars>>

notify_joins ==
  /\ notifier = "join"
  /\ ownerStarted => owner = "exit"
  /\ notifier' = "leaving" /\ owner' = "none"
  /\ state' = 4 /\ Broadcast
  /\ UNCHANGED <<heap, queues, ownerDone, ownerStarted, waker, parked, noteOp, hostVars>>

notify_exits ==
  /\ notifier = "leaving" /\ notifier' = "exit"
  /\ UNCHANGED <<heap, queues, threads, waker, waiting, loopVars, noteOp, hostVars>>

-----------------------------------------------------------------------------
(* The owner thread: owner_main and the loop of runtime.mbt run             *)

Tasks == {o \in Ops : mem.op[o].stage \in TaskStages}

owner_attaches ==
  /\ owner = "boot"
  /\ owner' = "read"
  /\ state' = 2 /\ wakeFd' = TRUE
  /\ pipe' = "byte" /\ wakePending' = TRUE
  /\ UNCHANGED <<heap, queues, ownerDone, ownerStarted, waiting, parked, noteVars, hostVars>>

owner_boot_fails ==
  /\ owner = "boot" /\ "boot" \in Faults
  /\ owner' = "unwound"
  /\ UNCHANGED <<heap, queues, threads, waker, waiting, parked, noteVars, hostVars>>

\* read_exactly(1)
owner_reads ==
  /\ owner = "read" /\ pipe = "byte"
  /\ owner' = "ack" /\ pipe' = "empty"
  /\ UNCHANGED <<heap, queues, threads, wakeFd, wakePending, waiting, parked, noteVars, hostVars>>

\* hs_bridge_ack, then context.changed.broadcast()
owner_acks ==
  /\ owner = "ack"
  /\ owner' = "pop" /\ wakePending' = FALSE /\ parked' = {}
  /\ UNCHANGED <<heap, queues, threads, wakeFd, pipe, waiting, noteVars, hostVars>>

\* task.cancel(): the task raises at its next suspension point, and is woken.
Cancel(m, S) == [m EXCEPT !.op = [o \in Ops |->
                   IF o \in S THEN [m.op[o] EXCEPT !.cancelling = TRUE] ELSE m.op[o]]]

\* hs_bridge_pop and group.spawn until the queue is empty. A pop is not visible
\* to other threads, so the loop is the section that finds the queue empty.
owner_pops ==
  /\ owner = "pop"
  /\ commands' = <<>>
  /\ mem' = [mem EXCEPT !.op = [o \in Ops |->
               IF @[o].stage = "queued" THEN [@[o] EXCEPT !.stage = "spawned"] ELSE @[o]]]
  /\ owner' = "scan"
  /\ UNCHANGED <<counters, nextId, notices, threads, waker, waiting, parked, noteVars, hostVars>>

Unused == instances = 0 /\ activeOps = 0 /\ commands = <<>>
\* Mutant: the descriptor stays set.
owner_idles_keeps_fd ==
  LET S == {o \in Tasks : mem.op[o].kind \in Business /\ Cancelled(mem, o)}
  IN /\ owner = "scan"
     /\ mem' = Cancel(mem, S) /\ parked' = parked \ S
     /\ \/ ~Unused /\ owner' = "read" /\ UNCHANGED <<state, wakeFd>>
        \/ Unused /\ owner' = "unwind" /\ state' = 3 /\ UNCHANGED wakeFd
     /\ UNCHANGED <<counters, nextId, queues, ownerDone, ownerStarted, wake, waiting, noteVars,
                    hostVars>>

\* The cancellation scan of the tasks, then hs_bridge_idle.
owner_idles ==
  LET S == {o \in Tasks : mem.op[o].kind \in Business /\ Cancelled(mem, o)}
  IN /\ owner = "scan"
     /\ mem' = Cancel(mem, S) /\ parked' = parked \ S
     /\ \/ ~Unused /\ owner' = "read" /\ UNCHANGED <<state, wakeFd>>
        \/ Unused /\ owner' = "unwind" /\ state' = 3 /\ wakeFd' = FALSE
     /\ UNCHANGED <<counters, nextId, queues, ownerDone, ownerStarted, wake, waiting, noteVars,
                    hostVars>>

\* The read raises: the task group cancels every task and waits for them.
owner_loop_fails ==
  /\ owner = "read" /\ "loop" \in Faults
  /\ owner' = "unwind"
  /\ mem' = Cancel(mem, Tasks) /\ parked' = {}
  /\ UNCHANGED <<counters, nextId, queues, threads, waker, waiting, noteVars, hostVars>>

ServersUp == {i \in Insts : mem.inst[i].server /\ mem.inst[i].up}
\* The group is empty; both ends of the pipe are closed and MoonBit returns.
owner_unwinds ==
  /\ owner = "unwind" /\ Tasks = {} /\ ServersUp = {}
  /\ owner' = "unwound" /\ pipe' = "none"
  /\ UNCHANGED <<heap, queues, threads, wakeFd, wakePending, waiting, parked, noteVars, hostVars>>

owner_stops ==
  /\ owner = "unwound"
  /\ owner' = "fail" /\ state' = 3 /\ wakeFd' = FALSE
  /\ UNCHANGED <<heap, queues, ownerDone, ownerStarted, wake, waiting, parked, noteVars,
                 hostVars>>

\* hs_bridge_complete, on the owner; a task ends with a broadcast to the others.
hs_bridge_complete(m, o, ok) ==
  /\ mem' = Completed(m, o, ok)
  /\ notices' = Append(notices, o)
  /\ IF Retires(mem, o, ok)
     THEN live' = live \ {mem.op[o].inst} /\ instances' = instances - 1
     ELSE UNCHANGED <<live, instances>>
  /\ parked' = {}
  /\ Broadcast /\ wake_owner

\* Mutant: the command is dropped.
owner_fails_command_silently ==
  /\ owner = "fail" /\ commands # <<>>
  /\ commands' = Tail(commands)
  /\ UNCHANGED <<heap, notices, threads, waker, waiting, loopVars, noteVars, hostVars>>

\* A command still queued when the loop is over fails with HS_ERR_IO. The pop
\* and the completion are two critical sections; only this thread pops.
owner_fails_command ==
  /\ owner = "fail" /\ commands # <<>>
  /\ commands' = Tail(commands)
  /\ hs_bridge_complete(mem, Head(commands), FALSE)
  /\ UNCHANGED <<activeOps, nextId, threads, wakeFd, owner, noteVars, hostVars>>

\* The instances still live are retired in the section that saw no command.
owner_retires ==
  /\ owner = "fail" /\ commands = <<>>
  /\ mem' = Abandoned(mem, live)
  /\ instances' = instances - Cardinality(live) /\ live' = {}
  /\ ownerDone' = TRUE /\ Broadcast
  /\ owner' = "leaving"
  /\ UNCHANGED <<activeOps, nextId, queues, state, ownerStarted, waker, parked, noteVars,
                 hostVars>>

owner_exits ==
  /\ owner = "leaving" /\ owner' = "exit"
  /\ UNCHANGED <<heap, queues, threads, waker, waiting, parked, noteVars, hostVars>>

-----------------------------------------------------------------------------
(* Tasks: Context::execute. They run on the owner between two turns of its   *)
(* loop, or while the group unwinds.                                        *)

Running == owner \in {"read", "unwind"}
taskRest == <<activeOps, nextId, commands, threads, wakeFd, owner, noteVars, hostVars>>

Finish(m, o, ok) == hs_bridge_complete(m, o, ok) /\ UNCHANGED taskRest
Step(m) == /\ mem' = m
           /\ UNCHANGED <<live, instances, notices, wake, waiting>>
           /\ UNCHANGED taskRest
Go(o, stage) == [mem EXCEPT !.op[o].stage = stage]

\* The other tasks of the instance a close operation belongs to.
Siblings(o) == {p \in Tasks \ {o} : mem.op[p].inst = mem.op[o].inst}

\* From the top of execute to the first suspension point.
task_starts(o) ==
  LET op == mem.op[o]
      i  == op.inst
      c  == op.kind \in Business /\ Cancelled(mem, o)
  IN /\ Running /\ op.stage = "spawned"
     /\ \/ c /\ Finish(mem, o, FALSE)
        \/ /\ ~c /\ op.kind \in {"create", "start", "drop"}
           /\ Step(Go(o, "running")) /\ UNCHANGED parked
        \/ /\ ~c /\ op.kind = "submit"
           /\ \/ mem.inst[i].up /\ Step(Go(o, "running")) /\ UNCHANGED parked
              \/ ~mem.inst[i].up /\ Finish(mem, o, FALSE)
        \/ /\ ~c /\ op.kind = "read"
           /\ Step(Go(o, "reading")) /\ UNCHANGED parked
        \/ /\ op.kind = "close"
           /\ Step([Cancel(Go(o, "stopping"), Siblings(o)) EXCEPT
                      !.inst[i].up = @ /\ mem.inst[i].server])
           /\ parked' = parked \ Siblings(o)

\* StaticEngine::open ended. A task cancelled meanwhile closes its engine again.
task_opens(o) ==
  LET i == mem.op[o].inst
  IN /\ Running /\ mem.op[o].stage = "running" /\ mem.op[o].kind = "create"
     /\ \/ Cancelled(mem, o) /\ Finish(mem, o, FALSE)
        \/ ~Cancelled(mem, o) /\ Finish([mem EXCEPT !.inst[i].up = TRUE], o, TRUE)

\* serve is listening: the operation completes, the server's scope goes on.
task_serves(o) ==
  /\ Running /\ mem.op[o].stage = "running" /\ mem.op[o].kind = "start"
  /\ Finish([mem EXCEPT !.inst[mem.op[o].inst].up = TRUE], o, TRUE)

\* The server's scope ends: asked to by a stop, cancelled, or by itself.
server_ends(i) ==
  /\ Running /\ i \in ServersUp
  /\ Step([mem EXCEPT !.inst[i].up = FALSE]) /\ UNCHANGED parked

\* StaticEngine::handle declined the request.
task_nexts(o) ==
  /\ Running /\ mem.op[o].stage = "running" /\ mem.op[o].kind = "submit"
  /\ Finish(mem, o, TRUE)

\* StaticEngine::handle gave a response: hs_bridge_response and one
\* hs_bridge_set_header, without a suspension point before the completion. A
\* refused allocation or charge closes the response first.
task_handles(o) ==
  LET i == mem.op[o].inst
      r == Slot(FreeResps)
      can == FreeResps # {} /\ mem.inst[i].responses < ResponseLimit
      made(n) == response_made(mem, i, r, n, o)
  IN /\ Running /\ mem.op[o].stage = "running" /\ mem.op[o].kind = "submit"
     /\ mem.inst[i].up
     /\ \/ can /\ Fits(mem, i, Budget, RespCost + HeaderCost)
           /\ Finish(made(RespCost + HeaderCost), o, TRUE)
        \/ can /\ Fits(mem, i, Budget, RespCost) /\ ~Fits(mem, i, Budget, RespCost + HeaderCost)
           /\ Step([made(RespCost) EXCEPT !.op[o].stage = "discard", !.resp[r].listed = FALSE])
           /\ UNCHANGED parked
        \/ (~can \/ ~Fits(mem, i, Budget, RespCost))
           /\ Step(Go(o, "discard")) /\ UNCHANGED parked

task_discards(o) ==
  /\ Running /\ mem.op[o].stage = "discard"
  /\ Finish(mem, o, FALSE)

\* while !read_ready(op) changed.wait(); then response.read is entered.
task_awaits_chunk(o) ==
  LET r == mem.op[o].resp
  IN /\ Running /\ mem.op[o].stage = "reading" /\ o \notin parked
     /\ \/ ~mem.resp[r].listed /\ Finish(mem, o, FALSE)
        \/ /\ mem.resp[r].listed /\ mem.resp[r].chunks = 0
           /\ Step(Go(o, "running")) /\ UNCHANGED parked
        \/ /\ mem.resp[r].listed /\ mem.resp[r].chunks # 0 /\ ~mem.op[o].cancelling
           /\ Step(mem) /\ parked' = parked \cup {o}

\* Response::read returned bytes (the cursor has moved) and hs_bridge_chunk
\* copies them, or refuses; or it returned no bytes, the end of the body.
task_reads(o) ==
  LET i == mem.op[o].inst
      r == mem.op[o].resp
      c == Slot(FreeChunks)
      m == [mem EXCEPT !.resp[r].pos = @ + 1]
      fits == FreeChunks # {} /\ Fits(mem, i, Budget, ChunkCost)
  IN /\ Running /\ mem.op[o].stage = "running" /\ mem.op[o].kind = "read"
     /\ mem.inst[i].up /\ ~mem.resp[r].shut
     /\ \/ mem.resp[r].pos = BodyLen /\ Finish(mem, o, TRUE)
        \/ /\ mem.resp[r].pos < BodyLen /\ fits
           /\ Finish(chunk_made(m, i, r, c, o), o, TRUE)
        \/ mem.resp[r].pos < BodyLen /\ ~fits /\ Finish(m, o, FALSE)

\* An error or a cancellation leaves the body of execute; a failed read has
\* closed its response.
task_raises(o) ==
  LET op == mem.op[o]
  IN /\ Running
     /\ \/ /\ op.stage = "running" /\ op.kind # "read"
           /\ op.kind = "drop" => op.cancelling
           /\ Finish(mem, o, FALSE)
        \/ /\ op.stage = "running" /\ op.kind = "read"
           /\ Finish([mem EXCEPT !.resp[op.resp].shut = TRUE], o, FALSE)
        \/ /\ op.stage \in {"reading", "stopping", "draining"} /\ op.cancelling
           /\ Finish(mem, o, FALSE)

\* An internal release closed the engine's response.
task_drops(o) ==
  /\ Running /\ mem.op[o].stage = "running" /\ mem.op[o].kind = "drop"
  /\ Finish([mem EXCEPT !.resp[mem.op[o].resp].listed = FALSE,
                        !.resp[mem.op[o].resp].shut = TRUE], o, TRUE)

\* A close waits for the server's scope, then for every other operation.
task_stops(o) ==
  /\ Running /\ mem.op[o].stage = "stopping"
  /\ ~mem.inst[mem.op[o].inst].up
  /\ Step(Go(o, "draining")) /\ UNCHANGED parked

\* Mutant: a close does not wait for the other operations.
task_closes_early(o) ==
  LET i == mem.op[o].inst
  IN /\ Running /\ mem.op[o].stage = "draining" /\ o \notin parked
     /\ Finish([mem EXCEPT !.resp = [r \in Resps |->
                        IF @[r].inst = i THEN [@[r] EXCEPT !.listed = FALSE, !.shut = TRUE]
                                         ELSE @[r]]], o, TRUE)

task_closes(o) ==
  LET i == mem.op[o].inst
  IN /\ Running /\ mem.op[o].stage = "draining" /\ o \notin parked
     /\ \/ /\ mem.inst[i].active > 1 /\ ~mem.op[o].cancelling
           /\ Step(mem) /\ parked' = parked \cup {o}
        \/ /\ mem.inst[i].active = 1
           /\ Finish([mem EXCEPT !.resp = [r \in Resps |->
                        IF @[r].inst = i THEN [@[r] EXCEPT !.listed = FALSE, !.shut = TRUE]
                                         ELSE @[r]]], o, TRUE)

-----------------------------------------------------------------------------
(* The specification                                                        *)

Init ==
  /\ mem = [inst |-> [i \in Insts |-> NoInst], op |-> [o \in Ops |-> NoOp],
            resp |-> [r \in Resps |-> NoResp], chunk |-> [c \in Chunks |-> NoChunk],
            retained |-> 0]
  /\ live = {} /\ instances = 0 /\ activeOps = 0 /\ nextId = 1
  /\ commands = <<>> /\ notices = <<>>
  /\ state = 0 /\ ownerDone = FALSE /\ ownerStarted = FALSE
  /\ wakeFd = FALSE /\ wakePending = FALSE /\ pipe = "none"
  /\ waiting = {} /\ owner = "none" /\  parked = {}
  /\ notifier = "none" /\ noteOp = None
  /\ call = [h \in Hosts |-> Idle] /\ owned = {} /\ created = 0

Enter(t) ==
  \/ \E kind \in {"create", "start"} : create_async(t, kind) \/ create_async_reaps(t, kind)
  \/ \E i \in Insts : close_async(t, i) \/ hs_submit_async(t, i) \/ hs_submit_abandons(t, i)
  \/ \E r \in Resps : hs_response_read_async(t, r) \/ hs_response_release(t, r)
  \/ \E c \in Chunks : hs_chunk_release(t, c)
  \/ \E o \in Ops : hs_operation_cancel(t, o)
  \/ \E x \in Insts \cup Ops : release(t, x)
  \/ (\E o \in Ops : sync_waits(t, o)) \/ (\E i \in Insts : stop_waits(t, i))

Resume(h) == \/ CreateResumes(h) \/ CreateJoins(h) \/ release_barrier(h) \/ barrier_joins(h)
             \/ sync_resumes(h) \/ stop_resumes(h)

Notify == \/ notify_waits \/ notify_calls \/ notify_returns
          \/ notify_leaves \/ notify_joins \/ notify_exits

Loop == \/ owner_attaches \/ owner_reads \/ owner_acks \/ owner_pops
        \/ owner_idles \/ owner_unwinds
        \/ owner_stops \/ owner_fails_command \/ owner_retires \/ owner_exits

Fault == owner_boot_fails \/ owner_loop_fails

Task(o) == \/ task_starts(o) \/ task_opens(o) \/ task_serves(o) \/ task_nexts(o)
           \/ task_handles(o) \/ task_discards(o) \/ task_awaits_chunk(o) \/ task_reads(o)
           \/ task_raises(o) \/ task_drops(o) \/ task_stops(o) \/ task_closes(o)

Next == \/ \E t \in Callers : Enter(t)
        \/ \E h \in Hosts : Resume(h)
        \/ Notify \/ Loop \/ Fault
        \/ \E o \in Ops : Task(o)
        \/ \E i \in Insts : server_ends(i)

Spec == Init /\ [][Next]_vars

\* The two library threads keep running and callbacks return; a host thread
\* inside a blocking call takes the lock again; hosts owe nothing else. Tasks run
\* only while the loop is suspended, but its scheduler runs every ready coroutine
\* before it polls the pipe again, so hosts that wake it over and over starve none
\* of them (strong fairness). A server asked to stop stops.
Asked(i) == owner = "unwind" \/ \E o \in Ops : mem.op[o].stage = "stopping" /\ mem.op[o].inst = i
Fairness ==
  /\ \A h \in Hosts : WF_vars(Resume(h))
  /\ WF_vars(Notify) /\ WF_vars(Loop)
  /\ \A o \in Ops : SF_vars(Task(o))
  /\ \A i \in Insts : SF_vars(Asked(i) /\ server_ends(i))
FairSpec == Spec /\ Fairness
=============================================================================
