----------------------------- MODULE BridgeProps -----------------------------
(***************************************************************************)
(* What the bridge promises its hosts, and what keeps it safe.             *)
(***************************************************************************)
EXTENDS Bridge, FiniteSetsExt

OpRecords == [refs : 0..2, kind : Kinds, stage : Stages, cancelled : BOOLEAN,
              cancelling : BOOLEAN, inst : Insts \cup {None}, resp : Resps \cup {None},
              charge : Nat, ok : BOOLEAN, event : Insts \cup Resps \cup Chunks \cup {None}]
InstRecords == [refs : Nat, server : BOOLEAN, closing : BOOLEAN, closed : BOOLEAN,
                active : Nat, notifications : Nat, responses : Nat, charged : Nat,
                up : BOOLEAN]
RespRecords == [refs : Nat, inst : Insts \cup {None}, reading : BOOLEAN,
                released : BOOLEAN, chunks : Nat, charge : Nat, listed : BOOLEAN,
                shut : BOOLEAN, pos : 0..BodyLen, sent : 0..BodyLen]

\* The fields of bridge.c keep their types; in particular no counter or charge underflows.
TypeOK ==
  /\ mem.inst \in [Insts -> InstRecords] /\ mem.op \in [Ops -> OpRecords]
  /\ mem.resp \in [Resps -> RespRecords]
  /\ mem.chunk \in [Chunks -> [inst : Insts \cup {None}, resp : Resps \cup {None}]]
  /\ mem.retained \in 0..Total
  /\ live \subseteq Insts /\ instances \in Nat /\ activeOps \in Nat /\ nextId \in 1..IdMax
  /\ commands \in Seq(Ops) /\ notices \in Seq(Ops)
  /\ state \in 0..5 /\ ownerDone \in BOOLEAN /\ ownerStarted \in BOOLEAN
  /\ wakeFd \in BOOLEAN /\ wakePending \in BOOLEAN /\ pipe \in {"none", "empty", "byte"}
  /\ waiting \subseteq Callers /\ parked \subseteq Ops
  /\ owner \in {"none", "boot", "read", "ack", "pop", "scan", "unwind", "unwound", "fail",
                "leaving", "exit"}
  /\ notifier \in {"none", "loop", "callback", "join", "leaving", "exit"}
  /\ noteOp \in Ops \cup {None} /\ owned \subseteq Handles /\ created \in 0..CreateBudget
  /\ \A h \in Hosts : call[h].at \in {"idle", "reap", "join", "barrier", "barrier_join", "sync", "stop"}

-----------------------------------------------------------------------------
(* Memory                                                                   *)

Count(S) == Cardinality(S)
One(b) == IF b THEN 1 ELSE 0
LiveOps == {o \in Ops : mem.op[o].refs > 0}
LiveResps == {r \in Resps : mem.resp[r].refs > 0}
LiveChunks == Chunks \ FreeChunks
\* The host's own reference, kept while a release call waits at the barrier, or a synchronous
\* one for its callback.
HostHolds(x) == \/ x \in owned
                \/ \E h \in Hosts : /\ call[h].at \in {"barrier", "barrier_join", "sync"}
                                    /\ call[h].on = x
\* An operation whose event has not reached its callback.
Undelivered(o) == mem.op[o].stage \in TaskStages \cup {"notice"}
EventRefs(x) == Count({o \in LiveOps : Undelivered(o) /\ mem.op[o].event = x})

InstHolders(i) == One(i \in live) + One(HostHolds(i)) + EventRefs(i)
                  + Count({o \in LiveOps : mem.op[o].inst = i})
                  + Count({r \in LiveResps : mem.resp[r].inst = i})
                  + Count({c \in LiveChunks : mem.chunk[c].inst = i})
RespHolders(r) == One(r \in owned) + EventRefs(r)
                  + Count({o \in LiveOps : mem.op[o].resp = r})
                  + Count({c \in LiveChunks : mem.chunk[c].resp = r})
OpHolders(o) == One(HostHolds(o)) + One(mem.op[o].stage \notin {"none", "returned"})

\* The reference count of an instance, and of a response, is the number of pointers to
\* it: the live list, undelivered events, other handles, and the host. So it is freed
\* exactly when nothing can reach it, whatever order the instance, its operations,
\* responses and chunks are released in (instance_drop, response_drop, op_drop), and
\* none is leaked. OpsExact says so of operations.
RefsExact ==
  /\ \A i \in Insts : mem.inst[i].refs = InstHolders(i)
  /\ \A r \in Resps : mem.resp[r].refs = RespHolders(r)

ChargesOf(i) ==
  MapThenSumSet(LAMBDA o : mem.op[o].charge, {o \in LiveOps : mem.op[o].inst = i})
  + MapThenSumSet(LAMBDA r : mem.resp[r].charge, {r \in LiveResps : mem.resp[r].inst = i})
  + MapThenSumSet(LAMBDA c : ChunkCost, {c \in LiveChunks : mem.chunk[c].inst = i})

\* retained_bytes and each instance's charged are the costs of exactly the objects
\* still alive, on every error path too (abandon, a refused response or header, a
\* cancelled operation), so the 64 MiB bound neither leaks nor is overdrawn.
ChargesExact ==
  /\ \A i \in Insts : mem.inst[i].charged = ChargesOf(i)
  /\ mem.retained = MapThenSumSet(ChargesOf, Insts)

\* tests/native_sanitizer/abi.c after the last release: no runtime, no instance, no
\* operation and no byte is left. Here: once the runtime is reaped and the host holds
\* nothing, everything is freed.
Drained ==
  (state = 0 /\ owned = {} /\ \A h \in Hosts : call[h] = Idle) =>
    /\ instances = 0 /\ activeOps = 0 /\ mem.retained = 0
    /\ FreeInsts = Insts /\ FreeOps = Ops /\ FreeResps = Resps /\ FreeChunks = Chunks

-----------------------------------------------------------------------------
(* Operations                                                               *)

InFlight(i) == {o \in LiveOps : /\ mem.op[o].inst = i
                                /\ mem.op[o].stage \in {"queued"} \cup TaskStages}
Unreturned(i) == {o \in LiveOps : mem.op[o].inst = i /\ mem.op[o].stage # "returned"}

\* An accepted operation is in exactly one place on its way to its one callback: once in the
\* commands, a task, once in the notices, or in the notifier's hands. Its references are the
\* pipeline's and the host's, whoever of them lets go first (op_drop), and active_ops,
\* which admission and the idle check use, counts the operations under way.
OpsExact ==
  /\ IsInjective(commands) /\ Range(commands) = {o \in Ops : mem.op[o].stage = "queued"}
  /\ IsInjective(notices) /\ Range(notices) = {o \in Ops : mem.op[o].stage = "notice"}
  /\ {o \in Ops : mem.op[o].stage = "callback"} = {noteOp} \ {None}
  /\ \A o \in Ops : mem.op[o].refs = OpHolders(o)
  /\ activeOps = Count({o \in LiveOps : mem.op[o].stage # "returned"})

\* active, notifications and instances count what they are named for: close waits for
\* active, the release barrier for notifications, the idle check for instances.
PipelineExact ==
  /\ \A i \in Insts : /\ mem.inst[i].active = Count(InFlight(i))
                      /\ mem.inst[i].notifications = Count(Unreturned(i))
  /\ instances = Count(live)

\* One read in flight per response, and none is answered while the host still has
\* the chunk before it.
OneRead ==
  \A r \in LiveResps :
    LET reads == {o \in LiveOps : mem.op[o].kind = "read" /\ mem.op[o].resp = r
                                  /\ mem.op[o].stage \in {"queued"} \cup TaskStages}
    IN /\ Count(reads) = One(mem.resp[r].reading)
       /\ mem.resp[r].chunks = Count({c \in LiveChunks : mem.chunk[c].resp = r})
       /\ mem.resp[r].chunks <= 1

-----------------------------------------------------------------------------
(* Threads                                                                  *)

\* Once state is 0 again both library threads have left this image: the release
\* barrier may be followed by unloading the library.
NoThreadAtRest == state = 0 => owner = "none" /\ notifier = "none"

\* A business task the host has asked to stop; a released response stops its read
\* through the internal operation, when there was memory for one.
Stopped(o) ==
  /\ mem.op[o].kind \in Business
  /\ \/ mem.op[o].cancelled
     \/ mem.inst[mem.op[o].inst].closing
     \/ \E p \in Tasks : mem.op[p].kind = "drop" /\ mem.op[p].resp = mem.op[o].resp

Asleep == owner = "read" /\ pipe = "empty"
\* A command that was queued has woken the owner, or will be popped before it sleeps.
NoLostCommand == Asleep => commands = <<>>

\* The owner sleeps on its pipe only when nothing needs it: no command, no
\* cancellation to act on, no task whose condition has come true, no idle runtime
\* to stop. This is what the wake_pending handshake must never lose.
NoLostWakeup ==
  /\ NoLostCommand
  /\ Asleep =>
       /\ ~Unused
       /\ \A o \in Tasks : Stopped(o) => mem.op[o].cancelling
       /\ \A o \in parked : IF mem.op[o].kind = "read"
                            THEN mem.resp[mem.op[o].resp].chunks # 0
                            ELSE mem.inst[mem.op[o].inst].active > 1

\* The wake descriptor is never used after its pipe was closed by an orderly stop.
WakeFdOpen == (wakeFd /\ "loop" \notin Faults) => pipe # "none"

\* An accepted operation is called back; a read may wait for its host to give back
\* the previous chunk.
Answered ==
  \A o \in Ops :
    mem.op[o].stage \in {"queued"} \cup TaskStages ~>
      \/ mem.op[o].stage \in {"none", "returned"}
      \/ mem.op[o].kind = "read" /\ mem.resp[mem.op[o].resp].chunks > 0

\* A release waiting at the barrier, a create waiting for the old runtime to end, a
\* synchronous start or stop waiting for its callback, and a stop waiting for another one, return.
CallsReturn == \A h \in Hosts : call[h].at # "idle" ~> call[h].at = "idle"

\* A runtime nobody uses ends.
RuntimeEnds ==
  (instances = 0 /\ activeOps = 0 /\ state \in {1, 2, 3}) ~> (instances # 0 \/ state \in {0, 4})

-----------------------------------------------------------------------------
(* Refinement                                                               *)

\* The abstract phase of an operation. A cancelled or failing close keeps being one.
Phase(o) == CASE mem.op[o].stage = "none" -> "free"
              [] mem.op[o].stage = "callback" -> "calling"
              [] mem.op[o].stage = "returned" -> "called"
              [] OTHER -> "accepted"
Promise == INSTANCE AsyncContract WITH
  phase   <- [o \in Ops |-> Phase(o)],
  of      <- [o \in Ops |-> mem.op[o].inst],
  closes  <- [o \in Ops |-> mem.op[o].kind = "close"],
  ok      <- [o \in Ops |-> Phase(o) \in {"calling", "called"} /\ mem.op[o].ok],
  closing <- {i \in Insts : mem.inst[i].closing}

\* docs/async-abi-1.1.md, the lifecycle: the queues, threads and reference counts of
\* bridge.c give hosts the abstract contract, whatever the interleaving.
Contract == Promise!ContractSpec

-----------------------------------------------------------------------------
(* What the documents promise and the code does not keep                    *)

\* docs/design.md:571, "a response neither repeats nor skips bytes": when a read reports
\* the end of a body, every byte of it has been handed to the host.
WholeBody ==
  \A o \in LiveOps :
    (mem.op[o].kind = "read" /\ mem.op[o].stage = "notice" /\ mem.op[o].ok
       /\ mem.op[o].event = None)
      => mem.resp[mem.op[o].resp].sent = BodyLen

\* docs/async-abi-1.1.md:27, "an upper limit of 1024 instances".
InstanceLimit == instances <= MaxInstances
==============================================================================
