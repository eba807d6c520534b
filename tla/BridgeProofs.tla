---------------------------- MODULE BridgeProofs ----------------------------
(***************************************************************************)
(* The two library threads, the host threads that wait for them and the    *)
(* wake-up handshake; then the way of every operation from new_op to its   *)
(* last op_drop. Last, the books of the heap: what the counters of bridge.c*)
(* count, and what each function of the heap does to them;                 *)
(* BridgeMemoryProofs goes on from there. For any number of hosts, handles *)
(* and failures.                                                           *)
(***************************************************************************)
EXTENDS BridgeProps, SumLemmas

Places == {"idle", "reap", "join", "barrier", "barrier_join", "sync", "stop"}
Subjects == Handles \cup {None, "create", "start"}
CallTypeOK == call \in [Hosts -> [at : Places, on : Subjects]]

\* Where the two library threads can be in each state of the runtime.
ThreadsAgree ==
  \/ state = 0 /\ owner = "none" /\ notifier = "none"
  \/ /\ state = 1 /\ owner \in {"boot", "unwound"}
     /\ notifier \in {"loop", "callback"} /\ ownerStarted = TRUE /\ ownerDone = FALSE
  \/ /\ state = 2 /\ owner \in {"read", "ack", "pop", "scan", "unwind", "unwound"}
     /\ notifier \in {"loop", "callback"} /\ ownerStarted = TRUE /\ ownerDone = FALSE
  \/ /\ state = 3 /\ owner \in {"unwind", "unwound", "fail"}
     /\ notifier \in {"loop", "callback"} /\ ownerStarted = TRUE /\ ownerDone = FALSE
  \/ /\ state = 3 /\ owner \in {"leaving", "exit"}
     /\ notifier \in {"loop", "callback", "join"} /\ ownerStarted = TRUE /\ ownerDone = TRUE
  \/ /\ state = 3 /\ owner = "none"
     /\ notifier \in {"loop", "callback", "join"} /\ ownerStarted = FALSE /\ ownerDone = TRUE
  \/ state \in {4, 5} /\ owner = "none" /\ notifier \in {"leaving", "exit"}

Joins(h) == call[h].at \in {"join", "barrier_join"}
\* At most one host joins the notifier, and only in state 5.
OneJoiner ==
  \A g, h \in Hosts : Joins(g) /\ Joins(h) => state = 5 /\ g = h

\* The descriptor is set exactly while the runtime is attached, and its pipe is
\* open exactly while the loop runs.
PipeAgrees ==
  /\ state = 2 => wakeFd = TRUE
  /\ state # 2 => wakeFd = FALSE
  /\ pipe = "none" <=> owner \notin {"read", "ack", "pop", "scan", "unwind"}
  /\ pipe \in {"none", "empty", "byte"}
  /\ state = 2 /\ owner \in {"unwind", "unwound"} => "loop" \in Faults

\* wake_pending says that a byte is in the pipe, or has been read and not yet
\* acknowledged; and a command left in the queue has a byte behind it.
Handshake ==
  /\ owner = "ack" => wakePending = TRUE /\ pipe = "empty"
  /\ owner \in {"read", "pop", "scan"} /\ pipe = "byte" => wakePending = TRUE
  /\ owner \in {"read", "pop", "scan"} /\ pipe # "byte" => wakePending = FALSE
  /\ owner \in {"read", "scan"} /\ commands # <<>> => pipe = "byte"

ThreadInv == CallTypeOK /\ ThreadsAgree /\ OneJoiner /\ PipeAgrees /\ Handshake

-----------------------------------------------------------------------------
(* Steps that leave the threads where they are                              *)

\* Whatever else it does, a step that leaves the threads alone and wakes the owner,
\* or touches neither the queue nor the pipe, keeps the invariant.
LEMMA WakeKeeps ==
  ASSUME ThreadInv, UNCHANGED <<threads, wakeFd, owner, notifier, call>>,
         wake_owner \/ UNCHANGED <<wake, commands>>
  PROVE  ThreadInv'
<1> USE DEF threads, wake
<1>1. CallTypeOK' /\ ThreadsAgree' /\ OneJoiner'
  BY DEF ThreadInv, CallTypeOK, ThreadsAgree, OneJoiner, Joins
<1>2. PipeAgrees'
  BY DEF ThreadInv, PipeAgrees, wake_owner
<1>3. Handshake'
  BY DEF ThreadInv, ThreadsAgree, PipeAgrees, Handshake, wake_owner
<1> QED BY <1>1, <1>2, <1>3 DEF ThreadInv

\* The non-blocking API entries at most queue a command and wake the owner.
LEMMA EntryKeeps ==
  ASSUME ThreadInv, NEW t, NEW i, NEW r, NEW c, NEW o,
         \/ close_async(t, i) \/ hs_submit_async(t, i) \/ hs_submit_abandons(t, i)
         \/ hs_response_read_async(t, r) \/ hs_response_release(t, r)
         \/ hs_chunk_release(t, c) \/ hs_operation_cancel(t, o)
  PROVE  ThreadInv'
<1> USE DEF threads, loopVars, noteVars, hostVars
<1>1. CASE close_async(t, i)
  BY <1>1, WakeKeeps DEF close_async, Accept, enqueue
<1>2. CASE hs_submit_async(t, i)
  BY <1>2, WakeKeeps DEF hs_submit_async, Accept, enqueue
<1>3. CASE hs_submit_abandons(t, i)
  BY <1>3, WakeKeeps DEF hs_submit_abandons, queues, waker
<1>4. CASE hs_response_read_async(t, r)
  BY <1>4, WakeKeeps DEF hs_response_read_async, Accept, enqueue
<1>5. CASE hs_response_release(t, r)
  BY <1>5, WakeKeeps DEF hs_response_release, enqueue
<1>6. CASE hs_chunk_release(t, c)
  BY <1>6, WakeKeeps DEF hs_chunk_release
<1>7. CASE hs_operation_cancel(t, o)
  BY <1>7, WakeKeeps DEF hs_operation_cancel
<1> QED BY <1>1, <1>2, <1>3, <1>4, <1>5, <1>6, <1>7

\* A task only completes operations and wakes the owner.
LEMMA FinishKeeps ==
  ASSUME ThreadInv, NEW m, NEW o, NEW ok, Finish(m, o, ok) \/ Step(m)
  PROVE  ThreadInv'
BY WakeKeeps DEF Finish, Step, hs_bridge_complete, taskRest, noteVars, hostVars

\* No step of a task moves a library thread.
LEMMA TaskKeeps ==
  ASSUME ThreadInv, NEW o \in Ops, Task(o)
  PROVE  ThreadInv'
<1>1. CASE task_starts(o)
  BY <1>1, FinishKeeps DEF task_starts
<1>2. CASE task_opens(o) \/ task_serves(o) \/ task_nexts(o) \/ task_discards(o)
  BY <1>2, FinishKeeps DEF task_opens, task_serves, task_nexts, task_discards
<1>3. CASE task_handles(o)
  BY <1>3, FinishKeeps DEF task_handles
<1>4. CASE task_awaits_chunk(o)
  BY <1>4, FinishKeeps DEF task_awaits_chunk
<1>5. CASE task_reads(o)
  BY <1>5, FinishKeeps DEF task_reads
<1>6. CASE task_raises(o)
  BY <1>6, FinishKeeps DEF task_raises
<1>7. CASE task_drops(o) \/ task_stops(o) \/ task_closes(o)
  BY <1>7, FinishKeeps, Zenon DEF task_drops, task_stops, task_closes
<1> QED BY <1>1, <1>2, <1>3, <1>4, <1>5, <1>6, <1>7 DEF Task

\* The end of a server scope moves no library thread.
LEMMA ServerKeeps ==
  ASSUME ThreadInv, NEW i \in Insts, server_ends(i)
  PROVE  ThreadInv'
BY FinishKeeps DEF server_ends

-----------------------------------------------------------------------------
(* Host threads that start, wait for and reap the runtime                   *)

\* create_async past its admission check, with the runtime running, absent, or
\* just joined by this very thread.
LEMMA CreateKeeps ==
  ASSUME ThreadInv, NEW t \in Callers, NEW kind, NEW st, NEW wt,
         CreateBody(t, kind, st, wt),
         \/ st = state /\ state < 3
         \/ st = 0 /\ t \in Hosts /\ Joins(t)
  PROVE  ThreadInv'
<1> USE DEF wake, counters
<1>0. /\ call' \in [Hosts -> [at : Places, on : Subjects]]
      /\ \A h \in Hosts : Joins(h)' => Joins(h) /\ h # t
  BY DEF CreateBody, Return, Idle, ThreadInv, CallTypeOK, Places, Subjects, Joins, Callers
<1>1. CASE st = 0
  <2>a. state = 0 \/ state = 5
    BY <1>1 DEF ThreadInv, OneJoiner
  <2>b. owner = "none"
    BY <2>a DEF ThreadInv, ThreadsAgree
  <2>0. owner = "none" /\ pipe = "none" /\ wakeFd = FALSE
    BY <2>a, <2>b DEF ThreadInv, PipeAgrees
  <2>1. \A h \in Hosts : ~Joins(h)'
    BY <1>0, <1>1 DEF ThreadInv, OneJoiner
  <2>2. UNCHANGED <<wake, wakeFd>>
    BY <2>0 DEF CreateBody, enqueue, wake_owner
  <2>3. \/ state' = 1 /\ owner' = "boot" /\ notifier' = "loop"
           /\ ownerStarted' = TRUE /\ ownerDone' = FALSE
        \/ state' = 0 /\ owner' = "none" /\ notifier' = "none"
        \/ state' = 3 /\ owner' = "none" /\ notifier' = "loop"
           /\ ownerStarted' = FALSE /\ ownerDone' = TRUE
    BY <1>1, <2>0 DEF CreateBody, RuntimeRuns, RuntimeFails
  <2> QED BY <1>0, <2>0, <2>1, <2>2, <2>3
          DEF ThreadInv, CallTypeOK, ThreadsAgree, OneJoiner, PipeAgrees, Handshake
<1>2. CASE st # 0
  <2>1. st = state /\ state \in {1, 2}
    BY <1>2 DEF ThreadInv, ThreadsAgree
  <2>2. UNCHANGED <<threads, wakeFd, owner, notifier>>
    BY <2>1 DEF CreateBody, RuntimeRuns, RuntimeFails, threads
  <2>3. wake_owner \/ UNCHANGED <<wake, commands>>
    BY <2>1 DEF CreateBody, enqueue
  <2>4. ThreadsAgree' /\ PipeAgrees' /\ Handshake'
    BY <2>2, <2>3 DEF ThreadInv, ThreadsAgree, PipeAgrees, Handshake, wake_owner, threads
  <2>5. OneJoiner' /\ CallTypeOK'
    BY <1>0, <2>1, <2>2 DEF ThreadInv, OneJoiner, CallTypeOK, threads
  <2> QED BY <2>4, <2>5 DEF ThreadInv
<1> QED BY <1>1, <1>2

\* A host in a blocking call waits, or joins the notifier alone, in state 5.
LEMMA HostKeeps ==
  ASSUME ThreadInv, NEW h \in Hosts,
         \/ \E kind \in {"create", "start"} : create_async_reaps(h, kind)
         \/ Resume(h)
  PROVE  ThreadInv'
<1> USE DEF threads, waker, wake, queues, loopVars, noteVars, hostVars
<1>1. ASSUME NEW kind \in {"create", "start"}, create_async_reaps(h, kind)
      PROVE  ThreadInv'
  <2>1. CallTypeOK' /\ OneJoiner'
    BY <1>1 DEF create_async_reaps, ThreadInv, CallTypeOK, OneJoiner, Joins, Places, Subjects
  <2>2. ThreadsAgree' /\ PipeAgrees' /\ Handshake'
    BY <1>1 DEF create_async_reaps, ThreadInv, ThreadsAgree, PipeAgrees, Handshake
  <2> QED BY <2>1, <2>2 DEF ThreadInv
<1>2. CASE CreateResumes(h)
  <2>1. CASE state < 3 /\ CreateBody(h, call[h].on, state, waiting)
    BY <2>1, CreateKeeps DEF Callers
  <2>2. CASE ReapStep(h, state)
    <3>1. CallTypeOK' /\ OneJoiner'
      BY <2>2 DEF ReapStep, ThreadInv, CallTypeOK, OneJoiner, Joins, Places
    <3>2. ThreadsAgree' /\ PipeAgrees' /\ Handshake'
      BY <2>2 DEF ReapStep, ThreadInv, ThreadsAgree, PipeAgrees, Handshake
    <3> QED BY <3>1, <3>2 DEF ThreadInv
  <2> QED BY <1>2, <2>1, <2>2 DEF CreateResumes
<1>3. CASE CreateJoins(h)
  BY <1>3, CreateKeeps DEF CreateJoins, Joins, Callers
<1>4. CASE release_barrier(h)
  <2>1. CallTypeOK' /\ OneJoiner'
    BY <1>4 DEF release_barrier, Return, Idle, ThreadInv, CallTypeOK, OneJoiner, Joins,
                Places, Subjects
  <2>2. ThreadsAgree' /\ PipeAgrees' /\ Handshake'
    BY <1>4 DEF release_barrier, ThreadInv, ThreadsAgree, PipeAgrees, Handshake
  <2> QED BY <2>1, <2>2 DEF ThreadInv
<1>5. CASE barrier_joins(h)
  <2>1. state = 5 /\ \A g \in Hosts : Joins(g) => g = h
    BY <1>5 DEF barrier_joins, ThreadInv, OneJoiner, Joins
  <2>2. CallTypeOK' /\ OneJoiner'
    BY <1>5, <2>1 DEF barrier_joins, Return, Idle, ThreadInv, CallTypeOK, OneJoiner, Joins,
                Places, Subjects
  <2>3. ThreadsAgree' /\ PipeAgrees' /\ Handshake'
    BY <1>5, <2>1 DEF barrier_joins, ThreadInv, ThreadsAgree, PipeAgrees, Handshake
  <2> QED BY <2>2, <2>3 DEF ThreadInv
<1>6. CASE sync_resumes(h) \/ stop_resumes(h)
  <2>1. CallTypeOK' /\ OneJoiner'
    BY <1>6 DEF sync_resumes, stop_resumes, Return, Idle, ThreadInv, CallTypeOK, OneJoiner,
                Joins, Places, Subjects
  <2>2. ThreadsAgree' /\ PipeAgrees' /\ Handshake'
    BY <1>6 DEF sync_resumes, stop_resumes, ThreadInv, ThreadsAgree, PipeAgrees, Handshake
  <2> QED BY <2>1, <2>2 DEF ThreadInv
<1> QED BY <1>1, <1>2, <1>3, <1>4, <1>5, <1>6 DEF Resume

\* Every entry into the API keeps the invariant.
LEMMA EnterKeeps ==
  ASSUME ThreadInv, NEW t \in Callers, Enter(t)
  PROVE  ThreadInv'
<1>1. ASSUME NEW kind \in {"create", "start"}, create_async(t, kind)
      PROVE  ThreadInv'
  BY <1>1, CreateKeeps DEF create_async
<1>2. ASSUME NEW kind \in {"create", "start"}, create_async_reaps(t, kind)
      PROVE  ThreadInv'
  BY <1>2, HostKeeps DEF create_async_reaps
<1>3. ASSUME NEW x \in Insts \cup Ops, release(t, x)
      PROVE  ThreadInv'
  <2> USE DEF threads, waker, wake, queues, loopVars, noteVars
  <2>1. CallTypeOK' /\ OneJoiner'
    BY <1>3 DEF release, Barred, ThreadInv, CallTypeOK, OneJoiner, Joins, Places, Subjects,
                Handles
  <2>2. ThreadsAgree' /\ PipeAgrees' /\ Handshake'
    BY <1>3 DEF release, ThreadInv, ThreadsAgree, PipeAgrees, Handshake
  <2> QED BY <2>1, <2>2 DEF ThreadInv
<1>4. ASSUME NEW o \in Ops, sync_waits(t, o)
      PROVE  ThreadInv'
  <2> USE DEF threads, waker, wake, queues, loopVars, noteVars
  <2>1. CallTypeOK' /\ OneJoiner'
    BY <1>4 DEF sync_waits, ThreadInv, CallTypeOK, OneJoiner, Joins, Places, Subjects, Handles
  <2>2. ThreadsAgree' /\ PipeAgrees' /\ Handshake'
    BY <1>4 DEF sync_waits, ThreadInv, ThreadsAgree, PipeAgrees, Handshake
  <2> QED BY <2>1, <2>2 DEF ThreadInv
<1>5. ASSUME NEW i \in Insts, stop_waits(t, i)
      PROVE  ThreadInv'
  <2> USE DEF threads, waker, wake, queues, loopVars, noteVars
  <2>1. CallTypeOK' /\ OneJoiner'
    BY <1>5 DEF stop_waits, ThreadInv, CallTypeOK, OneJoiner, Joins, Places, Subjects, Handles
  <2>2. ThreadsAgree' /\ PipeAgrees' /\ Handshake'
    BY <1>5 DEF stop_waits, ThreadInv, ThreadsAgree, PipeAgrees, Handshake
  <2> QED BY <2>1, <2>2 DEF ThreadInv
<1> QED BY <1>1, <1>2, <1>3, <1>4, <1>5, EntryKeeps DEF Enter

-----------------------------------------------------------------------------
(* The library threads                                                      *)

\* The notifier joins the owner before it ends, and only after the owner is done.
LEMMA NotifyKeeps ==
  ASSUME ThreadInv, Notify
  PROVE  ThreadInv'
<1> USE DEF threads, waker, wake, queues, loopVars, noteVars, hostVars
<1>1. CASE notify_waits
  BY <1>1, WakeKeeps DEF notify_waits
<1>2. CASE notify_calls \/ notify_leaves \/ notify_exits
  <2>1. UNCHANGED <<state, ownerDone, ownerStarted, wakeFd, wakePending, pipe, owner,
                    call, commands>>
    BY <1>2 DEF notify_calls, notify_leaves, notify_exits
  <2>2. ThreadsAgree'
    BY <1>2, <2>1 DEF notify_calls, notify_leaves, notify_exits, ThreadInv, ThreadsAgree
  <2>3. CallTypeOK' /\ OneJoiner' /\ PipeAgrees' /\ Handshake'
    BY <2>1 DEF ThreadInv, CallTypeOK, OneJoiner, Joins, PipeAgrees, Handshake
  <2> QED BY <2>2, <2>3 DEF ThreadInv
<1>3. CASE notify_returns
  <2>1. UNCHANGED <<state, ownerDone, ownerStarted, wakeFd, owner, call, commands>>
    BY <1>3 DEF notify_returns
  <2>2. ThreadsAgree' /\ CallTypeOK' /\ OneJoiner'
    BY <1>3, <2>1 DEF notify_returns, ThreadInv, ThreadsAgree, CallTypeOK, OneJoiner, Joins
  <2>3. wake_owner
    BY <1>3 DEF notify_returns
  <2>4. PipeAgrees' /\ Handshake'
    BY <2>1, <2>3 DEF wake_owner, ThreadInv, ThreadsAgree, PipeAgrees, Handshake
  <2> QED BY <2>2, <2>4 DEF ThreadInv
<1>4. CASE notify_joins
  <2>1. state = 3 /\ owner \in {"exit", "none"}
    BY <1>4 DEF notify_joins, ThreadInv, ThreadsAgree
  <2>2. ThreadsAgree'
    BY <1>4, <2>1 DEF notify_joins, ThreadInv, ThreadsAgree
  <2>3. CallTypeOK' /\ OneJoiner'
    BY <1>4, <2>1 DEF notify_joins, ThreadInv, CallTypeOK, OneJoiner, Joins
  <2>4. PipeAgrees' /\ Handshake'
    BY <1>4, <2>1 DEF notify_joins, ThreadInv, PipeAgrees, Handshake
  <2> QED BY <2>2, <2>3, <2>4 DEF ThreadInv
<1> QED BY <1>1, <1>2, <1>3, <1>4 DEF Notify

\* The owner loop acknowledges before it pops, and clears the descriptor before it closes the pipe.
LEMMA LoopKeeps ==
  ASSUME ThreadInv, Loop \/ Fault
  PROVE  ThreadInv'
<1> USE DEF threads, waker, wake, queues, loopVars, noteVars, hostVars
<1>1. CASE owner_fails_command
  <2>1. owner = "fail" /\ pipe = "none" /\ wakeFd = FALSE
    BY <1>1 DEF owner_fails_command, ThreadInv, ThreadsAgree, PipeAgrees
  <2>2. UNCHANGED <<state, ownerDone, ownerStarted, wakeFd, wakePending, pipe, owner,
                    notifier, call>>
    BY <1>1, <2>1 DEF owner_fails_command, hs_bridge_complete, wake_owner
  <2> QED BY <2>1, <2>2 DEF ThreadInv, CallTypeOK, ThreadsAgree, OneJoiner, Joins, PipeAgrees,
                            Handshake
<1>2. CASE owner_attaches \/ owner_boot_fails \/ owner_reads \/ owner_acks \/ owner_pops
           \/ owner_idles \/ owner_loop_fails \/ owner_unwinds \/ owner_stops
           \/ owner_retires \/ owner_exits
  <2> USE DEF owner_attaches, owner_boot_fails, owner_reads, owner_acks, owner_pops,
              owner_idles, owner_loop_fails, owner_unwinds, owner_stops, owner_retires,
              owner_exits
  <2>1. UNCHANGED <<call, notifier>>
    BY <1>2
  <2>2. \/ state' = state
        \/ state \in {1, 2, 3}
    BY <1>2 DEF ThreadInv, ThreadsAgree
  <2>3. CallTypeOK' /\ OneJoiner'
    BY <2>1, <2>2 DEF ThreadInv, CallTypeOK, OneJoiner, Joins
  <2>4. ThreadsAgree'
    BY <1>2 DEF ThreadInv, ThreadsAgree
  <2>5. PipeAgrees'
    BY <1>2 DEF ThreadInv, ThreadsAgree, PipeAgrees, Handshake
  <2>6. Handshake'
    <3>1. CASE owner_attaches \/ owner_boot_fails \/ owner_reads
      BY <3>1 DEF ThreadInv, PipeAgrees, Handshake
    <3>2. CASE owner_acks \/ owner_pops \/ owner_idles
      BY <3>2 DEF ThreadInv, PipeAgrees, Handshake
    <3>3. CASE owner_loop_fails \/ owner_unwinds \/ owner_stops \/ owner_retires \/ owner_exits
      BY <3>3 DEF Handshake
    <3> QED BY <1>2, <3>1, <3>2, <3>3
  <2> QED BY <2>3, <2>4, <2>5, <2>6 DEF ThreadInv
<1> QED BY <1>1, <1>2 DEF Loop, Fault

-----------------------------------------------------------------------------
(* The theorems                                                             *)

\* The inductive invariant holds of every behaviour of bridge.c.
THEOREM BridgeThreads == Spec => []ThreadInv
<1>1. Init => ThreadInv
  BY DEF Init, ThreadInv, CallTypeOK, ThreadsAgree, OneJoiner, Joins, PipeAgrees, Handshake,
         Idle, Places, Subjects
<1>2. ThreadInv /\ [Next]_vars => ThreadInv'
  <2> SUFFICES ASSUME ThreadInv, [Next]_vars PROVE ThreadInv'
    OBVIOUS
  <2>1. CASE UNCHANGED vars
    BY <2>1, WakeKeeps DEF vars, heap, queues, threads, waker, loopVars, noteVars, hostVars
  <2>2. CASE Next
    BY <2>2, EnterKeeps, HostKeeps, NotifyKeeps, LoopKeeps, TaskKeeps, ServerKeeps DEF Next
  <2> QED BY <2>1, <2>2
<1> QED BY <1>1, <1>2, PTL DEF Spec

\* When the runtime is reaped, neither library thread is left in the image
\* (reap_runtime, release_barrier): the library may be unloaded.
THEOREM BridgeNoThreadAtRest == Spec => []NoThreadAtRest
<1>1. ThreadInv => NoThreadAtRest
  BY DEF ThreadInv, ThreadsAgree, NoThreadAtRest
<1> QED BY <1>1, BridgeThreads, PTL

\* wake_owner never writes to a pipe an orderly stop has closed.
THEOREM BridgeWakeFdOpen == Spec => []WakeFdOpen
<1>1. ThreadInv => WakeFdOpen
  BY DEF ThreadInv, ThreadsAgree, PipeAgrees, WakeFdOpen
<1> QED BY <1>1, BridgeThreads, PTL

\* The owner never sleeps on a queued command, whatever the interleaving of
\* enqueue, hs_bridge_ack, hs_bridge_pop and the read of the wake byte.
THEOREM BridgeNoLostCommand == Spec => []NoLostCommand
<1>1. ThreadInv => NoLostCommand
  BY DEF ThreadInv, Handshake, Asleep, NoLostCommand
<1> QED BY <1>1, BridgeThreads, PTL

-----------------------------------------------------------------------------
(* Operations: from new_op to the last op_drop                              *)

IsHeap(m) == DOMAIN m = {"inst", "op", "resp", "chunk", "retained"}

RespTypes ==
  [refs : Int, inst : Insts \cup {None}, reading : BOOLEAN, released : BOOLEAN, chunks : Int,
   charge : Nat, listed : BOOLEAN, shut : BOOLEAN, pos : Nat, sent : Nat]

OpTypes ==
  /\ IsHeap(mem) /\ mem.op \in [Ops -> OpRecords] /\ mem.resp \in [Resps -> RespTypes]
  /\ commands \in Seq(Ops) /\ notices \in Seq(Ops)
  /\ owned \subseteq Handles /\ noteOp \in Ops \cup {None}

\* A queue holds the operations of one stage, each once.
Holds(q, ops, stage) ==
  /\ \A k \in DOMAIN q : ops[q[k]].stage = stage
  /\ \A o \in Ops : ops[o].stage = stage => \E k \in DOMAIN q : q[k] = o
  /\ \A j, k \in DOMAIN q : q[j] = q[k] => j = k

Queues ==
  /\ Holds(commands, mem.op, "queued") /\ Holds(notices, mem.op, "notice")
  /\ \A o \in Ops : mem.op[o].stage = "callback" <=> o = noteOp
  /\ notifier = "callback" <=> noteOp # None

HoldAt == {"barrier", "barrier_join", "sync"}
\* What a blocked thread is busy with.
Subject(c) == /\ c.at \in HoldAt => c.on \in Insts \cup Ops
              /\ c.at \in {"reap", "join"} => c.on \in {"create", "start"}
\* The operation whose reference a blocked thread has, and its host had.
OpHeld(h) == IF call[h].at \in HoldAt /\ call[h].on \in Ops THEN call[h].on ELSE None
\* The host has one reference to an operation, in a variable of its own or in the blocking call of
\* one thread.
HostRefs ==
  /\ \A h \in Hosts : Subject(call[h])
  /\ \A h \in Hosts : OpHeld(h) \notin owned
  /\ \A g, h \in Hosts : OpHeld(g) = OpHeld(h) /\ OpHeld(g) # None => g = h

InPipe(o) == mem.op[o].stage \notin {"none", "returned"}
OpExact(o) ==
  /\ mem.op[o].refs = One(HostHolds(o)) + One(InPipe(o))
  /\ mem.op[o].stage = "none" => ~HostHolds(o)
  /\ mem.op[o].stage = "returned" => HostHolds(o)
OpRefs == \A o \in Ops : OpExact(o)

Piped == {o \in Ops : InPipe(o)}
OpCounts == IsFiniteSet(Piped) /\ activeOps = Cardinality(Piped)

OpsInv == OpTypes /\ Queues /\ HostRefs /\ OpRefs /\ OpCounts

-----------------------------------------------------------------------------
(* What the functions of BridgeHandles do to operations and responses       *)

\* Nothing but the instances and the bytes changes.
LEMMA InstOnly ==
  ASSUME NEW m, IsHeap(m), NEW i, NEW n
  PROVE  /\ IsHeap(charge(m, i, n)) /\ charge(m, i, n).op = m.op /\ charge(m, i, n).resp = m.resp
         /\ IsHeap(uncharge(m, i, n)) /\ uncharge(m, i, n).op = m.op
         /\ uncharge(m, i, n).resp = m.resp
         /\ IsHeap(instance_drop(m, i)) /\ instance_drop(m, i).op = m.op
         /\ instance_drop(m, i).resp = m.resp
         /\ \A S : IsHeap(Abandoned(m, S)) /\ Abandoned(m, S).op = m.op /\ Abandoned(m, S).resp = m.resp
<1>1. /\ IsHeap(charge(m, i, n)) /\ charge(m, i, n).op = m.op /\ charge(m, i, n).resp = m.resp
  BY DEF IsHeap, charge
<1>2. IsHeap(uncharge(m, i, n)) /\ uncharge(m, i, n).op = m.op /\ uncharge(m, i, n).resp = m.resp
  BY DEF IsHeap, uncharge
<1>3. /\ IsHeap(instance_drop(m, i)) /\ instance_drop(m, i).op = m.op
      /\ instance_drop(m, i).resp = m.resp
  BY DEF IsHeap, instance_drop
<1>4. \A S : IsHeap(Abandoned(m, S)) /\ Abandoned(m, S).op = m.op /\ Abandoned(m, S).resp = m.resp
  BY DEF IsHeap, Abandoned
<1> QED BY <1>1, <1>2, <1>3, <1>4

\* A heap whose responses have their types, and whose operations are ops.
Heap(m, ops) == IsHeap(m) /\ m.op = ops /\ m.resp \in [Resps -> RespTypes]

\* response_drop leaves the operations alone.
LEMMA RespDrop ==
  ASSUME NEW m, NEW ops, Heap(m, ops), NEW r
  PROVE  Heap(response_drop(m, r), ops)
<1> DEFINE i == m.resp[r].inst
           m1 == uncharge(m, i, m.resp[r].charge)
           m2 == [m1 EXCEPT !.inst[i].responses = @ - 1, !.resp[r] = NoResp]
<1>1. CASE m.resp[r].refs = 1
  <2>1. IsHeap(m1) /\ m1.op = m.op /\ m1.resp = m.resp
    BY InstOnly DEF Heap
  <2>2. IsHeap(m2) /\ m2.op = m.op /\ m2.resp = [m.resp EXCEPT ![r] = NoResp]
    <3> HIDE DEF m1, i
    <3> QED BY <2>1 DEF IsHeap
  <2>3. NoResp \in RespTypes
    BY DEF NoResp, RespTypes
  <2>4. Heap(m2, ops)
    BY <2>2, <2>3, Zenon DEF Heap
  <2>5. response_drop(m, r) = instance_drop(m2, i)
    BY <1>1 DEF response_drop
  <2>6. IsHeap(m2) /\ m2.op = ops /\ m2.resp \in [Resps -> RespTypes]
    BY <2>4, Zenon DEF Heap
  <2> HIDE DEF m2, i
  <2>7. /\ IsHeap(instance_drop(m2, i)) /\ instance_drop(m2, i).op = m2.op
        /\ instance_drop(m2, i).resp = m2.resp
    BY <2>6, InstOnly
  <2> QED BY <2>5, <2>6, <2>7 DEF Heap
<1>2. CASE m.resp[r].refs # 1
  <2>1. response_drop(m, r) = [m EXCEPT !.resp[r].refs = @ - 1]
    BY <1>2 DEF response_drop
  <2>2. [m.resp EXCEPT ![r].refs = @ - 1] \in [Resps -> RespTypes]
    <3>1. CASE r \in Resps
      <4>1. m.resp[r] \in RespTypes
        BY <3>1 DEF Heap
      <4>2. [m.resp[r] EXCEPT !.refs = @ - 1] \in RespTypes
        BY <4>1 DEF RespTypes
      <4> QED BY <3>1, <4>2 DEF Heap
    <3>2. CASE r \notin Resps
      BY <3>2 DEF Heap
    <3> QED BY <3>1, <3>2
  <2>3. /\ IsHeap([m EXCEPT !.resp[r].refs = @ - 1]) /\ [m EXCEPT !.resp[r].refs = @ - 1].op = m.op
        /\ [m EXCEPT !.resp[r].refs = @ - 1].resp = [m.resp EXCEPT ![r].refs = @ - 1]
    BY DEF Heap, IsHeap
  <2> QED BY <2>1, <2>2, <2>3 DEF Heap
<1> QED BY <1>1, <1>2

\* The record of an operation after op_drop.
Fewer(ops, o) == IF ops[o].refs = 1 THEN [ops EXCEPT ![o] = NoOp] ELSE [ops EXCEPT ![o].refs = @ - 1]

\* op_drop takes one reference, and frees the record with the last one.
LEMMA OpDrop ==
  ASSUME NEW m, NEW ops, Heap(m, ops), NEW o
  PROVE  Heap(op_drop(m, o), Fewer(ops, o))
<1> DEFINE i  == m.op[o].inst
           r  == m.op[o].resp
           m1 == uncharge(m, i, m.op[o].charge)
           m2 == IF r = None THEN m1 ELSE response_drop(m1, r)
           m3 == instance_drop(m2, i)
<1>1. Heap(m1, ops)
  BY InstOnly DEF Heap
<1>2. Heap(m2, ops)
  <2> HIDE DEF m1, r
  <2> QED BY <1>1, RespDrop
<1>3. Heap(m3, ops)
  <2> HIDE DEF m2, i
  <2> QED BY <1>2, InstOnly DEF Heap
<1>4. op_drop(m, o) = IF m.op[o].refs = 1 THEN [m3 EXCEPT !.op[o] = NoOp]
                                        ELSE [m EXCEPT !.op[o].refs = @ - 1]
  BY DEF op_drop
<1>5. Heap([m3 EXCEPT !.op[o] = NoOp], [ops EXCEPT ![o] = NoOp])
  <2> HIDE DEF m3
  <2> QED BY <1>3 DEF Heap, IsHeap
<1>6. Heap([m EXCEPT !.op[o].refs = @ - 1], [ops EXCEPT ![o].refs = @ - 1])
  BY DEF Heap, IsHeap
<1> HIDE DEF m3
<1> QED BY <1>4, <1>5, <1>6 DEF Heap, Fewer

\* The record that new_op makes.
NewRecord(kind, i, r, input) ==
  [NoOp EXCEPT !.refs = IF kind = "drop" THEN 1 ELSE 2, !.kind = kind, !.stage = "queued",
               !.inst = i, !.resp = r, !.charge = RecordCost(kind) + input]

\* new_op fills one record.
LEMMA NewOp ==
  ASSUME NEW m, NEW ops, Heap(m, ops), NEW kind, NEW i, NEW r, NEW o, NEW input
  PROVE  Heap(new_op(m, kind, i, r, o, input), [ops EXCEPT ![o] = NewRecord(kind, i, r, input)])
<1> DEFINE m1 == charge(m, i, RecordCost(kind) + input)
           k == NewRecord(kind, i, r, input)
           m2 == [m1 EXCEPT !.op[o] = k, !.inst[i].refs = @ + 1, !.inst[i].active = @ + 1,
                            !.inst[i].notifications = @ + 1]
<1>1. Heap(m1, ops)
  BY InstOnly DEF Heap
<1>2. new_op(m, kind, i, r, o, input) = m2
  BY DEF new_op, NewRecord
<1>3. IsHeap(m2) /\ m2.op = [m1.op EXCEPT ![o] = k] /\ m2.resp = m1.resp
  <2> HIDE DEF m1, k
  <2> QED BY <1>1 DEF Heap, IsHeap
<1> HIDE DEF m1, m2
<1> QED BY <1>1, <1>2, <1>3 DEF Heap

\* An operation that is abandoned was never there.
LEMMA Abandons ==
  ASSUME NEW m, NEW ops \in [Ops -> OpRecords], Heap(m, ops), NEW o \in Ops
  PROVE  Heap(abandon(m, o), [ops EXCEPT ![o] = NoOp])
<1> DEFINE i == m.op[o].inst
           m1 == [m EXCEPT !.inst[i].active = @ - 1, !.inst[i].notifications = @ - 1,
                           !.op[o].refs = 1]
           ops1 == [ops EXCEPT ![o].refs = 1]
<1>1. Heap(m1, ops1)
  <2> HIDE DEF i
  <2> QED BY DEF Heap, IsHeap
<1>2. abandon(m, o) = op_drop(m1, o)
  BY DEF abandon
<1> HIDE DEF m1
<1>3. Heap(abandon(m, o), Fewer(ops1, o))
  BY <1>1, <1>2, OpDrop
<1>4. ops1[o].refs = 1
  BY DEF OpRecords
<1>5. Fewer(ops1, o) = [ops EXCEPT ![o] = NoOp]
  BY <1>4 DEF Fewer
<1> QED BY <1>3, <1>5

\* What hs_bridge_complete does to the record of the operation.
Told(k, old) ==
  /\ k \in OpRecords /\ k.stage = "notice" /\ k.refs = old.refs
  /\ k.kind = old.kind /\ k.inst = old.inst /\ k.resp = old.resp /\ k.charge = old.charge

\* hs_bridge_complete changes one record, and no count of references to operations.
LEMMA Completes ==
  ASSUME NEW m, NEW ops \in [Ops -> OpRecords], Heap(m, ops), NEW o \in Ops, NEW ok \in BOOLEAN
  PROVE  \E k : Told(k, ops[o]) /\ Heap(Completed(m, o, ok), [ops EXCEPT ![o] = k])
<1> DEFINE m1 == Noticed(m, o, ok)
           m2 == Withdrawn(m1, o, ok)
           m3 == Granted(m2, o, ok)
           m4 == ReadEnded(m3, o)
           k1 == [ops[o] EXCEPT !.stage = "notice", !.ok = ok, !.cancelled = FALSE,
                                !.cancelling = FALSE]
           Good(x) == \E k : Told(k, ops[o]) /\ Heap(x, [ops EXCEPT ![o] = k])
<1>0. ops[o] \in OpRecords
  OBVIOUS
<1>1. Good(m1)
  <2>1. Told(k1, ops[o])
    BY <1>0 DEF Told, OpRecords, Stages, DoneStages
  <2>2. IsHeap(m1) /\ m1.op = [m.op EXCEPT ![o] = k1] /\ m1.resp = m.resp
    BY DEF Heap, IsHeap, Noticed
  <2> QED BY <2>1, <2>2 DEF Heap
<1>2. Good(m2)
  <2> HIDE DEF m1
  <2>1. PICK k : Told(k, ops[o]) /\ Heap(m1, [ops EXCEPT ![o] = k])
    BY <1>1
  <2>2. CASE ~ok /\ m1.op[o].event \in Resps
    <3> DEFINE d == response_drop(m1, m1.op[o].event)
               k2 == [k EXCEPT !.event = None]
    <3>1. Heap(d, [ops EXCEPT ![o] = k])
      BY <2>1, RespDrop
    <3>2. m2 = [d EXCEPT !.op[o].event = None]
      BY <2>2 DEF Withdrawn
    <3> HIDE DEF d
    <3>3. Heap([d EXCEPT !.op[o].event = None], [ops EXCEPT ![o] = k2])
      BY <3>1 DEF Heap, IsHeap
    <3>4. Told(k2, ops[o])
      BY <2>1 DEF Told, OpRecords
    <3> QED BY <3>2, <3>3, <3>4
  <2>3. CASE ~(~ok /\ m1.op[o].event \in Resps)
    BY <2>1, <2>3 DEF Withdrawn
  <2> QED BY <2>2, <2>3
<1>3. Good(m3)
  <2> HIDE DEF m2
  <2>1. PICK k : Told(k, ops[o]) /\ Heap(m2, [ops EXCEPT ![o] = k])
    BY <1>2
  <2>2. CASE m2.op[o].kind \in {"create", "start"} /\ ok
    <3> DEFINE i == m2.op[o].inst
               k2 == [k EXCEPT !.event = i]
    <3>1. m3 = [m2 EXCEPT !.inst[i].refs = @ + 1, !.op[o].event = i]
      BY <2>2 DEF Granted
    <3>2. i = ops[o].inst
      BY <2>1 DEF Heap, Told
    <3>3. Told(k2, ops[o])
      BY <2>1, <3>2 DEF Told, OpRecords
    <3> HIDE DEF i
    <3>4. Heap([m2 EXCEPT !.inst[i].refs = @ + 1, !.op[o].event = i], [ops EXCEPT ![o] = k2])
      BY <2>1 DEF Heap, IsHeap
    <3> QED BY <3>1, <3>3, <3>4
  <2>3. CASE ~(m2.op[o].kind \in {"create", "start"} /\ ok)
    BY <2>1, <2>3 DEF Granted
  <2> QED BY <2>2, <2>3
<1>4. Good(m4)
  <2> HIDE DEF m3
  <2>1. PICK k : Told(k, ops[o]) /\ Heap(m3, [ops EXCEPT ![o] = k])
    BY <1>3
  <2>2. CASE m3.op[o].kind = "read"
    <3> DEFINE r == m3.op[o].resp
    <3>1. m4 = [m3 EXCEPT !.resp[r].reading = FALSE]
      BY <2>2 DEF ReadEnded
    <3> HIDE DEF r
    <3>2. [m3.resp EXCEPT ![r].reading = FALSE] \in [Resps -> RespTypes]
      <4>1. CASE r \in Resps
        <5>1. m3.resp[r] \in RespTypes
          BY <2>1, <4>1 DEF Heap
        <5>2. [m3.resp[r] EXCEPT !.reading = FALSE] \in RespTypes
          BY <5>1 DEF RespTypes
        <5> QED BY <2>1, <4>1, <5>2 DEF Heap
      <4>2. CASE r \notin Resps
        BY <2>1, <4>2 DEF Heap
      <4> QED BY <4>1, <4>2
    <3>3. Heap([m3 EXCEPT !.resp[r].reading = FALSE], [ops EXCEPT ![o] = k])
      BY <2>1, <3>2 DEF Heap, IsHeap
    <3> QED BY <2>1, <3>1, <3>3
  <2>3. CASE m3.op[o].kind # "read"
    BY <2>1, <2>3 DEF ReadEnded
  <2> QED BY <2>2, <2>3
<1>5. Good(Retired(m4, o, ok))
  <2> HIDE DEF m4
  <2>1. PICK k : Told(k, ops[o]) /\ Heap(m4, [ops EXCEPT ![o] = k])
    BY <1>4
  <2>2. CASE Retires(m4, o, ok)
    <3> DEFINE i == m4.op[o].inst
               m5 == [m4 EXCEPT !.inst[i].closing = TRUE, !.inst[i].closed = TRUE]
    <3>1. Retired(m4, o, ok) = instance_drop(m5, i)
      BY <2>2 DEF Retired
    <3>2. IsHeap(m5) /\ m5.op = m4.op /\ m5.resp = m4.resp
      <4> HIDE DEF i
      <4> QED BY <2>1 DEF Heap, IsHeap
    <3> HIDE DEF m5, i
    <3>3. /\ IsHeap(instance_drop(m5, i)) /\ instance_drop(m5, i).op = m5.op
          /\ instance_drop(m5, i).resp = m5.resp
      BY <3>2, InstOnly
    <3>4. Heap(instance_drop(m5, i), [ops EXCEPT ![o] = k])
      BY <2>1, <3>2, <3>3 DEF Heap
    <3> QED BY <2>1, <3>1, <3>4
  <2>3. CASE ~Retires(m4, o, ok)
    BY <2>1, <2>3 DEF Retired
  <2> QED BY <2>2, <2>3
<1> QED BY <1>5 DEF Completed

-----------------------------------------------------------------------------
(* Steps in the life of an operation                                        *)

\* For an operation, HostHolds is to be in owned or in a blocking call.
LEMMA HoldsIs ==
  ASSUME NEW o \in Ops
  PROVE  HostHolds(o) <=> (o \in owned \/ \E h \in Hosts : OpHeld(h) = o)
BY BridgeAssumption DEF HostHolds, OpHeld, HoldAt, Handles

\* The same of the next state.
LEMMA HoldsWillBe ==
  ASSUME NEW o \in Ops
  PROVE  HostHolds(o)' <=> (o \in owned' \/ \E h \in Hosts : OpHeld(h)' = o)
BY BridgeAssumption DEF HostHolds, OpHeld, HoldAt, Handles

\* One operation goes in or out of the pipeline.
LEMMA OnePiped ==
  ASSUME OpsInv, NEW o \in Ops, \A p \in Ops : p # o => mem'.op[p].stage = mem.op[p].stage
  PROVE  /\ IsFiniteSet(Piped') /\ Cardinality(Piped) \in Nat
         /\ Cardinality(Piped') = (Cardinality(Piped) - One(InPipe(o))) + One(InPipe(o)')
<1>1. Piped \ {o} = Piped' \ {o} /\ IsFiniteSet(Piped)
  BY DEF OpsInv, OpCounts, Piped, InPipe
<1>2. (o \in Piped <=> InPipe(o)) /\ (o \in Piped' <=> InPipe(o)')
  BY DEF Piped
<1>3. /\ IsFiniteSet(Piped') /\ Cardinality(Piped) \in Nat
      /\ Cardinality(Piped') = (Cardinality(Piped) - IF o \in Piped THEN 1 ELSE 0)
                               + IF o \in Piped' THEN 1 ELSE 0
  BY <1>1, CountChange
<1> QED BY <1>2, <1>3 DEF One

\* What a step leaves alone when it is not about the queues.
Still == /\ UNCHANGED <<commands, notices, noteOp>>
         /\ notifier' = "callback" <=> notifier = "callback"
\* The types of the next heap, and of what hosts hold.
NextTypes == /\ IsHeap(mem') /\ mem'.op \in [Ops -> OpRecords] /\ mem'.resp \in [Resps -> RespTypes]
             /\ owned' \subseteq Handles
             /\ \A h \in Hosts : Subject(call'[h])
\* The host's references to operations stay where they are.
SameHolders == /\ \A o \in Ops : o \in owned' <=> o \in owned
               /\ \A h \in Hosts : OpHeld(h)' = OpHeld(h)

\* No reference to an operation moves.
LEMMA HoldersKept ==
  ASSUME OpsInv, NextTypes, SameHolders
  PROVE  HostRefs' /\ \A o \in Ops : HostHolds(o)' <=> HostHolds(o)
<1>1. \A h \in Hosts : OpHeld(h) \in Ops \cup {None}
  BY DEF OpHeld
<1>2. None \notin owned'
  BY BridgeAssumption DEF NextTypes
<1>3. HostRefs'
  BY <1>1, <1>2 DEF OpsInv, HostRefs, SameHolders, NextTypes
<1>4. \A o \in Ops : HostHolds(o)' <=> HostHolds(o)
  BY HoldsIs, HoldsWillBe DEF SameHolders
<1> QED BY <1>3, <1>4

\* A step that changes the stage of no operation, or only of tasks.
LEMMA OpsSame ==
  ASSUME OpsInv, Still, NextTypes, UNCHANGED activeOps,
         HostRefs', \A o \in Ops : HostHolds(o)' <=> HostHolds(o),
         \A o \in Ops : /\ mem'.op[o].refs = mem.op[o].refs
                        /\ \/ mem'.op[o].stage = mem.op[o].stage
                           \/ mem'.op[o].stage \in TaskStages /\ mem.op[o].stage \in TaskStages
  PROVE  OpsInv'
<1>1. OpTypes'
  BY DEF OpsInv, OpTypes, Still, NextTypes
<1>2. /\ \A o \in Ops : \A s \in {"none", "queued", "notice", "callback", "returned"} :
           mem'.op[o].stage = s <=> mem.op[o].stage = s
  BY DEF TaskStages
<1>3. \A o \in Ops : InPipe(o)' <=> InPipe(o)
  BY <1>2 DEF InPipe
<1>4. Queues'
  BY <1>2 DEF OpsInv, OpTypes, Queues, Holds, Still
<1>5. OpRefs'
  <2>2. SUFFICES ASSUME NEW o \in Ops PROVE OpExact(o)'
    BY DEF OpRefs
  <2>3. OpExact(o) /\ (HostHolds(o)' <=> HostHolds(o)) /\ (InPipe(o)' <=> InPipe(o))
    BY <1>3 DEF OpsInv, OpRefs
  <2> QED BY <1>2, <2>3 DEF OpExact, One
<1>6. Piped' = Piped
  BY <1>3 DEF Piped
<1>7. OpCounts'
  BY <1>6 DEF OpsInv, OpCounts
<1> QED BY <1>1, <1>4, <1>5, <1>7 DEF OpsInv

\* The same, with the references where they are.
LEMMA OpsKept ==
  ASSUME OpsInv, Still, NextTypes, SameHolders, UNCHANGED activeOps,
         \A o \in Ops : /\ mem'.op[o].refs = mem.op[o].refs
                        /\ \/ mem'.op[o].stage = mem.op[o].stage
                           \/ mem'.op[o].stage \in TaskStages /\ mem.op[o].stage \in TaskStages
  PROVE  OpsInv'
BY HoldersKept, OpsSame

\* A slot without references is no operation's.
LEMMA FreeIs ==
  ASSUME OpsInv, NEW o \in FreeOps
  PROVE  o \in Ops /\ mem.op[o].stage = "none" /\ mem.op[o].refs = 0 /\ ~HostHolds(o)
         /\ o \notin owned /\ \A h \in Hosts : OpHeld(h) # o
<1>1. o \in Ops /\ mem.op[o].refs = 0
  BY DEF FreeOps
<1>2. OpExact(o)
  BY <1>1 DEF OpsInv, OpRefs
<1>3. ~HostHolds(o) /\ ~InPipe(o)
  BY <1>1, <1>2 DEF OpExact, One
<1> QED BY <1>1, <1>2, <1>3, HoldsIs DEF OpExact, InPipe

\* A queue to which nothing comes, and from which nothing goes.
LEMMA QueueSame ==
  ASSUME NEW ops, NEW next, NEW stage, NEW q \in Seq(Ops), Holds(q, ops, stage),
         \A p \in Ops : next[p].stage = stage <=> ops[p].stage = stage
  PROVE  Holds(q, next, stage)
BY DEF Holds

\* An operation comes to the end of a queue.
LEMMA QueueAppend ==
  ASSUME NEW ops, NEW next, NEW stage, NEW q \in Seq(Ops), Holds(q, ops, stage), NEW o \in Ops,
         ops[o].stage # stage, next[o].stage = stage,
         \A p \in Ops : p # o => next[p] = ops[p]
  PROVE  Holds(Append(q, o), next, stage)
<1> DEFINE r == Append(q, o)
<1>1. /\ DOMAIN q = 1..Len(q) /\ DOMAIN r = 1..(Len(q) + 1) /\ r[Len(q) + 1] = o /\ Len(q) \in Nat
      /\ \A j \in 1..Len(q) : r[j] = q[j] /\ q[j] \in Ops
  OBVIOUS
<1> HIDE DEF r
<1>2. \A j \in DOMAIN q : q[j] # o
  BY DEF Holds
<1>3. \A j \in DOMAIN r : next[r[j]].stage = stage
  BY <1>1, <1>2 DEF Holds
<1>4. ASSUME NEW p \in Ops, next[p].stage = stage PROVE \E j \in DOMAIN r : r[j] = p
  <2>1. CASE p = o
    BY <1>1, <2>1
  <2>2. CASE p # o
    <3>1. PICK j \in DOMAIN q : q[j] = p
      BY <1>4, <2>2 DEF Holds
    <3> QED BY <1>1, <3>1
  <2> QED BY <2>1, <2>2
<1>5. \A i, j \in DOMAIN r : r[i] = r[j] => i = j
  BY <1>1, <1>2 DEF Holds
<1> QED BY <1>3, <1>4, <1>5 DEF Holds, r

\* The first operation leaves a queue.
LEMMA QueueTail ==
  ASSUME NEW ops, NEW next, NEW stage, NEW q \in Seq(Ops), Holds(q, ops, stage), q # <<>>,
         next[Head(q)].stage # stage, \A p \in Ops : p # Head(q) => next[p] = ops[p]
  PROVE  Holds(Tail(q), next, stage)
<1> DEFINE r == Tail(q)
<1>1. /\ DOMAIN q = 1..Len(q) /\ Len(q) \in Nat /\ Len(q) > 0 /\ Head(q) = q[1]
      /\ DOMAIN r = 1..(Len(q) - 1) /\ \A j \in 1..(Len(q) - 1) : r[j] = q[j + 1]
      /\ \A j \in 1..Len(q) : q[j] \in Ops
  OBVIOUS
<1> HIDE DEF r
<1>2. \A j \in DOMAIN r : r[j] # Head(q) /\ r[j] \in Ops
  BY <1>1 DEF Holds
<1>3. \A j \in DOMAIN r : next[r[j]].stage = stage
  BY <1>1, <1>2 DEF Holds
<1>4. ASSUME NEW p \in Ops, next[p].stage = stage PROVE \E j \in DOMAIN r : r[j] = p
  <2>1. p # Head(q)
    BY <1>4
  <2>2. PICK j \in DOMAIN q : q[j] = p
    BY <1>4, <2>1 DEF Holds
  <2>3. j # 1
    BY <1>1, <2>1, <2>2
  <2>4. j - 1 \in 1..(Len(q) - 1) /\ (j - 1) + 1 = j
    BY <1>1, <2>3
  <2> QED BY <1>1, <2>2, <2>4
<1>5. \A i, j \in DOMAIN r : r[i] = r[j] => i = j
  BY <1>1 DEF Holds
<1> QED BY <1>3, <1>4, <1>5 DEF Holds, r

\* A new operation is queued, and given to the host unless it is internal.
LEMMA OpQueued ==
  ASSUME OpsInv, NextTypes, NEW o \in FreeOps, NEW k,
         mem'.op = [mem.op EXCEPT ![o] = k], k.stage = "queued",
         k.refs = (IF o \in owned' THEN 2 ELSE 1),
         commands' = Append(commands, o), UNCHANGED <<notices, noteOp>>,
         notifier' = "callback" <=> notifier = "callback",
         activeOps' = activeOps + 1,
         \A p \in Ops : p # o => (p \in owned' <=> p \in owned),
         \A h \in Hosts : OpHeld(h)' = OpHeld(h)
  PROVE  OpsInv'
<1>0. /\ o \in Ops /\ mem.op[o].stage = "none" /\ mem.op[o].refs = 0 /\ ~HostHolds(o)
      /\ o \notin owned /\ \A h \in Hosts : OpHeld(h) # o
  BY FreeIs
<1>1. mem.op \in [Ops -> OpRecords] /\ commands \in Seq(Ops)
  BY DEF OpsInv, OpTypes
<1>2. mem'.op[o] = k /\ \A p \in Ops : p # o => mem'.op[p] = mem.op[p]
  BY <1>0, <1>1
<1>3. OpTypes'
  BY <1>0, <1>1 DEF OpsInv, OpTypes, NextTypes
<1>4. Holds(commands', mem'.op, "queued")
  BY <1>0, <1>1, <1>2, QueueAppend DEF OpsInv, Queues
<1>5. Holds(notices', mem'.op, "notice")
  BY <1>0, <1>2, QueueSame DEF OpsInv, OpTypes, Queues
<1>6. Queues'
  BY <1>0, <1>2, <1>4, <1>5 DEF OpsInv, Queues
<1>7. HostRefs'
  <2>1. \A h \in Hosts : OpHeld(h) \in Ops \cup {None}
    BY DEF OpHeld
  <2>2. None \notin owned'
    BY BridgeAssumption DEF NextTypes
  <2> QED BY <1>0, <2>1, <2>2 DEF OpsInv, HostRefs, NextTypes
<1>8. \A p \in Ops : p # o => (HostHolds(p)' <=> HostHolds(p))
  BY HoldsIs, HoldsWillBe
<1>9. HostHolds(o)' <=> o \in owned'
  BY <1>0, HoldsWillBe
<1>10. OpRefs'
  <2>1. OpExact(o)'
    BY <1>2, <1>9 DEF OpExact, InPipe, One
  <2>2. ASSUME NEW p \in Ops, p # o PROVE OpExact(p)'
    <3>1. OpExact(p) /\ mem'.op[p] = mem.op[p] /\ (HostHolds(p)' <=> HostHolds(p))
      BY <1>2, <1>8, <2>2 DEF OpsInv, OpRefs
    <3> QED BY <3>1 DEF OpExact, InPipe, One
  <2> QED BY <2>1, <2>2 DEF OpRefs
<1>11. OpCounts'
  BY <1>0, <1>2, OnePiped DEF OpsInv, OpCounts, InPipe, One
<1> QED BY <1>3, <1>6, <1>7, <1>10, <1>11 DEF OpsInv

\* A task, or a command that is failed, goes to the notices.
LEMMA OpTold ==
  ASSUME OpsInv, NextTypes, SameHolders, UNCHANGED <<activeOps, noteOp>>,
         notifier' = "callback" <=> notifier = "callback",
         NEW o \in Ops, NEW k, mem'.op = [mem.op EXCEPT ![o] = k], Told(k, mem.op[o]),
         notices' = Append(notices, o),
         \/ mem.op[o].stage \in TaskStages /\ UNCHANGED commands
         \/ commands # <<>> /\ o = Head(commands) /\ commands' = Tail(commands)
  PROVE  OpsInv'
<1>1. /\ mem.op \in [Ops -> OpRecords] /\ commands \in Seq(Ops) /\ notices \in Seq(Ops)
      /\ Holds(commands, mem.op, "queued") /\ Holds(notices, mem.op, "notice")
  BY DEF OpsInv, OpTypes, Queues
<1>2. mem'.op[o] = k /\ \A p \in Ops : p # o => mem'.op[p] = mem.op[p]
  BY <1>1
<1>3. mem.op[o].stage \in {"queued"} \cup TaskStages
  BY <1>1 DEF Holds
<1>4. mem'.op[o].stage = "notice" /\ mem'.op[o].refs = mem.op[o].refs
  BY <1>2 DEF Told
<1>5. OpTypes'
  <2>1. commands' \in Seq(Ops)
    <3>1. CASE UNCHANGED commands
      BY <1>1, <3>1
    <3>2. CASE commands # <<>> /\ commands' = Tail(commands)
      BY <1>1, <3>2
    <3> QED BY <3>1, <3>2
  <2>2. notices' \in Seq(Ops)
    BY <1>1
  <2> QED BY <2>1, <2>2 DEF OpsInv, OpTypes, NextTypes
<1>6. Holds(commands', mem'.op, "queued")
  <2>1. CASE mem.op[o].stage \in TaskStages /\ UNCHANGED commands
    <3>1. \A p \in Ops : mem'.op[p].stage = "queued" <=> mem.op[p].stage = "queued"
      BY <1>2, <1>4, <2>1 DEF TaskStages
    <3> QED BY <1>1, <2>1, <3>1, QueueSame
  <2>2. CASE commands # <<>> /\ o = Head(commands) /\ commands' = Tail(commands)
    BY <1>1, <1>2, <1>4, <2>2, QueueTail
  <2> QED BY <2>1, <2>2
<1>7. Holds(notices', mem'.op, "notice")
  BY <1>1, <1>2, <1>3, <1>4, QueueAppend DEF TaskStages
<1>8. \A p \in Ops : mem'.op[p].stage = "callback" <=> mem.op[p].stage = "callback"
  BY <1>2, <1>3, <1>4 DEF TaskStages
<1>9. Queues'
  BY <1>6, <1>7, <1>8 DEF OpsInv, Queues
<1>10. \A p \in Ops : InPipe(p)' <=> InPipe(p)
  BY <1>2, <1>3, <1>4 DEF InPipe, TaskStages
<1>11. OpRefs'
  <2>1. \A p \in Ops : HostHolds(p)' <=> HostHolds(p)
    BY HoldersKept
  <2>2. SUFFICES ASSUME NEW p \in Ops PROVE OpExact(p)'
    BY DEF OpRefs
  <2>3. OpExact(p) /\ (HostHolds(p)' <=> HostHolds(p)) /\ (InPipe(p)' <=> InPipe(p))
    BY <1>10, <2>1 DEF OpsInv, OpRefs
  <2>4. mem'.op[p].refs = mem.op[p].refs
    BY <1>2, <1>4
  <2>5. p # o => mem'.op[p].stage = mem.op[p].stage
    BY <1>2
  <2> QED BY <1>4, <2>3, <2>4, <2>5 DEF OpExact, One
<1>12. Piped' = Piped
  BY <1>10 DEF Piped
<1>13. OpCounts'
  BY <1>12 DEF OpsInv, OpCounts
<1> QED BY <1>5, <1>9, <1>11, <1>13, HoldersKept DEF OpsInv

\* The host gives back its reference to an operation.
LEMMA OpReleased ==
  ASSUME OpsInv, NextTypes, Still, UNCHANGED activeOps, NEW o \in Ops,
         mem'.op = Fewer(mem.op, o), HostHolds(o), HostRefs', ~HostHolds(o)',
         \A p \in Ops : p # o => (HostHolds(p)' <=> HostHolds(p))
  PROVE  OpsInv'
<1>1. /\ mem.op \in [Ops -> OpRecords] /\ commands \in Seq(Ops) /\ notices \in Seq(Ops)
      /\ Holds(commands, mem.op, "queued") /\ Holds(notices, mem.op, "notice") /\ OpExact(o)
      /\ mem.op[o] \in OpRecords
  BY DEF OpsInv, OpTypes, Queues, OpRefs
<1>2. \A p \in Ops : p # o => mem'.op[p] = mem.op[p]
  BY <1>1 DEF Fewer
<1>3. mem.op[o].refs = 1 + One(InPipe(o)) /\ mem.op[o].stage # "none"
  BY <1>1 DEF OpExact, One
<1>4. IF InPipe(o) THEN mem'.op[o].stage = mem.op[o].stage /\ mem'.op[o].refs = 1
                   ELSE /\ mem'.op[o].stage = "none" /\ mem'.op[o].refs = 0
                        /\ mem.op[o].stage = "returned"
  <2>1. CASE InPipe(o)
    <3>1. mem.op[o].refs = 2
      BY <1>3, <2>1 DEF One
    <3>2. mem'.op[o] = [mem.op[o] EXCEPT !.refs = @ - 1]
      BY <1>1, <3>1 DEF Fewer
    <3> QED BY <1>1, <2>1, <3>1, <3>2 DEF OpRecords
  <2>2. CASE ~InPipe(o)
    <3>1. mem.op[o].refs = 1 /\ mem.op[o].stage = "returned"
      BY <1>3, <2>2 DEF One, InPipe
    <3>2. mem'.op[o] = NoOp
      BY <1>1, <3>1 DEF Fewer
    <3> QED BY <2>2, <3>1, <3>2 DEF NoOp
  <2> QED BY <2>1, <2>2
<1>5. \A p \in Ops : \A s \in {"queued", "notice", "callback"} :
        mem'.op[p].stage = s <=> mem.op[p].stage = s
  BY <1>2, <1>4 DEF InPipe
<1>6. \A p \in Ops : InPipe(p)' <=> InPipe(p)
  BY <1>2, <1>4 DEF InPipe
<1>7. OpTypes'
  BY DEF OpsInv, OpTypes, NextTypes, Still
<1>8. Queues'
  <2>1. Holds(commands', mem'.op, "queued") /\ Holds(notices', mem'.op, "notice")
    BY <1>1, <1>5, QueueSame DEF Still
  <2> QED BY <1>5, <2>1 DEF OpsInv, Queues, Still
<1>9. OpRefs'
  <2>1. OpExact(o)'
    BY <1>4, <1>6 DEF OpExact, One, InPipe
  <2>2. ASSUME NEW p \in Ops, p # o PROVE OpExact(p)'
    <3>1. OpExact(p) /\ mem'.op[p] = mem.op[p] /\ (HostHolds(p)' <=> HostHolds(p))
      BY <1>2, <2>2 DEF OpsInv, OpRefs
    <3> QED BY <3>1 DEF OpExact, InPipe, One
  <2> QED BY <2>1, <2>2 DEF OpRefs
<1>10. Piped' = Piped
  BY <1>6 DEF Piped
<1>11. OpCounts'
  BY <1>10 DEF OpsInv, OpCounts
<1> QED BY <1>7, <1>8, <1>9, <1>11 DEF OpsInv

-----------------------------------------------------------------------------
(* The entry points                                                         *)

\* What the invariant says of the present heap, and of calls that do not change.
LEMMA OpsFacts ==
  ASSUME OpsInv
  PROVE  /\ Heap(mem, mem.op) /\ mem.op \in [Ops -> OpRecords] /\ owned \subseteq Handles
         /\ \A h \in Hosts : Subject(call[h])
         /\ UNCHANGED call => /\ \A h \in Hosts : OpHeld(h)' = OpHeld(h)
                              /\ \A h \in Hosts : Subject(call'[h])
BY DEF OpsInv, OpTypes, HostRefs, Heap, OpHeld

\* A slot that is free when there is one.
LEMMA SlotIn ==
  ASSUME NEW S, S # {}
  PROVE  Slot(S) \in S
BY DEF Slot

\* A record of new_op has its types.
LEMMA NewTypes ==
  ASSUME NEW kind \in Kinds, NEW i \in Insts \cup {None}, NEW r \in Resps \cup {None},
         NEW input \in Nat
  PROVE  LET k == NewRecord(kind, i, r, input)
         IN  /\ k \in OpRecords /\ k.stage = "queued"
             /\ k.refs = IF kind = "drop" THEN 1 ELSE 2
<1>1. RecordCost(kind) \in Nat
  BY BridgeAssumption DEF RecordCost
<1> DEFINE k == NewRecord(kind, i, r, input)
           n == RecordCost(kind) + input
           c == IF kind = "drop" THEN 1 ELSE 2
           rec(x, y, z) == [x EXCEPT !.refs = y, !.kind = kind, !.stage = "queued", !.inst = i,
                                     !.resp = r, !.charge = z]
<1>2. k = rec(NoOp, c, n)
  BY DEF NewRecord
<1>3. n \in Nat /\ c \in 0..2 /\ NoOp \in OpRecords
  BY <1>1 DEF NoOp, OpRecords, Kinds, Stages
<1>4. \A x \in OpRecords : \A y \in 0..2, z \in Nat :
        rec(x, y, z) \in OpRecords /\ rec(x, y, z).stage = "queued" /\ rec(x, y, z).refs = y
  BY ZenonT(40) DEF OpRecords, Stages
<1> HIDE DEF k, c, n, rec
<1>5. k \in OpRecords /\ k.stage = "queued" /\ k.refs = c
  BY <1>2, <1>3, <1>4
<1> QED BY <1>5 DEF k, c

\* Accept queues one operation and gives it to the host.
LEMMA AcceptOps ==
  ASSUME OpsInv, NEW t, NEW kind \in Kinds, kind # "drop", NEW i \in Insts \cup {None},
         NEW r \in Resps \cup {None}, NEW input \in Nat, NEW m, Heap(m, mem.op),
         Accept(t, kind, i, r, input, m)
  PROVE  OpsInv'
<1> DEFINE o == Slot(FreeOps)
           k == NewRecord(kind, i, r, input)
<1>1. o \in FreeOps /\ o \in Ops
  BY SlotIn DEF Accept, FreeOps
<1>2. /\ mem' = new_op(m, kind, i, r, o, input) /\ owned' = owned \cup {o}
      /\ activeOps' = activeOps + 1 /\ commands' = Append(commands, o)
      /\ UNCHANGED <<notices, noteOp, notifier, call>>
  BY DEF Accept, enqueue, noteVars
<1> HIDE DEF o
<1>3. Heap(mem', [mem.op EXCEPT ![o] = k])
  BY <1>2, NewOp
<1>4. k \in OpRecords /\ k.stage = "queued" /\ k.refs = 2
  BY NewTypes
<1> HIDE DEF k
<1>5. mem'.op = [mem.op EXCEPT ![o] = k]
  BY <1>3 DEF Heap
<1>6. mem'.op \in [Ops -> OpRecords]
  BY <1>1, <1>4, <1>5, OpsFacts
<1>7. NextTypes
  BY <1>1, <1>2, <1>3, <1>6, OpsFacts DEF NextTypes, Heap, Handles
<1>8. \A h \in Hosts : OpHeld(h)' = OpHeld(h)
  BY <1>2, OpsFacts
<1> QED BY <1>1, <1>2, <1>4, <1>5, <1>7, <1>8, OpQueued

\* hs_response_read_async also takes a reference to the response.
LEMMA ReadOps ==
  ASSUME OpsInv, NEW t, NEW r \in Resps, hs_response_read_async(t, r)
  PROVE  OpsInv'
<1> DEFINE m == [mem EXCEPT !.resp[r].refs = @ + 1, !.resp[r].reading = TRUE]
           j == mem.resp[r].inst
           q == [mem.resp[r] EXCEPT !.refs = @ + 1, !.reading = TRUE]
<1>1. mem.resp \in [Resps -> RespTypes] /\ IsHeap(mem) /\ mem.resp[r] \in RespTypes
  BY DEF OpsInv, OpTypes
<1>2. q \in RespTypes /\ j \in Insts \cup {None}
  <2>1. mem.resp[r].refs + 1 \in Int /\ j \in Insts \cup {None}
    BY <1>1 DEF RespTypes
  <2>2. \A x \in RespTypes : \A y \in Int : [x EXCEPT !.refs = y, !.reading = TRUE] \in RespTypes
    BY DEF RespTypes
  <2> QED BY <1>1, <2>1, <2>2, Zenon
<1>3. IsHeap(m) /\ m.op = mem.op /\ m.resp = [mem.resp EXCEPT ![r] = q]
  BY <1>1 DEF IsHeap
<1>4. Heap(m, mem.op)
  BY <1>1, <1>2, <1>3 DEF Heap
<1>5. Accept(t, "read", j, r, 0, m)
  BY DEF hs_response_read_async
<1> HIDE DEF m, j
<1> QED BY <1>2, <1>4, <1>5, AcceptOps DEF Kinds, Business

\* A submission that is abandoned leaves the slot as it was.
LEMMA AbandonOps ==
  ASSUME OpsInv, NEW t, NEW i \in Insts, hs_submit_abandons(t, i)
  PROVE  OpsInv'
<1> DEFINE o == Slot(FreeOps)
           m == new_op(mem, "submit", i, None, o, 0)
           k == NewRecord("submit", i, None, 0)
           ops == [mem.op EXCEPT ![o] = k]
<1>1. o \in FreeOps /\ o \in Ops
  BY SlotIn DEF hs_submit_abandons, FreeOps
<1>2. mem' = abandon(m, o) /\ UNCHANGED <<activeOps, commands, notices, noteOp, notifier, call, owned>>
  BY DEF hs_submit_abandons, queues, noteVars, hostVars, counters
<1> HIDE DEF o
<1>3. Heap(m, ops)
  BY NewOp, OpsFacts
<1>4. k \in OpRecords
  BY NewTypes DEF Kinds, Business
<1> HIDE DEF k, m
<1>5. ops \in [Ops -> OpRecords]
  BY <1>4, OpsFacts
<1>6. Heap(mem', [ops EXCEPT ![o] = NoOp])
  <2> HIDE DEF ops
  <2> QED BY <1>1, <1>2, <1>3, <1>5, Abandons
<1>7. mem'.op = [mem.op EXCEPT ![o] = NoOp]
  BY <1>1, <1>6, OpsFacts DEF Heap
<1>8. NoOp \in OpRecords /\ NoOp.stage = "none" /\ NoOp.refs = 0
  BY DEF NoOp, OpRecords, Kinds, Stages
<1>9. NextTypes
  BY <1>1, <1>2, <1>6, <1>7, <1>8, OpsFacts DEF NextTypes, Heap
<1>10. mem.op[o].stage = "none" /\ mem.op[o].refs = 0
  BY <1>1, FreeIs
<1>11. \A p \in Ops : mem'.op[p].refs = mem.op[p].refs /\ mem'.op[p].stage = mem.op[p].stage
  BY <1>1, <1>7, <1>8, <1>10, OpsFacts
<1> QED BY <1>2, <1>9, <1>11, OpsKept, OpsFacts DEF Still, SameHolders

\* create_async, once admitted: a failure leaves the operations alone, success queues one.
LEMMA CreateOps ==
  ASSUME OpsInv, ThreadInv, NEW t \in Callers, NEW kind \in {"create", "start"}, NEW st, NEW wt,
         CreateBody(t, kind, st, wt), t \in Hosts => call[t].at \notin HoldAt,
         \/ st = state /\ state < 3
         \/ st = 0 /\ notifier = "exit"
  PROVE  OpsInv'
<1> DEFINE i == Slot(FreeInsts)
           o == Slot(FreeOps)
           m == [mem EXCEPT !.inst[i].refs = 1, !.inst[i].server = (kind = "start")]
           k == NewRecord(kind, i, None, InputCost)
<1>1. notifier' = "callback" <=> notifier = "callback"
  <2>1. CASE st = 0
    <3>1. notifier # "callback"
      BY <2>1 DEF ThreadInv, ThreadsAgree
    <3>2. notifier' \in {"none", "loop"}
      BY <2>1 DEF CreateBody, RuntimeRuns, RuntimeFails
    <3> QED BY <3>1, <3>2
  <2>2. CASE st # 0
    BY <2>2 DEF CreateBody, RuntimeRuns, RuntimeFails
  <2> QED BY <2>1, <2>2
<1>2. \A h \in Hosts : OpHeld(h)' = OpHeld(h)
  BY DEF CreateBody, Return, Idle, OpHeld, ThreadInv, CallTypeOK, HoldAt
<1>3. \A h \in Hosts : Subject(call'[h])
  BY OpsFacts DEF CreateBody, Return, Idle, ThreadInv, CallTypeOK, HoldAt, Subject
<1>4. UNCHANGED <<noteOp, notices>>
  BY DEF CreateBody
<1>5. CASE UNCHANGED <<mem, counters, commands, owned>>
  <2>1. NextTypes
    BY <1>3, <1>5, OpsFacts DEF NextTypes, Heap
  <2> QED BY <1>1, <1>2, <1>4, <1>5, <2>1, OpsKept DEF Still, SameHolders, counters
<1>6. CASE /\ FreeInsts # {} /\ FreeOps # {} /\ mem' = new_op(m, kind, i, None, o, InputCost)
           /\ activeOps' = activeOps + 1 /\ owned' = owned \cup {o} /\ enqueue(o)
  <2>1. o \in FreeOps /\ o \in Ops /\ i \in Insts
    BY <1>6, SlotIn DEF FreeOps, FreeInsts
  <2> HIDE DEF o, i
  <2>2. Heap(m, mem.op)
    BY OpsFacts DEF Heap, IsHeap
  <2> HIDE DEF m
  <2>3. Heap(mem', [mem.op EXCEPT ![o] = k])
    BY <1>6, <2>2, NewOp
  <2>4. k \in OpRecords /\ k.stage = "queued" /\ k.refs = 2
    <3>1. InputCost \in Nat /\ kind \in Kinds /\ kind # "drop"
      BY BridgeAssumption DEF Kinds, Business
    <3> QED BY <2>1, <3>1, NewTypes
  <2> HIDE DEF k
  <2>5. mem'.op = [mem.op EXCEPT ![o] = k]
    BY <2>3 DEF Heap
  <2>6. mem'.op \in [Ops -> OpRecords]
    BY <2>1, <2>4, <2>5, OpsFacts
  <2>7. NextTypes
    BY <1>3, <1>6, <2>1, <2>3, <2>6, OpsFacts DEF NextTypes, Heap, Handles
  <2>8. commands' = Append(commands, o)
    BY <1>6 DEF enqueue
  <2> QED BY <1>1, <1>2, <1>4, <1>6, <2>1, <2>4, <2>5, <2>7, <2>8, OpQueued
<1> HIDE DEF m
<1>7. \/ UNCHANGED <<mem, counters, commands, owned>>
      \/ /\ FreeInsts # {} /\ FreeOps # {}
         /\ mem' = new_op([mem EXCEPT !.inst[i].refs = 1, !.inst[i].server = (kind = "start")],
                          kind, i, None, o, InputCost)
         /\ activeOps' = activeOps + 1 /\ owned' = owned \cup {o} /\ enqueue(o)
  BY DEF CreateBody
<1> QED BY <1>5, <1>6, <1>7 DEF m

\* hs_response_release queues an internal operation, that no host has, or none.
LEMMA ResponseOps ==
  ASSUME OpsInv, NEW t, NEW r \in Resps, hs_response_release(t, r)
  PROVE  OpsInv'
<1> DEFINE i == mem.resp[r].inst
           o == Slot(FreeOps)
           m == [mem EXCEPT !.resp[r].released = TRUE]
           m1 == [m EXCEPT !.resp[r].refs = @ + 1]
           k == NewRecord("drop", i, r, 0)
<1>1. /\ UNCHANGED <<notices, noteOp, notifier, call>> /\ owned' = owned \ {r}
      /\ \/ /\ FreeOps # {} /\ mem' = response_drop(new_op(m1, "drop", i, r, o, 0), r)
            /\ activeOps' = activeOps + 1 /\ enqueue(o)
         \/ mem' = response_drop(m, r) /\ UNCHANGED <<activeOps, commands>>
  BY DEF hs_response_release, noteVars
<1>2. /\ mem.resp \in [Resps -> RespTypes] /\ IsHeap(mem) /\ mem.resp[r] \in RespTypes
      /\ i \in Insts \cup {None}
  BY DEF OpsInv, OpTypes, RespTypes
<1>3. Heap(m, mem.op)
  <2>1. [mem.resp[r] EXCEPT !.released = TRUE] \in RespTypes
    BY <1>2 DEF RespTypes
  <2>2. IsHeap(m) /\ m.op = mem.op /\ m.resp = [mem.resp EXCEPT ![r] = [mem.resp[r] EXCEPT !.released = TRUE]]
    BY <1>2 DEF IsHeap
  <2> QED BY <1>2, <2>1, <2>2 DEF Heap
<1> HIDE DEF m, i
<1>4. Heap(m1, mem.op)
  <2>1. m.resp[r] \in RespTypes
    BY <1>3 DEF Heap
  <2>2. [m.resp[r] EXCEPT !.refs = @ + 1] \in RespTypes
    BY <2>1 DEF RespTypes
  <2>3. IsHeap(m1) /\ m1.op = m.op /\ m1.resp = [m.resp EXCEPT ![r] = [m.resp[r] EXCEPT !.refs = @ + 1]]
    BY <1>3 DEF Heap, IsHeap
  <2> QED BY <1>3, <2>2, <2>3 DEF Heap
<1> HIDE DEF m1
<1>5. \A p \in Ops : p \in owned' <=> p \in owned
  BY <1>1, BridgeAssumption
<1>6. /\ \A h \in Hosts : OpHeld(h)' = OpHeld(h)
      /\ \A h \in Hosts : Subject(call'[h])
  BY <1>1, OpsFacts
<1>7. CASE mem' = response_drop(m, r) /\ UNCHANGED <<activeOps, commands>>
  <2>1. Heap(mem', mem.op)
    BY <1>3, <1>7, RespDrop
  <2>2. NextTypes
    BY <1>1, <1>6, <2>1, OpsFacts DEF NextTypes, Heap
  <2> QED BY <1>1, <1>5, <1>6, <1>7, <2>1, <2>2, OpsKept DEF Still, SameHolders, Heap
<1>8. CASE /\ FreeOps # {} /\ mem' = response_drop(new_op(m1, "drop", i, r, o, 0), r)
           /\ activeOps' = activeOps + 1 /\ enqueue(o)
  <2>1. o \in FreeOps /\ o \in Ops
    BY <1>8, SlotIn DEF FreeOps
  <2> HIDE DEF o
  <2>2. Heap(new_op(m1, "drop", i, r, o, 0), [mem.op EXCEPT ![o] = k])
    BY <1>4, NewOp
  <2>3. Heap(mem', [mem.op EXCEPT ![o] = k])
    BY <1>8, <2>2, RespDrop
  <2>4. k \in OpRecords /\ k.stage = "queued" /\ k.refs = 1
    BY <1>2, NewTypes DEF Kinds
  <2> HIDE DEF k
  <2>5. mem'.op = [mem.op EXCEPT ![o] = k]
    BY <2>3 DEF Heap
  <2>6. mem'.op \in [Ops -> OpRecords]
    BY <2>1, <2>4, <2>5, OpsFacts
  <2>7. NextTypes
    BY <1>1, <1>6, <2>3, <2>6, OpsFacts DEF NextTypes, Heap
  <2>8. commands' = Append(commands, o)
    BY <1>8 DEF enqueue
  <2>9. o \notin owned'
    BY <1>5, <2>1, FreeIs
  <2> QED BY <1>1, <1>5, <1>6, <1>8, <2>1, <2>4, <2>5, <2>7, <2>8, <2>9, OpQueued
<1> QED BY <1>1, <1>7, <1>8

\* hs_chunk_release and hs_operation_cancel change no stage.
LEMMA ChunkOps ==
  ASSUME OpsInv, NEW t, NEW c \in Chunks, hs_chunk_release(t, c)
  PROVE  OpsInv'
<1> DEFINE i == mem.chunk[c].inst
           r == mem.chunk[c].resp
           m0 == uncharge(mem, i, ChunkCost)
           m == [m0 EXCEPT !.resp[r].chunks = @ - 1, !.chunk[c] = NoChunk]
<1>1. /\ UNCHANGED <<activeOps, commands, notices, noteOp, notifier, call>> /\ owned' = owned \ {c}
      /\ mem' = instance_drop(response_drop(m, r), i)
  BY DEF hs_chunk_release, noteVars, queues, counters
<1>2. Heap(m0, mem.op)
  BY InstOnly, OpsFacts DEF Heap
<1> HIDE DEF m0, r, i
<1>3. [m0.resp EXCEPT ![r].chunks = @ - 1] \in [Resps -> RespTypes]
  <2>1. CASE r \in Resps
    <3>1. m0.resp[r] \in RespTypes
      BY <1>2, <2>1 DEF Heap
    <3>2. [m0.resp[r] EXCEPT !.chunks = @ - 1] \in RespTypes
      BY <3>1 DEF RespTypes
    <3> QED BY <1>2, <2>1, <3>2 DEF Heap
  <2>2. CASE r \notin Resps
    BY <1>2, <2>2 DEF Heap
  <2> QED BY <2>1, <2>2
<1>4. Heap(m, mem.op)
  BY <1>2, <1>3 DEF Heap, IsHeap
<1> HIDE DEF m
<1>5. Heap(response_drop(m, r), mem.op)
  BY <1>4, RespDrop
<1>6. Heap(mem', mem.op)
  <2> DEFINE x == response_drop(m, r)
  <2> HIDE DEF x
  <2>1. IsHeap(x) /\ x.op = mem.op /\ x.resp \in [Resps -> RespTypes]
    BY <1>5 DEF Heap, x
  <2>2. /\ IsHeap(instance_drop(x, i)) /\ instance_drop(x, i).op = x.op
        /\ instance_drop(x, i).resp = x.resp
    BY <2>1, InstOnly
  <2> QED BY <1>1, <2>1, <2>2 DEF Heap, x
<1>7. \A p \in Ops : p \in owned' <=> p \in owned
  BY <1>1, BridgeAssumption
<1>8. NextTypes
  BY <1>1, <1>6, OpsFacts DEF NextTypes, Heap
<1> QED BY <1>1, <1>6, <1>7, <1>8, OpsFacts, OpsKept DEF Still, SameHolders, Heap

\* A cancellation only sets a flag.
LEMMA CancelOps ==
  ASSUME OpsInv, NEW t, NEW o \in Ops, hs_operation_cancel(t, o)
  PROVE  OpsInv'
<1> DEFINE k == [mem.op[o] EXCEPT !.cancelled = TRUE]
<1>1. /\ UNCHANGED <<activeOps, commands, notices, noteOp, notifier, call, owned>>
      /\ mem' = [mem EXCEPT !.op[o].cancelled = TRUE]
  BY DEF hs_operation_cancel, noteVars, queues, counters, hostVars
<1>2. mem.op[o] \in OpRecords
  BY OpsFacts
<1>3. k \in OpRecords /\ k.stage = mem.op[o].stage /\ k.refs = mem.op[o].refs
  BY <1>2 DEF OpRecords
<1>4. IsHeap(mem') /\ mem'.op = [mem.op EXCEPT ![o] = k] /\ mem'.resp = mem.resp
  BY <1>1, OpsFacts DEF Heap, IsHeap
<1> HIDE DEF k
<1>5. NextTypes
  <2>1. mem'.op \in [Ops -> OpRecords]
    BY <1>3, <1>4, OpsFacts
  <2> QED BY <1>1, <1>4, <2>1, OpsFacts DEF NextTypes, Heap
<1>6. \A p \in Ops : mem'.op[p].refs = mem.op[p].refs /\ mem'.op[p].stage = mem.op[p].stage
  BY <1>3, <1>4, OpsFacts
<1> QED BY <1>1, <1>5, <1>6, OpsFacts, OpsKept DEF Still, SameHolders

\* What the release of a handle does to the heap.
LEMMA DropHeap ==
  ASSUME OpsInv, NEW x \in Insts \cup Ops
  PROVE  Heap(drop(mem, x), IF x \in Ops THEN Fewer(mem.op, x) ELSE mem.op)
<1>1. CASE x \in Insts
  <2>1. x \notin Ops
    BY <1>1, BridgeAssumption
  <2> QED BY <1>1, <2>1, InstOnly, OpsFacts DEF drop, Heap
<1>2. CASE x \notin Insts
  <2>1. x \in Ops
    BY <1>2
  <2>2. Heap(op_drop(mem, x), Fewer(mem.op, x))
    BY OpDrop, OpsFacts
  <2> QED BY <1>2, <2>1, <2>2 DEF drop
<1> QED BY <1>1, <1>2

\* An operation with a reference less has its types.
LEMMA FewerTypes ==
  ASSUME NEW ops \in [Ops -> OpRecords], NEW o \in Ops, ops[o].refs > 0
  PROVE  Fewer(ops, o) \in [Ops -> OpRecords]
<1>1. NoOp \in OpRecords
  BY DEF NoOp, OpRecords, Kinds, Stages
<1>2. ops[o] \in OpRecords
  OBVIOUS
<1>3. ops[o].refs # 1 => [ops[o] EXCEPT !.refs = @ - 1] \in OpRecords
  BY <1>2 DEF OpRecords
<1> QED BY <1>1, <1>3 DEF Fewer

\* A thread keeps the host's reference while it waits.
LEMMA HolderMoves ==
  ASSUME OpsInv, CallTypeOK, NEW h \in Hosts, call[h] = Idle, NEW x \in Insts \cup Ops, x \in owned,
         NEW a \in {"barrier", "sync"}, call' = [call EXCEPT ![h] = [at |-> a, on |-> x]],
         owned' = owned \ {x}, UNCHANGED <<mem, activeOps, commands, notices, noteOp, notifier>>
  PROVE  OpsInv'
<1>1. NextTypes
  BY OpsFacts DEF NextTypes, CallTypeOK, Heap, Subject, HoldAt
<1>2. /\ \A g \in Hosts : g # h => OpHeld(g)' = OpHeld(g)
      /\ OpHeld(h)' = (IF x \in Ops THEN x ELSE None) /\ OpHeld(h) = None
  BY DEF OpHeld, CallTypeOK, HoldAt, Idle
<1>3. \A g \in Hosts : OpHeld(g) # x
  <2>1. None # x
    BY BridgeAssumption DEF Handles
  <2> QED BY <2>1 DEF OpsInv, HostRefs
<1>4. None \notin owned'
  BY <1>1, BridgeAssumption DEF NextTypes
<1>5. HostRefs'
  BY <1>1, <1>2, <1>3, <1>4 DEF OpsInv, HostRefs, NextTypes
<1>6. ASSUME NEW o \in Ops PROVE HostHolds(o)' <=> HostHolds(o)
  <2>1. o # None
    BY BridgeAssumption DEF Handles
  <2>2. CASE o = x
    BY <1>2, <2>2, HoldsIs, HoldsWillBe
  <2>3. CASE o # x
    BY <1>2, <2>1, <2>3, HoldsIs, HoldsWillBe
  <2> QED BY <2>2, <2>3
<1> QED BY <1>1, <1>5, <1>6, OpsSame DEF Still

\* A thread that waits gives its handle back.
LEMMA HolderDrops ==
  ASSUME OpsInv, CallTypeOK, NEW h \in Hosts, call[h].at \in HoldAt, mem' = drop(mem, call[h].on), Return(h),
         notifier' = "callback" <=> notifier = "callback",
         UNCHANGED <<owned, activeOps, commands, notices, noteOp>>
  PROVE  OpsInv'
<1>0. PICK x \in Insts \cup Ops : x = call[h].on
  BY OpsFacts DEF Subject
<1>1. Heap(mem', IF x \in Ops THEN Fewer(mem.op, x) ELSE mem.op)
  BY <1>0, DropHeap
<1>2. /\ \A g \in Hosts : g # h => OpHeld(g)' = OpHeld(g)
      /\ OpHeld(h) = (IF x \in Ops THEN x ELSE None) /\ OpHeld(h)' = None
  BY <1>0 DEF OpHeld, CallTypeOK, HoldAt, Return, Idle
<1>3. \A g \in Hosts : Subject(call'[g])
  BY OpsFacts DEF CallTypeOK, HoldAt, Return, Idle, Subject
<1>4. CASE x \notin Ops
  <2>1. Heap(mem', mem.op)
    BY <1>1, <1>4
  <2>2. NextTypes
    BY <1>3, <2>1, OpsFacts DEF NextTypes, Heap
  <2>3. SameHolders
    BY <1>2, <1>4 DEF SameHolders
  <2> QED BY <2>1, <2>2, <2>3, OpsKept DEF Still, Heap
<1>5. CASE x \in Ops
  <2>1. Heap(mem', Fewer(mem.op, x))
    BY <1>1, <1>5
  <2>2. HostHolds(x)
    BY <1>2, <1>5, HoldsIs
  <2>3. mem.op[x].refs > 0
    BY <1>5, <2>2 DEF OpsInv, OpRefs, OpExact, One
  <2>4. NextTypes
    BY <1>3, <1>5, <2>1, <2>3, OpsFacts, FewerTypes DEF NextTypes, Heap
  <2>5. x # None /\ x \notin owned /\ None \notin owned
    BY <1>2, <1>5, BridgeAssumption DEF Handles, OpsInv, HostRefs, OpTypes
  <2>6. HostRefs'
    BY <1>2, <1>3, <2>5 DEF OpsInv, HostRefs
  <2>7. \A g \in Hosts : OpHeld(g)' # x
    BY <1>2, <1>5, <2>5 DEF OpsInv, HostRefs
  <2>8. ~HostHolds(x)'
    BY <1>5, <2>5, <2>7, HoldsWillBe
  <2>9. ASSUME NEW p \in Ops, p # x PROVE HostHolds(p)' <=> HostHolds(p)
    <3>1. p # None
      BY BridgeAssumption DEF Handles
    <3>2. \A g \in Hosts : OpHeld(g)' = p <=> OpHeld(g) = p
      BY <1>2, <1>5, <2>9, <3>1
    <3> QED BY <3>2, HoldsIs, HoldsWillBe
  <2>10. mem'.op = Fewer(mem.op, x)
    BY <2>1 DEF Heap
  <2> QED BY <1>5, <2>2, <2>4, <2>6, <2>8, <2>9, <2>10, OpReleased DEF Still
<1> QED BY <1>4, <1>5

\* A thread that has the host's reference in no call gives it back at once.
LEMMA OwnerDrops ==
  ASSUME OpsInv, NEW x \in Insts \cup Ops, x \in owned, owned' = owned \ {x}, mem' = drop(mem, x),
         UNCHANGED <<call, activeOps, commands, notices, noteOp, notifier>>
  PROVE  OpsInv'
<1>1. Heap(mem', IF x \in Ops THEN Fewer(mem.op, x) ELSE mem.op)
  BY DropHeap
<1>2. /\ \A h \in Hosts : OpHeld(h)' = OpHeld(h)
      /\ \A h \in Hosts : Subject(call'[h])
  BY OpsFacts
<1>3. CASE x \notin Ops
  <2>1. Heap(mem', mem.op)
    BY <1>1, <1>3
  <2>2. NextTypes
    BY <1>2, <2>1, OpsFacts DEF NextTypes, Heap
  <2>3. SameHolders
    BY <1>2, <1>3 DEF SameHolders
  <2> QED BY <2>1, <2>2, <2>3, OpsKept DEF Still, Heap
<1>4. CASE x \in Ops
  <2>1. Heap(mem', Fewer(mem.op, x))
    BY <1>1, <1>4
  <2>2. HostHolds(x)
    BY <1>4, HoldsIs
  <2>3. mem.op[x].refs > 0
    BY <1>4, <2>2 DEF OpsInv, OpRefs, OpExact, One
  <2>4. NextTypes
    BY <1>2, <1>4, <2>1, <2>3, OpsFacts, FewerTypes DEF NextTypes, Heap
  <2>5. HostRefs'
    BY <1>2 DEF OpsInv, HostRefs
  <2>6. \A h \in Hosts : OpHeld(h) # x
    BY <1>4 DEF OpsInv, HostRefs
  <2>7. ~HostHolds(x)'
    BY <1>2, <1>4, <2>6, HoldsWillBe
  <2>8. \A p \in Ops : p # x => (HostHolds(p)' <=> HostHolds(p))
    BY <1>2, HoldsIs, HoldsWillBe
  <2>9. mem'.op = Fewer(mem.op, x)
    BY <2>1 DEF Heap
  <2> QED BY <1>4, <2>2, <2>4, <2>5, <2>7, <2>8, <2>9, OpReleased DEF Still
<1> QED BY <1>3, <1>4

\* A step that only moves threads between their places in a call.
LEMMA CallsMove ==
  ASSUME OpsInv, UNCHANGED <<mem, owned, activeOps, commands, notices, noteOp>>,
         notifier' = "callback" <=> notifier = "callback",
         \A h \in Hosts : OpHeld(h)' = OpHeld(h),
         \A h \in Hosts : Subject(call'[h])
  PROVE  OpsInv'
<1>1. NextTypes /\ SameHolders
  BY OpsFacts DEF NextTypes, SameHolders, Heap
<1> QED BY <1>1, OpsKept DEF Still

\* Every entry into the API.
LEMMA EnterOps ==
  ASSUME OpsInv, ThreadInv, NEW t \in Callers, Enter(t)
  PROVE  OpsInv'
<1>0. CallTypeOK
  BY DEF ThreadInv
<1>1. ASSUME NEW entry, CanCall(t, entry), t \in Hosts PROVE call[t] = Idle
  BY <1>1, BridgeAssumption DEF CanCall
<1>2. ASSUME NEW kind \in {"create", "start"}, create_async(t, kind) PROVE OpsInv'
  <2>1. t \in Hosts => call[t].at \notin HoldAt
    BY <1>1, <1>2 DEF create_async, Idle, HoldAt
  <2> QED BY <1>2, <2>1, CreateOps DEF create_async
<1>3. ASSUME NEW kind \in {"create", "start"}, create_async_reaps(t, kind) PROVE OpsInv'
  <2>1. t \in Hosts /\ call[t] = Idle
    BY <1>1, <1>3 DEF create_async_reaps
  <2>2. /\ \A h \in Hosts : OpHeld(h)' = OpHeld(h)
        /\ \A h \in Hosts : Subject(call'[h])
    BY <1>0, <1>3, <2>1, OpsFacts DEF create_async_reaps, OpHeld, CallTypeOK, HoldAt, Idle, Subject
  <2> QED BY <1>3, <2>2, CallsMove DEF create_async_reaps, heap, counters, queues, noteVars
<1>4. ASSUME NEW x \in Insts \cup Ops, release(t, x) PROVE OpsInv'
  <2>1. /\ x \in owned /\ owned' = owned \ {x}
        /\ UNCHANGED <<activeOps, commands, notices, noteOp, notifier>>
    BY <1>4 DEF release, counters, queues, noteVars
  <2>2. CASE Barred(t, x) /\ call' = [call EXCEPT ![t] = [at |-> "barrier", on |-> x]] /\ UNCHANGED mem
    <3>1. t \in Hosts /\ call[t] = Idle
      BY <1>1, <1>4, <2>2 DEF release, Barred
    <3> QED BY <1>0, <2>1, <2>2, <3>1, HolderMoves
  <2>3. CASE mem' = drop(mem, x) /\ UNCHANGED call
    BY <2>1, <2>3, OwnerDrops
  <2> QED BY <1>4, <2>2, <2>3 DEF release
<1>5. ASSUME NEW o \in Ops, sync_waits(t, o) PROVE OpsInv'
  <2>1. t \in Hosts /\ call[t] = Idle
    BY <1>1, <1>5 DEF sync_waits
  <2>2. /\ o \in owned /\ owned' = owned \ {o} /\ call' = [call EXCEPT ![t] = [at |-> "sync", on |-> o]]
        /\ UNCHANGED <<mem, activeOps, commands, notices, noteOp, notifier>>
    BY <1>5 DEF sync_waits, heap, counters, queues, noteVars
  <2> QED BY <1>0, <2>1, <2>2, HolderMoves
<1>6. ASSUME NEW i \in Insts, stop_waits(t, i) PROVE OpsInv'
  <2>1. t \in Hosts /\ call[t] = Idle
    BY <1>1, <1>6 DEF stop_waits
  <2>2. /\ \A h \in Hosts : OpHeld(h)' = OpHeld(h)
        /\ \A h \in Hosts : Subject(call'[h])
    BY <1>0, <1>6, <2>1, OpsFacts DEF stop_waits, OpHeld, CallTypeOK, HoldAt, Idle, Subject
  <2> QED BY <1>6, <2>2, CallsMove DEF stop_waits, heap, counters, queues, noteVars
<1>7. ASSUME NEW i \in Insts, close_async(t, i) \/ hs_submit_async(t, i) PROVE OpsInv'
  <2>1. CASE close_async(t, i)
    <3> DEFINE m == [mem EXCEPT !.inst[i].closing = TRUE]
    <3>1. Heap(m, mem.op) /\ Accept(t, "close", i, None, 0, m)
      BY <2>1, OpsFacts DEF Heap, IsHeap, close_async
    <3> HIDE DEF m
    <3> QED BY <3>1, AcceptOps DEF Kinds
  <2>2. CASE hs_submit_async(t, i)
    <3>1. Accept(t, "submit", i, None, InputCost, mem) /\ InputCost \in Nat
      BY <2>2, BridgeAssumption DEF hs_submit_async
    <3> QED BY <3>1, AcceptOps, OpsFacts DEF Kinds, Business
  <2> QED BY <1>7, <2>1, <2>2
<1> QED BY <1>2, <1>3, <1>4, <1>5, <1>6, <1>7, ReadOps, AbandonOps, ResponseOps, ChunkOps, CancelOps
    DEF Enter

\* A host thread goes on in its blocking call.
LEMMA ResumeOps ==
  ASSUME OpsInv, ThreadInv, NEW h \in Hosts, Resume(h)
  PROVE  OpsInv'
<1>0. CallTypeOK /\ call[h] \in [at : Places, on : Subjects] /\ h \in Callers
  BY DEF ThreadInv, CallTypeOK, Callers
<1>1. ASSUME NEW a \in Places, call' = [call EXCEPT ![h].at = a],
             a \in HoldAt <=> call[h].at \in HoldAt, a = "join" => call[h].at = "reap",
             a # "reap"
      PROVE  /\ \A g \in Hosts : OpHeld(g)' = OpHeld(g)
             /\ \A g \in Hosts : Subject(call'[g])
  <2>1. /\ call'[h].at = a /\ call'[h].on = call[h].on
        /\ \A g \in Hosts : g # h => call'[g] = call[g]
    BY <1>0, <1>1 DEF CallTypeOK
  <2> QED BY <1>1, <2>1, OpsFacts DEF OpHeld, Subject
<1>2. CASE CreateResumes(h)
  <2>1. CASE state < 3 /\ CreateBody(h, call[h].on, state, waiting)
    <3>1. call[h].at \notin HoldAt
      BY <1>2 DEF CreateResumes, HoldAt
    <3>2. call[h].on \in {"create", "start"}
      BY <1>2, OpsFacts DEF CreateResumes, Subject
    <3> QED BY <1>0, <2>1, <3>1, <3>2, CreateOps
  <2>2. CASE ReapStep(h, state)
    <3>1. UNCHANGED <<mem, owned, activeOps, commands, notices, noteOp, notifier>>
      BY <2>2 DEF ReapStep, heap, counters, queues, noteVars
    <3>2. CASE call' = [call EXCEPT ![h].at = "join"]
      <4>1. "join" \in Places /\ "join" \notin HoldAt /\ call[h].at = "reap" /\ "reap" \notin HoldAt
        BY <1>2 DEF CreateResumes, HoldAt, Places
      <4> QED BY <1>1, <3>1, <3>2, <4>1, CallsMove
    <3>3. CASE UNCHANGED call
      BY <3>1, <3>3, CallsMove, OpsFacts
    <3> QED BY <2>2, <3>2, <3>3 DEF ReapStep
  <2> QED BY <1>2, <2>1, <2>2 DEF CreateResumes
<1>3. CASE CreateJoins(h)
  <2>1. /\ CreateBody(h, call[h].on, 0, {}) /\ notifier = "exit" /\ call[h].at \notin HoldAt
        /\ call[h].on \in {"create", "start"}
    BY <1>3, OpsFacts DEF CreateJoins, HoldAt, Subject
  <2> QED BY <1>0, <2>1, CreateOps
<1>4. CASE release_barrier(h)
  <2>1. /\ call[h].at = "barrier" /\ UNCHANGED <<owned, activeOps, commands, notices, noteOp, notifier>>
    BY <1>4 DEF release_barrier, counters, queues, noteVars
  <2>2. CASE mem' = drop(mem, call[h].on) /\ Return(h)
    BY <1>0, <2>1, <2>2, HolderDrops DEF HoldAt
  <2>3. CASE call' = [call EXCEPT ![h].at = "barrier_join"] /\ UNCHANGED mem
    <3>1. "barrier_join" \in Places /\ "barrier_join" \in HoldAt /\ call[h].at \in HoldAt
      BY <2>1 DEF HoldAt, Places
    <3> QED BY <1>1, <2>1, <2>3, <3>1, CallsMove
  <2>4. CASE UNCHANGED <<mem, call>>
    BY <2>1, <2>4, CallsMove, OpsFacts
  <2> QED BY <1>4, <2>2, <2>3, <2>4 DEF release_barrier
<1>5. CASE barrier_joins(h)
  BY <1>0, <1>5, HolderDrops DEF barrier_joins, HoldAt, counters, queues
<1>6. CASE sync_resumes(h)
  <2>1. /\ call[h].at = "sync" /\ UNCHANGED <<owned, activeOps, commands, notices, noteOp, notifier>>
    BY <1>6 DEF sync_resumes, counters, queues, noteVars
  <2>2. CASE mem' = drop(mem, call[h].on) /\ Return(h)
    BY <1>0, <2>1, <2>2, HolderDrops DEF HoldAt
  <2>3. CASE call' = [call EXCEPT ![h].at = "barrier"] /\ UNCHANGED mem
    <3>1. "barrier" \in Places /\ "barrier" \in HoldAt /\ call[h].at \in HoldAt
      BY <2>1 DEF HoldAt, Places
    <3> QED BY <1>1, <2>1, <2>3, <3>1, CallsMove
  <2>4. CASE UNCHANGED <<mem, call>>
    BY <2>1, <2>4, CallsMove, OpsFacts
  <2> QED BY <1>6, <2>2, <2>3, <2>4 DEF sync_resumes
<1>7. CASE stop_resumes(h)
  <2>1. call[h].at = "stop" /\ UNCHANGED <<mem, owned, activeOps, commands, notices, noteOp, notifier>>
    BY <1>7 DEF stop_resumes, heap, counters, queues, noteVars
  <2>2. CASE Return(h)
    <3>1. /\ \A g \in Hosts : OpHeld(g)' = OpHeld(g)
          /\ \A g \in Hosts : Subject(call'[g])
      BY <1>0, <2>1, <2>2, OpsFacts DEF Return, Idle, OpHeld, CallTypeOK, HoldAt, Subject
    <3> QED BY <2>1, <3>1, CallsMove
  <2>3. CASE UNCHANGED call
    BY <2>1, <2>3, CallsMove, OpsFacts
  <2> QED BY <1>7, <2>2, <2>3 DEF stop_resumes
<1> QED BY <1>2, <1>3, <1>4, <1>5, <1>6, <1>7 DEF Resume

-----------------------------------------------------------------------------
(* Tasks                                                                    *)

\* Two records that differ in nothing the pipeline looks at.
Alike(k, old) ==
  /\ k \in OpRecords /\ k.refs = old.refs /\ k.stage = old.stage
  /\ k.kind = old.kind /\ k.inst = old.inst /\ k.resp = old.resp /\ k.charge = old.charge

\* hs_bridge_complete for a task, on a heap in which the task may have put its event.
LEMMA FinishOps ==
  ASSUME OpsInv, NEW m, NEW ops \in [Ops -> OpRecords], Heap(m, ops), NEW o \in Ops,
         mem.op[o].stage \in TaskStages, Alike(ops[o], mem.op[o]),
         \A p \in Ops : p # o => ops[p] = mem.op[p], NEW ok \in BOOLEAN, Finish(m, o, ok)
  PROVE  OpsInv'
<1>1. /\ mem' = Completed(m, o, ok) /\ notices' = Append(notices, o)
      /\ UNCHANGED <<activeOps, commands, noteOp, notifier, call, owned>>
  BY DEF Finish, hs_bridge_complete, taskRest, noteVars, hostVars
<1>2. PICK k : Told(k, ops[o]) /\ Heap(mem', [ops EXCEPT ![o] = k])
  BY <1>1, Completes
<1>3. Told(k, mem.op[o])
  BY <1>2 DEF Told, Alike
<1>4. [ops EXCEPT ![o] = k] = [mem.op EXCEPT ![o] = k]
  BY OpsFacts
<1>5. mem'.op = [mem.op EXCEPT ![o] = k]
  BY <1>2, <1>4 DEF Heap
<1>6. mem'.op \in [Ops -> OpRecords]
  BY <1>3, <1>5, OpsFacts DEF Told
<1>7. NextTypes
  BY <1>1, <1>2, <1>6, OpsFacts DEF NextTypes, Heap
<1>8. SameHolders
  BY <1>1, OpsFacts DEF SameHolders
<1> QED BY <1>1, <1>3, <1>5, <1>7, <1>8, OpTold

\* The same when the task has put no event.
LEMMA EndOps ==
  ASSUME OpsInv, NEW m, Heap(m, mem.op), NEW o \in Ops, mem.op[o].stage \in TaskStages,
         NEW ok \in BOOLEAN, Finish(m, o, ok)
  PROVE  OpsInv'
<1>1. mem.op \in [Ops -> OpRecords] /\ Alike(mem.op[o], mem.op[o])
  BY OpsFacts DEF Alike
<1> QED BY <1>1, FinishOps

\* A task goes on.
LEMMA StepOps ==
  ASSUME OpsInv, NEW m, NEW ops \in [Ops -> OpRecords], Heap(m, ops), Step(m),
         \A p \in Ops : /\ ops[p].refs = mem.op[p].refs
                        /\ \/ ops[p].stage = mem.op[p].stage
                           \/ ops[p].stage \in TaskStages /\ mem.op[p].stage \in TaskStages
  PROVE  OpsInv'
<1>1. /\ mem' = m
      /\ UNCHANGED <<notices, activeOps, commands, noteOp, notifier, call, owned>>
  BY DEF Step, taskRest, noteVars, hostVars
<1>2. NextTypes
  BY <1>1, OpsFacts DEF NextTypes, Heap
<1>3. SameHolders
  BY <1>1, OpsFacts DEF SameHolders
<1>4. mem'.op = ops
  BY <1>1 DEF Heap
<1> QED BY <1>1, <1>2, <1>3, <1>4, OpsKept DEF Still

\* Another suspension point.
LEMMA GoHeap ==
  ASSUME OpsInv, NEW o \in Ops, NEW stage \in TaskStages
  PROVE  LET ops == [mem.op EXCEPT ![o].stage = stage]
         IN  /\ Heap(Go(o, stage), ops) /\ ops \in [Ops -> OpRecords] /\ ops[o].stage = stage
             /\ \A p \in Ops : ops[p].refs = mem.op[p].refs /\ (p # o => ops[p] = mem.op[p])
<1> DEFINE k == [mem.op[o] EXCEPT !.stage = stage]
<1>1. mem.op[o] \in OpRecords
  BY OpsFacts
<1>2. k \in OpRecords /\ k.refs = mem.op[o].refs /\ k.stage = stage
  BY <1>1 DEF OpRecords, Stages
<1>3. Heap(Go(o, stage), [mem.op EXCEPT ![o] = k])
  BY OpsFacts DEF Heap, IsHeap, Go
<1> QED BY <1>2, <1>3, OpsFacts

\* A task goes on to another suspension point.
LEMMA GoOps ==
  ASSUME OpsInv, NEW o \in Ops, mem.op[o].stage \in TaskStages, NEW stage \in TaskStages,
         Step(Go(o, stage))
  PROVE  OpsInv'
<1> DEFINE ops == [mem.op EXCEPT ![o].stage = stage]
<1>1. /\ Heap(Go(o, stage), ops) /\ ops \in [Ops -> OpRecords] /\ ops[o].stage = stage
      /\ \A p \in Ops : ops[p].refs = mem.op[p].refs /\ (p # o => ops[p] = mem.op[p])
  BY GoHeap
<1> HIDE DEF ops
<1> QED BY <1>1, StepOps

\* task.cancel changes no stage.
LEMMA CancelHeap ==
  ASSUME NEW m, NEW ops \in [Ops -> OpRecords], Heap(m, ops), NEW S
  PROVE  \E next \in [Ops -> OpRecords] :
            /\ Heap(Cancel(m, S), next)
            /\ \A p \in Ops : next[p].refs = ops[p].refs /\ next[p].stage = ops[p].stage
<1> DEFINE next == [o \in Ops |-> IF o \in S THEN [m.op[o] EXCEPT !.cancelling = TRUE] ELSE m.op[o]]
<1>1. m.op = ops
  BY DEF Heap
<1>2. ASSUME NEW p \in Ops
      PROVE  next[p] \in OpRecords /\ next[p].refs = ops[p].refs /\ next[p].stage = ops[p].stage
  <2>1. ops[p] \in OpRecords
    OBVIOUS
  <2>2. /\ [ops[p] EXCEPT !.cancelling = TRUE] \in OpRecords
        /\ [ops[p] EXCEPT !.cancelling = TRUE].refs = ops[p].refs
        /\ [ops[p] EXCEPT !.cancelling = TRUE].stage = ops[p].stage
    BY <2>1 DEF OpRecords
  <2> QED BY <1>1, <2>1, <2>2
<1>3. next \in [Ops -> OpRecords]
  BY <1>2
<1>4. Heap(Cancel(m, S), next)
  BY DEF Heap, IsHeap, Cancel
<1> HIDE DEF next
<1> QED BY <1>2, <1>3, <1>4

\* A change to an instance, and one to a response.
LEMMA OtherHeap ==
  ASSUME OpsInv
  PROVE  /\ \A i, b : Heap([mem EXCEPT !.inst[i].up = b], mem.op)
         /\ \A r, q : (r \in Resps => q \in RespTypes) => Heap([mem EXCEPT !.resp[r] = q], mem.op)
<1>1. \A i, b : Heap([mem EXCEPT !.inst[i].up = b], mem.op)
  BY OpsFacts DEF Heap, IsHeap
<1>2. ASSUME NEW r, NEW q, r \in Resps => q \in RespTypes
      PROVE  Heap([mem EXCEPT !.resp[r] = q], mem.op)
  <2>1. [mem.resp EXCEPT ![r] = q] \in [Resps -> RespTypes]
    BY <1>2, OpsFacts DEF Heap
  <2> QED BY <2>1, OpsFacts DEF Heap, IsHeap
<1> QED BY <1>1, <1>2

\* From the top of execute to the first suspension point.
LEMMA StartsOps ==
  ASSUME OpsInv, NEW o \in Ops, task_starts(o)
  PROVE  OpsInv'
<1>0. mem.op[o].stage \in TaskStages /\ Heap(mem, mem.op)
  BY OpsFacts DEF task_starts, TaskStages
<1>1. CASE Finish(mem, o, FALSE)
  BY <1>0, <1>1, EndOps
<1>2. CASE Step(Go(o, "running")) \/ Step(Go(o, "reading"))
  BY <1>0, <1>2, GoOps DEF TaskStages
<1>3. CASE Step([Cancel(Go(o, "stopping"), Siblings(o)) EXCEPT
                   !.inst[mem.op[o].inst].up = @ /\ mem.inst[mem.op[o].inst].server])
  <2> DEFINE ops == [mem.op EXCEPT ![o].stage = "stopping"]
             i == mem.op[o].inst
             b == mem.inst[i].server
             m == Cancel(Go(o, "stopping"), Siblings(o))
             m1 == [m EXCEPT !.inst[i].up = @ /\ b]
  <2>1. /\ Heap(Go(o, "stopping"), ops) /\ ops \in [Ops -> OpRecords] /\ ops[o].stage = "stopping"
        /\ \A p \in Ops : ops[p].refs = mem.op[p].refs /\ (p # o => ops[p] = mem.op[p])
    BY GoHeap DEF TaskStages
  <2> HIDE DEF ops
  <2>2. PICK next \in [Ops -> OpRecords] :
            /\ Heap(m, next)
            /\ \A p \in Ops : next[p].refs = ops[p].refs /\ next[p].stage = ops[p].stage
    BY <2>1, CancelHeap
  <2>3. Step(m1)
    BY <1>3
  <2> HIDE DEF m, i, b
  <2>4. Heap(m1, next)
    BY <2>2 DEF Heap, IsHeap
  <2>5. \A p \in Ops : /\ next[p].refs = mem.op[p].refs
                       /\ \/ next[p].stage = mem.op[p].stage
                          \/ next[p].stage \in TaskStages /\ mem.op[p].stage \in TaskStages
    BY <1>0, <2>1, <2>2 DEF TaskStages
  <2> HIDE DEF m1
  <2> QED BY <2>2, <2>3, <2>4, <2>5, StepOps
<1> QED BY <1>1, <1>2, <1>3 DEF task_starts

\* A response that was just made has its types.
LEMMA MadeTypes ==
  ASSUME NEW x \in RespTypes, NEW j \in Insts \cup {None}, NEW d \in Nat
  PROVE  [x EXCEPT !.refs = 1, !.inst = j, !.charge = d, !.listed = TRUE] \in RespTypes
<1> DEFINE w == [x EXCEPT !.refs = 1]
           y == [w EXCEPT !.inst = j]
           z == [y EXCEPT !.charge = d]
<1>1. w \in RespTypes
  BY DEF RespTypes
<1>2. y \in RespTypes
  <2> HIDE DEF w
  <2> QED BY <1>1 DEF RespTypes
<1>3. z \in RespTypes
  <2> HIDE DEF y
  <2> QED BY <1>2 DEF RespTypes
<1>4. [x EXCEPT !.refs = 1, !.inst = j, !.charge = d, !.listed = TRUE] = [z EXCEPT !.listed = TRUE]
  OBVIOUS
<1> HIDE DEF z
<1> QED BY <1>3, <1>4 DEF RespTypes

\* A response is made, and is the event of the submission, or it is discarded.
LEMMA HandlesOps ==
  ASSUME OpsInv, NEW o \in Ops, task_handles(o)
  PROVE  OpsInv'
<1> DEFINE i == mem.op[o].inst
           r == Slot(FreeResps)
           made(n) == response_made(mem, i, r, n, o)
           k == [mem.op[o] EXCEPT !.event = r]
           ops == [mem.op EXCEPT ![o] = k]
<1>0. /\ mem.op[o].stage = "running" /\ mem.op[o].stage \in TaskStages /\ mem.op[o] \in OpRecords
      /\ i \in Insts \cup {None} /\ mem.op \in [Ops -> OpRecords]
  BY OpsFacts DEF task_handles, TaskStages, OpRecords
<1>1. CASE Step(Go(o, "discard"))
  BY <1>0, <1>1, GoOps DEF TaskStages
<1>2. CASE FreeResps # {}
  <2>1. r \in Resps
    BY <1>2, SlotIn DEF FreeResps
  <2>2. k \in OpRecords /\ Alike(k, mem.op[o])
    BY <1>0, <2>1 DEF OpRecords, Alike
  <2>3. ASSUME NEW n \in Nat PROVE Heap(made(n), ops)
    <3>1. NewResp(i, n) \in RespTypes
      <4>1. NoResp \in RespTypes
        BY DEF NoResp, RespTypes
      <4>2. i \in Insts \cup {None}
        BY <1>0
      <4> HIDE DEF i
      <4> QED BY <4>1, <4>2, MadeTypes, Zenon DEF NewResp
    <3>2. Heap(charge(mem, i, n), mem.op)
      BY InstOnly, OpsFacts DEF Heap
    <3> DEFINE c == charge(mem, i, n)
               x == [c EXCEPT !.resp[r] = NewResp(i, n), !.inst[i] = WithResp(@), !.op[o].event = r]
    <3> HIDE DEF c, i, r
    <3>3. IsHeap(c) /\ c.op = mem.op /\ c.resp \in [Resps -> RespTypes]
      BY <3>2 DEF Heap, c
    <3>4. /\ IsHeap(x) /\ x.op = [c.op EXCEPT ![o].event = r] /\ x.resp = [c.resp EXCEPT ![r] = NewResp(i, n)]
      BY <3>3 DEF IsHeap
    <3>5. x = made(n)
      BY DEF c, response_made
    <3> HIDE DEF x, made
    <3>6. x.op = ops
      BY <3>3, <3>4
    <3>7. x.resp \in [Resps -> RespTypes]
      BY <2>1, <3>1, <3>3, <3>4
    <3> QED BY <3>4, <3>5, <3>6, <3>7 DEF Heap
  <2>4. ops \in [Ops -> OpRecords] /\ ops[o] = k /\ \A p \in Ops : p # o => ops[p] = mem.op[p]
    BY <1>0, <2>2
  <2>5. RespCost \in Nat /\ RespCost + HeaderCost \in Nat
    BY BridgeAssumption
  <2>6. CASE Finish(made(RespCost + HeaderCost), o, TRUE)
    <3>1. Heap(made(RespCost + HeaderCost), ops)
      BY <2>3, <2>5
    <3> HIDE DEF made, ops, k
    <3> QED BY <1>0, <2>2, <2>4, <2>6, <3>1, FinishOps
  <2>7. CASE Step([made(RespCost) EXCEPT !.op[o].stage = "discard", !.resp[r].listed = FALSE])
    <3> DEFINE m == made(RespCost)
               m1 == [m EXCEPT !.op[o].stage = "discard", !.resp[r].listed = FALSE]
               k1 == [k EXCEPT !.stage = "discard"]
               ops1 == [ops EXCEPT ![o] = k1]
    <3>1. Heap(m, ops)
      BY <2>3, <2>5
    <3>2. k1 \in OpRecords /\ k1.refs = mem.op[o].refs /\ k1.stage = "discard"
      BY <2>2 DEF OpRecords, Alike, Stages, TaskStages
    <3> HIDE DEF m, ops, k, r
    <3>3. m.resp[r] \in RespTypes
      BY <2>1, <3>1 DEF Heap
    <3>4. [m.resp[r] EXCEPT !.listed = FALSE] \in RespTypes
      BY <3>3 DEF RespTypes
    <3>5. /\ IsHeap(m1) /\ m1.op = [m.op EXCEPT ![o].stage = "discard"]
          /\ m1.resp = [m.resp EXCEPT ![r].listed = FALSE]
      BY <3>1 DEF Heap, IsHeap
    <3>6. [m.op EXCEPT ![o].stage = "discard"] = ops1
      BY <2>4, <3>1 DEF Heap
    <3>7. Heap(m1, ops1)
      <4>1. m1.resp = [m.resp EXCEPT ![r] = [m.resp[r] EXCEPT !.listed = FALSE]]
        BY <2>1, <3>1, <3>5 DEF Heap
      <4> HIDE DEF m1, ops1
      <4>2. m1.resp \in [Resps -> RespTypes]
        BY <2>1, <3>1, <3>4, <4>1 DEF Heap
      <4>3. m1.op = ops1
        BY <3>5, <3>6
      <4> QED BY <3>5, <4>2, <4>3 DEF Heap
    <3> HIDE DEF k1
    <3>8. /\ ops1 \in [Ops -> OpRecords]
          /\ \A p \in Ops : /\ ops1[p].refs = mem.op[p].refs
                            /\ \/ ops1[p].stage = mem.op[p].stage
                               \/ ops1[p].stage \in TaskStages /\ mem.op[p].stage \in TaskStages
      BY <1>0, <2>4, <3>2 DEF TaskStages
    <3>9. Step(m1)
      BY <2>7 DEF m, r
    <3> HIDE DEF m1, ops1
    <3> QED BY <3>7, <3>8, <3>9, StepOps
  <2>8. \/ Finish(made(RespCost + HeaderCost), o, TRUE)
        \/ Step([made(RespCost) EXCEPT !.op[o].stage = "discard", !.resp[r].listed = FALSE])
        \/ Step(Go(o, "discard"))
    BY DEF task_handles
  <2> QED BY <1>1, <2>6, <2>7, <2>8
<1>3. CASE FreeResps = {}
  BY <1>1, <1>3 DEF task_handles
<1> QED BY <1>2, <1>3

\* Response::read returned bytes, and they are the event when the chunk was made.
LEMMA ReadsOps ==
  ASSUME OpsInv, NEW o \in Ops, task_reads(o)
  PROVE  OpsInv'
<1> DEFINE i == mem.op[o].inst
           r == mem.op[o].resp
           c == Slot(FreeChunks)
           q == [mem.resp[r] EXCEPT !.pos = @ + 1]
           m == [mem EXCEPT !.resp[r].pos = @ + 1]
           m1 == charge(m, i, ChunkCost)
           m2 == chunk_made(m, i, r, c, o)
           k == [mem.op[o] EXCEPT !.event = c]
           ops == [mem.op EXCEPT ![o] = k]
<1>0. /\ mem.op[o].stage \in TaskStages /\ mem.op[o] \in OpRecords
      /\ mem.op \in [Ops -> OpRecords] /\ Heap(mem, mem.op)
  BY OpsFacts DEF task_reads, TaskStages
<1>1. CASE Finish(mem, o, TRUE)
  BY <1>0, <1>1, EndOps
<1>2. Heap(m, mem.op)
  <2>1. r \in Resps => q \in RespTypes
    <3> SUFFICES ASSUME r \in Resps PROVE q \in RespTypes
      OBVIOUS
    <3>1. mem.resp[r] \in RespTypes
      BY <1>0 DEF Heap
    <3> HIDE DEF r
    <3> QED BY <3>1 DEF RespTypes
  <2>2. m = [mem EXCEPT !.resp[r] = q]
    OBVIOUS
  <2> HIDE DEF q, r, m
  <2> QED BY <2>1, <2>2, OtherHeap
<1>3. CASE Finish(m, o, FALSE)
  <2> HIDE DEF m
  <2> QED BY <1>0, <1>2, <1>3, EndOps
<1>4. CASE FreeChunks # {} /\ Finish(m2, o, TRUE)
  <2>1. c \in Chunks
    BY <1>4, SlotIn DEF FreeChunks
  <2>2. k \in OpRecords /\ Alike(k, mem.op[o])
    BY <1>0, <2>1 DEF OpRecords, Alike
  <2>3. Heap(m1, mem.op)
    <3> HIDE DEF m
    <3> QED BY <1>2, InstOnly DEF Heap
  <2>4. Heap(m2, ops)
    <3> DEFINE f == [m1.resp EXCEPT ![r] = WithChunk(@)]
    <3>0. m2 = [m1 EXCEPT !.chunk[c] = [inst |-> i, resp |-> r], !.inst[i].refs = @ + 1,
                          !.resp[r] = WithChunk(@), !.op[o].event = c]
      BY DEF chunk_made
    <3> HIDE DEF m1, m2, c, i, r
    <3>1. IsHeap(m2) /\ m2.op = [m1.op EXCEPT ![o].event = c] /\ m2.resp = f
      BY <2>3, <3>0 DEF Heap, IsHeap
    <3>2. f \in [Resps -> RespTypes]
      <4>1. CASE r \in Resps
        <5> DEFINE x == m1.resp[r]
                   y == WithChunk(x)
        <5>1. x \in RespTypes
          BY <2>3, <4>1 DEF Heap
        <5>2. y \in RespTypes
          <6> HIDE DEF x
          <6>1. x.refs + 1 \in Int /\ x.chunks + 1 \in Int /\ x.sent + 1 \in Nat
            BY <5>1 DEF RespTypes
          <6>2. \A a, b \in Int, d \in Nat :
                  [x EXCEPT !.refs = a, !.chunks = b, !.sent = d] \in RespTypes
            BY <5>1 DEF RespTypes
          <6>3. y = [x EXCEPT !.refs = x.refs + 1, !.chunks = x.chunks + 1, !.sent = x.sent + 1]
            BY <5>1 DEF RespTypes, WithChunk
          <6>4. [x EXCEPT !.refs = x.refs + 1, !.chunks = x.chunks + 1, !.sent = x.sent + 1] \in RespTypes
            BY <6>1, <6>2, Zenon
          <6> HIDE DEF y
          <6> QED BY <6>3, <6>4
        <5>3. f = [m1.resp EXCEPT ![r] = y]
          BY <2>3, <4>1 DEF Heap
        <5> HIDE DEF y, f
        <5> QED BY <2>3, <4>1, <5>2, <5>3 DEF Heap
      <4>2. CASE r \notin Resps
        BY <2>3, <4>2 DEF Heap
      <4> QED BY <4>1, <4>2
    <3> HIDE DEF f, m2
    <3> QED BY <2>3, <3>1, <3>2 DEF Heap
  <2>5. ops \in [Ops -> OpRecords] /\ ops[o] = k /\ \A p \in Ops : p # o => ops[p] = mem.op[p]
    BY <1>0, <2>2
  <2> HIDE DEF m2, ops, k
  <2> QED BY <1>0, <1>4, <2>2, <2>4, <2>5, FinishOps
<1>5. \/ Finish(mem, o, TRUE) \/ Finish(m, o, FALSE)
      \/ FreeChunks # {} /\ Finish(m2, o, TRUE)
  BY DEF task_reads
<1> QED BY <1>1, <1>3, <1>4, <1>5

\* The other steps of tasks.
LEMMA TaskOps ==
  ASSUME OpsInv, NEW o \in Ops, Task(o)
  PROVE  OpsInv'
<1>0. Heap(mem, mem.op) /\ mem.op \in [Ops -> OpRecords]
  BY OpsFacts
<1>1. ASSUME NEW ok \in BOOLEAN, mem.op[o].stage \in TaskStages, Finish(mem, o, ok) PROVE OpsInv'
  BY <1>0, <1>1, EndOps
<1>2. ASSUME NEW i, NEW ok \in BOOLEAN, mem.op[o].stage \in TaskStages,
             Finish([mem EXCEPT !.inst[i].up = TRUE], o, ok)
      PROVE  OpsInv'
  <2>1. Heap([mem EXCEPT !.inst[i].up = TRUE], mem.op)
    BY OtherHeap
  <2> QED BY <1>2, <2>1, EndOps
<1>3. CASE task_opens(o)
  <2>1. mem.op[o].stage \in TaskStages
    BY <1>3 DEF task_opens, TaskStages
  <2> QED BY <1>1, <1>2, <1>3, <2>1 DEF task_opens
<1>4. CASE task_serves(o)
  <2>1. mem.op[o].stage \in TaskStages
    BY <1>4 DEF task_serves, TaskStages
  <2> QED BY <1>2, <1>4, <2>1 DEF task_serves
<1>5. CASE task_nexts(o) \/ task_discards(o)
  <2>1. mem.op[o].stage \in TaskStages
    BY <1>5 DEF task_nexts, task_discards, TaskStages
  <2> QED BY <1>1, <1>5, <2>1 DEF task_nexts, task_discards
<1>6. CASE task_awaits_chunk(o)
  <2>1. mem.op[o].stage \in TaskStages
    BY <1>6 DEF task_awaits_chunk, TaskStages
  <2>2. CASE Step(mem)
    BY <1>0, <2>2, StepOps
  <2>3. CASE Step(Go(o, "running"))
    BY <2>1, <2>3, GoOps DEF TaskStages
  <2> QED BY <1>1, <1>6, <2>1, <2>2, <2>3 DEF task_awaits_chunk
<1>7. CASE task_raises(o)
  <2>1. mem.op[o].stage \in TaskStages
    BY <1>7 DEF task_raises, TaskStages
  <2>2. CASE Finish([mem EXCEPT !.resp[mem.op[o].resp].shut = TRUE], o, FALSE)
    <3> DEFINE r == mem.op[o].resp
               q == [mem.resp[r] EXCEPT !.shut = TRUE]
               m == [mem EXCEPT !.resp[r].shut = TRUE]
    <3>1. r \in Resps => q \in RespTypes
      <4> SUFFICES ASSUME r \in Resps PROVE q \in RespTypes
        OBVIOUS
      <4>1. mem.resp[r] \in RespTypes
        BY <1>0 DEF Heap
      <4> HIDE DEF r
      <4> QED BY <4>1 DEF RespTypes
    <3>2. m = [mem EXCEPT !.resp[r] = q]
      OBVIOUS
    <3>3. Heap(m, mem.op)
      <4> HIDE DEF q, r, m
      <4> QED BY <3>1, <3>2, OtherHeap
    <3>4. Finish(m, o, FALSE)
      BY <2>2
    <3> HIDE DEF m
    <3> QED BY <2>1, <3>3, <3>4, EndOps
  <2> QED BY <1>1, <1>7, <2>1, <2>2 DEF task_raises
<1>8. CASE task_drops(o)
  <2>1. mem.op[o].stage \in TaskStages
    BY <1>8 DEF task_drops, TaskStages
  <2> DEFINE r == mem.op[o].resp
             q == [mem.resp[r] EXCEPT !.listed = FALSE, !.shut = TRUE]
             m == [mem EXCEPT !.resp[r].listed = FALSE, !.resp[r].shut = TRUE]
  <2>2. r \in Resps => q \in RespTypes
    <3> SUFFICES ASSUME r \in Resps PROVE q \in RespTypes
      OBVIOUS
    <3>1. mem.resp[r] \in RespTypes
      BY <1>0 DEF Heap
    <3> HIDE DEF r
    <3> QED BY <3>1 DEF RespTypes
  <2>3. /\ IsHeap(m) /\ m.op = mem.op
        /\ m.resp = [mem.resp EXCEPT ![r].listed = FALSE, ![r].shut = TRUE]
    BY <1>0 DEF Heap, IsHeap
  <2>4. m.resp \in [Resps -> RespTypes]
    <3>1. CASE r \in Resps
      <4>1. m.resp = [mem.resp EXCEPT ![r] = q]
        BY <1>0, <2>3, <3>1, Zenon DEF Heap
      <4> HIDE DEF q, m, r
      <4> QED BY <1>0, <2>2, <3>1, <4>1 DEF Heap
    <3>2. CASE r \notin Resps
      BY <1>0, <2>3, <3>2 DEF Heap
    <3> QED BY <3>1, <3>2
  <2>5. Finish(m, o, TRUE)
    BY <1>8 DEF task_drops
  <2> HIDE DEF m
  <2>6. Heap(m, mem.op)
    BY <2>3, <2>4, Zenon DEF Heap
  <2> QED BY <2>1, <2>5, <2>6, EndOps
<1>9. CASE task_stops(o)
  BY <1>9, GoOps DEF task_stops, TaskStages
<1>10. CASE task_closes(o)
  <2>1. mem.op[o].stage \in TaskStages
    BY <1>10, Zenon DEF task_closes, TaskStages
  <2> DEFINE i == mem.op[o].inst
             f == [r \in Resps |-> IF mem.resp[r].inst = i
                                   THEN [mem.resp[r] EXCEPT !.listed = FALSE, !.shut = TRUE]
                                   ELSE mem.resp[r]]
             m == [mem EXCEPT !.resp = f]
  <2>2. CASE Step(mem)
    BY <1>0, <2>2, StepOps
  <2>3. CASE Finish(m, o, TRUE)
    <3>1. ASSUME NEW r \in Resps
          PROVE  /\ mem.resp[r] \in RespTypes
                 /\ [mem.resp[r] EXCEPT !.listed = FALSE, !.shut = TRUE] \in RespTypes
      <4>1. mem.resp[r] \in RespTypes
        BY <1>0 DEF Heap
      <4> QED BY <4>1 DEF RespTypes
    <3>2. f \in [Resps -> RespTypes]
      BY <3>1, Zenon
    <3> HIDE DEF f
    <3>3. Heap(m, mem.op)
      BY <1>0, <3>2 DEF Heap, IsHeap
    <3> HIDE DEF m
    <3> QED BY <2>1, <2>3, <3>3, EndOps
  <2> QED BY <1>10, <2>2, <2>3, Zenon DEF task_closes
<1> QED BY <1>3, <1>4, <1>5, <1>6, <1>7, <1>8, <1>9, <1>10, StartsOps, HandlesOps, ReadsOps DEF Task

-----------------------------------------------------------------------------
(* The notifier                                                             *)

\* A notice becomes a callback, and its event the host's.
LEMMA CallsOps ==
  ASSUME OpsInv, notify_calls
  PROVE  OpsInv'
<1>0. /\ mem.op \in [Ops -> OpRecords] /\ commands \in Seq(Ops) /\ notices \in Seq(Ops)
      /\ Holds(commands, mem.op, "queued") /\ Holds(notices, mem.op, "notice") /\ notices # <<>>
  BY DEF OpsInv, OpTypes, Queues, notify_calls
<1>1. PICK o \in Ops : o = Head(notices) /\ mem.op[o].stage = "notice" /\ mem.op[o] \in OpRecords
  <2>1. 1 \in DOMAIN notices /\ Head(notices) = notices[1] /\ notices[1] \in Ops
    BY <1>0
  <2> QED BY <1>0, <2>1 DEF Holds
<1> DEFINE k == [mem.op[o] EXCEPT !.stage = "callback", !.event = None]
<1>2. /\ notices' = Tail(notices) /\ notifier' = "callback" /\ noteOp' = o
      /\ mem' = [mem EXCEPT !.op[o].stage = "callback", !.op[o].event = None]
      /\ owned' = owned \cup Given(o) /\ UNCHANGED <<activeOps, commands, call>>
  BY <1>1 DEF notify_calls, counters
<1>3. k \in OpRecords /\ k.stage = "callback" /\ k.refs = mem.op[o].refs
  BY <1>1 DEF OpRecords, Stages, DoneStages
<1>4. IsHeap(mem') /\ mem'.op = [mem.op EXCEPT ![o] = k] /\ mem'.resp = mem.resp
  BY <1>0, <1>2, OpsFacts DEF Heap, IsHeap
<1> HIDE DEF k
<1>5. Given(o) \subseteq Insts \cup Resps \cup Chunks
  BY <1>1 DEF Given, OpRecords
<1>6. \A p \in Ops : p \in owned' <=> p \in owned
  BY <1>2, <1>5, BridgeAssumption
<1>7. mem'.op \in [Ops -> OpRecords] /\ mem'.op[o] = k /\ \A p \in Ops : p # o => mem'.op[p] = mem.op[p]
  BY <1>0, <1>3, <1>4
<1>8. NextTypes
  BY <1>2, <1>4, <1>5, <1>7, OpsFacts DEF NextTypes, Heap, Handles
<1>9. SameHolders
  BY <1>2, <1>6, OpsFacts DEF SameHolders
<1>10. OpTypes'
  <2>1. notices' \in Seq(Ops)
    BY <1>0, <1>2
  <2> QED BY <1>0, <1>2, <1>8, <2>1 DEF OpTypes, NextTypes
<1>11. \A p \in Ops : mem.op[p].stage # "callback"
  <2>1. noteOp = None /\ None \notin Ops
    BY BridgeAssumption DEF notify_calls, OpsInv, Queues, Handles
  <2> QED BY <2>1 DEF OpsInv, Queues
<1>12. Queues'
  <2>1. Holds(commands', mem'.op, "queued")
    <3>1. \A p \in Ops : mem'.op[p].stage = "queued" <=> mem.op[p].stage = "queued"
      BY <1>1, <1>3, <1>7
    <3> QED BY <1>0, <1>2, <3>1, QueueSame
  <2>2. Holds(notices', mem'.op, "notice")
    <3> DEFINE ops == mem.op
               next == mem'.op
               q == notices
    <3>1. /\ q \in Seq(Ops) /\ Holds(q, ops, "notice") /\ q # <<>>
          /\ next[Head(q)].stage # "notice" /\ \A p \in Ops : p # Head(q) => next[p] = ops[p]
      <4>1. next[Head(q)].stage = "callback"
        BY <1>1, <1>3, <1>7
      <4>2. \A p \in Ops : p # Head(q) => next[p] = ops[p]
        BY <1>1, <1>7
      <4> QED BY <1>0, <4>1, <4>2
    <3> HIDE DEF ops, next, q
    <3>2. Holds(Tail(q), next, "notice")
      BY <3>1, QueueTail
    <3> QED BY <1>2, <3>2 DEF next, q
  <2>3. \A p \in Ops : mem'.op[p].stage = "callback" <=> p = o
    BY <1>3, <1>7, <1>11
  <2>4. o # None
    BY BridgeAssumption DEF Handles
  <2> QED BY <1>2, <2>1, <2>2, <2>3, <2>4 DEF Queues
<1>13. \A p \in Ops : InPipe(p)' <=> InPipe(p)
  BY <1>1, <1>3, <1>7 DEF InPipe
<1>14. HostRefs' /\ \A p \in Ops : HostHolds(p)' <=> HostHolds(p)
  BY <1>8, <1>9, HoldersKept
<1>15. OpRefs'
  <2>1. SUFFICES ASSUME NEW p \in Ops PROVE OpExact(p)'
    BY DEF OpRefs
  <2>2. OpExact(p) /\ (HostHolds(p)' <=> HostHolds(p)) /\ (InPipe(p)' <=> InPipe(p))
    BY <1>13, <1>14 DEF OpsInv, OpRefs
  <2>3. /\ mem'.op[p].refs = mem.op[p].refs
        /\ mem'.op[p].stage = "none" <=> mem.op[p].stage = "none"
        /\ mem'.op[p].stage = "returned" <=> mem.op[p].stage = "returned"
    BY <1>1, <1>3, <1>7
  <2> QED BY <2>2, <2>3 DEF OpExact, One
<1>16. Piped' = Piped
  BY <1>13 DEF Piped
<1>17. OpCounts'
  BY <1>2, <1>16 DEF OpsInv, OpCounts
<1> QED BY <1>10, <1>12, <1>14, <1>15, <1>17 DEF OpsInv

\* A callback has returned: the pipeline gives its reference back.
LEMMA ReturnsOps ==
  ASSUME OpsInv, notify_returns
  PROVE  OpsInv'
<1>0. /\ mem.op \in [Ops -> OpRecords] /\ commands \in Seq(Ops) /\ notices \in Seq(Ops)
      /\ Holds(commands, mem.op, "queued") /\ Holds(notices, mem.op, "notice")
      /\ Heap(mem, mem.op)
  BY OpsFacts DEF OpsInv, OpTypes, Queues
<1>1. PICK o \in Ops : o = noteOp /\ mem.op[o].stage = "callback" /\ mem.op[o] \in OpRecords
  BY <1>0 DEF notify_returns, OpsInv, OpTypes, Queues
<1> DEFINE i == mem.op[o].inst
           m == [mem EXCEPT !.inst[i].notifications = @ - 1, !.op[o].stage = "returned"]
           k == [mem.op[o] EXCEPT !.stage = "returned"]
           ops == [mem.op EXCEPT ![o] = k]
<1>2. /\ mem' = op_drop(m, o) /\ activeOps' = activeOps - 1 /\ notifier' = "loop" /\ noteOp' = None
      /\ UNCHANGED <<commands, notices, call, owned>>
  BY <1>1 DEF notify_returns, queues, hostVars
<1>3. k \in OpRecords /\ k.stage = "returned" /\ k.refs = mem.op[o].refs
  BY <1>1 DEF OpRecords, Stages, DoneStages
<1>4. Heap(m, ops)
  <2> HIDE DEF i
  <2> QED BY <1>0 DEF Heap, IsHeap
<1> HIDE DEF m, k
<1>5. Heap(mem', Fewer(ops, o))
  BY <1>2, <1>4, OpDrop
<1>6. ops \in [Ops -> OpRecords] /\ ops[o] = k /\ \A p \in Ops : p # o => ops[p] = mem.op[p]
  BY <1>0, <1>3
<1> HIDE DEF ops
<1>7. OpExact(o) /\ mem.op[o].refs = One(HostHolds(o)) + 1
  BY <1>1 DEF OpsInv, OpRefs, OpExact, InPipe, One
<1>8. Fewer(ops, o) \in [Ops -> OpRecords]
  <2>1. ops[o].refs > 0
    BY <1>3, <1>6, <1>7 DEF One
  <2> QED BY <1>6, <2>1, FewerTypes
<1>9. mem'.op = Fewer(ops, o) /\ \A p \in Ops : p # o => mem'.op[p] = mem.op[p]
  BY <1>5, <1>6 DEF Heap, Fewer
<1>10. IF HostHolds(o) THEN mem'.op[o].stage = "returned" /\ mem'.op[o].refs = 1
                       ELSE mem'.op[o].stage = "none" /\ mem'.op[o].refs = 0
  <2>1. CASE HostHolds(o)
    <3>1. ops[o].refs = 2
      BY <1>3, <1>6, <1>7, <2>1 DEF One
    <3>2. mem'.op[o] = [ops[o] EXCEPT !.refs = @ - 1]
      BY <1>6, <1>9, <3>1 DEF Fewer
    <3> QED BY <1>3, <1>6, <2>1, <3>1, <3>2 DEF OpRecords
  <2>2. CASE ~HostHolds(o)
    <3>1. ops[o].refs = 1
      BY <1>3, <1>6, <1>7, <2>2 DEF One
    <3>2. mem'.op[o] = NoOp
      BY <1>6, <1>9, <3>1 DEF Fewer
    <3> QED BY <2>2, <3>2 DEF NoOp
  <2> QED BY <2>1, <2>2
<1>11. NextTypes
  BY <1>2, <1>5, <1>8, OpsFacts DEF NextTypes, Heap
<1>12. SameHolders
  BY <1>2, OpsFacts DEF SameHolders
<1>13. HostRefs' /\ \A p \in Ops : HostHolds(p)' <=> HostHolds(p)
  BY <1>11, <1>12, HoldersKept
<1>14. OpTypes'
  BY <1>0, <1>2, <1>11 DEF OpTypes, NextTypes
<1>15. Queues'
  <2>1. \A p \in Ops : \A s \in {"queued", "notice"} :
          mem'.op[p].stage = s <=> mem.op[p].stage = s
    BY <1>1, <1>9, <1>10
  <2>2. Holds(commands', mem'.op, "queued") /\ Holds(notices', mem'.op, "notice")
    BY <1>0, <1>2, <2>1, QueueSame
  <2>3. \A p \in Ops : mem'.op[p].stage # "callback" /\ p # None
    BY <1>1, <1>9, <1>10, BridgeAssumption DEF OpsInv, Queues, Handles
  <2> QED BY <1>2, <2>2, <2>3 DEF Queues
<1>16. OpRefs'
  <2>1. OpExact(o)'
    BY <1>10, <1>13 DEF OpExact, InPipe, One
  <2>2. ASSUME NEW p \in Ops, p # o PROVE OpExact(p)'
    <3>1. OpExact(p) /\ mem'.op[p] = mem.op[p] /\ (HostHolds(p)' <=> HostHolds(p))
      BY <1>9, <1>13, <2>2 DEF OpsInv, OpRefs
    <3> QED BY <3>1 DEF OpExact, InPipe, One
  <2> QED BY <2>1, <2>2 DEF OpRefs
<1>17. OpCounts'
  <2>1. InPipe(o) /\ ~InPipe(o)'
    BY <1>1, <1>10 DEF InPipe
  <2>2. \A p \in Ops : p # o => mem'.op[p].stage = mem.op[p].stage
    BY <1>9
  <2>3. /\ IsFiniteSet(Piped') /\ Cardinality(Piped) \in Nat
        /\ Cardinality(Piped') = (Cardinality(Piped) - 1) + 0
    BY <2>1, <2>2, OnePiped DEF One
  <2> QED BY <1>2, <2>3 DEF OpsInv, OpCounts
<1> QED BY <1>13, <1>14, <1>15, <1>16, <1>17 DEF OpsInv

\* Every step of the notifier.
LEMMA NotifyOps ==
  ASSUME OpsInv, Notify
  PROVE  OpsInv'
<1>1. CASE notify_waits \/ notify_leaves \/ notify_joins \/ notify_exits
  <2>1. /\ UNCHANGED <<mem, owned, activeOps, commands, notices, noteOp, call>>
        /\ notifier' = "callback" <=> notifier = "callback"
    BY <1>1 DEF notify_waits, notify_leaves, notify_joins, notify_exits, heap, counters, queues,
                noteVars, hostVars
  <2> QED BY <2>1, CallsMove, OpsFacts
<1> QED BY <1>1, CallsOps, ReturnsOps DEF Notify

-----------------------------------------------------------------------------
(* The owner                                                                *)

\* Everything that is queued is spawned.
LEMMA PopsOps ==
  ASSUME OpsInv, owner_pops
  PROVE  OpsInv'
<1> DEFINE k(p) == [mem.op[p] EXCEPT !.stage = "spawned"]
           ops == [p \in Ops |-> IF mem.op[p].stage = "queued" THEN k(p) ELSE mem.op[p]]
<1>0. /\ mem.op \in [Ops -> OpRecords] /\ notices \in Seq(Ops)
      /\ Holds(notices, mem.op, "notice") /\ Heap(mem, mem.op)
  BY OpsFacts DEF OpsInv, OpTypes, Queues
<1>1. mem' = [mem EXCEPT !.op = ops] /\ commands' = <<>>
      /\ UNCHANGED <<activeOps, notices, noteOp, notifier, call, owned>>
  BY DEF owner_pops, counters, noteVars, hostVars
<1>2. ASSUME NEW p \in Ops
      PROVE  /\ ops[p] \in OpRecords /\ ops[p].refs = mem.op[p].refs
             /\ ops[p].stage = IF mem.op[p].stage = "queued" THEN "spawned" ELSE mem.op[p].stage
  <2>1. mem.op[p] \in OpRecords
    BY <1>0
  <2>2. k(p) \in OpRecords /\ k(p).refs = mem.op[p].refs /\ k(p).stage = "spawned"
    BY <2>1 DEF OpRecords, Stages, TaskStages
  <2> HIDE DEF k
  <2> QED BY <2>1, <2>2
<1>3. ops \in [Ops -> OpRecords]
  BY <1>2
<1> HIDE DEF ops
<1>4. IsHeap(mem') /\ mem'.op = ops /\ mem'.resp = mem.resp
  BY <1>0, <1>1 DEF Heap, IsHeap
<1>5. NextTypes /\ SameHolders
  BY <1>0, <1>1, <1>3, <1>4, OpsFacts DEF NextTypes, SameHolders, Heap
<1>6. HostRefs' /\ \A p \in Ops : HostHolds(p)' <=> HostHolds(p)
  BY <1>5, HoldersKept
<1>7. OpTypes'
  <2>1. commands' \in Seq(Ops)
    BY <1>1
  <2> QED BY <1>1, <1>5, <2>1 DEF OpsInv, OpTypes, NextTypes
<1>8. /\ \A p \in Ops : mem'.op[p].stage # "queued"
      /\ \A p \in Ops : \A s \in {"none", "notice", "callback", "returned"} :
           mem'.op[p].stage = s <=> mem.op[p].stage = s
  BY <1>2, <1>4
<1>9. Queues'
  <2>1. Holds(commands', mem'.op, "queued")
    BY <1>1, <1>8 DEF Holds
  <2>2. Holds(notices', mem'.op, "notice")
    BY <1>0, <1>1, <1>8, QueueSame
  <2> QED BY <1>1, <1>8, <2>1, <2>2 DEF OpsInv, Queues
<1>10. \A p \in Ops : InPipe(p)' <=> InPipe(p)
  BY <1>8 DEF InPipe
<1>11. OpRefs'
  <2>1. SUFFICES ASSUME NEW p \in Ops PROVE OpExact(p)'
    BY DEF OpRefs
  <2>2. OpExact(p) /\ (HostHolds(p)' <=> HostHolds(p)) /\ (InPipe(p)' <=> InPipe(p))
    BY <1>6, <1>10 DEF OpsInv, OpRefs
  <2>3. mem'.op[p].refs = mem.op[p].refs
    BY <1>2, <1>4
  <2> QED BY <1>8, <2>2, <2>3 DEF OpExact, One
<1>12. Piped' = Piped
  BY <1>10 DEF Piped
<1>13. OpCounts'
  BY <1>1, <1>12 DEF OpsInv, OpCounts
<1> QED BY <1>6, <1>7, <1>9, <1>11, <1>13 DEF OpsInv

\* Tasks are cancelled, and nothing else happens to operations.
LEMMA CancelsOps ==
  ASSUME OpsInv, NEW S, mem' = Cancel(mem, S),
         UNCHANGED <<activeOps, commands, notices, noteOp, notifier, call, owned>>
  PROVE  OpsInv'
<1>1. PICK next \in [Ops -> OpRecords] :
        /\ Heap(mem', next)
        /\ \A p \in Ops : next[p].refs = mem.op[p].refs /\ next[p].stage = mem.op[p].stage
  BY CancelHeap, OpsFacts
<1>2. NextTypes /\ SameHolders
  BY <1>1, OpsFacts DEF NextTypes, SameHolders, Heap
<1>3. mem'.op = next
  BY <1>1 DEF Heap
<1> QED BY <1>1, <1>2, <1>3, OpsKept DEF Still

\* A command that nobody will run is answered.
LEMMA FailsOps ==
  ASSUME OpsInv, owner_fails_command
  PROVE  OpsInv'
<1>0. mem.op \in [Ops -> OpRecords] /\ commands \in Seq(Ops) /\ commands # <<>> /\ Heap(mem, mem.op)
  BY OpsFacts DEF OpsInv, OpTypes, owner_fails_command
<1>1. PICK o \in Ops : o = Head(commands)
  BY <1>0
<1>2. /\ mem' = Completed(mem, o, FALSE) /\ notices' = Append(notices, o)
      /\ commands' = Tail(commands) /\ UNCHANGED <<activeOps, noteOp, notifier, call, owned>>
  BY <1>1 DEF owner_fails_command, hs_bridge_complete, noteVars, hostVars
<1>3. PICK k : Told(k, mem.op[o]) /\ Heap(mem', [mem.op EXCEPT ![o] = k])
  BY <1>0, <1>2, Completes
<1>4. mem'.op = [mem.op EXCEPT ![o] = k]
  BY <1>3 DEF Heap
<1>5. mem'.op \in [Ops -> OpRecords]
  BY <1>0, <1>3, <1>4 DEF Told
<1>6. NextTypes
  BY <1>2, <1>3, <1>5, OpsFacts DEF NextTypes, Heap
<1>7. SameHolders
  BY <1>2, OpsFacts DEF SameHolders
<1> QED BY <1>0, <1>1, <1>2, <1>3, <1>4, <1>6, <1>7, OpTold

\* The instances that are left end.
LEMMA RetiresOps ==
  ASSUME OpsInv, owner_retires
  PROVE  OpsInv'
<1>1. /\ mem' = Abandoned(mem, live)
      /\ UNCHANGED <<activeOps, commands, notices, noteOp, notifier, call, owned>>
  BY DEF owner_retires, queues, noteVars, hostVars
<1>2. Heap(mem', mem.op)
  BY <1>1, InstOnly, OpsFacts DEF Heap
<1>3. NextTypes /\ SameHolders
  BY <1>1, <1>2, OpsFacts DEF NextTypes, SameHolders, Heap
<1> QED BY <1>1, <1>2, <1>3, OpsKept DEF Still, Heap

\* Every step of the owner outside its tasks.
LEMMA LoopOps ==
  ASSUME OpsInv, Loop \/ Fault
  PROVE  OpsInv'
<1>1. CASE \/ owner_attaches \/ owner_reads \/ owner_acks \/ owner_unwinds \/ owner_stops
           \/ owner_exits \/ owner_boot_fails
  <2>1. UNCHANGED <<mem, owned, activeOps, commands, notices, noteOp, notifier, call>>
    BY <1>1 DEF owner_attaches, owner_reads, owner_acks, owner_unwinds, owner_stops, owner_exits,
                owner_boot_fails, heap, counters, queues, noteVars, hostVars
  <2> QED BY <2>1, CallsMove, OpsFacts
<1>2. CASE owner_idles
  <2> DEFINE S == {o \in Tasks : mem.op[o].kind \in Business /\ Cancelled(mem, o)}
  <2>1. /\ mem' = Cancel(mem, S)
        /\ UNCHANGED <<activeOps, commands, notices, noteOp, notifier, call, owned>>
    BY <1>2 DEF owner_idles, counters, queues, noteVars, hostVars
  <2> HIDE DEF S
  <2> QED BY <2>1, CancelsOps
<1>3. CASE owner_loop_fails
  BY <1>3, CancelsOps DEF owner_loop_fails, counters, queues, noteVars, hostVars
<1> QED BY <1>1, <1>2, <1>3, PopsOps, FailsOps, RetiresOps DEF Loop, Fault

\* A server's scope ends.
LEMMA ServerOps ==
  ASSUME OpsInv, NEW i \in Insts, server_ends(i)
  PROVE  OpsInv'
<1> DEFINE m == [mem EXCEPT !.inst[i].up = FALSE]
<1>1. Heap(m, mem.op) /\ mem.op \in [Ops -> OpRecords]
  BY OtherHeap, OpsFacts
<1>2. Step(m)
  BY DEF server_ends
<1> HIDE DEF m
<1> QED BY <1>1, <1>2, StepOps

-----------------------------------------------------------------------------
(* The theorems                                                             *)

\* Nothing is in use at first.
LEMMA InitOps == Init => OpsInv
<1> SUFFICES ASSUME Init PROVE OpsInv
  OBVIOUS
<1>1. NoOp \in OpRecords /\ NoResp \in RespTypes /\ NoOp.stage = "none" /\ NoOp.refs = 0
  BY DEF NoOp, NoResp, OpRecords, RespTypes, Kinds, Stages
<1>2. mem.op = [o \in Ops |-> NoOp] /\ mem.resp = [r \in Resps |-> NoResp] /\ IsHeap(mem)
  BY DEF Init, IsHeap
<1>3. OpTypes
  BY <1>1, <1>2 DEF Init, OpTypes
<1>4. Queues
  <2>1. None \notin Ops
    BY BridgeAssumption DEF Handles
  <2> QED BY <1>1, <1>2, <2>1 DEF Init, Queues, Holds
<1>5. \A h \in Hosts : OpHeld(h) = None /\ Subject(call[h])
  BY DEF Init, Idle, OpHeld, HoldAt, Subject
<1>6. HostRefs
  BY <1>5 DEF Init, HostRefs
<1>7. ASSUME NEW o \in Ops PROVE ~HostHolds(o)
  <2>1. o # None
    BY BridgeAssumption DEF Handles
  <2> QED BY <1>5, <2>1, HoldsIs DEF Init
<1>8. OpRefs
  BY <1>1, <1>2, <1>7 DEF OpRefs, OpExact, InPipe, One
<1>9. Piped = {}
  BY <1>1, <1>2 DEF Piped, InPipe
<1>10. OpCounts
  BY <1>9, FS_EmptySet DEF OpCounts, Init
<1> QED BY <1>3, <1>4, <1>6, <1>8, <1>10 DEF OpsInv

\* Every accepted operation is in one place of the pipeline, and is held by the pipeline and by
\* at most one variable or blocking call of the host, whatever the interleaving of new_op, the
\* pops, hs_bridge_complete, the callbacks and the releases.
THEOREM BridgeOperations == Spec => []OpsInv
<1>1. ASSUME OpsInv, ThreadInv, [Next]_vars PROVE OpsInv'
  <2>1. CASE UNCHANGED vars
    <3>1. UNCHANGED <<mem, owned, activeOps, commands, notices, noteOp, notifier, call>>
      BY <2>1 DEF vars, heap, counters, queues, noteVars, hostVars
    <3> QED BY <3>1, <1>1, CallsMove, OpsFacts
  <2>2. ASSUME NEW t \in Callers, Enter(t) PROVE OpsInv'
    BY <1>1, <2>2, EnterOps
  <2>3. ASSUME NEW h \in Hosts, Resume(h) PROVE OpsInv'
    BY <1>1, <2>3, ResumeOps
  <2>4. ASSUME NEW o \in Ops, Task(o) PROVE OpsInv'
    BY <1>1, <2>4, TaskOps
  <2>5. ASSUME NEW i \in Insts, server_ends(i) PROVE OpsInv'
    BY <1>1, <2>5, ServerOps
  <2> QED BY <1>1, <2>1, <2>2, <2>3, <2>4, <2>5, NotifyOps, LoopOps DEF Next
<1>2. Spec => []ThreadInv
  BY BridgeThreads
<1>3. ThreadInv /\ OpsInv /\ [Next]_vars => OpsInv'
  BY <1>1
<1> QED BY <1>2, <1>3, InitOps, PTL DEF Spec

\* OpsExact of the run `recovery`: each operation once in the commands, in a task, once in the
\* notices or in the callback; op_drop frees it when both the pipeline and the host have let
\* go; active_ops counts what is under way.
THEOREM BridgeOpsExact == Spec => []OpsExact
<1>1. OpsInv => OpsExact
  <2> SUFFICES ASSUME OpsInv PROVE OpsExact
    OBVIOUS
  <2>1. ASSUME NEW q \in Seq(Ops), NEW stage, Holds(q, mem.op, stage)
        PROVE  IsInjective(q) /\ Range(q) = {o \in Ops : mem.op[o].stage = stage}
    <3>1. \A k \in DOMAIN q : q[k] \in Ops
      OBVIOUS
    <3>2. Range(q) = {q[k] : k \in DOMAIN q}
      BY DEF Range
    <3> QED BY <2>1, <3>1, <3>2 DEF Holds, IsInjective
  <2>2. /\ IsInjective(commands) /\ Range(commands) = {o \in Ops : mem.op[o].stage = "queued"}
        /\ IsInjective(notices) /\ Range(notices) = {o \in Ops : mem.op[o].stage = "notice"}
    BY <2>1 DEF OpsInv, OpTypes, Queues
  <2>3. {o \in Ops : mem.op[o].stage = "callback"} = {noteOp} \ {None}
    BY BridgeAssumption DEF OpsInv, OpTypes, Queues, Handles
  <2>4. \A o \in Ops : mem.op[o].refs = OpHolders(o)
    BY DEF OpsInv, OpRefs, OpExact, OpHolders, InPipe
  <2>5. {o \in LiveOps : mem.op[o].stage # "returned"} = Piped
    <3>1. ASSUME NEW o \in Ops
          PROVE  InPipe(o) <=> mem.op[o].refs > 0 /\ mem.op[o].stage # "returned"
      BY DEF OpsInv, OpRefs, OpExact, InPipe, One
    <3> QED BY <3>1 DEF LiveOps, Piped
  <2> QED BY <2>2, <2>3, <2>4, <2>5 DEF OpsInv, OpCounts, OpsExact, Count
<1> QED BY <1>1, BridgeOperations, PTL

-----------------------------------------------------------------------------
(* The books: what the counters of a heap count                             *)

\* What an operation, with record k, adds to the counters of instance i,
RefsBy(k, i)   == One(k.inst = i) + One(k.event = i)
ActiveBy(k, i) == One(k.inst = i /\ k.stage \in {"queued"} \cup TaskStages)
NotesBy(k, i)  == One(k.inst = i /\ k.stage \notin {"none", "returned"})
BytesBy(k, i)  == IF k.inst = i THEN k.charge ELSE 0
\* and to those of response r.
HoldsResp(k, r) == One(k.resp = r) + One(k.event = r)
ReadsResp(k, r) == One(k.kind = "read" /\ k.resp = r /\ k.stage \in {"queued"} \cup TaskStages)

OpRefsTo(ops, i)  == SumOf([o \in Ops |-> RefsBy(ops[o], i)], Ops)
OpActive(ops, i)  == SumOf([o \in Ops |-> ActiveBy(ops[o], i)], Ops)
OpNotes(ops, i)   == SumOf([o \in Ops |-> NotesBy(ops[o], i)], Ops)
OpBytes(ops, i)   == SumOf([o \in Ops |-> BytesBy(ops[o], i)], Ops)
OpHolds(ops, r)   == SumOf([o \in Ops |-> HoldsResp(ops[o], r)], Ops)
OpReads(ops, r)   == SumOf([o \in Ops |-> ReadsResp(ops[o], r)], Ops)
RespsOf(resps, i) == SumOf([r \in Resps |-> One(resps[r].inst = i)], Resps)
RespBytes(resps, i) ==
  SumOf([r \in Resps |-> IF resps[r].inst = i THEN resps[r].charge ELSE 0], Resps)
ChunksOf(chunks, i) == SumOf([c \in Chunks |-> One(chunks[c].inst = i)], Chunks)
ChunkBytes(chunks, i) == SumOf([c \in Chunks |-> IF chunks[c].inst = i THEN ChunkCost ELSE 0], Chunks)
ChunksIn(chunks, r) == SumOf([c \in Chunks |-> One(chunks[c].resp = r)], Chunks)
ChargedIn(insts) == SumOf([i \in Insts |-> insts[i].charged], Insts)

ChunkRecords == [inst : Insts \cup {None}, resp : Resps \cup {None}]
\* The counters of instance i in heap m, when the operations are ops and hand[i] references
\* are held elsewhere.
InstBook(m, ops, hand, i) ==
  LET k == m.inst[i]
  IN /\ k.refs = hand[i] + OpRefsTo(ops, i) + RespsOf(m.resp, i) + ChunksOf(m.chunk, i)
     /\ k.active = OpActive(ops, i)
     /\ k.notifications = OpNotes(ops, i)
     /\ k.responses = RespsOf(m.resp, i)
     /\ k.charged = OpBytes(ops, i) + RespBytes(m.resp, i) + ChunkBytes(m.chunk, i)
     /\ k.refs = 0 => k = NoInst
RespBook(m, ops, hand, r) ==
  LET k == m.resp[r]
  IN /\ k.refs = hand[r] + OpHolds(ops, r) + ChunksIn(m.chunk, r)
     /\ k.chunks = ChunksIn(m.chunk, r)
     /\ k.refs = 0 => k = NoResp
     /\ k.refs # 0 => k.inst \in Insts
Books(m, ops, hi, hr) ==
  /\ m.inst \in [Insts -> InstRecords] /\ m.resp \in [Resps -> RespRecords]
  /\ m.chunk \in [Chunks -> ChunkRecords]
  /\ \A i \in Insts : InstBook(m, ops, hi, i)
  /\ \A r \in Resps : RespBook(m, ops, hr, r)
  /\ m.retained = ChargedIn(m.inst)

-----------------------------------------------------------------------------
(* Operations                                                               *)
Creates == {"create", "start"}
Pending == {"queued"} \cup TaskStages

\* What an operation's record looks like.
Shape(k) ==
  /\ k.refs = 0 => k = NoOp
  /\ k.refs # 0 => k.inst \in Insts /\ k.stage # "none"
  /\ k.refs # 0 => (k.resp \in Resps <=> k.kind \in {"read", "drop"})
  /\ k.event \in Insts => k.kind \in Creates /\ k.event = k.inst /\ k.stage = "notice"
  /\ k.event \in Resps => k.kind = "submit" /\ k.stage \in {"running", "discard", "notice"}
  /\ k.event \in Chunks => k.kind = "read" /\ k.stage \in {"running", "notice"}
  /\ k.stage = "reading" => k.kind = "read"
  /\ k.stage = "discard" => k.kind = "submit"
  /\ k.stage \in {"stopping", "draining"} => k.kind = "close"
  /\ k.stage = "running" => k.kind # "close"

\* An event is the only pointer of its kind, and the host does not have it yet.
Events(ops, kept) ==
  /\ \A o, p \in Ops : ops[o].event = ops[p].event /\ ops[o].event # None => o = p
  /\ \A o \in Ops : ops[o].event \notin kept

\* The host gets its reference to an instance when its creation is told; before, nobody else has one.
Granting(k) == k.kind \in Creates /\ k.stage \in Pending \cup {"notice"}
Grants(ops, kept) ==
  /\ \A o \in Ops : Granting(ops[o]) => ops[o].inst \notin kept
  /\ \A o, p \in Ops : Granting(ops[o]) /\ ops[p].inst = ops[o].inst
                         /\ ops[p].kind \in Creates \cup {"close"} => o = p
\* One close for an instance,
CloseOnce(ops) ==
  \A o, p \in Ops : ops[o].kind = "close" /\ ops[p].kind = "close" /\ ops[o].inst = ops[p].inst => o = p
Tidy(ops, kept) ==
  (\A o \in Ops : Shape(ops[o])) /\ Events(ops, kept) /\ Grants(ops, kept) /\ CloseOnce(ops)
\* which is closing.
Closes(m) == \A o \in Ops : m.op[o].kind = "close" => m.inst[m.op[o].inst].closing

\* The live list.
Lives(m, list) ==
  /\ \A i \in Insts : m.inst[i].refs # 0 =>
       /\ i \in list <=> ~m.inst[i].closed
       /\ m.inst[i].closed => m.inst[i].closing
  /\ \A o \in Ops : m.op[o].stage \in Pending /\ m.op[o].kind \in Creates \cup {"close"}
                      => m.op[o].inst \in list

ChunksHeld(m, kept) ==
  \A c \in Chunks : m.chunk[c] # NoChunk <=> (c \in kept \/ \E o \in Ops : m.op[o].event = c)
ChunkShape(k) == k = NoChunk \/ (k.inst \in Insts /\ k.resp \in Resps)

Reads(m) ==
  \A r \in Resps : OpReads(m.op, r) = One(m.resp[r].reading) /\ m.resp[r].chunks <= 1

Idles(m, S) ==
  \A o \in S : /\ m.op[o].stage \in TaskStages \ {"discard"} => m.op[o].event = None
               /\ m.op[o].stage = "running" /\ m.op[o].kind = "read"
                    => m.resp[m.op[o].resp].chunks = 0

Kept == {x \in Insts \cup Resps \cup Chunks : HostHolds(x)}
InHand(list, kept) == [i \in Insts |-> One(i \in list) + One(i \in kept)]
InHandResp(kept) == [r \in Resps |-> One(r \in kept)]

Mem(m, list, kept) ==
  /\ IsHeap(m) /\ m.op \in [Ops -> OpRecords]
  /\ Books(m, m.op, InHand(list, kept), InHandResp(kept))
  /\ Tidy(m.op, kept) /\ Closes(m) /\ Lives(m, list)
  /\ (\A c \in Chunks : ChunkShape(m.chunk[c])) /\ ChunksHeld(m, kept) /\ Reads(m)

InstHeld(h) == IF call[h].at \in HoldAt /\ call[h].on \in Insts THEN call[h].on ELSE None
InstsHeld ==
  /\ \A h \in Hosts : InstHeld(h) \notin owned
  /\ \A g, h \in Hosts : InstHeld(g) = InstHeld(h) /\ InstHeld(g) # None => g = h
Resting ==
  /\ owner \in {"none", "boot", "unwound", "fail", "leaving", "exit"} => Tasks = {}
  /\ owner \in {"none", "leaving", "exit"} => live = {} /\ commands = <<>>
  /\ notifier \in {"none", "join", "leaving", "exit"} => notices = <<>>

\* Memory is finite.
LEMMA FiniteSlots ==
  /\ IsFiniteSet(Insts) /\ IsFiniteSet(Ops) /\ IsFiniteSet(Resps) /\ IsFiniteSet(Chunks)
BY BridgeAssumption, FS_Subset DEF Handles

\* One or none.
LEMMA OneIs == \A b \in BOOLEAN : One(b) \in {0, 1} /\ (One(b) = 0 <=> ~b)
BY DEF One

\* What one operation adds is a natural number.
LEMMA ByNat ==
  ASSUME NEW k \in OpRecords, NEW i
  PROVE  /\ RefsBy(k, i) \in Nat /\ ActiveBy(k, i) \in Nat /\ NotesBy(k, i) \in Nat
         /\ BytesBy(k, i) \in Nat /\ HoldsResp(k, i) \in Nat /\ ReadsResp(k, i) \in Nat
BY DEF RefsBy, ActiveBy, NotesBy, BytesBy, HoldsResp, ReadsResp, One, OpRecords

\* One operation changes: the sums change by what it added, and adds.
LEMMA OpChange ==
  ASSUME NEW ops \in [Ops -> OpRecords], NEW next \in [Ops -> OpRecords], NEW o \in Ops,
         \A p \in Ops : p # o => next[p] = ops[p], NEW i
  PROVE  /\ /\ OpRefsTo(ops, i) \in Nat /\ RefsBy(ops[o], i) <= OpRefsTo(ops, i)
            /\ OpRefsTo(next, i) = (OpRefsTo(ops, i) - RefsBy(ops[o], i)) + RefsBy(next[o], i)
         /\ /\ OpActive(ops, i) \in Nat /\ ActiveBy(ops[o], i) <= OpActive(ops, i)
            /\ OpActive(next, i) = (OpActive(ops, i) - ActiveBy(ops[o], i)) + ActiveBy(next[o], i)
         /\ /\ OpNotes(ops, i) \in Nat /\ NotesBy(ops[o], i) <= OpNotes(ops, i)
            /\ OpNotes(next, i) = (OpNotes(ops, i) - NotesBy(ops[o], i)) + NotesBy(next[o], i)
         /\ /\ OpBytes(ops, i) \in Nat /\ BytesBy(ops[o], i) <= OpBytes(ops, i)
            /\ OpBytes(next, i) = (OpBytes(ops, i) - BytesBy(ops[o], i)) + BytesBy(next[o], i)
         /\ /\ OpHolds(ops, i) \in Nat /\ HoldsResp(ops[o], i) <= OpHolds(ops, i)
            /\ OpHolds(next, i) = (OpHolds(ops, i) - HoldsResp(ops[o], i)) + HoldsResp(next[o], i)
         /\ /\ OpReads(ops, i) \in Nat /\ ReadsResp(ops[o], i) <= OpReads(ops, i)
            /\ OpReads(next, i) = (OpReads(ops, i) - ReadsResp(ops[o], i)) + ReadsResp(next[o], i)
<1>0. /\ IsFiniteSet(Ops)
      /\ \A p \in Ops : ops[p] \in OpRecords /\ next[p] \in OpRecords
  BY FiniteSlots
<1>1. /\ OpRefsTo(ops, i) \in Nat /\ RefsBy(ops[o], i) <= OpRefsTo(ops, i)
      /\ OpRefsTo(next, i) = (OpRefsTo(ops, i) - RefsBy(ops[o], i)) + RefsBy(next[o], i)
  <2> DEFINE f == [p \in Ops |-> RefsBy(ops[p], i)]
             g == [p \in Ops |-> RefsBy(next[p], i)]
  <2>1. /\ \A p \in Ops : f[p] = RefsBy(ops[p], i) /\ g[p] = RefsBy(next[p], i)
        /\ \A p \in Ops : f[p] \in Nat
        /\ \A p \in Ops : g[p] \in Nat
    BY <1>0, ByNat
  <2>2. OpRefsTo(ops, i) = SumOf(f, Ops) /\ OpRefsTo(next, i) = SumOf(g, Ops)
    BY DEF OpRefsTo
  <2> HIDE DEF f, g
  <2>3. \A p \in Ops \ {o} : f[p] = g[p]
    BY <2>1
  <2>4. /\ SumOf(f, Ops) \in Nat /\ f[o] <= SumOf(f, Ops)
        /\ SumOf(g, Ops) = (SumOf(f, Ops) - f[o]) + g[o]
    BY <1>0, <2>1, <2>3, SumChange
  <2> QED BY <2>1, <2>2, <2>4
<1>2. /\ OpActive(ops, i) \in Nat /\ ActiveBy(ops[o], i) <= OpActive(ops, i)
      /\ OpActive(next, i) = (OpActive(ops, i) - ActiveBy(ops[o], i)) + ActiveBy(next[o], i)
  <2> DEFINE f == [p \in Ops |-> ActiveBy(ops[p], i)]
             g == [p \in Ops |-> ActiveBy(next[p], i)]
  <2>1. /\ \A p \in Ops : f[p] = ActiveBy(ops[p], i) /\ g[p] = ActiveBy(next[p], i)
        /\ \A p \in Ops : f[p] \in Nat
        /\ \A p \in Ops : g[p] \in Nat
    BY <1>0, ByNat
  <2>2. OpActive(ops, i) = SumOf(f, Ops) /\ OpActive(next, i) = SumOf(g, Ops)
    BY DEF OpActive
  <2> HIDE DEF f, g
  <2>3. \A p \in Ops \ {o} : f[p] = g[p]
    BY <2>1
  <2>4. /\ SumOf(f, Ops) \in Nat /\ f[o] <= SumOf(f, Ops)
        /\ SumOf(g, Ops) = (SumOf(f, Ops) - f[o]) + g[o]
    BY <1>0, <2>1, <2>3, SumChange
  <2> QED BY <2>1, <2>2, <2>4
<1>3. /\ OpNotes(ops, i) \in Nat /\ NotesBy(ops[o], i) <= OpNotes(ops, i)
      /\ OpNotes(next, i) = (OpNotes(ops, i) - NotesBy(ops[o], i)) + NotesBy(next[o], i)
  <2> DEFINE f == [p \in Ops |-> NotesBy(ops[p], i)]
             g == [p \in Ops |-> NotesBy(next[p], i)]
  <2>1. /\ \A p \in Ops : f[p] = NotesBy(ops[p], i) /\ g[p] = NotesBy(next[p], i)
        /\ \A p \in Ops : f[p] \in Nat
        /\ \A p \in Ops : g[p] \in Nat
    BY <1>0, ByNat
  <2>2. OpNotes(ops, i) = SumOf(f, Ops) /\ OpNotes(next, i) = SumOf(g, Ops)
    BY DEF OpNotes
  <2> HIDE DEF f, g
  <2>3. \A p \in Ops \ {o} : f[p] = g[p]
    BY <2>1
  <2>4. /\ SumOf(f, Ops) \in Nat /\ f[o] <= SumOf(f, Ops)
        /\ SumOf(g, Ops) = (SumOf(f, Ops) - f[o]) + g[o]
    BY <1>0, <2>1, <2>3, SumChange
  <2> QED BY <2>1, <2>2, <2>4
<1>4. /\ OpBytes(ops, i) \in Nat /\ BytesBy(ops[o], i) <= OpBytes(ops, i)
      /\ OpBytes(next, i) = (OpBytes(ops, i) - BytesBy(ops[o], i)) + BytesBy(next[o], i)
  <2> DEFINE f == [p \in Ops |-> BytesBy(ops[p], i)]
             g == [p \in Ops |-> BytesBy(next[p], i)]
  <2>1. /\ \A p \in Ops : f[p] = BytesBy(ops[p], i) /\ g[p] = BytesBy(next[p], i)
        /\ \A p \in Ops : f[p] \in Nat
        /\ \A p \in Ops : g[p] \in Nat
    BY <1>0, ByNat
  <2>2. OpBytes(ops, i) = SumOf(f, Ops) /\ OpBytes(next, i) = SumOf(g, Ops)
    BY DEF OpBytes
  <2> HIDE DEF f, g
  <2>3. \A p \in Ops \ {o} : f[p] = g[p]
    BY <2>1
  <2>4. /\ SumOf(f, Ops) \in Nat /\ f[o] <= SumOf(f, Ops)
        /\ SumOf(g, Ops) = (SumOf(f, Ops) - f[o]) + g[o]
    BY <1>0, <2>1, <2>3, SumChange
  <2> QED BY <2>1, <2>2, <2>4
<1>5. /\ OpHolds(ops, i) \in Nat /\ HoldsResp(ops[o], i) <= OpHolds(ops, i)
      /\ OpHolds(next, i) = (OpHolds(ops, i) - HoldsResp(ops[o], i)) + HoldsResp(next[o], i)
  <2> DEFINE f == [p \in Ops |-> HoldsResp(ops[p], i)]
             g == [p \in Ops |-> HoldsResp(next[p], i)]
  <2>1. /\ \A p \in Ops : f[p] = HoldsResp(ops[p], i) /\ g[p] = HoldsResp(next[p], i)
        /\ \A p \in Ops : f[p] \in Nat
        /\ \A p \in Ops : g[p] \in Nat
    BY <1>0, ByNat
  <2>2. OpHolds(ops, i) = SumOf(f, Ops) /\ OpHolds(next, i) = SumOf(g, Ops)
    BY DEF OpHolds
  <2> HIDE DEF f, g
  <2>3. \A p \in Ops \ {o} : f[p] = g[p]
    BY <2>1
  <2>4. /\ SumOf(f, Ops) \in Nat /\ f[o] <= SumOf(f, Ops)
        /\ SumOf(g, Ops) = (SumOf(f, Ops) - f[o]) + g[o]
    BY <1>0, <2>1, <2>3, SumChange
  <2> QED BY <2>1, <2>2, <2>4
<1>6. /\ OpReads(ops, i) \in Nat /\ ReadsResp(ops[o], i) <= OpReads(ops, i)
      /\ OpReads(next, i) = (OpReads(ops, i) - ReadsResp(ops[o], i)) + ReadsResp(next[o], i)
  <2> DEFINE f == [p \in Ops |-> ReadsResp(ops[p], i)]
             g == [p \in Ops |-> ReadsResp(next[p], i)]
  <2>1. /\ \A p \in Ops : f[p] = ReadsResp(ops[p], i) /\ g[p] = ReadsResp(next[p], i)
        /\ \A p \in Ops : f[p] \in Nat
        /\ \A p \in Ops : g[p] \in Nat
    BY <1>0, ByNat
  <2>2. OpReads(ops, i) = SumOf(f, Ops) /\ OpReads(next, i) = SumOf(g, Ops)
    BY DEF OpReads
  <2> HIDE DEF f, g
  <2>3. \A p \in Ops \ {o} : f[p] = g[p]
    BY <2>1
  <2>4. /\ SumOf(f, Ops) \in Nat /\ f[o] <= SumOf(f, Ops)
        /\ SumOf(g, Ops) = (SumOf(f, Ops) - f[o]) + g[o]
    BY <1>0, <2>1, <2>3, SumChange
  <2> QED BY <2>1, <2>2, <2>4
<1> QED BY <1>1, <1>2, <1>3, <1>4, <1>5, <1>6

\* Operations that add the same have the same sums.
LEMMA OpAlike ==
  ASSUME NEW ops \in [Ops -> OpRecords], NEW next \in [Ops -> OpRecords], NEW i,
         \A p \in Ops : /\ next[p].inst = ops[p].inst /\ next[p].event = ops[p].event
                        /\ next[p].resp = ops[p].resp /\ next[p].kind = ops[p].kind
                        /\ next[p].charge = ops[p].charge
                        /\ \/ next[p].stage = ops[p].stage
                           \/ /\ next[p].stage \in {"queued"} \cup TaskStages
                              /\ ops[p].stage \in {"queued"} \cup TaskStages
  PROVE  /\ OpRefsTo(next, i) = OpRefsTo(ops, i) /\ OpActive(next, i) = OpActive(ops, i)
         /\ OpNotes(next, i) = OpNotes(ops, i) /\ OpBytes(next, i) = OpBytes(ops, i)
         /\ OpHolds(next, i) = OpHolds(ops, i) /\ OpReads(next, i) = OpReads(ops, i)
<1>0. \A p \in Ops : /\ RefsBy(next[p], i) = RefsBy(ops[p], i)
                     /\ ActiveBy(next[p], i) = ActiveBy(ops[p], i)
                     /\ NotesBy(next[p], i) = NotesBy(ops[p], i)
                     /\ BytesBy(next[p], i) = BytesBy(ops[p], i)
                     /\ HoldsResp(next[p], i) = HoldsResp(ops[p], i)
                     /\ ReadsResp(next[p], i) = ReadsResp(ops[p], i)
  BY DEF RefsBy, ActiveBy, NotesBy, BytesBy, HoldsResp, ReadsResp, TaskStages
<1>1. [p \in Ops |-> RefsBy(next[p], i)] = [p \in Ops |-> RefsBy(ops[p], i)]
  BY <1>0
<1>2. [p \in Ops |-> ActiveBy(next[p], i)] = [p \in Ops |-> ActiveBy(ops[p], i)]
  BY <1>0
<1>3. [p \in Ops |-> NotesBy(next[p], i)] = [p \in Ops |-> NotesBy(ops[p], i)]
  BY <1>0
<1>4. [p \in Ops |-> BytesBy(next[p], i)] = [p \in Ops |-> BytesBy(ops[p], i)]
  BY <1>0
<1>5. [p \in Ops |-> HoldsResp(next[p], i)] = [p \in Ops |-> HoldsResp(ops[p], i)]
  BY <1>0
<1>6. [p \in Ops |-> ReadsResp(next[p], i)] = [p \in Ops |-> ReadsResp(ops[p], i)]
  BY <1>0
<1> QED BY <1>1, <1>2, <1>3, <1>4, <1>5, <1>6
        DEF OpRefsTo, OpActive, OpNotes, OpBytes, OpHolds, OpReads

\* Whoever is not referred to has nothing in flight, and no bytes.
LEMMA OpNone ==
  ASSUME NEW ops \in [Ops -> OpRecords], NEW i, OpRefsTo(ops, i) = 0
  PROVE  /\ OpActive(ops, i) = 0 /\ OpNotes(ops, i) = 0 /\ OpBytes(ops, i) = 0
         /\ \A p \in Ops : ops[p].inst # i /\ ops[p].event # i
<1>1. \A p \in Ops : ops[p].inst # i /\ ops[p].event # i
  <2> SUFFICES ASSUME NEW p \in Ops PROVE ops[p].inst # i /\ ops[p].event # i
    OBVIOUS
  <2>1. RefsBy(ops[p], i) <= 0
    BY OpChange
  <2> QED BY <2>1 DEF RefsBy, One
<1>2. \A p \in Ops : ActiveBy(ops[p], i) = 0 /\ NotesBy(ops[p], i) = 0 /\ BytesBy(ops[p], i) = 0
  BY <1>1 DEF ActiveBy, NotesBy, BytesBy, One
<1> DEFINE a == [p \in Ops |-> ActiveBy(ops[p], i)]
           n == [p \in Ops |-> NotesBy(ops[p], i)]
           b == [p \in Ops |-> BytesBy(ops[p], i)]
<1>3. \A p \in Ops : a[p] = 0 /\ n[p] = 0 /\ b[p] = 0
  BY <1>2
<1>4. OpActive(ops, i) = SumOf(a, Ops) /\ OpNotes(ops, i) = SumOf(n, Ops) /\ OpBytes(ops, i) = SumOf(b, Ops)
  BY DEF OpActive, OpNotes, OpBytes
<1> HIDE DEF a, n, b
<1>5. SumOf(a, Ops) = 0 /\ SumOf(n, Ops) = 0 /\ SumOf(b, Ops) = 0
  BY <1>3, FiniteSlots, SumZero
<1> QED BY <1>1, <1>4, <1>5

\* One response changes.
LEMMA RespChange ==
  ASSUME NEW resps \in [Resps -> RespRecords], NEW next \in [Resps -> RespRecords], NEW r \in Resps,
         \A s \in Resps : s # r => next[s] = resps[s], NEW i
  PROVE  /\ /\ RespsOf(resps, i) \in Nat /\ One(resps[r].inst = i) <= RespsOf(resps, i)
            /\ RespsOf(next, i) = (RespsOf(resps, i) - One(resps[r].inst = i)) + One(next[r].inst = i)
         /\ /\ RespBytes(resps, i) \in Nat
            /\ (IF resps[r].inst = i THEN resps[r].charge ELSE 0) <= RespBytes(resps, i)
            /\ RespBytes(next, i) = (RespBytes(resps, i) - (IF resps[r].inst = i THEN resps[r].charge ELSE 0))
                                    + (IF next[r].inst = i THEN next[r].charge ELSE 0)
<1>0. /\ IsFiniteSet(Resps)
      /\ \A s \in Resps : resps[s].charge \in Nat /\ next[s].charge \in Nat
  BY FiniteSlots DEF RespRecords
<1>1. /\ RespsOf(resps, i) \in Nat /\ One(resps[r].inst = i) <= RespsOf(resps, i)
      /\ RespsOf(next, i) = (RespsOf(resps, i) - One(resps[r].inst = i)) + One(next[r].inst = i)
  <2> DEFINE f == [s \in Resps |-> One(resps[s].inst = i)]
             g == [s \in Resps |-> One(next[s].inst = i)]
  <2>1. /\ \A s \in Resps : f[s] = One(resps[s].inst = i) /\ g[s] = One(next[s].inst = i)
        /\ \A s \in Resps : f[s] \in Nat
        /\ \A s \in Resps : g[s] \in Nat
    BY DEF One
  <2>2. RespsOf(resps, i) = SumOf(f, Resps) /\ RespsOf(next, i) = SumOf(g, Resps)
    BY DEF RespsOf
  <2> HIDE DEF f, g
  <2>3. \A s \in Resps \ {r} : f[s] = g[s]
    BY <2>1
  <2>4. /\ SumOf(f, Resps) \in Nat /\ f[r] <= SumOf(f, Resps)
        /\ SumOf(g, Resps) = (SumOf(f, Resps) - f[r]) + g[r]
    BY <1>0, <2>1, <2>3, SumChange
  <2> QED BY <2>1, <2>2, <2>4
<1>2. /\ RespBytes(resps, i) \in Nat
      /\ (IF resps[r].inst = i THEN resps[r].charge ELSE 0) <= RespBytes(resps, i)
      /\ RespBytes(next, i) = (RespBytes(resps, i) - (IF resps[r].inst = i THEN resps[r].charge ELSE 0))
                              + (IF next[r].inst = i THEN next[r].charge ELSE 0)
  <2> DEFINE f == [s \in Resps |-> IF resps[s].inst = i THEN resps[s].charge ELSE 0]
             g == [s \in Resps |-> IF next[s].inst = i THEN next[s].charge ELSE 0]
  <2>1. /\ \A s \in Resps : /\ f[s] = IF resps[s].inst = i THEN resps[s].charge ELSE 0
                            /\ g[s] = IF next[s].inst = i THEN next[s].charge ELSE 0
        /\ \A s \in Resps : f[s] \in Nat
        /\ \A s \in Resps : g[s] \in Nat
    BY <1>0
  <2>2. RespBytes(resps, i) = SumOf(f, Resps) /\ RespBytes(next, i) = SumOf(g, Resps)
    BY DEF RespBytes
  <2> HIDE DEF f, g
  <2>3a. IsFiniteSet(Resps) /\ (\A s \in Resps : f[s] \in Nat) /\ (\A s \in Resps : g[s] \in Nat)
    BY <1>0, <2>1
  <2>3. \A s \in Resps \ {r} : f[s] = g[s]
    BY <2>1
  <2>4. /\ SumOf(f, Resps) \in Nat /\ f[r] <= SumOf(f, Resps)
        /\ SumOf(g, Resps) = (SumOf(f, Resps) - f[r]) + g[r]
    BY <2>3a, <2>3, SumChange
  <2> QED BY <2>1, <2>2, <2>4
<1> QED BY <1>1, <1>2

\* An instance without responses has none of their bytes.
LEMMA RespNone ==
  ASSUME NEW resps \in [Resps -> RespRecords], NEW i, RespsOf(resps, i) = 0
  PROVE  RespBytes(resps, i) = 0 /\ \A r \in Resps : resps[r].inst # i
<1>1. \A r \in Resps : resps[r].inst # i
  <2> SUFFICES ASSUME NEW r \in Resps PROVE resps[r].inst # i
    OBVIOUS
  <2>1. One(resps[r].inst = i) <= 0
    BY RespChange
  <2> QED BY <2>1 DEF One
<1> DEFINE b == [r \in Resps |-> IF resps[r].inst = i THEN resps[r].charge ELSE 0]
<1>2. (\A r \in Resps : b[r] = 0) /\ RespBytes(resps, i) = SumOf(b, Resps)
  BY <1>1 DEF RespBytes
<1> HIDE DEF b
<1>3. SumOf(b, Resps) = 0
  BY <1>2, FiniteSlots, SumZero
<1> QED BY <1>1, <1>2, <1>3

\* Responses that differ in neither instance nor charge.
LEMMA RespAlike ==
  ASSUME NEW resps, NEW next, NEW i,
         \A r \in Resps : next[r].inst = resps[r].inst /\ next[r].charge = resps[r].charge
  PROVE  RespsOf(next, i) = RespsOf(resps, i) /\ RespBytes(next, i) = RespBytes(resps, i)
<1>1. [r \in Resps |-> One(next[r].inst = i)] = [r \in Resps |-> One(resps[r].inst = i)]
  OBVIOUS
<1>2. [r \in Resps |-> IF next[r].inst = i THEN next[r].charge ELSE 0]
      = [r \in Resps |-> IF resps[r].inst = i THEN resps[r].charge ELSE 0]
  OBVIOUS
<1> QED BY <1>1, <1>2 DEF RespsOf, RespBytes

\* One chunk changes.
ChunkMoved(chunks, next, c, i) ==
  /\ /\ ChunksOf(chunks, i) \in Nat /\ One(chunks[c].inst = i) <= ChunksOf(chunks, i)
     /\ ChunksOf(next, i) = (ChunksOf(chunks, i) - One(chunks[c].inst = i)) + One(next[c].inst = i)
  /\ /\ ChunkBytes(chunks, i) \in Nat
     /\ (IF chunks[c].inst = i THEN ChunkCost ELSE 0) <= ChunkBytes(chunks, i)
     /\ ChunkBytes(next, i) = (ChunkBytes(chunks, i) - (IF chunks[c].inst = i THEN ChunkCost ELSE 0))
                              + (IF next[c].inst = i THEN ChunkCost ELSE 0)
  /\ /\ ChunksIn(chunks, i) \in Nat /\ One(chunks[c].resp = i) <= ChunksIn(chunks, i)
     /\ ChunksIn(next, i) = (ChunksIn(chunks, i) - One(chunks[c].resp = i)) + One(next[c].resp = i)
\* Chunk c changes: the sums over the chunks follow.
LEMMA ChunkChange ==
  ASSUME NEW chunks, NEW next, NEW c \in Chunks,
         \A d \in Chunks : d # c => next[d] = chunks[d], NEW i
  PROVE  ChunkMoved(chunks, next, c, i)
<1>0. IsFiniteSet(Chunks) /\ ChunkCost \in Nat
  BY FiniteSlots, BridgeAssumption
<1>1. /\ ChunksOf(chunks, i) \in Nat /\ One(chunks[c].inst = i) <= ChunksOf(chunks, i)
      /\ ChunksOf(next, i) = (ChunksOf(chunks, i) - One(chunks[c].inst = i))
                           + One(next[c].inst = i)
  <2> DEFINE f == [d \in Chunks |-> One(chunks[d].inst = i)]
             g == [d \in Chunks |-> One(next[d].inst = i)]
  <2>1. /\ \A d \in Chunks : f[d] = One(chunks[d].inst = i) /\ g[d] = One(next[d].inst = i)
        /\ \A d \in Chunks : f[d] \in Nat
        /\ \A d \in Chunks : g[d] \in Nat
    BY <1>0 DEF One
  <2>2. ChunksOf(chunks, i) = SumOf(f, Chunks) /\ ChunksOf(next, i) = SumOf(g, Chunks)
    BY DEF ChunksOf
  <2> HIDE DEF f, g
  <2>3. \A d \in Chunks \ {c} : f[d] = g[d]
    BY <2>1
  <2>4. /\ SumOf(f, Chunks) \in Nat /\ f[c] <= SumOf(f, Chunks)
        /\ SumOf(g, Chunks) = (SumOf(f, Chunks) - f[c]) + g[c]
    BY <1>0, <2>1, <2>3, SumChange
  <2> QED BY <2>1, <2>2, <2>4
<1>2. /\ ChunkBytes(chunks, i) \in Nat /\ (IF chunks[c].inst = i THEN ChunkCost ELSE 0) <= ChunkBytes(chunks, i)
      /\ ChunkBytes(next, i) = (ChunkBytes(chunks, i) - (IF chunks[c].inst = i THEN ChunkCost ELSE 0))
                           + (IF next[c].inst = i THEN ChunkCost ELSE 0)
  <2> DEFINE f == [d \in Chunks |-> IF chunks[d].inst = i THEN ChunkCost ELSE 0]
             g == [d \in Chunks |-> IF next[d].inst = i THEN ChunkCost ELSE 0]
  <2>1. /\ \A d \in Chunks : f[d] = (IF chunks[d].inst = i THEN ChunkCost ELSE 0) /\ g[d] = (IF next[d].inst = i THEN ChunkCost ELSE 0)
        /\ \A d \in Chunks : f[d] \in Nat
        /\ \A d \in Chunks : g[d] \in Nat
    BY <1>0 DEF One
  <2>2. ChunkBytes(chunks, i) = SumOf(f, Chunks) /\ ChunkBytes(next, i) = SumOf(g, Chunks)
    BY DEF ChunkBytes
  <2> HIDE DEF f, g
  <2>3. \A d \in Chunks \ {c} : f[d] = g[d]
    BY <2>1
  <2>4. /\ SumOf(f, Chunks) \in Nat /\ f[c] <= SumOf(f, Chunks)
        /\ SumOf(g, Chunks) = (SumOf(f, Chunks) - f[c]) + g[c]
    BY <1>0, <2>1, <2>3, SumChange
  <2> QED BY <2>1, <2>2, <2>4
<1>3. /\ ChunksIn(chunks, i) \in Nat /\ One(chunks[c].resp = i) <= ChunksIn(chunks, i)
      /\ ChunksIn(next, i) = (ChunksIn(chunks, i) - One(chunks[c].resp = i))
                           + One(next[c].resp = i)
  <2> DEFINE f == [d \in Chunks |-> One(chunks[d].resp = i)]
             g == [d \in Chunks |-> One(next[d].resp = i)]
  <2>1. /\ \A d \in Chunks : f[d] = One(chunks[d].resp = i) /\ g[d] = One(next[d].resp = i)
        /\ \A d \in Chunks : f[d] \in Nat
        /\ \A d \in Chunks : g[d] \in Nat
    BY <1>0 DEF One
  <2>2. ChunksIn(chunks, i) = SumOf(f, Chunks) /\ ChunksIn(next, i) = SumOf(g, Chunks)
    BY DEF ChunksIn
  <2> HIDE DEF f, g
  <2>3. \A d \in Chunks \ {c} : f[d] = g[d]
    BY <2>1
  <2>4. /\ SumOf(f, Chunks) \in Nat /\ f[c] <= SumOf(f, Chunks)
        /\ SumOf(g, Chunks) = (SumOf(f, Chunks) - f[c]) + g[c]
    BY <1>0, <2>1, <2>3, SumChange
  <2> QED BY <2>1, <2>2, <2>4
<1> QED BY <1>1, <1>2, <1>3 DEF ChunkMoved

\* An instance without chunks has none of their bytes.
LEMMA ChunkNone ==
  ASSUME NEW chunks, NEW i, ChunksOf(chunks, i) = 0
  PROVE  ChunkBytes(chunks, i) = 0 /\ \A c \in Chunks : chunks[c].inst # i
<1>1. \A c \in Chunks : chunks[c].inst # i
  <2> SUFFICES ASSUME NEW c \in Chunks PROVE chunks[c].inst # i
    OBVIOUS
  <2>1. \E next : next = chunks
    OBVIOUS
  <2>2. PICK next : next = chunks
    BY <2>1
  <2>3. One(chunks[c].inst = i) <= ChunksOf(chunks, i)
    BY <2>2, ChunkChange DEF ChunkMoved
  <2>4. One(chunks[c].inst = i) <= 0
    BY <2>3
  <2> QED BY <2>4 DEF One
<1> DEFINE b == [c \in Chunks |-> IF chunks[c].inst = i THEN ChunkCost ELSE 0]
<1>2. (\A c \in Chunks : b[c] = 0) /\ ChunkBytes(chunks, i) = SumOf(b, Chunks)
  BY <1>1 DEF ChunkBytes
<1> HIDE DEF b
<1>3. SumOf(b, Chunks) = 0
  BY <1>2, FiniteSlots, SumZero
<1> QED BY <1>1, <1>2, <1>3

\* One instance is charged.
LEMMA ChargeChange ==
  ASSUME NEW insts \in [Insts -> InstRecords], NEW next \in [Insts -> InstRecords], NEW i \in Insts,
         \A j \in Insts : j # i => next[j].charged = insts[j].charged
  PROVE  /\ ChargedIn(insts) \in Nat /\ insts[i].charged <= ChargedIn(insts)
         /\ ChargedIn(next) = (ChargedIn(insts) - insts[i].charged) + next[i].charged
<1> DEFINE f == [j \in Insts |-> insts[j].charged]
           g == [j \in Insts |-> next[j].charged]
<1>1. /\ \A j \in Insts : f[j] = insts[j].charged /\ g[j] = next[j].charged
      /\ \A j \in Insts : f[j] \in Nat
      /\ \A j \in Insts : g[j] \in Nat
  BY DEF InstRecords
<1>2. ChargedIn(insts) = SumOf(f, Insts) /\ ChargedIn(next) = SumOf(g, Insts)
  BY DEF ChargedIn
<1> HIDE DEF f, g
<1>3. \A j \in Insts \ {i} : f[j] = g[j]
  BY <1>1
<1>4. /\ SumOf(f, Insts) \in Nat /\ f[i] <= SumOf(f, Insts)
      /\ SumOf(g, Insts) = (SumOf(f, Insts) - f[i]) + g[i]
  BY <1>1, <1>3, FiniteSlots, SumChange
<1> QED BY <1>1, <1>2, <1>4

\* No instance is.
LEMMA ChargeSame ==
  ASSUME NEW insts, NEW next, \A j \in Insts : next[j].charged = insts[j].charged
  PROVE  ChargedIn(next) = ChargedIn(insts)
<1>1. [j \in Insts |-> next[j].charged] = [j \in Insts |-> insts[j].charged]
  OBVIOUS
<1> QED BY <1>1 DEF ChargedIn

\* What the operations add up to are natural numbers.
LEMMA OpSumsNat ==
  ASSUME NEW ops \in [Ops -> OpRecords], NEW i
  PROVE  /\ OpRefsTo(ops, i) \in Nat /\ OpActive(ops, i) \in Nat /\ OpNotes(ops, i) \in Nat
         /\ OpBytes(ops, i) \in Nat /\ OpHolds(ops, i) \in Nat /\ OpReads(ops, i) \in Nat
<1>1. CASE Ops = {}
  <2>1. \A f : SumOf(f, Ops) = 0
    BY <1>1, SumEmpty
  <2> QED BY <2>1 DEF OpRefsTo, OpActive, OpNotes, OpBytes, OpHolds, OpReads
<1>2. ASSUME NEW o \in Ops
      PROVE  /\ OpRefsTo(ops, i) \in Nat /\ OpActive(ops, i) \in Nat /\ OpNotes(ops, i) \in Nat
             /\ OpBytes(ops, i) \in Nat /\ OpHolds(ops, i) \in Nat /\ OpReads(ops, i) \in Nat
  BY OpChange
<1> QED BY <1>1, <1>2

\* What responses and chunks add are natural numbers.
LEMMA SumsNat ==
  ASSUME NEW resps \in [Resps -> RespRecords], NEW chunks, NEW i
  PROVE  /\ RespsOf(resps, i) \in Nat /\ RespBytes(resps, i) \in Nat
         /\ ChunksOf(chunks, i) \in Nat /\ ChunkBytes(chunks, i) \in Nat /\ ChunksIn(chunks, i) \in Nat
<1> USE FiniteSlots
<1>1. RespsOf(resps, i) \in Nat
  <2> DEFINE f == [r \in Resps |-> One(resps[r].inst = i)]
  <2>1. \A r \in Resps : f[r] \in Nat
    BY DEF One
  <2> HIDE DEF f
  <2>2. SumOf(f, Resps) \in Nat
    BY <2>1, SumNat
  <2> QED BY <2>2 DEF RespsOf, f
<1>2. RespBytes(resps, i) \in Nat
  <2> DEFINE f == [r \in Resps |-> IF resps[r].inst = i THEN resps[r].charge ELSE 0]
  <2>1. \A r \in Resps : f[r] \in Nat
    BY DEF RespRecords
  <2> HIDE DEF f
  <2>2. SumOf(f, Resps) \in Nat
    BY <2>1, SumNat
  <2> QED BY <2>2 DEF RespBytes, f
<1>3. ChunksOf(chunks, i) \in Nat
  <2> DEFINE f == [c \in Chunks |-> One(chunks[c].inst = i)]
  <2>1. \A c \in Chunks : f[c] \in Nat
    BY DEF One
  <2> HIDE DEF f
  <2>2. SumOf(f, Chunks) \in Nat
    BY <2>1, SumNat
  <2> QED BY <2>2 DEF ChunksOf, f
<1>4. ChunkBytes(chunks, i) \in Nat
  <2> DEFINE f == [c \in Chunks |-> IF chunks[c].inst = i THEN ChunkCost ELSE 0]
  <2>1. \A c \in Chunks : f[c] \in Nat
    BY BridgeAssumption
  <2> HIDE DEF f
  <2>2. SumOf(f, Chunks) \in Nat
    BY <2>1, SumNat
  <2> QED BY <2>2 DEF ChunkBytes, f
<1>5. ChunksIn(chunks, i) \in Nat
  <2> DEFINE f == [c \in Chunks |-> One(chunks[c].resp = i)]
  <2>1. \A c \in Chunks : f[c] \in Nat
    BY DEF One
  <2> HIDE DEF f
  <2>2. SumOf(f, Chunks) \in Nat
    BY <2>1, SumNat
  <2> QED BY <2>2 DEF ChunksIn, f
<1> QED BY <1>1, <1>2, <1>3, <1>4, <1>5

\* The counters of instance i go from those of was to those of q when an operation goes from
\* record k to record l, and hand holds hb references instead of ha.
Balanced(was, q, k, l, i, ha, hb) ==
  /\ q.refs + RefsBy(k, i) + ha = was.refs + RefsBy(l, i) + hb
  /\ q.active + ActiveBy(k, i) = was.active + ActiveBy(l, i)
  /\ q.notifications + NotesBy(k, i) = was.notifications + NotesBy(l, i)
  /\ q.charged + BytesBy(k, i) = was.charged + BytesBy(l, i)
  /\ q.responses = was.responses
  /\ q.refs = 0 => q = NoInst

\* The counters of a record are numbers.
LEMMA InstNat ==
  ASSUME NEW k \in InstRecords
  PROVE  /\ k.refs \in Nat /\ k.active \in Nat /\ k.notifications \in Nat /\ k.responses \in Nat
         /\ k.charged \in Nat
BY DEF InstRecords

\* An instance stays in balance when one operation changes.
LEMMA InstBalance ==
  ASSUME NEW ops \in [Ops -> OpRecords], NEW next \in [Ops -> OpRecords], NEW o \in Ops,
         \A p \in Ops : p # o => next[p] = ops[p],
         NEW m, NEW m2, NEW hi, NEW hi2, NEW j,
         m.inst[j] \in InstRecords, m2.inst[j] \in InstRecords, hi[j] \in Nat, hi2[j] \in Nat,
         m.resp \in [Resps -> RespRecords], m2.resp = m.resp, m2.chunk = m.chunk,
         InstBook(m, ops, hi, j),
         Balanced(m.inst[j], m2.inst[j], ops[o], next[o], j, hi[j], hi2[j])
  PROVE  InstBook(m2, next, hi2, j)
<1>1. /\ OpRefsTo(ops, j) \in Nat /\ OpActive(ops, j) \in Nat /\ OpNotes(ops, j) \in Nat
      /\ OpBytes(ops, j) \in Nat
      /\ OpRefsTo(next, j) = (OpRefsTo(ops, j) - RefsBy(ops[o], j)) + RefsBy(next[o], j)
      /\ OpActive(next, j) = (OpActive(ops, j) - ActiveBy(ops[o], j)) + ActiveBy(next[o], j)
      /\ OpNotes(next, j) = (OpNotes(ops, j) - NotesBy(ops[o], j)) + NotesBy(next[o], j)
      /\ OpBytes(next, j) = (OpBytes(ops, j) - BytesBy(ops[o], j)) + BytesBy(next[o], j)
  BY OpChange
<1>2. /\ RefsBy(ops[o], j) \in Nat /\ ActiveBy(ops[o], j) \in Nat /\ NotesBy(ops[o], j) \in Nat
      /\ BytesBy(ops[o], j) \in Nat /\ RefsBy(next[o], j) \in Nat /\ ActiveBy(next[o], j) \in Nat
      /\ NotesBy(next[o], j) \in Nat /\ BytesBy(next[o], j) \in Nat
  <2>1. ops[o] \in OpRecords /\ next[o] \in OpRecords
    OBVIOUS
  <2> QED BY <2>1, ByNat
<1>3. /\ RespsOf(m.resp, j) \in Nat /\ ChunksOf(m.chunk, j) \in Nat
      /\ RespBytes(m.resp, j) \in Nat /\ ChunkBytes(m.chunk, j) \in Nat
  BY SumsNat
<1>4. /\ m.inst[j].refs \in Nat /\ m.inst[j].active \in Nat /\ m.inst[j].notifications \in Nat
      /\ m.inst[j].responses \in Nat /\ m.inst[j].charged \in Nat
      /\ m2.inst[j].refs \in Nat /\ m2.inst[j].active \in Nat /\ m2.inst[j].notifications \in Nat
      /\ m2.inst[j].responses \in Nat /\ m2.inst[j].charged \in Nat
  BY InstNat
<1> DEFINE a == m.inst[j]
           b == m2.inst[j]
<1>5. m2.inst[j].refs = hi2[j] + OpRefsTo(next, j) + RespsOf(m2.resp, j) + ChunksOf(m2.chunk, j)
  <2> DEFINE x == a.refs
             y == b.refs
             w == RefsBy(ops[o], j)
             v == RefsBy(next[o], j)
             h == hi[j]
             g == hi2[j]
             p == RespsOf(m.resp, j)
             c == ChunksOf(m.chunk, j)
             t == OpRefsTo(ops, j)
             u == OpRefsTo(next, j)
  <2>1. /\ x \in Nat /\ y \in Nat /\ w \in Nat /\ v \in Nat /\ h \in Nat /\ g \in Nat /\ p \in Nat
        /\ c \in Nat /\ t \in Nat /\ u = (t - w) + v
    BY <1>1, <1>2, <1>3, <1>4
  <2>2. x = h + t + p + c
    BY DEF InstBook
  <2>3. y + w + h = x + v + g
    BY DEF Balanced
  <2> HIDE DEF x, y, w, v, h, g, p, c, t, u
  <2>4. y = g + u + p + c
    BY <2>1, <2>2, <2>3
  <2> QED BY <2>4 DEF x, y, w, v, h, g, p, c, t, u
<1>6. m2.inst[j].active = OpActive(next, j)
  <2> DEFINE x == a.active
             y == b.active
             w == ActiveBy(ops[o], j)
             v == ActiveBy(next[o], j)
             u == OpActive(next, j)
  <2>1. x \in Nat /\ y \in Nat /\ w \in Nat /\ v \in Nat /\ u = (x - w) + v /\ y + w = x + v
    BY <1>1, <1>2, <1>4 DEF InstBook, Balanced
  <2> HIDE DEF x, y, w, v, u
  <2>2. y = u
    BY <2>1
  <2> QED BY <2>2 DEF y, u
<1>7. m2.inst[j].notifications = OpNotes(next, j)
  <2> DEFINE x == a.notifications
             y == b.notifications
             w == NotesBy(ops[o], j)
             v == NotesBy(next[o], j)
             u == OpNotes(next, j)
  <2>1. x \in Nat /\ y \in Nat /\ w \in Nat /\ v \in Nat /\ u = (x - w) + v /\ y + w = x + v
    BY <1>1, <1>2, <1>4 DEF InstBook, Balanced
  <2> HIDE DEF x, y, w, v, u
  <2>2. y = u
    BY <2>1
  <2> QED BY <2>2 DEF y, u
<1>8. m2.inst[j].charged = OpBytes(next, j) + RespBytes(m2.resp, j) + ChunkBytes(m2.chunk, j)
  BY <1>1, <1>2, <1>3, <1>4 DEF InstBook, Balanced
<1>9. m2.inst[j].responses = RespsOf(m2.resp, j)
  BY DEF InstBook, Balanced
<1> QED BY <1>5, <1>6, <1>7, <1>8, <1>9 DEF InstBook, Balanced

\* The references to a response go from the record k of an operation, and hand, to the record l.
LEMMA RespBalance ==
  ASSUME NEW ops \in [Ops -> OpRecords], NEW next \in [Ops -> OpRecords], NEW o \in Ops,
         \A p \in Ops : p # o => next[p] = ops[p],
         NEW m, NEW m2, NEW hr, NEW hr2, NEW r,
         hr[r] \in Nat, hr2[r] \in Nat,
         m.resp \in [Resps -> RespRecords], m2.resp = m.resp, m2.chunk = m.chunk,
         RespBook(m, ops, hr, r),
         HoldsResp(next[o], r) + hr2[r] = HoldsResp(ops[o], r) + hr[r]
  PROVE  RespBook(m2, next, hr2, r)
<1>1. OpHolds(ops, r) \in Nat /\ OpHolds(next, r) = (OpHolds(ops, r) - HoldsResp(ops[o], r)) + HoldsResp(next[o], r)
  BY OpChange
<1>2. HoldsResp(ops[o], r) \in Nat /\ HoldsResp(next[o], r) \in Nat
  <2>1. ops[o] \in OpRecords /\ next[o] \in OpRecords
    OBVIOUS
  <2> QED BY <2>1, ByNat
<1>3. ChunksIn(m.chunk, r) \in Nat
  BY SumsNat
<1> QED BY <1>1, <1>2, <1>3 DEF RespBook

\* The record of one operation changes, and the counters of instances with it.
OpStep(m, m2, ops, next, o, hi, hi2, hr, hr2) ==
  /\ next \in [Ops -> OpRecords] /\ \A p \in Ops : p # o => next[p] = ops[p]
  /\ hi2 \in [Insts -> Nat] /\ hr2 \in [Resps -> Nat]
  /\ m2.inst \in [Insts -> InstRecords] /\ m2.resp = m.resp /\ m2.chunk = m.chunk
  /\ m2.retained = ChargedIn(m2.inst)
  /\ \A j \in Insts : Balanced(m.inst[j], m2.inst[j], ops[o], next[o], j, hi[j], hi2[j])
  /\ \A r \in Resps : HoldsResp(next[o], r) + hr2[r] = HoldsResp(ops[o], r) + hr[r]
\* The books balance over a step that changes one operation and the counters with it.
LEMMA BooksOp ==
  ASSUME NEW ops \in [Ops -> OpRecords], NEW next, NEW o \in Ops, NEW m, NEW m2,
         NEW hi \in [Insts -> Nat], NEW hr \in [Resps -> Nat], NEW hi2, NEW hr2, Books(m, ops, hi, hr),
         OpStep(m, m2, ops, next, o, hi, hi2, hr, hr2)
  PROVE  Books(m2, next, hi2, hr2)
<1> USE DEF OpStep
<1>1. /\ m.inst \in [Insts -> InstRecords] /\ m.resp \in [Resps -> RespRecords]
      /\ m.chunk \in [Chunks -> ChunkRecords]
  BY DEF Books
<1>2. ASSUME NEW j \in Insts PROVE InstBook(m2, next, hi2, j)
  <2>1. InstBook(m, ops, hi, j) /\ m.inst[j] \in InstRecords /\ m2.inst[j] \in InstRecords
        /\ hi[j] \in Nat /\ hi2[j] \in Nat
    BY <1>1 DEF Books
  <2> QED BY <1>1, <2>1, InstBalance
<1>3. ASSUME NEW r \in Resps PROVE RespBook(m2, next, hr2, r)
  <2>1. RespBook(m, ops, hr, r) /\ hr[r] \in Nat /\ hr2[r] \in Nat
    BY DEF Books
  <2> QED BY <1>1, <2>1, RespBalance
<1> QED BY <1>1, <1>2, <1>3 DEF Books

\* The record of an instance after instance_drop.
Less(k) == IF k.refs = 1 THEN NoInst ELSE [k EXCEPT !.refs = @ - 1]

\* instance_drop changes one record.
LEMMA InstDropIs ==
  ASSUME NEW m, IsHeap(m), NEW i
  PROVE  LET m2 == instance_drop(m, i)
         IN /\ IsHeap(m2) /\ m2.inst = [m.inst EXCEPT ![i] = Less(m.inst[i])]
            /\ m2.op = m.op /\ m2.resp = m.resp /\ m2.chunk = m.chunk /\ m2.retained = m.retained
<1>1. CASE m.inst[i].refs = 1
  BY <1>1 DEF IsHeap, instance_drop, Less
<1>2. CASE m.inst[i].refs # 1
  BY <1>2 DEF IsHeap, instance_drop, Less
<1> QED BY <1>1, <1>2

\* An instance with a pointer in hand gives it up: with the last one, it has no operation, no response
\* and no chunk, so that every counter is zero.
LEMMA LastRef ==
  ASSUME NEW m, NEW ops \in [Ops -> OpRecords], NEW hi, NEW i, m.inst[i] \in InstRecords, hi[i] \in Nat,
         m.resp \in [Resps -> RespRecords], InstBook(m, ops, hi, i), hi[i] > 0
  PROVE  /\ m.inst[i].refs > 0
         /\ m.inst[i].refs = 1 =>
              /\ hi[i] = 1 /\ OpRefsTo(ops, i) = 0 /\ RespsOf(m.resp, i) = 0 /\ ChunksOf(m.chunk, i) = 0
              /\ OpActive(ops, i) = 0 /\ OpNotes(ops, i) = 0 /\ OpBytes(ops, i) = 0
              /\ RespBytes(m.resp, i) = 0 /\ ChunkBytes(m.chunk, i) = 0 /\ m.inst[i].charged = 0
<1> DEFINE a == OpRefsTo(ops, i)
           b == RespsOf(m.resp, i)
           c == ChunksOf(m.chunk, i)
           h == hi[i]
           n == m.inst[i].refs
<1>1. a \in Nat
  BY OpSumsNat
<1>2. b \in Nat /\ c \in Nat /\ h \in Nat /\ n = h + a + b + c /\ h > 0
  BY SumsNat DEF InstBook
<1> HIDE DEF a, b, c, h, n
<1>3. n > 0 /\ (n = 1 => h = 1 /\ a = 0 /\ b = 0 /\ c = 0)
  BY <1>1, <1>2
<1>4. n = 1 => /\ OpActive(ops, i) = 0 /\ OpNotes(ops, i) = 0 /\ OpBytes(ops, i) = 0
               /\ RespBytes(m.resp, i) = 0 /\ ChunkBytes(m.chunk, i) = 0
  BY <1>3, OpNone, RespNone, ChunkNone DEF a, b, c
<1>5. n = 1 => m.inst[i].charged = 0
  BY <1>4 DEF InstBook
<1> QED BY <1>3, <1>4, <1>5 DEF a, b, c, h, n

\* instance_drop keeps the books.
LEMMA InstDropBooks ==
  ASSUME NEW m, IsHeap(m), NEW ops \in [Ops -> OpRecords], NEW hi \in [Insts -> Nat], NEW hr,
         Books(m, ops, hi, hr), NEW i \in Insts, hi[i] > 0
  PROVE  Books(instance_drop(m, i), ops, [hi EXCEPT ![i] = @ - 1], hr)
<1> DEFINE m2 == instance_drop(m, i)
           hi2 == [hi EXCEPT ![i] = @ - 1]
           q == Less(m.inst[i])
<1>1. /\ m2.inst = [m.inst EXCEPT ![i] = q] /\ m2.resp = m.resp /\ m2.chunk = m.chunk
      /\ m2.retained = m.retained
  BY InstDropIs
<1>2. /\ m.inst \in [Insts -> InstRecords] /\ m.resp \in [Resps -> RespRecords]
      /\ m.chunk \in [Chunks -> ChunkRecords] /\ m.retained = ChargedIn(m.inst)
      /\ \A j \in Insts : InstBook(m, ops, hi, j)
      /\ \A r \in Resps : RespBook(m, ops, hr, r)
  BY DEF Books
<1>3. m.inst[i] \in InstRecords /\ hi[i] \in Nat
  BY <1>2
<1>4. /\ m.inst[i].refs > 0
      /\ m.inst[i].refs = 1 =>
           /\ hi[i] = 1 /\ OpRefsTo(ops, i) = 0 /\ RespsOf(m.resp, i) = 0 /\ ChunksOf(m.chunk, i) = 0
           /\ OpActive(ops, i) = 0 /\ OpNotes(ops, i) = 0 /\ OpBytes(ops, i) = 0
           /\ RespBytes(m.resp, i) = 0 /\ ChunkBytes(m.chunk, i) = 0 /\ m.inst[i].charged = 0
  BY <1>2, <1>3, LastRef
<1>5. q \in InstRecords /\ q.charged = m.inst[i].charged
      /\ IF m.inst[i].refs = 1 THEN q = NoInst
         ELSE /\ q.refs = m.inst[i].refs - 1 /\ q.refs # 0 /\ q.active = m.inst[i].active
              /\ q.notifications = m.inst[i].notifications /\ q.responses = m.inst[i].responses
  <2>1. CASE m.inst[i].refs = 1
    BY <1>4, <2>1 DEF Less, NoInst, InstRecords
  <2>2. CASE m.inst[i].refs # 1
    <3>1. m.inst[i].refs \in Nat
      BY <1>3 DEF InstRecords
    <3>2. m.inst[i].refs - 1 \in Nat /\ m.inst[i].refs - 1 # 0
      BY <1>4, <2>2, <3>1
    <3>3. q = [m.inst[i] EXCEPT !.refs = m.inst[i].refs - 1]
      BY <2>2 DEF Less
    <3> QED BY <1>3, <2>2, <3>2, <3>3 DEF InstRecords
  <2> QED BY <2>1, <2>2
<1>6. hi2[i] = hi[i] - 1 /\ \A j \in Insts : j # i => hi2[j] = hi[j]
  OBVIOUS
<1> HIDE DEF m2, hi2, q
<1>7. m2.inst[i] = q /\ m2.inst \in [Insts -> InstRecords] /\ \A j \in Insts : j # i => m2.inst[j] = m.inst[j]
  BY <1>1, <1>2, <1>5
<1>8. InstBook(m2, ops, hi2, i)
  <2>0. InstBook(m, ops, hi, i)
    BY <1>2
  <2>1. CASE m.inst[i].refs = 1
    <3>1. /\ q.refs = 0 /\ q.active = 0 /\ q.notifications = 0 /\ q.responses = 0 /\ q.charged = 0
          /\ q = NoInst
      BY <1>5, <2>1 DEF NoInst
    <3> QED BY <1>1, <1>4, <1>6, <1>7, <2>1, <3>1 DEF InstBook
  <2>2. CASE m.inst[i].refs # 1
    <3> DEFINE h == hi[i]
    <3>0. OpRefsTo(ops, i) \in Nat
      BY OpSumsNat
    <3>1. RespsOf(m.resp, i) \in Nat /\ ChunksOf(m.chunk, i) \in Nat
      BY <1>2, SumsNat
    <3>2. q.refs = (h - 1) + OpRefsTo(ops, i) + RespsOf(m.resp, i) + ChunksOf(m.chunk, i)
      BY <1>3, <1>5, <2>0, <2>2, <3>0, <3>1 DEF InstBook
    <3> QED BY <1>1, <1>5, <1>6, <1>7, <2>0, <2>2, <3>2 DEF InstBook
  <2> QED BY <2>1, <2>2
<1>9. \A j \in Insts : j # i => InstBook(m2, ops, hi2, j)
  BY <1>1, <1>2, <1>6, <1>7 DEF InstBook
<1>10. \A r \in Resps : RespBook(m2, ops, hr, r)
  BY <1>1, <1>2 DEF RespBook
<1>11. m2.retained = ChargedIn(m2.inst)
  <2>1. \A j \in Insts : m2.inst[j].charged = m.inst[j].charged
    BY <1>5, <1>7
  <2> QED BY <1>1, <1>2, <2>1, ChargeSame
<1>12. Books(m2, ops, hi2, hr)
  BY <1>1, <1>2, <1>7, <1>8, <1>9, <1>10, <1>11 DEF Books
<1> QED BY <1>12 DEF m2, hi2

\* The bytes of a response, when it belongs to instance i.
RespBy(k, i) == IF k.inst = i THEN k.charge ELSE 0
\* The counters of instance i when a response goes from record k to record l.
RespBalanced(was, q, k, l, i, ha, hb) ==
  /\ q.refs + One(k.inst = i) + ha = was.refs + One(l.inst = i) + hb
  /\ q.active = was.active /\ q.notifications = was.notifications
  /\ q.charged + RespBy(k, i) = was.charged + RespBy(l, i)
  /\ q.responses + One(k.inst = i) = was.responses + One(l.inst = i)
  /\ q.refs = 0 => q = NoInst

\* An instance stays in balance when one response changes.
LEMMA InstRespBalance ==
  ASSUME NEW ops \in [Ops -> OpRecords], NEW r \in Resps, NEW m, NEW m2, NEW hi, NEW hi2, NEW j,
         m.inst[j] \in InstRecords, m2.inst[j] \in InstRecords, hi[j] \in Nat, hi2[j] \in Nat,
         m.resp \in [Resps -> RespRecords], m2.resp \in [Resps -> RespRecords], m2.chunk = m.chunk,
         \A s \in Resps : s # r => m2.resp[s] = m.resp[s],
         InstBook(m, ops, hi, j),
         RespBalanced(m.inst[j], m2.inst[j], m.resp[r], m2.resp[r], j, hi[j], hi2[j])
  PROVE  InstBook(m2, ops, hi2, j)
<1> DEFINE k == m.resp[r]
           l == m2.resp[r]
<1>0. k.charge \in Nat /\ l.charge \in Nat
  <2>1. k \in RespRecords /\ l \in RespRecords
    OBVIOUS
  <2> QED BY <2>1 DEF RespRecords
<1>1. /\ RespsOf(m.resp, j) \in Nat /\ RespBytes(m.resp, j) \in Nat
      /\ RespsOf(m2.resp, j) = (RespsOf(m.resp, j) - One(k.inst = j)) + One(l.inst = j)
      /\ RespBytes(m2.resp, j) = (RespBytes(m.resp, j) - RespBy(k, j)) + RespBy(l, j)
  BY RespChange DEF RespBy
<1>2. /\ One(k.inst = j) \in Nat /\ One(l.inst = j) \in Nat /\ RespBy(k, j) \in Nat /\ RespBy(l, j) \in Nat
  BY <1>0 DEF One, RespBy
<1>3. /\ OpRefsTo(ops, j) \in Nat /\ OpBytes(ops, j) \in Nat
      /\ ChunksOf(m.chunk, j) \in Nat /\ ChunkBytes(m.chunk, j) \in Nat
  BY OpSumsNat, SumsNat
<1>4. /\ m.inst[j].refs \in Nat /\ m.inst[j].responses \in Nat /\ m.inst[j].charged \in Nat
      /\ m2.inst[j].refs \in Nat /\ m2.inst[j].responses \in Nat /\ m2.inst[j].charged \in Nat
  BY InstNat
<1> DEFINE x == m.inst[j].refs
           y == m2.inst[j].refs
           xr == m.inst[j].responses
           yr == m2.inst[j].responses
           xc == m.inst[j].charged
           yc == m2.inst[j].charged
           w == One(k.inst = j)
           v == One(l.inst = j)
           wb == RespBy(k, j)
           vb == RespBy(l, j)
           h == hi[j]
           g == hi2[j]
           p == RespsOf(m.resp, j)
           pn == RespsOf(m2.resp, j)
           b == RespBytes(m.resp, j)
           bn == RespBytes(m2.resp, j)
           c == ChunksOf(m.chunk, j)
           cb == ChunkBytes(m.chunk, j)
           t == OpRefsTo(ops, j)
           tb == OpBytes(ops, j)
<1>5. /\ x \in Nat /\ y \in Nat /\ xr \in Nat /\ yr \in Nat /\ xc \in Nat /\ yc \in Nat
      /\ w \in Nat /\ v \in Nat /\ wb \in Nat /\ vb \in Nat /\ h \in Nat /\ g \in Nat
      /\ p \in Nat /\ b \in Nat /\ c \in Nat /\ cb \in Nat /\ t \in Nat /\ tb \in Nat
      /\ pn = (p - w) + v /\ bn = (b - wb) + vb
  BY <1>1, <1>2, <1>3, <1>4
<1>6. x = h + t + p + c /\ xr = p /\ xc = tb + b + cb
  BY DEF InstBook
<1>7. y + w + h = x + v + g /\ yc + wb = xc + vb /\ yr + w = xr + v
  BY DEF RespBalanced
<1>8. m2.inst[j].active = OpActive(ops, j) /\ m2.inst[j].notifications = OpNotes(ops, j)
  BY DEF RespBalanced, InstBook
<1> HIDE DEF x, y, xr, yr, xc, yc, w, v, wb, vb, h, g, p, pn, b, bn, c, cb, t, tb
<1>9. y = g + t + pn + c /\ yr = pn /\ yc = tb + bn + cb
  BY <1>5, <1>6, <1>7
<1> QED BY <1>8, <1>9 DEF InstBook, RespBalanced, x, y, xr, yr, xc, yc, w, v, wb, vb, h, g, p, pn, b, bn, c,
                           cb, t, tb

\* One response changes, and the counters of instances with it.
LEMMA BooksResp ==
  ASSUME NEW ops \in [Ops -> OpRecords], NEW r \in Resps, NEW m, NEW m2,
         NEW hi \in [Insts -> Nat], NEW hr \in [Resps -> Nat],
         NEW hi2 \in [Insts -> Nat], NEW hr2 \in [Resps -> Nat], Books(m, ops, hi, hr),
         m2.inst \in [Insts -> InstRecords], m2.resp \in [Resps -> RespRecords], m2.chunk = m.chunk,
         \A s \in Resps : s # r => m2.resp[s] = m.resp[s] /\ hr2[s] = hr[s],
         m2.retained = ChargedIn(m2.inst),
         \A j \in Insts : RespBalanced(m.inst[j], m2.inst[j], m.resp[r], m2.resp[r], j, hi[j], hi2[j]),
         m2.resp[r].refs + hr[r] = m.resp[r].refs + hr2[r], m2.resp[r].chunks = m.resp[r].chunks,
         m2.resp[r].refs = 0 => m2.resp[r] = NoResp, m2.resp[r].refs # 0 => m2.resp[r].inst \in Insts
  PROVE  Books(m2, ops, hi2, hr2)
<1>1. /\ m.inst \in [Insts -> InstRecords] /\ m.resp \in [Resps -> RespRecords]
      /\ m.chunk \in [Chunks -> ChunkRecords]
  BY DEF Books
<1>2. ASSUME NEW j \in Insts PROVE InstBook(m2, ops, hi2, j)
  <2>1. InstBook(m, ops, hi, j) /\ m.inst[j] \in InstRecords /\ m2.inst[j] \in InstRecords
        /\ hi[j] \in Nat /\ hi2[j] \in Nat
    BY <1>1 DEF Books
  <2> QED BY <1>1, <2>1, InstRespBalance
<1>3. ASSUME NEW s \in Resps, s # r PROVE RespBook(m2, ops, hr2, s)
  BY <1>3 DEF Books, RespBook
<1>4. RespBook(m2, ops, hr2, r)
  <2> DEFINE x == m.resp[r].refs
             y == m2.resp[r].refs
             h == hr[r]
             g == hr2[r]
             a == OpHolds(ops, r)
             c == ChunksIn(m.chunk, r)
  <2>1. RespBook(m, ops, hr, r)
    BY DEF Books
  <2>2. m.resp[r] \in RespRecords /\ m2.resp[r] \in RespRecords
    BY <1>1
  <2>3. /\ x \in Nat /\ y \in Nat /\ h \in Nat /\ g \in Nat /\ a \in Nat /\ c \in Nat
        /\ x = h + a + c /\ y + h = x + g
    BY <1>1, <2>1, <2>2, OpSumsNat, SumsNat DEF RespBook, RespRecords
  <2> HIDE DEF x, y, h, g, a, c
  <2>4. y = g + a + c
    BY <2>3
  <2> QED BY <2>1, <2>4 DEF RespBook, x, y, h, g, a, c
<1> QED BY <1>1, <1>2, <1>3, <1>4 DEF Books

\* Records with the same counters.
AlikeInst(q, k) ==
  /\ q.refs = k.refs /\ q.active = k.active /\ q.notifications = k.notifications
  /\ q.responses = k.responses /\ q.charged = k.charged /\ (k.refs = 0 => q = k)
AlikeResp(q, k) ==
  /\ q.refs = k.refs /\ q.inst = k.inst /\ q.chunks = k.chunks /\ q.charge = k.charge
  /\ (k.refs = 0 => q = k)
AlikeOp(q, k) ==
  /\ q.inst = k.inst /\ q.event = k.event /\ q.resp = k.resp /\ q.kind = k.kind /\ q.charge = k.charge
  /\ q.stage = k.stage \/ {q.stage, k.stage} \subseteq {"queued"} \cup TaskStages

\* A change of flags keeps the books.
LEMMA BooksFlags ==
  ASSUME NEW m, NEW m2, NEW ops \in [Ops -> OpRecords], NEW next \in [Ops -> OpRecords], NEW hi, NEW hr,
         Books(m, ops, hi, hr), \A p \in Ops : AlikeOp(next[p], ops[p]),
         m2.inst \in [Insts -> InstRecords], \A i \in Insts : AlikeInst(m2.inst[i], m.inst[i]),
         m2.resp \in [Resps -> RespRecords], \A r \in Resps : AlikeResp(m2.resp[r], m.resp[r]),
         m2.chunk = m.chunk, m2.retained = m.retained
  PROVE  Books(m2, next, hi, hr)
<1>1. ASSUME NEW i
      PROVE  /\ OpRefsTo(next, i) = OpRefsTo(ops, i) /\ OpActive(next, i) = OpActive(ops, i)
             /\ OpNotes(next, i) = OpNotes(ops, i) /\ OpBytes(next, i) = OpBytes(ops, i)
             /\ OpHolds(next, i) = OpHolds(ops, i)
  BY OpAlike DEF AlikeOp
<1>2. ASSUME NEW i
      PROVE  RespsOf(m2.resp, i) = RespsOf(m.resp, i) /\ RespBytes(m2.resp, i) = RespBytes(m.resp, i)
  <2>1. \A r \in Resps : m2.resp[r].inst = m.resp[r].inst /\ m2.resp[r].charge = m.resp[r].charge
    BY DEF AlikeResp
  <2> QED BY <2>1, RespAlike
<1>3. ASSUME NEW i \in Insts PROVE InstBook(m2, next, hi, i)
  <2>1. InstBook(m, ops, hi, i) /\ AlikeInst(m2.inst[i], m.inst[i])
    BY DEF Books
  <2>2. m2.chunk = m.chunk
    OBVIOUS
  <2>3. /\ OpRefsTo(next, i) = OpRefsTo(ops, i) /\ OpActive(next, i) = OpActive(ops, i)
        /\ OpNotes(next, i) = OpNotes(ops, i) /\ OpBytes(next, i) = OpBytes(ops, i)
    BY <1>1
  <2>4. RespsOf(m2.resp, i) = RespsOf(m.resp, i) /\ RespBytes(m2.resp, i) = RespBytes(m.resp, i)
    BY <1>2
  <2> QED BY ONLY <2>1, <2>2, <2>3, <2>4 DEF InstBook, AlikeInst
<1>4. ASSUME NEW r \in Resps PROVE RespBook(m2, next, hr, r)
  <2>1. RespBook(m, ops, hr, r) /\ AlikeResp(m2.resp[r], m.resp[r]) /\ m2.chunk = m.chunk
    BY DEF Books
  <2>2. OpHolds(next, r) = OpHolds(ops, r)
    BY <1>1
  <2> QED BY ONLY <2>1, <2>2 DEF RespBook, AlikeResp
<1>5. m2.retained = ChargedIn(m2.inst)
  <2>1. \A j \in Insts : m2.inst[j].charged = m.inst[j].charged
    BY DEF AlikeInst
  <2> QED BY <2>1, ChargeSame DEF Books
<1> QED BY <1>3, <1>4, <1>5 DEF Books

\* The books do not see the operations' own records.
LEMMA BooksFrame ==
  ASSUME NEW m, NEW m2, NEW ops, NEW hi, NEW hr, Books(m, ops, hi, hr),
         m2.inst = m.inst, m2.resp = m.resp, m2.chunk = m.chunk, m2.retained = m.retained
  PROVE  Books(m2, ops, hi, hr)
BY DEF Books, InstBook, RespBook

\* The record of an instance after one response of it is gone.
LessResp(k, n) == [k EXCEPT !.charged = @ - n, !.responses = @ - 1]
\* The heap between response_drop's two halves.
RespGone(m, r) ==
  [uncharge(m, m.resp[r].inst, m.resp[r].charge) EXCEPT
     !.inst[m.resp[r].inst].responses = @ - 1, !.resp[r] = NoResp]

\* What response_drop changes.
LEMMA RespGoneIs ==
  ASSUME NEW m, IsHeap(m), NEW r \in Resps, m.inst \in [Insts -> InstRecords], m.resp[r].inst \in Insts
  PROVE  LET m2 == RespGone(m, r)
             i == m.resp[r].inst
         IN /\ IsHeap(m2) /\ m2.inst = [m.inst EXCEPT ![i] = LessResp(m.inst[i], m.resp[r].charge)]
            /\ m2.op = m.op /\ m2.resp = [m.resp EXCEPT ![r] = NoResp] /\ m2.chunk = m.chunk
            /\ m2.retained = m.retained - m.resp[r].charge
BY DEF IsHeap, RespGone, uncharge, LessResp, InstRecords
\* response_drop: the last reference frees the record, then drops the instance.
LEMMA RespDropIs ==
  ASSUME NEW m, NEW r
  PROVE  response_drop(m, r) = IF m.resp[r].refs = 1 THEN instance_drop(RespGone(m, r), m.resp[r].inst)
                               ELSE [m EXCEPT !.resp[r].refs = @ - 1]
BY DEF response_drop, RespGone

\* A response with a pointer in hand: with the last one, no operation and no chunk of it is left.
LEMMA LastRespRef ==
  ASSUME NEW m, NEW ops \in [Ops -> OpRecords], NEW hr, NEW r \in Resps, m.resp[r] \in RespRecords, hr[r] \in Nat,
         m.resp \in [Resps -> RespRecords], RespBook(m, ops, hr, r), hr[r] > 0
  PROVE  /\ m.resp[r].refs > 0 /\ m.resp[r].inst \in Insts
         /\ m.resp[r].refs = 1 => hr[r] = 1 /\ OpHolds(ops, r) = 0 /\ ChunksIn(m.chunk, r) = 0
                                  /\ m.resp[r].chunks = 0
<1> DEFINE a == OpHolds(ops, r)
           c == ChunksIn(m.chunk, r)
           h == hr[r]
           n == m.resp[r].refs
<1>1. a \in Nat /\ c \in Nat
  BY OpSumsNat, SumsNat
<1>2. h \in Nat /\ h > 0 /\ n = h + a + c
  BY DEF RespBook
<1> HIDE DEF a, c, h, n
<1>3. n > 0 /\ n # 0 /\ (n = 1 => h = 1 /\ a = 0 /\ c = 0)
  BY <1>1, <1>2
<1> QED BY <1>3 DEF RespBook, a, c, h, n

\* An instance has at least what one response of it adds.
LEMMA RespAdds ==
  ASSUME NEW m, NEW ops \in [Ops -> OpRecords], NEW hi \in [Insts -> Nat], NEW hr, Books(m, ops, hi, hr),
         NEW r \in Resps, m.resp[r].inst \in Insts
  PROVE  LET k == m.inst[m.resp[r].inst]
         IN /\ k \in InstRecords /\ k.refs > 0 /\ k.responses > 0 /\ k.charged >= m.resp[r].charge
            /\ m.resp[r].charge \in Nat
            /\ k.charged - m.resp[r].charge \in Nat /\ k.responses - 1 \in Nat
<1> DEFINE i == m.resp[r].inst
           n == m.resp[r].charge
<1>1. /\ m.inst \in [Insts -> InstRecords] /\ m.resp \in [Resps -> RespRecords]
      /\ InstBook(m, ops, hi, i) /\ hi[i] \in Nat
  BY DEF Books
<1>2. m.inst[i] \in InstRecords /\ n \in Nat
  <2>1. m.resp[r] \in RespRecords
    BY <1>1
  <2> QED BY <1>1, <2>1 DEF RespRecords
<1> DEFINE a == OpRefsTo(ops, i)
           b == RespsOf(m.resp, i)
           c == ChunksOf(m.chunk, i)
           h == hi[i]
           x == m.inst[i].refs
           y == m.inst[i].responses
           z == m.inst[i].charged
           u == OpBytes(ops, i)
           v == RespBytes(m.resp, i)
           w == ChunkBytes(m.chunk, i)
<1>3. a \in Nat /\ u \in Nat
  BY OpSumsNat
<1>4. b \in Nat /\ c \in Nat /\ v \in Nat /\ w \in Nat
  BY <1>1, SumsNat
<1>5. One(m.resp[r].inst = i) <= b /\ (IF m.resp[r].inst = i THEN m.resp[r].charge ELSE 0) <= v
  BY <1>1, RespChange
<1>6. 1 <= b /\ n <= v
  BY <1>5 DEF One
<1>7. h \in Nat /\ x = h + a + b + c /\ y = b /\ z = u + v + w
  BY <1>1 DEF InstBook
<1> HIDE DEF a, b, c, h, x, y, z, u, v, w, n
<1>8. x > 0 /\ y > 0 /\ z >= n /\ z - n \in Nat /\ y - 1 \in Nat
  BY <1>2, <1>3, <1>4, <1>6, <1>7
<1> QED BY <1>2, <1>8 DEF x, y, z, n

\* The fields of an instance with one response less.
LEMMA LessRespIs ==
  ASSUME NEW k \in InstRecords, NEW n, k.charged - n \in Nat, k.responses - 1 \in Nat
  PROVE  LET q == LessResp(k, n)
         IN /\ q \in InstRecords /\ q.refs = k.refs /\ q.active = k.active
            /\ q.notifications = k.notifications /\ q.responses = k.responses - 1
            /\ q.charged = k.charged - n /\ q.server = k.server /\ q.closing = k.closing
            /\ q.closed = k.closed /\ q.up = k.up
BY DEF LessResp, InstRecords

\* The last pointer to a response: it goes, and leaves a pointer to its instance in hand.
LEMMA RespGoneBooks ==
  ASSUME NEW m, IsHeap(m), NEW ops \in [Ops -> OpRecords], NEW hi \in [Insts -> Nat],
         NEW hr \in [Resps -> Nat], Books(m, ops, hi, hr), NEW r \in Resps, hr[r] > 0, m.resp[r].refs = 1
  PROVE  Books(RespGone(m, r), ops, [hi EXCEPT ![m.resp[r].inst] = @ + 1], [hr EXCEPT ![r] = @ - 1])
<1> DEFINE m2 == RespGone(m, r)
           i == m.resp[r].inst
           n == m.resp[r].charge
           hi2 == [hi EXCEPT ![i] = @ + 1]
           hr2 == [hr EXCEPT ![r] = @ - 1]
           q == LessResp(m.inst[i], n)
<1>1. /\ m.inst \in [Insts -> InstRecords] /\ m.resp \in [Resps -> RespRecords]
      /\ m.retained = ChargedIn(m.inst) /\ RespBook(m, ops, hr, r) /\ \A j \in Insts : InstBook(m, ops, hi, j)
  BY DEF Books
<1>2. m.resp[r] \in RespRecords /\ hr[r] \in Nat
  BY <1>1
<1>3. i \in Insts /\ hr[r] = 1 /\ m.resp[r].chunks = 0
  BY <1>1, <1>2, LastRespRef
<1>4. /\ m.inst[i] \in InstRecords /\ m.inst[i].refs > 0 /\ n \in Nat
      /\ m.inst[i].charged - n \in Nat /\ m.inst[i].responses - 1 \in Nat
  BY <1>3, RespAdds
<1>5. /\ m2.inst = [m.inst EXCEPT ![i] = q] /\ m2.resp = [m.resp EXCEPT ![r] = NoResp]
      /\ m2.chunk = m.chunk /\ m2.retained = m.retained - n
  BY <1>1, <1>3, RespGoneIs
<1>6. /\ q \in InstRecords /\ q.refs = m.inst[i].refs /\ q.active = m.inst[i].active
      /\ q.notifications = m.inst[i].notifications /\ q.responses = m.inst[i].responses - 1
      /\ q.charged = m.inst[i].charged - n
  BY <1>4, LessRespIs
<1>7. /\ hi2 \in [Insts -> Nat] /\ hi2[i] = hi[i] + 1 /\ \A j \in Insts : j # i => hi2[j] = hi[j]
  BY <1>3
<1>8. /\ hr2 \in [Resps -> Nat] /\ hr2[r] = 0 /\ \A s \in Resps : s # r => hr2[s] = hr[s]
  BY <1>3
<1> HIDE DEF m2, hi2, hr2, q
<1>9. /\ m2.inst \in [Insts -> InstRecords] /\ m2.inst[i] = q
      /\ \A j \in Insts : j # i => m2.inst[j] = m.inst[j]
  BY <1>1, <1>3, <1>5, <1>6
<1>10. /\ m2.resp \in [Resps -> RespRecords] /\ m2.resp[r] = NoResp
       /\ \A s \in Resps : s # r => m2.resp[s] = m.resp[s]
  <2>1. NoResp \in RespRecords
    BY BridgeAssumption DEF NoResp, RespRecords
  <2> QED BY <1>1, <1>5, <2>1
<1>11. m2.retained = ChargedIn(m2.inst)
  <2>1. \A j \in Insts : j # i => m2.inst[j].charged = m.inst[j].charged
    BY <1>9
  <2>2. /\ ChargedIn(m.inst) \in Nat /\ m.inst[i].charged <= ChargedIn(m.inst)
        /\ ChargedIn(m2.inst) = (ChargedIn(m.inst) - m.inst[i].charged) + m2.inst[i].charged
    BY <1>1, <1>3, <1>9, <2>1, ChargeChange
  <2> DEFINE a == ChargedIn(m.inst)
             b == m.inst[i].charged
  <2>3. b \in Nat /\ m2.inst[i].charged = b - n
    BY <1>4, <1>6, <1>9, InstNat
  <2> HIDE DEF a, b, n, i
  <2>4. (a - b) + (b - n) = a - n
    BY <1>4, <2>2, <2>3 DEF a
  <2> QED BY <1>1, <1>5, <2>2, <2>3, <2>4 DEF a, b
<1>12. NoResp.inst = None /\ NoResp.charge = 0 /\ NoResp.refs = 0 /\ NoResp.chunks = 0 /\ None \notin Insts
  BY BridgeAssumption DEF NoResp, Handles
<1>13. ASSUME NEW j \in Insts
       PROVE  RespBalanced(m.inst[j], m2.inst[j], m.resp[r], m2.resp[r], j, hi[j], hi2[j])
  <2>1. CASE j = i
    <3> DEFINE x == m.inst[i].refs
               y == m.inst[i].responses
               z == m.inst[i].charged
               h == hi[i]
    <3>1. x \in Nat /\ y \in Nat /\ z \in Nat /\ h \in Nat /\ n \in Nat /\ x > 0
      BY <1>3, <1>4, InstNat
    <3>2. /\ One(m.resp[r].inst = j) = 1 /\ One(m2.resp[r].inst = j) = 0
          /\ RespBy(m.resp[r], j) = n /\ RespBy(m2.resp[r], j) = 0
      BY <1>10, <1>12, <2>1 DEF One, RespBy
    <3>3. /\ m2.inst[j].refs = x /\ m2.inst[j].responses = y - 1 /\ m2.inst[j].charged = z - n
          /\ m2.inst[j].active = m.inst[j].active /\ m2.inst[j].notifications = m.inst[j].notifications
          /\ m.inst[j].refs = x /\ m.inst[j].responses = y /\ m.inst[j].charged = z
          /\ hi[j] = h /\ hi2[j] = h + 1
      BY <1>6, <1>7, <1>9, <2>1
    <3> HIDE DEF x, y, z, h, n, i
    <3>4. x + 1 + h = x + 0 + (h + 1) /\ (y - 1) + 1 = y + 0 /\ (z - n) + n = z + 0 /\ x # 0
      BY <3>1
    <3> QED BY <3>2, <3>3, <3>4 DEF RespBalanced
  <2>2. CASE j # i
    <3>1. /\ One(m.resp[r].inst = j) = 0 /\ One(m2.resp[r].inst = j) = 0
          /\ RespBy(m.resp[r], j) = 0 /\ RespBy(m2.resp[r], j) = 0
      BY <1>10, <1>12, <2>2 DEF One, RespBy
    <3>2. m2.inst[j] = m.inst[j] /\ hi2[j] = hi[j] /\ (m.inst[j].refs = 0 => m.inst[j] = NoInst)
      BY <1>1, <1>7, <1>9, <2>2 DEF InstBook
    <3>3. m.inst[j].refs \in Nat /\ m.inst[j].charged \in Nat /\ m.inst[j].responses \in Nat /\ hi[j] \in Nat
      BY <1>1, InstNat
    <3> QED BY <3>1, <3>2, <3>3 DEF RespBalanced
  <2> QED BY <2>1, <2>2
<1>14. /\ m2.resp[r].refs + hr[r] = m.resp[r].refs + hr2[r] /\ m2.resp[r].chunks = m.resp[r].chunks
       /\ m2.resp[r].refs = 0 => m2.resp[r] = NoResp
       /\ m2.resp[r].refs # 0 => m2.resp[r].inst \in Insts
  BY <1>3, <1>8, <1>10, <1>12
<1>15. /\ m2.inst \in [Insts -> InstRecords] /\ m2.resp \in [Resps -> RespRecords] /\ m2.chunk = m.chunk
       /\ \A s \in Resps : s # r => m2.resp[s] = m.resp[s] /\ hr2[s] = hr[s]
       /\ hi2 \in [Insts -> Nat] /\ hr2 \in [Resps -> Nat]
  BY <1>5, <1>7, <1>8, <1>9, <1>10
<1>16. Books(m2, ops, hi2, hr2)
  BY <1>11, <1>13, <1>14, <1>15, BooksResp
<1> QED BY <1>16 DEF m2, hi2, hr2

\* response_drop keeps the books.
LEMMA RespDropBooks ==
  ASSUME NEW m, IsHeap(m), NEW ops \in [Ops -> OpRecords], NEW hi \in [Insts -> Nat],
         NEW hr \in [Resps -> Nat], Books(m, ops, hi, hr), NEW r \in Resps, hr[r] > 0
  PROVE  Books(response_drop(m, r), ops, hi, [hr EXCEPT ![r] = @ - 1])
<1> DEFINE i == m.resp[r].inst
           hi2 == [hi EXCEPT ![i] = @ + 1]
           hr2 == [hr EXCEPT ![r] = @ - 1]
<1>1. /\ m.inst \in [Insts -> InstRecords] /\ m.resp \in [Resps -> RespRecords]
      /\ m.retained = ChargedIn(m.inst) /\ RespBook(m, ops, hr, r) /\ \A j \in Insts : InstBook(m, ops, hi, j)
  BY DEF Books
<1>2. m.resp[r] \in RespRecords /\ hr[r] \in Nat
  BY <1>1
<1>3. i \in Insts /\ m.resp[r].refs > 0
  BY <1>1, <1>2, LastRespRef
<1>4. CASE m.resp[r].refs = 1
  <2>1. Books(RespGone(m, r), ops, hi2, hr2)
    BY <1>4, RespGoneBooks
  <2>2. IsHeap(RespGone(m, r))
    BY <1>1, <1>3, RespGoneIs
  <2>3. hi2 \in [Insts -> Nat] /\ hi2[i] > 0 /\ [hi2 EXCEPT ![i] = @ - 1] = hi
    <3>1. hi[i] \in Nat /\ (hi[i] + 1) - 1 = hi[i] /\ hi[i] + 1 > 0 /\ hi[i] + 1 \in Nat
      BY <1>3
    <3> QED BY <1>3, <3>1
  <2> HIDE DEF hi2, hr2, i
  <2>4. Books(instance_drop(RespGone(m, r), i), ops, [hi2 EXCEPT ![i] = @ - 1], hr2)
    BY <1>3, <2>1, <2>2, <2>3, InstDropBooks
  <2> QED BY <1>4, <2>3, <2>4, RespDropIs DEF hr2, i
<1>5. CASE m.resp[r].refs # 1
  <2> DEFINE k == m.resp[r]
             l == [k EXCEPT !.refs = k.refs - 1]
             m2 == [m EXCEPT !.resp[r].refs = @ - 1]
  <2>1. k.refs \in Nat /\ k.refs - 1 \in Nat /\ k.refs - 1 # 0
    BY <1>2, <1>3, <1>5 DEF RespRecords
  <2>2. /\ l \in RespRecords /\ l.refs = k.refs - 1 /\ l.inst = i /\ l.chunks = k.chunks /\ l.charge = k.charge
    BY <1>2, <2>1 DEF RespRecords
  <2>3. m2.inst = m.inst /\ m2.resp = [m.resp EXCEPT ![r] = l] /\ m2.chunk = m.chunk /\ m2.retained = m.retained
    BY DEF IsHeap
  <2>4. hr2 \in [Resps -> Nat] /\ hr2[r] = hr[r] - 1 /\ \A s \in Resps : s # r => hr2[s] = hr[s]
    BY <1>2
  <2> HIDE DEF k, l, m2, hr2
  <2>5. m2.resp \in [Resps -> RespRecords] /\ m2.resp[r] = l /\ \A s \in Resps : s # r => m2.resp[s] = m.resp[s]
    BY <1>1, <2>2, <2>3
  <2>6. ASSUME NEW j \in Insts PROVE RespBalanced(m.inst[j], m2.inst[j], m.resp[r], m2.resp[r], j, hi[j], hi[j])
    <3>1. m2.resp[r].inst = m.resp[r].inst /\ RespBy(m2.resp[r], j) = RespBy(m.resp[r], j)
      BY <2>2, <2>5 DEF k, RespBy
    <3>2. m2.inst[j] = m.inst[j] /\ (m.inst[j].refs = 0 => m.inst[j] = NoInst)
      BY <1>1, <2>3 DEF InstBook
    <3> QED BY <3>1, <3>2 DEF RespBalanced
  <2>7. /\ m2.resp[r].refs + hr[r] = m.resp[r].refs + hr2[r] /\ m2.resp[r].chunks = m.resp[r].chunks
        /\ m2.resp[r].refs # 0 /\ m2.resp[r].inst \in Insts
    <3> DEFINE x == k.refs
               h == hr[r]
    <3>1. x \in Nat /\ h \in Nat /\ m2.resp[r].refs = x - 1 /\ m.resp[r].refs = x /\ hr2[r] = h - 1
      BY <1>2, <2>1, <2>2, <2>4, <2>5 DEF k
    <3> HIDE DEF x, h
    <3>2. (x - 1) + h = x + (h - 1)
      BY <3>1
    <3> QED BY <1>3, <2>1, <2>2, <2>5, <3>1, <3>2 DEF k, h
  <2>8. /\ m2.inst \in [Insts -> InstRecords] /\ m2.resp \in [Resps -> RespRecords] /\ m2.chunk = m.chunk
        /\ \A s \in Resps : s # r => m2.resp[s] = m.resp[s] /\ hr2[s] = hr[s]
        /\ hr2 \in [Resps -> Nat] /\ m2.retained = ChargedIn(m2.inst)
    BY <1>1, <2>3, <2>4, <2>5
  <2>9. Books(m2, ops, hi, hr2)
    BY <2>6, <2>7, <2>8, BooksResp
  <2> QED BY <1>5, <2>9, RespDropIs DEF m2, hr2
<1> QED BY <1>4, <1>5

\* An instance has at least what one operation of it adds.
LEMMA OpAdds ==
  ASSUME NEW m, NEW ops \in [Ops -> OpRecords], NEW hi \in [Insts -> Nat], NEW hr, Books(m, ops, hi, hr),
         NEW o \in Ops, NEW i \in Insts, ops[o].inst = i
  PROVE  LET k == m.inst[i]
         IN /\ k \in InstRecords /\ k.refs > 0 /\ ops[o].charge \in Nat /\ k.charged - ops[o].charge \in Nat
            /\ ops[o].stage \in Pending => k.active > 0
            /\ ops[o].stage \notin {"none", "returned"} => k.notifications > 0
<1>1. m.inst \in [Insts -> InstRecords] /\ InstBook(m, ops, hi, i) /\ hi[i] \in Nat
      /\ m.resp \in [Resps -> RespRecords]
  BY DEF Books
<1>2. m.inst[i] \in InstRecords /\ ops[o] \in OpRecords
  BY <1>1
<1> DEFINE a == OpRefsTo(ops, i)
           b == RespsOf(m.resp, i)
           c == ChunksOf(m.chunk, i)
           h == hi[i]
           x == m.inst[i].refs
           z == m.inst[i].charged
           u == OpBytes(ops, i)
           v == RespBytes(m.resp, i)
           w == ChunkBytes(m.chunk, i)
           n == ops[o].charge
<1>3. b \in Nat /\ c \in Nat /\ v \in Nat /\ w \in Nat
  BY <1>1, SumsNat
<1>4. /\ a \in Nat /\ RefsBy(ops[o], i) <= a /\ u \in Nat /\ BytesBy(ops[o], i) <= u
      /\ OpActive(ops, i) \in Nat /\ ActiveBy(ops[o], i) <= OpActive(ops, i)
      /\ OpNotes(ops, i) \in Nat /\ NotesBy(ops[o], i) <= OpNotes(ops, i)
  BY OpChange
<1>5. /\ 1 <= RefsBy(ops[o], i) /\ RefsBy(ops[o], i) \in Nat /\ BytesBy(ops[o], i) = n /\ n \in Nat
      /\ ops[o].stage \in Pending => ActiveBy(ops[o], i) = 1
      /\ ops[o].stage \notin {"none", "returned"} => NotesBy(ops[o], i) = 1
  BY <1>2 DEF RefsBy, BytesBy, ActiveBy, NotesBy, One, Pending, OpRecords
<1>6. h \in Nat /\ x = h + a + b + c /\ z = u + v + w
      /\ m.inst[i].active = OpActive(ops, i) /\ m.inst[i].notifications = OpNotes(ops, i)
  BY <1>1 DEF InstBook
<1>7. 1 <= a /\ n <= u
  BY <1>4, <1>5
<1> HIDE DEF a, b, c, h, x, z, u, v, w, n
<1>8. x > 0 /\ z - n \in Nat
  BY <1>3, <1>4, <1>5, <1>6, <1>7
<1>9. /\ ops[o].stage \in Pending => m.inst[i].active > 0
      /\ ops[o].stage \notin {"none", "returned"} => m.inst[i].notifications > 0
  BY <1>4, <1>5, <1>6
<1> QED BY <1>2, <1>5, <1>8, <1>9 DEF x, z, n

\* A response that an operation belongs to has a reference.
LEMMA RespHeld ==
  ASSUME NEW m, NEW ops \in [Ops -> OpRecords], NEW hi, NEW hr \in [Resps -> Nat], Books(m, ops, hi, hr),
         NEW r \in Resps
  PROVE  /\ m.resp[r].refs \in Nat
         /\ \A o \in Ops : ops[o].resp = r \/ ops[o].event = r => m.resp[r].refs # 0
         /\ \A c \in Chunks : m.chunk[c].resp = r => m.resp[r].refs # 0 /\ m.resp[r].chunks # 0
         /\ hr[r] # 0 => m.resp[r].refs # 0
         /\ m.resp[r].refs # 0 => m.resp[r].inst \in Insts
<1> DEFINE a == OpHolds(ops, r)
           c == ChunksIn(m.chunk, r)
           h == hr[r]
           n == m.resp[r].refs
<1>1. a \in Nat /\ c \in Nat /\ h \in Nat /\ n \in Nat
  <2>1. m.resp[r] \in RespRecords /\ m.resp \in [Resps -> RespRecords]
    BY DEF Books
  <2> QED BY <2>1, OpSumsNat, SumsNat DEF RespRecords
<1>2. n = h + a + c /\ m.resp[r].chunks = c /\ (m.resp[r].refs # 0 => m.resp[r].inst \in Insts)
  BY DEF Books, RespBook
<1>3. ASSUME NEW o \in Ops, ops[o].resp = r \/ ops[o].event = r PROVE a # 0
  <2>1. HoldsResp(ops[o], r) <= a
    BY OpChange
  <2>2. HoldsResp(ops[o], r) >= 1 /\ HoldsResp(ops[o], r) \in Nat
    BY <1>3 DEF HoldsResp, One
  <2> HIDE DEF a
  <2> QED BY <1>1, <2>1, <2>2
<1>4. ASSUME NEW d \in Chunks, m.chunk[d].resp = r PROVE c # 0
  <2>0. \E next : next = m.chunk
    OBVIOUS
  <2>1. PICK next : next = m.chunk
    BY <2>0
  <2>2. One(m.chunk[d].resp = r) <= c
    BY <2>1, ChunkChange DEF ChunkMoved
  <2> QED BY <1>4, <2>2 DEF One
<1> HIDE DEF a, c, h, n
<1>5. (h # 0 => n # 0) /\ (a # 0 => n # 0) /\ (c # 0 => n # 0)
  BY <1>1, <1>2
<1> QED BY <1>1, <1>2, <1>3, <1>4, <1>5 DEF c, h, n

\* An instance that somebody points to has a reference.
LEMMA InstRefd ==
  ASSUME NEW m, NEW ops \in [Ops -> OpRecords], NEW hi \in [Insts -> Nat], NEW hr, Books(m, ops, hi, hr),
         NEW i \in Insts
  PROVE  /\ m.inst[i].refs \in Nat
         /\ \A o \in Ops : ops[o].inst = i \/ ops[o].event = i => m.inst[i].refs # 0
         /\ \A r \in Resps : m.resp[r].inst = i => m.inst[i].refs # 0
         /\ \A c \in Chunks : m.chunk[c].inst = i => m.inst[i].refs # 0
         /\ hi[i] # 0 => m.inst[i].refs # 0
         /\ m.inst[i].refs = 0 => m.inst[i] = NoInst
<1> DEFINE a == OpRefsTo(ops, i)
           b == RespsOf(m.resp, i)
           c == ChunksOf(m.chunk, i)
           h == hi[i]
           n == m.inst[i].refs
<1>0. m.resp \in [Resps -> RespRecords] /\ m.inst[i] \in InstRecords
  BY DEF Books
<1>1. a \in Nat /\ b \in Nat /\ c \in Nat /\ h \in Nat /\ n \in Nat
  BY <1>0, OpSumsNat, SumsNat, InstNat
<1>2. n = h + a + b + c /\ (m.inst[i].refs = 0 => m.inst[i] = NoInst)
  BY DEF Books, InstBook
<1> HIDE DEF a, b, c, h, n
<1>3. n = 0 => h = 0 /\ a = 0 /\ b = 0 /\ c = 0
  BY <1>1, <1>2
<1>4. n = 0 => /\ \A o \in Ops : ops[o].inst # i /\ ops[o].event # i
               /\ \A r \in Resps : m.resp[r].inst # i
               /\ \A d \in Chunks : m.chunk[d].inst # i
  <2> SUFFICES ASSUME n = 0
               PROVE  /\ \A o \in Ops : ops[o].inst # i /\ ops[o].event # i
                      /\ \A r \in Resps : m.resp[r].inst # i
                      /\ \A d \in Chunks : m.chunk[d].inst # i
    OBVIOUS
  <2>1. \A o \in Ops : ops[o].inst # i /\ ops[o].event # i
    BY <1>3, OpNone DEF a
  <2>2. \A r \in Resps : m.resp[r].inst # i
    BY <1>0, <1>3, RespNone DEF b
  <2>3. \A d \in Chunks : m.chunk[d].inst # i
    BY <1>3, ChunkNone DEF c
  <2> QED BY <2>1, <2>2, <2>3
<1> QED BY <1>1, <1>2, <1>3, <1>4 DEF h, n

\* Other instances are not affected.
LEMMA Untouched ==
  ASSUME NEW was \in InstRecords, NEW k, NEW l, NEW j, NEW ha \in Nat,
         k.inst # j, k.event # j, l.inst # j, l.event # j, was.refs = 0 => was = NoInst
  PROVE  Balanced(was, was, k, l, j, ha, ha)
<1>1. /\ RefsBy(k, j) = 0 /\ RefsBy(l, j) = 0 /\ ActiveBy(k, j) = 0 /\ ActiveBy(l, j) = 0
      /\ NotesBy(k, j) = 0 /\ NotesBy(l, j) = 0 /\ BytesBy(k, j) = 0 /\ BytesBy(l, j) = 0
  BY DEF RefsBy, ActiveBy, NotesBy, BytesBy, One
<1> QED BY <1>1 DEF Balanced

\* The charge of one instance changes, and retained_bytes with it.
LEMMA Recharged ==
  ASSUME NEW m, NEW m2, NEW i \in Insts, m.inst \in [Insts -> InstRecords], m2.inst \in [Insts -> InstRecords],
         m.retained = ChargedIn(m.inst), \A j \in Insts : j # i => m2.inst[j] = m.inst[j],
         m2.inst[i].charged + m.retained = m.inst[i].charged + m2.retained, m2.retained \in Int
  PROVE  m2.retained = ChargedIn(m2.inst)
<1>1. /\ ChargedIn(m.inst) \in Nat /\ m.inst[i].charged <= ChargedIn(m.inst)
      /\ ChargedIn(m2.inst) = (ChargedIn(m.inst) - m.inst[i].charged) + m2.inst[i].charged
  <2>1. \A j \in Insts : j # i => m2.inst[j].charged = m.inst[j].charged
    OBVIOUS
  <2> QED BY <2>1, ChargeChange
<1> DEFINE a == ChargedIn(m.inst)
           b == m.inst[i].charged
           c == m2.inst[i].charged
           d == m2.retained
<1>2. a \in Nat /\ b \in Nat /\ c \in Nat /\ d \in Int /\ c + a = b + d
  BY <1>1, InstNat
<1> HIDE DEF a, b, c, d
<1>3. d = (a - b) + c
  BY <1>2
<1> QED BY <1>1, <1>3 DEF a, b, c, d

\* retained_bytes is a number.
LEMMA RetainedNat ==
  ASSUME NEW m, NEW ops, NEW hi, NEW hr, Books(m, ops, hi, hr)
  PROVE  m.retained \in Nat /\ \A i \in Insts : m.inst[i].charged \in Nat /\ m.inst[i].charged <= m.retained
<1>1. m.inst \in [Insts -> InstRecords] /\ m.retained = ChargedIn(m.inst)
  BY DEF Books
<1>2. CASE Insts = {}
  <2>1. ChargedIn(m.inst) = 0
    BY <1>2, SumEmpty DEF ChargedIn
  <2> QED BY <1>1, <1>2, <2>1
<1>3. ASSUME NEW i \in Insts PROVE ChargedIn(m.inst) \in Nat /\ m.inst[i].charged <= ChargedIn(m.inst)
                                   /\ m.inst[i].charged \in Nat
  BY <1>1, ChargeChange, InstNat
<1> QED BY <1>1, <1>2, <1>3

\* What uncharge changes.
LEMMA UnchargeIs ==
  ASSUME NEW m, IsHeap(m), NEW i \in Insts, m.inst \in [Insts -> InstRecords], NEW n
  PROVE  LET m2 == uncharge(m, i, n)
             q == [m.inst[i] EXCEPT !.charged = m.inst[i].charged - n]
         IN /\ IsHeap(m2) /\ m2.inst = [m.inst EXCEPT ![i] = q]
            /\ m2.op = m.op /\ m2.resp = m.resp /\ m2.chunk = m.chunk /\ m2.retained = m.retained - n
BY DEF IsHeap, uncharge

\* A record charged otherwise.
LEMMA ChargedIs ==
  ASSUME NEW k \in InstRecords, NEW n \in Nat
  PROVE  LET q == [k EXCEPT !.charged = n]
         IN /\ q \in InstRecords /\ q.refs = k.refs /\ q.active = k.active
            /\ q.notifications = k.notifications /\ q.responses = k.responses
            /\ q.charged = n /\ q.server = k.server /\ q.closing = k.closing
            /\ q.closed = k.closed /\ q.up = k.up
BY DEF InstRecords

NoOpIs == /\ NoOp.inst = None /\ NoOp.resp = None /\ NoOp.event = None /\ NoOp.charge = 0
          /\ NoOp.stage = "none" /\ NoOp.kind = "drop" /\ NoOp.refs = 0
          /\ None \notin Insts /\ None \notin Resps /\ None \notin Chunks /\ NoOp \in OpRecords
\* An unused slot points nowhere.
LEMMA NoOpFacts == NoOpIs
BY BridgeAssumption DEF NoOpIs, NoOp, Handles, OpRecords, Kinds, Business, Stages

\* A returned operation that nobody needs: it goes, and leaves its pointers in hand.
LEMMA OpGoneBooks ==
  ASSUME NEW m, IsHeap(m), NEW ops \in [Ops -> OpRecords], NEW hi \in [Insts -> Nat],
         NEW hr \in [Resps -> Nat], Books(m, ops, hi, hr), NEW o \in Ops,
         ops[o].stage = "returned", ops[o].event = None, ops[o].inst \in Insts
  PROVE  Books(uncharge(m, ops[o].inst, ops[o].charge), [ops EXCEPT ![o] = NoOp],
               [hi EXCEPT ![ops[o].inst] = @ + 1],
               IF ops[o].resp = None THEN hr ELSE [hr EXCEPT ![ops[o].resp] = @ + 1])
<1> DEFINE i == ops[o].inst
           k == ops[o]
           n == ops[o].charge
           m2 == uncharge(m, i, n)
           next == [ops EXCEPT ![o] = NoOp]
           hi2 == [hi EXCEPT ![i] = @ + 1]
           hr2 == IF k.resp = None THEN hr ELSE [hr EXCEPT ![k.resp] = @ + 1]
           q == [m.inst[i] EXCEPT !.charged = m.inst[i].charged - n]
<1> USE NoOpFacts DEF NoOpIs
<1>0. k \in OpRecords /\ k.resp \in Resps \cup {None}
  BY DEF OpRecords
<1>1. /\ m.inst \in [Insts -> InstRecords] /\ m.retained = ChargedIn(m.inst) /\ i \in Insts
      /\ \A j \in Insts : InstBook(m, ops, hi, j)
  BY DEF Books
<1>2. m.inst[i] \in InstRecords /\ m.inst[i].refs > 0 /\ n \in Nat /\ m.inst[i].charged - n \in Nat
  BY OpAdds
<1>3. /\ m2.inst = [m.inst EXCEPT ![i] = q] /\ m2.resp = m.resp /\ m2.chunk = m.chunk
      /\ m2.retained = m.retained - n
  BY <1>1, UnchargeIs
<1>4. /\ q \in InstRecords /\ q.refs = m.inst[i].refs /\ q.active = m.inst[i].active
      /\ q.notifications = m.inst[i].notifications /\ q.responses = m.inst[i].responses
      /\ q.charged = m.inst[i].charged - n
  BY <1>2, ChargedIs
<1>5. /\ next \in [Ops -> OpRecords] /\ next[o] = NoOp /\ \A p \in Ops : p # o => next[p] = ops[p]
  OBVIOUS
<1>6. /\ hi2 \in [Insts -> Nat] /\ hi2[i] = hi[i] + 1 /\ \A j \in Insts : j # i => hi2[j] = hi[j]
  BY <1>1
<1>7. /\ hr2 \in [Resps -> Nat] /\ \A r \in Resps : hr2[r] = hr[r] + One(k.resp = r)
  BY <1>0 DEF One
<1> HIDE DEF m2, next, hi2, hr2, q
<1>8. /\ m2.inst \in [Insts -> InstRecords] /\ m2.inst[i] = q
      /\ \A j \in Insts : j # i => m2.inst[j] = m.inst[j]
  BY <1>1, <1>3, <1>4
<1>9. m2.retained = ChargedIn(m2.inst)
  <2> DEFINE a == m.retained
             b == m.inst[i].charged
  <2>1. a \in Nat /\ b \in Nat /\ m2.inst[i].charged = b - n /\ m2.retained = a - n
    BY <1>2, <1>3, <1>4, <1>8, InstNat, RetainedNat
  <2> HIDE DEF a, b, n
  <2>2. (b - n) + a = b + (a - n) /\ a - n \in Int
    BY <1>2, <2>1
  <2>3. m2.inst[i].charged + m.retained = m.inst[i].charged + m2.retained /\ m2.retained \in Int
    BY <2>1, <2>2 DEF a, b
  <2> HIDE DEF i
  <2> QED BY <1>1, <1>8, <2>3, Recharged
<1>10. ASSUME NEW j \in Insts
       PROVE  Balanced(m.inst[j], m2.inst[j], ops[o], next[o], j, hi[j], hi2[j])
  <2>1. CASE j = i
    <3> DEFINE x == m.inst[i].refs
               z == m.inst[i].charged
               h == hi[i]
    <3>1. x \in Nat /\ z \in Nat /\ h \in Nat /\ n \in Nat /\ x > 0
          /\ m.inst[i].active \in Nat /\ m.inst[i].notifications \in Nat
      BY <1>1, <1>2, InstNat
    <3>2. /\ RefsBy(ops[o], j) = 1 /\ RefsBy(next[o], j) = 0 /\ ActiveBy(ops[o], j) = 0
          /\ ActiveBy(next[o], j) = 0 /\ NotesBy(ops[o], j) = 0 /\ NotesBy(next[o], j) = 0
          /\ BytesBy(ops[o], j) = n /\ BytesBy(next[o], j) = 0
      BY <1>5, <2>1 DEF RefsBy, ActiveBy, NotesBy, BytesBy, One, TaskStages
    <3>3. /\ m2.inst[j].refs = x /\ m2.inst[j].responses = m.inst[j].responses /\ m2.inst[j].charged = z - n
          /\ m2.inst[j].active = m.inst[j].active /\ m2.inst[j].notifications = m.inst[j].notifications
          /\ m.inst[j].refs = x /\ m.inst[j].charged = z
          /\ hi[j] = h /\ hi2[j] = h + 1 /\ m.inst[j].active \in Nat /\ m.inst[j].notifications \in Nat
      BY <1>4, <1>6, <1>8, <2>1, <3>1
    <3> HIDE DEF x, z, h, n, i
    <3>4. x + 1 + h = x + 0 + (h + 1) /\ (z - n) + n = z + 0 /\ x # 0
      BY <3>1
    <3> QED BY <3>2, <3>3, <3>4 DEF Balanced
  <2>2. CASE j # i
    <3>1. m2.inst[j] = m.inst[j] /\ hi2[j] = hi[j] /\ (m.inst[j].refs = 0 => m.inst[j] = NoInst)
      BY <1>1, <1>6, <1>8, <2>2 DEF InstBook
    <3>2. m.inst[j] \in InstRecords /\ hi[j] \in Nat
      BY <1>1
    <3>3. ops[o].inst # j /\ ops[o].event # j /\ next[o].inst # j /\ next[o].event # j
      BY <1>5, <2>2
    <3> QED BY <3>1, <3>2, <3>3, Untouched
  <2> QED BY <2>1, <2>2
<1>11. \A r \in Resps : HoldsResp(next[o], r) + hr2[r] = HoldsResp(ops[o], r) + hr[r]
  <2> SUFFICES ASSUME NEW r \in Resps PROVE HoldsResp(next[o], r) + hr2[r] = HoldsResp(ops[o], r) + hr[r]
    OBVIOUS
  <2>1. HoldsResp(next[o], r) = 0 /\ HoldsResp(ops[o], r) = One(k.resp = r) /\ One(k.resp = r) \in Nat
    BY <1>5 DEF HoldsResp, One
  <2>2. hr[r] \in Nat /\ hr2[r] = hr[r] + One(k.resp = r)
    BY <1>7
  <2> QED BY <2>1, <2>2
<1>12. /\ next \in [Ops -> OpRecords] /\ \A p \in Ops : p # o => next[p] = ops[p]
       /\ hi2 \in [Insts -> Nat] /\ hr2 \in [Resps -> Nat]
       /\ m2.inst \in [Insts -> InstRecords] /\ m2.resp = m.resp /\ m2.chunk = m.chunk
  BY <1>3, <1>5, <1>6, <1>7, <1>8
<1> HIDE NoOpFacts DEF NoOpIs, i, k, n
<1>13. Books(m2, next, hi2, hr2)
  <2>1. OpStep(m, m2, ops, next, o, hi, hi2, hr, hr2)
    BY <1>9, <1>10, <1>11, <1>12 DEF OpStep
  <2> QED BY <2>1, BooksOp
<1> QED BY <1>13 DEF i, k, n, m2, next, hi2, hr2

\* response_drop returns a heap, and the same operations and chunks.
LEMMA RespDropFrame ==
  ASSUME NEW m, IsHeap(m), NEW r \in Resps, m.inst \in [Insts -> InstRecords],
         m.resp[r].refs = 1 => m.resp[r].inst \in Insts
  PROVE  LET m2 == response_drop(m, r)
         IN IsHeap(m2) /\ m2.op = m.op /\ m2.chunk = m.chunk
<1>1. CASE m.resp[r].refs = 1
  <2> DEFINE m1 == RespGone(m, r)
             i == m.resp[r].inst
  <2>1. IsHeap(m1) /\ m1.op = m.op /\ m1.chunk = m.chunk
    BY <1>1, RespGoneIs
  <2> HIDE DEF m1, i
  <2>2. LET m2 == instance_drop(m1, i) IN IsHeap(m2) /\ m2.op = m1.op /\ m2.chunk = m1.chunk
    BY <2>1, InstDropIs
  <2> QED BY <1>1, <2>1, <2>2, RespDropIs DEF m1, i
<1>2. CASE m.resp[r].refs # 1
  BY <1>2, RespDropIs DEF IsHeap
<1> QED BY <1>1, <1>2

\* One more, then one less.
LEMMA MoreLess ==
  ASSUME NEW S, NEW h \in [S -> Nat], NEW x \in S
  PROVE  LET g == [h EXCEPT ![x] = @ + 1]
         IN g \in [S -> Nat] /\ g[x] > 0 /\ [g EXCEPT ![x] = @ - 1] = h
<1>1. h[x] \in Nat /\ (h[x] + 1) - 1 = h[x] /\ h[x] + 1 > 0 /\ h[x] + 1 \in Nat
  OBVIOUS
<1> QED BY <1>1

\* op_drop of the last reference keeps the books.
LEMMA OpDropBooks ==
  ASSUME NEW m, IsHeap(m), NEW ops \in [Ops -> OpRecords], NEW hi \in [Insts -> Nat],
         NEW hr \in [Resps -> Nat], Books(m, ops, hi, hr), NEW o \in Ops,
         ops[o].stage = "returned", ops[o].event = None, ops[o].inst \in Insts,
         m.op[o].inst = ops[o].inst, m.op[o].resp = ops[o].resp, m.op[o].charge = ops[o].charge,
         m.op[o].refs = 1
  PROVE  Books(op_drop(m, o), [ops EXCEPT ![o] = NoOp], hi, hr)
<1> DEFINE i == ops[o].inst
           r == ops[o].resp
           next == [ops EXCEPT ![o] = NoOp]
           hi2 == [hi EXCEPT ![i] = @ + 1]
           hr2 == [hr EXCEPT ![r] = @ + 1]
           m1 == uncharge(m, i, ops[o].charge)
           m2 == IF r = None THEN m1 ELSE response_drop(m1, r)
           m3 == instance_drop(m2, i)
           m4 == [m3 EXCEPT !.op[o] = NoOp]
<1>0. r \in Resps \cup {None} /\ i \in Insts /\ next \in [Ops -> OpRecords]
  <2>1. ops[o] \in OpRecords
    OBVIOUS
  <2>2. r \in Resps \cup {None}
    BY <2>1 DEF OpRecords
  <2> QED BY <2>2, NoOpFacts DEF NoOpIs
<1>1. op_drop(m, o) = m4
  BY DEF op_drop
<1>2. Books(m1, next, hi2, IF r = None THEN hr ELSE hr2)
  BY OpGoneBooks
<1>3. IsHeap(m1)
  BY <1>0, UnchargeIs DEF Books
<1>4. hi2 \in [Insts -> Nat] /\ hi2[i] > 0 /\ [hi2 EXCEPT ![i] = @ - 1] = hi
  BY <1>0, MoreLess
<1>5. r # None => hr2 \in [Resps -> Nat] /\ hr2[r] > 0 /\ [hr2 EXCEPT ![r] = @ - 1] = hr
  BY <1>0, MoreLess
<1> HIDE DEF m1, hi2, hr2, i, r, next
<1>6. IsHeap(m2) /\ Books(m2, next, hi2, hr)
  <2>1. CASE r = None
    BY <1>2, <1>3, <2>1
  <2>2. CASE r # None
    <3>0. r \in Resps /\ hr2 \in [Resps -> Nat] /\ hr2[r] > 0 /\ [hr2 EXCEPT ![r] = @ - 1] = hr
          /\ Books(m1, next, hi2, hr2)
      BY <1>0, <1>2, <1>5, <2>2
    <3>1. Books(response_drop(m1, r), next, hi2, [hr2 EXCEPT ![r] = @ - 1])
      BY <1>0, <1>3, <1>4, <3>0, RespDropBooks
    <3>2. m1.inst \in [Insts -> InstRecords] /\ (m1.resp[r].refs = 1 => m1.resp[r].inst \in Insts)
      BY <3>0 DEF Books, RespBook
    <3>3. IsHeap(response_drop(m1, r))
      BY <1>3, <3>0, <3>2, RespDropFrame
    <3> QED BY <2>2, <3>0, <3>1, <3>3
  <2> QED BY <2>1, <2>2
<1> HIDE DEF m2
<1>7. IsHeap(m3) /\ Books(m3, next, hi, hr)
  <2>1. Books(m3, next, [hi2 EXCEPT ![i] = @ - 1], hr)
    BY <1>0, <1>4, <1>6, InstDropBooks
  <2>2. IsHeap(m3)
    BY <1>6, InstDropIs
  <2> QED BY <1>4, <2>1, <2>2
<1> HIDE DEF m3
<1>8. m4.inst = m3.inst /\ m4.resp = m3.resp /\ m4.chunk = m3.chunk /\ m4.retained = m3.retained
  BY <1>7 DEF IsHeap
<1> HIDE DEF m4
<1>9. Books(m4, next, hi, hr)
  BY <1>7, <1>8, BooksFrame
<1> QED BY <1>1, <1>9 DEF next

\* The record of one operation changes from ops[o] to k, and that of instance i to q.
At(m, m2, ops, o, k, hi, hb, hr, hr2, i, q) ==
  /\ k \in OpRecords /\ hb \in Nat /\ hr2 \in [Resps -> Nat] /\ q \in InstRecords
  /\ m2.inst = [m.inst EXCEPT ![i] = q] /\ m2.resp = m.resp /\ m2.chunk = m.chunk /\ m2.retained \in Int
  /\ q.charged + m.retained = m.inst[i].charged + m2.retained
  /\ {ops[o].inst, ops[o].event, k.inst, k.event} \cap Insts \subseteq {i}
  /\ Balanced(m.inst[i], q, ops[o], k, i, hi[i], hb)
  /\ \A r \in Resps : HoldsResp(k, r) + hr2[r] = HoldsResp(ops[o], r) + hr[r]
\* The books balance when the record of o becomes k and the counters of instance i follow.
LEMMA BooksAt ==
  ASSUME NEW ops \in [Ops -> OpRecords], NEW o \in Ops, NEW k, NEW m, NEW m2,
         NEW hi \in [Insts -> Nat], NEW hr \in [Resps -> Nat], NEW hb, NEW hr2,
         Books(m, ops, hi, hr), NEW i \in Insts, NEW q, At(m, m2, ops, o, k, hi, hb, hr, hr2, i, q)
  PROVE  Books(m2, [ops EXCEPT ![o] = k], [hi EXCEPT ![i] = hb], hr2)
<1> USE DEF At
<1> DEFINE next == [ops EXCEPT ![o] = k]
           hi2 == [hi EXCEPT ![i] = hb]
<1>1. /\ m.inst \in [Insts -> InstRecords] /\ m.retained = ChargedIn(m.inst)
      /\ \A j \in Insts : InstBook(m, ops, hi, j)
  BY DEF Books
<1>2. /\ next \in [Ops -> OpRecords] /\ next[o] = k /\ \A p \in Ops : p # o => next[p] = ops[p]
  OBVIOUS
<1>3. /\ hi2 \in [Insts -> Nat] /\ hi2[i] = hb /\ \A j \in Insts : j # i => hi2[j] = hi[j]
  OBVIOUS
<1>4. /\ m2.inst \in [Insts -> InstRecords] /\ m2.inst[i] = q
      /\ \A j \in Insts : j # i => m2.inst[j] = m.inst[j]
  BY <1>1
<1> HIDE DEF next, hi2
<1>5. m2.retained = ChargedIn(m2.inst)
  <2>1. m2.inst[i].charged + m.retained = m.inst[i].charged + m2.retained
    BY <1>4
  <2>2. /\ i \in Insts /\ m.inst \in [Insts -> InstRecords] /\ m2.inst \in [Insts -> InstRecords]
        /\ m.retained = ChargedIn(m.inst) /\ \A j \in Insts : j # i => m2.inst[j] = m.inst[j]
        /\ m2.retained \in Int
    BY <1>1, <1>4
  <2> QED BY ONLY <2>1, <2>2, Recharged
<1>6. ASSUME NEW j \in Insts
      PROVE  Balanced(m.inst[j], m2.inst[j], ops[o], next[o], j, hi[j], hi2[j])
  <2>1. CASE j = i
    BY <1>2, <1>3, <1>4, <2>1
  <2>2. CASE j # i
    <3>1. m2.inst[j] = m.inst[j] /\ hi2[j] = hi[j] /\ (m.inst[j].refs = 0 => m.inst[j] = NoInst)
      BY <1>1, <1>3, <1>4, <2>2 DEF InstBook
    <3>2. m.inst[j] \in InstRecords /\ hi[j] \in Nat
      BY <1>1
    <3>3. ops[o].inst # j /\ ops[o].event # j /\ next[o].inst # j /\ next[o].event # j
      BY <1>2, <2>2
    <3> QED BY <3>1, <3>2, <3>3, Untouched
  <2> QED BY <2>1, <2>2
<1>7. OpStep(m, m2, ops, next, o, hi, hi2, hr, hr2)
  BY <1>2, <1>3, <1>4, <1>5, <1>6 DEF OpStep
<1>8. Books(m2, next, hi2, hr2)
  BY <1>7, BooksOp
<1> QED BY <1>8 DEF next, hi2

\* A pointer to an instance is taken, or given up, by nobody in particular.
LEMMA BooksInst ==
  ASSUME NEW ops \in [Ops -> OpRecords], NEW m, NEW m2, NEW hi \in [Insts -> Nat], NEW hr, NEW hb \in Nat,
         Books(m, ops, hi, hr), NEW i \in Insts, NEW q \in InstRecords,
         m2.inst = [m.inst EXCEPT ![i] = q], m2.resp = m.resp, m2.chunk = m.chunk, m2.retained = m.retained,
         q.refs + hi[i] = m.inst[i].refs + hb, q.active = m.inst[i].active,
         q.notifications = m.inst[i].notifications, q.responses = m.inst[i].responses,
         q.charged = m.inst[i].charged, q.refs # 0
  PROVE  Books(m2, ops, [hi EXCEPT ![i] = hb], hr)
<1> DEFINE hi2 == [hi EXCEPT ![i] = hb]
<1>1. /\ m.inst \in [Insts -> InstRecords] /\ m.retained = ChargedIn(m.inst)
      /\ m.resp \in [Resps -> RespRecords] /\ m.chunk \in [Chunks -> ChunkRecords]
      /\ \A j \in Insts : InstBook(m, ops, hi, j)
      /\ \A r \in Resps : RespBook(m, ops, hr, r)
  BY DEF Books
<1>2. /\ hi2 \in [Insts -> Nat] /\ hi2[i] = hb /\ \A j \in Insts : j # i => hi2[j] = hi[j]
  OBVIOUS
<1>3. /\ m2.inst \in [Insts -> InstRecords] /\ m2.inst[i] = q
      /\ \A j \in Insts : j # i => m2.inst[j] = m.inst[j]
  BY <1>1
<1> HIDE DEF hi2
<1>4. m2.retained = ChargedIn(m2.inst)
  <2>1. \A j \in Insts : m2.inst[j].charged = m.inst[j].charged
    BY <1>3
  <2> QED BY <1>1, <2>1, ChargeSame
<1>5. InstBook(m2, ops, hi2, i)
  <2> DEFINE a == OpRefsTo(ops, i)
             b == RespsOf(m.resp, i)
             c == ChunksOf(m.chunk, i)
             h == hi[i]
             x == m.inst[i].refs
             y == q.refs
  <2>1. m.inst[i] \in InstRecords
    BY <1>1
  <2>2. a \in Nat /\ b \in Nat /\ c \in Nat /\ h \in Nat /\ x \in Nat /\ y \in Nat
    BY <1>1, <2>1, OpSumsNat, SumsNat, InstNat
  <2>3. x = h + a + b + c /\ y + h = x + hb
    BY <1>1 DEF InstBook
  <2> HIDE DEF a, b, c, h, x, y
  <2>4. y = hb + a + b + c
    BY <2>2, <2>3
  <2>5. InstBook(m, ops, hi, i)
    BY <1>1
  <2> QED BY <1>2, <1>3, <2>4, <2>5 DEF InstBook, a, b, c, y
<1>6. \A j \in Insts : j # i => InstBook(m2, ops, hi2, j)
  BY <1>1, <1>2, <1>3 DEF InstBook
<1>7. \A r \in Resps : RespBook(m2, ops, hr, r)
  BY <1>1 DEF RespBook
<1>8. Books(m2, ops, hi2, hr)
  BY <1>1, <1>3, <1>4, <1>5, <1>6, <1>7 DEF Books
<1> QED BY <1>8 DEF hi2

\* The record of an instance with one operation more.
MoreOp(k, n) == [k EXCEPT !.refs = @ + 1, !.active = @ + 1, !.notifications = @ + 1, !.charged = @ + n]
\* The fields of an instance with one operation more.
LEMMA MoreOpIs ==
  ASSUME NEW k \in InstRecords, NEW n \in Nat
  PROVE  LET q == MoreOp(k, n)
         IN /\ q \in InstRecords /\ q.refs = k.refs + 1 /\ q.active = k.active + 1
            /\ q.notifications = k.notifications + 1 /\ q.responses = k.responses
            /\ q.charged = k.charged + n /\ q.server = k.server /\ q.closing = k.closing
            /\ q.closed = k.closed /\ q.up = k.up
<1> DEFINE a == k.refs + 1
           b == k.active + 1
           c == k.notifications + 1
           d == k.charged + n
<1>1. a \in Nat /\ b \in Nat /\ c \in Nat /\ d \in Nat
  BY InstNat
<1>2. MoreOp(k, n) = [k EXCEPT !.refs = a, !.active = b, !.notifications = c, !.charged = d]
  BY DEF MoreOp, InstRecords
<1> HIDE DEF a, b, c, d
<1>3. LET q == [k EXCEPT !.refs = a, !.active = b, !.notifications = c, !.charged = d]
      IN /\ q \in InstRecords /\ q.refs = a /\ q.active = b
         /\ q.notifications = c /\ q.responses = k.responses
         /\ q.charged = d /\ q.server = k.server /\ q.closing = k.closing
         /\ q.closed = k.closed /\ q.up = k.up
  BY <1>1 DEF InstRecords
<1> QED BY <1>2, <1>3 DEF a, b, c, d

\* What new_op changes.
NewOpDoes(m, m2, kind, i, r, o, input) ==
  LET n == RecordCost(kind) + input
  IN /\ IsHeap(m2) /\ m2.inst = [m.inst EXCEPT ![i] = MoreOp(m.inst[i], n)]
     /\ m2.op = [m.op EXCEPT ![o] = NewRecord(kind, i, r, input)]
     /\ m2.resp = m.resp /\ m2.chunk = m.chunk /\ m2.retained = m.retained + n
\* What new_op changes.
LEMMA NewOpIs ==
  ASSUME NEW m, IsHeap(m), m.inst \in [Insts -> InstRecords], NEW kind, NEW i \in Insts, NEW r, NEW o,
         NEW input
  PROVE  NewOpDoes(m, new_op(m, kind, i, r, o, input), kind, i, r, o, input)
<1> DEFINE n == RecordCost(kind) + input
           k == NewRecord(kind, i, r, input)
           m1 == charge(m, i, n)
           q1 == [m.inst[i] EXCEPT !.charged = @ + n]
           m2 == [m1 EXCEPT !.op[o] = k, !.inst[i].refs = @ + 1, !.inst[i].active = @ + 1,
                            !.inst[i].notifications = @ + 1]
<1>1. new_op(m, kind, i, r, o, input) = m2
  BY DEF new_op, NewRecord
<1> HIDE DEF n, k
<1>2. /\ IsHeap(m1) /\ m1.inst = [m.inst EXCEPT ![i] = q1] /\ m1.op = m.op /\ m1.resp = m.resp
      /\ m1.chunk = m.chunk /\ m1.retained = m.retained + n
  BY DEF IsHeap, charge
<1>3. MoreOp(m.inst[i], n) = [q1 EXCEPT !.refs = @ + 1, !.active = @ + 1, !.notifications = @ + 1]
  <2>1. m.inst[i] \in InstRecords
    OBVIOUS
  <2> QED BY <2>1 DEF MoreOp, InstRecords
<1> HIDE DEF m1, q1
<1>4. /\ IsHeap(m2) /\ m2.op = [m1.op EXCEPT ![o] = k] /\ m2.resp = m1.resp /\ m2.chunk = m1.chunk
      /\ m2.retained = m1.retained
      /\ m2.inst = [m1.inst EXCEPT ![i].refs = @ + 1, ![i].active = @ + 1, ![i].notifications = @ + 1]
  BY <1>2 DEF IsHeap
<1>5. m1.inst[i] = q1
  BY <1>2
<1>6. m2.inst = [m.inst EXCEPT ![i] = MoreOp(m.inst[i], n)]
  <2>1. [m1.inst EXCEPT ![i].refs = @ + 1, ![i].active = @ + 1, ![i].notifications = @ + 1]
        = [m1.inst EXCEPT ![i] = [q1 EXCEPT !.refs = @ + 1, !.active = @ + 1, !.notifications = @ + 1]]
    BY <1>2, <1>5
  <2> QED BY <1>2, <1>3, <1>4, <2>1
<1> HIDE DEF m2
<1> QED BY <1>1, <1>2, <1>4, <1>6 DEF n, k, NewOpDoes

\* The record that new_op makes.
LEMMA NewIs ==
  ASSUME NEW kind \in Kinds, NEW i \in Insts, NEW r \in Resps \cup {None}, NEW input \in Nat
  PROVE  LET k == NewRecord(kind, i, r, input)
             n == RecordCost(kind) + input
         IN /\ k \in OpRecords /\ k.kind = kind /\ k.stage = "queued" /\ k.inst = i /\ k.resp = r
            /\ k.charge = n /\ k.event = None /\ n \in Nat /\ k.refs # 0
            /\ ~k.cancelled /\ ~k.cancelling
<1>1. NewRecord(kind, i, r, input) \in OpRecords
  BY NewTypes
<1>2. RecordCost(kind) + input \in Nat
  BY BridgeAssumption DEF RecordCost
<1> DEFINE n == RecordCost(kind) + input
           c == IF kind = "drop" THEN 1 ELSE 2
<1>3. NewRecord(kind, i, r, input)
      = [NoOp EXCEPT !.refs = c, !.kind = kind, !.stage = "queued", !.inst = i, !.resp = r, !.charge = n]
  BY DEF NewRecord
<1>4. c # 0
  OBVIOUS
<1> HIDE DEF n, c
<1>5. LET k == [NoOp EXCEPT !.refs = c, !.kind = kind, !.stage = "queued", !.inst = i, !.resp = r, !.charge = n]
      IN /\ k.kind = kind /\ k.stage = "queued" /\ k.inst = i /\ k.resp = r
         /\ k.charge = n /\ k.event = None /\ k.refs = c /\ ~k.cancelled /\ ~k.cancelling
  BY DEF NoOp
<1> QED BY <1>1, <1>2, <1>3, <1>4, <1>5 DEF n

\* new_op keeps the books; the reference to its response is one the caller has in hand.
LEMMA NewOpBooks ==
  ASSUME NEW m, IsHeap(m), NEW ops \in [Ops -> OpRecords], NEW hi \in [Insts -> Nat],
         NEW hr \in [Resps -> Nat], Books(m, ops, hi, hr), NEW o \in Ops, ops[o] = NoOp,
         NEW kind \in Kinds, NEW i \in Insts, NEW r \in Resps \cup {None}, NEW input \in Nat,
         NEW hr2 \in [Resps -> Nat], \A s \in Resps : hr2[s] + One(s = r) = hr[s]
  PROVE  Books(new_op(m, kind, i, r, o, input), [ops EXCEPT ![o] = NewRecord(kind, i, r, input)], hi, hr2)
<1> DEFINE m2 == new_op(m, kind, i, r, o, input)
           k == NewRecord(kind, i, r, input)
           n == RecordCost(kind) + input
           q == MoreOp(m.inst[i], n)
<1>1. m.inst \in [Insts -> InstRecords] /\ m.inst[i] \in InstRecords
  BY DEF Books
<1>2. /\ k \in OpRecords /\ k.kind = kind /\ k.stage = "queued" /\ k.inst = i /\ k.resp = r
      /\ k.charge = n /\ k.event = None /\ n \in Nat
  BY NewIs
<1>3. /\ m2.inst = [m.inst EXCEPT ![i] = q] /\ m2.resp = m.resp /\ m2.chunk = m.chunk
      /\ m2.retained = m.retained + n
  <2>1. NewOpDoes(m, m2, kind, i, r, o, input)
    BY <1>1, NewOpIs
  <2> QED BY <2>1 DEF NewOpDoes
<1>4. /\ q \in InstRecords /\ q.refs = m.inst[i].refs + 1 /\ q.active = m.inst[i].active + 1
      /\ q.notifications = m.inst[i].notifications + 1 /\ q.responses = m.inst[i].responses
      /\ q.charged = m.inst[i].charged + n
  BY <1>1, <1>2, MoreOpIs
<1>5. /\ m.inst[i].refs \in Nat /\ m.inst[i].active \in Nat /\ m.inst[i].notifications \in Nat
      /\ m.inst[i].charged \in Nat /\ m.retained \in Nat /\ hi[i] \in Nat
  BY <1>1, InstNat, RetainedNat
<1> HIDE DEF m2, k, n, q
<1>6. m2.retained \in Int /\ q.charged + m.retained = m.inst[i].charged + m2.retained
  <2> DEFINE a == m.inst[i].charged
             b == m.retained
  <2>1. a \in Nat /\ b \in Nat /\ q.charged = a + n /\ m2.retained = b + n
    BY <1>3, <1>4, <1>5
  <2> HIDE DEF a, b
  <2>2. (a + n) + b = a + (b + n) /\ b + n \in Int
    BY <1>2, <2>1
  <2> QED BY <2>1, <2>2 DEF a, b
<1>7. {ops[o].inst, ops[o].event, k.inst, k.event} \cap Insts \subseteq {i}
  BY <1>2, NoOpFacts DEF NoOpIs
<1>8. Balanced(m.inst[i], q, ops[o], k, i, hi[i], hi[i])
  <2>1. /\ RefsBy(ops[o], i) = 0 /\ RefsBy(k, i) = 1 /\ ActiveBy(ops[o], i) = 0 /\ ActiveBy(k, i) = 1
        /\ NotesBy(ops[o], i) = 0 /\ NotesBy(k, i) = 1 /\ BytesBy(ops[o], i) = 0 /\ BytesBy(k, i) = n
    BY <1>2, NoOpFacts DEF NoOpIs, RefsBy, ActiveBy, NotesBy, BytesBy, One
  <2> DEFINE a == m.inst[i].refs
             b == m.inst[i].active
             c == m.inst[i].notifications
             d == m.inst[i].charged
             h == hi[i]
  <2>2. /\ a \in Nat /\ b \in Nat /\ c \in Nat /\ d \in Nat /\ h \in Nat
        /\ q.refs = a + 1 /\ q.active = b + 1 /\ q.notifications = c + 1 /\ q.charged = d + n
    BY <1>4, <1>5
  <2> HIDE DEF a, b, c, d, h
  <2>3. /\ (a + 1) + 0 + h = a + 1 + h /\ (b + 1) + 0 = b + 1 /\ (c + 1) + 0 = c + 1 /\ (d + n) + 0 = d + n
        /\ a + 1 # 0
    BY <1>2, <2>2
  <2> QED BY <1>4, <2>1, <2>2, <2>3 DEF Balanced, a, b, c, d, h
<1>9. \A s \in Resps : HoldsResp(k, s) + hr2[s] = HoldsResp(ops[o], s) + hr[s]
  <2> SUFFICES ASSUME NEW s \in Resps PROVE HoldsResp(k, s) + hr2[s] = HoldsResp(ops[o], s) + hr[s]
    OBVIOUS
  <2>1. HoldsResp(k, s) = One(s = r) /\ HoldsResp(ops[o], s) = 0 /\ One(s = r) \in Nat
    BY <1>2, NoOpFacts DEF NoOpIs, HoldsResp, One
  <2>2. hr2[s] \in Nat /\ hr[s] \in Nat /\ hr2[s] + One(s = r) = hr[s]
    OBVIOUS
  <2> QED BY <2>1, <2>2
<1>10. Books(m2, [ops EXCEPT ![o] = k], [hi EXCEPT ![i] = hi[i]], hr2)
  <2>1. At(m, m2, ops, o, k, hi, hi[i], hr, hr2, i, q)
    BY <1>2, <1>3, <1>4, <1>5, <1>6, <1>7, <1>8, <1>9 DEF At
  <2> QED BY <2>1, BooksAt
<1>11. [hi EXCEPT ![i] = hi[i]] = hi
  OBVIOUS
<1> QED BY <1>10, <1>11 DEF m2, k

\* The same operation: what does not change while it is under way.
SameOp(k, old) ==
  k.kind = old.kind /\ k.inst = old.inst /\ k.resp = old.resp /\ k.charge = old.charge

\* An operation goes to another stage, and its instance counts it there.
Staged(m, m2, ops, o, k, i, q) ==
  /\ k \in OpRecords /\ q \in InstRecords /\ SameOp(k, ops[o]) /\ k.event = ops[o].event
  /\ ops[o].inst = i /\ (ops[o].event \in Insts => ops[o].event = i)
  /\ m2.inst = [m.inst EXCEPT ![i] = q] /\ m2.resp = m.resp /\ m2.chunk = m.chunk
  /\ m2.retained = m.retained
  /\ q.refs = m.inst[i].refs /\ q.responses = m.inst[i].responses /\ q.charged = m.inst[i].charged
  /\ q.active + ActiveBy(ops[o], i) = m.inst[i].active + ActiveBy(k, i)
  /\ q.notifications + NotesBy(ops[o], i) = m.inst[i].notifications + NotesBy(k, i)
\* The books balance when operation o only moves to another stage.
LEMMA BooksStaged ==
  ASSUME NEW ops \in [Ops -> OpRecords], NEW o \in Ops, NEW k, NEW m, NEW m2,
         NEW hi \in [Insts -> Nat], NEW hr \in [Resps -> Nat], Books(m, ops, hi, hr),
         NEW i \in Insts, NEW q, Staged(m, m2, ops, o, k, i, q)
  PROVE  Books(m2, [ops EXCEPT ![o] = k], hi, hr)
<1>1. /\ m.inst[i] \in InstRecords /\ m.inst[i].refs > 0
  BY OpAdds DEF Staged
<1>2. /\ m.inst[i].refs \in Nat /\ m.inst[i].charged \in Nat /\ m.retained \in Nat /\ hi[i] \in Nat
  BY <1>1, InstNat, RetainedNat
<1>3. /\ RefsBy(k, i) = RefsBy(ops[o], i) /\ BytesBy(k, i) = BytesBy(ops[o], i)
      /\ \A r : HoldsResp(k, r) = HoldsResp(ops[o], r)
  BY DEF Staged, SameOp, RefsBy, BytesBy, HoldsResp
<1>4. Balanced(m.inst[i], q, ops[o], k, i, hi[i], hi[i])
  <2>1. q.refs # 0
    BY <1>1, <1>2 DEF Staged
  <2> QED BY <1>3, <2>1 DEF Balanced, Staged
<1>5. At(m, m2, ops, o, k, hi, hi[i], hr, hr, i, q)
  <2>1. {ops[o].inst, ops[o].event, k.inst, k.event} \cap Insts \subseteq {i}
    BY DEF Staged, SameOp
  <2>2. /\ m2.retained \in Int /\ q.charged + m.retained = m.inst[i].charged + m2.retained
        /\ hr \in [Resps -> Nat] /\ hi[i] \in Nat
    BY <1>2 DEF Staged
  <2>3. \A r \in Resps : HoldsResp(k, r) + hr[r] = HoldsResp(ops[o], r) + hr[r]
    BY <1>3
  <2> QED BY <1>4, <2>1, <2>2, <2>3 DEF At, Staged
<1>6. Books(m2, [ops EXCEPT ![o] = k], [hi EXCEPT ![i] = hi[i]], hr)
  BY <1>5, BooksAt
<1>7. [hi EXCEPT ![i] = hi[i]] = hi
  OBVIOUS
<1> QED BY <1>6, <1>7

\* The event of an operation changes, the operation stays.
Eventful(m, m2, ops, o, k, hi, hb, hr, hr2, i, q) ==
  /\ k \in OpRecords /\ q \in InstRecords /\ SameOp(k, ops[o]) /\ k.stage = ops[o].stage
  /\ ops[o].inst = i /\ {ops[o].event, k.event} \cap Insts \subseteq {i}
  /\ m2.inst = [m.inst EXCEPT ![i] = q] /\ m2.resp = m.resp /\ m2.chunk = m.chunk
  /\ m2.retained = m.retained
  /\ q.responses = m.inst[i].responses /\ q.charged = m.inst[i].charged
  /\ q.active = m.inst[i].active /\ q.notifications = m.inst[i].notifications
  /\ q.refs # 0 /\ hb \in Nat /\ hr2 \in [Resps -> Nat]
  /\ q.refs + One(ops[o].event = i) + hi[i] = m.inst[i].refs + One(k.event = i) + hb
  /\ \A r \in Resps : One(k.event = r) + hr2[r] = One(ops[o].event = r) + hr[r]
\* The books balance when the event of operation o changes hands.
LEMMA BooksEvent ==
  ASSUME NEW ops \in [Ops -> OpRecords], NEW o \in Ops, NEW k, NEW m, NEW m2,
         NEW hi \in [Insts -> Nat], NEW hr \in [Resps -> Nat], NEW hb, NEW hr2, Books(m, ops, hi, hr),
         NEW i \in Insts, NEW q, Eventful(m, m2, ops, o, k, hi, hb, hr, hr2, i, q)
  PROVE  Books(m2, [ops EXCEPT ![o] = k], [hi EXCEPT ![i] = hb], hr2)
<1>1. /\ m.inst[i] \in InstRecords /\ m.inst[i].refs > 0
  BY OpAdds DEF Eventful
<1>2. /\ m.inst[i].refs \in Nat /\ m.inst[i].charged \in Nat /\ m.retained \in Nat /\ hi[i] \in Nat
      /\ hb \in Nat /\ q.refs \in Nat
  BY <1>1, InstNat, RetainedNat DEF Eventful
<1>3. /\ RefsBy(k, i) = 1 + One(k.event = i) /\ RefsBy(ops[o], i) = 1 + One(ops[o].event = i)
      /\ BytesBy(k, i) = BytesBy(ops[o], i) /\ ActiveBy(k, i) = ActiveBy(ops[o], i)
      /\ NotesBy(k, i) = NotesBy(ops[o], i) /\ One(k.event = i) \in Nat /\ One(ops[o].event = i) \in Nat
  BY DEF Eventful, SameOp, RefsBy, BytesBy, NotesBy, ActiveBy, One
<1>4. Balanced(m.inst[i], q, ops[o], k, i, hi[i], hb)
  <2> DEFINE x == m.inst[i].refs
             y == q.refs
             a == One(ops[o].event = i)
             b == One(k.event = i)
             h == hi[i]
  <2>1. x \in Nat /\ y \in Nat /\ a \in Nat /\ b \in Nat /\ h \in Nat /\ hb \in Nat
        /\ y + a + h = x + b + hb
    BY <1>2, <1>3 DEF Eventful
  <2> HIDE DEF x, y, a, b, h
  <2>2. y + (1 + a) + h = x + (1 + b) + hb
    BY <2>1
  <2>3. q.refs + RefsBy(ops[o], i) + hi[i] = m.inst[i].refs + RefsBy(k, i) + hb
    BY <1>3, <2>2 DEF x, y, a, b, h
  <2> QED BY <1>3, <2>3 DEF Balanced, Eventful
<1>5. At(m, m2, ops, o, k, hi, hb, hr, hr2, i, q)
  <2>1. {ops[o].inst, ops[o].event, k.inst, k.event} \cap Insts \subseteq {i}
    BY DEF Eventful, SameOp
  <2>2. /\ m2.retained \in Int /\ q.charged + m.retained = m.inst[i].charged + m2.retained
    BY <1>2 DEF Eventful
  <2>3. ASSUME NEW r \in Resps PROVE HoldsResp(k, r) + hr2[r] = HoldsResp(ops[o], r) + hr[r]
    <3> DEFINE a == One(k.event = r)
               b == One(ops[o].event = r)
               c == One(k.resp = r)
               x == hr2[r]
               y == hr[r]
    <3>1. a \in Nat /\ b \in Nat /\ c \in Nat /\ x \in Nat /\ y \in Nat /\ a + x = b + y
      BY DEF One, Eventful
    <3>2. HoldsResp(k, r) = c + a /\ HoldsResp(ops[o], r) = c + b
      BY DEF HoldsResp, Eventful, SameOp
    <3> HIDE DEF a, b, c, x, y
    <3>3. (c + a) + x = (c + b) + y
      BY <3>1
    <3> QED BY <3>2, <3>3 DEF x, y
  <2> QED BY <1>4, <2>1, <2>2, <2>3 DEF At, Eventful
<1> QED BY <1>5, BooksAt

\* A chunk appears or goes: chunk c from record k to l, its instance i to q, its response r to s.
ChunkBy(k, i) == IF k.inst = i THEN ChunkCost ELSE 0
ChunkAt(m, m2, c, l, hi, hb, hr, hd, i, q, r, s) ==
  /\ l \in ChunkRecords /\ q \in InstRecords /\ s \in RespRecords /\ hb \in Nat /\ hd \in Nat
  /\ {m.chunk[c].inst, l.inst} \cap Insts \subseteq {i} /\ {m.chunk[c].resp, l.resp} \cap Resps \subseteq {r}
  /\ m2.inst = [m.inst EXCEPT ![i] = q] /\ m2.resp = [m.resp EXCEPT ![r] = s]
  /\ m2.chunk = [m.chunk EXCEPT ![c] = l] /\ m2.retained \in Int
  /\ q.charged + m.retained = m.inst[i].charged + m2.retained
  /\ q.refs + One(m.chunk[c].inst = i) + hi[i] = m.inst[i].refs + One(l.inst = i) + hb
  /\ q.active = m.inst[i].active /\ q.notifications = m.inst[i].notifications
  /\ q.responses = m.inst[i].responses
  /\ q.charged + ChunkBy(m.chunk[c], i) = m.inst[i].charged + ChunkBy(l, i)
  /\ q.refs # 0
  /\ s.refs + One(m.chunk[c].resp = r) + hr[r] = m.resp[r].refs + One(l.resp = r) + hd
  /\ s.chunks + One(m.chunk[c].resp = r) = m.resp[r].chunks + One(l.resp = r)
  /\ s.inst = m.resp[r].inst /\ s.charge = m.resp[r].charge /\ s.refs # 0 /\ s.inst \in Insts

\* The books balance when chunk c comes or goes.
LEMMA BooksChunk ==
  ASSUME NEW ops \in [Ops -> OpRecords], NEW c \in Chunks, NEW l, NEW m, NEW m2,
         NEW hi \in [Insts -> Nat], NEW hr \in [Resps -> Nat], NEW hb, NEW hd, Books(m, ops, hi, hr),
         NEW i \in Insts, NEW q, NEW r \in Resps, NEW s,
         ChunkAt(m, m2, c, l, hi, hb, hr, hd, i, q, r, s)
  PROVE  Books(m2, ops, [hi EXCEPT ![i] = hb], [hr EXCEPT ![r] = hd])
<1> DEFINE hi2 == [hi EXCEPT ![i] = hb]
           hr2 == [hr EXCEPT ![r] = hd]
           k == m.chunk[c]
<1>1. /\ m.inst \in [Insts -> InstRecords] /\ m.resp \in [Resps -> RespRecords]
      /\ m.chunk \in [Chunks -> ChunkRecords] /\ m.retained = ChargedIn(m.inst)
      /\ \A j \in Insts : InstBook(m, ops, hi, j)
      /\ \A p \in Resps : RespBook(m, ops, hr, p)
  BY DEF Books
<1>2. /\ hi2 \in [Insts -> Nat] /\ hi2[i] = hb /\ \A j \in Insts : j # i => hi2[j] = hi[j]
      /\ hr2 \in [Resps -> Nat] /\ hr2[r] = hd /\ \A p \in Resps : p # r => hr2[p] = hr[p]
  BY DEF ChunkAt
<1>3. /\ m2.inst \in [Insts -> InstRecords] /\ m2.inst[i] = q
      /\ \A j \in Insts : j # i => m2.inst[j] = m.inst[j]
  BY <1>1 DEF ChunkAt
<1>4. /\ m2.resp \in [Resps -> RespRecords] /\ m2.resp[r] = s
      /\ \A p \in Resps : p # r => m2.resp[p] = m.resp[p]
  BY <1>1 DEF ChunkAt
<1>5. /\ m2.chunk \in [Chunks -> ChunkRecords] /\ m2.chunk[c] = l
      /\ \A d \in Chunks : d # c => m2.chunk[d] = m.chunk[d]
  BY <1>1 DEF ChunkAt
<1> HIDE DEF hi2, hr2
<1>6. m2.retained = ChargedIn(m2.inst)
  <2>1. m2.inst[i].charged + m.retained = m.inst[i].charged + m2.retained /\ m2.retained \in Int
    BY <1>3 DEF ChunkAt
  <2>2. /\ i \in Insts /\ m.inst \in [Insts -> InstRecords] /\ m2.inst \in [Insts -> InstRecords]
        /\ m.retained = ChargedIn(m.inst) /\ \A j \in Insts : j # i => m2.inst[j] = m.inst[j]
    BY <1>1, <1>3
  <2> QED BY ONLY <2>1, <2>2, Recharged
<1>7. ASSUME NEW j
      PROVE  /\ RespsOf(m2.resp, j) = RespsOf(m.resp, j) /\ RespBytes(m2.resp, j) = RespBytes(m.resp, j)
  <2>1. \A p \in Resps : m2.resp[p].inst = m.resp[p].inst /\ m2.resp[p].charge = m.resp[p].charge
    BY <1>4 DEF ChunkAt
  <2> QED BY <2>1, RespAlike
<1>8. ASSUME NEW j
      PROVE  /\ ChunksOf(m.chunk, j) \in Nat
             /\ ChunksOf(m2.chunk, j) = (ChunksOf(m.chunk, j) - One(k.inst = j)) + One(l.inst = j)
             /\ ChunkBytes(m.chunk, j) \in Nat
             /\ ChunkBytes(m2.chunk, j) = (ChunkBytes(m.chunk, j) - ChunkBy(k, j)) + ChunkBy(l, j)
             /\ ChunksIn(m.chunk, j) \in Nat
             /\ ChunksIn(m2.chunk, j) = (ChunksIn(m.chunk, j) - One(k.resp = j)) + One(l.resp = j)
  <2>0. c \in Chunks /\ \A d \in Chunks : d # c => m2.chunk[d] = m.chunk[d]
    BY <1>5
  <2>1. ChunkMoved(m.chunk, m2.chunk, c, j)
    BY <2>0, ChunkChange
  <2> QED BY <1>5, <2>1 DEF ChunkBy, ChunkMoved
<1>9. ASSUME NEW x, NEW y PROVE One(x = y) \in Nat /\ (x # y => One(x = y) = 0)
  BY DEF One
<1>10. ASSUME NEW x, NEW j PROVE ChunkBy(x, j) \in Nat /\ (x.inst # j => ChunkBy(x, j) = 0)
  BY BridgeAssumption DEF ChunkBy
<1>11. InstBook(m2, ops, hi2, i)
  <2> DEFINE x == m.inst[i].refs
             y == q.refs
             xc == m.inst[i].charged
             yc == q.charged
             w == One(k.inst = i)
             v == One(l.inst = i)
             wb == ChunkBy(k, i)
             vb == ChunkBy(l, i)
             h == hi[i]
             p == RespsOf(m.resp, i)
             b == RespBytes(m.resp, i)
             d == ChunksOf(m.chunk, i)
             dn == ChunksOf(m2.chunk, i)
             db == ChunkBytes(m.chunk, i)
             dbn == ChunkBytes(m2.chunk, i)
             t == OpRefsTo(ops, i)
             tb == OpBytes(ops, i)
  <2>0. m.inst[i] \in InstRecords /\ q \in InstRecords /\ InstBook(m, ops, hi, i)
    BY <1>1 DEF ChunkAt
  <2>1. x \in Nat /\ y \in Nat /\ xc \in Nat /\ yc \in Nat /\ h \in Nat /\ hb \in Nat
    BY <2>0, InstNat DEF ChunkAt
  <2>2. w \in Nat /\ v \in Nat /\ wb \in Nat /\ vb \in Nat
    BY <1>9, <1>10
  <2>3. p \in Nat /\ b \in Nat /\ t \in Nat /\ tb \in Nat
    BY <1>1, OpSumsNat, SumsNat
  <2>4. d \in Nat /\ db \in Nat /\ dn = (d - w) + v /\ dbn = (db - wb) + vb
    BY <1>8
  <2>5. x = h + t + p + d /\ xc = tb + b + db
    BY <2>0 DEF InstBook
  <2>6. y + w + h = x + v + hb /\ yc + wb = xc + vb
    BY DEF ChunkAt
  <2>7. RespsOf(m2.resp, i) = p /\ RespBytes(m2.resp, i) = b
    BY <1>7
  <2>8. /\ q.active = OpActive(ops, i) /\ q.notifications = OpNotes(ops, i) /\ q.responses = p
        /\ q.refs # 0
    BY <2>0 DEF InstBook, ChunkAt
  <2> HIDE DEF x, y, xc, yc, w, v, wb, vb, h, p, b, d, dn, db, dbn, t, tb
  <2>9. y = hb + t + p + dn /\ yc = tb + b + dbn
    BY <2>1, <2>2, <2>3, <2>4, <2>5, <2>6
  <2> QED BY <1>2, <1>3, <2>7, <2>8, <2>9 DEF InstBook, y, yc, dn, dbn, t, tb
<1>12. ASSUME NEW j \in Insts, j # i PROVE InstBook(m2, ops, hi2, j)
  <2>1. k.inst # j /\ l.inst # j
    BY <1>12 DEF ChunkAt
  <2>2. ChunksOf(m2.chunk, j) = ChunksOf(m.chunk, j) /\ ChunkBytes(m2.chunk, j) = ChunkBytes(m.chunk, j)
    <3>1. One(k.inst = j) = 0 /\ One(l.inst = j) = 0 /\ ChunkBy(k, j) = 0 /\ ChunkBy(l, j) = 0
      BY <2>1 DEF One, ChunkBy
    <3> HIDE DEF k
    <3>2. /\ ChunksOf(m.chunk, j) \in Nat /\ ChunksOf(m2.chunk, j) = (ChunksOf(m.chunk, j) - 0) + 0
          /\ ChunkBytes(m.chunk, j) \in Nat /\ ChunkBytes(m2.chunk, j) = (ChunkBytes(m.chunk, j) - 0) + 0
      BY <1>8, <3>1
    <3> QED BY <3>2
  <2>3. InstBook(m, ops, hi, j) /\ m2.inst[j] = m.inst[j] /\ hi2[j] = hi[j]
    BY <1>1, <1>2, <1>3, <1>12
  <2> QED BY <1>7, <2>2, <2>3 DEF InstBook
<1>13. RespBook(m2, ops, hr2, r)
  <2> DEFINE x == m.resp[r].refs
             y == s.refs
             xc == m.resp[r].chunks
             yc == s.chunks
             w == One(k.resp = r)
             v == One(l.resp = r)
             h == hr[r]
             d == ChunksIn(m.chunk, r)
             dn == ChunksIn(m2.chunk, r)
             t == OpHolds(ops, r)
  <2>0. m.resp[r] \in RespRecords /\ s \in RespRecords /\ RespBook(m, ops, hr, r)
    BY <1>1 DEF ChunkAt
  <2>1. x \in Nat /\ y \in Nat /\ xc \in Nat /\ yc \in Nat /\ h \in Nat /\ hd \in Nat
    BY <2>0 DEF ChunkAt, RespRecords
  <2>2. w \in Nat /\ v \in Nat /\ t \in Nat
    BY <1>9, OpSumsNat
  <2>3. d \in Nat /\ dn = (d - w) + v
    BY <1>8
  <2>4. x = h + t + d /\ xc = d
    BY <2>0 DEF RespBook
  <2>5. y + w + h = x + v + hd /\ yc + w = xc + v
    BY DEF ChunkAt
  <2> HIDE DEF x, y, xc, yc, w, v, h, d, dn, t
  <2>6. y = hd + t + dn /\ yc = dn
    BY <2>1, <2>2, <2>3, <2>4, <2>5
  <2>7. s.refs # 0 /\ s.inst \in Insts
    BY DEF ChunkAt
  <2> QED BY <1>2, <1>4, <2>6, <2>7 DEF RespBook, y, yc, dn, t
<1>14. ASSUME NEW p \in Resps, p # r PROVE RespBook(m2, ops, hr2, p)
  <2>1. k.resp # p /\ l.resp # p
    BY <1>14 DEF ChunkAt
  <2>2. ChunksIn(m2.chunk, p) = ChunksIn(m.chunk, p)
    <3>1. One(k.resp = p) = 0 /\ One(l.resp = p) = 0
      BY <2>1 DEF One
    <3> HIDE DEF k
    <3>2. /\ ChunksIn(m.chunk, p) \in Nat /\ ChunksIn(m2.chunk, p) = (ChunksIn(m.chunk, p) - 0) + 0
      BY <1>8, <3>1
    <3> QED BY <3>2
  <2>3. RespBook(m, ops, hr, p) /\ m2.resp[p] = m.resp[p] /\ hr2[p] = hr[p]
    BY <1>1, <1>2, <1>4, <1>14
  <2> QED BY <2>2, <2>3 DEF RespBook
<1>15. Books(m2, ops, hi2, hr2)
  BY <1>3, <1>4, <1>5, <1>6, <1>11, <1>12, <1>13, <1>14 DEF Books
<1> QED BY <1>15 DEF hi2, hr2

\* The record of an instance that ends: closed, and one reference less.
Ended(k) == IF k.refs = 1 THEN NoInst ELSE [k EXCEPT !.refs = @ - 1, !.closing = TRUE, !.closed = TRUE]

\* What Abandoned changes.
LEMMA AbandonedIs ==
  ASSUME NEW m, IsHeap(m), NEW S
  PROVE  LET m2 == Abandoned(m, S)
         IN /\ IsHeap(m2) /\ m2.op = m.op /\ m2.resp = m.resp /\ m2.chunk = m.chunk
            /\ m2.retained = m.retained /\ m2.inst = [i \in Insts |-> m2.inst[i]]
            /\ \A i \in Insts : m2.inst[i] = IF i \in S THEN Ended(m.inst[i]) ELSE m.inst[i]
<1> DEFINE f == [i \in Insts |->
                   CASE i \notin S -> m.inst[i]
                     [] i \in S /\ m.inst[i].refs = 1 -> NoInst
                     [] OTHER -> [m.inst[i] EXCEPT !.refs = @ - 1, !.closing = TRUE, !.closed = TRUE]]
<1>1. Abandoned(m, S) = [m EXCEPT !.inst = f]
  BY DEF Abandoned
<1>2. ASSUME NEW i \in Insts PROVE f[i] = IF i \in S THEN Ended(m.inst[i]) ELSE m.inst[i]
  <2>1. CASE i \notin S
    BY <2>1
  <2>2. CASE i \in S /\ m.inst[i].refs = 1
    BY <2>2 DEF Ended
  <2>3. CASE i \in S /\ m.inst[i].refs # 1
    BY <2>3 DEF Ended
  <2> QED BY <2>1, <2>2, <2>3
<1>3. f = [i \in Insts |-> f[i]]
  OBVIOUS
<1> HIDE DEF f
<1>4. LET m2 == [m EXCEPT !.inst = f]
      IN /\ IsHeap(m2) /\ m2.op = m.op /\ m2.resp = m.resp /\ m2.chunk = m.chunk
         /\ m2.retained = m.retained /\ m2.inst = f
  BY DEF IsHeap
<1> QED BY <1>1, <1>2, <1>3, <1>4

\* An instance with a pointer in hand ends.
LEMMA EndedIs ==
  ASSUME NEW k \in InstRecords, k.refs # 0
  PROVE  LET q == Ended(k)
         IN /\ q \in InstRecords
            /\ IF k.refs = 1 THEN q = NoInst
               ELSE /\ q.refs = k.refs - 1 /\ q.refs # 0 /\ q.active = k.active
                    /\ q.notifications = k.notifications /\ q.responses = k.responses
                    /\ q.charged = k.charged /\ q.closing /\ q.closed /\ q.server = k.server /\ q.up = k.up
<1>1. k.refs \in Nat
  BY InstNat
<1>2. CASE k.refs = 1
  BY <1>2 DEF Ended, NoInst, InstRecords
<1>3. CASE k.refs # 1
  <2> DEFINE n == k.refs - 1
  <2>1. n \in Nat /\ n # 0
    BY <1>1, <1>3
  <2>2. Ended(k) = [k EXCEPT !.refs = n, !.closing = TRUE, !.closed = TRUE]
    BY <1>3 DEF Ended
  <2> HIDE DEF n
  <2>3. LET q == [k EXCEPT !.refs = n, !.closing = TRUE, !.closed = TRUE]
        IN /\ q \in InstRecords /\ q.refs = n /\ q.active = k.active
           /\ q.notifications = k.notifications /\ q.responses = k.responses
           /\ q.charged = k.charged /\ q.closing /\ q.closed /\ q.server = k.server /\ q.up = k.up
    BY <2>1 DEF InstRecords
  <2> QED BY <1>3, <2>1, <2>2, <2>3 DEF n
<1> QED BY <1>2, <1>3

\* owner_main ends the instances still live: their references from the list go.
LEMMA AbandonedBooks ==
  ASSUME NEW m, IsHeap(m), NEW ops \in [Ops -> OpRecords], NEW hi \in [Insts -> Nat], NEW hr,
         Books(m, ops, hi, hr), NEW S, NEW hi2 \in [Insts -> Nat],
         \A i \in Insts : hi[i] = hi2[i] + One(i \in S)
  PROVE  Books(Abandoned(m, S), ops, hi2, hr)
<1> DEFINE m2 == Abandoned(m, S)
<1>1. /\ m.inst \in [Insts -> InstRecords] /\ m.resp \in [Resps -> RespRecords]
      /\ m.chunk \in [Chunks -> ChunkRecords] /\ m.retained = ChargedIn(m.inst)
      /\ \A j \in Insts : InstBook(m, ops, hi, j)
      /\ \A r \in Resps : RespBook(m, ops, hr, r)
  BY DEF Books
<1>2. /\ m2.resp = m.resp /\ m2.chunk = m.chunk /\ m2.retained = m.retained
      /\ m2.inst = [i \in Insts |-> m2.inst[i]]
      /\ \A i \in Insts : m2.inst[i] = IF i \in S THEN Ended(m.inst[i]) ELSE m.inst[i]
  BY AbandonedIs
<1> HIDE DEF m2
<1>3. ASSUME NEW i \in Insts
      PROVE  m2.inst[i] \in InstRecords /\ m2.inst[i].charged = m.inst[i].charged /\ InstBook(m2, ops, hi2, i)
  <2>0. m.inst[i] \in InstRecords /\ InstBook(m, ops, hi, i) /\ hi[i] \in Nat /\ hi2[i] \in Nat
    BY <1>1
  <2>1. CASE i \notin S
    <3>1. hi[i] = hi2[i] /\ m2.inst[i] = m.inst[i]
      BY <1>2, <2>0, <2>1 DEF One
    <3> QED BY <1>2, <2>0, <3>1 DEF InstBook
  <2>2. CASE i \in S
    <3> DEFINE q == Ended(m.inst[i])
    <3>1. hi[i] = hi2[i] + 1 /\ m2.inst[i] = q /\ hi[i] > 0
      BY <1>2, <2>0, <2>2 DEF One
    <3>2. /\ m.inst[i].refs > 0
          /\ m.inst[i].refs = 1 =>
               /\ hi[i] = 1 /\ OpRefsTo(ops, i) = 0 /\ RespsOf(m.resp, i) = 0 /\ ChunksOf(m.chunk, i) = 0
               /\ OpActive(ops, i) = 0 /\ OpNotes(ops, i) = 0 /\ OpBytes(ops, i) = 0
               /\ RespBytes(m.resp, i) = 0 /\ ChunkBytes(m.chunk, i) = 0 /\ m.inst[i].charged = 0
      BY <1>1, <2>0, <3>1, LastRef
    <3>3. m.inst[i].refs # 0
      BY <2>0, <3>2, InstNat
    <3>4. /\ q \in InstRecords
          /\ IF m.inst[i].refs = 1 THEN q = NoInst
             ELSE /\ q.refs = m.inst[i].refs - 1 /\ q.refs # 0 /\ q.active = m.inst[i].active
                  /\ q.notifications = m.inst[i].notifications /\ q.responses = m.inst[i].responses
                  /\ q.charged = m.inst[i].charged
      BY <2>0, <3>3, EndedIs
    <3> HIDE DEF q
    <3>5. CASE m.inst[i].refs = 1
      <4>1. /\ q.refs = 0 /\ q.active = 0 /\ q.notifications = 0 /\ q.responses = 0 /\ q.charged = 0
            /\ q = NoInst
        BY <3>4, <3>5 DEF NoInst
      <4>2. hi2[i] = 0
        BY <2>0, <3>1, <3>2, <3>5
      <4> QED BY <1>2, <3>1, <3>2, <3>4, <3>5, <4>1, <4>2 DEF InstBook
    <3>6. CASE m.inst[i].refs # 1
      <4> DEFINE h == hi[i]
                 g == hi2[i]
                 a == OpRefsTo(ops, i)
                 b == RespsOf(m.resp, i)
                 c == ChunksOf(m.chunk, i)
                 x == m.inst[i].refs
      <4>1. a \in Nat /\ b \in Nat /\ c \in Nat /\ h \in Nat /\ g \in Nat /\ x \in Nat
        BY <1>1, <2>0, OpSumsNat, SumsNat, InstNat
      <4>2. x = h + a + b + c /\ h = g + 1 /\ q.refs = x - 1
        BY <2>0, <3>1, <3>4, <3>6 DEF InstBook
      <4> HIDE DEF h, g, a, b, c, x
      <4>3. q.refs = g + a + b + c
        BY <4>1, <4>2
      <4> QED BY <1>2, <2>0, <3>1, <3>4, <3>6, <4>3 DEF InstBook, g, a, b, c
    <3> QED BY <3>5, <3>6
  <2> QED BY <2>1, <2>2
<1>4. m2.inst \in [Insts -> InstRecords]
  BY <1>2, <1>3
<1>5. \A r \in Resps : RespBook(m2, ops, hr, r)
  BY <1>1, <1>2 DEF RespBook
<1>6. m2.retained = ChargedIn(m2.inst)
  BY <1>1, <1>2, <1>3, ChargeSame
<1>7. Books(m2, ops, hi2, hr)
  BY <1>1, <1>2, <1>3, <1>4, <1>5, <1>6 DEF Books
<1> QED BY <1>7 DEF m2

\* The record k of operation o fits the others, when the host holds kept.
TidyAt(ops, o, k, kept) ==
  /\ Shape(k)
  /\ k.event \notin kept
  /\ k.event # None => \A p \in Ops : p # o => ops[p].event # k.event
  /\ Granting(k) => k.inst \notin kept
  /\ \A p \in Ops : p # o =>
       /\ ops[p].event \notin kept
       /\ Granting(ops[p]) => ops[p].inst \notin kept
       /\ ops[p].inst = k.inst =>
            /\ ~(Granting(k) /\ ops[p].kind \in Creates \cup {"close"})
            /\ ~(Granting(ops[p]) /\ k.kind \in Creates \cup {"close"})
            /\ ~(ops[p].kind = "close" /\ k.kind = "close")
\* A step of one operation keeps the operations tidy.
LEMMA TidyStep ==
  ASSUME NEW ops \in [Ops -> OpRecords], NEW old, NEW kept, Tidy(ops, old), NEW o \in Ops, NEW k,
         TidyAt(ops, o, k, kept), NEW next, next[o] = k, \A p \in Ops : p # o => next[p] = ops[p]
  PROVE  Tidy(next, kept)
<1>1. \A p \in Ops : Shape(next[p])
  BY DEF Tidy, TidyAt
<1>2. Events(next, kept)
  BY DEF Tidy, TidyAt, Events
<1>3. Grants(next, kept)
  <2>1. ASSUME NEW p \in Ops, Granting(next[p]) PROVE next[p].inst \notin kept
    <3>1. CASE p = o
      BY <2>1, <3>1 DEF TidyAt
    <3>2. CASE p # o
      BY <2>1, <3>2 DEF TidyAt
    <3> QED BY <3>1, <3>2
  <2>2. ASSUME NEW p \in Ops, NEW s \in Ops, Granting(next[p]), next[s].inst = next[p].inst,
               next[s].kind \in Creates \cup {"close"}
        PROVE  p = s
    <3>1. CASE p = o /\ s # o
      <4>1. next[p] = k /\ next[s] = ops[s]
        BY <3>1
      <4> QED BY <2>2, <3>1, <4>1 DEF TidyAt
    <3>2. CASE p # o /\ s = o
      <4>1. next[s] = k /\ next[p] = ops[p]
        BY <3>2
      <4> QED BY <2>2, <3>2, <4>1 DEF TidyAt
    <3>3. CASE p # o /\ s # o
      <4>1. next[p] = ops[p] /\ next[s] = ops[s]
        BY <3>3
      <4> QED BY <2>2, <4>1 DEF Tidy, Grants
    <3> QED BY <3>1, <3>2, <3>3
  <2> QED BY <2>1, <2>2 DEF Grants
<1>4. CloseOnce(next)
  <2> SUFFICES ASSUME NEW p \in Ops, NEW s \in Ops, next[p].kind = "close", next[s].kind = "close",
                      next[p].inst = next[s].inst, p # s
               PROVE  FALSE
    BY DEF CloseOnce
  <2>1. CASE p = o
    <3>1. next[p] = k /\ next[s] = ops[s] /\ s # o
      BY <2>1
    <3> QED BY <3>1 DEF TidyAt
  <2>2. CASE s = o
    <3>1. next[s] = k /\ next[p] = ops[p] /\ p # o
      BY <2>2
    <3> QED BY <3>1 DEF TidyAt
  <2>3. CASE p # o /\ s # o
    <3>1. next[s] = ops[s] /\ next[p] = ops[p]
      BY <2>3
    <3> QED BY <3>1 DEF Tidy, CloseOnce
  <2> QED BY <2>1, <2>2, <2>3
<1> QED BY <1>1, <1>2, <1>3, <1>4 DEF Tidy

\* The host lets go of something.
LEMMA TidyLess ==
  ASSUME NEW ops, NEW old, NEW kept, Tidy(ops, old), kept \subseteq old
  PROVE  Tidy(ops, kept)
BY DEF Tidy, Events, Grants

\* Operations that differ in nothing that matters here.
LEMMA TidyAlike ==
  ASSUME NEW ops \in [Ops -> OpRecords], NEW next \in [Ops -> OpRecords], NEW kept, Tidy(ops, kept),
         \A p \in Ops : Shape(next[p]) /\ AlikeOp(next[p], ops[p])
  PROVE  Tidy(next, kept)
<1>1. \A p \in Ops : /\ next[p].event = ops[p].event /\ next[p].inst = ops[p].inst
                     /\ next[p].kind = ops[p].kind /\ (Granting(next[p]) <=> Granting(ops[p]))
  BY DEF AlikeOp, Granting, Pending
<1>2. Events(next, kept)
  BY <1>1 DEF Tidy, Events
<1>3. Grants(next, kept)
  BY <1>1 DEF Tidy, Grants
<1>4. CloseOnce(next)
  BY <1>1 DEF Tidy, CloseOnce
<1> QED BY <1>2, <1>3, <1>4 DEF Tidy

\* An operation goes on, with its event or without, and is not to be told of an instance again.
LEMMA TidyOn ==
  ASSUME NEW ops \in [Ops -> OpRecords], NEW kept, Tidy(ops, kept), NEW o \in Ops, NEW k,
         Shape(k), SameOp(k, ops[o]), k.event \in {None, ops[o].event}, None \notin kept,
         Granting(k) => Granting(ops[o]), NEW next, next[o] = k, \A p \in Ops : p # o => next[p] = ops[p]
  PROVE  Tidy(next, kept)
<1>1. TidyAt(ops, o, k, kept)
  BY DEF TidyAt, Tidy, Events, Grants, CloseOnce, SameOp
<1> QED BY <1>1, TidyStep

\* A freed operation.
LEMMA TidyGone ==
  ASSUME NEW ops \in [Ops -> OpRecords], NEW kept, Tidy(ops, kept), NEW o \in Ops, None \notin kept,
         NEW next, next[o] = NoOp, \A p \in Ops : p # o => next[p] = ops[p]
  PROVE  Tidy(next, kept)
<1>1. Shape(NoOp) /\ ~Granting(NoOp) /\ NoOp.event = None /\ NoOp.kind \notin Creates \cup {"close"}
  BY NoOpFacts DEF NoOpIs, Shape, Granting, Creates
<1>2. TidyAt(ops, o, NoOp, kept)
  BY <1>1 DEF TidyAt, Tidy, Events, Grants
<1> QED BY <1>2, TidyStep

\* A heap from which some references have gone: what is still there is as it was.
Fades(m2, m) ==
  /\ \A i \in Insts : m2.inst[i].refs # 0 =>
       /\ m.inst[i].refs # 0 /\ m2.inst[i].closing = m.inst[i].closing /\ m2.inst[i].closed = m.inst[i].closed
  /\ \A r \in Resps : m2.resp[r].refs # 0 =>
       /\ m.resp[r].refs # 0 /\ m2.resp[r].reading = m.resp[r].reading /\ m2.resp[r].chunks = m.resp[r].chunks
       /\ m2.resp[r].pos = m.resp[r].pos /\ m2.resp[r].sent = m.resp[r].sent
  /\ m2.retained <= m.retained
\* One release after another.
LEMMA FadesTwice ==
  ASSUME NEW m, NEW m1, NEW m2, Fades(m1, m), Fades(m2, m1),
         m.retained \in Int, m1.retained \in Int, m2.retained \in Int
  PROVE  Fades(m2, m)
BY DEF Fades

\* instance_drop,
LEMMA InstDropFades ==
  ASSUME NEW m, IsHeap(m), NEW ops \in [Ops -> OpRecords], NEW hi \in [Insts -> Nat], NEW hr,
         Books(m, ops, hi, hr), NEW i \in Insts, hi[i] > 0
  PROVE  Fades(instance_drop(m, i), m)
<1>1. m.inst \in [Insts -> InstRecords] /\ m.inst[i] \in InstRecords /\ m.inst[i].refs \in Nat
      /\ m.inst[i].refs # 0 /\ m.retained \in Nat
  <2>1. hi[i] # 0
    OBVIOUS
  <2> QED BY <2>1, InstRefd, RetainedNat DEF Books
<1>2. LET m2 == instance_drop(m, i)
      IN /\ m2.inst = [m.inst EXCEPT ![i] = Less(m.inst[i])] /\ m2.resp = m.resp /\ m2.retained = m.retained
  BY InstDropIs
<1>3. Less(m.inst[i]).refs # 0 => /\ Less(m.inst[i]).closing = m.inst[i].closing
                                  /\ Less(m.inst[i]).closed = m.inst[i].closed
  BY <1>1 DEF Less, NoInst, InstRecords
<1>4. \A j \in Insts : j # i => instance_drop(m, i).inst[j] = m.inst[j]
  BY <1>1, <1>2
<1>5. instance_drop(m, i).inst[i] = Less(m.inst[i])
  BY <1>1, <1>2
<1> QED BY <1>1, <1>2, <1>3, <1>4, <1>5 DEF Fades

\* response_drop,
LEMMA RespDropFades ==
  ASSUME NEW m, IsHeap(m), NEW ops \in [Ops -> OpRecords], NEW hi \in [Insts -> Nat],
         NEW hr \in [Resps -> Nat], Books(m, ops, hi, hr), NEW r \in Resps, hr[r] > 0
  PROVE  Fades(response_drop(m, r), m)
<1>1. /\ m.inst \in [Insts -> InstRecords] /\ m.resp \in [Resps -> RespRecords] /\ m.resp[r] \in RespRecords
      /\ m.resp[r].refs \in Nat /\ m.resp[r].refs # 0 /\ m.retained \in Nat /\ m.resp[r].inst \in Insts
  <2>1. hr[r] # 0
    OBVIOUS
  <2> QED BY <2>1, RespHeld, RetainedNat DEF Books
<1>2. CASE m.resp[r].refs = 1
  <2> DEFINE i == m.resp[r].inst
             n == m.resp[r].charge
             m1 == RespGone(m, r)
             q == LessResp(m.inst[i], n)
             hi1 == [hi EXCEPT ![i] = @ + 1]
             hr1 == [hr EXCEPT ![r] = @ - 1]
  <2>1. Books(m1, ops, hi1, hr1)
    BY <1>2, RespGoneBooks
  <2>2. /\ IsHeap(m1) /\ m1.inst = [m.inst EXCEPT ![i] = q] /\ m1.resp = [m.resp EXCEPT ![r] = NoResp]
        /\ m1.retained = m.retained - n
    BY <1>1, RespGoneIs
  <2>3. /\ m.inst[i] \in InstRecords /\ m.inst[i].refs > 0 /\ n \in Nat
        /\ m.inst[i].charged - n \in Nat /\ m.inst[i].responses - 1 \in Nat
    BY <1>1, RespAdds
  <2>4. q.refs = m.inst[i].refs /\ q.closing = m.inst[i].closing /\ q.closed = m.inst[i].closed
    BY <2>3, LessRespIs
  <2>5. m.inst[i].refs \in Nat /\ NoResp.refs = 0
    BY <2>3, InstNat DEF NoResp
  <2> HIDE DEF m1, q
  <2>6. \A j \in Insts : j # i => m1.inst[j] = m.inst[j]
    BY <1>1, <2>2
  <2>7. m1.inst[i] = q
    BY <1>1, <2>2
  <2>8. (\A s \in Resps : s # r => m1.resp[s] = m.resp[s]) /\ m1.resp[r] = NoResp
    BY <1>1, <2>2
  <2>9. Fades(m1, m)
    <3>1. m1.retained <= m.retained
      BY <1>1, <2>2, <2>3
    <3> HIDE DEF i
    <3> QED BY <2>4, <2>5, <2>6, <2>7, <2>8, <3>1 DEF Fades
  <2>10. hi1 \in [Insts -> Nat] /\ hi1[i] > 0
    BY <1>1, MoreLess
  <2> HIDE DEF hi1, hr1, i
  <2>10a. i \in Insts
    BY <1>1 DEF i
  <2>11. Fades(instance_drop(m1, i), m1)
    BY <2>10a, <2>1, <2>2, <2>10, InstDropFades
  <2>12. m1.retained \in Nat /\ instance_drop(m1, i).retained = m1.retained
    BY <2>1, <2>2, RetainedNat, InstDropIs
  <2>13. Fades(instance_drop(m1, i), m)
    BY <1>1, <2>9, <2>11, <2>12, FadesTwice
  <2> QED BY <1>2, <2>13, RespDropIs DEF m1, i
<1>3. CASE m.resp[r].refs # 1
  <2> DEFINE m2 == [m EXCEPT !.resp[r].refs = @ - 1]
             l == [m.resp[r] EXCEPT !.refs = @ - 1]
  <2>1. m2.inst = m.inst /\ m2.resp = [m.resp EXCEPT ![r] = l] /\ m2.retained = m.retained
    BY DEF IsHeap
  <2>2. /\ l.reading = m.resp[r].reading /\ l.chunks = m.resp[r].chunks /\ l.pos = m.resp[r].pos
        /\ l.sent = m.resp[r].sent
    BY <1>1 DEF RespRecords
  <2> HIDE DEF m2, l
  <2>3. (\A s \in Resps : s # r => m2.resp[s] = m.resp[s]) /\ m2.resp[r] = l
    BY <1>1, <2>1
  <2>4. Fades(m2, m)
    BY <1>1, <2>1, <2>2, <2>3 DEF Fades
  <2> QED BY <1>3, <2>4, RespDropIs DEF m2
<1> QED BY <1>2, <1>3

\* Nobody reads a response that no operation has.
LEMMA ReadsNone ==
  ASSUME NEW ops, NEW r, \A p \in Ops : ops[p].resp # r
  PROVE  OpReads(ops, r) = 0
<1> DEFINE f == [p \in Ops |-> ReadsResp(ops[p], r)]
<1>1. \A p \in Ops : f[p] = 0
  BY DEF ReadsResp, One
<1> HIDE DEF f
<1>2. SumOf(f, Ops) = 0
  BY <1>1, FiniteSlots, SumZero
<1> QED BY <1>2 DEF OpReads, f

\* The same operations read.
LEMMA ReadsSame ==
  ASSUME NEW ops, NEW next, NEW r, \A p \in Ops : ReadsResp(next[p], r) = ReadsResp(ops[p], r)
  PROVE  OpReads(next, r) = OpReads(ops, r)
<1>1. [p \in Ops |-> ReadsResp(next[p], r)] = [p \in Ops |-> ReadsResp(ops[p], r)]
  OBVIOUS
<1> QED BY <1>1 DEF OpReads

\* op_drop.
LEMMA OpDropFades ==
  ASSUME NEW m, IsHeap(m), NEW ops \in [Ops -> OpRecords], NEW hi \in [Insts -> Nat],
         NEW hr \in [Resps -> Nat], Books(m, ops, hi, hr), NEW o \in Ops,
         ops[o].stage = "returned", ops[o].event = None, ops[o].inst \in Insts,
         m.op[o].inst = ops[o].inst, m.op[o].resp = ops[o].resp, m.op[o].charge = ops[o].charge,
         m.op[o].refs = 1
  PROVE  Fades(op_drop(m, o), m) /\ op_drop(m, o).chunk = m.chunk
<1> DEFINE i == ops[o].inst
           r == ops[o].resp
           n == ops[o].charge
           next == [ops EXCEPT ![o] = NoOp]
           hi2 == [hi EXCEPT ![i] = @ + 1]
           hr2 == [hr EXCEPT ![r] = @ + 1]
           q == [m.inst[i] EXCEPT !.charged = m.inst[i].charged - n]
           m1 == uncharge(m, i, n)
           m2 == IF r = None THEN m1 ELSE response_drop(m1, r)
           m3 == instance_drop(m2, i)
           m4 == [m3 EXCEPT !.op[o] = NoOp]
<1>0. r \in Resps \cup {None} /\ i \in Insts /\ next \in [Ops -> OpRecords] /\ n \in Nat
  <2>1. ops[o] \in OpRecords
    OBVIOUS
  <2>2. r \in Resps \cup {None} /\ n \in Nat
    BY <2>1 DEF OpRecords
  <2> QED BY <2>2, NoOpFacts DEF NoOpIs
<1>1. op_drop(m, o) = m4
  BY DEF op_drop
<1>2. Books(m1, next, hi2, IF r = None THEN hr ELSE hr2)
  BY OpGoneBooks
<1>3. /\ IsHeap(m1) /\ m1.chunk = m.chunk /\ m1.inst = [m.inst EXCEPT ![i] = q] /\ m1.resp = m.resp
      /\ m1.retained = m.retained - n
  BY <1>0, UnchargeIs DEF Books
<1>4. hi2 \in [Insts -> Nat] /\ hi2[i] > 0 /\ [hi2 EXCEPT ![i] = @ - 1] = hi
  BY <1>0, MoreLess
<1>5. r # None => hr2 \in [Resps -> Nat] /\ hr2[r] > 0 /\ [hr2 EXCEPT ![r] = @ - 1] = hr
  BY <1>0, MoreLess
<1>5a. m.inst \in [Insts -> InstRecords] /\ m.inst[i] \in InstRecords /\ m.inst[i].charged - n \in Nat
       /\ m.retained \in Nat
  BY <1>0, OpAdds, RetainedNat DEF Books
<1>5b. q.refs = m.inst[i].refs /\ q.closing = m.inst[i].closing /\ q.closed = m.inst[i].closed
  BY <1>5a, ChargedIs
<1> HIDE DEF m1, hi2, hr2, i, r, next, q, n
<1>6. Fades(m1, m) /\ m1.retained \in Nat
  <2>1. m1.inst[i] = q /\ \A j \in Insts : j # i => m1.inst[j] = m.inst[j]
    BY <1>0, <1>3, <1>5a
  <2>2. m1.retained <= m.retained
    BY <1>0, <1>3, <1>5a
  <2> QED BY <1>2, <1>3, <1>5b, <2>1, <2>2, RetainedNat DEF Fades
<1>7. IsHeap(m2) /\ Books(m2, next, hi2, hr) /\ Fades(m2, m) /\ m2.chunk = m.chunk
  <2>1. CASE r = None
    BY <1>2, <1>3, <1>6, <2>1
  <2>2. CASE r # None
    <3> DEFINE d == response_drop(m1, r)
    <3>0. r \in Resps /\ hr2 \in [Resps -> Nat] /\ hr2[r] > 0 /\ [hr2 EXCEPT ![r] = @ - 1] = hr
          /\ Books(m1, next, hi2, hr2)
      BY <1>0, <1>2, <1>5, <2>2
    <3>1. Books(d, next, hi2, [hr2 EXCEPT ![r] = @ - 1])
      BY <1>0, <1>3, <1>4, <3>0, RespDropBooks
    <3>2. m1.inst \in [Insts -> InstRecords] /\ (m1.resp[r].refs = 1 => m1.resp[r].inst \in Insts)
      BY <3>0 DEF Books, RespBook
    <3>3. IsHeap(d) /\ d.chunk = m1.chunk
      BY <1>3, <3>0, <3>2, RespDropFrame
    <3>4. Fades(d, m1)
      BY <1>0, <1>3, <1>4, <3>0, RespDropFades
    <3> HIDE DEF d
    <3>5. d.retained \in Nat
      BY <3>1, RetainedNat
    <3>6. Fades(d, m)
      BY <1>5a, <1>6, <3>4, <3>5, FadesTwice
    <3>7. m2 = d
      BY <2>2 DEF d
    <3> QED BY <1>3, <3>0, <3>1, <3>3, <3>6, <3>7
  <2> QED BY <2>1, <2>2
<1> HIDE DEF m2
<1>8. IsHeap(m3) /\ Fades(m3, m) /\ m3.chunk = m.chunk
  <2>1. IsHeap(m3) /\ m3.chunk = m2.chunk /\ m3.retained = m2.retained
    BY <1>7, InstDropIs
  <2>2. Fades(m3, m2)
    BY <1>0, <1>4, <1>7, InstDropFades
  <2>3. m2.retained \in Nat
    BY <1>7, RetainedNat
  <2> QED BY <1>5a, <1>7, <2>1, <2>2, <2>3, FadesTwice
<1> HIDE DEF m3
<1>9. m4.inst = m3.inst /\ m4.resp = m3.resp /\ m4.chunk = m3.chunk /\ m4.retained = m3.retained
  BY <1>8 DEF IsHeap
<1> HIDE DEF m4
<1> QED BY <1>1, <1>8, <1>9 DEF Fades

\* An operation that is freed, or goes on in the same part of its way.
OpFades(k, old) ==
  \/ k = NoOp /\ old.event = None /\ old.stage \notin Pending
  \/ /\ k.kind = old.kind /\ k.inst = old.inst /\ k.resp = old.resp /\ k.event = old.event
     /\ k.stage \in Pending <=> old.stage \in Pending

\* When references go, what the rest of the heap says stays true.
LEMMA RestFades ==
  ASSUME NEW m, NEW m2, NEW list, NEW kept, NEW kept2, NEW hi \in [Insts -> Nat], NEW hr \in [Resps -> Nat],
         m2.op \in [Ops -> OpRecords], Books(m2, m2.op, hi, hr), Fades(m2, m), m2.chunk = m.chunk,
         \A p \in Ops : Shape(m2.op[p]) /\ OpFades(m2.op[p], m.op[p]),
         \A c \in Chunks : c \in kept2 <=> c \in kept,
         Closes(m), Lives(m, list), ChunksHeld(m, kept), Reads(m)
  PROVE  Closes(m2) /\ Lives(m2, list) /\ ChunksHeld(m2, kept2) /\ Reads(m2)
<1>0. ASSUME NEW p \in Ops, m2.op[p].kind \in Creates \cup {"close"}
      PROVE  /\ m2.op[p].inst \in Insts /\ m2.inst[m2.op[p].inst].refs # 0
             /\ m.op[p].kind = m2.op[p].kind /\ m.op[p].inst = m2.op[p].inst
             /\ (m2.op[p].stage \in Pending <=> m.op[p].stage \in Pending)
  <2>1. m2.op[p] # NoOp
    BY <1>0, NoOpFacts DEF NoOpIs, Creates
  <2>2. m2.op[p].inst \in Insts
    BY <2>1 DEF Shape
  <2> QED BY <2>1, <2>2, InstRefd DEF OpFades
<1>1. Closes(m2)
  <2> SUFFICES ASSUME NEW p \in Ops, m2.op[p].kind = "close" PROVE m2.inst[m2.op[p].inst].closing
    BY DEF Closes
  <2> QED BY <1>0 DEF Fades, Closes
<1>2. Lives(m2, list)
  <2>1. ASSUME NEW p \in Ops, m2.op[p].stage \in Pending, m2.op[p].kind \in Creates \cup {"close"}
        PROVE  m2.op[p].inst \in list
    BY <1>0, <2>1 DEF Lives
  <2>2. \A i \in Insts : m2.inst[i].refs # 0 => /\ i \in list <=> ~m2.inst[i].closed
                                                /\ m2.inst[i].closed => m2.inst[i].closing
    BY DEF Lives, Fades
  <2> QED BY <2>1, <2>2 DEF Lives
<1>3. ChunksHeld(m2, kept2)
  <2>1. \A c \in Chunks, p \in Ops : m2.op[p].event = c <=> m.op[p].event = c
    BY NoOpFacts DEF NoOpIs, OpFades
  <2> QED BY <2>1 DEF ChunksHeld
<1>4. Reads(m2)
  <2> SUFFICES ASSUME NEW r \in Resps
               PROVE  OpReads(m2.op, r) = One(m2.resp[r].reading) /\ m2.resp[r].chunks <= 1
    BY DEF Reads
  <2>1. CASE m2.resp[r].refs # 0
    <3>1. \A p \in Ops : ReadsResp(m2.op[p], r) = ReadsResp(m.op[p], r)
      <4> SUFFICES ASSUME NEW p \in Ops PROVE ReadsResp(m2.op[p], r) = ReadsResp(m.op[p], r)
        OBVIOUS
      <4>1. CASE m2.op[p] = NoOp /\ m.op[p].stage \notin Pending
        BY <4>1, NoOpFacts DEF NoOpIs, ReadsResp, One, Pending
      <4>2. CASE m2.op[p] # NoOp
        BY <4>2 DEF OpFades, ReadsResp, Pending
      <4>3. CASE m2.op[p] = NoOp /\ m.op[p].stage \in Pending
        BY <4>3, NoOpFacts DEF NoOpIs, OpFades, Pending, TaskStages
      <4> QED BY <4>1, <4>2, <4>3
    <3>2. OpReads(m2.op, r) = OpReads(m.op, r)
      BY <3>1, ReadsSame
    <3> QED BY <2>1, <3>2 DEF Fades, Reads
  <2>2. CASE m2.resp[r].refs = 0
    <3>1. m2.resp[r] = NoResp
      BY <2>2 DEF Books, RespBook
    <3>2. \A p \in Ops : m2.op[p].resp # r
      BY <2>2, RespHeld
    <3>3. OpReads(m2.op, r) = 0
      BY <3>2, ReadsNone
    <3> QED BY <3>1, <3>3 DEF NoResp, One
  <2> QED BY <2>1, <2>2
<1> QED BY <1>1, <1>2, <1>3, <1>4

\* What is in hand are numbers.
LEMMA HandNat ==
  ASSUME NEW list, NEW kept
  PROVE  InHand(list, kept) \in [Insts -> Nat] /\ InHandResp(kept) \in [Resps -> Nat]
BY DEF InHand, InHandResp, One

\* Flags of operations, instances and responses change: no stage leaves its part of the way, nothing
\* ends, and no close is taken back.
Flags(m, m2) ==
  /\ IsHeap(m2) /\ m2.op \in [Ops -> OpRecords]
  /\ \A p \in Ops : Shape(m2.op[p]) /\ AlikeOp(m2.op[p], m.op[p])
  /\ m2.inst \in [Insts -> InstRecords]
  /\ \A i \in Insts : /\ AlikeInst(m2.inst[i], m.inst[i]) /\ m2.inst[i].closed = m.inst[i].closed
                      /\ m.inst[i].closing => m2.inst[i].closing
  /\ m2.resp \in [Resps -> RespRecords]
  /\ \A r \in Resps : AlikeResp(m2.resp[r], m.resp[r]) /\ m2.resp[r].reading = m.resp[r].reading
  /\ m2.chunk = m.chunk /\ m2.retained = m.retained
\* A step that only sets flags keeps the invariant.
LEMMA MemFlags ==
  ASSUME NEW m, NEW m2, NEW list, NEW kept, Mem(m, list, kept), Flags(m, m2)
  PROVE  Mem(m2, list, kept)
<1>1. Books(m2, m2.op, InHand(list, kept), InHandResp(kept))
  BY BooksFlags DEF Mem, Flags
<1>2. Tidy(m2.op, kept)
  BY TidyAlike DEF Mem, Flags
<1>3. \A p \in Ops : /\ m2.op[p].kind = m.op[p].kind /\ m2.op[p].inst = m.op[p].inst
                     /\ m2.op[p].event = m.op[p].event /\ m2.op[p].resp = m.op[p].resp
                     /\ m2.op[p].stage \in Pending <=> m.op[p].stage \in Pending
  BY DEF Flags, AlikeOp, Pending
<1>4. Closes(m2)
  <2> SUFFICES ASSUME NEW p \in Ops, m2.op[p].kind = "close" PROVE m2.inst[m2.op[p].inst].closing
    BY DEF Closes
  <2>1. m.op[p].kind = "close" /\ m.inst[m.op[p].inst].closing
    BY <1>3 DEF Mem, Closes
  <2>2. m2.op[p] # NoOp
    BY NoOpFacts DEF NoOpIs
  <2>3. m2.op[p].inst \in Insts
    BY <2>2 DEF Flags, Shape
  <2> QED BY <1>3, <2>1, <2>3 DEF Flags
<1>5. Lives(m2, list)
  BY <1>3 DEF Mem, Lives, Flags, AlikeInst
<1>6. ChunksHeld(m2, kept) /\ \A c \in Chunks : ChunkShape(m2.chunk[c])
  BY <1>3 DEF Mem, ChunksHeld, Flags
<1>7. Reads(m2)
  <2> SUFFICES ASSUME NEW r \in Resps
               PROVE  OpReads(m2.op, r) = One(m2.resp[r].reading) /\ m2.resp[r].chunks <= 1
    BY DEF Reads
  <2>1. \A p \in Ops : ReadsResp(m2.op[p], r) = ReadsResp(m.op[p], r)
    BY <1>3 DEF ReadsResp, Pending
  <2>2. OpReads(m2.op, r) = OpReads(m.op, r)
    BY <2>1, ReadsSame
  <2> QED BY <2>2 DEF Mem, Reads, Flags, AlikeResp
<1> QED BY <1>1, <1>2, <1>4, <1>5, <1>6, <1>7 DEF Mem, Flags

\* A heap ready for a new operation of instance i: the caller has a reference to its response in hand.
Ready(m, list, kept, was, hr, kind, i, r, o, input) ==
  /\ IsHeap(m) /\ m.op \in [Ops -> OpRecords] /\ hr \in [Resps -> Nat]
  /\ Books(m, m.op, InHand(list, kept), hr)
  /\ \A s \in Resps : InHandResp(kept)[s] + One(s = r) = hr[s]
  /\ Tidy(m.op, was) /\ TidyAt(m.op, o, NewRecord(kind, i, r, input), kept)
  /\ Closes(m) /\ Lives(m, list)
  /\ (\A c \in Chunks : ChunkShape(m.chunk[c])) /\ ChunksHeld(m, kept)
  /\ m.op[o] = NoOp /\ kind \in Kinds /\ r \in Resps \cup {None} /\ input \in Nat
  /\ m.inst[i].refs # 0 /\ (kind = "close" => m.inst[i].closing)
  /\ kind \in Creates \cup {"close"} => i \in list
  /\ \A s \in Resps : /\ OpReads(m.op, s) + One(kind = "read" /\ s = r) = One(m.resp[s].reading)
                      /\ m.resp[s].chunks <= 1
\* new_op, once the heap is ready for it.
LEMMA MemNewOp ==
  ASSUME NEW m, NEW list, NEW kept, NEW was, NEW hr, NEW kind, NEW i \in Insts, NEW r, NEW o \in Ops,
         NEW input, Ready(m, list, kept, was, hr, kind, i, r, o, input)
  PROVE  Mem(new_op(m, kind, i, r, o, input), list, kept)
<1> DEFINE m2 == new_op(m, kind, i, r, o, input)
           k == NewRecord(kind, i, r, input)
           hi == InHand(list, kept)
           hr2 == InHandResp(kept)
<1>0. /\ IsHeap(m) /\ m.op \in [Ops -> OpRecords] /\ hi \in [Insts -> Nat] /\ hr \in [Resps -> Nat]
      /\ Books(m, m.op, hi, hr) /\ m.op[o] = NoOp /\ kind \in Kinds /\ r \in Resps \cup {None}
      /\ input \in Nat /\ hr2 \in [Resps -> Nat] /\ \A s \in Resps : hr2[s] + One(s = r) = hr[s]
  BY HandNat DEF Ready
<1> HIDE DEF hi, hr2
<1>1. NewOpDoes(m, m2, kind, i, r, o, input)
  BY <1>0, NewOpIs DEF Books
<1>2. Books(m2, [m.op EXCEPT ![o] = k], hi, hr2)
  BY <1>0, NewOpBooks
<1>3. /\ k \in OpRecords /\ k.kind = kind /\ k.stage = "queued" /\ k.inst = i /\ k.resp = r /\ k.event = None
  BY <1>0, NewIs
<1> HIDE DEF m2, k
<1>4. IsHeap(m2) /\ m2.op = [m.op EXCEPT ![o] = k] /\ m2.resp = m.resp /\ m2.chunk = m.chunk
  BY <1>1 DEF NewOpDoes, k
<1>5. m2.op \in [Ops -> OpRecords] /\ m2.op[o] = k /\ \A p \in Ops : p # o => m2.op[p] = m.op[p]
  BY <1>0, <1>3, <1>4
<1>6. Books(m2, m2.op, hi, hr2)
  BY <1>2, <1>4
<1>7. Tidy(m2.op, kept)
  BY <1>0, <1>5, TidyStep DEF Ready, k
<1>8. \A j \in Insts : /\ m2.inst[j].closed = m.inst[j].closed /\ m2.inst[j].closing = m.inst[j].closing
                       /\ j # i => m2.inst[j] = m.inst[j]
  <2>1. m.inst \in [Insts -> InstRecords] /\ m.inst[i] \in InstRecords /\ RecordCost(kind) + input \in Nat
    BY <1>0, NewIs DEF Books
  <2>2. /\ m2.inst = [m.inst EXCEPT ![i] = MoreOp(m.inst[i], RecordCost(kind) + input)]
    BY <1>1 DEF NewOpDoes
  <2>3. LET q == MoreOp(m.inst[i], RecordCost(kind) + input)
        IN q.closing = m.inst[i].closing /\ q.closed = m.inst[i].closed
    BY <2>1, MoreOpIs
  <2> QED BY <2>1, <2>2, <2>3
<1>9. Closes(m2)
  <2> SUFFICES ASSUME NEW p \in Ops, m2.op[p].kind = "close" PROVE m2.inst[m2.op[p].inst].closing
    BY DEF Closes
  <2>1. CASE p = o
    BY <1>3, <1>5, <1>8, <2>1 DEF Ready
  <2>2. CASE p # o
    <3>1. m2.op[p] = m.op[p] /\ m.inst[m.op[p].inst].closing
      BY <1>5, <2>2 DEF Ready, Closes
    <3>2. m.op[p] # NoOp
      BY <3>1, NoOpFacts DEF NoOpIs
    <3>3. m.op[p].inst \in Insts
      BY <3>2 DEF Ready, Tidy, Shape
    <3> QED BY <1>8, <3>1, <3>3
  <2> QED BY <2>1, <2>2
<1>10. Lives(m2, list)
  <2>1. ASSUME NEW p \in Ops, m2.op[p].stage \in Pending, m2.op[p].kind \in Creates \cup {"close"}
        PROVE  m2.op[p].inst \in list
    BY <1>3, <1>5, <2>1 DEF Ready, Lives
  <2>2. ASSUME NEW j \in Insts, m2.inst[j].refs # 0
        PROVE  /\ j \in list <=> ~m2.inst[j].closed
               /\ m2.inst[j].closed => m2.inst[j].closing
    <3>1. CASE j # i
      BY <1>8, <2>2, <3>1 DEF Ready, Lives
    <3>2. CASE j = i
      BY <1>8, <3>2 DEF Ready, Lives
    <3> QED BY <3>1, <3>2
  <2> QED BY <2>1, <2>2 DEF Lives
<1>11. ChunksHeld(m2, kept)
  <2>1. \A c \in Chunks, p \in Ops : m2.op[p].event = c <=> m.op[p].event = c
    BY <1>0, <1>3, <1>5, NoOpFacts DEF NoOpIs
  <2> QED BY <1>4, <2>1 DEF Ready, ChunksHeld
<1>12. Reads(m2)
  <2> SUFFICES ASSUME NEW s \in Resps
               PROVE  OpReads(m2.op, s) = One(m2.resp[s].reading) /\ m2.resp[s].chunks <= 1
    BY DEF Reads
  <2>1. OpReads(m.op, s) + One(kind = "read" /\ s = r) = One(m.resp[s].reading) /\ m.resp[s].chunks <= 1
    BY DEF Ready
  <2>2. OpReads(m2.op, s) = (OpReads(m.op, s) - ReadsResp(m.op[o], s)) + ReadsResp(k, s)
        /\ OpReads(m.op, s) \in Nat
    BY <1>0, <1>5, OpChange
  <2>3. ReadsResp(m.op[o], s) = 0 /\ ReadsResp(k, s) = One(kind = "read" /\ s = r)
    BY <1>0, <1>3, NoOpFacts DEF NoOpIs, ReadsResp, One
  <2> QED BY <1>4, <2>1, <2>2, <2>3, OneIs
<1>13. \A c \in Chunks : ChunkShape(m2.chunk[c])
  BY <1>4 DEF Ready
<1>14. Books(m2, m2.op, InHand(list, kept), InHandResp(kept))
  BY <1>6 DEF hi, hr2
<1>15. Mem(m2, list, kept)
  BY <1>4, <1>5, <1>14, <1>7, <1>9, <1>10, <1>11, <1>12, <1>13 DEF Mem
<1> QED BY <1>15 DEF m2

\* The instance an operation, a response or the host points to is there.
LEMMA InstThere ==
  ASSUME NEW m, NEW list, NEW kept, Mem(m, list, kept), NEW i \in Insts
  PROVE  /\ i \in kept \/ i \in list => m.inst[i].refs # 0
         /\ \A o \in Ops : m.op[o].inst = i => m.inst[i].refs # 0
         /\ \A r \in Resps : m.resp[r].inst = i => m.inst[i].refs # 0
         /\ m.inst[i].refs # 0 /\ ~m.inst[i].closing => i \in list
<1>1. InHand(list, kept) \in [Insts -> Nat] /\ Books(m, m.op, InHand(list, kept), InHandResp(kept))
      /\ m.op \in [Ops -> OpRecords]
  BY HandNat DEF Mem
<1>2. i \in kept \/ i \in list => InHand(list, kept)[i] # 0
  BY DEF InHand, One
<1>3. m.inst[i].refs # 0 /\ ~m.inst[i].closing => i \in list
  BY DEF Mem, Lives
<1> QED BY <1>1, <1>2, <1>3, InstRefd

\* A response the host has is there, and so is its instance.
LEMMA RespThere ==
  ASSUME NEW m, NEW list, NEW kept, Mem(m, list, kept), NEW r \in Resps
  PROVE  /\ r \in kept => m.resp[r].refs # 0
         /\ \A o \in Ops : m.op[o].resp = r \/ m.op[o].event = r => m.resp[r].refs # 0
         /\ m.resp[r].refs # 0 => m.resp[r].inst \in Insts
<1>1. InHandResp(kept) \in [Resps -> Nat] /\ Books(m, m.op, InHand(list, kept), InHandResp(kept))
      /\ m.op \in [Ops -> OpRecords]
  BY HandNat DEF Mem
<1>2. r \in kept => InHandResp(kept)[r] # 0
  BY DEF InHandResp, One
<1> QED BY <1>1, <1>2, RespHeld

\* A new operation that neither opens nor closes an instance.
LEMMA NewTidy ==
  ASSUME NEW ops, NEW was, NEW kept, Tidy(ops, was), kept \subseteq was, None \notin was, NEW o \in Ops,
         NEW kind \in {"submit", "read", "drop"}, NEW i \in Insts, NEW r \in Resps \cup {None},
         r \in Resps <=> kind \in {"read", "drop"}, NEW input \in Nat
  PROVE  TidyAt(ops, o, NewRecord(kind, i, r, input), kept)
<1> DEFINE k == NewRecord(kind, i, r, input)
<1>1. kind \in Kinds
  BY DEF Kinds, Business
<1>2. /\ k \in OpRecords /\ k.kind = kind /\ k.stage = "queued" /\ k.inst = i /\ k.resp = r /\ k.event = None
      /\ k.refs # 0
  BY <1>1, NewIs
<1> HIDE DEF k
<1>3. Shape(k) /\ ~Granting(k)
  BY <1>2, NoOpFacts DEF NoOpIs, Shape, Granting, Creates
<1>4. TidyAt(ops, o, k, kept)
  BY <1>2, <1>3 DEF TidyAt, Tidy, Events, Grants, Creates
<1> QED BY <1>4 DEF k

\* hs_submit_async.
LEMMA MemSubmit ==
  ASSUME NEW m, NEW list, NEW kept, Mem(m, list, kept), None \notin kept, NEW i \in Insts, i \in kept,
         NEW o \in Ops, m.op[o].refs = 0, NEW input \in Nat
  PROVE  Mem(new_op(m, "submit", i, None, o, input), list, kept)
<1>1. TidyAt(m.op, o, NewRecord("submit", i, None, input), kept)
  BY NewTidy, NoOpFacts DEF Mem, NoOpIs
<1>2. m.op[o] = NoOp
  BY DEF Mem, Tidy, Shape
<1>3. \A s \in Resps : InHandResp(kept)[s] + One(s = None) = InHandResp(kept)[s]
  BY NoOpFacts, HandNat DEF NoOpIs, One
<1>4. \A s \in Resps : /\ OpReads(m.op, s) + One("submit" = "read" /\ s = None) = One(m.resp[s].reading)
                       /\ m.resp[s].chunks <= 1
  BY DEF Mem, Reads, One
<1>5. Ready(m, list, kept, kept, InHandResp(kept), "submit", i, None, o, input)
  BY <1>1, <1>2, <1>3, <1>4, InstThere, HandNat DEF Ready, Mem, Kinds, Business, Creates
<1> QED BY <1>5, MemNewOp

\* hs_engine_close_async and hs_server_stop_async.
LEMMA MemClose ==
  ASSUME NEW m, NEW list, NEW kept, Mem(m, list, kept), None \notin kept, NEW i \in Insts, i \in kept,
         ~m.inst[i].closing, NEW o \in Ops, m.op[o].refs = 0
  PROVE  Mem(new_op([m EXCEPT !.inst[i].closing = TRUE], "close", i, None, o, 0), list, kept)
<1> DEFINE m1 == [m EXCEPT !.inst[i].closing = TRUE]
           k == NewRecord("close", i, None, 0)
<1>0. IsHeap(m) /\ m.inst \in [Insts -> InstRecords] /\ m.resp \in [Resps -> RespRecords]
      /\ m.op \in [Ops -> OpRecords] /\ \A p \in Ops : Shape(m.op[p])
  BY DEF Mem, Books, Tidy
<1>1. /\ IsHeap(m1) /\ m1.op = m.op /\ m1.resp = m.resp /\ m1.chunk = m.chunk /\ m1.retained = m.retained
      /\ m1.inst = [m.inst EXCEPT ![i] = [m.inst[i] EXCEPT !.closing = TRUE]]
  BY <1>0 DEF IsHeap
<1>2. m.inst[i].refs # 0 /\ i \in list
  BY InstThere
<1>3. Flags(m, m1)
  <2> DEFINE q == [m.inst[i] EXCEPT !.closing = TRUE]
  <2>0. m.inst[i] \in InstRecords
    BY <1>0
  <2>1. /\ q \in InstRecords /\ AlikeInst(q, m.inst[i]) /\ q.closed = m.inst[i].closed /\ q.closing
    BY <2>0, <1>2 DEF InstRecords, AlikeInst
  <2> HIDE DEF q
  <2>2. m1.inst = [m.inst EXCEPT ![i] = q]
    BY <1>1 DEF q
  <2> HIDE DEF m1
  <2>3. \A p \in Ops : AlikeOp(m1.op[p], m.op[p])
    BY <1>1 DEF AlikeOp
  <2>4. \A r \in Resps : AlikeResp(m1.resp[r], m.resp[r])
    BY <1>1 DEF AlikeResp
  <2>5. \A j \in Insts : /\ AlikeInst(m1.inst[j], m.inst[j]) /\ m1.inst[j].closed = m.inst[j].closed
                         /\ m.inst[j].closing => m1.inst[j].closing
    BY <1>0, <2>1, <2>2 DEF AlikeInst
  <2>6. m1.inst \in [Insts -> InstRecords]
    BY <1>0, <2>1, <2>2
  <2> QED BY <1>0, <1>1, <2>3, <2>4, <2>5, <2>6 DEF Flags
<1>4. Mem(m1, list, kept) /\ m1.inst[i].closing /\ m1.inst[i].refs # 0
  BY <1>0, <1>1, <1>2, <1>3, MemFlags
<1>5. /\ k \in OpRecords /\ k.kind = "close" /\ k.stage = "queued" /\ k.inst = i /\ k.resp = None /\ k.event = None
      /\ k.refs # 0
  BY NewIs DEF Kinds
<1>6. \A p \in Ops : m.op[p].inst = i => m.op[p].kind # "close" /\ ~Granting(m.op[p])
  BY DEF Mem, Closes, Tidy, Grants
<1> HIDE DEF m1, k
<1>7. Shape(k) /\ ~Granting(k)
  BY <1>5, NoOpFacts DEF NoOpIs, Shape, Granting, Creates
<1>8. TidyAt(m1.op, o, k, kept)
  BY <1>1, <1>5, <1>6, <1>7 DEF TidyAt, Mem, Tidy, Events, Grants
<1>9. m1.op[o] = NoOp
  BY <1>0, <1>1 DEF Shape
<1>10. \A s \in Resps : InHandResp(kept)[s] + One(s = None) = InHandResp(kept)[s]
  BY NoOpFacts, HandNat DEF NoOpIs, One
<1>11. \A s \in Resps : /\ OpReads(m1.op, s) + One("close" = "read" /\ s = None) = One(m1.resp[s].reading)
                        /\ m1.resp[s].chunks <= 1
  BY <1>4 DEF Mem, Reads, One
<1>12. TidyAt(m1.op, o, NewRecord("close", i, None, 0), kept)
  BY <1>8 DEF k
<1>13. Ready(m1, list, kept, kept, InHandResp(kept), "close", i, None, o, 0)
  BY <1>2, <1>4, <1>9, <1>10, <1>11, <1>12, HandNat DEF Ready, Mem, Kinds
<1>14. Mem(new_op(m1, "close", i, None, o, 0), list, kept)
  BY <1>13, MemNewOp
<1> QED BY <1>14 DEF m1

\* A response with record l instead of k: an operation, to be queued, points to it too.
Pointed(m, m1, r, l, kind) ==
  /\ IsHeap(m1) /\ m1.op = m.op /\ m1.inst = m.inst /\ m1.chunk = m.chunk /\ m1.retained = m.retained
  /\ m1.resp = [m.resp EXCEPT ![r] = l]
  /\ l \in RespRecords /\ l.refs = m.resp[r].refs + 1 /\ l.inst = m.resp[r].inst
  /\ l.chunks = m.resp[r].chunks /\ l.charge = m.resp[r].charge
  /\ kind \in {"read", "drop"}
  /\ IF kind = "read" THEN l.reading /\ ~m.resp[r].reading ELSE l.reading = m.resp[r].reading
\* hs_response_read_async, and the internal operation of hs_response_release.
LEMMA MemPointed ==
  ASSUME NEW m, NEW list, NEW kept, Mem(m, list, kept), None \notin kept, NEW r \in Resps, r \in kept,
         NEW m1, NEW l, NEW kind, Pointed(m, m1, r, l, kind), NEW o \in Ops, m.op[o].refs = 0
  PROVE  Mem(new_op(m1, kind, m.resp[r].inst, r, o, 0), list, kept)
<1> DEFINE i == m.resp[r].inst
           hi == InHand(list, kept)
           hr == InHandResp(kept)
           hr1 == [hr EXCEPT ![r] = @ + 1]
<1>0. /\ IsHeap(m) /\ m.inst \in [Insts -> InstRecords] /\ m.resp \in [Resps -> RespRecords]
      /\ m.op \in [Ops -> OpRecords] /\ Books(m, m.op, hi, hr) /\ hi \in [Insts -> Nat] /\ hr \in [Resps -> Nat]
      /\ hr1 \in [Resps -> Nat] /\ m.retained = ChargedIn(m.inst)
  BY HandNat DEF Mem, Books
<1>1. /\ IsHeap(m1) /\ m1.op = m.op /\ m1.inst = m.inst /\ m1.chunk = m.chunk /\ m1.retained = m.retained
      /\ m1.resp = [m.resp EXCEPT ![r] = l] /\ kind \in {"read", "drop"}
  BY DEF Pointed
<1>2. m.resp[r].refs # 0 /\ i \in Insts /\ m.resp[r] \in RespRecords /\ m.resp[r].refs \in Nat
  <2>1. m.resp[r] \in RespRecords
    BY <1>0
  <2> QED BY <2>1, RespThere DEF RespRecords
<1>3. /\ l \in RespRecords /\ l.refs = m.resp[r].refs + 1 /\ l.inst = i /\ l.chunks = m.resp[r].chunks
      /\ l.charge = m.resp[r].charge
      /\ IF kind = "read" THEN l.reading /\ ~m.resp[r].reading ELSE l.reading = m.resp[r].reading
  BY DEF Pointed
<1>4. /\ hr1[r] = hr[r] + 1 /\ hr[r] \in Nat /\ \A s \in Resps : s # r => hr1[s] = hr[s]
  BY <1>0
<1> HIDE DEF hi, hr, hr1, i
<1>5. /\ m1.resp[r] = l /\ m1.resp \in [Resps -> RespRecords] /\ \A s \in Resps : s # r => m1.resp[s] = m.resp[s]
  BY <1>0, <1>1, <1>3
<1>6. Books(m1, m.op, hi, hr1)
  <2>1. \A j \in Insts : RespBalanced(m.inst[j], m1.inst[j], m.resp[r], m1.resp[r], j, hi[j], hi[j])
    <3> SUFFICES ASSUME NEW j \in Insts
                 PROVE  RespBalanced(m.inst[j], m1.inst[j], m.resp[r], m1.resp[r], j, hi[j], hi[j])
      OBVIOUS
    <3>1. m1.resp[r].inst = m.resp[r].inst /\ m1.resp[r].charge = m.resp[r].charge
      BY <1>3, <1>5 DEF i
    <3>2. m.inst[j].refs = 0 => m.inst[j] = NoInst
      BY <1>0 DEF Books, InstBook
    <3> QED BY <1>1, <3>1, <3>2 DEF RespBalanced, RespBy
  <2>2. \A s \in Resps : s # r => m1.resp[s] = m.resp[s] /\ hr1[s] = hr[s]
    BY <1>4, <1>5
  <2>3. m1.resp[r].refs + hr[r] = m.resp[r].refs + hr1[r] /\ m1.resp[r].chunks = m.resp[r].chunks
    BY <1>2, <1>3, <1>4, <1>5
  <2>4. m1.resp[r].refs # 0 /\ m1.resp[r].inst \in Insts
    BY <1>2, <1>3, <1>5
  <2>5. m1.inst \in [Insts -> InstRecords] /\ m1.retained = ChargedIn(m1.inst)
    BY <1>0, <1>1
  <2>6. /\ m1.resp[r].refs = 0 => m1.resp[r] = NoResp
        /\ m1.resp[r].refs # 0 => m1.resp[r].inst \in Insts
        /\ m1.resp \in [Resps -> RespRecords] /\ m1.chunk = m.chunk
    BY <1>1, <1>5, <2>4
  <2> QED BY ONLY <1>0, <2>1, <2>2, <2>3, <2>5, <2>6, BooksResp, r \in Resps
<1>7. TidyAt(m1.op, o, NewRecord(kind, i, r, 0), kept)
  <2>1. Tidy(m1.op, kept) /\ kept \subseteq kept
    BY <1>1 DEF Mem
  <2>2. kind \in {"submit", "read", "drop"} /\ 0 \in Nat /\ r \in Resps \cup {None}
        /\ (r \in Resps <=> kind \in {"read", "drop"})
    BY <1>1
  <2> QED BY <1>2, <2>1, <2>2, NewTidy
<1>8. m1.op[o] = NoOp
  BY <1>1 DEF Mem, Tidy, Shape
<1>9. \A s \in Resps : hr[s] + One(s = r) = hr1[s]
  BY <1>0, <1>4 DEF One
<1>10. \A s \in Resps : /\ OpReads(m1.op, s) + One(kind = "read" /\ s = r) = One(m1.resp[s].reading)
                        /\ m1.resp[s].chunks <= 1
  <2> SUFFICES ASSUME NEW s \in Resps
               PROVE  /\ OpReads(m1.op, s) + One(kind = "read" /\ s = r) = One(m1.resp[s].reading)
                      /\ m1.resp[s].chunks <= 1
    OBVIOUS
  <2>1. OpReads(m.op, s) = One(m.resp[s].reading) /\ m.resp[s].chunks <= 1
    BY DEF Mem, Reads
  <2> QED BY <1>1, <1>3, <1>5, <2>1 DEF One
<1>11. m1.inst[i].refs # 0
  BY <1>1, <1>2, InstThere DEF i
<1>12. Closes(m1) /\ Lives(m1, list) /\ ChunksHeld(m1, kept) /\ \A c \in Chunks : ChunkShape(m1.chunk[c])
  BY <1>1 DEF Mem, Closes, Lives, ChunksHeld
<1>13. Ready(m1, list, kept, kept, hr1, kind, i, r, o, 0)
  BY <1>0, <1>1, <1>6, <1>7, <1>8, <1>9, <1>10, <1>11, <1>12 DEF Ready, Mem, Kinds, Business, Creates, hi, hr
<1>14. Mem(new_op(m1, kind, i, r, o, 0), list, kept)
  BY <1>2, <1>13, MemNewOp
<1> QED BY <1>14 DEF i

\* create_async: the new instance is on the live list.
LEMMA MemCreate ==
  ASSUME NEW m, NEW list, NEW kept, Mem(m, list, kept), None \notin kept, NEW i \in Insts,
         m.inst[i].refs = 0, NEW b \in BOOLEAN, NEW kind \in Creates, NEW o \in Ops, m.op[o].refs = 0
  PROVE  Mem(new_op([m EXCEPT !.inst[i].refs = 1, !.inst[i].server = b], kind, i, None, o, InputCost),
             list \cup {i}, kept)
<1> DEFINE q == [m.inst[i] EXCEPT !.refs = 1, !.server = b]
           m1 == [m EXCEPT !.inst[i].refs = 1, !.inst[i].server = b]
           hi == InHand(list, kept)
           hr == InHandResp(kept)
           k == NewRecord(kind, i, None, InputCost)
           new == list \cup {i}
<1>0. /\ IsHeap(m) /\ m.inst \in [Insts -> InstRecords] /\ m.resp \in [Resps -> RespRecords]
      /\ m.op \in [Ops -> OpRecords] /\ Books(m, m.op, hi, hr) /\ hi \in [Insts -> Nat] /\ hr \in [Resps -> Nat]
      /\ m.inst[i] \in InstRecords
  BY HandNat DEF Mem, Books
<1>1. /\ IsHeap(m1) /\ m1.op = m.op /\ m1.resp = m.resp /\ m1.chunk = m.chunk /\ m1.retained = m.retained
      /\ m1.inst = [m.inst EXCEPT ![i] = q]
  BY <1>0 DEF IsHeap
<1>2. m.inst[i] = NoInst /\ i \notin list /\ i \notin kept /\ \A p \in Ops : m.op[p].inst # i
  <2>1. m.inst[i] = NoInst
    BY <1>0 DEF Books, InstBook
  <2> QED BY <2>1, InstThere
<1>3. /\ q \in InstRecords /\ q.refs = 1 /\ q.active = m.inst[i].active /\ q.responses = m.inst[i].responses
      /\ q.notifications = m.inst[i].notifications /\ q.charged = m.inst[i].charged /\ ~q.closed
  <2>1. /\ q \in InstRecords /\ q.refs = 1 /\ q.active = m.inst[i].active /\ q.responses = m.inst[i].responses
        /\ q.notifications = m.inst[i].notifications /\ q.charged = m.inst[i].charged
        /\ q.closed = m.inst[i].closed
    BY <1>0 DEF InstRecords
  <2> QED BY <1>2, <2>1 DEF NoInst
<1>4. InHand(new, kept) = [hi EXCEPT ![i] = 1] /\ hi[i] = 0
  <2>1. hi[i] = 0 /\ InHand(new, kept)[i] = 1
    BY <1>2 DEF InHand, One
  <2>2. \A j \in Insts : j # i => InHand(new, kept)[j] = hi[j]
    BY DEF InHand
  <2>3. InHand(new, kept) \in [Insts -> Nat] /\ hi \in [Insts -> Nat]
    BY HandNat
  <2> HIDE DEF hi, new
  <2> QED BY <2>1, <2>2, <2>3
<1> HIDE DEF q, m1, hi, hr
<1>5. Books(m1, m.op, [hi EXCEPT ![i] = 1], hr)
  <2>1. q.refs + hi[i] = m.inst[i].refs + 1 /\ q.refs # 0
    BY <1>3, <1>4
  <2>2. 1 \in Nat
    OBVIOUS
  <2>3. /\ m1.inst = [m.inst EXCEPT ![i] = q] /\ m1.resp = m.resp /\ m1.chunk = m.chunk
        /\ m1.retained = m.retained /\ q \in InstRecords
        /\ q.active = m.inst[i].active /\ q.responses = m.inst[i].responses
        /\ q.notifications = m.inst[i].notifications /\ q.charged = m.inst[i].charged
    BY <1>1, <1>3
  <2> QED BY ONLY <1>0, <2>1, <2>2, <2>3, BooksInst, i \in Insts, ZenonT(40)
<1>6. /\ k \in OpRecords /\ k.kind = kind /\ k.stage = "queued" /\ k.inst = i /\ k.resp = None /\ k.event = None
      /\ k.refs # 0
  <2>1. kind \in Kinds /\ InputCost \in Nat
    BY BridgeAssumption DEF Kinds, Business, Creates
  <2>2. ASSUME NEW r \in Resps \cup {None}
        PROVE  LET x == NewRecord(kind, i, r, InputCost)
               IN /\ x \in OpRecords /\ x.kind = kind /\ x.stage = "queued" /\ x.inst = i /\ x.resp = r
                  /\ x.event = None /\ x.refs # 0
    BY <2>1, NewIs
  <2> QED BY <2>2
<1>7. TidyAt(m1.op, o, k, kept)
  <2> HIDE DEF k
  <2>1. Shape(k)
    BY <1>6, NoOpFacts DEF NoOpIs, Shape, Creates
  <2>2. \A p \in Ops : m1.op[p].inst # k.inst
    BY <1>1, <1>2, <1>6
  <2> QED BY <1>1, <1>2, <1>6, <2>1, <2>2 DEF TidyAt, Mem, Tidy, Events, Grants
<1>8. m1.op[o] = NoOp
  BY <1>1 DEF Mem, Tidy, Shape
<1>9. \A s \in Resps : hr[s] + One(s = None) = hr[s]
  BY <1>0, NoOpFacts DEF NoOpIs, One
<1>10. \A s \in Resps : /\ OpReads(m1.op, s) + One(kind = "read" /\ s = None) = One(m1.resp[s].reading)
                        /\ m1.resp[s].chunks <= 1
  BY <1>1 DEF Mem, Reads, One, Creates
<1>11. m1.inst[i] = q /\ \A j \in Insts : j # i => m1.inst[j] = m.inst[j]
  BY <1>0, <1>1
<1>12. Closes(m1)
  <2> SUFFICES ASSUME NEW p \in Ops, m1.op[p].kind = "close" PROVE m1.inst[m1.op[p].inst].closing
    BY DEF Closes
  <2>1. m.op[p] # NoOp /\ m.inst[m.op[p].inst].closing
    BY <1>1, NoOpFacts DEF NoOpIs, Mem, Closes
  <2>2. m.op[p].inst \in Insts /\ m.op[p].inst # i
    BY <1>2, <2>1 DEF Mem, Tidy, Shape
  <2> QED BY <1>1, <1>11, <2>1, <2>2
<1>13. Lives(m1, new)
  <2>1. \A p \in Ops : m1.op[p].stage \in Pending /\ m1.op[p].kind \in Creates \cup {"close"}
                       => m1.op[p].inst \in new
    BY <1>1 DEF Mem, Lives
  <2>2. \A j \in Insts : m1.inst[j].refs # 0 =>
          /\ j \in new <=> ~m1.inst[j].closed
          /\ m1.inst[j].closed => m1.inst[j].closing
    BY <1>3, <1>11 DEF Mem, Lives
  <2> QED BY <2>1, <2>2 DEF Lives
<1>14. ChunksHeld(m1, kept) /\ \A c \in Chunks : ChunkShape(m1.chunk[c])
  BY <1>1 DEF Mem, ChunksHeld
<1>15. Books(m1, m1.op, InHand(new, kept), hr) /\ Tidy(m1.op, kept) /\ m1.op \in [Ops -> OpRecords]
  BY <1>0, <1>1, <1>4, <1>5 DEF Mem
<1>16. m1.inst[i].refs # 0 /\ i \in new /\ kind \in Kinds /\ InputCost \in Nat /\ kind # "close"
  BY <1>3, <1>11, BridgeAssumption DEF Kinds, Business, Creates
<1>17. hr = InHandResp(kept)
  BY DEF hr
<1> HIDE DEF new
<1>18. Ready(m1, new, kept, kept, hr, kind, i, None, o, InputCost)
  BY <1>0, <1>1, <1>7, <1>8, <1>9, <1>10, <1>12, <1>13, <1>14, <1>15, <1>16, <1>17 DEF Ready
<1>19. Mem(new_op(m1, kind, i, None, o, InputCost), new, kept)
  BY <1>18, MemNewOp
<1> QED BY <1>19 DEF m1, new

\* The host lets go of a response: its instances stay in hand.
LEMMA HandLessResp ==
  ASSUME NEW list, NEW kept, NEW r \in Resps, r \in kept
  PROVE  /\ InHand(list, kept \ {r}) = InHand(list, kept)
         /\ InHandResp(kept)[r] > 0
         /\ InHandResp(kept \ {r}) = [InHandResp(kept) EXCEPT ![r] = @ - 1]
         /\ \A s \in Resps : InHandResp(kept \ {r})[s] + One(s = r) = InHandResp(kept)[s]
<1>1. \A i \in Insts : i \in kept \ {r} <=> i \in kept
  BY BridgeAssumption
<1>2. InHand(list, kept \ {r}) = InHand(list, kept)
  BY <1>1 DEF InHand
<1>3. InHandResp(kept)[r] = 1 /\ InHandResp(kept \ {r})[r] = 0
  BY DEF InHandResp, One
<1>4. \A s \in Resps : s # r => InHandResp(kept \ {r})[s] = InHandResp(kept)[s]
  BY DEF InHandResp
<1>5. InHandResp(kept) \in [Resps -> Nat] /\ InHandResp(kept \ {r}) \in [Resps -> Nat]
  BY HandNat
<1>6. InHandResp(kept \ {r}) = [InHandResp(kept) EXCEPT ![r] = @ - 1]
  <2> DEFINE f == InHandResp(kept)
             g == InHandResp(kept \ {r})
  <2>1. f \in [Resps -> Nat] /\ g \in [Resps -> Nat] /\ \A s \in Resps : s # r => g[s] = f[s]
    BY <1>4, <1>5
  <2>2. g[r] = f[r] - 1
    BY <1>3
  <2> HIDE DEF f, g
  <2>3. g = [f EXCEPT ![r] = @ - 1]
    BY <2>1, <2>2
  <2> QED BY <2>3 DEF f, g
<1>7. \A s \in Resps : InHandResp(kept \ {r})[s] + One(s = r) = InHandResp(kept)[s]
  BY <1>3, <1>4, <1>5 DEF One
<1> QED BY <1>2, <1>3, <1>6, <1>7

\* The host lets go of an instance.
LEMMA HandLessInst ==
  ASSUME NEW list, NEW kept, NEW i \in Insts, i \in kept
  PROVE  /\ InHandResp(kept \ {i}) = InHandResp(kept)
         /\ InHand(list, kept)[i] > 0
         /\ InHand(list, kept \ {i}) = [InHand(list, kept) EXCEPT ![i] = @ - 1]
<1>1. \A s \in Resps : s \in kept \ {i} <=> s \in kept
  BY BridgeAssumption
<1>2. InHandResp(kept \ {i}) = InHandResp(kept)
  BY <1>1 DEF InHandResp
<1>3. InHand(list, kept)[i] = One(i \in list) + 1 /\ InHand(list, kept \ {i})[i] = One(i \in list)
      /\ One(i \in list) \in Nat
  BY DEF InHand, One
<1>4. \A s \in Insts : s # i => InHand(list, kept \ {i})[s] = InHand(list, kept)[s]
  BY DEF InHand
<1>5. InHand(list, kept) \in [Insts -> Nat] /\ InHand(list, kept \ {i}) \in [Insts -> Nat]
  BY HandNat
<1>6. InHand(list, kept \ {i}) = [InHand(list, kept) EXCEPT ![i] = @ - 1]
  <2> DEFINE f == InHand(list, kept)
             g == InHand(list, kept \ {i})
  <2>1. f \in [Insts -> Nat] /\ g \in [Insts -> Nat] /\ \A s \in Insts : s # i => g[s] = f[s]
    BY <1>4, <1>5
  <2>2. g[i] = f[i] - 1
    BY <1>3
  <2> HIDE DEF f, g
  <2>3. g = [f EXCEPT ![i] = @ - 1]
    BY <2>1, <2>2
  <2> QED BY <2>3 DEF f, g
<1> QED BY <1>2, <1>3, <1>6

\* response_drop of the host's reference.
LEMMA MemRespDrop ==
  ASSUME NEW m, NEW list, NEW kept, Mem(m, list, kept), NEW r \in Resps, r \in kept
  PROVE  Mem(response_drop(m, r), list, kept \ {r}) /\ Fades(response_drop(m, r), m)
         /\ response_drop(m, r).op = m.op
<1> DEFINE m2 == response_drop(m, r)
           hi == InHand(list, kept)
           hr == InHandResp(kept)
           hr2 == InHandResp(kept \ {r})
<1>0. IsHeap(m) /\ m.op \in [Ops -> OpRecords] /\ Books(m, m.op, hi, hr) /\ hi \in [Insts -> Nat]
      /\ hr \in [Resps -> Nat] /\ m.inst \in [Insts -> InstRecords]
  BY HandNat DEF Mem, Books
<1>1. hr[r] > 0 /\ hr2 = [hr EXCEPT ![r] = @ - 1] /\ InHand(list, kept \ {r}) = hi
  BY HandLessResp
<1>1a. hr2 \in [Resps -> Nat]
  BY HandNat
<1>2. m.resp[r].refs = 1 => m.resp[r].inst \in Insts
  BY RespThere
<1> HIDE DEF hi, hr, hr2
<1>3. Books(m2, m.op, hi, hr2)
  BY <1>0, <1>1, RespDropBooks
<1>4. IsHeap(m2) /\ m2.op = m.op /\ m2.chunk = m.chunk
  BY <1>0, <1>2, RespDropFrame
<1>5. Fades(m2, m)
  BY <1>0, <1>1, RespDropFades
<1> HIDE DEF m2
<1>6. Tidy(m2.op, kept \ {r})
  BY <1>4, TidyLess DEF Mem
<1>7. Closes(m2) /\ Lives(m2, list) /\ ChunksHeld(m2, kept \ {r}) /\ Reads(m2)
  <2>1. \A p \in Ops : Shape(m2.op[p]) /\ OpFades(m2.op[p], m.op[p])
    BY <1>4 DEF OpFades, Mem, Tidy
  <2>2. \A c \in Chunks : c \in kept \ {r} <=> c \in kept
    BY BridgeAssumption
  <2>3. Books(m2, m2.op, hi, hr2) /\ m2.op \in [Ops -> OpRecords]
    BY <1>0, <1>3, <1>4
  <2>4. Closes(m) /\ Lives(m, list) /\ ChunksHeld(m, kept) /\ Reads(m)
    BY DEF Mem
  <2> QED BY <1>0, <1>1a, <1>4, <1>5, <2>1, <2>2, <2>3, <2>4, RestFades
<1>8. Books(m2, m2.op, InHand(list, kept \ {r}), InHandResp(kept \ {r})) /\ m2.op \in [Ops -> OpRecords]
  BY <1>0, <1>1, <1>3, <1>4 DEF hr2
<1>9. \A c \in Chunks : ChunkShape(m2.chunk[c])
  BY <1>4 DEF Mem
<1>10. Mem(m2, list, kept \ {r})
  BY <1>4, <1>6, <1>7, <1>8, <1>9 DEF Mem
<1> QED BY <1>4, <1>5, <1>10 DEF m2

\* hs_engine_release and hs_server_release of the host's reference.
LEMMA MemInstDrop ==
  ASSUME NEW m, NEW list, NEW kept, Mem(m, list, kept), NEW i \in Insts, i \in kept
  PROVE  Mem(instance_drop(m, i), list, kept \ {i}) /\ Fades(instance_drop(m, i), m)
         /\ instance_drop(m, i).op = m.op /\ instance_drop(m, i).resp = m.resp
<1> DEFINE m2 == instance_drop(m, i)
           hi == InHand(list, kept)
           hr == InHandResp(kept)
           hi2 == InHand(list, kept \ {i})
<1>0. IsHeap(m) /\ m.op \in [Ops -> OpRecords] /\ Books(m, m.op, hi, hr) /\ hi \in [Insts -> Nat]
      /\ hr \in [Resps -> Nat] /\ m.inst \in [Insts -> InstRecords]
  BY HandNat DEF Mem, Books
<1>1. hi[i] > 0 /\ hi2 = [hi EXCEPT ![i] = @ - 1] /\ InHandResp(kept \ {i}) = hr
  BY HandLessInst
<1>1a. hi2 \in [Insts -> Nat]
  BY HandNat
<1> HIDE DEF hi, hr, hi2
<1>3. Books(m2, m.op, hi2, hr)
  BY <1>0, <1>1, InstDropBooks
<1>4. IsHeap(m2) /\ m2.op = m.op /\ m2.chunk = m.chunk /\ m2.resp = m.resp
  BY <1>0, InstDropIs
<1>5. Fades(m2, m)
  BY <1>0, <1>1, InstDropFades
<1> HIDE DEF m2
<1>6. Tidy(m2.op, kept \ {i})
  BY <1>4, TidyLess DEF Mem
<1>7. Closes(m2) /\ Lives(m2, list) /\ ChunksHeld(m2, kept \ {i}) /\ Reads(m2)
  <2>1. \A p \in Ops : Shape(m2.op[p]) /\ OpFades(m2.op[p], m.op[p])
    BY <1>4 DEF OpFades, Mem, Tidy
  <2>2. \A c \in Chunks : c \in kept \ {i} <=> c \in kept
    BY BridgeAssumption
  <2>3. Books(m2, m2.op, hi2, hr) /\ m2.op \in [Ops -> OpRecords]
    BY <1>0, <1>3, <1>4
  <2>4. Closes(m) /\ Lives(m, list) /\ ChunksHeld(m, kept) /\ Reads(m)
    BY DEF Mem
  <2> QED BY <1>0, <1>1a, <1>4, <1>5, <2>1, <2>2, <2>3, <2>4, RestFades
<1>8. Books(m2, m2.op, InHand(list, kept \ {i}), InHandResp(kept \ {i})) /\ m2.op \in [Ops -> OpRecords]
  BY <1>0, <1>1, <1>3, <1>4 DEF hi2
<1>9. \A c \in Chunks : ChunkShape(m2.chunk[c])
  BY <1>4 DEF Mem
<1>10. Mem(m2, list, kept \ {i})
  BY <1>4, <1>6, <1>7, <1>8, <1>9 DEF Mem
<1> QED BY <1>4, <1>5, <1>10 DEF m2

\* The bounds of retained_bytes and of a body.
Bound(m) == m.retained <= Total /\ \A r \in Resps : m.resp[r].sent <= m.resp[r].pos
Rest(m, S) == Idles(m, S) /\ Bound(m)

\* The bounds stay when references go.
LEMMA BoundFades ==
  ASSUME NEW m, NEW list, NEW kept, Mem(m, list, kept), NEW m2, NEW list2, NEW kept2, Mem(m2, list2, kept2),
         Fades(m2, m), Bound(m)
  PROVE  Bound(m2)
<1>1. m.retained \in Nat /\ m2.retained \in Nat
  BY RetainedNat DEF Mem
<1>2. m2.retained <= Total
  BY <1>1, BridgeAssumption DEF Fades, Bound
<1>3. ASSUME NEW r \in Resps PROVE m2.resp[r].sent <= m2.resp[r].pos
  <2>1. CASE m2.resp[r].refs # 0
    BY <2>1 DEF Fades, Bound
  <2>2. CASE m2.resp[r].refs = 0
    <3>1. m2.resp[r] = NoResp
      BY <2>2 DEF Mem, Books, RespBook
    <3> QED BY <3>1 DEF NoResp
  <2> QED BY <2>1, <2>2
<1> QED BY <1>2, <1>3 DEF Bound

\* Tasks stay as they are when references go and operations only end.
LEMMA IdlesFades ==
  ASSUME NEW m, NEW m2, NEW list2, NEW kept2, Mem(m2, list2, kept2), Fades(m2, m), NEW S, S \subseteq Ops,
         Idles(m, S),
         \A p \in S : \/ m2.op[p].stage \notin TaskStages
                      \/ m2.op[p].stage = m.op[p].stage /\ m2.op[p].kind = m.op[p].kind
                         /\ m2.op[p].event = m.op[p].event /\ m2.op[p].resp = m.op[p].resp
  PROVE  Idles(m2, S)
<1> SUFFICES ASSUME NEW p \in S, m2.op[p].stage \in TaskStages
             PROVE  /\ m2.op[p].stage # "discard" => m2.op[p].event = None
                    /\ m2.op[p].stage = "running" /\ m2.op[p].kind = "read"
                         => m2.resp[m2.op[p].resp].chunks = 0
  BY DEF Idles, TaskStages
<1>1. p \in Ops /\ m2.op[p].stage = m.op[p].stage /\ m2.op[p].kind = m.op[p].kind
      /\ m2.op[p].event = m.op[p].event /\ m2.op[p].resp = m.op[p].resp
  OBVIOUS
<1>2. m2.op[p].stage # "discard" => m2.op[p].event = None
  BY <1>1 DEF Idles
<1>3. ASSUME m2.op[p].stage = "running", m2.op[p].kind = "read" PROVE m2.resp[m2.op[p].resp].chunks = 0
  <2>1. m2.op[p] # NoOp
    BY <1>3, NoOpFacts DEF NoOpIs
  <2>2. m2.op[p].resp \in Resps
    BY <1>1, <1>3, <2>1 DEF Mem, Tidy, Shape
  <2>3. m2.resp[m2.op[p].resp].refs # 0
    BY <1>1, <2>2, RespThere
  <2>4. m.resp[m.op[p].resp].chunks = 0
    BY <1>1, <1>3 DEF Idles
  <2> QED BY <1>1, <2>2, <2>3, <2>4 DEF Fades
<1> QED BY <1>2, <1>3

\* new_op disturbs no task.
LEMMA NewRest ==
  ASSUME NEW m, IsHeap(m), m.inst \in [Insts -> InstRecords], m.op \in [Ops -> OpRecords],
         NEW kind \in Kinds, NEW i \in Insts, NEW r \in Resps \cup {None}, NEW o \in Ops, NEW input \in Nat,
         Rest(m, Ops), m.retained + RecordCost(kind) + input <= Total, m.retained \in Nat
  PROVE  Rest(new_op(m, kind, i, r, o, input), Ops)
<1> DEFINE m2 == new_op(m, kind, i, r, o, input)
           k == NewRecord(kind, i, r, input)
<1>1. NewOpDoes(m, m2, kind, i, r, o, input)
  BY NewOpIs
<1>2. k.stage = "queued"
  BY NewIs
<1> HIDE DEF m2, k
<1>3. m2.op = [m.op EXCEPT ![o] = k] /\ m2.resp = m.resp
      /\ m2.retained = m.retained + (RecordCost(kind) + input)
  BY <1>1 DEF NewOpDoes, k
<1>4. m2.op[o] = k /\ \A p \in Ops : p # o => m2.op[p] = m.op[p]
  BY <1>3
<1>5. Idles(m2, Ops)
  BY <1>2, <1>3, <1>4 DEF Rest, Idles, TaskStages
<1>6. RecordCost(kind) \in Nat
  BY BridgeAssumption DEF RecordCost
<1>7. m2.retained <= Total
  <2> DEFINE c == RecordCost(kind)
             a == m.retained
  <2>1. c \in Nat /\ a \in Nat /\ m2.retained = a + (c + input) /\ a + c + input <= Total /\ Total \in Nat
    BY <1>3, <1>6, BridgeAssumption
  <2> HIDE DEF c, a
  <2> QED BY <2>1
<1>8. Bound(m2)
  BY <1>3, <1>7 DEF Rest, Bound
<1> QED BY <1>5, <1>8 DEF Rest, m2

\* hs_response_read_async.
LEMMA MemRead ==
  ASSUME NEW m, NEW list, NEW kept, Mem(m, list, kept), None \notin kept, NEW r \in Resps, r \in kept,
         ~m.resp[r].reading, NEW o \in Ops, m.op[o].refs = 0
  PROVE  Mem(new_op([m EXCEPT !.resp[r].refs = @ + 1, !.resp[r].reading = TRUE], "read",
                    m.resp[r].inst, r, o, 0), list, kept)
         /\ (Rest(m, Ops) /\ m.retained + OpCost <= Total =>
             Rest(new_op([m EXCEPT !.resp[r].refs = @ + 1, !.resp[r].reading = TRUE], "read",
                    m.resp[r].inst, r, o, 0), Ops))
<1> DEFINE l == [m.resp[r] EXCEPT !.refs = @ + 1, !.reading = TRUE]
           m1 == [m EXCEPT !.resp[r].refs = @ + 1, !.resp[r].reading = TRUE]
<1>0. IsHeap(m) /\ m.resp \in [Resps -> RespRecords] /\ m.resp[r] \in RespRecords
      /\ m.inst \in [Insts -> InstRecords] /\ m.op \in [Ops -> OpRecords] /\ m.resp[r].refs # 0
      /\ m.resp[r].inst \in Insts /\ m.retained \in Nat
  BY RespThere, RetainedNat DEF Mem, Books
<1>1. /\ IsHeap(m1) /\ m1.op = m.op /\ m1.inst = m.inst /\ m1.chunk = m.chunk /\ m1.retained = m.retained
      /\ m1.resp = [m.resp EXCEPT ![r] = l]
  BY <1>0 DEF IsHeap
<1>2. /\ l \in RespRecords /\ l.refs = m.resp[r].refs + 1 /\ l.inst = m.resp[r].inst
      /\ l.chunks = m.resp[r].chunks /\ l.charge = m.resp[r].charge /\ l.reading
      /\ l.pos = m.resp[r].pos /\ l.sent = m.resp[r].sent
  <2> DEFINE n == m.resp[r].refs + 1
             l2 == [m.resp[r] EXCEPT !.refs = n, !.reading = TRUE]
  <2>1. l = l2
    OBVIOUS
  <2>2. n \in Nat
    BY <1>0 DEF RespRecords
  <2> HIDE DEF n
  <2>3. /\ l2 \in RespRecords /\ l2.refs = n /\ l2.inst = m.resp[r].inst /\ l2.chunks = m.resp[r].chunks
        /\ l2.charge = m.resp[r].charge /\ l2.reading /\ l2.pos = m.resp[r].pos /\ l2.sent = m.resp[r].sent
    BY <1>0, <2>2 DEF RespRecords
  <2> QED BY <2>1, <2>3 DEF n
<1> HIDE DEF m1, l
<1>3. Pointed(m, m1, r, l, "read")
  BY <1>1, <1>2 DEF Pointed
<1>4. Mem(new_op(m1, "read", m.resp[r].inst, r, o, 0), list, kept)
  BY <1>3, MemPointed
<1>5. ASSUME Rest(m, Ops), m.retained + OpCost <= Total
      PROVE  Rest(new_op(m1, "read", m.resp[r].inst, r, o, 0), Ops)
  <2>1. \A s \in Resps : m1.resp[s].chunks = m.resp[s].chunks /\ m1.resp[s].pos = m.resp[s].pos
                         /\ m1.resp[s].sent = m.resp[s].sent
    BY <1>0, <1>1, <1>2
  <2>2. Idles(m1, Ops)
    <3> SUFFICES ASSUME NEW p \in Ops
                 PROVE  /\ m1.op[p].stage \in TaskStages \ {"discard"} => m1.op[p].event = None
                        /\ m1.op[p].stage = "running" /\ m1.op[p].kind = "read"
                             => m1.resp[m1.op[p].resp].chunks = 0
      BY DEF Idles
    <3>1. m.op[p].kind = "read" => m.op[p].resp \in Resps
      BY NoOpFacts DEF NoOpIs, Mem, Tidy, Shape
    <3> QED BY <1>1, <1>5, <2>1, <3>1 DEF Rest, Idles
  <2>3. Bound(m1)
    BY <1>1, <1>5, <2>1 DEF Rest, Bound
  <2>4. m1.retained + RecordCost("read") + 0 <= Total /\ "read" \in Kinds /\ m1.retained \in Nat
    BY <1>0, <1>1, <1>5, BridgeAssumption DEF RecordCost, Business, Kinds
  <2> QED BY <1>0, <1>1, <2>2, <2>3, <2>4, NewRest DEF Rest
<1> QED BY <1>4, <1>5 DEF m1

\* Flags of operations only,
LEMMA FlagsOp ==
  ASSUME NEW m, NEW list, NEW kept, Mem(m, list, kept), NEW m2, IsHeap(m2), m2.inst = m.inst, m2.resp = m.resp,
         m2.chunk = m.chunk, m2.retained = m.retained, m2.op \in [Ops -> OpRecords],
         \A p \in Ops : Shape(m2.op[p]) /\ AlikeOp(m2.op[p], m.op[p])
  PROVE  Flags(m, m2)
BY DEF Flags, Mem, Books, AlikeInst, AlikeResp

\* of an instance,
LEMMA FlagsInst ==
  ASSUME NEW m, NEW list, NEW kept, Mem(m, list, kept), NEW m2, IsHeap(m2), NEW i \in Insts, NEW q \in InstRecords,
         m2.inst = [m.inst EXCEPT ![i] = q], AlikeInst(q, m.inst[i]), q.closed = m.inst[i].closed,
         m.inst[i].closing => q.closing,
         m2.resp = m.resp, m2.chunk = m.chunk, m2.retained = m.retained, m2.op = m.op
  PROVE  Flags(m, m2)
<1>0. /\ m.inst \in [Insts -> InstRecords] /\ m.resp \in [Resps -> RespRecords] /\ m.op \in [Ops -> OpRecords]
      /\ \A p \in Ops : Shape(m.op[p])
  BY DEF Mem, Books, Tidy
<1>1. m2.inst \in [Insts -> InstRecords] /\ m2.inst[i] = q /\ \A j \in Insts : j # i => m2.inst[j] = m.inst[j]
  BY <1>0
<1>2. \A j \in Insts : /\ AlikeInst(m2.inst[j], m.inst[j]) /\ m2.inst[j].closed = m.inst[j].closed
                       /\ m.inst[j].closing => m2.inst[j].closing
  BY <1>1 DEF AlikeInst
<1>3. (\A p \in Ops : AlikeOp(m2.op[p], m.op[p])) /\ \A r \in Resps : AlikeResp(m2.resp[r], m.resp[r])
  BY DEF AlikeOp, AlikeResp
<1> QED BY <1>0, <1>1, <1>2, <1>3 DEF Flags

\* and of responses.
LEMMA FlagsResp ==
  ASSUME NEW m, NEW list, NEW kept, Mem(m, list, kept), NEW m2, IsHeap(m2),
         m2.resp \in [Resps -> RespRecords],
         \A r \in Resps : AlikeResp(m2.resp[r], m.resp[r]) /\ m2.resp[r].reading = m.resp[r].reading,
         m2.inst = m.inst, m2.chunk = m.chunk, m2.retained = m.retained, m2.op = m.op
  PROVE  Flags(m, m2)
<1>0. /\ m.inst \in [Insts -> InstRecords] /\ m.op \in [Ops -> OpRecords]
      /\ \A p \in Ops : Shape(m.op[p])
  BY DEF Mem, Books, Tidy
<1>1. (\A p \in Ops : AlikeOp(m2.op[p], m.op[p])) /\ \A j \in Insts : AlikeInst(m2.inst[j], m.inst[j])
  BY DEF AlikeOp, AlikeInst
<1> QED BY <1>0, <1>1 DEF Flags

\* The flags of one response that is there.
LEMMA FlagsOneResp ==
  ASSUME NEW m, NEW list, NEW kept, Mem(m, list, kept), NEW m2, IsHeap(m2), NEW r \in Resps, NEW l \in RespRecords,
         m2.resp = [m.resp EXCEPT ![r] = l], AlikeResp(l, m.resp[r]), l.reading = m.resp[r].reading,
         m2.inst = m.inst, m2.chunk = m.chunk, m2.retained = m.retained, m2.op = m.op
  PROVE  Flags(m, m2)
<1>0. m.resp \in [Resps -> RespRecords]
  BY DEF Mem, Books
<1>1. m2.resp \in [Resps -> RespRecords] /\ m2.resp[r] = l /\ \A s \in Resps : s # r => m2.resp[s] = m.resp[s]
  BY <1>0
<1>2. \A s \in Resps : AlikeResp(m2.resp[s], m.resp[s]) /\ m2.resp[s].reading = m.resp[s].reading
  BY <1>1 DEF AlikeResp
<1> QED BY <1>1, <1>2, FlagsResp

\* Flags of responses do not disturb tasks.
LEMMA RestResps ==
  ASSUME NEW m, NEW list, NEW kept, Mem(m, list, kept), NEW m2, NEW S, S \subseteq Ops, Rest(m, S),
         m2.op = m.op, m2.retained = m.retained,
         \A r \in Resps : m2.resp[r].chunks = m.resp[r].chunks /\ m2.resp[r].sent <= m2.resp[r].pos
  PROVE  Rest(m2, S)
<1>1. \A p \in Ops : m.op[p].kind = "read" => m.op[p].resp \in Resps
  BY NoOpFacts DEF NoOpIs, Mem, Tidy, Shape
<1>2. Idles(m2, S)
  BY <1>1 DEF Rest, Idles
<1> QED BY <1>2 DEF Rest, Bound

\* hs_response_release, first its flag,
LEMMA MemReleased ==
  ASSUME NEW m, NEW list, NEW kept, Mem(m, list, kept), NEW r \in Resps, r \in kept
  PROVE  LET m1 == [m EXCEPT !.resp[r].released = TRUE]
         IN /\ Mem(m1, list, kept) /\ m1.op = m.op /\ m1.resp[r].inst = m.resp[r].inst /\ m1.inst = m.inst
            /\ m1.retained = m.retained /\ (Rest(m, Ops) => Rest(m1, Ops))
<1> DEFINE l == [m.resp[r] EXCEPT !.released = TRUE]
           m1 == [m EXCEPT !.resp[r].released = TRUE]
<1>0. IsHeap(m) /\ m.resp \in [Resps -> RespRecords] /\ m.resp[r] \in RespRecords /\ m.resp[r].refs # 0
  BY RespThere DEF Mem, Books
<1>1. /\ IsHeap(m1) /\ m1.op = m.op /\ m1.inst = m.inst /\ m1.chunk = m.chunk /\ m1.retained = m.retained
      /\ m1.resp = [m.resp EXCEPT ![r] = l]
  BY <1>0 DEF IsHeap
<1>2. /\ l \in RespRecords /\ AlikeResp(l, m.resp[r]) /\ l.reading = m.resp[r].reading
      /\ l.sent = m.resp[r].sent /\ l.pos = m.resp[r].pos
  BY <1>0 DEF RespRecords, AlikeResp
<1> HIDE DEF m1, l
<1>3. Flags(m, m1)
  BY <1>1, <1>2, FlagsOneResp
<1>4. Mem(m1, list, kept)
  BY <1>3, MemFlags
<1>5. m1.resp[r] = l /\ \A s \in Resps : s # r => m1.resp[s] = m.resp[s]
  BY <1>0, <1>1
<1>6. ASSUME Rest(m, Ops) PROVE Rest(m1, Ops)
  <2>1. \A s \in Resps : m1.resp[s].chunks = m.resp[s].chunks /\ m1.resp[s].sent <= m1.resp[s].pos
    BY <1>2, <1>5, <1>6 DEF AlikeResp, Rest, Bound
  <2> QED BY <1>1, <1>6, <2>1, RestResps
<1> QED BY <1>1, <1>2, <1>4, <1>5, <1>6 DEF m1, AlikeResp

\* then without the internal operation,
LEMMA MemRelease ==
  ASSUME NEW m, NEW list, NEW kept, Mem(m, list, kept), Rest(m, Ops), NEW r \in Resps, r \in kept
  PROVE  LET m2 == response_drop([m EXCEPT !.resp[r].released = TRUE], r)
         IN Mem(m2, list, kept \ {r}) /\ Rest(m2, Ops) /\ m2.op = m.op
<1> DEFINE m1 == [m EXCEPT !.resp[r].released = TRUE]
           m2 == response_drop(m1, r)
<1>1. Mem(m1, list, kept) /\ Rest(m1, Ops) /\ m1.op = m.op
  BY MemReleased
<1> HIDE DEF m1
<1>2. Mem(m2, list, kept \ {r}) /\ Fades(m2, m1) /\ m2.op = m1.op
  BY <1>1, MemRespDrop
<1> HIDE DEF m2
<1>3. Rest(m2, Ops)
  <2>1. \A p \in Ops : m2.op[p] = m1.op[p]
    BY <1>2
  <2>2. Idles(m2, Ops)
    BY <1>1, <1>2, <2>1, IdlesFades DEF Rest
  <2>3. Bound(m2)
    BY <1>1, <1>2, BoundFades DEF Rest
  <2> QED BY <2>2, <2>3 DEF Rest
<1> QED BY <1>1, <1>2, <1>3 DEF m2, m1

\* or with it.
ReleasedWith(m, r, o) ==
  LET m1 == [m EXCEPT !.resp[r].released = TRUE]
  IN  response_drop(new_op([m1 EXCEPT !.resp[r].refs = @ + 1], "drop", m.resp[r].inst, r, o, 0), r)
\* hs_response_release with memory for its internal operation.
LEMMA MemReleaseOp ==
  ASSUME NEW m, NEW list, NEW kept, Mem(m, list, kept), Rest(m, Ops), None \notin kept, NEW r \in Resps, r \in kept,
         NEW o \in Ops, m.op[o].refs = 0
  PROVE  /\ Mem(ReleasedWith(m, r, o), list, kept \ {r}) /\ Rest(ReleasedWith(m, r, o), Ops)
         /\ ReleasedWith(m, r, o).op = [m.op EXCEPT ![o] = NewRecord("drop", m.resp[r].inst, r, 0)]
<1> DEFINE m1 == [m EXCEPT !.resp[r].released = TRUE]
           m2 == [m1 EXCEPT !.resp[r].refs = @ + 1]
           l == [m1.resp[r] EXCEPT !.refs = @ + 1]
           i == m.resp[r].inst
           m3 == new_op(m2, "drop", i, r, o, 0)
           m4 == response_drop(m3, r)
<1>1. Mem(m1, list, kept) /\ Rest(m1, Ops) /\ m1.op = m.op /\ m1.resp[r].inst = i /\ m1.inst = m.inst
  BY MemReleased
<1> HIDE DEF m1, i
<1>2. IsHeap(m1) /\ m1.resp \in [Resps -> RespRecords] /\ m1.resp[r] \in RespRecords /\ m1.resp[r].refs # 0
      /\ m1.inst \in [Insts -> InstRecords] /\ m1.op \in [Ops -> OpRecords]
      /\ m1.resp[r].inst \in Insts /\ m1.retained \in Nat
  BY <1>1, RespThere, RetainedNat DEF Mem, Books
<1>3. /\ IsHeap(m2) /\ m2.op = m1.op /\ m2.inst = m1.inst /\ m2.chunk = m1.chunk /\ m2.retained = m1.retained
      /\ m2.resp = [m1.resp EXCEPT ![r] = l]
  BY <1>2 DEF IsHeap
<1>4. /\ l \in RespRecords /\ l.refs = m1.resp[r].refs + 1 /\ l.inst = m1.resp[r].inst
      /\ l.chunks = m1.resp[r].chunks /\ l.charge = m1.resp[r].charge /\ l.reading = m1.resp[r].reading
      /\ l.pos = m1.resp[r].pos /\ l.sent = m1.resp[r].sent
  <2> DEFINE n == m1.resp[r].refs + 1
             l2 == [m1.resp[r] EXCEPT !.refs = n]
  <2>1. l = l2
    OBVIOUS
  <2>2. n \in Nat
    BY <1>2 DEF RespRecords
  <2> HIDE DEF n
  <2>3. /\ l2 \in RespRecords /\ l2.refs = n /\ l2.inst = m1.resp[r].inst /\ l2.chunks = m1.resp[r].chunks
        /\ l2.charge = m1.resp[r].charge /\ l2.reading = m1.resp[r].reading
        /\ l2.pos = m1.resp[r].pos /\ l2.sent = m1.resp[r].sent
    BY <1>2, <2>2 DEF RespRecords
  <2> QED BY <2>1, <2>3 DEF n
<1> HIDE DEF m2, l
<1>5. Pointed(m1, m2, r, l, "drop")
  BY <1>3, <1>4 DEF Pointed
<1>6. Mem(m3, list, kept)
  <2>1. Mem(new_op(m2, "drop", m1.resp[r].inst, r, o, 0), list, kept)
    BY <1>1, <1>5, MemPointed
  <2> QED BY <1>1, <2>1
<1>7. Rest(m3, Ops)
  <2>1. \A s \in Resps : m2.resp[s].chunks = m1.resp[s].chunks /\ m2.resp[s].sent <= m2.resp[s].pos
    BY <1>1, <1>2, <1>3, <1>4 DEF Rest, Bound
  <2>2. Rest(m2, Ops)
    BY <1>1, <1>3, <2>1, RestResps
  <2>3. m2.retained + RecordCost("drop") + 0 <= Total /\ "drop" \in Kinds /\ m2.retained \in Nat /\ i \in Insts
    BY <1>1, <1>2, <1>3, BridgeAssumption DEF Rest, Bound, RecordCost, Business, Kinds
  <2> QED BY <1>2, <1>3, <2>2, <2>3, NewRest
<1>8. m3.op = [m.op EXCEPT ![o] = NewRecord("drop", i, r, 0)]
  <2>1. NewOpDoes(m2, m3, "drop", i, r, o, 0)
    BY <1>1, <1>2, <1>3, NewOpIs
  <2> QED BY <1>1, <1>3, <2>1 DEF NewOpDoes
<1> HIDE DEF m3
<1>9. Mem(m4, list, kept \ {r}) /\ Fades(m4, m3) /\ m4.op = m3.op
  BY <1>6, MemRespDrop
<1> HIDE DEF m4
<1>10. Rest(m4, Ops)
  <2>1. \A p \in Ops : m4.op[p] = m3.op[p]
    BY <1>9
  <2>2. Idles(m4, Ops)
    BY <1>7, <1>9, <2>1, IdlesFades DEF Rest
  <2>3. Bound(m4)
    BY <1>6, <1>7, <1>9, BoundFades DEF Rest
  <2> QED BY <2>2, <2>3 DEF Rest
<1>11. m4 = ReleasedWith(m, r, o)
  BY DEF m4, m3, m2, m1, i, ReleasedWith
<1> QED BY <1>8, <1>9, <1>10, <1>11 DEF i

\* The heap of this invariant is one of the operations' invariant.
LEMMA HeapOf ==
  ASSUME NEW m, IsHeap(m), m.resp \in [Resps -> RespRecords]
  PROVE  Heap(m, m.op)
BY DEF Heap, RespRecords, RespTypes

\* An operation that has returned has no event.
LEMMA DoneEvent ==
  ASSUME NEW k \in OpRecords, Shape(k), k.stage \in {"callback", "returned"}
  PROVE  k.event = None
BY DEF Shape, OpRecords

\* op_drop, of the host's reference or of the pipeline's.
LEMMA MemOpDrop ==
  ASSUME NEW m, NEW list, NEW kept, Mem(m, list, kept), None \notin kept, NEW o \in Ops,
         m.op[o].refs \in {1, 2}, m.op[o].refs = 1 => m.op[o].stage = "returned"
  PROVE  LET m2 == op_drop(m, o)
         IN Mem(m2, list, kept) /\ Fades(m2, m) /\ m2.op = Fewer(m.op, o)
<1> DEFINE m2 == op_drop(m, o)
           k == m.op[o]
           hi == InHand(list, kept)
           hr == InHandResp(kept)
<1>0. IsHeap(m) /\ m.op \in [Ops -> OpRecords] /\ Books(m, m.op, hi, hr) /\ hi \in [Insts -> Nat]
      /\ hr \in [Resps -> Nat] /\ m.inst \in [Insts -> InstRecords] /\ m.resp \in [Resps -> RespRecords]
      /\ Shape(k) /\ k \in OpRecords
  BY HandNat DEF Mem, Books, Tidy
<1>1. Heap(m2, Fewer(m.op, o))
  BY <1>0, HeapOf, OpDrop
<1>2. IsHeap(m2) /\ m2.op = Fewer(m.op, o)
  BY <1>1 DEF Heap
<1>3. CASE k.refs = 1
  <2>1. k.stage = "returned" /\ k.event = None /\ k.inst \in Insts
    BY <1>0, <1>3, DoneEvent DEF Shape
  <2>2. m2.op = [m.op EXCEPT ![o] = NoOp]
    BY <1>2, <1>3 DEF Fewer
  <2> HIDE DEF hi, hr
  <2>3. Books(m2, [m.op EXCEPT ![o] = NoOp], hi, hr)
    BY <1>0, <1>3, <2>1, OpDropBooks
  <2>4. Fades(m2, m) /\ m2.chunk = m.chunk
    BY <1>0, <1>3, <2>1, OpDropFades
  <2> HIDE DEF m2
  <2>5. m2.op \in [Ops -> OpRecords] /\ m2.op[o] = NoOp /\ \A p \in Ops : p # o => m2.op[p] = m.op[p]
    BY <1>0, <2>2, NoOpFacts DEF NoOpIs
  <2>6. Books(m2, m2.op, hi, hr)
    BY <2>2, <2>3
  <2>7. Tidy(m2.op, kept)
    BY <1>0, <2>5, TidyGone DEF Mem
  <2>8. Closes(m2) /\ Lives(m2, list) /\ ChunksHeld(m2, kept) /\ Reads(m2)
    <3>1. k.stage \notin Pending
      BY <2>1 DEF Pending, TaskStages
    <3>2. \A p \in Ops : Shape(m2.op[p]) /\ OpFades(m2.op[p], m.op[p])
      BY <2>1, <2>5, <2>7, <3>1 DEF OpFades, Tidy
    <3>3. Closes(m) /\ Lives(m, list) /\ ChunksHeld(m, kept) /\ Reads(m)
      BY DEF Mem
    <3> QED BY <1>0, <2>4, <2>5, <2>6, <3>2, <3>3, RestFades
  <2>9. \A c \in Chunks : ChunkShape(m2.chunk[c])
    BY <2>4 DEF Mem
  <2>10. Mem(m2, list, kept)
    BY <1>2, <2>5, <2>6, <2>7, <2>8, <2>9 DEF Mem, hi, hr
  <2> QED BY <1>2, <2>4, <2>10 DEF m2
<1>4. CASE k.refs = 2
  <2>1. m2 = [m EXCEPT !.op[o].refs = @ - 1]
    BY <1>4 DEF op_drop
  <2>2. /\ m2.inst = m.inst /\ m2.resp = m.resp /\ m2.chunk = m.chunk /\ m2.retained = m.retained
        /\ m2.op = [m.op EXCEPT ![o] = [k EXCEPT !.refs = 1]]
    BY <1>0, <1>4, <2>1 DEF IsHeap
  <2> DEFINE l == [k EXCEPT !.refs = 1]
  <2>3. /\ l \in OpRecords /\ l.refs = 1 /\ l.kind = k.kind /\ l.stage = k.stage /\ l.inst = k.inst
        /\ l.resp = k.resp /\ l.charge = k.charge /\ l.event = k.event
    BY <1>0 DEF OpRecords
  <2>4. m2.op = [m.op EXCEPT ![o] = l]
    BY <2>2
  <2> HIDE DEF l, m2
  <2>5. Shape(l) /\ AlikeOp(l, k)
    BY <1>0, <1>4, <2>3 DEF Shape, AlikeOp
  <2>6. m2.op \in [Ops -> OpRecords] /\ m2.op[o] = l /\ \A p \in Ops : p # o => m2.op[p] = m.op[p]
    BY <1>0, <2>3, <2>4
  <2>7. \A p \in Ops : Shape(m2.op[p]) /\ AlikeOp(m2.op[p], m.op[p])
    BY <2>5, <2>6 DEF AlikeOp, Mem, Tidy
  <2>8. Flags(m, m2)
    BY <1>2, <2>2, <2>6, <2>7, FlagsOp
  <2>9. Mem(m2, list, kept)
    BY <2>8, MemFlags
  <2>10. m.retained \in Nat
    BY <1>0, RetainedNat
  <2>11. Fades(m2, m)
    BY <2>2, <2>10 DEF Fades
  <2> QED BY <1>2, <2>9, <2>11 DEF m2
<1> QED BY <1>3, <1>4

\* hs_operation_release.
LEMMA MemOpRelease ==
  ASSUME NEW m, NEW list, NEW kept, Mem(m, list, kept), None \notin kept, Rest(m, Ops), NEW o \in Ops,
         m.op[o].refs \in {1, 2}, m.op[o].refs = 1 => m.op[o].stage = "returned"
  PROVE  LET m2 == op_drop(m, o)
         IN Mem(m2, list, kept) /\ Rest(m2, Ops) /\ m2.op = Fewer(m.op, o)
<1> DEFINE m2 == op_drop(m, o)
<1>1. Mem(m2, list, kept) /\ Fades(m2, m) /\ m2.op = Fewer(m.op, o)
  BY MemOpDrop
<1> HIDE DEF m2
<1>2. m.op \in [Ops -> OpRecords] /\ m.op[o] \in OpRecords
  BY DEF Mem
<1>3. \A p \in Ops : \/ m2.op[p].stage \notin TaskStages
                     \/ m2.op[p].stage = m.op[p].stage /\ m2.op[p].kind = m.op[p].kind
                        /\ m2.op[p].event = m.op[p].event /\ m2.op[p].resp = m.op[p].resp
  <2> SUFFICES ASSUME NEW p \in Ops
               PROVE  \/ m2.op[p].stage \notin TaskStages
                      \/ m2.op[p].stage = m.op[p].stage /\ m2.op[p].kind = m.op[p].kind
                         /\ m2.op[p].event = m.op[p].event /\ m2.op[p].resp = m.op[p].resp
    OBVIOUS
  <2>1. CASE p # o
    BY <1>1, <1>2, <2>1 DEF Fewer
  <2>2. CASE p = o /\ m.op[o].refs = 1
    <3>1. m2.op[p] = NoOp
      BY <1>1, <1>2, <2>2 DEF Fewer
    <3> QED BY <3>1, NoOpFacts DEF NoOpIs, TaskStages
  <2>3. CASE p = o /\ m.op[o].refs # 1
    <3>1. m2.op[p] = [m.op[o] EXCEPT !.refs = @ - 1]
      BY <1>1, <1>2, <2>3 DEF Fewer
    <3> QED BY <1>2, <2>3, <3>1 DEF OpRecords
  <2> QED BY <2>1, <2>2, <2>3
<1>4. Idles(m2, Ops)
  BY <1>1, <1>3, IdlesFades DEF Rest
<1>5. Bound(m2)
  BY <1>1, BoundFades DEF Rest
<1> QED BY <1>1, <1>4, <1>5 DEF Rest, m2

\* hs_engine_release and hs_server_release.
LEMMA MemInstRelease ==
  ASSUME NEW m, NEW list, NEW kept, Mem(m, list, kept), Rest(m, Ops), NEW i \in Insts, i \in kept
  PROVE  LET m2 == instance_drop(m, i)
         IN Mem(m2, list, kept \ {i}) /\ Rest(m2, Ops) /\ m2.op = m.op
<1> DEFINE m2 == instance_drop(m, i)
<1>1. Mem(m2, list, kept \ {i}) /\ Fades(m2, m) /\ m2.op = m.op
  BY MemInstDrop
<1> HIDE DEF m2
<1>2. Idles(m2, Ops)
  BY <1>1, IdlesFades DEF Rest
<1>3. Bound(m2)
  BY <1>1, BoundFades DEF Rest
<1> QED BY <1>1, <1>2, <1>3 DEF Rest, m2

\* All but the reads under way.
Core(m, list, kept) ==
  /\ IsHeap(m) /\ m.op \in [Ops -> OpRecords]
  /\ Books(m, m.op, InHand(list, kept), InHandResp(kept))
  /\ Tidy(m.op, kept) /\ Closes(m) /\ Lives(m, list)
  /\ (\A c \in Chunks : ChunkShape(m.chunk[c])) /\ ChunksHeld(m, kept)

\* An operation goes on to the stage of record k, and its instance counts it there.
Onwards(m, m2, o, k, q) ==
  /\ IsHeap(m2) /\ m2.op = [m.op EXCEPT ![o] = k]
  /\ Staged(m, m2, m.op, o, k, m.op[o].inst, q)
  /\ q.closing = m.inst[m.op[o].inst].closing /\ q.closed = m.inst[m.op[o].inst].closed
  /\ Shape(k) /\ (Granting(k) => Granting(m.op[o]))
  /\ k.stage \in Pending => m.op[o].stage \in Pending
\* An operation that moves onwards keeps everything but the reads in flight.
LEMMA CoreOnwards ==
  ASSUME NEW m, NEW list, NEW kept, Mem(m, list, kept), None \notin kept, NEW o \in Ops, m.op[o].inst \in Insts,
         NEW m2, NEW k, NEW q, Onwards(m, m2, o, k, q)
  PROVE  Core(m2, list, kept) /\ m2.op[o] = k /\ \A p \in Ops : p # o => m2.op[p] = m.op[p]
<1> DEFINE i == m.op[o].inst
           hi == InHand(list, kept)
           hr == InHandResp(kept)
<1>0. IsHeap(m) /\ m.op \in [Ops -> OpRecords] /\ Books(m, m.op, hi, hr) /\ hi \in [Insts -> Nat]
      /\ hr \in [Resps -> Nat] /\ m.inst \in [Insts -> InstRecords] /\ i \in Insts
  BY HandNat DEF Mem, Books
<1>1. /\ k \in OpRecords /\ q \in InstRecords /\ SameOp(k, m.op[o]) /\ k.event = m.op[o].event
      /\ m2.inst = [m.inst EXCEPT ![i] = q] /\ m2.resp = m.resp /\ m2.chunk = m.chunk
      /\ m2.retained = m.retained /\ q.refs = m.inst[i].refs /\ IsHeap(m2) /\ m2.op = [m.op EXCEPT ![o] = k]
  BY DEF Onwards, Staged
<1>2. Books(m2, [m.op EXCEPT ![o] = k], hi, hr)
  BY <1>0, BooksStaged DEF Onwards
<1>3. m2.op \in [Ops -> OpRecords] /\ m2.op[o] = k /\ \A p \in Ops : p # o => m2.op[p] = m.op[p]
  BY <1>0, <1>1
<1>4. Tidy(m2.op, kept)
  BY <1>0, <1>1, <1>3, TidyOn DEF Mem, Onwards
<1>5. /\ m2.inst[i] = q /\ \A j \in Insts : j # i => m2.inst[j] = m.inst[j]
  BY <1>0, <1>1
<1>6. \A j \in Insts : /\ m2.inst[j].closing = m.inst[j].closing /\ m2.inst[j].closed = m.inst[j].closed
                       /\ m2.inst[j].refs = m.inst[j].refs
  BY <1>1, <1>5 DEF Onwards
<1>7. \A p \in Ops : /\ m2.op[p].kind = m.op[p].kind /\ m2.op[p].inst = m.op[p].inst
                     /\ m2.op[p].event = m.op[p].event /\ m2.op[p].resp = m.op[p].resp
                     /\ m2.op[p].stage \in Pending => m.op[p].stage \in Pending
  BY <1>1, <1>3 DEF SameOp, Onwards
<1>8. Closes(m2)
  <2> SUFFICES ASSUME NEW p \in Ops, m2.op[p].kind = "close" PROVE m2.inst[m2.op[p].inst].closing
    BY DEF Closes
  <2>1. m2.op[p] # NoOp /\ m.inst[m.op[p].inst].closing
    BY <1>7, NoOpFacts DEF NoOpIs, Mem, Closes
  <2>2. m2.op[p].inst \in Insts
    BY <1>4, <2>1 DEF Tidy, Shape
  <2> QED BY <1>6, <1>7, <2>1, <2>2
<1>9. Lives(m2, list)
  BY <1>6, <1>7 DEF Mem, Lives
<1>10. ChunksHeld(m2, kept) /\ \A c \in Chunks : ChunkShape(m2.chunk[c])
  BY <1>1, <1>7 DEF Mem, ChunksHeld
<1>11. Books(m2, m2.op, InHand(list, kept), InHandResp(kept))
  BY <1>1, <1>2
<1> QED BY <1>1, <1>3, <1>4, <1>8, <1>9, <1>10, <1>11 DEF Core

\* Unless it was reading.
LEMMA MemOnwards ==
  ASSUME NEW m, NEW list, NEW kept, Mem(m, list, kept), None \notin kept, NEW o \in Ops, m.op[o].inst \in Insts,
         NEW m2, NEW k, NEW q, Onwards(m, m2, o, k, q),
         m.op[o].kind = "read" => (k.stage \in Pending <=> m.op[o].stage \in Pending)
  PROVE  Mem(m2, list, kept) /\ m2.op[o] = k /\ \A p \in Ops : p # o => m2.op[p] = m.op[p]
<1>1. Core(m2, list, kept) /\ m2.op[o] = k /\ \A p \in Ops : p # o => m2.op[p] = m.op[p]
  BY CoreOnwards
<1>2. m2.resp = m.resp /\ SameOp(k, m.op[o])
  BY DEF Onwards, Staged
<1>3. ASSUME NEW r \in Resps PROVE OpReads(m2.op, r) = OpReads(m.op, r)
  <2>1. \A p \in Ops : ReadsResp(m2.op[p], r) = ReadsResp(m.op[p], r)
    BY <1>1, <1>2 DEF ReadsResp, SameOp, Pending
  <2> QED BY <2>1, ReadsSame
<1>4. Reads(m2)
  BY <1>2, <1>3 DEF Mem, Reads
<1> QED BY <1>1, <1>4 DEF Mem, Core

\* notify_returns.
LEMMA MemReturns ==
  ASSUME NEW m, NEW list, NEW kept, Mem(m, list, kept), Rest(m, Ops), None \notin kept, NEW o \in Ops,
         m.op[o].stage = "callback"
  PROVE  LET m2 == op_drop([m EXCEPT !.inst[m.op[o].inst].notifications = @ - 1,
                                     !.op[o].stage = "returned"], o)
         IN Mem(m2, list, kept) /\ Rest(m2, Ops)
            /\ m2.op = Fewer([m.op EXCEPT ![o].stage = "returned"], o)
<1> DEFINE i == m.op[o].inst
           old == m.op[o]
           k == [m.op[o] EXCEPT !.stage = "returned"]
           q == [m.inst[i] EXCEPT !.notifications = @ - 1]
           m1 == [m EXCEPT !.inst[i].notifications = @ - 1, !.op[o].stage = "returned"]
           hi == InHand(list, kept)
           hr == InHandResp(kept)
<1>0. IsHeap(m) /\ m.op \in [Ops -> OpRecords] /\ Books(m, m.op, hi, hr) /\ hi \in [Insts -> Nat]
      /\ hr \in [Resps -> Nat] /\ m.inst \in [Insts -> InstRecords] /\ Shape(old) /\ old \in OpRecords
  BY HandNat DEF Mem, Books, Tidy
<1>1. old.refs \in {1, 2} /\ i \in Insts /\ old.event = None
  <2>1. old # NoOp
    BY NoOpFacts DEF NoOpIs
  <2>2. old.event = None
    BY <1>0, DoneEvent
  <2> QED BY <1>0, <2>1, <2>2 DEF Shape, OpRecords
<1>2. m.inst[i] \in InstRecords /\ m.inst[i].notifications \in Nat /\ m.inst[i].notifications > 0
  <2>1. m.inst[i].notifications > 0 /\ m.inst[i] \in InstRecords
    BY <1>0, <1>1, OpAdds
  <2> QED BY <2>1 DEF InstRecords
<1>3. /\ IsHeap(m1) /\ m1.op = [m.op EXCEPT ![o] = k] /\ m1.inst = [m.inst EXCEPT ![i] = q]
      /\ m1.resp = m.resp /\ m1.chunk = m.chunk /\ m1.retained = m.retained
  BY <1>0, <1>1 DEF IsHeap
<1>4. /\ k \in OpRecords /\ k.refs = old.refs /\ k.kind = old.kind /\ k.stage = "returned" /\ k.inst = i
      /\ k.resp = old.resp /\ k.charge = old.charge /\ k.event = old.event
  BY <1>0 DEF OpRecords, Stages, DoneStages
<1>5. /\ q \in InstRecords /\ q.refs = m.inst[i].refs /\ q.active = m.inst[i].active
      /\ q.responses = m.inst[i].responses /\ q.charged = m.inst[i].charged
      /\ q.notifications = m.inst[i].notifications - 1
      /\ q.closing = m.inst[i].closing /\ q.closed = m.inst[i].closed
  <2> DEFINE n == m.inst[i].notifications - 1
             q2 == [m.inst[i] EXCEPT !.notifications = n]
  <2>1. q = q2 /\ n \in Nat
    BY <1>2
  <2> HIDE DEF n
  <2>2. /\ q2 \in InstRecords /\ q2.refs = m.inst[i].refs /\ q2.active = m.inst[i].active
        /\ q2.responses = m.inst[i].responses /\ q2.charged = m.inst[i].charged
        /\ q2.notifications = n /\ q2.closing = m.inst[i].closing /\ q2.closed = m.inst[i].closed
    BY <1>2, <2>1, Zenon DEF InstRecords
  <2> QED BY <2>1, <2>2 DEF n
<1> HIDE DEF m1, k, q, hi, hr
<1>6. Staged(m, m1, m.op, o, k, i, q)
  <2>1. ActiveBy(old, i) = 0 /\ ActiveBy(k, i) = 0 /\ NotesBy(old, i) = 1 /\ NotesBy(k, i) = 0
    BY <1>4 DEF ActiveBy, NotesBy, One, TaskStages
  <2>2. q.active + ActiveBy(old, i) = m.inst[i].active + ActiveBy(k, i)
    BY <1>5, <2>1
  <2>3. q.notifications + NotesBy(old, i) = m.inst[i].notifications + NotesBy(k, i)
    BY <1>2, <1>5, <2>1
  <2>4. old.event \notin Insts
    BY <1>1, NoOpFacts DEF NoOpIs
  <2> QED BY <1>3, <1>4, <1>5, <2>2, <2>3, <2>4 DEF Staged, SameOp
<1>7. Shape(k) /\ ~Granting(k) /\ k.stage \notin Pending /\ old.stage \notin Pending
  BY <1>0, <1>1, <1>4, NoOpFacts DEF NoOpIs, Shape, Granting, Pending, TaskStages
<1>8. Onwards(m, m1, o, k, q)
  BY <1>3, <1>5, <1>6, <1>7 DEF Onwards
<1>9. Mem(m1, list, kept) /\ m1.op[o] = k /\ \A p \in Ops : p # o => m1.op[p] = m.op[p]
  BY <1>1, <1>7, <1>8, MemOnwards
<1>10. Rest(m1, Ops)
  <2>1. \A p \in Ops : m.op[p].kind = "read" => m.op[p].resp \in Resps
    BY NoOpFacts DEF NoOpIs, Mem, Tidy, Shape
  <2>2. k.stage \notin TaskStages
    BY <1>7 DEF Pending
  <2>3. Idles(m1, Ops)
    BY <1>3, <1>9, <2>1, <2>2 DEF Rest, Idles, TaskStages
  <2> QED BY <1>3, <2>3 DEF Rest, Bound
<1>11. m1.op[o].refs \in {1, 2} /\ m1.op[o].stage = "returned"
  BY <1>1, <1>4, <1>9
<1>12. LET m2 == op_drop(m1, o) IN Mem(m2, list, kept) /\ Rest(m2, Ops) /\ m2.op = Fewer(m1.op, o)
  BY <1>9, <1>10, <1>11, MemOpRelease
<1>13. m1.op = [m.op EXCEPT ![o].stage = "returned"]
  BY <1>0, <1>3 DEF k
<1> QED BY <1>12, <1>13, Zenon DEF m1

\* notify_calls: the host gets the event.
LEMMA MemCalls ==
  ASSUME NEW m, NEW list, NEW kept, Mem(m, list, kept), Rest(m, Ops), None \notin kept, NEW o \in Ops,
         m.op[o].stage = "notice"
  PROVE  LET m2 == [m EXCEPT !.op[o].stage = "callback", !.op[o].event = None]
         IN Mem(m2, list, kept \cup ({m.op[o].event} \ {None})) /\ Rest(m2, Ops)
<1> DEFINE i == m.op[o].inst
           old == m.op[o]
           k == [m.op[o] EXCEPT !.stage = "callback", !.event = None]
           m2 == [m EXCEPT !.op[o].stage = "callback", !.op[o].event = None]
           kept2 == kept \cup ({old.event} \ {None})
           hi == InHand(list, kept)
           hr == InHandResp(kept)
           hi2 == InHand(list, kept2)
           hr2 == InHandResp(kept2)
<1>0. IsHeap(m) /\ m.op \in [Ops -> OpRecords] /\ Books(m, m.op, hi, hr) /\ hi \in [Insts -> Nat]
      /\ hr \in [Resps -> Nat] /\ m.inst \in [Insts -> InstRecords] /\ Shape(old) /\ old \in OpRecords
      /\ hi2 \in [Insts -> Nat] /\ hr2 \in [Resps -> Nat] /\ old.event \notin kept
  BY HandNat DEF Mem, Books, Tidy, Events
<1>1. i \in Insts /\ (old.event \in Insts => old.event = i /\ old.kind \in Creates)
  <2>1. old # NoOp
    BY NoOpFacts DEF NoOpIs
  <2> QED BY <1>0, <2>1 DEF Shape
<1>2. m.inst[i] \in InstRecords /\ m.inst[i].refs # 0
  BY <1>0, <1>1, InstThere
<1>3. /\ IsHeap(m2) /\ m2.op = [m.op EXCEPT ![o] = k] /\ m2.inst = m.inst
      /\ m2.resp = m.resp /\ m2.chunk = m.chunk /\ m2.retained = m.retained
  BY <1>0 DEF IsHeap
<1>4. /\ k \in OpRecords /\ k.refs = old.refs /\ k.kind = old.kind /\ k.stage = "callback" /\ k.inst = i
      /\ k.resp = old.resp /\ k.charge = old.charge /\ k.event = None
  BY <1>0 DEF OpRecords, Stages, DoneStages
<1>5. hi2[i] = hi[i] + One(old.event = i) /\ \A j \in Insts : j # i => hi2[j] = hi[j]
  BY <1>0, <1>1, NoOpFacts DEF NoOpIs, InHand, One
<1>6. \A r \in Resps : hr2[r] = hr[r] + One(old.event = r)
  BY <1>0, NoOpFacts DEF NoOpIs, InHandResp, One
<1> HIDE DEF m2, k, hi, hr, hi2, hr2
<1>7. At(m, m2, m.op, o, k, hi, hi2[i], hr, hr2, i, m.inst[i])
  <2>1. m2.inst = [m.inst EXCEPT ![i] = m.inst[i]]
    BY <1>0, <1>1, <1>3
  <2>2. {old.inst, old.event, k.inst, k.event} \cap Insts \subseteq {i}
    BY <1>1, <1>4, NoOpFacts DEF NoOpIs
  <2>3. Balanced(m.inst[i], m.inst[i], old, k, i, hi[i], hi2[i])
    <3>1. /\ ActiveBy(old, i) = 0 /\ ActiveBy(k, i) = 0 /\ NotesBy(old, i) = 1 /\ NotesBy(k, i) = 1
          /\ BytesBy(old, i) = BytesBy(k, i)
      BY <1>4 DEF ActiveBy, NotesBy, One, TaskStages, BytesBy
    <3>2. RefsBy(old, i) = 1 + One(old.event = i) /\ RefsBy(k, i) = 1
      BY <1>1, <1>4, NoOpFacts DEF NoOpIs, RefsBy, One
    <3>3. m.inst[i].refs \in Nat /\ hi[i] \in Nat /\ One(old.event = i) \in Nat /\ m.inst[i].active \in Nat
          /\ m.inst[i].notifications \in Nat
      BY <1>0, <1>1, <1>2 DEF InstRecords, One
    <3>4. m.inst[i].refs + RefsBy(old, i) + hi[i] = m.inst[i].refs + RefsBy(k, i) + hi2[i]
      BY <1>5, <3>2, <3>3
    <3> QED BY <1>2, <3>1, <3>3, <3>4 DEF Balanced
  <2>4. ASSUME NEW r \in Resps PROVE HoldsResp(k, r) + hr2[r] = HoldsResp(old, r) + hr[r]
    <3>1. HoldsResp(k, r) = One(old.resp = r) + 0 /\ HoldsResp(old, r) = One(old.resp = r) + One(old.event = r)
      BY <1>4, NoOpFacts DEF NoOpIs, HoldsResp, One
    <3>2. hr2[r] = hr[r] + One(old.event = r) /\ hr[r] \in Nat
      BY <1>0, <1>6
    <3>3. One(old.resp = r) \in Nat /\ One(old.event = r) \in Nat
      BY DEF One
    <3> QED BY <3>1, <3>2, <3>3
  <2>5. m.retained \in Nat /\ hi2[i] \in Nat
    BY <1>0, <1>1, RetainedNat
  <2>6. m.inst[i].charged + m.retained = m.inst[i].charged + m2.retained
    BY <1>3
  <2>7. /\ m2.retained \in Int /\ k \in OpRecords /\ hr2 \in [Resps -> Nat] /\ m.inst[i] \in InstRecords
        /\ m2.resp = m.resp /\ m2.chunk = m.chunk
    BY <1>0, <1>2, <1>3, <1>4, <2>5
  <2> QED BY <2>1, <2>2, <2>3, <2>4, <2>5, <2>6, <2>7, Zenon DEF At
<1>8. Books(m2, [m.op EXCEPT ![o] = k], [hi EXCEPT ![i] = hi2[i]], hr2)
  BY <1>0, <1>1, <1>7, BooksAt
<1>9. [hi EXCEPT ![i] = hi2[i]] = hi2
  BY <1>0, <1>1, <1>5
<1>10. m2.op \in [Ops -> OpRecords] /\ m2.op[o] = k /\ \A p \in Ops : p # o => m2.op[p] = m.op[p]
  BY <1>0, <1>3, <1>4
<1>11. Books(m2, m2.op, InHand(list, kept2), InHandResp(kept2))
  BY <1>3, <1>8, <1>9 DEF hi2, hr2
<1>12. Shape(k) /\ ~Granting(k) /\ k.stage \notin Pending /\ old.stage \notin Pending
  BY <1>0, <1>4, NoOpFacts DEF NoOpIs, Shape, Granting, Pending, TaskStages
<1>13. TidyAt(m.op, o, k, kept2)
  <2>1. ASSUME NEW p \in Ops, p # o PROVE m.op[p].event \notin kept2
    BY <2>1 DEF Mem, Tidy, Events
  <2>2. ASSUME NEW p \in Ops, p # o, Granting(m.op[p]) PROVE m.op[p].inst \notin kept2
    <3>1. m.op[p].inst \notin kept
      BY <2>2 DEF Mem, Tidy, Grants
    <3>2. ASSUME m.op[p].inst = old.event, old.event # None PROVE FALSE
      <4>1. m.op[p].inst \in Insts
        <5>1. m.op[p] # NoOp
          BY <2>2, NoOpFacts DEF NoOpIs, Granting, Creates
        <5> QED BY <5>1 DEF Mem, Tidy, Shape
      <4>2. old.kind \in Creates /\ m.op[p].inst = old.inst
        BY <1>1, <3>2, <4>1
      <4> QED BY <2>2, <4>2 DEF Mem, Tidy, Grants
    <3> QED BY <3>1, <3>2
  <2>3. ASSUME NEW p \in Ops, p # o, m.op[p].inst = k.inst
        PROVE  /\ ~(Granting(k) /\ m.op[p].kind \in Creates \cup {"close"})
               /\ ~(Granting(m.op[p]) /\ k.kind \in Creates \cup {"close"})
               /\ ~(m.op[p].kind = "close" /\ k.kind = "close")
    <3>1. m.op[p].inst = old.inst /\ k.kind = old.kind
      BY <1>4, <2>3
    <3> QED BY <1>12, <2>3, <3>1 DEF Mem, Tidy, Grants, CloseOnce
  <2>4. k.event = None /\ None \notin kept2
    BY <1>4
  <2> QED BY <1>12, <2>1, <2>2, <2>3, <2>4 DEF TidyAt
<1>14. Tidy(m2.op, kept2)
  BY <1>0, <1>10, <1>13, TidyStep DEF Mem
<1>15. \A p \in Ops : /\ m2.op[p].kind = m.op[p].kind /\ m2.op[p].inst = m.op[p].inst
                      /\ m2.op[p].resp = m.op[p].resp
                      /\ m2.op[p].stage \in Pending <=> m.op[p].stage \in Pending
  BY <1>4, <1>10, <1>12
<1>16. Closes(m2) /\ Lives(m2, list)
  BY <1>3, <1>15 DEF Mem, Closes, Lives
<1>17. ChunksHeld(m2, kept2)
  <2> SUFFICES ASSUME NEW c \in Chunks
               PROVE  m2.chunk[c] # NoChunk <=> (c \in kept2 \/ \E p \in Ops : m2.op[p].event = c)
    BY DEF ChunksHeld
  <2>1. c # None
    BY NoOpFacts DEF NoOpIs
  <2>2. m2.op[o].event = None
    BY <1>4, <1>10
  <2>3. (c \in kept2 \/ \E p \in Ops : m2.op[p].event = c) <=> (c \in kept \/ \E p \in Ops : m.op[p].event = c)
    BY <1>10, <2>1, <2>2
  <2> QED BY <1>3, <2>3 DEF Mem, ChunksHeld
<1>18. Reads(m2)
  <2>1. ASSUME NEW r \in Resps PROVE OpReads(m2.op, r) = OpReads(m.op, r)
    <3>1. \A p \in Ops : ReadsResp(m2.op[p], r) = ReadsResp(m.op[p], r)
      BY <1>15 DEF ReadsResp, Pending
    <3> QED BY <3>1, ReadsSame
  <2> QED BY <1>3, <2>1 DEF Mem, Reads
<1>19. \A c \in Chunks : ChunkShape(m2.chunk[c])
  BY <1>3 DEF Mem
<1>20. Mem(m2, list, kept2)
  BY <1>3, <1>10, <1>11, <1>14, <1>16, <1>17, <1>18, <1>19 DEF Mem
<1>21. Rest(m2, Ops)
  <2>1. k.stage \notin TaskStages
    BY <1>12 DEF Pending
  <2>2. Idles(m2, Ops)
    BY <1>3, <1>10, <2>1 DEF Rest, Idles, TaskStages
  <2> QED BY <1>3, <2>2 DEF Rest, Bound
<1> QED BY <1>20, <1>21 DEF m2

\* The first part of hs_bridge_complete: the operation goes to the notices.
NoticedTo(m, m2, o) ==
  /\ m2.resp = m.resp /\ m2.chunk = m.chunk /\ m2.retained = m.retained
  /\ \A p \in Ops : p # o => m2.op[p] = m.op[p]
  /\ m2.op[o].stage = "notice" /\ SameOp(m2.op[o], m.op[o]) /\ m2.op[o].event = m.op[o].event
  /\ m2.op[o].refs = m.op[o].refs
  /\ \A i \in Insts : /\ m2.inst[i].refs = m.inst[i].refs /\ m2.inst[i].closing = m.inst[i].closing
                      /\ m2.inst[i].closed = m.inst[i].closed
\* hs_bridge_complete puts the operation in the notices.
LEMMA Noticing ==
  ASSUME NEW m, NEW list, NEW kept, Mem(m, list, kept), None \notin kept, NEW o \in Ops,
         m.op[o].stage \in Pending, NEW ok \in BOOLEAN
  PROVE  LET m2 == Noticed(m, o, ok)
         IN /\ Core(m2, list, kept) /\ (m.op[o].kind # "read" => Mem(m2, list, kept)) /\ NoticedTo(m, m2, o)
            /\ m.op[o].inst \in Insts
<1> DEFINE i == m.op[o].inst
           old == m.op[o]
           k == [m.op[o] EXCEPT !.stage = "notice", !.ok = ok, !.cancelled = FALSE, !.cancelling = FALSE]
           q == [m.inst[i] EXCEPT !.active = @ - 1]
           m2 == Noticed(m, o, ok)
           hi == InHand(list, kept)
           hr == InHandResp(kept)
<1>0. IsHeap(m) /\ m.op \in [Ops -> OpRecords] /\ Books(m, m.op, hi, hr) /\ hi \in [Insts -> Nat]
      /\ hr \in [Resps -> Nat] /\ m.inst \in [Insts -> InstRecords] /\ Shape(old) /\ old \in OpRecords
  BY HandNat DEF Mem, Books, Tidy
<1>1. i \in Insts /\ old.event \notin Insts
  <2>1. old # NoOp
    BY NoOpFacts DEF NoOpIs, Pending, TaskStages
  <2> QED BY <1>0, <2>1 DEF Shape, Pending, TaskStages
<1>2. m.inst[i] \in InstRecords /\ m.inst[i].active \in Nat /\ m.inst[i].active > 0
      /\ m.inst[i].notifications \in Nat
  <2>1. m.inst[i].active > 0 /\ m.inst[i] \in InstRecords
    BY <1>0, <1>1, OpAdds
  <2> QED BY <2>1 DEF InstRecords
<1>3. /\ IsHeap(m2) /\ m2.op = [m.op EXCEPT ![o] = k] /\ m2.inst = [m.inst EXCEPT ![i] = q]
      /\ m2.resp = m.resp /\ m2.chunk = m.chunk /\ m2.retained = m.retained
  BY <1>0, <1>1 DEF IsHeap, Noticed
<1>4. /\ k \in OpRecords /\ k.refs = old.refs /\ k.kind = old.kind /\ k.stage = "notice" /\ k.inst = i
      /\ k.resp = old.resp /\ k.charge = old.charge /\ k.event = old.event
  BY <1>0 DEF OpRecords, Stages, DoneStages
<1>5. /\ q \in InstRecords /\ q.refs = m.inst[i].refs /\ q.active = m.inst[i].active - 1
      /\ q.responses = m.inst[i].responses /\ q.charged = m.inst[i].charged
      /\ q.notifications = m.inst[i].notifications
      /\ q.closing = m.inst[i].closing /\ q.closed = m.inst[i].closed
  <2> DEFINE n == m.inst[i].active - 1
             q2 == [m.inst[i] EXCEPT !.active = n]
  <2>1. q = q2 /\ n \in Nat
    BY <1>2
  <2> HIDE DEF n
  <2>2. /\ q2 \in InstRecords /\ q2.refs = m.inst[i].refs /\ q2.active = n
        /\ q2.responses = m.inst[i].responses /\ q2.charged = m.inst[i].charged
        /\ q2.notifications = m.inst[i].notifications
        /\ q2.closing = m.inst[i].closing /\ q2.closed = m.inst[i].closed
    BY <1>2, <2>1, Zenon DEF InstRecords
  <2> QED BY <2>1, <2>2 DEF n
<1> HIDE DEF m2, k, q, hi, hr
<1>6. Staged(m, m2, m.op, o, k, i, q)
  <2>1. ActiveBy(old, i) = 1 /\ ActiveBy(k, i) = 0 /\ NotesBy(old, i) = 1 /\ NotesBy(k, i) = 1
    BY <1>4 DEF ActiveBy, NotesBy, One, TaskStages, Pending
  <2>2. q.active + ActiveBy(old, i) = m.inst[i].active + ActiveBy(k, i)
    BY <1>2, <1>5, <2>1
  <2>3. q.notifications + NotesBy(old, i) = m.inst[i].notifications + NotesBy(k, i)
    BY <1>2, <1>5, <2>1
  <2> QED BY <1>1, <1>3, <1>4, <1>5, <2>2, <2>3 DEF Staged, SameOp
<1>7. Shape(k) /\ (Granting(k) => Granting(old)) /\ k.stage \notin Pending
  BY <1>0, <1>1, <1>4, NoOpFacts DEF NoOpIs, Shape, Granting, Pending, TaskStages
<1>8. Onwards(m, m2, o, k, q)
  BY <1>3, <1>5, <1>6, <1>7 DEF Onwards
<1>9. Core(m2, list, kept) /\ m2.op[o] = k /\ \A p \in Ops : p # o => m2.op[p] = m.op[p]
  BY <1>1, <1>8, CoreOnwards
<1>10. m.op[o].kind # "read" => Mem(m2, list, kept)
  BY <1>1, <1>8, MemOnwards
<1>11. \A j \in Insts : /\ m2.inst[j].refs = m.inst[j].refs /\ m2.inst[j].closing = m.inst[j].closing
                        /\ m2.inst[j].closed = m.inst[j].closed
  <2>1. m2.inst[i] = q /\ \A j \in Insts : j # i => m2.inst[j] = m.inst[j]
    BY <1>0, <1>1, <1>3
  <2> QED BY <1>5, <2>1
<1>12. NoticedTo(m, m2, o)
  BY <1>3, <1>4, <1>9, <1>11 DEF NoticedTo, SameOp
<1> QED BY <1>1, <1>9, <1>10, <1>12 DEF m2

\* A read ends: the response may be read again.
LEMMA MemReadEnds ==
  ASSUME NEW m, NEW list, NEW kept, Mem(m, list, kept), None \notin kept, NEW o \in Ops,
         m.op[o].stage \in Pending, m.op[o].kind = "read", NEW ok \in BOOLEAN
  PROVE  LET m2 == ReadEnded(Noticed(m, o, ok), o)
         IN /\ Mem(m2, list, kept) /\ (Rest(m, Ops \ {o}) => Rest(m2, Ops))
<1> DEFINE m1 == Noticed(m, o, ok)
           r == m.op[o].resp
           l == [m1.resp[r] EXCEPT !.reading = FALSE]
           m2 == ReadEnded(m1, o)
           hi == InHand(list, kept)
           hr == InHandResp(kept)
<1>1. Core(m1, list, kept) /\ NoticedTo(m, m1, o)
  BY Noticing
<1>2. r \in Resps /\ m1.op[o].resp = r /\ m1.op[o].kind = "read"
  <2>1. m.op[o] # NoOp
    BY NoOpFacts DEF NoOpIs
  <2> QED BY <1>1, <2>1 DEF Mem, Tidy, Shape, NoticedTo, SameOp
<1> HIDE DEF m1
<1>3. m2 = [m1 EXCEPT !.resp[r].reading = FALSE]
  BY <1>2 DEF ReadEnded
<1>4. IsHeap(m1) /\ m1.op \in [Ops -> OpRecords] /\ Books(m1, m1.op, hi, hr) /\ m1.resp = m.resp
      /\ m1.resp \in [Resps -> RespRecords] /\ m1.inst \in [Insts -> InstRecords] /\ m1.resp[r] \in RespRecords
      /\ m1.resp[r].refs # 0
  <2>1. m.resp[r].refs # 0
    BY <1>2, RespThere
  <2> QED BY <1>1, <1>2, <2>1 DEF Core, Books, NoticedTo
<1>5. /\ IsHeap(m2) /\ m2.op = m1.op /\ m2.inst = m1.inst /\ m2.chunk = m1.chunk /\ m2.retained = m1.retained
      /\ m2.resp = [m1.resp EXCEPT ![r] = l]
  BY <1>3, <1>4 DEF IsHeap
<1>6. l \in RespRecords /\ AlikeResp(l, m1.resp[r]) /\ ~l.reading /\ l.sent = m1.resp[r].sent /\ l.pos = m1.resp[r].pos
  BY <1>4 DEF RespRecords, AlikeResp
<1> HIDE DEF m2, l, hi, hr, r
<1>7. m2.resp \in [Resps -> RespRecords] /\ m2.resp[r] = l /\ \A s \in Resps : s # r => m2.resp[s] = m1.resp[s]
  BY <1>2, <1>4, <1>5, <1>6
<1>8. \A s \in Resps : AlikeResp(m2.resp[s], m1.resp[s])
  BY <1>6, <1>7 DEF AlikeResp
<1>9. Books(m2, m1.op, hi, hr)
  <2>1. (\A p \in Ops : AlikeOp(m1.op[p], m1.op[p])) /\ \A j \in Insts : AlikeInst(m2.inst[j], m1.inst[j])
    BY <1>5 DEF AlikeOp, AlikeInst
  <2>2. m2.inst \in [Insts -> InstRecords]
    BY <1>4, <1>5
  <2> QED BY <1>4, <1>5, <1>7, <1>8, <2>1, <2>2, BooksFlags
<1>10. Closes(m2) /\ Lives(m2, list) /\ Tidy(m2.op, kept) /\ ChunksHeld(m2, kept)
  BY <1>1, <1>5 DEF Core, Closes, Lives, ChunksHeld
<1>11. Reads(m2)
  <2> SUFFICES ASSUME NEW s \in Resps
               PROVE  OpReads(m2.op, s) = One(m2.resp[s].reading) /\ m2.resp[s].chunks <= 1
    BY DEF Reads
  <2>1. OpReads(m.op, s) = One(m.resp[s].reading) /\ m.resp[s].chunks <= 1
    BY DEF Mem, Reads
  <2>2. OpReads(m1.op, s) = (OpReads(m.op, s) - ReadsResp(m.op[o], s)) + ReadsResp(m1.op[o], s)
        /\ OpReads(m.op, s) \in Nat /\ ReadsResp(m.op[o], s) <= OpReads(m.op, s)
    <3>1. m.op \in [Ops -> OpRecords] /\ \A p \in Ops : p # o => m1.op[p] = m.op[p]
      BY <1>1 DEF Mem, NoticedTo
    <3> QED BY <1>4, <3>1, OpChange
  <2>3. ReadsResp(m.op[o], s) = One(s = r) /\ ReadsResp(m1.op[o], s) = 0
    BY <1>1 DEF ReadsResp, One, Pending, TaskStages, NoticedTo, r
  <2>4. m2.resp[s].chunks = m.resp[s].chunks
    BY <1>4, <1>8 DEF AlikeResp
  <2>5. CASE s = r
    <3>1. One(s = r) = 1 /\ One(m2.resp[s].reading) = 0 /\ OpReads(m.op, s) \in {0, 1}
      BY <1>6, <1>7, <2>1, <2>5 DEF One
    <3> QED BY <1>5, <2>1, <2>2, <2>3, <2>4, <3>1
  <2>6. CASE s # r
    <3>1. One(s = r) = 0 /\ m2.resp[s].reading = m.resp[s].reading
      BY <1>4, <1>7, <2>6 DEF One
    <3> QED BY <1>5, <2>1, <2>2, <2>3, <2>4, <3>1
  <2> QED BY <2>5, <2>6
<1>12. Mem(m2, list, kept)
  <2>1. Books(m2, m2.op, InHand(list, kept), InHandResp(kept)) /\ m2.op \in [Ops -> OpRecords]
    BY <1>4, <1>5, <1>9 DEF hi, hr
  <2>2. \A c \in Chunks : ChunkShape(m2.chunk[c])
    BY <1>1, <1>5 DEF Core
  <2> QED BY <1>5, <1>10, <1>11, <2>1, <2>2 DEF Mem
<1>13. ASSUME Rest(m, Ops \ {o}) PROVE Rest(m2, Ops)
  <2>1. \A s \in Resps : m2.resp[s].chunks = m.resp[s].chunks /\ m2.resp[s].sent = m.resp[s].sent
                         /\ m2.resp[s].pos = m.resp[s].pos
    BY <1>4, <1>6, <1>7, <1>8 DEF AlikeResp
  <2>2. m2.op[o].stage = "notice" /\ (\A p \in Ops : p # o => m2.op[p] = m.op[p]) /\ m2.retained = m.retained
    BY <1>1, <1>5 DEF NoticedTo
  <2>3. \A p \in Ops : m.op[p].kind = "read" => m.op[p].resp \in Resps
    BY NoOpFacts DEF NoOpIs, Mem, Tidy, Shape
  <2>4. Idles(m2, Ops)
    <3> SUFFICES ASSUME NEW p \in Ops, p # o
                 PROVE  /\ m2.op[p].stage \in TaskStages \ {"discard"} => m2.op[p].event = None
                        /\ m2.op[p].stage = "running" /\ m2.op[p].kind = "read"
                             => m2.resp[m2.op[p].resp].chunks = 0
      BY <2>2 DEF Idles, TaskStages
    <3> QED BY <1>13, <2>1, <2>2, <2>3 DEF Rest, Idles
  <2>5. Bound(m2)
    BY <1>13, <2>1, <2>2 DEF Rest, Bound
  <2> QED BY <2>4, <2>5 DEF Rest
<1> QED BY <1>12, <1>13 DEF m2, m1

\* The record of a response's event is cleared, and its reference given back.
LEMMA MemWithdrawn ==
  ASSUME NEW m, NEW list, NEW kept, Mem(m, list, kept), None \notin kept, NEW o \in Ops,
         m.op[o].stage = "notice", m.op[o].event \in Resps
  PROVE  LET m2 == [response_drop(m, m.op[o].event) EXCEPT !.op[o].event = None]
         IN /\ Mem(m2, list, kept) /\ Fades(m2, m) /\ m2.op = [m.op EXCEPT ![o].event = None]
<1> DEFINE i == m.op[o].inst
           old == m.op[o]
           e == m.op[o].event
           k == [m.op[o] EXCEPT !.event = None]
           me == [m EXCEPT !.op[o].event = None]
           d == response_drop(m, e)
           m2 == [d EXCEPT !.op[o].event = None]
           next == [m.op EXCEPT ![o] = k]
           hi == InHand(list, kept)
           hr == InHandResp(kept)
           hr1 == [hr EXCEPT ![e] = @ + 1]
<1>0. IsHeap(m) /\ m.op \in [Ops -> OpRecords] /\ Books(m, m.op, hi, hr) /\ hi \in [Insts -> Nat]
      /\ hr \in [Resps -> Nat] /\ m.inst \in [Insts -> InstRecords] /\ Shape(old) /\ old \in OpRecords
      /\ e \in Resps
  BY HandNat DEF Mem, Books, Tidy
<1>1. i \in Insts /\ old.kind = "submit" /\ m.inst[i].refs # 0 /\ m.inst[i] \in InstRecords
      /\ e \notin Insts /\ e \notin Chunks /\ e # None
  <2>1. old # NoOp
    BY NoOpFacts DEF NoOpIs
  <2>2. i \in Insts /\ old.kind = "submit"
    BY <1>0, <2>1 DEF Shape
  <2>3. m.inst[i].refs # 0
    BY <2>2, InstThere
  <2> QED BY <1>0, <2>2, <2>3, BridgeAssumption DEF Handles
<1>2. /\ k \in OpRecords /\ k.refs = old.refs /\ k.kind = old.kind /\ k.stage = old.stage /\ k.inst = i
      /\ k.resp = old.resp /\ k.charge = old.charge /\ k.event = None
  BY <1>0 DEF OpRecords
<1>3. hr1 \in [Resps -> Nat] /\ hr1[e] > 0 /\ [hr1 EXCEPT ![e] = @ - 1] = hr
  BY <1>0, MoreLess
<1>4. hr1[e] = hr[e] + 1 /\ \A r \in Resps : r # e => hr1[r] = hr[r]
  BY <1>0
<1>5. /\ IsHeap(me) /\ me.op = next /\ me.inst = m.inst /\ me.resp = m.resp /\ me.chunk = m.chunk
      /\ me.retained = m.retained
  BY <1>0 DEF IsHeap
<1>6. next \in [Ops -> OpRecords] /\ next[o] = k /\ \A p \in Ops : p # o => next[p] = m.op[p]
  BY <1>0, <1>2
<1> HIDE DEF hi, hr, hr1, k, e, me
<1>7. Eventful(m, m, m.op, o, k, hi, hi[i], hr, hr1, i, m.inst[i])
  <2>1. m.inst = [m.inst EXCEPT ![i] = m.inst[i]]
    BY <1>0, <1>1
  <2>2. One(old.event = i) = 0 /\ One(k.event = i) = 0
    BY <1>1, <1>2, NoOpFacts DEF NoOpIs, One, e
  <2>3. \A r \in Resps : One(k.event = r) + hr1[r] = One(old.event = r) + hr[r]
    <3> SUFFICES ASSUME NEW r \in Resps PROVE One(k.event = r) + hr1[r] = One(old.event = r) + hr[r]
      OBVIOUS
    <3>1. One(k.event = r) = 0
      BY <1>2, NoOpFacts DEF NoOpIs, One
    <3>2. old.event = e /\ hr[r] \in Nat
      BY <1>0 DEF e
    <3>3. CASE r = e
      BY <1>4, <3>1, <3>2, <3>3 DEF One
    <3>4. CASE r # e
      BY <1>4, <3>1, <3>2, <3>4 DEF One
    <3> QED BY <3>3, <3>4
  <2>4. {old.event, k.event} \cap Insts \subseteq {i}
    BY <1>1, <1>2, NoOpFacts DEF NoOpIs, e
  <2>5. SameOp(k, old) /\ k.stage = old.stage /\ hi[i] \in Nat
    BY <1>0, <1>1, <1>2 DEF SameOp
  <2>6. m.inst[i].refs + One(old.event = i) + hi[i] = m.inst[i].refs + One(k.event = i) + hi[i]
    BY <2>2
  <2>7. k \in OpRecords /\ hr1 \in [Resps -> Nat] /\ m.inst[i] \in InstRecords /\ m.inst[i].refs # 0
    BY <1>1, <1>2, <1>3
  <2> QED BY <2>1, <2>3, <2>4, <2>5, <2>6, <2>7 DEF Eventful
<1>8. Books(m, next, hi, hr1)
  <2>1. Books(m, [m.op EXCEPT ![o] = k], [hi EXCEPT ![i] = hi[i]], hr1)
    BY <1>0, <1>1, <1>7, BooksEvent
  <2>2. [hi EXCEPT ![i] = hi[i]] = hi
    BY <1>0, <1>1
  <2> QED BY <2>1, <2>2
<1> HIDE DEF next
<1>9. Books(d, next, hi, hr)
  <2>1. Books(d, next, hi, [hr1 EXCEPT ![e] = @ - 1])
    BY <1>0, <1>3, <1>6, <1>8, RespDropBooks
  <2> QED BY <1>3, <2>1
<1>10. Fades(d, m)
  BY <1>0, <1>3, <1>6, <1>8, RespDropFades
<1>11. IsHeap(d) /\ d.op = m.op /\ d.chunk = m.chunk
  <2>1. m.resp[e].refs = 1 => m.resp[e].inst \in Insts
    BY <1>0, RespThere
  <2> QED BY <1>0, <2>1, RespDropFrame
<1> HIDE DEF d
<1>12. /\ IsHeap(m2) /\ m2.op = next /\ m2.inst = d.inst /\ m2.resp = d.resp /\ m2.chunk = m.chunk
       /\ m2.retained = d.retained
  BY <1>11 DEF IsHeap, next, k
<1> HIDE DEF m2
<1>13. Books(m2, m2.op, hi, hr)
  <2>1. d.chunk = m2.chunk
    BY <1>11, <1>12
  <2>2. Books(m2, next, hi, hr)
    BY <1>9, <1>12, <2>1, BooksFrame
  <2> QED BY <1>12, <2>2
<1>14. Fades(m2, m) /\ Fades(m2, me)
  BY <1>5, <1>10, <1>12 DEF Fades
<1>15. Tidy(m2.op, kept)
  <2>1. Shape(k) /\ ~Granting(k)
    BY <1>0, <1>1, <1>2, NoOpFacts DEF NoOpIs, Shape, Granting, Creates
  <2>2. SameOp(k, old)
    BY <1>2 DEF SameOp
  <2> QED BY <1>0, <1>2, <1>6, <1>12, <2>1, <2>2, TidyOn DEF Mem
<1>16. Closes(me) /\ Lives(me, list) /\ ChunksHeld(me, kept) /\ Reads(me)
  <2>1. \A p \in Ops : /\ me.op[p].kind = m.op[p].kind /\ me.op[p].inst = m.op[p].inst
                       /\ me.op[p].resp = m.op[p].resp /\ me.op[p].stage = m.op[p].stage
                       /\ \A c \in Chunks : me.op[p].event = c <=> m.op[p].event = c
    BY <1>1, <1>2, <1>5, <1>6, NoOpFacts DEF NoOpIs, e
  <2>2. Closes(me) /\ Lives(me, list)
    BY <1>5, <2>1 DEF Mem, Closes, Lives
  <2>3. ChunksHeld(me, kept)
    BY <1>5, <2>1 DEF Mem, ChunksHeld
  <2>4. ASSUME NEW r \in Resps PROVE OpReads(me.op, r) = OpReads(m.op, r)
    <3>1. \A p \in Ops : ReadsResp(me.op[p], r) = ReadsResp(m.op[p], r)
      BY <2>1 DEF ReadsResp
    <3> QED BY <3>1, ReadsSame
  <2>5. Reads(me)
    BY <1>5, <2>4 DEF Mem, Reads
  <2> QED BY <2>2, <2>3, <2>5
<1>17. Closes(m2) /\ Lives(m2, list) /\ ChunksHeld(m2, kept) /\ Reads(m2)
  <2>1. \A p \in Ops : Shape(m2.op[p]) /\ OpFades(m2.op[p], me.op[p])
    BY <1>5, <1>12, <1>15 DEF OpFades, Tidy
  <2>2. m2.op \in [Ops -> OpRecords] /\ m2.chunk = me.chunk
    BY <1>5, <1>6, <1>12
  <2> QED BY <1>0, <1>13, <1>14, <1>16, <2>1, <2>2, RestFades
<1>18. Mem(m2, list, kept)
  <2>1. m2.op \in [Ops -> OpRecords] /\ \A c \in Chunks : ChunkShape(m2.chunk[c])
    BY <1>6, <1>12 DEF Mem
  <2> QED BY <1>12, <1>13, <1>15, <1>17, <2>1 DEF Mem, hi, hr
<1>19. m2.op = [m.op EXCEPT ![o].event = None]
  BY <1>0, <1>12 DEF next, k
<1> QED BY <1>14, <1>18, <1>19 DEF m2, d, e

InstGranted(m, o) ==
  [m EXCEPT !.inst[m.op[o].inst].refs = @ + 1, !.op[o].event = m.op[o].inst]
\* A creation that succeeded: the event is a reference to the instance.
LEMMA MemGranted ==
  ASSUME NEW m, NEW list, NEW kept, Mem(m, list, kept), None \notin kept, NEW o \in Ops,
         m.op[o].stage = "notice", m.op[o].event = None, m.op[o].kind \in Creates
  PROVE  LET m2 == InstGranted(m, o)
         IN /\ Mem(m2, list, kept) /\ m2.resp = m.resp /\ m2.retained = m.retained
            /\ m2.op[o].stage = "notice" /\ \A p \in Ops : p # o => m2.op[p] = m.op[p]
<1> DEFINE i == m.op[o].inst
           old == m.op[o]
           k == [m.op[o] EXCEPT !.event = i]
           q == [m.inst[i] EXCEPT !.refs = @ + 1]
           m2 == InstGranted(m, o)
           hi == InHand(list, kept)
           hr == InHandResp(kept)
<1>0. IsHeap(m) /\ m.op \in [Ops -> OpRecords] /\ Books(m, m.op, hi, hr) /\ hi \in [Insts -> Nat]
      /\ hr \in [Resps -> Nat] /\ m.inst \in [Insts -> InstRecords] /\ Shape(old) /\ old \in OpRecords
  BY HandNat DEF Mem, Books, Tidy
<1>1. i \in Insts /\ m.inst[i].refs # 0 /\ m.inst[i] \in InstRecords /\ m.inst[i].refs \in Nat
      /\ i \notin Resps /\ i \notin Chunks /\ i # None
  <2>1. old # NoOp
    BY NoOpFacts DEF NoOpIs
  <2>2. i \in Insts
    BY <1>0, <2>1 DEF Shape
  <2>3. m.inst[i].refs # 0 /\ m.inst[i] \in InstRecords
    BY <1>0, <2>2, InstThere
  <2> QED BY <2>2, <2>3, BridgeAssumption DEF Handles, InstRecords
<1>2. /\ k \in OpRecords /\ k.refs = old.refs /\ k.kind = old.kind /\ k.stage = old.stage /\ k.inst = i
      /\ k.resp = old.resp /\ k.charge = old.charge /\ k.event = i
  BY <1>0, <1>1 DEF OpRecords
<1>3. /\ q \in InstRecords /\ q.refs = m.inst[i].refs + 1 /\ q.active = m.inst[i].active
      /\ q.responses = m.inst[i].responses /\ q.charged = m.inst[i].charged
      /\ q.notifications = m.inst[i].notifications
      /\ q.closing = m.inst[i].closing /\ q.closed = m.inst[i].closed
  <2> DEFINE n == m.inst[i].refs + 1
             q2 == [m.inst[i] EXCEPT !.refs = n]
  <2>1. q = q2 /\ n \in Nat
    BY <1>1
  <2> HIDE DEF n
  <2>2. /\ q2 \in InstRecords /\ q2.refs = n /\ q2.active = m.inst[i].active
        /\ q2.responses = m.inst[i].responses /\ q2.charged = m.inst[i].charged
        /\ q2.notifications = m.inst[i].notifications
        /\ q2.closing = m.inst[i].closing /\ q2.closed = m.inst[i].closed
    BY <1>1, <2>1, Zenon DEF InstRecords
  <2> QED BY <2>1, <2>2 DEF n
<1>4. /\ IsHeap(m2) /\ m2.op = [m.op EXCEPT ![o] = k] /\ m2.inst = [m.inst EXCEPT ![i] = q]
      /\ m2.resp = m.resp /\ m2.chunk = m.chunk /\ m2.retained = m.retained
  BY <1>0, <1>1 DEF IsHeap, InstGranted
<1> HIDE DEF m2, k, q, hi, hr
<1>5. Eventful(m, m2, m.op, o, k, hi, hi[i], hr, hr, i, q)
  <2>1. One(old.event = i) = 0 /\ One(k.event = i) = 1
    BY <1>1, <1>2 DEF One
  <2>2. \A r \in Resps : One(k.event = r) + hr[r] = One(old.event = r) + hr[r]
    BY <1>1, <1>2, NoOpFacts DEF NoOpIs, One
  <2>3. {old.event, k.event} \cap Insts \subseteq {i}
    BY <1>2, NoOpFacts DEF NoOpIs
  <2>4. SameOp(k, old) /\ k.stage = old.stage /\ hi[i] \in Nat
    BY <1>0, <1>1, <1>2 DEF SameOp
  <2>5. q.refs + One(old.event = i) + hi[i] = m.inst[i].refs + One(k.event = i) + hi[i] /\ q.refs # 0
    BY <1>1, <1>3, <2>1, <2>4
  <2>6. k \in OpRecords /\ hr \in [Resps -> Nat] /\ q \in InstRecords
    BY <1>0, <1>2, <1>3
  <2> QED BY <1>3, <1>4, <2>2, <2>3, <2>4, <2>5, <2>6 DEF Eventful
<1>6. Books(m2, [m.op EXCEPT ![o] = k], hi, hr)
  <2>1. Books(m2, [m.op EXCEPT ![o] = k], [hi EXCEPT ![i] = hi[i]], hr)
    BY <1>0, <1>1, <1>5, BooksEvent
  <2>2. [hi EXCEPT ![i] = hi[i]] = hi
    BY <1>0, <1>1
  <2> QED BY <2>1, <2>2
<1>7. m2.op \in [Ops -> OpRecords] /\ m2.op[o] = k /\ \A p \in Ops : p # o => m2.op[p] = m.op[p]
  BY <1>0, <1>2, <1>4
<1>8. Granting(old) /\ i \notin kept
  BY DEF Granting, Mem, Tidy, Grants
<1>9. Shape(k)
  BY <1>0, <1>1, <1>2, NoOpFacts DEF NoOpIs, Shape
<1>10. TidyAt(m.op, o, k, kept)
  <2>1. ASSUME NEW p \in Ops, p # o PROVE m.op[p].event # i
    <3> SUFFICES ASSUME m.op[p].event = i PROVE FALSE
      OBVIOUS
    <3>1. m.op[p].kind \in Creates /\ m.op[p].inst = i
      BY <1>1 DEF Mem, Tidy, Shape
    <3> QED BY <1>8, <2>1, <3>1 DEF Mem, Tidy, Grants
  <2>2. Granting(k) /\ k.kind \in Creates
    BY <1>2, <1>8 DEF Granting
  <2>3. ASSUME NEW p \in Ops, p # o, m.op[p].inst = k.inst PROVE m.op[p].kind \notin Creates \cup {"close"}
    BY <1>2, <1>8, <2>3 DEF Mem, Tidy, Grants
  <2>4. ASSUME NEW p \in Ops, p # o, m.op[p].inst = k.inst PROVE ~Granting(m.op[p])
    BY <2>3, <2>4 DEF Granting
  <2>5. \A p \in Ops : m.op[p].event \notin kept /\ (Granting(m.op[p]) => m.op[p].inst \notin kept)
    BY DEF Mem, Tidy, Events, Grants
  <2> QED BY <1>2, <1>8, <1>9, <2>1, <2>3, <2>4, <2>5 DEF TidyAt
<1>11. Tidy(m2.op, kept)
  BY <1>0, <1>7, <1>10, TidyStep DEF Mem
<1>12. \A j \in Insts : /\ m2.inst[j].closing = m.inst[j].closing /\ m2.inst[j].closed = m.inst[j].closed
                        /\ m2.inst[j].refs # 0 => m.inst[j].refs # 0
  <2>1. m2.inst[i] = q /\ \A j \in Insts : j # i => m2.inst[j] = m.inst[j]
    BY <1>0, <1>1, <1>4
  <2> QED BY <1>1, <1>3, <2>1
<1>13. \A p \in Ops : /\ m2.op[p].kind = m.op[p].kind /\ m2.op[p].inst = m.op[p].inst
                      /\ m2.op[p].resp = m.op[p].resp /\ m2.op[p].stage = m.op[p].stage
                      /\ \A c \in Chunks : m2.op[p].event = c <=> m.op[p].event = c
  BY <1>1, <1>2, <1>7, NoOpFacts DEF NoOpIs
<1>14. Closes(m2)
  <2> SUFFICES ASSUME NEW p \in Ops, m2.op[p].kind = "close" PROVE m2.inst[m2.op[p].inst].closing
    BY DEF Closes
  <2>1. m2.op[p] # NoOp /\ m.inst[m.op[p].inst].closing
    BY <1>13, NoOpFacts DEF NoOpIs, Mem, Closes
  <2>2. m2.op[p].inst \in Insts
    BY <1>11, <2>1 DEF Tidy, Shape
  <2> QED BY <1>12, <1>13, <2>1, <2>2
<1>15. Lives(m2, list)
  BY <1>12, <1>13 DEF Mem, Lives
<1>16. ChunksHeld(m2, kept) /\ \A c \in Chunks : ChunkShape(m2.chunk[c])
  BY <1>4, <1>13 DEF Mem, ChunksHeld
<1>17. Reads(m2)
  <2>1. ASSUME NEW r \in Resps PROVE OpReads(m2.op, r) = OpReads(m.op, r)
    <3>1. \A p \in Ops : ReadsResp(m2.op[p], r) = ReadsResp(m.op[p], r)
      BY <1>13 DEF ReadsResp
    <3> QED BY <3>1, ReadsSame
  <2> QED BY <1>4, <2>1 DEF Mem, Reads
<1>18. Books(m2, m2.op, InHand(list, kept), InHandResp(kept))
  BY <1>4, <1>6 DEF hi, hr
<1>19. Mem(m2, list, kept)
  BY <1>4, <1>7, <1>11, <1>14, <1>15, <1>16, <1>17, <1>18 DEF Mem
<1> QED BY <1>2, <1>4, <1>7, <1>19 DEF m2

\* The live list loses an instance.
LEMMA HandLessLive ==
  ASSUME NEW list, NEW kept, NEW i \in Insts, i \in list
  PROVE  /\ InHand(list, kept)[i] > 0
         /\ InHand(list \ {i}, kept) = [InHand(list, kept) EXCEPT ![i] = @ - 1]
<1>1. InHand(list, kept) \in [Insts -> Nat]
  BY HandNat
<1>2. \A j \in Insts : /\ InHand(list, kept)[j] = One(j \in list) + One(j \in kept)
                       /\ InHand(list \ {i}, kept)[j] = One(j \in list /\ j # i) + One(j \in kept)
  BY DEF InHand, One
<1>3. InHand(list, kept)[i] = 1 + One(i \in kept) /\ InHand(list \ {i}, kept)[i] = One(i \in kept)
      /\ One(i \in kept) \in Nat
  BY <1>2 DEF One
<1>4. \A j \in Insts : j # i => InHand(list \ {i}, kept)[j] = InHand(list, kept)[j]
  BY <1>2 DEF One
<1>5. InHand(list \ {i}, kept) = [InHand(list, kept) EXCEPT ![i] = @ - 1]
  <2> DEFINE f == InHand(list, kept)
             g == InHand(list \ {i}, kept)
  <2>1. f \in [Insts -> Nat] /\ g \in [Insts -> Nat] /\ \A s \in Insts : s # i => g[s] = f[s]
    BY <1>4, HandNat
  <2>2. g[i] = f[i] - 1
    BY <1>3
  <2> HIDE DEF f, g
  <2>3. g = [f EXCEPT ![i] = @ - 1]
    BY <2>1, <2>2
  <2> QED BY <2>3 DEF f, g
<1> QED BY <1>3, <1>5

\* A close, and a create that failed, take the instance off the live list.
LEMMA MemRetired ==
  ASSUME NEW m, NEW list, NEW kept, Mem(m, list, kept), None \notin kept, NEW o \in Ops,
         m.op[o].stage = "notice", m.op[o].kind \in Creates \cup {"close"}, m.op[o].inst \in list
  PROVE  LET i == m.op[o].inst
             m2 == instance_drop([m EXCEPT !.inst[i].closing = TRUE, !.inst[i].closed = TRUE], i)
         IN Mem(m2, list \ {i}, kept) /\ m2.op = m.op /\ m2.resp = m.resp /\ m2.retained = m.retained
<1> DEFINE i == m.op[o].inst
           old == m.op[o]
           q == [m.inst[i] EXCEPT !.closing = TRUE, !.closed = TRUE]
           m1 == [m EXCEPT !.inst[i].closing = TRUE, !.inst[i].closed = TRUE]
           m2 == instance_drop(m1, i)
           hi == InHand(list, kept)
           hj == InHand(list \ {i}, kept)
           hr == InHandResp(kept)
<1>0. IsHeap(m) /\ m.op \in [Ops -> OpRecords] /\ Books(m, m.op, hi, hr) /\ hi \in [Insts -> Nat]
      /\ hr \in [Resps -> Nat] /\ m.inst \in [Insts -> InstRecords] /\ Shape(old) /\ old \in OpRecords
      /\ m.resp \in [Resps -> RespRecords]
  BY HandNat DEF Mem, Books, Tidy
<1>1. i \in Insts /\ m.inst[i].refs # 0 /\ m.inst[i] \in InstRecords
  <2>1. old # NoOp
    BY NoOpFacts DEF NoOpIs
  <2>2. i \in Insts
    BY <1>0, <2>1 DEF Shape
  <2> QED BY <1>0, <2>2, InstThere
<1>2. q \in InstRecords /\ AlikeInst(q, m.inst[i]) /\ q.closing /\ q.closed
  BY <1>1 DEF InstRecords, AlikeInst
<1>3. /\ IsHeap(m1) /\ m1.op = m.op /\ m1.inst = [m.inst EXCEPT ![i] = q] /\ m1.resp = m.resp
      /\ m1.chunk = m.chunk /\ m1.retained = m.retained
  BY <1>0, <1>1 DEF IsHeap
<1> HIDE DEF m1, q, hi, hj, hr
<1>4. m1.inst \in [Insts -> InstRecords] /\ m1.inst[i] = q /\ \A j \in Insts : j # i => m1.inst[j] = m.inst[j]
  BY <1>0, <1>1, <1>2, <1>3
<1>5. Books(m1, m.op, hi, hr)
  <2>1. (\A p \in Ops : AlikeOp(m.op[p], m.op[p])) /\ \A r \in Resps : AlikeResp(m1.resp[r], m.resp[r])
    BY <1>3 DEF AlikeOp, AlikeResp
  <2>2. \A j \in Insts : AlikeInst(m1.inst[j], m.inst[j])
    BY <1>2, <1>4 DEF AlikeInst
  <2>3. m1.resp \in [Resps -> RespRecords]
    BY <1>0, <1>3
  <2> QED BY <1>0, <1>3, <1>4, <2>1, <2>2, <2>3, BooksFlags
<1>6. hi[i] > 0 /\ hj = [hi EXCEPT ![i] = @ - 1]
  <2>1. i \in list /\ i \in Insts
    BY <1>1
  <2> HIDE DEF i
  <2>2. /\ InHand(list, kept)[i] > 0
        /\ InHand(list \ {i}, kept) = [InHand(list, kept) EXCEPT ![i] = @ - 1]
    BY <2>1, HandLessLive
  <2> QED BY <2>2 DEF hi, hj
<1>7. Books(m2, m.op, hj, hr)
  <2>1. Books(m2, m.op, [hi EXCEPT ![i] = @ - 1], hr)
    BY <1>0, <1>1, <1>3, <1>5, <1>6, InstDropBooks
  <2> QED BY <1>6, <2>1
<1>8. /\ IsHeap(m2) /\ m2.inst = [m1.inst EXCEPT ![i] = Less(q)]
      /\ m2.op = m.op /\ m2.resp = m.resp /\ m2.chunk = m.chunk /\ m2.retained = m.retained
  BY <1>3, <1>4, InstDropIs
<1> HIDE DEF m2
<1>9. m2.inst[i] = Less(q) /\ \A j \in Insts : j # i => m2.inst[j] = m.inst[j]
  BY <1>1, <1>4, <1>8
<1>10. m2.inst[i].refs # 0 => m2.inst[i].closing /\ m2.inst[i].closed
  <2>1. CASE q.refs = 1
    <3>1. Less(q) = NoInst
      BY <2>1 DEF Less
    <3> QED BY <1>9, <3>1 DEF NoInst
  <2>2. CASE q.refs # 1
    <3>1. Less(q) = [q EXCEPT !.refs = @ - 1]
      BY <2>2 DEF Less
    <3>2. Less(q).closing = q.closing /\ Less(q).closed = q.closed
      BY <1>2, <3>1 DEF InstRecords
    <3> QED BY <1>2, <1>9, <3>2
  <2> QED BY <2>1, <2>2
<1>11. ASSUME NEW p \in Ops, m.op[p].stage \in Pending, m.op[p].kind \in Creates \cup {"close"}
       PROVE  m.op[p].inst # i
  <2> SUFFICES ASSUME m.op[p].inst = i PROVE FALSE
    OBVIOUS
  <2>1. p # o
    BY <1>11 DEF Pending, TaskStages
  <2>2. CASE old.kind = "close"
    <3>1. CASE m.op[p].kind = "close"
      BY <2>1, <2>2, <3>1 DEF Mem, Tidy, CloseOnce
    <3>2. CASE m.op[p].kind \in Creates
      <4>1. Granting(m.op[p])
        BY <1>11, <3>2 DEF Granting
      <4> QED BY <2>1, <2>2, <4>1 DEF Mem, Tidy, Grants
    <3> QED BY <1>11, <3>1, <3>2
  <2>3. CASE old.kind \in Creates
    <3>1. Granting(old)
      BY <2>3 DEF Granting
    <3> QED BY <1>11, <2>1, <3>1 DEF Mem, Tidy, Grants
  <2> QED BY <2>2, <2>3
<1>12. Lives(m2, list \ {i})
  <2>1. ASSUME NEW j \in Insts, m2.inst[j].refs # 0
        PROVE  (j \in list \ {i} <=> ~m2.inst[j].closed) /\ (m2.inst[j].closed => m2.inst[j].closing)
    <3>1. CASE j = i
      BY <1>10, <2>1, <3>1
    <3>2. CASE j # i
      BY <1>9, <2>1, <3>2 DEF Mem, Lives
    <3> QED BY <3>1, <3>2
  <2>2. ASSUME NEW p \in Ops, m2.op[p].stage \in Pending, m2.op[p].kind \in Creates \cup {"close"}
        PROVE  m2.op[p].inst \in list \ {i}
    <3>1. m.op[p].inst \in list
      BY <1>8, <2>2 DEF Mem, Lives
    <3> QED BY <1>8, <1>11, <2>2, <3>1
  <2> QED BY <2>1, <2>2 DEF Lives
<1>13. Closes(m2)
  <2> SUFFICES ASSUME NEW p \in Ops, m.op[p].kind = "close" PROVE m2.inst[m.op[p].inst].closing
    BY <1>8 DEF Closes
  <2>1. m.op[p] # NoOp /\ m.inst[m.op[p].inst].closing
    BY NoOpFacts DEF NoOpIs, Mem, Closes
  <2>2. m.op[p].inst \in Insts
    BY <1>0, <2>1 DEF Mem, Tidy, Shape
  <2>3. CASE m.op[p].inst = i
    <3>1. m2.inst[i].refs # 0
      <4>1. hj \in [Insts -> Nat]
        BY HandNat DEF hj
      <4> QED BY <1>0, <1>1, <1>7, <2>3, <4>1, InstRefd
    <3> QED BY <1>10, <2>3, <3>1
  <2>4. CASE m.op[p].inst # i
    BY <1>9, <2>1, <2>2, <2>4
  <2> QED BY <2>3, <2>4
<1>14. Tidy(m2.op, kept) /\ ChunksHeld(m2, kept) /\ Reads(m2) /\ \A c \in Chunks : ChunkShape(m2.chunk[c])
  BY <1>8 DEF Mem, ChunksHeld, Reads
<1>15. Books(m2, m2.op, InHand(list \ {i}, kept), InHandResp(kept)) /\ m2.op \in [Ops -> OpRecords]
  BY <1>0, <1>7, <1>8 DEF hj, hr
<1>16. Mem(m2, list \ {i}, kept)
  BY <1>8, <1>12, <1>13, <1>14, <1>15 DEF Mem
<1> QED BY <1>8, <1>16, Zenon DEF m2, m1

\* What a task may still rest on when nothing but its record, now in the notices, has changed.
LEMMA RestTold ==
  ASSUME NEW m, NEW list, NEW kept, Mem(m, list, kept), NEW m2, NEW o \in Ops, Rest(m, Ops \ {o}),
         m2.op[o].stage = "notice", \A p \in Ops : p # o => m2.op[p] = m.op[p],
         m2.resp = m.resp, m2.retained = m.retained
  PROVE  Rest(m2, Ops)
<1>1. Idles(m2, Ops)
  <2> SUFFICES ASSUME NEW p \in Ops, p # o
               PROVE  /\ m2.op[p].stage \in TaskStages \ {"discard"} => m2.op[p].event = None
                      /\ m2.op[p].stage = "running" /\ m2.op[p].kind = "read"
                           => m2.resp[m2.op[p].resp].chunks = 0
    BY DEF Idles, TaskStages
  <2> QED BY DEF Rest, Idles
<1>2. Bound(m2)
  BY DEF Rest, Bound
<1> QED BY <1>1, <1>2 DEF Rest

\* A creation, or a close, ends.
LEMMA MemCompletedLife ==
  ASSUME NEW m, NEW list, NEW kept, Mem(m, list, kept), None \notin kept, NEW o \in Ops,
         m.op[o].stage \in Pending, m.op[o].kind \in Creates \cup {"close"}, NEW ok \in BOOLEAN
  PROVE  LET m2 == Completed(m, o, ok)
         IN /\ Mem(m2, IF Retires(m, o, ok) THEN list \ {m.op[o].inst} ELSE list, kept)
            /\ Rest(m, Ops \ {o}) => Rest(m2, Ops)
            /\ Retires(m, o, ok) => m.op[o].inst \in list
<1> DEFINE i == m.op[o].inst
           m1 == Noticed(m, o, ok)
           m2 == Completed(m, o, ok)
           g == InstGranted(m1, o)
           d == instance_drop([m1 EXCEPT !.inst[m1.op[o].inst].closing = TRUE,
                                         !.inst[m1.op[o].inst].closed = TRUE], m1.op[o].inst)
<1>1. Mem(m1, list, kept) /\ NoticedTo(m, m1, o) /\ i \in list
  <2>1. m.op[o].kind # "read"
    BY DEF Creates
  <2> QED BY <2>1, Noticing DEF Mem, Lives
<1>2. m.op[o].event = None
  <2>1. m.op[o].event \notin Insts /\ m.op[o].event \notin Resps /\ m.op[o].event \notin Chunks
    BY DEF Mem, Tidy, Shape, Creates, Pending, TaskStages
  <2> QED BY <2>1 DEF Mem, OpRecords
<1>3. m1.op[o].stage = "notice" /\ m1.op[o].event = None /\ m1.op[o].inst = i /\ m1.op[o].kind = m.op[o].kind
      /\ None \notin Resps
  BY <1>1, <1>2, NoOpFacts DEF NoOpIs, NoticedTo, SameOp
<1> HIDE DEF m1
<1>4. Withdrawn(m1, o, ok) = m1
  BY <1>3 DEF Withdrawn
<1>5. CASE Retires(m, o, ok)
  <2>1. Granted(m1, o, ok) = m1 /\ ReadEnded(m1, o) = m1 /\ Retires(m1, o, ok)
    BY <1>3, <1>5 DEF Granted, ReadEnded, Retires, Creates
  <2>2. m2 = d
    BY <1>4, <2>1 DEF Completed, m1, Retired
  <2>3. Mem(d, list \ {i}, kept) /\ d.op = m1.op /\ d.resp = m1.resp /\ d.retained = m1.retained
    BY <1>1, <1>3, MemRetired, Zenon
  <2> HIDE DEF d
  <2>4. Rest(m, Ops \ {o}) => Rest(d, Ops)
    <3>1. d.op[o].stage = "notice" /\ (\A p \in Ops : p # o => d.op[p] = m.op[p]) /\ d.resp = m.resp
          /\ d.retained = m.retained
      BY <1>1, <1>3, <2>3 DEF NoticedTo
    <3> QED BY <3>1, RestTold
  <2> QED BY <1>1, <1>5, <2>2, <2>3, <2>4
<1>6. CASE ~Retires(m, o, ok)
  <2>1. m1.op[o].kind \in Creates /\ ok
    BY <1>3, <1>6 DEF Retires, Creates
  <2>2. Granted(m1, o, ok) = g
    BY <2>1 DEF Granted, Creates, InstGranted
  <2>3. Mem(g, list, kept) /\ g.resp = m1.resp /\ g.retained = m1.retained
        /\ g.op[o].stage = "notice" /\ \A p \in Ops : p # o => g.op[p] = m1.op[p]
    BY <1>1, <1>3, <2>1, MemGranted
  <2>4. g.op[o].kind = m1.op[o].kind
    <3>1. m1.op \in [Ops -> OpRecords] /\ IsHeap(m1)
      BY <1>1 DEF Mem
    <3>2. g.op = [m1.op EXCEPT ![o].event = m1.op[o].inst]
      BY <3>1 DEF IsHeap, InstGranted
    <3> QED BY <3>1, <3>2 DEF OpRecords
  <2> HIDE DEF g
  <2>5. ReadEnded(g, o) = g /\ ~Retires(g, o, ok)
    BY <2>1, <2>4 DEF ReadEnded, Retires, Creates
  <2>6. m2 = g
    BY <1>4, <2>2, <2>5 DEF Completed, m1, Retired
  <2>7. Rest(m, Ops \ {o}) => Rest(g, Ops)
    <3>1. g.op[o].stage = "notice" /\ (\A p \in Ops : p # o => g.op[p] = m.op[p]) /\ g.resp = m.resp
          /\ g.retained = m.retained
      BY <1>1, <2>3 DEF NoticedTo
    <3> QED BY <3>1, RestTold
  <2> QED BY <1>6, <2>3, <2>6, <2>7
<1> QED BY <1>5, <1>6

\* A submit ends; one that failed gives back the response it had made.
LEMMA MemCompletedSubmit ==
  ASSUME NEW m, NEW list, NEW kept, Mem(m, list, kept), None \notin kept, NEW o \in Ops,
         m.op[o].stage \in Pending, m.op[o].kind = "submit", NEW ok \in BOOLEAN
  PROVE  LET m2 == Completed(m, o, ok)
         IN /\ Mem(m2, list, kept)
            /\ Rest(m, Ops \ {o}) => Rest(m2, Ops)
<1> DEFINE m1 == Noticed(m, o, ok)
           m2 == Completed(m, o, ok)
           w == [response_drop(m1, m1.op[o].event) EXCEPT !.op[o].event = None]
<1>1. Mem(m1, list, kept) /\ NoticedTo(m, m1, o)
  BY Noticing
<1>2. m1.op[o].stage = "notice" /\ m1.op[o].event = m.op[o].event /\ m1.op[o].kind = "submit"
  BY <1>1 DEF NoticedTo, SameOp
<1>3. Rest(m, Ops \ {o}) => Rest(m1, Ops)
  <2>1. (\A p \in Ops : p # o => m1.op[p] = m.op[p]) /\ m1.resp = m.resp /\ m1.retained = m.retained
    BY <1>1 DEF NoticedTo
  <2> QED BY <1>2, <2>1, RestTold
<1> HIDE DEF m1
<1>4. ASSUME NEW x, x.op[o].kind = "submit"
      PROVE  Granted(x, o, ok) = x /\ ReadEnded(x, o) = x /\ Retired(x, o, ok) = x
  BY <1>4 DEF Granted, ReadEnded, Retired, Retires
<1>5. CASE ~ok /\ m1.op[o].event \in Resps
  <2>1. Withdrawn(m1, o, ok) = w
    BY <1>5 DEF Withdrawn
  <2>2. Mem(w, list, kept) /\ Fades(w, m1) /\ w.op = [m1.op EXCEPT ![o].event = None]
    BY <1>1, <1>2, <1>5, MemWithdrawn, Zenon
  <2>3. w.op[o].kind = "submit" /\ w.op[o].stage = "notice" /\ \A p \in Ops : p # o => w.op[p] = m1.op[p]
    <3>1. m1.op \in [Ops -> OpRecords] /\ m1.op[o] \in OpRecords
      BY <1>1 DEF Mem
    <3> HIDE DEF w
    <3>2. w.op[o] = [m1.op[o] EXCEPT !.event = None] /\ \A p \in Ops : p # o => w.op[p] = m1.op[p]
      BY <2>2, <3>1
    <3> QED BY <1>2, <3>1, <3>2 DEF OpRecords
  <2> HIDE DEF w
  <2>4. m2 = w
    BY <1>4, <2>1, <2>3 DEF Completed, m1
  <2>5. Rest(m1, Ops) => Rest(w, Ops)
    <3> SUFFICES ASSUME Rest(m1, Ops) PROVE Rest(w, Ops)
      OBVIOUS
    <3>1. Bound(w)
      BY <1>1, <2>2, BoundFades DEF Rest
    <3>2. \A p \in Ops : \/ w.op[p].stage \notin TaskStages
                         \/ w.op[p].stage = m1.op[p].stage /\ w.op[p].kind = m1.op[p].kind
                            /\ w.op[p].event = m1.op[p].event /\ w.op[p].resp = m1.op[p].resp
      BY <2>3 DEF TaskStages
    <3>3. Idles(w, Ops)
      <4>1. Idles(m1, Ops) /\ Mem(w, list, kept) /\ Fades(w, m1)
        BY <2>2 DEF Rest
      <4> QED BY <3>2, <4>1, IdlesFades
    <3> QED BY <3>1, <3>3 DEF Rest
  <2> QED BY <1>3, <2>2, <2>4, <2>5
<1>6. CASE ~(~ok /\ m1.op[o].event \in Resps)
  <2>1. Withdrawn(m1, o, ok) = m1
    BY <1>6 DEF Withdrawn
  <2>2. m2 = m1
    BY <1>2, <1>4, <2>1 DEF Completed, m1
  <2> QED BY <1>1, <1>3, <2>2
<1> QED BY <1>5, <1>6

\* hs_bridge_complete.
LEMMA MemCompleted ==
  ASSUME NEW m, NEW list, NEW kept, Mem(m, list, kept), None \notin kept, NEW o \in Ops,
         m.op[o].stage \in Pending, NEW ok \in BOOLEAN
  PROVE  LET m2 == Completed(m, o, ok)
         IN /\ Mem(m2, IF Retires(m, o, ok) THEN list \ {m.op[o].inst} ELSE list, kept)
            /\ Rest(m, Ops \ {o}) => Rest(m2, Ops)
            /\ Retires(m, o, ok) => m.op[o].inst \in list
<1> DEFINE m1 == Noticed(m, o, ok)
<1>1. NoticedTo(m, m1, o)
  BY Noticing
<1>2. m1.op[o].stage = "notice" /\ m1.op[o].event = m.op[o].event /\ m1.op[o].kind = m.op[o].kind
      /\ m1.op[o].inst = m.op[o].inst
  BY <1>1 DEF NoticedTo, SameOp
<1>3. CASE m.op[o].kind \in Creates \cup {"close"}
  BY <1>3, MemCompletedLife
<1>4. CASE m.op[o].kind = "submit"
  <2>1. ~Retires(m, o, ok)
    BY <1>4 DEF Retires
  <2> QED BY <1>4, <2>1, MemCompletedSubmit
<1>5. ASSUME m.op[o].kind \in {"read", "drop"}
      PROVE  Completed(m, o, ok) = ReadEnded(m1, o) /\ ~Retires(m, o, ok)
  <2>1. m1.op[o].event \notin Resps /\ None \notin Resps
    <3>1. m.op[o].event \in Resps => m.op[o].kind = "submit"
      BY DEF Mem, Tidy, Shape
    <3> QED BY <1>2, <1>5, <3>1, NoOpFacts DEF NoOpIs
  <2> HIDE DEF m1
  <2>2. Withdrawn(m1, o, ok) = m1 /\ Granted(m1, o, ok) = m1
    BY <1>2, <1>5, <2>1 DEF Withdrawn, Granted
  <2> DEFINE x == ReadEnded(m1, o)
  <2>3. x.op = m1.op
    <3>1. IsHeap(m1)
      BY Noticing DEF m1, Core
    <3> QED BY <3>1 DEF ReadEnded, IsHeap
  <2>4. ~Retires(x, o, ok) /\ ~Retires(m, o, ok)
    BY <1>2, <1>5, <2>3 DEF Retires
  <2> HIDE DEF x
  <2>5. Retired(x, o, ok) = x
    BY <2>4 DEF Retired
  <2> QED BY <2>2, <2>4, <2>5 DEF x, Completed, m1
<1>6. CASE m.op[o].kind = "read"
  <2>1. Completed(m, o, ok) = ReadEnded(Noticed(m, o, ok), o) /\ ~Retires(m, o, ok)
    BY <1>5, <1>6
  <2> QED BY <1>6, <2>1, MemReadEnds
<1>7. CASE m.op[o].kind = "drop"
  <2>1. Completed(m, o, ok) = m1 /\ ~Retires(m, o, ok)
    <3>1. ReadEnded(m1, o) = m1
      BY <1>2, <1>7 DEF ReadEnded
    <3> QED BY <1>5, <1>7, <3>1
  <2>2. Mem(m1, list, kept)
    BY <1>7, Noticing
  <2>3. Rest(m, Ops \ {o}) => Rest(m1, Ops)
    <3>1. (\A p \in Ops : p # o => m1.op[p] = m.op[p]) /\ m1.resp = m.resp /\ m1.retained = m.retained
      BY <1>1 DEF NoticedTo
    <3> QED BY <1>2, <3>1, RestTold
  <2> QED BY <2>1, <2>2, <2>3
<1>8. m.op[o].kind \in Kinds
  BY DEF Mem, OpRecords
<1> QED BY <1>3, <1>4, <1>6, <1>7, <1>8 DEF Kinds, Business, Creates

\* owner_main retires the instances still live, once nothing is under way.
LEMMA MemAbandoned ==
  ASSUME NEW m, NEW list, NEW kept, Mem(m, list, kept), Rest(m, Ops),
         \A o \in Ops : m.op[o].stage \notin Pending
  PROVE  LET m2 == Abandoned(m, list)
         IN Mem(m2, {}, kept) /\ Rest(m2, Ops) /\ m2.op = m.op
<1> DEFINE m2 == Abandoned(m, list)
           hi == InHand(list, kept)
           hj == InHand({}, kept)
           hr == InHandResp(kept)
<1>0. IsHeap(m) /\ m.op \in [Ops -> OpRecords] /\ Books(m, m.op, hi, hr) /\ hi \in [Insts -> Nat]
      /\ hr \in [Resps -> Nat] /\ m.inst \in [Insts -> InstRecords] /\ hj \in [Insts -> Nat]
  BY HandNat DEF Mem, Books
<1>1. \A i \in Insts : hi[i] = hj[i] + One(i \in list)
  BY DEF InHand, One
<1> HIDE DEF hi, hj, hr
<1>2. Books(m2, m.op, hj, hr)
  BY <1>0, <1>1, AbandonedBooks
<1>3. /\ IsHeap(m2) /\ m2.op = m.op /\ m2.resp = m.resp /\ m2.chunk = m.chunk
      /\ m2.retained = m.retained /\ m2.inst = [i \in Insts |-> m2.inst[i]]
      /\ \A i \in Insts : m2.inst[i] = IF i \in list THEN Ended(m.inst[i]) ELSE m.inst[i]
  BY <1>0, AbandonedIs
<1> HIDE DEF m2
<1>4. ASSUME NEW i \in Insts, m2.inst[i].refs # 0
      PROVE  m2.inst[i].closed /\ m2.inst[i].closing
  <2>1. CASE i \in list
    <3>1. m.inst[i].refs # 0 /\ m.inst[i] \in InstRecords
      BY <1>0, <2>1, InstThere
    <3>2. m2.inst[i] = Ended(m.inst[i])
      BY <1>3, <2>1
    <3>3. Ended(m.inst[i]) # NoInst
      BY <1>4, <3>2 DEF NoInst
    <3> QED BY <3>1, <3>2, <3>3, EndedIs
  <2>2. CASE i \notin list
    <3>1. m2.inst[i] = m.inst[i]
      BY <1>3, <2>2
    <3> QED BY <1>4, <2>2, <3>1 DEF Mem, Lives
  <2> QED BY <2>1, <2>2
<1>5. Lives(m2, {})
  BY <1>3, <1>4 DEF Lives
<1>6. Closes(m2)
  <2> SUFFICES ASSUME NEW p \in Ops, m.op[p].kind = "close" PROVE m2.inst[m.op[p].inst].closing
    BY <1>3 DEF Closes
  <2>1. m.op[p] # NoOp
    BY NoOpFacts DEF NoOpIs
  <2>2. m.op[p].inst \in Insts
    BY <1>0, <2>1 DEF Mem, Tidy, Shape
  <2>3. m2.inst[m.op[p].inst].refs # 0
    BY <1>0, <1>2, <2>2, InstRefd
  <2> QED BY <1>4, <2>2, <2>3
<1>7. Tidy(m2.op, kept) /\ ChunksHeld(m2, kept) /\ Reads(m2) /\ \A c \in Chunks : ChunkShape(m2.chunk[c])
  BY <1>3 DEF Mem, ChunksHeld, Reads
<1>8. Books(m2, m2.op, InHand({}, kept), InHandResp(kept)) /\ m2.op \in [Ops -> OpRecords]
  BY <1>0, <1>2, <1>3 DEF hj, hr
<1>9. Mem(m2, {}, kept)
  BY <1>3, <1>5, <1>6, <1>7, <1>8 DEF Mem
<1>10. Rest(m2, Ops)
  BY <1>3 DEF Rest, Idles, Bound
<1> QED BY <1>3, <1>9, <1>10 DEF m2
-----------------------------------------------------------------------------
(* Chunks given back and responses made                                     *)

\* The host gives back a chunk: first its bytes and its record,
LEMMA ChunkGoes ==
  ASSUME NEW m, NEW list, NEW kept, Mem(m, list, kept), NEW c \in Chunks, c \in kept
  PROVE  LET i == m.chunk[c].inst
             r == m.chunk[c].resp
             m1 == [uncharge(m, i, ChunkCost) EXCEPT !.resp[r].chunks = @ - 1, !.chunk[c] = NoChunk]
         IN /\ i \in Insts /\ r \in Resps /\ IsHeap(m1) /\ m1.op = m.op
            /\ m1.chunk = [m.chunk EXCEPT ![c] = NoChunk]
            /\ Books(m1, m.op, [InHand(list, kept) EXCEPT ![i] = @ + 1], [InHandResp(kept) EXCEPT ![r] = @ + 1])
            /\ \A j \in Insts : /\ m1.inst[j].refs = m.inst[j].refs /\ m1.inst[j].closing = m.inst[j].closing
                                /\ m1.inst[j].closed = m.inst[j].closed
            /\ \A t \in Resps : /\ m1.resp[t].reading = m.resp[t].reading /\ m1.resp[t].chunks <= m.resp[t].chunks
                                /\ m1.resp[t].pos = m.resp[t].pos /\ m1.resp[t].sent = m.resp[t].sent
            /\ m1.retained <= m.retained
<1> DEFINE i == m.chunk[c].inst
           r == m.chunk[c].resp
           u == uncharge(m, i, ChunkCost)
           m1 == [u EXCEPT !.resp[r].chunks = @ - 1, !.chunk[c] = NoChunk]
           hi == InHand(list, kept)
           hr == InHandResp(kept)
           q == [m.inst[i] EXCEPT !.charged = m.inst[i].charged - ChunkCost]
           s == [m.resp[r] EXCEPT !.chunks = m.resp[r].chunks - 1]
<1>0. IsHeap(m) /\ m.op \in [Ops -> OpRecords] /\ Books(m, m.op, hi, hr) /\ hi \in [Insts -> Nat]
      /\ hr \in [Resps -> Nat] /\ m.inst \in [Insts -> InstRecords] /\ m.resp \in [Resps -> RespRecords]
      /\ m.chunk \in [Chunks -> ChunkRecords] /\ ChunkCost \in Nat /\ m.retained \in Nat
  BY HandNat, RetainedNat, BridgeAssumption DEF Mem, Books
<1>1. i \in Insts /\ r \in Resps
  BY DEF Mem, ChunksHeld, ChunkShape
<1> HIDE DEF hi, hr
<1>2. /\ m.inst[i].refs # 0 /\ m.inst[i] \in InstRecords /\ m.inst[i].refs \in Nat
      /\ m.resp[r].refs # 0 /\ m.resp[r] \in RespRecords /\ m.resp[r].refs \in Nat
      /\ m.resp[r].chunks \in Nat /\ m.resp[r].chunks # 0 /\ m.resp[r].inst \in Insts
  <2>1. m.inst[i].refs # 0
    BY <1>0, <1>1, InstRefd
  <2>2. m.resp[r].refs # 0 /\ m.resp[r].chunks # 0 /\ m.resp[r].inst \in Insts
    BY <1>0, <1>1, RespHeld
  <2>3. m.inst[i] \in InstRecords /\ m.resp[r] \in RespRecords
    BY <1>0, <1>1
  <2> QED BY <2>1, <2>2, <2>3 DEF InstRecords, RespRecords
<1>3. m.inst[i].charged - ChunkCost \in Nat /\ m.inst[i].charged \in Nat
  <2>1. ChunkMoved(m.chunk, m.chunk, c, i)
    BY ChunkChange
  <2>2. ChunkCost <= ChunkBytes(m.chunk, i) /\ ChunkBytes(m.chunk, i) \in Nat
    BY <2>1 DEF ChunkMoved
  <2>3. m.inst[i].charged = OpBytes(m.op, i) + RespBytes(m.resp, i) + ChunkBytes(m.chunk, i)
    BY <1>0, <1>1 DEF Books, InstBook
  <2>4. OpBytes(m.op, i) \in Nat /\ RespBytes(m.resp, i) \in Nat
    BY <1>0, OpSumsNat, SumsNat
  <2> QED BY <1>0, <2>2, <2>3, <2>4
<1>4. /\ IsHeap(m1) /\ m1.op = m.op /\ m1.inst = [m.inst EXCEPT ![i] = q] /\ m1.resp = [m.resp EXCEPT ![r] = s]
      /\ m1.chunk = [m.chunk EXCEPT ![c] = NoChunk] /\ m1.retained = m.retained - ChunkCost
  <2>1. /\ IsHeap(u) /\ u.inst = [m.inst EXCEPT ![i] = q]
        /\ u.op = m.op /\ u.resp = m.resp /\ u.chunk = m.chunk /\ u.retained = m.retained - ChunkCost
    BY <1>0, <1>1, UnchargeIs
  <2> HIDE DEF u, q
  <2>2. /\ IsHeap(m1) /\ m1.op = u.op /\ m1.inst = u.inst /\ m1.resp = [u.resp EXCEPT ![r].chunks = @ - 1]
        /\ m1.chunk = [u.chunk EXCEPT ![c] = NoChunk] /\ m1.retained = u.retained
    BY <2>1 DEF IsHeap
  <2> QED BY <1>0, <1>1, <2>1, <2>2
<1>5. /\ q \in InstRecords /\ q.refs = m.inst[i].refs /\ q.active = m.inst[i].active
      /\ q.notifications = m.inst[i].notifications /\ q.responses = m.inst[i].responses
      /\ q.charged = m.inst[i].charged - ChunkCost /\ q.closing = m.inst[i].closing
      /\ q.closed = m.inst[i].closed
  BY <1>2, <1>3, ChargedIs
<1>6. /\ s \in RespRecords /\ s.refs = m.resp[r].refs /\ s.inst = m.resp[r].inst /\ s.charge = m.resp[r].charge
      /\ s.chunks = m.resp[r].chunks - 1 /\ s.reading = m.resp[r].reading /\ s.pos = m.resp[r].pos
      /\ s.sent = m.resp[r].sent
  <2> DEFINE n == m.resp[r].chunks - 1
             l == [m.resp[r] EXCEPT !.chunks = n]
  <2>1. n \in Nat
    BY <1>2
  <2> HIDE DEF n
  <2>2. /\ l \in RespRecords /\ l.refs = m.resp[r].refs /\ l.inst = m.resp[r].inst /\ l.charge = m.resp[r].charge
        /\ l.chunks = n /\ l.reading = m.resp[r].reading /\ l.pos = m.resp[r].pos
        /\ l.sent = m.resp[r].sent
    BY <1>2, <2>1 DEF RespRecords
  <2> QED BY <2>2 DEF n
<1> HIDE DEF m1, q, s
<1> DEFINE hb == hi[i] + 1
           hd == hr[r] + 1
<1>7. hb \in Nat /\ hd \in Nat /\ hi[i] \in Nat /\ hr[r] \in Nat
  BY <1>0, <1>1
<1>8. ChunkAt(m, m1, c, NoChunk, hi, hb, hr, hd, i, q, r, s)
  <2>1. NoChunk \in ChunkRecords /\ NoChunk.inst = None /\ NoChunk.resp = None
    BY DEF NoChunk, ChunkRecords
  <2>2. {m.chunk[c].inst, NoChunk.inst} \cap Insts \subseteq {i} /\ {m.chunk[c].resp, NoChunk.resp} \cap Resps \subseteq {r}
    BY <2>1, NoOpFacts DEF NoOpIs
  <2>3. m1.retained \in Int /\ q.charged + m.retained = m.inst[i].charged + m1.retained
    BY <1>0, <1>3, <1>4, <1>5
  <2>4. One(m.chunk[c].inst = i) = 1 /\ One(NoChunk.inst = i) = 0 /\ One(m.chunk[c].resp = r) = 1
        /\ One(NoChunk.resp = r) = 0 /\ ChunkBy(m.chunk[c], i) = ChunkCost /\ ChunkBy(NoChunk, i) = 0
    BY <1>1, <2>1, NoOpFacts DEF NoOpIs, One, ChunkBy
  <2>5. q.refs + One(m.chunk[c].inst = i) + hi[i] = m.inst[i].refs + One(NoChunk.inst = i) + hb
    BY <1>2, <1>5, <1>7, <2>4
  <2>6. q.charged + ChunkBy(m.chunk[c], i) = m.inst[i].charged + ChunkBy(NoChunk, i)
    BY <1>0, <1>3, <1>5, <2>4
  <2>7. s.refs + One(m.chunk[c].resp = r) + hr[r] = m.resp[r].refs + One(NoChunk.resp = r) + hd
    BY <1>2, <1>6, <1>7, <2>4
  <2>8. s.chunks + One(m.chunk[c].resp = r) = m.resp[r].chunks + One(NoChunk.resp = r)
    BY <1>2, <1>6, <2>4
  <2> HIDE DEF hb, hd
  <2>9. q.refs # 0 /\ s.refs # 0 /\ s.inst \in Insts
    BY <1>2, <1>5, <1>6
  <2> QED BY <1>4, <1>5, <1>6, <1>7, <2>1, <2>2, <2>3, <2>5, <2>6, <2>7, <2>8, <2>9, Zenon DEF ChunkAt
<1>9. Books(m1, m.op, [hi EXCEPT ![i] = hb], [hr EXCEPT ![r] = hd])
  <2> HIDE DEF hb, hd, i, r
  <2> QED BY <1>0, <1>1, <1>8, BooksChunk
<1>10. Books(m1, m.op, [hi EXCEPT ![i] = @ + 1], [hr EXCEPT ![r] = @ + 1])
  BY <1>0, <1>1, <1>9
<1>11. \A j \in Insts : /\ m1.inst[j].refs = m.inst[j].refs /\ m1.inst[j].closing = m.inst[j].closing
                        /\ m1.inst[j].closed = m.inst[j].closed
  <2>1. m1.inst[i] = q /\ \A j \in Insts : j # i => m1.inst[j] = m.inst[j]
    BY <1>0, <1>1, <1>4
  <2> QED BY <1>5, <2>1
<1>12. \A t \in Resps : /\ m1.resp[t].reading = m.resp[t].reading /\ m1.resp[t].chunks <= m.resp[t].chunks
                        /\ m1.resp[t].pos = m.resp[t].pos /\ m1.resp[t].sent = m.resp[t].sent
  <2>1. m1.resp[r] = s /\ \A t \in Resps : t # r => m1.resp[t] = m.resp[t]
    BY <1>0, <1>1, <1>4
  <2>2. s.chunks <= m.resp[r].chunks
    BY <1>2, <1>6
  <2>3. \A t \in Resps : m.resp[t].chunks \in Nat
    BY <1>0 DEF RespRecords
  <2> QED BY <1>6, <2>1, <2>2, <2>3
<1>13. m1.retained <= m.retained
  BY <1>0, <1>4
<1> QED BY <1>1, <1>4, <1>10, <1>11, <1>12, <1>13, Zenon DEF m1, u, hi, hr

\* then the references the chunk had to its response and to its instance.
LEMMA MemChunkRelease ==
  ASSUME NEW m, NEW list, NEW kept, Mem(m, list, kept), Rest(m, Ops), NEW c \in Chunks, c \in kept
  PROVE  LET i == m.chunk[c].inst
             r == m.chunk[c].resp
             m1 == [uncharge(m, i, ChunkCost) EXCEPT !.resp[r].chunks = @ - 1, !.chunk[c] = NoChunk]
             m3 == instance_drop(response_drop(m1, r), i)
         IN Mem(m3, list, kept \ {c}) /\ Rest(m3, Ops) /\ m3.op = m.op
<1> DEFINE i == m.chunk[c].inst
           r == m.chunk[c].resp
           m1 == [uncharge(m, i, ChunkCost) EXCEPT !.resp[r].chunks = @ - 1, !.chunk[c] = NoChunk]
           m2 == response_drop(m1, r)
           m3 == instance_drop(m2, i)
           hi == InHand(list, kept)
           hr == InHandResp(kept)
           hi1 == [hi EXCEPT ![i] = @ + 1]
           hr1 == [hr EXCEPT ![r] = @ + 1]
           kept2 == kept \ {c}
<1>0. IsHeap(m) /\ m.op \in [Ops -> OpRecords] /\ Books(m, m.op, hi, hr) /\ hi \in [Insts -> Nat]
      /\ hr \in [Resps -> Nat] /\ m.resp \in [Resps -> RespRecords]
  BY HandNat DEF Mem, Books
<1>1. /\ i \in Insts /\ r \in Resps /\ IsHeap(m1) /\ m1.op = m.op
      /\ m1.chunk = [m.chunk EXCEPT ![c] = NoChunk]
      /\ Books(m1, m.op, hi1, hr1)
      /\ \A j \in Insts : /\ m1.inst[j].refs = m.inst[j].refs /\ m1.inst[j].closing = m.inst[j].closing
                          /\ m1.inst[j].closed = m.inst[j].closed
      /\ \A t \in Resps : /\ m1.resp[t].reading = m.resp[t].reading /\ m1.resp[t].chunks <= m.resp[t].chunks
                          /\ m1.resp[t].pos = m.resp[t].pos /\ m1.resp[t].sent = m.resp[t].sent
      /\ m1.retained <= m.retained
  BY ChunkGoes, Zenon
<1> HIDE DEF m1
<1>2. /\ \A j \in Insts : /\ m1.inst[j].refs = m.inst[j].refs /\ m1.inst[j].closing = m.inst[j].closing
                          /\ m1.inst[j].closed = m.inst[j].closed
      /\ \A t \in Resps : /\ m1.resp[t].reading = m.resp[t].reading /\ m1.resp[t].chunks <= m.resp[t].chunks
                          /\ m1.resp[t].pos = m.resp[t].pos /\ m1.resp[t].sent = m.resp[t].sent
      /\ m1.retained <= m.retained
  BY <1>1
<1>3. InHand(list, kept2) = hi /\ InHandResp(kept2) = hr
  <2>1. (\A j \in Insts : j \in kept2 <=> j \in kept) /\ \A s \in Resps : s \in kept2 <=> s \in kept
    BY BridgeAssumption
  <2>2. InHand(list, kept2) = hi
    BY <2>1 DEF InHand
  <2>3. InHandResp(kept2) = hr
    BY <2>1 DEF InHandResp
  <2> QED BY <2>2, <2>3
<1> HIDE DEF hi, hr
<1>4. /\ hi1 \in [Insts -> Nat] /\ hi1[i] > 0 /\ [hi1 EXCEPT ![i] = @ - 1] = hi
      /\ hr1 \in [Resps -> Nat] /\ hr1[r] > 0 /\ [hr1 EXCEPT ![r] = @ - 1] = hr
  BY <1>0, <1>1, MoreLess
<1> HIDE DEF hi1, hr1, i, r
<1>5. Books(m2, m.op, hi1, hr) /\ Fades(m2, m1)
  <2>1. Books(m2, m.op, hi1, [hr1 EXCEPT ![r] = @ - 1])
    BY <1>0, <1>1, <1>4, RespDropBooks
  <2>2. Fades(m2, m1)
    BY <1>0, <1>1, <1>4, RespDropFades
  <2> QED BY <1>4, <2>1, <2>2
<1>6. IsHeap(m2) /\ m2.op = m.op /\ m2.chunk = m1.chunk
  <2>1. m1.inst \in [Insts -> InstRecords]
    BY <1>1 DEF Books
  <2>2. m1.resp[r].refs = 1 => m1.resp[r].inst \in Insts
    <3>1. /\ r \in Resps /\ m.op \in [Ops -> OpRecords] /\ hr1 \in [Resps -> Nat] /\ Books(m1, m.op, hi1, hr1)
      BY <1>0, <1>1, <1>4
    <3>2. m1.resp[r].refs # 0 => m1.resp[r].inst \in Insts
      BY <3>1, RespHeld
    <3> QED BY <3>2
  <2> QED BY <1>1, <2>1, <2>2, RespDropFrame
<1> HIDE DEF m2
<1>7. Books(m3, m.op, hi, hr) /\ Fades(m3, m2)
  <2>1. Books(m3, m.op, [hi1 EXCEPT ![i] = @ - 1], hr)
    BY <1>0, <1>1, <1>4, <1>5, <1>6, InstDropBooks
  <2>2. Fades(m3, m2)
    BY <1>0, <1>1, <1>4, <1>5, <1>6, InstDropFades
  <2> QED BY <1>4, <2>1, <2>2
<1>8. IsHeap(m3) /\ m3.op = m.op /\ m3.chunk = m1.chunk
  BY <1>6, InstDropIs
<1> HIDE DEF m3
<1>9. Fades(m3, m1)
  <2>1. m1.retained \in Nat /\ m2.retained \in Nat /\ m3.retained \in Nat
    BY <1>1, <1>5, <1>7, RetainedNat
  <2> QED BY <1>5, <1>7, <2>1, FadesTwice
<1>10. Tidy(m3.op, kept2)
  BY <1>8, TidyLess DEF Mem
<1>11. Closes(m1) /\ Lives(m1, list)
  <2>1. Closes(m1)
    <3> SUFFICES ASSUME NEW p \in Ops, m.op[p].kind = "close" PROVE m1.inst[m.op[p].inst].closing
      BY <1>1 DEF Closes
    <3>1. m.op[p] # NoOp /\ m.inst[m.op[p].inst].closing
      BY NoOpFacts DEF NoOpIs, Mem, Closes
    <3>2. m.op[p].inst \in Insts
      BY <1>0, <3>1 DEF Mem, Tidy, Shape
    <3> QED BY <1>2, <3>1, <3>2
  <2>2. Lives(m1, list)
    BY <1>1, <1>2 DEF Mem, Lives
  <2> QED BY <2>1, <2>2
<1>12. ChunksHeld(m1, kept2)
  <2> SUFFICES ASSUME NEW d \in Chunks
               PROVE  m1.chunk[d] # NoChunk <=> (d \in kept2 \/ \E o \in Ops : m1.op[o].event = d)
    BY DEF ChunksHeld
  <2>0. m.chunk \in [Chunks -> ChunkRecords]
    BY <1>0 DEF Books
  <2>1. CASE d = c
    <3>1. m1.chunk[d] = NoChunk
      BY <1>1, <2>0, <2>1
    <3>2. \A o \in Ops : m.op[o].event # c
      BY DEF Mem, Tidy, Events
    <3> QED BY <1>1, <2>1, <3>1, <3>2
  <2>2. CASE d # c
    <3>1. m1.chunk[d] = m.chunk[d]
      BY <1>1, <2>0, <2>2
    <3> QED BY <1>1, <2>2, <3>1 DEF Mem, ChunksHeld
  <2> QED BY <2>1, <2>2
<1>13. Reads(m1)
  <2>1. \A t \in Resps : m.resp[t].chunks \in Nat /\ m1.resp[t].chunks \in Nat
    BY <1>0, <1>1 DEF Books, RespRecords
  <2> QED BY <1>1, <1>2, <2>1 DEF Mem, Reads
<1>14. Closes(m3) /\ Lives(m3, list) /\ ChunksHeld(m3, kept2) /\ Reads(m3)
  <2>1. \A p \in Ops : Shape(m3.op[p]) /\ OpFades(m3.op[p], m1.op[p])
    BY <1>1, <1>8 DEF OpFades, Mem, Tidy
  <2>2. \A d \in Chunks : d \in kept2 <=> d \in kept2
    OBVIOUS
  <2>3. Books(m3, m3.op, hi, hr) /\ m3.op \in [Ops -> OpRecords]
    BY <1>0, <1>7, <1>8
  <2> HIDE DEF kept2
  <2> QED BY <1>0, <1>8, <1>9, <1>11, <1>12, <1>13, <2>1, <2>2, <2>3, RestFades
<1>15. Books(m3, m3.op, InHand(list, kept2), InHandResp(kept2)) /\ m3.op \in [Ops -> OpRecords]
  BY <1>0, <1>3, <1>7, <1>8
<1>16. \A d \in Chunks : ChunkShape(m3.chunk[d])
  <2>0. m.chunk \in [Chunks -> ChunkRecords]
    BY <1>0 DEF Books
  <2>1. \A d \in Chunks : m3.chunk[d] \in {NoChunk, m.chunk[d]}
    BY <1>1, <1>8, <2>0
  <2> QED BY <2>1 DEF Mem, ChunkShape
<1>17. Mem(m3, list, kept2)
  <2> HIDE DEF kept2
  <2> QED BY <1>8, <1>10, <1>14, <1>15, <1>16 DEF Mem
<1>18. \A t \in Resps : m3.resp[t] \in RespRecords /\ m.resp[t] \in RespRecords /\ m1.resp[t] \in RespRecords
  BY <1>0, <1>1, <1>7 DEF Books
<1>19. Bound(m3)
  <2>1. m3.retained <= Total
    <3>1. m.retained \in Nat /\ m1.retained \in Nat /\ m3.retained \in Nat /\ Total \in Nat
      BY <1>0, <1>1, <1>7, RetainedNat, BridgeAssumption
    <3>2. m3.retained <= m1.retained /\ m1.retained <= m.retained /\ m.retained <= Total
      BY <1>2, <1>9 DEF Fades, Rest, Bound
    <3> QED BY <3>1, <3>2
  <2>2. ASSUME NEW t \in Resps PROVE m3.resp[t].sent <= m3.resp[t].pos
    <3>1. CASE m3.resp[t].refs = 0
      <4>1. m3.resp[t] = NoResp
        BY <1>7, <3>1 DEF Books, RespBook
      <4> QED BY <4>1 DEF NoResp
    <3>2. CASE m3.resp[t].refs # 0
      BY <1>2, <1>9, <3>2 DEF Fades, Rest, Bound
    <3> QED BY <3>1, <3>2
  <2> QED BY <2>1, <2>2 DEF Bound
<1>20. Idles(m3, Ops)
  <2> SUFFICES ASSUME NEW p \in Ops, m.op[p].stage = "running", m.op[p].kind = "read"
               PROVE  m3.resp[m.op[p].resp].chunks = 0
    BY <1>8 DEF Rest, Idles
  <2>1. m.op[p] # NoOp /\ m.resp[m.op[p].resp].chunks = 0
    BY NoOpFacts DEF NoOpIs, Rest, Idles
  <2>2. m.op[p].resp \in Resps
    BY <1>0, <2>1 DEF Mem, Tidy, Shape
  <2>3. m3.resp[m.op[p].resp].refs # 0
    BY <1>0, <1>7, <2>2, RespHeld
  <2>4. m3.resp[m.op[p].resp].chunks <= 0 /\ m3.resp[m.op[p].resp].chunks \in Nat
    BY <1>2, <1>9, <1>18, <2>1, <2>2, <2>3 DEF Fades, RespRecords
  <2> QED BY <2>4
<1> QED BY <1>8, <1>17, <1>19, <1>20, Zenon DEF Rest, m1, m2, m3, i, r

\* hs_bridge_response: a response of n bytes, in the event of operation o.
MoreResp(k, n) == [k EXCEPT !.refs = @ + 1, !.responses = @ + 1, !.charged = @ + n]

\* The fields of an instance with one response more.
LEMMA MoreRespIs ==
  ASSUME NEW k \in InstRecords, NEW n \in Nat
  PROVE  LET q == MoreResp(k, n)
         IN /\ q \in InstRecords /\ q.refs = k.refs + 1 /\ q.active = k.active
            /\ q.notifications = k.notifications /\ q.responses = k.responses + 1
            /\ q.charged = k.charged + n /\ q.closing = k.closing /\ q.closed = k.closed
<1> DEFINE a == k.refs + 1
           b == k.responses + 1
           c == k.charged + n
           q == [k EXCEPT !.refs = a, !.responses = b, !.charged = c]
<1>1. a \in Nat /\ b \in Nat /\ c \in Nat
  BY InstNat
<1>2. MoreResp(k, n) = q
  BY DEF MoreResp, InstRecords
<1> HIDE DEF a, b, c
<1>3. /\ q \in InstRecords /\ q.refs = a /\ q.active = k.active
      /\ q.notifications = k.notifications /\ q.responses = b
      /\ q.charged = c /\ q.closing = k.closing /\ q.closed = k.closed
  BY <1>1 DEF InstRecords
<1> QED BY <1>2, <1>3 DEF a, b, c

\* The fields of a response just made.
LEMMA NewRespIs ==
  ASSUME NEW i \in Insts, NEW n \in Nat
  PROVE  LET l == NewResp(i, n)
         IN /\ l \in RespRecords /\ l.refs = 1 /\ l.inst = i /\ l.charge = n /\ ~l.reading
            /\ l.chunks = 0 /\ l.pos = 0 /\ l.sent = 0
            /\ NoResp.inst = None /\ NoResp.charge = 0 /\ NoResp.refs = 0 /\ NoResp.chunks = 0
            /\ ~NoResp.reading
<1>1. BodyLen \in Nat
  BY BridgeAssumption
<1> DEFINE l == [NoResp EXCEPT !.refs = 1, !.inst = i, !.charge = n, !.listed = TRUE]
<1>2. /\ NoResp \in RespRecords /\ NoResp.inst = None /\ NoResp.charge = 0 /\ NoResp.refs = 0
      /\ NoResp.chunks = 0 /\ NoResp.reading = FALSE /\ NoResp.pos = 0 /\ NoResp.sent = 0
  BY <1>1 DEF NoResp, RespRecords
<1>3. /\ l \in RespRecords /\ l.refs = 1 /\ l.inst = i /\ l.charge = n /\ l.reading = NoResp.reading
      /\ l.chunks = NoResp.chunks /\ l.pos = NoResp.pos /\ l.sent = NoResp.sent
  BY <1>2 DEF RespRecords
<1> QED BY <1>2, <1>3 DEF NewResp

\* What hs_bridge_response changes.
MadeDoes(m, m2, i, r, n, o) ==
  /\ IsHeap(m2) /\ m2.inst = [m.inst EXCEPT ![i] = MoreResp(m.inst[i], n)]
  /\ m2.resp = [m.resp EXCEPT ![r] = NewResp(i, n)] /\ m2.op = [m.op EXCEPT ![o].event = r]
  /\ m2.chunk = m.chunk /\ m2.retained = m.retained + n
\* response_made does that.
LEMMA MadeIs ==
  ASSUME NEW m, IsHeap(m), m.inst \in [Insts -> InstRecords], NEW i \in Insts, NEW r, NEW n \in Nat, NEW o
  PROVE  MadeDoes(m, response_made(m, i, r, n, o), i, r, n, o)
<1> DEFINE m1 == charge(m, i, n)
           m2 == response_made(m, i, r, n, o)
           f == [m.inst EXCEPT ![i].charged = @ + n]
<1>1. /\ IsHeap(m1) /\ m1.inst = f /\ m1.op = m.op
      /\ m1.resp = m.resp /\ m1.chunk = m.chunk /\ m1.retained = m.retained + n
  BY DEF IsHeap, charge
<1>2. /\ IsHeap(m2) /\ m2.inst = [m1.inst EXCEPT ![i] = WithResp(@)]
      /\ m2.resp = [m1.resp EXCEPT ![r] = NewResp(i, n)] /\ m2.op = [m1.op EXCEPT ![o].event = r]
      /\ m2.chunk = m1.chunk /\ m2.retained = m1.retained
  <2> HIDE DEF m1
  <2>1. m2 = [m1 EXCEPT !.resp[r] = NewResp(i, n),
                        !.inst[i] = WithResp(@), !.op[o].event = r]
    BY DEF response_made, m1
  <2> QED BY <1>1, <2>1 DEF IsHeap
<1> HIDE DEF m1, m2
<1>3. [f EXCEPT ![i] = WithResp(@)] = [m.inst EXCEPT ![i] = MoreResp(m.inst[i], n)]
  <2> DEFINE k == m.inst[i]
             x == [k EXCEPT !.charged = @ + n]
             y == WithResp(x)
  <2>1. k \in InstRecords
    OBVIOUS
  <2>2. y = MoreResp(k, n)
    BY <2>1 DEF MoreResp, WithResp, InstRecords
  <2>3. f = [m.inst EXCEPT ![i] = x]
    OBVIOUS
  <2> HIDE DEF x
  <2>4. [f EXCEPT ![i] = WithResp(@)] = [m.inst EXCEPT ![i] = y]
    <3>1. f \in [Insts -> {f[j] : j \in Insts}] /\ f[i] = x
      BY <2>3
    <3> HIDE DEF f
    <3>2. [f EXCEPT ![i] = WithResp(@)] = [f EXCEPT ![i] = y]
      BY <3>1
    <3> HIDE DEF y
    <3> QED BY <2>3, <3>2
  <2> QED BY <2>2, <2>4
<1> QED BY <1>1, <1>2, <1>3 DEF m2, MadeDoes

\* The books with a new response: it is charged and counted, and one reference to it is in the event.
LEMMA MadeBooks ==
  ASSUME NEW m, NEW list, NEW kept, Mem(m, list, kept), NEW o \in Ops, m.op[o].kind = "submit",
         m.op[o].event = None, NEW r \in Resps, m.resp[r].refs = 0, NEW n \in Nat
  PROVE  LET i == m.op[o].inst
             m2 == response_made(m, i, r, n, o)
         IN /\ Books(m2, m2.op, InHand(list, kept), InHandResp(kept)) /\ i \in Insts
            /\ m.inst[i].refs # 0 /\ m.resp[r] = NoResp
<1> DEFINE i == m.op[o].inst
           old == m.op[o]
           k == [m.op[o] EXCEPT !.event = r]
           m2 == response_made(m, i, r, n, o)
           hi == InHand(list, kept)
           hr == InHandResp(kept)
           hr1 == [hr EXCEPT ![r] = @ + 1]
           q == MoreResp(m.inst[i], n)
           l == NewResp(i, n)
<1>0. IsHeap(m) /\ m.op \in [Ops -> OpRecords] /\ Books(m, m.op, hi, hr) /\ hi \in [Insts -> Nat]
      /\ hr \in [Resps -> Nat] /\ m.inst \in [Insts -> InstRecords] /\ Shape(old) /\ old \in OpRecords
      /\ m.resp \in [Resps -> RespRecords] /\ m.retained \in Nat
  BY HandNat, RetainedNat DEF Mem, Books, Tidy
<1>1. i \in Insts /\ m.inst[i].refs # 0 /\ m.inst[i] \in InstRecords /\ m.resp[r] = NoResp
      /\ r \notin Insts
  <2>1. old # NoOp
    BY NoOpFacts DEF NoOpIs
  <2>2. i \in Insts
    BY <1>0, <2>1 DEF Shape
  <2>3. m.inst[i].refs # 0 /\ m.inst[i] \in InstRecords
    BY <1>0, <2>2, InstThere
  <2>4. m.resp[r] = NoResp
    BY <1>0 DEF Books, RespBook
  <2> QED BY <2>2, <2>3, <2>4, BridgeAssumption
<1>2. /\ IsHeap(m2) /\ m2.inst = [m.inst EXCEPT ![i] = q] /\ m2.resp = [m.resp EXCEPT ![r] = l]
      /\ m2.op = [m.op EXCEPT ![o].event = r] /\ m2.chunk = m.chunk /\ m2.retained = m.retained + n
  <2>1. IsHeap(m) /\ m.inst \in [Insts -> InstRecords] /\ i \in Insts
    BY <1>0, <1>1
  <2>2. MadeDoes(m, m2, i, r, n, o)
    BY <2>1, MadeIs
  <2> QED BY <2>2 DEF MadeDoes
<1>3. /\ q \in InstRecords /\ q.refs = m.inst[i].refs + 1 /\ q.active = m.inst[i].active
      /\ q.notifications = m.inst[i].notifications /\ q.responses = m.inst[i].responses + 1
      /\ q.charged = m.inst[i].charged + n
  BY <1>1, MoreRespIs
<1>4. /\ l \in RespRecords /\ l.refs = 1 /\ l.inst = i /\ l.charge = n /\ l.chunks = 0
      /\ NoResp.inst = None /\ NoResp.charge = 0 /\ NoResp.refs = 0 /\ NoResp.chunks = 0
  BY <1>1, NewRespIs
<1>5. /\ k \in OpRecords /\ k.refs = old.refs /\ k.kind = old.kind /\ k.stage = old.stage /\ k.inst = i
      /\ k.resp = old.resp /\ k.charge = old.charge /\ k.event = r /\ m2.op = [m.op EXCEPT ![o] = k]
  BY <1>0, <1>2 DEF OpRecords
<1>6. m.inst[i].refs \in Nat /\ m.inst[i].responses \in Nat /\ m.inst[i].charged \in Nat
  BY <1>1, InstNat
<1>7. hr1 \in [Resps -> Nat] /\ hr1[r] = hr[r] + 1 /\ hr[r] \in Nat /\ \A s \in Resps : s # r => hr1[s] = hr[s]
  BY <1>0
<1> HIDE DEF hi, hr, hr1, k, q, l, m2
<1>8. /\ m2.inst \in [Insts -> InstRecords] /\ m2.inst[i] = q /\ (\A j \in Insts : j # i => m2.inst[j] = m.inst[j])
      /\ m2.resp \in [Resps -> RespRecords] /\ m2.resp[r] = l /\ \A s \in Resps : s # r => m2.resp[s] = m.resp[s]
  BY <1>0, <1>1, <1>2, <1>3, <1>4
<1>9. Books(m2, m.op, hi, hr1)
  <2>1. \A j \in Insts : RespBalanced(m.inst[j], m2.inst[j], m.resp[r], m2.resp[r], j, hi[j], hi[j])
    <3> SUFFICES ASSUME NEW j \in Insts
                 PROVE  RespBalanced(m.inst[j], m2.inst[j], m.resp[r], m2.resp[r], j, hi[j], hi[j])
      OBVIOUS
    <3>0. hi[j] \in Nat /\ None # j
      BY <1>0, NoOpFacts DEF NoOpIs
    <3>1. CASE j = i
      <4>1. One(m.resp[r].inst = i) = 0 /\ One(l.inst = i) = 1 /\ RespBy(m.resp[r], i) = 0 /\ RespBy(l, i) = n
        BY <1>1, <1>4, <3>0, <3>1 DEF One, RespBy
      <4>2. q.refs + One(m.resp[r].inst = i) + hi[i] = m.inst[i].refs + One(l.inst = i) + hi[i]
        BY <1>3, <1>6, <3>0, <3>1, <4>1
      <4>3. q.charged + RespBy(m.resp[r], i) = m.inst[i].charged + RespBy(l, i)
        BY <1>3, <1>6, <4>1
      <4>4. q.responses + One(m.resp[r].inst = i) = m.inst[i].responses + One(l.inst = i)
        BY <1>3, <1>6, <4>1
      <4>5. q.refs # 0
        BY <1>3, <1>6
      <4> QED BY <1>3, <1>8, <3>1, <4>2, <4>3, <4>4, <4>5 DEF RespBalanced
    <3>2. CASE j # i
      <4>1. One(m.resp[r].inst = j) = 0 /\ One(l.inst = j) = 0 /\ RespBy(m.resp[r], j) = 0 /\ RespBy(l, j) = 0
        BY <1>1, <1>4, <3>0, <3>2 DEF One, RespBy
      <4>2. m2.inst[j] = m.inst[j] /\ (m.inst[j].refs = 0 => m.inst[j] = NoInst)
        BY <1>0, <1>8, <3>2 DEF Books, InstBook
      <4> QED BY <1>8, <4>1, <4>2 DEF RespBalanced
    <3> QED BY <3>1, <3>2
  <2>2. m2.retained = ChargedIn(m2.inst)
    <3>1. m.retained = ChargedIn(m.inst)
      BY <1>0 DEF Books
    <3>2. m2.inst[i].charged + m.retained = m.inst[i].charged + m2.retained /\ m2.retained \in Int
      BY <1>0, <1>2, <1>3, <1>6, <1>8
    <3>3. /\ i \in Insts /\ m.inst \in [Insts -> InstRecords] /\ m2.inst \in [Insts -> InstRecords]
          /\ \A j \in Insts : j # i => m2.inst[j] = m.inst[j]
      BY <1>0, <1>1, <1>8
    <3> HIDE DEF i
    <3> QED BY <3>1, <3>2, <3>3, Recharged
  <2>3. m2.resp[r].refs + hr[r] = m.resp[r].refs + hr1[r] /\ m2.resp[r].chunks = m.resp[r].chunks
    BY <1>1, <1>4, <1>7, <1>8
  <2>4. (m2.resp[r].refs = 0 => m2.resp[r] = NoResp) /\ (m2.resp[r].refs # 0 => m2.resp[r].inst \in Insts)
    BY <1>1, <1>4, <1>8
  <2>5. \A s \in Resps : s # r => m2.resp[s] = m.resp[s] /\ hr1[s] = hr[s]
    BY <1>7, <1>8
  <2>6. m2.inst \in [Insts -> InstRecords] /\ m2.resp \in [Resps -> RespRecords] /\ m2.chunk = m.chunk
    BY <1>2, <1>8
  <2> QED BY <1>0, <1>7, <2>1, <2>2, <2>3, <2>4, <2>5, <2>6, BooksResp
<1>10. Eventful(m2, m2, m.op, o, k, hi, hi[i], hr1, hr, i, m2.inst[i])
  <2>1. m2.inst = [m2.inst EXCEPT ![i] = m2.inst[i]]
    BY <1>1, <1>8
  <2>2. One(old.event = i) = 0 /\ One(k.event = i) = 0
    BY <1>1, <1>5, NoOpFacts DEF NoOpIs, One
  <2>3. \A s \in Resps : One(k.event = s) + hr[s] = One(old.event = s) + hr1[s]
    <3> SUFFICES ASSUME NEW s \in Resps PROVE One(k.event = s) + hr[s] = One(old.event = s) + hr1[s]
      OBVIOUS
    <3>1. One(old.event = s) = 0 /\ hr[s] \in Nat
      BY <1>0, NoOpFacts DEF NoOpIs, One
    <3>2. CASE s = r
      BY <1>5, <1>7, <3>1, <3>2 DEF One
    <3>3. CASE s # r
      BY <1>5, <1>7, <3>1, <3>3 DEF One
    <3> QED BY <3>2, <3>3
  <2>4. {old.event, k.event} \cap Insts \subseteq {i}
    BY <1>1, <1>5, NoOpFacts DEF NoOpIs
  <2>5. SameOp(k, old) /\ k.stage = old.stage /\ hi[i] \in Nat
    BY <1>0, <1>1, <1>5 DEF SameOp
  <2>6. m2.inst[i].refs + One(old.event = i) + hi[i] = m2.inst[i].refs + One(k.event = i) + hi[i]
    BY <2>2
  <2>7. k \in OpRecords /\ hr \in [Resps -> Nat] /\ m2.inst[i] \in InstRecords /\ m2.inst[i].refs # 0
    BY <1>0, <1>3, <1>5, <1>6, <1>8
  <2> QED BY <2>1, <2>3, <2>4, <2>5, <2>6, <2>7 DEF Eventful
<1>11. Books(m2, m2.op, hi, hr)
  <2>1. Books(m2, [m.op EXCEPT ![o] = k], [hi EXCEPT ![i] = hi[i]], hr)
    BY <1>0, <1>1, <1>7, <1>9, <1>10, BooksEvent
  <2>2. [hi EXCEPT ![i] = hi[i]] = hi
    BY <1>0, <1>1
  <2> QED BY <1>5, <2>1, <2>2
<1> QED BY <1>1, <1>11 DEF m2, hi, hr

\* hs_bridge_response in a heap that is in order.
LEMMA MemMade ==
  ASSUME NEW m, NEW list, NEW kept, Mem(m, list, kept), None \notin kept, NEW o \in Ops,
         m.op[o].kind = "submit", m.op[o].stage = "running", m.op[o].event = None,
         NEW r \in Resps, m.resp[r].refs = 0, NEW n \in Nat
  PROVE  LET m2 == response_made(m, m.op[o].inst, r, n, o)
         IN /\ Mem(m2, list, kept) /\ m2.op = [m.op EXCEPT ![o].event = r]
            /\ Rest(m, Ops) /\ m.retained + n <= Total => Rest(m2, Ops \ {o})
<1> DEFINE i == m.op[o].inst
           old == m.op[o]
           k == [m.op[o] EXCEPT !.event = r]
           m2 == response_made(m, i, r, n, o)
           q == MoreResp(m.inst[i], n)
           l == NewResp(i, n)
<1>0. IsHeap(m) /\ m.op \in [Ops -> OpRecords] /\ m.inst \in [Insts -> InstRecords] /\ Shape(old) /\ old \in OpRecords
      /\ m.resp \in [Resps -> RespRecords]
  BY DEF Mem, Books, Tidy
<1>1. /\ Books(m2, m2.op, InHand(list, kept), InHandResp(kept)) /\ i \in Insts
      /\ m.inst[i].refs # 0 /\ m.resp[r] = NoResp
  BY MadeBooks
<1>2. /\ IsHeap(m2) /\ m2.inst = [m.inst EXCEPT ![i] = q] /\ m2.resp = [m.resp EXCEPT ![r] = l]
      /\ m2.op = [m.op EXCEPT ![o].event = r] /\ m2.chunk = m.chunk /\ m2.retained = m.retained + n
  <2>1. MadeDoes(m, m2, i, r, n, o)
    BY <1>0, <1>1, MadeIs
  <2> QED BY <2>1 DEF MadeDoes
<1>3. q \in InstRecords /\ q.closing = m.inst[i].closing /\ q.closed = m.inst[i].closed
  BY <1>0, <1>1, MoreRespIs
<1>4. l \in RespRecords /\ l.reading = FALSE /\ l.chunks = 0 /\ l.pos = 0 /\ l.sent = 0
      /\ NoResp.reading = FALSE /\ NoResp.chunks = 0
  BY <1>1, NewRespIs, Zenon DEF NoResp, NewResp
<1>5. /\ k \in OpRecords /\ k.refs = old.refs /\ k.kind = "submit" /\ k.stage = "running" /\ k.inst = i
      /\ k.resp = old.resp /\ k.event = r /\ m2.op = [m.op EXCEPT ![o] = k]
  BY <1>0, <1>2 DEF OpRecords
<1> HIDE DEF m2, k, q, l
<1>6. m2.op \in [Ops -> OpRecords] /\ m2.op[o] = k /\ \A p \in Ops : p # o => m2.op[p] = m.op[p]
  BY <1>0, <1>5
<1>7. \A j \in Insts : /\ m2.inst[j].closing = m.inst[j].closing /\ m2.inst[j].closed = m.inst[j].closed
                       /\ m2.inst[j].refs # 0 => m.inst[j].refs # 0
  <2>1. m2.inst[i] = q /\ \A j \in Insts : j # i => m2.inst[j] = m.inst[j]
    BY <1>0, <1>1, <1>2
  <2> QED BY <1>1, <1>3, <2>1
<1>8. \A s \in Resps : m2.resp[s].reading = m.resp[s].reading /\ m2.resp[s].chunks = m.resp[s].chunks
  <2>1. m2.resp[r] = l /\ \A s \in Resps : s # r => m2.resp[s] = m.resp[s]
    BY <1>0, <1>2
  <2> QED BY <1>1, <1>4, <2>1
<1>9. r \notin kept /\ (\A p \in Ops : m.op[p].event # r) /\ r # None /\ r \notin Insts /\ r \notin Chunks
  <2>1. r \notin kept /\ \A p \in Ops : m.op[p].event # r
    BY RespThere
  <2> QED BY <2>1, BridgeAssumption DEF Handles
<1>10. TidyAt(m.op, o, k, kept)
  <2>1. Shape(k) /\ ~Granting(k)
    BY <1>0, <1>5, <1>9, NoOpFacts DEF NoOpIs, Shape, Granting, Creates
  <2>2. \A p \in Ops : m.op[p].event \notin kept /\ (Granting(m.op[p]) => m.op[p].inst \notin kept)
    BY DEF Mem, Tidy, Events, Grants
  <2>3. k.kind \notin Creates \cup {"close"}
    BY <1>5 DEF Creates
  <2> QED BY <1>5, <1>9, <2>1, <2>2, <2>3 DEF TidyAt
<1>11. Tidy(m2.op, kept)
  BY <1>0, <1>6, <1>10, TidyStep DEF Mem
<1>12. \A p \in Ops : /\ m2.op[p].kind = m.op[p].kind /\ m2.op[p].inst = m.op[p].inst
                      /\ m2.op[p].resp = m.op[p].resp /\ m2.op[p].stage = m.op[p].stage
                      /\ \A c \in Chunks : m2.op[p].event = c <=> m.op[p].event = c
  BY <1>5, <1>6, <1>9, NoOpFacts DEF NoOpIs
<1>13. Closes(m2)
  <2> SUFFICES ASSUME NEW p \in Ops, m2.op[p].kind = "close" PROVE m2.inst[m2.op[p].inst].closing
    BY DEF Closes
  <2>1. m2.op[p] # NoOp /\ m.inst[m.op[p].inst].closing
    BY <1>12, NoOpFacts DEF NoOpIs, Mem, Closes
  <2>2. m2.op[p].inst \in Insts
    BY <1>11, <2>1 DEF Tidy, Shape
  <2> QED BY <1>7, <1>12, <2>1, <2>2
<1>14. Lives(m2, list)
  BY <1>7, <1>12 DEF Mem, Lives
<1>15. ChunksHeld(m2, kept) /\ \A c \in Chunks : ChunkShape(m2.chunk[c])
  BY <1>2, <1>12 DEF Mem, ChunksHeld
<1>16. Reads(m2)
  <2>1. ASSUME NEW s \in Resps PROVE OpReads(m2.op, s) = OpReads(m.op, s)
    <3>1. \A p \in Ops : ReadsResp(m2.op[p], s) = ReadsResp(m.op[p], s)
      BY <1>12 DEF ReadsResp
    <3> QED BY <3>1, ReadsSame
  <2> QED BY <1>8, <2>1 DEF Mem, Reads
<1>17. Mem(m2, list, kept)
  BY <1>1, <1>2, <1>6, <1>11, <1>13, <1>14, <1>15, <1>16 DEF Mem
<1>18. ASSUME Rest(m, Ops), m.retained + n <= Total PROVE Rest(m2, Ops \ {o})
  <2>1. \A s \in Resps : m2.resp[s].sent <= m2.resp[s].pos
    <3>1. m2.resp[r] = l /\ \A s \in Resps : s # r => m2.resp[s] = m.resp[s]
      BY <1>0, <1>2
    <3> QED BY <1>4, <1>18, <3>1 DEF Rest, Bound
  <2>2. Bound(m2)
    BY <1>2, <1>18, <2>1 DEF Bound
  <2>3. \A p \in Ops : m.op[p].kind = "read" => m.op[p].resp \in Resps
    BY NoOpFacts DEF NoOpIs, Mem, Tidy, Shape
  <2>4. Idles(m2, Ops \ {o})
    BY <1>6, <1>8, <1>18, <2>3 DEF Rest, Idles
  <2> QED BY <2>2, <2>4 DEF Rest
<1> QED BY <1>2, <1>17, <1>18 DEF m2

\* The heap with a response that was refused its header.
Refused(m, r, n, o) ==
  [response_made(m, m.op[o].inst, r, n, o) EXCEPT !.op[o].stage = "discard", !.resp[r].listed = FALSE]
\* A refused header: the response that was made is unlisted, and the task closes it.
LEMMA MemDiscarded ==
  ASSUME NEW m, NEW list, NEW kept, Mem(m, list, kept), None \notin kept, NEW o \in Ops,
         m.op[o].kind = "submit", m.op[o].stage = "running", m.op[o].event = None,
         NEW r \in Resps, m.resp[r].refs = 0, NEW n \in Nat, Rest(m, Ops), m.retained + n <= Total
  PROVE  Mem(Refused(m, r, n, o), list, kept) /\ Rest(Refused(m, r, n, o), Ops)
<1> DEFINE m1 == response_made(m, m.op[o].inst, r, n, o)
           m2 == [m1 EXCEPT !.op[o].stage = "discard", !.resp[r].listed = FALSE]
           k == [m1.op[o] EXCEPT !.stage = "discard"]
           l == [m1.resp[r] EXCEPT !.listed = FALSE]
<1>1. Mem(m1, list, kept) /\ m1.op = [m.op EXCEPT ![o].event = r] /\ Rest(m1, Ops \ {o})
  BY MemMade
<1> HIDE DEF m1
<1>2. /\ IsHeap(m1) /\ m1.op \in [Ops -> OpRecords] /\ m1.resp \in [Resps -> RespRecords]
      /\ m1.inst \in [Insts -> InstRecords] /\ Tidy(m1.op, kept)
  BY <1>1 DEF Mem, Books
<1>3. /\ IsHeap(m2) /\ m2.op = [m1.op EXCEPT ![o] = k] /\ m2.resp = [m1.resp EXCEPT ![r] = l]
      /\ m2.inst = m1.inst /\ m2.chunk = m1.chunk /\ m2.retained = m1.retained
  BY <1>2 DEF IsHeap
<1>4. m1.op[o].kind = "submit" /\ m1.op[o].stage = "running" /\ \A p \in Ops : p # o => m1.op[p] = m.op[p]
  <2>1. m.op \in [Ops -> OpRecords] /\ m.op[o] \in OpRecords
    BY DEF Mem
  <2>2. m1.op[o] = [m.op[o] EXCEPT !.event = r] /\ \A p \in Ops : p # o => m1.op[p] = m.op[p]
    BY <1>1, <2>1
  <2> QED BY <2>1, <2>2 DEF OpRecords
<1>5. /\ k \in OpRecords /\ k.refs = m1.op[o].refs /\ k.kind = "submit" /\ k.stage = "discard" /\ k.inst = m1.op[o].inst
      /\ k.resp = m1.op[o].resp /\ k.event = m1.op[o].event /\ k.charge = m1.op[o].charge
  BY <1>2, <1>4 DEF OpRecords, Stages, TaskStages
<1>6. /\ l \in RespRecords /\ AlikeResp(l, m1.resp[r]) /\ l.reading = m1.resp[r].reading /\ l.chunks = m1.resp[r].chunks
      /\ l.sent = m1.resp[r].sent /\ l.pos = m1.resp[r].pos
  <2>1. m1.resp[r].refs # 0
    <3>1. m1.op[o].event = r
      <4>1. m.op \in [Ops -> OpRecords] /\ m.op[o] \in OpRecords
        BY DEF Mem
      <4> QED BY <1>1, <4>1 DEF OpRecords
    <3> QED BY <1>1, <3>1, RespThere
  <2> QED BY <1>2, <2>1, ZenonT(40) DEF RespRecords, AlikeResp
<1> HIDE DEF m2, k, l
<1>7. /\ m2.op \in [Ops -> OpRecords] /\ m2.op[o] = k /\ (\A p \in Ops : p # o => m2.op[p] = m1.op[p])
      /\ m2.resp \in [Resps -> RespRecords] /\ m2.resp[r] = l /\ \A s \in Resps : s # r => m2.resp[s] = m1.resp[s]
  BY <1>2, <1>3, <1>5, <1>6
<1>8. Flags(m1, m2)
  <2>1. Shape(k)
    <3>1. Shape(m1.op[o])
      BY <1>2 DEF Tidy
    <3>2. m1.op[o].refs # 0
      <4>1. m1.op[o] # NoOp
        BY <1>4, NoOpFacts DEF NoOpIs
      <4> QED BY <3>1, <4>1 DEF Shape
    <3> QED BY <1>4, <1>5, <3>1, <3>2, NoOpFacts DEF NoOpIs, Shape, Creates
  <2>2. AlikeOp(k, m1.op[o])
    BY <1>4, <1>5 DEF AlikeOp, TaskStages
  <2>3. \A p \in Ops : Shape(m2.op[p]) /\ AlikeOp(m2.op[p], m1.op[p])
    BY <1>2, <1>7, <2>1, <2>2 DEF Tidy, AlikeOp
  <2>4. \A i \in Insts : /\ AlikeInst(m2.inst[i], m1.inst[i]) /\ m2.inst[i].closed = m1.inst[i].closed
                         /\ m1.inst[i].closing => m2.inst[i].closing
    BY <1>3 DEF AlikeInst
  <2>5. \A s \in Resps : AlikeResp(m2.resp[s], m1.resp[s]) /\ m2.resp[s].reading = m1.resp[s].reading
    BY <1>6, <1>7 DEF AlikeResp
  <2>6. m2.inst \in [Insts -> InstRecords]
    BY <1>2, <1>3
  <2> QED BY <1>3, <1>7, <2>3, <2>4, <2>5, <2>6 DEF Flags
<1>9. Mem(m2, list, kept)
  BY <1>1, <1>8, MemFlags
<1>10. Rest(m2, Ops)
  <2>1. \A s \in Resps : /\ m2.resp[s].chunks = m1.resp[s].chunks /\ m2.resp[s].sent = m1.resp[s].sent
                         /\ m2.resp[s].pos = m1.resp[s].pos
    BY <1>6, <1>7
  <2>2. Bound(m2)
    BY <1>1, <1>3, <2>1 DEF Rest, Bound
  <2>3. \A p \in Ops : m1.op[p].kind = "read" => m1.op[p].resp \in Resps
    BY <1>1, NoOpFacts DEF NoOpIs, Mem, Tidy, Shape
  <2>4. Idles(m2, Ops)
    <3> SUFFICES ASSUME NEW p \in Ops
                 PROVE  /\ m2.op[p].stage \in TaskStages \ {"discard"} => m2.op[p].event = None
                        /\ m2.op[p].stage = "running" /\ m2.op[p].kind = "read"
                             => m2.resp[m2.op[p].resp].chunks = 0
      BY DEF Idles
    <3>1. CASE p = o
      BY <1>5, <1>7, <3>1
    <3>2. CASE p # o
      BY <1>1, <1>7, <2>1, <2>3, <3>2 DEF Rest, Idles
    <3> QED BY <3>1, <3>2
  <2> QED BY <2>2, <2>4 DEF Rest
<1>11. m2 = Refused(m, r, n, o)
  BY DEF m1, m2, Refused
<1> QED BY <1>9, <1>10, <1>11

\* hs_bridge_chunk: the next bytes of response r, in the event of operation o.
ChunkBook(m, i, r, c, o) == chunk_made([m EXCEPT !.resp[r].pos = @ + 1], i, r, c, o)
MoreChunk(k) == [k EXCEPT !.refs = @ + 1, !.charged = @ + ChunkCost]
MoreSent(k) == [k EXCEPT !.refs = @ + 1, !.chunks = @ + 1, !.pos = @ + 1, !.sent = @ + 1]
=============================================================================
