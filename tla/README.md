# TLA+ verification of http-server-mbt

Models, TLC runs and TLAPS proofs for http-server-mbt: a static
HTTP server written in MoonBit with C stubs, embedded by C, Node and Python hosts through
an asynchronous C ABI. Paths below are relative to the repository's root.

Run a model with `tlc -config MCBridge_recovery.cfg MCBridge`, a proof with
`tlapm BridgeProofs.tla`.

## 1. Inventory

| Component | State | Operations | Hard parts |
|---|---|---|---|
| C ABI bridge, `c_abi/runtime/bridge.c` | two queues (`commands`, `notices`), reference-counted instances, operations, responses and chunks, byte charges, `state` 0..5, `wake_fd`/`wake_pending` | create, close, submit, read, cancel, release; the owner and notifier threads | any host thread and any callback may enter at any time; start, stop, failure, reap and restart of the two threads; wake-ups |
| Runtime loop, `c_abi/runtime/runtime.mbt` | maps of engines, responses, servers and tasks, one condition variable | one task per operation (`Context::execute`), the loop of `run` | cancellation at any suspension point, close draining its siblings, failure of the loop |
| File executor, `internal/native/native.{c,mbt}` | one job queue and set of workers per owner thread, shared by its pools; `notified` and a pipe per pool; `gate` and `idle` per runtime | submit, run, notify, wait, cancel, stop, close, pool creation and freeing | done is published before the worker has finished with the pool; one byte stands for many completions; the owner blocks in `hs_io_pool_free` |
| Static engine, `engine.mbt`, `engine_resources.mbt` | `closing`, plans in progress, open responses, body and directory credits | open, handle, read, close | close against suspended plans and reads |
| Static planning, `internal/static_plan/` | none (a decision machine whose steps ask for files) | start and continuations | precedence of index, companions, listing, conditions |
| HTTP server, `server/` | connections, `active_requests`, `stopped` | accept, serve, stop, drain | drain against idle reads and timeouts |
| Proxy and tunnel, `server/proxy.mbt`, `server/websocket.mbt` | two copying tasks | forward, upgrade | half-close, first failure |
| Framing, `internal/framing/` | buffered reader | request head, body, chunks, drain | message length |
| Protocol core, `core/` | none | range, conditions, routing, authentication, limits | 64-bit arithmetic, precedence |
| TLS, `tls/`, `full/tls_acceptor.mbt` | MbedTLS session, ciphertext buffers | handshake, read, write, close | want-read/want-write while both directions run |
| Node addon, `c_abi/node/` | environment, works, handles, all reference-counted | wraps the ABI in promises | teardown against callbacks, blocking finalizers |
| Wasm host, `wasm/`, `examples/wasm-node/` | operation and file tokens | handle, read, abort | late completions |
| CLI, packaging, scripts, generated data | none | | not modelled |

The parts meet in two places. Hosts call the bridge from their own threads; the bridge hands
commands to the owner thread, where MoonBit tasks run engines and servers, and their
completions go to the notifier thread, which calls the host back. On the owner, engines and
servers use the file executor, whose workers run system calls and wake the owner through a
pipe. The same pattern twice: a queue, a flag that says a byte is under way, a byte in a
pipe. `Bridge` and `NativePool` model these two; `Engine`, `Server` and `NodeAddon` model
their users.

What makes the parts correct:

- bridge: one callback per accepted operation, the close last; every object freed exactly
  when nothing refers to it; charges balanced on every path; no lost wake-up; no library
  thread left when the last release returns; everything ends;
- file executor: nothing freed under a worker; no lost completion; no leaked or shared file
  handle; workers used up to the limit; every task and every close ends;
- engine: files and credits exact on every way out of a plan, a read or a close; a response
  delivers each byte once and in order; a closed engine holds nothing; closing ends, unless it
  waits behind a write that a client never takes;
- server: the thread's connections and credits exact and within their limits, for all servers
  together; draining waits for the requests under way and ends; a half-open tunnel keeps its
  grace period, and ends;
- Node addon: every resource given back once; no callback after the addon may be unloaded; a
  teardown ends.

`PROJECT.json` lists the hazards, each at its line with the properties that guard it.

## 2. Modules

| Module | Models |
|---|---|
| `BridgeHandles` | the handles of `bridge.c`: reference counts, charges, `new_op`, `abandon`, the parts of `hs_bridge_complete`, as functions from heap to heap |
| `Bridge` | the state machine: host threads, notifier, owner, tasks |
| `BridgeProps` | its properties, and the mapping to `AsyncContract` |
| `AsyncContract` | abstract: what `docs/async-abi-1.1.md` promises a host |
| `BridgeProofs`, `BridgeMemoryProofs`, `AsyncContractProofs` | theorems |
| `NativePool` | the file executor and its properties |
| `NativePoolProofs`, `EngineProofs`, `ServerProofs`, `NodeAddonProofs` | theorems |
| `SumLemmas` | what sums and counts over finite sets do when one element changes, for these proofs |
| `Engine` | one StaticEngine: plans, responses, reads, sends, closes, files and credits |
| `Server` | the servers of a thread: accept loops, connections, drain, tunnels, shared budget |
| `NodeAddon` | `async_addon.c`: works, tokens, handles, delivery and teardown |
| `ByteRange` | `parse_range_spec` with the integers' width; its theorem is in `ServerProofs` |
| `MCBridge`, `MCNativePool`, `MCEngine`, `MCServer`, `MCNodeAddon`, `MCByteRange` | the modules of the runs: symmetry and constants for TLC, and in `MCByteRange` the headers tried |

### Bridge

The C-owned state is touched only under one mutex, so an action is one critical section. Two
adjacent sections of a thread are one action only where nothing between them is visible to
another thread: the owner's pops (only it pops) and the pop and completion of a command that
is failed. Calls that block are split at each wait: `create_async` that finds a runtime
stopping (`create_async_reaps`, `CreateResumes`, `CreateJoins`) and the release barrier
(`release`, `release_barrier`, `barrier_joins`). `waiting` holds the threads blocked on the
condition variable `changed`, `parked` the tasks blocked on the MoonBit one; only a broadcast
empties them, so a missing broadcast is a thread that sleeps for ever. There are no spurious
wake-ups: every wait of the code is in a loop, so they would only hide such a loss.

The synchronous server calls are the asynchronous call of the same thread followed by a wait:
a host that holds its own start or close operation enters the wait (`sync_waits`,
`sync_resumes`), at once, as the code does, or after other calls, which adds behaviours and
removes none. The short critical section of `sync_callback` is the broadcast in `notify_calls`.
A stop of an instance that somebody else is closing has no operation and waits for `closed`
(`stop_waits`, `stop_resumes`); destroy is stop and release. No thread releases a server
while another is inside stop on it, as for any handle in use.

`mem` is the heap. A slot with no references is free and is used again at once; a pointer kept
too long would then refer to another object, and the counts would disagree. `owned` is what the host must still release; hosts release each
handle once and do not use it afterwards, as the header demands, but in any order, from any
thread, or from a callback. `op.stage` says where an operation is: queued, one of the stages
of its task, in the notices, in its callback, returned. The task stages are the suspension
points of `execute`: the engine's `open`, `handle`, `read` and `close`, the waits on `changed`,
and the server's scope. What those calls do inside is not the bridge's business and is left to
the choice of the outcome. `execute` ends in exactly one completion; an error or a cancellation
may leave it at any suspension point (`task_raises`). Simplified, to the same effect: every
completion empties `parked`, where the code broadcasts `changed` at the end of `execute` and not when
a server's start completes; a thread at the release barrier goes on when an instance appears,
also where the code would first see the reap through; and a calloc that fails after its charge was
granted (of a response, a header or a chunk) is the path of the refused charge, which undoes as much.

Sizes are abstract costs (`OpCost`, ...), so that the budget can be exhausted in a few steps;
`Total` stands for 64 MiB, `MaxOps` for 256, `MaxInstances` for 1024, `IdMax` for INT_MAX.
`CreateBudget` bounds the number of creations in a behaviour and is in no code. `Faults`
chooses which failures a run explores: allocation, thread start, bootstrap, loop.

### NativePool

The flat variables follow the three C structures and the two MoonBit ones: `queue`, `count`,
`pactive`, `bactive`, `pools`, `stopping` (hs_budget and hs_pool), `st`, `cancelled`, `ok`,
`result` (hs_job), `notified` and `byte` (the pipe of each pool), `rt`, `closers`, `freeing`
(Runtime), `file` and `home` (File), `task`, `protected`, `gate` (the coroutine in
`Runtime::run`). A worker's step between two of its locks is one action, so its place `at`
has a value for each. The owner runs one coroutine at a time between suspension points
(`Running`, `Free`), and none while it is blocked in `hs_io_pool_free` (`freeing`).

Job operations differ only in whether they leave a handle with the job (`opens`): open does;
read, stat, list and send do not. `hs_open` failing is `worker_runs` with nothing taken, and a
slot of `Files` is used again when its file is freed. On Windows the notification is an
overlapped write that may stay pending until the owner reads it; `byte` stands for that too.
A task that submitted its job reaches the first test of `done` in the same turn. File::names
refusing a busy file, and path validation, only refuse earlier and are left out.

### Engine

An action is a turn of a task of the owner thread, from one suspension point to the next, so a
`defer` or `errdefer` belongs to the turn that leaves the call. What `NativePool` shows of the
executor is used here in a simple form: the operation a task waits for ends at any time, well or
badly, and a file is freed only when no operation is on it. A cancelled task waits for its job,
so cancellation is one of the bad ends; `handle` turns it into an error like any other.
`plan_request` asks its questions in any order (`Ask`), which includes every order the planner
can ask in. A body in memory is read in one turn.

The pool's credits are kept as `owned`. Sizes are in units of a block: `BlockCharge` and
`Copies` keep the factors 2 and 4 of the code, directory credits are one unit for a listing and
one for its names. The limits of other pools of the thread are left out, a smaller limit only
refuses earlier. `MaxAsks` bounds the questions of one plan, `Users` the tasks that plan and
read; a third task closes. The read of a listing never has an end of its own (its length is
unknown); here its length is one of `Lengths` like the others'.

send_to has two ways to the socket. `hs_send` is an operation of the executor like the others,
which a close cancels. Where the kernel cannot send, a block is read and `tcp.write` takes it to the
client (`write_ends`): no operation on a file, nothing that a close of the response cancels, and
`reading` is set meanwhile.

A to_bytes that is refused closes its response (its `errdefer` is set before the tests), which
is `Response_close` by a task that may be any.

### Server

The same view of tasks. `accept_waits` and `accept_returns` are the two halves of the accept
loop, with the budget tested in both; the servers share `connections` and `body` of the thread's
budget, which is created with the first pool and freed with the last. All servers have the same
limits: the smallest limit of the pools is the one that holds. A proxied request and a tunnel
hold `ProxyCharge` more; both directions of a tunnel and its parent are separate tasks.

Assumed of the coroutine library: a task spawned just before its group is cancelled still runs to
its first suspension point (`conn_starts` has no cancelled variant: its defers run either way); a
cancelled accept may still return a socket; a cancelled task that has caught its cancellation is
interrupted at its next suspension point, so `conn_cancelled` ends it in one step; cancellation is an error that
`catch` sees (`c_abi/runtime/runtime.mbt:23` tells it from others), so a scope cancelled during its action drains
too. `DrainSteps` stands for the 500 sleeps of 10 ms, `GraceSteps` for the 5000 ms that
proxy_websocket gives the second direction of a tunnel: the clock of a tunnel (`waited`) runs from the
moment its parent has seen the first direction end, and stops when the second one ends, when either
fails or when the time is up. An action that calls `stop_and_drain` itself
and then returns takes the same steps.

### NodeAddon

The JavaScript thread runs one function, callback or finalizer of the addon at a time (`JsFree`);
`work_finalizer` keeps it while it waits for the notifier. The notifier's `work_completed` may
come at any moment after the submission, even before `finish_submit`. `abi` is the library's side of
an operation, as `Bridge` shows it: answered once, certainly so when it is cancelled or a close, and
possibly never otherwise. That releases return is `CallsReturn` of `Bridge`. `owed` counts
what the library handed over against the releases, so that a double release and a leak are both
visible.

Assumed of Node: calls queued on a thread-safe function are made, or dropped with a null
environment, before its finalizer. `work_finalizer` frees the context of those calls, so this
order has to be checked against each Node version. A teardown may finalize a function at any
time, before or after `env_cleanup`, and handles are finalized by the collector in any order.

### ByteRange

The text of a range is its unit, whether it has a dash, and the characters before and after it.
`Width` is 6 in the run and stands for 64.

## 3. Runs

| Run | Instance | Shows |
|---|---|---|
| `recovery` | 1 host, 1 engine, 4 operations, 1 response, 1 chunk, callbacks that read, failing loop and allocations | TypeOK, RefsExact, ChargesExact, OpsExact, PipelineExact, OneRead, NoLostWakeup, and Bridge implements AsyncContract (Contract) |
| `lifecycle` | 2 hosts, 2 instances, 3 operations, creations and releases from callbacks, failing threads and bootstrap | Drained, NoThreadAtRest, WakeFdOpen |
| `liveness` | 1 host, engine or server, 3 operations, two creations, also cancelled, synchronous start and stop, failing allocations, threads and bootstrap | RefsExact, Answered, CallsReturn, RuntimeEnds |
| `pools` | 2 runtimes with limits 1 and 2, 2 workers, 2 jobs, threads that fail to start | CountsExact, FullyUsed |
| `files` | 1 runtime, 2 workers, 2 jobs, 2 files | PoolTypeOK, WorkerSafe, NoLostCompletion, HandlesExact |
| `closing` | 1 runtime, 1 worker, 2 jobs, 1 file, fair | JobsEnd, ClosesEnd |
| `engine` | 2 users and a closer, 1 response of 0 or 2 blocks, 2 files besides the root, 2 questions a plan | TypeOK, FilesExact, CreditsExact, InOrder, ClosedEmpty, ClosesEnd |
| `server` | 2 servers, room for 2 connections and 3 charges, one drain step, one grace step | TypeOK, ConnectionsExact, ScopesExact, Graceful, HalfClose, ScopesEnd, TunnelsEnd |
| `node` | 3 works of any kind, teardown at any moment | AddonRefsExact, ResourcesOnce, UnloadSafe, TeardownEnds |
| `skips` | as `recovery`, with a budget that refuses the chunk | violates WholeBody |
| `instances` | 2 hosts, room for 1 instance, a runtime stopping | violates InstanceLimit |
| `overflow` | 6-bit integers, positions of up to 2 characters, 3 sizes | violates OverflowResistant |

Bounds. The handle properties need one object of each kind with a second user of it: an
engine, its creation, a submission, a read and the internal release; ids and slots are used again,
so a close follows. The thread properties need two instances and two hosts, so that one host
can wait at the barrier while the other reaps or creates. In the file executor the smallest
interesting instance has two jobs of one pool (one waits for the other's byte), two workers
(one publishes while the other claims) and two pools with different limits. An engine needs a
second task that reads or plans while the first is suspended and a third that closes, and a body of two
blocks, so that a reader can be interrupted between them. The servers need a budget that one of them
can fill while the other's listener waits: three connections could come, two fit. In the addon a work creates,
a second one uses what it delivered, a third is under way when the environment goes. Id exhaustion is
inside the bounds (`IdMax` is small), and so is a full queue.

Deadlock is checked for NativePool and Server. It is not for Bridge, Engine and NodeAddon: a
runtime whose hosts call no more may rest, an engine that is closed stops, an environment that is
torn down too, and ids and the bounds on creations and works run out.

What the violations show. A read whose chunk the bridge refuses to charge has already
moved the response's cursor; the operation fails with a limit error, the response stays open,
and the next read goes on after the bytes that were lost (`docs/design.md:571` says a response
does not skip bytes). And `create_async` tests the limits before it waits for an old runtime
to be reaped, so two creators that were admitted with room for one both go on
(`docs/async-abi-1.1.md:27`). A host that treats a failed read as the end of the response is
not affected by the first; the second exceeds the limit by at most the number of waiting
threads. The third: positions in a Range header are accumulated without a test of overflow, so a
start of 2^64 + 5 selects the bytes from 5, where `core/security_auth_range_test.mbt:315` speaks of
"overflow resistance". The range is still inside the file (theorem `RangeInside`): a
wrong answer to an absurd request, not a wrong access.

## 4. Fairness

Weak fairness for the notifier, the owner's loop and host threads inside a blocking call:
they are threads of the process, and callbacks are assumed to return. Weak fairness for
workers: system calls end. Strong fairness for tasks: they run only when the owner is between two
turns of its loop, which hosts can make it leave over and over, but the coroutine scheduler
runs every ready coroutine before it polls again, and its mutex (`gate`) hands itself to its
waiters in order. A server asked to stop stops (in `Bridge`; `ScopesEnd` of `Server` shows it). Hosts are not fair: they may never release anything, so `Answered` allows a read to
wait for the chunk its host keeps, and `RuntimeEnds` asks for no release.

Engine: every task that can be resumed is (`Resume`), which includes that file operations end.
Two things are left to the client. A kernel send is fair only once a close has cancelled it (`Waits`):
on Windows TransmitFile waits for the client, and `hs_send` looks every 10 ms whether its job is cancelled. A
write to the client (`write_ends`) is not fair at all. BodyState::close waits for it
(`engine_resources.mbt:152`), and so ClosesEnd states one exception: a close that from some time on
stands behind a write of the response it is about to release (`Stalled`). Without the exception TLC
finds that behaviour; in the server it ends when the connection's task is cancelled, of which an
engine knows nothing. Callers are not fair. (In NativePool system calls end; the TransmitFile of a
stalled client is outside its liveness until it is cancelled.) Server: timers fire, cancelled tasks leave, the scope's own steps are taken
(`ConnRuns`, `ScopeRuns`, `AcceptStops`); handshakes, requests, upstreams and the directions of a
tunnel may hang for ever (`Peers`), as the network allows. NodeAddon: the event loop goes on,
`env_cleanup` is called in a teardown, and the library answers what is cancelled or a close;
scripts and the collector are not fair.

## 5. Proofs

`BridgeProofs` proves that the thread state is consistent, for any set of hosts and handles and
any limits. The invariant `ThreadInv` ties the owner's place to `state`, `ownerDone`,
`ownerStarted`, the wake descriptor and the pipe: which places are possible in each state; that
both threads are gone at state 0; that a byte or the pending flag is there whenever commands wait
and the owner has not yet to look at the queue. It is needed because
each result alone is not inductive: that no thread runs at state 0 depends on the joins, the
joins on `ownerDone`, and so on round the cycle. From it follow `BridgeNoThreadAtRest`,
`BridgeWakeFdOpen` and `BridgeNoLostCommand`. The proof has one lemma per group of actions
(host calls, tasks, creation, barrier, notifier, loop); the heap operations need no unfolding,
since none of them touches this state.

Above it, `OpsInv` follows every operation from `new_op` to its last `op_drop`: each queue holds the
operations of its stage, each once; the host has one reference to an operation, in a variable of its
own or in the blocking call of one thread (`HostRefs`); an operation has that reference and the
pipeline's (`OpRefs`); `active_ops` is the number of operations in the pipeline. OpsExact follows
(`BridgeOpsExact`). Where the host's reference is has to be part of it: an operation that has been called back
is freed by the host's release, one that has been released by the return of its callback, and both
take the record only because the other has let go. The lemmas about `BridgeHandles` (`OpDrop`, `NewOp`,
`Completes` and others) say what each function of the heap does to the records of operations, so
that the steps of the actions need not unfold them.

The third layer, `MemInv`, is about the heap: `BridgeMemoryProofs`, on lemmas that begin in the
last part of `BridgeProofs`. No counter of an instance can be followed alone, since
`instance_drop` clears the whole record with the last reference: the step is right only if every
holder is accounted for. So the invariant keeps the books of a heap (`Books`): `refs`, `active`,
`notifications`, `responses` and `charged` of an instance, `refs` and `chunks` of a response are
sums over the operations, responses and chunks, plus what the live list and the hosts have in hand
(`InHand`); `retained` is the sum of the charges. Beside them it says what an operation's record
looks like in each stage (`Shape`), that an event is the only pointer to what it hands over, that
an instance under creation is nobody's yet and has one close at most (`Tidy`), which instances are
on the live list (`Lives`), that a chunk is in an event or with the host (`ChunksHeld`), that
`reading` is one read (`Reads`), and that nothing waits for a thread that has ended (`Resting`).
Each function of `BridgeHandles` has a lemma that says what it does to the books, given as an operator over two
heaps (`OpStep`, `At`, `Staged`, `Eventful`, `ChunkAt`, `Fades`): the sums move by what the one
changed record moves them. The drops are proved with the dropped reference put in hand first, so
that op_drop, response_drop and instance_drop compose. From `MemInv` and `OpsInv` follow RefsExact,
ChargesExact, PipelineExact, OneRead, Drained and TypeOK (`BridgeRefsExact` and so on).

The last layer is the owner's sleep. `WakeInv` says of an owner that sleeps on an empty pipe, with no wake-up
pending (`Asleep`), that nothing needs it (`Settled`): the runtime is not unused, every task that should
stop has been told to, and what a parked task waits for has not come. It rests on the invariants
below it: on ThreadInv for what "asleep" means, on MemInv and OpsInv for which tasks there are. Every action
is of one of three kinds. It wakes the owner, which is then not asleep (`Woken`); or it changes nothing
the sleeping owner would look at (`Undisturbed`); or it is a step of the running owner, and the only one after
which it may sleep is its scan, which first cancels all that is to be stopped (`IdleWakes`). For the
tasks stopped by an internal release, `WakeInv` also says that such a release is made only for a
response which its host has released (`ReleasedFirst`). With BridgeNoLostCommand, NoLostWakeup follows in full, for host calls of every
kind: also for `hs_operation_cancel`, which the instance of the run `recovery` leaves out.

`AsyncContractProofs` proves of the abstract contract that callbacks are serialised, that an
instance is closed at most once, and that nothing is called back after a successful close.
With the refinement checked in `recovery`, these hold of the bridge on that instance.

`NativePoolProofs` proves every safety property of the executor for any number of pools, jobs, files
and workers (WorkerSafe, which the run `files` checks for one pool, for several too). For
NoLostCompletion, `PoolInv` says: a `notified` pool has a byte in its pipe, or a worker about to
write it, or a reader about to acknowledge (`Claimed`); a reader holds its pool's gate (`GateHeld`),
so there is one; jobs belong to live tasks (`JobsLive`, `JobsOwned`). The step that needs them is
`wait_acks`: clearing `notified` is harmless only because the acknowledger is the sole reader. For
HandlesExact, `HandleInv` says that two jobs never have the same result and that a handle in state
"result" is somebody's. `ExecutorInv` adds what the other three need: where a worker has a pool and
a job, which pools are attached and when the budget stops (`TableInv`), that a file is not freed
under a job and a queued job is in the queue (`JobInv`), what `count`, `pactive` and `bactive` count
(`CountInv`), and that enough workers are awake (`StaffInv`). FullyUsed is the delicate one: a
submission signals one sleeper, and there may be none; it holds because a worker that leaves a job
tests the queue again before it sleeps.

`EngineProofs` proves TypeOK, InOrder, FilesExact, CreditsExact and ClosedEmpty for any finite
number of tasks, responses and files and any lengths. `EngineInv` says what a task holds at each
suspension point (`TaskShape`), that a response being read has one reader, which is at its cursor
(`ReaderInv`), what a closed and a released response still have (`BodyInv`), that a file has one
holder (`HolderInv`), and, in each stage of a close, what is still open (`LifeInv`). The last is
needed because several closes may run at once, each with its own list of responses: a close may
free the pool only because what is not yet released is in the list of every close under way.
`CreditInv` says that the credits granted are the sums of what responses and tasks hold, also
after the pool is freed, where CreditsExact says nothing and ClosedEmpty follows.

`ServerProofs` proves TypeOK, ConnectionsExact, ScopesExact, Graceful and HalfClose for any number
of servers and any finite number of connections. `ServerInv` says what the budget and
`active_requests` count, that a connection in use belongs to a scope that has not ended, and that
a cancelled scope is past its drain. Graceful is an action property: each action is
examined once, with the invariant as its hypothesis. HalfClose needs `TunnelInv` above it: a
parent in its grace period has seen one direction end, and a server stays cancelled as long as it has
connections (`scope_ends` waits for them), so that what once justified taking a tunnel down still
holds while it is taken down.

`NodeAddonProofs` proves AddonRefsExact, ResourcesOnce and UnloadSafe for any set of works, also an
infinite one. `NodeInv` says what is possible at each stage of a work (`Stage`), what its counters
count (`Held`), and that the sets the environment counts are finite (`EnvCounts`).

`SumLemmas` is what the counting rests on: a sum (or a cardinality) over a finite set changes by
what its one changed element does; zero terms do not count. The induction rules of the library have
an operator as a parameter, which the provers do not instantiate; so a lemma is proved by taking a least
subset that is a counterexample (`LeastSet`) and removing one element from it. This works for
sums over finite sets, not for what a fold over a text computes.

The assumptions are `BridgeAssumption`, `PoolAssumption`, `EngineAssumption` and
`ServerAssumption`: slots of different kinds are different, limits are natural numbers, model values such as `None` are no member of the sets,
and workers, connections, tasks, responses and the bridge's handles are finitely many, as in any process. The inductive invariants
were checked with TLC on the instances of the runs first.

Of `ByteRange`, `ServerProofs` also proves that a satisfiable range is not empty and lies inside the representation
(`RangeInside`), for every size. What parse_i64_strict computes of a text is a fold, about which the prover
can say nothing for all texts; so the theorem takes any parsed value, wrapped around or not,
positive or negative. This is the stronger statement, and the reason why the overflow above is harmless.

Only model-checked: everything under fairness (Answered, CallsReturn, RuntimeEnds, JobsEnd,
ClosesEnd of both modules, ScopesEnd, TunnelsEnd, TeardownEnds), which is out of the prover's reach;
and the bridge's refinement of AsyncContract. That one has the invariants it needs; what is
missing is one more case analysis over the actions.

## 6. Plan

Done: the bridge, its contract, the file executor, the engine with its credits, the server with
proxy, tunnel and the thread's budget, the Node addon, ranges. Left, in this order:

1. The refinement of AsyncContract by the bridge as a theorem, on top of MemInv.
2. The Node addon's `startServer` and `stopServer`, on top of the bridge's synchronous calls.
3. `TlsConn`: the reader and writer gates around one MbedTLS session; `WasmHost`.
4. `Framing` and `StaticPlan`: algorithms as operators against reference definitions.

## 7. Not modelled

- Contents: requests, headers, file data, configuration text, HTML listings, MIME tables.
  The bridge's validation of arguments only refuses calls and changes nothing.
- System calls of the workers (`hs_open`, `hs_read`, `hs_list`, `hs_send`), the io_uring
  backend and the detection of changed files: the outcome is a choice. Engine models the files and
  credits these calls take.
- An embedder that closes `server.engine()` itself while the server runs, which would take the
  pool, and with the last one the budget, from under the connections.
- Which file a plan chooses, header rewriting, the validation of upgrades: they decide between
  outcomes the models choose from.
- Reuse of a closed descriptor number by the process after the loop has failed.
- Vendored MbedTLS (`tls/mbedtls-4.2.0`, nearly all of the repository's C lines; the program's
  own code is a small part of them), generated certificate data, the command line, npm
  packaging and scripts.
- The components the plan lists, until their modules exist.
