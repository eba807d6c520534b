-------------------------- MODULE NativePoolProofs --------------------------
(***************************************************************************)
(* The notification handshake between the workers and the owner's tasks,   *)
(* the handles, the counts and the workers awake, for any number of pools, *)
(* jobs, files and workers.                                                *)
(***************************************************************************)
EXTENDS NativePool, SumLemmas, FunctionTheorems

CoreTypeOK ==
  /\ rt \in [Pools -> Runtimes] /\ freeing \in Pools \cup {None}
  /\ job \in [Jobs -> JobType] /\ st \in [Jobs -> {"none", "queued", "taken", "done"}]
  /\ task \in [Jobs -> {"none", "check", "gate", "read", "ack"}]
  /\ gate \in [Pools -> Jobs \cup {None}]
  /\ queue \in Seq(Jobs)
  /\ at \in [Workers -> Places] /\ held \in [Workers -> Jobs \cup {None}]
  /\ serves \in [Workers -> Pools \cup {None}]
  /\ notified \subseteq Pools /\ byte \subseteq Pools

\* A job in use has a task, and belongs to a runtime that is not being freed.
JobsLive ==
  /\ \A j \in Jobs : task[j] = "none" <=> st[j] = "none"
  /\ \A j \in Jobs : st[j] = "none" => job[j].pool = None
  /\ \A j \in Jobs : st[j] # "none" => /\ job[j].pool \in Pools
                                        /\ rt[job[j].pool] \in {"open", "closing"}
  /\ freeing # None => rt[freeing] \in {"failed", "freeing"}

\* A job is in the queue once, or with one worker, or done.
JobsOwned ==
  /\ \A i \in DOMAIN queue : st[queue[i]] = "queued"
  /\ \A i, k \in DOMAIN queue : queue[i] = queue[k] => i = k
  /\ \A w \in Workers : at[w] \in {"took", "publish"} =>
       /\ held[w] \in Jobs /\ st[held[w]] = "taken" /\ job[held[w]].pool = serves[w]
  /\ \A w \in Workers :
       at[w] \in {"took", "publish", "notify", "write", "leave"} => serves[w] \in Pools
  /\ \A v, w \in Workers :
       at[v] \in {"took", "publish"} /\ at[w] \in {"took", "publish"} /\ held[v] = held[w]
         => v = w

\* The task that reads or acknowledges holds the runtime's gate.
GateHeld == \A j \in Jobs : task[j] \in {"read", "ack"} => gate[job[j].pool] = j

\* A claimed notification is being written, is in the pipe, or has been read and not
\* yet acknowledged.
Claimed ==
  \A p \in notified :
    \/ p \in byte
    \/ \E w \in Workers : serves[w] = p /\ at[w] = "write"
    \/ \E j \in Jobs : task[j] = "ack" /\ job[j].pool = p

PoolInv == CoreTypeOK /\ JobsLive /\ JobsOwned /\ GateHeld /\ Claimed /\ NoLostCompletion

\* A handle that an open has made is held by the one job that made it.
HandleInv ==
  /\ file \in [Files -> {"none", "result", "open", "closing"}]
  /\ home \in [Files -> Pools \cup {None}] /\ result \in [Jobs -> Files \cup {None}]
  /\ \A f \in Files : file[f] # "none" => home[f] \in Pools
  /\ \A f \in Files : file[f] = "result" => \E j \in Jobs : result[j] = f
  /\ \A j \in Jobs : result[j] # None => file[result[j]] = "result"
  /\ \A i, j \in Jobs : result[i] # None /\ result[i] = result[j] => i = j
  /\ \A j \in Jobs : st[j] \in {"none", "queued"} => result[j] = None
  /\ \A w \in Workers : at[w] = "took" => result[held[w]] = None

-----------------------------------------------------------------------------
\* Before any runtime exists the invariant holds.
LEMMA PoolInit == Init => PoolInv
BY PoolAssumption
   DEF Init, PoolInv, CoreTypeOK, JobType, Runtimes, Places, JobsLive, JobsOwned, GateHeld,
       Claimed, NoLostCompletion, NoJob, Done

\* A step that finishes no job, and moves neither a task nor a worker that is about to
\* notify, keeps the handshake.
LEMMA HandshakeKept ==
  ASSUME PoolInv, UNCHANGED <<job, task, pipes>>,
         \A j \in Jobs : st'[j] = "done" => st[j] = "done",
         \A w \in Workers : at[w] \in {"notify", "write"}
                            => at'[w] = at[w] /\ serves'[w] = serves[w]
  PROVE  Claimed' /\ NoLostCompletion'
<1>1. Claimed'
  BY DEF PoolInv, CoreTypeOK, Claimed, pipes
<1>2. NoLostCompletion'
  BY DEF PoolInv, CoreTypeOK, NoLostCompletion, Done, pipes
<1> QED BY <1>1, <1>2

\* hs_io_pool_new only adds a pool and idle threads.
LEMMA NewKeeps ==
  ASSUME PoolInv, NEW p \in Pools, Runtime_new(p)
  PROVE  PoolInv'
<1> USE PoolAssumption DEF PoolInv, owners, jobs, tasks, counts, crew, pipes, Runtime_new
<1>1. CoreTypeOK'
  BY DEF CoreTypeOK, JobsOwned, JobType, Runtimes, Places
<1>2. JobsLive'
  BY DEF CoreTypeOK, JobsLive, JobsOwned
<1>3. JobsOwned'
  BY DEF CoreTypeOK, JobsLive, JobsOwned
<1>4. GateHeld'
  BY DEF CoreTypeOK, JobsLive, GateHeld
<1>5. \A j \in Jobs : st'[j] = "done" => st[j] = "done"
  BY DEF CoreTypeOK
<1>6. \A v \in Workers : at[v] \in {"notify", "write"} => at'[v] = at[v] /\ serves'[v] = serves[v]
  BY DEF CoreTypeOK, Threads
<1>7. Claimed' /\ NoLostCompletion'
  BY <1>5, <1>6, HandshakeKept
<1> QED BY <1>1, <1>2, <1>3, <1>4, <1>7

\* hs_io_submit queues a job that was free, so the queue stays without duplicates.
LEMMA SubmitKeeps ==
  ASSUME PoolInv, NEW j \in Jobs, NEW p \in Pools, NEW f \in Files \cup {None},
         NEW opens \in BOOLEAN, Submit(j, p, f, opens)
  PROVE  PoolInv'
<1> USE PoolAssumption DEF PoolInv, owners, jobs, tasks, counts, crew, pipes, Submit, Enqueue
<1>1. CoreTypeOK'
  BY DEF CoreTypeOK, JobsOwned, JobType, Runtimes, Places
<1>2. JobsLive'
  BY DEF CoreTypeOK, JobsLive, JobsOwned
<1>3. JobsOwned'
  BY DEF CoreTypeOK, JobsLive, JobsOwned
<1>4. GateHeld'
  BY DEF CoreTypeOK, JobsLive, GateHeld
<1>5. Claimed'
  BY DEF CoreTypeOK, JobsLive, GateHeld, Claimed
<1>6. NoLostCompletion'
  BY DEF CoreTypeOK, JobsLive, JobsOwned, GateHeld, Claimed, NoLostCompletion, Done
<1> QED BY <1>1, <1>2, <1>3, <1>4, <1>5, <1>6

\* A worker takes the head of the queue, which no other worker has.
LEMMA TakesKeeps ==
  ASSUME PoolInv, NEW w \in Workers, worker_takes(w)
  PROVE  PoolInv'
<1> USE PoolAssumption DEF PoolInv, owners, jobs, tasks, counts, crew, pipes, worker_takes
<1>0. Head(queue) \in Jobs /\ st[Head(queue)] = "queued"
  BY DEF CoreTypeOK, JobsOwned
<1>1. CoreTypeOK'
  BY <1>0 DEF CoreTypeOK, JobsLive, JobType, Runtimes, Places
<1>2. JobsLive'
  BY <1>0 DEF CoreTypeOK, JobsLive
<1>3. JobsOwned'
  BY DEF CoreTypeOK, JobsLive, JobsOwned
<1>4. GateHeld'
  BY DEF CoreTypeOK, JobsLive, GateHeld
<1>5. \A j \in Jobs : st'[j] = "done" => st[j] = "done"
  BY DEF CoreTypeOK
<1>6. \A v \in Workers : at[v] \in {"notify", "write"} => at'[v] = at[v] /\ serves'[v] = serves[v]
  BY DEF CoreTypeOK, Threads
<1>7. Claimed' /\ NoLostCompletion'
  BY <1>5, <1>6, HandshakeKept
<1> QED BY <1>1, <1>2, <1>3, <1>4, <1>7

\* Running a job changes neither its owner nor its state.
LEMMA RunsKeeps ==
  ASSUME PoolInv, NEW w \in Workers, worker_runs(w)
  PROVE  PoolInv'
<1> USE PoolAssumption DEF PoolInv, owners, jobs, tasks, counts, crew, pipes, worker_runs
<1>1. CoreTypeOK'
  BY DEF CoreTypeOK, JobsOwned, JobType, Runtimes, Places
<1>2. JobsLive'
  BY DEF CoreTypeOK, JobsLive, JobsOwned
<1>3. JobsOwned'
  BY DEF CoreTypeOK, JobsLive, JobsOwned
<1>4. GateHeld'
  BY DEF CoreTypeOK, JobsLive, GateHeld
<1>5. \A j \in Jobs : st'[j] = "done" => st[j] = "done"
  BY DEF CoreTypeOK
<1>6. \A v \in Workers : at[v] \in {"notify", "write"} => at'[v] = at[v] /\ serves'[v] = serves[v]
  BY DEF CoreTypeOK, Threads
<1>7. Claimed' /\ NoLostCompletion'
  BY <1>5, <1>6, HandshakeKept
<1> QED BY <1>1, <1>2, <1>3, <1>4, <1>7

\* Publishing done is followed by the notification: the worker is at hs_notify.
LEMMA PublishesKeeps ==
  ASSUME PoolInv, NEW w \in Workers, worker_publishes(w)
  PROVE  PoolInv'
<1> USE PoolAssumption DEF PoolInv, owners, jobs, tasks, counts, crew, pipes, worker_publishes
<1>1. CoreTypeOK'
  BY DEF CoreTypeOK, JobsOwned, JobType, Runtimes, Places
<1>2. JobsLive'
  BY DEF CoreTypeOK, JobsLive, JobsOwned
<1>3. JobsOwned'
  BY DEF CoreTypeOK, JobsLive, JobsOwned
<1>4. GateHeld'
  BY DEF CoreTypeOK, JobsLive, GateHeld
<1>5. Claimed'
  BY DEF CoreTypeOK, JobsLive, GateHeld, Claimed
<1>6. NoLostCompletion'
  BY DEF CoreTypeOK, JobsLive, JobsOwned, GateHeld, Claimed, NoLostCompletion, Done
<1> QED BY <1>1, <1>2, <1>3, <1>4, <1>5, <1>6

\* hs_notify returns without writing only when a byte is on its way for every reader.
LEMMA NotifyKeeps ==
  ASSUME PoolInv, NEW w \in Workers, hs_notify(w)
  PROVE  PoolInv'
<1> USE PoolAssumption DEF PoolInv, owners, jobs, tasks, counts, crew, pipes, hs_notify
<1>1. CoreTypeOK'
  BY DEF CoreTypeOK, JobsOwned, JobType, Runtimes, Places
<1>2. JobsLive'
  BY DEF CoreTypeOK, JobsLive, JobsOwned
<1>3. JobsOwned'
  BY DEF CoreTypeOK, JobsLive, JobsOwned
<1>4. GateHeld'
  BY DEF CoreTypeOK, JobsLive, GateHeld
<1>5. /\ \A v \in Workers : v # w => at'[v] = at[v]
      /\ serves[w] \notin notified => at'[w] = "write"
      /\ at[w] = "notify"
  BY DEF CoreTypeOK
<1>6. Claimed'
  <2> SUFFICES ASSUME NEW p \in notified'
               PROVE  \/ p \in byte
                      \/ \E v \in Workers : serves[v] = p /\ at'[v] = "write"
                      \/ \E j \in Jobs : task[j] = "ack" /\ job[j].pool = p
    BY DEF Claimed
  <2>1. CASE p \in notified
    BY <1>5, <2>1 DEF Claimed
  <2>2. CASE p \notin notified
    BY <1>5, <2>2
  <2> QED BY <2>1, <2>2
<1>7. NoLostCompletion'
  <2> SUFFICES ASSUME NEW j \in Jobs, task[j] = "read", st[j] = "done"
               PROVE  \/ job[j].pool \in byte
                      \/ \E v \in Workers : serves[v] = job[j].pool /\ at'[v] \in {"notify", "write"}
    BY DEF NoLostCompletion, Done
  <2>1. CASE job[j].pool \in byte
    BY <2>1
  <2>2. CASE \E v \in Workers : v # w /\ serves[v] = job[j].pool /\ at[v] \in {"notify", "write"}
    BY <1>5, <2>2
  <2>3. CASE serves[w] = job[j].pool /\ serves[w] \notin notified
    BY <1>5, <2>3
  <2>4. CASE serves[w] = job[j].pool /\ serves[w] \in notified
    <3>1. \A k \in Jobs : task[k] = "ack" => job[k].pool # job[j].pool
      BY DEF GateHeld
    <3> QED BY <1>5, <2>4, <3>1 DEF Claimed
  <2> QED BY <2>1, <2>2, <2>3, <2>4 DEF NoLostCompletion, Done
<1> QED BY <1>1, <1>2, <1>3, <1>4, <1>6, <1>7

\* The byte is in the pipe.
LEMMA WritesKeeps ==
  ASSUME PoolInv, NEW w \in Workers, worker_writes(w)
  PROVE  PoolInv'
<1> USE PoolAssumption DEF PoolInv, owners, jobs, tasks, counts, crew, pipes, worker_writes
<1>1. CoreTypeOK'
  BY DEF CoreTypeOK, JobsOwned, JobType, Runtimes, Places
<1>2. JobsLive'
  BY DEF CoreTypeOK, JobsLive, JobsOwned
<1>3. JobsOwned'
  BY DEF CoreTypeOK, JobsLive, JobsOwned
<1>4. GateHeld'
  BY DEF CoreTypeOK, JobsLive, GateHeld
<1>5. Claimed'
  BY DEF CoreTypeOK, JobsLive, GateHeld, Claimed
<1>6. NoLostCompletion'
  BY DEF CoreTypeOK, JobsLive, JobsOwned, GateHeld, Claimed, NoLostCompletion, Done
<1> QED BY <1>1, <1>2, <1>3, <1>4, <1>5, <1>6

\* A worker leaves its pool after it has notified.
LEMMA LeavesKeeps ==
  ASSUME PoolInv, NEW w \in Workers, worker_leaves(w)
  PROVE  PoolInv'
<1> USE PoolAssumption DEF PoolInv, owners, jobs, tasks, counts, crew, pipes, worker_leaves
<1>1. CoreTypeOK'
  BY DEF CoreTypeOK, JobsOwned, JobType, Runtimes, Places
<1>2. JobsLive'
  BY DEF CoreTypeOK, JobsLive, JobsOwned
<1>3. JobsOwned'
  BY DEF CoreTypeOK, JobsLive, JobsOwned
<1>4. GateHeld'
  BY DEF CoreTypeOK, JobsLive, GateHeld
<1>5. \A j \in Jobs : st'[j] = "done" => st[j] = "done"
  BY DEF CoreTypeOK
<1>6. \A v \in Workers : at[v] \in {"notify", "write"} => at'[v] = at[v] /\ serves'[v] = serves[v]
  BY DEF CoreTypeOK, Threads
<1>7. Claimed' /\ NoLostCompletion'
  BY <1>5, <1>6, HandshakeKept
<1> QED BY <1>1, <1>2, <1>3, <1>4, <1>7

\* A worker that stops holds no job.
LEMMA ExitsKeeps ==
  ASSUME PoolInv, NEW w \in Workers, worker_exits(w)
  PROVE  PoolInv'
<1> USE PoolAssumption DEF PoolInv, owners, jobs, tasks, counts, crew, pipes, worker_exits
<1>1. CoreTypeOK'
  BY DEF CoreTypeOK, JobsOwned, JobType, Runtimes, Places
<1>2. JobsLive'
  BY DEF CoreTypeOK, JobsLive, JobsOwned
<1>3. JobsOwned'
  BY DEF CoreTypeOK, JobsLive, JobsOwned
<1>4. GateHeld'
  BY DEF CoreTypeOK, JobsLive, GateHeld
<1>5. \A j \in Jobs : st'[j] = "done" => st[j] = "done"
  BY DEF CoreTypeOK
<1>6. \A v \in Workers : at[v] \in {"notify", "write"} => at'[v] = at[v] /\ serves'[v] = serves[v]
  BY DEF CoreTypeOK, Threads
<1>7. Claimed' /\ NoLostCompletion'
  BY <1>5, <1>6, HandshakeKept
<1> QED BY <1>1, <1>2, <1>3, <1>4, <1>7

\* Runtime::run frees a job that neither the queue nor a worker has.
LEMMA EndsKeeps ==
  ASSUME PoolInv, NEW j \in Jobs, run_ends(j)
  PROVE  PoolInv'
<1> USE PoolAssumption DEF PoolInv, owners, jobs, tasks, counts, crew, pipes, run_ends, NoJob, Done, Running
<1>1. CoreTypeOK'
  BY DEF CoreTypeOK, JobsOwned, JobType, Runtimes, Places
<1>2. JobsLive'
  BY DEF CoreTypeOK, JobsLive, JobsOwned
<1>3. JobsOwned'
  BY DEF CoreTypeOK, JobsLive, JobsOwned
<1>4. GateHeld'
  BY DEF CoreTypeOK, JobsLive, GateHeld
<1>5. Claimed'
  BY DEF CoreTypeOK, JobsLive, GateHeld, Claimed
<1>6. NoLostCompletion'
  BY DEF CoreTypeOK, JobsLive, JobsOwned, GateHeld, Claimed, NoLostCompletion, Done
<1> QED BY <1>1, <1>2, <1>3, <1>4, <1>5, <1>6

\* A task that queues for the gate does not hold it.
LEMMA ChecksKeeps ==
  ASSUME PoolInv, NEW j \in Jobs, wait_checks(j)
  PROVE  PoolInv'
<1> USE PoolAssumption DEF PoolInv, owners, jobs, tasks, counts, crew, pipes, wait_checks, Done, Running
<1>1. CoreTypeOK'
  BY DEF CoreTypeOK, JobsOwned, JobType, Runtimes, Places
<1>2. JobsLive'
  BY DEF CoreTypeOK, JobsLive, JobsOwned
<1>3. JobsOwned'
  BY DEF CoreTypeOK, JobsLive, JobsOwned
<1>4. GateHeld'
  BY DEF CoreTypeOK, JobsLive, GateHeld
<1>5. Claimed'
  BY DEF CoreTypeOK, JobsLive, GateHeld, Claimed
<1>6. NoLostCompletion'
  BY DEF CoreTypeOK, JobsLive, JobsOwned, GateHeld, Claimed, NoLostCompletion, Done
<1> QED BY <1>1, <1>2, <1>3, <1>4, <1>5, <1>6

\* A task begins to read only when its job was not done under the gate.
LEMMA EntersKeeps ==
  ASSUME PoolInv, NEW j \in Jobs, wait_enters(j)
  PROVE  PoolInv'
<1> USE PoolAssumption DEF PoolInv, owners, jobs, tasks, counts, crew, pipes, wait_enters, Done
<1>1. CoreTypeOK'
  BY DEF CoreTypeOK, JobsOwned, JobType, Runtimes, Places
<1>2. JobsLive'
  BY DEF CoreTypeOK, JobsLive, JobsOwned
<1>3. JobsOwned'
  BY DEF CoreTypeOK, JobsLive, JobsOwned
<1>4. GateHeld'
  BY DEF CoreTypeOK, JobsLive, GateHeld
<1>5. Claimed'
  <2>1. \A k \in Jobs : task[k] = "ack" => task'[k] = "ack"
    BY DEF CoreTypeOK
  <2> QED BY <2>1 DEF Claimed
<1>6. NoLostCompletion'
  BY DEF CoreTypeOK, JobsLive, JobsOwned, GateHeld, Claimed, NoLostCompletion, Done
<1> QED BY <1>1, <1>2, <1>3, <1>4, <1>5, <1>6

\* The reader takes the byte and becomes the one that acknowledges.
LEMMA ReadsKeeps ==
  ASSUME PoolInv, NEW j \in Jobs, wait_reads(j)
  PROVE  PoolInv'
<1> USE PoolAssumption DEF PoolInv, owners, jobs, tasks, counts, crew, pipes, wait_reads
<1>1. CoreTypeOK'
  BY DEF CoreTypeOK, JobsOwned, JobType, Runtimes, Places
<1>2. JobsLive'
  BY DEF CoreTypeOK, JobsLive, JobsOwned
<1>3. JobsOwned'
  BY DEF CoreTypeOK, JobsLive, JobsOwned
<1>4. GateHeld'
  BY DEF CoreTypeOK, JobsLive, GateHeld
<1>5. Claimed'
  BY DEF CoreTypeOK, JobsLive, GateHeld, Claimed
<1>6. NoLostCompletion'
  BY DEF CoreTypeOK, JobsLive, JobsOwned, GateHeld, Claimed, NoLostCompletion, Done
<1> QED BY <1>1, <1>2, <1>3, <1>4, <1>5, <1>6

\* After the acknowledgement no task of the pool is reading.
LEMMA AcksKeeps ==
  ASSUME PoolInv, NEW j \in Jobs, wait_acks(j)
  PROVE  PoolInv'
<1> USE PoolAssumption DEF PoolInv, owners, jobs, tasks, counts, crew, pipes, wait_acks, Running
<1>1. CoreTypeOK'
  BY DEF CoreTypeOK, JobsOwned, JobType, Runtimes, Places
<1>2. JobsLive'
  BY DEF CoreTypeOK, JobsLive, JobsOwned
<1>3. JobsOwned'
  BY DEF CoreTypeOK, JobsLive, JobsOwned
<1>4. GateHeld'
  BY DEF CoreTypeOK, JobsLive, GateHeld
<1>5. Claimed'
  BY DEF CoreTypeOK, JobsLive, GateHeld, Claimed
<1>6. NoLostCompletion'
  BY DEF CoreTypeOK, JobsLive, JobsOwned, GateHeld, Claimed, NoLostCompletion, Done
<1> QED BY <1>1, <1>2, <1>3, <1>4, <1>5, <1>6

\* A cancelled task gives the gate back; the byte stays for the next reader.
LEMMA CancelledKeeps ==
  ASSUME PoolInv, NEW j \in Jobs, task_cancelled(j)
  PROVE  PoolInv'
<1> USE PoolAssumption DEF PoolInv, owners, jobs, tasks, counts, crew, pipes, task_cancelled
<1>1. CoreTypeOK'
  BY DEF CoreTypeOK, JobsOwned, JobType, Runtimes, Places
<1>2. JobsLive'
  BY DEF CoreTypeOK, JobsLive, JobsOwned
<1>3. JobsOwned'
  BY DEF CoreTypeOK, JobsLive, JobsOwned
<1>4. GateHeld'
  BY DEF CoreTypeOK, JobsLive, GateHeld
<1>5. Claimed'
  BY DEF CoreTypeOK, JobsLive, GateHeld, Claimed
<1>6. NoLostCompletion'
  BY DEF CoreTypeOK, JobsLive, JobsOwned, GateHeld, Claimed, NoLostCompletion, Done
<1> QED BY <1>1, <1>2, <1>3, <1>4, <1>5, <1>6

\* Stopping only marks the jobs cancelled.
LEMMA StopsKeeps ==
  ASSUME PoolInv, NEW p \in Pools, Runtime_stop(p)
  PROVE  PoolInv'
<1> USE PoolAssumption DEF PoolInv, owners, jobs, tasks, counts, crew, pipes, Runtime_stop
<1>1. CoreTypeOK'
  BY DEF CoreTypeOK, JobsOwned, JobType, Runtimes, Places
<1>2. JobsLive'
  BY DEF CoreTypeOK, JobsLive, JobsOwned
<1>3. JobsOwned'
  BY DEF CoreTypeOK, JobsLive, JobsOwned
<1>4. GateHeld'
  BY DEF CoreTypeOK, JobsLive, GateHeld
<1>5. \A j \in Jobs : st'[j] = "done" => st[j] = "done"
  BY DEF CoreTypeOK
<1>6. \A v \in Workers : at[v] \in {"notify", "write"} => at'[v] = at[v] /\ serves'[v] = serves[v]
  BY DEF CoreTypeOK, Threads
<1>7. Claimed' /\ NoLostCompletion'
  BY <1>5, <1>6, HandshakeKept
<1> QED BY <1>1, <1>2, <1>3, <1>4, <1>7

\* Closing only marks the jobs cancelled and waits.
LEMMA ClosesKeeps ==
  ASSUME PoolInv, NEW p \in Pools, Runtime_close(p)
  PROVE  PoolInv'
<1> USE PoolAssumption DEF PoolInv, owners, jobs, tasks, counts, crew, pipes, Runtime_close
<1>1. CoreTypeOK'
  BY DEF CoreTypeOK, JobsOwned, JobType, Runtimes, Places
<1>2. JobsLive'
  BY DEF CoreTypeOK, JobsLive, JobsOwned
<1>3. JobsOwned'
  BY DEF CoreTypeOK, JobsLive, JobsOwned
<1>4. GateHeld'
  BY DEF CoreTypeOK, JobsLive, GateHeld
<1>5. \A j \in Jobs : st'[j] = "done" => st[j] = "done"
  BY DEF CoreTypeOK
<1>6. \A v \in Workers : at[v] \in {"notify", "write"} => at'[v] = at[v] /\ serves'[v] = serves[v]
  BY DEF CoreTypeOK, Threads
<1>7. Claimed' /\ NoLostCompletion'
  BY <1>5, <1>6, HandshakeKept
<1> QED BY <1>1, <1>2, <1>3, <1>4, <1>7

\* A runtime is freed when it has no job.
LEMMA FreesKeeps ==
  ASSUME PoolInv, NEW p \in Pools, Runtime_frees(p)
  PROVE  PoolInv'
<1> USE PoolAssumption DEF PoolInv, owners, jobs, tasks, counts, crew, pipes, Runtime_frees, Free, JobsOf
<1>1. CoreTypeOK'
  BY DEF CoreTypeOK, JobsOwned, JobType, Runtimes, Places
<1>2. JobsLive'
  BY DEF CoreTypeOK, JobsLive, JobsOwned
<1>3. JobsOwned'
  BY DEF CoreTypeOK, JobsLive, JobsOwned
<1>4. GateHeld'
  BY DEF CoreTypeOK, JobsLive, GateHeld
<1>5. \A j \in Jobs : st'[j] = "done" => st[j] = "done"
  BY DEF CoreTypeOK
<1>6. \A v \in Workers : at[v] \in {"notify", "write"} => at'[v] = at[v] /\ serves'[v] = serves[v]
  BY DEF CoreTypeOK, Threads
<1>7. Claimed' /\ NoLostCompletion'
  BY <1>5, <1>6, HandshakeKept
<1> QED BY <1>1, <1>2, <1>3, <1>4, <1>7

\* A freed pool has no reader, and joined workers have nothing to notify.
LEMMA PoolFreeKeeps ==
  ASSUME PoolInv, hs_io_pool_free
  PROVE  PoolInv'
<1> USE PoolAssumption DEF PoolInv, owners, jobs, tasks, counts, crew, pipes, hs_io_pool_free, Threads
<1>1. CoreTypeOK'
  BY DEF CoreTypeOK, JobsOwned, JobType, Runtimes, Places
<1>2. JobsLive'
  BY DEF CoreTypeOK, JobsLive, JobsOwned
<1>3. JobsOwned'
  BY DEF CoreTypeOK, JobsLive, JobsOwned
<1>4. GateHeld'
  BY DEF CoreTypeOK, JobsLive, GateHeld
<1>5. \A v \in Workers : at[v] \in {"notify", "write"} => at'[v] = at[v] /\ serves'[v] = serves[v]
  BY DEF CoreTypeOK
<1>6. \A j \in Jobs : task[j] = "read" => job[j].pool # freeing
  BY DEF CoreTypeOK, JobsLive
<1>7. Claimed'
  BY <1>5 DEF CoreTypeOK, Claimed
<1>8. NoLostCompletion'
  <2> SUFFICES ASSUME NEW j \in Jobs, task[j] = "read", st[j] = "done"
               PROVE  \/ job[j].pool \in byte'
                      \/ \E v \in Workers : serves'[v] = job[j].pool /\ at'[v] \in {"notify", "write"}
    BY DEF NoLostCompletion, Done
  <2>1. \/ job[j].pool \in byte
        \/ \E v \in Workers : serves[v] = job[j].pool /\ at[v] \in {"notify", "write"}
    BY DEF NoLostCompletion, Done
  <2> QED BY <1>5, <1>6, <2>1
<1> QED BY <1>1, <1>2, <1>3, <1>4, <1>7, <1>8

\* A step that leaves all of this alone keeps it.
LEMMA QuietKeeps ==
  ASSUME PoolInv, UNCHANGED <<rt, freeing, job, st, task, gate, queue, crew, pipes>>
  PROVE  PoolInv'
<1> USE PoolAssumption DEF PoolInv, owners, jobs, tasks, counts, crew, pipes, Done
<1>1. CoreTypeOK'
  BY DEF CoreTypeOK, JobsOwned, JobType, Runtimes, Places
<1>2. JobsLive'
  BY DEF CoreTypeOK, JobsLive, JobsOwned
<1>3. JobsOwned'
  BY DEF CoreTypeOK, JobsLive, JobsOwned
<1>4. GateHeld'
  BY DEF CoreTypeOK, JobsLive, GateHeld
<1>5. \A j \in Jobs : st'[j] = "done" => st[j] = "done"
  BY DEF CoreTypeOK
<1>6. \A v \in Workers : at[v] \in {"notify", "write"} => at'[v] = at[v] /\ serves'[v] = serves[v]
  BY DEF CoreTypeOK, Threads
<1>7. Claimed' /\ NoLostCompletion'
  BY <1>5, <1>6, HandshakeKept
<1> QED BY <1>1, <1>2, <1>3, <1>4, <1>7

\* Every step keeps the invariant.
LEMMA PoolStep ==
  ASSUME PoolInv, HandleInv, [Next]_vars
  PROVE  PoolInv'
<1>1. ASSUME NEW p \in Pools, \/ Runtime_new(p) \/ Runtime_stop(p) \/ Runtime_close(p)
                              \/ Runtime_frees(p)
      PROVE  PoolInv'
  BY <1>1, NewKeeps, StopsKeeps, ClosesKeeps, FreesKeeps
<1>2. ASSUME NEW j \in Jobs, NEW p \in Pools, Runtime_open_root(j, p)
      PROVE  PoolInv'
  BY <1>2, SubmitKeeps DEF Runtime_open_root
<1>3. ASSUME NEW j \in Jobs, NEW f \in Files, NEW opens \in BOOLEAN, File_run(j, f, opens)
      PROVE  PoolInv'
  <2>1. home[f] \in Pools
    BY <1>3 DEF File_run, HandleInv
  <2> QED BY <1>3, <2>1, SubmitKeeps DEF File_run
<1>4. ASSUME NEW f \in Files, File_close(f) \/ File_frees(f)
      PROVE  PoolInv'
  BY <1>4, QuietKeeps DEF File_close, File_frees, owners, jobs, tasks, counts
<1>5. ASSUME NEW j \in Jobs, task_cancelled(j) \/ Wait(j)
      PROVE  PoolInv'
  BY <1>5, CancelledKeeps, ChecksKeeps, EntersKeeps, ReadsKeeps, AcksKeeps, EndsKeeps DEF Wait
<1>6. ASSUME NEW w \in Workers, Worker(w)
      PROVE  PoolInv'
  <2>1. CASE worker_waits(w)
    BY <2>1, QuietKeeps DEF worker_waits, owners, jobs, tasks, counts
  <2> QED BY <1>6, <2>1, TakesKeeps, RunsKeeps, PublishesKeeps, NotifyKeeps, WritesKeeps,
             LeavesKeeps, ExitsKeeps DEF Worker
<1>7. CASE Freeing
  <2>1. CASE pool_waits \/ pool_unlinks
    BY <2>1, QuietKeeps DEF pool_waits, pool_unlinks, owners, jobs, tasks, counts
  <2> QED BY <1>7, <2>1, PoolFreeKeeps DEF Freeing
<1>8. CASE UNCHANGED vars
  BY <1>8, QuietKeeps DEF vars, owners, jobs, tasks, counts
<1> QED BY <1>1, <1>2, <1>3, <1>4, <1>5, <1>6, <1>7, <1>8 DEF Next, Use

-----------------------------------------------------------------------------
(* The handles                                                              *)

\* A step that leaves handles and results alone keeps their ownership.
LEMMA HandlesKept ==
  ASSUME HandleInv, UNCHANGED <<files, result>>,
         \A j \in Jobs : st'[j] \in {"none", "queued"} => st[j] \in {"none", "queued"},
         \A w \in Workers : at'[w] = "took" => result[held'[w]] = None
  PROVE  HandleInv'
BY DEF HandleInv, files

\* Only hs_open makes a handle, in a free slot, for a job that has none.
LEMMA WorkerHandles ==
  ASSUME PoolInv, HandleInv, NEW w \in Workers, Worker(w)
  PROVE  HandleInv'
<1> USE DEF owners, files, jobs, tasks, counts, crew
<1>1. CASE worker_waits(w)
  BY <1>1, HandlesKept DEF worker_waits, HandleInv
<1>2. CASE worker_takes(w)
  <2>1. Head(queue) \in Jobs /\ st[Head(queue)] = "queued"
    BY <1>2 DEF worker_takes, PoolInv, CoreTypeOK, JobsOwned
  <2>2. \A j \in Jobs : st'[j] \in {"none", "queued"} => st[j] \in {"none", "queued"}
    BY <1>2, <2>1 DEF worker_takes, PoolInv, CoreTypeOK
  <2>3. \A v \in Workers : at'[v] = "took" => result[held'[v]] = None
    BY <1>2, <2>1 DEF worker_takes, PoolInv, CoreTypeOK, HandleInv
  <2> QED BY <1>2, <2>2, <2>3, HandlesKept DEF worker_takes
<1>3. CASE worker_runs(w)
  <2>1. /\ held[w] \in Jobs /\ st[held[w]] = "taken" /\ result[held[w]] = None
        /\ serves[w] \in Pools
    BY <1>3 DEF worker_runs, PoolInv, JobsOwned, HandleInv
  <2>2. \A v \in Workers : at'[v] = "took" => v # w /\ at[v] = "took"
    BY <1>3 DEF worker_runs, PoolInv, CoreTypeOK
  <2>3. CASE UNCHANGED <<files, result>>
    BY <1>3, <2>2, <2>3, HandlesKept DEF worker_runs, HandleInv
  <2>4. ASSUME NEW f \in Files, file[f] = "none", file' = [file EXCEPT ![f] = "result"],
               home' = [home EXCEPT ![f] = serves[w]], result' = [result EXCEPT ![held[w]] = f]
        PROVE  HandleInv'
    <3>1. \A v \in Workers : at'[v] = "took" => result'[held'[v]] = None
      BY <1>3, <2>1, <2>2, <2>4 DEF worker_runs, PoolInv, JobsOwned, HandleInv
    <3>2. \A j \in Jobs : st'[j] \in {"none", "queued"} => result'[j] = None
      BY <1>3, <2>1, <2>4 DEF worker_runs, HandleInv
    <3> QED BY <2>1, <2>4, <3>1, <3>2, PoolAssumption DEF HandleInv
  <2> QED BY <1>3, <2>3, <2>4 DEF worker_runs
<1>4. CASE worker_publishes(w)
  <2>1. held[w] \in Jobs
    BY <1>4 DEF worker_publishes, PoolInv, JobsOwned
  <2>2. \A j \in Jobs : st'[j] \in {"none", "queued"} => st[j] \in {"none", "queued"}
    BY <1>4, <2>1 DEF worker_publishes, PoolInv, CoreTypeOK
  <2>3. \A v \in Workers : at'[v] = "took" => v # w /\ at[v] = "took" /\ held'[v] = held[v]
    BY <1>4 DEF worker_publishes, PoolInv, CoreTypeOK
  <2> QED BY <1>4, <2>2, <2>3, HandlesKept DEF worker_publishes, HandleInv
<1>5. CASE hs_notify(w) \/ worker_writes(w) \/ worker_leaves(w) \/ worker_exits(w)
  <2>1. \A v \in Workers : at'[v] = "took" => at[v] = "took"
    BY <1>5 DEF hs_notify, worker_writes, worker_leaves, worker_exits, PoolInv, CoreTypeOK
  <2>2. UNCHANGED <<files, result, st, held>>
    BY <1>5 DEF hs_notify, worker_writes, worker_leaves, worker_exits
  <2> QED BY <2>1, <2>2, HandlesKept DEF HandleInv
<1> QED BY <1>1, <1>2, <1>3, <1>4, <1>5 DEF Worker

\* Runtime::run takes the handle or frees it with the job.
LEMMA TaskHandles ==
  ASSUME PoolInv, HandleInv, NEW j \in Jobs, Wait(j) \/ task_cancelled(j)
  PROVE  HandleInv'
<1> USE DEF owners, files, jobs, tasks, counts, crew
<1>1. CASE run_ends(j)
  <2>1. \A w \in Workers : at[w] = "took" => held[w] \in Jobs /\ held[w] # j
    BY <1>1 DEF run_ends, Done, PoolInv, JobsOwned
  <2>2. /\ UNCHANGED <<at, held>> /\ result' = [result EXCEPT ![j] = None]
        /\ st' = [st EXCEPT ![j] = "none"]
    BY <1>1 DEF run_ends
  <2>3. CASE result[j] = None
    BY <1>1, <2>1, <2>2, <2>3 DEF run_ends, Taken, HandleInv, PoolInv, CoreTypeOK
  <2>4. CASE result[j] # None
    <3>1. result[j] \in Files /\ file[result[j]] = "result"
      BY <2>4 DEF HandleInv
    <3>2. \/ file' = [file EXCEPT ![result[j]] = "open"] /\ home' = home
          \/ /\ file' = [file EXCEPT ![result[j]] = "none"]
             /\ home' = [home EXCEPT ![result[j]] = None]
      BY <1>1, <2>4 DEF run_ends, Taken
    <3>3. \A k \in Jobs : result'[k] = IF k = j THEN None ELSE result[k]
      BY <2>2 DEF HandleInv
    <3>4. \A k \in Jobs : result'[k] # None => k # j /\ result'[k] = result[k] /\ result[k] # result[j]
      BY <2>4, <3>3 DEF HandleInv
    <3>5. \A k \in Jobs : st'[k] \in {"none", "queued"} => result'[k] = None
      BY <2>2, <3>3 DEF HandleInv, PoolInv, CoreTypeOK
    <3>6. \A w \in Workers : at'[w] = "took" => result'[held'[w]] = None
      BY <2>1, <2>2, <3>3 DEF HandleInv
    <3>7. \A f \in Files : f # result[j] => file'[f] = file[f] /\ home'[f] = home[f]
      BY <3>1, <3>2 DEF HandleInv
    <3>8. /\ file'[result[j]] \in {"none", "open"}
          /\ file'[result[j]] = "open" => home'[result[j]] \in Pools
      BY <3>1, <3>2 DEF HandleInv
    <3>9. \A f \in Files : file'[f] = "result" => \E k \in Jobs : result'[k] = f
      BY <3>3, <3>7, <3>8 DEF HandleInv
    <3>10. /\ file' \in [Files -> {"none", "result", "open", "closing"}]
           /\ home' \in [Files -> Pools \cup {None}] /\ result' \in [Jobs -> Files \cup {None}]
      BY <2>2, <3>2 DEF HandleInv
    <3>11. \A f \in Files : file'[f] # "none" => home'[f] \in Pools
      BY <3>7, <3>8 DEF HandleInv
    <3>12. \A k \in Jobs : result'[k] # None => file'[result'[k]] = "result"
      BY <3>4, <3>7 DEF HandleInv
    <3>13. \A i, k \in Jobs : result'[i] # None /\ result'[i] = result'[k] => i = k
      BY <3>4 DEF HandleInv
    <3> QED BY <3>5, <3>6, <3>9, <3>10, <3>11, <3>12, <3>13 DEF HandleInv
  <2> QED BY <2>3, <2>4
<1>2. CASE wait_checks(j) \/ wait_enters(j) \/ wait_reads(j) \/ wait_acks(j) \/ task_cancelled(j)
  BY <1>2, HandlesKept
  DEF wait_checks, wait_enters, wait_reads, wait_acks, task_cancelled, HandleInv
<1> QED BY <1>1, <1>2 DEF Wait

\* Every step keeps the ownership of handles.
LEMMA HandleStep ==
  ASSUME PoolInv, HandleInv, [Next]_vars
  PROVE  HandleInv'
<1> USE DEF owners, files, jobs, tasks, counts, crew
<1>1. ASSUME NEW j \in Jobs, NEW p, NEW f, NEW opens, Submit(j, p, f, opens)
      PROVE  HandleInv'
  BY <1>1, HandlesKept DEF Submit, HandleInv, PoolInv, CoreTypeOK
<1>2. ASSUME NEW p \in Pools, Runtime_new(p)
      PROVE  HandleInv'
  <2>1. \A v \in Workers : at'[v] = "took" => at[v] = "took"
    BY <1>2 DEF Runtime_new
  <2> QED BY <1>2, <2>1, HandlesKept DEF Runtime_new, HandleInv
<1>3. ASSUME NEW p \in Pools, Runtime_stop(p) \/ Runtime_close(p) \/ Runtime_frees(p)
      PROVE  HandleInv'
  BY <1>3, HandlesKept DEF Runtime_stop, Runtime_close, Runtime_frees, HandleInv
<1>4. ASSUME NEW f \in Files, File_close(f)
      PROVE  HandleInv'
  BY <1>4 DEF File_close, HandleInv
<1>5. ASSUME NEW f \in Files, File_frees(f)
      PROVE  HandleInv'
  BY <1>5 DEF File_frees, HandleInv
<1>6. CASE Freeing
  <2>1. \A v \in Workers : at'[v] = "took" => at[v] = "took"
    BY <1>6 DEF Freeing, pool_waits, pool_unlinks, hs_io_pool_free
  <2>2. UNCHANGED <<files, result, st, held>>
    BY <1>6 DEF Freeing, pool_waits, pool_unlinks, hs_io_pool_free
  <2> QED BY <2>1, <2>2, HandlesKept DEF HandleInv
<1>7. CASE UNCHANGED vars
  BY <1>7, HandlesKept DEF vars, HandleInv
<1> QED BY <1>1, <1>2, <1>3, <1>4, <1>5, <1>6, <1>7, WorkerHandles, TaskHandles
        DEF Next, Use, Runtime_open_root, File_run

\* The handshake between the workers and the tasks: a notification that is claimed is on
\* its way, the gate has one holder, a job belongs to the queue or to one worker, and a
\* new handle to one job.
THEOREM PoolHandshake == Spec => [](PoolInv /\ HandleInv)
<1>1. Init => PoolInv /\ HandleInv
  BY PoolInit DEF Init, HandleInv
<1>2. PoolInv /\ HandleInv /\ [Next]_vars => (PoolInv /\ HandleInv)'
  BY PoolStep, HandleStep
<1> QED BY <1>1, <1>2, PTL DEF Spec

\* For any number of pools, jobs and workers, no task sleeps in Runtime::wait for a job
\* that is already done: the byte of hs_notify is in the pipe or is being written.
THEOREM PoolNoLostCompletion == Spec => []NoLostCompletion
<1>1. PoolInv => NoLostCompletion
  BY DEF PoolInv
<1> QED BY <1>1, PoolHandshake, PTL

\* For any number of jobs and files, a handle made by hs_open has exactly one job until
\* Runtime::run takes it or hs_io_job_free frees it: a cancelled open neither leaks nor
\* shares one.
THEOREM PoolHandlesExact == Spec => []HandlesExact
<1>1. ASSUME HandleInv, NEW f \in Files
      PROVE  Cardinality({j \in Jobs : result[j] = f}) = IF file[f] = "result" THEN 1 ELSE 0
  <2>1. CASE file[f] = "result"
    <3>1. PICK j \in Jobs : result[j] = f
      BY <1>1, <2>1 DEF HandleInv
    <3>2. {k \in Jobs : result[k] = f} = {j}
      BY <1>1, <3>1, PoolAssumption DEF HandleInv
    <3> QED BY <2>1, <3>2, FS_Singleton
  <2>2. CASE file[f] # "result"
    <3>1. {k \in Jobs : result[k] = f} = {}
      BY <1>1, <2>2, PoolAssumption DEF HandleInv
    <3> QED BY <2>2, <3>1, FS_EmptySet
  <2> QED BY <2>1, <2>2
<1>2. HandleInv => HandlesExact
  BY <1>1 DEF HandlesExact
<1> QED BY <1>2, PoolHandshake, PTL

-----------------------------------------------------------------------------
(* The tables, the counts and the workers awake                             *)

\* What the owner and the workers have on record besides.
TableTypeOK ==
  /\ closers \subseteq Pools /\ pools \subseteq Pools /\ stopping \in BOOLEAN
  /\ cancelled \subseteq Jobs /\ ok \subseteq Jobs /\ protected \subseteq Jobs
  /\ sleeping \subseteq Workers \cup {Owner}

\* A worker has a pool and a job exactly where it should, sleeps only before it has taken a job,
\* and exits only when the budget stops; a pool in use is attached, and the last one that goes
\* stops the budget.
TableInv ==
  /\ TableTypeOK
  /\ \A w \in Workers : /\ held[w] # None => at[w] \in {"took", "publish"}
                        /\ serves[w] # None => serves[w] \in pools /\
                                at[w] \in {"took", "publish", "notify", "write", "leave"}
                        /\ w \in sleeping => at[w] = "test"
                        /\ at[w] = "exit" => stopping
  /\ \A p \in Pools : rt[p] \in {"open", "closing"} => p \in pools
  /\ \A p \in Pools : rt[p] = "failed" => p = freeing
  /\ stopping => pools = {} /\ freeing # None
  /\ Owner \in sleeping => freeing \in pools

\* A job's file is not freed before the job, and a queued job is in the queue.
JobInv ==
  /\ \A j \in Jobs : job[j].file # None => file[job[j].file] \in {"open", "closing"}
  /\ \A j \in Jobs : st[j] = "queued" => \E i \in DOMAIN queue : queue[i] = j

Pending(p) == {j \in Jobs : st[j] = "queued" /\ job[j].pool = p}
Serving(p) == {w \in Workers : serves[w] = p}
Busy == {w \in Workers : serves[w] # None}
CountInv ==
  /\ count \in [Pools -> Int] /\ pactive \in [Pools -> Int] /\ bactive \in Int
  /\ \A p \in Pools : /\ IsFiniteSet(Pending(p)) /\ count[p] = Cardinality(Pending(p))
                      /\ pactive[p] = Cardinality(Serving(p))
  /\ bactive = Cardinality(Busy)

\* The workers are finitely many.
LEMMA CrewFinite ==
  /\ IsFiniteSet(Threads) /\ IsFiniteSet(Busy) /\ \A p : IsFiniteSet(Serving(p))
BY PoolAssumption, FS_Subset DEF Threads, Busy, Serving

\* The counts are kept by a step that queues no job, takes none and moves no worker.
LEMMA CountsKept ==
  ASSUME CountInv, UNCHANGED <<count, pactive, bactive, serves>>,
         \A j \in Jobs : /\ st'[j] = "queued" <=> st[j] = "queued"
                         /\ st[j] = "queued" => job'[j] = job[j]
  PROVE  CountInv'
<1>1. \A p : Pending(p)' = Pending(p)
  BY DEF Pending
<1>2. Busy' = Busy /\ \A p : Serving(p)' = Serving(p)
  BY DEF Busy, Serving
<1> QED BY <1>1, <1>2 DEF CountInv

\* A job more is queued for its pool.
LEMMA SubmitCounts ==
  ASSUME PoolInv, CountInv, NEW j \in Jobs, NEW p \in Pools, NEW f \in Files \cup {None},
         NEW opens \in BOOLEAN, Submit(j, p, f, opens)
  PROVE  CountInv'
<1>1. /\ st[j] = "none" /\ st' = [st EXCEPT ![j] = "queued"] /\ count' = [count EXCEPT ![p] = @ + 1]
      /\ job' = [job EXCEPT ![j] = [pool |-> p, file |-> f, opens |-> opens]]
      /\ UNCHANGED <<pactive, bactive, serves>>
  BY DEF Submit, Enqueue, crew
<1>2. st \in [Jobs -> {"none", "queued", "taken", "done"}] /\ job \in [Jobs -> JobType]
  BY DEF PoolInv, CoreTypeOK
<1>3. job'[j].pool = p /\ \A i \in Jobs \ {j} : job'[i] = job[i] /\ st'[i] = st[i]
  BY <1>1, <1>2
<1>4. \A q : Pending(q) \ {j} = Pending(q)' \ {j} /\ j \notin Pending(q) /\ (j \in Pending(q)' <=> q = p)
  BY <1>1, <1>2, <1>3 DEF Pending
<1>5. ASSUME NEW q \in Pools
      PROVE  IsFiniteSet(Pending(q)') /\ count'[q] = Cardinality(Pending(q)')
  <2>1. count[q] = Cardinality(Pending(q)) /\ IsFiniteSet(Pending(q))
    BY DEF CountInv
  <2>2. /\ IsFiniteSet(Pending(q)') /\ Cardinality(Pending(q)) \in Nat
        /\ Cardinality(Pending(q)') = Cardinality(Pending(q)) + IF q = p THEN 1 ELSE 0
    BY <1>4, <2>1, CountChange
  <2>3. count'[q] = count[q] + IF q = p THEN 1 ELSE 0
    BY <1>1 DEF CountInv
  <2> QED BY <2>1, <2>2, <2>3
<1>6. count' \in [Pools -> Int]
  BY <1>1 DEF CountInv
<1>7. Busy' = Busy /\ \A q : Serving(q)' = Serving(q)
  BY <1>1 DEF Busy, Serving
<1> QED BY <1>1, <1>5, <1>6, <1>7 DEF CountInv

\* A worker changes the pool it serves.
LEMMA ServesChange ==
  ASSUME NEW w \in Workers, NEW q \in Pools \cup {None}, CoreTypeOK,
         serves' = [serves EXCEPT ![w] = q]
  PROVE  /\ Cardinality(Busy) \in Nat
         /\ Cardinality(Busy)' = (Cardinality(Busy) - IF serves[w] # None THEN 1 ELSE 0)
                                 + IF q # None THEN 1 ELSE 0
         /\ \A p : /\ Cardinality(Serving(p)) \in Nat
                   /\ Cardinality(Serving(p))' = (Cardinality(Serving(p))
                           - IF serves[w] = p THEN 1 ELSE 0) + IF q = p THEN 1 ELSE 0
<1>1. \A v \in Workers : serves'[v] = IF v = w THEN q ELSE serves[v]
  BY DEF CoreTypeOK
<1>2. /\ Cardinality(Busy) \in Nat
      /\ Cardinality(Busy)' = (Cardinality(Busy) - IF w \in Busy THEN 1 ELSE 0)
                               + IF w \in Busy' THEN 1 ELSE 0
  <2>1. Busy \ {w} = Busy' \ {w}
    BY <1>1 DEF Busy
  <2> QED BY <2>1, CrewFinite, CountChange
<1>3. (w \in Busy <=> serves[w] # None) /\ (w \in Busy' <=> q # None)
  BY <1>1 DEF Busy
<1>4. ASSUME NEW p
      PROVE  /\ Cardinality(Serving(p)) \in Nat
             /\ Cardinality(Serving(p))' = (Cardinality(Serving(p))
                           - IF serves[w] = p THEN 1 ELSE 0) + IF q = p THEN 1 ELSE 0
  <2>1. Serving(p) \ {w} = Serving(p)' \ {w}
    BY <1>1 DEF Serving
  <2>2. (w \in Serving(p) <=> serves[w] = p) /\ (w \in Serving(p)' <=> q = p)
    BY <1>1 DEF Serving
  <2>3. /\ Cardinality(Serving(p)) \in Nat
        /\ Cardinality(Serving(p))' = (Cardinality(Serving(p)) - IF w \in Serving(p) THEN 1 ELSE 0)
                                      + IF w \in Serving(p)' THEN 1 ELSE 0
    BY <2>1, CrewFinite, CountChange
  <2> QED BY <2>2, <2>3
<1> QED BY <1>2, <1>3, <1>4

\* A job goes from the queue to a worker.
LEMMA TakeCounts ==
  ASSUME PoolInv, TableInv, CountInv, NEW w \in Workers, worker_takes(w)
  PROVE  CountInv'
<1> DEFINE j == Head(queue)
           p == job[j].pool
<1>1. /\ at[w] = "test" /\ queue # <<>> /\ count' = [count EXCEPT ![p] = @ - 1]
      /\ pactive' = [pactive EXCEPT ![p] = @ + 1] /\ bactive' = bactive + 1
      /\ serves' = [serves EXCEPT ![w] = p] /\ st' = [st EXCEPT ![j] = "taken"] /\ UNCHANGED job
  BY DEF worker_takes
<1>2. j \in Jobs /\ st[j] = "queued"
  BY <1>1 DEF PoolInv, CoreTypeOK, JobsOwned
<1>3. p \in Pools /\ p # None /\ serves[w] = None
  BY <1>1, <1>2, PoolAssumption DEF PoolInv, JobsLive, TableInv
<1> HIDE DEF j, p
<1>4. \A q : Pending(q) \ {j} = Pending(q)' \ {j} /\ j \notin Pending(q)'
  BY <1>1, <1>2 DEF Pending, PoolInv, CoreTypeOK
<1>5. \A q : j \in Pending(q) <=> q = p
  BY <1>2 DEF Pending, p
<1>6. ASSUME NEW q \in Pools
      PROVE  IsFiniteSet(Pending(q)') /\ count'[q] = Cardinality(Pending(q)')
  <2>1. count[q] = Cardinality(Pending(q)) /\ IsFiniteSet(Pending(q))
    BY DEF CountInv
  <2>2. /\ IsFiniteSet(Pending(q)') /\ Cardinality(Pending(q)) \in Nat
        /\ Cardinality(Pending(q)') = Cardinality(Pending(q)) - IF q = p THEN 1 ELSE 0
    BY <1>4, <1>5, <2>1, CountChange
  <2>3. count'[q] = count[q] - IF q = p THEN 1 ELSE 0
    BY <1>1 DEF CountInv
  <2> QED BY <2>1, <2>2, <2>3
<1>7. /\ Cardinality(Busy) \in Nat /\ Cardinality(Busy)' = Cardinality(Busy) + 1
      /\ \A q \in Pools : /\ Cardinality(Serving(q)) \in Nat
                          /\ Cardinality(Serving(q))' = Cardinality(Serving(q)) + IF p = q THEN 1 ELSE 0
  <2>1. CoreTypeOK /\ p \in Pools \cup {None} /\ \A q \in Pools : serves[w] # q
    BY <1>3, PoolAssumption DEF PoolInv
  <2>2. /\ Cardinality(Busy) \in Nat
        /\ Cardinality(Busy)' = (Cardinality(Busy) - IF serves[w] # None THEN 1 ELSE 0)
                                + IF p # None THEN 1 ELSE 0
        /\ \A q : /\ Cardinality(Serving(q)) \in Nat
                  /\ Cardinality(Serving(q))' = (Cardinality(Serving(q))
                           - IF serves[w] = q THEN 1 ELSE 0) + IF p = q THEN 1 ELSE 0
    BY <1>1, <2>1, ServesChange
  <2> QED BY <1>3, <2>1, <2>2
<1>8. \A q \in Pools : pactive'[q] = pactive[q] + IF p = q THEN 1 ELSE 0
  BY <1>1 DEF CountInv
<1>9. count' \in [Pools -> Int]
  BY <1>1, <1>3 DEF CountInv
<1>10. pactive' \in [Pools -> Int] /\ bactive' \in Int
  BY <1>1, <1>3 DEF CountInv
<1> QED BY <1>1, <1>6, <1>7, <1>8, <1>9, <1>10 DEF CountInv

\* A worker less serves its pool.
LEMMA LeaveCounts ==
  ASSUME PoolInv, CountInv, NEW w \in Workers, worker_leaves(w)
  PROVE  CountInv'
<1> DEFINE p == serves[w]
<1>1. /\ at[w] = "leave" /\ pactive' = [pactive EXCEPT ![p] = @ - 1] /\ bactive' = bactive - 1
      /\ serves' = [serves EXCEPT ![w] = None] /\ UNCHANGED <<st, job, count>>
  BY DEF worker_leaves, jobs
<1>2. p \in Pools /\ p # None /\ CoreTypeOK
  BY <1>1, PoolAssumption DEF PoolInv, JobsOwned
<1>3. \A q : Pending(q)' = Pending(q)
  BY <1>1 DEF Pending
<1>4. /\ Cardinality(Busy) \in Nat /\ Cardinality(Busy)' = Cardinality(Busy) - 1
      /\ \A q \in Pools : /\ Cardinality(Serving(q)) \in Nat
                          /\ Cardinality(Serving(q))' = Cardinality(Serving(q)) - IF p = q THEN 1 ELSE 0
  <2>1. \A q \in Pools : q # None
    BY PoolAssumption
  <2>2. /\ Cardinality(Busy) \in Nat
        /\ Cardinality(Busy)' = (Cardinality(Busy) - IF serves[w] # None THEN 1 ELSE 0)
                                + IF None # None THEN 1 ELSE 0
        /\ \A q : /\ Cardinality(Serving(q)) \in Nat
                  /\ Cardinality(Serving(q))' = (Cardinality(Serving(q))
                           - IF serves[w] = q THEN 1 ELSE 0) + IF None = q THEN 1 ELSE 0
    BY <1>1, <1>2, ServesChange
  <2> QED BY <1>2, <2>1, <2>2
<1> HIDE DEF p
<1>5. \A q \in Pools : pactive'[q] = pactive[q] - IF p = q THEN 1 ELSE 0
  BY <1>1 DEF CountInv
<1>6. pactive' \in [Pools -> Int] /\ bactive' \in Int
  BY <1>1, <1>2 DEF CountInv
<1> QED BY <1>1, <1>3, <1>4, <1>5, <1>6 DEF CountInv

\* Every step keeps the counts.
LEMMA CountStep ==
  ASSUME PoolInv, HandleInv, TableInv, CountInv, [Next]_vars
  PROVE  CountInv'
<1> USE DEF owners, jobs, tasks, counts, crew
<1>1. ASSUME NEW p \in Pools, \/ Runtime_new(p) \/ Runtime_stop(p) \/ Runtime_close(p)
                              \/ Runtime_frees(p)
      PROVE  CountInv'
  BY <1>1, CountsKept DEF Runtime_new, Runtime_stop, Runtime_close, Runtime_frees
<1>2. ASSUME NEW j \in Jobs, NEW p \in Pools, Runtime_open_root(j, p)
      PROVE  CountInv'
  BY <1>2, SubmitCounts DEF Runtime_open_root
<1>3. ASSUME NEW j \in Jobs, NEW f \in Files, NEW opens \in BOOLEAN, File_run(j, f, opens)
      PROVE  CountInv'
  <2>1. home[f] \in Pools
    BY <1>3 DEF File_run, HandleInv
  <2> QED BY <1>3, <2>1, SubmitCounts DEF File_run
<1>4. ASSUME NEW f \in Files, File_close(f) \/ File_frees(f)
      PROVE  CountInv'
  BY <1>4, CountsKept DEF File_close, File_frees
<1>5. ASSUME NEW j \in Jobs, task_cancelled(j) \/ Wait(j)
      PROVE  CountInv'
  <2>1. CASE run_ends(j)
    BY <2>1, CountsKept DEF run_ends, Done, PoolInv, CoreTypeOK
  <2> QED BY <1>5, <2>1, CountsKept
      DEF Wait, task_cancelled, wait_checks, wait_enters, wait_reads, wait_acks
<1>6. ASSUME NEW w \in Workers, Worker(w)
      PROVE  CountInv'
  <2>1. CASE worker_publishes(w)
    <3>1. held[w] \in Jobs /\ st[held[w]] = "taken"
      BY <2>1 DEF worker_publishes, PoolInv, JobsOwned
    <3> QED BY <2>1, <3>1, CountsKept DEF worker_publishes, PoolInv, CoreTypeOK
  <2>2. CASE worker_waits(w) \/ worker_runs(w) \/ hs_notify(w) \/ worker_writes(w) \/ worker_exits(w)
    BY <2>2, CountsKept DEF worker_waits, worker_runs, hs_notify, worker_writes, worker_exits
  <2> QED BY <1>6, <2>1, <2>2, TakeCounts, LeaveCounts DEF Worker
<1>7. CASE Freeing
  BY <1>7, CountsKept DEF Freeing, pool_waits, pool_unlinks, hs_io_pool_free
<1>8. CASE UNCHANGED vars
  BY <1>8, CountsKept DEF vars
<1> QED BY <1>1, <1>2, <1>3, <1>4, <1>5, <1>6, <1>7, <1>8 DEF Next, Use

\* The owner attaches a pool, and detaches none in use.
LEMMA TableOwner ==
  ASSUME PoolInv, TableInv, NEW p \in Pools,
         Runtime_new(p) \/ Runtime_stop(p) \/ Runtime_close(p) \/ Runtime_frees(p)
  PROVE  TableInv'
<1> USE PoolAssumption DEF owners, jobs, tasks, crew, budget, Free, PoolInv, CoreTypeOK
<1>1. CASE Runtime_new(p)
  <2>1. TableTypeOK'
    BY <1>1 DEF Runtime_new, TableInv, TableTypeOK
  <2>2. \A w \in Workers : at'[w] = at[w] \/ (at[w] = "none" /\ at'[w] = "test")
    BY <1>1 DEF Runtime_new, Threads
  <2> QED BY <1>1, <2>1, <2>2 DEF Runtime_new, TableInv, TableTypeOK
<1>2. CASE Runtime_stop(p)
  BY <1>2 DEF Runtime_stop, TableInv, TableTypeOK, JobsOf
<1>3. CASE Runtime_close(p)
  BY <1>3 DEF Runtime_close, TableInv, TableTypeOK, JobsOf
<1>4. CASE Runtime_frees(p)
  BY <1>4 DEF Runtime_frees, TableInv, TableTypeOK
<1> QED BY <1>1, <1>2, <1>3, <1>4

\* A worker takes a job and its pool together, and gives them up in turn.
LEMMA TableWorker ==
  ASSUME PoolInv, TableInv, NEW w \in Workers, Worker(w)
  PROVE  TableInv'
<1> USE PoolAssumption DEF owners, jobs, tasks, crew, budget, PoolInv, CoreTypeOK
<1>1. CASE worker_waits(w)
  BY <1>1 DEF worker_waits, TableInv, TableTypeOK
<1>2. CASE worker_takes(w)
  <2>1. /\ Head(queue) \in Jobs /\ job[Head(queue)].pool \in pools
    <3>1. Head(queue) \in Jobs /\ st[Head(queue)] = "queued"
      BY <1>2 DEF worker_takes, JobsOwned
    <3> QED BY <3>1 DEF JobsLive, TableInv
  <2>2. /\ UNCHANGED <<closers, pools, stopping, cancelled, ok, protected, sleeping, rt, freeing>>
        /\ at' = [at EXCEPT ![w] = "took"] /\ held' = [held EXCEPT ![w] = Head(queue)]
        /\ serves' = [serves EXCEPT ![w] = job[Head(queue)].pool] /\ w \notin sleeping
    BY <1>2 DEF worker_takes
  <2> QED BY <2>1, <2>2 DEF TableInv, TableTypeOK
<1>3. CASE worker_runs(w)
  <2>1. held[w] \in Jobs
    BY <1>3 DEF worker_runs, JobsOwned
  <2>2. TableTypeOK'
    BY <1>3, <2>1 DEF worker_runs, TableInv, TableTypeOK
  <2> QED BY <1>3, <2>2 DEF worker_runs, TableInv
<1>4. CASE worker_publishes(w)
  BY <1>4 DEF worker_publishes, TableInv, TableTypeOK
<1>5. CASE hs_notify(w)
  BY <1>5 DEF hs_notify, TableInv, TableTypeOK
<1>6. CASE worker_writes(w)
  BY <1>6 DEF worker_writes, TableInv, TableTypeOK
<1>7. CASE worker_leaves(w)
  BY <1>7 DEF worker_leaves, TableInv, TableTypeOK
<1>8. CASE worker_exits(w)
  BY <1>8 DEF worker_exits, TableInv, TableTypeOK
<1> QED BY <1>1, <1>2, <1>3, <1>4, <1>5, <1>6, <1>7, <1>8 DEF Worker

\* A pool is unlinked only when no worker serves it.
LEMMA TableFreeing ==
  ASSUME PoolInv, TableInv, CountInv, Freeing
  PROVE  TableInv'
<1> USE PoolAssumption DEF owners, jobs, tasks, crew, PoolInv, CoreTypeOK
<1>1. CASE pool_waits
  BY <1>1 DEF pool_waits, TableInv, TableTypeOK, budget
<1>2. CASE pool_unlinks
  <2>1. freeing \in Pools /\ rt[freeing] \in {"failed", "freeing"}
    BY <1>2 DEF pool_unlinks, JobsLive
  <2>2. \A w \in Workers : serves[w] # freeing
    <3>1. Cardinality(Serving(freeing)) = 0
      BY <1>2, <2>1 DEF pool_unlinks, CountInv
    <3>2. Serving(freeing) = {}
      BY <3>1, CrewFinite, FS_EmptySet
    <3> QED BY <3>2 DEF Serving
  <2>3. /\ pools' = pools \ {freeing} /\ stopping' = (pools' = {}) /\ sleeping' = {}
        /\ UNCHANGED <<rt, closers, freeing, cancelled, ok, protected, at, held, serves>>
        /\ freeing # None
    BY <1>2 DEF pool_unlinks
  <2>4. TableTypeOK'
    BY <2>3 DEF TableInv, TableTypeOK
  <2>5. \A w \in Workers : at[w] = "exit" => stopping'
    BY <2>3 DEF TableInv
  <2>6. stopping' => pools' = {}
    BY <2>3
  <2> QED BY <2>1, <2>2, <2>3, <2>4, <2>5, <2>6 DEF TableInv
<1>3. CASE hs_io_pool_free
  <2>1. /\ freeing \notin pools /\ freeing # None /\ freeing \in Pools
        /\ at' = IF stopping THEN [w \in Workers |-> "none"] ELSE at
        /\ stopping => \A w \in Threads : at[w] = "exit"
        /\ stopping' = FALSE /\ freeing' = None /\ rt' = [rt EXCEPT ![freeing] = "none"]
        /\ UNCHANGED <<closers, pools, cancelled, ok, protected, held, serves, sleeping>>
    BY <1>3 DEF hs_io_pool_free
  <2>2. \A w \in Workers : at'[w] = at[w] \/ (stopping /\ at[w] \in {"none", "exit"} /\ at'[w] = "none")
    BY <2>1 DEF Threads
  <2>3. \A w \in Workers : at'[w] # "exit"
    BY <2>1 DEF TableInv
  <2> QED BY <2>1, <2>2, <2>3 DEF TableInv, TableTypeOK
<1> QED BY <1>1, <1>2, <1>3 DEF Freeing

\* A step that at most wakes somebody or marks jobs cancelled.
LEMMA TableKept ==
  ASSUME TableInv, UNCHANGED <<rt, freeing, closers, pools, stopping, at, held, serves, ok>>,
         cancelled' \subseteq Jobs, protected' \subseteq Jobs, sleeping' \subseteq sleeping
  PROVE  TableInv'
BY DEF TableInv, TableTypeOK

\* Every step keeps the tables.
LEMMA TableStep ==
  ASSUME PoolInv, HandleInv, TableInv, CountInv, [Next]_vars
  PROVE  TableInv'
<1> USE DEF owners, jobs, tasks, counts, crew, budget
<1>0. cancelled \subseteq Jobs /\ protected \subseteq Jobs
  BY DEF TableInv, TableTypeOK
<1>1. ASSUME NEW j \in Jobs, NEW p, NEW f, NEW opens, Submit(j, p, f, opens)
      PROVE  TableInv'
  <2>1. sleeping' \subseteq sleeping
    BY <1>1 DEF Submit, Signal
  <2> QED BY <1>0, <1>1, <2>1, TableKept DEF Submit
<1>2. ASSUME NEW f \in Files, File_close(f) \/ File_frees(f)
      PROVE  TableInv'
  BY <1>0, <1>2, TableKept DEF File_close, File_frees, JobsOn
<1>3. ASSUME NEW j \in Jobs, task_cancelled(j) \/ Wait(j)
      PROVE  TableInv'
  <2>1. CASE run_ends(j)
    BY <1>0, <2>1 DEF run_ends, TableInv, TableTypeOK
  <2> QED BY <1>0, <1>3, <2>1, TableKept
      DEF Wait, task_cancelled, wait_checks, wait_enters, wait_reads, wait_acks
<1>4. CASE UNCHANGED vars
  BY <1>0, <1>4, TableKept DEF vars
<1> QED BY <1>1, <1>2, <1>3, <1>4, TableOwner, TableWorker, TableFreeing
        DEF Next, Use, Runtime_open_root, File_run

\* A step that queues no job and frees no file that is open.
LEMMA JobsKept ==
  ASSUME JobInv, UNCHANGED <<job, queue>>,
         \A j \in Jobs : st'[j] = "queued" => st[j] = "queued",
         \A f \in Files : file[f] \in {"open", "closing"} => file'[f] \in {"open", "closing"},
         CoreTypeOK
  PROVE  JobInv'
<1>1. \A j \in Jobs : job[j].file \in Files \cup {None}
  BY DEF CoreTypeOK, JobType
<1> QED BY <1>1 DEF JobInv

\* Every step keeps the jobs' files and the queue.
LEMMA JobStep ==
  ASSUME PoolInv, HandleInv, JobInv, [Next]_vars
  PROVE  JobInv'
<1> USE DEF owners, files, jobs, tasks, counts, crew
<1>0. CoreTypeOK /\ \A j \in Jobs : job[j].file \in Files \cup {None}
  BY DEF PoolInv, CoreTypeOK, JobType
<1>1. ASSUME NEW p \in Pools, \/ Runtime_new(p) \/ Runtime_stop(p) \/ Runtime_close(p)
                              \/ Runtime_frees(p)
      PROVE  JobInv'
  BY <1>0, <1>1, JobsKept DEF Runtime_new, Runtime_stop, Runtime_close, Runtime_frees
<1>2. ASSUME NEW j \in Jobs, NEW p, NEW f \in Files \cup {None}, f # None => file[f] = "open",
             NEW opens, Submit(j, p, f, opens)
      PROVE  JobInv'
  <2>1. /\ queue' = Append(queue, j) /\ st' = [st EXCEPT ![j] = "queued"] /\ file' = file
        /\ job' = [job EXCEPT ![j] = [pool |-> p, file |-> f, opens |-> opens]]
    BY <1>2 DEF Submit, Enqueue
  <2>2. \A i \in Jobs : job'[i].file # None => file'[job'[i].file] \in {"open", "closing"}
    BY <1>2, <2>1 DEF JobInv, PoolInv, CoreTypeOK
  <2>3. /\ DOMAIN queue \subseteq DOMAIN queue' /\ \A i \in DOMAIN queue : queue'[i] = queue[i]
        /\ Len(queue) + 1 \in DOMAIN queue' /\ queue'[Len(queue) + 1] = j
    BY <2>1 DEF PoolInv, CoreTypeOK
  <2>4. \A i \in Jobs : st'[i] = "queued" => \E k \in DOMAIN queue' : queue'[k] = i
    BY <2>1, <2>3 DEF JobInv, PoolInv, CoreTypeOK
  <2> QED BY <2>2, <2>4 DEF JobInv
<1>3. ASSUME NEW f \in Files, File_close(f) \/ File_frees(f)
      PROVE  JobInv'
  <2>1. CASE File_close(f)
    BY <1>0, <2>1, JobsKept DEF File_close, HandleInv
  <2>2. CASE File_frees(f)
    BY <1>0, <2>2 DEF File_frees, JobsOn, JobInv, HandleInv
  <2> QED BY <1>3, <2>1, <2>2
<1>4. ASSUME NEW j \in Jobs, task_cancelled(j) \/ Wait(j)
      PROVE  JobInv'
  <2>1. CASE run_ends(j)
    <3>1. /\ job' = [job EXCEPT ![j] = NoJob] /\ st' = [st EXCEPT ![j] = "none"] /\ queue' = queue
      BY <2>1 DEF run_ends
    <3>2. \A f \in Files : file[f] \in {"open", "closing"} => file'[f] = file[f]
      BY <2>1 DEF run_ends, Taken, HandleInv
    <3>3. \A i \in Jobs : job'[i].file # None => file'[job'[i].file] \in {"open", "closing"}
      BY <1>0, <3>1, <3>2 DEF JobInv, PoolInv, CoreTypeOK, NoJob
    <3>4. \A i \in Jobs : st'[i] = "queued" => \E k \in DOMAIN queue' : queue'[k] = i
      BY <3>1 DEF JobInv, PoolInv, CoreTypeOK
    <3> QED BY <3>3, <3>4 DEF JobInv
  <2> QED BY <1>0, <1>4, <2>1, JobsKept
      DEF Wait, task_cancelled, wait_checks, wait_enters, wait_reads, wait_acks
<1>5. ASSUME NEW w \in Workers, Worker(w)
      PROVE  JobInv'
  <2>1. CASE worker_takes(w)
    <3>1. /\ queue # <<>> /\ queue' = Tail(queue) /\ st' = [st EXCEPT ![Head(queue)] = "taken"]
          /\ UNCHANGED <<job, file>>
      BY <2>1 DEF worker_takes
    <3>2. queue \in Seq(Jobs) /\ Head(queue) = queue[1]
      BY <3>1 DEF PoolInv, CoreTypeOK
    <3>3. ASSUME NEW i \in Jobs, st'[i] = "queued"
          PROVE  \E k \in DOMAIN queue' : queue'[k] = i
      <4>1. i # Head(queue) /\ st[i] = "queued"
        BY <3>1, <3>3 DEF PoolInv, CoreTypeOK
      <4>2. PICK k \in DOMAIN queue : queue[k] = i
        BY <4>1 DEF JobInv
      <4>3. k # 1
        BY <3>2, <4>1, <4>2
      <4>4. k - 1 \in DOMAIN queue' /\ queue'[k - 1] = i
        BY <3>1, <3>2, <4>2, <4>3
      <4> QED BY <4>4
    <3> QED BY <3>1, <3>3 DEF JobInv
  <2>2. CASE worker_publishes(w)
    <3>1. held[w] \in Jobs
      BY <2>2 DEF worker_publishes, PoolInv, JobsOwned
    <3> QED BY <1>0, <2>2, <3>1, JobsKept DEF worker_publishes, CoreTypeOK
  <2>3. CASE worker_runs(w)
    <3>1. \A f \in Files : file[f] \in {"open", "closing"} => file'[f] = file[f]
      BY <2>3 DEF worker_runs, HandleInv
    <3> QED BY <1>0, <2>3, <3>1, JobsKept DEF worker_runs
  <2> QED BY <1>0, <1>5, <2>1, <2>2, <2>3, JobsKept
      DEF Worker, worker_waits, hs_notify, worker_writes, worker_leaves, worker_exits
<1>6. CASE Freeing
  BY <1>0, <1>6, JobsKept DEF Freeing, pool_waits, pool_unlinks, hs_io_pool_free
<1>7. CASE UNCHANGED vars
  BY <1>0, <1>7, JobsKept DEF vars
<1>8. ASSUME NEW j \in Jobs, NEW p \in Pools, Runtime_open_root(j, p)
      PROVE  JobInv'
  BY <1>2, <1>8 DEF Runtime_open_root
<1>9. ASSUME NEW j \in Jobs, NEW f \in Files, NEW opens \in BOOLEAN, File_run(j, f, opens)
      PROVE  JobInv'
  BY <1>2, <1>9 DEF File_run
<1> QED BY <1>1, <1>3, <1>4, <1>5, <1>6, <1>7, <1>8, <1>9 DEF Next, Use

-----------------------------------------------------------------------------
(* Enough workers awake                                                     *)

\* Every attached pool but one that could not be started has its threads.
Staffed == \A p \in pools : rt[p] # "failed" => WorkerLimit[p] <= Cardinality(Threads)

Awake == {w \in Threads \ sleeping : at[w] = "test"}

LimitOf(Q) == IF Q = {} THEN Cardinality(Workers) ELSE Min({WorkerLimit[p] : p \in Q})

\* The number of workers that may be active is the least limit of the pools attached.
LEMMA LimitIs ==
  ASSUME NEW Q \in SUBSET Pools, Q # {}
  PROVE  /\ LimitOf(Q) \in Nat /\ \A p \in Q : LimitOf(Q) <= WorkerLimit[p]
         /\ \E p \in Q : LimitOf(Q) = WorkerLimit[p]
<1> DEFINE S == {WorkerLimit[p] : p \in Q}
<1>1. S \in SUBSET Nat /\ S # {}
  <2>1. Cardinality(Workers) \in Nat
    BY PoolAssumption, FS_CardinalityType
  <2> QED BY <2>1, PoolAssumption
<1>2. LimitOf(Q) = Min(S)
  BY DEF LimitOf
<1>3. S \subseteq Nat /\ \A p \in Q : WorkerLimit[p] \in S
  BY <1>1
<1>4. \A s \in S : \E p \in Q : s = WorkerLimit[p]
  OBVIOUS
<1> HIDE DEF S
<1>5. Min(S) \in S /\ \A y \in S : Min(S) <= y
  BY <1>1, LeastNat
<1> QED BY <1>2, <1>3, <1>4, <1>5

\* As many workers are awake as there are jobs, or as may still run.
Ready == pools # {} => \/ Len(queue) <= Cardinality(Awake)
                       \/ LimitOf(pools) <= bactive + Cardinality(Awake)
StaffInv == Staffed /\ Ready

\* The sets of workers are finite.
LEMMA AwakeFinite ==
  /\ IsFiniteSet(Awake) /\ Cardinality(Awake) \in Nat /\ Cardinality(Threads) \in Nat
  /\ IsFiniteSet(Busy) /\ Cardinality(Busy) \in Nat
<1>1. IsFiniteSet(Awake)
  BY CrewFinite, FS_Subset DEF Awake
<1> QED BY <1>1, CrewFinite, FS_CardinalityType

\* That is what FullyUsed says.
LEMMA ReadyIs ==
  ASSUME PoolInv, TableInv, CountInv
  PROVE  Ready => FullyUsed
<1> SUFFICES ASSUME Ready, pools # {}
             PROVE  Min({Len(queue), IF bactive < WorkersLimit THEN WorkersLimit - bactive ELSE 0})
                      <= Cardinality({w \in Threads \ sleeping : at[w] = "test"})
  BY DEF FullyUsed
<1>1. Len(queue) \in Nat /\ bactive \in Nat /\ Cardinality(Awake) \in Nat
  BY AwakeFinite DEF PoolInv, CoreTypeOK, CountInv
<1>2. WorkersLimit = LimitOf(pools) /\ LimitOf(pools) \in Nat
  <2>1. pools \in SUBSET Pools
    BY DEF TableInv, TableTypeOK
  <2> QED BY <2>1, LimitIs DEF WorkersLimit, LimitOf
<1> DEFINE room == IF bactive < WorkersLimit THEN WorkersLimit - bactive ELSE 0
<1>3. room \in Nat /\ (LimitOf(pools) <= bactive + Cardinality(Awake) => room <= Cardinality(Awake))
  BY <1>1, <1>2
<1> HIDE DEF room
<1>4. Min({Len(queue), room}) = IF Len(queue) <= room THEN Len(queue) ELSE room
  BY <1>1, <1>3, MinOfTwo
<1>5. Len(queue) <= Cardinality(Awake) \/ room <= Cardinality(Awake)
  BY <1>3 DEF Ready
<1>6. Min({Len(queue), room}) <= Cardinality(Awake)
  BY <1>1, <1>3, <1>4, <1>5
<1> QED BY <1>6 DEF Awake, room

\* With nobody asleep, every thread that has not exited serves a pool or is awake.
LEMMA NobodySleeps ==
  ASSUME NEW a \in [Workers -> Places], NEW s \in [Workers -> Pools \cup {None}],
         \A w \in Workers : s[w] # None <=> a[w] \in {"took", "publish", "notify", "write", "leave"},
         \A w \in Workers : a[w] # "exit"
  PROVE  LET Up == {w \in Workers : a[w] # "none"}
             Idle == {w \in Workers : a[w] = "test"}
             Busied == {w \in Workers : s[w] # None}
         IN  Cardinality(Up) = Cardinality(Idle) + Cardinality(Busied)
<1> DEFINE Up == {w \in Workers : a[w] # "none"}
           Idle == {w \in Workers : a[w] = "test"}
           Busied == {w \in Workers : s[w] # None}
<1>1. IsFiniteSet(Idle) /\ IsFiniteSet(Busied)
  BY PoolAssumption, FS_Subset
<1>2. Idle \cup Busied = Up /\ Idle \cap Busied = {}
  BY DEF Places
<1> HIDE DEF Up, Idle, Busied
<1>3. Cardinality(Up) = Cardinality(Idle) + Cardinality(Busied) - Cardinality(Idle \cap Busied)
  BY <1>1, <1>2, FS_Union
<1>4. Cardinality(Idle \cap Busied) = 0 /\ Cardinality(Idle) \in Nat /\ Cardinality(Busied) \in Nat
  BY <1>1, <1>2, FS_EmptySet, FS_CardinalityType
<1>5. Cardinality(Up) = Cardinality(Idle) + Cardinality(Busied)
  BY <1>3, <1>4
<1> QED BY <1>5 DEF Up, Idle, Busied

\* A step that moves no worker into or out of the loop's test.
LEMMA StaffKept ==
  ASSUME StaffInv, UNCHANGED <<pools, queue, bactive>>, Awake' = Awake, Threads' = Threads,
         \A p \in pools : rt[p] = "failed" => rt'[p] = "failed"
  PROVE  StaffInv'
BY DEF StaffInv, Staffed, Ready

\* A queued job is for a pool that has its threads.
LEMMA QueueStaffed ==
  ASSUME PoolInv, TableInv, StaffInv, queue # <<>>
  PROVE  \E p \in pools \ {freeing} : WorkerLimit[p] <= Cardinality(Threads)
<1> DEFINE p == job[queue[1]].pool
<1>1. 1 \in DOMAIN queue /\ queue[1] \in Jobs /\ st[queue[1]] = "queued"
  BY DEF PoolInv, CoreTypeOK, JobsOwned
<1>2. p \in Pools /\ rt[p] \in {"open", "closing"}
  BY <1>1 DEF PoolInv, JobsLive
<1>3. p \in pools /\ p # freeing
  BY <1>2, PoolAssumption DEF TableInv, PoolInv, JobsLive
<1> HIDE DEF p
<1>4. WorkerLimit[p] <= Cardinality(Threads)
  BY <1>2, <1>3 DEF StaffInv, Staffed
<1> QED BY <1>3, <1>4

\* More threads and pools: the limit may only fall, and only the new pool may lack threads.
LEMMA NewStaff ==
  ASSUME PoolInv, TableInv, CountInv, StaffInv, NEW p \in Pools, Runtime_new(p)
  PROVE  StaffInv'
<1>1. PICK new \in SUBSET (Workers \ Threads) :
        /\ at' = [w \in Workers |-> IF w \in new THEN "test" ELSE at[w]]
        /\ rt' = [rt EXCEPT ![p] = IF Cardinality(Threads \cup new) >= WorkerLimit[p]
                                   THEN "open" ELSE "failed"]
  BY DEF Runtime_new
<1>2. pools' = pools \cup {p} /\ freeing = None /\ UNCHANGED <<queue, bactive, sleeping>>
  BY DEF Runtime_new, Free, counts
<1>3. rt \in [Pools -> Runtimes] /\ at \in [Workers -> Places] /\ pools \in SUBSET Pools
  BY DEF PoolInv, CoreTypeOK, TableInv, TableTypeOK
<1>4. Threads' = Threads \cup new
  BY <1>1 DEF Threads
<1>5. Awake \subseteq Awake'
  BY <1>1, <1>2, <1>4 DEF Awake, Threads
<1>6. /\ IsFiniteSet(Threads') /\ IsFiniteSet(Awake')
      /\ Cardinality(Threads) <= Cardinality(Threads') /\ Cardinality(Awake) <= Cardinality(Awake')
      /\ Cardinality(Threads') \in Nat /\ Cardinality(Awake') \in Nat
  <2>1. IsFiniteSet(Threads') /\ IsFiniteSet(Awake')
    BY PoolAssumption, FS_Subset DEF Threads, Awake
  <2>2. Threads \in SUBSET Threads' /\ Awake \in SUBSET Awake'
    BY <1>4, <1>5
  <2>3. Cardinality(Threads) <= Cardinality(Threads')
    BY <2>1, <2>2, FS_Subset
  <2>4. Cardinality(Awake) <= Cardinality(Awake')
    BY <2>1, <2>2, FS_Subset
  <2> QED BY <2>1, <2>3, <2>4, FS_CardinalityType
<1>7. Cardinality(Threads) \in Nat /\ Cardinality(Awake) \in Nat /\ bactive \in Int /\ Len(queue) \in Nat
  BY AwakeFinite DEF CountInv, PoolInv, CoreTypeOK
<1>8. \A q \in Pools : WorkerLimit[q] \in Nat
  BY PoolAssumption, FS_CardinalityType
<1>9. Staffed'
  <2> SUFFICES ASSUME NEW q \in pools', rt'[q] # "failed"
               PROVE  WorkerLimit[q] <= Cardinality(Threads')
    BY DEF Staffed
  <2>1. CASE q = p
    BY <1>1, <1>3, <1>4, <1>6, <1>8, <2>1
  <2>2. CASE q # p
    <3>1. q \in pools /\ rt[q] # "failed" /\ q \in Pools
      BY <1>1, <1>2, <1>3, <2>2
    <3>2. WorkerLimit[q] <= Cardinality(Threads)
      BY <3>1 DEF StaffInv, Staffed
    <3> QED BY <1>6, <1>7, <1>8, <3>1, <3>2
  <2> QED BY <2>1, <2>2
<1>10. Ready'
  <2>1. CASE queue = <<>>
    BY <1>2, <1>6, <2>1 DEF Ready
  <2>2. CASE queue # <<>>
    <3>1. pools # {}
      BY <2>2, QueueStaffed
    <3>2. LimitOf(pools') \in Nat /\ LimitOf(pools) \in Nat /\ LimitOf(pools') <= LimitOf(pools)
      <4>1. pools' \in SUBSET Pools /\ pools' # {} /\ pools \subseteq pools'
        BY <1>2, <1>3
      <4>2. /\ LimitOf(pools) \in Nat /\ \E q \in pools : LimitOf(pools) = WorkerLimit[q]
        BY <1>3, <3>1, LimitIs
      <4>3. LimitOf(pools') \in Nat /\ \A q \in pools' : LimitOf(pools') <= WorkerLimit[q]
        BY <4>1, LimitIs
      <4> QED BY <4>1, <4>2, <4>3
    <3>3. Len(queue) <= Cardinality(Awake) \/ LimitOf(pools) <= bactive + Cardinality(Awake)
      BY <3>1 DEF StaffInv, Ready
    <3>4. Len(queue) <= Cardinality(Awake') \/ LimitOf(pools') <= bactive + Cardinality(Awake')
      BY <1>6, <1>7, <3>2, <3>3
    <3> QED BY <1>2, <3>4 DEF Ready
  <2> QED BY <2>1, <2>2
<1> QED BY <1>9, <1>10 DEF StaffInv

\* A job more: a sleeper is signalled, or nobody sleeps and the threads are enough.
LEMMA SubmitStaff ==
  ASSUME PoolInv, TableInv, CountInv, StaffInv, NEW j \in Jobs, NEW p \in Pools, NEW f, NEW opens,
         Submit(j, p, f, opens)
  PROVE  StaffInv'
<1>1. /\ freeing = None /\ rt[p] = "open" /\ queue' = Append(queue, j) /\ Signal
      /\ UNCHANGED <<rt, pools, stopping, bactive, at, serves>>
  BY DEF Submit, Free, Enqueue, owners, budget, crew
<1>2. Len(queue) \in Nat /\ Len(queue') = Len(queue) + 1 /\ bactive \in Int /\ Cardinality(Awake) \in Nat
      /\ Cardinality(Threads) \in Nat
  BY <1>1, AwakeFinite DEF PoolInv, CoreTypeOK, CountInv
<1>3. Threads' = Threads /\ Staffed'
  BY <1>1 DEF Threads, StaffInv, Staffed
<1>4. p \in pools /\ pools \in SUBSET Pools /\ ~stopping
  BY <1>1 DEF TableInv, TableTypeOK
<1>5. LimitOf(pools) \in Nat /\ LimitOf(pools) <= WorkerLimit[p] /\ WorkerLimit[p] \in Nat
  BY <1>4, LimitIs, PoolAssumption, FS_CardinalityType
<1>6. CASE sleeping = {}
  <2>1. Awake = {w \in Workers : at[w] = "test"} /\ Awake' = Awake
    BY <1>1, <1>6 DEF Awake, Threads, Signal
  <2>2. Cardinality(Threads) = Cardinality(Awake) + Cardinality(Busy)
    <3>1. \A w \in Workers : at[w] # "exit"
      BY <1>4 DEF TableInv
    <3>2. \A w \in Workers : serves[w] # None <=> at[w] \in {"took", "publish", "notify", "write", "leave"}
      BY PoolAssumption DEF TableInv, PoolInv, JobsOwned
    <3>3. at \in [Workers -> Places] /\ serves \in [Workers -> Pools \cup {None}]
      BY DEF PoolInv, CoreTypeOK
    <3> QED BY <2>1, <3>1, <3>2, <3>3, NobodySleeps DEF Threads, Busy
  <2>3. WorkerLimit[p] <= Cardinality(Threads) /\ bactive = Cardinality(Busy)
    BY <1>1, <1>4 DEF StaffInv, Staffed, CountInv
  <2>4. LimitOf(pools) <= bactive + Cardinality(Awake)
    BY <1>2, <1>5, <2>2, <2>3
  <2> QED BY <1>1, <1>3, <2>1, <2>4 DEF StaffInv, Ready
<1>7. CASE sleeping # {}
  <2>1. PICK w \in sleeping : sleeping' = sleeping \ {w}
    BY <1>1, <1>7 DEF Signal
  <2>2. w \in Workers /\ at[w] = "test"
    BY <1>1, <2>1, PoolAssumption DEF TableInv, TableTypeOK
  <2>3. Awake \ {w} = Awake' \ {w} /\ w \notin Awake /\ w \in Awake'
    BY <1>1, <2>1, <2>2 DEF Awake, Threads
  <2>4. Cardinality(Awake') = Cardinality(Awake) + 1
    <3>1. Cardinality(Awake') = (Cardinality(Awake) - IF w \in Awake THEN 1 ELSE 0)
                                + IF w \in Awake' THEN 1 ELSE 0
      BY <2>3, AwakeFinite, CountChange
    <3> QED BY <1>2, <2>3, <3>1
  <2>5. Len(queue) <= Cardinality(Awake) \/ LimitOf(pools) <= bactive + Cardinality(Awake)
    BY <1>4 DEF StaffInv, Ready
  <2>6. Len(queue') <= Cardinality(Awake') \/ LimitOf(pools) <= bactive + Cardinality(Awake')
    BY <1>2, <1>5, <2>4, <2>5
  <2> QED BY <1>1, <1>3, <2>6 DEF StaffInv, Ready
<1> QED BY <1>6, <1>7

\* One worker takes one job.
LEMMA TakeStaff ==
  ASSUME PoolInv, TableInv, CountInv, StaffInv, NEW w \in Workers, worker_takes(w)
  PROVE  StaffInv'
<1>1. /\ at[w] = "test" /\ w \notin sleeping /\ queue # <<>> /\ queue' = Tail(queue)
      /\ bactive' = bactive + 1 /\ at' = [at EXCEPT ![w] = "took"]
      /\ UNCHANGED <<rt, pools, sleeping>>
  BY DEF worker_takes, owners, budget
<1>2. Len(queue) \in Nat /\ Len(queue') = Len(queue) - 1 /\ bactive \in Int /\ Cardinality(Awake) \in Nat
  BY <1>1, AwakeFinite DEF PoolInv, CoreTypeOK, CountInv
<1>3. \A v \in Workers : at'[v] = IF v = w THEN "took" ELSE at[v]
  BY <1>1 DEF PoolInv, CoreTypeOK
<1>4. Threads' = Threads /\ Staffed'
  BY <1>1, <1>3 DEF Threads, StaffInv, Staffed
<1>5. Cardinality(Awake') = Cardinality(Awake) - 1
  <2>1. Awake \ {w} = Awake' \ {w} /\ w \in Awake /\ w \notin Awake'
    BY <1>1, <1>3 DEF Awake, Threads
  <2> QED BY <1>2, <2>1, AwakeFinite, CountChange
<1>6. Ready'
  <2> SUFFICES ASSUME pools # {}
               PROVE  \/ Len(queue') <= Cardinality(Awake')
                      \/ LimitOf(pools) <= bactive' + Cardinality(Awake')
    BY <1>1 DEF Ready
  <2>1. Len(queue) <= Cardinality(Awake) \/ LimitOf(pools) <= bactive + Cardinality(Awake)
    BY DEF StaffInv, Ready
  <2>2. LimitOf(pools) \in Nat
    BY LimitIs DEF TableInv, TableTypeOK
  <2> QED BY <1>1, <1>2, <1>5, <2>1, <2>2
<1> QED BY <1>4, <1>6 DEF StaffInv

\* A step that wakes everybody finds the threads enough for every pool that has a job queued.
LEMMA WakeStaff ==
  ASSUME PoolInv, TableInv, CountInv, StaffInv, PoolInv', TableInv', CountInv',
         sleeping' = {}, pools' \subseteq pools, pools \ {freeing} \subseteq pools',
         UNCHANGED <<queue, rt>>, Threads' = Threads
  PROVE  StaffInv'
<1>1. Staffed'
  BY DEF StaffInv, Staffed
<1>2. Ready'
  <2> SUFFICES ASSUME pools' # {}, queue # <<>>
               PROVE  LimitOf(pools') <= bactive' + Cardinality(Awake')
    <3>1. IsFiniteSet(Awake') /\ Len(<<>>) = 0
      BY PoolAssumption, FS_Subset DEF Awake, Threads
    <3>2. Cardinality(Awake') \in Nat
      BY <3>1, FS_CardinalityType
    <3> QED BY <3>1, <3>2 DEF Ready
  <2>1. PICK p \in pools' : WorkerLimit[p] <= Cardinality(Threads)
    BY QueueStaffed
  <2>2. LimitOf(pools') \in Nat /\ LimitOf(pools') <= WorkerLimit[p] /\ WorkerLimit[p] \in Nat
    <3>1. pools' \in SUBSET Pools
      BY DEF TableInv, TableTypeOK
    <3> QED BY <3>1, LimitIs, PoolAssumption, FS_CardinalityType
  <2>3. Awake' = {w \in Workers : at'[w] = "test"}
    BY DEF Awake, Threads
  <2>4. Cardinality(Threads') = Cardinality(Awake') + Cardinality(Busy')
    <3>1. \A w \in Workers : at'[w] # "exit"
      BY DEF TableInv
    <3>2. \A w \in Workers : serves'[w] # None <=> at'[w] \in {"took", "publish", "notify", "write", "leave"}
      BY PoolAssumption DEF TableInv, PoolInv, JobsOwned
    <3>3. at' \in [Workers -> Places] /\ serves' \in [Workers -> Pools \cup {None}]
      BY DEF PoolInv, CoreTypeOK
    <3> QED BY <2>3, <3>1, <3>2, <3>3, NobodySleeps DEF Threads, Busy
  <2>5. bactive' = Cardinality(Busy')
    BY DEF CountInv
  <2>6. Cardinality(Threads) \in Nat
    BY AwakeFinite
  <2>7. Cardinality(Awake') \in Nat /\ Cardinality(Busy') \in Nat
    BY PoolAssumption, FS_Subset, FS_CardinalityType DEF Awake, Threads, Busy
  <2> QED BY <2>1, <2>2, <2>4, <2>5, <2>6, <2>7
<1> QED BY <1>1, <1>2 DEF StaffInv

\* Every step leaves enough workers awake.
LEMMA StaffStep ==
  ASSUME PoolInv, HandleInv, TableInv, CountInv, StaffInv, [Next]_vars, PoolInv', TableInv', CountInv'
  PROVE  StaffInv'
<1> USE DEF owners, jobs, tasks, counts, crew, budget
<1>0. /\ at \in [Workers -> Places] /\ rt \in [Pools -> Runtimes]
      /\ bactive \in Int /\ pools \in SUBSET Pools
  BY DEF PoolInv, CoreTypeOK, CountInv, TableInv, TableTypeOK
<1>1. ASSUME NEW p \in Pools, Runtime_stop(p) \/ Runtime_close(p) \/ Runtime_frees(p)
      PROVE  StaffInv'
  <2>1. \A q \in pools : rt[q] = "failed" => rt'[q] = "failed"
    BY <1>0, <1>1, PoolAssumption DEF Runtime_stop, Runtime_close, Runtime_frees, Free, TableInv
  <2>2. UNCHANGED <<pools, queue, bactive, at, sleeping>>
    BY <1>1 DEF Runtime_stop, Runtime_close, Runtime_frees
  <2>3. Threads' = Threads /\ Awake' = Awake
    BY <2>2 DEF Threads, Awake
  <2> QED BY <2>1, <2>2, <2>3, StaffKept
<1>2. ASSUME NEW j \in Jobs, NEW p \in Pools, Runtime_open_root(j, p)
      PROVE  StaffInv'
  BY <1>2, SubmitStaff DEF Runtime_open_root
<1>3. ASSUME NEW j \in Jobs, NEW f \in Files, NEW opens \in BOOLEAN, File_run(j, f, opens)
      PROVE  StaffInv'
  <2>1. home[f] \in Pools
    BY <1>3 DEF File_run, HandleInv
  <2> QED BY <1>3, <2>1, SubmitStaff DEF File_run
<1>4. ASSUME UNCHANGED <<rt, pools, queue, bactive, at, sleeping>>
      PROVE  StaffInv'
  <2>1. Threads' = Threads /\ Awake' = Awake
    BY <1>4 DEF Threads, Awake
  <2> QED BY <1>4, <2>1, StaffKept
<1>5. ASSUME NEW f \in Files, File_close(f) \/ File_frees(f)
      PROVE  StaffInv'
  BY <1>4, <1>5 DEF File_close, File_frees
<1>6. ASSUME NEW j \in Jobs, task_cancelled(j) \/ Wait(j)
      PROVE  StaffInv'
  BY <1>4, <1>6 DEF Wait, task_cancelled, wait_checks, wait_enters, wait_reads, wait_acks, run_ends
<1>7. ASSUME NEW w \in Workers, Worker(w)
      PROVE  StaffInv'
  <2>1. CASE worker_waits(w)
    <3>1. /\ queue = <<>> \/ bactive >= WorkersLimit
          /\ UNCHANGED <<rt, pools, queue, bactive, at>>
      BY <2>1 DEF worker_waits
    <3>2. Threads' = Threads /\ Staffed'
      BY <3>1 DEF Threads, StaffInv, Staffed
    <3>3. Cardinality(Awake') \in Nat /\ Len(<<>>) = 0
      BY PoolAssumption, FS_Subset, FS_CardinalityType DEF Awake, Threads
    <3>4. WorkersLimit = LimitOf(pools) /\ (pools # {} => LimitOf(pools) \in Nat)
      BY <1>0, LimitIs DEF WorkersLimit, LimitOf
    <3>5. Ready'
      BY <1>0, <3>1, <3>3, <3>4 DEF Ready
    <3> QED BY <3>2, <3>5 DEF StaffInv
  <2>2. CASE worker_runs(w) \/ worker_publishes(w) \/ hs_notify(w) \/ worker_writes(w)
    <3>1. /\ at[w] \notin {"none", "test"} /\ UNCHANGED <<rt, pools, queue, bactive, sleeping>>
          /\ \E place \in {"publish", "notify", "leave", "write"} : at' = [at EXCEPT ![w] = place]
      BY <2>2 DEF worker_runs, worker_publishes, hs_notify, worker_writes
    <3>2. Threads' = Threads /\ Awake' = Awake
      BY <1>0, <3>1 DEF Threads, Awake
    <3> QED BY <3>1, <3>2, StaffKept
  <2>3. CASE worker_leaves(w)
    <3>1. /\ at[w] = "leave" /\ at' = [at EXCEPT ![w] = "test"] /\ sleeping' = {}
          /\ UNCHANGED <<rt, pools, queue>>
      BY <2>3 DEF worker_leaves
    <3>2. Threads' = Threads
      BY <1>0, <3>1 DEF Threads
    <3> QED BY <3>1, <3>2, WakeStaff
  <2>4. CASE worker_exits(w)
    <3>1. pools' = {}
      BY <2>4 DEF worker_exits, TableInv
    <3> QED BY <3>1 DEF StaffInv, Staffed, Ready
  <2> QED BY <1>7, <2>1, <2>2, <2>3, <2>4, TakeStaff DEF Worker
<1>8. CASE Freeing
  <2>1. CASE pool_waits
    <3>1. UNCHANGED <<rt, pools, queue, bactive, at>> /\ sleeping' = sleeping \cup {Owner}
      BY <2>1 DEF pool_waits
    <3>2. Threads' = Threads /\ Awake' = Awake
      BY <3>1, PoolAssumption DEF Threads, Awake
    <3> QED BY <3>1, <3>2, StaffKept
  <2>2. CASE pool_unlinks
    <3>1. UNCHANGED <<rt, queue, at>> /\ sleeping' = {} /\ pools' = pools \ {freeing}
      BY <2>2 DEF pool_unlinks
    <3>2. Threads' = Threads
      BY <3>1 DEF Threads
    <3> QED BY <3>1, <3>2, WakeStaff
  <2>3. CASE hs_io_pool_free
    <3>1. /\ freeing \notin pools /\ rt' = [rt EXCEPT ![freeing] = "none"]
          /\ at' = (IF stopping THEN [w \in Workers |-> "none"] ELSE at)
          /\ UNCHANGED <<pools, queue, bactive, sleeping>>
      BY <2>3 DEF hs_io_pool_free
    <3>2. CASE stopping
      <4>1. pools' = {}
        BY <3>1, <3>2 DEF TableInv
      <4> QED BY <4>1 DEF StaffInv, Staffed, Ready
    <3>3. CASE ~stopping
      <4>1. \A q \in pools : rt'[q] = rt[q]
        BY <1>0, <3>1
      <4>2. Threads' = Threads /\ Awake' = Awake
        BY <3>1, <3>3 DEF Threads, Awake
      <4> QED BY <3>1, <4>1, <4>2, StaffKept
    <3> QED BY <3>2, <3>3
  <2> QED BY <1>8, <2>1, <2>2, <2>3 DEF Freeing
<1>9. CASE UNCHANGED vars
  BY <1>4, <1>9 DEF vars
<1> QED BY <1>1, <1>2, <1>3, <1>5, <1>6, <1>7, <1>8, <1>9, NewStaff DEF Next, Use

ExecutorInv == PoolInv /\ HandleInv /\ TableInv /\ JobInv /\ CountInv /\ StaffInv

\* Before any runtime exists there is nothing to count.
LEMMA ExecutorInit == Init => ExecutorInv
<1> SUFFICES ASSUME Init PROVE ExecutorInv
  OBVIOUS
<1>1. PoolInv /\ HandleInv
  BY PoolInit DEF Init, HandleInv
<1>2. TableInv
  BY PoolAssumption DEF Init, TableInv, TableTypeOK
<1>3. JobInv
  BY DEF Init, JobInv, NoJob
<1>4. CountInv
  <2>1. \A p : Pending(p) = {}
    BY DEF Init, Pending
  <2>2. Busy = {} /\ \A p \in Pools : Serving(p) = {}
    BY PoolAssumption DEF Init, Busy, Serving
  <2>3. Cardinality({}) = 0 /\ IsFiniteSet({})
    BY FS_EmptySet
  <2>4. /\ count \in [Pools -> Int] /\ pactive \in [Pools -> Int] /\ bactive = 0
        /\ \A p \in Pools : count[p] = 0 /\ pactive[p] = 0
    BY DEF Init
  <2> QED BY <2>1, <2>2, <2>3, <2>4 DEF CountInv
<1>5. StaffInv
  BY DEF Init, StaffInv, Staffed, Ready
<1> QED BY <1>1, <1>2, <1>3, <1>4, <1>5 DEF ExecutorInv

\* The invariant of the executor: the handshake and the handles, what count, active and the
\* budget's totals count, the pools and jobs that workers still use, and a worker awake for
\* every job that may be taken.
THEOREM PoolExecutor == Spec => []ExecutorInv
<1>1. Init => ExecutorInv
  BY ExecutorInit
<1>2. ExecutorInv /\ [Next]_vars => ExecutorInv'
  BY PoolStep, HandleStep, TableStep, JobStep, CountStep, StaffStep DEF ExecutorInv
<1> QED BY <1>1, <1>2, PTL DEF Spec

\* The counts are those of the queue.
LEMMA QueueCounts ==
  ASSUME ExecutorInv, NEW p \in Pools
  PROVE  count[p] = Cardinality({i \in DOMAIN queue : job[queue[i]].pool = p})
<1> DEFINE Spots == {i \in DOMAIN queue : job[queue[i]].pool = p}
           g == [i \in Spots |-> queue[i]]
<1>1. /\ \A i \in DOMAIN queue : queue[i] \in Jobs /\ st[queue[i]] = "queued"
      /\ \A i, k \in DOMAIN queue : queue[i] = queue[k] => i = k
  BY DEF ExecutorInv, PoolInv, CoreTypeOK, JobsOwned
<1>2. g \in Bijection(Spots, Pending(p))
  <2>1. g \in [Spots -> Pending(p)]
    BY <1>1 DEF Pending
  <2>2. \A i, k \in Spots : g[i] = g[k] => i = k
    BY <1>1
  <2>3. \A j \in Pending(p) : \E i \in Spots : g[i] = j
    BY DEF Pending, ExecutorInv, JobInv
  <2> HIDE DEF g, Spots
  <2> QED BY <2>1, <2>2, <2>3, Fun_IsBij
<1>3. IsFiniteSet(Spots)
  <2>1. DOMAIN queue = 1..Len(queue) /\ Len(queue) \in Nat
    BY DEF ExecutorInv, PoolInv, CoreTypeOK
  <2>2. IsFiniteSet(1..Len(queue))
    BY <2>1, FS_Interval
  <2>3. Spots \in SUBSET (1..Len(queue))
    BY <2>1
  <2> HIDE DEF Spots
  <2> QED BY <2>2, <2>3, FS_Subset
<1> HIDE DEF g, Spots
<1>4. ExistsBijection(Spots, Pending(p))
  BY <1>2 DEF ExistsBijection
<1>5. Cardinality(Pending(p)) = Cardinality(Spots)
  BY <1>3, <1>4, FS_Bijection
<1> QED BY <1>5 DEF Spots, ExecutorInv, CountInv

\* The counters that hs_worker and hs_io_pool_free decide by are exact, for any number of
\* pools, jobs and workers.
THEOREM PoolCounts == Spec => []CountsExact
<1>1. ExecutorInv => CountsExact
  BY QueueCounts DEF CountsExact, ExecutorInv, CountInv, Serving, Busy
<1> QED BY <1>1, PoolExecutor, PTL

\* No field of hs_pool, hs_budget, hs_job, Runtime or File leaves its type: no count underflows.
THEOREM PoolTypes == Spec => []PoolTypeOK
<1>1. ExecutorInv => PoolTypeOK
  <2> SUFFICES ASSUME ExecutorInv PROVE PoolTypeOK
    OBVIOUS
  <2>1. CoreTypeOK /\ TableTypeOK /\ HandleInv
    BY DEF ExecutorInv, PoolInv, TableInv
  <2>2. bactive \in Nat /\ \A p \in Pools : count[p] \in Nat /\ pactive[p] \in Nat
    BY CrewFinite, FS_CardinalityType DEF ExecutorInv, CountInv
  <2>3. count \in [Pools -> Nat] /\ pactive \in [Pools -> Nat]
    BY <2>2 DEF ExecutorInv, CountInv
  <2> QED BY <2>1, <2>2, <2>3 DEF PoolTypeOK, CoreTypeOK, TableTypeOK, HandleInv
<1> QED BY <1>1, PoolExecutor, PTL

\* What a worker touches outside the lock is alive.
THEOREM PoolWorkers == Spec => []WorkerSafe
<1>1. ExecutorInv => WorkerSafe
  <2> SUFFICES ASSUME ExecutorInv PROVE WorkerSafe
    OBVIOUS
  <2>1. ASSUME NEW w \in Workers
        PROVE  /\ serves[w] # None => serves[w] \in pools
               /\ held[w] # None => st[held[w]] = "taken" /\ job[held[w]].pool = serves[w]
    BY DEF ExecutorInv, TableInv, PoolInv, JobsOwned
  <2>2. ASSUME NEW j \in Jobs, st[j] \in {"queued", "taken"}
        PROVE  /\ job[j].pool \in pools
               /\ job[j].file # None => file[job[j].file] \in {"open", "closing"}
    BY <2>2 DEF ExecutorInv, TableInv, JobInv, PoolInv, JobsLive
  <2> QED BY <2>1, <2>2 DEF WorkerSafe
<1> QED BY <1>1, PoolExecutor, PTL

\* No job waits while a worker that could take it sleeps.
THEOREM PoolFullyUsed == Spec => []FullyUsed
<1>1. ExecutorInv => FullyUsed
  BY ReadyIs DEF ExecutorInv, StaffInv
<1> QED BY <1>1, PoolExecutor, PTL
=============================================================================
