----------------------------- MODULE NativePool -----------------------------
(***************************************************************************)
(* The file executor: internal/native/native.c (one queue and one set of   *)
(* worker threads, shared by the pools of an owner thread) and the owner's *)
(* side of it in internal/native/native.mbt (Runtime and File).            *)
(*                                                                         *)
(* The tasks of the owner run one at a time, from one suspension point to  *)
(* the next, and not at all while the owner is inside hs_io_pool_free. A   *)
(* worker step is one critical section. A pool tells its owner of finished *)
(* jobs by a byte in a pipe: `notified` says that one is on its way.       *)
(***************************************************************************)
EXTENDS Naturals, Sequences, FiniteSets, FiniteSetsExt

CONSTANTS
  Pools,       \* runtimes of one owner thread
  Jobs,        \* job slots
  Files,       \* file handle slots
  Workers,     \* worker threads
  Owner,       \* the owner thread, as a waiter on the executor's condition variable
  WorkerLimit, \* hs_pool.worker_limit of each pool
  Capacity,    \* hs_pool.capacity of each pool
  ThreadFails, \* whether pthread_create may fail
  None

ASSUME PoolAssumption ==
  /\ IsFiniteSet(Workers) /\ Owner \notin Workers
  /\ WorkerLimit \in [Pools -> 1..Cardinality(Workers)] /\ Capacity \in [Pools -> Nat \ {0}]
  /\ ThreadFails \in BOOLEAN
  /\ None \notin Pools \cup Jobs \cup Files

VARIABLES
  rt,        \* each Runtime: "none", "open", "closing", "failed" or "freeing"
  closers,   \* the runtimes whose close waits for idle
  freeing,   \* the pool whose hs_io_pool_free the owner is in, or None
  file,      \* each handle slot: "none", "result", "open" or "closing"
  home,      \* the runtime a handle belongs to
  job,       \* what each job is for: its pool, its file, whether it opens one
  st,        \* where each job is: "none", "queued", "taken" or "done"
  cancelled, \* the jobs with hs_job.cancelled set
  ok,        \* the jobs whose code is 0
  result,    \* hs_job.result: the handle an open has made
  task,      \* where the owner's task of each job is in Runtime::wait
  protected, \* the tasks in the wait that is protected from cancellation
  gate,      \* the task that holds each runtime's gate, or None
  queue,     \* hs_budget.head .. tail
  count,     \* hs_pool.count: its queued jobs
  pactive,   \* hs_pool.active
  bactive,   \* hs_budget.active
  pools,     \* hs_budget.pools
  stopping,  \* hs_budget.stopping
  at,        \* where each worker thread is
  held,      \* the job it has
  serves,    \* the pool it is active for
  sleeping,  \* threads waiting on hs_budget.cond
  notified,  \* the pools with hs_pool.notified set
  byte       \* the pools whose notification pipe holds a byte

owners == <<rt, closers, freeing>>
files  == <<file, home>>
jobs   == <<job, st, cancelled, ok, result>>
tasks  == <<task, protected, gate>>
counts == <<queue, count, pactive, bactive>>
budget == <<pools, stopping>>
crew   == <<at, held, serves>>
pipes  == <<notified, byte>>
vars == <<owners, files, jobs, tasks, counts, budget, crew, sleeping, pipes>>

NoJob == [pool |-> None, file |-> None, opens |-> FALSE]

\* The owner is at its scheduler: not blocked in hs_io_pool_free, and no task is between
\* two suspension points.
Running(j) == freeing = None /\ task[j] \in {"check", "ack"}
Free == freeing = None /\ \A j \in Jobs : task[j] \notin {"check", "ack"}
WorkersLimit == IF pools = {} THEN Cardinality(Workers) ELSE Min({WorkerLimit[p] : p \in pools})
QueueLimit == Min({Capacity[p] : p \in pools})
Threads == {w \in Workers : at[w] # "none"}
JobsOf(p) == {j \in Jobs : job[j].pool = p}
JobsOn(f) == {j \in Jobs : job[j].file = f}

-----------------------------------------------------------------------------
(* Runtime::new, and submitting jobs                                        *)

\* hs_io_pool_new attaches the pool and starts the threads it lacks; when one cannot
\* be started it frees the pool again, on the same thread.
Runtime_new(p) ==
  /\ Free /\ rt[p] = "none" /\ \A f \in Files : home[f] # p
  /\ \E new \in SUBSET (Workers \ Threads) :
       LET n == Cardinality(Threads \cup new)
           enough == n >= WorkerLimit[p]
       IN /\ new = {} \/ n <= WorkerLimit[p]
          /\ enough \/ ThreadFails
          /\ at' = [w \in Workers |-> IF w \in new THEN "test" ELSE at[w]]
          /\ rt' = [rt EXCEPT ![p] = IF enough THEN "open" ELSE "failed"]
          /\ freeing' = IF enough THEN None ELSE p
  /\ pools' = pools \cup {p}
  /\ UNCHANGED <<closers, files, jobs, tasks, counts, stopping, held, serves, sleeping, pipes>>

\* Mutant of Signal: only a job that ends an empty queue is signalled.
Signal_first == IF sleeping = {} \/ queue # <<>> THEN UNCHANGED sleeping
                ELSE \E w \in sleeping : sleeping' = sleeping \ {w}

\* pthread_cond_signal: one waiter wakes. It is a worker, since the owner is here.
Signal == IF sleeping = {} THEN UNCHANGED sleeping
          ELSE \E w \in sleeping : sleeping' = sleeping \ {w}

\* Mutant of Enqueue: the job is not counted.
Enqueue_uncounted(j, p) == queue' = Append(queue, j) /\ UNCHANGED count

Enqueue(j, p) == queue' = Append(queue, j) /\ count' = [count EXCEPT ![p] = @ + 1]

\* hs_io_submit and the start of Runtime::run. The queue is bounded by the smallest
\* capacity of the owner's pools; a refused job changes nothing.
Submit(j, p, f, opens) ==
  /\ Free /\ rt[p] = "open" /\ st[j] = "none"
  /\ Len(queue) < QueueLimit
  /\ job' = [job EXCEPT ![j] = [pool |-> p, file |-> f, opens |-> opens]]
  /\ st' = [st EXCEPT ![j] = "queued"]
  /\ task' = [task EXCEPT ![j] = "check"]
  /\ Enqueue(j, p) /\ Signal
  /\ UNCHANGED <<owners, files, cancelled, ok, result, protected, gate, pactive, bactive, budget,
                 crew, pipes>>

Runtime_open_root(j, p) == Submit(j, p, None, TRUE)
\* File::open, and every other operation on a file.
File_run(j, f, opens) == file[f] = "open" /\ Submit(j, home[f], f, opens)

-----------------------------------------------------------------------------
(* hs_worker                                                                *)

worker_waits(w) ==
  /\ at[w] = "test" /\ w \notin sleeping
  /\ queue = <<>> \/ bactive >= WorkersLimit
  /\ ~stopping
  /\ sleeping' = sleeping \cup {w}
  /\ UNCHANGED <<owners, files, jobs, tasks, counts, budget, crew, pipes>>

worker_takes(w) ==
  LET j == Head(queue)
      p == job[j].pool
  IN /\ at[w] = "test" /\ w \notin sleeping
     /\ queue # <<>> /\ (bactive < WorkersLimit \/ stopping)
     /\ queue' = Tail(queue) /\ count' = [count EXCEPT ![p] = @ - 1]
     /\ pactive' = [pactive EXCEPT ![p] = @ + 1] /\ bactive' = bactive + 1
     /\ at' = [at EXCEPT ![w] = "took"]
     /\ held' = [held EXCEPT ![w] = j] /\ serves' = [serves EXCEPT ![w] = p]
     /\ st' = [st EXCEPT ![j] = "taken"]
     /\ UNCHANGED <<owners, files, job, cancelled, ok, result, tasks, budget, sleeping, pipes>>

\* A job cancelled by now is not run. Otherwise hs_open, hs_read, hs_stat, hs_list or
\* hs_send, outside every lock; an open that succeeds leaves a handle with the job. (A
\* cancellation between the two is the same as one before worker_publishes.)
worker_runs(w) ==
  LET j == held[w]
  IN /\ at[w] = "took"
     /\ at' = [at EXCEPT ![w] = "publish"]
     /\ \/ UNCHANGED <<files, ok, result>>
        \/ /\ j \notin cancelled /\ ~job[j].opens
           /\ ok' = ok \cup {j} /\ UNCHANGED <<files, result>>
        \/ /\ j \notin cancelled /\ job[j].opens
           /\ ok' = ok \cup {j}
           /\ \E f \in {g \in Files : file[g] = "none"} :
                /\ file' = [file EXCEPT ![f] = "result"]
                /\ home' = [home EXCEPT ![f] = serves[w]]
                /\ result' = [result EXCEPT ![j] = f]
     /\ UNCHANGED <<owners, job, st, cancelled, tasks, counts, budget, held, serves, sleeping,
                    pipes>>

\* The job is done, and may be freed from here on. A cancellation that came while it
\* ran makes it a cancelled one.
worker_publishes(w) ==
  /\ at[w] = "publish"
  /\ at' = [at EXCEPT ![w] = "notify"] /\ held' = [held EXCEPT ![w] = None]
  /\ st' = [st EXCEPT ![held[w]] = "done"]
  /\ ok' = IF held[w] \in cancelled THEN ok \ {held[w]} ELSE ok
  /\ UNCHANGED <<owners, files, job, cancelled, result, tasks, counts, budget, serves, sleeping,
                 pipes>>

\* hs_notify: claim the notification under the pool's mutex; write it afterwards.
hs_notify(w) ==
  LET p == serves[w]
  IN /\ at[w] = "notify"
     /\ at' = [at EXCEPT ![w] = IF p \in notified THEN "leave" ELSE "write"]
     /\ notified' = notified \cup {p}
     /\ UNCHANGED <<owners, files, jobs, tasks, counts, budget, held, serves, sleeping, byte>>

worker_writes(w) ==
  /\ at[w] = "write"
  /\ at' = [at EXCEPT ![w] = "leave"] /\ byte' = byte \cup {serves[w]}
  /\ UNCHANGED <<owners, files, jobs, tasks, counts, budget, held, serves, sleeping, notified>>

\* Mutant of worker_leaves: nobody is woken.
worker_leaves_silently(w) ==
  /\ at[w] = "leave"
  /\ pactive' = [pactive EXCEPT ![serves[w]] = @ - 1] /\ bactive' = bactive - 1
  /\ at' = [at EXCEPT ![w] = "test"] /\ serves' = [serves EXCEPT ![w] = None]
  /\ UNCHANGED <<owners, files, jobs, tasks, queue, count, budget, held, sleeping, pipes>>

worker_leaves(w) ==
  /\ at[w] = "leave"
  /\ pactive' = [pactive EXCEPT ![serves[w]] = @ - 1] /\ bactive' = bactive - 1
  /\ at' = [at EXCEPT ![w] = "test"] /\ serves' = [serves EXCEPT ![w] = None]
  /\ sleeping' = {}
  /\ UNCHANGED <<owners, files, jobs, tasks, queue, count, budget, held, pipes>>

worker_exits(w) ==
  /\ at[w] = "test" /\ w \notin sleeping
  /\ queue = <<>> /\ stopping
  /\ at' = [at EXCEPT ![w] = "exit"]
  /\ UNCHANGED <<owners, files, jobs, tasks, counts, budget, held, serves, sleeping, pipes>>

-----------------------------------------------------------------------------
(* Runtime::run and Runtime::wait, on the owner                             *)

Done(j) == st[j] = "done"

\* Mutant of Taken: the handle of a cancelled open stays behind.
Taken_leaking(j) ==
  LET f == result[j]
  IN IF f = None \/ j \in protected THEN UNCHANGED files
     ELSE /\ file' = [file EXCEPT ![f] = IF j \in ok THEN "open" ELSE "none"]
          /\ home' = IF j \in ok THEN home ELSE [home EXCEPT ![f] = None]

\* The result is extracted if the job succeeded and its task was not cancelled;
\* otherwise hs_io_job_free frees the handle nobody took.
Taken(j) ==
  LET f == result[j]
      kept == j \in ok /\ j \notin protected
  IN IF f = None THEN UNCHANGED files
     ELSE /\ file' = [file EXCEPT ![f] = IF kept THEN "open" ELSE "none"]
          /\ home' = IF kept THEN home ELSE [home EXCEPT ![f] = None]

\* Runtime::run ends, and its job is freed.
run_ends(j) ==
  /\ Running(j) /\ task[j] = "check" /\ Done(j)
  /\ Taken(j)
  /\ job' = [job EXCEPT ![j] = NoJob] /\ st' = [st EXCEPT ![j] = "none"]
  /\ cancelled' = cancelled \ {j} /\ ok' = ok \ {j}
  /\ result' = [result EXCEPT ![j] = None]
  /\ task' = [task EXCEPT ![j] = "none"] /\ protected' = protected \ {j}
  /\ UNCHANGED <<owners, gate, counts, budget, crew, sleeping, pipes>>

\* The loop of Runtime::wait: not done yet, so queue for the gate.
wait_checks(j) ==
  /\ Running(j) /\ task[j] = "check" /\ ~Done(j)
  /\ task' = [task EXCEPT ![j] = "gate"]
  /\ UNCHANGED <<owners, files, jobs, protected, gate, counts, budget, crew, sleeping, pipes>>

\* Mutant of wait_enters: done is not asked again under the gate.
wait_enters_blindly(j) ==
  /\ Free /\ task[j] = "gate" /\ gate[job[j].pool] = None
  /\ task' = [task EXCEPT ![j] = "read"]
  /\ gate' = [gate EXCEPT ![job[j].pool] = j]
  /\ UNCHANGED <<owners, files, jobs, protected, counts, budget, crew, sleeping, pipes>>

\* gate.acquire() returns, and done is asked again before the pipe is read.
wait_enters(j) ==
  /\ Free /\ task[j] = "gate" /\ gate[job[j].pool] = None
  /\ task' = [task EXCEPT ![j] = IF Done(j) THEN "check" ELSE "read"]
  /\ gate' = IF Done(j) THEN gate ELSE [gate EXCEPT ![job[j].pool] = j]
  /\ UNCHANGED <<owners, files, jobs, protected, counts, budget, crew, sleeping, pipes>>

\* read_exactly(1) takes the byte ...
wait_reads(j) ==
  /\ Free /\ task[j] = "read" /\ job[j].pool \in byte
  /\ byte' = byte \ {job[j].pool}
  /\ task' = [task EXCEPT ![j] = "ack"]
  /\ UNCHANGED <<owners, files, jobs, protected, gate, counts, budget, crew, sleeping, notified>>

\* ... and hs_io_ack lets the next finished job notify again.
wait_acks(j) ==
  /\ Running(j) /\ task[j] = "ack"
  /\ notified' = notified \ {job[j].pool}
  /\ gate' = [gate EXCEPT ![job[j].pool] = None]
  /\ task' = [task EXCEPT ![j] = "check"]
  /\ UNCHANGED <<owners, files, jobs, protected, counts, budget, crew, sleeping, byte>>

\* Mutant of task_cancelled: the gate is not released when the read is cancelled.
task_cancelled_holding(j) ==
  /\ Free /\ task[j] \in {"gate", "read"} /\ j \notin protected
  /\ task' = [task EXCEPT ![j] = "check"] /\ protected' = protected \cup {j}
  /\ cancelled' = cancelled \cup {j}
  /\ UNCHANGED <<owners, files, job, st, ok, result, gate, counts, budget, crew, sleeping, pipes>>

\* The task is cancelled at a suspension point: the job is cancelled and waited for
\* again, protected from cancellation.
task_cancelled(j) ==
  /\ Free /\ task[j] \in {"gate", "read"} /\ j \notin protected
  /\ task' = [task EXCEPT ![j] = "check"] /\ protected' = protected \cup {j}
  /\ cancelled' = cancelled \cup {j}
  /\ gate' = IF task[j] = "read" THEN [gate EXCEPT ![job[j].pool] = None] ELSE gate
  /\ UNCHANGED <<owners, files, job, st, ok, result, counts, budget, crew, sleeping, pipes>>

-----------------------------------------------------------------------------
(* Closing                                                                  *)

Runtime_stop(p) ==
  /\ Free /\ rt[p] = "open"
  /\ rt' = [rt EXCEPT ![p] = "closing"]
  /\ cancelled' = cancelled \cup JobsOf(p)
  /\ UNCHANGED <<closers, freeing, files, job, st, ok, result, tasks, counts, budget, crew,
                 sleeping, pipes>>

\* Runtime::close, up to the wait for idle.
Runtime_close(p) ==
  /\ Free /\ rt[p] \in {"open", "closing"} /\ p \notin closers
  /\ rt' = [rt EXCEPT ![p] = "closing"] /\ closers' = closers \cup {p}
  /\ cancelled' = cancelled \cup JobsOf(p)
  /\ UNCHANGED <<freeing, files, job, st, ok, result, tasks, counts, budget, crew, sleeping,
                 pipes>>

\* active is 0: the owner enters hs_io_pool_free.
Runtime_frees(p) ==
  /\ Free /\ p \in closers /\ JobsOf(p) = {}
  /\ freeing' = p /\ closers' = closers \ {p} /\ rt' = [rt EXCEPT ![p] = "freeing"]
  /\ UNCHANGED <<files, jobs, tasks, counts, budget, crew, sleeping, pipes>>

pool_waits ==
  /\ freeing # None /\ freeing \in pools /\ Owner \notin sleeping
  /\ count[freeing] > 0 \/ pactive[freeing] > 0
  /\ sleeping' = sleeping \cup {Owner}
  /\ UNCHANGED <<owners, files, jobs, tasks, counts, budget, crew, pipes>>

\* The pool is unlinked; the last one stops the workers.
pool_unlinks ==
  /\ freeing # None /\ freeing \in pools /\ Owner \notin sleeping
  /\ count[freeing] = 0 /\ pactive[freeing] = 0
  /\ pools' = pools \ {freeing} /\ stopping' = (pools' = {})
  /\ sleeping' = {}
  /\ UNCHANGED <<owners, files, jobs, tasks, counts, crew, pipes>>

\* The workers joined if it was the last, the budget freed with them, and the
\* runtime's pipe closed.
hs_io_pool_free ==
  /\ freeing # None /\ freeing \notin pools
  /\ stopping => \A w \in Threads : at[w] = "exit"
  /\ at' = IF stopping THEN [w \in Workers |-> "none"] ELSE at
  /\ stopping' = FALSE
  /\ freeing' = None /\ rt' = [rt EXCEPT ![freeing] = "none"]
  /\ notified' = notified \ {freeing} /\ byte' = byte \ {freeing}
  /\ UNCHANGED <<closers, files, jobs, tasks, counts, pools, held, serves, sleeping>>

\* File::close, up to the wait for idle, and after it.
File_close(f) ==
  /\ Free /\ file[f] = "open"
  /\ file' = [file EXCEPT ![f] = "closing"]
  /\ cancelled' = cancelled \cup JobsOn(f)
  /\ UNCHANGED <<owners, home, job, st, ok, result, tasks, counts, budget, crew, sleeping, pipes>>

\* Mutant of File_frees: the file's jobs are cancelled and not waited for.
File_frees_early(f) ==
  /\ Free /\ file[f] = "closing"
  /\ file' = [file EXCEPT ![f] = "none"] /\ home' = [home EXCEPT ![f] = None]
  /\ UNCHANGED <<owners, jobs, tasks, counts, budget, crew, sleeping, pipes>>

File_frees(f) ==
  /\ Free /\ file[f] = "closing" /\ JobsOn(f) = {}
  /\ file' = [file EXCEPT ![f] = "none"] /\ home' = [home EXCEPT ![f] = None]
  /\ UNCHANGED <<owners, jobs, tasks, counts, budget, crew, sleeping, pipes>>

-----------------------------------------------------------------------------
Init ==
  /\ rt = [p \in Pools |-> "none"] /\ closers = {} /\ freeing = None
  /\ file = [f \in Files |-> "none"] /\ home = [f \in Files |-> None]
  /\ job = [j \in Jobs |-> NoJob] /\ st = [j \in Jobs |-> "none"]
  /\ cancelled = {} /\ ok = {} /\ result = [j \in Jobs |-> None]
  /\ task = [j \in Jobs |-> "none"] /\ protected = {} /\ gate = [p \in Pools |-> None]
  /\ queue = <<>> /\ count = [p \in Pools |-> 0]
  /\ pactive = [p \in Pools |-> 0] /\ bactive = 0
  /\ pools = {} /\ stopping = FALSE
  /\ at = [w \in Workers |-> "none"] /\ held = [w \in Workers |-> None]
  /\ serves = [w \in Workers |-> None] /\ sleeping = {}
  /\ notified = {} /\ byte = {}

Worker(w) == \/ worker_waits(w) \/ worker_takes(w) \/ worker_runs(w) \/ worker_publishes(w)
             \/ hs_notify(w) \/ worker_writes(w) \/ worker_leaves(w) \/ worker_exits(w)
Wait(j) == wait_checks(j) \/ wait_enters(j) \/ wait_reads(j) \/ wait_acks(j) \/ run_ends(j)
Freeing == pool_waits \/ pool_unlinks \/ hs_io_pool_free
Use == \/ \E p \in Pools : Runtime_new(p) \/ Runtime_stop(p) \/ Runtime_close(p)
       \/ \E j \in Jobs, p \in Pools : Runtime_open_root(j, p)
       \/ \E j \in Jobs, f \in Files, opens \in BOOLEAN : File_run(j, f, opens)
       \/ \E p \in Pools : Runtime_frees(p)
       \/ \E f \in Files : File_close(f) \/ File_frees(f)
       \/ \E j \in Jobs : task_cancelled(j)

Next == Use \/ Freeing \/ (\E w \in Workers : Worker(w)) \/ \E j \in Jobs : Wait(j)

Spec == Init /\ [][Next]_vars

\* Threads run and system calls end; the owner's scheduler resumes every task that is
\* ready, and the waiters of a gate or of idle in turn.
Fairness ==
  /\ \A w \in Workers : WF_vars(Worker(w))
  /\ \A j \in Jobs : SF_vars(Wait(j))
  /\ \A p \in Pools : SF_vars(Runtime_frees(p))
  /\ \A f \in Files : SF_vars(File_frees(f))
  /\ WF_vars(Freeing)
FairSpec == Spec /\ Fairness

-----------------------------------------------------------------------------
(* What the executor guarantees                                             *)

Runtimes == {"none", "open", "closing", "failed", "freeing"}
Places == {"none", "test", "took", "publish", "notify", "write", "leave", "exit"}
JobType == [pool : Pools \cup {None}, file : Files \cup {None}, opens : BOOLEAN]

\* The fields of hs_pool, hs_budget and hs_job, of Runtime and of File keep their types; in
\* particular no count underflows.
PoolTypeOK ==
  /\ rt \in [Pools -> Runtimes] /\ closers \subseteq Pools /\ freeing \in Pools \cup {None}
  /\ file \in [Files -> {"none", "result", "open", "closing"}]
  /\ home \in [Files -> Pools \cup {None}]
  /\ job \in [Jobs -> JobType] /\ st \in [Jobs -> {"none", "queued", "taken", "done"}]
  /\ cancelled \subseteq Jobs /\ ok \subseteq Jobs /\ result \in [Jobs -> Files \cup {None}]
  /\ task \in [Jobs -> {"none", "check", "gate", "read", "ack"}] /\ protected \subseteq Jobs
  /\ gate \in [Pools -> Jobs \cup {None}]
  /\ queue \in Seq(Jobs) /\ count \in [Pools -> Nat]
  /\ pactive \in [Pools -> Nat] /\ bactive \in Nat
  /\ pools \subseteq Pools /\ stopping \in BOOLEAN
  /\ at \in [Workers -> Places] /\ held \in [Workers -> Jobs \cup {None}]
  /\ serves \in [Workers -> Pools \cup {None}] /\ sleeping \subseteq Workers \cup {Owner}
  /\ notified \subseteq Pools /\ byte \subseteq Pools

\* What a worker touches outside the lock is alive: the job until it has published it
\* (hs_io_job_free may follow at once), the job's file until then (File::close waits
\* for its jobs), the pool and its pipe until it has left it (hs_io_pool_free waits for
\* active), and no job waits in the queue for a pool that is gone.
WorkerSafe ==
  /\ \A w \in Workers :
       /\ serves[w] # None => serves[w] \in pools
       /\ held[w] # None => st[held[w]] = "taken" /\ job[held[w]].pool = serves[w]
  /\ \A j \in Jobs : st[j] \in {"queued", "taken"} =>
       /\ job[j].pool \in pools
       /\ job[j].file # None => file[job[j].file] \in {"open", "closing"}

\* The counters hs_io_pool_free and hs_worker decide by are the queue's and the
\* workers' own: what a pool has queued, what runs for it, what runs at all.
CountsExact ==
  /\ \A p \in Pools :
       /\ count[p] = Cardinality({i \in DOMAIN queue : job[queue[i]].pool = p})
       /\ pactive[p] = Cardinality({w \in Workers : serves[w] = p})
  /\ bactive = Cardinality({w \in Workers : serves[w] # None})

\* A task that reads the notification pipe for a job that is already done will be
\* woken: the byte is there, or a worker is on its way to write or to claim one.
NoLostCompletion ==
  \A j \in Jobs : task[j] = "read" /\ Done(j) =>
    \/ job[j].pool \in byte
    \/ \E w \in Workers : serves[w] = job[j].pool /\ at[w] \in {"notify", "write"}

\* Submitting signals one waiter, and every waiter of the condition variable is of the
\* same kind: there are never fewer workers awake than jobs they could take.
FullyUsed ==
  LET room == IF bactive < WorkersLimit THEN WorkersLimit - bactive ELSE 0
  IN pools # {} => Min({Len(queue), room})
                     <= Cardinality({w \in Threads \ sleeping : at[w] = "test"})

\* A handle that hs_open made belongs to one job until Runtime::run takes it out of the
\* job or frees it with the job: cancelling a task in between neither leaks nor shares it.
HandlesExact ==
  \A f \in Files :
    Cardinality({j \in Jobs : result[j] = f}) = IF file[f] = "result" THEN 1 ELSE 0

\* Every task that submitted a job gets out of Runtime::run, whoever is cancelled,
\* stopped or closed meanwhile.
JobsEnd == \A j \in Jobs : task[j] # "none" ~> task[j] = "none"

\* Closing ends: a runtime whose close has begun is freed, the owner leaves
\* hs_io_pool_free, and a file whose close has begun is freed.
ClosesEnd ==
  /\ \A p \in Pools : p \in closers \/ freeing = p ~> rt[p] = "none"
  /\ \A f \in Files : file[f] = "closing" ~> file[f] = "none"
=============================================================================
