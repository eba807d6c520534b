------------------------------- MODULE Engine -------------------------------
(***************************************************************************)
(* One StaticEngine: the requests it plans, the responses it hands out and *)
(* the files and credits they hold (engine.mbt, engine_resources.mbt and   *)
(* the credits of internal/native/).                                       *)
(*                                                                         *)
(* Tasks of the owner thread call the engine. A task runs alone from one   *)
(* suspension point to the next; an action is such a turn, which starts a  *)
(* call or resumes one. How file operations are executed is the subject of *)
(* NativePool: here the operation a task waits for, on the file `op`, ends *)
(* in any order, well or badly. Badly stands for an error, for a job that  *)
(* was cancelled and for the cancellation of the task, which waits for its *)
(* job too. A file is freed only when no operation is on it.               *)
(***************************************************************************)
EXTENDS Naturals, FiniteSets, FiniteSetsExt

CONSTANTS
  Tasks, Responses, Files, None,
  Users,          \* the tasks that call handle and read; any task may close
  Root,           \* the engine's own file
  Lengths,        \* the lengths of bodies, in blocks
  BodyLimit,      \* body_buffer_bytes
  DirectoryLimit, \* directory_metadata_bytes
  MaxAsks         \* how often one plan asks for a file (no such bound in the code)

ASSUME EngineAssumption ==
  /\ IsFiniteSet(Tasks) /\ IsFiniteSet(Responses)
  /\ Users \subseteq Tasks /\ Root \in Files /\ None \notin Files \cup Responses
  /\ Lengths \subseteq Nat /\ {BodyLimit, DirectoryLimit, MaxAsks} \subseteq Nat

VARIABLES
  closing,  \* EngineOwner.closing, set together with the runtime's
  closed,   \* Runtime.closed: the pool is freed
  planning, \* EngineOwner.planning
  registry, \* the keys of StaticEngine.responses
  resp,     \* each response: its BodyState
  file,     \* each file slot: "none" (unused or freed), "open" or "closing"
  owned,    \* the credits of the pool: body_owned, directory_owned
  task      \* each task of the owner: the call it is in and its local variables

vars == <<closing, closed, planning, registry, resp, file, owned, task>>

\* at: the suspension point; op: the file of its operation; got, job: the file and the
\* directory credits its job has obtained. plan_request has the files it opened, the directory
\* it lists, its charge, the files still to be checked. A response call has its response (on),
\* the position its transfer started at (from) and what to_bytes has reserved (held).
\* StaticEngine::close has the responses still to be closed (left).
Idle == [at |-> "idle", op |-> None, got |-> None, job |-> 0, files |-> {}, dir |-> None,
         charge |-> 0, todo |-> {}, asks |-> 0, on |-> None, from |-> 0, held |-> 0, left |-> {}]

NoBody == [kind |-> "none", file |-> None, len |-> 0, cursor |-> 0, closed |-> TRUE,
           reading |-> FALSE, released |-> TRUE, charge |-> 0, dir |-> 0]

\* Directory credits: request.target.length() * 32 + 16384, and a name's charge. Body credits,
\* in blocks: body_block_bytes * 2, b.length() * 2 and the chunk.length() * 4 of to_bytes.
ListBase == 1
NameCharge == 1
BlockCharge == 2
Copies == 4

OpsOn(f) == {t \in Tasks : task[t].op = f}
Go(t, rec) == task' = [task EXCEPT ![t] = rec]
FreeFiles(fs) == file' = [f \in Files |-> IF f \in fs THEN "none" ELSE file[f]]

-----------------------------------------------------------------------------
(* Credits                                                                  *)

\* hs_io_reserve; Runtime::reserve refuses once the runtime is closing.
Fits(kind, n) == owned[kind] + n <= IF kind = "body" THEN BodyLimit ELSE DirectoryLimit
Grants(kind, n) == ~closing /\ Fits(kind, n)
\* hs_io_release keeps silent when asked for more than the pool owns; Runtime::release
\* does nothing once the pool is freed.
Less(have, n) == IF closed \/ have < n THEN have ELSE have - n

-----------------------------------------------------------------------------
(* StaticEngine::handle and plan_request. The operators take p, the task's state as its
   turn leaves it so far, and n, the number of plans under way.             *)

\* Mutant of Drop: a file whose opener was cancelled is not closed.
Drop_keeps_job(t, p, n) ==
  /\ Go(t, Idle) /\ planning' = n - 1
  /\ FreeFiles(p.files \cup {p.dir})
  /\ owned' = [owned EXCEPT !.dir = Less(Less(@, p.job), p.charge)]
  /\ UNCHANGED <<closing, closed, registry, resp>>

\* plan_request ends without a response (Next, an error, a cancellation), or its response is
\* refused: every file is closed, the job's credits go with the job, the plan's are released.
Drop(t, p, n) ==
  /\ Go(t, Idle) /\ planning' = n - 1
  /\ FreeFiles(p.files \cup {p.dir, p.got})
  /\ owned' = [owned EXCEPT !.dir = Less(Less(@, p.job), p.charge)]
  /\ UNCHANGED <<closing, closed, registry, resp>>

\* A finished plan becomes a response that keeps the file f (or None) or the listing.
Respond(t, p, n, kind, f) ==
  LET keep == IF kind = "listing" THEN p.charge ELSE 0
  IN /\ \E r \in Responses, len \in Lengths :
          LET charge == IF kind = "bytes" THEN 2 * len ELSE BlockCharge
          IN /\ Grants("body", charge)
             /\ resp[r].released /\ r \notin registry /\ \A u \in Tasks : task[u].on # r
             /\ resp' = [resp EXCEPT ![r] =
                  [kind |-> kind, file |-> f, len |-> len, cursor |-> 0, closed |-> FALSE,
                   reading |-> FALSE, released |-> FALSE, charge |-> charge, dir |-> keep]]
             /\ registry' = registry \cup {r}
             /\ owned' = [body |-> owned.body + charge, dir |-> Less(owned.dir, p.charge - keep)]
     /\ FreeFiles((p.files \ {f}) \cup {p.dir, p.got})
     /\ Go(t, Idle) /\ planning' = n - 1
     /\ UNCHANGED <<closing, closed>>

\* Done: the files opened are checked one by one, then the response is made.
Done(t, p, n) ==
  \/ /\ ~closing
     /\ \E f \in p.todo : Go(t, [p EXCEPT !.at = "verify", !.op = f, !.todo = @ \ {f},
                                          !.dir = None, !.got = None])
     /\ FreeFiles({p.dir, p.got})
     /\ planning' = n /\ UNCHANGED <<closing, closed, registry, resp, owned>>
  \/ /\ p.todo = {}
     /\ \/ Respond(t, p, n, "bytes", None)
        \/ p.charge > 0 /\ Respond(t, p, n, "listing", None)
        \/ \E f \in p.files : Respond(t, p, n, "file", f)

\* plan_request until it is suspended again: it opens a file, reads the start of one, lists a
\* directory, is done, or ends. A closing runtime refuses every operation.
Ask(t, p, n) ==
  LET Step(where, f, charge) ==
        Go(t, [p EXCEPT !.at = where, !.op = f, !.charge = charge, !.asks = @ + 1])
  IN \/ Drop(t, p, n)
     \/ Done(t, [p EXCEPT !.todo = p.files], n)
     \/ /\ ~closing /\ p.asks < MaxAsks
        /\ \/ Step("open", Root, 0) /\ UNCHANGED owned
           \/ \E f \in p.files : Step("prefix", f, 0) /\ UNCHANGED owned
           \/ /\ Grants("dir", ListBase) /\ Step("dir", Root, ListBase)
              /\ owned' = [owned EXCEPT !.dir = @ + ListBase]
        /\ planning' = n /\ UNCHANGED <<closing, closed, registry, resp, file>>

\* The entries of a listing are opened and closed one by one; then the directory is closed.
Entries(t, p) ==
  \/ Drop(t, p, planning)
  \/ Done(t, [p EXCEPT !.todo = p.files], planning)
  \/ /\ ~closing /\ p.asks < MaxAsks
     /\ Go(t, [p EXCEPT !.at = "entry", !.op = Root, !.asks = @ + 1, !.got = None])
     /\ FreeFiles({p.got})
     /\ UNCHANGED <<closing, closed, planning, registry, resp, owned>>

\* A plan whose operation went well goes on; one whose operation failed is dropped.
handle_resumes(t) ==
  LET p == [task[t] EXCEPT !.op = None]
      kept == [p EXCEPT !.files = @ \cup ({p.got} \ {None}), !.got = None]
      listed == [p EXCEPT !.charge = @ + p.job, !.job = 0]
  IN \/ p.at \in {"open", "prefix"} /\ Ask(t, kept, planning)
     \/ /\ p.at = "dir"
        /\ \/ Drop(t, p, planning)
           \/ /\ ~closing /\ p.got # None
              /\ Go(t, [p EXCEPT !.at = "names", !.op = p.got, !.dir = p.got, !.got = None])
              /\ UNCHANGED <<closing, closed, planning, registry, resp, file, owned>>
     \/ p.at \in {"names", "entry"} /\ Entries(t, listed)
     \/ p.at = "verify" /\ (Drop(t, p, planning) \/ Done(t, p, planning))

\* Mutant of handle: `planning += 1` is missing.
handle_uncounted(t) ==
  ~closing /\ file[Root] = "open" /\ task[t].at = "idle" /\ Ask(t, Idle, planning)

handle(t) ==
  ~closing /\ file[Root] = "open" /\ task[t].at = "idle" /\ Ask(t, Idle, planning + 1)

\* The executor opens the file a task waits for.
hs_open(t) ==
  /\ task[t].at \in {"open", "dir", "entry"} /\ task[t].got = None
  /\ \E f \in Files :
       /\ file[f] = "none" /\ f # Root
       /\ file' = [file EXCEPT ![f] = "open"] /\ Go(t, [task[t] EXCEPT !.got = f])
  /\ UNCHANGED <<closing, closed, planning, registry, resp, owned>>

\* The executor reserves the credits of the names it lists, whether or not the runtime is closing.
hs_list(t) ==
  /\ task[t].at = "names" /\ task[t].job = 0 /\ Fits("dir", NameCharge)
  /\ owned' = [owned EXCEPT !.dir = @ + NameCharge]
  /\ Go(t, [task[t] EXCEPT !.job = NameCharge])
  /\ UNCHANGED <<closing, closed, planning, registry, resp, file>>

-----------------------------------------------------------------------------
(* Responses                                                                *)

Usable(t, r) == task[t].at = "idle" /\ ~resp[r].closed /\ ~closing

\* Mutant of Released: `released` is not consulted.
Released_again(r, o) ==
  [body |-> Less(o.body, resp[r].charge), dir |-> Less(o.dir, resp[r].dir)]

\* What is left of the credits o when BodyState::close has released the response's.
Released(r, o) ==
  IF resp[r].released THEN o
  ELSE [body |-> Less(o.body, resp[r].charge), dir |-> Less(o.dir, resp[r].dir)]

\* Mutant of Shut: the errdefer closes the response and never clears `reading`.
Shut_reading(r) ==
  /\ FreeFiles({resp[r].file})
  /\ resp' = [resp EXCEPT ![r] = [@ EXCEPT !.closed = TRUE, !.file = None, !.released = TRUE]]
  /\ registry' = registry \ {r}

\* BodyState::close by a task that finds nothing to wait for: its own failed operation is
\* over. Response::close then removes the response.
Shut(r) ==
  /\ FreeFiles({resp[r].file})
  /\ resp' = [resp EXCEPT ![r] = [@ EXCEPT !.closed = TRUE, !.file = None, !.reading = FALSE,
                                            !.released = TRUE]]
  /\ registry' = registry \ {r}

\* The errdefer of a reading call, and what its caller to_bytes has reserved.
Fail(t, r) ==
  /\ Shut(r) /\ Go(t, Idle)
  /\ owned' = Released(r, [owned EXCEPT !.body = Less(@, task[t].held)])
  /\ UNCHANGED <<closing, closed, planning>>

\* A reading call suspended in its operation on the response's file.
Wait(t, r, where) ==
  Go(t, [task[t] EXCEPT !.at = where, !.op = resp[r].file, !.on = r, !.from = resp[r].cursor])

\* The turn of a reading call ends: `reading` is as given, the cursor n further.
Turn(r, n, busy) == resp' = [resp EXCEPT ![r].cursor = @ + n, ![r].reading = busy]
Rest == UNCHANGED <<closing, closed, planning, registry, file>>

\* Mutant of Begin: `reading` is set without a test.
Begin_busy(t, r, where) ==
  /\ Usable(t, r) /\ resp[r].kind = "file"
  /\ \/ Turn(r, 0, TRUE) /\ Wait(t, r, where) /\ Rest /\ UNCHANGED owned
     \/ Fail(t, r)

\* A call takes `reading` and starts with an operation on the file, or fails when that is
\* refused. A call on a closed response, or while another one reads, is refused at once.
Begin(t, r, where) ==
  /\ Usable(t, r) /\ ~resp[r].reading /\ resp[r].kind = "file"
  /\ \/ Turn(r, 0, TRUE) /\ Wait(t, r, where) /\ Rest /\ UNCHANGED owned
     \/ Fail(t, r)

check(t, r) == Begin(t, r, "check")
read(t, r) == Begin(t, r, "read-check")
to_bytes(t, r) == Begin(t, r, "collect-check")
send_to(t, r) == Begin(t, r, IF resp[r].cursor < resp[r].len THEN "send" ELSE "check")

Chunk(r) == IF resp[r].cursor < resp[r].len THEN 1 ELSE 0

\* A body in memory is read without a suspension; write_to and send_to read it in a loop.
read_memory(t, r) ==
  /\ Usable(t, r) /\ ~resp[r].reading /\ resp[r].kind \in {"bytes", "listing"}
  /\ Turn(r, Chunk(r), FALSE) /\ Rest /\ UNCHANGED <<owned, task>>
to_bytes_memory(t, r) ==
  /\ Usable(t, r) /\ ~resp[r].reading /\ resp[r].kind \in {"bytes", "listing"}
  /\ LET n == resp[r].len - resp[r].cursor
     IN \/ Grants("body", Copies * n) /\ Turn(r, n, FALSE) /\ Rest /\ UNCHANGED <<owned, task>>
        \/ Fail(t, r)

\* Response::read after file.check: a second operation reads the block.
read_checked(t) ==
  LET r == task[t].on
      next == IF task[t].at = "read-check" THEN "read" ELSE "collect"
  IN /\ task[t].at \in {"read-check", "collect-check"}
     /\ \/ /\ ~closing /\ file[resp[r].file] = "open"
           /\ Wait(t, r, next) /\ Rest /\ UNCHANGED <<resp, owned>>
        \/ Fail(t, r)

\* The response or the engine may have been closed during the operation.
StillOpen(r) == ~resp[r].closed /\ ~closing

read_resumes(t) ==
  LET r == task[t].on
  IN /\ task[t].at = "read"
     /\ \/ StillOpen(r) /\ Turn(r, Chunk(r), FALSE) /\ Go(t, Idle) /\ Rest /\ UNCHANGED owned
        \/ Fail(t, r)

\* to_bytes reserves room for each block and reads the next; at the end it gives all back.
collect_resumes(t) ==
  LET r == task[t].on
      n == Copies * Chunk(r)
  IN /\ task[t].at = "collect"
     /\ \/ /\ StillOpen(r) /\ n > 0 /\ Grants("body", n)
           /\ owned' = [owned EXCEPT !.body = @ + n]
           /\ Turn(r, 1, TRUE) /\ Rest
           /\ Go(t, [task[t] EXCEPT !.at = "collect-check", !.held = @ + n])
        \/ /\ StillOpen(r) /\ n = 0
           /\ owned' = [owned EXCEPT !.body = Less(@, task[t].held)]
           /\ Turn(r, 0, FALSE) /\ Go(t, Idle) /\ Rest
        \/ Fail(t, r)

check_resumes(t) ==
  LET r == task[t].on
  IN /\ task[t].at = "check"
     /\ \/ Turn(r, 0, FALSE) /\ Go(t, Idle) /\ Rest /\ UNCHANGED owned
        \/ Fail(t, r)

\* send_to: the kernel sends some of the block, none of it, or does not support it; then a
\* block is read and written. The task pauses after each block.
Pause(t, where) == Go(t, [task[t] EXCEPT !.at = where, !.op = None])

send_resumes(t) ==
  LET r == task[t].on
  IN \/ /\ task[t].at = "send"
        /\ \/ (\E n \in 0..1 : Turn(r, n, TRUE)) /\ Pause(t, "pause")
           \/ Turn(r, 0, TRUE) /\ Pause(t, "pause-read")
        /\ Rest /\ UNCHANGED owned
     \/ task[t].at = "send-read" /\ Pause(t, "write") /\ Rest /\ UNCHANGED <<resp, owned>>
     \/ task[t].at \in {"send", "send-read"} /\ Fail(t, r)

\* tcp.write returns or raises: when the client has taken the block, its connection breaks or
\* the task is cancelled, of which none need ever happen.
write_ends(t) ==
  LET r == task[t].on
  IN /\ task[t].at = "write"
     /\ \/ Turn(r, 1, TRUE) /\ Pause(t, "pause-read") /\ Rest /\ UNCHANGED owned
        \/ Fail(t, r)

send_loops(t) ==
  LET r == task[t].on
      next == IF task[t].at = "pause" THEN "send" ELSE "send-read"
  IN /\ task[t].at \in {"pause", "pause-read"}
     /\ \/ /\ StillOpen(r) /\ file[resp[r].file] = "open"
           /\ Wait(t, r, IF Chunk(r) = 1 THEN next ELSE "check")
           /\ Rest /\ UNCHANGED <<resp, owned>>
        \/ Fail(t, r)

-----------------------------------------------------------------------------
(* Closing                                                                  *)

\* BodyState::close: it forbids more, waits for the file's operations and frees it, waits for
\* the reader, and releases the credits once.
Forbid(r) ==
  /\ resp' = [resp EXCEPT ![r].closed = TRUE]
  /\ file' = [f \in Files |-> IF f = resp[r].file THEN "closing" ELSE file[f]]

shut_frees(t) ==
  LET r == task[t].on
  IN /\ task[t].at \in {"shut", "close-shut"} /\ (resp[r].file = None \/ OpsOn(resp[r].file) = {})
     /\ FreeFiles({resp[r].file}) /\ resp' = [resp EXCEPT ![r].file = None]
     /\ Go(t, [task[t] EXCEPT !.at = IF @ = "shut" THEN "drain" ELSE "close-drain"])
     /\ UNCHANGED <<closing, closed, planning, registry, owned>>

shut_releases(t) ==
  LET r == task[t].on
  IN /\ task[t].at \in {"drain", "close-drain"} /\ ~resp[r].reading
     /\ owned' = Released(r, owned) /\ resp' = [resp EXCEPT ![r].released = TRUE]
     /\ IF task[t].at = "drain"
        THEN registry' = registry \ {r} /\ Go(t, Idle)
        ELSE UNCHANGED registry /\ Go(t, [task[t] EXCEPT !.at = "close-next", !.on = None])
     /\ UNCHANGED <<closing, closed, planning, file>>

\* Response::close; also a to_bytes that is refused, for any reason.
Response_close(t, r) ==
  /\ task[t].at = "idle" /\ resp[r].kind # "none" /\ Forbid(r)
  /\ Go(t, [Idle EXCEPT !.at = "shut", !.on = r])
  /\ UNCHANGED <<closing, closed, planning, registry, owned>>

StaticEngine_open(t) ==
  /\ file[Root] = "none" /\ ~closing /\ \A u \in Tasks : task[u].at = "idle"
  /\ Go(t, [Idle EXCEPT !.at = "root"])
  /\ UNCHANGED <<closing, closed, planning, registry, resp, file, owned>>

\* open_root ends; when it fails the runtime is closed again.
open_resumes(t) ==
  /\ task[t].at = "root" /\ Go(t, Idle)
  /\ \/ file' = [file EXCEPT ![Root] = "open"] /\ UNCHANGED <<closing, closed>>
     \/ closing' = TRUE /\ closed' = TRUE /\ UNCHANGED file
  /\ UNCHANGED <<planning, registry, resp, owned>>

StaticEngine_close(t) ==
  /\ task[t].at = "idle" /\ file[Root] = "open"
  /\ closing' = TRUE /\ Go(t, [Idle EXCEPT !.at = "close-plans"])
  /\ UNCHANGED <<closed, planning, registry, resp, file, owned>>

\* Mutant of close_plans: the outstanding responses are not closed.
close_plans_only(t) ==
  /\ task[t].at = "close-plans" /\ planning = 0
  /\ Go(t, [task[t] EXCEPT !.at = "close-next", !.left = {}])
  /\ UNCHANGED <<closing, closed, planning, registry, resp, file, owned>>

close_plans(t) ==
  /\ task[t].at = "close-plans" /\ planning = 0
  /\ Go(t, [task[t] EXCEPT !.at = "close-next", !.left = registry])
  /\ UNCHANGED <<closing, closed, planning, registry, resp, file, owned>>

close_next(t) ==
  /\ task[t].at = "close-next"
  /\ \E r \in task[t].left :
       /\ Forbid(r)
       /\ Go(t, [task[t] EXCEPT !.at = "close-shut", !.on = r, !.left = @ \ {r}])
  /\ UNCHANGED <<closing, closed, planning, registry, owned>>

close_root(t) ==
  /\ task[t].at = "close-next" /\ task[t].left = {} /\ OpsOn(Root) = {}
  /\ registry' = {} /\ FreeFiles({Root})
  /\ Go(t, [task[t] EXCEPT !.at = "close-runtime"])
  /\ UNCHANGED <<closing, closed, planning, resp, owned>>

\* Runtime::close waits for every operation; hs_io_pool_free gives back what the pool owns.
close_runtime(t) ==
  /\ task[t].at = "close-runtime" /\ \A u \in Tasks : task[u].op = None
  /\ closed' = TRUE /\ Go(t, Idle)
  /\ UNCHANGED <<closing, planning, registry, resp, file, owned>>

-----------------------------------------------------------------------------
Init ==
  /\ closing = FALSE /\ closed = FALSE /\ planning = 0 /\ registry = {}
  /\ resp = [r \in Responses |-> NoBody]
  /\ file = [f \in Files |-> "none"]
  /\ owned = [body |-> 0, dir |-> 0]
  /\ task = [t \in Tasks |-> Idle]

\* A call goes on by itself, or when the executor has done what it waits for.
Resume(t) ==
  \/ open_resumes(t) \/ handle_resumes(t)
  \/ check_resumes(t) \/ read_checked(t) \/ read_resumes(t) \/ collect_resumes(t)
  \/ send_resumes(t) \/ send_loops(t)
  \/ shut_frees(t) \/ shut_releases(t)
  \/ close_plans(t) \/ close_next(t) \/ close_root(t) \/ close_runtime(t)

Use(t) ==
  \/ StaticEngine_open(t) \/ handle(t)
  \/ \E r \in Responses :
       \/ check(t, r) \/ read(t, r) \/ to_bytes(t, r) \/ send_to(t, r)
       \/ read_memory(t, r) \/ to_bytes_memory(t, r)
Close(t) == StaticEngine_close(t) \/ \E r \in Responses : Response_close(t, r)

Next ==
  \/ \E t \in Users : Use(t)
  \/ \E t \in Tasks : Close(t) \/ Resume(t) \/ write_ends(t) \/ hs_open(t) \/ hs_list(t)

Spec == Init /\ [][Next]_vars
\* A kernel send may wait for its client (TransmitFile) until File::close or Runtime::stop
\* cancels it; a write to a client (write_ends) may last for ever.
Waits(t) == task[t].at = "send" /\ ~closing /\ file[task[t].op] # "closing"

FairSpec == Spec /\ \A t \in Tasks : WF_vars(~Waits(t) /\ Resume(t))

-----------------------------------------------------------------------------
(* Properties                                                               *)

ReadingAt == {"check", "read-check", "read", "collect-check", "collect", "send", "send-read",
              "write", "pause", "pause-read"}
ClosingAt == {"shut", "drain", "close-plans", "close-next", "close-shut", "close-drain",
              "close-runtime"}
Unreleased == {r \in Responses : ~resp[r].released}
PlanFiles(t) == (task[t].files \cup {task[t].dir, task[t].got}) \ {None}
Stages == ReadingAt \cup ClosingAt \cup
          {"idle", "root", "open", "prefix", "dir", "names", "entry", "verify"}

TypeOK ==
  /\ closing \in BOOLEAN /\ closed \in BOOLEAN /\ planning \in Nat
  /\ registry \subseteq Responses
  /\ resp \in [Responses -> [kind : {"none", "bytes", "listing", "file"}, file : Files \cup {None},
        len : Nat, cursor : Nat, closed : BOOLEAN, reading : BOOLEAN, released : BOOLEAN,
        charge : Nat, dir : Nat]]
  /\ file \in [Files -> {"none", "open", "closing"}]
  /\ owned \in [body : Nat, dir : Nat]
  /\ task \in [Tasks -> [at : Stages, op : Files \cup {None}, got : Files \cup {None}, job : Nat,
        files : SUBSET Files, dir : Files \cup {None}, charge : Nat, todo : SUBSET Files,
        asks : Nat, on : Responses \cup {None}, from : Nat, held : Nat,
        left : SUBSET Responses]]

\* No operation runs on a file that has been freed or after the pool has been freed; every
\* open file has one holder, a plan or a response, and none is left behind by any of
\* the ways a plan, a read or a close can end.
FilesExact ==
  /\ \A t \in Tasks : task[t].op # None => file[task[t].op] # "none" /\ ~closed
  /\ \A f \in Files \ {Root} :
       LET plans == {t \in Tasks : f \in PlanFiles(t)}
           bodies == {r \in Responses : resp[r].file = f}
       IN /\ file[f] = "none" => plans = {} /\ bodies = {}
          /\ file[f] # "none" => Cardinality(plans) + Cardinality(bodies) = 1

\* What the pool has granted is what plans, listing jobs, responses and collections hold, to
\* the byte, whatever fails in between: no path releases twice or forgets, and the silent
\* refusal of hs_io_release is never met.
CreditsExact ==
  ~closed =>
    /\ owned.body = MapThenSumSet(LAMBDA r : resp[r].charge, Unreleased)
                    + MapThenSumSet(LAMBDA t : task[t].held, Tasks)
    /\ owned.dir = MapThenSumSet(LAMBDA r : resp[r].dir, Unreleased)
                   + MapThenSumSet(LAMBDA t : task[t].charge + task[t].job, Tasks)

\* A response has one reader at a time, and the bytes it fetches are the ones at the cursor
\* when they are counted as delivered: none twice and none left out.
InOrder ==
  \A r \in Responses :
    LET readers == {t \in Tasks : task[t].on = r /\ task[t].at \in ReadingAt}
    IN /\ Cardinality(readers) = IF resp[r].reading THEN 1 ELSE 0
       /\ \A t \in readers : task[t].at \in {"read", "collect", "send", "send-read", "write"}
                               => task[t].from = resp[r].cursor

\* When StaticEngine::close has freed the pool no plan is under way, no file is open, no
\* operation runs, every response is closed, and only a to_bytes in flight still owns credits.
ClosedEmpty ==
  closed =>
    /\ planning = 0 /\ registry = {} /\ owned.dir = 0
    /\ \A f \in Files : file[f] = "none"
    /\ \A r \in Responses : resp[r].closed /\ resp[r].released /\ ~resp[r].reading
    /\ owned.body = MapThenSumSet(LAMBDA t : task[t].held, Tasks)

\* BodyState::close waits for the reader of the response, which may be writing to a client that
\* takes nothing more.
Stalled(t) ==
  /\ task[t].at \in {"drain", "close-drain"}
  /\ \E u \in Tasks : task[u].on = task[t].on /\ task[u].at = "write"

\* Closing a response or the engine ends, whatever the other tasks are suspended in, but for
\* one thing: from some time on the close waits behind a write of the response it is about to
\* release, which the client never lets end. Plans, operations of the executor, kernel sends and
\* other closes never hold it up.
ClosesEnd ==
  \A t \in Tasks :
    (task[t].at \in ClosingAt ~> task[t].at = "idle") \/ <>[]Stalled(t)
=============================================================================
