----------------------------- MODULE NodeAddon -----------------------------
(***************************************************************************)
(* The Node addon (c_abi/node/async_addon.c): the operations JavaScript    *)
(* submits through the asynchronous C ABI, the handles it gets back, and   *)
(* the teardown of a Node environment while operations are under way.      *)
(*                                                                         *)
(* Two threads: the JavaScript thread, which runs one function, callback   *)
(* or finalizer at a time, and the notifier of the library, which calls    *)
(* work_completed. Node-API and the C ABI are external. A thread-safe      *)
(* function calls deliver_work for what is queued and then work_finalizer, *)
(* once it is released or at any time during a teardown. The library       *)
(* answers an operation once; here it may take for ever over one that is   *)
(* neither cancelled nor a close (Bridge shows more).                      *)
(***************************************************************************)
EXTENDS Integers, FiniteSets

CONSTANT Works \* the hs_node_work objects ever made (no such bound in the code)

VARIABLES
  tearing,   \* Node tears the environment down: no JavaScript runs any more
  env,       \* hs_node_env; refs = 0 when it has been freed
  work,      \* each hs_node_work and its thread-safe function
  operation, \* each hs_node_operation; refs = 0 when there is none
  abi,       \* each operation of the library: "none", "running", "cancelled", "answered", "released"
  handle,    \* each hs_node_handle: what its ptr points to, or "released" when that is NULL
  owed       \* the resources handed over with the event of a work and not given back: what
             \* the library handed over, less the calls that release it

vars == <<tearing, env, work, operation, abi, handle, owed>>

\* at: "none", "submit" (in the submitting function), "live", "final" (in work_finalizer) or
\* "gone"; kind: of an operation not yet answered; done: native_done; queued: its function has a call queued; free: it is released.
NoWork == [at |-> "none", kind |-> "none", done |-> FALSE, event |-> "none", queued |-> FALSE,
           free |-> FALSE, settled |-> 0]

\* A work may have two handles: its token, and what its event delivered.
Handles == Works \X {"token", "result"}
Token(w) == <<w, "token">>
Result(w) == <<w, "result">>

Resources == {"engine", "response", "chunk"}
\* What the event of EngineCreate, EngineSubmit, ResponseRead or EngineClose brings; an error
\* and a result without a resource are settled in different words only.
Answers(kind) ==
  {"none"} \cup
  CASE kind = "create" -> {"engine"}
    [] kind = "submit" -> {"response"}
    [] kind = "read" -> {"chunk"}
    [] OTHER -> {}

\* The JavaScript thread is not inside a function of the addon.
JsFree == \A w \in Works : work[w].at \notin {"submit", "final"}
Live(h) == handle[h] \in {"operation", "engine", "response"}
Has(kind) == \E h \in Handles : handle[h] = kind

-----------------------------------------------------------------------------
(* The environment and its handles                                          *)

\* The cleanup hook is removed, once, when nothing is pending.
node_pending_done(e) ==
  [e EXCEPT !.pending = @ - 1,
            !.cleanup = IF e.closing /\ e.pending = 1 /\ @ = "set" THEN "removed" ELSE @]
node_env_drop(e) == [e EXCEPT !.refs = @ - 1]

HasResource(w) == IF work[w].event \in Resources THEN 1 ELSE 0

\* dispose_event, for one work.
dispose_event(w) == owed' = [owed EXCEPT ![w] = @ - HasResource(w)]

\* release_node_handle for the handles hs: what they deliver is given back (an engine is closed
\* first, unless EngineClose has); a token cancels its operation while that is there.
release_node_handle(hs) ==
  LET freed == {h \in hs : Live(h)}
      stop == {w \in Works : Token(w) \in freed /\ operation[w].ptr /\ abi[w] = "running"}
  IN /\ owed' = [w \in Works |-> owed[w] - IF Result(w) \in freed THEN 1 ELSE 0]
     /\ operation' = [w \in Works |->
          IF Token(w) \in freed THEN [operation[w] EXCEPT !.refs = @ - 1] ELSE operation[w]]
     /\ abi' = [w \in Works |-> IF w \in stop THEN "cancelled" ELSE abi[w]]

HandleRelease(h) ==
  /\ JsFree /\ ~tearing /\ Live(h)
  /\ release_node_handle({h}) /\ handle' = [handle EXCEPT ![h] = "released"]
  /\ UNCHANGED <<tearing, env, work>>

\* The garbage collector, or Node after the teardown, finalizes a handle's object.
handle_finalizer(h) ==
  /\ JsFree /\ handle[h] # "none"
  /\ release_node_handle({h}) /\ handle' = [handle EXCEPT ![h] = "none"]
  /\ env' = node_env_drop(env)
  /\ UNCHANGED <<tearing, work>>

OperationCancel(w) ==
  /\ JsFree /\ ~tearing /\ Live(Token(w)) /\ operation[w].ptr /\ abi[w] = "running"
  /\ abi' = [abi EXCEPT ![w] = "cancelled"]
  /\ UNCHANGED <<tearing, env, work, operation, handle, owed>>

-----------------------------------------------------------------------------
(* Works                                                                    *)

Kinds == {"create", "submit", "read", "close"}
Needs(kind) == CASE kind = "create" -> TRUE
                 [] kind = "read" -> Has("response")
                 [] OTHER -> Has("engine")

\* One unused work stands for all of them.
Fresh(w) == work[w].at = "none" /\ w = CHOOSE v \in Works : work[v].at = "none"

\* EngineCreate, EngineSubmit, ResponseRead, EngineClose: new_work, and the call of the
\* library, which accepts the operation: its callback may come before finish_submit.
new_work(w, kind) ==
  /\ JsFree /\ ~tearing /\ Fresh(w) /\ Needs(kind)
  /\ work' = [work EXCEPT ![w] = [NoWork EXCEPT !.at = "submit", !.kind = kind]]
  /\ env' = [env EXCEPT !.refs = @ + 1, !.pending = @ + 1]
  /\ abi' = [abi EXCEPT ![w] = "running"]
  /\ UNCHANGED <<tearing, operation, handle, owed>>

\* The library refuses, whatever the kind: the promise is rejected, the work has nothing to
\* wait for.
submit_refused(w) ==
  /\ JsFree /\ ~tearing /\ Fresh(w)
  /\ work' = [work EXCEPT ![w] = [NoWork EXCEPT !.at = "live", !.done = TRUE, !.free = TRUE,
                                                 !.settled = 1]]
  /\ env' = [env EXCEPT !.refs = @ + 1, !.pending = @ + 1]
  /\ UNCHANGED <<tearing, operation, abi, handle, owed>>

\* Mutant of finish_submit: the token's reference to the operation is not counted.
finish_submit_shared(w) ==
  /\ work[w].at = "submit"
  /\ work' = [work EXCEPT ![w].at = "live"]
  /\ operation' = [operation EXCEPT ![w] = [ptr |-> TRUE, refs |-> 1]]
  /\ handle' = [handle EXCEPT ![Token(w)] = "operation"]
  /\ env' = [env EXCEPT !.refs = @ + 1]
  /\ UNCHANGED <<tearing, abi, owed>>

finish_submit(w) ==
  /\ work[w].at = "submit"
  /\ work' = [work EXCEPT ![w].at = "live"]
  /\ operation' = [operation EXCEPT ![w] = [ptr |-> TRUE, refs |-> 2]]
  /\ handle' = [handle EXCEPT ![Token(w)] = "operation"]
  /\ env' = [env EXCEPT !.refs = @ + 1]
  /\ UNCHANGED <<tearing, abi, owed>>

\* The notifier: the event is kept in the work, and the work's function called and released
\* unless it is finalized already. A function being torn down may refuse the call.
work_completed(w) ==
  /\ abi[w] \in {"running", "cancelled"}
  /\ abi' = [abi EXCEPT ![w] = "answered"]
  /\ \E result \in Answers(work[w].kind), queued \in BOOLEAN :
       /\ queued => work[w].at # "final"
       /\ queued \/ work[w].at = "final" \/ tearing
       /\ work' = [work EXCEPT ![w].event = result, ![w].done = TRUE, ![w].queued = queued,
                               ![w].free = TRUE, ![w].kind = "none"]
       /\ owed' = [owed EXCEPT ![w] = @ + IF result \in Resources THEN 1 ELSE 0]
  /\ UNCHANGED <<tearing, env, operation, handle>>

\* deliver_work without an environment, or in one that is closing: the promise stays open.
Discard(w) ==
  /\ dispose_event(w)
  /\ work' = [work EXCEPT ![w].queued = FALSE, ![w].event = "none"]
  /\ UNCHANGED <<env, handle>>

\* Mutant of Settle: `v->engine = NULL` is missing.
Settle_keeps(w) ==
  LET wraps == work[w].event \in {"engine", "response"}
  IN /\ IF wraps THEN UNCHANGED owed ELSE dispose_event(w)
     /\ handle' = IF wraps THEN [handle EXCEPT ![Result(w)] = work[w].event] ELSE handle
     /\ env' = IF wraps THEN [env EXCEPT !.refs = @ + 1] ELSE env
     /\ work' = [work EXCEPT ![w].queued = FALSE, ![w].settled = @ + 1]

\* The promise is settled: an engine or a response is wrapped, a chunk copied and released.
Settle(w) ==
  LET wraps == work[w].event \in {"engine", "response"}
  IN /\ IF wraps THEN UNCHANGED owed ELSE dispose_event(w)
     /\ handle' = IF wraps THEN [handle EXCEPT ![Result(w)] = work[w].event] ELSE handle
     /\ env' = IF wraps THEN [env EXCEPT !.refs = @ + 1] ELSE env
     /\ work' = [work EXCEPT ![w].queued = FALSE, ![w].event = "none", ![w].settled = @ + 1]

\* Mutant of deliver_work: `closing` is not consulted.
deliver_work_late(w) ==
  /\ JsFree /\ work[w].at = "live" /\ work[w].queued
  /\ (tearing /\ Discard(w)) \/ Settle(w)
  /\ UNCHANGED <<tearing, operation, abi>>

deliver_work(w) ==
  /\ JsFree /\ work[w].at = "live" /\ work[w].queued
  /\ (tearing /\ Discard(w)) \/ (~env.closing /\ Settle(w))
  /\ UNCHANGED <<tearing, operation, abi>>

\* Mutant of work_finalizer: it waits for what nobody has cancelled.
work_finalizer_waits(w) ==
  /\ JsFree /\ work[w].at = "live" /\ ~work[w].queued /\ (work[w].free \/ tearing)
  /\ work' = [work EXCEPT ![w].at = "final"]
  /\ UNCHANGED <<tearing, env, operation, abi, handle, owed>>

\* work_finalizer cancels what is not answered and waits for the notifier.
work_finalizer(w) ==
  /\ JsFree /\ work[w].at = "live" /\ ~work[w].queued /\ (work[w].free \/ tearing)
  /\ work' = [work EXCEPT ![w].at = "final"]
  /\ abi' = [abi EXCEPT ![w] = IF ~work[w].done /\ operation[w].ptr /\ @ = "running"
                               THEN "cancelled" ELSE @]
  /\ UNCHANGED <<tearing, env, operation, handle, owed>>

finalizer_returns(w) ==
  /\ work[w].at = "final" /\ work[w].done
  /\ dispose_event(w)
  /\ work' = [work EXCEPT ![w] = [NoWork EXCEPT !.at = "gone"]]
  /\ IF operation[w].ptr
     THEN /\ operation' = [operation EXCEPT ![w] = [ptr |-> FALSE, refs |-> @.refs - 1]]
          /\ abi' = [abi EXCEPT ![w] = "released"]
     ELSE UNCHANGED <<operation, abi>>
  /\ env' = node_env_drop(node_pending_done(env))
  /\ UNCHANGED <<tearing, handle>>

-----------------------------------------------------------------------------
(* Teardown                                                                 *)

teardown == ~tearing /\ JsFree /\ tearing' = TRUE
            /\ UNCHANGED <<env, work, operation, abi, handle, owed>>

env_cleanup ==
  /\ tearing /\ JsFree /\ ~env.closing
  /\ release_node_handle(Handles)
  /\ handle' = [h \in Handles |-> IF Live(h) THEN "released" ELSE handle[h]]
  /\ env' = node_env_drop(node_pending_done(
              [env EXCEPT !.closing = TRUE, !.cleanup = "set", !.pending = @ + 1]))
  /\ UNCHANGED <<tearing, work>>

-----------------------------------------------------------------------------
Init ==
  /\ tearing = FALSE
  /\ env = [refs |-> 1, pending |-> 0, closing |-> FALSE, cleanup |-> "none"]
  /\ work = [w \in Works |-> NoWork]
  /\ operation = [w \in Works |-> [ptr |-> FALSE, refs |-> 0]]
  /\ abi = [w \in Works |-> "none"]
  /\ handle = [h \in Handles |-> "none"]
  /\ owed = [w \in Works |-> 0]

\* The event loop of Node goes on by itself.
Loop(w) == finish_submit(w) \/ deliver_work(w) \/ work_finalizer(w) \/ finalizer_returns(w)

Next ==
  \/ \E w \in Works :
       \/ Loop(w) \/ work_completed(w) \/ OperationCancel(w)
       \/ submit_refused(w) \/ \E kind \in Kinds : new_work(w, kind)
  \/ \E h \in Handles : HandleRelease(h) \/ handle_finalizer(h)
  \/ teardown \/ env_cleanup

Spec == Init /\ [][Next]_vars

Answered(w) == (abi[w] = "cancelled" \/ work[w].kind = "close") /\ work_completed(w)
FairSpec ==
  /\ Spec /\ WF_vars(env_cleanup)
  /\ \A w \in Works : WF_vars(Loop(w)) /\ WF_vars(Answered(w))

-----------------------------------------------------------------------------
(* Properties                                                               *)

Count(S) == Cardinality(S)
Wrapped == {h \in Handles : handle[h] # "none"}
Working == {w \in Works : work[w].at \in {"submit", "live", "final"}}

\* The environment's references are its own, its handles' and its works', so it is freed when
\* all are gone and not before; pending is the number of works; an operation's references are
\* its token's and its work's; and the notifier never calls back for a work that is freed, nor
\* a token cancels an operation that is released.
AddonRefsExact ==
  /\ env.refs = Count(Wrapped) + Count(Working) + IF env.closing THEN 0 ELSE 1
  /\ env.pending = Count(Working)
  /\ \A w \in Works :
       /\ operation[w].refs = (IF Live(Token(w)) THEN 1 ELSE 0)
                              + (IF operation[w].ptr THEN 1 ELSE 0)
       /\ operation[w].ptr => abi[w] # "released"
       /\ abi[w] \in {"running", "cancelled"} => w \in Working

\* Every engine, response and chunk the library hands over is in one place, the event of a work
\* or the handle of a script, until it has been given back, once; and a promise is settled
\* once, or never when a teardown comes first.
ResourcesOnce ==
  \A w \in Works :
    /\ owed[w] = HasResource(w) + IF Live(Result(w)) THEN 1 ELSE 0
    /\ work[w].settled <= 1 /\ (work[w].at = "final" /\ ~tearing => work[w].settled = 1)

\* Node may unload the addon once its cleanup hook is removed: then the library owes it no
\* callback, every operation is released and every resource given back.
UnloadSafe ==
  env.cleanup = "removed" =>
    \A w \in Works : /\ work[w].at \in {"none", "gone"} /\ abi[w] \in {"none", "released"}
                     /\ owed[w] = 0

\* A teardown ends although operations may hang until they are cancelled.
TeardownEnds == tearing ~> env.cleanup = "removed"
============================================================================
