-------------------------- MODULE NodeAddonProofs --------------------------
(***************************************************************************)
(* References, resources and teardown of the Node addon, for any number of *)
(* works, also an unbounded one.                                           *)
(***************************************************************************)
EXTENDS NodeAddon, SumLemmas

AbiStates == {"none", "running", "cancelled", "answered", "released"}
WorkType ==
  [at : {"none", "submit", "live", "final", "gone"}, kind : Kinds \cup {"none"}, done : BOOLEAN,
   event : Resources \cup {"none"}, queued : BOOLEAN, free : BOOLEAN, settled : {0, 1}]

NodeTypes ==
  /\ tearing \in BOOLEAN
  /\ env \in [refs : Int, pending : Int, closing : BOOLEAN, cleanup : {"none", "set", "removed"}]
  /\ work \in [Works -> WorkType]
  /\ operation \in [Works -> [ptr : BOOLEAN, refs : Int]]
  /\ abi \in [Works -> AbiStates]
  /\ handle \in [Handles -> {"none", "operation", "engine", "response", "released"}]
  /\ owed \in [Works -> Int]

\* The stages of a work, and what its operation, its two handles and its event are in each.
Stage(w) ==
  LET k == work[w]
      token == handle[Token(w)]
      result == handle[Result(w)]
  IN /\ k.at = "none" => abi[w] = "none" /\ ~k.done /\ result = "none"
     /\ k.at \in {"none", "submit"} => token = "none" /\ ~operation[w].ptr
     /\ k.at = "submit" => abi[w] \in {"running", "answered"}
     /\ k.at \in {"live", "final"} =>
          IF operation[w].ptr THEN abi[w] \in {"running", "cancelled", "answered"}
                              ELSE abi[w] = "none" /\ k.done
     /\ k.at = "gone" => ~operation[w].ptr /\ abi[w] \in {"none", "released"} /\ ~k.done
     /\ abi[w] \in {"running", "cancelled"} => ~k.done
     /\ abi[w] = "answered" => k.done
     /\ k.done = k.free
     /\ ~k.done => ~k.queued /\ k.event = "none" /\ k.settled = 0
     /\ k.queued => k.settled = 0 /\ k.at \in {"submit", "live"}
     /\ k.event # "none" => k.settled = 0
     /\ k.done /\ ~k.queued /\ ~tearing => k.settled = 1
     /\ k.at = "final" /\ ~tearing => k.done
     /\ tearing => k.at # "submit"
     /\ token \in {"none", "operation", "released"}
     /\ result \in {"none", "engine", "response", "released"}
     /\ result # "none" => k.settled = 1 \/ k.at = "gone"
     /\ env.closing => token # "operation" /\ result \in {"none", "released"}

\* What is counted for one work.
Held(w) ==
  /\ operation[w].refs = (IF handle[Token(w)] = "operation" THEN 1 ELSE 0)
                         + (IF operation[w].ptr THEN 1 ELSE 0)
  /\ owed[w] = (IF work[w].event # "none" THEN 1 ELSE 0)
               + (IF handle[Result(w)] \in {"engine", "response"} THEN 1 ELSE 0)

EnvCounts ==
  /\ IsFiniteSet(Wrapped) /\ IsFiniteSet(Working)
  /\ env.refs = Cardinality(Wrapped) + Cardinality(Working) + IF env.closing THEN 0 ELSE 1
  /\ env.pending = Cardinality(Working)
  /\ env.closing => tearing
  /\ env.cleanup = "removed" => env.closing /\ env.pending = 0

NodeInv == NodeTypes /\ (\A w \in Works : Stage(w) /\ Held(w)) /\ EnvCounts

-----------------------------------------------------------------------------
(* Handles and counts                                                       *)

\* Every handle is the token or the result of one work.
LEMMA HandleNames ==
  /\ \A w \in Works : Token(w) \in Handles /\ Result(w) \in Handles
  /\ \A v, w : Token(v) # Result(w)
  /\ \A v, w : Token(v) = Token(w) => v = w
  /\ \A v, w : Result(v) = Result(w) => v = w
  /\ \A h \in Handles : \E w \in Works : h = Token(w) \/ h = Result(w)
BY DEF Handles, Token, Result

\* One handle is wrapped or finalized.
LEMMA OneHandle ==
  ASSUME NodeInv, NEW h \in Handles, \A g \in Handles : g # h => handle'[g] = handle[g]
  PROVE  /\ IsFiniteSet(Wrapped') /\ Cardinality(Wrapped) \in Nat
         /\ Cardinality(Wrapped') = (Cardinality(Wrapped) - IF handle[h] # "none" THEN 1 ELSE 0)
                                    + IF handle'[h] # "none" THEN 1 ELSE 0
<1>1. Wrapped \ {h} = Wrapped' \ {h} /\ IsFiniteSet(Wrapped)
  BY DEF NodeInv, EnvCounts, Wrapped
<1>2. (h \in Wrapped <=> handle[h] # "none") /\ (h \in Wrapped' <=> handle'[h] # "none")
  BY DEF Wrapped
<1>3. /\ IsFiniteSet(Wrapped') /\ Cardinality(Wrapped) \in Nat
      /\ Cardinality(Wrapped') = (Cardinality(Wrapped) - IF h \in Wrapped THEN 1 ELSE 0)
                                 + IF h \in Wrapped' THEN 1 ELSE 0
  BY <1>1, CountChange
<1> QED BY <1>2, <1>3

\* One work begins or ends.
LEMMA OneWork ==
  ASSUME NodeInv, NEW w \in Works, \A v \in Works : v # w => work'[v].at = work[v].at
  PROVE  LET Busy == {"submit", "live", "final"}
         IN  /\ IsFiniteSet(Working') /\ Cardinality(Working) \in Nat /\ Cardinality(Working') \in Nat
             /\ work[w].at \in Busy => Cardinality(Working) > 0
             /\ Cardinality(Working') = (Cardinality(Working) - IF work[w].at \in Busy THEN 1 ELSE 0)
                                        + IF work'[w].at \in Busy THEN 1 ELSE 0
<1>1. Working \ {w} = Working' \ {w} /\ IsFiniteSet(Working)
  BY DEF NodeInv, EnvCounts, Working
<1>2. /\ w \in Working <=> work[w].at \in {"submit", "live", "final"}
      /\ w \in Working' <=> work'[w].at \in {"submit", "live", "final"}
  BY DEF Working
<1>3. /\ IsFiniteSet(Working') /\ Cardinality(Working) \in Nat /\ Cardinality(Working') \in Nat
      /\ w \in Working => Cardinality(Working) > 0
      /\ Cardinality(Working') = (Cardinality(Working) - IF w \in Working THEN 1 ELSE 0)
                                 + IF w \in Working' THEN 1 ELSE 0
  BY <1>1, CountChange
<1> QED BY <1>2, <1>3

\* Neither handles nor works come or go.
LEMMA SameCounts ==
  ASSUME NodeInv, \A h \in Handles : handle'[h] = "none" <=> handle[h] = "none",
         \A v \in Works : work'[v].at \in {"submit", "live", "final"}
                          <=> work[v].at \in {"submit", "live", "final"}
  PROVE  Wrapped' = Wrapped /\ Working' = Working
BY DEF Wrapped, Working

\* A work that a step leaves alone, handles and all, stays as it is.
LEMMA Others ==
  ASSUME NodeInv, NEW v \in Works, work'[v] = work[v], abi'[v] = abi[v], operation'[v] = operation[v],
         owed'[v] = owed[v], handle'[Token(v)] = handle[Token(v)], handle'[Result(v)] = handle[Result(v)],
         UNCHANGED <<tearing, env.closing>>
  PROVE  Stage(v)' /\ Held(v)'
BY DEF NodeInv, Stage, Held

\* The environment's record with other counts.
EnvType == [refs : Int, pending : Int, closing : BOOLEAN, cleanup : {"none", "set", "removed"}]
LEMMA EnvWork ==
  ASSUME NodeInv, env' = [env EXCEPT !.refs = @ + 1, !.pending = @ + 1]
  PROVE  /\ env' \in EnvType /\ env'.refs = env.refs + 1 /\ env'.pending = env.pending + 1
         /\ env'.closing = env.closing /\ env'.cleanup = env.cleanup
<1>1. env \in EnvType /\ env.refs \in Int /\ env.pending \in Int
  BY DEF NodeInv, NodeTypes, EnvType
<1>2. env.refs + 1 \in Int /\ env.pending + 1 \in Int
  BY <1>1
<1>3. env' \in EnvType
  BY <1>1, <1>2 DEF EnvType
<1>4. env'.refs = env.refs + 1 /\ env'.pending = env.pending + 1
  BY <1>1 DEF EnvType
<1>5. env'.closing = env.closing /\ env'.cleanup = env.cleanup
  BY <1>1 DEF EnvType
<1> QED BY <1>3, <1>4, <1>5

LEMMA EnvHandle ==
  ASSUME NodeInv, NEW n \in {1, -1}, env' = [env EXCEPT !.refs = @ + n]
  PROVE  /\ env' \in EnvType /\ env'.refs = env.refs + n /\ env'.pending = env.pending
         /\ env'.closing = env.closing /\ env'.cleanup = env.cleanup
<1>1. env \in EnvType /\ env.refs \in Int /\ env.refs + n \in Int
  BY DEF NodeInv, NodeTypes, EnvType
<1>3. env' \in EnvType
  BY <1>1 DEF EnvType
<1>4. env'.refs = env.refs + n /\ env'.pending = env.pending
  BY <1>1 DEF EnvType
<1>5. env'.closing = env.closing /\ env'.cleanup = env.cleanup
  BY <1>1 DEF EnvType
<1> QED BY <1>3, <1>4, <1>5

-----------------------------------------------------------------------------
(* The steps                                                                *)

\* A record of the works is replaced.
LEMMA PutWork ==
  ASSUME NodeInv, NEW w \in Works, NEW k \in WorkType, work' = [work EXCEPT ![w] = k]
  PROVE  /\ work' \in [Works -> WorkType] /\ work'[w] = k
         /\ \A v \in Works : v # w => work'[v] = work[v]
<1>1. work \in [Works -> WorkType]
  BY DEF NodeInv, NodeTypes
<1> QED BY <1>1

\* A work is made, for an operation that the library accepts or refuses: k is its first record.
LEMMA NewWork ==
  ASSUME NodeInv, NEW w \in Works, (\E kind \in Kinds : new_work(w, kind)) \/ submit_refused(w)
  PROVE  NodeInv'
<1>1. /\ work[w].at = "none" /\ ~tearing /\ UNCHANGED <<tearing, operation, handle, owed>>
      /\ env' = [env EXCEPT !.refs = @ + 1, !.pending = @ + 1]
  BY DEF Fresh, new_work, submit_refused
<1>2. /\ env' \in EnvType /\ env'.refs = env.refs + 1 /\ env'.pending = env.pending + 1
      /\ env'.closing = env.closing /\ env'.cleanup = env.cleanup
  BY <1>1, EnvWork
<1>3. PICK k \in WorkType :
        /\ work' = [work EXCEPT ![w] = k]
        /\ ~k.queued /\ k.event = "none" /\ k.done = k.free
        /\ \/ k.at = "submit" /\ ~k.done /\ k.settled = 0 /\ abi' = [abi EXCEPT ![w] = "running"]
           \/ k.at = "live" /\ k.done /\ k.settled = 1 /\ abi' = abi
  <2>1. CASE submit_refused(w)
    <3> DEFINE k == [NoWork EXCEPT !.at = "live", !.done = TRUE, !.free = TRUE, !.settled = 1]
    <3>1. k \in WorkType
      BY DEF WorkType, NoWork
    <3>2. /\ ~k.queued /\ k.event = "none" /\ k.done = k.free
          /\ k.at = "live" /\ k.done /\ k.settled = 1
      BY DEF NoWork
    <3>3. work' = [work EXCEPT ![w] = k] /\ abi' = abi
      BY <2>1 DEF submit_refused
    <3> HIDE DEF k
    <3> QED BY <3>1, <3>2, <3>3
  <2>2. CASE \E kind \in Kinds : new_work(w, kind)
    <3> PICK kind \in Kinds : new_work(w, kind)
      BY <2>2
    <3> DEFINE k == [NoWork EXCEPT !.at = "submit", !.kind = kind]
    <3>1. k \in WorkType
      BY DEF WorkType, NoWork
    <3>2. /\ ~k.queued /\ k.event = "none" /\ k.done = k.free
          /\ k.at = "submit" /\ ~k.done /\ k.settled = 0
      BY DEF NoWork
    <3>3. work' = [work EXCEPT ![w] = k] /\ abi' = [abi EXCEPT ![w] = "running"]
      BY DEF new_work
    <3> HIDE DEF k
    <3> QED BY <3>1, <3>2, <3>3
  <2> QED BY <2>1, <2>2
<1>4. /\ work' \in [Works -> WorkType] /\ work'[w] = k
      /\ \A v \in Works : v # w => work'[v] = work[v]
  BY <1>3, PutWork
<1>5. /\ abi' \in [Works -> AbiStates] /\ \A v \in Works : v # w => abi'[v] = abi[v]
      /\ k.at = "submit" => abi'[w] = "running"
      /\ k.at = "live" => abi'[w] = abi[w]
  BY <1>3 DEF NodeInv, NodeTypes, AbiStates
<1>6. NodeTypes'
  BY <1>1, <1>2, <1>4, <1>5 DEF NodeInv, NodeTypes, EnvType
<1>7. Stage(w) /\ Held(w)
  BY DEF NodeInv
<1>8. Stage(w)'
  BY <1>1, <1>2, <1>3, <1>4, <1>5, <1>7 DEF Stage
<1>9. Held(w)'
  BY <1>1, <1>3, <1>4, <1>7 DEF Stage, Held
<1>10. \A v \in Works : v # w => Stage(v)' /\ Held(v)'
  BY <1>1, <1>2, <1>4, <1>5, Others
<1>11. EnvCounts'
  <2>1. Wrapped' = Wrapped
    BY <1>1 DEF Wrapped
  <2>2. k.at \in {"submit", "live", "final"} /\ work'[w].at = k.at
    BY <1>3, <1>4
  <2>3. \A v \in Works : v # w => work'[v].at = work[v].at
    BY <1>4
  <2>4. /\ IsFiniteSet(Working') /\ Cardinality(Working) \in Nat
        /\ Cardinality(Working') = Cardinality(Working) + 1
    BY <1>1, <2>2, <2>3, OneWork
  <2>5. Cardinality(Wrapped) \in Nat
    BY FS_CardinalityType DEF NodeInv, EnvCounts
  <2>6. env.cleanup # "removed"
    BY <1>1 DEF NodeInv, EnvCounts
  <2> QED BY <1>1, <1>2, <2>1, <2>4, <2>5, <2>6 DEF NodeInv, EnvCounts
<1> QED BY <1>6, <1>8, <1>9, <1>10, <1>11 DEF NodeInv

\* The counts when neither handles nor works come or go and the environment stays.
LEMMA CountsStay ==
  ASSUME NodeInv, UNCHANGED env, tearing => tearing',
         \A h \in Handles : handle'[h] = "none" <=> handle[h] = "none",
         \A v \in Works : work'[v].at \in {"submit", "live", "final"}
                          <=> work[v].at \in {"submit", "live", "final"}
  PROVE  EnvCounts'
BY SameCounts DEF NodeInv, EnvCounts

\* One more handle is wrapped.
LEMMA Wraps ==
  ASSUME NodeInv, NEW h \in Handles, \A g \in Handles : g # h => handle'[g] = handle[g],
         handle[h] = "none", handle'[h] # "none", env' = [env EXCEPT !.refs = @ + 1],
         tearing => tearing',
         \A v \in Works : work'[v].at \in {"submit", "live", "final"}
                          <=> work[v].at \in {"submit", "live", "final"}
  PROVE  EnvCounts' /\ env' \in EnvType /\ env'.closing = env.closing
<1>1. /\ env' \in EnvType /\ env'.refs = env.refs + 1 /\ env'.pending = env.pending
      /\ env'.closing = env.closing /\ env'.cleanup = env.cleanup
  BY EnvHandle
<1>2. IsFiniteSet(Wrapped') /\ Cardinality(Wrapped') = Cardinality(Wrapped) + 1
      /\ Cardinality(Wrapped) \in Nat
  BY OneHandle
<1>3. Working' = Working
  BY DEF Working
<1>4. Cardinality(Working) \in Nat
  BY FS_CardinalityType DEF NodeInv, EnvCounts
<1> QED BY <1>1, <1>2, <1>3, <1>4 DEF NodeInv, EnvCounts

\* The submitting function returns: the token and the work share the operation.
LEMMA Submitted ==
  ASSUME NodeInv, NEW w \in Works, finish_submit(w)
  PROVE  NodeInv'
<1> USE DEF finish_submit
<1>1. /\ work' \in [Works -> WorkType] /\ \A v \in Works : v # w => work'[v] = work[v]
      /\ work'[w] = [work[w] EXCEPT !.at = "live"]
  <2>1. [work[w] EXCEPT !.at = "live"] \in WorkType
    BY DEF NodeInv, NodeTypes, WorkType
  <2> QED BY <2>1, PutWork
<1>2. /\ operation' \in [Works -> [ptr : BOOLEAN, refs : Int]]
      /\ \A v \in Works : v # w => operation'[v] = operation[v]
      /\ operation'[w].ptr /\ operation'[w].refs = 2
  BY DEF NodeInv, NodeTypes
<1>3. /\ handle' \in [Handles -> {"none", "operation", "engine", "response", "released"}]
      /\ \A h \in Handles : h # Token(w) => handle'[h] = handle[h]
      /\ handle'[Token(w)] = "operation" /\ Token(w) \in Handles /\ handle[Token(w)] = "none"
  BY HandleNames DEF NodeInv, NodeTypes, Stage
<1>4. /\ \A v \in Works : v # w => handle'[Token(v)] = handle[Token(v)]
      /\ \A v \in Works : handle'[Result(v)] = handle[Result(v)]
  BY <1>3, HandleNames
<1>5. \A v \in Works : work'[v].at \in {"submit", "live", "final"}
                       <=> work[v].at \in {"submit", "live", "final"}
  BY <1>1 DEF NodeInv, NodeTypes, WorkType
<1>6. EnvCounts' /\ env' \in EnvType /\ env'.closing = env.closing
  BY <1>3, <1>5, Wraps
<1>7. Stage(w)' /\ Held(w)'
  <2>1. /\ work'[w].at = "live" /\ work'[w].done = work[w].done /\ work'[w].free = work[w].free
        /\ work'[w].event = work[w].event /\ work'[w].queued = work[w].queued
        /\ work'[w].settled = work[w].settled
    BY <1>1 DEF NodeInv, NodeTypes, WorkType
  <2>2. ~env.closing
    BY DEF NodeInv, EnvCounts, Stage
  <2>3. Stage(w) /\ Held(w) /\ work[w].at = "submit"
    BY DEF NodeInv
  <2>4. Stage(w)'
    BY <1>2, <1>3, <1>4, <1>6, <2>1, <2>2, <2>3 DEF Stage
  <2>5. Held(w)'
    BY <1>2, <1>3, <1>4, <2>1, <2>3 DEF Held
  <2> QED BY <2>4, <2>5
<1>8. \A v \in Works : v # w => Stage(v)' /\ Held(v)'
  BY <1>1, <1>2, <1>4, <1>6, Others DEF NodeInv, NodeTypes
<1>9. NodeTypes'
  BY <1>1, <1>2, <1>3, <1>6 DEF NodeInv, NodeTypes, EnvType
<1> QED BY <1>6, <1>7, <1>8, <1>9 DEF NodeInv

\* The event is kept in the work, which takes over the resource in it.
LEMMA Completed ==
  ASSUME NodeInv, NEW w \in Works, work_completed(w)
  PROVE  NodeInv'
<1>1. PICK result \in Answers(work[w].kind), queued \in BOOLEAN :
        /\ queued => work[w].at # "final"
        /\ queued \/ work[w].at = "final" \/ tearing
        /\ work' = [work EXCEPT ![w].event = result, ![w].done = TRUE, ![w].queued = queued,
                                ![w].free = TRUE, ![w].kind = "none"]
        /\ owed' = [owed EXCEPT ![w] = @ + IF result \in Resources THEN 1 ELSE 0]
  BY DEF work_completed
<1>2. result \in {"none", "engine", "response", "chunk"}
  BY DEF Answers
<1>3. /\ work' \in [Works -> WorkType] /\ \A v \in Works : v # w => work'[v] = work[v]
      /\ work'[w].at = work[w].at /\ work'[w].done /\ work'[w].free
      /\ work'[w].event = result /\ work'[w].queued = queued
      /\ work'[w].settled = work[w].settled
  <2> DEFINE k == [work[w] EXCEPT !.event = result, !.done = TRUE, !.queued = queued,
                                  !.free = TRUE, !.kind = "none"]
  <2>1. work[w] \in WorkType /\ work \in [Works -> WorkType]
    BY DEF NodeInv, NodeTypes
  <2>2. k \in WorkType
    BY <1>2, <2>1 DEF WorkType, Resources
  <2>3. /\ k.at = work[w].at /\ k.done /\ k.free
        /\ k.event = result /\ k.queued = queued /\ k.settled = work[w].settled
    BY <2>1 DEF WorkType
  <2>4. work' = [work EXCEPT ![w] = k]
    BY <1>1, <2>1
  <2> HIDE DEF k
  <2> QED BY <2>2, <2>3, <2>4, PutWork
<1>4. /\ abi[w] \in {"running", "cancelled"} /\ abi'[w] = "answered"
      /\ abi' \in [Works -> AbiStates] /\ \A v \in Works : v # w => abi'[v] = abi[v]
      /\ UNCHANGED <<tearing, env, operation, handle>>
  BY DEF work_completed, NodeInv, NodeTypes, AbiStates
<1>5. /\ owed' \in [Works -> Int] /\ \A v \in Works : v # w => owed'[v] = owed[v]
      /\ owed'[w] = owed[w] + IF result # "none" THEN 1 ELSE 0
  BY <1>1, <1>2 DEF NodeInv, NodeTypes, Resources
<1>6. Stage(w) /\ Held(w) /\ work[w].at \in {"none", "submit", "live", "final", "gone"}
  BY DEF NodeInv, NodeTypes, WorkType
<1>7. Stage(w)'
  BY <1>1, <1>3, <1>4, <1>6 DEF Stage
<1>8. Held(w)'
  BY <1>3, <1>4, <1>5, <1>6 DEF Stage, Held
<1>9. \A v \in Works : v # w => Stage(v)' /\ Held(v)'
  BY <1>3, <1>4, <1>5, Others
<1>10. EnvCounts'
  <2>1. \A v \in Works : work'[v].at = work[v].at
    BY <1>3
  <2> QED BY <1>4, <2>1, CountsStay
<1>11. NodeTypes'
  BY <1>3, <1>4, <1>5 DEF NodeInv, NodeTypes
<1> QED BY <1>7, <1>8, <1>9, <1>10, <1>11 DEF NodeInv

\* The call queued is made: the event is discarded, or the promise settled with it.
LEMMA Delivered ==
  ASSUME NodeInv, NEW w \in Works, deliver_work(w)
  PROVE  NodeInv'
<1>1. /\ work[w].at = "live" /\ work[w].queued /\ UNCHANGED <<tearing, operation, abi>>
      /\ (tearing /\ Discard(w)) \/ (~env.closing /\ Settle(w))
  BY DEF deliver_work
<1>2. /\ work \in [Works -> WorkType] /\ work[w] \in WorkType /\ Stage(w) /\ Held(w)
      /\ owed \in [Works -> Int] /\ owed[w] \in Int
  BY DEF NodeInv, NodeTypes
<1>3. /\ work[w].event \in {"none", "engine", "response", "chunk"}
      /\ work[w].settled = 0 /\ work[w].done
      /\ handle[Result(w)] = "none" /\ handle[Token(w)] \in {"none", "operation", "released"}
  BY <1>1, <1>2 DEF Stage, WorkType, Resources
<1>4. HasResource(w) = IF work[w].event # "none" THEN 1 ELSE 0
  BY <1>3 DEF HasResource, Resources
<1>5. ASSUME NEW n \in {0, 1}, n = 1 \/ tearing,
             work' = [work EXCEPT ![w] = [work[w] EXCEPT !.queued = FALSE, !.event = "none",
                                                         !.settled = n]]
      PROVE  /\ work' \in [Works -> WorkType] /\ \A v \in Works : v # w => work'[v] = work[v]
             /\ work'[w].at = "live" /\ work'[w].done /\ work'[w].free = work[w].free
             /\ work'[w].event = "none" /\ ~work'[w].queued /\ work'[w].settled = n
  <2> DEFINE k == [work[w] EXCEPT !.queued = FALSE, !.event = "none", !.settled = n]
  <2>1. k \in WorkType
    BY <1>2 DEF WorkType, Resources
  <2>2. /\ k.at = "live" /\ k.done /\ k.free = work[w].free
        /\ k.event = "none" /\ ~k.queued /\ k.settled = n
    BY <1>1, <1>2, <1>3 DEF WorkType
  <2>3. work' = [work EXCEPT ![w] = k]
    BY <1>5
  <2> HIDE DEF k
  <2> QED BY <2>1, <2>2, <2>3, PutWork
<1>6. CASE tearing /\ Discard(w)
  <2>1. work' = [work EXCEPT ![w] = [work[w] EXCEPT !.queued = FALSE, !.event = "none",
                                                    !.settled = 0]]
    <3>1. [work[w] EXCEPT !.queued = FALSE, !.event = "none"]
          = [work[w] EXCEPT !.queued = FALSE, !.event = "none", !.settled = 0]
      BY <1>2, <1>3 DEF WorkType
    <3>2. work' = [work EXCEPT ![w] = [work[w] EXCEPT !.queued = FALSE, !.event = "none"]]
      BY <1>2, <1>6 DEF Discard
    <3> QED BY <3>1, <3>2
  <2>2. /\ work' \in [Works -> WorkType] /\ \A v \in Works : v # w => work'[v] = work[v]
        /\ work'[w].at = "live" /\ work'[w].done /\ work'[w].free = work[w].free
        /\ work'[w].event = "none" /\ ~work'[w].queued /\ work'[w].settled = 0
    BY <1>5, <1>6, <2>1
  <2>3. /\ owed' \in [Works -> Int] /\ \A v \in Works : v # w => owed'[v] = owed[v]
        /\ owed'[w] = owed[w] - IF work[w].event # "none" THEN 1 ELSE 0
    BY <1>2, <1>4, <1>6 DEF Discard, dispose_event
  <2>4. UNCHANGED <<env, handle>>
    BY <1>6 DEF Discard
  <2>5. Stage(w)'
    BY <1>1, <1>2, <1>3, <1>6, <2>2, <2>4 DEF Stage
  <2>6. Held(w)'
    BY <1>1, <1>2, <1>3, <2>2, <2>3, <2>4 DEF Held
  <2>7. \A v \in Works : v # w => Stage(v)' /\ Held(v)'
    BY <1>1, <2>2, <2>3, <2>4, Others
  <2>8. EnvCounts'
    <3>1. \A v \in Works : work'[v].at = work[v].at
      BY <1>1, <2>2
    <3> QED BY <1>1, <2>4, <3>1, CountsStay
  <2>9. NodeTypes'
    BY <1>1, <2>2, <2>3, <2>4 DEF NodeInv, NodeTypes
  <2> QED BY <2>5, <2>6, <2>7, <2>8, <2>9 DEF NodeInv
<1>7. CASE ~env.closing /\ Settle(w)
  <2> DEFINE wraps == work[w].event \in {"engine", "response"}
  <2>1. /\ IF wraps THEN UNCHANGED owed ELSE dispose_event(w)
        /\ handle' = IF wraps THEN [handle EXCEPT ![Result(w)] = work[w].event] ELSE handle
        /\ env' = IF wraps THEN [env EXCEPT !.refs = @ + 1] ELSE env
    BY <1>7 DEF Settle
  <2>2. work' = [work EXCEPT ![w] = [work[w] EXCEPT !.queued = FALSE, !.event = "none",
                                                    !.settled = 1]]
    <3>1. work' = [work EXCEPT ![w] = [work[w] EXCEPT !.queued = FALSE, !.event = "none",
                                                    !.settled = work[w].settled + 1]]
      BY <1>2, <1>7 DEF Settle, WorkType
    <3>2. work[w].settled + 1 = 1
      BY <1>3
    <3> QED BY <3>1, <3>2
  <2>3. /\ work' \in [Works -> WorkType] /\ \A v \in Works : v # w => work'[v] = work[v]
        /\ work'[w].at = "live" /\ work'[w].done /\ work'[w].free = work[w].free
        /\ work'[w].event = "none" /\ ~work'[w].queued /\ work'[w].settled = 1
    BY <1>5, <2>2
  <2>4. /\ owed' \in [Works -> Int] /\ \A v \in Works : v # w => owed'[v] = owed[v]
        /\ owed'[w] = owed[w] - IF work[w].event # "none" /\ ~wraps THEN 1 ELSE 0
    BY <1>2, <1>3, <1>4, <2>1 DEF dispose_event
  <2>5. /\ handle' \in [Handles -> {"none", "operation", "engine", "response", "released"}]
        /\ \A h \in Handles : h # Result(w) => handle'[h] = handle[h]
        /\ handle'[Result(w)] = IF wraps THEN work[w].event ELSE "none"
        /\ Result(w) \in Handles
    BY <1>3, <2>1, HandleNames DEF NodeInv, NodeTypes
  <2>6. /\ \A v \in Works : v # w => handle'[Result(v)] = handle[Result(v)]
        /\ \A v \in Works : handle'[Token(v)] = handle[Token(v)]
    BY <2>5, HandleNames
  <2>7. \A v \in Works : work'[v].at = work[v].at
    BY <1>1, <2>3
  <2>8. EnvCounts' /\ env' \in EnvType /\ env'.closing = env.closing
    <3>1. CASE wraps
      BY <1>1, <1>3, <2>1, <2>5, <2>7, <3>1, Wraps
    <3>2. CASE ~wraps
      <4>1. env' = env /\ handle' = handle
        BY <2>1, <3>2
      <4>2. EnvCounts'
        BY <1>1, <2>7, <4>1, CountsStay
      <4> QED BY <4>1, <4>2 DEF NodeInv, NodeTypes, EnvType
    <3> QED BY <3>1, <3>2
  <2>9. Stage(w)'
    BY <1>1, <1>2, <1>3, <1>7, <2>3, <2>5, <2>6, <2>8 DEF Stage
  <2>10. Held(w)'
    BY <1>1, <1>2, <1>3, <2>3, <2>4, <2>5, <2>6 DEF Held
  <2>11. \A v \in Works : v # w => Stage(v)' /\ Held(v)'
    BY <1>1, <2>3, <2>4, <2>6, <2>8, Others
  <2>12. NodeTypes'
    BY <1>1, <2>3, <2>4, <2>5, <2>8 DEF NodeInv, NodeTypes, EnvType
  <2> QED BY <2>8, <2>9, <2>10, <2>11, <2>12 DEF NodeInv
<1> QED BY <1>1, <1>6, <1>7

\* The function of a work is finalized: what is not answered is cancelled.
LEMMA Finalizing ==
  ASSUME NodeInv, NEW w \in Works, work_finalizer(w)
  PROVE  NodeInv'
<1>1. /\ work[w].at = "live" /\ ~work[w].queued /\ (work[w].free \/ tearing)
      /\ UNCHANGED <<tearing, env, operation, handle, owed>>
  BY DEF work_finalizer
<1>2. /\ work \in [Works -> WorkType] /\ work[w] \in WorkType /\ Stage(w) /\ Held(w)
      /\ abi \in [Works -> AbiStates]
  BY DEF NodeInv, NodeTypes
<1>3. /\ work' \in [Works -> WorkType] /\ \A v \in Works : v # w => work'[v] = work[v]
      /\ work'[w] = [work[w] EXCEPT !.at = "final"]
  <2>1. [work[w] EXCEPT !.at = "final"] \in WorkType
    BY <1>2 DEF WorkType
  <2>2. work' = [work EXCEPT ![w] = [work[w] EXCEPT !.at = "final"]]
    BY DEF work_finalizer
  <2> QED BY <2>1, <2>2, PutWork
<1>4. /\ work'[w].at = "final" /\ work'[w].done = work[w].done /\ work'[w].free = work[w].free
      /\ work'[w].event = work[w].event /\ work'[w].queued = work[w].queued
      /\ work'[w].settled = work[w].settled
  BY <1>2, <1>3 DEF WorkType
<1>5. /\ abi' \in [Works -> AbiStates] /\ \A v \in Works : v # w => abi'[v] = abi[v]
      /\ abi'[w] = abi[w] \/ (abi[w] = "running" /\ abi'[w] = "cancelled")
  BY <1>2 DEF work_finalizer, AbiStates
<1>6. Stage(w)'
  BY <1>1, <1>2, <1>4, <1>5 DEF Stage
<1>7. Held(w)'
  BY <1>1, <1>2, <1>4 DEF Held
<1>8. \A v \in Works : v # w => Stage(v)' /\ Held(v)'
  BY <1>1, <1>3, <1>5, Others
<1>9. EnvCounts'
  <2>1. \A v \in Works : work'[v].at \in {"submit", "live", "final"}
                         <=> work[v].at \in {"submit", "live", "final"}
    BY <1>1, <1>3, <1>4
  <2> QED BY <1>1, <2>1, CountsStay
<1>10. NodeTypes'
  BY <1>1, <1>3, <1>5 DEF NodeInv, NodeTypes
<1> QED BY <1>6, <1>7, <1>8, <1>9, <1>10 DEF NodeInv

\* What the end of a work does to the environment.
LEMMA EnvDone ==
  ASSUME NodeInv, env' = node_env_drop(node_pending_done(env))
  PROVE  /\ env' \in EnvType /\ env'.refs = env.refs - 1 /\ env'.pending = env.pending - 1
         /\ env'.closing = env.closing
         /\ \/ env'.cleanup = env.cleanup
            \/ env'.cleanup = "removed" /\ env.closing /\ env.pending = 1
<1>1. env \in EnvType /\ env.refs - 1 \in Int /\ env.pending - 1 \in Int
  BY DEF NodeInv, NodeTypes, EnvType
<1> DEFINE hook == IF env.closing /\ env.pending = 1 /\ env.cleanup = "set"
                   THEN "removed" ELSE env.cleanup
           e == [env EXCEPT !.pending = env.pending - 1, !.cleanup = hook]
<1>2. hook \in {"none", "set", "removed"} /\ (hook = env.cleanup
        \/ (hook = "removed" /\ env.closing /\ env.pending = 1))
  BY <1>1 DEF EnvType
<1>3. env' = [e EXCEPT !.refs = e.refs - 1]
  BY DEF node_env_drop, node_pending_done
<1> HIDE DEF hook
<1>4. e \in EnvType
  BY <1>1, <1>2 DEF EnvType
<1>5. /\ e.refs = env.refs /\ e.pending = env.pending - 1 /\ e.closing = env.closing
      /\ e.cleanup = hook
  BY <1>1 DEF EnvType
<1> HIDE DEF e
<1>6. env' \in EnvType
  BY <1>1, <1>3, <1>4, <1>5 DEF EnvType
<1>7. /\ env'.refs = env.refs - 1 /\ env'.pending = env.pending - 1 /\ env'.closing = env.closing
      /\ env'.cleanup = hook
  BY <1>3, <1>4, <1>5 DEF EnvType
<1> QED BY <1>2, <1>6, <1>7

\* The finalizer has waited: the work and its share of the operation go.
LEMMA Finalized ==
  ASSUME NodeInv, NEW w \in Works, finalizer_returns(w)
  PROVE  NodeInv'
<1>1. /\ work[w].at = "final" /\ work[w].done /\ UNCHANGED <<tearing, handle>>
      /\ env' = node_env_drop(node_pending_done(env))
  BY DEF finalizer_returns
<1>2. /\ work \in [Works -> WorkType] /\ work[w] \in WorkType /\ Stage(w) /\ Held(w)
      /\ abi \in [Works -> AbiStates] /\ operation \in [Works -> [ptr : BOOLEAN, refs : Int]]
      /\ owed \in [Works -> Int] /\ owed[w] \in Int
  BY DEF NodeInv, NodeTypes
<1>3. /\ work' \in [Works -> WorkType] /\ \A v \in Works : v # w => work'[v] = work[v]
      /\ work'[w].at = "gone" /\ ~work'[w].done /\ work'[w].done = work'[w].free /\ ~work'[w].queued
      /\ work'[w].event = "none" /\ work'[w].settled = 0
  <2> DEFINE k == [NoWork EXCEPT !.at = "gone"]
  <2>1. k \in WorkType
    BY DEF WorkType, NoWork
  <2>2. /\ k.at = "gone" /\ ~k.done /\ k.done = k.free /\ ~k.queued /\ k.event = "none" /\ k.settled = 0
    BY DEF NoWork
  <2>3. work' = [work EXCEPT ![w] = k]
    BY DEF finalizer_returns
  <2> HIDE DEF k
  <2> QED BY <2>1, <2>2, <2>3, PutWork
<1>4. /\ owed' \in [Works -> Int] /\ \A v \in Works : v # w => owed'[v] = owed[v]
      /\ owed'[w] = owed[w] - IF work[w].event # "none" THEN 1 ELSE 0
  <2>1. HasResource(w) = IF work[w].event # "none" THEN 1 ELSE 0
    BY <1>2 DEF HasResource, Resources, WorkType
  <2> QED BY <1>2, <2>1 DEF finalizer_returns, dispose_event
<1>5. /\ operation' \in [Works -> [ptr : BOOLEAN, refs : Int]]
      /\ \A v \in Works : v # w => operation'[v] = operation[v]
      /\ ~operation'[w].ptr
      /\ operation'[w].refs = operation[w].refs - IF operation[w].ptr THEN 1 ELSE 0
  <2>1. CASE operation[w].ptr
    <3>1. operation' = [operation EXCEPT ![w] = [ptr |-> FALSE, refs |-> operation[w].refs - 1]]
      BY <2>1 DEF finalizer_returns
    <3>2. operation[w].refs - 1 \in Int
      BY <1>2
    <3> QED BY <1>2, <2>1, <3>1, <3>2
  <2>2. CASE ~operation[w].ptr
    <3>1. operation' = operation
      BY <2>2 DEF finalizer_returns
    <3>2. operation[w].refs \in Int
      BY <1>2
    <3> QED BY <1>2, <2>2, <3>1, <3>2
  <2> QED BY <2>1, <2>2
<1>6. /\ abi' \in [Works -> AbiStates] /\ \A v \in Works : v # w => abi'[v] = abi[v]
      /\ abi'[w] \in {"none", "released"}
  <2>1. CASE operation[w].ptr
    BY <1>2, <2>1 DEF finalizer_returns, AbiStates
  <2>2. CASE ~operation[w].ptr
    BY <1>1, <1>2, <2>2 DEF finalizer_returns, Stage
  <2> QED BY <2>1, <2>2
<1>7. /\ env' \in EnvType /\ env'.refs = env.refs - 1 /\ env'.pending = env.pending - 1
      /\ env'.closing = env.closing
      /\ \/ env'.cleanup = env.cleanup
         \/ env'.cleanup = "removed" /\ env.closing /\ env.pending = 1
  BY <1>1, EnvDone
<1>8. Stage(w)'
  BY <1>1, <1>2, <1>3, <1>5, <1>6, <1>7 DEF Stage
<1>9. Held(w)'
  <2>1. operation[w].refs \in Int
    BY <1>2
  <2> QED BY <1>1, <1>2, <1>3, <1>4, <1>5, <2>1 DEF Held
<1>10. \A v \in Works : v # w => Stage(v)' /\ Held(v)'
  BY <1>1, <1>3, <1>4, <1>5, <1>6, <1>7, Others
<1>11. EnvCounts'
  <2>1. Wrapped' = Wrapped
    BY <1>1 DEF Wrapped
  <2>2. \A v \in Works : v # w => work'[v].at = work[v].at
    BY <1>3
  <2>3. /\ IsFiniteSet(Working') /\ Cardinality(Working) \in Nat /\ Cardinality(Working) > 0
        /\ Cardinality(Working') = Cardinality(Working) - 1
    BY <1>1, <1>3, <2>2, OneWork
  <2>4. Cardinality(Wrapped) \in Nat
    BY FS_CardinalityType DEF NodeInv, EnvCounts
  <2> QED BY <1>1, <1>7, <2>1, <2>3, <2>4 DEF NodeInv, EnvCounts
<1>12. NodeTypes'
  BY <1>1, <1>3, <1>4, <1>5, <1>6, <1>7 DEF NodeInv, NodeTypes, EnvType
<1> QED BY <1>8, <1>9, <1>10, <1>11, <1>12 DEF NodeInv

\* A script cancels an operation through its token.
LEMMA Cancelled ==
  ASSUME NodeInv, NEW w \in Works, OperationCancel(w)
  PROVE  NodeInv'
<1>1. /\ UNCHANGED <<tearing, env, work, operation, handle, owed>>
      /\ abi[w] = "running" /\ abi' = [abi EXCEPT ![w] = "cancelled"] /\ operation[w].ptr
  BY DEF OperationCancel
<1>2. /\ abi' \in [Works -> AbiStates] /\ \A v \in Works : v # w => abi'[v] = abi[v]
      /\ abi'[w] = "cancelled"
  BY <1>1 DEF NodeInv, NodeTypes, AbiStates
<1>3. Stage(w) /\ Held(w) /\ work[w].at \in {"none", "submit", "live", "final", "gone"}
  BY DEF NodeInv, NodeTypes, WorkType
<1>4. Stage(w)' /\ Held(w)'
  BY <1>1, <1>2, <1>3 DEF Stage, Held
<1>5. \A v \in Works : v # w => Stage(v)' /\ Held(v)'
  BY <1>1, <1>2, Others
<1>6. EnvCounts'
  BY <1>1, CountsStay
<1>7. NodeTypes'
  BY <1>1, <1>2 DEF NodeInv, NodeTypes
<1> QED BY <1>4, <1>5, <1>6, <1>7 DEF NodeInv

\* The handles hs are released, and some that have nothing to release are finalized: each work
\* loses what its handles held.
LEMMA Releases ==
  ASSUME NodeInv, NEW hs, release_node_handle(hs), UNCHANGED <<tearing, work>>,
         \A h \in Handles : \/ h \in hs /\ Live(h) /\ handle'[h] \in {"none", "released"}
                            \/ ~(h \in hs /\ Live(h)) /\ handle'[h] = handle[h]
                            \/ ~Live(h) /\ handle'[h] = "none",
         env'.closing => env.closing \/ Handles \subseteq hs
  PROVE  /\ \A w \in Works : Stage(w)' /\ Held(w)'
         /\ operation' \in [Works -> [ptr : BOOLEAN, refs : Int]]
         /\ abi' \in [Works -> AbiStates] /\ owed' \in [Works -> Int]
<1> DEFINE freed == {h \in hs : Live(h)}
<1>1. /\ operation \in [Works -> [ptr : BOOLEAN, refs : Int]] /\ abi \in [Works -> AbiStates]
      /\ owed \in [Works -> Int]
  BY DEF NodeInv, NodeTypes
<1>2. /\ owed' = [w \in Works |-> owed[w] - IF Result(w) \in freed THEN 1 ELSE 0]
      /\ operation' = [w \in Works |->
           IF Token(w) \in freed THEN [operation[w] EXCEPT !.refs = @ - 1] ELSE operation[w]]
      /\ abi' = [w \in Works |->
           IF w \in {v \in Works : Token(v) \in freed /\ operation[v].ptr /\ abi[v] = "running"}
           THEN "cancelled" ELSE abi[w]]
  BY DEF release_node_handle
<1>3. \A h \in Handles : h \in freed <=> h \in hs /\ Live(h)
  OBVIOUS
<1> HIDE DEF freed
<1>4. owed' \in [Works -> Int]
  BY <1>1, <1>2
<1>5. ASSUME NEW w \in Works
      PROVE  /\ operation'[w] \in [ptr : BOOLEAN, refs : Int] /\ operation'[w].ptr = operation[w].ptr
             /\ operation'[w].refs = operation[w].refs - IF Token(w) \in freed THEN 1 ELSE 0
  <2>1. /\ operation[w] \in [ptr : BOOLEAN, refs : Int] /\ operation[w].refs \in Int
        /\ operation[w].refs - 1 \in Int
    BY <1>1
  <2>2. CASE Token(w) \in freed
    <3>1. operation'[w] = [operation[w] EXCEPT !.refs = operation[w].refs - 1]
      BY <1>2, <2>2
    <3> QED BY <2>1, <2>2, <3>1
  <2>3. CASE Token(w) \notin freed
    BY <1>2, <2>1, <2>3
  <2> QED BY <2>2, <2>3
<1>6. operation' \in [Works -> [ptr : BOOLEAN, refs : Int]]
  <2>1. operation' = [w \in Works |-> operation'[w]]
    BY <1>2
  <2> QED BY <1>5, <2>1
<1>7. ASSUME NEW w \in Works
      PROVE  /\ abi'[w] \in AbiStates
             /\ \/ abi'[w] = abi[w]
                \/ operation[w].ptr /\ abi[w] = "running" /\ abi'[w] = "cancelled"
  BY <1>1, <1>2 DEF AbiStates
<1>8. abi' \in [Works -> AbiStates]
  <2>1. abi' = [w \in Works |-> abi'[w]]
    BY <1>2
  <2> QED BY <1>7, <2>1
<1>9. ASSUME NEW w \in Works
      PROVE  Stage(w)' /\ Held(w)'
  <2>1. /\ Token(w) \in Handles /\ Result(w) \in Handles /\ Stage(w) /\ Held(w)
        /\ work[w].at \in {"none", "submit", "live", "final", "gone"}
        /\ operation[w].refs \in Int /\ owed[w] \in Int
    BY <1>1, HandleNames DEF NodeInv, NodeTypes, WorkType
  <2>2. /\ handle[Token(w)] = "operation" <=> Live(Token(w))
        /\ handle[Result(w)] \in {"engine", "response"} <=> Live(Result(w))
    BY <2>1 DEF Stage, Live
  <2>3. /\ \/ handle'[Token(w)] \in {"none", "released"} /\ Live(Token(w)) /\ Token(w) \in freed
           \/ handle'[Token(w)] = handle[Token(w)] /\ Token(w) \notin freed
           \/ handle'[Token(w)] = "none" /\ ~Live(Token(w)) /\ Token(w) \notin freed
        /\ \/ handle'[Result(w)] \in {"none", "released"} /\ Live(Result(w)) /\ Result(w) \in freed
           \/ handle'[Result(w)] = handle[Result(w)] /\ Result(w) \notin freed
           \/ handle'[Result(w)] = "none" /\ ~Live(Result(w)) /\ Result(w) \notin freed
    BY <1>3, <2>1
  <2>4. env'.closing => /\ env.closing \/ (Token(w) \in hs /\ Result(w) \in hs)
    BY <2>1
  <2>5. env'.closing => /\ handle'[Token(w)] # "operation"
                        /\ handle'[Result(w)] \in {"none", "released"}
    BY <1>3, <2>1, <2>2, <2>3, <2>4 DEF Stage
  <2>6. Stage(w)'
    <3>1. /\ handle'[Token(w)] \in {"none", "released"} \/ handle'[Token(w)] = handle[Token(w)]
          /\ handle[Token(w)] = "none" => handle'[Token(w)] = "none"
          /\ handle'[Result(w)] \in {"none", "released"} \/ handle'[Result(w)] = handle[Result(w)]
          /\ handle[Result(w)] = "none" => handle'[Result(w)] = "none"
      BY <2>2, <2>3 DEF Live
    <3>2. work' = work /\ tearing' = tearing /\ operation'[w].ptr = operation[w].ptr
      BY <1>5
    <3>3. \/ abi'[w] = abi[w]
          \/ operation[w].ptr /\ abi[w] = "running" /\ abi'[w] = "cancelled"
      BY <1>7
    <3> QED BY <2>1, <2>5, <3>1, <3>2, <3>3 DEF Stage
  <2>7. Held(w)'
    <3>1. owed'[w] = owed[w] - IF Result(w) \in freed THEN 1 ELSE 0
      BY <1>2
    <3>2. /\ operation'[w].ptr = operation[w].ptr /\ work' = work
          /\ operation'[w].refs = operation[w].refs - IF Token(w) \in freed THEN 1 ELSE 0
      BY <1>5
    <3> QED BY <2>1, <2>2, <2>3, <3>1, <3>2 DEF Held
  <2> QED BY <2>6, <2>7
<1> QED BY <1>4, <1>6, <1>8, <1>9

\* A script releases a handle; the object stays.
LEMMA HandleReleased ==
  ASSUME NodeInv, NEW h \in Handles, HandleRelease(h)
  PROVE  NodeInv'
<1>1. /\ Live(h) /\ release_node_handle({h}) /\ handle' = [handle EXCEPT ![h] = "released"]
      /\ UNCHANGED <<tearing, env, work>>
  BY DEF HandleRelease
<1>2. /\ handle' \in [Handles -> {"none", "operation", "engine", "response", "released"}]
      /\ handle'[h] = "released" /\ handle[h] # "none"
      /\ \A g \in Handles : g # h => handle'[g] = handle[g]
  BY <1>1 DEF NodeInv, NodeTypes, Live
<1>3. /\ \A w \in Works : Stage(w)' /\ Held(w)'
      /\ operation' \in [Works -> [ptr : BOOLEAN, refs : Int]]
      /\ abi' \in [Works -> AbiStates] /\ owed' \in [Works -> Int]
  BY <1>1, <1>2, Releases
<1>4. EnvCounts'
  BY <1>1, <1>2, CountsStay
<1>5. NodeTypes'
  BY <1>1, <1>2, <1>3 DEF NodeInv, NodeTypes
<1> QED BY <1>3, <1>4, <1>5 DEF NodeInv

\* A handle's object is finalized.
LEMMA HandleFinalized ==
  ASSUME NodeInv, NEW h \in Handles, handle_finalizer(h)
  PROVE  NodeInv'
<1>1. /\ handle[h] # "none" /\ release_node_handle({h}) /\ handle' = [handle EXCEPT ![h] = "none"]
      /\ env' = node_env_drop(env) /\ UNCHANGED <<tearing, work>>
  BY DEF handle_finalizer
<1>2. /\ handle' \in [Handles -> {"none", "operation", "engine", "response", "released"}]
      /\ handle'[h] = "none" /\ \A g \in Handles : g # h => handle'[g] = handle[g]
  BY <1>1 DEF NodeInv, NodeTypes
<1>3. /\ env' \in EnvType /\ env'.refs = env.refs - 1 /\ env'.pending = env.pending
      /\ env'.closing = env.closing /\ env'.cleanup = env.cleanup
  <2>1. env.refs \in Int
    BY DEF NodeInv, NodeTypes
  <2>2. env' = [env EXCEPT !.refs = @ + (-1)]
    BY <1>1, <2>1 DEF node_env_drop
  <2> QED BY <2>1, <2>2, EnvHandle
<1>4. /\ \A w \in Works : Stage(w)' /\ Held(w)'
      /\ operation' \in [Works -> [ptr : BOOLEAN, refs : Int]]
      /\ abi' \in [Works -> AbiStates] /\ owed' \in [Works -> Int]
  BY <1>1, <1>2, <1>3, Releases
<1>5. EnvCounts'
  <2>1. /\ IsFiniteSet(Wrapped') /\ Cardinality(Wrapped) \in Nat
        /\ Cardinality(Wrapped') = Cardinality(Wrapped) - 1
    BY <1>1, <1>2, OneHandle
  <2>2. Working' = Working
    BY <1>1 DEF Working
  <2>3. Cardinality(Working) \in Nat
    BY FS_CardinalityType DEF NodeInv, EnvCounts
  <2> QED BY <1>1, <1>3, <2>1, <2>2, <2>3 DEF NodeInv, EnvCounts
<1>6. NodeTypes'
  BY <1>1, <1>2, <1>3, <1>4 DEF NodeInv, NodeTypes, EnvType
<1> QED BY <1>4, <1>5, <1>6 DEF NodeInv

\* The cleanup hook: everything a script still holds is released, and no more is delivered.
LEMMA CleanedUp ==
  ASSUME NodeInv, env_cleanup
  PROVE  NodeInv'
<1>1. /\ tearing /\ ~env.closing /\ release_node_handle(Handles) /\ UNCHANGED <<tearing, work>>
      /\ handle' = [h \in Handles |-> IF Live(h) THEN "released" ELSE handle[h]]
  BY DEF env_cleanup
<1>2. /\ handle' \in [Handles -> {"none", "operation", "engine", "response", "released"}]
      /\ \A h \in Handles : handle'[h] = IF Live(h) THEN "released" ELSE handle[h]
  BY <1>1 DEF NodeInv, NodeTypes
<1>3. \A h \in Handles : handle'[h] = "none" <=> handle[h] = "none"
  BY <1>2 DEF Live
<1>4. /\ env' \in EnvType /\ env'.refs = env.refs - 1 /\ env'.pending = env.pending
      /\ env'.closing /\ (env'.cleanup = "removed" => env.pending = 0)
  <2> DEFINE e == [env EXCEPT !.closing = TRUE, !.cleanup = "set", !.pending = env.pending + 1]
             hook == IF env.pending + 1 = 1 THEN "removed" ELSE "set"
             d == [e EXCEPT !.pending = env.pending, !.cleanup = hook]
  <2>1. env \in EnvType /\ env.refs - 1 \in Int /\ env.pending \in Int /\ env.pending + 1 \in Int
    BY DEF NodeInv, NodeTypes, EnvType
  <2>2. e \in EnvType
    BY <2>1 DEF EnvType
  <2>3. e.refs = env.refs /\ e.pending = env.pending + 1 /\ e.closing = TRUE /\ e.cleanup = "set"
    BY <2>1 DEF EnvType
  <2>4. env' = node_env_drop(node_pending_done(e))
    BY DEF env_cleanup
  <2> HIDE DEF e
  <2>5. node_pending_done(e) = d
    <3>1. e.pending - 1 = env.pending
      BY <2>1, <2>3
    <3> QED BY <2>3, <3>1 DEF node_pending_done
  <2>6. hook \in {"set", "removed"} /\ (hook = "removed" => env.pending = 0)
    BY <2>1
  <2> HIDE DEF hook
  <2>7. d \in EnvType
    BY <2>1, <2>2, <2>6 DEF EnvType
  <2>8. d.refs = env.refs /\ d.pending = env.pending /\ d.closing = TRUE /\ d.cleanup = hook
    BY <2>2, <2>3 DEF EnvType
  <2>9. env' = [d EXCEPT !.refs = d.refs - 1]
    BY <2>4, <2>5 DEF node_env_drop
  <2> HIDE DEF d
  <2>10. env' \in EnvType
    BY <2>1, <2>7, <2>8, <2>9 DEF EnvType
  <2>11. env'.refs = env.refs - 1 /\ env'.pending = env.pending /\ env'.closing = TRUE
         /\ env'.cleanup = hook
    BY <2>7, <2>8, <2>9 DEF EnvType
  <2> QED BY <2>6, <2>10, <2>11
<1>5. /\ \A w \in Works : Stage(w)' /\ Held(w)'
      /\ operation' \in [Works -> [ptr : BOOLEAN, refs : Int]]
      /\ abi' \in [Works -> AbiStates] /\ owed' \in [Works -> Int]
  BY <1>1, <1>2, Releases
<1>6. EnvCounts'
  <2>1. Wrapped' = Wrapped /\ Working' = Working
    BY <1>1, <1>3 DEF Wrapped, Working
  <2>2. Cardinality(Wrapped) \in Nat /\ Cardinality(Working) \in Nat
    BY FS_CardinalityType DEF NodeInv, EnvCounts
  <2> QED BY <1>1, <1>4, <2>1, <2>2 DEF NodeInv, EnvCounts
<1>7. NodeTypes'
  BY <1>1, <1>2, <1>4, <1>5 DEF NodeInv, NodeTypes, EnvType
<1> QED BY <1>5, <1>6, <1>7 DEF NodeInv

\* Node begins to tear the environment down.
LEMMA TornDown ==
  ASSUME NodeInv, teardown
  PROVE  NodeInv'
<1>1. /\ tearing' = TRUE /\ UNCHANGED <<env, work, operation, abi, handle, owed>>
      /\ \A w \in Works : work[w].at # "submit"
  BY DEF teardown, JsFree
<1>2. \A w \in Works : Stage(w)' /\ Held(w)'
  BY <1>1 DEF NodeInv, Stage, Held
<1>3. EnvCounts'
  BY <1>1, CountsStay
<1>4. NodeTypes'
  BY <1>1 DEF NodeInv, NodeTypes
<1> QED BY <1>2, <1>3, <1>4 DEF NodeInv

LEMMA NodeIdle ==
  ASSUME NodeInv, UNCHANGED vars
  PROVE  NodeInv'
<1>1. UNCHANGED <<tearing, env, work, operation, abi, handle, owed>>
  BY DEF vars
<1>2. \A w \in Works : Stage(w)' /\ Held(w)'
  BY <1>1 DEF NodeInv, Stage, Held
<1>3. EnvCounts'
  BY <1>1, CountsStay
<1>4. NodeTypes'
  BY <1>1 DEF NodeInv, NodeTypes
<1> QED BY <1>2, <1>3, <1>4 DEF NodeInv

LEMMA NodeStep ==
  ASSUME NodeInv, [Next]_vars
  PROVE  NodeInv'
<1>1. ASSUME NEW w \in Works, Loop(w)
      PROVE  NodeInv'
  BY <1>1, Submitted, Delivered, Finalizing, Finalized DEF Loop
<1>2. CASE \E w \in Works : Loop(w) \/ work_completed(w) \/ OperationCancel(w)
             \/ submit_refused(w) \/ \E kind \in Kinds : new_work(w, kind)
  BY <1>1, <1>2, Completed, Cancelled, NewWork
<1>3. CASE \E h \in Handles : HandleRelease(h) \/ handle_finalizer(h)
  BY <1>3, HandleReleased, HandleFinalized
<1>4. CASE teardown \/ env_cleanup
  BY <1>4, TornDown, CleanedUp
<1>5. CASE UNCHANGED vars
  BY <1>5, NodeIdle
<1> QED BY <1>2, <1>3, <1>4, <1>5 DEF Next

LEMMA NodeStart ==
  ASSUME Init
  PROVE  NodeInv
<1>1. NodeTypes
  <2>1. NoWork \in WorkType
    BY DEF NoWork, WorkType
  <2>2. work \in [Works -> WorkType]
    BY <2>1 DEF Init
  <2>3. env \in [refs : Int, pending : Int, closing : BOOLEAN, cleanup : {"none", "set", "removed"}]
    BY DEF Init
  <2>4. operation \in [Works -> [ptr : BOOLEAN, refs : Int]]
    BY DEF Init
  <2>5. /\ handle \in [Handles -> {"none", "operation", "engine", "response", "released"}]
        /\ abi \in [Works -> AbiStates] /\ tearing \in BOOLEAN
    BY Zenon DEF Init, AbiStates
  <2>6. owed \in [Works -> Int]
    BY DEF Init
  <2> QED BY <2>2, <2>3, <2>4, <2>5, <2>6 DEF NodeTypes
<1>2. ASSUME NEW w \in Works
      PROVE  Stage(w) /\ Held(w)
  <2>1. /\ work[w].at = "none" /\ work[w].done = FALSE /\ work[w].free = FALSE
        /\ work[w].queued = FALSE /\ work[w].event = "none" /\ work[w].settled = 0
    BY DEF Init, NoWork
  <2>2. /\ handle[Token(w)] = "none" /\ handle[Result(w)] = "none"
        /\ ~operation[w].ptr /\ operation[w].refs = 0 /\ abi[w] = "none" /\ owed[w] = 0
        /\ tearing = FALSE /\ env.closing = FALSE
    BY HandleNames DEF Init
  <2>3. Stage(w)
    BY <2>1, <2>2 DEF Stage
  <2>4. Held(w)
    BY <2>1, <2>2 DEF Held
  <2> QED BY <2>3, <2>4
<1>3. EnvCounts
  <2>1. Wrapped = {}
    BY DEF Init, Wrapped
  <2>2. Working = {}
    BY DEF Init, Working, NoWork
  <2> QED BY <2>1, <2>2, FS_EmptySet DEF Init, EnvCounts
<1> QED BY <1>1, <1>2, <1>3 DEF NodeInv

-----------------------------------------------------------------------------
(* The theorems                                                             *)

\* The stages of the works, what each holds, and the counts of the environment.
THEOREM NodeStages == Spec => []NodeInv
<1>1. Init => NodeInv
  BY NodeStart
<1>2. NodeInv /\ [Next]_vars => NodeInv'
  BY NodeStep
<1> QED BY <1>1, <1>2, PTL DEF Spec

\* The references of the environment and of every operation are exact, and the notifier never
\* calls back for a work that is freed, however many works there are.
THEOREM NodeReferences == Spec => []AddonRefsExact
<1>1. NodeInv => AddonRefsExact
  <2> SUFFICES ASSUME NodeInv PROVE AddonRefsExact
    OBVIOUS
  <2>1. /\ env.refs = Count(Wrapped) + Count(Working) + IF env.closing THEN 0 ELSE 1
        /\ env.pending = Count(Working)
    BY DEF NodeInv, EnvCounts, Count
  <2>2. ASSUME NEW w \in Works
        PROVE  /\ operation[w].refs = (IF Live(Token(w)) THEN 1 ELSE 0)
                                      + (IF operation[w].ptr THEN 1 ELSE 0)
               /\ operation[w].ptr => abi[w] # "released"
               /\ abi[w] \in {"running", "cancelled"} => w \in Working
    <3>1. Stage(w) /\ Held(w) /\ work[w].at \in {"none", "submit", "live", "final", "gone"}
      BY DEF NodeInv, NodeTypes, WorkType
    <3>2. Live(Token(w)) <=> handle[Token(w)] = "operation"
      BY <3>1 DEF Stage, Live
    <3>3. operation[w].ptr => abi[w] # "released"
      BY <3>1 DEF Stage
    <3>4. abi[w] \in {"running", "cancelled"} => w \in Working
      BY <3>1 DEF Stage, Working
    <3> QED BY <3>1, <3>2, <3>3, <3>4 DEF Held
  <2> QED BY <2>1, <2>2 DEF AddonRefsExact
<1> QED BY <1>1, NodeStages, PTL

\* Every resource is in one place until it is given back, and a promise is settled at most once.
THEOREM NodeResources == Spec => []ResourcesOnce
<1>1. NodeInv => ResourcesOnce
  <2> SUFFICES ASSUME NodeInv, NEW w \in Works
               PROVE  /\ owed[w] = HasResource(w) + IF Live(Result(w)) THEN 1 ELSE 0
                      /\ work[w].settled <= 1
                      /\ work[w].at = "final" /\ ~tearing => work[w].settled = 1
    BY DEF ResourcesOnce
  <2>1. Stage(w) /\ Held(w) /\ work[w].settled \in {0, 1} /\ work[w].event \in Resources \cup {"none"}
    BY DEF NodeInv, NodeTypes, WorkType
  <2>2. Live(Result(w)) <=> handle[Result(w)] \in {"engine", "response"}
    BY <2>1 DEF Stage, Live
  <2>3. HasResource(w) = IF work[w].event # "none" THEN 1 ELSE 0
    BY <2>1 DEF HasResource, Resources
  <2>4. owed[w] = HasResource(w) + IF Live(Result(w)) THEN 1 ELSE 0
    BY <2>1, <2>2, <2>3 DEF Held
  <2>5. work[w].at = "final" /\ ~tearing => work[w].settled = 1
    BY <2>1 DEF Stage
  <2> QED BY <2>1, <2>4, <2>5
<1> QED BY <1>1, NodeStages, PTL

\* When the cleanup hook is removed, no work, operation or resource is left.
THEOREM NodeUnload == Spec => []UnloadSafe
<1>1. NodeInv => UnloadSafe
  <2> SUFFICES ASSUME NodeInv, env.cleanup = "removed", NEW w \in Works
               PROVE  /\ work[w].at \in {"none", "gone"} /\ abi[w] \in {"none", "released"}
                      /\ owed[w] = 0
    BY DEF UnloadSafe
  <2>1. env.closing /\ Cardinality(Working) = 0 /\ IsFiniteSet(Working)
    BY DEF NodeInv, EnvCounts
  <2>2. Working = {}
    BY <2>1, FS_EmptySet
  <2>3. Stage(w) /\ Held(w) /\ work[w].at \in {"none", "submit", "live", "final", "gone"}
    BY DEF NodeInv, NodeTypes, WorkType
  <2>4. work[w].at \in {"none", "gone"}
    BY <2>2, <2>3 DEF Working
  <2>5. abi[w] \in {"none", "released"}
    BY <2>3, <2>4 DEF Stage
  <2>6. work[w].event = "none" /\ handle[Result(w)] \in {"none", "released"}
    BY <2>1, <2>3, <2>4 DEF Stage
  <2>7. owed[w] = 0
    BY <2>3, <2>6 DEF Held
  <2> QED BY <2>4, <2>5, <2>7
<1> QED BY <1>1, NodeStages, PTL
=============================================================================
