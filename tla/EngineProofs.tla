---------------------------- MODULE EngineProofs ----------------------------
(***************************************************************************)
(* Files, readers, credits and the closing of a StaticEngine, for any      *)
(* number of tasks, responses and files.                                   *)
(***************************************************************************)
EXTENDS Engine, SumLemmas

TaskType ==
  [at : Stages, op : Files \cup {None}, got : Files \cup {None}, job : Nat,
   files : SUBSET Files, dir : Files \cup {None}, charge : Nat, todo : SUBSET Files,
   asks : Nat, on : Responses \cup {None}, from : Nat, held : Nat, left : SUBSET Responses]
BodyType ==
  [kind : {"none", "bytes", "listing", "file"}, file : Files \cup {None}, len : Nat, cursor : Nat,
   closed : BOOLEAN, reading : BOOLEAN, released : BOOLEAN, charge : Nat, dir : Nat]

PlanAt == {"open", "prefix", "dir", "names", "entry", "verify"}
WaitAt == {"check", "read-check", "read", "collect-check", "collect", "send", "send-read"}
FetchAt == {"read", "collect", "send", "send-read", "write"}
ShutAt == {"shut", "drain", "close-shut", "close-drain"}
SweepAt == {"close-next", "close-shut", "close-drain", "close-runtime"}

\* The files a task's record k names.
Names(k) == (k.files \cup {k.dir, k.got}) \ {None}

\* Each file of a plan is named once, and none is the engine's own.
Clean(k) ==
  /\ Root \notin k.files /\ k.got # Root /\ k.dir # Root
  /\ k.got \notin k.files /\ k.dir \notin k.files /\ (k.got # None => k.got # k.dir)
  /\ k.todo \subseteq k.files

\* A plan that is suspended: the file of its operation is its own or the engine's, and what it
\* will still have to give back is in its record.
PlanShape(k) ==
  /\ Clean(k)
  /\ k.at \in {"open", "dir", "entry"} => k.op = Root
  /\ k.at \in {"prefix", "verify"} => k.op \in k.files
  /\ k.at = "names" => k.op = k.dir /\ k.dir # None
  /\ k.got # None => k.at \in {"open", "dir", "entry"}
  /\ k.dir # None => k.at \in {"names", "entry"}
  /\ k.job # 0 => k.at = "names"
  /\ k.at \in {"open", "prefix"} => k.charge = 0

\* What a task's record holds at each suspension point.
TaskShape(k) ==
  /\ k.at \in PlanAt => PlanShape(k)
  /\ k.at \notin PlanAt => k.got = None /\ k.job = 0 /\ k.files = {} /\ k.dir = None /\ k.charge = 0
  /\ k.at \notin PlanAt \cup WaitAt => k.op = None
  /\ k.at \in ReadingAt \cup ShutAt <=> k.on # None
  /\ k.held # 0 => k.at \in {"collect-check", "collect"}

Reader(t, r) == task[t].on = r /\ task[t].at \in ReadingAt

\* A reading call has the response to itself, its operation is on the response's file, and
\* what it fetches is at the cursor.
ReaderInv ==
  /\ \A t \in Tasks, r \in Responses : Reader(t, r) =>
       /\ resp[r].reading /\ resp[r].kind = "file"
       /\ task[t].at \in WaitAt => task[t].op = resp[r].file /\ task[t].op # None
       /\ task[t].at \in FetchAt => task[t].from = resp[r].cursor
  /\ \A t, u \in Tasks, r \in Responses : Reader(t, r) /\ Reader(u, r) => t = u
  /\ \A r \in Responses : resp[r].reading => \E t \in Tasks : Reader(t, r)

\* A response that is released has nothing left; one that is not is registered; and a task
\* that closes one has forbidden its use.
BodyInv ==
  /\ \A r \in Responses :
       /\ resp[r].released => resp[r].file = None /\ ~resp[r].reading /\ resp[r].closed
       /\ ~resp[r].released => r \in registry /\ resp[r].kind # "none"
       /\ resp[r].kind = "file" /\ ~resp[r].closed => resp[r].file # None
       /\ resp[r].kind # "file" => resp[r].file = None
       /\ resp[r].kind \in {"bytes", "listing"} => resp[r].cursor <= resp[r].len
       /\ resp[r].file # Root
  /\ \A t \in Tasks : task[t].at \in ShutAt =>
       /\ resp[task[t].on].closed
       /\ task[t].at \in {"drain", "close-drain"} => resp[task[t].on].file = None

\* Every open file but the engine's own has one holder, a plan or a response.
HolderInv ==
  /\ \A f \in Files : f # Root =>
       (file[f] # "none" <=> \/ \E t \in Tasks : f \in Names(task[t])
                             \/ \E r \in Responses : resp[r].file = f)
  /\ \A t, u \in Tasks : \A f \in Names(task[t]) \cap Names(task[u]) : t = u
  /\ \A r, s \in Responses : resp[r].file # None /\ resp[r].file = resp[s].file => r = s
  /\ \A t \in Tasks, r \in Responses : resp[r].file \notin Names(task[t])

\* The life of the engine: nothing before it is open, plans only while it is, and what is still
\* to be closed is known to each task that closes it.
Planners == {t \in Tasks : task[t].at \in PlanAt}
Swept == /\ Planners = {} /\ registry = {} /\ file[Root] = "none"
         /\ \A r \in Responses : resp[r].released
LifeInv ==
  /\ IsFiniteSet(Planners) /\ planning = Cardinality(Planners)
  /\ file[Root] # "closing"
  /\ Planners # {} => closing \/ file[Root] = "open"
  /\ \A t \in Tasks : task[t].op = Root => file[Root] = "open"
  /\ \A t \in Tasks : task[t].at = "root" =>
       /\ ~closing /\ file[Root] = "none" /\ \A u \in Tasks : u # t => task[u].at = "idle"
  /\ file[Root] = "none" /\ ~closing =>
       /\ \A t \in Tasks : task[t].at \in {"idle", "root"}
       /\ registry = {} /\ \A r \in Responses : resp[r].kind = "none"
  /\ \A t \in Tasks : task[t].at \in SweepAt \cup {"close-plans"} => closing
  /\ \A t \in Tasks : task[t].at \in SweepAt =>
       /\ Planners = {}
       /\ \A r \in Responses : resp[r].released \/ r \in task[t].left \/ r = task[t].on
  /\ \A t \in Tasks : task[t].at = "close-runtime" => Swept /\ task[t].left = {}
  /\ closed => closing /\ Swept /\ \A t \in Tasks : task[t].op = None

EngineInv == TypeOK /\ (\A t \in Tasks : TaskShape(task[t])) /\ ReaderInv /\ BodyInv /\ HolderInv /\ LifeInv

-----------------------------------------------------------------------------
(* Records                                                                  *)

\* A task's record is replaced.
LEMMA PutTask ==
  ASSUME TypeOK, NEW t \in Tasks, NEW k \in TaskType, task' = [task EXCEPT ![t] = k]
  PROVE  /\ task' \in [Tasks -> TaskType] /\ task'[t] = k
         /\ \A u \in Tasks : u # t => task'[u] = task[u]
<1>1. task \in [Tasks -> TaskType]
  BY DEF TypeOK, TaskType
<1> QED BY <1>1

\* A response's record is replaced.
LEMMA PutBody ==
  ASSUME TypeOK, NEW r \in Responses, NEW b \in BodyType, resp' = [resp EXCEPT ![r] = b]
  PROVE  /\ resp' \in [Responses -> BodyType] /\ resp'[r] = b
         /\ \A s \in Responses : s # r => resp'[s] = resp[s]
<1>1. resp \in [Responses -> BodyType]
  BY DEF TypeOK, BodyType
<1> QED BY <1>1

\* The fields of a task's record have their types.
LEMMA TaskFields ==
  ASSUME NEW k \in TaskType
  PROVE  /\ k.at \in Stages /\ k.op \in Files \cup {None} /\ k.got \in Files \cup {None}
         /\ k.job \in Nat /\ k.files \in SUBSET Files /\ k.dir \in Files \cup {None}
         /\ k.charge \in Nat /\ k.todo \in SUBSET Files /\ k.on \in Responses \cup {None}
         /\ k.asks \in Nat /\ k.from \in Nat /\ k.held \in Nat /\ k.left \in SUBSET Responses
         /\ Names(k) \subseteq Files
BY DEF TaskType, Names

LEMMA IdleIs ==
  /\ Idle \in TaskType /\ TaskShape(Idle) /\ Names(Idle) = {} /\ Idle.at = "idle" /\ Idle.op = None
  /\ Idle.on = None /\ Idle.held = 0 /\ Idle.charge = 0 /\ Idle.job = 0 /\ Idle.left = {}
<1>1. /\ Idle.at = "idle" /\ Idle.op = None /\ Idle.got = None /\ Idle.files = {} /\ Idle.dir = None
      /\ Idle.on = None /\ Idle.held = 0 /\ Idle.charge = 0 /\ Idle.job = 0 /\ Idle.left = {}
  BY DEF Idle
<1>2. Idle \in TaskType
  BY DEF Idle, TaskType, Stages
<1>3. TaskShape(Idle)
  BY <1>1 DEF TaskShape, PlanAt, WaitAt, ReadingAt, ShutAt
<1>4. Names(Idle) = {}
  BY <1>1 DEF Names
<1> QED BY <1>1, <1>2, <1>3, <1>4

\* The points at which a task may be suspended are of one kind each.
LEMMA Points ==
  ASSUME NEW a
  PROVE  /\ a \in PlanAt => a \notin ReadingAt \cup ShutAt \cup SweepAt \cup {"idle", "root", "close-plans"}
         /\ a \in ReadingAt => a \notin ShutAt \cup SweepAt \cup {"idle", "root", "close-plans"}
         /\ a \in WaitAt \cup FetchAt => a \in ReadingAt
         /\ a \in ShutAt \cup SweepAt => a \notin {"idle", "root", "close-plans"}
BY DEF PlanAt, WaitAt, FetchAt, ReadingAt, ShutAt, SweepAt

-----------------------------------------------------------------------------
(* The plans                                                                *)

\* A plan begins, goes on or ends: t's record becomes k and the files of X are freed.
LEMMA PlanMove ==
  ASSUME EngineInv, NEW t \in Tasks, NEW k \in TaskType, NEW X,
         task' = [task EXCEPT ![t] = k],
         file' = [f \in Files |-> IF f \in X THEN "none" ELSE file[f]],
         UNCHANGED <<closing, closed, registry, resp>>,
         owned' \in [body : Nat, dir : Nat],
         task[t].at \in PlanAt \cup {"idle"}, k.at \in PlanAt \cup {"idle"}, TaskShape(k),
         Root \notin X, Names(k) \cap X = {}, Names(task[t]) = Names(k) \cup (X \ {None}),
         k.at \in PlanAt => \/ ~closing /\ file[Root] = "open"
                            \/ task[t].at \in PlanAt /\ (~closing \/ k.op = task[t].op),
         planning' = (planning - IF task[t].at \in PlanAt THEN 1 ELSE 0)
                     + IF k.at \in PlanAt THEN 1 ELSE 0
  PROVE  EngineInv'
<1>1. /\ TypeOK /\ (\A u \in Tasks : TaskShape(task[u])) /\ ReaderInv /\ BodyInv /\ HolderInv /\ LifeInv
  BY DEF EngineInv
<1>2. /\ task' \in [Tasks -> TaskType] /\ task'[t] = k
      /\ \A u \in Tasks : u # t => task'[u] = task[u]
  BY <1>1, PutTask
<1>3. /\ file \in [Files -> {"none", "open", "closing"}] /\ registry \subseteq Responses
      /\ resp \in [Responses -> BodyType] /\ task \in [Tasks -> TaskType]
      /\ \A r \in Responses : resp[r].file \in Files \cup {None}
  BY <1>1 DEF TypeOK, BodyType, TaskType
<1>4. /\ file' \in [Files -> {"none", "open", "closing"}] /\ file'[Root] = file[Root]
      /\ \A f \in Files : file'[f] = IF f \in X THEN "none" ELSE file[f]
  BY <1>3, EngineAssumption
<1>5. /\ k.on = None /\ k.held = 0 /\ task[t].on = None
  <2>1. TaskShape(task[t]) /\ task[t] \in TaskType
    BY <1>1, <1>3
  <2>2. task[t].at \notin ReadingAt \cup ShutAt /\ k.at \notin ReadingAt \cup ShutAt
    BY Points DEF ReadingAt, ShutAt
  <2>3. k.held \in Nat /\ k.held = 0
    BY TaskFields DEF TaskShape, PlanAt
  <2> QED BY <2>1, <2>2, <2>3 DEF TaskShape
<1>6. \A u \in Tasks, r \in Responses : Reader(u, r)' <=> Reader(u, r)
  BY <1>2, <1>5, EngineAssumption DEF Reader
<1>7. \A u \in Tasks, r \in Responses : Reader(u, r) => u # t
  BY <1>5, EngineAssumption DEF Reader
<1>8. (\A u \in Tasks : TaskShape(task[u]))'
  BY <1>1, <1>2
<1>9. ReaderInv'
  BY <1>1, <1>2, <1>6, <1>7 DEF ReaderInv
<1>10. BodyInv'
  BY <1>1, <1>2, Points DEF BodyInv, ShutAt
<1>11. HolderInv'
  <2>1. Names(k) \subseteq Files /\ Names(task[t]) \subseteq Files
    BY <1>3, TaskFields
  <2>2. \A u \in Tasks : Names(task'[u]) \subseteq Names(task[u])
    BY <1>2
  <2>3. \A u \in Tasks : u # t => Names(task'[u]) = Names(task[u]) /\ Names(task[u]) \cap X = {}
    BY <1>1, <1>2, EngineAssumption DEF HolderInv, Names
  <2>4. \A r \in Responses : resp[r].file # None => resp[r].file \notin X
    BY <1>1 DEF HolderInv
  <2>5. ASSUME NEW f \in Files, f # Root
        PROVE  file'[f] # "none" <=> \/ \E u \in Tasks : f \in Names(task'[u])
                                     \/ \E r \in Responses : resp'[r].file = f
    <3>1. f # None
      BY EngineAssumption
    <3>2. CASE f \in X
      BY <1>2, <1>4, <2>2, <2>3, <2>4, <3>1, <3>2
    <3>3. CASE f \notin X
      <4>1. \A u \in Tasks : f \in Names(task'[u]) <=> f \in Names(task[u])
        BY <1>2, <2>3, <3>3
      <4>2. file'[f] = file[f]
        BY <1>4, <3>3
      <4> QED BY <1>1, <2>5, <4>1, <4>2 DEF HolderInv
    <3> QED BY <3>2, <3>3
  <2>6. \A u, v \in Tasks : \A f \in Names(task'[u]) \cap Names(task'[v]) : u = v
    BY <1>1, <2>2 DEF HolderInv
  <2>7. \A u \in Tasks, r \in Responses : resp'[r].file \notin Names(task'[u])
    BY <1>1, <2>2 DEF HolderInv
  <2>8. \A r, s \in Responses : resp'[r].file # None /\ resp'[r].file = resp'[s].file => r = s
    BY <1>1 DEF HolderInv
  <2> QED BY <2>5, <2>6, <2>7, <2>8 DEF HolderInv
<1>12. /\ IsFiniteSet(Planners') /\ planning' = Cardinality(Planners') /\ planning' \in Nat
  <2>1. Planners \ {t} = Planners' \ {t} /\ (t \in Planners <=> task[t].at \in PlanAt)
        /\ (t \in Planners' <=> k.at \in PlanAt)
    BY <1>2 DEF Planners
  <2>2. IsFiniteSet(Planners) /\ planning = Cardinality(Planners)
    BY <1>1 DEF LifeInv
  <2>3. /\ IsFiniteSet(Planners') /\ Cardinality(Planners) \in Nat /\ Cardinality(Planners') \in Nat
        /\ Cardinality(Planners') = (Cardinality(Planners) - IF t \in Planners THEN 1 ELSE 0)
                                    + IF t \in Planners' THEN 1 ELSE 0
    BY <2>1, <2>2, CountChange
  <2> QED BY <2>1, <2>2, <2>3
<1>13. LifeInv'
  <2>1. Planners # {} => closing \/ file[Root] = "open"
    BY <1>1 DEF LifeInv
  <2>2. k.at \in PlanAt => closing \/ file[Root] = "open"
    BY <2>1 DEF Planners
  <2>3. Planners' # {} => closing \/ file[Root] = "open"
    BY <1>2, <2>1, <2>2 DEF Planners
  <2>4. closing /\ Planners = {} => Planners' = {} /\ k.at = "idle"
    BY <1>2 DEF Planners
  <2>5. k.op = Root => file[Root] = "open"
    <3>1. k.at = "idle" => k.op = None
      BY DEF TaskShape, PlanAt, WaitAt
    <3> QED BY <1>1, <2>1, <2>2, <3>1, EngineAssumption DEF LifeInv
  <2>6. closed => k.op = None
    BY <1>1, <2>4 DEF LifeInv, Swept, TaskShape, PlanAt, WaitAt
  <2>7. file[Root] = "none" /\ ~closing => k.at = "idle"
    BY <2>2
  <2>8. k.at \notin SweepAt \cup ShutAt \cup {"root", "close-plans", "close-runtime"}
    BY DEF PlanAt, SweepAt, ShutAt
  <2>9. Swept => Swept' \/ ~closing
    BY <1>4, <2>4 DEF Swept
  <2>10. \A u \in Tasks : task'[u].op = Root => file'[Root] = "open"
    BY <1>1, <1>2, <1>4, <2>5 DEF LifeInv
  <2>11. \A u \in Tasks : task'[u].at = "root" =>
           /\ ~closing' /\ file'[Root] = "none" /\ \A v \in Tasks : v # u => task'[v].at = "idle"
    BY <1>1, <1>2, <1>4, <2>7, <2>8 DEF LifeInv
  <2>12. file'[Root] = "none" /\ ~closing' =>
           /\ \A u \in Tasks : task'[u].at \in {"idle", "root"}
           /\ registry' = {} /\ \A r \in Responses : resp'[r].kind = "none"
    BY <1>1, <1>2, <1>4, <2>7 DEF LifeInv
  <2>13. \A u \in Tasks : task'[u].at \in SweepAt \cup {"close-plans"} => closing'
    BY <1>1, <1>2, <2>8 DEF LifeInv
  <2>14. \A u \in Tasks : task'[u].at \in SweepAt =>
           /\ Planners' = {}
           /\ \A r \in Responses : resp'[r].released \/ r \in task'[u].left \/ r = task'[u].on
    BY <1>1, <1>2, <2>4, <2>8 DEF LifeInv
  <2>16. \A u \in Tasks : task'[u].at = "close-runtime" => Swept' /\ task'[u].left = {}
    BY <1>1, <1>2, <2>8, <2>9 DEF LifeInv, SweepAt
  <2>17. closed' => closing' /\ Swept' /\ \A u \in Tasks : task'[u].op = None
    BY <1>1, <1>2, <2>6, <2>9 DEF LifeInv
  <2>18. file'[Root] # "closing"
    BY <1>1, <1>4 DEF LifeInv
  <2> QED BY <1>4, <1>12, <2>3, <2>10, <2>11, <2>12, <2>13, <2>14, <2>16, <2>17, <2>18 DEF LifeInv
<1>14. TypeOK'
  BY <1>1, <1>2, <1>4, <1>12 DEF TypeOK, TaskType
<1> QED BY <1>8, <1>9, <1>10, <1>11, <1>13, <1>14 DEF EngineInv

\* p is the plan of t in the turn of t, and n the number of plans under way with it.
Turning(t, p, n) ==
  /\ p \in TaskType /\ Clean(p) /\ Names(p) = Names(task[t])
  /\ p.on = None /\ p.held = 0 /\ p.job = 0 /\ p.charge = task[t].charge + task[t].job
  /\ task[t].at \in PlanAt \cup {"idle"}
  /\ task[t].at = "idle" => ~closing /\ file[Root] = "open"
  /\ n = planning + IF task[t].at \in PlanAt THEN 0 ELSE 1

LEMMA LessNat ==
  ASSUME NEW have \in Nat, NEW n \in Nat
  PROVE  Less(have, n) \in Nat /\ (~closed /\ n <= have => Less(have, n) = have - n)
BY DEF Less

\* The turn ends suspended: k is the record it leaves, X what it has freed.
LEMMA PlanSuspends ==
  ASSUME EngineInv, NEW t \in Tasks, NEW p, NEW n, Turning(t, p, n), ~closing,
         NEW k \in TaskType, NEW X, k.at \in PlanAt, PlanShape(k), k.on = None, k.held = 0,
         Go(t, k), FreeFiles(X),
         UNCHANGED <<closing, closed, registry, resp>>, planning' = n,
         owned' \in [body : Nat, dir : Nat],
         Root \notin X, Names(k) \cap X = {}, Names(p) = Names(k) \cup (X \ {None})
  PROVE  EngineInv'
<1>1. TaskShape(k)
  BY Points DEF TaskShape
<1>2. task[t].at \in PlanAt \cup {"idle"} /\ ("idle" \notin PlanAt) /\ planning \in Nat
  BY DEF Turning, PlanAt, EngineInv, TypeOK
<1>3. planning' = (planning - IF task[t].at \in PlanAt THEN 1 ELSE 0) + IF k.at \in PlanAt THEN 1 ELSE 0
  BY <1>2 DEF Turning
<1>4. Names(task[t]) = Names(k) \cup (X \ {None})
  BY DEF Turning
<1>5. k.at \in PlanAt \cup {"idle"}
  OBVIOUS
<1>6. \/ ~closing /\ file[Root] = "open"
      \/ task[t].at \in PlanAt /\ (~closing \/ k.op = task[t].op)
  BY <1>2 DEF Turning
<1> QED BY <1>1, <1>2, <1>3, <1>4, <1>5, <1>6, PlanMove DEF Go, FreeFiles

\* The plan is dropped with everything it has.
LEMMA PlanDrops ==
  ASSUME EngineInv, NEW t \in Tasks, NEW p, NEW n, Turning(t, p, n), Drop(t, p, n)
  PROVE  EngineInv'
<1> DEFINE X == p.files \cup {p.dir, p.got}
<1>1. /\ task' = [task EXCEPT ![t] = Idle] /\ planning' = n - 1
      /\ file' = [f \in Files |-> IF f \in X THEN "none" ELSE file[f]]
      /\ owned' = [owned EXCEPT !.dir = Less(Less(@, p.job), p.charge)]
      /\ UNCHANGED <<closing, closed, registry, resp>>
  BY DEF Drop, Go, FreeFiles
<1>2. p \in TaskType /\ Clean(p) /\ Names(p) = Names(task[t]) /\ task[t].at \in PlanAt \cup {"idle"}
  BY DEF Turning
<1>3. owned' \in [body : Nat, dir : Nat]
  <2>1. owned \in [body : Nat, dir : Nat] /\ owned.dir \in Nat
    BY DEF EngineInv, TypeOK
  <2>2. Less(Less(owned.dir, p.job), p.charge) \in Nat
    BY <1>2, <2>1, TaskFields, LessNat
  <2> QED BY <1>1, <2>1, <2>2
<1>4. Root \notin X /\ Names(Idle) \cap X = {} /\ Names(task[t]) = Names(Idle) \cup (X \ {None})
  BY <1>2, IdleIs DEF Clean, Names
<1>5. planning' = (planning - IF task[t].at \in PlanAt THEN 1 ELSE 0) + IF Idle.at \in PlanAt THEN 1 ELSE 0
  <2>1. planning \in Nat /\ "idle" \notin PlanAt
    BY DEF EngineInv, TypeOK, PlanAt
  <2> QED BY <1>1, <2>1, IdleIs DEF Turning
<1>6. Idle.at \in PlanAt \cup {"idle"} /\ Idle.at \notin PlanAt
  BY IdleIs DEF PlanAt
<1> HIDE DEF X
<1> QED BY <1>1, <1>2, <1>3, <1>4, <1>5, <1>6, IdleIs, PlanMove

\* A file of the plan is checked; what it needed on the way is freed.
LEMMA PlanVerifies ==
  ASSUME EngineInv, NEW t \in Tasks, NEW p, NEW n, Turning(t, p, n), ~closing, NEW f \in p.todo,
         Go(t, [p EXCEPT !.at = "verify", !.op = f, !.todo = @ \ {f}, !.dir = None, !.got = None]),
         FreeFiles({p.dir, p.got}), planning' = n,
         UNCHANGED <<closing, closed, registry, resp, owned>>
  PROVE  EngineInv'
<1> DEFINE k == [p EXCEPT !.at = "verify", !.op = f, !.todo = @ \ {f}, !.dir = None, !.got = None]
           X == {p.dir, p.got}
<1>1. p \in TaskType /\ Clean(p) /\ p.on = None /\ p.held = 0 /\ p.job = 0
  BY DEF Turning
<1>2. f \in p.files /\ p.files \subseteq Files
  BY <1>1, TaskFields DEF Clean
<1>3. k \in TaskType
  <2>1. f \in Files \cup {None} /\ p.todo \ {f} \in SUBSET Files /\ "verify" \in Stages
    BY <1>1, <1>2, TaskFields DEF Stages
  <2> QED BY <1>1, <2>1 DEF TaskType
<1>4. /\ k.at = "verify" /\ k.op = f /\ k.todo = p.todo \ {f} /\ k.dir = None /\ k.got = None
      /\ k.files = p.files /\ k.on = None /\ k.held = 0 /\ k.job = 0
  BY <1>1 DEF TaskType
<1>5. Go(t, k) /\ FreeFiles(X)
  OBVIOUS
<1> HIDE DEF k
<1>6. PlanShape(k)
  BY <1>1, <1>2, <1>4, EngineAssumption DEF PlanShape, Clean
<1>7. Root \notin X /\ Names(k) \cap X = {} /\ Names(p) = Names(k) \cup (X \ {None})
  BY <1>1, <1>4, EngineAssumption DEF Clean, Names
<1>8. owned' \in [body : Nat, dir : Nat] /\ k.at \in PlanAt
  BY <1>4 DEF EngineInv, TypeOK, PlanAt
<1>9. UNCHANGED <<closing, closed, registry, resp>>
  OBVIOUS
<1> HIDE DEF X
<1> QED BY <1>3, <1>4, <1>5, <1>6, <1>7, <1>8, <1>9, PlanSuspends

\* The plan becomes a response, which takes over the file f of the plan, if any.
LEMMA PlanResponds ==
  ASSUME EngineInv, NEW t \in Tasks, NEW p, NEW n, Turning(t, p, n),
         NEW kind \in {"bytes", "listing", "file"}, NEW f,
         IF kind = "file" THEN f \in p.files ELSE f = None, Respond(t, p, n, kind, f)
  PROVE  EngineInv'
<1> DEFINE keep == IF kind = "listing" THEN p.charge ELSE 0
           X == (p.files \ {f}) \cup {p.dir, p.got}
<1>1. PICK r \in Responses, len \in Lengths :
        LET charge == IF kind = "bytes" THEN 2 * len ELSE BlockCharge
        IN /\ Grants("body", charge)
           /\ resp[r].released /\ r \notin registry /\ \A u \in Tasks : task[u].on # r
           /\ resp' = [resp EXCEPT ![r] =
                [kind |-> kind, file |-> f, len |-> len, cursor |-> 0, closed |-> FALSE,
                 reading |-> FALSE, released |-> FALSE, charge |-> charge, dir |-> keep]]
           /\ registry' = registry \cup {r}
           /\ owned' = [body |-> owned.body + charge, dir |-> Less(owned.dir, p.charge - keep)]
  BY DEF Respond
<1> DEFINE charge == IF kind = "bytes" THEN 2 * len ELSE BlockCharge
           b == [kind |-> kind, file |-> f, len |-> len, cursor |-> 0, closed |-> FALSE,
                 reading |-> FALSE, released |-> FALSE, charge |-> charge, dir |-> keep]
<1>2. /\ ~closing /\ resp[r].released /\ \A u \in Tasks : task[u].on # r
      /\ resp' = [resp EXCEPT ![r] = b] /\ registry' = registry \cup {r}
      /\ owned' = [body |-> owned.body + charge, dir |-> Less(owned.dir, p.charge - keep)]
  BY <1>1 DEF Grants
<1>3. /\ file' = [g \in Files |-> IF g \in X THEN "none" ELSE file[g]]
      /\ task' = [task EXCEPT ![t] = Idle] /\ planning' = n - 1 /\ UNCHANGED <<closing, closed>>
  BY DEF Respond, FreeFiles, Go
<1>4. p \in TaskType /\ Clean(p) /\ Names(p) = Names(task[t]) /\ task[t].at \in PlanAt \cup {"idle"}
  BY DEF Turning
<1>5. /\ TypeOK /\ (\A u \in Tasks : TaskShape(task[u])) /\ ReaderInv /\ BodyInv /\ HolderInv /\ LifeInv
  BY DEF EngineInv
<1>6. len \in Nat /\ charge \in Nat /\ keep \in Nat /\ f \in Files \cup {None} /\ p.charge - keep \in Nat
  BY <1>4, EngineAssumption, TaskFields DEF BlockCharge
<1> HIDE DEF keep, charge
<1>7. b \in BodyType
  BY <1>6 DEF BodyType
<1>8. /\ b.kind = kind /\ b.file = f /\ b.cursor = 0 /\ ~b.closed /\ ~b.reading /\ ~b.released
      /\ b.len = len
  OBVIOUS
<1> HIDE DEF b
<1>9. /\ resp' \in [Responses -> BodyType] /\ resp'[r] = b
      /\ \A s \in Responses : s # r => resp'[s] = resp[s]
  BY <1>2, <1>5, <1>7, PutBody
<1>10. /\ task' \in [Tasks -> TaskType] /\ task'[t] = Idle
       /\ \A u \in Tasks : u # t => task'[u] = task[u]
  BY <1>3, <1>5, IdleIs, PutTask
<1>11. owned' \in [body : Nat, dir : Nat]
  <2>1. owned.body \in Nat /\ owned.dir \in Nat
    BY <1>5 DEF TypeOK
  <2>2. owned.body + charge \in Nat
    BY <1>6, <2>1
  <2>3. Less(owned.dir, p.charge - keep) \in Nat
    BY <1>6, <2>1, LessNat
  <2> QED BY <1>2, <2>2, <2>3
<1>12. /\ file' \in [Files -> {"none", "open", "closing"}] /\ file'[Root] = file[Root]
       /\ \A g \in Files : file'[g] = IF g \in X THEN "none" ELSE file[g]
  <2>1. Root \notin X /\ file \in [Files -> {"none", "open", "closing"}]
    BY <1>4, <1>5 DEF Clean, TypeOK
  <2> HIDE DEF X
  <2> QED BY <1>3, <2>1, EngineAssumption
<1>13. file[Root] = "open"
  BY <1>2, <1>5 DEF Turning, LifeInv, Planners
<1>14. \A u \in Tasks : task'[u].on # r /\ (u # t => task'[u] = task[u])
  BY <1>2, <1>10, IdleIs, EngineAssumption
<1>15. (\A u \in Tasks : TaskShape(task[u]))'
  BY <1>5, <1>10, IdleIs
<1>16. ReaderInv'
  <2>1. ~resp[r].reading
    BY <1>2, <1>5 DEF BodyInv
  <2>2. \A u \in Tasks, s \in Responses : Reader(u, s) => u # t /\ s # r
    BY <1>2, <1>4, Points DEF Reader, PlanAt, ReadingAt
  <2>3. \A u \in Tasks, s \in Responses : Reader(u, s)' <=> Reader(u, s)
    BY <1>10, <2>2, IdleIs, EngineAssumption DEF Reader
  <2> QED BY <1>5, <1>8, <1>9, <1>10, <2>1, <2>2, <2>3 DEF ReaderInv
<1>17. BodyInv'
  <2>1. ASSUME NEW s \in Responses
        PROVE  /\ resp'[s].released => resp'[s].file = None /\ ~resp'[s].reading /\ resp'[s].closed
               /\ ~resp'[s].released => s \in registry' /\ resp'[s].kind # "none"
               /\ resp'[s].kind = "file" /\ ~resp'[s].closed => resp'[s].file # None
               /\ resp'[s].kind # "file" => resp'[s].file = None
               /\ resp'[s].kind \in {"bytes", "listing"} => resp'[s].cursor <= resp'[s].len
               /\ resp'[s].file # Root
    <3>1. CASE s = r
      <4>1. f # Root
        BY <1>4, EngineAssumption DEF Clean
      <4>2. kind = "file" => f # None
        BY <1>4, TaskFields, EngineAssumption
      <4> QED BY <1>2, <1>6, <1>8, <1>9, <3>1, <4>1, <4>2
    <3>2. CASE s # r
      BY <1>2, <1>5, <1>9, <3>2 DEF BodyInv
    <3> QED BY <3>1, <3>2
  <2>2. ASSUME NEW u \in Tasks, task'[u].at \in ShutAt
        PROVE  /\ resp'[task'[u].on].closed
               /\ task'[u].at \in {"drain", "close-drain"} => resp'[task'[u].on].file = None
    <3>1. u # t /\ task'[u] = task[u]
      BY <1>10, <2>2, IdleIs DEF ShutAt
    <3>2. task[u].on \in Responses /\ task[u].on # r
      <4>1. task[u].on # None /\ task[u] \in TaskType
        BY <1>5, <2>2, <3>1 DEF TaskShape, TypeOK, TaskType
      <4> QED BY <1>2, <4>1, TaskFields
    <3> QED BY <1>5, <1>9, <2>2, <3>1, <3>2 DEF BodyInv
  <2> QED BY <2>1, <2>2 DEF BodyInv
<1>18. HolderInv'
  <2>1. Names(task'[t]) = {} /\ \A u \in Tasks : u # t => Names(task'[u]) = Names(task[u])
    BY <1>10, IdleIs
  <2>2. f # None => f \in Names(task[t]) /\ f \notin X
    BY <1>4, TaskFields, EngineAssumption DEF Names, Clean
  <2>3. Names(task[t]) = (X \cup {f}) \ {None}
    BY <1>4 DEF Names
  <2>4. resp'[r].file = f /\ resp[r].file = None
        /\ \A s \in Responses : s # r => resp'[s].file = resp[s].file
    BY <1>2, <1>5, <1>8, <1>9 DEF BodyInv
  <2> HIDE DEF X
  <2>5. ASSUME NEW g \in Files, g # Root
        PROVE  file'[g] # "none" <=> \/ \E u \in Tasks : g \in Names(task'[u])
                                     \/ \E s \in Responses : resp'[s].file = g
    <3>1. g # None
      BY EngineAssumption
    <3>2. CASE g \in X
      <4>1. g \in Names(task[t]) /\ file'[g] = "none"
        BY <1>12, <2>3, <3>1, <3>2
      <4>2. \A u \in Tasks : g \notin Names(task'[u])
        BY <1>5, <2>1, <4>1 DEF HolderInv
      <4>3. \A s \in Responses : resp'[s].file # g
        BY <1>5, <2>2, <2>4, <3>1, <3>2, <4>1 DEF HolderInv
      <4> QED BY <4>1, <4>2, <4>3
    <3>3. CASE g \notin X
      <4>1. file'[g] = file[g]
        BY <1>12, <3>3
      <4>2. g \in Names(task[t]) <=> g = f
        BY <2>3, <3>1, <3>3
      <4> QED BY <1>5, <2>1, <2>4, <2>5, <3>1, <4>1, <4>2 DEF HolderInv
    <3> QED BY <3>2, <3>3
  <2>6. \A u, v \in Tasks : \A g \in Names(task'[u]) \cap Names(task'[v]) : u = v
    BY <1>5, <2>1 DEF HolderInv
  <2>7. \A q, s \in Responses : resp'[q].file # None /\ resp'[q].file = resp'[s].file => q = s
    BY <1>5, <2>2, <2>4 DEF HolderInv
  <2>8. \A u \in Tasks, s \in Responses : resp'[s].file \notin Names(task'[u])
    <3>1. \A u \in Tasks : None \notin Names(task[u])
      BY DEF Names
    <3> QED BY <1>5, <2>1, <2>2, <2>4, <3>1 DEF HolderInv
  <2> QED BY <2>5, <2>6, <2>7, <2>8 DEF HolderInv
<1>19. IsFiniteSet(Planners') /\ planning' = Cardinality(Planners') /\ planning' \in Nat
  <2>1. Planners \ {t} = Planners' \ {t} /\ (t \in Planners <=> task[t].at \in PlanAt) /\ t \notin Planners'
    BY <1>10, IdleIs DEF Planners, PlanAt
  <2>2. IsFiniteSet(Planners) /\ planning = Cardinality(Planners)
    BY <1>5 DEF LifeInv
  <2>3. /\ IsFiniteSet(Planners') /\ Cardinality(Planners) \in Nat /\ Cardinality(Planners') \in Nat
        /\ Cardinality(Planners') = Cardinality(Planners) - IF t \in Planners THEN 1 ELSE 0
    BY <2>1, <2>2, CountChange
  <2> QED BY <1>3, <2>1, <2>2, <2>3 DEF Turning
<1>20. LifeInv'
  <2>1. /\ ~closing' /\ ~closed' /\ file'[Root] = "open"
    BY <1>2, <1>3, <1>5, <1>12, <1>13 DEF LifeInv
  <2>2. \A u \in Tasks : task'[u].at \notin SweepAt \cup {"root", "close-plans"}
    BY <1>2, <1>5, <1>10, <1>13, IdleIs DEF LifeInv, SweepAt
  <2>4. "close-runtime" \in SweepAt
    BY DEF SweepAt
  <2> QED BY <1>19, <2>1, <2>2, <2>4 DEF LifeInv
<1>21. TypeOK'
  <2>1. registry' \subseteq Responses
    BY <1>2, <1>5 DEF TypeOK
  <2> QED BY <1>3, <1>5, <1>9, <1>10, <1>11, <1>12, <1>19, <2>1 DEF TypeOK, TaskType, BodyType
<1> QED BY <1>15, <1>16, <1>17, <1>18, <1>20, <1>21 DEF EngineInv

\* The files of the plan are now to be checked.
LEMMA PlanTodo ==
  ASSUME NEW t, NEW p, NEW n, Turning(t, p, n)
  PROVE  Turning(t, [p EXCEPT !.todo = p.files], n)
<1> DEFINE q == [p EXCEPT !.todo = p.files]
<1>1. p \in TaskType /\ p.files \in SUBSET Files
  BY TaskFields DEF Turning
<1>2. q \in TaskType
  BY <1>1 DEF TaskType
<1>3. /\ q.files = p.files /\ q.dir = p.dir /\ q.got = p.got /\ q.todo = p.files
      /\ q.on = p.on /\ q.held = p.held /\ q.job = p.job /\ q.charge = p.charge
  BY <1>1 DEF TaskType
<1> HIDE DEF q
<1>4. Clean(q) /\ Names(q) = Names(p)
  BY <1>3 DEF Turning, Clean, Names
<1>5. Turning(t, q, n)
  BY <1>2, <1>3, <1>4 DEF Turning
<1> QED BY <1>5 DEF q

LEMMA PlanDone ==
  ASSUME EngineInv, NEW t \in Tasks, NEW p, NEW n, Turning(t, p, n), Done(t, p, n)
  PROVE  EngineInv'
<1>1. CASE /\ ~closing
           /\ \E f \in p.todo : Go(t, [p EXCEPT !.at = "verify", !.op = f, !.todo = @ \ {f},
                                                !.dir = None, !.got = None])
           /\ FreeFiles({p.dir, p.got})
           /\ planning' = n /\ UNCHANGED <<closing, closed, registry, resp, owned>>
  BY <1>1, PlanVerifies
<1>2. CASE Respond(t, p, n, "bytes", None) \/ Respond(t, p, n, "listing", None)
  BY <1>2, PlanResponds
<1>3. CASE \E f \in p.files : Respond(t, p, n, "file", f)
  BY <1>3, PlanResponds
<1> QED BY <1>1, <1>2, <1>3 DEF Done

\* The plan asks for an operation on the file f, with credits for a listing or none.
LEMMA PlanSteps ==
  ASSUME EngineInv, NEW t \in Tasks, NEW p, NEW n, Turning(t, p, n),
         p.dir = None, p.got = None, ~closing,
         NEW where, NEW f, NEW c \in Nat,
         \/ where \in {"open", "dir"} /\ f = Root
         \/ where = "prefix" /\ f \in p.files,
         where \in {"open", "prefix"} => c = 0,
         Go(t, [p EXCEPT !.at = where, !.op = f, !.charge = c, !.asks = @ + 1]),
         owned' \in [body : Nat, dir : Nat], planning' = n,
         UNCHANGED <<closing, closed, registry, resp, file>>
  PROVE  EngineInv'
<1> DEFINE k == [p EXCEPT !.at = where, !.op = f, !.charge = c, !.asks = @ + 1]
<1>1. p \in TaskType /\ Clean(p) /\ p.on = None /\ p.held = 0 /\ p.job = 0
  BY DEF Turning
<1>2. where \in Stages /\ f \in Files \cup {None} /\ p.asks + 1 \in Nat /\ where \in PlanAt
  BY <1>1, TaskFields, EngineAssumption DEF Stages, PlanAt
<1>3. k \in TaskType
  BY <1>1, <1>2 DEF TaskType
<1>4. /\ k.at = where /\ k.op = f /\ k.todo = p.todo /\ k.dir = None /\ k.got = None
      /\ k.files = p.files /\ k.on = None /\ k.held = 0 /\ k.job = 0 /\ k.charge = c
  BY <1>1 DEF TaskType
<1>5. Go(t, k)
  OBVIOUS
<1> HIDE DEF k
<1>6. PlanShape(k)
  BY <1>1, <1>4 DEF PlanShape, Clean
<1>7. FreeFiles({})
  BY DEF FreeFiles, EngineInv, TypeOK
<1>8. Root \notin {} /\ Names(k) \cap {} = {} /\ Names(p) = Names(k) \cup ({} \ {None})
  BY <1>4 DEF Names
<1>9. UNCHANGED <<closing, closed, registry, resp>> /\ k.at \in PlanAt
  BY <1>2, <1>4
<1> DEFINE X == {}
<1> HIDE DEF X
<1>10. FreeFiles(X) /\ Root \notin X /\ Names(k) \cap X = {} /\ Names(p) = Names(k) \cup (X \ {None})
  BY <1>7, <1>8 DEF X
<1> QED BY <1>3, <1>4, <1>5, <1>6, <1>9, <1>10, PlanSuspends

\* plan_request until it is suspended, from an idle task or from one that has opened a file.
LEMMA PlanAsks ==
  ASSUME EngineInv, NEW t \in Tasks, NEW p, NEW n, Turning(t, p, n),
         p.dir = None, p.got = None, Ask(t, p, n)
  PROVE  EngineInv'
<1> DEFINE Step(where, f, charge) ==
      Go(t, [p EXCEPT !.at = where, !.op = f, !.charge = charge, !.asks = @ + 1])
<1>1. owned \in [body : Nat, dir : Nat] /\ owned.dir \in Nat
  BY DEF EngineInv, TypeOK
<1>2. CASE Drop(t, p, n)
  BY <1>2, PlanDrops
<1>3. CASE Done(t, [p EXCEPT !.todo = p.files], n)
  BY <1>3, PlanTodo, PlanDone
<1>4. CASE ~closing /\ planning' = n /\ UNCHANGED <<closing, closed, registry, resp, file>>
           /\ Step("open", Root, 0) /\ UNCHANGED owned
  BY <1>1, <1>4, PlanSteps
<1>5. CASE ~closing /\ planning' = n /\ UNCHANGED <<closing, closed, registry, resp, file>>
           /\ \E f \in p.files : Step("prefix", f, 0) /\ UNCHANGED owned
  BY <1>1, <1>5, PlanSteps
<1>6. CASE /\ ~closing /\ planning' = n /\ UNCHANGED <<closing, closed, registry, resp, file>>
           /\ Step("dir", Root, ListBase) /\ owned' = [owned EXCEPT !.dir = @ + ListBase]
  <2>1. ListBase \in Nat /\ owned.dir + ListBase \in Nat
    BY <1>1 DEF ListBase
  <2>2. owned' \in [body : Nat, dir : Nat]
    BY <1>1, <1>6, <2>1
  <2> QED BY <1>6, <2>1, <2>2, PlanSteps
<1> QED BY <1>2, <1>3, <1>4, <1>5, <1>6 DEF Ask

LEMMA PlanEntries ==
  ASSUME EngineInv, NEW t \in Tasks, NEW p, Turning(t, p, planning), Entries(t, p)
  PROVE  EngineInv'
<1>1. CASE Drop(t, p, planning)
  BY <1>1, PlanDrops
<1>2. CASE Done(t, [p EXCEPT !.todo = p.files], planning)
  BY <1>2, PlanTodo, PlanDone
<1>3. CASE /\ ~closing
           /\ Go(t, [p EXCEPT !.at = "entry", !.op = Root, !.asks = @ + 1, !.got = None])
           /\ FreeFiles({p.got})
           /\ UNCHANGED <<closing, closed, planning, registry, resp, owned>>
  <2> DEFINE k == [p EXCEPT !.at = "entry", !.op = Root, !.asks = @ + 1, !.got = None]
             X == {p.got}
  <2>1. p \in TaskType /\ Clean(p) /\ p.on = None /\ p.held = 0 /\ p.job = 0
    BY DEF Turning
  <2>2. "entry" \in Stages /\ Root \in Files \cup {None} /\ p.asks + 1 \in Nat
    BY <2>1, TaskFields, EngineAssumption DEF Stages
  <2>3. k \in TaskType
    BY <2>1, <2>2 DEF TaskType
  <2>4. /\ k.at = "entry" /\ k.op = Root /\ k.todo = p.todo /\ k.dir = p.dir /\ k.got = None
        /\ k.files = p.files /\ k.on = None /\ k.held = 0 /\ k.job = 0
    BY <2>1 DEF TaskType
  <2>5. Go(t, k) /\ FreeFiles(X)
    BY <1>3
  <2> HIDE DEF k
  <2>6. PlanShape(k)
    <3>1. None # Root /\ None \notin k.files
      BY <2>3, TaskFields, EngineAssumption
    <3> QED BY <2>1, <2>4, <3>1 DEF PlanShape, Clean
  <2>7. Root \notin X /\ Names(k) \cap X = {} /\ Names(p) = Names(k) \cup (X \ {None})
    BY <2>1, <2>4 DEF Clean, Names
  <2>8. owned' \in [body : Nat, dir : Nat] /\ k.at \in PlanAt
        /\ ~closing /\ planning' = planning /\ UNCHANGED <<closing, closed, registry, resp>>
    BY <1>3, <2>4 DEF EngineInv, TypeOK, PlanAt
  <2> HIDE DEF X
  <2> QED BY <2>3, <2>4, <2>5, <2>6, <2>7, <2>8, PlanSuspends
<1> QED BY <1>1, <1>2, <1>3 DEF Entries

\* A plan that stops waiting for its operation: everything but the operation is as it was.
LEMMA PlanWakes ==
  ASSUME EngineInv, NEW t \in Tasks, task[t].at \in PlanAt
  PROVE  LET p == [task[t] EXCEPT !.op = None]
         IN /\ p \in TaskType /\ Clean(p) /\ Names(p) = Names(task[t]) /\ p.on = None /\ p.held = 0
            /\ PlanShape(task[t]) /\ p.at = task[t].at /\ p.got = task[t].got /\ p.job = task[t].job
            /\ p.files = task[t].files /\ p.dir = task[t].dir /\ p.charge = task[t].charge
            /\ p.todo = task[t].todo
<1> DEFINE p == [task[t] EXCEPT !.op = None]
<1>1. task[t] \in TaskType /\ TaskShape(task[t])
  BY DEF EngineInv, TypeOK, TaskType
<1>2. PlanShape(task[t]) /\ task[t].on = None /\ task[t].held = 0
  <2>1. task[t].at \notin ReadingAt \cup ShutAt /\ task[t].at \notin {"collect-check", "collect"}
    BY Points DEF PlanAt
  <2> QED BY <1>1, <2>1 DEF TaskShape
<1>3. p \in TaskType
  BY <1>1 DEF TaskType
<1>4. /\ p.at = task[t].at /\ p.got = task[t].got /\ p.job = task[t].job
      /\ p.files = task[t].files /\ p.dir = task[t].dir /\ p.charge = task[t].charge
      /\ p.todo = task[t].todo /\ p.on = task[t].on /\ p.held = task[t].held
  BY <1>1 DEF TaskType
<1> HIDE DEF p
<1>5. Clean(p) /\ Names(p) = Names(task[t])
  BY <1>2, <1>4 DEF PlanShape, Clean, Names
<1>6. /\ p \in TaskType /\ Clean(p) /\ Names(p) = Names(task[t]) /\ p.on = None /\ p.held = 0
      /\ PlanShape(task[t]) /\ p.at = task[t].at /\ p.got = task[t].got /\ p.job = task[t].job
      /\ p.files = task[t].files /\ p.dir = task[t].dir /\ p.charge = task[t].charge
      /\ p.todo = task[t].todo
  BY <1>2, <1>3, <1>4, <1>5
<1> QED BY <1>6 DEF p

\* A directory has been opened: its names are listed next.
Listing(t, p) ==
  /\ p.dir = None /\ p.got # None /\ ~closing
  /\ Go(t, [p EXCEPT !.at = "names", !.op = p.got, !.dir = p.got, !.got = None])
  /\ UNCHANGED <<closing, closed, planning, registry, resp, file, owned>>

\* What plan_request may do with the plan p in one turn.
Going(t, p, n) ==
  \/ p.dir = None /\ p.got = None /\ p.charge = 0 /\ Ask(t, p, n)
  \/ Drop(t, p, n) \/ Done(t, p, n)
  \/ n = planning /\ (Entries(t, p) \/ Listing(t, p))

LEMMA PlanLists ==
  ASSUME EngineInv, NEW t \in Tasks, NEW p, Turning(t, p, planning), Listing(t, p)
  PROVE  EngineInv'
<1> DEFINE named == [p EXCEPT !.at = "names", !.op = p.got, !.dir = p.got, !.got = None]
           X == {}
<1>1. /\ p.dir = None /\ p.got # None /\ ~closing /\ Go(t, named)
      /\ UNCHANGED <<closing, closed, planning, registry, resp, file, owned>>
  BY DEF Listing
<1>2. p \in TaskType /\ Clean(p) /\ p.on = None /\ p.held = 0 /\ p.got \in Files \cup {None}
      /\ p.files \in SUBSET Files
  BY TaskFields DEF Turning
<1>3. named \in TaskType
  <2>1. "names" \in Stages
    BY DEF Stages
  <2> QED BY <1>2, <2>1 DEF TaskType
<1>4. /\ named.at = "names" /\ named.op = p.got /\ named.dir = p.got /\ named.got = None
      /\ named.files = p.files /\ named.todo = p.todo /\ named.on = None /\ named.held = 0
  BY <1>2 DEF TaskType
<1> HIDE DEF named
<1>5. PlanShape(named)
  BY <1>1, <1>2, <1>4, EngineAssumption DEF PlanShape, Clean
<1>6. FreeFiles(X) /\ Root \notin X /\ Names(named) \cap X = {} /\ Names(p) = Names(named) \cup (X \ {None})
  <2>1. FreeFiles({})
    BY <1>1 DEF FreeFiles, EngineInv, TypeOK
  <2> QED BY <1>1, <1>4, <2>1 DEF Names
<1>7. /\ owned' \in [body : Nat, dir : Nat] /\ named.at \in PlanAt /\ planning' = planning
      /\ UNCHANGED <<closing, closed, registry, resp>>
  BY <1>1, <1>4 DEF EngineInv, TypeOK, PlanAt
<1> HIDE DEF X
<1> QED BY <1>1, <1>3, <1>4, <1>5, <1>6, <1>7, PlanSuspends

\* The turns of handle: the first of a call and those that resume it.
LEMMA PlanBegins ==
  ASSUME EngineInv, NEW t \in Tasks, handle(t)
  PROVE  \E p, n : Turning(t, p, n) /\ Going(t, p, n)
<1>1. ~closing /\ file[Root] = "open" /\ task[t].at = "idle" /\ Ask(t, Idle, planning + 1)
  BY DEF handle
<1>2. Idle.dir = None /\ Idle.got = None /\ Idle.files = {} /\ Idle.todo = {} /\ Idle.charge = 0
  BY DEF Idle
<1>3. task[t].charge = 0 /\ task[t].job = 0 /\ Names(task[t]) = {}
  BY <1>1 DEF EngineInv, TaskShape, Names, PlanAt
<1>4. Clean(Idle)
  BY <1>2, EngineAssumption DEF Clean
<1>5. Turning(t, Idle, planning + 1)
  BY <1>1, <1>3, <1>4, IdleIs DEF Turning, PlanAt
<1> QED BY <1>1, <1>2, <1>5 DEF Going

LEMMA PlanGoesOn ==
  ASSUME EngineInv, NEW t \in Tasks, handle_resumes(t)
  PROVE  \E p, n : Turning(t, p, n) /\ Going(t, p, n)
<1> DEFINE p == [task[t] EXCEPT !.op = None]
           kept == [p EXCEPT !.files = @ \cup ({p.got} \ {None}), !.got = None]
           listed == [p EXCEPT !.charge = @ + p.job, !.job = 0]
<1>1. \/ p.at \in {"open", "prefix"} /\ Ask(t, kept, planning)
      \/ /\ p.at = "dir"
         /\ \/ Drop(t, p, planning)
            \/ /\ ~closing /\ p.got # None
               /\ Go(t, [p EXCEPT !.at = "names", !.op = p.got, !.dir = p.got, !.got = None])
               /\ UNCHANGED <<closing, closed, planning, registry, resp, file, owned>>
      \/ p.at \in {"names", "entry"} /\ Entries(t, listed)
      \/ p.at = "verify" /\ (Drop(t, p, planning) \/ Done(t, p, planning))
  BY DEF handle_resumes
<1>2. p.at = task[t].at
  BY DEF EngineInv, TypeOK, TaskType
<1>3. task[t].at \in PlanAt
  BY <1>1, <1>2 DEF PlanAt
<1>4. /\ p \in TaskType /\ Clean(p) /\ Names(p) = Names(task[t]) /\ p.on = None /\ p.held = 0
      /\ PlanShape(task[t]) /\ p.at = task[t].at /\ p.got = task[t].got /\ p.job = task[t].job
      /\ p.files = task[t].files /\ p.dir = task[t].dir /\ p.charge = task[t].charge
      /\ p.todo = task[t].todo
  BY <1>3, PlanWakes
<1> HIDE DEF p
<1>5. /\ p.files \in SUBSET Files /\ p.got \in Files \cup {None} /\ p.charge \in Nat /\ p.job \in Nat
      /\ planning \in Nat /\ "idle" \notin PlanAt
  BY <1>4, TaskFields DEF EngineInv, TypeOK, PlanAt
<1>6. ASSUME p.at # "names" PROVE p.job = 0
  BY <1>4, <1>6 DEF PlanShape
<1>7. ASSUME p.at # "names" PROVE Turning(t, p, planning)
  BY <1>3, <1>4, <1>5, <1>6, <1>7 DEF Turning
<1>8. CASE p.at \in {"open", "prefix"} /\ Ask(t, kept, planning)
  <2> DEFINE fs == p.files \cup ({p.got} \ {None})
  <2>1. fs \in SUBSET Files /\ kept = [p EXCEPT !.files = fs, !.got = None]
    BY <1>5
  <2>2. kept \in TaskType
    <3> HIDE DEF fs, kept
    <3> QED BY <1>4, <2>1 DEF TaskType
  <2>3. /\ kept.files = p.files \cup ({p.got} \ {None}) /\ kept.got = None /\ kept.dir = p.dir
        /\ kept.todo = p.todo /\ kept.on = None /\ kept.held = 0 /\ kept.job = p.job
        /\ kept.charge = p.charge
    BY <1>4 DEF TaskType
  <2> HIDE DEF kept
  <2>4. kept.dir = None /\ p.job = 0 /\ kept.charge = 0
    BY <1>4, <1>6, <1>8, <2>3 DEF PlanShape
  <2>5. Clean(kept)
    BY <1>4, <1>5, <2>3, <2>4, EngineAssumption DEF Clean
  <2>6. Names(kept) = Names(p)
    BY <2>3 DEF Names
  <2>7. Turning(t, kept, planning)
    BY <1>3, <1>4, <1>5, <2>2, <2>3, <2>4, <2>5, <2>6 DEF Turning
  <2> QED BY <1>8, <2>3, <2>4, <2>7 DEF Going
<1>9. CASE p.at # "names" /\ (Drop(t, p, planning) \/ Done(t, p, planning))
  BY <1>7, <1>9 DEF Going
<1>10. CASE /\ p.at = "dir" /\ ~closing /\ p.got # None
            /\ Go(t, [p EXCEPT !.at = "names", !.op = p.got, !.dir = p.got, !.got = None])
            /\ UNCHANGED <<closing, closed, planning, registry, resp, file, owned>>
  <2>1. p.dir = None
    BY <1>4, <1>10 DEF PlanShape
  <2>2. Listing(t, p)
    BY <1>10, <2>1 DEF Listing
  <2> QED BY <1>7, <1>10, <2>2 DEF Going
<1>11. CASE p.at \in {"names", "entry"} /\ Entries(t, listed)
  <2>1. p.charge + p.job \in Nat
    BY <1>5
  <2>2. listed \in TaskType
    BY <1>4, <2>1 DEF TaskType
  <2>3. /\ listed.files = p.files /\ listed.got = p.got /\ listed.dir = p.dir
        /\ listed.todo = p.todo /\ listed.on = None /\ listed.held = 0 /\ listed.job = 0
        /\ listed.charge = p.charge + p.job
    BY <1>4 DEF TaskType
  <2> HIDE DEF listed
  <2>4. Clean(listed) /\ Names(listed) = Names(p)
    BY <1>4, <2>3 DEF Clean, Names
  <2>5. Turning(t, listed, planning)
    BY <1>3, <1>4, <1>5, <2>2, <2>3, <2>4 DEF Turning
  <2> QED BY <1>11, <2>5 DEF Going
<1> QED BY <1>1, <1>8, <1>9, <1>10, <1>11

LEMMA StepPlan ==
  ASSUME EngineInv, NEW t \in Tasks, handle(t) \/ handle_resumes(t)
  PROVE  EngineInv'
<1>1. PICK p, n : Turning(t, p, n) /\ Going(t, p, n)
  BY PlanBegins, PlanGoesOn
<1> QED BY <1>1, PlanAsks, PlanDrops, PlanDone, PlanEntries, PlanLists DEF Going

\* The job of a plan lists names.
LEMMA StepList ==
  ASSUME EngineInv, NEW t \in Tasks, hs_list(t)
  PROVE  EngineInv'
<1> DEFINE k == [task[t] EXCEPT !.job = NameCharge]
           X == {}
<1>1. /\ task[t].at = "names" /\ owned' = [owned EXCEPT !.dir = @ + NameCharge]
      /\ task' = [task EXCEPT ![t] = k]
      /\ UNCHANGED <<closing, closed, planning, registry, resp, file>>
  BY DEF hs_list, Go
<1>2. task[t] \in TaskType /\ TaskShape(task[t]) /\ owned \in [body : Nat, dir : Nat]
      /\ NameCharge \in Nat /\ owned.dir + NameCharge \in Nat
  BY DEF EngineInv, TypeOK, TaskType, NameCharge
<1>3. k \in TaskType
  BY <1>2 DEF TaskType
<1>4. /\ k.at = "names" /\ k.op = task[t].op /\ k.dir = task[t].dir /\ k.got = task[t].got
      /\ k.files = task[t].files /\ k.todo = task[t].todo /\ k.on = task[t].on
      /\ k.held = task[t].held /\ k.charge = task[t].charge
  BY <1>1, <1>2 DEF TaskType
<1> HIDE DEF k
<1>5. owned' \in [body : Nat, dir : Nat]
  BY <1>1, <1>2
<1>6. TaskShape(k) /\ Names(k) = Names(task[t])
  BY <1>1, <1>2, <1>4 DEF TaskShape, PlanShape, Clean, Names, PlanAt
<1>7. file' = [f \in Files |-> IF f \in X THEN "none" ELSE file[f]]
  BY <1>1 DEF EngineInv, TypeOK
<1>8. Root \notin X /\ Names(k) \cap X = {} /\ Names(task[t]) = Names(k) \cup (X \ {None})
  BY <1>6
<1>9. task[t].at \in PlanAt /\ k.at \in PlanAt
  BY <1>1, <1>4 DEF PlanAt
<1>10. planning' = (planning - IF task[t].at \in PlanAt THEN 1 ELSE 0) + IF k.at \in PlanAt THEN 1 ELSE 0
  BY <1>1, <1>9 DEF EngineInv, TypeOK
<1>11. UNCHANGED <<closing, closed, registry, resp>> /\ k.op = task[t].op
       /\ task[t].at \in PlanAt \cup {"idle"} /\ k.at \in PlanAt \cup {"idle"}
  BY <1>1, <1>4, <1>9
<1> HIDE DEF X
<1> QED BY <1>1, <1>3, <1>5, <1>6, <1>7, <1>8, <1>9, <1>10, <1>11, PlanMove

\* The executor opens a file for the plan of t.
LEMMA StepOpen ==
  ASSUME EngineInv, NEW t \in Tasks, hs_open(t)
  PROVE  EngineInv'
<1>1. PICK f \in Files : /\ file[f] = "none" /\ f # Root
                         /\ file' = [file EXCEPT ![f] = "open"] /\ Go(t, [task[t] EXCEPT !.got = f])
  BY DEF hs_open
<1> DEFINE k == [task[t] EXCEPT !.got = f]
<1>2. /\ task[t].at \in {"open", "dir", "entry"} /\ task[t].got = None
      /\ UNCHANGED <<closing, closed, planning, registry, resp, owned>> /\ task' = [task EXCEPT ![t] = k]
  BY <1>1 DEF hs_open, Go
<1>3. /\ TypeOK /\ (\A u \in Tasks : TaskShape(task[u])) /\ ReaderInv /\ BodyInv /\ HolderInv /\ LifeInv
      /\ task \in [Tasks -> TaskType] /\ file \in [Files -> {"none", "open", "closing"}]
  BY DEF EngineInv, TypeOK, TaskType
<1>4. k \in TaskType
  BY <1>3 DEF TaskType
<1>5. /\ k.at = task[t].at /\ k.op = task[t].op /\ k.dir = task[t].dir /\ k.got = f
      /\ k.files = task[t].files /\ k.todo = task[t].todo /\ k.on = task[t].on
      /\ k.held = task[t].held /\ k.charge = task[t].charge /\ k.job = task[t].job
      /\ k.left = task[t].left /\ k.from = task[t].from
  BY <1>3 DEF TaskType
<1> HIDE DEF k
<1>6. /\ task' \in [Tasks -> TaskType] /\ task'[t] = k
      /\ \A u \in Tasks : u # t => task'[u] = task[u]
  BY <1>2, <1>3, <1>4, PutTask
<1>7. f # None /\ (\A u \in Tasks : f \notin Names(task[u])) /\ (\A r \in Responses : resp[r].file # f)
  BY <1>1, <1>3, EngineAssumption DEF HolderInv
<1>8. TaskShape(k) /\ Names(k) = Names(task[t]) \cup {f}
  <2>1. TaskShape(task[t]) /\ task[t].at \in PlanAt
    BY <1>2, <1>3 DEF PlanAt
  <2>2. f \notin task[t].files /\ f # task[t].dir
    BY <1>7 DEF Names
  <2>3. PlanShape(task[t])
    BY <2>1 DEF TaskShape
  <2>4. PlanShape(k)
    BY <1>1, <1>2, <1>5, <1>7, <2>2, <2>3 DEF PlanShape, Clean
  <2> QED BY <1>2, <1>5, <1>7, <2>1, <2>4 DEF TaskShape, Names
<1>9. \A u \in Tasks : /\ task'[u].at = task[u].at /\ task'[u].op = task[u].op /\ task'[u].on = task[u].on
                       /\ task'[u].left = task[u].left /\ task'[u].from = task[u].from
  BY <1>5, <1>6
<1>10. file' \in [Files -> {"none", "open", "closing"}] /\ file'[f] = "open" /\ file'[Root] = file[Root]
       /\ \A g \in Files : g # f => file'[g] = file[g]
  BY <1>1, <1>3, EngineAssumption
<1>11. (\A u \in Tasks : TaskShape(task[u]))'
  BY <1>3, <1>6, <1>8
<1>12. ReaderInv'
  <2>1. \A u \in Tasks, r \in Responses : Reader(u, r)' <=> Reader(u, r)
    BY <1>9 DEF Reader
  <2> QED BY <1>2, <1>3, <1>9, <2>1 DEF ReaderInv
<1>13. BodyInv'
  BY <1>2, <1>3, <1>9 DEF BodyInv
<1>14. HolderInv'
  <2>1. \A u \in Tasks : Names(task'[u]) = IF u = t THEN Names(task[t]) \cup {f} ELSE Names(task[u])
    BY <1>6, <1>8
  <2>2. ASSUME NEW g \in Files, g # Root
        PROVE  file'[g] # "none" <=> \/ \E u \in Tasks : g \in Names(task'[u])
                                     \/ \E r \in Responses : resp'[r].file = g
    <3>1. CASE g = f
      BY <1>10, <2>1, <3>1
    <3>2. CASE g # f
      BY <1>2, <1>3, <1>10, <2>1, <2>2, <3>2 DEF HolderInv
    <3> QED BY <3>1, <3>2
  <2>3. \A u, v \in Tasks : \A g \in Names(task'[u]) \cap Names(task'[v]) : u = v
    BY <1>3, <1>7, <2>1 DEF HolderInv
  <2>4. \A r, s \in Responses : resp'[r].file # None /\ resp'[r].file = resp'[s].file => r = s
    BY <1>2, <1>3 DEF HolderInv
  <2>5. \A u \in Tasks, r \in Responses : resp'[r].file \notin Names(task'[u])
    BY <1>2, <1>3, <1>7, <2>1 DEF HolderInv
  <2> QED BY <2>2, <2>3, <2>4, <2>5 DEF HolderInv
<1>15. LifeInv'
  <2>1. Planners' = Planners
    BY <1>9 DEF Planners
  <2>2. Swept' = Swept
    BY <1>2, <1>10, <2>1 DEF Swept
  <2> QED BY <1>2, <1>3, <1>9, <1>10, <2>1, <2>2 DEF LifeInv
<1>16. TypeOK'
  BY <1>2, <1>3, <1>6, <1>10 DEF TypeOK, TaskType
<1> QED BY <1>11, <1>12, <1>13, <1>14, <1>15, <1>16 DEF EngineInv

-----------------------------------------------------------------------------
(* The responses                                                            *)

\* A task that is not planning names no file.
LEMMA NoNames ==
  ASSUME NEW k, TaskShape(k), k.at \notin PlanAt
  PROVE  Names(k) = {} /\ k.got = None /\ k.dir = None /\ k.files = {}
BY DEF TaskShape, Names

\* A task that is neither idle nor opening the engine, and a response that has been made,
\* show that the engine has been opened.
LEMMA Opened ==
  ASSUME EngineInv
  PROVE  /\ \A t \in Tasks : task[t].at \notin {"idle", "root"} => closing \/ file[Root] # "none"
         /\ \A r \in Responses : resp[r].kind # "none" => closing \/ file[Root] # "none"
BY DEF EngineInv, LifeInv

\* A step of an engine that has been opened, which neither begins nor ends a plan.
LEMMA LifeFrame ==
  ASSUME LifeInv, UNCHANGED <<closing, closed, planning>>, file'[Root] = file[Root],
         closing \/ file[Root] # "none", registry' \subseteq registry,
         \A r \in Responses : resp[r].released => resp'[r].released,
         \A u \in Tasks : task'[u].at \in PlanAt <=> task[u].at \in PlanAt,
         \A u \in Tasks : task'[u].op = Root => task[u].op = Root,
         \A u \in Tasks : task'[u].at # "root",
         \A u \in Tasks : task'[u].at = "close-plans" => task[u].at = "close-plans",
         \A u \in Tasks : task'[u].at \in SweepAt =>
           /\ task[u].at \in SweepAt
           /\ \A r \in Responses : resp'[r].released \/ r \in task'[u].left \/ r = task'[u].on,
         \A u \in Tasks : task'[u].at = "close-runtime" => task'[u] = task[u],
         closed => \A u \in Tasks : task'[u].op = None
  PROVE  LifeInv'
<1>1. Planners' = Planners
  BY DEF Planners
<1>2. Swept => Swept'
  BY <1>1 DEF Swept
<1>3. \A u \in Tasks : task'[u].at = "close-runtime" => task[u].at = "close-runtime" /\ task'[u].left = task[u].left
  OBVIOUS
<1> QED BY <1>1, <1>2, <1>3 DEF LifeInv

\* A call that reads r begins, goes on or ends: t's record becomes k, and of the response only
\* the cursor and `reading` change.
Reads(t, r, k, b) ==
  /\ k \in TaskType /\ b \in BodyType /\ TaskShape(k)
  /\ resp[r].kind # "none"
  /\ Reader(t, r) \/ (task[t].at = "idle" /\ ~resp[r].reading /\ ~resp[r].closed)
  /\ b.kind = resp[r].kind /\ b.file = resp[r].file /\ b.closed = resp[r].closed
  /\ b.released = resp[r].released
  /\ b.kind \in {"bytes", "listing"} => b.cursor <= b.len
  /\ \/ k.at = "idle" /\ ~b.reading
     \/ /\ k.at \in ReadingAt /\ k.on = r /\ b.reading /\ b.kind = "file"
        /\ k.at \in WaitAt => k.op = resp[r].file /\ k.op # None /\ ~closing
        /\ k.at \in FetchAt => k.from = b.cursor

LEMMA ReadMove ==
  ASSUME EngineInv, NEW t \in Tasks, NEW r \in Responses, NEW k, NEW b, Reads(t, r, k, b),
         task' = [task EXCEPT ![t] = k], resp' = [resp EXCEPT ![r] = b],
         UNCHANGED <<closing, closed, planning, registry, file>>, owned' \in [body : Nat, dir : Nat]
  PROVE  EngineInv'
<1>1. /\ TypeOK /\ (\A u \in Tasks : TaskShape(task[u])) /\ ReaderInv /\ BodyInv /\ HolderInv /\ LifeInv
      /\ task \in [Tasks -> TaskType]
  BY DEF EngineInv, TypeOK, TaskType
<1>2. k \in TaskType /\ b \in BodyType /\ TaskShape(k)
  BY DEF Reads
<1>3. /\ task' \in [Tasks -> TaskType] /\ task'[t] = k
      /\ \A u \in Tasks : u # t => task'[u] = task[u]
  BY <1>1, <1>2, PutTask
<1>4. /\ resp' \in [Responses -> BodyType] /\ resp'[r] = b
      /\ \A s \in Responses : s # r => resp'[s] = resp[s]
  BY <1>1, <1>2, PutBody
<1>5. /\ task[t].at \in ReadingAt \cup {"idle"} /\ k.at \in ReadingAt \cup {"idle"}
      /\ \A a \in ReadingAt \cup {"idle"} : a \notin PlanAt \cup ShutAt \cup SweepAt \cup {"root", "close-plans"}
      /\ "idle" \notin ReadingAt \cup ShutAt \cup PlanAt \cup WaitAt
  BY DEF Reads, Reader, ReadingAt, PlanAt, ShutAt, SweepAt, WaitAt
<1>6. \A s \in Responses : s # r => ~Reader(t, s) /\ k.on # s
  <2>1. k.at = "idle" => k.on = None
    BY <1>2, <1>5 DEF TaskShape
  <2> QED BY <1>5, <2>1, EngineAssumption DEF Reads, Reader
<1>7. \A u \in Tasks : u # t => ~Reader(u, r)
  BY <1>1 DEF Reads, ReaderInv
<1>8. (\A u \in Tasks : TaskShape(task[u]))'
  BY <1>1, <1>2, <1>3
<1>9. ReaderInv'
  <2>1. \A u \in Tasks, s \in Responses : u # t => (Reader(u, s)' <=> Reader(u, s))
    BY <1>3 DEF Reader
  <2>2. \A s \in Responses : Reader(t, s)' => s = r /\ k.at \in ReadingAt
    BY <1>3, <1>6 DEF Reader
  <2>3. k.at \in ReadingAt => Reader(t, r)'
    BY <1>3, <1>5 DEF Reader, Reads
  <2>4. ASSUME NEW u \in Tasks, NEW s \in Responses, Reader(u, s)'
        PROVE  /\ resp'[s].reading /\ resp'[s].kind = "file"
               /\ task'[u].at \in WaitAt => task'[u].op = resp'[s].file /\ task'[u].op # None
               /\ task'[u].at \in FetchAt => task'[u].from = resp'[s].cursor
    <3>1. CASE u = t
      BY <1>3, <1>4, <1>5, <2>2, <2>4, <3>1 DEF Reads
    <3>2. CASE u # t
      BY <1>1, <1>3, <1>4, <1>7, <2>1, <2>4, <3>2 DEF ReaderInv
    <3> QED BY <3>1, <3>2
  <2>5. \A u, v \in Tasks, s \in Responses : Reader(u, s)' /\ Reader(v, s)' => u = v
    BY <1>1, <1>7, <2>1, <2>2 DEF ReaderInv
  <2>6. ASSUME NEW s \in Responses, resp'[s].reading PROVE \E u \in Tasks : Reader(u, s)'
    <3>1. CASE s = r
      BY <1>4, <2>3, <2>6, <3>1 DEF Reads
    <3>2. CASE s # r
      <4>1. PICK u \in Tasks : Reader(u, s)
        BY <1>1, <1>4, <2>6, <3>2 DEF ReaderInv
      <4>2. u # t
        BY <1>6, <3>2, <4>1
      <4> QED BY <2>1, <4>1, <4>2
    <3> QED BY <3>1, <3>2
  <2> QED BY <2>4, <2>5, <2>6 DEF ReaderInv
<1>10. /\ b.file = resp[r].file /\ b.kind = resp[r].kind /\ b.closed = resp[r].closed
       /\ b.released = resp[r].released
  BY DEF Reads
<1>11. \A s \in Responses : /\ resp'[s].file = resp[s].file /\ resp'[s].kind = resp[s].kind
                            /\ resp'[s].closed = resp[s].closed /\ resp'[s].released = resp[s].released
  BY <1>4, <1>10
<1>12. BodyInv'
  <2>1. ~resp[r].released
    BY <1>1 DEF Reads, ReaderInv, BodyInv
  <2>2. \A u \in Tasks : task'[u].at \in ShutAt => task'[u] = task[u] /\ task[u].on \in Responses
    <3>1. \A u \in Tasks : task[u].on \in Responses \cup {None}
      BY <1>1, TaskFields
    <3> QED BY <1>1, <1>3, <1>5, <3>1 DEF TaskShape
  <2>3. \A s \in Responses : s # r => resp'[s] = resp[s]
    BY <1>4
  <2>4. \A s \in Responses : resp'[s].kind \in {"bytes", "listing"} => resp'[s].cursor <= resp'[s].len
    BY <1>1, <1>4 DEF BodyInv, Reads
  <2> QED BY <1>1, <1>11, <2>1, <2>2, <2>3, <2>4 DEF BodyInv
<1>13. HolderInv'
  <2>1. \A u \in Tasks : Names(task'[u]) = Names(task[u])
    BY <1>1, <1>2, <1>3, <1>5, NoNames
  <2> QED BY <1>1, <1>11, <2>1 DEF HolderInv
<1>14. LifeInv'
  <2>1. closing \/ file[Root] # "none"
    BY Opened DEF Reads
  <2>2. k.op # None => k.at \in WaitAt /\ ~closing
    BY <1>2, <1>5 DEF TaskShape, Reads
  <2>3. k.op # Root
    BY <1>1, <2>2, <1>5, EngineAssumption DEF BodyInv, Reads
  <2>4. \A u \in Tasks : task[u].at # "root"
    BY <1>1, <2>1 DEF LifeInv
  <2>5. closed => closing /\ \A u \in Tasks : task[u].op = None
    BY <1>1 DEF LifeInv
  <2>6. \A u \in Tasks : task'[u].at \in PlanAt <=> task[u].at \in PlanAt
    BY <1>3, <1>5
  <2>7. \A u \in Tasks : task'[u].op = Root => task[u].op = Root
    BY <1>3, <2>3
  <2>8. \A u \in Tasks : task'[u].at # "root"
    BY <1>3, <1>5, <2>4
  <2>9. \A u \in Tasks : task'[u].at \in SweepAt \cup {"close-plans"} => task'[u] = task[u]
    BY <1>3, <1>5
  <2>10. closed => \A u \in Tasks : task'[u].op = None
    BY <1>3, <2>2, <2>5
  <2>11. \A u \in Tasks : task'[u].at \in SweepAt =>
           /\ task[u].at \in SweepAt
           /\ \A s \in Responses : resp'[s].released \/ s \in task'[u].left \/ s = task'[u].on
    BY <1>1, <1>11, <2>9 DEF LifeInv
  <2>12. \A u \in Tasks : /\ task'[u].at = "close-plans" => task[u].at = "close-plans"
                          /\ task'[u].at = "close-runtime" => task'[u] = task[u]
    BY <2>9 DEF SweepAt
  <2>13. /\ \A s \in Responses : resp[s].released => resp'[s].released
         /\ UNCHANGED <<closing, closed, planning>> /\ file'[Root] = file[Root] /\ registry' \subseteq registry
    BY <1>11
  <2> QED BY <1>1, <2>1, <2>6, <2>7, <2>8, <2>10, <2>11, <2>12, <2>13, LifeFrame
<1>15. TypeOK'
  BY <1>1, <1>3, <1>4 DEF TypeOK, TaskType, BodyType
<1> QED BY <1>8, <1>9, <1>12, <1>13, <1>14, <1>15 DEF EngineInv

LEMMA TurnIs ==
  ASSUME TypeOK, NEW r \in Responses, NEW n \in Nat, NEW busy \in BOOLEAN, Turn(r, n, busy)
  PROVE  \E b \in BodyType :
           /\ resp' = [resp EXCEPT ![r] = b] /\ b.cursor = resp[r].cursor + n /\ b.reading = busy
           /\ b.kind = resp[r].kind /\ b.file = resp[r].file /\ b.len = resp[r].len
           /\ b.closed = resp[r].closed /\ b.released = resp[r].released
           /\ b.charge = resp[r].charge /\ b.dir = resp[r].dir
<1> DEFINE b == [resp[r] EXCEPT !.cursor = @ + n, !.reading = busy]
<1>1. resp \in [Responses -> BodyType] /\ resp[r] \in BodyType
  BY DEF TypeOK, BodyType
<1>2. resp[r].cursor + n \in Nat
  BY <1>1 DEF BodyType
<1>3. b \in BodyType
  BY <1>1, <1>2 DEF BodyType
<1>4. /\ b.cursor = resp[r].cursor + n /\ b.reading = busy
      /\ b.kind = resp[r].kind /\ b.file = resp[r].file /\ b.len = resp[r].len
      /\ b.closed = resp[r].closed /\ b.released = resp[r].released
      /\ b.charge = resp[r].charge /\ b.dir = resp[r].dir
  BY <1>1 DEF BodyType
<1>5. resp' = [resp EXCEPT ![r] = b]
  BY <1>1 DEF Turn
<1> HIDE DEF b
<1> QED BY <1>3, <1>4, <1>5

\* The turn of a reading call ends with k as its record.
LEMMA ReadTurns ==
  ASSUME EngineInv, NEW t \in Tasks, NEW r \in Responses, NEW k \in TaskType, TaskShape(k),
         NEW n \in Nat, NEW busy \in BOOLEAN, Turn(r, n, busy), Go(t, k), Rest,
         owned' \in [body : Nat, dir : Nat], resp[r].kind # "none",
         Reader(t, r) \/ (task[t].at = "idle" /\ ~resp[r].reading /\ ~resp[r].closed),
         resp[r].kind \in {"bytes", "listing"} => resp[r].cursor + n <= resp[r].len,
         \/ k.at = "idle" /\ ~busy
         \/ /\ k.at \in ReadingAt /\ k.on = r /\ busy /\ resp[r].kind = "file"
            /\ k.at \in WaitAt => k.op = resp[r].file /\ k.op # None /\ ~closing
            /\ k.at \in FetchAt => k.from = resp[r].cursor + n
  PROVE  EngineInv'
<1>1. PICK b \in BodyType :
        /\ resp' = [resp EXCEPT ![r] = b] /\ b.cursor = resp[r].cursor + n /\ b.reading = busy
        /\ b.kind = resp[r].kind /\ b.file = resp[r].file /\ b.len = resp[r].len
        /\ b.closed = resp[r].closed /\ b.released = resp[r].released
        /\ b.charge = resp[r].charge /\ b.dir = resp[r].dir
  BY TurnIs DEF EngineInv
<1>2. Reads(t, r, k, b)
  BY <1>1 DEF Reads
<1>3. task' = [task EXCEPT ![t] = k] /\ UNCHANGED <<closing, closed, planning, registry, file>>
  BY DEF Go, Rest
<1> QED BY <1>1, <1>2, <1>3, ReadMove

\* The turn of a reading call that leaves the response as it is.
LEMMA ReadKeeps ==
  ASSUME EngineInv, NEW t \in Tasks, NEW r \in Responses, NEW k \in TaskType, TaskShape(k),
         Go(t, k), Rest, UNCHANGED <<resp, owned>>, Reader(t, r), k.at \in ReadingAt, k.on = r,
         k.at \in WaitAt => k.op = resp[r].file /\ k.op # None /\ ~closing,
         k.at \in FetchAt => k.from = resp[r].cursor
  PROVE  EngineInv'
<1>1. resp \in [Responses -> BodyType] /\ resp[r] \in BodyType /\ owned' \in [body : Nat, dir : Nat]
  BY DEF EngineInv, TypeOK, BodyType
<1>2. resp' = [resp EXCEPT ![r] = resp[r]]
  BY <1>1
<1>3. resp[r].reading /\ resp[r].kind = "file"
  BY DEF EngineInv, ReaderInv
<1>4. Reads(t, r, k, resp[r])
  BY <1>1, <1>3 DEF Reads
<1>5. task' = [task EXCEPT ![t] = k] /\ UNCHANGED <<closing, closed, planning, registry, file>>
  BY DEF Go, Rest
<1> QED BY <1>1, <1>2, <1>4, <1>5, ReadMove

\* The record of a call that waits for its operation on the response's file.
LEMMA WaitIs ==
  ASSUME EngineInv, NEW t \in Tasks, NEW r \in Responses, NEW where \in WaitAt,
         Reader(t, r) \/ task[t].at = "idle", Wait(t, r, where),
         task[t].held # 0 => where \in {"collect-check", "collect"}
  PROVE  \E k \in TaskType : /\ Go(t, k) /\ TaskShape(k) /\ k.at = where /\ k.op = resp[r].file
                             /\ k.on = r /\ k.from = resp[r].cursor /\ k.at \in ReadingAt
                             /\ k.held = task[t].held /\ k.charge = task[t].charge /\ k.job = task[t].job
<1> DEFINE k == [task[t] EXCEPT !.at = where, !.op = resp[r].file, !.on = r, !.from = resp[r].cursor]
<1>1. /\ task[t] \in TaskType /\ TaskShape(task[t]) /\ resp[r].file \in Files \cup {None}
      /\ resp[r].cursor \in Nat
  BY DEF EngineInv, TypeOK, TaskType
<1>2. where \in Stages /\ where \in ReadingAt /\ where \notin PlanAt /\ task[t].at \notin PlanAt
  BY Points DEF Stages, Reader, PlanAt
<1>3. k \in TaskType
  BY <1>1, <1>2 DEF TaskType
<1>4. /\ k.at = where /\ k.op = resp[r].file /\ k.on = r /\ k.from = resp[r].cursor
      /\ k.got = task[t].got /\ k.job = task[t].job /\ k.files = task[t].files /\ k.dir = task[t].dir
      /\ k.charge = task[t].charge /\ k.held = task[t].held
  BY <1>1 DEF TaskType
<1>5. Go(t, k)
  BY DEF Wait
<1> HIDE DEF k
<1>6. TaskShape(k)
  BY <1>1, <1>2, <1>4, EngineAssumption DEF TaskShape
<1> QED BY <1>2, <1>3, <1>4, <1>5, <1>6

\* A reading call fails: the response is closed, freed and released, and removed.
LEMMA ReadFails ==
  ASSUME EngineInv, NEW t \in Tasks, NEW r \in Responses, Fail(t, r), resp[r].kind # "none",
         Reader(t, r) \/ (task[t].at = "idle" /\ ~resp[r].reading)
  PROVE  EngineInv'
<1> DEFINE b == [resp[r] EXCEPT !.closed = TRUE, !.file = None, !.reading = FALSE, !.released = TRUE]
<1>1. /\ TypeOK /\ (\A u \in Tasks : TaskShape(task[u])) /\ ReaderInv /\ BodyInv /\ HolderInv /\ LifeInv
      /\ task \in [Tasks -> TaskType] /\ resp \in [Responses -> BodyType]
      /\ file \in [Files -> {"none", "open", "closing"}] /\ resp[r].file # Root
  BY DEF EngineInv, TypeOK, TaskType, BodyType, BodyInv
<1>2. /\ task' = [task EXCEPT ![t] = Idle] /\ resp' = [resp EXCEPT ![r] = b]
      /\ file' = [f \in Files |-> IF f \in {resp[r].file} THEN "none" ELSE file[f]]
      /\ registry' = registry \ {r} /\ UNCHANGED <<closing, closed, planning>>
      /\ owned' = Released(r, [owned EXCEPT !.body = Less(@, task[t].held)])
  BY <1>1 DEF Fail, Shut, Go, FreeFiles
<1>3. b \in BodyType
  BY <1>1 DEF BodyType
<1>4. b.closed /\ b.file = None /\ ~b.reading /\ b.released /\ b.kind = resp[r].kind
      /\ b.cursor = resp[r].cursor /\ b.len = resp[r].len
  BY <1>1 DEF BodyType
<1> HIDE DEF b
<1>5. /\ task' \in [Tasks -> TaskType] /\ task'[t] = Idle
      /\ \A u \in Tasks : u # t => task'[u] = task[u]
  BY <1>1, <1>2, IdleIs, PutTask
<1>6. /\ resp' \in [Responses -> BodyType] /\ resp'[r] = b
      /\ \A s \in Responses : s # r => resp'[s] = resp[s]
  BY <1>1, <1>2, <1>3, PutBody
<1>7. /\ file' \in [Files -> {"none", "open", "closing"}] /\ file'[Root] = file[Root]
      /\ \A f \in Files : file'[f] = IF f = resp[r].file THEN "none" ELSE file[f]
  BY <1>1, <1>2, EngineAssumption
<1>8. owned' \in [body : Nat, dir : Nat]
  <2> DEFINE o == [owned EXCEPT !.body = Less(@, task[t].held)]
  <2>1. owned \in [body : Nat, dir : Nat] /\ owned.body \in Nat /\ task[t].held \in Nat
        /\ resp[r].charge \in Nat /\ resp[r].dir \in Nat
    BY <1>1, TaskFields DEF TypeOK, BodyType
  <2>2. Less(owned.body, task[t].held) \in Nat
    BY <2>1, LessNat
  <2>3. o \in [body : Nat, dir : Nat] /\ o.body \in Nat /\ o.dir \in Nat
    BY <2>1, <2>2
  <2> HIDE DEF o
  <2>4. Less(o.body, resp[r].charge) \in Nat /\ Less(o.dir, resp[r].dir) \in Nat
    BY <2>1, <2>3, LessNat
  <2>5. Released(r, o) \in [body : Nat, dir : Nat]
    BY <2>3, <2>4 DEF Released
  <2> QED BY <1>2, <2>5 DEF o
<1>9. /\ task[t].at \in ReadingAt \cup {"idle"}
      /\ \A a \in ReadingAt \cup {"idle"} : a \notin PlanAt \cup ShutAt \cup SweepAt \cup {"root", "close-plans"}
      /\ "idle" \notin ReadingAt /\ "close-runtime" \in SweepAt
  BY DEF Reader, ReadingAt, PlanAt, ShutAt, SweepAt
<1>10. \A s \in Responses : s # r => ~Reader(t, s)
  BY <1>9 DEF Reader
<1>11. \A u \in Tasks : u # t => ~Reader(u, r)
  BY <1>1 DEF ReaderInv
<1>12. \A u \in Tasks, s \in Responses : Reader(u, s)' <=> Reader(u, s) /\ s # r /\ u # t
  BY <1>5, <1>9, <1>10, <1>11, IdleIs DEF Reader
<1>13. (\A u \in Tasks : TaskShape(task[u]))'
  BY <1>1, <1>5, IdleIs
<1>14. ReaderInv'
  BY <1>1, <1>4, <1>5, <1>6, <1>10, <1>12 DEF ReaderInv
<1>15. \A u \in Tasks : task'[u].at # "idle" => u # t /\ task'[u] = task[u]
  BY <1>5, IdleIs
<1>16. BodyInv'
  <2>1. \A u \in Tasks : task'[u].at \in ShutAt => task'[u] = task[u] /\ task[u].on \in Responses
    <3>1. \A u \in Tasks : task[u].on \in Responses \cup {None}
      BY <1>1, TaskFields
    <3> QED BY <1>1, <1>9, <1>15, <3>1 DEF TaskShape
  <2>2. ASSUME NEW u \in Tasks, task'[u].at \in ShutAt
        PROVE  /\ resp'[task'[u].on].closed
               /\ task'[u].at \in {"drain", "close-drain"} => resp'[task'[u].on].file = None
    BY <1>1, <1>4, <1>6, <2>1, <2>2 DEF BodyInv
  <2>3. \A s \in Responses : s # r => (s \in registry' <=> s \in registry)
    BY <1>2
  <2>4. None # Root
    BY EngineAssumption
  <2> QED BY <1>1, <1>4, <1>6, <2>2, <2>3, <2>4 DEF BodyInv
<1>17. HolderInv'
  <2>1. \A u \in Tasks : Names(task'[u]) = Names(task[u])
    BY <1>1, <1>5, <1>9, IdleIs, NoNames
  <2>2. ASSUME NEW f \in Files, f # Root
        PROVE  file'[f] # "none" <=> \/ \E u \in Tasks : f \in Names(task'[u])
                                     \/ \E s \in Responses : resp'[s].file = f
    <3>1. f # None
      BY EngineAssumption
    <3>2. CASE f = resp[r].file
      BY <1>1, <1>4, <1>6, <1>7, <2>1, <3>1, <3>2 DEF HolderInv
    <3>3. CASE f # resp[r].file
      BY <1>1, <1>4, <1>6, <1>7, <2>1, <2>2, <3>1, <3>3 DEF HolderInv
    <3> QED BY <3>2, <3>3
  <2>3. \A u \in Tasks : None \notin Names(task[u])
    BY DEF Names
  <2> QED BY <1>1, <1>4, <1>6, <2>1, <2>2, <2>3 DEF HolderInv
<1>18. LifeInv'
  <2>1. closing \/ file[Root] # "none"
    BY Opened
  <2>2. \A u \in Tasks : task[u].at # "root"
    BY <1>1, <2>1 DEF LifeInv
  <2>3. \A u \in Tasks : task'[u].at \in PlanAt <=> task[u].at \in PlanAt
    BY <1>5, <1>9, IdleIs
  <2>4. \A u \in Tasks : task'[u].op = Root => task[u].op = Root
    BY <1>5, IdleIs, EngineAssumption
  <2>5. \A u \in Tasks : task'[u].at # "root"
    BY <1>5, <2>2, IdleIs
  <2>6. \A u \in Tasks : task'[u].at \in SweepAt \cup {"close-plans"} => task'[u] = task[u]
    BY <1>9, <1>15
  <2>7. closed => \A u \in Tasks : task'[u].op = None
    BY <1>1, <1>5, IdleIs DEF LifeInv
  <2>8. \A s \in Responses : resp[s].released => resp'[s].released
    BY <1>4, <1>6
  <2>9. \A u \in Tasks : task'[u].at \in SweepAt =>
           /\ task[u].at \in SweepAt
           /\ \A s \in Responses : resp'[s].released \/ s \in task'[u].left \/ s = task'[u].on
    BY <1>1, <2>6, <2>8 DEF LifeInv
  <2>10. \A u \in Tasks : /\ task'[u].at = "close-plans" => task[u].at = "close-plans"
                          /\ task'[u].at = "close-runtime" => task'[u] = task[u]
    BY <1>9, <2>6
  <2>11. /\ UNCHANGED <<closing, closed, planning>> /\ file'[Root] = file[Root] /\ registry' \subseteq registry
    BY <1>2, <1>7
  <2> QED BY <1>1, <2>1, <2>3, <2>4, <2>5, <2>7, <2>8, <2>9, <2>10, <2>11, LifeFrame
<1>19. TypeOK'
  <2>1. registry' \subseteq Responses
    BY <1>1, <1>2 DEF TypeOK
  <2> QED BY <1>1, <1>2, <1>5, <1>6, <1>7, <1>8, <2>1 DEF TypeOK, TaskType, BodyType
<1> QED BY <1>13, <1>14, <1>16, <1>17, <1>18, <1>19 DEF EngineInv

\* A call at a reading point reads a response that has been made.
LEMMA ReaderIs ==
  ASSUME EngineInv, NEW t \in Tasks, task[t].at \in ReadingAt
  PROVE  /\ task[t].on \in Responses /\ Reader(t, task[t].on)
         /\ resp[task[t].on].reading /\ resp[task[t].on].kind = "file"
         /\ task[t].at \in WaitAt => task[t].op = resp[task[t].on].file /\ task[t].op # None
         /\ task[t].at \in FetchAt => task[t].from = resp[task[t].on].cursor
<1>1. TaskShape(task[t]) /\ task[t] \in TaskType
  BY DEF EngineInv, TypeOK, TaskType
<1>2. task[t].on \in Responses
  BY <1>1, TaskFields DEF TaskShape
<1>3. Reader(t, task[t].on)
  BY DEF Reader
<1> QED BY <1>2, <1>3 DEF EngineInv, ReaderInv

LEMMA StepBegin ==
  ASSUME EngineInv, NEW t \in Tasks, NEW r \in Responses,
         NEW where \in {"check", "read-check", "collect-check", "send"}, Begin(t, r, where)
  PROVE  EngineInv'
<1>1. /\ task[t].at = "idle" /\ ~resp[r].closed /\ ~closing /\ ~resp[r].reading /\ resp[r].kind = "file"
      /\ (Turn(r, 0, TRUE) /\ Wait(t, r, where) /\ Rest /\ UNCHANGED owned) \/ Fail(t, r)
  BY DEF Begin, Usable
<1>2. CASE Turn(r, 0, TRUE) /\ Wait(t, r, where) /\ Rest /\ UNCHANGED owned
  <2>1. task[t].held = 0
    BY <1>1 DEF EngineInv, TaskShape
  <2>2. where \in WaitAt
    BY DEF WaitAt
  <2>3. PICK k \in TaskType : /\ Go(t, k) /\ TaskShape(k) /\ k.at = where /\ k.op = resp[r].file
                              /\ k.on = r /\ k.from = resp[r].cursor /\ k.at \in ReadingAt
    BY <1>1, <1>2, <2>1, <2>2, WaitIs
  <2>4. resp[r].file # None /\ owned' \in [body : Nat, dir : Nat]
        /\ resp[r].cursor \in Nat
    BY <1>1, <1>2 DEF EngineInv, BodyInv, TypeOK
  <2>5. k.from = resp[r].cursor + 0
    BY <2>3, <2>4
  <2>6. 0 \in Nat /\ TRUE \in BOOLEAN
    OBVIOUS
  <2> QED BY <1>1, <1>2, <2>3, <2>4, <2>5, <2>6, ReadTurns
<1>3. CASE Fail(t, r)
  BY <1>1, <1>3, ReadFails
<1> QED BY <1>1, <1>2, <1>3

\* The calls on a body in memory, which are over in one turn.
LEMMA StepMemory ==
  ASSUME EngineInv, NEW t \in Tasks, NEW r \in Responses, read_memory(t, r) \/ to_bytes_memory(t, r)
  PROVE  EngineInv'
<1>1. /\ task[t].at = "idle" /\ ~resp[r].closed /\ ~closing /\ ~resp[r].reading
      /\ resp[r].kind \in {"bytes", "listing"}
  BY DEF read_memory, to_bytes_memory, Usable
<1>2. resp[r].cursor \in Nat /\ resp[r].len \in Nat /\ resp[r].cursor <= resp[r].len
      /\ owned \in [body : Nat, dir : Nat] /\ task \in [Tasks -> TaskType] /\ TaskShape(task[t])
  BY <1>1 DEF EngineInv, TypeOK, BodyInv, TaskType
<1>3. ASSUME NEW n \in Nat, n <= resp[r].len - resp[r].cursor,
             Turn(r, n, FALSE), Rest, UNCHANGED <<owned, task>>
      PROVE  EngineInv'
  <2>1. Go(t, task[t]) /\ task[t] \in TaskType /\ resp[r].cursor + n <= resp[r].len
        /\ owned' \in [body : Nat, dir : Nat] /\ FALSE \in BOOLEAN
    BY <1>2, <1>3 DEF Go
  <2> DEFINE k == task[t]
  <2>2. Go(t, k) /\ k \in TaskType /\ TaskShape(k) /\ k.at = "idle"
    BY <1>1, <1>2, <2>1
  <2> HIDE DEF k
  <2> QED BY <1>1, <1>3, <2>1, <2>2, ReadTurns
<1>4. CASE Fail(t, r)
  BY <1>1, <1>4, ReadFails
<1>5. CASE read_memory(t, r)
  <2>1. Chunk(r) \in Nat /\ Chunk(r) <= resp[r].len - resp[r].cursor
    BY <1>2 DEF Chunk
  <2> QED BY <1>3, <1>5, <2>1 DEF read_memory
<1>6. CASE to_bytes_memory(t, r)
  <2> DEFINE n == resp[r].len - resp[r].cursor
  <2>1. n \in Nat /\ n <= resp[r].len - resp[r].cursor
    BY <1>2
  <2>2. (Turn(r, n, FALSE) /\ Rest /\ UNCHANGED <<owned, task>>) \/ Fail(t, r)
    BY <1>6 DEF to_bytes_memory
  <2> HIDE DEF n
  <2> QED BY <1>3, <1>4, <2>1, <2>2
<1> QED BY <1>5, <1>6

LEMMA StepReadChecked ==
  ASSUME EngineInv, NEW t \in Tasks, read_checked(t)
  PROVE  EngineInv'
<1> DEFINE r == task[t].on
           next == IF task[t].at = "read-check" THEN "read" ELSE "collect"
<1>1. /\ task[t].at \in {"read-check", "collect-check"}
      /\ (~closing /\ Wait(t, r, next) /\ Rest /\ UNCHANGED <<resp, owned>>) \/ Fail(t, r)
  BY DEF read_checked
<1>2. task[t].at \in ReadingAt /\ task[t].at \in WaitAt
  BY <1>1 DEF ReadingAt, WaitAt
<1>3. /\ r \in Responses /\ Reader(t, r) /\ resp[r].kind = "file"
      /\ task[t].op = resp[r].file /\ task[t].op # None
  BY <1>2, ReaderIs
<1>4. next \in WaitAt /\ (task[t].held # 0 => next \in {"collect-check", "collect"})
  BY <1>1 DEF WaitAt, EngineInv, TaskShape
<1> HIDE DEF r, next
<1>5. CASE ~closing /\ Wait(t, r, next) /\ Rest /\ UNCHANGED <<resp, owned>>
  <2>1. PICK k \in TaskType : /\ Go(t, k) /\ TaskShape(k) /\ k.at = next /\ k.op = resp[r].file
                              /\ k.on = r /\ k.from = resp[r].cursor /\ k.at \in ReadingAt
    BY <1>3, <1>4, <1>5, WaitIs
  <2> QED BY <1>3, <1>5, <2>1, ReadKeeps
<1>6. CASE Fail(t, r)
  BY <1>3, <1>6, ReadFails
<1> QED BY <1>1, <1>5, <1>6

\* A reading call ends well.
LEMMA ReadEnds ==
  ASSUME EngineInv, NEW t \in Tasks, task[t].at \in ReadingAt, NEW n \in Nat,
         Turn(task[t].on, n, FALSE), Go(t, Idle), Rest, owned' \in [body : Nat, dir : Nat]
  PROVE  EngineInv'
<1> DEFINE r == task[t].on
<1>1. r \in Responses /\ Reader(t, r) /\ resp[r].kind = "file"
  BY ReaderIs
<1>2. Turn(r, n, FALSE) /\ FALSE \in BOOLEAN
  OBVIOUS
<1> HIDE DEF r
<1> QED BY <1>1, <1>2, IdleIs, ReadTurns

LEMMA StepReadResumes ==
  ASSUME EngineInv, NEW t \in Tasks, read_resumes(t) \/ check_resumes(t)
  PROVE  EngineInv'
<1>1. task[t].at \in ReadingAt /\ owned \in [body : Nat, dir : Nat] /\ 0 \in Nat /\ Chunk(task[t].on) \in Nat
  BY DEF read_resumes, check_resumes, ReadingAt, EngineInv, TypeOK, Chunk
<1>2. task[t].on \in Responses /\ Reader(t, task[t].on) /\ resp[task[t].on].kind # "none"
  BY <1>1, ReaderIs
<1>3. CASE Fail(t, task[t].on)
  BY <1>2, <1>3, ReadFails
<1>4. CASE Turn(task[t].on, 0, FALSE) /\ Go(t, Idle) /\ Rest /\ UNCHANGED owned
  BY <1>1, <1>4, ReadEnds
<1>5. CASE Turn(task[t].on, Chunk(task[t].on), FALSE) /\ Go(t, Idle) /\ Rest /\ UNCHANGED owned
  BY <1>1, <1>5, ReadEnds
<1> QED BY <1>3, <1>4, <1>5 DEF read_resumes, check_resumes

LEMMA StepCollect ==
  ASSUME EngineInv, NEW t \in Tasks, collect_resumes(t)
  PROVE  EngineInv'
<1> DEFINE r == task[t].on
           n == Copies * Chunk(r)
           k == [task[t] EXCEPT !.at = "collect-check", !.held = @ + n]
<1>1. /\ task[t].at = "collect"
      /\ \/ /\ StillOpen(r) /\ n > 0 /\ owned' = [owned EXCEPT !.body = @ + n]
            /\ Turn(r, 1, TRUE) /\ Rest /\ Go(t, k)
         \/ /\ owned' = [owned EXCEPT !.body = Less(@, task[t].held)]
            /\ Turn(r, 0, FALSE) /\ Go(t, Idle) /\ Rest
         \/ Fail(t, r)
  BY DEF collect_resumes
<1>2. task[t].at \in ReadingAt /\ task[t].at \in WaitAt /\ task[t] \in TaskType /\ TaskShape(task[t])
      /\ owned \in [body : Nat, dir : Nat] /\ owned.body \in Nat /\ task[t].held \in Nat
      /\ n \in Nat
  BY <1>1 DEF ReadingAt, WaitAt, EngineInv, TypeOK, TaskType, Copies, Chunk
<1>3. /\ r \in Responses /\ Reader(t, r) /\ resp[r].kind = "file"
      /\ task[t].op = resp[r].file /\ task[t].op # None
  BY <1>2, ReaderIs
<1> HIDE DEF n
<1>4. CASE /\ StillOpen(r) /\ owned' = [owned EXCEPT !.body = @ + n]
           /\ Turn(r, 1, TRUE) /\ Rest /\ Go(t, k)
  <2>1. task[t].held + n \in Nat /\ owned.body + n \in Nat /\ "collect-check" \in Stages
    BY <1>2 DEF Stages, ReadingAt
  <2>2. k \in TaskType
    BY <1>2, <2>1 DEF TaskType
  <2>3. /\ k.at = "collect-check" /\ k.op = task[t].op /\ k.on = r
        /\ k.got = task[t].got /\ k.job = task[t].job /\ k.files = task[t].files /\ k.dir = task[t].dir
        /\ k.charge = task[t].charge
    BY <1>2 DEF TaskType
  <2>4. Go(t, k)
    BY <1>4
  <2> HIDE DEF k, r
  <2>5. TaskShape(k) /\ k.at \in ReadingAt /\ k.at \notin FetchAt
    BY <1>1, <1>2, <1>3, <2>3, EngineAssumption DEF TaskShape, PlanAt, WaitAt, ReadingAt, FetchAt
  <2>6. owned' \in [body : Nat, dir : Nat] /\ 1 \in Nat /\ TRUE \in BOOLEAN /\ ~closing
    BY <1>2, <1>4, <2>1 DEF StillOpen
  <2> QED BY <1>3, <1>4, <2>2, <2>3, <2>4, <2>5, <2>6, ReadTurns
<1>5. CASE /\ owned' = [owned EXCEPT !.body = Less(@, task[t].held)]
           /\ Turn(r, 0, FALSE) /\ Go(t, Idle) /\ Rest
  <2>1. Less(owned.body, task[t].held) \in Nat
    BY <1>2, LessNat
  <2>2. owned' \in [body : Nat, dir : Nat] /\ 0 \in Nat
    BY <1>2, <1>5, <2>1
  <2> QED BY <1>2, <1>5, <2>2, ReadEnds
<1>6. CASE Fail(t, r)
  BY <1>3, <1>6, ReadFails
<1> QED BY <1>1, <1>4, <1>5, <1>6

\* The record of a call that pauses or writes, and the step to it.
LEMMA ReadPauses ==
  ASSUME EngineInv, NEW t \in Tasks, task[t].at \in {"send", "send-read", "write"},
         NEW where \in {"pause", "pause-read", "write"}, where = "write" => task[t].at = "send-read",
         Go(t, [task[t] EXCEPT !.at = where, !.op = None]), Rest, UNCHANGED owned,
         UNCHANGED resp \/ (where # "write" /\ \E n \in Nat : Turn(task[t].on, n, TRUE))
  PROVE  EngineInv'
<1> DEFINE r == task[t].on
           k == [task[t] EXCEPT !.at = where, !.op = None]
<1>1. /\ task[t].at \in ReadingAt /\ task[t] \in TaskType /\ TaskShape(task[t])
      /\ owned' \in [body : Nat, dir : Nat] /\ where \in Stages
      /\ (where = "write" => task[t].at \in FetchAt)
  BY DEF ReadingAt, FetchAt, EngineInv, TypeOK, TaskType, Stages
<1>2. /\ r \in Responses /\ Reader(t, r) /\ resp[r].kind = "file"
      /\ task[t].at \in FetchAt => task[t].from = resp[r].cursor
  BY <1>1, ReaderIs
<1>3. k \in TaskType
  BY <1>1 DEF TaskType
<1>4. /\ k.at = where /\ k.op = None /\ k.on = r /\ k.from = task[t].from
      /\ k.got = task[t].got /\ k.job = task[t].job /\ k.files = task[t].files /\ k.dir = task[t].dir
      /\ k.charge = task[t].charge /\ k.held = task[t].held
  BY <1>1 DEF TaskType
<1>5. Go(t, k)
  OBVIOUS
<1> HIDE DEF k, r
<1>6. TaskShape(k) /\ k.at \in ReadingAt /\ k.at \notin WaitAt /\ (k.at \in FetchAt => where = "write")
  BY <1>1, <1>2, <1>4, EngineAssumption DEF TaskShape, PlanAt, WaitAt, ReadingAt, FetchAt
<1>7. CASE UNCHANGED resp
  BY <1>1, <1>2, <1>3, <1>4, <1>5, <1>6, <1>7, ReadKeeps
<1>8. CASE where # "write" /\ \E n \in Nat : Turn(task[t].on, n, TRUE)
  <2>1. PICK n \in Nat : Turn(r, n, TRUE)
    BY <1>8 DEF r
  <2>2. TRUE \in BOOLEAN /\ k.at \notin FetchAt
    BY <1>6, <1>8
  <2> QED BY <1>1, <1>2, <1>3, <1>4, <1>5, <1>6, <2>1, <2>2, ReadTurns
<1> QED BY <1>7, <1>8

LEMMA StepSend ==
  ASSUME EngineInv, NEW t \in Tasks, send_resumes(t) \/ write_ends(t)
  PROVE  EngineInv'
<1> DEFINE r == task[t].on
<1>1. \/ /\ task[t].at = "send"
         /\ \/ (\E n \in 0..1 : Turn(r, n, TRUE)) /\ Pause(t, "pause")
            \/ Turn(r, 0, TRUE) /\ Pause(t, "pause-read")
         /\ Rest /\ UNCHANGED owned
      \/ task[t].at = "send-read" /\ Pause(t, "write") /\ Rest /\ UNCHANGED <<resp, owned>>
      \/ task[t].at = "write" /\ Turn(r, 1, TRUE) /\ Pause(t, "pause-read") /\ Rest /\ UNCHANGED owned
      \/ task[t].at \in {"send", "send-read", "write"} /\ Fail(t, r)
  BY DEF send_resumes, write_ends
<1>2. task[t].at \in {"send", "send-read", "write"} /\ task[t].at \in ReadingAt
  BY <1>1 DEF ReadingAt
<1>3. r \in Responses /\ Reader(t, r) /\ resp[r].kind # "none"
  BY <1>2, ReaderIs
<1>4. 0..1 \subseteq Nat /\ 0 \in Nat /\ 1 \in Nat
  OBVIOUS
<1>5. CASE Fail(t, r)
  BY <1>3, <1>5, ReadFails
<1>6. CASE /\ task[t].at = "send"
           /\ \/ (\E n \in 0..1 : Turn(r, n, TRUE)) /\ Pause(t, "pause")
              \/ Turn(r, 0, TRUE) /\ Pause(t, "pause-read")
           /\ Rest /\ UNCHANGED owned
  BY <1>2, <1>4, <1>6, ReadPauses DEF Pause
<1>7. CASE task[t].at = "send-read" /\ Pause(t, "write") /\ Rest /\ UNCHANGED <<resp, owned>>
  BY <1>2, <1>7, ReadPauses DEF Pause
<1>8. CASE task[t].at = "write" /\ Turn(r, 1, TRUE) /\ Pause(t, "pause-read") /\ Rest /\ UNCHANGED owned
  BY <1>2, <1>4, <1>8, ReadPauses DEF Pause
<1> QED BY <1>1, <1>5, <1>6, <1>7, <1>8

LEMMA StepSendLoops ==
  ASSUME EngineInv, NEW t \in Tasks, send_loops(t)
  PROVE  EngineInv'
<1> DEFINE r == task[t].on
           next == IF task[t].at = "pause" THEN "send" ELSE "send-read"
           where == IF Chunk(r) = 1 THEN next ELSE "check"
<1>1. /\ task[t].at \in {"pause", "pause-read"}
      /\ (StillOpen(r) /\ Wait(t, r, where) /\ Rest /\ UNCHANGED <<resp, owned>>) \/ Fail(t, r)
  BY DEF send_loops
<1>2. task[t].at \in ReadingAt /\ where \in WaitAt /\ task[t].held = 0
  BY <1>1 DEF ReadingAt, WaitAt, EngineInv, TaskShape
<1>3. r \in Responses /\ Reader(t, r) /\ resp[r].kind = "file"
  BY <1>2, ReaderIs
<1> HIDE DEF r, where
<1>4. CASE StillOpen(r) /\ Wait(t, r, where) /\ Rest /\ UNCHANGED <<resp, owned>>
  <2>1. PICK k \in TaskType : /\ Go(t, k) /\ TaskShape(k) /\ k.at = where /\ k.op = resp[r].file
                              /\ k.on = r /\ k.from = resp[r].cursor /\ k.at \in ReadingAt
    BY <1>2, <1>3, <1>4, WaitIs
  <2>2. resp[r].file # None /\ ~closing
    BY <1>3, <1>4 DEF StillOpen, EngineInv, BodyInv
  <2> QED BY <1>3, <1>4, <2>1, <2>2, ReadKeeps
<1>5. CASE Fail(t, r)
  BY <1>3, <1>5, ReadFails
<1> QED BY <1>1, <1>4, <1>5

-----------------------------------------------------------------------------
(* Closing                                                                  *)

\* A task forbids further use of r, before it waits for what is still in its way.
LEMMA Forbids ==
  ASSUME EngineInv, NEW t \in Tasks, NEW r \in Responses, NEW k \in TaskType, TaskShape(k),
         Forbid(r), Go(t, k), UNCHANGED <<closing, closed, planning, registry, owned>>,
         \/ task[t].at = "idle" /\ resp[r].kind # "none" /\ k.at = "shut"
         \/ /\ task[t].at = "close-next" /\ k.at = "close-shut" /\ r \in task[t].left
            /\ k.left = task[t].left \ {r},
         k.on = r, k.op = None
  PROVE  EngineInv'
<1> DEFINE b == [resp[r] EXCEPT !.closed = TRUE]
<1>1. /\ TypeOK /\ (\A u \in Tasks : TaskShape(task[u])) /\ ReaderInv /\ BodyInv /\ HolderInv /\ LifeInv
      /\ task \in [Tasks -> TaskType] /\ resp \in [Responses -> BodyType]
      /\ file \in [Files -> {"none", "open", "closing"}] /\ resp[r].file # Root
  BY DEF EngineInv, TypeOK, TaskType, BodyType, BodyInv
<1>2. /\ task' = [task EXCEPT ![t] = k] /\ resp' = [resp EXCEPT ![r] = b]
      /\ file' = [f \in Files |-> IF f = resp[r].file THEN "closing" ELSE file[f]]
  BY <1>1 DEF Forbid, Go
<1>3. b \in BodyType
  <2>1. resp[r] \in BodyType /\ TRUE \in BOOLEAN
    BY <1>1
  <2> QED BY <2>1 DEF BodyType
<1>4. /\ b.closed /\ b.file = resp[r].file /\ b.reading = resp[r].reading /\ b.released = resp[r].released
      /\ b.kind = resp[r].kind /\ b.cursor = resp[r].cursor /\ b.len = resp[r].len
  BY <1>1 DEF BodyType
<1> HIDE DEF b
<1>5. /\ task' \in [Tasks -> TaskType] /\ task'[t] = k
      /\ \A u \in Tasks : u # t => task'[u] = task[u]
  BY <1>1, <1>2, PutTask
<1>6. /\ resp' \in [Responses -> BodyType] /\ resp'[r] = b
      /\ \A s \in Responses : s # r => resp'[s] = resp[s]
  BY <1>1, <1>2, <1>3, PutBody
<1>7. /\ file' \in [Files -> {"none", "open", "closing"}] /\ file'[Root] = file[Root]
      /\ \A f \in Files : file'[f] = IF f = resp[r].file THEN "closing" ELSE file[f]
  BY <1>1, <1>2, EngineAssumption
<1>8. \A s \in Responses : /\ resp'[s].file = resp[s].file /\ resp'[s].reading = resp[s].reading
                           /\ resp'[s].released = resp[s].released /\ resp'[s].kind = resp[s].kind
                           /\ resp'[s].cursor = resp[s].cursor /\ resp'[s].len = resp[s].len
                           /\ (resp[s].closed => resp'[s].closed)
  BY <1>4, <1>6
<1>9. /\ task[t].at \notin ReadingAt \cup PlanAt /\ k.at \notin ReadingAt \cup PlanAt \cup {"root", "close-plans", "close-runtime"}
      /\ "close-next" \in SweepAt /\ "shut" \notin SweepAt /\ "idle" \notin ShutAt /\ "close-next" \notin ShutAt
      /\ k.at \notin {"drain", "close-drain"}
  BY DEF ReadingAt, PlanAt, SweepAt, ShutAt
<1>10. (\A u \in Tasks : TaskShape(task[u]))'
  BY <1>1, <1>5
<1>11. ReaderInv'
  <2>1. \A u \in Tasks, s \in Responses : Reader(u, s)' <=> Reader(u, s)
    BY <1>5, <1>9 DEF Reader
  <2>2. \A u \in Tasks, s \in Responses : Reader(u, s) => u # t
    BY <1>9 DEF Reader
  <2> QED BY <1>1, <1>5, <1>8, <2>1, <2>2 DEF ReaderInv
<1>12. BodyInv'
  <2>1. ASSUME NEW u \in Tasks, task'[u].at \in ShutAt
        PROVE  /\ resp'[task'[u].on].closed
               /\ task'[u].at \in {"drain", "close-drain"} => resp'[task'[u].on].file = None
    <3>1. CASE u = t
      BY <1>4, <1>5, <1>6, <1>9, <3>1
    <3>2. CASE u # t
      <4>1. task'[u] = task[u] /\ task[u] \in TaskType
        BY <1>1, <1>5, <3>2
      <4>2. task[u].on \in Responses
        BY <1>1, <2>1, <4>1, TaskFields DEF TaskShape
      <4> QED BY <1>1, <1>8, <2>1, <4>1, <4>2 DEF BodyInv
    <3> QED BY <3>1, <3>2
  <2> QED BY <1>1, <1>8, <2>1 DEF BodyInv
<1>13. HolderInv'
  <2>1. \A u \in Tasks : Names(task'[u]) = Names(task[u])
    BY <1>1, <1>5, <1>9, NoNames
  <2>2. ASSUME NEW f \in Files, f # Root
        PROVE  file'[f] # "none" <=> file[f] # "none"
    <3>1. CASE f = resp[r].file
      BY <1>1, <1>7, <2>2, <3>1 DEF HolderInv
    <3>2. CASE f # resp[r].file
      BY <1>7, <3>2
    <3> QED BY <3>1, <3>2
  <2> QED BY <1>1, <1>8, <2>1, <2>2 DEF HolderInv
<1>14. LifeInv'
  <2>1. closing \/ file[Root] # "none"
    BY Opened
  <2>2. \A u \in Tasks : task[u].at # "root"
    BY <1>1, <2>1 DEF LifeInv
  <2>3. \A u \in Tasks : task'[u].at \in PlanAt <=> task[u].at \in PlanAt
    BY <1>5, <1>9
  <2>4. \A u \in Tasks : task'[u].op = Root => task[u].op = Root
    BY <1>5, EngineAssumption
  <2>5. \A u \in Tasks : task'[u].at # "root"
    BY <1>5, <1>9, <2>2
  <2>6. closed => \A u \in Tasks : task'[u].op = None
    BY <1>1, <1>5 DEF LifeInv
  <2>7. ASSUME NEW u \in Tasks, task'[u].at \in SweepAt
        PROVE  /\ task[u].at \in SweepAt
               /\ \A s \in Responses : resp'[s].released \/ s \in task'[u].left \/ s = task'[u].on
    <3>1. CASE u # t
      BY <1>1, <1>5, <1>8, <2>7, <3>1 DEF LifeInv
    <3>2. CASE u = t
      <4>1. task[t].at = "close-next" /\ k.left = task[t].left \ {r} /\ task[t].at \in SweepAt
        BY <1>5, <1>9, <2>7, <3>2
      <4>2. task[t].on = None
        BY <1>1, <1>9, <4>1 DEF TaskShape
      <4>3. \A s \in Responses : resp[s].released \/ s \in task[t].left
        BY <1>1, <4>1, <4>2, EngineAssumption DEF LifeInv
      <4> QED BY <1>5, <1>8, <3>2, <4>1, <4>3
    <3> QED BY <3>1, <3>2
  <2>8. \A u \in Tasks : /\ task'[u].at = "close-plans" => task[u].at = "close-plans"
                         /\ task'[u].at = "close-runtime" => task'[u] = task[u]
    BY <1>5, <1>9
  <2>9. /\ UNCHANGED <<closing, closed, planning>> /\ file'[Root] = file[Root] /\ registry' \subseteq registry
        /\ \A s \in Responses : resp[s].released => resp'[s].released
    BY <1>7, <1>8
  <2> QED BY <1>1, <2>1, <2>3, <2>4, <2>5, <2>6, <2>7, <2>8, <2>9, LifeFrame
<1>15. TypeOK'
  BY <1>1, <1>5, <1>6, <1>7 DEF TypeOK, TaskType, BodyType
<1> QED BY <1>10, <1>11, <1>12, <1>13, <1>14, <1>15 DEF EngineInv

LEMMA StepResponseClose ==
  ASSUME EngineInv, NEW t \in Tasks, NEW r \in Responses, Response_close(t, r)
  PROVE  EngineInv'
<1> DEFINE k == [Idle EXCEPT !.at = "shut", !.on = r]
<1>1. /\ task[t].at = "idle" /\ resp[r].kind # "none" /\ Forbid(r) /\ Go(t, k)
      /\ UNCHANGED <<closing, closed, planning, registry, owned>>
  BY DEF Response_close
<1>2. "shut" \in Stages /\ Idle \in TaskType
  BY IdleIs DEF Stages, ClosingAt
<1>3. k \in TaskType
  BY <1>2 DEF TaskType
<1>4. /\ k.at = "shut" /\ k.on = r /\ k.op = None /\ k.got = None /\ k.job = 0 /\ k.files = {} /\ k.dir = None
      /\ k.charge = 0 /\ k.held = 0
  BY DEF Idle
<1> HIDE DEF k
<1>5. TaskShape(k)
  BY <1>4, EngineAssumption DEF TaskShape, PlanAt, WaitAt, ReadingAt, ShutAt
<1> QED BY <1>1, <1>3, <1>4, <1>5, Forbids

LEMMA StepCloseNext ==
  ASSUME EngineInv, NEW t \in Tasks, close_next(t)
  PROVE  EngineInv'
<1>1. PICK r \in task[t].left :
        Forbid(r) /\ Go(t, [task[t] EXCEPT !.at = "close-shut", !.on = r, !.left = @ \ {r}])
  BY DEF close_next
<1> DEFINE k == [task[t] EXCEPT !.at = "close-shut", !.on = r, !.left = @ \ {r}]
<1>2. /\ task[t].at = "close-next" /\ Go(t, k)
      /\ UNCHANGED <<closing, closed, planning, registry, owned>>
  BY <1>1 DEF close_next
<1>3. /\ task[t] \in TaskType /\ TaskShape(task[t]) /\ "close-shut" \in Stages
  BY DEF EngineInv, TypeOK, TaskType, Stages, ClosingAt
<1>4. r \in Responses /\ task[t].left \ {r} \in SUBSET Responses
  BY <1>3, TaskFields
<1>5. k \in TaskType
  BY <1>3, <1>4 DEF TaskType
<1>6. /\ k.at = "close-shut" /\ k.on = r /\ k.op = task[t].op /\ k.left = task[t].left \ {r}
      /\ k.got = task[t].got /\ k.job = task[t].job /\ k.files = task[t].files /\ k.dir = task[t].dir
      /\ k.charge = task[t].charge /\ k.held = task[t].held
  BY <1>3 DEF TaskType
<1> HIDE DEF k
<1>7. TaskShape(k) /\ k.op = None
  BY <1>2, <1>3, <1>4, <1>6, EngineAssumption DEF TaskShape, PlanAt, WaitAt, ReadingAt, ShutAt
<1> QED BY <1>1, <1>2, <1>4, <1>5, <1>6, <1>7, Forbids

\* The response's file is free of operations and is freed, or was already.
LEMMA StepShutFrees ==
  ASSUME EngineInv, NEW t \in Tasks, shut_frees(t)
  PROVE  EngineInv'
<1> DEFINE r == task[t].on
           b == [resp[r] EXCEPT !.file = None]
           k == [task[t] EXCEPT !.at = IF @ = "shut" THEN "drain" ELSE "close-drain"]
<1>1. /\ task[t].at \in {"shut", "close-shut"} /\ (resp[r].file = None \/ OpsOn(resp[r].file) = {})
      /\ Go(t, k) /\ UNCHANGED <<closing, closed, planning, registry, owned>>
      /\ FreeFiles({resp[r].file}) /\ resp' = [resp EXCEPT ![r].file = None]
  BY DEF shut_frees
<1>2. /\ TypeOK /\ (\A u \in Tasks : TaskShape(task[u])) /\ ReaderInv /\ BodyInv /\ HolderInv /\ LifeInv
      /\ task \in [Tasks -> TaskType] /\ resp \in [Responses -> BodyType]
      /\ file \in [Files -> {"none", "open", "closing"}]
  BY DEF EngineInv, TypeOK, TaskType, BodyType, BodyInv
<1>3. r \in Responses /\ resp[r].closed /\ resp[r].file # Root
  <2>1. task[t].at \in ShutAt
    BY <1>1 DEF ShutAt
  <2>2. r \in Responses
    BY <1>2, <2>1, TaskFields DEF TaskShape
  <2> QED BY <1>2, <2>1, <2>2 DEF BodyInv
<1>4. k \in TaskType
  BY <1>2 DEF TaskType, Stages, ClosingAt
<1>5. /\ k.at = IF task[t].at = "shut" THEN "drain" ELSE "close-drain"
      /\ k.on = r /\ k.op = task[t].op /\ k.left = task[t].left
      /\ k.got = task[t].got /\ k.job = task[t].job /\ k.files = task[t].files /\ k.dir = task[t].dir
      /\ k.charge = task[t].charge /\ k.held = task[t].held
  BY <1>2 DEF TaskType
<1>6. b \in BodyType
  BY <1>2, <1>3 DEF BodyType
<1>7. /\ b.closed = resp[r].closed /\ b.file = None /\ b.reading = resp[r].reading /\ b.released = resp[r].released
      /\ b.kind = resp[r].kind /\ b.cursor = resp[r].cursor /\ b.len = resp[r].len
  BY <1>2, <1>3 DEF BodyType
<1>8. /\ task' = [task EXCEPT ![t] = k] /\ resp' = [resp EXCEPT ![r] = b]
      /\ file' = [f \in Files |-> IF f \in {resp[r].file} THEN "none" ELSE file[f]]
  BY <1>1, <1>2, <1>3 DEF FreeFiles, Go
<1> HIDE DEF b, k, r
<1>9. /\ task' \in [Tasks -> TaskType] /\ task'[t] = k
      /\ \A u \in Tasks : u # t => task'[u] = task[u]
  BY <1>2, <1>4, <1>8, PutTask
<1>10. /\ resp' \in [Responses -> BodyType] /\ resp'[r] = b
       /\ \A s \in Responses : s # r => resp'[s] = resp[s]
  BY <1>2, <1>3, <1>6, <1>8, PutBody
<1>11. /\ file' \in [Files -> {"none", "open", "closing"}] /\ file'[Root] = file[Root]
       /\ \A f \in Files : file'[f] = IF f = resp[r].file THEN "none" ELSE file[f]
  BY <1>2, <1>3, <1>8, EngineAssumption
<1>12. /\ task[t].at \notin ReadingAt \cup PlanAt \cup WaitAt \cup {"idle", "root"} /\ task[t].at \in ShutAt
       /\ k.at \notin ReadingAt \cup PlanAt \cup WaitAt \cup {"root", "close-plans", "close-runtime"}
       /\ k.at \in ShutAt /\ (k.at \in SweepAt => task[t].at \in SweepAt)
  BY <1>1, <1>5 DEF ReadingAt, PlanAt, ShutAt, WaitAt, SweepAt
<1>13. TaskShape(k) /\ k.op = None
  <2>1. task[t].at \notin {"collect-check", "collect"} /\ TaskShape(task[t]) /\ r # None
    BY <1>1, <1>2, <1>3, EngineAssumption
  <2> QED BY <1>5, <1>12, <2>1 DEF TaskShape
<1>14. (\A u \in Tasks : TaskShape(task[u]))'
  BY <1>2, <1>9, <1>13
<1>15. \A s \in Responses : /\ resp'[s].reading = resp[s].reading /\ resp'[s].closed = resp[s].closed
                            /\ resp'[s].released = resp[s].released /\ resp'[s].kind = resp[s].kind
                            /\ resp'[s].cursor = resp[s].cursor /\ resp'[s].len = resp[s].len
                            /\ resp'[s].file = IF s = r THEN None ELSE resp[s].file
  BY <1>3, <1>7, <1>10
<1>16. ReaderInv'
  <2>1. \A u \in Tasks, s \in Responses : Reader(u, s)' <=> Reader(u, s)
    BY <1>9, <1>12 DEF Reader
  <2>2. \A u \in Tasks, s \in Responses : Reader(u, s) => u # t
    BY <1>12 DEF Reader
  <2>3. \A u \in Tasks : Reader(u, r) => task[u].at \notin WaitAt
    BY <1>1, <1>2, <1>3 DEF ReaderInv, OpsOn, r
  <2>4. \A u \in Tasks, s \in Responses : Reader(u, s)' /\ s = r => task'[u].at \notin WaitAt
    BY <1>3, <1>9, <2>1, <2>2, <2>3
  <2> QED BY <1>2, <1>9, <1>15, <2>1, <2>2, <2>4 DEF ReaderInv
<1>17. BodyInv'
  <2>1. ASSUME NEW u \in Tasks, task'[u].at \in ShutAt
        PROVE  /\ resp'[task'[u].on].closed
               /\ task'[u].at \in {"drain", "close-drain"} => resp'[task'[u].on].file = None
    <3>1. CASE u = t
      BY <1>3, <1>5, <1>9, <1>15, <3>1
    <3>2. CASE u # t
      <4>1. task'[u] = task[u] /\ task[u] \in TaskType
        BY <1>2, <1>9, <3>2
      <4>2. task[u].on \in Responses
        BY <1>2, <2>1, <4>1, TaskFields DEF TaskShape
      <4> QED BY <1>2, <1>15, <2>1, <4>1, <4>2 DEF BodyInv
    <3> QED BY <3>1, <3>2
  <2> QED BY <1>1, <1>2, <1>3, <1>15, <2>1, EngineAssumption DEF BodyInv
<1>18. HolderInv'
  <2>1. \A u \in Tasks : Names(task'[u]) = Names(task[u])
    BY <1>2, <1>9, <1>12, <1>13, NoNames
  <2>2. ASSUME NEW f \in Files, f # Root
        PROVE  file'[f] # "none" <=> \/ \E u \in Tasks : f \in Names(task'[u])
                                     \/ \E s \in Responses : resp'[s].file = f
    <3>1. f # None
      BY EngineAssumption
    <3>2. CASE f = resp[r].file
      BY <1>2, <1>3, <1>11, <1>15, <2>1, <3>1, <3>2 DEF HolderInv
    <3>3. CASE f # resp[r].file
      BY <1>2, <1>11, <1>15, <2>1, <2>2, <3>1, <3>3 DEF HolderInv
    <3> QED BY <3>2, <3>3
  <2>3. \A u \in Tasks : None \notin Names(task[u])
    BY DEF Names
  <2> QED BY <1>2, <1>15, <2>1, <2>2, <2>3 DEF HolderInv
<1>19. LifeInv'
  <2>1. closing \/ file[Root] # "none"
    BY <1>12, Opened
  <2>2. \A u \in Tasks : task[u].at # "root"
    BY <1>2, <2>1 DEF LifeInv
  <2>3. \A u \in Tasks : task'[u].at \in PlanAt <=> task[u].at \in PlanAt
    BY <1>9, <1>12
  <2>4. \A u \in Tasks : task'[u].op = Root => task[u].op = Root
    BY <1>9, <1>13, EngineAssumption
  <2>5. \A u \in Tasks : task'[u].at # "root"
    BY <1>9, <1>12, <2>2
  <2>6. closed => \A u \in Tasks : task'[u].op = None
    BY <1>2, <1>9, <1>13 DEF LifeInv
  <2>7. ASSUME NEW u \in Tasks, task'[u].at \in SweepAt
        PROVE  /\ task[u].at \in SweepAt
               /\ \A s \in Responses : resp'[s].released \/ s \in task'[u].left \/ s = task'[u].on
    <3>1. task[u].at \in SweepAt /\ task'[u].left = task[u].left /\ task'[u].on = task[u].on
      BY <1>5, <1>9, <1>12, <2>7 DEF r
    <3> QED BY <1>2, <1>15, <3>1 DEF LifeInv
  <2>8. \A u \in Tasks : /\ task'[u].at = "close-plans" => task[u].at = "close-plans"
                         /\ task'[u].at = "close-runtime" => task'[u] = task[u]
    BY <1>9, <1>12
  <2>9. /\ UNCHANGED <<closing, closed, planning>> /\ file'[Root] = file[Root] /\ registry' \subseteq registry
        /\ \A s \in Responses : resp[s].released => resp'[s].released
    BY <1>1, <1>11, <1>15
  <2> QED BY <1>2, <2>1, <2>3, <2>4, <2>5, <2>6, <2>7, <2>8, <2>9, LifeFrame
<1>20. TypeOK'
  BY <1>1, <1>2, <1>9, <1>10, <1>11 DEF TypeOK, TaskType, BodyType
<1> QED BY <1>14, <1>16, <1>17, <1>18, <1>19, <1>20 DEF EngineInv

\* Nobody reads the response and its credits are released, unless they were.
LEMMA StepShutReleases ==
  ASSUME EngineInv, NEW t \in Tasks, shut_releases(t)
  PROVE  EngineInv'
<1> DEFINE r == task[t].on
           b == [resp[r] EXCEPT !.released = TRUE]
           next == [task[t] EXCEPT !.at = "close-next", !.on = None]
           k == IF task[t].at = "drain" THEN Idle ELSE next
<1>1. /\ task[t].at \in {"drain", "close-drain"} /\ ~resp[r].reading
      /\ owned' = Released(r, owned) /\ resp' = [resp EXCEPT ![r].released = TRUE]
      /\ registry' = (IF task[t].at = "drain" THEN registry \ {r} ELSE registry) /\ Go(t, k)
      /\ UNCHANGED <<closing, closed, planning, file>>
  BY DEF shut_releases
<1>2. /\ TypeOK /\ (\A u \in Tasks : TaskShape(task[u])) /\ ReaderInv /\ BodyInv /\ HolderInv /\ LifeInv
      /\ task \in [Tasks -> TaskType] /\ resp \in [Responses -> BodyType]
  BY DEF EngineInv, TypeOK, TaskType, BodyType, BodyInv
<1>3. r \in Responses /\ resp[r].closed /\ resp[r].file = None
  <2>1. task[t].at \in ShutAt
    BY <1>1 DEF ShutAt
  <2>2. r \in Responses
    BY <1>2, <2>1, TaskFields DEF TaskShape
  <2> QED BY <1>1, <1>2, <2>1, <2>2 DEF BodyInv
<1>4. b \in BodyType
  <2>1. resp[r] \in BodyType /\ TRUE \in BOOLEAN
    BY <1>2, <1>3
  <2> QED BY <2>1 DEF BodyType
<1>5. /\ b.closed = resp[r].closed /\ b.file = resp[r].file /\ b.reading = resp[r].reading /\ b.released
      /\ b.kind = resp[r].kind /\ b.cursor = resp[r].cursor /\ b.len = resp[r].len
  BY <1>2, <1>3 DEF BodyType
<1>6. next \in TaskType /\ next.at = "close-next" /\ next.on = None /\ next.left = task[t].left
      /\ next.op = task[t].op /\ next.got = task[t].got /\ next.job = task[t].job
      /\ next.files = task[t].files /\ next.dir = task[t].dir
      /\ next.charge = task[t].charge /\ next.held = task[t].held
  <2>1. task[t] \in TaskType /\ "close-next" \in Stages
    BY <1>2 DEF Stages, ClosingAt
  <2> QED BY <2>1 DEF TaskType
<1>7. /\ task' = [task EXCEPT ![t] = k] /\ resp' = [resp EXCEPT ![r] = b]
  BY <1>1, <1>2, <1>3 DEF Go
<1> HIDE DEF next
<1>8. TaskShape(next) /\ next.op = None
  <2>1. TaskShape(task[t])
    BY <1>2
  <2> QED BY <1>1, <1>6, <2>1 DEF TaskShape, PlanAt, WaitAt, ReadingAt, ShutAt
<1>9. /\ k \in TaskType /\ TaskShape(k) /\ k.op = None /\ k.on = None /\ k.at \in {"idle", "close-next"}
      /\ k.at = "close-next" => task[t].at = "close-drain" /\ k.left = task[t].left
  BY <1>1, <1>6, <1>8, IdleIs
<1> HIDE DEF b, k, r
<1>10. /\ task' \in [Tasks -> TaskType] /\ task'[t] = k
       /\ \A u \in Tasks : u # t => task'[u] = task[u]
  BY <1>2, <1>7, <1>9, PutTask
<1>11. /\ resp' \in [Responses -> BodyType] /\ resp'[r] = b
       /\ \A s \in Responses : s # r => resp'[s] = resp[s]
  BY <1>2, <1>3, <1>4, <1>7, PutBody
<1>12. \A s \in Responses : /\ resp'[s].file = resp[s].file /\ resp'[s].reading = resp[s].reading
                            /\ resp'[s].closed = resp[s].closed /\ resp'[s].kind = resp[s].kind
                            /\ resp'[s].cursor = resp[s].cursor /\ resp'[s].len = resp[s].len
                            /\ (resp'[s].released <=> resp[s].released \/ s = r)
  BY <1>3, <1>5, <1>11
<1>13. /\ task[t].at \notin ReadingAt \cup PlanAt \cup {"idle", "root"}
       /\ k.at \notin ReadingAt \cup PlanAt \cup ShutAt \cup {"root", "close-plans", "close-runtime"}
       /\ (k.at \in SweepAt => k.at = "close-next") /\ "close-drain" \in SweepAt
  BY <1>1, <1>9 DEF ReadingAt, PlanAt, ShutAt, SweepAt
<1>14. (\A u \in Tasks : TaskShape(task[u]))'
  BY <1>2, <1>9, <1>10
<1>15. ReaderInv'
  <2>1. \A u \in Tasks, s \in Responses : Reader(u, s)' <=> Reader(u, s)
    BY <1>10, <1>13 DEF Reader
  <2>2. \A u \in Tasks, s \in Responses : Reader(u, s) => u # t
    BY <1>13 DEF Reader
  <2> QED BY <1>2, <1>10, <1>12, <2>1, <2>2 DEF ReaderInv
<1>16. BodyInv'
  <2>1. ASSUME NEW u \in Tasks, task'[u].at \in ShutAt
        PROVE  /\ resp'[task'[u].on].closed
               /\ task'[u].at \in {"drain", "close-drain"} => resp'[task'[u].on].file = None
    <3>1. task'[u] = task[u] /\ task[u] \in TaskType
      BY <1>2, <1>10, <1>13, <2>1
    <3>2. task[u].on \in Responses
      BY <1>2, <2>1, <3>1, TaskFields DEF TaskShape
    <3> QED BY <1>2, <1>12, <2>1, <3>1, <3>2 DEF BodyInv
  <2>2. \A s \in Responses : ~resp'[s].released => ~resp[s].released /\ (s \in registry => s \in registry')
    BY <1>1, <1>12
  <2>3. ~resp[r].reading
    BY <1>1 DEF r
  <2> QED BY <1>2, <1>3, <1>12, <2>1, <2>2, <2>3 DEF BodyInv
<1>17. HolderInv'
  <2>1. \A u \in Tasks : Names(task'[u]) = Names(task[u])
    BY <1>2, <1>9, <1>10, <1>13, NoNames
  <2> QED BY <1>1, <1>2, <1>12, <2>1 DEF HolderInv
<1>18. LifeInv'
  <2>1. closing \/ file[Root] # "none"
    BY <1>13, Opened
  <2>2. \A u \in Tasks : task[u].at # "root"
    BY <1>2, <2>1 DEF LifeInv
  <2>3. \A u \in Tasks : task'[u].at \in PlanAt <=> task[u].at \in PlanAt
    BY <1>10, <1>13
  <2>4. \A u \in Tasks : task'[u].op = Root => task[u].op = Root
    BY <1>9, <1>10, EngineAssumption
  <2>5. \A u \in Tasks : task'[u].at # "root"
    BY <1>10, <1>13, <2>2
  <2>6. closed => \A u \in Tasks : task'[u].op = None
    BY <1>2, <1>9, <1>10 DEF LifeInv
  <2>7. ASSUME NEW u \in Tasks, task'[u].at \in SweepAt
        PROVE  /\ task[u].at \in SweepAt
               /\ \A s \in Responses : resp'[s].released \/ s \in task'[u].left \/ s = task'[u].on
    <3>1. CASE u # t
      BY <1>2, <1>10, <1>12, <2>7, <3>1 DEF LifeInv
    <3>2. CASE u = t
      <4>1. task[t].at \in SweepAt /\ k.left = task[t].left
        BY <1>9, <1>10, <1>13, <2>7, <3>2
      <4>2. \A s \in Responses : resp[s].released \/ s \in task[t].left \/ s = r
        BY <1>2, <4>1 DEF LifeInv, r
      <4> QED BY <1>10, <1>12, <3>2, <4>1, <4>2
    <3> QED BY <3>1, <3>2
  <2>8. \A u \in Tasks : /\ task'[u].at = "close-plans" => task[u].at = "close-plans"
                         /\ task'[u].at = "close-runtime" => task'[u] = task[u]
    BY <1>10, <1>13
  <2>9. /\ UNCHANGED <<closing, closed, planning>> /\ file'[Root] = file[Root] /\ registry' \subseteq registry
        /\ \A s \in Responses : resp[s].released => resp'[s].released
    BY <1>1, <1>12
  <2> QED BY <1>2, <2>1, <2>3, <2>4, <2>5, <2>6, <2>7, <2>8, <2>9, LifeFrame
<1>19. TypeOK'
  <2>1. owned.body \in Nat /\ owned.dir \in Nat /\ resp[r].charge \in Nat /\ resp[r].dir \in Nat
        /\ owned \in [body : Nat, dir : Nat] /\ registry \subseteq Responses
    BY <1>2, <1>3 DEF TypeOK, BodyType
  <2>2. Less(owned.body, resp[r].charge) \in Nat /\ Less(owned.dir, resp[r].dir) \in Nat
    BY <2>1, LessNat
  <2>3. owned' \in [body : Nat, dir : Nat]
    BY <1>1, <2>1, <2>2 DEF Released, r
  <2>4. registry' \subseteq Responses
    BY <1>1, <2>1
  <2> QED BY <1>1, <1>2, <1>10, <1>11, <2>3, <2>4 DEF TypeOK, TaskType, BodyType
<1> QED BY <1>14, <1>15, <1>16, <1>17, <1>18, <1>19 DEF EngineInv

\* A step that touches no response and no file but the engine's own keeps the invariant when
\* the life of the engine goes on as it should.
Quiet == {"idle", "root", "close-plans", "close-next", "close-runtime"}
LEMMA QuietMove ==
  ASSUME EngineInv, NEW t \in Tasks, NEW k \in TaskType, TaskShape(k), Go(t, k),
         task[t].at \in Quiet, k.at \in Quiet, UNCHANGED <<resp, owned, planning>>,
         closing' \in BOOLEAN, closed' \in BOOLEAN, registry' \subseteq Responses,
         \A r \in Responses : ~resp[r].released => r \in registry',
         file' \in [Files -> {"none", "open", "closing"}],
         \A f \in Files : f # Root => file'[f] = file[f],
         LifeInv'
  PROVE  EngineInv'
<1>1. /\ TypeOK /\ (\A u \in Tasks : TaskShape(task[u])) /\ ReaderInv /\ BodyInv /\ HolderInv
      /\ task \in [Tasks -> TaskType] /\ task' = [task EXCEPT ![t] = k]
  BY DEF EngineInv, TypeOK, TaskType, Go
<1>2. /\ task' \in [Tasks -> TaskType] /\ task'[t] = k
      /\ \A u \in Tasks : u # t => task'[u] = task[u]
  BY <1>1, PutTask
<1>3. \A a \in Quiet : a \notin PlanAt \cup ReadingAt \cup ShutAt
  BY DEF Quiet, PlanAt, ReadingAt, ShutAt
<1>4. \A u \in Tasks, s \in Responses : (Reader(u, s)' <=> Reader(u, s)) /\ (Reader(u, s) => u # t)
  BY <1>2, <1>3 DEF Reader
<1>5. ReaderInv'
  BY <1>1, <1>2, <1>4 DEF ReaderInv
<1>6. BodyInv'
  BY <1>1, <1>2, <1>3 DEF BodyInv
<1>7. \A u \in Tasks : Names(task'[u]) = Names(task[u])
  BY <1>1, <1>2, <1>3, NoNames
<1>8. HolderInv'
  BY <1>1, <1>7 DEF HolderInv
<1>9. TypeOK' /\ (\A u \in Tasks : TaskShape(task[u]))'
  BY <1>1, <1>2 DEF TypeOK, TaskType
<1> QED BY <1>5, <1>6, <1>8, <1>9 DEF EngineInv

\* A record of a task that calls StaticEngine::open or close and has no response in hand.
LEMMA QuietRecord ==
  ASSUME NEW k, TaskShape(k), k.at \in Quiet, NEW q, q.at \in Quiet,
         q.op = k.op, q.on = k.on, q.got = k.got, q.job = k.job, q.files = k.files, q.dir = k.dir,
         q.charge = k.charge, q.held = k.held
  PROVE  TaskShape(q) /\ q.op = None /\ q.on = None
<1>1. \A a \in Quiet : a \notin PlanAt \cup WaitAt \cup ReadingAt \cup ShutAt \cup {"collect-check", "collect"}
  BY DEF Quiet, PlanAt, WaitAt, ReadingAt, ShutAt
<1>2. k.held = 0 /\ k.op = None /\ k.on = None
  BY <1>1 DEF TaskShape
<1> QED BY <1>1, <1>2 DEF TaskShape

\* What every step that opens or closes the engine starts from.
LEMMA QuietFacts ==
  ASSUME EngineInv, NEW t \in Tasks, NEW k \in TaskType, Go(t, k)
  PROVE  /\ LifeInv /\ BodyInv /\ task[t] \in TaskType /\ TaskShape(task[t]) /\ task'[t] = k
         /\ \A u \in Tasks : u # t => task'[u] = task[u]
         /\ file \in [Files -> {"none", "open", "closing"}] /\ registry \subseteq Responses
         /\ closing \in BOOLEAN /\ closed \in BOOLEAN
         /\ \A r \in Responses : ~resp[r].released => r \in registry
<1>1. TypeOK /\ LifeInv /\ BodyInv /\ task[t] \in TaskType /\ TaskShape(task[t])
      /\ file \in [Files -> {"none", "open", "closing"}] /\ registry \subseteq Responses
      /\ closing \in BOOLEAN /\ closed \in BOOLEAN
  BY DEF EngineInv, TypeOK, TaskType
<1>2. /\ task'[t] = k /\ \A u \in Tasks : u # t => task'[u] = task[u]
  BY <1>1, PutTask DEF Go
<1>3. \A r \in Responses : ~resp[r].released => r \in registry
  BY <1>1 DEF BodyInv
<1> QED BY <1>1, <1>2, <1>3

LEMMA StepEngineOpen ==
  ASSUME EngineInv, NEW t \in Tasks, StaticEngine_open(t)
  PROVE  EngineInv'
<1> DEFINE k == [Idle EXCEPT !.at = "root"]
<1>1. /\ file[Root] = "none" /\ ~closing /\ (\A u \in Tasks : task[u].at = "idle") /\ Go(t, k)
      /\ UNCHANGED <<closing, closed, planning, registry, resp, file, owned>>
  BY DEF StaticEngine_open
<1>2. k \in TaskType
  <2>1. Idle \in TaskType /\ "root" \in Stages
    BY IdleIs DEF Stages, ClosingAt
  <2> QED BY <2>1 DEF TaskType
<1>3. "root" \in Quiet /\ "idle" \in Quiet /\ {} \in SUBSET Responses
  BY DEF Quiet
<1>4. /\ k \in TaskType /\ TaskShape(k) /\ k.at = "root" /\ k.op = None /\ k.on = None
  <2>1. /\ k.at = "root" /\ k.op = Idle.op /\ k.on = Idle.on /\ k.got = Idle.got /\ k.job = Idle.job
        /\ k.files = Idle.files /\ k.dir = Idle.dir /\ k.charge = Idle.charge /\ k.held = Idle.held
    BY DEF Idle
  <2> HIDE DEF k
  <2> QED BY <1>2, <1>3, <2>1, IdleIs, QuietRecord
<1> HIDE DEF k
<1>5. /\ LifeInv /\ BodyInv /\ task[t] \in TaskType /\ TaskShape(task[t]) /\ task'[t] = k
      /\ \A u \in Tasks : u # t => task'[u] = task[u]
      /\ file \in [Files -> {"none", "open", "closing"}] /\ registry \subseteq Responses
      /\ closing \in BOOLEAN /\ closed \in BOOLEAN
      /\ \A r \in Responses : ~resp[r].released => r \in registry
  BY <1>1, <1>4, QuietFacts
<1>6. LifeInv'
  <2>1. Planners' = {} /\ Planners = {}
    BY <1>1, <1>4, <1>5 DEF Planners, PlanAt
  <2>2. /\ IsFiniteSet(Planners') /\ planning' = Cardinality(Planners')
    BY <1>1, <1>5, <2>1 DEF LifeInv
  <2>3. "root" \notin SweepAt /\ "idle" \notin SweepAt
    BY DEF SweepAt
  <2>4. \A u \in Tasks : task'[u].at \in {"idle", "root"} /\ (u # t => task'[u].at = "idle")
    BY <1>1, <1>4, <1>5
  <2>5. \A u \in Tasks : task'[u].op # Root
    BY <1>1, <1>4, <1>5, EngineAssumption DEF LifeInv
  <2>6. ~closed
    BY <1>1, <1>5 DEF LifeInv
  <2>7. registry' = {} /\ \A r \in Responses : resp'[r].kind = "none"
    BY <1>1, <1>5 DEF LifeInv
  <2> QED BY <1>1, <2>1, <2>2, <2>3, <2>4, <2>5, <2>6, <2>7 DEF LifeInv
<1>7. task[t].at \in Quiet /\ k.at \in Quiet
  BY <1>1, <1>3, <1>4
<1> QED BY <1>1, <1>4, <1>5, <1>6, <1>7, QuietMove

LEMMA StepOpenResumes ==
  ASSUME EngineInv, NEW t \in Tasks, open_resumes(t)
  PROVE  EngineInv'
<1>1. /\ task[t].at = "root" /\ Go(t, Idle) /\ UNCHANGED <<planning, registry, resp, owned>>
      /\ \/ file' = [file EXCEPT ![Root] = "open"] /\ UNCHANGED <<closing, closed>>
         \/ closing' = TRUE /\ closed' = TRUE /\ UNCHANGED file
  BY DEF open_resumes
<1>2. /\ LifeInv /\ BodyInv /\ task[t] \in TaskType /\ TaskShape(task[t]) /\ task'[t] = Idle
      /\ \A u \in Tasks : u # t => task'[u] = task[u]
      /\ file \in [Files -> {"none", "open", "closing"}] /\ registry \subseteq Responses
      /\ closing \in BOOLEAN /\ closed \in BOOLEAN
      /\ \A r \in Responses : ~resp[r].released => r \in registry
  BY <1>1, IdleIs, QuietFacts
<1>3. /\ ~closing /\ ~closed /\ file[Root] = "none" /\ (\A u \in Tasks : u # t => task[u].at = "idle")
      /\ registry = {} /\ \A r \in Responses : resp[r].kind = "none" /\ resp[r].released
  BY <1>1, <1>2 DEF LifeInv, BodyInv
<1>4. \A u \in Tasks : task'[u].at = "idle" /\ task'[u].op = None
  <2>1. \A u \in Tasks : task[u].at = "idle" => task[u].op = None
    BY DEF EngineInv, TaskShape, PlanAt, WaitAt
  <2> QED BY <1>2, <1>3, <2>1, IdleIs
<1>5. Planners' = {} /\ Planners = {}
  BY <1>1, <1>3, <1>4 DEF Planners, PlanAt
<1>6. /\ IsFiniteSet(Planners') /\ planning' = Cardinality(Planners')
  BY <1>1, <1>2, <1>5 DEF LifeInv
<1>7. None # Root /\ "idle" \notin SweepAt \cup {"close-plans", "close-runtime", "root"} /\ "idle" \in Quiet /\ "root" \in Quiet
  BY EngineAssumption DEF SweepAt, Quiet
<1>8. /\ file' \in [Files -> {"none", "open", "closing"}] /\ closing' \in BOOLEAN /\ closed' \in BOOLEAN
      /\ \A f \in Files : f # Root => file'[f] = file[f]
      /\ (file'[Root] = "open" /\ ~closing' /\ ~closed') \/ (closing' /\ closed' /\ file'[Root] = "none")
  <2>1. Root \in Files
    BY EngineAssumption
  <2>2. CASE file' = [file EXCEPT ![Root] = "open"] /\ UNCHANGED <<closing, closed>>
    BY <1>2, <1>3, <2>1, <2>2
  <2>3. CASE closing' = TRUE /\ closed' = TRUE /\ UNCHANGED file
    BY <1>2, <1>3, <2>3
  <2> QED BY <1>1, <2>2, <2>3
<1>9. file'[Root] = "none" /\ closing' => Swept'
  BY <1>1, <1>3, <1>5 DEF Swept
<1>10. LifeInv'
  BY <1>3, <1>4, <1>5, <1>6, <1>7, <1>8, <1>9 DEF LifeInv
<1> QED BY <1>1, <1>2, <1>7, <1>8, <1>10, IdleIs, QuietMove

LEMMA StepEngineClose ==
  ASSUME EngineInv, NEW t \in Tasks, StaticEngine_close(t)
  PROVE  EngineInv'
<1> DEFINE k == [Idle EXCEPT !.at = "close-plans"]
<1>1. /\ task[t].at = "idle" /\ file[Root] = "open" /\ closing' = TRUE /\ Go(t, k)
      /\ UNCHANGED <<closed, planning, registry, resp, file, owned>>
  BY DEF StaticEngine_close
<1>2. k \in TaskType
  <2>1. Idle \in TaskType /\ "close-plans" \in Stages
    BY IdleIs DEF Stages, ClosingAt
  <2> QED BY <2>1 DEF TaskType
<1>3. "close-plans" \in Quiet /\ "idle" \in Quiet /\ {} \in SUBSET Responses
  BY DEF Quiet
<1>4. /\ k \in TaskType /\ TaskShape(k) /\ k.at = "close-plans" /\ k.op = None /\ k.on = None
  <2>1. /\ k.at = "close-plans" /\ k.op = Idle.op /\ k.on = Idle.on /\ k.got = Idle.got /\ k.job = Idle.job
        /\ k.files = Idle.files /\ k.dir = Idle.dir /\ k.charge = Idle.charge /\ k.held = Idle.held
    BY DEF Idle
  <2> HIDE DEF k
  <2> QED BY <1>2, <1>3, <2>1, IdleIs, QuietRecord
<1> HIDE DEF k
<1>5. /\ LifeInv /\ BodyInv /\ task[t] \in TaskType /\ TaskShape(task[t]) /\ task'[t] = k
      /\ \A u \in Tasks : u # t => task'[u] = task[u]
      /\ file \in [Files -> {"none", "open", "closing"}] /\ registry \subseteq Responses
      /\ closing \in BOOLEAN /\ closed \in BOOLEAN
      /\ \A r \in Responses : ~resp[r].released => r \in registry
  BY <1>1, <1>4, QuietFacts
<1>6. LifeInv'
  <2>1. Planners' = Planners
    BY <1>1, <1>4, <1>5 DEF Planners, PlanAt
  <2>2. "close-plans" \notin SweepAt \cup {"root", "close-runtime"} /\ None # Root
    BY EngineAssumption DEF SweepAt
  <2>3. \A u \in Tasks : task[u].at # "root" /\ task'[u].at # "root"
    BY <1>1, <1>4, <1>5 DEF LifeInv
  <2>4. \A u \in Tasks : task'[u].at \in SweepAt \cup {"close-runtime"} => task'[u] = task[u]
    BY <1>4, <1>5, <2>2
  <2>5. Swept' = Swept
    BY <1>1, <2>1 DEF Swept
  <2>6. \A u \in Tasks : task'[u].op \in {task[u].op, None}
    BY <1>4, <1>5
  <2> QED BY <1>1, <1>5, <2>1, <2>2, <2>3, <2>4, <2>5, <2>6 DEF LifeInv
<1>7. task[t].at \in Quiet /\ k.at \in Quiet /\ closing' \in BOOLEAN
  BY <1>1, <1>3, <1>4
<1> QED BY <1>1, <1>4, <1>5, <1>6, <1>7, QuietMove

\* No plan is under way when the last one has been counted out.
LEMMA NoPlanners ==
  ASSUME LifeInv, planning = 0
  PROVE  Planners = {}
BY FS_EmptySet DEF LifeInv

LEMMA StepClosePlans ==
  ASSUME EngineInv, NEW t \in Tasks, close_plans(t)
  PROVE  EngineInv'
<1> DEFINE k == [task[t] EXCEPT !.at = "close-next", !.left = registry]
<1>1. /\ task[t].at = "close-plans" /\ planning = 0 /\ Go(t, k)
      /\ UNCHANGED <<closing, closed, planning, registry, resp, file, owned>>
  BY DEF close_plans
<1>2. task[t] \in TaskType /\ TaskShape(task[t]) /\ registry \in SUBSET Responses
  BY DEF EngineInv, TypeOK, TaskType
<1>3. "close-plans" \in Quiet /\ "close-next" \in Quiet
  BY DEF Quiet
<1>4. /\ k \in TaskType /\ TaskShape(k) /\ k.at = "close-next" /\ k.op = None /\ k.on = None /\ k.left = registry
  <2>1. "close-next" \in Stages
    BY DEF Stages, ClosingAt
  <2>2. k \in TaskType
    BY <1>2, <2>1 DEF TaskType
  <2>3. /\ k.at = "close-next" /\ k.left = registry /\ k.op = task[t].op /\ k.on = task[t].on
        /\ k.got = task[t].got /\ k.job = task[t].job /\ k.files = task[t].files /\ k.dir = task[t].dir
        /\ k.charge = task[t].charge /\ k.held = task[t].held
    BY <1>2 DEF TaskType
  <2> HIDE DEF k
  <2> QED BY <1>1, <1>2, <1>3, <2>2, <2>3, QuietRecord
<1> HIDE DEF k
<1>5. /\ LifeInv /\ BodyInv /\ task[t] \in TaskType /\ TaskShape(task[t]) /\ task'[t] = k
      /\ \A u \in Tasks : u # t => task'[u] = task[u]
      /\ file \in [Files -> {"none", "open", "closing"}] /\ registry \subseteq Responses
      /\ closing \in BOOLEAN /\ closed \in BOOLEAN
      /\ \A r \in Responses : ~resp[r].released => r \in registry
  BY <1>1, <1>4, QuietFacts
<1>6. LifeInv'
  <2>1. Planners' = Planners /\ Planners = {} /\ closing
    <3>1. Planners' = Planners
      BY <1>1, <1>4, <1>5 DEF Planners, PlanAt
    <3>2. closing
      BY <1>1, <1>5 DEF LifeInv
    <3> QED BY <1>1, <1>5, <3>1, <3>2, NoPlanners
  <2>2. "close-next" \notin {"root", "close-runtime"} /\ None # Root
    BY EngineAssumption
  <2>3. \A u \in Tasks : task[u].at # "root" /\ task'[u].at # "root"
    BY <1>4, <1>5, <2>1, <2>2 DEF LifeInv
  <2>4. \A u \in Tasks : task'[u].at \in SweepAt =>
          \A r \in Responses : resp'[r].released \/ r \in task'[u].left \/ r = task'[u].on
    BY <1>1, <1>4, <1>5 DEF LifeInv
  <2>5. Swept' = Swept
    BY <1>1, <2>1 DEF Swept
  <2>6. \A u \in Tasks : task'[u].op \in {task[u].op, None}
    BY <1>4, <1>5
  <2>7. \A u \in Tasks : task'[u].at = "close-runtime" => task'[u] = task[u]
    BY <1>4, <1>5, <2>2
  <2> QED BY <1>1, <1>5, <2>1, <2>2, <2>3, <2>4, <2>5, <2>6, <2>7 DEF LifeInv
<1>7. task[t].at \in Quiet /\ k.at \in Quiet
  BY <1>1, <1>3, <1>4
<1> QED BY <1>1, <1>4, <1>5, <1>6, <1>7, QuietMove

LEMMA StepCloseRoot ==
  ASSUME EngineInv, NEW t \in Tasks, close_root(t)
  PROVE  EngineInv'
<1> DEFINE k == [task[t] EXCEPT !.at = "close-runtime"]
<1>1. /\ task[t].at = "close-next" /\ task[t].left = {} /\ OpsOn(Root) = {} /\ Go(t, k)
      /\ registry' = {} /\ FreeFiles({Root}) /\ UNCHANGED <<closing, closed, planning, resp, owned>>
  BY DEF close_root
<1>2. task[t] \in TaskType /\ TaskShape(task[t]) /\ {} \in SUBSET Responses
  BY DEF EngineInv, TypeOK, TaskType
<1>3. "close-runtime" \in Quiet /\ "close-next" \in Quiet /\ "close-next" \in SweepAt
      /\ "close-next" \notin ReadingAt \cup ShutAt
  BY DEF Quiet, SweepAt, ReadingAt, ShutAt
<1>5. /\ k \in TaskType /\ TaskShape(k) /\ k.at = "close-runtime" /\ k.op = None /\ k.on = None /\ k.left = {}
  <2>1. "close-runtime" \in Stages
    BY DEF Stages, ClosingAt
  <2>2. k \in TaskType
    BY <1>2, <2>1 DEF TaskType
  <2>3. /\ k.at = "close-runtime" /\ k.left = task[t].left /\ k.op = task[t].op /\ k.on = task[t].on
        /\ k.got = task[t].got /\ k.job = task[t].job /\ k.files = task[t].files /\ k.dir = task[t].dir
        /\ k.charge = task[t].charge /\ k.held = task[t].held
    BY <1>2 DEF TaskType
  <2> HIDE DEF k
  <2> QED BY <1>1, <1>2, <1>3, <2>2, <2>3, QuietRecord
<1> HIDE DEF k
<1>6. /\ LifeInv /\ BodyInv /\ task[t] \in TaskType /\ TaskShape(task[t]) /\ task'[t] = k
      /\ \A u \in Tasks : u # t => task'[u] = task[u]
      /\ file \in [Files -> {"none", "open", "closing"}] /\ registry \subseteq Responses
      /\ closing \in BOOLEAN /\ closed \in BOOLEAN
      /\ \A r \in Responses : ~resp[r].released => r \in registry
  BY <1>1, <1>5, QuietFacts
<1>7. /\ closing /\ Planners = {} /\ \A r \in Responses : resp[r].released
  <2>1. task[t].on = None
    BY <1>1, <1>2, <1>3 DEF TaskShape
  <2> QED BY <1>1, <1>3, <1>6, <2>1, EngineAssumption DEF LifeInv
<1>8. /\ file' \in [Files -> {"none", "open", "closing"}] /\ file'[Root] = "none"
      /\ \A f \in Files : f # Root => file'[f] = file[f]
  BY <1>1, <1>6, EngineAssumption DEF FreeFiles
<1>9. LifeInv'
  <2>1. Planners' = Planners
    BY <1>1, <1>5, <1>6 DEF Planners, PlanAt
  <2>2. Swept'
    BY <1>1, <1>7, <1>8, <2>1 DEF Swept
  <2>3. \A u \in Tasks : task[u].at # "root" /\ task'[u].at # "root"
    BY <1>5, <1>6, <1>7 DEF LifeInv
  <2>4. \A u \in Tasks : task'[u].op # Root
    BY <1>1, <1>5, <1>6, EngineAssumption DEF OpsOn
  <2>5. closed => \A u \in Tasks : task'[u].op = None
    BY <1>5, <1>6 DEF LifeInv
  <2>6. \A u \in Tasks : task'[u].at = "close-runtime" => task'[u].left = {}
    BY <1>5, <1>6 DEF LifeInv
  <2>7. IsFiniteSet(Planners') /\ planning' = Cardinality(Planners')
    BY <1>1, <1>6, <2>1 DEF LifeInv
  <2> QED BY <1>1, <1>7, <1>8, <2>1, <2>2, <2>3, <2>4, <2>5, <2>6, <2>7 DEF LifeInv
<1>10. task[t].at \in Quiet /\ k.at \in Quiet /\ registry' \subseteq Responses
       /\ closing' \in BOOLEAN /\ closed' \in BOOLEAN /\ \A r \in Responses : ~resp[r].released => r \in registry'
  BY <1>1, <1>3, <1>5, <1>6, <1>7
<1> QED BY <1>1, <1>5, <1>8, <1>9, <1>10, QuietMove

LEMMA StepCloseRuntime ==
  ASSUME EngineInv, NEW t \in Tasks, close_runtime(t)
  PROVE  EngineInv'
<1>1. /\ task[t].at = "close-runtime" /\ (\A u \in Tasks : task[u].op = None) /\ closed' = TRUE /\ Go(t, Idle)
      /\ UNCHANGED <<closing, planning, registry, resp, file, owned>>
  BY DEF close_runtime
<1>2. /\ LifeInv /\ BodyInv /\ task[t] \in TaskType /\ TaskShape(task[t]) /\ task'[t] = Idle
      /\ \A u \in Tasks : u # t => task'[u] = task[u]
      /\ file \in [Files -> {"none", "open", "closing"}] /\ registry \subseteq Responses
      /\ closing \in BOOLEAN /\ closed \in BOOLEAN
      /\ \A r \in Responses : ~resp[r].released => r \in registry
  BY <1>1, IdleIs, QuietFacts
<1>3. /\ "idle" \in Quiet /\ "close-runtime" \in Quiet /\ "close-runtime" \in SweepAt
      /\ "idle" \notin SweepAt \cup {"root", "close-plans"} /\ None # Root
  BY EngineAssumption DEF Quiet, SweepAt
<1>4. closing /\ Swept
  BY <1>1, <1>2, <1>3 DEF LifeInv
<1>5. LifeInv'
  <2>1. Planners' = Planners
    BY <1>1, <1>2, IdleIs DEF Planners, PlanAt
  <2>2. Swept'
    BY <1>1, <1>4, <2>1 DEF Swept
  <2>3. \A u \in Tasks : task[u].at # "root" /\ task'[u].at # "root"
    BY <1>2, <1>4, IdleIs DEF LifeInv
  <2>4. \A u \in Tasks : task'[u].op = None
    BY <1>1, <1>2, IdleIs
  <2>5. \A u \in Tasks : task'[u].at \in SweepAt \cup {"close-plans"} => task'[u] = task[u]
    BY <1>2, <1>3, IdleIs
  <2> QED BY <1>1, <1>2, <1>3, <1>4, <2>1, <2>2, <2>3, <2>4, <2>5 DEF LifeInv
<1>6. closed' \in BOOLEAN /\ \A f \in Files : f # Root => file'[f] = file[f]
  BY <1>1
<1> QED BY <1>1, <1>2, <1>3, <1>5, <1>6, IdleIs, QuietMove

-----------------------------------------------------------------------------
(* The theorems                                                             *)

LEMMA InitEngine ==
  ASSUME Init
  PROVE  EngineInv
<1>1. /\ closing = FALSE /\ closed = FALSE /\ planning = 0 /\ registry = {}
      /\ resp = [r \in Responses |-> NoBody] /\ file = [f \in Files |-> "none"]
      /\ owned = [body |-> 0, dir |-> 0] /\ task = [t \in Tasks |-> Idle]
  BY DEF Init
<1>2. NoBody \in BodyType /\ NoBody.released /\ NoBody.file = None /\ ~NoBody.reading /\ NoBody.closed
      /\ NoBody.kind = "none"
  BY DEF NoBody, BodyType
<1>3. \A t \in Tasks : task[t] = Idle
  BY <1>1
<1>4. \A r \in Responses : resp[r] = NoBody
  BY <1>1
<1>5. TypeOK
  <2>1. task \in [Tasks -> TaskType] /\ resp \in [Responses -> BodyType]
    BY <1>1, <1>2, IdleIs
  <2> QED BY <1>1, <2>1 DEF TypeOK, TaskType, BodyType
<1>6. ReaderInv
  <2>1. \A t \in Tasks, r \in Responses : ~Reader(t, r)
    BY <1>3, IdleIs DEF Reader, ReadingAt
  <2> QED BY <1>2, <1>4, <2>1 DEF ReaderInv
<1>7. BodyInv
  BY <1>2, <1>3, <1>4, IdleIs, EngineAssumption DEF BodyInv, ShutAt
<1>8. HolderInv
  <2>1. \A f \in Files : file[f] = "none" /\ f # None
    BY <1>1, EngineAssumption
  <2> QED BY <1>2, <1>3, <1>4, <2>1, IdleIs DEF HolderInv
<1>9. Planners = {}
  BY <1>3, IdleIs DEF Planners, PlanAt
<1>10. LifeInv
  <2>1. IsFiniteSet(Planners) /\ planning = Cardinality(Planners)
    BY <1>1, <1>9, FS_EmptySet
  <2>2. file[Root] = "none" /\ None # Root /\ "idle" \notin SweepAt \cup {"close-plans", "close-runtime", "root"}
    BY <1>1, EngineAssumption DEF SweepAt
  <2> QED BY <1>1, <1>2, <1>3, <1>4, <1>9, <2>1, <2>2, IdleIs DEF LifeInv
<1>11. \A t \in Tasks : TaskShape(task[t])
  BY <1>3, IdleIs
<1> QED BY <1>5, <1>6, <1>7, <1>8, <1>10, <1>11 DEF EngineInv

LEMMA StepUse ==
  ASSUME EngineInv, NEW t \in Tasks, Use(t)
  PROVE  EngineInv'
<1>1. CASE StaticEngine_open(t) \/ handle(t)
  BY <1>1, StepEngineOpen, StepPlan
<1>2. ASSUME NEW r \in Responses,
             check(t, r) \/ read(t, r) \/ to_bytes(t, r) \/ send_to(t, r)
      PROVE  EngineInv'
  <2>1. \E where \in {"check", "read-check", "collect-check", "send"} : Begin(t, r, where)
    BY <1>2 DEF check, read, to_bytes, send_to
  <2> QED BY <2>1, StepBegin
<1>3. ASSUME NEW r \in Responses, read_memory(t, r) \/ to_bytes_memory(t, r)
      PROVE  EngineInv'
  BY <1>3, StepMemory
<1> QED BY <1>1, <1>2, <1>3 DEF Use

LEMMA StepResume ==
  ASSUME EngineInv, NEW t \in Tasks, Resume(t)
  PROVE  EngineInv'
<1>1. CASE open_resumes(t) \/ handle_resumes(t)
  BY <1>1, StepOpenResumes, StepPlan
<1>2. CASE \/ check_resumes(t) \/ read_checked(t) \/ read_resumes(t) \/ collect_resumes(t)
           \/ send_resumes(t) \/ send_loops(t)
  BY <1>2, StepReadChecked, StepReadResumes, StepCollect, StepSend, StepSendLoops
<1>3. CASE shut_frees(t) \/ shut_releases(t)
  BY <1>3, StepShutFrees, StepShutReleases
<1>4. CASE close_plans(t) \/ close_next(t) \/ close_root(t) \/ close_runtime(t)
  BY <1>4, StepClosePlans, StepCloseNext, StepCloseRoot, StepCloseRuntime
<1> QED BY <1>1, <1>2, <1>3, <1>4 DEF Resume

LEMMA StepClose ==
  ASSUME EngineInv, NEW t \in Tasks, Close(t)
  PROVE  EngineInv'
BY StepEngineClose, StepResponseClose DEF Close

\* Every step of every task keeps the invariant: what a task holds at each suspension point, one
\* reader per response, one holder per file, and the life of the engine.
THEOREM EngineHolds == Spec => []EngineInv
<1>1. Init => EngineInv
  BY InitEngine
<1>2. EngineInv /\ [Next]_vars => EngineInv'
  <2> SUFFICES ASSUME EngineInv, [Next]_vars PROVE EngineInv'
    OBVIOUS
  <2>1. CASE UNCHANGED vars
    <3>1. UNCHANGED <<closing, closed, planning, registry, resp, file, owned, task>>
      BY <2>1 DEF vars
    <3>2. /\ TypeOK' = TypeOK /\ ReaderInv' = ReaderInv /\ BodyInv' = BodyInv /\ HolderInv' = HolderInv
      BY <3>1 DEF TypeOK, ReaderInv, Reader, BodyInv, HolderInv
    <3>3. LifeInv' = LifeInv
      BY <3>1 DEF LifeInv, Planners, Swept
    <3> QED BY <3>1, <3>2, <3>3 DEF EngineInv
  <2>2. ASSUME NEW t \in Users, Use(t) PROVE EngineInv'
    BY <2>2, StepUse, EngineAssumption
  <2>3. ASSUME NEW t \in Tasks, Close(t) \/ Resume(t) \/ write_ends(t) \/ hs_open(t) \/ hs_list(t)
        PROVE  EngineInv'
    BY <2>3, StepClose, StepResume, StepSend, StepOpen, StepList
  <2> QED BY <2>1, <2>2, <2>3 DEF Next
<1> QED BY <1>1, <1>2, PTL DEF Spec

\* TypeOK: every field of a task, a response, a file and the credits stays in its type; no
\* subtraction of StaticEngine, Response or the pool underflows.
THEOREM EngineTypes == Spec => []TypeOK
<1>1. EngineInv => TypeOK
  BY DEF EngineInv
<1> QED BY <1>1, EngineHolds, PTL

\* InOrder: Response::read has one reader at a time, and the bytes it fetches across its
\* suspension are those at the cursor it moves.
THEOREM EngineInOrder == Spec => []InOrder
<1>1. EngineInv => InOrder
  <2> SUFFICES ASSUME EngineInv, NEW r \in Responses
               PROVE  LET readers == {t \in Tasks : task[t].on = r /\ task[t].at \in ReadingAt}
                      IN /\ Cardinality(readers) = IF resp[r].reading THEN 1 ELSE 0
                         /\ \A t \in readers :
                              task[t].at \in {"read", "collect", "send", "send-read", "write"}
                                => task[t].from = resp[r].cursor
    BY DEF InOrder
  <2> DEFINE readers == {t \in Tasks : task[t].on = r /\ task[t].at \in ReadingAt}
  <2>1. \A t \in Tasks : t \in readers <=> Reader(t, r)
    BY DEF Reader
  <2>2. ReaderInv
    BY DEF EngineInv
  <2>3. \A t \in readers : task[t].at \in {"read", "collect", "send", "send-read", "write"}
                             => task[t].from = resp[r].cursor
    BY <2>1, <2>2 DEF ReaderInv, FetchAt
  <2>4. CASE resp[r].reading
    <3>1. PICK t \in Tasks : Reader(t, r)
      BY <2>2, <2>4 DEF ReaderInv
    <3>2. readers = {t}
      BY <2>1, <2>2, <3>1 DEF ReaderInv
    <3>3. Cardinality(readers) = 1
      BY <3>2, FS_Singleton
    <3> QED BY <2>3, <2>4, <3>3
  <2>5. CASE ~resp[r].reading
    <3>1. readers = {}
      BY <2>1, <2>2, <2>5 DEF ReaderInv
    <3>2. Cardinality(readers) = 0
      BY <3>1, FS_EmptySet
    <3> QED BY <2>3, <2>5, <3>2
  <2> QED BY <2>4, <2>5
<1> QED BY <1>1, EngineHolds, PTL

\* FilesExact: no job runs on a freed file, and every open file is held by one plan or one
\* response, on every way out of handle, read and close.
THEOREM EngineFiles == Spec => []FilesExact
<1>1. EngineInv => FilesExact
  <2> SUFFICES ASSUME EngineInv PROVE FilesExact
    OBVIOUS
  <2>1. /\ TypeOK /\ (\A u \in Tasks : TaskShape(task[u])) /\ ReaderInv /\ BodyInv /\ HolderInv /\ LifeInv
        /\ task \in [Tasks -> TaskType]
    BY DEF EngineInv, TypeOK, TaskType
  <2>2. ASSUME NEW t \in Tasks, task[t].op # None
        PROVE  file[task[t].op] # "none" /\ ~closed
    <3>1. TaskShape(task[t]) /\ task[t] \in TaskType /\ ~closed
      BY <2>1, <2>2 DEF LifeInv
    <3>2. task[t].op \in Files
      BY <2>2, <3>1, TaskFields
    <3>3. task[t].at \in PlanAt \cup WaitAt
      BY <2>2, <3>1 DEF TaskShape
    <3>4. CASE task[t].op = Root
      BY <2>1, <3>1, <3>4 DEF LifeInv
    <3>5. CASE task[t].at \in PlanAt /\ task[t].op # Root
      <4>1. task[t].op \in Names(task[t])
        BY <2>2, <3>1, <3>5 DEF TaskShape, PlanShape, PlanAt, Names
      <4> QED BY <2>1, <3>1, <3>2, <3>5, <4>1 DEF HolderInv
    <3>6. CASE task[t].at \in WaitAt /\ task[t].op # Root
      <4>1. task[t].at \in ReadingAt
        BY <3>6, Points
      <4>2. task[t].on \in Responses /\ task[t].op = resp[task[t].on].file
        BY <3>6, <4>1, ReaderIs
      <4> QED BY <2>1, <3>1, <3>2, <3>6, <4>2 DEF HolderInv
    <3> QED BY <3>3, <3>4, <3>5, <3>6
  <2>3. ASSUME NEW f \in Files \ {Root}
        PROVE  LET plans == {t \in Tasks : f \in PlanFiles(t)}
                   bodies == {r \in Responses : resp[r].file = f}
               IN /\ file[f] = "none" => plans = {} /\ bodies = {}
                  /\ file[f] # "none" => Cardinality(plans) + Cardinality(bodies) = 1
    <3> DEFINE plans == {t \in Tasks : f \in PlanFiles(t)}
               bodies == {r \in Responses : resp[r].file = f}
    <3>1. \A t \in Tasks : PlanFiles(t) = Names(task[t])
      BY DEF PlanFiles, Names
    <3>2. f # None /\ f \in Files /\ f # Root
      BY EngineAssumption
    <3>3. file[f] # "none" <=> plans # {} \/ bodies # {}
      BY <2>1, <3>1, <3>2 DEF HolderInv
    <3>4. CASE plans # {}
      <4>1. PICK t \in Tasks : f \in Names(task[t])
        BY <3>1, <3>4
      <4>2. plans = {t} /\ bodies = {}
        BY <2>1, <3>1, <4>1 DEF HolderInv
      <4>3. Cardinality(plans) = 1 /\ Cardinality(bodies) = 0
        BY <4>2, FS_Singleton, FS_EmptySet
      <4> QED BY <3>3, <4>2, <4>3
    <3>5. CASE plans = {} /\ bodies # {}
      <4>1. PICK r \in Responses : resp[r].file = f
        BY <3>5
      <4>2. bodies = {r}
        BY <2>1, <3>2, <4>1 DEF HolderInv
      <4>3. Cardinality(plans) = 0 /\ Cardinality(bodies) = 1
        BY <3>5, <4>2, FS_Singleton, FS_EmptySet
      <4> QED BY <3>3, <4>2, <4>3
    <3>6. CASE plans = {} /\ bodies = {}
      BY <3>3, <3>6
    <3> QED BY <3>4, <3>5, <3>6
  <2> QED BY <2>2, <2>3 DEF FilesExact
<1> QED BY <1>1, EngineHolds, PTL

-----------------------------------------------------------------------------
(* The credits                                                              *)

\* What a response still has to give back, and what a task has.
BodyDue(r) == IF resp[r].released THEN 0 ELSE resp[r].charge
DirDue(r) == IF resp[r].released THEN 0 ELSE resp[r].dir
Listed(t) == task[t].charge + task[t].job
BodyDues == [r \in Responses |-> BodyDue(r)]
DirDues == [r \in Responses |-> DirDue(r)]
Helds == [t \in Tasks |-> task[t].held]
Listeds == [t \in Tasks |-> Listed(t)]

\* The pool owns what responses and tasks still have to give back.
CreditInv ==
  /\ owned.body = SumOf(BodyDues, Responses) + SumOf(Helds, Tasks)
  /\ owned.dir = SumOf(DirDues, Responses) + SumOf(Listeds, Tasks)

\* The numbers are natural.
LEMMA DuesNat ==
  ASSUME TypeOK
  PROVE  /\ \A r \in Responses : BodyDue(r) \in Nat /\ DirDue(r) \in Nat
         /\ \A t \in Tasks : task[t].held \in Nat /\ Listed(t) \in Nat
         /\ SumOf(BodyDues, Responses) \in Nat /\ SumOf(DirDues, Responses) \in Nat
         /\ SumOf(Helds, Tasks) \in Nat /\ SumOf(Listeds, Tasks) \in Nat
<1>1. \A r \in Responses : BodyDue(r) \in Nat /\ DirDue(r) \in Nat
  BY DEF TypeOK, BodyDue, DirDue
<1>2. \A t \in Tasks : task[t].held \in Nat /\ task[t].charge \in Nat /\ task[t].job \in Nat
  BY DEF TypeOK
<1>3. \A t \in Tasks : Listed(t) \in Nat
  BY <1>2 DEF Listed
<1>4. /\ \A r \in Responses : BodyDues[r] \in Nat /\ DirDues[r] \in Nat
      /\ \A t \in Tasks : Helds[t] \in Nat /\ Listeds[t] \in Nat
  BY <1>1, <1>2, <1>3 DEF BodyDues, DirDues, Helds, Listeds
<1>5. IsFiniteSet(Tasks) /\ IsFiniteSet(Responses)
  BY EngineAssumption
<1>6. SumOf(BodyDues, Responses) \in Nat /\ SumOf(DirDues, Responses) \in Nat
  BY <1>4, <1>5, SumNat
<1>7. SumOf(Helds, Tasks) \in Nat /\ SumOf(Listeds, Tasks) \in Nat
  BY <1>4, <1>5, SumNat
<1> QED BY <1>1, <1>2, <1>3, <1>6, <1>7

\* Each part is at most the whole, and a change of one part changes the whole by as much.
LEMMA DueChange ==
  ASSUME TypeOK, TypeOK', NEW r \in Responses,
         \A s \in Responses \ {r} : BodyDue(s)' = BodyDue(s) /\ DirDue(s)' = DirDue(s)
  PROVE  /\ BodyDue(r) <= SumOf(BodyDues, Responses) /\ DirDue(r) <= SumOf(DirDues, Responses)
         /\ SumOf(BodyDues', Responses) = (SumOf(BodyDues, Responses) - BodyDue(r)) + BodyDue(r)'
         /\ SumOf(DirDues', Responses) = (SumOf(DirDues, Responses) - DirDue(r)) + DirDue(r)'
<1>1. /\ \A s \in Responses : BodyDue(s) \in Nat /\ DirDue(s) \in Nat
      /\ \A s \in Responses : BodyDue(s)' \in Nat /\ DirDue(s)' \in Nat
  BY DEF TypeOK, BodyDue, DirDue
<1>2. \A s \in Responses : BodyDues[s] = BodyDue(s) /\ BodyDues'[s] = BodyDue(s)'
                           /\ DirDues[s] = DirDue(s) /\ DirDues'[s] = DirDue(s)'
  BY DEF BodyDues, DirDues
<1>3. IsFiniteSet(Responses)
  BY EngineAssumption
<1>4. ASSUME NEW f, NEW g, f = BodyDues, g = BodyDues'
      PROVE  /\ SumOf(f, Responses) \in Nat /\ f[r] <= SumOf(f, Responses)
             /\ SumOf(g, Responses) = (SumOf(f, Responses) - f[r]) + g[r]
  BY <1>1, <1>2, <1>3, <1>4, SumChange
<1>5. ASSUME NEW f, NEW g, f = DirDues, g = DirDues'
      PROVE  /\ SumOf(f, Responses) \in Nat /\ f[r] <= SumOf(f, Responses)
             /\ SumOf(g, Responses) = (SumOf(f, Responses) - f[r]) + g[r]
  BY <1>1, <1>2, <1>3, <1>5, SumChange
<1> QED BY <1>2, <1>4, <1>5

LEMMA HeldChange ==
  ASSUME TypeOK, TypeOK', NEW t \in Tasks,
         \A u \in Tasks \ {t} : task'[u].held = task[u].held /\ Listed(u)' = Listed(u)
  PROVE  /\ task[t].held <= SumOf(Helds, Tasks) /\ Listed(t) <= SumOf(Listeds, Tasks)
         /\ SumOf(Helds', Tasks) = (SumOf(Helds, Tasks) - task[t].held) + task'[t].held
         /\ SumOf(Listeds', Tasks) = (SumOf(Listeds, Tasks) - Listed(t)) + Listed(t)'
<1>1. /\ \A u \in Tasks : task[u].held \in Nat /\ Listed(u) \in Nat
      /\ \A u \in Tasks : task'[u].held \in Nat /\ Listed(u)' \in Nat
  BY DEF TypeOK, Listed
<1>2. \A u \in Tasks : Helds[u] = task[u].held /\ Helds'[u] = task'[u].held
                       /\ Listeds[u] = Listed(u) /\ Listeds'[u] = Listed(u)'
  BY DEF Helds, Listeds
<1>3. IsFiniteSet(Tasks)
  BY EngineAssumption
<1>4. ASSUME NEW f, NEW g, f = Helds, g = Helds'
      PROVE  /\ SumOf(f, Tasks) \in Nat /\ f[t] <= SumOf(f, Tasks)
             /\ SumOf(g, Tasks) = (SumOf(f, Tasks) - f[t]) + g[t]
  <2>1. \A u \in Tasks : f[u] \in Nat /\ g[u] \in Nat /\ (u # t => f[u] = g[u])
    BY <1>1, <1>2, <1>4
  <2> QED BY <1>3, <2>1, SumChange
<1>5. ASSUME NEW f, NEW g, f = Listeds, g = Listeds'
      PROVE  /\ SumOf(f, Tasks) \in Nat /\ f[t] <= SumOf(f, Tasks)
             /\ SumOf(g, Tasks) = (SumOf(f, Tasks) - f[t]) + g[t]
  BY <1>1, <1>2, <1>3, <1>5, SumChange
<1> QED BY <1>2, <1>4, <1>5

\* What a task and a response have to give back is still owned.
LEMMA DuesOwned ==
  ASSUME TypeOK, CreditInv, NEW t \in Tasks
  PROVE  /\ owned.body \in Nat /\ owned.dir \in Nat /\ task[t].held \in Nat /\ Listed(t) \in Nat
         /\ task[t].held <= owned.body /\ Listed(t) <= owned.dir
         /\ \A r \in Responses : /\ BodyDue(r) \in Nat /\ DirDue(r) \in Nat
                                 /\ task[t].held + BodyDue(r) <= owned.body
                                 /\ DirDue(r) <= owned.dir
<1>1. /\ \A r \in Responses : BodyDues[r] = BodyDue(r) /\ BodyDue(r) \in Nat
                              /\ DirDues[r] = DirDue(r) /\ DirDue(r) \in Nat
      /\ \A u \in Tasks : Helds[u] = task[u].held /\ task[u].held \in Nat
                          /\ Listeds[u] = Listed(u) /\ Listed(u) \in Nat
  BY DuesNat DEF BodyDues, DirDues, Helds, Listeds
<1>2. IsFiniteSet(Tasks) /\ IsFiniteSet(Responses)
  BY EngineAssumption
<1>3. ASSUME NEW S, IsFiniteSet(S), NEW f, \A x \in S : f[x] \in Nat, NEW y \in S
      PROVE  f[y] <= SumOf(f, S)
  <2>1. \A x \in S \ {y} : f[x] = f[x]
    OBVIOUS
  <2> QED BY <1>3, <2>1, SumChange
<1>4. Helds[t] <= SumOf(Helds, Tasks) /\ Listeds[t] <= SumOf(Listeds, Tasks)
  BY <1>1, <1>2, <1>3
<1>5. \A r \in Responses : BodyDues[r] <= SumOf(BodyDues, Responses) /\ DirDues[r] <= SumOf(DirDues, Responses)
  BY <1>1, <1>2, <1>3
<1>6. /\ SumOf(BodyDues, Responses) \in Nat /\ SumOf(DirDues, Responses) \in Nat
      /\ SumOf(Helds, Tasks) \in Nat /\ SumOf(Listeds, Tasks) \in Nat
  BY DuesNat
<1>7. owned.body \in Nat /\ owned.dir \in Nat /\ task[t].held <= owned.body /\ Listed(t) <= owned.dir
  BY <1>1, <1>4, <1>6 DEF CreditInv
<1>8. ASSUME NEW r \in Responses
      PROVE  task[t].held + BodyDue(r) <= owned.body /\ DirDue(r) <= owned.dir
  BY <1>1, <1>4, <1>5, <1>6, <1>8 DEF CreditInv
<1> QED BY <1>1, <1>7, <1>8

\* The step of a task that leaves the credits of responses as they are.
LEMMA TaskCredit ==
  ASSUME TypeOK, TypeOK', CreditInv, NEW t \in Tasks,
         \A u \in Tasks : u # t => task'[u] = task[u],
         \A r \in Responses : BodyDue(r)' = BodyDue(r) /\ DirDue(r)' = DirDue(r),
         owned'.body = (owned.body - task[t].held) + task'[t].held,
         owned'.dir = (owned.dir - Listed(t)) + Listed(t)'
  PROVE  CreditInv'
<1>1. \A u \in Tasks \ {t} : task'[u].held = task[u].held /\ Listed(u)' = Listed(u)
  BY DEF Listed
<1>2. /\ task[t].held <= SumOf(Helds, Tasks) /\ Listed(t) <= SumOf(Listeds, Tasks)
      /\ SumOf(Helds', Tasks) = (SumOf(Helds, Tasks) - task[t].held) + task'[t].held
      /\ SumOf(Listeds', Tasks) = (SumOf(Listeds, Tasks) - Listed(t)) + Listed(t)'
  BY <1>1, HeldChange
<1>3. BodyDues' = BodyDues /\ DirDues' = DirDues
  BY DEF BodyDues, DirDues
<1>4. /\ SumOf(BodyDues, Responses) \in Nat /\ SumOf(DirDues, Responses) \in Nat
      /\ SumOf(Helds, Tasks) \in Nat /\ SumOf(Listeds, Tasks) \in Nat
      /\ task[t].held \in Nat /\ Listed(t) \in Nat
  BY DuesNat
<1>5. task'[t].held \in Nat /\ Listed(t)' \in Nat
  BY DEF TypeOK, Listed
<1>6. /\ owned'.body = SumOf(BodyDues, Responses) + SumOf(Helds', Tasks)
      /\ owned'.dir = SumOf(DirDues, Responses) + SumOf(Listeds', Tasks)
  BY <1>2, <1>4, <1>5 DEF CreditInv
<1> QED BY <1>3, <1>6 DEF CreditInv

\* The step of a task that makes or releases the response r.
LEMMA BodyCredit ==
  ASSUME TypeOK, TypeOK', CreditInv, NEW t \in Tasks, NEW r \in Responses,
         \A u \in Tasks : u # t => task'[u] = task[u],
         \A s \in Responses : s # r => resp'[s] = resp[s],
         owned'.body = ((owned.body - task[t].held) - BodyDue(r)) + task'[t].held + BodyDue(r)',
         owned'.dir = ((owned.dir - Listed(t)) - DirDue(r)) + Listed(t)' + DirDue(r)'
  PROVE  CreditInv'
<1>1. \A u \in Tasks \ {t} : task'[u].held = task[u].held /\ Listed(u)' = Listed(u)
  BY DEF Listed
<1>2. /\ SumOf(Helds', Tasks) = (SumOf(Helds, Tasks) - task[t].held) + task'[t].held
      /\ SumOf(Listeds', Tasks) = (SumOf(Listeds, Tasks) - Listed(t)) + Listed(t)'
  BY <1>1, HeldChange
<1>3. \A s \in Responses \ {r} : BodyDue(s)' = BodyDue(s) /\ DirDue(s)' = DirDue(s)
  BY DEF BodyDue, DirDue
<1>4. /\ SumOf(BodyDues', Responses) = (SumOf(BodyDues, Responses) - BodyDue(r)) + BodyDue(r)'
      /\ SumOf(DirDues', Responses) = (SumOf(DirDues, Responses) - DirDue(r)) + DirDue(r)'
  BY <1>3, DueChange
<1>5. /\ SumOf(BodyDues, Responses) \in Nat /\ SumOf(DirDues, Responses) \in Nat
      /\ SumOf(Helds, Tasks) \in Nat /\ SumOf(Listeds, Tasks) \in Nat
      /\ task[t].held \in Nat /\ Listed(t) \in Nat /\ BodyDue(r) \in Nat /\ DirDue(r) \in Nat
  BY DuesNat
<1>6. task'[t].held \in Nat /\ Listed(t)' \in Nat /\ BodyDue(r)' \in Nat /\ DirDue(r)' \in Nat
  BY DEF TypeOK, Listed, BodyDue, DirDue
<1>7. owned'.body = SumOf(BodyDues', Responses) + SumOf(Helds', Tasks)
  BY <1>2, <1>4, <1>5, <1>6 DEF CreditInv
<1>8. owned'.dir = SumOf(DirDues', Responses) + SumOf(Listeds', Tasks)
  BY <1>2, <1>4, <1>5, <1>6 DEF CreditInv
<1> QED BY <1>7, <1>8 DEF CreditInv

\* A step that changes no credit at all.
LEMMA SameCredit ==
  ASSUME TypeOK, TypeOK', CreditInv, NEW t \in Tasks, NEW k, Go(t, k),
         \A r \in Responses : resp'[r].released = resp[r].released /\ resp'[r].charge = resp[r].charge
                              /\ resp'[r].dir = resp[r].dir,
         UNCHANGED owned, k.held = task[t].held, k.charge + k.job = task[t].charge + task[t].job
  PROVE  CreditInv'
<1>1. task \in [Tasks -> TaskType] /\ task'[t] = k /\ \A u \in Tasks : u # t => task'[u] = task[u]
  BY DEF TypeOK, TaskType, Go
<1>2. \A r \in Responses : BodyDue(r)' = BodyDue(r) /\ DirDue(r)' = DirDue(r)
  BY DEF BodyDue, DirDue
<1>3. Listed(t)' = Listed(t) /\ task'[t].held = task[t].held
  BY <1>1 DEF Listed
<1>4. owned.body \in Nat /\ owned.dir \in Nat /\ task[t].held \in Nat /\ Listed(t) \in Nat
      /\ task[t].held <= owned.body /\ Listed(t) <= owned.dir
  BY DuesOwned
<1>5. /\ owned'.body = (owned.body - task[t].held) + task'[t].held
      /\ owned'.dir = (owned.dir - Listed(t)) + Listed(t)'
  BY <1>3, <1>4
<1> QED BY <1>1, <1>2, <1>5, TaskCredit

\* What is owned is given back exactly: hs_io_release is never asked for more than it has.
LEMMA LessExact ==
  ASSUME NEW have \in Nat, NEW n \in Nat, n <= have, closed => n = 0
  PROVE  Less(have, n) = have - n
BY DEF Less

\* A plan's turn: what the plan has is what its task has, and the pool is there.
LEMMA TurnCredit ==
  ASSUME EngineInv, NEW t \in Tasks, NEW p, NEW n, Turning(t, p, n)
  PROVE  /\ ~closed /\ task[t].held = 0 /\ p.held = 0 /\ p.job = 0 /\ p.charge = Listed(t)
         /\ p.charge \in Nat /\ p \in TaskType
<1>1. task[t].at \in PlanAt \cup {"idle"} /\ (task[t].at = "idle" => ~closing)
      /\ p.held = 0 /\ p.job = 0 /\ p.charge = Listed(t) /\ p \in TaskType
  BY DEF Turning, Listed
<1>2. task[t].held = 0
  BY <1>1 DEF EngineInv, TaskShape, PlanAt
<1>3. ~closed
  BY <1>1 DEF EngineInv, LifeInv, Swept, Planners
<1> QED BY <1>1, <1>2, <1>3, TaskFields

LEMMA CreditDrops ==
  ASSUME EngineInv, TypeOK', CreditInv, NEW t \in Tasks, NEW p, NEW n, Turning(t, p, n), Drop(t, p, n)
  PROVE  CreditInv'
<1>1. /\ TypeOK /\ Go(t, Idle) /\ owned' = [owned EXCEPT !.dir = Less(Less(@, p.job), p.charge)]
      /\ UNCHANGED resp
  BY DEF Drop, EngineInv
<1>2. /\ ~closed /\ task[t].held = 0 /\ p.held = 0 /\ p.job = 0 /\ p.charge = Listed(t)
      /\ p.charge \in Nat
  BY TurnCredit
<1>3. /\ owned.body \in Nat /\ owned.dir \in Nat /\ Listed(t) <= owned.dir
      /\ owned \in [body : Nat, dir : Nat]
  BY <1>1, DuesOwned DEF TypeOK
<1>4. Less(owned.dir, 0) = owned.dir
  BY <1>3, LessExact
<1>5. Less(Less(owned.dir, p.job), p.charge) = owned.dir - Listed(t)
  BY <1>2, <1>3, <1>4, LessExact
<1>6. task'[t] = Idle /\ \A u \in Tasks : u # t => task'[u] = task[u]
  BY <1>1, IdleIs, PutTask DEF Go
<1>7. task'[t].held = 0 /\ Listed(t)' = 0
  BY <1>6, IdleIs DEF Listed
<1>8. owned'.body = owned.body /\ owned'.dir = owned.dir - Listed(t)
  BY <1>1, <1>3, <1>5
<1>9. \A r \in Responses : BodyDue(r)' = BodyDue(r) /\ DirDue(r)' = DirDue(r)
  BY <1>1 DEF BodyDue, DirDue
<1>10. /\ owned'.body = (owned.body - task[t].held) + task'[t].held
       /\ owned'.dir = (owned.dir - Listed(t)) + Listed(t)'
  BY <1>2, <1>3, <1>7, <1>8
<1> QED BY <1>1, <1>6, <1>9, <1>10, TaskCredit

LEMMA CreditResponds ==
  ASSUME EngineInv, TypeOK', CreditInv, NEW t \in Tasks, NEW p, NEW n, Turning(t, p, n),
         NEW kind, NEW f, Respond(t, p, n, kind, f)
  PROVE  CreditInv'
<1> DEFINE keep == IF kind = "listing" THEN p.charge ELSE 0
<1>1. PICK r \in Responses, len \in Lengths :
        LET charge == IF kind = "bytes" THEN 2 * len ELSE BlockCharge
        IN /\ resp[r].released
           /\ resp' = [resp EXCEPT ![r] =
                [kind |-> kind, file |-> f, len |-> len, cursor |-> 0, closed |-> FALSE,
                 reading |-> FALSE, released |-> FALSE, charge |-> charge, dir |-> keep]]
           /\ owned' = [body |-> owned.body + charge, dir |-> Less(owned.dir, p.charge - keep)]
  BY DEF Respond
<1> DEFINE charge == IF kind = "bytes" THEN 2 * len ELSE BlockCharge
<1>2. /\ TypeOK /\ Go(t, Idle)
  BY DEF Respond, EngineInv
<1>3. /\ ~closed /\ task[t].held = 0 /\ p.charge = Listed(t) /\ p.charge \in Nat
  BY TurnCredit
<1>4. /\ owned.body \in Nat /\ owned.dir \in Nat /\ Listed(t) <= owned.dir
  BY <1>2, DuesOwned
<1>5. keep \in Nat /\ keep <= p.charge /\ charge \in Nat
  BY <1>3, EngineAssumption DEF BlockCharge
<1>6. BodyDue(r) = 0 /\ DirDue(r) = 0
  BY <1>1 DEF BodyDue, DirDue
<1>7. /\ resp'[r].released = FALSE /\ resp'[r].charge = charge /\ resp'[r].dir = keep
      /\ \A s \in Responses : s # r => resp'[s] = resp[s]
  BY <1>1, <1>2 DEF TypeOK
<1>8. owned'.body = owned.body + charge /\ owned'.dir = Less(owned.dir, p.charge - keep)
  BY <1>1
<1> HIDE DEF keep, charge
<1>9. Less(owned.dir, p.charge - keep) = owned.dir - (p.charge - keep)
  <2>1. p.charge - keep \in Nat /\ p.charge - keep <= owned.dir
    BY <1>3, <1>4, <1>5
  <2> QED BY <1>3, <1>4, <2>1, LessExact
<1>10. BodyDue(r)' = charge /\ DirDue(r)' = keep
  BY <1>7 DEF BodyDue, DirDue
<1>11. task'[t] = Idle /\ \A u \in Tasks : u # t => task'[u] = task[u]
  BY <1>2, IdleIs, PutTask DEF Go
<1>12. task'[t].held = 0 /\ Listed(t)' = 0
  BY <1>11, IdleIs DEF Listed
<1>13. owned'.body = ((owned.body - task[t].held) - BodyDue(r)) + task'[t].held + BodyDue(r)'
  BY <1>3, <1>4, <1>5, <1>6, <1>8, <1>10, <1>12
<1>14. owned'.dir = ((owned.dir - Listed(t)) - DirDue(r)) + Listed(t)' + DirDue(r)'
  BY <1>3, <1>4, <1>5, <1>6, <1>8, <1>9, <1>10, <1>12
<1> QED BY <1>2, <1>7, <1>11, <1>13, <1>14, BodyCredit

\* A turn that neither takes nor gives credits: the plan keeps what it has.
LEMMA CreditSuspends ==
  ASSUME EngineInv, TypeOK', CreditInv, NEW t \in Tasks, NEW p, NEW n, Turning(t, p, n), NEW k, Go(t, k),
         k.held = p.held, k.job = p.job, k.charge = p.charge, UNCHANGED <<resp, owned>>
  PROVE  CreditInv'
<1>1. /\ task[t].held = 0 /\ p.held = 0 /\ p.job = 0 /\ p.charge = Listed(t) /\ p.charge \in Nat
  BY TurnCredit
<1>2. TypeOK /\ k.held = task[t].held /\ k.charge + k.job = task[t].charge + task[t].job
  BY <1>1 DEF Listed, EngineInv
<1>3. \A r \in Responses : resp'[r].released = resp[r].released /\ resp'[r].charge = resp[r].charge
                           /\ resp'[r].dir = resp[r].dir
  OBVIOUS
<1> QED BY <1>2, <1>3, SameCredit

LEMMA CreditDone ==
  ASSUME EngineInv, TypeOK', CreditInv, NEW t \in Tasks, NEW p, NEW n, Turning(t, p, n), Done(t, p, n)
  PROVE  CreditInv'
<1>1. ASSUME NEW f \in p.todo,
             Go(t, [p EXCEPT !.at = "verify", !.op = f, !.todo = @ \ {f}, !.dir = None, !.got = None]),
             UNCHANGED <<resp, owned>>
      PROVE  CreditInv'
  <2> DEFINE k == [p EXCEPT !.at = "verify", !.op = f, !.todo = @ \ {f}, !.dir = None, !.got = None]
  <2>1. p \in TaskType
    BY DEF Turning
  <2>2. k.held = p.held /\ k.job = p.job /\ k.charge = p.charge /\ Go(t, k)
    BY <1>1, <2>1 DEF TaskType
  <2> HIDE DEF k
  <2> QED BY <1>1, <2>2, CreditSuspends
<1>2. CASE \E kind, f : Respond(t, p, n, kind, f)
  BY <1>2, CreditResponds
<1> QED BY <1>1, <1>2 DEF Done

LEMMA CreditAsks ==
  ASSUME EngineInv, TypeOK', CreditInv, NEW t \in Tasks, NEW p, NEW n, Turning(t, p, n),
         p.charge = 0, Ask(t, p, n)
  PROVE  CreditInv'
<1> DEFINE k(where, f, charge) == [p EXCEPT !.at = where, !.op = f, !.charge = charge, !.asks = @ + 1]
<1>1. CASE Drop(t, p, n)
  BY <1>1, CreditDrops
<1>2. CASE Done(t, [p EXCEPT !.todo = p.files], n)
  BY <1>2, PlanTodo, CreditDone
<1>3. p \in TaskType /\ TypeOK
  BY DEF Turning, EngineInv
<1>4. ASSUME NEW where, NEW f, NEW c
      PROVE  k(where, f, c).held = p.held /\ k(where, f, c).job = p.job /\ k(where, f, c).charge = c
  BY <1>3 DEF TaskType
<1>5. ASSUME NEW where, NEW f, Go(t, k(where, f, 0)), UNCHANGED <<resp, owned>>
      PROVE  CreditInv'
  <2> DEFINE q == k(where, f, 0)
  <2>1. q.held = p.held /\ q.job = p.job /\ q.charge = p.charge /\ Go(t, q)
    BY <1>4, <1>5
  <2> HIDE DEF q
  <2> QED BY <1>5, <2>1, CreditSuspends
<1>6. CASE /\ Go(t, k("dir", Root, ListBase)) /\ owned' = [owned EXCEPT !.dir = @ + ListBase]
           /\ UNCHANGED resp
  <2> DEFINE q == k("dir", Root, ListBase)
  <2>1. q.held = p.held /\ q.job = p.job /\ q.charge = ListBase /\ Go(t, q)
    BY <1>4, <1>6
  <2> HIDE DEF q, k
  <2>2. task[t].held = 0 /\ p.held = 0 /\ p.job = 0 /\ p.charge = Listed(t)
    BY TurnCredit
  <2>3. task \in [Tasks -> TaskType] /\ task'[t] = q /\ \A u \in Tasks : u # t => task'[u] = task[u]
    BY <1>3, <2>1 DEF Go, TypeOK, TaskType
  <2>4. owned.body \in Nat /\ owned.dir \in Nat /\ owned \in [body : Nat, dir : Nat]
    BY <1>3 DEF TypeOK
  <2>5. owned'.body = owned.body /\ owned'.dir = owned.dir + ListBase
    BY <1>6, <2>4
  <2>6. task'[t].held = 0 /\ Listed(t)' = ListBase
    BY <2>1, <2>2, <2>3 DEF Listed, ListBase
  <2>7. /\ owned'.body = (owned.body - task[t].held) + task'[t].held
        /\ owned'.dir = (owned.dir - Listed(t)) + Listed(t)'
    BY <2>2, <2>4, <2>5, <2>6
  <2>8. \A r \in Responses : BodyDue(r)' = BodyDue(r) /\ DirDue(r)' = DirDue(r)
    BY <1>6 DEF BodyDue, DirDue
  <2> QED BY <1>3, <2>3, <2>7, <2>8, TaskCredit
<1> QED BY <1>1, <1>2, <1>5, <1>6 DEF Ask

LEMMA CreditPlan ==
  ASSUME EngineInv, TypeOK', CreditInv, NEW t \in Tasks, handle(t) \/ handle_resumes(t)
  PROVE  CreditInv'
<1>1. PICK p, n : Turning(t, p, n) /\ Going(t, p, n)
  BY PlanBegins, PlanGoesOn
<1>2. p \in TaskType
  BY <1>1 DEF Turning
<1>3. CASE Drop(t, p, n) \/ Done(t, p, n)
  BY <1>1, <1>3, CreditDrops, CreditDone
<1>4. CASE p.charge = 0 /\ Ask(t, p, n)
  BY <1>1, <1>4, CreditAsks
<1>5. CASE n = planning /\ Entries(t, p)
  <2> DEFINE k == [p EXCEPT !.at = "entry", !.op = Root, !.asks = @ + 1, !.got = None]
  <2>1. k.held = p.held /\ k.job = p.job /\ k.charge = p.charge
    BY <1>2 DEF TaskType
  <2>2. CASE Go(t, k) /\ UNCHANGED <<resp, owned>>
    <3> HIDE DEF k
    <3> QED BY <1>1, <2>1, <2>2, CreditSuspends
  <2>3. CASE Drop(t, p, planning) \/ Done(t, [p EXCEPT !.todo = p.files], planning)
    BY <1>1, <1>5, <2>3, PlanTodo, CreditDrops, CreditDone
  <2> QED BY <1>5, <2>2, <2>3 DEF Entries
<1>6. CASE Listing(t, p)
  <2> DEFINE k == [p EXCEPT !.at = "names", !.op = p.got, !.dir = p.got, !.got = None]
  <2>1. k.held = p.held /\ k.job = p.job /\ k.charge = p.charge
    BY <1>2 DEF TaskType
  <2>2. Go(t, k) /\ UNCHANGED <<resp, owned>>
    BY <1>6 DEF Listing
  <2> HIDE DEF k
  <2> QED BY <1>1, <2>1, <2>2, CreditSuspends
<1> QED BY <1>1, <1>3, <1>4, <1>5, <1>6 DEF Going

\* The jobs of a plan.
LEMMA CreditJobs ==
  ASSUME EngineInv, TypeOK', CreditInv, NEW t \in Tasks, hs_open(t) \/ hs_list(t)
  PROVE  CreditInv'
<1>1. TypeOK /\ task \in [Tasks -> TaskType] /\ task[t] \in TaskType /\ owned \in [body : Nat, dir : Nat]
      /\ owned.body \in Nat /\ owned.dir \in Nat
  BY DEF EngineInv, TypeOK, TaskType
<1>2. CASE hs_open(t)
  <2>1. PICK f \in Files : Go(t, [task[t] EXCEPT !.got = f]) /\ UNCHANGED <<resp, owned>>
    BY <1>2 DEF hs_open
  <2> DEFINE k == [task[t] EXCEPT !.got = f]
  <2>2. k.held = task[t].held /\ k.charge + k.job = task[t].charge + task[t].job /\ Go(t, k)
    BY <1>1, <2>1 DEF TaskType
  <2>3. \A r \in Responses : resp'[r].released = resp[r].released /\ resp'[r].charge = resp[r].charge
                             /\ resp'[r].dir = resp[r].dir
    BY <2>1
  <2> HIDE DEF k
  <2> QED BY <1>1, <2>1, <2>2, <2>3, SameCredit
<1>3. CASE hs_list(t)
  <2> DEFINE k == [task[t] EXCEPT !.job = NameCharge]
  <2>1. task[t].job = 0 /\ owned' = [owned EXCEPT !.dir = @ + NameCharge] /\ Go(t, k) /\ UNCHANGED resp
    BY <1>3 DEF hs_list
  <2>2. k.held = task[t].held /\ k.charge = task[t].charge /\ k.job = NameCharge
    BY <1>1 DEF TaskType
  <2> HIDE DEF k
  <2>3. task'[t] = k /\ \A u \in Tasks : u # t => task'[u] = task[u]
    BY <1>1, <2>1 DEF Go
  <2>4. task[t].charge \in Nat /\ task[t].held \in Nat
    BY <1>1, TaskFields
  <2>5. task'[t].held = task[t].held /\ Listed(t)' = Listed(t) + NameCharge /\ Listed(t) \in Nat
    BY <2>1, <2>2, <2>3, <2>4 DEF Listed, NameCharge
  <2>6. owned'.body = owned.body /\ owned'.dir = owned.dir + NameCharge
    BY <1>1, <2>1
  <2>7. /\ owned'.body = (owned.body - task[t].held) + task'[t].held
        /\ owned'.dir = (owned.dir - Listed(t)) + Listed(t)'
    BY <1>1, <2>4, <2>5, <2>6 DEF NameCharge
  <2>8. \A r \in Responses : BodyDue(r)' = BodyDue(r) /\ DirDue(r)' = DirDue(r)
    BY <2>1 DEF BodyDue, DirDue
  <2> QED BY <1>1, <2>3, <2>7, <2>8, TaskCredit
<1> QED BY <1>2, <1>3

\* After the pool is freed nobody has anything to give back.
LEMMA ClosedDues ==
  ASSUME EngineInv, closed
  PROVE  /\ \A t \in Tasks : task[t].held = 0 /\ Listed(t) = 0
         /\ \A r \in Responses : BodyDue(r) = 0 /\ DirDue(r) = 0
<1>1. Swept /\ \A t \in Tasks : task[t].op = None
  BY DEF EngineInv, LifeInv
<1>2. \A r \in Responses : BodyDue(r) = 0 /\ DirDue(r) = 0
  BY <1>1 DEF Swept, BodyDue, DirDue
<1>3. ASSUME NEW t \in Tasks PROVE task[t].held = 0 /\ Listed(t) = 0
  <2>1. TaskShape(task[t]) /\ task[t].at \notin PlanAt
    BY <1>1 DEF EngineInv, Swept, Planners
  <2>2. task[t].charge = 0 /\ task[t].job = 0
    BY <2>1 DEF TaskShape
  <2>3. task[t].at \notin WaitAt
    BY <1>1, Points, ReaderIs
  <2>4. task[t].held = 0
    BY <2>1, <2>3 DEF TaskShape, WaitAt
  <2> QED BY <2>2, <2>4 DEF Listed
<1> QED BY <1>2, <1>3

\* A task that neither plans nor collects has no credits.
LEMMA NoCredits ==
  ASSUME NEW k, TaskShape(k), k.at \notin PlanAt
  PROVE  k.charge = 0 /\ k.job = 0 /\ (k.at \notin {"collect-check", "collect"} => k.held = 0)
BY DEF TaskShape

LEMMA TurnCredits ==
  ASSUME TypeOK, NEW r \in Responses, NEW n \in Nat, NEW busy \in BOOLEAN, Turn(r, n, busy)
  PROVE  \A s \in Responses : resp'[s].released = resp[s].released /\ resp'[s].charge = resp[s].charge
                              /\ resp'[s].dir = resp[s].dir
<1>1. PICK b \in BodyType :
        /\ resp' = [resp EXCEPT ![r] = b] /\ b.released = resp[r].released
        /\ b.charge = resp[r].charge /\ b.dir = resp[r].dir
  BY TurnIs
<1>2. resp'[r] = b /\ \A s \in Responses : s # r => resp'[s] = resp[s]
  BY <1>1, PutBody
<1> QED BY <1>1, <1>2

\* The response is released, unless it was, and the task gives back what it holds.
LEMMA CreditReleases ==
  ASSUME EngineInv, TypeOK', CreditInv, NEW t \in Tasks, NEW r \in Responses,
         \A u \in Tasks : u # t => task'[u] = task[u],
         \A s \in Responses : s # r => resp'[s] = resp[s],
         task[t].at \notin PlanAt, task'[t].held = 0, Listed(t)' = 0, resp'[r].released = TRUE,
         owned' = Released(r, [owned EXCEPT !.body = Less(@, task[t].held)])
  PROVE  CreditInv'
<1>1. TypeOK /\ TaskShape(task[t]) /\ owned \in [body : Nat, dir : Nat]
  BY DEF EngineInv, TypeOK
<1>2. /\ owned.body \in Nat /\ owned.dir \in Nat /\ task[t].held \in Nat /\ task[t].held <= owned.body
      /\ BodyDue(r) \in Nat /\ DirDue(r) \in Nat /\ task[t].held + BodyDue(r) <= owned.body
      /\ DirDue(r) <= owned.dir
  BY <1>1, DuesOwned
<1>3. closed => task[t].held = 0 /\ BodyDue(r) = 0 /\ DirDue(r) = 0
  BY ClosedDues
<1>4. Listed(t) = 0
  BY <1>1, NoCredits DEF Listed
<1> DEFINE o == [owned EXCEPT !.body = Less(@, task[t].held)]
<1>5. Less(owned.body, task[t].held) = owned.body - task[t].held
  BY <1>2, <1>3, LessExact
<1>6. o.body = owned.body - task[t].held /\ o.dir = owned.dir /\ o.body \in Nat
  BY <1>1, <1>2, <1>5
<1>7. owned' = Released(r, o)
  OBVIOUS
<1> HIDE DEF o
<1>8. owned'.body = o.body - BodyDue(r) /\ owned'.dir = o.dir - DirDue(r)
  <2>1. CASE resp[r].released
    <3>1. BodyDue(r) = 0 /\ DirDue(r) = 0 /\ owned' = o
      BY <1>7, <2>1 DEF Released, BodyDue, DirDue
    <3> QED BY <1>2, <1>6, <3>1
  <2>2. CASE ~resp[r].released
    <3>1. BodyDue(r) = resp[r].charge /\ DirDue(r) = resp[r].dir
      BY <2>2 DEF BodyDue, DirDue
    <3>2. BodyDue(r) <= o.body
      BY <1>2, <1>6
    <3>3. Less(o.body, BodyDue(r)) = o.body - BodyDue(r) /\ Less(o.dir, DirDue(r)) = o.dir - DirDue(r)
      BY <1>2, <1>3, <1>6, <3>2, LessExact
    <3> QED BY <1>7, <2>2, <3>1, <3>3 DEF Released
  <2> QED BY <2>1, <2>2
<1>9. BodyDue(r)' = 0 /\ DirDue(r)' = 0
  BY DEF BodyDue, DirDue
<1>10. owned'.body = ((owned.body - task[t].held) - BodyDue(r)) + task'[t].held + BodyDue(r)'
  BY <1>2, <1>6, <1>8, <1>9
<1>11. owned'.dir = ((owned.dir - Listed(t)) - DirDue(r)) + Listed(t)' + DirDue(r)'
  BY <1>2, <1>4, <1>6, <1>8, <1>9
<1> QED BY <1>1, <1>10, <1>11, BodyCredit

LEMMA CreditFails ==
  ASSUME EngineInv, TypeOK', CreditInv, NEW t \in Tasks, NEW r \in Responses, Fail(t, r),
         task[t].at \notin PlanAt
  PROVE  CreditInv'
<1>1. /\ TypeOK /\ task' = [task EXCEPT ![t] = Idle] /\ resp \in [Responses -> BodyType]
      /\ owned' = Released(r, [owned EXCEPT !.body = Less(@, task[t].held)])
      /\ resp' = [resp EXCEPT ![r] = [@ EXCEPT !.closed = TRUE, !.file = None, !.reading = FALSE,
                                               !.released = TRUE]]
  BY DEF EngineInv, TypeOK, BodyType, Fail, Shut, Go
<1>2. task'[t] = Idle /\ \A u \in Tasks : u # t => task'[u] = task[u]
  BY <1>1, IdleIs, PutTask
<1>3. resp'[r].released = TRUE /\ \A s \in Responses : s # r => resp'[s] = resp[s]
  BY <1>1 DEF BodyType
<1>4. task'[t].held = 0 /\ Listed(t)' = 0
  BY <1>2, IdleIs DEF Listed
<1> QED BY <1>1, <1>2, <1>3, <1>4, CreditReleases

LEMMA CreditShutReleases ==
  ASSUME EngineInv, EngineInv', CreditInv, NEW t \in Tasks, shut_releases(t)
  PROVE  CreditInv'
<1> DEFINE r == task[t].on
           k == IF task[t].at = "drain" THEN Idle ELSE [task[t] EXCEPT !.at = "close-next", !.on = None]
<1>1. /\ task[t].at \in {"drain", "close-drain"} /\ Go(t, k)
      /\ owned' = Released(r, owned) /\ resp' = [resp EXCEPT ![r].released = TRUE]
  BY DEF shut_releases
<1>2. /\ TypeOK /\ TypeOK' /\ TaskShape(task[t]) /\ TaskShape(task'[t]) /\ task \in [Tasks -> TaskType]
      /\ resp \in [Responses -> BodyType] /\ owned \in [body : Nat, dir : Nat]
  BY DEF EngineInv, TypeOK, TaskType, BodyType
<1>3. r \in Responses /\ task[t].at \notin PlanAt /\ task[t].held = 0
  <2>1. task[t].at \in ShutAt /\ task[t].at \notin PlanAt /\ task[t].at \notin {"collect-check", "collect"}
    BY <1>1 DEF ShutAt, PlanAt
  <2> QED BY <1>2, <2>1, TaskFields, NoCredits DEF TaskShape
<1>4. k.at \in {"idle", "close-next"}
  BY <1>2, IdleIs DEF TaskType
<1>5. task'[t] = k /\ \A u \in Tasks : u # t => task'[u] = task[u]
  BY <1>1, <1>2 DEF Go
<1>6. resp'[r].released = TRUE /\ \A s \in Responses : s # r => resp'[s] = resp[s]
  BY <1>1, <1>2, <1>3 DEF BodyType
<1> HIDE DEF k, r
<1>7. task'[t].held = 0 /\ Listed(t)' = 0
  <2>1. task'[t].at \notin PlanAt /\ task'[t].at \notin {"collect-check", "collect"}
    BY <1>4, <1>5 DEF PlanAt
  <2>2. task'[t].charge = 0 /\ task'[t].job = 0 /\ task'[t].held = 0
    BY <1>2, <2>1, NoCredits
  <2> QED BY <2>2 DEF Listed
<1>8. [owned EXCEPT !.body = Less(@, task[t].held)] = owned
  <2>1. Less(owned.body, 0) = owned.body
    BY <1>2, LessExact
  <2> QED BY <1>2, <1>3, <2>1
<1>9. owned' = Released(r, [owned EXCEPT !.body = Less(@, task[t].held)])
  BY <1>1, <1>8 DEF r
<1> QED BY <1>2, <1>3, <1>5, <1>6, <1>7, <1>9, CreditReleases

\* A step between points at which a task has no credits, or has those of its collection.
LEMMA PlainCredit ==
  ASSUME EngineInv, EngineInv', CreditInv, NEW t \in Tasks, NEW k, Go(t, k), UNCHANGED owned,
         \A r \in Responses : resp'[r].released = resp[r].released /\ resp'[r].charge = resp[r].charge
                              /\ resp'[r].dir = resp[r].dir,
         task[t].at \notin PlanAt, k.at \notin PlanAt,
         \/ k.held = task[t].held
         \/ {task[t].at, k.at} \cap {"collect-check", "collect"} = {}
  PROVE  CreditInv'
<1>1. /\ TypeOK /\ TypeOK' /\ TaskShape(task[t]) /\ TaskShape(task'[t]) /\ task \in [Tasks -> TaskType]
  BY DEF EngineInv, TypeOK, TaskType
<1>2. task'[t] = k
  BY <1>1 DEF Go
<1>3. /\ task[t].charge = 0 /\ task[t].job = 0 /\ k.charge = 0 /\ k.job = 0
      /\ (task[t].at \notin {"collect-check", "collect"} => task[t].held = 0)
      /\ (k.at \notin {"collect-check", "collect"} => k.held = 0)
  BY <1>1, <1>2, NoCredits
<1>4. k.held = task[t].held /\ k.charge + k.job = task[t].charge + task[t].job
  BY <1>3
<1> QED BY <1>1, <1>4, SameCredit

LEMMA CreditBegin ==
  ASSUME EngineInv, EngineInv', CreditInv, NEW t \in Tasks, NEW r \in Responses,
         NEW where \in {"check", "read-check", "collect-check", "send"}, Begin(t, r, where)
  PROVE  CreditInv'
<1>1. /\ task[t].at = "idle" /\ TypeOK /\ TypeOK' /\ task[t].at \notin PlanAt
      /\ (Turn(r, 0, TRUE) /\ Wait(t, r, where) /\ UNCHANGED owned) \/ Fail(t, r)
  BY DEF Begin, Usable, EngineInv, PlanAt
<1>2. CASE Turn(r, 0, TRUE) /\ Wait(t, r, where) /\ UNCHANGED owned
  <2>1. task[t].held = 0
    BY <1>1 DEF EngineInv, TaskShape
  <2>2. where \in WaitAt
    BY DEF WaitAt
  <2>3. PICK k \in TaskType : Go(t, k) /\ k.held = task[t].held /\ k.at \in ReadingAt
    BY <1>1, <1>2, <2>1, <2>2, WaitIs
  <2>4. \A s \in Responses : resp'[s].released = resp[s].released /\ resp'[s].charge = resp[s].charge
                             /\ resp'[s].dir = resp[s].dir
    <3>1. 0 \in Nat /\ TRUE \in BOOLEAN
      OBVIOUS
    <3> QED BY <1>1, <1>2, <3>1, TurnCredits
  <2>5. k.at \notin PlanAt
    BY <2>3, Points
  <2> QED BY <1>1, <1>2, <2>3, <2>4, <2>5, PlainCredit
<1>3. CASE Fail(t, r)
  BY <1>1, <1>3, CreditFails
<1> QED BY <1>1, <1>2, <1>3

LEMMA CreditMemory ==
  ASSUME EngineInv, EngineInv', CreditInv, NEW t \in Tasks, NEW r \in Responses,
         read_memory(t, r) \/ to_bytes_memory(t, r)
  PROVE  CreditInv'
<1>1. /\ task[t].at = "idle" /\ TypeOK /\ TypeOK' /\ task[t].at \notin PlanAt
      /\ resp[r].kind \in {"bytes", "listing"}
      /\ task \in [Tasks -> TaskType]
  BY DEF read_memory, to_bytes_memory, Usable, EngineInv, PlanAt, TypeOK, TaskType
<1>2. resp[r].cursor \in Nat /\ resp[r].len \in Nat /\ resp[r].cursor <= resp[r].len
  BY <1>1 DEF EngineInv, TypeOK, BodyInv
<1>3. ASSUME NEW n \in Nat, Turn(r, n, FALSE), UNCHANGED <<owned, task>>
      PROVE  CreditInv'
  <2>1. FALSE \in BOOLEAN
    OBVIOUS
  <2>2. \A s \in Responses : resp'[s].released = resp[s].released /\ resp'[s].charge = resp[s].charge
                             /\ resp'[s].dir = resp[s].dir
    BY <1>1, <1>3, <2>1, TurnCredits
  <2> DEFINE k == task[t]
  <2>3. Go(t, k) /\ k.at = "idle" /\ k.held = task[t].held /\ k.at \notin PlanAt
    BY <1>1, <1>3 DEF Go
  <2> HIDE DEF k
  <2> QED BY <1>1, <1>3, <2>2, <2>3, PlainCredit
<1>4. CASE Fail(t, r)
  BY <1>1, <1>4, CreditFails
<1>5. CASE read_memory(t, r)
  <2>1. Chunk(r) \in Nat
    BY DEF Chunk
  <2> QED BY <1>3, <1>5, <2>1 DEF read_memory
<1>6. CASE to_bytes_memory(t, r)
  <2> DEFINE n == resp[r].len - resp[r].cursor
  <2>1. n \in Nat
    BY <1>2
  <2>2. (Turn(r, n, FALSE) /\ UNCHANGED <<owned, task>>) \/ Fail(t, r)
    BY <1>6 DEF to_bytes_memory
  <2> HIDE DEF n
  <2> QED BY <1>3, <1>4, <2>1, <2>2
<1> QED BY <1>5, <1>6

\* The turns of a reading call that neither reserve nor release.
LEMMA CreditReads ==
  ASSUME EngineInv, EngineInv', CreditInv, NEW t \in Tasks,
         \/ read_checked(t) \/ read_resumes(t) \/ check_resumes(t) \/ send_resumes(t) \/ send_loops(t)
         \/ write_ends(t)
  PROVE  CreditInv'
<1> DEFINE r == task[t].on
<1>1. task[t].at \in ReadingAt /\ task[t].at # "collect"
  BY DEF read_checked, read_resumes, check_resumes, send_resumes, send_loops, write_ends, ReadingAt
<1>2. /\ r \in Responses /\ Reader(t, r) /\ TypeOK /\ TypeOK' /\ task[t].at \notin PlanAt
      /\ task[t] \in TaskType /\ TaskShape(task[t])
  BY <1>1, ReaderIs, Points DEF EngineInv, TypeOK, TaskType
<1>3. ASSUME UNCHANGED resp \/ \E n \in Nat, busy \in BOOLEAN : Turn(r, n, busy)
      PROVE  \A s \in Responses : resp'[s].released = resp[s].released /\ resp'[s].charge = resp[s].charge
                                  /\ resp'[s].dir = resp[s].dir
  BY <1>2, <1>3, TurnCredits
<1>4. CASE Fail(t, r)
  BY <1>2, <1>4, CreditFails
<1>5. ASSUME NEW where \in WaitAt, Wait(t, r, where), UNCHANGED <<resp, owned>>,
             task[t].held # 0 => where \in {"collect-check", "collect"}
      PROVE  CreditInv'
  <2>1. PICK k \in TaskType : Go(t, k) /\ k.held = task[t].held /\ k.at \in ReadingAt
    <3> HIDE DEF r
    <3> QED BY <1>2, <1>5, WaitIs
  <2>2. k.at \notin PlanAt
    BY <2>1, Points
  <2> QED BY <1>2, <1>3, <1>5, <2>1, <2>2, PlainCredit
<1>6. ASSUME task[t].at # "collect-check", Go(t, Idle), UNCHANGED owned,
             \E n \in Nat, busy \in BOOLEAN : Turn(r, n, busy)
      PROVE  CreditInv'
  <2>1. Idle.at \notin PlanAt /\ Idle.at \notin {"collect-check", "collect"}
    BY IdleIs DEF PlanAt
  <2>2. {task[t].at, Idle.at} \cap {"collect-check", "collect"} = {}
    BY <1>1, <1>6, <2>1
  <2> QED BY <1>2, <1>3, <1>6, <2>1, <2>2, PlainCredit
<1>7. CASE read_checked(t)
  <2> DEFINE next == IF task[t].at = "read-check" THEN "read" ELSE "collect"
  <2>1. (Wait(t, r, next) /\ UNCHANGED <<resp, owned>>) \/ Fail(t, r)
    BY <1>7 DEF read_checked
  <2>2. next \in WaitAt /\ (task[t].held # 0 => next \in {"collect-check", "collect"})
    BY <1>2, <1>7 DEF WaitAt, TaskShape, read_checked
  <2> HIDE DEF next
  <2> QED BY <1>4, <1>5, <2>1, <2>2
<1>8. CASE read_resumes(t) \/ check_resumes(t)
  <2>1. Chunk(r) \in Nat /\ 0 \in Nat /\ FALSE \in BOOLEAN
    BY DEF Chunk
  <2>2. task[t].at # "collect-check"
    BY <1>8 DEF read_resumes, check_resumes
  <2>3. \/ Fail(t, r)
        \/ Turn(r, Chunk(r), FALSE) /\ Go(t, Idle) /\ UNCHANGED owned
        \/ Turn(r, 0, FALSE) /\ Go(t, Idle) /\ UNCHANGED owned
    BY <1>8 DEF read_resumes, check_resumes
  <2> HIDE DEF r
  <2> QED BY <1>4, <1>6, <2>1, <2>2, <2>3
<1>9. CASE send_loops(t)
  <2> DEFINE next == IF task[t].at = "pause" THEN "send" ELSE "send-read"
             where == IF Chunk(r) = 1 THEN next ELSE "check"
  <2>1. (Wait(t, r, where) /\ UNCHANGED <<resp, owned>>) \/ Fail(t, r)
    BY <1>9 DEF send_loops
  <2>2. where \in WaitAt /\ task[t].held = 0
    BY <1>2, <1>9 DEF WaitAt, TaskShape, send_loops
  <2> HIDE DEF where
  <2> QED BY <1>4, <1>5, <2>1, <2>2
<1>10. CASE send_resumes(t) \/ write_ends(t)
  <2> DEFINE Paused(where) == [task[t] EXCEPT !.at = where, !.op = None]
  <2>1. ASSUME NEW where \in {"pause", "pause-read", "write"}, Go(t, Paused(where)), UNCHANGED owned,
               UNCHANGED resp \/ \E n \in Nat, busy \in BOOLEAN : Turn(r, n, busy)
        PROVE  CreditInv'
    <3> DEFINE k == Paused(where)
    <3>1. k.held = task[t].held /\ k.at = where /\ Go(t, k)
      BY <1>2, <2>1 DEF TaskType
    <3> HIDE DEF k
    <3>2. k.at \notin PlanAt
      BY <3>1 DEF PlanAt
    <3> QED BY <1>2, <1>3, <2>1, <3>1, <3>2, PlainCredit
  <2>2. 0..1 \subseteq Nat /\ 0 \in Nat /\ 1 \in Nat /\ TRUE \in BOOLEAN
    OBVIOUS
  <2>3. \/ Fail(t, r)
        \/ (\E n \in 0..1 : Turn(r, n, TRUE)) /\ Go(t, Paused("pause")) /\ UNCHANGED owned
        \/ (Turn(r, 0, TRUE) \/ Turn(r, 1, TRUE)) /\ Go(t, Paused("pause-read")) /\ UNCHANGED owned
        \/ Go(t, Paused("write")) /\ UNCHANGED <<resp, owned>>
    BY <1>10 DEF send_resumes, write_ends, Pause
  <2> HIDE DEF Paused, r
  <2> QED BY <1>4, <2>1, <2>2, <2>3
<1> QED BY <1>7, <1>8, <1>9, <1>10

LEMMA CreditCollect ==
  ASSUME EngineInv, EngineInv', CreditInv, NEW t \in Tasks, collect_resumes(t)
  PROVE  CreditInv'
<1> DEFINE r == task[t].on
           n == Copies * Chunk(r)
           k == [task[t] EXCEPT !.at = "collect-check", !.held = @ + n]
<1>1. /\ task[t].at = "collect"
      /\ \/ owned' = [owned EXCEPT !.body = @ + n] /\ Turn(r, 1, TRUE) /\ Go(t, k)
         \/ owned' = [owned EXCEPT !.body = Less(@, task[t].held)] /\ Turn(r, 0, FALSE) /\ Go(t, Idle)
         \/ Fail(t, r)
  BY DEF collect_resumes
<1>2. task[t].at \in ReadingAt /\ task[t].at \notin PlanAt /\ task[t] \in TaskType /\ TaskShape(task[t])
      /\ owned \in [body : Nat, dir : Nat] /\ TypeOK /\ TypeOK' /\ n \in Nat /\ task \in [Tasks -> TaskType]
  BY <1>1 DEF ReadingAt, PlanAt, EngineInv, TypeOK, TaskType, Copies, Chunk
<1>3. r \in Responses /\ Listed(t) = 0
  BY <1>2, ReaderIs, NoCredits DEF Listed
<1>4. /\ owned.body \in Nat /\ owned.dir \in Nat /\ task[t].held \in Nat /\ task[t].held <= owned.body
  BY <1>2, DuesOwned
<1> HIDE DEF n
<1>5. ASSUME NEW m \in Nat, NEW busy \in BOOLEAN, Turn(r, m, busy)
      PROVE  \A s \in Responses : BodyDue(s)' = BodyDue(s) /\ DirDue(s)' = DirDue(s)
  BY <1>2, <1>3, <1>5, TurnCredits DEF BodyDue, DirDue
<1>6. CASE owned' = [owned EXCEPT !.body = @ + n] /\ Turn(r, 1, TRUE) /\ Go(t, k)
  <2>1. k.held = task[t].held + n /\ k.charge = task[t].charge /\ k.job = task[t].job
    BY <1>2 DEF TaskType
  <2> HIDE DEF k
  <2>2. task'[t] = k /\ \A u \in Tasks : u # t => task'[u] = task[u]
    BY <1>2, <1>6 DEF Go
  <2>3. owned'.body = owned.body + n /\ owned'.dir = owned.dir
    BY <1>2, <1>6
  <2>4. task'[t].held = task[t].held + n /\ Listed(t)' = Listed(t)
    BY <2>1, <2>2 DEF Listed
  <2>5. /\ owned'.body = (owned.body - task[t].held) + task'[t].held
        /\ owned'.dir = (owned.dir - Listed(t)) + Listed(t)'
    BY <1>2, <1>3, <1>4, <2>3, <2>4
  <2>6. 1 \in Nat /\ TRUE \in BOOLEAN
    OBVIOUS
  <2>7. \A s \in Responses : BodyDue(s)' = BodyDue(s) /\ DirDue(s)' = DirDue(s)
    BY <1>5, <1>6, <2>6
  <2> QED BY <1>2, <2>2, <2>5, <2>7, TaskCredit
<1>7. CASE owned' = [owned EXCEPT !.body = Less(@, task[t].held)] /\ Turn(r, 0, FALSE) /\ Go(t, Idle)
  <2>1. closed => task[t].held = 0
    BY ClosedDues
  <2>2. Less(owned.body, task[t].held) = owned.body - task[t].held
    BY <1>4, <2>1, LessExact
  <2>3. task'[t] = Idle /\ \A u \in Tasks : u # t => task'[u] = task[u]
    BY <1>2, <1>7 DEF Go
  <2>4. owned'.body = owned.body - task[t].held /\ owned'.dir = owned.dir
    BY <1>2, <1>7, <2>2
  <2>5. task'[t].held = 0 /\ Listed(t)' = 0
    BY <2>3, IdleIs DEF Listed
  <2>6. /\ owned'.body = (owned.body - task[t].held) + task'[t].held
        /\ owned'.dir = (owned.dir - Listed(t)) + Listed(t)'
    BY <1>3, <1>4, <2>4, <2>5
  <2>7. 0 \in Nat /\ FALSE \in BOOLEAN
    OBVIOUS
  <2>8. \A s \in Responses : BodyDue(s)' = BodyDue(s) /\ DirDue(s)' = DirDue(s)
    BY <1>5, <1>7, <2>7
  <2> QED BY <1>2, <2>3, <2>6, <2>8, TaskCredit
<1>8. CASE Fail(t, r)
  BY <1>2, <1>3, <1>8, CreditFails
<1> QED BY <1>1, <1>6, <1>7, <1>8

\* The steps of closing, which hand over nothing but what shut_releases gives back.
LEMMA CreditCloses ==
  ASSUME EngineInv, EngineInv', CreditInv, NEW t \in Tasks,
         \/ \E r \in Responses : Response_close(t, r)
         \/ StaticEngine_open(t) \/ open_resumes(t) \/ StaticEngine_close(t)
         \/ close_plans(t) \/ close_next(t) \/ close_root(t) \/ close_runtime(t) \/ shut_frees(t)
  PROVE  CreditInv'
<1> DEFINE Ends == {"idle", "root", "shut", "drain", "close-plans", "close-next", "close-shut",
                    "close-drain", "close-runtime"}
<1>1. /\ resp \in [Responses -> BodyType] /\ task \in [Tasks -> TaskType] /\ task[t] \in TaskType
  BY DEF EngineInv, TypeOK, BodyType, TaskType
<1>2. ASSUME NEW k, Go(t, k), UNCHANGED owned, task[t].at \in Ends, k.at \in Ends,
             \/ UNCHANGED resp
             \/ \E r \in Responses : \/ resp' = [resp EXCEPT ![r].closed = TRUE]
                                     \/ resp' = [resp EXCEPT ![r].file = None]
      PROVE  CreditInv'
  <2>1. task[t].at \notin PlanAt /\ k.at \notin PlanAt
        /\ {task[t].at, k.at} \cap {"collect-check", "collect"} = {}
    BY <1>2 DEF PlanAt
  <2>2. \A s \in Responses : resp'[s].released = resp[s].released /\ resp'[s].charge = resp[s].charge
                             /\ resp'[s].dir = resp[s].dir
    <3>1. ASSUME NEW r \in Responses, NEW s \in Responses, resp' = [resp EXCEPT ![r].closed = TRUE]
          PROVE  resp'[s].released = resp[s].released /\ resp'[s].charge = resp[s].charge
                 /\ resp'[s].dir = resp[s].dir
      BY <1>1, <3>1 DEF BodyType
    <3>2. ASSUME NEW r \in Responses, NEW s \in Responses, resp' = [resp EXCEPT ![r].file = None]
          PROVE  resp'[s].released = resp[s].released /\ resp'[s].charge = resp[s].charge
                 /\ resp'[s].dir = resp[s].dir
      BY <1>1, <3>2 DEF BodyType
    <3> QED BY <1>2, <3>1, <3>2
  <2> QED BY <1>2, <2>1, <2>2, PlainCredit
<1>3. \A where : [Idle EXCEPT !.at = where].at = where
                 /\ \A r : [Idle EXCEPT !.at = where, !.on = r].at = where
  BY DEF Idle
<1>4. \A where : /\ [task[t] EXCEPT !.at = where].at = where
                 /\ \A r, left : [task[t] EXCEPT !.at = where, !.on = r, !.left = left].at = where
                 /\ \A left : [task[t] EXCEPT !.at = where, !.left = left].at = where
  BY <1>1 DEF TaskType
<1>5. CASE \E r \in Responses : Response_close(t, r)
  <2>1. PICK r \in Responses : Response_close(t, r)
    BY <1>5
  <2> DEFINE k == [Idle EXCEPT !.at = "shut", !.on = r]
  <2>2. k.at = "shut" /\ Go(t, k) /\ UNCHANGED owned /\ task[t].at = "idle"
        /\ resp' = [resp EXCEPT ![r].closed = TRUE]
    BY <1>3, <2>1 DEF Response_close, Forbid
  <2> HIDE DEF k
  <2> QED BY <1>2, <2>2
<1>6. CASE StaticEngine_open(t)
  <2> DEFINE k == [Idle EXCEPT !.at = "root"]
  <2>1. k.at = "root" /\ Go(t, k) /\ UNCHANGED <<owned, resp>> /\ task[t].at = "idle"
    BY <1>3, <1>6 DEF StaticEngine_open
  <2> HIDE DEF k
  <2> QED BY <1>2, <2>1
<1>7. CASE open_resumes(t) \/ close_runtime(t)
  <2>1. Go(t, Idle) /\ UNCHANGED <<owned, resp>> /\ task[t].at \in {"root", "close-runtime"}
    BY <1>7 DEF open_resumes, close_runtime
  <2> QED BY <1>2, <2>1, IdleIs
<1>8. CASE StaticEngine_close(t)
  <2> DEFINE k == [Idle EXCEPT !.at = "close-plans"]
  <2>1. k.at = "close-plans" /\ Go(t, k) /\ UNCHANGED <<owned, resp>> /\ task[t].at = "idle"
    BY <1>3, <1>8 DEF StaticEngine_close
  <2> HIDE DEF k
  <2> QED BY <1>2, <2>1
<1>9. CASE close_plans(t)
  <2> DEFINE k == [task[t] EXCEPT !.at = "close-next", !.left = registry]
  <2>1. k.at = "close-next" /\ Go(t, k) /\ UNCHANGED <<owned, resp>> /\ task[t].at = "close-plans"
    BY <1>4, <1>9 DEF close_plans
  <2> HIDE DEF k
  <2> QED BY <1>2, <2>1
<1>10. CASE close_next(t)
  <2>1. PICK r \in task[t].left :
          Forbid(r) /\ Go(t, [task[t] EXCEPT !.at = "close-shut", !.on = r, !.left = @ \ {r}])
    BY <1>10 DEF close_next
  <2> DEFINE k == [task[t] EXCEPT !.at = "close-shut", !.on = r, !.left = @ \ {r}]
  <2>2. Go(t, k) /\ UNCHANGED owned /\ task[t].at = "close-next" /\ resp' = [resp EXCEPT ![r].closed = TRUE]
    BY <1>10, <2>1 DEF close_next, Forbid
  <2>3. k.at = "close-shut"
    BY <1>1 DEF TaskType
  <2>4. r \in Responses
    BY <1>1, <2>1, TaskFields
  <2> HIDE DEF k
  <2> QED BY <1>2, <2>2, <2>3, <2>4
<1>11. CASE close_root(t)
  <2> DEFINE k == [task[t] EXCEPT !.at = "close-runtime"]
  <2>1. k.at = "close-runtime" /\ Go(t, k) /\ UNCHANGED <<owned, resp>> /\ task[t].at = "close-next"
    BY <1>4, <1>11 DEF close_root
  <2> HIDE DEF k
  <2> QED BY <1>2, <2>1
<1>12. CASE shut_frees(t)
  <2> DEFINE k == [task[t] EXCEPT !.at = IF @ = "shut" THEN "drain" ELSE "close-drain"]
             r == task[t].on
  <2>1. k.at \in {"drain", "close-drain"} /\ Go(t, k) /\ UNCHANGED owned
        /\ task[t].at \in {"shut", "close-shut"} /\ resp' = [resp EXCEPT ![r].file = None]
    BY <1>1, <1>12 DEF shut_frees, TaskType
  <2>2. r \in Responses
    <3>1. task[t].at \in ShutAt /\ TaskShape(task[t])
      BY <2>1 DEF ShutAt, EngineInv
    <3> QED BY <1>1, <3>1, TaskFields DEF TaskShape
  <2> HIDE DEF k, r
  <2> QED BY <1>2, <2>1, <2>2
<1> QED BY <1>5, <1>6, <1>7, <1>8, <1>9, <1>10, <1>11, <1>12

LEMMA CreditInit ==
  ASSUME Init
  PROVE  CreditInv
<1>1. /\ resp = [r \in Responses |-> NoBody] /\ owned = [body |-> 0, dir |-> 0]
      /\ task = [t \in Tasks |-> Idle] /\ IsFiniteSet(Tasks) /\ IsFiniteSet(Responses)
  BY EngineAssumption DEF Init
<1>2. NoBody.released
  BY DEF NoBody
<1>3. /\ \A r \in Responses : BodyDues[r] = 0 /\ DirDues[r] = 0
      /\ \A t \in Tasks : Helds[t] = 0 /\ Listeds[t] = 0
  BY <1>1, <1>2, IdleIs DEF BodyDues, DirDues, BodyDue, DirDue, Helds, Listeds, Listed
<1>4. SumOf(BodyDues, Responses) = 0 /\ SumOf(DirDues, Responses) = 0
  BY <1>1, <1>3, SumZero
<1>5. SumOf(Helds, Tasks) = 0 /\ SumOf(Listeds, Tasks) = 0
  BY <1>1, <1>3, SumZero
<1> QED BY <1>1, <1>4, <1>5 DEF CreditInv

LEMMA CreditStep ==
  ASSUME EngineInv, EngineInv', CreditInv, [Next]_vars
  PROVE  CreditInv'
<1>1. TypeOK'
  BY DEF EngineInv
<1>2. CASE UNCHANGED vars
  BY <1>2 DEF vars, CreditInv, BodyDues, DirDues, BodyDue, DirDue, Helds, Listeds, Listed
<1>3. ASSUME NEW t \in Users, Use(t) PROVE CreditInv'
  <2>1. t \in Tasks
    BY EngineAssumption
  <2>2. CASE StaticEngine_open(t)
    BY <2>1, <2>2, CreditCloses
  <2>3. CASE handle(t)
    BY <1>1, <2>1, <2>3, CreditPlan
  <2>4. ASSUME NEW r \in Responses, check(t, r) \/ read(t, r) \/ to_bytes(t, r) \/ send_to(t, r)
        PROVE  CreditInv'
    <3>1. \E where \in {"check", "read-check", "collect-check", "send"} : Begin(t, r, where)
      BY <2>4 DEF check, read, to_bytes, send_to
    <3> QED BY <2>1, <3>1, CreditBegin
  <2>5. ASSUME NEW r \in Responses, read_memory(t, r) \/ to_bytes_memory(t, r)
        PROVE  CreditInv'
    BY <2>1, <2>5, CreditMemory
  <2> QED BY <1>3, <2>2, <2>3, <2>4, <2>5 DEF Use
<1>4. ASSUME NEW t \in Tasks, Close(t) PROVE CreditInv'
  BY <1>4, CreditCloses DEF Close
<1>5. ASSUME NEW t \in Tasks, Resume(t) PROVE CreditInv'
  <2>1. CASE handle_resumes(t)
    BY <1>1, <2>1, CreditPlan
  <2>2. CASE check_resumes(t) \/ read_checked(t) \/ read_resumes(t) \/ send_resumes(t) \/ send_loops(t)
    BY <2>2, CreditReads
  <2>3. CASE collect_resumes(t)
    BY <2>3, CreditCollect
  <2>4. CASE shut_releases(t)
    BY <2>4, CreditShutReleases
  <2>5. CASE \/ open_resumes(t) \/ shut_frees(t)
             \/ close_plans(t) \/ close_next(t) \/ close_root(t) \/ close_runtime(t)
    BY <2>5, CreditCloses
  <2> QED BY <1>5, <2>1, <2>2, <2>3, <2>4, <2>5 DEF Resume
<1>6. ASSUME NEW t \in Tasks, hs_open(t) \/ hs_list(t) PROVE CreditInv'
  BY <1>1, <1>6, CreditJobs
<1>7. ASSUME NEW t \in Tasks, write_ends(t) PROVE CreditInv'
  BY <1>7, CreditReads
<1> QED BY <1>2, <1>3, <1>4, <1>5, <1>6, <1>7 DEF Next

\* The credits the pool has granted are those that responses and tasks have still to give back,
\* at every step and also after the pool is freed.
THEOREM EngineCredits == Spec => []CreditInv
<1>1. Init => CreditInv
  BY CreditInit
<1>2. EngineInv /\ EngineInv' /\ CreditInv /\ [Next]_vars => CreditInv'
  BY CreditStep
<1> QED BY <1>1, <1>2, EngineHolds, PTL DEF Spec

\* The sums in the properties are the sums of CreditInv.
LEMMA HeldSum == MapThenSumSet(LAMBDA t : task[t].held, Tasks) = SumOf(Helds, Tasks)
<1> DEFINE Eq(g) == g = [s \in SUBSET Tasks |->
                           IF s = {} THEN 0 ELSE task[Pick(s)].held + g[s \ {Pick(s)}]]
<1> DEFINE F == CHOOSE g : Eq(g)
<1>1. MapThenSumSet(LAMBDA t : task[t].held, Tasks) = F[Tasks]
  BY DEF MapThenSumSet, MapThenFoldSet, Pick
<1>2. \A g : Eq(g) <=> SumEq(g, Helds, Tasks)
  <2> SUFFICES ASSUME NEW g
               PROVE  [s \in SUBSET Tasks |->
                         IF s = {} THEN 0 ELSE task[Pick(s)].held + g[s \ {Pick(s)}]]
                    = [s \in SUBSET Tasks |->
                         IF s = {} THEN 0 ELSE Helds[Pick(s)] + g[s \ {Pick(s)}]]
    BY DEF SumEq
  <2>1. \A s \in SUBSET Tasks : s # {} => Helds[Pick(s)] = task[Pick(s)].held
    BY PickInside DEF Helds
  <2> QED BY <2>1
<1> HIDE DEF Eq
<1>3. Eq(F)
  BY <1>2, SumEqExists, EngineAssumption
<1>4. SumEq(F, Helds, Tasks)
  BY <1>2, <1>3
<1> HIDE DEF F
<1> QED BY <1>1, <1>4, SumIs, EngineAssumption

LEMMA ListedSum == MapThenSumSet(LAMBDA t : task[t].charge + task[t].job, Tasks) = SumOf(Listeds, Tasks)
<1> DEFINE Eq(g) == g = [s \in SUBSET Tasks |->
                           IF s = {} THEN 0
                           ELSE (task[Pick(s)].charge + task[Pick(s)].job) + g[s \ {Pick(s)}]]
<1> DEFINE F == CHOOSE g : Eq(g)
<1>1. MapThenSumSet(LAMBDA t : task[t].charge + task[t].job, Tasks) = F[Tasks]
  BY DEF MapThenSumSet, MapThenFoldSet, Pick
<1>2. \A g : Eq(g) <=> SumEq(g, Listeds, Tasks)
  <2> SUFFICES ASSUME NEW g
               PROVE  [s \in SUBSET Tasks |->
                         IF s = {} THEN 0
                         ELSE (task[Pick(s)].charge + task[Pick(s)].job) + g[s \ {Pick(s)}]]
                    = [s \in SUBSET Tasks |->
                         IF s = {} THEN 0 ELSE Listeds[Pick(s)] + g[s \ {Pick(s)}]]
    BY DEF SumEq
  <2>1. \A s \in SUBSET Tasks : s # {} => Listeds[Pick(s)] = task[Pick(s)].charge + task[Pick(s)].job
    BY PickInside DEF Listeds, Listed
  <2> QED BY <2>1
<1> HIDE DEF Eq
<1>3. Eq(F)
  BY <1>2, SumEqExists, EngineAssumption
<1>4. SumEq(F, Listeds, Tasks)
  BY <1>2, <1>3
<1> HIDE DEF F
<1> QED BY <1>1, <1>4, SumIs, EngineAssumption

LEMMA BodyDueSum ==
  ASSUME TypeOK
  PROVE  MapThenSumSet(LAMBDA r : resp[r].charge, Unreleased) = SumOf(BodyDues, Responses)
<1> DEFINE U == Unreleased
           Eq(g) == g = [s \in SUBSET U |->
                           IF s = {} THEN 0 ELSE resp[Pick(s)].charge + g[s \ {Pick(s)}]]
           F == CHOOSE g : Eq(g)
<1>0. U \subseteq Responses /\ IsFiniteSet(Responses) /\ IsFiniteSet(U)
  BY EngineAssumption, FS_Subset DEF Unreleased
<1>1. MapThenSumSet(LAMBDA r : resp[r].charge, U) = F[U]
  BY DEF MapThenSumSet, MapThenFoldSet, Pick
<1>2. \A g : Eq(g) <=> SumEq(g, BodyDues, U)
  <2> SUFFICES ASSUME NEW g
               PROVE  [s \in SUBSET U |->
                         IF s = {} THEN 0 ELSE resp[Pick(s)].charge + g[s \ {Pick(s)}]]
                    = [s \in SUBSET U |->
                         IF s = {} THEN 0 ELSE BodyDues[Pick(s)] + g[s \ {Pick(s)}]]
    BY DEF SumEq
  <2>1. \A r \in U : BodyDues[r] = resp[r].charge
    BY DEF BodyDues, BodyDue, Unreleased
  <2>2. \A s \in SUBSET U : s # {} => BodyDues[Pick(s)] = resp[Pick(s)].charge
    BY <2>1, PickInside
  <2> QED BY <2>2
<1> HIDE DEF Eq
<1>3. Eq(F)
  BY <1>0, <1>2, SumEqExists
<1>4. SumEq(F, BodyDues, U)
  BY <1>2, <1>3
<1>5. /\ \A r \in Responses : BodyDues[r] \in Nat
      /\ \A r \in Responses \ U : BodyDues[r] = 0
  BY DuesNat DEF BodyDues, BodyDue, Unreleased
<1> HIDE DEF F, U
<1>6. SumOf(BodyDues, Responses) = SumOf(BodyDues, U)
  BY <1>0, <1>5, SumMask
<1>7. SumOf(BodyDues, U) = F[U]
  BY <1>0, <1>4, SumIs
<1> QED BY <1>1, <1>6, <1>7 DEF U

LEMMA DirDueSum ==
  ASSUME TypeOK
  PROVE  MapThenSumSet(LAMBDA r : resp[r].dir, Unreleased) = SumOf(DirDues, Responses)
<1> DEFINE U == Unreleased
           Eq(g) == g = [s \in SUBSET U |->
                           IF s = {} THEN 0 ELSE resp[Pick(s)].dir + g[s \ {Pick(s)}]]
           F == CHOOSE g : Eq(g)
<1>0. U \subseteq Responses /\ IsFiniteSet(Responses) /\ IsFiniteSet(U)
  BY EngineAssumption, FS_Subset DEF Unreleased
<1>1. MapThenSumSet(LAMBDA r : resp[r].dir, U) = F[U]
  BY DEF MapThenSumSet, MapThenFoldSet, Pick
<1>2. \A g : Eq(g) <=> SumEq(g, DirDues, U)
  <2> SUFFICES ASSUME NEW g
               PROVE  [s \in SUBSET U |->
                         IF s = {} THEN 0 ELSE resp[Pick(s)].dir + g[s \ {Pick(s)}]]
                    = [s \in SUBSET U |->
                         IF s = {} THEN 0 ELSE DirDues[Pick(s)] + g[s \ {Pick(s)}]]
    BY DEF SumEq
  <2>1. \A r \in U : DirDues[r] = resp[r].dir
    BY DEF DirDues, DirDue, Unreleased
  <2>2. \A s \in SUBSET U : s # {} => DirDues[Pick(s)] = resp[Pick(s)].dir
    BY <2>1, PickInside
  <2> QED BY <2>2
<1> HIDE DEF Eq
<1>3. Eq(F)
  BY <1>0, <1>2, SumEqExists
<1>4. SumEq(F, DirDues, U)
  BY <1>2, <1>3
<1>5. /\ \A r \in Responses : DirDues[r] \in Nat
      /\ \A r \in Responses \ U : DirDues[r] = 0
  BY DuesNat DEF DirDues, DirDue, Unreleased
<1> HIDE DEF F, U
<1>6. SumOf(DirDues, Responses) = SumOf(DirDues, U)
  BY <1>0, <1>5, SumMask
<1>7. SumOf(DirDues, U) = F[U]
  BY <1>0, <1>4, SumIs
<1> QED BY <1>1, <1>6, <1>7 DEF U

\* CreditsExact: the body and directory credits that the pool has granted are those that plans,
\* reads and responses hold, whatever failed or was cancelled on the way.
THEOREM EngineCreditsExact == Spec => []CreditsExact
<1>1. TypeOK /\ CreditInv => CreditsExact
  BY HeldSum, ListedSum, BodyDueSum, DirDueSum DEF CreditInv, CreditsExact
<1> QED BY <1>1, EngineTypes, EngineCredits, PTL

\* ClosedEmpty: when StaticEngine::close has freed the pool, no plan is under way, no file or
\* response is open, and only a to_bytes in flight still owns credits.
THEOREM EngineClosedEmpty == Spec => []ClosedEmpty
<1>1. EngineInv /\ CreditInv => ClosedEmpty
  <2> SUFFICES ASSUME EngineInv, CreditInv, closed
               PROVE  /\ planning = 0 /\ registry = {} /\ owned.dir = 0
                      /\ \A f \in Files : file[f] = "none"
                      /\ \A r \in Responses : resp[r].closed /\ resp[r].released /\ ~resp[r].reading
                      /\ owned.body = MapThenSumSet(LAMBDA t : task[t].held, Tasks)
    BY DEF ClosedEmpty
  <2>1. TypeOK /\ (\A t \in Tasks : TaskShape(task[t])) /\ BodyInv /\ HolderInv /\ LifeInv /\ Swept
    BY DEF EngineInv, LifeInv
  <2>2. planning = 0 /\ registry = {} /\ file[Root] = "none" /\ Planners = {}
    BY <2>1, FS_EmptySet DEF LifeInv, Swept
  <2>3. \A r \in Responses : resp[r].closed /\ resp[r].released /\ ~resp[r].reading /\ resp[r].file = None
    BY <2>1 DEF BodyInv, Swept
  <2>4. \A t \in Tasks : Names(task[t]) = {}
    BY <2>1, <2>2, NoNames DEF Planners
  <2>5. \A f \in Files : file[f] = "none"
    BY <2>1, <2>2, <2>3, <2>4, EngineAssumption DEF HolderInv
  <2>6. /\ \A t \in Tasks : task[t].held = 0 /\ Listed(t) = 0
        /\ \A r \in Responses : BodyDue(r) = 0 /\ DirDue(r) = 0
    BY ClosedDues
  <2>7. /\ \A t \in Tasks : Listeds[t] = 0
        /\ \A r \in Responses : BodyDues[r] = 0 /\ DirDues[r] = 0
    BY <2>6 DEF Listeds, BodyDues, DirDues
  <2>8. SumOf(BodyDues, Responses) = 0 /\ SumOf(DirDues, Responses) = 0
    BY <2>7, SumZero, EngineAssumption
  <2>9. SumOf(Listeds, Tasks) = 0
    BY <2>7, SumZero, EngineAssumption
  <2>10. SumOf(Helds, Tasks) \in Nat
    BY <2>1, DuesNat
  <2>11. owned.dir = 0 /\ owned.body = SumOf(Helds, Tasks)
    BY <2>8, <2>9, <2>10 DEF CreditInv
  <2> QED BY <2>2, <2>3, <2>5, <2>11, HeldSum
<1> QED BY <1>1, EngineHolds, EngineCredits, PTL
=============================================================================
