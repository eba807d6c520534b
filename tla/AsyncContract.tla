---------------------------- MODULE AsyncContract ----------------------------
(***************************************************************************)
(* What the asynchronous ABI promises its hosts, without threads, queues   *)
(* or memory:                                                              *)
(*  - an accepted operation is called back exactly once, and callbacks run *)
(*    one at a time;                                                       *)
(*  - an instance accepts nothing once it is closing, so at most one close;*)
(*  - the callback of a close that succeeds is the last of its instance.   *)
(* Bridge is shown to implement it (BridgeProps, Contract).                *)
(***************************************************************************)
CONSTANTS Ops, Insts, None

VARIABLES
  phase,    \* of each operation: "free", "accepted", "calling" or "called"
  of,       \* its instance
  closes,   \* whether it is a close
  ok,       \* the outcome its callback was told
  closing   \* the instances that accept no more

cvars == <<phase, of, closes, ok, closing>>

Phases == {"free", "accepted", "calling", "called"}
Pending(i) == {o \in Ops : of[o] = i /\ phase[o] \in {"accepted", "calling"}}
Users(i) == {o \in Ops : of[o] = i /\ phase[o] # "free"}

ContractInit ==
  /\ phase = [o \in Ops |-> "free"] /\ of = [o \in Ops |-> None]
  /\ closes = [o \in Ops |-> FALSE] /\ ok = [o \in Ops |-> FALSE]
  /\ closing = {}

\* A new operation; c when it is a close.
Accept(o, i, c) ==
  /\ phase[o] = "free" /\ i \notin closing
  /\ phase' = [phase EXCEPT ![o] = "accepted"]
  /\ of' = [of EXCEPT ![o] = i]
  /\ closes' = [closes EXCEPT ![o] = c]
  /\ closing' = IF c THEN closing \cup {i} ELSE closing
  /\ UNCHANGED ok

\* Instances end without a close: their creation, or the whole runtime, failed.
Retire(S) ==
  /\ closing' = closing \cup S
  /\ UNCHANGED <<phase, of, closes, ok>>

\* The callback is entered with its outcome.
Call(o, good) ==
  /\ phase[o] = "accepted"
  /\ \A p \in Ops : phase[p] # "calling"
  /\ closes[o] /\ good => Pending(of[o]) = {o}
  /\ phase' = [phase EXCEPT ![o] = "calling"]
  /\ ok' = [ok EXCEPT ![o] = good]
  /\ UNCHANGED <<of, closes, closing>>

\* The callback returns, to a host that still holds the operation.
Return(o) ==
  /\ phase[o] = "calling"
  /\ phase' = [phase EXCEPT ![o] = "called"]
  /\ UNCHANGED <<of, closes, ok, closing>>

\* The last holder of an operation is gone (its callback has returned, or returns
\* now), and perhaps of its instance with it.
Forget(o, S) ==
  /\ phase[o] \in {"calling", "called"}
  /\ \A i \in S : Users(i) \subseteq {o}
  /\ phase' = [phase EXCEPT ![o] = "free"]
  /\ of' = [of EXCEPT ![o] = None]
  /\ closes' = [closes EXCEPT ![o] = FALSE]
  /\ ok' = [ok EXCEPT ![o] = FALSE]
  /\ closing' = closing \ S

\* The last holder of an instance is gone.
Reuse(S) ==
  /\ \A i \in S : Users(i) = {}
  /\ closing' = closing \ S
  /\ UNCHANGED <<phase, of, closes, ok>>

ContractNext ==
  \/ \E o \in Ops, i \in Insts, c \in BOOLEAN : Accept(o, i, c)
  \/ \E o \in Ops, good \in BOOLEAN : Call(o, good)
  \/ \E o \in Ops : Return(o)
  \/ \E o \in Ops, S \in SUBSET Insts : Forget(o, S)
  \/ \E S \in SUBSET Insts : Retire(S) \/ Reuse(S)

ContractSpec == ContractInit /\ [][ContractNext]_cvars

-----------------------------------------------------------------------------
\* The fields have their types.
ContractTypeOK ==
  /\ phase \in [Ops -> Phases]
  /\ of \in [Ops -> Insts \cup {None}]
  /\ closes \in [Ops -> BOOLEAN] /\ ok \in [Ops -> BOOLEAN]
  /\ closing \subseteq Insts

\* docs/async-abi-1.1.md: nothing is called back for an instance once the callback
\* of its successful close runs.
LastCallback ==
  \A o \in Ops : (closes[o] /\ ok[o] /\ phase[o] \in {"calling", "called"})
                   => Pending(of[o]) \subseteq {o}

\* Callbacks are serialised.
OneCallback ==
  \A o, p \in Ops : phase[o] = "calling" /\ phase[p] = "calling" => o = p

\* An instance is asked to close at most once.
OneClose ==
  \A o, p \in Ops :
    closes[o] /\ closes[p] /\ of[o] = of[p] => o = p
=============================================================================
