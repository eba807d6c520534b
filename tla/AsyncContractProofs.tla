------------------------- MODULE AsyncContractProofs -------------------------
(***************************************************************************)
(* Every behaviour of the contract of the asynchronous ABI keeps its       *)
(* promises, for any number of operations and instances.                   *)
(***************************************************************************)
EXTENDS AsyncContract, TLAPS

\* A close that is on its way keeps its instance closing, so nothing is accepted
\* behind it.
CloseHolds ==
  \A o \in Ops : closes[o] => phase[o] # "free" /\ of[o] \in closing

\* The inductive invariant of the contract.
ContractInv ==
  ContractTypeOK /\ CloseHolds /\ LastCallback /\ OneCallback /\ OneClose

\* Before any operation is accepted the promises hold.
LEMMA ContractInitInv == ContractInit => ContractInv
BY DEF ContractInit, ContractInv, ContractTypeOK, CloseHolds, LastCallback, OneCallback,
       OneClose, Phases, Pending

\* Accepting an operation keeps the promises: a closing instance accepts none.
LEMMA AcceptInv ==
  ASSUME ContractInv, NEW o \in Ops, NEW i \in Insts, NEW c \in BOOLEAN, Accept(o, i, c)
  PROVE  ContractInv'
<1>1. ContractTypeOK'
  BY DEF ContractInv, ContractTypeOK, Accept, Phases
<1>2. CloseHolds'
  BY DEF ContractInv, ContractTypeOK, CloseHolds, Accept, Phases
<1>3. LastCallback'
  BY DEF ContractInv, ContractTypeOK, CloseHolds, LastCallback, Accept, Phases, Pending
<1>4. OneCallback'
  BY DEF ContractInv, ContractTypeOK, OneCallback, Accept, Phases
<1>5. OneClose'
  BY DEF ContractInv, ContractTypeOK, CloseHolds, OneClose, Accept, Phases
<1> QED BY <1>1, <1>2, <1>3, <1>4, <1>5 DEF ContractInv

\* Entering a callback keeps them: a successful close is called last.
LEMMA CallInv ==
  ASSUME ContractInv, NEW o \in Ops, NEW good \in BOOLEAN, Call(o, good)
  PROVE  ContractInv'
<1>1. ContractTypeOK'
  BY DEF ContractInv, ContractTypeOK, Call, Phases
<1>2. CloseHolds'
  BY DEF ContractInv, ContractTypeOK, CloseHolds, Call, Phases
<1>3. LastCallback'
  BY DEF ContractInv, ContractTypeOK, LastCallback, OneCallback, Call, Phases, Pending
<1>4. OneCallback'
  BY DEF ContractInv, ContractTypeOK, OneCallback, Call, Phases
<1>5. OneClose'
  BY DEF ContractInv, OneClose, Call
<1> QED BY <1>1, <1>2, <1>3, <1>4, <1>5 DEF ContractInv

\* So does returning from a callback,
LEMMA ReturnInv ==
  ASSUME ContractInv, NEW o \in Ops, Return(o)
  PROVE  ContractInv'
<1>1. ContractTypeOK' /\ CloseHolds'
  BY DEF ContractInv, ContractTypeOK, CloseHolds, Return, Phases
<1>2. LastCallback'
  BY DEF ContractInv, ContractTypeOK, LastCallback, Return, Phases, Pending
<1>3. OneCallback' /\ OneClose'
  BY DEF ContractInv, ContractTypeOK, OneCallback, OneClose, Return, Phases
<1> QED BY <1>1, <1>2, <1>3 DEF ContractInv

\* so does forgetting an operation that was called back,
LEMMA ForgetInv ==
  ASSUME ContractInv, NEW o \in Ops, NEW S \in SUBSET Insts, Forget(o, S)
  PROVE  ContractInv'
<1>1. ContractTypeOK'
  BY DEF ContractInv, ContractTypeOK, Forget, Phases
<1>2. CloseHolds'
  BY DEF ContractInv, ContractTypeOK, CloseHolds, Forget, Phases, Users
<1>3. LastCallback'
  BY DEF ContractInv, ContractTypeOK, LastCallback, Forget, Phases, Pending
<1>4. OneCallback' /\ OneClose'
  BY DEF ContractInv, ContractTypeOK, OneCallback, OneClose, Forget, Phases
<1> QED BY <1>1, <1>2, <1>3, <1>4 DEF ContractInv

\* and so do the end and the reuse of an instance.
LEMMA RetireInv ==
  ASSUME ContractInv, NEW S \in SUBSET Insts, Retire(S) \/ Reuse(S)
  PROVE  ContractInv'
<1>1. ContractTypeOK'
  BY DEF ContractInv, ContractTypeOK, Retire, Reuse
<1>2. CloseHolds'
  BY DEF ContractInv, ContractTypeOK, CloseHolds, Retire, Reuse, Users
<1>3. LastCallback' /\ OneCallback' /\ OneClose'
  BY DEF ContractInv, LastCallback, OneCallback, OneClose, Retire, Reuse, Pending
<1> QED BY <1>1, <1>2, <1>3 DEF ContractInv

\* The promises hold of every behaviour of the contract.
THEOREM ContractInvariant == ContractSpec => []ContractInv
<1>1. ContractInit => ContractInv
  BY ContractInitInv
<1>2. ContractInv /\ [ContractNext]_cvars => ContractInv'
  <2> SUFFICES ASSUME ContractInv, [ContractNext]_cvars PROVE ContractInv'
    OBVIOUS
  <2>1. CASE UNCHANGED cvars
    BY <2>1 DEF ContractInv, ContractTypeOK, CloseHolds, LastCallback, OneCallback,
                OneClose, Pending, cvars
  <2>2. CASE ContractNext
    BY <2>2, AcceptInv, CallInv, ReturnInv, ForgetInv, RetireInv DEF ContractNext
  <2> QED BY <2>1, <2>2
<1> QED BY <1>1, <1>2, PTL DEF ContractSpec

\* Once the callback of a successful close runs, its instance is never called again.
THEOREM ContractLastCallback == ContractSpec => []LastCallback
<1>1. ContractInv => LastCallback
  BY DEF ContractInv
<1> QED BY <1>1, ContractInvariant, PTL
==============================================================================
