---------------------------- MODULE MCNativePool ----------------------------
(* The executor for TLC: the pool Small runs one job at a time, the others  *)
(* two; a shared queue of at most QueueSize jobs.                           *)
EXTENDS NativePool, TLC

CONSTANTS Small, QueueSize

MCWorkerLimit == [p \in Pools |-> IF p = Small THEN 1 ELSE Cardinality(Workers)]
MCCapacity == [p \in Pools |-> QueueSize]
Symmetry == Permutations(Jobs) \cup Permutations(Files) \cup Permutations(Workers)
=============================================================================
