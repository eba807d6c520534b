------------------------------ MODULE MCServer ------------------------------
(* The servers, connections and limits of the run are in its cfg. No symmetry: the run checks *)
(* liveness.                                                                                   *)
EXTENDS Server
=============================================================================
