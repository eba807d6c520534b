------------------------------ MODULE MCEngine ------------------------------
(* The tasks, files and limits of the run are in its cfg. No symmetry: the run checks liveness. *)
EXTENDS Engine
=============================================================================
