---------------------------- MODULE MCNodeAddon ----------------------------
(* Small instances of NodeAddon. *)
EXTENDS NodeAddon
=============================================================================
