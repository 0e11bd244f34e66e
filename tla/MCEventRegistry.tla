---------------------------- MODULE MCEventRegistry ----------------------------
(***************************************************************************)
(* Small instances of EventRegistry for TLC.                               *)
(***************************************************************************)
EXTENDS EventRegistry
=============================================================================
