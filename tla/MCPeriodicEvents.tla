--------------------------- MODULE MCPeriodicEvents ---------------------------
(***************************************************************************)
(* Small instances of PeriodicEvents for TLC.                              *)
(***************************************************************************)
EXTENDS PeriodicEvents

\* A one-shot, a two-shot and an endless event.
MCInvokes == {1, 2, FOREVER}
MCForever == {FOREVER, 1}
=============================================================================
