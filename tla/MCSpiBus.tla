----------------------------- MODULE MCSpiBus -----------------------------
(* Small instances of SpiBus for TLC. *)
EXTENDS SpiBus
CONSTANTS loop, upload
=============================================================================
