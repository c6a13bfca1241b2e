------------------------------ MODULE MCRadios ------------------------------
(* Four commands of each radio for TLC, from loop() and a shortcut. *)
EXTENDS Radios
=============================================================================
