----------------------------- MODULE MCTerminal -----------------------------
(* A small geometry of Terminal for TLC. *)
EXTENDS Terminal

\* The parameters of the run overflow no sum; TypeOK does not hold of those that do.
ASSUME ParamsFit
=============================================================================
