---------------------------- MODULE MCTermScreen ----------------------------
(* The screen's rows and cells for TLC: row texts and characters are model values. *)
EXTENDS TermScreen

CONSTANTS a, x, y, space
=============================================================================
