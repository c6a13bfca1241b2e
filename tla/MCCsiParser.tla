---------------------------- MODULE MCCsiParser ----------------------------
(* CsiParser over one byte of each class, with room for two parameters and ints up
   to 3: a third parameter is dropped, and 30 wraps around. *)
EXTENDS CsiParser
=============================================================================
