------------------------------ MODULE MCUpload ------------------------------
(* Three file names for TLC, one of which the transfer refuses.            *)
EXTENDS Upload

CONSTANTS f1, f2, f3
=============================================================================
