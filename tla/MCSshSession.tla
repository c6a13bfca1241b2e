---------------------------- MODULE MCSshSession ----------------------------
(* One transfer, two receive and two connect tasks for TLC. *)
EXTENDS SshSession

CONSTANTS upload, r1, r2, c1
=============================================================================
