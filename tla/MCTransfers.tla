---------------------------- MODULE MCTransfers ----------------------------
(***************************************************************************)
(* The transfers for TLC.  f3, whose name the transfers refuse, starts on  *)
(* the card and on the host of an upload: it has to be skipped and be      *)
(* pruned.  What a behaviour does not follow starts in one state.          *)
(***************************************************************************)
EXTENDS Transfers

CONSTANTS f1, f2, f3, t1, t2

Unchanged == [f \in Files |-> f]

MCInit ==
  /\ TransfersInit /\ sd[f3] = 1 /\ host[f3] = Whole(1)
  /\ part # "upload" => sd = [f \in Files |-> 1] /\ host = [f \in Files |-> Whole(1)]
  /\ part # "download" => down_sd = [f \in Files |-> Absent]

\* Bounds: f3, which is never read, is not saved; nor is any file once the script is
\* astray, when only its end is claimed.
Bounded == sd'[f3] = sd[f3] /\ (astray => sd' = sd)

MCSpec == MCInit /\ [][TransfersNext /\ Bounded]_transfers /\ TransfersFairness
=============================================================================
