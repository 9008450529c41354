------------------------------ MODULE MCWorker ------------------------------
(***************************************************************************)
(* The worker with one or two cells and a policy on the first days of the  *)
(* first cell, so that days are left after its window for retries and for  *)
(* a stuck day to leave the backlog.                                       *)
(***************************************************************************)
EXTENDS PolicyPage

CONSTANTS MCEnd, MCThreshold

MCCover ==
  [p \in PolicyIds |-> [cell |-> 1, threshold |-> MCThreshold, start |-> 0, end |-> MCEnd]]
=============================================================================
