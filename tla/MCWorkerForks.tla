--------------------------- MODULE MCWorkerForks ---------------------------
(* WorkerForks with the one cell and the one policy of MCWorker. *)
EXTENDS WorkerForks, MCWorker
=============================================================================
