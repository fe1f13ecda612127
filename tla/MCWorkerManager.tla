--------------------------- MODULE MCWorkerManager ---------------------------
(* WorkerManager on small instances.                                       *)
EXTENDS WorkerManager
=============================================================================
