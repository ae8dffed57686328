------------------------ MODULE MCReconciliationLoop ------------------------
(***************************************************************************)
(* The instance of ReconciliationLoop for TLC, with the constants of       *)
(* MCWorkerPool.                                                           *)
(***************************************************************************)
EXTENDS MCWorkerPool, ReconciliationLoop
=============================================================================
