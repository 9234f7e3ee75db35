----------------------------- MODULE MCWorkerTask -----------------------------
(* Three attempts: the last can meet two older handlers that still run.     *)
EXTENDS WorkerTask
=============================================================================
