------------------------------ MODULE MCWorkers -----------------------------
(* Two worker processes and one job in each queue, for TLC.  The sweep is   *)
(* the job of the queue of reassignments: checks have the same options.     *)
EXTENDS WorkerProcesses
=============================================================================
