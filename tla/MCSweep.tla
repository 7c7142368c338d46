------------------------------ MODULE MCSweep -------------------------------
(* No deferred job ever runs: the sweep alone answers for two tickets while *)
(* one process stops at any point, for TLC.                                 *)
EXTENDS TimelyReassignment
=============================================================================
