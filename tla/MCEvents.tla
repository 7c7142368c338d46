------------------------------ MODULE MCEvents ------------------------------
(* A ticket with its first check queued and one from its creation on, two    *)
(* people and a worker who act on them at once, the notification queue      *)
(* observed, one fault at any point, for TLC.                               *)
EXTENDS TimelyReassignment, TLC

RequestSymmetry == Permutations(Requests)
=============================================================================
