------------------------------ MODULE MCAccess ------------------------------
(* The founder and one email to register, for TLC.                          *)
EXTENDS AccessControl, TLC

CallSymmetry == Permutations(Calls)
=============================================================================
