------------------------------- MODULE MCRace -------------------------------
(* A request, a deferred job and a sweep on one ticket, for TLC, with one    *)
(* fault at any point.                                                      *)
EXTENDS TimelyReassignment
=============================================================================
