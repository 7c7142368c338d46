------------------------------ MODULE MCTokens ------------------------------
(* Two users, their tokens and the calls that present them, for TLC.        *)
EXTENDS RefreshTokens, TLC

TokenSymmetry == Permutations(Tokens) \cup Permutations(Calls)
=============================================================================
