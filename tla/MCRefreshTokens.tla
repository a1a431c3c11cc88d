--------------------------- MODULE MCRefreshTokens --------------------------
(* Values for the constants of RefreshTokens.                              *)
EXTENDS RefreshTokens, TLC

Symmetric == Permutations(Tokens) \cup Permutations(Requests)
=============================================================================
