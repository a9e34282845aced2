-------------------------- MODULE MCRefreshTokens --------------------------
(* Instances of RefreshTokens for TLC. *)
EXTENDS RefreshTokens, TLC

\* The properties do not tell tokens or requests apart.
Symmetry == Permutations(Requests) \cup Permutations(Tokens)
=============================================================================
