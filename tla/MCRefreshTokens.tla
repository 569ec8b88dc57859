-------------------------- MODULE MCRefreshTokens --------------------------
EXTENDS RefreshTokens, TLC

\* Tokens, families and request slots are interchangeable (safety runs only).
Symmetry == Permutations(Tokens) \cup Permutations(Families) \cup Permutations(Requests)
=============================================================================
