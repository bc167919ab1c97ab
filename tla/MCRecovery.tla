----------------------------- MODULE MCRecovery -----------------------------
\* Recovery for TLC: tokens and maps are interchangeable.
EXTENDS Recovery, TLC

Interchangeable == Permutations(Tokens) \cup Permutations(Maps)

=============================================================================
