--------------------------- MODULE MCApplication ---------------------------
\* Application for TLC: tokens and maps are interchangeable.
EXTENDS Application, TLC

Interchangeable == Permutations(Tokens) \cup Permutations(Maps)

=============================================================================
