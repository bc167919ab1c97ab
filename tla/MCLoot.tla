------------------------------- MODULE MCLoot -------------------------------
(* A loot generator with probability 0.5 and a base interval of 4.          *)
EXTENDS Loot, TLC

ChanceOfHalf == [t \in 0 .. 8 |-> <<0, 16, 29, 41, 50, 58, 65, 70, 75>>[t + 1]]

\* The cases of tests/loot_generator_tests.cpp: four looters, nothing on the map.
ASSUME UnitTests == Generated(4, 8) = 3 /\ Generated(4, 2) = 1 /\ Generated(0, 8) = 0

Interchangeable == Permutations(Dogs)

=============================================================================
