------------------------------- MODULE MCClient -------------------------------
EXTENDS Client, Motion

Directions == {ConvDirection(d) : d \in {"D", "R", "U", "L"}}

\* Aligned dogs turn by a quarter or a half, whichever way is shorter.
ASSUME AlignedTurns ==
    \A a, b \in Directions :
        RealDelta(a, b) \in {0, Quarter, Half}

\* A half turn that the next command cuts short can end in a jump: the angle it
\* has reached is more than a circle away from the next one, so no turn is drawn.
ASSUME CutShortTurnsMayJump ==
    \E a, first, second \in Directions, time \in 1 .. Half - 1 :
        RealDelta(ConvertedDir(a, first, time), second) < 0
===============================================================================
