-------------------------------- MODULE Motion --------------------------------
(***************************************************************************)
(* How the page draws a dog between two answers: it turns it at the speed  *)
(* of half a circle in 300 ms, lets it catch up with the server's position *)
(* within 100 ms, and has the loot of its bag follow it.  Angles count in  *)
(* parts of a circle, times in the time a turn by one part takes; lengths  *)
(* and shares are whole numbers of parts too.                              *)
(***************************************************************************)
EXTENDS Integers

CONSTANT Half   \* the parts of half a circle, pi

ASSUME HalfAssumption == Half \in Nat \ {0} /\ Half % 2 = 0

Quarter == Half \div 2

\* convDirection.
ConvDirection(d) ==
    CASE d = "D" -> 0 [] d = "R" -> Quarter [] d = "U" -> Half [] d = "L" -> 3 * Quarter

Magnitude(n) == IF n < 0 THEN -n ELSE n

\* _interpolateRotation: the way round, how far it is, and the angle drawn a time
\* after the dog was told to turn from base to desired.
RotDir(base, desired) ==
    LET delta == desired - base
    IN  IF delta <= -Half \/ (0 <= delta /\ delta < Half) THEN 1 ELSE -1
RealDelta(base, desired) ==
    LET abs == Magnitude(desired - base)
    IN  IF abs >= Half THEN 2 * Half - abs ELSE abs
ConvertedDir(base, desired, time) ==
    IF time > RealDelta(base, desired) THEN desired ELSE base + RotDir(base, desired) * time

\* _interpolatePosition, for one coordinate.  A dog that stands, or is drawn farther
\* than near from its place, is drawn in its place at once and goes at its speed;
\* any other heads from where it is drawn for where the server will have it after
\* the time dest, until the next answer.  DrawnAfter counts in dest-ths.
Jumps(drawn, pos, speed, slow, near) ==
    Magnitude(speed) < slow \/ Magnitude(drawn - pos) > near
NewSpeed(drawn, pos, speed, dest) == pos + speed * dest - drawn
DrawnAfter(drawn, pos, speed, slow, near, dest, time) ==
    IF Jumps(drawn, pos, speed, slow, near) THEN (pos + speed * time) * dest
    ELSE drawn * dest + NewSpeed(drawn, pos, speed, dest) * time

\* MovingObject.doMove, for one coordinate and the share num/den of the way.
DoMove(pos, target, num, den) ==
    LET share == IF num < den THEN num ELSE den
    IN  pos * den + (target - pos) * share

=============================================================================
