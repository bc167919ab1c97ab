-------------------------- MODULE CollisionDetector --------------------------
(***************************************************************************)
(* src/src/collision/collision_detector.{h,cpp}: which items a gatherer    *)
(* collects that walks from one point to another, and in which order.      *)
(*                                                                         *)
(* Coordinates are integers of one unit.  The code divides by the squared  *)
(* length of the walk; here every result keeps that length as the          *)
(* denominator (scale) of both of its fractions, so nothing is rounded.    *)
(***************************************************************************)
EXTENDS Integers, Sequences, SequencesExt

\* How far c is from the line a-b, and where along a-b its foot lies.
TryCollectPoint(a, b, c) ==
  LET u == [x |-> c.x - a.x, y |-> c.y - a.y]
      v == [x |-> b.x - a.x, y |-> b.y - a.y]
      u_dot_v == u.x * v.x + u.y * v.y
      u_len2  == u.x * u.x + u.y * u.y
      v_len2  == v.x * v.x + v.y * v.y
  IN  [sq_distance |-> u_len2 * v_len2 - u_dot_v * u_dot_v,
       proj_ratio  |-> u_dot_v,
       scale       |-> v_len2]

\* Mutant: the ends of the walk do not count.
IsCollectedInside(result, collect_radius) ==
  /\ 0 < result.proj_ratio
  /\ result.proj_ratio < result.scale
  /\ result.sq_distance <= collect_radius * collect_radius * result.scale
IsCollected(result, collect_radius) ==
  /\ 0 <= result.proj_ratio
  /\ result.proj_ratio <= result.scale
  /\ result.sq_distance <= collect_radius * collect_radius * result.scale

\* The meetings of gatherers (start_pos, end_pos, radius) with items (position,
\* radius), both given as sequences.  A gatherer that stays where it is meets
\* nothing.
GatheringEvents(gatherers, items) ==
  LET Result(m) == TryCollectPoint(gatherers[m[1]].start_pos, gatherers[m[1]].end_pos,
                                   items[m[2]].position)
      met == {m \in (DOMAIN gatherers) \X (DOMAIN items) :
                /\ gatherers[m[1]].start_pos # gatherers[m[1]].end_pos
                /\ IsCollected(Result(m), gatherers[m[1]].radius + items[m[2]].radius)}
  IN  {[gatherer_id |-> m[1], item_id |-> m[2], result |-> Result(m)] : m \in met}

Earlier(e, f) ==
  e.result.proj_ratio * f.result.scale < f.result.proj_ratio * e.result.scale

\* Events of equal times come in some order: std::sort promises none.
FindGatherEvents(gatherers, items) ==
  SetToSortSeq(GatheringEvents(gatherers, items), Earlier)
=============================================================================
