----------------------------- MODULE Retirement -----------------------------
(***************************************************************************)
(* The life of a dog as its player and the table of records see it: it     *)
(* joins, plays, is recorded and is gone, once and in this order.  A row   *)
(* is written before the dog goes, and only one; but a database that       *)
(* answers a commit with an error after it has carried it out leaves a row *)
(* behind while the dog plays on.                                          *)
(***************************************************************************)
CONSTANTS
    Dogs,
    Rows,      \* the rows fit to be recorded, each of one dog
    MayDoubt   \* whether a commit may be carried out and fail

VARIABLES
    life,     \* the stage of each dog's life
    records   \* the table

Stages == {"unborn", "playing", "recorded", "gone"}

Init ==
    /\ life = [d \in Dogs |-> "unborn"]
    /\ records = {}

Passes(d, from, to) == life[d] = from /\ life' = [life EXCEPT ![d] = to]

\* A row of the dog that the table does not have yet is added.
Writes(d) ==
    \E r \in records' \ records :
        r \in Rows /\ r.dog = d /\ records' = records \cup {r}

Join(d) == UNCHANGED records /\ Passes(d, "unborn", "playing")
Record(d) == Writes(d) /\ Passes(d, "playing", "recorded")
Doubt(d) == MayDoubt /\ Writes(d) /\ life[d] = "playing" /\ UNCHANGED life
Depart(d) == UNCHANGED records /\ Passes(d, "recorded", "gone")

Next == \E d \in Dogs : Join(d) \/ Record(d) \/ Doubt(d) \/ Depart(d)

Spec == Init /\ [][Next]_<<life, records>>

=============================================================================
