------------------------------ MODULE Lending ------------------------------
(***************************************************************************)
(* What a pool of connections promises its users: at any time each         *)
(* connection is free or lent to one thread, a thread gets one connection  *)
(* at a time, and it is the one it gives back.  Which of the free ones it  *)
(* gets, and how it waits for one, is left open.                           *)
(***************************************************************************)
CONSTANTS Threads, Connections, NULL

VARIABLES
    free,  \* the connections nobody has
    lent   \* what each thread has

Init ==
    /\ free = Connections
    /\ lent = [t \in Threads |-> NULL]

Lend(t) ==
    /\ lent[t] = NULL
    /\ \E c \in free :
        /\ lent' = [lent EXCEPT ![t] = c]
        /\ free' = free \ {c}

GiveBack(t) ==
    /\ lent[t] # NULL
    /\ free' = free \cup {lent[t]}
    /\ lent' = [lent EXCEPT ![t] = NULL]

Next == \E t \in Threads : Lend(t) \/ GiveBack(t)

Spec == Init /\ [][Next]_<<free, lent>>

=============================================================================
