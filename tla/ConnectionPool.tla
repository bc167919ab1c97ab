--------------------------- MODULE ConnectionPool ---------------------------
(***************************************************************************)
(* conn_pool::ConnectionPool: a vector of connections, of which the first  *)
(* used_connections_ are lent, a mutex and a condition variable.  What     *)
(* happens while the mutex is held is one action; the notification is an   *)
(* action of its own, for ReturnConnection sends it after the unlock.      *)
(***************************************************************************)
EXTENDS Naturals, FiniteSets

CONSTANTS
    Threads,   \* threads that ask for connections, over and over
    Capacity,  \* the pool's capacity
    NULL       \* an empty shared_ptr

Slots == 1 .. Capacity
Connections == Slots   \* each named by the slot it is created in

ASSUME PoolAssumption ==
    Capacity \in Nat /\ IsFiniteSet(Threads) /\ NULL \notin Connections \cup Threads

VARIABLES
    pool,  \* pool_
    used,  \* used_connections_
    held,  \* the connection in each thread's ConnectionWrapper
    pc     \* where each thread stands

poolvars == <<pool, used, held, pc>>

\* "out": has nothing to do with the pool; "entering": in GetConnection, to
\* test the predicate; "waiting": blocked in cond_var_; "using": holds a
\* connection; "notifying": has put it back and unlocked the mutex.
Positions == {"out", "entering", "waiting", "using", "notifying"}

ThreadsAt(p) == {t \in Threads : pc[t] = p}
Goes(t, p) == pc' = [pc EXCEPT ![t] = p]

Init ==
    /\ pool = [i \in Slots |-> i]
    /\ used = 0
    /\ held = [t \in Threads |-> NULL]
    /\ pc = [t \in Threads |-> "out"]

GetConnection(t) ==
    /\ pc[t] = "out" /\ Goes(t, "entering")
    /\ UNCHANGED <<pool, used, held>>

\* Mutant: the slot after the next one is handed out.
TakeSkipsSlot(t) ==
    /\ pc[t] = "entering" /\ used < Capacity
    /\ held' = [held EXCEPT ![t] = IF used + 2 \in Slots THEN pool[used + 2] ELSE NULL]
    /\ pool' = [pool EXCEPT ![used + 1] = NULL]
    /\ used' = used + 1
    /\ Goes(t, "using")
\* Mutant: the connection is copied out of the pool, not moved.
TakeCopies(t) ==
    /\ pc[t] = "entering" /\ used < Capacity
    /\ held' = [held EXCEPT ![t] = pool[used + 1]]
    /\ used' = used + 1
    /\ Goes(t, "using") /\ UNCHANGED pool
\* The predicate of wait holds: the connection is moved out of its slot.
Take(t) ==
    /\ pc[t] = "entering" /\ used < Capacity
    /\ held' = [held EXCEPT ![t] = pool[used + 1]]
    /\ pool' = [pool EXCEPT ![used + 1] = NULL]
    /\ used' = used + 1
    /\ Goes(t, "using")

\* It does not: the thread releases the mutex and blocks, in one step.
Wait(t) ==
    /\ pc[t] = "entering" /\ used >= Capacity
    /\ Goes(t, "waiting")
    /\ UNCHANGED <<pool, used, held>>

\* External: a condition variable may wake a thread that nobody notified.
WakesSpuriously(t) ==
    /\ pc[t] = "waiting" /\ Goes(t, "entering")
    /\ UNCHANGED <<pool, used, held>>

\* ~ConnectionWrapper calls ReturnConnection.
ReturnConnection(t) ==
    /\ pc[t] = "using"
    /\ pool' = [pool EXCEPT ![used] = held[t]]
    /\ used' = used - 1
    /\ held' = [held EXCEPT ![t] = NULL]
    /\ Goes(t, "notifying")

\* Mutant: only the return of the last lent connection is announced.
NotifyWhenAllAreBack(t) ==
    /\ pc[t] = "notifying"
    /\ IF used > 0 \/ ThreadsAt("waiting") = {}
       THEN Goes(t, "out")
       ELSE \E w \in ThreadsAt("waiting") :
                pc' = [pc EXCEPT ![t] = "out", ![w] = "entering"]
    /\ UNCHANGED <<pool, used, held>>
\* notify_one wakes any one of the waiting threads.
Notify(t) ==
    /\ pc[t] = "notifying"
    /\ IF ThreadsAt("waiting") = {}
       THEN Goes(t, "out")
       ELSE \E w \in ThreadsAt("waiting") :
                pc' = [pc EXCEPT ![t] = "out", ![w] = "entering"]
    /\ UNCHANGED <<pool, used, held>>

Next ==
    \E t \in Threads :
        \/ GetConnection(t)
        \/ Take(t)
        \/ Wait(t)
        \/ WakesSpuriously(t)
        \/ ReturnConnection(t)
        \/ Notify(t)

Spec == Init /\ [][Next]_poolvars

-----------------------------------------------------------------------------

TypeOK ==
    /\ pool \in [Slots -> Connections \cup {NULL}]
    /\ used \in 0 .. Capacity
    /\ held \in [Threads -> Connections \cup {NULL}]
    /\ pc \in [Threads -> Positions]

\* A thread that GetConnection has served holds a connection, and not an empty
\* pointer left by a move: operator* of the wrapper never dereferences null.
UsersHoldConnections == \A t \in ThreadsAt("using") : held[t] # NULL

\* Every connection is in exactly one place, in one slot of the pool or in one
\* wrapper: two threads never talk over the same connection, and none is lost.
EachConnectionInOnePlace ==
    \A c \in Connections :
        /\ (\E i \in Slots : pool[i] = c) # (\E t \in Threads : held[t] = c)
        /\ \A i, j \in Slots : pool[i] = c /\ pool[j] = c => i = j
        /\ \A t, u \in Threads : held[t] = c /\ held[u] = c => t = u

\* While somebody waits, every free connection has somebody on the way to it, a
\* thread about to test the predicate or one about to notify: the notification
\* after the unlock is never too late.
NoLostWakeup ==
    ThreadsAt("waiting") # {} =>
        Capacity - used <= Cardinality(ThreadsAt("entering") \cup ThreadsAt("notifying"))

\* The pool is a lender of connections: what the slots hold is free, and a step
\* lends one free connection to one thread, takes one back, or does neither.
\* The vector, the counter and the waiting are ways of doing that.
Lender == INSTANCE Lending
    WITH free <- {c \in Connections : \E i \in Slots : pool[i] = c}, lent <- held
ImplementsLending == Lender!Spec

=============================================================================
