----------------------------- MODULE UnitOfWork -----------------------------
(***************************************************************************)
(* How the use cases DogRetire and Records use the connection pool.  Each  *)
(* runs in the API strand, on whichever io thread serves it, creates one   *)
(* unit of work, uses its transaction and destroys it.                     *)
(*                                                                         *)
(* UnitOfWorkImpl keeps its ConnectionWrapper by reference, and what that  *)
(* refers to is the temporary GetConnection() returned.  The temporary     *)
(* dies at the end of CreateUnitOfWork, and with it the loan: the          *)
(* connection is back in the pool while the transaction on it is open.     *)
(* A connection that breaks is never replaced: the pool keeps it and every  *)
(* unit of work that gets it throws.                                       *)
(***************************************************************************)
EXTENDS ConnectionPool

VARIABLES
    strand,                \* the thread that runs a handler of the API strand
    work,                  \* the connection of each thread's open pqxx::work
    broken                 \* external: connections the server has dropped

unitvars == <<strand, work, broken>>
vars == <<poolvars, unitvars>>

UnitInit ==
    /\ Init
    /\ strand = NULL
    /\ work = [t \in Threads |-> NULL]
    /\ broken = {}

\* External: the database server drops a connection.
Break(c) ==
    /\ c \notin broken
    /\ broken' = broken \cup {c}
    /\ UNCHANGED <<poolvars, strand, work>>

\* Mutant: the handler is not run through the strand.
BeginOffStrand(t) ==
    /\ strand # t /\ strand' = t
    /\ GetConnection(t)
    /\ UNCHANGED <<work, broken>>
\* A handler starts and calls CreateUnitOfWork, hence GetConnection.
Begin(t) ==
    /\ strand = NULL
    /\ strand' = t
    /\ GetConnection(t)
    /\ UNCHANGED <<work, broken>>

\* The thread is inside GetConnection.
Acquire(t) ==
    /\ Take(t) \/ Wait(t)
    /\ UNCHANGED unitvars

\* UnitOfWorkImpl's constructor opens a transaction on the connection.
OpenWork(t) ==
    /\ pc[t] = "using" /\ work[t] = NULL /\ held[t] \notin broken
    /\ work' = [work EXCEPT ![t] = held[t]]
    /\ UNCHANGED <<poolvars, strand, broken>>

\* CreateUnitOfWork returns: the temporary wrapper is destroyed.
Release(t) ==
    /\ work[t] # NULL
    /\ ReturnConnection(t)
    /\ UNCHANGED unitvars

\* Mutant: the exception loses the connection.
OpenFailsAndLeaks(t) ==
    /\ pc[t] = "using" /\ work[t] = NULL /\ held[t] \in broken
    /\ held' = [held EXCEPT ![t] = NULL] /\ Goes(t, "notifying")
    /\ UNCHANGED <<pool, used, unitvars>>
\* The constructor throws; unwinding destroys the temporary all the same.
OpenFails(t) ==
    /\ pc[t] = "using" /\ work[t] = NULL /\ held[t] \in broken
    /\ ReturnConnection(t)
    /\ UNCHANGED unitvars

Announce(t) == Notify(t) /\ UNCHANGED unitvars

\* Mutant: the strand stays with a handler that threw.
EndOnlyAfterWork(t) ==
    /\ strand = t /\ pc[t] = "out" /\ work[t] # NULL
    /\ work' = [work EXCEPT ![t] = NULL]
    /\ strand' = NULL
    /\ UNCHANGED <<poolvars, broken>>
\* The handler saves or reads, commits or throws, and destroys the unit if it
\* got one.
End(t) ==
    /\ strand = t /\ pc[t] = "out"
    /\ work' = [work EXCEPT ![t] = NULL]
    /\ strand' = NULL
    /\ UNCHANGED <<poolvars, broken>>

Handler(t) ==
    \/ Acquire(t)
    \/ OpenWork(t)
    \/ Release(t)
    \/ OpenFails(t)
    \/ Announce(t)
    \/ End(t)

UnitNext ==
    \/ \E t \in Threads : Begin(t) \/ Handler(t)
    \/ \E c \in Connections : Break(c)

UnitSpec == UnitInit /\ [][UnitNext]_vars

\* A handler that runs goes on to its end.  Nothing makes a request arrive.
FairSpec == UnitSpec /\ \A t \in Threads : WF_vars(Handler(t))

-----------------------------------------------------------------------------

\* Two units of work never share a connection (pqxx refuses a second
\* transaction on it), although each gives its connection back too early: the
\* strand keeps a second unit from being created meanwhile.
OneWorkPerConnection ==
    \A t, u \in Threads : t # u /\ work[t] # NULL => work[t] # work[u]

\* A handler in the strand never blocks in GetConnection, which would stop the
\* whole API: at most one unit of work exists at a time, and one that could not
\* be created has given its connection back.
StrandNeverBlocks == ThreadsAt("waiting") = {}

\* A handler that entered the strand leaves it, whatever the database does.
HandlersEnd == \A t \in Threads : strand = t ~> strand # t

=============================================================================
