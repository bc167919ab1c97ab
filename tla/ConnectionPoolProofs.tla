------------------------ MODULE ConnectionPoolProofs ------------------------
(***************************************************************************)
(* What ConnectionPool guarantees for any capacity and any finite set of   *)
(* threads, and the units of work that use it (UnitOfWork).                *)
(***************************************************************************)
EXTENDS UnitOfWork, FiniteSetTheorems, TLAPS

Lent == {t \in Threads : held[t] # NULL}

\* The slots below used_connections_ are the empty ones, a wrapper is full
\* exactly while its thread uses it, and used_connections_ counts the full ones.
Shape ==
    /\ \A i \in Slots : pool[i] = NULL <=> i <= used
    /\ \A t \in Threads : held[t] # NULL <=> pc[t] = "using"
    /\ used = Cardinality(Lent)

Inv == TypeOK /\ Shape /\ EachConnectionInOnePlace

\* Every set of threads is finite, so it has a size.
LEMMA ThreadSets ==
    ASSUME NEW S \in SUBSET Threads
    PROVE  IsFiniteSet(S) /\ Cardinality(S) \in Nat
<1>1. IsFiniteSet(S)
  BY PoolAssumption, FS_Subset
<1> QED
  BY <1>1, FS_CardinalityType

LEMMA InitInv == Init => Inv
<1> SUFFICES ASSUME Init PROVE Inv
  OBVIOUS
<1>1. TypeOK
  BY PoolAssumption DEF Init, TypeOK, Slots, Connections, Positions
<1>2. Lent = {}
  BY DEF Init, Lent
<1>3. Shape
  BY <1>2, FS_EmptySet, PoolAssumption DEF Init, Shape, Slots, Connections
<1>4. EachConnectionInOnePlace
  BY PoolAssumption DEF Init, EachConnectionInOnePlace, Slots, Connections
<1> QED
  BY <1>1, <1>3, <1>4 DEF Inv

LEMMA TakeInv ==
    ASSUME Inv, NEW t \in Threads, Take(t)
    PROVE  Inv'
<1> USE DEF Inv
<1> DEFINE i == used + 1
           c == pool[i]
<1>1. used \in Nat /\ used < Capacity /\ i \in Slots /\ pc[t] = "entering"
  BY PoolAssumption DEF Take, TypeOK, Slots
<1>2. c \in Connections /\ c # NULL
  BY <1>1 DEF Shape, TypeOK
<1>3. held[t] = NULL
  BY <1>1 DEF Shape
<1>4. /\ held' = [held EXCEPT ![t] = c]
      /\ pool' = [pool EXCEPT ![i] = NULL]
      /\ used' = used + 1
      /\ pc' = [pc EXCEPT ![t] = "using"]
  BY DEF Take, Goes
<1>5. \A j \in Slots : pool[j] = c => j = i
  BY <1>1, <1>2 DEF EachConnectionInOnePlace
<1>6. \A u \in Threads : held[u] # c
  BY <1>1, <1>2 DEF EachConnectionInOnePlace
<1> HIDE DEF c
<1>7. TypeOK'
  BY <1>1, <1>2, <1>4, PoolAssumption DEF TypeOK, Positions
<1>8. Lent' = Lent \cup {t} /\ t \notin Lent
  BY <1>2, <1>3, <1>4 DEF Lent, TypeOK
<1>9. Cardinality(Lent') = used'
  <2>1. IsFiniteSet(Lent)
    BY ThreadSets DEF Lent
  <2>2. Cardinality(Lent \cup {t}) = Cardinality(Lent) + 1
    BY <1>8, <2>1, FS_AddElement
  <2> QED
    BY <1>4, <1>8, <2>2 DEF Shape
<1>10. \A j \in Slots : pool'[j] = NULL <=> j <= used'
  BY <1>1, <1>4 DEF Shape, TypeOK, Slots
<1>11. \A u \in Threads : held'[u] # NULL <=> pc'[u] = "using"
  BY <1>2, <1>4 DEF Shape, TypeOK
<1>12. Shape'
  BY <1>9, <1>10, <1>11 DEF Shape
<1>13. EachConnectionInOnePlace'
  <2> SUFFICES ASSUME NEW e \in Connections
               PROVE  /\ (\E j \in Slots : pool'[j] = e) # (\E u \in Threads : held'[u] = e)
                      /\ \A j, k \in Slots : pool'[j] = e /\ pool'[k] = e => j = k
                      /\ \A u, v \in Threads : held'[u] = e /\ held'[v] = e => u = v
    BY DEF EachConnectionInOnePlace
  <2>1. e # NULL
    BY PoolAssumption
  <2>2. CASE e = c
    <3>1. \A j \in Slots : pool'[j] # e
      BY <1>4, <1>5, <2>1, <2>2 DEF TypeOK
    <3>2. \A u \in Threads : held'[u] = e <=> u = t
      BY <1>4, <1>6, <2>2 DEF TypeOK
    <3> QED
      BY <3>1, <3>2
  <2>3. CASE e # c
    <3>1. \A j \in Slots : pool'[j] = e <=> pool[j] = e
      BY <1>4, <2>1, <2>3 DEF TypeOK, c
    <3>2. \A u \in Threads : held'[u] = e <=> held[u] = e
      BY <1>3, <1>4, <2>1, <2>3 DEF TypeOK
    <3> QED
      BY <3>1, <3>2 DEF EachConnectionInOnePlace
  <2> QED
    BY <2>2, <2>3
<1> QED
  BY <1>7, <1>12, <1>13

LEMMA ReturnInv ==
    ASSUME Inv, NEW t \in Threads, ReturnConnection(t)
    PROVE  Inv'
<1> USE DEF Inv
<1> DEFINE c == held[t]
<1>1. pc[t] = "using" /\ c # NULL /\ c \in Connections /\ t \in Lent
  BY DEF ReturnConnection, Shape, TypeOK, Lent
<1>2. IsFiniteSet(Lent) /\ Cardinality(Lent) \in Nat /\ Cardinality(Lent) # 0
  <2>1. IsFiniteSet(Lent) /\ Cardinality(Lent) \in Nat
    BY ThreadSets DEF Lent
  <2> QED
    BY <1>1, <2>1, FS_EmptySet
<1>3. used \in Slots /\ used - 1 \in 0 .. Capacity /\ pool[used] = NULL
  BY <1>2, PoolAssumption DEF Shape, TypeOK, Slots
<1>4. /\ pool' = [pool EXCEPT ![used] = c]
      /\ used' = used - 1
      /\ held' = [held EXCEPT ![t] = NULL]
      /\ pc' = [pc EXCEPT ![t] = "notifying"]
  BY DEF ReturnConnection, Goes
<1>5. \A u \in Threads : held[u] = c => u = t
  BY <1>1 DEF EachConnectionInOnePlace
<1>6. \A j \in Slots : pool[j] # c
  BY <1>1 DEF EachConnectionInOnePlace
<1> HIDE DEF c
<1>7. TypeOK'
  BY <1>1, <1>3, <1>4 DEF TypeOK, Positions
<1>8. Lent' = Lent \ {t}
  BY <1>4 DEF Lent, TypeOK
<1>9. Cardinality(Lent') = used'
  BY <1>1, <1>2, <1>4, <1>8, FS_RemoveElement DEF Shape
<1>10. \A j \in Slots : pool'[j] = NULL <=> j <= used'
  BY <1>1, <1>3, <1>4 DEF Shape, TypeOK, Slots
<1>11. \A u \in Threads : held'[u] # NULL <=> pc'[u] = "using"
  BY <1>4 DEF Shape, TypeOK
<1>12. Shape'
  BY <1>9, <1>10, <1>11 DEF Shape
<1>13. EachConnectionInOnePlace'
  <2> SUFFICES ASSUME NEW e \in Connections
               PROVE  /\ (\E j \in Slots : pool'[j] = e) # (\E u \in Threads : held'[u] = e)
                      /\ \A j, k \in Slots : pool'[j] = e /\ pool'[k] = e => j = k
                      /\ \A u, v \in Threads : held'[u] = e /\ held'[v] = e => u = v
    BY DEF EachConnectionInOnePlace
  <2>1. e # NULL
    BY PoolAssumption
  <2>2. CASE e = c
    <3>1. \A j \in Slots : pool'[j] = e <=> j = used
      BY <1>3, <1>4, <1>6, <2>2 DEF TypeOK
    <3>2. \A u \in Threads : held'[u] # e
      BY <1>4, <1>5, <2>1, <2>2 DEF TypeOK
    <3> QED
      BY <1>3, <3>1, <3>2
  <2>3. CASE e # c
    <3>1. \A j \in Slots : pool'[j] = e <=> pool[j] = e
      BY <1>3, <1>4, <2>1, <2>3 DEF TypeOK
    <3>2. \A u \in Threads : held'[u] = e <=> held[u] = e
      BY <1>4, <2>1, <2>3 DEF TypeOK, c
    <3> QED
      BY <3>1, <3>2 DEF EachConnectionInOnePlace
  <2> QED
    BY <2>2, <2>3
<1> QED
  BY <1>7, <1>12, <1>13

\* The steps that only move a thread.
LEMMA MoveInv ==
    ASSUME Inv, UNCHANGED <<pool, used, held>>, pc' \in [Threads -> Positions],
           \A t \in Threads : pc'[t] = "using" <=> pc[t] = "using"
    PROVE  Inv'
<1>1. Lent' = Lent
  BY DEF Lent
<1> QED
  BY <1>1 DEF Inv, TypeOK, Shape, EachConnectionInOnePlace

LEMMA NextInv == Inv /\ [Next]_poolvars => Inv'
<1> SUFFICES ASSUME Inv, [Next]_poolvars PROVE Inv'
  OBVIOUS
<1>1. ASSUME NEW t \in Threads, Take(t) PROVE Inv'
  BY <1>1, TakeInv
<1>2. ASSUME NEW t \in Threads, ReturnConnection(t) PROVE Inv'
  BY <1>2, ReturnInv
<1>3. ASSUME NEW t \in Threads, GetConnection(t) \/ Wait(t) \/ WakesSpuriously(t) PROVE Inv'
  <2>1. /\ UNCHANGED <<pool, used, held>> /\ pc' \in [Threads -> Positions]
        /\ \A u \in Threads : pc'[u] = "using" <=> pc[u] = "using"
    BY <1>3 DEF GetConnection, Wait, WakesSpuriously, Goes, Inv, TypeOK, Positions
  <2> QED
    BY <2>1, MoveInv
<1>4. ASSUME NEW t \in Threads, Notify(t) PROVE Inv'
  <2>1. UNCHANGED <<pool, used, held>>
    BY <1>4 DEF Notify
  <2>2. CASE ThreadsAt("waiting") = {}
    <3>1. /\ pc' \in [Threads -> Positions]
          /\ \A u \in Threads : pc'[u] = "using" <=> pc[u] = "using"
      BY <1>4, <2>2 DEF Notify, Goes, Inv, TypeOK, Positions
    <3> QED
      BY <2>1, <3>1, MoveInv
  <2>3. CASE ThreadsAt("waiting") # {}
    <3>1. PICK w \in Threads :
            pc[w] = "waiting" /\ pc' = [pc EXCEPT ![t] = "out", ![w] = "entering"]
      BY <1>4, <2>3 DEF Notify, ThreadsAt
    <3>2. /\ pc' \in [Threads -> Positions]
          /\ \A u \in Threads : pc'[u] = "using" <=> pc[u] = "using"
      BY <1>4, <3>1 DEF Notify, Inv, TypeOK, Positions
    <3> QED
      BY <2>1, <3>2, MoveInv
  <2> QED
    BY <2>2, <2>3
<1>5. CASE UNCHANGED poolvars
  <2>1. UNCHANGED <<pool, used, held, pc>>
    BY <1>5 DEF poolvars
  <2> QED
    BY <2>1, MoveInv DEF Inv, TypeOK
<1> QED
  BY <1>1, <1>2, <1>3, <1>4, <1>5 DEF Next

LEMMA Invariant == Spec => []Inv
BY InitInv, NextInv, PTL DEF Spec

\* Every variable stays in its domain; in particular used_connections_ never
\* leaves 0 .. capacity.
THEOREM PoolTypeCorrect == Spec => []TypeOK
BY Invariant, PTL DEF Inv

\* No thread is served with an empty pointer.
THEOREM NoNullConnection == Spec => []UsersHoldConnections
<1>1. Inv => UsersHoldConnections
  BY DEF Inv, Shape, UsersHoldConnections, ThreadsAt
<1> QED
  BY <1>1, Invariant, PTL

\* No connection is lost and none is lent twice.
THEOREM ConnectionsConserved == Spec => []EachConnectionInOnePlace
BY Invariant, PTL DEF Inv

(***************************************************************************)
(* The refinement.  Taking a connection out of a slot is lending it, for   *)
(* no other slot holds it; putting one into a slot is getting it back, for *)
(* that slot was empty.                                                    *)
(***************************************************************************)

Free == {c \in Connections : \E i \in Slots : pool[i] = c}

LEMMA InitLends == Init => Lender!Init
BY DEF Init, Lender!Init, Slots, Connections

LEMMA TakeLends ==
    ASSUME Inv, NEW t \in Threads, Take(t)
    PROVE  Lender!Lend(t)
<1> USE DEF Inv
<1> DEFINE i == used + 1
           c == pool[i]
<1>1. used \in Nat /\ i \in Slots /\ held[t] = NULL
  BY PoolAssumption DEF Take, TypeOK, Slots, Shape
<1>2. c \in Connections /\ c # NULL
  BY <1>1 DEF Shape, TypeOK
<1>3. held' = [held EXCEPT ![t] = c] /\ pool' = [pool EXCEPT ![i] = NULL]
  BY DEF Take
<1>4. \A j \in Slots : pool[j] = c => j = i
  BY <1>1, <1>2 DEF EachConnectionInOnePlace
<1>5. c \in Free
  BY <1>1, <1>2 DEF Free
<1>6. Free' = Free \ {c}
  <2> SUFFICES ASSUME NEW e \in Connections
               PROVE  (\E j \in Slots : pool'[j] = e) <=> (\E j \in Slots : pool[j] = e) /\ e # c
    BY DEF Free
  <2>1. \A j \in Slots : pool'[j] = e <=> pool[j] = e /\ j # i
    BY <1>1, <1>3, PoolAssumption DEF TypeOK
  <2> HIDE DEF i
  <2> QED
    BY <1>1, <1>4, <2>1
<1> QED
  BY <1>1, <1>3, <1>5, <1>6 DEF Lender!Lend, Free

LEMMA ReturnGivesBack ==
    ASSUME Inv, NEW t \in Threads, ReturnConnection(t)
    PROVE  Lender!GiveBack(t)
<1> USE DEF Inv
<1>1. held[t] \in Connections /\ held[t] # NULL /\ t \in Lent
  BY DEF ReturnConnection, Shape, TypeOK, Lent
<1>2. used \in Slots /\ pool[used] = NULL
  <2>1. IsFiniteSet(Lent) /\ Cardinality(Lent) # 0
    <3>1. IsFiniteSet(Lent)
      BY ThreadSets DEF Lent
    <3> QED
      BY <1>1, <3>1, FS_EmptySet
  <2> QED
    BY <2>1, PoolAssumption DEF Shape, TypeOK, Slots
<1>3. pool' = [pool EXCEPT ![used] = held[t]] /\ held' = [held EXCEPT ![t] = NULL]
  BY DEF ReturnConnection
<1>4. Free' = Free \cup {held[t]}
  <2> SUFFICES ASSUME NEW e \in Connections
               PROVE  (\E j \in Slots : pool'[j] = e)
                      <=> (\E j \in Slots : pool[j] = e) \/ e = held[t]
    BY <1>1 DEF Free
  <2>1. \A j \in Slots : pool'[j] = IF j = used THEN held[t] ELSE pool[j]
    BY <1>2, <1>3 DEF TypeOK
  <2> QED
    BY <1>2, <2>1, PoolAssumption
<1> QED
  BY <1>1, <1>3, <1>4 DEF Lender!GiveBack, Free

\* ConnectionPool implements Lending: threads that wait, wake and notify change
\* nothing that a user of the pool can tell.
THEOREM PoolLends == Spec => ImplementsLending
<1>1. Inv /\ [Next]_poolvars => [Lender!Next]_<<Free, held>>
  <2> SUFFICES ASSUME Inv, [Next]_poolvars PROVE [Lender!Next]_<<Free, held>>
    OBVIOUS
  <2>1. ASSUME NEW t \in Threads, Take(t) PROVE Lender!Next
    BY <2>1, TakeLends DEF Lender!Next
  <2>2. ASSUME NEW t \in Threads, ReturnConnection(t) PROVE Lender!Next
    BY <2>2, ReturnGivesBack DEF Lender!Next
  <2>3. ASSUME UNCHANGED <<pool, held>> PROVE UNCHANGED <<Free, held>>
    BY <2>3 DEF Free
  <2>4. ASSUME NEW t \in Threads,
               GetConnection(t) \/ Wait(t) \/ WakesSpuriously(t) \/ Notify(t)
        PROVE  UNCHANGED <<pool, held>>
    BY <2>4 DEF GetConnection, Wait, WakesSpuriously, Notify
  <2> QED
    BY <2>1, <2>2, <2>3, <2>4 DEF Next, poolvars
<1> QED
  BY <1>1, InitLends, Invariant, PTL DEF Spec, ImplementsLending, Lender!Spec, Free

(***************************************************************************)
(* Wake-ups.  The property is inductive once it counts: every step that    *)
(* frees a connection sends its thread to notify, and every step that      *)
(* stops a thread from coming for one finds the pool empty, takes one, or  *)
(* wakes another thread in its place.                                      *)
(***************************************************************************)

Coming == ThreadsAt("entering") \cup ThreadsAt("notifying")

LEMMA NextWakeup == Inv /\ Inv' /\ NoLostWakeup /\ [Next]_poolvars => NoLostWakeup'
<1> SUFFICES ASSUME Inv, Inv', NoLostWakeup, [Next]_poolvars,
                    ThreadsAt("waiting")' # {}
             PROVE  Capacity - used' <= Cardinality(Coming')
  BY DEF NoLostWakeup, Coming
<1>1. /\ IsFiniteSet(Coming) /\ Cardinality(Coming) \in Nat
      /\ IsFiniteSet(Coming') /\ Cardinality(Coming') \in Nat
  <2>1. Coming \in SUBSET Threads /\ Coming' \in SUBSET Threads
    BY DEF Coming, ThreadsAt
  <2> QED
    BY <2>1, ThreadSets
<1>2. used \in Nat /\ used' \in Nat /\ used <= Capacity /\ Capacity \in Nat
  BY PoolAssumption DEF Inv, TypeOK
<1>3. ThreadsAt("waiting") # {} => Capacity - used <= Cardinality(Coming)
  BY DEF NoLostWakeup, Coming
<1>4. ASSUME NEW t \in Threads, GetConnection(t) \/ WakesSpuriously(t)
      PROVE  Capacity - used' <= Cardinality(Coming')
  <2>1. Coming' = Coming \cup {t} /\ used' = used
    BY <1>4 DEF GetConnection, WakesSpuriously, Goes, Coming, ThreadsAt, Inv, TypeOK
  <2>2. ThreadsAt("waiting") # {}
    BY <1>4 DEF GetConnection, WakesSpuriously, Goes, ThreadsAt, Inv, TypeOK
  <2>3. Cardinality(Coming') >= Cardinality(Coming)
    BY <1>1, <2>1, FS_AddElement
  <2> QED
    BY <1>1, <1>2, <1>3, <2>1, <2>2, <2>3
<1>5. ASSUME NEW t \in Threads, Take(t)
      PROVE  Capacity - used' <= Cardinality(Coming')
  <2>1. Coming' = Coming \ {t} /\ t \in Coming /\ used' = used + 1
    BY <1>5 DEF Take, Goes, Coming, ThreadsAt, Inv, TypeOK
  <2>2. ThreadsAt("waiting") # {}
    BY <1>5 DEF Take, Goes, ThreadsAt, Inv, TypeOK
  <2>3. Cardinality(Coming') = Cardinality(Coming) - 1
    BY <1>1, <2>1, FS_RemoveElement
  <2> QED
    BY <1>1, <1>2, <1>3, <2>1, <2>2, <2>3
<1>6. ASSUME NEW t \in Threads, Wait(t)
      PROVE  Capacity - used' <= Cardinality(Coming')
  BY <1>1, <1>2, <1>6 DEF Wait
<1>7. ASSUME NEW t \in Threads, ReturnConnection(t)
      PROVE  Capacity - used' <= Cardinality(Coming')
  <2>1. Coming' = Coming \cup {t} /\ t \notin Coming /\ used' = used - 1
    BY <1>7 DEF ReturnConnection, Goes, Coming, ThreadsAt, Inv, TypeOK
  <2>2. ThreadsAt("waiting") # {}
    BY <1>7 DEF ReturnConnection, Goes, ThreadsAt, Inv, TypeOK
  <2>3. Cardinality(Coming') = Cardinality(Coming) + 1
    BY <1>1, <2>1, FS_AddElement
  <2> QED
    BY <1>1, <1>2, <1>3, <2>1, <2>2, <2>3
<1>8. ASSUME NEW t \in Threads, Notify(t)
      PROVE  Capacity - used' <= Cardinality(Coming')
  <2>1. ThreadsAt("waiting") # {}
    BY <1>8 DEF Notify, Goes, ThreadsAt, Inv, TypeOK
  <2>2. PICK w \in Threads :
          pc[w] = "waiting" /\ pc' = [pc EXCEPT ![t] = "out", ![w] = "entering"]
    BY <1>8, <2>1 DEF Notify, ThreadsAt
  <2>3. pc[t] = "notifying" /\ used' = used /\ t # w
    BY <1>8, <2>2 DEF Notify
  <2>4. /\ Coming' = (Coming \ {t}) \cup {w}
        /\ t \in Coming /\ w \notin Coming \ {t}
    BY <2>2, <2>3 DEF Coming, ThreadsAt, Inv, TypeOK
  <2>5. /\ IsFiniteSet(Coming \ {t})
        /\ Cardinality(Coming \ {t}) = Cardinality(Coming) - 1
    BY <1>1, <2>4, FS_RemoveElement
  <2>6. Cardinality(Coming') = Cardinality(Coming \ {t}) + 1
    BY <2>4, <2>5, FS_AddElement
  <2> QED
    BY <1>1, <1>2, <1>3, <2>1, <2>3, <2>5, <2>6
<1>9. CASE UNCHANGED poolvars
  <2>1. Coming' = Coming /\ used' = used /\ ThreadsAt("waiting")' = ThreadsAt("waiting")
    BY <1>9 DEF poolvars, Coming, ThreadsAt
  <2> QED
    BY <1>3, <2>1
<1> QED
  BY <1>4, <1>5, <1>6, <1>7, <1>8, <1>9 DEF Next

\* Nobody sleeps on a free connection without somebody coming for it.
THEOREM NobodyOversleeps == Spec => []NoLostWakeup
<1>1. Init => NoLostWakeup
  BY DEF Init, NoLostWakeup, ThreadsAt
<1> QED
  BY <1>1, NextWakeup, Invariant, PTL DEF Spec

(***************************************************************************)
(* The units of work in the API strand.  They use the pool the way         *)
(* ConnectionPool lets threads use it, so that all of the above holds for  *)
(* them, and more: only the thread in the strand ever asks for a           *)
(* connection or has a transaction open.                                   *)
(***************************************************************************)

LEMMA UnitUsesPool ==
  /\ UnitInit => Init
  /\ [UnitNext]_vars => [Next]_poolvars
<1>1. UnitInit => Init
  BY DEF UnitInit
<1>2. ASSUME NEW t \in Threads, Begin(t) \/ Handler(t)
      PROVE  [Next]_poolvars
  <2>1. CASE Begin(t)
    BY <2>1 DEF Begin, Next
  <2>2. CASE Acquire(t)
    BY <2>2 DEF Acquire, Next
  <2>3. CASE Release(t) \/ OpenFails(t)
    BY <2>3 DEF Release, OpenFails, Next
  <2>4. CASE Announce(t)
    BY <2>4 DEF Announce, Next
  <2>5. CASE OpenWork(t) \/ End(t)
    BY <2>5 DEF OpenWork, End
  <2> QED
    BY <1>2, <2>1, <2>2, <2>3, <2>4, <2>5 DEF Handler
<1> QED
  BY <1>1, <1>2 DEF UnitNext, Break, vars

\* Every step of UnitOfWork is a step of ConnectionPool or leaves the pool alone: what
\* is proved of the pool is true of the way the use cases use it.
THEOREM UnitsUseThePool == UnitSpec => Spec
BY UnitUsesPool, PTL DEF UnitSpec, Spec

\* Whoever has to do with the pool, or has a transaction open, is in the strand; nobody
\* waits, if there is a connection at all.
UnitInv ==
    /\ work \in [Threads -> Connections \cup {NULL}]
    /\ \A t \in Threads : pc[t] # "out" \/ work[t] # NULL => strand = t
    /\ Capacity > 0 => \A t \in Threads : pc[t] # "waiting"

LEMMA UnitInitInv == UnitInit => UnitInv
BY DEF UnitInit, Init, UnitInv

\* A thread that is about to test the predicate finds every connection in the pool.
LEMMA PoolIsFull ==
    ASSUME Inv, UnitInv, NEW t \in Threads, pc[t] = "entering"
    PROVE  used = 0
<1>1. Lent = {}
  BY DEF Lent, Inv, Shape, UnitInv
<1> QED
  BY <1>1, FS_EmptySet DEF Inv, Shape

LEMMA HandlerUnitInv ==
    ASSUME Inv, UnitInv, NEW t \in Threads, Begin(t) \/ Handler(t)
    PROVE  UnitInv'
<1> USE DEF UnitInv
<1>1. pc \in [Threads -> Positions] /\ NULL \notin Threads /\ NULL \notin Connections
  BY PoolAssumption DEF Inv, TypeOK
<1>2. CASE Begin(t)
  BY <1>1, <1>2 DEF Begin, GetConnection, Goes
<1>3. CASE Take(t) /\ UNCHANGED <<strand, work, broken>>
  BY <1>1, <1>3 DEF Take, Goes
<1>4. CASE Wait(t) /\ UNCHANGED <<strand, work, broken>>
  <2>1. ~(Capacity > 0)
    BY <1>4, PoolIsFull, PoolAssumption DEF Wait
  <2> QED
    BY <1>1, <1>4, <2>1 DEF Wait, Goes
<1>5. CASE OpenWork(t)
  <2>1. held[t] \in Connections /\ work' = [work EXCEPT ![t] = held[t]] /\ strand' = strand
        /\ pc' = pc /\ strand = t
    BY <1>5 DEF OpenWork, poolvars, Inv, TypeOK, Shape
  <2> QED
    BY <2>1
<1>6. CASE Release(t) \/ OpenFails(t)
  BY <1>1, <1>6 DEF Release, OpenFails, unitvars, ReturnConnection,
     Goes
<1>7. CASE Announce(t)
  <2>1. pc[t] = "notifying" /\ UNCHANGED <<strand, work>>
    BY <1>7 DEF Announce, Notify, unitvars
  <2>2. ThreadsAt("waiting") = {}
    BY <2>1 DEF ThreadsAt
  <2>3. pc' = [pc EXCEPT ![t] = "out"]
    BY <1>7, <2>2 DEF Announce, Notify, Goes
  <2> QED
    BY <1>1, <2>1, <2>3
<1>8. CASE End(t)
  BY <1>1, <1>8 DEF End, poolvars
<1> QED
  BY <1>2, <1>3, <1>4, <1>5, <1>6, <1>7, <1>8 DEF Handler, Acquire, unitvars

LEMMA UnitNextInv == Inv /\ UnitInv /\ [UnitNext]_vars => UnitInv'
<1>1. ASSUME UnitInv, UNCHANGED <<pc, strand, work>> PROVE UnitInv'
  BY <1>1 DEF UnitInv
<1> QED
  BY <1>1, HandlerUnitInv DEF UnitNext, Break, vars, unitvars, poolvars

LEMMA UnitInvariant == UnitSpec => [](Inv /\ UnitInv)
<1>1. UnitSpec => []Inv
  BY UnitsUseThePool, Invariant, PTL
<1> QED
  BY <1>1, UnitInitInv, UnitNextInv, PTL DEF UnitSpec

\* No two transactions are open on one connection, although CreateUnitOfWork gives its
\* connection back before the transaction on it ends.
THEOREM NoSharedConnection == UnitSpec => []OneWorkPerConnection
<1>1. UnitInv => OneWorkPerConnection
  BY PoolAssumption DEF UnitInv, OneWorkPerConnection
<1> QED
  BY <1>1, UnitInvariant, PTL

\* A handler never blocks in GetConnection and the strand with it, given that the pool
\* has any connection (main makes as many as hardware_concurrency tells, which may be
\* none).
THEOREM StrandRuns ==
    ASSUME Capacity > 0
    PROVE  UnitSpec => []StrandNeverBlocks
<1>1. UnitInv => StrandNeverBlocks
  BY DEF UnitInv, StrandNeverBlocks, ThreadsAt
<1> QED
  BY <1>1, UnitInvariant, PTL

=============================================================================
