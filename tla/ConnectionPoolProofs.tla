------------------------ MODULE ConnectionPoolProofs ------------------------
(***************************************************************************)
(* Proofs about ConnectionPool, for any set of threads, any bound on the   *)
(* connections and any selection of the optional calls.                    *)
(***************************************************************************)
EXTENDS ConnectionPool, FiniteSetTheorems, TLAPS

\* Every variable stays in its type: the numbers of connections stay below
\* that of the next one to be created, so that a new one is really new.
THEOREM Typing == Spec => []TypeOK
<1>1. Init => TypeOK
  BY PoolAssumption DEF Init, TypeOK, Points, DbWanted, DbHeld, Outside
<1>2. TypeOK /\ [Next]_vars => TypeOK'
  <2> SUFFICES ASSUME TypeOK, [Next]_vars PROVE TypeOK'
    OBVIOUS
  <2> USE PoolAssumption DEF TypeOK, Points, DbWanted, DbHeld, Outside, Goto,
        locks, pool, server, local, calls, bounds, vars, Conns,
        ReleasePool, _close_raw, Numbered
  <2>1. ASSUME NEW t \in Threads, AcquirePool(t) PROVE TypeOK'
    BY <2>1 DEF AcquirePool, PoolWanted
  <2>2. ASSUME NEW t \in Threads, Connect(t) PROVE TypeOK'
    BY <2>2 DEF Connect
  <2>3. ASSUME NEW t \in Threads, ConnectLock(t) PROVE TypeOK'
    BY <2>3 DEF ConnectLock
  <2>4. ASSUME NEW t \in Threads, Checkout(t) PROVE TypeOK'
    <3>1. PICK c \in idle : /\ inUse' = inUse \cup {c}
                            /\ idle' = {d \in idle : d > c}
                            /\ open' = open \ {d \in idle : d < c}
                            /\ held' = [held EXCEPT ![t] = c]
      BY <2>4 DEF Checkout, Usable
    <3>2. /\ inUse' \subseteq 1 .. nextConn - 1
          /\ idle' \subseteq 1 .. nextConn - 1
          /\ open' \subseteq 1 .. nextConn - 1
          /\ held' \in [Threads -> (1 .. nextConn - 1) \cup {None}]
      BY <3>1
    <3> QED
      BY <2>4, <3>2 DEF Checkout
  <2>5. ASSUME NEW t \in Threads, Create(t) PROVE TypeOK'
    BY <2>5 DEF Create
  <2>6. ASSUME NEW t \in Threads, ConnectFails(t) PROVE TypeOK'
    BY <2>6 DEF ConnectFails
  <2>7. ASSUME NEW t \in Threads, ConnectSet(t) PROVE TypeOK'
    BY <2>7 DEF ConnectSet
  <2>8. ASSUME NEW t \in Threads, WaitStart(t) PROVE TypeOK'
    BY <2>8 DEF WaitStart
  <2>9. ASSUME NEW t \in Threads, WaitOver(t) PROVE TypeOK'
    BY <2>9 DEF WaitOver
  <2>10. ASSUME NEW t \in Threads, WaitExpired(t) PROVE TypeOK'
    BY <2>10 DEF WaitExpired
  <2>11. ASSUME NEW t \in Threads, Close(t) PROVE TypeOK'
    BY <2>11 DEF Close
  <2>12. ASSUME NEW t \in Threads, CloseLock(t) PROVE TypeOK'
    BY <2>12 DEF CloseLock, AfterClose
  <2>13. ASSUME NEW t \in Threads, CloseIgnored(t) PROVE TypeOK'
    BY <2>13 DEF CloseIgnored
  <2>14. ASSUME NEW t \in Threads, CloseDiscard(t) PROVE TypeOK'
    BY <2>14 DEF CloseDiscard, Notify
  <2>15. ASSUME NEW t \in Threads, CheckIn(t) PROVE TypeOK'
    BY <2>15 DEF CheckIn, Notify, RolledBack
  <2>16. ASSUME NEW t \in Threads, CloseReset(t) PROVE TypeOK'
    BY <2>16 DEF CloseReset, AfterClose
  <2>17. ASSUME NEW t \in Threads, ManualClose(t) PROVE TypeOK'
    BY <2>17 DEF ManualClose
  <2>18. ASSUME NEW t \in Threads, ManualUntrack(t) PROVE TypeOK'
    BY <2>18 DEF ManualUntrack
  <2>19. ASSUME NEW t \in Threads, ManualRaw(t) PROVE TypeOK'
    BY <2>19 DEF ManualRaw
  <2>20. ASSUME NEW t \in Threads, CloseIdleOrStale(t) PROVE TypeOK'
    BY <2>20 DEF CloseIdleOrStale
  <2>21. ASSUME NEW t \in Threads, CloseIdleBody(t) PROVE TypeOK'
    BY <2>21 DEF CloseIdleBody
  <2>22. ASSUME NEW t \in Threads, CloseStaleBody(t) PROVE TypeOK'
    BY <2>22 DEF CloseStaleBody
  <2>23. ASSUME NEW t \in Threads, CloseAll(t) PROVE TypeOK'
    BY <2>23 DEF CloseAll
  <2>24. ASSUME NEW t \in Threads, CloseAllBody(t) PROVE TypeOK'
    BY <2>24 DEF CloseAllBody
  <2>25. ASSUME NEW t \in Threads, Begin(t) PROVE TypeOK'
    BY <2>25 DEF Begin
  <2>26. ASSUME NEW t \in Threads, End(t) PROVE TypeOK'
    BY <2>26 DEF End
  <2>27. ASSUME NEW t \in Threads, RawBegin(t) PROVE TypeOK'
    BY <2>27 DEF RawBegin
  <2>28. CASE Drop
    BY <2>28 DEF Drop
  <2>29. CASE Age
    BY <2>29 DEF Age
  <2>30. CASE UNCHANGED vars
    BY <2>30
  <2> HIDE DEF TypeOK
  <2> QED
    BY <2>1, <2>2, <2>3, <2>4, <2>5, <2>6, <2>7, <2>8, <2>9, <2>10, <2>11, <2>12, <2>13, <2>14, <2>15, <2>16, <2>17, <2>18, <2>19, <2>20, <2>21, <2>22, <2>23, <2>24, <2>25, <2>26, <2>27, <2>28, <2>29, <2>30
       DEF Next, Step, ConnectStep, CloseStep, Call, Finished
<1> QED
  BY <1>1, <1>2, PTL DEF Spec

-----------------------------------------------------------------------------
\* A lock changes hands exactly where the code takes and releases it.
LEMMA LocksStep ==
  ASSUME TypeOK, LockOwners, [Next]_vars
  PROVE  LockOwners'
<1> USE PoolAssumption DEF TypeOK, LockOwners, DbHeld, PoolBodies, PoolWanted,
      Points, DbWanted, Outside, locks, pool, server, local, calls, bounds,
      vars, Goto, ReleasePool, _close_raw, Numbered
<1>1. ASSUME NEW t \in Threads, AcquirePool(t) PROVE LockOwners'
  BY <1>1 DEF AcquirePool
<1>2. ASSUME NEW t \in Threads, Connect(t) PROVE LockOwners'
  BY <1>2 DEF Connect
<1>3. ASSUME NEW t \in Threads, ConnectLock(t) PROVE LockOwners'
  BY <1>3 DEF ConnectLock
<1>4. ASSUME NEW t \in Threads, Checkout(t) PROVE LockOwners'
  BY <1>4 DEF Checkout
<1>5. ASSUME NEW t \in Threads, Create(t) PROVE LockOwners'
  BY <1>5 DEF Create
<1>6. ASSUME NEW t \in Threads, ConnectFails(t) PROVE LockOwners'
  BY <1>6 DEF ConnectFails
<1>7. ASSUME NEW t \in Threads, ConnectSet(t) PROVE LockOwners'
  BY <1>7 DEF ConnectSet
<1>8. ASSUME NEW t \in Threads, WaitStart(t) PROVE LockOwners'
  BY <1>8 DEF WaitStart
<1>9. ASSUME NEW t \in Threads, WaitOver(t) PROVE LockOwners'
  BY <1>9 DEF WaitOver
<1>10. ASSUME NEW t \in Threads, WaitExpired(t) PROVE LockOwners'
  BY <1>10 DEF WaitExpired
<1>11. ASSUME NEW t \in Threads, Close(t) PROVE LockOwners'
  BY <1>11 DEF Close
<1>12. ASSUME NEW t \in Threads, CloseLock(t) PROVE LockOwners'
  BY <1>12 DEF CloseLock, AfterClose
<1>13. ASSUME NEW t \in Threads, CloseIgnored(t) PROVE LockOwners'
  BY <1>13 DEF CloseIgnored
<1>14. ASSUME NEW t \in Threads, CloseDiscard(t) PROVE LockOwners'
  BY <1>14 DEF CloseDiscard
<1>15. ASSUME NEW t \in Threads, CheckIn(t) PROVE LockOwners'
  BY <1>15 DEF CheckIn
<1>16. ASSUME NEW t \in Threads, CloseReset(t) PROVE LockOwners'
  BY <1>16 DEF CloseReset, AfterClose
<1>17. ASSUME NEW t \in Threads, ManualClose(t) PROVE LockOwners'
  BY <1>17 DEF ManualClose
<1>18. ASSUME NEW t \in Threads, ManualUntrack(t) PROVE LockOwners'
  BY <1>18 DEF ManualUntrack
<1>19. ASSUME NEW t \in Threads, ManualRaw(t) PROVE LockOwners'
  BY <1>19 DEF ManualRaw
<1>20. ASSUME NEW t \in Threads, CloseIdleOrStale(t) PROVE LockOwners'
  BY <1>20 DEF CloseIdleOrStale
<1>21. ASSUME NEW t \in Threads, CloseIdleBody(t) PROVE LockOwners'
  BY <1>21 DEF CloseIdleBody
<1>22. ASSUME NEW t \in Threads, CloseStaleBody(t) PROVE LockOwners'
  BY <1>22 DEF CloseStaleBody
<1>23. ASSUME NEW t \in Threads, CloseAll(t) PROVE LockOwners'
  BY <1>23 DEF CloseAll
<1>24. ASSUME NEW t \in Threads, CloseAllBody(t) PROVE LockOwners'
  BY <1>24 DEF CloseAllBody
<1>25. ASSUME NEW t \in Threads, Begin(t) PROVE LockOwners'
  BY <1>25 DEF Begin
<1>26. ASSUME NEW t \in Threads, End(t) PROVE LockOwners'
  BY <1>26 DEF End
<1>27. ASSUME NEW t \in Threads, RawBegin(t) PROVE LockOwners'
  BY <1>27 DEF RawBegin
<1>28. CASE Drop
  BY <1>28 DEF Drop
<1>29. CASE Age
  BY <1>29 DEF Age
<1>30. CASE UNCHANGED vars
  BY <1>30
<1> QED
  BY <1>1, <1>2, <1>3, <1>4, <1>5, <1>6, <1>7, <1>8, <1>9, <1>10, <1>11, <1>12, <1>13, <1>14, <1>15, <1>16, <1>17, <1>18, <1>19,
     <1>20, <1>21, <1>22, <1>23, <1>24, <1>25, <1>26, <1>27, <1>28,
     <1>29, <1>30
     DEF Next, Step, ConnectStep, CloseStep, Call, Finished

\* The connections the pool knows are finitely many.
LEMMA TrackedFinite == TypeOK => IsFiniteSet(idle \cup inUse)
<1> SUFFICES ASSUME TypeOK PROVE IsFiniteSet(idle \cup inUse)
  OBVIOUS
<1>1. 1 \in Int /\ nextConn - 1 \in Int
  BY PoolAssumption DEF TypeOK
<1>2. IsFiniteSet(1 .. nextConn - 1)
  BY <1>1, FS_Interval
<1>3. idle \cup inUse \in SUBSET (1 .. nextConn - 1)
  BY DEF TypeOK
<1> QED
  BY <1>2, <1>3, FS_Subset

\* A set with fewer than m elements has room for one more.
LEMMA RoomForOne ==
  ASSUME NEW S, NEW x, NEW m \in Nat, IsFiniteSet(S), Cardinality(S) < m
  PROVE  Cardinality(S \cup {x}) <= m
<1>1. Cardinality(S) \in Nat
  BY FS_CardinalityType
<1>2. Cardinality(S \cup {x}) = IF x \in S THEN Cardinality(S)
                                           ELSE Cardinality(S) + 1
  BY FS_AddElement
<1> QED
  BY <1>1, <1>2

\* A step after which the pool knows no other connections keeps the bound.
LEMMA Shrinks ==
  ASSUME TypeOK, PoolBounded, idle' \cup inUse' \subseteq idle \cup inUse
  PROVE  PoolBounded'
<1>1. /\ Cardinality(idle' \cup inUse') <= Cardinality(idle \cup inUse)
      /\ Cardinality(idle' \cup inUse') \in Nat
      /\ Cardinality(idle \cup inUse) \in Nat
  BY TrackedFinite, FS_Subset, FS_CardinalityType
<1> QED
  BY <1>1, PoolAssumption DEF PoolBounded

\* Only Create adds a connection, with an empty heap and room for it.
LEMMA BoundStep ==
  ASSUME TypeOK, PoolBounded, [Next]_vars
  PROVE  PoolBounded'
<1> USE PoolAssumption DEF TypeOK, PoolBounded, locks, pool, server, local, calls, bounds,
      vars, Goto, ReleasePool, _close_raw, Numbered
<1>1. ASSUME NEW t \in Threads, AcquirePool(t) PROVE PoolBounded'
  BY <1>1 DEF AcquirePool
<1>2. ASSUME NEW t \in Threads, Connect(t) PROVE PoolBounded'
  BY <1>2 DEF Connect
<1>3. ASSUME NEW t \in Threads, ConnectLock(t) PROVE PoolBounded'
  BY <1>3 DEF ConnectLock
<1>4. ASSUME NEW t \in Threads, Checkout(t) PROVE PoolBounded'
  <2>1. idle' \cup inUse' \subseteq idle \cup inUse
    BY <1>4 DEF Checkout, Usable
  <2> QED
    BY <2>1, Shrinks
<1>5. ASSUME NEW t \in Threads, Create(t) PROVE PoolBounded'
  <2>1. IsFiniteSet(inUse)
    BY TrackedFinite, FS_Subset, inUse \in SUBSET (idle \cup inUse)
  <2>2. Cardinality(inUse) \in Nat /\ Cardinality(inUse) < MaxConnections
    BY <2>1, <1>5, FS_CardinalityType DEF Create, PoolFull
  <2>3. Cardinality(inUse \cup {nextConn}) <= MaxConnections
    BY <2>1, <2>2, RoomForOne
  <2>4. idle' \cup inUse' = inUse \cup {nextConn}
    BY <1>5 DEF Create
  <2> QED
    BY <2>3, <2>4
<1>6. ASSUME NEW t \in Threads, ConnectFails(t) PROVE PoolBounded'
  <2>1. idle' \cup inUse' \subseteq idle \cup inUse
    BY <1>6 DEF ConnectFails
  <2> QED
    BY <2>1, Shrinks
<1>7. ASSUME NEW t \in Threads, ConnectSet(t) PROVE PoolBounded'
  BY <1>7 DEF ConnectSet
<1>8. ASSUME NEW t \in Threads, WaitStart(t) PROVE PoolBounded'
  BY <1>8 DEF WaitStart
<1>9. ASSUME NEW t \in Threads, WaitOver(t) PROVE PoolBounded'
  BY <1>9 DEF WaitOver
<1>10. ASSUME NEW t \in Threads, WaitExpired(t) PROVE PoolBounded'
  BY <1>10 DEF WaitExpired
<1>11. ASSUME NEW t \in Threads, Close(t) PROVE PoolBounded'
  BY <1>11 DEF Close
<1>12. ASSUME NEW t \in Threads, CloseLock(t) PROVE PoolBounded'
  BY <1>12 DEF CloseLock, AfterClose
<1>13. ASSUME NEW t \in Threads, CloseIgnored(t) PROVE PoolBounded'
  BY <1>13 DEF CloseIgnored
<1>14. ASSUME NEW t \in Threads, CloseDiscard(t) PROVE PoolBounded'
  <2>1. idle' \cup inUse' \subseteq idle \cup inUse
    BY <1>14 DEF CloseDiscard
  <2> QED
    BY <2>1, Shrinks
<1>15. ASSUME NEW t \in Threads, CheckIn(t) PROVE PoolBounded'
  <2>1. idle' \cup inUse' \subseteq idle \cup inUse
    BY <1>15 DEF CheckIn
  <2> QED
    BY <2>1, Shrinks
<1>16. ASSUME NEW t \in Threads, CloseReset(t) PROVE PoolBounded'
  BY <1>16 DEF CloseReset, AfterClose
<1>17. ASSUME NEW t \in Threads, ManualClose(t) PROVE PoolBounded'
  BY <1>17 DEF ManualClose
<1>18. ASSUME NEW t \in Threads, ManualUntrack(t) PROVE PoolBounded'
  <2>1. idle' \cup inUse' \subseteq idle \cup inUse
    BY <1>18 DEF ManualUntrack
  <2> QED
    BY <2>1, Shrinks
<1>19. ASSUME NEW t \in Threads, ManualRaw(t) PROVE PoolBounded'
  BY <1>19 DEF ManualRaw
<1>20. ASSUME NEW t \in Threads, CloseIdleOrStale(t) PROVE PoolBounded'
  BY <1>20 DEF CloseIdleOrStale
<1>21. ASSUME NEW t \in Threads, CloseIdleBody(t) PROVE PoolBounded'
  <2>1. idle' \cup inUse' \subseteq idle \cup inUse
    BY <1>21 DEF CloseIdleBody
  <2> QED
    BY <2>1, Shrinks
<1>22. ASSUME NEW t \in Threads, CloseStaleBody(t) PROVE PoolBounded'
  <2>1. idle' \cup inUse' \subseteq idle \cup inUse
    BY <1>22 DEF CloseStaleBody
  <2> QED
    BY <2>1, Shrinks
<1>23. ASSUME NEW t \in Threads, CloseAll(t) PROVE PoolBounded'
  BY <1>23 DEF CloseAll
<1>24. ASSUME NEW t \in Threads, CloseAllBody(t) PROVE PoolBounded'
  <2>1. idle' \cup inUse' \subseteq idle \cup inUse
    BY <1>24 DEF CloseAllBody
  <2> QED
    BY <2>1, Shrinks
<1>25. ASSUME NEW t \in Threads, Begin(t) PROVE PoolBounded'
  BY <1>25 DEF Begin
<1>26. ASSUME NEW t \in Threads, End(t) PROVE PoolBounded'
  BY <1>26 DEF End
<1>27. ASSUME NEW t \in Threads, RawBegin(t) PROVE PoolBounded'
  BY <1>27 DEF RawBegin
<1>28. CASE Drop
  BY <1>28 DEF Drop
<1>29. CASE Age
  BY <1>29 DEF Age
<1>30. CASE UNCHANGED vars
  BY <1>30
<1> QED
  BY <1>1, <1>2, <1>3, <1>4, <1>5, <1>6, <1>7, <1>8, <1>9, <1>10, <1>11, <1>12, <1>13, <1>14, <1>15, <1>16, <1>17, <1>18, <1>19,
     <1>20, <1>21, <1>22, <1>23, <1>24, <1>25, <1>26, <1>27, <1>28,
     <1>29, <1>30
     DEF Next, Step, ConnectStep, CloseStep, Call, Finished

\* What the threads hold stays theirs alone.  LockOwners says that two threads
\* are never both inside connect() or close().
LEMMA HandsStep ==
  ASSUME TypeOK, LockOwners, Hands, [Next]_vars
  PROVE  Hands'
<1> USE PoolAssumption DEF TypeOK, LockOwners, Hands, HandedOver, HandedBack,
      Exclusive, IdleClean, TransactionKeepsConnection, DbHeld, PoolBodies,
      PoolWanted, locks, pool, server, local, calls, bounds,
      vars, Goto, ReleasePool, _close_raw, Numbered
<1>1. ASSUME NEW t \in Threads, AcquirePool(t) PROVE Hands'
  BY <1>1 DEF AcquirePool
<1>2. ASSUME NEW t \in Threads, Connect(t) PROVE Hands'
  BY <1>2 DEF Connect
<1>3. ASSUME NEW t \in Threads, ConnectLock(t) PROVE Hands'
  BY <1>3 DEF ConnectLock
<1>4. ASSUME NEW t \in Threads, Checkout(t) PROVE Hands'
  <2>1. /\ held'[t] \in idle /\ idle' \subseteq idle /\ held'[t] \notin idle'
        /\ \A u \in Threads : u # t => held'[u] = held[u]
    BY <1>4 DEF Checkout, Usable
  <2>2. \A u \in Threads : conn[u] # held'[t]
    BY <2>1, <1>4 DEF Checkout
  <2>3. \A u \in Threads \ {t} : pc[u] \notin DbHeld
    BY <1>4 DEF Checkout
  <2>4. HandedOver'
    BY <1>4, <2>1, <2>2, <2>3 DEF Checkout
  <2>5. HandedBack'
    BY <1>4, <2>1, <2>2, <2>3 DEF Checkout
  <2>6. Exclusive'
    BY <1>4, <2>1, <2>2, <2>3 DEF Checkout
  <2>7. IdleClean'
    BY <1>4, <2>1, <2>2, <2>3 DEF Checkout
  <2>8. TransactionKeepsConnection'
    BY <1>4, <2>1, <2>2, <2>3 DEF Checkout
  <2> QED
    BY <2>4, <2>5, <2>6, <2>7, <2>8
<1>5. ASSUME NEW t \in Threads, Create(t) PROVE Hands'
  BY <1>5 DEF Create
<1>6. ASSUME NEW t \in Threads, ConnectFails(t) PROVE Hands'
  BY <1>6 DEF ConnectFails
<1>7. ASSUME NEW t \in Threads, ConnectSet(t) PROVE Hands'
  BY <1>7 DEF ConnectSet
<1>8. ASSUME NEW t \in Threads, WaitStart(t) PROVE Hands'
  BY <1>8 DEF WaitStart
<1>9. ASSUME NEW t \in Threads, WaitOver(t) PROVE Hands'
  BY <1>9 DEF WaitOver
<1>10. ASSUME NEW t \in Threads, WaitExpired(t) PROVE Hands'
  BY <1>10 DEF WaitExpired
<1>11. ASSUME NEW t \in Threads, Close(t) PROVE Hands'
  BY <1>11 DEF Close
<1>12. ASSUME NEW t \in Threads, CloseLock(t) PROVE Hands'
  BY <1>12 DEF CloseLock, AfterClose, InTransaction
<1>13. ASSUME NEW t \in Threads, CloseIgnored(t) PROVE Hands'
  BY <1>13 DEF CloseIgnored
<1>14. ASSUME NEW t \in Threads, CloseDiscard(t) PROVE Hands'
  BY <1>14, ZenonT(30) DEF CloseDiscard
<1>15. ASSUME NEW t \in Threads, CheckIn(t) PROVE Hands'
  <2>1. pc[t] = "close_body" /\ conn[t] \in inUse /\ conn[t] # None
    <3>1. pc[t] = "close_body" /\ conn[t] \in inUse
      BY <1>15 DEF CheckIn
    <3>2. inUse \subseteq Nat
      OBVIOUS
    <3>3. conn[t] # None
      <4>1. None \notin Nat
        OBVIOUS
      <4> HIDE PoolAssumption DEF TypeOK, LockOwners, Hands
      <4> QED
        BY <3>1, <3>2, <4>1
    <3> QED
      BY <3>1, <3>3
  <2>2. ~txn[t] /\ dbLock = t
    <3>1. ~txn[t]
      BY <2>1
    <3>2. dbLock = t
      BY <2>1
    <3> QED
      BY <3>1, <3>2
  <2>3. \A u \in Threads \ {t} : conn[u] # conn[t] /\ pc[u] \notin DbHeld
    <3>1. ASSUME NEW u \in Threads, u # t PROVE conn[u] # conn[t]
      BY <2>1, <3>1
    <3>2. ASSUME NEW u \in Threads, u # t PROVE pc[u] \notin DbHeld
      BY <2>2, <3>2
    <3> QED
      BY <3>1, <3>2
  <2>4. HandedOver'
    BY <1>15, <2>1, <2>2, <2>3 DEF CheckIn, RolledBack
  <2>5. HandedBack'
    BY <1>15, <2>1, <2>2, <2>3 DEF CheckIn, RolledBack
  <2>6. Exclusive'
    BY <1>15, <2>1, <2>2, <2>3 DEF CheckIn, RolledBack
  <2>7. IdleClean'
    BY <1>15, <2>1, <2>2, <2>3 DEF CheckIn, RolledBack
  <2>8. TransactionKeepsConnection'
    BY <1>15, <2>1, <2>2, <2>3 DEF CheckIn, RolledBack
  <2> QED
    BY <2>4, <2>5, <2>6, <2>7, <2>8
<1>16. ASSUME NEW t \in Threads, CloseReset(t) PROVE Hands'
  BY <1>16 DEF CloseReset, AfterClose
<1>17. ASSUME NEW t \in Threads, ManualClose(t) PROVE Hands'
  BY <1>17 DEF ManualClose
<1>18. ASSUME NEW t \in Threads, ManualUntrack(t) PROVE Hands'
  BY <1>18 DEF ManualUntrack
<1>19. ASSUME NEW t \in Threads, ManualRaw(t) PROVE Hands'
  <2>2. HandedOver'
    BY <1>19 DEF ManualRaw
  <2>3. HandedBack'
    BY <1>19 DEF ManualRaw
  <2>4. Exclusive'
    BY <1>19 DEF ManualRaw
  <2>5. IdleClean'
    BY <1>19 DEF ManualRaw
  <2>6. TransactionKeepsConnection'
    BY <1>19 DEF ManualRaw
  <2> QED
    BY <2>2, <2>3, <2>4, <2>5, <2>6
<1>20. ASSUME NEW t \in Threads, CloseIdleOrStale(t) PROVE Hands'
  BY <1>20 DEF CloseIdleOrStale
<1>21. ASSUME NEW t \in Threads, CloseIdleBody(t) PROVE Hands'
  BY <1>21 DEF CloseIdleBody
<1>22. ASSUME NEW t \in Threads, CloseStaleBody(t) PROVE Hands'
  BY <1>22 DEF CloseStaleBody
<1>23. ASSUME NEW t \in Threads, CloseAll(t) PROVE Hands'
  BY <1>23 DEF CloseAll
<1>24. ASSUME NEW t \in Threads, CloseAllBody(t) PROVE Hands'
  BY <1>24 DEF CloseAllBody
<1>25. ASSUME NEW t \in Threads, Begin(t) PROVE Hands'
  <2>1. conn[t] \notin idle
    BY <1>25 DEF Begin
  <2>2. HandedOver'
    BY <1>25, <2>1 DEF Begin
  <2>3. HandedBack'
    BY <1>25, <2>1 DEF Begin
  <2>4. Exclusive'
    BY <1>25, <2>1 DEF Begin
  <2>5. IdleClean'
    BY <1>25, <2>1 DEF Begin
  <2>6. TransactionKeepsConnection'
    BY <1>25, <2>1 DEF Begin
  <2> QED
    BY <2>2, <2>3, <2>4, <2>5, <2>6
<1>26. ASSUME NEW t \in Threads, End(t) PROVE Hands'
  <2>1. conn[t] \notin idle
    BY <1>26 DEF End
  <2>2. HandedOver'
    BY <1>26, <2>1 DEF End
  <2>3. HandedBack'
    BY <1>26, <2>1 DEF End
  <2>4. Exclusive'
    BY <1>26, <2>1 DEF End
  <2>5. IdleClean'
    BY <1>26, <2>1 DEF End
  <2>6. TransactionKeepsConnection'
    BY <1>26, <2>1 DEF End
  <2> QED
    BY <2>2, <2>3, <2>4, <2>5, <2>6
<1>27. ASSUME NEW t \in Threads, RawBegin(t) PROVE Hands'
  <2>1. conn[t] \notin idle
    BY <1>27 DEF RawBegin
  <2>2. HandedOver'
    BY <1>27, <2>1 DEF RawBegin
  <2>3. HandedBack'
    BY <1>27, <2>1 DEF RawBegin
  <2>4. Exclusive'
    BY <1>27, <2>1 DEF RawBegin
  <2>5. IdleClean'
    BY <1>27, <2>1 DEF RawBegin
  <2>6. TransactionKeepsConnection'
    BY <1>27, <2>1 DEF RawBegin
  <2> QED
    BY <2>2, <2>3, <2>4, <2>5, <2>6
<1>28. CASE Drop
  BY <1>28 DEF Drop
<1>29. CASE Age
  BY <1>29 DEF Age
<1>30. CASE UNCHANGED vars
  BY <1>30
<1> QED
  BY <1>1, <1>2, <1>3, <1>4, <1>5, <1>6, <1>7, <1>8, <1>9, <1>10, <1>11, <1>12, <1>13, <1>14, <1>15, <1>16, <1>17, <1>18, <1>19,
     <1>20, <1>21, <1>22, <1>23, <1>24, <1>25, <1>26, <1>27, <1>28,
     <1>29, <1>30
     DEF Next, Step, ConnectStep, CloseStep, Call, Finished

\* The invariant is inductive.
LEMMA Invariance == Spec => []PoolInv
<1>1. Init => PoolInv
  <2> SUFFICES ASSUME Init PROVE PoolInv
    OBVIOUS
  <2>1. TypeOK
    BY PoolAssumption DEF Init, TypeOK, Points, DbWanted, DbHeld, Outside
  <2>2. LockOwners
    BY PoolAssumption DEF Init, LockOwners, DbHeld, PoolBodies, PoolWanted
  <2>3. idle \cup inUse = {}
    BY DEF Init
  <2>4. PoolBounded
    BY <2>3, FS_EmptySet, PoolAssumption DEF PoolBounded
  <2>5. Hands
    BY DEF Init, Hands, HandedOver, HandedBack, Exclusive, IdleClean,
           TransactionKeepsConnection
  <2> QED
    BY <2>1, <2>2, <2>4, <2>5 DEF PoolInv
<1>2. PoolInv /\ TypeOK' /\ [Next]_vars => PoolInv'
  BY LocksStep, BoundStep, HandsStep DEF PoolInv
<1> QED
  BY <1>1, <1>2, Typing, PTL DEF Spec

\* The pool never tracks more than max_connections connections, whatever
\* threads, faults and maintenance calls there are.
THEOREM Bounded == Spec => []PoolBounded
<1>1. PoolInv => PoolBounded
  BY DEF PoolInv
<1> QED
  BY <1>1, Invariance, PTL

\* No connection is ever in the hands of two threads.
THEOREM NeverShared == Spec => []Exclusive
<1>1. PoolInv => Exclusive
  BY DEF PoolInv, Hands
<1> QED
  BY <1>1, Invariance, PTL

\* Connections wait in the heap without a transaction left open on them.
THEOREM HeapClean == Spec => []IdleClean
<1>1. PoolInv => IdleClean
  BY DEF PoolInv, Hands
<1> QED
  BY <1>1, Invariance, PTL

\* A thread keeps its connection for as long as its transaction is open.
THEOREM TransactionsKeep == Spec => []TransactionKeepsConnection
<1>1. PoolInv => TransactionKeepsConnection
  BY DEF PoolInv, Hands
<1> QED
  BY <1>1, Invariance, PTL

\* The database lock is never wanted by a thread inside the pool lock, so that
\* the two locks cannot be waited for in a circle.
THEOREM LocksOrdered == Spec => []LockOrder
<1>1. PoolInv => LockOrder
  BY DEF PoolInv, LockOwners, LockOrder, DbWanted, PoolBodies, PoolWanted
<1> QED
  BY <1>1, Invariance, PTL

\* What connect() hands out is open, fresh and clean.
THEOREM CheckoutsUsable == Spec => CheckoutUsable
<1>1. PoolInv /\ [Next]_vars =>
        [\A t \in Threads : pc[t] = "connect_body" /\ pc'[t] = "connect_set"
            => /\ held'[t] \in open'
               /\ ~_is_stale(held'[t])
               /\ held'[t] \notin dirty']_vars
  <2> SUFFICES ASSUME PoolInv, [Next]_vars, NEW t \in Threads,
                      pc[t] = "connect_body", pc'[t] = "connect_set"
               PROVE  /\ held'[t] \in open'
                      /\ ~_is_stale(held'[t])
                      /\ held'[t] \notin dirty'
    OBVIOUS
  <2> USE PoolAssumption DEF PoolInv, TypeOK, Goto
  <2>1. Checkout(t) \/ Create(t)
    <3> USE DEF vars
    <3>1. CASE UNCHANGED vars
      BY <3>1
    <3>2. CASE Drop \/ Age \/ Finished
      BY <3>2 DEF Drop, Age, Finished
    <3>3. ASSUME NEW u \in Threads, Step(u) \/ Call(u)
          PROVE  Checkout(t) \/ Create(t)
      <4>1. CASE AcquirePool(u)
        BY <4>1 DEF AcquirePool, PoolWanted
      <4>2. CASE ConnectStep(u) /\ ~Checkout(u) /\ ~Create(u)
        BY <4>2 DEF ConnectStep, ConnectLock, ConnectFails,
               ConnectSet, WaitStart, WaitOver, WaitExpired
      <4>3. CASE Checkout(u) \/ Create(u)
        BY <4>3 DEF Checkout, Create
      <4>4. CASE CloseStep(u)
        BY <4>4 DEF CloseStep, CloseLock, CloseIgnored, CloseDiscard,
               CheckIn, CloseReset, AfterClose, ManualUntrack, ManualRaw,
               CloseIdleBody, CloseStaleBody, CloseAllBody
      <4>5. CASE Call(u)
        BY <4>5 DEF Call, Connect, Close, ManualClose, CloseIdleOrStale,
               CloseAll, Begin, End, RawBegin
      <4> QED
        BY <3>3, <4>1, <4>2, <4>3, <4>4, <4>5 DEF Step, ConnectStep
    <3> QED
      BY <3>1, <3>2, <3>3 DEF Next
  <2>2. CASE Checkout(t)
    BY <2>2 DEF Checkout, Usable, _is_closed, _is_stale, Hands, IdleClean,
           _close_raw, bounds
  <2>3. CASE Create(t)
    BY <2>3 DEF Create, _is_stale, Numbered
  <2> QED
    BY <2>1, <2>2, <2>3
<1> QED
  BY <1>1, Invariance, PTL DEF Spec, CheckoutUsable

-----------------------------------------------------------------------------
\* The pool forgets no open connection, unless manual_close() is called inside a
\* transaction.

\* A connection stays in a local variable only on its way through connect()
\* or manual_close().
LEMMA HeldStep ==
  ASSUME TypeOK, HeldOnTheWay, [Next]_vars
  PROVE  HeldOnTheWay'
<1> USE PoolAssumption DEF TypeOK, HeldOnTheWay, locks, pool, server, local,
      calls, bounds, vars, Goto, Numbered, ReleasePool, _close_raw
<1>1. ASSUME NEW t \in Threads, AcquirePool(t) PROVE HeldOnTheWay'
  BY <1>1 DEF AcquirePool, PoolWanted
<1>2. ASSUME NEW t \in Threads, Connect(t) PROVE HeldOnTheWay'
  BY <1>2 DEF Connect
<1>3. ASSUME NEW t \in Threads, ConnectLock(t) PROVE HeldOnTheWay'
  BY <1>3 DEF ConnectLock
<1>4. ASSUME NEW t \in Threads, Checkout(t) PROVE HeldOnTheWay'
  BY <1>4 DEF Checkout
<1>5. ASSUME NEW t \in Threads, Create(t) PROVE HeldOnTheWay'
  BY <1>5 DEF Create
<1>6. ASSUME NEW t \in Threads, ConnectFails(t) PROVE HeldOnTheWay'
  BY <1>6 DEF ConnectFails
<1>7. ASSUME NEW t \in Threads, ConnectSet(t) PROVE HeldOnTheWay'
  BY <1>7 DEF ConnectSet
<1>8. ASSUME NEW t \in Threads, WaitStart(t) PROVE HeldOnTheWay'
  BY <1>8 DEF WaitStart
<1>9. ASSUME NEW t \in Threads, WaitOver(t) PROVE HeldOnTheWay'
  BY <1>9 DEF WaitOver
<1>10. ASSUME NEW t \in Threads, WaitExpired(t) PROVE HeldOnTheWay'
  BY <1>10 DEF WaitExpired
<1>11. ASSUME NEW t \in Threads, Close(t) PROVE HeldOnTheWay'
  BY <1>11 DEF Close
<1>12. ASSUME NEW t \in Threads, CloseLock(t) PROVE HeldOnTheWay'
  BY <1>12 DEF CloseLock, AfterClose, InTransaction
<1>13. ASSUME NEW t \in Threads, CloseIgnored(t) PROVE HeldOnTheWay'
  BY <1>13 DEF CloseIgnored
<1>14. ASSUME NEW t \in Threads, CloseDiscard(t) PROVE HeldOnTheWay'
  BY <1>14 DEF CloseDiscard
<1>15. ASSUME NEW t \in Threads, CheckIn(t) PROVE HeldOnTheWay'
  BY <1>15 DEF CheckIn, RolledBack
<1>16. ASSUME NEW t \in Threads, CloseReset(t) PROVE HeldOnTheWay'
  BY <1>16 DEF CloseReset, AfterClose
<1>17. ASSUME NEW t \in Threads, ManualClose(t) PROVE HeldOnTheWay'
  BY <1>17 DEF ManualClose
<1>18. ASSUME NEW t \in Threads, ManualUntrack(t) PROVE HeldOnTheWay'
  BY <1>18 DEF ManualUntrack
<1>19. ASSUME NEW t \in Threads, ManualRaw(t) PROVE HeldOnTheWay'
  BY <1>19 DEF ManualRaw
<1>20. ASSUME NEW t \in Threads, CloseIdleOrStale(t) PROVE HeldOnTheWay'
  BY <1>20 DEF CloseIdleOrStale
<1>21. ASSUME NEW t \in Threads, CloseIdleBody(t) PROVE HeldOnTheWay'
  BY <1>21 DEF CloseIdleBody
<1>22. ASSUME NEW t \in Threads, CloseStaleBody(t) PROVE HeldOnTheWay'
  BY <1>22 DEF CloseStaleBody
<1>23. ASSUME NEW t \in Threads, CloseAll(t) PROVE HeldOnTheWay'
  BY <1>23 DEF CloseAll
<1>24. ASSUME NEW t \in Threads, CloseAllBody(t) PROVE HeldOnTheWay'
  BY <1>24 DEF CloseAllBody
<1>25. ASSUME NEW t \in Threads, Begin(t) PROVE HeldOnTheWay'
  BY <1>25 DEF Begin
<1>26. ASSUME NEW t \in Threads, End(t) PROVE HeldOnTheWay'
  BY <1>26 DEF End
<1>27. ASSUME NEW t \in Threads, RawBegin(t) PROVE HeldOnTheWay'
  BY <1>27 DEF RawBegin
<1>28. CASE Drop
  BY <1>28 DEF Drop
<1>29. CASE Age
  BY <1>29 DEF Age
<1>30. CASE UNCHANGED vars
  BY <1>30
<1> QED
  BY <1>1, <1>2, <1>3, <1>4, <1>5, <1>6, <1>7, <1>8, <1>9, <1>10, <1>11,
     <1>12, <1>13, <1>14, <1>15, <1>16, <1>17, <1>18, <1>19, <1>20, <1>21, <1>22,
     <1>23, <1>24, <1>25, <1>26, <1>27, <1>28, <1>29, <1>30
     DEF Next, Step, ConnectStep, CloseStep, Call, Finished

\* manual_close() is never refused by close(): nobody else opens a transaction
\* in its thread, and the program does not call it inside one.
LEMMA ManualStep ==
  ASSUME TypeOK, HeldOnTheWay, ManualUndisturbed, [Next]_vars,
         "manual_close_in_txn" \notin Ops
  PROVE  ManualUndisturbed'
<1> USE PoolAssumption DEF TypeOK, HeldOnTheWay, ManualUndisturbed, locks, pool,
      server, local, calls, bounds, vars, Goto, Numbered, ReleasePool, _close_raw
<1>1. ASSUME NEW t \in Threads, AcquirePool(t) PROVE ManualUndisturbed'
  BY <1>1 DEF AcquirePool, PoolWanted
<1>2. ASSUME NEW t \in Threads, Connect(t) PROVE ManualUndisturbed'
  BY <1>2 DEF Connect
<1>3. ASSUME NEW t \in Threads, ConnectLock(t) PROVE ManualUndisturbed'
  BY <1>3 DEF ConnectLock
<1>4. ASSUME NEW t \in Threads, Checkout(t) PROVE ManualUndisturbed'
  BY <1>4 DEF Checkout
<1>5. ASSUME NEW t \in Threads, Create(t) PROVE ManualUndisturbed'
  BY <1>5 DEF Create
<1>6. ASSUME NEW t \in Threads, ConnectFails(t) PROVE ManualUndisturbed'
  BY <1>6 DEF ConnectFails
<1>7. ASSUME NEW t \in Threads, ConnectSet(t) PROVE ManualUndisturbed'
  BY <1>7 DEF ConnectSet
<1>8. ASSUME NEW t \in Threads, WaitStart(t) PROVE ManualUndisturbed'
  BY <1>8 DEF WaitStart
<1>9. ASSUME NEW t \in Threads, WaitOver(t) PROVE ManualUndisturbed'
  BY <1>9 DEF WaitOver
<1>10. ASSUME NEW t \in Threads, WaitExpired(t) PROVE ManualUndisturbed'
  BY <1>10 DEF WaitExpired
<1>11. ASSUME NEW t \in Threads, Close(t) PROVE ManualUndisturbed'
  BY <1>11 DEF Close
<1>12. ASSUME NEW t \in Threads, CloseLock(t) PROVE ManualUndisturbed'
  BY <1>12 DEF CloseLock, AfterClose, InTransaction
<1>13. ASSUME NEW t \in Threads, CloseIgnored(t) PROVE ManualUndisturbed'
  BY <1>13 DEF CloseIgnored
<1>14. ASSUME NEW t \in Threads, CloseDiscard(t) PROVE ManualUndisturbed'
  BY <1>14 DEF CloseDiscard
<1>15. ASSUME NEW t \in Threads, CheckIn(t) PROVE ManualUndisturbed'
  BY <1>15 DEF CheckIn, RolledBack
<1>16. ASSUME NEW t \in Threads, CloseReset(t) PROVE ManualUndisturbed'
  BY <1>16 DEF CloseReset, AfterClose
<1>17. ASSUME NEW t \in Threads, ManualClose(t) PROVE ManualUndisturbed'
  BY <1>17 DEF ManualClose
<1>18. ASSUME NEW t \in Threads, ManualUntrack(t) PROVE ManualUndisturbed'
  BY <1>18 DEF ManualUntrack
<1>19. ASSUME NEW t \in Threads, ManualRaw(t) PROVE ManualUndisturbed'
  BY <1>19 DEF ManualRaw
<1>20. ASSUME NEW t \in Threads, CloseIdleOrStale(t) PROVE ManualUndisturbed'
  BY <1>20 DEF CloseIdleOrStale
<1>21. ASSUME NEW t \in Threads, CloseIdleBody(t) PROVE ManualUndisturbed'
  BY <1>21 DEF CloseIdleBody
<1>22. ASSUME NEW t \in Threads, CloseStaleBody(t) PROVE ManualUndisturbed'
  BY <1>22 DEF CloseStaleBody
<1>23. ASSUME NEW t \in Threads, CloseAll(t) PROVE ManualUndisturbed'
  BY <1>23 DEF CloseAll
<1>24. ASSUME NEW t \in Threads, CloseAllBody(t) PROVE ManualUndisturbed'
  BY <1>24 DEF CloseAllBody
<1>25. ASSUME NEW t \in Threads, Begin(t) PROVE ManualUndisturbed'
  BY <1>25 DEF Begin
<1>26. ASSUME NEW t \in Threads, End(t) PROVE ManualUndisturbed'
  BY <1>26 DEF End
<1>27. ASSUME NEW t \in Threads, RawBegin(t) PROVE ManualUndisturbed'
  BY <1>27 DEF RawBegin
<1>28. CASE Drop
  BY <1>28 DEF Drop
<1>29. CASE Age
  BY <1>29 DEF Age
<1>30. CASE UNCHANGED vars
  BY <1>30
<1> QED
  BY <1>1, <1>2, <1>3, <1>4, <1>5, <1>6, <1>7, <1>8, <1>9, <1>10, <1>11,
     <1>12, <1>13, <1>14, <1>15, <1>16, <1>17, <1>18, <1>19, <1>20, <1>21, <1>22,
     <1>23, <1>24, <1>25, <1>26, <1>27, <1>28, <1>29, <1>30
     DEF Next, Step, ConnectStep, CloseStep, Call, Finished

\* Between _connect() and set_connection() nobody but close_stale and close_all
\* untracks the connection, and these close it.
LEMMA TrackedStep ==
  ASSUME TypeOK, LockOwners, Hands, ManualUndisturbed, HandedTracked, [Next]_vars
  PROVE  HandedTracked'
<1> USE PoolAssumption DEF TypeOK, LockOwners, Hands, HandedOver,
      ManualUndisturbed, HandedTracked, DbHeld, PoolBodies, PoolWanted, locks,
      pool, server, local, calls, bounds, vars, Goto, Numbered, ReleasePool,
      _close_raw
<1>1. ASSUME NEW t \in Threads, AcquirePool(t) PROVE HandedTracked'
  BY <1>1 DEF AcquirePool, PoolWanted
<1>2. ASSUME NEW t \in Threads, Connect(t) PROVE HandedTracked'
  BY <1>2 DEF Connect
<1>3. ASSUME NEW t \in Threads, ConnectLock(t) PROVE HandedTracked'
  BY <1>3 DEF ConnectLock
<1>4. ASSUME NEW t \in Threads, Checkout(t) PROVE HandedTracked'
  BY <1>4 DEF Checkout
<1>5. ASSUME NEW t \in Threads, Create(t) PROVE HandedTracked'
  BY <1>5 DEF Create
<1>6. ASSUME NEW t \in Threads, ConnectFails(t) PROVE HandedTracked'
  BY <1>6 DEF ConnectFails
<1>7. ASSUME NEW t \in Threads, ConnectSet(t) PROVE HandedTracked'
  BY <1>7 DEF ConnectSet
<1>8. ASSUME NEW t \in Threads, WaitStart(t) PROVE HandedTracked'
  BY <1>8 DEF WaitStart
<1>9. ASSUME NEW t \in Threads, WaitOver(t) PROVE HandedTracked'
  BY <1>9 DEF WaitOver
<1>10. ASSUME NEW t \in Threads, WaitExpired(t) PROVE HandedTracked'
  BY <1>10 DEF WaitExpired
<1>11. ASSUME NEW t \in Threads, Close(t) PROVE HandedTracked'
  BY <1>11 DEF Close
<1>12. ASSUME NEW t \in Threads, CloseLock(t) PROVE HandedTracked'
  BY <1>12 DEF CloseLock, AfterClose, InTransaction
<1>13. ASSUME NEW t \in Threads, CloseIgnored(t) PROVE HandedTracked'
  BY <1>13 DEF CloseIgnored
<1>14. ASSUME NEW t \in Threads, CloseDiscard(t) PROVE HandedTracked'
  BY <1>14 DEF CloseDiscard
<1>15. ASSUME NEW t \in Threads, CheckIn(t) PROVE HandedTracked'
  BY <1>15 DEF CheckIn, RolledBack
<1>16. ASSUME NEW t \in Threads, CloseReset(t) PROVE HandedTracked'
  BY <1>16 DEF CloseReset, AfterClose
<1>17. ASSUME NEW t \in Threads, ManualClose(t) PROVE HandedTracked'
  BY <1>17 DEF ManualClose
<1>18. ASSUME NEW t \in Threads, ManualUntrack(t) PROVE HandedTracked'
  <2> SUFFICES ASSUME NEW u \in Threads, pc'[u] = "connect_set"
               PROVE  held'[u] \in inUse' \/ held'[u] \notin open'
    OBVIOUS
  <2>1. /\ pc[u] = "connect_set" /\ held'[u] = held[u] /\ open' = open
        /\ inUse' = inUse \ {held[t]} /\ held[t] = conn[t]
    BY <1>18 DEF ManualUntrack
  <2>2. held[u] = conn[t] => held[u] = None
    BY <2>1
  <2>3. None \notin open
    <3>1. open \subseteq Nat /\ None \notin Nat
      OBVIOUS
    <3> HIDE PoolAssumption DEF TypeOK, LockOwners, Hands, HandedTracked
    <3> QED
      BY <3>1
  <2> QED
    BY <2>1, <2>2, <2>3
<1>19. ASSUME NEW t \in Threads, ManualRaw(t) PROVE HandedTracked'
  BY <1>19 DEF ManualRaw
<1>20. ASSUME NEW t \in Threads, CloseIdleOrStale(t) PROVE HandedTracked'
  BY <1>20 DEF CloseIdleOrStale
<1>21. ASSUME NEW t \in Threads, CloseIdleBody(t) PROVE HandedTracked'
  BY <1>21 DEF CloseIdleBody
<1>22. ASSUME NEW t \in Threads, CloseStaleBody(t) PROVE HandedTracked'
  BY <1>22 DEF CloseStaleBody
<1>23. ASSUME NEW t \in Threads, CloseAll(t) PROVE HandedTracked'
  BY <1>23 DEF CloseAll
<1>24. ASSUME NEW t \in Threads, CloseAllBody(t) PROVE HandedTracked'
  BY <1>24 DEF CloseAllBody
<1>25. ASSUME NEW t \in Threads, Begin(t) PROVE HandedTracked'
  BY <1>25 DEF Begin
<1>26. ASSUME NEW t \in Threads, End(t) PROVE HandedTracked'
  BY <1>26 DEF End
<1>27. ASSUME NEW t \in Threads, RawBegin(t) PROVE HandedTracked'
  BY <1>27 DEF RawBegin
<1>28. CASE Drop
  BY <1>28 DEF Drop
<1>29. CASE Age
  BY <1>29 DEF Age
<1>30. CASE UNCHANGED vars
  BY <1>30
<1> QED
  BY <1>1, <1>2, <1>3, <1>4, <1>5, <1>6, <1>7, <1>8, <1>9, <1>10, <1>11,
     <1>12, <1>13, <1>14, <1>15, <1>16, <1>17, <1>18, <1>19, <1>20, <1>21, <1>22,
     <1>23, <1>24, <1>25, <1>26, <1>27, <1>28, <1>29, <1>30
     DEF Next, Step, ConnectStep, CloseStep, Call, Finished

\* Every step keeps each open connection in the pool's hands or in a thread's.
LEMMA LeakStep ==
  ASSUME TypeOK, HeldOnTheWay, ManualUndisturbed, HandedTracked, NoLeak,
         [Next]_vars
  PROVE  NoLeak'
<1> USE PoolAssumption DEF TypeOK, HeldOnTheWay, ManualUndisturbed,
      HandedTracked, NoLeak, locks, pool, server, local, calls, bounds, vars,
      Goto, Numbered, ReleasePool, _close_raw
<1>1. ASSUME NEW t \in Threads, AcquirePool(t) PROVE NoLeak'
  BY <1>1 DEF AcquirePool, PoolWanted
<1>2. ASSUME NEW t \in Threads, Connect(t) PROVE NoLeak'
  BY <1>2 DEF Connect
<1>3. ASSUME NEW t \in Threads, ConnectLock(t) PROVE NoLeak'
  BY <1>3 DEF ConnectLock
<1>4. ASSUME NEW t \in Threads, Checkout(t) PROVE NoLeak'
  <2>1. PICK c \in idle : /\ inUse' = inUse \cup {c}
                          /\ idle' = {d \in idle : d > c}
                          /\ open' = open \ {d \in idle : d < c}
    BY <1>4 DEF Checkout, Usable
  <2>2. \A u \in Threads \ {t} : held'[u] = held[u]
    BY <1>4 DEF Checkout
  <2>3. held[t] = None
    BY <1>4 DEF Checkout
  <2> SUFFICES ASSUME NEW x \in open', x \notin idle', x \notin inUse'
               PROVE  \E u \in Threads : held'[u] = x
    OBVIOUS
  <2>4. x \in open /\ x \in Nat
    BY <2>1
  <2>5. x \notin idle /\ x \notin inUse
    BY <2>1, <2>4
  <2>6. PICK u \in Threads : held[u] = x
    BY <2>4, <2>5
  <2>7. u # t
    BY <2>3, <2>4, <2>6
  <2> QED
    BY <2>2, <2>6, <2>7
<1>5. ASSUME NEW t \in Threads, Create(t) PROVE NoLeak'
  BY <1>5 DEF Create
<1>6. ASSUME NEW t \in Threads, ConnectFails(t) PROVE NoLeak'
  BY <1>6 DEF ConnectFails
<1>7. ASSUME NEW t \in Threads, ConnectSet(t) PROVE NoLeak'
  BY <1>7 DEF ConnectSet
<1>8. ASSUME NEW t \in Threads, WaitStart(t) PROVE NoLeak'
  BY <1>8 DEF WaitStart
<1>9. ASSUME NEW t \in Threads, WaitOver(t) PROVE NoLeak'
  BY <1>9 DEF WaitOver
<1>10. ASSUME NEW t \in Threads, WaitExpired(t) PROVE NoLeak'
  BY <1>10 DEF WaitExpired
<1>11. ASSUME NEW t \in Threads, Close(t) PROVE NoLeak'
  BY <1>11 DEF Close
<1>12. ASSUME NEW t \in Threads, CloseLock(t) PROVE NoLeak'
  BY <1>12 DEF CloseLock, AfterClose, InTransaction
<1>13. ASSUME NEW t \in Threads, CloseIgnored(t) PROVE NoLeak'
  BY <1>13 DEF CloseIgnored
<1>14. ASSUME NEW t \in Threads, CloseDiscard(t) PROVE NoLeak'
  <2>1. /\ inUse' = inUse \ {conn[t]} /\ open' = open \ {conn[t]}
        /\ idle' = idle /\ held' = held
    BY <1>14 DEF CloseDiscard
  <2> SUFFICES ASSUME NEW x \in open', x \notin idle', x \notin inUse'
               PROVE  \E u \in Threads : held'[u] = x
    OBVIOUS
  <2>2. x \in open /\ x \notin idle /\ x \notin inUse
    BY <2>1
  <2> QED
    BY <2>1, <2>2
<1>15. ASSUME NEW t \in Threads, CheckIn(t) PROVE NoLeak'
  BY <1>15 DEF CheckIn, RolledBack
<1>16. ASSUME NEW t \in Threads, CloseReset(t) PROVE NoLeak'
  BY <1>16 DEF CloseReset, AfterClose
<1>17. ASSUME NEW t \in Threads, ManualClose(t) PROVE NoLeak'
  BY <1>17 DEF ManualClose
<1>18. ASSUME NEW t \in Threads, ManualUntrack(t) PROVE NoLeak'
  BY <1>18 DEF ManualUntrack
<1>19. ASSUME NEW t \in Threads, ManualRaw(t) PROVE NoLeak'
  <2>1. /\ open' = open \ {held[t]} /\ idle' = idle /\ inUse' = inUse
        /\ \A u \in Threads \ {t} : held'[u] = held[u]
    BY <1>19 DEF ManualRaw
  <2> SUFFICES ASSUME NEW x \in open', x \notin idle', x \notin inUse'
               PROVE  \E u \in Threads : held'[u] = x
    OBVIOUS
  <2>2. x \in open /\ x # held[t] /\ x \notin idle /\ x \notin inUse
    BY <2>1
  <2>3. PICK u \in Threads : held[u] = x
    BY <2>2
  <2>4. u # t
    BY <2>2, <2>3
  <2> QED
    BY <2>1, <2>3, <2>4
<1>20. ASSUME NEW t \in Threads, CloseIdleOrStale(t) PROVE NoLeak'
  BY <1>20 DEF CloseIdleOrStale
<1>21. ASSUME NEW t \in Threads, CloseIdleBody(t) PROVE NoLeak'
  BY <1>21 DEF CloseIdleBody
<1>22. ASSUME NEW t \in Threads, CloseStaleBody(t) PROVE NoLeak'
  BY <1>22 DEF CloseStaleBody
<1>23. ASSUME NEW t \in Threads, CloseAll(t) PROVE NoLeak'
  BY <1>23 DEF CloseAll
<1>24. ASSUME NEW t \in Threads, CloseAllBody(t) PROVE NoLeak'
  BY <1>24 DEF CloseAllBody
<1>25. ASSUME NEW t \in Threads, Begin(t) PROVE NoLeak'
  BY <1>25 DEF Begin
<1>26. ASSUME NEW t \in Threads, End(t) PROVE NoLeak'
  BY <1>26 DEF End
<1>27. ASSUME NEW t \in Threads, RawBegin(t) PROVE NoLeak'
  BY <1>27 DEF RawBegin
<1>28. CASE Drop
  BY <1>28 DEF Drop
<1>29. CASE Age
  BY <1>29 DEF Age
<1>30. CASE UNCHANGED vars
  BY <1>30
<1> QED
  BY <1>1, <1>2, <1>3, <1>4, <1>5, <1>6, <1>7, <1>8, <1>9, <1>10, <1>11,
     <1>12, <1>13, <1>14, <1>15, <1>16, <1>17, <1>18, <1>19, <1>20, <1>21, <1>22,
     <1>23, <1>24, <1>25, <1>26, <1>27, <1>28, <1>29, <1>30
     DEF Next, Step, ConnectStep, CloseStep, Call, Finished

\* Nothing open at the server is ever forgotten by the pool, whatever threads,
\* faults and maintenance calls there are, if manual_close() is not called
\* inside a transaction.
THEOREM NothingLeaks ==
  ASSUME "manual_close_in_txn" \notin Ops
  PROVE  Spec => []NoLeak
<1>1. Init => LeakInv
  BY DEF Init, LeakInv, HeldOnTheWay, ManualUndisturbed, HandedTracked, NoLeak
<1>2. LeakInv /\ PoolInv /\ [Next]_vars => LeakInv'
  BY HeldStep, ManualStep, TrackedStep, LeakStep DEF LeakInv, PoolInv
<1>3. LeakInv => NoLeak
  BY DEF LeakInv
<1> QED
  BY <1>1, <1>2, <1>3, Invariance, PTL DEF Spec

=============================================================================
