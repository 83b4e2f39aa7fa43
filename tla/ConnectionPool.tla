--------------------------- MODULE ConnectionPool ---------------------------
(***************************************************************************)
(* The thread-safe connection pool of playhouse/pool.py, together with the *)
(* parts of peewee.Database it overrides and is called by.                 *)
(*                                                                         *)
(* A thread keeps its connection in thread-local state (_ConnectionState:  *)
(* conn, closed, transactions).  Two locks are involved:                   *)
(*   dbLock    Database._lock, a plain Lock held by connect() and close()  *)
(*   poolLock  PooledDatabase._pool_lock, guarding the pool's own state    *)
(* Everything _connect(), _close() and the maintenance calls do under      *)
(* poolLock is one step, because the variables they use are touched by     *)
(* nobody else meanwhile; acquiring the lock is a step of its own, so that *)
(* the order in which the locks are taken is part of the model.            *)
(*                                                                         *)
(* Connections are numbered in the order they were created.  Timestamps    *)
(* grow in the same order, so the heap of idle connections is a set whose  *)
(* least element is the oldest, and the stale ones are those up to a       *)
(* threshold that only grows.                                              *)
(***************************************************************************)
EXTENDS Integers, FiniteSets

CONSTANTS
    Threads,         \* threads sharing the database object
    MaxConnections,  \* max_connections
    ConnLimit,       \* bound: the server accepts this many connections in all
    Sessions,        \* bound: connect() calls each thread makes
    WaitMode,        \* timeout=None: "none", a number: "finite", 0: "forever"
    Ops,             \* the optional calls and faults that may happen
    None             \* neither a thread nor a connection

AllOps == {"manual_close", "manual_close_in_txn", "close_idle", "close_stale",
           "close_all", "transaction", "raw_begin", "drop", "age", "refuse"}

ASSUME PoolAssumption ==
    /\ MaxConnections \in Nat \ {0}
    /\ ConnLimit \in Nat
    /\ Sessions \in Nat
    /\ WaitMode \in {"none", "finite", "forever"}
    /\ Ops \subseteq AllOps
    /\ None \notin Threads
    /\ None \notin Nat

VARIABLES
    dbLock,     \* owner of Database._lock, or None
    poolLock,   \* owner of _pool_lock, or None
    idle,       \* _connections
    inUse,      \* keys of _in_use
    nextConn,   \* number of the next connection to be created
    staleUpTo,  \* connections up to this one have outlived stale_timeout
    open,       \* connections open at the driver
    dirty,      \* connections with a transaction open at the driver
    conn,       \* conn[t]: the connection in t's thread-local state, or None
    txn,        \* txn[t]: t's thread-local transaction stack is not empty
    held,       \* held[t]: the local variable conn of _connect, manual_close
    pc,         \* pc[t]: where t is in the call it is making
    caller,     \* caller[t]: the call on whose behalf t runs close()
    waiters,    \* threads waiting on _pool_available and not yet notified
    budget      \* budget[t]: connect() calls t may still make

locks  == <<dbLock, poolLock>>
pool   == <<idle, inUse>>
server == <<open, dirty>>
local  == <<conn, txn, held>>
calls  == <<caller, waiters>>
bounds == <<nextConn, staleUpTo, budget>>
vars   == <<locks, pool, server, local, pc, calls, bounds>>

Conns == 1 .. ConnLimit

\* The points at which a thread wants the pool lock, and where it then is.
PoolWanted == [connect_pool |-> "connect_body", close_pool |-> "close_body",
               manual_pool |-> "manual_body", idle_pool |-> "idle_body",
               stale_pool |-> "stale_body", all_pool |-> "all_body"]
PoolBodies == {PoolWanted[p] : p \in DOMAIN PoolWanted}
DbWanted   == {"connect_lock", "close_lock"}
DbHeld     == {"connect_pool", "connect_body", "connect_set",
               "close_pool", "close_body", "close_reset"}
Outside    == {"run", "wait", "waiting", "manual_raw", "all_pool", "all_body",
               "manual_pool", "manual_body", "idle_pool", "idle_body",
               "stale_pool", "stale_body"}
Points     == DbWanted \cup DbHeld \cup Outside

-----------------------------------------------------------------------------
(***************************************************************************)
(* Helpers named after the methods they stand for.                         *)
(***************************************************************************)

_is_stale(c) == c <= staleUpTo

_is_closed(c) == c \notin open

\* Mutation: the heap is trusted, no connection in it is tested.
UsableUntested == idle

\* Idle connections _connect() may hand out: the others are discarded.
Usable == {c \in idle : ~_is_closed(c) /\ ~_is_stale(c)}

\* Mutation: off by one.
PoolFullAbove == Cardinality(inUse) > MaxConnections

\* len(self._in_use) >= self._max_connections
PoolFull == Cardinality(inUse) >= MaxConnections

\* _can_reuse() rolls back what was left open and says whether that worked.
\* The rollback fails on a connection the server has dropped, unless nothing
\* was open on it, in which case the drop may go unnoticed.
_can_reuse(c) ==
    IF c \in open THEN {TRUE} ELSE IF c \in dirty THEN {FALSE} ELSE BOOLEAN

\* Mutation: _can_reuse() as in the base class, which does nothing.
NotRolledBack(c) == IF c \in dirty THEN dirty ELSE dirty \ {c}

RolledBack(c) == dirty \ {c}

\* Condition.notify(): wake one waiter, if there is one.
Notify ==
    \/ waiters = {} /\ UNCHANGED waiters
    \/ \E w \in waiters : waiters' = waiters \ {w}

\* Mutation: close() does not look at the transaction stack.
InTransactionIgnored(t) == txn[t] /\ conn[t] = None

\* in_transaction() of the calling thread.
InTransaction(t) == txn[t]

\* Mutation: a connection is said to be closed and is not.
_close_raw_forgotten(cs) == UNCHANGED server

\* Connections are closed at the driver, which rolls back what is open on them.
_close_raw(cs) == open' = open \ cs /\ dirty' = dirty \ cs

\* Mutation: the database lock is released with the pool lock.
ReleaseBoth == dbLock' = None /\ poolLock' = None

ReleasePool == poolLock' = None /\ UNCHANGED dbLock

Numbered == nextConn' = nextConn + 1

Goto(t, point) == pc' = [pc EXCEPT ![t] = point]

Init ==
    /\ dbLock = None /\ poolLock = None
    /\ idle = {} /\ inUse = {} /\ nextConn = 1
    /\ staleUpTo = 0 /\ open = {} /\ dirty = {}
    /\ conn = [t \in Threads |-> None]
    /\ txn  = [t \in Threads |-> FALSE]
    /\ held = [t \in Threads |-> None]
    /\ pc   = [t \in Threads |-> "run"]
    /\ caller = [t \in Threads |-> "close"]
    /\ waiters = {}
    /\ budget = [t \in Threads |-> Sessions]

-----------------------------------------------------------------------------
(***************************************************************************)
(* Locks.                                                                  *)
(***************************************************************************)

AcquirePool(t) ==
    /\ pc[t] \in DOMAIN PoolWanted
    /\ poolLock = None
    /\ poolLock' = t
    /\ Goto(t, PoolWanted[pc[t]])
    /\ UNCHANGED <<dbLock, pool, server, local, calls, bounds>>

(***************************************************************************)
(* connect(), with its wait for a connection to be returned.               *)
(***************************************************************************)

Connect(t) ==
    /\ pc[t] = "run" /\ budget[t] > 0
    /\ budget' = [budget EXCEPT ![t] = @ - 1]
    /\ Goto(t, "connect_lock")
    /\ UNCHANGED <<locks, pool, server, local, calls, nextConn, staleUpTo>>

\* Under the database lock: a thread whose state is open is refused, or told
\* that the connection is reused; otherwise its state is reset.
ConnectLock(t) ==
    /\ pc[t] = "connect_lock" /\ dbLock = None
    /\ \/ /\ conn[t] # None
          /\ Goto(t, "run")
          /\ UNCHANGED <<dbLock, txn>>
       \/ /\ conn[t] = None
          /\ dbLock' = t
          /\ txn' = [txn EXCEPT ![t] = FALSE]
          /\ Goto(t, "connect_pool")
    /\ UNCHANGED <<poolLock, pool, server, conn, held, calls, bounds>>

\* _connect() finds an idle connection.  Older ones are popped before it:
\* closed ones are dropped, stale ones are closed.
Checkout(t) ==
    /\ pc[t] = "connect_body"
    /\ \E c \in Usable :
        /\ \A u \in Usable : c <= u
        /\ inUse' = inUse \cup {c}
        /\ idle' = {d \in idle : d > c}
        /\ _close_raw({d \in idle : d < c})
        /\ held' = [held EXCEPT ![t] = c]
    /\ ReleasePool
    /\ Goto(t, "connect_set")
    /\ UNCHANGED <<conn, txn, calls, bounds>>

\* _connect() has emptied the heap and opens a connection.
Create(t) ==
    /\ pc[t] = "connect_body"
    /\ Usable = {} /\ ~PoolFull /\ nextConn \in Conns
    /\ Numbered
    /\ inUse' = inUse \cup {nextConn}
    /\ idle' = {}
    /\ open' = (open \ idle) \cup {nextConn} /\ dirty' = dirty \ idle
    /\ held' = [held EXCEPT ![t] = nextConn]
    /\ ReleasePool
    /\ Goto(t, "connect_set")
    /\ UNCHANGED <<conn, txn, calls, staleUpTo, budget>>

\* _connect() has emptied the heap and raises.  MaxConnectionsExceeded goes to
\* the caller unless a timeout is set, in which case the thread is about to
\* wait; the driver's own error always does.
ConnectFails(t) ==
    /\ pc[t] = "connect_body" /\ Usable = {}
    /\ \/ PoolFull /\ Goto(t, IF WaitMode = "none" THEN "run" ELSE "wait")
       \/ /\ ~PoolFull /\ (nextConn \notin Conns \/ "refuse" \in Ops)
          /\ Goto(t, "run")
    /\ idle' = {} /\ _close_raw(idle)
    /\ dbLock' = None /\ poolLock' = None
    /\ UNCHANGED <<inUse, local, calls, bounds>>

\* set_connection().  What follows it in connect(), the server version and
\* _initialize_connection(), may raise, and leaves the same state if it does.
ConnectSet(t) ==
    /\ pc[t] = "connect_set"
    /\ conn' = [conn EXCEPT ![t] = held[t]]
    /\ held' = [held EXCEPT ![t] = None]
    /\ txn' = [txn EXCEPT ![t] = FALSE]
    /\ dbLock' = None
    /\ Goto(t, "run")
    /\ UNCHANGED <<poolLock, pool, server, calls, bounds>>

\* with self._pool_available: wait(...)
WaitStart(t) ==
    /\ pc[t] = "wait" /\ poolLock = None
    /\ waiters' = waiters \cup {t}
    /\ Goto(t, "waiting")
    /\ UNCHANGED <<locks, pool, server, local, caller, bounds>>

\* Mutation: the wait is not capped, only a notification ends it.
CapNeverElapses(t) == FALSE

\* A wait is capped at one second, which may pass at any time.
CapElapses(t) == TRUE

\* A thread takes the pool lock back, leaves the block and retries.
WaitOver(t) ==
    /\ pc[t] = "waiting" /\ poolLock = None
    /\ t \notin waiters \/ CapElapses(t)
    /\ waiters' = waiters \ {t}
    /\ Goto(t, "connect_lock")
    /\ UNCHANGED <<locks, pool, server, local, caller, bounds>>

\* The deadline is found to have passed before the thread waits again.
WaitExpired(t) ==
    /\ pc[t] = "wait" /\ WaitMode = "finite"
    /\ Goto(t, "run")
    /\ UNCHANGED <<locks, pool, server, local, calls, bounds>>

-----------------------------------------------------------------------------
(***************************************************************************)
(* close(): the connection goes back to the pool.                          *)
(***************************************************************************)

Close(t) ==
    /\ pc[t] = "run" /\ conn[t] # None
    /\ caller' = [caller EXCEPT ![t] = "close"]
    /\ Goto(t, "close_lock")
    /\ UNCHANGED <<locks, pool, server, local, waiters, bounds>>

\* Where close() returns to.
AfterClose(t) ==
    CASE caller[t] = "close"        -> "run"
      [] caller[t] = "manual_close" -> "manual_raw"
      [] caller[t] = "close_all"    -> "all_pool"

\* Under the database lock: refused inside a transaction, whoever the caller;
\* nothing but a reset when the thread has no connection.
CloseLock(t) ==
    /\ pc[t] = "close_lock" /\ dbLock = None
    /\ \/ /\ InTransaction(t)
          /\ Goto(t, "run")
          /\ held' = [held EXCEPT ![t] = None]
          /\ UNCHANGED dbLock
       \/ /\ ~InTransaction(t) /\ conn[t] # None
          /\ dbLock' = t
          /\ Goto(t, "close_pool")
          /\ UNCHANGED held
       \/ /\ ~InTransaction(t) /\ conn[t] = None
          /\ Goto(t, AfterClose(t))
          /\ UNCHANGED <<dbLock, held>>
    /\ UNCHANGED <<poolLock, pool, server, conn, txn, calls, bounds>>

\* _close() of a connection somebody else has closed and untracked, or that
\* manual_close() has: ignored.
CloseIgnored(t) ==
    /\ pc[t] = "close_body" /\ conn[t] \notin inUse
    /\ ReleasePool
    /\ Goto(t, "close_reset")
    /\ UNCHANGED <<pool, server, local, calls, bounds>>

\* _close() discards a connection that is stale or cannot be reused.
CloseDiscard(t) ==
    /\ pc[t] = "close_body" /\ conn[t] \in inUse
    /\ _is_stale(conn[t]) \/ FALSE \in _can_reuse(conn[t])
    /\ inUse' = inUse \ {conn[t]}
    /\ _close_raw({conn[t]})
    /\ Notify
    /\ ReleasePool
    /\ Goto(t, "close_reset")
    /\ UNCHANGED <<idle, local, caller, bounds>>

\* _close() returns the connection to the heap.
CheckIn(t) ==
    /\ pc[t] = "close_body" /\ conn[t] \in inUse
    /\ ~_is_stale(conn[t]) /\ TRUE \in _can_reuse(conn[t])
    /\ inUse' = inUse \ {conn[t]}
    /\ idle' = idle \cup {conn[t]}
    /\ dirty' = RolledBack(conn[t])
    /\ Notify
    /\ ReleasePool
    /\ Goto(t, "close_reset")
    /\ UNCHANGED <<open, local, caller, bounds>>

\* The finally clause of close(): the state is reset, the lock released.
CloseReset(t) ==
    /\ pc[t] = "close_reset"
    /\ conn' = [conn EXCEPT ![t] = None]
    /\ txn' = [txn EXCEPT ![t] = FALSE]
    /\ dbLock' = None
    /\ Goto(t, AfterClose(t))
    /\ UNCHANGED <<poolLock, pool, server, held, calls, bounds>>

-----------------------------------------------------------------------------
(***************************************************************************)
(* manual_close(), close_idle(), close_stale(), close_all().               *)
(***************************************************************************)

ManualClose(t) ==
    /\ "manual_close" \in Ops
    /\ pc[t] = "run" /\ conn[t] # None
    /\ txn[t] => "manual_close_in_txn" \in Ops
    /\ held' = [held EXCEPT ![t] = conn[t]]
    /\ Goto(t, "manual_pool")
    /\ UNCHANGED <<locks, pool, server, conn, txn, calls, bounds>>

ManualUntrack(t) ==
    /\ pc[t] = "manual_body"
    /\ inUse' = inUse \ {held[t]}
    /\ ReleasePool
    /\ caller' = [caller EXCEPT ![t] = "manual_close"]
    /\ Goto(t, "close_lock")
    /\ UNCHANGED <<idle, server, local, waiters, bounds>>

\* self._close_raw(conn), with no lock held.
ManualRaw(t) ==
    /\ pc[t] = "manual_raw"
    /\ _close_raw({held[t]})
    /\ held' = [held EXCEPT ![t] = None]
    /\ Goto(t, "run")
    /\ UNCHANGED <<locks, pool, conn, txn, calls, bounds>>

CloseIdleOrStale(t) ==
    /\ pc[t] = "run"
    /\ \/ "close_idle" \in Ops /\ Goto(t, "idle_pool")
       \/ "close_stale" \in Ops /\ Goto(t, "stale_pool")
    /\ UNCHANGED <<locks, pool, server, local, calls, bounds>>

CloseIdleBody(t) ==
    /\ pc[t] = "idle_body"
    /\ idle' = {} /\ _close_raw(idle)
    /\ ReleasePool
    /\ Goto(t, "run")
    /\ UNCHANGED <<inUse, local, calls, bounds>>

\* The caller's age decides which checked-out connections are closed.  Times
\* of check-out are not modelled: any subset may be old enough.
CloseStaleBody(t) ==
    /\ pc[t] = "stale_body"
    /\ \E old \in SUBSET inUse : inUse' = inUse \ old /\ _close_raw(old)
    /\ waiters' = {}
    /\ ReleasePool
    /\ Goto(t, "run")
    /\ UNCHANGED <<idle, local, caller, bounds>>

\* Mutation: close_all() takes the pool lock for its whole duration.
CloseAllLocked(t) ==
    /\ "close_all" \in Ops /\ pc[t] = "run"
    /\ poolLock = None /\ poolLock' = t
    /\ caller' = [caller EXCEPT ![t] = "close_all"]
    /\ Goto(t, "close_lock")
    /\ UNCHANGED <<dbLock, pool, server, local, waiters, bounds>>

\* close_all() first closes the caller's own connection, without the pool
\* lock: close() takes the database lock.
CloseAll(t) ==
    /\ "close_all" \in Ops /\ pc[t] = "run"
    /\ caller' = [caller EXCEPT ![t] = "close_all"]
    /\ Goto(t, "close_lock")
    /\ UNCHANGED <<locks, pool, server, local, waiters, bounds>>

CloseAllBody(t) ==
    /\ pc[t] = "all_body"
    /\ idle' = {} /\ inUse' = {} /\ _close_raw(idle \cup inUse)
    /\ waiters' = {}
    /\ ReleasePool
    /\ Goto(t, "run")
    /\ UNCHANGED <<local, caller, bounds>>

-----------------------------------------------------------------------------
(***************************************************************************)
(* What the threads do with their connections, and what happens to them.   *)
(***************************************************************************)

\* An atomic() or transaction() block is entered and left.
Begin(t) ==
    /\ "transaction" \in Ops
    /\ pc[t] = "run" /\ conn[t] \in open
    /\ ~txn[t] /\ conn[t] \notin dirty
    /\ txn' = [txn EXCEPT ![t] = TRUE]
    /\ dirty' = dirty \cup {conn[t]}
    /\ UNCHANGED <<locks, pool, open, conn, held, pc, calls, bounds>>

End(t) ==
    /\ pc[t] = "run" /\ txn[t]
    /\ txn' = [txn EXCEPT ![t] = FALSE]
    /\ dirty' = dirty \ {conn[t]}
    /\ UNCHANGED <<locks, pool, open, conn, held, pc, calls, bounds>>

\* A transaction peewee does not know about: BEGIN sent with execute_sql().
RawBegin(t) ==
    /\ "raw_begin" \in Ops
    /\ pc[t] = "run" /\ conn[t] \in open \ dirty
    /\ dirty' = dirty \cup {conn[t]}
    /\ UNCHANGED <<locks, pool, open, local, pc, calls, bounds>>

\* The server drops a connection.
Drop ==
    /\ "drop" \in Ops
    /\ \E c \in open : open' = open \ {c}
    /\ UNCHANGED <<locks, pool, dirty, local, pc, calls, bounds>>

\* Time passes: the oldest connection that was not stale yet becomes so.
Age ==
    /\ "age" \in Ops
    /\ staleUpTo + 1 < nextConn
    /\ staleUpTo' = staleUpTo + 1
    /\ UNCHANGED <<locks, pool, server, local, pc, calls, nextConn, budget>>

Finished ==
    /\ \A t \in Threads : pc[t] = "run" /\ conn[t] = None /\ budget[t] = 0
    /\ UNCHANGED vars

ConnectStep(t) ==
    \/ ConnectLock(t) \/ Checkout(t) \/ Create(t) \/ ConnectFails(t)
    \/ ConnectSet(t) \/ WaitStart(t) \/ WaitOver(t) \/ WaitExpired(t)

CloseStep(t) ==
    \/ CloseLock(t) \/ CloseIgnored(t) \/ CloseDiscard(t) \/ CheckIn(t)
    \/ CloseReset(t) \/ ManualUntrack(t) \/ ManualRaw(t) \/ CloseIdleBody(t)
    \/ CloseStaleBody(t) \/ CloseAllBody(t)

Call(t) ==
    \/ Connect(t) \/ Close(t) \/ ManualClose(t) \/ CloseIdleOrStale(t)
    \/ CloseAll(t) \/ Begin(t) \/ End(t) \/ RawBegin(t)

Step(t) == AcquirePool(t) \/ ConnectStep(t) \/ CloseStep(t)

Next ==
    \/ \E t \in Threads : Step(t) \/ Call(t)
    \/ Drop \/ Age \/ Finished

Spec == Init /\ [][Next]_vars

\* A thread inside a call goes on with it, and the application closes the
\* connections it opens.  Strong fairness, because the locks are taken again
\* and again by the threads that retry: a lock that is released over and over
\* is not given to the others forever.
Fairness == \A t \in Threads : SF_vars(Step(t) \/ Close(t))

FairSpec == Spec /\ Fairness

-----------------------------------------------------------------------------
(***************************************************************************)
(* Properties.                                                             *)
(***************************************************************************)

TypeOK ==
    /\ dbLock \in Threads \cup {None}
    /\ poolLock \in Threads \cup {None}
    /\ nextConn \in 1 .. ConnLimit + 1
    /\ idle \subseteq 1 .. nextConn - 1
    /\ inUse \subseteq 1 .. nextConn - 1
    /\ open \subseteq 1 .. nextConn - 1
    /\ dirty \subseteq 1 .. nextConn - 1
    /\ staleUpTo \in 0 .. nextConn - 1
    /\ conn \in [Threads -> (1 .. nextConn - 1) \cup {None}]
    /\ txn \in [Threads -> BOOLEAN]
    /\ held \in [Threads -> (1 .. nextConn - 1) \cup {None}]
    /\ pc \in [Threads -> Points]
    /\ caller \in [Threads -> {"close", "manual_close", "close_all"}]
    /\ waiters \subseteq Threads
    /\ budget \in [Threads -> Nat]

\* The connections the pool keeps track of, idle and checked out, never
\* exceed max_connections, although _connect() compares it with the number of
\* checked-out ones alone: it does so only with an empty heap.
PoolBounded == Cardinality(idle \cup inUse) <= MaxConnections

\* No connection serves two threads: two threads never have the same one in
\* their state, and one that sits in the heap is in the state only of the
\* thread that has just returned it and still holds the database lock.
Exclusive ==
    /\ \A t, u \in Threads : t # u /\ conn[t] = conn[u] => conn[t] = None
    /\ \A t \in Threads : conn[t] \in idle => dbLock = t

\* A connection in the heap has no transaction left open at the driver, so
\* that no thread is handed the unfinished work of another.
IdleClean == idle \cap dirty = {}

\* A connection with a transaction block open on it is not in the heap: close()
\* is refused inside the block, and nothing else returns the connection.
TransactionKeepsConnection == \A t \in Threads : txn[t] => conn[t] \notin idle

\* Nothing open at the server is forgotten: it is idle, checked out, or about
\* to be closed by a thread that is inside manual_close().
NoLeak == open \subseteq idle \cup inUse \cup {held[t] : t \in Threads}

\* No thread that holds the pool lock waits for the database lock, which
\* connect() and close() hold while they take the pool lock (the deadlock the
\* comments in manual_close and close_all are about).
LockOrder == \A t \in Threads : poolLock = t => pc[t] \notin DbWanted

\* What _connect() hands out is open, not stale and clean at that moment.
CheckoutUsable ==
    [][\A t \in Threads : pc[t] = "connect_body" /\ pc'[t] = "connect_set"
            => /\ held'[t] \in open'
               /\ ~_is_stale(held'[t])
               /\ held'[t] \notin dirty']_vars

\* Whoever waits for a connection with no deadline gets one, as long as the
\* others close theirs: a notification may be lost between the refusal and
\* the wait, or go to a thread that loses the race for the connection, and
\* the cap of one second on every wait makes up for it.
WaiterServed ==
    \A t \in Threads : pc[t] \in {"wait", "waiting"} ~> conn[t] # None

-----------------------------------------------------------------------------
(***************************************************************************)
(* The inductive invariant behind PoolBounded, Exclusive, IdleClean,       *)
(* TransactionKeepsConnection and LockOrder.                               *)
(***************************************************************************)

\* Where a thread is says which locks it holds.
LockOwners ==
    \A t \in Threads : /\ dbLock = t <=> pc[t] \in DbHeld
                       /\ poolLock = t <=> pc[t] \in PoolBodies

\* A thread on its way through connect() has no connection in its state; the
\* one it was handed is nobody else's and not in the heap.
HandedOver ==
    \A t \in Threads :
        /\ pc[t] \in {"connect_pool", "connect_body", "connect_set"}
                => conn[t] = None
        /\ pc[t] = "connect_set"
                => /\ held[t] \notin idle
                   /\ \A u \in Threads : conn[u] = held[t] => held[t] = None

\* Only the thread that has returned a connection still refers to it, and no
\* thread gets past the first step of close() inside a transaction.
HandedBack ==
    \A t \in Threads :
        /\ conn[t] \in idle => pc[t] = "close_reset"
        /\ pc[t] \in {"close_pool", "close_body", "close_reset"} => ~txn[t]

Hands == /\ HandedOver /\ HandedBack
         /\ Exclusive /\ IdleClean /\ TransactionKeepsConnection

PoolInv == TypeOK /\ LockOwners /\ PoolBounded /\ Hands

(***************************************************************************)
(* What NoLeak needs besides: a thread that holds a connection in a local  *)
(* variable is on its way to put it into its state or to close it.         *)
(***************************************************************************)

\* A connection in a local variable is one connect() was handed, or one that
\* manual_close() is to close, also while it runs close().
HeldOnTheWay ==
    \A t \in Threads : held[t] # None =>
        \/ pc[t] \in {"connect_set", "manual_pool", "manual_body", "manual_raw"}
        \/ /\ pc[t] \in {"close_lock", "close_pool", "close_body", "close_reset"}
           /\ caller[t] = "manual_close"

\* manual_close() untracks the caller's own connection, with no transaction
\* open that would make close() refuse.
ManualUndisturbed ==
    \A t \in Threads :
        /\ pc[t] \in {"manual_pool", "manual_body"} => held[t] = conn[t] /\ ~txn[t]
        /\ pc[t] = "close_lock" /\ caller[t] = "manual_close" => ~txn[t]

\* What connect() was handed is tracked until somebody closes it.
HandedTracked ==
    \A t \in Threads :
        pc[t] = "connect_set" => held[t] \in inUse \/ held[t] \notin open

LeakInv == HeldOnTheWay /\ ManualUndisturbed /\ HandedTracked /\ NoLeak

=============================================================================
