------------------------------ MODULE AsyncPool ------------------------------
(***************************************************************************)
(* AsyncDatabaseMixin and the pools below it, playhouse/pwasyncio.py:      *)
(* every asyncio task has a connection state of its own, found through a   *)
(* context variable that child tasks inherit, and takes its connection     *)
(* from a pool.  A task that ends without closing has its connection       *)
(* released by a task made for that; close_pool() collects the rest.       *)
(*                                                                         *)
(* What happens between two awaits is one step.  After its end a task's    *)
(* place is taken by the task that releases its connection, so that a      *)
(* process of the model is a task first and its release task after it.     *)
(*                                                                         *)
(* "sqlite" is AsyncSqlitePool, which is peewee's own.  "server" stands    *)
(* for the pools of aiomysql and asyncpg as the wrappers here use them.    *)
(***************************************************************************)
EXTENDS Integers, Sequences, FiniteSets

CONSTANTS
    Tasks,      \* asyncio tasks of the application
    None,       \* no task
    Settings,   \* pairs of a driver, "sqlite" or "server", and what may go wrong
    PoolSize,   \* pool_size
    MinSize,    \* pool_min_size, of a server's pool
    ConnLimit,  \* bound on the connections ever made
    PoolLimit,  \* bound on the pools ever made
    Visits      \* bound on the aconnect() calls of a task that acquire

AllFaults == {"cancel", "cancel_release", "cancel_gather", "drop", "rollback_fails",
              "recreate_fails", "create_fails", "late_release", "two_closers"}

ASSUME AsyncAssumption ==
    /\ None \notin Tasks
    /\ Settings \subseteq {"sqlite", "server"} \X SUBSET AllFaults
    /\ PoolSize \in Nat \ {0} /\ MinSize \in 0 .. PoolSize
    /\ ConnLimit \in Nat /\ PoolLimit \in Nat /\ Visits \in Nat

VARIABLES
    driver,    \* which driver this database uses
    faults,    \* what may go wrong
    pc,        \* pc[t]: the await t is at
    cv,        \* cv[t]: the task whose state is in t's context variable
    states,    \* the tasks whose state is in the registry _states
    hooked,    \* the tasks that have the done callback
    cur,       \* cur[t]: conn of t's state, 0 when closed
    txn,       \* txn[t]: t's state has a transaction
    visits,    \* visits[t]: acquisitions t may still make
    rel,       \* rel[t]: the release t is in: connection, pool, what follows
    got,       \* got[t]: local variable pool of _acquire_conn_async
    awaited,   \* awaited[t]: release tasks t's close_pool waits for
    todo,      \* todo[t]: states t's close_pool has not looked at yet
    pool,      \* _pool, 0 for None
    poolLock,  \* owner of _pool_lock, or None
    closing,   \* _closing
    tracked,   \* _release_tasks
    idle,      \* idle[p]: the queue of pool p
    out,       \* out[p]: the connections of p that are checked out
    closed,    \* the pools that are closed
    owner,     \* owner[c]: conn._pool
    open,      \* the connections the database has
    dirty,     \* those with a transaction open
    made,      \* connections ever made
    pools      \* pools ever made

setting  == <<driver, faults>>
registry == <<cv, states, hooked>>
session  == <<cur, txn>>
closer   == <<awaited, todo, closing>>
poolVars == <<idle, out, closed, pools>>
conns    == <<open, dirty, made, owner>>
vars == <<setting, pc, registry, session, visits, rel, got, closer, pool, poolLock,
          tracked, poolVars, conns>>

\* The task that asyncio.run() makes.
Main == CHOOSE t \in Tasks : TRUE

Conns == 1 .. ConnLimit
Pools == 1 .. PoolLimit

InRelease == {"rollback", "discard", "recreate", "surplus", "raw_close"}
Closing   == {"wait_releases", "cancelled", "reclaim", "pool_close"}
Points    == InRelease \cup Closing
               \cup {"unborn", "run", "ensure", "create", "acquire", "wait", "done",
                     "reap", "gone"}
Nothing   == [c |-> 0, p |-> 0, then |-> "run"]

ElementsOf(s) == {s[i] : i \in DOMAIN s}
Fresh(n)  == made + 1 .. made + n
Goto(t, point) == pc' = [pc EXCEPT ![t] = point]

\* conn.stale(): the driver's connection is gone.
Stale(c) == c \notin open

\* Mutation: the state found through the context variable is taken as it is.
OwnStateUnchecked(s, t) == s # None

OwnState(s, t) == s = t

\* _current(): the task's own state, never one inherited with the context.
Current(t) == IF OwnState(cv[t], t) THEN cv[t] ELSE t

Register(t) ==
    /\ states' = states \cup {Current(t)}
    /\ hooked' = hooked \cup {Current(t)}
    /\ cv' = [cv EXCEPT ![t] = Current(t)]

Init ==
    /\ \E s \in Settings : driver = s[1] /\ faults = s[2]
    /\ pc = [t \in Tasks |-> IF t = Main THEN "run" ELSE "unborn"]
    /\ cv = [t \in Tasks |-> None] /\ states = {} /\ hooked = {}
    /\ cur = [t \in Tasks |-> 0] /\ txn = [t \in Tasks |-> FALSE]
    /\ visits = [t \in Tasks |-> Visits]
    /\ rel = [t \in Tasks |-> Nothing] /\ got = [t \in Tasks |-> 0]
    /\ awaited = [t \in Tasks |-> {}] /\ todo = [t \in Tasks |-> {}]
    /\ closing = FALSE /\ pool = 0 /\ poolLock = None /\ tracked = {}
    /\ idle = [p \in Pools |-> <<>>] /\ out = [p \in Pools |-> {}]
    /\ closed = {} /\ pools = 0
    /\ owner = [c \in Conns |-> 0] /\ open = {} /\ dirty = {} /\ made = 0

-----------------------------------------------------------------------------
(***************************************************************************)
(* Releasing a connection, from whatever calls _release_conn().            *)
(***************************************************************************)

\* What release(c) does until its first await; "put" needs none.
Stage(c, p) ==
    IF p # pool \/ (driver = "sqlite" /\ p \in closed) THEN "raw_close"
    ELSE IF Stale(c) /\ driver = "sqlite" THEN "discard"
    ELSE IF ~Stale(c) /\ c \in dirty THEN "rollback"
    ELSE "put"

After(t, then) ==
    /\ Goto(t, then)
    /\ rel' = [rel EXCEPT ![t] = Nothing]
    /\ tracked' = IF then = "gone" THEN tracked \ {t} ELSE tracked

Full(p) == driver = "sqlite" /\ Len(idle[p]) >= PoolSize

\* put_nowait(c): a connection that does not fit is closed.  A server's pool
\* drops what is broken and closes what it gets back while it is closing.
PutBack(t, c, p, then, usable) ==
    LET dropped == driver = "server" /\ (p \in closed \/ ~usable) IN
    /\ out' = [out EXCEPT ![p] = @ \ {rel[t].c, c}]
    /\ idle' = IF Full(p) \/ dropped THEN idle ELSE [idle EXCEPT ![p] = Append(@, c)]
    /\ IF Full(p) \/ (dropped /\ usable)
       THEN /\ Goto(t, "surplus")
            /\ rel' = [rel EXCEPT ![t] = [c |-> c, p |-> p, then |-> then]]
            /\ UNCHANGED tracked
       ELSE After(t, then)

\* _release_conn(c) up to its first await.
Release(t, c, then) ==
    LET p == owner[c] IN
    IF Stage(c, p) = "put" THEN PutBack(t, c, p, then, ~Stale(c))
    ELSE /\ Goto(t, Stage(c, p))
         /\ rel' = [rel EXCEPT ![t] = [c |-> c, p |-> p, then |-> then]]
         /\ UNCHANGED <<idle, out, tracked>>

\* Mutation: the transaction a dead task left open is not rolled back.
RollbackSkipped(c) == UNCHANGED dirty

RolledBack(c) == dirty' = dirty \ {c}

\* The transaction left open is rolled back.
Rollback(t) ==
    /\ pc[t] = "rollback" /\ ~Stale(rel[t].c)
    /\ RolledBack(rel[t].c)
    /\ PutBack(t, rel[t].c, rel[t].p, rel[t].then, TRUE)
    /\ UNCHANGED <<setting, registry, session, visits, got, closer, pool,
                   poolLock, closed, pools, open, made, owner>>

\* It is not: the connection is replaced.  On a server it goes back as it is,
\* and the driver's pool destroys it.
RollbackFails(t) ==
    /\ pc[t] = "rollback"
    /\ "rollback_fails" \in faults \/ Stale(rel[t].c)
    /\ IF driver = "sqlite"
       THEN Goto(t, "discard") /\ UNCHANGED <<idle, out, rel, tracked, open, dirty>>
       ELSE /\ PutBack(t, rel[t].c, rel[t].p, rel[t].then, FALSE)
            /\ open' = open \ {rel[t].c} /\ dirty' = dirty \ {rel[t].c}
    /\ UNCHANGED <<setting, registry, session, visits, got, closer, pool,
                   poolLock, closed, pools, made, owner>>

\* A connection that is not valid is closed before its successor is made.
Discard(t) ==
    /\ pc[t] = "discard"
    /\ open' = open \ {rel[t].c} /\ dirty' = dirty \ {rel[t].c}
    /\ Goto(t, "recreate")
    /\ UNCHANGED <<setting, registry, session, visits, rel, got, closer, pool,
                   poolLock, tracked, poolVars, made, owner>>

\* Mutation: a connection that is not valid is not replaced.
NotRecreated(t) ==
    /\ pc[t] = "recreate"
    /\ out' = [out EXCEPT ![rel[t].p] = @ \ {rel[t].c}]
    /\ After(t, rel[t].then)
    /\ UNCHANGED <<setting, registry, session, visits, got, closer, pool,
                   poolLock, idle, closed, pools, conns>>

Recreate(t) ==
    /\ pc[t] = "recreate" /\ made < ConnLimit
    /\ made' = made + 1 /\ open' = open \cup {made + 1}
    /\ PutBack(t, made + 1, rel[t].p, rel[t].then, TRUE)
    /\ UNCHANGED <<setting, registry, session, visits, got, closer, pool,
                   poolLock, closed, pools, owner, dirty>>

RecreateFails(t) ==
    /\ "recreate_fails" \in faults
    /\ pc[t] = "recreate"
    /\ out' = [out EXCEPT ![rel[t].p] = @ \ {rel[t].c}]
    /\ After(t, rel[t].then)
    /\ UNCHANGED <<setting, registry, session, visits, got, closer, pool,
                   poolLock, idle, closed, pools, conns>>

\* A surplus connection, or one whose pool is gone or closed.
CloseConn(t) ==
    /\ pc[t] \in {"surplus", "raw_close"}
    /\ open' = open \ {rel[t].c} /\ dirty' = dirty \ {rel[t].c}
    /\ out' = [out EXCEPT ![rel[t].p] = @ \ {rel[t].c}]
    /\ After(t, rel[t].then)
    /\ UNCHANGED <<setting, registry, session, visits, got, closer, pool,
                   poolLock, idle, closed, pools, made, owner>>

-----------------------------------------------------------------------------
(***************************************************************************)
(* aconnect().                                                             *)
(***************************************************************************)

\* A task without a usable connection: a stale one is released first, and the
\* state still refers to it meanwhile.
Connect(t) ==
    LET s == Current(t) IN
    /\ pc[t] = "run" /\ ~closing
    /\ cur[s] = 0 \/ Stale(cur[s])
    /\ visits[t] > 0
    /\ visits' = [visits EXCEPT ![t] = @ - 1]
    /\ Register(t)
    /\ IF cur[s] # 0
       THEN Release(t, cur[s], "ensure")
       ELSE Goto(t, "ensure") /\ UNCHANGED <<rel, idle, out, tracked>>
    /\ UNCHANGED <<setting, session, got, closer, pool, poolLock, closed,
                   pools, conns>>

\* _ensure_pool() with a pool there, or with one to be made under the lock.
EnsurePool(t) ==
    /\ pc[t] = "ensure" /\ poolLock = None
    /\ IF pool # 0
       THEN /\ got' = [got EXCEPT ![t] = pool] /\ Goto(t, "acquire")
            /\ UNCHANGED poolLock
       ELSE /\ poolLock' = t /\ Goto(t, "create")
            /\ UNCHANGED got
    /\ UNCHANGED <<setting, registry, session, visits, rel, closer, pool,
                   tracked, poolVars, conns>>

\* The connections a pool begins with: AsyncSqlitePool opens all it will have.
Initial == IF driver = "sqlite" THEN PoolSize ELSE MinSize

\* _create_pool_async(), under the lock.
CreatePool(t) ==
    /\ pc[t] = "create" /\ pools < PoolLimit /\ made + Initial <= ConnLimit
    /\ pools' = pools + 1 /\ pool' = pools + 1 /\ poolLock' = None
    /\ idle' = [idle EXCEPT ![pools + 1] = [i \in 1 .. Initial |-> made + i]]
    /\ made' = made + Initial /\ open' = open \cup Fresh(Initial)
    /\ got' = [got EXCEPT ![t] = pools + 1]
    /\ Goto(t, "acquire")
    /\ UNCHANGED <<setting, registry, session, visits, rel, closer, tracked,
                   out, closed, owner, dirty>>

\* initialize() fails, or takes longer than the timeout, with some of the
\* connections open: nobody closes them.
CreateFails(t) ==
    /\ "create_fails" \in faults
    /\ pc[t] = "create"
    /\ \E n \in 0 .. Initial :
         /\ made + n <= ConnLimit
         /\ made' = made + n /\ open' = open \cup Fresh(n)
    /\ poolLock' = None
    /\ Goto(t, "run")
    /\ UNCHANGED <<setting, registry, session, visits, rel, got, closer, pool,
                   tracked, poolVars, owner, dirty>>

\* set_connection() follows without an await.
Take(t, c, p) ==
    /\ owner' = [owner EXCEPT ![c] = p]
    /\ out' = [out EXCEPT ![p] = @ \cup {c}]
    /\ cur' = [cur EXCEPT ![Current(t)] = c]
    /\ Goto(t, "run")

\* A connection from the pool, a closed one excepted; a task that has to wait
\* is served even if the pool is closed meanwhile.
Acquire(t) ==
    LET p == got[t] IN
    /\ pc[t] \in {"acquire", "wait"}
    /\ ~(pc[t] = "acquire" /\ p \in closed)
    /\ idle[p] # <<>>
    /\ Take(t, Head(idle[p]), p)
    /\ idle' = [idle EXCEPT ![p] = Tail(@)]
    /\ UNCHANGED <<setting, registry, txn, visits, rel, got, closer, pool,
                   poolLock, tracked, closed, pools, open, dirty, made>>

\* A server's pool connects when it has none idle and room for one more.
AcquireNew(t) ==
    LET p == got[t] IN
    /\ pc[t] \in {"acquire", "wait"} /\ driver = "server"
    /\ p \notin closed /\ idle[p] = <<>>
    /\ Cardinality(out[p]) < PoolSize /\ made < ConnLimit
    /\ made' = made + 1 /\ open' = open \cup {made + 1}
    /\ Take(t, made + 1, p)
    /\ UNCHANGED <<setting, registry, txn, visits, rel, got, closer, pool,
                   poolLock, tracked, idle, closed, pools, dirty>>

AcquireWait(t) ==
    /\ pc[t] = "acquire" /\ got[t] \notin closed
    /\ idle[got[t]] = <<>>
    /\ Goto(t, "wait")
    /\ UNCHANGED <<setting, registry, session, visits, rel, got, closer, pool,
                   poolLock, tracked, poolVars, conns>>

\* InterfaceError from a closed pool, OperationalError after acquire_timeout.
AcquireFails(t) ==
    /\ \/ pc[t] = "acquire" /\ got[t] \in closed
       \/ pc[t] \in {"ensure", "wait"}
    /\ Goto(t, "run")
    /\ UNCHANGED <<setting, registry, session, visits, rel, got, closer, pool,
                   poolLock, tracked, poolVars, conns>>

-----------------------------------------------------------------------------
(***************************************************************************)
(* aclose(), the end of a task, and transactions.                          *)
(***************************************************************************)

\* The state is reset before the connection is released.
AClose(t) ==
    LET s == Current(t) IN
    /\ pc[t] = "run" /\ ~txn[s] /\ cur[s] # 0
    /\ Register(t)
    /\ cur' = [cur EXCEPT ![s] = 0]
    /\ Release(t, cur[s], "run")
    /\ UNCHANGED <<setting, txn, visits, got, closer, pool, poolLock, closed,
                   pools, conns>>

Begin(t) ==
    LET s == Current(t) IN
    /\ pc[t] = "run" /\ ~txn[s]
    /\ cur[s] # 0 /\ ~Stale(cur[s])
    /\ txn' = [txn EXCEPT ![s] = TRUE]
    /\ dirty' = dirty \cup {cur[s]}
    /\ UNCHANGED <<setting, pc, registry, cur, visits, rel, got, closer, pool,
                   poolLock, tracked, poolVars, open, made, owner>>

\* COMMIT or ROLLBACK on whatever connection the task has by now.
End(t) ==
    LET s == Current(t) IN
    /\ pc[t] = "run" /\ txn[s]
    /\ txn' = [txn EXCEPT ![s] = FALSE]
    /\ dirty' = dirty \ {cur[s]}
    /\ UNCHANGED <<setting, pc, registry, cur, visits, rel, got, closer, pool,
                   poolLock, tracked, poolVars, open, made, owner>>

\* A BEGIN the program sends itself, or a transaction block whose rollback
\* was cancelled: a transaction that the state does not know.
LeftOpen(t) ==
    LET s == Current(t) IN
    /\ pc[t] = "run" /\ cur[s] # 0 /\ ~Stale(cur[s])
    /\ txn' = [txn EXCEPT ![s] = FALSE]
    /\ dirty' = dirty \cup {cur[s]}
    /\ UNCHANGED <<setting, pc, registry, cur, visits, rel, got, closer, pool,
                   poolLock, tracked, poolVars, open, made, owner>>

\* create_task() copies the context, and the context variable with it.
Spawn(t, u) ==
    /\ pc[t] = "run" /\ pc[u] = "unborn"
    /\ Goto(u, "run")
    /\ cv' = [cv EXCEPT ![u] = cv[t]]
    /\ UNCHANGED <<setting, states, hooked, session, visits, rel, got, closer,
                   pool, poolLock, tracked, poolVars, conns>>

Finish(t) ==
    /\ pc[t] = "run"
    /\ Goto(t, "done")
    /\ UNCHANGED <<setting, registry, session, visits, rel, got, closer, pool,
                   poolLock, tracked, poolVars, conns>>

\* _on_task_done(): makes the task that releases the connection.
TaskDone(t) ==
    LET holds == t \in hooked \cap states /\ cur[t] # 0 IN
    /\ pc[t] = "done"
    /\ states' = IF t \in hooked THEN states \ {t} ELSE states
    /\ IF holds
       THEN /\ Goto(t, "reap") /\ tracked' = tracked \cup {t}
            /\ rel' = [rel EXCEPT ![t] =
                        [c |-> cur[t], p |-> owner[cur[t]], then |-> "gone"]]
            /\ cur' = [cur EXCEPT ![t] = 0] /\ txn' = [txn EXCEPT ![t] = FALSE]
       ELSE Goto(t, "gone") /\ UNCHANGED <<session, tracked, rel>>
    /\ UNCHANGED <<setting, cv, hooked, visits, got, closer, pool, poolLock,
                   poolVars, conns>>

\* _safe_release() starts.
Reap(t) ==
    /\ pc[t] = "reap"
    /\ Release(t, rel[t].c, "gone")
    /\ UNCHANGED <<setting, registry, session, visits, got, closer, pool,
                   poolLock, closed, pools, conns>>

-----------------------------------------------------------------------------
(***************************************************************************)
(* close_pool().                                                           *)
(***************************************************************************)

Releasing == {u \in Tasks : pc[u] \in InRelease \cup {"reap"}}

ClosePool(t) ==
    /\ pc[t] = "run" /\ pool # 0
    /\ "two_closers" \in faults \/ ~closing
    /\ closing' = TRUE
    /\ Goto(t, "wait_releases")
    /\ UNCHANGED <<setting, registry, session, visits, rel, got, awaited, todo,
                   pool, poolLock, tracked, poolVars, conns>>

\* The release tasks are awaited, and those that were made meanwhile.
WaitReleases(t) ==
    /\ pc[t] = "wait_releases"
    /\ \A u \in awaited[t] : pc[u] = "gone"
    /\ awaited' = [awaited EXCEPT ![t] = tracked]
    /\ tracked' = {}
    /\ IF tracked = {}
       THEN Goto(t, "reclaim") /\ todo' = [todo EXCEPT ![t] = states]
       ELSE UNCHANGED <<pc, todo>>
    /\ UNCHANGED <<setting, registry, session, visits, rel, got, closing, pool,
                   poolLock, poolVars, conns>>

\* Running tasks keep their connection, the caller excepted.
Reclaimable(u, t) == u = t \/ pc[u] \in {"done", "reap", "gone"}

Reclaim(t) ==
    /\ pc[t] = "reclaim"
    /\ \E u \in todo[t] \cap states :
         /\ Reclaimable(u, t) /\ cur[u] # 0
         /\ todo' = [todo EXCEPT ![t] = @ \ {u}]
         /\ states' = states \ {u}
         /\ cur' = [cur EXCEPT ![u] = 0] /\ txn' = [txn EXCEPT ![u] = FALSE]
         /\ Release(t, cur[u], "reclaim")
    /\ UNCHANGED <<setting, cv, hooked, visits, got, awaited, closing, pool,
                   poolLock, closed, pools, conns>>

\* The states without a connection are dropped, and the pool is closed; an
\* instance may require that nobody is releasing a connection to it then.
Reclaimed(t) ==
    /\ pc[t] = "reclaim"
    /\ ~\E u \in todo[t] \cap states : Reclaimable(u, t) /\ cur[u] # 0
    /\ "late_release" \in faults \/ Releasing = {}
    /\ states' = states \ {u \in todo[t] : Reclaimable(u, t)}
    /\ todo' = [todo EXCEPT ![t] = {}]
    /\ Goto(t, "pool_close")
    /\ got' = [got EXCEPT ![t] = pool]
    /\ closed' = closed \cup ({pool} \ {0})
    /\ UNCHANGED <<setting, cv, hooked, session, visits, rel, awaited, closing,
                   pool, poolLock, tracked, idle, out, pools, conns>>

\* The idle connections are closed one at a time.
Drain(t) ==
    LET p == got[t] IN
    /\ pc[t] = "pool_close" /\ p # 0 /\ idle[p] # <<>>
    /\ idle' = [idle EXCEPT ![p] = Tail(@)]
    /\ open' = open \ {Head(idle[p])} /\ dirty' = dirty \ {Head(idle[p])}
    /\ UNCHANGED <<setting, pc, registry, session, visits, rel, got, closer,
                   pool, poolLock, tracked, out, closed, pools, made, owner>>

\* A server's pool waits for its connections, and terminates those that do not
\* come back in time.
PoolClosed(t) ==
    LET p == got[t]
        ended == IF driver = "server" /\ p # 0 THEN out[p] ELSE {} IN
    /\ pc[t] = "pool_close" /\ (p # 0 => idle[p] = <<>>)
    /\ open' = open \ ended /\ dirty' = dirty \ ended
    /\ pool' = 0 /\ closing' = FALSE
    /\ Goto(t, "run")
    /\ UNCHANGED <<setting, registry, session, visits, rel, got, awaited, todo,
                   poolLock, tracked, poolVars, made, owner>>

-----------------------------------------------------------------------------
(***************************************************************************)
(* What happens to tasks and connections.                                  *)
(***************************************************************************)

\* close_pool() is cancelled while it gathers the release tasks: gather() cancels
\* them with it, and the closer goes on when they have all ended.
CancelGather(t) ==
    /\ "cancel_gather" \in faults
    /\ pc[t] = "wait_releases" /\ awaited[t] # {}
    /\ Goto(t, "cancelled")
    /\ UNCHANGED <<setting, registry, session, visits, rel, got, closer, pool,
                   poolLock, tracked, poolVars, conns>>

\* A task cancelled while it waits gives up as if it had timed out, which
\* AcquireFails is; one in close_pool() leaves the pool half closed.
CancelClose(t) ==
    /\ \/ "cancel" \in faults /\ pc[t] \in {"reclaim", "pool_close"}
       \/ pc[t] = "cancelled" /\ \A u \in awaited[t] : pc[u] = "gone"
    /\ closing' = FALSE /\ Goto(t, "run")
    /\ todo' = [todo EXCEPT ![t] = {}]
    /\ UNCHANGED <<setting, registry, session, visits, rel, got, awaited, pool,
                   poolLock, tracked, poolVars, conns>>

\* A release is cut short: what was to come does not happen, and but for a
\* connection that a state still has, SQLite's pool never gets it back.
CutShort(t) ==
    LET ends == pc[t] \in {"discard", "surplus", "raw_close"}
        lost == driver = "sqlite" /\ ~\E u \in Tasks : cur[u] = rel[t].c IN
    /\ open' = IF ends THEN open \ {rel[t].c} ELSE open
    /\ dirty' = IF ends THEN dirty \ {rel[t].c} ELSE dirty
    /\ out' = IF lost THEN [out EXCEPT ![rel[t].p] = @ \ {rel[t].c}] ELSE out

\* The task that releases its own connection, or a state's, is cancelled.
CancelRelease(t) ==
    /\ "cancel_release" \in faults
    /\ pc[t] \in InRelease /\ rel[t].then # "gone"
    /\ CutShort(t)
    /\ closing' = (closing /\ rel[t].then # "reclaim")
    /\ todo' = [todo EXCEPT ![t] = {}]
    /\ rel' = [rel EXCEPT ![t] = Nothing]
    /\ Goto(t, "run")
    /\ UNCHANGED <<setting, registry, session, visits, got, awaited, pool,
                   poolLock, tracked, idle, closed, pools, made, owner>>

\* The tasks that a cancelled close_pool() was gathering.
Cut(t) == \E u \in Tasks : pc[u] = "cancelled" /\ t \in awaited[u]

\* A release task that is cancelled with its gather(), begun or not:
\* _safe_release() catches an Exception, and a cancellation is none.
CutRelease(t) ==
    /\ "cancel_gather" \in faults /\ Cut(t)
    /\ pc[t] \in InRelease \cup {"reap"} /\ rel[t].then = "gone"
    /\ CutShort(t)
    /\ After(t, "gone")
    /\ UNCHANGED <<setting, registry, session, visits, got, closer, pool,
                   poolLock, idle, closed, pools, made, owner>>

\* The database ends a connection.
Drop(c) ==
    /\ "drop" \in faults
    /\ c \in open
    /\ open' = open \ {c} /\ dirty' = dirty \ {c}
    /\ UNCHANGED <<setting, pc, registry, session, visits, rel, got, closer,
                   pool, poolLock, tracked, poolVars, made, owner>>

Step(t) ==
    \/ Rollback(t) \/ RollbackFails(t) \/ Discard(t) \/ Recreate(t) \/ RecreateFails(t)
    \/ CloseConn(t)
    \/ EnsurePool(t) \/ CreatePool(t) \/ CreateFails(t)
    \/ Acquire(t) \/ AcquireNew(t) \/ AcquireWait(t) \/ AcquireFails(t)
    \/ TaskDone(t) \/ Reap(t)
    \/ WaitReleases(t) \/ Reclaim(t) \/ Reclaimed(t) \/ Drain(t) \/ PoolClosed(t)

Call(t) ==
    \/ Connect(t) \/ AClose(t) \/ Begin(t) \/ End(t) \/ LeftOpen(t) \/ Finish(t)
    \/ ClosePool(t)
    \/ \E u \in Tasks : Spawn(t, u)

Next == \/ \E t \in Tasks : \/ (~Cut(t) /\ Step(t))
                             \/ Call(t)
                             \/ CancelGather(t) \/ CancelClose(t)
                             \/ CancelRelease(t) \/ CutRelease(t)
        \/ \E c \in Conns : Drop(c)

Spec == Init /\ [][Next]_vars

-----------------------------------------------------------------------------
TypeOK ==
    /\ <<driver, faults>> \in Settings
    /\ pc \in [Tasks -> Points]
    /\ cv \in [Tasks -> Tasks \cup {None}]
    /\ states \subseteq Tasks /\ hooked \subseteq Tasks /\ tracked \subseteq Tasks
    /\ cur \in [Tasks -> 0 .. ConnLimit] /\ txn \in [Tasks -> BOOLEAN]
    /\ visits \in [Tasks -> 0 .. Visits]
    /\ rel \in [Tasks -> [c : 0 .. ConnLimit, p : 0 .. PoolLimit, then : Points]]
    /\ got \in [Tasks -> 0 .. PoolLimit]
    /\ awaited \in [Tasks -> SUBSET Tasks] /\ todo \in [Tasks -> SUBSET Tasks]
    /\ pool \in 0 .. PoolLimit /\ poolLock \in Tasks \cup {None} /\ closing \in BOOLEAN
    /\ \A p \in Pools : /\ ElementsOf(idle[p]) \subseteq Conns /\ Len(idle[p]) <= PoolSize
                         /\ out[p] \subseteq Conns
    /\ closed \subseteq Pools /\ pools \in 0 .. PoolLimit
    /\ owner \in [Conns -> 0 .. PoolLimit]
    /\ open \subseteq Conns /\ dirty \subseteq open /\ made \in 0 .. ConnLimit

Uses(t)    == IF pc[t] \in {"unborn", "gone"} THEN 0 ELSE cur[Current(t)]
IdleIn(p)  == ElementsOf(idle[p])
InReleases == {rel[t].c : t \in Tasks} \ {0}

\* A connection that works has one user: it is in the state that one task
\* finds, or in one release, or idle once in one pool.
Exclusive ==
    \A c \in open :
      Cardinality({t \in Tasks : Uses(t) = c}) + Cardinality({t \in Tasks : rel[t].c = c})
        + Cardinality({x \in Pools \X (1 .. PoolSize) :
                         x[2] \in DOMAIN idle[x[1]] /\ idle[x[1]][x[2]] = c}) <= 1

\* No idle connection has a transaction open, whatever its last task left:
\* release() rolls back or replaces it.
IdleClean == \A p \in Pools : IdleIn(p) \cap dirty = {}

\* What takes a slot from SQLite's pool for good.
TakesSlots == {"recreate_fails", "cancel_release", "cancel_gather"}

\* An open pool of SQLite never has fewer connections than it was made with,
\* idle or checked out: with one less, some day every task waits.  It has one less
\* when a connection cannot be replaced or a release is cancelled, which are the
\* exceptions.  (Of two tasks that close the pool one may drop a pool that was
\* made meanwhile; nobody uses it then.)
SlotsKept ==
    driver = "sqlite" /\ faults \cap TakesSlots = {} =>
      \A p \in 1 .. pools \ closed :
         p = pool \/ "two_closers" \notin faults => Len(idle[p]) + Cardinality(out[p]) >= PoolSize

\* What leaves a connection open that nobody knows any more: a pool that is half
\* made, a release that is cancelled, or comes after the pool was drained, and
\* two tasks that close the pool.
LosesConns == {"create_fails", "cancel_release", "cancel_gather", "late_release",
               "two_closers"}

\* No connection is left open that nobody would ever close: it is in the hands
\* of a release or a task that has not ended, or close_pool() will find it.
Accounted ==
    faults \cap LosesConns = {} =>
    \A c \in open : \/ c \in InReleases
                    \/ \E p \in Pools : (p \notin closed \/ p = pool) /\ c \in IdleIn(p)
                    \/ \E t \in Tasks : \/ cur[t] = c /\ pc[t] # "gone"
                                        \/ pc[t] = "pool_close" /\ c \in IdleIn(got[t])

\* No slot of a pool and no connection is lost on the way (release(), aclose() and
\* close_pool()), but for TakesSlots and LosesConns, the cancellation of a release
\* and of close_pool()'s gather() among them; and every variable keeps its type.
NothingLost == TypeOK /\ SlotsKept /\ Accounted
=============================================================================
