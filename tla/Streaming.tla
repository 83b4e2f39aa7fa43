------------------------------ MODULE Streaming ------------------------------
(***************************************************************************)
(* AsyncConnectionWrapper, CursorAdapter and iterate(), pwasyncio.py: one  *)
(* connection on which a task runs queries and opens generators that read  *)
(* a server-side cursor in portions.  An open generator holds the lock of  *)
(* the connection; asyncpg wants a transaction around it, which is rolled   *)
(* back in the end, and stays open if that fails.  A generator that is     *)
(* dropped before its end is closed by the event loop, in another task and *)
(* at any later time; one that is kept is not, and who wants the           *)
(* connection then gives up after streaming_timeout.                       *)
(***************************************************************************)
EXTENDS Integers, Sequences, FiniteSets

CONSTANTS
    Drivers,   \* a subset of {"aiosqlite", "aiomysql", "asyncpg"}
    Gens,      \* the generators that iterate() makes
    Nobody,    \* not a generator
    RowCount,  \* rows of every result
    Buffer,    \* _buffer_size
    Queries    \* bound on the plain queries

VARIABLES
    driver,
    depth,      \* transactions and savepoints that are open on the connection
    broken,     \* history: which kinds of rollbacks failed, see Breaks
    task,       \* what the task is doing with the connection
    wants,      \* for whom it waits: a generator, or Nobody for a query
    gen,        \* gen[g]: what g is doing
    locked,     \* _lock is held
    streaming,  \* _streaming
    unread,     \* unread[g]: rows the server has not sent yet
    buffer,     \* buffer[g]: _buffer
    exhausted,  \* exhausted[g]: _exhausted
    seen,       \* seen[g]: rows g has yielded
    queries     \* queries still to come

cursors == <<unread, buffer, exhausted, seen>>
link == <<driver, depth, broken>>
vars == <<link, task, wants, gen, locked, streaming, cursors, queries>>

Rows == [i \in 1 .. RowCount |-> i]

\* "kept" is a generator its program stopped reading but still refers to.
GenStates == {"new", "open", "fetch", "kept", "dropped", "cleanup", "over"}

\* "failed" is a BEGIN or ROLLBACK of asyncpg that failed, or was cancelled, with the
\* transaction open; "cut" the rollback of execute_iter() itself, cancelled.
Breaks == {"failed", "cut"}

Init ==
    /\ driver \in Drivers
    /\ depth = 0 /\ broken = {}
    /\ task = "idle" /\ wants = Nobody
    /\ gen = [g \in Gens |-> "new"]
    /\ locked = FALSE /\ streaming = FALSE
    /\ unread = [g \in Gens |-> Rows] /\ buffer = [g \in Gens |-> <<>>]
    /\ exhausted = [g \in Gens |-> FALSE] /\ seen = [g \in Gens |-> <<>>]
    /\ queries = Queries

\* Mutation: whoever finds a cursor open waits as long as it takes.
GivesUpNever == FALSE

GivesUp == task = "wait_briefly"

\* _acquire_lock(): the wait is bounded if a generator has the lock now.
Want(who) ==
    /\ task = "idle" /\ wants' = who
    /\ task' = IF streaming THEN "wait_briefly" ELSE "wait"

Execute ==
    /\ queries > 0 /\ queries' = queries - 1
    /\ Want(Nobody)
    /\ UNCHANGED <<link, gen, locked, streaming, cursors>>

ExecuteIter(g) ==
    /\ gen[g] = "new"
    /\ Want(g)
    /\ UNCHANGED <<link, gen, locked, streaming, cursors, queries>>

GotLock ==
    /\ task \in {"wait", "wait_briefly"} /\ ~locked
    /\ locked' = TRUE
    /\ task' = CASE wants = Nobody -> "execute"
                 [] wants # Nobody /\ driver = "asyncpg" -> "begin"
                 [] OTHER -> "open"
    /\ streaming' = (wants # Nobody)
    /\ UNCHANGED <<link, wants, gen, cursors, queries>>

\* Busy streaming: InterfaceError.
TimedOut ==
    /\ GivesUp
    /\ task' = "idle" /\ wants' = Nobody
    /\ gen' = IF wants = Nobody THEN gen ELSE [gen EXCEPT ![wants] = "over"]
    /\ UNCHANGED <<link, locked, streaming, cursors, queries>>

\* The task is cancelled while it waits.
Cancelled ==
    /\ task \in {"wait", "wait_briefly"}
    /\ task' = "idle" /\ wants' = Nobody
    /\ gen' = IF wants = Nobody THEN gen ELSE [gen EXCEPT ![wants] = "over"]
    /\ UNCHANGED <<link, locked, streaming, cursors, queries>>

\* execute() releases the lock whether the statement succeeded, failed or was
\* cancelled.
Executed ==
    /\ task = "execute"
    /\ locked' = FALSE
    /\ task' = "idle"
    /\ UNCHANGED <<link, wants, gen, streaming, cursors, queries>>

\* transaction().start() of asyncpg: a savepoint, or an error, on a connection that
\* is in a transaction already.
Bracketed ==
    /\ task = "begin"
    /\ depth' = depth + 1
    /\ task' = "open"
    /\ UNCHANGED <<driver, broken, wants, gen, locked, streaming, cursors, queries>>

\* The cursor is open, and the lock stays held for its generator.
Opened ==
    /\ task = "open"
    /\ gen' = [gen EXCEPT ![wants] = "open"]
    /\ task' = "idle" /\ wants' = Nobody
    /\ UNCHANGED <<link, locked, streaming, cursors, queries>>

\* execute_iter() raises.
Raises ==
    /\ gen' = [gen EXCEPT ![wants] = "over"]
    /\ task' = "idle" /\ wants' = Nobody
    /\ UNCHANGED <<driver, cursors, queries>>

Unlock == streaming' = FALSE /\ locked' = FALSE

\* What is open after a BEGIN or ROLLBACK that may fail: n when it did as it should,
\* and m when it did not.
OpenAfter(n, m) ==
    \/ depth' = n /\ UNCHANGED broken
    \/ depth' = m /\ broken' = broken \cup {"failed"}

\* start() fails, or is cancelled and BEGIN may have been executed; rollback() raises
\* for a transaction that is not started, which is ignored.
BeginFails ==
    /\ task = "begin"
    /\ OpenAfter(depth, depth + 1)
    /\ Unlock /\ Raises

\* The statement of execute_iter() fails or is cancelled.
OpenFails ==
    /\ task = "open" /\ driver # "asyncpg"
    /\ Unlock /\ Raises
    /\ UNCHANGED <<depth, broken>>

\* asyncpg: the transaction that was begun is rolled back first.
Undo ==
    /\ task = "open" /\ driver = "asyncpg"
    /\ task' = "undo"
    /\ UNCHANGED <<link, wants, gen, locked, streaming, cursors, queries>>

\* A rollback that fails is ignored.
Undone ==
    /\ task = "undo"
    /\ OpenAfter(depth - 1, depth)
    /\ Unlock /\ Raises

\* The task is cancelled, once more, during the rollback: the handler ends there, and
\* neither _streaming nor the lock is reset.
UndoCut ==
    /\ task = "undo"
    /\ depth' \in {depth - 1, depth} /\ broken' = broken \cup {"cut"}
    /\ Raises
    /\ UNCHANGED <<locked, streaming>>

-----------------------------------------------------------------------------
\* iterate() asks for a row: from the buffer, or from the server when it is
\* empty, until the server has no more.
NextRow(g) ==
    /\ gen[g] = "open"
    /\ IF buffer[g] # <<>>
       THEN /\ seen' = [seen EXCEPT ![g] = Append(@, Head(buffer[g]))]
            /\ buffer' = [buffer EXCEPT ![g] = Tail(@)]
            /\ UNCHANGED gen
       ELSE /\ gen' = [gen EXCEPT ![g] = IF exhausted[g] THEN "cleanup" ELSE "fetch"]
            /\ UNCHANGED <<seen, buffer>>
    /\ UNCHANGED <<link, task, wants, locked, streaming, unread, exhausted, queries>>

Least(a, b) == IF a <= b THEN a ELSE b

\* fetch_many(_buffer_size); an empty answer is the end.
Fetched(g) ==
    LET n == Least(Buffer, Len(unread[g])) IN
    /\ gen[g] = "fetch"
    /\ exhausted' = [exhausted EXCEPT ![g] = n = 0]
    /\ buffer' = [buffer EXCEPT ![g] = SubSeq(unread[g], 1, n)]
    /\ unread' = [unread EXCEPT ![g] = SubSeq(@, n + 1, Len(@))]
    /\ gen' = [gen EXCEPT ![g] = "open"]
    /\ UNCHANGED <<link, task, wants, locked, streaming, seen, queries>>

\* The fetch fails or is cancelled, or the consumer calls aclose().
Interrupted(g) ==
    /\ gen[g] \in {"open", "fetch", "kept"}
    /\ gen' = [gen EXCEPT ![g] = "cleanup"]
    /\ UNCHANGED <<link, task, wants, locked, streaming, cursors, queries>>

\* The consumer leaves the loop.
BreakOut(g) ==
    /\ gen[g] = "open"
    /\ \E s \in {"kept", "dropped"} : gen' = [gen EXCEPT ![g] = s]
    /\ UNCHANGED <<link, task, wants, locked, streaming, cursors, queries>>

\* The event loop closes a generator that nobody refers to any more.
Finalize(g) ==
    /\ gen[g] = "dropped"
    /\ gen' = [gen EXCEPT ![g] = "cleanup"]
    /\ UNCHANGED <<link, task, wants, locked, streaming, cursors, queries>>

\* The end of the transaction around a cursor, or of the cursor itself, may fail or
\* be cancelled: asyncpg's failures are ignored.
EndCursor ==
    IF driver = "asyncpg" THEN OpenAfter(depth - 1, depth) ELSE UNCHANGED <<depth, broken>>

\* Mutation: the lock is released after the rollback, not in a finally block.
CleanupInterrupted(g) ==
    /\ gen[g] = "cleanup"
    /\ EndCursor
    /\ IF broken' = broken THEN Unlock ELSE UNCHANGED <<locked, streaming>>
    /\ gen' = [gen EXCEPT ![g] = "over"]
    /\ UNCHANGED <<driver, task, wants, cursors, queries>>

\* cleanup() releases the lock whatever becomes of the cursor.
Cleanup(g) ==
    /\ gen[g] = "cleanup"
    /\ EndCursor
    /\ Unlock
    /\ gen' = [gen EXCEPT ![g] = "over"]
    /\ UNCHANGED <<driver, task, wants, cursors, queries>>

GenNext(g) == \/ NextRow(g) \/ Fetched(g) \/ Interrupted(g) \/ BreakOut(g)
              \/ Finalize(g) \/ Cleanup(g)

Opening == \/ Bracketed \/ BeginFails \/ Opened \/ OpenFails
           \/ Undo \/ Undone \/ UndoCut

Next == \/ Execute \/ GotLock \/ TimedOut \/ Cancelled \/ Executed
        \/ Opening
        \/ \E g \in Gens : ExecuteIter(g) \/ GenNext(g)

Fairness == /\ WF_vars(GotLock) /\ WF_vars(TimedOut) /\ WF_vars(Executed)
            /\ WF_vars(Opening)

Spec == Init /\ [][Next]_vars /\ Fairness

-----------------------------------------------------------------------------
Running == task \in {"execute", "begin", "open", "undo"}
HasCursor == {g \in Gens : gen[g] \in {"open", "fetch", "kept", "dropped", "cleanup"}}

StreamTypes ==
    /\ task \in {"idle", "wait", "wait_briefly", "execute", "begin", "open", "undo"}
    /\ wants \in Gens \cup {Nobody}
    /\ gen \in [Gens -> GenStates]
    /\ locked \in BOOLEAN /\ streaming \in BOOLEAN
    /\ exhausted \in [Gens -> BOOLEAN]
    /\ queries \in 0 .. Queries
    /\ depth \in Nat /\ broken \subseteq Breaks

\* The lock is held for exactly one statement, running or streaming, whatever failed,
\* was cancelled or was abandoned on the way.  The exception is a task that is cancelled
\* while execute_iter() rolls back: nobody releases the lock then, and nobody gets it.
LockAccounted ==
    /\ locked <=> Running \/ HasCursor # {} \/ "cut" \in broken
    /\ streaming <=> (Running /\ task # "execute") \/ HasCursor # {} \/ "cut" \in broken
    /\ Cardinality(HasCursor) + (IF Running THEN 1 ELSE 0)
         + (IF "cut" \in broken THEN 1 ELSE 0) <= 1

\* asyncpg's cursor always has a transaction around it, no other driver's has, and
\* none is open beside the one of that cursor unless a BEGIN or a ROLLBACK failed.
Bracket ==
    LET own == IF driver = "asyncpg" /\ (task \in {"open", "undo"} \/ HasCursor # {})
               THEN 1 ELSE 0 IN
    /\ depth >= own
    /\ broken = {} => depth = own

\* A generator yields the rows in order, and ends by itself only after the last
\* one.
RowsInOrder ==
    \A g \in Gens : /\ seen[g] = SubSeq(Rows, 1, Len(seen[g]))
                    /\ exhausted[g] => seen[g] \o buffer[g] = Rows

\* The lock is held by who reads or executes, a transaction is open where asyncpg needs
\* one, and a generator yields the rows of its query in order.
StreamsSafe == StreamTypes /\ LockAccounted /\ Bracket /\ RowsInOrder

\* A task that wants the connection gets it or is told that it is busy, even if
\* nobody ever closes the generator that holds it.
NeverStuck == (task \in {"wait", "wait_briefly"}) ~> (task = "idle")
=============================================================================
