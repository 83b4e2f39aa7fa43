---------------------------- MODULE Transactions ----------------------------
(***************************************************************************)
(* Transaction management of one thread's connection, peewee.py: the       *)
(* context managers _transaction, _savepoint, _atomic, _manual, the        *)
(* database and ConnectionContext as context managers, sessions, and the   *)
(* per-thread state (_ConnectionState) they work on.                       *)
(*                                                                         *)
(* What the code knows is its own stack, _state.transactions; what is true *)
(* is the driver's: whether a transaction is open and which savepoints it  *)
(* has.  The two are separate variables, and the properties relate them.   *)
(* The driver is that of SQLite: statements that make no sense in its      *)
(* state fail and change nothing, and a COMMIT that fails leaves the       *)
(* transaction open.                                                       *)
(*                                                                         *)
(* A with block is one step to enter and one to leave.  A statement of the *)
(* code that raises ends the step, as the exception ends the method.       *)
(***************************************************************************)
EXTENDS Integers, Sequences, FiniteSets

CONSTANTS
    Rows,      \* rows the program may write
    MaxDepth,  \* bound on the nesting of blocks and sessions
    MaxSaves,  \* bound on the savepoints the driver has at a time
    Ops        \* the features and faults an instance has

AllOps == {"transaction", "savepoint", "with_db", "with_db_nested",
           "connection_context", "explicit", "explicit_outer", "session",
           "manual", "manual_closed", "close", "lost", "commit_fails"}

ASSUME TransactionsAssumption ==
    /\ MaxDepth \in Nat /\ MaxSaves \in Nat
    /\ Ops \subseteq AllOps

VARIABLES
    closed,   \* _state.closed
    ctx,      \* length of _state.ctx
    txns,     \* _state.transactions: "txn" and "manual" entries
    blocks,   \* the with blocks the program is in, outermost first
    alive,    \* FALSE once the server has dropped the connection
    begun,    \* a transaction is open at the driver
    saves,    \* its savepoints: [sid, snap], oldest first
    work,     \* the rows the connection sees
    durable,  \* the rows committed
    outcome   \* how the last transaction or savepoint block was left

state  == <<closed, ctx, txns>>
driver == <<begun, saves, work, durable>>
vars   == <<state, blocks, alive, driver, outcome>>

Top(s) == s[Len(s)]
Pop(s) == SubSeq(s, 1, Len(s) - 1)
Depth  == Len(blocks)

\* A block: the context manager it was written with and what it turned out to
\* be, the helper that does the work on exit.
Kinds   == {"atomic", "transaction", "savepoint", "manual", "db", "conn"}
Helpers == {"txn", "inert", "save", "manual", "none"}

-----------------------------------------------------------------------------
(***************************************************************************)
(* Statements and their effect at the driver.  A savepoint is named after  *)
(* the depth of its block, where the code draws a unique name: the names   *)
(* of the blocks that are open differ, and a name means its latest bearer. *)
(***************************************************************************)

Named(sid) == {i \in DOMAIN saves : saves[i].sid = sid}
Latest(sid) == CHOOSE i \in Named(sid) : \A j \in Named(sid) : j <= i
Snapshot(sid) == saves[Latest(sid)].snap

Begin ==
    /\ alive /\ ~begun
    /\ begun' = TRUE /\ saves' = <<>>
    /\ UNCHANGED <<work, durable>>

COMMIT(again) ==
    /\ alive /\ begun
    /\ begun' = again /\ saves' = <<>>
    /\ durable' = work
    /\ UNCHANGED work

ROLLBACK(again) ==
    /\ alive /\ begun
    /\ begun' = again /\ saves' = <<>>
    /\ work' = durable
    /\ UNCHANGED durable

\* Mutation: a block that fails forgets the transaction without ending it.
TryRollbackForgotten == UNCHANGED driver

\* ROLLBACK when it may be that there is nothing to roll back: the statement
\* raises, and so does its caller, which is about to raise anyway.
TryRollback ==
    \/ ROLLBACK(FALSE)
    \/ ~(alive /\ begun) /\ UNCHANGED driver

SAVEPOINT(sid) ==
    /\ alive /\ begun
    /\ Len(saves) < MaxSaves
    /\ saves' = Append(saves, [sid |-> sid, snap |-> work])
    /\ UNCHANGED <<begun, work, durable>>

Releasable(sid) == alive /\ begun /\ Named(sid) # {}

RELEASE(sid) ==
    /\ Releasable(sid)
    /\ saves' = SubSeq(saves, 1, Latest(sid) - 1)
    /\ UNCHANGED <<begun, work, durable>>

\* Mutation: commit() of a savepoint does not begin another one.
RELEASE_only(sid) ==
    /\ Releasable(sid)
    /\ saves' = SubSeq(saves, 1, Latest(sid) - 1)
    /\ UNCHANGED <<begun, work, durable>>

\* RELEASE followed by SAVEPOINT of the same name.
RELEASE_SAVEPOINT(sid) ==
    /\ Releasable(sid)
    /\ saves' = Append(SubSeq(saves, 1, Latest(sid) - 1),
                       [sid |-> sid, snap |-> work])
    /\ UNCHANGED <<begun, work, durable>>

\* Mutation: a nested block that fails rolls back nothing.
TryRollbackToForgotten(sid) == UNCHANGED driver

TryRollbackTo(sid) ==
    \/ /\ Releasable(sid)
       /\ saves' = SubSeq(saves, 1, Latest(sid))
       /\ work' = Snapshot(sid)
       /\ UNCHANGED <<begun, durable>>
    \/ ~Releasable(sid) /\ UNCHANGED driver

\* ROLLBACK TO, which keeps the savepoint, followed by SAVEPOINT.
ROLLBACK_TO_SAVEPOINT(sid) ==
    /\ Releasable(sid)
    /\ Latest(sid) < MaxSaves
    /\ saves' = Append(SubSeq(saves, 1, Latest(sid)),
                       [sid |-> sid, snap |-> Snapshot(sid)])
    /\ work' = Snapshot(sid)
    /\ UNCHANGED <<begun, durable>>

-----------------------------------------------------------------------------
(***************************************************************************)
(* Entering blocks.  A statement on a closed database connects it first.   *)
(***************************************************************************)

Init ==
    /\ closed = TRUE /\ ctx = 0 /\ txns = <<>> /\ blocks = <<>>
    /\ alive = TRUE /\ begun = FALSE /\ saves = <<>>
    /\ work = {} /\ durable = {}
    /\ outcome = "none"

in_transaction == txns # <<>>

EnterBlock(kind, helper) ==
    /\ Depth < MaxDepth
    /\ blocks' = Append(blocks, [kind |-> kind, helper |-> helper])
    /\ outcome' = IF helper \in {"txn", "save"} THEN "none" ELSE outcome
    /\ UNCHANGED alive

\* Mutation: entering the database is not remembered.
CountedNever(kind) == ctx

\* The database as a context manager is an atomic() block that the ctx stack
\* remembers.
Counted(kind) == IF kind = "db" THEN ctx + 1 ELSE ctx

Allowed(kind) ==
    CASE kind = "atomic"      -> TRUE
      [] kind = "transaction" -> "transaction" \in Ops
      [] kind = "savepoint"   -> "savepoint" \in Ops
      [] kind = "db"          -> /\ "with_db" \in Ops
                                 /\ in_transaction => \/ ctx > 0
                                                      \/ "with_db_nested" \in Ops

\* connect(), where the code needs a connection and may have none: it empties
\* the stacks, whatever was on them.
Connected ==
    IF closed THEN closed' = FALSE /\ ctx' = 0 /\ txns' = <<>>
    ELSE UNCHANGED state

\* _transaction.__enter__ with an empty stack: BEGIN.  The database as a
\* context manager connects before it looks at the stack.
EnterTransaction(kind) ==
    /\ kind \in {"atomic", "transaction", "db"} /\ Allowed(kind)
    /\ txns = <<>> \/ (kind = "db" /\ closed)
    /\ Begin
    /\ txns' = <<"txn">>
    /\ closed' = FALSE
    /\ ctx' = Counted(kind)
    /\ EnterBlock(kind, "txn")

\* _transaction.__enter__ further in: nothing but an entry on the stack.
EnterInert ==
    /\ Allowed("transaction")
    /\ txns # <<>>
    /\ txns' = Append(txns, "txn")
    /\ EnterBlock("transaction", "inert")
    /\ UNCHANGED <<closed, ctx, driver>>

\* _savepoint.__enter__, by itself or on behalf of a nested atomic(), which
\* raises when the innermost entry is that of a manual_commit() block.
EnterSavepoint(kind) ==
    /\ kind \in {"atomic", "db", "savepoint"} /\ Allowed(kind)
    /\ kind # "savepoint" => txns # <<>> /\ Top(txns) # "manual"
    /\ SAVEPOINT(Depth + 1)
    /\ ctx' = Counted(kind)
    /\ EnterBlock(kind, "save")
    /\ UNCHANGED <<closed, txns>>

EnterManual ==
    /\ "manual" \in Ops
    /\ closed => "manual_closed" \in Ops
    /\ txns # <<>> => Top(txns) = "manual"
    /\ txns' = Append(txns, "manual")
    /\ EnterBlock("manual", "manual")
    /\ UNCHANGED <<closed, ctx, driver>>

\* ConnectionContext.__enter__.
EnterConnection ==
    /\ "connection_context" \in Ops
    /\ closed' = FALSE
    /\ ctx' = ctx + 1
    /\ txns' = IF closed THEN <<>> ELSE txns
    /\ EnterBlock("conn", "none")
    /\ UNCHANGED driver

-----------------------------------------------------------------------------
(***************************************************************************)
(* Leaving blocks.  err says whether the body raised, ok whether __exit__  *)
(* returns without an exception.                                           *)
(***************************************************************************)

\* _transaction.__exit__: only the outermost entry talks to the driver.  It is
\* popped first; popping an empty stack raises IndexError.
ExitTransaction(err, ok) ==
    \/ /\ txns = <<>> /\ ~ok
       /\ UNCHANGED <<txns, driver>>
    \/ /\ Len(txns) > 1 /\ ok = ~err
       /\ txns' = Pop(txns)
       /\ UNCHANGED driver
    \/ /\ Len(txns) = 1 /\ ~ok
       /\ err \/ "commit_fails" \in Ops \/ ~(alive /\ begun)
       /\ txns' = Pop(txns)
       /\ TryRollback
    \/ /\ Len(txns) = 1 /\ ok /\ ~err
       /\ txns' = Pop(txns)
       /\ COMMIT(FALSE)

\* _savepoint.__exit__.  A rollback leaves the savepoint at the driver.
ExitSavepoint(err, ok) ==
    \/ /\ ok /\ ~err
       /\ RELEASE(Depth)
       /\ UNCHANGED txns
    \/ /\ ~ok
       /\ err \/ "commit_fails" \in Ops \/ ~Releasable(Depth)
       /\ TryRollbackTo(Depth)
       /\ UNCHANGED txns

ExitHelper(err, ok) ==
    \/ Top(blocks).helper = "save" /\ ExitSavepoint(err, ok)
    \/ Top(blocks).helper \in {"txn", "inert"} /\ ExitTransaction(err, ok)

LeaveBlock(ok) ==
    /\ blocks' = Pop(blocks)
    /\ outcome' = IF Top(blocks).helper \notin {"txn", "save"} THEN outcome
                  ELSE IF ok THEN "returned" ELSE "raised"

Exit(err, ok) ==
    /\ blocks # <<>> /\ Top(blocks).kind \in {"atomic", "transaction", "savepoint"}
    /\ ExitHelper(err, ok)
    /\ LeaveBlock(ok)
    /\ UNCHANGED <<closed, ctx, alive>>

\* Database.__exit__ leaves the atomic() block and closes the database when
\* the ctx stack has become empty, whatever happened; close() raises when a
\* transaction is open.
ExitDatabase(err, ok) ==
    /\ blocks # <<>> /\ Top(blocks).kind = "db"
    /\ ctx > 0
    /\ ExitHelper(err, ok)
    /\ ctx' = ctx - 1
    /\ IF ctx > 1 \/ txns' # <<>>
       THEN /\ LeaveBlock(ok /\ ctx > 1)
            /\ UNCHANGED <<closed, alive>>
       ELSE /\ LeaveBlock(ok)
            /\ closed' = TRUE /\ alive' = TRUE

\* _state.reset() and a closed connection, whose transaction is rolled back.
Disconnected ==
    /\ closed' = TRUE /\ alive' = TRUE
    /\ ctx' = 0 /\ txns' = <<>>
    /\ begun' = FALSE /\ saves' = <<>> /\ work' = durable
    /\ UNCHANGED durable

\* ConnectionContext.__exit__.
ExitConnection ==
    /\ blocks # <<>> /\ Top(blocks).kind = "conn"
    /\ ctx > 0
    /\ \/ /\ ctx > 1 \/ txns # <<>>
          /\ ctx' = ctx - 1
          /\ LeaveBlock(ctx > 1)
          /\ UNCHANGED <<closed, txns, alive, driver>>
       \/ /\ ctx = 1 /\ txns = <<>>
          /\ Disconnected
          /\ LeaveBlock(TRUE)

\* A ctx stack that was emptied by close() has nothing to pop: IndexError.
ExitUncounted ==
    /\ blocks # <<>> /\ Top(blocks).kind \in {"db", "conn"}
    /\ ctx = 0
    /\ LeaveBlock(FALSE)
    /\ UNCHANGED <<state, alive, driver>>

\* _manual.__exit__: the entry popped must be its own.  The program has ended
\* the transaction it began, which the block leaves to it.
ExitManual ==
    /\ blocks # <<>> /\ Top(blocks).kind = "manual"
    /\ ~begun
    /\ txns' = IF txns = <<>> THEN txns ELSE Pop(txns)
    /\ LeaveBlock(txns # <<>> /\ Top(txns) = "manual")
    /\ UNCHANGED <<closed, ctx, alive, driver>>

-----------------------------------------------------------------------------
(***************************************************************************)
(* commit() and rollback() on the object of a block, sessions, and the     *)
(* statements of manual_commit() blocks.                                   *)
(***************************************************************************)

\* The block whose object is used: the innermost one that is a transaction or
\* a savepoint, unless the instance lets the program use the outer ones too.
Addressed ==
    {i \in 1 .. Depth :
        /\ "explicit" \in Ops
        /\ \/ /\ blocks[i].helper \in {"txn", "save"}
              /\ \A j \in i + 1 .. Depth : blocks[j].helper \notin {"txn", "save"}
           \/ /\ "explicit_outer" \in Ops
              /\ blocks[i].helper \in {"txn", "inert", "save"}}

ExplicitCommit(i) ==
    /\ IF blocks[i].helper = "save" THEN RELEASE_SAVEPOINT(i)
       ELSE COMMIT(TRUE)
    /\ UNCHANGED <<state, blocks, alive, outcome>>

ExplicitRollback(i) ==
    /\ IF blocks[i].helper = "save" THEN ROLLBACK_TO_SAVEPOINT(i)
       ELSE ROLLBACK(TRUE)
    /\ UNCHANGED <<state, blocks, alive, outcome>>

\* Programs do not mix sessions with manual_commit() blocks.
SessionAllowed ==
    "session" \in Ops /\ \A i \in 1 .. Depth : blocks[i].kind # "manual"

session_start ==
    /\ SessionAllowed /\ Len(txns) < MaxDepth
    /\ IF txns = <<>> THEN Begin /\ closed' = FALSE
       ELSE UNCHANGED <<closed, driver>>
    /\ txns' = Append(txns, "txn")
    /\ UNCHANGED <<ctx, blocks, alive, outcome>>

\* The innermost entry is popped, whichever block pushed it, and a transaction
\* begun again if there are others.  The entry stays popped when the statement
\* fails.
session_commit ==
    /\ SessionAllowed /\ txns # <<>>
    /\ txns' = Pop(txns)
    /\ \/ COMMIT(txns' # <<>>)
       \/ /\ "commit_fails" \in Ops \/ ~(alive /\ begun)
          /\ UNCHANGED driver
    /\ UNCHANGED <<closed, ctx, blocks, alive, outcome>>

session_rollback ==
    /\ SessionAllowed /\ txns # <<>>
    /\ txns' = Pop(txns)
    /\ \/ ROLLBACK(txns' # <<>>)
       \/ ~(alive /\ begun) /\ UNCHANGED driver
    /\ UNCHANGED <<closed, ctx, blocks, alive, outcome>>

\* begin(), commit() and rollback() of the database, in a manual block.
ManualStatement ==
    /\ txns # <<>> /\ Top(txns) = "manual"
    /\ \/ Begin /\ Connected
       \/ (COMMIT(FALSE) \/ ROLLBACK(FALSE)) /\ UNCHANGED state
    /\ UNCHANGED <<blocks, alive, outcome>>

Write(r) ==
    /\ alive
    /\ r \notin work
    /\ work' = work \cup {r}
    /\ durable' = IF begun THEN durable ELSE work \cup {r}
    /\ Connected
    /\ UNCHANGED <<blocks, alive, begun, saves, outcome>>

\* Mutation: close() does not look at the stack.
CloseAnyway ==
    /\ ~closed
    /\ blocks = <<>> \/ "close" \in Ops
    /\ Disconnected
    /\ UNCHANGED <<blocks, outcome>>

\* close() called by the program.
Close ==
    /\ ~closed /\ txns = <<>>
    /\ blocks = <<>> \/ "close" \in Ops
    /\ Disconnected
    /\ UNCHANGED <<blocks, outcome>>

\* The server drops the connection and rolls back its transaction.
Lose ==
    /\ "lost" \in Ops
    /\ ~closed /\ alive
    /\ alive' = FALSE
    /\ begun' = FALSE /\ saves' = <<>> /\ work' = durable
    /\ UNCHANGED <<state, blocks, durable, outcome>>

Next ==
    \/ \E k \in Kinds : EnterTransaction(k) \/ EnterSavepoint(k)
    \/ EnterInert \/ EnterManual \/ EnterConnection
    \/ \E err, ok \in BOOLEAN : Exit(err, ok) \/ ExitDatabase(err, ok)
    \/ ExitConnection \/ ExitUncounted \/ ExitManual
    \/ \E i \in Addressed : ExplicitCommit(i) \/ ExplicitRollback(i)
    \/ session_start \/ session_commit \/ session_rollback
    \/ ManualStatement
    \/ \E r \in Rows : Write(r)
    \/ Close \/ Lose

Spec == Init /\ [][Next]_vars

-----------------------------------------------------------------------------
(***************************************************************************)
(* Properties.                                                             *)
(***************************************************************************)

TypeOK ==
    /\ closed \in BOOLEAN
    /\ ctx \in Nat
    /\ txns \in Seq({"txn", "manual"})
    /\ blocks \in Seq([kind : Kinds, helper : Helpers])
    /\ alive \in BOOLEAN
    /\ begun \in BOOLEAN
    /\ saves \in Seq([sid : Nat, snap : SUBSET Rows])
    /\ work \subseteq Rows
    /\ durable \subseteq Rows
    /\ outcome \in {"none", "returned", "raised"}

\* in_transaction() tells the truth: peewee's stack begins with a transaction
\* exactly when one is open at the driver, unless the connection was lost or
\* the program manages transactions itself.
InTransactionTrue ==
    alive /\ (txns # <<>> => txns[1] = "txn") => (begun <=> in_transaction)

\* Every savepoint block finds its savepoint at the driver when it is left, in
\* the order of the nesting.
SavepointsKept ==
    alive => LET Save == {i \in 1 .. Depth : blocks[i].helper = "save"}
             IN  /\ \A i \in Save : Named(i) # {}
                 /\ \A i, j \in Save : i < j => Latest(i) < Latest(j)

\* The ctx stack counts the blocks that need the connection, which is open in
\* all of them.
ContextCounted ==
    /\ ctx = Cardinality({i \in 1 .. Depth : blocks[i].kind \in {"db", "conn"}})
    /\ ctx > 0 => ~closed

\* Peewee's transaction management is off in a manual_commit() block: its entry
\* is on the stack, where atomic() and close() look, until the block is left.
ManualSuspends ==
    (\E i \in 1 .. Depth : blocks[i].kind = "manual")
        => \E i \in DOMAIN txns : txns[i] = "manual"

\* The count of nested contexts says when the connection may be closed (Database
\* as a context manager, connection_context()), and every variable keeps its type.
ContextsSound == TypeOK /\ ContextCounted

\* Whatever the mixture, in_transaction() agrees with the driver, and peewee manages
\* no transaction inside a manual_commit() block (_manual, _transaction, session_*).
ModesSound == InTransactionTrue /\ ManualSuspends

\* The blocks that are transactions or savepoints, and the k-th of them from outside.
Framing == {i \in 1 .. Depth : blocks[i].helper \in {"txn", "save"}}
Rank(i) == Cardinality({j \in Framing : j <= i})
Framed(k) == CHOOSE i \in Framing : Rank(i) = k

\* The rows a block began with: those of its savepoint, or what is durable.
Frame(i) == IF blocks[i].helper = "txn" \/ ~alive THEN durable ELSE Snapshot(i)
Frames == [k \in 1 .. Cardinality(Framing) |-> Frame(Framed(k))]

Nested == INSTANCE NestedTransactions
            WITH frames <- Frames, view <- work, doomed <- ~alive /\ Frames # <<>>

\* The blocks do what nested transactions promise.
Implements == Nested!Spec

=============================================================================
