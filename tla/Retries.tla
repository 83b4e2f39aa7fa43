-------------------------------- MODULE Retries --------------------------------
(***************************************************************************)
(* Statements that are run again: ReconnectMixin (playhouse/shortcuts.py)  *)
(* reconnects to a server that closed the connection and repeats the call; *)
(* run_transaction() (playhouse/cockroachdb.py) repeats a whole callback   *)
(* when the server asks for it.  The server may drop the session, with its *)
(* open transaction, at any time: before, while or after it does what it   *)
(* was asked.                                                              *)
(***************************************************************************)
EXTENDS Integers, Sequences, FiniteSets, SequencesExt

CONSTANTS
    MaxStatements,     \* bound: statements the program issues
    MaxAttempts        \* the values of max_attempts, 0 for None

ASSUME RetryAssumption == MaxAttempts \subseteq Int

VARIABLES
    live,       \* the client's session exists on the server
    work,       \* statements done in the server's open transaction
    kept,       \* statements done for good, one entry for each time
    block,      \* "none", "atomic", or "retry" for run_transaction()
    issued,     \* statements of the block that the program was told are done
    left,       \* attempts left; negative for any number
    promised,   \* statements the program was told are done for good
    denied,     \* statements the program was told are undone
    count

retryVars == <<live, work, kept, block, issued, left, promised, denied, count>>

RetryInit ==
    /\ live = TRUE
    /\ work = {} /\ kept = <<>> /\ block = "none" /\ issued = {}
    /\ left = 0 /\ promised = {} /\ denied = {} /\ count = 0

ServerDrops ==
    /\ live' = FALSE
    /\ work' = {}
    /\ UNCHANGED <<kept, block, issued, left, promised, denied, count>>

\* One statement sent to the server, by the state [live, work, kept, txn] of the
\* server: done, lost on the way there, or lost on the way back.  txn tells that
\* this session is inside of the transaction the block began.
Done(s, stmt) ==
    IF s.txn THEN [s EXCEPT !.work = @ \cup {stmt}] ELSE [s EXCEPT !.kept = Append(@, stmt)]
Lost(s) == [s EXCEPT !.live = FALSE, !.work = {}]
Sent(s, stmt) ==
    IF ~s.live THEN {[s |-> s, ok |-> FALSE]}
    ELSE {[s |-> Done(s, stmt), ok |-> TRUE], [s |-> Lost(s), ok |-> FALSE],
          [s |-> Lost(Done(s, stmt)), ok |-> FALSE]}

\* Mutation: the call is repeated wherever the program is.
MayReconnectAlways == TRUE

\* ReconnectMixin._reconnect(): an error that tells of a lost connection has the
\* call repeated, once, on a new one; not inside of a transaction.  The new
\* connection may not come to be.
MayReconnect == block = "none"
Reconnected(s, stmt) ==
    Sent(s, stmt) \cup
    UNION {IF r.ok \/ ~MayReconnect THEN {}
           ELSE Sent([r.s EXCEPT !.live = TRUE, !.txn = FALSE], stmt) : r \in Sent(s, stmt)}

Server == [live |-> live, work |-> work, kept |-> kept, txn |-> block # "none"]
Becomes(s) == live' = s.live /\ work' = s.work /\ kept' = s.kept

\* execute_sql(), inside of a block or not.
Execute ==
    /\ count < MaxStatements
    /\ block # "retry"
    /\ count' = count + 1
    /\ \E r \in Reconnected(Server, count) :
         /\ Becomes(r.s)
         /\ issued' = IF r.ok /\ block = "atomic" THEN issued \cup {count} ELSE issued
         /\ promised' = IF r.ok /\ block = "none" THEN promised \cup {count} ELSE promised
    /\ UNCHANGED <<block, left, denied>>

\* Opens a block: begin() is outside of it, and repeated; run_transaction() also
\* sets its savepoint.
Enters(kind) ==
    /\ block = "none"
    /\ live' = TRUE
    /\ block' = kind
    /\ issued' = {}
    /\ UNCHANGED <<work, kept, promised, denied, count>>
EnterAtomic == Enters("atomic") /\ left' = 0
RunTransaction == Enters("retry") /\ \E n \in MaxAttempts : left' = IF n = 0 THEN -1 ELSE n

Ends(s, good, bad) ==
    /\ Becomes(s)
    /\ block' = "none"
    /\ issued' = {}
    /\ promised' = promised \cup good
    /\ denied' = denied \cup bad
    /\ left' = 0

\* The end of atomic(): COMMIT, whose answer may be lost, or ROLLBACK.
Committed(s) == [s EXCEPT !.kept = @ \o SetToSeq(s.work), !.work = {}]
Commit ==
    /\ block = "atomic"
    /\ IF live
       THEN \/ Ends(Committed(Server), issued, {})
            \/ Ends(Lost(Server), {}, {})
            \/ Ends(Lost(Committed(Server)), {}, {})
       ELSE Ends(Server, {}, {})
    /\ UNCHANGED count
Rollback ==
    /\ block = "atomic"
    /\ Ends([Server EXCEPT !.work = {}], {}, issued)
    /\ UNCHANGED count

\* One attempt of run_transaction(): the callback's statement and RELEASE, which
\* commits, or the server's request to do it again: back to the savepoint.
Callback ==
    /\ block = "retry"
    /\ left # 0
    /\ live
    /\ issued = {}
    /\ count < MaxStatements
    /\ count' = count + 1
    /\ \E r \in Sent(Server, count) :
         IF r.ok THEN /\ Becomes(r.s)
                      /\ issued' = {count}
                      /\ UNCHANGED <<block, left, promised, denied>>
         ELSE Ends(r.s, {}, {count})
Release ==
    /\ block = "retry"
    /\ issued # {}
    /\ \/ live /\ Ends(Committed(Server), issued, {})
       \/ live /\ \E s \in {Server, Committed(Server)} : Ends(Lost(s), {}, {})
       \/ ~live /\ Ends(Server, {}, {})
    /\ UNCHANGED count
\* What the attempt did is undone with the savepoint it began at.
BackToSavepoint(s) == [s EXCEPT !.work = {}]
Again ==
    /\ block = "retry"
    /\ left # 0
    /\ live
    /\ Becomes(BackToSavepoint(Server))
    /\ left' = IF left < 0 THEN left ELSE left - 1   \* every negative number means: no end
    /\ denied' = denied \cup issued
    /\ issued' = {}
    /\ UNCHANGED <<block, promised, count>>
\* ExceededMaxAttempts, after the block was left, and committed, without an error;
\* another error of the callback, or a lost session, undoes the block.
GiveUp ==
    /\ block = "retry"
    /\ \/ left = 0 /\ live /\ Ends(Committed(Server), {}, issued)
       \/ Ends([Server EXCEPT !.work = {}], {}, issued)
    /\ UNCHANGED count

RetryNext ==
    \/ ServerDrops \/ Execute \/ EnterAtomic \/ Commit \/ Rollback
    \/ RunTransaction \/ Callback \/ Release \/ Again \/ GiveUp

RetrySpec == RetryInit /\ [][RetryNext]_retryVars

-----------------------------------------------------------------------------
\* What the program was told is done is done, what it was told is undone is not,
\* and no statement of a block is done twice or outlives a block that was lost:
\* neither the reconnection nor the repeated attempts make a part of a transaction
\* last without the rest.
NothingHalfDone ==
    /\ promised \subseteq ToSet(kept)
    /\ denied \cap ToSet(kept) = {}
    /\ block # "none" => issued \cap ToSet(kept) = {}
=============================================================================
