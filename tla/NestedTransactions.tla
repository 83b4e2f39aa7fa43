------------------------- MODULE NestedTransactions -------------------------
(***************************************************************************)
(* What nested atomic() blocks promise, without any driver: a stack of     *)
(* blocks over a set of rows.  The outermost block is a transaction, the   *)
(* others are savepoints, and each keeps the rows it found when it began.  *)
(* A block that is left normally keeps its work for the enclosing block,   *)
(* the outermost one makes it durable; a block that is left with an        *)
(* exception takes back what was done since it began.                      *)
(*                                                                         *)
(* Transactions is shown to implement this specification.                  *)
(***************************************************************************)
EXTENDS Integers, Sequences

CONSTANTS Rows, MaxDepth   \* rows that may be written; bound on the nesting

VARIABLES
    frames,   \* the rows each open block began with, outermost first
    view,     \* the rows the program sees
    durable,  \* the rows another connection sees
    doomed,   \* the connection was lost inside a block that is still open
    outcome   \* how the last block was left: "none", "returned" or "raised"

vars == <<frames, view, durable, doomed, outcome>>

Top(s) == s[Len(s)]
Pop(s) == SubSeq(s, 1, Len(s) - 1)
Inside == frames # <<>>

Init ==
    /\ frames = <<>>
    /\ view = {} /\ durable = {}
    /\ doomed = FALSE
    /\ outcome = "none"

\* Outside a block every statement is durable at once.
Write(r) ==
    /\ ~doomed
    /\ view' = view \cup {r}
    /\ durable' = IF Inside THEN durable ELSE view \cup {r}
    /\ UNCHANGED <<frames, doomed, outcome>>

Enter ==
    /\ ~doomed
    /\ Len(frames) < MaxDepth
    /\ frames' = Append(frames, view)
    /\ outcome' = "none"
    /\ UNCHANGED <<view, durable, doomed>>

\* commit() inside a block: what was done so far is out of its reach.
Commit ==
    /\ Inside /\ ~doomed
    /\ frames' = Append(Pop(frames), view)
    /\ durable' = IF Len(frames) = 1 THEN view ELSE durable
    /\ UNCHANGED <<view, doomed, outcome>>

Rollback ==
    /\ Inside /\ ~doomed
    /\ view' = Top(frames)
    /\ UNCHANGED <<frames, durable, doomed, outcome>>

Return ==
    /\ Inside /\ ~doomed
    /\ frames' = Pop(frames)
    /\ durable' = IF Len(frames) = 1 THEN view ELSE durable
    /\ outcome' = "returned"
    /\ UNCHANGED <<view, doomed>>

Raise ==
    /\ Inside
    /\ frames' = Pop(frames)
    /\ view' = Top(frames)
    /\ doomed' = (doomed /\ Len(frames) > 1)
    /\ outcome' = "raised"
    /\ UNCHANGED durable

\* The connection is lost, and with it whatever was not durable.
Lose ==
    /\ view' = durable
    /\ frames' = [i \in DOMAIN frames |-> durable]
    /\ doomed' = Inside
    /\ UNCHANGED <<durable, outcome>>

Next ==
    \/ \E r \in Rows : Write(r)
    \/ Enter \/ Commit \/ Rollback \/ Return \/ Raise \/ Lose

Spec == Init /\ [][Next]_vars

-----------------------------------------------------------------------------

TypeOK ==
    /\ frames \in Seq(SUBSET Rows)
    /\ view \subseteq Rows
    /\ durable \subseteq Rows
    /\ doomed \in BOOLEAN
    /\ outcome \in {"none", "returned", "raised"}

\* The outermost block began with what is durable, each block with at least
\* what the enclosing one began with, and nothing durable is out of sight.
Layered ==
    /\ Inside => frames[1] = durable
    /\ \A i \in 1 .. Len(frames) - 1 : frames[i] \subseteq frames[i + 1]
    /\ IF Inside THEN Top(frames) \subseteq view ELSE view = durable

\* Whoever gets an exception from the outermost block finds nothing of it done.
RaiseUndoes ==
    [][Len(frames) = 1 /\ frames' = <<>> /\ outcome' = "raised"
          => view' = durable /\ durable' = durable]_vars

=============================================================================
