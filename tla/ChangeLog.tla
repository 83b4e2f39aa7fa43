------------------------------- MODULE ChangeLog -------------------------------
(***************************************************************************)
(* playhouse/sqlite_changelog.py: triggers write every change of a table   *)
(* into a log, as a JSON object: column -> [old value, new value].         *)
(*                                                                         *)
(* A trigger is the set of columns it looks at, or NoTrigger.  An entry is *)
(* a record: action, pk and changes (column -> <<old, new>>).              *)
(***************************************************************************)
EXTENDS Integers, Sequences, FiniteSets, SequencesExt, Functions

CONSTANTS
    Columns, Pks,
    Values, Null,      \* what a column may hold, NULL included
    Parsed,            \* Parsed[v]: what a text is logged as: the JSON it happens to be, or itself
    MaxCalls

VARIABLES rows, triggers, log, base, saved, calls

changeVars == <<rows, triggers, log, base, saved, calls>>

Actions == {"INSERT", "UPDATE", "DELETE"}
NoTrigger == {"no trigger"}
NoRows == [p \in {} |-> Null]
Open == saved # <<>>

Init ==
    /\ rows = NoRows
    /\ triggers = [a \in Actions |-> NoTrigger]
    /\ log = <<>>
    /\ base = [rows |-> NoRows, at |-> 0]   \* the rows when install() was last called
    /\ saved = <<>>
    /\ calls = 0

Called == calls < MaxCalls /\ calls' = calls + 1

\* trigger_sql() and _build_column_array(): the columns whose value is another one;
\* IS NOT tells NULL from a value.
Differing(old, new, c) == old[c] # new[c]
Nulls == [c \in Columns |-> Null]
Entry(action, p, old, new) ==
    [action |-> action, pk |-> p,
     changes |-> [c \in {d \in triggers[action] : Differing(old, new, d)} |->
                    <<Parsed[old[c]], Parsed[new[c]]>>]]
Logged(action, p, old, new) ==
    log' = IF triggers[action] = NoTrigger THEN log ELSE Append(log, Entry(action, p, old, new))

\* install(): CREATE TRIGGER IF NOT EXISTS, after all three were dropped, if asked.
Install(skip, drop, enabled) ==
    LET kept == IF drop THEN [a \in Actions |-> NoTrigger] ELSE triggers
    IN  /\ Called
        /\ ~Open
        /\ triggers' = [a \in Actions |->
                          IF kept[a] = NoTrigger /\ a \in enabled THEN Columns \ skip ELSE kept[a]]
        /\ base' = [rows |-> rows, at |-> Len(log)]
        /\ UNCHANGED <<rows, log, saved>>

-----------------------------------------------------------------------------
\* The program's statements.  INSERT OR REPLACE deletes the row that is in its way
\* without a word to the trigger of DELETE.
Insert(p, row) ==
    /\ Called
    /\ rows' = [q \in DOMAIN rows \cup {p} |-> IF q = p THEN row ELSE rows[q]]
    /\ Logged("INSERT", p, Nulls, row)
    /\ UNCHANGED <<triggers, base, saved>>
Update(p, c, v) ==
    /\ Called
    /\ p \in DOMAIN rows
    /\ rows' = [rows EXCEPT ![p][c] = v]
    /\ Logged("UPDATE", p, rows[p], rows'[p])
    /\ UNCHANGED <<triggers, base, saved>>
Delete(p) ==
    /\ Called
    /\ p \in DOMAIN rows
    /\ rows' = Restrict(rows, DOMAIN rows \ {p})
    /\ Logged("DELETE", p, rows[p], Nulls)
    /\ UNCHANGED <<triggers, base, saved>>
Begin ==
    /\ ~Open
    /\ saved' = <<[rows |-> rows, log |-> log]>>
    /\ UNCHANGED <<rows, triggers, log, base, calls>>
Commit ==
    /\ Open
    /\ saved' = <<>>
    /\ UNCHANGED <<rows, triggers, log, base, calls>>
Rollback ==
    /\ Open
    /\ rows' = saved[1].rows /\ log' = saved[1].log
    /\ saved' = <<>>
    /\ UNCHANGED <<triggers, base, calls>>

Next ==
    \/ \E skip \in SUBSET Columns, drop \in BOOLEAN, enabled \in {Actions, Actions \ {"UPDATE"}} :
          Install(skip, drop, enabled)
    \/ \E p \in Pks :
        \/ \E row \in [Columns -> Values] : Insert(p, row)
        \/ \E c \in Columns, v \in Values : Update(p, c, v)
        \/ Delete(p)
    \/ Begin \/ Commit \/ Rollback

Spec == Init /\ [][Next]_changeVars

-----------------------------------------------------------------------------
\* What a reader of the log makes of the rows, column by column.
Replayed(table, entry) ==
    LET shown == [p \in DOMAIN table \cup {entry.pk} |->
                    IF p \in DOMAIN table /\ entry.action = "UPDATE" THEN table[p]
                    ELSE IF p = entry.pk THEN Nulls ELSE table[p]]
        new(c) == IF c \in DOMAIN entry.changes THEN entry.changes[c][2] ELSE shown[entry.pk][c]
    IN  IF entry.action = "DELETE" THEN Restrict(table, DOMAIN table \ {entry.pk})
        ELSE [shown EXCEPT ![entry.pk] = [c \in Columns |-> new(c)]]
Shown(table) == [p \in DOMAIN table |-> [c \in Columns |-> Parsed[table[p][c]]]]

\* What an entry says was there before.
TellsOld(table, entry) ==
    entry.action # "INSERT" =>
        \A c \in DOMAIN entry.changes : entry.changes[c][1] = table[entry.pk][c]

\* The log is enough to make the table again, from what it was when the triggers
\* were installed, in every column that all three of them look at, whatever was
\* inserted over another row, set to NULL, deleted or rolled back; and what it says
\* a column held before an UPDATE or a DELETE is what the column held.
LogReplays ==
    (\A a \in Actions : triggers[a] # NoTrigger) =>
        LET entries == SubSeq(log, base.at + 1, Len(log))
            after(n) == FoldLeft(Replayed, Shown(base.rows), SubSeq(entries, 1, n))
            tracked == triggers["INSERT"] \cap triggers["UPDATE"] \cap triggers["DELETE"]
        IN  /\ DOMAIN after(Len(entries)) = DOMAIN rows
            /\ \A p \in DOMAIN rows : \A c \in tracked :
                  after(Len(entries))[p][c] = Shown(rows)[p][c]
            /\ tracked = Columns => \A n \in DOMAIN entries : TellsOld(after(n - 1), entries[n])
=============================================================================
