----------------------------- MODULE KeyValueStore -----------------------------
(***************************************************************************)
(* playhouse/kv.py: a dictionary that is a table.  Every method is one     *)
(* statement, but for pop(), a SELECT and a DELETE in a transaction, and   *)
(* setdefault(), a SELECT and an upsert without one.  A key may be an      *)
(* expression, which stands for the keys that it holds for.  Every value   *)
(* that is written is a new one here.                                      *)
(***************************************************************************)
EXTENDS Integers, FiniteSets, Functions

CONSTANTS
    Clients, StoreKeys,
    Backends,     \* a subset of {"sqlite", "postgres", "mysql"}
    MaxWrites     \* bound: values written

VARIABLES backend, table, call, writes, changes, popped, lost, answers

kvVars == <<backend, table, call, writes, changes, popped, lost, answers>>

Idle == [op |-> "none", key |-> "", value |-> 0, at |-> 0]
Upserted(keys, v) == [k \in DOMAIN table \cup keys |-> IF k \in keys THEN v ELSE table[k]]
Gone(keys) == Restrict(table, DOMAIN table \ keys)

StoreInit ==
    /\ backend \in Backends
    /\ table = [k \in {} |-> 0]
    /\ call = [c \in Clients |-> Idle]
    /\ writes = 0 /\ changes = 0
    /\ popped = {} /\ lost = {}
    /\ answers = "true"

\* A statement outside of a transaction, of a client that is in none.
Statement(c) == call[c] = Idle /\ UNCHANGED <<backend, call, popped, lost, answers>>
Writes(keys) ==
    /\ writes < MaxWrites
    /\ writes' = writes + 1
    /\ table' = Upserted(keys, writes + 1)
    /\ changes' = changes + 1

\* __setitem__() of a key, and update() of several: an upsert.
SetItem(c, keys) == Statement(c) /\ Writes(keys)
\* __setitem__() of an expression: UPDATE of the rows that are there.
SetExpression(c, keys) == Statement(c) /\ keys \cap DOMAIN table # {} /\ Writes(keys \cap DOMAIN table)
\* __delitem__() of a key (KeyError when there is none) or an expression; clear().
DelItem(c, keys) ==
    /\ Statement(c)
    /\ keys \cap DOMAIN table # {}
    /\ table' = Gone(keys)
    /\ changes' = changes + 1
    /\ UNCHANGED writes

\* setdefault(): reads, and writes what it did not find.
SetDefault(c, k) ==
    /\ call[c] = Idle
    /\ k \notin DOMAIN table
    /\ writes < MaxWrites
    /\ writes' = writes + 1
    /\ call' = [call EXCEPT ![c] = [op |-> "setdefault", key |-> k, value |-> writes + 1, at |-> changes]]
    /\ UNCHANGED <<backend, table, changes, popped, lost, answers>>
SetDefaultWrites(c) ==
    /\ call[c].op = "setdefault"
    /\ table' = Upserted({call[c].key}, call[c].value)
    /\ changes' = changes + 1
    /\ call' = [call EXCEPT ![c] = Idle]
    /\ UNCHANGED <<backend, writes, popped, lost, answers>>

\* pop(): without the key it is a KeyError, or the default, at once.
Pop(c, k) ==
    /\ call[c] = Idle
    /\ k \in DOMAIN table
    /\ call' = [call EXCEPT ![c] = [op |-> "pop", key |-> k, value |-> table[k], at |-> changes]]
    /\ UNCHANGED <<backend, table, writes, changes, popped, lost, answers>>

\* Mutation: every database deletes what is there by then.
AtomicNever == FALSE

\* SQLite refuses the write of a transaction that read what has changed since; the
\* servers, as peewee uses them, delete what is there by then.
AtomicSnapshot == backend = "sqlite"
PopDeletes(c) ==
    LET k == call[c].key
    IN  /\ call[c].op = "pop"
        /\ AtomicSnapshot => call[c].at = changes
        /\ call' = [call EXCEPT ![c] = Idle]
        /\ IF k \in DOMAIN table
           THEN /\ table' = Gone({k})
                /\ changes' = changes + 1
                /\ popped' = popped \cup {<<k, call[c].value>>}
                /\ lost' = lost \cup ({table[k]} \ {call[c].value})
                /\ answers' = IF <<k, call[c].value>> \in popped THEN "twice" ELSE answers
           ELSE UNCHANGED <<table, changes, popped, lost, answers>>
        /\ UNCHANGED <<backend, writes>>
\* SQLITE_BUSY, a KeyError of the DELETE, or a client that goes away: rolled back.
PopFails(c) ==
    /\ call[c].op = "pop"
    /\ call' = [call EXCEPT ![c] = Idle]
    /\ UNCHANGED <<backend, table, writes, changes, popped, lost, answers>>

StoreNext == \E c \in Clients :
    \/ SetDefaultWrites(c) \/ PopDeletes(c) \/ PopFails(c)
    \/ \E k \in StoreKeys : SetDefault(c, k) \/ Pop(c, k)
    \/ \E keys \in (SUBSET StoreKeys) \ {{}} : SetItem(c, keys) \/ SetExpression(c, keys) \/ DelItem(c, keys)

StoreSpec == StoreInit /\ [][StoreNext]_kvVars

-----------------------------------------------------------------------------
\* On SQLite what was written to a key is popped once, by one client, and pop()
\* removes nothing but what it returns; what was popped is not in the store again.
PopsApart ==
    backend = "sqlite" =>
        /\ lost = {}
        /\ answers = "true"
        /\ \A k \in DOMAIN table : <<k, table[k]>> \notin popped
=============================================================================
