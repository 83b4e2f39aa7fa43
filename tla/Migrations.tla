----------------------------- MODULE Migrations ------------------------------
(***************************************************************************)
(* playhouse/migrations.py: runners that apply and revert the migrations   *)
(* of a directory and record them in a history table.  A migration is a    *)
(* few statements.  Where the database's DDL is transactional and the      *)
(* migration does not say atomic = False, its statements and its history   *)
(* row are one transaction.  Statements fail, runners crash, and several   *)
(* runners may be at work on one database.                                 *)
(***************************************************************************)
EXTENDS Integers, Sequences

CONSTANTS
    Runners,
    NoOne,          \* not a runner
    Migration,      \* Migration[n]: the n-th by number: what kind of statements it has
    Transactional,  \* transactional_ddl
    Statements,     \* statements of a migration in each direction
    Commands,       \* bound on the commands of a runner
    Faults          \* bound on the statements that fail and runners that crash

VARIABLES
    files,    \* the migrations whose file is there
    history,  \* the migrations with a row in the history table
    effect,   \* effect[n][s]: how often statement s of n has been applied
    before,   \* history and effect before the transaction that is open
    writer,   \* the runner whose transaction has written
    fks,      \* fks[r]: foreign_keys pragma of r's connection
    runner,   \* runner[r]: what r is doing
    commands, \* commands[r]: commands still to come
    faults,   \* faults still to come
    faked,    \* migrations recorded without running them
    broken    \* migrations outside of a transaction that stopped in the middle,
              \* or that two runners ran at once

vars == <<files, history, effect, before, writer, fks, runner, commands, faults, faked, broken>>

All == DOMAIN Migration
Idle == [does |-> "idle", plan |-> {}, now |-> 0, step |-> 0, way |-> "up"]

\* atomic of the module, and the transaction of migration_context().
Wrapped(n) == Transactional /\ Migration[n].atomic

Init ==
    /\ files = All /\ history = {}
    /\ effect = [n \in All |-> [s \in 1 .. Statements |-> 0]]
    /\ before = <<history, effect>> /\ writer = NoOne
    /\ fks = [r \in Runners |-> TRUE]
    /\ runner = [r \in Runners |-> Idle]
    /\ commands = [r \in Runners |-> Commands] /\ faults = Faults
    /\ faked = {} /\ broken = {}

Db == <<history, effect>>

-----------------------------------------------------------------------------
\* The rows of status() are taken by number, by down() backwards; a file that is
\* gone has no path.
Foremost(me, n) ==
    n \in me.plan /\ \A k \in me.plan : IF me.way = "up" THEN n <= k ELSE k <= n

\* up(target): what is pending, up to the target, which must be there; 0 for no target.
UpPlan(target) == {n \in files \ history : target = 0 \/ n <= target}

\* down(target): what is applied, from the last one back to the target, or the
\* last one only.  A file that is gone or has no down() refuses all of it.
DownPlan(target) ==
    {n \in history : IF target = 0 THEN \A k \in history : k <= n ELSE target <= n}

Up(r, target) ==
    /\ runner[r].does = "idle" /\ commands[r] > 0
    /\ target # 0 => target \in files
    /\ runner' = [runner EXCEPT ![r] = [Idle EXCEPT !.does = "next", !.plan = UpPlan(target)]]
    /\ commands' = [commands EXCEPT ![r] = @ - 1]
    /\ UNCHANGED <<files, history, effect, before, writer, fks, faults, faked, broken>>

Down(r, target) ==
    LET plan == DownPlan(target)
        refused == \E n \in plan : n \notin files \/ ~Migration[n].down
    IN /\ runner[r].does = "idle" /\ commands[r] > 0
       /\ target # 0 => target \in history
       /\ commands' = [commands EXCEPT ![r] = @ - 1]
       /\ runner' = IF refused THEN runner
                    ELSE [runner EXCEPT ![r] =
                            [Idle EXCEPT !.does = "next", !.plan = plan, !.way = "down"]]
       /\ UNCHANGED <<files, history, effect, before, writer, fks, faults, faked, broken>>

\* fake(target): the names are recorded one by one, until one is there already.
Fake(r, target) ==
    /\ runner[r].does = "idle" /\ commands[r] > 0
    /\ target # 0 => target \in files
    /\ runner' = [runner EXCEPT ![r] = [Idle EXCEPT !.does = "fake", !.plan = UpPlan(target)]]
    /\ commands' = [commands EXCEPT ![r] = @ - 1]
    /\ UNCHANGED <<files, history, effect, before, writer, fks, faults, faked, broken>>

FakeNext(r) ==
    LET me == runner[r] IN
    /\ me.does = "fake" /\ writer = NoOne
    /\ \/ /\ me.plan = {} \/ \E n \in history : Foremost(me, n)
          /\ runner' = [runner EXCEPT ![r] = Idle]
          /\ UNCHANGED <<history, faked>>
       \/ \E n \in All \ history :
          /\ Foremost(me, n)
          /\ history' = history \cup {n}
          /\ faked' = faked \cup {n}
          /\ runner' = [runner EXCEPT ![r].plan = @ \ {n}]
    /\ UNCHANGED <<files, effect, before, writer, fks, commands, faults, broken>>

\* The file of an applied migration is deleted.
Forget(n) ==
    /\ n \in files \cap history
    /\ files' = files \ {n}
    /\ UNCHANGED <<history, effect, before, writer, fks, runner, commands, faults, faked, broken>>

-----------------------------------------------------------------------------
Runs(r, n) == runner[r].does = "run" /\ runner[r].now = n

\* migration_context() begins: the pragma is set outside of the transaction.
Enter(r, n) ==
    LET me == runner[r] IN
    /\ me.does = "next" /\ Foremost(me, n)
    /\ fks' = [fks EXCEPT ![r] = FALSE]
    /\ runner' = [runner EXCEPT ![r] =
                     [does |-> "run", plan |-> me.plan \ {n}, now |-> n, step |-> 1, way |-> me.way]]
    /\ broken' = IF ~Wrapped(n) /\ \E o \in Runners \ {r} : Runs(o, n)
                 THEN broken \cup {n} ELSE broken
    /\ UNCHANGED <<files, history, effect, before, writer, commands, faults, faked>>

Ended(r) ==
    /\ runner[r].does = "next" /\ runner[r].plan = {}
    /\ runner' = [runner EXCEPT ![r] = Idle]
    /\ UNCHANGED <<files, history, effect, before, writer, fks, commands, faults, faked, broken>>

\* One writer at a time: the first write of a transaction waits for the end of
\* another's.
MayWrite(r) == writer \in {r, NoOne}
Writes(r) ==
    /\ MayWrite(r)
    /\ IF Wrapped(runner[r].now) /\ writer = NoOne
       THEN writer' = r /\ before' = Db
       ELSE UNCHANGED <<writer, before>>

\* DDL cannot be applied twice or reverted twice; other statements can.
Fails(n, s, way) ==
    Migration[n].ddl /\ effect[n][s] = (IF way = "up" THEN 1 ELSE 0)

\* Mutation: the transaction is not rolled back.
AbandonedKept(r) ==
    /\ IF writer = r THEN writer' = NoOne ELSE UNCHANGED writer
    /\ UNCHANGED <<history, effect>>

\* The block of migration_context() ends with an exception, or the process with
\* its connection: what its transaction did is undone.
Abandoned(r) ==
    IF writer = r
    THEN writer' = NoOne /\ history' = before[1] /\ effect' = before[2]
    ELSE UNCHANGED <<writer, history, effect>>

\* The exception ends the command; the pragma is restored on the way.
Raise(r) ==
    /\ Abandoned(r)
    /\ fks' = [fks EXCEPT ![r] = TRUE]
    /\ runner' = [runner EXCEPT ![r] = Idle]
    /\ broken' = IF Wrapped(runner[r].now) THEN broken ELSE broken \cup {runner[r].now}

Statement(r) ==
    LET me == runner[r]
        n == me.now
        s == IF me.way = "up" THEN me.step ELSE Statements + 1 - me.step
    IN /\ me.does = "run" /\ me.step <= Statements /\ MayWrite(r)
       /\ IF Fails(n, s, me.way)
          THEN Raise(r) /\ UNCHANGED before
          ELSE /\ Writes(r)
               /\ effect' = [effect EXCEPT ![n][s] = @ + IF me.way = "up" THEN 1 ELSE -1]
               /\ runner' = [runner EXCEPT ![r].step = @ + 1]
               /\ UNCHANGED <<history, fks, broken>>
       /\ UNCHANGED <<files, commands, faults, faked>>

\* A statement fails for a reason of its own.
StatementFails(r) ==
    /\ runner[r].does = "run" /\ MayWrite(r)
    /\ faults > 0 /\ faults' = faults - 1
    /\ Raise(r)
    /\ UNCHANGED <<files, before, commands, faked>>

\* The history row: up() inserts it, its name is unique; down() deletes it,
\* whether or not it is there.  The transaction commits, the pragma is restored.
Record(r) ==
    LET me == runner[r]
        n == me.now
    IN /\ me.does = "run" /\ me.step = Statements + 1 /\ MayWrite(r)
       /\ IF me.way = "up" /\ n \in history
          THEN Raise(r)
          ELSE /\ history' = IF me.way = "up" THEN history \cup {n} ELSE history \ {n}
               /\ writer' = NoOne
               /\ fks' = [fks EXCEPT ![r] = TRUE]
               /\ runner' = [runner EXCEPT ![r].does = "next"]
               /\ UNCHANGED <<effect, broken>>
       /\ UNCHANGED <<files, before, commands, faults, faked>>

\* The process ends; the next one has a connection of its own.
Crash(r) ==
    /\ runner[r].does \in {"run", "next", "fake"}
    /\ faults > 0 /\ faults' = faults - 1
    /\ IF runner[r].does = "run"
       THEN Raise(r)
       ELSE runner' = [runner EXCEPT ![r] = Idle] /\ UNCHANGED <<writer, history, effect, fks, broken>>
    /\ UNCHANGED <<files, before, commands, faked>>

Next ==
    \/ \E r \in Runners :
        \/ \E n \in All \cup {0} : Up(r, n) \/ Fake(r, n) \/ Down(r, n)
        \/ \E n \in All : Enter(r, n)
        \/ FakeNext(r) \/ Ended(r)
        \/ Statement(r) \/ StatementFails(r) \/ Record(r) \/ Crash(r)
    \/ \E n \in All : Forget(n)

Spec == Init /\ [][Next]_vars

-----------------------------------------------------------------------------
\* History and schema agree whenever no transaction is open, whatever failed or
\* crashed: a migration that runs in a transaction has a row if and only if all of
\* it was applied, once; the others unless they were stopped in the middle.  What
\* was faked is the program's word.  Other runners may be at work if no two of them
\* undo one migration of data at once, whose down() does not fail the second time.
HistoryTrue ==
    writer = NoOne =>
        \A n \in All \ faked :
            \/ \A s \in 1 .. Statements : effect[n][s] = IF n \in history THEN 1 ELSE 0
            \/ ~Wrapped(n) /\ \/ n \in broken
                              \/ \E r \in Runners : Runs(r, n)

\* Foreign keys are only off inside of migration_context().
FksRestored == \A r \in Runners : ~fks[r] => runner[r].does = "run"

\* The two together, for the runs.
MigrationsTrue == HistoryTrue /\ FksRestored
=============================================================================
