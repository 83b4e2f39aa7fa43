---------------------------- MODULE TableLifecycle -----------------------------
(***************************************************************************)
(* SchemaManager, create_tables() and drop_tables(): the sequences, tables *)
(* and indexes of a set of models are made and removed, one statement      *)
(* after another, by several processes, and any statement may fail.        *)
(*                                                                         *)
(* A model is a record: table, refs (the tables its foreign keys refer     *)
(* to), later (the deferred ones), indexes and sequences.                  *)
(***************************************************************************)
EXTENDS Integers, Sequences, FiniteSets, SequencesExt

CONSTANTS
    Processes, Kinds,      \* Kinds: a subset of {"sqlite", "postgres", "mysql"}
    ModelSets,             \* sequences of models, in the order of sort_models()
    MaxCalls, MaxFaults    \* bounds: calls made, statements that fail by themselves

VARIABLES kind, declared, catalog, todo, result, calls, faults

lifecycleVars == <<kind, declared, catalog, todo, result, calls, faults>>

SafeCreateIndex == kind # "mysql"
Sequenced == kind = "postgres"

Init ==
    /\ kind \in Kinds
    /\ declared \in ModelSets
    /\ catalog = [tables |-> {}, indexes |-> {}, sequences |-> {}, fks |-> {}, uses |-> {}]
    /\ todo = [p \in Processes |-> <<>>]
    /\ result = [p \in Processes |-> "none"]
    /\ calls = 0
    /\ faults = 0

Model(t) == declared[CHOOSE i \in DOMAIN declared : declared[i].table = t]
Stmt(op, t, on, safe) == [op |-> op, table |-> t, on |-> on, safe |-> safe]
For(op, t, set, safe) == LET seq == SetToSeq(set) IN [i \in DOMAIN seq |-> Stmt(op, t, seq[i], safe)]

\* create_all(): sequences, the table, its indexes.
CreateAll(m, safe) ==
    (IF Sequenced THEN For("seek sequence", m.table, m.sequences, safe) ELSE <<>>)
    \o <<Stmt("create table", m.table, "", safe)>>
    \o For("create index", m.table, m.indexes, safe /\ SafeCreateIndex)
\* drop_all(): the table, then its sequences.
DropAll(m, safe) ==
    <<Stmt("drop table", m.table, "", safe)>>
    \o (IF Sequenced THEN For("seek to drop", m.table, m.sequences, safe) ELSE <<>>)

\* Model.create_table() looks for the table first where an index cannot be created
\* IF NOT EXISTS, and leaves everything as it is when the table is there.
LooksFirst(safe) == safe /\ ~SafeCreateIndex
CreateTable(m, safe) ==
    IF LooksFirst(safe) THEN <<Stmt("find to create", m.table, "", safe)>> ELSE CreateAll(m, safe)
DropTable(m, safe) ==
    IF safe /\ ~SafeCreateIndex THEN <<Stmt("find to drop", m.table, "", safe)>> ELSE DropAll(m, safe)

Ended == [create |-> "created", drop |-> "dropped", fks |-> "none"]

\* Nothing is said of a call that creates while another one drops.
Mixed(p, what) == \E q \in Processes \ {p} : todo[q] # <<>> /\ result[q] # what

\* create_tables(), drop_tables() in reverse, and create_foreign_key() for the keys
\* that were deferred, which the program calls itself.
Calls(p, what, statements) ==
    /\ todo[p] = <<>>
    /\ calls < MaxCalls
    /\ calls' = calls + 1
    /\ todo' = [todo EXCEPT ![p] = statements]
    /\ result' = [q \in Processes |-> IF Mixed(p, what) THEN "none" ELSE
                                      IF q = p THEN what ELSE
                                      IF result[q] \in {what, Ended[what]} THEN result[q] ELSE "none"]
    /\ UNCHANGED <<kind, declared, catalog, faults>>
CreateTables(p, safe) ==
    Calls(p, "create", FlattenSeq([i \in DOMAIN declared |-> CreateTable(declared[i], safe)]))
DropTables(p, safe) ==
    Calls(p, "drop", FlattenSeq([i \in DOMAIN declared |-> DropTable(Reverse(declared)[i], safe)]))
CreateForeignKeys(p) ==
    Calls(p, "fks", FlattenSeq([i \in DOMAIN declared |->
                        For("add fk", declared[i].table, declared[i].later, FALSE)]))

-----------------------------------------------------------------------------
\* Whether the database does a statement, and what is there afterwards.
Referred(t) == {k[1] : k \in {j \in catalog.fks : j[2] = t}} \ {t}
Accepts(s) ==
    CASE s.op = "create table" ->
           /\ s.safe \/ s.table \notin catalog.tables
           /\ kind # "sqlite" => Model(s.table).refs \subseteq catalog.tables \cup {s.table}
           /\ Sequenced => Model(s.table).sequences \subseteq catalog.sequences
      [] s.op = "create index" ->
           s.table \in catalog.tables /\ (s.safe \/ <<s.table, s.on>> \notin catalog.indexes)
      [] s.op = "add fk" ->
           kind # "sqlite" /\ {s.table, s.on} \subseteq catalog.tables
           /\ <<s.table, s.on>> \notin catalog.fks
      [] s.op = "create sequence" -> s.on \notin catalog.sequences
      [] s.op = "drop sequence" ->
           s.on \in catalog.sequences /\ ~\E t \in catalog.tables : <<t, s.on>> \in catalog.uses
      [] s.op = "drop table" ->
           /\ s.safe \/ s.table \in catalog.tables
           /\ kind # "sqlite" => Referred(s.table) = {}
      [] OTHER -> TRUE
Effect(s) ==
    CASE s.op = "create table" /\ s.table \notin catalog.tables ->
           [catalog EXCEPT !.tables = @ \cup {s.table},
                           !.fks = @ \cup {<<s.table, r>> : r \in Model(s.table).refs},
                           !.uses = @ \cup {<<s.table, q>> : q \in Model(s.table).sequences}]
      [] s.op = "create index" -> [catalog EXCEPT !.indexes = @ \cup {<<s.table, s.on>>}]
      [] s.op = "add fk" -> [catalog EXCEPT !.fks = @ \cup {<<s.table, s.on>>}]
      [] s.op = "create sequence" -> [catalog EXCEPT !.sequences = @ \cup {s.on}]
      [] s.op = "drop sequence" -> [catalog EXCEPT !.sequences = @ \ {s.on}]
      [] s.op = "drop table" ->
           [catalog EXCEPT !.tables = @ \ {s.table},
                           !.indexes = {i \in @ : i[1] # s.table},
                           !.fks = {k \in @ : k[1] # s.table},
                           !.uses = {k \in @ : k[1] # s.table}]
      [] OTHER -> catalog
\* _create_sequence(), _drop_sequence() and table_exists() look, and what they find
\* decides on what is sent next.
Then(s) ==
    CASE s.op = "seek sequence" /\ s.on \notin catalog.sequences ->
           <<[s EXCEPT !.op = "create sequence"]>>
      [] s.op = "seek to drop" /\ s.on \in catalog.sequences -> <<[s EXCEPT !.op = "drop sequence"]>>
      [] s.op = "find to create" /\ s.table \notin catalog.tables -> CreateAll(Model(s.table), s.safe)
      [] s.op = "find to drop" /\ s.table \in catalog.tables -> DropAll(Model(s.table), s.safe)
      [] OTHER -> <<>>

Executes(p) ==
    LET s == Head(todo[p])
        rest == Then(s) \o Tail(todo[p])
    IN  /\ todo[p] # <<>>
        /\ Accepts(s)
        /\ catalog' = Effect(s)
        /\ todo' = [todo EXCEPT ![p] = rest]
        /\ result' = [result EXCEPT ![p] = IF rest = <<>> /\ @ # "none" THEN Ended[@] ELSE @]
        /\ UNCHANGED <<kind, declared, calls, faults>>
Fails(p) ==
    /\ todo[p] # <<>>
    /\ \/ ~Accepts(Head(todo[p])) /\ UNCHANGED faults
       \/ faults < MaxFaults /\ faults' = faults + 1
    /\ todo' = [todo EXCEPT ![p] = <<>>]
    /\ result' = [result EXCEPT ![p] = "none"]
    /\ UNCHANGED <<kind, declared, catalog, calls>>

Next == \E p \in Processes :
    \/ \E safe \in BOOLEAN : CreateTables(p, safe) \/ DropTables(p, safe)
    \/ CreateForeignKeys(p)
    \/ Executes(p)
    \/ Fails(p)

Spec == Init /\ [][Next]_lifecycleVars

-----------------------------------------------------------------------------
\* Creating the tables of models, when it succeeds, has made every table, index and
\* sequence, whichever of them were there: what another process made meanwhile, and
\* what an earlier call that failed left unfinished.  (On MySQL the second is not
\* so.)  Dropping them has removed all, and what is there is never without the
\* tables and sequences it needs.
TablesComplete ==
    /\ \A p \in Processes : (result[p] = "created" /\ (SafeCreateIndex \/ (faults = 0 /\ calls = 1))) =>
         \A i \in DOMAIN declared :
            LET m == declared[i]
            IN  /\ m.table \in catalog.tables
                /\ {<<m.table, x>> : x \in m.indexes} \subseteq catalog.indexes
                /\ Sequenced => m.sequences \subseteq catalog.sequences
    /\ \A p \in Processes : result[p] = "dropped" =>
         \A i \in DOMAIN declared : declared[i].table \notin catalog.tables
    /\ \A x \in catalog.indexes : x[1] \in catalog.tables
    /\ kind # "sqlite" => \A k \in catalog.fks : {k[1], k[2]} \subseteq catalog.tables
    /\ Sequenced => \A u \in catalog.uses : u[2] \in catalog.sequences
=============================================================================
