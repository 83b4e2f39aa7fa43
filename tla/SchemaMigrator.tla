--------------------------- MODULE SchemaMigrator ----------------------------
(***************************************************************************)
(* playhouse/migrate.py: operations that alter a table, statement by       *)
(* statement.  An operation reads the catalog when its turn comes and      *)
(* yields statements and further operations.  SQLite has no statement for  *)
(* most of them: the table is built anew under another name, filled,       *)
(* dropped and replaced.  MySQL states the whole column again.             *)
(***************************************************************************)
EXTENDS Integers, Sequences, FiniteSets, SequencesExt

CONSTANTS
    Tables,    \* the tables and indexes a behaviour may start with
    Asked,     \* the operations a program may ask for
    Dialects,  \* subset of {"sqlite", "postgres", "mysql", "cockroach"}
    SqliteVersions,
    MigrateCalls,     \* bound on the calls of migrate()
    Mishaps    \* bound on writes of others and on interruptions

VARIABLES
    dialect,
    version,  \* of SQLite, 3.version; 0 for another database
    way,      \* how migrate() is called: see InTxn
    dbase,    \* tables: name -> table; indexes
    child,    \* the rows of a table that refers to this one ON DELETE CASCADE
    saved,    \* dbase and child when the transaction began
    todo,     \* statements and operations still to come
    asked,    \* the operation migrate() was called with
    goal,     \* what it should lead to
    stage,    \* "idle", "run", "done", "failed"
    keptRows,     \* the rows that were there when it was called
    calls, mishaps

schemaVars == <<dialect, version, way, dbase, child, saved, todo, asked, goal, stage, keptRows, calls, mishaps>>

None == [op |-> "none"]

\* Rows are told apart by their id, which no operation is asked to change.
ASSUME MigratorAssumption ==
    /\ Dialects \subseteq {"sqlite", "postgres", "mysql", "cockroach"} /\ SqliteVersions \subseteq Nat
    /\ \A a \in Asked :
         /\ a.op \in {"drop", "rename", "null", "default", "type", "add", "index"}
         /\ a.op \notin {"add", "index"} => a.col # "id"
    /\ \A start \in Tables :
         /\ IsFiniteSet(start.indexes)
         /\ start.table = [cols |-> start.table.cols, fks |-> start.table.fks, rows |-> start.table.rows]
         /\ start.table.cols \in Seq(ToSet(start.table.cols))
         /\ \E i \in DOMAIN start.table.cols : start.table.cols[i].name = "id"
         /\ \A row \in start.table.rows : "id" \in DOMAIN row

\* migration_context() starts a transaction if the dialect's DDL is transactional;
\* db.atomic() in any case, which MySQL's DDL would end.
TransactionalDdl == dialect \in {"sqlite", "postgres"}
InTxn == TransactionalDdl /\ way # "bare"

\* Mutation: the pragma is left on.
CascadesStill == dialect = "sqlite"

\* The pragma cannot be changed inside of a transaction: "nested" is
\* migration_context() in a program's atomic().
Cascades == dialect = "sqlite" /\ way # "context"

MigratorInit ==
    /\ dialect = "sqlite" /\ version = 0 /\ way = "bare"
    /\ dbase = [tables |-> [t \in {} |-> None], indexes |-> {}] /\ child = TRUE
    /\ saved = <<dbase, child>>
    /\ todo = <<>> /\ asked = None /\ goal = dbase /\ stage = "idle" /\ keptRows = {}
    /\ calls = MigrateCalls /\ mishaps = Mishaps

-----------------------------------------------------------------------------
\* Tables: columns in order, foreign keys by column, rows by column.
Stated(name, type, null, default) == [name |-> name, type |-> type, null |-> null, default |-> default]
Names(t) == [i \in DOMAIN t.cols |-> t.cols[i].name]
Has(t, c) == c \in ToSet(Names(t))
PlaceOf(t, c) == CHOOSE i \in DOMAIN t.cols : t.cols[i].name = c
ColumnOf(t, c) == t.cols[PlaceOf(t, c)]
RowIds(t) == {row["id"] : row \in t.rows}

Altered(t, c, new) ==
    [t EXCEPT !.cols = [i \in DOMAIN @ |-> IF @[i].name = c THEN new ELSE @[i]]]
WithColumn(t, col, value) ==
    [t EXCEPT !.cols = Append(@, col),
              !.rows = {[k \in DOMAIN r \cup {col.name} |-> IF k = col.name THEN value ELSE r[k]] : r \in @}]
WithoutColumn(t, c) ==
    [cols |-> RemoveAt(t.cols, PlaceOf(t, c)),
     fks |-> {fk \in t.fks : fk.col # c},
     rows |-> {[k \in DOMAIN r \ {c} |-> r[k]] : r \in t.rows}]
To(c, new, k) == IF k = c THEN new ELSE k
Renamed(t, c, new) ==
    [cols |-> Altered(t, c, Stated(new, ColumnOf(t, c).type, ColumnOf(t, c).null, ColumnOf(t, c).default)).cols,
     fks |-> {[fk EXCEPT !.col = To(c, new, @)] : fk \in t.fks},
     rows |-> {[k \in {To(c, new, x) : x \in DOMAIN r} |-> IF k = new THEN r[c] ELSE r[k]] : r \in t.rows}]
NoNull(t, c) == \A r \in t.rows : r[c] # "null"

Over(ix, c) == c \in ToSet(ix.cols)
Mentions(ix, c) == Over(ix, c) \/ ix.where = c
IndexTo(ix, c, new) ==
    [ix EXCEPT !.cols = [i \in DOMAIN @ |-> To(c, new, @[i])], !.where = To(c, new, @)]

\* make_index_name()
IndexName(cols) == <<"t">> \o cols

\* SQLite's and MySQL's alter_column_type(): the column is what the field says.
Typed(col, a) ==
    IF dialect \in {"sqlite", "mysql"}
    THEN Stated(col.name, a.to, a.null, FALSE)
    ELSE [col EXCEPT !.type = a.to]

\* What a column that is added holds in the rows there are; MySQL has a value for
\* each type.
Initial(col) ==
    CASE col.default -> "d"
      [] ~col.default /\ col.null -> "null"
      [] ~col.default /\ ~col.null -> "implicit"

\* What the operations are for, in whatever dialect.
Intended(d, a) ==
    LET t == d.tables["t"]
        is(new) == [d EXCEPT !.tables["t"] = new]
        plain(cols) == [name |-> IndexName(cols), cols |-> cols, unique |-> FALSE, where |-> ""]
        given == IF a.to.null \/ a.allow THEN Initial(a.to) ELSE a.value
    IN CASE a.op = "drop" -> [is(WithoutColumn(t, a.col)) EXCEPT !.indexes = {ix \in @ : ~Mentions(ix, a.col)}]
         [] a.op = "rename" -> [is(Renamed(t, a.col, a.to)) EXCEPT !.indexes = {IndexTo(ix, a.col, a.to) : ix \in @}]
         [] a.op = "null" -> is(Altered(t, a.col, [ColumnOf(t, a.col) EXCEPT !.null = a.to]))
         [] a.op = "default" -> is(Altered(t, a.col, [ColumnOf(t, a.col) EXCEPT !.default = a.to]))
         [] a.op = "type" -> is(Altered(t, a.col, [ColumnOf(t, a.col) EXCEPT !.type = a.to]))
         [] a.op = "add" ->
                [is([WithColumn(t, a.to, given) EXCEPT
                        !.fks = IF a.fk THEN @ \cup {[col |-> a.to.name, inline |-> TRUE]} ELSE @])
                 EXCEPT !.indexes = IF a.index THEN @ \cup {plain(<<a.to.name>>)} ELSE @]
         [] a.op = "index" -> [d EXCEPT !.indexes = @ \cup {[plain(a.cols) EXCEPT !.unique = a.to]}]

-----------------------------------------------------------------------------
\* Statements, and what the database makes of them.
St(k, arg) == [k |-> k, arg |-> arg]

\* SQLite adds no column with both a reference and a default then.
ForeignKeysOn == Cascades

Enabled(d, st) ==
    LET t == d.tables["t"] a == st.arg IN
    CASE st.k \in {"dropTmp", "create", "update"} -> TRUE
      [] st.k = "copy" -> \A i \in DOMAIN a.new :
                            ColumnOf(d.tables["tmp"], a.new[i]).null \/ NoNull(t, a.old[i])
      [] st.k = "dropTable" -> "t" \in DOMAIN d.tables
      [] st.k = "renameTable" -> "t" \notin DOMAIN d.tables
      [] st.k = "createIndex" ->
            /\ \A ix \in d.indexes : ix.name # a.name
            /\ \A c \in ToSet(a.cols) \cup ({a.where} \ {""}) : Has(t, c)
            /\ a.unique => \A r, s \in t.rows :
                             (\A c \in ToSet(a.cols) : r[c] = s[c] /\ r[c] # "null") => r = s
      [] st.k = "add" ->
            /\ ~Has(t, a.col.name)
            /\ a.col.null \/ a.col.default \/ dialect = "mysql" \/ (dialect # "sqlite" /\ t.rows = {})
            /\ ~(a.fk /\ a.col.default /\ ForeignKeysOn)
      [] st.k = "drop" ->
            Has(t, a) /\ (dialect = "sqlite" =>
                            /\ \A ix \in d.indexes : ~Mentions(ix, a)
                            /\ \A fk \in t.fks : fk.col # a \/ fk.inline)
      [] st.k = "rename" -> Has(t, a.col) /\ ~Has(t, a.to.name)
      [] st.k = "restate" -> /\ Has(t, a.col) /\ (a.to.name # a.col => ~Has(t, a.to.name))
                             /\ a.to.null \/ NoNull(t, a.col)
      [] st.k = "alter" -> Has(t, a.name) /\ (a.null \/ NoNull(t, a.name))
      [] st.k = "addFk" -> Has(t, a)
      [] st.k = "dropFk" -> \E fk \in t.fks : fk.col = a

\* MySQL takes a column out of the indexes over others as well; UNIQUE in a column
\* that is stated again makes an index, named after the column.
Narrowed(indexes, c) ==
    {[ix EXCEPT !.cols = SelectSeq(@, LAMBDA x : x # c)] : ix \in {jx \in indexes : ToSet(jx.cols) # {c}}}
Unique(c) == [name |-> <<c>>, cols |-> <<c>>, unique |-> TRUE, where |-> ""]
Repeated(a) == IF a.unique THEN {Unique(a.to.name)} ELSE {}

After(d, st) ==
    LET t == d.tables["t"]
        a == st.arg
        others == [n \in DOMAIN d.tables \ {"t"} |-> d.tables[n]]
        is(new) == [d EXCEPT !.tables["t"] = new]
    IN CASE st.k = "dropTmp" -> [d EXCEPT !.tables = [n \in DOMAIN @ \ {"tmp"} |-> @[n]]]
         [] st.k = "create" -> [d EXCEPT !.tables =
                                  [n \in DOMAIN @ \cup {"tmp"} |-> IF n = "tmp" THEN a ELSE @[n]]]
         [] st.k = "copy" -> [d EXCEPT !.tables["tmp"].rows =
                                @ \cup {[c \in ToSet(a.new) |->
                                          r[a.old[CHOOSE i \in DOMAIN a.new : a.new[i] = c]]] : r \in t.rows}]
         [] st.k = "dropTable" -> [tables |-> others, indexes |-> {}]
         [] st.k = "renameTable" -> [d EXCEPT !.tables = [n \in {"t"} |-> @["tmp"]]]
         [] st.k = "createIndex" -> [d EXCEPT !.indexes = @ \cup {a}]
         [] st.k = "add" -> is([WithColumn(t, a.col, Initial(a.col)) EXCEPT
                                  !.fks = IF a.fk THEN @ \cup {[col |-> a.col.name, inline |-> TRUE]} ELSE @])
         [] st.k = "update" -> is([t EXCEPT !.rows = {[r EXCEPT ![a.col] = a.to] : r \in @}])
         [] st.k = "drop" -> [tables |-> [d.tables EXCEPT !["t"] = WithoutColumn(t, a)],
                              indexes |-> IF dialect = "mysql" THEN Narrowed(d.indexes, a)
                                          ELSE {ix \in d.indexes : ~Mentions(ix, a)}]
         [] st.k = "rename" -> [is(Altered(Renamed(t, a.col, a.to.name), a.to.name, a.to))
                                EXCEPT !.indexes = {IndexTo(ix, a.col, a.to.name) : ix \in @}]
         [] st.k = "restate" ->
                LET new == IF a.to.name = a.col THEN t ELSE Renamed(t, a.col, a.to.name)
                IN [is(Altered(new, a.to.name, a.to)) EXCEPT
                      !.indexes = {IndexTo(ix, a.col, a.to.name) : ix \in @} \cup Repeated(a)]
         [] st.k = "alter" -> is(Altered(t, a.name, a))
         [] st.k = "addFk" -> is([t EXCEPT !.fks = @ \cup {[col |-> a, inline |-> TRUE]}])
         [] st.k = "dropFk" -> is([t EXCEPT !.fks = {fk \in @ : fk.col # a}])

-----------------------------------------------------------------------------
\* _update_column(): the definition of the column is replaced or left out.
NewTable(t, a) ==
    LET col == ColumnOf(t, a.col)
        inline == [col |-> a.col, inline |-> TRUE]
    IN CASE a.op = "drop" -> WithoutColumn(t, a.col)
         [] a.op = "rename" -> Renamed(t, a.col, a.to)
         [] a.op = "null" -> Altered(t, a.col, Stated(a.col, col.type, a.to, col.default))
         [] a.op = "default" -> Altered(t, a.col, Stated(a.col, col.type, col.null, a.to))
         [] a.op = "type" -> [Altered(t, a.col, Typed(col, a)) EXCEPT !.fks = @ \ {inline}]

\* _fix_index(): if the name occurs once, or once after the last parenthesis, it
\* is replaced there; else the columns of what follows that parenthesis are.
FixIndex(ix, c, new) ==
    LET times == Len(SelectSeq(ix.name, LAMBDA x : x = c)) + 1 + (IF ix.where = c THEN 1 ELSE 0)
    IN CASE times = 1 \/ ix.where = "" -> IndexTo(ix, c, new)
         [] times > 1 /\ ix.where = c -> [ix EXCEPT !.where = new]
         [] OTHER -> [ix EXCEPT !.where = "mangled"]

FixIndexes(indexes, a) ==
    LET over == {ix \in indexes : Over(ix, a.col)}
    IN (indexes \ over) \cup CASE a.op = "rename" -> {FixIndex(ix, a.col, a.to) : ix \in over}
                               [] a.op = "drop" -> {}
                               [] OTHER -> over

Rebuild(d, a) ==
    LET t == d.tables["t"]
        new == NewTable(t, a)
        old == Names(IF a.op = "drop" THEN new ELSE t)
    IN <<St("dropTmp", 0),
         St("create", [new EXCEPT !.rows = {}]),
         St("copy", [new |-> Names(new), old |-> old]),
         St("dropTable", 0),
         St("renameTable", 0)>>
       \o SetToSeq({St("createIndex", ix) : ix \in FixIndexes(d.indexes, a)})

IsFk(t, c) == \E fk \in t.fks : fk.col = c

\* MySQL cannot modify a column under a foreign key: it is dropped and added.
Modified(t, c, sts, after) ==
    IF IsFk(t, c) THEN <<St("dropFk", c)>> \o sts \o <<St("addFk", after)>> ELSE sts

ExplicitFk == dialect \in {"mysql", "cockroach"}

\* alter_add_column(): nullable at first, with the reference where it can be said
\* in the column.
AlterAddColumn(a) ==
    <<St("add", [col |-> [a.to EXCEPT !.null = @ \/ ~a.allow], fk |-> a.fk /\ ~ExplicitFk])>>

\* add_column(): then the default for every row, then NOT NULL.
AddColumn(a) ==
    AlterAddColumn(a)
    \o (IF a.to.null \/ a.allow THEN <<>>
        ELSE <<St("update", [col |-> a.to.name, to |-> a.value]),
               St("op", [op |-> "null", col |-> a.to.name, to |-> FALSE])>>)
    \o (IF a.fk /\ ExplicitFk THEN <<St("addFk", a.to.name)>> ELSE <<>>)
    \o (IF a.index THEN <<St("op", [op |-> "index", cols |-> <<a.to.name>>, to |-> FALSE])>> ELSE <<>>)

AddIndex(a) ==
    <<St("createIndex", [name |-> IndexName(a.cols), cols |-> a.cols, unique |-> a.to, where |-> ""])>>

DropColumn(t, a) ==
    (IF dialect = "mysql" /\ IsFk(t, a.col) THEN <<St("dropFk", a.col)>> ELSE <<>>)
    \o <<St("drop", a.col)>>

RenameColumn(t, a) == <<St("rename", [col |-> a.col, to |-> [ColumnOf(t, a.col) EXCEPT !.name = a.to]])>>
AlterNull(t, a) == <<St("alter", [ColumnOf(t, a.col) EXCEPT !.null = a.to])>>

\* MySQLColumn.sql(): the column as DESCRIBE tells it, which is UNIQUE if it is in an
\* index of its own; the default is left out.
Restate(d, c, new) ==
    <<St("restate", [col |-> c, to |-> [new EXCEPT !.default = FALSE],
                     unique |-> \E ix \in d.indexes : ix.unique /\ ix.cols = <<c>>])>>
MySQLRename(d, a) ==
    LET t == d.tables["t"]
    IN Modified(t, a.col, Restate(d, a.col, [ColumnOf(t, a.col) EXCEPT !.name = a.to]), a.to)
MySQLNull(d, a) ==
    LET t == d.tables["t"]
        restated == Restate(d, a.col, [ColumnOf(t, a.col) EXCEPT !.null = a.to])
    IN IF a.to THEN restated ELSE Modified(t, a.col, restated, a.col)
AlterDefault(t, a) == <<St("alter", [ColumnOf(t, a.col) EXCEPT !.default = a.to])>>
AlterType(t, a) == <<St("alter", Typed(ColumnOf(t, a.col), a))>>

\* SqliteMigrator: what this version of SQLite has a statement for, and the rest.
SqliteOperation(d, a) ==
    LET t == d.tables["t"] IN
    CASE version >= 35 /\ a.op = "drop" -> DropColumn(t, a)
      [] version >= 25 /\ a.op = "rename" -> RenameColumn(t, a)
      [] version >= 53 /\ a.op = "null" -> AlterNull(t, a)
      [] OTHER -> Rebuild(d, a)

Operation(d, a) ==
    LET t == d.tables["t"] IN
    CASE a.op = "index" -> AddIndex(a)
      [] a.op = "add" -> AddColumn(a)
      [] dialect = "sqlite" /\ a.op \notin {"index", "add"} -> SqliteOperation(d, a)
      [] dialect # "sqlite" /\ a.op = "drop" -> DropColumn(t, a)
      [] dialect = "mysql" /\ a.op = "rename" -> MySQLRename(d, a)
      [] dialect = "mysql" /\ a.op = "null" -> MySQLNull(d, a)
      [] dialect \in {"postgres", "cockroach"} /\ a.op = "rename" -> RenameColumn(t, a)
      [] dialect \in {"postgres", "cockroach"} /\ a.op = "null" -> AlterNull(t, a)
      [] dialect # "sqlite" /\ a.op = "default" -> AlterDefault(t, a)
      [] dialect # "sqlite" /\ a.op = "type" -> AlterType(t, a)

-----------------------------------------------------------------------------
Setup(dl, v, start) ==
    /\ dbase.tables = [t \in {} |-> None]
    /\ dl = "mysql" => \A ix \in start.indexes : ix.where = ""
    /\ dialect' = dl /\ version' = v
    /\ dbase' = [tables |-> [t \in {"t"} |-> start.table], indexes |-> start.indexes]
    /\ UNCHANGED <<way, child, saved, todo, asked, goal, stage, keptRows, calls, mishaps>>

\* An operation on a column that is not there is refused; the program asks for
\* one that could be carried out.
Sensible(t, a) ==
    /\ a.op \in {"drop", "rename", "null", "default", "type"} => Has(t, a.col)
    /\ a.op = "rename" => ~Has(t, a.to)
    /\ a.op = "add" => ~Has(t, a.to.name) /\ (a.to.null \/ a.allow \/ a.value # "null")
    /\ a.op = "index" => \A c \in ToSet(a.cols) : Has(t, c)

Call(a, w) ==
    /\ stage # "run" /\ calls > 0 /\ "t" \in DOMAIN dbase.tables
    /\ Sensible(dbase.tables["t"], a)
    /\ way' = w /\ saved' = <<dbase, child>>
    /\ asked' = a /\ todo' = <<St("op", a)>> /\ goal' = Intended(dbase, a)
    /\ keptRows' = RowIds(dbase.tables["t"])
    /\ stage' = "run" /\ calls' = calls - 1
    /\ UNCHANGED <<dialect, version, dbase, child, mishaps>>

\* An operation's turn: its function reads the catalog.
Expand ==
    /\ stage = "run" /\ todo # <<>> /\ Head(todo).k = "op"
    /\ todo' = Operation(dbase, Head(todo).arg) \o Tail(todo)
    /\ UNCHANGED <<dialect, version, way, dbase, child, saved, asked, goal, stage, keptRows, calls, mishaps>>

\* The exception, or the end of the process, ends the transaction.
Fail ==
    /\ IF InTxn THEN dbase' = saved[1] /\ child' = saved[2] ELSE UNCHANGED <<dbase, child>>
    /\ stage' = "failed" /\ todo' = <<>>
    /\ UNCHANGED <<dialect, version, way, saved, asked, goal, keptRows, calls>>

\* Dropping a table deletes its rows first, which cascades.
ExecuteStatement ==
    /\ stage = "run" /\ todo # <<>> /\ Head(todo).k # "op"
    /\ UNCHANGED mishaps
    /\ IF Enabled(dbase, Head(todo))
       THEN /\ dbase' = After(dbase, Head(todo))
            /\ child' = (child /\ ~(Head(todo).k = "dropTable" /\ Cascades))
            /\ todo' = Tail(todo)
            /\ UNCHANGED <<dialect, version, way, saved, asked, goal, stage, keptRows, calls>>
       ELSE Fail

Interrupted ==
    /\ stage = "run" /\ mishaps > 0 /\ mishaps' = mishaps - 1
    /\ Fail

Finished ==
    /\ stage = "run" /\ todo = <<>>
    /\ stage' = "done"
    /\ UNCHANGED <<dialect, version, way, dbase, child, saved, todo, asked, goal, keptRows, calls, mishaps>>

\* Another connection inserts a row; a transaction that alters the table is in
\* its way.
OtherWrites ==
    /\ mishaps > 0 /\ mishaps' = mishaps - 1
    /\ "t" \in DOMAIN dbase.tables /\ (stage = "run" => ~InTxn)
    /\ LET t == dbase.tables["t"]
           row == [c \in ToSet(Names(t)) |-> IF c = "id" THEN "late" ELSE "w"]
       IN dbase' = [dbase EXCEPT !.tables["t"].rows = @ \cup {row}]
    /\ UNCHANGED <<dialect, version, way, child, saved, todo, asked, goal, stage, keptRows, calls>>

MigratorNext ==
    \/ \E dl \in Dialects, start \in Tables :
         \E v \in IF dl = "sqlite" THEN SqliteVersions ELSE {0} : Setup(dl, v, start)
    \/ \E a \in Asked, w \in {"bare", "atomic", "context", "nested"} : Call(a, w)
    \/ Expand \/ ExecuteStatement \/ Interrupted \/ Finished \/ OtherWrites

MigratorSpec == MigratorInit /\ [][MigratorNext]_schemaVars

-----------------------------------------------------------------------------
\* What SQLite and MySQL forget.  alter_column_type() states the whole column as the
\* field does, SQLite's without its REFERENCES; MySQL's rename and change of NULL
\* leave out the default and repeat a UNIQUE.
FromField == dialect \in {"sqlite", "mysql"} /\ asked.op = "type"
IsRestated ==
    /\ dialect = "mysql" /\ asked.op \in {"rename", "null", "add"}
    /\ asked.op = "add" => ~asked.to.null /\ ~asked.allow
AskedOf ==
    CASE asked.op \in {"drop", "null", "default", "type"} -> asked.col
      [] asked.op = "rename" -> asked.to
      [] asked.op = "add" -> asked.to.name
      [] asked.op = "index" -> ""
Left(col) ==
    [col EXCEPT !.null = IF FromField THEN asked.null ELSE @, !.default = @ /\ ~FromField /\ ~IsRestated]
LostKeys == IF FromField /\ dialect = "sqlite" THEN {[col |-> asked.col, inline |-> TRUE]} ELSE {}
TwiceUnique == {Unique(AskedOf) : ix \in {ix \in goal.indexes : IsRestated /\ ix.unique /\ ix.cols = <<AskedOf>>}}

\* An operation that returns has done what it was asked for and nothing else, in
\* every dialect and version: the other columns, their order, the indexes and
\* foreign keys that have nothing to do with the column, and every row that was
\* there are as they were, and the column keeps whatever was not to change but for
\* what SQLite and MySQL forget, which is named above.
AsAsked ==
    stage = "done" =>
        LET t == dbase.tables["t"]
            g == goal.tables["t"]
            indexes == IF asked.op = "drop" THEN {ix \in dbase.indexes : ix.name \in {jx.name : jx \in goal.indexes}}
                       ELSE dbase.indexes
        IN /\ t.cols = Altered(g, AskedOf, Left(ColumnOf(g, AskedOf))).cols
           /\ {fk.col : fk \in t.fks} = {fk.col : fk \in g.fks \ LostKeys}
           /\ {r \in t.rows : r["id"] \in keptRows} = g.rows
           /\ indexes = goal.indexes \cup TwiceUnique

\* Wherever an operation is interrupted, every row it found is in the table or in
\* the one that is to replace it, and nothing is left half done by a transaction;
\* in migration_context() the rows that refer to the table stay too.
RowsSurvive ==
    LET d == IF stage = "run" /\ InTxn THEN saved[1] ELSE dbase
    IN /\ keptRows \subseteq UNION {RowIds(d.tables[n]) : n \in DOMAIN d.tables}
       /\ stage # "idle" /\ InTxn => "t" \in DOMAIN d.tables
       /\ way = "context" => child = saved[2]

=============================================================================
