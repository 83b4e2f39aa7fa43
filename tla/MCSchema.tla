------------------------------- MODULE MCSchema -------------------------------
(***************************************************************************)
(* Tables, their changes, and the connections statements go through: nine  *)
(* components, of which a behaviour exercises one.  Those this module      *)
(* extends have variables and constants of their own; the others share s1  *)
(* to s8, so that one run checks them all.                                 *)
(***************************************************************************)
EXTENDS Migrations, SchemaMigrator, Retries, SqliteConnections, TLC

CONSTANT Parts   \* the components to check

VARIABLES part, s1, s2, s3, s4, s5, s6, s7, s8

shared == <<s1, s2, s3, s4, s5, s6, s7, s8>>

-----------------------------------------------------------------------------
\* One migration of statements that define data, one that cannot be undone, one
\* outside of a transaction.
ThreeMigrations ==
    <<[ddl |-> TRUE, atomic |-> TRUE, down |-> TRUE],
      [ddl |-> FALSE, atomic |-> TRUE, down |-> FALSE],
      [ddl |-> TRUE, atomic |-> FALSE, down |-> TRUE]>>

-----------------------------------------------------------------------------
\* A table of three columns, with and without a foreign key, NULLs and indexes of
\* every kind; every operation of the migrator.
Column(n, null, default) == [name |-> n, null |-> null, default |-> default, type |-> "t1"]
Filled(i, a, b) == ("id" :> i @@ "a" :> a @@ "b" :> b)
Indexed(n, cols, unique, where) == [name |-> n, cols |-> cols, unique |-> unique, where |-> where]
AlteredTables ==
    {[table |-> [cols |-> <<Column("id", FALSE, FALSE), Column("a", null, TRUE), Column("b", TRUE, FALSE)>>,
                 fks |-> keys, rows |-> {Filled("1", "x", "null"), Filled("2", "x", "y")}],
      indexes |-> indexes] :
        null \in BOOLEAN,
        keys \in {{}, {[col |-> "a", inline |-> TRUE]}, {[col |-> "a", inline |-> FALSE]}},
        indexes \in {{},
                     {Indexed(<<"t", "a">>, <<"a">>, FALSE, ""), Indexed(<<"t", "b">>, <<"b">>, TRUE, "")},
                     {Indexed(<<"t", "b", "a">>, <<"b", "a">>, FALSE, "")},
                     {Indexed(<<"p">>, <<"a">>, FALSE, "b")}}}
Alterations ==
    {[op |-> "drop", col |-> "a"], [op |-> "rename", col |-> "a", to |-> "z"],
     [op |-> "index", cols |-> <<"a", "b">>, to |-> FALSE], [op |-> "index", cols |-> <<"a">>, to |-> TRUE]}
    \cup {[op |-> "null", col |-> c, to |-> v] : c \in {"a", "b"}, v \in BOOLEAN}
    \cup {[op |-> "default", col |-> "a", to |-> v] : v \in BOOLEAN}
    \cup {[op |-> "type", col |-> "a", to |-> "t2", null |-> v] : v \in BOOLEAN}
    \cup {[op |-> "add", to |-> c, value |-> "d", allow |-> w, fk |-> f, index |-> TRUE] :
             c \in {Column("c", TRUE, FALSE), Column("c", FALSE, FALSE), Column("c", FALSE, TRUE)},
             w \in BOOLEAN, f \in BOOLEAN}

-----------------------------------------------------------------------------
\* Two models in several versions, which a program steps through in any order.
Defined(c, fk, index) == [col |-> c, fk |-> fk, index |-> index]
Model(t, fields, indexes) == [table |-> t, fields |-> fields, indexes |-> indexes]
Composite(cols, unique, name) == [cols |-> cols, unique |-> unique, name |-> name]
Found(name, cols, unique, partial) ==
    [name |-> name, cols |-> cols, unique |-> unique, partial |-> partial]
a == <<"a">>
b == <<"b">>
aAndB == <<"a", "b">>
userId == <<"u", "id">>
Users ==
    {Model("user", <<Defined(a, "", "")>>, {}),
     Model("user", <<Defined(a, "", "unique"), Defined(b, "", "")>>, {}),
     Model("user", <<Defined(a, "", "index"), Defined(b, "", "index")>>, {Composite(<<b, a>>, FALSE, <<>>)})}
Posts ==
    {Model("post", <<Defined(userId, "user", "index")>>, {}),
     Model("post", <<Defined(userId, "user", "index"), Defined(a, "", "unique")>>,
           {Composite(<<a, userId>>, TRUE, <<>>)}),
     Model("post", <<Defined(a, "", "index")>>, {Composite(<<a>>, FALSE, <<"p">>)}),
     Model("post", <<Defined(a, "", ""), Defined(b, "", ""), Defined(aAndB, "", "index")>>,
           {Composite(<<a, b>>, FALSE, <<>>)})}

Diff == INSTANCE SchemaDiff WITH
    db <- s1, models <- s2, diff <- s3, file <- s4, before <- s5, phase <- s6, steps <- s7,
    Databases <- {[t \in {} |-> 0],
                  [t \in {"post"} |-> [cols |-> {a, b}, fks |-> {},
                                       indexes |-> {Found(<<"x">>, <<a>>, FALSE, FALSE),
                                                    Found(<<"p">>, <<a>>, FALSE, TRUE),
                                                    Found(<<"z">>, <<b, a>>, TRUE, FALSE)}]],
                  [t \in {"post"} |-> [cols |-> {a, b}, fks |-> {},
                                       indexes |-> {Found(<<"p">>, <<a>>, FALSE, FALSE)}]]},
    Versions <- {{u} : u \in Users} \cup {{u, p} : u \in Users, p \in Posts},
    MaxSteps <- 3

-----------------------------------------------------------------------------
\* Two clients of one table that grows columns as rows need them.
Dataset == INSTANCE DatasetTable WITH
    cols <- s1, unique <- s2, rows <- s3, known <- s4, saved <- s5, owner <- s6, last <- s7, calls <- s8,
    Clients <- {"p", "q"}, Columns <- {"x", "y"}, Ids <- 1..4,
    GivenRows <- {[x |-> 1], [x |-> 1, y |-> 2]}, Files <- {<<[x |-> 2], [x |-> 2, y |-> 1]>>},
    MaxCalls <- 4

-----------------------------------------------------------------------------
\* Two processes that make and drop two models, one of which refers to the other and to itself.
Declared(t, refs, later, indexes, sequences) ==
    [table |-> t, refs |-> refs, later |-> later, indexes |-> indexes, sequences |-> sequences]

Lifecycle == INSTANCE TableLifecycle WITH
    kind <- s1, declared <- s2, catalog <- s3, todo <- s4, result <- s5, calls <- s6, faults <- s7,
    Processes <- {"p", "q"}, Kinds <- {"sqlite", "postgres", "mysql"},
    ModelSets <- {<<Declared("a", {}, {}, {"x"}, {"s"}), Declared("b", {"a", "b"}, {}, {"u"}, {"s"})>>,
                  <<Declared("a", {}, {"b"}, {"x"}, {}), Declared("b", {"a"}, {}, {}, {"s"})>>},
    MaxCalls <- 3, MaxFaults <- 1

-----------------------------------------------------------------------------
\* Two columns; a text that is a JSON number.
Changes == INSTANCE ChangeLog WITH
    rows <- s1, triggers <- s2, log <- s3, base <- s4, saved <- s5, calls <- s6,
    Columns <- {"c", "d"}, Pks <- {1}, Values <- {"NULL", "a", "5"}, Null <- "NULL",
    Parsed <- [v \in {"NULL", "a", "5"} |-> IF v = "5" THEN "number 5" ELSE v], MaxCalls <- 4

-----------------------------------------------------------------------------
\* Users, tags and links, with names that differ in case or in "_id" alone, keys of
\* one column or two, and a partial index.
ColumnNames == {"id", "user", "user_id", "userId", "tag_id", "tag", "x", "userid"}
TypedColumn(n, type, null, pk, auto) == [name |-> n, type |-> type, null |-> null, pk |-> pk, auto |-> auto]
Key(c, dest, to) == [column |-> c, dest |-> dest, to |-> to]
OverColumns(cols, unique) == [cols |-> cols, unique |-> unique, usable |-> TRUE]
Partial(cols) == [cols |-> cols, unique |-> TRUE, usable |-> FALSE]
Table(columns, keys, indexes) == [columns |-> columns, fks |-> keys, indexes |-> indexes]
UserTables ==
    {Table(<<TypedColumn("id", "int", FALSE, TRUE, TRUE), TypedColumn("x", "text", TRUE, FALSE, FALSE)>>,
           {}, {OverColumns(<<"x">>, TRUE)}),
     Table(<<TypedColumn("x", "text", FALSE, TRUE, FALSE), TypedColumn("tag_id", "int", TRUE, FALSE, FALSE)>>,
           {Key("tag_id", "tag", "id")}, {OverColumns(<<"tag_id">>, FALSE)})}
TagTables ==
    {Table(<<TypedColumn("id", "int", FALSE, TRUE, TRUE), TypedColumn("user", "int", TRUE, FALSE, FALSE),
             TypedColumn("user_id", "int", FALSE, FALSE, FALSE)>>,
           {Key("user_id", "user", "")},
           {OverColumns(<<"user", "user_id">>, TRUE), OverColumns(<<"user_id">>, FALSE), Partial(<<"user">>)}),
     Table(<<TypedColumn("id", "int", FALSE, TRUE, TRUE), TypedColumn("tag_id", "int", TRUE, FALSE, FALSE)>>,
           {Key("tag_id", "tag", "id")}, {OverColumns(<<"tag_id">>, TRUE)})}
LinkTables ==
    {Table(<<TypedColumn("user_id", "int", FALSE, TRUE, FALSE), TypedColumn("tag_id", "int", FALSE, TRUE, FALSE)>>,
           {Key("tag_id", "tag", "id"), Key("user_id", "user", "")}, {}),
     Table(<<TypedColumn("user", "int", FALSE, TRUE, FALSE), TypedColumn("x", "int", FALSE, TRUE, FALSE)>>,
           {Key("user", "user", "")}, {OverColumns(<<"x", "user">>, FALSE)}),
     Table(<<TypedColumn("user", "int", FALSE, FALSE, FALSE), TypedColumn("x", "int", TRUE, FALSE, FALSE)>>,
           {}, {OverColumns(<<"x", "user">>, FALSE)}),
     Table(<<TypedColumn("id", "int", FALSE, FALSE, FALSE), TypedColumn("userId", "int", FALSE, FALSE, FALSE)>>, {}, {})}
Reflectable ==
    {s \in {("user" :> u) : u \in UserTables}
           \cup {("user" :> u @@ "tag" :> t) : u \in UserTables, t \in TagTables}
           \cup {("user" :> u @@ "tag" :> t @@ "link" :> l) : u \in UserTables, t \in TagTables, l \in LinkTables} :
        \A t \in DOMAIN s : {k.dest : k \in s[t].fks} \subseteq DOMAIN s}

Reflect == INSTANCE Reflection WITH
    tables <- s1, asked <- s2, models <- s3, printed <- s4, origin <- s5,
    Schemas <- Reflectable, Backends <- {"sqlite", "postgres", "mysql"},
    Plain <- [n \in ColumnNames |-> IF n = "userId" THEN "user_id" ELSE n],
    Lower <- [n \in ColumnNames |-> IF n = "userId" THEN "userid" ELSE n],
    Base <- [n \in ColumnNames |-> CASE n = "user_id" -> "user" [] n = "tag_id" -> "tag" [] OTHER -> n]

-----------------------------------------------------------------------------
\* What a component of fewer variables makes of the others.
Unused7 == s7 = 0 /\ s8 = 0

\* The variables of the components this module extends.
own == <<vars, schemaVars, retryVars, sqliteVars>>

SchemaInit ==
    /\ part \in Parts /\ Init /\ MigratorInit /\ RetryInit
    /\ SqliteInit /\ (part # "sqlite" => busy.now = CHOOSE s \in Timeouts : TRUE)
    /\ \/ part \in {"migrations", "migrator", "sqlite", "retries"} /\ s1 = 0 /\ s2 = 0 /\ s3 = 0 /\ s4 = 0 /\ s5 = 0 /\ s6 = 0 /\ Unused7
       \/ part = "diff" /\ Diff!Init /\ s8 = 0
       \/ part = "dataset" /\ Dataset!Init
       \/ part = "lifecycle" /\ Lifecycle!Init /\ s8 = 0
       \/ part = "changelog" /\ Changes!Init /\ Unused7
       \/ part = "reflection" /\ Reflect!Init /\ s6 = 0 /\ Unused7

MigrationStep == part = "migrations" /\ Next /\ UNCHANGED <<part, schemaVars, retryVars, sqliteVars, shared>>
SqliteStep == part = "sqlite" /\ SqliteNext /\ UNCHANGED <<part, schemaVars, vars, retryVars, shared>>
RetryStep == part = "retries" /\ RetryNext /\ UNCHANGED <<part, schemaVars, vars, sqliteVars, shared>>
MigratorStep == part = "migrator" /\ MigratorNext /\ UNCHANGED <<part, vars, retryVars, sqliteVars, shared>>
DiffStep == part = "diff" /\ Diff!Next /\ UNCHANGED <<own, part, s8>>
DatasetStep == part = "dataset" /\ Dataset!Next /\ UNCHANGED <<own, part>>
LifecycleStep == part = "lifecycle" /\ Lifecycle!Next /\ UNCHANGED <<own, part, s8>>
ChangeStep == part = "changelog" /\ Changes!Next /\ UNCHANGED <<own, part, s7, s8>>
ReflectionStep == part = "reflection" /\ Reflect!Next /\ UNCHANGED <<own, part, s6, s7, s8>>

SchemaNext ==
    \/ MigrationStep \/ MigratorStep \/ DiffStep \/ DatasetStep \/ LifecycleStep
    \/ SqliteStep \/ RetryStep \/ ChangeStep \/ ReflectionStep

SchemaSpec == SchemaInit /\ [][SchemaNext]_<<own, part, shared>>

-----------------------------------------------------------------------------
\* The properties of the other components, by what they are about.

\* The migrator does what it was asked for; what a program knows of a schema is what
\* it is; generated migrations lead to the models and back; and the change log tells
\* how the rows came to be what they are.
SchemaKnown ==
    /\ AsAsked
    /\ part = "reflection" => Reflect!ReflectionFaithful
    /\ part = "diff" => Diff!GeneratedMigrates
    /\ part = "dataset" => Dataset!DatasetStores
    /\ part = "lifecycle" => Lifecycle!TablesComplete
    /\ part = "changelog" => Changes!LogReplays

\* A recreated database has the keys of the one that was reflected.
KeysReflected == part = "reflection" => Reflect!KeysReflected
=============================================================================
