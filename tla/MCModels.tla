------------------------------- MODULE MCModels -------------------------------
(***************************************************************************)
(* Queries, models, and what is built on them: fourteen components, of     *)
(* which a behaviour exercises one.  Those this module extends have        *)
(* variables and constants of their own; the others share s1 to s11, so    *)
(* that one run checks them all.                                           *)
(***************************************************************************)
EXTENDS ResultCache, ModelInstance, KeyValueStore, ManyToMany, FiniteSets, SequencesExt

CONSTANTS
    Parts,   \* the components to check
    NoObject

VARIABLES part, s1, s2, s3, s4, s5, s6, s7, s8, s9, s10, s11

shared == <<s1, s2, s3, s4, s5, s6, s7, s8, s9, s10, s11>>

\* The rows of the query that is read in many ways.
CachedRows == <<1, 2, 3>>

\* Of the objects a foreign key may refer to, "r1" has a row.
KnownParents == [r \in {"r1"} |-> 1]

Nothing == [n \in {} |-> 0]

-----------------------------------------------------------------------------
\* Queries over three tables: joins, aliases, subqueries in each clause and in one
\* another, compound selects, common table expressions, UPDATE and DELETE.
Tab(id, alias) == [k |-> "table", id |-> id \o alias, name |-> id, alias |-> alias]
Col(s) == [k |-> "col", of |-> s, name |-> "x"]
Eq(x, y) == [k |-> "expr", operands |-> <<x, y>>]
Fn(q) == [k |-> "fn", operands |-> <<q>>]
Val(v) == [k |-> "val", value |-> v]
As(n, l) == [k |-> "named", node |-> n, name |-> l]
A == Tab("a", "")
B == Tab("b", "")
C == Tab("c", "")
Sel(id, alias, cols, from, where) ==
    [k |-> "select", id |-> id, alias |-> alias, columns |-> cols, from |-> from, where |-> where,
     order |-> <<>>, ctes |-> <<>>, op |-> "", limit |-> 0]
Comp(id, op, l, r) ==
    [k |-> "compound", id |-> id, alias |-> "", lhs |-> l, rhs |-> r, op |-> op, order |-> <<Col(B)>>,
     ctes |-> <<>>, limit |-> 0]
Inner(t, id, where) == Sel(id, "", <<Col(t)>>, <<t>>, where)

\* What a column of s may be compared with.
Operands(s) ==
    LET first == Inner(B, "i", <<Eq(Col(B), Col(s))>>)
        one == {first, Inner(Tab("a", "y"), "i", <<Eq(Col(Tab("a", "y")), Col(s))>>)}
        two == {Inner(B, "i", <<Fn(Inner(C, "j", <<Eq(Col(C), Col(s)), Eq(Col(B), Val("v"))>>))>>)}
        three == {Comp("l", "UNION", first, x) : x \in two}
    IN  one \cup two \cup {Comp("k", op, first, r) : op \in {"UNION", "EXCEPT"}, r \in one \cup three}
Sub(alias) == Sel("s", alias, <<Col(B)>>, <<B>>, <<Eq(Col(B), Val("w"))>>)
Cte == [k |-> "cte", id |-> "q", alias |-> "q", query |-> Sub("")]
Sources ==
    {<<A, B>>, <<A, Tab("a", "x")>>, <<A, Sub("")>>, <<Sub("s"), A>>, <<Cte, A>>, <<Tab("a", "x"), Cte>>,
     <<A, Comp("k2", "UNION", Inner(B, "m", <<>>), Inner(C, "n", <<>>))>>}
Selects(p) ==
    {[Sel("r", "", q[1], f, q[2]) EXCEPT !.ctes = IF Cte \in ToSet(p) THEN <<Cte>> ELSE <<>>,
                                         !.order = <<Col(p[1])>>] :
        q \in {<<<<As(i, "l"), Val("u")>>, <<>>>> : i \in Operands(p[1]) \cup Operands(p[2])}
              \cup {<<<<Col(p[2]), As(Col(p[1]), "l")>>, <<Eq(Col(p[1]), i)>>>> : i \in Operands(p[2])},
        f \in {p, <<[k |-> "join", lhs |-> p[1], rhs |-> p[2], on |-> Eq(Col(p[1]), Col(p[2]))]>>}}
Changes ==
    {[k |-> k, table |-> A, ctes |-> <<>>, set |-> q[1], from |-> f, where |-> q[2]] :
        k \in {"update", "delete"}, f \in {<<>>, <<B>>},
        q \in {<<<<>>, <<Eq(Col(A), i)>>>> : i \in Operands(A)} \cup {<<<<i>>, <<>>>> : i \in Operands(A)}}

Scopes == INSTANCE SqlScopes WITH
    query <- s1, csq <- s2, written <- s3,
    Queries <- UNION {Selects(p) : p \in Sources} \cup Changes,
    Settings <- {"NEVER", "ALWAYS", "GROUPED", "UNNESTED"}

-----------------------------------------------------------------------------
\* Compound selects up to three levels deep, with limits, of bags of three rows.
Leaf(bag, most) == [op |-> "", rows |-> bag, limit |-> most]
Leaves == {Leaf(r, n) : r \in {<<1, 0>>, <<2, 1>>, <<0, 1>>}, n \in {0, 1}}
Whole == {Leaf(r, 0) : r \in {<<2, 1>>, <<0, 1>>}}
Combined(left, right, limits) ==
    {[op |-> op, lhs |-> l, rhs |-> r, limit |-> n] :
        op \in {"UNION", "UNION ALL", "INTERSECT", "EXCEPT"}, l \in left, r \in right, n \in limits}
Pairs == Combined(Whole, Whole, {0, 1})
Compounds ==
    Combined(Leaves, Leaves, {0, 1}) \cup Combined(Pairs, Leaves, {0}) \cup Combined(Leaves, Pairs, {0})
    \cup Combined(Pairs, Pairs, {0}) \cup Combined(Whole, Combined(Pairs, Whole, {0}), {0})

Compound == INSTANCE CompoundSelect

\* A program combines two queries, and the result with another.
Combine ==
    /\ s2 = "" /\ s1' \in Compounds
    /\ s2' \in {"NEVER", "ALWAYS", "GROUPED"} /\ s3' \in BOOLEAN

-----------------------------------------------------------------------------
\* Four fields, of which one has another column name, two may be NULL, two are
\* unique, and two have defaults; every conflict clause.
Clause(action, target, preserve, update, where) ==
    [action |-> action, target |-> target, preserve |-> preserve, update |-> update, where |-> where]
Clauses ==
    {Clause("none", {}, {}, Nothing, {}), Clause("ignore", {}, {}, Nothing, {}),
     Clause("replace", {}, {}, Nothing, {}), Clause("nothing", {"a"}, {}, Nothing, {}),
     Clause("", {"a"}, {"c"}, [d |-> 8], {}), Clause("update", {"a"}, {"b", "c"}, Nothing, {7}),
     Clause("update", {}, {"c"}, [d |-> 9], {})}
Inserted == {[a |-> 1], [a |-> 1, c |-> 5], [a |-> 2, c_col |-> 5], [b |-> 3]}
InsertStatement(kind, dicts, given, columns, clause) ==
    [kind |-> kind, dicts |-> dicts, rows |-> given, columns |-> columns, conflict |-> clause]
Plain == Clause("none", {}, {}, Nothing, {})
Dictionaries ==
    {InsertStatement("insert", TRUE, <<r>>, <<>>, c) : r \in Inserted, c \in Clauses}
    \cup {InsertStatement("many", TRUE, <<r, q>>, <<>>, Plain) : r \in Inserted, q \in {[a |-> 2, c_col |-> 5], [b |-> 3]}}
    \cup {InsertStatement("many", TRUE, <<r, [a |-> 2, c |-> 6, d |-> 8]>>, <<"c", "a">>, c) :
             r \in {[a |-> 1], [b |-> 3]}, c \in Clauses}
    \cup {InsertStatement("many", TRUE, <<>>, <<>>, Plain)}
Tuples ==
    {InsertStatement("many", FALSE, <<<<5, 1>>, r>>, <<"c", "a">>, c) : r \in {<<5, 2>>, <<6, 2, 9>>}, c \in Clauses}
    \cup {InsertStatement("query", FALSE, <<<<1, 9>>, <<3, 9>>>>, <<"a", "d">>, c) : c \in Clauses}

Insert == INSTANCE InsertRows WITH
    table <- s1, calls <- s2, did <- s3, count <- s4,
    Fields <- <<"a", "b", "c", "d">>, Nullable <- {"b", "c"}, Unique <- {"a", "c"},
    ColumnOf <- [f \in {"a", "b", "c", "d"} |-> IF f = "c" THEN "c_col" ELSE f],
    Statements <- <<Dictionaries, Tuples>>, Constants <- [d |-> 7], Callables <- {"b"}, Tested <- "d",
    Backends <- {"sqlite", "postgres", "mysql"}, MaxStatements <- 2

-----------------------------------------------------------------------------
\* Users, their tweets with an author and an editor, and notes on tweets.
Person(i, n) == [id |-> i, name |-> n]
Post(i, n, author, editor) == [id |-> i, name |-> n, author |-> author, editor |-> editor]
Cond(path, value) == [path |-> path, value |-> value]
Dq(conds, negated) == [conds |-> conds, negated |-> negated]
Conds ==
    {Cond(<<"name">>, 1), Cond(<<"name">>, 0), Cond(<<"author", "name">>, 1), Cond(<<"editor", "name">>, 0),
     Cond(<<"ua", "name">>, 1), Cond(<<"tweet", "author", "name">>, 2), Cond(<<"tweets", "name">>, 1),
     Cond(<<"tweets", "notes", "name">>, 1), Cond(<<"tweet", "name">>, 1), Cond(<<"author">>, 1)}
Filters ==
    {[op |-> "and", dqs |-> <<Dq(<<c>>, FALSE)>>] : c \in Conds}
    \cup {[op |-> "or", dqs |-> <<Dq(<<c>>, FALSE), Dq(<<d>>, FALSE)>>] :
             c \in {Cond(<<"author", "name">>, 1), Cond(<<"tweets", "name">>, 1)},
             d \in {Cond(<<"name">>, 1), Cond(<<"editor", "name">>, 1), Cond(<<"tweets", "notes", "name">>, 1)}}
    \cup {[op |-> "and", dqs |-> <<Dq(<<Cond(<<"author", "name">>, 1), d>>, n)>>] :
             d \in {Cond(<<"editor", "name">>, 1), Cond(<<"ua", "name">>, 1)}, n \in BOOLEAN}

Filtered == INSTANCE ModelFilter WITH
    root <- s1, from <- s2, joins <- s3, ctx <- s4, where <- s5, asked <- s6, status <- s7, steps <- s8,
    Fields <- [user |-> {"id", "name"}, tweet |-> {"id", "name"}, note |-> {"id", "name"}],
    Fks <- [user |-> Nothing, tweet |-> [author |-> "user", editor |-> "user"], note |-> [tweet |-> "tweet"]],
    Backrefs <- [user |-> [tweets |-> <<"tweet", "author">>, edited |-> <<"tweet", "editor">>],
                 tweet |-> [notes |-> <<"note", "tweet">>], note |-> Nothing],
    ModelOf <- [ua |-> "user"],
    Rows <- [user |-> {Person(1, 1), Person(2, 2)},
             tweet |-> {Post(1, 1, 1, 2), Post(2, 0, 2, 1), Post(3, 2, 2, 2), Post(4, 1, 1, 0)},
             note |-> {[id |-> 1, name |-> 1, tweet |-> 1], [id |-> 2, name |-> 2, tweet |-> 3]}],
    Roots <- {"user", "tweet", "note"},
    Joins <- {<<"tweet", "user", "author">>, <<"tweet", "user", "editor">>, <<"tweet", "user", "">>,
              <<"tweet", "ua", "editor">>, <<"note", "tweet", "">>, <<"user", "tweet", "">>},
    MaxSteps <- 2

-----------------------------------------------------------------------------
\* Queries of up to four tokens over two columns and two words.
Fts == INSTANCE FtsParser WITH
    typed <- s1, Words <- {"x", "y"}, Columns <- {"t", "b"},
    Documents <- [{"t", "b"} -> SUBSET {"x", "y"}], MaxDepth <- 1, MaxTokens <- 4

-----------------------------------------------------------------------------
\* Three models that refer to one another and to themselves, in any order of
\* definition, of which a foreign key may be deferred.
Foreign(name, to, null, deferred) == [name |-> name, to |-> to, null |-> null, deferred |-> deferred]
Class(name, fks, database) ==
    [name |-> name, fks |-> fks, dependsOn |-> <<>>, database |-> database]
Thirds ==
    {<<Foreign("x", to, n, FALSE)>> : to \in {"a", "b"}, n \in BOOLEAN}
    \cup {<<Foreign("x", "a", n, FALSE), Foreign("y", to, o, FALSE)>> :
             to \in {"a", "b", "self"}, n \in BOOLEAN, o \in BOOLEAN}
Schemas ==
    {<<Class("b", <<>>, "d1"), Class("a", <<Foreign("x", "b", n, FALSE)>>, "d1"), Class("c", fks, "d1")>> :
        n \in BOOLEAN, fks \in {t \in Thirds : t[Len(t)].to = "self" => t[Len(t)].null}}
    \cup {<<Class("a", <<Foreign("x", "c", TRUE, TRUE)>>, "d1"),
            Class("c", <<Foreign("y", "a", FALSE, FALSE), Foreign("z", "c", TRUE, TRUE)>>, "d1"),
            Class("b", <<Foreign("x", "a", FALSE, FALSE)>>, "d2")>>}
Graph == INSTANCE ModelGraph WITH
    pending <- s1, refs <- s2, backrefs <- s3, dependsOn <- s4, unresolved <- s5, created <- s6,
    rows <- s7, job <- s8, home <- s9, bound <- s10, contexts <- s11,
    Databases <- {"d1", "d2"}, Rows <- 3, Bindings <- 2

-----------------------------------------------------------------------------
\* A chain of users and a pair of tweets that reply to each other or to themselves.
UserObject(i, boss) == [model |-> "user", data |-> [n \in {"id", "boss"} |-> IF n = "id" THEN i ELSE boss]]
TweetObject(i, author, reply) ==
    [model |-> "tweet",
     data |-> [n \in {"id", "author", "reply"} |-> CASE n = "id" -> i [] n = "author" -> author
                                                     [] n = "reply" -> reply]]
Dicts == INSTANCE ModelDicts WITH
    stored <- s1, options <- s2, root <- s3, dict <- s4, instance <- s5,
    Models <- {"user", "tweet"},
    FieldsOf <- [m \in {"user", "tweet"} |-> IF m = "user" THEN {"id", "boss"} ELSE {"id", "author", "reply"}],
    Fks <- {"boss", "author", "reply"},
    ModelOf <- [k \in {"boss", "author", "reply"} |-> IF k = "boss" THEN "user" ELSE "tweet"],
    RelOf <- [k \in {"boss", "author", "reply"} |-> IF k = "reply" THEN "tweet" ELSE "user"],
    None <- NoObject, Hidden <- {}, Depths <- {-1, 1, 2}, Excludes <- {{}, {"reply"}}, Onlys <- {{}, {"id", "author"}},
    Graphs <- {<<UserObject(1, u), UserObject(2, v), TweetObject(3, x, r), TweetObject(4, y, q)>> :
                  u \in {NoObject, 2}, v \in {NoObject, 1, 2}, x \in {1, 2}, r \in {NoObject, 4}, y \in {1, 2}, q \in {NoObject, 3, 4}}

\* Two sides, and a through model with another foreign key to one of them.
Through(key, model) == [key |-> key, rel |-> model]
Related == [s \in {"course", "student"} |-> IF s = "course" THEN {"c1", "c2"} ELSE {"s1", "s2"}]
ThroughModels ==
    {<<Through("student", "student"), Through("course", "course")>>,
     <<Through("course", "course"), Through("by", "student"), Through("student", "student")>>}

\* Four flags, buffers of bits, and instants around the epoch.
Values == INSTANCE FieldValues WITH
    row <- s1, copy <- s2, meant <- s3, handle <- s4, stamp <- s5, calls <- s6,
    Clients <- {"p", "q"}, Declared <- <<{}, {}, {3}, {}>>, Indexes <- {1, 2, 5},
    Buffers <- {[size |-> 3, bits |-> {1, 5}]}, ByteBits <- 2, Micros <- 20, Resolutions <- {1, 2, 10},
    Instants <- -45..45, Ticks <- -25..25, MaxCalls <- 3

\* Groups of up to five numbers, and documents of up to two levels that grow.
Functions == INSTANCE SqliteFunctions WITH
    given <- s1, doc <- s2, before <- s3,
    Numbers <- {0, 1, 3, 7}, MaxGroup <- 5, None <- NoObject, Atoms <- {"a", "b"}, JsonKeys <- <<"a", "k">>, MaxSize <- 1

\* Receivers of a class and of its base, which connect and disconnect one another.
Sent == INSTANCE Signals WITH
    receivers <- s1, list <- s2, sends <- s3, report <- s4, calls <- s5,
    Names <- {"f", "g"}, Classes <- {"sub", "base"},
    Bases <- [c \in {"sub", "base"} |-> IF c = "sub" THEN {"sub", "base"} ELSE {c}],
    MaxDepth <- 2, MaxCalls <- 4

-----------------------------------------------------------------------------
\* What a component of fewer variables makes of the others.
Unused9 == s9 = 0 /\ s10 = 0 /\ s11 = 0
Unused8 == s8 = 0 /\ Unused9
Unused7 == s7 = 0 /\ Unused8
Unused6 == s6 = 0 /\ Unused7
Unused5 == s5 = 0 /\ Unused6
Unused4 == s4 = 0 /\ Unused5
Unused2 == s2 = 0 /\ s3 = 0 /\ Unused4

\* The variables of the components this module extends.
own == <<vars, instanceVars, kvVars, manyVars>>

ModelsInit ==
    /\ part \in Parts
    /\ Init /\ (part # "cache" => bad = {})
    /\ InstanceInit
    /\ StoreInit /\ (part # "store" => backend = "sqlite")
    /\ ManyInit /\ (part # "many" => unique /\ Len(through) = 2)
    /\ \/ part = "scopes" /\ Scopes!Init /\ Unused4
       \/ part = "compound" /\ s1 = 0 /\ s2 = "" /\ s3 = 0 /\ Unused4
       \/ part = "insert" /\ Insert!Init /\ Unused5
       \/ part = "filter" /\ Filtered!Init /\ Unused9
       \/ part = "fts" /\ Fts!Init /\ Unused2
       \/ part = "graph" /\ Graph!Init
       \/ part = "dicts" /\ Dicts!Init /\ Unused6
       \/ part = "values" /\ Values!Init /\ Unused7
       \/ part = "functions" /\ Functions!Init /\ Unused4
       \/ part = "signals" /\ Sent!Init /\ Unused6
       \/ part \in {"instance", "many", "store", "cache"} /\ s1 = 0 /\ Unused2

ScopeStep == part = "scopes" /\ Scopes!Next /\ UNCHANGED <<own, part, s4, s5, s6, s7, s8, s9, s10, s11>>
CombineStep == part = "compound" /\ Combine /\ UNCHANGED <<own, part, s4, s5, s6, s7, s8, s9, s10, s11>>
InsertStep == part = "insert" /\ Insert!Next /\ UNCHANGED <<own, part, s5, s6, s7, s8, s9, s10, s11>>
FilterStep == part = "filter" /\ Filtered!Next /\ UNCHANGED <<own, part, s9, s10, s11>>
FtsStep == part = "fts" /\ Fts!Next /\ UNCHANGED <<own, part, s2, s3, s4, s5, s6, s7, s8, s9, s10, s11>>
InstanceStep == part = "instance" /\ InstanceNext /\ UNCHANGED <<part, vars, kvVars, manyVars, shared>>
GraphStep == part = "graph" /\ Graph!Next /\ UNCHANGED <<own, part>>
DictStep == part = "dicts" /\ Dicts!Next /\ UNCHANGED <<own, part, s6, s7, s8, s9, s10, s11>>
ManyStep == part = "many" /\ ManyNext /\ UNCHANGED <<part, vars, instanceVars, kvVars, shared>>
ValueStep == part = "values" /\ Values!Next /\ UNCHANGED <<own, part, s7, s8, s9, s10, s11>>
FunctionStep == part = "functions" /\ Functions!Next /\ UNCHANGED <<own, part, s4, s5, s6, s7, s8, s9, s10, s11>>
SendStep == part = "signals" /\ Sent!Next /\ UNCHANGED <<own, part, s6, s7, s8, s9, s10, s11>>
StoreStep == part = "store" /\ StoreNext /\ UNCHANGED <<part, vars, instanceVars, manyVars, shared>>
CacheStep == part = "cache" /\ Next /\ UNCHANGED <<part, instanceVars, kvVars, manyVars, shared>>

ModelsNext ==
    \/ ScopeStep \/ CombineStep \/ InsertStep \/ FilterStep
    \/ FtsStep \/ InstanceStep \/ GraphStep \/ DictStep
    \/ ManyStep \/ ValueStep \/ FunctionStep \/ SendStep
    \/ StoreStep \/ CacheStep

ModelsSpec == ModelsInit /\ [][ModelsNext]_<<own, part, shared>>

-----------------------------------------------------------------------------
\* The properties of the components, by what they are about.

\* The statement that is written means what the query says: names resolve to what
\* they were made from, compound selects keep their grouping, and conditions on
\* related models are about the rows their path leads to; a full-text query finds
\* what its words say, and an aggregate is computed from the whole group.
QueriesMean ==
    /\ part = "scopes" => Scopes!AliasesResolve
    /\ part = "compound" => s2 = "" \/ Compound!MeaningKept(s2, s3, s1)
    /\ part = "filter" => Filtered!FilterFollowsPaths
    /\ part = "fts" => Fts!TypedMeans
    /\ part = "functions" => Functions!FunctionsRight

\* What is stored is what was given, with the defaults for the rest, and an object
\* that became a dictionary is the same when it is made of the dictionary again.
ValuesGiven ==
    /\ part = "insert" => Insert!InsertedAsGiven
    /\ part = "values" => Values!FieldsKeepValues
    /\ part = "dicts" => Dicts!DictsRoundTrip

\* Models know one another, delete what depends on them, and stay where they are
\* bound; and each receiver of their signals is called once.
RelationsSound ==
    /\ part = "graph" => Graph!GraphSound /\ Graph!DeletedExactly /\ Graph!BindRestored
    /\ part = "signals" => Sent!HeardOnce

\* delete_instance(recursive=True) leaves rows alone that do not depend on the object.
SparesOthers == part = "graph" => Graph!SparesOthers
=============================================================================
