------------------------------ MODULE Reflection -------------------------------
(***************************************************************************)
(* playhouse/reflection.py and pwiz.py: the catalog of a database is read, *)
(* each table becomes a model class (generate_models) or a class in a file *)
(* (pwiz), and the models can create the tables anew.                      *)
(*                                                                         *)
(* A table is a record: columns (a sequence of records name, type, null,   *)
(* pk, auto), fks (a set of records column, dest, to; to is "" when the    *)
(* key of dest is meant) and indexes (a set of records cols, unique,       *)
(* usable; neither an expression nor a partial index is usable).           *)
(***************************************************************************)
EXTENDS Integers, Sequences, FiniteSets, SequencesExt

CONSTANTS
    Schemas,     \* databases a program may reflect: table -> record
    Backends,    \* a subset of {"sqlite", "postgres", "mysql"}
    Plain,       \* the attribute a column's name becomes: snake case, lower case, no punctuation
    Lower,       \* a name in lower case
    Base         \* a name without the "_id" it ends in

VARIABLES tables, asked, models, printed, origin

reflectionVars == <<tables, asked, models, printed, origin>>

Nothing == [t \in {} |-> {}]
NamesOf(columns) == {columns[i].name : i \in DOMAIN columns}
Keys(t) == SelectSeq(t.columns, LAMBDA c : c.pk)

-----------------------------------------------------------------------------
\* The catalog: get_indexes() of each database.  SQLite keeps no index for an
\* INTEGER PRIMARY KEY; MySQL and Postgresql list the index of every key.
SqliteIndexes(t) ==
    IF Keys(t) = <<>> \/ (Len(Keys(t)) = 1 /\ Keys(t)[1].type = "int") THEN t.indexes
    ELSE t.indexes \cup {[cols |-> [i \in DOMAIN Keys(t) |-> Keys(t)[i].name],
                          unique |-> TRUE, usable |-> TRUE]}
ServerIndexes(t) ==
    IF Keys(t) = <<>> THEN t.indexes
    ELSE t.indexes \cup {[cols |-> [i \in DOMAIN Keys(t) |-> Keys(t)[i].name],
                          unique |-> TRUE, usable |-> TRUE]}
IndexesOf(t, backend) == IF backend = "sqlite" THEN SqliteIndexes(t) ELSE ServerIndexes(t)

\* get_columns(): SQLite's single INTEGER key counts by itself; elsewhere a
\* sequence, an identity or AUTO_INCREMENT must be declared.
Identity(t, c, backend) ==
    IF backend = "sqlite" THEN c.pk /\ Len(Keys(t)) = 1 /\ c.type = "int" ELSE c.auto

\* Metadata.get_columns(): one Column per column, AutoField for an identity.
ColumnsOf(t, backend) ==
    [i \in DOMAIN t.columns |->
        LET c == t.columns[i]
        IN  [column |-> c.name, null |-> c.null, pk |-> c.pk,
             type |-> IF c.pk /\ Len(Keys(t)) = 1 /\ Identity(t, c, backend) /\ c.type = "int"
                      THEN "auto" ELSE c.type]]

-----------------------------------------------------------------------------
\* Introspector.make_column_name(), and the rule for "parent" beside "parent_id".
FkColumns(t) == {k.column : k \in t.fks}
AttributeOf(t, name, literal) ==
    LET made == CASE literal -> name
                  [] name \in FkColumns(t) -> Base[Plain[name]]
                  [] OTHER -> Plain[name]
    IN  IF Base[Lower[name]] # Lower[name] /\ made \in {Lower[n] : n \in NamesOf(t.columns)}
        THEN Lower[name] ELSE made

\* introspect(): with table_names the tables they refer to are taken along,
\* and those these refer to.
RECURSIVE Followed(_)
Followed(names) ==
    LET more == UNION {{k.dest : k \in tables[n].fks} : n \in names} \cap DOMAIN tables
    IN  IF more \subseteq names THEN names ELSE Followed(names \cup more)
Introspected(names) == IF names = {} THEN DOMAIN tables ELSE Followed(names)

\* The variant that takes partial indexes for indexes of the table.
UsableAll(t, backend) ==
    {i \in IndexesOf(t, backend) : ToSet(i.cols) \subseteq NamesOf(t.columns)}
\* _is_index_usable(), column_indexes(), multi_column_indexes()
Usable(t, backend) ==
    {i \in IndexesOf(t, backend) : i.usable /\ ToSet(i.cols) \subseteq NamesOf(t.columns)}
IndexOf(t, column, backend) ==
    LET found == {i \in Usable(t, backend) : i.cols = <<column>>}
    IN  CASE \E i \in found : i.unique -> "unique" [] found # {} -> "index" [] OTHER -> "none"
MultiColumn(t, literal, backend) ==
    {[fields |-> [n \in DOMAIN i.cols |-> AttributeOf(t, i.cols[n], literal)], unique |-> i.unique] :
        i \in {u \in Usable(t, backend) : Len(u.cols) > 1}}

\* set_foreign_key(): the last constraint read on a column wins; dest is the
\* column's attribute, None when the constraint names no column.
ForeignKeyOf(t, column) == CHOOSE k \in t.fks : k.column = column
ToField(k, literal) ==
    IF k.to = "" \/ k.dest \notin DOMAIN tables THEN ""
    ELSE AttributeOf(tables[k.dest], k.to, literal)

\* One field of a generated model, by what its class and parameters declare.
FieldOf(name, t, c, composite, literal, backend, ready) ==
    LET fk == c.column \in FkColumns(t)
        key == ForeignKeyOf(t, c.column)
        single == c.pk /\ ~composite
    IN  [column |-> c.column, null |-> c.null,
         type |-> CASE fk -> "fk" [] c.pk /\ composite /\ c.type = "auto" -> "int" [] OTHER -> c.type,
         key |-> single,
         model |-> CASE ~fk -> "" [] key.dest = name -> "self" [] OTHER -> key.dest,
         field |-> IF fk THEN ToField(key, literal) ELSE "",
         deferred |-> fk /\ key.dest # name /\ key.dest \notin ready,
         index |-> IF c.pk \/ c.type = "auto" THEN "none" ELSE IndexOf(t, c.column, backend)]

\* The key of a generated model: Meta.primary_key is False, a CompositeKey of
\* attributes, or left to the one field that is the key.  The names a composite
\* key is made of are compared with the names of the columns.
CompositeNames(t, literal) ==
    LET attributes == {AttributeOf(t, Keys(t)[i].name, literal) : i \in DOMAIN Keys(t)}
        chosen == IF Keys(t) = <<>> THEN NamesOf(t.columns) ELSE attributes
        kept == SelectSeq(t.columns, LAMBDA c : c.name \in chosen)
    IN  [i \in DOMAIN kept |-> AttributeOf(t, kept[i].name, literal)]
IsComposite(t) ==
    Len(Keys(t)) > 1 \/ (Keys(t) = <<>> /\ "id" \in NamesOf(t.columns) /\ Len(t.columns) > 1)

\* generate_models(): attributes of one name replace one another, the last stays.
ModelOf(name, literal, backend, ready) ==
    LET t == tables[name]
        columns == ColumnsOf(t, backend)
        attribute(i) == AttributeOf(t, columns[i].column, literal)
        last(a) == CHOOSE i \in DOMAIN columns :
                       attribute(i) = a /\ \A j \in DOMAIN columns : attribute(j) = a => j <= i
    IN  [fields |-> [a \in {attribute(i) : i \in DOMAIN columns} |->
                        FieldOf(name, t, columns[last(a)], IsComposite(t), literal, backend, ready)],
         composite |-> IF IsComposite(t) THEN CompositeNames(t, literal) ELSE <<>>,
         indexes |-> MultiColumn(t, literal, backend)]

\* _create_model(): the models a table refers to are made first, but for one
\* that is already being made: a field that refers to it is deferred.
RECURSIVE CreateModel(_, _, _, _, _)
CreateModel(name, pending, made, literal, backend) ==
    LET dests == {k.dest : k \in tables[name].fks} \ {name}
        then[set \in SUBSET dests] ==
            IF set = {} THEN made
            ELSE LET d == CHOOSE x \in set : TRUE
                     done == then[set \ {d}]
                 IN  IF d \in DOMAIN done \/ d \in pending THEN done
                     ELSE CreateModel(d, pending \cup {name}, done, literal, backend)
        ready == then[dests]
        model == ModelOf(name, literal, backend, DOMAIN ready)
    IN  [n \in DOMAIN ready \cup {name} |-> IF n = name THEN model ELSE ready[n]]
GenerateModels(names, literal, backend) ==
    LET all[set \in SUBSET names] ==
            IF set = {} THEN Nothing
            ELSE LET n == CHOOSE x \in set : TRUE
                     done == all[set \ {n}]
                 IN  IF n \in DOMAIN done THEN done ELSE CreateModel(n, {}, done, literal, backend)
    IN  all[names]

\* _print_table(): <<"class", name>> for a class written, <<"cycle", dest>> for
\* the remark that it refers to one that is not.  With -t only the tables named
\* are started from, and what they refer to is written before them.
RECURSIVE PrintTable(_, _, _)
PrintTable(name, accum, file) ==
    LET dests == SetToSeq({k.dest : k \in tables[name].fks})
        step(f, dest) ==
            LET told == IF dest \in accum /\ name \notin accum
                        THEN [f EXCEPT !.lines = Append(@, <<"cycle", dest>>)] ELSE f
            IN  CASE dest \in told.seen \/ dest \in accum -> told
                  [] dest = name -> [told EXCEPT !.seen = @ \cup {dest}]
                  [] OTHER -> PrintTable(dest, accum \cup {name},
                                         [told EXCEPT !.seen = @ \cup {dest}])
        rest == FoldLeft(step, file, dests)
    IN  [lines |-> Append(rest.lines, <<"class", name>>), seen |-> rest.seen \cup {name}]
PrintModels(names, all) ==
    FoldLeft(LAMBDA f, n : IF n \in f.seen THEN f ELSE PrintTable(n, {}, f),
             [lines |-> <<>>, seen |-> {}], SetToSeq(names \cap all)).lines

-----------------------------------------------------------------------------
\* create_tables() of the generated models: what the database has afterwards.
Fields(model) == {model.fields[a] : a \in DOMAIN model.fields}
ColumnOf(model, field) == model.fields[field].column
KeyOf(model) ==
    IF model.composite # <<>> THEN {ColumnOf(model, name) : name \in ToSet(model.composite)}
    ELSE {f.column : f \in {g \in Fields(model) : g.key \/ g.type = "auto"}}
TypeOfColumn(f, t) ==
    CASE f.type = "auto" -> "int"
      [] f.type = "fk" -> (CHOOSE c \in ToSet(t.columns) : c.name = f.column).type
      [] OTHER -> f.type

\* The table a model describes, of the form the table it was made from has.
Described(name, model) ==
    LET t == origin[name]
        kept == SelectSeq(t.columns, LAMBDA c : \E f \in Fields(model) : f.column = c.name)
        of(c) == CHOOSE f \in Fields(model) : f.column = c.name
        key == KeyOf(model)
    IN  [columns |-> [i \in DOMAIN kept |->
                        LET f == of(kept[i])
                        IN  [name |-> f.column, type |-> TypeOfColumn(f, t), null |-> f.null,
                             pk |-> f.column \in key, auto |-> f.type = "auto"]],
         fks |-> {[column |-> f.column, dest |-> IF f.model = "self" THEN name ELSE f.model,
                   to |-> IF f.field = "" THEN "" ELSE ColumnOf(models[IF f.model = "self" THEN name ELSE f.model], f.field)] :
                     f \in {g \in Fields(model) : g.type = "fk"}},
         indexes |-> {[cols |-> <<f.column>>, unique |-> f.index = "unique", usable |-> TRUE] :
                        f \in {g \in Fields(model) : g.index # "none"}}
                     \cup {[cols |-> [n \in DOMAIN i.fields |-> ColumnOf(model, i.fields[n])],
                            unique |-> i.unique, usable |-> TRUE] : i \in model.indexes}]

-----------------------------------------------------------------------------
Init ==
    /\ tables \in Schemas
    /\ asked \in [backend : Backends, literal : BOOLEAN, names : {{}} \cup {{n} : n \in DOMAIN tables}]
    /\ models = Nothing
    /\ printed = <<>>
    /\ origin = tables

Generates ==
    /\ models = Nothing
    /\ models' = GenerateModels(Introspected(asked.names), asked.literal, asked.backend)
    /\ UNCHANGED <<tables, asked, printed, origin>>

Prints ==
    /\ printed = <<>>
    /\ LET all == Introspected(asked.names)
       IN  printed' = PrintModels(IF asked.names = {} THEN all ELSE asked.names, all)
    /\ UNCHANGED <<tables, asked, models, origin>>

\* The models are put to use in an empty database.
Recreates ==
    /\ models # Nothing
    /\ tables = origin
    /\ tables' = [n \in DOMAIN models |-> Described(n, models[n])]
    /\ UNCHANGED <<asked, models, printed, origin>>

Next == Generates \/ Prints \/ Recreates

Spec == Init /\ [][Next]_reflectionVars

-----------------------------------------------------------------------------
\* Names that can be told apart, keys that keep their names, a key where there
\* is a column id: the tables peewee describes.
Ordinary(t) ==
    /\ \A i, j \in DOMAIN t.columns :
         i # j => AttributeOf(t, t.columns[i].name, asked.literal)
                  # AttributeOf(t, t.columns[j].name, asked.literal)
    /\ Keys(t) = <<>> => "id" \notin NamesOf(t.columns)
    /\ Len(Keys(t)) > 1 =>
         \A i \in DOMAIN Keys(t) : AttributeOf(t, Keys(t)[i].name, asked.literal) = Keys(t)[i].name

\* Models that are generated from tables describe these tables: the tables they
\* create have the same columns, keys, indexes and references, whatever the names
\* became, in whatever order cycles of references made the classes; and in the
\* file of pwiz a class comes after those it refers to, or is remarked upon.
ReflectionFaithful ==
    /\ \A n \in DOMAIN models : LET t == origin[n] d == Described(n, models[n])
         IN  Ordinary(t) =>
             /\ d.columns = t.columns
             /\ {[column |-> k.column, dest |-> k.dest] : k \in d.fks}
                = {[column |-> k.column, dest |-> k.dest] : k \in t.fks}
             /\ \A k \in d.fks : k.to # "" => k \in t.fks
             /\ d.indexes = {i \in IndexesOf(t, asked.backend) :
                               i.usable /\ (Len(i.cols) = 1 => ~\E c \in ToSet(t.columns) :
                                                                  c.name = i.cols[1] /\ c.pk)}
    /\ models # Nothing => asked.names \subseteq DOMAIN models
    /\ \A n \in DOMAIN models : \A f \in Fields(models[n]) :
         f.model \in {"", "self"} \cup DOMAIN models
    /\ \A i \in DOMAIN printed : printed[i][1] = "class" =>
         \A k \in origin[printed[i][2]].fks :
            \/ k.dest = printed[i][2]
            \/ \E j \in 1..i : printed[j] \in {<<"class", k.dest>>, <<"cycle", k.dest>>}

\* The key of a generated model is the key of its table.
KeysReflected ==
    \A n \in DOMAIN models : Keys(origin[n]) # <<>> =>
        KeyOf(models[n]) = {Keys(origin[n])[i].name : i \in DOMAIN Keys(origin[n])}
=============================================================================
