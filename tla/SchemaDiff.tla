------------------------------ MODULE SchemaDiff -------------------------------
(***************************************************************************)
(* playhouse/schema_diff.py and template() of playhouse/migrations.py: the *)
(* schema of the database is compared with the models, and the differences *)
(* become the up() and down() of a migration file.                         *)
(*                                                                         *)
(* A model is a record: table, fields (a sequence of records col, fk,      *)
(* index) and indexes (a set of records cols, unique, name; name is        *)
(* <<>> but for a partial one).  A column name is a sequence of words, as  *)
(* an index is named after its columns, joined by underscores.             *)
(***************************************************************************)
EXTENDS Integers, Sequences, FiniteSets, SequencesExt

CONSTANTS
    Databases,    \* schemas a program starts from: table -> record of cols, indexes, fks
    Versions,     \* sets of models, the versions a program goes through
    MaxSteps

VARIABLES db, models, diff, file, before, phase, steps

diffVars == <<db, models, diff, file, before, phase, steps>>

Cols(model) == {model.fields[i].col : i \in DOMAIN model.fields}
Field(model, col) == model.fields[CHOOSE i \in DOMAIN model.fields : model.fields[i].col = col]

\* make_index_name(), ModelIndex._generate_name_from_fields()
IndexName(table, cols) == <<table>> \o FlattenSeq(cols)

\* Metadata.fields_to_index(), _model_indexes()
Plain(model) ==
    {[cols |-> <<f.col>>, unique |-> f.index = "unique"] :
        f \in {g \in ToSet(model.fields) : g.index \in {"index", "unique"}}}
    \cup {[cols |-> i.cols, unique |-> i.unique] : i \in {j \in model.indexes : j.name = <<>>}}
Partial(model) == {i.name : i \in {j \in model.indexes : j.name # <<>>}}

\* sort_models(): the tables a model refers to come before it.
Sorted(set) ==
    CHOOSE order \in SetToSeqs(set) :
        \A i, j \in DOMAIN order : i < j =>
            \A f \in ToSet(order[i].fields) : f.fk = order[j].table => f.fk = order[i].table

-----------------------------------------------------------------------------
\* diff_models(): what fails to pair is a change.  An index of the database pairs
\* with the declaration of its name, whatever the database reports of it, or else a
\* plain one with one declaration of its columns.
Names(table) == {i.name : i \in db[table].indexes}
Signature(i) == [cols |-> i.cols, unique |-> i.unique]
ByName(model) == {i \in db[model.table].indexes : i.name \in Partial(model)}
ByColumns(model) ==
    LET plain == {i \in db[model.table].indexes \ ByName(model) : ~i.partial}
    IN  {i \in plain : /\ Signature(i) \in Plain(model)
                       /\ i = CHOOSE j \in plain : Signature(j) = Signature(i)}
AddedIndexes(model) ==
    {[cols |-> p.cols, unique |-> p.unique, name |-> <<>>] :
        p \in Plain(model) \ {Signature(i) : i \in ByColumns(model)}}
    \cup {[cols |-> <<>>, unique |-> FALSE, name |-> n] : n \in Partial(model) \ Names(model.table)}

DiffModels(set) ==
    LET known == {x \in set : x.table \in DOMAIN db}
        of(S(_)) == UNION {{<<x, y>> : y \in S(x)} : x \in known}
    IN [create |-> set \ known,
        addColumns |-> of(LAMBDA x : Cols(x) \ db[x.table].cols),
        dropColumns |-> of(LAMBDA x : db[x.table].cols \ Cols(x)),
        addIndexes |-> of(AddedIndexes),
        dropIndexes |-> of(LAMBDA x : db[x.table].indexes \ (ByName(x) \cup ByColumns(x)))]
NoDiff == [create |-> {}, addColumns |-> {}, dropColumns |-> {}, addIndexes |-> {}, dropIndexes |-> {}]

-----------------------------------------------------------------------------
\* template(): each change as steps up and steps down; down() runs them backwards.
Step(op, table, arg) == [op |-> op, table |-> table, arg |-> arg]

CreatePlan(model) ==
    [up |-> <<Step("create", model.table, model)>>, down |-> <<Step("drop", model.table, {})>>,
     todo |-> Partial(model)]

DropIndexPlan(d, model, i) ==
    LET lost == i.partial \/ \E c \in ToSet(i.cols) : <<model, c>> \in d.dropColumns
    IN [up |-> <<Step("drop index", model.table, i.name)>>,
        down |-> IF lost THEN <<>>
                 ELSE <<Step("add index", model.table, [cols |-> i.cols, unique |-> i.unique])>>,
        todo |-> IF lost THEN {<<"lost", i.name>>} ELSE {}]

AddColumnPlan(model, col) ==
    [up |-> <<Step("add column", model.table, Field(model, col))>>,
     down |-> <<Step("drop column", model.table, col)>>, todo |-> {}]

\* add_column() makes the index of a field that has one.
AutoIndexed(d, model, i) ==
    \E c \in Cols(model) : /\ <<model, c>> \in d.addColumns /\ i.cols = <<c>>
                           /\ Field(model, c).index # "" /\ i.unique = (Field(model, c).index = "unique")

AddIndexPlan(d, model, i) ==
    IF i.name # <<>> THEN [up |-> <<>>, down |-> <<>>, todo |-> {i.name}]
    ELSE [up |-> IF AutoIndexed(d, model, i) THEN <<>>
                 ELSE <<Step("add index", model.table, [cols |-> i.cols, unique |-> i.unique])>>,
          down |-> <<Step("drop index", model.table, IndexName(model.table, i.cols))>>, todo |-> {}]

DropColumnPlan(model, col) ==
    [up |-> <<Step("drop column", model.table, col)>>, down |-> <<>>, todo |-> {<<"lost", col>>}]

Plan(d) ==
    LET each(S, P(_)) == LET s == SetToSeq(S) IN [i \in DOMAIN s |-> P(s[i])]
        create == Sorted(d.create)
    IN [i \in DOMAIN create |-> CreatePlan(create[i])]
       \o each(d.dropIndexes, LAMBDA x : DropIndexPlan(d, x[1], x[2]))
       \o each(d.addColumns, LAMBDA x : AddColumnPlan(x[1], x[2]))
       \o each(d.addIndexes, LAMBDA x : AddIndexPlan(d, x[1], x[2]))
       \o each(d.dropColumns, LAMBDA x : DropColumnPlan(x[1], x[2]))

Template(d) ==
    LET plan == Plan(d)
    IN [up |-> FlattenSeq([i \in DOMAIN plan |-> plan[i].up]),
        down |-> FlattenSeq(Reverse([i \in DOMAIN plan |-> plan[i].down])),
        todo |-> UNION {p.todo : p \in ToSet(plan)}]

-----------------------------------------------------------------------------
\* The statements of the file: the migrator's operations, each with its guard in
\* the database.  CREATE INDEX of create_tables() and of add_index() says IF NOT
\* EXISTS only in the first.
Failed == "failed"
PlainIndex(table, p) == [name |-> IndexName(table, p.cols), cols |-> p.cols, unique |-> p.unique, partial |-> FALSE]
NewTable(model) ==
    LET names == {IndexName(model.table, p.cols) : p \in Plain(model)}
    IN [cols |-> Cols(model),
        indexes |-> {PlainIndex(model.table, CHOOSE p \in Plain(model) : IndexName(model.table, p.cols) = n) : n \in names},
        fks |-> {<<f.col, f.fk>> : f \in {g \in ToSet(model.fields) : g.fk \notin {"", model.table}}}]

WithIndex(t, table, p) ==
    [t EXCEPT !.indexes = @ \cup {PlainIndex(table, p)}]
Fits(s, schema) ==
    CASE s.op = "create" -> ToSet([i \in DOMAIN s.arg.fields |-> s.arg.fields[i].fk]) \subseteq DOMAIN schema \cup {"", s.table}
      [] s.op = "drop" -> s.table \in DOMAIN schema /\ \A t \in DOMAIN schema : \A fk \in schema[t].fks : fk[2] # s.table
      [] s.op = "add index" -> /\ ToSet(s.arg.cols) \subseteq schema[s.table].cols
                               /\ IndexName(s.table, s.arg.cols) \notin {i.name : i \in schema[s.table].indexes}
      [] s.op = "drop index" -> s.arg \in {i.name : i \in schema[s.table].indexes}
      [] s.op = "add column" -> s.arg.col \notin schema[s.table].cols
      [] s.op = "drop column" -> /\ s.arg \in schema[s.table].cols
                                 /\ \A i \in schema[s.table].indexes : s.arg \notin ToSet(i.cols)

Changed(s, schema) ==
    LET t == schema[s.table]
        put(x) == [schema EXCEPT ![s.table] = x]
    IN CASE s.op = "create" -> [u \in DOMAIN schema \cup {s.table} |-> IF u = s.table THEN NewTable(s.arg) ELSE schema[u]]
         [] s.op = "drop" -> [u \in DOMAIN schema \ {s.table} |-> schema[u]]
         [] s.op = "add index" -> put(WithIndex(t, s.table, s.arg))
         [] s.op = "drop index" -> put([t EXCEPT !.indexes = {i \in @ : i.name # s.arg}])
         [] s.op = "add column" ->
                LET wider == [t EXCEPT !.cols = @ \cup {s.arg.col}, !.fks = @ \cup ({<<s.arg.col, s.arg.fk>>} \ {<<s.arg.col, "">>})]
                IN put(IF s.arg.index = "" THEN wider
                       ELSE WithIndex(wider, s.table, [cols |-> <<s.arg.col>>, unique |-> s.arg.index = "unique"]))
         [] s.op = "drop column" -> put([t EXCEPT !.cols = @ \ {s.arg}, !.fks = {fk \in @ : fk[1] # s.arg}])

Applied(statements, schema) ==
    LET step(acc, s) == IF ~acc.ok \/ ~Fits(s, acc.schema) THEN [acc EXCEPT !.ok = FALSE]
                        ELSE [acc EXCEPT !.schema = Changed(s, @)]
    IN FoldLeft(step, [ok |-> TRUE, schema |-> schema], statements)

-----------------------------------------------------------------------------
Init ==
    /\ db \in Databases /\ models = {} /\ diff = NoDiff /\ before = db /\ phase = "idle" /\ steps = 0
    /\ file = Template(NoDiff)

\* _cmd_generate(), with the models the program has now.
Generate(set) ==
    /\ phase \in {"idle", "applied"} /\ steps < MaxSteps
    /\ models' = set /\ diff' = DiffModels(set)
    /\ diff' # NoDiff
    /\ file' = Template(diff')
    /\ phase' = "generated" /\ steps' = steps + 1
    /\ UNCHANGED <<db, before>>

\* Runner.up() and Runner.down(), in a transaction: a statement that fails takes
\* the others with it.
Up ==
    LET done == Applied(file.up, db) IN
    /\ phase = "generated"
    /\ before' = db
    /\ db' = IF done.ok THEN done.schema ELSE db
    /\ phase' = IF done.ok THEN "applied" ELSE Failed
    /\ UNCHANGED <<models, diff, file, steps>>

Down ==
    LET done == Applied(file.down, db) IN
    /\ phase = "applied"
    /\ db' = IF done.ok THEN done.schema ELSE db
    /\ phase' = IF done.ok THEN "reverted" ELSE Failed
    /\ UNCHANGED <<models, diff, file, before, steps>>

\* The file is deleted and another one made.
Discard == phase = "reverted" /\ phase' = "idle" /\ UNCHANGED <<db, models, diff, file, before, steps>>

Next == (\E set \in Versions : Generate(set)) \/ Up \/ Down \/ Discard

Spec == Init /\ [][Next]_diffVars

-----------------------------------------------------------------------------
\* A schema without the names of its plain indexes, and without what a TODO of
\* the file leaves to the programmer.
Shape(schema, todo) ==
    [t \in DOMAIN schema |->
        [cols |-> {c \in schema[t].cols : <<"lost", c>> \notin todo},
         indexes |-> {IF i.partial THEN [name |-> i.name, cols |-> <<>>, unique |-> FALSE]
                      ELSE [name |-> <<>>, cols |-> i.cols, unique |-> i.unique] :
                         i \in {j \in schema[t].indexes : j.name \notin todo /\ <<"lost", j.name>> \notin todo}}]]

\* No two indexes of a table come to the same name: a_b and (a, b) do, and so do
\* two indexes on the same columns.
OwnNames(table, indexes) == \A p, q \in indexes : p # q => IndexName(table, p.cols) # IndexName(table, q.cols)
NamesDiffer ==
    /\ \A x \in models : OwnNames(x.table, Plain(x))
    /\ \A t \in DOMAIN before : OwnNames(t, {i \in before[t].indexes : ~i.partial})

\* A generated migration runs, and after it the models and the database differ in
\* nothing but what its TODO comments name; its down() runs too, and leaves the
\* schema there was, but for what the comments name as lost.
GeneratedMigrates ==
    NamesDiffer =>
        /\ phase # Failed
        /\ phase = "applied" =>
             LET left == DiffModels(models)
             IN /\ [left EXCEPT !.addIndexes = {}] = NoDiff
                /\ \A x \in left.addIndexes : x[2].name \in file.todo
        /\ phase = "reverted" => Shape(db, file.todo) = Shape(before, file.todo)
=============================================================================
