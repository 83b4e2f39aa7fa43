------------------------------ MODULE InsertRows -------------------------------
(***************************************************************************)
(* Insert and OnConflict, peewee.py, with the three conflict_update() of   *)
(* the databases: rows as dicts or tuples, the columns they are written    *)
(* to, the defaults of the model, and what happens to a row that is there  *)
(* already.                                                                *)
(*                                                                         *)
(* A statement is a record: kind "insert" (one dict), "many" (dicts or     *)
(* tuples), "query" (the rows of a SELECT); rows; columns, <<>> when they  *)
(* are not given; conflict.  A dict is a function from keys, a field name  *)
(* or a column name.                                                       *)
(***************************************************************************)
EXTENDS Integers, Sequences, FiniteSets, SequencesExt

CONSTANTS
    Fields,       \* the names of the fields, in the order of the model
    ColumnOf,     \* the column name of each field
    Nullable,     \* the fields with null=True
    Unique,       \* the fields with unique=True
    Constants,    \* the fields with a constant default, and it
    Callables,    \* the fields whose default is called for each row
    Tested,       \* the field that the WHERE of a conflict clause is about
    Statements,   \* what a program may insert: sets of statements, of dicts and of tuples
    Backends,
    MaxStatements

VARIABLES table, calls, did, count

rowsVars == <<table, calls, did, count>>

None == 0
Error == [error |-> TRUE]
Rejected == {Error}
NoStatement == [kind |-> "none"]
Defaults == DOMAIN Constants \cup Callables
InOrder(S) == SelectSeq(Fields, LAMBDA f : f \in S)

-----------------------------------------------------------------------------
\* Model._normalize_data(), for insert(): field and column names are both taken.
FieldOf(key) == CHOOSE f \in ToSet(Fields) : key \in {f, ColumnOf[f]}
Normalized(row) ==
    [f \in {FieldOf(k) : k \in DOMAIN row} |-> row[IF f \in DOMAIN row THEN f ELSE ColumnOf[f]]]

\* The rows and the columns that _generate_insert() starts from; a key of the
\* first row must be an attribute of the model.
Rows(s) == IF s.kind = "insert" THEN <<Normalized(s.rows[1])>> ELSE s.rows
Columns(s) ==
    CASE s.kind = "query" -> s.columns
      [] s.kind # "query" /\ s.columns # <<>> ->
            s.columns \o InOrder(Defaults \ ToSet(s.columns))
      [] s.kind # "query" /\ s.columns = <<>> /\ s.dicts ->
            InOrder(DOMAIN Rows(s)[1] \cup Defaults)
      [] OTHER -> Fields
Inferable(s) == s.columns = <<>> /\ s.dicts /\ s.kind = "many" => DOMAIN s.rows[1] \subseteq ToSet(Fields)

\* The keys a value is looked up by: field, then column name; a tuple by place.
Keys(s, row, i) ==
    IF s.dicts THEN SelectSeq(<<Columns(s)[i], ColumnOf[Columns(s)[i]]>>, LAMBDA k : k \in DOMAIN row)
    ELSE SelectSeq(<<i>>, LAMBDA k : k \in DOMAIN row)

\* Mutation: a callable default is called once for the statement.
DefaultOfOnce(f, called) == IF f \in Callables THEN calls + 101 ELSE Constants[f]

DefaultOf(f, called) == IF f \in Callables THEN called + 101 ELSE Constants[f]

\* _generate_insert(): one row, with the number of defaults called so far.
OneRow(s, row, called) ==
    LET columns == Columns(s)
        missing == {i \in DOMAIN columns : Keys(s, row, i) = <<>>}
        called_before(i) == called + Cardinality({j \in missing : j < i /\ columns[j] \in Callables})
        value(i) ==
            CASE i \notin missing -> row[Keys(s, row, i)[1]]
              [] i \in missing /\ columns[i] \in Defaults -> DefaultOf(columns[i], called_before(i))
              [] OTHER -> None
    IN IF s.kind = "query" THEN [values |-> row, calls |-> called]
       ELSE IF \E i \in missing : columns[i] \notin Defaults \cup Nullable THEN Error
       ELSE [values |-> [i \in DOMAIN columns |-> value(i)],
             calls |-> called_before(Len(columns) + 1)]

GenerateInsert(s) ==
    LET step(acc, row) ==
            IF acc = Error THEN Error
            ELSE LET one == OneRow(s, row, acc.calls)
                 IN IF one = Error THEN Error
                    ELSE [values |-> Append(acc.values, one.values), calls |-> one.calls]
    IN IF ~Inferable(s) THEN Error ELSE FoldLeft(step, [values |-> <<>>, calls |-> calls], Rows(s))

-----------------------------------------------------------------------------
\* conflict_statement() and conflict_update(): what a conflict clause becomes, or
\* that it is refused.  A conflict is a record: action, target, preserve, update
\* (a function from fields), where (the values of the field Tested of the row that is
\* there for which it is updated).
Clause(do, target, oc) == [do |-> do, target |-> target, preserve |-> oc.preserve, update |-> oc.update, where |-> oc.where]
NoUpdates(oc) == oc.preserve = {} /\ DOMAIN oc.update = {}

SqliteConflict(oc) ==
    CASE oc.action \in {"ignore", "replace"} -> Clause(oc.action, {}, oc)
      [] oc.action = "nothing" -> Clause("nothing", oc.target, oc)
      [] OTHER -> IF NoUpdates(oc) \/ oc.target = {} THEN Error ELSE Clause("update", oc.target, oc)

PostgresConflict(oc) ==
    CASE oc.action \in {"ignore", "nothing"} -> Clause("nothing", oc.target, oc)
      [] oc.action \in {"", "update"} ->
            IF NoUpdates(oc) \/ oc.target = {} THEN Error ELSE Clause("update", oc.target, oc)
      [] OTHER -> Error

MySQLConflict(oc) ==
    IF oc.action = "nothing" \/ oc.target # {} \/ oc.where # {} THEN Error
    ELSE Clause(CASE oc.action \in {"ignore", "replace"} -> oc.action
                  [] NoUpdates(oc) /\ oc.action \in {"", "update"} -> "fail"
                  [] OTHER -> "update", {}, oc)

ConflictClause(backend, oc) ==
    CASE oc.action = "none" -> Clause("fail", {}, oc)
      [] oc.action # "none" /\ backend = "sqlite" -> SqliteConflict(oc)
      [] oc.action # "none" /\ backend = "postgres" -> PostgresConflict(oc)
      [] OTHER -> MySQLConflict(oc)

-----------------------------------------------------------------------------
\* What the database does with a row of VALUES, under the clause.  SQLite looks
\* at the other unique columns before the target, Postgres never.
Clash(old, new, fields) == \E f \in fields : old[f] # None /\ old[f] = new[f]
Sound(rows) ==
    /\ \A row \in rows : \A f \in ToSet(Fields) \ Nullable : row[f] # None
    /\ \A r1, r2 \in rows : r1 # r2 => ~Clash(r1, r2, Unique)

Updated(clause, old, new) ==
    [f \in ToSet(Fields) |->
        IF f \in DOMAIN clause.update THEN clause.update[f]
        ELSE IF f \in clause.preserve THEN new[f] ELSE old[f]]

StoreRow(backend, rows, clause, new) ==
    LET clashes == {old \in rows : Clash(old, new, Unique)}
        aimed == {old \in clashes : clause.target = {} \/ Clash(old, new, clause.target)}
        updated == {IF clause.where = {} \/ old[Tested] \in clause.where
                    THEN Updated(clause, old, new) ELSE old : old \in aimed}
        after == CASE clashes = {} -> rows \cup {new}
                   [] clashes # {} /\ clause.do = "replace" -> (rows \ clashes) \cup {new}
                   [] clashes # {} /\ clause.do = "ignore" -> rows
                   [] clause.do \in {"nothing", "update"} /\ aimed = {} -> rows \cup {new}
                   [] clause.do = "nothing" /\ aimed # {} -> rows
                   [] clause.do = "update" /\ aimed # {} -> (rows \ aimed) \cup updated
                   [] OTHER -> rows \cup {new}
        refused == \/ clause.do = "fail" /\ clashes # {}
                   \/ backend = "sqlite" /\ clashes # aimed
                   \/ Cardinality(aimed) > 1 /\ clause.do = "update"
    IN IF refused \/ ~Sound(after)
       THEN Rejected ELSE after

Store(backend, rows, clause, columns, values) ==
    LET named(v) == [f \in ToSet(Fields) |->
                        IF f \in ToSet(columns)
                        THEN v[CHOOSE i \in DOMAIN columns : columns[i] = f] ELSE None]
        step(acc, v) == IF acc = Rejected THEN Rejected ELSE StoreRow(backend, acc, clause, named(v))
    IN FoldLeft(step, rows, values)

-----------------------------------------------------------------------------
Init == table = {} /\ calls = 0 /\ did = NoStatement /\ count = 0

\* Insert.execute(): refused while the text is made, refused by the database,
\* or done.
Execute(s, backend) ==
    LET made == IF s.rows = <<>> THEN Error ELSE GenerateInsert(s)
        clause == ConflictClause(backend, s.conflict)
        rows == IF Error \in {made, clause} THEN Rejected
                ELSE Store(backend, table, clause, Columns(s), made.values)
    IN /\ count < MaxStatements
       /\ count' = count + 1
       /\ calls' = IF made = Error THEN calls ELSE made.calls
       /\ table' = IF rows = Rejected THEN table ELSE rows
       /\ did' = [statement |-> s, on |-> backend, before |-> table, called |-> calls, ok |-> rows # Rejected]

Next == \E i \in DOMAIN Statements, backend \in Backends :
    \E s \in Statements[i] : Execute(s, backend)

Spec == Init /\ [][Next]_rowsVars

-----------------------------------------------------------------------------
\* What the program means by a row: what it names, by either name or by place,
\* and the model's default, made for this row, for the rest.
Meant(s, row, called) ==
    LET named(f) ==
            IF s.dicts THEN {row[k] : k \in DOMAIN row \cap {f, ColumnOf[f]}}
            ELSE {row[i] : i \in {j \in DOMAIN row : j <= Len(s.columns) /\ s.columns[j] = f}}
    IN [f \in ToSet(Fields) |->
            CASE named(f) # {} -> CHOOSE v \in named(f) : TRUE
              [] named(f) = {} /\ f \in DOMAIN Constants /\ s.kind # "query" -> Constants[f]
              [] named(f) = {} /\ f \in Callables /\ s.kind # "query" -> called + 101
              [] OTHER -> None]

\* docs/peewee/query_builder.rst:194 asks for the same keys in every row: a
\* later row names nothing that the first does not.
Uniform(s) ==
    IF s.dicts THEN s.columns = <<>> => \A i \in DOMAIN s.rows :
        {FieldOf(k) : k \in DOMAIN s.rows[i]} \subseteq {FieldOf(k) : k \in DOMAIN s.rows[1]} \cup Defaults
    ELSE \A i \in DOMAIN s.rows : Len(s.rows[i]) <= Len(s.columns)

\* A row that is there already, as the docs describe the conflict clauses: left,
\* replaced, or updated with what the program names, kept from the new row or set.
Resolve(rows, oc, new) ==
    LET same == {old \in rows : Clash(old, new, IF oc.target = {} THEN Unique ELSE oc.target)}
    IN CASE same = {} -> rows \cup {new}
         [] same # {} /\ oc.action \in {"ignore", "nothing"} -> rows
         [] same # {} /\ oc.action = "replace" -> (rows \ same) \cup {new}
         [] OTHER -> (rows \ same) \cup
                {IF oc.where # {} /\ old[Tested] \notin oc.where THEN old
                 ELSE [f \in ToSet(Fields) |->
                         CASE f \in DOMAIN oc.update -> oc.update[f]
                           [] f \in oc.preserve \ DOMAIN oc.update -> new[f]
                           [] OTHER -> old[f]] : old \in same}

\* An INSERT stores what the program gave, row by row, the defaults of the model
\* made for each row where it gave nothing, and treats a row that is there already
\* as the conflict clause says on every database that accepts the clause; a
\* statement that is refused leaves the table as it was.
InsertedAsGiven ==
    did # NoStatement =>
        LET s == did.statement
            step(acc, row) ==
                LET own == {f \in Callables : Meant(s, row, acc.called)[f] = acc.called + 101}
                IN [rows |-> Resolve(acc.rows, s.conflict, Meant(s, row, acc.called)),
                    called |-> acc.called + Cardinality(own)]
        IN IF did.ok
           THEN Uniform(s) => table = FoldLeft(step, [rows |-> did.before, called |-> did.called], s.rows).rows
           ELSE table = did.before
=============================================================================
