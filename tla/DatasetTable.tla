------------------------------ MODULE DatasetTable -----------------------------
(***************************************************************************)
(* playhouse/dataset.py: a table whose columns are made when a program     *)
(* inserts a row that has them.  Each client, a DataSet of its own, keeps  *)
(* the columns it has seen in a model class; the database is shared, and a *)
(* transaction that is rolled back takes its ALTER TABLEs with it.         *)
(***************************************************************************)
EXTENDS Integers, Sequences, FiniteSets, SequencesExt

CONSTANTS Clients, Columns, Ids, GivenRows, Files, MaxCalls

VARIABLES
    cols,      \* the columns of the table, beside its key
    unique,    \* the columns with a unique index
    rows,      \* id -> row; a row is a function from the columns it has a value for
    known,     \* client -> the columns of its model class
    saved,     \* what the open transaction began with, or <<>>
    owner,     \* the client whose transaction is open, "" for none
    last,      \* the last call, as its caller saw it
    calls

datasetVars == <<cols, unique, rows, known, saved, owner, last, calls>>

NoCall == [op |-> "none"]
Store == [cols |-> cols, rows |-> rows]
Clashes(s, id, row) ==
    \E other \in DOMAIN s.rows \ {id} :
        \E c \in unique \cap DOMAIN row \cap DOMAIN s.rows[other] : s.rows[other][c] = row[c]
NewId(s) == CHOOSE i \in Ids \cup {1 + Cardinality(Ids)} : i \notin DOMAIN s.rows
                /\ \A j \in Ids : j < i => j \in DOMAIN s.rows
Put(s, id, row) ==
    [s EXCEPT !.rows = [i \in DOMAIN @ \cup {id} |->
        IF i # id THEN @[i]
        ELSE [c \in DOMAIN row \cup (IF id \in DOMAIN @ THEN DOMAIN @[id] ELSE {}) |->
                IF c \in DOMAIN row THEN row[c] ELSE @[id][c]]]]

\* A state of a call: the store, the columns the client knows, the order it takes
\* a set of names in, and ok or why not.
Failed(x, why) == [x EXCEPT !.ok = why]

\* _migrate_new_columns(): the fields are bound to the model before the ALTER
\* TABLEs run, one by one in the order of a Python set, each of them kept when a
\* later one fails; update_cache() reads the columns there are.
MigrateNewColumns(x, row) ==
    LET new == SelectSeq(x.order, LAMBDA c : c \in DOMAIN row \ x.known)
        refused == {i \in DOMAIN new : new[i] \in x.s.cols}
        added == {new[i] : i \in {j \in DOMAIN new : \A k \in refused : j < k}}
        y == [x EXCEPT !.s.cols = @ \cup added]
    IN CASE new = <<>> -> x
         [] refused # {} -> Failed([y EXCEPT !.known = @ \cup ToSet(new)], "operational")
         [] OTHER -> [y EXCEPT !.known = y.s.cols]

\* Table.insert() and Table.update()
Inserted(x, id, row) ==
    LET y == MigrateNewColumns(x, row)
    IN CASE y.ok # "ok" -> y
         [] y.ok = "ok" /\ ~DOMAIN row \subseteq y.s.cols -> Failed(y, "operational")
         [] y.ok = "ok" /\ DOMAIN row \subseteq y.s.cols
              /\ (id \in DOMAIN y.s.rows \/ Clashes(y.s, id, row)) -> Failed(y, "integrity")
         [] OTHER -> [y EXCEPT !.s = Put(@, id, row)]
Updated(x, id, row) ==
    LET y == MigrateNewColumns(x, row)
    IN CASE y.ok # "ok" -> y
         [] y.ok = "ok" /\ ~DOMAIN row \subseteq y.s.cols -> Failed(y, "operational")
         [] id \notin DOMAIN y.s.rows -> y
         [] id \in DOMAIN y.s.rows /\ Clashes(y.s, id, row) -> Failed(y, "integrity")
         [] OTHER -> [y EXCEPT !.s = Put(@, id, row)]

\* Table.__setitem__(): an insert in a transaction; when it is refused, the
\* columns are read again and the row with that key is updated.
SetItem(x, id, row) ==
    LET y == Inserted(x, id, row)
    IN IF y.ok = "integrity" THEN Updated([y EXCEPT !.ok = "ok", !.s = x.s, !.known = x.s.cols], id, row)
       ELSE IF y.ok = "ok" THEN y ELSE [y EXCEPT !.s = x.s]

\* JSONImporter.load(): strict leaves out what the table had no column for when
\* the file was opened; a row that fails leaves those before it.
Load(x, file, strict) ==
    LET of(row) == IF strict THEN [c \in DOMAIN row \cap x.known |-> row[c]] ELSE row
        step(acc, row) ==
            IF acc.ok # "ok" \/ DOMAIN of(row) = {} THEN acc
            ELSE Inserted(acc, NewId(acc.s), of(row))
    IN FoldLeft(step, x, file)

-----------------------------------------------------------------------------
Init ==
    /\ cols = {} /\ unique = {} /\ rows = [i \in {} |-> {}] /\ known = [c \in Clients |-> {}]
    /\ saved = <<>> /\ owner = "" /\ last = NoCall /\ calls = 0

\* A client waits while another one's transaction is open.
May(c) == owner \in {"", c} /\ calls < MaxCalls /\ Cardinality(DOMAIN rows) < Cardinality(Ids)

Call(c, op, id, given, x) ==
    /\ calls' = calls + 1
    /\ cols' = x.s.cols /\ rows' = x.s.rows /\ known' = [known EXCEPT ![c] = x.known]
    /\ last' = [op |-> op, id |-> id, given |-> given, ok |-> x.ok, fresh |-> known[c] = cols,
                clash |-> Clashes(Store, id, given), cols |-> cols]
    /\ UNCHANGED <<unique, saved, owner>>
Start(c, order) == [s |-> Store, known |-> known[c], order |-> order, ok |-> "ok"]

Insert(c, order, row) ==
    May(c) /\ Call(c, "insert", NewId(Store), row, Inserted(Start(c, order), NewId(Store), row))
Set(c, order, id, row) == May(c) /\ Call(c, "set", id, row, SetItem(Start(c, order), id, row))
Thaw(c, order, file, strict) ==
    /\ May(c)
    /\ Call(c, IF strict THEN "strict" ELSE "thaw", 0, [k \in {} |-> 0], Load(Start(c, order), file, strict))
Delete(c, id) ==
    /\ May(c) /\ id \in DOMAIN rows
    /\ Call(c, "delete", id, [k \in {} |-> 0], [Start(c, <<>>) EXCEPT !.s.rows = [i \in DOMAIN @ \ {id} |-> @[i]]])

\* create_index(unique=True)
CreateIndex(c, col) ==
    /\ May(c) /\ owner = "" /\ col \in (known[c] \cap cols) \ unique
    /\ \A i, j \in DOMAIN rows : i # j => ~(col \in DOMAIN rows[i] \cap DOMAIN rows[j] /\ rows[i][col] = rows[j][col])
    /\ unique' = unique \cup {col} /\ calls' = calls + 1
    /\ last' = NoCall
    /\ UNCHANGED <<cols, rows, known, saved, owner>>

\* DataSet.transaction(), and update_cache() by the program
Begin(c) == /\ May(c) /\ owner = "" /\ owner' = c /\ saved' = Store /\ last' = NoCall
            /\ UNCHANGED <<cols, unique, rows, known, calls>>
End(c, commit) ==
    /\ owner = c /\ owner' = "" /\ saved' = <<>> /\ last' = NoCall
    /\ cols' = IF commit THEN cols ELSE saved.cols
    /\ rows' = IF commit THEN rows ELSE saved.rows
    /\ UNCHANGED <<unique, known, calls>>
UpdateCache(c) ==
    /\ May(c) /\ known' = [known EXCEPT ![c] = cols] /\ last' = NoCall /\ calls' = calls + 1
    /\ UNCHANGED <<cols, unique, rows, saved, owner>>

Next ==
    \E c \in Clients :
        \/ \E order \in SetToSeqs(Columns) :
             \/ \E row \in GivenRows : Insert(c, order, row) \/ \E id \in Ids : Set(c, order, id, row)
             \/ \E file \in Files, strict \in BOOLEAN : Thaw(c, order, file, strict)
        \/ \E id \in Ids : Delete(c, id)
        \/ \E col \in Columns : CreateIndex(c, col)
        \/ Begin(c) \/ UpdateCache(c) \/ \E commit \in BOOLEAN : End(c, commit)

Spec == Init /\ [][Next]_datasetVars

-----------------------------------------------------------------------------
\* A call that returns has stored every value it was given, but for a row that
\* clashes with another one; it is refused for such a clash only, unless another
\* client or a rollback changed the columns since the client read them; and a
\* strict import never adds a column.
DatasetStores ==
    /\ last.op \in {"insert", "set"} =>
         /\ last.ok = "ok" /\ ~last.clash =>
              /\ last.id \in DOMAIN rows
              /\ \A c \in DOMAIN last.given : c \in DOMAIN rows[last.id] /\ rows[last.id][c] = last.given[c]
         /\ last.ok # "ok" /\ last.fresh => last.clash
    /\ last.op = "strict" => cols = last.cols
=============================================================================
