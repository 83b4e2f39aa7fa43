----------------------------- MODULE EagerLoading ----------------------------
(***************************************************************************)
(* prefetch() and with_related(): a query and the rows related to it, one  *)
(* query for each relation, put together in memory.  prefetch() builds a   *)
(* query for every relation first and executes the last one first;         *)
(* with_related() executes from the root down.  Other programs write       *)
(* between the queries.                                                    *)
(***************************************************************************)
EXTENDS Integers, Sequences, FiniteSets, SequencesExt, FiniteSetsExt

CONSTANTS
    Fks,       \* the foreign keys: [name, of, to]
    Contents,  \* what the tables may hold at the start: rows by model
    Calls,     \* the calls of a program
    Writes     \* bound on the rows of the root's table that others delete

VARIABLES
    db,      \* db[m]: the rows of model m, in the order queries return them
    call,    \* the call: its way, its limit and its queries
    built,   \* fixed_queries: each query with the query it hangs on
    got,     \* got[i]: the rows that query i returned
    asked,   \* asked[i]: what its table held at that moment
    list,    \* list[<<i, p, f>>]: the rows under row p of query i by fk f
    ref,     \* ref[<<i, p, f>>]: the row that fk f of row p of query i refers to
    writes   \* deletions still to come

vars == <<db, call, built, got, asked, list, ref, writes>>

Null == 0
NoCall == [way |-> "none", limit |-> 0, perParent |-> 0, queries |-> <<>>]
Empty == [x \in {} |-> <<>>]

Init ==
    /\ db = Empty /\ call = NoCall /\ built = <<>>
    /\ got = Empty /\ asked = Empty /\ list = Empty /\ ref = Empty /\ writes = Writes

-----------------------------------------------------------------------------
\* prefetch_add_subquery(): the foreign keys between a query's model and that of
\* query j, to it or else from it.
To(model, last) == {f \in Fks : f.of = model /\ f.to = last}
From(model, last) == {f \in Fks : f.of = last /\ f.to = model}

Fits(q, j, models) ==
    /\ To(q.model, models[j]) \cup From(q.model, models[j]) # {}
    /\ q.target \in {"any", models[j]}

\* Each query hangs on the last one before it that it can be related to, or on
\* the one that the program names.
Built(queries) ==
    LET models == [i \in DOMAIN queries |-> queries[i].model]
        On(i) == Max({j \in 1 .. i - 1 : Fits(queries[i], j, models)})
    IN [i \in DOMAIN queries |->
          IF i = 1 THEN [model |-> models[1], on |-> 0, fks |-> {}, backref |-> FALSE]
          ELSE LET fks == To(models[i], models[On(i)])
               IN [model |-> models[i], on |-> On(i), backref |-> fks = {},
                   fks |-> IF fks # {} THEN fks ELSE From(models[i], models[On(i)])]]

\* A call that relates all of its queries.  A Load() names one foreign key.
Call(c, content) ==
    LET models == [i \in DOMAIN c.queries |-> c.queries[i].model]
        b == Built(c.queries)
    IN /\ \A i \in 2 .. Len(models) : \E j \in 1 .. i - 1 : Fits(c.queries[i], j, models)
       /\ db' = content /\ call' = c
       /\ built' = IF c.way = "prefetch" THEN b
                   ELSE [i \in DOMAIN b |-> [b[i] EXCEPT !.fks =
                           IF @ = {} THEN @ ELSE {CHOOSE f \in @ : f.name = c.queries[i].fk}]]
       /\ UNCHANGED <<got, asked, list, ref, writes>>

-----------------------------------------------------------------------------
Matches(q, row, parents) ==
    \E f \in q.fks : \E p \in ToSet(parents) :
        IF q.backref THEN p.fk[f] = row.id /\ p.fk[f] # Null
                     ELSE row.fk[f] = p.id

\* The rows related to some parents, at most perParent for each (the window of
\* _windowed(), whose rank is the order).
Related(q, parents) ==
    LET rows == SelectSeq(db[q.model], LAMBDA row : Matches(q, row, parents))
        Rank(k) == Cardinality({n \in 1 .. k : \A f \in q.fks : rows[n].fk[f] = rows[k].fk[f]})
        keep == [n \in 1 .. Len(rows) |-> [row |-> rows[n], rank |-> Rank(n)]]
    IN IF q.backref \/ call.perParent = 0 THEN rows
       ELSE LET kept == SelectSeq(keep, LAMBDA k : k.rank <= call.perParent)
            IN [n \in DOMAIN kept |-> kept[n].row]

\* What query i would return now, its parents' query being part of it as a
\* subquery (_relate_children, _relate_parent).
RECURSIVE Rerun(_)
Rerun(i) ==
    IF i = 1
    THEN SubSeq(db[built[1].model], 1,
                IF call.limit < Len(db[built[1].model]) THEN call.limit ELSE Len(db[built[1].model]))
    ELSE Related(built[i], Rerun(built[i].on))

\* Positions of the rows of query i that satisfy a condition.
Positions(rows, Test(_)) == SetToSortSeq({n \in DOMAIN rows : Test(rows[n])}, LAMBDA a, b : a < b)

\* populate_instance() and _bucket() for one relation k between the rows of its
\* parent query and its own: a list for each parent and a reference back, or a
\* reference to the one row.  The last of several equal parents is kept.
Lists(k, rows, parents) ==
    LET q == built[k] IN
    IF q.backref THEN Empty
    ELSE [x \in {<<q.on, p, f>> : p \in DOMAIN parents, f \in q.fks} |->
            Positions(rows, LAMBDA row : row.fk[x[3]] = parents[x[2]].id)]

Refs(k, rows, parents) ==
    LET q == built[k]
        child == IF q.backref THEN parents ELSE rows
        target == IF q.backref THEN rows ELSE parents
        Of(c, f) == {t \in DOMAIN target : target[t].id = child[c].fk[f]}
        at == IF q.backref THEN q.on ELSE k
    IN [x \in {y \in {<<at, c, f>> : c \in DOMAIN child, f \in q.fks} : Of(y[2], y[3]) # {}} |->
            Max(Of(x[2], x[3]))]

Done == call # NoCall /\ DOMAIN got = DOMAIN built

\* The answer of query i arrives, and the relations ks are put together.
Answer(i, rows, ks) ==
    LET all == got @@ (i :> rows) IN
    /\ got' = all
    /\ asked' = asked @@ (i :> db[built[i].model])
    /\ list' = FoldSet(LAMBDA k, acc : Lists(k, all[k], all[built[k].on]) @@ acc, list, ks)
    /\ ref' = FoldSet(LAMBDA k, acc : Refs(k, all[k], all[built[k].on]) @@ acc, ref, ks)
    /\ UNCHANGED <<db, call, built, writes>>

\* Mutation: the relations of a query are put together before its own rows are
\* there to be related to.
HangingLater(i) == {k \in DOMAIN built : built[k].on = i /\ k > i + 1}

\* The relations that hang on query i (rel_map).
Hanging(i) == {k \in DOMAIN built : built[k].on = i}

\* One turn of prefetch(): the last query that was not executed, then the
\* relations that hang on it, which are all there.
Prefetch ==
    LET i == Max(DOMAIN built \ DOMAIN got) IN
    /\ call.way = "prefetch" /\ ~Done
    /\ Answer(i, Rerun(i), Hanging(i))

\* One turn of _load_related(): the first query that was not executed, its
\* relation to the parents.  Without parents nothing is executed; MATERIALIZE
\* asks for the keys of the rows that are in memory.
LoadRelated ==
    LET i == Min(DOMAIN built \ DOMAIN got)
        parents == got[built[i].on]
    IN /\ call.way \in {"where", "materialize"} /\ ~Done
       /\ Answer(i, IF i = 1 THEN Rerun(1)
                    ELSE IF parents = <<>> THEN <<>>
                    ELSE Related(built[i], IF call.way = "materialize" THEN parents
                                           ELSE Rerun(built[i].on)),
                 IF i = 1 THEN {} ELSE {i})

\* Another program deletes the first row of the root's table.
Write ==
    LET root == built[1].model IN
    /\ call # NoCall /\ ~Done /\ writes > 0 /\ db[root] # <<>>
    /\ db' = [db EXCEPT ![root] = Tail(@)]
    /\ writes' = writes - 1
    /\ UNCHANGED <<call, built, got, asked, list, ref>>

Next ==
    \/ call = NoCall /\ \E c \in Calls, content \in Contents : Call(c, content)
    \/ Write
    \/ call # NoCall /\ Prefetch
    \/ call # NoCall /\ LoadRelated

Spec == Init /\ [][Next]_vars

-----------------------------------------------------------------------------
\* The rows of query k that stand under parent p by fk f, as they were stored
\* when the query ran.
Stored(k, p, f) ==
    LET rows == SelectSeq(asked[k], LAMBDA row : row.fk[f] = p.id)
    IN IF call.perParent = 0 THEN rows
       ELSE SubSeq(rows, 1, IF Len(rows) < call.perParent THEN Len(rows) ELSE call.perParent)

Quiet == writes = Writes \/ call.way = "materialize"

\* What is put together in memory is what is stored: a row is only listed under,
\* or referred to by, the row its foreign key names; and each list is complete
\* and in order and no reference is missing, if nobody wrote between the
\* queries or the keys were materialized.
RelatedAsStored ==
    Done => \A k \in DOMAIN built \ {1} : \A f \in built[k].fks :
        LET j == built[k].on
            Id(c) == got[k][c].id
        IN IF built[k].backref
           THEN \A p \in DOMAIN got[j] : LET x == <<j, p, f>> IN
                  /\ x \in DOMAIN ref => Id(ref[x]) = got[j][p].fk[f]
                  /\ Quiet /\ (\E row \in ToSet(asked[k]) : row.id = got[j][p].fk[f])
                       => x \in DOMAIN ref
           ELSE /\ \A p \in DOMAIN got[j] : <<j, p, f>> \in DOMAIN list
                /\ \A p \in DOMAIN got[j] : LET l == list[<<j, p, f>>] IN
                     /\ \A n \in DOMAIN l : got[k][l[n]].fk[f] = got[j][p].id
                     /\ Quiet => [n \in DOMAIN l |-> got[k][l[n]]] = Stored(k, got[j][p], f)
                /\ \A c \in DOMAIN got[k] : LET x == <<k, c, f>> IN
                     /\ x \in DOMAIN ref => got[j][ref[x]].id = got[k][c].fk[f]
                     /\ (\E p \in ToSet(got[j]) : p.id = got[k][c].fk[f]) => x \in DOMAIN ref
=============================================================================
