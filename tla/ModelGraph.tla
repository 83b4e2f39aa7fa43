----------------------------- MODULE ModelGraph ------------------------------
(***************************************************************************)
(* Models that refer to each other: the definition of classes and the      *)
(* resolution of DeferredForeignKey, the order in which tables are created *)
(* and dropped, the queries of delete_instance(recursive=True), and the    *)
(* binding of models to another database for a while.                      *)
(***************************************************************************)
EXTENDS Integers, Sequences, FiniteSets, SequencesExt

CONSTANTS
    Schemas,    \* sequences of class definitions [name, fks, dependsOn]
    Databases,  \* what models can be bound to
    Rows,       \* bound on the rows
    Bindings    \* bound on the nesting of bind_ctx()

VARIABLES
    pending,    \* class definitions that are still to come
    refs,       \* Metadata.refs: model -> its foreign keys, in order
    backrefs,   \* Metadata.backrefs: model -> foreign keys of others
    dependsOn,  \* Metadata.depends_on: model -> models
    unresolved, \* DeferredForeignKey._unresolved, in order of declaration
    created,    \* tables in the order of their creation
    rows,       \* rows of the database: [model, id, fk name -> id, 0 for NULL]
    job,        \* delete_instance(): its queries and what it was called with
    home,       \* model -> the database it was defined with
    bound,      \* Metadata.database
    contexts    \* bind_ctx() blocks that are open; all: what was bound to what before

graphVars == <<pending, refs, backrefs, dependsOn, unresolved, created, rows, job, home, bound, contexts>>

Models == DOMAIN refs
NoJob == [stage |-> "none", todo |-> <<>>, of |-> "", id |-> 0, nullable |-> FALSE, was |-> {}]

Init ==
    /\ pending = <<>>
    /\ refs = [m \in {} |-> <<>>] /\ backrefs = refs /\ dependsOn = refs
    /\ unresolved = <<>> /\ created = <<>> /\ rows = {} /\ job = NoJob
    /\ home = refs /\ bound = refs /\ contexts = <<>>

\* A program is loaded: its classes are defined one after the other.
Load(schema) ==
    /\ pending = <<>> /\ Models = {}
    /\ pending' = schema
    /\ UNCHANGED <<refs, backrefs, dependsOn, unresolved, created, rows, job, home, bound, contexts>>

-----------------------------------------------------------------------------
\* Metadata: [refs, backrefs].  add_ref(), remove_ref() and add_field(), which
\* removes a field of the same name first.
AddRef(g, fk) == [refs |-> [g.refs EXCEPT ![fk.of] = Append(@, fk)],
                  backrefs |-> [g.backrefs EXCEPT ![fk.to] = Append(@, fk)]]
RemoveRef(g, fk) ==
    [refs |-> [g.refs EXCEPT ![fk.of] = SelectSeq(@, LAMBDA k : k # fk)],
     backrefs |-> [g.backrefs EXCEPT ![fk.to] = SelectSeq(@, LAMBDA k : k # fk)]]
Named(g, m, name) == {k \in ToSet(g.refs[m]) : k.name = name}

AddField(g, fk) ==
    LET old == Named(g, fk.of, fk.name)
    IN AddRef(IF old = {} THEN g ELSE RemoveRef(g, CHOOSE k \in old : TRUE), fk)

Fk(m, f, deferred) == [of |-> m, name |-> f.name, to |-> IF f.to = "self" THEN m ELSE f.to,
                       null |-> f.null, deferred |-> deferred]

\* ModelBase.__new__: the fields in order; then resolve(): every deferred key that
\* waits for a class of this name becomes a foreign key of its model.
Define ==
    LET c == Head(pending)
        plain == SelectSeq(c.fks, LAMBDA f : ~f.deferred)
        waits == SelectSeq(c.fks, LAMBDA f : f.deferred)
        empty == [refs |-> [m \in Models \cup {c.name} |-> IF m \in Models THEN refs[m] ELSE <<>>],
                  backrefs |-> [m \in Models \cup {c.name} |-> IF m \in Models THEN backrefs[m] ELSE <<>>]]
        declared == FoldLeft(LAMBDA g, f : AddField(g, Fk(c.name, f, FALSE)), empty, plain)
        open == unresolved \o [i \in DOMAIN waits |-> [of |-> c.name, key |-> waits[i], known |-> Models]]
        mine == SelectSeq(open, LAMBDA d : d.key.to = c.name)
        linked == FoldLeft(LAMBDA g, d : AddField(g, Fk(d.of, d.key, TRUE)), declared, mine)
    IN /\ pending # <<>>
       /\ pending' = Tail(pending)
       /\ refs' = linked.refs /\ backrefs' = linked.backrefs
       /\ unresolved' = SelectSeq(open, LAMBDA d : d.key.to # c.name)
       /\ dependsOn' = [m \in DOMAIN linked.refs |-> IF m \in Models THEN dependsOn[m] ELSE c.dependsOn]
       /\ home' = [m \in DOMAIN linked.refs |-> IF m \in Models THEN home[m] ELSE c.database]
       /\ bound' = [m \in DOMAIN linked.refs |-> IF m \in Models THEN bound[m] ELSE c.database]
       /\ UNCHANGED <<created, rows, job, contexts>>

Loaded == pending = <<>> /\ Models # {}

\* A program calls Model._meta.add_field() for a field that is there already.
Replace(fk, n) ==
    /\ Loaded /\ job.stage = "none" /\ rows = {} /\ created = <<>> /\ contexts = <<>>
    /\ fk \in UNION {ToSet(refs[m]) : m \in Models}
    /\ LET g == AddField([refs |-> refs, backrefs |-> backrefs], [fk EXCEPT !.to = n, !.deferred = FALSE])
       IN refs' = g.refs /\ backrefs' = g.backrefs
    /\ job' = [NoJob EXCEPT !.stage = "edited"]
    /\ UNCHANGED <<pending, dependsOn, unresolved, created, rows, home, bound, contexts>>

-----------------------------------------------------------------------------
\* sort_models(): depth first along the foreign keys that are not deferred, and
\* depends_on; by name where nothing else decides.  Names sort as written.
Order == <<"a", "b", "c", "d">>

\* The walk: the models seen and the ordering so far.
RECURSIVE Visit(_, _, _)
RECURSIVE VisitAll(_, _, _)
Visit(S, walk, m) ==
    IF m \notin S \/ m \in walk.seen THEN walk
    ELSE LET keys == SelectSeq(refs[m], LAMBDA k : ~k.deferred)
             next == [i \in DOMAIN keys |-> keys[i].to] \o dependsOn[m]
             deep == VisitAll(S, [walk EXCEPT !.seen = @ \cup {m}], next)
         IN [deep EXCEPT !.ordering = Append(@, m)]
VisitAll(S, walk, ms) ==
    IF ms = <<>> THEN walk ELSE VisitAll(S, Visit(S, walk, Head(ms)), Tail(ms))

SortModels(S) ==
    VisitAll(S, [seen |-> {}, ordering |-> <<>>], SelectSeq(Order, LAMBDA m : m \in S)).ordering

\* create_tables() and drop_tables(); a deferred key has no constraint of its own.
CreateTables(S) ==
    /\ Loaded /\ job.stage \in {"none", "edited"} /\ rows = {} /\ contexts = <<>> /\ created = <<>> /\ S # {}
    /\ created' = SortModels(S)
    /\ UNCHANGED <<pending, refs, backrefs, dependsOn, unresolved, rows, job, home, bound, contexts>>

DropTables(S) ==
    /\ created # <<>> /\ S # {}
    /\ created' = SelectSeq(created, LAMBDA m : m \notin S)
    /\ UNCHANGED <<pending, refs, backrefs, dependsOn, unresolved, rows, job, home, bound, contexts>>

-----------------------------------------------------------------------------
\* Rows and queries.  A query is a path of foreign keys to the instance: the
\* rows that the first refers from to rows of the rest of the path.
Ids(R, m) == {r.id : r \in {x \in R : x.model = m}}
Value(r, fk) == r.to[fk.name]

RECURSIVE Selected(_, _, _)
Selected(R, path, id) ==
    LET fk == Head(path)
        targets == IF Len(path) = 1 THEN {id} ELSE {r.id : r \in Selected(R, Tail(path), id)}
    IN {r \in R : r.model = fk.of /\ Value(r, fk) \in targets}

\* dependencies(exclude_null_children): the walk along the back references, last
\* in first out, every model once; found: <<path>> in the order of discovery.
RECURSIVE Walk(_, _, _, _, _)
Walk(root, stack, visited, found, nullable) ==
    IF stack = <<>> THEN found
    ELSE LET top == Last(stack)
             rest == Front(stack)
             keys == backrefs[top.model]
             path(k) == <<k>> \o (IF k.of = root THEN <<>> ELSE top.path)
             deeper == SelectSeq(keys, LAMBDA k : ~k.null \/ nullable)
         IN IF top.model \in visited THEN Walk(root, rest, visited, found, nullable)
            ELSE Walk(root,
                      rest \o [i \in DOMAIN deeper |-> [model |-> deeper[i].of, path |-> path(deeper[i])]],
                      visited \cup {top.model},
                      found \o [i \in DOMAIN keys |-> path(keys[i])],
                      nullable)

\* Mutation: the queries in the order of their discovery.
QueriesAsFound(m, nullable) == Walk(m, <<[model |-> m, path |-> <<>>]>>, {}, <<>>, nullable)

\* The queries, those of referring models first.
Queries(m, nullable) ==
    LET found == Walk(m, <<[model |-> m, path |-> <<>>]>>, {}, <<>>, nullable)
        order == Reverse(SortModels({p[1].of : p \in ToSet(found)}))
    IN FlattenSeq([i \in DOMAIN order |-> SelectSeq(found, LAMBDA p : p[1].of = order[i])])

Dangling(R, fk) == \E r \in R : r.model = fk.of /\ Value(r, fk) \notin Ids(R, fk.to) \cup {0}
AllFks == UNION {ToSet(refs[m]) : m \in Models}

\* Rows come with valid references.
Insert(m, id, to) ==
    /\ Loaded /\ unresolved = <<>> /\ job.stage = "none" /\ contexts = <<>> /\ created = <<>> /\ Cardinality(rows) < Rows
    /\ id = Cardinality(Ids(rows, m)) + 1
    /\ DOMAIN to = {fk.name : fk \in ToSet(refs[m])}
    /\ \A fk \in ToSet(refs[m]) :
         to[fk.name] \in (Ids(rows, fk.to) \cup (IF fk.to = m THEN {id} ELSE {})) \cup (IF fk.null THEN {0} ELSE {})
    /\ rows' = rows \cup {[model |-> m, id |-> id, to |-> to]}
    /\ UNCHANGED <<pending, refs, backrefs, dependsOn, unresolved, created, job, home, bound, contexts>>

DeleteInstance(m, id, nullable) ==
    /\ job.stage = "none" /\ id \in Ids(rows, m)
    /\ job' = [stage |-> "run", todo |-> Queries(m, nullable), of |-> m, id |-> id,
               nullable |-> nullable, was |-> rows]
    /\ UNCHANGED <<pending, refs, backrefs, dependsOn, unresolved, created, rows, home, bound, contexts>>

Refused(R, enforced) == enforced /\ \E fk \in AllFks : ~fk.deferred /\ Dangling(R, fk)

\* One query at a time: NULL in nullable keys, unless they are to be deleted.  At
\* the end the instance itself.  The database may enforce the constraints.
DeleteStep(enforced) ==
    LET path == Head(job.todo)
        hit == Selected(rows, path, job.id)
        left == IF job.todo = <<>>
                THEN {r \in rows : ~(r.model = job.of /\ r.id = job.id)}
                ELSE IF path[1].null /\ ~job.nullable
                THEN (rows \ hit) \cup {[r EXCEPT !.to[path[1].name] = 0] : r \in hit}
                ELSE rows \ hit
    IN /\ job.stage = "run"
       /\ IF Refused(left, enforced)
          THEN rows' = rows /\ job' = [job EXCEPT !.stage = "refused"]
          ELSE /\ rows' = left
               /\ job' = IF job.todo = <<>>
                         THEN [job EXCEPT !.stage = IF enforced THEN "enforced" ELSE "done"]
                         ELSE [job EXCEPT !.todo = Tail(@)]
       /\ UNCHANGED <<pending, refs, backrefs, dependsOn, unresolved, created, home, bound, contexts>>

-----------------------------------------------------------------------------
\* Model.bind(): the model and all that is connected with it, but for those that
\* are excluded.
Near(m) == {fk.to : fk \in ToSet(refs[m])} \cup {fk.of : fk \in ToSet(backrefs[m])}
RECURSIVE Reach(_)
Reach(S) == LET T == S \cup UNION {Near(m) : m \in S} IN IF T = S THEN S ELSE Reach(T)
Bind(b, m, d, excluded) ==
    [k \in DOMAIN b |-> IF k = m \/ k \in Reach({m}) \ excluded THEN d ELSE b[k]]

BindEnter(ms, d) ==
    /\ Loaded /\ job.stage = "none" /\ rows = {} /\ created = <<>> /\ Len(contexts) < Bindings /\ ms # <<>> /\ ToSet(ms) \subseteq Models
    /\ contexts' = Append(contexts, [models |-> ms, was |-> [i \in DOMAIN ms |-> bound[ms[i]]], all |-> bound])
    /\ bound' = FoldLeft(LAMBDA b, m : Bind(b, m, d, ToSet(ms)), bound, ms)
    /\ UNCHANGED <<pending, refs, backrefs, dependsOn, unresolved, created, rows, job, home>>

Unbound(c) ==
    FoldLeft(LAMBDA b, i : Bind(b, c.models[i], c.was[i], ToSet(c.models)), bound,
             [i \in DOMAIN c.models |-> i])

BindExit ==
    /\ contexts # <<>>
    /\ bound' = Unbound(Last(contexts))
    /\ contexts' = Front(contexts)
    /\ UNCHANGED <<pending, refs, backrefs, dependsOn, unresolved, created, rows, job, home>>

Next ==
    \/ \E s \in Schemas : Load(s)
    \/ Define
    \/ \E m, n \in Models : \E fk \in ToSet(refs[m]) : Replace(fk, n)
    \/ \E S \in SUBSET Models : CreateTables(S) \/ DropTables(S)
    \/ \E m \in Models, id \in 1 .. 2 :
         \/ \E to \in [{fk.name : fk \in ToSet(refs[m])} -> 0 .. 2] : Insert(m, id, to)
         \/ \E n \in BOOLEAN : DeleteInstance(m, id, n)
    \/ \E e \in BOOLEAN : DeleteStep(e)
    \/ \E ms \in UNION {[1 .. n -> Models] : n \in 1 .. 2}, d \in Databases : IsInjective(ms) /\ BindEnter(ms, d)
    \/ BindExit

Spec == Init /\ [][Next]_graphVars

-----------------------------------------------------------------------------
\* refs and backrefs say the same, once per foreign key, and no deferred key waits
\* for a class that came after it; create_tables() lists a model after those it
\* refers to, whatever the order of the definitions.
GraphSound ==
    /\ \A m \in Models : \A n \in Models :
         {fk \in ToSet(refs[m]) : fk.to = n} = {fk \in ToSet(backrefs[n]) : fk.of = m}
    /\ \A m \in Models : \A i, j \in DOMAIN refs[m] : refs[m][i].name = refs[m][j].name => i = j
    /\ \A i \in DOMAIN unresolved : unresolved[i].key.to \in Models => unresolved[i].key.to \in unresolved[i].known
    /\ job.stage # "edited" =>
         \A i, j \in DOMAIN created : i < j =>
             /\ \A fk \in ToSet(refs[created[i]]) : fk.to = created[j] => fk.deferred
             /\ created[j] \notin ToSet(dependsOn[created[i]])

\* What delete_instance(recursive=True) is for: the rows that cannot be without
\* the instance go too, the others lose their reference.
RECURSIVE Doomed(_, _)
Doomed(R, S) ==
    LET more == {r \in R : \E fk \in ToSet(refs[r.model]) :
                    (~fk.null \/ job.nullable) /\ \E s \in S : s.model = fk.to /\ s.id = Value(r, fk)}
    IN IF more \subseteq S THEN S ELSE Doomed(R, S \cup more)

Expected ==
    LET S == Doomed(job.was, {r \in job.was : r.model = job.of /\ r.id = job.id})
        cut(r) == [r EXCEPT !.to = [n \in DOMAIN @ |->
                     IF \E fk \in ToSet(refs[r.model]) : fk.name = n /\ Value(r, fk) \in Ids(S, fk.to)
                     THEN 0 ELSE @[n]]]
    IN {cut(r) : r \in job.was \ S}

Tree == \A m \in Models : Len(refs[m]) <= 1 /\ \A fk \in ToSet(refs[m]) : fk.to # m /\ ~fk.deferred
NoCycle == \A fk \in AllFks : ~fk.deferred
Spared == \A r \in Expected : \E s \in rows : s.model = r.model /\ s.id = r.id

\* Where every model refers to one other at most, delete_instance() leaves what it
\* should, and under constraints whatever refers to what, if it returns; and
\* without cycles it never deletes a row that could have stayed.
DeletedExactly ==
    job.stage # "none" =>
        /\ job.stage = "enforced" /\ NoCycle => rows = Expected
        /\ job.stage = "done" /\ Tree => rows = Expected
        /\ NoCycle => Spared

\* docs/peewee/api.rst:2101: recursive=True deletes related models; a row that
\* has nothing to do with the instance is not one.
SparesOthers == job.stage = "done" => Spared

\* Leaving a bind_ctx() block puts the models it was called with back, each to its
\* own database; and all the models, if those it could reach shared one.
BindRestored ==
    contexts # <<>> =>
        LET c == Last(contexts)
            after == Unbound(c)
        IN /\ \A m \in ToSet(c.models) : after[m] = c.all[m]
           /\ Cardinality({c.all[m] : m \in Reach(ToSet(c.models))}) = 1 => after = c.all
=============================================================================
