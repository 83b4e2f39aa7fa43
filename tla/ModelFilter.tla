------------------------------ MODULE ModelFilter ------------------------------
(***************************************************************************)
(* ModelSelect, peewee.py: joins along foreign keys and filter(), whose    *)
(* keywords name a path of foreign keys and back-references, and join the  *)
(* models on the way unless the query has joined them already.             *)
(*                                                                         *)
(* A source of the query is a model, or an alias of one.  A condition is   *)
(* a record: path (the pieces between the double underscores), value.  A   *)
(* filter is a sequence of DQ objects, joined by "and" or "or", each a     *)
(* sequence of conditions, negated or not.                                 *)
(***************************************************************************)
EXTENDS Integers, Sequences, FiniteSets, SequencesExt

CONSTANTS
    Fields,     \* the plain fields of each model
    Fks,        \* the foreign keys of each model: name -> related model
    Backrefs,   \* the back-references of each model: name -> <<model, foreign key>>
    ModelOf,    \* the model of each alias
    Rows,       \* the rows of each model: records with an id; 0 is NULL
    Roots,      \* the models a program selects from
    Joins,      \* what it joins: <<source, dest, foreign key or "">>
    Filters,    \* what it filters by
    MaxSteps

VARIABLES root, from, joins, ctx, where, asked, status, steps

filterVars == <<root, from, joins, ctx, where, asked, status, steps>>

None == 0
Models == DOMAIN Fields
Model(source) == IF source \in Models THEN source ELSE ModelOf[source]
JoinsOf(source) == IF source \in DOMAIN joins THEN joins[source] ELSE <<>>
HasAttr(source, piece) ==
    LET m == Model(source)
    IN piece \in Fields[m] \cup DOMAIN Fks[m] \cup DOMAIN Backrefs[m]
IsPath(source, piece) ==
    source \in Models /\ piece \in DOMAIN Fks[source] \cup DOMAIN Backrefs[source]
Related(m, piece) == IF piece \in DOMAIN Fks[m] THEN Fks[m][piece] ELSE Backrefs[m][piece][1]

-----------------------------------------------------------------------------
\* _generate_on_clause(): the foreign key a join follows, and in which direction.
\* fk is the one the program named, <<model, name>>, or <<>>.
Refs(src, dest) == {<<src, f>> : f \in {g \in DOMAIN Fks[src] : Fks[src][g] = dest}}
OnClause(src, dest, fk) ==
    LET backref == Refs(src, dest) = {}
        all == IF backref THEN Refs(dest, src) ELSE Refs(src, dest)
        fks == IF fk = <<>> THEN all ELSE all \cap {fk}
        named == {f \in fks : f[2] = dest}
    IN CASE Cardinality(fks) = 1 -> [fk |-> CHOOSE f \in fks : TRUE, backref |-> backref]
         [] Cardinality(fks) # 1 /\ named # {} -> [fk |-> CHOOSE f \in named : TRUE, backref |-> backref]
         [] OTHER -> [fk |-> <<>>, backref |-> backref]

\* join(), _normalize_join(): what the query has joined from src is kept by the
\* attribute that the object will be found under.
Joined(q, src, dest, fk) ==
    LET on == OnClause(Model(src), Model(dest), fk)
        attr == IF on.backref THEN Model(dest) ELSE on.fk[2]
    IN IF q.status = "error" \/ on.fk = <<>> THEN [q EXCEPT !.status = "error"]
       ELSE [q EXCEPT !.from = Append(@, [src |-> src, dest |-> dest, fk |-> on.fk[2], backref |-> on.backref]),
                      !.joins = [s \in DOMAIN @ \cup {src} |->
                                    IF s # src THEN @[s]
                                    ELSE Append(IF s \in DOMAIN @ THEN @[s] ELSE <<>>,
                                                [dest |-> dest, attr |-> attr])]]

\* ensure_join()
EnsureJoin(q, lm, rm, fk) ==
    IF lm \in DOMAIN q.joins /\ \E i \in DOMAIN q.joins[lm] : q.joins[lm][i].dest = rm
    THEN q ELSE Joined(q, lm, rm, fk)

-----------------------------------------------------------------------------
\* convert_dict_to_node(): one keyword.  Each piece goes on to a source that is
\* joined under that name, or else to the model it refers to.
Piece(acc, piece, value) ==
    LET found == SelectSeq(JoinsOf(acc.curr), LAMBDA j : j.attr = piece \/ j.dest = piece)
        attr == IF HasAttr(acc.curr, piece) THEN <<acc.curr, piece>> ELSE acc.attr
        m == Model(acc.curr)
        back == piece \in DOMAIN Backrefs[m]
        step == [lm |-> m, rm |-> Related(m, piece),
                 fk |-> IF back THEN Backrefs[m][piece] ELSE <<m, piece>>]
    IN CASE found # <<>> -> [acc EXCEPT !.attr = attr, !.curr = found[1].dest]
         [] found = <<>> /\ ~HasAttr(acc.curr, piece) -> [acc EXCEPT !.ok = FALSE]
         [] found = <<>> /\ HasAttr(acc.curr, piece) /\ value # None /\ IsPath(acc.curr, piece) ->
                [acc EXCEPT !.attr = attr, !.curr = step.rm, !.joins = Append(@, step)]
         [] OTHER -> [acc EXCEPT !.attr = attr]

Resolve(cond) ==
    LET start == [curr |-> root, attr |-> <<>>, joins |-> <<>>, ok |-> TRUE]
        step(acc, piece) == IF acc.ok THEN Piece(acc, piece, cond.value) ELSE acc
    IN IF Len(cond.path) = 1
       THEN [start EXCEPT !.attr = <<root, cond.path[1]>>, !.ok = HasAttr(root, cond.path[1])]
       ELSE FoldLeft(step, start, cond.path)

\* filter(): the keywords as conditions on sources, the joins they need, each once.
ConvertDict(dq) == [dq EXCEPT !.conds = [i \in DOMAIN @ |->
                        [source |-> Resolve(@[i]).attr[1], field |-> Resolve(@[i]).attr[2], value |-> @[i].value]]]
Conditions(f) == FlattenSeq([i \in DOMAIN f.dqs |-> f.dqs[i].conds])
Needed(f) == FlattenSeq([i \in DOMAIN Conditions(f) |-> Resolve(Conditions(f)[i]).joins])

Filtered(q, f) ==
    LET ensure(acc, j) == EnsureJoin(acc, j.lm, j.rm, j.fk)
    IN IF \E i \in DOMAIN Conditions(f) : ~Resolve(Conditions(f)[i]).ok
       THEN [q EXCEPT !.status = "error"]
       ELSE FoldLeft(ensure, [q EXCEPT !.where = Append(@, [f EXCEPT !.dqs = [i \in DOMAIN @ |-> ConvertDict(@[i])]])],
                     Needed(f))

-----------------------------------------------------------------------------
Query == [from |-> from, joins |-> joins, where |-> where, status |-> status]
Become(q) == from' = q.from /\ joins' = q.joins /\ where' = q.where /\ status' = q.status

Init ==
    /\ root \in Roots /\ from = <<>> /\ joins = [s \in {} |-> <<>>] /\ ctx = root
    /\ where = <<>> /\ asked = <<>> /\ status = "open" /\ steps = 0

Sources == {root} \cup {from[i].dest : i \in DOMAIN from}

\* ModelSelect.join(), or join_from()
Join(j) ==
    /\ status = "open" /\ steps < MaxSteps /\ j[1] \in Sources /\ j[2] \notin Sources /\ asked = <<>>
    /\ Become(Joined(Query, j[1], j[2], IF j[3] = "" THEN <<>> ELSE <<Model(j[1]), j[3]>>))
    /\ ctx' = j[2] /\ steps' = steps + 1
    /\ UNCHANGED <<root, asked>>

\* ModelSelect.filter(): the context for the next join is put back.
Filter(f) ==
    /\ status = "open" /\ steps < MaxSteps
    /\ Become(Filtered(Query, f))
    /\ asked' = Append(asked, f) /\ steps' = steps + 1
    /\ UNCHANGED <<root, ctx>>

Next == (\E j \in Joins : Join(j)) \/ (\E f \in Filters : Filter(f))

Spec == Init /\ [][Next]_filterVars

-----------------------------------------------------------------------------
\* SQL: the values TRUE, FALSE and NULL ("u") of a condition.
Compared(is, value) ==
    CASE value = None -> IF is = None THEN "t" ELSE "f"
      [] value # None /\ is = None -> "u"
      [] OTHER -> IF is = value THEN "t" ELSE "f"
Not(v) == CASE v = "t" -> "f" [] v = "f" -> "t" [] OTHER -> "u"
And(vs) == IF "f" \in vs THEN "f" ELSE IF "u" \in vs THEN "u" ELSE "t"
Or(vs) == IF "t" \in vs THEN "t" ELSE IF "u" \in vs THEN "u" ELSE "f"
Value(f, is(_)) ==
    LET dq(d) == LET v == And({Compared(is(d.conds[i]), d.conds[i].value) : i \in DOMAIN d.conds})
                 IN IF d.negated THEN Not(v) ELSE v
        vs == {dq(f.dqs[i]) : i \in DOMAIN f.dqs}
    IN IF f.op = "or" THEN Or(vs) ELSE And(vs)

Linked(row, m, piece, other) ==
    IF piece \in DOMAIN Fks[m] THEN row[piece] = other.id ELSE other[Backrefs[m][piece][2]] = row.id

\* The rows of the query: one row for each source.
RECURSIVE Envs(_)
Envs(n) ==
    IF n = 0 THEN {[s \in {root} |-> row] : row \in Rows[root]}
    ELSE LET j == from[n]
         IN {[s \in DOMAIN e \cup {j.dest} |-> IF s = j.dest THEN row ELSE e[s]] :
                <<e, row>> \in {p \in Envs(n - 1) \X Rows[Model(j.dest)] :
                    IF j.backref THEN p[2][j.fk] = p[1][j.src].id ELSE p[1][j.src][j.fk] = p[2].id}}
Result == {e[root].id : e \in {d \in Envs(Len(from)) :
            \A i \in DOMAIN where : Value(where[i], LAMBDA c : d[c.source][c.field]) = "t"}}

\* A model that is in the query twice is refused by the database.
Ambiguous == Cardinality(Sources) < 1 + Len(from)

-----------------------------------------------------------------------------
\* What was meant: every path, from the selected row along its foreign keys, is
\* followed to one row; paths that begin alike share their beginning.  The joins
\* the program made itself are paths as well.
RECURSIVE PathTo(_)
PathTo(source) ==
    IF source = root THEN <<>>
    ELSE LET j == CHOOSE x \in ToSet(from) : x.dest = source
         IN Append(PathTo(j.src),
                   IF ~j.backref THEN j.fk
                   ELSE CHOOSE b \in DOMAIN Backrefs[Model(j.src)] : Backrefs[Model(j.src)][b] = <<Model(j.dest), j.fk>>)

\* A path that begins with the name of a source begins where it was joined.
Canonical(path) ==
    IF path[1] \in Sources /\ ~HasAttr(root, path[1]) THEN PathTo(path[1]) \o Tail(path) ELSE path
Conds == UNION {ToSet(Conditions(asked[i])) : i \in DOMAIN asked}
Paths ==
    LET full == {Canonical(c.path) : c \in Conds}
        own == {PathTo(s) : s \in {x.dest : x \in {from[i] : i \in DOMAIN from}} \cap DOMAIN ModelOf}
    IN {<<>>} \cup own \cup UNION {{SubSeq(p, 1, n) : n \in 0 .. Len(p) - 1} : p \in full}
                    \cup {PathTo(from[i].dest) : i \in {k \in DOMAIN from : steps - Len(asked) >= k}}

RECURSIVE ModelAt(_)
ModelAt(path) == IF path = <<>> THEN root ELSE Related(ModelAt(Front(path)), Last(path))

Meant ==
    LET follow(w) == \A p \in Paths \ {<<>>} : Linked(w[Front(p)], ModelAt(Front(p)), Last(p), w[p])
        ways == {w \in [Paths -> UNION {Rows[m] : m \in Models}] :
                    (\A p \in Paths : w[p] \in Rows[ModelAt(p)]) /\ follow(w)}
        is(w, c) == LET p == Canonical(c.path) IN w[Front(p)][Last(p)]
    IN {w[<<>>].id : w \in {v \in ways : \A i \in DOMAIN asked : Value(asked[i], LAMBDA c : is(v, c)) = "t"}}

\* Two paths never come to the same model, but for those an alias was joined for,
\* and no path of several pieces is compared with None.
Plain(p) == LET at == {s \in Sources : PathTo(s) = p} IN at = {} \/ at \cap Models # {}
Single ==
    /\ \A c \in Conds : c.value = None => Len(c.path) = 1
    /\ \A p, q \in Paths : p # q /\ ModelAt(p) = ModelAt(q) => ~Plain(p) \/ ~Plain(q)

\* A filter finds the rows that its paths lead to, whichever joins the program and
\* earlier filters made, and never multiplies or misses a join; a query that
\* cannot do it is refused.
FilterFollowsPaths == status = "open" /\ Single => ~Ambiguous /\ Result = Meant

=============================================================================
