------------------------------ MODULE SqlScopes -------------------------------
(***************************************************************************)
(* Context and AliasManager, peewee.py: a tree of queries, sources and     *)
(* expressions is written from left to right, and each source gets its     *)
(* alias when it is met for the first time, which may be before the FROM   *)
(* that declares it.  A Context c holds what was written, the aliases of   *)
(* each level and the settings of the moment.  A declaration and a         *)
(* reference keep, beside the alias, the source that was meant.            *)
(*                                                                         *)
(* Nodes are records by k: table, col, val, expr, fn, named, join, cte,    *)
(* select, compound, update, delete.                                       *)
(***************************************************************************)
EXTENDS CompoundSelect

CONSTANTS Queries, Settings

VARIABLES query, csq, written

sqlVars == <<query, csq, written>>

NoQuery == [k |-> "none"]

Context(setting) ==
    [out |-> <<>>, params |-> <<>>, maps |-> <<[s \in {} |-> ""]>>, counter |-> 0, csq |-> setting,
     scope |-> "normal", subquery |-> FALSE, inExpr |-> FALSE, inFn |-> FALSE, args |-> 0,
     inProjection |-> FALSE]

Write(c, t, alias, of) == [c EXCEPT !.out = Append(@, [t |-> t, alias |-> alias, of |-> of])]
Open(c, paren) == IF paren THEN Write(c, "(", "", "") ELSE c
Shut(c, paren) == IF paren THEN Write(c, ")", "", "") ELSE c

\* Leaving a with block: the settings of c again, what d wrote and named stays.
Left(c, d) == [c EXCEPT !.out = d.out, !.params = d.params, !.maps = d.maps, !.counter = d.counter]

-----------------------------------------------------------------------------
\* AliasManager: add(), __setitem__() and lookup in the level of the moment.
Mapping(c) == Last(c.maps)
Named(c, s, alias) == [c EXCEPT !.maps[Len(c.maps)] = [x \in DOMAIN @ \cup {s} |-> IF x = s THEN alias ELSE @[x]]]
Add(c, s) ==
    IF s \in DOMAIN Mapping(c) THEN c
    ELSE Named([c EXCEPT !.counter = @ + 1], s, "t" \o ToString(c.counter + 1))

\* The alias the program gave to a source wins.
Known(c, n) == IF n.alias = "" THEN Add(c, n.id) ELSE Named(c, n.id, n.alias)

\* apply_alias() and apply_column()
ApplyAlias(c, n) ==
    IF c.scope # "source" THEN c
    ELSE LET d == Known(c, n) IN Write(d, "as", Mapping(d)[n.id], n.id)
ApplyColumn(c, n) == LET d == Known(c, n) IN Write(d, "ref", Mapping(d)[n.id], n.id)

-----------------------------------------------------------------------------
\* _subquery_parens(), _apply_subquery_alias()
SubqueryParens(c) == ~(c.inFn /\ c.args = 1) /\ (c.subquery \/ c.scope = "source")
SubqueryAlias(c, n) ==
    IF c.inFn \/ (n.alias = "" /\ (c.inExpr \/ c.inProjection)) THEN c ELSE ApplyAlias(c, n)

RECURSIVE Sql(_, _)
RECURSIVE SqlAll(_, _)
SqlAll(c, nodes) == IF nodes = <<>> THEN c ELSE SqlAll(Sql(c, Head(nodes)), Tail(nodes))

\* Table.__sql__
TableSql(c, n) ==
    IF c.scope = "values" THEN Write(c, "name", n.name, n.id)
    ELSE IF c.scope = "source" THEN ApplyAlias(c, n) ELSE ApplyColumn(c, n)

\* Column.__sql__
ColumnSql(c, n) ==
    IF c.scope = "values" THEN Write(c, "name", n.name, n.of.id)
    ELSE Left(c, Sql([c EXCEPT !.scope = "column"], n.of))

\* Expression.__sql__: an operand of another expression is in parentheses.
ExpressionSql(c, n) ==
    Left(c, Shut(SqlAll(Open([c EXCEPT !.inExpr = TRUE], TRUE), n.operands), TRUE))

\* Function.__sql__
FunctionSql(c, n) ==
    Left(c, Shut(SqlAll(Open([c EXCEPT !.inFn = TRUE, !.args = Len(n.operands)], TRUE), n.operands), TRUE))

\* Alias.__sql__: declared in the SELECT list, a name elsewhere.
AliasSql(c, n) ==
    IF c.scope = "source" THEN Write(Sql(c, n.node), "label", n.name, "")
    ELSE Write(c, "name", n.name, "")

\* Join.__sql__
JoinSql(c, n) == Sql(Sql(Sql(c, n.lhs), n.rhs), n.on)

\* CTE.__sql__: described before the query, in a level of its own; then a name.
CteSql(c, n) ==
    IF c.scope # "cte" THEN Write(c, IF c.scope = "source" THEN "as" ELSE "ref", n.alias, n.id)
    ELSE LET pushed == Named([c EXCEPT !.maps = Append(@, [s \in {} |-> ""])], n.id, n.alias)
             d == Shut(Sql(Open([pushed EXCEPT !.scope = "normal"], TRUE), n.query), TRUE)
         IN Left(c, [d EXCEPT !.maps = Front(@)])

\* Query.__sql__
Ctes(c, n) == Left(c, SqlAll([c EXCEPT !.scope = "cte", !.subquery = FALSE], n.ctes))

\* Select.__sql__
SelectSql(c, n) ==
    LET paren == SubqueryParens(c)
        inner == [Open(c, paren) EXCEPT !.scope = "normal", !.subquery = TRUE, !.inExpr = FALSE,
                                        !.inFn = FALSE, !.inProjection = FALSE]
        start == Write(Ctes(inner, n), "select", "", n.id)
        listed == Left(inner, SqlAll([start EXCEPT !.scope = "source", !.inProjection = TRUE], n.columns))
        from == Left(inner, SqlAll([listed EXCEPT !.scope = "source"], n.from))
        rest == SqlAll(SqlAll(from, n.where), n.order)
    IN IF c.scope = "column" THEN ApplyColumn(c, n)
       ELSE SubqueryAlias(Left(c, Shut(rest, paren)), n)

\* _member_sql()
MemberSql(c, n, m, left) ==
    LET style == MemberStyle(c.csq, c.inExpr \/ c.inFn, n.op, m, left)
        d == IF style = "wrap" THEN Write(c, "select", "", "") ELSE c
    IN Left(c, Shut(Sql([Open(d, style # "flat") EXCEPT !.scope = "normal", !.subquery = FALSE], m),
                    style # "flat"))

\* Mutation: the right member sees no alias of the queries around it.
OuterAliasesNone(c) == [s \in {} |-> ""]

OuterAliases(c) == Mapping(c)

\* CompoundSelectQuery.__sql__: the right member has a level of its own, which
\* starts with the aliases there were before the left one.
CompoundSql(c, n) ==
    LET paren == SubqueryParens(c)
        start == Open(Ctes(c, n), paren)
        lhs == Write(MemberSql(start, n, n.lhs, TRUE), "op", n.op, "")
        rhs == MemberSql([lhs EXCEPT !.maps = Append(@, OuterAliases(start))], n, n.rhs, FALSE)
        ordered == Left(c, SqlAll([rhs EXCEPT !.maps = Front(@), !.scope = "values"], n.order))
    IN IF c.scope = "column" THEN ApplyColumn(c, n)
       ELSE SubqueryAlias(Left(c, Shut(ordered, paren)), n)

\* Update.__sql__ and Delete.__sql__: the table goes by its own name.
WriteSql(c, n) ==
    LET start == Named(Ctes(c, n), n.table.id, n.table.name)
        values == [Write(start, "write", n.k, "") EXCEPT !.scope = "values", !.subquery = TRUE]
        target == Write(Sql(values, n.table), "as", n.table.name, n.table.id)
        set == Left(target, SqlAll([target EXCEPT !.scope = "normal"], n.set))
        from == Left(set, SqlAll([set EXCEPT !.scope = "source"], n.from))
    IN Left(c, SqlAll([from EXCEPT !.scope = "normal"], n.where))

Sql(c, n) ==
    CASE n.k = "table" -> TableSql(c, n)
      [] n.k = "col" -> ColumnSql(c, n)
      [] n.k = "val" -> [Write(c, "?", n.value, "") EXCEPT !.params = Append(@, n.value)]
      [] n.k = "expr" -> ExpressionSql(c, n)
      [] n.k = "fn" -> FunctionSql(c, n)
      [] n.k = "named" -> AliasSql(c, n)
      [] n.k = "join" -> JoinSql(c, n)
      [] n.k = "cte" -> CteSql(c, n)
      [] n.k = "select" -> SelectSql(c, n)
      [] n.k = "compound" -> CompoundSql(c, n)
      [] n.k \in {"update", "delete"} -> WriteSql(c, n)

-----------------------------------------------------------------------------
Init == query = NoQuery /\ csq = "NEVER" /\ written = <<>>

\* Database.execute(): one query, one Context.
Execute(q, setting) ==
    /\ query = NoQuery
    /\ query' = q /\ csq' = setting
    /\ written' = Sql(Context(setting), q)

Next == \E q \in Queries, s \in Settings : Execute(q, s)

Spec == Init /\ [][Next]_sqlVars

-----------------------------------------------------------------------------
\* How a database finds what an alias stands for: in the query that is around it,
\* one member of a compound, else in the one around that.  Opens(s)[i] is the
\* parenthesis that the token at i is in, 0 for none.
Opens(s) ==
    LET next(acc, x) ==
            LET n == Len(acc)
            IN Append(acc, CASE n = 0 -> 0
                             [] n > 0 /\ s[n].t = "(" -> n
                             [] n > 0 /\ s[n].t = ")" -> acc[acc[n]]
                             [] OTHER -> acc[n])
    IN FoldLeft(next, <<>>, s)

\* Declarations of the member that the token at i belongs to, at its own level.
Declared(s, opens, i) ==
    {j \in DOMAIN s : s[j].t = "as" /\ opens[j] = opens[i]
        /\ \A m \in DOMAIN s : s[m].t = "op" /\ opens[m] = opens[i] => (m < i) = (m < j)}

RECURSIVE Found(_, _, _, _)
Found(s, opens, i, alias) ==
    LET here == {j \in Declared(s, opens, i) : s[j].alias = alias}
    IN IF here # {} THEN {s[j].of : j \in here}
       ELSE IF opens[i] = 0 THEN {} ELSE Found(s, opens, opens[i], alias)

\* A compound that is correlated with a query whose FROM comes after it.
RECURSIVE Nodes(_)
Nodes(n) ==
    {n} \cup UNION {Nodes(m) : m \in
        CASE n.k = "col" -> {}
          [] n.k \in {"expr", "fn"} -> ToSet(n.operands)
          [] n.k = "named" -> {n.node}
          [] n.k = "join" -> {n.lhs, n.rhs, n.on}
          [] n.k = "cte" -> {n.query}
          [] n.k = "select" -> ToSet(n.columns \o n.from \o n.where \o n.order \o n.ctes)
          [] n.k = "compound" -> {n.lhs, n.rhs} \cup ToSet(n.order \o n.ctes)
          [] n.k \in {"update", "delete"} -> ToSet(n.set \o n.from \o n.where \o n.ctes)
          [] OTHER -> {}}

ListedCompound(q) ==
    \E n \in Nodes(q) : n.k = "select" /\ \E m \in ToSet(n.columns) : \E x \in Nodes(m) : x.k = "compound"

Resolved(s) ==
    LET opens == Opens(s)
    IN \A i \in DOMAIN s : s[i].t = "ref" => Found(s, opens, i, s[i].alias) = {s[i].of}

\* Every reference in the text means the source the program meant, found in the
\* scope a database looks in, however queries are nested, joined, correlated,
\* combined or named; two sources of one FROM never share an alias; and a
\* placeholder is where its parameter is.
AliasesResolve ==
    query # NoQuery =>
        LET s == written.out
            opens == Opens(s) IN
        /\ ListedCompound(query) \/ Resolved(s)
        /\ \A i, j \in DOMAIN s : s[i].t = "as" /\ s[j].t = "as" /\ j \in Declared(s, opens, i)
                                    /\ s[i].alias = s[j].alias => i = j
        /\ LET holes == SelectSeq(s, LAMBDA x : x.t = "?")
           IN [i \in DOMAIN holes |-> holes[i].alias] = written.params
        /\ Len(written.maps) = 1

=============================================================================
