---------------------------- MODULE CompoundSelect ----------------------------
(***************************************************************************)
(* CompoundSelectQuery, peewee.py: how the members of UNION, INTERSECT and *)
(* EXCEPT are written, flat, in parentheses or as a subquery, and what the *)
(* database takes the text for.  A query is a tree: a plain SELECT has no  *)
(* op and some rows, counted by value; every query may have an ORDER BY    *)
(* with a LIMIT, 0 for none.                                               *)
(***************************************************************************)
EXTENDS Integers, Sequences, FiniteSets, SequencesExt

IsCompound(q) == q.op # ""

\* _self_wraps()
SelfWraps(q) == q.limit > 0

\* The left spine of a flat right member, up to what wraps itself.
RECURSIVE Spine(_)
Spine(q) ==
    IF ~IsCompound(q) THEN <<>>
    ELSE <<q>> \o IF SelfWraps(q.lhs) THEN <<>> ELSE Spine(q.lhs)

\* _needs_group(): whether a compound member of op changes its meaning when it is
\* written flat.
NeedsGroup(op, q, left) ==
    \/ SelfWraps(q)
    \/ left /\ op = "INTERSECT" /\ q.op # op
    \/ ~left /\ op = "EXCEPT"
    \/ ~left /\ \E n \in ToSet(Spine(q)) : n.op # op

\* _union_only()
RECURSIVE UnionOnly(_)
UnionOnly(q) ==
    IsCompound(q) => /\ q.op \in {"UNION", "UNION ALL"} /\ ~SelfWraps(q)
                     /\ UnionOnly(q.lhs) /\ UnionOnly(q.rhs)

\* _member_style() by compound_select_parentheses; nested is in_expr or
\* in_function.
MemberStyle(csq, nested, op, q, left) ==
    CASE csq = "NEVER" ->
            IF (IsCompound(q) /\ NeedsGroup(op, q, left)) \/ SelfWraps(q) THEN "wrap" ELSE "flat"
      [] csq = "ALWAYS" -> "parens"
      [] csq = "UNNESTED" -> IF nested \/ IsCompound(q) THEN "flat" ELSE "parens"
      [] csq = "GROUPED" ->
            IF IsCompound(q)
            THEN IF nested /\ op \in {"UNION", "UNION ALL"} /\ UnionOnly(q) THEN "flat"
                 ELSE IF NeedsGroup(op, q, left) THEN "parens" ELSE "flat"
            ELSE IF nested THEN "flat" ELSE "parens"

-----------------------------------------------------------------------------
\* The text of a query, as tokens.
Token(t, arg) == [t |-> t, arg |-> arg]
Ordering(q) == IF q.limit = 0 THEN <<>> ELSE <<Token("limit", q.limit)>>

RECURSIVE Text(_, _, _)
Text(csq, nested, q) ==
    LET member(m, left) ==
            CASE MemberStyle(csq, nested, q.op, m, left) = "flat" -> Text(csq, nested, m)
              [] MemberStyle(csq, nested, q.op, m, left) = "parens" ->
                    <<Token("(", "")>> \o Text(csq, nested, m) \o <<Token(")", "")>>
              [] OTHER -> <<Token("(", "wrap")>> \o Text(csq, nested, m) \o <<Token(")", "")>>
    IN (IF IsCompound(q) THEN member(q.lhs, TRUE) \o <<Token("op", q.op)>> \o member(q.rhs, FALSE)
        ELSE <<Token("select", q.rows)>>) \o Ordering(q)

-----------------------------------------------------------------------------
\* Rows by value, and what the operators do with them.
Values(a) == DOMAIN a
Once(a) == [v \in Values(a) |-> IF a[v] > 0 THEN 1 ELSE 0]
Combined(op, a, b) ==
    CASE op = "UNION ALL" -> [v \in Values(a) |-> a[v] + b[v]]
      [] op = "UNION" -> Once([v \in Values(a) |-> a[v] + b[v]])
      [] op = "INTERSECT" -> [v \in Values(a) |-> IF a[v] > 0 /\ b[v] > 0 THEN 1 ELSE 0]
      [] op = "EXCEPT" -> [v \in Values(a) |-> IF a[v] > 0 /\ b[v] = 0 THEN 1 ELSE 0]

\* The first n rows in the order of their values; n = 0 is no limit.
RECURSIVE SumBelow(_, _)
SumBelow(a, v) == IF v \notin Values(a) THEN 0 ELSE a[v] + SumBelow(a, v - 1)
Limited(a, n) ==
    IF n = 0 THEN a
    ELSE [v \in Values(a) |->
            LET left == n - SumBelow(a, v - 1)
            IN IF left <= 0 THEN 0 ELSE IF a[v] < left THEN a[v] ELSE left]

\* What the program means.
RECURSIVE Meant(_)
Meant(q) ==
    Limited(IF IsCompound(q) THEN Combined(q.op, Meant(q.lhs), Meant(q.rhs)) ELSE q.rows, q.limit)

\* What the database reads.  Members are combined from left to right, in SQLite
\* all of them, elsewhere INTERSECT first; an ordering belongs to the whole.
Error == <<>>
Depth(s, i) == Cardinality({k \in 1 .. i : s[k].t = "("}) - Cardinality({k \in 1 .. i - 1 : s[k].t = ")"})
Outer(s, t) == {i \in DOMAIN s : s[i].t = t /\ Depth(s, i) = 0}

RECURSIVE Understood(_, _)
Understood(lite, s) ==
    LET limits == Outer(s, "limit")
        ops == Outer(s, "op")
        weak == IF lite \/ \A i \in ops : s[i].arg = "INTERSECT"
                THEN ops ELSE {i \in ops : s[i].arg # "INTERSECT"}
        at == CHOOSE i \in weak : \A k \in weak : k <= i
        body == IF limits = {} THEN s ELSE Front(s)
        l == Understood(lite, SubSeq(body, 1, at - 1))
        r == Understood(lite, SubSeq(body, at + 1, Len(body)))
        inner == Understood(lite, SubSeq(body, 2, Len(body) - 1))
        rows == IF ops # {} THEN IF Error \in {l, r} THEN Error ELSE Combined(s[at].arg, l, r)
                ELSE IF Head(body).t = "select" THEN Head(body).arg
                ELSE IF lite /\ Head(body).arg # "wrap" THEN Error ELSE inner
    IN IF ~limits \subseteq {Len(s)} \/ rows = Error THEN Error
       ELSE Limited(rows, IF limits = {} THEN 0 ELSE Last(s).arg)

-----------------------------------------------------------------------------
\* The servers for which the setting promises to keep the meaning, and the texts
\* it is promised for: a plain member of IN and EXISTS has no ordering of its own.
RECURSIVE PlainMembers(_)
PlainMembers(q) ==
    IF IsCompound(q) THEN PlainMembers(q.lhs) /\ PlainMembers(q.rhs) ELSE ~SelfWraps(q)

Promised(csq, nested, q) == csq # "UNNESTED" /\ (csq = "GROUPED" /\ nested => PlainMembers(q))

\* The database understands what was meant; inside of an expression all that
\* counts is which rows there are.
MeaningKept(csq, nested, q) ==
    LET is == Understood(csq = "NEVER", Text(csq, nested, q))
    IN Promised(csq, nested, q) =>
         /\ is # Error
         /\ IF nested THEN Once(is) = Once(Meant(q)) ELSE is = Meant(q)
=============================================================================
