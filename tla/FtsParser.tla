------------------------------- MODULE FtsParser -------------------------------
(***************************************************************************)
(* playhouse/fts_parser.py: what a user types into a search box becomes a  *)
(* query of SQLite's FTS5.                                                 *)
(*                                                                         *)
(* A token is a pair: <<"(", "">>, <<")", "">>, <<"neg", "">>, <<"op", o>>,*)
(* <<"col", c>> or <<"term", t>>.  A node is a record: kind ("t", "col",   *)
(* "and", "or" or "not"), text and kids; the first kid of a "not" is what  *)
(* the others are taken from.  A document maps a column to a set of words. *)
(***************************************************************************)
EXTENDS Integers, Sequences, FiniteSets, SequencesExt

CONSTANTS
    Words, Columns,     \* what queries are written with
    Documents,          \* documents: column -> words
    MaxDepth,           \* MAX_DEPTH
    MaxTokens           \* bound: the length of a query

VARIABLE typed

ftsVars == <<typed>>

Symbols == {<<"(", "">>, <<")", "">>, <<"neg", "">>, <<"op", "AND">>, <<"op", "OR">>, <<"op", "NOT">>}
           \cup {<<"col", c>> : c \in Columns} \cup {<<"term", t>> : t \in Words}

\* _scan(): "AND NOT" means NOT.
Scanned(tokens) ==
    FoldLeft(LAMBDA accum, token :
                 IF token = <<"op", "NOT">> /\ accum # <<>> /\ Last(accum) = <<"op", "AND">>
                 THEN Append(Front(accum), token) ELSE Append(accum, token),
             <<>>, tokens)

\* _balance(): a ")" that closes nothing is dropped, a "(" that is not closed is
\* closed, and what is nested too deep loses its parentheses.
Balance(tokens) ==
    LET step(s, token) ==
            CASE token[1] = "(" /\ s.depth = MaxDepth -> [s EXCEPT !.dropped = @ + 1]
              [] token[1] = "(" -> [s EXCEPT !.depth = @ + 1, !.accum = Append(@, token)]
              [] token[1] = ")" /\ s.dropped > 0 -> [s EXCEPT !.dropped = @ - 1]
              [] token[1] = ")" /\ s.depth = 0 -> s
              [] token[1] = ")" -> [s EXCEPT !.depth = @ - 1, !.accum = Append(@, token)]
              [] OTHER -> [s EXCEPT !.accum = Append(@, token)]
    IN  FoldLeft(step, [depth |-> 0, dropped |-> 0, accum |-> <<>>], tokens)
Balanced(tokens) ==
    LET end == Balance(tokens) IN end.accum \o [i \in 1..end.depth |-> <<")", "">>]

-----------------------------------------------------------------------------
Nothing == [kind |-> "none", text |-> "", kids |-> <<>>]
Node(kind, text, kids) == [kind |-> kind, text |-> text, kids |-> kids]
Some(nodes) == SelectSeq(nodes, LAMBDA n : n # Nothing)
Joined(kind, nodes) ==
    CASE nodes = <<>> -> Nothing [] Len(nodes) = 1 -> nodes[1] [] OTHER -> Node(kind, "", nodes)
Peek(ts, pos) == IF pos <= Len(ts) THEN ts[pos][1] ELSE "end"
IsOp(ts, pos, op) == pos <= Len(ts) /\ ts[pos] = <<"op", op>>

\* In the following, at[rule, pos] is what a rule makes of the tokens from pos on, and
\* the position it stops at.

\* _parse_atom(): a term or a group, with what stands before it.
ParseAtom(ts, pos, at) ==
    LET negate == Peek(ts, pos) = "neg"
        p == IF negate THEN pos + 1 ELSE pos
        scoped == Peek(ts, p) = "col"
        q == IF scoped THEN p + 1 ELSE p
        in(node) == IF scoped /\ node # Nothing THEN Node("col", ts[p][2], <<node>>) ELSE node
    IN  CASE Peek(ts, q) = "term" ->
               [node |-> in(Node("t", ts[q][2], <<>>)), pos |-> q + 1, negate |-> negate]
          [] Peek(ts, q) = "(" ->
               LET group == at["or", q + 1]
               IN  [node |-> in(Joined("or", Some(group.nodes))), negate |-> negate,
                    pos |-> IF Peek(ts, group.pos) = ")" THEN group.pos + 1 ELSE group.pos]
          [] OTHER -> [node |-> Nothing, pos |-> q, negate |-> FALSE]

\* _parse_not(): "a NOT b NOT c".
Taken(node, rights) ==
    FoldLeft(LAMBDA left, right : IF Nothing \in {left, right} THEN left
                                  ELSE Node("not", "", <<left, right>>), node, rights)
ParseNots(ts, pos, at) ==
    IF ~IsOp(ts, pos, "NOT") THEN [nodes |-> <<>>, pos |-> pos]
    ELSE LET right == at["atom", pos + 1]
             rest == at["nots", right.pos]
         IN  [nodes |-> <<right.node>> \o rest.nodes, pos |-> rest.pos]

\* _parse_and(): what stands side by side; exclusions are taken from all the rest,
\* and dropped where there is none.
Excluding(positive, negative) ==
    CASE positive = <<>> -> Nothing
      [] negative = <<>> -> Joined("and", positive)
      [] OTHER -> Node("not", "", <<Joined("and", positive)>> \o negative)
ParseAnd(ts, pos, at) ==
    CASE Peek(ts, pos) \in {")", "end"} \/ IsOp(ts, pos, "OR") ->
           [positive |-> <<>>, negative |-> <<>>, pos |-> pos]
      [] Peek(ts, pos) = "op" /\ ~IsOp(ts, pos, "OR") -> at["and", pos + 1]
      [] OTHER ->
           LET atom == at["atom", pos]
               nots == at["nots", atom.pos]
               unary == Taken(atom.node, nots.nodes)
               rest == at["and", nots.pos]
           IN  CASE unary = Nothing -> rest
                 [] unary # Nothing /\ atom.negate -> [rest EXCEPT !.negative = <<unary>> \o @]
                 [] OTHER -> [rest EXCEPT !.positive = <<unary>> \o @]

\* _parse_or(): the groups between the ORs, without those that say nothing.
ParseOr(ts, pos, at) ==
    LET group == at["and", pos]
        rest == IF IsOp(ts, group.pos, "OR") THEN at["or", group.pos + 1]
                ELSE [nodes |-> <<>>, pos |-> group.pos]
    IN  [nodes |-> <<Excluding(group.positive, group.negative)>> \o rest.nodes, pos |-> rest.pos]

Parser(ts) ==
    LET at[rule \in {"or", "and", "nots", "atom"}, pos \in 1..(Len(ts) + 1)] ==
            CASE rule = "or" -> ParseOr(ts, pos, at)
              [] rule = "and" -> ParseAnd(ts, pos, at)
              [] rule = "nots" -> ParseNots(ts, pos, at)
              [] rule = "atom" -> ParseAtom(ts, pos, at)
    IN  at

\* translate(): until the last token.
TranslateAll(ts) ==
    LET parser == Parser(ts)
        from[pos \in 1..(Len(ts) + 2)] ==
            IF pos > Len(ts) THEN <<>>
            ELSE LET r == parser["or", pos]
                 IN  <<Joined("or", Some(r.nodes))>> \o from[IF r.pos = pos THEN pos + 1 ELSE r.pos]
    IN  Joined("and", Some(from[1]))
Translate(tokens) == TranslateAll(Balanced(Scanned(tokens)))

-----------------------------------------------------------------------------
\* What FTS5 finds, the query being rendered with parentheses around what is nested.
RECURSIVE Matches(_, _, _)
Matches(node, doc, columns) ==
    CASE node.kind = "t" -> \E c \in columns : node.text \in doc[c]
      [] node.kind = "col" -> Matches(node.kids[1], doc, columns \cap {node.text})
      [] node.kind = "and" -> \A i \in DOMAIN node.kids : Matches(node.kids[i], doc, columns)
      [] node.kind = "or" -> \E i \in DOMAIN node.kids : Matches(node.kids[i], doc, columns)
      [] node.kind = "not" -> /\ Matches(node.kids[1], doc, columns)
                              /\ \A i \in 2..Len(node.kids) : ~Matches(node.kids[i], doc, columns)
      [] OTHER -> FALSE
Found(tokens) == {d \in Documents : Matches(Translate(tokens), d, Columns)}

Init == typed = <<>>
Type == Len(typed) < MaxTokens /\ \E s \in Symbols : typed' = Append(typed, s)
Next == Type

Spec == Init /\ [][Next]_ftsVars

-----------------------------------------------------------------------------
RECURSIVE WellFormed(_)
WellFormed(node) ==
    CASE node.kind = "t" -> node.kids = <<>>
      [] node.kind = "col" -> Len(node.kids) = 1 /\ WellFormed(node.kids[1])
      [] OTHER -> Len(node.kids) > 1 /\ \A i \in DOMAIN node.kids : WellFormed(node.kids[i])
Open(tokens) == LET end == Balance(tokens) IN end.depth + end.dropped > 0

OnlyExcludes(tokens) ==
    \A i \in DOMAIN tokens : tokens[i][1] = "term" => i > 1 /\ tokens[i - 1][1] = "neg"

\* Whatever is typed becomes a query FTS5 takes, or none; to exclude a word never
\* finds more, and an alternative never finds less, than what was typed before; and
\* a query that only excludes finds nothing, rather than what it means to exclude.
TypedMeans ==
    /\ LET node == Translate(typed) IN node = Nothing \/ WellFormed(node)
    /\ \A t \in Words :
        /\ (typed # <<>> /\ ~Open(typed) /\ Last(typed)[1] \notin {"neg", "col", "op"}) =>
              /\ Found(typed \o <<<<"neg", "">>, <<"term", t>>>>) \subseteq Found(typed)
              /\ Found(typed) \subseteq Found(typed \o <<<<"op", "OR">>, <<"term", t>>>>)
    /\ OnlyExcludes(typed) => Found(typed) = {}
=============================================================================
