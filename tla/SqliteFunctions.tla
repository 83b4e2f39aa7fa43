---------------------------- MODULE SqliteFunctions ----------------------------
(***************************************************************************)
(* playhouse/sqlite_udf.py: aggregates over the values of a group, which   *)
(* they take from a heap in order, and json_contains().  An average is a   *)
(* pair of integers, the sum and what it is divided by.                    *)
(*                                                                         *)
(* A JSON document is a record: kind ("atom", "list" or "dict"), atom,     *)
(* list (a sequence of documents) and dict (a function from keys, which    *)
(* come in the order of JsonKeys).                                         *)
(***************************************************************************)
EXTENDS Integers, Sequences, FiniteSets, SequencesExt, FiniteSetsExt

CONSTANTS
    Numbers, MaxGroup,         \* values of a group, and how many
    Atoms, JsonKeys, MaxSize,  \* what documents are made of; the size of a list
    None

VARIABLES given, doc, before

functionVars == <<given, doc, before>>

-----------------------------------------------------------------------------
\* heappop() until the heap is empty.
Sorted(values) == SortSeq(values, LAMBDA a, b : a < b)

\* The loop of minrange and mintdiff: the difference of each value to the one before.
Stepped(s, curr) ==
    LET diff == curr - s.prev
    IN  [prev |-> curr, least |-> IF s.least = -1 \/ s.least > diff THEN diff ELSE s.least,
         total |-> s.total + diff, ct |-> s.ct + 1]
Walk(values) ==
    FoldLeft(Stepped, [prev |-> Sorted(values)[1], least |-> -1, total |-> 0, ct |-> 0],
             Tail(Sorted(values)))

MinTDiff(values) == IF Len(values) < 2 THEN None ELSE Walk(values).least
MinRange(values) ==
    CASE values = <<>> -> None [] Len(values) = 1 -> 0 [] OTHER -> Walk(values).least
\* avgrange and avgtdiff
AvgRange(values) ==
    CASE values = <<>> -> None
      [] Len(values) = 1 -> <<0, 1>>
      [] OTHER -> <<Walk(values).total, Walk(values).ct>>

\* duration and range: step() keeps the least and the greatest value.
Extremes(values) ==
    FoldLeft(LAMBDA s, v : [min |-> IF v < s.min THEN v ELSE s.min,
                            max |-> IF v > s.max THEN v ELSE s.max],
             [min |-> values[1], max |-> values[1]], values)
RangeOf(values) == IF values = <<>> THEN None ELSE Extremes(values).max - Extremes(values).min

\* mode: the most frequent one, the first that was met among equals.
Count(values, v) == Cardinality({i \in DOMAIN values : values[i] = v})
Mode(values) ==
    IF values = <<>> THEN None
    ELSE values[CHOOSE i \in DOMAIN values : \A j \in DOMAIN values :
                   \/ Count(values, values[j]) < Count(values, values[i])
                   \/ Count(values, values[j]) = Count(values, values[i]) /\ i <= j]

\* stddev: the sum of the squares of the deviations from the mean, times n^2, and
\* what it is divided by: the square of the result.
Variance(values) ==
    LET n == Len(values)
        sum == FoldLeft(LAMBDA s, v : s + v, 0, values)
    IN  IF n <= 1 THEN <<0, 1>>
        ELSE <<FoldLeft(LAMBDA s, v : s + (n * v - sum) * (n * v - sum), 0, values), n * n * (n - 1)>>

-----------------------------------------------------------------------------
Atom(a) == [kind |-> "atom", atom |-> a, list |-> <<>>, dict |-> <<>>]
List(l) == [kind |-> "list", atom |-> None, list |-> l, dict |-> <<>>]
Dict(d) == [kind |-> "dict", atom |-> None, list |-> <<>>, dict |-> d]
KeysOf(d) == SelectSeq(JsonKeys, LAMBDA k : k \in DOMAIN d)

\* An item is looked up in an object; a list or an object cannot be, a TypeError.
Lookup(src, item) ==
    CASE item.kind # "atom" -> "error"
      [] item.atom \in DOMAIN src.dict -> "yes"
      [] OTHER -> "no"

\* The first answer that is not "yes" is the answer.
First(answers) == FoldLeft(LAMBDA all, one : IF all = "yes" THEN one ELSE all, "yes", answers)
Answer(holds) == IF holds THEN "yes" ELSE "no"

\* json_contains(): the pairs on the stack that are still to be compared, the last
\* one first.
RECURSIVE JsonContains(_, _)
JsonContains(src, obj) ==
    CASE src.kind = "dict" /\ obj.kind = "dict" ->
           IF DOMAIN obj.dict \subseteq DOMAIN src.dict
           THEN LET ks == Reverse(KeysOf(obj.dict))
                IN  First([i \in DOMAIN ks |-> JsonContains(src.dict[ks[i]], obj.dict[ks[i]])])
           ELSE "no"
      [] src.kind = "dict" /\ obj.kind = "list" ->
           First([i \in DOMAIN obj.list |-> Lookup(src, obj.list[i])])
      [] src.kind = "dict" -> Lookup(src, obj)
      [] src.kind = "list" /\ obj.kind = "dict" -> "no"
      [] src.kind = "list" /\ obj.kind = "list" ->
           IF Len(obj.list) <= Len(src.list)
           THEN First(Reverse([i \in DOMAIN obj.list |-> JsonContains(src.list[i], obj.list[i])]))
           ELSE "no"
      [] src.kind = "list" -> Answer(obj \in ToSet(src.list))
      [] OTHER -> Answer(obj = src)

\* Documents of one more level.
Larger(docs) ==
    docs \cup {List(l) : l \in BoundedSeq(docs, MaxSize)}
         \cup UNION {{Dict(d) : d \in [ks -> docs]} : ks \in SUBSET ToSet(JsonKeys)}

AtomDocs == {Atom(a) : a \in Atoms}
Docs == Larger(Larger(AtomDocs))

-----------------------------------------------------------------------------
Init == given = <<>> /\ doc \in Docs /\ before = doc

\* step() of the aggregates, and their finalize().
Step ==
    /\ Len(given) < MaxGroup
    /\ doc.kind = "atom"
    /\ \E n \in Numbers : given' = Append(given, n)
    /\ UNCHANGED <<doc, before>>

\* The document that is searched grows, on top or in a member, of whatever level.
RECURSIVE Grown(_)
Grown(d) ==
    CASE d.kind = "list" ->
           {List(Append(d.list, a)) : a \in IF Len(d.list) <= MaxSize THEN AtomDocs ELSE {}}
             \cup UNION {{List([d.list EXCEPT ![i] = m]) : m \in Grown(d.list[i])} : i \in DOMAIN d.list}
      [] d.kind = "dict" ->
           {Dict([k \in DOMAIN d.dict \cup {j} |-> IF k = j THEN a ELSE d.dict[k]]) :
               j \in ToSet(JsonKeys) \ DOMAIN d.dict, a \in AtomDocs}
             \cup UNION {{Dict([d.dict EXCEPT ![k] = m]) : m \in Grown(d.dict[k])} : k \in DOMAIN d.dict}
      [] OTHER -> {}
Grow ==
    /\ given = <<>>
    /\ doc' \in Grown(doc)
    /\ before' = doc
    /\ UNCHANGED given

Next == Step \/ Grow

Spec == Init /\ [][Next]_functionVars

-----------------------------------------------------------------------------
\* The aggregates are what their names say of the values of a group, in whatever
\* order the database delivers them and whichever occur several times.
Distance(a, b) == IF a < b THEN b - a ELSE a - b
AggregatesRight ==
    LET n == Len(given)
        spread == Max(ToSet(given)) - Min(ToSet(given))
        pairs == {q \in (1..n) \X (1..n) : q[1] < q[2]}
        apart == {Distance(given[p[1]], given[p[2]]) : p \in pairs}
    IN  n > 1 =>
        /\ MinRange(given) = Min(apart) /\ MinTDiff(given) = Min(apart)
        /\ AvgRange(given)[1] = spread /\ AvgRange(given)[2] = n - 1
        /\ RangeOf(given) = spread
        /\ \A v \in ToSet(given) : Count(given, v) <= Count(given, Mode(given))
        /\ Variance(given)[1] = n * MapThenSumSet(LAMBDA p : Distance(given[p[1]], given[p[2]]) ^ 2, pairs)

\* A document contains itself, and what it contains it still contains when something is
\* added to it, in a list or an object of whatever level; and where the search raised
\* a TypeError, for a list or an object that is looked up in an object, it still does.
ContainmentGrows ==
    /\ JsonContains(doc, doc) = "yes"
    /\ JsonContains(doc, before) = "yes"
    /\ \A obj \in Docs : JsonContains(before, obj) \in {"no", JsonContains(doc, obj)}

\* The aggregates are those of the whole group, and a document contains its parts.
FunctionsRight == AggregatesRight /\ ContainmentGrows
=============================================================================
