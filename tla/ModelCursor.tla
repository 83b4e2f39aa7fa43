----------------------------- MODULE ModelCursor -----------------------------
(***************************************************************************)
(* How the rows of a joined query become a graph of objects: the joins     *)
(* that ModelSelect.join() records, the plan that ModelCursorWrapper makes *)
(* of them before the first row, and what it does with each row.  The      *)
(* database says of each row which of the sources matched; the graph of    *)
(* objects should say the same.                                            *)
(***************************************************************************)
EXTENDS Integers, Sequences, FiniteSets, SequencesExt

CONSTANTS
    Root,      \* the model that is selected from
    Others,    \* the sources that can be joined to it, in a sequence
    Kinds,     \* how a source hangs on another: "fk", "backref", "dict"
    Columns    \* what is selected of a source: "none", "key", "other"

VARIABLES
    stage,   \* "join", "run" or "rows"
    joins,   \* _joins with _from_list: the joins in the order they were made
    cols,    \* cols[s]: what is selected of s
    plan,    \* src_to_dest: the links in the order initialize() found them
    row,     \* the sources that matched in the row just read
    object   \* what process_row() made of it: per link, and the fk ids lost

vars == <<stage, joins, cols, plan, row, object>>

Sources == {Root} \cup ToSet(Others)
Joined == {Root} \cup {joins[i].dest : i \in DOMAIN joins}
Joins(s) == SelectSeq(joins, LAMBDA j : j.src = s)

Nothing == [link |-> <<>>, lost |-> {}, raised |-> FALSE]

Init ==
    /\ stage = "join" /\ joins = <<>> /\ plan = <<>> /\ row = {} /\ object = Nothing
    /\ cols = [s \in Sources |-> "key"]

\* join() and join_from(): the kind tells what _normalize_join() finds: the fk
\* that is the attribute, another attribute of the model, or a source without a
\* model, whose rows are dicts.
Join(src, kind, outer) ==
    LET dest == Others[Len(joins) + 1] IN
    /\ stage = "join" /\ Len(joins) < Len(Others)
    /\ src \in Joined
    /\ kind = "fk" => \A i \in DOMAIN joins : joins[i].dest = src => joins[i].kind # "dict"
    /\ joins' = Append(joins, [src |-> src, dest |-> dest, kind |-> kind, outer |-> outer])
    /\ \E c \in Columns : cols' = [cols EXCEPT ![dest] = c]
    /\ UNCHANGED <<stage, plan, row, object>>

Execute ==
    /\ stage = "join" /\ joins # <<>> /\ stage' = "run"
    /\ UNCHANGED <<joins, cols, plan, row, object>>

-----------------------------------------------------------------------------
\* What the constructor of a source is known to be when it is looked up.
ConstructorOf(s, found) ==
    IF s = Root THEN "model"
    ELSE IF \E i \in DOMAIN found : found[i].dest = s
    THEN IF \E i \in DOMAIN joins : joins[i].dest = s /\ joins[i].kind = "dict"
         THEN "dict" ELSE "model"
    ELSE "unknown"

\* The links of a source that were not found yet, with what its constructor is
\* known to be at this moment.
Links(s, found) ==
    LET new == SelectSeq(Joins(s), LAMBDA j : \A i \in DOMAIN found : found[i].dest # j.dest)
        constructor == ConstructorOf(s, found)
    IN [i \in DOMAIN new |-> [src |-> s, dest |-> new[i].dest, outer |-> new[i].outer,
                              dict |-> constructor = "dict",
                              fk |-> constructor = "model" /\ new[i].kind = "fk"]]

\* The queue of initialize().  Its elements are <<"from", n>>, the Join that
\* n joins were nested into, and <<"source", s>>.
RECURSIVE Explore(_, _)
Explore(queue, found) ==
    IF queue = <<>> THEN found
    ELSE LET curr == Head(queue) IN
         IF curr[1] = "from" /\ curr[2] > 0
         THEN Explore(Tail(queue) \o <<<<"from", curr[2] - 1>>, <<"source", joins[curr[2]].dest>>>>,
                      found)
         ELSE LET new == Links(IF curr[1] = "from" THEN Root ELSE curr[2], found)
              IN Explore(Tail(queue) \o [i \in DOMAIN new |-> <<"source", new[i].dest>>],
                         found \o new)

\* initialize(), at the first row.
Initialize ==
    /\ stage = "run" /\ stage' = "rows"
    /\ plan' = Explore(<<<<"from", Len(joins)>>>>, <<>>)
    /\ UNCHANGED <<joins, cols, row, object>>

-----------------------------------------------------------------------------
\* _dest_reachable.
RECURSIVE Reachable(_)
Reachable(s) == UNION {{joins[i].dest} \cup Reachable(joins[i].dest) :
                       i \in {k \in DOMAIN joins : joins[k].src = s}}

\* set_keys: the sources of which a column that is not NULL was selected.
SetKeys(matched) == {s \in matched : cols[s] # "none"}

\* Mutation: what lies behind a source that is not selected does not count.
ShownAlone(dest, set) == dest \in set

\* A source is there if it is set or anything behind it is.
Shown(dest, set) == dest \in set \/ Reachable(dest) \cap set # {}

\* What happens to one link: attr of the source's object becomes the object of
\* dest, or None, or is left alone.  Assigning through the foreign key copies
\* the key of the object, which is None if it was not selected; None itself is
\* only noted in __rel__ when the link is known to be a foreign key.
Assigned(obj, link, set) ==
    LET shown == Shown(link.dest, set)
        byFk == \E i \in DOMAIN joins : joins[i].dest = link.dest /\ joins[i].kind = "fk"
        ofDict == \E i \in DOMAIN joins : joins[i].dest = link.src /\ joins[i].kind = "dict"
    IN IF \/ ~shown /\ ~link.outer
          \/ link.src \notin set /\ link.dest \notin set /\ link.outer
       THEN obj
       ELSE IF ofDict /\ ~link.dict THEN [obj EXCEPT !.raised = TRUE]
       ELSE [obj EXCEPT
               !.link = [d \in DOMAIN @ \cup {link.dest} |->
                           IF d = link.dest THEN (IF shown THEN "object" ELSE "none") ELSE @[d]],
               !.lost = IF byFk /\ ~(~shown /\ link.fk) /\ ~(shown /\ cols[link.dest] = "key")
                        THEN @ \cup {link.dest} ELSE @]

\* The rows that a database can give for these joins.
Possible(matched) ==
    /\ Root \in matched /\ matched \subseteq Joined
    /\ \A i \in DOMAIN joins : /\ joins[i].dest \in matched => joins[i].src \in matched
                               /\ ~joins[i].outer => joins[i].dest \in matched

\* process_row().
ProcessRow(matched) ==
    /\ stage = "rows" /\ Possible(matched)
    /\ row' = matched
    /\ object' = FoldLeft(LAMBDA obj, link : Assigned(obj, link, SetKeys(matched)),
                          [Nothing EXCEPT !.link = [d \in {} |-> "none"]], plan)
    /\ UNCHANGED <<stage, joins, cols, plan>>

Next ==
    \/ \E s \in Sources, k \in Kinds, outer \in BOOLEAN : Join(s, k, outer)
    \/ Execute \/ Initialize
    \/ \E m \in SUBSET Sources : ProcessRow(m)

Spec == Init /\ [][Next]_vars

-----------------------------------------------------------------------------
LinkTo(d) == IF d \in DOMAIN object.link THEN object.link[d] ELSE "unset"

\* The objects hang together as the rows of the database do: an object stands
\* for a row that matched, None for one that did not (if anything of it was
\* selected), and what was selected of a
\* row that matched is reached from the root - through any sources that were
\* not selected, unless two of them follow each other in an outer join.
ObjectsAsJoined ==
    row # {} /\ ~object.raised => \A i \in DOMAIN joins : LET j == joins[i] IN
        /\ LinkTo(j.dest) = "object" => j.dest \in row
        /\ LinkTo(j.dest) = "none" => j.outer /\ (cols[j.dest] # "none" => j.dest \notin row)
        /\ /\ \E s \in {j.dest} \cup Reachable(j.dest) : s \in row /\ cols[s] # "none"
           /\ ~j.outer \/ cols[j.src] # "none" \/ cols[j.dest] # "none"
           => LinkTo(j.dest) = "object"

=============================================================================
