----------------------------- MODULE ResultCache -----------------------------
(***************************************************************************)
(* A query that is executed once and read in many ways: CursorWrapper,     *)
(* ResultIterator and the methods of BaseQuery and SelectBase that read    *)
(* them.  Rows come from the driver one at a time.  Iterators, indices and *)
(* len() share a cache of the rows; iterator() takes rows past it; first() *)
(* and get() change the query and make it run again.  A row may be one     *)
(* whose conversion fails.                                                 *)
(***************************************************************************)
EXTENDS Integers, Sequences

CONSTANTS
    Readers,   \* the iterators a program makes
    NoCursor,  \* no execution
    Table,     \* the rows of the table, in order
    BadSets,   \* which rows may be those whose conversion raises
    Runs,      \* bound on the executions
    Reads      \* bound on the calls

VARIABLES
    bad,      \* the rows whose conversion raises
    limit,    \* _limit of the query; a number larger than the table for none
    current,  \* _cursor_wrapper: an execution or NoCursor
    cursor,   \* cursor[c]: what the wrapper of execution c holds
    reader,   \* reader[r]: an iterator and what it has yielded
    answer,   \* the last row got by an index: the execution, the index, the row
    reads     \* calls still to come

vars == <<bad, limit, current, cursor, reader, answer, reads>>

\* The driver's cursor (rows, of which count are fetched), CursorWrapper (count,
\* cache, populated), and a history: whether every row fetched was cached.
NewCursor(n) ==
    [rows |-> SubSeq(Table, 1, IF n < Len(Table) THEN n ELSE Len(Table)), count |-> 0,
     cache |-> <<>>, populated |-> FALSE, clean |-> TRUE]

NewReader == [kind |-> "new", cached |-> TRUE, on |-> NoCursor, index |-> 0, seen |-> <<>>]

Init ==
    /\ bad \in BadSets
    /\ limit = Len(Table) + 1 /\ current = NoCursor /\ cursor = <<>>
    /\ reader = [r \in Readers |-> NewReader]
    /\ answer = <<>> /\ reads = Reads

-----------------------------------------------------------------------------
\* CursorWrapper.iterate(): the next row from the driver.  The counter moves
\* before the row is converted, and the conversion may raise.
Iterate(w, keep) ==
    IF w.count = Len(w.rows)
    THEN [does |-> "stop", w |-> [w EXCEPT !.populated = TRUE]]
    ELSE LET row == w.rows[w.count + 1]
             counted == [w EXCEPT !.count = @ + 1]
         IN IF row \in bad
            THEN [does |-> "raise", w |-> [counted EXCEPT !.clean = FALSE]]
            ELSE IF keep
            THEN [does |-> "row", row |-> row, w |-> [counted EXCEPT !.cache = Append(@, row)]]
            ELSE [does |-> "row", row |-> row, w |-> [counted EXCEPT !.clean = FALSE]]

\* Mutation: an iterator that finds rows cached takes the latest one.
CachedLatest(w, index) ==
    IF index < Len(w.cache) THEN [does |-> "row", row |-> w.cache[Len(w.cache)], w |-> w]
                            ELSE [does |-> "raise", w |-> w]

\* row_cache[index], which is an IndexError if the cache is behind the counter.
Cached(w, index) ==
    IF index < Len(w.cache) THEN [does |-> "row", row |-> w.cache[index + 1], w |-> w]
                            ELSE [does |-> "raise", w |-> w]

\* ResultIterator.next() with its index.
NextOf(w, index) ==
    IF index < w.count THEN Cached(w, index)
    ELSE IF w.populated THEN [does |-> "stop", w |-> w]
    ELSE LET fetch == Iterate(w, TRUE)
         IN IF fetch.does = "row" THEN Cached(fetch.w, index) ELSE fetch

\* CursorWrapper.fill_cache(n), n = 0 for all: an iterator of its own, which starts
\* at the counter, takes m rows before the loop is over.  The result, as a set of one.
Fetched(w, m) ==
    [w EXCEPT !.count = @ + m, !.cache = @ \o SubSeq(w.rows, w.count + 1, w.count + m)]
Over(w, n, m) ==
    (n > 0 /\ n = w.count + m) \/ NextOf(Fetched(w, m), w.count + m).does # "row"
FillCache(w, n) ==
    IF w.populated \/ (n > 0 /\ n <= w.count) THEN {[does |-> "ok", w |-> w]}
    ELSE {LET last == NextOf(Fetched(w, m), w.count + m)
          IN IF n > 0 /\ n = w.count + m THEN [does |-> "ok", w |-> Fetched(w, m)]
             ELSE [does |-> IF last.does = "stop" THEN "ok" ELSE "raise", w |-> last.w] :
             m \in {k \in 0 .. Len(w.rows) - w.count :
                      Over(w, n, k) /\ \A j \in 0 .. k - 1 : ~Over(w, n, j)}}

-----------------------------------------------------------------------------
\* execute(): once, as long as nothing resets _cursor_wrapper.
Executed == IF current # NoCursor THEN cursor ELSE Append(cursor, NewCursor(limit))
Execution == IF current # NoCursor THEN current ELSE Len(cursor) + 1

CanExecute == /\ reads > 0 /\ reads' = reads - 1
              /\ Execution <= Runs
              /\ current' = Execution

\* iter(query): a query that was executed is asked whether it is empty, which
\* fills its cache (BaseModelSelect.__iter__); a populated one gives its list.
Iter(r) ==
    \E full \in IF current = NoCursor THEN {[does |-> "ok", w |-> Executed[Execution]]}
                ELSE FillCache(cursor[current], 0) :
       /\ reader[r].kind = "new" /\ CanExecute
       /\ cursor' = [Executed EXCEPT ![Execution] = full.w]
       /\ reader' = [reader EXCEPT ![r] =
            IF full.does = "raise" THEN [@ EXCEPT !.kind = "failed"]
            ELSE [@ EXCEPT !.kind = IF full.w.populated THEN "list" ELSE "result",
                           !.on = Execution]]
       /\ UNCHANGED <<bad, limit, answer>>

\* query.iterator(): a generator that caches nothing.
Iterator(r) ==
    /\ reader[r].kind = "new" /\ CanExecute
    /\ cursor' = Executed
    /\ reader' = [reader EXCEPT ![r] = [@ EXCEPT !.kind = "stream", !.cached = FALSE, !.on = Execution]]
    /\ UNCHANGED <<bad, limit, answer>>

\* next() of an iterator.  A generator asks the cursor even when it is closed;
\* one that raised is over.
Read(r) ==
    LET me == reader[r]
        w == cursor[me.on]
        next == CASE me.kind = "result" -> NextOf(w, me.index)
                  [] me.kind = "list" -> IF me.index < Len(w.cache) THEN Cached(w, me.index)
                                         ELSE [does |-> "stop", w |-> w]
                  [] me.kind = "stream" -> IF w.populated THEN [does |-> "raise", w |-> w]
                                           ELSE Iterate(w, FALSE)
    IN /\ me.kind \in {"result", "list", "stream"}
       /\ cursor' = [cursor EXCEPT ![me.on] = next.w]
       /\ reader' = [reader EXCEPT ![r] =
            CASE next.does = "row" -> [me EXCEPT !.index = @ + 1, !.seen = Append(@, next.row)]
              [] next.does = "stop" -> [me EXCEPT !.kind = "ended"]
              [] next.does = "raise" -> IF me.kind = "stream" THEN [me EXCEPT !.kind = "failed"]
                                        ELSE me]
       /\ UNCHANGED <<bad, limit, current, answer, reads>>

\* query[i]: BaseQuery.__getitem__.
Item(i) ==
    \E full \in FillCache(Executed[Execution], i + 1) :
       /\ CanExecute
       /\ cursor' = [Executed EXCEPT ![Execution] = full.w]
       /\ answer' = IF full.does = "ok" /\ i < Len(full.w.cache)
                    THEN <<Execution, i + 1, full.w.cache[i + 1]>> ELSE <<>>
       /\ UNCHANGED <<bad, limit, reader>>

\* len(query).
Length ==
    /\ CanExecute
    /\ \E full \in FillCache(Executed[Execution], 0) :
         cursor' = [Executed EXCEPT ![Execution] = full.w]
    /\ UNCHANGED <<bad, limit, reader, answer>>

\* first(): the query itself gets the limit and is executed again, unless it
\* had this limit; then peek() takes the rows.
First ==
    LET again == current = NoCursor \/ limit # 1
        on == IF again THEN Len(cursor) + 1 ELSE current
        ran == IF again THEN Append(cursor, NewCursor(1)) ELSE cursor
    IN \E full \in FillCache(ran[on], 1) :
       /\ reads > 0 /\ reads' = reads - 1
       /\ on <= Runs /\ current' = on /\ limit' = 1
       /\ cursor' = [ran EXCEPT ![on] = full.w]
       /\ answer' = IF full.does = "ok" /\ full.w.cache # <<>>
                    THEN <<on, 1, full.w.cache[1]>> ELSE <<>>
       /\ UNCHANGED <<bad, reader>>

\* SelectBase.get(): executed anew, and the first row of it.
Get ==
    LET on == Len(cursor) + 1
    IN \E full \in FillCache(NewCursor(limit), 1) :
       /\ reads > 0 /\ reads' = reads - 1
       /\ on <= Runs /\ current' = on
       /\ cursor' = Append(cursor, full.w)
       /\ answer' = IF full.does = "ok" /\ full.w.cache # <<>>
                    THEN <<on, 1, full.w.cache[1]>> ELSE <<>>
       /\ UNCHANGED <<bad, limit, reader>>

Next == \/ \E r \in Readers : Iter(r) \/ Iterator(r) \/ Read(r)
        \/ \E i \in 0 .. Len(Table) : Item(i)
        \/ Length \/ First \/ Get

Spec == Init /\ [][Next]_vars

-----------------------------------------------------------------------------
\* However iterators, indices and executions are interleaved, and whatever rows
\* failed to convert: nobody gets a row twice or out of order.  As long as all
\* rows of an execution were cached, an iterator ends after the last row of it
\* and an index gives the row at that place; and a generator that was the only
\* one to take rows ends after the last one.
RowsOnce ==
    /\ \A r \in Readers : LET me == reader[r] IN
        /\ \A i, j \in DOMAIN me.seen : i < j => me.seen[i] < me.seen[j]
        /\ me.on # NoCursor =>
             LET w == cursor[me.on] IN
             IF (me.cached /\ w.clean) \/ (~me.cached /\ w.count = Len(me.seen))
             THEN /\ me.seen = SubSeq(w.rows, 1, Len(me.seen))
                  /\ me.kind = "ended" => me.seen = w.rows
             ELSE TRUE
    /\ answer # <<>> /\ cursor[answer[1]].clean => answer[3] = cursor[answer[1]].rows[answer[2]]
=============================================================================
