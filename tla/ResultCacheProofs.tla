--------------------------- MODULE ResultCacheProofs ---------------------------
(***************************************************************************)
(* Proofs about ResultCache: what iterators, indices and generators give,  *)
(* for any table, any rows that do not convert, and any number of readers, *)
(* executions and calls.                                                   *)
(***************************************************************************)
EXTENDS ResultCache, SequenceTheorems, TLAPS

Increasing(s) == \A i, j \in 1 .. Len(s) : i < j => s[i] < s[j]

\* The rows of the table are told apart by their place in it.
Ordered == Table \in Seq(Int) /\ Increasing(Table) /\ NoCursor \notin Nat \ {0}

Wrappers == [rows : Seq(Int), count : Nat, cache : Seq(Int), populated : BOOLEAN, clean : BOOLEAN]
Iterators == [kind : {"new", "result", "list", "stream", "ended", "failed"}, cached : BOOLEAN,
              on : Nat \cup {NoCursor}, index : Nat, seen : Seq(Int)]

\* Every row of s comes before those of R after the n-th.
Behind(s, R, n) == \A i \in 1 .. Len(s) : \A j \in n + 1 .. Len(R) : s[i] < R[j]

\* n rows of R were fetched.  The cache C holds some of them in their order.
Cache(R, n, C) ==
    /\ Increasing(R) /\ Increasing(C) /\ Behind(C, R, n)
    /\ n <= Len(R) /\ Len(C) <= n

\* It holds all of them.
Whole(R, n, C) == Len(C) = n /\ \A i \in 1 .. n : C[i] = R[i]

\* The cache is whole as long as no row failed and none went past it.
Sound(w) ==
    /\ w \in Wrappers /\ Cache(w.rows, w.count, w.cache)
    /\ w.populated => w.count = Len(w.rows)
    /\ w.clean => Whole(w.rows, w.count, w.cache)

\* What an execution may become: rows are fetched and cached, and none goes away.
Later(w, v) ==
    /\ v.rows = w.rows /\ w.count <= v.count
    /\ Len(w.cache) <= Len(v.cache) /\ \A i \in 1 .. Len(w.cache) : v.cache[i] = w.cache[i]
    /\ w.populated => v.populated
    /\ v.clean => w.clean

\* An iterator has given a beginning of the cache; a generator, rows that were fetched.
Given(me, w) ==
    IF me.cached
    THEN /\ me.index = Len(me.seen) /\ me.index <= Len(w.cache)
         /\ \A i \in 1 .. me.index : me.seen[i] = w.cache[i]
         /\ me.kind = "list" => w.populated
         /\ me.kind = "ended" /\ w.clean => me.index = Len(w.rows)
    ELSE /\ Len(me.seen) <= w.count /\ Behind(me.seen, w.rows, w.count)
         /\ Len(me.seen) = w.count => \A i \in 1 .. w.count : me.seen[i] = w.rows[i]
         /\ me.kind = "ended" /\ Len(me.seen) = w.count => w.count = Len(w.rows)

\* An iterator on one of the executions cs.
Fine(me, cs) ==
    /\ me \in Iterators /\ Increasing(me.seen)
    /\ me.kind = "new" => me = NewReader
    /\ me.kind \in {"result", "list"} => me.on # NoCursor /\ me.cached
    /\ me.kind = "stream" => me.on # NoCursor /\ ~me.cached
    /\ me.on # NoCursor => me.on \in 1 .. Len(cs) /\ Given(me, cs[me.on])

\* An answer to an index is in the cache at that place.
Held(found, cs) ==
    found # <<>> => /\ found[1] \in 1 .. Len(cs)
                    /\ found[2] \in 1 .. Len(cs[found[1]].cache)
                    /\ found[3] = cs[found[1]].cache[found[2]]

AllSound(cs) == cs \in Seq(Wrappers) /\ \A c \in 1 .. Len(cs) : Sound(cs[c])
CursorsSound ==
    AllSound(cursor) /\ current \in {NoCursor} \cup 1 .. Len(cursor) /\ limit \in Nat
ReadersSound == reader \in [Readers -> Iterators] /\ \A r \in Readers : Fine(reader[r], cursor)
CacheInv == CursorsSound /\ ReadersSound /\ Held(answer, cursor)

-----------------------------------------------------------------------------
\* Nothing is lost in two steps that is not lost in one.
LEMMA LaterStill ==
    ASSUME NEW w \in Wrappers, NEW v \in Wrappers, NEW u \in Wrappers, Later(w, v), Later(v, u)
    PROVE  Later(w, u)
<1>1. w.count \in Nat /\ v.count \in Nat /\ u.count \in Nat
  BY DEF Wrappers
<1>2. Len(w.cache) \in Nat /\ Len(v.cache) \in Nat /\ Len(u.cache) \in Nat
  BY DEF Wrappers
<1> QED
  BY <1>1, <1>2 DEF Later

\* A reader that does not move keeps what it was given.
LEMMA GivenStays ==
    ASSUME NEW w, NEW v, Sound(w), Sound(v), Later(w, v), NEW me \in Iterators, Given(me, w)
    PROVE  Given(me, v)
<1>1. /\ w.count \in Nat /\ v.count \in Nat /\ v.rows = w.rows /\ w.count <= v.count
      /\ w.rows \in Seq(Int) /\ Len(w.cache) \in Nat /\ Len(v.cache) \in Nat
      /\ Len(w.cache) <= Len(v.cache) /\ \A i \in 1 .. Len(w.cache) : v.cache[i] = w.cache[i]
      /\ v.count <= Len(w.rows) /\ Len(w.rows) \in Nat
      /\ w.populated => v.populated
      /\ v.clean => w.clean
  BY DEF Later, Sound, Cache, Wrappers
<1>2. Len(me.seen) \in Nat /\ me.index \in Nat
  BY DEF Iterators
<1>3. CASE me.cached
  BY <1>1, <1>2, <1>3 DEF Given
<1>4. CASE ~me.cached
  <2>1. /\ Len(me.seen) <= w.count /\ Behind(me.seen, w.rows, w.count)
        /\ Len(me.seen) = w.count => \A i \in 1 .. w.count : me.seen[i] = w.rows[i]
        /\ me.kind = "ended" /\ Len(me.seen) = w.count => w.count = Len(w.rows)
    BY <1>4 DEF Given
  <2>2. Len(me.seen) <= v.count /\ (Len(me.seen) = v.count => v.count = w.count)
    BY <1>1, <1>2, <2>1
  <2>3. Behind(me.seen, v.rows, v.count)
    BY <1>1, <1>2, <2>1, SMTT(30) DEF Behind
  <2> QED
    BY <1>1, <1>4, <2>1, <2>2, <2>3 DEF Given
<1> QED
  BY <1>3, <1>4

\* A row that comes later makes the sequence longer.
LEMMA Longer ==
    ASSUME NEW s \in Seq(Int), NEW x \in Int, Increasing(s), \A i \in 1 .. Len(s) : s[i] < x
    PROVE  /\ Append(s, x) \in Seq(Int) /\ Increasing(Append(s, x))
           /\ Len(Append(s, x)) = Len(s) + 1 /\ Append(s, x)[Len(s) + 1] = x
           /\ \A i \in 1 .. Len(s) : Append(s, x)[i] = s[i]
BY SMTT(30) DEF Increasing

\* The next row comes after all that came before it.
LEMMA NextRow ==
    ASSUME NEW R \in Seq(Int), NEW s \in Seq(Int), NEW n \in Nat, n < Len(R), Behind(s, R, n), Increasing(R)
    PROVE  /\ n + 1 \in 1 .. Len(R) /\ R[n + 1] \in Int
           /\ \A i \in 1 .. Len(s) : s[i] < R[n + 1]
           /\ Behind(s, R, n + 1) /\ Behind(Append(s, R[n + 1]), R, n + 1)
<1> DEFINE x == R[n + 1]
<1>1. /\ x \in Int /\ n + 1 \in 1 .. Len(R)
      /\ \A i \in 1 .. Len(s) : s[i] < x /\ Behind(s, R, n + 1)
  BY DEF Behind
<1>2. \A j \in n + 2 .. Len(R) : x < R[j]
  BY <1>1 DEF Increasing
<1>3. /\ Len(Append(s, x)) = Len(s) + 1 /\ Append(s, x)[Len(s) + 1] = x
      /\ \A i \in 1 .. Len(s) : Append(s, x)[i] = s[i]
  BY <1>1
<1>4. Behind(s, R, n + 1)
  BY DEF Behind
<1> HIDE DEF x
<1> QED
  BY <1>1, <1>2, <1>3, <1>4, SMTT(30) DEF Behind, x

\* A row is fetched, and cached or not.
LEMMA FetchOne ==
    ASSUME NEW R \in Seq(Int), NEW C \in Seq(Int), NEW n \in Nat, Cache(R, n, C), n < Len(R)
    PROVE  /\ R[n + 1] \in Int /\ Append(C, R[n + 1]) \in Seq(Int)
           /\ Len(C) <= Len(Append(C, R[n + 1]))
           /\ \A i \in 1 .. Len(C) : Append(C, R[n + 1])[i] = C[i]
           /\ Cache(R, n + 1, C) /\ Cache(R, n + 1, Append(C, R[n + 1]))
           /\ Whole(R, n, C) => Whole(R, n + 1, Append(C, R[n + 1]))
<1>1. /\ n + 1 \in 1 .. Len(R) /\ R[n + 1] \in Int
      /\ \A i \in 1 .. Len(C) : C[i] < R[n + 1]
      /\ Behind(C, R, n + 1) /\ Behind(Append(C, R[n + 1]), R, n + 1)
  BY NextRow DEF Cache
<1>2. /\ Append(C, R[n + 1]) \in Seq(Int) /\ Increasing(Append(C, R[n + 1]))
      /\ Len(Append(C, R[n + 1])) = Len(C) + 1 /\ Append(C, R[n + 1])[Len(C) + 1] = R[n + 1]
      /\ \A i \in 1 .. Len(C) : Append(C, R[n + 1])[i] = C[i]
  BY <1>1, Longer DEF Cache
<1>3. Cache(R, n + 1, C) /\ Cache(R, n + 1, Append(C, R[n + 1]))
  BY <1>1, <1>2 DEF Cache
<1>4. Whole(R, n, C) => Whole(R, n + 1, Append(C, R[n + 1]))
  BY <1>2 DEF Whole
<1> QED
  BY <1>1, <1>2, <1>3, <1>4

\* What becomes of a wrapper, by its parts.
LEMMA Becomes ==
    ASSUME NEW w, Sound(w), NEW v \in Wrappers, v.rows = w.rows, w.count <= v.count,
           Cache(v.rows, v.count, v.cache), w.populated => v.populated,
           v.populated => v.count = Len(v.rows),
           v.clean => w.clean /\ Whole(v.rows, v.count, v.cache),
           Len(w.cache) <= Len(v.cache), \A i \in 1 .. Len(w.cache) : v.cache[i] = w.cache[i]
    PROVE  Sound(v) /\ Later(w, v)
BY DEF Sound, Later

\* CursorWrapper.iterate() keeps the cache sound.
LEMMA IterateSound ==
    ASSUME NEW w, Sound(w), NEW keep \in BOOLEAN
    PROVE  LET it == Iterate(w, keep) IN
           /\ Sound(it.w) /\ Later(w, it.w)
           /\ it.does \in {"stop", "raise", "row"}
           /\ it.does = "stop" => it.w.populated /\ w.count = Len(w.rows)
           /\ it.does = "row" => /\ it.row \in Int /\ it.w.count = w.count + 1 /\ w.count < Len(w.rows)
                                 /\ it.row = w.rows[w.count + 1]
<1> DEFINE x == w.rows[w.count + 1]
<1>1. /\ w.rows \in Seq(Int) /\ w.cache \in Seq(Int) /\ w.count \in Nat
      /\ w \in Wrappers /\ Cache(w.rows, w.count, w.cache)
      /\ w.populated => w.count = Len(w.rows)
      /\ w.clean => Whole(w.rows, w.count, w.cache)
  BY DEF Sound, Wrappers
<1>2. CASE w.count = Len(w.rows)
  <2> DEFINE v == [w EXCEPT !.populated = TRUE]
  <2>1. /\ v \in Wrappers /\ v.rows = w.rows /\ v.count = w.count /\ v.cache = w.cache
        /\ v.populated /\ v.clean = w.clean
    BY <1>1 DEF Wrappers
  <2>2. Iterate(w, keep) = [does |-> "stop", w |-> v]
    BY <1>2 DEF Iterate
  <2> HIDE DEF v
  <2>3. w.count <= v.count /\ Len(w.cache) <= Len(v.cache)
    BY <1>1, <2>1
  <2>4. Sound(v) /\ Later(w, v)
    BY <1>1, <1>2, <2>1, <2>3, Becomes
  <2> QED
    BY <1>2, <2>1, <2>2, <2>4
<1>3. CASE w.count # Len(w.rows)
  <2>1. w.count < Len(w.rows)
    BY <1>1, <1>3 DEF Cache
  <2>2. /\ x \in Int /\ Append(w.cache, x) \in Seq(Int)
        /\ Len(w.cache) <= Len(Append(w.cache, x))
        /\ \A i \in 1 .. Len(w.cache) : Append(w.cache, x)[i] = w.cache[i]
        /\ Cache(w.rows, w.count + 1, w.cache) /\ Cache(w.rows, w.count + 1, Append(w.cache, x))
        /\ Whole(w.rows, w.count, w.cache) => Whole(w.rows, w.count + 1, Append(w.cache, x))
    BY <1>1, <2>1, FetchOne
  <2> DEFINE C == Append(w.cache, x)
             n == w.count + 1
             y == x
  <2>3. n \in Nat /\ w.count <= n /\ Len(w.cache) <= Len(w.cache) /\ ~w.populated
    BY <1>1, <1>3
  <2> HIDE DEF C, n, y, x
  <2>4. CASE y \in bad \/ ~keep
    <3> DEFINE v == [w EXCEPT !.count = n, !.clean = FALSE]
    <3>1. /\ v \in Wrappers /\ v.rows = w.rows /\ v.count = n /\ v.cache = w.cache
          /\ v.populated = w.populated /\ ~v.clean
      BY <1>1, <2>3 DEF Wrappers
    <3>2. \/ Iterate(w, keep) = [does |-> "raise", w |-> v]
          \/ Iterate(w, keep) = [does |-> "row", row |-> y, w |-> v]
      BY <1>1, <1>3, <2>4 DEF Iterate, Wrappers, n, y, x
    <3> HIDE DEF v
    <3>3. Sound(v) /\ Later(w, v)
      BY <1>1, <2>2, <2>3, <3>1, Becomes DEF n
    <3> QED
      BY <2>1, <2>2, <3>1, <3>2, <3>3 DEF n, y, x
  <2>5. CASE y \notin bad /\ keep
    <3> DEFINE v == [w EXCEPT !.count = n, !.cache = C]
    <3>1. /\ v \in Wrappers /\ v.rows = w.rows /\ v.count = n /\ v.cache = C
          /\ v.populated = w.populated /\ v.clean = w.clean
      BY <1>1, <2>2, <2>3 DEF Wrappers, C
    <3>2. Iterate(w, keep) = [does |-> "row", row |-> y, w |-> v]
      BY <1>1, <1>3, <2>5 DEF Iterate, Wrappers, n, y, x, C
    <3> HIDE DEF v
    <3>3. Sound(v) /\ Later(w, v)
      BY <1>1, <2>2, <2>3, <3>1, Becomes DEF n, C
    <3> QED
      BY <2>1, <2>2, <3>1, <3>2, <3>3 DEF n, y, x
  <2> QED
    BY <2>4, <2>5
<1> QED
  BY <1>2, <1>3

-----------------------------------------------------------------------------
\* m rows are fetched and cached.
LEMMA FetchMany ==
    ASSUME NEW R \in Seq(Int), NEW C \in Seq(Int), NEW n \in Nat, NEW m \in Nat,
           Cache(R, n, C), n + m <= Len(R),
           NEW D, D = C \o SubSeq(R, n + 1, n + m)
    PROVE  /\ D \in Seq(Int) /\ Len(C) <= Len(D) /\ \A i \in 1 .. Len(C) : D[i] = C[i]
           /\ Cache(R, n + m, D)
           /\ Whole(R, n, C) => Whole(R, n + m, D)
<1> DEFINE S == SubSeq(R, n + 1, n + m)
<1>1. S \in Seq(Int) /\ Len(S) = m /\ \A k \in 1 .. m : S[k] = R[n + k]
  BY SubSeqProperties
<1>2. /\ D \in Seq(Int) /\ Len(D) = Len(C) + m
      /\ \A i \in 1 .. Len(C) : D[i] = C[i]
      /\ \A k \in 1 .. m : D[Len(C) + k] = R[n + k]
  <2>1. D \in Seq(Int) /\ Len(D) = Len(C) + Len(S)
    BY <1>1, ConcatProperties
  <2>2. \A i \in 1 .. Len(C) + Len(S) : D[i] = IF i <= Len(C) THEN C[i] ELSE S[i - Len(C)]
    BY <1>1, ConcatProperties
  <2> HIDE DEF S
  <2>3. ASSUME NEW k \in 1 .. m PROVE D[Len(C) + k] = R[n + k]
    <3>1. Len(C) + k \in 1 .. Len(C) + Len(S) /\ ~(Len(C) + k <= Len(C)) /\ (Len(C) + k) - Len(C) = k
      BY <1>1
    <3> QED
      BY <1>1, <2>2, <3>1
  <2> QED
    BY <1>1, <2>1, <2>2, <2>3, SMTT(30)
<1> HIDE DEF S
<1>3. Increasing(R) /\ Increasing(C) /\ Behind(C, R, n) /\ n <= Len(R) /\ Len(C) <= n
  BY DEF Cache
<1>4. \A i \in 1 .. Len(D) : (i \in 1 .. Len(C)) \/ (\E k \in 1 .. m : i = Len(C) + k)
  <2> SUFFICES ASSUME NEW i \in 1 .. Len(D), i \notin 1 .. Len(C) PROVE \E k \in 1 .. m : i = Len(C) + k
    OBVIOUS
  <2>1. i - Len(C) \in 1 .. m /\ i = Len(C) + (i - Len(C))
    BY <1>2
  <2> QED
    BY <2>1
<1>5. \A i \in 1 .. Len(C) : \A k \in 1 .. m : C[i] < R[n + k]
  <2> SUFFICES ASSUME NEW i \in 1 .. Len(C), NEW k \in 1 .. m PROVE C[i] < R[n + k]
    OBVIOUS
  <2>1. n + k \in n + 1 .. Len(R)
    OBVIOUS
  <2> QED
    BY <1>3, <2>1 DEF Behind
<1>6. \A k, l \in 1 .. m : k < l => R[n + k] < R[n + l]
  <2> SUFFICES ASSUME NEW k \in 1 .. m, NEW l \in 1 .. m, k < l PROVE R[n + k] < R[n + l]
    OBVIOUS
  <2>1. n + k \in 1 .. Len(R) /\ n + l \in 1 .. Len(R) /\ n + k < n + l
    OBVIOUS
  <2> QED
    BY <1>3, <2>1 DEF Increasing
<1>7. Increasing(D)
  <2> SUFFICES ASSUME NEW i \in 1 .. Len(D), NEW j \in 1 .. Len(D), i < j PROVE D[i] < D[j]
    BY DEF Increasing
  <2>1. CASE i \in 1 .. Len(C) /\ j \in 1 .. Len(C)
    BY <1>2, <1>3, <2>1 DEF Increasing
  <2>2. ASSUME i \in 1 .. Len(C), NEW k \in 1 .. m, j = Len(C) + k PROVE D[i] < D[j]
    BY <1>2, <1>5, <2>2
  <2>3. ASSUME NEW l \in 1 .. m, i = Len(C) + l, NEW k \in 1 .. m, j = Len(C) + k PROVE D[i] < D[j]
    <3>1. l < k
      BY <2>3
    <3> QED
      BY <1>2, <1>6, <2>3, <3>1
  <2>4. ASSUME NEW l \in 1 .. m, i = Len(C) + l, j \in 1 .. Len(C) PROVE FALSE
    BY <2>4
  <2> QED
    BY <1>4, <2>1, <2>2, <2>3, <2>4
<1>8. Behind(D, R, n + m)
  <2> SUFFICES ASSUME NEW i \in 1 .. Len(D), NEW j \in (n + m) + 1 .. Len(R) PROVE D[i] < R[j]
    BY DEF Behind
  <2>1. CASE i \in 1 .. Len(C)
    BY <1>2, <1>3, <2>1 DEF Behind
  <2>2. ASSUME NEW k \in 1 .. m, i = Len(C) + k PROVE D[i] < R[j]
    <3>1. R[n + k] < R[j]
      <4>1. n + k \in 1 .. Len(R) /\ j \in 1 .. Len(R) /\ n + k < j
        OBVIOUS
      <4> QED
        BY <1>3, <4>1 DEF Increasing
    <3> QED
      BY <1>2, <2>2, <3>1
  <2> QED
    BY <1>4, <2>1, <2>2
<1>9. Cache(R, n + m, D) /\ Len(C) <= Len(D)
  BY <1>2, <1>3, <1>7, <1>8 DEF Cache
<1>10. ASSUME Whole(R, n, C) PROVE Whole(R, n + m, D)
  <2>1. Len(C) = n /\ \A i \in 1 .. n : C[i] = R[i]
    BY <1>10 DEF Whole
  <2>2. ASSUME NEW i \in 1 .. n + m PROVE D[i] = R[i]
    <3>1. CASE i \in 1 .. n
      BY <1>2, <2>1, <3>1
    <3>2. CASE i \notin 1 .. n
      <4>1. i - n \in 1 .. m /\ n + (i - n) = i
        BY <3>2
      <4> QED
        BY <1>2, <2>1, <4>1
    <3> QED
      BY <3>1, <3>2
  <2> QED
    BY <1>2, <2>1, <2>2 DEF Whole
<1> QED
  BY <1>2, <1>9, <1>10

\* So are the rows that fill_cache() takes.
LEMMA FetchedSound ==
    ASSUME NEW w, Sound(w), NEW m \in 0 .. Len(w.rows) - w.count
    PROVE  Sound(Fetched(w, m)) /\ Later(w, Fetched(w, m)) /\ Fetched(w, m).count = w.count + m
<1>1. /\ w.rows \in Seq(Int) /\ w.cache \in Seq(Int) /\ w.count \in Nat
      /\ w \in Wrappers /\ Cache(w.rows, w.count, w.cache)
      /\ w.populated => w.count = Len(w.rows)
      /\ w.clean => Whole(w.rows, w.count, w.cache)
  BY DEF Sound, Wrappers
<1> DEFINE n == w.count + m
           D == w.cache \o SubSeq(w.rows, w.count + 1, w.count + m)
           v == [w EXCEPT !.count = n, !.cache = D]
<1>2. m \in Nat /\ w.count + m <= Len(w.rows)
  BY <1>1
<1>3. /\ D \in Seq(Int) /\ Len(w.cache) <= Len(D) /\ \A i \in 1 .. Len(w.cache) : D[i] = w.cache[i]
      /\ Cache(w.rows, n, D)
      /\ Whole(w.rows, w.count, w.cache) => Whole(w.rows, n, D)
  BY <1>1, <1>2, FetchMany
<1>4. n \in Nat /\ w.count <= n /\ n <= Len(w.rows)
  BY <1>1, <1>2
<1>5. Fetched(w, m) = v
  BY <1>1 DEF Fetched, Wrappers
<1> HIDE DEF n, D
<1>6. /\ v \in Wrappers /\ v.rows = w.rows /\ v.count = n /\ v.cache = D
      /\ v.populated = w.populated /\ v.clean = w.clean
  BY <1>1, <1>3, <1>4 DEF Wrappers
<1>7. w.populated => n = Len(w.rows)
  BY <1>1, <1>4
<1> HIDE DEF v
<1>8. Sound(v) /\ Later(w, v)
  BY <1>1, <1>3, <1>4, <1>6, <1>7, Becomes
<1> QED
  BY <1>5, <1>6, <1>8 DEF n

\* ResultIterator.next() gives the row at its index of the cache.
LEMMA NextSound ==
    ASSUME NEW w, Sound(w), NEW index \in Nat
    PROVE  LET it == NextOf(w, index) IN
           /\ Sound(it.w) /\ Later(w, it.w)
           /\ it.does \in {"stop", "raise", "row"}
           /\ it.does = "stop" => it.w.populated /\ it.w.count <= index
           /\ it.does = "row" => index + 1 \in 1 .. Len(it.w.cache) /\ it.row = it.w.cache[index + 1]
<1>1. ASSUME NEW v, Sound(v), Later(w, v)
      PROVE  LET it == Cached(v, index) IN
           /\ Sound(it.w) /\ Later(w, it.w)
           /\ it.does \in {"raise", "row"}
           /\ it.does = "row" => index + 1 \in 1 .. Len(it.w.cache) /\ it.row = it.w.cache[index + 1]
  <2>1. Len(v.cache) \in Nat
    BY <1>1 DEF Sound, Wrappers
  <2> QED
    BY <1>1, <2>1 DEF Cached
<1>2. w.count \in Nat /\ w.rows \in Seq(Int) /\ w \in Wrappers /\ (w.populated => w.count = Len(w.rows))
  BY DEF Sound, Wrappers
<1>3. Later(w, w)
  <2>1. Len(w.cache) \in Nat
    BY <1>2 DEF Wrappers
  <2> QED
    BY <1>2, <2>1 DEF Later
<1>4. CASE index < w.count
  BY <1>1, <1>3, <1>4 DEF NextOf
<1>5. CASE ~(index < w.count) /\ w.populated
  BY <1>2, <1>3, <1>5 DEF NextOf
<1>6. CASE ~(index < w.count) /\ ~w.populated
  <2> DEFINE fetch == Iterate(w, TRUE)
  <2>1. /\ Sound(fetch.w) /\ Later(w, fetch.w)
        /\ fetch.does \in {"stop", "raise", "row"}
        /\ fetch.does = "stop" => fetch.w.populated /\ w.count = Len(w.rows)
    BY IterateSound
  <2>2. NextOf(w, index) = IF fetch.does = "row" THEN Cached(fetch.w, index) ELSE fetch
    BY <1>6 DEF NextOf
  <2> HIDE DEF fetch
  <2>3. fetch.does = "stop" => fetch.w.count <= index
    <3>1. fetch.w.rows = w.rows /\ fetch.w.count <= Len(fetch.w.rows)
      BY <2>1 DEF Later, Sound, Cache
    <3>2. fetch.w.count \in Nat
      BY <2>1 DEF Sound, Wrappers
    <3> QED
      BY <1>2, <1>6, <2>1, <3>1, <3>2
  <2>4. CASE fetch.does = "row"
    BY <1>1, <2>1, <2>2, <2>4
  <2>5. CASE fetch.does # "row"
    BY <2>1, <2>2, <2>3, <2>5
  <2> QED
    BY <2>4, <2>5
<1> QED
  BY <1>4, <1>5, <1>6

\* CursorWrapper.fill_cache() keeps the cache sound.
LEMMA FillSound ==
    ASSUME NEW w, Sound(w), NEW n, NEW full \in FillCache(w, n)
    PROVE  Sound(full.w) /\ Later(w, full.w)
<1>0. w \in Wrappers /\ w.count \in Nat /\ Len(w.cache) \in Nat
  BY DEF Sound, Wrappers
<1>1. CASE w.populated \/ (n > 0 /\ n <= w.count)
  <2>1. full = [does |-> "ok", w |-> w]
    BY <1>1 DEF FillCache
  <2> QED
    BY <1>0, <2>1 DEF Later
<1>2. CASE ~(w.populated \/ (n > 0 /\ n <= w.count))
  <2>1. PICK m \in 0 .. Len(w.rows) - w.count :
          LET last == NextOf(Fetched(w, m), w.count + m)
          IN  full = IF n > 0 /\ n = w.count + m THEN [does |-> "ok", w |-> Fetched(w, m)]
                     ELSE [does |-> IF last.does = "stop" THEN "ok" ELSE "raise", w |-> last.w]
    BY <1>2 DEF FillCache
  <2> DEFINE last == NextOf(Fetched(w, m), w.count + m)
  <2>2. Sound(Fetched(w, m)) /\ Later(w, Fetched(w, m))
    BY FetchedSound
  <2>3. w.count + m \in Nat
    BY <1>0
  <2>4. Sound(last.w) /\ Later(Fetched(w, m), last.w)
    BY <2>2, <2>3, NextSound
  <2> HIDE DEF last
  <2>5. Later(w, last.w)
    BY <1>0, <2>2, <2>4, LaterStill DEF Sound
  <2>6. full.w = Fetched(w, m) \/ full.w = last.w
    BY <2>1 DEF last
  <2> QED
    BY <2>2, <2>4, <2>5, <2>6
<1> QED
  BY <1>1, <1>2

\* A new execution has cached nothing, and has a beginning of the table for rows.
LEMMA NewSound ==
    ASSUME Ordered, NEW n \in Nat
    PROVE  Sound(NewCursor(n))
<1> DEFINE k == IF n < Len(Table) THEN n ELSE Len(Table)
           R == SubSeq(Table, 1, k)
<1>1. k \in Nat /\ k <= Len(Table) /\ Len(Table) \in Nat
  BY DEF Ordered
<1>2. R \in Seq(Int) /\ Len(R) = k /\ \A i \in 1 .. k : R[i] = Table[i]
  BY <1>1, SubSeqProperties DEF Ordered
<1>3. NewCursor(n) = [rows |-> R, count |-> 0, cache |-> <<>>, populated |-> FALSE, clean |-> TRUE]
  BY DEF NewCursor
<1> HIDE DEF k, R
<1>4. Increasing(R)
  <2> SUFFICES ASSUME NEW i \in 1 .. k, NEW j \in 1 .. k, i < j PROVE R[i] < R[j]
    BY <1>2 DEF Increasing
  <2>1. i \in 1 .. Len(Table) /\ j \in 1 .. Len(Table)
    BY <1>1
  <2> QED
    BY <1>2, <2>1 DEF Ordered, Increasing
<1>5. Cache(R, 0, <<>>) /\ Whole(R, 0, <<>>) /\ <<>> \in Seq(Int)
  BY <1>1, <1>2, <1>4 DEF Cache, Whole, Behind, Increasing
<1> QED
  BY <1>2, <1>3, <1>5 DEF Sound, Wrappers

-----------------------------------------------------------------------------
\* The executions cs may become ds: they go on, and others may follow.
Onwards(cs, ds) ==
    /\ AllSound(ds) /\ Len(cs) <= Len(ds)
    /\ \A c \in 1 .. Len(cs) : Later(cs[c], ds[c])

\* One of them goes on.
LEMMA OneGoesOn ==
    ASSUME NEW cs, NEW ds, AllSound(cs), Onwards(cs, ds),
           NEW e \in 1 .. Len(ds), NEW v, Sound(v), Later(ds[e], v),
           NEW fs \in Seq(Wrappers), Len(fs) = Len(ds), fs[e] = v,
           \A c \in 1 .. Len(ds) : c # e => fs[c] = ds[c]
    PROVE  Onwards(cs, fs)
<1>1. /\ ds \in Seq(Wrappers) /\ cs \in Seq(Wrappers) /\ v \in Wrappers
      /\ \A c \in 1 .. Len(ds) : Sound(ds[c])
  BY DEF Onwards, AllSound, Sound
<1>3. AllSound(fs)
  BY <1>1 DEF AllSound
<1>4. \A c \in 1 .. Len(cs) : Later(cs[c], fs[c])
  <2> SUFFICES ASSUME NEW c \in 1 .. Len(cs) PROVE Later(cs[c], fs[c])
    OBVIOUS
  <2>1. c \in 1 .. Len(ds) /\ Later(cs[c], ds[c])
    BY <1>1 DEF Onwards
  <2>2. CASE c # e
    BY <2>1, <2>2
  <2>3. CASE c = e
    <3>1. cs[c] \in Wrappers /\ ds[c] \in Wrappers
      BY <1>1, <2>1
    <3> QED
      BY <1>1, <2>1, <2>3, <3>1, LaterStill
  <2> QED
    BY <2>2, <2>3
<1>5. Len(cs) <= Len(fs)
  BY DEF Onwards
<1> QED
  BY <1>3, <1>4, <1>5 DEF Onwards

\* They stay, and another one may be added.
LEMMA OneMoreRuns ==
    ASSUME NEW cs, AllSound(cs)
    PROVE  /\ Onwards(cs, cs)
           /\ \A w : Sound(w) => /\ Onwards(cs, Append(cs, w)) /\ Len(Append(cs, w)) = Len(cs) + 1
                                 /\ Append(cs, w)[Len(cs) + 1] = w
<1>1. cs \in Seq(Wrappers) /\ \A c \in 1 .. Len(cs) : Sound(cs[c])
  BY DEF AllSound
<1>2. \A c \in 1 .. Len(cs) : Later(cs[c], cs[c])
  <2> SUFFICES ASSUME NEW c \in 1 .. Len(cs) PROVE Later(cs[c], cs[c])
    OBVIOUS
  <2>1. cs[c].count \in Nat /\ Len(cs[c].cache) \in Nat
    BY <1>1 DEF Sound, Wrappers
  <2> QED
    BY <2>1 DEF Later
<1>3. Onwards(cs, cs)
  BY <1>1, <1>2 DEF Onwards, AllSound
<1>4. ASSUME NEW w, Sound(w)
      PROVE  /\ Onwards(cs, Append(cs, w)) /\ Len(Append(cs, w)) = Len(cs) + 1
             /\ Append(cs, w)[Len(cs) + 1] = w
  <2>1. w \in Wrappers
    BY <1>4 DEF Sound
  <2>2. /\ Append(cs, w) \in Seq(Wrappers) /\ Len(Append(cs, w)) = Len(cs) + 1
        /\ Append(cs, w)[Len(cs) + 1] = w
        /\ \A c \in 1 .. Len(cs) : Append(cs, w)[c] = cs[c]
    BY <1>1, <2>1
  <2>3. AllSound(Append(cs, w))
    BY <1>1, <1>4, <2>2 DEF AllSound
  <2> QED
    BY <1>1, <1>2, <2>2, <2>3 DEF Onwards
<1> QED
  BY <1>3, <1>4

\* Readers and answers keep what they have.
LEMMA OthersKeep ==
    ASSUME NEW cs, NEW ds, AllSound(cs), Onwards(cs, ds)
    PROVE  /\ \A me : Fine(me, cs) => Fine(me, ds)
           /\ \A found : Held(found, cs) => Held(found, ds)
<1>1. /\ Len(cs) \in Nat /\ Len(ds) \in Nat /\ Len(cs) <= Len(ds)
      /\ \A c \in 1 .. Len(cs) : Sound(cs[c]) /\ Sound(ds[c]) /\ Later(cs[c], ds[c])
  BY DEF Onwards, AllSound
<1>2. ASSUME NEW me, Fine(me, cs) PROVE Fine(me, ds)
  <2>1. CASE me.on = NoCursor
    BY <1>2, <2>1 DEF Fine
  <2>2. CASE me.on # NoCursor
    <3>1. me.on \in 1 .. Len(cs) /\ me \in Iterators /\ Given(me, cs[me.on])
      BY <1>2, <2>2 DEF Fine
    <3>2. me.on \in 1 .. Len(ds) /\ Given(me, ds[me.on])
      BY <1>1, <3>1, GivenStays
    <3> QED
      BY <1>2, <3>2 DEF Fine
  <2> QED
    BY <2>1, <2>2
<1>3. ASSUME NEW found, Held(found, cs) PROVE Held(found, ds)
  <2>1. CASE found # <<>>
    <3>1. /\ found[1] \in 1 .. Len(cs) /\ found[2] \in 1 .. Len(cs[found[1]].cache)
          /\ found[3] = cs[found[1]].cache[found[2]]
      BY <1>3, <2>1 DEF Held
    <3> DEFINE w == cs[found[1]]
               v == ds[found[1]]
    <3>2. Sound(w) /\ Sound(v) /\ Later(w, v) /\ found[1] \in 1 .. Len(ds)
      BY <1>1, <3>1
    <3>3. /\ Len(w.cache) \in Nat /\ Len(v.cache) \in Nat /\ Len(w.cache) <= Len(v.cache)
          /\ \A i \in 1 .. Len(w.cache) : v.cache[i] = w.cache[i]
      BY <3>2 DEF Sound, Wrappers, Later
    <3>4. found[2] \in 1 .. Len(w.cache) /\ found[3] = w.cache[found[2]]
      BY <3>1
    <3> HIDE DEF w, v
    <3>5. found[2] \in 1 .. Len(v.cache)
      BY <3>3, <3>4
    <3>6. found[3] = v.cache[found[2]]
      BY <3>3, <3>4
    <3> QED
      BY <3>2, <3>5, <3>6 DEF Held, v
  <2> QED
    BY <2>1 DEF Held
<1> QED
  BY <1>2, <1>3

\* The execution of a call, which is made if there is none.
LEMMA ExecutionSound ==
    ASSUME Ordered, CursorsSound
    PROVE  /\ Onwards(cursor, Executed) /\ Execution \in 1 .. Len(Executed)
           /\ Execution # NoCursor /\ Sound(Executed[Execution])
<1>1. AllSound(cursor) /\ cursor \in Seq(Wrappers) /\ limit \in Nat
  BY DEF CursorsSound, AllSound
<1>2. CASE current # NoCursor
  <2>1. Executed = cursor /\ Execution = current /\ current \in 1 .. Len(cursor)
    BY <1>2 DEF Executed, Execution, CursorsSound
  <2> QED
    BY <1>1, <1>2, <2>1, OneMoreRuns DEF AllSound
<1>3. CASE current = NoCursor
  <2>1. Executed = Append(cursor, NewCursor(limit)) /\ Execution = Len(cursor) + 1
    BY <1>3 DEF Executed, Execution
  <2>2. Sound(NewCursor(limit))
    BY <1>1, NewSound
  <2>3. Execution \in Nat \ {0}
    BY <1>1, <2>1
  <2>4. Execution # NoCursor
    BY <2>3 DEF Ordered
  <2> QED
    BY <1>1, <2>1, <2>2, <2>3, <2>4, OneMoreRuns
<1> QED
  BY <1>2, <1>3

\* A wrapper of one of the executions goes on: the rest of what holds of them.
LEMMA WrappersGoOn ==
    ASSUME CursorsSound, NEW ds, Onwards(cursor, ds), NEW e \in 1 .. Len(ds),
           NEW v, Sound(v), Later(ds[e], v),
           cursor' = [ds EXCEPT ![e] = v]
    PROVE  /\ Onwards(cursor, cursor') /\ Len(cursor') = Len(ds) /\ cursor'[e] = v
           /\ (current' = current \/ current' \in 1 .. Len(ds)) /\ limit' \in Nat => CursorsSound'
<1>0. AllSound(cursor)
  BY DEF CursorsSound
<1>1. Onwards(cursor, cursor') /\ Len(cursor') = Len(ds) /\ cursor'[e] = v
  <2>1. ds \in Seq(Wrappers) /\ v \in Wrappers
    BY DEF Onwards, AllSound, Sound
  <2>2. /\ cursor' \in Seq(Wrappers) /\ Len(cursor') = Len(ds) /\ cursor'[e] = v
        /\ \A c \in 1 .. Len(ds) : c # e => cursor'[c] = ds[c]
    BY <2>1
  <2> QED
    BY <1>0, <2>2, OneGoesOn
<1>2. AllSound(cursor') /\ Len(cursor) <= Len(cursor') /\ Len(cursor) \in Nat /\ Len(cursor') \in Nat
  BY <1>1 DEF Onwards, AllSound, CursorsSound
<1>3. ASSUME current' = current \/ current' \in 1 .. Len(ds), limit' \in Nat PROVE CursorsSound'
  <2>1. current' \in {NoCursor} \cup 1 .. Len(cursor')
    BY <1>1, <1>2, <1>3 DEF CursorsSound
  <2> QED
    BY <1>2, <1>3, <2>1 DEF CursorsSound
<1> QED
  BY <1>1, <1>3

\* If one reader moves, the others keep what they have.
LEMMA ReadersKeep ==
    ASSUME CursorsSound, ReadersSound, Onwards(cursor, cursor'), NEW r \in Readers, NEW me,
           Fine(me, cursor'), reader' = [reader EXCEPT ![r] = me]
    PROVE  ReadersSound'
<1>1. me \in Iterators /\ reader' \in [Readers -> Iterators] /\ reader'[r] = me
  BY DEF Fine, ReadersSound
<1>2. \A q \in Readers : q # r => reader'[q] = reader[q]
  BY DEF ReadersSound
<1>3. \A q \in Readers : Fine(reader[q], cursor')
  BY OthersKeep DEF CursorsSound, ReadersSound
<1>4. \A q \in Readers : Fine(reader'[q], cursor')
  BY <1>1, <1>2, <1>3
<1> QED
  BY <1>1, <1>4 DEF ReadersSound

\* Nothing was read in the beginning.
LEMMA InitSound == ASSUME Ordered PROVE Init => CacheInv
<1> SUFFICES ASSUME Init PROVE CacheInv
  OBVIOUS
<1>1. AllSound(cursor) /\ limit \in Nat /\ current = NoCursor
  BY DEF Init, AllSound, Ordered
<1>2. Fine(NewReader, cursor)
  BY DEF Fine, NewReader, Iterators, Increasing
<1>3. ReadersSound
  BY <1>2 DEF Init, ReadersSound, Fine
<1> QED
  BY <1>1, <1>3 DEF CacheInv, CursorsSound, Held, Init

-----------------------------------------------------------------------------
\* Where iter() says the rows are a list, they are all there.
LEMMA IterKeeps == ASSUME Ordered, CacheInv, NEW r \in Readers, Iter(r) PROVE CacheInv'
<1>1. CursorsSound /\ ReadersSound /\ Held(answer, cursor) /\ AllSound(cursor)
  BY DEF CacheInv, CursorsSound
<1>2. PICK full \in IF current = NoCursor THEN {[does |-> "ok", w |-> Executed[Execution]]}
                    ELSE FillCache(cursor[current], 0) :
         /\ reader[r].kind = "new" /\ CanExecute
         /\ cursor' = [Executed EXCEPT ![Execution] = full.w]
         /\ reader' = [reader EXCEPT ![r] =
              IF full.does = "raise" THEN [@ EXCEPT !.kind = "failed"]
              ELSE [@ EXCEPT !.kind = IF full.w.populated THEN "list" ELSE "result",
                             !.on = Execution]]
         /\ UNCHANGED <<bad, limit, answer>>
  BY DEF Iter
<1>3. /\ Onwards(cursor, Executed) /\ Execution \in 1 .. Len(Executed)
      /\ Execution # NoCursor /\ Sound(Executed[Execution])
  BY <1>1, ExecutionSound
<1>4. Sound(full.w) /\ Later(Executed[Execution], full.w)
  <2>1. CASE current = NoCursor
    <3>1. full.w = Executed[Execution]
      BY <2>1
    <3>2. Executed[Execution].count \in Nat /\ Len(Executed[Execution].cache) \in Nat
      BY <1>3 DEF Sound, Wrappers
    <3> QED
      BY <1>3, <3>1, <3>2 DEF Later
  <2>2. CASE current # NoCursor
    <3>1. full \in FillCache(Executed[Execution], 0)
      BY <2>2 DEF Executed, Execution
    <3> QED
      BY <1>3, <3>1, FillSound
  <2> QED
    BY <2>1, <2>2
<1>5. current' \in 1 .. Len(Executed) /\ limit' \in Nat
  BY <1>1, <1>2, <1>3 DEF CanExecute, CursorsSound
<1>6. /\ Onwards(cursor, cursor') /\ Len(cursor') = Len(Executed) /\ cursor'[Execution] = full.w
      /\ CursorsSound'
  BY <1>1, <1>2, <1>3, <1>4, <1>5, WrappersGoOn
<1> DEFINE now == IF full.does = "raise" THEN [NewReader EXCEPT !.kind = "failed"]
                  ELSE [NewReader EXCEPT !.kind = IF full.w.populated THEN "list" ELSE "result",
                                         !.on = Execution]
<1>7. reader[r] = NewReader /\ reader' = [reader EXCEPT ![r] = now]
  BY <1>1, <1>2 DEF ReadersSound, Fine
<1>8. Fine(now, cursor')
  <2>1. CASE full.does = "raise"
    <3>1. now = [kind |-> "failed", cached |-> TRUE, on |-> NoCursor, index |-> 0, seen |-> <<>>]
      BY <2>1 DEF NewReader
    <3> HIDE DEF now
    <3> QED
      BY <3>1 DEF Fine, Iterators, Increasing
  <2>2. CASE full.does # "raise"
    <3> DEFINE k == IF full.w.populated THEN "list" ELSE "result"
    <3>1. now = [kind |-> k, cached |-> TRUE, on |-> Execution, index |-> 0, seen |-> <<>>]
      BY <2>2 DEF NewReader
    <3>2. k \in {"list", "result"} /\ (k = "list" => full.w.populated) /\ Execution \in Nat
      BY <1>3
    <3> HIDE DEF now, k
    <3>3. now \in Iterators /\ Increasing(now.seen) /\ Len(full.w.cache) \in Nat
      BY <1>4, <3>1, <3>2 DEF Iterators, Increasing, Sound, Wrappers
    <3>4. Given(now, full.w)
      BY <3>1, <3>2, <3>3 DEF Given
    <3> QED
      BY <1>3, <1>6, <3>1, <3>2, <3>3, <3>4 DEF Fine
  <2> QED
    BY <2>1, <2>2
<1> HIDE DEF now
<1>9. ReadersSound'
  BY <1>1, <1>6, <1>7, <1>8, ReadersKeep
<1>10. Held(answer', cursor')
  BY <1>1, <1>2, <1>6, OthersKeep
<1> QED
  BY <1>6, <1>9, <1>10 DEF CacheInv

\* A generator that has taken nothing.
LEMMA IteratorKeeps == ASSUME Ordered, CacheInv, NEW r \in Readers, Iterator(r) PROVE CacheInv'
<1>1. CursorsSound /\ ReadersSound /\ Held(answer, cursor) /\ AllSound(cursor)
  BY DEF CacheInv, CursorsSound
<1>2. /\ Onwards(cursor, Executed) /\ Execution \in 1 .. Len(Executed)
      /\ Execution # NoCursor /\ Sound(Executed[Execution])
  BY <1>1, ExecutionSound
<1>3. /\ reader[r].kind = "new" /\ current' = Execution /\ cursor' = Executed
      /\ reader' = [reader EXCEPT ![r] = [@ EXCEPT !.kind = "stream", !.cached = FALSE,
                                                   !.on = Execution]]
      /\ limit' = limit /\ answer' = answer
  BY DEF Iterator, CanExecute
<1>4. Onwards(cursor, cursor') /\ CursorsSound'
  BY <1>1, <1>2, <1>3 DEF CursorsSound, Onwards
<1> DEFINE now == [reader[r] EXCEPT !.kind = "stream", !.cached = FALSE, !.on = Execution]
<1>5. /\ now \in Iterators /\ now.kind = "stream" /\ now.cached = FALSE /\ now.on = Execution
      /\ now.seen = <<>> /\ now.index = 0
  <2>1. reader[r] = NewReader /\ reader[r] \in Iterators
    BY <1>1, <1>3 DEF ReadersSound, Fine
  <2>2. reader[r].seen = <<>> /\ reader[r].index = 0
    BY <2>1 DEF NewReader
  <2> DEFINE me == reader[r]
  <2>3. me \in Iterators /\ Execution \in Nat
    BY <1>2, <2>1
  <2> HIDE DEF me
  <2>4. ASSUME NEW e \in Nat
        PROVE  LET m == [me EXCEPT !.kind = "stream", !.cached = FALSE, !.on = e] IN
               /\ m \in Iterators /\ m.kind = "stream" /\ m.cached = FALSE /\ m.on = e
               /\ m.seen = me.seen /\ m.index = me.index
    BY <2>3 DEF Iterators
  <2> QED
    BY <2>2, <2>3, <2>4 DEF me
<1> HIDE DEF now
<1>6. Fine(now, cursor')
  <2>1. Increasing(now.seen)
    BY <1>5 DEF Increasing
  <2>2. Given(now, Executed[Execution])
    <3>1. Executed[Execution].count \in Nat /\ Executed[Execution].rows \in Seq(Int)
          /\ Executed[Execution].count <= Len(Executed[Execution].rows)
      BY <1>2 DEF Sound, Wrappers, Cache
    <3> QED
      BY <1>5, <3>1 DEF Given, Behind
  <2> QED
    BY <1>2, <1>3, <1>5, <2>1, <2>2 DEF Fine
<1>7. ReadersSound'
  <2>1. reader' = [reader EXCEPT ![r] = now]
    BY <1>3 DEF now
  <2> QED
    BY <1>1, <1>4, <1>6, <2>1, ReadersKeep
<1>8. Held(answer', cursor')
  BY <1>1, <1>3, <1>4, OthersKeep
<1> QED
  BY <1>4, <1>7, <1>8 DEF CacheInv

-----------------------------------------------------------------------------
\* A call that gives a row of the cache, or none, and moves no iterator.
LEMMA AnswerHeld ==
    ASSUME CacheInv, Onwards(cursor, cursor'), CursorsSound', reader' = reader,
           NEW e \in 1 .. Len(cursor'),
           answer' = <<>> \/ answer' = answer \/
             \E k \in 1 .. Len(cursor'[e].cache) : answer' = <<e, k, cursor'[e].cache[k]>>
    PROVE  CacheInv'
<1>1. ReadersSound'
  <2>1. \A q \in Readers : Fine(reader[q], cursor')
    BY OthersKeep DEF CacheInv, CursorsSound, ReadersSound
  <2> QED
    BY <2>1 DEF CacheInv, ReadersSound
<1>2. Held(answer', cursor')
  <2>1. CASE answer' = <<>>
    BY <2>1 DEF Held
  <2>2. CASE answer' = answer
    BY <2>2, OthersKeep DEF CacheInv, CursorsSound
  <2>3. CASE \E k \in 1 .. Len(cursor'[e].cache) : answer' = <<e, k, cursor'[e].cache[k]>>
    BY <2>3 DEF Held
  <2> QED
    BY <2>1, <2>2, <2>3
<1> QED
  BY <1>1, <1>2 DEF CacheInv

\* query[i] is row i of the cache.
LEMMA ItemKeeps == ASSUME Ordered, CacheInv, NEW i \in 0 .. Len(Table), Item(i) PROVE CacheInv'
<1>1. PICK full \in FillCache(Executed[Execution], i + 1) :
         /\ CanExecute
         /\ cursor' = [Executed EXCEPT ![Execution] = full.w]
         /\ answer' = IF full.does = "ok" /\ i < Len(full.w.cache)
                      THEN <<Execution, i + 1, full.w.cache[i + 1]>> ELSE <<>>
         /\ UNCHANGED <<bad, limit, reader>>
  BY DEF Item
<1>2. /\ Onwards(cursor, Executed) /\ Execution \in 1 .. Len(Executed)
      /\ Execution # NoCursor /\ Sound(Executed[Execution])
  BY ExecutionSound DEF CacheInv
<1>3. Sound(full.w) /\ Later(Executed[Execution], full.w) /\ Len(full.w.cache) \in Nat
  <2>1. Sound(full.w) /\ Later(Executed[Execution], full.w)
    BY <1>2, FillSound
  <2> QED
    BY <2>1 DEF Sound, Wrappers
<1>4. current' \in 1 .. Len(Executed) /\ limit' \in Nat
  BY <1>1, <1>2 DEF CanExecute, CacheInv, CursorsSound
<1>5. /\ Onwards(cursor, cursor') /\ Len(cursor') = Len(Executed) /\ cursor'[Execution] = full.w
      /\ CursorsSound'
  BY <1>1, <1>2, <1>3, <1>4, WrappersGoOn DEF CacheInv
<1>6. answer' = <<>> \/ \E k \in 1 .. Len(full.w.cache) :
                          answer' = <<Execution, k, full.w.cache[k]>>
  <2>1. CASE i < Len(full.w.cache)
    <3>1. i + 1 \in 1 .. Len(full.w.cache)
      BY <1>3, <2>1
    <3> QED
      BY <1>1, <3>1
  <2>2. CASE ~(i < Len(full.w.cache))
    BY <1>1, <2>2
  <2> QED
    BY <2>1, <2>2
<1> DEFINE e == Execution
<1>7. e \in 1 .. Len(cursor') /\ cursor'[e] = full.w
  BY <1>2, <1>5
<1>8. answer' = <<>> \/ \E k \in 1 .. Len(full.w.cache) : answer' = <<e, k, full.w.cache[k]>>
  BY <1>6
<1> HIDE DEF e
<1>9. answer' = <<>> \/ answer' = answer \/
        \E k \in 1 .. Len(cursor'[e].cache) : answer' = <<e, k, cursor'[e].cache[k]>>
  BY <1>7, <1>8
<1> QED
  BY <1>1, <1>5, <1>7, <1>9, AnswerHeld

\* len(query) only fills the cache.
LEMMA LengthKeeps == ASSUME Ordered, CacheInv, Length PROVE CacheInv'
<1>1. PICK full \in FillCache(Executed[Execution], 0) :
         cursor' = [Executed EXCEPT ![Execution] = full.w]
  BY DEF Length
<1>2. /\ Onwards(cursor, Executed) /\ Execution \in 1 .. Len(Executed)
      /\ Execution # NoCursor /\ Sound(Executed[Execution])
  BY ExecutionSound DEF CacheInv
<1>3. Sound(full.w) /\ Later(Executed[Execution], full.w)
  BY <1>2, FillSound
<1>4. current' \in 1 .. Len(Executed) /\ limit' \in Nat
  BY <1>2 DEF Length, CanExecute, CacheInv, CursorsSound
<1>5. /\ Onwards(cursor, cursor') /\ Len(cursor') = Len(Executed)
      /\ CursorsSound'
  BY <1>1, <1>2, <1>3, <1>4, WrappersGoOn DEF CacheInv
<1>6. reader' = reader /\ answer' = answer
  BY DEF Length
<1> QED
  BY <1>2, <1>5, <1>6, AnswerHeld

\* first() and get() give the first row of the cache.
LEMMA FirstRow ==
    ASSUME NEW w, Sound(w), NEW does, NEW e,
           NEW found, found = IF does = "ok" /\ w.cache # <<>> THEN <<e, 1, w.cache[1]>> ELSE <<>>
    PROVE  found = <<>> \/ \E k \in 1 .. Len(w.cache) : found = <<e, k, w.cache[k]>>
<1>1. w.cache \in Seq(Int)
  BY DEF Sound, Wrappers
<1>2. w.cache # <<>> => 1 \in 1 .. Len(w.cache)
  BY <1>1, EmptySeq
<1> QED
  BY <1>2

\* first() may be an execution of its own, with its own limit.
LEMMA FirstKeeps == ASSUME Ordered, CacheInv, First PROVE CacheInv'
<1> DEFINE again == current = NoCursor \/ limit # 1
           on == IF again THEN Len(cursor) + 1 ELSE current
           ran == IF again THEN Append(cursor, NewCursor(1)) ELSE cursor
<1>1. PICK full \in FillCache(ran[on], 1) :
         /\ current' = on /\ limit' = 1
         /\ cursor' = [ran EXCEPT ![on] = full.w]
         /\ answer' = IF full.does = "ok" /\ full.w.cache # <<>>
                      THEN <<on, 1, full.w.cache[1]>> ELSE <<>>
         /\ reader' = reader
  BY DEF First
<1>2. AllSound(cursor) /\ Len(cursor) \in Nat /\ Sound(NewCursor(1))
  BY NewSound DEF CacheInv, CursorsSound, AllSound
<1>3. Onwards(cursor, ran) /\ on \in 1 .. Len(ran) /\ Sound(ran[on])
  <2>1. CASE again
    <3>1. ran = Append(cursor, NewCursor(1)) /\ on = Len(cursor) + 1
      BY <2>1
    <3> HIDE DEF ran, on
    <3> QED
      BY <1>2, <3>1, OneMoreRuns
  <2>2. CASE ~again
    <3>1. ran = cursor /\ on = current /\ current \in 1 .. Len(cursor)
      BY <2>2 DEF CacheInv, CursorsSound
    <3> HIDE DEF ran, on
    <3> QED
      BY <1>2, <3>1, OneMoreRuns DEF AllSound
  <2> QED
    BY <2>1, <2>2
<1> HIDE DEF ran, on
<1>4. Sound(full.w) /\ Later(ran[on], full.w)
  BY <1>3, FillSound
<1>5. /\ Onwards(cursor, cursor') /\ Len(cursor') = Len(ran) /\ cursor'[on] = full.w
      /\ CursorsSound'
  BY <1>1, <1>3, <1>4, WrappersGoOn DEF CacheInv
<1>6. answer' = <<>> \/ \E k \in 1 .. Len(full.w.cache) : answer' = <<on, k, full.w.cache[k]>>
  BY <1>1, <1>4, FirstRow
<1>7. answer' = <<>> \/ answer' = answer \/
        \E k \in 1 .. Len(cursor'[on].cache) : answer' = <<on, k, cursor'[on].cache[k]>>
  BY <1>5, <1>6
<1> QED
  BY <1>1, <1>3, <1>5, <1>7, AnswerHeld

\* get() is an execution of its own.
LEMMA GetKeeps == ASSUME Ordered, CacheInv, Get PROVE CacheInv'
<1> DEFINE on == Len(cursor) + 1
<1>1. PICK full \in FillCache(NewCursor(limit), 1) :
         /\ current' = on /\ limit' = limit
         /\ cursor' = Append(cursor, full.w)
         /\ answer' = IF full.does = "ok" /\ full.w.cache # <<>>
                      THEN <<on, 1, full.w.cache[1]>> ELSE <<>>
         /\ reader' = reader
  BY DEF Get
<1>2. AllSound(cursor) /\ Len(cursor) \in Nat /\ limit \in Nat /\ Sound(NewCursor(limit))
  BY NewSound DEF CacheInv, CursorsSound, AllSound
<1>3. Sound(full.w)
  BY <1>2, FillSound
<1>4. Onwards(cursor, cursor') /\ Len(cursor') = on /\ cursor'[on] = full.w
  BY <1>1, <1>2, <1>3, OneMoreRuns
<1>5. on \in 1 .. Len(cursor')
  BY <1>2, <1>4
<1> HIDE DEF on
<1>6. CursorsSound'
  BY <1>1, <1>2, <1>4, <1>5 DEF CursorsSound, Onwards
<1>7. answer' = <<>> \/ \E k \in 1 .. Len(full.w.cache) : answer' = <<on, k, full.w.cache[k]>>
  BY <1>1, <1>3, FirstRow
<1>8. answer' = <<>> \/ answer' = answer \/
        \E k \in 1 .. Len(cursor'[on].cache) : answer' = <<on, k, cursor'[on].cache[k]>>
  BY <1>4, <1>7
<1> QED
  BY <1>1, <1>4, <1>5, <1>6, <1>8, AnswerHeld

-----------------------------------------------------------------------------
\* Of two sequences that give the same rows the longer one goes on in order.
LEMMA GoesOn ==
    ASSUME NEW s \in Seq(Int), NEW C \in Seq(Int), Increasing(s), Increasing(C),
           Len(s) + 1 \in 1 .. Len(C), \A i \in 1 .. Len(s) : s[i] = C[i]
    PROVE  LET t == Append(s, C[Len(s) + 1]) IN
           /\ t \in Seq(Int) /\ Increasing(t) /\ Len(t) = Len(s) + 1
           /\ \A i \in 1 .. Len(s) + 1 : t[i] = C[i]
<1> DEFINE x == C[Len(s) + 1]
<1>1. x \in Int /\ \A i \in 1 .. Len(s) : s[i] < x
  <2>1. \A i \in 1 .. Len(s) : i \in 1 .. Len(C) /\ i < Len(s) + 1
    OBVIOUS
  <2> QED
    BY <2>1 DEF Increasing
<1>2. x = C[Len(s) + 1]
  OBVIOUS
<1> HIDE DEF x
<1>3. /\ Append(s, x) \in Seq(Int) /\ Increasing(Append(s, x)) /\ Len(Append(s, x)) = Len(s) + 1
      /\ Append(s, x)[Len(s) + 1] = x /\ \A i \in 1 .. Len(s) : Append(s, x)[i] = s[i]
  BY <1>1, Longer
<1>4. \A i \in 1 .. Len(s) + 1 : Append(s, x)[i] = C[i]
  BY <1>2, <1>3
<1> QED
  BY <1>3, <1>4 DEF x

\* What an iterator is that has got the row x after those it had.
More(me, x, now) ==
    /\ now \in Iterators /\ now.kind = me.kind /\ now.cached = me.cached /\ now.on = me.on
    /\ now.index = me.index + 1 /\ now.seen = Append(me.seen, x)

\* The next row makes it so.
LEMMA RowTaken ==
    ASSUME NEW me \in Iterators, NEW x \in Int
    PROVE  More(me, x, [me EXCEPT !.index = @ + 1, !.seen = Append(@, x)])
<1> DEFINE n == me.index + 1
           s == Append(me.seen, x)
           now == [me EXCEPT !.index = n, !.seen = s]
<1>1. n \in Nat /\ s \in Seq(Int)
  BY DEF Iterators
<1>2. [me EXCEPT !.index = @ + 1, !.seen = Append(@, x)] = now
  BY DEF Iterators
<1> HIDE DEF n, s
<1>3. /\ now \in Iterators /\ now.kind = me.kind /\ now.cached = me.cached /\ now.on = me.on
      /\ now.index = n /\ now.seen = s
  BY <1>1 DEF Iterators
<1> QED
  BY <1>2, <1>3 DEF More, n, s

\* What it becomes when there is none.
LEMMA KindChanged ==
    ASSUME NEW me \in Iterators, NEW k \in {"ended", "failed"}
    PROVE  LET now == [me EXCEPT !.kind = k] IN
           /\ now \in Iterators /\ now.kind = k /\ now.cached = me.cached /\ now.on = me.on
           /\ now.index = me.index /\ now.seen = me.seen
BY DEF Iterators

\* What next() of an iterator does to the wrapper.
NextRead(me, w) ==
    CASE me.kind = "result" -> NextOf(w, me.index)
      [] me.kind = "list" -> IF me.index < Len(w.cache) THEN Cached(w, me.index)
                             ELSE [does |-> "stop", w |-> w]
      [] me.kind = "stream" -> IF w.populated THEN [does |-> "raise", w |-> w]
                               ELSE Iterate(w, FALSE)

\* It keeps the wrapper sound, and a row it gives is the next one of the cache, or
\* the next one of all if it is a generator's; at the end all rows were fetched.
LEMMA NextReadSound ==
    ASSUME NEW w, Sound(w), NEW me \in Iterators, me.kind \in {"result", "list", "stream"},
           me.kind = "list" => w.populated
    PROVE  LET it == NextRead(me, w) IN
           /\ Sound(it.w) /\ Later(w, it.w) /\ it.does \in {"row", "stop", "raise"}
           /\ it.does = "row" =>
                IF me.kind = "stream"
                THEN /\ it.row = w.rows[w.count + 1] /\ w.count < Len(w.rows) /\ it.w.count = w.count + 1
                ELSE me.index + 1 \in 1 .. Len(it.w.cache) /\ it.row = it.w.cache[me.index + 1]
           /\ it.does = "stop" =>
                IF me.kind = "stream" THEN w.count = Len(w.rows)
                ELSE it.w.populated /\ (it.w.count <= me.index \/ Len(it.w.cache) <= me.index)
<1>1. w \in Wrappers /\ w.count \in Nat /\ Len(w.cache) \in Nat /\ me.index \in Nat
  BY DEF Sound, Wrappers, Iterators
<1>2. Later(w, w)
  BY <1>1 DEF Later
<1>3. CASE me.kind = "result"
  <2>1. NextRead(me, w) = NextOf(w, me.index)
    BY <1>3 DEF NextRead
  <2> QED
    BY <1>1, <1>3, <2>1, NextSound
<1>4. CASE me.kind = "list" /\ me.index < Len(w.cache)
  <2>1. NextRead(me, w) = [does |-> "row", row |-> w.cache[me.index + 1], w |-> w]
    BY <1>4 DEF NextRead, Cached
  <2> QED
    BY <1>1, <1>2, <1>4, <2>1
<1>5. CASE me.kind = "list" /\ ~(me.index < Len(w.cache))
  <2>1. NextRead(me, w) = [does |-> "stop", w |-> w]
    BY <1>5 DEF NextRead
  <2> QED
    BY <1>1, <1>2, <1>5, <2>1
<1>6. CASE me.kind = "stream" /\ w.populated
  <2>1. NextRead(me, w) = [does |-> "raise", w |-> w]
    BY <1>6 DEF NextRead
  <2> QED
    BY <1>2, <2>1
<1>7. CASE me.kind = "stream" /\ ~w.populated
  <2>1. NextRead(me, w) = Iterate(w, FALSE)
    BY <1>7 DEF NextRead
  <2> QED
    BY <1>7, <2>1, IterateSound
<1> QED
  BY <1>3, <1>4, <1>5, <1>6, <1>7

\* An iterator over the cache has got the next row of it.
LEMMA CachedGives ==
    ASSUME NEW v, Sound(v), NEW me \in Iterators, me.cached, me.kind \in {"result", "list"},
           Increasing(me.seen), Given(me, v),
           me.index + 1 \in 1 .. Len(v.cache), NEW x, x = v.cache[me.index + 1],
           NEW now, More(me, x, now)
    PROVE  now \in Iterators /\ Increasing(now.seen) /\ Given(now, v) /\ now.kind = me.kind /\ now.on = me.on
           /\ now.cached
<1>1. /\ v.cache \in Seq(Int) /\ Increasing(v.cache) /\ me.seen \in Seq(Int) /\ me.index \in Nat
  BY DEF Sound, Wrappers, Cache, Iterators
<1>2. /\ me.index = Len(me.seen) /\ \A i \in 1 .. me.index : me.seen[i] = v.cache[i]
      /\ me.kind = "list" => v.populated
  BY DEF Given
<1>3. x \in Int
  BY <1>1
<1>4. /\ now \in Iterators /\ now.kind = me.kind /\ now.cached = me.cached /\ now.on = me.on
      /\ now.index = me.index + 1 /\ now.seen = Append(me.seen, x)
  BY DEF More
<1>5. /\ now.seen \in Seq(Int) /\ Increasing(now.seen) /\ Len(now.seen) = me.index + 1
      /\ \A i \in 1 .. me.index + 1 : now.seen[i] = v.cache[i]
  <2> DEFINE q == me.seen
  <2>1. q \in Seq(Int) /\ Increasing(q) /\ me.index = Len(q) /\ \A i \in 1 .. Len(q) : q[i] = v.cache[i]
    BY <1>1, <1>2
  <2>2. now.seen = Append(q, v.cache[Len(q) + 1]) /\ Len(q) + 1 \in 1 .. Len(v.cache)
    BY <1>4, <2>1
  <2> HIDE DEF q
  <2>3. LET t == Append(q, v.cache[Len(q) + 1]) IN
        /\ t \in Seq(Int) /\ Increasing(t) /\ Len(t) = Len(q) + 1
        /\ \A i \in 1 .. Len(q) + 1 : t[i] = v.cache[i]
    BY <1>1, <2>1, <2>2, GoesOn
  <2> QED
    BY <2>1, <2>2, <2>3
<1>6. now.index <= Len(v.cache)
  BY <1>4
<1>7. Given(now, v)
  BY <1>2, <1>4, <1>5, <1>6 DEF Given
<1> QED
  BY <1>4, <1>5, <1>7

\* A generator has got a row that comes after those it had.
LEMMA StreamGives ==
    ASSUME NEW w, Sound(w), NEW v, Sound(v), Later(w, v), NEW me \in Iterators, ~me.cached,
           me.kind = "stream",
           Increasing(me.seen), Given(me, w),
           w.count < Len(w.rows), v.count = w.count + 1, NEW x, x = w.rows[w.count + 1],
           NEW now, More(me, x, now)
    PROVE  now \in Iterators /\ Increasing(now.seen) /\ Given(now, v) /\ now.kind = me.kind /\ now.on = me.on
           /\ ~now.cached
<1>1. /\ w.rows \in Seq(Int) /\ Increasing(w.rows) /\ w.count \in Nat /\ v.rows = w.rows
      /\ me.seen \in Seq(Int) /\ me.index \in Nat
  BY DEF Sound, Wrappers, Cache, Iterators, Later
<1>2. /\ Len(me.seen) <= w.count /\ Behind(me.seen, w.rows, w.count)
      /\ Len(me.seen) = w.count => \A i \in 1 .. w.count : me.seen[i] = w.rows[i]
  BY DEF Given
<1>3. /\ x \in Int /\ \A i \in 1 .. Len(me.seen) : me.seen[i] < x
      /\ Behind(Append(me.seen, x), w.rows, w.count + 1)
  BY <1>1, <1>2, NextRow
<1>4. /\ now \in Iterators /\ now.kind = me.kind /\ now.cached = me.cached /\ now.on = me.on
      /\ now.index = me.index + 1 /\ now.seen = Append(me.seen, x)
  BY DEF More
<1>5. /\ now.seen \in Seq(Int) /\ Increasing(now.seen) /\ Len(now.seen) = Len(me.seen) + 1
      /\ now.seen[Len(me.seen) + 1] = x /\ \A i \in 1 .. Len(me.seen) : now.seen[i] = me.seen[i]
  <2> DEFINE q == me.seen
  <2>1. q \in Seq(Int) /\ Increasing(q) /\ \A i \in 1 .. Len(q) : q[i] < x
    BY <1>1, <1>3
  <2> HIDE DEF q
  <2>2. /\ Append(q, x) \in Seq(Int) /\ Increasing(Append(q, x))
        /\ Len(Append(q, x)) = Len(q) + 1 /\ Append(q, x)[Len(q) + 1] = x
        /\ \A i \in 1 .. Len(q) : Append(q, x)[i] = q[i]
    BY <1>3, <2>1, Longer
  <2> QED
    BY <1>4, <2>2 DEF q
<1>6. Len(now.seen) <= v.count /\ Behind(now.seen, v.rows, v.count)
  BY <1>1, <1>2, <1>3, <1>4, <1>5, SMTT(30)
<1>7. ASSUME Len(now.seen) = v.count PROVE \A i \in 1 .. v.count : now.seen[i] = w.rows[i]
  <2>1. Len(me.seen) = w.count
    <3>1. Len(me.seen) \in Nat /\ Len(me.seen) + 1 = w.count + 1
      BY <1>1, <1>5, <1>7
    <3> QED
      BY <1>1, <3>1
  <2>2. \A i \in 1 .. w.count : now.seen[i] = w.rows[i]
    BY <1>2, <1>5, <2>1
  <2>3. now.seen[w.count + 1] = w.rows[w.count + 1]
    BY <1>5, <2>1
  <2>4. \A i \in 1 .. v.count : i \in 1 .. w.count \/ i = w.count + 1
    BY <1>1
  <2> QED
    BY <2>2, <2>3, <2>4
<1>8. Given(now, v)
  BY <1>1, <1>4, <1>6, <1>7 DEF Given
<1> QED
  BY <1>4, <1>5, <1>8

\* next() of an iterator: all that is known of it goes on.
LEMMA ReadKeeps == ASSUME Ordered, CacheInv, NEW r \in Readers, Read(r) PROVE CacheInv'
<1> DEFINE me == reader[r]
           w == cursor[me.on]
           it == NextRead(me, w)
           now == CASE it.does = "row" -> [me EXCEPT !.index = @ + 1, !.seen = Append(@, it.row)]
                    [] it.does = "stop" -> [me EXCEPT !.kind = "ended"]
                    [] it.does = "raise" -> IF me.kind = "stream" THEN [me EXCEPT !.kind = "failed"]
                                            ELSE me
           k == me.on
           v == it.w
<1>1. /\ me.kind \in {"result", "list", "stream"}
      /\ cursor' = [cursor EXCEPT ![k] = v]
      /\ reader' = [reader EXCEPT ![r] = now]
      /\ limit' = limit /\ current' = current /\ answer' = answer
  BY DEF Read, NextRead
<1>2. CursorsSound /\ ReadersSound /\ Held(answer, cursor) /\ AllSound(cursor)
  BY DEF CacheInv, CursorsSound
<1>3. Fine(me, cursor)
  BY <1>2 DEF ReadersSound
<1>4. /\ me \in Iterators /\ Increasing(me.seen) /\ k # NoCursor /\ k \in 1 .. Len(cursor)
      /\ Given(me, w) /\ me.kind # "new"
      /\ me.kind \in {"result", "list"} => me.cached
      /\ me.kind = "stream" => ~me.cached
  BY <1>1, <1>3 DEF Fine
<1>5. Sound(w) /\ w = cursor[k]
  BY <1>2, <1>4 DEF AllSound
<1> HIDE DEF me, w, now, k
<1>6. me.kind = "list" => w.populated
  BY <1>4 DEF Given
<1>7. /\ Sound(v) /\ Later(w, v) /\ it.does \in {"row", "stop", "raise"}
      /\ it.does = "row" =>
           IF me.kind = "stream"
           THEN /\ it.row = w.rows[w.count + 1] /\ w.count < Len(w.rows) /\ v.count = w.count + 1
           ELSE me.index + 1 \in 1 .. Len(v.cache) /\ it.row = v.cache[me.index + 1]
      /\ it.does = "stop" =>
           IF me.kind = "stream" THEN w.count = Len(w.rows)
           ELSE v.populated /\ (v.count <= me.index \/ Len(v.cache) <= me.index)
  BY <1>1, <1>4, <1>5, <1>6, NextReadSound
<1> HIDE DEF it, v
<1>8. Onwards(cursor, cursor') /\ Len(cursor') = Len(cursor) /\ cursor'[k] = v /\ CursorsSound'
  <2>1. Onwards(cursor, cursor)
    BY <1>2, OneMoreRuns
  <2>2. limit' \in Nat
    BY <1>1, <1>2 DEF CursorsSound
  <2>3. Later(cursor[k], v) /\ Sound(v) /\ current' = current
    BY <1>1, <1>5, <1>7
  <2> QED
    BY <1>1, <1>2, <1>4, <2>1, <2>2, <2>3, WrappersGoOn
<1>9. Given(me, v)
  BY <1>4, <1>5, <1>7, GivenStays
<1>10. now \in Iterators /\ Increasing(now.seen) /\ Given(now, v) /\ now.on = me.on /\ now.kind # "new"
       /\ (now.kind \in {"result", "list"} => now.cached) /\ (now.kind = "stream" => ~now.cached)
  <2>1. CASE it.does = "row"
    <3> DEFINE x == it.row
    <3>1. now = [me EXCEPT !.index = @ + 1, !.seen = Append(@, x)]
      BY <2>1 DEF now
    <3>2. x \in Int
      <4>1. /\ w.rows \in Seq(Int) /\ v.cache \in Seq(Int) /\ w.count \in Nat
        BY <1>5, <1>7 DEF Sound, Wrappers
      <4>2. w.count < Len(w.rows) => w.count + 1 \in 1 .. Len(w.rows)
        BY <4>1
      <4> QED
        BY <1>7, <2>1, <4>1, <4>2
    <3>3. More(me, x, now)
      BY <1>4, <3>1, <3>2, RowTaken
    <3>4. CASE me.kind = "stream"
      BY <1>4, <1>5, <1>7, <2>1, <3>3, <3>4, StreamGives
    <3>5. CASE me.kind \in {"result", "list"}
      BY <1>4, <1>7, <1>9, <2>1, <3>3, <3>5, CachedGives
    <3> QED
      BY <1>1, <3>4, <3>5
  <2>2. CASE it.does = "stop"
    <3>1. now = [me EXCEPT !.kind = "ended"]
      BY <2>2 DEF now
    <3>2. /\ now \in Iterators /\ now.kind = "ended" /\ now.cached = me.cached /\ now.on = me.on
          /\ now.index = me.index /\ now.seen = me.seen
      BY <1>4, <3>1, KindChanged
    <3>3. /\ v.rows = w.rows /\ v.count \in Nat /\ w.count \in Nat /\ Len(v.cache) \in Nat
          /\ v.populated => v.count = Len(v.rows)
          /\ v.clean => Len(v.cache) = v.count
          /\ v.count <= Len(v.rows) /\ w.count <= v.count /\ Len(v.rows) \in Nat
      BY <1>5, <1>7 DEF Sound, Later, Wrappers, Cache, Whole
    <3>4. me.index \in Nat /\ Len(me.seen) \in Nat
      BY <1>4 DEF Iterators
    <3>5. Given(now, v)
      <4>1. CASE me.cached
        <5>1. me.index <= Len(v.cache) /\ me.kind # "stream"
          BY <1>4, <1>9, <4>1 DEF Given
        <5>2. v.clean => me.index = Len(v.rows)
          BY <1>7, <2>2, <3>3, <3>4, <5>1
        <5> QED
          BY <1>9, <3>2, <4>1, <5>2 DEF Given
      <4>2. CASE ~me.cached
        <5>1. me.kind = "stream"
          BY <1>1, <1>4, <4>2
        <5>2. v.count = Len(v.rows)
          BY <1>7, <2>2, <3>3, <5>1
        <5> QED
          BY <1>9, <3>2, <4>2, <5>2 DEF Given
      <4> QED
        BY <4>1, <4>2
    <3> QED
      BY <1>4, <3>2, <3>5
  <2>3. CASE it.does = "raise" /\ me.kind = "stream"
    <3>1. now = [me EXCEPT !.kind = "failed"]
      BY <2>3 DEF now
    <3>2. /\ now \in Iterators /\ now.kind = "failed" /\ now.cached = me.cached /\ now.on = me.on
          /\ now.index = me.index /\ now.seen = me.seen
      BY <1>4, <3>1, KindChanged
    <3>3. Given(now, v)
      BY <1>9, <3>2 DEF Given
    <3> QED
      BY <1>4, <3>2, <3>3
  <2>4. CASE it.does = "raise" /\ me.kind # "stream"
    <3>1. now = me
      BY <2>4 DEF now
    <3> QED
      BY <1>1, <1>4, <1>9, <3>1
  <2> QED
    BY <1>7, <2>1, <2>2, <2>3, <2>4
<1>11. Fine(now, cursor')
  BY <1>4, <1>8, <1>10 DEF Fine, k
<1>12. ReadersSound'
  BY <1>1, <1>2, <1>8, <1>11, ReadersKeep
<1>13. Held(answer', cursor')
  BY <1>1, <1>2, <1>8, OthersKeep
<1> QED
  BY <1>8, <1>12, <1>13 DEF CacheInv

\* Every step keeps what is known.
LEMMA StepKeeps == ASSUME Ordered, CacheInv, [Next]_vars PROVE CacheInv'
<1>1. ASSUME NEW r \in Readers, Iter(r) \/ Iterator(r) \/ Read(r) PROVE CacheInv'
  BY <1>1, IterKeeps, IteratorKeeps, ReadKeeps
<1>2. ASSUME NEW i \in 0 .. Len(Table), Item(i) PROVE CacheInv'
  BY <1>2, ItemKeeps
<1>3. CASE Length \/ First \/ Get
  BY <1>3, LengthKeeps, FirstKeeps, GetKeeps
<1>4. CASE UNCHANGED vars
  BY <1>4 DEF vars, CacheInv, CursorsSound, ReadersSound
<1> QED
  BY <1>1, <1>2, <1>3, <1>4 DEF Next

-----------------------------------------------------------------------------
\* A sequence that gives the first rows of R is a beginning of R.
LEMMA Beginning ==
    ASSUME NEW s \in Seq(Int), NEW R \in Seq(Int), Len(s) <= Len(R),
           \A i \in 1 .. Len(s) : s[i] = R[i]
    PROVE  s = SubSeq(R, 1, Len(s)) /\ (Len(s) = Len(R) => s = R)
<1> DEFINE t == SubSeq(R, 1, Len(s))
<1>1. t \in Seq(Int) /\ Len(t) = Len(s) /\ \A i \in 1 .. Len(s) : t[i] = R[i]
  BY SubSeqProperties
<1> HIDE DEF t
<1>2. s = t
  BY <1>1, SeqEqual
<1>3. Len(s) = Len(R) => s = R
  BY SeqEqual
<1> QED
  BY <1>2, <1>3 DEF t

\* What is known of iterators and answers says that nobody gets a row twice.
LEMMA InvGives == ASSUME CacheInv PROVE RowsOnce
<1>1. CursorsSound /\ ReadersSound /\ Held(answer, cursor) /\ AllSound(cursor)
  BY DEF CacheInv, CursorsSound
<1>2. ASSUME NEW r \in Readers
      PROVE  LET me == reader[r] IN
        /\ \A i, j \in DOMAIN me.seen : i < j => me.seen[i] < me.seen[j]
        /\ me.on # NoCursor =>
             LET w == cursor[me.on] IN
             IF (me.cached /\ w.clean) \/ (~me.cached /\ w.count = Len(me.seen))
             THEN /\ me.seen = SubSeq(w.rows, 1, Len(me.seen))
                  /\ me.kind = "ended" => me.seen = w.rows
             ELSE TRUE
  <2> DEFINE me == reader[r]
             w == cursor[me.on]
  <2>1. Fine(me, cursor)
    BY <1>1 DEF ReadersSound
  <2> HIDE DEF me
  <2>2. me \in Iterators /\ me.seen \in Seq(Int) /\ Increasing(me.seen) /\ me.index \in Nat
    BY <2>1 DEF Fine, Iterators
  <2>3. \A i, j \in DOMAIN me.seen : i < j => me.seen[i] < me.seen[j]
    <3>1. DOMAIN me.seen = 1 .. Len(me.seen)
      BY <2>2, LenProperties
    <3>2. \A i, j \in 1 .. Len(me.seen) : i < j => me.seen[i] < me.seen[j]
      BY <2>2, Zenon DEF Increasing
    <3> QED
      BY <3>1, <3>2, Zenon
  <2>4. ASSUME me.on # NoCursor, (me.cached /\ w.clean) \/ (~me.cached /\ w.count = Len(me.seen))
        PROVE  me.seen = SubSeq(w.rows, 1, Len(me.seen)) /\ (me.kind = "ended" => me.seen = w.rows)
    <3>1. Given(me, w) /\ Sound(w)
      BY <1>1, <2>1, <2>4 DEF Fine, AllSound
    <3> HIDE DEF w
    <3>2. /\ w.rows \in Seq(Int) /\ w.count \in Nat /\ w.count <= Len(w.rows)
          /\ Len(w.cache) <= w.count /\ Len(w.cache) \in Nat
          /\ w.clean => Len(w.cache) = w.count /\ \A i \in 1 .. w.count : w.cache[i] = w.rows[i]
      BY <3>1 DEF Sound, Wrappers, Cache, Whole
    <3>3. /\ Len(me.seen) <= Len(w.rows) /\ \A i \in 1 .. Len(me.seen) : me.seen[i] = w.rows[i]
          /\ me.kind = "ended" => Len(me.seen) = Len(w.rows)
      BY <2>2, <2>4, <3>1, <3>2, SMTT(30) DEF Given
    <3> QED
      BY <2>2, <3>2, <3>3, Beginning
  <2> QED
    BY <2>3, <2>4 DEF me
<1>3. ASSUME answer # <<>>, cursor[answer[1]].clean
      PROVE  answer[3] = cursor[answer[1]].rows[answer[2]]
  <2> DEFINE w == cursor[answer[1]]
  <2>1. answer[2] \in 1 .. Len(w.cache) /\ answer[3] = w.cache[answer[2]] /\ Sound(w)
    BY <1>1, <1>3 DEF Held, AllSound
  <2>2. w.clean
    BY <1>3
  <2> HIDE DEF w
  <2>3. Whole(w.rows, w.count, w.cache)
    BY <2>1, <2>2 DEF Sound
  <2>4. answer[3] = w.rows[answer[2]]
    BY <2>1, <2>3 DEF Whole
  <2> QED
    BY <2>4 DEF w
<1> QED
  BY <1>2, <1>3 DEF RowsOnce

\* For any table, any rows that do not convert, any number of iterators, executions
\* and calls, and in any order: no iterator gives a row twice or out of order, one
\* ends where the rows end, and an index is the row at its place, as long as the
\* cache of the execution missed none (CursorWrapper, ResultIterator, fill_cache,
\* first() and get()).
THEOREM RowsAlwaysOnce == ASSUME Ordered PROVE Spec => []RowsOnce
<1>1. Init => CacheInv
  BY InitSound
<1>2. CacheInv /\ [Next]_vars => CacheInv'
  BY StepKeeps
<1>3. CacheInv => RowsOnce
  BY InvGives
<1> QED
  BY <1>1, <1>2, <1>3, PTL DEF Spec
=============================================================================
