--------------------------- MODULE StreamingProofs ---------------------------
(***************************************************************************)
(* Any number of generators: the lock of a connection, and the transaction  *)
(* that asyncpg wants around a cursor, belong to one statement at a time.    *)
(***************************************************************************)
EXTENDS Streaming, FiniteSetTheorems, SequenceTheorems, TLAPS

TaskStates == {"idle", "wait", "wait_briefly", "execute", "begin", "open", "undo"}
Executing == {"execute", "begin", "open", "undo"}
CursorStates == {"open", "fetch", "kept", "dropped", "cleanup"}

LockTypes ==
    /\ task \in TaskStates
    /\ wants \in Gens \cup {Nobody}
    /\ gen \in [Gens -> GenStates]
    /\ locked \in BOOLEAN /\ streaming \in BOOLEAN
    /\ depth \in Nat /\ broken \subseteq Breaks

\* A generator somebody waits for has no cursor yet, and a cursor is opened for
\* a generator.
WantsNew ==
    /\ wants # Nobody => gen[wants] = "new"
    /\ task \in {"begin", "open", "undo"} => wants # Nobody

\* A statement that runs is the only one, and so is a cursor; there is none any more
\* after a rollback that was cut short.
OneStatement ==
    /\ task \in Executing => \A g \in Gens : gen[g] \notin CursorStates
    /\ \A g, h \in Gens : gen[g] \in CursorStates /\ gen[h] \in CursorStates => g = h
    /\ "cut" \in broken =>
         task \notin Executing /\ \A g \in Gens : gen[g] \notin CursorStates

LockHeld ==
    locked <=> \/ task \in Executing \/ "cut" \in broken
               \/ \E g \in Gens : gen[g] \in CursorStates

StreamingSet ==
    streaming <=> \/ task \in {"begin", "open", "undo"} \/ "cut" \in broken
                  \/ \E g \in Gens : gen[g] \in CursorStates

Around ==
    /\ driver = "asyncpg"
    /\ task \in {"open", "undo"} \/ \E g \in Gens : gen[g] \in CursorStates

Intact == "cut" \notin broken /\ "failed" \notin broken

\* A transaction is open around asyncpg's cursor, and it is the only one until a BEGIN
\* or a ROLLBACK fails.
BracketOpen ==
    /\ task \in {"begin", "undo"} => driver = "asyncpg"
    /\ Around => depth >= 1
    /\ Intact /\ Around => depth = 1
    /\ Intact /\ ~Around => depth = 0

LockInv ==
    LockTypes /\ WantsNew /\ OneStatement /\ LockHeld /\ StreamingSet /\ BracketOpen

\* Nobody holds the lock at the beginning.
LEMMA LockInvInit == Init => LockInv
<1> SUFFICES ASSUME Init PROVE LockInv
  OBVIOUS
<1> USE DEF Init, TaskStates, Executing, CursorStates, GenStates, Breaks, Around, Intact
<1>1. LockTypes
  BY DEF LockTypes
<1>2. WantsNew /\ OneStatement /\ LockHeld /\ StreamingSet
  BY DEF WantsNew, OneStatement, LockHeld, StreamingSet
<1>3. BracketOpen
  BY DEF BracketOpen
<1> QED
  BY <1>1, <1>2, <1>3 DEF LockInv

\* Waiting for the lock, getting it, and giving up.
LEMMA LockInvTask ==
    ASSUME LockInv, Execute \/ (\E g \in Gens : ExecuteIter(g)) \/ GotLock \/ TimedOut
                    \/ Cancelled \/ Executed
    PROVE  LockInv'
<1> USE DEF LockInv, LockTypes, WantsNew, OneStatement, LockHeld, StreamingSet,
            BracketOpen, Around, Intact, TaskStates, Executing, CursorStates, GenStates, Breaks, link
<1>1. CASE Execute
  BY <1>1 DEF Execute, Want
<1>2. CASE \E g \in Gens : ExecuteIter(g)
  BY <1>2 DEF ExecuteIter, Want
<1>3. CASE GotLock
  BY <1>3 DEF GotLock
<1>4. CASE TimedOut
  BY <1>4 DEF TimedOut, GivesUp
<1>5. CASE Cancelled
  BY <1>5 DEF Cancelled
<1>6. CASE Executed
  BY <1>6 DEF Executed
<1> QED
  BY <1>1, <1>2, <1>3, <1>4, <1>5, <1>6

\* Opening a cursor, or failing to.
LEMMA LockInvOpen ==
    ASSUME LockInv, Opening
    PROVE  LockInv'
<1> USE DEF LockInv, LockTypes, WantsNew, OneStatement, LockHeld, StreamingSet,
            BracketOpen, Around, Intact, TaskStates, Executing, CursorStates, GenStates, Breaks, link
<1>1. CASE Bracketed
  BY <1>1 DEF Bracketed
<1>2. CASE Opened
  BY <1>2 DEF Opened
<1>3. CASE BeginFails
  <2>1. broken' = broken \/ broken' = broken \cup {"failed"}
    BY <1>3 DEF BeginFails, OpenAfter, Unlock, Raises
  <2>2. "cut" \notin broken
    BY <1>3 DEF BeginFails, OpenAfter, Unlock, Raises
  <2>3. "cut" \notin broken' /\ broken' \subseteq Breaks
    BY ONLY <2>1, <2>2, LockInv DEF LockInv, LockTypes, Breaks
  <2>4. LockTypes'
    <3>1. depth' \in Nat
      BY <1>3 DEF BeginFails, OpenAfter
    <3>2. gen' \in [Gens -> GenStates] /\ wants' = Nobody /\ task' = "idle"
      BY <1>3 DEF BeginFails, Raises
    <3>3. streaming' = FALSE /\ locked' = FALSE
      BY <1>3 DEF BeginFails, Unlock
    <3> QED
      BY <3>1, <3>2, <3>3, <2>3
  <2>5. WantsNew' /\ OneStatement' /\ LockHeld' /\ StreamingSet'
    BY <1>3, <2>3 DEF BeginFails, OpenAfter, Unlock, Raises
  <2>6. BracketOpen'
    BY <1>3, <2>1 DEF BeginFails, OpenAfter, Unlock, Raises
  <2> QED
    BY <2>4, <2>5, <2>6
<1>4. CASE OpenFails
  BY <1>4 DEF OpenFails, Unlock, Raises
<1>5. CASE Undo
  BY <1>5 DEF Undo
<1>6. CASE Undone
  <2>1. broken' = broken \/ broken' = broken \cup {"failed"}
    BY <1>6 DEF Undone, OpenAfter, Unlock, Raises
  <2>2. "cut" \notin broken
    BY <1>6 DEF Undone, OpenAfter, Unlock, Raises
  <2>3. "cut" \notin broken' /\ broken' \subseteq Breaks
    BY ONLY <2>1, <2>2, LockInv DEF LockInv, LockTypes, Breaks
  <2>4. LockTypes'
    <3>1. depth' \in Nat
      BY <1>6 DEF Undone, OpenAfter
    <3>2. gen' \in [Gens -> GenStates] /\ wants' = Nobody /\ task' = "idle"
      BY <1>6 DEF Undone, Raises
    <3>3. streaming' = FALSE /\ locked' = FALSE
      BY <1>6 DEF Undone, Unlock
    <3> QED
      BY <3>1, <3>2, <3>3, <2>3
  <2>5. WantsNew' /\ OneStatement' /\ LockHeld' /\ StreamingSet'
    BY <1>6, <2>3 DEF Undone, OpenAfter, Unlock, Raises
  <2>6. BracketOpen'
    BY <1>6, <2>1 DEF Undone, OpenAfter, Unlock, Raises
  <2> QED
    BY <2>4, <2>5, <2>6
<1>7. CASE UndoCut
  BY <1>7 DEF UndoCut, Raises
<1> QED
  BY <1>1, <1>2, <1>3, <1>4, <1>5, <1>6, <1>7 DEF Opening

\* What a generator does with its cursor: the cursor stays open until cleanup(),
\* which releases everything.
LEMMA LockInvGen ==
    ASSUME LockInv, NEW g \in Gens, GenNext(g)
    PROVE  LockInv'
<1> USE DEF LockInv, LockTypes, WantsNew, OneStatement, LockHeld, StreamingSet,
            BracketOpen, Around, Intact, TaskStates, Executing, CursorStates, GenStates, Breaks, link
<1>1. CASE NextRow(g)
  BY <1>1 DEF NextRow
<1>2. CASE Fetched(g)
  BY <1>2 DEF Fetched
<1>3. CASE Interrupted(g)
  BY <1>3 DEF Interrupted
<1>4. CASE BreakOut(g)
  BY <1>4 DEF BreakOut
<1>5. CASE Finalize(g)
  BY <1>5 DEF Finalize
<1>6. CASE Cleanup(g)
  <2>1. broken' = broken \/ broken' = broken \cup {"failed"}
    BY <1>6 DEF Cleanup, EndCursor, OpenAfter, Unlock
  <2>2. "cut" \notin broken
    BY <1>6 DEF Cleanup, EndCursor, OpenAfter, Unlock
  <2>3. "cut" \notin broken' /\ broken' \subseteq Breaks
    BY ONLY <2>1, <2>2, LockInv DEF LockInv, LockTypes, Breaks
  <2>4. LockTypes'
    <3>1. depth' \in Nat
      BY <1>6 DEF Cleanup, EndCursor, OpenAfter
    <3>2. gen' \in [Gens -> GenStates] /\ UNCHANGED <<wants, task>>
      BY <1>6 DEF Cleanup
    <3>3. streaming' = FALSE /\ locked' = FALSE
      BY <1>6 DEF Cleanup, Unlock
    <3> QED
      BY <3>1, <3>2, <3>3, <2>3
  <2>5. WantsNew' /\ OneStatement' /\ LockHeld' /\ StreamingSet'
    BY <1>6, <2>3 DEF Cleanup, EndCursor, OpenAfter, Unlock
  <2>6. BracketOpen'
    BY <1>6, <2>1 DEF Cleanup, EndCursor, OpenAfter, Unlock
  <2> QED
    BY <2>4, <2>5, <2>6
<1> QED
  BY <1>1, <1>2, <1>3, <1>4, <1>5, <1>6 DEF GenNext

\* Every step of a query keeps the lock accounted for.
LEMMA LockInvNext == LockInv /\ [Next]_vars => LockInv'
<1> SUFFICES ASSUME LockInv, [Next]_vars PROVE LockInv'
  OBVIOUS
<1>1. CASE UNCHANGED vars
  BY <1>1 DEF vars, link, cursors, LockInv, LockTypes, WantsNew, OneStatement,
              LockHeld, StreamingSet, BracketOpen, Around, Intact
<1>2. CASE Next
  BY <1>2, LockInvTask, LockInvOpen, LockInvGen DEF Next
<1> QED
  BY <1>1, <1>2

\* One cursor at most, none under a running statement, is what LockAccounted counts.
LEMMA LockInvAccounts == LockInv => LockAccounted /\ Bracket
<1> SUFFICES ASSUME LockInv PROVE LockAccounted /\ Bracket
  OBVIOUS
<1> USE DEF LockInv, LockTypes, OneStatement, HasCursor, Running, Executing, CursorStates,
            TaskStates
<1>1. locked <=> Running \/ HasCursor # {} \/ "cut" \in broken
  BY DEF LockHeld
<1>2. streaming <=> (Running /\ task # "execute") \/ HasCursor # {} \/ "cut" \in broken
  BY DEF StreamingSet
<1>3. Bracket
  BY DEF BracketOpen, Around, Intact, Bracket, Breaks
<1>4. CASE HasCursor = {}
  <2>1. Cardinality(HasCursor) = 0
    BY <1>4, FS_EmptySet
  <2>2. ~(Running /\ "cut" \in broken)
    OBVIOUS
  <2> QED
    BY <1>1, <1>2, <1>3, <2>1, <2>2 DEF LockAccounted
<1>5. CASE HasCursor # {}
  <2>1. PICK g \in Gens : HasCursor = {g}
    BY <1>5
  <2>2. Cardinality(HasCursor) = 1
    BY <2>1, FS_Singleton
  <2>3. ~Running /\ "cut" \notin broken
    BY <1>5
  <2> QED
    BY <1>1, <1>2, <1>3, <2>2, <2>3 DEF LockAccounted
<1> QED
  BY <1>4, <1>5

\* However many generators there are, the lock is held for exactly the one statement
\* that runs or streams, or by nobody after a rollback that was cut short, and asyncpg's
\* transactions are those of cursors and of what failed.
THEOREM LockIsAccounted == Spec => [](LockAccounted /\ Bracket)
<1>1. Spec => []LockInv
  BY LockInvInit, LockInvNext, PTL DEF Spec
<1> QED
  BY <1>1, LockInvAccounts, PTL

-----------------------------------------------------------------------------
\* What a generator yielded, what it has buffered and what the server has not sent
\* yet are the rows; a portion is fetched when the buffer is empty, and the end is
\* an empty portion.
RowsKept ==
    /\ seen \in [Gens -> Seq(Nat)] /\ buffer \in [Gens -> Seq(Nat)]
    /\ unread \in [Gens -> Seq(Nat)] /\ exhausted \in [Gens -> BOOLEAN]
    /\ gen \in [Gens -> GenStates]
    /\ \A g \in Gens : /\ (seen[g] \o buffer[g]) \o unread[g] = Rows
                       /\ gen[g] = "fetch" => buffer[g] = <<>>
                       /\ exhausted[g] => unread[g] = <<>>

\* A row that moves from the head of one sequence to the end of another, and a
\* portion that moves, keep their concatenation.
LEMMA MoveRow ==
    ASSUME NEW s \in Seq(Nat), NEW t \in Seq(Nat), t # <<>>
    PROVE  /\ Append(s, Head(t)) \in Seq(Nat) /\ Tail(t) \in Seq(Nat)
           /\ Append(s, Head(t)) \o Tail(t) = s \o t
<1>1. Head(t) \in Nat /\ Tail(t) \in Seq(Nat) /\ <<Head(t)>> \in Seq(Nat)
  BY HeadTailProperties
<1>2. t = <<Head(t)>> \o Tail(t)
  <2> DEFINE u == <<Head(t)>> \o Tail(t)
  <2>1. u \in Seq(Nat) /\ Len(u) = 1 + Len(Tail(t))
    BY <1>1, ConcatProperties
  <2>2. \A i \in 1 .. Len(u) : u[i] = IF i <= 1 THEN Head(t) ELSE Tail(t)[i - 1]
    BY <1>1, <2>1, ConcatProperties
  <2>3. Len(Tail(t)) = Len(t) - 1 /\ \A i \in 1 .. Len(Tail(t)) : Tail(t)[i] = t[i + 1]
    BY HeadTailProperties
  <2>4. Len(u) = Len(t)
    BY <2>1, <2>3, LenProperties
  <2>5. \A i \in 1 .. Len(u) : u[i] = t[i]
    BY <2>2, <2>3, <2>4, LenProperties
  <2> HIDE DEF u
  <2>6. u = t
    BY <2>1, <2>4, <2>5, SeqEqual
  <2> QED
    BY <2>6 DEF u
<1>3. Append(s, Head(t)) = s \o <<Head(t)>>
  BY <1>1, AppendIsConcat
<1>4. (s \o <<Head(t)>>) \o Tail(t) = s \o (<<Head(t)>> \o Tail(t))
  BY <1>1, ConcatAssociative, SMTT(30)
<1> QED
  BY <1>1, <1>2, <1>3, <1>4, AppendProperties

\* Concatenation may be regrouped.
LEMMA Regroup ==
    \A s, t, u \in Seq(Nat) : (s \o t) \o u = s \o (t \o u)
BY ConcatAssociative, SMTT(30)

\* A portion that is fetched goes from the server into the buffer, in order.
LEMMA MovePortion ==
    ASSUME NEW s \in Seq(Nat), NEW t \in Seq(Nat), NEW n \in 0 .. Len(t)
    PROVE  /\ SubSeq(t, 1, n) \in Seq(Nat) /\ SubSeq(t, n + 1, Len(t)) \in Seq(Nat)
           /\ (s \o SubSeq(t, 1, n)) \o SubSeq(t, n + 1, Len(t)) = s \o t
<1>1. Len(t) \in Nat /\ \A i \in 1 .. Len(t) : t[i] \in Nat
  BY LenProperties, ElementOfSeq
<1>2. SubSeq(t, 1, n) \o SubSeq(t, n + 1, Len(t)) = SubSeq(t, 1, Len(t))
  <2>1. /\ 1 \in 1 .. Len(t) + 1 /\ n \in (1 - 1) .. Len(t)
        /\ Len(t) \in n .. Len(t)
    BY <1>1
  <2> QED
    BY ONLY t \in Seq(Nat), <2>1, ConcatAdjacentSubSeq
<1>3. SubSeq(t, 1, n) \in Seq(Nat) /\ SubSeq(t, n + 1, Len(t)) \in Seq(Nat)
  BY <1>1, SubSeqProperties
<1>4. (s \o SubSeq(t, 1, n)) \o SubSeq(t, n + 1, Len(t))
        = s \o (SubSeq(t, 1, n) \o SubSeq(t, n + 1, Len(t)))
  BY <1>3, Regroup, Zenon
<1> QED
  BY <1>2, <1>3, <1>4, SubSeqFull

\* Every row is still at the server at the beginning.
LEMMA RowsKeptInit == ASSUME RowCount \in Nat PROVE Init => RowsKept
<1> SUFFICES ASSUME Init PROVE RowsKept
  OBVIOUS
<1>1. Rows \in Seq(Nat)
  BY DEF Rows
<1>2. <<>> \in Seq(Nat) /\ (<<>> \o <<>>) \o Rows = Rows
  BY <1>1, EmptySeq, ConcatEmptySeq
<1> QED
  BY <1>1, <1>2 DEF Init, RowsKept, GenStates

\* Only NextRow and Fetched move rows.
LEMMA RowsKeptNext ==
    ASSUME Buffer \in Nat \ {0}, RowsKept, [Next]_vars
    PROVE  RowsKept'
<1> USE DEF RowsKept, GenStates
<1>1. ASSUME NEW g \in Gens, NextRow(g), buffer[g] # <<>>
      PROVE  RowsKept'
  <2>1. /\ seen' = [seen EXCEPT ![g] = Append(@, Head(buffer[g]))]
        /\ buffer' = [buffer EXCEPT ![g] = Tail(@)]
        /\ UNCHANGED <<gen, unread, exhausted>>
    BY <1>1 DEF NextRow
  <2>2. /\ Append(seen[g], Head(buffer[g])) \in Seq(Nat) /\ Tail(buffer[g]) \in Seq(Nat)
        /\ Append(seen[g], Head(buffer[g])) \o Tail(buffer[g]) = seen[g] \o buffer[g]
    BY <1>1, MoveRow
  <2>3. gen[g] = "open"
    BY <1>1 DEF NextRow
  <2> QED
    BY <2>1, <2>2, <2>3
<1>2. ASSUME NEW g \in Gens, NextRow(g), buffer[g] = <<>>
      PROVE  RowsKept'
  BY <1>2 DEF NextRow
<1>3. ASSUME NEW g \in Gens, Fetched(g)
      PROVE  RowsKept'
  <2> DEFINE n == Least(Buffer, Len(unread[g]))
             portion == SubSeq(unread[g], 1, n)
             rest == SubSeq(unread[g], n + 1, Len(unread[g]))
  <2>1. n \in 0 .. Len(unread[g]) /\ (n = 0 => unread[g] = <<>>)
    BY LenProperties, EmptySeq DEF Least
  <2>2. /\ portion \in Seq(Nat) /\ rest \in Seq(Nat)
        /\ (seen[g] \o portion) \o rest = seen[g] \o unread[g]
    <3>1. seen[g] \in Seq(Nat) /\ unread[g] \in Seq(Nat)
      OBVIOUS
    <3> HIDE DEF n
    <3> QED
      BY ONLY <2>1, <3>1, MovePortion, Zenon
  <2>3. n = 0 => rest = <<>>
    BY <2>1, SubSeqEmpty
  <2>4. buffer[g] = <<>>
    BY <1>3 DEF Fetched
  <2>5. seen[g] \o unread[g] = Rows
    BY <2>4, ConcatEmptySeq
  <2>6. /\ exhausted' = [exhausted EXCEPT ![g] = (n = 0)]
        /\ buffer' = [buffer EXCEPT ![g] = portion]
        /\ unread' = [unread EXCEPT ![g] = rest]
        /\ gen' = [gen EXCEPT ![g] = "open"]
        /\ UNCHANGED seen
    BY <1>3 DEF Fetched
  <2> HIDE DEF n, portion, rest
  <2> QED
    BY <2>2, <2>3, <2>5, <2>6
<1>4. ASSUME NEW g \in Gens,
             Interrupted(g) \/ BreakOut(g) \/ Finalize(g) \/ Cleanup(g) \/ ExecuteIter(g)
      PROVE  RowsKept'
  BY <1>4 DEF Interrupted, BreakOut, Finalize, Cleanup, ExecuteIter, cursors
<1>5. CASE Execute \/ GotLock \/ TimedOut \/ Cancelled \/ Executed
  BY <1>5 DEF Execute, GotLock, TimedOut, Cancelled, Executed, cursors
<1>6. CASE Opening
  BY <1>6 DEF Opening, Bracketed, BeginFails, Opened, OpenFails, Undo, Undone, UndoCut,
              Raises, cursors
<1>7. CASE UNCHANGED vars
  BY <1>7 DEF vars, cursors
<1> QED
  BY <1>1, <1>2, <1>3, <1>4, <1>5, <1>6, <1>7 DEF Next, GenNext

\* The first of three concatenated sequences is where the whole begins.
LEMMA FirstOfThree ==
    ASSUME NEW s \in Seq(Nat), NEW t \in Seq(Nat), NEW u \in Seq(Nat)
    PROVE  s = SubSeq((s \o t) \o u, 1, Len(s))
<1> DEFINE later == t \o u
           all == s \o later
<1>1. later \in Seq(Nat)
  BY ConcatProperties
<1>2. (s \o t) \o u = all
  BY ConcatAssociative, SMTT(30)
<1> HIDE DEF later
<1>3. /\ all \in Seq(Nat) /\ Len(all) = Len(s) + Len(later)
      /\ \A i \in 1 .. Len(s) + Len(later) :
            all[i] = IF i <= Len(s) THEN s[i] ELSE later[i - Len(s)]
  BY <1>1, ConcatProperties
<1>4. Len(s) \in Nat /\ Len(later) \in Nat /\ \A i \in 1 .. Len(s) : s[i] \in Nat
  BY <1>1, LenProperties, ElementOfSeq
<1> HIDE DEF all
<1>5. \A i \in 1 .. Len(s) : all[i] = s[i] /\ all[i] \in Nat
  BY <1>3, <1>4, SMTT(30)
<1>6. /\ SubSeq(all, 1, Len(s)) \in Seq(Nat)
      /\ Len(SubSeq(all, 1, Len(s))) = Len(s)
      /\ \A i \in 1 .. Len(s) : SubSeq(all, 1, Len(s))[i] = all[i]
  BY <1>4, <1>5, SubSeqProperties
<1>7. s = SubSeq(all, 1, Len(s))
  BY <1>5, <1>6, SeqEqual
<1> QED
  BY <1>2, <1>7

\* Rows kept in order are given in order.
LEMMA RowsKeptOrder == RowsKept => RowsInOrder
<1> SUFFICES ASSUME RowsKept, NEW g \in Gens
             PROVE  /\ seen[g] = SubSeq(Rows, 1, Len(seen[g]))
                    /\ exhausted[g] => seen[g] \o buffer[g] = Rows
  BY DEF RowsInOrder
<1>1. seen[g] \in Seq(Nat) /\ buffer[g] \in Seq(Nat) /\ unread[g] \in Seq(Nat)
  BY DEF RowsKept
<1>2. seen[g] = SubSeq(Rows, 1, Len(seen[g]))
  BY <1>1, FirstOfThree DEF RowsKept
<1>3. exhausted[g] => seen[g] \o buffer[g] = Rows
  <2>1. seen[g] \o buffer[g] \in Seq(Nat)
    BY <1>1, ConcatProperties
  <2> QED
    BY <2>1, ConcatEmptySeq DEF RowsKept
<1> QED
  BY <1>2, <1>3

\* Whatever the size of the result and of a portion, a generator yields the rows
\* from the first on, without a gap, and ends by itself only after the last.
THEOREM RowsComeInOrder ==
    ASSUME RowCount \in Nat, Buffer \in Nat \ {0}
    PROVE  Spec => []RowsInOrder
<1>1. RowsKept /\ [Next]_vars => RowsKept'
  BY RowsKeptNext
<1>2. Spec => []RowsKept
  BY <1>1, RowsKeptInit, PTL DEF Spec
<1> QED
  BY <1>2, RowsKeptOrder, PTL

\* The variables stay in their types.
THEOREM Typed == ASSUME Queries \in Nat PROVE Spec => []StreamTypes
<1> DEFINE Rest == exhausted \in [Gens -> BOOLEAN] /\ queries \in 0 .. Queries
<1>1. Init => Rest
  BY DEF Init
<1>2. Rest /\ [Next]_vars => Rest'
  <2> SUFFICES ASSUME Rest, [Next]_vars PROVE Rest'
    OBVIOUS
  <2>1. CASE UNCHANGED vars
    BY <2>1 DEF vars, cursors
  <2>2. CASE Execute
    BY <2>2 DEF Execute, cursors
  <2>3. CASE GotLock \/ TimedOut \/ Cancelled \/ Executed \/ Opening
    BY <2>3 DEF GotLock, TimedOut, Cancelled, Executed, Opening, Bracketed, BeginFails,
                Opened, OpenFails, Undo, Undone, UndoCut, Raises, cursors
  <2>4. ASSUME NEW g \in Gens, ExecuteIter(g) \/ GenNext(g) PROVE Rest'
    BY <2>4 DEF ExecuteIter, GenNext, NextRow, Fetched, Interrupted, BreakOut, Finalize,
                Cleanup, cursors
  <2> QED
    BY <2>1, <2>2, <2>3, <2>4 DEF Next
<1>3. LockInv /\ Rest => StreamTypes
  BY DEF LockInv, LockTypes, TaskStates, StreamTypes
<1> HIDE DEF Rest
<1>4. Spec => [](LockInv /\ Rest)
  BY <1>1, <1>2, LockInvInit, LockInvNext, PTL DEF Spec
<1> QED
  BY <1>3, <1>4, PTL

\* The property of the run "results", for any generators, results, portions and
\* queries.
THEOREM AlwaysSafe ==
    ASSUME RowCount \in Nat, Buffer \in Nat \ {0}, Queries \in Nat
    PROVE  Spec => []StreamsSafe
<1>1. StreamTypes /\ LockAccounted /\ Bracket /\ RowsInOrder => StreamsSafe
  BY DEF StreamsSafe
<1> QED
  BY <1>1, Typed, LockIsAccounted, RowsComeInOrder, PTL
=============================================================================
