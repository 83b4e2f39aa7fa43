--------------------------- MODULE AsyncPoolProofs ---------------------------
(***************************************************************************)
(* Connections have one user, idle ones no transaction, and none of them     *)
(* and no slot of a pool is lost, with any number of tasks, pools and        *)
(* connections and whatever fails.                                           *)
(***************************************************************************)
EXTENDS AsyncPool, FiniteSetTheorems, SequenceTheorems, TLAPS

USE AsyncAssumption

\* A task's state is its own, whatever context it was made in.
LEMMA CurrentIsOwn == \A t \in Tasks : Current(t) = t
BY DEF Current, OwnState

\* Connections are numbered as they are made.
Numbers ==
    /\ made \in Nat
    /\ open \subseteq 1 .. made /\ dirty \subseteq open
    /\ cur \in [Tasks -> Nat] /\ \A t \in Tasks : cur[t] <= made
    /\ rel = [t \in Tasks |-> rel[t]] /\ \A t \in Tasks : rel[t].c \in 0 .. made
    /\ idle \in [Pools -> Seq(Nat)]
    /\ \A p \in Pools : \A i \in 1 .. Len(idle[p]) : idle[p][i] <= made

\* A connection is in one state, in one release or once in one queue.
OnlyPlace(c) ==
    /\ \A t, u \in Tasks : cur[t] = c /\ cur[u] = c => t = u
    /\ \A t, u \in Tasks : rel[t].c = c /\ rel[u].c = c => t = u
    /\ \A p, q \in Pools : \A i \in 1 .. Len(idle[p]), j \in 1 .. Len(idle[q]) :
          idle[p][i] = c /\ idle[q][j] = c => p = q /\ i = j
    /\ \A t, u \in Tasks : ~(cur[t] = c /\ rel[u].c = c)
    /\ \A t \in Tasks, p \in Pools : \A i \in 1 .. Len(idle[p]) :
          ~(cur[t] = c /\ idle[p][i] = c) /\ ~(rel[t].c = c /\ idle[p][i] = c)

OnePlace == \A c \in open : OnlyPlace(c)

\* No idle connection has a transaction open.
QueueClean == \A p \in Pools : \A i \in 1 .. Len(idle[p]) : idle[p][i] \notin dirty

Places == Numbers /\ OnePlace /\ QueueClean

\* No connection is made yet.
LEMMA PlacesInit == Init => Places
<1> SUFFICES ASSUME Init PROVE Places
  OBVIOUS
<1>1. /\ made = 0 /\ open = {} /\ dirty = {}
      /\ cur = [t \in Tasks |-> 0] /\ rel = [t \in Tasks |-> Nothing]
      /\ idle = [p \in Pools |-> <<>>]
  BY DEF Init
<1>2. idle \in [Pools -> Seq(Nat)] /\ \A p \in Pools : Len(idle[p]) = 0
  BY <1>1, EmptySeq
<1> QED
  BY <1>1, <1>2 DEF Places, Numbers, OnePlace, QueueClean, Nothing

\* A queue holds numbers up to made.
LEMMA QueueElements ==
    ASSUME Numbers, NEW p \in Pools, NEW i \in 1 .. Len(idle[p])
    PROVE  idle[p][i] \in Nat /\ idle[p][i] <= made
BY ElementOfSeq DEF Numbers

\* Nobody has a connection that is not made yet.
LEMMA NotHeld ==
    ASSUME Numbers, NEW c \in Nat, c > made
    PROVE  /\ \A t \in Tasks : cur[t] # c /\ rel[t].c # c
           /\ \A p \in Pools : \A i \in 1 .. Len(idle[p]) : idle[p][i] # c
<1>1. \A t \in Tasks : cur[t] # c /\ rel[t].c # c
  <2> SUFFICES ASSUME NEW t \in Tasks PROVE cur[t] # c /\ rel[t].c # c
    OBVIOUS
  <2>1. cur[t] \in Nat /\ cur[t] <= made /\ rel[t].c \in 0 .. made /\ made \in Nat
    BY DEF Numbers
  <2> QED
    BY <2>1
<1>2. \A p \in Pools : \A i \in 1 .. Len(idle[p]) : idle[p][i] # c
  <2> SUFFICES ASSUME NEW p \in Pools, NEW i \in 1 .. Len(idle[p]) PROVE idle[p][i] # c
    OBVIOUS
  <2>1. idle[p][i] \in Nat /\ idle[p][i] <= made /\ made \in Nat
    BY QueueElements DEF Numbers
  <2> QED
    BY <2>1
<1> QED
  BY <1>1, <1>2

\* So it has one place, when it is made.
LEMMA NotMade == ASSUME Numbers, NEW c \in Nat, c > made PROVE OnlyPlace(c)
BY NotHeld DEF OnlyPlace

-----------------------------------------------------------------------------
(***************************************************************************)
(* One connection moves.                                                   *)
(***************************************************************************)

\* Connections may be made and may end.
Counted ==
    /\ made' \in Nat /\ made <= made'
    /\ open' \subseteq open \cup (made + 1 .. made')
    /\ dirty' \subseteq dirty \cap open'

\* Queues have what they had, shifted if they lost their first element, or connection
\* c.
QueuesMove(c, shift) ==
    /\ idle' \in [Pools -> Seq(Nat)]
    /\ \A p \in Pools : \A i \in 1 .. Len(idle'[p]) :
          \/ idle'[p][i] = c /\ c \notin dirty'
          \/ i + shift[p] \in 1 .. Len(idle[p]) /\ idle'[p][i] = idle[p][i + shift[p]]

\* Every place has what it had, or nothing, or connection c.
Moves(c, shift) ==
    /\ c \in 0 .. made'
    /\ cur' \in [Tasks -> Nat] /\ \A t \in Tasks : cur'[t] \in {cur[t], 0, c}
    /\ rel' = [t \in Tasks |-> rel'[t]] /\ \A t \in Tasks : rel'[t].c \in {rel[t].c, 0, c}
    /\ QueuesMove(c, shift)

\* Moving one connection leaves each in one place, if that one is in no other.
LEMMA PlacesMoved ==
    ASSUME Places, Counted, NEW c \in Nat, NEW shift \in [Pools -> Nat], Moves(c, shift),
           c \in open' => OnlyPlace(c)'
    PROVE  Places'
<1> USE DEF Places
<1>1. made' \in Nat /\ made \in Nat /\ made <= made'
  BY DEF Counted, Numbers
<1>2. open' \subseteq 1 .. made' /\ dirty' \subseteq open' /\ dirty' \subseteq dirty
  BY <1>1 DEF Counted, Numbers
<1>3. \A p \in Pools : \A i \in 1 .. Len(idle'[p]) :
         \/ idle'[p][i] = c /\ c \notin dirty'
         \/ i + shift[p] \in 1 .. Len(idle[p]) /\ idle'[p][i] = idle[p][i + shift[p]]
  BY DEF Moves, QueuesMove
<1>4. Numbers'
  <2>1. \A t \in Tasks : cur'[t] <= made'
    <3> SUFFICES ASSUME NEW t \in Tasks PROVE cur'[t] <= made'
      OBVIOUS
    <3>1. cur'[t] \in {cur[t], 0, c} /\ cur[t] \in Nat /\ cur[t] <= made /\ c \in 0 .. made'
      BY DEF Moves, Numbers
    <3> QED
      BY <1>1, <3>1
  <2>2. \A t \in Tasks : rel'[t].c \in 0 .. made'
    <3> SUFFICES ASSUME NEW t \in Tasks PROVE rel'[t].c \in 0 .. made'
      OBVIOUS
    <3>1. rel'[t].c \in {rel[t].c, 0, c} /\ rel[t].c \in 0 .. made /\ c \in 0 .. made'
      BY DEF Moves, Numbers
    <3> QED
      BY <1>1, <3>1
  <2>3. \A p \in Pools : \A i \in 1 .. Len(idle'[p]) : idle'[p][i] <= made'
    <3> SUFFICES ASSUME NEW p \in Pools, NEW i \in 1 .. Len(idle'[p])
                 PROVE  idle'[p][i] <= made'
      OBVIOUS
    <3>1. CASE idle'[p][i] = c
      BY <3>1 DEF Moves
    <3>2. CASE idle'[p][i] # c
      <4>1. i + shift[p] \in 1 .. Len(idle[p]) /\ idle'[p][i] = idle[p][i + shift[p]]
        BY <1>3, <3>2
      <4>2. idle'[p][i] \in Nat /\ idle'[p][i] <= made
        BY <4>1, QueueElements
      <4> QED
        BY <1>1, <4>2
    <3> QED
      BY <3>1, <3>2
  <2>4. /\ cur' \in [Tasks -> Nat] /\ rel' = [t \in Tasks |-> rel'[t]]
        /\ idle' \in [Pools -> Seq(Nat)]
    BY DEF Moves, QueuesMove
  <2> QED
    BY <1>1, <1>2, <2>1, <2>2, <2>3, <2>4 DEF Numbers
<1>5. QueueClean'
  <2> SUFFICES ASSUME NEW p \in Pools, NEW i \in 1 .. Len(idle'[p]), idle'[p][i] \in dirty'
               PROVE  FALSE
    BY DEF QueueClean
  <2>1. i + shift[p] \in 1 .. Len(idle[p]) /\ idle'[p][i] = idle[p][i + shift[p]]
    BY <1>3
  <2> QED
    BY <1>2, <2>1 DEF QueueClean
<1>6. ASSUME NEW x \in open', x # c PROVE OnlyPlace(x)'
  <2>1. x \in Nat /\ x # 0
    BY <1>1, <1>2
  <2>2. OnlyPlace(x)
    <3>1. CASE x \in open
      BY <3>1 DEF OnePlace
    <3>2. CASE x > made
      BY <2>1, <3>2, NotMade
    <3> QED
      BY <2>1, <3>1, <3>2 DEF Counted, Numbers
  <2>3. \A t \in Tasks : cur'[t] = x => cur[t] = x
    BY <1>6, <2>1 DEF Moves
  <2>4. \A t \in Tasks : rel'[t].c = x => rel[t].c = x
    BY <1>6, <2>1 DEF Moves
  <2>5. \A p \in Pools : \A i \in 1 .. Len(idle'[p]) : idle'[p][i] = x =>
           i + shift[p] \in 1 .. Len(idle[p]) /\ idle[p][i + shift[p]] = x
    BY <1>3, <1>6
  <2>6. \A p \in Pools : shift[p] \in Nat
    OBVIOUS
  <2>7. \A p \in Pools, i, j \in Nat : i + shift[p] = j + shift[p] => i = j
    BY <2>6
  <2>8. \A p, q \in Pools : \A i \in 1 .. Len(idle'[p]), j \in 1 .. Len(idle'[q]) :
           idle'[p][i] = x /\ idle'[q][j] = x => p = q /\ i = j
    <3> SUFFICES ASSUME NEW p \in Pools, NEW q \in Pools, NEW i \in 1 .. Len(idle'[p]),
                        NEW j \in 1 .. Len(idle'[q]), idle'[p][i] = x, idle'[q][j] = x
                 PROVE  p = q /\ i = j
      OBVIOUS
    <3>1. p = q /\ i + shift[p] = j + shift[q]
      <4>1. PICK a \in 1 .. Len(idle[p]) : a = i + shift[p] /\ idle[p][a] = x
        BY <2>5
      <4>2. PICK b \in 1 .. Len(idle[q]) : b = j + shift[q] /\ idle[q][b] = x
        BY <2>5
      <4>3. p = q /\ a = b
        BY <2>2, <4>1, <4>2, SMTT(30) DEF OnlyPlace
      <4> QED
        BY <4>1, <4>2, <4>3
    <3> QED
      BY <2>7, <3>1
  <2>9. \A t \in Tasks, p \in Pools : \A i \in 1 .. Len(idle'[p]) :
           ~(cur'[t] = x /\ idle'[p][i] = x) /\ ~(rel'[t].c = x /\ idle'[p][i] = x)
    BY <2>2, <2>3, <2>4, <2>5 DEF OnlyPlace
  <2> QED
    BY <2>2, <2>3, <2>4, <2>8, <2>9 DEF OnlyPlace
<1> QED
  BY <1>4, <1>5, <1>6 DEF OnePlace

\* What Append and Tail do to a queue.
LEMMA AppendFacts ==
    \A s \in Seq(Nat), e \in Nat :
        /\ Append(s, e) \in Seq(Nat)
        /\ Len(s) \in Nat /\ Len(Append(s, e)) = Len(s) + 1
        /\ \A j \in 1 .. Len(s) : Append(s, e)[j] = s[j]
        /\ Append(s, e)[Len(s) + 1] = e
BY AppendProperties, LenProperties

\* The rest of a queue that is not empty.
LEMMA TailFacts ==
    \A s \in Seq(Nat) : s # <<>> =>
        /\ Tail(s) \in Seq(Nat) /\ Head(s) = s[1]
        /\ Len(s) \in Nat \ {0} /\ Len(Tail(s)) = Len(s) - 1
        /\ \A j \in 1 .. Len(Tail(s)) : Tail(s)[j] = s[j + 1]
BY HeadTailProperties, LenProperties, EmptySeq

\* Queues that stay as they are.
LEMMA QueuesSame ==
    ASSUME Numbers, idle' = idle, NEW c
    PROVE  \E shift \in [Pools -> Nat] : QueuesMove(c, shift)
<1> DEFINE shift == [p \in Pools |-> 0]
<1>1. shift \in [Pools -> Nat] /\ \A p \in Pools : shift[p] = 0
  OBVIOUS
<1>2. \A p \in Pools : \A i \in 1 .. Len(idle'[p]) : i + 0 = i
  OBVIOUS
<1> HIDE DEF shift
<1> QED
  BY <1>1, <1>2 DEF Numbers, QueuesMove

\* One that gets a connection.
LEMMA QueueLonger ==
    ASSUME Numbers, NEW c \in Nat, c \notin dirty', NEW q,
           idle' = [idle EXCEPT ![q] = Append(@, c)]
    PROVE  /\ \E shift \in [Pools -> Nat] : QueuesMove(c, shift)
           /\ \A p \in Pools : \A i \in 1 .. Len(idle'[p]) :
                \/ i \in 1 .. Len(idle[p]) /\ idle'[p][i] = idle[p][i]
                \/ p = q /\ i = Len(idle[p]) + 1 /\ idle'[p][i] = c
<1> DEFINE shift == [p \in Pools |-> 0]
<1>1. shift \in [Pools -> Nat] /\ \A p \in Pools : shift[p] = 0
  OBVIOUS
<1>2. \A p \in Pools : idle[p] \in Seq(Nat)
  BY DEF Numbers
<1>3. \A p \in Pools : idle'[p] = IF p = q THEN Append(idle[p], c) ELSE idle[p]
  BY DEF Numbers
<1>4. idle' \in [Pools -> Seq(Nat)]
  <2>1. q \in Pools => Append(idle[q], c) \in Seq(Nat)
    BY <1>2, AppendProperties
  <2> QED
    BY <2>1 DEF Numbers
<1>5. \A p \in Pools : \A i \in 1 .. Len(idle'[p]) :
         \/ i \in 1 .. Len(idle[p]) /\ idle'[p][i] = idle[p][i]
         \/ p = q /\ i = Len(idle[p]) + 1 /\ idle'[p][i] = c
  <2> SUFFICES ASSUME NEW p \in Pools, NEW i \in 1 .. Len(idle'[p])
               PROVE  \/ i \in 1 .. Len(idle[p]) /\ idle'[p][i] = idle[p][i]
                      \/ p = q /\ i = Len(idle[p]) + 1 /\ idle'[p][i] = c
    OBVIOUS
  <2>1. CASE p = q
    <3>1. /\ Len(idle[p]) \in Nat /\ Len(idle'[p]) = Len(idle[p]) + 1
          /\ \A j \in 1 .. Len(idle[p]) : idle'[p][j] = idle[p][j]
          /\ idle'[p][Len(idle[p]) + 1] = c
      <4>1. idle[p] \in Seq(Nat) /\ idle'[p] = Append(idle[p], c)
        BY <1>2, <1>3, <2>1
      <4> QED
        BY <4>1, AppendFacts
    <3> QED
      BY <2>1, <3>1
  <2>2. CASE p # q
    BY <1>3, <2>2
  <2> QED
    BY <2>1, <2>2
<1>6. \A p \in Pools : \A i \in 1 .. Len(idle'[p]) : i + 0 = i
  OBVIOUS
<1> HIDE DEF shift
<1>7. \A p \in Pools : \A i \in 1 .. Len(idle'[p]) :
         \/ idle'[p][i] = c /\ c \notin dirty'
         \/ i + shift[p] \in 1 .. Len(idle[p]) /\ idle'[p][i] = idle[p][i + shift[p]]
  BY <1>1, <1>5, <1>6
<1> QED
  BY <1>1, <1>4, <1>5, <1>7 DEF QueuesMove

\* One that loses its first connection, which is then not in any queue if it is open.
LEMMA QueueShorter ==
    ASSUME Numbers, NEW c, NEW q \in Pools, idle[q] # <<>>,
           idle' = [idle EXCEPT ![q] = Tail(@)]
    PROVE  /\ \E shift \in [Pools -> Nat] : QueuesMove(c, shift)
           /\ Head(idle[q]) \in Nat /\ Head(idle[q]) <= made
           /\ 1 \in 1 .. Len(idle[q]) /\ Head(idle[q]) = idle[q][1]
           /\ OnlyPlace(Head(idle[q])) =>
                \A p \in Pools : \A i \in 1 .. Len(idle'[p]) : idle'[p][i] # Head(idle[q])
<1> DEFINE shift == [p \in Pools |-> IF p = q THEN 1 ELSE 0]
<1>1. shift \in [Pools -> Nat] /\ \A p \in Pools : shift[p] = IF p = q THEN 1 ELSE 0
  OBVIOUS
<1>2. \A p \in Pools : idle[p] \in Seq(Nat)
  BY DEF Numbers
<1>3. \A p \in Pools : idle'[p] = IF p = q THEN Tail(idle[p]) ELSE idle[p]
  BY DEF Numbers
<1>4. /\ Len(idle[q]) \in Nat \ {0} /\ Len(idle'[q]) = Len(idle[q]) - 1
      /\ Head(idle[q]) = idle[q][1] /\ idle'[q] \in Seq(Nat)
      /\ \A i \in 1 .. Len(idle'[q]) : idle'[q][i] = idle[q][i + 1]
  <2>1. idle[q] \in Seq(Nat) /\ idle'[q] = Tail(idle[q])
    BY <1>2, <1>3
  <2> QED
    BY <2>1, TailFacts
<1>5. idle' \in [Pools -> Seq(Nat)]
  BY <1>3, <1>4 DEF Numbers
<1>6. \A i \in 1 .. Len(idle'[q]) : i + 1 \in 1 .. Len(idle[q]) /\ i + 1 # 1
  BY <1>4
<1>7. \A p \in Pools : \A i \in 1 .. Len(idle[p]) : i + 0 = i
  OBVIOUS
<1> HIDE DEF shift
<1>8. \A p \in Pools : \A i \in 1 .. Len(idle'[p]) :
         i + shift[p] \in 1 .. Len(idle[p]) /\ idle'[p][i] = idle[p][i + shift[p]]
  <2> SUFFICES ASSUME NEW p \in Pools, NEW i \in 1 .. Len(idle'[p])
               PROVE  i + shift[p] \in 1 .. Len(idle[p]) /\ idle'[p][i] = idle[p][i + shift[p]]
    OBVIOUS
  <2>1. CASE p = q
    BY <1>1, <1>4, <1>6, <2>1
  <2>2. CASE p # q
    BY <1>1, <1>3, <1>7, <2>2
  <2> QED
    BY <2>1, <2>2
<1>9. 1 \in 1 .. Len(idle[q])
  BY <1>4
<1>10. idle[q][1] \in Nat /\ idle[q][1] <= made
  BY <1>9, QueueElements
<1>11. ASSUME OnlyPlace(Head(idle[q])), NEW p \in Pools, NEW i \in 1 .. Len(idle'[p]),
              idle'[p][i] = Head(idle[q])
       PROVE  FALSE
  <2>1. i + shift[p] \in 1 .. Len(idle[p]) /\ idle[p][i + shift[p]] = idle[q][1]
    BY <1>4, <1>8, <1>11
  <2>2. p = q /\ i + shift[p] = 1
    BY <1>4, <1>9, <1>11, <2>1 DEF OnlyPlace
  <2> QED
    BY <1>1, <1>6, <2>2
<1> QED
  BY <1>1, <1>4, <1>5, <1>8, <1>9, <1>10, <1>11, ZenonT(30) DEF QueuesMove

\* Release t ends with connection c in a queue or on its way to be closed, or with
\* nothing.
Held(t, c) == rel'[t].c \in {0, c} /\ rel' = [rel EXCEPT ![t] = rel'[t]]

Back(t, c) ==
    \/ idle' = idle /\ Held(t, c)
    \/ /\ \E p : idle' = [idle EXCEPT ![p] = Append(@, c)]
       /\ c \notin dirty' /\ rel' = [rel EXCEPT ![t] = Nothing]

NobodyElse(t, c) ==
    /\ \A u \in Tasks : cur'[u] # c /\ (u # t => rel[u].c # c)
    /\ \A p \in Pools : \A i \in 1 .. Len(idle[p]) : idle[p][i] # c

\* A release that ends, with a connection nobody else has.
LEMMA PlacesBack ==
    ASSUME Places, Counted, NEW t \in Tasks, NEW c \in Nat, c <= made',
           cur' \in [Tasks -> Nat], \A u \in Tasks : cur'[u] \in {cur[u], 0},
           Back(t, c), c \in open' => NobodyElse(t, c)
    PROVE  Places'
<1>1. c \in 0 .. made' /\ \A u \in Tasks : cur'[u] \in {cur[u], 0, c}
  BY DEF Counted
<1>2. Numbers /\ 0 \notin open'
  BY DEF Places, Counted, Numbers
<1>3. CASE idle' = idle /\ Held(t, c)
  <2> DEFINE r == rel'[t]
  <2>1. r.c \in {0, c} /\ rel' = [rel EXCEPT ![t] = r]
    BY <1>3 DEF Held
  <2>2. rel' = [u \in Tasks |-> rel'[u]] /\ \A u \in Tasks : rel'[u] = IF u = t THEN r ELSE rel[u]
    BY <1>2, <2>1 DEF Numbers
  <2>3. \A u \in Tasks : rel'[u].c \in {rel[u].c, 0, c}
    BY <2>1, <2>2
  <2>4. PICK shift \in [Pools -> Nat] : Moves(c, shift)
    <3>1. PICK shift \in [Pools -> Nat] : QueuesMove(c, shift)
      BY <1>2, <1>3, QueuesSame
    <3> QED
      BY <1>1, <2>2, <2>3, <3>1 DEF Moves
  <2>5. c \in open' => OnlyPlace(c)'
    BY <1>3, <2>2 DEF OnlyPlace, NobodyElse
  <2> QED
    BY <2>4, <2>5, PlacesMoved
<1>4. CASE /\ \E p : idle' = [idle EXCEPT ![p] = Append(@, c)]
           /\ c \notin dirty' /\ rel' = [rel EXCEPT ![t] = Nothing]
  <2>1. PICK p : idle' = [idle EXCEPT ![p] = Append(@, c)]
    BY <1>4
  <2>2. /\ rel' = [u \in Tasks |-> rel'[u]]
        /\ \A u \in Tasks : rel'[u] = IF u = t THEN Nothing ELSE rel[u]
    BY <1>2, <1>4 DEF Numbers
  <2>3. \A u \in Tasks : rel'[u].c \in {rel[u].c, 0, c} /\ (u = t => rel'[u].c = 0)
    BY <2>2 DEF Nothing
  <2>4. PICK shift \in [Pools -> Nat] : Moves(c, shift)
    <3>1. PICK shift \in [Pools -> Nat] : QueuesMove(c, shift)
      BY <1>2, <1>4, <2>1, QueueLonger
    <3> QED
      BY <1>1, <2>2, <2>3, <3>1 DEF Moves
  <2>5. ASSUME c \in open' PROVE OnlyPlace(c)'
    <3>1. \A q \in Pools : \A i \in 1 .. Len(idle'[q]) :
             \/ i \in 1 .. Len(idle[q]) /\ idle'[q][i] = idle[q][i]
             \/ q = p /\ i = Len(idle[q]) + 1 /\ idle'[q][i] = c
      BY <1>2, <1>4, <2>1, QueueLonger
    <3>2. \A q \in Pools : \A i \in 1 .. Len(idle'[q]) : idle'[q][i] = c =>
             q = p /\ i = Len(idle[p]) + 1
      BY <2>5, <3>1 DEF NobodyElse
    <3>3. \A u \in Tasks : cur'[u] # c /\ rel'[u].c # c
      BY <1>2, <2>2, <2>3, <2>5 DEF NobodyElse
    <3> QED
      BY <3>2, <3>3 DEF OnlyPlace
  <2> QED
    BY <2>4, <2>5, PlacesMoved
<1> QED
  BY <1>3, <1>4 DEF Back

\* Nothing is given to anybody.
LEMMA PlacesLost ==
    ASSUME Places, Counted, idle' = idle,
           cur' \in [Tasks -> Nat], \A t \in Tasks : cur'[t] \in {cur[t], 0},
           rel' = [t \in Tasks |-> rel'[t]], \A t \in Tasks : rel'[t].c \in {rel[t].c, 0}
    PROVE  Places'
<1>1. Numbers /\ 0 \notin open' /\ 0 \in 0 .. made'
  BY DEF Places, Counted, Numbers
<1>2. PICK shift \in [Pools -> Nat] : Moves(0, shift)
  <2>1. PICK shift \in [Pools -> Nat] : QueuesMove(0, shift)
    BY <1>1, QueuesSame
  <2>2. \A t \in Tasks : cur'[t] \in {cur[t], 0, 0} /\ rel'[t].c \in {rel[t].c, 0, 0}
    OBVIOUS
  <2> QED
    BY <1>1, <2>1, <2>2 DEF Moves
<1> QED
  BY <1>1, <1>2, PlacesMoved

-----------------------------------------------------------------------------
(***************************************************************************)
(* Where tasks are.                                                        *)
(***************************************************************************)

\* What may follow a release.
Thens == {"run", "ensure", "gone", "reclaim"}

\* A task that acquires knows the pool.
Context ==
    /\ states \subseteq Tasks
    /\ pool \in 0 .. PoolLimit /\ pools \in Nat
    /\ got \in [Tasks -> 0 .. PoolLimit]
    /\ pc = [t \in Tasks |-> pc[t]]
    /\ \A t \in Tasks : pc[t] \in {"acquire", "wait"} => got[t] # 0
    /\ rel = [t \in Tasks |-> rel[t]]
    /\ \A t \in Tasks : rel[t].then \in Thens

\* No task acquires or releases at the beginning.
LEMMA ContextInit == Init => Context
BY DEF Init, Context, Nothing, Thens

\* Steps of a release.
LEMMA ContextPutBack ==
    ASSUME Context, NEW t \in Tasks, NEW c, NEW p, NEW then \in Thens, NEW usable,
           PutBack(t, c, p, then, usable)
    PROVE  /\ \E x \in Thens \cup {"surplus"} : pc' = [pc EXCEPT ![t] = x]
           /\ \E r : r.then \in Thens /\ rel' = [rel EXCEPT ![t] = r]
<1>1. \/ pc' = [pc EXCEPT ![t] = "surplus"]
         /\ rel' = [rel EXCEPT ![t] = [c |-> c, p |-> p, then |-> then]]
      \/ pc' = [pc EXCEPT ![t] = then] /\ rel' = [rel EXCEPT ![t] = Nothing]
  BY DEF PutBack, After, Goto
<1>2. CASE /\ pc' = [pc EXCEPT ![t] = "surplus"]
           /\ rel' = [rel EXCEPT ![t] = [c |-> c, p |-> p, then |-> then]]
  <2> DEFINE r == [c |-> c, p |-> p, then |-> then]
  <2>1. r.then \in Thens /\ rel' = [rel EXCEPT ![t] = r]
    BY <1>2
  <2> QED
    BY <1>2, <2>1
<1>3. CASE pc' = [pc EXCEPT ![t] = then] /\ rel' = [rel EXCEPT ![t] = Nothing]
  <2>1. Nothing.then \in Thens
    BY DEF Nothing, Thens
  <2> QED
    BY <1>3, <2>1
<1> QED
  BY <1>1, <1>2, <1>3

\* _release_conn() goes on with what its caller wants next.
LEMMA ContextRelease ==
    ASSUME Context, NEW t \in Tasks, NEW c, NEW then \in Thens, Release(t, c, then)
    PROVE  /\ \E x \in Thens \cup InRelease : pc' = [pc EXCEPT ![t] = x]
           /\ \E r : r.then \in Thens /\ rel' = [rel EXCEPT ![t] = r]
<1>1. CASE Stage(c, owner[c]) = "put"
  BY <1>1, ContextPutBack DEF Release, InRelease
<1>2. CASE Stage(c, owner[c]) # "put"
  <2>1. Stage(c, owner[c]) \in InRelease
    BY <1>2 DEF Stage, InRelease
  <2> DEFINE r == [c |-> c, p |-> owner[c], then |-> then]
  <2>2. r.then \in Thens /\ rel' = [rel EXCEPT ![t] = r]
        /\ pc' = [pc EXCEPT ![t] = Stage(c, owner[c])]
    BY <1>2 DEF Release, Goto
  <2> QED
    BY <2>1, <2>2
<1> QED
  BY <1>1, <1>2

\* A release ends with its connection in the queue, on its way to be closed, or with
\* a server's pool.
LEMMA PutBackMoves ==
    ASSUME Numbers, NEW t \in Tasks, NEW c, NEW p, NEW then, NEW usable, c \notin dirty',
           PutBack(t, c, p, then, usable)
    PROVE  Back(t, c)
<1>1. idle' = idle \/ idle' = [idle EXCEPT ![p] = Append(@, c)]
  BY DEF PutBack
<1>2. CASE rel' = [rel EXCEPT ![t] = [c |-> c, p |-> p, then |-> then]]
           /\ (Full(p) \/ (driver = "server" /\ (p \in closed \/ ~usable)))
  <2> DEFINE r == [c |-> c, p |-> p, then |-> then]
  <2>1. r.c \in {0, c} /\ rel' = [rel EXCEPT ![t] = r] /\ idle' = idle
    BY <1>2 DEF PutBack
  <2> HIDE DEF r
  <2>2. Held(t, c)
    BY <2>1 DEF Held, Numbers
  <2> QED
    BY <2>1, <2>2 DEF Back
<1>3. CASE rel' = [rel EXCEPT ![t] = Nothing]
  <2>1. CASE idle' = idle
    <3>1. Nothing.c \in {0, c}
      BY DEF Nothing
    <3>2. Held(t, c)
      BY <1>3, <3>1 DEF Held, Numbers
    <3> QED
      BY <2>1, <3>2 DEF Back
  <2>2. CASE idle' = [idle EXCEPT ![p] = Append(@, c)]
    BY <1>3, <2>2 DEF Back
  <2> QED
    BY <1>1, <2>1, <2>2
<1> QED
  BY <1>2, <1>3 DEF PutBack, After

\* One that needs no rollback has no transaction.
LEMMA ReleaseMoves ==
    ASSUME Numbers, NEW t \in Tasks, NEW c, NEW then, dirty' = dirty, Release(t, c, then)
    PROVE  Back(t, c)
<1>1. CASE Stage(c, owner[c]) = "put"
  <2>1. c \notin dirty'
    BY <1>1 DEF Stage, Stale, Numbers
  <2> QED
    BY <1>1, <2>1, PutBackMoves DEF Release
<1>2. CASE Stage(c, owner[c]) # "put"
  <2> DEFINE r == [c |-> c, p |-> owner[c], then |-> then]
  <2>1. r.c \in {0, c} /\ rel' = [rel EXCEPT ![t] = r] /\ idle' = idle
    BY <1>2 DEF Release
  <2> HIDE DEF r
  <2>2. Held(t, c)
    BY <2>1 DEF Held, Numbers
  <2> QED
    BY <2>1, <2>2 DEF Back
<1> QED
  BY <1>1, <1>2

\* A release that is cut short ends its connection at most, and has it counted as
\* checked out no more at most.
LEMMA CutShortEnds ==
    ASSUME NEW t \in Tasks, CutShort(t), dirty \subseteq open
    PROVE  /\ open' \subseteq open /\ dirty' \subseteq dirty /\ dirty' \subseteq open'
           /\ (out' = out \/ out' = [out EXCEPT ![rel[t].p] = @ \ {rel[t].c}])
BY DEF CutShort

\* A step that moves one task, which then knows its pool if it acquires.
LEMMA ContextMoves ==
    ASSUME Context, NEW t \in Tasks, NEW x, pc' = [pc EXCEPT ![t] = x],
           NEW g \in 0 .. PoolLimit, got' = [got EXCEPT ![t] = g],
           x \in {"acquire", "wait"} => g # 0,
           NEW r, r.then \in Thens, rel' = [rel EXCEPT ![t] = r],
           states' \subseteq Tasks, pool' \in 0 .. PoolLimit, pools' \in Nat
    PROVE  Context'
<1>1. /\ got' \in [Tasks -> 0 .. PoolLimit]
      /\ \A u \in Tasks : got'[u] = IF u = t THEN g ELSE got[u]
  BY DEF Context
<1>2. /\ pc' = [u \in Tasks |-> pc'[u]]
      /\ \A u \in Tasks : pc'[u] = IF u = t THEN x ELSE pc[u]
  BY DEF Context
<1>3. /\ rel' = [u \in Tasks |-> rel'[u]]
      /\ \A u \in Tasks : rel'[u] = IF u = t THEN r ELSE rel[u]
  BY DEF Context
<1>4. \A u \in Tasks : rel'[u].then \in Thens
  BY <1>3 DEF Context
<1>5. \A u \in Tasks : pc'[u] \in {"acquire", "wait"} => got'[u] # 0
  BY <1>1, <1>2 DEF Context
<1> QED
  BY <1>1, <1>2, <1>3, <1>4, <1>5 DEF Context

\* Steps that only release, and those that only wait or fail.
LEMMA ContextReleases ==
    ASSUME Context, NEW t \in Tasks, NEW c, NEW p, NEW then \in Thens, NEW usable,
           PutBack(t, c, p, then, usable) \/ Release(t, c, then),
           got' = got, pool' = pool, pools' = pools, states' \subseteq Tasks
    PROVE  Context'
<1>1. PICK x \in Thens \cup InRelease : pc' = [pc EXCEPT ![t] = x]
  BY ContextPutBack, ContextRelease DEF InRelease
<1>2. PICK r : r.then \in Thens /\ rel' = [rel EXCEPT ![t] = r]
  BY ContextPutBack, ContextRelease
<1>3. x \notin {"acquire", "wait"}
  BY DEF Thens, InRelease
<1>4. got[t] \in 0 .. PoolLimit /\ got' = [got EXCEPT ![t] = got[t]]
  BY DEF Context
<1>5. pool' \in 0 .. PoolLimit /\ pools' \in Nat
  BY DEF Context
<1> QED
  BY <1>1, <1>2, <1>3, <1>4, <1>5, ContextMoves

\* Steps that go anywhere but to an acquisition.
LEMMA ContextGoes ==
    ASSUME Context, NEW t \in Tasks, NEW x, Goto(t, x), x \notin {"acquire", "wait"},
           rel' = rel \/ (rel' = [rel EXCEPT ![t] = rel'[t]] /\ rel'[t].then \in Thens),
           NEW g \in 0 .. PoolLimit, got' = [got EXCEPT ![t] = g],
           pool' \in 0 .. PoolLimit, pools' = pools, states' \subseteq Tasks
    PROVE  Context'
<1>1. rel[t].then \in Thens /\ rel = [rel EXCEPT ![t] = rel[t]]
  BY DEF Context
<1>2. pools' \in Nat
  BY DEF Context
<1>3. CASE rel' = rel
  BY <1>1, <1>2, <1>3, ContextMoves DEF Goto
<1>4. CASE rel' = [rel EXCEPT ![t] = rel'[t]] /\ rel'[t].then \in Thens
  BY <1>2, <1>4, ContextMoves DEF Goto
<1> QED
  BY <1>3, <1>4

\* Every step keeps it.
LEMMA ContextNext == Context /\ Next => Context'
<1> SUFFICES ASSUME Context, Next PROVE Context'
  OBVIOUS
<1> USE DEF setting, registry, session, closer, poolVars, conns
<1>0. /\ states \subseteq Tasks /\ pool \in 0 .. PoolLimit /\ pools \in Nat
      /\ \A t \in Tasks : got[t] \in 0 .. PoolLimit /\ got = [got EXCEPT ![t] = got[t]]
      /\ \A t \in Tasks : rel[t].then \in Thens /\ rel = [rel EXCEPT ![t] = rel[t]]
      /\ Nothing.then \in Thens
      /\ \A x \in Thens \cup InRelease \cup Closing \cup {"create", "done", "reap"} :
            x \notin {"acquire", "wait"}
  BY DEF Context, Nothing, Thens, InRelease, Closing
<1>1. ASSUME NEW c \in Conns, Drop(c) PROVE Context'
  BY <1>1 DEF Drop, Context
<1>2. ASSUME NEW t \in Tasks, Rollback(t) PROVE Context'
  <2>1. PutBack(t, rel[t].c, rel[t].p, rel[t].then, TRUE)
    BY <1>2 DEF Rollback
  <2>2. got' = got /\ pool' = pool /\ pools' = pools /\ states' \subseteq Tasks
    BY <1>0, <1>2 DEF Rollback
  <2> QED
    BY <1>0, <2>1, <2>2, ContextReleases
<1>3. ASSUME NEW t \in Tasks, RollbackFails(t) PROVE Context'
  <2>1. got' = got /\ pool' = pool /\ pools' = pools /\ states' \subseteq Tasks
    BY <1>0, <1>3 DEF RollbackFails
  <2>2. CASE driver = "sqlite"
    <3>1. Goto(t, "discard") /\ rel' = rel
      BY <1>3, <2>2 DEF RollbackFails
    <3> QED
      BY <1>0, <2>1, <3>1, ContextGoes
  <2>3. CASE driver # "sqlite"
    <3>1. PutBack(t, rel[t].c, rel[t].p, rel[t].then, FALSE)
      BY <1>3, <2>3 DEF RollbackFails
    <3> QED
      BY <1>0, <2>1, <3>1, ContextReleases
  <2> QED
    BY <2>2, <2>3
<1>4. ASSUME NEW t \in Tasks, Discard(t) PROVE Context'
  <2>1. Goto(t, "recreate") /\ rel' = rel
    BY <1>4 DEF Discard
  <2>2. got' = got /\ pool' = pool /\ pools' = pools /\ states' \subseteq Tasks
    BY <1>0, <1>4 DEF Discard
  <2> QED
    BY <1>0, <2>1, <2>2, ContextGoes DEF Thens, InRelease, Closing
<1>5. ASSUME NEW t \in Tasks, Recreate(t) PROVE Context'
  <2>1. PutBack(t, made + 1, rel[t].p, rel[t].then, TRUE)
    BY <1>5 DEF Recreate
  <2>2. got' = got /\ pool' = pool /\ pools' = pools /\ states' \subseteq Tasks
    BY <1>0, <1>5 DEF Recreate
  <2> QED
    BY <1>0, <2>1, <2>2, ContextReleases
<1>6. ASSUME NEW t \in Tasks, RecreateFails(t) PROVE Context'
  <2>1. Goto(t, rel[t].then) /\ rel' = [rel EXCEPT ![t] = Nothing]
    BY <1>6 DEF RecreateFails, After
  <2>2. got' = got /\ pool' = pool /\ pools' = pools /\ states' \subseteq Tasks
    BY <1>0, <1>6 DEF RecreateFails
  <2>3. rel[t].then \notin {"acquire", "wait"}
    BY <1>0
  <2> QED
    BY <1>0, <2>1, <2>2, <2>3, ContextMoves DEF Goto
<1>7. ASSUME NEW t \in Tasks, CloseConn(t) PROVE Context'
  <2>1. Goto(t, rel[t].then) /\ rel' = [rel EXCEPT ![t] = Nothing]
    BY <1>7 DEF CloseConn, After
  <2>2. got' = got /\ pool' = pool /\ pools' = pools /\ states' \subseteq Tasks
    BY <1>0, <1>7 DEF CloseConn
  <2>3. rel[t].then \notin {"acquire", "wait"}
    BY <1>0
  <2> QED
    BY <1>0, <2>1, <2>2, <2>3, ContextMoves DEF Goto
<1>8. ASSUME NEW t \in Tasks, EnsurePool(t) PROVE Context'
  <2>1. rel' = rel /\ pool' = pool /\ pools' = pools /\ states' \subseteq Tasks
    BY <1>0, <1>8 DEF EnsurePool
  <2>2. CASE pool # 0
    <3>1. pc' = [pc EXCEPT ![t] = "acquire"] /\ got' = [got EXCEPT ![t] = pool]
      BY <1>8, <2>2 DEF EnsurePool, Goto
    <3> QED
      BY <1>0, <2>1, <2>2, <3>1, ContextMoves
  <2>3. CASE pool = 0
    <3>1. Goto(t, "create") /\ got' = got
      BY <1>8, <2>3 DEF EnsurePool
    <3> QED
      BY <1>0, <2>1, <3>1, ContextGoes
  <2> QED
    BY <2>2, <2>3
<1>9. ASSUME NEW t \in Tasks, CreatePool(t) PROVE Context'
  <2>1. /\ pc' = [pc EXCEPT ![t] = "acquire"] /\ got' = [got EXCEPT ![t] = pools + 1]
        /\ rel' = rel /\ pool' = pools + 1 /\ pools' = pools + 1 /\ states' \subseteq Tasks
        /\ pools < PoolLimit
    BY <1>0, <1>9 DEF CreatePool, Goto
  <2>2. pools + 1 \in 0 .. PoolLimit /\ pools + 1 # 0 /\ pools + 1 \in Nat
    BY <1>0, <2>1
  <2> QED
    BY <1>0, <2>1, <2>2, ContextMoves
<1>10. ASSUME NEW t \in Tasks, CreateFails(t) PROVE Context'
  <2>1. Goto(t, "run") /\ rel' = rel
    BY <1>10 DEF CreateFails
  <2>2. got' = got /\ pool' = pool /\ pools' = pools /\ states' \subseteq Tasks
    BY <1>0, <1>10 DEF CreateFails
  <2> QED
    BY <1>0, <2>1, <2>2, ContextGoes DEF Thens, InRelease, Closing
<1>11. ASSUME NEW t \in Tasks, Acquire(t) PROVE Context'
  <2>1. Goto(t, "run") /\ rel' = rel
    BY <1>11 DEF Acquire, Take
  <2>2. got' = got /\ pool' = pool /\ pools' = pools /\ states' \subseteq Tasks
    BY <1>0, <1>11 DEF Acquire
  <2> QED
    BY <1>0, <2>1, <2>2, ContextGoes DEF Thens
<1>12. ASSUME NEW t \in Tasks, AcquireNew(t) PROVE Context'
  <2>1. Goto(t, "run") /\ rel' = rel
    BY <1>12 DEF AcquireNew, Take
  <2>2. got' = got /\ pool' = pool /\ pools' = pools /\ states' \subseteq Tasks
    BY <1>0, <1>12 DEF AcquireNew
  <2> QED
    BY <1>0, <2>1, <2>2, ContextGoes DEF Thens
<1>13. ASSUME NEW t \in Tasks, AcquireWait(t) PROVE Context'
  <2>1. /\ pc' = [pc EXCEPT ![t] = "wait"] /\ pc[t] = "acquire"
        /\ rel' = rel /\ got' = got /\ pool' = pool /\ pools' = pools
        /\ states' \subseteq Tasks
    BY <1>0, <1>13 DEF AcquireWait, Goto
  <2>2. got[t] # 0
    BY <2>1 DEF Context
  <2> QED
    BY <1>0, <2>1, <2>2, ContextMoves
<1>14. ASSUME NEW t \in Tasks, AcquireFails(t) PROVE Context'
  <2>1. Goto(t, "run") /\ rel' = rel
    BY <1>14 DEF AcquireFails
  <2>2. got' = got /\ pool' = pool /\ pools' = pools /\ states' \subseteq Tasks
    BY <1>0, <1>14 DEF AcquireFails
  <2> QED
    BY <1>0, <2>1, <2>2, ContextGoes DEF Thens, InRelease, Closing
<1>15. ASSUME NEW t \in Tasks, TaskDone(t) PROVE Context'
  <2>1. got' = got /\ pool' = pool /\ pools' = pools /\ states' \subseteq Tasks
    BY <1>0, <1>15 DEF TaskDone
  <2>2. CASE t \in hooked \cap states /\ cur[t] # 0
    <3> DEFINE r == [c |-> cur[t], p |-> owner[cur[t]], then |-> "gone"]
    <3>1. pc' = [pc EXCEPT ![t] = "reap"] /\ rel' = [rel EXCEPT ![t] = r]
      BY <1>15, <2>2 DEF TaskDone, Goto
    <3>2. r.then \in Thens
      BY DEF Thens
    <3> HIDE DEF r
    <3> QED
      BY <1>0, <2>1, <3>1, <3>2, ContextMoves
  <2>3. CASE ~(t \in hooked \cap states /\ cur[t] # 0)
    <3>1. Goto(t, "gone") /\ rel' = rel
      BY <1>15, <2>3 DEF TaskDone
    <3> QED
      BY <1>0, <2>1, <3>1, ContextGoes
  <2> QED
    BY <2>2, <2>3
<1>16. ASSUME NEW t \in Tasks, Reap(t) PROVE Context'
  <2>1. Release(t, rel[t].c, "gone")
    BY <1>16 DEF Reap
  <2>2. got' = got /\ pool' = pool /\ pools' = pools /\ states' \subseteq Tasks
    BY <1>0, <1>16 DEF Reap
  <2>3. "gone" \in Thens
    BY DEF Thens
  <2> QED
    BY <2>1, <2>2, <2>3, ContextReleases
<1>17. ASSUME NEW t \in Tasks, WaitReleases(t) PROVE Context'
  <2>1. got' = got /\ pool' = pool /\ pools' = pools /\ states' \subseteq Tasks /\ rel' = rel
    BY <1>0, <1>17 DEF WaitReleases
  <2>2. CASE tracked = {}
    <3>1. Goto(t, "reclaim")
      BY <1>17, <2>2 DEF WaitReleases
    <3> QED
      BY <1>0, <2>1, <3>1, ContextGoes DEF Closing
  <2>3. CASE tracked # {}
    BY <1>17, <2>1, <2>3 DEF WaitReleases, Context
  <2> QED
    BY <2>2, <2>3
<1>18. ASSUME NEW t \in Tasks, Reclaim(t) PROVE Context'
  <2>1. PICK u \in todo[t] \cap states :
           /\ Release(t, cur[u], "reclaim")
           /\ states' = states \ {u}
    BY <1>18 DEF Reclaim
  <2>2. got' = got /\ pool' = pool /\ pools' = pools /\ states' \subseteq Tasks
    BY <1>0, <1>18, <2>1 DEF Reclaim
  <2>3. "reclaim" \in Thens
    BY DEF Thens
  <2> QED
    BY <2>1, <2>2, <2>3, ContextReleases
<1>19. ASSUME NEW t \in Tasks, Reclaimed(t) PROVE Context'
  <2>1. /\ Goto(t, "pool_close") /\ rel' = rel /\ got' = [got EXCEPT ![t] = pool]
        /\ pool' = pool /\ pools' = pools /\ states' \subseteq Tasks
    BY <1>0, <1>19 DEF Reclaimed
  <2> QED
    BY <1>0, <2>1, ContextGoes
<1>20. ASSUME NEW t \in Tasks, Drain(t) PROVE Context'
  BY <1>20 DEF Drain, Context
<1>21. ASSUME NEW t \in Tasks, PoolClosed(t) PROVE Context'
  <2>1. /\ Goto(t, "run") /\ rel' = rel /\ got' = got
        /\ pool' = 0 /\ pools' = pools /\ states' \subseteq Tasks
    BY <1>0, <1>21 DEF PoolClosed
  <2>2. 0 \in 0 .. PoolLimit
    OBVIOUS
  <2> QED
    BY <1>0, <2>1, <2>2, ContextGoes
<1>22. ASSUME NEW t \in Tasks, Connect(t) PROVE Context'
  <2>1. got' = got /\ pool' = pool /\ pools' = pools /\ states' \subseteq Tasks
    BY <1>0, <1>22, CurrentIsOwn DEF Connect, Register
  <2>2. CASE cur[Current(t)] # 0
    <3>1. Release(t, cur[Current(t)], "ensure") /\ "ensure" \in Thens
      BY <1>22, <2>2 DEF Connect, Thens
    <3> QED
      BY <2>1, <3>1, ContextReleases
  <2>3. CASE cur[Current(t)] = 0
    <3>1. Goto(t, "ensure") /\ rel' = rel
      BY <1>22, <2>3 DEF Connect
    <3> QED
      BY <1>0, <2>1, <3>1, ContextGoes
  <2> QED
    BY <2>2, <2>3
<1>23. ASSUME NEW t \in Tasks, AClose(t) PROVE Context'
  <2>1. Release(t, cur[Current(t)], "run") /\ "run" \in Thens
    BY <1>23 DEF AClose, Thens
  <2>2. got' = got /\ pool' = pool /\ pools' = pools /\ states' \subseteq Tasks
    BY <1>0, <1>23, CurrentIsOwn DEF AClose, Register
  <2> QED
    BY <2>1, <2>2, ContextReleases
<1>24. ASSUME NEW t \in Tasks, Begin(t) PROVE Context'
  BY <1>24 DEF Begin, Context
<1>25. ASSUME NEW t \in Tasks, End(t) PROVE Context'
  BY <1>25 DEF End, Context
<1>26. ASSUME NEW t \in Tasks, LeftOpen(t) PROVE Context'
  BY <1>26 DEF LeftOpen, Context
<1>27. ASSUME NEW t \in Tasks, NEW u \in Tasks, Spawn(t, u) PROVE Context'
  <2>1. Goto(u, "run") /\ rel' = rel
    BY <1>27 DEF Spawn
  <2>2. got' = got /\ pool' = pool /\ pools' = pools /\ states' \subseteq Tasks
    BY <1>0, <1>27 DEF Spawn
  <2> QED
    BY <1>0, <2>1, <2>2, ContextGoes
<1>28. ASSUME NEW t \in Tasks, Finish(t) PROVE Context'
  <2>1. Goto(t, "done") /\ rel' = rel
    BY <1>28 DEF Finish
  <2>2. got' = got /\ pool' = pool /\ pools' = pools /\ states' \subseteq Tasks
    BY <1>0, <1>28 DEF Finish
  <2> QED
    BY <1>0, <2>1, <2>2, ContextGoes DEF Thens, InRelease, Closing
<1>29. ASSUME NEW t \in Tasks, ClosePool(t) PROVE Context'
  <2>1. Goto(t, "wait_releases") /\ rel' = rel
    BY <1>29 DEF ClosePool
  <2>2. got' = got /\ pool' = pool /\ pools' = pools /\ states' \subseteq Tasks
    BY <1>0, <1>29 DEF ClosePool
  <2> QED
    BY <1>0, <2>1, <2>2, ContextGoes DEF Thens, InRelease, Closing
<1>30. ASSUME NEW t \in Tasks, CancelClose(t) PROVE Context'
  <2>1. Goto(t, "run") /\ rel' = rel
    BY <1>30 DEF CancelClose
  <2>2. got' = got /\ pool' = pool /\ pools' = pools /\ states' \subseteq Tasks
    BY <1>0, <1>30 DEF CancelClose
  <2> QED
    BY <1>0, <2>1, <2>2, ContextGoes DEF Thens, InRelease, Closing
<1>31. ASSUME NEW t \in Tasks, CancelRelease(t) PROVE Context'
  <2>1. pc' = [pc EXCEPT ![t] = "run"] /\ rel' = [rel EXCEPT ![t] = Nothing]
    BY <1>31 DEF CancelRelease, Goto
  <2>2. got' = got /\ pool' = pool /\ pools' = pools /\ states' \subseteq Tasks
    BY <1>0, <1>31 DEF CancelRelease
  <2>3. PICK x : x = "run"
    OBVIOUS
  <2>4. x \notin {"acquire", "wait"} /\ pc' = [pc EXCEPT ![t] = x]
    BY <2>1, <2>3
  <2> QED
    BY <1>0, <2>1, <2>2, <2>4, ContextMoves
<1>34. ASSUME NEW t \in Tasks, CancelGather(t) PROVE Context'
  <2>1. Goto(t, "cancelled") /\ rel' = rel
    BY <1>34 DEF CancelGather
  <2>2. got' = got /\ pool' = pool /\ pools' = pools /\ states' \subseteq Tasks
    BY <1>0, <1>34 DEF CancelGather
  <2> QED
    BY <1>0, <2>1, <2>2, ContextGoes DEF Thens, InRelease, Closing
<1>35. ASSUME NEW t \in Tasks, CutRelease(t) PROVE Context'
  <2>1. pc' = [pc EXCEPT ![t] = "gone"] /\ rel' = [rel EXCEPT ![t] = Nothing]
    BY <1>35 DEF CutRelease, After, Goto
  <2>2. got' = got /\ pool' = pool /\ pools' = pools /\ states' \subseteq Tasks
    BY <1>0, <1>35 DEF CutRelease
  <2>3. PICK x : x = "gone"
    OBVIOUS
  <2>4. x \notin {"acquire", "wait"} /\ pc' = [pc EXCEPT ![t] = x]
    BY <2>1, <2>3
  <2> QED
    BY <1>0, <2>1, <2>2, <2>4, ContextMoves
<1>32. ASSUME NEW t \in Tasks, Step(t) PROVE Context'
  BY <1>2, <1>3, <1>4, <1>5, <1>6, <1>7, <1>8, <1>9, <1>10, <1>11, <1>12, <1>13, <1>14,
     <1>15, <1>16, <1>17, <1>18, <1>19, <1>20, <1>21, <1>32 DEF Step
<1>33. ASSUME NEW t \in Tasks, Call(t) PROVE Context'
  BY <1>22, <1>23, <1>24, <1>25, <1>26, <1>27, <1>28, <1>29, <1>33 DEF Call
<1> QED
  BY <1>30, <1>31, <1>32, <1>33, <1>34, <1>35, <1>1 DEF Next

-----------------------------------------------------------------------------
(***************************************************************************)
(* Every step.                                                             *)
(***************************************************************************)

\* What a release has, and what a state had, nobody else has.
LEMMA HeldByOne ==
    ASSUME Places, NEW t \in Tasks, rel[t].c \in open, cur' = cur
    PROVE  NobodyElse(t, rel[t].c)
BY DEF Places, OnePlace, OnlyPlace, NobodyElse

\* aclose(), close_pool() and the end of a task empty the state first.
LEMMA TakenFromState ==
    ASSUME Places, NEW t \in Tasks, NEW u \in Tasks, cur[u] \in open,
           cur' = [cur EXCEPT ![u] = 0]
    PROVE  NobodyElse(t, cur[u])
<1>1. cur[u] # 0 /\ \A v \in Tasks : cur'[v] = IF v = u THEN 0 ELSE cur[v]
  BY DEF Places, Numbers
<1> QED
  BY <1>1 DEF Places, OnePlace, OnlyPlace, NobodyElse

\* A new connection is in the queue, or in the state of the task that had it made.
LEMMA PlacesAcquired ==
    ASSUME Places, Counted, NEW t \in Tasks, NEW c \in Nat, c <= made',
           cur' = [cur EXCEPT ![t] = c], rel' = rel,
           NEW shift \in [Pools -> Nat], QueuesMove(c, shift),
           c \in open' => /\ \A u \in Tasks : cur[u] # c /\ rel[u].c # c
                          /\ \A p \in Pools : \A i \in 1 .. Len(idle'[p]) : idle'[p][i] # c
    PROVE  Places'
<1>1. /\ cur' \in [Tasks -> Nat]
      /\ \A u \in Tasks : cur'[u] = IF u = t THEN c ELSE cur[u]
  BY DEF Places, Numbers
<1>2. Moves(c, shift)
  BY <1>1 DEF Places, Counted, Numbers, Moves
<1>3. c \in open' => OnlyPlace(c)'
  BY <1>1 DEF OnlyPlace
<1> QED
  BY <1>2, <1>3, PlacesMoved

\* Every step leaves a connection in one place and the queues clean.
LEMMA PlacesNext == Places /\ Context /\ Next => Places'
<1> SUFFICES ASSUME Places, Context, Next PROVE Places'
  OBVIOUS
<1> USE DEF setting, registry, session, closer, poolVars, conns
<1>0. /\ Numbers /\ made \in Nat /\ open \subseteq 1 .. made /\ dirty \subseteq open
      /\ cur \in [Tasks -> Nat] /\ \A t \in Tasks : cur[t] \in Nat /\ cur[t] <= made
      /\ \A t \in Tasks : rel[t].c \in Nat /\ rel[t].c <= made
      /\ states \subseteq Tasks
  BY DEF Places, Numbers, Context
\* Who has nothing more than before.
<1>a. /\ cur' = cur => cur' \in [Tasks -> Nat] /\ \A u \in Tasks : cur'[u] \in {cur[u], 0}
      /\ \A t \in Tasks : cur' = [cur EXCEPT ![t] = 0] =>
            cur' \in [Tasks -> Nat] /\ \A u \in Tasks : cur'[u] \in {cur[u], 0}
  BY <1>0
<1>b. rel' = rel => /\ rel' = [u \in Tasks |-> rel'[u]]
                    /\ \A u \in Tasks : rel'[u].c \in {rel[u].c, 0}
  BY <1>0 DEF Numbers
<1>c. ASSUME NEW t \in Tasks, rel' = [rel EXCEPT ![t] = Nothing]
      PROVE  /\ rel' = [u \in Tasks |-> rel'[u]]
             /\ \A u \in Tasks : rel'[u].c \in {rel[u].c, 0}
  <2>1. /\ rel' = [u \in Tasks |-> rel'[u]]
        /\ \A u \in Tasks : rel'[u] = IF u = t THEN Nothing ELSE rel[u]
    BY <1>0, <1>c DEF Numbers
  <2>2. Nothing.c = 0
    BY DEF Nothing
  <2> QED
    BY <2>1, <2>2
\* Connections may end.
<1>d. /\ made' = made /\ open' \subseteq open /\ dirty' \subseteq dirty /\ dirty' \subseteq open'
      => Counted
  BY <1>0 DEF Counted
<1>e. ASSUME made' = made + 1, open' = open \cup {made + 1}, dirty' = dirty
      PROVE  /\ Counted /\ made + 1 \notin dirty'
             /\ made + 1 \in Nat /\ made + 1 <= made' /\ made + 1 > made
  <2>1. made' \in Nat /\ made <= made' /\ made + 1 .. made' = {made + 1}
    BY <1>0, <1>e
  <2>2. dirty' \subseteq open'
    BY <1>0, <1>e
  <2>3. made + 1 \notin dirty'
    BY <1>0, <1>e
  <2> QED
    BY <1>0, <1>e, <2>1, <2>2, <2>3 DEF Counted
<1>1. ASSUME NEW t \in Tasks, Rollback(t) PROVE Places'
  <2>0. /\ made' = made /\ open' \subseteq open /\ dirty' \subseteq dirty
        /\ dirty' \subseteq open'
    BY <1>0, <1>1 DEF Rollback, RolledBack
  <2>c. Counted
    BY <1>d, <2>0
  <2>1. /\ made' = made /\ open' = open /\ cur' = cur
        /\ rel[t].c \notin dirty' /\ rel[t].c \in open
        /\ PutBack(t, rel[t].c, rel[t].p, rel[t].then, TRUE)
    BY <1>0, <1>1 DEF Rollback, RolledBack, Stale
  <2>2. Back(t, rel[t].c)
    BY <1>0, <2>1, PutBackMoves
  <2> QED
    BY <1>0, <1>a, <2>1, <2>2, <2>0, <2>c, HeldByOne, PlacesBack
<1>2. ASSUME NEW t \in Tasks, RollbackFails(t) PROVE Places'
  <2>0. /\ made' = made /\ open' \subseteq open /\ dirty' \subseteq dirty
        /\ dirty' \subseteq open'
    BY <1>0, <1>2 DEF RollbackFails
  <2>c. Counted
    BY <1>d, <2>0
  <2>1. made' = made /\ cur' = cur
    BY <1>0, <1>2 DEF RollbackFails
  <2>2. CASE driver = "sqlite"
    <3>1. idle' = idle /\ rel' = rel
      BY <1>2, <2>2 DEF RollbackFails
    <3> QED
      BY <1>0, <1>a, <1>b, <2>1, <3>1, <2>0, <2>c, PlacesLost
  <2>3. CASE driver # "sqlite"
    <3>1. /\ PutBack(t, rel[t].c, rel[t].p, rel[t].then, FALSE)
          /\ rel[t].c \notin dirty' /\ rel[t].c \notin open'
      BY <1>2, <2>3 DEF RollbackFails
    <3>2. Back(t, rel[t].c)
      BY <1>0, <3>1, PutBackMoves
    <3>3. rel[t].c \in open => NobodyElse(t, rel[t].c)
      BY <2>1, HeldByOne
    <3>4. rel[t].c \in Nat /\ rel[t].c <= made'
      BY <1>0, <2>1
    <3> QED
      BY <1>a, <2>1, <3>1, <3>2, <3>3, <3>4, <2>0, <2>c, PlacesBack
  <2> QED
    BY <2>2, <2>3
<1>3. ASSUME NEW t \in Tasks, Discard(t) PROVE Places'
  <2>0. /\ made' = made /\ open' \subseteq open /\ dirty' \subseteq dirty
        /\ dirty' \subseteq open'
    BY <1>0, <1>3 DEF Discard
  <2>c. Counted
    BY <1>d, <2>0
  <2>1. idle' = idle
    BY <1>0, <1>3 DEF Discard
  <2>2. cur' = cur /\ rel' = rel
    BY <1>3 DEF Discard, After
  <2> QED
    BY <1>0, <1>a, <1>b, <2>1, <2>2, <2>0, <2>c, PlacesLost
<1>4. ASSUME NEW t \in Tasks, Recreate(t) PROVE Places'
  <2>0. made' = made + 1 /\ open' = open \cup {made + 1} /\ dirty' = dirty
    BY <1>4 DEF Recreate
  <2>1. /\ Counted /\ cur' = cur
        /\ made + 1 \notin dirty' /\ made + 1 \in Nat /\ made + 1 <= made'
        /\ PutBack(t, made + 1, rel[t].p, rel[t].then, TRUE)
    BY <1>4, <1>e, <2>0 DEF Recreate
  <2>2. Back(t, made + 1)
    BY <1>0, <2>1, PutBackMoves
  <2>3. NobodyElse(t, made + 1)
    BY <1>0, <1>e, <2>0, <2>1, NotHeld DEF NobodyElse
  <2> QED
    BY <1>0, <1>a, <2>1, <2>2, <2>3, PlacesBack
<1>5. ASSUME NEW t \in Tasks, RecreateFails(t) PROVE Places'
  <2>0. /\ made' = made /\ open' \subseteq open /\ dirty' \subseteq dirty
        /\ dirty' \subseteq open'
    BY <1>0, <1>5 DEF RecreateFails
  <2>c. Counted
    BY <1>d, <2>0
  <2>1. idle' = idle
    BY <1>0, <1>5 DEF RecreateFails
  <2>2. cur' = cur /\ rel' = [rel EXCEPT ![t] = Nothing]
    BY <1>5 DEF RecreateFails, After
  <2> QED
    BY <1>0, <1>a, <1>c, <2>1, <2>2, <2>0, <2>c, PlacesLost
<1>6. ASSUME NEW t \in Tasks, CloseConn(t) PROVE Places'
  <2>0. /\ made' = made /\ open' \subseteq open /\ dirty' \subseteq dirty
        /\ dirty' \subseteq open'
    BY <1>0, <1>6 DEF CloseConn
  <2>c. Counted
    BY <1>d, <2>0
  <2>1. idle' = idle
    BY <1>0, <1>6 DEF CloseConn
  <2>2. cur' = cur /\ rel' = [rel EXCEPT ![t] = Nothing]
    BY <1>6 DEF CloseConn, After
  <2> QED
    BY <1>0, <1>a, <1>c, <2>1, <2>2, <2>0, <2>c, PlacesLost
<1>7. ASSUME NEW t \in Tasks, EnsurePool(t) PROVE Places'
  <2>0. /\ made' = made /\ open' \subseteq open /\ dirty' \subseteq dirty
        /\ dirty' \subseteq open'
    BY <1>0, <1>7 DEF EnsurePool
  <2>c. Counted
    BY <1>d, <2>0
  <2>1. idle' = idle
    BY <1>0, <1>7 DEF EnsurePool
  <2>2. cur' = cur /\ rel' = rel
    BY <1>7 DEF EnsurePool, After
  <2> QED
    BY <1>0, <1>a, <1>b, <2>1, <2>2, <2>0, <2>c, PlacesLost
<1>8. ASSUME NEW t \in Tasks, CreatePool(t) PROVE Places'
  <2> DEFINE n == Initial
             new == [i \in 1 .. n |-> made + i]
  <2>1. n \in Nat
    BY DEF Initial
  <2>2. /\ made' = made + n /\ open' = open \cup (made + 1 .. made + n) /\ dirty' = dirty
        /\ cur' = cur /\ rel' = rel /\ idle' = [idle EXCEPT ![pools + 1] = new]
    BY <1>8 DEF CreatePool, Fresh
  <2>3. new \in Seq(Nat) /\ Len(new) = n /\ \A i \in 1 .. n : new[i] = made + i
    BY <1>0, <2>1
  <2> HIDE DEF n, new
  <2>4. /\ idle' \in [Pools -> Seq(Nat)]
        /\ \A p \in Pools : idle'[p] = IF p = pools + 1 THEN new ELSE idle[p]
    BY <1>0, <2>2, <2>3 DEF Numbers
  <2>5. \A p \in Pools : \A i \in 1 .. Len(idle'[p]) :
           \/ i \in 1 .. Len(idle[p]) /\ idle'[p][i] = idle[p][i] /\ idle[p][i] <= made
           \/ p = pools + 1 /\ i \in 1 .. n /\ idle'[p][i] = made + i
    BY <1>0, <2>3, <2>4 DEF Numbers
  <2>6. \A p \in Pools : \A i \in 1 .. Len(idle[p]) : idle[p][i] \in Nat
    BY <1>0, QueueElements
  <2>7. Numbers'
    <3>1. made' \in Nat /\ open' \subseteq 1 .. made' /\ dirty' \subseteq open'
      BY <1>0, <2>1, <2>2
    <3>2. \A t1 \in Tasks : cur'[t1] <= made' /\ rel'[t1].c \in 0 .. made'
      BY <1>0, <2>1, <2>2 DEF Numbers
    <3>3. \A p \in Pools : \A i \in 1 .. Len(idle'[p]) : idle'[p][i] <= made'
      BY <1>0, <2>1, <2>2, <2>5, <2>6
    <3> QED
      BY <1>0, <2>2, <2>4, <3>1, <3>2, <3>3 DEF Numbers
  <2>8. QueueClean'
    <3> SUFFICES ASSUME NEW p \in Pools, NEW i \in 1 .. Len(idle'[p]), idle'[p][i] \in dirty
                 PROVE  FALSE
      BY <2>2 DEF QueueClean
    <3>1. idle'[p][i] \in 1 .. made
      BY <1>0
    <3>2. i \in 1 .. Len(idle[p]) /\ idle'[p][i] = idle[p][i]
      BY <1>0, <2>1, <2>5, <3>1
    <3> QED
      BY <3>2 DEF Places, QueueClean
  <2>9. ASSUME NEW x \in open' PROVE OnlyPlace(x)'
    <3>1. CASE x \in open
      <4>1. OnlyPlace(x) /\ x \in Nat /\ x <= made
        BY <1>0, <3>1 DEF Places, OnePlace
      <4>2. \A p \in Pools : \A i \in 1 .. Len(idle'[p]) : idle'[p][i] = x =>
               i \in 1 .. Len(idle[p]) /\ idle[p][i] = x
        BY <1>0, <2>1, <2>5, <4>1
      <4> QED
        BY <2>2, <4>1, <4>2 DEF OnlyPlace
    <3>2. CASE x \notin open
      <4>1. x \in Nat /\ x > made
        BY <1>0, <2>1, <2>2, <3>2
      <4>2. /\ \A u \in Tasks : cur'[u] # x /\ rel'[u].c # x
            /\ \A p \in Pools : \A i \in 1 .. Len(idle[p]) : idle[p][i] # x
        BY <1>0, <2>2, <4>1, NotHeld
      <4>3. \A p \in Pools : \A i \in 1 .. Len(idle'[p]) : idle'[p][i] = x =>
               p = pools + 1 /\ i \in 1 .. n /\ x = made + i
        BY <2>5, <4>2
      <4>4. \A i, j \in 1 .. n : made + i = made + j => i = j
        BY <1>0, <2>1
      <4> QED
        BY <4>2, <4>3, <4>4 DEF OnlyPlace
    <3> QED
      BY <3>1, <3>2
  <2> QED
    BY <2>7, <2>8, <2>9 DEF Places, OnePlace
<1>9. ASSUME NEW t \in Tasks, CreateFails(t) PROVE Places'
  <2>1. Counted /\ idle' = idle
    BY <1>0, <1>9 DEF CreateFails, Counted, Fresh
  <2>2. cur' = cur /\ rel' = rel
    BY <1>9 DEF CreateFails, After
  <2> QED
    BY <1>0, <1>a, <1>b, <2>1, <2>2, PlacesLost
<1>10. ASSUME NEW t \in Tasks, Acquire(t) PROVE Places'
  <2>0. /\ made' = made /\ open' \subseteq open /\ dirty' \subseteq dirty
        /\ dirty' \subseteq open'
    BY <1>0, <1>10 DEF Acquire
  <2>c. Counted
    BY <1>d, <2>0
  <2> DEFINE p == got[t]
             c == Head(idle[p])
  <2>1. /\ made' = made /\ open' = open /\ rel' = rel
        /\ cur' = [cur EXCEPT ![t] = c]
        /\ idle[p] # <<>> /\ idle' = [idle EXCEPT ![p] = Tail(@)]
    BY <1>0, <1>10, CurrentIsOwn DEF Acquire, Take
  <2>2. p \in Pools
    BY <1>10 DEF Acquire, Context, Pools
  <2> HIDE DEF p
  <2>3. /\ c \in Nat /\ c <= made /\ 1 \in 1 .. Len(idle[p]) /\ c = idle[p][1]
        /\ OnlyPlace(c) => \A q \in Pools : \A i \in 1 .. Len(idle'[q]) : idle'[q][i] # c
    BY <1>0, <2>1, <2>2, QueueShorter
  <2>4. PICK shift \in [Pools -> Nat] : QueuesMove(c, shift)
    BY <1>0, <2>1, <2>2, QueueShorter
  <2>5. ASSUME c \in open
        PROVE  /\ \A u \in Tasks : cur[u] # c /\ rel[u].c # c
               /\ \A q \in Pools : \A i \in 1 .. Len(idle'[q]) : idle'[q][i] # c
    <3>1. OnlyPlace(c)
      BY <2>5 DEF Places, OnePlace
    <3> QED
      BY <2>2, <2>3, <3>1 DEF OnlyPlace
  <2> HIDE DEF c
  <2> QED
    BY <2>1, <2>3, <2>4, <2>5, <2>0, <2>c, PlacesAcquired, ZenonT(30)
<1>11. ASSUME NEW t \in Tasks, AcquireNew(t) PROVE Places'
  <2> DEFINE c == made + 1
  <2>0. made' = made + 1 /\ open' = open \cup {made + 1} /\ dirty' = dirty
    BY <1>11 DEF AcquireNew
  <2>1. /\ Counted /\ made' = c /\ rel' = rel /\ idle' = idle
        /\ cur' = [cur EXCEPT ![t] = c] /\ c \in Nat /\ c > made /\ c <= made'
    BY <1>0, <1>11, <1>e, <2>0, CurrentIsOwn DEF AcquireNew, Take
  <2> HIDE DEF c
  <2>2. PICK shift \in [Pools -> Nat] : QueuesMove(c, shift)
    BY <1>0, <2>1, QueuesSame
  <2>3. /\ \A u \in Tasks : cur[u] # c /\ rel[u].c # c
        /\ \A q \in Pools : \A i \in 1 .. Len(idle'[q]) : idle'[q][i] # c
    BY <1>0, <2>1, NotHeld
  <2> QED
    BY <2>1, <2>2, <2>3, PlacesAcquired
<1>12. ASSUME NEW t \in Tasks, AcquireWait(t) PROVE Places'
  <2>0. /\ made' = made /\ open' \subseteq open /\ dirty' \subseteq dirty
        /\ dirty' \subseteq open'
    BY <1>0, <1>12 DEF AcquireWait
  <2>c. Counted
    BY <1>d, <2>0
  <2>1. idle' = idle
    BY <1>0, <1>12 DEF AcquireWait
  <2>2. cur' = cur /\ rel' = rel
    BY <1>12 DEF AcquireWait, After
  <2> QED
    BY <1>0, <1>a, <1>b, <2>1, <2>2, <2>0, <2>c, PlacesLost
<1>13. ASSUME NEW t \in Tasks, AcquireFails(t) PROVE Places'
  <2>0. /\ made' = made /\ open' \subseteq open /\ dirty' \subseteq dirty
        /\ dirty' \subseteq open'
    BY <1>0, <1>13 DEF AcquireFails
  <2>c. Counted
    BY <1>d, <2>0
  <2>1. idle' = idle
    BY <1>0, <1>13 DEF AcquireFails
  <2>2. cur' = cur /\ rel' = rel
    BY <1>13 DEF AcquireFails, After
  <2> QED
    BY <1>0, <1>a, <1>b, <2>1, <2>2, <2>0, <2>c, PlacesLost
<1>14. ASSUME NEW t \in Tasks, TaskDone(t) PROVE Places'
  <2>0. /\ made' = made /\ open' \subseteq open /\ dirty' \subseteq dirty
        /\ dirty' \subseteq open'
    BY <1>0, <1>14 DEF TaskDone
  <2>c. Counted
    BY <1>d, <2>0
  <2>1. made' = made /\ open' = open /\ idle' = idle
    BY <1>0, <1>14 DEF TaskDone
  <2>2. CASE t \in hooked \cap states /\ cur[t] # 0
    <3> DEFINE r == [c |-> cur[t], p |-> owner[cur[t]], then |-> "gone"]
    <3>1. cur' = [cur EXCEPT ![t] = 0] /\ rel' = [rel EXCEPT ![t] = r] /\ r.c = cur[t]
      BY <1>14, <2>2 DEF TaskDone
    <3> HIDE DEF r
    <3>2. Back(t, cur[t])
      BY <1>0, <2>1, <3>1 DEF Back, Held, Numbers
    <3> QED
      BY <1>0, <1>a, <2>1, <3>1, <3>2, <2>0, <2>c, TakenFromState, PlacesBack
  <2>3. CASE ~(t \in hooked \cap states /\ cur[t] # 0)
    <3>1. cur' = cur /\ rel' = rel
      BY <1>14, <2>3 DEF TaskDone
    <3> QED
      BY <1>0, <1>a, <1>b, <2>1, <3>1, <2>0, <2>c, PlacesLost
  <2> QED
    BY <2>2, <2>3
<1>15. ASSUME NEW t \in Tasks, Reap(t) PROVE Places'
  <2>0. /\ made' = made /\ open' \subseteq open /\ dirty' \subseteq dirty
        /\ dirty' \subseteq open'
    BY <1>0, <1>15 DEF Reap
  <2>c. Counted
    BY <1>d, <2>0
  <2>1. /\ made' = made /\ open' = open /\ dirty' = dirty /\ cur' = cur
        /\ Release(t, rel[t].c, "gone")
    BY <1>0, <1>15 DEF Reap
  <2>2. Back(t, rel[t].c)
    BY <1>0, <2>1, ReleaseMoves
  <2> QED
    BY <1>0, <1>a, <2>1, <2>2, <2>0, <2>c, HeldByOne, PlacesBack
<1>16. ASSUME NEW t \in Tasks, WaitReleases(t) PROVE Places'
  <2>0. /\ made' = made /\ open' \subseteq open /\ dirty' \subseteq dirty
        /\ dirty' \subseteq open'
    BY <1>0, <1>16 DEF WaitReleases
  <2>c. Counted
    BY <1>d, <2>0
  <2>1. idle' = idle
    BY <1>0, <1>16 DEF WaitReleases
  <2>2. cur' = cur /\ rel' = rel
    BY <1>16 DEF WaitReleases, After
  <2> QED
    BY <1>0, <1>a, <1>b, <2>1, <2>2, <2>0, <2>c, PlacesLost
<1>17. ASSUME NEW t \in Tasks, Reclaim(t) PROVE Places'
  <2>0. /\ made' = made /\ open' \subseteq open /\ dirty' \subseteq dirty
        /\ dirty' \subseteq open'
    BY <1>0, <1>17 DEF Reclaim
  <2>c. Counted
    BY <1>d, <2>0
  <2>1. made' = made /\ open' = open /\ dirty' = dirty
    BY <1>0, <1>17 DEF Reclaim
  <2>2. PICK u \in Tasks : cur' = [cur EXCEPT ![u] = 0] /\ Release(t, cur[u], "reclaim")
    BY <1>0, <1>17 DEF Reclaim
  <2>3. Back(t, cur[u])
    BY <1>0, <2>1, <2>2, ReleaseMoves
  <2> QED
    BY <1>0, <1>a, <2>1, <2>2, <2>3, <2>0, <2>c, TakenFromState, PlacesBack
<1>18. ASSUME NEW t \in Tasks, Reclaimed(t) PROVE Places'
  <2>0. /\ made' = made /\ open' \subseteq open /\ dirty' \subseteq dirty
        /\ dirty' \subseteq open'
    BY <1>0, <1>18 DEF Reclaimed
  <2>c. Counted
    BY <1>d, <2>0
  <2>1. idle' = idle
    BY <1>0, <1>18 DEF Reclaimed
  <2>2. cur' = cur /\ rel' = rel
    BY <1>18 DEF Reclaimed, After
  <2> QED
    BY <1>0, <1>a, <1>b, <2>1, <2>2, <2>0, <2>c, PlacesLost
<1>19. ASSUME NEW t \in Tasks, Drain(t) PROVE Places'
  <2>0. /\ made' = made /\ open' \subseteq open /\ dirty' \subseteq dirty
        /\ dirty' \subseteq open'
    BY <1>0, <1>19 DEF Drain
  <2>c. Counted
    BY <1>d, <2>0
  <2> DEFINE p == got[t]
  <2>1. /\ rel' = rel /\ cur' = cur
        /\ idle[p] # <<>> /\ idle' = [idle EXCEPT ![p] = Tail(@)]
    BY <1>0, <1>19 DEF Drain
  <2>2. p \in Pools
    BY <1>19 DEF Drain, Context, Pools
  <2> HIDE DEF p
  <2>3. PICK shift \in [Pools -> Nat] : QueuesMove(0, shift)
    BY <1>0, <2>1, <2>2, QueueShorter
  <2>4. Moves(0, shift) /\ 0 \notin open
    BY <1>0, <1>a, <1>b, <2>0, <2>1, <2>3 DEF Moves
  <2> QED
    BY <2>1, <2>4, <2>0, <2>c, PlacesMoved
<1>20. ASSUME NEW t \in Tasks, PoolClosed(t) PROVE Places'
  <2>0. /\ made' = made /\ open' \subseteq open /\ dirty' \subseteq dirty
        /\ dirty' \subseteq open'
    BY <1>0, <1>20 DEF PoolClosed
  <2>c. Counted
    BY <1>d, <2>0
  <2>1. idle' = idle
    BY <1>0, <1>20 DEF PoolClosed
  <2>2. cur' = cur /\ rel' = rel
    BY <1>20 DEF PoolClosed, After
  <2> QED
    BY <1>0, <1>a, <1>b, <2>1, <2>2, <2>0, <2>c, PlacesLost
<1>21. ASSUME NEW t \in Tasks, Connect(t) PROVE Places'
  <2>0. /\ made' = made /\ open' \subseteq open /\ dirty' \subseteq dirty
        /\ dirty' \subseteq open'
    BY <1>0, <1>21 DEF Connect
  <2>c. Counted
    BY <1>d, <2>0
  <2>1. /\ made' = made /\ open' = open /\ dirty' = dirty /\ cur' = cur
        /\ cur[t] = 0 \/ cur[t] \notin open
    BY <1>0, <1>21, CurrentIsOwn DEF Connect, Stale
  <2>2. CASE cur[t] # 0
    <3>1. Release(t, cur[t], "ensure")
      BY <1>21, <2>2, CurrentIsOwn DEF Connect
    <3>2. Back(t, cur[t])
      BY <1>0, <2>1, <3>1, ReleaseMoves
    <3> QED
      BY <1>0, <1>a, <2>1, <2>2, <3>2, <2>0, <2>c, PlacesBack
  <2>3. CASE cur[t] = 0
    <3>1. idle' = idle /\ rel' = rel
      BY <1>21, <2>3, CurrentIsOwn DEF Connect
    <3> QED
      BY <1>0, <1>a, <1>b, <2>1, <3>1, <2>0, <2>c, PlacesLost
  <2> QED
    BY <2>2, <2>3
<1>22. ASSUME NEW t \in Tasks, AClose(t) PROVE Places'
  <2>0. /\ made' = made /\ open' \subseteq open /\ dirty' \subseteq dirty
        /\ dirty' \subseteq open'
    BY <1>0, <1>22 DEF AClose
  <2>c. Counted
    BY <1>d, <2>0
  <2>1. /\ made' = made /\ open' = open /\ dirty' = dirty
        /\ cur' = [cur EXCEPT ![t] = 0] /\ Release(t, cur[t], "run")
    BY <1>0, <1>22, CurrentIsOwn DEF AClose
  <2>2. Back(t, cur[t])
    BY <1>0, <2>1, ReleaseMoves
  <2> QED
    BY <1>0, <1>a, <2>1, <2>2, <2>0, <2>c, TakenFromState, PlacesBack
<1>23. ASSUME NEW t \in Tasks, Begin(t) PROVE Places'
  <2>1. /\ cur[t] \in open /\ dirty' = dirty \cup {cur[t]} /\ open' = open
        /\ made' = made /\ cur' = cur /\ rel' = rel /\ idle' = idle
    BY <1>23, CurrentIsOwn DEF Begin, Stale
  <2>2. \A p \in Pools : \A i \in 1 .. Len(idle[p]) : idle[p][i] # cur[t]
    BY <2>1 DEF Places, OnePlace, OnlyPlace
  <2>3. Numbers'
    BY <1>0, <2>1 DEF Numbers
  <2>4. OnePlace'
    BY <2>1 DEF Places, OnePlace, OnlyPlace
  <2>5. QueueClean'
    BY <2>1, <2>2 DEF Places, QueueClean
  <2> QED
    BY <2>3, <2>4, <2>5 DEF Places
<1>24. ASSUME NEW t \in Tasks, End(t) PROVE Places'
  <2>0. /\ made' = made /\ open' \subseteq open /\ dirty' \subseteq dirty
        /\ dirty' \subseteq open'
    BY <1>0, <1>24 DEF End
  <2>c. Counted
    BY <1>d, <2>0
  <2>1. idle' = idle
    BY <1>0, <1>24 DEF End
  <2>2. cur' = cur /\ rel' = rel
    BY <1>24 DEF End, After
  <2> QED
    BY <1>0, <1>a, <1>b, <2>1, <2>2, <2>0, <2>c, PlacesLost
<1>25. ASSUME NEW t \in Tasks, LeftOpen(t) PROVE Places'
  <2>1. /\ cur[t] \in open /\ dirty' = dirty \cup {cur[t]} /\ open' = open
        /\ made' = made /\ cur' = cur /\ rel' = rel /\ idle' = idle
    BY <1>25, CurrentIsOwn DEF LeftOpen, Stale
  <2>2. \A p \in Pools : \A i \in 1 .. Len(idle[p]) : idle[p][i] # cur[t]
    BY <2>1 DEF Places, OnePlace, OnlyPlace
  <2>3. Numbers'
    BY <1>0, <2>1 DEF Numbers
  <2>4. OnePlace'
    BY <2>1 DEF Places, OnePlace, OnlyPlace
  <2>5. QueueClean'
    BY <2>1, <2>2 DEF Places, QueueClean
  <2> QED
    BY <2>3, <2>4, <2>5 DEF Places
<1>26. ASSUME NEW t \in Tasks, NEW u \in Tasks, Spawn(t, u) PROVE Places'
  <2>0. /\ made' = made /\ open' \subseteq open /\ dirty' \subseteq dirty
        /\ dirty' \subseteq open'
    BY <1>0, <1>26 DEF Spawn
  <2>c. Counted
    BY <1>d, <2>0
  <2>1. idle' = idle
    BY <1>0, <1>26 DEF Spawn
  <2>2. cur' = cur /\ rel' = rel
    BY <1>26 DEF Spawn, After
  <2> QED
    BY <1>0, <1>a, <1>b, <2>1, <2>2, <2>0, <2>c, PlacesLost
<1>27. ASSUME NEW t \in Tasks, Finish(t) PROVE Places'
  <2>0. /\ made' = made /\ open' \subseteq open /\ dirty' \subseteq dirty
        /\ dirty' \subseteq open'
    BY <1>0, <1>27 DEF Finish
  <2>c. Counted
    BY <1>d, <2>0
  <2>1. idle' = idle
    BY <1>0, <1>27 DEF Finish
  <2>2. cur' = cur /\ rel' = rel
    BY <1>27 DEF Finish, After
  <2> QED
    BY <1>0, <1>a, <1>b, <2>1, <2>2, <2>0, <2>c, PlacesLost
<1>28. ASSUME NEW t \in Tasks, ClosePool(t) PROVE Places'
  <2>0. /\ made' = made /\ open' \subseteq open /\ dirty' \subseteq dirty
        /\ dirty' \subseteq open'
    BY <1>0, <1>28 DEF ClosePool
  <2>c. Counted
    BY <1>d, <2>0
  <2>1. idle' = idle
    BY <1>0, <1>28 DEF ClosePool
  <2>2. cur' = cur /\ rel' = rel
    BY <1>28 DEF ClosePool, After
  <2> QED
    BY <1>0, <1>a, <1>b, <2>1, <2>2, <2>0, <2>c, PlacesLost
<1>29. ASSUME NEW t \in Tasks, CancelClose(t) PROVE Places'
  <2>0. /\ made' = made /\ open' \subseteq open /\ dirty' \subseteq dirty
        /\ dirty' \subseteq open'
    BY <1>0, <1>29 DEF CancelClose
  <2>c. Counted
    BY <1>d, <2>0
  <2>1. idle' = idle
    BY <1>0, <1>29 DEF CancelClose
  <2>2. cur' = cur /\ rel' = rel
    BY <1>29 DEF CancelClose, After
  <2> QED
    BY <1>0, <1>a, <1>b, <2>1, <2>2, <2>0, <2>c, PlacesLost
<1>30. ASSUME NEW t \in Tasks, CancelRelease(t) PROVE Places'
  <2>0. /\ made' = made /\ open' \subseteq open /\ dirty' \subseteq dirty
        /\ dirty' \subseteq open'
    BY <1>0, <1>30, CutShortEnds DEF CancelRelease
  <2>c. Counted
    BY <1>d, <2>0
  <2>1. idle' = idle
    BY <1>0, <1>30 DEF CancelRelease
  <2>2. cur' = cur /\ rel' = [rel EXCEPT ![t] = Nothing]
    BY <1>30 DEF CancelRelease, After
  <2> QED
    BY <1>0, <1>a, <1>c, <2>1, <2>2, <2>0, <2>c, PlacesLost
<1>31. ASSUME NEW c \in Conns, Drop(c) PROVE Places'
  <2>0. /\ made' = made /\ open' \subseteq open /\ dirty' \subseteq dirty
        /\ dirty' \subseteq open'
    BY <1>0, <1>31 DEF Drop
  <2>c. Counted
    BY <1>d, <2>0
  <2>1. idle' = idle
    BY <1>0, <1>31 DEF Drop
  <2>2. cur' = cur /\ rel' = rel
    BY <1>31 DEF Drop, After
  <2> QED
    BY <1>0, <1>a, <1>b, <2>1, <2>2, <2>0, <2>c, PlacesLost
<1>34. ASSUME NEW t \in Tasks, CancelGather(t) PROVE Places'
  <2>0. /\ made' = made /\ open' \subseteq open /\ dirty' \subseteq dirty
        /\ dirty' \subseteq open'
    BY <1>0, <1>34 DEF CancelGather
  <2>c. Counted
    BY <1>d, <2>0
  <2>1. idle' = idle
    BY <1>34 DEF CancelGather
  <2>2. cur' = cur /\ rel' = rel
    BY <1>34 DEF CancelGather
  <2> QED
    BY <1>0, <1>a, <1>b, <2>1, <2>2, <2>0, <2>c, PlacesLost
<1>35. ASSUME NEW t \in Tasks, CutRelease(t) PROVE Places'
  <2>0. /\ made' = made /\ open' \subseteq open /\ dirty' \subseteq dirty
        /\ dirty' \subseteq open'
    BY <1>0, <1>35, CutShortEnds DEF CutRelease
  <2>c. Counted
    BY <1>d, <2>0
  <2>1. idle' = idle
    BY <1>35 DEF CutRelease
  <2>2. cur' = cur /\ rel' = [rel EXCEPT ![t] = Nothing]
    BY <1>35 DEF CutRelease, After
  <2> QED
    BY <1>0, <1>a, <1>c, <2>1, <2>2, <2>0, <2>c, PlacesLost
<1>32. ASSUME NEW t \in Tasks, Step(t) PROVE Places'
  BY <1>1, <1>2, <1>3, <1>4, <1>5, <1>6, <1>7, <1>8, <1>9, <1>10, <1>11, <1>12, <1>13,
     <1>14, <1>15, <1>16, <1>17, <1>18, <1>19, <1>20, <1>32 DEF Step
<1>33. ASSUME NEW t \in Tasks, Call(t) PROVE Places'
  BY <1>21, <1>22, <1>23, <1>24, <1>25, <1>26, <1>27, <1>28, <1>33 DEF Call
<1> QED
  BY <1>29, <1>30, <1>31, <1>32, <1>33, <1>34, <1>35 DEF Next

\* The invariant holds throughout.
LEMMA Everywhere == Spec => [](Places /\ Context)
<1>1. Init => Places /\ Context
  BY PlacesInit, ContextInit
<1>2. Places /\ Context /\ [Next]_vars => (Places /\ Context)'
  <2>1. CASE Next
    BY <2>1, PlacesNext, ContextNext
  <2>2. CASE UNCHANGED vars
    BY <2>2 DEF vars, setting, registry, session, closer, poolVars, conns, Places, Numbers,
                OnePlace, OnlyPlace, QueueClean, Context
  <2> QED
    BY <2>1, <2>2
<1> QED
  BY <1>1, <1>2, PTL DEF Spec

\* What release() puts into a pool's queue has no transaction open, whatever the task
\* before left and whichever statement of the release fails or is cancelled.
THEOREM IdleStaysClean == Spec => []IdleClean
<1>1. Places => IdleClean
  <2> SUFFICES ASSUME Places, NEW p \in Pools PROVE IdleIn(p) \cap dirty = {}
    BY DEF IdleClean
  <2>1. DOMAIN idle[p] = 1 .. Len(idle[p])
    BY DEF Places, Numbers
  <2> QED
    BY <2>1 DEF IdleIn, ElementsOf, Places, QueueClean
<1> QED
  BY <1>1, Everywhere, PTL

\* A set without two elements.
LEMMA AtMostOne ==
    ASSUME NEW S, \A x, y \in S : x = y
    PROVE  (S = {} /\ Cardinality(S) = 0) \/ (S # {} /\ Cardinality(S) = 1)
<1>1. CASE S = {}
  BY <1>1, FS_EmptySet
<1>2. CASE S # {}
  <2>1. PICK x \in S : S = {x}
    BY <1>2
  <2> QED
    BY <1>2, <2>1, FS_Singleton
<1> QED
  BY <1>1, <1>2

\* A connection of the database that works has one user, whatever tasks inherit from
\* the context they were made in, and whatever is cancelled or fails: a task that finds
\* it, a release, or a queue.
THEOREM OneUser == Spec => []Exclusive
<1>1. Places => Exclusive
  <2> SUFFICES ASSUME Places, NEW c \in open
               PROVE  Cardinality({t \in Tasks : Uses(t) = c})
                        + Cardinality({t \in Tasks : rel[t].c = c})
                        + Cardinality({x \in Pools \X (1 .. PoolSize) :
                             x[2] \in DOMAIN idle[x[1]] /\ idle[x[1]][x[2]] = c}) <= 1
    BY DEF Exclusive
  <2> DEFINE users == {t \in Tasks : Uses(t) = c}
             releases == {t \in Tasks : rel[t].c = c}
             spots == {x \in Pools \X (1 .. PoolSize) :
                         x[2] \in DOMAIN idle[x[1]] /\ idle[x[1]][x[2]] = c}
  <2>1. OnlyPlace(c) /\ c # 0
    BY DEF Places, OnePlace, Numbers
  <2>2. \A t \in users : t \in Tasks /\ cur[t] = c
    BY <2>1, CurrentIsOwn DEF Uses
  <2>3. \A x \in spots : /\ x[1] \in Pools /\ x[2] \in 1 .. Len(idle[x[1]])
                         /\ idle[x[1]][x[2]] = c /\ x = <<x[1], x[2]>>
    <3> SUFFICES ASSUME NEW x \in spots
                 PROVE  /\ x[1] \in Pools /\ x[2] \in 1 .. Len(idle[x[1]])
                        /\ idle[x[1]][x[2]] = c /\ x = <<x[1], x[2]>>
      OBVIOUS
    <3>1. x \in Pools \X (1 .. PoolSize) /\ x[1] \in Pools /\ x = <<x[1], x[2]>>
      OBVIOUS
    <3>2. DOMAIN idle[x[1]] = 1 .. Len(idle[x[1]])
      BY <3>1 DEF Places, Numbers
    <3> QED
      BY <3>1, <3>2
  <2>4. \A t \in releases : t \in Tasks /\ rel[t].c = c
    OBVIOUS
  <2> HIDE DEF users, releases, spots
  <2>5. \A t, u \in users : t = u
    BY <2>1, <2>2 DEF OnlyPlace
  <2>6. \A t, u \in releases : t = u
    BY <2>1, <2>4 DEF OnlyPlace
  <2>7. \A x, y \in spots : x = y
    <3> SUFFICES ASSUME NEW x \in spots, NEW y \in spots PROVE x = y
      OBVIOUS
    <3>1. x[1] = y[1] /\ x[2] = y[2]
      BY <2>1, <2>3 DEF OnlyPlace
    <3> QED
      BY <2>3, <3>1
  <2>8. users = {} \/ releases = {}
    BY <2>1, <2>2, <2>4 DEF OnlyPlace
  <2>9. spots = {} \/ (users = {} /\ releases = {})
    BY <2>1, <2>2, <2>3, <2>4 DEF OnlyPlace
  <2>10. /\ \/ users = {} /\ Cardinality(users) = 0
            \/ users # {} /\ Cardinality(users) = 1
         /\ \/ releases = {} /\ Cardinality(releases) = 0
            \/ releases # {} /\ Cardinality(releases) = 1
         /\ \/ spots = {} /\ Cardinality(spots) = 0
            \/ spots # {} /\ Cardinality(spots) = 1
    BY <2>5, <2>6, <2>7, AtMostOne
  <2>11. Cardinality(users) + Cardinality(releases) + Cardinality(spots) <= 1
    BY <2>8, <2>9, <2>10
  <2> QED
    BY <2>11 DEF users, releases, spots
<1> QED
  BY <1>1, Everywhere, PTL

-----------------------------------------------------------------------------
(***************************************************************************)
(* No slot and no connection is lost.                                      *)
(***************************************************************************)

\* A task that is in a release.
InRel(t) == pc[t] \in InRelease \cup {"reap"}

Rels == [c : Nat, p : Nat, then : Thens]

\* The variables that tell where the tasks are.
Typed ==
    /\ <<driver, faults>> \in Settings
    /\ pc \in [Tasks -> Points] /\ rel \in [Tasks -> Rels]
    /\ cv \in [Tasks -> Tasks \cup {None}]
    /\ states \subseteq Tasks /\ hooked \subseteq Tasks /\ tracked \subseteq Tasks
    /\ txn \in [Tasks -> BOOLEAN] /\ visits \in [Tasks -> 0 .. Visits]
    /\ awaited \in [Tasks -> SUBSET Tasks] /\ todo \in [Tasks -> SUBSET Tasks]
    /\ poolLock \in Tasks \cup {None} /\ closing \in BOOLEAN

\* Task t goes to x and its release becomes r.
Goes(t, x, r) == pc' = [pc EXCEPT ![t] = x] /\ rel' = [rel EXCEPT ![t] = r]

\* The others stay where they are.
LEMMA OneGoes ==
    ASSUME pc \in [Tasks -> Points], rel \in [Tasks -> Rels],
           NEW t \in Tasks, NEW x \in Points, NEW r \in Rels, Goes(t, x, r)
    PROVE  /\ pc' \in [Tasks -> Points] /\ rel' \in [Tasks -> Rels]
           /\ pc'[t] = x /\ rel'[t] = r
           /\ \A u \in Tasks : u # t => pc'[u] = pc[u] /\ rel'[u] = rel[u]
BY DEF Goes

\* A release of connection c, in pool p, that is at x, and how it can be there.
AtStage(x, c, p) ==
    \/ x = "raw_close" /\ (p # pool \/ p \in closed)
    \/ x = "discard" /\ driver = "sqlite" /\ p \notin closed /\ c \notin open
    \/ x = "rollback" /\ (driver = "sqlite" => p \notin closed) /\ c \in open /\ c \in dirty

\* put_nowait() of connection c: it is surplus, it is dropped, or it is idle.
Surplus(t, c, p, then) ==
    /\ Goes(t, "surplus", [c |-> c, p |-> p, then |-> then])
    /\ idle' = idle /\ (Full(p) \/ (driver = "server" /\ p \in closed))
Dropped(t, then) ==
    Goes(t, then, Nothing) /\ idle' = idle
Kept(t, c, p, then) ==
    /\ Goes(t, then, Nothing) /\ idle' = [idle EXCEPT ![p] = Append(@, c)]
    /\ ~Full(p) /\ (driver = "server" => p \notin closed)

Put(t, c, p, then, usable) ==
    /\ out' = [out EXCEPT ![p] = @ \ {rel[t].c, c}]
    /\ \/ Surplus(t, c, p, then) /\ (driver = "server" => usable)
       \/ Dropped(t, then) /\ driver = "server" /\ ~usable
       \/ Kept(t, c, p, then) /\ (driver = "server" => usable)

\* This is what PutBack does.
LEMMA PutBackPuts ==
    ASSUME driver \in {"sqlite", "server"}, NEW t \in Tasks, NEW c, NEW p, NEW then, NEW usable,
           PutBack(t, c, p, then, usable)
    PROVE  Put(t, c, p, then, usable)
<1> DEFINE dropped == driver = "server" /\ (p \in closed \/ ~usable)
<1>1. out' = [out EXCEPT ![p] = @ \ {rel[t].c, c}]
  BY DEF PutBack
<1>2. CASE Full(p) \/ (dropped /\ usable)
  <2>1. Goes(t, "surplus", [c |-> c, p |-> p, then |-> then]) /\ idle' = idle
    BY <1>2 DEF PutBack, Goto, Goes
  <2>2. Full(p) => driver = "sqlite"
    BY DEF Full
  <2> QED
    BY <1>1, <1>2, <2>1, <2>2 DEF Put, Surplus
<1>3. CASE ~(Full(p) \/ (dropped /\ usable))
  <2>1. Goes(t, then, Nothing)
    BY <1>3 DEF PutBack, After, Goto, Goes
  <2>2. idle' = IF dropped THEN idle ELSE [idle EXCEPT ![p] = Append(@, c)]
    BY <1>3 DEF PutBack
  <2>3. CASE dropped
    BY <1>1, <1>3, <2>1, <2>2, <2>3 DEF Put, Dropped
  <2>4. CASE ~dropped
    BY <1>1, <1>3, <2>1, <2>2, <2>4 DEF Put, Kept
  <2> QED
    BY <2>3, <2>4
<1> QED
  BY <1>2, <1>3

\* And this what _release_conn() does.
Starts(t, c, then) ==
    \/ /\ idle' = idle /\ out' = out
       /\ \E x \in {"raw_close", "discard", "rollback"} :
            Goes(t, x, [c |-> c, p |-> owner[c], then |-> then]) /\ AtStage(x, c, owner[c])
    \/ /\ Put(t, c, owner[c], then, c \in open) /\ (driver = "sqlite" => owner[c] \notin closed)
       /\ owner[c] = pool /\ (c \in open => c \notin dirty) /\ (driver = "sqlite" => c \in open)

\* How a release begins, whatever connection it is given.
LEMMA ReleaseStarts ==
    ASSUME driver \in {"sqlite", "server"}, NEW t \in Tasks, NEW c, NEW then, Release(t, c, then)
    PROVE  Starts(t, c, then)
<1>1. CASE Stage(c, owner[c]) = "put"
  <2>1. Put(t, c, owner[c], then, ~Stale(c))
    BY <1>1, PutBackPuts DEF Release
  <2>2. /\ owner[c] = pool /\ (driver = "sqlite" => owner[c] \notin closed /\ c \in open)
        /\ (c \in open => c \notin dirty)
    BY <1>1 DEF Stage, Stale
  <2>3. Put(t, c, owner[c], then, c \in open)
    BY <2>1 DEF Put, Stale
  <2> QED
    BY <2>2, <2>3 DEF Starts
<1>2. CASE Stage(c, owner[c]) # "put"
  <2> DEFINE x == Stage(c, owner[c])
  <2>1. x \in {"raw_close", "discard", "rollback"} /\ AtStage(x, c, owner[c])
    BY <1>2 DEF Stage, Stale, AtStage
  <2>2. /\ Goes(t, x, [c |-> c, p |-> owner[c], then |-> then])
        /\ idle' = idle /\ out' = out
    BY <1>2 DEF Release, Goto, Goes
  <2> QED
    BY <2>1, <2>2 DEF Starts
<1> QED
  BY <1>1, <1>2

-----------------------------------------------------------------------------
(***************************************************************************)
(* What holds of releases, states and queues.                              *)
(***************************************************************************)

\* A release has a connection and a pool, and there is none outside of it.
RelFine(t) ==
    /\ InRel(t) => rel[t].c \in 1 .. made /\ rel[t].p \in 1 .. pools
    /\ ~InRel(t) => rel[t] = Nothing
    /\ pc[t] = "reap" => rel[t].then = "gone"
    /\ pc[t] \in {"discard", "recreate"} => driver = "sqlite"

\* Connections and pools are those that were made.
Lots ==
    /\ made \in 0 .. ConnLimit /\ pools \in 0 .. PoolLimit /\ pool \in 0 .. pools
    /\ owner \in [Conns -> 0 .. pools]
    /\ out \in [Pools -> SUBSET (1 .. made)]
    /\ closed \subseteq 1 .. pools
    /\ got \in [Tasks -> 0 .. pools]
    /\ \A p \in Pools : p > pools => idle[p] = <<>> /\ out[p] = {}
    /\ \A p \in Pools : \A i \in 1 .. Len(idle[p]) : idle[p][i] # 0

\* A connection that is idle, be it open or not, is in one place of one queue, is not
\* checked out, and neither a state nor a release has it; one that is checked out
\* belongs to its pool.
Queued(c) == \E p \in Pools : \E i \in 1 .. Len(idle[p]) : idle[p][i] = c
Apart ==
    /\ \A p, q \in Pools : \A i \in 1 .. Len(idle[p]), j \in 1 .. Len(idle[q]) :
          idle[p][i] = idle[q][j] => p = q /\ i = j
    /\ \A p \in Pools : \A c \in out[p] : owner[c] = p /\ ~Queued(c)
    /\ \A t \in Tasks : ~Queued(cur[t]) /\ ~Queued(rel[t].c)

\* What a task has is checked out as long as it works.
Has(t) ==
    cur[t] # 0 => owner[cur[t]] # 0 /\ (cur[t] \in open => cur[t] \in out[owner[cur[t]]])

\* So is what it releases, until it is put back or turns out to be unusable.
Hand(t) ==
    /\ pc[t] \in {"reap", "rollback"} => rel[t].p = owner[rel[t].c]
    /\ pc[t] \in {"reap", "rollback"} /\ rel[t].c \in open => rel[t].c \in out[rel[t].p]
    /\ pc[t] = "recreate" => rel[t].c \notin open
    /\ pc[t] = "surplus" => rel[t].c \notin out[rel[t].p]
    /\ pc[t] = "raw_close" => rel[t].p # pool \/ rel[t].p \in closed

\* The connections of a pool are as many as it may have and no fewer than it needs.
Size(p) == Len(idle[p]) + Cardinality(out[p])
Enough(p) == p = pool \/ "two_closers" \notin faults => Size(p) >= PoolSize
Sizes ==
    /\ \A p \in Pools : Len(idle[p]) <= PoolSize
    /\ driver = "server" => \A p \in Pools : Size(p) <= PoolSize
    /\ driver = "sqlite" /\ faults \cap TakesSlots = {} =>
          \A p \in 1 .. pools \ closed : Enough(p)

Contents == (\A t \in Tasks : RelFine(t) /\ Has(t) /\ Hand(t)) /\ Lots /\ Apart /\ Sizes

\* Numbers of connections, as Places has them.
LEMMA SomeNumbers ==
    ASSUME Places, Lots
    PROVE  /\ \A t \in Tasks : cur[t] \in 0 .. made /\ rel[t].c \in 0 .. made
           /\ open \subseteq 1 .. made /\ 1 .. made \subseteq Conns /\ made \in Nat
           /\ \A p \in Pools : Len(idle[p]) \in Nat /\ idle[p] \in Seq(Nat)
           /\ \A c : Queued(c) => c \in 1 .. made
           /\ 1 .. pools \subseteq Pools
<1>1. /\ \A t \in Tasks : cur[t] \in 0 .. made /\ rel[t].c \in 0 .. made
      /\ open \subseteq 1 .. made /\ 1 .. made \subseteq Conns /\ made \in Nat
      /\ 1 .. pools \subseteq Pools
  BY DEF Places, Numbers, Lots, Conns, Pools
<1>2. \A p \in Pools : Len(idle[p]) \in Nat /\ idle[p] \in Seq(Nat)
  BY DEF Places, Numbers
<1>3. ASSUME NEW p \in Pools, NEW i \in 1 .. Len(idle[p]) PROVE idle[p][i] \in 1 .. made
  <2>1. idle[p][i] \in Nat /\ idle[p][i] <= made /\ idle[p][i] # 0
    BY QueueElements DEF Places, Lots
  <2> QED
    BY <1>1, <2>1
<1> QED
  BY <1>1, <1>2, <1>3 DEF Queued

\* Numbers of tasks and sets.
LEMMA OutFinite ==
    ASSUME Lots, NEW p \in Pools
    PROVE  IsFiniteSet(out[p]) /\ Cardinality(out[p]) \in Nat
<1>1. out[p] \subseteq 1 .. made /\ made \in Nat
  BY DEF Lots
<1>2. IsFiniteSet(1 .. made)
  BY <1>1, FS_Interval
<1> QED
  BY <1>1, <1>2, FS_Subset, FS_CardinalityType

\* Connections may be made and may end.
Grown ==
    /\ made' \in made .. ConnLimit
    /\ \A c \in 0 .. made : c \in open' => c \in open

\* What the state of task t has stays where it was, if it does not lose it.
SameCur(t) ==
    \/ cur'[t] = 0
    \/ /\ cur'[t] = cur[t] /\ owner'[cur[t]] = owner[cur[t]]
       /\ cur[t] \in open' => cur[t] \in open
       /\ \A p \in Pools : cur[t] \in out[p] /\ cur[t] \in open' => cur[t] \in out'[p]

\* A task that keeps its connection, or loses it, has what it may have.
LEMMA HasSame ==
    ASSUME Lots, NEW t \in Tasks, cur[t] \in 0 .. made, Has(t), SameCur(t)
    PROVE  Has(t)'
<1>1. cur[t] # 0 => owner[cur[t]] \in 0 .. pools /\ 0 .. pools \subseteq 0 .. PoolLimit
  BY DEF Lots, Conns
<1>2. cur[t] # 0 => owner[cur[t]] \in Pools
  BY <1>1 DEF Has, Pools
<1> QED
  BY <1>2 DEF Has, SameCur

\* And what it releases.
SameRel(t) ==
    /\ pc'[t] = pc[t] /\ rel'[t] = rel[t]
    /\ InRel(t) =>
         /\ owner'[rel[t].c] = owner[rel[t].c] /\ (rel[t].c \in open' => rel[t].c \in open)
         /\ rel[t].c \in out[rel[t].p] /\ rel[t].c \in open' => rel[t].c \in out'[rel[t].p]
         /\ rel[t].c \in out'[rel[t].p] => rel[t].c \in out[rel[t].p]
         /\ rel[t].p # pool \/ rel[t].p \in closed => rel[t].p # pool' \/ rel[t].p \in closed'

\* A task that stays in its release releases what it may release.
LEMMA HandSame ==
    ASSUME Lots, NEW t \in Tasks, RelFine(t), Hand(t), SameRel(t), driver' = driver,
           made' \in Nat, made <= made', pools' \in Nat, pools <= pools'
    PROVE  RelFine(t)' /\ Hand(t)'
<1>1. InRel(t)' <=> InRel(t)
  BY DEF InRel, SameRel
<1>2. 1 .. made \subseteq 1 .. made' /\ 1 .. pools \subseteq 1 .. pools'
  BY DEF Lots
<1>3. RelFine(t)'
  BY <1>1, <1>2 DEF RelFine, SameRel
<1>4. pc[t] \in {"reap", "rollback", "recreate", "surplus", "raw_close"} => InRel(t)
  BY DEF InRel, InRelease
<1>5. Hand(t)'
  BY <1>4 DEF Hand, SameRel
<1> QED
  BY <1>3, <1>5

\* A step that leaves queues, releases and states alone.
Stays ==
    /\ idle' = idle /\ out' = out /\ owner' = owner /\ pools' = pools
    /\ rel' = rel /\ cur' = cur /\ driver' = driver /\ faults' = faults
    /\ \A u \in Tasks : \/ pc'[u] = pc[u]
                        \/ ~InRel(u) /\ ~InRel(u)'
                        \/ /\ pc[u] = "rollback" /\ pc'[u] = "discard" /\ driver = "sqlite"
                        \/ /\ pc[u] = "discard" /\ pc'[u] = "recreate" /\ rel[u].c \notin open'
    /\ Grown
    /\ closed \subseteq closed' /\ closed' \subseteq closed \cup ({pool} \ {0})
    /\ pool' \in {pool, 0}
    /\ got' \in [Tasks -> 0 .. pools]

\* Nothing of the kind is lost in it.
LEMMA ContentsStay ==
    ASSUME Contents, Places, Stays
    PROVE  Contents'
<1> USE DEF Contents
<1>1. /\ \A t \in Tasks : cur[t] \in 0 .. made /\ rel[t].c \in 0 .. made
      /\ made \in Nat /\ made' \in Nat /\ made <= made' /\ made' <= ConnLimit
      /\ pools \in Nat /\ pools' \in Nat /\ pools <= pools'
  BY SomeNumbers DEF Stays, Grown, Lots
<1>2. ASSUME NEW t \in Tasks PROVE Has(t)'
  BY <1>1, HasSame DEF SameCur, Stays, Grown
<1>3. ASSUME NEW t \in Tasks PROVE RelFine(t)' /\ Hand(t)'
  <2>1. RelFine(t) /\ Hand(t) /\ rel'[t] = rel[t] /\ driver' = driver
    BY DEF Stays
  <2>2. CASE pc'[t] = pc[t]
    <3>1. SameRel(t)
      <4>1. InRel(t) => rel[t].p # 0
        BY <2>1 DEF RelFine
      <4>2. InRel(t) =>
              (rel[t].p # pool \/ rel[t].p \in closed => rel[t].p # pool' \/ rel[t].p \in closed')
        BY <4>1 DEF Stays
      <4> QED
        BY <1>1, <2>1, <2>2, <4>2 DEF SameRel, Stays, Grown
    <3> QED
      BY <1>1, <2>1, <3>1, HandSame
  <2>3. CASE ~InRel(t) /\ ~InRel(t)'
    BY <2>1, <2>3 DEF RelFine, Hand, InRel, InRelease
  <2>4. CASE pc[t] = "rollback" /\ pc'[t] = "discard" /\ driver = "sqlite"
    <3>1. InRel(t) /\ rel[t].c \in 1 .. made' /\ rel[t].p \in 1 .. pools'
      BY <1>1, <2>1, <2>4 DEF RelFine, InRel, InRelease, Stays
    <3> QED
      BY <2>1, <2>4, <3>1 DEF RelFine, Hand, InRel, InRelease
  <2>5. CASE pc[t] = "discard" /\ pc'[t] = "recreate" /\ rel[t].c \notin open'
    <3>1. InRel(t) /\ rel[t].c \in 1 .. made' /\ rel[t].p \in 1 .. pools' /\ driver = "sqlite"
      BY <1>1, <2>1, <2>5 DEF RelFine, InRel, InRelease, Stays
    <3> QED
      BY <2>1, <2>5, <3>1 DEF RelFine, Hand, InRel, InRelease
  <2> QED
    BY <2>2, <2>3, <2>4, <2>5 DEF Stays
<1>4. Lots'
  <2>1. closed' \subseteq 1 .. pools' /\ pool' \in 0 .. pools'
    BY DEF Lots, Stays
  <2>2. made' \in 0 .. ConnLimit /\ out' \in [Pools -> SUBSET (1 .. made')]
    <3>1. 1 .. made \subseteq 1 .. made'
      BY <1>1
    <3> QED
      BY <1>1, <3>1 DEF Lots, Stays
  <2> QED
    BY <2>1, <2>2 DEF Lots, Stays
<1>5. Apart'
  BY DEF Apart, Queued, Stays
<1>6. Sizes'
  BY DEF Sizes, Size, Enough, Stays
<1> QED
  BY <1>2, <1>3, <1>4, <1>5, <1>6

-----------------------------------------------------------------------------
(***************************************************************************)
(* Queues that change.                                                     *)
(***************************************************************************)

\* Queues that lose at most their first connection: what is placed elsewhere is not in
\* a queue any more.
LEMMA ApartShrinks ==
    ASSUME Apart, NEW shift \in [Pools -> Nat], \A p \in Pools : Len(idle'[p]) \in Nat,
           \A p \in Pools : \A i \in 1 .. Len(idle'[p]) :
              i + shift[p] \in 1 .. Len(idle[p]) /\ idle'[p][i] = idle[p][i + shift[p]],
           \A p \in Pools : \A c \in out'[p] :
              \/ c \in out[p] /\ owner'[c] = owner[c]
              \/ owner'[c] = p /\ ~Queued(c)',
           \A t \in Tasks : \/ cur'[t] = cur[t]
                            \/ ~Queued(cur[t])',
           \A t \in Tasks : \/ rel'[t] = rel[t]
                            \/ ~Queued(rel[t].c)'
    PROVE  Apart'
<1>1. \A c : Queued(c)' => Queued(c)
  <2> SUFFICES ASSUME NEW c, Queued(c)' PROVE Queued(c)
    OBVIOUS
  <2>1. PICK p \in Pools : \E i \in 1 .. Len(idle'[p]) : idle'[p][i] = c
    BY Zenon DEF Queued
  <2>2. PICK i \in 1 .. Len(idle'[p]) : idle'[p][i] = c
    BY <2>1, Zenon
  <2>3. i + shift[p] \in 1 .. Len(idle[p]) /\ idle[p][i + shift[p]] = c
    BY <2>2, Zenon
  <2> QED
    BY <2>3, Zenon DEF Queued
<1>2. ASSUME NEW p \in Pools, NEW q \in Pools, NEW i \in 1 .. Len(idle'[p]),
             NEW j \in 1 .. Len(idle'[q]), idle'[p][i] = idle'[q][j]
      PROVE  p = q /\ i = j
  <2>1. i \in Nat /\ j \in Nat /\ shift[p] \in Nat /\ shift[q] \in Nat
    BY <1>2
  <2>2. i + shift[p] \in 1 .. Len(idle[p]) /\ idle'[p][i] = idle[p][i + shift[p]]
    BY <1>2
  <2>3. j + shift[q] \in 1 .. Len(idle[q]) /\ idle'[q][j] = idle[q][j + shift[q]]
    BY <1>2
  <2>4. p = q /\ i + shift[p] = j + shift[q]
    <3> DEFINE a == i + shift[p]
               b == j + shift[q]
    <3>1. a \in 1 .. Len(idle[p]) /\ b \in 1 .. Len(idle[q]) /\ idle[p][a] = idle[q][b]
      BY <1>2, <2>2, <2>3
    <3> HIDE DEF a, b
    <3>2. p = q /\ a = b
      BY <3>1 DEF Apart
    <3> QED
      BY <3>2 DEF a, b
  <2> QED
    BY <2>1, <2>4
<1>3. ASSUME NEW p \in Pools, NEW c \in out'[p] PROVE owner'[c] = p /\ ~Queued(c)'
  BY <1>1, <1>3 DEF Apart
<1>4. \A t \in Tasks : (~Queued(cur[t]) /\ ~Queued(rel[t].c))'
  <2> SUFFICES ASSUME NEW t \in Tasks PROVE (~Queued(cur[t]) /\ ~Queued(rel[t].c))'
    OBVIOUS
  <2>1. Queued(cur[t])' => Queued(cur'[t])
    BY DEF Queued
  <2>2. Queued(rel[t].c)' => Queued(rel'[t].c)
    BY DEF Queued
  <2> QED
    BY <2>1, <2>2 DEF Apart
<1> QED
  BY <1>2, <1>3, <1>4 DEF Apart

\* A queue that gets a connection nobody has or had there.
LEMMA ApartGrows ==
    ASSUME Apart, Numbers, NEW c \in Nat, NEW q \in Pools, ~Queued(c), ~Queued(0), c # 0,
           idle' = [idle EXCEPT ![q] = Append(@, c)], owner' = owner,
           \A p \in Pools : out'[p] \subseteq out[p] /\ c \notin out'[p],
           \A t \in Tasks : cur'[t] \in {cur[t], 0} /\ cur'[t] # c,
           \A t \in Tasks : rel'[t].c \in {rel[t].c, 0} /\ rel'[t].c # c
    PROVE  Apart'
<1>1. /\ \A p \in Pools : idle[p] \in Seq(Nat)
      /\ \A p \in Pools : p # q => idle'[p] = idle[p]
      /\ idle'[q] = Append(idle[q], c)
  BY DEF Numbers
<1>2. /\ Len(idle[q]) \in Nat /\ Len(idle'[q]) = Len(idle[q]) + 1
      /\ \A j \in 1 .. Len(idle[q]) : idle'[q][j] = idle[q][j]
      /\ idle'[q][Len(idle[q]) + 1] = c
  BY <1>1, AppendFacts
<1>3. \A p \in Pools : \A i \in 1 .. Len(idle'[p]) :
         \/ i \in 1 .. Len(idle[p]) /\ idle'[p][i] = idle[p][i] /\ idle'[p][i] # c
         \/ p = q /\ i = Len(idle[q]) + 1 /\ idle'[p][i] = c
  <2> SUFFICES ASSUME NEW p \in Pools, NEW i \in 1 .. Len(idle'[p])
               PROVE  \/ i \in 1 .. Len(idle[p]) /\ idle'[p][i] = idle[p][i] /\ idle'[p][i] # c
                      \/ p = q /\ i = Len(idle[q]) + 1 /\ idle'[p][i] = c
    OBVIOUS
  <2>1. CASE p = q /\ i = Len(idle[q]) + 1
    BY <1>2, <2>1
  <2>2. CASE ~(p = q /\ i = Len(idle[q]) + 1)
    <3>1. i \in 1 .. Len(idle[p]) /\ idle'[p][i] = idle[p][i]
      BY <1>1, <1>2, <2>2
    <3> QED
      BY <3>1 DEF Queued
  <2> QED
    BY <2>1, <2>2
<1>4. \A x : Queued(x)' => x = c \/ Queued(x)
  BY <1>3 DEF Queued
<1>5. ASSUME NEW p \in Pools, NEW r \in Pools, NEW i \in 1 .. Len(idle'[p]),
             NEW j \in 1 .. Len(idle'[r]), idle'[p][i] = idle'[r][j]
      PROVE  p = r /\ i = j
  BY <1>3, <1>5 DEF Apart
<1>6. ASSUME NEW p \in Pools, NEW x \in out'[p] PROVE owner'[x] = p /\ ~Queued(x)'
  BY <1>4, <1>6 DEF Apart
<1>7. ASSUME NEW t \in Tasks, NEW x, x = cur'[t] \/ x = rel'[t].c PROVE ~Queued(x)'
  BY <1>4, <1>7 DEF Apart
<1>8. \A t \in Tasks : (~Queued(cur[t]) /\ ~Queued(rel[t].c))'
  BY <1>7 DEF Queued
<1> QED
  BY <1>5, <1>6, <1>8 DEF Apart

\* How many there are without some.
LEMMA Without ==
    ASSUME NEW S, IsFiniteSet(S), NEW a, NEW b
    PROVE  /\ Cardinality(S) \in Nat /\ Cardinality(S \ {a, b}) \in Nat
           /\ Cardinality(S \ {a, b}) <= Cardinality(S)
           /\ a \notin S \/ b \notin S \/ a = b => Cardinality(S \ {a, b}) >= Cardinality(S) - 1
           /\ a \in S \/ b \in S => Cardinality(S \ {a, b}) <= Cardinality(S) - 1
<1>1. /\ Cardinality(S) \in Nat /\ IsFiniteSet(S \ {a, b}) /\ Cardinality(S \ {a, b}) \in Nat
      /\ Cardinality(S \ {a, b}) <= Cardinality(S)
  <2>1. S \ {a, b} \subseteq S
    OBVIOUS
  <2> QED
    BY <2>1, FS_Subset, FS_CardinalityType
<1>2. ASSUME NEW x PROVE Cardinality(S \ {x}) = IF x \in S THEN Cardinality(S) - 1 ELSE Cardinality(S)
  BY FS_RemoveElement
<1>3. CASE a \notin S /\ b \notin S
  <2>1. S \ {a, b} = S
    BY <1>3
  <2> QED
    BY <1>1, <1>3, <2>1
<1>4. CASE a \in S /\ (b \notin S \/ a = b)
  <2>1. S \ {a, b} = S \ {a}
    BY <1>4
  <2> QED
    BY <1>1, <1>2, <1>4, <2>1
<1>5. CASE b \in S /\ a \notin S
  <2>1. S \ {a, b} = S \ {b}
    BY <1>5
  <2> QED
    BY <1>1, <1>2, <1>5, <2>1
<1>6. CASE a \in S /\ b \in S /\ a # b
  <2>1. S \ {a, b} \subseteq S \ {a}
    OBVIOUS
  <2>2. IsFiniteSet(S \ {a}) /\ Cardinality(S \ {a}) = Cardinality(S) - 1
    BY <1>2, <1>6, FS_RemoveElement
  <2>3. Cardinality(S \ {a, b}) <= Cardinality(S) - 1
    BY <2>1, <2>2, FS_Subset
  <2> QED
    BY <1>1, <1>6, <2>3
<1> QED
  BY <1>3, <1>4, <1>5, <1>6

-----------------------------------------------------------------------------
(***************************************************************************)
(* The steps of a release.                                                 *)
(***************************************************************************)

\* A step of a release: pools and owners stay, and states only lose what they have.
Within ==
    /\ driver' = driver /\ faults' = faults /\ owner' = owner /\ pools' = pools
    /\ closed' = closed /\ pool' = pool /\ got' = got /\ Grown
    /\ \A t \in Tasks : cur'[t] \in {cur[t], 0}

\* What it leaves alone.
LEMMA WithinKeeps ==
    ASSUME Contents, Places, Within
    PROVE  /\ made \in Nat /\ made' \in Nat /\ made <= made' /\ made' <= ConnLimit
           /\ pools \in Nat /\ pools' \in Nat /\ pools <= pools' /\ 1 .. pools \subseteq Pools
           /\ \A t \in Tasks : cur[t] \in 0 .. made /\ rel[t].c \in 0 .. made
           /\ (\A p \in Pools : out'[p] \subseteq out[p]) /\ out' \in [Pools -> SUBSET (1 .. made)]
                /\ (\A p \in Pools : p > pools => idle'[p] = <<>>)
                /\ (\A p \in Pools : \A i \in 1 .. Len(idle'[p]) : idle'[p][i] # 0) => Lots'
           /\ ~Queued(0)
           /\ \A t \in Tasks : RelFine(t) /\ Has(t) /\ Hand(t)
<1>1. Lots /\ made \in 0 .. ConnLimit /\ pools \in 0 .. PoolLimit
  BY DEF Contents, Lots
<1>2. /\ made \in Nat /\ made' \in Nat /\ made <= made' /\ made' <= ConnLimit
      /\ pools \in Nat /\ pools' \in Nat /\ pools <= pools'
  BY <1>1 DEF Within, Grown
<1>3. ASSUME out' \in [Pools -> SUBSET (1 .. made)], \A p \in Pools : out'[p] \subseteq out[p],
             \A p \in Pools : p > pools => idle'[p] = <<>>,
             \A p \in Pools : \A i \in 1 .. Len(idle'[p]) : idle'[p][i] # 0
      PROVE  Lots'
  <2>1. 1 .. made \subseteq 1 .. made' /\ made' \in 0 .. ConnLimit
    BY <1>2
  <2>2. out' \in [Pools -> SUBSET (1 .. made')]
    BY <1>3, <2>1
  <2>3. \A p \in Pools : p > pools => out'[p] = {}
    BY <1>1, <1>3 DEF Lots
  <2> QED
    BY <1>1, <1>3, <2>1, <2>2, <2>3 DEF Lots, Within
<1>4. ~Queued(0)
  BY <1>1 DEF Queued, Lots
<1> QED
  BY <1>1, <1>2, <1>3, <1>4, SomeNumbers DEF Contents

\* A release begins: task t takes connection c out of a state, or has it already.
LEMMA ContentsBegin ==
    ASSUME Contents, Places, Typed, Within, NEW t \in Tasks, NEW c \in 1 .. made, NEW then \in Thens,
           NEW x \in {"raw_close", "discard", "rollback", "reap"},
           Goes(t, x, [c |-> c, p |-> owner[c], then |-> then]),
           AtStage(x, c, owner[c]) \/ (x = "reap" /\ then = "gone"),
           idle' = idle, out' = out, open' = open, owner[c] # 0,
           ~Queued(c), c \in open => c \in out[owner[c]]
    PROVE  Contents'
<1> DEFINE r == [c |-> c, p |-> owner[c], then |-> then]
<1>1. r.c = c /\ r.p = owner[c] /\ r.then = then
  OBVIOUS
<1>2. owner[c] \in 1 .. pools /\ owner[c] \in Nat /\ c \in Nat
  <2>1. c \in Conns
    BY SomeNumbers DEF Contents
  <2> QED
    BY <2>1 DEF Contents, Lots
<1>3. r \in Rels /\ x \in Points
  BY <1>2 DEF Rels, Points, InRelease
<1> HIDE DEF r
<1>4. /\ pc'[t] = x /\ rel'[t] = r
      /\ \A u \in Tasks : u # t => pc'[u] = pc[u] /\ rel'[u] = rel[u]
  BY <1>3, OneGoes DEF Typed, r
<1>5. ASSUME NEW u \in Tasks PROVE Has(u)'
  <2>1. SameCur(u)
    BY DEF SameCur, Within
  <2> QED
    BY <2>1, WithinKeeps, HasSame DEF Contents
<1>6. ASSUME NEW u \in Tasks, u # t PROVE RelFine(u)' /\ Hand(u)'
  <2>1. SameRel(u)
    BY <1>4, <1>6 DEF SameRel, Within
  <2>2. driver' = driver /\ Lots
    BY DEF Within, Contents
  <2> QED
    BY <2>1, <2>2, WithinKeeps, HandSame
<1>7. RelFine(t)' /\ Hand(t)'
  <2>1. /\ x = "raw_close" => owner[c] # pool \/ owner[c] \in closed
        /\ x = "discard" => driver = "sqlite"
        /\ x = "reap" => then = "gone"
    BY DEF AtStage
  <2>2. c \in 1 .. made' /\ owner[c] \in 1 .. pools'
    BY <1>2, WithinKeeps DEF Within
  <2>3. RelFine(t)'
    BY <1>1, <1>4, <2>1, <2>2 DEF RelFine, InRel, InRelease, Within
  <2>4. Hand(t)'
    BY <1>1, <1>4, <2>1 DEF Hand, Within
  <2> QED
    BY <2>3, <2>4
<1>8. Lots'
  <2>1. /\ \A p \in Pools : p > pools => idle[p] = <<>>
        /\ \A p \in Pools : \A i \in 1 .. Len(idle[p]) : idle[p][i] # 0
        /\ out \in [Pools -> SUBSET (1 .. made)]
    BY DEF Contents, Lots
  <2> QED
    BY <2>1, WithinKeeps
<1>9. Apart'
  <2>1. ~Queued(0)
    BY WithinKeeps
  <2>2. \A u \in Tasks : rel'[u].c \in {rel[u].c, c}
    BY <1>1, <1>4
  <2> QED
    BY <2>1, <2>2 DEF Contents, Apart, Queued, Within
<1>10. Sizes'
  BY DEF Contents, Sizes, Size, Enough, Within
<1> QED
  BY <1>5, <1>6, <1>7, <1>8, <1>9, <1>10 DEF Contents

\* Release t takes connection c out of pool p, and what it had itself.
Loses(t, c, p) == \A q \in Pools : out'[q] = IF q = p THEN out[q] \ {rel[t].c, c} ELSE out[q]
OthersStay(t) == \A u \in Tasks : u # t => pc'[u] = pc[u] /\ rel'[u] = rel[u]

\* What others have is not what release t has, nor what nobody else has.
LEMMA OthersKeep ==
    ASSUME Contents, Places, Within, NEW t \in Tasks, NEW c, c \in open' => NobodyElse(t, c),
           NEW p, Loses(t, c, p), OthersStay(t)
    PROVE  /\ \A u \in Tasks : Has(u)'
           /\ \A u \in Tasks : u # t => RelFine(u)' /\ Hand(u)'
<1> USE DEF Loses, OthersStay
<1>1. \A x \in 0 .. made : x \in open' => x \in open /\ OnlyPlace(x)
  BY DEF Within, Grown, Places, OnePlace
<1>2. ASSUME NEW u \in Tasks PROVE Has(u)'
  <2>1. cur'[u] # 0 /\ cur'[u] \in open' => cur'[u] # c /\ cur'[u] # rel[t].c /\ cur'[u] = cur[u]
    <3> SUFFICES ASSUME cur'[u] # 0, cur'[u] \in open'
                 PROVE  cur'[u] # c /\ cur'[u] # rel[t].c /\ cur'[u] = cur[u]
      OBVIOUS
    <3>1. cur'[u] = cur[u] /\ cur[u] \in 0 .. made
      BY WithinKeeps DEF Within
    <3>2. OnlyPlace(cur[u])
      BY <1>1, <3>1
    <3>3. cur'[u] # rel[t].c
      BY <3>1, <3>2 DEF OnlyPlace
    <3>4. cur'[u] # c
      BY DEF NobodyElse
    <3> QED
      BY <3>1, <3>3, <3>4
  <2>2. SameCur(u)
    <3>1. cur'[u] \in {cur[u], 0} /\ owner' = owner /\ cur[u] \in 0 .. made
      BY WithinKeeps DEF Within
    <3> QED
      BY <1>1, <2>1, <3>1 DEF SameCur
  <2> QED
    BY <2>2, WithinKeeps, HasSame DEF Contents
<1>3. ASSUME NEW u \in Tasks, u # t PROVE RelFine(u)' /\ Hand(u)'
  <2>1. rel[u].c \in 0 .. made /\ RelFine(u) /\ Lots /\ driver' = driver
    BY WithinKeeps DEF Contents, Within
  <2>2. InRel(u) => rel[u].c # 0 /\ rel[u].p \in Pools
    BY <2>1, WithinKeeps DEF RelFine
  <2>3. rel[u].c \in open' => rel[u].c \in open /\ rel[u].c # c /\ rel[u].c # rel[t].c
    BY <1>1, <1>3, <2>1 DEF NobodyElse, OnlyPlace
  <2>4. SameRel(u)
    BY <1>3, <2>2, <2>3 DEF SameRel, Within
  <2> QED
    BY <2>1, <2>4, WithinKeeps, HandSame
<1> QED
  BY <1>2, <1>3

\* Pool p alone changes, and is large enough and small enough.
LEMMA SizesBut ==
    ASSUME Sizes, driver' = driver, faults' = faults, pools' = pools, closed' = closed, pool' = pool,
           NEW p \in Pools, \A q \in Pools : q # p => out'[q] = out[q] /\ idle'[q] = idle[q],
           pools \in 0 .. PoolLimit,
           driver = "server" => Size(p)' <= PoolSize, Len(idle'[p]) <= PoolSize,
           driver = "sqlite" /\ Size(p) >= PoolSize /\ p \notin closed => Size(p)' >= PoolSize
    PROVE  Sizes'
<1>1. \A q \in Pools : q # p => Size(q)' = Size(q)
  BY DEF Size
<1>2. \A q \in Pools : Len(idle'[q]) <= PoolSize
  BY DEF Sizes
<1>3. driver' = "server" => \A q \in Pools : Size(q)' <= PoolSize
  BY <1>1 DEF Sizes
<1>4. ASSUME driver' = "sqlite" /\ (faults \cap TakesSlots)' = {}, NEW q \in 1 .. pools' \ closed',
             q \in Pools
      PROVE  Enough(q)'
  <2>1. Enough(q)
    BY <1>4 DEF Sizes
  <2>2. Size(q) >= PoolSize => Size(q)' >= PoolSize
    BY <1>1, <1>4
  <2> QED
    BY <2>1, <2>2 DEF Enough
<1>5. \A q \in 1 .. pools' \ closed' : q \in Pools
  BY DEF Pools
<1> QED
  BY <1>2, <1>3, <1>4, <1>5 DEF Sizes

\* The sizes of pools when connection c is put back.
LEMMA SizesPut ==
    ASSUME Contents, Places, Within, driver \in {"sqlite", "server"}, NEW t \in Tasks, NEW c \in Nat,
           NEW p \in 1 .. pools, NEW then, NEW usable, Put(t, c, p, then, usable),
           driver = "sqlite" \/ usable => c \in open',
           driver = "server" /\ c \in open' => c \in out[p],
           rel[t].c \notin out[p] \/ c \notin out[p] \/ rel[t].c = c
    PROVE  Sizes'
<1> DEFINE without == out[p] \ {rel[t].c, c}
<1>1. p \in Pools /\ Lots /\ Sizes /\ Numbers
  BY WithinKeeps DEF Contents, Places
<1>p. pools \in 0 .. PoolLimit
  BY <1>1 DEF Lots
<1>2. \A q \in Pools : q # p => out'[q] = out[q] /\ idle'[q] = idle[q]
  BY <1>1 DEF Lots, Numbers, Put, Surplus, Dropped, Kept
<1>3. out'[p] = without
  BY <1>1 DEF Lots, Put
<1>4. /\ Cardinality(out[p]) \in Nat /\ Cardinality(without) \in Nat
      /\ Cardinality(without) <= Cardinality(out[p])
      /\ Cardinality(without) >= Cardinality(out[p]) - 1
      /\ c \in out[p] => Cardinality(without) <= Cardinality(out[p]) - 1
  <2>1. IsFiniteSet(out[p])
    BY <1>1, OutFinite
  <2> QED
    BY <2>1, Without
<1>5. Len(idle[p]) \in Nat /\ PoolSize \in Nat /\ idle[p] \in Seq(Nat)
  BY <1>1 DEF Numbers
<1> HIDE DEF without
<1>6. \/ idle' = idle /\ (Full(p) \/ driver = "server")
      \/ /\ idle'[p] = Append(idle[p], c) /\ ~Full(p)
         /\ driver = "server" => c \in out[p]
  <2>1. CASE Surplus(t, c, p, then)
    BY <2>1 DEF Surplus
  <2>2. CASE Dropped(t, then) /\ driver = "server"
    BY <2>2 DEF Dropped
  <2>3. CASE Kept(t, c, p, then) /\ (driver = "server" => usable)
    BY <1>1, <2>3 DEF Kept, Numbers
  <2> QED
    BY <2>1, <2>2, <2>3 DEF Put
<1>7. CASE idle' = idle /\ (Full(p) \/ driver = "server")
  <2>1. Len(idle'[p]) <= PoolSize
    BY <1>1, <1>7 DEF Sizes
  <2>2. driver = "server" => Len(idle'[p]) + Cardinality(out'[p]) <= PoolSize
    BY <1>1, <1>3, <1>4, <1>5, <1>7 DEF Sizes, Size
  <2>3. driver = "sqlite" => Len(idle'[p]) + Cardinality(out'[p]) >= PoolSize
    BY <1>3, <1>4, <1>5, <1>7 DEF Full
  <2> QED
    BY <1>p, <1>1, <1>2, <2>1, <2>2, <2>3, SizesBut DEF Size, Within
<1>8. CASE /\ idle'[p] = Append(idle[p], c) /\ ~Full(p)
           /\ driver = "server" => c \in out[p]
  <2>1. Len(idle'[p]) = Len(idle[p]) + 1
    BY <1>5, <1>8, AppendFacts
  <2>2. driver = "server" => /\ Len(idle'[p]) + Cardinality(out'[p]) <= PoolSize
                             /\ Len(idle'[p]) <= PoolSize
    BY <1>1, <1>3, <1>4, <1>5, <1>8, <2>1 DEF Sizes, Size
  <2>3. driver = "sqlite" => Len(idle'[p]) <= PoolSize
    BY <1>5, <1>8, <2>1 DEF Full
  <2>4. Len(idle'[p]) + Cardinality(out'[p]) >= Len(idle[p]) + Cardinality(out[p])
    BY <1>3, <1>4, <1>5, <2>1
  <2>5. Len(idle[p]) + Cardinality(out[p]) >= PoolSize =>
          Len(idle'[p]) + Cardinality(out'[p]) >= PoolSize
    BY <1>3, <1>4, <1>5, <2>1, <2>4
  <2> QED
    BY <1>p, <1>1, <1>2, <2>2, <2>3, <2>5, SizesBut DEF Size, Within
<1> QED
  BY <1>6, <1>7, <1>8

\* A release puts connection c back.
LEMMA ContentsPut ==
    ASSUME Contents, Places, Typed, Within, driver \in {"sqlite", "server"}, NEW t \in Tasks,
           NEW c \in 1 .. made', NEW p \in 1 .. pools, NEW then \in Thens, NEW usable,
           Put(t, c, p, then, usable), c \in open' => NobodyElse(t, c),
           driver = "sqlite" \/ usable => c \in open',
           driver = "server" /\ c \in open' => c \in out[p],
           ~Queued(c), \A q \in Pools : c \in out[q] => q = p,
           rel[t].c \notin out[p] \/ c \notin out[p] \/ rel[t].c = c
    PROVE  Contents'
<1>1. p \in Pools /\ p \in Nat /\ c \in Nat /\ c # 0 /\ Lots /\ Numbers /\ Apart
  BY WithinKeeps DEF Contents, Places
<1>2. \A q \in Pools : out'[q] = IF q = p THEN out[q] \ {rel[t].c, c} ELSE out[q]
  BY <1>1 DEF Lots, Put
<1>3. \/ /\ pc'[t] = "surplus" /\ rel'[t].c = c /\ rel'[t].p = p /\ rel'[t].then = then
         /\ idle' = idle
      \/ pc'[t] = then /\ rel'[t] = Nothing /\ idle' = idle
      \/ /\ pc'[t] = then /\ rel'[t] = Nothing /\ c \in open'
         /\ idle' = [idle EXCEPT ![p] = Append(@, c)]
  <2> DEFINE r == [c |-> c, p |-> p, then |-> then]
  <2>1. r \in Rels /\ Nothing \in Rels /\ "surplus" \in Points /\ then \in Points
    BY <1>1 DEF Rels, Nothing, Thens, Points, InRelease, Closing
  <2>2. r.c = c /\ r.p = p /\ r.then = then
    OBVIOUS
  <2> HIDE DEF r
  <2>3. CASE Surplus(t, c, p, then)
    <3>1. pc'[t] = "surplus" /\ rel'[t] = r
      BY <2>1, <2>3, OneGoes DEF Surplus, Typed, r
    <3> QED
      BY <2>2, <2>3, <3>1 DEF Surplus
  <2>4. CASE Dropped(t, then)
    BY <2>1, <2>4, OneGoes DEF Dropped, Typed
  <2>5. CASE Kept(t, c, p, then) /\ (driver = "server" => usable)
    BY <2>1, <2>5, OneGoes DEF Kept, Typed
  <2> QED
    BY <2>3, <2>4, <2>5 DEF Put
<1>4. \A u \in Tasks : u # t => pc'[u] = pc[u] /\ rel'[u] = rel[u]
  BY DEF Put, Surplus, Dropped, Kept, Goes, Typed
<1>5. /\ \A u \in Tasks : Has(u)'
      /\ \A u \in Tasks : u # t => RelFine(u)' /\ Hand(u)'
  <2>1. Loses(t, c, p) /\ OthersStay(t)
    BY <1>2, <1>4 DEF Loses, OthersStay
  <2> QED
    BY <2>1, OthersKeep
<1>6. RelFine(t)' /\ Hand(t)'
  <2>1. c \notin out'[p] /\ p \in 1 .. pools'
    BY <1>1, <1>2 DEF Within
  <2>2. then \notin InRelease \cup {"reap"} /\ "surplus" \in InRelease
    BY DEF Thens, InRelease
  <2> QED
    BY <1>3, <2>1, <2>2 DEF RelFine, Hand, InRel, InRelease, Thens
<1>7. \A q \in Pools : out'[q] \subseteq out[q] /\ c \notin out'[q]
  BY <1>2
<1>8. \A u \in Tasks : rel'[u].c \in {rel[u].c, 0, c} /\ (u # t => rel'[u] = rel[u])
  BY <1>3, <1>4 DEF Nothing
<1>9. \A q \in Pools : idle[q] \in Seq(Nat) /\ (q > pools => idle[q] = <<>> /\ q # p)
  BY <1>1 DEF Lots, Numbers
<1>10. Lots'
  <2>1. \A q \in Pools : q > pools => idle'[q] = <<>>
    <3>1. \A q \in Pools : q # p => idle'[q] = idle[q]
      BY <1>1, <1>3 DEF Numbers
    <3> QED
      BY <1>9, <3>1
  <2>2. \A q \in Pools : \A i \in 1 .. Len(idle'[q]) : idle'[q][i] # 0
    <3>1. \A q \in Pools : \A i \in 1 .. Len(idle[q]) : idle[q][i] # 0
      BY <1>1 DEF Lots
    <3>2. CASE idle' = idle
      BY <3>1, <3>2
    <3>3. CASE idle' = [idle EXCEPT ![p] = Append(@, c)]
      <4>1. idle'[p] = Append(idle[p], c) /\ \A q \in Pools : q # p => idle'[q] = idle[q]
        BY <1>1, <3>3 DEF Numbers
      <4>2. \A i \in 1 .. Len(idle'[p]) : idle'[p][i] # 0
        <5>1. /\ Len(idle[p]) \in Nat /\ Len(idle'[p]) = Len(idle[p]) + 1
              /\ \A j \in 1 .. Len(idle[p]) : idle'[p][j] = idle[p][j]
              /\ idle'[p][Len(idle[p]) + 1] = c
          BY <1>1, <1>9, <4>1, AppendFacts
        <5>2. \A i \in 1 .. Len(idle'[p]) : i = Len(idle[p]) + 1 \/ i \in 1 .. Len(idle[p])
          BY <5>1
        <5> QED
          BY <1>1, <3>1, <5>1, <5>2
      <4> QED
        BY <3>1, <4>1, <4>2
    <3> QED
      BY <1>3, <3>2, <3>3
  <2>3. out' \in [Pools -> SUBSET (1 .. made)]
    BY <1>1 DEF Lots, Put
  <2> QED
    BY <1>7, <2>1, <2>2, <2>3, WithinKeeps
<1>11. Apart'
  <2>1. ~Queued(0) /\ owner' = owner /\ \A u \in Tasks : cur'[u] \in {cur[u], 0}
    BY WithinKeeps DEF Within
  <2>2. CASE idle' = idle
    <3>1. \A q \in Pools : \A x \in out'[q] : x \in out[q]
      BY <1>7
    <3>2. \A x : Queued(x)' <=> Queued(x)
      BY <2>2 DEF Queued
    <3>3. \A q \in Pools : \A x \in out'[q] : owner'[x] = q /\ ~Queued(x)'
      BY <1>1, <2>1, <3>1, <3>2 DEF Apart
    <3>4. ASSUME NEW u \in Tasks, NEW x, x = cur'[u] \/ x = rel'[u].c PROVE ~Queued(x)'
      <4>1. x \in {cur[u], rel[u].c, 0, c}
        BY <1>8, <2>1, <3>4
      <4> QED
        BY <1>1, <2>1, <3>2, <4>1 DEF Apart
    <3>5. \A u \in Tasks : (~Queued(cur[u]) /\ ~Queued(rel[u].c))'
      BY <3>4 DEF Queued
    <3>6. (\A q, r \in Pools : \A i \in 1 .. Len(idle[q]), j \in 1 .. Len(idle[r]) :
              idle[q][i] = idle[r][j] => q = r /\ i = j)'
      BY <1>1, <2>2 DEF Apart
    <3> QED
      BY <3>3, <3>5, <3>6 DEF Apart
  <2>3. CASE /\ idle' = [idle EXCEPT ![p] = Append(@, c)]
             /\ c \in open' /\ rel'[t] = Nothing
    <3>1. \A u \in Tasks : cur'[u] # c /\ (u # t => rel[u].c # c)
      BY <2>3 DEF NobodyElse
    <3>2. \A u \in Tasks : rel'[u].c \in {rel[u].c, 0} /\ rel'[u].c # c
      BY <1>1, <1>4, <2>3, <3>1 DEF Nothing
    <3> QED
      BY <1>1, <1>7, <2>1, <2>3, <3>1, <3>2, ApartGrows
  <2> QED
    BY <1>3, <2>2, <2>3
<1>12. Sizes'
  BY <1>1, SizesPut
<1> QED
  BY <1>5, <1>6, <1>10, <1>11, <1>12 DEF Contents

\* A release ends, with its connection closed or given up.
LEMMA ContentsEnd ==
    ASSUME Contents, Places, Typed, Within, NEW t \in Tasks, InRel(t), NEW then \in Thens,
           Goes(t, then, Nothing), idle' = idle,
           out' = out \/ out' = [out EXCEPT ![rel[t].p] = @ \ {rel[t].c}],
           driver = "sqlite" /\ faults \cap TakesSlots = {} =>
              \A p \in 1 .. pools \ closed : Enough(p)'
    PROVE  Contents'
<1>1. /\ Lots /\ Apart /\ Sizes /\ Numbers /\ rel[t].p \in Pools
      /\ rel[t].c \in 1 .. made
  BY WithinKeeps DEF Contents, Places, RelFine
<1>2. /\ pc'[t] = then /\ rel'[t] = Nothing
      /\ \A u \in Tasks : u # t => pc'[u] = pc[u] /\ rel'[u] = rel[u]
  <2>1. Nothing \in Rels /\ then \in Points
    BY DEF Rels, Nothing, Thens, Points, Closing
  <2> QED
    BY <2>1, OneGoes DEF Typed
<1>3. PICK p : \A q \in Pools : out'[q] = IF q = p THEN out[q] \ {rel[t].c, rel[t].c} ELSE out[q]
  <2>1. CASE out' = out
    <3>1. 0 \notin Pools
      BY DEF Pools
    <3>2. \A q \in Pools : out'[q] = IF q = 0 THEN out[q] \ {rel[t].c, rel[t].c} ELSE out[q]
      BY <2>1, <3>1
    <3> QED
      BY <3>2
  <2>2. CASE out' = [out EXCEPT ![rel[t].p] = @ \ {rel[t].c}]
    <3>1. \A q \in Pools : out'[q] = IF q = rel[t].p THEN out[q] \ {rel[t].c, rel[t].c} ELSE out[q]
      BY <1>1, <2>2 DEF Lots
    <3> QED
      BY <3>1
  <2> QED
    BY <2>1, <2>2
<1>4. rel[t].c \in open' => NobodyElse(t, rel[t].c)
  <2> SUFFICES ASSUME rel[t].c \in open' PROVE NobodyElse(t, rel[t].c)
    OBVIOUS
  <2>1. rel[t].c \in open /\ rel[t].c # 0
    BY <1>1, WithinKeeps DEF Within, Grown
  <2>2. OnlyPlace(rel[t].c) /\ \A u \in Tasks : cur'[u] \in {cur[u], 0}
    BY <2>1 DEF Places, OnePlace, Within
  <2> QED
    BY <2>1, <2>2 DEF OnlyPlace, NobodyElse
<1>5. /\ \A u \in Tasks : Has(u)'
      /\ \A u \in Tasks : u # t => RelFine(u)' /\ Hand(u)'
  <2>1. Loses(t, rel[t].c, p) /\ OthersStay(t)
    BY <1>2, <1>3 DEF Loses, OthersStay
  <2> QED
    BY <1>4, <2>1, OthersKeep
<1>6. RelFine(t)' /\ Hand(t)'
  BY <1>2 DEF RelFine, Hand, InRel, InRelease, Thens
<1>7. \A q \in Pools : out'[q] \subseteq out[q]
  BY <1>3
<1>8. Lots'
  <2>1. out' \in [Pools -> SUBSET (1 .. made)]
    BY <1>1 DEF Lots
  <2>2. /\ \A q \in Pools : q > pools => idle'[q] = <<>>
        /\ \A q \in Pools : \A i \in 1 .. Len(idle'[q]) : idle'[q][i] # 0
    BY <1>1 DEF Lots
  <2> QED
    BY <1>7, <2>1, <2>2, WithinKeeps
<1>9. Apart'
  <2>1. ~Queued(0) /\ owner' = owner /\ \A u \in Tasks : cur'[u] \in {cur[u], 0}
    BY WithinKeeps DEF Within
  <2>2. \A u \in Tasks : rel'[u].c \in {rel[u].c, 0}
    BY <1>2 DEF Nothing
  <2>3. \A q \in Pools : \A x \in out'[q] : x \in out[q]
    BY <1>7
  <2> QED
    BY <1>1, <2>1, <2>2, <2>3, SMTT(30) DEF Apart, Queued
<1>10. Sizes'
  <2>1. driver = "server" => \A q \in Pools : Size(q)' <= PoolSize
    <3> SUFFICES ASSUME driver = "server", NEW q \in Pools PROVE Size(q)' <= PoolSize
      OBVIOUS
    <3>1. /\ Cardinality(out[q]) \in Nat /\ Cardinality(out'[q]) \in Nat
          /\ Cardinality(out'[q]) <= Cardinality(out[q]) /\ Len(idle[q]) \in Nat
      <4>1. IsFiniteSet(out[q]) /\ Len(idle[q]) \in Nat
        BY <1>1, OutFinite DEF Numbers
      <4> QED
        BY <1>7, <4>1, FS_Subset, FS_CardinalityType
    <3> QED
      BY <1>1, <3>1 DEF Sizes, Size
  <2> QED
    BY <1>1, <2>1 DEF Sizes, Within
<1> QED
  BY <1>5, <1>6, <1>8, <1>9, <1>10 DEF Contents

-----------------------------------------------------------------------------
(***************************************************************************)
(* Connections that are taken, and pools that are made and drained.        *)
(***************************************************************************)

\* Queues that lose at most their first connection.
QueuesShrink ==
    /\ \E shift \in [Pools -> Nat] : \A q \in Pools : \A i \in 1 .. Len(idle'[q]) :
          i + shift[q] \in 1 .. Len(idle[q]) /\ idle'[q][i] = idle[q][i + shift[q]]
    /\ \A q \in Pools : Len(idle'[q]) \in Nat

\* Queues that lose connections have none with the number 0.
LEMMA ShrunkNonzero ==
    ASSUME QueuesShrink, \A q \in Pools : \A i \in 1 .. Len(idle[q]) : idle[q][i] # 0
    PROVE  \A q \in Pools : \A i \in 1 .. Len(idle'[q]) : idle'[q][i] # 0
<1>1. PICK shift \in [Pools -> Nat] : \A q \in Pools : \A i \in 1 .. Len(idle'[q]) :
        i + shift[q] \in 1 .. Len(idle[q]) /\ idle'[q][i] = idle[q][i + shift[q]]
  BY DEF QueuesShrink
<1> SUFFICES ASSUME NEW q \in Pools, NEW i \in 1 .. Len(idle'[q]) PROVE idle'[q][i] # 0
  OBVIOUS
<1> DEFINE j == i + shift[q]
<1>2. j \in 1 .. Len(idle[q]) /\ idle'[q][i] = idle[q][j]
  BY <1>1
<1> HIDE DEF j
<1> QED
  BY <1>2

\* A queue that loses its first connection: it is in no queue any more.
LEMMA QueueTail ==
    ASSUME Numbers, Apart, NEW p \in Pools, idle[p] # <<>>,
           idle' = [idle EXCEPT ![p] = Tail(@)]
    PROVE  /\ QueuesShrink /\ \A q \in Pools : q # p => idle'[q] = idle[q]
           /\ Len(idle[p]) \in Nat \ {0} /\ Len(idle'[p]) = Len(idle[p]) - 1
           /\ \A x : x = Head(idle[p]) => Queued(x) /\ ~Queued(x)'
<1> DEFINE shift == [q \in Pools |-> IF q = p THEN 1 ELSE 0]
           c == Head(idle[p])
<1>1. shift \in [Pools -> Nat] /\ \A q \in Pools : shift[q] = IF q = p THEN 1 ELSE 0
  OBVIOUS
<1>2. /\ \A q \in Pools : idle[q] \in Seq(Nat)
      /\ \A q \in Pools : q # p => idle'[q] = idle[q]
      /\ idle'[p] = Tail(idle[p])
  BY DEF Numbers
<1>3. /\ Len(idle[p]) \in Nat \ {0} /\ Len(idle'[p]) = Len(idle[p]) - 1
      /\ c = idle[p][1] /\ idle'[p] \in Seq(Nat)
      /\ \A i \in 1 .. Len(idle'[p]) : idle'[p][i] = idle[p][i + 1]
  <2>1. idle[p] \in Seq(Nat) /\ idle'[p] = Tail(idle[p]) /\ idle[p] # <<>>
    BY <1>2
  <2> QED
    BY <2>1, TailFacts
<1>4. 1 \in 1 .. Len(idle[p]) /\ \A i \in 1 .. Len(idle'[p]) : i + 1 \in 1 .. Len(idle[p]) /\ i + 1 # 1
  BY <1>3
<1>5. \A q \in Pools : \A i \in 1 .. Len(idle[q]) : i + 0 = i
  OBVIOUS
<1> HIDE DEF shift, c
<1>6. \A q \in Pools : \A i \in 1 .. Len(idle'[q]) :
         i + shift[q] \in 1 .. Len(idle[q]) /\ idle'[q][i] = idle[q][i + shift[q]]
  <2> SUFFICES ASSUME NEW q \in Pools, NEW i \in 1 .. Len(idle'[q])
               PROVE  i + shift[q] \in 1 .. Len(idle[q]) /\ idle'[q][i] = idle[q][i + shift[q]]
    OBVIOUS
  <2>1. CASE q = p
    BY <1>1, <1>3, <1>4, <2>1
  <2>2. CASE q # p
    BY <1>1, <1>2, <1>5, <2>2
  <2> QED
    BY <2>1, <2>2
<1>7. Queued(c)
  BY <1>3, <1>4 DEF Queued
<1>8. ~(\E q \in Pools : \E i \in 1 .. Len(idle'[q]) : idle'[q][i] = c)
  <2> SUFFICES ASSUME NEW q \in Pools, NEW i \in 1 .. Len(idle'[q]), idle'[q][i] = c PROVE FALSE
    OBVIOUS
  <2> DEFINE j == i + shift[q]
  <2>1. j \in 1 .. Len(idle[q]) /\ idle[q][j] = idle[p][1]
    BY <1>3, <1>6
  <2> HIDE DEF j
  <2>2. q = p /\ j = 1
    BY <1>4, <2>1 DEF Apart
  <2> QED
    BY <1>1, <1>4, <2>2 DEF j
<1>10. \A x : x = c => ~Queued(x)'
  BY <1>8 DEF Queued
<1>11. \A q \in Pools : Len(idle'[q]) \in Nat
  BY <1>2, <1>3
<1> QED
  BY <1>1, <1>2, <1>3, <1>6, <1>7, <1>10, <1>11 DEF c, QueuesShrink

\* Pools, and the tasks' knowledge of them, stay.
PoolsStay ==
    /\ driver' = driver /\ faults' = faults /\ pools' = pools /\ closed' = closed /\ pool' = pool
    /\ got' = got /\ Grown

\* A task takes connection c, which is its own from now on.
LEMMA ContentsTake ==
    ASSUME Contents, Places, Typed, PoolsStay, Sizes', QueuesShrink,
           NEW t \in Tasks, ~InRel(t), Goto(t, "run"), rel' = rel,
           NEW p \in 1 .. pools, \A q \in Pools : q # p => idle'[q] = idle[q],
           NEW c \in 1 .. made', owner' = [owner EXCEPT ![c] = p],
           out' = [out EXCEPT ![p] = @ \cup {c}], cur' = [cur EXCEPT ![t] = c],
           \A x : x = c => ~Queued(x)', \A u \in Tasks : cur[u] # c /\ rel[u].c # c,
           \A q \in Pools : c \notin out[q]
    PROVE  Contents'
<1>1. /\ Lots /\ Apart /\ Numbers /\ \A u \in Tasks : RelFine(u) /\ Has(u) /\ Hand(u)
  BY DEF Contents, Places
<1>2. /\ made \in Nat /\ made' \in Nat /\ made <= made' /\ made' <= ConnLimit
      /\ pools \in 0 .. PoolLimit /\ pools' = pools /\ p \in Pools /\ p # 0
      /\ c \in Conns /\ c # 0
  <2>1. made \in 0 .. ConnLimit /\ pools \in 0 .. PoolLimit
    BY <1>1 DEF Lots
  <2> QED
    BY <2>1 DEF PoolsStay, Grown, Pools, Conns
<1>3. /\ pc'[t] = "run" /\ \A u \in Tasks : u # t => pc'[u] = pc[u]
      /\ cur'[t] = c /\ \A u \in Tasks : u # t => cur'[u] = cur[u]
  BY <1>1 DEF Goto, Typed, Numbers
<1>4. /\ owner'[c] = p /\ \A x \in Conns : x # c => owner'[x] = owner[x]
      /\ owner' \in [Conns -> 0 .. pools]
  BY <1>1, <1>2 DEF Lots
<1>5. \A q \in Pools : out'[q] = IF q = p THEN out[q] \cup {c} ELSE out[q]
  BY <1>1 DEF Lots
<1>6. \A u \in Tasks : cur[u] \in 0 .. made /\ rel[u].c \in 0 .. made
  BY <1>1, SomeNumbers DEF Contents
<1>7. \A x \in 0 .. made : x \in open' => x \in open
  BY DEF PoolsStay, Grown
<1>8. \A x \in 0 .. made : x # 0 => x \in Conns
  BY <1>2 DEF Conns
<1>9. ASSUME NEW u \in Tasks PROVE Has(u)'
  <2>1. CASE u = t
    BY <1>2, <1>3, <1>4, <1>5, <2>1 DEF Has
  <2>2. CASE u # t
    <3>1. SameCur(u)
      BY <1>3, <1>4, <1>5, <1>6, <1>7, <1>8, <2>2 DEF SameCur
    <3> QED
      BY <1>1, <1>6, <3>1, HasSame
  <2> QED
    BY <2>1, <2>2
<1>10. ASSUME NEW u \in Tasks PROVE RelFine(u)' /\ Hand(u)'
  <2>1. CASE u = t
    BY <1>1, <1>3, <2>1 DEF RelFine, Hand, InRel, InRelease
  <2>2. CASE u # t
    <3>1. InRel(u) => rel[u].c \in Conns /\ rel[u].p \in Pools
      BY <1>1, <1>2, <1>6, <1>8 DEF RelFine, Pools
    <3>2. SameRel(u)
      BY <1>3, <1>4, <1>5, <1>6, <1>7, <2>2, <3>1 DEF SameRel, PoolsStay
    <3>3. driver' = driver /\ pools' \in Nat /\ pools <= pools'
      BY <1>2 DEF PoolsStay
    <3> QED
      BY <1>1, <1>2, <3>2, <3>3, HandSame
  <2> QED
    BY <2>1, <2>2
<1>11. Lots'
  <2>1. /\ made' \in 0 .. ConnLimit /\ out' \in [Pools -> SUBSET (1 .. made')]
    <3>1. 1 .. made \subseteq 1 .. made' /\ made' \in 0 .. ConnLimit
      BY <1>2
    <3>2. out \in [Pools -> SUBSET (1 .. made')]
      BY <1>1, <3>1 DEF Lots
    <3> QED
      BY <3>1, <3>2
  <2>2. \A q \in Pools : q > pools => idle'[q] = <<>> /\ out'[q] = {}
    BY <1>1, <1>2, <1>5 DEF Lots
  <2>3. \A q \in Pools : \A i \in 1 .. Len(idle'[q]) : idle'[q][i] # 0
    BY <1>1, ShrunkNonzero DEF Lots
  <2> QED
    BY <1>1, <1>2, <1>4, <2>1, <2>2, <2>3 DEF Lots, PoolsStay
<1>12. Apart'
  <2>1. PICK shift \in [Pools -> Nat] : \A q \in Pools : \A i \in 1 .. Len(idle'[q]) :
          i + shift[q] \in 1 .. Len(idle[q]) /\ idle'[q][i] = idle[q][i + shift[q]]
    BY DEF QueuesShrink
  <2>2. \A q \in Pools : \A x \in out'[q] :
              \/ x \in out[q] /\ owner'[x] = owner[x]
              \/ owner'[x] = q /\ ~Queued(x)'
    <3>1. \A q \in Pools : \A x \in out[q] : x \in Conns /\ x # c
      <4>1. 1 .. made \subseteq Conns
        BY <1>2 DEF Conns
      <4> QED
        BY <1>1, <4>1 DEF Lots
    <3> SUFFICES ASSUME NEW q \in Pools, NEW x \in out'[q]
                 PROVE  \/ x \in out[q] /\ owner'[x] = owner[x]
                        \/ owner'[x] = q /\ ~Queued(x)'
      OBVIOUS
    <3>2. CASE x = c
      <4>1. q = p
        BY <1>5, <3>2
      <4>2. ~Queued(x)'
        BY <3>2
      <4> QED
        BY <1>4, <3>2, <4>1, <4>2
    <3>3. CASE x # c
      <4>1. x \in out[q]
        BY <1>5, <3>3
      <4> QED
        BY <1>4, <3>1, <3>3, <4>1
    <3> QED
      BY <3>2, <3>3
  <2>3. \A u \in Tasks : cur'[u] = cur[u] \/ ~Queued(cur[u])'
    <3>1. ~Queued(cur[t])'
      <4>1. \A x : Queued(x)' <=> \E q \in Pools : \E i \in 1 .. Len(idle'[q]) : idle'[q][i] = x
        BY DEF Queued
      <4>2. Queued(cur[t])' <=> \E q \in Pools : \E i \in 1 .. Len(idle'[q]) : idle'[q][i] = cur'[t]
        BY DEF Queued
      <4> QED
        BY <1>3, <4>1, <4>2
    <3> QED
      BY <1>3, <3>1
  <2>4. \A q \in Pools : Len(idle'[q]) \in Nat
    BY DEF QueuesShrink
  <2> QED
    BY <1>1, <2>1, <2>2, <2>3, <2>4, ApartShrinks
<1> QED
  BY <1>9, <1>10, <1>11, <1>12 DEF Contents

\* One from the queue.
LEMMA ContentsAcquire ==
    ASSUME Contents, Places, Typed, Context, NEW t \in Tasks, Acquire(t)
    PROVE  Contents'
<1> PICK p : p = got[t]
  OBVIOUS
<1> DEFINE c == Head(idle[p])
<1>1. /\ Lots /\ Apart /\ Numbers /\ Sizes
      /\ pools \in 0 .. PoolLimit /\ got[t] \in 0 .. pools
  BY DEF Contents, Places, Lots
<1>2. pc[t] \in {"acquire", "wait"} /\ got[t] # 0 /\ idle[got[t]] # <<>>
  BY DEF Acquire, Context
<1>3. p \in 1 .. pools /\ p \in Pools
  BY <1>1, <1>2 DEF Pools
<1>4. /\ owner' = [owner EXCEPT ![c] = p] /\ out' = [out EXCEPT ![p] = @ \cup {c}]
      /\ cur' = [cur EXCEPT ![t] = c] /\ idle' = [idle EXCEPT ![p] = Tail(@)]
      /\ Goto(t, "run") /\ rel' = rel /\ made' = made /\ open' = open
      /\ idle[p] # <<>>
  BY CurrentIsOwn DEF Acquire, Take
<1>5. PoolsStay
  BY <1>1, <1>4 DEF Acquire, PoolsStay, Grown, setting, Lots
<1>6. /\ QueuesShrink /\ \A q \in Pools : q # p => idle'[q] = idle[q]
      /\ Len(idle[p]) \in Nat \ {0} /\ Len(idle'[p]) = Len(idle[p]) - 1
      /\ \A x : x = Head(idle[p]) => Queued(x) /\ ~Queued(x)'
  BY <1>1, <1>3, <1>4, QueueTail
<1> HIDE DEF c
<1>7. Queued(c) /\ \A x : x = c => ~Queued(x)'
  BY <1>6 DEF c
<1>8. c \in 1 .. made' /\ c \in Nat
  BY <1>1, <1>4, <1>7, SomeNumbers
<1>9. (\A u \in Tasks : cur[u] # c /\ rel[u].c # c) /\ \A q \in Pools : c \notin out[q]
  BY <1>1, <1>7 DEF Apart
<1>10. Sizes'
  <2>1. /\ out'[p] = out[p] \cup {c} /\ c \notin out[p]
        /\ \A q \in Pools : q # p => out'[q] = out[q]
    BY <1>1, <1>3, <1>4, <1>9 DEF Lots
  <2>2. /\ Cardinality(out[p]) \in Nat /\ Cardinality(out'[p]) = Cardinality(out[p]) + 1
    <3>1. IsFiniteSet(out[p]) /\ Cardinality(out[p]) \in Nat
      BY <1>1, <1>3, OutFinite
    <3> QED
      BY <2>1, <3>1, FS_AddElement
  <2>3. Len(idle'[p]) + Cardinality(out'[p]) = Len(idle[p]) + Cardinality(out[p])
    BY <1>6, <2>2
  <2>4. Len(idle[p]) <= PoolSize /\ (driver = "server" => Size(p) <= PoolSize)
    BY <1>1, <1>3 DEF Sizes
  <2>5. Len(idle'[p]) <= PoolSize /\ Size(p)' = Size(p)
    BY <1>6, <2>3, <2>4 DEF Size
  <2> QED
    BY <1>1, <1>3, <1>5, <1>6, <2>1, <2>4, <2>5, SizesBut DEF PoolsStay
<1>11. ~InRel(t)
  BY <1>2 DEF InRel, InRelease
<1> QED
  BY <1>3, <1>4, <1>5, <1>6, <1>7, <1>8, <1>9, <1>10, <1>11, ContentsTake

\* One that is made for it.
LEMMA ContentsAcquireNew ==
    ASSUME Contents, Places, Typed, Context, NEW t \in Tasks, AcquireNew(t)
    PROVE  Contents'
<1> PICK p : p = got[t]
  OBVIOUS
<1> DEFINE c == made + 1
<1>1. /\ Lots /\ Apart /\ Numbers /\ Sizes
      /\ pools \in 0 .. PoolLimit /\ got[t] \in 0 .. pools /\ made \in Nat
  BY DEF Contents, Places, Lots
<1>2. pc[t] \in {"acquire", "wait"} /\ got[t] # 0
  BY DEF AcquireNew, Context
<1>3. p \in 1 .. pools /\ p \in Pools
  BY <1>1, <1>2 DEF Pools
<1>4. /\ owner' = [owner EXCEPT ![c] = p] /\ out' = [out EXCEPT ![p] = @ \cup {c}]
      /\ cur' = [cur EXCEPT ![t] = c] /\ idle' = idle
      /\ Goto(t, "run") /\ rel' = rel /\ made' = made + 1 /\ open' = open \cup {c}
      /\ made < ConnLimit /\ driver = "server"
      /\ idle[p] = <<>> /\ Cardinality(out[p]) < PoolSize
  BY CurrentIsOwn DEF AcquireNew, Take
<1>5. PoolsStay
  <2>1. Grown
    BY <1>1, <1>4 DEF Grown
  <2> QED
    BY <2>1 DEF AcquireNew, PoolsStay, setting
<1> HIDE DEF c
<1>6. QueuesShrink /\ \A q \in Pools : q # p => idle'[q] = idle[q]
  <2> DEFINE shift == [q \in Pools |-> 0]
  <2>1. shift \in [Pools -> Nat] /\ \A q \in Pools : shift[q] = 0
    OBVIOUS
  <2>2. \A q \in Pools : Len(idle[q]) \in Nat /\ \A i \in 1 .. Len(idle[q]) : i + 0 = i
    BY <1>1 DEF Numbers
  <2> HIDE DEF shift
  <2> QED
    BY <1>4, <2>1, <2>2 DEF QueuesShrink
<1>7. c \in Nat /\ c > made /\ c \in 1 .. made'
  BY <1>1, <1>4 DEF c
<1>8. /\ \A x : x = c => ~Queued(x)'
      /\ \A u \in Tasks : cur[u] # c /\ rel[u].c # c
      /\ \A q \in Pools : c \notin out[q]
  <2>1. \A q \in Pools : c \notin out[q]
    BY <1>1, <1>7 DEF Lots
  <2>2. /\ \A u \in Tasks : cur[u] # c /\ rel[u].c # c
        /\ \A q \in Pools : \A i \in 1 .. Len(idle[q]) : idle[q][i] # c
    BY <1>1, <1>7, NotHeld
  <2> QED
    BY <1>4, <2>1, <2>2 DEF Queued
<1>9. Sizes'
  <2>1. /\ out'[p] = out[p] \cup {c} /\ c \notin out[p]
        /\ \A q \in Pools : q # p => out'[q] = out[q]
    BY <1>1, <1>3, <1>4, <1>8 DEF Lots
  <2>2. /\ Cardinality(out[p]) \in Nat /\ Cardinality(out'[p]) = Cardinality(out[p]) + 1
    <3>1. IsFiniteSet(out[p]) /\ Cardinality(out[p]) \in Nat
      BY <1>1, <1>3, OutFinite
    <3> QED
      BY <2>1, <3>1, FS_AddElement
  <2>3. Len(idle'[p]) = 0
    BY <1>4
  <2>4. PoolSize \in Nat /\ Len(idle'[p]) <= PoolSize /\ Size(p)' <= PoolSize
    BY <1>4, <2>2, <2>3 DEF Size
  <2> QED
    BY <1>1, <1>3, <1>4, <1>5, <1>6, <2>1, <2>4, SizesBut DEF PoolsStay
<1>10. ~InRel(t)
  BY <1>2 DEF InRel, InRelease
<1> QED
  BY <1>3, <1>4, <1>5, <1>6, <1>7, <1>8, <1>9, <1>10, ContentsTake

\* A pool is made, with connections nobody has.
LEMMA ContentsCreate ==
    ASSUME Contents, Places, Typed, driver \in {"sqlite", "server"}, NEW t \in Tasks, CreatePool(t)
    PROVE  Contents'
<1>1. /\ Lots /\ Apart /\ Numbers /\ Sizes /\ pools \in 0 .. PoolLimit /\ pools < PoolLimit
      /\ made \in Nat /\ \A u \in Tasks : RelFine(u) /\ Has(u) /\ Hand(u)
      /\ \A u \in Tasks : cur[u] \in 0 .. made /\ rel[u].c \in 0 .. made
  BY SomeNumbers DEF Contents, Places, Lots, CreatePool
<1>2. PICK n \in Nat : n = Initial /\ n <= PoolSize /\ (driver = "sqlite" => n = PoolSize)
  BY DEF Initial
<1>3. PICK p : p = pools + 1
  OBVIOUS
<1>4. p \in Pools /\ p \in Nat /\ p > pools /\ p # 0 /\ idle[p] = <<>> /\ out[p] = {}
      /\ p \notin closed
  <2>1. p \in Pools /\ p \in Nat /\ p > pools /\ p # 0
    BY <1>1, <1>3 DEF Pools
  <2> QED
    BY <1>1, <2>1 DEF Lots
<1> DEFINE new == [i \in 1 .. n |-> made + i]
<1>5. /\ driver' = driver /\ faults' = faults /\ pools' = p /\ pool' = p /\ closed' = closed
      /\ out' = out /\ owner' = owner /\ rel' = rel /\ cur' = cur
      /\ made' = made + n /\ made + n <= ConnLimit /\ open' = open \cup (made + 1 .. made + n)
      /\ idle' = [idle EXCEPT ![p] = new]
      /\ got' = [got EXCEPT ![t] = p] /\ pc[t] = "create" /\ Goto(t, "acquire")
  BY <1>2, <1>3 DEF CreatePool, Fresh, setting, session
<1>6. new \in Seq(Nat) /\ Len(new) = n /\ \A i \in 1 .. n : new[i] = made + i
  BY <1>1
<1> HIDE DEF new
<1>7. /\ idle'[p] = new /\ \A q \in Pools : q # p => idle'[q] = idle[q]
  BY <1>1, <1>4, <1>5 DEF Numbers
<1>8. /\ made' \in Nat /\ made <= made' /\ made' <= ConnLimit
      /\ pools' \in Nat /\ pools <= pools' /\ pools' <= PoolLimit
      /\ \A c \in 0 .. made : c \in open' => c \in open
  BY <1>1, <1>3, <1>4, <1>5
<1>9. ASSUME NEW u \in Tasks PROVE Has(u)'
  <2>1. SameCur(u)
    BY <1>1, <1>5, <1>8 DEF SameCur
  <2> QED
    BY <1>1, <2>1, HasSame
<1>10. ASSUME NEW u \in Tasks PROVE RelFine(u)' /\ Hand(u)'
  <2>1. /\ pc'[t] = "acquire" /\ \A v \in Tasks : v # t => pc'[v] = pc[v]
    BY <1>5 DEF Goto, Typed
  <2>2. CASE u = t
    BY <1>1, <1>5, <2>1, <2>2 DEF RelFine, Hand, InRel, InRelease
  <2>3. CASE u # t
    <3>1. InRel(u) => rel[u].p \in 1 .. pools
      BY <1>1 DEF RelFine
    <3>2. InRel(u) => rel[u].p # p
      BY <1>1, <1>4, <3>1
    <3>3. SameRel(u)
      BY <1>1, <1>5, <1>8, <2>1, <2>3, <3>2 DEF SameRel
    <3> QED
      BY <1>1, <1>5, <1>8, <3>3, HandSame
  <2> QED
    BY <2>2, <2>3
<1>11. \A q \in Pools : \A i \in 1 .. Len(idle'[q]) :
          \/ q = p /\ i \in 1 .. n /\ idle'[q][i] = made + i
          \/ q # p /\ i \in 1 .. Len(idle[q]) /\ idle'[q][i] = idle[q][i]
  BY <1>6, <1>7
<1>12. \A q \in Pools : \A i \in 1 .. Len(idle[q]) : idle[q][i] \in 1 .. made
  BY SomeNumbers DEF Queued, Contents
<1>13. \A x : Queued(x)' => Queued(x) \/ (x \in Nat /\ x > made)
  <2> SUFFICES ASSUME NEW q \in Pools, NEW i \in 1 .. Len(idle'[q]), NEW x, x = idle'[q][i]
               PROVE  Queued(x) \/ (x \in Nat /\ x > made)
    BY DEF Queued
  <2>1. CASE q = p /\ i \in 1 .. n /\ idle'[q][i] = made + i
    BY <1>1, <2>1
  <2>2. CASE q # p /\ i \in 1 .. Len(idle[q]) /\ idle'[q][i] = idle[q][i]
    BY <2>2 DEF Queued
  <2> QED
    BY <1>11, <2>1, <2>2
<1>14. Lots'
  <2>1. made' \in 0 .. ConnLimit /\ pools' \in 0 .. PoolLimit /\ pool' \in 0 .. pools'
    BY <1>3, <1>5, <1>8
  <2>2. /\ 0 .. pools \subseteq 0 .. pools' /\ 1 .. pools \subseteq 1 .. pools'
        /\ 1 .. made \subseteq 1 .. made' /\ p \in 0 .. pools'
    BY <1>1, <1>4, <1>5, <1>8
  <2>3. /\ owner' \in [Conns -> 0 .. pools'] /\ out' \in [Pools -> SUBSET (1 .. made')]
        /\ closed' \subseteq 1 .. pools' /\ got' \in [Tasks -> 0 .. pools']
    <3>1. owner' \in [Conns -> 0 .. pools'] /\ closed' \subseteq 1 .. pools'
      BY <1>1, <1>5, <2>2 DEF Lots
    <3>2. out' \in [Pools -> SUBSET (1 .. made')]
      BY <1>1, <1>5, <2>2 DEF Lots
    <3>3. got' \in [Tasks -> 0 .. pools']
      BY <1>1, <1>5, <2>2 DEF Lots
    <3> QED
      BY <3>1, <3>2, <3>3
  <2>4. \A q \in Pools : q > pools' => idle'[q] = <<>> /\ out'[q] = {}
    <3>1. \A q \in Pools : q > pools' => q > pools /\ q # p
      BY <1>1, <1>3, <1>5 DEF Pools
    <3> QED
      BY <1>1, <1>5, <1>7, <3>1 DEF Lots
  <2>5. \A q \in Pools : \A i \in 1 .. Len(idle'[q]) : idle'[q][i] # 0
    <3> SUFFICES ASSUME NEW q \in Pools, NEW i \in 1 .. Len(idle'[q]) PROVE idle'[q][i] # 0
      OBVIOUS
    <3>1. CASE q = p /\ i \in 1 .. n /\ idle'[q][i] = made + i
      BY <1>1, <3>1
    <3>2. CASE q # p /\ i \in 1 .. Len(idle[q]) /\ idle'[q][i] = idle[q][i]
      BY <1>1, <3>2 DEF Lots
    <3> QED
      BY <1>11, <3>1, <3>2
  <2> QED
    BY <2>1, <2>3, <2>4, <2>5 DEF Lots
<1>15. Apart'
  <2>1. ASSUME NEW q \in Pools, NEW r \in Pools, NEW i \in 1 .. Len(idle'[q]),
               NEW j \in 1 .. Len(idle'[r]), idle'[q][i] = idle'[r][j]
        PROVE  q = r /\ i = j
    <3>1. CASE /\ q = p /\ i \in 1 .. n /\ idle'[q][i] = made + i
               /\ r = p /\ j \in 1 .. n /\ idle'[r][j] = made + j
      <4>1. i \in Nat /\ j \in Nat /\ made + i = made + j /\ q = r
        BY <2>1, <3>1
      <4>2. i = j
        BY <1>1, <4>1
      <4> QED
        BY <4>1, <4>2
    <3>2. CASE /\ q # p /\ i \in 1 .. Len(idle[q]) /\ idle'[q][i] = idle[q][i]
               /\ r # p /\ j \in 1 .. Len(idle[r]) /\ idle'[r][j] = idle[r][j]
      <4>1. i \in 1 .. Len(idle[q]) /\ j \in 1 .. Len(idle[r]) /\ idle[q][i] = idle[r][j]
        <5>1. idle'[q][i] = idle[q][i] /\ idle'[r][j] = idle[r][j]
          BY <3>2
        <5> QED
          BY <2>1, <3>2, <5>1
      <4> QED
        BY <1>1, <4>1 DEF Apart
    <3>3. CASE /\ q = p /\ i \in 1 .. n /\ idle'[q][i] = made + i
               /\ r # p /\ j \in 1 .. Len(idle[r]) /\ idle'[r][j] = idle[r][j]
      <4>1. idle[r][j] \in 1 .. made
        BY <1>12, <3>3
      <4>2. i \in Nat /\ i >= 1 /\ idle[r][j] = made + i
        BY <1>2, <2>1, <3>3
      <4> QED
        BY <1>1, <4>1, <4>2
    <3>4. CASE /\ q # p /\ i \in 1 .. Len(idle[q]) /\ idle'[q][i] = idle[q][i]
               /\ r = p /\ j \in 1 .. n /\ idle'[r][j] = made + j
      <4>1. idle[q][i] \in 1 .. made
        BY <1>12, <3>4
      <4>2. j \in Nat /\ j >= 1 /\ idle[q][i] = made + j
        <5>1. idle'[q][i] = idle[q][i] /\ idle'[r][j] = made + j
          BY <3>4
        <5>2. idle[q][i] = made + j
          BY <2>1, <5>1
        <5> QED
          BY <1>2, <3>4, <5>2
      <4> QED
        BY <1>1, <4>1, <4>2
    <3> QED
      BY <1>11, <3>1, <3>2, <3>3, <3>4
  <2>2. ASSUME NEW q \in Pools, NEW x \in out'[q] PROVE owner'[x] = q /\ ~Queued(x)'
    <3>1. x \in out[q] /\ x \in 1 .. made
      BY <1>1, <1>5, <2>2 DEF Lots
    <3>2. ~(x \in Nat /\ x > made)
      BY <1>1, <3>1
    <3> QED
      BY <1>1, <1>5, <1>13, <3>1, <3>2 DEF Apart
  <2>3. ASSUME NEW u \in Tasks PROVE (~Queued(cur[u]) /\ ~Queued(rel[u].c))'
    <3>1. ~(cur[u] > made) /\ ~(rel[u].c > made)
      BY <1>1
    <3>2. ~Queued(cur[u]) /\ ~Queued(rel[u].c)
      BY <1>1 DEF Apart
    <3>3. (Queued(cur[u])' => Queued(cur[u]) \/ (cur[u] \in Nat /\ cur[u] > made))
      <4>1. Queued(cur[u])' => \E q \in Pools : \E i \in 1 .. Len(idle'[q]) : idle'[q][i] = cur[u]
        BY <1>5 DEF Queued
      <4> QED
        BY <1>13, <4>1 DEF Queued
    <3>4. (Queued(rel[u].c)' => Queued(rel[u].c) \/ (rel[u].c \in Nat /\ rel[u].c > made))
      <4>1. Queued(rel[u].c)' => \E q \in Pools : \E i \in 1 .. Len(idle'[q]) : idle'[q][i] = rel[u].c
        BY <1>5 DEF Queued
      <4> QED
        BY <1>13, <4>1 DEF Queued
    <3> QED
      BY <3>1, <3>2, <3>3, <3>4
  <2> QED
    BY <2>1, <2>2, <2>3 DEF Apart
<1>16. Sizes'
  <2>1. \A q \in Pools : q # p => Size(q)' = Size(q)
    BY <1>5, <1>7 DEF Size
  <2>2. Size(p)' = n /\ Len(idle'[p]) = n
    <3>1. Cardinality(out'[p]) = 0
      BY <1>4, <1>5, FS_EmptySet
    <3>2. Len(idle'[p]) = n
      BY <1>6, <1>7
    <3>3. Size(p)' = Len(idle'[p]) + Cardinality(out'[p])
      BY DEF Size
    <3>4. n + 0 = n
      OBVIOUS
    <3> QED
      BY <3>1, <3>2, <3>3, <3>4
  <2>3. \A q \in Pools : Len(idle'[q]) <= PoolSize
    BY <1>1, <1>2, <1>7, <2>2 DEF Sizes
  <2>4. driver' = "server" => \A q \in Pools : Size(q)' <= PoolSize
    BY <1>1, <1>2, <1>5, <2>1, <2>2 DEF Sizes
  <2>5. ASSUME driver' = "sqlite" /\ (faults \cap TakesSlots)' = {}, NEW q \in 1 .. pools' \ closed'
        PROVE  Enough(q)'
    <3>1. q \in Pools
      BY <1>1, <1>3, <1>5 DEF Pools
    <3>2. CASE q = p
      BY <1>2, <1>5, <2>2, <2>5, <3>2 DEF Enough
    <3>3. CASE q # p
      <4>1. q \in 1 .. pools \ closed
        BY <1>1, <1>3, <1>5, <2>5, <3>3
      <4>2. Enough(q)
        BY <1>1, <1>5, <2>5, <4>1 DEF Sizes
      <4> QED
        BY <1>5, <2>1, <3>1, <3>3, <4>2 DEF Enough
    <3> QED
      BY <3>2, <3>3
  <2> QED
    BY <2>3, <2>4, <2>5 DEF Sizes
<1> QED
  BY <1>9, <1>10, <1>14, <1>15, <1>16 DEF Contents

\* close_pool() closes an idle connection of a pool that is closed.
LEMMA ContentsDrain ==
    ASSUME Contents, Places, Typed, Context, NEW t \in Tasks, Drain(t), got[t] \in closed
    PROVE  Contents'
<1> PICK p : p = got[t]
  OBVIOUS
<1>1. /\ Lots /\ Apart /\ Numbers /\ Sizes /\ pools \in 0 .. PoolLimit /\ p \in Pools
      /\ made \in Nat /\ \A u \in Tasks : RelFine(u) /\ Has(u) /\ Hand(u)
      /\ \A u \in Tasks : cur[u] \in 0 .. made /\ rel[u].c \in 0 .. made /\ p \in closed
  BY SomeNumbers DEF Contents, Places, Lots
<1>2. /\ idle[p] # <<>> /\ idle' = [idle EXCEPT ![p] = Tail(@)] /\ open' \subseteq open
      /\ made' = made /\ owner' = owner /\ out' = out /\ rel' = rel /\ cur' = cur /\ pc' = pc
  BY DEF Drain, session
<1>3. PoolsStay
  BY <1>1, <1>2 DEF Drain, PoolsStay, Grown, setting, Lots
<1>4. /\ QueuesShrink /\ \A q \in Pools : q # p => idle'[q] = idle[q]
      /\ Len(idle[p]) \in Nat \ {0} /\ Len(idle'[p]) = Len(idle[p]) - 1
  BY <1>1, <1>2, QueueTail
<1>5. ASSUME NEW u \in Tasks PROVE Has(u)'
  <2>1. SameCur(u)
    BY <1>2 DEF SameCur
  <2> QED
    BY <1>1, <2>1, HasSame
<1>6. ASSUME NEW u \in Tasks PROVE RelFine(u)' /\ Hand(u)'
  <2>1. SameRel(u)
    BY <1>2, <1>3 DEF SameRel, PoolsStay
  <2>2. driver' = driver /\ made' \in Nat /\ made <= made' /\ pools' \in Nat /\ pools <= pools'
    BY <1>1, <1>2, <1>3 DEF PoolsStay
  <2> QED
    BY <1>1, <2>1, <2>2, HandSame
<1>7. Lots'
  <2>1. \A q \in Pools : q > pools => idle'[q] = <<>>
    <3>1. ~(p > pools)
      BY <1>1, <1>2 DEF Lots
    <3> QED
      BY <1>1, <1>4, <3>1 DEF Lots
  <2>2. \A q \in Pools : \A i \in 1 .. Len(idle'[q]) : idle'[q][i] # 0
    BY <1>1, <1>4, ShrunkNonzero DEF Lots
  <2> QED
    BY <1>1, <1>2, <1>3, <2>1, <2>2 DEF Lots, PoolsStay
<1>8. Apart'
  <2>1. PICK shift \in [Pools -> Nat] : \A q \in Pools : \A i \in 1 .. Len(idle'[q]) :
          i + shift[q] \in 1 .. Len(idle[q]) /\ idle'[q][i] = idle[q][i + shift[q]]
    BY <1>4 DEF QueuesShrink
  <2>2. \A q \in Pools : Len(idle'[q]) \in Nat
    BY <1>4 DEF QueuesShrink
  <2>3. \A q \in Pools : \A x \in out'[q] : x \in out[q] /\ owner'[x] = owner[x]
    BY <1>2
  <2>4. \A u \in Tasks : cur'[u] = cur[u] /\ rel'[u] = rel[u]
    BY <1>2
  <2> QED
    BY <1>1, <2>1, <2>2, <2>3, <2>4, ApartShrinks
<1>9. Sizes'
  <2>1. Len(idle[p]) <= PoolSize /\ (driver = "server" => Size(p) <= PoolSize)
    BY <1>1 DEF Sizes
  <2>2. Cardinality(out[p]) \in Nat /\ PoolSize \in Nat
    BY <1>1, OutFinite
  <2>3. Len(idle'[p]) <= PoolSize
    BY <1>4, <2>1, <2>2
  <2>4. driver = "server" => Size(p)' <= PoolSize
    BY <1>2, <1>4, <2>1, <2>2 DEF Size
  <2> QED
    BY <1>1, <1>2, <1>3, <1>4, <2>3, <2>4, SizesBut DEF PoolsStay
<1> QED
  BY <1>5, <1>6, <1>7, <1>8, <1>9 DEF Contents

-----------------------------------------------------------------------------
(***************************************************************************)
(* Types.                                                                  *)
(***************************************************************************)

\* Connections are numbered in the order in which they are made, and none comes back.
LEMMA AlwaysGrown ==
    ASSUME Places, Lots, Next
    PROVE  Grown
<1> USE DEF setting, registry, session, closer, poolVars, conns
<1>a. made \in 0 .. ConnLimit /\ made \in Nat
  BY DEF Lots
<1>b. made' = made /\ open' \subseteq open => Grown
  BY <1>a DEF Grown
<1>c. ASSUME NEW n \in Nat, made' = made + n, made + n <= ConnLimit, open' = open \cup Fresh(n)
      PROVE  Grown
  BY <1>a, <1>c DEF Grown, Fresh
<1>1. ASSUME NEW t \in Tasks, Rollback(t) PROVE Grown
  BY <1>b, <1>1 DEF Rollback
<1>2. ASSUME NEW t \in Tasks, RollbackFails(t) PROVE Grown
  BY <1>b, <1>2 DEF RollbackFails
<1>3. ASSUME NEW t \in Tasks, Discard(t) PROVE Grown
  BY <1>b, <1>3 DEF Discard
<1>4. ASSUME NEW t \in Tasks, Recreate(t) PROVE Grown
  <2>1. made' = made + 1 /\ made + 1 <= ConnLimit /\ open' = open \cup {made + 1}
    BY <1>a, <1>4 DEF Recreate
  <2> QED
    BY <1>a, <2>1 DEF Grown
<1>5. ASSUME NEW t \in Tasks, RecreateFails(t) PROVE Grown
  BY <1>b, <1>5 DEF RecreateFails
<1>6. ASSUME NEW t \in Tasks, CloseConn(t) PROVE Grown
  BY <1>b, <1>6 DEF CloseConn
<1>7. ASSUME NEW t \in Tasks, EnsurePool(t) PROVE Grown
  BY <1>b, <1>7 DEF EnsurePool
<1>8. ASSUME NEW t \in Tasks, CreatePool(t) PROVE Grown
  <2>1. Initial \in Nat /\ made' = made + Initial /\ made + Initial <= ConnLimit
        /\ open' = open \cup Fresh(Initial)
    BY <1>8 DEF CreatePool, Initial
  <2> QED
    BY <1>c, <2>1
<1>9. ASSUME NEW t \in Tasks, CreateFails(t) PROVE Grown
  <2>1. PICK n \in 0 .. Initial : /\ made' = made + n /\ made + n <= ConnLimit
                                 /\ open' = open \cup Fresh(n)
    BY <1>9 DEF CreateFails
  <2>2. n \in Nat
    BY DEF Initial
  <2> QED
    BY <1>c, <2>1, <2>2
<1>10. ASSUME NEW t \in Tasks, Acquire(t) PROVE Grown
  BY <1>b, <1>10 DEF Acquire
<1>11. ASSUME NEW t \in Tasks, AcquireNew(t) PROVE Grown
  <2>1. made' = made + 1 /\ made + 1 <= ConnLimit /\ open' = open \cup {made + 1}
    BY <1>a, <1>11 DEF AcquireNew
  <2> QED
    BY <1>a, <2>1 DEF Grown
<1>12. ASSUME NEW t \in Tasks, AcquireWait(t) PROVE Grown
  BY <1>b, <1>12 DEF AcquireWait
<1>13. ASSUME NEW t \in Tasks, AcquireFails(t) PROVE Grown
  BY <1>b, <1>13 DEF AcquireFails
<1>14. ASSUME NEW t \in Tasks, TaskDone(t) PROVE Grown
  BY <1>b, <1>14 DEF TaskDone
<1>15. ASSUME NEW t \in Tasks, Reap(t) PROVE Grown
  BY <1>b, <1>15 DEF Reap
<1>16. ASSUME NEW t \in Tasks, WaitReleases(t) PROVE Grown
  BY <1>b, <1>16 DEF WaitReleases
<1>17. ASSUME NEW t \in Tasks, Reclaim(t) PROVE Grown
  BY <1>b, <1>17 DEF Reclaim
<1>18. ASSUME NEW t \in Tasks, Reclaimed(t) PROVE Grown
  BY <1>b, <1>18 DEF Reclaimed
<1>19. ASSUME NEW t \in Tasks, Drain(t) PROVE Grown
  BY <1>b, <1>19 DEF Drain
<1>20. ASSUME NEW t \in Tasks, PoolClosed(t) PROVE Grown
  BY <1>b, <1>20 DEF PoolClosed
<1>21. ASSUME NEW t \in Tasks, Connect(t) PROVE Grown
  BY <1>b, <1>21 DEF Connect
<1>22. ASSUME NEW t \in Tasks, AClose(t) PROVE Grown
  BY <1>b, <1>22 DEF AClose
<1>23. ASSUME NEW t \in Tasks, Begin(t) PROVE Grown
  BY <1>b, <1>23 DEF Begin
<1>24. ASSUME NEW t \in Tasks, End(t) PROVE Grown
  BY <1>b, <1>24 DEF End
<1>25. ASSUME NEW t \in Tasks, LeftOpen(t) PROVE Grown
  BY <1>b, <1>25 DEF LeftOpen
<1>26. ASSUME NEW t \in Tasks, Finish(t) PROVE Grown
  BY <1>b, <1>26 DEF Finish
<1>27. ASSUME NEW t \in Tasks, ClosePool(t) PROVE Grown
  BY <1>b, <1>27 DEF ClosePool
<1>28. ASSUME NEW t \in Tasks, NEW v \in Tasks, Spawn(t, v) PROVE Grown
  BY <1>b, <1>28 DEF Spawn
<1>29. ASSUME NEW t \in Tasks, CancelClose(t) PROVE Grown
  BY <1>b, <1>29 DEF CancelClose
<1>30. ASSUME NEW t \in Tasks, CancelRelease(t) PROVE Grown
  BY <1>b, <1>30 DEF CancelRelease, CutShort
<1>34. ASSUME NEW t \in Tasks, CancelGather(t) PROVE Grown
  BY <1>b, <1>34 DEF CancelGather
<1>35. ASSUME NEW t \in Tasks, CutRelease(t) PROVE Grown
  BY <1>b, <1>35 DEF CutRelease, CutShort
<1>31. ASSUME NEW c \in Conns, Drop(c) PROVE Grown
  BY <1>b, <1>31 DEF Drop
<1>32. ASSUME NEW t \in Tasks, Step(t) PROVE Grown
  BY <1>1, <1>2, <1>3, <1>4, <1>5, <1>6, <1>7, <1>8, <1>9, <1>10, <1>11, <1>12, <1>13,
     <1>14, <1>15, <1>16, <1>17, <1>18, <1>19, <1>20, <1>32 DEF Step
<1>33. ASSUME NEW t \in Tasks, Call(t) PROVE Grown
  BY <1>21, <1>22, <1>23, <1>24, <1>25, <1>26, <1>27, <1>28, <1>33 DEF Call
<1> QED
  BY <1>29, <1>30, <1>31, <1>32, <1>33, <1>34, <1>35 DEF Next

\* What a release does to the places of tasks.
LEMMA TypedPut ==
    ASSUME Typed, NEW t \in Tasks, NEW c \in Nat, NEW p \in Nat, NEW then \in Thens, NEW usable,
           PutBack(t, c, p, then, usable)
    PROVE  pc' \in [Tasks -> Points] /\ rel' \in [Tasks -> Rels] /\ tracked' \subseteq Tasks
<1>1. driver \in {"sqlite", "server"}
  BY DEF Typed
<1> DEFINE r == [c |-> c, p |-> p, then |-> then]
<1>2. r \in Rels /\ Nothing \in Rels /\ "surplus" \in Points /\ then \in Points
  BY DEF Rels, Nothing, Thens, Points, InRelease, Closing
<1> HIDE DEF r
<1>3. Goes(t, "surplus", r) \/ Goes(t, then, Nothing)
  BY <1>1, PutBackPuts DEF Put, Surplus, Dropped, Kept, r
<1>4. pc' \in [Tasks -> Points] /\ rel' \in [Tasks -> Rels]
  BY <1>2, <1>3 DEF Goes, Typed
<1>5. tracked' \subseteq tracked
  BY DEF PutBack, After
<1> QED
  BY <1>4, <1>5 DEF Typed

\* A release that begins leaves tasks at points and releases what they are.
LEMMA TypedRelease ==
    ASSUME Typed, NEW t \in Tasks, NEW c \in Nat, owner[c] \in Nat, NEW then \in Thens,
           Release(t, c, then)
    PROVE  pc' \in [Tasks -> Points] /\ rel' \in [Tasks -> Rels] /\ tracked' \subseteq Tasks
<1>1. CASE Stage(c, owner[c]) = "put"
  BY <1>1, TypedPut DEF Release
<1>2. CASE Stage(c, owner[c]) # "put"
  <2> DEFINE r == [c |-> c, p |-> owner[c], then |-> then]
             x == Stage(c, owner[c])
  <2>1. r \in Rels
    BY DEF Rels
  <2>2. x \in Points
    BY <1>2 DEF Stage, Points, InRelease
  <2>3. pc' = [pc EXCEPT ![t] = x] /\ rel' = [rel EXCEPT ![t] = r] /\ tracked' = tracked
    BY <1>2 DEF Release, Goto
  <2> HIDE DEF r, x
  <2> QED
    BY <2>1, <2>2, <2>3 DEF Typed
<1> QED
  BY <1>1, <1>2

\* Every step keeps the types of what tells where tasks are.
LEMMA TypedNext ==
    ASSUME Typed, Places, Lots, Context, \A t \in Tasks : Has(t) /\ RelFine(t), Next
    PROVE  Typed'
<1> USE DEF setting, registry, session, closer, poolVars, conns
<1>a. /\ \A t \in Tasks : cur[t] \in Nat /\ (cur[t] # 0 => owner[cur[t]] \in Nat)
      /\ \A t \in Tasks : InRel(t) => rel[t].c \in Nat /\ rel[t].p \in Nat /\ owner[rel[t].c] \in Nat
      /\ made + 1 \in Nat
      /\ \A t \in Tasks : rel[t].then \in Thens
  <2>1. 1 .. made \subseteq Conns /\ made \in Nat /\ \A c \in Conns : owner[c] \in Nat
    BY DEF Lots, Conns
  <2>2. \A t \in Tasks : cur[t] \in 0 .. made /\ (cur[t] # 0 => cur[t] \in 1 .. made)
    BY SomeNumbers
  <2>3. \A t \in Tasks : InRel(t) => rel[t].c \in 1 .. made /\ rel[t].p \in Nat
    BY DEF RelFine
  <2> QED
    BY <2>1, <2>2, <2>3 DEF Context
<1>b. /\ Nothing \in Rels /\ Thens \subseteq Points /\ InRelease \subseteq Points
      /\ Closing \subseteq Points
  BY DEF Rels, Nothing, Thens, Points, Closing
\* A task that moves.
<1>c. ASSUME NEW t \in Tasks, NEW x, Goto(t, x), x \in Points PROVE pc' \in [Tasks -> Points]
  BY <1>c DEF Goto, Typed
<1>1. ASSUME NEW t \in Tasks, Rollback(t) PROVE Typed'
  <2>1. PutBack(t, rel[t].c, rel[t].p, rel[t].then, TRUE) /\ InRel(t)
    BY <1>1 DEF Rollback, InRel, InRelease
  <2>2. pc' \in [Tasks -> Points] /\ rel' \in [Tasks -> Rels] /\ tracked' \subseteq Tasks
    BY <1>a, <2>1, TypedPut
  <2> QED
    BY <1>1, <2>2 DEF Typed, Rollback
<1>2. ASSUME NEW t \in Tasks, RollbackFails(t) PROVE Typed'
  <2>1. InRel(t)
    BY <1>2 DEF RollbackFails, InRel, InRelease
  <2>2. pc' \in [Tasks -> Points] /\ rel' \in [Tasks -> Rels] /\ tracked' \subseteq Tasks
    <3>1. CASE driver = "sqlite"
      <4>1. Goto(t, "discard") /\ rel' = rel /\ tracked' = tracked
        BY <1>2, <3>1 DEF RollbackFails
      <4> QED
        BY <1>c, <4>1 DEF Points, InRelease, Typed
    <3>2. CASE driver # "sqlite"
      <4>1. PutBack(t, rel[t].c, rel[t].p, rel[t].then, FALSE)
        BY <1>2, <3>2 DEF RollbackFails
      <4> QED
        BY <1>a, <2>1, <4>1, TypedPut
    <3> QED
      BY <3>1, <3>2
  <2> QED
    BY <1>2, <2>2 DEF Typed, RollbackFails
<1>3. ASSUME NEW t \in Tasks, Discard(t) PROVE Typed'
  <2>1. pc' \in [Tasks -> Points]
    BY <1>c, <1>3 DEF Discard, Points, InRelease, Closing
  <2> QED
    BY <1>3, <2>1, CurrentIsOwn DEF Typed, Discard
<1>4. ASSUME NEW t \in Tasks, Recreate(t) PROVE Typed'
  <2>1. PutBack(t, made + 1, rel[t].p, rel[t].then, TRUE) /\ InRel(t)
    BY <1>4 DEF Recreate, InRel, InRelease
  <2>2. pc' \in [Tasks -> Points] /\ rel' \in [Tasks -> Rels] /\ tracked' \subseteq Tasks
    BY <1>a, <2>1, TypedPut
  <2> QED
    BY <1>4, <2>2 DEF Typed, Recreate
<1>5. ASSUME NEW t \in Tasks, RecreateFails(t) PROVE Typed'
  <2>1. /\ Goto(t, rel[t].then) /\ rel' = [rel EXCEPT ![t] = Nothing]
        /\ tracked' \subseteq tracked
    BY <1>5 DEF RecreateFails, After
  <2>2. pc' \in [Tasks -> Points] /\ rel' \in [Tasks -> Rels] /\ tracked' \subseteq Tasks
    BY <1>a, <1>b, <1>c, <2>1 DEF Typed, Points
  <2> QED
    BY <1>5, <2>2 DEF Typed, RecreateFails
<1>6. ASSUME NEW t \in Tasks, CloseConn(t) PROVE Typed'
  <2>1. /\ Goto(t, rel[t].then) /\ rel' = [rel EXCEPT ![t] = Nothing]
        /\ tracked' \subseteq tracked
    BY <1>6 DEF CloseConn, After
  <2>2. pc' \in [Tasks -> Points] /\ rel' \in [Tasks -> Rels] /\ tracked' \subseteq Tasks
    BY <1>a, <1>b, <1>c, <2>1 DEF Typed, Points
  <2> QED
    BY <1>6, <2>2 DEF Typed, CloseConn
<1>7. ASSUME NEW t \in Tasks, EnsurePool(t) PROVE Typed'
  <2>1. pc' \in [Tasks -> Points] /\ poolLock' \in Tasks \cup {None}
    BY <1>c, <1>7 DEF EnsurePool, Points, Typed
  <2> QED
    BY <1>7, <2>1 DEF Typed, EnsurePool
<1>8. ASSUME NEW t \in Tasks, CreatePool(t) PROVE Typed'
  <2>1. pc' \in [Tasks -> Points]
    BY <1>c, <1>8 DEF CreatePool, Points, InRelease, Closing
  <2> QED
    BY <1>8, <2>1, CurrentIsOwn DEF Typed, CreatePool
<1>9. ASSUME NEW t \in Tasks, CreateFails(t) PROVE Typed'
  <2>1. pc' \in [Tasks -> Points]
    BY <1>c, <1>9 DEF CreateFails, Points, InRelease, Closing
  <2> QED
    BY <1>9, <2>1, CurrentIsOwn DEF Typed, CreateFails
<1>10. ASSUME NEW t \in Tasks, Acquire(t) PROVE Typed'
  <2>1. pc' \in [Tasks -> Points]
    BY <1>c, <1>10 DEF Acquire, Points, InRelease, Closing, Take
  <2> QED
    BY <1>10, <2>1, CurrentIsOwn DEF Typed, Acquire, Take
<1>11. ASSUME NEW t \in Tasks, AcquireNew(t) PROVE Typed'
  <2>1. pc' \in [Tasks -> Points]
    BY <1>c, <1>11 DEF AcquireNew, Points, InRelease, Closing, Take
  <2> QED
    BY <1>11, <2>1, CurrentIsOwn DEF Typed, AcquireNew, Take
<1>12. ASSUME NEW t \in Tasks, AcquireWait(t) PROVE Typed'
  <2>1. pc' \in [Tasks -> Points]
    BY <1>c, <1>12 DEF AcquireWait, Points, InRelease, Closing
  <2> QED
    BY <1>12, <2>1, CurrentIsOwn DEF Typed, AcquireWait
<1>13. ASSUME NEW t \in Tasks, AcquireFails(t) PROVE Typed'
  <2>1. pc' \in [Tasks -> Points]
    BY <1>c, <1>13 DEF AcquireFails, Points, InRelease, Closing
  <2> QED
    BY <1>13, <2>1, CurrentIsOwn DEF Typed, AcquireFails
<1>14. ASSUME NEW t \in Tasks, TaskDone(t) PROVE Typed'
  <2>1. pc' \in [Tasks -> Points] /\ rel' \in [Tasks -> Rels] /\ tracked' \subseteq Tasks
        /\ txn' \in [Tasks -> BOOLEAN]
    <3>1. CASE t \in hooked \cap states /\ cur[t] # 0
      <4> DEFINE r == [c |-> cur[t], p |-> owner[cur[t]], then |-> "gone"]
      <4>1. /\ Goto(t, "reap") /\ rel' = [rel EXCEPT ![t] = r] /\ tracked' = tracked \cup {t}
            /\ txn' = [txn EXCEPT ![t] = FALSE]
        BY <1>14, <3>1 DEF TaskDone
      <4>2. r \in Rels
        BY <1>a, <3>1 DEF Rels, Thens
      <4> HIDE DEF r
      <4> QED
        BY <1>c, <4>1, <4>2 DEF Typed, Points
    <3>2. CASE ~(t \in hooked \cap states /\ cur[t] # 0)
      <4>1. Goto(t, "gone") /\ rel' = rel /\ tracked' = tracked /\ txn' = txn
        BY <1>14, <3>2 DEF TaskDone
      <4> QED
        BY <1>c, <4>1 DEF Typed, Points
    <3> QED
      BY <3>1, <3>2
  <2> QED
    BY <1>14, <2>1 DEF Typed, TaskDone
<1>15. ASSUME NEW t \in Tasks, Reap(t) PROVE Typed'
  <2>1. Release(t, rel[t].c, "gone") /\ InRel(t) /\ "gone" \in Thens
    BY <1>15 DEF Reap, InRel, Thens
  <2>2. pc' \in [Tasks -> Points] /\ rel' \in [Tasks -> Rels] /\ tracked' \subseteq Tasks
    BY <1>a, <2>1, TypedRelease
  <2> QED
    BY <1>15, <2>2 DEF Typed, Reap
<1>16. ASSUME NEW t \in Tasks, WaitReleases(t) PROVE Typed'
  <2>1. pc' \in [Tasks -> Points]
    BY <1>c, <1>16 DEF WaitReleases, Points, Closing, Typed
  <2>2. todo' \in [Tasks -> SUBSET Tasks] /\ awaited' \in [Tasks -> SUBSET Tasks]
    BY <1>16 DEF WaitReleases, Typed
  <2> QED
    BY <1>16, <2>1, <2>2 DEF Typed, WaitReleases
<1>17. ASSUME NEW t \in Tasks, Reclaim(t) PROVE Typed'
  <2>1. PICK u \in todo[t] \cap states :
          /\ cur[u] # 0 /\ todo' = [todo EXCEPT ![t] = @ \ {u}] /\ states' = states \ {u}
          /\ txn' = [txn EXCEPT ![u] = FALSE] /\ Release(t, cur[u], "reclaim")
    BY <1>17 DEF Reclaim
  <2>2. u \in Tasks /\ "reclaim" \in Thens
    BY DEF Typed, Thens
  <2>3. pc' \in [Tasks -> Points] /\ rel' \in [Tasks -> Rels] /\ tracked' \subseteq Tasks
    BY <1>a, <2>1, <2>2, TypedRelease
  <2> QED
    BY <1>17, <2>1, <2>3 DEF Typed, Reclaim
<1>18. ASSUME NEW t \in Tasks, Reclaimed(t) PROVE Typed'
  <2>1. pc' \in [Tasks -> Points]
    BY <1>c, <1>18 DEF Reclaimed, Points, InRelease, Closing
  <2> QED
    BY <1>18, <2>1, CurrentIsOwn DEF Typed, Reclaimed
<1>19. ASSUME NEW t \in Tasks, Drain(t) PROVE Typed'
  BY <1>19, CurrentIsOwn DEF Typed, Drain
<1>20. ASSUME NEW t \in Tasks, PoolClosed(t) PROVE Typed'
  <2>1. pc' \in [Tasks -> Points]
    BY <1>c, <1>20 DEF PoolClosed, Points, InRelease, Closing
  <2> QED
    BY <1>20, <2>1, CurrentIsOwn DEF Typed, PoolClosed
<1>21. ASSUME NEW t \in Tasks, Connect(t) PROVE Typed'
  <2>1. pc' \in [Tasks -> Points] /\ rel' \in [Tasks -> Rels] /\ tracked' \subseteq Tasks
    <3>1. CASE cur[t] # 0
      <4>1. Release(t, cur[t], "ensure") /\ "ensure" \in Thens
        BY <1>21, <3>1, CurrentIsOwn DEF Connect, Thens
      <4> QED
        BY <1>a, <3>1, <4>1, TypedRelease
    <3>2. CASE cur[t] = 0
      <4>1. Goto(t, "ensure") /\ rel' = rel /\ tracked' = tracked
        BY <1>21, <3>2, CurrentIsOwn DEF Connect
      <4> QED
        BY <1>c, <4>1 DEF Typed, Points
    <3> QED
      BY <3>1, <3>2
  <2>2. /\ states' \subseteq Tasks /\ hooked' \subseteq Tasks
        /\ cv' \in [Tasks -> Tasks \cup {None}]
    BY <1>21, CurrentIsOwn DEF Connect, Register, Typed
  <2>3. visits' \in [Tasks -> 0 .. Visits]
    BY <1>21 DEF Connect, Typed
  <2> QED
    BY <1>21, <2>1, <2>2, <2>3 DEF Typed, Connect
<1>22. ASSUME NEW t \in Tasks, AClose(t) PROVE Typed'
  <2>1. pc' \in [Tasks -> Points] /\ rel' \in [Tasks -> Rels] /\ tracked' \subseteq Tasks
    <3>1. Release(t, cur[t], "run") /\ "run" \in Thens /\ cur[t] # 0
      BY <1>22, CurrentIsOwn DEF AClose, Thens
    <3> QED
      BY <1>a, <3>1, TypedRelease
  <2>2. /\ states' \subseteq Tasks /\ hooked' \subseteq Tasks
        /\ cv' \in [Tasks -> Tasks \cup {None}]
    BY <1>22, CurrentIsOwn DEF AClose, Register, Typed
  <2>3. visits' \in [Tasks -> 0 .. Visits]
    BY <1>22 DEF AClose, Typed
  <2> QED
    BY <1>22, <2>1, <2>2, <2>3 DEF Typed, AClose
<1>23. ASSUME NEW t \in Tasks, Begin(t) PROVE Typed'
  BY <1>23, CurrentIsOwn DEF Typed, Begin
<1>24. ASSUME NEW t \in Tasks, End(t) PROVE Typed'
  BY <1>24, CurrentIsOwn DEF Typed, End
<1>25. ASSUME NEW t \in Tasks, LeftOpen(t) PROVE Typed'
  BY <1>25, CurrentIsOwn DEF Typed, LeftOpen
<1>26. ASSUME NEW t \in Tasks, Finish(t) PROVE Typed'
  <2>1. pc' \in [Tasks -> Points]
    BY <1>c, <1>26 DEF Finish, Points, InRelease, Closing
  <2> QED
    BY <1>26, <2>1, CurrentIsOwn DEF Typed, Finish
<1>27. ASSUME NEW t \in Tasks, ClosePool(t) PROVE Typed'
  <2>1. pc' \in [Tasks -> Points]
    BY <1>c, <1>27 DEF ClosePool, Points, InRelease, Closing
  <2> QED
    BY <1>27, <2>1, CurrentIsOwn DEF Typed, ClosePool
<1>28. ASSUME NEW t \in Tasks, NEW v \in Tasks, Spawn(t, v) PROVE Typed'
  <2>1. pc' \in [Tasks -> Points] /\ cv' \in [Tasks -> Tasks \cup {None}]
    BY <1>c, <1>28 DEF Spawn, Points, Typed
  <2> QED
    BY <1>28, <2>1 DEF Typed, Spawn
<1>29. ASSUME NEW t \in Tasks, CancelClose(t) PROVE Typed'
  <2>1. pc' \in [Tasks -> Points]
    BY <1>c, <1>29 DEF CancelClose, Points, InRelease, Closing
  <2> QED
    BY <1>29, <2>1, CurrentIsOwn DEF Typed, CancelClose
<1>30. ASSUME NEW t \in Tasks, CancelRelease(t) PROVE Typed'
  <2>1. /\ Goto(t, "run") /\ rel' = [rel EXCEPT ![t] = Nothing]
        /\ tracked' = tracked
    BY <1>30 DEF CancelRelease, After
  <2>2. pc' \in [Tasks -> Points] /\ rel' \in [Tasks -> Rels] /\ tracked' \subseteq Tasks
    BY <1>a, <1>b, <1>c, <2>1 DEF Typed, Points
  <2> QED
    BY <1>30, <2>2 DEF Typed, CancelRelease
<1>31. ASSUME NEW c \in Conns, Drop(c) PROVE Typed'
  BY <1>31, CurrentIsOwn DEF Typed, Drop
<1>34. ASSUME NEW t \in Tasks, CancelGather(t) PROVE Typed'
  <2>1. pc' \in [Tasks -> Points]
    BY <1>c, <1>34 DEF CancelGather, Points, InRelease, Closing
  <2> QED
    BY <1>34, <2>1, CurrentIsOwn DEF Typed, CancelGather
<1>35. ASSUME NEW t \in Tasks, CutRelease(t) PROVE Typed'
  <2>1. /\ Goto(t, "gone") /\ rel' = [rel EXCEPT ![t] = Nothing]
        /\ tracked' = tracked \ {t}
    BY <1>35 DEF CutRelease, After
  <2>2. pc' \in [Tasks -> Points] /\ rel' \in [Tasks -> Rels] /\ tracked' \subseteq Tasks
    BY <1>a, <1>b, <1>c, <2>1 DEF Typed, Points
  <2> QED
    BY <1>35, <2>2 DEF Typed, CutRelease
<1>32. ASSUME NEW t \in Tasks, Step(t) PROVE Typed'
  BY <1>1, <1>2, <1>3, <1>4, <1>5, <1>6, <1>7, <1>8, <1>9, <1>10, <1>11, <1>12, <1>13,
     <1>14, <1>15, <1>16, <1>17, <1>18, <1>19, <1>20, <1>32 DEF Step
<1>33. ASSUME NEW t \in Tasks, Call(t) PROVE Typed'
  BY <1>21, <1>22, <1>23, <1>24, <1>25, <1>26, <1>27, <1>28, <1>33 DEF Call
<1> QED
  BY <1>29, <1>30, <1>31, <1>32, <1>33, <1>34, <1>35 DEF Next

-----------------------------------------------------------------------------
(***************************************************************************)
(* Where tasks are, releases left aside.                                   *)
(***************************************************************************)

\* Where task t is or will be after its release.
Mode(t) == IF pc[t] \in InRelease THEN rel[t].then ELSE pc[t]

Acquiring == {"ensure", "create", "acquire", "wait"}

ModeGoes(t, x) == Mode(t)' = x /\ \A u \in Tasks : u # t => Mode(u)' = Mode(u)

\* A task that moves, outside of a release.
LEMMA ModeMoves ==
    ASSUME Typed, NEW t \in Tasks, NEW x, Goto(t, x), x \notin InRelease,
           \A u \in Tasks : u # t => rel'[u] = rel[u]
    PROVE  ModeGoes(t, x)
BY DEF Typed, Goto, ModeGoes, Mode

\* What a release does: what follows is known from its beginning.
LEMMA ModePut ==
    ASSUME Typed, NEW t \in Tasks, NEW c, NEW p, NEW then \in Thens, NEW usable,
           PutBack(t, c, p, then, usable)
    PROVE  ModeGoes(t, then)
<1> DEFINE r == [c |-> c, p |-> p, then |-> then]
<1>1. \/ pc' = [pc EXCEPT ![t] = "surplus"] /\ rel' = [rel EXCEPT ![t] = r]
      \/ pc' = [pc EXCEPT ![t] = then] /\ rel' = [rel EXCEPT ![t] = Nothing]
  BY DEF PutBack, After, Goto
<1>2. r.then = then
  OBVIOUS
<1>3. "surplus" \in InRelease /\ then \notin InRelease
  BY DEF InRelease, Thens
<1> HIDE DEF r
<1> QED
  BY <1>1, <1>2, <1>3 DEF Typed, ModeGoes, Mode

\* The same holds when it begins.
LEMMA ModeRelease ==
    ASSUME Typed, NEW t \in Tasks, NEW c, NEW then \in Thens, Release(t, c, then)
    PROVE  ModeGoes(t, then)
<1>1. CASE Stage(c, owner[c]) = "put"
  BY <1>1, ModePut DEF Release
<1>2. CASE Stage(c, owner[c]) # "put"
  <2> DEFINE r == [c |-> c, p |-> owner[c], then |-> then]
             x == Stage(c, owner[c])
  <2>1. r.then = then /\ x \in InRelease
    BY <1>2 DEF Stage, InRelease
  <2>2. pc' = [pc EXCEPT ![t] = x] /\ rel' = [rel EXCEPT ![t] = r]
    BY <1>2 DEF Release, Goto
  <2> HIDE DEF r, x
  <2> QED
    BY <2>1, <2>2 DEF Typed, ModeGoes, Mode
<1> QED
  BY <1>1, <1>2

\* Who makes a pool has the lock; the pool that is closed is the one there is, and one
\* task alone closes it, when an instance has no more.
Closers ==
    /\ \A t \in Tasks : Mode(t) = "create" => poolLock = t /\ pool = 0
    /\ \A t \in Tasks : Mode(t) = "pool_close" => got[t] \in closed \cup {0}
    /\ "two_closers" \notin faults =>
         /\ \A t \in Tasks : Mode(t) \in Closing =>
              closing = TRUE /\ pool # 0 /\ (Mode(t) = "pool_close" => got[t] = pool)
         /\ \A t, u \in Tasks : Mode(t) \in Closing /\ Mode(u) \in Closing => t = u
         /\ (1 .. pools) \ closed \subseteq {pool}

\* A task that acquires, or has a connection, is registered; it has none that works
\* while it acquires, and none at all before it begins and after its end.
Registered(t) ==
    /\ cur[t] # 0 \/ Mode(t) \in Acquiring => t \in states /\ t \in hooked
    /\ Mode(t) \in Acquiring => cur[t] \notin open
    /\ Mode(t) \in {"unborn", "gone", "reap"} => cur[t] = 0

\* A pool is not closed while a connection is on its way back to it.
Late ==
    "late_release" \notin faults =>
      \A t \in Tasks : pc[t] \in {"rollback", "discard", "recreate"} =>
         rel[t].p \notin closed \/ driver = "server"

\* Every connection that works is idle in a pool that will be closed, or somebody has
\* it.
InQueue(c) == \E p \in Pools : /\ p \notin closed \/ p = pool
                              /\ \E i \in 1 .. Len(idle[p]) : idle[p][i] = c
InHand(c)  == \E t \in Tasks : rel[t].c = c \/ cur[t] = c
Found ==
    faults \cap LosesConns = {} =>
      \A c \in open : InQueue(c) \/ InHand(c)

-----------------------------------------------------------------------------
(***************************************************************************)
(* Every step keeps them.                                                  *)
(***************************************************************************)

\* A connection that is released, from whatever calls _release_conn().
LEMMA ContentsRelease ==
    ASSUME Contents, Places, Typed, Within, NEW t \in Tasks, NEW c \in 1 .. made,
           NEW then \in Thens, Release(t, c, then), open' = open, owner[c] # 0, ~Queued(c),
           c \in open => c \in out[owner[c]], c \in open' => NobodyElse(t, c),
           rel[t].c \in {0, c}
    PROVE  Contents'
<1>1. driver \in {"sqlite", "server"}
  BY DEF Typed
<1>2. Starts(t, c, then)
  BY <1>1, ReleaseStarts
<1>3. ASSUME idle' = idle, out' = out,
             NEW x \in {"raw_close", "discard", "rollback"},
             Goes(t, x, [c |-> c, p |-> owner[c], then |-> then]), AtStage(x, c, owner[c])
      PROVE  Contents'
  BY <1>3, ContentsBegin
<1>4. CASE /\ Put(t, c, owner[c], then, c \in open) /\ owner[c] = pool
           /\ driver = "sqlite" => c \in open
  <2>1. owner[c] \in 1 .. pools /\ c \in 1 .. made' /\ owner[c] \in Pools
    <3>1. c \in Conns /\ pools \in Nat /\ 1 .. pools \subseteq Pools /\ c \in 1 .. made'
      BY WithinKeeps, SomeNumbers DEF Contents
    <3>2. owner[c] \in 0 .. pools
      BY <3>1 DEF Contents, Lots
    <3> QED
      BY <3>1, <3>2
  <2>2. driver = "sqlite" \/ (c \in open) => c \in open'
    BY <1>4
  <2>3. \A q \in Pools : c \in out[q] => q = owner[c]
    BY DEF Contents, Apart
  <2>4. rel[t].c \notin out[owner[c]] \/ c \notin out[owner[c]] \/ rel[t].c = c
    BY <2>1 DEF Contents, Lots
  <2>5. driver = "server" /\ c \in open' => c \in out[owner[c]]
    OBVIOUS
  <2> QED
    BY <1>1, <1>4, <2>1, <2>2, <2>3, <2>4, <2>5, ContentsPut
<1> QED
  BY <1>2, <1>3, <1>4 DEF Starts

\* Every step keeps queues, states and releases as they should be.
LEMMA ContentsNext ==
    ASSUME Contents, Places, Typed, Context, Closers, Next
    PROVE  Contents'
<1> USE DEF setting, registry, session, closer, poolVars, conns
<1>0. /\ Lots /\ Apart /\ Sizes /\ Numbers /\ Grown /\ driver \in {"sqlite", "server"}
      /\ \A u \in Tasks : RelFine(u) /\ Has(u) /\ Hand(u)
  BY AlwaysGrown DEF Contents, Places, Typed
<1>a. /\ made \in Nat /\ made \in 0 .. ConnLimit /\ pools \in Nat /\ 1 .. pools \subseteq Pools
      /\ 1 .. made \subseteq Conns
      /\ \A u \in Tasks : cur[u] \in 0 .. made /\ rel[u].c \in 0 .. made
      /\ \A u \in Tasks : rel[u].then \in Thens
      /\ \A u \in Tasks : InRel(u) => rel[u].c \in 1 .. made /\ rel[u].p \in 1 .. pools
  BY <1>0, SomeNumbers DEF Context, RelFine, Lots
\* A step that only moves tasks.
<1>b. ASSUME idle' = idle, out' = out, owner' = owner, pools' = pools, rel' = rel, cur' = cur,
             driver' = driver, faults' = faults, closed' = closed, pool' = pool,
             NEW t \in Tasks, ~InRel(t), NEW x, Goto(t, x), x \notin InRelease \cup {"reap"},
             got' \in [Tasks -> 0 .. pools]
      PROVE  Contents'
  <2>1. \A u \in Tasks : pc'[u] = pc[u] \/ (~InRel(u) /\ ~InRel(u)')
    BY <1>b DEF Typed, Goto, InRel
  <2>2. Stays
    BY <1>0, <1>b, <2>1 DEF Stays
  <2> QED
    BY <2>2, ContentsStay
<1>c. ASSUME idle' = idle, out' = out, owner' = owner, pools' = pools, rel' = rel, cur' = cur, pc' = pc,
             driver' = driver, faults' = faults, closed' = closed, pool' = pool, got' = got
      PROVE  Contents'
  <2>1. Stays
    BY <1>0, <1>c DEF Stays, Lots
  <2> QED
    BY <2>1, ContentsStay
<1>d. got' = got => got' \in [Tasks -> 0 .. pools]
  BY <1>0 DEF Lots
\* Connections that are released.
<1>e. \A u \in Tasks : cur[u] # 0 =>
         /\ cur[u] \in 1 .. made /\ owner[cur[u]] # 0 /\ ~Queued(cur[u])
         /\ cur[u] \in open => cur[u] \in out[owner[cur[u]]]
  BY <1>0, <1>a DEF Has, Apart
<1>f. \A u \in Tasks : ~InRel(u) => rel[u].c = 0
  BY <1>0 DEF RelFine, Nothing
<1>g. \A u \in Tasks : pc[u] \in {"reap", "rollback"} =>
         /\ ~Queued(rel[u].c) /\ rel[u].p = owner[rel[u].c]
         /\ rel[u].c \in open => rel[u].c \in out[owner[rel[u].c]]
  BY <1>0 DEF Hand, Apart
<1>1. ASSUME NEW t \in Tasks, Rollback(t) PROVE Contents'
  <2>1. Within /\ cur' = cur
    BY <1>0, <1>1 DEF Rollback, Within
  <2>2. /\ PutBack(t, rel[t].c, rel[t].p, rel[t].then, TRUE) /\ pc[t] = "rollback" /\ InRel(t)
        /\ rel[t].c \in open /\ open' = open
    BY <1>1 DEF Rollback, InRel, InRelease, Stale
  <2>3. Put(t, rel[t].c, rel[t].p, rel[t].then, TRUE)
    BY <1>0, <2>2, PutBackPuts
  <2>4. NobodyElse(t, rel[t].c)
    BY <2>1, <2>2, HeldByOne
  <2>5. rel[t].c \in 1 .. made' /\ rel[t].p \in 1 .. pools /\ rel[t].then \in Thens
    BY <1>a, <2>1, <2>2 DEF Within, Grown
  <2>6. \A q \in Pools : rel[t].c \in out[q] => q = rel[t].p
    BY <1>0, <1>g, <2>2 DEF Apart
  <2>7. rel[t].c \in out[rel[t].p] /\ ~Queued(rel[t].c)
    BY <1>g, <2>2
  <2> QED
    BY <1>0, <2>1, <2>2, <2>3, <2>4, <2>5, <2>6, <2>7, ContentsPut
<1>2. ASSUME NEW t \in Tasks, RollbackFails(t) PROVE Contents'
  <2>1. Within /\ cur' = cur
    BY <1>0, <1>2 DEF RollbackFails, Within
  <2>2. pc[t] = "rollback" /\ InRel(t)
    BY <1>2 DEF RollbackFails, InRel, InRelease
  <2>3. CASE driver = "sqlite"
    <3>1. Goto(t, "discard") /\ idle' = idle /\ out' = out /\ rel' = rel
      BY <1>2, <2>3 DEF RollbackFails
    <3>2. Stays
      BY <1>0, <1>d, <2>1, <2>2, <2>3, <3>1 DEF Stays, Within, Goto, Typed
    <3> QED
      BY <3>2, ContentsStay
  <2>4. CASE driver # "sqlite"
    <3>1. /\ PutBack(t, rel[t].c, rel[t].p, rel[t].then, FALSE) /\ open' = open \ {rel[t].c}
      BY <1>2, <2>4 DEF RollbackFails
    <3>2. Put(t, rel[t].c, rel[t].p, rel[t].then, FALSE)
      BY <1>0, <3>1, PutBackPuts
    <3>3. rel[t].c \notin open'
      BY <3>1
    <3>4. rel[t].c \in 1 .. made' /\ rel[t].p \in 1 .. pools /\ rel[t].then \in Thens
      <4>1. made \in Nat /\ made' \in Nat /\ made <= made'
        BY <1>a, <2>1, WithinKeeps
      <4> QED
        BY <1>a, <2>2, <4>1
    <3>5. \A q \in Pools : rel[t].c \in out[q] => q = rel[t].p
      BY <1>0, <1>g, <2>2 DEF Apart
    <3>6. ~Queued(rel[t].c)
      BY <1>g, <2>2
    <3> QED
      BY <1>0, <2>1, <2>4, <3>2, <3>3, <3>4, <3>5, <3>6, ContentsPut
  <2> QED
    BY <2>3, <2>4
<1>3. ASSUME NEW t \in Tasks, Discard(t) PROVE Contents'
  <2>1. /\ pc[t] = "discard" /\ Goto(t, "recreate") /\ open' = open \ {rel[t].c}
        /\ idle' = idle /\ out' = out /\ owner' = owner /\ pools' = pools /\ rel' = rel
        /\ cur' = cur /\ driver' = driver /\ faults' = faults /\ closed' = closed /\ pool' = pool
        /\ got' = got
    BY <1>3 DEF Discard
  <2>2. Stays
    BY <1>0, <1>d, <2>1 DEF Stays, Goto, Typed
  <2> QED
    BY <2>2, ContentsStay
<1>4. ASSUME NEW t \in Tasks, Recreate(t) PROVE Contents'
  <2>1. Within /\ cur' = cur
    BY <1>0, <1>4 DEF Recreate, Within
  <2>2. /\ PutBack(t, made + 1, rel[t].p, rel[t].then, TRUE) /\ pc[t] = "recreate" /\ InRel(t)
        /\ made' = made + 1 /\ open' = open \cup {made + 1}
    BY <1>4 DEF Recreate, InRel, InRelease
  <2>3. driver = "sqlite" /\ Put(t, made + 1, rel[t].p, rel[t].then, TRUE)
    BY <1>0, <2>2, PutBackPuts DEF RelFine
  <2>4. /\ made + 1 \in 1 .. made' /\ made + 1 \in Nat /\ made + 1 > made
        /\ rel[t].p \in 1 .. pools /\ rel[t].then \in Thens
    BY <1>a, <2>2
  <2>5. NobodyElse(t, made + 1) /\ ~Queued(made + 1)
    BY <1>0, <2>1, <2>4, NotHeld DEF NobodyElse, Queued
  <2>6. \A q \in Pools : made + 1 \notin out[q]
    BY <1>0, <2>4 DEF Lots
  <2>7. made + 1 \in open' /\ rel[t].p \in Pools
    BY <1>a, <2>2, <2>4
  <2> QED
    BY <1>0, <2>1, <2>3, <2>4, <2>5, <2>6, <2>7, ContentsPut
<1>5. ASSUME NEW t \in Tasks, RecreateFails(t) PROVE Contents'
  <2>1. Within
    BY <1>0, <1>5 DEF RecreateFails, Within
  <2>2. /\ InRel(t) /\ Goes(t, rel[t].then, Nothing) /\ idle' = idle
        /\ out' = [out EXCEPT ![rel[t].p] = @ \ {rel[t].c}]
    BY <1>5 DEF RecreateFails, After, Goto, Goes, InRel, InRelease
  <2>3. rel[t].then \in Thens
    BY <1>a DEF Thens
  <2>4. faults \cap TakesSlots # {}
    BY <1>5 DEF RecreateFails, TakesSlots
  <2> QED
    BY <2>1, <2>2, <2>3, <2>4, ContentsEnd
<1>6. ASSUME NEW t \in Tasks, CloseConn(t) PROVE Contents'
  <2>1. Within
    BY <1>0, <1>6 DEF CloseConn, Within
  <2>2. /\ InRel(t) /\ Goes(t, rel[t].then, Nothing) /\ idle' = idle
        /\ out' = [out EXCEPT ![rel[t].p] = @ \ {rel[t].c}]
    BY <1>6 DEF CloseConn, After, Goto, Goes, InRel, InRelease
  <2>3. rel[t].then \in Thens
    BY <1>a DEF Thens
  <2>4. ASSUME driver = "sqlite", faults \cap TakesSlots = {}, NEW p \in 1 .. pools \ closed
        PROVE  Enough(p)'
    <3>1. p \in Pools /\ Enough(p)
      BY <1>0, <1>a, <2>4 DEF Sizes
    <3>2. CASE out'[p] = out[p]
      BY <2>1, <2>2, <3>1, <3>2 DEF Enough, Size, Within
    <3>3. CASE out'[p] # out[p]
      <4>1. p = rel[t].p /\ rel[t].c \in out[rel[t].p]
        BY <1>0, <2>2, <3>1, <3>3 DEF Lots
      <4>2. pc[t] = "raw_close"
        BY <1>0, <1>6, <4>1 DEF CloseConn, Hand
      <4>3. p # pool
        BY <1>0, <2>4, <4>1, <4>2 DEF Hand
      <4>4. "two_closers" \in faults
        BY <2>4, <4>3 DEF Closers
      <4> QED
        BY <2>1, <4>3, <4>4 DEF Enough, Within
    <3> QED
      BY <3>2, <3>3
  <2> QED
    BY <2>1, <2>2, <2>3, <2>4, ContentsEnd
<1>7. ASSUME NEW t \in Tasks, EnsurePool(t) PROVE Contents'
  <2>1. /\ idle' = idle /\ out' = out /\ owner' = owner /\ pools' = pools /\ rel' = rel
        /\ cur' = cur /\ driver' = driver /\ faults' = faults /\ closed' = closed /\ pool' = pool
        /\ ~InRel(t)
    BY <1>7 DEF EnsurePool, InRel, InRelease
  <2>2. got' \in [Tasks -> 0 .. pools]
    BY <1>0, <1>7 DEF EnsurePool, Lots
  <2>3. Goto(t, "acquire") \/ Goto(t, "create")
    BY <1>7 DEF EnsurePool
  <2>4. "acquire" \notin InRelease \cup {"reap"} /\ "create" \notin InRelease \cup {"reap"}
    BY DEF InRelease
  <2> QED
    BY <1>b, <2>1, <2>2, <2>3, <2>4
<1>8. ASSUME NEW t \in Tasks, CreatePool(t) PROVE Contents'
  BY <1>0, <1>8, ContentsCreate
<1>9. ASSUME NEW t \in Tasks, CreateFails(t) PROVE Contents'
  <2>1. ~InRel(t) /\ Goto(t, "run") /\ "run" \notin InRelease \cup {"reap"}
    BY <1>9 DEF CreateFails, InRel, InRelease, Closing
  <2>2. /\ idle' = idle /\ out' = out /\ owner' = owner /\ pools' = pools /\ rel' = rel
        /\ cur' = cur /\ driver' = driver /\ faults' = faults /\ closed' = closed /\ pool' = pool
        /\ got' = got
    BY <1>9 DEF CreateFails
  <2> QED
    BY <1>b, <1>d, <2>1, <2>2
<1>10. ASSUME NEW t \in Tasks, Acquire(t) PROVE Contents'
  BY <1>10, ContentsAcquire
<1>11. ASSUME NEW t \in Tasks, AcquireNew(t) PROVE Contents'
  BY <1>11, ContentsAcquireNew
<1>12. ASSUME NEW t \in Tasks, AcquireWait(t) PROVE Contents'
  <2>1. ~InRel(t) /\ Goto(t, "wait") /\ "wait" \notin InRelease \cup {"reap"}
    BY <1>12 DEF AcquireWait, InRel, InRelease, Closing
  <2>2. /\ idle' = idle /\ out' = out /\ owner' = owner /\ pools' = pools /\ rel' = rel
        /\ cur' = cur /\ driver' = driver /\ faults' = faults /\ closed' = closed /\ pool' = pool
        /\ got' = got
    BY <1>12 DEF AcquireWait
  <2> QED
    BY <1>b, <1>d, <2>1, <2>2
<1>13. ASSUME NEW t \in Tasks, AcquireFails(t) PROVE Contents'
  <2>1. ~InRel(t) /\ Goto(t, "run") /\ "run" \notin InRelease \cup {"reap"}
    BY <1>13 DEF AcquireFails, InRel, InRelease, Closing
  <2>2. /\ idle' = idle /\ out' = out /\ owner' = owner /\ pools' = pools /\ rel' = rel
        /\ cur' = cur /\ driver' = driver /\ faults' = faults /\ closed' = closed /\ pool' = pool
        /\ got' = got
    BY <1>13 DEF AcquireFails
  <2> QED
    BY <1>b, <1>d, <2>1, <2>2
<1>14. ASSUME NEW t \in Tasks, TaskDone(t) PROVE Contents'
  <2>1. CASE t \in hooked \cap states /\ cur[t] # 0
    <3>1. /\ Goes(t, "reap", [c |-> cur[t], p |-> owner[cur[t]], then |-> "gone"])
          /\ cur' = [cur EXCEPT ![t] = 0] /\ idle' = idle /\ out' = out /\ open' = open
      BY <1>14, <2>1 DEF TaskDone, Goes, Goto
    <3>2. Within
      BY <1>0, <1>14, <3>1 DEF TaskDone, Within, Numbers
    <3>3. "gone" \in Thens
      BY DEF Thens
    <3> QED
      BY <1>e, <2>1, <3>1, <3>2, <3>3, ContentsBegin
  <2>2. CASE ~(t \in hooked \cap states /\ cur[t] # 0)
    <3>1. /\ idle' = idle /\ out' = out /\ owner' = owner /\ pools' = pools /\ rel' = rel
          /\ cur' = cur /\ driver' = driver /\ faults' = faults /\ closed' = closed /\ pool' = pool
          /\ got' = got /\ ~InRel(t) /\ Goto(t, "gone")
      BY <1>14, <2>2 DEF TaskDone, InRel, InRelease
    <3>2. "gone" \notin InRelease \cup {"reap"}
      BY DEF InRelease
    <3> QED
      BY <1>b, <1>d, <3>1, <3>2
  <2> QED
    BY <2>1, <2>2
<1>15. ASSUME NEW t \in Tasks, Reap(t) PROVE Contents'
  <2>1. Within /\ cur' = cur /\ open' = open
    BY <1>0, <1>15 DEF Reap, Within
  <2>2. Release(t, rel[t].c, "gone") /\ pc[t] = "reap" /\ InRel(t) /\ "gone" \in Thens
    BY <1>15 DEF Reap, InRel, Thens
  <2>3. rel[t].c \in 1 .. made /\ rel[t].p # 0
    BY <1>a, <2>2
  <2>4. rel[t].c \in open => NobodyElse(t, rel[t].c)
    BY <2>1, HeldByOne
  <2> QED
    BY <1>g, <2>1, <2>2, <2>3, <2>4, ContentsRelease
<1>16. ASSUME NEW t \in Tasks, WaitReleases(t) PROVE Contents'
  <2>1. /\ idle' = idle /\ out' = out /\ owner' = owner /\ pools' = pools /\ rel' = rel
        /\ cur' = cur /\ driver' = driver /\ faults' = faults /\ closed' = closed /\ pool' = pool
        /\ ~InRel(t) /\ got' = got
    BY <1>16 DEF WaitReleases, InRel, InRelease
  <2>2. pc' = pc \/ Goto(t, "reclaim")
    BY <1>16 DEF WaitReleases
  <2>3. "reclaim" \notin InRelease \cup {"reap"}
    BY DEF InRelease
  <2> QED
    BY <1>b, <1>c, <1>d, <2>1, <2>2, <2>3
<1>17. ASSUME NEW t \in Tasks, Reclaim(t) PROVE Contents'
  <2>1. PICK u \in todo[t] \cap states :
          /\ cur[u] # 0 /\ cur' = [cur EXCEPT ![u] = 0] /\ Release(t, cur[u], "reclaim")
    BY <1>17 DEF Reclaim
  <2>2. u \in Tasks /\ "reclaim" \in Thens /\ ~InRel(t) /\ open' = open
    BY <1>17 DEF Reclaim, Typed, Thens, InRel, InRelease
  <2>3. Within
    BY <1>0, <1>17, <2>1 DEF Reclaim, Within, Numbers
  <2>4. cur[u] \in open => NobodyElse(t, cur[u])
    BY <2>1, <2>2, TakenFromState
  <2> QED
    BY <1>e, <1>f, <2>1, <2>2, <2>3, <2>4, ContentsRelease
<1>18. ASSUME NEW t \in Tasks, Reclaimed(t) PROVE Contents'
  <2>1. /\ idle' = idle /\ out' = out /\ owner' = owner /\ pools' = pools /\ rel' = rel
        /\ cur' = cur /\ driver' = driver /\ faults' = faults /\ pool' = pool
        /\ closed' = closed \cup ({pool} \ {0}) /\ pc[t] = "reclaim" /\ Goto(t, "pool_close")
    BY <1>18 DEF Reclaimed
  <2>2. got' \in [Tasks -> 0 .. pools]
    BY <1>0, <1>18 DEF Reclaimed, Lots
  <2>3. \A u \in Tasks : pc'[u] = pc[u] \/ (~InRel(u) /\ ~InRel(u)')
    BY <2>1 DEF Typed, Goto, InRel, InRelease
  <2>4. Stays
    BY <1>0, <2>1, <2>2, <2>3 DEF Stays
  <2> QED
    BY <2>4, ContentsStay
<1>19. ASSUME NEW t \in Tasks, Drain(t) PROVE Contents'
  <2>1. pc[t] = "pool_close" /\ got[t] # 0
    BY <1>19 DEF Drain
  <2>2. got[t] \in closed
    BY <2>1 DEF Closers, Mode, InRelease
  <2> QED
    BY <1>19, <2>2, ContentsDrain
<1>20. ASSUME NEW t \in Tasks, PoolClosed(t) PROVE Contents'
  <2>1. /\ idle' = idle /\ out' = out /\ owner' = owner /\ pools' = pools /\ rel' = rel
        /\ cur' = cur /\ driver' = driver /\ faults' = faults /\ pool' = 0
        /\ closed' = closed /\ pc[t] = "pool_close" /\ Goto(t, "run") /\ got' = got
    BY <1>20 DEF PoolClosed
  <2>2. \A u \in Tasks : pc'[u] = pc[u] \/ (~InRel(u) /\ ~InRel(u)')
    BY <2>1 DEF Typed, Goto, InRel, InRelease
  <2>3. Stays
    BY <1>0, <1>d, <2>1, <2>2 DEF Stays
  <2> QED
    BY <2>3, ContentsStay
<1>21. ASSUME NEW t \in Tasks, Connect(t) PROVE Contents'
  <2>1. CASE cur[t] # 0
    <3>1. Release(t, cur[t], "ensure") /\ cur[t] \notin open /\ ~InRel(t) /\ "ensure" \in Thens
          /\ cur' = cur /\ open' = open
      BY <1>21, <2>1, CurrentIsOwn DEF Connect, Stale, InRel, InRelease, Thens
    <3>2. Within
      BY <1>0, <1>21 DEF Connect, Within
    <3> QED
      BY <1>e, <1>f, <2>1, <3>1, <3>2, ContentsRelease
  <2>2. CASE cur[t] = 0
    <3>1. /\ idle' = idle /\ out' = out /\ owner' = owner /\ pools' = pools /\ rel' = rel
          /\ cur' = cur /\ driver' = driver /\ faults' = faults /\ closed' = closed /\ pool' = pool
          /\ got' = got /\ ~InRel(t) /\ Goto(t, "ensure")
      BY <1>21, <2>2, CurrentIsOwn DEF Connect, InRel, InRelease
    <3>2. "ensure" \notin InRelease \cup {"reap"}
      BY DEF InRelease
    <3> QED
      BY <1>b, <1>d, <3>1, <3>2
  <2> QED
    BY <2>1, <2>2
<1>22. ASSUME NEW t \in Tasks, AClose(t) PROVE Contents'
  <2>1. /\ Release(t, cur[t], "run") /\ ~InRel(t) /\ "run" \in Thens
        /\ cur[t] # 0 /\ cur' = [cur EXCEPT ![t] = 0] /\ open' = open
    BY <1>22, CurrentIsOwn DEF AClose, InRel, InRelease, Thens
  <2>2. Within
    BY <1>0, <1>22, <2>1 DEF AClose, Within, Numbers
  <2>3. cur[t] \in open => NobodyElse(t, cur[t])
    BY <2>1, TakenFromState
  <2> QED
    BY <1>e, <1>f, <2>1, <2>2, <2>3, ContentsRelease
<1>23. ASSUME NEW t \in Tasks, Begin(t) PROVE Contents'
  <2>1. /\ idle' = idle /\ out' = out /\ owner' = owner /\ pools' = pools /\ rel' = rel /\ pc' = pc
        /\ cur' = cur /\ driver' = driver /\ faults' = faults /\ closed' = closed /\ pool' = pool
        /\ got' = got
    BY <1>23 DEF Begin
  <2> QED
    BY <1>c, <2>1
<1>24. ASSUME NEW t \in Tasks, End(t) PROVE Contents'
  <2>1. /\ idle' = idle /\ out' = out /\ owner' = owner /\ pools' = pools /\ rel' = rel /\ pc' = pc
        /\ cur' = cur /\ driver' = driver /\ faults' = faults /\ closed' = closed /\ pool' = pool
        /\ got' = got
    BY <1>24 DEF End
  <2> QED
    BY <1>c, <2>1
<1>25. ASSUME NEW t \in Tasks, LeftOpen(t) PROVE Contents'
  <2>1. /\ idle' = idle /\ out' = out /\ owner' = owner /\ pools' = pools /\ rel' = rel /\ pc' = pc
        /\ cur' = cur /\ driver' = driver /\ faults' = faults /\ closed' = closed /\ pool' = pool
        /\ got' = got
    BY <1>25 DEF LeftOpen
  <2> QED
    BY <1>c, <2>1
<1>26. ASSUME NEW t \in Tasks, Finish(t) PROVE Contents'
  <2>1. ~InRel(t) /\ Goto(t, "done") /\ "done" \notin InRelease \cup {"reap"}
    BY <1>26 DEF Finish, InRel, InRelease, Closing
  <2>2. /\ idle' = idle /\ out' = out /\ owner' = owner /\ pools' = pools /\ rel' = rel
        /\ cur' = cur /\ driver' = driver /\ faults' = faults /\ closed' = closed /\ pool' = pool
        /\ got' = got
    BY <1>26 DEF Finish
  <2> QED
    BY <1>b, <1>d, <2>1, <2>2
<1>27. ASSUME NEW t \in Tasks, ClosePool(t) PROVE Contents'
  <2>1. ~InRel(t) /\ Goto(t, "wait_releases") /\ "wait_releases" \notin InRelease \cup {"reap"}
    BY <1>27 DEF ClosePool, InRel, InRelease, Closing
  <2>2. /\ idle' = idle /\ out' = out /\ owner' = owner /\ pools' = pools /\ rel' = rel
        /\ cur' = cur /\ driver' = driver /\ faults' = faults /\ closed' = closed /\ pool' = pool
        /\ got' = got
    BY <1>27 DEF ClosePool
  <2> QED
    BY <1>b, <1>d, <2>1, <2>2
<1>28. ASSUME NEW t \in Tasks, NEW v \in Tasks, Spawn(t, v) PROVE Contents'
  <2>1. ~InRel(v) /\ Goto(v, "run") /\ "run" \notin InRelease \cup {"reap"}
    BY <1>28 DEF Spawn, InRel, InRelease
  <2>2. /\ idle' = idle /\ out' = out /\ owner' = owner /\ pools' = pools /\ rel' = rel
        /\ cur' = cur /\ driver' = driver /\ faults' = faults /\ closed' = closed /\ pool' = pool
        /\ got' = got
    BY <1>28 DEF Spawn
  <2> QED
    BY <1>b, <1>d, <2>1, <2>2
<1>29. ASSUME NEW t \in Tasks, CancelClose(t) PROVE Contents'
  <2>1. ~InRel(t) /\ Goto(t, "run") /\ "run" \notin InRelease \cup {"reap"}
    BY <1>29 DEF CancelClose, InRel, InRelease, Closing
  <2>2. /\ idle' = idle /\ out' = out /\ owner' = owner /\ pools' = pools /\ rel' = rel
        /\ cur' = cur /\ driver' = driver /\ faults' = faults /\ closed' = closed /\ pool' = pool
        /\ got' = got
    BY <1>29 DEF CancelClose
  <2> QED
    BY <1>b, <1>d, <2>1, <2>2
\* A release that is cut short.
<1>q. ASSUME NEW t \in Tasks, NEW then \in Thens, CutShort(t), InRel(t), Goes(t, then, Nothing),
             faults \cap TakesSlots # {}, driver' = driver, faults' = faults, idle' = idle,
             cur' = cur, pool' = pool, closed' = closed, pools' = pools, owner' = owner, got' = got
      PROVE  Contents'
  <2>1. out' = out \/ out' = [out EXCEPT ![rel[t].p] = @ \ {rel[t].c}]
    BY <1>q, CutShortEnds DEF Places, Numbers
  <2>2. Within
    BY <1>0, <1>q DEF Within
  <2> QED
    BY <1>q, <2>1, <2>2, ContentsEnd
<1>30. ASSUME NEW t \in Tasks, CancelRelease(t) PROVE Contents'
  <2>1. /\ InRel(t) /\ Goes(t, "run", Nothing) /\ CutShort(t) /\ "run" \in Thens
        /\ faults \cap TakesSlots # {}
    BY <1>30 DEF CancelRelease, Goto, Goes, InRel, TakesSlots, Thens
  <2>2. /\ driver' = driver /\ faults' = faults /\ idle' = idle /\ cur' = cur /\ pool' = pool
        /\ closed' = closed /\ pools' = pools /\ owner' = owner /\ got' = got
    BY <1>30 DEF CancelRelease
  <2> QED
    BY <1>q, <2>1, <2>2
<1>34. ASSUME NEW t \in Tasks, CancelGather(t) PROVE Contents'
  <2>1. ~InRel(t) /\ Goto(t, "cancelled") /\ "cancelled" \notin InRelease \cup {"reap"}
    BY <1>34 DEF CancelGather, InRel, InRelease
  <2>2. /\ idle' = idle /\ out' = out /\ owner' = owner /\ pools' = pools /\ rel' = rel
        /\ cur' = cur /\ driver' = driver /\ faults' = faults /\ closed' = closed /\ pool' = pool
        /\ got' = got
    BY <1>34 DEF CancelGather
  <2> QED
    BY <1>b, <1>d, <2>1, <2>2
<1>35. ASSUME NEW t \in Tasks, CutRelease(t) PROVE Contents'
  <2>1. /\ InRel(t) /\ Goes(t, "gone", Nothing) /\ CutShort(t) /\ "gone" \in Thens
        /\ faults \cap TakesSlots # {}
    BY <1>35 DEF CutRelease, After, Goto, Goes, InRel, TakesSlots, Thens
  <2>2. /\ driver' = driver /\ faults' = faults /\ idle' = idle /\ cur' = cur /\ pool' = pool
        /\ closed' = closed /\ pools' = pools /\ owner' = owner /\ got' = got
    BY <1>35 DEF CutRelease
  <2> QED
    BY <1>q, <2>1, <2>2
<1>31. ASSUME NEW c \in Conns, Drop(c) PROVE Contents'
  <2>1. /\ idle' = idle /\ out' = out /\ owner' = owner /\ pools' = pools /\ rel' = rel /\ pc' = pc
        /\ cur' = cur /\ driver' = driver /\ faults' = faults /\ closed' = closed /\ pool' = pool
        /\ got' = got
    BY <1>31 DEF Drop
  <2> QED
    BY <1>c, <2>1
<1>32. ASSUME NEW t \in Tasks, Step(t) PROVE Contents'
  BY <1>1, <1>2, <1>3, <1>4, <1>5, <1>6, <1>7, <1>8, <1>9, <1>10, <1>11, <1>12, <1>13,
     <1>14, <1>15, <1>16, <1>17, <1>18, <1>19, <1>20, <1>32 DEF Step
<1>33. ASSUME NEW t \in Tasks, Call(t) PROVE Contents'
  BY <1>21, <1>22, <1>23, <1>24, <1>25, <1>26, <1>27, <1>28, <1>33 DEF Call
<1> QED
  BY <1>29, <1>30, <1>31, <1>32, <1>33, <1>34, <1>35 DEF Next

\* No task moves, releases left aside.
ModesStay == \A u \in Tasks : Mode(u)' = Mode(u)

\* Where the tasks are after each step.
LEMMA Modes ==
    ASSUME Typed, Context, NEW t \in Tasks
    PROVE  /\ Rollback(t) \/ RollbackFails(t) \/ Discard(t) \/ Recreate(t) \/ RecreateFails(t)
                \/ CloseConn(t) \/ Drain(t) \/ Begin(t) \/ End(t) \/ LeftOpen(t) => ModesStay
           /\ EnsurePool(t) => /\ Mode(t) = "ensure"
                               /\ ModeGoes(t, IF pool # 0 THEN "acquire" ELSE "create")
           /\ CreatePool(t) => Mode(t) = "create" /\ ModeGoes(t, "acquire")
           /\ CreateFails(t) => Mode(t) = "create" /\ ModeGoes(t, "run")
           /\ Acquire(t) \/ AcquireNew(t) => Mode(t) \in {"acquire", "wait"} /\ ModeGoes(t, "run")
           /\ AcquireWait(t) => Mode(t) = "acquire" /\ ModeGoes(t, "wait")
           /\ AcquireFails(t) => Mode(t) \in {"acquire", "wait", "ensure"} /\ ModeGoes(t, "run")
           /\ TaskDone(t) => Mode(t) = "done" /\ (ModeGoes(t, "reap") \/ ModeGoes(t, "gone"))
           /\ Reap(t) => Mode(t) = "reap" /\ ModeGoes(t, "gone")
           /\ WaitReleases(t) => Mode(t) = "wait_releases" /\ (ModesStay \/ ModeGoes(t, "reclaim"))
           /\ Reclaim(t) => Mode(t) = "reclaim" /\ ModesStay
           /\ Reclaimed(t) => Mode(t) = "reclaim" /\ ModeGoes(t, "pool_close")
           /\ PoolClosed(t) => Mode(t) = "pool_close" /\ ModeGoes(t, "run")
           /\ Connect(t) => Mode(t) = "run" /\ ModeGoes(t, "ensure")
           /\ AClose(t) => Mode(t) = "run" /\ ModesStay
           /\ Finish(t) => Mode(t) = "run" /\ ModeGoes(t, "done")
           /\ ClosePool(t) => Mode(t) = "run" /\ ModeGoes(t, "wait_releases")
           /\ \A v \in Tasks : Spawn(t, v) => Mode(v) = "unborn" /\ ModeGoes(v, "run")
           /\ CancelGather(t) => Mode(t) = "wait_releases" /\ ModeGoes(t, "cancelled")
           /\ CancelClose(t) => /\ Mode(t) \in {"reclaim", "pool_close", "cancelled"}
                                /\ ModeGoes(t, "run")
           /\ CutRelease(t) => Mode(t) \in {"reap", "gone"} /\ ModeGoes(t, "gone")
           /\ CancelRelease(t) => Mode(t) = rel[t].then /\ ModeGoes(t, "run")
           /\ \A c \in Conns : Drop(c) => ModesStay
<1> USE DEF setting, registry, session, closer, poolVars, conns
<1>0. /\ "run" \in Thens /\ "ensure" \in Thens /\ "gone" \in Thens /\ "reclaim" \in Thens
      /\ \A x \in {"acquire", "create", "run", "wait", "reap", "gone", "reclaim", "pool_close",
                   "ensure", "done", "wait_releases", "unborn", "cancelled"} : x \notin InRelease
      /\ \A x \in {"rollback", "discard", "recreate", "surplus", "raw_close"} : x \in InRelease
      /\ rel[t].then \in Thens
  BY DEF Thens, InRelease, Context
\* A task outside of a release is where it is, and goes where it goes.
<1>a. \A u \in Tasks : pc[u] \notin InRelease => Mode(u) = pc[u]
  BY DEF Mode
<1>b. pc[t] \in InRelease => Mode(t) = rel[t].then
  BY DEF Mode
<1>c. \A x : ModeGoes(t, x) /\ Mode(t) = x => ModesStay
  BY DEF ModeGoes, ModesStay
<1>d. ASSUME NEW v \in Tasks, NEW x, Goto(v, x), x \notin InRelease, rel' = rel PROVE ModeGoes(v, x)
  BY <1>d, ModeMoves
<1>e. ASSUME NEW x, Goto(t, x), x \in InRelease, pc[t] \in InRelease, rel' = rel PROVE ModesStay
  BY <1>e DEF Goto, ModesStay, Mode, Typed
<1>f. ASSUME After(t, rel[t].then), pc[t] \in InRelease PROVE ModesStay
  <2>1. ModeGoes(t, rel[t].then)
    <3>1. rel[t].then \notin InRelease
      BY <1>0 DEF Thens, InRelease
    <3>2. \A u \in Tasks : u # t => rel'[u] = rel[u]
      BY <1>f DEF After, Typed
    <3> QED
      BY <1>f, <3>1, <3>2, ModeMoves DEF After
  <2> QED
    BY <1>b, <1>c, <1>f, <2>1
<1>1. ASSUME Rollback(t) PROVE ModesStay
  BY <1>0, <1>b, <1>c, <1>1, ModePut DEF Rollback
<1>2. ASSUME RollbackFails(t) PROVE ModesStay
  <2>1. pc[t] = "rollback"
    BY <1>2 DEF RollbackFails
  <2>2. CASE driver = "sqlite"
    <3>1. Goto(t, "discard") /\ rel' = rel
      BY <1>2, <2>2 DEF RollbackFails
    <3> QED
      BY <1>0, <1>e, <2>1, <3>1
  <2>3. CASE driver # "sqlite"
    BY <1>0, <1>b, <1>c, <1>2, <2>1, <2>3, ModePut DEF RollbackFails
  <2> QED
    BY <2>2, <2>3
<1>3. ASSUME Discard(t) PROVE ModesStay
  BY <1>0, <1>e, <1>3 DEF Discard
<1>4. ASSUME Recreate(t) PROVE ModesStay
  BY <1>0, <1>b, <1>c, <1>4, ModePut DEF Recreate
<1>5. ASSUME RecreateFails(t) PROVE ModesStay
  BY <1>0, <1>f, <1>5 DEF RecreateFails
<1>6. ASSUME CloseConn(t) PROVE ModesStay
  BY <1>0, <1>f, <1>6 DEF CloseConn
<1>7. ASSUME EnsurePool(t)
      PROVE  Mode(t) = "ensure" /\ ModeGoes(t, IF pool # 0 THEN "acquire" ELSE "create")
  BY <1>0, <1>a, <1>d, <1>7 DEF EnsurePool
<1>8. ASSUME CreatePool(t) PROVE Mode(t) = "create" /\ ModeGoes(t, "acquire")
  BY <1>0, <1>a, <1>d, <1>8 DEF CreatePool
<1>9. ASSUME CreateFails(t) PROVE Mode(t) = "create" /\ ModeGoes(t, "run")
  BY <1>0, <1>a, <1>d, <1>9 DEF CreateFails
<1>10. ASSUME Acquire(t) \/ AcquireNew(t) PROVE Mode(t) \in {"acquire", "wait"} /\ ModeGoes(t, "run")
  BY <1>0, <1>a, <1>d, <1>10 DEF Acquire, AcquireNew, Take
<1>12. ASSUME AcquireWait(t) PROVE Mode(t) = "acquire" /\ ModeGoes(t, "wait")
  BY <1>0, <1>a, <1>d, <1>12 DEF AcquireWait
<1>13. ASSUME AcquireFails(t) PROVE Mode(t) \in {"acquire", "wait", "ensure"} /\ ModeGoes(t, "run")
  BY <1>0, <1>a, <1>d, <1>13 DEF AcquireFails
<1>14. ASSUME TaskDone(t) PROVE Mode(t) = "done" /\ (ModeGoes(t, "reap") \/ ModeGoes(t, "gone"))
  <2>1. (Goto(t, "reap") \/ Goto(t, "gone")) /\ \A u \in Tasks : u # t => rel'[u] = rel[u]
    BY <1>14 DEF TaskDone, Typed
  <2> QED
    BY <1>0, <1>a, <1>14, <2>1, ModeMoves DEF TaskDone
<1>15. ASSUME Reap(t) PROVE Mode(t) = "reap" /\ ModeGoes(t, "gone")
  BY <1>0, <1>a, <1>15, ModeRelease DEF Reap
<1>16. ASSUME WaitReleases(t) PROVE Mode(t) = "wait_releases" /\ (ModesStay \/ ModeGoes(t, "reclaim"))
  <2>1. /\ pc[t] = "wait_releases" /\ rel' = rel
        /\ Goto(t, "reclaim") \/ pc' = pc
    BY <1>16 DEF WaitReleases
  <2>2. pc' = pc => ModesStay
    BY <2>1 DEF ModesStay, Mode
  <2> QED
    BY <1>0, <1>a, <1>d, <2>1, <2>2
<1>17. ASSUME Reclaim(t) PROVE Mode(t) = "reclaim" /\ ModesStay
  <2>1. pc[t] = "reclaim" /\ \E c : Release(t, c, "reclaim")
    BY <1>17 DEF Reclaim
  <2> QED
    BY <1>0, <1>a, <1>c, <2>1, ModeRelease
<1>18. ASSUME Reclaimed(t) PROVE Mode(t) = "reclaim" /\ ModeGoes(t, "pool_close")
  BY <1>0, <1>a, <1>d, <1>18 DEF Reclaimed
<1>19. ASSUME pc' = pc, rel' = rel PROVE ModesStay
  BY <1>19 DEF ModesStay, Mode
<1>20. ASSUME PoolClosed(t) PROVE Mode(t) = "pool_close" /\ ModeGoes(t, "run")
  BY <1>0, <1>a, <1>d, <1>20 DEF PoolClosed
<1>21. ASSUME Connect(t) PROVE Mode(t) = "run" /\ ModeGoes(t, "ensure")
  <2>1. pc[t] = "run" /\ (Release(t, cur[Current(t)], "ensure") \/ (Goto(t, "ensure") /\ rel' = rel))
    BY <1>21 DEF Connect
  <2> QED
    BY <1>0, <1>a, <1>d, <2>1, ModeRelease
<1>22. ASSUME AClose(t) PROVE Mode(t) = "run" /\ ModesStay
  BY <1>0, <1>a, <1>c, <1>22, ModeRelease DEF AClose
<1>23. ASSUME Drain(t) \/ Begin(t) \/ End(t) \/ LeftOpen(t) PROVE ModesStay
  BY <1>19, <1>23 DEF Drain, Begin, End, LeftOpen
<1>26. ASSUME Finish(t) PROVE Mode(t) = "run" /\ ModeGoes(t, "done")
  BY <1>0, <1>a, <1>d, <1>26 DEF Finish
<1>27. ASSUME ClosePool(t) PROVE Mode(t) = "run" /\ ModeGoes(t, "wait_releases")
  BY <1>0, <1>a, <1>d, <1>27 DEF ClosePool
<1>28. ASSUME NEW v \in Tasks, Spawn(t, v) PROVE Mode(v) = "unborn" /\ ModeGoes(v, "run")
  BY <1>0, <1>a, <1>d, <1>28 DEF Spawn
<1>29. ASSUME CancelClose(t)
       PROVE  Mode(t) \in {"reclaim", "pool_close", "cancelled"} /\ ModeGoes(t, "run")
  BY <1>0, <1>a, <1>d, <1>29 DEF CancelClose
<1>30. ASSUME CancelRelease(t) PROVE Mode(t) = rel[t].then /\ ModeGoes(t, "run")
  <2>1. pc[t] \in InRelease /\ Goto(t, "run") /\ \A u \in Tasks : u # t => rel'[u] = rel[u]
    BY <1>30 DEF CancelRelease, Typed
  <2> QED
    BY <1>0, <1>b, <2>1, ModeMoves
<1>34. ASSUME CancelGather(t) PROVE Mode(t) = "wait_releases" /\ ModeGoes(t, "cancelled")
  BY <1>0, <1>a, <1>d, <1>34 DEF CancelGather
<1>35. ASSUME CutRelease(t) PROVE Mode(t) \in {"reap", "gone"} /\ ModeGoes(t, "gone")
  <2>1. /\ pc[t] \in InRelease \cup {"reap"} /\ rel[t].then = "gone" /\ Goto(t, "gone")
        /\ \A u \in Tasks : u # t => rel'[u] = rel[u]
    BY <1>35 DEF CutRelease, After, Typed
  <2> QED
    BY <1>0, <1>a, <1>b, <2>1, ModeMoves
<1>31. ASSUME NEW c \in Conns, Drop(c) PROVE ModesStay
  BY <1>19, <1>31 DEF Drop
<1> QED
  BY <1>1, <1>2, <1>3, <1>4, <1>5, <1>6, <1>7, <1>8, <1>9, <1>10, <1>12, <1>13,
     <1>14, <1>15, <1>16, <1>17, <1>18, <1>20, <1>21, <1>22, <1>23, <1>26, <1>27, <1>28,
     <1>29, <1>30, <1>31, <1>34, <1>35

-----------------------------------------------------------------------------
(***************************************************************************)
(* Who makes the pool and who closes it.                                   *)
(***************************************************************************)

\* Tasks that close the pool, or make one, go on, and others do not begin.
ClosersSame ==
    /\ faults' = faults /\ poolLock' = poolLock /\ pool' = pool /\ closed' = closed
    /\ pools' = pools /\ closing' = closing
    /\ \A u \in Tasks : \/ Mode(u)' = Mode(u) /\ got'[u] = got[u]
                        \/ Mode(u)' \notin Closing \cup {"create"}
                        \/ Mode(u) = "wait_releases" /\ Mode(u)' \in {"reclaim", "cancelled"}

\* Nothing changes for them.
LEMMA ClosersCalm == ASSUME Closers, ClosersSame PROVE Closers'
<1>1. \A u \in Tasks : /\ Mode(u)' = "create" => Mode(u) = "create"
                       /\ Mode(u)' = "pool_close" => Mode(u) = "pool_close" /\ got'[u] = got[u]
                       /\ Mode(u)' \in Closing => Mode(u) \in Closing
  BY DEF ClosersSame, Closing
<1> QED
  BY <1>1 DEF Closers, ClosersSame

\* Who makes a pool and who closes it stays as it should be, in every step.
LEMMA ClosersNext ==
    ASSUME Closers, Contents, Places, Typed, Context, Next
    PROVE  Closers'
<1> USE DEF setting, registry, session, closer, poolVars, conns
<1>0. /\ pool \in 0 .. pools /\ pools \in Nat /\ closed \subseteq 1 .. pools
      /\ got \in [Tasks -> 0 .. pools]
  BY DEF Contents, Lots
<1>a. ASSUME faults' = faults, poolLock' = poolLock, pool' = pool, closed' = closed,
             pools' = pools, closing' = closing, got' = got,
             ModesStay \/ \E u \in Tasks : \E x : ModeGoes(u, x) /\ x \notin Closing \cup {"create"}
      PROVE  Closers'
  <2>1. ClosersSame
    BY <1>a DEF ClosersSame, ModesStay, ModeGoes
  <2> QED
    BY <2>1, ClosersCalm
<1>b. \A x \in {"acquire", "run", "wait", "reap", "gone", "ensure", "done"} :
         x \notin Closing \cup {"create"}
  BY DEF Closing
<1>1. ASSUME NEW t \in Tasks, Rollback(t) PROVE Closers'
  <2>1. ModesStay
    BY <1>1, Modes
  <2>2. /\ faults' = faults /\ poolLock' = poolLock /\ pool' = pool /\ closed' = closed
        /\ pools' = pools /\ closing' = closing /\ got' = got
    BY <1>1 DEF Rollback
  <2> QED
    BY <1>a, <1>b, <2>1, <2>2
<1>2. ASSUME NEW t \in Tasks, RollbackFails(t) PROVE Closers'
  <2>1. ModesStay
    BY <1>2, Modes
  <2>2. /\ faults' = faults /\ poolLock' = poolLock /\ pool' = pool /\ closed' = closed
        /\ pools' = pools /\ closing' = closing /\ got' = got
    BY <1>2 DEF RollbackFails
  <2> QED
    BY <1>a, <1>b, <2>1, <2>2
<1>3. ASSUME NEW t \in Tasks, Discard(t) PROVE Closers'
  <2>1. ModesStay
    BY <1>3, Modes
  <2>2. /\ faults' = faults /\ poolLock' = poolLock /\ pool' = pool /\ closed' = closed
        /\ pools' = pools /\ closing' = closing /\ got' = got
    BY <1>3 DEF Discard
  <2> QED
    BY <1>a, <1>b, <2>1, <2>2
<1>4. ASSUME NEW t \in Tasks, Recreate(t) PROVE Closers'
  <2>1. ModesStay
    BY <1>4, Modes
  <2>2. /\ faults' = faults /\ poolLock' = poolLock /\ pool' = pool /\ closed' = closed
        /\ pools' = pools /\ closing' = closing /\ got' = got
    BY <1>4 DEF Recreate
  <2> QED
    BY <1>a, <1>b, <2>1, <2>2
<1>5. ASSUME NEW t \in Tasks, RecreateFails(t) PROVE Closers'
  <2>1. ModesStay
    BY <1>5, Modes
  <2>2. /\ faults' = faults /\ poolLock' = poolLock /\ pool' = pool /\ closed' = closed
        /\ pools' = pools /\ closing' = closing /\ got' = got
    BY <1>5 DEF RecreateFails, After
  <2> QED
    BY <1>a, <1>b, <2>1, <2>2
<1>6. ASSUME NEW t \in Tasks, CloseConn(t) PROVE Closers'
  <2>1. ModesStay
    BY <1>6, Modes
  <2>2. /\ faults' = faults /\ poolLock' = poolLock /\ pool' = pool /\ closed' = closed
        /\ pools' = pools /\ closing' = closing /\ got' = got
    BY <1>6 DEF CloseConn, After
  <2> QED
    BY <1>a, <1>b, <2>1, <2>2
<1>7. ASSUME NEW t \in Tasks, EnsurePool(t) PROVE Closers'
  <2>1. Mode(t) = "ensure" /\ ModeGoes(t, IF pool # 0 THEN "acquire" ELSE "create")
    BY <1>7, Modes
  <2>2. CASE pool # 0
    <3>1. /\ faults' = faults /\ poolLock' = poolLock /\ pool' = pool /\ closed' = closed
          /\ pools' = pools /\ closing' = closing /\ got' = [got EXCEPT ![t] = pool]
      BY <1>7, <2>2 DEF EnsurePool
    <3>2. \A u \in Tasks : \/ Mode(u)' = Mode(u) /\ got'[u] = got[u]
                           \/ Mode(u)' \notin Closing \cup {"create"}
      BY <1>b, <2>1, <2>2, <3>1 DEF ModeGoes
    <3> QED
      BY <3>1, <3>2, ClosersCalm DEF ClosersSame
  <2>3. CASE pool = 0
    <3>1. /\ faults' = faults /\ poolLock' = t /\ pool' = 0 /\ closed' = closed /\ poolLock = None
          /\ pools' = pools /\ closing' = closing /\ got' = got
      BY <1>7, <2>3 DEF EnsurePool
    <3>2. Mode(t)' = "create" /\ \A u \in Tasks : u # t => Mode(u)' = Mode(u)
      BY <2>1, <2>3 DEF ModeGoes
    <3>3. \A u \in Tasks : Mode(u) # "create"
      BY <3>1 DEF Closers
    <3>4. "create" \notin Closing /\ "create" # "pool_close"
      BY DEF Closing
    <3>5. \A u \in Tasks : /\ Mode(u)' = "create" => u = t
                           /\ Mode(u)' \in Closing => Mode(u) \in Closing
                           /\ Mode(u)' = "pool_close" => Mode(u) = "pool_close"
      BY <3>2, <3>3, <3>4
    <3> QED
      BY <2>3, <3>1, <3>5 DEF Closers
  <2> QED
    BY <2>2, <2>3
<1>8. ASSUME NEW t \in Tasks, CreatePool(t) PROVE Closers'
  <2>1. Mode(t) = "create" /\ ModeGoes(t, "acquire")
    BY <1>8, Modes
  <2>2. /\ faults' = faults /\ poolLock' = None /\ pool' = pools + 1 /\ closed' = closed
        /\ pools' = pools + 1 /\ closing' = closing /\ got' = [got EXCEPT ![t] = pools + 1]
    BY <1>8 DEF CreatePool
  <2>3. poolLock = t /\ pool = 0
    BY <2>1 DEF Closers
  <2>4. \A u \in Tasks : Mode(u)' # "create"
    BY <2>1, <2>3 DEF Closers, ModeGoes
  <2>5. \A u \in Tasks : /\ Mode(u)' \in Closing => Mode(u) \in Closing
                         /\ Mode(u)' = "pool_close" => Mode(u) = "pool_close" /\ got'[u] = got[u]
    BY <1>0, <1>b, <2>1, <2>2 DEF ModeGoes
  <2>6. \A u \in Tasks : (Mode(u) = "pool_close" => got[u] \in closed \cup {0})'
    BY <2>2, <2>5 DEF Closers
  <2>7. "two_closers" \notin faults =>
          /\ \A u \in Tasks : Mode(u) \notin Closing
          /\ (1 .. pools') \ closed' \subseteq {pool'}
    <3> SUFFICES ASSUME "two_closers" \notin faults
                 PROVE  /\ \A u \in Tasks : Mode(u) \notin Closing
                        /\ (1 .. pools') \ closed' \subseteq {pool'}
      OBVIOUS
    <3>1. (1 .. pools) \ closed \subseteq {0} /\ \A u \in Tasks : Mode(u) \notin Closing
      BY <2>3 DEF Closers
    <3> QED
      BY <1>0, <2>2, <3>1
  <2>8. "two_closers" \notin faults => \A u \in Tasks : Mode(u)' \notin Closing
    BY <2>5, <2>7
  <2>9. "pool_close" \in Closing
    BY DEF Closing
  <2> QED
    BY <2>2, <2>4, <2>6, <2>7, <2>8, <2>9 DEF Closers
<1>9. ASSUME NEW t \in Tasks, CreateFails(t) PROVE Closers'
  <2>1. Mode(t) = "create" /\ ModeGoes(t, "run")
    BY <1>9, Modes
  <2>2. /\ faults' = faults /\ pool' = pool /\ closed' = closed
        /\ pools' = pools /\ closing' = closing /\ got' = got
    BY <1>9 DEF CreateFails
  <2>3. \A u \in Tasks : Mode(u)' # "create"
    BY <2>1 DEF Closers, ModeGoes
  <2>4. \A u \in Tasks : /\ Mode(u)' \in Closing => Mode(u) \in Closing
                         /\ Mode(u)' = "pool_close" => Mode(u) = "pool_close"
    BY <1>b, <2>1 DEF ModeGoes
  <2> QED
    BY <2>2, <2>3, <2>4 DEF Closers
<1>10. ASSUME NEW t \in Tasks, Acquire(t) PROVE Closers'
  <2>1. ModeGoes(t, "run")
    BY <1>10, Modes
  <2>2. /\ faults' = faults /\ poolLock' = poolLock /\ pool' = pool /\ closed' = closed
        /\ pools' = pools /\ closing' = closing /\ got' = got
    BY <1>10 DEF Acquire, Take
  <2> QED
    BY <1>a, <1>b, <2>1, <2>2
<1>11. ASSUME NEW t \in Tasks, AcquireNew(t) PROVE Closers'
  <2>1. ModeGoes(t, "run")
    BY <1>11, Modes
  <2>2. /\ faults' = faults /\ poolLock' = poolLock /\ pool' = pool /\ closed' = closed
        /\ pools' = pools /\ closing' = closing /\ got' = got
    BY <1>11 DEF AcquireNew, Take
  <2> QED
    BY <1>a, <1>b, <2>1, <2>2
<1>12. ASSUME NEW t \in Tasks, AcquireWait(t) PROVE Closers'
  <2>1. ModeGoes(t, "wait")
    BY <1>12, Modes
  <2>2. /\ faults' = faults /\ poolLock' = poolLock /\ pool' = pool /\ closed' = closed
        /\ pools' = pools /\ closing' = closing /\ got' = got
    BY <1>12 DEF AcquireWait
  <2> QED
    BY <1>a, <1>b, <2>1, <2>2
<1>13. ASSUME NEW t \in Tasks, AcquireFails(t) PROVE Closers'
  <2>1. ModeGoes(t, "run")
    BY <1>13, Modes
  <2>2. /\ faults' = faults /\ poolLock' = poolLock /\ pool' = pool /\ closed' = closed
        /\ pools' = pools /\ closing' = closing /\ got' = got
    BY <1>13 DEF AcquireFails
  <2> QED
    BY <1>a, <1>b, <2>1, <2>2
<1>14. ASSUME NEW t \in Tasks, TaskDone(t) PROVE Closers'
  <2>1. ModeGoes(t, "reap") \/ ModeGoes(t, "gone")
    BY <1>14, Modes
  <2>2. /\ faults' = faults /\ poolLock' = poolLock /\ pool' = pool /\ closed' = closed
        /\ pools' = pools /\ closing' = closing /\ got' = got
    BY <1>14 DEF TaskDone
  <2> QED
    BY <1>a, <1>b, <2>1, <2>2
<1>15. ASSUME NEW t \in Tasks, Reap(t) PROVE Closers'
  <2>1. ModeGoes(t, "gone")
    BY <1>15, Modes
  <2>2. /\ faults' = faults /\ poolLock' = poolLock /\ pool' = pool /\ closed' = closed
        /\ pools' = pools /\ closing' = closing /\ got' = got
    BY <1>15 DEF Reap
  <2> QED
    BY <1>a, <1>b, <2>1, <2>2
<1>16. ASSUME NEW t \in Tasks, WaitReleases(t) PROVE Closers'
  <2>1. Mode(t) = "wait_releases" /\ (ModesStay \/ ModeGoes(t, "reclaim"))
    BY <1>16, Modes
  <2>2. /\ faults' = faults /\ poolLock' = poolLock /\ pool' = pool /\ closed' = closed
        /\ pools' = pools /\ closing' = closing /\ got' = got
    BY <1>16 DEF WaitReleases
  <2>3. \A u \in Tasks : \/ Mode(u)' = Mode(u) /\ got'[u] = got[u]
                         \/ Mode(u) = "wait_releases" /\ Mode(u)' = "reclaim"
    BY <2>1, <2>2 DEF ModesStay, ModeGoes
  <2> QED
    BY <2>2, <2>3, ClosersCalm DEF ClosersSame
<1>17. ASSUME NEW t \in Tasks, Reclaim(t) PROVE Closers'
  <2>1. ModesStay
    BY <1>17, Modes
  <2>2. /\ faults' = faults /\ poolLock' = poolLock /\ pool' = pool /\ closed' = closed
        /\ pools' = pools /\ closing' = closing /\ got' = got
    BY <1>17 DEF Reclaim
  <2> QED
    BY <1>a, <1>b, <2>1, <2>2
<1>18. ASSUME NEW t \in Tasks, Reclaimed(t) PROVE Closers'
  <2>1. Mode(t) = "reclaim" /\ ModeGoes(t, "pool_close")
    BY <1>18, Modes
  <2>2. /\ faults' = faults /\ poolLock' = poolLock /\ pool' = pool
        /\ closed' = closed \cup ({pool} \ {0})
        /\ pools' = pools /\ closing' = closing /\ got' = [got EXCEPT ![t] = pool]
    BY <1>18 DEF Reclaimed
  <2>3. \A u \in Tasks : /\ Mode(u)' = "create" => Mode(u) = "create"
                         /\ Mode(u)' \in Closing => Mode(u) \in Closing
                         /\ u # t => Mode(u)' = Mode(u)
    BY <2>1 DEF ModeGoes, Closing
  <2>4. \A u \in Tasks : got'[u] = IF u = t THEN pool ELSE got[u]
    BY <1>0, <2>2
  <2>5. \A u \in Tasks : (Mode(u) = "pool_close" => got[u] \in closed \cup {0})'
    BY <2>2, <2>3, <2>4 DEF Closers
  <2>6. "two_closers" \notin faults =>
           \A u \in Tasks : Mode(u)' \in Closing =>
              closing = TRUE /\ pool # 0 /\ (Mode(u)' = "pool_close" => got'[u] = pool)
    BY <2>3, <2>4 DEF Closers
  <2>7. "two_closers" \notin faults => (1 .. pools') \ closed' \subseteq {pool'}
    BY <2>2 DEF Closers
  <2> QED
    BY <2>2, <2>3, <2>5, <2>6, <2>7 DEF Closers
<1>19. ASSUME NEW t \in Tasks, Drain(t) PROVE Closers'
  <2>1. ModesStay
    BY <1>19, Modes
  <2>2. /\ faults' = faults /\ poolLock' = poolLock /\ pool' = pool /\ closed' = closed
        /\ pools' = pools /\ closing' = closing /\ got' = got
    BY <1>19 DEF Drain
  <2> QED
    BY <1>a, <1>b, <2>1, <2>2
<1>20. ASSUME NEW t \in Tasks, PoolClosed(t) PROVE Closers'
  <2>1. Mode(t) = "pool_close" /\ ModeGoes(t, "run")
    BY <1>20, Modes
  <2>2. /\ faults' = faults /\ poolLock' = poolLock /\ pool' = 0
        /\ closed' = closed /\ pools' = pools /\ got' = got
    BY <1>20 DEF PoolClosed
  <2>3. \A u \in Tasks : /\ Mode(u)' = "create" => Mode(u) = "create"
                         /\ Mode(u)' \in Closing => Mode(u) \in Closing /\ u # t
                         /\ Mode(u)' = "pool_close" => Mode(u) = "pool_close"
    BY <1>b, <2>1 DEF ModeGoes
  <2>4. "pool_close" \in Closing
    BY DEF Closing
  <2>5. "two_closers" \notin faults => \A u \in Tasks : Mode(u)' \notin Closing
    BY <2>1, <2>3, <2>4 DEF Closers
  <2>6. "two_closers" \notin faults => (1 .. pools') \ closed' \subseteq {pool'}
    <3> SUFFICES ASSUME "two_closers" \notin faults PROVE (1 .. pools') \ closed' \subseteq {pool'}
      OBVIOUS
    <3>1. got[t] = pool /\ pool # 0 /\ got[t] \in closed \cup {0}
      BY <2>1, <2>4 DEF Closers
    <3>2. pool \in closed /\ (1 .. pools) \ closed \subseteq {pool}
      BY <3>1 DEF Closers
    <3> QED
      BY <2>2, <3>2
  <2> QED
    BY <2>2, <2>3, <2>4, <2>5, <2>6 DEF Closers
<1>21. ASSUME NEW t \in Tasks, Connect(t) PROVE Closers'
  <2>1. ModeGoes(t, "ensure")
    BY <1>21, Modes
  <2>2. /\ faults' = faults /\ poolLock' = poolLock /\ pool' = pool /\ closed' = closed
        /\ pools' = pools /\ closing' = closing /\ got' = got
    BY <1>21 DEF Connect
  <2> QED
    BY <1>a, <1>b, <2>1, <2>2
<1>22. ASSUME NEW t \in Tasks, AClose(t) PROVE Closers'
  <2>1. ModesStay
    BY <1>22, Modes
  <2>2. /\ faults' = faults /\ poolLock' = poolLock /\ pool' = pool /\ closed' = closed
        /\ pools' = pools /\ closing' = closing /\ got' = got
    BY <1>22 DEF AClose
  <2> QED
    BY <1>a, <1>b, <2>1, <2>2
<1>23. ASSUME NEW t \in Tasks, Begin(t) PROVE Closers'
  <2>1. ModesStay
    BY <1>23, Modes
  <2>2. /\ faults' = faults /\ poolLock' = poolLock /\ pool' = pool /\ closed' = closed
        /\ pools' = pools /\ closing' = closing /\ got' = got
    BY <1>23 DEF Begin
  <2> QED
    BY <1>a, <1>b, <2>1, <2>2
<1>24. ASSUME NEW t \in Tasks, End(t) PROVE Closers'
  <2>1. ModesStay
    BY <1>24, Modes
  <2>2. /\ faults' = faults /\ poolLock' = poolLock /\ pool' = pool /\ closed' = closed
        /\ pools' = pools /\ closing' = closing /\ got' = got
    BY <1>24 DEF End
  <2> QED
    BY <1>a, <1>b, <2>1, <2>2
<1>25. ASSUME NEW t \in Tasks, LeftOpen(t) PROVE Closers'
  <2>1. ModesStay
    BY <1>25, Modes
  <2>2. /\ faults' = faults /\ poolLock' = poolLock /\ pool' = pool /\ closed' = closed
        /\ pools' = pools /\ closing' = closing /\ got' = got
    BY <1>25 DEF LeftOpen
  <2> QED
    BY <1>a, <1>b, <2>1, <2>2
<1>26. ASSUME NEW t \in Tasks, Finish(t) PROVE Closers'
  <2>1. ModeGoes(t, "done")
    BY <1>26, Modes
  <2>2. /\ faults' = faults /\ poolLock' = poolLock /\ pool' = pool /\ closed' = closed
        /\ pools' = pools /\ closing' = closing /\ got' = got
    BY <1>26 DEF Finish
  <2> QED
    BY <1>a, <1>b, <2>1, <2>2
<1>27. ASSUME NEW t \in Tasks, ClosePool(t) PROVE Closers'
  <2>1. Mode(t) = "run" /\ ModeGoes(t, "wait_releases")
    BY <1>27, Modes
  <2>2. /\ faults' = faults /\ poolLock' = poolLock /\ pool' = pool /\ pool # 0
        /\ closed' = closed /\ pools' = pools /\ got' = got /\ closing' = TRUE
        /\ "two_closers" \in faults \/ ~closing
    BY <1>27 DEF ClosePool
  <2>3. \A u \in Tasks : /\ Mode(u)' = "create" => Mode(u) = "create"
                         /\ Mode(u)' \in Closing => Mode(u) \in Closing \/ u = t
                         /\ Mode(u)' = "pool_close" => Mode(u) = "pool_close"
    BY <2>1 DEF ModeGoes, Closing
  <2>4. "two_closers" \notin faults => \A u \in Tasks : Mode(u) \notin Closing
    BY <2>2 DEF Closers
  <2>5. "two_closers" \notin faults => \A u \in Tasks : Mode(u)' \in Closing => u = t
    BY <2>3, <2>4
  <2>6. "two_closers" \notin faults => \A u \in Tasks : Mode(u)' # "pool_close"
    BY <2>3, <2>4 DEF Closing
  <2> QED
    BY <2>2, <2>3, <2>5, <2>6 DEF Closers
<1>28. ASSUME NEW t \in Tasks, NEW v \in Tasks, Spawn(t, v) PROVE Closers'
  <2>1. ModeGoes(v, "run")
    BY <1>28, Modes
  <2>2. /\ faults' = faults /\ poolLock' = poolLock /\ pool' = pool /\ closed' = closed
        /\ pools' = pools /\ closing' = closing /\ got' = got
    BY <1>28 DEF Spawn
  <2> QED
    BY <1>a, <1>b, <2>1, <2>2
<1>29. ASSUME NEW t \in Tasks, CancelClose(t) PROVE Closers'
  <2>1. Mode(t) \in {"reclaim", "pool_close", "cancelled"} /\ ModeGoes(t, "run")
    BY <1>29, Modes
  <2>2. /\ faults' = faults /\ poolLock' = poolLock /\ pool' = pool
        /\ closed' = closed /\ pools' = pools /\ got' = got
    BY <1>29 DEF CancelClose
  <2>3. \A u \in Tasks : /\ Mode(u)' = "create" => Mode(u) = "create"
                         /\ Mode(u)' \in Closing => Mode(u) \in Closing /\ u # t
                         /\ Mode(u)' = "pool_close" => Mode(u) = "pool_close"
    BY <1>b, <2>1 DEF ModeGoes
  <2>4. {"reclaim", "pool_close", "cancelled"} \subseteq Closing
    BY DEF Closing
  <2>5. "two_closers" \notin faults => \A u \in Tasks : Mode(u)' \notin Closing
    BY <2>1, <2>3, <2>4 DEF Closers
  <2> QED
    BY <2>2, <2>3, <2>4, <2>5 DEF Closers
<1>30. ASSUME NEW t \in Tasks, CancelRelease(t) PROVE Closers'
  <2>1. Mode(t) = rel[t].then /\ ModeGoes(t, "run")
    BY <1>30, Modes
  <2>2. /\ faults' = faults /\ poolLock' = poolLock /\ pool' = pool
        /\ closed' = closed /\ pools' = pools /\ got' = got
        /\ closing' = (closing /\ rel[t].then # "reclaim")
    BY <1>30 DEF CancelRelease
  <2>3. \A u \in Tasks : /\ Mode(u)' = "create" => Mode(u) = "create"
                         /\ Mode(u)' \in Closing => Mode(u) \in Closing /\ u # t
                         /\ Mode(u)' = "pool_close" => Mode(u) = "pool_close"
    BY <1>b, <2>1 DEF ModeGoes
  <2>4. {"reclaim", "pool_close"} \subseteq Closing
    BY DEF Closing
  <2>5. "two_closers" \notin faults /\ rel[t].then = "reclaim" =>
           \A u \in Tasks : Mode(u)' \notin Closing
    BY <2>1, <2>3, <2>4 DEF Closers
  <2>6. rel[t].then # "reclaim" /\ closing = TRUE => closing' = TRUE
    BY <2>2
  <2> QED
    BY <2>2, <2>3, <2>4, <2>5, <2>6 DEF Closers
<1>31. ASSUME NEW c \in Conns, Drop(c) PROVE Closers'
  <2>1. ModesStay
    BY <1>31 DEF Drop, ModesStay, Mode
  <2>2. /\ faults' = faults /\ poolLock' = poolLock /\ pool' = pool /\ closed' = closed
        /\ pools' = pools /\ closing' = closing /\ got' = got
    BY <1>31 DEF Drop
  <2> QED
    BY <1>a, <1>b, <2>1, <2>2
<1>34. ASSUME NEW t \in Tasks, CancelGather(t) PROVE Closers'
  <2>1. Mode(t) = "wait_releases" /\ ModeGoes(t, "cancelled")
    BY <1>34, Modes
  <2>2. /\ faults' = faults /\ poolLock' = poolLock /\ pool' = pool /\ closed' = closed
        /\ pools' = pools /\ closing' = closing /\ got' = got
    BY <1>34 DEF CancelGather
  <2>3. \A u \in Tasks : \/ Mode(u)' = Mode(u) /\ got'[u] = got[u]
                         \/ Mode(u) = "wait_releases" /\ Mode(u)' = "cancelled"
    BY <2>1, <2>2 DEF ModeGoes
  <2> QED
    BY <2>2, <2>3, ClosersCalm DEF ClosersSame
<1>35. ASSUME NEW t \in Tasks, CutRelease(t) PROVE Closers'
  <2>1. ModeGoes(t, "gone")
    BY <1>35, Modes
  <2>2. /\ faults' = faults /\ poolLock' = poolLock /\ pool' = pool /\ closed' = closed
        /\ pools' = pools /\ closing' = closing /\ got' = got
    BY <1>35 DEF CutRelease
  <2> QED
    BY <1>a, <1>b, <2>1, <2>2
<1>32. ASSUME NEW t \in Tasks, Step(t) PROVE Closers'
  BY <1>1, <1>2, <1>3, <1>4, <1>5, <1>6, <1>7, <1>8, <1>9, <1>10, <1>11, <1>12, <1>13,
     <1>14, <1>15, <1>16, <1>17, <1>18, <1>19, <1>20, <1>32 DEF Step
<1>33. ASSUME NEW t \in Tasks, Call(t) PROVE Closers'
  BY <1>21, <1>22, <1>23, <1>24, <1>25, <1>26, <1>27, <1>28, <1>33 DEF Call
<1> QED
  BY <1>29, <1>30, <1>31, <1>32, <1>33, <1>34, <1>35 DEF Next

-----------------------------------------------------------------------------
(***************************************************************************)
(* Who is registered.                                                      *)
(***************************************************************************)

\* Task u stays registered if it was, has what it had or nothing, and does not begin to
\* acquire.
RegSame(u) ==
    /\ u \in states => u \in states' \/ (cur'[u] = 0 /\ Mode(u)' \notin Acquiring)
    /\ u \in hooked => u \in hooked'
    /\ cur'[u] \in {cur[u], 0}
    /\ \/ Mode(u)' = Mode(u)
       \/ Mode(u)' \in {"run", "done"} \cup Closing
       \/ Mode(u)' \in Acquiring /\ Mode(u) \in Acquiring

\* Such a task is registered as it was.
LEMMA RegKeeps ==
    ASSUME Contents, Places, Grown, NEW u \in Tasks, Registered(u), RegSame(u)
    PROVE  Registered(u)'
<1>1. cur[u] \in 0 .. made /\ 0 \in 0 .. made /\ 0 \notin open
  BY SomeNumbers DEF Contents
<1>2. cur'[u] \in open' => cur[u] \in open
  BY <1>1 DEF Grown, RegSame
<1>3. Acquiring \cap ({"run", "done"} \cup Closing) = {}
      /\ {"unborn", "gone", "reap"} \cap ({"run", "done"} \cup Closing \cup Acquiring) = {}
  BY DEF Acquiring, Closing
<1>4. Mode(u)' \in Acquiring => Mode(u) \in Acquiring
  BY <1>3 DEF RegSame
<1>5. (cur[u] # 0 \/ Mode(u) \in Acquiring => u \in states /\ u \in hooked)'
  BY <1>4 DEF RegSame, Registered
<1>6. (Mode(u) \in Acquiring => cur[u] \notin open)'
  BY <1>2, <1>4 DEF Registered
<1>7. (Mode(u) \in {"unborn", "gone", "reap"} => cur[u] = 0)'
  BY <1>3 DEF RegSame, Registered
<1> QED
  BY <1>5, <1>6, <1>7 DEF Registered

\* Every task that acquires or has a connection is in the registry, and has the callback,
\* in every step.
LEMMA RegisteredNext ==
    ASSUME \A u \in Tasks : Registered(u), Contents, Places, Typed, Context, Next
    PROVE  \A u \in Tasks : Registered(u)'
<1> USE DEF setting, registry, session, closer, poolVars, conns
<1>0. Grown /\ cur \in [Tasks -> Nat] /\ \A u \in Tasks : Current(u) = u
  BY AlwaysGrown, CurrentIsOwn DEF Contents, Places, Numbers
\* A task that moves without its registration.
<1>a. ASSUME states' = states, hooked' = hooked, cur' = cur,
             \/ ModesStay
             \/ \E v \in Tasks : \E x : /\ ModeGoes(v, x)
                                        /\ \/ x \in {"run", "done"} \cup Closing
                                           \/ x \in Acquiring /\ Mode(v) \in Acquiring
      PROVE  \A u \in Tasks : Registered(u)'
  <2>1. \A u \in Tasks : RegSame(u)
    BY <1>a DEF RegSame, ModesStay, ModeGoes
  <2> QED
    BY <1>0, <2>1, RegKeeps
<1>b. /\ {"ensure", "create", "acquire", "wait"} \subseteq Acquiring
      /\ {"wait_releases", "cancelled", "reclaim", "pool_close"} \subseteq Closing
      /\ \A x \in {"run", "done", "unborn", "gone", "reap"} \cup Closing : x \notin Acquiring
      /\ \A x \in Closing : x \notin {"run", "done", "unborn", "gone", "reap"}
  BY DEF Acquiring, Closing
<1>1. ASSUME NEW t \in Tasks, Rollback(t) PROVE \A u \in Tasks : Registered(u)'
  <2>1. ModesStay
    BY <1>1, Modes
  <2>2. states' = states /\ hooked' = hooked /\ cur' = cur
    BY <1>1 DEF Rollback
  <2> QED
    BY <1>a, <1>b, <2>1, <2>2
<1>2. ASSUME NEW t \in Tasks, RollbackFails(t) PROVE \A u \in Tasks : Registered(u)'
  <2>1. ModesStay
    BY <1>2, Modes
  <2>2. states' = states /\ hooked' = hooked /\ cur' = cur
    BY <1>2 DEF RollbackFails
  <2> QED
    BY <1>a, <1>b, <2>1, <2>2
<1>3. ASSUME NEW t \in Tasks, Discard(t) PROVE \A u \in Tasks : Registered(u)'
  <2>1. ModesStay
    BY <1>3, Modes
  <2>2. states' = states /\ hooked' = hooked /\ cur' = cur
    BY <1>3 DEF Discard
  <2> QED
    BY <1>a, <1>b, <2>1, <2>2
<1>4. ASSUME NEW t \in Tasks, Recreate(t) PROVE \A u \in Tasks : Registered(u)'
  <2>1. ModesStay
    BY <1>4, Modes
  <2>2. states' = states /\ hooked' = hooked /\ cur' = cur
    BY <1>4 DEF Recreate
  <2> QED
    BY <1>a, <1>b, <2>1, <2>2
<1>5. ASSUME NEW t \in Tasks, RecreateFails(t) PROVE \A u \in Tasks : Registered(u)'
  <2>1. ModesStay
    BY <1>5, Modes
  <2>2. states' = states /\ hooked' = hooked /\ cur' = cur
    BY <1>5 DEF RecreateFails
  <2> QED
    BY <1>a, <1>b, <2>1, <2>2
<1>6. ASSUME NEW t \in Tasks, CloseConn(t) PROVE \A u \in Tasks : Registered(u)'
  <2>1. ModesStay
    BY <1>6, Modes
  <2>2. states' = states /\ hooked' = hooked /\ cur' = cur
    BY <1>6 DEF CloseConn
  <2> QED
    BY <1>a, <1>b, <2>1, <2>2
<1>7. ASSUME NEW t \in Tasks, EnsurePool(t) PROVE \A u \in Tasks : Registered(u)'
  <2>1. Mode(t) = "ensure" /\ (ModeGoes(t, "acquire") \/ ModeGoes(t, "create"))
    BY <1>7, Modes
  <2>2. states' = states /\ hooked' = hooked /\ cur' = cur
    BY <1>7 DEF EnsurePool
  <2> QED
    BY <1>a, <1>b, <2>1, <2>2
<1>8. ASSUME NEW t \in Tasks, CreatePool(t) PROVE \A u \in Tasks : Registered(u)'
  <2>1. Mode(t) = "create" /\ ModeGoes(t, "acquire")
    BY <1>8, Modes
  <2>2. states' = states /\ hooked' = hooked /\ cur' = cur
    BY <1>8 DEF CreatePool
  <2> QED
    BY <1>a, <1>b, <2>1, <2>2
<1>9. ASSUME NEW t \in Tasks, CreateFails(t) PROVE \A u \in Tasks : Registered(u)'
  <2>1. ModeGoes(t, "run")
    BY <1>9, Modes
  <2>2. states' = states /\ hooked' = hooked /\ cur' = cur
    BY <1>9 DEF CreateFails
  <2> QED
    BY <1>a, <1>b, <2>1, <2>2
<1>10. ASSUME NEW t \in Tasks, Acquire(t) PROVE \A u \in Tasks : Registered(u)'
  <2>1. Mode(t) \in {"acquire", "wait"} /\ ModeGoes(t, "run")
    BY <1>10, Modes
  <2>2. PICK c : cur' = [cur EXCEPT ![t] = c]
    BY <1>0, <1>10 DEF Acquire, Take
  <2>3. states' = states /\ hooked' = hooked
    BY <1>10 DEF Acquire
  <2>4. \A u \in Tasks : u # t => RegSame(u)
    BY <1>0, <2>1, <2>2, <2>3 DEF RegSame, ModeGoes
  <2>5. \A u \in Tasks : u # t => Registered(u)'
    BY <1>0, <2>4, RegKeeps
  <2>6. t \in states /\ t \in hooked /\ Mode(t)' = "run"
    BY <1>b, <2>1 DEF Registered, ModeGoes
  <2>7. Registered(t)'
    BY <1>b, <2>3, <2>6 DEF Registered
  <2> QED
    BY <2>5, <2>7
<1>11. ASSUME NEW t \in Tasks, AcquireNew(t) PROVE \A u \in Tasks : Registered(u)'
  <2>1. Mode(t) \in {"acquire", "wait"} /\ ModeGoes(t, "run")
    BY <1>11, Modes
  <2>2. PICK c : cur' = [cur EXCEPT ![t] = c]
    BY <1>0, <1>11 DEF AcquireNew, Take
  <2>3. states' = states /\ hooked' = hooked
    BY <1>11 DEF AcquireNew
  <2>4. \A u \in Tasks : u # t => RegSame(u)
    BY <1>0, <2>1, <2>2, <2>3 DEF RegSame, ModeGoes
  <2>5. \A u \in Tasks : u # t => Registered(u)'
    BY <1>0, <2>4, RegKeeps
  <2>6. t \in states /\ t \in hooked /\ Mode(t)' = "run"
    BY <1>b, <2>1 DEF Registered, ModeGoes
  <2>7. Registered(t)'
    BY <1>b, <2>3, <2>6 DEF Registered
  <2> QED
    BY <2>5, <2>7
<1>12. ASSUME NEW t \in Tasks, AcquireWait(t) PROVE \A u \in Tasks : Registered(u)'
  <2>1. Mode(t) = "acquire" /\ ModeGoes(t, "wait")
    BY <1>12, Modes
  <2>2. states' = states /\ hooked' = hooked /\ cur' = cur
    BY <1>12 DEF AcquireWait
  <2> QED
    BY <1>a, <1>b, <2>1, <2>2
<1>13. ASSUME NEW t \in Tasks, AcquireFails(t) PROVE \A u \in Tasks : Registered(u)'
  <2>1. ModeGoes(t, "run")
    BY <1>13, Modes
  <2>2. states' = states /\ hooked' = hooked /\ cur' = cur
    BY <1>13 DEF AcquireFails
  <2> QED
    BY <1>a, <1>b, <2>1, <2>2
<1>14. ASSUME NEW t \in Tasks, TaskDone(t) PROVE \A u \in Tasks : Registered(u)'
  <2>1. Mode(t) = "done" /\ (ModeGoes(t, "reap") \/ ModeGoes(t, "gone"))
    BY <1>14, Modes
  <2>2. /\ states' = states \/ states' = states \ {t}
        /\ hooked' = hooked
        /\ cur' = cur \/ cur' = [cur EXCEPT ![t] = 0]
    BY <1>14 DEF TaskDone
  <2>3. \A u \in Tasks : u # t => RegSame(u)
    BY <1>0, <2>1, <2>2 DEF RegSame, ModeGoes
  <2>4. \A u \in Tasks : u # t => Registered(u)'
    BY <1>0, <2>3, RegKeeps
  <2>5. cur'[t] = 0
    <3>1. CASE t \in hooked \cap states /\ cur[t] # 0
      BY <1>0, <1>14, <3>1 DEF TaskDone
    <3>2. CASE ~(t \in hooked \cap states /\ cur[t] # 0)
      <4>1. cur[t] = 0
        BY <3>2 DEF Registered
      <4> QED
        BY <1>14, <3>2, <4>1 DEF TaskDone
    <3> QED
      BY <3>1, <3>2
  <2>6. Mode(t)' \notin Acquiring
    BY <1>b, <2>1 DEF ModeGoes
  <2>7. Registered(t)'
    BY <2>5, <2>6 DEF Registered
  <2> QED
    BY <2>4, <2>7
<1>15. ASSUME NEW t \in Tasks, Reap(t) PROVE \A u \in Tasks : Registered(u)'
  <2>1. Mode(t) = "reap" /\ ModeGoes(t, "gone")
    BY <1>15, Modes
  <2>2. states' = states /\ hooked' = hooked /\ cur' = cur
    BY <1>15 DEF Reap
  <2>3. \A u \in Tasks : u # t => RegSame(u)
    BY <1>0, <2>1, <2>2 DEF RegSame, ModeGoes
  <2>4. \A u \in Tasks : u # t => Registered(u)'
    BY <1>0, <2>3, RegKeeps
  <2>5. Mode(t)' = "gone" /\ cur'[t] = 0
    BY <2>1, <2>2 DEF Registered, ModeGoes
  <2>6. Registered(t)'
    BY <1>b, <2>5 DEF Registered
  <2> QED
    BY <2>4, <2>6
<1>16. ASSUME NEW t \in Tasks, WaitReleases(t) PROVE \A u \in Tasks : Registered(u)'
  <2>1. ModesStay \/ ModeGoes(t, "reclaim")
    BY <1>16, Modes
  <2>2. states' = states /\ hooked' = hooked /\ cur' = cur
    BY <1>16 DEF WaitReleases
  <2> QED
    BY <1>a, <1>b, <2>1, <2>2
<1>17. ASSUME NEW t \in Tasks, Reclaim(t) PROVE \A u \in Tasks : Registered(u)'
  <2>1. Mode(t) = "reclaim" /\ ModesStay
    BY <1>17, Modes
  <2>2. PICK v \in todo[t] \cap states :
          Reclaimable(v, t) /\ states' = states \ {v} /\ cur' = [cur EXCEPT ![v] = 0]
    BY <1>17 DEF Reclaim
  <2>3. hooked' = hooked
    BY <1>17 DEF Reclaim
  <2>4. v \in Tasks => Mode(v) \notin Acquiring
    <3>1. Mode(v) \in {"reclaim", "done", "reap", "gone"}
      BY <2>1, <2>2 DEF Reclaimable, Mode, InRelease
    <3> QED
      BY <1>b, <3>1
  <2>5. \A u \in Tasks : RegSame(u)
    BY <1>0, <2>1, <2>2, <2>3, <2>4 DEF RegSame, ModesStay
  <2> QED
    BY <1>0, <2>5, RegKeeps
<1>18. ASSUME NEW t \in Tasks, Reclaimed(t) PROVE \A u \in Tasks : Registered(u)'
  <2>1. Mode(t) = "reclaim" /\ ModeGoes(t, "pool_close")
    BY <1>18, Modes
  <2>2. /\ ~\E u \in todo[t] \cap states : Reclaimable(u, t) /\ cur[u] # 0
        /\ states' = states \ {u \in todo[t] : Reclaimable(u, t)}
        /\ hooked' = hooked /\ cur' = cur
    BY <1>18 DEF Reclaimed
  <2>3. ASSUME NEW u \in Tasks PROVE RegSame(u)
    <3>1. u \in states => u \in states' \/ (cur'[u] = 0 /\ Mode(u)' \notin Acquiring)
      <4> SUFFICES ASSUME u \in states, u \notin states'
                   PROVE  cur'[u] = 0 /\ Mode(u)' \notin Acquiring
        OBVIOUS
      <4>1. Reclaimable(u, t) /\ cur[u] = 0
        BY <2>2
      <4>2. Mode(u)' \in {"pool_close", "done", "reap", "gone"}
        <5>1. CASE u = t
          BY <2>1, <5>1 DEF ModeGoes
        <5>2. CASE u # t
          <6>1. Mode(u)' = Mode(u) /\ pc[u] \in {"done", "reap", "gone"}
            BY <2>1, <4>1, <5>2 DEF ModeGoes, Reclaimable
          <6> QED
            BY <6>1 DEF Mode, InRelease
        <5> QED
          BY <5>1, <5>2
      <4> QED
        BY <1>b, <2>2, <4>1, <4>2
    <3>2. Mode(u)' = Mode(u) \/ Mode(u)' \in {"run", "done"} \cup Closing
      BY <1>b, <2>1 DEF ModeGoes
    <3> QED
      BY <2>2, <3>1, <3>2 DEF RegSame
  <2> QED
    BY <1>0, <2>3, RegKeeps
<1>19. ASSUME NEW t \in Tasks, Drain(t) PROVE \A u \in Tasks : Registered(u)'
  <2>1. ModesStay
    BY <1>19, Modes
  <2>2. states' = states /\ hooked' = hooked /\ cur' = cur
    BY <1>19 DEF Drain
  <2> QED
    BY <1>a, <1>b, <2>1, <2>2
<1>20. ASSUME NEW t \in Tasks, PoolClosed(t) PROVE \A u \in Tasks : Registered(u)'
  <2>1. ModeGoes(t, "run")
    BY <1>20, Modes
  <2>2. states' = states /\ hooked' = hooked /\ cur' = cur
    BY <1>20 DEF PoolClosed
  <2> QED
    BY <1>a, <1>b, <2>1, <2>2
<1>21. ASSUME NEW t \in Tasks, Connect(t) PROVE \A u \in Tasks : Registered(u)'
  <2>1. Mode(t) = "run" /\ ModeGoes(t, "ensure")
    BY <1>21, Modes
  <2>2. /\ states' = states \cup {t} /\ hooked' = hooked \cup {t} /\ cur' = cur
        /\ cur[t] = 0 \/ cur[t] \notin open
        /\ open' = open
    BY <1>0, <1>21 DEF Connect, Register, Stale
  <2>3. \A u \in Tasks : u # t => RegSame(u)
    BY <1>0, <2>1, <2>2 DEF RegSame, ModeGoes
  <2>4. \A u \in Tasks : u # t => Registered(u)'
    BY <1>0, <2>3, RegKeeps
  <2>5. Mode(t)' = "ensure" /\ 0 \notin open
    BY <2>1 DEF ModeGoes, Places, Numbers
  <2>6. Registered(t)'
    BY <1>b, <2>2, <2>5 DEF Registered
  <2> QED
    BY <2>4, <2>6
<1>22. ASSUME NEW t \in Tasks, AClose(t) PROVE \A u \in Tasks : Registered(u)'
  <2>1. ModesStay
    BY <1>22, Modes
  <2>2. states' = states \cup {t} /\ hooked' = hooked \cup {t} /\ cur' = [cur EXCEPT ![t] = 0]
    BY <1>0, <1>22 DEF AClose, Register
  <2>3. \A u \in Tasks : RegSame(u)
    BY <1>0, <2>1, <2>2 DEF RegSame, ModesStay
  <2> QED
    BY <1>0, <2>3, RegKeeps
<1>23. ASSUME NEW t \in Tasks, Begin(t) PROVE \A u \in Tasks : Registered(u)'
  <2>1. ModesStay
    BY <1>23, Modes
  <2>2. states' = states /\ hooked' = hooked /\ cur' = cur
    BY <1>23 DEF Begin
  <2> QED
    BY <1>a, <1>b, <2>1, <2>2
<1>24. ASSUME NEW t \in Tasks, End(t) PROVE \A u \in Tasks : Registered(u)'
  <2>1. ModesStay
    BY <1>24, Modes
  <2>2. states' = states /\ hooked' = hooked /\ cur' = cur
    BY <1>24 DEF End
  <2> QED
    BY <1>a, <1>b, <2>1, <2>2
<1>25. ASSUME NEW t \in Tasks, LeftOpen(t) PROVE \A u \in Tasks : Registered(u)'
  <2>1. ModesStay
    BY <1>25, Modes
  <2>2. states' = states /\ hooked' = hooked /\ cur' = cur
    BY <1>25 DEF LeftOpen
  <2> QED
    BY <1>a, <1>b, <2>1, <2>2
<1>26. ASSUME NEW t \in Tasks, Finish(t) PROVE \A u \in Tasks : Registered(u)'
  <2>1. ModeGoes(t, "done")
    BY <1>26, Modes
  <2>2. states' = states /\ hooked' = hooked /\ cur' = cur
    BY <1>26 DEF Finish
  <2> QED
    BY <1>a, <1>b, <2>1, <2>2
<1>27. ASSUME NEW t \in Tasks, ClosePool(t) PROVE \A u \in Tasks : Registered(u)'
  <2>1. ModeGoes(t, "wait_releases")
    BY <1>27, Modes
  <2>2. states' = states /\ hooked' = hooked /\ cur' = cur
    BY <1>27 DEF ClosePool
  <2> QED
    BY <1>a, <1>b, <2>1, <2>2
<1>28. ASSUME NEW t \in Tasks, NEW v \in Tasks, Spawn(t, v) PROVE \A u \in Tasks : Registered(u)'
  <2>1. ModeGoes(v, "run")
    BY <1>28, Modes
  <2>2. states' = states /\ hooked' = hooked /\ cur' = cur
    BY <1>28 DEF Spawn
  <2> QED
    BY <1>a, <1>b, <2>1, <2>2
<1>29. ASSUME NEW t \in Tasks, CancelClose(t) PROVE \A u \in Tasks : Registered(u)'
  <2>1. ModeGoes(t, "run")
    BY <1>29, Modes
  <2>2. states' = states /\ hooked' = hooked /\ cur' = cur
    BY <1>29 DEF CancelClose
  <2> QED
    BY <1>a, <1>b, <2>1, <2>2
<1>30. ASSUME NEW t \in Tasks, CancelRelease(t) PROVE \A u \in Tasks : Registered(u)'
  <2>1. ModeGoes(t, "run")
    BY <1>30, Modes
  <2>2. states' = states /\ hooked' = hooked /\ cur' = cur
    BY <1>30 DEF CancelRelease
  <2> QED
    BY <1>a, <1>b, <2>1, <2>2
<1>31. ASSUME NEW c \in Conns, Drop(c) PROVE \A u \in Tasks : Registered(u)'
  <2>1. ModesStay
    BY <1>31 DEF Drop, ModesStay, Mode
  <2>2. states' = states /\ hooked' = hooked /\ cur' = cur
    BY <1>31 DEF Drop
  <2> QED
    BY <1>a, <1>b, <2>1, <2>2
<1>34. ASSUME NEW t \in Tasks, CancelGather(t) PROVE \A u \in Tasks : Registered(u)'
  <2>1. ModeGoes(t, "cancelled")
    BY <1>34, Modes
  <2>2. states' = states /\ hooked' = hooked /\ cur' = cur
    BY <1>34 DEF CancelGather
  <2> QED
    BY <1>a, <1>b, <2>1, <2>2
<1>35. ASSUME NEW t \in Tasks, CutRelease(t) PROVE \A u \in Tasks : Registered(u)'
  <2>1. Mode(t) \in {"reap", "gone"} /\ ModeGoes(t, "gone")
    BY <1>35, Modes
  <2>2. states' = states /\ hooked' = hooked /\ cur' = cur
    BY <1>35 DEF CutRelease
  <2>3. \A u \in Tasks : u # t => RegSame(u)
    BY <1>0, <2>1, <2>2 DEF RegSame, ModeGoes
  <2>4. \A u \in Tasks : u # t => Registered(u)'
    BY <1>0, <2>3, RegKeeps
  <2>5. Mode(t)' = "gone" /\ cur'[t] = 0
    BY <2>1, <2>2 DEF Registered, ModeGoes
  <2>6. Registered(t)'
    BY <1>b, <2>5 DEF Registered
  <2> QED
    BY <2>4, <2>6
<1>32. ASSUME NEW t \in Tasks, Step(t) PROVE \A u \in Tasks : Registered(u)'
  BY <1>1, <1>2, <1>3, <1>4, <1>5, <1>6, <1>7, <1>8, <1>9, <1>10, <1>11, <1>12, <1>13,
     <1>14, <1>15, <1>16, <1>17, <1>18, <1>19, <1>20, <1>32 DEF Step
<1>33. ASSUME NEW t \in Tasks, Call(t) PROVE \A u \in Tasks : Registered(u)'
  BY <1>21, <1>22, <1>23, <1>24, <1>25, <1>26, <1>27, <1>28, <1>33 DEF Call
<1> QED
  BY <1>29, <1>30, <1>31, <1>32, <1>33, <1>34, <1>35 DEF Next

-----------------------------------------------------------------------------
(***************************************************************************)
(* No release is late.                                                     *)
(***************************************************************************)

\* Where a release is whose connection may come back.
Returning == {"rollback", "discard", "recreate"}

\* The release task u is in does not come back to a closed pool of SQLite.
LateFor(u) == pc[u] \in Returning => rel[u].p \notin closed \/ driver = "server"

\* Task t is where a release may be that comes back, with a pool that is not closed, or
\* where it was, or in no such release.
LateOf(t) ==
    \/ pc'[t] \notin Returning
    \/ pc'[t] \in Returning /\ (rel'[t].p \notin closed \/ driver = "server")
    \/ pc[t] \in Returning /\ rel'[t].p = rel[t].p

\* A step that closes no pool.
LEMMA LateKeeps ==
    ASSUME Late, NEW t \in Tasks, LateOf(t), closed' = closed, driver' = driver, faults' = faults,
           \A u \in Tasks : u # t => pc'[u] = pc[u] /\ rel'[u] = rel[u]
    PROVE  Late'
<1>1. "late_release" \notin faults => \A u \in Tasks : LateFor(u)
  BY DEF Late, LateFor, Returning
<1>2. "late_release" \notin faults => \A u \in Tasks : LateFor(u)'
  BY <1>1 DEF LateFor, LateOf
<1> QED
  BY <1>2 DEF Late, LateFor, Returning

\* The end of a release comes back nowhere.
LEMMA LatePut ==
    ASSUME Typed, NEW t \in Tasks, NEW c, NEW p, NEW then \in Thens, NEW usable,
           PutBack(t, c, p, then, usable)
    PROVE  /\ LateOf(t)
           /\ \A u \in Tasks : u # t => pc'[u] = pc[u] /\ rel'[u] = rel[u]
<1>1. \/ /\ pc' = [pc EXCEPT ![t] = "surplus"]
         /\ rel' = [rel EXCEPT ![t] = [c |-> c, p |-> p, then |-> then]]
      \/ pc' = [pc EXCEPT ![t] = then] /\ rel' = [rel EXCEPT ![t] = Nothing]
  BY DEF PutBack, After, Goto
<1>2. pc'[t] \in {"surplus", then}
  BY <1>1 DEF Typed
<1>3. "surplus" \notin Returning /\ then \notin Returning
  BY DEF Returning, Thens
<1>4. \A u \in Tasks : u # t => pc'[u] = pc[u] /\ rel'[u] = rel[u]
  BY <1>1 DEF Typed
<1> QED
  BY <1>2, <1>3, <1>4 DEF LateOf

\* A release begins to come back only if the pool is not closed.
LEMMA LateRelease ==
    ASSUME Typed, NEW t \in Tasks, NEW c, NEW then \in Thens, Release(t, c, then)
    PROVE  /\ LateOf(t)
           /\ \A u \in Tasks : u # t => pc'[u] = pc[u] /\ rel'[u] = rel[u]
<1>1. CASE Stage(c, owner[c]) = "put"
  BY <1>1, LatePut DEF Release
<1>2. CASE Stage(c, owner[c]) # "put"
  <2> DEFINE r == [c |-> c, p |-> owner[c], then |-> then]
             x == Stage(c, owner[c])
  <2>1. pc' = [pc EXCEPT ![t] = x] /\ rel' = [rel EXCEPT ![t] = r] /\ r.p = owner[c]
    BY <1>2 DEF Release, Goto
  <2>2. x \in Returning => owner[c] \notin closed \/ driver = "server"
    <3>1. driver \in {"sqlite", "server"}
      BY DEF Typed
    <3> QED
      BY <3>1 DEF Stage, Returning
  <2> HIDE DEF r, x
  <2>3. pc'[t] = x /\ rel'[t] = r
    BY <2>1 DEF Typed
  <2>4. \A u \in Tasks : u # t => pc'[u] = pc[u] /\ rel'[u] = rel[u]
    BY <2>1 DEF Typed
  <2> QED
    BY <2>1, <2>2, <2>3, <2>4 DEF LateOf
<1> QED
  BY <1>1, <1>2

\* No pool of SQLite is closed while a connection is on its way back to it.
LEMMA LateNext ==
    ASSUME Late, Contents, Typed, Context, Next
    PROVE  Late'
<1> USE DEF setting, registry, session, closer, poolVars, conns
<1>0. /\ \A u \in Tasks : RelFine(u) /\ rel[u].then \in Thens
      /\ "run" \in Thens /\ "ensure" \in Thens /\ "gone" \in Thens /\ "reclaim" \in Thens
      /\ \A x \in Thens : x \notin Returning
      /\ \A x \in {"acquire", "create", "wait", "reap", "pool_close", "done", "wait_releases",
               "cancelled"} : x \notin Returning
  BY DEF Contents, Context, Thens, Returning
<1>a. ASSUME closed' = closed, driver' = driver, faults' = faults, rel' = rel, NEW t \in Tasks,
             NEW x, Goto(t, x), x \notin Returning \/ pc[t] \in Returning
      PROVE  Late'
  <2>1. LateOf(t) /\ \A u \in Tasks : u # t => pc'[u] = pc[u] /\ rel'[u] = rel[u]
    BY <1>a DEF LateOf, Goto, Typed
  <2> QED
    BY <1>a, <2>1, LateKeeps
<1>b. ASSUME closed' = closed, driver' = driver, faults' = faults, NEW t \in Tasks,
             rel' = [rel EXCEPT ![t] = rel'[t]], NEW x, Goto(t, x), x \notin Returning
      PROVE  Late'
  <2>1. LateOf(t) /\ \A u \in Tasks : u # t => pc'[u] = pc[u] /\ rel'[u] = rel[u]
    BY <1>b DEF LateOf, Goto, Typed
  <2> QED
    BY <1>b, <2>1, LateKeeps
<1>c. ASSUME closed' = closed, driver' = driver, faults' = faults, rel' = rel, pc' = pc
      PROVE  Late'
  BY <1>c DEF Late
<1>d. \A t \in Tasks : After(t, rel[t].then) =>
         Goto(t, rel[t].then) /\ rel' = [rel EXCEPT ![t] = rel'[t]]
  BY DEF After, Typed
<1>1. ASSUME NEW t \in Tasks, Rollback(t) PROVE Late'
  <2>1. closed' = closed /\ driver' = driver /\ faults' = faults
    BY <1>1 DEF Rollback
  <2> QED
    BY <1>0, <1>1, <2>1, LatePut, LateKeeps DEF Rollback
<1>2. ASSUME NEW t \in Tasks, RollbackFails(t) PROVE Late'
  <2>1. closed' = closed /\ driver' = driver /\ faults' = faults /\ pc[t] \in Returning
    BY <1>2 DEF RollbackFails, Returning
  <2>2. CASE driver = "sqlite"
    BY <1>a, <1>2, <2>1, <2>2 DEF RollbackFails
  <2>3. CASE driver # "sqlite"
    <3>1. PutBack(t, rel[t].c, rel[t].p, rel[t].then, FALSE)
      BY <1>2, <2>3 DEF RollbackFails
    <3>2. LateOf(t) /\ \A u \in Tasks : u # t => pc'[u] = pc[u] /\ rel'[u] = rel[u]
      BY <1>0, <3>1, LatePut
    <3> QED
      BY <2>1, <3>2, LateKeeps
  <2> QED
    BY <2>2, <2>3
<1>3. ASSUME NEW t \in Tasks, Discard(t) PROVE Late'
  <2>1. closed' = closed /\ driver' = driver /\ faults' = faults /\ pc[t] \in Returning
        /\ rel' = rel /\ Goto(t, "recreate")
    BY <1>3 DEF Discard, Returning
  <2> QED
    BY <1>a, <2>1
<1>4. ASSUME NEW t \in Tasks, Recreate(t) PROVE Late'
  <2>1. closed' = closed /\ driver' = driver /\ faults' = faults
    BY <1>4 DEF Recreate
  <2> QED
    BY <1>0, <1>4, <2>1, LatePut, LateKeeps DEF Recreate
<1>5. ASSUME NEW t \in Tasks, RecreateFails(t) PROVE Late'
  <2>1. closed' = closed /\ driver' = driver /\ faults' = faults /\ After(t, rel[t].then)
    BY <1>5 DEF RecreateFails
  <2> QED
    BY <1>0, <1>b, <1>d, <2>1
<1>6. ASSUME NEW t \in Tasks, CloseConn(t) PROVE Late'
  <2>1. closed' = closed /\ driver' = driver /\ faults' = faults /\ After(t, rel[t].then)
    BY <1>6 DEF CloseConn
  <2> QED
    BY <1>0, <1>b, <1>d, <2>1
<1>7. ASSUME NEW t \in Tasks, EnsurePool(t) PROVE Late'
  <2>1. closed' = closed /\ driver' = driver /\ faults' = faults /\ rel' = rel
        /\ (Goto(t, "acquire") \/ Goto(t, "create"))
    BY <1>7 DEF EnsurePool
  <2> QED
    BY <1>0, <1>a, <2>1
<1>8. ASSUME NEW t \in Tasks, CreatePool(t) PROVE Late'
  <2>1. closed' = closed /\ driver' = driver /\ faults' = faults /\ rel' = rel /\ Goto(t, "acquire")
    BY <1>8 DEF CreatePool
  <2> QED
    BY <1>0, <1>a, <2>1
<1>9. ASSUME NEW t \in Tasks, CreateFails(t) PROVE Late'
  <2>1. closed' = closed /\ driver' = driver /\ faults' = faults /\ rel' = rel /\ Goto(t, "run")
    BY <1>9 DEF CreateFails
  <2> QED
    BY <1>0, <1>a, <2>1
<1>10. ASSUME NEW t \in Tasks, Acquire(t) PROVE Late'
  <2>1. closed' = closed /\ driver' = driver /\ faults' = faults /\ rel' = rel /\ Goto(t, "run")
    BY <1>10 DEF Acquire, Take
  <2> QED
    BY <1>0, <1>a, <2>1
<1>11. ASSUME NEW t \in Tasks, AcquireNew(t) PROVE Late'
  <2>1. closed' = closed /\ driver' = driver /\ faults' = faults /\ rel' = rel /\ Goto(t, "run")
    BY <1>11 DEF AcquireNew, Take
  <2> QED
    BY <1>0, <1>a, <2>1
<1>12. ASSUME NEW t \in Tasks, AcquireWait(t) PROVE Late'
  <2>1. closed' = closed /\ driver' = driver /\ faults' = faults /\ rel' = rel /\ Goto(t, "wait")
    BY <1>12 DEF AcquireWait
  <2> QED
    BY <1>0, <1>a, <2>1
<1>13. ASSUME NEW t \in Tasks, AcquireFails(t) PROVE Late'
  <2>1. closed' = closed /\ driver' = driver /\ faults' = faults /\ rel' = rel /\ Goto(t, "run")
    BY <1>13 DEF AcquireFails
  <2> QED
    BY <1>0, <1>a, <2>1
<1>14. ASSUME NEW t \in Tasks, TaskDone(t) PROVE Late'
  <2>1. closed' = closed /\ driver' = driver /\ faults' = faults
        /\ (Goto(t, "reap") \/ Goto(t, "gone")) /\ rel' = [rel EXCEPT ![t] = rel'[t]]
    BY <1>14 DEF TaskDone, Typed
  <2> QED
    BY <1>0, <1>b, <2>1
<1>15. ASSUME NEW t \in Tasks, Reap(t) PROVE Late'
  <2>1. closed' = closed /\ driver' = driver /\ faults' = faults /\ \E c : Release(t, c, "gone")
    BY <1>15 DEF Reap
  <2>2. LateOf(t) /\ \A u \in Tasks : u # t => pc'[u] = pc[u] /\ rel'[u] = rel[u]
    BY <1>0, <2>1, LateRelease
  <2> QED
    BY <2>1, <2>2, LateKeeps
<1>16. ASSUME NEW t \in Tasks, WaitReleases(t) PROVE Late'
  <2>1. closed' = closed /\ driver' = driver /\ faults' = faults /\ rel' = rel
        /\ (Goto(t, "reclaim") \/ pc' = pc)
    BY <1>16 DEF WaitReleases
  <2> QED
    BY <1>0, <1>a, <1>c, <2>1
<1>17. ASSUME NEW t \in Tasks, Reclaim(t) PROVE Late'
  <2>1. closed' = closed /\ driver' = driver /\ faults' = faults /\ \E c : Release(t, c, "reclaim")
    BY <1>17 DEF Reclaim
  <2>2. LateOf(t) /\ \A u \in Tasks : u # t => pc'[u] = pc[u] /\ rel'[u] = rel[u]
    BY <1>0, <2>1, LateRelease
  <2> QED
    BY <2>1, <2>2, LateKeeps
<1>18. ASSUME NEW t \in Tasks, Reclaimed(t) PROVE Late'
  <2>1. driver' = driver /\ faults' = faults /\ rel' = rel /\ Goto(t, "pool_close")
    BY <1>18 DEF Reclaimed
  <2>2. "late_release" \notin faults => \A u \in Tasks : pc[u] \notin Returning
    BY <1>18 DEF Reclaimed, Releasing, InRelease, Returning
  <2>3. "late_release" \notin faults => \A u \in Tasks : pc'[u] \notin Returning
    BY <1>0, <2>1, <2>2 DEF Goto, Typed
  <2> QED
    BY <2>1, <2>3 DEF Late, Returning
<1>19. ASSUME NEW t \in Tasks, Drain(t) PROVE Late'
  <2>1. closed' = closed /\ driver' = driver /\ faults' = faults /\ rel' = rel /\ pc' = pc
    BY <1>19 DEF Drain
  <2> QED
    BY <1>c, <2>1
<1>20. ASSUME NEW t \in Tasks, PoolClosed(t) PROVE Late'
  <2>1. closed' = closed /\ driver' = driver /\ faults' = faults /\ rel' = rel /\ Goto(t, "run")
    BY <1>20 DEF PoolClosed
  <2> QED
    BY <1>0, <1>a, <2>1
<1>21. ASSUME NEW t \in Tasks, Connect(t) PROVE Late'
  <2>1. closed' = closed /\ driver' = driver /\ faults' = faults
        /\ ((\E c : Release(t, c, "ensure")) \/ (Goto(t, "ensure") /\ rel' = rel))
    BY <1>21 DEF Connect
  <2>2. CASE \E c : Release(t, c, "ensure")
    <3>1. LateOf(t) /\ \A u \in Tasks : u # t => pc'[u] = pc[u] /\ rel'[u] = rel[u]
      BY <1>0, <2>2, LateRelease
    <3> QED
      BY <2>1, <3>1, LateKeeps
  <2>3. CASE Goto(t, "ensure") /\ rel' = rel
    BY <1>0, <1>a, <2>1, <2>3
  <2> QED
    BY <2>1, <2>2, <2>3
<1>22. ASSUME NEW t \in Tasks, AClose(t) PROVE Late'
  <2>1. closed' = closed /\ driver' = driver /\ faults' = faults /\ \E c : Release(t, c, "run")
    BY <1>22 DEF AClose
  <2>2. LateOf(t) /\ \A u \in Tasks : u # t => pc'[u] = pc[u] /\ rel'[u] = rel[u]
    BY <1>0, <2>1, LateRelease
  <2> QED
    BY <2>1, <2>2, LateKeeps
<1>23. ASSUME NEW t \in Tasks, Begin(t) PROVE Late'
  <2>1. closed' = closed /\ driver' = driver /\ faults' = faults /\ rel' = rel /\ pc' = pc
    BY <1>23 DEF Begin
  <2> QED
    BY <1>c, <2>1
<1>24. ASSUME NEW t \in Tasks, End(t) PROVE Late'
  <2>1. closed' = closed /\ driver' = driver /\ faults' = faults /\ rel' = rel /\ pc' = pc
    BY <1>24 DEF End
  <2> QED
    BY <1>c, <2>1
<1>25. ASSUME NEW t \in Tasks, LeftOpen(t) PROVE Late'
  <2>1. closed' = closed /\ driver' = driver /\ faults' = faults /\ rel' = rel /\ pc' = pc
    BY <1>25 DEF LeftOpen
  <2> QED
    BY <1>c, <2>1
<1>26. ASSUME NEW t \in Tasks, Finish(t) PROVE Late'
  <2>1. closed' = closed /\ driver' = driver /\ faults' = faults /\ rel' = rel /\ Goto(t, "done")
    BY <1>26 DEF Finish
  <2> QED
    BY <1>0, <1>a, <2>1
<1>27. ASSUME NEW t \in Tasks, ClosePool(t) PROVE Late'
  <2>1. closed' = closed /\ driver' = driver /\ faults' = faults /\ rel' = rel
        /\ Goto(t, "wait_releases")
    BY <1>27 DEF ClosePool
  <2> QED
    BY <1>0, <1>a, <2>1
<1>28. ASSUME NEW t \in Tasks, NEW v \in Tasks, Spawn(t, v) PROVE Late'
  <2>1. closed' = closed /\ driver' = driver /\ faults' = faults /\ rel' = rel /\ Goto(v, "run")
    BY <1>28 DEF Spawn
  <2> QED
    BY <1>0, <1>a, <2>1
<1>29. ASSUME NEW t \in Tasks, CancelClose(t) PROVE Late'
  <2>1. closed' = closed /\ driver' = driver /\ faults' = faults /\ rel' = rel /\ Goto(t, "run")
    BY <1>29 DEF CancelClose
  <2> QED
    BY <1>0, <1>a, <2>1
<1>30. ASSUME NEW t \in Tasks, CancelRelease(t) PROVE Late'
  <2>1. closed' = closed /\ driver' = driver /\ faults' = faults /\ Goto(t, "run")
        /\ rel' = [rel EXCEPT ![t] = rel'[t]]
    BY <1>30 DEF CancelRelease, Typed
  <2> QED
    BY <1>0, <1>b, <2>1
<1>31. ASSUME NEW c \in Conns, Drop(c) PROVE Late'
  <2>1. closed' = closed /\ driver' = driver /\ faults' = faults /\ rel' = rel /\ pc' = pc
    BY <1>31 DEF Drop
  <2> QED
    BY <1>c, <2>1
<1>34. ASSUME NEW t \in Tasks, CancelGather(t) PROVE Late'
  <2>1. closed' = closed /\ driver' = driver /\ faults' = faults /\ rel' = rel
        /\ Goto(t, "cancelled")
    BY <1>34 DEF CancelGather
  <2> QED
    BY <1>0, <1>a, <2>1
<1>35. ASSUME NEW t \in Tasks, CutRelease(t) PROVE Late'
  <2>1. closed' = closed /\ driver' = driver /\ faults' = faults /\ Goto(t, "gone")
        /\ rel' = [rel EXCEPT ![t] = rel'[t]]
    BY <1>35 DEF CutRelease, After, Typed
  <2> QED
    BY <1>0, <1>b, <2>1
<1>32. ASSUME NEW t \in Tasks, Step(t) PROVE Late'
  BY <1>1, <1>2, <1>3, <1>4, <1>5, <1>6, <1>7, <1>8, <1>9, <1>10, <1>11, <1>12, <1>13,
     <1>14, <1>15, <1>16, <1>17, <1>18, <1>19, <1>20, <1>32 DEF Step
<1>33. ASSUME NEW t \in Tasks, Call(t) PROVE Late'
  BY <1>21, <1>22, <1>23, <1>24, <1>25, <1>26, <1>27, <1>28, <1>33 DEF Call
<1> QED
  BY <1>29, <1>30, <1>31, <1>32, <1>33, <1>34, <1>35 DEF Next

-----------------------------------------------------------------------------
(***************************************************************************)
(* Every connection is found.                                              *)
(***************************************************************************)

\* Connection d is found after the step, if it was found before.
FoundAfter(d) == (d \in open => InQueue(d) \/ InHand(d)) => (InQueue(d) \/ InHand(d))'

\* A step after which every connection that works is found.
LEMMA FoundKeeps ==
    ASSUME Found, faults' = faults, \A d \in open' : FoundAfter(d)
    PROVE  Found'
BY DEF Found, FoundAfter

\* Where the queues of the pools are the same, or longer, a connection is still in one.
QueuesKept ==
    /\ pool' = pool /\ closed' \subseteq closed \cup {pool}
    /\ \A p \in Pools : \A i \in 1 .. Len(idle[p]) :
          i \in 1 .. Len(idle'[p]) /\ idle'[p][i] = idle[p][i]

\* What was in such a queue is found there after the step.
LEMMA QueueKeeps == ASSUME QueuesKept, NEW d, InQueue(d) PROVE InQueue(d)'
<1>1. PICK p \in Pools : (p \notin closed \/ p = pool) /\ \E i \in 1 .. Len(idle[p]) : idle[p][i] = d
  BY DEF InQueue
<1>2. PICK i \in 1 .. Len(idle[p]) : idle[p][i] = d
  BY <1>1
<1>3. i \in 1 .. Len(idle'[p]) /\ idle'[p][i] = d
  BY <1>2 DEF QueuesKept
<1>4. p \notin closed' \/ p = pool'
  BY <1>1 DEF QueuesKept
<1> QED
  BY <1>3, <1>4 DEF InQueue

\* Task t and the states give up connection c at most.
GivesUp(t, c) ==
    /\ \A u \in Tasks : u # t => rel'[u] = rel[u]
    /\ \A u \in Tasks : cur'[u] = cur[u] \/ cur[u] = c
    /\ rel[t].c = c \/ rel[t].c \notin open' \/ rel'[t] = rel[t]

\* Others are in the hands they were in.
LEMMA HandsKeep ==
    ASSUME NEW t \in Tasks, NEW c, GivesUp(t, c), NEW d \in open', d # c, InHand(d)
    PROVE  InHand(d)'
<1>1. PICK u \in Tasks : rel[u].c = d \/ cur[u] = d
  BY DEF InHand
<1>2. rel'[u].c = d \/ cur'[u] = d
  BY <1>1 DEF GivesUp
<1> QED
  BY <1>2 DEF InHand

\* A connection that is given up is found elsewhere.
LEMMA FoundMoved ==
    ASSUME Found, faults' = faults, QueuesKept, NEW t \in Tasks, NEW c, GivesUp(t, c),
           open' \subseteq open \cup {c}, c \in open' => (InQueue(c) \/ InHand(c))'
    PROVE  Found'
<1> SUFFICES ASSUME NEW d \in open' PROVE FoundAfter(d)
  BY FoundKeeps
<1>1. CASE d = c
  BY <1>1 DEF FoundAfter
<1>2. CASE d # c
  BY <1>2, QueueKeeps, HandsKeep DEF FoundAfter
<1> QED
  BY <1>1, <1>2

\* The queue a connection is put into.
LEMMA PutKeepsQueues ==
    ASSUME Places, NEW c \in Nat, NEW p \in Pools, pool' = pool, closed' = closed,
           idle' = [idle EXCEPT ![p] = Append(@, c)]
    PROVE  /\ QueuesKept
           /\ p \notin closed \/ p = pool => InQueue(c)'
<1>1. \A q \in Pools : idle[q] \in Seq(Nat) /\ idle'[q] = IF q = p THEN Append(idle[q], c) ELSE idle[q]
  BY DEF Places, Numbers
<1>2. /\ Len(idle[p]) \in Nat /\ Len(idle'[p]) = Len(idle[p]) + 1
      /\ \A j \in 1 .. Len(idle[p]) : idle'[p][j] = idle[p][j]
      /\ idle'[p][Len(idle[p]) + 1] = c
  <2>1. idle[p] \in Seq(Nat) /\ idle'[p] = Append(idle[p], c)
    BY <1>1
  <2> QED
    BY <2>1, AppendFacts
<1>3. QueuesKept
  BY <1>1, <1>2 DEF QueuesKept
<1>4. p \notin closed \/ p = pool => InQueue(c)'
  <2>1. Len(idle[p]) + 1 \in 1 .. Len(idle'[p])
    BY <1>2
  <2> QED
    BY <1>2, <2>1 DEF InQueue
<1> QED
  BY <1>3, <1>4

\* What put_nowait() does not take is closed, or is gone already.
LEMMA FoundPut ==
    ASSUME Found, Places, Typed, faults' = faults, pool' = pool, closed' = closed, NEW t \in Tasks,
           NEW c \in Nat, NEW p \in Pools, NEW then, NEW usable, Put(t, c, p, then, usable),
           usable = FALSE => c \notin open', usable \in BOOLEAN,
           GivesUp(t, c), open' \subseteq open \cup {c},
           driver = "sqlite" => p = pool \/ p \notin closed
    PROVE  Found'
<1>0. driver \in {"sqlite", "server"}
  BY DEF Typed
<1>1. CASE Surplus(t, c, p, then)
  <2> DEFINE r == [c |-> c, p |-> p, then |-> then]
  <2>1. rel' = [rel EXCEPT ![t] = r] /\ r.c = c /\ idle' = idle
    BY <1>1 DEF Surplus, Goes
  <2> HIDE DEF r
  <2>2. InHand(c)'
    BY <2>1 DEF InHand, Typed
  <2>3. QueuesKept
    BY <2>1 DEF QueuesKept
  <2> QED
    BY <2>2, <2>3, FoundMoved
<1>2. CASE Dropped(t, then) /\ ~usable
  <2>1. QueuesKept
    BY <1>2 DEF QueuesKept, Dropped
  <2> QED
    BY <1>2, <2>1, FoundMoved
<1>3. CASE Kept(t, c, p, then)
  <2>1. QueuesKept /\ InQueue(c)'
    BY <1>0, <1>3, PutKeepsQueues DEF Kept
  <2> QED
    BY <2>1, FoundMoved
<1> QED
  BY <1>1, <1>2, <1>3 DEF Put

\* A release that begins has its connection in hand, or it has put it into the queue of
\* the pool there is.
LEMMA FoundRelease ==
    ASSUME Found, Contents, Places, Typed, faults' = faults, pool' = pool, closed' = closed,
           open' = open, NEW t \in Tasks, NEW c \in 1 .. made, NEW then, Release(t, c, then),
           owner[c] # 0, rel[t].c \in {0, c}, \A u \in Tasks : cur'[u] = cur[u] \/ cur[u] = c
    PROVE  Found'
<1>0. /\ driver \in {"sqlite", "server"} /\ 0 \notin open' /\ open' \subseteq open \cup {c} /\ c \in Nat
      /\ owner[c] \in Pools
  <2>1. c \in Conns /\ 1 .. pools \subseteq Pools
    BY SomeNumbers DEF Contents
  <2>2. owner[c] \in 1 .. pools
    BY <2>1 DEF Contents, Lots
  <2>3. c \in Nat
    BY DEF Places, Numbers
  <2> QED
    BY <2>1, <2>2, <2>3 DEF Typed, Places, Numbers
<1>1. Starts(t, c, then)
  BY <1>0, ReleaseStarts
<1>2. ASSUME idle' = idle, NEW x \in {"raw_close", "discard", "rollback"},
             Goes(t, x, [c |-> c, p |-> owner[c], then |-> then])
      PROVE  Found'
  <2> DEFINE r == [c |-> c, p |-> owner[c], then |-> then]
  <2>1. rel' = [rel EXCEPT ![t] = r] /\ r.c = c
    BY <1>2 DEF Goes
  <2> HIDE DEF r
  <2>2. InHand(c)' /\ \A u \in Tasks : u # t => rel'[u] = rel[u]
    BY <2>1 DEF InHand, Typed
  <2>3. GivesUp(t, c)
    BY <1>0, <2>2 DEF GivesUp
  <2>4. QueuesKept
    BY <1>2 DEF QueuesKept
  <2> QED
    BY <1>0, <2>2, <2>3, <2>4, FoundMoved
<1>3. CASE Put(t, c, owner[c], then, c \in open) /\ owner[c] = pool
  <2>1. \A u \in Tasks : u # t => rel'[u] = rel[u]
    BY <1>3 DEF Put, Surplus, Dropped, Kept, Goes, Typed
  <2>2. GivesUp(t, c)
    BY <1>0, <2>1 DEF GivesUp
  <2>3. CASE c \in open
    <3>1. Put(t, c, owner[c], then, TRUE)
      BY <1>3, <2>3 DEF Put
    <3> QED
      BY <1>0, <1>3, <2>2, <3>1, FoundPut
  <2>4. CASE c \notin open
    <3>1. Put(t, c, owner[c], then, FALSE)
      BY <1>3, <2>4 DEF Put
    <3> QED
      BY <1>0, <1>3, <2>2, <2>4, <3>1, FoundPut
  <2> QED
    BY <2>3, <2>4
<1> QED
  BY <1>1, <1>2, <1>3 DEF Starts

\* A queue that loses its first connection, and the others.
LEMMA QueueLess ==
    ASSUME Places, NEW q \in Pools, idle[q] # <<>>, idle' = [idle EXCEPT ![q] = Tail(@)],
           pool' = pool, closed' = closed, NEW d, InQueue(d), d # Head(idle[q])
    PROVE  InQueue(d)'
<1>1. \A p \in Pools : idle[p] \in Seq(Nat) /\ idle'[p] = IF p = q THEN Tail(idle[p]) ELSE idle[p]
  BY DEF Places, Numbers
<1>2. /\ Len(idle[q]) \in Nat \ {0} /\ Len(idle'[q]) = Len(idle[q]) - 1 /\ Head(idle[q]) = idle[q][1]
      /\ \A j \in 1 .. Len(idle'[q]) : idle'[q][j] = idle[q][j + 1]
  <2>1. idle[q] \in Seq(Nat) /\ idle'[q] = Tail(idle[q])
    BY <1>1
  <2> QED
    BY <2>1, TailFacts
<1>3. PICK p \in Pools : (p \notin closed \/ p = pool) /\ \E i \in 1 .. Len(idle[p]) : idle[p][i] = d
  BY DEF InQueue
<1>4. PICK i \in 1 .. Len(idle[p]) : idle[p][i] = d
  BY <1>3
<1>5. \E j \in 1 .. Len(idle'[p]) : idle'[p][j] = d
  <2>1. CASE p # q
    BY <1>1, <1>4, <2>1
  <2>2. CASE p = q
    <3>1. i # 1 /\ i \in 1 .. Len(idle[q]) /\ idle[q][i] = d
      BY <1>2, <1>4, <2>2
    <3> DEFINE j == i - 1
    <3>2. j \in 1 .. Len(idle'[q]) /\ j + 1 = i
      BY <1>2, <3>1
    <3> HIDE DEF j
    <3>3. idle'[q][j] = d
      BY <1>2, <3>1, <3>2
    <3> QED
      BY <2>2, <3>2, <3>3
  <2> QED
    BY <2>1, <2>2
<1> QED
  BY <1>3, <1>5 DEF InQueue

\* A connection that is taken from a queue, or made, is in the hands of its task.
LEMMA FoundTaken ==
    ASSUME Found, faults' = faults, NEW t \in Tasks, NEW c, cur' = [cur EXCEPT ![t] = c],
           cur \in [Tasks -> Nat], rel' = rel, cur[t] \notin open, open' \subseteq open \cup {c},
           \A d \in open : InQueue(d) /\ d # c => InQueue(d)'
    PROVE  Found'
<1> SUFFICES ASSUME NEW d \in open' PROVE FoundAfter(d)
  BY FoundKeeps
<1>1. CASE d = c
  BY <1>1 DEF FoundAfter, InHand
<1>2. CASE d # c
  <2>1. d \in open
    BY <1>2
  <2>2. InHand(d) => InHand(d)'
    BY <2>1 DEF InHand
  <2> QED
    BY <1>2, <2>1, <2>2 DEF FoundAfter
<1> QED
  BY <1>1, <1>2

\* In every step.
LEMMA FoundNext ==
    ASSUME Found, Late, Closers, \A u \in Tasks : Registered(u), Contents, Places, Typed, Context, Next
    PROVE  Found'
<1> USE DEF setting, registry, session, closer, poolVars, conns
<1>0. /\ \A u \in Tasks : RelFine(u) /\ Has(u) /\ Hand(u) /\ Current(u) = u /\ rel[u].then \in Thens
      /\ driver \in {"sqlite", "server"} /\ Lots /\ Numbers /\ 0 \notin open
      /\ rel \in [Tasks -> Rels] /\ cur \in [Tasks -> Nat] /\ idle \in [Pools -> Seq(Nat)]
  BY CurrentIsOwn DEF Contents, Context, Typed, Places, Numbers
<1>a. /\ \A u \in Tasks : InRel(u) => rel[u].c \in 1 .. made /\ rel[u].c \in Nat
                                      /\ rel[u].p \in 1 .. pools /\ rel[u].p \in Pools
      /\ \A u \in Tasks : ~InRel(u) => rel[u].c = 0
      /\ \A u \in Tasks : cur[u] # 0 => cur[u] \in 1 .. made /\ owner[cur[u]] # 0
      /\ made \in Nat /\ pools \in Nat
  <2>1. /\ made \in Nat /\ pools \in Nat /\ 1 .. pools \subseteq Pools /\ 1 .. made \subseteq Nat
        /\ \A u \in Tasks : cur[u] \in 0 .. made
    BY <1>0, SomeNumbers DEF Lots
  <2> QED
    BY <1>0, <2>1 DEF RelFine, Nothing, Has
<1>b. ASSUME QueuesKept, faults' = faults, rel' = rel, cur' = cur, open' \subseteq open
      PROVE  Found'
  <2>1. \A d \in open' : FoundAfter(d)
    BY <1>b, QueueKeeps DEF FoundAfter, InHand
  <2> QED
    BY <1>b, <2>1, FoundKeeps
<1>c. idle' = idle /\ pool' = pool /\ closed' = closed => QueuesKept
  BY DEF QueuesKept
\* A release that ends, of a connection that does not work any more.
<1>d. ASSUME QueuesKept, faults' = faults, NEW t \in Tasks,
             rel' = [rel EXCEPT ![t] = Nothing], cur' = cur,
             open' \subseteq open, rel[t].c \notin open'
      PROVE  Found'
  <2>1. GivesUp(t, rel[t].c)
    BY <1>0, <1>d DEF GivesUp
  <2>2. open' \subseteq open \cup {rel[t].c}
    BY <1>d
  <2> QED
    BY <1>d, <2>1, <2>2, FoundMoved
<1>1. ASSUME NEW t \in Tasks, Rollback(t) PROVE Found'
  <2>1. /\ pc[t] = "rollback" /\ InRel(t) /\ faults' = faults /\ pool' = pool /\ closed' = closed
        /\ open' = open /\ cur' = cur
        /\ PutBack(t, rel[t].c, rel[t].p, rel[t].then, TRUE)
    BY <1>1 DEF Rollback, InRel, InRelease
  <2>2. Put(t, rel[t].c, rel[t].p, rel[t].then, TRUE)
    BY <1>0, <2>1, PutBackPuts
  <2>3. \A u \in Tasks : u # t => rel'[u] = rel[u]
    BY <1>0, <2>2 DEF Put, Surplus, Dropped, Kept, Goes
  <2>4. GivesUp(t, rel[t].c)
    BY <2>1, <2>3 DEF GivesUp
  <2>5. CASE "late_release" \in faults
    BY <2>1, <2>5 DEF Found, LosesConns
  <2>6. CASE "late_release" \notin faults
    <3>1. driver = "sqlite" => rel[t].p \notin closed
      BY <2>1, <2>6 DEF Late
    <3>2. open' \subseteq open \cup {rel[t].c}
      BY <2>1
    <3> QED
      BY <1>a, <2>1, <2>2, <2>4, <3>1, <3>2, FoundPut
  <2> QED
    BY <2>5, <2>6
<1>2. ASSUME NEW t \in Tasks, RollbackFails(t) PROVE Found'
  <2>1. pc[t] = "rollback" /\ InRel(t) /\ faults' = faults /\ pool' = pool /\ closed' = closed
        /\ cur' = cur
    BY <1>2 DEF RollbackFails, InRel, InRelease
  <2>2. CASE driver = "sqlite"
    <3>1. idle' = idle /\ rel' = rel /\ open' = open
      BY <1>2, <2>2 DEF RollbackFails
    <3> QED
      BY <1>b, <1>c, <2>1, <3>1
  <2>3. CASE driver # "sqlite"
    <3>1. PutBack(t, rel[t].c, rel[t].p, rel[t].then, FALSE) /\ open' = open \ {rel[t].c}
      BY <1>2, <2>3 DEF RollbackFails
    <3>2. Put(t, rel[t].c, rel[t].p, rel[t].then, FALSE)
      BY <1>0, <3>1, PutBackPuts
    <3>3. \A u \in Tasks : u # t => rel'[u] = rel[u]
      BY <1>0, <3>2 DEF Put, Surplus, Dropped, Kept, Goes
    <3>4. GivesUp(t, rel[t].c)
      BY <2>1, <3>3 DEF GivesUp
    <3>5. open' \subseteq open \cup {rel[t].c} /\ rel[t].c \notin open'
      BY <3>1
    <3> QED
      BY <1>a, <2>1, <2>3, <3>2, <3>4, <3>5, FoundPut
  <2> QED
    BY <2>2, <2>3
<1>3. ASSUME NEW t \in Tasks, Discard(t) PROVE Found'
  <2>1. faults' = faults /\ pool' = pool /\ closed' = closed /\ idle' = idle
        /\ rel' = rel /\ cur' = cur /\ open' \subseteq open
    BY <1>3 DEF Discard
  <2> QED
    BY <1>b, <1>c, <2>1
<1>4. ASSUME NEW t \in Tasks, Recreate(t) PROVE Found'
  <2>1. /\ pc[t] = "recreate" /\ InRel(t) /\ faults' = faults /\ pool' = pool /\ closed' = closed
        /\ open' = open \cup {made + 1} /\ cur' = cur /\ made' = made + 1
        /\ PutBack(t, made + 1, rel[t].p, rel[t].then, TRUE)
    BY <1>4 DEF Recreate, InRel, InRelease
  <2>2. Put(t, made + 1, rel[t].p, rel[t].then, TRUE)
    BY <1>0, <2>1, PutBackPuts
  <2>3. \A u \in Tasks : u # t => rel'[u] = rel[u]
    BY <1>0, <2>2 DEF Put, Surplus, Dropped, Kept, Goes
  <2>4. rel[t].c \notin open' /\ made + 1 \in Nat
    <3>1. rel[t].c \notin open /\ rel[t].c \in 1 .. made
      BY <1>0, <1>a, <2>1 DEF Hand
    <3> QED
      BY <1>a, <2>1, <3>1
  <2>5. GivesUp(t, made + 1)
    BY <2>1, <2>3, <2>4 DEF GivesUp
  <2>6. CASE "late_release" \in faults
    BY <2>1, <2>6 DEF Found, LosesConns
  <2>7. CASE "late_release" \notin faults
    <3>1. driver = "sqlite" => rel[t].p \notin closed
      BY <2>1, <2>7 DEF Late
    <3>2. open' \subseteq open \cup {made + 1}
      BY <2>1
    <3> QED
      BY <1>a, <2>1, <2>2, <2>4, <2>5, <3>1, <3>2, FoundPut
  <2> QED
    BY <2>6, <2>7
<1>5. ASSUME NEW t \in Tasks, RecreateFails(t) PROVE Found'
  <2>1. /\ faults' = faults /\ pool' = pool /\ closed' = closed
        /\ idle' = idle /\ open' = open /\ cur' = cur /\ rel' = [rel EXCEPT ![t] = Nothing]
    BY <1>5 DEF RecreateFails, After
  <2>2. rel[t].c \notin open'
    BY <1>0, <1>5 DEF RecreateFails, Hand
  <2> QED
    BY <1>c, <1>d, <2>1, <2>2
<1>6. ASSUME NEW t \in Tasks, CloseConn(t) PROVE Found'
  <2>1. /\ faults' = faults /\ pool' = pool /\ closed' = closed
        /\ idle' = idle /\ open' = open \ {rel[t].c} /\ cur' = cur /\ rel' = [rel EXCEPT ![t] = Nothing]
    BY <1>6 DEF CloseConn, After
  <2> QED
    BY <1>c, <1>d, <2>1
<1>7. ASSUME NEW t \in Tasks, EnsurePool(t) PROVE Found'
  <2>1. faults' = faults /\ pool' = pool /\ closed' = closed /\ idle' = idle
        /\ rel' = rel /\ cur' = cur /\ open' \subseteq open
    BY <1>7 DEF EnsurePool
  <2> QED
    BY <1>b, <1>c, <2>1
<1>8. ASSUME NEW t \in Tasks, CreatePool(t) PROVE Found'
  <2>1. /\ faults' = faults /\ pool' = pools + 1 /\ closed' = closed /\ rel' = rel /\ cur' = cur
        /\ open' = open \cup Fresh(Initial) /\ pools < PoolLimit
        /\ idle' = [idle EXCEPT ![pools + 1] = [i \in 1 .. Initial |-> made + i]]
    BY <1>8 DEF CreatePool
  <2>2. pool = 0 /\ Initial \in Nat /\ pools + 1 \in Pools /\ 0 \notin Pools
    <3>1. Mode(t) = "create"
      BY <1>8, Modes
    <3> QED
      BY <1>a, <2>1, <3>1 DEF Closers, Initial, Pools
  <2> DEFINE q == pools + 1
             new == [i \in 1 .. Initial |-> made + i]
  <2>3. idle[q] = <<>> /\ \A p \in Pools : p # q => idle'[p] = idle[p]
    BY <1>0, <1>a, <2>1, <2>2 DEF Lots
  <2>4. /\ idle'[q] = new /\ new \in Seq(Nat) /\ Len(new) = Initial
        /\ \A i \in 1 .. Initial : new[i] = made + i
    BY <1>0, <1>a, <2>1, <2>2
  <2>5. ASSUME NEW d, InQueue(d) PROVE InQueue(d)'
    <3>1. PICK p \in Pools : p \notin closed /\ \E i \in 1 .. Len(idle[p]) : idle[p][i] = d
      BY <2>2, <2>5 DEF InQueue
    <3>2. p # q
      BY <2>3, <3>1
    <3>3. idle'[p] = idle[p] /\ p \notin closed'
      BY <2>1, <2>3, <3>1, <3>2
    <3> QED
      BY <3>1, <3>3 DEF InQueue
  <2>6. ASSUME NEW d \in Fresh(Initial) PROVE InQueue(d)'
    <3>1. PICK i \in 1 .. Initial : d = made + i
      <4>1. d - made \in 1 .. Initial /\ d = made + (d - made)
        BY <1>a, <2>2 DEF Fresh
      <4> QED
        BY <4>1
    <3>2. i \in 1 .. Len(idle'[q]) /\ idle'[q][i] = d
      BY <2>4, <3>1
    <3>3. q = pool' /\ q \in Pools
      BY <2>1, <2>2
    <3> HIDE DEF q
    <3> QED
      BY <3>2, <3>3 DEF InQueue
  <2>7. \A d \in open' : FoundAfter(d)
    BY <2>1, <2>5, <2>6 DEF FoundAfter, InHand
  <2> QED
    BY <2>1, <2>7, FoundKeeps
<1>9. ASSUME NEW t \in Tasks, CreateFails(t) PROVE Found'
  BY <1>9 DEF CreateFails, Found, LosesConns
<1>10. ASSUME NEW t \in Tasks, Acquire(t) PROVE Found'
  <2>1. cur[t] \notin open
    <3>1. Mode(t) \in {"acquire", "wait"}
      BY <1>10, Modes
    <3>2. Mode(t) \in Acquiring
      BY <3>1 DEF Acquiring
    <3> QED
      BY <3>2 DEF Registered
  <2> DEFINE c == Head(idle[got[t]])
  <2>2. /\ faults' = faults /\ pool' = pool /\ closed' = closed /\ rel' = rel /\ open' = open
        /\ idle[got[t]] # <<>>
        /\ idle' = [idle EXCEPT ![got[t]] = Tail(@)] /\ cur' = [cur EXCEPT ![t] = c]
    BY <1>0, <1>10 DEF Acquire, Take
  <2>3. got[t] \in Pools
    <3>1. got[t] # 0 /\ got[t] \in 0 .. PoolLimit
      BY <1>10 DEF Acquire, Context
    <3> QED
      BY <3>1 DEF Pools
  <2>4. \A d \in open : InQueue(d) /\ d # c => InQueue(d)'
    BY <2>2, <2>3, QueueLess
  <2> HIDE DEF c
  <2> QED
    BY <1>0, <2>1, <2>2, <2>4, FoundTaken
<1>11. ASSUME NEW t \in Tasks, AcquireNew(t) PROVE Found'
  <2>1. cur[t] \notin open
    <3>1. Mode(t) \in {"acquire", "wait"}
      BY <1>11, Modes
    <3>2. Mode(t) \in Acquiring
      BY <3>1 DEF Acquiring
    <3> QED
      BY <3>2 DEF Registered
  <2>2. /\ faults' = faults /\ pool' = pool /\ closed' = closed /\ rel' = rel
        /\ open' = open \cup {made + 1}
        /\ idle' = idle /\ cur' = [cur EXCEPT ![t] = made + 1]
    BY <1>0, <1>11 DEF AcquireNew, Take
  <2>3. \A d \in open : InQueue(d) => InQueue(d)'
    BY <1>c, <2>2, QueueKeeps
  <2> QED
    BY <1>0, <2>1, <2>2, <2>3, FoundTaken
<1>12. ASSUME NEW t \in Tasks, AcquireWait(t) PROVE Found'
  <2>1. faults' = faults /\ pool' = pool /\ closed' = closed /\ idle' = idle
        /\ rel' = rel /\ cur' = cur /\ open' \subseteq open
    BY <1>12 DEF AcquireWait
  <2> QED
    BY <1>b, <1>c, <2>1
<1>13. ASSUME NEW t \in Tasks, AcquireFails(t) PROVE Found'
  <2>1. faults' = faults /\ pool' = pool /\ closed' = closed /\ idle' = idle
        /\ rel' = rel /\ cur' = cur /\ open' \subseteq open
    BY <1>13 DEF AcquireFails
  <2> QED
    BY <1>b, <1>c, <2>1
<1>14. ASSUME NEW t \in Tasks, TaskDone(t) PROVE Found'
  <2>1. faults' = faults /\ pool' = pool /\ closed' = closed /\ idle' = idle /\ open' = open
    BY <1>14 DEF TaskDone
  <2>2. CASE t \in hooked \cap states /\ cur[t] # 0
    <3> DEFINE r == [c |-> cur[t], p |-> owner[cur[t]], then |-> "gone"]
    <3>1. rel' = [rel EXCEPT ![t] = r] /\ r.c = cur[t] /\ cur' = [cur EXCEPT ![t] = 0]
      BY <1>14, <2>2 DEF TaskDone
    <3>2. ~InRel(t)
      BY <1>14 DEF TaskDone, InRel, InRelease
    <3> HIDE DEF r
    <3>3. PICK c : c = cur[t]
      OBVIOUS
    <3>4. GivesUp(t, c)
      BY <1>0, <1>a, <2>1, <3>1, <3>2, <3>3 DEF GivesUp
    <3>5. InHand(c)'
      BY <1>0, <3>1, <3>3 DEF InHand
    <3>6. open' \subseteq open \cup {c}
      BY <2>1
    <3> QED
      BY <1>c, <2>1, <3>4, <3>5, <3>6, FoundMoved
  <2>3. CASE ~(t \in hooked \cap states /\ cur[t] # 0)
    <3>1. rel' = rel /\ cur' = cur
      BY <1>14, <2>3 DEF TaskDone
    <3> QED
      BY <1>b, <1>c, <2>1, <3>1
  <2> QED
    BY <2>2, <2>3
<1>15. ASSUME NEW t \in Tasks, Reap(t) PROVE Found'
  <2>1. faults' = faults /\ pool' = pool /\ closed' = closed /\ open' = open /\ cur' = cur
        /\ Release(t, rel[t].c, "gone") /\ pc[t] = "reap" /\ InRel(t)
    BY <1>15 DEF Reap, InRel
  <2>2. rel[t].c \in 1 .. made /\ owner[rel[t].c] # 0
    BY <1>0, <1>a, <2>1 DEF Hand
  <2> QED
    BY <2>1, <2>2, FoundRelease
<1>16. ASSUME NEW t \in Tasks, WaitReleases(t) PROVE Found'
  <2>1. faults' = faults /\ pool' = pool /\ closed' = closed /\ idle' = idle
        /\ rel' = rel /\ cur' = cur /\ open' \subseteq open
    BY <1>16 DEF WaitReleases
  <2> QED
    BY <1>b, <1>c, <2>1
<1>17. ASSUME NEW t \in Tasks, Reclaim(t) PROVE Found'
  <2>1. faults' = faults /\ pool' = pool /\ closed' = closed /\ open' = open /\ ~InRel(t)
    BY <1>17 DEF Reclaim, InRel, InRelease
  <2>2. PICK u \in todo[t] \cap states :
          cur[u] # 0 /\ cur' = [cur EXCEPT ![u] = 0] /\ Release(t, cur[u], "reclaim")
    BY <1>17 DEF Reclaim
  <2>3. u \in Tasks /\ \A v \in Tasks : cur'[v] = cur[v] \/ cur[v] = cur[u]
    BY <1>0, <2>2 DEF Typed
  <2> QED
    BY <1>a, <2>1, <2>2, <2>3, FoundRelease
<1>18. ASSUME NEW t \in Tasks, Reclaimed(t) PROVE Found'
  <2>1. /\ faults' = faults /\ pool' = pool /\ closed' = closed \cup ({pool} \ {0})
        /\ idle' = idle /\ rel' = rel /\ cur' = cur /\ open' = open
    BY <1>18 DEF Reclaimed
  <2>2. QueuesKept
    BY <2>1 DEF QueuesKept
  <2> QED
    BY <1>b, <2>1, <2>2
<1>19. ASSUME NEW t \in Tasks, Drain(t) PROVE Found'
  <2> DEFINE c == Head(idle[got[t]])
  <2>1. /\ faults' = faults /\ pool' = pool /\ closed' = closed /\ rel' = rel /\ cur' = cur
        /\ open' = open \ {c}
        /\ got[t] # 0 /\ idle[got[t]] # <<>> /\ idle' = [idle EXCEPT ![got[t]] = Tail(@)]
    BY <1>19 DEF Drain
  <2>2. got[t] \in Pools
    <3>1. got[t] \in 0 .. PoolLimit
      BY DEF Context
    <3> QED
      BY <2>1, <3>1 DEF Pools
  <2>3. \A d \in open' : InQueue(d) => InQueue(d)'
    BY <2>1, <2>2, QueueLess
  <2> HIDE DEF c
  <2>4. \A d \in open' : FoundAfter(d)
    BY <2>1, <2>3 DEF FoundAfter, InHand
  <2> QED
    BY <2>1, <2>4, FoundKeeps
<1>20. ASSUME NEW t \in Tasks, PoolClosed(t) PROVE Found'
  <2>1. /\ faults' = faults /\ pool' = 0 /\ closed' = closed /\ idle' = idle /\ rel' = rel /\ cur' = cur
        /\ open' \subseteq open /\ (got[t] # 0 => idle[got[t]] = <<>>)
    BY <1>20 DEF PoolClosed
  <2>2. CASE "two_closers" \in faults
    BY <2>1, <2>2 DEF Found, LosesConns
  <2>3. CASE "two_closers" \notin faults
    <3>1. Mode(t) = "pool_close" /\ "pool_close" \in Closing
      BY <1>20, Modes DEF Closing
    <3>2. got[t] = pool /\ pool # 0 /\ idle[pool] = <<>>
      BY <2>1, <2>3, <3>1 DEF Closers
    <3>3. \A d : InQueue(d) => InQueue(d)'
      BY <2>1, <3>2 DEF InQueue
    <3>4. \A d \in open' : FoundAfter(d)
      BY <2>1, <3>3 DEF FoundAfter, InHand
    <3> QED
      BY <2>1, <3>4, FoundKeeps
  <2> QED
    BY <2>2, <2>3
<1>21. ASSUME NEW t \in Tasks, Connect(t) PROVE Found'
  <2>1. faults' = faults /\ pool' = pool /\ closed' = closed /\ open' = open /\ cur' = cur /\ ~InRel(t)
    BY <1>21 DEF Connect, InRel, InRelease
  <2>2. CASE cur[t] # 0
    <3>1. Release(t, cur[t], "ensure")
      BY <1>0, <1>21, <2>2 DEF Connect
    <3> QED
      BY <1>a, <2>1, <2>2, <3>1, FoundRelease
  <2>3. CASE cur[t] = 0
    <3>1. rel' = rel /\ idle' = idle
      BY <1>0, <1>21, <2>3 DEF Connect
    <3> QED
      BY <1>b, <1>c, <2>1, <3>1
  <2> QED
    BY <2>2, <2>3
<1>22. ASSUME NEW t \in Tasks, AClose(t) PROVE Found'
  <2>1. faults' = faults /\ pool' = pool /\ closed' = closed /\ open' = open /\ ~InRel(t)
    BY <1>22 DEF AClose, InRel, InRelease
  <2>2. cur[t] # 0 /\ cur' = [cur EXCEPT ![t] = 0] /\ Release(t, cur[t], "run")
    BY <1>0, <1>22 DEF AClose
  <2>3. \A v \in Tasks : cur'[v] = cur[v] \/ cur[v] = cur[t]
    BY <1>0, <2>2
  <2> QED
    BY <1>a, <2>1, <2>2, <2>3, FoundRelease
<1>23. ASSUME NEW t \in Tasks, Begin(t) PROVE Found'
  <2>1. faults' = faults /\ pool' = pool /\ closed' = closed /\ idle' = idle
        /\ rel' = rel /\ cur' = cur /\ open' \subseteq open
    BY <1>23 DEF Begin
  <2> QED
    BY <1>b, <1>c, <2>1
<1>24. ASSUME NEW t \in Tasks, End(t) PROVE Found'
  <2>1. faults' = faults /\ pool' = pool /\ closed' = closed /\ idle' = idle
        /\ rel' = rel /\ cur' = cur /\ open' \subseteq open
    BY <1>24 DEF End
  <2> QED
    BY <1>b, <1>c, <2>1
<1>25. ASSUME NEW t \in Tasks, LeftOpen(t) PROVE Found'
  <2>1. faults' = faults /\ pool' = pool /\ closed' = closed /\ idle' = idle
        /\ rel' = rel /\ cur' = cur /\ open' \subseteq open
    BY <1>25 DEF LeftOpen
  <2> QED
    BY <1>b, <1>c, <2>1
<1>26. ASSUME NEW t \in Tasks, Finish(t) PROVE Found'
  <2>1. faults' = faults /\ pool' = pool /\ closed' = closed /\ idle' = idle
        /\ rel' = rel /\ cur' = cur /\ open' \subseteq open
    BY <1>26 DEF Finish
  <2> QED
    BY <1>b, <1>c, <2>1
<1>27. ASSUME NEW t \in Tasks, ClosePool(t) PROVE Found'
  <2>1. faults' = faults /\ pool' = pool /\ closed' = closed /\ idle' = idle
        /\ rel' = rel /\ cur' = cur /\ open' \subseteq open
    BY <1>27 DEF ClosePool
  <2> QED
    BY <1>b, <1>c, <2>1
<1>28. ASSUME NEW t \in Tasks, NEW v \in Tasks, Spawn(t, v) PROVE Found'
  <2>1. faults' = faults /\ pool' = pool /\ closed' = closed /\ idle' = idle
        /\ rel' = rel /\ cur' = cur /\ open' \subseteq open
    BY <1>28 DEF Spawn
  <2> QED
    BY <1>b, <1>c, <2>1
<1>29. ASSUME NEW t \in Tasks, CancelClose(t) PROVE Found'
  <2>1. faults' = faults /\ pool' = pool /\ closed' = closed /\ idle' = idle
        /\ rel' = rel /\ cur' = cur /\ open' \subseteq open
    BY <1>29 DEF CancelClose
  <2> QED
    BY <1>b, <1>c, <2>1
<1>30. ASSUME NEW t \in Tasks, CancelRelease(t) PROVE Found'
  BY <1>30 DEF CancelRelease, Found, LosesConns
<1>31. ASSUME NEW c \in Conns, Drop(c) PROVE Found'
  <2>1. faults' = faults /\ pool' = pool /\ closed' = closed /\ idle' = idle
        /\ rel' = rel /\ cur' = cur /\ open' \subseteq open
    BY <1>31 DEF Drop
  <2> QED
    BY <1>b, <1>c, <2>1
<1>34. ASSUME NEW t \in Tasks, CancelGather(t) PROVE Found'
  <2>1. faults' = faults /\ pool' = pool /\ closed' = closed /\ idle' = idle
        /\ rel' = rel /\ cur' = cur /\ open' \subseteq open
    BY <1>34 DEF CancelGather
  <2> QED
    BY <1>b, <1>c, <2>1
<1>35. ASSUME NEW t \in Tasks, CutRelease(t) PROVE Found'
  BY <1>35 DEF CutRelease, Found, LosesConns
<1>32. ASSUME NEW t \in Tasks, Step(t) PROVE Found'
  BY <1>1, <1>2, <1>3, <1>4, <1>5, <1>6, <1>7, <1>8, <1>9, <1>10, <1>11, <1>12, <1>13,
     <1>14, <1>15, <1>16, <1>17, <1>18, <1>19, <1>20, <1>32 DEF Step
<1>33. ASSUME NEW t \in Tasks, Call(t) PROVE Found'
  BY <1>21, <1>22, <1>23, <1>24, <1>25, <1>26, <1>27, <1>28, <1>33 DEF Call
<1> QED
  BY <1>29, <1>30, <1>31, <1>32, <1>33, <1>34, <1>35 DEF Next

-----------------------------------------------------------------------------
(***************************************************************************)
(* The invariant.                                                          *)
(***************************************************************************)

\* What holds of tasks, connections and pools in every reachable state.
Working ==
    /\ Places /\ Context
    /\ Typed /\ Contents /\ Closers /\ Late /\ Found
    /\ \A u \in Tasks : Registered(u)

\* There is no task in a release, no connection and no pool at the beginning.
LEMMA WorkingInit == Init => Working
<1> SUFFICES ASSUME Init PROVE Working
  OBVIOUS
<1> USE DEF Init
<1>1. Places /\ Context
  BY PlacesInit, ContextInit
<1>2. Nothing \in Rels /\ Nothing.c = 0
  BY DEF Nothing, Rels, Thens
<1>3. Typed
  <2>1. <<driver, faults>> \in Settings
    <3>1. PICK s \in Settings : driver = s[1] /\ faults = s[2]
      OBVIOUS
    <3>2. s \in {"sqlite", "server"} \X SUBSET AllFaults
      OBVIOUS
    <3>3. s = <<s[1], s[2]>>
      BY <3>2
    <3> QED
      BY <3>1, <3>3
  <2>2. pc \in [Tasks -> Points] /\ rel \in [Tasks -> Rels]
    BY <1>2 DEF Points
  <2>3. visits \in [Tasks -> 0 .. Visits] /\ txn \in [Tasks -> BOOLEAN]
    OBVIOUS
  <2>4. awaited \in [Tasks -> SUBSET Tasks] /\ todo \in [Tasks -> SUBSET Tasks]
    OBVIOUS
  <2>5. /\ cv \in [Tasks -> Tasks \cup {None}] /\ poolLock \in Tasks \cup {None} /\ closing \in BOOLEAN
        /\ states \subseteq Tasks /\ hooked \subseteq Tasks /\ tracked \subseteq Tasks
    OBVIOUS
  <2> QED
    BY <2>1, <2>2, <2>3, <2>4, <2>5 DEF Typed
<1>4. /\ \A t \in Tasks : /\ pc[t] \in {"run", "unborn"} /\ Mode(t) \in {"run", "unborn"}
                          /\ rel[t] = Nothing /\ cur[t] = 0
      /\ \A p \in Pools : idle[p] = <<>> /\ out[p] = {} /\ Len(idle[p]) = 0
      /\ \A c : ~Queued(c)
  <2>1. \A p \in Pools : idle[p] = <<>> /\ out[p] = {} /\ Len(idle[p]) = 0
    BY EmptySeq
  <2> QED
    BY <2>1 DEF Mode, InRelease, Queued
<1>5. Contents
  <2>1. Lots
    <3>1. out \in [Pools -> SUBSET (1 .. made)]
      OBVIOUS
    <3> QED
      BY <1>4, <3>1 DEF Lots
  <2>2. Apart
    BY <1>4 DEF Apart
  <2>3. Sizes
    <3>1. 1 .. pools = {}
      OBVIOUS
    <3> QED
      BY <1>4, <3>1, FS_EmptySet DEF Sizes, Size
  <2>4. \A t \in Tasks : RelFine(t) /\ Has(t) /\ Hand(t)
    BY <1>4 DEF RelFine, Has, Hand, InRel, InRelease
  <2> QED
    BY <2>1, <2>2, <2>3, <2>4 DEF Contents
<1>6. Closers
  <2>1. \A t \in Tasks : Mode(t) \notin Closing \cup {"create", "pool_close"}
    BY <1>4 DEF Closing
  <2> QED
    BY <2>1 DEF Closers
<1>7. Late /\ Found
  BY <1>4 DEF Late, Found
<1>8. \A u \in Tasks : Registered(u)
  BY <1>4 DEF Registered, Acquiring
<1> QED
  BY <1>1, <1>3, <1>5, <1>6, <1>7, <1>8 DEF Working

\* A step that changes nothing.
LEMMA WorkingStutters == ASSUME Working, UNCHANGED vars PROVE Working'
<1> USE DEF vars, setting, registry, session, closer, poolVars, conns
<1>1. Places' /\ Context'
  BY DEF Working, Places, Numbers, OnePlace, OnlyPlace, QueueClean, Context
<1>2. Typed'
  BY DEF Working, Typed
<1>3. Contents'
  <2>1. ASSUME NEW t \in Tasks PROVE RelFine(t)' /\ Has(t)' /\ Hand(t)'
    BY DEF Working, Contents, RelFine, Has, Hand, InRel
  <2>2. Lots'
    BY DEF Working, Contents, Lots
  <2>3. Apart'
    BY DEF Working, Contents, Apart, Queued
  <2>4. Sizes'
    BY DEF Working, Contents, Sizes, Size, Enough
  <2> QED
    BY <2>1, <2>2, <2>3, <2>4 DEF Contents
<1>4. \A u \in Tasks : Mode(u)' = Mode(u)
  BY DEF Mode
<1>5. Closers'
  BY <1>4, ClosersCalm DEF Working, ClosersSame
<1>6. Late'
  BY DEF Working, Late
<1>7. Found'
  BY DEF Working, Found, InQueue, InHand
<1>8. \A u \in Tasks : Registered(u)'
  BY <1>4 DEF Working, Registered
<1> QED
  BY <1>1, <1>2, <1>3, <1>5, <1>6, <1>7, <1>8 DEF Working

\* The invariant holds in every reachable state.
LEMMA AlwaysWorking == Spec => []Working
<1>1. Working /\ [Next]_vars => Working'
  <2>1. CASE UNCHANGED vars
    BY <2>1, WorkingStutters
  <2>2. ASSUME Working, Next PROVE Working'
    <3> USE <2>2 DEF Working
    <3>1. Places' /\ Context'
      BY PlacesNext, ContextNext
    <3>2. Lots /\ \A t \in Tasks : Has(t) /\ RelFine(t)
      BY DEF Contents
    <3>3. Typed'
      BY <3>2, TypedNext
    <3>4. Contents'
      BY ContentsNext
    <3>5. Closers'
      BY ClosersNext
    <3>6. \A u \in Tasks : Registered(u)'
      BY RegisteredNext
    <3>7. Late'
      BY LateNext
    <3>8. Found'
      BY FoundNext
    <3> QED
      BY <3>1, <3>3, <3>4, <3>5, <3>6, <3>7, <3>8
  <2> QED
    BY <2>1, <2>2
<1> QED
  BY <1>1, WorkingInit, PTL DEF Spec

\* The connections of a queue.
LEMMA IdleElements ==
    ASSUME Places, NEW p \in Pools
    PROVE  /\ IdleIn(p) = {idle[p][i] : i \in 1 .. Len(idle[p])}
           /\ ElementsOf(idle[p]) = IdleIn(p)
<1>1. DOMAIN idle[p] = 1 .. Len(idle[p])
  BY DEF Places, Numbers
<1> QED
  BY <1>1 DEF IdleIn, ElementsOf

\* Every variable of the asyncio databases keeps its type.
LEMMA WorkingTypes == Working => TypeOK
<1> SUFFICES ASSUME Working PROVE TypeOK
  OBVIOUS
<1> USE DEF Working
<1>0. Lots /\ Sizes /\ \A t \in Tasks : RelFine(t)
  BY DEF Contents
<1>1. /\ \A t \in Tasks : cur[t] \in 0 .. made /\ rel[t].c \in 0 .. made
      /\ open \subseteq 1 .. made /\ 1 .. made \subseteq Conns /\ made \in Nat
      /\ 1 .. pools \subseteq Pools /\ 0 .. made \subseteq 0 .. ConnLimit
      /\ 0 .. pools \subseteq 0 .. PoolLimit
  BY <1>0, SomeNumbers DEF Lots
<1>2. cur \in [Tasks -> 0 .. ConnLimit]
  BY <1>1 DEF Places, Numbers
<1>3. rel \in [Tasks -> [c : 0 .. ConnLimit, p : 0 .. PoolLimit, then : Points]]
  <2>1. ASSUME NEW t \in Tasks
        PROVE  rel[t] \in [c : 0 .. ConnLimit, p : 0 .. PoolLimit, then : Points]
    <3>1. rel[t] \in Rels /\ rel[t].c \in 0 .. ConnLimit
      BY <1>1 DEF Typed
    <3>2. rel[t].p \in 0 .. pools
      <4>1. CASE InRel(t)
        BY <1>0, <4>1 DEF RelFine, Lots
      <4>2. CASE ~InRel(t)
        BY <1>0, <4>2 DEF RelFine, Nothing, Lots
      <4> QED
        BY <4>1, <4>2
    <3>3. rel[t].then \in Points
      BY <3>1 DEF Rels, Thens, Points, Closing
    <3> QED
      BY <1>1, <3>1, <3>2, <3>3 DEF Rels
  <2> QED
    BY <2>1 DEF Typed
<1>4. \A p \in Pools : /\ ElementsOf(idle[p]) \subseteq Conns /\ Len(idle[p]) <= PoolSize
                       /\ out[p] \subseteq Conns
  <2> SUFFICES ASSUME NEW p \in Pools
               PROVE  /\ ElementsOf(idle[p]) \subseteq Conns /\ Len(idle[p]) <= PoolSize
                      /\ out[p] \subseteq Conns
    OBVIOUS
  <2>1. \A i \in 1 .. Len(idle[p]) : idle[p][i] \in 1 .. made
    BY <1>0, SomeNumbers DEF Queued
  <2>2. ElementsOf(idle[p]) = {idle[p][i] : i \in 1 .. Len(idle[p])}
    <3>1. Places
      OBVIOUS
    <3> QED
      BY ONLY <3>1, IdleElements
  <2>3. 1 .. made \subseteq Conns
    BY ONLY <1>1
  <2>4. ElementsOf(idle[p]) \subseteq Conns
    BY ONLY <2>1, <2>2, <2>3
  <2>5. Len(idle[p]) <= PoolSize
    BY ONLY <1>0 DEF Sizes
  <2>6. out[p] \subseteq 1 .. made
    BY ONLY <1>0 DEF Lots
  <2> QED
    BY ONLY <2>3, <2>4, <2>5, <2>6
<1>5. closed \subseteq Pools /\ pools \in 0 .. PoolLimit /\ owner \in [Conns -> 0 .. PoolLimit]
      /\ open \subseteq Conns /\ dirty \subseteq open /\ made \in 0 .. ConnLimit
  <2>1. owner \in [Conns -> 0 .. PoolLimit]
    BY <1>0, <1>1 DEF Lots
  <2> QED
    BY <1>0, <1>1, <2>1 DEF Lots, Places, Numbers
<1>6. got \in [Tasks -> 0 .. PoolLimit] /\ pool \in 0 .. PoolLimit
  BY DEF Context
<1> QED
  BY <1>2, <1>3, <1>4, <1>5, <1>6 DEF TypeOK, Typed

\* Every connection that works is where it will be closed, or somebody has it.
LEMMA WorkingFinds == Working => Accounted
<1> SUFFICES ASSUME Working,
                    faults \cap LosesConns = {},
                    NEW c \in open
             PROVE  \/ c \in InReleases
                    \/ \E p \in Pools : (p \notin closed \/ p = pool) /\ c \in IdleIn(p)
                    \/ \E t \in Tasks : cur[t] = c /\ pc[t] # "gone"
  BY DEF Accounted
<1>1. c # 0 /\ (InQueue(c) \/ InHand(c))
  BY DEF Working, Found, Places, Numbers
<1>2. CASE InQueue(c)
  BY <1>2, IdleElements DEF InQueue, Working
<1>3. CASE InHand(c)
  <2>1. PICK t \in Tasks : rel[t].c = c \/ cur[t] = c
    BY <1>3 DEF InHand
  <2>2. cur[t] = c => pc[t] # "gone"
    BY <1>1 DEF Working, Registered, Mode, InRelease
  <2> QED
    BY <1>1, <2>1, <2>2 DEF InReleases
<1> QED
  BY <1>1, <1>2, <1>3

\* No connection is lost between a task, its release and the queue of its pool, and no
\* slot of an open SQLite pool: release(), aclose(), _safe_release() and close_pool()
\* put every one back, close it or replace it, whatever is dropped, whichever rollback
\* fails, and if close_pool() is cancelled after its gather().  The exceptions are
\* TakesSlots and LosesConns: the cancellation of a release, also by that of a
\* gather(), among them.
THEOREM NothingIsLost == Spec => []NothingLost
<1>1. Working => SlotsKept
  BY DEF Working, Contents, Sizes, Enough, Size, SlotsKept
<1>2. Working => NothingLost
  BY <1>1, WorkingTypes, WorkingFinds DEF NothingLost
<1> QED
  BY <1>2, AlwaysWorking, PTL
=============================================================================
