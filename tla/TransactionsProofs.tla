-------------------------- MODULE TransactionsProofs --------------------------
(***************************************************************************)
(* Proofs about Transactions, for any rows, any depth of blocks, any number *)
(* of savepoints and any set of features the theorems' assumptions allow:  *)
(* every variable keeps its type, in_transaction() agrees with the driver, *)
(* manual_commit() blocks suspend transaction management, and, for blocks  *)
(* used as the documentation recommends, savepoint blocks find their       *)
(* savepoints, contexts are counted, and the blocks do what                *)
(* NestedTransactions promises.                                            *)
(***************************************************************************)
EXTENDS Transactions, FiniteSetTheorems, SequenceTheorems, NaturalsInduction, TLAPS

USE TransactionsAssumption

-----------------------------------------------------------------------------
(***************************************************************************)
(* Stacks and sets of positions.                                           *)
(***************************************************************************)

\* A set of positions of a sequence has a last one.
LEMMA LastPosition ==
    ASSUME NEW n \in Nat, NEW T \in SUBSET (1 .. n), T # {}
    PROVE  \E x \in T : \A y \in T : y <= x
<1> DEFINE D == {k \in Nat : \E x \in T : k + x = n}
<1>1. D \subseteq Nat /\ D # {}
  <2>1. PICK x \in T : TRUE
    OBVIOUS
  <2>2. n - x \in Nat /\ (n - x) + x = n
    OBVIOUS
  <2> QED
    BY <2>1, <2>2
<1>2. PICK k \in D : \A j \in D : <<j, k>> \notin OpToRel(<, Nat)
  <2> HIDE DEF D
  <2> QED
    BY <1>1, WFMin, NatLessThanWellFounded, Zenon
<1>3. \A j \in D : ~(j < k)
  BY <1>1, <1>2, Zenon DEF OpToRel
<1>4. PICK x \in T : k + x = n
  OBVIOUS
<1>5. \A y \in T : y <= x
  <2> SUFFICES ASSUME NEW y \in T PROVE y <= x
    OBVIOUS
  <2>1. n - y \in Nat /\ (n - y) + y = n
    OBVIOUS
  <2>2. n - y \in D
    BY <2>1
  <2>3. ~(n - y < k)
    BY <1>3, <2>2
  <2> QED
    BY <1>4, <2>3
<1> QED
  BY <1>5

\* A sequence cut after its n-th element.
LEMMA CutFacts ==
    ASSUME NEW S, NEW s \in Seq(S), NEW n \in 0 .. Len(s)
    PROVE  /\ SubSeq(s, 1, n) \in Seq(S) /\ Len(SubSeq(s, 1, n)) = n
           /\ \A i \in 1 .. n : SubSeq(s, 1, n)[i] = s[i]
<1>1. Len(s) \in Nat /\ \A i \in 1 .. Len(s) : s[i] \in S
  BY LenProperties, ElementOfSeq
<1>2. 1 \in Int /\ n \in Int /\ \A i \in 1 .. n : s[i] \in S
  BY <1>1
<1>3. /\ SubSeq(s, 1, n) \in Seq(S)
      /\ Len(SubSeq(s, 1, n)) = IF 1 <= n THEN n - 1 + 1 ELSE 0
      /\ \A i \in 1 .. n - 1 + 1 : SubSeq(s, 1, n)[i] = s[1 + i - 1]
  BY <1>2, SubSeqProperties
<1>4. n - 1 + 1 = n /\ \A i \in 1 .. n : 1 + i - 1 = i
  OBVIOUS
<1>5. n \in Nat
  BY <1>1
<1> QED
  BY <1>3, <1>4, <1>5

\* A sequence and one more element.
LEMMA PushFacts ==
    ASSUME NEW S, NEW s \in Seq(S), NEW e \in S
    PROVE  /\ Append(s, e) \in Seq(S)
           /\ Len(s) \in Nat /\ Len(Append(s, e)) = Len(s) + 1
           /\ \A i \in 1 .. Len(s) : Append(s, e)[i] = s[i]
           /\ Append(s, e)[Len(s) + 1] = e /\ Append(s, e) # <<>>
BY AppendProperties, LenProperties, EmptySeq

\* A sequence that is not empty, and all of it but the last.
LEMMA PopFacts ==
    ASSUME NEW S, NEW s \in Seq(S), s # <<>>
    PROVE  /\ Len(s) \in Nat /\ Len(s) >= 1 /\ Top(s) \in S
           /\ Pop(s) \in Seq(S) /\ Len(Pop(s)) = Len(s) - 1
           /\ \A i \in 1 .. Len(s) - 1 : Pop(s)[i] = s[i]
           /\ Pop(s) = <<>> <=> Len(s) = 1
<1>1. Len(s) \in Nat /\ Len(s) >= 1
  BY EmptySeq, LenProperties
<1>2. Len(s) - 1 \in 0 .. Len(s) /\ s[Len(s)] \in S
  BY <1>1, ElementOfSeq
<1>3. /\ Pop(s) \in Seq(S) /\ Len(Pop(s)) = Len(s) - 1
      /\ \A i \in 1 .. Len(s) - 1 : Pop(s)[i] = s[i]
  BY <1>2, CutFacts DEF Pop
<1>4. Pop(s) = <<>> <=> Len(Pop(s)) = 0
  BY <1>3, EmptySeq
<1> QED
  BY <1>1, <1>2, <1>3, <1>4 DEF Top

Entries    == {"txn", "manual"}
BlockTypes == [kind : Kinds, helper : Helpers]
SaveTypes  == [sid : Nat, snap : SUBSET Rows]

\* What the driver knows has its type.
DriverOK ==
    /\ begun \in BOOLEAN /\ work \subseteq Rows /\ durable \subseteq Rows
    /\ saves \in Seq(SaveTypes)

\* The types, with names for the sets.
Types ==
    /\ closed \in BOOLEAN /\ ctx \in Nat /\ alive \in BOOLEAN
    /\ txns \in Seq(Entries) /\ blocks \in Seq(BlockTypes)
    /\ DriverOK
    /\ outcome \in {"none", "returned", "raised"}

\* They are the type invariant's.
LEMMA TypesMean == TypeOK <=> Types
BY DEF TypeOK, Types, DriverOK, Entries, BlockTypes, SaveTypes

\* The last bearer of a name among savepoints.
NamedIn(s, sid)  == {i \in 1 .. Len(s) : s[i].sid = sid}
LatestIn(s, sid) == CHOOSE i \in NamedIn(s, sid) : \A j \in NamedIn(s, sid) : j <= i

\* It is the greatest of their positions.
LEMMA LatestInFacts ==
    ASSUME NEW s \in Seq(SaveTypes), NEW sid, NamedIn(s, sid) # {}
    PROVE  /\ Len(s) \in Nat
           /\ LatestIn(s, sid) \in 1 .. Len(s) /\ LatestIn(s, sid) \in NamedIn(s, sid)
           /\ \A j \in NamedIn(s, sid) : j <= LatestIn(s, sid)
<1>1. Len(s) \in Nat
  BY LenProperties
<1>2. NamedIn(s, sid) \in SUBSET (1 .. Len(s))
  BY DEF NamedIn
<1>3. \E x \in NamedIn(s, sid) : \A y \in NamedIn(s, sid) : y <= x
  BY <1>1, <1>2, LastPosition
<1>4. LatestIn(s, sid) \in NamedIn(s, sid) /\ \A j \in NamedIn(s, sid) : j <= LatestIn(s, sid)
  BY <1>3 DEF LatestIn
<1> QED
  BY <1>1, <1>2, <1>4

\* The model's definitions are these, of the driver's savepoints.
LEMMA NamedMeans ==
    ASSUME Types
    PROVE  \A sid : Named(sid) = NamedIn(saves, sid) /\ Latest(sid) = LatestIn(saves, sid)
<1>1. DOMAIN saves = 1 .. Len(saves)
  BY LenProperties DEF Types, DriverOK
<1>2. ASSUME NEW sid PROVE Named(sid) = NamedIn(saves, sid)
  BY <1>1 DEF Named, NamedIn
<1>3. ASSUME NEW sid PROVE Latest(sid) = LatestIn(saves, sid)
  BY <1>2 DEF Latest, LatestIn
<1> QED
  BY <1>2, <1>3

\* The savepoint a name means.
LEMMA LatestFacts ==
    ASSUME Types, NEW sid, Named(sid) # {}
    PROVE  /\ Latest(sid) \in 1 .. Len(saves) /\ Latest(sid) \in Named(sid)
           /\ saves[Latest(sid)].sid = sid /\ Snapshot(sid) \subseteq Rows
           /\ \A j \in Named(sid) : j <= Latest(sid)
<1>1. saves \in Seq(SaveTypes) /\ Len(saves) \in Nat
  BY LenProperties DEF Types, DriverOK
<1>2. /\ Latest(sid) \in 1 .. Len(saves) /\ Latest(sid) \in Named(sid)
      /\ \A j \in Named(sid) : j <= Latest(sid)
  BY <1>1, NamedMeans, LatestInFacts
<1>3. saves[Latest(sid)].sid = sid
  BY <1>2 DEF Named
<1>4. saves[Latest(sid)] \in SaveTypes
  BY <1>1, <1>2, ElementOfSeq
<1> QED
  BY <1>2, <1>3, <1>4 DEF Snapshot, SaveTypes

\* Any statement but the beginning of a transaction leaves what is durable or sees it.
LEMMA DriverTypes ==
    ASSUME Types,
           \/ Begin
           \/ \E again \in BOOLEAN : COMMIT(again) \/ ROLLBACK(again)
           \/ TryRollback
           \/ \E sid \in Nat : \/ SAVEPOINT(sid) \/ RELEASE(sid) \/ RELEASE_SAVEPOINT(sid)
                             \/ TryRollbackTo(sid) \/ ROLLBACK_TO_SAVEPOINT(sid)
           \/ UNCHANGED driver
    PROVE  DriverOK'
<1> USE DEF Types, DriverOK
<1>1. <<>> \in Seq(SaveTypes) /\ saves \in Seq(SaveTypes) /\ Len(saves) \in Nat
  BY EmptySeq, LenProperties
<1>2. CASE \/ Begin \/ (\E again \in BOOLEAN : COMMIT(again) \/ ROLLBACK(again))
           \/ TryRollback \/ UNCHANGED driver
  BY <1>1, <1>2 DEF Begin, COMMIT, ROLLBACK, TryRollback, driver
<1>3. ASSUME NEW sid \in Nat, SAVEPOINT(sid) PROVE saves' \in Seq(SaveTypes)
  <2>1. [sid |-> sid, snap |-> work] \in SaveTypes
    BY DEF SaveTypes
  <2> QED
    BY <1>1, <1>3, <2>1, PushFacts DEF SAVEPOINT
<1>4. ASSUME NEW sid \in Nat, Named(sid) # {}, NEW snap \in SUBSET Rows
      PROVE  /\ SubSeq(saves, 1, Latest(sid) - 1) \in Seq(SaveTypes)
             /\ SubSeq(saves, 1, Latest(sid)) \in Seq(SaveTypes)
             /\ Append(SubSeq(saves, 1, Latest(sid) - 1), [sid |-> sid, snap |-> snap])
                   \in Seq(SaveTypes)
             /\ Append(SubSeq(saves, 1, Latest(sid)), [sid |-> sid, snap |-> snap])
                   \in Seq(SaveTypes)
  <2>1. Latest(sid) \in 1 .. Len(saves)
    BY <1>4, LatestFacts
  <2>2. Latest(sid) - 1 \in 0 .. Len(saves) /\ Latest(sid) \in 0 .. Len(saves)
    BY <1>1, <2>1
  <2>3. /\ SubSeq(saves, 1, Latest(sid) - 1) \in Seq(SaveTypes)
        /\ SubSeq(saves, 1, Latest(sid)) \in Seq(SaveTypes)
    BY <1>1, <2>2, CutFacts
  <2>4. [sid |-> sid, snap |-> snap] \in SaveTypes
    BY DEF SaveTypes
  <2> QED
    BY <2>3, <2>4, PushFacts
<1>5. ASSUME NEW sid \in Nat,
             RELEASE(sid) \/ RELEASE_SAVEPOINT(sid) \/ TryRollbackTo(sid)
               \/ ROLLBACK_TO_SAVEPOINT(sid)
      PROVE  /\ begun' = begun /\ durable' = durable /\ work' \subseteq Rows
             /\ saves' \in Seq(SaveTypes)
  <2>1. CASE UNCHANGED driver
    BY <1>1, <2>1 DEF driver
  <2>2. CASE Named(sid) # {}
    <3>1. Snapshot(sid) \in SUBSET Rows /\ work \in SUBSET Rows
      BY <2>2, LatestFacts
    <3>2. CASE RELEASE(sid) \/ RELEASE_SAVEPOINT(sid)
      BY <1>4, <2>2, <3>1, <3>2 DEF RELEASE, RELEASE_SAVEPOINT
    <3>3. CASE TryRollbackTo(sid) \/ ROLLBACK_TO_SAVEPOINT(sid)
      BY <1>1, <1>4, <2>2, <3>1, <3>3 DEF TryRollbackTo, ROLLBACK_TO_SAVEPOINT, driver
    <3> QED
      BY <1>5, <3>2, <3>3
  <2>3. CASE Named(sid) = {}
    BY <1>1, <1>5, <2>3 DEF RELEASE, RELEASE_SAVEPOINT, TryRollbackTo,
                            ROLLBACK_TO_SAVEPOINT, Releasable, driver
  <2> QED
    BY <2>2, <2>3
<1> QED
  BY <1>2, <1>3, <1>5 DEF SAVEPOINT

-----------------------------------------------------------------------------
(***************************************************************************)
(* Types.                                                                  *)
(***************************************************************************)

\* A block is the last of the blocks when it is entered.
LEMMA EnterFacts ==
    ASSUME Types, NEW kind \in Kinds, NEW helper \in Helpers, EnterBlock(kind, helper)
    PROVE  /\ blocks' \in Seq(BlockTypes)
           /\ Depth \in Nat /\ Depth' = Depth + 1
           /\ \A i \in 1 .. Depth : blocks'[i] = blocks[i]
           /\ blocks'[Depth + 1] = [kind |-> kind, helper |-> helper]
           /\ outcome' \in {"none", "returned", "raised"} /\ alive' = alive
<1>1. [kind |-> kind, helper |-> helper] \in BlockTypes
  BY DEF BlockTypes
<1> QED
  BY <1>1, PushFacts DEF EnterBlock, Types, Depth

\* The last one is left.
LEMMA LeaveFacts ==
    ASSUME Types, blocks # <<>>, NEW ok, LeaveBlock(ok)
    PROVE  /\ blocks' \in Seq(BlockTypes)
           /\ Depth \in Nat /\ Depth >= 1 /\ Depth' = Depth - 1
           /\ \A i \in 1 .. Depth - 1 : blocks'[i] = blocks[i]
           /\ Top(blocks) = blocks[Depth]
           /\ Top(blocks) \in BlockTypes
           /\ outcome' \in {"none", "returned", "raised"}
BY PopFacts DEF LeaveBlock, Types, Depth, Top

\* An entry is put on the stack, or taken from it.
LEMMA StackFacts ==
    ASSUME Types
    PROVE  /\ <<>> \in Seq(Entries) /\ Len(txns) \in Nat
           /\ "txn" \in Entries /\ "manual" \in Entries
           /\ <<"txn">> \in Seq(Entries)
           /\ \A e \in Entries :
                 /\ Append(txns, e) \in Seq(Entries)
                 /\ Len(Append(txns, e)) = Len(txns) + 1 /\ Append(txns, e) # <<>>
                 /\ \A i \in 1 .. Len(txns) : Append(txns, e)[i] = txns[i]
                 /\ Append(txns, e)[Len(txns) + 1] = e
           /\ txns = <<>> <=> Len(txns) = 0
           /\ txns # <<>> =>
                 /\ Pop(txns) \in Seq(Entries) /\ Len(Pop(txns)) = Len(txns) - 1
                 /\ \A i \in 1 .. Len(txns) - 1 : Pop(txns)[i] = txns[i]
                 /\ Pop(txns) = <<>> <=> Len(txns) = 1
                 /\ Top(txns) = txns[Len(txns)]
<1>1. txns \in Seq(Entries)
  BY DEF Types
<1>2. \A e \in Entries :
         /\ Append(txns, e) \in Seq(Entries)
         /\ Len(Append(txns, e)) = Len(txns) + 1 /\ Append(txns, e) # <<>>
         /\ \A i \in 1 .. Len(txns) : Append(txns, e)[i] = txns[i]
         /\ Append(txns, e)[Len(txns) + 1] = e
  <2> TAKE e \in Entries
  <2> QED
    BY <1>1, PushFacts
<1>3. txns # <<>> =>
         /\ Pop(txns) \in Seq(Entries) /\ Len(Pop(txns)) = Len(txns) - 1
         /\ \A i \in 1 .. Len(txns) - 1 : Pop(txns)[i] = txns[i]
         /\ Pop(txns) = <<>> <=> Len(txns) = 1
  BY <1>1, PopFacts
<1>4. <<"txn">> \in Seq(Entries) /\ <<>> \in Seq(Entries)
  BY EmptySeq DEF Entries
<1>5. "txn" \in Entries /\ "manual" \in Entries
  BY DEF Entries
<1> QED
  BY <1>1, <1>2, <1>3, <1>4, <1>5, EmptySeq, LenProperties DEF Top

\* The stack keeps its type.
LEMMA StackTypes ==
    ASSUME Types
    PROVE  /\ <<>> \in Seq(Entries) /\ <<"txn">> \in Seq(Entries)
           /\ Append(txns, "txn") \in Seq(Entries) /\ Append(txns, "manual") \in Seq(Entries)
           /\ txns # <<>> => Pop(txns) \in Seq(Entries)
BY StackFacts

\* What the exit of a transaction does.
LEMMA TransactionLeft ==
    ASSUME Types, NEW err, NEW ok, ExitTransaction(err, ok)
    PROVE  \/ txns = <<>> /\ txns' = txns /\ UNCHANGED driver
           \/ /\ txns # <<>> /\ Len(txns) > 1
              /\ txns' = Pop(txns) /\ UNCHANGED driver
           \/ /\ txns # <<>> /\ Len(txns) = 1
              /\ txns' = Pop(txns) /\ (TryRollback \/ COMMIT(FALSE))
<1>1. (Len(txns) > 1 => txns # <<>>) /\ (Len(txns) = 1 => txns # <<>>)
  <2>1. txns = <<>> => Len(txns) = 0
    BY StackFacts
  <2> QED
    BY <2>1
<1>2. CASE txns = <<>> /\ UNCHANGED <<txns, driver>>
  BY <1>2
<1>3. CASE Len(txns) > 1 /\ txns' = Pop(txns) /\ UNCHANGED driver
  BY <1>1, <1>3, Zenon
<1>4. CASE Len(txns) = 1 /\ txns' = Pop(txns) /\ (TryRollback \/ COMMIT(FALSE))
  BY <1>1, <1>4, Zenon
<1> QED
  BY <1>2, <1>3, <1>4, Zenon DEF ExitTransaction

\* Whatever a block does when it is left keeps the types.
LEMMA ExitTypes ==
    ASSUME Types, blocks # <<>>, NEW err \in BOOLEAN, NEW ok \in BOOLEAN, ExitHelper(err, ok)
    PROVE  DriverOK' /\ txns' \in Seq(Entries)
<1>1. Depth \in Nat
  BY LenProperties DEF Depth, Types
<1>2. CASE ExitSavepoint(err, ok)
  <2>1. (\E sid \in Nat : RELEASE(sid) \/ TryRollbackTo(sid)) /\ txns' = txns
    BY <1>1, <1>2 DEF ExitSavepoint
  <2> QED
    BY <2>1, DriverTypes DEF Types
<1>3. CASE ExitTransaction(err, ok)
  <2>1. /\ TryRollback \/ UNCHANGED driver \/ COMMIT(FALSE)
        /\ txns' = txns \/ (txns # <<>> /\ txns' = Pop(txns))
    BY <1>3, TransactionLeft
  <2>2. DriverOK'
    BY <2>1, DriverTypes
  <2>3. txns' \in Seq(Entries)
    BY <2>1, StackFacts DEF Types
  <2> QED
    BY <2>2, <2>3
<1> QED
  BY <1>2, <1>3 DEF ExitHelper

\* The types hold at first.
LEMMA TypeInit == Init => Types
<1>1. /\ <<>> \in Seq(Entries) /\ <<>> \in Seq(BlockTypes)
      /\ <<>> \in Seq(SaveTypes)
  BY EmptySeq
<1> SUFFICES ASSUME Init PROVE Types
  OBVIOUS
<1>2. DriverOK
  BY <1>1 DEF Init, DriverOK
<1>3. ctx \in Nat /\ closed \in BOOLEAN /\ alive \in BOOLEAN
  BY DEF Init
<1> QED
  BY <1>1, <1>2, <1>3 DEF Init, Types

\* Every step keeps the types.
LEMMA TypeNext == Types /\ [Next]_vars => Types'
<1> SUFFICES ASSUME Types, [Next]_vars PROVE Types'
  OBVIOUS
<1>1. UNCHANGED driver => DriverOK'
  BY DriverTypes
<1>2. ASSUME NEW k \in Kinds, EnterTransaction(k) PROVE Types'
  <2>1. EnterBlock(k, "txn") /\ "txn" \in Helpers /\ Begin
    BY <1>2 DEF EnterTransaction, Helpers
  <2>2. txns' = <<"txn">> /\ closed' = FALSE /\ ctx' \in Nat
    BY <1>2 DEF EnterTransaction, Counted, Types
  <2>3. DriverOK'
    BY <2>1, DriverTypes
  <2> QED
    BY <2>1, <2>2, <2>3, EnterFacts, StackTypes DEF Types
<1>3. ASSUME NEW k \in Kinds, EnterSavepoint(k) PROVE Types'
  <2>1. EnterBlock(k, "save") /\ "save" \in Helpers /\ SAVEPOINT(Depth + 1)
    BY <1>3 DEF EnterSavepoint, Helpers
  <2>2. txns' = txns /\ closed' = closed /\ ctx' \in Nat
    BY <1>3 DEF EnterSavepoint, Counted, Types
  <2>3. DriverOK'
    <3>1. Depth + 1 \in Nat
      BY LenProperties DEF Depth, Types
    <3> QED
      BY <2>1, <3>1, DriverTypes
  <2> QED
    BY <2>1, <2>2, <2>3, EnterFacts DEF Types
<1>4. CASE EnterInert
  <2>1. /\ EnterBlock("transaction", "inert") /\ "inert" \in Helpers /\ "transaction" \in Kinds
        /\ txns' = Append(txns, "txn") /\ UNCHANGED <<closed, ctx, driver>>
    BY <1>4 DEF EnterInert, Helpers, Kinds
  <2> QED
    BY <1>1, <2>1, EnterFacts, StackTypes DEF Types
<1>5. CASE EnterManual
  <2>1. /\ EnterBlock("manual", "manual") /\ "manual" \in Helpers /\ "manual" \in Kinds
        /\ txns' = Append(txns, "manual") /\ UNCHANGED <<closed, ctx, driver>>
    BY <1>5 DEF EnterManual, Helpers, Kinds
  <2> QED
    BY <1>1, <2>1, EnterFacts, StackTypes DEF Types
<1>6. CASE EnterConnection
  <2>1. /\ EnterBlock("conn", "none") /\ "none" \in Helpers /\ "conn" \in Kinds
        /\ closed' = FALSE /\ ctx' = ctx + 1 /\ UNCHANGED driver
        /\ txns' = <<>> \/ txns' = txns
    BY <1>6 DEF EnterConnection, Helpers, Kinds
  <2>2. txns' \in Seq(Entries)
    <3>1. <<>> \in Seq(Entries) /\ txns \in Seq(Entries)
      BY StackTypes DEF Types
    <3> QED
      BY <2>1, <3>1
  <2>3. ctx' \in Nat
    BY <2>1 DEF Types
  <2> QED
    BY <1>1, <2>1, <2>2, <2>3, EnterFacts DEF Types
<1>7. ASSUME NEW err \in BOOLEAN, NEW ok \in BOOLEAN, Exit(err, ok) PROVE Types'
  <2>1. /\ blocks # <<>> /\ ExitHelper(err, ok) /\ LeaveBlock(ok)
        /\ UNCHANGED <<closed, ctx, alive>>
    BY <1>7 DEF Exit
  <2> QED
    BY <2>1, ExitTypes, LeaveFacts DEF Types
<1>8. ASSUME NEW err \in BOOLEAN, NEW ok \in BOOLEAN, ExitDatabase(err, ok) PROVE Types'
  <2>1. /\ blocks # <<>> /\ ExitHelper(err, ok) /\ \E o \in BOOLEAN : LeaveBlock(o)
        /\ ctx' = ctx - 1 /\ ctx > 0 /\ closed' \in BOOLEAN /\ alive' \in BOOLEAN
    BY <1>8 DEF ExitDatabase, Types
  <2>2. ctx' \in Nat
    BY <2>1 DEF Types
  <2> QED
    BY <2>1, <2>2, ExitTypes, LeaveFacts DEF Types
<1>9. ASSUME Disconnected
      PROVE  /\ DriverOK' /\ closed' \in BOOLEAN /\ alive' \in BOOLEAN
             /\ ctx' \in Nat /\ txns' \in Seq(Entries)
  BY <1>9, EmptySeq DEF Disconnected, DriverOK, Types
<1>10. CASE ExitConnection
  <2>1. blocks # <<>> /\ \E o \in BOOLEAN : LeaveBlock(o)
    <3>1. LeaveBlock(ctx > 1) \/ LeaveBlock(TRUE)
      BY <1>10 DEF ExitConnection
    <3>2. (ctx > 1) \in BOOLEAN
      BY DEF Types
    <3>3. blocks # <<>>
      BY <1>10 DEF ExitConnection
    <3> QED
      BY <3>1, <3>2, <3>3, Zenon
  <2>2. CASE Disconnected
    BY <1>9, <2>1, <2>2, LeaveFacts DEF Types
  <2>3. CASE ~Disconnected
    <3>1. ctx' = ctx - 1 /\ ctx > 0 /\ UNCHANGED <<closed, txns, alive, driver>>
      BY <1>10, <2>3 DEF ExitConnection
    <3>2. ctx' \in Nat
      BY <3>1 DEF Types
    <3> QED
      BY <1>1, <2>1, <3>1, <3>2, LeaveFacts DEF Types
  <2> QED
    BY <2>2, <2>3
<1>11. CASE ExitUncounted
  <2>1. blocks # <<>> /\ LeaveBlock(FALSE) /\ UNCHANGED <<state, alive, driver>>
    BY <1>11 DEF ExitUncounted
  <2> QED
    BY <1>1, <2>1, LeaveFacts DEF Types, state
<1>12. CASE ExitManual
  <2>1. /\ blocks # <<>> /\ \E o \in BOOLEAN : LeaveBlock(o)
        /\ UNCHANGED <<closed, ctx, alive, driver>>
        /\ txns' = IF txns = <<>> THEN txns ELSE Pop(txns)
    BY <1>12 DEF ExitManual
  <2> QED
    BY <1>1, <2>1, LeaveFacts, StackTypes DEF Types
<1>13. ASSUME NEW i \in Addressed, ExplicitCommit(i) \/ ExplicitRollback(i) PROVE Types'
  <2>1. i \in Nat
    BY LenProperties DEF Addressed, Depth, Types
  <2>2. DriverOK'
    BY <1>13, <2>1, DriverTypes DEF ExplicitCommit, ExplicitRollback
  <2> QED
    BY <1>13, <2>2 DEF ExplicitCommit, ExplicitRollback, Types, state
<1>14. CASE session_start
  <2>1. /\ Begin \/ UNCHANGED driver
        /\ closed' \in BOOLEAN /\ txns' = Append(txns, "txn")
        /\ UNCHANGED <<ctx, blocks, alive, outcome>>
    BY <1>14 DEF session_start, Types
  <2>2. DriverOK'
    BY <2>1, DriverTypes
  <2> QED
    BY <2>1, <2>2, StackTypes DEF Types
<1>15. CASE session_commit \/ session_rollback
  <2>1. /\ (\E again \in BOOLEAN : COMMIT(again) \/ ROLLBACK(again)) \/ UNCHANGED driver
        /\ txns # <<>> /\ txns' = Pop(txns)
        /\ UNCHANGED <<closed, ctx, blocks, alive, outcome>>
    BY <1>15 DEF session_commit, session_rollback
  <2>2. DriverOK'
    BY <2>1, DriverTypes
  <2> QED
    BY <2>1, <2>2, StackTypes DEF Types
<1>15a. ASSUME Connected \/ UNCHANGED state
      PROVE  closed' \in BOOLEAN /\ ctx' \in Nat /\ txns' \in Seq(Entries)
  <2>1. CASE UNCHANGED state
    BY <2>1 DEF state, Types
  <2>2. CASE closed' = FALSE /\ ctx' = 0 /\ txns' = <<>>
    BY <2>2, StackTypes
  <2> QED
    BY <1>15a, <2>1, <2>2 DEF Connected
<1>16. CASE ManualStatement
  <2>1. /\ Begin \/ COMMIT(FALSE) \/ ROLLBACK(FALSE)
        /\ Connected \/ UNCHANGED state
        /\ UNCHANGED <<blocks, alive, outcome>>
    BY <1>16 DEF ManualStatement
  <2>2. DriverOK'
    BY <2>1, DriverTypes
  <2> QED
    BY <1>15a, <2>1, <2>2 DEF Types
<1>17. ASSUME NEW r \in Rows, Write(r) PROVE Types'
  <2>1. Connected /\ UNCHANGED <<blocks, alive, outcome>>
    BY <1>17 DEF Write
  <2>2. DriverOK'
    BY <1>17 DEF Write, Types, DriverOK
  <2> QED
    BY <1>15a, <2>1, <2>2 DEF Types
<1>18. CASE Close
  BY <1>9, <1>18 DEF Close, Types
<1>19. CASE Lose
  <2>1. DriverOK'
    BY <1>19, EmptySeq DEF Lose, DriverOK, Types
  <2> QED
    BY <1>19, <2>1 DEF Lose, Types, state
<1>20. CASE UNCHANGED vars
  BY <1>20 DEF vars, state, driver, Types, DriverOK
<1> QED
  BY <1>2, <1>3, <1>4, <1>5, <1>6, <1>7, <1>8, <1>10, <1>11, <1>12, <1>13, <1>14, <1>15,
     <1>16, <1>17, <1>18, <1>19, <1>20 DEF Next

\* Every variable keeps its type, whatever the program mixes and whatever fails.
THEOREM Typing == Spec => []TypeOK
BY TypeInit, TypeNext, TypesMean, PTL DEF Spec

-----------------------------------------------------------------------------
(***************************************************************************)
(* in_transaction() tells the truth.                                       *)
(***************************************************************************)

\* Entries of manual blocks are below all others.
ManualBelow ==
    \A i, j \in 1 .. Len(txns) : i < j /\ txns[j] = "manual" => txns[i] = "manual"

Managed == txns # <<>> => txns[1] = "txn"

Truth ==
    /\ Types
    /\ ManualBelow
    /\ alive /\ Managed => (begun <=> txns # <<>>)
    /\ begun => alive /\ ~closed
    /\ txns # <<>> => ~closed

\* What the stack does in a step, and what is left of its order.
Stacked ==
    \/ txns' = txns \/ txns' = <<>> \/ txns' = <<"txn">>
    \/ txns' = Append(txns, "txn")
    \/ txns' = Append(txns, "manual") /\ (txns # <<>> => Top(txns) = "manual")
    \/ txns # <<>> /\ txns' = Pop(txns)

\* The order of the entries is kept.
LEMMA Below ==
    ASSUME Types, ManualBelow, Stacked
    PROVE  ManualBelow'
<1> USE DEF ManualBelow
<1>1. CASE txns' = txns
  BY <1>1
<1>2. CASE txns' = <<>>
  BY <1>2
<1>3. CASE txns' = <<"txn">>
  BY <1>3
<1>4. CASE txns' = Append(txns, "txn")
  <2>1. Len(txns') = Len(txns) + 1 /\ Len(txns) \in Nat /\ txns'[Len(txns) + 1] = "txn"
    BY <1>4, StackFacts
  <2>2. \A i \in 1 .. Len(txns) : txns'[i] = txns[i]
    BY <1>4, StackFacts
  <2> QED
    BY <2>1, <2>2
<1>5. CASE txns' = Append(txns, "manual") /\ (txns # <<>> => Top(txns) = "manual")
  <2>1. Len(txns') = Len(txns) + 1 /\ Len(txns) \in Nat
    BY <1>5, StackFacts
  <2>2. \A i \in 1 .. Len(txns) : txns'[i] = txns[i]
    BY <1>5, StackFacts
  <2>3. \A i \in 1 .. Len(txns) : txns[i] = "manual"
    <3>1. CASE txns = <<>>
      BY <3>1
    <3>2. CASE txns # <<>>
      <4>1. txns[Len(txns)] = "manual"
        BY <1>5, <3>2, StackFacts
      <4> QED
        BY <2>1, <4>1
    <3> QED
      BY <3>1, <3>2
  <2> QED
    BY <2>1, <2>2, <2>3
<1>6. CASE txns # <<>> /\ txns' = Pop(txns)
  <2>1. Len(txns') = Len(txns) - 1 /\ Len(txns) \in Nat
    BY <1>6, StackFacts
  <2>2. \A i \in 1 .. Len(txns) - 1 : txns'[i] = txns[i]
    BY <1>6, StackFacts
  <2> QED
    BY <2>1, <2>2
<1> QED
  BY <1>1, <1>2, <1>3, <1>4, <1>5, <1>6 DEF Stacked

\* The first entry stays, unless it is the only one and leaves.
LEMMA FirstStays ==
    ASSUME Types, txns # <<>>
    PROVE  /\ \A e \in Entries : Append(txns, e)[1] = txns[1] /\ Append(txns, e) # <<>>
           /\ Pop(txns) = <<>> <=> Len(txns) = 1
           /\ Pop(txns) # <<>> => Pop(txns)[1] = txns[1]
           /\ txns[1] \in Entries /\ Len(txns) \in Nat /\ Len(txns) >= 1
<1>1. Len(txns) \in Nat /\ Len(txns) >= 1
  BY StackFacts
<1>2. \A e \in Entries : Append(txns, e)[1] = txns[1] /\ Append(txns, e) # <<>>
  BY <1>1, StackFacts
<1>3. Pop(txns) # <<>> => Pop(txns)[1] = txns[1]
  <2>1. Pop(txns) # <<>> => Len(txns) # 1
    BY StackFacts
  <2>2. \A i \in 1 .. Len(txns) - 1 : Pop(txns)[i] = txns[i]
    BY StackFacts
  <2>3. Len(txns) # 1 => 1 \in 1 .. Len(txns) - 1
    <3>1. \A n \in Nat : n >= 1 /\ n # 1 => 1 \in 1 .. n - 1
      OBVIOUS
    <3> QED
      BY <1>1, <3>1, Zenon
  <2> QED
    BY <2>1, <2>2, <2>3, Zenon
<1>4. txns[1] \in Entries
  <2>1. txns \in Seq(Entries)
    BY DEF Types
  <2> QED
    BY <1>1, <2>1, ElementOfSeq
<1> QED
  BY <1>1, <1>2, <1>3, <1>4, StackFacts

\* A stack whose last entry is that of a manual block begins with one.
LEMMA ManualFirst ==
    ASSUME Types, ManualBelow, txns # <<>>, Top(txns) = "manual"
    PROVE  ~Managed
<1>1. txns[Len(txns)] = "manual"
  BY StackFacts
<1>2. txns[1] = "manual"
  BY <1>1, FirstStays DEF ManualBelow
<1> QED
  BY <1>2 DEF Managed

\* Stack and driver agree at first: no transaction, nothing on the stack.
LEMMA TruthInit == Init => Truth
<1> SUFFICES ASSUME Init PROVE Truth
  OBVIOUS
<1>1. Types
  BY TypeInit
<1> QED
  BY <1>1 DEF Init, Truth, ManualBelow, Managed

\* The end of the outermost transaction is the end of the driver's.
LEMMA TruthExit ==
    ASSUME Truth, blocks # <<>>, NEW err \in BOOLEAN, NEW ok \in BOOLEAN,
           ExitHelper(err, ok)
    PROVE  /\ txns' = txns \/ (txns # <<>> /\ txns' = Pop(txns))
           /\ txns' = <<>> => ~begun' \/ (begun' = begun /\ txns = <<>>)
           /\ txns' # <<>> => begun' = begun
           /\ begun' => begun
<1>1. CASE ExitSavepoint(err, ok)
  <2>1. txns' = txns /\ begun' = begun
    BY <1>1 DEF ExitSavepoint, RELEASE, TryRollbackTo, driver
  <2> QED
    BY <2>1
<1>2. CASE ExitTransaction(err, ok)
  <2>1. CASE txns = <<>> /\ txns' = txns /\ UNCHANGED driver
    BY <2>1 DEF driver
  <2>2. CASE txns # <<>> /\ Len(txns) > 1 /\ txns' = Pop(txns) /\ UNCHANGED driver
    <3>1. Pop(txns) # <<>>
      <4>1. Types /\ Len(txns) \in Nat
        BY StackFacts DEF Truth
      <4>2. Len(txns) > 1
        BY <2>2, Zenon
      <4>3. ~(Len(txns) = 1)
        <5>1. \A n \in Nat : n > 1 => ~(n = 1)
          OBVIOUS
        <5> QED
          BY <4>1, <4>2, <5>1, Zenon
      <4> QED
        BY <2>2, <4>1, <4>3, FirstStays, Zenon
    <3> QED
      BY <2>2, <3>1 DEF driver
  <2>3. CASE /\ txns # <<>> /\ Len(txns) = 1
             /\ txns' = Pop(txns) /\ (TryRollback \/ COMMIT(FALSE))
    <3>1. Pop(txns) = <<>>
      BY <2>3, FirstStays DEF Truth
    <3>2. ~begun'
      BY <2>3 DEF TryRollback, ROLLBACK, COMMIT, driver, Truth
    <3> QED
      BY <2>3, <3>1, <3>2
  <2> QED
    BY <1>2, <2>1, <2>2, <2>3, TransactionLeft DEF Truth
<1> QED
  BY <1>1, <1>2 DEF ExitHelper

\* Every step keeps stack and driver in agreement.
LEMMA TruthNext ==
    ASSUME "manual_closed" \notin Ops, ~({"session", "commit_fails"} \subseteq Ops)
    PROVE  Truth /\ [Next]_vars => Truth'
<1> SUFFICES ASSUME Truth, [Next]_vars PROVE Truth'
  OBVIOUS
<1>0. Types /\ Types' /\ ManualBelow
  BY TypeNext DEF Truth
<1> DEFINE Agree == /\ alive /\ Managed => (begun <=> txns # <<>>)
                    /\ begun => alive /\ ~closed
                    /\ txns # <<>> => ~closed
<1>a. Agree
  BY DEF Truth
<1>b. /\ closed \in BOOLEAN /\ alive \in BOOLEAN /\ begun \in BOOLEAN
      /\ closed' \in BOOLEAN /\ alive' \in BOOLEAN /\ begun' \in BOOLEAN
  BY <1>0 DEF Types, DriverOK
<1>c. ASSUME Stacked, Agree' PROVE Truth'
  BY <1>0, <1>c, Below DEF Truth
<1>d. ASSUME UNCHANGED <<closed, txns, alive, begun>> PROVE Truth'
  <2>1. Stacked
    BY <1>d DEF Stacked
  <2>2. Agree'
    BY <1>a, <1>d DEF Managed
  <2> QED
    BY <1>c, <2>1, <2>2
<1>1. ASSUME NEW k \in Kinds, EnterTransaction(k) PROVE Truth'
  <2>1. alive' = alive /\ begun' = TRUE /\ alive /\ txns' = <<"txn">> /\ closed' = FALSE
    BY <1>1 DEF EnterTransaction, EnterBlock, Begin
  <2>2. Stacked
    BY <2>1 DEF Stacked
  <2>3. Agree'
    BY <2>1 DEF Managed
  <2> QED
    BY <1>c, <2>2, <2>3
<1>2. ASSUME NEW k \in Kinds, EnterSavepoint(k) PROVE Truth'
  BY <1>2, <1>d DEF EnterSavepoint, EnterBlock, SAVEPOINT
<1>3. ASSUME txns # <<>>, txns' = Append(txns, "txn"),
             UNCHANGED <<closed, alive, begun>>
      PROVE  Truth'
  <2>1. Stacked
    BY <1>3 DEF Stacked
  <2>2. txns' # <<>> /\ txns'[1] = txns[1]
    BY <1>0, <1>3, FirstStays DEF Entries
  <2>3. Agree'
    BY <1>3, <1>a, <2>2 DEF Managed
  <2> QED
    BY <1>c, <2>1, <2>3
<1>4. CASE EnterInert
  BY <1>3, <1>4 DEF EnterInert, EnterBlock, driver
<1>5. CASE EnterManual
  <2>1. /\ ~closed /\ (txns # <<>> => Top(txns) = "manual")
        /\ txns' = Append(txns, "manual") /\ UNCHANGED <<closed, alive, begun>>
    BY <1>5, <1>b DEF EnterManual, EnterBlock, driver
  <2>2. Stacked
    BY <2>1 DEF Stacked
  <2>3. txns' # <<>> /\ Top(txns') = "manual"
    <3>1. /\ Len(txns) \in Nat /\ Len(txns') = Len(txns) + 1 /\ txns' # <<>>
          /\ txns'[Len(txns) + 1] = "manual"
      BY <1>0, <2>1, StackFacts
    <3> QED
      BY <3>1 DEF Top
  <2>4. ManualBelow'
    BY <1>0, <2>2, Below
  <2>5. ~Managed'
    <3>1. txns'[Len(txns')] = "manual" /\ txns' \in Seq(Entries)
      BY <1>0, <2>3 DEF Top, Types
    <3>2. Len(txns') \in Nat /\ Len(txns') >= 1
      BY <2>3, <3>1, EmptySeq, LenProperties
    <3>3. txns'[1] = "manual"
      BY <2>4, <3>1, <3>2 DEF ManualBelow
    <3> QED
      BY <2>3, <3>3 DEF Managed
  <2>6. Agree'
    BY <1>a, <2>1, <2>5
  <2> QED
    BY <1>c, <2>2, <2>6
<1>6. CASE EnterConnection
  <2>1. closed' = FALSE /\ txns' = txns /\ UNCHANGED <<alive, begun>>
    BY <1>6, <1>a, <1>b DEF EnterConnection, EnterBlock, driver
  <2>2. Stacked
    BY <2>1 DEF Stacked
  <2>3. Agree'
    BY <1>a, <2>1 DEF Managed
  <2> QED
    BY <1>c, <2>2, <2>3
<1>7. ASSUME NEW err \in BOOLEAN, NEW ok \in BOOLEAN, blocks # <<>>, ExitHelper(err, ok),
             \/ UNCHANGED <<closed, alive>>
             \/ closed' = TRUE /\ alive' = TRUE /\ txns' = <<>>
      PROVE  Truth'
  <2>1. /\ txns' = txns \/ (txns # <<>> /\ txns' = Pop(txns))
        /\ txns' = <<>> => ~begun' \/ (begun' = begun /\ txns = <<>>)
        /\ txns' # <<>> => begun' = begun
        /\ begun' => begun
    BY <1>7, TruthExit
  <2>2. Stacked
    BY <2>1 DEF Stacked
  <2>3. CASE txns' = <<>>
    <3>1. txns = <<>> => Managed
      BY DEF Managed
    <3>2. txns = <<>> => ~begun
      BY <1>a, <3>1
    <3>3. ~begun'
      BY <2>1, <2>3, <3>2
    <3>4. Agree'
      BY <2>3, <3>3
    <3> QED
      BY <1>c, <2>2, <3>4
  <2>4. CASE txns' # <<>>
    <3>1. txns # <<>> /\ txns'[1] = txns[1]
      BY <1>0, <2>1, <2>4, FirstStays
    <3>2. UNCHANGED <<closed, alive, begun>>
      BY <1>7, <2>1, <2>4
    <3>3. Agree'
      BY <1>a, <2>4, <3>1, <3>2 DEF Managed
    <3> QED
      BY <1>c, <2>2, <3>3
  <2> QED
    BY <2>3, <2>4
<1>8. ASSUME NEW err \in BOOLEAN, NEW ok \in BOOLEAN, Exit(err, ok) PROVE Truth'
  BY <1>7, <1>8 DEF Exit
<1>9. ASSUME NEW err \in BOOLEAN, NEW ok \in BOOLEAN, ExitDatabase(err, ok) PROVE Truth'
  <2>1. /\ blocks # <<>> /\ ExitHelper(err, ok)
        /\ \/ UNCHANGED <<closed, alive>>
           \/ closed' = TRUE /\ alive' = TRUE /\ txns' = <<>>
    BY <1>9 DEF ExitDatabase
  <2> QED
    BY <1>7, <2>1
<1>10. ASSUME Disconnected PROVE Truth'
  <2>1. Stacked
    BY <1>10 DEF Disconnected, Stacked
  <2>2. Agree'
    BY <1>10 DEF Disconnected
  <2> QED
    BY <1>c, <2>1, <2>2
<1>11. CASE ExitConnection
  <2>1. Disconnected \/ UNCHANGED <<closed, txns, alive, begun>>
    BY <1>11 DEF ExitConnection, driver
  <2> QED
    BY <1>10, <1>d, <2>1
<1>12. CASE ExitUncounted
  BY <1>12, <1>d DEF ExitUncounted, state, driver
<1>13. CASE ExitManual
  <2>1. /\ ~begun /\ UNCHANGED <<closed, alive, begun>>
        /\ txns' = IF txns = <<>> THEN txns ELSE Pop(txns)
    BY <1>13 DEF ExitManual, driver
  <2>2. Stacked
    BY <2>1 DEF Stacked
  <2>3. CASE txns' = <<>>
    <3>1. Agree'
      BY <2>1, <2>3
    <3> QED
      BY <1>c, <2>2, <3>1
  <2>4. CASE txns' # <<>>
    <3>1. txns # <<>> /\ txns'[1] = txns[1]
      BY <1>0, <2>1, <2>4, FirstStays
    <3>2. Agree'
      BY <1>a, <2>1, <2>4, <3>1 DEF Managed
    <3> QED
      BY <1>c, <2>2, <3>2
  <2> QED
    BY <2>3, <2>4
<1>14. ASSUME NEW i \in Addressed, ExplicitCommit(i) \/ ExplicitRollback(i) PROVE Truth'
  <2>1. UNCHANGED <<closed, txns, alive>>
    BY <1>14 DEF ExplicitCommit, ExplicitRollback, state
  <2>2. begun' = begun
    BY <1>14, <1>b DEF ExplicitCommit, ExplicitRollback, RELEASE_SAVEPOINT, COMMIT,
                       ROLLBACK_TO_SAVEPOINT, ROLLBACK
  <2> QED
    BY <1>d, <2>1, <2>2
<1>15. CASE session_start
  <2>1. CASE txns = <<>>
    <3>1. /\ alive' = alive /\ begun' = TRUE /\ alive /\ closed' = FALSE
          /\ txns' = Append(txns, "txn")
      BY <1>15, <2>1 DEF session_start, Begin
    <3>2. Len(txns) = 0 /\ txns' # <<>> /\ txns'[Len(txns) + 1] = "txn"
      BY <1>0, <2>1, <3>1, StackFacts
    <3>3. txns'[1] = "txn"
      BY <3>2
    <3>4. Stacked
      BY <3>1 DEF Stacked
    <3>5. Agree'
      BY <3>1, <3>2, <3>3 DEF Managed
    <3> QED
      BY <1>c, <3>4, <3>5
  <2>2. CASE txns # <<>>
    BY <1>3, <1>15, <2>2 DEF session_start, driver
  <2> QED
    BY <2>1, <2>2
<1>16. CASE session_commit \/ session_rollback
  <2>1. /\ txns # <<>> /\ txns' = Pop(txns) /\ UNCHANGED <<closed, alive>>
        /\ \/ alive /\ begun /\ begun' = (txns' # <<>>)
           \/ ~(alive /\ begun) /\ begun' = begun
    BY <1>16 DEF session_commit, session_rollback, SessionAllowed, COMMIT, ROLLBACK, driver
  <2>2. Stacked
    BY <2>1 DEF Stacked
  <2>3. CASE txns' = <<>>
    <3>1. ~begun'
      BY <1>a, <1>b, <2>1, <2>3
    <3>2. Agree'
      BY <2>1, <2>3, <3>1
    <3> QED
      BY <1>c, <2>2, <3>2
  <2>4. CASE txns' # <<>>
    <3>1. txns'[1] = txns[1]
      BY <1>0, <2>1, <2>4, FirstStays
    <3>2. Managed' <=> Managed
      BY <2>1, <2>4, <3>1 DEF Managed
    <3>3. begun' <=> begun
      BY <1>b, <2>1, <2>4
    <3>4. Agree'
      BY <1>a, <1>b, <2>1, <2>4, <3>2, <3>3
    <3> QED
      BY <1>c, <2>2, <3>4
  <2> QED
    BY <2>3, <2>4
<1>17. CASE ManualStatement
  <2>1. /\ txns # <<>> /\ Top(txns) = "manual"
        /\ alive' = alive /\ (begun' => alive)
        /\ UNCHANGED <<closed, txns>>
    BY <1>17, <1>a DEF ManualStatement, Connected, Begin, COMMIT, ROLLBACK, state
  <2>2. Stacked
    BY <2>1 DEF Stacked
  <2>3. ~Managed'
    BY <1>0, <2>1, ManualFirst DEF Managed
  <2>4. Agree'
    BY <1>a, <2>1, <2>3
  <2> QED
    BY <1>c, <2>2, <2>4
<1>18. ASSUME NEW r \in Rows, Write(r) PROVE Truth'
  <2>1. txns' = txns /\ UNCHANGED <<alive, begun>> /\ (closed' = closed \/ closed' = FALSE)
    BY <1>18, <1>a, <1>b DEF Write, Connected, state
  <2>2. Stacked
    BY <2>1 DEF Stacked
  <2>3. Agree'
    BY <1>a, <2>1 DEF Managed
  <2> QED
    BY <1>c, <2>2, <2>3
<1>19. CASE Close
  BY <1>10, <1>19 DEF Close
<1>20. CASE Lose
  <2>1. UNCHANGED <<closed, txns>> /\ alive' = FALSE /\ begun' = FALSE
    BY <1>20 DEF Lose, state
  <2>2. Stacked
    BY <2>1 DEF Stacked
  <2>3. Agree'
    BY <1>a, <2>1
  <2> QED
    BY <1>c, <2>2, <2>3
<1>21. CASE UNCHANGED vars
  BY <1>21, <1>d DEF vars, state, driver
<1> QED
  BY <1>1, <1>2, <1>4, <1>5, <1>6, <1>8, <1>9, <1>11, <1>12, <1>13, <1>14, <1>15,
     <1>16, <1>17, <1>18, <1>19, <1>20, <1>21 DEF Next

\* in_transaction() agrees with the driver, however blocks, sessions, manual blocks,
\* explicit commits and close() are mixed and whenever the connection is lost, provided
\* that no session's COMMIT fails and no manual block is entered on a closed database.
THEOREM StackTells ==
    ASSUME "manual_closed" \notin Ops, ~({"session", "commit_fails"} \subseteq Ops)
    PROVE  Spec => []InTransactionTrue
<1>1. Truth => InTransactionTrue
  BY DEF Truth, Managed, InTransactionTrue, in_transaction
<1> QED
  BY <1>1, TruthInit, TruthNext, PTL DEF Spec

-----------------------------------------------------------------------------
(***************************************************************************)
(* Counting blocks.                                                        *)
(***************************************************************************)

\* The blocks of given types from the f-th on, and all of them.
From(f, B) == {i \in f .. Depth : blocks[i] \in B}
Among(B)   == From(1, B)

\* They are finitely many.
LEMMA FromFinite ==
    ASSUME Types, NEW B, NEW f \in Nat \ {0}
    PROVE  /\ IsFiniteSet(From(f, B)) /\ Cardinality(From(f, B)) \in Nat
           /\ Cardinality(From(f, B)) = 0 <=> From(f, B) = {}
           /\ Depth \in Nat
<1>1. Depth \in Nat
  BY LenProperties DEF Types, Depth
<1>2. IsFiniteSet(1 .. Depth)
  BY <1>1, FS_Interval
<1>3. From(f, B) \subseteq 1 .. Depth
  BY <1>1 DEF From
<1>4. IsFiniteSet(From(f, B))
  BY <1>2, <1>3, FS_Subset
<1> QED
  BY <1>1, <1>4, FS_CardinalityType, FS_EmptySet

\* The same for all blocks.
LEMMA AmongFinite ==
    ASSUME Types, NEW B
    PROVE  /\ IsFiniteSet(Among(B)) /\ Cardinality(Among(B)) \in Nat
           /\ Cardinality(Among(B)) = 0 <=> Among(B) = {}
           /\ Depth \in Nat
<1>1. 1 \in Nat \ {0}
  OBVIOUS
<1> QED
  BY <1>1, FromFinite DEF Among

\* One more when such a block is entered.
LEMMA FromEntered ==
    ASSUME Types, NEW B, NEW f \in Nat \ {0}, f <= Depth + 1,
           NEW kind \in Kinds, NEW helper \in Helpers, EnterBlock(kind, helper)
    PROVE  Cardinality(From(f, B))' =
              IF [kind |-> kind, helper |-> helper] \in B THEN Cardinality(From(f, B)) + 1
              ELSE Cardinality(From(f, B))
<1>1. /\ Depth \in Nat /\ Depth' = Depth + 1
      /\ \A i \in 1 .. Depth : blocks'[i] = blocks[i]
      /\ blocks'[Depth + 1] = [kind |-> kind, helper |-> helper]
  BY EnterFacts
<1>2. CASE [kind |-> kind, helper |-> helper] \in B
  <2>1. From(f, B)' = From(f, B) \cup {Depth + 1} /\ Depth + 1 \notin From(f, B)
    BY <1>1, <1>2 DEF From
  <2>2. Cardinality(From(f, B) \cup {Depth + 1}) = Cardinality(From(f, B)) + 1
    BY <2>1, FromFinite, FS_AddElement
  <2> QED
    BY <1>2, <2>1, <2>2
<1>3. CASE [kind |-> kind, helper |-> helper] \notin B
  <2>1. From(f, B)' = From(f, B)
    BY <1>1, <1>3 DEF From
  <2> QED
    BY <1>3, <2>1
<1> QED
  BY <1>2, <1>3

\* The same for all blocks.
LEMMA AmongEntered ==
    ASSUME Types, NEW B, NEW kind \in Kinds, NEW helper \in Helpers, EnterBlock(kind, helper)
    PROVE  Cardinality(Among(B))' =
              IF [kind |-> kind, helper |-> helper] \in B THEN Cardinality(Among(B)) + 1
              ELSE Cardinality(Among(B))
<1>1. 1 \in Nat \ {0} /\ 1 <= Depth + 1
  BY AmongFinite
<1> QED
  BY <1>1, FromEntered DEF Among

\* One less when it is left.
LEMMA FromLeft ==
    ASSUME Types, NEW B, NEW f \in Nat \ {0}, f <= Depth, blocks # <<>>, NEW ok, LeaveBlock(ok)
    PROVE  /\ Cardinality(From(f, B))' =
                 IF Top(blocks) \in B THEN Cardinality(From(f, B)) - 1
                 ELSE Cardinality(From(f, B))
           /\ Top(blocks) \in B => Cardinality(From(f, B)) >= 1
           /\ Top(blocks) \in B /\ Cardinality(From(f, B)) = 1 => From(f, B) = {Depth}
<1>1. /\ Depth \in Nat /\ Depth >= 1 /\ Depth' = Depth - 1
      /\ \A i \in 1 .. Depth - 1 : blocks'[i] = blocks[i]
      /\ Top(blocks) = blocks[Depth]
  BY LeaveFacts
<1>2. CASE Top(blocks) \in B
  <2>1. From(f, B)' = From(f, B) \ {Depth} /\ Depth \in From(f, B)
    BY <1>1, <1>2 DEF From
  <2>2. /\ IsFiniteSet(From(f, B) \ {Depth})
        /\ Cardinality(From(f, B) \ {Depth}) = Cardinality(From(f, B)) - 1
    BY <2>1, FromFinite, FS_RemoveElement
  <2>3. Cardinality(From(f, B) \ {Depth}) \in Nat
    BY <2>2, FS_CardinalityType
  <2>4. Cardinality(From(f, B) \ {Depth}) = 0 => From(f, B) \ {Depth} = {}
    BY <2>2, FS_EmptySet
  <2>5. Cardinality(From(f, B)) >= 1
    BY <2>2, <2>3, FromFinite
  <2>6. Cardinality(From(f, B)) = 1 => From(f, B) = {Depth}
    BY <2>1, <2>2, <2>4
  <2> QED
    BY <1>2, <2>1, <2>2, <2>5, <2>6
<1>3. CASE Top(blocks) \notin B
  <2>1. From(f, B)' = From(f, B)
    BY <1>1, <1>3 DEF From
  <2> QED
    BY <1>3, <2>1
<1> QED
  BY <1>2, <1>3

\* The same for all blocks.
LEMMA AmongLeft ==
    ASSUME Types, NEW B, blocks # <<>>, NEW ok, LeaveBlock(ok)
    PROVE  /\ Cardinality(Among(B))' =
                 IF Top(blocks) \in B THEN Cardinality(Among(B)) - 1
                 ELSE Cardinality(Among(B))
           /\ Top(blocks) \in B => Cardinality(Among(B)) >= 1
           /\ Top(blocks) \in B /\ Cardinality(Among(B)) = 1 => Among(B) = {Depth}
<1>1. 1 \in Nat \ {0} /\ 1 <= Depth
  BY LeaveFacts
<1> QED
  BY <1>1, FromLeft DEF Among

-----------------------------------------------------------------------------
(***************************************************************************)
(* Blocks used as the documentation recommends: the count of the contexts, *)
(* and the savepoints.                                                     *)
(***************************************************************************)

Contexts    == {b \in BlockTypes : b.kind \in {"db", "conn"}}
Transacting == {b \in BlockTypes : b.helper \in {"txn", "inert"}}

\* What the stacks of the connection say of the blocks, and of the driver.
Books ==
    /\ \A i \in 1 .. Len(txns) : txns[i] = "txn"
    /\ txns # <<>> => ~closed
    /\ begun => alive /\ txns # <<>>
    /\ ctx = Cardinality(Among(Contexts)) /\ (ctx > 0 => ~closed)
    /\ Len(txns) = Cardinality(Among(Transacting))

\* How blocks are nested: one transaction, and what depends on it within it.
Nesting ==
    \A i \in 1 .. Depth :
        /\ blocks[i].kind # "manual" /\ blocks[i].helper # "manual"
        /\ blocks[i].helper = "none" <=> blocks[i].kind = "conn"
        /\ blocks[i].helper \in {"inert", "save"}
              => \E j \in 1 .. i - 1 : blocks[j].helper = "txn"
        /\ \A j \in 1 .. Depth :
              blocks[i].helper = "txn" /\ blocks[j].helper = "txn" => i = j

SaveBlocks == {i \in 1 .. Depth : blocks[i].helper = "save"}

\* Without an entry on the stack no block is a transaction, or within one.
LEMMA NoneOpen ==
    ASSUME Types, Books, Nesting, txns = <<>>
    PROVE  \A i \in 1 .. Depth : blocks[i].helper \notin {"txn", "inert", "save"}
<1>1. Cardinality(Among(Transacting)) = 0
  BY StackFacts DEF Books
<1>2. Among(Transacting) = {} /\ Depth \in Nat
  BY <1>1, AmongFinite
<1>3. \A i \in 1 .. Depth : blocks[i] \in BlockTypes
  BY ElementOfSeq DEF Types, Depth
<1>4. \A i \in 1 .. Depth : blocks[i].helper \notin {"txn", "inert"}
  BY <1>2, <1>3 DEF Among, From, Transacting
<1> QED
  BY <1>2, <1>4 DEF Nesting

\* With one, there is the block that began the transaction.
LEMMA SomeOpen ==
    ASSUME Types, Books, Nesting, txns # <<>>
    PROVE  \E j \in 1 .. Depth : blocks[j].helper = "txn"
<1>1. Cardinality(Among(Transacting)) # 0
  BY StackFacts DEF Books
<1>2. Among(Transacting) # {} /\ Depth \in Nat
  BY <1>1, AmongFinite
<1>3. PICK i \in 1 .. Depth : blocks[i].helper \in {"txn", "inert"}
  BY <1>2 DEF Among, From, Transacting
<1> QED
  BY <1>2, <1>3 DEF Nesting

\* The block that began the transaction is left last of those in it, and the
\* others leave an entry.
LEMMA LastOfTransaction ==
    ASSUME Types, Books, Nesting, blocks # <<>>, NEW ok, LeaveBlock(ok)
    PROVE  /\ Top(blocks).helper = "txn" =>
                 /\ Len(txns) = 1
                 /\ \A i \in 1 .. Depth - 1 : blocks[i].helper = "none"
           /\ Top(blocks).helper = "inert" => Len(txns) > 1
<1>1. /\ Depth \in Nat /\ Depth >= 1 /\ Top(blocks) = blocks[Depth] /\ Top(blocks) \in BlockTypes
  BY LeaveFacts
<1>2. \A i \in 1 .. Depth : blocks[i] \in BlockTypes
  BY ElementOfSeq DEF Types, Depth
<1>3. \A i \in 1 .. Depth : blocks[i].helper \in Helpers
  BY <1>2 DEF BlockTypes
<1>4. ASSUME Top(blocks).helper = "txn"
      PROVE  Len(txns) = 1 /\ \A i \in 1 .. Depth - 1 : blocks[i].helper = "none"
  <2>1. \A i \in 1 .. Depth - 1 : blocks[i].helper \notin {"txn", "inert", "save", "manual"}
    BY <1>1, <1>4 DEF Nesting
  <2>2. \A i \in 1 .. Depth - 1 : blocks[i].helper = "none"
    BY <1>1, <1>3, <2>1 DEF Helpers
  <2>3. Among(Transacting) = {Depth}
    BY <1>1, <1>2, <1>4, <2>1 DEF Among, From, Transacting
  <2>4. Cardinality({Depth}) = 1
    BY FS_Singleton
  <2> QED
    BY <2>2, <2>3, <2>4 DEF Books
<1>5. ASSUME Top(blocks).helper = "inert" PROVE Len(txns) > 1
  <2>1. PICK j \in 1 .. Depth - 1 : blocks[j].helper = "txn"
    BY <1>1, <1>5 DEF Nesting
  <2>2. j \in Among(Transacting) /\ j # Depth
    BY <1>1, <1>2, <2>1 DEF Among, From, Transacting
  <2>3. Top(blocks) \in Transacting
    BY <1>1, <1>5 DEF Transacting
  <2>4. Cardinality(Among(Transacting)) >= 1
    BY <2>3, AmongLeft
  <2>5. Cardinality(Among(Transacting)) = 1 => Among(Transacting) = {Depth}
    BY <2>3, AmongLeft
  <2>6. Cardinality(Among(Transacting)) # 1
    BY <2>2, <2>5
  <2> QED
    BY <2>4, <2>6, AmongFinite DEF Books
<1> QED
  BY <1>4, <1>5

\* Blocks stay nested when one is entered,
LEMMA NestingEntered ==
    ASSUME Types, Nesting, NEW kind \in Kinds, NEW helper \in Helpers,
           EnterBlock(kind, helper),
           kind # "manual", helper # "manual", helper = "none" <=> kind = "conn",
           helper \in {"inert", "save"} => \E j \in 1 .. Depth : blocks[j].helper = "txn",
           helper = "txn" => \A j \in 1 .. Depth : blocks[j].helper # "txn"
    PROVE  Nesting' /\ SaveBlocks' = IF helper = "save" THEN SaveBlocks \cup {Depth + 1}
                                     ELSE SaveBlocks
<1>1. /\ Depth \in Nat /\ Depth' = Depth + 1
      /\ \A i \in 1 .. Depth : blocks'[i] = blocks[i]
      /\ blocks'[Depth + 1] = [kind |-> kind, helper |-> helper]
  BY EnterFacts
<1>2. blocks'[Depth + 1].kind = kind /\ blocks'[Depth + 1].helper = helper
  BY <1>1
<1>3. SaveBlocks' = IF helper = "save" THEN SaveBlocks \cup {Depth + 1} ELSE SaveBlocks
  BY <1>1, <1>2 DEF SaveBlocks
<1>4. Nesting'
  <2> SUFFICES ASSUME NEW i \in 1 .. Depth + 1
      PROVE  /\ blocks'[i].kind # "manual" /\ blocks'[i].helper # "manual"
             /\ blocks'[i].helper = "none" <=> blocks'[i].kind = "conn"
             /\ blocks'[i].helper \in {"inert", "save"}
                  => \E j \in 1 .. i - 1 : blocks'[j].helper = "txn"
             /\ \A j \in 1 .. Depth + 1 :
                   blocks'[i].helper = "txn" /\ blocks'[j].helper = "txn" => i = j
    BY <1>1 DEF Nesting
  <2>1. CASE i = Depth + 1
    BY <1>1, <1>2, <2>1
  <2>2. CASE i \in 1 .. Depth
    BY <1>1, <1>2, <2>2 DEF Nesting
  <2> QED
    BY <1>1, <2>1, <2>2
<1> QED
  BY <1>3, <1>4

\* and when one is left.
LEMMA NestingLeft ==
    ASSUME Types, Nesting, blocks # <<>>, NEW ok, LeaveBlock(ok)
    PROVE  Nesting' /\ SaveBlocks' = SaveBlocks \ {Depth}
<1>1. /\ Depth \in Nat /\ Depth >= 1 /\ Depth' = Depth - 1
      /\ \A i \in 1 .. Depth - 1 : blocks'[i] = blocks[i]
  BY LeaveFacts
<1>2. SaveBlocks' = SaveBlocks \ {Depth}
  BY <1>1 DEF SaveBlocks
<1>3. Nesting'
  BY <1>1 DEF Nesting
<1> QED
  BY <1>2, <1>3

\* The driver's savepoints are those it had, up to the n-th, and perhaps one named d.
Trimmed(n, d) ==
    /\ n \in Nat /\ n <= Len(saves) /\ Len(saves') \in {n, n + 1}
    /\ \A k \in 1 .. n : saves'[k] = saves[k]
    /\ Len(saves') = n + 1 => saves'[n + 1].sid = d

\* What the statements about a savepoint do to the others.
LEMMA StatementTrims ==
    ASSUME Types, NEW d \in Nat
    PROVE  /\ SAVEPOINT(d) => Trimmed(Len(saves), d) /\ Len(saves') = Len(saves) + 1
           /\ RELEASE(d) => Trimmed(Latest(d) - 1, d)
           /\ RELEASE_SAVEPOINT(d) => Trimmed(Latest(d) - 1, d) /\ Len(saves') = Latest(d)
           /\ TryRollbackTo(d) => Trimmed(Latest(d), d) \/ UNCHANGED driver
           /\ ROLLBACK_TO_SAVEPOINT(d)
                => Trimmed(Latest(d), d) /\ Len(saves') = Latest(d) + 1
<1>1. saves \in Seq(SaveTypes) /\ Len(saves) \in Nat
  BY LenProperties DEF Types, DriverOK
<1>2. ASSUME NEW w \in SUBSET Rows, NEW s \in Seq(SaveTypes)
      PROVE  /\ Len(s) \in Nat /\ Len(Append(s, [sid |-> d, snap |-> w])) = Len(s) + 1
             /\ \A k \in 1 .. Len(s) : Append(s, [sid |-> d, snap |-> w])[k] = s[k]
             /\ Append(s, [sid |-> d, snap |-> w])[Len(s) + 1].sid = d
  <2>1. [sid |-> d, snap |-> w] \in SaveTypes
    BY DEF SaveTypes
  <2>2. Append(s, [sid |-> d, snap |-> w])[Len(s) + 1] = [sid |-> d, snap |-> w]
    BY <2>1, PushFacts
  <2> QED
    BY <2>1, <2>2, PushFacts
<1>3. work \in SUBSET Rows
  BY DEF Types, DriverOK
<1>4. SAVEPOINT(d) => Trimmed(Len(saves), d) /\ Len(saves') = Len(saves) + 1
  BY <1>1, <1>2, <1>3 DEF SAVEPOINT, Trimmed
<1>5. ASSUME Named(d) # {}, NEW w \in SUBSET Rows, NEW n \in {Latest(d) - 1, Latest(d)}
      PROVE  /\ n \in Nat /\ n <= Len(saves)
             /\ SubSeq(saves, 1, n) \in Seq(SaveTypes) /\ Len(SubSeq(saves, 1, n)) = n
             /\ \A k \in 1 .. n : SubSeq(saves, 1, n)[k] = saves[k]
             /\ Len(Append(SubSeq(saves, 1, n), [sid |-> d, snap |-> w])) = n + 1
             /\ \A k \in 1 .. n :
                   Append(SubSeq(saves, 1, n), [sid |-> d, snap |-> w])[k] = saves[k]
             /\ Append(SubSeq(saves, 1, n), [sid |-> d, snap |-> w])[n + 1].sid = d
  <2>1. Latest(d) \in 1 .. Len(saves)
    BY <1>5, LatestFacts
  <2>2. n \in 0 .. Len(saves)
    BY <1>1, <1>5, <2>1
  <2>3. /\ SubSeq(saves, 1, n) \in Seq(SaveTypes) /\ Len(SubSeq(saves, 1, n)) = n
        /\ \A k \in 1 .. n : SubSeq(saves, 1, n)[k] = saves[k]
    BY <1>1, <2>2, CutFacts
  <2>4. n \in Nat /\ n <= Len(saves)
    BY <1>1, <2>2
  <2> HIDE DEF Latest
  <2> QED
    BY <1>2, <2>3, <2>4
<1>6. RELEASE(d) => Trimmed(Latest(d) - 1, d)
  <2> SUFFICES ASSUME RELEASE(d) PROVE Trimmed(Latest(d) - 1, d)
    OBVIOUS
  <2> DEFINE n == Latest(d) - 1
  <2>1. Named(d) # {} /\ saves' = SubSeq(saves, 1, n)
    BY DEF RELEASE, Releasable
  <2>2. /\ n \in Nat /\ n <= Len(saves) /\ Len(SubSeq(saves, 1, n)) = n
        /\ \A k \in 1 .. n : SubSeq(saves, 1, n)[k] = saves[k]
    BY <1>3, <1>5, <2>1
  <2> HIDE DEF n
  <2>3. Trimmed(n, d)
    BY <2>1, <2>2 DEF Trimmed
  <2> QED
    BY <2>3 DEF n
<1>7. RELEASE_SAVEPOINT(d) => Trimmed(Latest(d) - 1, d) /\ Len(saves') = Latest(d)
  <2> SUFFICES ASSUME RELEASE_SAVEPOINT(d)
      PROVE Trimmed(Latest(d) - 1, d) /\ Len(saves') = Latest(d)
    OBVIOUS
  <2>1. /\ Named(d) # {}
        /\ saves' = Append(SubSeq(saves, 1, Latest(d) - 1), [sid |-> d, snap |-> work])
    BY DEF RELEASE_SAVEPOINT, Releasable
  <2>2. Latest(d) \in Nat /\ Latest(d) - 1 + 1 = Latest(d)
    BY <1>1, <2>1, LatestFacts
  <2>3. Trimmed(Latest(d) - 1, d) /\ Len(saves') = Latest(d) - 1 + 1
    BY <1>3, <1>5, <2>1 DEF Trimmed
  <2> QED
    BY <2>2, <2>3
<1>8. TryRollbackTo(d) => Trimmed(Latest(d), d) \/ UNCHANGED driver
  <2> SUFFICES ASSUME TryRollbackTo(d), ~UNCHANGED driver PROVE Trimmed(Latest(d), d)
    OBVIOUS
  <2> DEFINE n == Latest(d)
  <2>1. Named(d) # {} /\ saves' = SubSeq(saves, 1, n)
    BY DEF TryRollbackTo, Releasable
  <2>2. /\ n \in Nat /\ n <= Len(saves) /\ Len(SubSeq(saves, 1, n)) = n
        /\ \A k \in 1 .. n : SubSeq(saves, 1, n)[k] = saves[k]
    BY <1>3, <1>5, <2>1
  <2> HIDE DEF n
  <2>3. Trimmed(n, d)
    BY <2>1, <2>2 DEF Trimmed
  <2> QED
    BY <2>3 DEF n
<1>9. ROLLBACK_TO_SAVEPOINT(d)
        => Trimmed(Latest(d), d) /\ Len(saves') = Latest(d) + 1
  <2> SUFFICES ASSUME ROLLBACK_TO_SAVEPOINT(d)
      PROVE Trimmed(Latest(d), d) /\ Len(saves') = Latest(d) + 1
    OBVIOUS
  <2>1. Named(d) # {}
    BY DEF ROLLBACK_TO_SAVEPOINT, Releasable
  <2>2. /\ saves' = Append(SubSeq(saves, 1, Latest(d)), [sid |-> d, snap |-> Snapshot(d)])
        /\ Snapshot(d) \in SUBSET Rows
    BY <2>1, LatestFacts DEF ROLLBACK_TO_SAVEPOINT
  <2> QED
    BY <1>5, <2>1, <2>2 DEF Trimmed
<1> QED
  BY <1>4, <1>6, <1>7, <1>8, <1>9

\* A savepoint among those that stay is still the latest of its name.
LEMMA LatestStays ==
    ASSUME Types, Types', NEW n, NEW d, Trimmed(n, d), NEW sid, sid # d,
           NamedIn(saves, sid) # {}, LatestIn(saves, sid) <= n
    PROVE  NamedIn(saves', sid) # {} /\ LatestIn(saves', sid) = LatestIn(saves, sid)
<1> DEFINE l == LatestIn(saves, sid)
<1> DEFINE m == LatestIn(saves', sid)
<1>1. /\ saves \in Seq(SaveTypes) /\ Len(saves) \in Nat
      /\ saves' \in Seq(SaveTypes) /\ Len(saves') \in Nat
  BY LenProperties DEF Types, DriverOK
<1>2. /\ l \in 1 .. Len(saves) /\ l \in NamedIn(saves, sid)
      /\ \A j \in NamedIn(saves, sid) : j <= l
  BY <1>1, LatestInFacts
<1>3. l <= n
  OBVIOUS
<1>4. NamedIn(saves', sid) # {} => /\ m \in 1 .. Len(saves') /\ m \in NamedIn(saves', sid)
                                  /\ \A j \in NamedIn(saves', sid) : j <= m
  BY <1>1, LatestInFacts
<1> HIDE DEF l, m
<1>5. l \in 1 .. n /\ n \in Nat
  BY <1>1, <1>2, <1>3 DEF Trimmed
<1>6. l \in NamedIn(saves', sid)
  BY <1>1, <1>2, <1>5 DEF Trimmed, NamedIn
<1>7. \A j \in NamedIn(saves', sid) : j \in 1 .. n /\ j \in NamedIn(saves, sid)
  BY <1>1, <1>5 DEF Trimmed, NamedIn
<1>8. m <= l /\ l <= m /\ m \in Nat /\ l \in Nat
  BY <1>1, <1>2, <1>4, <1>6, <1>7
<1>9. m = l
  BY <1>8
<1> QED
  BY <1>6, <1>9 DEF l, m

\* The last savepoint is the latest of its name.
LEMMA LatestLast ==
    ASSUME NEW s \in Seq(SaveTypes), Len(s) >= 1, NEW sid, s[Len(s)].sid = sid
    PROVE  NamedIn(s, sid) # {} /\ LatestIn(s, sid) = Len(s)
<1>1. Len(s) \in Nat
  BY LenProperties
<1>2. Len(s) \in NamedIn(s, sid)
  BY <1>1 DEF NamedIn
<1>3. LatestIn(s, sid) \in 1 .. Len(s) /\ Len(s) <= LatestIn(s, sid)
  BY <1>2, LatestInFacts
<1> QED
  BY <1>1, <1>2, <1>3

\* What a savepoint block needs, of the savepoints.
KeptIn(s, B) ==
    /\ \A i \in B : NamedIn(s, i) # {}
    /\ \A i, j \in B : i < j => LatestIn(s, i) < LatestIn(s, j)

\* It is what the property says of the state,
LEMMA KeptMeans ==
    ASSUME Types
    PROVE  SavepointsKept <=> (alive => KeptIn(saves, SaveBlocks))
BY NamedMeans DEF SavepointsKept, KeptIn, SaveBlocks

\* and of the next one.
LEMMA KeptMeansNext ==
    ASSUME Types'
    PROVE  SavepointsKept' <=> (alive' => KeptIn(saves', SaveBlocks'))
<1>1. DOMAIN saves' = 1 .. Len(saves')
  BY LenProperties DEF Types, DriverOK
<1>2. ASSUME NEW sid PROVE Named(sid)' = NamedIn(saves', sid)
  BY <1>1 DEF Named, NamedIn
<1>3. ASSUME NEW sid PROVE Latest(sid)' = LatestIn(saves', sid)
  BY <1>2 DEF Latest, LatestIn
<1> QED
  BY <1>2, <1>3 DEF SavepointsKept, KeptIn, SaveBlocks

\* So the savepoint blocks find theirs after a statement about the innermost one.
LEMMA KeptTrimmed ==
    ASSUME Types, Types', KeptIn(saves, SaveBlocks), NEW n, NEW d, Trimmed(n, d),
           \A i \in SaveBlocks' : i # d => i \in SaveBlocks /\ i < d
                                          /\ LatestIn(saves, i) <= n,
           d \in SaveBlocks' => Len(saves') = n + 1
    PROVE  KeptIn(saves', SaveBlocks')
<1>1. /\ \A i \in SaveBlocks : NamedIn(saves, i) # {}
      /\ \A i, j \in SaveBlocks : i < j => LatestIn(saves, i) < LatestIn(saves, j)
  BY DEF KeptIn
<1>2. n \in Nat /\ Depth' \in Nat /\ saves \in Seq(SaveTypes) /\ saves' \in Seq(SaveTypes)
  BY LenProperties DEF Trimmed, Types, Depth, DriverOK
<1>3. ASSUME NEW i \in SaveBlocks', i # d
      PROVE  /\ i \in SaveBlocks /\ i < d /\ LatestIn(saves, i) <= n
             /\ NamedIn(saves', i) # {} /\ LatestIn(saves', i) = LatestIn(saves, i)
  BY <1>1, <1>3, LatestStays
<1>4. ASSUME d \in SaveBlocks' PROVE NamedIn(saves', d) # {} /\ LatestIn(saves', d) = n + 1
  <2>1. Len(saves') = n + 1 /\ Len(saves') >= 1 /\ saves'[Len(saves')].sid = d
    BY <1>2, <1>4 DEF Trimmed
  <2> QED
    BY <1>2, <2>1, LatestLast
<1>5. \A i \in SaveBlocks' : NamedIn(saves', i) # {} /\ i \in Nat
  BY <1>2, <1>3, <1>4 DEF SaveBlocks
<1>6. ASSUME NEW i \in SaveBlocks', NEW j \in SaveBlocks', i < j
      PROVE  LatestIn(saves', i) < LatestIn(saves', j)
  <2>1. i # d
    BY <1>3, <1>5, <1>6
  <2>2. LatestIn(saves, i) \in Nat
    BY <1>1, <1>2, <1>3, <2>1, LatestInFacts
  <2>3. CASE j = d
    BY <1>2, <1>3, <1>4, <2>1, <2>2, <2>3
  <2>4. CASE j # d
    BY <1>1, <1>3, <1>6, <2>1, <2>4
  <2> QED
    BY <2>3, <2>4
<1> QED
  BY <1>5, <1>6 DEF KeptIn

\* The inductive invariant of the blocks.
Disciplined == Types /\ Books /\ Nesting /\ SavepointsKept

\* Nothing but the blocks' own entries is on the stack.
LEMMA OnlyTxns ==
    ASSUME Types, \A i \in 1 .. Len(txns) : txns[i] = "txn",
           \/ txns' = txns \/ txns' = <<>> \/ txns' = <<"txn">>
           \/ txns' = Append(txns, "txn")
           \/ txns # <<>> /\ txns' = Pop(txns)
    PROVE  \A i \in 1 .. Len(txns') : txns'[i] = "txn"
<1>1. CASE txns' = txns \/ txns' = <<>> \/ txns' = <<"txn">>
  BY <1>1
<1>2. CASE txns' = Append(txns, "txn")
  <2>1. /\ Len(txns) \in Nat /\ Len(txns') = Len(txns) + 1
        /\ txns'[Len(txns) + 1] = "txn"
    BY <1>2, StackFacts
  <2>2. \A i \in 1 .. Len(txns) : txns'[i] = txns[i]
    BY <1>2, StackFacts
  <2> QED
    BY <2>1, <2>2
<1>3. CASE txns # <<>> /\ txns' = Pop(txns)
  <2>1. Len(txns) \in Nat /\ Len(txns') = Len(txns) - 1
    BY <1>3, StackFacts
  <2>2. \A i \in 1 .. Len(txns) - 1 : txns'[i] = txns[i]
    BY <1>3, StackFacts
  <2> QED
    BY <2>1, <2>2
<1> QED
  BY <1>1, <1>2, <1>3

\* The books are right when a block is entered,
LEMMA BooksEntered ==
    ASSUME Types, Types', Books, NEW kind \in Kinds, NEW helper \in Helpers,
           EnterBlock(kind, helper),
           ctx' = IF kind \in {"db", "conn"} THEN ctx + 1 ELSE ctx,
           IF helper \in {"txn", "inert"}
           THEN txns' = Append(txns, "txn") \/ (txns = <<>> /\ txns' = <<"txn">>)
           ELSE txns' = txns,
           closed' = FALSE \/ (closed' = closed /\ ctx' = ctx /\ txns' = txns),
           begun' => alive /\ txns' # <<>>
    PROVE  Books'
<1>1. ctx' = Cardinality(Among(Contexts))'
  <2>1. [kind |-> kind, helper |-> helper] \in Contexts <=> kind \in {"db", "conn"}
    BY DEF Contexts, BlockTypes
  <2>2. Cardinality(Among(Contexts))' =
           IF kind \in {"db", "conn"} THEN Cardinality(Among(Contexts)) + 1
           ELSE Cardinality(Among(Contexts))
    BY <2>1, AmongEntered
  <2> QED
    BY <2>2 DEF Books
<1>2. Len(txns') = IF helper \in {"txn", "inert"} THEN Len(txns) + 1 ELSE Len(txns)
  <2>1. CASE txns' = Append(txns, "txn") /\ helper \in {"txn", "inert"}
    BY <2>1, StackFacts
  <2>2. CASE txns = <<>> /\ txns' = <<"txn">> /\ helper \in {"txn", "inert"}
    BY <2>2, StackFacts
  <2>3. CASE txns' = txns /\ helper \notin {"txn", "inert"}
    BY <2>3
  <2> QED
    BY <2>1, <2>2, <2>3
<1>3. Len(txns') = Cardinality(Among(Transacting))'
  <2>1. [kind |-> kind, helper |-> helper] \in Transacting <=> helper \in {"txn", "inert"}
    BY DEF Transacting, BlockTypes
  <2>2. Cardinality(Among(Transacting))' =
           IF helper \in {"txn", "inert"} THEN Cardinality(Among(Transacting)) + 1
           ELSE Cardinality(Among(Transacting))
    BY <2>1, AmongEntered
  <2> QED
    BY <1>2, <2>2 DEF Books
<1>4. \A i \in 1 .. Len(txns') : txns'[i] = "txn"
  <2>1. txns' = txns \/ txns' = Append(txns, "txn") \/ txns' = <<"txn">>
    OBVIOUS
  <2> QED
    BY <2>1, OnlyTxns DEF Books
<1>5. (txns' # <<>> => ~closed') /\ (ctx' > 0 => ~closed')
  BY DEF Books
<1>6. alive' = alive
  BY EnterFacts
<1> QED
  BY <1>1, <1>3, <1>4, <1>5, <1>6 DEF Books

\* when one is left,
LEMMA BooksLeft ==
    ASSUME Types, Types', Books, blocks # <<>>, NEW ok, LeaveBlock(ok),
           ctx' = IF Top(blocks).kind \in {"db", "conn"} THEN ctx - 1 ELSE ctx,
           IF Top(blocks).helper \in {"txn", "inert"}
           THEN txns # <<>> /\ txns' = Pop(txns) ELSE txns' = txns,
           closed' = closed \/ (ctx' = 0 /\ txns' = <<>>),
           begun' => alive' /\ txns' # <<>>
    PROVE  Books'
<1>0. Top(blocks) \in BlockTypes
  BY LeaveFacts
<1>1. ctx' = Cardinality(Among(Contexts))'
  <2>1. Top(blocks) \in Contexts <=> Top(blocks).kind \in {"db", "conn"}
    BY <1>0 DEF Contexts
  <2>2. Cardinality(Among(Contexts))' =
           IF Top(blocks) \in Contexts THEN Cardinality(Among(Contexts)) - 1
           ELSE Cardinality(Among(Contexts))
    BY AmongLeft
  <2> QED
    BY <2>1, <2>2 DEF Books
<1>2. Len(txns') = IF Top(blocks).helper \in {"txn", "inert"} THEN Len(txns) - 1 ELSE Len(txns)
  BY StackFacts
<1>3. Len(txns') = Cardinality(Among(Transacting))'
  <2>1. Top(blocks) \in Transacting <=> Top(blocks).helper \in {"txn", "inert"}
    BY <1>0 DEF Transacting
  <2>2. Cardinality(Among(Transacting))' =
           IF Top(blocks) \in Transacting THEN Cardinality(Among(Transacting)) - 1
           ELSE Cardinality(Among(Transacting))
    BY AmongLeft
  <2> QED
    BY <1>2, <2>1, <2>2 DEF Books
<1>4. \A i \in 1 .. Len(txns') : txns'[i] = "txn"
  BY OnlyTxns DEF Books
<1>5. (txns' # <<>> => ~closed') /\ (ctx' > 0 => ~closed')
  <2>1. CASE closed' = closed
    <3>1. txns' # <<>> => txns # <<>>
      OBVIOUS
    <3>2. ctx' > 0 => ctx > 0
      BY DEF Types
    <3> QED
      BY <2>1, <3>1, <3>2 DEF Books
  <2>2. CASE ctx' = 0 /\ txns' = <<>>
    BY <2>2
  <2> QED
    BY <2>1, <2>2
<1> QED
  BY <1>1, <1>3, <1>4, <1>5 DEF Books

\* and when blocks and stacks stay.
LEMMA StacksStay ==
    ASSUME Books, Nesting, UNCHANGED <<blocks, txns, ctx>>,
           closed' = closed \/ closed' = FALSE, begun' => alive' /\ txns # <<>>
    PROVE  Books' /\ Nesting' /\ SaveBlocks' = SaveBlocks
<1>1. Among(Contexts)' = Among(Contexts) /\ Among(Transacting)' = Among(Transacting)
  BY DEF Among, From, Depth
<1>2. Books'
  BY <1>1 DEF Books
<1>3. Nesting' /\ SaveBlocks' = SaveBlocks
  BY DEF Nesting, SaveBlocks, Depth
<1> QED
  BY <1>2, <1>3

\* Savepoints that are not touched are kept.
LEMMA KeptAlone ==
    ASSUME KeptIn(saves, SaveBlocks), saves' = saves, SaveBlocks' \subseteq SaveBlocks
    PROVE  KeptIn(saves', SaveBlocks')
BY DEF KeptIn

\* What the helper of the block that is left does to the stack and the driver.
LEMMA HelperLeft ==
    ASSUME Types, Types', Books, Nesting, SavepointsKept, blocks # <<>>,
           NEW err \in BOOLEAN, NEW ok \in BOOLEAN,
           ExitHelper(err, ok), NEW o, LeaveBlock(o)
    PROVE  /\ IF Top(blocks).helper \in {"txn", "inert"}
              THEN txns # <<>> /\ txns' = Pop(txns) ELSE txns' = txns
           /\ begun' => begun /\ txns' # <<>>
           /\ alive => KeptIn(saves', SaveBlocks')
<1>1. /\ Depth \in Nat /\ Depth >= 1 /\ Top(blocks) = blocks[Depth]
      /\ SaveBlocks' = SaveBlocks \ {Depth}
  BY LeaveFacts, NestingLeft
<1>2. alive => KeptIn(saves, SaveBlocks)
  BY KeptMeans
<1>3. CASE Top(blocks).helper = "save"
  <2>1. /\ txns' = txns /\ begun' = begun
        /\ RELEASE(Depth) \/ TryRollbackTo(Depth)
    BY <1>3 DEF ExitHelper, ExitSavepoint, RELEASE, TryRollbackTo, driver
  <2>2. ASSUME alive, NEW n \in {Latest(Depth) - 1, Latest(Depth)}, Trimmed(n, Depth)
        PROVE  KeptIn(saves', SaveBlocks')
    <3>1. Depth \in SaveBlocks
      BY <1>1, <1>3 DEF SaveBlocks
    <3>2. /\ \A i \in SaveBlocks : NamedIn(saves, i) # {}
          /\ \A i \in SaveBlocks' : i \in SaveBlocks /\ i < Depth
               /\ LatestIn(saves, i) < LatestIn(saves, Depth)
      BY <1>1, <1>2, <2>2, <3>1 DEF KeptIn, SaveBlocks
    <3>3. Latest(Depth) = LatestIn(saves, Depth) /\ saves \in Seq(SaveTypes)
      BY NamedMeans DEF Types, DriverOK
    <3>4. \A i \in SaveBlocks : LatestIn(saves, i) \in Nat
      BY <3>2, <3>3, LatestInFacts
    <3>5. \A i \in SaveBlocks' : LatestIn(saves, i) <= n
      <4> SUFFICES ASSUME NEW i \in SaveBlocks' PROVE LatestIn(saves, i) <= n
        OBVIOUS
      <4>1. /\ LatestIn(saves, i) \in Nat /\ LatestIn(saves, Depth) \in Nat
            /\ LatestIn(saves, i) < LatestIn(saves, Depth)
        BY <3>1, <3>2, <3>4
      <4> QED
        BY <2>2, <3>3, <4>1
    <3>6. Depth \notin SaveBlocks'
      BY <1>1
    <3> QED
      BY <1>2, <2>2, <3>2, <3>5, <3>6, KeptTrimmed
  <2>3. Trimmed(Latest(Depth) - 1, Depth) \/ Trimmed(Latest(Depth), Depth) \/ UNCHANGED driver
    BY <1>1, <2>1, StatementTrims
  <2>4. UNCHANGED driver /\ alive => KeptIn(saves', SaveBlocks')
    BY <1>1, <1>2, KeptAlone DEF driver
  <2>5. alive => KeptIn(saves', SaveBlocks')
    BY <2>2, <2>3, <2>4
  <2>6. Top(blocks).helper \notin {"txn", "inert"}
    BY <1>3
  <2>7. begun' => begun /\ txns' # <<>>
    BY <2>1 DEF Books
  <2> QED
    BY <2>1, <2>5, <2>6, <2>7, Zenon
<1>4. CASE Top(blocks).helper \in {"txn", "inert"}
  <2>1. ExitTransaction(err, ok)
    BY <1>4 DEF ExitHelper
  <2>2. /\ Top(blocks).helper = "txn" =>
             /\ Len(txns) = 1
             /\ \A i \in 1 .. Depth - 1 : blocks[i].helper = "none"
        /\ Top(blocks).helper = "inert" => Len(txns) > 1
    BY LastOfTransaction
  <2>5. /\ Len(txns) \in Nat /\ (txns = <<>> => Len(txns) = 0)
        /\ \A n \in Nat : (n > 1 => n # 1 /\ n # 0) /\ (n = 1 => ~(n > 1) /\ n # 0)
    BY StackFacts
  <2>6. \/ txns = <<>>
        \/ Len(txns) > 1 /\ txns' = Pop(txns) /\ UNCHANGED driver
        \/ Len(txns) = 1 /\ txns' = Pop(txns) /\ (TryRollback \/ COMMIT(FALSE))
    BY <2>1, TransactionLeft
  <2>3. CASE Top(blocks).helper = "inert"
    <3>1. txns # <<>> /\ txns' = Pop(txns) /\ UNCHANGED driver
      BY <2>2, <2>3, <2>5, <2>6, Zenon
    <3>2. Pop(txns) # <<>>
      <4>2. Len(txns) # 1
        BY <2>2, <2>3, <2>5, Zenon
      <4> QED
        BY <3>1, <4>2, StackFacts
    <3> QED
      BY <1>1, <1>2, <1>4, <3>1, <3>2, KeptAlone DEF driver
  <2>4. CASE Top(blocks).helper = "txn"
    <3>1. /\ txns # <<>> /\ txns' = Pop(txns)
          /\ TryRollback \/ COMMIT(FALSE)
      BY <2>2, <2>4, <2>5, <2>6, Zenon
    <3>2. ~begun'
      BY <3>1 DEF TryRollback, ROLLBACK, COMMIT, driver, Books
    <3>3. SaveBlocks' = {}
      BY <1>1, <2>2, <2>4 DEF SaveBlocks
    <3> QED
      BY <1>4, <3>1, <3>2, <3>3 DEF KeptIn
  <2> QED
    BY <1>4, <2>3, <2>4
<1> QED
  BY <1>3, <1>4 DEF ExitHelper

\* The invariant of the blocks holds at first: there are none.
LEMMA DisciplinedInit == Init => Disciplined
<1> SUFFICES ASSUME Init PROVE Disciplined
  OBVIOUS
<1>1. Types
  BY TypeInit
<1>2. Depth = 0 /\ SaveBlocks = {}
  BY DEF Init, Depth, SaveBlocks
<1>3. Among(Contexts) = {} /\ Among(Transacting) = {}
  BY <1>2 DEF Among, From
<1>4. Books
  <2>1. Cardinality({}) = 0
    BY FS_EmptySet
  <2> QED
    BY <1>3, <2>1 DEF Books, Init
<1>5. Nesting
  BY <1>2 DEF Nesting
<1>6. SavepointsKept
  BY <1>1, <1>2, KeptMeans DEF KeptIn
<1> QED
  BY <1>1, <1>4, <1>5, <1>6 DEF Disciplined

\* The uses of blocks that the documentation recommends.
Recommended ==
    Ops \cap {"explicit_outer", "session", "manual", "manual_closed", "close"} = {}

\* Every step keeps it.
LEMMA DisciplinedNext ==
    ASSUME Recommended
    PROVE  Disciplined /\ [Next]_vars => Disciplined'
<1> SUFFICES ASSUME Disciplined, [Next]_vars PROVE Disciplined'
  OBVIOUS
<1>0. Types /\ Types' /\ Books /\ Nesting /\ SavepointsKept
  BY TypeNext DEF Disciplined
<1>a. alive => KeptIn(saves, SaveBlocks)
  BY <1>0, KeptMeans
<1>b. ASSUME Books', Nesting', alive' => KeptIn(saves', SaveBlocks') PROVE Disciplined'
  BY <1>0, <1>b, KeptMeansNext DEF Disciplined
<1>c. /\ txns = <<>> => SaveBlocks = {}
      /\ txns # <<>> => \E j \in 1 .. Depth : blocks[j].helper = "txn"
  BY <1>0, NoneOpen, SomeOpen DEF SaveBlocks
<1>d. closed => txns = <<>> /\ ctx = 0
  BY <1>0 DEF Books, Types
<1>e. UNCHANGED driver => begun' = begun /\ saves' = saves
  BY DEF driver
<1>1. ASSUME NEW k \in Kinds, EnterTransaction(k) PROVE Disciplined'
  <2>1. /\ k \in {"atomic", "transaction", "db"} /\ EnterBlock(k, "txn")
        /\ "txn" \in Helpers /\ txns' = <<"txn">> /\ closed' = FALSE
        /\ ctx' = IF k \in {"db", "conn"} THEN ctx + 1 ELSE ctx
        /\ alive /\ txns' # <<>>
    BY <1>1 DEF EnterTransaction, Counted, Begin, Helpers
  <2>2. txns = <<>>
    BY <1>1, <1>d DEF EnterTransaction
  <2>3. Books'
    BY <1>0, <2>1, <2>2, BooksEntered
  <2>4. Nesting' /\ SaveBlocks' = SaveBlocks
    <3>1. \A j \in 1 .. Depth : blocks[j].helper # "txn"
      BY <1>0, <2>2, NoneOpen
    <3> QED
      BY <1>0, <2>1, <3>1, NestingEntered
  <2>5. KeptIn(saves', SaveBlocks')
    BY <1>c, <2>2, <2>4 DEF KeptIn
  <2> QED
    BY <1>b, <2>3, <2>4, <2>5
<1>2. ASSUME NEW k \in Kinds, EnterSavepoint(k) PROVE Disciplined'
  <2>1. /\ k \in {"atomic", "savepoint", "db"} /\ EnterBlock(k, "save")
        /\ "save" \in Helpers /\ txns' = txns /\ closed' = closed
        /\ ctx' = IF k \in {"db", "conn"} THEN ctx + 1 ELSE ctx
        /\ alive /\ begun /\ begun' = begun /\ SAVEPOINT(Depth + 1)
    BY <1>2 DEF EnterSavepoint, Counted, SAVEPOINT, Helpers
  <2>2. txns # <<>> /\ ~closed
    BY <1>0, <2>1 DEF Books
  <2>3. closed' = FALSE
    BY <1>0, <2>1, <2>2 DEF Types
  <2>4. Books'
    BY <1>0, <2>1, <2>2, <2>3, BooksEntered
  <2>5. Nesting' /\ SaveBlocks' = SaveBlocks \cup {Depth + 1}
    BY <1>0, <1>c, <2>1, <2>2, NestingEntered
  <2>6. KeptIn(saves', SaveBlocks')
    <3>1. Depth \in Nat /\ Depth + 1 \in Nat /\ saves \in Seq(SaveTypes) /\ Len(saves) \in Nat
      BY <1>0, LenProperties DEF Types, Depth, DriverOK
    <3>2. Trimmed(Len(saves), Depth + 1) /\ Len(saves') = Len(saves) + 1
      BY <1>0, <2>1, <3>1, StatementTrims
    <3>3. \A i \in SaveBlocks : LatestIn(saves, i) \in 1 .. Len(saves) /\ i < Depth + 1
      <4>1. \A i \in SaveBlocks : NamedIn(saves, i) # {} /\ i < Depth + 1
        BY <1>a, <2>1, <3>1 DEF KeptIn, SaveBlocks
      <4> QED
        BY <3>1, <4>1, LatestInFacts
    <3>4. \A i \in SaveBlocks' : i # Depth + 1 => i \in SaveBlocks /\ i < Depth + 1
                                                   /\ LatestIn(saves, i) <= Len(saves)
      BY <2>5, <3>1, <3>3
    <3> QED
      BY <1>0, <1>a, <2>1, <3>2, <3>4, KeptTrimmed
  <2> QED
    BY <1>b, <2>4, <2>5, <2>6
<1>3. CASE EnterInert
  <2>1. /\ EnterBlock("transaction", "inert") /\ "transaction" \in Kinds /\ "inert" \in Helpers
        /\ txns # <<>> /\ txns' = Append(txns, "txn")
        /\ UNCHANGED <<closed, ctx>> /\ UNCHANGED driver /\ alive' = alive
    BY <1>3 DEF EnterInert, EnterBlock, Kinds, Helpers
  <2>2. ~closed /\ closed' = FALSE /\ txns' # <<>> /\ (begun' => alive)
    BY <1>0, <1>d, <1>e, <2>1, StackFacts DEF Types, Books
  <2>3. Books'
    BY <1>0, <2>1, <2>2, BooksEntered
  <2>4. Nesting' /\ SaveBlocks' = SaveBlocks
    BY <1>0, <1>c, <2>1, NestingEntered
  <2> QED
    BY <1>a, <1>b, <1>e, <2>1, <2>3, <2>4, KeptAlone
<1>4. CASE EnterConnection
  <2>1. /\ EnterBlock("conn", "none") /\ "conn" \in Kinds /\ "none" \in Helpers
        /\ closed' = FALSE /\ ctx' = ctx + 1 /\ UNCHANGED driver /\ alive' = alive
    BY <1>4 DEF EnterConnection, EnterBlock, Kinds, Helpers
  <2>2. txns' = txns
    BY <1>4, <1>d DEF EnterConnection
  <2>3. begun' => alive /\ txns' # <<>>
    BY <1>0, <1>e, <2>1, <2>2 DEF Books
  <2>4. Books'
    BY <1>0, <2>1, <2>2, <2>3, BooksEntered
  <2>5. Nesting' /\ SaveBlocks' = SaveBlocks
    BY <1>0, <2>1, NestingEntered
  <2> QED
    BY <1>a, <1>b, <1>e, <2>1, <2>4, <2>5, KeptAlone
<1>5. ASSUME blocks # <<>>, NEW err \in BOOLEAN, NEW ok \in BOOLEAN, ExitHelper(err, ok),
             NEW o, LeaveBlock(o),
             ctx' = IF Top(blocks).kind \in {"db", "conn"} THEN ctx - 1 ELSE ctx,
             \/ UNCHANGED <<closed, alive>>
             \/ ctx' = 0 /\ txns' = <<>>
      PROVE  Disciplined'
  <2>1. /\ IF Top(blocks).helper \in {"txn", "inert"}
           THEN txns # <<>> /\ txns' = Pop(txns) ELSE txns' = txns
        /\ begun' => begun /\ txns' # <<>>
        /\ alive => KeptIn(saves', SaveBlocks')
    BY <1>0, <1>5, HelperLeft
  <2>2. begun' => alive' /\ txns' # <<>>
    <3>1. begun' => alive /\ txns' # <<>>
      BY <1>0, <2>1 DEF Books
    <3>2. txns' # <<>> => alive' = alive
      BY <1>5
    <3> QED
      BY <3>1, <3>2
  <2>3. Books'
    BY <1>0, <1>5, <2>1, <2>2, BooksLeft
  <2>4. Nesting' /\ SaveBlocks' = SaveBlocks \ {Depth}
    BY <1>0, <1>5, NestingLeft
  <2>5. alive' => KeptIn(saves', SaveBlocks')
    <3>1. CASE UNCHANGED <<closed, alive>>
      BY <2>1, <3>1
    <3>2. CASE txns' = <<>>
      <4>1. CASE txns = <<>>
        BY <1>c, <2>4, <4>1 DEF KeptIn
      <4>2. CASE txns # <<>>
        <5>1. Len(txns) = 1 /\ Top(blocks).helper \in {"txn", "inert"}
          BY <1>0, <2>1, <3>2, <4>2, StackFacts
        <5>2. Top(blocks).helper # "inert"
          <6>1. ~(1 > 1)
            OBVIOUS
          <6> QED
            BY <1>0, <1>5, <5>1, <6>1, LastOfTransaction
        <5>3. \A i \in 1 .. Depth - 1 : blocks[i].helper = "none"
          BY <1>0, <1>5, <5>1, <5>2, LastOfTransaction
        <5>4. Depth \in Nat
          BY <1>0, AmongFinite
        <5>5. SaveBlocks' = {}
          BY <2>4, <5>3, <5>4 DEF SaveBlocks
        <5> QED
          BY <5>5 DEF KeptIn
      <4> QED
        BY <4>1, <4>2
    <3> QED
      BY <1>5, <3>1, <3>2
  <2> QED
    BY <1>b, <2>3, <2>4, <2>5
<1>6. ASSUME NEW err \in BOOLEAN, NEW ok \in BOOLEAN, Exit(err, ok) PROVE Disciplined'
  <2>1. /\ blocks # <<>> /\ Top(blocks).kind \in {"atomic", "transaction", "savepoint"}
        /\ ExitHelper(err, ok) /\ LeaveBlock(ok) /\ UNCHANGED <<closed, alive>> /\ ctx' = ctx
    BY <1>6 DEF Exit
  <2>2. Top(blocks).kind \notin {"db", "conn"}
    BY <2>1
  <2> QED
    BY <1>5, <2>1, <2>2
<1>7. ASSUME NEW err \in BOOLEAN, NEW ok \in BOOLEAN, ExitDatabase(err, ok) PROVE Disciplined'
  <2>1. /\ blocks # <<>> /\ Top(blocks).kind = "db" /\ ExitHelper(err, ok)
        /\ ctx > 0 /\ ctx' = ctx - 1
        /\ \E o \in BOOLEAN : LeaveBlock(o)
        /\ UNCHANGED <<closed, alive>> \/ (~(ctx > 1) /\ txns' = <<>>)
    BY <1>7 DEF ExitDatabase
  <2>2. ctx > 0 /\ ~(ctx > 1) => ctx - 1 = 0
    BY <1>0 DEF Types
  <2> QED
    BY <1>5, <2>1, <2>2
<1>8. CASE ExitConnection
  <2>1. /\ blocks # <<>> /\ Top(blocks).kind = "conn" /\ ctx > 0
        /\ \E o : LeaveBlock(o)
    BY <1>8 DEF ExitConnection
  <2>2. /\ Depth \in Nat /\ Depth >= 1 /\ Top(blocks) = blocks[Depth]
        /\ Nesting' /\ SaveBlocks' = SaveBlocks \ {Depth}
    BY <1>0, <2>1, LeaveFacts, NestingLeft
  <2>3. Top(blocks).helper = "none"
    BY <1>0, <2>1, <2>2 DEF Nesting
  <2>4. CASE ctx' = ctx - 1 /\ UNCHANGED <<closed, txns, alive, driver>>
    <3>1. begun' => alive' /\ txns' # <<>>
      BY <1>0, <1>e, <2>4 DEF Books
    <3>2. Books'
      BY <1>0, <2>1, <2>3, <2>4, <3>1, BooksLeft
    <3>3. alive' => KeptIn(saves', SaveBlocks')
      BY <1>a, <1>e, <2>2, <2>4, KeptAlone
    <3> QED
      BY <1>b, <2>2, <3>2, <3>3
  <2>5. CASE ctx = 1 /\ txns = <<>> /\ Disconnected
    <3>1. ctx' = ctx - 1 /\ ctx' = 0 /\ txns' = <<>> /\ ~begun' /\ txns' = txns
      BY <2>5 DEF Disconnected
    <3>2. Books'
      BY <1>0, <2>1, <2>3, <3>1, BooksLeft
    <3>3. KeptIn(saves', SaveBlocks')
      BY <1>c, <2>2, <2>5 DEF KeptIn
    <3> QED
      BY <1>b, <2>2, <3>2, <3>3
  <2> QED
    BY <1>8, <2>4, <2>5 DEF ExitConnection
<1>9. CASE ExitUncounted
  <2>1. /\ blocks # <<>> /\ Top(blocks).kind \in {"db", "conn"} /\ ctx = 0
        /\ LeaveBlock(FALSE)
    BY <1>9 DEF ExitUncounted
  <2>2. Top(blocks) \in Contexts
    BY <1>0, <2>1, LeaveFacts DEF Contexts
  <2>3. Cardinality(Among(Contexts)) >= 1
    BY <1>0, <2>1, <2>2, AmongLeft
  <2> QED
    BY <1>0, <2>1, <2>3 DEF Books
<1>10. CASE ExitManual
  <2>1. blocks # <<>> /\ Top(blocks).kind = "manual"
    BY <1>10 DEF ExitManual
  <2>2. Depth \in Nat /\ Depth >= 1 /\ Top(blocks) = blocks[Depth]
    BY <1>0, <2>1, PopFacts DEF Depth, Top, Types
  <2> QED
    BY <1>0, <2>1, <2>2 DEF Nesting
<1>11. ASSUME Books, UNCHANGED <<blocks, txns, ctx, alive, begun, saves>>,
              closed' = closed \/ closed' = FALSE
       PROVE  Disciplined'
  <2>1. Books' /\ Nesting' /\ SaveBlocks' = SaveBlocks
    <3>1. begun' => alive' /\ txns # <<>>
      BY <1>11 DEF Books
    <3> QED
      BY <1>0, <1>11, <3>1, StacksStay
  <2>2. alive' => KeptIn(saves', SaveBlocks')
    BY <1>a, <1>11, <2>1, KeptAlone
  <2> QED
    BY <1>b, <2>1, <2>2
<1>12. ASSUME NEW i \in Addressed, ExplicitCommit(i) \/ ExplicitRollback(i) PROVE Disciplined'
  <2>1. /\ i \in 1 .. Depth /\ blocks[i].helper \in {"txn", "save"}
        /\ \A j \in i + 1 .. Depth : blocks[j].helper \notin {"txn", "save"}
    BY DEF Addressed, Recommended
  <2>2. /\ UNCHANGED <<blocks, txns, ctx>> /\ closed' = closed /\ alive' = alive
        /\ alive /\ begun
    BY <1>12 DEF ExplicitCommit, ExplicitRollback, state, COMMIT, ROLLBACK,
                 RELEASE_SAVEPOINT, ROLLBACK_TO_SAVEPOINT, Releasable
  <2>3. Depth \in Nat /\ txns # <<>>
    BY <1>0, <2>2, AmongFinite DEF Books
  <2>4. Books' /\ Nesting' /\ SaveBlocks' = SaveBlocks
    BY <1>0, <2>2, <2>3, StacksStay
  <2>5. KeptIn(saves', SaveBlocks')
    <3>1. CASE blocks[i].helper = "txn"
      <4>1. SaveBlocks = {}
        <5> SUFFICES ASSUME NEW j \in 1 .. Depth, blocks[j].helper = "save" PROVE FALSE
          BY DEF SaveBlocks
        <5>1. PICK t \in 1 .. j - 1 : blocks[t].helper = "txn"
          BY <1>0 DEF Nesting
        <5>2. t = i
          BY <1>0, <2>1, <2>3, <3>1, <5>1 DEF Nesting
        <5> QED
          BY <2>1, <2>3, <5>1, <5>2
      <4> QED
        BY <2>4, <4>1 DEF KeptIn
    <3>2. CASE blocks[i].helper = "save"
      <4>1. RELEASE_SAVEPOINT(i) \/ ROLLBACK_TO_SAVEPOINT(i)
        BY <1>12, <3>2 DEF ExplicitCommit, ExplicitRollback
      <4>2. i \in SaveBlocks /\ \A j \in SaveBlocks : j # i => j < i
        BY <2>1, <2>3, <3>2 DEF SaveBlocks
      <4>3. PICK n \in {Latest(i) - 1, Latest(i)} : Trimmed(n, i) /\ Len(saves') = n + 1
        <5>1. i \in Nat
          BY <2>1, <2>3
        <5>2. Latest(i) \in Nat
          <6>1. Named(i) # {}
            BY <4>1 DEF RELEASE_SAVEPOINT, ROLLBACK_TO_SAVEPOINT, Releasable
          <6>2. Latest(i) \in 1 .. Len(saves)
            BY <1>0, <6>1, LatestFacts
          <6> QED
            BY <6>2
        <5>3. Latest(i) - 1 + 1 = Latest(i)
          BY <5>2
        <5>4. \/ Trimmed(Latest(i) - 1, i) /\ Len(saves') = Latest(i)
              \/ Trimmed(Latest(i), i) /\ Len(saves') = Latest(i) + 1
          BY <1>0, <4>1, <5>1, StatementTrims
        <5> QED
          BY <5>3, <5>4
      <4>4. Latest(i) = LatestIn(saves, i) /\ saves \in Seq(SaveTypes)
        BY <1>0, NamedMeans DEF Types, DriverOK
      <4>5. /\ \A j \in SaveBlocks : NamedIn(saves, j) # {}
            /\ \A j, l \in SaveBlocks : j < l => LatestIn(saves, j) < LatestIn(saves, l)
        BY <1>a, <2>2 DEF KeptIn
      <4>6. \A j \in SaveBlocks : LatestIn(saves, j) \in Nat
        BY <4>4, <4>5, LatestInFacts
      <4>7. \A j \in SaveBlocks' : j # i => j \in SaveBlocks /\ j < i /\ LatestIn(saves, j) <= n
        <5> SUFFICES ASSUME NEW j \in SaveBlocks, j # i PROVE j < i /\ LatestIn(saves, j) <= n
          BY <2>4
        <5>1. /\ LatestIn(saves, j) \in Nat /\ LatestIn(saves, i) \in Nat
              /\ j < i /\ LatestIn(saves, j) < LatestIn(saves, i)
          BY <4>2, <4>5, <4>6
        <5> QED
          BY <4>3, <4>4, <5>1
      <4> QED
        BY <1>0, <1>a, <2>2, <4>3, <4>7, KeptTrimmed
    <3> QED
      BY <2>1, <3>1, <3>2
  <2> QED
    BY <1>b, <2>4, <2>5
<1>13. CASE session_start \/ session_commit \/ session_rollback \/ EnterManual
  BY <1>13 DEF session_start, session_commit, session_rollback, SessionAllowed, EnterManual,
               Recommended
<1>14. CASE ManualStatement
  <2>1. txns # <<>> /\ Top(txns) = "manual"
    BY <1>14 DEF ManualStatement
  <2>2. Len(txns) \in 1 .. Len(txns) /\ Top(txns) = txns[Len(txns)]
    BY <1>0, <2>1, FirstStays, StackFacts
  <2> QED
    BY <1>0, <2>1, <2>2 DEF Books
<1>15. ASSUME NEW r \in Rows, Write(r) PROVE Disciplined'
  <2>1. /\ UNCHANGED <<blocks, txns, ctx, alive, begun, saves>>
        /\ closed' = closed \/ closed' = FALSE
    BY <1>15, <1>d DEF Write, Connected, state
  <2> QED
    BY <1>0, <1>11, <2>1
<1>16. CASE Close
  <2>1. blocks = <<>> /\ UNCHANGED blocks /\ Disconnected
    BY <1>16 DEF Close, Recommended
  <2>2. Depth = 0 /\ Depth' = 0
    BY <2>1 DEF Depth
  <2>3. Among(Contexts)' = {} /\ Among(Transacting)' = {} /\ SaveBlocks' = {} /\ Nesting'
    BY <2>2 DEF Among, From, SaveBlocks, Nesting
  <2>4. Cardinality({}) = 0
    BY FS_EmptySet
  <2>5. Books'
    BY <2>1, <2>3, <2>4 DEF Books, Disconnected
  <2> QED
    BY <1>b, <2>3, <2>5 DEF KeptIn
<1>17. CASE Lose
  <2>1. /\ UNCHANGED <<blocks, txns, ctx>> /\ closed' = closed
        /\ alive' = FALSE /\ begun' = FALSE
    BY <1>17 DEF Lose, state
  <2>2. Books' /\ Nesting'
    BY <1>0, <2>1, StacksStay
  <2> QED
    BY <1>b, <2>1, <2>2
<1>18. CASE UNCHANGED vars
  BY <1>0, <1>11, <1>18 DEF vars, state, driver
<1> QED
  BY <1>1, <1>2, <1>3, <1>4, <1>6, <1>7, <1>8, <1>9, <1>10, <1>12, <1>13, <1>14, <1>15,
     <1>16, <1>17, <1>18 DEF Next

\* Used as the documentation recommends, with whatever faults, every savepoint block
\* finds its savepoint at the driver, in the order of the nesting.
THEOREM SavepointsStay ==
    ASSUME Recommended
    PROVE  Spec => []SavepointsKept
<1>1. Disciplined => SavepointsKept
  BY DEF Disciplined
<1> QED
  BY <1>1, DisciplinedInit, DisciplinedNext, PTL DEF Spec

\* And the ctx stack counts the blocks that need the connection, which is open in all
\* of them: the database is closed when the outermost is left, and not before.
THEOREM ContextsCount ==
    ASSUME Recommended
    PROVE  Spec => []ContextsSound
<1>1. Disciplined => ContextsSound
  <2> SUFFICES ASSUME Disciplined PROVE ContextsSound
    OBVIOUS
  <2>1. \A i \in 1 .. Depth : blocks[i] \in BlockTypes
    BY ElementOfSeq DEF Disciplined, Types, Depth
  <2>2. Among(Contexts) = {i \in 1 .. Depth : blocks[i].kind \in {"db", "conn"}}
    BY <2>1 DEF Among, From, Contexts
  <2> QED
    BY <2>2, TypesMean DEF Disciplined, Books, ContextCounted, ContextsSound
<1> QED
  BY <1>1, DisciplinedInit, DisciplinedNext, PTL DEF Spec

-----------------------------------------------------------------------------
(***************************************************************************)
(* manual_commit() blocks, in any mixture.                                 *)
(***************************************************************************)

Suspending == {b \in BlockTypes : b.helper \in {"manual", "inert"}}

\* From a manual block on, every block that will take an entry off the stack has one
\* there, the manual block's own below them, and none ends a transaction.
Suspended ==
    \A f \in 1 .. Depth : blocks[f].kind = "manual" =>
        /\ blocks[f].helper = "manual"
        /\ txns # <<>> /\ txns[1] = "manual"
        /\ Len(txns) >= Cardinality(From(f, Suspending))
        /\ \A i \in f .. Depth : blocks[i].helper # "txn"

NoManual == \A i \in 1 .. Depth : blocks[i].kind # "manual"

\* With nothing on the stack, no manual block is open.
LEMMA EmptyNoManual == Suspended /\ txns = <<>> => NoManual
BY DEF Suspended, NoManual

\* It holds on when a block is entered that is not a manual one,
LEMMA SuspendedEntered ==
    ASSUME Types, Suspended, NEW kind \in Kinds, NEW helper \in Helpers,
           EnterBlock(kind, helper), kind # "manual",
           \/ NoManual
           \/ helper \in {"save", "none"} /\ txns' = txns
           \/ helper = "inert" /\ txns # <<>> /\ txns' = Append(txns, "txn")
    PROVE  Suspended'
<1>1. /\ Depth \in Nat /\ Depth' = Depth + 1
      /\ \A i \in 1 .. Depth : blocks'[i] = blocks[i]
      /\ blocks'[Depth + 1] = [kind |-> kind, helper |-> helper]
  BY EnterFacts
<1>2. blocks'[Depth + 1].kind = kind /\ blocks'[Depth + 1].helper = helper
  BY <1>1
<1> SUFFICES ASSUME NEW f \in 1 .. Depth + 1, blocks'[f].kind = "manual"
    PROVE  /\ blocks'[f].helper = "manual"
           /\ txns' # <<>> /\ txns'[1] = "manual"
           /\ Len(txns') >= Cardinality(From(f, Suspending))'
           /\ \A i \in f .. Depth + 1 : blocks'[i].helper # "txn"
  BY <1>1 DEF Suspended
<1>3. /\ f \in 1 .. Depth /\ blocks[f].kind = "manual" /\ blocks'[f] = blocks[f]
      /\ f \in Nat \ {0} /\ f <= Depth + 1
  BY <1>1, <1>2
<1>4. /\ blocks[f].helper = "manual" /\ txns # <<>> /\ txns[1] = "manual"
      /\ Len(txns) >= Cardinality(From(f, Suspending))
      /\ \A i \in f .. Depth : blocks[i].helper # "txn"
  BY <1>3 DEF Suspended
<1>5. /\ Cardinality(From(f, Suspending)) \in Nat /\ Len(txns) \in Nat
      /\ Cardinality(From(f, Suspending))' =
            IF [kind |-> kind, helper |-> helper] \in Suspending
            THEN Cardinality(From(f, Suspending)) + 1
            ELSE Cardinality(From(f, Suspending))
  BY <1>3, FromFinite, FromEntered, StackFacts
<1>6. ~NoManual
  BY <1>3 DEF NoManual
<1>7. CASE helper \in {"save", "none"} /\ txns' = txns
  <2>1. [kind |-> kind, helper |-> helper] \notin Suspending
    BY <1>7 DEF Suspending
  <2>2. \A i \in f .. Depth + 1 : blocks'[i].helper # "txn"
    BY <1>1, <1>2, <1>3, <1>4, <1>7
  <2> QED
    BY <1>3, <1>4, <1>5, <1>7, <2>1, <2>2
<1>8. CASE helper = "inert" /\ txns' = Append(txns, "txn")
  <2>1. Len(txns') = Len(txns) + 1 /\ txns' # <<>> /\ txns'[1] = txns[1]
    BY <1>4, <1>8, StackFacts, FirstStays
  <2>2. \A i \in f .. Depth + 1 : blocks'[i].helper # "txn"
    BY <1>1, <1>2, <1>3, <1>4, <1>8
  <2>3. Len(txns') >= Cardinality(From(f, Suspending))'
    BY <1>4, <1>5, <2>1
  <2> QED
    BY <1>3, <1>4, <2>1, <2>2, <2>3
<1> QED
  BY <1>6, <1>7, <1>8

\* when a block is left,
LEMMA SuspendedLeft ==
    ASSUME Types, Suspended, blocks # <<>>, NEW ok, LeaveBlock(ok),
           \/ NoManual \/ txns' = txns
           \/ Top(blocks).helper = "txn"
           \/ Top(blocks) \in Suspending /\ txns' = Pop(txns)
    PROVE  Suspended'
<1>1. /\ Depth \in Nat /\ Depth >= 1 /\ Depth' = Depth - 1
      /\ \A i \in 1 .. Depth - 1 : blocks'[i] = blocks[i]
      /\ Top(blocks) = blocks[Depth]
  BY LeaveFacts
<1> SUFFICES ASSUME NEW f \in 1 .. Depth - 1, blocks'[f].kind = "manual"
    PROVE  /\ blocks'[f].helper = "manual"
           /\ txns' # <<>> /\ txns'[1] = "manual"
           /\ Len(txns') >= Cardinality(From(f, Suspending))'
           /\ \A i \in f .. Depth - 1 : blocks'[i].helper # "txn"
  BY <1>1 DEF Suspended
<1>2. /\ f \in 1 .. Depth /\ blocks[f].kind = "manual" /\ blocks'[f] = blocks[f]
      /\ f \in Nat \ {0} /\ f <= Depth /\ f # Depth
  BY <1>1
<1>3. /\ blocks[f].helper = "manual" /\ txns # <<>> /\ txns[1] = "manual"
      /\ Len(txns) >= Cardinality(From(f, Suspending))
      /\ \A i \in f .. Depth : blocks[i].helper # "txn"
  BY <1>2 DEF Suspended
<1>4. ~NoManual /\ Top(blocks).helper # "txn"
  BY <1>1, <1>2, <1>3 DEF NoManual
<1>5. /\ Cardinality(From(f, Suspending)) \in Nat /\ Len(txns) \in Nat
      /\ Cardinality(From(f, Suspending))' =
            IF Top(blocks) \in Suspending THEN Cardinality(From(f, Suspending)) - 1
            ELSE Cardinality(From(f, Suspending))
  BY <1>2, FromFinite, FromLeft, StackFacts
<1>6. blocks'[f].helper = "manual" /\ \A i \in f .. Depth - 1 : blocks'[i].helper # "txn"
  BY <1>1, <1>2, <1>3
<1>7. CASE txns' = txns
  <2>1. Len(txns') >= Cardinality(From(f, Suspending))'
    BY <1>3, <1>5, <1>7
  <2> QED
    BY <1>3, <1>6, <1>7, <2>1
<1>8. CASE Top(blocks) \in Suspending /\ txns' = Pop(txns)
  <2>1. f \in From(f, Suspending)
    <3>1. blocks[f] \in BlockTypes
      BY <1>2, ElementOfSeq DEF Types, Depth
    <3> QED
      BY <1>1, <1>2, <1>3, <3>1 DEF From, Suspending
  <2>2. /\ Cardinality(From(f, Suspending)) >= 1
        /\ Cardinality(From(f, Suspending)) # 1
    <3>1. Cardinality(From(f, Suspending)) >= 1
      BY <1>2, <1>8, FromLeft
    <3>2. Cardinality(From(f, Suspending)) = 1 => From(f, Suspending) = {Depth}
      BY <1>2, <1>8, FromLeft
    <3> QED
      BY <1>2, <2>1, <3>1, <3>2
  <2>3. Len(txns) # 1
    <3>1. \A m, n \in Nat : n >= m /\ m >= 1 /\ m # 1 => n # 1
      OBVIOUS
    <3> QED
      BY <1>3, <1>5, <2>2, <3>1, Zenon
  <2>4. txns' # <<>> /\ txns'[1] = txns[1] /\ Len(txns') = Len(txns) - 1
    BY <1>3, <1>8, <2>3, FirstStays, StackFacts
  <2>5. Len(txns') >= Cardinality(From(f, Suspending))'
    BY <1>3, <1>5, <1>8, <2>4
  <2> QED
    BY <1>3, <1>6, <2>4, <2>5
<1> QED
  BY <1>4, <1>7, <1>8

\* and when the blocks stay.
LEMMA SuspendedStays ==
    ASSUME Suspended, blocks' = blocks, NoManual \/ txns' = txns
    PROVE  Suspended'
BY DEF Suspended, NoManual, From, Depth

\* Every step keeps manual blocks suspending.
LEMMA SuspendedNext ==
    ASSUME "manual_closed" \notin Ops, ~({"session", "commit_fails"} \subseteq Ops)
    PROVE  Truth /\ Suspended /\ [Next]_vars => Suspended'
<1> SUFFICES ASSUME Truth, Suspended, [Next]_vars PROVE Suspended'
  OBVIOUS
<1>0. Types /\ Types' /\ (closed => txns = <<>>) /\ ManualBelow
  BY TypeNext DEF Truth
<1>1. ASSUME NEW k \in Kinds, EnterTransaction(k) PROVE Suspended'
  <2>1. EnterBlock(k, "txn") /\ "txn" \in Helpers /\ k # "manual" /\ txns = <<>>
    BY <1>0, <1>1 DEF EnterTransaction, Helpers
  <2> QED
    BY <1>0, <2>1, EmptyNoManual, SuspendedEntered
<1>2. ASSUME NEW k \in Kinds, EnterSavepoint(k) PROVE Suspended'
  <2>1. EnterBlock(k, "save") /\ "save" \in Helpers /\ k # "manual" /\ txns' = txns
    BY <1>2 DEF EnterSavepoint, Helpers
  <2> QED
    BY <1>0, <2>1, SuspendedEntered
<1>3. CASE EnterInert
  <2>1. /\ EnterBlock("transaction", "inert") /\ "transaction" \in Kinds /\ "inert" \in Helpers
        /\ txns # <<>> /\ txns' = Append(txns, "txn")
    BY <1>3 DEF EnterInert, Kinds, Helpers
  <2> QED
    BY <1>0, <2>1, SuspendedEntered
<1>4. CASE EnterConnection
  <2>1. EnterBlock("conn", "none") /\ "conn" \in Kinds /\ "none" \in Helpers /\ txns' = txns
    BY <1>0, <1>4 DEF EnterConnection, Kinds, Helpers
  <2> QED
    BY <1>0, <2>1, SuspendedEntered
<1>5. CASE EnterManual
  <2>1. /\ EnterBlock("manual", "manual") /\ "manual" \in Kinds /\ "manual" \in Helpers
        /\ txns' = Append(txns, "manual") /\ (txns # <<>> => Top(txns) = "manual")
    BY <1>5 DEF EnterManual, Kinds, Helpers
  <2>2. /\ Depth \in Nat /\ Depth' = Depth + 1
        /\ \A i \in 1 .. Depth : blocks'[i] = blocks[i]
        /\ blocks'[Depth + 1] = [kind |-> "manual", helper |-> "manual"]
    BY <1>0, <2>1, EnterFacts
  <2>3. blocks'[Depth + 1].kind = "manual" /\ blocks'[Depth + 1].helper = "manual"
    BY <2>2
  <2>4. /\ Len(txns) \in Nat /\ Len(txns') = Len(txns) + 1 /\ txns' # <<>>
        /\ txns'[Len(txns) + 1] = "manual" /\ \A i \in 1 .. Len(txns) : txns'[i] = txns[i]
    BY <1>0, <2>1, StackFacts
  <2>5. txns'[1] = "manual"
    <3>1. CASE txns = <<>>
      BY <2>4, <3>1
    <3>2. CASE txns # <<>>
      <4>1. txns[1] = "manual"
        BY <1>0, <2>1, <3>2, ManualFirst, FirstStays DEF Managed, Entries
      <4> QED
        BY <1>0, <2>1, <3>2, <4>1, FirstStays DEF Entries
    <3> QED
      BY <3>1, <3>2
  <2> SUFFICES ASSUME NEW f \in 1 .. Depth + 1, blocks'[f].kind = "manual"
      PROVE  /\ blocks'[f].helper = "manual"
             /\ Len(txns') >= Cardinality(From(f, Suspending))'
             /\ \A i \in f .. Depth + 1 : blocks'[i].helper # "txn"
    BY <2>2, <2>4, <2>5 DEF Suspended
  <2>6. [kind |-> "manual", helper |-> "manual"] \in Suspending
    BY <2>1 DEF Suspending, BlockTypes
  <2>7. /\ Cardinality(From(f, Suspending)) \in Nat
        /\ Cardinality(From(f, Suspending))' = Cardinality(From(f, Suspending)) + 1
    <3>1. f \in Nat \ {0} /\ f <= Depth + 1
      BY <2>2
    <3> QED
      BY <1>0, <2>1, <2>6, <3>1, FromFinite, FromEntered
  <2>8. CASE f = Depth + 1
    <3>1. From(f, Suspending) = {}
      BY <2>2, <2>8 DEF From
    <3>2. Cardinality(From(f, Suspending)) = 0
      BY <3>1, FS_EmptySet
    <3>3. Len(txns') >= Cardinality(From(f, Suspending))'
      BY <2>4, <2>7, <3>2
    <3>4. \A i \in f .. Depth + 1 : i = Depth + 1
      BY <2>2, <2>8
    <3> QED
      BY <2>3, <2>8, <3>3, <3>4
  <2>9. CASE f \in 1 .. Depth
    <3>1. /\ blocks[f].helper = "manual" /\ blocks'[f] = blocks[f]
          /\ Len(txns) >= Cardinality(From(f, Suspending))
          /\ \A i \in f .. Depth : blocks[i].helper # "txn"
      BY <2>2, <2>9 DEF Suspended
    <3>2. Len(txns') >= Cardinality(From(f, Suspending))'
      BY <2>4, <2>7, <3>1
    <3>3. \A i \in f .. Depth + 1 : i = Depth + 1 \/ (i \in f .. Depth /\ i \in 1 .. Depth)
      BY <2>2, <2>9
    <3> QED
      BY <2>2, <2>3, <3>1, <3>2, <3>3
  <2> QED
    BY <2>2, <2>8, <2>9
<1>6. ASSUME blocks # <<>>, NEW err \in BOOLEAN, NEW ok \in BOOLEAN, ExitHelper(err, ok),
             NEW o, LeaveBlock(o)
      PROVE  Suspended'
  <2>1. CASE ExitSavepoint(err, ok)
    BY <1>0, <1>6, <2>1, SuspendedLeft DEF ExitSavepoint
  <2>2. CASE ExitTransaction(err, ok) /\ Top(blocks).helper \in {"txn", "inert"}
    <3>1. txns' = txns \/ txns' = Pop(txns)
      BY <1>0, <2>2, TransactionLeft
    <3>2. Top(blocks).helper = "inert" => Top(blocks) \in Suspending
      BY <1>0, <1>6, LeaveFacts DEF Suspending
    <3> QED
      BY <1>0, <1>6, <2>2, <3>1, <3>2, SuspendedLeft
  <2> QED
    BY <1>6, <2>1, <2>2 DEF ExitHelper
<1>7. ASSUME NEW err \in BOOLEAN, NEW ok \in BOOLEAN, Exit(err, ok) \/ ExitDatabase(err, ok)
      PROVE  Suspended'
  <2>1. blocks # <<>> /\ ExitHelper(err, ok) /\ \E o : LeaveBlock(o)
    BY <1>7 DEF Exit, ExitDatabase
  <2> QED
    BY <1>6, <2>1
<1>8. CASE ExitConnection
  <2>1. blocks # <<>> /\ txns' = txns /\ \E o : LeaveBlock(o)
    BY <1>8 DEF ExitConnection, Disconnected
  <2> QED
    BY <1>0, <2>1, SuspendedLeft
<1>9. CASE ExitUncounted
  <2>1. blocks # <<>> /\ LeaveBlock(FALSE) /\ txns' = txns
    BY <1>9 DEF ExitUncounted, state
  <2> QED
    BY <1>0, <2>1, SuspendedLeft
<1>10. CASE ExitManual
  <2>1. /\ blocks # <<>> /\ Top(blocks).kind = "manual" /\ \E o : LeaveBlock(o)
        /\ txns' = IF txns = <<>> THEN txns ELSE Pop(txns)
    BY <1>10 DEF ExitManual
  <2>2. Top(blocks) \in Suspending
    <3>1. Depth \in Nat /\ Depth >= 1 /\ Top(blocks) = blocks[Depth] /\ Top(blocks) \in BlockTypes
      BY <1>0, <2>1, LeaveFacts
    <3>2. Top(blocks).helper = "manual"
      BY <2>1, <3>1 DEF Suspended
    <3> QED
      BY <3>1, <3>2 DEF Suspending
  <2> QED
    BY <1>0, <2>1, <2>2, SuspendedLeft
<1>11. ASSUME NEW i \in Addressed, ExplicitCommit(i) \/ ExplicitRollback(i) PROVE Suspended'
  BY <1>11, SuspendedStays DEF ExplicitCommit, ExplicitRollback, state
<1>12. CASE session_start \/ session_commit \/ session_rollback
  <2>1. blocks' = blocks /\ NoManual
    BY <1>12 DEF session_start, session_commit, session_rollback, SessionAllowed, NoManual
  <2> QED
    BY <2>1, SuspendedStays
<1>13. CASE ManualStatement \/ (\E r \in Rows : Write(r))
  <2>1. blocks' = blocks /\ (Connected \/ UNCHANGED state)
    BY <1>13 DEF ManualStatement, Write
  <2>2. txns' = txns
    BY <1>0, <2>1 DEF Connected, state
  <2> QED
    BY <2>1, <2>2, SuspendedStays
<1>14. CASE Close
  <2>1. blocks' = blocks /\ txns' = txns
    BY <1>14 DEF Close, Disconnected
  <2> QED
    BY <2>1, SuspendedStays
<1>15. CASE Lose \/ UNCHANGED vars
  BY <1>15, SuspendedStays DEF Lose, vars, state
<1> QED
  BY <1>1, <1>2, <1>3, <1>4, <1>5, <1>7, <1>8, <1>9, <1>10, <1>11, <1>12, <1>13, <1>14,
     <1>15 DEF Next

\* In any mixture of blocks, sessions, explicit commits and close(), in_transaction()
\* agrees with the driver and a manual_commit() block suspends peewee's management
\* until it is left.
THEOREM ModesKept ==
    ASSUME "manual_closed" \notin Ops, ~({"session", "commit_fails"} \subseteq Ops)
    PROVE  Spec => []ModesSound
<1>1. Init => Suspended
  BY DEF Init, Suspended, Depth
<1>2. Truth /\ Suspended => ModesSound
  <2> SUFFICES ASSUME Truth, Suspended PROVE ModesSound
    OBVIOUS
  <2>1. InTransactionTrue
    BY DEF Truth, Managed, InTransactionTrue, in_transaction
  <2>2. ManualSuspends
    <3> SUFFICES ASSUME NEW f \in 1 .. Depth, blocks[f].kind = "manual"
        PROVE \E i \in DOMAIN txns : txns[i] = "manual"
      BY DEF ManualSuspends
    <3>1. txns # <<>> /\ txns[1] = "manual"
      BY DEF Suspended
    <3>2. DOMAIN txns = 1 .. Len(txns) /\ Len(txns) \in Nat /\ Len(txns) >= 1
      BY <3>1, FirstStays, LenProperties DEF Truth, Types
    <3> QED
      BY <3>1, <3>2
  <2> QED
    BY <2>1, <2>2 DEF ModesSound
<1> QED
  BY <1>1, <1>2, TruthInit, TruthNext, SuspendedNext, PTL DEF Spec

-----------------------------------------------------------------------------
(***************************************************************************)
(* Positions in a set of positions, and sequences listed in their order.   *)
(***************************************************************************)

\* A function on the first numbers is a sequence.
LEMMA TupleFacts ==
    ASSUME NEW S, NEW n \in Nat, NEW f \in [1 .. n -> S]
    PROVE  f \in Seq(S) /\ Len(f) = n
OBVIOUS

\* The position, among those of a set, of one of them; and the one at a position.
RankIn(F, i)   == Cardinality({j \in F : j <= i})
FramedIn(F, k) == CHOOSE i \in F : RankIn(F, i) = k

\* Ranks grow with the positions, and are the numbers up to how many there are.
LEMMA RankFacts ==
    ASSUME NEW d \in Nat, NEW F \in SUBSET (1 .. d)
    PROVE  /\ IsFiniteSet(F) /\ Cardinality(F) \in 0 .. d
           /\ \A i \in F : RankIn(F, i) \in 1 .. Cardinality(F)
           /\ \A i, j \in F : i < j => RankIn(F, i) < RankIn(F, j)
<1>1. IsFiniteSet(1 .. d) /\ Cardinality(1 .. d) = d
  BY FS_Interval
<1>2. IsFiniteSet(F) /\ Cardinality(F) \in 0 .. d
  <2>1. IsFiniteSet(F) /\ Cardinality(F) <= d
    BY <1>1, FS_Subset
  <2> QED
    BY <2>1, FS_CardinalityType
<1>3. ASSUME NEW i \in F
      PROVE  /\ RankIn(F, i) \in 1 .. Cardinality(F)
             /\ IsFiniteSet({j \in F : j <= i}) /\ RankIn(F, i) \in Nat
  <2> DEFINE B == {j \in F : j <= i}
  <2>1. B \in SUBSET F /\ i \in B
    OBVIOUS
  <2>2. IsFiniteSet(B) /\ Cardinality(B) <= Cardinality(F) /\ Cardinality(B) \in Nat
    BY <1>2, <2>1, FS_Subset, FS_CardinalityType
  <2>3. Cardinality(B) # 0
    BY <2>1, <2>2, FS_EmptySet
  <2> QED
    BY <1>2, <2>2, <2>3 DEF RankIn
<1>4. ASSUME NEW i \in F, NEW j \in F, i < j PROVE RankIn(F, i) < RankIn(F, j)
  <2> DEFINE B == {l \in F : l <= i}
  <2> DEFINE C == {l \in F : l <= j}
  <2>0. \A l \in F : l \in Nat
    OBVIOUS
  <2>1. B \in SUBSET C /\ j \in C /\ j \notin B
    <3>1. j <= j /\ ~(j <= i) /\ \A l \in F : l <= i => l <= j
      BY <1>4, <2>0
    <3> QED
      BY <3>1, Zenon
  <2>2. IsFiniteSet(C) /\ Cardinality(B) \in Nat /\ Cardinality(C) \in Nat
    BY <1>3 DEF RankIn
  <2>3. Cardinality(B) <= Cardinality(C) /\ (Cardinality(C) = Cardinality(B) => C = B)
    BY <2>1, <2>2, FS_Subset
  <2>4. Cardinality(B) < Cardinality(C)
    BY <2>1, <2>2, <2>3
  <2> QED
    BY <2>4 DEF RankIn
<1> QED
  BY <1>2, <1>3, <1>4

\* So each number up to that is the rank of exactly one.
LEMMA FramedFacts ==
    ASSUME NEW d \in Nat, NEW F \in SUBSET (1 .. d)
    PROVE  /\ \A k \in 1 .. Cardinality(F) : FramedIn(F, k) \in F /\ RankIn(F, FramedIn(F, k)) = k
           /\ \A i \in F : FramedIn(F, RankIn(F, i)) = i
<1> DEFINE n == Cardinality(F)
<1> DEFINE f == [i \in F |-> RankIn(F, i)]
<1>1. /\ IsFiniteSet(F) /\ n \in Nat
      /\ \A i \in F : RankIn(F, i) \in 1 .. n
      /\ \A i, j \in F : i < j => RankIn(F, i) < RankIn(F, j)
  BY RankFacts
<1>2. \A i, j \in F : RankIn(F, i) = RankIn(F, j) => i = j
  <2> SUFFICES ASSUME NEW i \in F, NEW j \in F, RankIn(F, i) = RankIn(F, j), i # j PROVE FALSE
    OBVIOUS
  <2>1. i < j \/ j < i
    OBVIOUS
  <2>2. RankIn(F, i) \in Int /\ RankIn(F, j) \in Int
    BY <1>1
  <2> QED
    BY <1>1, <2>1, <2>2
<1>3. f \in Injection(F, 1 .. n)
  <2>1. f \in [F -> 1 .. n]
    BY <1>1
  <2>2. \A i, j \in F : f[i] = f[j] => i = j
    BY <1>2
  <2> QED
    BY <2>1, <2>2 DEF Injection, IsInjective
<1>4. IsFiniteSet(1 .. n) /\ Cardinality(1 .. n) = n
  BY <1>1, FS_Interval
<1>5. f \in Surjection(F, 1 .. n)
  BY <1>3, <1>4, FS_Injection
<1>6. \A k \in 1 .. n : \E i \in F : RankIn(F, i) = k
  BY <1>5 DEF Surjection
<1>7. \A k \in 1 .. n : FramedIn(F, k) \in F /\ RankIn(F, FramedIn(F, k)) = k
  BY <1>6 DEF FramedIn
<1>8. ASSUME NEW i \in F PROVE FramedIn(F, RankIn(F, i)) = i
  BY <1>1, <1>2, <1>7
<1> QED
  BY <1>7, <1>8

\* A position beyond them all comes last, and moves none.
LEMMA FramedAdded ==
    ASSUME NEW d \in Nat, NEW F \in SUBSET (1 .. d)
    PROVE  /\ Cardinality(F \cup {d + 1}) = Cardinality(F) + 1
           /\ \A k \in 1 .. Cardinality(F) : FramedIn(F \cup {d + 1}, k) = FramedIn(F, k)
           /\ FramedIn(F \cup {d + 1}, Cardinality(F) + 1) = d + 1
<1> DEFINE G == F \cup {d + 1}
<1>1. d + 1 \in Nat /\ G \in SUBSET (1 .. d + 1) /\ d + 1 \notin F
  OBVIOUS
<1>2. IsFiniteSet(F) /\ Cardinality(F) \in Nat /\ Cardinality(G) = Cardinality(F) + 1
  BY <1>1, RankFacts, FS_AddElement
<1>3. \A i \in F : RankIn(G, i) = RankIn(F, i)
  <2> TAKE i \in F
  <2>1. {j \in G : j <= i} = {j \in F : j <= i}
    OBVIOUS
  <2> QED
    BY <2>1 DEF RankIn
<1>4. RankIn(G, d + 1) = Cardinality(G)
  <2>0. \A j \in G : j <= d + 1
    OBVIOUS
  <2>1. {j \in G : j <= d + 1} = G
    BY <2>0, Zenon
  <2> QED
    BY <2>1 DEF RankIn
<1> HIDE DEF G
<1>5. \A i \in G : FramedIn(G, RankIn(G, i)) = i
  BY <1>1, FramedFacts
<1>6. \A i \in F : i \in G
  BY DEF G
<1>7. d + 1 \in G
  BY DEF G
<1>8. \A k \in 1 .. Cardinality(F) : FramedIn(G, k) = FramedIn(F, k)
  <2> TAKE k \in 1 .. Cardinality(F)
  <2>1. FramedIn(F, k) \in F /\ RankIn(F, FramedIn(F, k)) = k
    BY FramedFacts
  <2> QED
    BY <1>3, <1>5, <1>6, <2>1
<1>9. FramedIn(G, Cardinality(F) + 1) = d + 1
  BY <1>2, <1>4, <1>5, <1>7
<1> QED
  BY <1>2, <1>8, <1>9 DEF G

\* A sequence and one more element, and back.
LEMMA PushPop ==
    ASSUME NEW S, NEW s \in Seq(S), NEW e \in S
    PROVE  Top(Append(s, e)) = e /\ Pop(Append(s, e)) = s
<1>1. /\ Append(s, e) \in Seq(S) /\ Append(s, e) # <<>>
      /\ Len(s) \in Nat /\ Len(Append(s, e)) = Len(s) + 1
      /\ \A i \in 1 .. Len(s) : Append(s, e)[i] = s[i]
      /\ Append(s, e)[Len(s) + 1] = e
  BY PushFacts
<1>2. /\ Pop(Append(s, e)) \in Seq(S) /\ Len(Pop(Append(s, e))) = Len(s)
      /\ \A i \in 1 .. Len(s) : Pop(Append(s, e))[i] = s[i]
  <2>1. /\ Pop(Append(s, e)) \in Seq(S)
        /\ Len(Pop(Append(s, e))) = Len(Append(s, e)) - 1
        /\ \A i \in 1 .. Len(Append(s, e)) - 1 : Pop(Append(s, e))[i] = Append(s, e)[i]
    BY <1>1, PopFacts
  <2>2. Len(Append(s, e)) - 1 = Len(s)
    BY <1>1
  <2> QED
    BY <1>1, <2>1, <2>2
<1>3. Pop(Append(s, e)) = s
  BY <1>2, SeqEqual
<1> QED
  BY <1>1, <1>3 DEF Top

\* The values of a function on a set of positions, in the order of the positions.
Listed(F, f) == [k \in 1 .. Cardinality(F) |-> f[FramedIn(F, k)]]

\* They are as many as the positions.
LEMMA ListedFacts ==
    ASSUME NEW S, NEW d \in Nat, NEW F \in SUBSET (1 .. d), NEW f \in [F -> S]
    PROVE  /\ Listed(F, f) \in Seq(S) /\ Len(Listed(F, f)) = Cardinality(F)
           /\ Cardinality(F) \in 0 .. d
           /\ Listed(F, f) = <<>> <=> F = {}
<1>1. IsFiniteSet(F) /\ Cardinality(F) \in 0 .. d /\ Cardinality(F) \in Nat
  BY RankFacts
<1>2. Listed(F, f) \in [1 .. Cardinality(F) -> S]
  BY FramedFacts DEF Listed
<1>3. Listed(F, f) \in Seq(S) /\ Len(Listed(F, f)) = Cardinality(F)
  BY <1>1, <1>2, TupleFacts
<1>4. Listed(F, f) = <<>> <=> Cardinality(F) = 0
  BY <1>3, EmptySeq
<1> QED
  BY <1>1, <1>3, <1>4, FS_EmptySet

\* A sequence is another one and one more element.
IsPushed(t, s, e) == t = Append(s, e) /\ t # <<>> /\ Top(t) = e /\ Pop(t) = s

\* The last position has the last value.
LEMMA ListedLast ==
    ASSUME NEW S, NEW d \in Nat, NEW G \in SUBSET (1 .. d), NEW g \in [G -> S],
           NEW m \in G, \A i \in G : i <= m,
           NEW f \in [G \ {m} -> S], \A i \in G \ {m} : g[i] = f[i]
    PROVE  IsPushed(Listed(G, g), Listed(G \ {m}, f), g[m])
<1> DEFINE F == G \ {m}
<1> DEFINE s == Listed(F, f)
<1> DEFINE t == Listed(G, g)
<1>1. PICK c \in Nat : m = c + 1
  BY m - 1 \in Nat /\ m = (m - 1) + 1
<1>2. F \in SUBSET (1 .. c) /\ F \cup {c + 1} = G
  BY <1>1
<1>3. t \in Seq(S) /\ Len(t) = Cardinality(G)
  BY ListedFacts, Zenon
<1>4. /\ Cardinality(G) = Cardinality(F) + 1
      /\ \A k \in 1 .. Cardinality(F) : FramedIn(G, k) = FramedIn(F, k)
      /\ FramedIn(G, Cardinality(F) + 1) = m
  <2> HIDE DEF F, s, t
  <2>1. /\ Cardinality(F \cup {c + 1}) = Cardinality(F) + 1
        /\ \A k \in 1 .. Cardinality(F) : FramedIn(F \cup {c + 1}, k) = FramedIn(F, k)
        /\ FramedIn(F \cup {c + 1}, Cardinality(F) + 1) = c + 1
    BY <1>2, FramedAdded, Zenon
  <2> QED
    BY <1>1, <1>2, <2>1, Zenon
<1>a. f \in [F -> S] /\ (\A i \in F : g[i] = f[i]) /\ g[m] \in S
  OBVIOUS
<1> HIDE DEF F
<1>5. s \in Seq(S) /\ Len(s) = Cardinality(F) /\ Cardinality(F) \in Nat
  <2>1. s \in Seq(S) /\ Len(s) = Cardinality(F) /\ Cardinality(F) \in 0 .. c
    BY <1>2, <1>a, ListedFacts, Zenon
  <2> QED
    BY <2>1
<1>6. /\ Append(s, g[m]) \in Seq(S) /\ Len(Append(s, g[m])) = Cardinality(F) + 1
      /\ \A k \in 1 .. Cardinality(F) : Append(s, g[m])[k] = s[k]
      /\ Append(s, g[m])[Cardinality(F) + 1] = g[m]
  <2> HIDE DEF s
  <2> QED
    BY <1>a, <1>5, PushFacts
<1>7. \A k \in 1 .. Cardinality(F) : t[k] = s[k]
  <2> TAKE k \in 1 .. Cardinality(F)
  <2>1. FramedIn(F, k) \in F
    BY <1>2, FramedFacts
  <2>2. k \in 1 .. Cardinality(G)
    BY <1>4, <1>5
  <2>3. t[k] = g[FramedIn(G, k)] /\ s[k] = f[FramedIn(F, k)]
    BY <2>2 DEF Listed
  <2> QED
    BY <1>4, <1>a, <2>1, <2>3
<1>8. t[Cardinality(F) + 1] = g[m]
  <2>1. Cardinality(F) + 1 \in 1 .. Cardinality(G)
    BY <1>4, <1>5
  <2> QED
    BY <1>4, <2>1 DEF Listed
<1> HIDE DEF s, t
<1>9. t = Append(s, g[m])
  <2>1. \A k \in 1 .. Cardinality(F) + 1 : k \in 1 .. Cardinality(F) \/ k = Cardinality(F) + 1
    BY <1>5
  <2>2. Len(t) = Len(Append(s, g[m]))
    BY <1>3, <1>4, <1>6
  <2>3. \A k \in 1 .. Len(t) : t[k] = Append(s, g[m])[k]
    BY <1>3, <1>4, <1>6, <1>7, <1>8, <2>1
  <2> QED
    BY <1>3, <1>6, <2>2, <2>3, SeqEqual
<1>10. t # <<>> /\ Top(t) = g[m] /\ Pop(t) = s
  BY <1>a, <1>5, <1>9, PushPop, PushFacts
<1> QED
  BY <1>9, <1>10 DEF s, t, F, IsPushed

-----------------------------------------------------------------------------
(***************************************************************************)
(* The frames of the refinement: what each block began with, listed in the *)
(* order of the blocks.                                                    *)
(***************************************************************************)

\* The same, with a name for the others.
LEMMA ListedEnds ==
    ASSUME NEW S, NEW d \in Nat, NEW G \in SUBSET (1 .. d), NEW g \in [G -> S],
           NEW m \in G, \A i \in G : i <= m,
           NEW E, \A x : x \in E <=> x \in G /\ x # m,
           NEW f \in [E -> S], \A i \in E : g[i] = f[i]
    PROVE  IsPushed(Listed(G, g), Listed(E, f), g[m])
<1>1. E = G \ {m}
  OBVIOUS
<1>2. f \in [G \ {m} -> S] /\ \A i \in G \ {m} : g[i] = f[i]
  BY <1>1
<1>3. IsPushed(Listed(G, g), Listed(G \ {m}, f), g[m])
  BY <1>2, ListedLast
<1> QED
  BY <1>1, <1>3

RowSets == SUBSET Rows

\* What each framing block began with.
FrameMap == [i \in Framing |-> Frame(i)]

\* The blocks that are transactions or savepoints are among the blocks, and what they
\* began with are rows.
LEMMA FrameTypes ==
    ASSUME Disciplined
    PROVE  /\ Depth \in Nat /\ Framing \in SUBSET (1 .. Depth)
           /\ FrameMap \in [Framing -> RowSets]
<1>1. Types /\ Depth \in Nat /\ (alive => KeptIn(saves, SaveBlocks))
  BY KeptMeans, AmongFinite DEF Disciplined
<1>2. ASSUME NEW i \in Framing PROVE Frame(i) \in SUBSET Rows
  <2>1. CASE blocks[i].helper = "txn" \/ ~alive
    BY <1>1, <2>1 DEF Frame, Types, DriverOK
  <2>2. CASE blocks[i].helper = "save" /\ alive
    <3>1. i \in SaveBlocks
      BY <2>2 DEF Framing, SaveBlocks
    <3>2. Named(i) # {}
      BY <1>1, <2>2, <3>1, NamedMeans DEF KeptIn
    <3>3. Snapshot(i) \subseteq Rows
      BY <1>1, <3>2, LatestFacts
    <3> QED
      BY <2>2, <3>3 DEF Frame
  <2> QED
    BY <2>1, <2>2 DEF Framing
<1> QED
  BY <1>1, <1>2 DEF Framing, FrameMap, RowSets

\* The frames of the refinement are these, in the order of the blocks.
InOrder ==
    /\ Frames = Listed(Framing, FrameMap)
    /\ Depth \in Nat /\ Framing \in SUBSET (1 .. Depth)
    /\ FrameMap \in [Framing -> RowSets]

\* They always are,
LEMMA FramesListed == Disciplined => InOrder
<1> SUFFICES ASSUME Disciplined PROVE Frames = Listed(Framing, FrameMap)
  BY FrameTypes DEF InOrder
<1>1. Depth \in Nat /\ Framing \in SUBSET (1 .. Depth)
  BY FrameTypes
<1>2. \A k : Framed(k) = FramedIn(Framing, k)
  BY DEF Framed, Rank, FramedIn, RankIn
<1>3. \A k \in 1 .. Cardinality(Framing) : FramedIn(Framing, k) \in Framing
  BY <1>1, FramedFacts
<1>4. \A k \in 1 .. Cardinality(Framing) :
         Frame(Framed(k)) = FrameMap[FramedIn(Framing, k)]
  BY <1>2, <1>3 DEF FrameMap
<1> QED
  BY <1>4 DEF Frames, Listed

\* so they are in the next state.
LEMMA FramesListedNext == Disciplined' => InOrder'
BY FramesListed, PTL

\* Framing blocks that keep what they began with keep the frames.
LEMMA FramesKept ==
    ASSUME Disciplined, Disciplined', Framing' = Framing,
           \A i \in Framing : FrameMap'[i] = Frame(i)
    PROVE  Frames' = Frames
<1>1. FrameMap' \in [Framing' -> RowSets] /\ FrameMap \in [Framing -> RowSets]
  BY FrameTypes, FramesListedNext DEF InOrder
<1>2. \A i \in Framing : FrameMap[i] = Frame(i)
  BY DEF FrameMap
<1>3. FrameMap' = FrameMap
  BY <1>1, <1>2
<1> QED
  BY <1>3, FramesListed, FramesListedNext DEF InOrder, IsPushed

\* There are as many frames as such blocks, and the last is that of the innermost.
LEMMA FramesFacts ==
    ASSUME Disciplined
    PROVE  /\ Frames \in Seq(RowSets) /\ Len(Frames) = Cardinality(Framing)
           /\ Len(Frames) \in 0 .. Depth
           /\ Frames = <<>> <=> Framing = {}
           /\ \A m \in Framing : (\A i \in Framing : i <= m)
                 => Frames # <<>> /\ Top(Frames) = Frame(m)
<1>1. Depth \in Nat /\ Framing \in SUBSET (1 .. Depth) /\ FrameMap \in [Framing -> RowSets]
  BY FramesListed DEF InOrder
<1>2. /\ Listed(Framing, FrameMap) \in Seq(RowSets)
      /\ Len(Listed(Framing, FrameMap)) = Cardinality(Framing)
      /\ Cardinality(Framing) \in 0 .. Depth
      /\ Listed(Framing, FrameMap) = <<>> <=> Framing = {}
  BY <1>1, ListedFacts
<1>3. ASSUME NEW m \in Framing, \A i \in Framing : i <= m
      PROVE  Listed(Framing, FrameMap) # <<>> /\ Top(Listed(Framing, FrameMap)) = FrameMap[m]
  <2> DEFINE E == Framing \ {m}
  <2> DEFINE f == [i \in E |-> FrameMap[i]]
  <2>1. /\ f \in [E -> RowSets] /\ \A i \in E : FrameMap[i] = f[i]
        /\ \A x : x \in E <=> x \in Framing /\ x # m
    BY <1>1
  <2> HIDE DEF f, E
  <2>2. IsPushed(Listed(Framing, FrameMap), Listed(E, f), FrameMap[m])
    BY <1>1, <1>3, <2>1, ListedEnds
  <2> QED
    BY <2>2 DEF IsPushed
<1>4. \A m \in Framing : FrameMap[m] = Frame(m)
  BY DEF FrameMap
<1>5. Frames = Listed(Framing, FrameMap)
  BY FramesListed DEF InOrder
<1> QED
  BY <1>2, <1>3, <1>4, <1>5

\* A framing block that is entered pushes a frame.
LEMMA FramesPushed ==
    ASSUME Disciplined, Disciplined', NEW m \in Framing', \A i \in Framing : i < m,
           \A x : x \in Framing' <=> x \in Framing \/ x = m,
           \A i \in Framing : FrameMap'[i] = Frame(i)
    PROVE  Frames' = Append(Frames, FrameMap'[m])
<1>1. /\ Depth' \in Nat /\ Framing' \in SUBSET (1 .. Depth')
      /\ FrameMap' \in [Framing' -> RowSets]
  BY FramesListedNext DEF InOrder
<1>2. Depth \in Nat /\ Framing \in SUBSET (1 .. Depth) /\ FrameMap \in [Framing -> RowSets]
  BY FramesListed DEF InOrder
<1>3. (\A i \in Framing' : i <= m) /\ \A x : x \in Framing <=> x \in Framing' /\ x # m
  BY <1>1, <1>2
<1>4. \A i \in Framing : FrameMap'[i] = FrameMap[i]
  BY DEF FrameMap
<1>5. IsPushed(Listed(Framing', FrameMap'), Listed(Framing, FrameMap), FrameMap'[m])
  BY <1>1, <1>2, <1>3, <1>4, ListedEnds
<1> QED
  BY <1>5, FramesListed, FramesListedNext DEF InOrder, IsPushed

\* One that is left pops its own.
LEMMA FramesPopped ==
    ASSUME Disciplined, Disciplined', NEW m \in Framing, \A i \in Framing : i <= m,
           \A x : x \in Framing' <=> x \in Framing /\ x # m,
           \A i \in Framing' : FrameMap'[i] = Frame(i)
    PROVE  Frames' = Pop(Frames)
<1>1. /\ Depth' \in Nat /\ Framing' \in SUBSET (1 .. Depth')
      /\ FrameMap' \in [Framing' -> RowSets]
  BY FramesListedNext DEF InOrder
<1>2. Depth \in Nat /\ Framing \in SUBSET (1 .. Depth) /\ FrameMap \in [Framing -> RowSets]
  BY FramesListed DEF InOrder
<1>3. \A i \in Framing' : FrameMap[i] = FrameMap'[i]
  BY DEF FrameMap
<1>4. IsPushed(Listed(Framing, FrameMap), Listed(Framing', FrameMap'), FrameMap[m])
  BY <1>1, <1>2, <1>3, ListedEnds
<1> QED
  BY <1>4, FramesListed, FramesListedNext DEF InOrder, IsPushed

\* And one that begins anew replaces it.
LEMMA FramesReplaced ==
    ASSUME Disciplined, Disciplined', NEW m \in Framing, \A i \in Framing : i <= m,
           \A x : x \in Framing' <=> x \in Framing,
           \A i \in Framing \ {m} : FrameMap'[i] = Frame(i)
    PROVE  Frames' = Append(Pop(Frames), FrameMap'[m])
<1>1. /\ Depth' \in Nat /\ Framing' \in SUBSET (1 .. Depth')
      /\ FrameMap' \in [Framing' -> RowSets]
  BY FramesListedNext DEF InOrder
<1>2. Depth \in Nat /\ Framing \in SUBSET (1 .. Depth) /\ FrameMap \in [Framing -> RowSets]
  BY FramesListed DEF InOrder
<1> DEFINE E == Framing \ {m}
<1> DEFINE f == [i \in E |-> FrameMap[i]]
<1>3. /\ f \in [E -> RowSets]
      /\ \A i \in E : FrameMap[i] = f[i] /\ FrameMap'[i] = f[i]
      /\ \A x : x \in E <=> x \in Framing /\ x # m
      /\ \A x : x \in E <=> x \in Framing' /\ x # m
      /\ m \in Framing' /\ \A i \in Framing' : i <= m
  BY <1>2 DEF FrameMap
<1> HIDE DEF f, E
<1>4. IsPushed(Listed(Framing, FrameMap), Listed(E, f), FrameMap[m])
  BY <1>2, <1>3, ListedEnds
<1>5. IsPushed(Listed(Framing', FrameMap'), Listed(E, f), FrameMap'[m])
  BY <1>1, <1>3, ListedEnds
<1> QED
  BY <1>4, <1>5, FramesListed, FramesListedNext DEF InOrder, IsPushed

-----------------------------------------------------------------------------
(***************************************************************************)
(* What the refinement needs to know of the blocks besides their discipline*)
(* nothing undurable outside a transaction, and a context around every     *)
(* database that is used within one.                                       *)
(***************************************************************************)

\* Outside a transaction everything is durable.
Settled == ~begun => work = durable

\* A database used as a context manager within a transaction is within another context.
Within ==
    \A i \in 1 .. Depth :
        blocks[i].kind = "db" /\ blocks[i].helper # "txn"
            => \E j \in 1 .. i - 1 : blocks[j].kind \in {"db", "conn"}

\* The inductive invariant of the refinement.
Linked == Disciplined /\ Truth /\ Settled /\ Within

\* It holds at first.
LEMMA LinkedInit == Init => Linked
<1>1. Init => Settled /\ Within
  BY DEF Init, Settled, Within, Depth
<1> QED
  BY <1>1, DisciplinedInit, TruthInit DEF Linked

\* A statement leaves something undurable only within a transaction.
LEMMA StatementSettles ==
    ASSUME Types, Settled,
           \/ Begin
           \/ \E again : COMMIT(again) \/ ROLLBACK(again)
           \/ TryRollback
           \/ \E sid : \/ SAVEPOINT(sid) \/ RELEASE(sid) \/ RELEASE_SAVEPOINT(sid)
                       \/ TryRollbackTo(sid) \/ ROLLBACK_TO_SAVEPOINT(sid)
           \/ UNCHANGED driver
    PROVE  Settled'
<1>1. CASE \/ Begin \/ (\E again : COMMIT(again) \/ ROLLBACK(again)) \/ TryRollback
           \/ UNCHANGED driver
  BY <1>1 DEF Settled, Begin, COMMIT, ROLLBACK, TryRollback, driver
<1>2. ASSUME NEW sid, SAVEPOINT(sid) \/ RELEASE(sid) \/ RELEASE_SAVEPOINT(sid)
                        \/ TryRollbackTo(sid) \/ ROLLBACK_TO_SAVEPOINT(sid)
      PROVE  Settled'
  <2>1. (begun /\ begun' = begun) \/ UNCHANGED driver
    BY <1>2 DEF SAVEPOINT, RELEASE, RELEASE_SAVEPOINT, TryRollbackTo, ROLLBACK_TO_SAVEPOINT,
                Releasable
  <2> QED
    BY <2>1 DEF Settled, driver
<1> QED
  BY <1>1, <1>2

\* So does every step.
LEMMA SettledNext == Types /\ Settled /\ [Next]_vars => Settled'
<1> SUFFICES ASSUME Types, Settled, [Next]_vars PROVE Settled'
  OBVIOUS
<1>1. ASSUME NEW k \in Kinds, EnterTransaction(k) \/ EnterSavepoint(k) PROVE Settled'
  BY <1>1, StatementSettles DEF EnterTransaction, EnterSavepoint
<1>2. CASE EnterInert \/ EnterManual \/ EnterConnection \/ ExitUncounted \/ ExitManual
  BY <1>2, StatementSettles DEF EnterInert, EnterManual, EnterConnection, ExitUncounted, ExitManual
<1>3. ASSUME NEW err \in BOOLEAN, NEW ok \in BOOLEAN, Exit(err, ok) \/ ExitDatabase(err, ok)
      PROVE  Settled'
  <2>1. ExitHelper(err, ok)
    BY <1>3 DEF Exit, ExitDatabase
  <2>2. CASE ExitSavepoint(err, ok)
    BY <2>2, StatementSettles DEF ExitSavepoint
  <2>3. CASE ExitTransaction(err, ok)
    BY <2>3, StatementSettles DEF ExitTransaction
  <2> QED
    BY <2>1, <2>2, <2>3 DEF ExitHelper
<1>4. ASSUME Disconnected PROVE Settled'
  BY <1>4 DEF Disconnected, Settled
<1>5. CASE ExitConnection
  BY <1>4, <1>5, StatementSettles DEF ExitConnection
<1>6. ASSUME NEW i \in Addressed, ExplicitCommit(i) \/ ExplicitRollback(i) PROVE Settled'
  BY <1>6, StatementSettles DEF ExplicitCommit, ExplicitRollback
<1>7. CASE session_start
  <2>1. Begin \/ UNCHANGED driver
    BY <1>7 DEF session_start
  <2> QED
    BY <2>1, StatementSettles
<1>8. CASE session_commit \/ session_rollback
  <2>1. (\E again : COMMIT(again) \/ ROLLBACK(again)) \/ UNCHANGED driver
    BY <1>8 DEF session_commit, session_rollback
  <2> QED
    BY <2>1, StatementSettles
<1>9. CASE ManualStatement
  <2>1. Begin \/ COMMIT(FALSE) \/ ROLLBACK(FALSE)
    BY <1>9 DEF ManualStatement
  <2> QED
    BY <2>1, StatementSettles
<1>10. ASSUME NEW r \in Rows, Write(r) PROVE Settled'
  BY <1>10 DEF Write, Settled
<1>11. CASE Close
  BY <1>4, <1>11 DEF Close
<1>12. CASE Lose
  BY <1>12 DEF Lose, Settled
<1>13. CASE UNCHANGED vars
  BY <1>13, StatementSettles DEF vars
<1> QED
  BY <1>1, <1>2, <1>3, <1>5, <1>6, <1>7, <1>8, <1>9, <1>10, <1>11, <1>12, <1>13 DEF Next

\* Databases stay within contexts when a block is entered,
LEMMA WithinEntered ==
    ASSUME Types, Within, NEW kind \in Kinds, NEW helper \in Helpers, EnterBlock(kind, helper),
           kind = "db" /\ helper # "txn" => \E j \in 1 .. Depth : blocks[j].kind \in {"db", "conn"}
    PROVE  Within'
<1>1. /\ Depth \in Nat /\ Depth' = Depth + 1
      /\ \A i \in 1 .. Depth : blocks'[i] = blocks[i]
      /\ blocks'[Depth + 1] = [kind |-> kind, helper |-> helper]
  BY EnterFacts
<1>2. blocks'[Depth + 1].kind = kind /\ blocks'[Depth + 1].helper = helper
  BY <1>1
<1> SUFFICES ASSUME NEW i \in 1 .. Depth + 1, blocks'[i].kind = "db", blocks'[i].helper # "txn"
    PROVE  \E j \in 1 .. i - 1 : blocks'[j].kind \in {"db", "conn"}
  BY <1>1 DEF Within
<1>3. CASE i = Depth + 1
  BY <1>1, <1>2, <1>3
<1>4. CASE i \in 1 .. Depth
  BY <1>1, <1>4 DEF Within
<1> QED
  BY <1>1, <1>3, <1>4

\* and when one is left.
LEMMA WithinLeft ==
    ASSUME Types, Within, blocks # <<>>, NEW ok, LeaveBlock(ok)
    PROVE  Within'
<1>1. /\ Depth \in Nat /\ Depth >= 1 /\ Depth' = Depth - 1
      /\ \A i \in 1 .. Depth - 1 : blocks'[i] = blocks[i]
  BY LeaveFacts
<1> QED
  BY <1>1 DEF Within

\* Every step keeps them so.
LEMMA WithinNext ==
    ASSUME Recommended, "with_db_nested" \notin Ops
    PROVE  Disciplined /\ Within /\ [Next]_vars => Within'
<1> SUFFICES ASSUME Disciplined, Within, [Next]_vars PROVE Within'
  OBVIOUS
<1>0. Types /\ Books
  BY DEF Disciplined
<1>a. ASSUME blocks' = blocks PROVE Within'
  BY <1>a DEF Within, Depth
<1>b. ASSUME blocks # <<>>, NEW ok, LeaveBlock(ok) PROVE Within'
  BY <1>0, <1>b, WithinLeft
<1>1. ASSUME NEW k \in Kinds, EnterTransaction(k) PROVE Within'
  BY <1>0, <1>1, WithinEntered DEF EnterTransaction, Helpers
<1>2. ASSUME NEW k \in Kinds, EnterSavepoint(k) PROVE Within'
  <2>1. EnterBlock(k, "save") /\ "save" \in Helpers /\ Allowed(k) /\ (k # "savepoint" => txns # <<>>)
    BY <1>2 DEF EnterSavepoint, Helpers
  <2>2. k = "db" => ctx > 0
    BY <2>1 DEF Allowed, in_transaction
  <2>3. ctx > 0 => \E j \in 1 .. Depth : blocks[j].kind \in {"db", "conn"}
    <3>1. ctx > 0 => Among(Contexts) # {}
      BY <1>0, AmongFinite DEF Books
    <3> QED
      BY <3>1 DEF Among, From, Contexts
  <2> QED
    BY <1>0, <2>1, <2>2, <2>3, WithinEntered
<1>3. CASE EnterInert
  <2>1. EnterBlock("transaction", "inert") /\ "transaction" \in Kinds /\ "inert" \in Helpers
    BY <1>3 DEF EnterInert, Kinds, Helpers
  <2> QED
    BY <1>0, <2>1, WithinEntered
<1>4. CASE EnterConnection
  <2>1. EnterBlock("conn", "none") /\ "conn" \in Kinds /\ "none" \in Helpers
    BY <1>4 DEF EnterConnection, Kinds, Helpers
  <2> QED
    BY <1>0, <2>1, WithinEntered
<1>5. ASSUME NEW err, NEW ok, Exit(err, ok) \/ ExitDatabase(err, ok) PROVE Within'
  <2>1. blocks # <<>> /\ \E o : LeaveBlock(o)
    BY <1>5 DEF Exit, ExitDatabase
  <2> QED
    BY <1>b, <2>1
<1>6. CASE ExitConnection \/ ExitUncounted \/ ExitManual
  <2>1. blocks # <<>> /\ \E o : LeaveBlock(o)
    BY <1>6 DEF ExitConnection, ExitUncounted, ExitManual
  <2> QED
    BY <1>b, <2>1
<1>7. CASE session_start \/ session_commit \/ session_rollback \/ EnterManual
  BY <1>7 DEF session_start, session_commit, session_rollback, SessionAllowed, EnterManual,
              Recommended
<1>8. CASE \/ \E i \in Addressed : ExplicitCommit(i) \/ ExplicitRollback(i)
           \/ ManualStatement \/ (\E r \in Rows : Write(r)) \/ Close \/ Lose
           \/ UNCHANGED vars
  <2>1. blocks' = blocks
    BY <1>8 DEF ExplicitCommit, ExplicitRollback, ManualStatement, Write, Close, Lose, vars
  <2> QED
    BY <1>a, <2>1
<1> QED
  BY <1>1, <1>2, <1>3, <1>4, <1>5, <1>6, <1>7, <1>8 DEF Next

\* The invariant is inductive.
LEMMA LinkedNext ==
    ASSUME Recommended, "with_db_nested" \notin Ops
    PROVE  Linked /\ [Next]_vars => Linked'
<1>1. "manual_closed" \notin Ops /\ ~({"session", "commit_fails"} \subseteq Ops)
  BY DEF Recommended
<1> SUFFICES ASSUME Linked, [Next]_vars PROVE Linked'
  OBVIOUS
<1>2. Disciplined /\ Truth /\ Settled /\ Within /\ Types
  BY DEF Linked, Disciplined
<1>3. Disciplined' /\ Truth'
  BY <1>1, <1>2, DisciplinedNext, TruthNext
<1>4. Settled' /\ Within'
  BY <1>2, SettledNext, WithinNext
<1> QED
  BY <1>3, <1>4 DEF Linked

-----------------------------------------------------------------------------
(***************************************************************************)
(* Frames from one state to the next.                                      *)
(***************************************************************************)

\* What a framing block began with, in terms of the stacks.
FrameIn(b, s, a, d, i) ==
    IF b[i].helper = "txn" \/ ~a THEN d ELSE s[LatestIn(s, i)].snap

FramesMean ==
    \A i \in Framing : FrameMap[i] = Frame(i)
                       /\ FrameMap[i] = FrameIn(blocks, saves, alive, durable, i)

\* That is what the refinement's frames hold,
LEMMA FramesAre == Types => FramesMean
<1> SUFFICES ASSUME Types, NEW i \in Framing
    PROVE FrameMap[i] = Frame(i) /\ Frame(i) = FrameIn(blocks, saves, alive, durable, i)
  BY DEF FramesMean
<1>1. Latest(i) = LatestIn(saves, i)
  BY NamedMeans
<1> QED
  BY <1>1 DEF FrameMap, Frame, Snapshot, FrameIn

\* and will hold.
LEMMA FramesWillBe == Types' => FramesMean'
BY FramesAre, PTL

\* A block keeps what it began with when its savepoint is not touched,
LEMMA FrameSame ==
    ASSUME Types, Types', NEW i \in Framing, i \in Framing', blocks'[i] = blocks[i],
           alive' = alive, durable' = durable, saves' = saves
    PROVE  FrameMap'[i] = Frame(i)
<1>1. Frame(i) = FrameIn(blocks, saves, alive, durable, i)
  BY FramesAre DEF FramesMean
<1>2. FrameMap'[i] = FrameIn(blocks', saves', alive', durable', i)
  BY FramesWillBe DEF FramesMean
<1> QED
  BY <1>1, <1>2 DEF FrameIn

\* or when it is among those a statement leaves.
LEMMA FrameTrimmed ==
    ASSUME Types, Types', NEW i \in Framing, i \in Framing', blocks'[i] = blocks[i],
           alive' = alive, durable' = durable, NEW n, NEW d, Trimmed(n, d), i # d,
           blocks[i].helper # "txn" => NamedIn(saves, i) # {} /\ LatestIn(saves, i) <= n
    PROVE  FrameMap'[i] = Frame(i)
<1>1. Frame(i) = FrameIn(blocks, saves, alive, durable, i)
  BY FramesAre DEF FramesMean
<1>2. FrameMap'[i] = FrameIn(blocks', saves', alive', durable', i)
  BY FramesWillBe DEF FramesMean
<1>3. CASE blocks[i].helper = "txn"
  BY <1>1, <1>2, <1>3 DEF FrameIn
<1>4. CASE blocks[i].helper # "txn"
  <2>1. LatestIn(saves', i) = LatestIn(saves, i)
    BY <1>4, LatestStays
  <2>2. saves \in Seq(SaveTypes)
    BY DEF Types, DriverOK
  <2>3. LatestIn(saves, i) \in 1 .. Len(saves) /\ LatestIn(saves, i) <= n /\ n \in Nat
    BY <1>4, <2>2, LatestInFacts DEF Trimmed
  <2> DEFINE l == LatestIn(saves, i)
  <2> HIDE DEF l
  <2>4. l \in 1 .. n
    BY <2>3 DEF l
  <2>5. saves'[l] = saves[l]
    BY <2>4 DEF Trimmed
  <2> QED
    BY <1>1, <1>2, <2>1, <2>5 DEF FrameIn, l
<1> QED
  BY <1>3, <1>4

\* The last savepoint is that of its block.
LEMMA FrameLast ==
    ASSUME Types', NEW i \in Framing', alive', blocks'[i].helper # "txn",
           Len(saves') >= 1, saves'[Len(saves')].sid = i
    PROVE  FrameMap'[i] = saves'[Len(saves')].snap
<1>1. FrameMap'[i] = FrameIn(blocks', saves', alive', durable', i)
  BY FramesWillBe DEF FramesMean
<1>2. LatestIn(saves', i) = Len(saves')
  BY LatestLast DEF Types, DriverOK
<1> QED
  BY <1>1, <1>2 DEF FrameIn

\* What the invariant says of the frames.
LEMMA LinkedFacts ==
    ASSUME Linked
    PROVE  /\ Disciplined /\ Types /\ Books /\ Nesting /\ SavepointsKept
           /\ Depth \in Nat /\ Framing \in SUBSET (1 .. Depth)
           /\ begun <=> alive /\ txns # <<>>
           /\ Framing = {} <=> txns = <<>>
           /\ Frames = <<>> <=> txns = <<>>
           /\ txns = <<>> => work = durable
           /\ ~alive => work = durable
           /\ closed => txns = <<>> /\ ctx = 0
<1>1. /\ Disciplined /\ Types /\ Books /\ Nesting /\ SavepointsKept /\ Truth /\ Settled
      /\ Depth \in Nat /\ Framing \in SUBSET (1 .. Depth)
  BY FrameTypes DEF Linked, Disciplined
<1>2. txns # <<>> => txns[1] = "txn"
  BY <1>1, FirstStays DEF Books
<1>3. /\ alive \in BOOLEAN /\ begun \in BOOLEAN
      /\ alive /\ Managed => (begun <=> txns # <<>>)
      /\ begun => alive /\ txns # <<>>
  BY <1>1 DEF Truth, Types, DriverOK, Books
<1>4. begun <=> alive /\ txns # <<>>
  BY <1>2, <1>3 DEF Managed
<1>5. Framing = {} <=> txns = <<>>
  <2>1. txns = <<>> => Framing = {}
    BY <1>1, NoneOpen DEF Framing
  <2>2. txns # <<>> => Framing # {}
    BY <1>1, SomeOpen DEF Framing
  <2> QED
    BY <2>1, <2>2
<1>6. Frames = <<>> <=> txns = <<>>
  BY <1>1, <1>5, FramesFacts
<1>7. (txns = <<>> => work = durable) /\ (~alive => work = durable)
  BY <1>1, <1>4 DEF Settled
<1>8. closed => txns = <<>> /\ ctx = 0
  BY <1>1 DEF Books, Types
<1> QED
  BY <1>1, <1>4, <1>5, <1>6, <1>7, <1>8

FramesOpen == Disciplined /\ Types /\ (Frames = <<>> <=> txns = <<>>)

\* And in the next state.
LEMMA LinkedFactsNext == Linked' => FramesOpen'
<1>1. Linked => FramesOpen
  BY LinkedFacts DEF FramesOpen
<1> QED
  BY <1>1, PTL

\* The framing blocks when one is entered,
LEMMA FramingEntered ==
    ASSUME Types, NEW kind \in Kinds, NEW helper \in Helpers, EnterBlock(kind, helper)
    PROVE  /\ helper \in {"txn", "save"} =>
                 /\ Depth + 1 \in Framing'
                 /\ \A x : x \in Framing' <=> x \in Framing \/ x = Depth + 1
           /\ helper \notin {"txn", "save"} => Framing' = Framing
           /\ \A i \in Framing : i < Depth + 1 /\ blocks'[i] = blocks[i]
           /\ blocks'[Depth + 1].helper = helper
<1>1. /\ Depth \in Nat /\ Depth' = Depth + 1
      /\ \A i \in 1 .. Depth : blocks'[i] = blocks[i]
      /\ blocks'[Depth + 1] = [kind |-> kind, helper |-> helper]
  BY EnterFacts
<1>2. blocks'[Depth + 1].helper = helper
  BY <1>1
<1> QED
  BY <1>1, <1>2 DEF Framing

\* and when one is left.
LEMMA FramingLeft ==
    ASSUME Types, blocks # <<>>, NEW ok, LeaveBlock(ok)
    PROVE  /\ \A x : x \in Framing' <=> x \in Framing /\ x # Depth
           /\ \A i \in Framing' : blocks'[i] = blocks[i]
           /\ \A i \in Framing : i <= Depth
           /\ Depth \in Framing <=> Top(blocks).helper \in {"txn", "save"}
           /\ Depth \notin Framing => Framing' = Framing
<1>1. /\ Depth \in Nat /\ Depth >= 1 /\ Depth' = Depth - 1
      /\ \A i \in 1 .. Depth - 1 : blocks'[i] = blocks[i]
      /\ Top(blocks) = blocks[Depth]
  BY LeaveFacts
<1>2. \A x : x \in Framing' <=> x \in Framing /\ x # Depth
  BY <1>1 DEF Framing
<1> QED
  BY <1>1, <1>2 DEF Framing

-----------------------------------------------------------------------------
(***************************************************************************)
(* Each step as a step of nested transactions.                             *)
(***************************************************************************)

Mapped == Nested!Next \/ UNCHANGED Nested!vars

\* Entering a transaction enters a block.
LEMMA EnterTransactionMaps ==
    ASSUME Linked, Linked', NEW k \in Kinds, EnterTransaction(k)
    PROVE  Nested!Enter
<1>1. /\ EnterBlock(k, "txn") /\ "txn" \in Helpers /\ Begin /\ txns = <<>>
      /\ Depth < MaxDepth /\ outcome' = "none" /\ alive' = alive
  BY LinkedFacts DEF EnterTransaction, EnterBlock, Helpers
<1>2. /\ Types /\ Types' /\ Disciplined /\ Disciplined' /\ Framing = {} /\ Frames = <<>>
      /\ work = durable /\ Depth \in Nat
  BY <1>1, LinkedFacts, LinkedFactsNext DEF FramesOpen
<1>3. /\ Depth + 1 \in Framing' /\ blocks'[Depth + 1].helper = "txn"
      /\ \A x : x \in Framing' <=> x \in Framing \/ x = Depth + 1
  BY <1>1, <1>2, FramingEntered
<1>4. FrameMap'[Depth + 1] = work
  <2>1. FrameMap'[Depth + 1] = durable'
    BY <1>2, <1>3, FramesWillBe DEF FramesMean, FrameIn
  <2> QED
    BY <1>1, <1>2, <2>1 DEF Begin
<1>5. Frames' = Append(Frames, work)
  BY <1>2, <1>3, <1>4, FramesPushed
<1>6. Len(Frames) < MaxDepth
  <2>1. Len(Frames) \in 0 .. Depth
    BY <1>2, FramesFacts
  <2> QED
    BY <1>1, <1>2, <2>1, TransactionsAssumption
<1> QED
  BY <1>1, <1>5, <1>6 DEF Nested!Enter, Begin

\* So does entering a savepoint.
LEMMA EnterSavepointMaps ==
    ASSUME Linked, Linked', NEW k \in Kinds, EnterSavepoint(k)
    PROVE  Nested!Enter
<1>1. /\ EnterBlock(k, "save") /\ "save" \in Helpers /\ SAVEPOINT(Depth + 1)
      /\ Depth < MaxDepth /\ outcome' = "none" /\ alive' = alive /\ alive
      /\ UNCHANGED <<work, durable>>
  BY DEF EnterSavepoint, EnterBlock, Helpers, SAVEPOINT
<1>2. /\ Types /\ Types' /\ Disciplined /\ Disciplined' /\ SavepointsKept
      /\ Depth \in Nat /\ Depth + 1 \in Nat /\ Framing \in SUBSET (1 .. Depth)
  BY <1>1, LinkedFacts, LinkedFactsNext DEF FramesOpen
<1>3. /\ Depth + 1 \in Framing' /\ blocks'[Depth + 1].helper = "save"
      /\ \A x : x \in Framing' <=> x \in Framing \/ x = Depth + 1
      /\ \A i \in Framing : i < Depth + 1 /\ blocks'[i] = blocks[i]
  BY <1>1, <1>2, FramingEntered
<1>4. FrameMap'[Depth + 1] = work
  <2>1. saves \in Seq(SaveTypes) /\ Len(saves) \in Nat /\ work \in SUBSET Rows
    BY <1>2, LenProperties DEF Types, DriverOK
  <2>2. [sid |-> Depth + 1, snap |-> work] \in SaveTypes
    BY <1>2, <2>1 DEF SaveTypes
  <2>3. saves' = Append(saves, [sid |-> Depth + 1, snap |-> work])
    BY <1>1 DEF SAVEPOINT
  <2>4. /\ Len(saves') = Len(saves) + 1
        /\ saves'[Len(saves) + 1] = [sid |-> Depth + 1, snap |-> work]
    BY <2>1, <2>2, <2>3, PushFacts
  <2>5. Len(saves') >= 1 /\ saves'[Len(saves')].sid = Depth + 1 /\ saves'[Len(saves')].snap = work
    BY <2>1, <2>4
  <2>6. alive' /\ blocks'[Depth + 1].helper # "txn"
    BY <1>1, <1>3
  <2> QED
    BY <1>2, <1>3, <2>5, <2>6, FrameLast
<1>5. ASSUME NEW i \in Framing PROVE FrameMap'[i] = Frame(i)
  <2>1. Trimmed(Len(saves), Depth + 1)
    BY <1>1, <1>2, StatementTrims
  <2>2. blocks[i].helper # "txn" => NamedIn(saves, i) # {} /\ LatestIn(saves, i) <= Len(saves)
    <3> SUFFICES ASSUME blocks[i].helper # "txn"
        PROVE NamedIn(saves, i) # {} /\ LatestIn(saves, i) <= Len(saves)
      OBVIOUS
    <3>1. i \in SaveBlocks
      BY <1>2 DEF SaveBlocks, Framing
    <3>2. NamedIn(saves, i) # {}
      BY <1>1, <1>2, <3>1, KeptMeans DEF KeptIn
    <3>3. LatestIn(saves, i) \in 1 .. Len(saves) /\ Len(saves) \in Nat
      BY <1>2, <3>2, LatestInFacts DEF Types, DriverOK
    <3> QED
      BY <3>2, <3>3
  <2>3. i \in Framing' /\ i # Depth + 1 /\ blocks'[i] = blocks[i]
    BY <1>2, <1>3
  <2> QED
    BY <1>1, <1>2, <2>1, <2>2, <2>3, FrameTrimmed
<1>6. Frames' = Append(Frames, work)
  BY <1>2, <1>3, <1>4, <1>5, FramesPushed
<1>7. Len(Frames) < MaxDepth
  <2>1. Len(Frames) \in 0 .. Depth
    BY <1>2, FramesFacts
  <2> QED
    BY <1>1, <1>2, <2>1, TransactionsAssumption
<1> QED
  BY <1>1, <1>6, <1>7 DEF Nested!Enter

\* What leaves driver and framing blocks alone is no step.
LEMMA AloneMaps ==
    ASSUME Linked, Linked', Framing' = Framing, \A i \in Framing : blocks'[i] = blocks[i],
           UNCHANGED driver, alive' = alive, outcome' = outcome
    PROVE  UNCHANGED Nested!vars
<1>1. Types /\ Types' /\ Disciplined /\ Disciplined'
  BY LinkedFacts, LinkedFactsNext DEF FramesOpen
<1>2. \A i \in Framing : FrameMap'[i] = Frame(i)
  BY <1>1, FrameSame DEF driver
<1>3. Frames' = Frames
  BY <1>1, <1>2, FramesKept
<1> QED
  BY <1>3 DEF Nested!vars, driver

\* Entering other blocks is no step.
LEMMA EnterOtherMaps ==
    ASSUME Linked, Linked', NEW kind \in Kinds, NEW helper \in Helpers \ {"txn", "save"},
           EnterBlock(kind, helper), UNCHANGED driver
    PROVE  UNCHANGED Nested!vars
<1>1. /\ Framing' = Framing /\ \A i \in Framing : blocks'[i] = blocks[i]
      /\ alive' = alive /\ outcome' = outcome
  BY FramingEntered, LinkedFacts DEF EnterBlock
<1> QED
  BY <1>1, AloneMaps

\* The blocks around a savepoint keep what they began with when a statement is about
\* that savepoint.
LEMMA FramesAround ==
    ASSUME Linked, Linked', alive, alive' = alive, durable' = durable,
           NEW d \in SaveBlocks, NEW n \in Nat, n >= Latest(d) - 1, Trimmed(n, d),
           NEW i \in Framing, i \in Framing', i < d, blocks'[i] = blocks[i]
    PROVE  FrameMap'[i] = Frame(i)
<1>1. Types /\ Types' /\ SavepointsKept
  BY LinkedFacts, LinkedFactsNext DEF FramesOpen
<1>2. blocks[i].helper # "txn" => NamedIn(saves, i) # {} /\ LatestIn(saves, i) <= n
  <2> SUFFICES ASSUME blocks[i].helper # "txn"
      PROVE NamedIn(saves, i) # {} /\ LatestIn(saves, i) <= n
    OBVIOUS
  <2>1. i \in SaveBlocks
    BY DEF SaveBlocks, Framing
  <2>2. NamedIn(saves, i) # {} /\ NamedIn(saves, d) # {} /\ LatestIn(saves, i) < LatestIn(saves, d)
    BY <1>1, <2>1, KeptMeans DEF KeptIn
  <2>3. saves \in Seq(SaveTypes) /\ Latest(d) = LatestIn(saves, d)
    BY <1>1, NamedMeans DEF Types, DriverOK
  <2>4. LatestIn(saves, i) \in 1 .. Len(saves) /\ LatestIn(saves, d) \in 1 .. Len(saves)
        /\ Len(saves) \in Nat
    BY <2>2, <2>3, LatestInFacts
  <2> QED
    BY <2>2, <2>3, <2>4
<1>3. i # d
  BY DEF Framing
<1> QED
  BY <1>1, <1>2, <1>3, FrameTrimmed

\* Leaving the block that began the transaction leaves the outermost block.
LEMMA ExitTxnMaps ==
    ASSUME Linked, Linked', blocks # <<>>, NEW err \in BOOLEAN, NEW ok \in BOOLEAN,
           ExitTransaction(err, ok), LeaveBlock(ok), Top(blocks).helper = "txn"
    PROVE  Nested!Return \/ Nested!Raise
<1>1. /\ Types /\ Disciplined /\ Disciplined' /\ Books /\ Nesting
      /\ Depth \in Nat /\ Framing \in SUBSET (1 .. Depth)
      /\ begun <=> alive /\ txns # <<>>
      /\ ~alive => work = durable
      /\ Frames' = <<>> <=> txns' = <<>>
  BY LinkedFacts, LinkedFactsNext DEF FramesOpen
<1>2. /\ \A x : x \in Framing' <=> x \in Framing /\ x # Depth
      /\ \A i \in Framing : i <= Depth
      /\ Depth \in Framing
  BY <1>1, FramingLeft
<1>3. Top(blocks) = blocks[Depth]
  BY <1>1, LeaveFacts
<1>4. Len(txns) = 1 /\ \A i \in 1 .. Depth - 1 : blocks[i].helper = "none"
  BY <1>1, LastOfTransaction
<1>5. txns # <<>> /\ Pop(txns) = <<>>
  BY <1>1, <1>4, StackFacts
<1>6. \A i \in Framing' : FALSE
  BY <1>1, <1>2, <1>4 DEF Framing
<1>7. Frames' = Pop(Frames)
  BY <1>1, <1>2, <1>6, FramesPopped
<1>8. /\ Frames \in Seq(RowSets) /\ Frames # <<>> /\ Top(Frames) = Frame(Depth)
  BY <1>1, <1>2, FramesFacts
<1>9. Frame(Depth) = durable
  BY <1>3 DEF Frame
<1>10. txns' = Pop(txns) /\ ((TryRollback /\ ~ok) \/ (COMMIT(FALSE) /\ ok))
  <2>1. ~(Len(txns) > 1)
    BY <1>4
  <2> QED
    BY <1>4, <1>5, <2>1 DEF ExitTransaction
<1>11. Frames' = <<>>
  BY <1>1, <1>5, <1>10
<1>12. Len(Frames) = 1
  BY <1>7, <1>8, <1>11, PopFacts
<1>13. CASE ok
  <2>1. COMMIT(FALSE) /\ outcome' = "returned"
    BY <1>10, <1>13 DEF LeaveBlock
  <2> QED
    BY <1>7, <1>8, <1>11, <1>12, <2>1 DEF Nested!Return, Nested!Inside, Nested!Pop, Pop, COMMIT
<1>14. CASE ~ok
  <2>1. TryRollback /\ outcome' = "raised"
    BY <1>10, <1>14 DEF LeaveBlock
  <2>2. work' = durable /\ durable' = durable
    BY <1>1, <1>5, <2>1 DEF TryRollback, ROLLBACK, driver
  <2> QED
    BY <1>7, <1>8, <1>9, <1>11, <1>12, <2>1, <2>2
    DEF Nested!Raise, Nested!Inside, Nested!Pop, Pop, Nested!Top, Top
<1> QED
  BY <1>13, <1>14

\* Leaving a savepoint leaves a block within another.
LEMMA ExitSaveMaps ==
    ASSUME Linked, Linked', blocks # <<>>, NEW err \in BOOLEAN, NEW ok \in BOOLEAN,
           ExitSavepoint(err, ok), LeaveBlock(ok), Top(blocks).helper = "save",
           alive' = alive
    PROVE  Nested!Return \/ Nested!Raise
<1>1. /\ Types /\ Types' /\ Disciplined /\ Disciplined' /\ Books /\ Nesting /\ SavepointsKept
      /\ Depth \in Nat /\ Framing \in SUBSET (1 .. Depth)
      /\ begun <=> alive /\ txns # <<>>
      /\ ~alive => work = durable
      /\ Frames' = <<>> <=> txns' = <<>>
  BY LinkedFacts, LinkedFactsNext DEF FramesOpen
<1>2. /\ \A x : x \in Framing' <=> x \in Framing /\ x # Depth
      /\ \A i \in Framing' : blocks'[i] = blocks[i]
      /\ \A i \in Framing : i <= Depth
      /\ Depth \in Framing
  BY <1>1, FramingLeft
<1>3. Top(blocks) = blocks[Depth] /\ Depth >= 1
  BY <1>1, LeaveFacts
<1>4. Depth \in SaveBlocks
  BY <1>1, <1>3 DEF SaveBlocks
<1>5. txns # <<>> /\ txns' = txns
  BY <1>1, <1>3, NoneOpen DEF ExitSavepoint
<1>6. alive => Named(Depth) # {} /\ Latest(Depth) \in 1 .. Len(saves) /\ Len(saves) \in Nat
  <2>1. alive => Named(Depth) # {}
    BY <1>1, <1>4, KeptMeans, NamedMeans DEF KeptIn
  <2> QED
    BY <1>1, <2>1, LatestFacts, LenProperties DEF Types, DriverOK
<1>7. \A i \in Framing' : i \in Framing /\ i < Depth /\ i \in Nat
  <2> TAKE i \in Framing'
  <2>1. i \in Framing /\ i # Depth /\ i <= Depth
    BY <1>2
  <2>2. i \in 1 .. Depth
    BY <1>1, <2>1
  <2> QED
    BY <1>1, <2>1, <2>2
<1>8. /\ Frames \in Seq(RowSets) /\ Frames # <<>> /\ Top(Frames) = Frame(Depth)
      /\ Len(Frames) \in Nat
  <2>1. /\ Frames \in Seq(RowSets) /\ Frames # <<>> /\ Top(Frames) = Frame(Depth)
    BY <1>1, <1>2, FramesFacts
  <2> QED
    BY <2>1, LenProperties
<1>9. ASSUME Frames' = Pop(Frames) PROVE Len(Frames) > 1
  <2>1. Frames' # <<>>
    BY <1>1, <1>5
  <2>2. Len(Frames) >= 1 /\ (Pop(Frames) = <<>> <=> Len(Frames) = 1)
    BY <1>8, PopFacts
  <2>3. Len(Frames) # 1
    BY <1>9, <2>1, <2>2
  <2> QED
    <3> DEFINE l == Len(Frames)
    <3>1. l \in Nat /\ l >= 1 /\ l # 1
      BY <1>8, <2>2, <2>3
    <3> HIDE DEF l
    <3>2. l > 1
      BY <3>1
    <3> QED
      BY <3>2 DEF l
<1>10. CASE ok
  <2>1. RELEASE(Depth) /\ outcome' = "returned" /\ alive
    BY <1>10 DEF LeaveBlock, ExitSavepoint, RELEASE, Releasable
  <2>2. durable' = durable /\ work' = work /\ Trimmed(Latest(Depth) - 1, Depth)
    BY <1>1, <2>1, StatementTrims DEF RELEASE
  <2>3. Latest(Depth) - 1 \in Nat
    BY <1>6, <2>1
  <2>4. ASSUME NEW i \in Framing' PROVE FrameMap'[i] = Frame(i)
    <3>1. i \in Framing /\ i < Depth /\ blocks'[i] = blocks[i]
      BY <1>2, <1>7
    <3> QED
      BY <1>4, <1>6, <2>1, <2>2, <2>3, <3>1, FramesAround
  <2>5. Frames' = Pop(Frames)
    BY <1>1, <1>2, <2>4, FramesPopped
  <2>6. Len(Frames) > 1
    BY <1>9, <2>5
  <2> QED
    BY <1>8, <2>1, <2>2, <2>5, <2>6 DEF Nested!Return, Nested!Inside, Nested!Pop, Pop
<1>11. CASE ~ok
  <2>1. TryRollbackTo(Depth) /\ outcome' = "raised"
    BY <1>11 DEF LeaveBlock, ExitSavepoint
  <2>2. CASE Releasable(Depth)
    <3>1. /\ alive /\ durable' = durable /\ work' = Snapshot(Depth)
          /\ saves' = SubSeq(saves, 1, Latest(Depth))
      BY <2>1, <2>2 DEF TryRollbackTo, Releasable
    <3>2. Trimmed(Latest(Depth), Depth)
      <4> DEFINE n == Latest(Depth)
      <4>1. saves \in Seq(SaveTypes) /\ n \in 1 .. Len(saves) /\ n \in 0 .. Len(saves)
        BY <1>1, <1>6, <3>1 DEF Types, DriverOK
      <4>2. saves' = SubSeq(saves, 1, n)
        BY <3>1
      <4> HIDE DEF n
      <4>3. Len(saves') = n /\ \A k \in 1 .. n : saves'[k] = saves[k]
        BY <4>1, <4>2, CutFacts
      <4>4. n \in Nat /\ n <= Len(saves) /\ n # n + 1
        BY <1>6, <3>1, <4>1
      <4>5. Trimmed(n, Depth)
        BY <4>3, <4>4 DEF Trimmed
      <4> QED
        BY <4>5 DEF n
    <3>3. ASSUME NEW i \in Framing' PROVE FrameMap'[i] = Frame(i)
      <4>1. i \in Framing /\ i < Depth /\ blocks'[i] = blocks[i]
        BY <1>2, <1>7
      <4>2. Latest(Depth) \in Nat /\ Latest(Depth) >= Latest(Depth) - 1
        BY <1>6, <3>1
      <4> QED
        BY <1>4, <3>1, <3>2, <4>1, <4>2, FramesAround
    <3>4. Frames' = Pop(Frames)
      BY <1>1, <1>2, <3>3, FramesPopped
    <3>5. Len(Frames) > 1
      BY <1>9, <3>4
    <3>6. work' = Top(Frames)
      BY <1>3, <1>8, <3>1 DEF Frame
    <3> QED
      BY <1>8, <2>1, <3>1, <3>4, <3>5, <3>6
      DEF Nested!Raise, Nested!Inside, Nested!Pop, Pop, Nested!Top, Top
  <2>3. CASE ~Releasable(Depth)
    <3>1. UNCHANGED driver /\ ~alive
      BY <1>1, <1>5, <1>6, <2>1, <2>3 DEF TryRollbackTo, Releasable
    <3>2. ASSUME NEW i \in Framing' PROVE FrameMap'[i] = Frame(i)
      BY <1>1, <1>2, <1>7, <3>1, FrameSame DEF driver
    <3>3. Frames' = Pop(Frames)
      BY <1>1, <1>2, <3>2, FramesPopped
    <3>4. Len(Frames) > 1
      BY <1>9, <3>3
    <3>5. Frames' # <<>>
      BY <1>1, <1>5
    <3>6. work' = Top(Frames) /\ durable' = durable
      BY <1>1, <1>8, <3>1 DEF Frame, driver
    <3> QED
      BY <1>8, <2>1, <3>1, <3>3, <3>4, <3>5, <3>6
      DEF Nested!Raise, Nested!Inside, Nested!Pop, Pop, Nested!Top, Top
  <2> QED
    BY <2>2, <2>3
<1> QED
  BY <1>10, <1>11

\* Leaving a block that is one of these, or lies within, leaves a block or is no step.
LEMMA ExitMaps ==
    ASSUME Linked, Linked', blocks # <<>>, NEW err \in BOOLEAN, NEW ok \in BOOLEAN,
           ExitHelper(err, ok), NEW o, LeaveBlock(o),
           Top(blocks).helper \in {"txn", "save"} => o = ok,
           alive' = alive \/ txns' = <<>>
    PROVE  Mapped
<1>1. /\ Types /\ Disciplined /\ Books /\ Nesting
      /\ Depth \in Nat /\ Framing \in SUBSET (1 .. Depth)
  BY LinkedFacts
<1>2. CASE Top(blocks).helper = "txn"
  BY <1>2, ExitTxnMaps DEF Mapped, Nested!Next, ExitHelper
<1>3. CASE Top(blocks).helper = "save"
  <2>1. ExitSavepoint(err, ok) /\ o = ok
    BY <1>3 DEF ExitHelper
  <2>2. Top(blocks) = blocks[Depth] /\ Depth >= 1
    BY <1>1, LeaveFacts
  <2>3. txns # <<>> /\ txns' = txns
    BY <1>1, <1>3, <2>1, <2>2, NoneOpen DEF ExitSavepoint
  <2> QED
    BY <1>3, <2>1, <2>3, ExitSaveMaps DEF Mapped, Nested!Next
<1>4. CASE Top(blocks).helper = "inert"
  <2>1. Len(txns) > 1
    BY <1>1, <1>4, LastOfTransaction
  <2>2. ExitTransaction(err, ok) /\ txns # <<>>
    BY <1>1, <1>4, <2>1, StackFacts DEF ExitHelper
  <2>3. txns' = Pop(txns) /\ UNCHANGED driver
    <3>1. ~(1 > 1)
      OBVIOUS
    <3>2. Len(txns) # 1
      BY <2>1, <3>1, Zenon
    <3> QED
      BY <2>1, <2>2, <3>2 DEF ExitTransaction
  <2>4. txns' # <<>>
    BY <1>1, <2>1, <2>2, <2>3, StackFacts
  <2>5. alive' = alive /\ outcome' = outcome
    BY <1>4, <2>4 DEF LeaveBlock
  <2>6. Framing' = Framing /\ \A i \in Framing : blocks'[i] = blocks[i]
    BY <1>1, <1>4, FramingLeft
  <2>7. UNCHANGED Nested!vars
    BY <2>3, <2>5, <2>6, AloneMaps
  <2> QED
    BY <2>7 DEF Mapped
<1> QED
  BY <1>2, <1>3, <1>4 DEF ExitHelper

\* Leaving a block that is no database.
LEMMA ExitPlainMaps ==
    ASSUME Linked, Linked', NEW err \in BOOLEAN, NEW ok \in BOOLEAN, Exit(err, ok)
    PROVE  Mapped
<1>1. blocks # <<>> /\ ExitHelper(err, ok) /\ LeaveBlock(ok) /\ alive' = alive
  BY DEF Exit
<1> QED
  BY <1>1, ExitMaps

\* Leaving a database: when it is not the outermost transaction, another context counts.
LEMMA ExitDatabaseMaps ==
    ASSUME Linked, Linked', NEW err \in BOOLEAN, NEW ok \in BOOLEAN, ExitDatabase(err, ok)
    PROVE  Mapped
<1>1. /\ Types /\ Books /\ Nesting /\ Within /\ ctx \in Nat
  BY LinkedFacts DEF Linked, Types
<1>2. /\ blocks # <<>> /\ Top(blocks).kind = "db" /\ ctx > 0 /\ ExitHelper(err, ok)
      /\ \/ (ctx > 1 \/ txns' # <<>>) /\ LeaveBlock(ok /\ ctx > 1) /\ alive' = alive
         \/ ~(ctx > 1) /\ txns' = <<>> /\ LeaveBlock(ok)
  BY DEF ExitDatabase
<1>3. CASE ~(ctx > 1) /\ txns' = <<>> /\ LeaveBlock(ok)
  BY <1>2, <1>3, ExitMaps
<1>4. CASE ctx > 1 /\ LeaveBlock(ok /\ ctx > 1) /\ alive' = alive
  <2>1. LeaveBlock(ok)
    BY <1>4 DEF LeaveBlock
  <2> QED
    BY <1>2, <1>4, <2>1, ExitMaps
<1>5. CASE ~(ctx > 1) /\ txns' # <<>> /\ LeaveBlock(ok /\ ctx > 1) /\ alive' = alive
  <2> DEFINE o == ok /\ ctx > 1
  <2>1. LeaveBlock(o)
    BY <1>5
  <2> HIDE DEF o
  <2>2. Top(blocks).helper # "txn"
    <3> SUFFICES ASSUME Top(blocks).helper = "txn" PROVE FALSE
      OBVIOUS
    <3>1. Len(txns) = 1
      BY <1>1, <1>2, <2>1, LastOfTransaction
    <3>2. ExitTransaction(err, ok) /\ txns # <<>> /\ Pop(txns) = <<>>
      BY <1>1, <1>2, <3>1, StackFacts DEF ExitHelper
    <3>3. txns' = Pop(txns)
      BY <3>2 DEF ExitTransaction
    <3> QED
      BY <1>5, <3>2, <3>3
  <2>3. Top(blocks).helper # "save"
    <3> SUFFICES ASSUME Top(blocks).helper = "save" PROVE FALSE
      OBVIOUS
    <3>1. Depth \in Nat /\ Depth >= 1 /\ Top(blocks) = blocks[Depth] /\ Top(blocks) \in BlockTypes
      BY <1>1, <1>2, <2>1, LeaveFacts
    <3>2. PICK j \in 1 .. Depth - 1 : blocks[j].kind \in {"db", "conn"}
      BY <1>1, <1>2, <3>1 DEF Within
    <3>3. j \in 1 .. Depth /\ j # Depth
      BY <3>1, <3>2
    <3>4. blocks[j] \in BlockTypes
      BY <1>1, <3>3, ElementOfSeq DEF Types, Depth
    <3>5. j \in Among(Contexts) /\ Top(blocks) \in Contexts
      BY <1>2, <3>1, <3>2, <3>3, <3>4 DEF Among, From, Contexts
    <3>6. Cardinality(Among(Contexts)) >= 1 /\ Cardinality(Among(Contexts)) # 1
      <4> DEFINE K == Cardinality(Among(Contexts))
      <4>1. K >= 1 /\ (K = 1 => Among(Contexts) = {Depth})
        BY <1>1, <1>2, <2>1, <3>5, AmongLeft
      <4>2. Among(Contexts) # {Depth}
        BY <3>3, <3>5
      <4> QED
        BY <4>1, <4>2
    <3>7. ctx >= 1 /\ ctx # 1
      BY <1>1, <3>6 DEF Books
    <3> QED
      BY <1>1, <1>5, <3>7
  <2> QED
    BY <1>2, <1>5, <2>1, <2>2, <2>3, ExitMaps
<1> QED
  BY <1>2, <1>3, <1>4, <1>5

\* Leaving connection_context() is no step, even when it closes the connection.
LEMMA ExitConnectionMaps ==
    ASSUME Linked, Linked', ExitConnection
    PROVE  UNCHANGED Nested!vars
<1>1. /\ Types /\ Nesting
      /\ Framing = {} <=> txns = <<>>
      /\ Frames = <<>> <=> txns = <<>>
      /\ Frames' = <<>> <=> txns' = <<>>
      /\ txns = <<>> => work = durable
  BY LinkedFacts, LinkedFactsNext DEF FramesOpen
<1>2. /\ blocks # <<>> /\ Top(blocks).kind = "conn" /\ \E o : LeaveBlock(o)
      /\ \/ UNCHANGED <<closed, txns, alive, driver>>
         \/ txns = <<>> /\ Disconnected
  BY DEF ExitConnection
<1>3. PICK o : LeaveBlock(o)
  BY <1>2
<1>4. Depth \in Nat /\ Depth >= 1 /\ Top(blocks) = blocks[Depth]
  BY <1>1, <1>2, <1>3, LeaveFacts
<1>5. Top(blocks).helper = "none"
  BY <1>1, <1>2, <1>4 DEF Nesting
<1>6. /\ Framing' = Framing /\ \A i \in Framing : blocks'[i] = blocks[i]
      /\ outcome' = outcome
  BY <1>1, <1>2, <1>3, <1>5, FramingLeft DEF LeaveBlock
<1>7. CASE UNCHANGED <<closed, txns, alive, driver>>
  BY <1>6, <1>7, AloneMaps
<1>8. CASE txns = <<>> /\ Disconnected
  <2>1. txns' = <<>> /\ work' = work /\ durable' = durable
    BY <1>1, <1>8 DEF Disconnected
  <2>2. Frames = <<>> /\ Frames' = <<>>
    BY <1>1, <1>8, <2>1
  <2> QED
    BY <1>6, <2>1, <2>2 DEF Nested!vars
<1> QED
  BY <1>2, <1>7, <1>8

\* A block of Addressed is the innermost of those that frame, and they stay.
LEMMA AddressedFacts ==
    ASSUME Recommended, Linked, NEW i \in Addressed, UNCHANGED blocks
    PROVE  /\ i \in Framing /\ i \in Nat /\ blocks[i].helper \in {"txn", "save"}
           /\ \A j \in Framing : j <= i /\ (j # i => j < i)
           /\ \A x : x \in Framing' <=> x \in Framing
           /\ Framing' = Framing
           /\ \A j \in Framing : blocks'[j] = blocks[j]
           /\ blocks[i].helper = "txn" => Cardinality(Framing) = 1 /\ \A j \in Framing : j = i
           /\ blocks[i].helper = "save" => Cardinality(Framing) # 1 /\ i \in SaveBlocks
<1>1. Nesting /\ Depth \in Nat /\ Framing \in SUBSET (1 .. Depth)
  BY LinkedFacts
<1>2. /\ i \in 1 .. Depth /\ blocks[i].helper \in {"txn", "save"}
      /\ \A j \in i + 1 .. Depth : blocks[j].helper \notin {"txn", "save"}
  BY DEF Addressed, Recommended
<1>3. i \in Framing /\ i \in Nat
  BY <1>1, <1>2 DEF Framing
<1>4. ASSUME NEW j \in Framing PROVE j <= i /\ (j # i => j < i)
  BY <1>1, <1>2 DEF Framing
<1>5. Framing' = Framing
  BY DEF Framing, Depth
<1>6. ASSUME blocks[i].helper = "txn" PROVE Cardinality(Framing) = 1 /\ \A j \in Framing : j = i
  <2>1. ASSUME NEW j \in Framing PROVE j = i
    <3>1. j \in 1 .. Depth /\ blocks[j].helper \in {"txn", "save"}
      BY DEF Framing
    <3>2. CASE blocks[j].helper = "txn"
      BY <1>1, <1>2, <1>6, <3>1, <3>2 DEF Nesting
    <3>3. CASE blocks[j].helper = "save"
      <4>1. PICK t \in 1 .. j - 1 : blocks[t].helper = "txn"
        BY <1>1, <3>1, <3>3 DEF Nesting
      <4>2. t \in 1 .. Depth /\ t < j
        BY <1>1, <3>1, <4>1
      <4>3. t = i
        BY <1>1, <1>2, <1>6, <4>1, <4>2 DEF Nesting
      <4>4. j <= i
        BY <1>4
      <4> QED
        BY <1>3, <3>1, <4>2, <4>3, <4>4
    <3> QED
      BY <3>1, <3>2, <3>3
  <2>2. Framing = {i}
    BY <1>3, <2>1
  <2> QED
    BY <2>1, <2>2, FS_Singleton
<1>7. ASSUME blocks[i].helper = "save" PROVE Cardinality(Framing) # 1 /\ i \in SaveBlocks
  <2>1. PICK t \in 1 .. i - 1 : blocks[t].helper = "txn"
    BY <1>1, <1>2, <1>7 DEF Nesting
  <2>2. t \in Framing /\ t # i
    BY <1>1, <1>2, <2>1 DEF Framing
  <2>3. IsFiniteSet(Framing)
    BY <1>1, RankFacts
  <2>4. ~ \E x : Framing = {x}
    BY <1>3, <2>2
  <2>5. i \in SaveBlocks
    BY <1>2, <1>7 DEF SaveBlocks
  <2> QED
    BY <2>3, <2>4, <2>5, FS_Singleton
<1> QED
  BY <1>2, <1>3, <1>4, <1>5, <1>6, <1>7

\* commit() and rollback() are those of the innermost block.
LEMMA ExplicitTxnMaps ==
    ASSUME Recommended, Linked, Linked', NEW i \in Addressed, blocks[i].helper = "txn",
           ExplicitCommit(i) \/ ExplicitRollback(i)
    PROVE  Nested!Commit \/ Nested!Rollback
<1>1. /\ Types /\ Types' /\ Disciplined /\ Disciplined'
  BY LinkedFacts, LinkedFactsNext DEF FramesOpen
<1>2. /\ UNCHANGED <<blocks, alive, outcome>>
      /\ COMMIT(TRUE) \/ ROLLBACK(TRUE)
      /\ ExplicitCommit(i) => COMMIT(TRUE)
      /\ alive
  BY DEF ExplicitCommit, ExplicitRollback, COMMIT, ROLLBACK
<1>3. /\ i \in Framing /\ Framing' = Framing
      /\ \A j \in Framing : j <= i /\ j = i
      /\ \A x : x \in Framing' <=> x \in Framing
      /\ Cardinality(Framing) = 1 /\ blocks'[i] = blocks[i]
  BY <1>2, AddressedFacts
<1>4. /\ Frames # <<>> /\ Top(Frames) = Frame(i) /\ Len(Frames) = 1
  BY <1>1, <1>3, FramesFacts
<1>5. Frame(i) = durable /\ FrameMap'[i] = durable'
  <2>1. FrameMap'[i] = FrameIn(blocks', saves', alive', durable', i)
    BY <1>1, <1>3, FramesWillBe DEF FramesMean
  <2>2. FrameIn(blocks', saves', alive', durable', i) = durable'
    BY <1>3 DEF FrameIn
  <2> QED
    BY <2>1, <2>2 DEF Frame
<1>6. CASE COMMIT(TRUE)
  <2>1. Frames' = Append(Pop(Frames), FrameMap'[i])
    BY <1>1, <1>3, FramesReplaced
  <2>2. durable' = work /\ work' = work
    BY <1>6 DEF COMMIT
  <2> QED
    BY <1>2, <1>4, <1>5, <2>1, <2>2 DEF Nested!Commit, Nested!Inside, Nested!Pop, Pop
<1>7. CASE ROLLBACK(TRUE)
  <2>1. durable' = durable /\ work' = durable
    BY <1>7 DEF ROLLBACK
  <2>2. \A j \in Framing : FrameMap'[j] = Frame(j)
    BY <1>3, <1>5, <2>1
  <2>3. Frames' = Frames
    BY <1>1, <1>3, <2>2, FramesKept
  <2> QED
    BY <1>2, <1>4, <1>5, <2>1, <2>3 DEF Nested!Rollback, Nested!Inside, Nested!Top, Top
<1> QED
  BY <1>2, <1>6, <1>7

\* So they are when that is a savepoint.
LEMMA ExplicitSaveMaps ==
    ASSUME Recommended, Linked, Linked', NEW i \in Addressed, blocks[i].helper = "save",
           ExplicitCommit(i) \/ ExplicitRollback(i)
    PROVE  Nested!Commit \/ Nested!Rollback
<1>1. /\ Types /\ Types' /\ Disciplined /\ Disciplined'
      /\ saves \in Seq(SaveTypes) /\ saves' \in Seq(SaveTypes) /\ work \in SUBSET Rows
  BY LinkedFacts, LinkedFactsNext DEF FramesOpen, Types, DriverOK
<1>2. /\ UNCHANGED blocks /\ alive' = alive /\ outcome' = outcome
      /\ RELEASE_SAVEPOINT(i) \/ ROLLBACK_TO_SAVEPOINT(i)
      /\ alive /\ Named(i) # {} /\ durable' = durable
  BY DEF ExplicitCommit, ExplicitRollback, RELEASE_SAVEPOINT, ROLLBACK_TO_SAVEPOINT, Releasable
<1>3. /\ i \in Framing /\ i \in Nat /\ Framing' = Framing /\ i \in SaveBlocks
      /\ \A j \in Framing : j <= i
      /\ \A j \in Framing : j # i => j < i
      /\ \A x : x \in Framing' <=> x \in Framing
      /\ Cardinality(Framing) # 1 /\ \A j \in Framing : blocks'[j] = blocks[j]
  BY <1>2, AddressedFacts
<1>4. /\ Frames # <<>> /\ Top(Frames) = Frame(i) /\ Len(Frames) # 1
  BY <1>1, <1>3, FramesFacts
<1>5. Latest(i) \in 1 .. Len(saves) /\ Snapshot(i) \in SUBSET Rows /\ Len(saves) \in Nat
  BY <1>1, <1>2, LatestFacts, LenProperties
<1>6. ASSUME NEW n \in 0 .. Len(saves), NEW e \in SaveTypes, e.sid = i,
             n >= Latest(i) - 1, saves' = Append(SubSeq(saves, 1, n), e)
      PROVE  FrameMap'[i] = e.snap /\ \A j \in Framing \ {i} : FrameMap'[j] = Frame(j)
  <2>1. /\ SubSeq(saves, 1, n) \in Seq(SaveTypes) /\ Len(SubSeq(saves, 1, n)) = n
        /\ \A k \in 1 .. n : SubSeq(saves, 1, n)[k] = saves[k]
    BY <1>1, CutFacts
  <2>2. /\ Len(saves') = n + 1 /\ saves'[n + 1] = e
        /\ \A k \in 1 .. n : saves'[k] = saves[k]
    <3> DEFINE s == SubSeq(saves, 1, n)
    <3> HIDE DEF s
    <3>1. /\ Len(Append(s, e)) = Len(s) + 1 /\ Append(s, e)[Len(s) + 1] = e
          /\ \A k \in 1 .. Len(s) : Append(s, e)[k] = s[k]
      BY <2>1, PushFacts DEF s
    <3> QED
      BY <1>6, <2>1, <3>1 DEF s
  <2>3. n \in Nat /\ n <= Len(saves)
    BY <1>5
  <2>4. Trimmed(n, i)
    BY <1>6, <2>2, <2>3 DEF Trimmed
  <2>5. Len(saves') >= 1 /\ saves'[Len(saves')].sid = i /\ saves'[Len(saves')].snap = e.snap
    BY <1>6, <2>2, <2>3
  <2>6. FrameMap'[i] = e.snap
    <3>1. i \in Framing' /\ alive' /\ blocks'[i].helper # "txn"
      BY <1>2, <1>3
    <3> QED
      BY <1>1, <2>5, <3>1, FrameLast
  <2>7. ASSUME NEW j \in Framing \ {i} PROVE FrameMap'[j] = Frame(j)
    <3>1. j \in Framing /\ j \in Framing' /\ j < i /\ blocks'[j] = blocks[j]
      BY <1>3
    <3> QED
      BY <1>2, <1>3, <1>6, <2>3, <2>4, <3>1, FramesAround
  <2> QED
    BY <2>6, <2>7
<1>7. CASE RELEASE_SAVEPOINT(i)
  <2> DEFINE n == Latest(i) - 1
  <2> DEFINE e == [sid |-> i, snap |-> work]
  <2>1. n \in 0 .. Len(saves) /\ n >= Latest(i) - 1
    BY <1>5
  <2>2. e \in SaveTypes /\ e.sid = i /\ e.snap = work
    BY <1>1, <1>3 DEF SaveTypes
  <2>3. saves' = Append(SubSeq(saves, 1, n), e) /\ work' = work
    BY <1>7 DEF RELEASE_SAVEPOINT
  <2> HIDE DEF n, e
  <2>4. FrameMap'[i] = work /\ \A j \in Framing \ {i} : FrameMap'[j] = Frame(j)
    BY <1>6, <2>1, <2>2, <2>3 DEF n
  <2>5. Frames' = Append(Pop(Frames), FrameMap'[i])
    BY <1>1, <1>3, <2>4, FramesReplaced
  <2> QED
    BY <1>2, <1>4, <2>3, <2>4, <2>5 DEF Nested!Commit, Nested!Inside, Nested!Pop, Pop
<1>8. CASE ROLLBACK_TO_SAVEPOINT(i)
  <2> DEFINE n == Latest(i)
  <2> DEFINE e == [sid |-> i, snap |-> Snapshot(i)]
  <2>1. n \in 0 .. Len(saves) /\ n >= Latest(i) - 1
    BY <1>5
  <2>2. e \in SaveTypes /\ e.sid = i /\ e.snap = Snapshot(i)
    BY <1>3, <1>5 DEF SaveTypes
  <2>3. saves' = Append(SubSeq(saves, 1, n), e) /\ work' = Snapshot(i)
    BY <1>8 DEF ROLLBACK_TO_SAVEPOINT
  <2> HIDE DEF n, e
  <2>4. FrameMap'[i] = Snapshot(i) /\ \A j \in Framing \ {i} : FrameMap'[j] = Frame(j)
    BY <1>6, <2>1, <2>2, <2>3 DEF n
  <2>5. Frame(i) = Snapshot(i)
    BY <1>2 DEF Frame
  <2>6. \A j \in Framing : FrameMap'[j] = Frame(j)
    BY <2>4, <2>5
  <2>7. Frames' = Frames
    BY <1>1, <1>3, <2>6, FramesKept
  <2> QED
    BY <1>2, <1>4, <2>3, <2>5, <2>7 DEF Nested!Rollback, Nested!Inside, Nested!Top, Top
<1> QED
  BY <1>2, <1>7, <1>8

\* A row is written in the open block, or at once.
LEMMA WriteMaps ==
    ASSUME Linked, Linked', NEW r \in Rows, Write(r)
    PROVE  Nested!Write(r)
<1>1. /\ Types /\ Types' /\ Disciplined /\ Disciplined'
      /\ begun <=> alive /\ txns # <<>>
      /\ Frames = <<>> <=> txns = <<>>
      /\ Frames' = <<>> <=> txns' = <<>>
      /\ closed => txns = <<>>
  BY LinkedFacts, LinkedFactsNext DEF FramesOpen
<1>2. /\ UNCHANGED blocks /\ alive' = alive /\ outcome' = outcome /\ alive
      /\ saves' = saves /\ work' = work \cup {r}
      /\ durable' = IF begun THEN durable ELSE work \cup {r}
      /\ txns' = txns
  BY <1>1 DEF Write, Connected, state
<1>3. CASE txns = <<>>
  <2>1. Frames = <<>> /\ Frames' = <<>> /\ ~begun
    BY <1>1, <1>2, <1>3
  <2> QED
    BY <1>2, <2>1 DEF Nested!Write, Nested!Inside
<1>4. CASE txns # <<>>
  <2>1. Frames # <<>> /\ durable' = durable
    BY <1>1, <1>2, <1>4
  <2>2. Framing' = Framing /\ \A i \in Framing : blocks'[i] = blocks[i]
    BY <1>2 DEF Framing, Depth
  <2>3. ASSUME NEW i \in Framing PROVE FrameMap'[i] = Frame(i)
    BY <1>1, <1>2, <2>1, <2>2, FrameSame
  <2>4. Frames' = Frames
    BY <1>1, <2>2, <2>3, FramesKept
  <2> QED
    BY <1>2, <2>1, <2>4 DEF Nested!Write, Nested!Inside
<1> QED
  BY <1>3, <1>4

\* Closing the database outside all blocks is no step.
LEMMA CloseMaps ==
    ASSUME Recommended, Linked, Linked', Close
    PROVE  UNCHANGED Nested!vars
<1>1. /\ Frames = <<>> <=> txns = <<>>
      /\ Frames' = <<>> <=> txns' = <<>>
      /\ txns = <<>> => work = durable
  BY LinkedFacts, LinkedFactsNext DEF FramesOpen
<1>2. /\ txns = <<>> /\ txns' = <<>> /\ work' = durable /\ durable' = durable
      /\ outcome' = outcome
  BY DEF Close, Disconnected
<1>3. Frames = <<>> /\ Frames' = <<>> /\ work' = work
  BY <1>1, <1>2
<1> QED
  BY <1>2, <1>3 DEF Nested!vars

\* When the connection is lost, every block falls back to what is durable.
LEMMA LoseMaps ==
    ASSUME Linked, Linked', Lose
    PROVE  Nested!Lose
<1>1. /\ Types /\ Types' /\ Disciplined /\ Disciplined'
      /\ Frames = <<>> <=> txns = <<>>
      /\ Frames' = <<>> <=> txns' = <<>>
      /\ Depth \in Nat /\ Framing \in SUBSET (1 .. Depth)
  BY LinkedFacts, LinkedFactsNext DEF FramesOpen
<1>2. /\ UNCHANGED <<blocks, txns, outcome>> /\ alive' = FALSE
      /\ work' = durable /\ durable' = durable
  BY DEF Lose, state
<1>3. Framing' = Framing
  BY <1>2 DEF Framing, Depth
<1>4. \A i \in Framing : FrameMap'[i] = durable
  BY <1>1, <1>2, <1>3, FramesWillBe DEF FramesMean, FrameIn
<1>5. Frames = Listed(Framing, FrameMap) /\ Frames' = Listed(Framing, FrameMap')
  BY <1>1, <1>3, FramesListed, FramesListedNext DEF InOrder
<1>6. \A k \in 1 .. Cardinality(Framing) : FramedIn(Framing, k) \in Framing
  BY <1>1, FramedFacts
<1>7. Frames' = [k \in 1 .. Cardinality(Framing) |-> durable]
  <2>1. \A k \in 1 .. Cardinality(Framing) : FrameMap'[FramedIn(Framing, k)] = durable
    BY <1>4, <1>6
  <2> QED
    BY <1>5, <2>1 DEF Listed
<1>8. DOMAIN Frames = 1 .. Cardinality(Framing)
  BY <1>5 DEF Listed
<1>9. Frames' # <<>> <=> Frames # <<>>
  BY <1>1, <1>2
<1> QED
  BY <1>2, <1>7, <1>8, <1>9 DEF Nested!Lose, Nested!Inside

\* Every step of the blocks is a step of nested transactions, or none.
LEMMA StepMaps ==
    ASSUME Recommended
    PROVE  Linked /\ Linked' /\ [Next]_vars => Mapped
<1> SUFFICES ASSUME Linked, Linked', [Next]_vars PROVE Mapped
  OBVIOUS
<1>0. /\ Types /\ Disciplined /\ Books /\ Nesting /\ Depth \in Nat
  BY LinkedFacts
<1>1. ASSUME NEW k \in Kinds, EnterTransaction(k) \/ EnterSavepoint(k) PROVE Mapped
  BY <1>1, EnterTransactionMaps, EnterSavepointMaps DEF Mapped, Nested!Next
<1>2. CASE EnterInert
  <2>1. /\ EnterBlock("transaction", "inert") /\ UNCHANGED driver
        /\ "transaction" \in Kinds /\ "inert" \in Helpers \ {"txn", "save"}
    BY <1>2 DEF EnterInert, Kinds, Helpers
  <2> QED
    BY <2>1, EnterOtherMaps DEF Mapped
<1>3. CASE EnterConnection
  <2>1. /\ EnterBlock("conn", "none") /\ UNCHANGED driver
        /\ "conn" \in Kinds /\ "none" \in Helpers \ {"txn", "save"}
    BY <1>3 DEF EnterConnection, Kinds, Helpers
  <2> QED
    BY <2>1, EnterOtherMaps DEF Mapped
<1>4. ASSUME NEW err \in BOOLEAN, NEW ok \in BOOLEAN, Exit(err, ok) \/ ExitDatabase(err, ok)
      PROVE  Mapped
  BY <1>4, ExitPlainMaps, ExitDatabaseMaps
<1>5. CASE ExitConnection
  BY <1>5, ExitConnectionMaps DEF Mapped
<1>6. CASE ExitUncounted
  <2>1. /\ blocks # <<>> /\ Top(blocks).kind \in {"db", "conn"} /\ ctx = 0
        /\ LeaveBlock(FALSE)
    BY <1>6 DEF ExitUncounted
  <2>2. Top(blocks) \in Contexts
    BY <1>0, <2>1, LeaveFacts DEF Contexts
  <2>3. Cardinality(Among(Contexts)) >= 1
    BY <1>0, <2>1, <2>2, AmongLeft
  <2> QED
    BY <1>0, <2>1, <2>3 DEF Books
<1>7. CASE ExitManual
  <2>1. blocks # <<>> /\ Top(blocks).kind = "manual"
    BY <1>7 DEF ExitManual
  <2>2. Depth >= 1 /\ Top(blocks) = blocks[Depth]
    BY <1>0, <2>1, PopFacts DEF Depth, Top, Types
  <2> QED
    BY <1>0, <2>1, <2>2 DEF Nesting
<1>8. ASSUME NEW i \in Addressed, ExplicitCommit(i) \/ ExplicitRollback(i) PROVE Mapped
  <2>1. UNCHANGED blocks
    BY <1>8 DEF ExplicitCommit, ExplicitRollback
  <2>2. blocks[i].helper \in {"txn", "save"}
    BY <2>1, AddressedFacts
  <2> QED
    BY <1>8, <2>2, ExplicitTxnMaps, ExplicitSaveMaps DEF Mapped, Nested!Next
<1>9. CASE session_start \/ session_commit \/ session_rollback \/ EnterManual
  BY <1>9 DEF session_start, session_commit, session_rollback, SessionAllowed, EnterManual,
              Recommended
<1>10. CASE ManualStatement
  <2>1. txns # <<>> /\ Top(txns) = "manual"
    BY <1>10 DEF ManualStatement
  <2>2. Len(txns) \in 1 .. Len(txns) /\ Top(txns) = txns[Len(txns)]
    BY <1>0, <2>1, FirstStays, StackFacts
  <2> QED
    BY <1>0, <2>1, <2>2 DEF Books
<1>11. ASSUME NEW r \in Rows, Write(r) PROVE Mapped
  BY <1>11, WriteMaps DEF Mapped, Nested!Next
<1>12. CASE Close
  BY <1>12, CloseMaps DEF Mapped
<1>13. CASE Lose
  BY <1>13, LoseMaps DEF Mapped, Nested!Next
<1>14. CASE UNCHANGED vars
  <2>1. UNCHANGED blocks /\ UNCHANGED driver /\ alive' = alive /\ outcome' = outcome
    BY <1>14 DEF vars
  <2>2. Framing' = Framing /\ \A i \in Framing : blocks'[i] = blocks[i]
    BY <2>1 DEF Framing, Depth
  <2> QED
    BY <2>1, <2>2, AloneMaps DEF Mapped
<1> QED
  BY <1>1, <1>2, <1>3, <1>4, <1>5, <1>6, <1>7, <1>8, <1>9, <1>10, <1>11, <1>12, <1>13, <1>14
  DEF Next

\* With no block, nothing has begun.
LEMMA InitMaps == Init => Nested!Init
<1> SUFFICES ASSUME Init PROVE Nested!Init
  OBVIOUS
<1>1. Frames = <<>>
  BY LinkedInit, LinkedFacts DEF Init
<1> QED
  BY <1>1 DEF Init, Nested!Init

\* Used as the documentation recommends, and with a database that is used as a context
\* manager within a transaction only where another context counts the connection, the
\* blocks of atomic(), transaction(), savepoint() and the database do what nested
\* transactions promise: whichever block is left, however, and whenever the connection is
\* lost, each keeps its work for the enclosing one or takes back what was done since it
\* began, and nothing else.
THEOREM BlocksImplement ==
    ASSUME Recommended, "with_db_nested" \notin Ops
    PROVE  Spec => Implements
<1>1. Linked /\ Linked' /\ [Next]_vars => [Nested!Next]_(Nested!vars)
  BY StepMaps DEF Mapped
<1> QED
  BY <1>1, InitMaps, LinkedInit, LinkedNext, PTL DEF Spec, Implements, Nested!Spec

-----------------------------------------------------------------------------
(***************************************************************************)
(* What nested transactions promise, and so what the blocks keep.          *)
(***************************************************************************)

\* The stack of frames inside a block.
LEMMA FrameStack ==
    ASSUME Nested!TypeOK, Nested!Inside
    PROVE  /\ Len(Frames) \in Nat /\ Len(Frames) >= 1
           /\ Nested!Top(Frames) \in SUBSET Rows
           /\ Nested!Pop(Frames) \in Seq(SUBSET Rows)
           /\ Len(Nested!Pop(Frames)) = Len(Frames) - 1
           /\ \A i \in 1 .. Len(Frames) - 1 : Nested!Pop(Frames)[i] = Frames[i]
<1>1. Frames \in Seq(SUBSET Rows) /\ Frames # <<>>
  BY DEF Nested!TypeOK, Nested!Inside
<1>2. Nested!Top(Frames) = Top(Frames) /\ Nested!Pop(Frames) = Pop(Frames)
  BY DEF Nested!Top, Nested!Pop, Top, Pop
<1> QED
  BY <1>1, <1>2, PopFacts

\* The types of nested transactions are kept.
LEMMA NestedTypes == Nested!Spec => []Nested!TypeOK
<1>1. Nested!Init => Nested!TypeOK
  BY EmptySeq DEF Nested!Init, Nested!TypeOK
<1>2. Nested!TypeOK /\ [Nested!Next]_(Nested!vars) => Nested!TypeOK'
  <2> SUFFICES ASSUME Nested!TypeOK, [Nested!Next]_(Nested!vars) PROVE Nested!TypeOK'
    OBVIOUS
  <2>1. ASSUME NEW r \in Rows, Nested!Write(r) PROVE Nested!TypeOK'
    BY <2>1 DEF Nested!Write, Nested!TypeOK
  <2>2. CASE Nested!Enter
    BY <2>2, AppendProperties DEF Nested!Enter, Nested!TypeOK
  <2>3. CASE Nested!Commit
    <3>1. Append(Nested!Pop(Frames), work) \in Seq(SUBSET Rows)
      BY <2>3, FrameStack, AppendProperties DEF Nested!Commit, Nested!TypeOK
    <3> QED
      BY <2>3, <3>1 DEF Nested!Commit, Nested!TypeOK
  <2>4. CASE Nested!Rollback
    BY <2>4, FrameStack DEF Nested!Rollback, Nested!TypeOK
  <2>5. CASE Nested!Return
    BY <2>5, FrameStack DEF Nested!Return, Nested!TypeOK
  <2>6. CASE Nested!Raise
    BY <2>6, FrameStack DEF Nested!Raise, Nested!TypeOK
  <2>7. CASE Nested!Lose
    BY <2>7 DEF Nested!Lose, Nested!Inside, Nested!TypeOK
  <2>8. CASE UNCHANGED Nested!vars
    BY <2>8 DEF Nested!vars, Nested!TypeOK
  <2> QED
    BY <2>1, <2>2, <2>3, <2>4, <2>5, <2>6, <2>7, <2>8 DEF Nested!Next
<1> QED
  BY <1>1, <1>2, PTL DEF Nested!Spec

\* The snapshots of nested transactions are layered.
LEMMA NestedLayers == Nested!Spec => []Nested!Layered
<1>1. Nested!Init => Nested!Layered
  BY DEF Nested!Init, Nested!Layered, Nested!Inside
<1>2. Nested!TypeOK /\ Nested!Layered /\ [Nested!Next]_(Nested!vars) => Nested!Layered'
  <2> SUFFICES ASSUME Nested!TypeOK, Nested!Layered, [Nested!Next]_(Nested!vars)
               PROVE  Nested!Layered'
    OBVIOUS
  <2> USE DEF Nested!TypeOK, Nested!Layered, Nested!Inside, Nested!Top
  <2>1. ASSUME NEW r \in Rows, Nested!Write(r) PROVE Nested!Layered'
    BY <2>1 DEF Nested!Write
  <2>2. CASE Nested!Enter
    <3>1. /\ Len(Frames') = Len(Frames) + 1
          /\ Frames'[Len(Frames) + 1] = work
          /\ \A i \in 1 .. Len(Frames) : Frames'[i] = Frames[i]
          /\ Frames' # <<>>
      BY <2>2 DEF Nested!Enter
    <3> QED
      BY <2>2, <3>1 DEF Nested!Enter
  <2>3. CASE Nested!Commit
    <3>1. Nested!Inside /\ Frames' = Append(Nested!Pop(Frames), work) /\ work' = work
      BY <2>3 DEF Nested!Commit
    <3>2. /\ Len(Frames') = Len(Frames)
          /\ Frames'[Len(Frames)] = work
          /\ \A i \in 1 .. Len(Frames) - 1 : Frames'[i] = Frames[i]
      BY <3>1, FrameStack, AppendProperties
    <3>3. \A i \in 1 .. Len(Frames) - 2 : Frames[i] \subseteq Frames[i + 1]
      BY FrameStack, <3>1
    <3> QED
      BY <2>3, <3>2, FrameStack DEF Nested!Commit
  <2>4. CASE Nested!Rollback
    BY <2>4 DEF Nested!Rollback
  <2>5. CASE Nested!Return
    <3>1. Nested!Inside /\ Frames' = Nested!Pop(Frames)
      BY <2>5 DEF Nested!Return
    <3>2. CASE Len(Frames) = 1
      BY <2>5, <3>1, <3>2, FrameStack DEF Nested!Return
    <3>3. CASE Len(Frames) # 1
      <4>1. durable' = durable /\ work' = work
        BY <2>5, <3>3 DEF Nested!Return
      <4>2. /\ Len(Frames') = Len(Frames) - 1
            /\ \A i \in 1 .. Len(Frames) - 1 : Frames'[i] = Frames[i]
        BY <3>1, FrameStack
      <4>3. Len(Frames) \in Nat /\ Len(Frames) >= 1 /\ Len(Frames') >= 1
        BY <3>1, <3>3, <4>2, FrameStack
      <4> QED
        BY <3>1, <4>1, <4>2, <4>3
    <3> QED
      BY <3>2, <3>3
  <2>6. CASE Nested!Raise
    <3>1. Nested!Inside /\ Frames' = Nested!Pop(Frames)
      BY <2>6 DEF Nested!Raise
    <3>2. CASE Len(Frames) = 1
      BY <2>6, <3>1, <3>2, FrameStack DEF Nested!Raise
    <3>3. CASE Len(Frames) # 1
      BY <2>6, <3>1, <3>3, FrameStack DEF Nested!Raise
    <3> QED
      BY <3>2, <3>3
  <2>7. CASE Nested!Lose
    BY <2>7 DEF Nested!Lose
  <2>8. CASE UNCHANGED Nested!vars
    BY <2>8 DEF Nested!vars
  <2> QED
    BY <2>1, <2>2, <2>3, <2>4, <2>5, <2>6, <2>7, <2>8 DEF Nested!Next
<1> QED
  BY <1>1, <1>2, NestedTypes, PTL DEF Nested!Spec

\* An exception from the outermost of nested transactions undoes all of it.
LEMMA NestedUndo == Nested!Spec => Nested!RaiseUndoes
<1>1. Nested!TypeOK /\ Nested!Layered /\ [Nested!Next]_(Nested!vars) =>
        [Len(Frames) = 1 /\ Frames' = <<>> /\ outcome' = "raised"
            => work' = durable /\ durable' = durable]_(Nested!vars)
  <2> SUFFICES ASSUME Nested!TypeOK, Nested!Layered, Nested!Next, Len(Frames) = 1,
                      Frames' = <<>>, outcome' = "raised"
               PROVE  work' = durable /\ durable' = durable
    BY DEF Nested!vars
  <2> USE DEF Nested!TypeOK, Nested!Layered, Nested!Inside, Nested!Top
  <2>1. Frames # Frames'
    OBVIOUS
  <2>2. CASE Nested!Raise
    BY <2>2 DEF Nested!Raise
  <2>3. Frames \in Seq(SUBSET Rows) /\ work \in SUBSET Rows /\ DOMAIN Frames = 1 .. 1
    BY LenProperties
  <2>4. ASSUME NEW s \in Seq(SUBSET Rows) PROVE Append(s, work) # <<>>
    BY <2>3, AppendProperties
  <2>5. ~Nested!Commit
    BY <2>4, FrameStack DEF Nested!Commit
  <2>6. ~Nested!Enter
    BY <2>3, <2>4 DEF Nested!Enter
  <2>7. ~Nested!Lose
    <3>1. DOMAIN [i \in 1 .. 1 |-> durable] # DOMAIN Frames'
      BY 1 \in 1 .. 1, EmptySeq
    <3> QED
      BY <2>3, <3>1 DEF Nested!Lose
  <2>8. ~Nested!Return /\ ~Nested!Rollback /\ \A r \in Rows : ~Nested!Write(r)
    BY <2>1 DEF Nested!Return, Nested!Rollback, Nested!Write
  <2> QED
    BY <2>2, <2>5, <2>6, <2>7, <2>8 DEF Nested!Next
<1> QED
  BY <1>1, NestedTypes, NestedLayers, PTL DEF Nested!Spec, Nested!RaiseUndoes

\* However blocks, statements, commits, rollbacks and losses of the connection
\* alternate, the outermost block's snapshot is what another connection sees, each
\* block's is contained in the next one's, and the innermost one's in what the program
\* sees: no block that is left with an exception can take back the work of the one
\* around it.
THEOREM BlocksLayered ==
    ASSUME Recommended, "with_db_nested" \notin Ops
    PROVE  Spec => []Nested!Layered
BY BlocksImplement, NestedLayers, PTL DEF Implements

\* When the outermost block is left with an exception, the program sees what it saw
\* before the block, and nothing became durable on the way out.
THEOREM BlocksUndone ==
    ASSUME Recommended, "with_db_nested" \notin Ops
    PROVE  Spec => Nested!RaiseUndoes
BY BlocksImplement, NestedUndo, PTL DEF Implements

=============================================================================
