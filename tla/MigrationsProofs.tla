--------------------------- MODULE MigrationsProofs ---------------------------
(***************************************************************************)
(* Proofs about Migrations: history and schema agree and foreign keys are  *)
(* on again, for any number of runners, migrations, statements, commands   *)
(* and faults.                                                             *)
(***************************************************************************)
EXTENDS Migrations, SchemaMigrator, FiniteSetTheorems, SequenceTheorems, TLAPS

\* A migration has a number of statements, and no runner is called NoOne.
Sized == Statements \in Nat /\ NoOne \notin Runners

\* Only statements that define data fail when they are reverted a second time.
\* So two runners must not be able to revert the same data twice.
Revertible ==
    \/ \A n \in All : Migration[n].down => Migration[n].ddl
    \/ \A r, o \in Runners : r = o

Effects == [All -> [1 .. Statements -> Int]]
Doing == [does : {"idle", "next", "run", "fake"}, plan : SUBSET All, now : All \cup {0},
          step : Nat, way : {"up", "down"}]

TypeOK ==
    /\ files \subseteq All /\ history \subseteq All /\ effect \in Effects
    /\ before \in (SUBSET All) \X Effects
    /\ writer \in Runners \cup {NoOne}
    /\ fks \in [Runners -> BOOLEAN]
    /\ runner \in [Runners -> Doing]
    /\ \A r \in Runners : runner[r].does = "run" =>
          runner[r].now \in All /\ runner[r].step \in 1 .. Statements + 1

-----------------------------------------------------------------------------
\* The writer runs a migration in a transaction and has done a statement of it;
\* and whoever has done one in a transaction is the writer.
WriterRuns ==
    /\ writer # NoOne =>
         /\ runner[writer].does = "run" /\ Wrapped(runner[writer].now)
         /\ runner[writer].step > 1
    /\ \A r \in Runners :
         runner[r].does = "run" /\ Wrapped(runner[r].now) /\ runner[r].step > 1 => writer = r

\* A transaction has changed nothing but the effects of its migration.
OwnEffects ==
    writer # NoOne =>
        /\ before[1] = history
        /\ \A n \in All \ {runner[writer].now} : before[2][n] = effect[n]

\* All of n was applied, once, if n is in the history h; nothing of it otherwise.
Whole(n, h, e) == \A s \in 1 .. Statements : e[n][s] = IF n \in h THEN 1 ELSE 0

\* A migration that may be in the middle: it runs without a transaction, or was stopped.
Exempt(n) == ~Wrapped(n) /\ (n \in broken \/ \E r \in Runners : Runs(r, n))

\* What would be there if the open transaction were rolled back.
Kept == IF writer = NoOne THEN Db ELSE before

\* The database without the open transaction is true.
Settled == \A n \in All \ faked : Whole(n, Kept[1], Kept[2]) \/ Exempt(n)

\* Nobody disturbs a migration that is run without a transaction.
Alone ==
    \A r, o \in Runners : \A n \in All :
        Runs(r, n) /\ Runs(o, n) /\ ~Wrapped(n) /\ n \notin broken => r = o

\* Of a migration that is running, the statements before the current one are done.
Reached(me, s) == IF me.way = "up" THEN s < me.step ELSE s > Statements + 1 - me.step
Change(me) == IF me.way = "up" THEN 1 ELSE -1
Undisturbed(r) ==
    /\ runner[r].does = "run" /\ runner[r].now \notin faked
    /\ IF Wrapped(runner[r].now) THEN writer = r ELSE runner[r].now \notin broken
HalfWay(r) ==
    LET me == runner[r] IN
    \A s \in 1 .. Statements :
        effect[me.now][s] = (IF me.now \in history THEN 1 ELSE 0)
                            + (IF Reached(me, s) THEN Change(me) ELSE 0)
Partial ==
    \A r \in Runners : Undisturbed(r) =>
        /\ HalfWay(r)
        /\ runner[r].way = "down" /\ runner[r].step > 1 => runner[r].now \in history

\* What is being reverted can be.
DownsGiven ==
    \A r \in Runners : runner[r].way = "down" =>
        /\ \A n \in runner[r].plan : Migration[n].down
        /\ runner[r].does = "run" => Migration[runner[r].now].down

\* The only runner finds in the history what it planned to revert.
PlanTrue ==
    (\A r, o \in Runners : r = o) =>
        \A r \in Runners : runner[r].way = "down" =>
            /\ runner[r].does \in {"next", "run"} => runner[r].plan \subseteq history
            /\ runner[r].does = "run" =>
                 runner[r].now \in history /\ runner[r].now \notin runner[r].plan

MigrationsInv ==
    TypeOK /\ WriterRuns /\ OwnEffects /\ Settled /\ Alone /\ Partial /\ DownsGiven /\ PlanTrue

-----------------------------------------------------------------------------
\* The steps, by what they do to the database and to the runner that takes them.
Others(r) == \A o \in Runners \ {r} : runner'[o] = runner[o]
SameDb == UNCHANGED <<history, effect, before, writer, faked>>
Plans(r) == SameDb /\ broken' = broken /\ runner[r].does # "run" /\ runner'[r].does # "run" /\ Others(r)
Fakes(r, n) ==
    /\ writer = NoOne /\ history' = history \cup {n} /\ faked' = faked \cup {n}
    /\ UNCHANGED <<effect, before, writer, broken>>
    /\ runner[r].does # "run" /\ runner'[r].does # "run" /\ Others(r)
Enters(r, n) ==
    /\ SameDb /\ runner[r].does # "run" /\ Runs(r, n)' /\ runner'[r].step = 1
    /\ runner'[r].way = runner[r].way /\ Others(r)
    /\ broken \subseteq broken'
    /\ ~Wrapped(n) /\ n \notin broken' => \A o \in Runners \ {r} : ~Runs(o, n)
Falls(r) ==
    /\ runner[r].does = "run" /\ Abandoned(r) /\ UNCHANGED <<before, faked>>
    /\ runner'[r].does = "idle" /\ Others(r) /\ broken \subseteq broken'
    /\ Wrapped(runner[r].now) \/ runner[r].now \in broken'
Current(me) == IF me.way = "up" THEN me.step ELSE Statements + 1 - me.step
Does(r) ==
    LET me == runner[r] IN
    /\ me.does = "run" /\ me.step <= Statements /\ Writes(r)
    /\ ~Fails(me.now, Current(me), me.way)
    /\ effect' = [effect EXCEPT ![me.now][Current(me)] = @ + Change(me)]
    /\ runner' = [runner EXCEPT ![r].step = @ + 1]
    /\ UNCHANGED <<history, faked, broken>>
Records(r) ==
    LET me == runner[r] IN
    /\ me.does = "run" /\ me.step = Statements + 1 /\ MayWrite(r)
    /\ ~(me.way = "up" /\ me.now \in history)
    /\ history' = IF me.way = "up" THEN history \cup {me.now} ELSE history \ {me.now}
    /\ writer' = NoOne /\ runner'[r].does = "next" /\ Others(r)
    /\ UNCHANGED <<effect, before, faked, broken>>
Idles == SameDb /\ UNCHANGED <<runner, broken>>

\* A statement of r, or its history row, that does not succeed.
LEMMA RaiseFalls ==
    ASSUME TypeOK, NEW r \in Runners, runner[r].does = "run", Raise(r), UNCHANGED <<before, faked>>
    PROVE  Falls(r)
BY DEF TypeOK, Raise, Falls, Others, Idle

\* Every step is one of these.
LEMMA Kinds ==
    ASSUME TypeOK, [Next]_vars
    PROVE  \/ Idles
           \/ \E r \in Runners : Plans(r) \/ Falls(r) \/ Does(r) \/ Records(r)
           \/ \E r \in Runners : \E n \in All : Fakes(r, n) \/ Enters(r, n)
<1> DEFINE Goal == \/ Idles
                   \/ \E r \in Runners : Plans(r) \/ Falls(r) \/ Does(r) \/ Records(r)
                   \/ \E r \in Runners : \E n \in All : Fakes(r, n) \/ Enters(r, n)
<1> SUFFICES Goal
  OBVIOUS
<1> USE DEF TypeOK, Idle
<1>1. ASSUME NEW r \in Runners, NEW n \in All \cup {0}, Up(r, n) \/ Fake(r, n) PROVE Goal
  <2>1. Plans(r)
    BY <1>1 DEF Up, Fake, Plans, SameDb, Others
  <2> QED
    BY <2>1
<1>2. ASSUME NEW r \in Runners, NEW n \in All \cup {0}, Down(r, n) PROVE Goal
  <2>1. Plans(r)
    BY <1>2 DEF Down, Plans, SameDb, Others
  <2> QED
    BY <2>1
<1>3. ASSUME NEW r \in Runners, NEW n \in All, Enter(r, n) PROVE Goal
  <2>1. Enters(r, n)
    BY <1>3 DEF Enter, Enters, SameDb, Others, Runs
  <2> QED
    BY <2>1
<1>4. ASSUME NEW r \in Runners, FakeNext(r) PROVE Goal
  <2>1. CASE runner' = [runner EXCEPT ![r] = Idle] /\ UNCHANGED <<history, faked>>
    <3>1. Plans(r)
      BY <1>4, <2>1 DEF FakeNext, Plans, SameDb, Others
    <3> QED
      BY <3>1
  <2>2. ASSUME NEW n \in All \ history, history' = history \cup {n}, faked' = faked \cup {n},
               runner' = [runner EXCEPT ![r].plan = @ \ {n}]
        PROVE  Goal
    <3>1. Fakes(r, n)
      BY <1>4, <2>2 DEF FakeNext, Fakes, Others
    <3> QED
      BY <3>1
  <2> QED
    BY <1>4, <2>1, <2>2 DEF FakeNext
<1>5. ASSUME NEW r \in Runners, Ended(r) PROVE Goal
  <2>1. Plans(r)
    BY <1>5 DEF Ended, Plans, SameDb, Others
  <2> QED
    BY <2>1
<1>6. ASSUME NEW r \in Runners, Statement(r) PROVE Goal
  <2>1. Current(runner[r]) = (IF runner[r].way = "up" THEN runner[r].step
                              ELSE Statements + 1 - runner[r].step)
    BY DEF Current
  <2>2. CASE Fails(runner[r].now, Current(runner[r]), runner[r].way)
    BY <1>6, <2>1, <2>2, RaiseFalls DEF Statement
  <2>3. CASE ~Fails(runner[r].now, Current(runner[r]), runner[r].way)
    <3>1. Does(r)
      BY <1>6, <2>1, <2>3 DEF Statement, Does, Change
    <3> QED
      BY <3>1
  <2> QED
    BY <2>2, <2>3
<1>7. ASSUME NEW r \in Runners, StatementFails(r) PROVE Goal
  BY <1>7, RaiseFalls DEF StatementFails
<1>8. ASSUME NEW r \in Runners, Record(r) PROVE Goal
  <2>1. CASE runner[r].way = "up" /\ runner[r].now \in history
    BY <1>8, <2>1, RaiseFalls DEF Record
  <2>2. CASE ~(runner[r].way = "up" /\ runner[r].now \in history)
    <3> DEFINE me == runner[r]
    <3>1. /\ me.does = "run" /\ me.step = Statements + 1 /\ MayWrite(r)
          /\ history' = IF me.way = "up" THEN history \cup {me.now} ELSE history \ {me.now}
          /\ writer' = NoOne /\ runner' = [runner EXCEPT ![r].does = "next"]
          /\ UNCHANGED <<effect, before, faked, broken>>
      BY <1>8, <2>2 DEF Record
    <3>2. runner'[r].does = "next" /\ Others(r)
      BY <3>1 DEF Others
    <3>3. Records(r)
      BY <2>2, <3>1, <3>2 DEF Records
    <3> QED
      BY <3>3
  <2> QED
    BY <2>1, <2>2
<1>9. ASSUME NEW r \in Runners, Crash(r) PROVE Goal
  <2>1. CASE runner[r].does = "run"
    BY <1>9, <2>1, RaiseFalls DEF Crash
  <2>2. CASE runner[r].does # "run"
    <3>1. Plans(r)
      BY <1>9, <2>2 DEF Crash, Plans, SameDb, Others
    <3> QED
      BY <3>1
  <2> QED
    BY <2>1, <2>2
<1>10. ASSUME NEW n \in All, Forget(n) PROVE Goal
  BY <1>10 DEF Forget, Idles, SameDb
<1>11. CASE UNCHANGED vars
  BY <1>11 DEF vars, Idles, SameDb
<1> QED
  BY <1>1, <1>2, <1>3, <1>4, <1>5, <1>6, <1>7, <1>8, <1>9, <1>10, <1>11 DEF Next

-----------------------------------------------------------------------------
\* The effect of the statement at hand changes by one.
LEMMA OneMore ==
    ASSUME NEW e \in Effects, NEW n \in All, NEW s \in 1 .. Statements, NEW d \in Int
    PROVE  [e EXCEPT ![n][s] = @ + d] \in Effects
<1>1. \A S : \A f \in [S -> Int] : \A x \in S : [f EXCEPT ![x] = @ + d] \in [S -> Int]
  OBVIOUS
<1>2. [e[n] EXCEPT ![s] = @ + d] \in [1 .. Statements -> Int]
  <2>1. e[n] \in [1 .. Statements -> Int]
    BY DEF Effects
  <2> QED
    BY <1>1, <2>1
<1>3. [e EXCEPT ![n][s] = @ + d] = [e EXCEPT ![n] = [e[n] EXCEPT ![s] = @ + d]]
  OBVIOUS
<1>4. \A row \in [1 .. Statements -> Int] : [e EXCEPT ![n] = row] \in Effects
  BY DEF Effects
<1> QED
  BY <1>2, <1>3, <1>4

\* A runner that goes on is one of the same shape.
LEMMA EffectsTyped ==
    ASSUME Sized, TypeOK, NEW r \in Runners
    PROVE  /\ runner[r] \in Doing /\ Idle \in Doing
           /\ \A x \in Doing : (x.does = "run" => x.now \in All /\ x.step \in 1 .. Statements + 1) =>
                LET new == [runner EXCEPT ![r] = x] IN
                /\ new \in [Runners -> Doing]
                /\ \A o \in Runners : new[o].does = "run" =>
                      new[o].now \in All /\ new[o].step \in 1 .. Statements + 1
BY DEF Sized, TypeOK, Doing, Idle

\* What Raise does keeps the types.
LEMMA RaiseTyped ==
    ASSUME Sized, TypeOK, NEW r \in Runners, Raise(r), UNCHANGED <<files, before>>
    PROVE  TypeOK'
<1>1. history' \subseteq All /\ effect' \in Effects /\ writer' \in Runners \cup {NoOne}
  BY DEF TypeOK, Raise, Abandoned
<1>2. /\ runner' \in [Runners -> Doing]
      /\ \A o \in Runners : runner'[o].does = "run" =>
            runner'[o].now \in All /\ runner'[o].step \in 1 .. Statements + 1
  <2>1. Idle \in Doing /\ Idle.does # "run"
    BY DEF Idle, Doing
  <2>2. runner' = [runner EXCEPT ![r] = Idle]
    BY DEF Raise
  <2> QED
    BY <2>1, <2>2, EffectsTyped
<1>3. fks' \in [Runners -> BOOLEAN]
  BY DEF TypeOK, Raise
<1> QED
  BY <1>1, <1>2, <1>3 DEF TypeOK, Effects

\* Every variable keeps its type.
LEMMA TypesKept ==
    ASSUME Sized, TypeOK, [Next]_vars
    PROVE  TypeOK'
<1> DEFINE Runner(f) == /\ f \in [Runners -> Doing]
                        /\ \A o \in Runners : f[o].does = "run" =>
                              f[o].now \in All /\ f[o].step \in 1 .. Statements + 1
           Rest == /\ files' \subseteq All /\ history' \subseteq All /\ effect' \in Effects
                   /\ before' \in (SUBSET All) \X Effects
                   /\ writer' \in Runners \cup {NoOne}
                   /\ fks' \in [Runners -> BOOLEAN]
<1>1. Runner(runner') /\ Rest => TypeOK'
  BY DEF TypeOK, Effects
<1>2. Runner(runner)
  BY DEF TypeOK
<1>3. ASSUME NEW r \in Runners, NEW x \in Doing, runner' = [runner EXCEPT ![r] = x],
             x.does = "run" => x.now \in All /\ x.step \in 1 .. Statements + 1
      PROVE  Runner(runner')
  BY <1>3, EffectsTyped
<1>4. UpPlan(0) \subseteq All /\ \A n \in All \cup {0} : UpPlan(n) \subseteq All /\ DownPlan(n) \subseteq All
  BY DEF UpPlan, DownPlan, TypeOK
<1> HIDE DEF Runner
<1>5. ASSUME NEW r \in Runners, NEW n \in All \cup {0}, Up(r, n) \/ Fake(r, n) PROVE TypeOK'
  <2>1. PICK d \in {"next", "fake"} :
          runner' = [runner EXCEPT ![r] = [Idle EXCEPT !.does = d, !.plan = UpPlan(n)]]
    BY <1>5 DEF Up, Fake
  <2>2. [Idle EXCEPT !.does = d, !.plan = UpPlan(n)] \in Doing
    BY <1>4 DEF Idle, Doing
  <2>3. [Idle EXCEPT !.does = d, !.plan = UpPlan(n)].does # "run"
    BY DEF Idle
  <2>4. Runner(runner')
    BY <1>3, <2>1, <2>2, <2>3
  <2>5. Rest
    BY <1>5 DEF Up, Fake, TypeOK
  <2> QED
    BY <1>1, <2>4, <2>5
<1>6. ASSUME NEW r \in Runners, NEW n \in All \cup {0}, Down(r, n) PROVE TypeOK'
  <2>1. Rest
    BY <1>6 DEF Down, TypeOK
  <2>2. CASE runner' = runner
    BY <1>1, <1>2, <2>1, <2>2
  <2>3. CASE runner' = [runner EXCEPT ![r] =
                          [Idle EXCEPT !.does = "next", !.plan = DownPlan(n), !.way = "down"]]
    <3>1. [Idle EXCEPT !.does = "next", !.plan = DownPlan(n), !.way = "down"] \in Doing
      BY <1>4 DEF Idle, Doing
    <3>2. [Idle EXCEPT !.does = "next", !.plan = DownPlan(n), !.way = "down"].does # "run"
      BY DEF Idle
    <3> QED
      BY <1>1, <1>3, <2>1, <2>3, <3>1, <3>2
  <2> QED
    BY <1>6, <2>2, <2>3 DEF Down
<1>7. ASSUME NEW r \in Runners, NEW n \in All, Enter(r, n) PROVE TypeOK'
  <2> DEFINE me == runner[r]
             x == [does |-> "run", plan |-> me.plan \ {n}, now |-> n, step |-> 1, way |-> me.way]
  <2>1. Rest
    BY <1>7 DEF Enter, TypeOK
  <2>2. x \in Doing /\ x.now \in All /\ x.step \in 1 .. Statements + 1
    BY DEF TypeOK, Doing, Sized
  <2>3. runner' = [runner EXCEPT ![r] = x]
    BY <1>7 DEF Enter
  <2> QED
    BY <1>1, <1>3, <2>1, <2>2, <2>3
<1>8. ASSUME NEW r \in Runners, FakeNext(r) PROVE TypeOK'
  <2>1. Rest
    BY <1>8 DEF FakeNext, TypeOK
  <2>2. CASE runner' = [runner EXCEPT ![r] = Idle]
    BY <1>1, <1>3, <2>1, <2>2 DEF Idle, Doing
  <2>3. ASSUME NEW n \in All, runner' = [runner EXCEPT ![r].plan = @ \ {n}], runner[r].does = "fake"
        PROVE  TypeOK'
    <3> DEFINE x == [runner[r] EXCEPT !.plan = @ \ {n}]
    <3>1. x \in Doing /\ x.does # "run"
      BY <2>3 DEF TypeOK, Doing
    <3>2. runner' = [runner EXCEPT ![r] = x]
      BY <2>3
    <3> QED
      BY <1>1, <1>3, <2>1, <3>1, <3>2
  <2> QED
    BY <1>8, <2>2, <2>3 DEF FakeNext
<1>9. ASSUME NEW r \in Runners, Ended(r) PROVE TypeOK'
  <2>1. Rest
    BY <1>9 DEF Ended, TypeOK
  <2> QED
    BY <1>1, <1>3, <1>9, <2>1 DEF Ended, Idle, Doing
<1>10. ASSUME NEW r \in Runners, Does(r), UNCHANGED <<files, fks>> PROVE TypeOK'
  <2> DEFINE me == runner[r]
             x == [me EXCEPT !.step = @ + 1]
  <2>1. me.now \in All /\ me.step \in 1 .. Statements /\ me \in Doing
    BY <1>10 DEF Does, TypeOK, Sized
  <2>2. Current(me) \in 1 .. Statements /\ Change(me) \in Int
    BY <2>1 DEF Current, Change, Sized
  <2>3. effect' \in Effects
    <3>1. effect' = [effect EXCEPT ![me.now][Current(me)] = @ + Change(me)] /\ effect \in Effects
      BY <1>10 DEF Does, TypeOK
    <3> HIDE DEF me
    <3> QED
      BY <2>1, <2>2, <3>1, OneMore
  <2>4. Rest
    BY <1>10, <2>3 DEF Does, Writes, Db, TypeOK
  <2>5. x \in Doing /\ x.now \in All /\ x.step \in 1 .. Statements + 1
    BY <2>1 DEF Doing, Sized
  <2>6. runner' = [runner EXCEPT ![r] = x]
    BY <1>10 DEF Does
  <2> QED
    BY <1>1, <1>3, <2>4, <2>5, <2>6
<1>11. ASSUME NEW r \in Runners, Statement(r) PROVE TypeOK'
  <2>1. CASE Raise(r) /\ UNCHANGED before
    BY <1>11, <2>1, RaiseTyped DEF Statement
  <2>2. CASE ~Fails(runner[r].now, Current(runner[r]), runner[r].way)
    <3>1. Does(r) /\ UNCHANGED <<files, fks>>
      BY <1>11, <2>2 DEF Statement, Does, Change, Current
    <3> QED
      BY <1>10, <3>1
  <2> QED
    BY <1>11, <2>1, <2>2 DEF Statement, Current
<1>12. ASSUME NEW r \in Runners, StatementFails(r) PROVE TypeOK'
  BY <1>12, RaiseTyped DEF StatementFails
<1>13. ASSUME NEW r \in Runners, Record(r) PROVE TypeOK'
  <2>1. CASE runner[r].way = "up" /\ runner[r].now \in history
    BY <1>13, <2>1, RaiseTyped DEF Record
  <2>2. CASE ~(runner[r].way = "up" /\ runner[r].now \in history)
    <3> DEFINE x == [runner[r] EXCEPT !.does = "next"]
    <3>1. runner[r].now \in All
      BY <1>13 DEF Record, TypeOK
    <3>2. Rest
      BY <1>13, <2>2, <3>1 DEF Record, TypeOK
    <3>3. x \in Doing /\ x.does # "run"
      BY DEF TypeOK, Doing
    <3>4. runner' = [runner EXCEPT ![r] = x]
      BY <1>13, <2>2 DEF Record
    <3> QED
      BY <1>1, <1>3, <3>2, <3>3, <3>4
  <2> QED
    BY <2>1, <2>2
<1>14. ASSUME NEW r \in Runners, Crash(r) PROVE TypeOK'
  <2>1. CASE runner[r].does = "run"
    BY <1>14, <2>1, RaiseTyped DEF Crash
  <2>2. CASE runner[r].does # "run"
    <3>1. Rest
      BY <1>14, <2>2 DEF Crash, TypeOK
    <3> QED
      BY <1>1, <1>3, <1>14, <2>2, <3>1 DEF Crash, Idle, Doing
  <2> QED
    BY <2>1, <2>2
<1>15. ASSUME NEW n \in All, Forget(n) PROVE TypeOK'
  <2>1. Rest
    BY <1>15 DEF Forget, TypeOK
  <2> QED
    BY <1>1, <1>2, <1>15, <2>1 DEF Forget
<1>16. CASE UNCHANGED vars
  <2>1. Rest /\ runner' = runner
    BY <1>16 DEF vars, TypeOK
  <2> QED
    BY <1>1, <1>2, <2>1
<1> QED
  BY <1>5, <1>6, <1>7, <1>8, <1>9, <1>11, <1>12, <1>13, <1>14, <1>15, <1>16 DEF Next

-----------------------------------------------------------------------------
\* What a step does to the runner r and, other than that, to nobody.
LEMMA OthersRun ==
    ASSUME NEW r \in Runners, Others(r), NEW o \in Runners \ {r}, NEW n
    PROVE  Runs(o, n)' <=> Runs(o, n)
BY DEF Others, Runs

\* The current statement is one of the migration's that is not reached yet, and
\* is reached when it is done.
LEMMA CurrentNext ==
    ASSUME Sized, TypeOK, NEW r \in Runners, Does(r)
    PROVE  LET me == runner[r]
               s == Current(me)
           IN /\ me.now \in All /\ s \in 1 .. Statements /\ ~Reached(me, s)
              /\ runner'[r].now = me.now /\ runner'[r].way = me.way
              /\ runner'[r].does = "run" /\ runner'[r].step = me.step + 1
              /\ \A t \in 1 .. Statements : Reached(runner'[r], t) <=> Reached(me, t) \/ t = s
              /\ Others(r)
<1> DEFINE me == runner[r]
<1>1. /\ runner'[r].now = me.now /\ runner'[r].way = me.way
      /\ runner'[r].does = "run" /\ runner'[r].step = me.step + 1 /\ Others(r)
      /\ me.now \in All /\ me.step \in 1 .. Statements
  BY DEF Does, TypeOK, Doing, Sized, Others
<1> QED
  BY <1>1 DEF Current, Reached, Sized

\* Steps that leave the database to the others: what is kept stays.
LEMMA WriterRunsNext ==
    ASSUME Sized, TypeOK, WriterRuns, [Next]_vars
    PROVE  WriterRuns'
<1> USE DEF WriterRuns
<1>1. NoOne \notin Runners /\ writer \in Runners \cup {NoOne}
  BY DEF Sized, TypeOK
<1>2. CASE Idles
  BY <1>2 DEF Idles, SameDb, Wrapped
<1>3. ASSUME NEW r \in Runners, Plans(r) PROVE WriterRuns'
  BY <1>1, <1>3 DEF Plans, SameDb, Others, Wrapped
<1>4. ASSUME NEW r \in Runners, Falls(r) PROVE WriterRuns'
  BY <1>1, <1>4 DEF Falls, Abandoned, Others, Wrapped
<1>5. ASSUME NEW r \in Runners, Does(r) PROVE WriterRuns'
  <2> DEFINE me == runner[r]
  <2>1. /\ runner'[r].now = me.now /\ runner'[r].does = "run" /\ runner'[r].step = me.step + 1
        /\ Others(r) /\ me.step \in Nat /\ me.step >= 1
    <3>1. me.step \in 1 .. Statements + 1
      BY <1>5 DEF Does, TypeOK
    <3> QED
      BY <1>5, <3>1, CurrentNext DEF Sized
  <2>2. /\ me.does = "run" /\ writer \in {r, NoOne}
        /\ IF Wrapped(me.now) /\ writer = NoOne THEN writer' = r ELSE writer' = writer
    BY <1>5 DEF Does, Writes, MayWrite
  <2>3. \A n : Wrapped(n)' = Wrapped(n)
    BY DEF Wrapped
  <2> HIDE DEF me
  <2>4. writer' # NoOne => writer' = r /\ Wrapped(me.now)
    BY <1>1, <2>2 DEF me
  <2>5. me.step + 1 > 1
    BY <2>1
  <2>6. Wrapped(me.now) => writer' = r
    BY <1>1, <2>2
  <2>7. \A o \in Runners \ {r} : ~(runner[o].does = "run" /\ Wrapped(runner[o].now) /\ runner[o].step > 1)
    BY <1>1, <2>2
  <2> QED
    BY <1>1, <2>1, <2>3, <2>4, <2>5, <2>6, <2>7 DEF Others
<1>6. ASSUME NEW r \in Runners, Records(r) PROVE WriterRuns'
  BY <1>1, <1>6 DEF Records, MayWrite, Others, Wrapped
<1>7. ASSUME NEW r \in Runners, NEW n \in All, Fakes(r, n) PROVE WriterRuns'
  BY <1>1, <1>7 DEF Fakes, Others, Wrapped
<1>8. ASSUME NEW r \in Runners, NEW n \in All, Enters(r, n) PROVE WriterRuns'
  BY <1>1, <1>8 DEF Enters, SameDb, Others, Wrapped
<1> QED
  BY <1>2, <1>3, <1>4, <1>5, <1>6, <1>7, <1>8, Kinds

\* A transaction goes on changing only what is its own.
LEMMA OwnEffectsNext ==
    ASSUME Sized, TypeOK, WriterRuns, OwnEffects, [Next]_vars
    PROVE  OwnEffects'
<1> USE DEF OwnEffects
<1>1. NoOne \notin Runners /\ writer \in Runners \cup {NoOne}
  BY DEF Sized, TypeOK
<1>2. CASE Idles
  BY <1>2 DEF Idles, SameDb
<1>3. ASSUME NEW r \in Runners, SameDb, Others(r), runner[r].does # "run" PROVE OwnEffects'
  BY <1>1, <1>3 DEF SameDb, Others, WriterRuns
<1>4. ASSUME NEW r \in Runners, Falls(r) PROVE OwnEffects'
  BY <1>1, <1>4 DEF Falls, Abandoned, Others
<1>5. ASSUME NEW r \in Runners, Does(r) PROVE OwnEffects'
  <2> DEFINE me == runner[r]
  <2>1. runner'[r].now = me.now /\ me.now \in All /\ Others(r)
    BY <1>5, CurrentNext
  <2>2. \A n \in All \ {me.now} : effect'[n] = effect[n]
    BY <1>5 DEF Does, TypeOK, Effects
  <2>3. history' = history
    BY <1>5 DEF Does
  <2>4. CASE Wrapped(me.now) /\ writer = NoOne
    <3>1. writer' = r /\ before' = <<history, effect>>
      BY <1>5, <2>4 DEF Does, Writes, Db
    <3> QED
      BY <2>1, <2>2, <2>3, <3>1
  <2>5. CASE ~(Wrapped(me.now) /\ writer = NoOne)
    <3>1. writer' = writer /\ before' = before /\ writer \in {r, NoOne}
      BY <1>5, <2>5 DEF Does, Writes, MayWrite
    <3> QED
      BY <2>1, <2>2, <2>3, <3>1
  <2> QED
    BY <2>4, <2>5
<1>6. ASSUME NEW r \in Runners, Records(r) PROVE OwnEffects'
  BY <1>6 DEF Records
<1>7. ASSUME NEW r \in Runners, NEW n \in All, Fakes(r, n) PROVE OwnEffects'
  BY <1>7 DEF Fakes
<1> QED
  BY <1>2, <1>3, <1>4, <1>5, <1>6, <1>7, Kinds DEF Plans, Enters

\* Nobody begins to disturb a migration without a transaction but for breaking it.
LEMMA AloneNext ==
    ASSUME Sized, TypeOK, Alone, [Next]_vars
    PROVE  Alone'
<1> USE DEF Alone
<1>1. ASSUME NEW r \in Runners, Others(r), runner'[r].does # "run", broken \subseteq broken'
      PROVE  Alone'
  BY <1>1 DEF Others, Runs, Wrapped
<1>2. CASE Idles
  BY <1>2 DEF Idles, Runs, Wrapped
<1>3. ASSUME NEW r \in Runners, Does(r) PROVE Alone'
  <2>1. \A o \in Runners : runner'[o].does = runner[o].does /\ runner'[o].now = runner[o].now
    BY <1>3, CurrentNext DEF Does, Others
  <2> QED
    BY <1>3, <2>1 DEF Does, Runs, Wrapped
<1>4. ASSUME NEW r \in Runners, NEW n \in All, Enters(r, n) PROVE Alone'
  <2>1. \A o \in Runners \ {r} : \A k : Runs(o, k)' = Runs(o, k)
    BY <1>4 DEF Enters, Others, Runs
  <2>2. \A k : Runs(r, k)' => k = n
    BY <1>4 DEF Enters, Runs
  <2> QED
    BY <1>4, <2>1, <2>2 DEF Enters, Wrapped
<1> QED
  BY <1>1, <1>2, <1>3, <1>4, Kinds DEF Plans, Falls, Records, Fakes

-----------------------------------------------------------------------------
\* A migration that is no longer exempt was run by the one that took the step.
LEMMA ExemptStays ==
    ASSUME NEW r \in Runners, Others(r), broken \subseteq broken', NEW n \in All,
           Exempt(n), ~Runs(r, n) \/ Runs(r, n)' \/ Wrapped(n) \/ n \in broken'
    PROVE  Exempt(n)'
BY DEF Exempt, Others, Runs, Wrapped

\* The statements of a migration that is undisturbed are where its runner is,
\* the first one included.
LEMMA HalfWayBefore ==
    ASSUME Sized, TypeOK, WriterRuns, Settled, Partial, NEW r \in Runners,
           Does(r), Undisturbed(r)'
    PROVE  /\ HalfWay(r)
           /\ runner[r].step > 1 => Undisturbed(r)
<1> DEFINE me == runner[r]
<1>1. me.now \in All /\ me.does = "run" /\ runner'[r].now = me.now /\ me.step \in 1 .. Statements
  BY CurrentNext DEF Does, TypeOK, Sized
<1>2. me.now \notin faked /\ (~Wrapped(me.now) => me.now \notin broken)
  BY <1>1 DEF Undisturbed, Does, Wrapped
<1>3. CASE Undisturbed(r)
  BY <1>3 DEF Partial
<1>4. CASE ~Undisturbed(r)
  <2>1. Wrapped(me.now) /\ writer # r
    BY <1>1, <1>2, <1>4 DEF Undisturbed
  <2>2. writer = NoOne
    BY <2>1 DEF Does, Writes, MayWrite
  <2>3. me.step = 1
    BY <1>1, <2>1 DEF WriterRuns, Sized
  <2>4. Whole(me.now, history, effect)
    BY <1>1, <1>2, <2>1, <2>2 DEF Settled, Kept, Db, Exempt
  <2>5. \A s \in 1 .. Statements : ~Reached(me, s)
    BY <2>3 DEF Reached, Sized
  <2>6. HalfWay(r)
    <3>1. \A s \in 1 .. Statements : effect[me.now][s] = IF me.now \in history THEN 1 ELSE 0
      BY <2>4 DEF Whole
    <3> QED
      BY <2>5, <3>1 DEF HalfWay
  <2> QED
    BY <2>3, <2>6
<1> QED
  BY <1>3, <1>4

\* A migration that is recorded without having been disturbed is there as a whole.
LEMMA RecordedWhole ==
    ASSUME Sized, TypeOK, WriterRuns, Partial, NEW r \in Runners, Records(r),
           runner[r].now \notin faked, Wrapped(runner[r].now) \/ runner[r].now \notin broken
    PROVE  Whole(runner[r].now, history', effect')
<1> DEFINE me == runner[r]
<1>1. me.does = "run" /\ me.step = Statements + 1 /\ me.now \in All /\ writer \in {r, NoOne}
      /\ me.way \in {"up", "down"} /\ effect' = effect
  BY DEF Records, MayWrite, TypeOK, Doing
<1>2. CASE Statements = 0
  BY <1>2 DEF Whole
<1>3. CASE Statements # 0
  <2>1. me.step > 1
    BY <1>1, <1>3 DEF Sized
  <2>2. Undisturbed(r)
    BY <1>1, <2>1 DEF WriterRuns, Undisturbed
  <2>3. HalfWay(r) /\ (me.way = "down" => me.now \in history)
    BY <2>1, <2>2 DEF Partial
  <2>4. \A s \in 1 .. Statements : Reached(me, s)
    BY <1>1 DEF Reached, Sized
  <2>5. \A s \in 1 .. Statements :
          effect[me.now][s] = (IF me.now \in history THEN 1 ELSE 0) + Change(me)
    BY <2>3, <2>4 DEF HalfWay
  <2>6. CASE me.way = "up"
    <3>1. me.now \notin history /\ history' = history \cup {me.now}
      BY <2>6 DEF Records
    <3> QED
      BY <1>1, <2>5, <2>6, <3>1 DEF Whole, Change
  <2>7. CASE me.way = "down"
    <3>1. me.now \in history /\ history' = history \ {me.now}
      BY <2>3, <2>7 DEF Records
    <3> QED
      BY <1>1, <2>5, <2>7, <3>1 DEF Whole, Change
  <2> QED
    BY <1>1, <2>6, <2>7
<1> QED
  BY <1>2, <1>3

\* The database without the open transaction stays true.
LEMMA SettledNext ==
    ASSUME Sized, TypeOK, WriterRuns, OwnEffects, Settled, Partial, [Next]_vars
    PROVE  Settled'
<1>0. NoOne \notin Runners /\ writer \in Runners \cup {NoOne}
  BY DEF Sized, TypeOK
<1>1. ASSUME NEW r \in Runners, Others(r), broken \subseteq broken', faked \subseteq faked',
             ~\E n \in All : Runs(r, n) /\ ~Runs(r, n)' /\ ~Wrapped(n) /\ n \notin broken',
             \A n \in All \ faked' :
                Whole(n, Kept[1], Kept[2]) => Whole(n, Kept'[1], Kept'[2]) \/ Exempt(n)'
      PROVE  Settled'
  <2> SUFFICES ASSUME NEW n \in All \ faked' PROVE Whole(n, Kept'[1], Kept'[2]) \/ Exempt(n)'
    BY DEF Settled, Whole
  <2>1. CASE Exempt(n)
    BY <1>1, <2>1, ExemptStays
  <2>2. CASE Whole(n, Kept[1], Kept[2])
    BY <1>1, <2>2
  <2> QED
    BY <1>1, <2>1, <2>2 DEF Settled
<1>2. CASE Idles
  BY <1>2 DEF Idles, SameDb, Settled, Whole, Kept, Db, Exempt, Runs, Wrapped
<1>3. ASSUME NEW r \in Runners, Plans(r) PROVE Settled'
  <2>1. Kept' = Kept
    BY <1>3 DEF Plans, SameDb, Kept, Db
  <2> QED
    BY <1>1, <1>3, <2>1 DEF Plans, SameDb, Runs
<1>4. ASSUME NEW r \in Runners, Falls(r) PROVE Settled'
  <2>1. Kept'[1] = Kept[1] /\ Kept'[2] = Kept[2]
    BY <1>0, <1>4 DEF Falls, Abandoned, Kept, Db
  <2> QED
    BY <1>1, <1>4, <2>1 DEF Falls, Runs, Whole
<1>5. ASSUME NEW r \in Runners, Does(r) PROVE Settled'
  <2> DEFINE me == runner[r]
  <2>1. /\ runner'[r].now = me.now /\ runner'[r].does = "run" /\ Others(r)
        /\ me.does = "run" /\ me.now \in All
    BY <1>5, CurrentNext DEF Does
  <2>2. history' = history /\ broken' = broken /\ faked' = faked
        /\ writer \in {r, NoOne}
    BY <1>5 DEF Does, Writes, MayWrite
  <2>3. CASE Wrapped(me.now)
    <3>1. CASE writer = NoOne
      <4>1. writer' = r /\ before' = Db
        BY <1>5, <2>3, <3>1 DEF Does, Writes
      <4> QED
        BY <1>0, <1>1, <2>1, <2>2, <3>1, <4>1 DEF Kept, Runs
    <3>2. CASE writer = r
      <4>1. writer' = r /\ before' = before
        BY <1>0, <1>5, <3>2 DEF Does, Writes
      <4> QED
        BY <1>0, <1>1, <2>1, <2>2, <3>2, <4>1 DEF Kept, Runs
    <3> QED
      BY <2>2, <3>1, <3>2
  <2>4. CASE ~Wrapped(me.now)
    <3>1. writer = NoOne /\ writer' = NoOne
      BY <1>0, <1>5, <2>2, <2>4 DEF WriterRuns, Does, Writes
    <3>2. \A n \in All \ {me.now} : effect'[n] = effect[n]
      BY <1>5 DEF Does, TypeOK, Effects
    <3>3. ASSUME NEW n \in All, n = me.now PROVE Exempt(n)'
      BY <2>1, <2>4, <3>3 DEF Exempt, Runs, Wrapped
    <3>4. ASSUME NEW n \in All, Whole(n, Kept[1], Kept[2])
          PROVE  Whole(n, Kept'[1], Kept'[2]) \/ Exempt(n)'
      <4>1. Kept[1] = history /\ Kept[2] = effect /\ Kept'[1] = history /\ Kept'[2] = effect'
        BY <2>2, <3>1 DEF Kept, Db
      <4>2. CASE n # me.now
        BY <3>2, <3>4, <4>1, <4>2 DEF Whole
      <4> QED
        BY <3>3, <4>2
    <3> QED
      BY <1>1, <2>1, <2>2, <3>4 DEF Runs
  <2> QED
    BY <2>3, <2>4
<1>6. ASSUME NEW r \in Runners, Records(r) PROVE Settled'
  <2> DEFINE m == runner[r].now
  <2>1. /\ writer' = NoOne /\ effect' = effect /\ broken' = broken /\ faked' = faked
        /\ writer \in {r, NoOne} /\ Others(r) /\ runner'[r].does = "next" /\ runner[r].does = "run"
        /\ \A n \in All \ {m} : n \in history' <=> n \in history
    BY <1>6 DEF Records, MayWrite
  <2>2. Kept'[1] = history' /\ Kept'[2] = effect
    BY <2>1 DEF Kept, Db
  <2> SUFFICES ASSUME NEW n \in All \ faked' PROVE Whole(n, history', effect) \/ Exempt(n)'
    BY <2>2 DEF Settled, Whole
  <2>3. CASE n = m
    <3>1. CASE Wrapped(m) \/ m \notin broken
      BY <1>6, <2>1, <2>3, <3>1, RecordedWhole
    <3>2. CASE ~Wrapped(m) /\ m \in broken
      BY <2>1, <2>3, <3>2 DEF Exempt, Wrapped
    <3> QED
      BY <3>1, <3>2
  <2>4. CASE n # m
    <3>1. CASE Exempt(n)
      BY <2>1, <2>4, <3>1, ExemptStays DEF Runs
    <3>2. CASE Whole(n, Kept[1], Kept[2])
      <4>1. Whole(n, history, effect)
        BY <2>1, <2>4, <3>2 DEF Kept, Db, OwnEffects, Whole
      <4> QED
        BY <2>1, <2>4, <4>1 DEF Whole
    <3> QED
      BY <2>1, <3>1, <3>2 DEF Settled
  <2> QED
    BY <2>3, <2>4
<1>7. ASSUME NEW r \in Runners, NEW m \in All, Fakes(r, m) PROVE Settled'
  <2>1. Kept[1] = history /\ Kept[2] = effect /\ Kept'[1] = history' /\ Kept'[2] = effect'
    BY <1>7 DEF Fakes, Kept, Db
  <2>2. \A n \in All \ faked' : Whole(n, Kept[1], Kept[2]) => Whole(n, Kept'[1], Kept'[2])
    BY <1>7, <2>1 DEF Fakes, Whole
  <2> QED
    BY <1>1, <1>7, <2>2 DEF Fakes, Runs
<1>8. ASSUME NEW r \in Runners, NEW n \in All, Enters(r, n) PROVE Settled'
  <2>1. Kept' = Kept
    BY <1>8 DEF Enters, SameDb, Kept, Db
  <2> QED
    BY <1>1, <1>8, <2>1 DEF Enters, SameDb, Runs
<1> QED
  BY <1>2, <1>3, <1>4, <1>5, <1>6, <1>7, <1>8, Kinds

-----------------------------------------------------------------------------
\* What is planned to be reverted can be reverted, also while it is being done.
LEMMA DownsGivenNext ==
    ASSUME TypeOK, DownsGiven, [Next]_vars
    PROVE  DownsGiven'
<1> DEFINE Given(me) == me.way = "down" =>
             /\ \A n \in me.plan : Migration[n].down
             /\ me.does = "run" => Migration[me.now].down
<1>1. \A r \in Runners : Given(runner[r])
  BY DEF DownsGiven
<1>2. ASSUME NEW r \in Runners, NEW x, runner' = [runner EXCEPT ![r] = x], Given(x)
      PROVE  DownsGiven'
  BY <1>1, <1>2 DEF DownsGiven, TypeOK
<1>3. CASE runner' = runner
  BY <1>1, <1>3 DEF DownsGiven
<1>4. Given(Idle)
  BY DEF Idle
<1> HIDE DEF Given
<1>5. ASSUME NEW r \in Runners, NEW n \in All \cup {0}, Up(r, n) \/ Fake(r, n) PROVE DownsGiven'
  <2>1. PICK d \in {"next", "fake"} :
          runner' = [runner EXCEPT ![r] = [Idle EXCEPT !.does = d, !.plan = UpPlan(n)]]
    BY <1>5 DEF Up, Fake
  <2>2. Given([Idle EXCEPT !.does = d, !.plan = UpPlan(n)])
    BY DEF Given, Idle
  <2> QED
    BY <1>2, <2>1, <2>2
<1>6. ASSUME NEW r \in Runners, NEW n \in All \cup {0}, Down(r, n) PROVE DownsGiven'
  <2> DEFINE x == [Idle EXCEPT !.does = "next", !.plan = DownPlan(n), !.way = "down"]
  <2>1. CASE \E k \in DownPlan(n) : k \notin files \/ ~Migration[k].down
    BY <1>3, <1>6, <2>1 DEF Down
  <2>2. CASE ~\E k \in DownPlan(n) : k \notin files \/ ~Migration[k].down
    <3>1. Given(x)
      BY <2>2 DEF Given, Idle
    <3>2. runner' = [runner EXCEPT ![r] = x]
      BY <1>6, <2>2 DEF Down
    <3> QED
      BY <1>2, <3>1, <3>2
  <2> QED
    BY <2>1, <2>2
<1>7. ASSUME NEW r \in Runners, NEW n \in All, Enter(r, n) PROVE DownsGiven'
  <2> DEFINE me == runner[r]
             x == [does |-> "run", plan |-> me.plan \ {n}, now |-> n, step |-> 1, way |-> me.way]
  <2>1. runner' = [runner EXCEPT ![r] = x] /\ n \in me.plan
    BY <1>7 DEF Enter, Foremost
  <2>2. Given(x)
    BY <1>1, <2>1 DEF Given
  <2> QED
    BY <1>2, <2>1, <2>2
<1>8. ASSUME NEW r \in Runners, FakeNext(r) PROVE DownsGiven'
  <2>1. CASE runner' = [runner EXCEPT ![r] = Idle]
    BY <1>2, <1>4, <2>1
  <2>2. ASSUME NEW n \in All, runner' = [runner EXCEPT ![r].plan = @ \ {n}] PROVE DownsGiven'
    <3>1. Given([runner[r] EXCEPT !.plan = @ \ {n}])
      BY <1>1 DEF Given, TypeOK, Doing
    <3>2. runner' = [runner EXCEPT ![r] = [runner[r] EXCEPT !.plan = @ \ {n}]]
      BY <2>2
    <3> QED
      BY <1>2, <3>1, <3>2
  <2> QED
    BY <1>8, <2>1, <2>2 DEF FakeNext
<1>9. ASSUME NEW r \in Runners, runner' = [runner EXCEPT ![r] = Idle] PROVE DownsGiven'
  BY <1>2, <1>4, <1>9
<1>10. ASSUME NEW r \in Runners, Statement(r) PROVE DownsGiven'
  <2>1. CASE runner' = [runner EXCEPT ![r].step = @ + 1]
    <3>1. Given([runner[r] EXCEPT !.step = @ + 1])
      BY <1>1 DEF Given, TypeOK, Doing
    <3> QED
      BY <1>2, <2>1, <3>1
  <2> QED
    BY <1>9, <1>10, <2>1 DEF Statement, Raise
<1>11. ASSUME NEW r \in Runners, Record(r) PROVE DownsGiven'
  <2>1. CASE runner' = [runner EXCEPT ![r].does = "next"]
    <3>1. Given([runner[r] EXCEPT !.does = "next"])
      BY <1>1 DEF Given, TypeOK, Doing
    <3> QED
      BY <1>2, <2>1, <3>1
  <2> QED
    BY <1>9, <1>11, <2>1 DEF Record, Raise
<1>12. ASSUME NEW r \in Runners, Ended(r) \/ StatementFails(r) \/ Crash(r) PROVE DownsGiven'
  BY <1>9, <1>12 DEF Ended, StatementFails, Crash, Raise
<1>13. ASSUME NEW n \in All, Forget(n) PROVE DownsGiven'
  BY <1>3, <1>13 DEF Forget
<1>14. CASE UNCHANGED vars
  BY <1>3, <1>14 DEF vars
<1> QED
  BY <1>5, <1>6, <1>7, <1>8, <1>10, <1>11, <1>12, <1>13, <1>14 DEF Next

\* Nobody takes from the history what the only runner is to revert.
LEMMA PlanTrueNext ==
    ASSUME Sized, TypeOK, PlanTrue, [Next]_vars
    PROVE  PlanTrue'
<1> SUFFICES ASSUME \A r, o \in Runners : r = o PROVE PlanTrue'
  BY DEF PlanTrue
<1> DEFINE Sure(me, h) == me.way = "down" =>
             /\ me.does \in {"next", "run"} => me.plan \subseteq h
             /\ me.does = "run" => me.now \in h /\ me.now \notin me.plan
<1>1. \A r \in Runners : Sure(runner[r], history)
  BY DEF PlanTrue
<1>2. ASSUME NEW r \in Runners, NEW x, runner' = [runner EXCEPT ![r] = x], Sure(x, history')
      PROVE  PlanTrue'
  BY <1>2 DEF PlanTrue, TypeOK
<1>3. CASE runner' = runner /\ history' = history
  BY <1>1, <1>3 DEF PlanTrue
<1>4. Sure(Idle, history')
  BY DEF Idle
<1> HIDE DEF Sure
<1>5. ASSUME NEW r \in Runners, NEW n \in All \cup {0}, Up(r, n) \/ Fake(r, n) PROVE PlanTrue'
  <2>1. PICK d \in {"next", "fake"} :
          runner' = [runner EXCEPT ![r] = [Idle EXCEPT !.does = d, !.plan = UpPlan(n)]]
    BY <1>5 DEF Up, Fake
  <2>2. Sure([Idle EXCEPT !.does = d, !.plan = UpPlan(n)], history')
    BY DEF Sure, Idle
  <2> QED
    BY <1>2, <2>1, <2>2
<1>6. ASSUME NEW r \in Runners, NEW n \in All \cup {0}, Down(r, n) PROVE PlanTrue'
  <2> DEFINE x == [Idle EXCEPT !.does = "next", !.plan = DownPlan(n), !.way = "down"]
  <2>1. history' = history
    BY <1>6 DEF Down
  <2>2. CASE \E k \in DownPlan(n) : k \notin files \/ ~Migration[k].down
    BY <1>3, <1>6, <2>1, <2>2 DEF Down
  <2>3. CASE ~\E k \in DownPlan(n) : k \notin files \/ ~Migration[k].down
    <3>1. Sure(x, history')
      BY <2>1 DEF Sure, Idle, DownPlan
    <3>2. runner' = [runner EXCEPT ![r] = x]
      BY <1>6, <2>3 DEF Down
    <3> QED
      BY <1>2, <3>1, <3>2
  <2> QED
    BY <2>2, <2>3
<1>7. ASSUME NEW r \in Runners, NEW n \in All, Enter(r, n) PROVE PlanTrue'
  <2> DEFINE me == runner[r]
             x == [does |-> "run", plan |-> me.plan \ {n}, now |-> n, step |-> 1, way |-> me.way]
  <2>1. /\ runner' = [runner EXCEPT ![r] = x] /\ n \in me.plan /\ me.does = "next"
        /\ history' = history
    BY <1>7 DEF Enter, Foremost
  <2>2. Sure(x, history')
    BY <1>1, <2>1 DEF Sure
  <2> QED
    BY <1>2, <2>1, <2>2
<1>8. ASSUME NEW r \in Runners, FakeNext(r) PROVE PlanTrue'
  <2>1. CASE runner' = [runner EXCEPT ![r] = Idle]
    BY <1>2, <1>4, <2>1
  <2>2. ASSUME NEW n \in All, runner' = [runner EXCEPT ![r].plan = @ \ {n}] PROVE PlanTrue'
    <3>1. Sure([runner[r] EXCEPT !.plan = @ \ {n}], history')
      BY <1>8 DEF FakeNext, Sure, TypeOK, Doing
    <3>2. runner' = [runner EXCEPT ![r] = [runner[r] EXCEPT !.plan = @ \ {n}]]
      BY <2>2
    <3> QED
      BY <1>2, <3>1, <3>2
  <2> QED
    BY <1>8, <2>1, <2>2 DEF FakeNext
<1>9. ASSUME NEW r \in Runners, runner' = [runner EXCEPT ![r] = Idle] PROVE PlanTrue'
  BY <1>2, <1>4, <1>9
<1>10. ASSUME NEW r \in Runners, Statement(r) PROVE PlanTrue'
  <2>1. CASE runner' = [runner EXCEPT ![r].step = @ + 1] /\ history' = history
    <3>1. Sure([runner[r] EXCEPT !.step = @ + 1], history')
      BY <1>1, <2>1 DEF Sure, TypeOK, Doing
    <3> QED
      BY <1>2, <2>1, <3>1
  <2> QED
    BY <1>9, <1>10, <2>1 DEF Statement, Raise
<1>11. ASSUME NEW r \in Runners, Record(r) PROVE PlanTrue'
  <2>1. CASE Raise(r)
    BY <1>9, <2>1 DEF Raise
  <2>2. CASE ~(runner[r].way = "up" /\ runner[r].now \in history)
    <3> DEFINE x == [runner[r] EXCEPT !.does = "next"]
    <3>1. /\ runner' = [runner EXCEPT ![r] = x] /\ runner[r].does = "run"
          /\ runner[r].way = "down" => history' = history \ {runner[r].now}
      BY <1>11, <2>2 DEF Record, TypeOK
    <3>2. Sure(x, history')
      BY <1>1, <3>1 DEF Sure, TypeOK, Doing
    <3> QED
      BY <1>2, <3>1, <3>2
  <2> QED
    BY <1>11, <2>1, <2>2 DEF Record
<1>12. ASSUME NEW r \in Runners, Ended(r) \/ StatementFails(r) \/ Crash(r) PROVE PlanTrue'
  BY <1>9, <1>12 DEF Ended, StatementFails, Crash, Raise
<1>13. ASSUME NEW n \in All, Forget(n) PROVE PlanTrue'
  BY <1>3, <1>13 DEF Forget
<1>14. CASE UNCHANGED vars
  BY <1>3, <1>14 DEF vars
<1> QED
  BY <1>5, <1>6, <1>7, <1>8, <1>10, <1>11, <1>12, <1>13, <1>14 DEF Next

-----------------------------------------------------------------------------
\* One more statement: the runner's effects move on with it.
LEMMA HalfWayOn ==
    ASSUME Sized, TypeOK, WriterRuns, Settled, Partial, DownsGiven, PlanTrue, Revertible,
           NEW r \in Runners, Does(r), Undisturbed(r)'
    PROVE  /\ HalfWay(r)'
           /\ runner'[r].way = "down" /\ runner'[r].step > 1 => runner'[r].now \in history'
<1> DEFINE me == runner[r]
           s0 == Current(me)
<1>1. /\ me.now \in All /\ s0 \in 1 .. Statements /\ ~Reached(me, s0)
      /\ runner'[r].now = me.now /\ runner'[r].way = me.way
      /\ \A t \in 1 .. Statements : Reached(runner'[r], t) <=> Reached(me, t) \/ t = s0
      /\ history' = history /\ me.does = "run" /\ me.step \in 1 .. Statements
      /\ ~Fails(me.now, s0, me.way)
  <2>1. history' = history /\ me.does = "run" /\ ~Fails(me.now, s0, me.way)
    BY DEF Does
  <2>2. me.step \in 1 .. Statements
    BY DEF Does, TypeOK, Sized
  <2> QED
    BY <2>1, <2>2, CurrentNext
<1>2. /\ \A s \in 1 .. Statements :
            effect[me.now][s] = (IF me.now \in history THEN 1 ELSE 0)
                                + (IF Reached(me, s) THEN Change(me) ELSE 0)
      /\ me.step > 1 => Undisturbed(r)
  BY HalfWayBefore DEF HalfWay
<1>3. /\ effect'[me.now][s0] = effect[me.now][s0] + Change(me)
      /\ \A s \in (1 .. Statements) \ {s0} : effect'[me.now][s] = effect[me.now][s]
  <2>1. effect' = [effect EXCEPT ![me.now][s0] = @ + Change(me)]
    BY DEF Does
  <2>2. effect \in [All -> [1 .. Statements -> Int]]
    BY DEF TypeOK, Effects
  <2> HIDE DEF s0, me
  <2> QED
    BY <1>1, <2>1, <2>2
<1>4. Change(runner'[r]) = Change(me) /\ Change(me) \in Int
  BY <1>1 DEF Change
<1>5. HalfWay(r)'
  <2> SUFFICES ASSUME NEW s \in 1 .. Statements
               PROVE  effect'[me.now][s] = (IF me.now \in history THEN 1 ELSE 0)
                                + (IF Reached(runner'[r], s) THEN Change(me) ELSE 0)
    BY <1>1, <1>4 DEF HalfWay
  <2>1. CASE s = s0
    BY <1>1, <1>2, <1>3, <1>4, <2>1
  <2>2. CASE s # s0
    BY <1>1, <1>2, <1>3, <2>2
  <2> QED
    BY <2>1, <2>2
<1>6. ASSUME me.way = "down" PROVE me.now \in history
  <2>1. CASE me.step > 1
    BY <1>2, <1>6, <2>1 DEF Partial
  <2>2. CASE \A r1, o1 \in Runners : r1 = o1
    BY <1>1, <1>6, <2>2 DEF PlanTrue
  <2>3. CASE \A n \in All : Migration[n].down => Migration[n].ddl
    <3>1. Migration[me.now].ddl
      BY <1>1, <1>6, <2>3 DEF DownsGiven
    <3>2. effect[me.now][s0] # 0
      BY <1>1, <1>6, <3>1 DEF Fails
    <3> QED
      BY <1>1, <1>2, <3>2
  <2> QED
    BY <2>2, <2>3 DEF Revertible
<1> QED
  BY <1>1, <1>5, <1>6

\* A migration that is running has the effects of its statements up to the current one.
LEMMA PartialNext ==
    ASSUME Sized, TypeOK, WriterRuns, OwnEffects, Settled, Alone, Partial, DownsGiven, PlanTrue,
           Revertible, [Next]_vars
    PROVE  Partial'
<1>0. NoOne \notin Runners /\ writer \in Runners \cup {NoOne}
  BY DEF Sized, TypeOK
<1>1. ASSUME NEW o \in Runners, runner'[o] = runner[o], runner[o].now \in All,
             runner[o].now \in history' <=> runner[o].now \in history,
             effect'[runner[o].now] = effect[runner[o].now], HalfWay(o)
      PROVE  HalfWay(o)'
  BY <1>1 DEF HalfWay, Reached, Change
<1>2. ASSUME NEW r \in Runners, Others(r),
             \A o \in Runners \ {r} : Undisturbed(o)' =>
                /\ Undisturbed(o) /\ effect'[runner[o].now] = effect[runner[o].now]
                /\ runner[o].now \in history' <=> runner[o].now \in history,
             Undisturbed(r)' =>
                /\ HalfWay(r)'
                /\ runner'[r].way = "down" /\ runner'[r].step > 1 => runner'[r].now \in history'
      PROVE  Partial'
  <2> SUFFICES ASSUME NEW o \in Runners, Undisturbed(o)'
               PROVE  /\ HalfWay(o)'
                      /\ runner'[o].way = "down" /\ runner'[o].step > 1 => runner'[o].now \in history'
    BY DEF Partial
  <2>1. CASE o = r
    BY <1>2, <2>1
  <2>2. CASE o # r
    <3>1. Undisturbed(o) /\ runner'[o] = runner[o] /\ runner[o].now \in All
      BY <1>2, <2>2 DEF Others, Undisturbed, TypeOK
    <3> QED
      BY <1>1, <1>2, <2>2, <3>1 DEF Partial
  <2> QED
    BY <2>1, <2>2
<1>3. CASE Idles
  BY <1>3 DEF Idles, SameDb, Partial, Undisturbed, HalfWay, Reached, Change, Wrapped
<1>4. ASSUME NEW r \in Runners, Plans(r) PROVE Partial'
  <2>1. ~Undisturbed(r)'
    BY <1>4 DEF Plans, Undisturbed
  <2>2. \A o \in Runners \ {r} : Undisturbed(o)' => Undisturbed(o)
    BY <1>4 DEF Plans, SameDb, Others, Undisturbed, Wrapped
  <2> QED
    BY <1>2, <1>4, <2>1, <2>2 DEF Plans, SameDb
<1>5. ASSUME NEW r \in Runners, Falls(r) PROVE Partial'
  <2>1. ~Undisturbed(r)'
    BY <1>5 DEF Falls, Undisturbed
  <2>2. Others(r) /\ broken \subseteq broken' /\ faked' = faked
    BY <1>5 DEF Falls
  <2>3. ASSUME NEW o \in Runners \ {r}, Undisturbed(o)' PROVE Undisturbed(o)
    BY <1>0, <1>5, <2>2, <2>3 DEF Falls, Abandoned, Others, Undisturbed, Wrapped
  <2>4. ASSUME NEW o \in Runners \ {r}, Undisturbed(o)'
        PROVE  /\ effect'[runner[o].now] = effect[runner[o].now]
               /\ runner[o].now \in history' <=> runner[o].now \in history
    <3>1. CASE writer # r
      BY <1>5, <3>1 DEF Falls, Abandoned
    <3>2. CASE writer = r
      <4>1. history' = before[1] /\ effect' = before[2] /\ writer' = NoOne
        BY <1>5, <3>2 DEF Falls, Abandoned
      <4>2. Wrapped(runner[r].now)
        BY <1>0, <3>2 DEF WriterRuns
      <4>3. runner[o].now \in All /\ ~Wrapped(runner[o].now)
        BY <1>0, <2>2, <2>3, <2>4, <4>1 DEF Undisturbed, TypeOK, Others, Wrapped
      <4> QED
        BY <1>0, <3>2, <4>1, <4>2, <4>3 DEF OwnEffects
    <3> QED
      BY <3>1, <3>2
  <2> QED
    BY <1>2, <2>1, <2>2, <2>3, <2>4
<1>6. ASSUME NEW r \in Runners, Does(r) PROVE Partial'
  <2> DEFINE m == runner[r].now
  <2>1. /\ Others(r) /\ m \in All /\ runner[r].does = "run"
        /\ history' = history /\ faked' = faked /\ broken' = broken
        /\ writer' \in {r, NoOne} /\ writer \in {r, NoOne}
    BY <1>6, CurrentNext DEF Does, Writes, MayWrite
  <2>2. \A n \in All \ {m} : effect'[n] = effect[n]
    BY <1>6 DEF Does, TypeOK, Effects
  <2>3. ASSUME NEW o \in Runners \ {r}, Undisturbed(o)'
        PROVE  Undisturbed(o) /\ effect'[runner[o].now] = effect[runner[o].now]
    <3>1. /\ runner'[o] = runner[o] /\ runner[o].does = "run" /\ ~Wrapped(runner[o].now)
          /\ runner[o].now \notin broken
      BY <1>0, <2>1, <2>3 DEF Others, Undisturbed, Wrapped
    <3>2. Undisturbed(o) /\ runner[o].now \in All
      BY <2>1, <2>3, <3>1 DEF Undisturbed, TypeOK
    <3>3. runner[o].now # m
      BY <2>1, <3>1, <3>2 DEF Alone, Runs
    <3> QED
      BY <2>2, <3>2, <3>3
  <2> QED
    BY <1>2, <1>6, <2>1, <2>3, HalfWayOn
<1>7. ASSUME NEW r \in Runners, Records(r) PROVE Partial'
  <2> DEFINE m == runner[r].now
  <2>1. /\ Others(r) /\ m \in All /\ runner[r].does = "run" /\ runner'[r].does = "next"
        /\ effect' = effect /\ faked' = faked /\ broken' = broken /\ writer' = NoOne
        /\ \A n \in All \ {m} : n \in history' <=> n \in history
    BY <1>7 DEF Records, TypeOK
  <2>2. ASSUME NEW o \in Runners \ {r}, Undisturbed(o)'
        PROVE  Undisturbed(o) /\ (runner[o].now \in history' <=> runner[o].now \in history)
    <3>1. /\ runner'[o] = runner[o] /\ runner[o].does = "run" /\ ~Wrapped(runner[o].now)
          /\ runner[o].now \notin broken
      BY <1>0, <2>1, <2>2 DEF Others, Undisturbed, Wrapped
    <3>2. Undisturbed(o) /\ runner[o].now \in All
      BY <2>1, <2>2, <3>1 DEF Undisturbed, TypeOK
    <3>3. runner[o].now # m
      BY <2>1, <3>1, <3>2 DEF Alone, Runs
    <3> QED
      BY <2>1, <3>2, <3>3
  <2>3. ~Undisturbed(r)'
    BY <2>1 DEF Undisturbed
  <2> QED
    BY <1>2, <2>1, <2>2, <2>3
<1>8. ASSUME NEW r \in Runners, NEW m \in All, Fakes(r, m) PROVE Partial'
  <2>1. ~Undisturbed(r)'
    BY <1>8 DEF Fakes, Undisturbed
  <2>2. ASSUME NEW o \in Runners \ {r}, Undisturbed(o)'
        PROVE  Undisturbed(o) /\ runner[o].now # m
    BY <1>8, <2>2 DEF Fakes, Others, Undisturbed, Wrapped
  <2> QED
    BY <1>2, <1>8, <2>1, <2>2 DEF Fakes
<1>9. ASSUME NEW r \in Runners, NEW m \in All, Enters(r, m) PROVE Partial'
  <2>1. /\ SameDb /\ Others(r) /\ broken \subseteq broken' /\ runner[r].does # "run"
        /\ runner'[r].does = "run" /\ runner'[r].now = m /\ runner'[r].step = 1
    BY <1>9 DEF Enters, Runs
  <2>2. \A o \in Runners \ {r} : Undisturbed(o)' => Undisturbed(o)
    BY <2>1 DEF SameDb, Others, Undisturbed, Wrapped
  <2>3. ASSUME Undisturbed(r)' PROVE HalfWay(r)'
    <3>1. m \notin faked /\ ~Wrapped(m) /\ m \notin broken'
      BY <1>0, <2>1, <2>3 DEF Undisturbed, SameDb, WriterRuns, Wrapped
    <3>2. ~Exempt(m)
      BY <1>9, <2>1, <3>1 DEF Exempt, Enters, Runs
    <3>3. Whole(m, Kept[1], Kept[2])
      BY <3>1, <3>2 DEF Settled
    <3>4. Whole(m, history, effect)
      BY <1>0, <3>1, <3>3 DEF Kept, Db, Whole, OwnEffects, WriterRuns
    <3>5. \A s \in 1 .. Statements : ~Reached(runner'[r], s)
      BY <2>1 DEF Reached, Sized
    <3>6. \A s \in 1 .. Statements : effect'[m][s] = IF m \in history' THEN 1 ELSE 0
      BY <2>1, <3>4 DEF Whole, SameDb
    <3> QED
      BY <2>1, <3>5, <3>6 DEF HalfWay
  <2> QED
    BY <1>2, <2>1, <2>2, <2>3 DEF SameDb
<1> QED
  BY <1>3, <1>4, <1>5, <1>6, <1>7, <1>8, <1>9, Kinds

-----------------------------------------------------------------------------
\* The database that no migration was applied to is true.
LEMMA MigrationsInit ==
    ASSUME Sized, Init
    PROVE  MigrationsInv
<1>1. TypeOK
  BY DEF Init, Sized, TypeOK, Doing, Idle, Effects
<1>2. \A r \in Runners : runner[r] = Idle
  BY DEF Init
<1>3. Settled
  BY DEF Init, Settled, Whole, Kept, Db
<1> QED
  BY <1>1, <1>2, <1>3
  DEF Init, MigrationsInv, WriterRuns, OwnEffects, Alone, Partial, Undisturbed, Runs, DownsGiven,
      PlanTrue, Idle

\* The invariant holds in every state.
LEMMA MigrationsAlways ==
    ASSUME Sized, Revertible
    PROVE  Spec => []MigrationsInv
<1>1. Init => MigrationsInv
  BY MigrationsInit
<1>2. MigrationsInv /\ [Next]_vars => MigrationsInv'
  BY TypesKept, WriterRunsNext, OwnEffectsNext, SettledNext, AloneNext, PartialNext,
     DownsGivenNext, PlanTrueNext DEF MigrationsInv
<1> QED
  BY <1>1, <1>2, PTL DEF Spec

\* History and schema agree whenever no transaction is open: for any number of
\* runners, migrations of any number of statements, commands, failures and crashes.
THEOREM HistoryIsTrue ==
    ASSUME Sized, Revertible
    PROVE  Spec => []HistoryTrue
<1>1. MigrationsInv => HistoryTrue
  BY DEF MigrationsInv, Settled, HistoryTrue, Kept, Db, Whole, Exempt
<1> QED
  BY <1>1, MigrationsAlways, PTL

\* Foreign keys are on again outside of migration_context(), however it is left.
THEOREM FksOnAgain ==
    ASSUME Sized
    PROVE  Spec => []FksRestored
<1>1. Init => TypeOK /\ FksRestored
  BY MigrationsInit DEF MigrationsInv, Init, FksRestored
<1>2. TypeOK /\ FksRestored /\ [Next]_vars => TypeOK' /\ FksRestored'
  <2> SUFFICES ASSUME TypeOK, FksRestored, [Next]_vars PROVE FksRestored'
    BY TypesKept
  <2> DEFINE Inv == FksRestored
  <2> USE DEF FksRestored, Idle, TypeOK, Doing
  <2>1. ASSUME NEW r \in Runners, NEW n \in All \cup {0}, Up(r, n) \/ Fake(r, n) \/ Down(r, n) PROVE Inv'
    BY <2>1 DEF Up, Fake, Down
  <2>2. ASSUME NEW r \in Runners, NEW n \in All, Enter(r, n) PROVE Inv'
    BY <2>2 DEF Enter
  <2>3. ASSUME NEW r \in Runners, FakeNext(r) PROVE Inv'
    BY <2>3 DEF FakeNext
  <2>4. ASSUME NEW r \in Runners, Ended(r) PROVE Inv'
    BY <2>4 DEF Ended
  <2>5. ASSUME NEW r \in Runners, Raise(r) PROVE Inv'
    BY <2>5 DEF Raise
  <2>6. ASSUME NEW r \in Runners, Statement(r) \/ StatementFails(r) \/ Record(r) PROVE Inv'
    BY <2>5, <2>6 DEF Statement, StatementFails, Record
  <2>7. ASSUME NEW r \in Runners, Crash(r) PROVE Inv'
    BY <2>5, <2>7 DEF Crash
  <2>8. ASSUME NEW n \in All, Forget(n) PROVE Inv'
    BY <2>8 DEF Forget
  <2>9. CASE UNCHANGED vars
    BY <2>9 DEF vars
  <2> QED
    BY <2>1, <2>2, <2>3, <2>4, <2>6, <2>7, <2>8, <2>9 DEF Next
<1> QED
  BY <1>1, <1>2, PTL DEF Spec

\* Both, as the run checks them for two runners and three migrations.
THEOREM AlwaysTrue ==
    ASSUME Sized, Revertible
    PROVE  Spec => []MigrationsTrue
BY HistoryIsTrue, FksOnAgain, PTL DEF MigrationsTrue

(***************************************************************************)
(* SchemaMigrator: what an operation does to the rows.  Table "t" has them *)
(* all until the copy is complete, and "tmp" has them from then on; before *)
(* and after that each statement leaves the ids of the rows alone.         *)
(***************************************************************************)
\* A table is made of these, and has a column that tells its rows apart.
IsTable(t) ==
    /\ t = [cols |-> t.cols, fks |-> t.fks, rows |-> t.rows]
    /\ t.cols \in Seq(ToSet(t.cols))
    /\ \E i \in DOMAIN t.cols : t.cols[i].name = "id"
    /\ \A row \in t.rows : "id" \in DOMAIN row

IsBase(d) ==
    /\ d = [tables |-> d.tables, indexes |-> d.indexes]
    /\ IsFiniteSet(d.indexes)
    /\ d.tables = [n \in DOMAIN d.tables |-> d.tables[n]] /\ DOMAIN d.tables \subseteq {"t", "tmp"}
    /\ \A n \in DOMAIN d.tables : IsTable(d.tables[n])

\* All the rows are in table n.
Keeps(d, n) == n \in DOMAIN d.tables /\ keptRows \subseteq RowIds(d.tables[n])

\* An operation that leaves the id alone.
IsOperation(a) ==
    /\ a.op \in {"drop", "rename", "null", "default", "type", "add", "index"}
    /\ a.op \notin {"add", "index"} => a.col # "id"
    /\ a.op = "rename" => a.to # "id"
    /\ a.op = "add" => a.to.name # "id"

\* A statement that leaves the id alone and the table where it is.
Harmless(st) ==
    \/ st.k \in {"createIndex", "add", "alter", "addFk", "dropFk"}
    \/ st.k \in {"rename", "restate"} /\ st.arg.col # "id"
    \/ st.k = "update" /\ st.arg.col # "id"
    \/ st.k = "drop" /\ st.arg # "id"
    \/ st.k = "op" /\ st.arg.op \in {"null", "index"} /\ IsOperation(st.arg)

Plain(sts) == sts \in Seq(ToSet(sts)) /\ \A i \in DOMAIN sts : Harmless(sts[i])

\* The copy takes the id over.
IsCopy(a) ==
    /\ \E i \in DOMAIN a.new : a.new[i] = "id"
    /\ \A i \in DOMAIN a.new : a.new[i] = "id" => a.old[i] = "id"

RebuildKinds == <<"dropTmp", "create", "copy", "dropTable", "renameTable">>

\* The table is being built anew, and the n-th of the five statements is next.
Rebuilding(sts, n) ==
    /\ sts \in Seq(ToSet(sts)) /\ Len(sts) >= 6 - n
    /\ \A i \in 1 .. 6 - n : sts[i].k = RebuildKinds[n - 1 + i]
    /\ \A i \in 7 - n .. Len(sts) : Harmless(sts[i])
    /\ n <= 2 => IsTable(sts[3 - n].arg)
    /\ n <= 3 => IsCopy(sts[4 - n].arg)

Running ==
    \/ /\ todo = <<St("op", asked)>> /\ IsOperation(asked) /\ Keeps(dbase, "t")
       /\ asked.op \notin {"add", "index"} => Has(dbase.tables["t"], asked.col)
    \/ Plain(todo) /\ Keeps(dbase, "t")
    \/ \E n \in 1 .. 5 :
         /\ Rebuilding(todo, n)
         /\ n <= 4 => Keeps(dbase, "t")
         /\ n = 3 => "tmp" \in DOMAIN dbase.tables
         /\ n >= 4 => Keeps(dbase, "tmp")

MigratorInv ==
    /\ dialect \in {"sqlite", "postgres", "mysql", "cockroach"}
    /\ stage \in {"idle", "run", "done", "failed"}
    /\ IsBase(dbase)
    /\ stage = "idle" => keptRows = {}
    /\ DOMAIN dbase.tables = {} => stage = "idle"
    /\ child \in BOOLEAN /\ saved[2] \in BOOLEAN
    /\ way = "context" => child = saved[2]
    /\ stage # "idle" => IsBase(saved[1]) /\ Keeps(saved[1], "t")
    /\ stage = "run" => Running
    /\ stage \in {"done", "failed"} => IF InTxn THEN Keeps(dbase, "t") ELSE Keeps(dbase, "t") \/ Keeps(dbase, "tmp")

\* A sequence is one of its own values.
LEMMA Own ==
    ASSUME NEW S, NEW s \in Seq(S)
    PROVE  s \in Seq(ToSet(s)) /\ Len(s) \in Nat /\ DOMAIN s = 1 .. Len(s)
<1>1. Len(s) \in Nat /\ s \in [1 .. Len(s) -> S] /\ DOMAIN s = 1 .. Len(s) BY LenProperties
<1>2. \A i \in 1 .. Len(s) : s[i] \in ToSet(s) BY <1>1 DEF ToSet
<1>3. s \in [1 .. Len(s) -> ToSet(s)] BY <1>1, <1>2
<1>4. s \in UNION {[1 .. n -> ToSet(s)] : n \in Nat} BY <1>1, <1>3
<1> QED BY <1>1, <1>4, SeqDef

\* A function on 1 .. n is a sequence of its values.
LEMMA IsSequence ==
    ASSUME NEW n \in Nat, NEW f, f = [i \in 1 .. n |-> f[i]]
    PROVE  f \in Seq(ToSet(f)) /\ Len(f) = n /\ DOMAIN f = 1 .. n
<1>1. DOMAIN f = 1 .. n BY Zenon
<1>2. \A i \in 1 .. n : f[i] \in ToSet(f) BY <1>1 DEF ToSet
<1>3. f \in [1 .. n -> ToSet(f)] BY <1>2
<1>4. f \in UNION {[1 .. m -> ToSet(f)] : m \in Nat} BY <1>3
<1>5. f \in Seq(ToSet(f)) BY <1>4, SeqDef
<1>6. Len(f) \in Nat /\ DOMAIN f = 1 .. Len(f) BY <1>5, LenProperties
<1> QED BY <1>1, <1>5, <1>6

\* What two sequences make of each other.
LEMMA Concatenation ==
    ASSUME NEW s, NEW t, s \in Seq(ToSet(s)), t \in Seq(ToSet(t))
    PROVE  /\ s \o t \in Seq(ToSet(s \o t)) /\ Len(s \o t) = Len(s) + Len(t)
           /\ Len(s) \in Nat /\ Len(t) \in Nat /\ DOMAIN s = 1 .. Len(s) /\ DOMAIN t = 1 .. Len(t)
           /\ DOMAIN (s \o t) = 1 .. Len(s) + Len(t)
           /\ \A i \in 1 .. Len(s) : (s \o t)[i] = s[i]
           /\ \A i \in Len(s) + 1 .. Len(s) + Len(t) : (s \o t)[i] = t[i - Len(s)] /\ i - Len(s) \in 1 .. Len(t)
<1> DEFINE S == ToSet(s) \cup ToSet(t)
<1>1. s \in Seq(S) /\ t \in Seq(S) BY SeqMonotonic
<1> HIDE DEF S
<1>2. /\ Len(s) \in Nat /\ Len(t) \in Nat /\ DOMAIN s = 1 .. Len(s) /\ DOMAIN t = 1 .. Len(t)
      /\ s \o t \in Seq(S) /\ Len(s \o t) = Len(s) + Len(t)
      /\ \A i \in 1 .. Len(s) + Len(t) : (s \o t)[i] = IF i <= Len(s) THEN s[i] ELSE t[i - Len(s)]
  BY <1>1, LenProperties, ConcatProperties
<1>3. s \o t \in Seq(ToSet(s \o t)) /\ DOMAIN (s \o t) = 1 .. Len(s) + Len(t) BY <1>2, Own
<1> QED BY <1>2, <1>3

\* A sequence and one more.
LEMMA Longer ==
    ASSUME NEW s, s \in Seq(ToSet(s)), NEW e
    PROVE  /\ Append(s, e) \in Seq(ToSet(Append(s, e))) /\ Len(s) \in Nat /\ DOMAIN s = 1 .. Len(s)
           /\ DOMAIN Append(s, e) = 1 .. Len(s) + 1
           /\ \A i \in 1 .. Len(s) : Append(s, e)[i] = s[i]
           /\ Append(s, e)[Len(s) + 1] = e
<1> DEFINE S == ToSet(s) \cup {e}
<1>1. s \in Seq(S) /\ e \in S BY SeqMonotonic
<1> HIDE DEF S
<1>2. /\ Append(s, e) \in Seq(S) /\ Len(Append(s, e)) = Len(s) + 1 /\ Len(s) \in Nat /\ DOMAIN s = 1 .. Len(s)
      /\ \A i \in 1 .. Len(s) : Append(s, e)[i] = s[i]
      /\ Append(s, e)[Len(s) + 1] = e
  BY <1>1
<1> QED BY <1>2, Own

\* A sequence but for its first element.
LEMMA Shorter ==
    ASSUME NEW s, s \in Seq(ToSet(s)), s # <<>>
    PROVE  /\ Tail(s) \in Seq(ToSet(Tail(s))) /\ Len(s) \in Nat \ {0} /\ Len(Tail(s)) = Len(s) - 1
           /\ DOMAIN s = 1 .. Len(s) /\ DOMAIN Tail(s) = 1 .. Len(s) - 1
           /\ \A i \in 1 .. Len(s) - 1 : Tail(s)[i] = s[i + 1]
           /\ Head(s) = s[1]
<1> DEFINE S == ToSet(s)
<1>0. s \in Seq(S) OBVIOUS
<1> HIDE DEF S
<1>1. /\ Len(s) \in Nat \ {0} /\ DOMAIN s = 1 .. Len(s)
      /\ Len(Tail(s)) = Len(s) - 1 /\ Tail(s) \in Seq(S)
      /\ \A i \in 1 .. Len(Tail(s)) : Tail(s)[i] = s[i + 1]
  BY <1>0, HeadTailProperties, LenProperties, EmptySeq
<1>2. Head(s) = s[1] BY <1>0
<1> QED BY <1>1, <1>2, Own

\* A sequence but for one element has the others.
LEMMA OneRemoved ==
    ASSUME NEW s, s \in Seq(ToSet(s)), NEW k \in DOMAIN s
    PROVE  /\ RemoveAt(s, k) \in Seq(ToSet(RemoveAt(s, k)))
           /\ \A i \in DOMAIN s \ {k} : \E j \in DOMAIN RemoveAt(s, k) : RemoveAt(s, k)[j] = s[i]
<1> DEFINE p == SubSeq(s, 1, k - 1)
           q == SubSeq(s, k + 1, Len(s))
<1>1. Len(s) \in Nat /\ DOMAIN s = 1 .. Len(s) /\ k \in 1 .. Len(s) /\ \A i \in 1 .. Len(s) : s[i] \in ToSet(s)
  BY Own DEF ToSet
<1>2. /\ Len(p) = k - 1 /\ p \in Seq(ToSet(s))
      /\ \A i \in 1 .. k - 1 : p[i] = s[i]
  BY <1>1, SubSeqProperties
<1>3. /\ Len(q) = Len(s) - k /\ q \in Seq(ToSet(s))
      /\ \A i \in 1 .. Len(s) - k : q[i] = s[i + k]
  <2>1. \A i \in k + 1 .. Len(s) : s[i] \in ToSet(s) BY <1>1
  <2>2. /\ q \in Seq(ToSet(s)) /\ Len(q) = IF k + 1 <= Len(s) THEN Len(s) - (k + 1) + 1 ELSE 0
        /\ \A i \in 1 .. Len(s) - (k + 1) + 1 : q[i] = s[k + 1 + i - 1]
    BY <1>1, <2>1, SubSeqProperties
  <2> QED BY <1>1, <2>2
<1>6. p \in Seq(ToSet(p)) /\ q \in Seq(ToSet(q)) BY <1>2, <1>3, Own
<1> HIDE DEF p, q
<1>7. /\ p \o q \in Seq(ToSet(p \o q)) /\ DOMAIN (p \o q) = 1 .. Len(p) + Len(q)
      /\ \A i \in 1 .. Len(p) : (p \o q)[i] = p[i]
      /\ \A i \in Len(p) + 1 .. Len(p) + Len(q) : (p \o q)[i] = q[i - Len(p)]
  BY <1>6, Concatenation
<1>8. RemoveAt(s, k) = p \o q BY DEF RemoveAt, p, q
<1>9. ASSUME NEW i \in DOMAIN s \ {k} PROVE \E j \in DOMAIN (p \o q) : (p \o q)[j] = s[i]
  <2>1. CASE i < k
    <3>1. i \in 1 .. k - 1 /\ i \in DOMAIN (p \o q) /\ (p \o q)[i] = s[i] BY <1>1, <1>2, <1>3, <1>7, <2>1
    <3> QED BY <3>1
  <2>2. CASE i > k
    <3>1. PICK m, x, y : m = Len(s) /\ x = Len(p) /\ y = Len(q) OBVIOUS
    <3>2. m \in Nat /\ k \in 1 .. m /\ i \in 1 .. m /\ x = k - 1 /\ y = m - k BY <1>1, <1>2, <1>3, <3>1
    <3>3. /\ i - 1 \in x + 1 .. x + y /\ i - 1 \in 1 .. x + y
          /\ (i - 1) - x = i - k /\ i - k \in 1 .. m - k /\ (i - k) + k = i
      <4>1. k \in Int /\ i \in Int /\ m \in Int /\ k < i /\ 1 <= k /\ i <= m BY <2>2, <3>2
      <4>2. i - k \in Int /\ 1 <= i - k /\ i - k <= m - k /\ (i - k) + k = i BY <4>1
      <4>3. i - 1 \in Int /\ k <= i - 1 /\ i - 1 <= m - 1 BY <4>1
      <4>4. x + 1 = k /\ x + y = m - 1 /\ (i - 1) - x = i - k BY <3>2, <4>1
      <4> QED BY <4>1, <4>2, <4>3, <4>4
    <3>4. i - 1 \in DOMAIN (p \o q) /\ (p \o q)[i - 1] = q[(i - 1) - x] BY <1>7, <3>1, <3>3
    <3>5. q[i - k] = s[(i - k) + k] BY <1>3, <3>1, <3>3
    <3> QED BY <3>3, <3>4, <3>5
  <2> QED BY <1>1, <2>1, <2>2
<1> QED BY <1>7, <1>8, <1>9

\* A column is there if one has its name.
LEMMA HasColumn == ASSUME NEW t, NEW c PROVE Has(t, c) <=> \E i \in DOMAIN t.cols : t.cols[i].name = c
BY DEF Has, Names, ToSet

\* Table u has the rows of t.
Covers(t, u) == IsTable(u) /\ RowIds(t) \subseteq RowIds(u)

\* A column that is stated again.
LEMMA AlteredKeeps ==
    ASSUME NEW t, IsTable(t), NEW c, NEW new, c = "id" => new.name = "id"
    PROVE  Covers(t, Altered(t, c, new))
<1> DEFINE u == Altered(t, c, new)
           cs == [i \in DOMAIN t.cols |-> IF t.cols[i].name = c THEN new ELSE t.cols[i]]
<1>0. u = [t EXCEPT !.cols = cs] BY DEF Altered
<1>2. Len(t.cols) \in Nat /\ DOMAIN t.cols = 1 .. Len(t.cols) BY Own DEF IsTable
<1>3. DOMAIN cs = 1 .. Len(t.cols) /\ cs = [i \in 1 .. Len(t.cols) |-> cs[i]] BY <1>2
<1>4. \E i \in DOMAIN cs : cs[i].name = "id"
  <2>1. PICK i \in DOMAIN t.cols : t.cols[i].name = "id" BY DEF IsTable
  <2>2. cs[i].name = "id" BY <2>1
  <2> QED BY <2>1, <2>2
<1> HIDE DEF cs, u
<1>5. cs \in Seq(ToSet(cs)) BY <1>2, <1>3, IsSequence
<1>1. u = [cols |-> cs, fks |-> t.fks, rows |-> t.rows] BY <1>0 DEF IsTable
<1>6. u.cols = cs /\ u.fks = t.fks /\ u.rows = t.rows BY <1>1
<1> QED BY <1>1, <1>4, <1>5, <1>6 DEF Covers, IsTable, RowIds, u

\* A column that gets another name.
LEMMA RenamedKeeps ==
    ASSUME NEW t, IsTable(t), NEW c, NEW new, c # "id", new # "id"
    PROVE  Covers(t, Renamed(t, c, new))
<1> DEFINE u == Renamed(t, c, new)
           again == Altered(t, c, Stated(new, ColumnOf(t, c).type, ColumnOf(t, c).null, ColumnOf(t, c).default))
           row(r) == [k \in {To(c, new, x) : x \in DOMAIN r} |-> IF k = new THEN r[c] ELSE r[k]]
<1>1. /\ u = [cols |-> u.cols, fks |-> u.fks, rows |-> u.rows]
      /\ u.cols = again.cols /\ u.rows = {row(r) : r \in t.rows}
  BY DEF Renamed
<1>2. IsTable(again) BY AlteredKeeps DEF Covers
<1>3. \A r \in t.rows : "id" \in DOMAIN row(r) /\ row(r)["id"] = r["id"] BY DEF IsTable, To
<1> HIDE DEF u, row, again
<1>4. RowIds(u) = RowIds(t) BY <1>1, <1>3 DEF RowIds
<1> QED BY <1>1, <1>2, <1>3, <1>4 DEF Covers, IsTable, u

\* A new column.
LEMMA WithKeeps ==
    ASSUME NEW t, IsTable(t), NEW col, col.name # "id", NEW value, NEW keys
    PROVE  Covers(t, [WithColumn(t, col, value) EXCEPT !.fks = keys])
<1> DEFINE u == [WithColumn(t, col, value) EXCEPT !.fks = keys]
           cs == Append(t.cols, col)
           row(r) == [k \in DOMAIN r \cup {col.name} |-> IF k = col.name THEN value ELSE r[k]]
           rs == {row(r) : r \in t.rows}
<1>0. u = [[t EXCEPT !.cols = cs, !.rows = rs] EXCEPT !.fks = keys] BY DEF WithColumn
<1>2. cs \in Seq(ToSet(cs)) /\ DOMAIN cs = 1 .. Len(t.cols) + 1 /\ DOMAIN t.cols = 1 .. Len(t.cols) /\ Len(t.cols) \in Nat
      /\ \A i \in DOMAIN t.cols : cs[i] = t.cols[i]
  BY Longer DEF IsTable
<1>3. \A r \in t.rows : "id" \in DOMAIN row(r) /\ row(r)["id"] = r["id"] BY DEF IsTable
<1> HIDE DEF u, cs, row, rs
<1>1. u = [cols |-> cs, fks |-> keys, rows |-> rs] BY <1>0 DEF IsTable
<1>4. \E i \in DOMAIN cs : cs[i].name = "id"
  <2>1. PICK i \in DOMAIN t.cols : t.cols[i].name = "id" BY DEF IsTable
  <2> QED BY <1>2, <2>1
<1>5. u.cols = cs /\ u.rows = {row(r) : r \in t.rows} /\ u = [cols |-> u.cols, fks |-> u.fks, rows |-> u.rows] BY <1>1 DEF rs
<1>6. RowIds(u) = RowIds(t) BY <1>3, <1>5 DEF RowIds
<1> QED BY <1>2, <1>3, <1>4, <1>5, <1>6 DEF Covers, IsTable, u

\* A column less.
LEMMA WithoutKeeps ==
    ASSUME NEW t, IsTable(t), NEW c, c # "id", Has(t, c)
    PROVE  Covers(t, WithoutColumn(t, c))
<1> DEFINE u == WithoutColumn(t, c)
           n == PlaceOf(t, c)
           cs == RemoveAt(t.cols, n)
           row(r) == [k \in DOMAIN r \ {c} |-> r[k]]
<1>1. /\ u = [cols |-> u.cols, fks |-> u.fks, rows |-> u.rows]
      /\ u.cols = cs /\ u.rows = {row(r) : r \in t.rows}
  BY DEF WithoutColumn
<1>2. n \in DOMAIN t.cols /\ t.cols[n].name = c BY HasColumn DEF PlaceOf
<1>3. \A r \in t.rows : "id" \in DOMAIN row(r) /\ row(r)["id"] = r["id"] BY DEF IsTable
<1> HIDE DEF u, n, row
<1>4. cs \in Seq(ToSet(cs)) /\ \A i \in DOMAIN t.cols \ {n} : \E j \in DOMAIN cs : cs[j] = t.cols[i]
  BY <1>2, OneRemoved DEF IsTable
<1> HIDE DEF cs
<1>5. \E i \in DOMAIN cs : cs[i].name = "id"
  <2>1. PICK i \in DOMAIN t.cols : t.cols[i].name = "id" BY DEF IsTable
  <2> QED BY <1>2, <1>4, <2>1
<1>6. RowIds(u) = RowIds(t) BY <1>1, <1>3 DEF RowIds
<1> QED BY <1>1, <1>3, <1>4, <1>5, <1>6 DEF Covers, IsTable, u

\* Other foreign keys.
LEMMA FksKeep == ASSUME NEW t, IsTable(t), NEW keys PROVE Covers(t, [t EXCEPT !.fks = keys])
BY DEF Covers, IsTable, RowIds

\* Other rows with the same ids.
LEMMA RowsKeep ==
    ASSUME NEW t, IsTable(t), NEW rs, \A r \in rs : "id" \in DOMAIN r, RowIds(t) \subseteq {r["id"] : r \in rs}
    PROVE  Covers(t, [t EXCEPT !.rows = rs])
BY DEF Covers, IsTable, RowIds

\* Table "t" has its rows still and the other is as it was.
RowsKept(d, e) ==
    /\ IsBase(e) /\ DOMAIN e.tables = DOMAIN d.tables
    /\ RowIds(d.tables["t"]) \subseteq RowIds(e.tables["t"])
    /\ "tmp" \in DOMAIN d.tables => e.tables["tmp"] = d.tables["tmp"]

\* A table in the place of one with the same rows.
LEMMA ReplacedKeeps ==
    ASSUME NEW d, IsBase(d), "t" \in DOMAIN d.tables, NEW new, Covers(d.tables["t"], new),
           NEW ixs, IsFiniteSet(ixs), NEW e, e = [tables |-> [d.tables EXCEPT !["t"] = new], indexes |-> ixs]
    PROVE  RowsKept(d, e)
<1> DEFINE ts == [d.tables EXCEPT !["t"] = new]
<1>1. e = [tables |-> ts, indexes |-> ixs] /\ e.tables = ts /\ e.indexes = ixs OBVIOUS
<1>2. /\ DOMAIN ts = DOMAIN d.tables /\ ts["t"] = new
      /\ \A n \in DOMAIN d.tables \ {"t"} : ts[n] = d.tables[n]
      /\ ts = [n \in DOMAIN d.tables |-> ts[n]]
  BY DEF IsBase
<1> HIDE DEF ts
<1>3. \A n \in DOMAIN ts : IsTable(ts[n]) BY <1>2 DEF IsBase, Covers
<1>4. DOMAIN ts \subseteq {"t", "tmp"} BY <1>2 DEF IsBase
<1> QED BY <1>1, <1>2, <1>3, <1>4 DEF RowsKept, IsBase, Covers

\* Such a statement.
LEMMA HarmlessKeeps ==
    ASSUME NEW d, IsBase(d), "t" \in DOMAIN d.tables, NEW st, Harmless(st), st.k # "op", Enabled(d, st)
    PROVE  RowsKept(d, After(d, st))
<1> DEFINE t == d.tables["t"]
           a == st.arg
           e == After(d, st)
           is(new) == [tables |-> [d.tables EXCEPT !["t"] = new], indexes |-> d.indexes]
<1>0. /\ IsTable(t) /\ IsFiniteSet(d.indexes) /\ Has(t, "id")
      /\ \A new : [d EXCEPT !.tables["t"] = new] = is(new)
  <2>1. IsTable(t) /\ IsFiniteSet(d.indexes) BY DEF IsBase
  <2>2. Has(t, "id") BY <2>1, HasColumn DEF IsTable
  <2>3. ASSUME NEW new PROVE [d EXCEPT !.tables["t"] = new] = is(new) BY DEF IsBase
  <2> QED BY <2>1, <2>2, <2>3
<1>9. \A new : Covers(t, new) => RowsKept(d, is(new)) BY <1>0, ReplacedKeeps
<1>1. CASE st.k = "createIndex"
  <2>1. e = [d EXCEPT !.indexes = @ \cup {a}] BY <1>1 DEF After
  <2>2. e = [tables |-> d.tables, indexes |-> d.indexes \cup {a}] BY <2>1 DEF IsBase
  <2>3. IsFiniteSet(d.indexes \cup {a}) BY <1>0, FS_AddElement
  <2> QED BY <2>2, <2>3 DEF RowsKept, IsBase
<1>2. CASE st.k = "add"
  <2> DEFINE new == [WithColumn(t, a.col, Initial(a.col)) EXCEPT
                       !.fks = IF a.fk THEN @ \cup {[col |-> a.col.name, inline |-> TRUE]} ELSE @]
             keys == IF a.fk THEN WithColumn(t, a.col, Initial(a.col)).fks \cup {[col |-> a.col.name, inline |-> TRUE]}
                            ELSE WithColumn(t, a.col, Initial(a.col)).fks
  <2>1. e = is(new) BY <1>0, <1>2 DEF After
  <2>2. new = [WithColumn(t, a.col, Initial(a.col)) EXCEPT !.fks = keys] OBVIOUS
  <2>3. a.col.name # "id" BY <1>0, <1>2 DEF Enabled
  <2>4. Covers(t, new) BY <1>0, <2>2, <2>3, WithKeeps
  <2> QED BY <1>9, <2>1, <2>4
<1>3. CASE st.k = "rename"
  <2> DEFINE mid == Renamed(t, a.col, a.to.name)
             new == Altered(mid, a.to.name, a.to)
             ixs == {IndexTo(ix, a.col, a.to.name) : ix \in d.indexes}
  <2>1. a.col # "id" /\ a.to.name # "id" BY <1>0, <1>3 DEF Harmless, Enabled
  <2>2. Covers(t, mid) BY <1>0, <2>1, RenamedKeeps
  <2>3. Covers(mid, new) BY <2>1, <2>2, AlteredKeeps DEF Covers
  <2>4. Covers(t, new) BY <2>2, <2>3 DEF Covers
  <2>5. e = [[d EXCEPT !.tables["t"] = new] EXCEPT !.indexes = {IndexTo(ix, a.col, a.to.name) : ix \in @}]
    BY <1>3 DEF After
  <2>6. e = [is(new) EXCEPT !.indexes = {IndexTo(ix, a.col, a.to.name) : ix \in @}] BY <1>0, <2>5
  <2> HIDE DEF new
  <2>7. e = [tables |-> [d.tables EXCEPT !["t"] = new], indexes |-> ixs] BY <2>6
  <2>8. IsFiniteSet(ixs)
    <3> DEFINE f == [ix \in d.indexes |-> IndexTo(ix, a.col, a.to.name)]
    <3>1. f \in Surjection(d.indexes, ixs) BY DEF Surjection
    <3> HIDE DEF ixs, f
    <3> QED BY <1>0, <3>1, FS_Surjection
  <2> QED BY <1>0, <2>4, <2>7, <2>8, ReplacedKeeps
<1>4. CASE st.k = "alter"
  <2> DEFINE new == Altered(t, a.name, a)
  <2>1. e = is(new) BY <1>0, <1>4 DEF After
  <2>2. Covers(t, new) BY <1>0, AlteredKeeps
  <2> QED BY <1>9, <2>1, <2>2
<1>5. CASE st.k \in {"addFk", "dropFk"}
  <2> DEFINE keys == IF st.k = "addFk" THEN t.fks \cup {[col |-> a, inline |-> TRUE]} ELSE {fk \in t.fks : fk.col # a}
  <2>1. e = is([t EXCEPT !.fks = keys])
    <3>1. CASE st.k = "addFk"
      <4>1. e = is([t EXCEPT !.fks = @ \cup {[col |-> a, inline |-> TRUE]}]) BY <1>0, <3>1 DEF After
      <4> QED BY <3>1, <4>1
    <3>2. CASE st.k = "dropFk"
      <4>1. e = is([t EXCEPT !.fks = {fk \in @ : fk.col # a}]) BY <1>0, <3>2 DEF After
      <4> QED BY <3>2, <4>1
    <3> QED BY <1>5, <3>1, <3>2
  <2>2. Covers(t, [t EXCEPT !.fks = keys]) BY <1>0, FksKeep
  <2> QED BY <1>9, <2>1, <2>2
<1>6. CASE st.k = "update"
  <2> DEFINE rs == {[r EXCEPT ![a.col] = a.to] : r \in t.rows}
  <2>1. e = is([t EXCEPT !.rows = rs]) BY <1>0, <1>6 DEF After
  <2>2. a.col # "id" BY <1>6 DEF Harmless
  <2>3. \A r \in rs : "id" \in DOMAIN r BY <1>0, <2>2 DEF IsTable
  <2>4. {r["id"] : r \in rs} = RowIds(t)
    <3> DEFINE row(r) == [r EXCEPT ![a.col] = a.to]
    <3>1. \A r \in t.rows : row(r)["id"] = r["id"] BY <1>0, <2>2 DEF IsTable
    <3>2. rs = {row(r) : r \in t.rows} OBVIOUS
    <3> HIDE DEF row, rs, t
    <3> QED BY <3>1, <3>2 DEF RowIds
  <2> HIDE DEF rs
  <2>5. Covers(t, [t EXCEPT !.rows = rs]) BY <1>0, <2>3, <2>4, RowsKeep
  <2> QED BY <1>9, <2>1, <2>5
<1>7. CASE st.k = "drop"
  <2> DEFINE new == WithoutColumn(t, a)
             others == {ix \in d.indexes : ToSet(ix.cols) # {a}}
             narrow(ix) == [ix EXCEPT !.cols = SelectSeq(@, LAMBDA x : x # a)]
             ixs == IF dialect = "mysql" THEN Narrowed(d.indexes, a) ELSE {ix \in d.indexes : ~Mentions(ix, a)}
  <2>1. e = [tables |-> [d.tables EXCEPT !["t"] = new], indexes |-> ixs] BY <1>7 DEF After
  <2>2. a # "id" /\ Has(t, a) BY <1>7 DEF Harmless, Enabled
  <2>3. Covers(t, new) BY <1>0, <2>2, WithoutKeeps
  <2>4. IsFiniteSet({ix \in d.indexes : ~Mentions(ix, a)}) /\ IsFiniteSet(others) BY <1>0, FS_Subset
  <2>5. IsFiniteSet(Narrowed(d.indexes, a))
    <3> DEFINE image == {narrow(ix) : ix \in others}
               f == [ix \in others |-> narrow(ix)]
    <3>1. f \in Surjection(others, image) BY DEF Surjection
    <3>2. Narrowed(d.indexes, a) = image BY DEF Narrowed
    <3> HIDE DEF others, image, f
    <3> QED BY <2>4, <3>1, <3>2, FS_Surjection
  <2>6. IsFiniteSet(ixs) BY <2>4, <2>5
  <2> QED BY <1>0, <2>1, <2>3, <2>6, ReplacedKeeps
<1>8. CASE st.k = "restate"
  <2> DEFINE mid == IF a.to.name = a.col THEN t ELSE Renamed(t, a.col, a.to.name)
             new == Altered(mid, a.to.name, a.to)
             image == {IndexTo(ix, a.col, a.to.name) : ix \in d.indexes}
             ixs == image \cup Repeated(a)
  <2>1. a.col # "id" /\ a.to.name # "id" BY <1>0, <1>8 DEF Harmless, Enabled
  <2>2. Covers(t, mid)
    <3>1. CASE a.to.name = a.col BY <1>0, <3>1 DEF Covers
    <3>2. CASE a.to.name # a.col BY <1>0, <2>1, <3>2, RenamedKeeps
    <3> QED BY <3>1, <3>2
  <2>3. Covers(mid, new) BY <2>1, <2>2, AlteredKeeps DEF Covers
  <2>4. Covers(t, new) BY <2>2, <2>3 DEF Covers
  <2>5. e = [[d EXCEPT !.tables["t"] = new] EXCEPT
               !.indexes = {IndexTo(ix, a.col, a.to.name) : ix \in @} \cup Repeated(a)]
    BY <1>8 DEF After
  <2>6. e = [is(new) EXCEPT !.indexes = {IndexTo(ix, a.col, a.to.name) : ix \in @} \cup Repeated(a)]
    BY <1>0, <2>5
  <2> HIDE DEF new
  <2>7. e = [tables |-> [d.tables EXCEPT !["t"] = new], indexes |-> ixs] BY <2>6
  <2>8. IsFiniteSet(image)
    <3> DEFINE f == [ix \in d.indexes |-> IndexTo(ix, a.col, a.to.name)]
    <3>1. f \in Surjection(d.indexes, image) BY DEF Surjection
    <3> HIDE DEF image, f
    <3> QED BY <1>0, <3>1, FS_Surjection
  <2>9. IsFiniteSet(ixs)
    <3>1. IsFiniteSet(Repeated(a)) BY FS_EmptySet, FS_Singleton DEF Repeated
    <3> HIDE DEF image
    <3> QED BY <2>8, <3>1, FS_Union
  <2> QED BY <1>0, <2>4, <2>7, <2>9, ReplacedKeeps
<1> QED BY <1>1, <1>2, <1>3, <1>4, <1>5, <1>6, <1>7, <1>8 DEF Harmless

\* SetToSeq() gives the elements of a finite set.
LEMMA SetAsSequence ==
    ASSUME NEW S, IsFiniteSet(S)
    PROVE  /\ SetToSeq(S) \in Seq(ToSet(SetToSeq(S)))
           /\ \A i \in DOMAIN SetToSeq(S) : SetToSeq(S)[i] \in S
<1> DEFINE n == Cardinality(S)
           q == SetToSeq(S)
<1>1. n \in Nat /\ ExistsBijection(1 .. n, S) BY FS_CardinalityType
<1>2. PICK f : f \in Bijection(1 .. n, S) BY <1>1 DEF ExistsBijection
<1>3. f \in [1 .. n -> S] /\ IsInjective(f) BY <1>2 DEF Bijection, Injection, Surjection, IsInjective
<1>4. q \in [1 .. n -> S] BY <1>3 DEF SetToSeq
<1> HIDE DEF q, n
<1>5. q \in UNION {[1 .. m -> S] : m \in Nat} BY <1>1, <1>4
<1>6. q \in Seq(S) BY <1>5, SeqDef
<1> QED BY <1>4, <1>6, Own DEF q

\* Sequences of harmless statements.
LEMMA PlainNone == Plain(<<>>)
<1>1. <<>> \in Seq({}) BY EmptySeq
<1>2. <<>> \in Seq(ToSet(<<>>)) BY <1>1, Own
<1> QED BY <1>2 DEF Plain

\* One harmless statement.
LEMMA PlainOne == ASSUME NEW st, Harmless(st) PROVE Plain(<<st>>)
<1> DEFINE s == <<st>>
<1>1. s = [i \in 1 .. 1 |-> s[i]] /\ s[1] = st OBVIOUS
<1> HIDE DEF s
<1>2. s \in Seq(ToSet(s)) /\ DOMAIN s = 1 .. 1 BY <1>1, IsSequence
<1> QED BY <1>1, <1>2 DEF Plain, s

\* Two of them.
LEMMA PlainTwo == ASSUME NEW st, NEW su, Harmless(st), Harmless(su) PROVE Plain(<<st, su>>)
<1> DEFINE s == <<st, su>>
<1>1. s = [i \in 1 .. 2 |-> s[i]] /\ s[1] = st /\ s[2] = su OBVIOUS
<1> HIDE DEF s
<1>2. s \in Seq(ToSet(s)) /\ DOMAIN s = 1 .. 2 BY <1>1, IsSequence
<1> QED BY <1>1, <1>2 DEF Plain, s

\* Harmless statements, and more of them.
LEMMA PlainBoth ==
    ASSUME NEW s, NEW u, Plain(s), Plain(u) PROVE Plain(s \o u)
<1>1. /\ s \o u \in Seq(ToSet(s \o u))
      /\ Len(s) \in Nat /\ Len(u) \in Nat /\ DOMAIN s = 1 .. Len(s) /\ DOMAIN u = 1 .. Len(u)
      /\ DOMAIN (s \o u) = 1 .. Len(s) + Len(u)
      /\ \A i \in 1 .. Len(s) : (s \o u)[i] = s[i]
      /\ \A i \in Len(s) + 1 .. Len(s) + Len(u) : (s \o u)[i] = u[i - Len(s)] /\ i - Len(s) \in 1 .. Len(u)
  BY Concatenation DEF Plain
<1>2. ASSUME NEW i \in 1 .. Len(s) + Len(u) PROVE Harmless((s \o u)[i])
  <2>1. CASE i <= Len(s) BY <1>1, <2>1 DEF Plain
  <2>2. CASE i > Len(s) BY <1>1, <2>2 DEF Plain
  <2> QED BY <1>1, <2>1, <2>2
<1> QED BY <1>1, <1>2 DEF Plain

\* And after a table that is built anew.
LEMMA RebuildThen ==
    ASSUME NEW s, NEW u, NEW n \in 1 .. 5, Rebuilding(s, n), Plain(u) PROVE Rebuilding(s \o u, n)
<1> DEFINE w == s \o u
<1>1. /\ w \in Seq(ToSet(w)) /\ Len(w) = Len(s) + Len(u)
      /\ Len(s) \in Nat /\ Len(u) \in Nat /\ DOMAIN s = 1 .. Len(s) /\ DOMAIN u = 1 .. Len(u)
      /\ \A i \in 1 .. Len(s) : w[i] = s[i]
      /\ \A i \in Len(s) + 1 .. Len(s) + Len(u) : w[i] = u[i - Len(s)] /\ i - Len(s) \in 1 .. Len(u)
  BY Concatenation DEF Plain, Rebuilding
<1> HIDE DEF w
<1>0. Len(s) >= 6 - n BY DEF Rebuilding
<1>2. Len(s) >= 6 - n /\ \A i \in 1 .. 6 - n : w[i] = s[i] BY <1>0, <1>1
<1>3. ASSUME NEW i \in 7 - n .. Len(w) PROVE Harmless(w[i])
  <2>1. CASE i <= Len(s) BY <1>1, <2>1 DEF Rebuilding
  <2>2. CASE i > Len(s)
    <3>1. i \in Len(s) + 1 .. Len(s) + Len(u) BY <1>0, <1>1, <2>2
    <3>2. w[i] = u[i - Len(s)] /\ i - Len(s) \in DOMAIN u BY <1>1, <3>1
    <3>3. \A j \in DOMAIN u : Harmless(u[j]) BY DEF Plain
    <3> QED BY <3>2, <3>3, Zenon
  <2> QED BY <1>0, <1>1, <2>1, <2>2
<1>4. n <= 2 => w[3 - n] = s[3 - n] BY <1>2
<1>5. n <= 3 => w[4 - n] = s[4 - n] BY <1>2
<1>6. Len(w) >= 6 - n BY <1>1, <1>2
<1>7. \A i \in 1 .. 6 - n : w[i].k = RebuildKinds[n - 1 + i] BY <1>2 DEF Rebuilding
<1> QED BY <1>1, <1>3, <1>4, <1>5, <1>6, <1>7 DEF Rebuilding, w

\* The table is built in five statements, and then come its indexes.
LEMMA RebuildStarts ==
    ASSUME NEW d, IsBase(d), "t" \in DOMAIN d.tables, NEW op, IsOperation(op), op.op \notin {"add", "index"},
           op.op # "null" => Has(d.tables["t"], op.col), dialect = "sqlite"
    PROVE  Rebuilding(Rebuild(d, op), 1)
<1> DEFINE t == d.tables["t"]
           new == NewTable(t, op)
           old == Names(IF op.op = "drop" THEN new ELSE t)
           five == <<St("dropTmp", 0), St("create", [new EXCEPT !.rows = {}]),
                     St("copy", [new |-> Names(new), old |-> old]),
                     St("dropTable", 0), St("renameTable", 0)>>
           sts == {St("createIndex", ix) : ix \in FixIndexes(d.indexes, op)}
<1>1. Rebuild(d, op) = five \o SetToSeq(sts) BY DEF Rebuild
<1>2. IsTable(t) BY DEF IsBase
<1>3. IsTable(new) /\ \A i \in DOMAIN Names(new) : Names(new)[i] = "id" => old[i] = "id"
  <2> DEFINE col == ColumnOf(t, op.col)
  <2>0. op.col # "id" /\ (op.op = "rename" => op.to # "id") BY DEF IsOperation
  <2>1. CASE op.op = "drop"
    <3>1. new = WithoutColumn(t, op.col) BY <2>1 DEF NewTable
    <3>2. IsTable(new) BY <1>2, <2>0, <2>1, <3>1, WithoutKeeps DEF Covers
    <3>3. old = Names(new) BY <2>1
    <3> QED BY <3>2, <3>3
  <2>2. ASSUME NEW c, NEW again, c # "id", again.name # "id"
        PROVE  \A i \in DOMAIN Names(Altered(t, c, again)) :
                 Names(Altered(t, c, again))[i] = "id" => Names(t)[i] = "id"
    <3> DEFINE cs == [i \in DOMAIN t.cols |-> IF t.cols[i].name = c THEN again ELSE t.cols[i]]
    <3>1. Altered(t, c, again) = [t EXCEPT !.cols = cs] BY DEF Altered
    <3>2. \A i \in DOMAIN cs : i \in DOMAIN t.cols /\ (cs[i].name = "id" => t.cols[i].name = "id") BY <2>2
    <3> HIDE DEF cs
    <3>3. Altered(t, c, again).cols = cs BY <1>2, <3>1 DEF IsTable
    <3> QED BY <3>2, <3>3 DEF Names
  <2>3. CASE op.op = "rename"
    <3> DEFINE named == Stated(op.to, col.type, col.null, col.default)
    <3>1. new = Renamed(t, op.col, op.to) BY <2>3 DEF NewTable
    <3>2. IsTable(new) BY <1>2, <2>0, <2>3, <3>1, RenamedKeeps DEF Covers
    <3>3. Names(new) = Names(Altered(t, op.col, named)) BY <3>1 DEF Renamed, Names
    <3>4. named.name # "id" BY <2>0, <2>3 DEF Stated
    <3>5. old = Names(t) BY <2>3
    <3> HIDE DEF named, new, old
    <3> QED BY <2>0, <2>2, <3>2, <3>3, <3>4, <3>5
  <2>4. CASE op.op \in {"null", "default"}
    <3> DEFINE stated == IF op.op = "null" THEN Stated(op.col, col.type, op.to, col.default)
                                           ELSE Stated(op.col, col.type, col.null, op.to)
    <3>1. new = Altered(t, op.col, stated) BY <2>4 DEF NewTable
    <3>2. stated.name # "id" BY <2>0 DEF Stated
    <3>3. old = Names(t) BY <2>4
    <3> HIDE DEF stated, old
    <3>4. IsTable(new) BY <1>2, <2>0, <3>1, AlteredKeeps DEF Covers
    <3> QED BY <2>0, <2>2, <3>1, <3>2, <3>3, <3>4
  <2>5. CASE op.op = "type"
    <3> DEFINE typed == Typed(col, op)
               alone == Altered(t, op.col, typed)
               keys == alone.fks \ {[col |-> op.col, inline |-> TRUE]}
    <3>1. new = [alone EXCEPT !.fks = keys] BY <2>5 DEF NewTable
    <3>2. col.name # "id" BY <2>0, <2>5, HasColumn DEF ColumnOf, PlaceOf
    <3>3. typed.name # "id" BY <3>2 DEF Typed, Stated
    <3>4. old = Names(t) BY <2>5
    <3> HIDE DEF typed, keys, old
    <3>5. Covers(t, alone) BY <1>2, <2>0, AlteredKeeps
    <3>6. Covers(alone, new) BY <3>1, <3>5, FksKeep DEF Covers
    <3>7. new.cols = alone.cols BY <3>1, <3>5 DEF Covers, IsTable
    <3>8. Names(new) = Names(alone) BY <3>7 DEF Names
    <3>9. IsTable(new) BY <3>6 DEF Covers
    <3> HIDE DEF new
    <3> QED BY <2>0, <2>2, <3>3, <3>4, <3>8, <3>9
  <2> QED BY <2>1, <2>3, <2>4, <2>5 DEF IsOperation
<1> HIDE DEF new, old
<1>4. IsTable([new EXCEPT !.rows = {}])
  <2> DEFINE e == [new EXCEPT !.rows = {}]
  <2>1. e = [cols |-> new.cols, fks |-> new.fks, rows |-> {}]
    <3>1. new = [cols |-> new.cols, fks |-> new.fks, rows |-> new.rows] BY <1>3 DEF IsTable
    <3>2. [[cols |-> new.cols, fks |-> new.fks, rows |-> new.rows] EXCEPT !.rows = {}]
          = [cols |-> new.cols, fks |-> new.fks, rows |-> {}] OBVIOUS
    <3> QED BY <3>1, <3>2, Zenon
  <2>2. e.cols = new.cols /\ e.fks = new.fks /\ e.rows = {} BY <2>1
  <2> HIDE DEF e
  <2> QED BY <1>3, <2>1, <2>2 DEF IsTable
<1>5. IsCopy([new |-> Names(new), old |-> old])
  <2>1. PICK i \in DOMAIN new.cols : new.cols[i].name = "id" BY <1>3 DEF IsTable
  <2>2. i \in DOMAIN Names(new) /\ Names(new)[i] = "id" BY <2>1 DEF Names
  <2> QED BY <1>3, <2>2 DEF IsCopy
<1>6. IsFiniteSet(sts)
  <2> DEFINE over == {ix \in d.indexes : Over(ix, op.col)}
             image == {FixIndex(ix, op.col, op.to) : ix \in over}
             f == [ix \in over |-> FixIndex(ix, op.col, op.to)]
             all == FixIndexes(d.indexes, op)
             g == [ix \in all |-> St("createIndex", ix)]
  <2>1. IsFiniteSet(d.indexes) BY DEF IsBase
  <2>2. IsFiniteSet(over) /\ IsFiniteSet(d.indexes \ over) BY <2>1, FS_Subset
  <2>3. f \in Surjection(over, image) BY DEF Surjection
  <2>4. IsFiniteSet(image)
    <3> HIDE DEF over, image, f
    <3> QED BY <2>2, <2>3, FS_Surjection
  <2>5. IsFiniteSet({}) BY FS_EmptySet
  <2>6. \/ all = (d.indexes \ over) \cup image
        \/ all = (d.indexes \ over) \cup {}
        \/ all = (d.indexes \ over) \cup over
    BY DEF FixIndexes
  <2>7. IsFiniteSet(all)
    <3> HIDE DEF over, image, all
    <3> QED BY <2>2, <2>4, <2>5, <2>6, FS_Union
  <2>8. g \in Surjection(all, sts) BY DEF Surjection
  <2> HIDE DEF all, sts, g
  <2> QED BY <2>7, <2>8, FS_Surjection
<1>7. Plain(SetToSeq(sts))
  <2>1. \A st \in sts : Harmless(st) BY DEF Harmless, St
  <2> HIDE DEF sts
  <2> QED BY <1>6, <2>1, SetAsSequence DEF Plain
<1>8. Rebuilding(five, 1)
  <2>1. five = [i \in 1 .. 5 |-> five[i]] OBVIOUS
  <2>2. /\ five[1].k = "dropTmp" /\ five[2].k = "create" /\ five[3].k = "copy"
        /\ five[4].k = "dropTable" /\ five[5].k = "renameTable"
        /\ five[2].arg = [new EXCEPT !.rows = {}] /\ five[3].arg = [new |-> Names(new), old |-> old]
    BY DEF St
  <2> HIDE DEF five
  <2>3. five \in Seq(ToSet(five)) /\ Len(five) = 5 BY <2>1, IsSequence
  <2>4. \A i \in 1 .. 5 : five[i].k = RebuildKinds[i] BY <2>2 DEF RebuildKinds
  <2> QED BY <1>4, <1>5, <2>2, <2>3, <2>4 DEF Rebuilding
<1> QED BY <1>1, <1>7, <1>8, RebuildThen

\* MySQL's way around a foreign key.
LEMMA ModifiedPlain ==
    ASSUME NEW t, NEW c, NEW sts, Plain(sts), NEW after PROVE Plain(Modified(t, c, sts, after))
<1>1. Plain(<<St("dropFk", c)>>) /\ Plain(<<St("addFk", after)>>) BY PlainOne DEF Harmless, St
<1>2. Plain((<<St("dropFk", c)>> \o sts) \o <<St("addFk", after)>>) BY <1>1, PlainBoth
<1> QED BY <1>2 DEF Modified

\* add_column() states nothing that touches the rows' ids.
LEMMA AddColumnPlain == ASSUME NEW a, IsOperation(a), a.op = "add" PROVE Plain(AddColumn(a))
<1> DEFINE null == [op |-> "null", col |-> a.to.name, to |-> FALSE]
           index == [op |-> "index", cols |-> <<a.to.name>>, to |-> FALSE]
           update == [col |-> a.to.name, to |-> a.value]
           s1 == AlterAddColumn(a)
           s2 == IF a.to.null \/ a.allow THEN <<>> ELSE <<St("update", update), St("op", null)>>
           s3 == IF a.fk /\ ExplicitFk THEN <<St("addFk", a.to.name)>> ELSE <<>>
           s4 == IF a.index THEN <<St("op", index)>> ELSE <<>>
<1>0. a.to.name # "id" BY DEF IsOperation
<1>1. Plain(s1) BY PlainOne DEF AlterAddColumn, Harmless, St
<1>2. Plain(s2)
  <2>1. Harmless(St("update", update)) BY <1>0 DEF Harmless, St
  <2>2. IsOperation(null) BY <1>0 DEF IsOperation
  <2>3. Harmless(St("op", null)) BY <2>2 DEF Harmless, St
  <2>4. Plain(<<St("update", update), St("op", null)>>) BY <2>1, <2>3, PlainTwo
  <2> QED BY <2>4, PlainNone
<1>3. Plain(s3) BY PlainOne, PlainNone DEF Harmless, St
<1>4. Plain(s4)
  <2>1. IsOperation(index) BY DEF IsOperation
  <2>2. Harmless(St("op", index)) BY <2>1 DEF Harmless, St
  <2> QED BY <2>2, PlainOne, PlainNone
<1>5. AddColumn(a) = s1 \o s2 \o s3 \o s4 BY DEF AddColumn
<1> HIDE DEF s1, s2, s3, s4
<1> QED BY <1>1, <1>2, <1>3, <1>4, <1>5, PlainBoth

\* An operation states what is harmless, or builds the table anew.
LEMMA OperationStates ==
    ASSUME NEW d, IsBase(d), "t" \in DOMAIN d.tables, NEW a, IsOperation(a),
           a.op \notin {"add", "index", "null"} => Has(d.tables["t"], a.col),
           dialect \in {"sqlite", "postgres", "mysql", "cockroach"}
    PROVE  Plain(Operation(d, a)) \/ Rebuilding(Operation(d, a), 1)
<1> DEFINE t == d.tables["t"]
<1>1. CASE a.op = "index"
  <2>1. Operation(d, a) = AddIndex(a) BY <1>1 DEF Operation
  <2>2. Plain(AddIndex(a)) BY PlainOne DEF AddIndex, Harmless, St
  <2> QED BY <2>1, <2>2
<1>2. CASE a.op = "add"
  <2>1. Operation(d, a) = AddColumn(a) BY <1>2 DEF Operation
  <2> QED BY <1>2, <2>1, AddColumnPlain
<1>3. CASE a.op \notin {"index", "add"}
  <2>0. a.col # "id" BY <1>3 DEF IsOperation
  <2>1. Plain(DropColumn(t, a))
    <3>1. Plain(<<St("drop", a.col)>>) /\ Plain(<<St("dropFk", a.col)>>) BY <2>0, PlainOne DEF Harmless, St
    <3> QED BY <3>1, PlainNone, PlainBoth DEF DropColumn
  <2>2. Plain(RenameColumn(t, a)) BY <2>0, PlainOne DEF RenameColumn, Harmless, St
  <2>3. Plain(AlterNull(t, a)) /\ Plain(AlterDefault(t, a)) /\ Plain(AlterType(t, a))
    BY PlainOne DEF AlterNull, AlterDefault, AlterType, Harmless, St
  <2>4. Plain(MySQLRename(d, a)) /\ Plain(MySQLNull(d, a))
    <3>1. \A new : Plain(Restate(d, a.col, new)) BY <2>0, PlainOne DEF Restate, Harmless, St
    <3> QED BY <3>1, ModifiedPlain DEF MySQLRename, MySQLNull
  <2>5. CASE dialect = "sqlite"
    <3>1. Operation(d, a) = SqliteOperation(d, a) BY <1>3, <2>5 DEF Operation
    <3>2. Rebuilding(Rebuild(d, a), 1) BY <1>3, <2>5, RebuildStarts
    <3>3. SqliteOperation(d, a) \in {DropColumn(t, a), RenameColumn(t, a), AlterNull(t, a), Rebuild(d, a)}
      BY DEF SqliteOperation
    <3> QED BY <2>1, <2>2, <2>3, <3>1, <3>2, <3>3
  <2>6. CASE dialect # "sqlite"
    <3>1. CASE a.op = "drop"
      <4>1. Operation(d, a) = DropColumn(t, a) BY <2>6, <3>1 DEF Operation
      <4> QED BY <2>1, <4>1
    <3>2. CASE a.op = "rename"
      <4>1. Operation(d, a) \in {MySQLRename(d, a), RenameColumn(t, a)} BY <2>6, <3>2 DEF Operation
      <4> QED BY <2>2, <2>4, <4>1
    <3>3. CASE a.op = "null"
      <4>1. Operation(d, a) \in {MySQLNull(d, a), AlterNull(t, a)} BY <2>6, <3>3 DEF Operation
      <4> QED BY <2>3, <2>4, <4>1
    <3>4. CASE a.op = "default"
      <4>1. Operation(d, a) = AlterDefault(t, a) BY <2>6, <3>4 DEF Operation
      <4> QED BY <2>3, <4>1
    <3>5. CASE a.op = "type"
      <4>1. Operation(d, a) = AlterType(t, a) BY <2>6, <3>5 DEF Operation
      <4> QED BY <2>3, <4>1
    <3> QED BY <1>3, <3>1, <3>2, <3>3, <3>4, <3>5 DEF IsOperation
  <2> QED BY <2>5, <2>6
<1> QED BY <1>1, <1>2, <1>3

\* What is left when the first statement is gone.
LEMMA PlainRest == ASSUME NEW s, Plain(s), s # <<>> PROVE Plain(Tail(s)) /\ Harmless(Head(s))
<1>1. /\ Tail(s) \in Seq(ToSet(Tail(s))) /\ Len(s) \in Nat \ {0}
      /\ DOMAIN s = 1 .. Len(s) /\ DOMAIN Tail(s) = 1 .. Len(s) - 1
      /\ \A i \in 1 .. Len(s) - 1 : Tail(s)[i] = s[i + 1]
      /\ Head(s) = s[1]
  BY Shorter DEF Plain
<1>2. ASSUME NEW i \in DOMAIN Tail(s) PROVE Harmless(Tail(s)[i])
  <2>1. i + 1 \in DOMAIN s /\ Tail(s)[i] = s[i + 1] BY <1>1
  <2> QED BY <2>1 DEF Plain
<1>3. 1 \in DOMAIN s BY <1>1
<1> QED BY <1>1, <1>2, <1>3 DEF Plain

\* What is left of a table's rebuilding when its first statement is gone.
LEMMA RebuildRest ==
    ASSUME NEW s, NEW n \in 1 .. 5, Rebuilding(s, n)
    PROVE  /\ s # <<>> /\ Head(s).k = RebuildKinds[n]
           /\ n = 2 => IsTable(Head(s).arg)
           /\ n = 3 => IsCopy(Head(s).arg)
           /\ n < 5 => Rebuilding(Tail(s), n + 1)
           /\ n = 5 => Plain(Tail(s))
<1>0. Len(s) >= 6 - n /\ s \in Seq(ToSet(s)) BY DEF Rebuilding
<1>1. s # <<>>
  <2>1. Len(<<>>) = 0 OBVIOUS
  <2> QED BY <1>0, <2>1
<1>2. /\ Tail(s) \in Seq(ToSet(Tail(s))) /\ Len(s) \in Nat \ {0} /\ Len(Tail(s)) = Len(s) - 1
      /\ DOMAIN s = 1 .. Len(s) /\ DOMAIN Tail(s) = 1 .. Len(s) - 1
      /\ \A i \in 1 .. Len(s) - 1 : Tail(s)[i] = s[i + 1]
      /\ Head(s) = s[1]
  BY <1>0, <1>1, Shorter
<1>3. \A i \in 1 .. 6 - n : s[i].k = RebuildKinds[n - 1 + i] BY DEF Rebuilding
<1>4. \A i \in 7 - n .. Len(s) : Harmless(s[i]) BY DEF Rebuilding
<1>5. (n <= 2 => IsTable(s[3 - n].arg)) /\ (n <= 3 => IsCopy(s[4 - n].arg)) BY DEF Rebuilding
<1>6. Head(s).k = RebuildKinds[n] BY <1>2, <1>3
<1>7. ASSUME n < 5 PROVE Rebuilding(Tail(s), n + 1)
  <2>1. \A i \in 1 .. 5 - n : Tail(s)[i] = s[i + 1] /\ s[i + 1].k = RebuildKinds[n + i] BY <1>0, <1>2, <1>3, <1>7
  <2>2. \A i \in 6 - n .. Len(s) - 1 : Tail(s)[i] = s[i + 1] /\ Harmless(s[i + 1])
    <3> TAKE i \in 6 - n .. Len(s) - 1
    <3>1. i \in 1 .. Len(s) - 1 /\ i + 1 \in 7 - n .. Len(s) BY <1>2, <1>7
    <3> QED BY <1>2, <1>4, <3>1
  <2>3. n + 1 <= 2 => IsTable(Tail(s)[3 - (n + 1)].arg)
    <3> SUFFICES ASSUME n + 1 <= 2 PROVE IsTable(Tail(s)[3 - (n + 1)].arg) OBVIOUS
    <3>0. n = 1 OBVIOUS
    <3>1. Tail(s)[1] = s[2] BY <1>0, <1>2, <3>0
    <3>2. 3 - (n + 1) = 1 /\ 3 - n = 2 BY <3>0
    <3>3. IsTable(s[2].arg) BY <1>5, <3>0, <3>2
    <3> QED BY <3>1, <3>2, <3>3
  <2>4. n + 1 <= 3 => IsCopy(Tail(s)[4 - (n + 1)].arg)
    <3> SUFFICES ASSUME n + 1 <= 3 PROVE IsCopy(Tail(s)[4 - (n + 1)].arg) OBVIOUS
    <3>0. n <= 2 OBVIOUS
    <3>1. 3 - n \in 1 .. Len(s) - 1 /\ (3 - n) + 1 = 4 - n BY <1>0, <1>2, <3>0
    <3>2. Tail(s)[3 - n] = s[4 - n] BY <1>2, <3>1
    <3>3. 4 - (n + 1) = 3 - n OBVIOUS
    <3>4. IsCopy(s[4 - n].arg) BY <1>5, <3>0
    <3> QED BY <3>2, <3>3, <3>4
  <2>5. 6 - (n + 1) = 5 - n /\ 7 - (n + 1) = 6 - n /\ \A i \in 1 .. 5 - n : (n + 1) - 1 + i = n + i OBVIOUS
  <2>6. \A i \in 1 .. 6 - (n + 1) : Tail(s)[i].k = RebuildKinds[(n + 1) - 1 + i] BY <2>1, <2>5
  <2>7. \A i \in 7 - (n + 1) .. Len(Tail(s)) : Harmless(Tail(s)[i]) BY <1>2, <2>2, <2>5
  <2>8. Len(Tail(s)) >= 6 - (n + 1) BY <1>0, <1>2
  <2> QED BY <1>2, <2>3, <2>4, <2>6, <2>7, <2>8 DEF Rebuilding
<1>8. ASSUME n = 5 PROVE Plain(Tail(s))
  <2>1. ASSUME NEW i \in DOMAIN Tail(s) PROVE Harmless(Tail(s)[i])
    <3>1. i \in 1 .. Len(s) - 1 /\ i + 1 \in 7 - n .. Len(s) BY <1>2, <1>8
    <3> QED BY <1>2, <1>4, <3>1
  <2> QED BY <1>2, <2>1 DEF Plain
<1> QED BY <1>1, <1>2, <1>5, <1>6, <1>7, <1>8

\* One of the five statements has been executed.
LEMMA RebuildStep ==
    ASSUME NEW d, IsBase(d), NEW sts, NEW n \in 1 .. 5, Rebuilding(sts, n), Enabled(d, Head(sts)),
           n <= 4 => Keeps(d, "t"), n = 3 => "tmp" \in DOMAIN d.tables, n >= 4 => Keeps(d, "tmp"),
           NEW e, e = After(d, Head(sts))
    PROVE  /\ IsBase(e)
           /\ n <= 3 => Keeps(e, "t")
           /\ n = 2 => "tmp" \in DOMAIN e.tables
           /\ n \in {3, 4} => Keeps(e, "tmp")
           /\ n = 5 => Keeps(e, "t")
<1> DEFINE st == Head(sts)
           a == st.arg
           ts == d.tables
           t == ts["t"]
<1>0. st.k = RebuildKinds[n] /\ (n = 2 => IsTable(a)) /\ (n = 3 => IsCopy(a)) BY RebuildRest
<1>1. /\ d = [tables |-> ts, indexes |-> d.indexes] /\ IsFiniteSet(d.indexes)
      /\ ts = [m \in DOMAIN ts |-> ts[m]] /\ DOMAIN ts \subseteq {"t", "tmp"}
      /\ \A m \in DOMAIN ts : IsTable(ts[m])
  BY DEF IsBase
<1> HIDE DEF st
<1>2. CASE n = 1
  <2> DEFINE us == [m \in DOMAIN ts \ {"tmp"} |-> ts[m]]
  <2>1. st.k = "dropTmp" BY <1>0, <1>2 DEF RebuildKinds
  <2>2. e = [d EXCEPT !.tables = us] BY <2>1 DEF After, st
  <2>3. e = [tables |-> us, indexes |-> d.indexes] BY <1>1, <2>2
  <2>4. "t" \in DOMAIN ts BY <1>2 DEF Keeps
  <2>5. IsBase(e) BY <1>1, <2>3 DEF IsBase
  <2>6. "t" \in DOMAIN us /\ us["t"] = t /\ e.tables = us BY <2>3, <2>4
  <2> QED BY <1>2, <2>5, <2>6 DEF Keeps
<1>3. CASE n = 2
  <2> DEFINE us == [m \in DOMAIN ts \cup {"tmp"} |-> IF m = "tmp" THEN a ELSE ts[m]]
  <2>1. st.k = "create" BY <1>0, <1>3 DEF RebuildKinds
  <2>2. e = [d EXCEPT !.tables = us] BY <2>1 DEF After, st
  <2>3. e = [tables |-> us, indexes |-> d.indexes] BY <1>1, <2>2
  <2>4. "t" \in DOMAIN ts BY <1>3 DEF Keeps
  <2>5. IsBase(e) BY <1>0, <1>1, <1>3, <2>3 DEF IsBase
  <2>6. {"t", "tmp"} \subseteq DOMAIN us /\ us["t"] = t /\ e.tables = us BY <2>3, <2>4
  <2> QED BY <1>3, <2>5, <2>6 DEF Keeps
<1>4. CASE n = 3
  <2> DEFINE tmp == ts["tmp"]
             from(c) == a.old[CHOOSE i \in DOMAIN a.new : a.new[i] = c]
             row(r) == [c \in ToSet(a.new) |-> r[from(c)]]
             rs == tmp.rows \cup {row(r) : r \in t.rows}
             more == [tmp EXCEPT !.rows = rs]
             us == [ts EXCEPT !["tmp"] = more]
  <2>1. st.k = "copy" BY <1>0, <1>4 DEF RebuildKinds
  <2>2. e = [d EXCEPT !.tables["tmp"].rows = @ \cup {row(r) : r \in t.rows}] BY <2>1 DEF After, st
  <2>3. {"t", "tmp"} \subseteq DOMAIN ts /\ IsTable(t) /\ IsTable(tmp) BY <1>1, <1>4 DEF Keeps
  <2>4. IsCopy(a) BY <1>0, <1>4
  <2>5. "id" \in ToSet(a.new) /\ from("id") = "id" BY <2>4 DEF IsCopy, ToSet
  <2>6. \A r \in t.rows : "id" \in DOMAIN row(r) /\ row(r)["id"] = r["id"] BY <2>5
  <2>7. e = [d EXCEPT !.tables = us] BY <1>1, <2>2, <2>3
  <2> HIDE DEF row
  <2>8. \A r \in rs : "id" \in DOMAIN r BY <2>3, <2>6 DEF IsTable
  <2>9. RowIds(t) \subseteq {r["id"] : r \in rs} BY <2>6 DEF RowIds
  <2> HIDE DEF rs
  <2>10. more = [cols |-> tmp.cols, fks |-> tmp.fks, rows |-> rs]
    <3>1. tmp = [cols |-> tmp.cols, fks |-> tmp.fks, rows |-> tmp.rows] BY <2>3 DEF IsTable
    <3>2. [[cols |-> tmp.cols, fks |-> tmp.fks, rows |-> tmp.rows] EXCEPT !.rows = rs]
          = [cols |-> tmp.cols, fks |-> tmp.fks, rows |-> rs] OBVIOUS
    <3> HIDE DEF tmp
    <3> QED BY <3>1, <3>2, Zenon
  <2> HIDE DEF more
  <2>11. IsTable(more) /\ RowIds(t) \subseteq RowIds(more)
    <3>1. more.cols = tmp.cols /\ more.fks = tmp.fks /\ more.rows = rs BY <2>10
    <3> QED BY <2>3, <2>8, <2>9, <2>10, <3>1 DEF IsTable, RowIds
  <2>12. /\ DOMAIN us = DOMAIN ts /\ us["tmp"] = more /\ us["t"] = t
         /\ us = [m \in DOMAIN us |-> us[m]]
    BY <1>1, <2>3
  <2> HIDE DEF us
  <2>13. e = [tables |-> us, indexes |-> d.indexes] BY <1>1, <2>7
  <2>14. \A m \in DOMAIN us : IsTable(us[m]) BY <1>1, <2>3, <2>11, <2>12
  <2>15. e.tables = us /\ e.indexes = d.indexes BY <2>13
  <2>16. IsBase(e) BY <1>1, <2>12, <2>13, <2>14, <2>15 DEF IsBase
  <2> QED BY <1>4, <2>3, <2>11, <2>12, <2>15, <2>16 DEF Keeps
<1>5. CASE n = 4
  <2> DEFINE us == [m \in DOMAIN ts \ {"t"} |-> ts[m]]
  <2>1. st.k = "dropTable" BY <1>0, <1>5 DEF RebuildKinds
  <2>2. e = [tables |-> us, indexes |-> {}] BY <2>1 DEF After, st
  <2>3. "tmp" \in DOMAIN ts BY <1>5 DEF Keeps
  <2>4. IsFiniteSet({}) BY FS_EmptySet
  <2>5. IsBase(e) BY <1>1, <2>2, <2>4 DEF IsBase
  <2>6. "tmp" \in DOMAIN us /\ us["tmp"] = ts["tmp"] /\ e.tables = us BY <2>2, <2>3
  <2> QED BY <1>5, <2>5, <2>6 DEF Keeps
<1>6. CASE n = 5
  <2> DEFINE us == [m \in {"t"} |-> ts["tmp"]]
  <2>1. st.k = "renameTable" BY <1>0, <1>6 DEF RebuildKinds
  <2>2. e = [d EXCEPT !.tables = us] BY <2>1 DEF After, st
  <2>3. e = [tables |-> us, indexes |-> d.indexes] BY <1>1, <2>2
  <2>4. "tmp" \in DOMAIN ts BY <1>6 DEF Keeps
  <2>5. IsBase(e) BY <1>1, <2>3, <2>4 DEF IsBase
  <2>6. "t" \in DOMAIN us /\ us["t"] = ts["tmp"] /\ e.tables = us BY <2>3
  <2> QED BY <1>6, <2>5, <2>6 DEF Keeps
<1> QED BY <1>2, <1>3, <1>4, <1>5, <1>6

\* The row of another connection.
LEMMA OtherRow ==
    ASSUME NEW d, IsBase(d), "t" \in DOMAIN d.tables, NEW row, "id" \in DOMAIN row,
           NEW e, e = [d EXCEPT !.tables["t"].rows = @ \cup {row}]
    PROVE  RowsKept(d, e) /\ e.tables["t"].cols = d.tables["t"].cols
<1> DEFINE t == d.tables["t"]
           rs == t.rows \cup {row}
           new == [t EXCEPT !.rows = rs]
<1>1. IsTable(t) /\ IsFiniteSet(d.indexes) BY DEF IsBase
<1>2. e = [tables |-> [d.tables EXCEPT !["t"] = new], indexes |-> d.indexes] BY DEF IsBase
<1>3. \A r \in rs : "id" \in DOMAIN r BY <1>1 DEF IsTable
<1>4. RowIds(t) \subseteq {r["id"] : r \in rs} BY DEF RowIds
<1> HIDE DEF rs
<1>5. Covers(t, new) BY <1>1, <1>3, <1>4, RowsKeep
<1>6. new.cols = t.cols BY <1>1 DEF IsTable
<1> HIDE DEF new
<1>7. e.tables["t"] = new BY <1>2 DEF IsBase
<1> QED BY <1>1, <1>2, <1>5, <1>6, <1>7, ReplacedKeeps

\* The invariant holds at first.
LEMMA MigratorStarts == MigratorInit => MigratorInv
<1> SUFFICES ASSUME MigratorInit PROVE MigratorInv OBVIOUS
<1> DEFINE none == [t \in {} |-> None]
<1>1. dbase = [tables |-> none, indexes |-> {}] BY DEF MigratorInit
<1>2. DOMAIN none = {} /\ none = [n \in DOMAIN none |-> none[n]] OBVIOUS
<1>3. IsFiniteSet({}) BY FS_EmptySet
<1> HIDE DEF none
<1>4. IsBase(dbase) BY <1>1, <1>2, <1>3 DEF IsBase
<1> QED BY <1>4 DEF MigratorInit, MigratorInv

\* And each step keeps it.
LEMMA SetupKeeps ==
    ASSUME MigratorInv, NEW dl \in Dialects, NEW v, NEW start \in Tables, Setup(dl, v, start)
    PROVE  MigratorInv'
<1> DEFINE ts == [t \in {"t"} |-> start.table]
<1>1. IsTable(start.table) /\ IsFiniteSet(start.indexes) BY MigratorAssumption DEF IsTable
<1>2. dbase' = [tables |-> ts, indexes |-> start.indexes] BY DEF Setup
<1>3. IsBase(dbase') BY <1>1, <1>2 DEF IsBase
<1>4. DOMAIN dbase.tables = {} BY DEF Setup
<1>5. stage = "idle" /\ keptRows = {} BY <1>4 DEF MigratorInv
<1>6. DOMAIN dbase'.tables # {} BY <1>2
<1>7. dialect' \in {"sqlite", "postgres", "mysql", "cockroach"} BY MigratorAssumption DEF Setup
<1> QED BY <1>3, <1>5, <1>6, <1>7 DEF Setup, MigratorInv

\* A call finds all the rows in table "t".
LEMMA CallKeeps ==
    ASSUME MigratorInv, NEW a \in Asked, NEW w, Call(a, w) PROVE MigratorInv'
<1> DEFINE t == dbase.tables["t"]
<1>1. IsBase(dbase) /\ "t" \in DOMAIN dbase.tables BY DEF Call, MigratorInv
<1>2. IsTable(t) BY <1>1 DEF IsBase
<1>3. Has(t, "id") BY <1>2, HasColumn DEF IsTable
<1>4. IsOperation(a) BY <1>3, MigratorAssumption DEF Call, Sensible, IsOperation
<1>5. a.op \notin {"add", "index"} => Has(t, a.col) BY <1>4 DEF Call, Sensible, IsOperation
<1>6. /\ dbase' = dbase /\ dialect' = dialect /\ keptRows' = RowIds(t) /\ todo' = <<St("op", a)>>
      /\ asked' = a /\ stage' = "run" /\ saved' = <<dbase, child>> /\ child' = child
  BY DEF Call
<1>7. Keeps(dbase, "t")' BY <1>1, <1>6 DEF Keeps
<1>8. saved'[1] = dbase' /\ saved'[2] = child' BY <1>6
<1>9. Running' BY <1>4, <1>5, <1>6, <1>7 DEF Running
<1> QED BY <1>1, <1>6, <1>7, <1>8, <1>9 DEF MigratorInv, Keeps

\* An operation's turn: what it states is harmless, or builds the table anew.
LEMMA ExpandKeeps == ASSUME MigratorInv, Expand PROVE MigratorInv'
<1>0. stage = "run" /\ todo # <<>> /\ Head(todo).k = "op" /\ Running /\ IsBase(dbase) BY DEF Expand, MigratorInv
<1>1. /\ todo' = Operation(dbase, Head(todo).arg) \o Tail(todo)
      /\ UNCHANGED <<dialect, version, way, dbase, child, saved, asked, goal, stage, keptRows, calls, mishaps>>
  BY DEF Expand
<1>2. /\ Keeps(dbase, "t") /\ Plain(Tail(todo)) /\ IsOperation(Head(todo).arg)
      /\ Head(todo).arg.op \notin {"add", "index", "null"} => Has(dbase.tables["t"], Head(todo).arg.col)
  <2>1. CASE /\ todo = <<St("op", asked)>> /\ IsOperation(asked) /\ Keeps(dbase, "t")
             /\ asked.op \notin {"add", "index"} => Has(dbase.tables["t"], asked.col)
    <3>1. Head(todo) = St("op", asked) /\ Tail(todo) = <<>> BY <2>1
    <3>2. Head(todo).arg = asked BY <3>1 DEF St
    <3> QED BY <2>1, <3>1, <3>2, PlainNone
  <2>2. CASE Plain(todo) /\ Keeps(dbase, "t")
    <3>1. Plain(Tail(todo)) /\ Harmless(Head(todo)) BY <1>0, <2>2, PlainRest
    <3> QED BY <1>0, <2>2, <3>1 DEF Harmless
  <2>3. ASSUME NEW n \in 1 .. 5, Rebuilding(todo, n) PROVE FALSE
    <3>1. Head(todo).k = RebuildKinds[n] BY <2>3, RebuildRest
    <3> QED BY <1>0, <3>1 DEF RebuildKinds
  <2> QED BY <1>0, <2>1, <2>2, <2>3 DEF Running
<1>3. \/ Plain(Operation(dbase, Head(todo).arg))
      \/ Rebuilding(Operation(dbase, Head(todo).arg), 1)
  BY <1>0, <1>2, OperationStates DEF Keeps, MigratorInv
<1>4. Plain(todo') \/ Rebuilding(todo', 1) BY <1>1, <1>2, <1>3, PlainBoth, RebuildThen
<1>5. Keeps(dbase, "t")' BY <1>1, <1>2 DEF Keeps
<1>6. Running' BY <1>4, <1>5 DEF Running
<1> QED BY <1>0, <1>1, <1>6 DEF MigratorInv, Keeps, InTxn, TransactionalDdl

\* What a call is doing leaves the rows somewhere.
LEMMA RunningKeeps == ASSUME Running PROVE Keeps(dbase, "t") \/ Keeps(dbase, "tmp")
BY DEF Running

\* A failure leaves what there is, or the transaction puts back what there was.
LEMMA FailKeeps == ASSUME MigratorInv, stage = "run", Fail PROVE MigratorInv'
<1>0. Running /\ IsBase(saved[1]) /\ Keeps(saved[1], "t") /\ IsBase(dbase) BY DEF MigratorInv
<1>1. Keeps(dbase, "t") \/ Keeps(dbase, "tmp") BY <1>0, RunningKeeps
<1>2. /\ stage' = "failed" /\ keptRows' = keptRows /\ saved' = saved /\ dialect' = dialect /\ way' = way
      /\ InTxn' = InTxn
  BY DEF Fail, InTxn, TransactionalDdl
<1>3. CASE InTxn
  <2>1. dbase' = saved[1] /\ child' = saved[2] BY <1>3 DEF Fail
  <2>2. Keeps(dbase, "t")' /\ IsBase(dbase') /\ Keeps(saved[1], "t")' BY <1>0, <1>2, <2>1 DEF Keeps
  <2>3. DOMAIN dbase'.tables # {} BY <2>2 DEF Keeps
  <2> QED BY <1>0, <1>2, <2>1, <2>2, <2>3 DEF MigratorInv
<1>4. CASE ~InTxn
  <2>1. dbase' = dbase /\ child' = child BY <1>4 DEF Fail
  <2>2. (Keeps(dbase, "t") \/ Keeps(dbase, "tmp"))' /\ Keeps(saved[1], "t")' BY <1>0, <1>1, <1>2, <2>1 DEF Keeps
  <2>3. DOMAIN dbase'.tables # {} BY <2>2 DEF Keeps
  <2> QED BY <1>0, <1>2, <1>4, <2>1, <2>2, <2>3 DEF MigratorInv
<1> QED BY <1>3, <1>4

\* A statement is harmless, or the next of the five.
LEMMA ExecuteKeeps == ASSUME MigratorInv, ExecuteStatement PROVE MigratorInv'
<1>0. /\ stage = "run" /\ todo # <<>> /\ Head(todo).k # "op" /\ Running /\ IsBase(dbase)
      /\ IsBase(saved[1]) /\ Keeps(saved[1], "t")
  BY DEF ExecuteStatement, MigratorInv
<1>1. CASE ~Enabled(dbase, Head(todo)) BY <1>0, <1>1, FailKeeps DEF ExecuteStatement
<1>2. CASE Enabled(dbase, Head(todo))
  <2>1. /\ dbase' = After(dbase, Head(todo)) /\ todo' = Tail(todo)
        /\ child' = (child /\ ~(Head(todo).k = "dropTable" /\ Cascades))
        /\ UNCHANGED <<dialect, version, way, saved, asked, goal, stage, keptRows, calls>>
    BY <1>2 DEF ExecuteStatement
  <2>2. way = "context" => child' = saved[2]
    <3>1. way = "context" => ~Cascades /\ child = saved[2] BY DEF Cascades, MigratorInv
    <3>2. child \in BOOLEAN BY DEF MigratorInv
    <3>3. CASE way = "context"
      <4>1. child' = child BY <2>1, <3>1, <3>2, <3>3
      <4> QED BY <3>1, <3>3, <4>1
    <3> QED BY <3>3
  <2>3. IsBase(dbase') /\ Running'
    <3>1. CASE /\ todo = <<St("op", asked)>> /\ IsOperation(asked) /\ Keeps(dbase, "t")
               /\ asked.op \notin {"add", "index"} => Has(dbase.tables["t"], asked.col)
      BY <1>0, <3>1 DEF St
    <3>2. CASE Plain(todo) /\ Keeps(dbase, "t")
      <4>1. Plain(Tail(todo)) /\ Harmless(Head(todo)) BY <1>0, <3>2, PlainRest
      <4>2. "t" \in DOMAIN dbase.tables BY <3>2 DEF Keeps
      <4>3. RowsKept(dbase, dbase') BY <1>0, <1>2, <2>1, <4>1, <4>2, HarmlessKeeps
      <4>4. Keeps(dbase, "t")' BY <2>1, <3>2, <4>3 DEF RowsKept, Keeps
      <4>5. Plain(todo') BY <2>1, <4>1
      <4>6. Running' BY <4>4, <4>5 DEF Running
      <4> QED BY <4>3, <4>6 DEF RowsKept
    <3>3. ASSUME NEW n \in 1 .. 5, Rebuilding(todo, n), n <= 4 => Keeps(dbase, "t"),
                 n = 3 => "tmp" \in DOMAIN dbase.tables, n >= 4 => Keeps(dbase, "tmp")
          PROVE  IsBase(dbase') /\ Running'
      <4>1. /\ IsBase(dbase')
            /\ n <= 3 => Keeps(dbase', "t")
            /\ n = 2 => "tmp" \in DOMAIN dbase'.tables
            /\ n \in {3, 4} => Keeps(dbase', "tmp")
            /\ n = 5 => Keeps(dbase', "t")
        BY <1>0, <1>2, <2>1, <3>3, RebuildStep
      <4>2. /\ n <= 3 => Keeps(dbase, "t")'
            /\ n \in {3, 4} => Keeps(dbase, "tmp")'
            /\ n = 5 => Keeps(dbase, "t")'
        BY <2>1, <4>1 DEF Keeps
      <4>3. CASE n = 5
        <5>1. Plain(todo') BY <2>1, <3>3, <4>3, RebuildRest
        <5> QED BY <4>1, <4>2, <4>3, <5>1 DEF Running
      <4>4. CASE n < 5
        <5>1. Rebuilding(todo', n + 1) BY <2>1, <3>3, <4>4, RebuildRest
        <5>2. n + 1 \in 1 .. 5 BY <4>4
        <5>3. /\ n + 1 <= 4 => Keeps(dbase, "t")'
              /\ n + 1 = 3 => "tmp" \in DOMAIN dbase'.tables
              /\ n + 1 >= 4 => Keeps(dbase, "tmp")'
          BY <4>1, <4>2, <4>4
        <5>4. Running' BY <5>1, <5>2, <5>3 DEF Running
        <5> QED BY <4>1, <5>4
      <4> QED BY <4>3, <4>4
    <3> QED BY <1>0, <3>1, <3>2, <3>3 DEF Running
  <2>4. (Keeps(dbase, "t") \/ Keeps(dbase, "tmp"))' BY <2>3 DEF Running
  <2>5. DOMAIN dbase'.tables # {} BY <2>4 DEF Keeps
  <2>6. Keeps(saved[1], "t")' BY <1>0, <2>1 DEF Keeps
  <2>7. child' \in BOOLEAN /\ saved'[2] \in BOOLEAN
    <3>1. child \in BOOLEAN /\ saved[2] \in BOOLEAN BY DEF MigratorInv
    <3>2. saved' = saved /\ (child' = child \/ child' = FALSE) BY <2>1, <3>1
    <3> QED BY <3>1, <3>2
  <2> QED BY <1>0, <2>1, <2>2, <2>3, <2>5, <2>6, <2>7 DEF MigratorInv
<1> QED BY <1>1, <1>2

\* A call that returns has nothing left to do, so the rows are in "t".
LEMMA FinishedKeeps == ASSUME MigratorInv, Finished PROVE MigratorInv'
<1>1. /\ stage = "run" /\ todo = <<>> /\ stage' = "done" /\ Running
      /\ UNCHANGED <<dialect, version, way, dbase, child, saved, todo, asked, goal, keptRows, calls, mishaps>>
  BY DEF Finished, MigratorInv
<1>2. \A n \in 1 .. 5 : ~Rebuilding(todo, n) BY <1>1, RebuildRest
<1>3. Keeps(dbase, "t")
  <2>1. todo # <<St("op", asked)>> BY <1>1
  <2> QED BY <1>1, <1>2, <2>1 DEF Running
<1>4. Keeps(dbase, "t")' /\ InTxn' = InTxn BY <1>1, <1>3 DEF Keeps, InTxn, TransactionalDdl
<1> QED BY <1>1, <1>4 DEF MigratorInv, Keeps

\* Another connection's row is one more in "t".
LEMMA OtherWritesKeeps == ASSUME MigratorInv, OtherWrites PROVE MigratorInv'
<1> DEFINE t == dbase.tables["t"]
           row == [c \in ToSet(Names(t)) |-> IF c = "id" THEN "late" ELSE "w"]
<1>0. IsBase(dbase) /\ "t" \in DOMAIN dbase.tables BY DEF OtherWrites, MigratorInv
<1>1. /\ dbase' = [dbase EXCEPT !.tables["t"].rows = @ \cup {row}]
      /\ UNCHANGED <<dialect, version, way, child, saved, todo, asked, goal, stage, keptRows, calls>>
  BY DEF OtherWrites
<1>2. IsTable(t) BY <1>0 DEF IsBase
<1>3. Has(t, "id") BY <1>2, HasColumn DEF IsTable
<1>4. "id" \in DOMAIN row BY <1>3 DEF Has
<1> HIDE DEF row
<1>5. RowsKept(dbase, dbase') /\ dbase'.tables["t"].cols = t.cols BY <1>0, <1>1, <1>4, OtherRow
<1>6. /\ Keeps(dbase, "t") => Keeps(dbase, "t")'
      /\ Keeps(dbase, "tmp") => Keeps(dbase, "tmp")'
  BY <1>1, <1>5 DEF Keeps, RowsKept
<1>7. ASSUME NEW c PROVE Has(t, c) => Has(dbase'.tables["t"], c) BY <1>5 DEF Has, Names
<1>8. Running => Running'
  <2>1. CASE /\ todo = <<St("op", asked)>> /\ IsOperation(asked) /\ Keeps(dbase, "t")
             /\ asked.op \notin {"add", "index"} => Has(dbase.tables["t"], asked.col)
    BY <1>1, <1>6, <1>7, <2>1 DEF Running
  <2>2. CASE Plain(todo) /\ Keeps(dbase, "t")
    BY <1>1, <1>6, <2>2 DEF Running
  <2>3. ASSUME NEW n \in 1 .. 5, Rebuilding(todo, n), n <= 4 => Keeps(dbase, "t"),
               n = 3 => "tmp" \in DOMAIN dbase.tables, n >= 4 => Keeps(dbase, "tmp")
        PROVE  Running'
    <3>1. DOMAIN dbase'.tables = DOMAIN dbase.tables BY <1>5 DEF RowsKept
    <3>2. Rebuilding(todo', n) BY <1>1, <2>3
    <3> QED BY <1>6, <2>3, <3>1, <3>2 DEF Running
  <2> QED BY <2>1, <2>2, <2>3 DEF Running
<1>9. InTxn' = InTxn /\ IsBase(dbase') /\ DOMAIN dbase'.tables # {} /\ (stage # "idle" => Keeps(saved[1], "t")')
  <2>1. stage # "idle" => Keeps(saved[1], "t") BY DEF MigratorInv
  <2> QED BY <1>0, <1>1, <1>5, <2>1 DEF RowsKept, InTxn, TransactionalDdl, Keeps
<1> QED BY <1>0, <1>1, <1>6, <1>8, <1>9 DEF MigratorInv

\* Wherever an operation is, all the rows are where its remaining statements expect them.
THEOREM MigratorInvariant == MigratorSpec => []MigratorInv
<1>1. ASSUME MigratorInv, [MigratorNext]_schemaVars PROVE MigratorInv'
  <2>1. ASSUME NEW dl \in Dialects, NEW v, NEW start \in Tables, Setup(dl, v, start) PROVE MigratorInv'
    BY <1>1, <2>1, SetupKeeps
  <2>2. ASSUME NEW a \in Asked, NEW w, Call(a, w) PROVE MigratorInv' BY <1>1, <2>2, CallKeeps
  <2>3. CASE Expand BY <1>1, <2>3, ExpandKeeps
  <2>4. CASE ExecuteStatement BY <1>1, <2>4, ExecuteKeeps
  <2>5. CASE Interrupted BY <1>1, <2>5, FailKeeps DEF Interrupted
  <2>6. CASE Finished BY <1>1, <2>6, FinishedKeeps
  <2>7. CASE OtherWrites BY <1>1, <2>7, OtherWritesKeeps
  <2>8. CASE UNCHANGED schemaVars
    <3>1. /\ UNCHANGED <<dialect, way, dbase, child, saved, todo, asked, stage, keptRows>>
      BY <2>8 DEF schemaVars
    <3>2. MigratorInv BY <1>1
    <3> QED BY <3>1, <3>2 DEF MigratorInv, Running, Keeps, InTxn, TransactionalDdl
  <2> QED BY <1>1, <2>1, <2>2, <2>3, <2>4, <2>5, <2>6, <2>7, <2>8 DEF MigratorNext
<1> QED BY <1>1, MigratorStarts, PTL DEF MigratorSpec

\* Wherever an operation is interrupted, no row it found is lost: it is in the table or
\* in the one that is to replace it, and a transaction leaves nothing half done.
THEOREM RowsAreKept == MigratorSpec => []RowsSurvive
<1>1. MigratorInv => RowsSurvive
  <2> SUFFICES ASSUME MigratorInv PROVE RowsSurvive OBVIOUS
  <2> DEFINE d == IF stage = "run" /\ InTxn THEN saved[1] ELSE dbase
  <2>1. stage # "idle" => Keeps(d, "t") \/ Keeps(d, "tmp") BY RunningKeeps DEF MigratorInv
  <2>2. stage # "idle" /\ InTxn => Keeps(d, "t") BY DEF MigratorInv
  <2>3. way = "context" => child = saved[2] BY DEF MigratorInv
  <2>4. stage = "idle" => keptRows = {} BY DEF MigratorInv
  <2> QED BY <2>1, <2>2, <2>3, <2>4 DEF RowsSurvive, Keeps
<1> QED BY <1>1, MigratorInvariant, PTL

=============================================================================
