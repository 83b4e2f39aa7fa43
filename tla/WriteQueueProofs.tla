-------------------------- MODULE WriteQueueProofs --------------------------
(***************************************************************************)
(* The write queue for any number of clients, controllers, writes and       *)
(* writers, and a queue of any size.                                        *)
(***************************************************************************)
EXTENDS WriteQueue, FiniteSetTheorems, SequenceTheorems, TLAPS

USE QueueAssumption

-----------------------------------------------------------------------------
(***************************************************************************)
(* Messages and the queue.                                                 *)
(***************************************************************************)

\* A message is a write, the end, or asks for a pause or for its end.
LEMMA MessageFacts ==
    \A m \in Messages :
        /\ m.op \in {"query", "shutdown", "pause", "unpause"}
        /\ m.op = "query" => m.write \in Writes /\ m = Query(m.write)
        /\ m.op \in {"pause", "unpause"} => m.by \in Controllers
BY DEF Messages, Query, Control, Shutdown

\* Every message is in the type of the queue.
LEMMA MessageMakers ==
    /\ \A i \in Writes : Query(i) \in Messages /\ Query(i).op = "query" /\ Query(i).write = i
    /\ Shutdown \in Messages /\ Shutdown.op = "shutdown"
    /\ \A c \in Controllers, op \in {"pause", "unpause"} :
          Control(op, c) \in Messages /\ Control(op, c).op = op
<1>1. \A i \in Writes : Query(i) \in Messages /\ Query(i).op = "query" /\ Query(i).write = i
  BY DEF Messages, Query
<1>2. Shutdown \in Messages /\ Shutdown.op = "shutdown"
  BY DEF Messages, Shutdown
<1>3. \A c \in Controllers, op \in {"pause", "unpause"} :
         Control(op, c) \in Messages /\ Control(op, c).op = op
  <2> SUFFICES ASSUME NEW c \in Controllers, NEW op \in {"pause", "unpause"}
               PROVE  Control(op, c) \in Messages /\ Control(op, c).op = op
    OBVIOUS
  <2>1. Control(op, c) \in {Control(o, d) : o \in {"pause", "unpause"}, d \in Controllers}
    OBVIOUS
  <2> QED
    BY <2>1 DEF Messages, Control
<1> QED
  BY <1>1, <1>2, <1>3

\* What put() does to the queue.
LEMMA PutFacts ==
    ASSUME queue \in Seq(Messages), NEW m \in Messages, Put(m)
    PROVE  /\ queue' \in Seq(Messages) /\ Len(queue) \in Nat
           /\ Len(queue') = Len(queue) + 1
           /\ \A k \in 1 .. Len(queue) : queue'[k] = queue[k]
           /\ queue'[Len(queue) + 1] = m
BY AppendProperties, LenProperties DEF Put

\* What get() does to the queue.
LEMMA GotFacts ==
    ASSUME queue \in Seq(Messages), queue # <<>>, Got
    PROVE  /\ queue' \in Seq(Messages) /\ Head(queue) \in Messages
           /\ Len(queue) \in Nat \ {0}
           /\ Len(queue') = Len(queue) - 1
           /\ Head(queue) = queue[1]
           /\ \A k \in 1 .. Len(queue') : queue'[k] = queue[k + 1]
BY HeadTailProperties, LenProperties, EmptySeq DEF Got

\* The number of writes submitted is a number.
LEMMA SubmittedType == Submitted \in Nat
<1>1. IsFiniteSet(1 .. MaxWrites)
  BY FS_Interval
<1>2. IsFiniteSet({i \in Writes : answer[i] # "none"})
  BY <1>1, FS_Subset DEF Writes
<1> QED
  BY <1>2, FS_CardinalityType DEF Submitted

-----------------------------------------------------------------------------
(***************************************************************************)
(* Types.                                                                  *)
(***************************************************************************)

\* The types hold at the beginning.
LEMMA TypeInit == Init => TypeOK
<1> SUFFICES ASSUME Init PROVE TypeOK
  OBVIOUS
<1>1. queue \in Seq(Messages) /\ Len(queue) = 0 /\ log \in Seq(Writes)
  BY EmptySeq DEF Init
<1> QED
  BY <1>1 DEF Init, TypeOK, Modes, Answers, Points, Alive, Threads

\* The steps of a client.
LEMMA TypeClient ==
    ASSUME TypeOK, NEW t \in Clients, ClientStep(t)
    PROVE  TypeOK'
<1> USE DEF TypeOK, Answers, Points, Threads, Goto
<1>1. CASE Submit(t)
  <2> DEFINE i == Submitted + 1
  <2>1. i \in Writes /\ i \in 1 .. MaxWrites
    BY <1>1, SubmittedType DEF Submit, Writes
  <2>2. Query(i) \in Messages
    BY <2>1, MessageMakers
  <2>3. Put(Query(i)) /\ Room /\ answer' = [answer EXCEPT ![i] = "pending"]
        /\ awaits' = [awaits EXCEPT ![t] = i] /\ pc' = [pc EXCEPT ![t] = "wait"]
        /\ UNCHANGED <<control, writers, log, locals>>
    BY <1>1 DEF Submit, Tell
  <2>4. queue' \in Seq(Messages) /\ Len(queue') <= QueueSize
    <3>1. queue' \in Seq(Messages) /\ Len(queue') = Len(queue) + 1 /\ Len(queue) \in Nat
      BY <2>2, <2>3, PutFacts
    <3> QED
      BY <2>3, <3>1 DEF Room
  <2> HIDE DEF i
  <2> QED
    BY <2>1, <2>3, <2>4 DEF control, writers, locals
<1>2. CASE GetResult(t) \/ ResultTimeout(t)
  BY <1>2 DEF GetResult, ResultTimeout, control, writers, results, locals
<1> QED
  BY <1>1, <1>2 DEF ClientStep

\* The calls and steps of a controller.
LEMMA TypeCall ==
    ASSUME TypeOK, NEW c \in Controllers, Call(c)
    PROVE  TypeOK'
<1>1. calls' \in [Controllers -> 0 .. MaxCalls]
  <2>1. calls[c] > 0 /\ calls' = [calls EXCEPT ![c] = calls[c] - 1]
    BY DEF Call, start, stop, pause, unpause, CallLocked, CallFrom
  <2>2. calls \in [Controllers -> 0 .. MaxCalls] /\ MaxCalls \in Nat
    BY DEF TypeOK
  <2>3. calls[c] - 1 \in 0 .. MaxCalls
    BY <2>1, <2>2
  <2> QED
    BY <2>1, <2>2, <2>3
<1> USE DEF TypeOK, Points, Modes, Alive, Threads, Goto, CallFrom, results, writers
<1>2. CASE start(c)
  <2>1. CASE isStopped /\ ~UNCHANGED <<isStopped, writer, mode>>
    <3>1. /\ writer + 1 \in Writers /\ writer' = writer + 1
          /\ mode' = [mode EXCEPT ![writer + 1] = "starting"] /\ isStopped' = FALSE
          /\ UNCHANGED <<queue, qlock, task, results, pc, awaits, event, joined, pledged>>
      BY <1>2, <2>1 DEF start, Writers
    <3>2. mode' \in [Writers -> Modes] /\ writer' \in 0 .. MaxWriters
      BY <3>1 DEF Writers
    <3> QED
      BY <1>1, <3>1, <3>2
  <2>2. CASE UNCHANGED <<isStopped, writer, mode>>
    BY <1>1, <1>2, <2>2 DEF start
  <2> QED
    BY <1>2, <2>1, <2>2 DEF start
<1>3. ASSUME NEW points, NEW first \in Points, CallLocked(c, points, first)
      PROVE  TypeOK'
  BY <1>1, <1>3 DEF CallLocked
<1> QED
  BY <1>2, <1>3 DEF Call, stop, pause, unpause

\* start(), stop(), pause() and unpause() keep the types.
LEMMA TypeController ==
    ASSUME TypeOK, NEW c \in Controllers, ControllerStep(c)
    PROVE  TypeOK'
<1> USE DEF TypeOK, Points, Threads, Goto
<1>1. CASE StopPut(c)
  <2>1. Put(Shutdown) /\ Room /\ Shutdown \in Messages
    BY <1>1, MessageMakers DEF StopPut
  <2>2. queue' \in Seq(Messages) /\ Len(queue') <= QueueSize
    BY <2>1, PutFacts DEF Room
  <2>3. InHands \subseteq Writes
    BY DEF InHands
  <2> QED
    BY <1>1, <2>2, <2>3 DEF StopPut, writers, results
<1>2. CASE Join(c) \/ DrainCheck(c) \/ PauseReturn(c) \/ UnpauseReturn(c)
  BY <1>2 DEF Join, DrainCheck, PauseReturn, UnpauseReturn, control, writers, results,
              locals
<1>3. CASE DrainGet(c)
  <2> DEFINE m == Head(queue)
  <2>1. queue # <<>> /\ Got
    BY <1>3 DEF DrainGet
  <2>2. m \in Messages /\ queue' \in Seq(Messages) /\ Len(queue') <= QueueSize
    BY <2>1, GotFacts
  <2>3. /\ IF m.op = "query" THEN answer' = [answer EXCEPT ![m.write] = "shutdown"]
           ELSE answer' = answer
        /\ event' = IF m.op \in {"pause", "unpause"}
                    THEN [event EXCEPT ![m.by] = TRUE] ELSE event
        /\ pc' = [pc EXCEPT ![c] = "drain"]
        /\ UNCHANGED <<control, writers, log, awaits, joined, calls, pledged>>
    BY <1>3 DEF DrainGet, Tell
  <2>4. m.op = "query" => m.write \in Writes
    BY <2>2, MessageFacts
  <2> HIDE DEF m
  <2> QED
    BY <2>2, <2>3, <2>4 DEF control, writers, Answers
<1>4. CASE PausePut(c) \/ UnpausePut(c)
  <2>1. PICK op \in {"pause", "unpause"} : ControlPut(c, op)
    BY <1>4 DEF PausePut, UnpausePut
  <2>2. Put(Control(op, c)) /\ Room /\ Control(op, c) \in Messages
    BY <2>1, MessageMakers DEF ControlPut
  <2>3. queue' \in Seq(Messages) /\ Len(queue') <= QueueSize
    BY <2>2, PutFacts DEF Room
  <2> QED
    BY <1>4, <2>1, <2>3 DEF PausePut, UnpausePut, ControlPut, writers, results
<1> QED
  BY <1>1, <1>2, <1>3, <1>4 DEF ControllerStep

\* What a writer makes of the message it has taken.
Applied(w, m) ==
    /\ m.op = "query" /\ mode[w] = "running"
    /\ log' = Append(log, m.write) /\ Tell(m.write, "done")
    /\ UNCHANGED <<mode, event>>

Refused(w, m) ==
    /\ m.op = "query"
    /\ \E what \in {"failed", "paused"} : Tell(m.write, what)
    /\ UNCHANGED <<mode, log, event>>

Crashed(w, m) ==
    /\ m.op = "query"
    /\ mode' = [mode EXCEPT ![w] = "crashed"]
    /\ UNCHANGED <<answer, log, event>>

Obeyed(w, m) ==
    /\ m.op # "query"
    /\ \/ m.op = "pause" /\ mode' = [mode EXCEPT ![w] = "paused"]
       \/ m.op = "unpause" /\ mode' = IF mode[w] = "paused" THEN [mode EXCEPT ![w] = "starting"]
                                      ELSE mode
       \/ m.op = "shutdown" /\ mode' = [mode EXCEPT ![w] = "dead"]
    /\ event' = IF m.op = "shutdown" THEN event ELSE [event EXCEPT ![m.by] = TRUE]
    /\ UNCHANGED <<answer, log>>

Served(w, m) ==
    /\ task[w] = <<m>> /\ task' = [task EXCEPT ![w] = <<>>]
    /\ UNCHANGED <<queue, control, pc, awaits, joined, calls, pledged>>
    /\ Applied(w, m) \/ Refused(w, m) \/ Crashed(w, m) \/ Obeyed(w, m)

\* Apart from connecting and taking a message, a writer serves the one it took.
LEMMA WriterServes ==
    ASSUME NEW w \in Writers, WriterStep(w), ~ConnectWriter(w), ~Take(w)
    PROVE  \E m \in Messages : Served(w, m)
<1> USE DEF Served, Has
<1>1. CASE Execute(w)
  BY <1>1 DEF Execute, Applied
<1>2. CASE ExecuteFails(w) \/ RefusePaused(w)
  BY <1>2 DEF ExecuteFails, RefusePaused, Refused
<1>3. CASE FetchFails(w)
  BY <1>3 DEF FetchFails, Crashed
<1>4. CASE HandlePause(w)
  BY <1>4 DEF HandlePause, Obeyed, results
<1>5. CASE HandleUnpause(w)
  BY <1>5 DEF HandleUnpause, Obeyed, results
<1>6. CASE HandleShutdown(w)
  BY <1>6, MessageMakers DEF HandleShutdown, Obeyed, results
<1> QED
  BY <1>1, <1>2, <1>3, <1>4, <1>5, <1>6 DEF WriterStep

\* The steps of a writer.
LEMMA TypeWriter ==
    ASSUME TypeOK, NEW w \in Writers, WriterStep(w)
    PROVE  TypeOK'
<1> USE DEF TypeOK, Modes, Alive, Answers
<1>1. CASE ConnectWriter(w)
  BY <1>1 DEF ConnectWriter, control, results, locals
<1>2. CASE Take(w)
  <2>1. queue # <<>> /\ Got
    BY <1>2 DEF Take
  <2>2. Head(queue) \in Messages /\ queue' \in Seq(Messages) /\ Len(queue') <= QueueSize
    BY <2>1, GotFacts
  <2> QED
    BY <1>2, <2>2 DEF Take, control, results, locals
<1>3. ASSUME NEW m \in Messages, Served(w, m) PROVE TypeOK'
  <2>1. /\ task' = [task EXCEPT ![w] = <<>>]
        /\ UNCHANGED <<queue, control, pc, awaits, joined, calls, pledged>>
    BY <1>3 DEF Served
  <2>2. mode' \in [Writers -> Modes]
    BY <1>3 DEF Served, Applied, Refused, Crashed, Obeyed
  <2>3. log' \in Seq(Writes)
    <3>1. CASE Applied(w, m)
      <4>1. m.write \in Writes /\ log' = Append(log, m.write)
        BY <3>1, MessageFacts DEF Applied
      <4> QED
        BY <4>1, AppendProperties
    <3>2. CASE log' = log
      BY <3>2
    <3> QED
      BY <1>3, <3>1, <3>2 DEF Served, Refused, Crashed, Obeyed
  <2>4. answer' \in [Writes -> Answers]
    BY <1>3, MessageFacts DEF Served, Applied, Refused, Crashed, Obeyed, Tell
  <2>5. event' \in [Controllers -> BOOLEAN]
    BY <1>3, MessageFacts DEF Served, Applied, Refused, Crashed, Obeyed
  <2> QED
    BY <2>1, <2>2, <2>3, <2>4, <2>5 DEF control
<1> QED
  BY <1>1, <1>2, <1>3, WriterServes

\* Every step keeps the types.
LEMMA TypeNext == TypeOK /\ [Next]_vars => TypeOK'
<1> SUFFICES ASSUME TypeOK, [Next]_vars PROVE TypeOK'
  OBVIOUS
<1>1. CASE UNCHANGED vars
  BY <1>1 DEF vars, control, writers, results, locals, TypeOK
<1>2. CASE Finished
  BY <1>1, <1>2 DEF Finished
<1> QED
  BY <1>1, <1>2, TypeClient, TypeCall, TypeController, TypeWriter DEF Next

\* Every variable keeps its type.
THEOREM Typing == Spec => []TypeOK
BY TypeInit, TypeNext, PTL DEF Spec

-----------------------------------------------------------------------------
(***************************************************************************)
(* Writers.                                                                *)
(***************************************************************************)

\* A writer that is to be made is not there yet, and only one that is there holds
\* a message.
Made ==
    /\ \A w \in Writers : w > writer => mode[w] = "none"
    /\ \A w \in Writers : task[w] # <<>> => mode[w] \in {"running", "paused"}

\* Every step keeps the writers numbered as they are made.
LEMMA MadeNext == ASSUME TypeOK, Made, [Next]_vars PROVE Made'
<1> USE DEF TypeOK, Made
<1>1. ASSUME NEW w \in Writers, WriterStep(w) PROVE Made'
  <2>1. CASE ConnectWriter(w)
    BY <2>1 DEF ConnectWriter, control
  <2>2. CASE Take(w)
    BY <2>2 DEF Take, control
  <2>3. ASSUME NEW m \in Messages, Served(w, m) PROVE Made'
    <3>1. /\ task[w] = <<m>> /\ task' = [task EXCEPT ![w] = <<>>] /\ writer' = writer
      BY <2>3 DEF Served, control
    <3>2. mode' = mode \/ \E x \in Modes : mode' = [mode EXCEPT ![w] = x]
      BY <2>3 DEF Served, Applied, Refused, Crashed, Obeyed, Modes, Alive
    <3>3. mode[w] # "none"
      BY <3>1, <<m>> # <<>>
    <3>4. mode \in [Writers -> Modes] /\ writer \in Nat
      OBVIOUS
    <3> QED
      BY <3>1, <3>2, <3>3, <3>4
  <2> QED
    BY <1>1, <2>1, <2>2, <2>3, WriterServes
<1>2. ASSUME NEW c \in Controllers, start(c) PROVE Made'
  <2>1. CASE UNCHANGED <<writer, mode>>
    BY <1>2, <2>1 DEF start
  <2>2. CASE ~UNCHANGED <<writer, mode>>
    <3>1. /\ writer + 1 \in Writers /\ writer' = writer + 1 /\ writer \in Nat
          /\ mode' = [mode EXCEPT ![writer + 1] = "starting"] /\ task' = task
      BY <1>2, <2>2 DEF start, Writers
    <3>2. mode[writer + 1] = "none"
      BY <3>1
    <3>3. task[writer + 1] = <<>>
      BY <3>1, <3>2
    <3>4. \A w \in Writers : w > writer' => mode'[w] = "none"
      BY <3>1 DEF Writers
    <3>5. \A w \in Writers : task'[w] # <<>> => mode'[w] \in {"running", "paused"}
      BY <3>1, <3>3
    <3> QED
      BY <3>4, <3>5
  <2> QED
    BY <2>1, <2>2
<1>3. CASE UNCHANGED <<writer, writers>>
  BY <1>3 DEF writers
<1>4. ASSUME NEW c \in Controllers, stop(c) \/ pause(c) \/ unpause(c)
      PROVE  UNCHANGED <<writer, writers>>
  BY <1>4 DEF stop, pause, unpause, CallLocked
<1>5. ASSUME NEW c \in Controllers, ControllerStep(c) PROVE UNCHANGED <<writer, writers>>
  BY <1>5 DEF ControllerStep, StopPut, Join, DrainCheck, DrainGet, PausePut, UnpausePut,
              ControlPut, PauseReturn, UnpauseReturn, control
<1>6. ASSUME NEW t \in Clients, ClientStep(t) PROVE UNCHANGED <<writer, writers>>
  BY <1>6 DEF ClientStep, Submit, GetResult, ResultTimeout, control
<1>7. CASE UNCHANGED vars
  BY <1>3, <1>7 DEF vars, control
<1> QED
  BY <1>1, <1>2, <1>3, <1>4, <1>5, <1>6, <1>7 DEF Next, Call, Finished

\* Only the thread in _writer may live, and when the database is stopped somebody
\* waits for it to end.
Successor ==
    /\ \A w \in Writers : mode[w] \in Alive => w = writer
    /\ isStopped => \A w \in Writers : mode[w] \in Alive =>
                       \E c \in Controllers : pc[c] = "join" /\ joined[c] = w
    /\ qlock # None => pc[qlock] \in {"stop_put", "pause_put", "unpause_put"}
    /\ \A c \in Controllers : pc[c] \in {"stop_put", "pause_put", "unpause_put"} => qlock = c
    /\ qlock # None => ~isStopped

\* A step of a writer leaves at most one of them alive.
LEMMA SuccessorWriter ==
    ASSUME TypeOK, Made, Successor, NEW w \in Writers, WriterStep(w)
    PROVE  Successor'
<1> USE DEF Successor, TypeOK, Alive, control
<1>1. CASE ConnectWriter(w)
  BY <1>1 DEF ConnectWriter, locals
<1>2. CASE Take(w)
  BY <1>2 DEF Take, locals
<1>3. ASSUME NEW m \in Messages, Served(w, m) PROVE Successor'
  <2>1. mode[w] \in Alive
    BY <1>3, <<m>> # <<>> DEF Served, Made
  <2>2. UNCHANGED <<qlock, isStopped, writer, pc, joined>>
    BY <1>3 DEF Served
  <2>3. mode' = mode \/ \E x \in Modes : mode' = [mode EXCEPT ![w] = x]
    BY <1>3 DEF Served, Applied, Refused, Crashed, Obeyed, Modes
  <2> QED
    BY <2>1, <2>2, <2>3
<1> QED
  BY <1>1, <1>2, <1>3, WriterServes

\* The program does not start the database while a stop() has not returned: it sees
\* to that, or makes its calls from one thread.
Serialized == "start_during_stop" \notin Ops \/ \A c, d \in Controllers : c = d

\* start() makes a writer only when no stop() is under way, and so none is alive.
LEMMA SuccessorController ==
    ASSUME Serialized, TypeOK, Successor,
           NEW c \in Controllers, Call(c) \/ ControllerStep(c)
    PROVE  Successor'
<1> USE DEF Successor, TypeOK, Threads, Goto
<1>1. CASE start(c)
  <2>1. ~Stopping /\ qlock = None
    BY <1>1 DEF start, CallFrom, Serialized, Stopping
  <2>2. isStopped => \A w \in Writers : mode[w] \notin Alive
    BY <2>1 DEF Stopping
  <2> QED
    BY <1>1, <2>1, <2>2 DEF start, Writers
<1>2. ASSUME NEW points, NEW first \in {"stop_put", "pause_put", "unpause_put"},
             points \subseteq {"run", "paused"}, CallLocked(c, points, first)
      PROVE  Successor'
  <2>1. qlock = None /\ pc[c] \in {"run", "paused"}
    BY <1>2 DEF CallLocked, CallFrom
  <2> QED
    BY <1>2, <2>1 DEF CallLocked, writers
<1>3. CASE StopPut(c)
  BY <1>3 DEF StopPut, writers
<1>4. CASE Join(c)
  BY <1>4 DEF Join, Ended, control, writers, locals
<1>5. CASE DrainCheck(c) \/ DrainGet(c) \/ PauseReturn(c) \/ UnpauseReturn(c)
  BY <1>5, SMTT(30) DEF DrainCheck, DrainGet, PauseReturn, UnpauseReturn, control, writers, locals
<1>6. CASE PausePut(c) \/ UnpausePut(c)
  <2>1. /\ pc[c] \in {"pause_put", "unpause_put"} /\ qlock' = None
        /\ \E x \in {"pause_wait", "unpause_wait"} : pc' = [pc EXCEPT ![c] = x]
        /\ UNCHANGED <<isStopped, writer, mode, joined>>
    BY <1>6 DEF PausePut, UnpausePut, ControlPut, writers
  <2> QED
    BY <2>1
<1>7. CASE stop(c) \/ pause(c) \/ unpause(c)
  BY <1>2, <1>7 DEF stop, pause, unpause
<1> QED
  BY <1>1, <1>3, <1>4, <1>5, <1>6, <1>7 DEF Call, ControllerStep

\* Every step leaves at most one of them alive.
LEMMA SuccessorNext ==
    ASSUME Serialized, TypeOK, Made, Successor, [Next]_vars
    PROVE  Successor'
<1>1. ASSUME NEW t \in Clients, ClientStep(t) PROVE Successor'
  <2>1. /\ UNCHANGED <<qlock, isStopped, writer, mode, joined>>
        /\ \E x \in {"run", "wait"} : pc' = [pc EXCEPT ![t] = x]
    BY <1>1 DEF ClientStep, Submit, GetResult, ResultTimeout, Goto, control, writers, locals
  <2>2. t \notin Controllers /\ None \notin Controllers
    OBVIOUS
  <2> QED
    BY <2>1, <2>2 DEF Successor, TypeOK, Threads
<1>2. CASE UNCHANGED vars
  BY <1>2 DEF vars, control, writers, locals, Successor
<1> QED
  BY <1>1, <1>2, SuccessorWriter, SuccessorController DEF Next, Finished

\* No writer runs at the beginning.
LEMMA SuccessorInit == Init => Made /\ Successor
BY DEF Init, Made, Successor, Alive, Threads

\* With one place for a writer there is one writer.
LEMMA SuccessorUnique == Successor => OneWriter
<1> SUFFICES ASSUME Successor PROVE OneWriter
  OBVIOUS
<1> DEFINE living == {w \in Writers : mode[w] \in Alive}
<1>1. living = {} \/ living = {writer}
  BY DEF Successor
<1>2. Cardinality(living) <= 1
  <2>1. Cardinality({}) = 0 /\ Cardinality({writer}) = 1
    BY FS_EmptySet, FS_Singleton
  <2> HIDE DEF living
  <2> QED
    BY <1>1, <2>1
<1> QED
  BY <1>2 DEF OneWriter

\* Unless start() is called while stop() runs, there is one writer at a time, however
\* many threads start, stop, pause and unpause the database.
THEOREM OneWriterAlways ==
    ASSUME Serialized
    PROVE  Spec => []WriterSound
<1>1. Made /\ Successor /\ TypeOK /\ [Next]_vars => Made' /\ Successor'
  BY MadeNext, SuccessorNext
<1>2. Spec => [](Made /\ Successor)
  BY <1>1, SuccessorInit, Typing, PTL DEF Spec
<1>3. TypeOK /\ OneWriter => WriterSound
  BY DEF WriterSound
<1> QED
  BY <1>2, <1>3, SuccessorUnique, Typing, PTL

-----------------------------------------------------------------------------
(***************************************************************************)
(* Writes on their way, whatever the program does.                         *)
(***************************************************************************)

\* What a query in the queue is.
LEMMA QueryFacts ==
    /\ \A a, b \in Writes : Query(a) = Query(b) => a = b
    /\ \A a \in Writes : Query(a).op = "query" /\ Query(a).write = a
    /\ \A m \in Messages : m.op = "query" => m.write \in Writes /\ m = Query(m.write)
<1>1. \A a, b \in Writes : Query(a) = Query(b) => a = b
  BY DEF Query
<1> QED
  BY <1>1, MessageFacts, MessageMakers

\* What a step does to the queue, to the writers' messages and to the answers.
LEMMA Effects ==
    ASSUME TypeOK, [Next]_vars
    PROVE  \/ \E t \in Clients : Submit(t)
           \/ \E w \in Writers : Take(w)
           \/ \E w \in Writers, m \in Messages : Served(w, m)
           \/ \E c \in Controllers : DrainGet(c)
           \/ \E m \in Messages : m.op # "query" /\ Put(m) /\ UNCHANGED <<task, answer, log>>
           \/ UNCHANGED <<queue, task, answer, log>>
<1> USE DEF control, writers, results, locals
<1>1. ASSUME NEW w \in Writers, WriterStep(w)
      PROVE  \/ Take(w) \/ \E m \in Messages : Served(w, m)
             \/ UNCHANGED <<queue, task, answer, log>>
  BY <1>1, WriterServes DEF ConnectWriter
<1>2. ASSUME NEW c \in Controllers, ControllerStep(c)
      PROVE  \/ DrainGet(c)
             \/ \E m \in Messages : m.op # "query" /\ Put(m) /\ UNCHANGED <<task, answer, log>>
             \/ UNCHANGED <<queue, task, answer, log>>
  <2>1. CASE StopPut(c)
    BY <2>1, MessageMakers DEF StopPut
  <2>2. CASE PausePut(c)
    <3>1. ControlPut(c, "pause")
      BY <2>2 DEF PausePut
    <3> QED
      BY <3>1, MessageMakers DEF ControlPut
  <2>3. CASE UnpausePut(c)
    <3>1. ControlPut(c, "unpause")
      BY <2>3 DEF UnpausePut
    <3> QED
      BY <3>1, MessageMakers DEF ControlPut
  <2> QED
    BY <1>2, <2>1, <2>2, <2>3
       DEF ControllerStep, Join, DrainCheck, PauseReturn, UnpauseReturn
<1>3. ASSUME NEW c \in Controllers, Call(c)
      PROVE  UNCHANGED <<queue, task, answer, log>>
  BY <1>3 DEF Call, start, stop, pause, unpause, CallLocked
<1>4. ASSUME NEW t \in Clients, ClientStep(t)
      PROVE  Submit(t) \/ UNCHANGED <<queue, task, answer, log>>
  BY <1>4 DEF ClientStep, GetResult, ResultTimeout
<1>5. CASE UNCHANGED vars
  BY <1>5 DEF vars
<1> QED
  BY <1>1, <1>2, <1>3, <1>4, <1>5 DEF Next, Finished

\* The writes that were submitted are the first ones.
Numbered == \E n \in 0 .. MaxWrites : \A i \in Writes : answer[i] # "none" <=> i <= n

\* Writes are numbered in the order they are submitted.
LEMMA SubmittedFacts ==
    ASSUME Numbered
    PROVE  /\ Submitted \in 0 .. MaxWrites
           /\ \A i \in Writes : answer[i] # "none" <=> i <= Submitted
<1>1. PICK n \in 0 .. MaxWrites : \A i \in Writes : answer[i] # "none" <=> i <= n
  BY DEF Numbered
<1>2. {i \in Writes : answer[i] # "none"} = 1 .. n
  BY <1>1 DEF Writes
<1>3. Cardinality(1 .. n) = n
  BY FS_Interval
<1> QED
  BY <1>1, <1>2, <1>3 DEF Submitted

\* A write is in one place: once in the queue, or with one writer.
OnePlace ==
    \A a \in Writes :
        /\ \A j, k \in 1 .. Len(queue) : queue[j] = Query(a) /\ queue[k] = Query(a) => j = k
        /\ \A v, w \in Writers : task[v] = <<Query(a)>> /\ task[w] = <<Query(a)>> => v = w
        /\ \A w \in Writers, k \in 1 .. Len(queue) :
              ~(task[w] = <<Query(a)>> /\ queue[k] = Query(a))

\* There it waits for its answer.
HandsPending ==
    \A a \in Writes :
        /\ \A k \in 1 .. Len(queue) : queue[k] = Query(a) => answer[a] = "pending"
        /\ \A w \in Writers : task[w] = <<Query(a)>> => answer[a] = "pending"

HandsInv == Numbered /\ OnePlace /\ HandsPending /\ Told

\* No write is submitted at the beginning.
LEMMA HandsInit == Init => HandsInv
<1> SUFFICES ASSUME Init PROVE HandsInv
  OBVIOUS
<1>1. Numbered
  <2>1. \A i \in Writes : answer[i] # "none" <=> i <= 0
    BY DEF Init, Writes
  <2> QED
    BY <2>1 DEF Numbered
<1>2. OnePlace /\ HandsPending
  BY DEF Init, OnePlace, HandsPending
<1>3. Told
  BY DEF Init, Told
<1> QED
  BY <1>1, <1>2, <1>3 DEF HandsInv

\* A write that is submitted is in the queue, once.
LEMMA HandsSubmit ==
    ASSUME TypeOK, HandsInv, NEW t \in Clients, Submit(t)
    PROVE  HandsInv'
<1> DEFINE i == Submitted + 1
<1>1. i \in Writes /\ answer[i] = "none"
  BY SubmittedFacts DEF Submit, Writes, HandsInv
<1>2. Put(Query(i)) /\ answer' = [answer EXCEPT ![i] = "pending"] /\ UNCHANGED <<task, log>>
  BY DEF Submit, Tell, writers
<1>3. /\ Len(queue) \in Nat /\ Len(queue') = Len(queue) + 1
      /\ \A k \in 1 .. Len(queue) : queue'[k] = queue[k]
      /\ queue'[Len(queue) + 1] = Query(i)
  BY <1>1, <1>2, PutFacts, MessageMakers DEF TypeOK
<1>4. \A j \in Writes : answer'[j] # "none" <=> j <= i
  BY <1>1, <1>2, SubmittedFacts DEF Writes, HandsInv, TypeOK
<1>5. i \in 0 .. MaxWrites
  BY <1>1 DEF Writes
<1> HIDE DEF i
<1>6. Numbered'
  BY <1>4, <1>5 DEF Numbered
<1>7. /\ \A k \in 1 .. Len(queue) : queue[k] # Query(i)
      /\ \A w \in Writers : task[w] # <<Query(i)>>
  BY <1>1 DEF HandsInv, HandsPending
<1>8. OnePlace'
  BY <1>1, <1>2, <1>3, <1>7, QueryFacts DEF HandsInv, OnePlace
<1>9. HandsPending'
  <2>1. answer'[i] = "pending" /\ \A a \in Writes : a # i => answer'[a] = answer[a]
    BY <1>1, <1>2 DEF TypeOK
  <2>2. \A a \in Writes, k \in 1 .. Len(queue') : queue'[k] = Query(a) => answer'[a] = "pending"
    BY <1>1, <1>3, <2>1, QueryFacts DEF HandsInv, HandsPending
  <2>3. \A a \in Writes, v \in Writers : task'[v] = <<Query(a)>> => answer'[a] = "pending"
    BY <1>2, <2>1 DEF HandsInv, HandsPending
  <2> QED
    BY <2>2, <2>3 DEF HandsPending
<1>10. Told'
  BY <1>1, <1>2 DEF HandsInv, Told, TypeOK
<1> QED
  BY <1>6, <1>8, <1>9, <1>10 DEF HandsInv

\* A write that a writer takes leaves the queue.
LEMMA HandsTake ==
    ASSUME TypeOK, HandsInv, NEW w \in Writers, Take(w)
    PROVE  HandsInv'
<1>1. /\ Got /\ queue # <<>> /\ task' = [task EXCEPT ![w] = <<Head(queue)>>]
      /\ task[w] = <<>> /\ UNCHANGED <<answer, log>>
  BY DEF Take, results
<1>2. /\ Len(queue) \in Nat \ {0} /\ Len(queue') = Len(queue) - 1
      /\ Head(queue) = queue[1]
      /\ \A k \in 1 .. Len(queue') : queue'[k] = queue[k + 1]
  BY <1>1, GotFacts DEF TypeOK
<1>3. \A v \in Writers : task'[v] = IF v = w THEN <<queue[1]>> ELSE task[v]
  BY <1>1, <1>2 DEF TypeOK
<1>4. OnePlace'
  <2> SUFFICES ASSUME NEW a \in Writes
      PROVE  /\ \A j, k \in 1 .. Len(queue') : queue'[j] = Query(a) /\ queue'[k] = Query(a) => j = k
             /\ \A u, v \in Writers : task'[u] = <<Query(a)>> /\ task'[v] = <<Query(a)>> => u = v
             /\ \A v \in Writers, k \in 1 .. Len(queue') :
                   ~(task'[v] = <<Query(a)>> /\ queue'[k] = Query(a))
    BY DEF OnePlace
  <2>1. \A k \in 1 .. Len(queue') : k + 1 \in 1 .. Len(queue) /\ k + 1 # 1
    BY <1>2
  <2>2. 1 \in 1 .. Len(queue)
    BY <1>2
  <2>3. \A v \in Writers : task'[v] = <<Query(a)>> =>
           (v = w /\ queue[1] = Query(a)) \/ task[v] = <<Query(a)>>
    BY <1>3
  <2>4. \A j, k \in 1 .. Len(queue') : queue'[j] = Query(a) /\ queue'[k] = Query(a) => j = k
    BY <1>2, <2>1 DEF HandsInv, OnePlace
  <2>5. \A u, v \in Writers : task'[u] = <<Query(a)>> /\ task'[v] = <<Query(a)>> => u = v
    BY <2>2, <2>3 DEF HandsInv, OnePlace
  <2>6. \A v \in Writers, k \in 1 .. Len(queue') :
           ~(task'[v] = <<Query(a)>> /\ queue'[k] = Query(a))
    BY <1>2, <2>1, <2>2, <2>3 DEF HandsInv, OnePlace
  <2> QED
    BY <2>4, <2>5, <2>6
<1>5. HandsPending'
  <2>1. \A k \in 1 .. Len(queue') : k + 1 \in 1 .. Len(queue)
    BY <1>2
  <2>2. 1 \in 1 .. Len(queue)
    BY <1>2
  <2>3. \A a \in Writes, k \in 1 .. Len(queue') : queue'[k] = Query(a) => answer'[a] = "pending"
    BY <1>1, <1>2, <2>1 DEF HandsInv, HandsPending
  <2>4. \A a \in Writes, v \in Writers : task'[v] = <<Query(a)>> => answer'[a] = "pending"
    BY <1>1, <1>3, <2>2 DEF HandsInv, HandsPending
  <2> QED
    BY <2>3, <2>4 DEF HandsPending
<1>6. Numbered' /\ Told'
  BY <1>1 DEF HandsInv, Numbered, Told
<1> QED
  BY <1>4, <1>5, <1>6 DEF HandsInv

\* A write that is carried out or refused leaves the hands of its writer.
LEMMA HandsServed ==
    ASSUME TypeOK, HandsInv, NEW w \in Writers, NEW m \in Messages, Served(w, m)
    PROVE  HandsInv'
<1>1. /\ task[w] = <<m>> /\ queue' = queue
      /\ \A v \in Writers : task'[v] = IF v = w THEN <<>> ELSE task[v]
  BY DEF Served, TypeOK
<1>2. \A a \in Writes, v \in Writers : task'[v] = <<Query(a)>> => v # w /\ task[v] = <<Query(a)>>
  BY <1>1, \A x : <<x>> # <<>>
<1>3. OnePlace'
  BY <1>1, <1>2 DEF HandsInv, OnePlace
<1>4. CASE m.op = "query"
  <2> DEFINE i == m.write
  <2>1. i \in Writes /\ m = Query(i) /\ answer[i] = "pending"
    BY <1>1, <1>4, QueryFacts DEF HandsInv, HandsPending
  <2>2. \E what \in {"pending", "done", "failed", "paused"} : answer' = [answer EXCEPT ![i] = what]
    BY <1>4, <2>1 DEF Served, Applied, Refused, Crashed, Obeyed, Tell, TypeOK
  <2>3. \/ log' = Append(log, i) /\ answer' = [answer EXCEPT ![i] = "done"]
        \/ /\ log' = log
           /\ \E what \in {"pending", "failed", "paused"} : answer' = [answer EXCEPT ![i] = what]
    BY <1>4, <2>1 DEF Served, Applied, Refused, Crashed, Obeyed, Tell, TypeOK
  <2> HIDE DEF i
  <2>4. HandsPending'
    <3>1. \A k \in 1 .. Len(queue) : queue[k] # Query(i)
      BY <1>1, <2>1 DEF HandsInv, OnePlace
    <3>2. \A v \in Writers : task'[v] # <<Query(i)>>
      BY <1>1, <1>2, <2>1 DEF HandsInv, OnePlace
    <3>3. \A a \in Writes : a # i => answer'[a] = answer[a]
      BY <2>2 DEF TypeOK
    <3>4. \A a \in Writes, k \in 1 .. Len(queue') : queue'[k] = Query(a) => answer'[a] = "pending"
      BY <1>1, <3>1, <3>3 DEF HandsInv, HandsPending
    <3>5. \A a \in Writes, v \in Writers : task'[v] = <<Query(a)>> => answer'[a] = "pending"
      BY <1>2, <3>2, <3>3 DEF HandsInv, HandsPending
    <3> QED
      BY <3>4, <3>5 DEF HandsPending
  <2>5. Numbered'
    <3>1. \A a \in Writes : answer'[a] # "none" <=> answer[a] # "none"
      BY <2>1, <2>2 DEF TypeOK
    <3> QED
      BY <3>1 DEF HandsInv, Numbered
  <2>6. Told'
    <3>1. CASE log' = Append(log, i) /\ answer' = [answer EXCEPT ![i] = "done"]
      <4>1. /\ Len(log) \in Nat /\ Len(log') = Len(log) + 1 /\ log'[Len(log) + 1] = i
            /\ \A k \in 1 .. Len(log) : log'[k] = log[k]
            /\ DOMAIN log = 1 .. Len(log) /\ DOMAIN log' = 1 .. Len(log')
        BY <2>1, <3>1, AppendProperties, LenProperties DEF TypeOK
      <4>2. \A a \in Writes : (\E k \in DOMAIN log' : log'[k] = a)
                                <=> (a = i \/ \E k \in DOMAIN log : log[k] = a)
        BY <4>1
      <4> QED
        BY <2>1, <3>1, <4>2 DEF HandsInv, Told, TypeOK
    <3>2. CASE log' = log
      BY <2>1, <2>3, <3>2 DEF HandsInv, Told, TypeOK
    <3> QED
      BY <2>3, <3>1, <3>2
  <2> QED
    BY <1>3, <2>4, <2>5, <2>6 DEF HandsInv
<1>5. CASE m.op # "query"
  <2>1. answer' = answer /\ log' = log
    BY <1>5 DEF Served, Applied, Refused, Crashed, Obeyed
  <2>2. HandsPending'
    BY <1>1, <1>2, <2>1 DEF HandsInv, HandsPending
  <2> QED
    BY <1>3, <2>1, <2>2 DEF HandsInv, Numbered, Told
<1> QED
  BY <1>4, <1>5

\* What stop() takes out of the queue.
LEMMA HandsDrain ==
    ASSUME TypeOK, HandsInv, NEW c \in Controllers, DrainGet(c)
    PROVE  HandsInv'
<1> DEFINE m == Head(queue)
           i == m.write
<1>1. /\ Got /\ queue # <<>> /\ task' = task /\ log' = log
      /\ IF m.op = "query" THEN answer' = [answer EXCEPT ![i] = "shutdown"]
         ELSE answer' = answer
  BY DEF DrainGet, Tell, writers
<1>2. /\ Len(queue) \in Nat \ {0} /\ Len(queue') = Len(queue) - 1
      /\ m = queue[1] /\ m \in Messages
      /\ \A k \in 1 .. Len(queue') : queue'[k] = queue[k + 1]
  BY <1>1, GotFacts DEF TypeOK
<1>3. m.op = "query" => i \in Writes /\ m = Query(i) /\ answer[i] = "pending"
  <2>1. m.op = "query" => i \in Writes /\ m = Query(i)
    BY <1>2, QueryFacts
  <2>2. 1 \in 1 .. Len(queue)
    BY <1>2
  <2> QED
    BY <1>2, <2>1, <2>2 DEF HandsInv, HandsPending
<1>4. \A k \in 1 .. Len(queue') : k + 1 \in 1 .. Len(queue) /\ k + 1 # 1
  BY <1>2
<1>5. 1 \in 1 .. Len(queue)
  BY <1>2
<1> HIDE DEF m, i
<1>6. OnePlace'
  BY <1>1, <1>2, <1>4 DEF HandsInv, OnePlace
<1>7. CASE m.op = "query"
  <2>1. /\ \A k \in 1 .. Len(queue') : queue'[k] # Query(i)
        /\ \A w \in Writers : task[w] # <<Query(i)>>
    BY <1>2, <1>3, <1>4, <1>5, <1>7 DEF HandsInv, OnePlace
  <2>2. \A a \in Writes : a # i => answer'[a] = answer[a]
    BY <1>1, <1>7 DEF TypeOK
  <2>3. answer'[i] = "shutdown"
    BY <1>1, <1>3, <1>7 DEF TypeOK
  <2>4. HandsPending'
    BY <1>1, <1>2, <1>4, <2>1, <2>2 DEF HandsInv, HandsPending
  <2>5. Numbered'
    <3>1. \A a \in Writes : answer'[a] # "none" <=> answer[a] # "none"
      BY <1>3, <1>7, <2>2, <2>3
    <3> QED
      BY <3>1 DEF HandsInv, Numbered
  <2>6. Told'
    BY <1>1, <1>3, <1>7, <2>2, <2>3 DEF HandsInv, Told
  <2> QED
    BY <1>6, <2>4, <2>5, <2>6 DEF HandsInv
<1>8. CASE m.op # "query"
  <2>1. HandsPending'
    BY <1>1, <1>2, <1>4, <1>8 DEF HandsInv, HandsPending
  <2> QED
    BY <1>1, <1>6, <1>8, <2>1 DEF HandsInv, Numbered, Told
<1> QED
  BY <1>7, <1>8

\* A control message, or nothing.
LEMMA HandsPut ==
    ASSUME TypeOK, HandsInv, NEW m \in Messages, m.op # "query", Put(m),
           UNCHANGED <<task, answer, log>>
    PROVE  HandsInv'
<1>1. /\ Len(queue) \in Nat /\ Len(queue') = Len(queue) + 1
      /\ \A k \in 1 .. Len(queue) : queue'[k] = queue[k]
      /\ queue'[Len(queue) + 1] = m
  BY PutFacts DEF TypeOK
<1>2. \A a \in Writes, k \in 1 .. Len(queue') : queue'[k] = Query(a) =>
         k \in 1 .. Len(queue) /\ queue[k] = Query(a)
  BY <1>1, QueryFacts
<1>3. OnePlace'
  BY <1>2 DEF HandsInv, OnePlace
<1>4. HandsPending'
  BY <1>2 DEF HandsInv, HandsPending
<1> QED
  BY <1>3, <1>4 DEF HandsInv, Numbered, Told

\* Every step leaves a write in one pair of hands.
LEMMA HandsNext == ASSUME TypeOK, HandsInv, [Next]_vars PROVE HandsInv'
<1>1. CASE UNCHANGED <<queue, task, answer, log>>
  BY <1>1 DEF HandsInv, Numbered, OnePlace, HandsPending, Told
<1> QED
  BY <1>1, Effects, HandsSubmit, HandsTake, HandsServed, HandsDrain, HandsPut

\* A write is in one pair of hands throughout.
LEMMA Hands == Spec => [](TypeOK /\ HandsInv)
<1>1. TypeOK /\ HandsInv /\ [Next]_vars => HandsInv'
  BY HandsNext
<1> QED
  BY <1>1, HandsInit, Typing, PTL DEF Spec

\* Whoever is told that its write succeeded finds it in the file, and whoever is
\* told anything else does not: with any number of threads, whatever fails and in
\* whatever order the database is started, stopped and paused.
THEOREM ToldTruth == Spec => []Told
<1>1. HandsInv => Told
  BY DEF HandsInv
<1> QED
  BY <1>1, Hands, PTL

\* A write that was answered is in nobody's hands, so that nobody answers it again.
THEOREM AnswersFinal == Spec => AnswerStands
<1>1. TypeOK /\ HandsInv /\ [Next]_vars =>
        [\A i \in Writes : answer[i] \notin {"none", "pending"} => answer'[i] = answer[i]]_vars
  <2> SUFFICES ASSUME TypeOK, HandsInv, [Next]_vars, NEW i \in Writes,
                      answer[i] \notin {"none", "pending"}
               PROVE  answer'[i] = answer[i]
    OBVIOUS
  <2>1. ASSUME NEW t \in Clients, Submit(t) PROVE answer'[i] = answer[i]
    <3>1. answer[Submitted + 1] = "none" /\ answer' = [answer EXCEPT ![Submitted + 1] = "pending"]
      BY <2>1, SubmittedFacts DEF Submit, Tell, Writes, HandsInv
    <3> QED
      BY <3>1 DEF TypeOK
  <2>2. ASSUME NEW w \in Writers, NEW m \in Messages, Served(w, m)
        PROVE  answer'[i] = answer[i]
    <3>1. m.op = "query" => answer[m.write] = "pending"
      BY <2>2, QueryFacts DEF Served, HandsInv, HandsPending
    <3>2. \/ answer' = answer
          \/ m.op = "query" /\ \E what \in Answers : answer' = [answer EXCEPT ![m.write] = what]
      BY <2>2 DEF Served, Applied, Refused, Crashed, Obeyed, Tell, Answers
    <3> QED
      BY <3>1, <3>2 DEF TypeOK
  <2>3. ASSUME NEW c \in Controllers, DrainGet(c) PROVE answer'[i] = answer[i]
    <3> DEFINE m == Head(queue)
    <3>1. 1 \in 1 .. Len(queue) /\ m = queue[1] /\ m \in Messages
      BY <2>3, GotFacts DEF DrainGet, TypeOK
    <3>2. IF m.op = "query" THEN answer' = [answer EXCEPT ![m.write] = "shutdown"]
          ELSE answer' = answer
      BY <2>3 DEF DrainGet, Tell
    <3> HIDE DEF m
    <3>3. m.op = "query" => answer[m.write] = "pending"
      BY <3>1, QueryFacts DEF HandsInv, HandsPending
    <3> QED
      BY <3>2, <3>3 DEF TypeOK
  <2>4. ASSUME NEW w \in Writers, Take(w) PROVE answer'[i] = answer[i]
    BY <2>4 DEF Take, results
  <2> QED
    BY <2>1, <2>2, <2>3, <2>4, Effects
<1> QED
  BY <1>1, Hands, PTL DEF Spec, AnswerStands

-----------------------------------------------------------------------------
(***************************************************************************)
(* The order of the writes, where there is one writer at a time.           *)
(***************************************************************************)

\* The file, then the writer, then the queue have the writes in ascending order.
QueueSorted ==
    \A a, b \in Writes, j, k \in 1 .. Len(queue) :
        j < k /\ queue[j] = Query(a) /\ queue[k] = Query(b) => a < b

TaskFirst ==
    \A a, b \in Writes, w \in Writers, k \in 1 .. Len(queue) :
        task[w] = <<Query(a)>> /\ queue[k] = Query(b) => a < b

LogFirst ==
    \A n \in 1 .. Len(log), b \in Writes :
        /\ \A k \in 1 .. Len(queue) : queue[k] = Query(b) => log[n] < b
        /\ \A w \in Writers : task[w] = <<Query(b)>> => log[n] < b

Ordered == QueueSorted /\ TaskFirst /\ LogFirst /\ InOrder

\* No write is queued at the beginning.
LEMMA OrderedInit == Init => Ordered
BY DEF Init, Ordered, QueueSorted, TaskFirst, LogFirst, InOrder

\* A new write has the highest number and the last place.
LEMMA OrderedSubmit ==
    ASSUME TypeOK, HandsInv, Ordered, NEW t \in Clients, Submit(t)
    PROVE  Ordered'
<1> DEFINE i == Submitted + 1
<1>1. i \in Writes /\ \A a \in Writes : answer[a] # "none" => a < i
  BY SubmittedFacts DEF Submit, Writes, HandsInv
<1>2. Put(Query(i)) /\ UNCHANGED <<task, log>>
  BY DEF Submit, writers
<1>3. /\ Len(queue) \in Nat /\ Len(queue') = Len(queue) + 1
      /\ \A k \in 1 .. Len(queue) : queue'[k] = queue[k]
      /\ queue'[Len(queue) + 1] = Query(i)
  BY <1>1, <1>2, PutFacts, MessageMakers DEF TypeOK
<1> HIDE DEF i
<1>4. \A a \in Writes : /\ \A k \in 1 .. Len(queue) : queue[k] = Query(a) => a < i
                        /\ \A w \in Writers : task[w] = <<Query(a)>> => a < i
  BY <1>1 DEF HandsInv, HandsPending
<1>5. \A n \in 1 .. Len(log) : log[n] \in Writes /\ log[n] < i
  <2>1. \A n \in 1 .. Len(log) : n \in DOMAIN log /\ log[n] \in Writes
    BY LenProperties, ElementOfSeq DEF TypeOK
  <2>2. \A n \in 1 .. Len(log) : answer[log[n]] = "done"
    BY <2>1 DEF HandsInv, Told
  <2> QED
    BY <1>1, <2>1, <2>2
<1>6. \A k \in 1 .. Len(queue') : k \in 1 .. Len(queue) \/ k = Len(queue) + 1
  BY <1>3
<1>7. QueueSorted'
  BY <1>1, <1>3, <1>4, <1>6, QueryFacts DEF Ordered, QueueSorted
<1>8. TaskFirst'
  BY <1>1, <1>2, <1>3, <1>4, <1>6, QueryFacts DEF Ordered, TaskFirst
<1>9. LogFirst'
  <2>1. \A n \in 1 .. Len(log), b \in Writes, k \in 1 .. Len(queue') :
           queue'[k] = Query(b) => log[n] < b
    BY <1>1, <1>3, <1>5, <1>6, QueryFacts DEF Ordered, LogFirst
  <2> QED
    BY <1>2, <2>1 DEF Ordered, LogFirst
<1>10. InOrder'
  BY <1>2 DEF Ordered, InOrder
<1> QED
  BY <1>7, <1>8, <1>9, <1>10 DEF Ordered

\* A writer takes the first one of the queue.
LEMMA OrderedTake ==
    ASSUME TypeOK, Ordered, NEW w \in Writers, Take(w)
    PROVE  Ordered'
<1>1. /\ Got /\ queue # <<>> /\ task' = [task EXCEPT ![w] = <<Head(queue)>>]
      /\ UNCHANGED log
  BY DEF Take, results
<1>2. /\ Len(queue) \in Nat \ {0} /\ Len(queue') = Len(queue) - 1
      /\ Head(queue) = queue[1]
      /\ \A k \in 1 .. Len(queue') : queue'[k] = queue[k + 1]
  BY <1>1, GotFacts DEF TypeOK
<1>3. \A k \in 1 .. Len(queue') : k + 1 \in 1 .. Len(queue) /\ 1 < k + 1
  BY <1>2
<1>4. 1 \in 1 .. Len(queue)
  BY <1>2
<1>5. \A v \in Writers, a \in Writes : task'[v] = <<Query(a)>> =>
         queue[1] = Query(a) \/ task[v] = <<Query(a)>>
  BY <1>1, <1>2 DEF TypeOK
<1>6. QueueSorted'
  <2>1. \A j, k \in 1 .. Len(queue') : j < k => j + 1 < k + 1
    BY <1>2
  <2> QED
    BY <1>2, <1>3, <2>1 DEF Ordered, QueueSorted
<1>7. TaskFirst'
  BY <1>2, <1>3, <1>4, <1>5 DEF Ordered, QueueSorted, TaskFirst
<1>8. LogFirst'
  <2>1. \A n \in 1 .. Len(log), b \in Writes, k \in 1 .. Len(queue') :
           queue'[k] = Query(b) => log[n] < b
    BY <1>2, <1>3 DEF Ordered, LogFirst
  <2>2. \A n \in 1 .. Len(log), b \in Writes, v \in Writers :
           task'[v] = <<Query(b)>> => log[n] < b
    BY <1>4, <1>5 DEF Ordered, LogFirst
  <2> QED
    BY <1>1, <2>1, <2>2 DEF LogFirst
<1>9. InOrder'
  BY <1>1 DEF Ordered, InOrder
<1> QED
  BY <1>6, <1>7, <1>8, <1>9 DEF Ordered

\* Nobody else holds a write that could reach the file later and be older.
LEMMA OrderedServed ==
    ASSUME TypeOK, Made, Successor, Ordered,
           NEW w \in Writers, NEW m \in Messages, Served(w, m)
    PROVE  Ordered'
<1>1. /\ task[w] = <<m>> /\ queue' = queue
      /\ \A v \in Writers : task'[v] = IF v = w THEN <<>> ELSE task[v]
  BY DEF Served, TypeOK
<1>2. \A a \in Writes, v \in Writers : task'[v] # <<Query(a)>>
  <2> SUFFICES ASSUME NEW v \in Writers, task'[v] # <<>> PROVE FALSE
    BY \A x : <<x>> # <<>>
  <2>1. v # w /\ task[v] # <<>> /\ task[w] # <<>>
    BY <1>1, \A x : <<x>> # <<>>
  <2>2. mode[v] \in Alive /\ mode[w] \in Alive
    BY <2>1 DEF Made, Alive
  <2> QED
    BY <2>1, <2>2 DEF Successor
<1>3. QueueSorted' /\ TaskFirst'
  BY <1>1, <1>2 DEF Ordered, QueueSorted, TaskFirst
<1>4. CASE log' = log
  BY <1>1, <1>2, <1>3, <1>4 DEF Ordered, LogFirst, InOrder
<1>5. CASE Applied(w, m)
  <2> DEFINE i == m.write
  <2>1. i \in Writes /\ m = Query(i) /\ log' = Append(log, i)
    BY <1>5, QueryFacts DEF Applied
  <2> HIDE DEF i
  <2>2. /\ Len(log) \in Nat /\ Len(log') = Len(log) + 1 /\ log'[Len(log) + 1] = i
        /\ \A k \in 1 .. Len(log) : log'[k] = log[k]
        /\ DOMAIN log = 1 .. Len(log) /\ DOMAIN log' = 1 .. Len(log')
    BY <2>1, AppendProperties, LenProperties DEF TypeOK
  <2>3. \A n \in 1 .. Len(log) : log[n] < i
    BY <1>1, <2>1 DEF Ordered, LogFirst
  <2>4. \A b \in Writes, k \in 1 .. Len(queue) : queue[k] = Query(b) => i < b
    BY <1>1, <2>1 DEF Ordered, TaskFirst
  <2>5. \A n \in 1 .. Len(log') : n \in 1 .. Len(log) \/ n = Len(log) + 1
    BY <2>2
  <2>6. LogFirst'
    BY <1>1, <1>2, <2>2, <2>4, <2>5 DEF Ordered, LogFirst
  <2>7. InOrder'
    BY <2>2, <2>3, <2>5 DEF Ordered, InOrder
  <2> QED
    BY <1>3, <2>6, <2>7 DEF Ordered
<1> QED
  BY <1>4, <1>5 DEF Served, Refused, Crashed, Obeyed

\* stop() takes messages from the front, which changes no order.
LEMMA OrderedDrain ==
    ASSUME TypeOK, Ordered, NEW c \in Controllers, DrainGet(c)
    PROVE  Ordered'
<1>1. Got /\ queue # <<>> /\ UNCHANGED <<task, log>>
  BY DEF DrainGet, writers
<1>2. /\ Len(queue) \in Nat \ {0} /\ Len(queue') = Len(queue) - 1
      /\ \A k \in 1 .. Len(queue') : queue'[k] = queue[k + 1]
  BY <1>1, GotFacts DEF TypeOK
<1>3. \A k \in 1 .. Len(queue') : k + 1 \in 1 .. Len(queue)
  BY <1>2
<1>4. \A j, k \in 1 .. Len(queue') : j < k => j + 1 < k + 1
  BY <1>2
<1> QED
  BY <1>1, <1>2, <1>3, <1>4 DEF Ordered, QueueSorted, TaskFirst, LogFirst, InOrder

\* Messages of controllers change no order of writes.
LEMMA OrderedPut ==
    ASSUME TypeOK, Ordered, NEW m \in Messages, m.op # "query", Put(m),
           UNCHANGED <<task, answer, log>>
    PROVE  Ordered'
<1>1. /\ Len(queue) \in Nat /\ Len(queue') = Len(queue) + 1
      /\ \A k \in 1 .. Len(queue) : queue'[k] = queue[k]
      /\ queue'[Len(queue) + 1] = m
  BY PutFacts DEF TypeOK
<1>2. \A a \in Writes, k \in 1 .. Len(queue') : queue'[k] = Query(a) =>
         k \in 1 .. Len(queue) /\ queue[k] = Query(a)
  BY <1>1, QueryFacts
<1> QED
  BY <1>2 DEF Ordered, QueueSorted, TaskFirst, LogFirst, InOrder

\* Unless start() is called while stop() runs, the writes reach the file in the order
\* in which they entered the queue, over any number of pauses, failures and writers.
THEOREM WritesInOrder ==
    ASSUME Serialized
    PROVE  Spec => []InOrder
<1>1. TypeOK /\ HandsInv /\ Made /\ Successor /\ Ordered /\ [Next]_vars => Ordered'
  <2> SUFFICES ASSUME TypeOK, HandsInv, Made, Successor, Ordered, [Next]_vars
               PROVE  Ordered'
    OBVIOUS
  <2>1. CASE UNCHANGED <<queue, task, answer, log>>
    BY <2>1 DEF Ordered, QueueSorted, TaskFirst, LogFirst, InOrder
  <2> QED
    BY <2>1, Effects, OrderedSubmit, OrderedTake, OrderedServed, OrderedDrain, OrderedPut
<1>2. Made /\ Successor /\ TypeOK /\ [Next]_vars => Made' /\ Successor'
  BY MadeNext, SuccessorNext
<1>3. Spec => []Ordered
  BY <1>1, <1>2, SuccessorInit, OrderedInit, Hands, PTL DEF Spec
<1>4. Ordered => InOrder
  BY DEF Ordered
<1> QED
  BY <1>3, <1>4, PTL

-----------------------------------------------------------------------------
(***************************************************************************)
(* Messages in hands: queued, or taken by a writer.                        *)
(***************************************************************************)

Held(m) == \/ \E k \in 1 .. Len(queue) : queue[k] = m
           \/ \E w \in Writers : task[w] = <<m>>

\* It is in one place.
Once(m) ==
    /\ \A j, k \in 1 .. Len(queue) : queue[j] = m /\ queue[k] = m => j = k
    /\ \A v, w \in Writers : task[v] = <<m>> /\ task[w] = <<m>> => v = w
    /\ \A w \in Writers, k \in 1 .. Len(queue) : ~(task[w] = <<m>> /\ queue[k] = m)

\* Messages of different kinds are different.
LEMMA Distinct ==
    /\ \A i \in Writes : Query(i) # Shutdown
    /\ \A c \in Controllers, op \in {"pause", "unpause"} :
          /\ Control(op, c) # Shutdown /\ Control(op, c).op = op /\ Control(op, c).by = c
          /\ \A i \in Writes : Control(op, c) # Query(i)
    /\ \A m \in Messages : m.op \in {"pause", "unpause"} =>
          m.by \in Controllers /\ m = Control(m.op, m.by)
    /\ \A m \in Messages : m.op = "shutdown" => m = Shutdown
<1>1. \A i \in Writes : Query(i).op = "query"
  BY MessageMakers
<1>2. Shutdown.op = "shutdown"
  BY MessageMakers
<1>3. \A c \in Controllers, op \in {"pause", "unpause"} :
         Control(op, c).op = op /\ Control(op, c).by = c
  BY DEF Control
<1>4. \A m \in Messages : m.op \in {"pause", "unpause"} =>
         m.by \in Controllers /\ m = Control(m.op, m.by)
  BY DEF Messages, Query, Shutdown, Control
<1>5. \A m \in Messages : m.op = "shutdown" => m = Shutdown
  BY DEF Messages, Query, Shutdown, Control
<1> QED
  BY <1>1, <1>2, <1>3, <1>4, <1>5

\* A message that is put is the only new one.
LEMMA HeldPut ==
    ASSUME TypeOK, NEW x \in Messages, Put(x), task' = task, NEW m
    PROVE  /\ Held(m)' => Held(m) \/ m = x
           /\ Once(m) /\ (m # x \/ ~Held(m)) => Once(m)'
           /\ \A k \in 1 .. Len(queue) : k \in 1 .. Len(queue') /\ queue'[k] = queue[k]
<1>1. /\ Len(queue) \in Nat /\ Len(queue') = Len(queue) + 1
      /\ \A k \in 1 .. Len(queue) : queue'[k] = queue[k]
      /\ queue'[Len(queue) + 1] = x
  BY PutFacts DEF TypeOK
<1>2. \A k \in 1 .. Len(queue') : k \in 1 .. Len(queue) \/ k = Len(queue) + 1
  BY <1>1
<1>3. Held(m)' => Held(m) \/ m = x
  BY <1>1, <1>2 DEF Held
<1>4. ASSUME Once(m), m # x \/ ~Held(m) PROVE Once(m)'
  <2>1. CASE m # x
    BY <1>1, <1>2, <1>4, <2>1 DEF Once
  <2>2. CASE ~Held(m)
    BY <1>1, <1>2, <2>2, <1>4 DEF Once, Held
  <2> QED
    BY <1>4, <2>1, <2>2
<1> QED
  BY <1>1, <1>3, <1>4

\* A writer that takes a message makes no new one.
LEMMA HeldTake ==
    ASSUME TypeOK, NEW w \in Writers, Take(w), NEW m
    PROVE  (Held(m)' => Held(m)) /\ (Once(m) => Once(m)')
<1>1. /\ Got /\ queue # <<>> /\ task' = [task EXCEPT ![w] = <<Head(queue)>>]
      /\ task[w] = <<>>
  BY DEF Take
<1>2. /\ Len(queue) \in Nat \ {0} /\ Len(queue') = Len(queue) - 1
      /\ Head(queue) = queue[1]
      /\ \A k \in 1 .. Len(queue') : queue'[k] = queue[k + 1]
  BY <1>1, GotFacts DEF TypeOK
<1>3. \A v \in Writers : task'[v] = IF v = w THEN <<queue[1]>> ELSE task[v]
  BY <1>1, <1>2 DEF TypeOK
<1>4. \A k \in 1 .. Len(queue') : k + 1 \in 1 .. Len(queue) /\ k + 1 # 1
  BY <1>2
<1>5. 1 \in 1 .. Len(queue)
  BY <1>2
<1>6. \A v \in Writers : task'[v] = <<m>> => (v = w /\ queue[1] = m) \/ task[v] = <<m>>
  BY <1>3
<1>7. Held(m)' => Held(m)
  BY <1>2, <1>4, <1>5, <1>6 DEF Held
<1>8. ASSUME Once(m) PROVE Once(m)'
  <2>1. \A j, k \in 1 .. Len(queue') : queue'[j] = m /\ queue'[k] = m => j = k
    BY <1>2, <1>4, <1>8 DEF Once
  <2>2. \A u, v \in Writers : task'[u] = <<m>> /\ task'[v] = <<m>> => u = v
    BY <1>5, <1>6, <1>8 DEF Once
  <2>3. \A v \in Writers, k \in 1 .. Len(queue') : ~(task'[v] = <<m>> /\ queue'[k] = m)
    BY <1>2, <1>4, <1>5, <1>6, <1>8 DEF Once
  <2> QED
    BY <2>1, <2>2, <2>3 DEF Once
<1> QED
  BY <1>7, <1>8

\* A message that is served is gone.
LEMMA HeldServed ==
    ASSUME TypeOK, NEW w \in Writers, NEW x \in Messages, Served(w, x), NEW m
    PROVE  /\ Held(m)' => Held(m)
           /\ Once(m) => Once(m)'
           /\ Held(x) /\ (Once(x) => ~Held(x)')
<1>1. /\ task[w] = <<x>> /\ queue' = queue
      /\ \A v \in Writers : task'[v] = IF v = w THEN <<>> ELSE task[v]
  BY DEF Served, TypeOK
<1>2. \A v \in Writers : \A y : task'[v] = <<y>> => v # w /\ task[v] = <<y>>
  BY <1>1, \A y : <<y>> # <<>>
<1>3. (Held(m)' => Held(m)) /\ (Once(m) => Once(m)')
  BY <1>1, <1>2 DEF Held, Once
<1> QED
  BY <1>1, <1>2, <1>3 DEF Held, Once

\* A message that stop() takes out of the queue is gone.
LEMMA HeldDrain ==
    ASSUME TypeOK, NEW c \in Controllers, DrainGet(c), NEW m
    PROVE  /\ Held(m)' => Held(m)
           /\ Once(m) => Once(m)'
           /\ Head(queue) \in Messages /\ Held(Head(queue))
           /\ m = Head(queue) /\ Once(m) => ~Held(m)'
<1>1. Got /\ queue # <<>> /\ task' = task
  BY DEF DrainGet, writers
<1>2. /\ Len(queue) \in Nat \ {0} /\ Len(queue') = Len(queue) - 1
      /\ Head(queue) = queue[1] /\ Head(queue) \in Messages
      /\ \A k \in 1 .. Len(queue') : queue'[k] = queue[k + 1]
  BY <1>1, GotFacts DEF TypeOK
<1>3. \A k \in 1 .. Len(queue') : k + 1 \in 1 .. Len(queue) /\ k + 1 # 1
  BY <1>2
<1>4. 1 \in 1 .. Len(queue)
  BY <1>2
<1>5. Held(m)' => Held(m)
  BY <1>1, <1>2, <1>3 DEF Held
<1>6. Once(m) => Once(m)'
  BY <1>1, <1>2, <1>3 DEF Once
<1>7. Held(queue[1])
  BY <1>4 DEF Held
<1>8. ASSUME m = queue[1], Once(m) PROVE ~Held(m)'
  BY <1>1, <1>2, <1>3, <1>4, <1>8 DEF Held, Once
<1> QED
  BY <1>2, <1>5, <1>6, <1>7, <1>8

-----------------------------------------------------------------------------
(***************************************************************************)
(* stop(): one at a time, and what it finds when it empties the queue.     *)
(***************************************************************************)

Stops(c) == pc[c] \in {"join", "drain", "drain_get"}

\* One call waits for a writer, of a database that is stopped; it empties the queue
\* when that writer has ended.  The writer of a database that runs has not been told
\* to end.
StopAlone ==
    /\ \A c, d \in Controllers : Stops(c) /\ Stops(d) => c = d
    /\ \A c \in Controllers : Stops(c) => isStopped /\ joined[c] \in Writers
    /\ \A c \in Controllers :
          pc[c] \in {"drain", "drain_get"} => mode[joined[c]] \notin Alive
    /\ ~isStopped => writer \in Writers /\ mode[writer] \in Alive \cup {"crashed"}

\* The message that ends a writer is there once, and only while a stop() has not
\* returned.
OneEnd ==
    /\ Held(Shutdown) => \E c \in Controllers : Stops(c)
    /\ Once(Shutdown)

StopInv == StopAlone /\ OneEnd

\* Nobody stops a database at the beginning.
LEMMA StopInit == Init => StopInv
BY DEF Init, StopInv, StopAlone, OneEnd, Stops, Held, Once, Threads

\* A writer that lives while the database is being stopped is the one waited for.
LEMMA StopWaits ==
    ASSUME Successor, StopAlone, NEW c \in Controllers, Stops(c),
           NEW w \in Writers, mode[w] \in Alive
    PROVE  pc[c] = "join" /\ joined[c] = w
<1>1. PICK d \in Controllers : pc[d] = "join" /\ joined[d] = w
  BY DEF Successor, StopAlone
<1>2. c = d
  BY <1>1 DEF StopAlone, Stops
<1> QED
  BY <1>1, <1>2

\* The steps of a writer.
LEMMA StopWriter ==
    ASSUME TypeOK, Made, Successor, StopInv, NEW w \in Writers, WriterStep(w)
    PROVE  StopInv'
<1> USE DEF StopInv
<1>1. CASE ConnectWriter(w)
  <2>1. /\ UNCHANGED <<queue, task, pc, joined, isStopped, writer>>
        /\ mode[w] \in Alive /\ mode' = [mode EXCEPT ![w] = "running"]
    BY <1>1 DEF ConnectWriter, control, locals, Alive
  <2>2. StopAlone'
    BY <2>1 DEF StopAlone, Stops, TypeOK, Alive
  <2> QED
    BY <2>1, <2>2 DEF OneEnd, Stops, Held, Once
<1>2. CASE Take(w)
  <2>1. UNCHANGED <<mode, pc, joined, isStopped, writer>>
    BY <1>2 DEF Take, control, locals
  <2> QED
    BY <1>2, <2>1, HeldTake DEF StopAlone, OneEnd, Stops
<1>3. ASSUME NEW m \in Messages, Served(w, m) PROVE StopInv'
  <2>1. UNCHANGED <<pc, joined, isStopped, writer>> /\ task[w] = <<m>>
    BY <1>3 DEF Served, control
  <2>2. mode[w] \in Alive
    BY <2>1, <<m>> # <<>> DEF Made, Alive
  <2>3. \E x \in {"starting", "running", "paused", "crashed", "dead"} :
           /\ mode' = [mode EXCEPT ![w] = x]
           /\ x = "dead" => m = Shutdown
    <3>1. mode = [mode EXCEPT ![w] = mode[w]] /\ mode[w] \in {"starting", "running", "paused"}
      BY <2>2 DEF TypeOK, Alive
    <3> QED
      BY <1>3, <3>1, Distinct DEF Served, Applied, Refused, Crashed, Obeyed
  <2>4. m = Shutdown => isStopped
    BY <1>3, HeldServed DEF OneEnd, StopAlone
  <2>5. StopAlone'
    BY <2>1, <2>2, <2>3, <2>4 DEF StopAlone, Stops, TypeOK, Alive
  <2>6. OneEnd'
    BY <1>3, <2>1, HeldServed DEF OneEnd, Stops
  <2> QED
    BY <2>5, <2>6
<1> QED
  BY <1>1, <1>2, <1>3, WriterServes

\* A step that leaves the messages and the writers alone, and begins no stop().
LEMMA StopStutter ==
    ASSUME StopInv, UNCHANGED <<queue, task, mode, joined, isStopped, writer>>,
           \A c \in Controllers : pc'[c] = pc[c] \/ pc'[c] \notin {"join", "drain", "drain_get"},
           \/ ~Held(Shutdown)
           \/ \A c \in Controllers : Stops(c) => pc'[c] = pc[c]
    PROVE  StopInv'
<1>1. \A c \in Controllers : Stops(c)' => Stops(c) /\ pc'[c] = pc[c]
  BY DEF Stops
<1>2. StopAlone'
  BY <1>1 DEF StopInv, StopAlone
<1>3. Held(Shutdown)' => \E c \in Controllers : Stops(c)'
  BY DEF StopInv, OneEnd, Stops, Held, Shutdown
<1> QED
  BY <1>2, <1>3 DEF StopInv, OneEnd, Once, Shutdown

\* The calls of a controller.
LEMMA StopCall ==
    ASSUME Serialized, TypeOK, StopInv, NEW c \in Controllers, Call(c)
    PROVE  StopInv'
<1>1. CASE start(c)
  <2>1. \A d \in Controllers : ~Stops(d)
    BY <1>1 DEF start, CallFrom, Serialized, Stopping, Stops
  <2>2. UNCHANGED <<queue, task, pc>>
    BY <1>1 DEF start
  <2>3. \A d \in Controllers : ~Stops(d)' /\ pc'[d] \notin {"drain", "drain_get"}
    BY <2>1, <2>2 DEF Stops
  <2>4. OneEnd'
    BY <2>1, <2>2 DEF StopInv, OneEnd, Stops, Held, Once, Shutdown
  <2>5. ~isStopped' => writer' \in Writers /\ mode'[writer'] \in Alive \cup {"crashed"}
    BY <1>1 DEF start, StopInv, StopAlone, TypeOK, Alive, Writers
  <2>6. StopAlone'
    BY <2>3, <2>5 DEF StopAlone
  <2> QED
    BY <2>4, <2>6 DEF StopInv
<1>2. ASSUME NEW points, NEW first \in {"stop_put", "pause_put", "unpause_put"},
             points \subseteq {"run", "paused"}, CallLocked(c, points, first)
      PROVE  StopInv'
  <2>1. /\ UNCHANGED <<queue, task, mode, joined, isStopped, writer>>
        /\ pc[c] \in {"run", "paused"}
        /\ \E x \in {"run", "stop_put", "pause_put", "unpause_put"} : pc' = [pc EXCEPT ![c] = x]
    BY <1>2 DEF CallLocked, CallFrom, writers, Goto
  <2>2. \A d \in Controllers : pc'[d] = pc[d] \/ pc'[d] \notin {"join", "drain", "drain_get"}
    BY <2>1 DEF TypeOK, Threads
  <2>3. \A d \in Controllers : Stops(d) => pc'[d] = pc[d]
    BY <2>1 DEF TypeOK, Threads, Stops
  <2> QED
    BY <2>1, <2>2, <2>3, StopStutter
<1> QED
  BY <1>1, <1>2 DEF Call, stop, pause, unpause

\* The steps of a controller.
LEMMA StopController ==
    ASSUME TypeOK, Made, Successor, StopInv, NEW c \in Controllers, ControllerStep(c)
    PROVE  StopInv'
<1>1. CASE StopPut(c)
  <2>1. /\ Put(Shutdown) /\ task' = task /\ mode' = mode /\ isStopped' = TRUE
        /\ pc' = [pc EXCEPT ![c] = "join"] /\ joined' = [joined EXCEPT ![c] = writer]
    BY <1>1 DEF StopPut, Goto, writers
  <2>2. ~isStopped
    BY <1>1 DEF StopPut, Successor
  <2>3. \A d \in Controllers : ~Stops(d)
    BY <2>2 DEF StopInv, StopAlone
  <2>4. writer \in Writers
    BY <2>2 DEF StopInv, StopAlone
  <2>5. StopAlone'
    BY <2>1, <2>3, <2>4 DEF StopAlone, Stops, TypeOK, Threads
  <2>6. Once(Shutdown)'
    <3>1. ~Held(Shutdown) /\ Once(Shutdown)
      BY <2>3 DEF StopInv, OneEnd
    <3>2. Shutdown \in Messages
      BY MessageMakers
    <3>3. ASSUME NEW m, m = Shutdown PROVE Once(m)'
      BY <2>1, <3>1, <3>2, <3>3, HeldPut
    <3> QED
      BY <3>3 DEF Once, Shutdown
  <2>7. Stops(c)'
    BY <2>1 DEF Stops, TypeOK, Threads
  <2> QED
    BY <2>5, <2>6, <2>7 DEF StopInv, OneEnd
<1>2. CASE Join(c)
  <2>1. /\ UNCHANGED <<queue, task, mode, joined, isStopped, writer>>
        /\ pc[c] = "join" /\ mode[joined[c]] \notin Alive /\ pc' = [pc EXCEPT ![c] = "drain"]
    BY <1>2 DEF Join, Ended, Goto, control, writers, locals
  <2>2. \A d \in Controllers : Stops(d)' <=> Stops(d)
    BY <2>1 DEF Stops, TypeOK, Threads
  <2>3. StopAlone'
    BY <2>1, <2>2 DEF StopInv, StopAlone, TypeOK, Threads
  <2>4. OneEnd'
    BY <2>1, <2>2 DEF StopInv, OneEnd, Held, Once, Shutdown
  <2> QED
    BY <2>3, <2>4 DEF StopInv
<1>3. CASE DrainCheck(c)
  <2>1. /\ UNCHANGED <<queue, task, mode, joined, isStopped, writer>>
        /\ pc[c] = "drain"
    BY <1>3 DEF DrainCheck, control, writers, locals
  <2>2. CASE queue = <<>>
    <3>1. \A w \in Writers : task[w] = <<>>
      <4> SUFFICES ASSUME NEW w \in Writers, task[w] # <<>> PROVE FALSE
        OBVIOUS
      <4>1. mode[w] \in Alive
        BY DEF Made, Alive
      <4> QED
        BY <2>1, <4>1, StopWaits DEF StopInv, Stops
    <3>2. ~Held(Shutdown)
      BY <2>2, <3>1, <<Shutdown>> # <<>> DEF Held
    <3>3. pc' = [pc EXCEPT ![c] = "run"]
      BY <1>3, <2>2 DEF DrainCheck, Goto
    <3> QED
      BY <2>1, <3>2, <3>3, StopStutter DEF TypeOK, Threads
  <2>3. CASE queue # <<>>
    <3>1. pc' = [pc EXCEPT ![c] = "drain_get"]
      BY <1>3, <2>3 DEF DrainCheck, Goto
    <3>2. \A d \in Controllers : Stops(d)' <=> Stops(d)
      BY <2>1, <3>1 DEF Stops, TypeOK, Threads
    <3>3. StopAlone'
      BY <2>1, <3>1, <3>2 DEF StopInv, StopAlone, TypeOK, Threads
    <3>4. OneEnd'
      BY <2>1, <3>2 DEF StopInv, OneEnd, Held, Once, Shutdown
    <3> QED
      BY <3>3, <3>4 DEF StopInv
  <2> QED
    BY <2>2, <2>3
<1>4. CASE DrainGet(c)
  <2>1. /\ UNCHANGED <<task, mode, joined, isStopped, writer>>
        /\ pc[c] = "drain_get" /\ pc' = [pc EXCEPT ![c] = "drain"]
    BY <1>4 DEF DrainGet, Goto, control, writers
  <2>2. \A d \in Controllers : Stops(d)' <=> Stops(d)
    BY <2>1 DEF Stops, TypeOK, Threads
  <2>3. StopAlone'
    BY <2>1, <2>2 DEF StopInv, StopAlone, TypeOK, Threads
  <2>4. ASSUME NEW m, m = Shutdown PROVE (Held(m)' => Held(m)) /\ Once(m)'
    BY <1>4, <2>4, HeldDrain DEF StopInv, OneEnd
  <2>5. (Held(Shutdown)' => Held(Shutdown)) /\ Once(Shutdown)'
    BY <2>4 DEF Held, Once, Shutdown
  <2>6. OneEnd'
    BY <2>2, <2>5 DEF StopInv, OneEnd
  <2> QED
    BY <2>3, <2>6 DEF StopInv
<1>5. CASE PausePut(c) \/ UnpausePut(c)
  <2>1. PICK op \in {"pause", "unpause"} : ControlPut(c, op)
    BY <1>5 DEF PausePut, UnpausePut
  <2>2. /\ Put(Control(op, c)) /\ UNCHANGED <<task, mode, joined, isStopped, writer>>
        /\ \E x \in {"pause_wait", "unpause_wait"} : pc' = [pc EXCEPT ![c] = x]
        /\ pc[c] \in {"pause_put", "unpause_put"}
    BY <1>5, <2>1 DEF ControlPut, PausePut, UnpausePut, Goto, writers
  <2>3. \A d \in Controllers : /\ Stops(d)' <=> Stops(d)
                               /\ pc'[d] \in {"drain", "drain_get"} => pc'[d] = pc[d]
    BY <2>2 DEF Stops, TypeOK, Threads
  <2>4. StopAlone'
    BY <2>2, <2>3 DEF StopInv, StopAlone
  <2>5. Control(op, c) \in Messages /\ Control(op, c) # Shutdown
    BY MessageMakers, Distinct
  <2>6. ASSUME NEW m, m = Shutdown PROVE (Held(m)' => Held(m)) /\ Once(m)'
    BY <2>2, <2>5, <2>6, HeldPut DEF StopInv, OneEnd
  <2>7. (Held(Shutdown)' => Held(Shutdown)) /\ Once(Shutdown)'
    BY <2>6 DEF Held, Once, Shutdown
  <2>8. OneEnd'
    BY <2>3, <2>7 DEF StopInv, OneEnd
  <2> QED
    BY <2>4, <2>8 DEF StopInv
<1>6. CASE PauseReturn(c) \/ UnpauseReturn(c)
  <2>1. /\ UNCHANGED <<queue, task, mode, joined, isStopped, writer>>
        /\ pc[c] \in {"pause_wait", "unpause_wait"}
        /\ \E x \in {"run", "paused"} : pc' = [pc EXCEPT ![c] = x]
    BY <1>6 DEF PauseReturn, UnpauseReturn, Goto, control, writers, locals
  <2> QED
    BY <2>1, StopStutter DEF TypeOK, Threads, Stops
<1> QED
  BY <1>1, <1>2, <1>3, <1>4, <1>5, <1>6 DEF ControllerStep

\* Every step keeps one stop() at a time.
LEMMA StopNext ==
    ASSUME Serialized, TypeOK, Made, Successor, StopInv, [Next]_vars
    PROVE  StopInv'
<1>1. ASSUME NEW t \in Clients, ClientStep(t) PROVE StopInv'
  <2>1. /\ UNCHANGED <<task, mode, joined, isStopped, writer>>
        /\ \E x \in {"run", "wait"} : pc' = [pc EXCEPT ![t] = x]
    BY <1>1 DEF ClientStep, Submit, GetResult, ResultTimeout, Goto, control, writers, locals
  <2>2. \A d \in Controllers : pc'[d] = pc[d]
    BY <2>1 DEF TypeOK, Threads
  <2>3. CASE UNCHANGED queue
    BY <2>1, <2>2, <2>3, StopStutter
  <2>4. CASE Submit(t)
    <3>1. PICK i \in Writes : Put(Query(i))
      BY <2>4, SubmittedType DEF Submit, Writes
    <3>2. Query(i) \in Messages /\ Query(i) # Shutdown
      BY MessageMakers, Distinct
    <3>3. ASSUME NEW m, m = Shutdown PROVE (Held(m)' => Held(m)) /\ Once(m)'
      BY <2>1, <3>1, <3>2, <3>3, HeldPut DEF StopInv, OneEnd
    <3>4. (Held(Shutdown)' => Held(Shutdown)) /\ Once(Shutdown)'
      BY <3>3 DEF Held, Once, Shutdown
    <3>5. StopAlone' /\ OneEnd'
      BY <2>1, <2>2, <3>4 DEF StopInv, StopAlone, OneEnd, Stops
    <3> QED
      BY <3>5 DEF StopInv
  <2> QED
    BY <1>1, <2>3, <2>4 DEF ClientStep, GetResult, ResultTimeout
<1>2. CASE UNCHANGED vars
  <2>1. UNCHANGED <<queue, task, mode, joined, isStopped, writer, pc>>
    BY <1>2 DEF vars, control, writers, locals
  <2> QED
    BY <2>1, StopStutter
<1> QED
  BY <1>1, <1>2, StopWriter, StopCall, StopController DEF Next, Finished

\* A write that is dealt with otherwise than by stop(); one that is to be dealt with
\* before the writer gets to its end.
Dealt(i) == answer[i] \in {"done", "failed", "paused"}

Ahead(w, i) ==
    \E k \in 1 .. Len(queue) :
        /\ queue[k] = Shutdown
        /\ task[w] = <<Query(i)>> \/ \E j \in 1 .. Len(queue) : j < k /\ queue[j] = Query(i)

\* What stop() promises of the writes that were there before it.
Promised ==
    \A c \in Controllers : Stops(c) => \A i \in pledged[c] :
        /\ mode[joined[c]] \in Alive => Dealt(i) \/ Ahead(joined[c], i)
        /\ mode[joined[c]] = "dead" => Dealt(i)

\* What is dealt with is in nobody's hands.
LEMMA DealtStays ==
    ASSUME TypeOK, HandsInv, NEW i \in Writes, Dealt(i), [Next]_vars
    PROVE  Dealt(i)'
<1>1. ASSUME NEW t \in Clients, Submit(t) PROVE Dealt(i)'
  <2>1. answer[Submitted + 1] = "none" /\ answer' = [answer EXCEPT ![Submitted + 1] = "pending"]
    BY <1>1, SubmittedFacts DEF Submit, Tell, Writes, HandsInv
  <2> QED
    BY <2>1 DEF TypeOK, Dealt
<1>2. ASSUME NEW w \in Writers, NEW m \in Messages, Served(w, m) PROVE Dealt(i)'
  <2>1. m.op = "query" => answer[m.write] = "pending"
    BY <1>2, QueryFacts DEF Served, HandsInv, HandsPending
  <2>2. \/ answer' = answer
        \/ m.op = "query" /\ \E what \in Answers : answer' = [answer EXCEPT ![m.write] = what]
    BY <1>2 DEF Served, Applied, Refused, Crashed, Obeyed, Tell, Answers
  <2> QED
    BY <2>1, <2>2 DEF TypeOK, Dealt
<1>3. ASSUME NEW c \in Controllers, DrainGet(c) PROVE Dealt(i)'
  <2> DEFINE m == Head(queue)
  <2>1. 1 \in 1 .. Len(queue) /\ m = queue[1] /\ m \in Messages
    BY <1>3, GotFacts DEF DrainGet, TypeOK
  <2>2. IF m.op = "query" THEN answer' = [answer EXCEPT ![m.write] = "shutdown"]
        ELSE answer' = answer
    BY <1>3 DEF DrainGet, Tell
  <2> HIDE DEF m
  <2>3. m.op = "query" => answer[m.write] = "pending"
    BY <2>1, QueryFacts DEF HandsInv, HandsPending
  <2> QED
    BY <2>2, <2>3 DEF TypeOK, Dealt
<1>4. ASSUME NEW w \in Writers, Take(w) PROVE Dealt(i)'
  BY <1>4 DEF Take, results, Dealt
<1>5. CASE UNCHANGED <<queue, task, answer, log>>
  BY <1>5 DEF Dealt
<1> QED
  BY <1>1, <1>2, <1>3, <1>4, <1>5, Effects DEF Dealt

\* What is ahead of the end of a writer stays there until the writer takes it.
LEMMA AheadPut ==
    ASSUME TypeOK, NEW x \in Messages, Put(x), task' = task,
           NEW w \in Writers, NEW i \in Writes, Ahead(w, i)
    PROVE  Ahead(w, i)'
<1>1. \A k \in 1 .. Len(queue) : k \in 1 .. Len(queue') /\ queue'[k] = queue[k]
  BY HeldPut
<1> QED
  BY <1>1 DEF Ahead, Shutdown, Query

\* The writer takes what is first.
LEMMA AheadTake ==
    ASSUME TypeOK, NEW w \in Writers, Take(w), NEW i \in Writes, Ahead(w, i)
    PROVE  Ahead(w, i)'
<1>1. /\ Got /\ queue # <<>> /\ task' = [task EXCEPT ![w] = <<Head(queue)>>]
      /\ task[w] = <<>>
  BY DEF Take
<1>2. /\ Len(queue) \in Nat \ {0} /\ Len(queue') = Len(queue) - 1
      /\ Head(queue) = queue[1]
      /\ \A k \in 1 .. Len(queue') : queue'[k] = queue[k + 1]
  BY <1>1, GotFacts DEF TypeOK
<1>3. task'[w] = <<queue[1]>>
  BY <1>1, <1>2 DEF TypeOK
<1>4. PICK j, k \in 1 .. Len(queue) : queue[k] = Shutdown /\ j < k /\ queue[j] = Query(i)
  BY <1>1, <<Query(i)>> # <<>> DEF Ahead
<1>5. k - 1 \in 1 .. Len(queue') /\ queue'[k - 1] = Shutdown
  BY <1>2, <1>4
<1>6. CASE j = 1
  BY <1>3, <1>4, <1>5, <1>6 DEF Ahead, Shutdown, Query
<1>7. CASE j # 1
  <2>1. j - 1 \in 1 .. Len(queue') /\ queue'[j - 1] = Query(i) /\ j - 1 < k - 1
    BY <1>2, <1>4, <1>7
  <2> QED
    BY <1>5, <2>1 DEF Ahead, Shutdown, Query
<1> QED
  BY <1>6, <1>7

\* The steps of a writer keep the promise.
LEMMA PromisedWriter ==
    ASSUME TypeOK, Made, Successor, HandsInv, StopInv, Promised,
           NEW w \in Writers, WriterStep(w)
    PROVE  Promised'
<1>1. UNCHANGED <<pc, joined, pledged>>
  <2>1. ASSUME NEW m \in Messages, Served(w, m) PROVE UNCHANGED <<pc, joined, pledged>>
    BY <2>1 DEF Served
  <2> QED
    BY <2>1, WriterServes DEF ConnectWriter, Take, locals
<1>2. mode[w] \in Alive
  <2>1. ASSUME NEW m \in Messages, Served(w, m) PROVE mode[w] \in Alive
    BY <2>1, <<m>> # <<>> DEF Served, Made, Alive
  <2> QED
    BY <2>1, WriterServes DEF ConnectWriter, Take, Alive
<1>0. \A c \in Controllers : Stops(c) => joined[c] = w
  BY <1>2, StopWaits DEF StopInv
<1> SUFFICES ASSUME NEW c \in Controllers, Stops(c), NEW i \in pledged[c]
             PROVE  /\ mode'[w] \in Alive => Dealt(i)' \/ Ahead(w, i)'
                    /\ mode'[w] = "dead" => Dealt(i)'
  <2>1. \A c \in Controllers : Stops(c)' => Stops(c) /\ joined'[c] = w
    BY <1>1, <1>0 DEF Stops
  <2>2. pledged' = pledged
    BY <1>1
  <2> QED
    BY <2>1, <2>2 DEF Promised, Dealt, Ahead
<1>3. joined[c] = w
  BY <1>0
<1>4. i \in Writes
  BY DEF TypeOK
<1>5. Dealt(i) \/ Ahead(w, i)
  BY <1>2, <1>3 DEF Promised
<1>6. Dealt(i) => Dealt(i)'
  BY <1>4, DealtStays DEF Next
<1>7. CASE ConnectWriter(w)
  <2>1. UNCHANGED <<queue, task>> /\ mode'[w] = "running"
    BY <1>7 DEF ConnectWriter, TypeOK
  <2>2. Ahead(w, i) => Ahead(w, i)'
    BY <2>1 DEF Ahead, Shutdown, Query
  <2> QED
    BY <1>3, <1>5, <1>6, <2>1, <2>2
<1>8. CASE Take(w)
  <2>1. mode'[w] = mode[w] /\ mode[w] # "dead"
    BY <1>2, <1>8 DEF Take, Alive
  <2> QED
    BY <1>3, <1>4, <1>5, <1>6, <1>8, <2>1, AheadTake
<1>9. ASSUME NEW m \in Messages, Served(w, m), ~Dealt(i)
      PROVE  /\ mode'[w] \in Alive => Dealt(i)' \/ Ahead(w, i)'
             /\ mode'[w] = "dead" => Dealt(i)'
  <2>1. task[w] = <<m>> /\ queue' = queue
    BY <1>9 DEF Served
  <2>2. PICK k \in 1 .. Len(queue) :
           /\ queue[k] = Shutdown
           /\ task[w] = <<Query(i)>> \/ \E j \in 1 .. Len(queue) : j < k /\ queue[j] = Query(i)
    BY <1>5, <1>9 DEF Ahead
  <2>3. m # Shutdown
    BY <2>1, <2>2 DEF StopInv, OneEnd, Once
  <2>4. CASE m = Query(i)
    <3>1. m.op = "query" /\ m.write = i /\ answer[i] = "pending"
      BY <1>4, <2>1, <2>4, QueryFacts DEF HandsInv, HandsPending
    <3>2. CASE Crashed(w, m)
      BY <3>2 DEF Crashed, TypeOK, Alive
    <3>3. CASE Applied(w, m) \/ Refused(w, m)
      <4>1. \E what \in {"done", "failed", "paused"} : answer' = [answer EXCEPT ![i] = what]
        BY <3>1, <3>3 DEF Applied, Refused, Tell
      <4> QED
        BY <1>4, <4>1 DEF Dealt, TypeOK
    <3> QED
      BY <1>9, <3>1, <3>2, <3>3 DEF Served, Obeyed
  <2>5. CASE m # Query(i)
    <3>1. Ahead(w, i)'
      <4>1. <<m>> # <<Query(i)>>
        BY <2>5
      <4> QED
        BY <2>1, <2>2, <4>1 DEF Ahead, Shutdown, Query
    <3>2. mode'[w] # "dead"
      BY <1>2, <1>9, <2>3, Distinct
         DEF Served, Applied, Refused, Crashed, Obeyed, TypeOK, Alive
    <3> QED
      BY <3>1, <3>2
  <2> QED
    BY <2>4, <2>5
<1>10. Dealt(i) \/ ~Dealt(i)
  OBVIOUS
<1> QED
  BY <1>3, <1>6, <1>7, <1>8, <1>9, <1>10, WriterServes

\* A step that leaves the messages and the writers alone, and begins no stop().
LEMMA PromisedStutter ==
    ASSUME TypeOK, HandsInv, StopInv, Promised, [Next]_vars, UNCHANGED <<mode, joined, pledged>>,
           \A c \in Controllers : pc'[c] = pc[c] \/ pc'[c] \notin {"join", "drain", "drain_get"}
                                  \/ Stops(c),
           \A w \in Writers, i \in Writes : Ahead(w, i) => Ahead(w, i)'
    PROVE  Promised'
<1> SUFFICES ASSUME NEW c \in Controllers, Stops(c)', NEW i \in pledged[c]
             PROVE  /\ mode[joined[c]] \in Alive => Dealt(i)' \/ Ahead(joined[c], i)'
                    /\ mode[joined[c]] = "dead" => Dealt(i)'
  BY DEF Promised, Stops, Dealt, Ahead
<1>1. Stops(c)
  BY DEF Stops
<1>2. i \in Writes /\ joined[c] \in Writers
  BY <1>1 DEF TypeOK, StopInv, StopAlone
<1>3. Dealt(i) => Dealt(i)'
  BY <1>2, DealtStays
<1>4. /\ mode[joined[c]] \in Alive => Dealt(i) \/ Ahead(joined[c], i)
      /\ mode[joined[c]] = "dead" => Dealt(i)
  BY <1>1 DEF Promised
<1>5. Ahead(joined[c], i) => Ahead(joined[c], i)'
  <2>1. ASSUME NEW w, w = joined[c] PROVE Ahead(w, i) => Ahead(w, i)'
    BY <1>2, <2>1
  <2> QED
    BY <2>1 DEF Ahead
<1> QED
  BY <1>3, <1>4, <1>5

\* stop() promises what is in hands.
LEMMA PromisedStop ==
    ASSUME TypeOK, Made, Successor, StopInv, NEW c \in Controllers, StopPut(c)
    PROVE  Promised'
<1>1. /\ Put(Shutdown) /\ task' = task /\ mode' = mode
      /\ pc' = [pc EXCEPT ![c] = "join"] /\ joined' = [joined EXCEPT ![c] = writer]
      /\ pledged' = [pledged EXCEPT ![c] = InHands]
  BY DEF StopPut, Goto, writers
<1>2. ~isStopped
  BY DEF StopPut, Successor
<1>3. \A d \in Controllers : ~Stops(d)
  BY <1>2 DEF StopInv, StopAlone
<1>4. writer \in Writers /\ mode[writer] \in Alive \cup {"crashed"}
  BY <1>2 DEF StopInv, StopAlone
<1>5. \A d \in Controllers : Stops(d)' => d = c
  BY <1>1, <1>3 DEF Stops, TypeOK, Threads
<1>6. joined'[c] = writer /\ pledged'[c] = InHands
  BY <1>1 DEF TypeOK
<1> SUFFICES ASSUME NEW i \in InHands, mode[writer] \in Alive
             PROVE  Ahead(joined[c], i)'
  BY <1>1, <1>4, <1>5, <1>6 DEF Promised, Dealt, Ahead, Alive
<1>7. /\ Len(queue) + 1 \in 1 .. Len(queue') /\ queue'[Len(queue) + 1] = Shutdown
      /\ \A k \in 1 .. Len(queue) : /\ k \in 1 .. Len(queue') /\ k < Len(queue) + 1
                                    /\ queue'[k] = queue[k]
  BY <1>1, PutFacts, MessageMakers DEF TypeOK
<1>8. CASE \E k \in DOMAIN queue : queue[k] = Query(i)
  <2>1. DOMAIN queue = 1 .. Len(queue)
    BY LenProperties DEF TypeOK
  <2> QED
    BY <1>7, <1>8, <2>1 DEF Ahead, Shutdown, Query
<1>9. CASE \E w \in Writers : task[w] = <<Query(i)>>
  <2>1. PICK w \in Writers : task[w] = <<Query(i)>>
    BY <1>9
  <2>2. w = writer
    BY <2>1, <<Query(i)>> # <<>> DEF Made, Successor, Alive
  <2> QED
    BY <1>1, <1>6, <1>7, <2>1, <2>2 DEF Ahead, Shutdown, Query
<1> QED
  BY <1>8, <1>9 DEF InHands

\* The calls and the other steps of a controller keep the promise.
LEMMA PromisedController ==
    ASSUME Serialized, TypeOK, Made, Successor, HandsInv, StopInv, Promised,
           NEW c \in Controllers, Call(c) \/ ControllerStep(c)
    PROVE  Promised'
<1>0. [Next]_vars
  BY DEF Next
<1>1. CASE start(c)
  <2>1. \A d \in Controllers : ~Stops(d)
    BY <1>1 DEF start, CallFrom, Serialized, Stopping, Stops
  <2>2. UNCHANGED pc
    BY <1>1 DEF start
  <2> QED
    BY <2>1, <2>2 DEF Promised, Stops
<1>2. CASE StopPut(c)
  BY <1>2, PromisedStop
<1>3. CASE DrainGet(c)
  <2>1. /\ UNCHANGED <<task, mode, joined, pledged>>
        /\ pc[c] = "drain_get" /\ pc' = [pc EXCEPT ![c] = "drain"]
    BY <1>3 DEF DrainGet, Goto, control, writers
  <2>2. \A d \in Controllers : Stops(d)' => d = c /\ Stops(d)
    BY <2>1 DEF Stops, TypeOK, Threads, StopInv, StopAlone
  <2>3. mode[joined[c]] \notin Alive
    BY <2>1 DEF StopInv, StopAlone
  <2>4. \A i \in pledged[c] : Dealt(i) => Dealt(i)'
    BY <1>0, DealtStays DEF TypeOK
  <2>5. \A i \in pledged[c] : mode[joined[c]] = "dead" => Dealt(i)'
    BY <2>1, <2>2, <2>4 DEF Promised, Stops
  <2> QED
    BY <2>1, <2>2, <2>3, <2>5 DEF Promised, Dealt
<1>4. CASE PausePut(c) \/ UnpausePut(c)
  <2>1. PICK op \in {"pause", "unpause"} : ControlPut(c, op)
    BY <1>4 DEF PausePut, UnpausePut
  <2>2. /\ Put(Control(op, c)) /\ UNCHANGED <<task, mode, joined, pledged>>
        /\ \E x \in {"pause_wait", "unpause_wait"} : pc' = [pc EXCEPT ![c] = x]
    BY <1>4, <2>1 DEF ControlPut, PausePut, UnpausePut, Goto, writers
  <2>3. \A d \in Controllers : pc'[d] = pc[d] \/ pc'[d] \notin {"join", "drain", "drain_get"}
    BY <2>2 DEF TypeOK, Threads
  <2>4. Control(op, c) \in Messages
    BY MessageMakers
  <2> QED
    BY <1>0, <2>2, <2>3, <2>4, AheadPut, PromisedStutter
<1>5. ASSUME UNCHANGED <<queue, task, mode, joined, pledged>>,
             \A d \in Controllers : pc'[d] = pc[d] \/ pc'[d] \notin {"join", "drain", "drain_get"}
                                    \/ Stops(d)
      PROVE  Promised'
  <2>1. \A w \in Writers, i \in Writes : Ahead(w, i) => Ahead(w, i)'
    BY <1>5 DEF Ahead, Shutdown, Query
  <2> QED
    BY <1>0, <1>5, <2>1, PromisedStutter
<1>6. CASE stop(c) \/ pause(c) \/ unpause(c)
  <2>1. /\ UNCHANGED <<queue, task, mode, joined, pledged>>
        /\ \E x \in {"run", "stop_put", "pause_put", "unpause_put"} : pc' = [pc EXCEPT ![c] = x]
    BY <1>6 DEF stop, pause, unpause, CallLocked, CallFrom, writers, Goto
  <2> QED
    BY <1>5, <2>1 DEF TypeOK, Threads
<1>7. CASE Join(c) \/ DrainCheck(c) \/ PauseReturn(c) \/ UnpauseReturn(c)
  <2>1. UNCHANGED <<queue, task, mode, joined, pledged>>
    BY <1>7 DEF Join, DrainCheck, PauseReturn, UnpauseReturn, writers, locals
  <2>2. \E x \in Points : /\ pc' = [pc EXCEPT ![c] = x]
                          /\ x \in {"join", "drain", "drain_get"} => Stops(c)
    BY <1>7 DEF Join, DrainCheck, PauseReturn, UnpauseReturn, Goto, Points, Stops
  <2> QED
    BY <1>5, <2>1, <2>2 DEF TypeOK, Threads
<1> QED
  BY <1>1, <1>2, <1>3, <1>4, <1>6, <1>7 DEF Call, ControllerStep

\* Every step keeps the promise.
LEMMA PromisedNext ==
    ASSUME Serialized, TypeOK, Made, Successor, HandsInv, StopInv, Promised, [Next]_vars
    PROVE  Promised'
<1>1. ASSUME NEW t \in Clients, ClientStep(t) PROVE Promised'
  <2>1. /\ UNCHANGED <<task, mode, joined, pledged>>
        /\ \E x \in {"run", "wait"} : pc' = [pc EXCEPT ![t] = x]
    BY <1>1 DEF ClientStep, Submit, GetResult, ResultTimeout, Goto, writers, locals
  <2>2. \A d \in Controllers : pc'[d] = pc[d]
    BY <2>1 DEF TypeOK, Threads
  <2>3. UNCHANGED queue \/ \E x \in Messages : Put(x)
    <3>1. CASE Submit(t)
      BY <3>1, SubmittedType, MessageMakers DEF Submit, Writes
    <3> QED
      BY <1>1, <3>1 DEF ClientStep, GetResult, ResultTimeout
  <2>4. \A w \in Writers, i \in Writes : Ahead(w, i) => Ahead(w, i)'
    <3>1. CASE UNCHANGED queue
      BY <2>1, <3>1 DEF Ahead, Shutdown, Query
    <3> QED
      BY <2>1, <2>3, <3>1, AheadPut
  <2> QED
    BY <2>1, <2>2, <2>4, PromisedStutter
<1>2. CASE UNCHANGED vars
  <2>1. UNCHANGED <<queue, task, mode, joined, pledged, pc>>
    BY <1>2 DEF vars, control, writers, locals
  <2>2. \A w \in Writers, i \in Writes : Ahead(w, i) => Ahead(w, i)'
    BY <2>1 DEF Ahead, Shutdown, Query
  <2> QED
    BY <2>1, <2>2, PromisedStutter
<1> QED
  BY <1>1, <1>2, PromisedWriter, PromisedController DEF Next, Finished

\* There is one stop() at a time, as there is one writer.
LEMMA OneStopAlways ==
    ASSUME Serialized
    PROVE  Spec => [](TypeOK /\ HandsInv /\ Made /\ Successor /\ StopInv)
<1>1. Made /\ Successor /\ StopInv /\ TypeOK /\ [Next]_vars => Made' /\ Successor' /\ StopInv'
  BY MadeNext, SuccessorNext, StopNext
<1> QED
  BY <1>1, SuccessorInit, StopInit, Hands, PTL DEF Spec

\* When stop() comes to empty the queue after a writer that ended as it was told,
\* nothing that was submitted before the call is pending or refused for the shutdown:
\* the message that ends the writer overtakes no write.
THEOREM StopFlushes ==
    ASSUME Serialized
    PROVE  Spec => []Flushed
<1>1. Init => Promised
  BY DEF Init, Promised, Stops, Threads
<1>2. Promised => Flushed
  BY DEF Promised, Flushed, Stops, Dealt
<1>3. TypeOK /\ HandsInv /\ Made /\ Successor /\ StopInv /\ Promised /\ [Next]_vars => Promised'
  BY PromisedNext
<1> QED
  BY <1>1, <1>2, <1>3, OneStopAlways, PTL DEF Spec

-----------------------------------------------------------------------------
(***************************************************************************)
(* pause(): whoever is told that the writer pauses may use the file.       *)
(***************************************************************************)

Asks(m) == m.op \in {"pause", "unpause"}

\* A controller that asked for something waits until its message is gone, and there
\* is one such message at a time.
Asked ==
    \A m \in Messages : Asks(m) =>
        /\ Once(m)
        /\ Held(m) => /\ ~event[m.by]
                      /\ pc[m.by] = IF m.op = "pause" THEN "pause_wait" ELSE "unpause_wait"

Quiet == \A w \in Writers : mode[w] \notin {"starting", "running"}

\* From the moment the writer has paused for it, no writer runs.
Granted ==
    \A c \in Controllers :
        (pc[c] = "pause_wait" /\ event[c]) \/ pc[c] = "paused" => Quiet

\* Nobody has asked for anything at the beginning.
LEMMA AskedInit == Init => Asked /\ Granted
BY DEF Init, Asked, Granted, Held, Once, Threads

\* A controller has one message of its own on its way.
LEMMA AskedOne ==
    ASSUME Asked, NEW m \in Messages, NEW x \in Messages, Asks(m), Asks(x),
           Held(m), Held(x), m.by = x.by
    PROVE  m = x
<1>1. m.op = x.op
  BY DEF Asked, Asks
<1>2. m = Control(m.op, m.by) /\ x = Control(x.op, x.by)
  BY Distinct DEF Asks
<1> QED
  BY <1>1, <1>2

\* A message that is served, by a writer or by stop(), and whose sender is told.
LEMMA AskedTold ==
    ASSUME TypeOK, Asked, NEW x \in Messages, Held(x), Asks(x) => ~Held(x)',
           \A m \in Messages : (Held(m)' => Held(m)) /\ (Once(m) => Once(m)'),
           \/ event' = event
           \/ Asks(x) /\ event' = [event EXCEPT ![x.by] = TRUE],
           \A m \in Messages : Asks(m) /\ Held(m) => pc'[m.by] = pc[m.by]
    PROVE  Asked'
<1> SUFFICES ASSUME NEW m \in Messages, Asks(m), Held(m)'
             PROVE  ~event'[m.by] /\ pc'[m.by] = pc[m.by] /\ Held(m)
  BY DEF Asked, Asks
<1>1. Held(m) /\ pc'[m.by] = pc[m.by] /\ ~event[m.by]
  BY DEF Asked
<1>2. CASE Asks(x) /\ event' = [event EXCEPT ![x.by] = TRUE]
  <2>1. m # x
    BY <1>2
  <2>2. m.by # x.by
    BY <1>1, <1>2, <2>1, AskedOne
  <2> QED
    BY <1>1, <1>2, <2>2 DEF TypeOK
<1> QED
  BY <1>1, <1>2

\* A step that brings no new message, and changes nothing for who waits.
LEMMA AskedStutter ==
    ASSUME Asked, event' = event,
           \A m \in Messages : Asks(m) => (Held(m)' => Held(m)) /\ (Once(m) => Once(m)'),
           \A m \in Messages : Asks(m) /\ Held(m) => pc'[m.by] = pc[m.by]
    PROVE  Asked'
BY DEF Asked, Asks

\* What is still queued or taken is still held.
LEMMA HeldSame ==
    ASSUME UNCHANGED <<queue, task>>, NEW m
    PROVE  (Held(m)' => Held(m)) /\ (Once(m) => Once(m)')
BY DEF Held, Once

\* The steps of a writer.
LEMMA AskedWriter ==
    ASSUME TypeOK, Asked, NEW w \in Writers, WriterStep(w)
    PROVE  Asked'
<1>1. CASE ConnectWriter(w)
  BY <1>1, HeldSame, AskedStutter DEF ConnectWriter, locals
<1>2. CASE Take(w)
  BY <1>2, HeldTake, AskedStutter DEF Take, locals
<1>3. ASSUME NEW x \in Messages, Served(w, x) PROVE Asked'
  <2>1. \A m \in Messages : (Held(m)' => Held(m)) /\ (Once(m) => Once(m)')
    BY <1>3, HeldServed
  <2>2. Held(x) /\ (Once(x) => ~Held(x)')
    BY <1>3, HeldServed
  <2>3. event' = event \/ (Asks(x) /\ event' = [event EXCEPT ![x.by] = TRUE])
    BY <1>3 DEF Served, Applied, Refused, Crashed, Obeyed, Asks
  <2>4. UNCHANGED pc
    BY <1>3 DEF Served
  <2>5. Asks(x) => ~Held(x)'
    BY <2>2 DEF Asked
  <2> QED
    BY <2>1, <2>2, <2>3, <2>4, <2>5, AskedTold
<1> QED
  BY <1>1, <1>2, <1>3, WriterServes

\* The calls and steps of a controller.
LEMMA AskedController ==
    ASSUME TypeOK, Asked, NEW c \in Controllers, Call(c) \/ ControllerStep(c)
    PROVE  Asked'
<1>0. \A m \in Messages : Asks(m) => m.by \in Controllers
  BY Distinct DEF Asks
<1>1. \A m \in Messages : Asks(m) /\ Held(m) => pc[m.by] \in {"pause_wait", "unpause_wait"} /\ ~event[m.by]
  BY DEF Asked
<1>2. ASSUME UNCHANGED <<queue, task, event>>,
             \/ pc' = pc
             \/ /\ pc[c] \notin {"pause_wait", "unpause_wait"} \/ event[c]
                /\ \E x \in Points : pc' = [pc EXCEPT ![c] = x]
      PROVE  Asked'
  <2>1. \A m \in Messages : Asks(m) /\ Held(m) => pc'[m.by] = pc[m.by]
    BY <1>0, <1>1, <1>2 DEF TypeOK, Threads
  <2> QED
    BY <1>2, <2>1, HeldSame, AskedStutter
<1>3. CASE start(c)
  BY <1>2, <1>3 DEF start
<1>4. CASE stop(c) \/ pause(c) \/ unpause(c)
  <2>1. /\ UNCHANGED <<queue, task, event>> /\ pc[c] \in {"run", "paused"}
        /\ \E x \in {"run", "stop_put", "pause_put", "unpause_put"} : pc' = [pc EXCEPT ![c] = x]
    BY <1>4 DEF stop, pause, unpause, CallLocked, CallFrom, writers, Goto
  <2> QED
    BY <1>2, <2>1 DEF Points
<1>5. CASE Join(c) \/ DrainCheck(c)
  <2>1. /\ UNCHANGED <<queue, task, event>> /\ pc[c] \in {"join", "drain"}
        /\ \E x \in {"drain", "run", "drain_get"} : pc' = [pc EXCEPT ![c] = x]
    BY <1>5 DEF Join, DrainCheck, Goto, writers, locals
  <2> QED
    BY <1>2, <2>1 DEF Points
<1>6. CASE PauseReturn(c) \/ UnpauseReturn(c)
  <2>1. /\ UNCHANGED <<queue, task, event>> /\ event[c]
        /\ \E x \in {"run", "paused"} : pc' = [pc EXCEPT ![c] = x]
    BY <1>6 DEF PauseReturn, UnpauseReturn, IsSet, Goto, writers, locals
  <2> QED
    BY <1>2, <2>1 DEF Points
<1>7. CASE StopPut(c)
  <2>1. Put(Shutdown) /\ UNCHANGED <<task, event>> /\ pc[c] = "stop_put" /\ pc' = [pc EXCEPT ![c] = "join"]
    BY <1>7 DEF StopPut, Goto, writers
  <2>2. \A m \in Messages : Asks(m) => m # Shutdown
    BY MessageMakers DEF Asks
  <2>3. \A m \in Messages : Asks(m) => (Held(m)' => Held(m)) /\ (Once(m) => Once(m)')
    BY <2>1, <2>2, HeldPut, MessageMakers
  <2>4. \A m \in Messages : Asks(m) /\ Held(m) => pc'[m.by] = pc[m.by]
    BY <1>0, <1>1, <2>1 DEF TypeOK, Threads
  <2> QED
    BY <2>1, <2>3, <2>4, AskedStutter
<1>8. CASE DrainGet(c)
  <2> DEFINE x == Head(queue)
  <2>1. /\ pc[c] = "drain_get" /\ pc' = [pc EXCEPT ![c] = "drain"]
        /\ \/ event' = event
           \/ Asks(x) /\ event' = [event EXCEPT ![x.by] = TRUE]
    BY <1>8 DEF DrainGet, Goto, Asks
  <2>2. x \in Messages
    BY <1>8, HeldDrain
  <2>3. PICK y \in Messages : y = x
    BY <2>2
  <2>4. \A m \in Messages : (Held(m)' => Held(m)) /\ (Once(m) => Once(m)')
    BY <1>8, HeldDrain
  <2>5. Held(y) /\ (Once(y) => ~Held(y)')
    BY <1>8, <2>3, HeldDrain
  <2>6. \A m \in Messages : Asks(m) /\ Held(m) => pc'[m.by] = pc[m.by]
    BY <1>0, <1>1, <2>1 DEF TypeOK, Threads
  <2>7. event' = event \/ (Asks(y) /\ event' = [event EXCEPT ![y.by] = TRUE])
    BY <2>1, <2>3
  <2>8. Asks(y) => ~Held(y)'
    BY <2>5 DEF Asked
  <2> QED
    BY <2>4, <2>5, <2>6, <2>7, <2>8, AskedTold
<1>9. ASSUME NEW op \in {"pause", "unpause"}, ControlPut(c, op),
             pc[c] \in {"pause_put", "unpause_put"},
             pc' = [pc EXCEPT ![c] = IF op = "pause" THEN "pause_wait" ELSE "unpause_wait"]
      PROVE  Asked'
  <2>1. PICK x \in Messages : x = Control(op, c) /\ x.op = op /\ x.by = c /\ Asks(x)
    BY MessageMakers, Distinct DEF Asks
  <2>2. Put(x) /\ task' = task /\ event' = [event EXCEPT ![c] = FALSE]
    BY <1>9, <2>1 DEF ControlPut, writers
  <2> SUFFICES ASSUME NEW m \in Messages, Asks(m)
               PROVE  /\ Once(m)'
                      /\ Held(m)' => /\ ~event'[m.by]
                                     /\ pc'[m.by] = IF m.op = "pause" THEN "pause_wait"
                                                    ELSE "unpause_wait"
    BY DEF Asked, Asks
  <2>3. m.by = c => ~Held(m)
    BY <1>1, <1>9
  <2>4. Once(m)'
    BY <2>1, <2>2, <2>3, HeldPut DEF Asked
  <2>5. Held(m)' => Held(m) \/ m = x
    BY <2>2, HeldPut
  <2>6. CASE m.by # c
    <3>1. pc'[m.by] = pc[m.by] /\ event'[m.by] = event[m.by]
      BY <1>0, <1>9, <2>2, <2>6 DEF TypeOK, Threads
    <3> QED
      BY <2>1, <2>4, <2>5, <2>6, <3>1 DEF Asked
  <2>7. CASE m = x
    BY <1>9, <2>1, <2>2, <2>4, <2>7 DEF TypeOK, Threads
  <2> QED
    BY <2>3, <2>4, <2>5, <2>6, <2>7
<1>10. CASE PausePut(c)
  BY <1>9, <1>10 DEF PausePut, Goto
<1>11. CASE UnpausePut(c)
  BY <1>9, <1>11 DEF UnpausePut, Goto
<1> QED
  BY <1>3, <1>4, <1>5, <1>6, <1>7, <1>8, <1>10, <1>11 DEF Call, ControllerStep

\* Every step keeps the messages on their way.
LEMMA AskedNext == ASSUME TypeOK, Asked, [Next]_vars PROVE Asked'
<1>1. ASSUME NEW t \in Clients, ClientStep(t) PROVE Asked'
  <2>1. /\ UNCHANGED <<task, event>>
        /\ \E x \in {"run", "wait"} : pc' = [pc EXCEPT ![t] = x]
    BY <1>1 DEF ClientStep, Submit, GetResult, ResultTimeout, Goto, writers, locals
  <2>2. \A m \in Messages : Asks(m) => pc'[m.by] = pc[m.by]
    BY <2>1, Distinct DEF TypeOK, Threads, Asks
  <2>3. CASE UNCHANGED queue
    BY <2>1, <2>2, <2>3, HeldSame, AskedStutter
  <2>4. CASE Submit(t)
    <3>1. PICK i \in Writes : Put(Query(i))
      BY <2>4, SubmittedType DEF Submit, Writes
    <3>2. Query(i) \in Messages /\ \A m \in Messages : Asks(m) => m # Query(i)
      BY MessageMakers DEF Asks
    <3>3. \A m \in Messages : Asks(m) => (Held(m)' => Held(m)) /\ (Once(m) => Once(m)')
      BY <2>1, <3>1, <3>2, HeldPut
    <3> QED
      BY <2>1, <2>2, <3>3, AskedStutter
  <2> QED
    BY <1>1, <2>3, <2>4 DEF ClientStep, GetResult, ResultTimeout
<1>2. CASE UNCHANGED vars
  <2>1. UNCHANGED <<queue, task, event, pc>>
    BY <1>2 DEF vars, writers, locals
  <2> QED
    BY <2>1, HeldSame, AskedStutter
<1> QED
  BY <1>1, <1>2, AskedWriter, AskedController DEF Next, Finished

\* Where one thread makes the calls, a step that lets a writer run is a step of a
\* controller that is not in between.
LEMMA GrantedNext ==
    ASSUME \A c, d \in Controllers : c = d, TypeOK, Made, Successor, Asked, Granted,
           [Next]_vars
    PROVE  Granted'
<1>1. ASSUME mode' = mode, event' = event,
             \A c \in Controllers :
                \/ pc'[c] = pc[c] \/ pc'[c] \notin {"pause_wait", "paused"}
                \/ pc[c] = "pause_wait" /\ event[c]
      PROVE  Granted'
  BY <1>1 DEF Granted, Quiet
<1>2. ASSUME NEW w \in Writers, WriterStep(w) PROVE Granted'
  <2>1. CASE ConnectWriter(w)
    BY <2>1 DEF ConnectWriter, locals, Granted, Quiet, TypeOK
  <2>2. CASE Take(w)
    BY <1>1, <2>2 DEF Take, locals
  <2>3. ASSUME NEW m \in Messages, Served(w, m) PROVE Granted'
    <3>1. UNCHANGED pc /\ task[w] = <<m>> /\ Held(m)
      BY <2>3, HeldServed DEF Served
    <3>2. mode[w] \in Alive
      BY <3>1, <<m>> # <<>> DEF Made, Alive
    <3>3. \A v \in Writers : v # w => mode[v] \notin Alive
      BY <3>2 DEF Successor
    <3>4. CASE m.op = "pause"
      <4>1. mode' = [mode EXCEPT ![w] = "paused"]
        BY <2>3, <3>4 DEF Served, Applied, Refused, Crashed, Obeyed
      <4> QED
        BY <3>3, <4>1 DEF Granted, Quiet, Alive, TypeOK
    <3>5. CASE m.op = "unpause"
      <4>1. m.by \in Controllers /\ pc[m.by] = "unpause_wait"
        BY <3>1, <3>5, Distinct DEF Asked, Asks
      <4> QED
        BY <3>1, <4>1 DEF Granted
    <3>6. CASE m.op \notin {"pause", "unpause"}
      <4>1. event' = event
        BY <2>3, <3>6, MessageFacts DEF Served, Applied, Refused, Crashed, Obeyed
      <4>2. mode' = mode \/ \E x \in {"crashed", "dead"} : mode' = [mode EXCEPT ![w] = x]
        BY <2>3, <3>6 DEF Served, Applied, Refused, Crashed, Obeyed
      <4>3. Quiet => Quiet'
        BY <4>2 DEF Quiet, TypeOK
      <4> QED
        BY <3>1, <4>1, <4>3 DEF Granted
    <3> QED
      BY <3>4, <3>5, <3>6
  <2> QED
    BY <1>2, <2>1, <2>2, <2>3, WriterServes
<1>3. ASSUME NEW c \in Controllers, Call(c) \/ ControllerStep(c) PROVE Granted'
  <2>1. CASE start(c)
    BY <2>1 DEF start, CallFrom, Granted
  <2>2. CASE stop(c) \/ pause(c) \/ unpause(c)
    <3>1. /\ UNCHANGED <<mode, event>>
          /\ \E x \in {"run", "stop_put", "pause_put", "unpause_put"} : pc' = [pc EXCEPT ![c] = x]
      BY <2>2 DEF stop, pause, unpause, CallLocked, writers, Goto
    <3> QED
      BY <1>1, <3>1 DEF TypeOK, Threads
  <2>3. CASE StopPut(c) \/ Join(c) \/ DrainCheck(c) \/ DrainGet(c)
    <3>1. \E x \in {"join", "drain", "drain_get", "run"} : pc' = [pc EXCEPT ![c] = x]
      BY <2>3 DEF StopPut, Join, DrainCheck, DrainGet, Goto
    <3> QED
      BY <3>1 DEF Granted, TypeOK, Threads
  <2>4. CASE PausePut(c) \/ UnpausePut(c)
    <3>1. /\ event' = [event EXCEPT ![c] = FALSE]
          /\ \E x \in {"pause_wait", "unpause_wait"} : pc' = [pc EXCEPT ![c] = x]
      BY <2>4 DEF PausePut, UnpausePut, ControlPut, Goto
    <3> QED
      BY <3>1 DEF Granted, TypeOK, Threads
  <2>5. CASE PauseReturn(c) \/ UnpauseReturn(c)
    <3>1. UNCHANGED <<mode, event>>
      BY <2>5 DEF PauseReturn, UnpauseReturn, writers, locals
    <3>2. \/ pc' = [pc EXCEPT ![c] = "run"]
          \/ pc[c] = "pause_wait" /\ event[c] /\ pc' = [pc EXCEPT ![c] = "paused"]
      BY <2>5 DEF PauseReturn, UnpauseReturn, IsSet, Goto
    <3> QED
      BY <1>1, <3>1, <3>2 DEF TypeOK, Threads
  <2> QED
    BY <1>3, <2>1, <2>2, <2>3, <2>4, <2>5 DEF Call, ControllerStep
<1>4. ASSUME NEW t \in Clients, ClientStep(t) PROVE Granted'
  <2>1. /\ UNCHANGED <<mode, event>>
        /\ \E x \in {"run", "wait"} : pc' = [pc EXCEPT ![t] = x]
    BY <1>4 DEF ClientStep, Submit, GetResult, ResultTimeout, Goto, writers, locals
  <2> QED
    BY <1>1, <2>1 DEF TypeOK, Threads
<1>5. CASE UNCHANGED vars
  BY <1>1, <1>5 DEF vars, writers, locals
<1> QED
  BY <1>2, <1>3, <1>4, <1>5 DEF Next, Finished

\* Where one thread makes the calls, no writer is connected to the file from the
\* return of its pause() to its next call, whatever fails, however many clients go on
\* writing and however often the database was stopped and started before.
THEOREM PausesExclude ==
    ASSUME \A c, d \in Controllers : c = d
    PROVE  Spec => []PauseExclusive
<1>1. Serialized
  BY DEF Serialized
<1>2. TypeOK /\ Asked /\ [Next]_vars => Asked'
  BY AskedNext
<1>3. TypeOK /\ Made /\ Successor /\ Asked /\ Granted /\ [Next]_vars => Granted'
  BY GrantedNext
<1>4. Granted => PauseExclusive
  BY DEF Granted, Quiet, PauseExclusive
<1>5. Spec => [](TypeOK /\ HandsInv /\ Made /\ Successor /\ StopInv)
  BY <1>1, OneStopAlways
<1> QED
  BY <1>2, <1>3, <1>4, <1>5, AskedInit, PTL DEF Spec
=============================================================================
