----------------------------- MODULE WriteQueue -----------------------------
(***************************************************************************)
(* SqliteQueueDatabase, playhouse/sqliteq.py: threads hand their writes to *)
(* one writer thread through a queue, and start, stop, pause and unpause   *)
(* that thread with calls that are messages on the same queue.             *)
(*                                                                         *)
(* Queue.get and Queue.put are atomic; put blocks while the queue is full  *)
(* and get while it is empty.  The lock _qlock is held across the put of a *)
(* control message, so that it may be held for long, but never while its   *)
(* owner waits for the writer.  A writer takes a message and handles it in *)
(* two steps.                                                              *)
(*                                                                         *)
(* Writes are numbered in the order in which they enter the queue.  Every  *)
(* call of start() that finds the database stopped makes a new writer;     *)
(* they are numbered in the order of their creation.                       *)
(***************************************************************************)
EXTENDS Integers, Sequences, FiniteSets

CONSTANTS
    Clients,      \* threads that call execute_sql()
    Controllers,  \* threads that call start(), stop(), pause() and unpause()
    QueueSize,    \* queue_max_size
    MaxWrites,    \* bound on the writes submitted
    MaxWriters,   \* bound on the writer threads made
    MaxCalls,     \* bound on the calls of each controller
    Ops,          \* the calls and faults an instance has
    None          \* no thread

AllOps == {"pause", "timeout", "query_fails", "fetch_fails",
           "start_during_stop"}

ASSUME QueueAssumption ==
    /\ QueueSize \in Nat \ {0}
    /\ MaxWrites \in Nat /\ MaxWriters \in Nat /\ MaxCalls \in Nat
    /\ Ops \subseteq AllOps
    /\ Clients \cap Controllers = {}
    /\ None \notin Controllers

VARIABLES
    queue,      \* _write_queue
    qlock,      \* owner of _qlock, or None
    isStopped,  \* _is_stopped
    writer,     \* number of the thread in _writer, 0 if there was none
    mode,       \* mode[w]: what writer w is doing
    task,       \* task[w]: the messages w has taken and not handled, at most 1
    answer,     \* answer[i]: what the AsyncCursor of write i was told
    log,        \* the writes applied to the database file, in order
    pc,         \* pc[t]: where t is in the call it is making
    awaits,     \* awaits[c]: the write client c waits for
    event,      \* event[c]: the Event of controller c's last message is set
    joined,     \* joined[c]: the local variable writer of stop()
    calls,      \* calls[c]: calls controller c may still make
    pledged     \* pledged[c]: the writes in hands when c's stop() was queued

control == <<qlock, isStopped, writer>>
writers == <<mode, task>>
results == <<answer, log>>
locals  == <<event, joined, calls, pledged>>
vars    == <<queue, control, writers, results, pc, awaits, locals>>

Threads == Clients \cup Controllers
Writers == 1 .. MaxWriters
Writes  == 1 .. MaxWrites

Query(i)   == [op |-> "query", write |-> i]
Control(op, c) == [op |-> op, by |-> c]
Shutdown   == [op |-> "shutdown"]
Messages   == {Query(i) : i \in Writes} \cup {Shutdown}
                \cup {Control(op, c) : op \in {"pause", "unpause"}, c \in Controllers}

Alive   == {"starting", "running", "paused"}
Modes   == Alive \cup {"none", "dead", "crashed"}
Answers == {"none", "pending", "done", "failed", "paused", "shutdown"}
Points  == {"run", "wait", "stop_put", "join", "drain", "drain_get",
            "pause_put", "pause_wait", "paused", "unpause_put", "unpause_wait"}

\* The writes that are queued or with a writer.
InHands == {i \in Writes : \/ \E k \in DOMAIN queue : queue[k] = Query(i)
                            \/ \E w \in Writers : task[w] = <<Query(i)>>}

Submitted == Cardinality({i \in Writes : answer[i] # "none"})

Room == Len(queue) < QueueSize

\* Mutation: the queue is a stack.
PutFirst(m) == queue' = <<m>> \o queue

Put(m) == queue' = Append(queue, m)

\* Mutation: what has been read stays in the queue.
Peeked == UNCHANGED queue

Got == queue' = Tail(queue)

\* Mutation: nobody waits for an event.
IsSetAnyway(c) == TRUE

IsSet(c) == event[c]

\* Mutation: a thread is not waited for.
EndedAnyway(w) == TRUE

Ended(w) == mode[w] \notin Alive

Goto(t, point) == pc' = [pc EXCEPT ![t] = point]
Tell(i, what)  == answer' = [answer EXCEPT ![i] = what]

Init ==
    /\ queue = <<>> /\ qlock = None /\ isStopped = TRUE /\ writer = 0
    /\ mode = [w \in Writers |-> "none"]
    /\ task = [w \in Writers |-> <<>>]
    /\ answer = [i \in Writes |-> "none"] /\ log = <<>>
    /\ pc = [t \in Threads |-> "run"]
    /\ awaits = [t \in Clients |-> 0]
    /\ event = [c \in Controllers |-> FALSE]
    /\ joined = [c \in Controllers |-> 0]
    /\ calls = [c \in Controllers |-> MaxCalls]
    /\ pledged = [c \in Controllers |-> {}]

-----------------------------------------------------------------------------
(***************************************************************************)
(* Clients.                                                                *)
(***************************************************************************)

\* execute_sql() queues the write, stopped or not, and the cursor it returns
\* is waited for.
Submit(t) ==
    /\ pc[t] = "run"
    /\ Room /\ Submitted < MaxWrites
    /\ LET i == Submitted + 1
       IN  /\ Put(Query(i))
           /\ Tell(i, "pending")
           /\ awaits' = [awaits EXCEPT ![t] = i]
    /\ Goto(t, "wait")
    /\ UNCHANGED <<control, writers, log, locals>>

GetResult(t) ==
    /\ pc[t] = "wait"
    /\ answer[awaits[t]] # "pending"
    /\ Goto(t, "run")
    /\ UNCHANGED <<queue, control, writers, results, awaits, locals>>

\* ResultTimeout: the client goes on, the write stays where it is.
ResultTimeout(t) ==
    /\ "timeout" \in Ops
    /\ pc[t] = "wait"
    /\ answer[awaits[t]] = "pending"
    /\ Goto(t, "run")
    /\ UNCHANGED <<queue, control, writers, results, awaits, locals>>

-----------------------------------------------------------------------------
(***************************************************************************)
(* Controllers.                                                            *)
(***************************************************************************)

\* A program that serialises start() and stop() does not start the database
\* while stop() has not returned.
Stopping == \E c \in Controllers : pc[c] \in {"join", "drain", "drain_get"}

CallFrom(c, points) ==
    /\ pc[c] \in points
    /\ calls[c] > 0
    /\ calls' = [calls EXCEPT ![c] = @ - 1]
    /\ qlock = None

start(c) ==
    /\ CallFrom(c, {"run"})
    /\ Stopping => "start_during_stop" \in Ops
    /\ \/ /\ ~isStopped
          /\ UNCHANGED <<isStopped, writer, mode>>
       \/ /\ isStopped
          /\ writer < MaxWriters
          /\ writer' = writer + 1
          /\ mode' = [mode EXCEPT ![writer + 1] = "starting"]
          /\ isStopped' = FALSE
    /\ UNCHANGED <<queue, qlock, task, results, pc, awaits, event, joined, pledged>>

\* stop(), pause() and unpause() begin alike: False when stopped, otherwise a
\* message is to be put with the lock held.
CallLocked(c, points, first) ==
    /\ CallFrom(c, points)
    /\ \/ /\ isStopped
          /\ Goto(c, "run")
          /\ UNCHANGED qlock
       \/ /\ ~isStopped
          /\ qlock' = c
          /\ Goto(c, first)
    /\ UNCHANGED <<queue, isStopped, writer, writers, results, awaits, event,
                   joined, pledged>>

stop(c) == CallLocked(c, {"run", "paused"}, "stop_put")

pause(c) == "pause" \in Ops /\ CallLocked(c, {"run"}, "pause_put")

unpause(c) == "pause" \in Ops /\ CallLocked(c, {"run", "paused"}, "unpause_put")

StopPut(c) ==
    /\ pc[c] = "stop_put" /\ Room
    /\ Put(Shutdown)
    /\ joined' = [joined EXCEPT ![c] = writer]
    /\ isStopped' = TRUE
    /\ qlock' = None
    /\ pledged' = [pledged EXCEPT ![c] = InHands]
    /\ Goto(c, "join")
    /\ UNCHANGED <<writer, writers, results, awaits, event, calls>>

Join(c) ==
    /\ pc[c] = "join"
    /\ Ended(joined[c])
    /\ Goto(c, "drain")
    /\ UNCHANGED <<queue, control, writers, results, awaits, locals>>

\* The queue is looked at, and then read: what was there may be gone.
DrainCheck(c) ==
    /\ pc[c] = "drain"
    /\ Goto(c, IF queue = <<>> THEN "run" ELSE "drain_get")
    /\ UNCHANGED <<queue, control, writers, results, awaits, locals>>

DrainGet(c) ==
    /\ pc[c] = "drain_get" /\ queue # <<>>
    /\ LET m == Head(queue)
       IN  /\ IF m.op = "query" THEN Tell(m.write, "shutdown")
              ELSE UNCHANGED answer
           /\ event' = IF m.op \in {"pause", "unpause"}
                       THEN [event EXCEPT ![m.by] = TRUE] ELSE event
    /\ Got
    /\ Goto(c, "drain")
    /\ UNCHANGED <<control, writers, log, awaits, joined, calls, pledged>>

ControlPut(c, op) ==
    /\ Room
    /\ Put(Control(op, c))
    /\ event' = [event EXCEPT ![c] = FALSE]
    /\ qlock' = None
    /\ UNCHANGED <<isStopped, writer, writers, results, awaits, joined, calls,
                   pledged>>

PausePut(c)   == pc[c] = "pause_put" /\ ControlPut(c, "pause") /\ Goto(c, "pause_wait")
UnpausePut(c) == pc[c] = "unpause_put" /\ ControlPut(c, "unpause") /\ Goto(c, "unpause_wait")

\* The program is to call unpause() next; it may also stop the database.
PauseReturn(c) ==
    /\ pc[c] = "pause_wait" /\ IsSet(c)
    /\ Goto(c, "paused")
    /\ UNCHANGED <<queue, control, writers, results, awaits, locals>>

UnpauseReturn(c) ==
    /\ pc[c] = "unpause_wait" /\ IsSet(c)
    /\ Goto(c, "run")
    /\ UNCHANGED <<queue, control, writers, results, awaits, locals>>

-----------------------------------------------------------------------------
(***************************************************************************)
(* The writer thread.                                                      *)
(***************************************************************************)

ConnectWriter(w) ==
    /\ mode[w] = "starting"
    /\ mode' = [mode EXCEPT ![w] = "running"]
    /\ UNCHANGED <<queue, control, task, results, pc, awaits, locals>>

Take(w) ==
    /\ mode[w] \in {"running", "paused"} /\ task[w] = <<>>
    /\ queue # <<>>
    /\ task' = [task EXCEPT ![w] = <<Head(queue)>>]
    /\ Got
    /\ UNCHANGED <<control, mode, results, pc, awaits, locals>>

Has(w, m, op) ==
    /\ task[w] = <<m>> /\ m.op = op
    /\ task' = [task EXCEPT ![w] = <<>>]
    /\ UNCHANGED <<queue, control, pc, awaits, joined, calls, pledged>>

\* execute() of a running writer: the write is applied and its cursor told.
Execute(w) ==
    /\ mode[w] = "running"
    /\ \E m \in Messages :
        /\ Has(w, m, "query")
        /\ log' = Append(log, m.write)
        /\ Tell(m.write, "done")
    /\ UNCHANGED <<mode, event>>

\* Mutation: the exception does not reach the cursor.
ExecuteFailsSilently(w) ==
    /\ "query_fails" \in Ops
    /\ mode[w] = "running"
    /\ \E m \in Messages :
        /\ Has(w, m, "query")
        /\ Tell(m.write, "done")
    /\ UNCHANGED <<mode, log, event>>

\* The database refuses the statement: its exception goes to the cursor.
ExecuteFails(w) ==
    /\ "query_fails" \in Ops
    /\ mode[w] = "running"
    /\ \E m \in Messages :
        /\ Has(w, m, "query")
        /\ Tell(m.write, "failed")
    /\ UNCHANGED <<mode, log, event>>

\* set_result() reads the rows outside of the try block: an exception there
\* undoes the statement and ends the writer, and nobody is told.
FetchFails(w) ==
    /\ "fetch_fails" \in Ops
    /\ mode[w] = "running"
    /\ \E m \in Messages :
        /\ Has(w, m, "query")
        /\ mode' = [mode EXCEPT ![w] = "crashed"]
    /\ UNCHANGED <<answer, log, event>>

\* Mutation: a paused writer discards writes.
RefuseSilently(w) ==
    /\ mode[w] = "paused"
    /\ \E m \in Messages : Has(w, m, "query")
    /\ UNCHANGED <<mode, answer, log, event>>

\* A paused writer refuses writes: WriterPaused.
RefusePaused(w) ==
    /\ mode[w] = "paused"
    /\ \E m \in Messages :
        /\ Has(w, m, "query")
        /\ Tell(m.write, "paused")
    /\ UNCHANGED <<mode, log, event>>

\* Pausing disconnects the writer before its caller is told; a writer that is
\* paused already just tells.
HandlePause(w) ==
    /\ \E m \in Messages :
        /\ Has(w, m, "pause")
        /\ event' = [event EXCEPT ![m.by] = TRUE]
    /\ mode' = [mode EXCEPT ![w] = "paused"]
    /\ UNCHANGED results

\* Mutation: a paused writer takes no notice of the message.
HandleUnpauseIgnored(w) ==
    /\ \E m \in Messages :
        /\ Has(w, m, "unpause")
        /\ event' = IF mode[w] = "paused" THEN event
                    ELSE [event EXCEPT ![m.by] = TRUE]
    /\ UNCHANGED <<mode, results>>

\* The caller is told first, the writer reconnects afterwards.
HandleUnpause(w) ==
    /\ \E m \in Messages :
        /\ Has(w, m, "unpause")
        /\ event' = [event EXCEPT ![m.by] = TRUE]
    /\ mode' = IF mode[w] = "paused" THEN [mode EXCEPT ![w] = "starting"] ELSE mode
    /\ UNCHANGED results

HandleShutdown(w) ==
    /\ Has(w, Shutdown, "shutdown")
    /\ mode' = [mode EXCEPT ![w] = "dead"]
    /\ UNCHANGED <<results, event>>

-----------------------------------------------------------------------------

WriterStep(w) ==
    \/ ConnectWriter(w) \/ Take(w) \/ Execute(w) \/ ExecuteFails(w)
    \/ FetchFails(w) \/ RefusePaused(w) \/ HandlePause(w) \/ HandleUnpause(w)
    \/ HandleShutdown(w)

ControllerStep(c) ==
    \/ StopPut(c) \/ Join(c) \/ DrainCheck(c) \/ DrainGet(c)
    \/ PausePut(c) \/ UnpausePut(c) \/ PauseReturn(c) \/ UnpauseReturn(c)

Call(c) == start(c) \/ stop(c) \/ pause(c) \/ unpause(c)

ClientStep(t) == Submit(t) \/ GetResult(t) \/ ResultTimeout(t)

\* Nothing is left to do: the writers are idle, and whoever still waits has
\* submitted to a database that is stopped.
Finished ==
    /\ queue = <<>> \/ isStopped
    /\ \A w \in Writers : mode[w] # "starting" /\ task[w] = <<>>
    /\ \A t \in Clients : pc[t] = "run" \/ isStopped
    /\ \A c \in Controllers : pc[c] \in {"run", "paused"}
    /\ UNCHANGED vars

Next ==
    \/ \E w \in Writers : WriterStep(w)
    \/ \E c \in Controllers : ControllerStep(c) \/ Call(c)
    \/ \E t \in Clients : ClientStep(t)
    \/ Finished

Spec == Init /\ [][Next]_vars

\* Threads that are in the middle of something go on with it.  Clients and
\* controllers need not begin anything.
Fairness ==
    /\ \A w \in Writers : WF_vars(WriterStep(w))
    /\ \A c \in Controllers : WF_vars(ControllerStep(c))

FairSpec == Spec /\ Fairness

-----------------------------------------------------------------------------
(***************************************************************************)
(* Properties.                                                             *)
(***************************************************************************)

TypeOK ==
    /\ queue \in Seq(Messages) /\ Len(queue) <= QueueSize
    /\ qlock \in Controllers \cup {None}
    /\ isStopped \in BOOLEAN
    /\ writer \in 0 .. MaxWriters
    /\ mode \in [Writers -> Modes]
    /\ task \in [Writers -> {<<>>} \cup {<<m>> : m \in Messages}]
    /\ answer \in [Writes -> Answers]
    /\ log \in Seq(Writes)
    /\ pc \in [Threads -> Points]
    /\ awaits \in [Clients -> 0 .. MaxWrites]
    /\ event \in [Controllers -> BOOLEAN]
    /\ joined \in [Controllers -> 0 .. MaxWriters]
    /\ calls \in [Controllers -> 0 .. MaxCalls]
    /\ pledged \in [Controllers -> SUBSET Writes]

\* There is one writer thread, and so one connection that writes.
OneWriter == Cardinality({w \in Writers : mode[w] \in Alive}) <= 1

\* One thread at a time takes writes from the queue (Writer.run()), and every
\* variable keeps its type.
WriterSound == TypeOK /\ OneWriter

\* Writes reach the file in the order in which they were submitted, over
\* pauses and restarts.
InOrder == \A i, j \in DOMAIN log : i < j => log[i] < log[j]

\* A client that is told its write was refused will not find it in the file,
\* and one that is told it succeeded does.
Told == \A i \in Writes : answer[i] = "done" <=> \E k \in DOMAIN log : log[k] = i

\* An answer is final: no write is dealt with twice.
AnswerStands ==
    [][\A i \in Writes : answer[i] \notin {"none", "pending"}
            => answer'[i] = answer[i]]_vars

\* Between pause() and unpause() no writer is connected to the file.
PauseExclusive ==
    \A c \in Controllers : pc[c] = "paused" =>
        \A w \in Writers : mode[w] \notin {"starting", "running"}

\* When stop() comes to empty the queue after a writer that ended as it was told,
\* everything that was submitted before it has been dealt with.
Flushed ==
    \A c \in Controllers :
        /\ pc[c] \in {"drain", "drain_get"}
        /\ mode[joined[c]] = "dead"
        => \A i \in pledged[c] : answer[i] \notin {"pending", "shutdown"}

\* A write that is in the hands of a database that is not stopped is answered,
\* also when the database is stopped at once.
Answered ==
    \A i \in Writes :
        (answer[i] = "pending" /\ ~isStopped) ~> answer[i] # "pending"

\* stop(), pause() and unpause() return.
Returns ==
    \A c \in Controllers :
        pc[c] \notin {"run", "paused"} ~> pc[c] \in {"run", "paused"}

=============================================================================
