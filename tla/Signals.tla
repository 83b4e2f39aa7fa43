-------------------------------- MODULE Signals --------------------------------
(***************************************************************************)
(* playhouse/signals.py: a Signal keeps its receivers in a list, and send()*)
(* calls those that are meant one after another.  A receiver may itself    *)
(* connect and disconnect receivers, send the signal again for another     *)
(* instance (save() in a handler), or raise.                               *)
(*                                                                         *)
(* A receiver is known by its name and sender; "any" stands for None.      *)
(***************************************************************************)
EXTENDS Integers, Sequences, FiniteSets, SequencesExt

CONSTANTS
    Names, Classes,      \* names of receivers; classes of instances
    Bases,               \* Bases[c]: the classes an instance of c is an instance of
    MaxDepth, MaxCalls   \* bounds: sends inside of one another; calls of the program

VARIABLES receivers, list, sends, report, calls

signalVars == <<receivers, list, sends, report, calls>>

Keys == Names \X (Classes \cup {"any"})
Meant(key, c) == key[2] = "any" \/ key[2] \in Bases[c]

\* One send(): the instance's class, the list it walks through (own: still the
\* signal's own list, to which connect() appends), where it is, whom it called and
\* who was connected all the time.
Frame(c) == [class |-> c, own |-> TRUE, kept |-> <<>>, pos |-> 0, called |-> <<>>,
             since |-> SelectSeq(list, LAMBDA k : Meant(k, c))]
Walked(f) == IF f.own THEN list ELSE f.kept

Init ==
    /\ receivers = {} /\ list = <<>>
    /\ sends = <<>>
    /\ report = [called |-> <<>>, since |-> <<>>]
    /\ calls = 0

Called == calls < MaxCalls /\ calls' = calls + 1

\* connect(): ValueError when the name is taken for this sender.
Connect(key) ==
    /\ Called
    /\ key \notin receivers
    /\ receivers' = receivers \cup {key}
    /\ list' = Append(list, key)
    /\ UNCHANGED <<sends, report>>

\* disconnect() makes a new list: a send() that is under way walks on through the old one.
Forgets(f, key) == [f EXCEPT !.since = SelectSeq(@, LAMBDA k : k # key)]

Detached(f, key) == [Forgets(f, key) EXCEPT !.own = FALSE, !.kept = Walked(f)]
Disconnect(key) ==
    /\ Called
    /\ key \in receivers
    /\ receivers' = receivers \ {key}
    /\ list' = SelectSeq(list, LAMBDA k : k # key)
    /\ sends' = [i \in DOMAIN sends |-> Detached(sends[i], key)]
    /\ UNCHANGED report

Send(c) ==
    /\ Called
    /\ Len(sends) < MaxDepth
    /\ sends' = Append(sends, Frame(c))
    /\ UNCHANGED <<receivers, list, report>>

\* The innermost send() calls the next receiver that is meant, or returns.
NextMeant(f) ==
    {i \in (f.pos + 1)..Len(Walked(f)) :
        /\ Meant(Walked(f)[i], f.class)
        /\ \A j \in (f.pos + 1)..(i - 1) : ~Meant(Walked(f)[j], f.class)}
Calls ==
    /\ sends # <<>>
    /\ \E i \in NextMeant(Last(sends)) :
         sends' = [sends EXCEPT ![Len(sends)].pos = i,
                                ![Len(sends)].called = Append(@, Walked(Last(sends))[i])]
    /\ UNCHANGED <<receivers, list, report, calls>>
Returns ==
    /\ sends # <<>>
    /\ NextMeant(Last(sends)) = {}
    /\ report' = [called |-> Last(sends).called, since |-> Last(sends).since]
    /\ sends' = Front(sends)
    /\ UNCHANGED <<receivers, list, calls>>
\* A receiver raises: the error leaves every send() but those outside of a try.
Raises ==
    /\ sends # <<>> /\ Last(sends).called # <<>>
    /\ \E n \in 0..(Len(sends) - 1) : sends' = SubSeq(sends, 1, n)
    /\ UNCHANGED <<receivers, list, report, calls>>

Next ==
    \/ \E key \in Keys : Connect(key) \/ Disconnect(key)
    \/ \E c \in Classes : Send(c)
    \/ Calls \/ Returns \/ Raises

Spec == Init /\ [][Next]_signalVars

-----------------------------------------------------------------------------
\* A send() that returns has called every receiver of its class that was connected
\* from its beginning to its end, once and in the order they were connected,
\* whatever the receivers connected, disconnected or sent meanwhile; and nobody it
\* calls is called twice for it.
HeardOnce ==
    /\ IsInjective(report.called)
    /\ report.since = SelectSeq(report.called, LAMBDA k : Contains(report.since, k))
    /\ IsInjective(list) /\ receivers = ToSet(list)
=============================================================================
