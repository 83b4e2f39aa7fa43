--------------------------- MODULE SqliteConnections ---------------------------
(***************************************************************************)
(* SqliteDatabase: each thread has a connection of its own, and what the   *)
(* program registers (functions, aggregates, collations, attached files,   *)
(* extensions, pragmas) is kept on the database object, to be installed on *)
(* the caller's connection now and on every connection opened later.       *)
(*                                                                         *)
(* A registry, and a connection, is a record: functions (name -> which     *)
(* implementation), attached (schema -> file), extensions (a set) and      *)
(* pragmas (key -> value).                                                 *)
(***************************************************************************)
EXTENDS Integers, Sequences, FiniteSets, Functions

CONSTANTS
    Threads, FunctionNames, Versions,   \* what is registered under a name: functions, aggregates, collations
    Schemata, Files, Broken,    \* Broken: the files that cannot be opened
    Extensions, PragmaKeys, Settings, \* Extensions that fail to load are in Broken too
    Timeouts                     \* the values of timeout: the pragma busy_timeout of a connection

\* A name tells what it is the name of.
ASSUME SqliteAssumption ==
    /\ FunctionNames \cap Schemata = {} /\ FunctionNames \cap Extensions = {} /\ Schemata \cap Extensions = {}
    /\ "closed" \notin Extensions

VARIABLES registry, conn, busy, inTxn, fresh, dropped

sqliteVars == <<registry, conn, busy, inTxn, fresh, dropped>>

NoEntries == [n \in {} |-> 0]
Bare == [functions |-> NoEntries, attached |-> NoEntries, extensions |-> {}, pragmas |-> NoEntries]
Closed == [Bare EXCEPT !.extensions = {"closed"}]
IsOpen(t) == conn[t] # Closed
With(f, k, v) == [n \in DOMAIN f \cup {k} |-> IF n = k THEN v ELSE f[n]]
Without(f, k) == Restrict(f, DOMAIN f \ {k})

\* A database object, made by SqliteDatabase.__init__() with pragmas.
SqliteInit ==
    /\ \E k \in PragmaKeys, v \in Settings, s \in Timeouts :
         /\ registry = [Bare EXCEPT !.pragmas = With(NoEntries, k, v)]
         /\ busy = [now |-> s, of |-> [t \in Threads |-> s]]
    /\ conn = [t \in Threads |-> Closed]
    /\ inTxn = [t \in Threads |-> FALSE]
    /\ fresh = [t \in Threads |-> FALSE]
    /\ dropped = {}

Freshness(t) == fresh' = [u \in Threads |-> IF registry' = registry /\ u # t THEN fresh[u] ELSE FALSE]

-----------------------------------------------------------------------------

\* Mutation: a new connection gets the functions and pragmas alone.
AddConnHooksBare(r) == [Bare EXCEPT !.functions = r.functions, !.pragmas = r.pragmas]

\* _add_conn_hooks(): attached files, pragmas, functions and extensions.
AddConnHooks(r) == [r EXCEPT !.extensions = @ \ {"closed"}]
CanOpen(r) == Range(r.attached) \cap Broken = {} /\ r.extensions \cap Broken = {}

\* _connect(): a hook that fails closes the connection again.
Connect(t) ==
    /\ ~IsOpen(t)
    /\ CanOpen(registry)
    /\ conn' = [conn EXCEPT ![t] = AddConnHooks(registry)]
    /\ busy' = [busy EXCEPT !.of[t] = busy.now]
    /\ fresh' = [fresh EXCEPT ![t] = TRUE]
    /\ UNCHANGED <<registry, inTxn, dropped>>

Close(t) ==
    /\ IsOpen(t)
    /\ ~inTxn[t]
    /\ conn' = [conn EXCEPT ![t] = Closed]
    /\ fresh' = [fresh EXCEPT ![t] = FALSE]
    /\ UNCHANGED <<registry, busy, inTxn, dropped>>

Begin(t) ==
    /\ IsOpen(t)
    /\ inTxn' = [inTxn EXCEPT ![t] = ~@]
    /\ UNCHANGED <<registry, conn, busy, fresh, dropped>>

\* register_function(), register_aggregate(), register_collation() and
\* register_window_function(): all of the kind are loaded again.
Register(t, n, v) ==
    /\ registry' = [registry EXCEPT !.functions = With(@, n, v)]
    /\ conn' = IF IsOpen(t) THEN [conn EXCEPT ![t].functions = [m \in DOMAIN @ \cup DOMAIN registry'.functions |->
                        IF m \in DOMAIN registry'.functions THEN registry'.functions[m] ELSE @[m]]]
               ELSE conn
    /\ dropped' = dropped \ {n}
    /\ Freshness(t)
    /\ UNCHANGED <<busy, inTxn>>

\* unregister_function() and its like: a connection keeps what it has.
Unregister(t, n) ==
    /\ n \in DOMAIN registry.functions
    /\ registry' = [registry EXCEPT !.functions = Without(@, n)]
    /\ dropped' = dropped \cup {n}
    /\ Freshness(t)
    /\ UNCHANGED <<conn, busy, inTxn>>

\* attach(): the entry is made first; ATTACH fails inside of a transaction, and on
\* a file that cannot be opened.  A name that is taken is an error, or FALSE.
Attached(r, n, file) == [r EXCEPT !.attached = With(@, n, file)]
Attach(t, n, file) ==
    /\ n \notin DOMAIN registry.attached
    /\ registry' = Attached(registry, n, file)
    /\ conn' = IF IsOpen(t) /\ ~inTxn[t] /\ file \notin Broken /\ n \notin DOMAIN conn[t].attached
               THEN [conn EXCEPT ![t].attached = With(@, n, file)] ELSE conn
    /\ dropped' = dropped \ {n}
    /\ Freshness(t)
    /\ UNCHANGED <<busy, inTxn>>

\* detach(): the connections of other threads keep the file attached.
Detach(t, n) ==
    /\ n \in DOMAIN registry.attached
    /\ registry' = [registry EXCEPT !.attached = Without(@, n)]
    /\ conn' = IF IsOpen(t) /\ ~inTxn[t]
               THEN [conn EXCEPT ![t].attached = Without(@, n)] ELSE conn
    /\ dropped' = dropped \cup {n}
    /\ Freshness(t)
    /\ UNCHANGED <<busy, inTxn>>

\* load_extension(), unload_extension()
LoadExtension(t, e) ==
    /\ registry' = [registry EXCEPT !.extensions = @ \cup {e}]
    /\ conn' = IF IsOpen(t) /\ e \notin Broken THEN [conn EXCEPT ![t].extensions = @ \cup {e}] ELSE conn
    /\ dropped' = dropped \ {e}
    /\ Freshness(t)
    /\ UNCHANGED <<busy, inTxn>>
UnloadExtension(t, e) ==
    /\ e \in registry.extensions
    /\ registry' = [registry EXCEPT !.extensions = @ \ {e}]
    /\ dropped' = dropped \cup {e}
    /\ Freshness(t)
    /\ UNCHANGED <<conn, busy, inTxn>>

\* pragma(): a permanent one is kept for later connections.  The database is
\* connected when it was not (execute_sql with autoconnect), before the value is set.
Pragma(t, k, v, permanent) ==
    /\ IsOpen(t)
    /\ registry' = IF permanent THEN [registry EXCEPT !.pragmas = With(@, k, v)] ELSE registry
    /\ conn' = [conn EXCEPT ![t].pragmas = With(@, k, v)]
    /\ Freshness(t)
    /\ UNCHANGED <<busy, inTxn, dropped>>

\* timeout: the connections of other threads keep the one they were opened with.
SetTimeout(t, s) ==
    /\ busy.now # s
    /\ busy' = [now |-> s, of |-> IF IsOpen(t) THEN [busy.of EXCEPT ![t] = s] ELSE busy.of]
    /\ fresh' = [u \in Threads |-> fresh[u] /\ u = t]
    /\ UNCHANGED <<registry, conn, inTxn, dropped>>

SqliteNext == \E t \in Threads :
    \/ Connect(t) \/ Close(t) \/ Begin(t)
    \/ \E n \in FunctionNames : Unregister(t, n) \/ \E v \in Versions : Register(t, n, v)
    \/ \E n \in Schemata : Detach(t, n) \/ \E file \in Files : Attach(t, n, file)
    \/ \E e \in Extensions : LoadExtension(t, e) \/ UnloadExtension(t, e)
    \/ \E k \in PragmaKeys, v \in Settings, p \in BOOLEAN : Pragma(t, k, v, p)
    \/ \E s \in Timeouts : SetTimeout(t, s)

SqliteSpec == SqliteInit /\ [][SqliteNext]_sqliteVars

-----------------------------------------------------------------------------
\* A connection that was just opened has all that is registered; and what a
\* connection has, the next one will have too, but for what somebody unregistered,
\* detached or unloaded in between: nobody's closing and reopening takes away what
\* the thread was given.
SettingsLast ==
    \A t \in Threads : IsOpen(t) =>
        /\ fresh[t] => conn[t] = registry /\ busy.of[t] = busy.now
        /\ DOMAIN conn[t].functions \subseteq DOMAIN registry.functions \cup dropped
        /\ DOMAIN conn[t].attached \subseteq DOMAIN registry.attached \cup dropped
        /\ conn[t].extensions \subseteq registry.extensions \cup dropped
=============================================================================
