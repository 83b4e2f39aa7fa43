-------------------------- MODULE MCConnectionPool --------------------------
(***************************************************************************)
(* Instances of ConnectionPool for TLC.                                    *)
(***************************************************************************)
EXTENDS ConnectionPool, TLC

Symmetry == Permutations(Threads)

\* Everything that may happen to a pool, but for a manual_close() inside a
\* transaction, which loses a connection (see the README).
SafeOps == AllOps \ {"manual_close_in_txn"}

\* Connecting and closing only: who waits depends on nothing else.
WaitOps == {}

=============================================================================
