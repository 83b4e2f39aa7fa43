--------------------------- MODULE MCTransactions ---------------------------
(***************************************************************************)
(* Instances of Transactions and NestedTransactions for TLC.               *)
(***************************************************************************)
EXTENDS Transactions, TLC

Symmetry == Permutations(Rows)

\* Blocks used as the documentation recommends, with the faults of a driver.
BlockOps == {"transaction", "savepoint", "with_db", "connection_context",
             "explicit", "lost", "commit_fails"}

\* Sessions, manual blocks, outer objects and close() in any mixture.
MixedOps == {"transaction", "savepoint", "with_db", "with_db_nested",
             "connection_context", "explicit", "explicit_outer", "session",
             "manual", "close"}
=============================================================================
