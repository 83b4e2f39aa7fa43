---------------------------- MODULE MCWriteQueue ----------------------------
(***************************************************************************)
(* Instances of WriteQueue for TLC.                                        *)
(***************************************************************************)
EXTENDS WriteQueue, TLC

Symmetry == Permutations(Clients) \cup Permutations(Controllers)

\* Programs that do not call start() before stop() has returned.
OrderlyOps == {"pause", "timeout", "query_fails"}

\* The same, with a writer that may end while nobody expects it.
FaultOps   == OrderlyOps \cup {"fetch_fails"}
=============================================================================
