---------------------------- MODULE MCAsyncPool ----------------------------
(***************************************************************************)
(* Instances of AsyncPool for TLC.                                         *)
(***************************************************************************)
EXTENDS AsyncPool

\* Failures that the pool is written to survive, and those it does not survive
\* without a loss.
MCSettings ==
    {<<"sqlite", {"cancel", "drop"}>>,
     <<"server", {"drop", "rollback_fails"}>>,
     <<"sqlite", {"rollback_fails", "recreate_fails", "create_fails"}>>,
     <<"sqlite", {"rollback_fails", "cancel_release"}>>,
     <<"sqlite", {"rollback_fails", "cancel_gather"}>>,
     <<"server", {"cancel_gather"}>>,
     <<"sqlite", {"late_release"}>>,
     <<"sqlite", {"two_closers"}>>}
=============================================================================
