-------------------------- MODULE MC_PvaServerOps --------------------------
(***************************************************************************)
(* Small instances of PvaServerOps.                                        *)
(***************************************************************************)
EXTENDS PvaServerOps, TLC

CONSTANTS p1, p2, q1, q2

\* Both PVs on one worker of the pool, and each on its own.
SharedOrNot == {p1 :> q1 @@ p2 :> q1, p1 :> q1 @@ p2 :> q2}

=============================================================================
