---------------------------- MODULE MC_CaServer ----------------------------
(***************************************************************************)
(* Small instances of the Channel Access server's CaServedPV and           *)
(* CaWriteQueue, checked in one run.  They share no variable, so each is   *)
(* explored while the other rests in its initial state: interleaving them  *)
(* would multiply the states and show nothing new.                         *)
(*                                                                         *)
(* CaServedPV: two entries under two names or under one (in two            *)
(* providers), so that a server can fail part-way.  CaWriteQueue: two PVs  *)
(* that share a queue or have one each, and a PUT to either.               *)
(***************************************************************************)
EXTENDS CaServedPV, CaWriteQueue, TLC

CONSTANTS e1, e2, t1, t2, k1, k2, k3, p1, p2, q1, q2, u1, u2

Names == {e1 :> "x" @@ e2 :> "y", e1 :> "x" @@ e2 :> "x"}
Numbers == 1..2

Two == {p1, p2}
Either == {p1 :> q1 @@ p2 :> q1, p1 :> q1 @@ p2 :> q2}
To == u1 :> p1 @@ u2 :> p2

\* Threads and cells are interchangeable, and PutAnswered names neither.
Symmetry == Permutations({t1, t2}) \cup Permutations({k1, k2, k3})

ServerInit == Init /\ WriteInit

\* One initial state of the component at rest is enough.
ServedRests == Init /\ nameOf = CHOOSE n \in Names : TRUE
WriteRests  == WriteInit /\ flavour = "thread" /\ bare = {} /\ queueOf = CHOOSE l \in Either : TRUE

ServerNext ==
  \/ WriteRests /\ Next /\ UNCHANGED writeVars
  \/ ServedRests /\ WriteNext /\ UNCHANGED vars

serverVars == <<vars, writeVars>>

ServerSpec == ServerInit /\ [][ServerNext]_serverVars /\ WriteFairness
=============================================================================
