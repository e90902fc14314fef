---------------------------- MODULE MC_CaClient ----------------------------
(***************************************************************************)
(* Small instances of the Channel Access client's CaSubscription and of    *)
(* AsyncBridge, checked in one run.  They share no variable, so each is    *)
(* explored while the other rests in its initial state: interleaving them  *)
(* would multiply the states and show nothing new.                         *)
(*                                                                         *)
(* CaSubscription: c1 has a timeout, c2 waits forever.  AsyncBridge: two   *)
(* calls that gather tasks, of which c2's may wait for ever.               *)
(***************************************************************************)
EXTENDS CaSubscription, AsyncBridge

CONSTANTS c1, c2

Both     == {c1, c2}
First    == {c1}
Second   == {c2}

ClientInit == Init /\ BridgeInit

ClientNext ==
  \/ BridgeInit /\ Next /\ UNCHANGED bridgeVars
  \/ Init /\ BridgeNext /\ UNCHANGED vars

clientVars == <<vars, bridgeVars>>

ClientSpec == ClientInit /\ [][ClientNext]_clientVars /\ Fairness /\ BridgeFairness
=============================================================================
