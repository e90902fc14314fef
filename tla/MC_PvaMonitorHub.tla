-------------------------- MODULE MC_PvaMonitorHub --------------------------
(* An instance of PvaMonitorHub: one monitor that squashes at two values,  *)
(* and one drainer.                                                        *)
EXTENDS PvaMonitorHub

CONSTANTS m1, d1

OneMonitor == {m1}
OneDrainer == {d1}

LimitTwo == [m \in Monitors |-> 2]
=============================================================================
