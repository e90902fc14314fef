-------------------------- MODULE MC_CaMonitorTask --------------------------
(* Instances of CaMonitorTask.                                             *)
EXTENDS CaMonitorTask

CONSTANT t1

OneTask == {t1}
NoTask  == {}

Noted == {"access", "type"}
=============================================================================
