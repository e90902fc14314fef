--------------------------- MODULE MC_Dispatcher ---------------------------
(* Instances of Dispatcher: two subscriptions of one channel.              *)
EXTENDS Dispatcher

CONSTANTS s1, s2

TwoSubs == {s1, s2}
JustOne == {s1}
Nobody  == {}

Mixed   == {"connected", "value", "error", "end"}

Failing == {"raise", "refuse"}
Anything == Optional
=============================================================================
