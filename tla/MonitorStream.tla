--------------------------- MODULE MonitorStream ---------------------------
(***************************************************************************)
(* What a pvAccess monitor promises whoever drains it, queues, locks and   *)
(* signals left out: the events the server reports reach the drain in      *)
(* order; consecutive updates may come as one item, which carries the      *)
(* newest value and every changed mark; a change of the connection is      *)
(* never merged.                                                           *)
(*                                                                         *)
(* PvaMonitorHub implements this (ImplementsStream there).                 *)
(***************************************************************************)
EXTENDS Naturals, Sequences

CONSTANT Monitors

VARIABLES
  open,      \* monitors nobody has closed
  log,       \* log[m]: kinds of the events reported, the n-th being number n
  returned   \* returned[m]: items the drain has got

vars == <<open, log, returned>>

Init ==
  /\ open = {} /\ log = [m \in Monitors |-> <<>>] /\ returned = [m \in Monitors |-> <<>>]

\* A monitor starts with the news that it is not connected.
Open(m) ==
  /\ log[m] = <<>>
  /\ open' = open \cup {m} /\ log' = [log EXCEPT ![m] = <<"disconnected">>]
  /\ UNCHANGED returned

\* What may follow what.
Follows(kind) ==
  CASE kind = "disconnected" -> {"connected"}
    [] kind \in {"connected", "value"} -> {"value", "disconnected", "finished"}
    [] kind = "finished" -> {}

Report(m) ==
  /\ log[m] # <<>>
  /\ \E kind \in Follows(log[m][Len(log[m])]) : log' = [log EXCEPT ![m] = Append(@, kind)]
  /\ UNCHANGED <<open, returned>>

\* The items of s stand for the events 1..n of l, each once, in order.
Tiles(s, l) ==
  LET upto(i) == IF i = 0 THEN 0 ELSE s[i].last
  IN  /\ upto(Len(s)) <= Len(l)
      /\ \A i \in DOMAIN s :
           /\ s[i].last > upto(i - 1) /\ s[i].covers = (upto(i - 1) + 1)..s[i].last
           /\ \A n \in s[i].covers : l[n] = s[i].kind
           /\ s[i].kind # "value" => s[i].last = upto(i - 1) + 1

\* The drain gets more items, of any monitors; what a close came too late
\* for is still returned.
Return ==
  /\ returned' # returned /\ DOMAIN returned' = Monitors
  /\ \A m \in Monitors : /\ Len(returned[m]) <= Len(returned'[m])
                         /\ SubSeq(returned'[m], 1, Len(returned[m])) = returned[m]
                         /\ Tiles(returned'[m], log[m])
  /\ UNCHANGED <<open, log>>

Close == open' \subseteq open /\ open' # open /\ UNCHANGED <<log, returned>>

Next == Close \/ Return \/ (\E m \in Monitors : Open(m) \/ Report(m))

Spec == Init /\ [][Next]_vars
=============================================================================
