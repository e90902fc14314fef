--------------------------- MODULE PvaMonitorHub ---------------------------
(***************************************************************************)
(* src/pva/hub.rs: many pvAccess monitors, one wake.                       *)
(*                                                                         *)
(* Every monitor has a queue filled by the callbacks of its wire task on a *)
(* runtime worker.  The hub's ready channel carries only which monitors    *)
(* have something queued; recv_batch pulls the signalled ids and empties   *)
(* the queue of each of them under the lock of the subscription map.       *)
(*                                                                         *)
(* The n-th event a monitor's wire reports is modelled as the number n: a  *)
(* queued item holds the newest event it stands for (last, the value) and  *)
(* the set of events merged into it (covers, the union of the changed      *)
(* sets: frame n marks "field" n).                                         *)
(***************************************************************************)
EXTENDS Naturals, Sequences, FiniteSets

CONSTANTS
  Monitors,   (* subscription ids; next_id hands each out once             *)
  Drainers,   (* concurrent recv_batch calls                               *)
  Limit,      (* Limit[m]: the queue limit of monitor m                    *)
  MaxEvents   (* bound: events one wire reports, the initial item included *)

ASSUME HubAssumption ==
  /\ Limit \in [Monitors -> Nat \ {0}]     \* queue_limit ends in max(1)
  /\ MaxEvents \in Nat \ {0}

VARIABLES
  subs,       \* keys of the subscription map
  control,    \* monitors whose entry holds its handle
  opener,     \* opener[m]: where the subscribe call of m is
  closing,    \* close() has emptied the map and not yet closed the drain
  wire,       \* wire[m]: state of the client's monitor task
  dropped,    \* monitors whose handle was stopped or dropped
  posting,    \* monitors whose callback is between the unlock and the send
  log,        \* log[m]: kinds of the events reported so far (history)
  queue,      \* queue[m]: Queue.items
  signalled,  \* signalled[m]: Queue.signalled
  ready,      \* the unbounded ready channel
  receiving,  \* the receiver exists: the hub's Drain is not closed
  pc,         \* pc[d]: where the recv_batch call d is
  hand,       \* hand[d]: ids pulled and not yet taken
  batch,      \* batch[d][m]: items of m taken and not yet returned
  delivered   \* delivered[m]: items recv_batch returned (history)

mapVars   == <<subs, control, opener, closing>>
wireVars  == <<wire, dropped, posting, log>>
queueVars == <<queue, signalled>>
chanVars  == <<ready, receiving>>
drainVars == <<pc, hand, batch, delivered>>
vars == <<mapVars, wireVars, queueVars, chanVars, drainVars>>

Kinds == {"value", "connected", "disconnected", "finished"}

Item == [kind: Kinds, last: Nat, covers: SUBSET Nat]

Single(kind, n) == [kind |-> kind, last |-> n, covers |-> {n}]

-----------------------------------------------------------------------------
(* The queue of one Monitor.                                               *)

Values(q) == Cardinality({i \in DOMAIN q : q[i].kind = "value"})

Squash_DropMarks(item, n) == Single("value", n)

(* Newer wins, changed sets union.                                         *)
Squash(item, n) == [item EXCEPT !.last = n, !.covers = @ \cup {n}]

PushValue_NoLimit(m, q, n) == Append(q, Single("value", n))

PushValue_AnyTail(m, q, n) ==
  IF Values(q) >= Limit[m] THEN [q EXCEPT ![Len(q)] = Squash(@, n)]
  ELSE Append(q, Single("value", n))

(* push_value: squash into a tail value once Limit[m] values are queued.   *)
PushValue(m, q, n) ==
  IF Values(q) >= Limit[m] /\ q[Len(q)].kind = "value"
  THEN [q EXCEPT ![Len(q)] = Squash(@, n)]
  ELSE Append(q, Single("value", n))

Push(m, q, kind, n) ==
  IF kind = "value" THEN PushValue(m, q, n) ELSE Append(q, Single(kind, n))

SignalSends_Always(m) == TRUE

(* signal: whoever sets the flag sends the id, after the queue's unlock.   *)
SignalSends(m) == ~signalled[m]

(* The receiver may be gone: then the id is dropped.                       *)
SendReady(m) == ready' = IF receiving THEN Append(ready, m) ELSE ready

TakeQueue_KeepsSignalled(m) ==
  /\ queue' = [queue EXCEPT ![m] = <<>>]
  /\ UNCHANGED signalled

TakeQueue(m) ==
  /\ queue' = [queue EXCEPT ![m] = <<>>]
  /\ signalled' = [signalled EXCEPT ![m] = FALSE]

(* recv_batch holds the map's lock while it empties the queues.            *)
SubsFree == \A d \in Drainers : pc[d] # "taking"

-----------------------------------------------------------------------------
Init ==
  /\ subs = {}
  /\ control = {}
  /\ opener = [m \in Monitors |-> "new"]
  /\ closing = FALSE
  /\ wire = [m \in Monitors |-> "none"]
  /\ dropped = {}
  /\ posting = {}
  /\ log = [m \in Monitors |-> <<>>]
  /\ queue = [m \in Monitors |-> <<>>]
  /\ signalled = [m \in Monitors |-> FALSE]
  /\ ready = <<>>
  /\ receiving = TRUE
  /\ pc = [d \in Drainers |-> "idle"]
  /\ hand = [d \in Drainers |-> <<>>]
  /\ batch = [d \in Drainers |-> [m \in Monitors |-> <<>>]]
  /\ delivered = [m \in Monitors |-> <<>>]

-----------------------------------------------------------------------------
(* subscribe                                                               *)

Register(m) ==
  /\ opener[m] = "new"
  /\ SubsFree
  /\ subs' = subs \cup {m}
  /\ opener' = [opener EXCEPT ![m] = "opening"]
  /\ queue' = [queue EXCEPT ![m] = <<Single("disconnected", 1)>>]
  /\ log' = [log EXCEPT ![m] = <<"disconnected">>]
  /\ UNCHANGED <<control, closing, wire, dropped, posting, signalled, chanVars, drainVars>>

(* The client starts the monitor task inside open(): its callbacks may run *)
(* before open() returns.                                                  *)
WireStarts(m) ==
  /\ opener[m] = "opening" /\ wire[m] = "none"
  /\ wire' = [wire EXCEPT ![m] = "down"]
  /\ UNCHANGED <<mapVars, dropped, posting, log, queueVars, chanVars, drainVars>>

OpenFails(m) ==
  /\ opener[m] = "opening" /\ wire[m] = "none"
  /\ SubsFree
  /\ subs' = subs \ {m}
  /\ opener' = [opener EXCEPT ![m] = "failed"]
  /\ UNCHANGED <<control, closing, wireVars, queueVars, chanVars, drainVars>>

KeepHandle_Always(m) ==
  control' = control \cup {m} /\ UNCHANGED dropped

(* Into the entry, or dropped with the call when the entry was closed      *)
(* while it was opening.                                                   *)
KeepHandle(m) ==
  IF m \in subs
  THEN control' = control \cup {m} /\ UNCHANGED dropped
  ELSE dropped' = dropped \cup {m} /\ UNCHANGED control

OpenReturns(m) ==
  /\ opener[m] = "opening" /\ wire[m] # "none"
  /\ SubsFree
  /\ KeepHandle(m)
  /\ opener' = [opener EXCEPT ![m] = "opened"]
  /\ UNCHANGED <<subs, closing, wire, posting, log, queueVars, chanVars, drainVars>>

SignalOpen_Skipped(m) ==
  /\ opener[m] = "opened"
  /\ opener' = [opener EXCEPT ![m] = "done"]
  /\ UNCHANGED <<subs, control, closing, wireVars, queueVars, chanVars, drainVars>>

(* The final monitor.signal(monitor.lock()), in two steps.                 *)
SignalOpen(m) ==
  /\ opener[m] = "opened"
  /\ signalled' = [signalled EXCEPT ![m] = TRUE]
  /\ opener' = [opener EXCEPT ![m] = IF SignalSends(m) THEN "sending" ELSE "done"]
  /\ UNCHANGED <<subs, control, closing, wireVars, queue, chanVars, drainVars>>

SendOpen(m) ==
  /\ opener[m] = "sending"
  /\ opener' = [opener EXCEPT ![m] = "done"]
  /\ SendReady(m)
  /\ UNCHANGED <<subs, control, closing, wireVars, queueVars, receiving, drainVars>>

-----------------------------------------------------------------------------
(* The wire task's callbacks, one at a time.                               *)

Reports(state) ==
  CASE state = "down" -> {"connected"}
    [] state = "up"   -> {"value", "disconnected", "finished"}
    [] OTHER          -> {}

After(kind) ==
  CASE kind \in {"value", "connected"} -> "up"
    [] kind = "disconnected"           -> "down"
    [] kind = "finished"               -> "finished"

Report(m, kind) ==
  /\ kind \in Reports(wire[m])
  /\ m \notin posting
  /\ Len(log[m]) < MaxEvents
  /\ wire' = [wire EXCEPT ![m] = After(kind)]
  /\ log' = [log EXCEPT ![m] = Append(@, kind)]
  /\ queue' = [queue EXCEPT ![m] = Push(m, @, kind, Len(log[m]) + 1)]
  /\ signalled' = [signalled EXCEPT ![m] = TRUE]
  /\ posting' = IF SignalSends(m) THEN posting \cup {m} ELSE posting
  /\ UNCHANGED <<mapVars, dropped, chanVars, drainVars>>

SendPost(m) ==
  /\ m \in posting
  /\ posting' = posting \ {m}
  /\ SendReady(m)
  /\ UNCHANGED <<mapVars, wire, dropped, log, queueVars, receiving, drainVars>>

(* The client ends a task whose handle was stopped or dropped.             *)
WireStops(m) ==
  /\ m \in dropped \ posting /\ wire[m] # "stopped"
  /\ wire' = [wire EXCEPT ![m] = "stopped"]
  /\ UNCHANGED <<mapVars, dropped, posting, log, queueVars, chanVars, drainVars>>

-----------------------------------------------------------------------------
(* close_subscription and close                                            *)

CloseSubscription(m) ==
  /\ m \in subs /\ opener[m] = "done"
  /\ SubsFree
  /\ subs' = subs \ {m}
  /\ control' = control \ {m}
  /\ dropped' = dropped \cup ({m} \cap control)
  /\ UNCHANGED <<opener, closing, wire, posting, log, queueVars, chanVars, drainVars>>

CloseMonitors ==
  /\ ~closing
  /\ receiving \/ subs # {}
  /\ SubsFree
  /\ closing' = TRUE
  /\ subs' = {}
  /\ control' = {}
  /\ dropped' = dropped \cup control
  /\ UNCHANGED <<opener, wire, posting, log, queueVars, chanVars, drainVars>>

(* A subscribe may come between the two halves of close().                 *)
CloseDrain ==
  /\ closing
  /\ closing' = FALSE
  /\ receiving' = FALSE
  /\ ready' = <<>>
  /\ UNCHANGED <<subs, control, opener, wireVars, queueVars, drainVars>>

-----------------------------------------------------------------------------
(* do_recv_batch                                                           *)

(* recv the first id, then every other one already sent.                   *)
Pull(d) ==
  /\ pc[d] = "idle" /\ receiving /\ ready # <<>>
  /\ hand' = [hand EXCEPT ![d] = ready]
  /\ ready' = <<>>
  /\ pc' = [pc EXCEPT ![d] = "pulled"]
  /\ UNCHANGED <<mapVars, wireVars, queueVars, receiving, batch, delivered>>

(* Under the map's lock, take the queue of the next id; an id whose entry  *)
(* is gone is skipped.                                                     *)
Take(d) ==
  LET m == Head(hand[d])
  IN  /\ hand[d] # <<>>
      /\ pc[d] = "taking" \/ (pc[d] = "pulled" /\ SubsFree)
      /\ hand' = [hand EXCEPT ![d] = Tail(@)]
      /\ pc' = [pc EXCEPT ![d] = IF Len(hand[d]) = 1 THEN "returning" ELSE "taking"]
      /\ IF m \in subs
         THEN /\ batch' = [batch EXCEPT ![d][m] = @ \o queue[m]]
              /\ TakeQueue(m)
         ELSE UNCHANGED <<batch, queueVars>>
      /\ UNCHANGED <<mapVars, wireVars, chanVars, delivered>>

Return(d) ==
  /\ pc[d] = "returning"
  /\ delivered' = [m \in Monitors |-> delivered[m] \o batch[d][m]]
  /\ batch' = [batch EXCEPT ![d] = [m \in Monitors |-> <<>>]]
  /\ pc' = [pc EXCEPT ![d] = "idle"]
  /\ UNCHANGED <<mapVars, wireVars, queueVars, chanVars, hand>>

-----------------------------------------------------------------------------
Subscribe(m) ==
  \/ Register(m) \/ OpenFails(m) \/ OpenReturns(m)
  \/ SignalOpen(m) \/ SendOpen(m)

Wire(m) ==
  \/ WireStarts(m) \/ WireStops(m) \/ SendPost(m)
  \/ \E kind \in Kinds : Report(m, kind)

RecvBatch(d) == Pull(d) \/ Take(d) \/ Return(d)

Next ==
  \/ \E m \in Monitors : Subscribe(m) \/ Wire(m) \/ CloseSubscription(m)
  \/ CloseMonitors \/ CloseDrain
  \/ \E d \in Drainers : RecvBatch(d)

Spec == Init /\ [][Next]_vars

(* A started call runs on: the runtime polls its tasks, the dispatcher     *)
(* calls recv_batch in a loop, open() answers.  Nobody has to subscribe,   *)
(* report or close.                                                        *)
Fairness ==
  /\ \A m \in Monitors :
       /\ WF_vars(WireStarts(m) \/ OpenFails(m))
       /\ WF_vars(OpenReturns(m) \/ SignalOpen(m) \/ SendOpen(m))
       /\ WF_vars(SendPost(m))
  /\ WF_vars(\E d \in Drainers : Pull(d))
  /\ \A d \in Drainers : WF_vars(Take(d)) /\ WF_vars(Return(d))

FairSpec == Spec /\ Fairness

-----------------------------------------------------------------------------
(* Shape of the state; a closed ready channel holds nothing.               *)
TypeOK ==
  /\ subs \subseteq Monitors
  /\ control \subseteq Monitors
  /\ opener \in [Monitors -> {"new", "opening", "opened", "sending", "done", "failed"}]
  /\ closing \in BOOLEAN
  /\ wire \in [Monitors -> {"none", "down", "up", "finished", "stopped"}]
  /\ dropped \subseteq Monitors
  /\ posting \subseteq Monitors
  /\ log \in [Monitors -> Seq(Kinds)]
  /\ queue \in [Monitors -> Seq(Item)]
  /\ signalled \in [Monitors -> BOOLEAN]
  /\ ready \in Seq(Monitors)
  /\ receiving \in BOOLEAN
  /\ pc \in [Drainers -> {"idle", "pulled", "taking", "returning"}]
  /\ hand \in [Drainers -> Seq(Monitors)]
  /\ batch \in [Drainers -> [Monitors -> Seq(Item)]]
  /\ delivered \in [Monitors -> Seq(Item)]
  /\ ~receiving => ready = <<>>

Elems(s) == {s[i] : i \in DOMAIN s}

(* Somebody still carries the id of m towards its queue.                   *)
OnItsWay(m) ==
  \/ m \in posting
  \/ opener[m] = "sending"
  \/ m \in Elems(ready)
  \/ \E d \in Drainers : m \in Elems(hand[d])

(* No lost wake-up (Monitor::signal sends after the queue is unlocked,     *)
(* take clears the flag): while the hub is open, a monitor in the map with *)
(* queued items is signalled and its id is on its way to a drainer; only   *)
(* the item queued before the first signal waits for the opener.           *)
NoLostWakeup ==
  \A m \in subs :
    /\ queue[m] # <<>> => signalled[m] \/ opener[m] \in {"opening", "opened"}
    /\ signalled[m] /\ receiving => OnItsWay(m)

(* Where copies of the id of m travel.                                     *)
Places(m) ==
  {<<"posting">> : x \in {m} \cap posting}
    \cup (IF opener[m] = "sending" THEN {<<"opener">>} ELSE {})
    \cup {<<"ready", i>> : i \in {j \in DOMAIN ready : ready[j] = m}}
    \cup UNION {{<<"hand", d, i>> : i \in {j \in DOMAIN hand[d] : hand[d][j] = m}} :
                  d \in Drainers}

(* "A monitor signals its id once" per drain: at most one copy of an id    *)
(* travels, so the unbounded ready channel never outgrows the monitors.    *)
WakeOnce == \A m \in Monitors : \A x, y \in Places(m) : x = y

(* Everything of m from its first item on, with one drainer: returned,     *)
(* taken, still queued.                                                    *)
Stream(m) ==
  delivered[m] \o batch[CHOOSE d \in Drainers : TRUE][m] \o queue[m]

(* "Each monitor's items in arrival order", squashing included: the items  *)
(* of a monitor tile the events its wire reported, in order; a merged item *)
(* carries the newest value and every changed mark, and never swallows a   *)
(* connection event.                                                       *)
StreamIntact ==
  \A m \in Monitors :
    LET s == Stream(m)
        upto(i) == IF i = 0 THEN 0 ELSE s[i].last
    IN  /\ upto(Len(s)) = Len(log[m])
        /\ \A i \in DOMAIN s :
             /\ s[i].covers = upto(i - 1) + 1 .. s[i].last
             /\ \A n \in s[i].covers : log[m][n] = s[i].kind
             /\ s[i].kind # "value" => Cardinality(s[i].covers) = 1

(* What the limit does bound: a value beyond it is queued only behind a    *)
(* connection event, one per event.                                        *)
SquashBound ==
  \A m \in Monitors : LET q == queue[m]
                      IN  Values(q) <= Limit[m] + (Len(q) - Values(q))

(* No monitor task outlives its owner: a running wire has its handle in    *)
(* the map, is still being opened, or is being torn down; a close racing   *)
(* an open drops the handle the open returns.                              *)
NoOrphanWire ==
  /\ control \subseteq subs
  /\ \A m \in Monitors :
       wire[m] \in {"down", "up", "finished"} =>
         m \in control \cup dropped \/ opener[m] = "opening"

(* Every reported event of a monitor that stays open is returned by some   *)
(* recv_batch, however pushes and takes interleave.                        *)
EventuallyDelivered ==
  \A m \in Monitors : \A n \in 1..MaxEvents :
    (m \in subs /\ Len(log[m]) >= n) ~>
      \/ m \notin subs \/ ~receiving
      \/ \E i \in DOMAIN delivered[m] : delivered[m][i].last >= n

(* The queues, signals and locks above implement the stream MonitorStream  *)
(* promises ("Each monitor's items in arrival order"), with one drainer.   *)
Promise == INSTANCE MonitorStream WITH open <- subs, returned <- delivered

ImplementsStream == Promise!Spec
=============================================================================
